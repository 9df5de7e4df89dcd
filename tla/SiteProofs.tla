------------------------------- MODULE SiteProofs -------------------------------
(***************************************************************************)
(* What belongs to a site.  Backups implement an archive store, and a      *)
(* backup that was completed stays; rows, schemas and users of databases   *)
(* agree; a pushed clone does not leave its credentials in production;     *)
(* uploads stay within their limits and imports are whole; what a pipeline *)
(* of a site makes is served, and undone when it fails: for any number of  *)
(* operations, names, uploads, states of the site, periods of the schedule *)
(* and failures, and any retention, quota and limits.                      *)
(***************************************************************************)
EXTENDS SiteBackups, SiteDatabases, StagingPush, SiteImports, SitePipelines, Induction

BkPc == {"off", "lock", "databases", "files", "finalize", "upload", "flag", "complete", "finish",
         "fetch", "verify"}
BkTaskRecord == [pc : BkPc, id : 0 .. BkMaxOps, scope : SUBSET BkParts, held : BkData,
                 sched : BOOLEAN]

BkShapes ==
    /\ bkSite \in BkData /\ bkPast \in [BkParts -> SUBSET (1 .. BkMaxVersions)]
    /\ bkLocal \in [BkRequests -> BkCopies \cup {None}]
    /\ bkRemote \in [BkRequests -> BkMirrors \cup {None}]
    /\ bkOps \in [BkRequests -> BkOperations \cup {None}]
    /\ bkTask \in [BkRequests -> BkTaskRecord]
    /\ bkLastId \in 0 .. BkMaxOps /\ bkDue \in BOOLEAN
    /\ bkRunning \in BkRequests \cup {None}
    /\ bkPeriods \in Nat /\ bkScheduled \in Nat /\ bkTaken \subseteq 1 .. bkLastId

\* An id is given when the lock is, so there are enough.
BkBegun == {i \in BkRequests : bkOps[i] # None /\ bkTask[i].pc # "lock"}
IdsGiven == bkLastId <= Cardinality(BkBegun)

\* The parts of the site, of what tasks hold and of what copies hold have been.
FromPast(data) == \A p \in BkParts : data[p] \in bkPast[p] \cup {None}
StatesReal ==
    /\ FromPast(bkSite)
    /\ \A i \in BkRequests :
         /\ FromPast(bkTask[i].held)
         /\ bkLocal[i] # None => FromPast(bkLocal[i].data)
         /\ bkRemote[i] # None => FromPast(bkRemote[i].data)

\* A copy is of a backup that was completed, and where there are two complete
\* ones they are the same.
Mirrored(id) == bkRemote[id] # None /\ bkRemote[id].manifest
CopiesAgree ==
    \A id \in BkRequests :
        /\ bkLocal[id] # None \/ bkRemote[id] # None => id \in bkTaken
        /\ Listed(id) /\ Mirrored(id) => bkLocal[id].data = bkRemote[id].data

\* One task holds the lock.
BkHolds(i) == bkTask[i].pc \notin {"off", "lock"}
LockHeldOnce == \A i, j \in BkRequests : BkHolds(i) /\ BkHolds(j) => i = j

Making == {"databases", "files", "finalize"}
Mirroring == {"upload", "flag", "complete"}

\* A backup has the latest id, which nobody else has, until it is completed;
\* while it is mirrored the directory, if it is there still, is its own.
BackupAtWork(i) ==
    bkOps[i].kind = "backup" =>
        /\ bkTask[i].pc \in Making \cup Mirroring => bkTask[i].id = bkLastId /\ bkLastId \in BkRequests
        /\ bkTask[i].pc \in Making => bkLastId \notin bkTaken
        /\ bkTask[i].pc \in Mirroring => bkLocal[bkTask[i].id] = None \/ Listed(bkTask[i].id)
        /\ bkTask[i].pc \in {"flag", "complete"} =>
             /\ bkRemote[bkTask[i].id] # None
             /\ bkLocal[bkTask[i].id] # None =>
                  bkRemote[bkTask[i].id].data = bkLocal[bkTask[i].id].data

\* A restore reads the directory it has verified, or finds it gone.
RestoreAtWork(i) ==
    bkOps[i].kind = "restore" =>
        /\ bkTask[i].id \in BkRequests
        /\ bkTask[i].pc \in {"files", "databases"} /\ bkLocal[bkTask[i].id] # None =>
             Listed(bkTask[i].id) /\ bkLocal[bkTask[i].id].data = bkTask[i].held

BkTasksSound ==
    \A i \in BkRequests : BkLive(i) =>
        /\ bkOps[i] # None
        /\ bkTask[i].pc \in {"finalize"} \cup Mirroring => bkOps[i].kind = "backup"
        /\ bkTask[i].pc \in {"fetch", "verify"} => bkOps[i].kind = "restore"
        /\ BackupAtWork(i) /\ RestoreAtWork(i)

\* The schedule waits for its backup; that one, until it begins, and the next
\* one, when it is due, have a time of their own.
ScheduleWaits == \A i \in BkRequests : bkTask[i].sched => bkRunning = i
Awaited == bkDue \/ \E i \in BkRequests : bkTask[i].sched /\ bkTask[i].pc = "lock"
ScheduleSound == ScheduleWaits /\ bkScheduled + (IF Awaited THEN 1 ELSE 0) <= bkPeriods

BkStrong ==
    /\ BkShapes /\ IdsGiven /\ StatesReal /\ CopiesAgree /\ LockHeldOnce /\ BkTasksSound
    /\ ScheduleSound /\ NewestKept

-----------------------------------------------------------------------------
(* Backups: what steps have in common.                                     *)

LEMMA BkIdleTask == /\ BkIdle \in BkTaskRecord /\ BkIdle.pc = "off" /\ ~BkIdle.sched
                    /\ \A p \in BkParts : BkIdle.held[p] = None
  BY BkAssumption DEF BkIdle, BkTaskRecord, BkPc, BkNothing, BkData

\* The greatest of the states the site has had.
LEMMA GreatestOf ==
    ASSUME NEW bound \in Nat, NEW T \in SUBSET (0 .. bound), T # {}
    PROVE  Greatest(T) \in T /\ \A n \in T : n <= Greatest(T)
<1>1. \E m \in T : \A n \in T : n <= m
  BY GreatestNat
<1> QED
  BY <1>1 DEF Greatest

LEMMA BkToTask ==
    ASSUME BkShapes, NEW i \in BkRequests, NEW pc \in BkPc, BkTo(i, pc)
    PROVE  /\ bkTask' \in [BkRequests -> BkTaskRecord]
           /\ bkTask'[i].pc = pc /\ bkTask'[i].id = bkTask[i].id
           /\ bkTask'[i].scope = bkTask[i].scope /\ bkTask'[i].held = bkTask[i].held
           /\ bkTask'[i].sched = bkTask[i].sched
           /\ \A j \in BkRequests \ {i} : bkTask'[j] = bkTask[j]
<1>1. bkTask[i] \in BkTaskRecord
  BY DEF BkShapes
<1>2. [bkTask[i] EXCEPT !.pc = pc] \in BkTaskRecord
  BY <1>1 DEF BkTaskRecord
<1> QED
  BY <1>1, <1>2 DEF BkShapes, BkTo, BkTaskRecord

LEMMA BkEndTask ==
    ASSUME BkShapes, NEW i \in BkRequests, bkOps[i] # None,
           NEW status \in {"pending", "succeeded", "failed"}, BkEnd(i, status)
    PROVE  /\ bkTask' \in [BkRequests -> BkTaskRecord]
           /\ bkTask'[i] = BkIdle
           /\ \A j \in BkRequests \ {i} : bkTask'[j] = bkTask[j] /\ bkOps'[j] = bkOps[j]
           /\ bkOps' \in [BkRequests -> BkOperations \cup {None}]
           /\ bkOps'[i] # None /\ bkOps'[i].kind = bkOps[i].kind
           /\ bkRunning' \in BkRequests \cup {None}
           /\ bkRunning # i => bkRunning' = bkRunning
<1>1. bkOps[i] \in BkOperations
  BY DEF BkShapes
<1>2. [bkOps[i] EXCEPT !.status = status] \in BkOperations
      /\ [bkOps[i] EXCEPT !.status = status].kind = bkOps[i].kind
  BY <1>1 DEF BkOperations
<1> QED
  BY <1>1, <1>2, BkIdleTask, BkNoneAssumption DEF BkShapes, BkEnd

LEMMA BegunFinite == IsFiniteSet(BkBegun) /\ Cardinality(BkBegun) \in Nat
<1>1. IsFiniteSet(BkRequests)
  BY FS_Interval, BkAssumption DEF BkRequests
<1> QED
  BY <1>1, FS_Subset, FS_CardinalityType DEF BkBegun

LEMMA BegunGrows ==
    ASSUME BkShapes, IdsGiven, bkLastId' = bkLastId, BkBegun \subseteq BkBegun'
    PROVE  IdsGiven'
<1>1. IsFiniteSet(BkBegun')
  <2>1. IsFiniteSet(BkRequests) /\ BkBegun' \subseteq BkRequests
    BY FS_Interval, BkAssumption DEF BkRequests, BkBegun
  <2> QED
    BY <2>1, FS_Subset
<1>2. Cardinality(BkBegun) <= Cardinality(BkBegun') /\ Cardinality(BkBegun') \in Nat
  BY <1>1, FS_Subset, FS_CardinalityType
<1> QED
  BY <1>2, BegunFinite, BkAssumption DEF IdsGiven, BkShapes

\* The holder of the lock is the only one that another task cannot rely on.
LEMMA HolderTasks ==
    ASSUME BkStrong, NEW i \in BkRequests, BkHolds(i),
           \A j \in BkRequests \ {i} : bkTask'[j] = bkTask[j] /\ bkOps'[j] = bkOps[j],
           BkLive(i)' =>
              /\ bkOps'[i] # None
              /\ bkTask'[i].pc \in {"finalize"} \cup Mirroring => bkOps'[i].kind = "backup"
              /\ bkTask'[i].pc \in {"fetch", "verify"} => bkOps'[i].kind = "restore"
              /\ BackupAtWork(i)' /\ RestoreAtWork(i)'
    PROVE  BkTasksSound' /\ LockHeldOnce'
<1>1. \A j \in BkRequests \ {i} : bkTask[j].pc \in {"off", "lock"}
  BY DEF BkStrong, LockHeldOnce, BkHolds
<1>2. LockHeldOnce'
  BY <1>1 DEF LockHeldOnce, BkHolds
<1>3. ASSUME NEW j \in BkRequests \ {i}, BkLive(j)'
      PROVE  /\ bkOps'[j] # None
             /\ bkTask'[j].pc = "lock" /\ BackupAtWork(j)' /\ RestoreAtWork(j)'
  <2>1. BkLive(j) /\ bkTask'[j].pc = "lock"
    BY <1>1, <1>3 DEF BkLive
  <2>2. BackupAtWork(j)'
    BY <2>1 DEF BackupAtWork, Making, Mirroring
  <2>3. RestoreAtWork(j)'
    BY <2>1 DEF RestoreAtWork, BkStrong, BkTasksSound
  <2> QED
    BY <2>1, <2>2, <2>3 DEF BkStrong, BkTasksSound
<1>4. BkTasksSound'
  BY <1>3 DEF BkTasksSound, Mirroring
<1> QED
  BY <1>2, <1>4

LEMMA HolderSchedule ==
    ASSUME BkStrong, NEW i \in BkRequests, BkHolds(i),
           \A j \in BkRequests \ {i} : bkTask'[j] = bkTask[j],
           bkTask'[i].sched => bkTask[i].sched /\ bkRunning' = bkRunning,
           bkTask'[i].pc # "lock", bkRunning # i => bkRunning' = bkRunning,
           UNCHANGED <<bkDue, bkScheduled, bkPeriods>>
    PROVE  ScheduleSound'
<1>1. ScheduleWaits'
  BY DEF BkStrong, ScheduleSound, ScheduleWaits
<1>2. Awaited' => Awaited
  BY DEF Awaited
<1> QED
  BY <1>1, <1>2 DEF BkStrong, BkShapes, ScheduleSound

LEMMA HolderBegun ==
    ASSUME BkStrong, NEW i \in BkRequests, BkHolds(i), bkLastId' = bkLastId,
           \A j \in BkRequests \ {i} : bkTask'[j] = bkTask[j] /\ bkOps'[j] = bkOps[j],
           bkTask'[i].pc # "lock", bkOps'[i] # None
    PROVE  IdsGiven'
  BY BegunGrows DEF BkStrong, BkBegun

\* A task ends and leaves everything as it is.
LEMMA BkEndStrong ==
    ASSUME BkStrong, NEW i \in BkRequests, BkLive(i),
           NEW status \in {"pending", "succeeded", "failed"}, BkEnd(i, status),
           UNCHANGED <<bkSite, bkLocal, bkRemote, bkLastId, bkDue, bkPeriods, bkHistory>>
    PROVE  BkStrong'
<1>1. bkOps[i] # None
  BY DEF BkStrong, BkTasksSound
<1>2. /\ bkTask' \in [BkRequests -> BkTaskRecord]
      /\ bkTask'[i] = BkIdle
      /\ \A j \in BkRequests \ {i} : bkTask'[j] = bkTask[j] /\ bkOps'[j] = bkOps[j]
      /\ bkOps' \in [BkRequests -> BkOperations \cup {None}]
      /\ bkOps'[i] # None /\ bkOps'[i].kind = bkOps[i].kind
      /\ bkRunning' \in BkRequests \cup {None}
      /\ bkRunning # i => bkRunning' = bkRunning
  BY <1>1, BkEndTask DEF BkStrong
<1>3. UNCHANGED <<bkPast, bkScheduled, bkTaken, bkDropped>>
  BY DEF bkHistory
<1>4. BkShapes'
  BY <1>2, <1>3 DEF BkStrong, BkShapes
<1>5. IdsGiven'
  BY <1>2, BkIdleTask, BegunGrows DEF BkStrong, BkBegun
<1>6. StatesReal'
  BY <1>2, <1>3, BkIdleTask DEF BkStrong, StatesReal, FromPast
<1>7. CopiesAgree' /\ NewestKept'
  BY <1>3 DEF BkStrong, CopiesAgree, NewestKept, Listed, Mirrored
<1>8. LockHeldOnce'
  BY <1>2, BkIdleTask DEF BkStrong, LockHeldOnce, BkHolds
<1>9. BkTasksSound'
  BY <1>2, <1>3, BkIdleTask DEF BkStrong, BkTasksSound, BkLive, BackupAtWork, RestoreAtWork, Listed
<1>10. ScheduleSound'
  <2>1. ScheduleWaits'
    BY <1>2, BkIdleTask DEF BkStrong, ScheduleSound, ScheduleWaits
  <2>2. Awaited' => Awaited
    BY <1>2, BkIdleTask DEF Awaited
  <2> QED
    BY <1>3, <2>1, <2>2 DEF BkStrong, BkShapes, ScheduleSound
<1> QED
  BY <1>4, <1>5, <1>6, <1>7, <1>8, <1>9, <1>10 DEF BkStrong

-----------------------------------------------------------------------------
(* Requests, the schedule, the users.                                      *)

LEMMA BkAcceptStrong ==
    ASSUME BkStrong, NEW i \in BkRequests, NEW kind \in {"backup", "restore"},
           NEW id \in 0 .. BkMaxOps, NEW scope \in SUBSET BkParts, NEW sched \in BOOLEAN,
           BkAccept(i, kind, id, scope, sched),
           kind = "restore" => id \in BkRequests,
           IF sched THEN bkDue /\ bkRunning = None /\ bkRunning' = i ELSE UNCHANGED bkRunning
    PROVE  BkStrong'
<1> DEFINE o == [kind |-> kind, status |-> "pending"]
           t == [BkIdle EXCEPT !.pc = "lock", !.id = id, !.scope = scope, !.sched = sched]
<1>1. /\ bkOps' = [bkOps EXCEPT ![i] = o] /\ bkTask' = [bkTask EXCEPT ![i] = t]
      /\ UNCHANGED <<bkSite, bkLocal, bkRemote, bkLastId, bkDue, bkFaults, bkPeriods, bkPast,
                     bkScheduled, bkTaken, bkDropped>>
      /\ bkOps[i] = None
  BY DEF BkAccept, bkHistory
<1>2. o \in BkOperations /\ o # None /\ o.kind = kind
  BY BkNoneAssumption DEF BkOperations
<1>3. /\ t \in BkTaskRecord /\ t.pc = "lock" /\ t.id = id /\ t.sched = sched
      /\ \A p \in BkParts : t.held[p] = None
  BY BkIdleTask DEF BkTaskRecord, BkPc
<1> HIDE DEF o, t
<1>4. /\ bkOps' \in [BkRequests -> BkOperations \cup {None}] /\ bkOps'[i] = o
      /\ bkTask' \in [BkRequests -> BkTaskRecord] /\ bkTask'[i] = t
      /\ \A j \in BkRequests \ {i} : bkTask'[j] = bkTask[j] /\ bkOps'[j] = bkOps[j]
  BY <1>1, <1>2, <1>3 DEF BkStrong, BkShapes
<1>5. BkShapes'
  BY <1>1, <1>4 DEF BkStrong, BkShapes
<1>6. IdsGiven'
  BY <1>1, <1>2, <1>3, <1>4, BegunGrows DEF BkStrong, BkBegun
<1>7. StatesReal'
  BY <1>1, <1>3, <1>4 DEF BkStrong, StatesReal, FromPast
<1>8. CopiesAgree' /\ NewestKept'
  BY <1>1 DEF BkStrong, CopiesAgree, NewestKept, Listed, Mirrored
<1>9. LockHeldOnce'
  BY <1>3, <1>4 DEF BkStrong, LockHeldOnce, BkHolds
<1>10. BkTasksSound'
  <2>1. BackupAtWork(i)' /\ RestoreAtWork(i)'
    BY <1>2, <1>3, <1>4 DEF BackupAtWork, RestoreAtWork, Making, Mirroring
  <2> QED
    BY <1>1, <1>2, <1>3, <1>4, <2>1
       DEF BkStrong, BkTasksSound, BkLive, BackupAtWork, RestoreAtWork, Listed, Mirroring
<1>11. ScheduleSound'
  <2>1. ScheduleWaits'
    BY <1>3, <1>4, NoneAssumption DEF BkStrong, ScheduleSound, ScheduleWaits, BkRequests
  <2>2. Awaited' => Awaited
    BY <1>1, <1>3, <1>4 DEF Awaited
  <2> QED
    BY <1>1, <2>1, <2>2 DEF BkStrong, BkShapes, ScheduleSound
<1> QED
  BY <1>5, <1>6, <1>7, <1>8, <1>9, <1>10, <1>11 DEF BkStrong

LEMMA StartBackupStrong ==
    ASSUME BkStrong, NEW i \in BkRequests, StartBackup(i) \/ Tick(i)
    PROVE  BkStrong'
<1>1. 0 \in 0 .. BkMaxOps /\ {} \in SUBSET BkParts
  BY BkAssumption
<1> QED
  BY <1>1, BkAcceptStrong DEF StartBackup, Tick

LEMMA StartRestoreStrong ==
    ASSUME BkStrong, NEW i \in BkRequests, NEW id \in BkRequests, StartRestore(i, id)
    PROVE  BkStrong'
<1>1. id \in 0 .. BkMaxOps
  BY BkAssumption DEF BkRequests
<1>2. PICK scope \in {BkParts, {"files"}, {"databases"}} : BkAccept(i, "restore", id, scope, FALSE)
  BY DEF StartRestore
<1>3. scope \in SUBSET BkParts
  BY <1>2 DEF BkParts
<1> QED
  BY <1>1, <1>2, <1>3, BkAcceptStrong DEF StartRestore

\* Steps of no task: the tasks, operations and ids stay as they are.
LEMMA NoTaskStep ==
    ASSUME BkStrong, UNCHANGED <<bkTask, bkOps, bkLastId>>
    PROVE  IdsGiven' /\ LockHeldOnce'
  BY DEF BkStrong, IdsGiven, BkBegun, LockHeldOnce, BkHolds

LEMMA ComesDueStrong ==
    ASSUME BkStrong, ComesDue
    PROVE  BkStrong'
<1>1. /\ UNCHANGED <<bkSite, bkLocal, bkRemote, bkOps, bkTask, bkLastId, bkRunning, bkPast,
                     bkScheduled, bkTaken, bkDropped>>
      /\ bkPeriods' = bkPeriods + 1 /\ bkDue' = TRUE
  BY DEF ComesDue, bkHistory
<1>2. BkShapes' /\ IdsGiven' /\ LockHeldOnce'
  BY <1>1, NoTaskStep DEF BkStrong, BkShapes
<1>3. StatesReal' /\ CopiesAgree' /\ NewestKept'
  BY <1>1 DEF BkStrong, StatesReal, FromPast, CopiesAgree, NewestKept, Listed, Mirrored
<1>4. BkTasksSound'
  BY <1>1 DEF BkStrong, BkTasksSound, BkLive, BackupAtWork, RestoreAtWork, Listed
<1>5. ScheduleSound'
  BY <1>1 DEF BkStrong, BkShapes, ScheduleSound, ScheduleWaits
<1> QED
  BY <1>2, <1>3, <1>4, <1>5 DEF BkStrong

LEMMA DeleteBackupStrong ==
    ASSUME BkStrong, NEW id \in BkRequests, DeleteBackup(id)
    PROVE  BkStrong'
<1>1. /\ UNCHANGED <<bkSite, bkRemote, bkOps, bkTask, bkLastId, bkDue, bkRunning, bkPast,
                     bkPeriods, bkScheduled, bkTaken>>
      /\ bkLocal' = [bkLocal EXCEPT ![id] = None]
      /\ bkDropped' = bkDropped \cup {id}
  BY DEF DeleteBackup
<1>2. /\ bkLocal' \in [BkRequests -> BkCopies \cup {None}] /\ bkLocal'[id] = None
      /\ \A j \in BkRequests \ {id} : bkLocal'[j] = bkLocal[j]
  BY <1>1 DEF BkStrong, BkShapes
<1>3. BkShapes' /\ IdsGiven' /\ LockHeldOnce'
  BY <1>1, <1>2, NoTaskStep DEF BkStrong, BkShapes
<1>4. StatesReal' /\ CopiesAgree'
  BY <1>1, <1>2 DEF BkStrong, StatesReal, FromPast, CopiesAgree, Listed, Mirrored
<1>5. NewestKept'
  BY <1>1, <1>2, BkAssumption DEF BkStrong, BkShapes, NewestKept, Listed, BkRequests
<1>6. BkTasksSound'
  <2>1. \A i \in BkRequests : BkLive(i) => BackupAtWork(i)'
    BY <1>1, <1>2 DEF BkStrong, BkShapes, BkTasksSound, BackupAtWork, Listed, Making, Mirroring
  <2>2. \A i \in BkRequests : BkLive(i) => RestoreAtWork(i)'
    BY <1>1, <1>2 DEF BkStrong, BkShapes, BkTasksSound, RestoreAtWork, Listed
  <2> QED
    BY <1>1, <2>1, <2>2 DEF BkStrong, BkTasksSound, BkLive
<1>7. ScheduleSound'
  BY <1>1 DEF BkStrong, ScheduleSound, ScheduleWaits, Awaited
<1> QED
  BY <1>3, <1>4, <1>5, <1>6, <1>7 DEF BkStrong

LEMMA EditSiteStrong ==
    ASSUME BkStrong, NEW p \in BkParts, EditSite(p)
    PROVE  BkStrong'
<1>1. PICK v \in 1 .. BkMaxVersions :
         bkSite' = [bkSite EXCEPT ![p] = v] /\ bkPast' = [bkPast EXCEPT ![p] = @ \cup {v}]
  BY DEF EditSite
<1>2. UNCHANGED <<bkLocal, bkRemote, bkOps, bkTask, bkLastId, bkDue, bkRunning, bkPeriods,
                  bkScheduled, bkTaken, bkDropped>>
  BY DEF EditSite
<1>3. bkSite' \in BkData /\ bkPast' \in [BkParts -> SUBSET (1 .. BkMaxVersions)]
  BY <1>1 DEF BkStrong, BkShapes, BkData
<1>4. /\ \A q \in BkParts : bkPast[q] \subseteq bkPast'[q]
      /\ v \in bkPast'[p] /\ bkSite'[p] = v /\ \A q \in BkParts \ {p} : bkSite'[q] = bkSite[q]
  BY <1>1 DEF BkStrong, BkShapes, BkData
<1>5. BkShapes' /\ IdsGiven' /\ LockHeldOnce'
  BY <1>2, <1>3, NoTaskStep DEF BkStrong, BkShapes
<1>6. StatesReal'
  BY <1>2, <1>4 DEF BkStrong, StatesReal, FromPast
<1>7. CopiesAgree' /\ NewestKept' /\ BkTasksSound' /\ ScheduleSound'
  BY <1>2 DEF BkStrong, CopiesAgree, NewestKept, Listed, Mirrored, BkTasksSound, BkLive,
              BackupAtWork, RestoreAtWork, ScheduleSound, ScheduleWaits, Awaited
<1> QED
  BY <1>5, <1>6, <1>7 DEF BkStrong

LEMMA RemoveSiteStrong ==
    ASSUME BkStrong, RemoveSite
    PROVE  BkStrong'
<1>1. /\ UNCHANGED <<bkLocal, bkRemote, bkOps, bkTask, bkLastId, bkDue, bkRunning, bkPeriods,
                     bkPast, bkScheduled, bkTaken, bkDropped>>
      /\ bkSite' = BkNothing
  BY DEF RemoveSite, bkHistory
<1>2. BkShapes' /\ IdsGiven' /\ LockHeldOnce'
  BY <1>1, NoTaskStep DEF BkStrong, BkShapes, BkNothing, BkData
<1>3. StatesReal'
  BY <1>1 DEF BkStrong, StatesReal, FromPast, BkNothing
<1>4. CopiesAgree' /\ NewestKept' /\ BkTasksSound' /\ ScheduleSound'
  BY <1>1 DEF BkStrong, CopiesAgree, NewestKept, Listed, Mirrored, BkTasksSound, BkLive,
              BackupAtWork, RestoreAtWork, ScheduleSound, ScheduleWaits, Awaited
<1> QED
  BY <1>2, <1>3, <1>4 DEF BkStrong

-----------------------------------------------------------------------------
(* The lock is granted.                                                    *)

\* The number of the tasks that have begun is above the ids given so far.
LEMMA NextIdFits ==
    ASSUME BkShapes, IdsGiven, NEW i \in BkRequests, i \notin BkBegun,
           BkBegun' = BkBegun \cup {i}, bkLastId' = bkLastId + 1
    PROVE  bkLastId + 1 \in BkRequests /\ IdsGiven'
<1>1. IsFiniteSet(BkRequests) /\ Cardinality(BkRequests) = BkMaxOps
  BY FS_Interval, BkAssumption DEF BkRequests
<1>2. Cardinality(BkBegun') = Cardinality(BkBegun) + 1
  BY BegunFinite, FS_AddElement
<1>3. Cardinality(BkBegun') <= BkMaxOps
  <2>1. BkBegun' \subseteq BkRequests
    BY DEF BkBegun
  <2> QED
    BY <1>1, <2>1, FS_Subset
<1> QED
  BY <1>2, <1>3, BegunFinite, BkAssumption DEF BkShapes, IdsGiven, BkRequests

LEMMA BackupBegins ==
    ASSUME BkStrong, NEW i \in BkRequests, BkBegin(i), BkSiteExists, bkOps[i].kind = "backup"
    PROVE  BkStrong'
<1>1. PICK scope \in BkScopes :
         bkTask' = [bkTask EXCEPT ![i].pc = "databases", ![i].id = bkLastId + 1, ![i].scope = scope]
  BY DEF BkBegin
<1>2. /\ bkTask[i].pc = "lock" /\ ~BkLocked /\ bkLastId' = bkLastId + 1 /\ bkDue' = FALSE
      /\ bkScheduled' = bkScheduled + (IF bkTask[i].sched THEN 1 ELSE 0)
      /\ bkOps' = [bkOps EXCEPT ![i].status = "running"]
      /\ UNCHANGED <<bkSite, bkLocal, bkRemote, bkRunning, bkPast, bkTaken, bkDropped, bkPeriods>>
  BY DEF BkBegin, BkAt, BkQuiet
<1>3. bkTask[i] \in BkTaskRecord /\ bkOps[i] # None /\ bkOps[i] \in BkOperations
  BY <1>2 DEF BkStrong, BkShapes, BkTasksSound, BkLive
<1>4. [bkOps[i] EXCEPT !.status = "running"] \in BkOperations
      /\ [bkOps[i] EXCEPT !.status = "running"].kind = "backup"
  BY <1>3 DEF BkOperations
<1>5. /\ bkOps' \in [BkRequests -> BkOperations \cup {None}]
      /\ bkOps'[i] # None /\ bkOps'[i].kind = "backup"
      /\ \A j \in BkRequests \ {i} : bkOps'[j] = bkOps[j]
  BY <1>2, <1>4, BkNoneAssumption DEF BkStrong, BkShapes
<1>6. \A j \in BkRequests \ {i} : bkTask'[j] = bkTask[j]
  BY <1>1 DEF BkStrong, BkShapes
<1>7. /\ bkTask'[i].pc = "databases" /\ bkTask'[i].id = bkLastId + 1
      /\ bkTask'[i].held = bkTask[i].held /\ bkTask'[i].sched = bkTask[i].sched
  BY <1>1, <1>3 DEF BkStrong, BkShapes, BkTaskRecord
<1>8. bkLastId + 1 \in BkRequests /\ IdsGiven'
  <2>1. i \notin BkBegun /\ BkBegun' = BkBegun \cup {i}
    BY <1>2, <1>5, <1>6, <1>7 DEF BkBegun
  <2> QED
    BY <1>2, <2>1, NextIdFits DEF BkStrong
<1>9. [bkTask[i] EXCEPT !.pc = "databases", !.id = bkLastId + 1, !.scope = scope] \in BkTaskRecord
  <2>1. scope \in SUBSET BkParts
    BY BkAssumption DEF BkParts
  <2>2. "databases" \in BkPc /\ bkLastId + 1 \in 0 .. BkMaxOps
    BY <1>8, BkAssumption DEF BkPc, BkRequests
  <2> QED
    BY <1>3, <2>1, <2>2 DEF BkTaskRecord
<1>10. bkTask' \in [BkRequests -> BkTaskRecord]
  BY <1>1, <1>9, <1>3 DEF BkStrong, BkShapes, BkTaskRecord
<1>11. BkShapes'
  <2>1. bkTaken' \subseteq 1 .. bkLastId' /\ bkLastId' \in 0 .. BkMaxOps
    BY <1>2, <1>8, BkAssumption DEF BkStrong, BkShapes, BkRequests
  <2>2. bkScheduled' \in Nat
    BY <1>2 DEF BkStrong, BkShapes
  <2> QED
    BY <1>2, <1>5, <1>10, <2>1, <2>2 DEF BkStrong, BkShapes
<1>12. StatesReal'
  BY <1>2, <1>6, <1>7 DEF BkStrong, StatesReal, FromPast
<1>13. CopiesAgree' /\ NewestKept'
  BY <1>2 DEF BkStrong, CopiesAgree, NewestKept, Listed, Mirrored
<1>14. \A j \in BkRequests : bkTask[j].pc \in {"off", "lock"}
  BY <1>2 DEF BkLocked
<1>15. LockHeldOnce'
  BY <1>6, <1>14 DEF LockHeldOnce, BkHolds
<1>16. BkTasksSound'
  <2>1. BackupAtWork(i)' /\ RestoreAtWork(i)'
    <3>1. bkLastId + 1 \notin bkTaken
      BY BkAssumption DEF BkStrong, BkShapes
    <3> QED
      BY <1>2, <1>5, <1>7, <1>8, <3>1 DEF BackupAtWork, RestoreAtWork, Making, Mirroring
  <2>2. ASSUME NEW j \in BkRequests \ {i}, BkLive(j)'
        PROVE  bkOps'[j] # None /\ bkTask'[j].pc = "lock" /\ BackupAtWork(j)' /\ RestoreAtWork(j)'
    BY <1>5, <1>6, <1>14, <2>2
       DEF BkStrong, BkTasksSound, BkLive, BackupAtWork, RestoreAtWork, Making, Mirroring
  <2> QED
    BY <1>5, <1>7, <2>1, <2>2 DEF BkTasksSound, Mirroring
<1>17. ScheduleSound'
  <2>1. ScheduleWaits'
    BY <1>2, <1>6, <1>7 DEF BkStrong, ScheduleSound, ScheduleWaits
  <2>2. bkTask[i].sched => ~Awaited' /\ Awaited
    BY <1>2, <1>6, <1>7, <2>1, BkAssumption
       DEF BkStrong, ScheduleSound, ScheduleWaits, Awaited, BkRequests
  <2>3. Awaited' => Awaited
    BY <1>2, <1>6, <1>7 DEF Awaited
  <2>4. bkScheduled \in Nat /\ bkPeriods \in Nat
    BY DEF BkStrong, BkShapes
  <2>5. bkScheduled + (IF Awaited THEN 1 ELSE 0) <= bkPeriods
    BY DEF BkStrong, ScheduleSound
  <2> QED
    BY <1>2, <2>1, <2>2, <2>3, <2>4, <2>5 DEF ScheduleSound
<1> QED
  BY <1>8, <1>11, <1>12, <1>13, <1>15, <1>16, <1>17 DEF BkStrong

LEMMA RestoreBegins ==
    ASSUME BkStrong, NEW i \in BkRequests, BkBegin(i), BkSiteExists, bkOps[i].kind # "backup"
    PROVE  BkStrong'
<1>1. /\ bkTask[i].pc = "lock" /\ ~BkLocked /\ BkTo(i, "fetch")
      /\ bkOps' = [bkOps EXCEPT ![i].status = "running"]
      /\ UNCHANGED <<bkSite, bkLocal, bkRemote, bkLastId, bkDue, bkRunning, bkPast, bkTaken,
                     bkDropped, bkScheduled, bkPeriods>>
  BY DEF BkBegin, BkAt, BkQuiet
<1>2. bkOps[i] # None /\ bkOps[i] \in BkOperations /\ "fetch" \in BkPc /\ BkShapes
  BY <1>1 DEF BkStrong, BkShapes, BkTasksSound, BkLive, BkPc
<1>3. [bkOps[i] EXCEPT !.status = "running"] \in BkOperations
      /\ [bkOps[i] EXCEPT !.status = "running"].kind = "restore"
  BY <1>2 DEF BkOperations
<1>4. /\ bkOps' \in [BkRequests -> BkOperations \cup {None}]
      /\ bkOps'[i] # None /\ bkOps'[i].kind = "restore" /\ bkOps[i].kind = "restore"
      /\ \A j \in BkRequests \ {i} : bkOps'[j] = bkOps[j]
  BY <1>1, <1>2, <1>3, BkNoneAssumption DEF BkShapes, BkOperations
<1>5. /\ bkTask' \in [BkRequests -> BkTaskRecord]
      /\ bkTask'[i].pc = "fetch" /\ bkTask'[i].id = bkTask[i].id
      /\ bkTask'[i].held = bkTask[i].held /\ bkTask'[i].sched = bkTask[i].sched
      /\ \A j \in BkRequests \ {i} : bkTask'[j] = bkTask[j]
  BY <1>1, <1>2, BkToTask
<1>6. BkShapes'
  BY <1>1, <1>4, <1>5 DEF BkStrong, BkShapes
<1>7. IdsGiven'
  BY <1>1, <1>4, <1>5, BegunGrows DEF BkStrong, BkBegun
<1>8. StatesReal'
  BY <1>1, <1>5 DEF BkStrong, StatesReal, FromPast
<1>9. CopiesAgree' /\ NewestKept'
  BY <1>1 DEF BkStrong, CopiesAgree, NewestKept, Listed, Mirrored
<1>10. \A j \in BkRequests : bkTask[j].pc \in {"off", "lock"}
  BY <1>1 DEF BkLocked
<1>11. LockHeldOnce'
  BY <1>5, <1>10 DEF LockHeldOnce, BkHolds
<1>12. BkTasksSound'
  <2>1. BackupAtWork(i)' /\ RestoreAtWork(i)'
    BY <1>1, <1>4, <1>5 DEF BkStrong, BkTasksSound, BkLive, BackupAtWork, RestoreAtWork
  <2>2. ASSUME NEW j \in BkRequests \ {i}, BkLive(j)'
        PROVE  bkOps'[j] # None /\ bkTask'[j].pc = "lock" /\ BackupAtWork(j)' /\ RestoreAtWork(j)'
    BY <1>4, <1>5, <1>10, <2>2
       DEF BkStrong, BkTasksSound, BkLive, BackupAtWork, RestoreAtWork, Making, Mirroring
  <2> QED
    BY <1>4, <1>5, <2>1, <2>2 DEF BkTasksSound, Mirroring
<1>13. ScheduleSound'
  <2>1. ScheduleWaits'
    BY <1>1, <1>5 DEF BkStrong, ScheduleSound, ScheduleWaits
  <2>2. Awaited' => Awaited
    BY <1>1, <1>5 DEF Awaited
  <2> QED
    BY <1>1, <2>1, <2>2 DEF BkStrong, BkShapes, ScheduleSound
<1> QED
  BY <1>6, <1>7, <1>8, <1>9, <1>11, <1>12, <1>13 DEF BkStrong

LEMMA BkBeginStrong ==
    ASSUME BkStrong, NEW i \in BkRequests, BkBegin(i)
    PROVE  BkStrong'
<1>1. CASE ~BkSiteExists
  <2>1. BkLive(i) /\ BkEnd(i, "pending")
    BY <1>1 DEF BkBegin, BkAt, BkLive
  <2> QED
    BY <1>1, <2>1, BkEndStrong DEF BkBegin, BkQuiet, bkHistory
<1> QED
  BY <1>1, BackupBegins, RestoreBegins

-----------------------------------------------------------------------------
(* Steps of the task that holds the lock.                                  *)

\* Whatever it does to copies, what remains to be shown is what is special.
LEMMA HolderStep ==
    ASSUME BkStrong, NEW i \in BkRequests, BkHolds(i),
           bkTask' \in [BkRequests -> BkTaskRecord],
           \A j \in BkRequests \ {i} : bkTask'[j] = bkTask[j],
           bkTask'[i].pc # "lock", bkTask'[i].sched = bkTask[i].sched,
           UNCHANGED <<bkOps, bkLastId, bkDue, bkRunning, bkPeriods, bkPast, bkScheduled>>,
           bkSite' \in BkData, bkLocal' \in [BkRequests -> BkCopies \cup {None}],
           bkRemote' \in [BkRequests -> BkMirrors \cup {None}], bkTaken' \subseteq 1 .. bkLastId,
           bkTask'[i].pc \in {"finalize"} \cup Mirroring => bkOps[i].kind = "backup",
           bkTask'[i].pc \in {"fetch", "verify"} => bkOps[i].kind = "restore",
           BackupAtWork(i)', RestoreAtWork(i)', StatesReal', CopiesAgree', NewestKept'
    PROVE  BkStrong'
<1>1. bkOps[i] # None
  BY DEF BkStrong, BkTasksSound, BkLive, BkHolds
<1>2. BkShapes'
  BY DEF BkStrong, BkShapes
<1>3. IdsGiven'
  BY <1>1, HolderBegun
<1>4. LockHeldOnce' /\ BkTasksSound'
  BY <1>1, HolderTasks
<1>5. ScheduleSound'
  BY HolderSchedule
<1> QED
  BY <1>2, <1>3, <1>4, <1>5 DEF BkStrong

LEMMA DumpStrong ==
    ASSUME BkStrong, NEW i \in BkRequests, NEW p \in BkParts, NEW next,
           (p = "databases" /\ next = "files") \/ (p = "files" /\ next = "finalize"),
           Dump(i, p, next)
    PROVE  BkStrong'
<1> DEFINE kept == IF BkWants(i, p) THEN bkSite[p] ELSE None
<1>1. /\ bkTask[i].pc = p /\ bkOps[i].kind = "backup"
      /\ bkTask' = [bkTask EXCEPT ![i].pc = next, ![i].held[p] = kept]
      /\ UNCHANGED <<bkSite, bkLocal, bkRemote, bkOps, bkLastId, bkDue, bkRunning, bkPeriods,
                     bkPast, bkScheduled, bkTaken, bkDropped>>
  BY DEF Dump, BkAt, BkQuiet, bkHistory
<1>2. bkTask[i] \in BkTaskRecord /\ BkHolds(i) /\ BkLive(i)
  BY <1>1 DEF BkStrong, BkShapes, BkHolds, BkLive, BkParts
<1>3. /\ kept \in (1 .. BkMaxVersions) \cup {None} /\ kept \in bkPast[p] \cup {None}
  BY DEF BkStrong, BkShapes, StatesReal, FromPast, BkData
<1> HIDE DEF kept
<1> DEFINE held == [bkTask[i].held EXCEPT ![p] = kept]
           t == [bkTask[i] EXCEPT !.pc = next, !.held = held]
<1>4. held \in BkData /\ \A q \in BkParts : held[q] = IF q = p THEN kept ELSE bkTask[i].held[q]
  BY <1>2, <1>3 DEF BkTaskRecord, BkData
<1> HIDE DEF held
<1>5. /\ t \in BkTaskRecord /\ t.pc = next /\ t.id = bkTask[i].id /\ t.held = held
      /\ t.sched = bkTask[i].sched
  BY <1>2, <1>4 DEF BkTaskRecord, BkPc
<1>6. bkTask' = [bkTask EXCEPT ![i] = t]
  BY <1>1, <1>2 DEF held, BkStrong, BkShapes, BkTaskRecord
<1> HIDE DEF t
<1>7. /\ bkTask' \in [BkRequests -> BkTaskRecord] /\ bkTask'[i] = t
      /\ \A j \in BkRequests \ {i} : bkTask'[j] = bkTask[j]
  BY <1>5, <1>6 DEF BkStrong, BkShapes
<1>8. FromPast(held)
  BY <1>2, <1>3, <1>4 DEF BkStrong, StatesReal, FromPast
<1>9. StatesReal'
  BY <1>1, <1>5, <1>7, <1>8 DEF BkStrong, StatesReal, FromPast
<1>10. CopiesAgree' /\ NewestKept'
  BY <1>1 DEF BkStrong, CopiesAgree, NewestKept, Listed, Mirrored
<1>11. BackupAtWork(i) /\ BackupAtWork(i)' /\ RestoreAtWork(i)'
  BY <1>1, <1>2, <1>5, <1>7
     DEF BkStrong, BkTasksSound, BackupAtWork, RestoreAtWork, Making, Mirroring
<1> QED
  BY <1>1, <1>2, <1>5, <1>7, <1>9, <1>10, <1>11, HolderStep DEF BkStrong, BkShapes, Mirroring

LEMMA UploadStrong ==
    ASSUME BkStrong, NEW i \in BkRequests, Upload(i)
    PROVE  BkStrong'
<1> DEFINE id == bkTask[i].id
           r == [data |-> bkLocal[id].data, manifest |-> FALSE]
<1>1. /\ bkTask[i].pc = "upload" /\ Listed(id) /\ BkTo(i, "flag")
      /\ bkRemote' = [bkRemote EXCEPT ![id] = r]
      /\ UNCHANGED <<bkSite, bkLocal, bkOps, bkLastId, bkDue, bkRunning, bkPeriods,
                     bkPast, bkScheduled, bkTaken, bkDropped>>
  BY DEF Upload, BkAt, BkQuiet, bkHistory
<1>2. BkHolds(i) /\ BkLive(i) /\ "flag" \in BkPc /\ BkShapes
  BY <1>1 DEF BkStrong, BkHolds, BkLive, BkPc
<1>3. bkOps[i].kind = "backup" /\ id = bkLastId /\ id \in BkRequests
  BY <1>1, <1>2 DEF BkStrong, BkTasksSound, BackupAtWork, Mirroring
<1>4. /\ bkTask' \in [BkRequests -> BkTaskRecord]
      /\ bkTask'[i].pc = "flag" /\ bkTask'[i].id = bkTask[i].id
      /\ bkTask'[i].held = bkTask[i].held /\ bkTask'[i].sched = bkTask[i].sched
      /\ \A j \in BkRequests \ {i} : bkTask'[j] = bkTask[j]
  BY <1>1, <1>2, BkToTask
<1> HIDE DEF id
<1>5. bkLocal[id] # None /\ bkLocal[id] \in BkCopies
  BY <1>1, <1>2, <1>3 DEF BkShapes, Listed
<1>6. r \in BkMirrors /\ r # None /\ r.data = bkLocal[id].data /\ r.manifest = FALSE
  <2>1. bkLocal[id].data \in BkData
    BY <1>5 DEF BkCopies
  <2>2. r \in BkMirrors
    BY <2>1 DEF BkMirrors
  <2> QED
    BY <2>2, BkNoneAssumption
<1> HIDE DEF r
<1>7. /\ bkRemote' \in [BkRequests -> BkMirrors \cup {None}] /\ bkRemote'[id] = r
      /\ \A j \in BkRequests \ {id} : bkRemote'[j] = bkRemote[j]
  BY <1>1, <1>2, <1>3, <1>6 DEF BkShapes
<1>8. StatesReal'
  BY <1>1, <1>3, <1>4, <1>5, <1>6, <1>7 DEF BkStrong, StatesReal, FromPast
<1>9. CopiesAgree' /\ NewestKept'
  BY <1>1, <1>3, <1>5, <1>6, <1>7 DEF BkStrong, CopiesAgree, NewestKept, Listed, Mirrored
<1>10. BackupAtWork(i)' /\ RestoreAtWork(i)'
  BY <1>1, <1>3, <1>4, <1>5, <1>6, <1>7
     DEF id, BackupAtWork, RestoreAtWork, Making, Mirroring, Listed
<1> QED
  BY <1>1, <1>2, <1>3, <1>4, <1>7, <1>8, <1>9, <1>10, HolderStep DEF BkShapes

LEMMA FlagStrong ==
    ASSUME BkStrong, NEW i \in BkRequests, Flag(i)
    PROVE  BkStrong'
<1> DEFINE id == bkTask[i].id
           c == [bkLocal[id] EXCEPT !.s3 = TRUE]
<1>1. /\ bkTask[i].pc = "flag" /\ bkLocal[id] # None /\ BkTo(i, "complete")
      /\ bkLocal' = [bkLocal EXCEPT ![id].s3 = TRUE]
      /\ UNCHANGED <<bkSite, bkRemote, bkOps, bkLastId, bkDue, bkRunning, bkPeriods,
                     bkPast, bkScheduled, bkTaken, bkDropped>>
  BY DEF Flag, BkAt, BkQuiet, bkHistory
<1>2. BkHolds(i) /\ BkLive(i) /\ "complete" \in BkPc /\ BkShapes
  BY <1>1 DEF BkStrong, BkHolds, BkLive, BkPc
<1>3. bkOps[i].kind = "backup" /\ id = bkLastId /\ id \in BkRequests /\ BackupAtWork(i)
  BY <1>1, <1>2 DEF BkStrong, BkTasksSound, BackupAtWork, Mirroring
<1>4. /\ bkTask' \in [BkRequests -> BkTaskRecord]
      /\ bkTask'[i].pc = "complete" /\ bkTask'[i].id = bkTask[i].id
      /\ bkTask'[i].held = bkTask[i].held /\ bkTask'[i].sched = bkTask[i].sched
      /\ \A j \in BkRequests \ {i} : bkTask'[j] = bkTask[j]
  BY <1>1, <1>2, BkToTask
<1>5. /\ Listed(id) /\ bkRemote[id] # None /\ bkRemote[id].data = bkLocal[id].data
  BY <1>1, <1>3 DEF BackupAtWork, Mirroring
<1> HIDE DEF id
<1>6. bkLocal[id] \in BkCopies
  BY <1>1, <1>2, <1>3 DEF BkShapes
<1>7. c \in BkCopies /\ c # None /\ c.data = bkLocal[id].data /\ c.manifest = bkLocal[id].manifest
  BY <1>6, BkNoneAssumption DEF BkCopies
<1>8. bkLocal' = [bkLocal EXCEPT ![id] = c]
  BY <1>1
<1> HIDE DEF c
<1>9. /\ bkLocal' \in [BkRequests -> BkCopies \cup {None}] /\ bkLocal'[id] = c
      /\ \A j \in BkRequests \ {id} : bkLocal'[j] = bkLocal[j]
  BY <1>8, <1>2, <1>3, <1>7 DEF BkShapes
<1>10. StatesReal'
  BY <1>1, <1>3, <1>4, <1>7, <1>9 DEF BkStrong, StatesReal, FromPast
<1>11. CopiesAgree'
  BY <1>1, <1>3, <1>7, <1>9 DEF BkStrong, CopiesAgree, Listed, Mirrored
<1>12. NewestKept'
  <2>1. \A j \in BkRequests : Listed(j) => Listed(j)'
    BY <1>1, <1>7, <1>9 DEF Listed
  <2>2. bkTaken \subseteq BkRequests
    BY <1>2, BkAssumption DEF BkShapes, BkRequests
  <2> QED
    BY <1>1, <2>1, <2>2 DEF BkStrong, NewestKept
<1>13. BackupAtWork(i)' /\ RestoreAtWork(i)'
  BY <1>1, <1>3, <1>4, <1>5, <1>7, <1>9
     DEF id, BackupAtWork, RestoreAtWork, Making, Mirroring, Listed
<1> QED
  BY <1>1, <1>2, <1>3, <1>4, <1>9, <1>10, <1>11, <1>12, <1>13, HolderStep DEF BkShapes

LEMMA CompleteUploadStrong ==
    ASSUME BkStrong, NEW i \in BkRequests, CompleteUpload(i)
    PROVE  BkStrong'
<1> DEFINE id == bkTask[i].id
           r == [bkRemote[id] EXCEPT !.manifest = TRUE]
<1>1. /\ bkTask[i].pc = "complete" /\ bkLocal[id] # None /\ BkTo(i, "finish")
      /\ bkRemote' = [bkRemote EXCEPT ![id].manifest = TRUE]
      /\ UNCHANGED <<bkSite, bkLocal, bkOps, bkLastId, bkDue, bkRunning, bkPeriods,
                     bkPast, bkScheduled, bkTaken, bkDropped>>
  BY DEF CompleteUpload, BkAt, BkQuiet, bkHistory
<1>2. BkHolds(i) /\ BkLive(i) /\ "finish" \in BkPc /\ BkShapes
  BY <1>1 DEF BkStrong, BkHolds, BkLive, BkPc
<1>3. bkOps[i].kind = "backup" /\ id = bkLastId /\ id \in BkRequests /\ BackupAtWork(i)
  BY <1>1, <1>2 DEF BkStrong, BkTasksSound, BackupAtWork, Mirroring
<1>4. /\ bkTask' \in [BkRequests -> BkTaskRecord]
      /\ bkTask'[i].pc = "finish" /\ bkTask'[i].id = bkTask[i].id
      /\ bkTask'[i].held = bkTask[i].held /\ bkTask'[i].sched = bkTask[i].sched
      /\ \A j \in BkRequests \ {i} : bkTask'[j] = bkTask[j]
  BY <1>1, <1>2, BkToTask
<1>5. /\ bkRemote[id] # None /\ bkRemote[id].data = bkLocal[id].data
  BY <1>1, <1>3 DEF BackupAtWork
<1> HIDE DEF id
<1>6. bkRemote[id] \in BkMirrors
  BY <1>2, <1>3, <1>5 DEF BkShapes
<1>7. r \in BkMirrors /\ r # None /\ r.data = bkRemote[id].data
  BY <1>6, BkNoneAssumption DEF BkMirrors
<1>8. bkRemote' = [bkRemote EXCEPT ![id] = r]
  BY <1>1
<1> HIDE DEF r
<1>9. /\ bkRemote' \in [BkRequests -> BkMirrors \cup {None}] /\ bkRemote'[id] = r
      /\ \A j \in BkRequests \ {id} : bkRemote'[j] = bkRemote[j]
  BY <1>8, <1>2, <1>3, <1>7 DEF BkShapes
<1>10. StatesReal'
  BY <1>1, <1>3, <1>4, <1>5, <1>7, <1>9 DEF BkStrong, StatesReal, FromPast
<1>11. CopiesAgree' /\ NewestKept'
  BY <1>1, <1>3, <1>5, <1>7, <1>9 DEF BkStrong, CopiesAgree, NewestKept, Listed, Mirrored
<1>12. BackupAtWork(i)' /\ RestoreAtWork(i)'
  BY <1>1, <1>3, <1>4 DEF BackupAtWork, RestoreAtWork, Making, Mirroring
<1> QED
  BY <1>1, <1>2, <1>3, <1>4, <1>9, <1>10, <1>11, <1>12, HolderStep DEF BkShapes

LEMMA KeptCounts ==
    ASSUME BkShapes, NEW D \in SUBSET BkRequests, NEW id \in BkRequests
    PROVE  /\ IsFiniteSet({j \in D : j > id})
           /\ Cardinality({j \in D : j > id}) \in Nat
           /\ \A E \in SUBSET D :
                Cardinality({j \in E : j > id}) <= Cardinality({j \in D : j > id})
<1>1. IsFiniteSet(D)
  <2>1. IsFiniteSet(BkRequests)
    BY FS_Interval, BkAssumption DEF BkRequests
  <2> QED
    BY <2>1, FS_Subset
<1>2. IsFiniteSet({j \in D : j > id})
  BY <1>1, FS_Subset
<1>3. \A E \in SUBSET D : {j \in E : j > id} \subseteq {j \in D : j > id}
  OBVIOUS
<1> QED
  BY <1>2, <1>3, FS_Subset, FS_CardinalityType

\* The new directory is the newest, and what goes makes room for it.
LEMMA FinalizeBackupStrong ==
    ASSUME BkStrong, NEW i \in BkRequests, FinalizeBackup(i)
    PROVE  BkStrong'
<1> DEFINE id == bkTask[i].id
           dirs == {j \in BkRequests : bkLocal[j] # None} \cup {id}
           c == [data |-> bkTask[i].held, manifest |-> TRUE, s3 |-> FALSE]
           next == IF BkMirror THEN "upload" ELSE "finish"
<1>1. /\ bkTask[i].pc = "finalize" /\ BkTo(i, next)
      /\ bkLocal' = [j \in BkRequests |-> IF j \notin Kept(dirs) THEN None
                                          ELSE IF j = id THEN c ELSE bkLocal[j]]
      /\ bkTaken' = bkTaken \cup {id}
      /\ UNCHANGED <<bkSite, bkRemote, bkOps, bkLastId, bkDue, bkRunning, bkPeriods, bkPast,
                     bkScheduled, bkDropped>>
  BY DEF FinalizeBackup, BkAt, BkQuiet
<1>2. BkHolds(i) /\ BkLive(i) /\ next \in BkPc /\ BkShapes /\ bkTask[i] \in BkTaskRecord
  BY <1>1 DEF BkStrong, BkShapes, BkHolds, BkLive, BkPc
<1>3. bkOps[i].kind = "backup" /\ id = bkLastId /\ id \in BkRequests /\ id \notin bkTaken
  BY <1>1, <1>2 DEF BkStrong, BkTasksSound, BackupAtWork, Mirroring, Making
<1>4. /\ bkTask' \in [BkRequests -> BkTaskRecord]
      /\ bkTask'[i].pc = next /\ bkTask'[i].id = bkTask[i].id
      /\ bkTask'[i].held = bkTask[i].held /\ bkTask'[i].sched = bkTask[i].sched
      /\ \A j \in BkRequests \ {i} : bkTask'[j] = bkTask[j]
  BY <1>1, <1>2, BkToTask
<1>5. c \in BkCopies /\ c # None /\ c.data = bkTask[i].held /\ c.manifest
  <2>1. bkTask[i].held \in BkData
    BY <1>2 DEF BkTaskRecord
  <2>2. c \in BkCopies
    BY <2>1 DEF BkCopies
  <2> QED
    BY <2>2, BkNoneAssumption
<1>6. FromPast(bkTask[i].held)
  BY DEF BkStrong, StatesReal
<1> HIDE DEF id, dirs, c
<1>7. dirs \subseteq bkTaken' /\ bkTaken' \subseteq 1 .. bkLastId /\ bkTaken' \subseteq BkRequests
  BY <1>1, <1>2, <1>3, BkAssumption DEF dirs, BkStrong, BkShapes, CopiesAgree, BkRequests
<1>8. id \in Kept(dirs) /\ id \in dirs
  <2>1. {j \in dirs : j > id} = {}
    <3>1. \A j \in dirs : j \in 1 .. bkLastId
      BY <1>7
    <3> QED
      BY <1>2, <1>3, <3>1, BkAssumption DEF BkShapes
  <2>2. Cardinality({j \in dirs : j > id}) = 0
    BY <2>1, FS_EmptySet
  <2> QED
    BY <2>2, BkAssumption DEF Kept, dirs
<1>9. /\ bkLocal' \in [BkRequests -> BkCopies \cup {None}] /\ bkLocal'[id] = c
      /\ \A j \in BkRequests \ {id} : bkLocal'[j] = IF j \in Kept(dirs) THEN bkLocal[j] ELSE None
  BY <1>1, <1>2, <1>3, <1>5, <1>8 DEF BkShapes
<1>10. StatesReal'
  BY <1>1, <1>3, <1>4, <1>5, <1>6, <1>9 DEF BkStrong, StatesReal, FromPast
<1>11. CopiesAgree'
  BY <1>1, <1>3, <1>5, <1>9 DEF BkStrong, CopiesAgree, Listed, Mirrored
<1>12. NewestKept'
  <2> SUFFICES ASSUME NEW j \in bkTaken' \ bkDropped', ~Listed(j)'
               PROVE  Cardinality({k \in bkTaken' : k > j}) >= BkKeep
    BY <1>1 DEF NewestKept
  <2>1. j # id /\ j \in BkRequests /\ j \in bkTaken \ bkDropped
    BY <1>1, <1>5, <1>7, <1>9 DEF Listed
  <2>2. CASE Listed(j)
    <3>1. j \in dirs /\ j \notin Kept(dirs)
      BY <1>9, <2>1, <2>2 DEF dirs, Listed
    <3>2. ~(Cardinality({k \in dirs : k > j}) < BkKeep)
      BY <3>1 DEF Kept
    <3>3. /\ dirs \in SUBSET bkTaken' /\ dirs \in SUBSET BkRequests
          /\ bkTaken' \in SUBSET BkRequests
      BY <1>7
    <3>4. /\ Cardinality({k \in dirs : k > j}) \in Nat
          /\ Cardinality({k \in bkTaken' : k > j}) \in Nat
          /\ Cardinality({k \in dirs : k > j}) <= Cardinality({k \in bkTaken' : k > j})
      BY <1>2, <2>1, <3>3, KeptCounts
    <3> QED
      BY <3>2, <3>4, BkAssumption
  <2>3. CASE ~Listed(j)
    <3>1. Cardinality({k \in bkTaken : k > j}) >= BkKeep
      BY <2>1, <2>3 DEF BkStrong, NewestKept
    <3>2. /\ bkTaken \in SUBSET bkTaken' /\ bkTaken \in SUBSET BkRequests
          /\ bkTaken' \in SUBSET BkRequests
      BY <1>1, <1>7
    <3>3. /\ Cardinality({k \in bkTaken : k > j}) \in Nat
          /\ Cardinality({k \in bkTaken' : k > j}) \in Nat
          /\ Cardinality({k \in bkTaken : k > j}) <= Cardinality({k \in bkTaken' : k > j})
      BY <1>2, <2>1, <3>2, KeptCounts
    <3> QED
      BY <3>1, <3>3, BkAssumption
  <2> QED
    BY <2>2, <2>3
<1>13. BackupAtWork(i)' /\ RestoreAtWork(i)'
  BY <1>1, <1>3, <1>4, <1>5, <1>9
     DEF id, BackupAtWork, RestoreAtWork, Making, Mirroring, Listed
<1> QED
  BY <1>1, <1>2, <1>3, <1>4, <1>7, <1>9, <1>10, <1>11, <1>12, <1>13, HolderStep DEF BkShapes

LEMMA FetchStrong ==
    ASSUME BkStrong, NEW i \in BkRequests, Fetch(i)
    PROVE  BkStrong'
<1> DEFINE id == bkTask[i].id
           c == [data |-> bkRemote[id].data, manifest |-> bkRemote[id].manifest, s3 |-> TRUE]
<1>1. /\ bkTask[i].pc = "fetch" /\ BkTo(i, "verify")
      /\ \/ UNCHANGED bkLocal
         \/ ~Listed(id) /\ bkRemote[id] # None /\ bkLocal' = [bkLocal EXCEPT ![id] = c]
      /\ UNCHANGED <<bkSite, bkRemote, bkOps, bkLastId, bkDue, bkRunning, bkPeriods,
                     bkPast, bkScheduled, bkTaken, bkDropped>>
  BY DEF Fetch, BkAt, BkQuiet, bkHistory
<1>2. BkHolds(i) /\ BkLive(i) /\ "verify" \in BkPc /\ BkShapes
  BY <1>1 DEF BkStrong, BkHolds, BkLive, BkPc
<1>3. bkOps[i].kind = "restore" /\ id \in BkRequests
  BY <1>1, <1>2 DEF BkStrong, BkTasksSound, RestoreAtWork
<1>4. /\ bkTask' \in [BkRequests -> BkTaskRecord]
      /\ bkTask'[i].pc = "verify" /\ bkTask'[i].id = bkTask[i].id
      /\ bkTask'[i].held = bkTask[i].held /\ bkTask'[i].sched = bkTask[i].sched
      /\ \A j \in BkRequests \ {i} : bkTask'[j] = bkTask[j]
  BY <1>1, <1>2, BkToTask
<1>5. BackupAtWork(i)' /\ RestoreAtWork(i)'
  BY <1>1, <1>3, <1>4 DEF BackupAtWork, RestoreAtWork
<1>6. CASE UNCHANGED bkLocal
  <2>1. StatesReal' /\ CopiesAgree' /\ NewestKept'
    BY <1>1, <1>4, <1>6
       DEF BkStrong, StatesReal, FromPast, CopiesAgree, NewestKept, Listed, Mirrored
  <2> QED
    BY <1>1, <1>2, <1>3, <1>4, <1>5, <1>6, <2>1, HolderStep DEF BkShapes, Mirroring
<1>7. CASE ~Listed(id) /\ bkRemote[id] # None /\ bkLocal' = [bkLocal EXCEPT ![id] = c]
  <2> HIDE DEF id
  <2>1. bkRemote[id] \in BkMirrors
    BY <1>2, <1>3, <1>7 DEF BkShapes
  <2>2. c \in BkCopies /\ c.data = bkRemote[id].data /\ c.manifest = bkRemote[id].manifest
    BY <2>1 DEF BkMirrors, BkCopies
  <2>3. c # None
    BY <2>2, BkNoneAssumption
  <2> HIDE DEF c
  <2>4. /\ bkLocal' \in [BkRequests -> BkCopies \cup {None}] /\ bkLocal'[id] = c
        /\ \A j \in BkRequests \ {id} : bkLocal'[j] = bkLocal[j]
    BY <1>2, <1>3, <1>7, <2>2 DEF BkShapes
  <2>5. StatesReal'
    BY <1>1, <1>3, <1>4, <1>7, <2>2, <2>4 DEF BkStrong, StatesReal, FromPast
  <2>6. CopiesAgree'
    BY <1>1, <1>3, <1>7, <2>2, <2>3, <2>4 DEF BkStrong, CopiesAgree, Listed, Mirrored
  <2>7. NewestKept'
    <3>1. \A j \in BkRequests : Listed(j) => Listed(j)'
      BY <1>7, <2>4 DEF Listed
    <3>2. bkTaken \subseteq BkRequests
      BY <1>2, BkAssumption DEF BkShapes, BkRequests
    <3> QED
      BY <1>1, <3>1, <3>2 DEF BkStrong, NewestKept
  <2> QED
    BY <1>1, <1>2, <1>3, <1>4, <1>5, <2>4, <2>5, <2>6, <2>7, HolderStep DEF BkShapes, Mirroring
<1> QED
  BY <1>1, <1>6, <1>7

LEMMA VerifyStrong ==
    ASSUME BkStrong, NEW i \in BkRequests, Verify(i)
    PROVE  BkStrong'
<1> DEFINE id == bkTask[i].id
           data == bkLocal[id].data
           t == [bkTask[i] EXCEPT !.pc = "files", !.held = data]
<1>1. /\ bkTask[i].pc = "verify" /\ Listed(id)
      /\ bkTask' = [bkTask EXCEPT ![i].pc = "files", ![i].held = data]
      /\ UNCHANGED <<bkSite, bkLocal, bkRemote, bkOps, bkLastId, bkDue, bkRunning, bkPeriods,
                     bkPast, bkScheduled, bkTaken, bkDropped>>
  BY DEF Verify, BkAt, BkQuiet, bkHistory
<1>2. BkHolds(i) /\ BkLive(i) /\ BkShapes /\ bkTask[i] \in BkTaskRecord
  BY <1>1 DEF BkStrong, BkShapes, BkHolds, BkLive
<1>3. bkOps[i].kind = "restore" /\ id \in BkRequests
  BY <1>1, <1>2 DEF BkStrong, BkTasksSound, RestoreAtWork
<1>4. bkLocal[id] # None /\ bkLocal[id] \in BkCopies
  BY <1>1, <1>2, <1>3 DEF BkShapes, Listed
<1>5. data \in BkData /\ FromPast(data)
  BY <1>3, <1>4 DEF BkCopies, BkStrong, StatesReal
<1> HIDE DEF data
<1>6. t \in BkTaskRecord /\ t.pc = "files" /\ t.id = id /\ t.held = data /\ t.sched = bkTask[i].sched
  BY <1>2, <1>5 DEF BkTaskRecord, BkPc
<1>7. bkTask' = [bkTask EXCEPT ![i] = t]
  BY <1>1, <1>2 DEF BkShapes, BkTaskRecord
<1> HIDE DEF t
<1>8. /\ bkTask' \in [BkRequests -> BkTaskRecord] /\ bkTask'[i] = t
      /\ \A j \in BkRequests \ {i} : bkTask'[j] = bkTask[j]
  BY <1>2, <1>6, <1>7 DEF BkShapes
<1>9. StatesReal'
  BY <1>1, <1>5, <1>6, <1>8 DEF BkStrong, StatesReal, FromPast
<1>10. CopiesAgree' /\ NewestKept'
  BY <1>1 DEF BkStrong, CopiesAgree, NewestKept, Listed, Mirrored
<1>11. BackupAtWork(i)' /\ RestoreAtWork(i)'
  BY <1>1, <1>3, <1>6, <1>8 DEF data, BackupAtWork, RestoreAtWork, Listed
<1> QED
  BY <1>1, <1>2, <1>3, <1>6, <1>8, <1>9, <1>10, <1>11, HolderStep DEF BkShapes, Mirroring

LEMMA RestorePartStrong ==
    ASSUME BkStrong, NEW i \in BkRequests, NEW p \in BkParts, NEW next,
           (p = "files" /\ next = "databases") \/ (p = "databases" /\ next = "finish"),
           RestorePart(i, p, next)
    PROVE  BkStrong'
<1> DEFINE id == bkTask[i].id
           v == bkLocal[id].data[p]
<1>1. /\ bkTask[i].pc = p /\ bkOps[i].kind = "restore" /\ BkTo(i, next)
      /\ UNCHANGED <<bkLocal, bkRemote, bkOps, bkLastId, bkDue, bkRunning, bkPeriods,
                     bkPast, bkScheduled, bkTaken, bkDropped>>
      /\ UNCHANGED bkSite \/ (bkLocal[id] # None /\ bkSite' = [bkSite EXCEPT ![p] = v])
  BY DEF RestorePart, BkAt, BkQuiet, bkHistory
<1>2. BkHolds(i) /\ BkLive(i) /\ BkShapes /\ next \in BkPc
  BY <1>1 DEF BkStrong, BkHolds, BkLive, BkParts, BkPc
<1>3. RestoreAtWork(i) /\ id \in BkRequests
  BY <1>1, <1>2 DEF BkStrong, BkTasksSound, RestoreAtWork
<1>4. /\ bkTask' \in [BkRequests -> BkTaskRecord]
      /\ bkTask'[i].pc = next /\ bkTask'[i].id = bkTask[i].id
      /\ bkTask'[i].held = bkTask[i].held /\ bkTask'[i].sched = bkTask[i].sched
      /\ \A j \in BkRequests \ {i} : bkTask'[j] = bkTask[j]
  BY <1>1, <1>2, BkToTask
<1>5. bkSite' \in BkData /\ FromPast(bkSite)'
  <2>1. CASE UNCHANGED bkSite
    BY <1>1, <2>1 DEF BkStrong, BkShapes, StatesReal, FromPast
  <2>2. CASE bkLocal[id] # None /\ bkSite' = [bkSite EXCEPT ![p] = v]
    <3>1. v \in (1 .. BkMaxVersions) \cup {None} /\ v \in bkPast[p] \cup {None}
      BY <1>2, <1>3, <2>2 DEF BkStrong, BkShapes, StatesReal, FromPast, BkCopies, BkData
    <3> HIDE DEF v
    <3> QED
      BY <1>1, <1>2, <2>2, <3>1 DEF BkStrong, BkShapes, StatesReal, FromPast, BkData
  <2> QED
    BY <1>1, <2>1, <2>2
<1>6. StatesReal'
  BY <1>1, <1>4, <1>5 DEF BkStrong, StatesReal, FromPast
<1>7. CopiesAgree' /\ NewestKept'
  BY <1>1 DEF BkStrong, CopiesAgree, NewestKept, Listed, Mirrored
<1>8. BackupAtWork(i)' /\ RestoreAtWork(i)'
  BY <1>1, <1>3, <1>4 DEF BackupAtWork, RestoreAtWork, BkParts, Listed
<1> QED
  BY <1>1, <1>2, <1>4, <1>5, <1>6, <1>7, <1>8, HolderStep DEF BkShapes, Mirroring

-----------------------------------------------------------------------------
(* Ends, failures, restarts.                                               *)

LEMMA BkFinishStrong ==
    ASSUME BkStrong, NEW i \in BkRequests, BkFinish(i)
    PROVE  BkStrong'
  BY BkEndStrong DEF BkFinish, BkAt, BkLive, BkQuiet, bkHistory

\* A download breaks off: what was no backup is none, and none is lost.
LEMMA FetchBreaksStrong ==
    ASSUME BkStrong, NEW i \in BkRequests, BkStepFails(i), ~BkImpossible(i), BkAt(i, "fetch"),
           ~Listed(bkTask[i].id)
    PROVE  BkStrong'
<1> DEFINE id == bkTask[i].id
           c == [data |-> BkNothing, manifest |-> FALSE, s3 |-> FALSE]
<1>1. /\ bkTask[i].pc = "fetch" /\ BkEnd(i, "failed") /\ bkLocal' = [bkLocal EXCEPT ![id] = c]
      /\ UNCHANGED <<bkSite, bkRemote, bkLastId, bkDue, bkPeriods, bkPast, bkScheduled,
                     bkTaken, bkDropped>>
      /\ bkRemote[id] # None
  BY DEF BkStepFails, BkImpossible, BkAt, bkHistory
<1>2. BkHolds(i) /\ BkLive(i) /\ BkShapes /\ bkOps[i] # None
  BY <1>1 DEF BkStrong, BkTasksSound, BkHolds, BkLive
<1>3. bkOps[i].kind = "restore" /\ id \in BkRequests
  BY <1>1, <1>2 DEF BkStrong, BkTasksSound, RestoreAtWork
<1>4. /\ bkTask' \in [BkRequests -> BkTaskRecord]
      /\ bkTask'[i] = BkIdle
      /\ \A j \in BkRequests \ {i} : bkTask'[j] = bkTask[j] /\ bkOps'[j] = bkOps[j]
      /\ bkOps' \in [BkRequests -> BkOperations \cup {None}]
      /\ bkOps'[i] # None /\ bkOps'[i].kind = bkOps[i].kind
      /\ bkRunning' \in BkRequests \cup {None}
      /\ bkRunning # i => bkRunning' = bkRunning
  BY <1>1, <1>2, BkEndTask
<1>5. /\ bkTask'[i].pc = "off" /\ ~bkTask'[i].sched /\ FromPast(bkTask[i].held)'
  BY <1>4, BkIdleTask DEF FromPast
<1> HIDE DEF id
<1>6. c \in BkCopies /\ ~c.manifest /\ \A p \in BkParts : c.data[p] = None
  <2>1. BkNothing \in BkData
    BY DEF BkNothing, BkData
  <2> QED
    BY <2>1 DEF BkCopies, BkNothing
<1> HIDE DEF c
<1>7. /\ bkLocal' \in [BkRequests -> BkCopies \cup {None}] /\ bkLocal'[id] = c
      /\ \A j \in BkRequests \ {id} : bkLocal'[j] = bkLocal[j]
  BY <1>1, <1>2, <1>3, <1>6 DEF BkShapes
<1>8. BkShapes'
  BY <1>1, <1>2, <1>4, <1>7 DEF BkShapes
<1>9. IdsGiven'
  BY <1>1, <1>2, <1>4, <1>5, HolderBegun
<1>10. StatesReal'
  BY <1>1, <1>4, <1>5, <1>6, <1>7 DEF BkStrong, StatesReal, FromPast
<1>11. CopiesAgree'
  BY <1>1, <1>3, <1>6, <1>7 DEF BkStrong, CopiesAgree, Listed, Mirrored
<1>12. NewestKept'
  <2>1. \A j \in BkRequests : Listed(j) => Listed(j)'
    BY <1>7 DEF Listed, id
  <2>2. bkTaken \subseteq BkRequests
    BY <1>2, BkAssumption DEF BkShapes, BkRequests
  <2> QED
    BY <1>1, <2>1, <2>2 DEF BkStrong, NewestKept
<1>13. LockHeldOnce' /\ BkTasksSound'
  BY <1>2, <1>4, <1>5, HolderTasks DEF BkLive
<1>14. ScheduleSound'
  BY <1>1, <1>2, <1>4, <1>5, HolderSchedule
<1> QED
  BY <1>8, <1>9, <1>10, <1>11, <1>12, <1>13, <1>14 DEF BkStrong

LEMMA BkStepFailsStrong ==
    ASSUME BkStrong, NEW i \in BkRequests, BkStepFails(i)
    PROVE  BkStrong'
<1>1. CASE UNCHANGED bkLocal
  BY <1>1, BkEndStrong DEF BkStepFails, bkHistory
<1>2. CASE ~UNCHANGED bkLocal
  BY <1>2, FetchBreaksStrong DEF BkStepFails
<1> QED
  BY <1>1, <1>2

LEMMA BkReapStrong ==
    ASSUME BkStrong, NEW i \in BkRequests, BkReap(i)
    PROVE  BkStrong'
<1>1. /\ bkOps[i] # None /\ bkTask[i].pc = "off"
      /\ bkOps' = [bkOps EXCEPT ![i].status = "failed"]
      /\ UNCHANGED <<bkSite, bkLocal, bkRemote, bkTask, bkLastId, bkDue, bkRunning, bkPeriods,
                     bkPast, bkScheduled, bkTaken, bkDropped>>
  BY DEF BkReap, BkLive, BkQuiet, bkHistory
<1>2. bkOps[i] \in BkOperations
  BY <1>1 DEF BkStrong, BkShapes
<1>3. [bkOps[i] EXCEPT !.status = "failed"] \in BkOperations
  BY <1>2 DEF BkOperations
<1>4. /\ bkOps' \in [BkRequests -> BkOperations \cup {None}] /\ bkOps'[i] # None
      /\ \A j \in BkRequests \ {i} : bkOps'[j] = bkOps[j]
  BY <1>1, <1>3, BkNoneAssumption DEF BkStrong, BkShapes
<1>5. BkShapes'
  BY <1>1, <1>4 DEF BkStrong, BkShapes
<1>6. IdsGiven'
  BY <1>1, <1>4, BegunGrows DEF BkStrong, BkBegun
<1>7. StatesReal' /\ CopiesAgree' /\ NewestKept' /\ LockHeldOnce' /\ ScheduleSound'
  BY <1>1 DEF BkStrong, StatesReal, FromPast, CopiesAgree, NewestKept, Listed, Mirrored,
              LockHeldOnce, BkHolds, ScheduleSound, ScheduleWaits, Awaited
<1>8. BkTasksSound'
  BY <1>1, <1>4 DEF BkStrong, BkTasksSound, BkLive, BackupAtWork, RestoreAtWork, Listed
<1> QED
  BY <1>5, <1>6, <1>7, <1>8 DEF BkStrong

LEMMA BkRestartStrong ==
    ASSUME BkStrong, BkRestart
    PROVE  BkStrong'
<1>1. /\ bkTask' = [i \in BkRequests |-> BkIdle] /\ bkRunning' = None
      /\ UNCHANGED <<bkSite, bkLocal, bkRemote, bkOps, bkLastId, bkDue, bkPeriods,
                     bkPast, bkScheduled, bkTaken, bkDropped>>
  BY DEF BkRestart, bkHistory
<1>2. \A i \in BkRequests : bkTask'[i] = BkIdle
  BY <1>1
<1>3. BkShapes'
  BY <1>1, BkIdleTask DEF BkStrong, BkShapes
<1>4. IdsGiven'
  BY <1>1, <1>2, BkIdleTask, BegunGrows DEF BkStrong, BkBegun
<1>5. StatesReal'
  BY <1>1, <1>2, BkIdleTask DEF BkStrong, StatesReal, FromPast
<1>6. CopiesAgree' /\ NewestKept'
  BY <1>1 DEF BkStrong, CopiesAgree, NewestKept, Listed, Mirrored
<1>7. LockHeldOnce' /\ BkTasksSound'
  BY <1>2, BkIdleTask DEF LockHeldOnce, BkHolds, BkTasksSound, BkLive
<1>8. ScheduleSound'
  <2>1. ScheduleWaits' /\ (Awaited' => Awaited)
    BY <1>1, <1>2, BkIdleTask DEF ScheduleWaits, Awaited
  <2> QED
    BY <1>1, <2>1 DEF BkStrong, BkShapes, ScheduleSound
<1> QED
  BY <1>3, <1>4, <1>5, <1>6, <1>7, <1>8 DEF BkStrong

-----------------------------------------------------------------------------
(* The invariant.                                                          *)

LEMMA BkInitStrong == BkInit => BkStrong
<1> SUFFICES ASSUME BkInit PROVE BkStrong
  OBVIOUS
<1>1. \A i \in BkRequests : bkTask[i] = BkIdle /\ bkOps[i] = None /\ bkLocal[i] = None
                            /\ bkRemote[i] = None
  BY DEF BkInit
<1>2. BkShapes
  <2>1. bkSite \in BkData /\ bkPast \in [BkParts -> SUBSET (1 .. BkMaxVersions)]
    BY BkAssumption DEF BkInit, BkData
  <2>2. /\ bkLocal \in [BkRequests -> BkCopies \cup {None}]
        /\ bkRemote \in [BkRequests -> BkMirrors \cup {None}]
        /\ bkOps \in [BkRequests -> BkOperations \cup {None}]
        /\ bkTask \in [BkRequests -> BkTaskRecord]
    BY BkIdleTask DEF BkInit
  <2>3. bkLastId \in 0 .. BkMaxOps /\ bkTaken \subseteq 1 .. bkLastId
    BY BkAssumption DEF BkInit
  <2> QED
    BY <2>1, <2>2, <2>3 DEF BkInit, BkShapes
<1>3. IdsGiven
  BY BegunFinite DEF IdsGiven, BkInit
<1>4. StatesReal
  BY <1>1, BkIdleTask DEF BkInit, StatesReal, FromPast
<1>5. CopiesAgree /\ NewestKept
  BY <1>1 DEF BkInit, CopiesAgree, NewestKept, Listed
<1>6. LockHeldOnce /\ BkTasksSound /\ ScheduleSound
  BY <1>1, BkIdleTask
     DEF BkInit, LockHeldOnce, BkHolds, BkTasksSound, BkLive, ScheduleSound, ScheduleWaits, Awaited
<1> QED
  BY <1>2, <1>3, <1>4, <1>5, <1>6 DEF BkStrong

LEMMA BkTaskStepStrong ==
    ASSUME BkStrong, NEW i \in BkRequests, BkTaskStep(i)
    PROVE  BkStrong'
<1>1. CASE Dump(i, "databases", "files")
  BY <1>1, DumpStrong DEF BkParts
<1>2. CASE Dump(i, "files", "finalize")
  BY <1>2, DumpStrong DEF BkParts
<1>3. CASE RestorePart(i, "files", "databases")
  BY <1>3, RestorePartStrong DEF BkParts
<1>4. CASE RestorePart(i, "databases", "finish")
  BY <1>4, RestorePartStrong DEF BkParts
<1> QED
  BY <1>1, <1>2, <1>3, <1>4, BkBeginStrong, FinalizeBackupStrong, UploadStrong, FlagStrong,
     CompleteUploadStrong, FetchStrong, VerifyStrong, BkFinishStrong, BkStepFailsStrong
     DEF BkTaskStep

LEMMA BkNextStrong == BkStrong /\ [BkNext]_bkVars => BkStrong'
<1> SUFFICES ASSUME BkStrong, [BkNext]_bkVars PROVE BkStrong'
  OBVIOUS
<1>1. CASE UNCHANGED bkVars
  BY <1>1 DEF bkVars, BkStrong, BkShapes, IdsGiven, BkBegun, StatesReal, FromPast, CopiesAgree,
              NewestKept, Listed, Mirrored, LockHeldOnce, BkHolds, BkTasksSound, BkLive,
              BackupAtWork, RestoreAtWork, ScheduleSound, ScheduleWaits, Awaited
<1>2. CASE BkNext
  BY <1>2, StartBackupStrong, StartRestoreStrong, BkTaskStepStrong, BkReapStrong,
     DeleteBackupStrong, EditSiteStrong, ComesDueStrong, RemoveSiteStrong, BkRestartStrong
     DEF BkNext
<1> QED
  BY <1>1, <1>2

\* Types, and the two facts about backups: the schedule starts one backup for
\* each time it came due, and a completed backup stays until a user deletes it
\* or enough newer ones are complete.
LEMMA BkStrongImplies == BkStrong => BkTypeOK /\ BackupsKept
<1> SUFFICES ASSUME BkStrong PROVE BkTypeOK /\ BackupsKept
  OBVIOUS
<1>1. ScheduledOncePerPeriod
  BY DEF BkStrong, BkShapes, ScheduleSound, ScheduledOncePerPeriod
<1> QED
  BY <1>1 DEF BkStrong, BkShapes, BkTypeOK, BackupsKept

LEMMA BkAlwaysStrong == BkSpec => []BkStrong
<1> QED
  BY BkInitStrong, BkNextStrong, PTL DEF BkSpec

\* The state of backups keeps its types: operations, directories, mirrors and
\* the schedule of services/backup.py and jobs.
THEOREM BackupTypes == BkSpec => []BkTypeOK
  BY BkAlwaysStrong, BkStrongImplies, PTL

\* prune(), delete_backup(), failing uploads and restores and restarts of the
\* panel take no completed backup away that retention keeps, and tick() starts
\* no second backup before the schedule comes due again.
THEOREM CompletedBackupsStay == BkSpec => []BackupsKept
  BY BkAlwaysStrong, BkStrongImplies, PTL

-----------------------------------------------------------------------------
(* Backups implement an archive store.                                     *)

LEMMA ArchivedSame ==
    ASSUME \A j \in BkRequests :
             Archived'[j] = Archived[j]
    PROVE  Archived' = Archived
  BY DEF Archived

\* What an archive holds is no deletion.
LEMMA ArchivedData ==
    ASSUME BkStrong, NEW j \in BkRequests
    PROVE  /\ Listed(j) => Archived[j] = bkLocal[j].data /\ Archived[j] \in BkData
           /\ Mirrored(j) => Archived[j] = bkRemote[j].data /\ Archived[j] \in BkData
           /\ Archived[j] # None <=> Listed(j) \/ Mirrored(j)
<1>1. Listed(j) => bkLocal[j].data \in BkData
  BY DEF BkStrong, BkShapes, BkCopies, Listed
<1>2. Mirrored(j) => bkRemote[j].data \in BkData
  BY DEF BkStrong, BkShapes, BkMirrors, Mirrored
<1>3. Listed(j) /\ Mirrored(j) => bkLocal[j].data = bkRemote[j].data
  BY DEF BkStrong, CopiesAgree
<1>4. Archived[j] = IF Listed(j) THEN bkLocal[j].data
                    ELSE IF Mirrored(j) THEN bkRemote[j].data ELSE None
  BY DEF Archived, Mirrored
<1> QED
  BY <1>1, <1>2, <1>3, <1>4, BkNoneAssumption

LEMMA StoreInitImplied == BkInit => Store!StoreInit
<1> SUFFICES ASSUME BkInit PROVE Store!StoreInit
  OBVIOUS
<1>1. bkSite \in [BkParts -> 1 .. BkMaxVersions] /\ bkPast = [p \in BkParts |-> {bkSite[p]}]
  BY BkAssumption DEF BkInit
<1>2. Archived = [j \in BkRequests |-> None]
  BY DEF BkInit, Archived, Listed
<1> QED
  BY <1>1, <1>2 DEF Store!StoreInit

\* A user deletes a directory: unless S3 has the same, an archive is dropped.
LEMMA DeleteDrops ==
    ASSUME BkStrong, BkStrong', NEW id \in BkRequests, DeleteBackup(id)
    PROVE  [Store!StoreNext]_Store!storeVars
<1>1. /\ UNCHANGED <<bkSite, bkPast, bkRemote>> /\ bkLocal' = [bkLocal EXCEPT ![id] = None]
  BY DEF DeleteBackup
<1>2. \A j \in BkRequests \ {id} : Archived'[j] = Archived[j]
  BY <1>1 DEF BkStrong, BkShapes, Archived, Listed
<1>3. Archived'[id] = IF Mirrored(id) THEN bkRemote[id].data ELSE None
  BY <1>1 DEF BkStrong, BkShapes, Archived, Listed, Mirrored
<1>4. CASE Mirrored(id)
  <2>1. Archived' = Archived
    BY <1>2, <1>3, <1>4, ArchivedData, ArchivedSame
  <2> QED
    BY <1>1, <2>1 DEF Store!storeVars
<1>5. CASE ~Mirrored(id)
  <2>1. Archived' = [Archived EXCEPT ![id] = None]
    BY <1>2, <1>3, <1>5 DEF Archived
  <2> QED
    BY <1>1, <2>1 DEF Store!storeVars, Store!StoreNext, Store!Drop
<1> QED
  BY <1>4, <1>5

LEMMA EditChanges ==
    ASSUME BkStrong, NEW p \in BkParts, EditSite(p)
    PROVE  Store!Change
<1> DEFINE T == UNION {bkPast[q] : q \in BkParts}
<1>1. PICK v \in 1 .. BkMaxVersions :
         /\ v = 1 + Greatest(T)
         /\ bkSite' = [bkSite EXCEPT ![p] = v] /\ bkPast' = [bkPast EXCEPT ![p] = @ \cup {v}]
  BY DEF EditSite
<1>2. /\ \A q \in BkParts : bkSite[q] # None
      /\ UNCHANGED <<bkLocal, bkRemote>>
  BY DEF EditSite, BkSiteExists
<1>3. T \in SUBSET (0 .. BkMaxVersions) /\ BkMaxVersions \in Nat
  BY BkAssumption DEF BkStrong, BkShapes
<1>4. bkSite[p] \in T /\ bkPast[p] \subseteq T
  BY <1>2 DEF BkStrong, StatesReal, FromPast
<1> HIDE DEF T
<1>5. Greatest(T) \in T /\ \A n \in T : n <= Greatest(T)
  BY <1>3, <1>4, GreatestOf
<1>6. v \notin bkPast[p]
  <2>1. Greatest(T) \in 0 .. BkMaxVersions
    BY <1>3, <1>5
  <2>2. ASSUME NEW n \in bkPast[p]
        PROVE  n \in 0 .. BkMaxVersions /\ n <= Greatest(T)
    <3>1. n \in T
      BY <1>4
    <3> QED
      BY <1>3, <1>5, <3>1
  <2> QED
    BY <1>1, <2>1, <2>2
<1>7. Archived' = Archived
  BY <1>2 DEF Archived, Listed
<1> QED
  BY <1>1, <1>2, <1>6, <1>7 DEF Store!Change, Store!Become

\* What a restore reads is a backup it has verified.
LEMMA RestoreRestores ==
    ASSUME BkStrong, NEW i \in BkRequests, NEW p \in BkParts, NEW next, RestorePart(i, p, next)
    PROVE  [Store!StoreNext]_Store!storeVars
<1> DEFINE id == bkTask[i].id
<1>1. bkTask[i].pc = p /\ bkOps[i].kind = "restore" /\ UNCHANGED <<bkLocal, bkRemote, bkPast>>
  BY DEF RestorePart, BkAt, bkHistory
<1>2. Archived' = Archived
  BY <1>1 DEF Archived, Listed
<1>3. CASE UNCHANGED bkSite
  BY <1>1, <1>2, <1>3 DEF Store!storeVars
<1>4. CASE /\ bkTask[i].held[p] # None /\ bkLocal[id] # None /\ BkSiteExists
           /\ bkSite' = [bkSite EXCEPT ![p] = bkLocal[id].data[p]]
  <2>1. BkLive(i) /\ p \in {"files", "databases"}
    BY <1>1 DEF BkLive, BkParts
  <2>2. id \in BkRequests /\ Listed(id) /\ bkLocal[id].data = bkTask[i].held
    BY <1>1, <1>4, <2>1 DEF BkStrong, BkTasksSound, RestoreAtWork
  <2>3. Archived[id] = bkLocal[id].data /\ Archived[id] # None
    BY <2>2, ArchivedData
  <2>4. bkLocal[id].data[p] \in bkPast[p]
    BY <1>4, <2>2 DEF BkStrong, StatesReal, FromPast, Listed
  <2>5. bkPast' = [bkPast EXCEPT ![p] = @ \cup {Archived[id][p]}]
    BY <1>1, <2>3, <2>4 DEF BkStrong, BkShapes
  <2>6. Store!RestorePart
    BY <1>2, <1>4, <2>2, <2>3, <2>5 DEF Store!RestorePart, Store!Become, BkSiteExists
  <2> QED
    BY <2>6 DEF Store!StoreNext
<1> QED
  BY <1>3, <1>4 DEF RestorePart

\* The new backup is archived, and those beyond retention are dropped.
LEMMA FinalizeArchives ==
    ASSUME BkStrong, BkStrong', NEW i \in BkRequests, FinalizeBackup(i)
    PROVE  Store!Archive
<1> DEFINE id == bkTask[i].id
           held == bkTask[i].held
           dirs == {j \in BkRequests : bkLocal[j] # None} \cup {id}
           dropped == {j \in BkRequests \ {id} : Archived'[j] = None}
<1>1. /\ bkTask[i].pc = "finalize" /\ UNCHANGED <<bkSite, bkPast, bkRemote, bkOps, bkLastId>>
      /\ bkLocal' = [j \in BkRequests |->
            IF j \notin Kept(dirs) THEN None
            ELSE IF j = id THEN [data |-> held, manifest |-> TRUE, s3 |-> FALSE]
            ELSE bkLocal[j]]
      /\ id \in bkTaken' /\ BkTo(i, IF BkMirror THEN "upload" ELSE "finish")
  BY DEF FinalizeBackup, BkAt
<1>2. id \in BkRequests /\ id \notin bkTaken /\ id = bkLastId
  BY <1>1 DEF BkStrong, BkTasksSound, BkLive, BackupAtWork, Making, Mirroring
<1>3. ~Listed(id) /\ ~Mirrored(id)
  BY <1>2 DEF BkStrong, CopiesAgree, Listed, Mirrored
<1>4. Archived[id] = None
  BY <1>2, <1>3, ArchivedData
<1>5. held \in BkData /\ FromPast(held) /\ held # None
  <2>1. bkTask[i] \in BkTaskRecord
    BY DEF BkStrong, BkShapes
  <2> QED
    BY <2>1, BkNoneAssumption DEF BkStrong, BkTaskRecord, StatesReal
<1> HIDE DEF id, dirs
<1>6. id \in Kept(dirs)
  <2>1. \A j \in dirs : j \in 1 .. bkLastId
    BY <1>2, BkAssumption DEF dirs, BkStrong, BkShapes, CopiesAgree, BkRequests
  <2>2. {j \in dirs : j > id} = {}
    BY <1>2, <2>1, BkAssumption DEF BkStrong, BkShapes
  <2>3. Cardinality({j \in dirs : j > id}) = 0
    BY <2>2, FS_EmptySet
  <2> QED
    BY <2>3, BkAssumption DEF Kept, dirs
<1> HIDE DEF held
<1>7. Archived'[id] = held
  <2>1. bkLocal'[id] = [data |-> held, manifest |-> TRUE, s3 |-> FALSE]
    BY <1>1, <1>2, <1>6
  <2>2. bkLocal'[id] \in BkCopies
    BY <2>1, <1>5 DEF BkCopies
  <2>3. bkLocal'[id] # None
    BY <2>2, BkNoneAssumption
  <2>4. bkLocal'[id].manifest /\ bkLocal'[id].data = held
    BY <2>1
  <2> QED
    BY <1>2, <2>3, <2>4 DEF Archived, Listed
<1>8. \A j \in BkRequests \ {id} : j \notin dropped => Archived'[j] = Archived[j]
  <2> SUFFICES ASSUME NEW j \in BkRequests \ {id}, Archived'[j] # None
               PROVE  Archived'[j] = Archived[j]
    OBVIOUS
  <2>1. bkLocal'[j] \in {None, bkLocal[j]} /\ bkRemote'[j] = bkRemote[j]
    BY <1>1
  <2>2. Archived'[j] = IF Listed(j)' THEN bkLocal'[j].data
                       ELSE IF Mirrored(j) THEN bkRemote[j].data ELSE None
    BY <1>1 DEF Archived, Mirrored
  <2>3. Listed(j)' => Listed(j) /\ bkLocal'[j] = bkLocal[j]
    BY <2>1 DEF Listed
  <2> QED
    BY <2>2, <2>3, ArchivedData
<1>9. Archived' = [j \in BkRequests |-> IF j = id THEN held
                     ELSE IF j \in dropped THEN None ELSE Archived[j]]
  <2>1. \A j \in BkRequests : Archived'[j] = IF j = id THEN held
                                ELSE IF j \in dropped THEN None ELSE Archived[j]
    BY <1>7, <1>8
  <2> QED
    BY <2>1 DEF Archived
<1>10. held \in [BkParts -> (UNION {bkPast[p] : p \in BkParts}) \cup {None}]
  BY <1>5 DEF BkData, FromPast
<1>11. id \notin dropped /\ dropped \in SUBSET BkRequests /\ Archived' # Archived
  BY <1>4, <1>5, <1>7
<1> HIDE DEF dropped
<1> QED
  BY <1>1, <1>2, <1>4, <1>5, <1>9, <1>10, <1>11 DEF Store!Archive, FromPast

\* Uploads, downloads and their failures neither make nor change an archive.
LEMMA CopyingKeeps ==
    ASSUME BkStrong, BkStrong', NEW i \in BkRequests,
           Upload(i) \/ Flag(i) \/ CompleteUpload(i) \/ Fetch(i) \/ BkStepFails(i)
    PROVE  UNCHANGED Store!storeVars
<1> DEFINE id == bkTask[i].id
<1>1. UNCHANGED <<bkSite, bkPast>>
  BY DEF Upload, Flag, CompleteUpload, Fetch, BkStepFails, bkHistory
<1>2. BkLive(i) /\ bkTask[i].pc \in Mirroring => BackupAtWork(i) /\ bkOps[i].kind = "backup"
  BY DEF BkStrong, BkTasksSound
<1>3. BkLive(i) /\ bkOps[i].kind = "restore" => id \in BkRequests
  BY DEF BkStrong, BkTasksSound, RestoreAtWork
<1>4. BkShapes
  BY DEF BkStrong
<1>5. CASE Upload(i)
  <2>1. Listed(id) /\ id \in BkRequests
    BY <1>2, <1>5 DEF Upload, BkAt, BkLive, BackupAtWork, Mirroring
  <2>2. UNCHANGED bkLocal /\ \A j \in BkRequests \ {id} : bkRemote'[j] = bkRemote[j]
    BY <1>4, <1>5, <2>1 DEF Upload, BkShapes
  <2>3. \A j \in BkRequests : Archived'[j] = Archived[j]
    BY <2>1, <2>2 DEF Archived, Listed
  <2> QED
    BY <1>1, <2>3, ArchivedSame DEF Store!storeVars
<1>6. CASE Flag(i)
  <2>1. Listed(id) /\ id \in BkRequests
    BY <1>2, <1>6 DEF Flag, BkAt, BkLive, BackupAtWork, Mirroring
  <2>2. UNCHANGED bkRemote /\ bkLocal' = [bkLocal EXCEPT ![id].s3 = TRUE]
    BY <1>6 DEF Flag
  <2>3. /\ bkLocal'[id] # None /\ bkLocal'[id].manifest
        /\ bkLocal'[id].data = bkLocal[id].data
        /\ \A j \in BkRequests \ {id} : bkLocal'[j] = bkLocal[j]
    <3>1. bkLocal[id] \in BkCopies
      BY <1>4, <2>1 DEF BkShapes, Listed
    <3>2. bkLocal'[id] = [bkLocal[id] EXCEPT !.s3 = TRUE]
      BY <1>4, <2>1, <2>2 DEF BkShapes
    <3>3. bkLocal'[id] \in BkCopies /\ bkLocal'[id].data = bkLocal[id].data /\ bkLocal'[id].manifest
      BY <2>1, <3>1, <3>2 DEF BkCopies, Listed
    <3> QED
      BY <1>4, <2>1, <2>2, <3>3, BkNoneAssumption DEF BkShapes
  <2>4. \A j \in BkRequests : Archived'[j] = Archived[j]
    BY <2>1, <2>2, <2>3 DEF Archived, Listed
  <2> QED
    BY <1>1, <2>4, ArchivedSame DEF Store!storeVars
<1>7. CASE CompleteUpload(i)
  <2>1. Listed(id) /\ id \in BkRequests
    BY <1>2, <1>7 DEF CompleteUpload, BkAt, BkLive, BackupAtWork, Mirroring
  <2>2. UNCHANGED bkLocal /\ \A j \in BkRequests \ {id} : bkRemote'[j] = bkRemote[j]
    BY <1>4, <1>7, <2>1 DEF CompleteUpload, BkShapes
  <2>3. \A j \in BkRequests : Archived'[j] = Archived[j]
    BY <2>1, <2>2 DEF Archived, Listed
  <2> QED
    BY <1>1, <2>3, ArchivedSame DEF Store!storeVars
<1>8. CASE (Fetch(i) \/ BkStepFails(i)) /\ UNCHANGED bkLocal
  <2>1. UNCHANGED bkRemote
    BY <1>8 DEF Fetch, BkStepFails
  <2>2. Archived' = Archived
    BY <1>8, <2>1 DEF Archived, Listed
  <2> QED
    BY <1>1, <2>2 DEF Store!storeVars
<1>9. CASE (Fetch(i) \/ BkStepFails(i)) /\ ~UNCHANGED bkLocal
  <2>1. bkTask[i].pc = "fetch" /\ ~Listed(id) /\ UNCHANGED bkRemote
    BY <1>9 DEF Fetch, BkStepFails, BkAt
  <2>2. id \in BkRequests
    BY <1>3, <2>1 DEF BkLive, BkStrong, BkTasksSound
  <2>3. /\ bkLocal'[id] # None /\ bkLocal'[id].manifest =>
              Mirrored(id) /\ bkLocal'[id].data = bkRemote[id].data
        /\ \A j \in BkRequests \ {id} : bkLocal'[j] = bkLocal[j]
    BY <1>4, <1>9, <2>1, <2>2 DEF Fetch, BkStepFails, BkShapes, Listed, Mirrored
  <2>4. \A j \in BkRequests : Archived'[j] = Archived[j]
    BY <2>1, <2>2, <2>3 DEF Archived, Listed, Mirrored
  <2> QED
    BY <1>1, <2>4, ArchivedSame DEF Store!storeVars
<1> QED
  BY <1>5, <1>6, <1>7, <1>8, <1>9

\* The other steps touch neither the site nor a copy.
LEMMA OthersKeep ==
    ASSUME UNCHANGED <<bkSite, bkPast, bkLocal, bkRemote>>
    PROVE  UNCHANGED Store!storeVars
<1>1. Archived' = Archived
  BY DEF Archived, Listed
<1> QED
  BY <1>1 DEF Store!storeVars

LEMMA StoreTaskStep ==
    ASSUME BkStrong, BkStrong', NEW i \in BkRequests, BkTaskStep(i)
    PROVE  [Store!StoreNext]_Store!storeVars
<1>1. CASE BkBegin(i) \/ Verify(i) \/ BkFinish(i)
  BY <1>1, OthersKeep DEF BkBegin, Verify, BkFinish, bkHistory
<1>2. CASE Dump(i, "databases", "files") \/ Dump(i, "files", "finalize")
  BY <1>2, OthersKeep DEF Dump, bkHistory
<1>3. CASE FinalizeBackup(i)
  BY <1>3, FinalizeArchives DEF Store!StoreNext
<1>4. CASE RestorePart(i, "files", "databases") \/ RestorePart(i, "databases", "finish")
  BY <1>4, RestoreRestores DEF BkParts
<1>5. CASE Upload(i) \/ Flag(i) \/ CompleteUpload(i) \/ Fetch(i) \/ BkStepFails(i)
  BY <1>5, CopyingKeeps
<1> QED
  BY <1>1, <1>2, <1>3, <1>4, <1>5 DEF BkTaskStep

LEMMA StoreNextImplied ==
    BkStrong /\ BkStrong' /\ [BkNext]_bkVars => [Store!StoreNext]_Store!storeVars
<1> SUFFICES ASSUME BkStrong, BkStrong', [BkNext]_bkVars
             PROVE  [Store!StoreNext]_Store!storeVars
  OBVIOUS
<1>1. CASE UNCHANGED bkVars
  BY <1>1, OthersKeep DEF bkVars
<1>2. ASSUME NEW i \in BkRequests, StartBackup(i) \/ Tick(i) \/ BkReap(i)
      PROVE  [Store!StoreNext]_Store!storeVars
  BY <1>2, OthersKeep DEF StartBackup, Tick, BkReap, BkAccept, bkHistory
<1>3. ASSUME NEW i \in BkRequests, NEW id \in BkRequests, StartRestore(i, id)
      PROVE  [Store!StoreNext]_Store!storeVars
  BY <1>3, OthersKeep DEF StartRestore, BkAccept, bkHistory
<1>4. CASE ComesDue \/ BkRestart
  BY <1>4, OthersKeep DEF ComesDue, BkRestart, bkHistory
<1>5. CASE RemoveSite
  <2>1. Archived' = Archived
    BY <1>5 DEF RemoveSite, Archived, Listed
  <2> QED
    BY <1>5, <2>1 DEF RemoveSite, BkNothing, bkHistory, Store!Vanish, Store!StoreNext
<1> QED
  BY <1>1, <1>2, <1>3, <1>4, <1>5, StoreTaskStep, DeleteDrops, EditChanges
     DEF BkNext, Store!StoreNext

\* Backups, mirrors, retention, restores and deletions, whatever fails between
\* them, implement the archive store: no archive changes while it exists, and
\* a restored part of the site is what some backup holds of it.
THEOREM BackupsImplementStore == BkSpec => ImplementsStore
<1>1. BkStrong /\ BkStrong' /\ [BkNext]_bkVars => [Store!StoreNext]_Store!storeVars
  BY StoreNextImplied
<1> QED
  BY BkAlwaysStrong, StoreInitImplied, <1>1, PTL DEF BkSpec, ImplementsStore, Store!StoreSpec

-----------------------------------------------------------------------------
(* Databases: what is at hand of a name while one request works on it.     *)

DbKinds == {"create", "delete", "reset", "orphan", "site"}
DbTaskRecord == [kind : DbKinds \cup {None}, names : SUBSET DbNames, id : Nat, pc : {"off", "sql", "commit"}]

DbShapes ==
    /\ dbSite \in {"active", "deleting", "error", None}
    /\ dbRow \in [DbNames -> DbRow \cup {None}]
    /\ dbSchema \subseteq DbNames
    /\ dbAccount \in [DbNames -> (0 .. DbMaxOps) \cup {None}]
    /\ dbShown \in [DbNames -> (0 .. DbMaxOps) \cup {None}]
    /\ dbTask \in [DbRequests -> DbTaskRecord]
    /\ dbPeak \in Nat

\* A request that is not accepted does nothing, and a creation is of one name.
DbTasksSound ==
    \A i \in DbRequests : dbTask[i].pc # "off" =>
        /\ dbTask[i].kind # None
        /\ dbTask[i].kind = "create" => \E n \in DbNames : dbTask[i].names = {n}

DbUsable(n) == n \in dbSchema /\ dbAccount[n] = dbShown[n] /\ dbRow[n].hash = dbShown[n]
DbGone(n) == n \notin dbSchema /\ dbAccount[n] = None
DbAgrees(n) == IF dbRow[n] = None THEN DbGone(n) ELSE DbUsable(n)

\* What the batch of request i has left of name n.
DbBatchDone(i, n) ==
    dbTask[i].pc = "commit" =>
        /\ dbTask[i].kind # "orphan"
        /\ dbTask[i].kind = "create" => n \in dbSchema /\ dbAccount[n] = i
        /\ dbTask[i].kind \in {"delete", "site"} => DbGone(n)

\* A row is the one that the request was about.
DbSameRow(i, n) ==
    dbTask[i].kind \in {"delete", "reset"} /\ dbRow[n] # None => dbRow[n].id = dbTask[i].id

\* What request i finds of name n where nothing was broken before.
DbAtHand(i, n) ==
    /\ dbTask[i].kind # "orphan"
    /\ dbRow[n] = None <=> dbTask[i].kind = "create"
    /\ dbTask[i].pc = "sql" => DbAgrees(n)
    /\ dbTask[i].pc = "commit" /\ dbTask[i].kind = "reset" => n \in dbSchema /\ dbAccount[n] = i

DbSound(n) ==
    n \notin dbRaced =>
        /\ \A i, j \in DbAtWork(n) : i = j
        /\ \A i \in DbAtWork(n) : DbBatchDone(i, n) /\ DbSameRow(i, n)
        /\ n \notin dbBroken => /\ DbAtWork(n) = {} => DbAgrees(n)
                                /\ \A i \in DbAtWork(n) : DbAtHand(i, n)

\* Rows, and creations that may still make one.
DbCreating == {i \in DbRequests : dbTask[i].kind = "create" /\ dbTask[i].pc # "off"}
DbQuotaKept ==
    /\ Cardinality(DbRows) + Cardinality(DbCreating) <= DbQuota + (IF dbPeak > 1 THEN dbPeak - 1 ELSE 0)
    /\ Cardinality(DbCreating) <= dbPeak

DbStrong == DbShapes /\ DbTasksSound /\ (\A n \in DbNames : DbSound(n)) /\ DbQuotaKept

-----------------------------------------------------------------------------
\* Where nothing of a name changes it stays sound.
LEMMA DbUntouched ==
    ASSUME NEW n, DbSound(n),
           dbRow'[n] = dbRow[n], n \in dbSchema' <=> n \in dbSchema,
           dbAccount'[n] = dbAccount[n], dbShown'[n] = dbShown[n],
           n \in dbRaced => n \in dbRaced', n \in dbBroken => n \in dbBroken',
           DbAtWork(n)' = DbAtWork(n),
           \A j \in DbAtWork(n) : /\ dbTask'[j].kind = dbTask[j].kind
                                  /\ dbTask'[j].id = dbTask[j].id /\ dbTask'[j].pc = dbTask[j].pc
    PROVE  DbSound(n)'
<1>1. DbAgrees(n)' <=> DbAgrees(n)
  BY DEF DbAgrees, DbGone, DbUsable
<1>2. \A j \in DbAtWork(n) : /\ DbBatchDone(j, n) => DbBatchDone(j, n)'
                             /\ DbSameRow(j, n) => DbSameRow(j, n)'
                             /\ DbAtHand(j, n) => DbAtHand(j, n)'
  BY <1>1 DEF DbBatchDone, DbSameRow, DbAtHand, DbGone
<1> QED
  BY <1>1, <1>2 DEF DbSound

LEMMA DbOnly ==
    ASSUME NEW n, DbSound(n), n \notin dbRaced, NEW i \in DbAtWork(n)
    PROVE  DbAtWork(n) = {i}
  BY DEF DbSound

LEMMA DbGotoTask ==
    ASSUME DbShapes, NEW i \in DbRequests, dbTask[i].pc # "off",
           NEW pc \in {"sql", "commit"}, DbGoto(i, pc)
    PROVE  /\ dbTask' \in [DbRequests -> DbTaskRecord]
           /\ dbTask'[i] = [dbTask[i] EXCEPT !.pc = pc]
           /\ \A j \in DbRequests \ {i} : dbTask'[j] = dbTask[j]
           /\ \A n : DbAtWork(n)' = DbAtWork(n)
           /\ DbCreating' = DbCreating
<1>1. /\ dbTask' \in [DbRequests -> DbTaskRecord]
      /\ dbTask'[i] = [dbTask[i] EXCEPT !.pc = pc]
      /\ \A j \in DbRequests \ {i} : dbTask'[j] = dbTask[j]
  BY DEF DbShapes, DbGoto, DbTaskRecord
<1>2. dbTask'[i].pc = pc /\ dbTask'[i].names = dbTask[i].names /\ dbTask'[i].kind = dbTask[i].kind
  BY <1>1 DEF DbShapes, DbTaskRecord
<1>3. dbTask[i].pc # "off"
  BY DEF DbGoto
<1>4. \A n : DbAtWork(n)' = DbAtWork(n)
  BY <1>1, <1>2, <1>3 DEF DbAtWork
<1>5. \A j \in DbRequests : /\ dbTask'[j].kind = dbTask[j].kind
                            /\ dbTask'[j].pc # "off" <=> dbTask[j].pc # "off"
  BY <1>1, <1>2, <1>3
<1>6. DbCreating' = DbCreating
  BY <1>5 DEF DbCreating
<1> QED
  BY <1>1, <1>4, <1>6

LEMMA DbEndTask ==
    ASSUME DbShapes, NEW i \in DbRequests, DbEnd(i)
    PROVE  /\ dbTask' \in [DbRequests -> DbTaskRecord]
           /\ dbTask'[i].pc = "off"
           /\ \A j \in DbRequests \ {i} : dbTask'[j] = dbTask[j]
           /\ \A n : DbAtWork(n)' = DbAtWork(n) \ {i}
           /\ DbCreating' = DbCreating \ {i}
<1>1. /\ dbTask' \in [DbRequests -> DbTaskRecord]
      /\ dbTask'[i].pc = "off"
      /\ \A j \in DbRequests \ {i} : dbTask'[j] = dbTask[j]
  BY DEF DbShapes, DbEnd, DbTaskRecord, DbNoTask
<1> QED
  BY <1>1 DEF DbAtWork, DbCreating

LEMMA DbCounts ==
    ASSUME DbShapes
    PROVE  /\ IsFiniteSet(DbRows) /\ Cardinality(DbRows) \in Nat
           /\ IsFiniteSet(DbCreating) /\ Cardinality(DbCreating) \in Nat
           /\ dbPeak \in Nat /\ DbQuota \in Nat
<1>1. IsFiniteSet(DbRequests)
  BY DbAssumption, FS_Interval DEF DbRequests
<1>2. DbRows \in SUBSET DbNames /\ DbCreating \in SUBSET DbRequests
  BY DEF DbRows, DbCreating
<1>3. IsFiniteSet(DbRows) /\ IsFiniteSet(DbCreating)
  BY <1>1, <1>2, DbAssumption, FS_Subset
<1> QED
  BY <1>3, DbAssumption, FS_CardinalityType DEF DbShapes

\* Fewer rows and fewer creations keep within the quota.
LEMMA DbQuotaLess ==
    ASSUME DbShapes, DbShapes', DbQuotaKept, DbRows' \subseteq DbRows,
           DbCreating' \subseteq DbCreating, dbPeak' = dbPeak
    PROVE  DbQuotaKept'
<1> DEFINE r == Cardinality(DbRows)
           c == Cardinality(DbCreating)
           extra == IF dbPeak > 1 THEN dbPeak - 1 ELSE 0
<1>1. Cardinality(DbRows)' <= r /\ Cardinality(DbCreating)' <= c
  BY DbCounts, FS_Subset
<1>2. Cardinality(DbRows)' \in Nat /\ Cardinality(DbCreating)' \in Nat
  <2>1. IsFiniteSet(DbRows') /\ IsFiniteSet(DbCreating')
    BY DbCounts, FS_Subset
  <2> QED
    BY <2>1, FS_CardinalityType
<1>3. r \in Nat /\ c \in Nat /\ dbPeak \in Nat /\ DbQuota \in Nat
  BY DbCounts
<1>4. r + c <= DbQuota + extra /\ c <= dbPeak
  BY DEF DbQuotaKept
<1> HIDE DEF r, c
<1> QED
  BY <1>1, <1>2, <1>3, <1>4 DEF DbQuotaKept

LEMMA DbInitStrong == DbInit => DbStrong
<1> SUFFICES ASSUME DbInit PROVE DbStrong
  OBVIOUS
<1>1. PICK id \in [dbSchema -> 1 .. DbQuota] :
          dbRow = [n \in DbNames |-> IF n \in dbSchema THEN [id |-> id[n], hash |-> 0] ELSE None]
  BY DEF DbInit
<1>2. dbSchema \in SUBSET DbNames /\ Cardinality(dbSchema) <= DbQuota
  BY DEF DbInit
<1>3. \A n \in DbNames : /\ n \in dbSchema => dbRow[n] \in DbRow /\ dbRow[n].hash = 0 /\ dbRow[n] # None
                         /\ n \notin dbSchema => dbRow[n] = None
  <2> TAKE n \in DbNames
  <2>1. CASE n \in dbSchema
    <3>1. dbRow[n] = [id |-> id[n], hash |-> 0]
      BY <1>1, <2>1
    <3>2. id[n] \in Nat /\ 0 \in 0 .. DbMaxOps
      BY <2>1, DbAssumption
    <3>3. dbRow[n] \in DbRow
      BY <3>1, <3>2 DEF DbRow
    <3> QED
      BY <2>1, <3>1, <3>3, DbNoneAssumption
  <2>2. CASE n \notin dbSchema
    BY <1>1, <2>2
  <2> QED
    BY <2>1, <2>2
<1>4. DbShapes
  <2>1. dbRow \in [DbNames -> DbRow \cup {None}]
    BY <1>1, <1>3
  <2>2. dbTask \in [DbRequests -> DbTaskRecord]
    BY DEF DbInit, DbNoTask, DbTaskRecord
  <2>3. dbAccount \in [DbNames -> (0 .. DbMaxOps) \cup {None}] /\ dbShown = dbAccount
    BY DbAssumption DEF DbInit
  <2> QED
    BY <1>2, <2>1, <2>2, <2>3 DEF DbInit, DbShapes
<1>5. \A i \in DbRequests : dbTask[i].pc = "off"
  BY DEF DbInit, DbNoTask
<1>6. DbTasksSound
  BY <1>5 DEF DbTasksSound
<1>7. ASSUME NEW n \in DbNames PROVE DbSound(n)
  <2>1. DbAtWork(n) = {}
    BY <1>5 DEF DbAtWork
  <2>2. DbAgrees(n)
    BY <1>3 DEF DbInit, DbAgrees, DbGone, DbUsable
  <2> QED
    BY <2>1, <2>2 DEF DbSound
<1>8. DbQuotaKept
  <2>1. DbRows = dbSchema /\ DbCreating = {}
    BY <1>2, <1>3, <1>5 DEF DbRows, DbCreating
  <2>2. Cardinality(DbRows) \in Nat /\ Cardinality(DbCreating) = 0 /\ dbPeak = 0 /\ DbQuota \in Nat
    BY <1>4, <2>1, DbCounts, FS_EmptySet DEF DbInit
  <2> QED
    BY <1>2, <2>1, <2>2 DEF DbQuotaKept
<1> QED
  BY <1>4, <1>6, <1>7, <1>8 DEF DbStrong

\* A request is accepted: it is alone on its names, or they count as raced.
LEMMA DbAcceptStrong ==
    ASSUME DbStrong, NEW i \in DbRequests, NEW kind \in DbKinds, NEW names \in SUBSET DbNames,
           NEW id \in Nat, DbAccept(i, kind, names, id),
           dbSite' \in {"active", "deleting", "error", None},
           kind = "create" => Cardinality(DbRows) < DbQuota /\ \E n \in DbNames : names = {n},
           \A n \in names : /\ kind = "create" => dbRow[n] = None
                            /\ kind = "orphan" => dbRow[n] = None /\ n \in dbSchema
                            /\ kind \in {"delete", "reset", "site"} => dbRow[n] # None
                            /\ kind \in {"delete", "reset"} => dbRow[n].id = id
    PROVE  DbStrong'
<1> DEFINE task == [kind |-> kind, names |-> names, id |-> id, pc |-> "sql"]
<1>1. /\ dbTask' = [dbTask EXCEPT ![i] = task]
      /\ dbRaced' = dbRaced \cup {n \in names : DbAtWork(n) # {}}
      /\ UNCHANGED <<dbRow, dbSchema, dbAccount, dbFaults, dbShown, dbBroken>>
  BY DEF DbAccept
<1>2. /\ dbTask' \in [DbRequests -> DbTaskRecord] /\ dbTask'[i] = task
      /\ \A j \in DbRequests \ {i} : dbTask'[j] = dbTask[j]
  BY <1>1 DEF DbStrong, DbShapes, DbTaskRecord
<1>3. IsFiniteSet(DbCreating') /\ Cardinality(DbCreating') \in Nat
  <2>1. DbCreating' \subseteq DbRequests
    BY DEF DbCreating
  <2>2. IsFiniteSet(DbRequests)
    BY DbAssumption, FS_Interval DEF DbRequests
  <2> QED
    BY <2>1, <2>2, FS_Subset, FS_CardinalityType
<1>4. dbPeak' = IF Cardinality(DbCreating') > dbPeak THEN Cardinality(DbCreating') ELSE dbPeak
  BY DEF DbAccept, DbCreating
<1>5. DbShapes'
  BY <1>1, <1>2, <1>3, <1>4 DEF DbStrong, DbShapes
<1>6. DbTasksSound'
  BY <1>1, <1>2, DbNoneAssumption DEF DbStrong, DbTasksSound, DbKinds
<1>7. ASSUME NEW n \in DbNames PROVE DbSound(n)'
  <2>1. DbSound(n)
    BY DEF DbStrong
  <2>2. DbAgrees(n)' <=> DbAgrees(n)
    BY <1>1 DEF DbAgrees, DbGone, DbUsable
  <2>3. CASE n \in names
    <3>1. CASE DbAtWork(n) # {}
      BY <1>1, <2>3, <3>1 DEF DbSound
    <3>2. CASE DbAtWork(n) = {}
      <4>1. DbAtWork(n)' = {i}
        BY <1>2, <2>3, <3>2 DEF DbAtWork
      <4>2. DbBatchDone(i, n)' /\ DbSameRow(i, n)'
        BY <1>1, <1>2, <2>3 DEF DbBatchDone, DbSameRow
      <4>3. n \notin dbRaced /\ n \notin dbBroken => DbAtHand(i, n)'
        <5> SUFFICES ASSUME n \notin dbRaced, n \notin dbBroken PROVE DbAtHand(i, n)'
          OBVIOUS
        <5>1. DbAgrees(n)
          BY <2>1, <3>2 DEF DbSound
        <5>2. dbRow[n] = None => n \notin dbSchema
          BY <5>1 DEF DbAgrees, DbGone
        <5> QED
          BY <1>1, <1>2, <2>2, <2>3, <5>1, <5>2 DEF DbAtHand, DbKinds
      <4> QED
        BY <1>1, <4>1, <4>2, <4>3 DEF DbSound
    <3> QED
      BY <3>1, <3>2
  <2>4. CASE n \notin names
    <3>1. i \notin DbAtWork(n)
      BY DEF DbAccept, DbStrong, DbTasksSound, DbAtWork
    <3>2. DbAtWork(n)' = DbAtWork(n) /\ \A j \in DbAtWork(n) : dbTask'[j] = dbTask[j]
      BY <1>2, <2>4, <3>1 DEF DbAtWork
    <3> QED
      BY <1>1, <2>1, <3>2, DbUntouched
  <2> QED
    BY <2>3, <2>4
<1>8. DbQuotaKept'
  <2>1. DbRows' = DbRows
    BY <1>1 DEF DbRows
  <2>2. CASE kind # "create"
    <3>1. DbCreating' \subseteq DbCreating
      BY <1>2, <2>2 DEF DbCreating
    <3>2. Cardinality(DbCreating') <= Cardinality(DbCreating)
      BY <3>1, DbCounts, FS_Subset DEF DbStrong
    <3>3. Cardinality(DbCreating) <= dbPeak /\ Cardinality(DbCreating) \in Nat /\ dbPeak \in Nat
      BY DbCounts DEF DbStrong, DbQuotaKept
    <3>4. dbPeak' = dbPeak
      BY <1>3, <1>4, <3>2, <3>3
    <3> QED
      BY <1>5, <2>1, <3>1, <3>4, DbQuotaLess DEF DbStrong
  <2>3. CASE kind = "create"
    <3> DEFINE r == Cardinality(DbRows)
               c == Cardinality(DbCreating')
    <3>1. r \in Nat /\ DbQuota \in Nat /\ r < DbQuota /\ dbPeak \in Nat
      BY <2>3, DbCounts DEF DbStrong
    <3>2. c \in Nat /\ c # 0
      <4>1. i \in DbCreating'
        BY <1>2, <2>3 DEF DbCreating
      <4> QED
        BY <1>3, <4>1, FS_EmptySet
    <3>3. dbPeak' = IF c > dbPeak THEN c ELSE dbPeak
      BY <1>4
    <3> HIDE DEF r, c
    <3>4. c <= dbPeak' /\ r + c <= DbQuota + (IF dbPeak' > 1 THEN dbPeak' - 1 ELSE 0)
      BY <3>1, <3>2, <3>3
    <3> QED
      BY <2>1, <3>4 DEF DbQuotaKept, r, c
  <2> QED
    BY <2>2, <2>3
<1> QED
  BY <1>5, <1>6, <1>7, <1>8 DEF DbStrong

\* A step of request i leaves the names of others alone.
LEMMA DbOthersSound ==
    ASSUME DbStrong, NEW i \in DbRequests, NEW n \in DbNames, n \notin dbTask[i].names,
           \A j \in DbRequests \ {i} : dbTask'[j] = dbTask[j],
           DbAtWork(n)' \in {DbAtWork(n), DbAtWork(n) \ {i}},
           dbRow'[n] = dbRow[n], n \in dbSchema' <=> n \in dbSchema,
           dbAccount'[n] = dbAccount[n], dbShown'[n] = dbShown[n],
           n \in dbRaced => n \in dbRaced', n \in dbBroken => n \in dbBroken'
    PROVE  DbSound(n)'
<1>1. i \notin DbAtWork(n)
  BY DEF DbAtWork
<1>2. DbAtWork(n)' = DbAtWork(n) /\ \A j \in DbAtWork(n) : dbTask'[j] = dbTask[j]
  BY <1>1 DEF DbAtWork
<1>3. DbSound(n)
  BY DEF DbStrong
<1> QED
  BY <1>2, <1>3, DbUntouched

LEMMA DbLoadRowsStrong ==
    ASSUME DbStrong, NEW i \in DbRequests, DbLoadRows(i)
    PROVE  DbStrong'
<1>1. /\ dbTask[i].pc = "sql" /\ dbTask[i].kind = "site"
      /\ dbTask' = [dbTask EXCEPT ![i].names = DbRows]
      /\ dbRaced' = dbRaced \cup {n \in DbRows : DbAtWork(n) \ {i} # {}}
      /\ UNCHANGED <<dbSite, dbRow, dbSchema, dbAccount, dbFaults, dbShown, dbBroken, dbPeak>>
  BY DEF DbLoadRows
<1>2. /\ dbTask' \in [DbRequests -> DbTaskRecord]
      /\ dbTask'[i].names = DbRows /\ dbTask'[i].kind = "site" /\ dbTask'[i].pc = "sql"
      /\ dbTask'[i].id = dbTask[i].id
      /\ \A j \in DbRequests \ {i} : dbTask'[j] = dbTask[j]
  BY <1>1 DEF DbStrong, DbShapes, DbTaskRecord, DbRows
<1>3. DbShapes' /\ DbTasksSound'
  BY <1>1, <1>2, DbNoneAssumption DEF DbStrong, DbShapes, DbTasksSound
<1>4. DbQuotaKept'
  <2>1. DbRows' = DbRows /\ DbCreating' = DbCreating
    BY <1>1, <1>2 DEF DbRows, DbCreating
  <2> QED
    BY <1>1, <1>3, <2>1, DbQuotaLess DEF DbStrong
<1>5. ASSUME NEW n \in DbNames PROVE DbSound(n)'
  <2>1. DbSound(n)
    BY DEF DbStrong
  <2>2. DbAgrees(n)' <=> DbAgrees(n)
    BY <1>1 DEF DbAgrees, DbGone, DbUsable
  <2>3. CASE n \in DbRows <=> n \in dbTask[i].names
    <3>1. DbAtWork(n)' = DbAtWork(n)
      BY <1>1, <1>2, <2>3 DEF DbAtWork
    <3>2. \A j \in DbRequests : /\ dbTask'[j].kind = dbTask[j].kind
                                /\ dbTask'[j].id = dbTask[j].id /\ dbTask'[j].pc = dbTask[j].pc
      BY <1>1, <1>2
    <3> QED
      BY <1>1, <2>1, <3>1, <3>2, DbUntouched DEF DbAtWork
  <2>4. CASE n \in DbRows /\ n \notin dbTask[i].names
    <3> SUFFICES ASSUME n \notin dbRaced' PROVE DbSound(n)'
      BY DEF DbSound
    <3>1. DbAtWork(n) = {} /\ n \notin dbRaced
      BY <1>1, <2>4 DEF DbAtWork
    <3>2. DbAtWork(n)' = {i}
      BY <1>2, <2>4, <3>1 DEF DbAtWork
    <3>3. DbBatchDone(i, n)' /\ DbSameRow(i, n)'
      BY <1>2 DEF DbBatchDone, DbSameRow
    <3>4. n \notin dbBroken => DbAtHand(i, n)'
      BY <1>1, <1>2, <2>1, <2>2, <2>4, <3>1 DEF DbSound, DbAtHand, DbRows
    <3> QED
      BY <1>1, <3>2, <3>3, <3>4 DEF DbSound
  <2>5. CASE n \notin DbRows /\ n \in dbTask[i].names
    <3>1. i \in DbAtWork(n) /\ dbRow[n] = None
      BY <1>1, <2>5 DEF DbAtWork, DbRows
    <3>2. n \in dbBroken \/ n \in dbRaced
      BY <1>1, <2>1, <3>1 DEF DbSound, DbAtHand
    <3>3. n \notin dbRaced => DbAtWork(n)' = {}
      <4>1. n \notin dbRaced => DbAtWork(n) = {i}
        BY <2>1, <3>1, DbOnly
      <4> QED
        BY <1>2, <2>5, <4>1 DEF DbAtWork
    <3> QED
      BY <1>1, <3>2, <3>3 DEF DbSound
  <2> QED
    BY <2>3, <2>4, <2>5
<1> QED
  BY <1>3, <1>4, <1>5 DEF DbStrong

LEMMA DbAfterTypes ==
    ASSUME DbShapes, NEW i \in DbRequests
    PROVE  /\ DbSchemaAfter(i) \subseteq DbNames
           /\ DbAccountAfter(i) \in [DbNames -> (0 .. DbMaxOps) \cup {None}]
           /\ \A n \in DbNames \ dbTask[i].names :
                /\ n \in DbSchemaAfter(i) <=> n \in dbSchema
                /\ DbAccountAfter(i)[n] = dbAccount[n]
<1>1. dbTask[i].names \in SUBSET DbNames /\ i \in 0 .. DbMaxOps
  BY DbAssumption DEF DbShapes, DbTaskRecord, DbRequests
<1>2. DbSchemaAfter(i) \subseteq DbNames
  BY <1>1 DEF DbShapes, DbSchemaAfter
<1>3. DbAccountAfter(i) \in [DbNames -> (0 .. DbMaxOps) \cup {None}]
  BY <1>1 DEF DbShapes, DbAccountAfter
<1> QED
  BY <1>2, <1>3 DEF DbSchemaAfter, DbAccountAfter

LEMMA DbBatchStrong ==
    ASSUME DbStrong, NEW i \in DbRequests, DbBatch(i)
    PROVE  DbStrong'
<1>1. /\ dbTask[i].pc = "sql" /\ dbTask[i].kind = "site" => dbTask[i].names = DbRows
      /\ dbSchema' = DbSchemaAfter(i) /\ dbAccount' = DbAccountAfter(i)
      /\ UNCHANGED <<dbSite, dbRow, dbFaults, dbShown, dbRaced, dbBroken, dbPeak>>
  BY DEF DbBatch
<1>2. dbTask[i].pc = "sql" /\ dbTask[i].names \in SUBSET DbNames /\ dbTask[i].kind \in DbKinds
  BY DEF DbBatch, DbStrong, DbShapes, DbTaskRecord, DbTasksSound
<1>3. /\ dbTask[i].kind = "orphan" => DbEnd(i)
      /\ dbTask[i].kind # "orphan" => DbGoto(i, "commit")
  BY DEF DbBatch
<1>4. /\ dbTask' \in [DbRequests -> DbTaskRecord]
      /\ \A j \in DbRequests \ {i} : dbTask'[j] = dbTask[j]
      /\ \A n : DbAtWork(n)' \in {DbAtWork(n), DbAtWork(n) \ {i}}
      /\ DbCreating' \subseteq DbCreating
      /\ dbTask'[i].pc # "off" => dbTask'[i] = [dbTask[i] EXCEPT !.pc = "commit"]
  <2>1. CASE dbTask[i].kind = "orphan"
    BY <1>3, <2>1, DbEndTask DEF DbStrong
  <2>2. CASE dbTask[i].kind # "orphan"
    BY <1>2, <1>3, <2>2, DbGotoTask DEF DbStrong
  <2> QED
    BY <2>1, <2>2
<1>5. DbShapes'
  BY <1>1, <1>4, DbAfterTypes DEF DbStrong, DbShapes
<1>6. DbTasksSound'
  BY <1>2, <1>4 DEF DbStrong, DbTasksSound, DbShapes, DbTaskRecord
<1>7. DbQuotaKept'
  <2>1. DbRows' = DbRows
    BY <1>1 DEF DbRows
  <2> QED
    BY <1>1, <1>4, <1>5, <2>1, DbQuotaLess DEF DbStrong
<1>8. ASSUME NEW n \in DbNames PROVE DbSound(n)'
  <2>1. CASE n \notin dbTask[i].names
    BY <1>1, <1>4, <2>1, DbOthersSound, DbAfterTypes DEF DbStrong
  <2>2. CASE n \in dbTask[i].names
    <3> SUFFICES ASSUME n \notin dbRaced PROVE DbSound(n)'
      BY <1>1 DEF DbSound
    <3>1. i \in DbAtWork(n) /\ DbSound(n)
      BY <1>2, <2>2 DEF DbAtWork, DbStrong
    <3>2. DbAtWork(n) = {i}
      BY <3>1, DbOnly
    <3>3. CASE dbTask[i].kind = "orphan"
      <4>1. DbAtWork(n)' = {}
        BY <1>3, <3>2, <3>3, DbEndTask DEF DbStrong
      <4>2. n \in dbBroken
        BY <3>1, <3>3 DEF DbSound, DbAtHand
      <4> QED
        BY <1>1, <4>1, <4>2 DEF DbSound
    <3>4. CASE dbTask[i].kind # "orphan"
      <4>1. DbAtWork(n)' = {i} /\ dbTask'[i] = [dbTask[i] EXCEPT !.pc = "commit"]
        BY <1>2, <1>3, <3>2, <3>4, DbGotoTask DEF DbStrong
      <4>2. /\ dbTask'[i].pc = "commit" /\ dbTask'[i].kind = dbTask[i].kind
            /\ dbTask'[i].id = dbTask[i].id
        BY <4>1 DEF DbStrong, DbShapes, DbTaskRecord
      <4>3. /\ dbTask[i].kind \in {"create", "reset"} => dbAccount'[n] = i
            /\ dbTask[i].kind = "create" => n \in dbSchema'
            /\ dbTask[i].kind = "reset" => dbSchema' = dbSchema
            /\ dbTask[i].kind \in {"delete", "site"} => n \notin dbSchema' /\ dbAccount'[n] = None
        BY <1>1, <2>2 DEF DbSchemaAfter, DbAccountAfter
      <4>4. DbBatchDone(i, n)'
        BY <3>4, <4>2, <4>3 DEF DbBatchDone, DbGone
      <4>5. DbSameRow(i, n)'
        BY <1>1, <3>1, <4>2 DEF DbSound, DbSameRow
      <4>6. n \notin dbBroken => DbAtHand(i, n)'
        <5> SUFFICES ASSUME n \notin dbBroken PROVE DbAtHand(i, n)'
          OBVIOUS
        <5>1. DbAtHand(i, n)
          BY <3>1 DEF DbSound
        <5>2. dbTask[i].kind = "reset" => n \in dbSchema
          BY <1>2, <5>1 DEF DbAtHand, DbAgrees, DbUsable
        <5> QED
          BY <1>1, <4>2, <4>3, <5>1, <5>2 DEF DbAtHand
      <4> QED
        BY <1>1, <4>1, <4>4, <4>5, <4>6 DEF DbSound
    <3> QED
      BY <3>3, <3>4
  <2> QED
    BY <2>1, <2>2
<1> QED
  BY <1>5, <1>6, <1>7, <1>8 DEF DbStrong

LEMMA DbBatchFailsStrong ==
    ASSUME DbStrong, NEW i \in DbRequests, DbBatchFails(i)
    PROVE  DbStrong'
<1>1. /\ dbTask[i].pc = "sql" /\ DbEnd(i)
      /\ dbSchema' \in {dbSchema, DbSchemaAfter(i)} /\ dbAccount' \in {dbAccount, DbAccountAfter(i)}
      /\ dbBroken' = dbBroken \cup dbTask[i].names
      /\ dbSite' \in {"error", dbSite}
      /\ UNCHANGED <<dbRow, dbShown, dbRaced, dbPeak>>
  BY DEF DbBatchFails
<1>2. /\ dbTask' \in [DbRequests -> DbTaskRecord] /\ dbTask'[i].pc = "off"
      /\ \A j \in DbRequests \ {i} : dbTask'[j] = dbTask[j]
      /\ \A n : DbAtWork(n)' = DbAtWork(n) \ {i}
      /\ DbCreating' = DbCreating \ {i}
  BY <1>1, DbEndTask DEF DbStrong
<1>3. DbShapes'
  BY <1>1, <1>2, DbAfterTypes DEF DbStrong, DbShapes
<1>4. DbTasksSound'
  BY <1>2 DEF DbStrong, DbTasksSound
<1>5. DbQuotaKept'
  <2>1. DbRows' = DbRows
    BY <1>1 DEF DbRows
  <2> QED
    BY <1>1, <1>2, <1>3, <2>1, DbQuotaLess DEF DbStrong
<1>6. ASSUME NEW n \in DbNames PROVE DbSound(n)'
  <2>1. CASE n \notin dbTask[i].names
    <3>1. (n \in dbSchema' <=> n \in dbSchema) /\ dbAccount'[n] = dbAccount[n]
      BY <1>1, <2>1, DbAfterTypes DEF DbStrong
    <3> QED
      BY <1>1, <1>2, <2>1, <3>1, DbOthersSound
  <2>2. CASE n \in dbTask[i].names
    <3>1. n \notin dbRaced => DbAtWork(n) = {i}
      <4>1. DbSound(n) /\ i \in DbAtWork(n)
        BY <1>1, <2>2 DEF DbStrong, DbAtWork
      <4> QED
        BY <4>1, DbOnly
    <3> QED
      BY <1>1, <1>2, <2>2, <3>1 DEF DbSound
  <2> QED
    BY <2>1, <2>2
<1> QED
  BY <1>3, <1>4, <1>5, <1>6 DEF DbStrong

LEMMA DbNewIdTyped == DbShapes => DbNewId \in Nat
<1> SUFFICES ASSUME DbShapes PROVE DbNewId \in Nat
  OBVIOUS
<1> DEFINE ids == {dbRow[n].id : n \in DbRows}
<1>1. ids \in SUBSET Nat
  BY DEF DbRows, DbShapes, DbRow
<1>2. IsFiniteSet(ids)
  <2> DEFINE f == [n \in DbRows |-> dbRow[n].id]
  <2>1. f \in Surjection(DbRows, ids)
    BY DEF Surjection
  <2> QED
    BY <2>1, DbCounts, FS_Surjection
<1>3. Greatest(ids) \in Nat
  <2> HIDE DEF ids
  <2>1. CASE ids = {}
    BY <2>1 DEF Greatest
  <2>2. CASE ids # {}
    <3>1. PICK b \in Nat : ids \in SUBSET (0 .. b)
      BY <1>1, <1>2, FiniteBounded
    <3> QED
      BY <1>1, <2>2, <3>1, GreatestOf
  <2> QED
    BY <2>1, <2>2
<1> QED
  BY <1>3 DEF DbNewId

\* What a commit of request i finds of one of its names.
LEMMA DbCommitFinds ==
    ASSUME DbStrong, NEW i \in DbRequests, dbTask[i].pc = "commit", DbEnd(i),
           NEW n \in dbTask[i].names, n \notin dbRaced
    PROVE  /\ DbAtWork(n)' = {} /\ DbBatchDone(i, n) /\ DbSameRow(i, n)
           /\ n \notin dbBroken => DbAtHand(i, n)
<1>1. n \in DbNames
  BY DEF DbStrong, DbShapes, DbTaskRecord
<1>2. i \in DbAtWork(n) /\ DbSound(n)
  BY <1>1 DEF DbAtWork, DbStrong
<1>3. DbAtWork(n) = {i}
  BY <1>2, DbOnly
<1> QED
  BY <1>2, <1>3, DbEndTask DEF DbSound, DbStrong

\* Where no request is at work a name is sound when its row and the server agree.
LEMMA DbSettled ==
    ASSUME NEW n, DbAtWork(n) = {}, n \notin dbRaced /\ n \notin dbBroken => DbAgrees(n)
    PROVE  DbSound(n)
  BY DEF DbSound

LEMMA DbCommitCreateStrong ==
    ASSUME DbStrong, NEW i \in DbRequests, DbCommitCreate(i)
    PROVE  DbStrong'
<1> DEFINE names == dbTask[i].names
           fresh == dbSite # None /\ \A n \in names : dbRow[n] = None
           made == [id |-> DbNewId, hash |-> i]
<1>1. /\ dbTask[i].pc = "commit" /\ dbTask[i].kind = "create" /\ DbEnd(i)
      /\ UNCHANGED <<dbSite, dbSchema, dbAccount, dbFaults, dbRaced, dbPeak>>
  BY DEF DbCommitCreate
<1>2. /\ fresh => /\ dbRow' = [n \in DbNames |-> IF n \in names THEN made ELSE dbRow[n]]
                  /\ dbShown' = [n \in DbNames |-> IF n \in names THEN i ELSE dbShown[n]]
                  /\ dbBroken' = dbBroken \ names
      /\ ~fresh => dbBroken' = dbBroken \cup names /\ UNCHANGED <<dbRow, dbShown>>
  BY DEF DbCommitCreate, DbShow, DbMended
<1>3. /\ dbTask' \in [DbRequests -> DbTaskRecord] /\ dbTask'[i].pc = "off"
      /\ \A j \in DbRequests \ {i} : dbTask'[j] = dbTask[j]
      /\ \A n : DbAtWork(n)' = DbAtWork(n) \ {i}
      /\ DbCreating' = DbCreating \ {i}
  BY <1>1, DbEndTask DEF DbStrong
<1>4. PICK name \in DbNames : names = {name}
  BY <1>1 DEF DbStrong, DbTasksSound
<1>5. made \in DbRow /\ made # None /\ made.hash = i /\ i \in 0 .. DbMaxOps
  <2>1. made \in DbRow /\ i \in 0 .. DbMaxOps
    BY DbNewIdTyped, DbAssumption DEF DbStrong, DbRow, DbRequests
  <2> QED
    BY <2>1, DbNoneAssumption
<1> HIDE DEF made, names
<1>6. DbShapes'
  BY <1>1, <1>2, <1>3, <1>5 DEF DbStrong, DbShapes
<1>7. DbTasksSound'
  BY <1>3 DEF DbStrong, DbTasksSound
<1>8. DbQuotaKept'
  <2>1. CASE fresh
    <3>1. DbRows' = DbRows \cup {name} /\ name \notin DbRows
      BY <1>2, <1>4, <1>5, <2>1 DEF DbRows
    <3>2. Cardinality(DbRows') = Cardinality(DbRows) + 1
      BY <3>1, DbCounts, FS_AddElement DEF DbStrong
    <3>3. i \in DbCreating
      BY <1>1 DEF DbCreating
    <3>4. Cardinality(DbCreating') = Cardinality(DbCreating) - 1
      BY <1>3, <3>3, DbCounts, FS_RemoveElement DEF DbStrong
    <3> DEFINE r == Cardinality(DbRows)
               c == Cardinality(DbCreating)
    <3>5. r \in Nat /\ c \in Nat /\ DbQuota \in Nat /\ dbPeak \in Nat
      BY DbCounts DEF DbStrong
    <3>6. r + c <= DbQuota + (IF dbPeak > 1 THEN dbPeak - 1 ELSE 0) /\ c <= dbPeak
      BY DEF DbStrong, DbQuotaKept
    <3>7. Cardinality(DbRows') = r + 1 /\ Cardinality(DbCreating') = c - 1 /\ dbPeak' = dbPeak
      BY <1>1, <3>2, <3>4
    <3> HIDE DEF r, c
    <3> QED
      BY <3>5, <3>6, <3>7 DEF DbQuotaKept
  <2>2. CASE ~fresh
    <3>1. DbRows' = DbRows
      BY <1>2, <2>2 DEF DbRows
    <3> QED
      BY <1>1, <1>3, <1>6, <3>1, DbQuotaLess DEF DbStrong
  <2> QED
    BY <2>1, <2>2
<1>9. ASSUME NEW n \in DbNames PROVE DbSound(n)'
  <2>1. CASE n \notin names
    <3>1. dbRow'[n] = dbRow[n] /\ dbShown'[n] = dbShown[n] /\ (n \in dbBroken => n \in dbBroken')
      BY <1>2, <2>1
    <3> QED
      BY <1>1, <1>3, <2>1, <3>1, DbOthersSound DEF names
  <2>2. CASE n \in names
    <3> SUFFICES ASSUME n \notin dbRaced PROVE DbSound(n)'
      BY <1>1 DEF DbSound
    <3>1. DbAtWork(n)' = {} /\ DbBatchDone(i, n)
      BY <1>1, <2>2, DbCommitFinds DEF names
    <3>2. n \in dbSchema /\ dbAccount[n] = i
      BY <1>1, <3>1 DEF DbBatchDone
    <3>3. CASE fresh
      <4>1. dbRow'[n] = made /\ dbShown'[n] = i
        BY <1>2, <2>2, <3>3
      <4>2. DbAgrees(n)'
        BY <1>1, <1>5, <3>2, <4>1 DEF DbAgrees, DbUsable
      <4> QED
        BY <3>1, <4>2 DEF DbSound
    <3>4. CASE ~fresh
      BY <1>2, <2>2, <3>1, <3>4 DEF DbSound
    <3> QED
      BY <3>3, <3>4
  <2> QED
    BY <2>1, <2>2
<1> QED
  BY <1>6, <1>7, <1>8, <1>9 DEF DbStrong

LEMMA DbCommitRowStrong ==
    ASSUME DbStrong, NEW i \in DbRequests, DbCommitRow(i)
    PROVE  DbStrong'
<1> DEFINE names == dbTask[i].names
           kind == dbTask[i].kind
           rows == DbRowOf(dbTask[i].id)
<1>1. /\ dbTask[i].pc = "commit" /\ kind \in {"delete", "reset"} /\ DbEnd(i)
      /\ UNCHANGED <<dbSite, dbSchema, dbAccount, dbFaults, dbPeak>>
      /\ dbRaced' = dbRaced \cup (rows \ names)
  BY DEF DbCommitRow
<1>2. /\ dbShown' = IF kind = "reset" /\ rows # {}
                    THEN [n \in DbNames |-> IF n \in names THEN i ELSE dbShown[n]] ELSE dbShown
      /\ dbBroken' = IF kind = "delete" THEN dbBroken \ names ELSE dbBroken
  BY DEF DbCommitRow, DbShow, DbMended
<1>3. dbRow' = [n \in DbNames |-> IF n \notin rows THEN dbRow[n]
                                  ELSE IF kind = "delete" THEN None ELSE [dbRow[n] EXCEPT !.hash = i]]
  BY DEF DbCommitRow
<1>4. /\ dbTask' \in [DbRequests -> DbTaskRecord] /\ dbTask'[i].pc = "off"
      /\ \A j \in DbRequests \ {i} : dbTask'[j] = dbTask[j]
      /\ \A n : DbAtWork(n)' = DbAtWork(n) \ {i}
      /\ DbCreating' = DbCreating \ {i}
  BY <1>1, DbEndTask DEF DbStrong
<1>5. \A n \in DbNames : n \in rows <=> dbRow[n] # None /\ dbRow[n].id = dbTask[i].id
  BY DEF DbRowOf, DbRows
<1>6. i \in 0 .. DbMaxOps /\ rows \subseteq DbNames
  BY DbAssumption DEF DbRequests, DbRowOf, DbRows
<1> HIDE DEF names, kind, rows
<1>7. \A n \in DbNames :
        /\ n \notin rows => dbRow'[n] = dbRow[n]
        /\ n \in rows /\ kind = "delete" => dbRow'[n] = None
        /\ n \in rows /\ kind # "delete" =>
             dbRow'[n] \in DbRow /\ dbRow'[n] # None /\ dbRow'[n].hash = i
  <2> TAKE n \in DbNames
  <2>1. CASE n \in rows /\ kind # "delete"
    <3>1. dbRow[n] \in DbRow /\ dbRow'[n] = [dbRow[n] EXCEPT !.hash = i]
      BY <1>3, <1>5, <2>1 DEF DbStrong, DbShapes
    <3>2. dbRow'[n] \in DbRow /\ dbRow'[n].hash = i
      BY <1>6, <3>1 DEF DbRow
    <3> QED
      BY <2>1, <3>2, DbNoneAssumption
  <2>2. CASE ~(n \in rows /\ kind # "delete")
    BY <1>3, <2>2
  <2> QED
    BY <2>1, <2>2
<1>8. DbShapes'
  <2>1. dbRow' \in [DbNames -> DbRow \cup {None}]
    <3>1. \A n \in DbNames : dbRow'[n] \in DbRow \cup {None}
      BY <1>7 DEF DbStrong, DbShapes
    <3> QED
      BY <1>3, <3>1
  <2> QED
    BY <1>1, <1>2, <1>4, <1>6, <2>1 DEF DbStrong, DbShapes
<1>9. DbTasksSound'
  BY <1>4 DEF DbStrong, DbTasksSound
<1>10. DbQuotaKept'
  <2>1. DbRows' \subseteq DbRows
    BY <1>5, <1>7 DEF DbRows
  <2> QED
    BY <1>1, <1>4, <1>8, <2>1, DbQuotaLess DEF DbStrong
<1>11. ASSUME NEW n \in DbNames PROVE DbSound(n)'
  <2> SUFFICES ASSUME n \notin dbRaced' PROVE DbSound(n)'
    BY DEF DbSound
  <2>1. CASE n \notin names
    <3>1. n \notin rows
      BY <1>1, <2>1
    <3>2. dbRow'[n] = dbRow[n] /\ dbShown'[n] = dbShown[n] /\ (n \in dbBroken => n \in dbBroken')
      BY <1>2, <1>7, <2>1, <3>1
    <3> QED
      BY <1>1, <1>4, <2>1, <3>2, DbOthersSound DEF names
  <2>2. CASE n \in names
    <3>1. /\ DbAtWork(n)' = {} /\ DbBatchDone(i, n) /\ DbSameRow(i, n)
          /\ n \notin dbBroken => DbAtHand(i, n)
      BY <1>1, <2>2, DbCommitFinds DEF names
    <3>2. dbRow[n] # None => n \in rows
      BY <1>1, <1>5, <3>1 DEF DbSameRow, kind
    <3>3. n \notin dbBroken' => DbAgrees(n)'
      <4>1. CASE kind = "delete"
        <5>1. dbRow'[n] = None
          BY <1>7, <3>2, <4>1
        <5>2. DbGone(n)
          BY <1>1, <3>1, <4>1 DEF DbBatchDone, kind
        <5> QED
          BY <1>1, <5>1, <5>2 DEF DbAgrees, DbGone
      <4>2. CASE kind = "reset"
        <5> SUFFICES ASSUME n \notin dbBroken PROVE DbAgrees(n)'
          BY <1>2, <4>2
        <5>1. dbRow[n] # None /\ n \in dbSchema /\ dbAccount[n] = i
          BY <1>1, <3>1, <4>2 DEF DbAtHand, kind
        <5>2. n \in rows
          BY <3>2, <5>1
        <5>3. dbShown'[n] = i
          BY <1>2, <2>2, <4>2, <5>2
        <5>4. dbRow'[n] # None /\ dbRow'[n].hash = i
          BY <1>7, <4>2, <5>2
        <5> QED
          BY <1>1, <5>1, <5>3, <5>4 DEF DbAgrees, DbUsable
      <4> QED
        BY <1>1, <4>1, <4>2
    <3> QED
      BY <3>1, <3>3 DEF DbSound
  <2> QED
    BY <2>1, <2>2
<1> QED
  BY <1>8, <1>9, <1>10, <1>11 DEF DbStrong

LEMMA DbCommitSiteStrong ==
    ASSUME DbStrong, NEW i \in DbRequests, DbCommitSite(i)
    PROVE  DbStrong'
<1>1. /\ dbTask[i].pc = "commit" /\ dbTask[i].kind = "site" /\ DbEnd(i)
      /\ dbSite' = None /\ dbRow' = [n \in DbNames |-> None]
      /\ dbRaced' = dbRaced \cup (DbRows \ dbTask[i].names)
      /\ UNCHANGED <<dbSchema, dbAccount, dbFaults, dbShown, dbBroken, dbPeak>>
  BY DEF DbCommitSite
<1>2. /\ dbTask' \in [DbRequests -> DbTaskRecord] /\ dbTask'[i].pc = "off"
      /\ \A j \in DbRequests \ {i} : dbTask'[j] = dbTask[j]
      /\ \A n : DbAtWork(n)' = DbAtWork(n) \ {i}
      /\ DbCreating' = DbCreating \ {i}
  BY <1>1, DbEndTask DEF DbStrong
<1>3. DbShapes' /\ DbTasksSound'
  BY <1>1, <1>2 DEF DbStrong, DbShapes, DbTasksSound
<1>4. DbQuotaKept'
  <2>1. DbRows' \subseteq DbRows
    BY <1>1 DEF DbRows
  <2> QED
    BY <1>1, <1>2, <1>3, <2>1, DbQuotaLess DEF DbStrong
<1>5. ASSUME NEW n \in DbNames PROVE DbSound(n)'
  <2> SUFFICES ASSUME n \notin dbRaced' PROVE DbSound(n)'
    BY DEF DbSound
  <2>1. CASE n \notin dbTask[i].names
    <3>1. dbRow[n] = None /\ dbRow'[n] = None
      BY <1>1, <2>1 DEF DbRows
    <3> QED
      BY <1>1, <1>2, <2>1, <3>1, DbOthersSound
  <2>2. CASE n \in dbTask[i].names
    <3>1. DbAtWork(n)' = {} /\ DbBatchDone(i, n)
      BY <1>1, <2>2, DbCommitFinds
    <3>2. DbAgrees(n)'
      BY <1>1, <3>1 DEF DbBatchDone, DbAgrees, DbGone
    <3> QED
      BY <3>1, <3>2 DEF DbSound
  <2> QED
    BY <2>1, <2>2
<1> QED
  BY <1>3, <1>4, <1>5 DEF DbStrong

LEMMA DbRestartStrong ==
    ASSUME DbStrong, DbRestart
    PROVE  DbStrong'
<1>1. /\ dbBroken' = dbBroken \cup {n \in DbNames : DbAtWork(n) # {}}
      /\ dbTask' = [i \in DbRequests |-> [DbNoTask EXCEPT !.kind = dbTask[i].kind]]
      /\ UNCHANGED <<dbSite, dbRow, dbSchema, dbAccount, dbShown, dbRaced, dbPeak>>
  BY DEF DbRestart
<1>2. dbTask' \in [DbRequests -> DbTaskRecord] /\ \A i \in DbRequests : dbTask'[i].pc = "off"
  BY <1>1 DEF DbStrong, DbShapes, DbTaskRecord, DbNoTask
<1>3. DbShapes' /\ DbTasksSound'
  BY <1>1, <1>2 DEF DbStrong, DbShapes, DbTasksSound
<1>4. DbQuotaKept'
  <2>1. DbRows' = DbRows /\ DbCreating' = {}
    BY <1>1, <1>2 DEF DbRows, DbCreating
  <2> QED
    BY <1>1, <1>3, <2>1, DbQuotaLess DEF DbStrong
<1>5. ASSUME NEW n \in DbNames PROVE DbSound(n)'
  <2>1. DbAtWork(n)' = {}
    BY <1>2 DEF DbAtWork
  <2>2. n \notin dbBroken' => DbAtWork(n) = {} /\ n \notin dbBroken
    BY <1>1
  <2>3. DbAgrees(n)' <=> DbAgrees(n)
    BY <1>1 DEF DbAgrees, DbGone, DbUsable
  <2> QED
    BY <1>1, <2>1, <2>2, <2>3 DEF DbStrong, DbSound
<1> QED
  BY <1>3, <1>4, <1>5 DEF DbStrong

LEMMA DbNextStrong == DbStrong /\ [DbNext]_dbVars => DbStrong'
<1> SUFFICES ASSUME DbStrong, [DbNext]_dbVars PROVE DbStrong'
  OBVIOUS
<1>1. CASE UNCHANGED dbVars
  <2>1. DbShapes' /\ DbTasksSound' /\ DbQuotaKept'
    BY <1>1 DEF dbVars, DbStrong, DbShapes, DbTasksSound, DbQuotaKept, DbRows, DbCreating
  <2>2. ASSUME NEW n \in DbNames PROVE DbSound(n)'
    <3>1. DbAtWork(n)' = DbAtWork(n)
      BY <1>1 DEF dbVars, DbAtWork
    <3> QED
      BY <1>1, <3>1, DbUntouched DEF dbVars, DbStrong
  <2> QED
    BY <2>1, <2>2 DEF DbStrong
<1>2. ASSUME NEW i \in DbRequests, NEW n \in DbNames,
             DbCreate(i, n) \/ DbDelete(i, n) \/ DbReset(i, n) \/ DbDeleteOrphan(i, n)
      PROVE  DbStrong'
  <2>1. dbSite' \in {"active", "deleting", "error", None}
    BY <1>2 DEF DbStrong, DbShapes, DbCreate, DbDelete, DbReset, DbDeleteOrphan
  <2>2. dbRow[n] # None => dbRow[n].id \in Nat
    BY DEF DbStrong, DbShapes, DbRow
  <2>3. CASE DbCreate(i, n)
    BY <2>1, <2>3, DbAcceptStrong DEF DbCreate, DbKinds
  <2>4. CASE DbDelete(i, n)
    BY <2>1, <2>2, <2>4, DbAcceptStrong DEF DbDelete, DbKinds
  <2>5. CASE DbReset(i, n)
    BY <2>1, <2>2, <2>5, DbAcceptStrong DEF DbReset, DbKinds
  <2>6. CASE DbDeleteOrphan(i, n)
    BY <2>1, <2>6, DbAcceptStrong DEF DbDeleteOrphan, DbKinds
  <2> QED
    BY <1>2, <2>3, <2>4, <2>5, <2>6
<1>3. ASSUME NEW i \in DbRequests, DbDeleteSite(i)
      PROVE  DbStrong'
  <2>1. DbRows \in SUBSET DbNames /\ \A n \in DbRows : dbRow[n] # None
    BY DEF DbRows
  <2> QED
    BY <1>3, <2>1, DbAcceptStrong DEF DbDeleteSite, DbKinds
<1>4. ASSUME NEW i \in DbRequests, DbTaskStep(i)
      PROVE  DbStrong'
  BY <1>4, DbLoadRowsStrong, DbBatchStrong, DbBatchFailsStrong, DbCommitCreateStrong,
     DbCommitRowStrong, DbCommitSiteStrong DEF DbTaskStep
<1> QED
  BY <1>1, <1>2, <1>3, <1>4, DbRestartStrong DEF DbNext

LEMMA DbStrongImplies == DbStrong => DbTypeOK /\ DatabasesAgree
<1> SUFFICES ASSUME DbStrong PROVE DbTypeOK /\ DatabasesAgree
  OBVIOUS
<1>1. DbTypeOK
  BY DEF DbStrong, DbShapes, DbTaskRecord, DbTypeOK
<1>2. RowsUsable /\ OrphansExplained
  BY DEF DbStrong, DbSound, DbAgrees, DbUsable, DbGone, RowsUsable, OrphansExplained, DbRows
<1>3. DbQuotaHolds
  <2> DEFINE r == Cardinality(DbRows)
             c == Cardinality(DbCreating)
  <2>1. r \in Nat /\ c \in Nat /\ DbQuota \in Nat /\ dbPeak \in Nat
    BY DbCounts DEF DbStrong
  <2>2. r + c <= DbQuota + (IF dbPeak > 1 THEN dbPeak - 1 ELSE 0)
    BY DEF DbStrong, DbQuotaKept
  <2> HIDE DEF r, c
  <2>3. r <= DbQuota + (IF dbPeak > 1 THEN dbPeak - 1 ELSE 0)
    BY <2>1, <2>2
  <2> QED
    BY <2>3 DEF DbQuotaHolds, r
<1> QED
  BY <1>1, <1>2, <1>3 DEF DatabasesAgree

LEMMA DbAlwaysStrong == DbSpec => []DbStrong
<1>1. DbStrong /\ [DbNext]_dbVars => DbStrong'
  BY DbNextStrong
<1> QED
  BY <1>1, DbInitStrong, PTL DEF DbSpec

\* A row of the panel stands for a database that its owner can use with the
\* password last shown, what is on the server without a row was left by a
\* failure or a race, and creations that run at once pass the quota by no more
\* than one each: for any number of names, requests and failures.
THEOREM DatabasesConsistent == DbSpec => []DatabasesAgree
  BY DbAlwaysStrong, DbStrongImplies, PTL

-----------------------------------------------------------------------------
(* Staging: what a push has set right stays so until the next request.     *)

PushConfigs == [db : PushSites \cup {None}, password : PushRequests \cup {0, None}]
PushShapes ==
    /\ pushWp \in [PushSites -> BOOLEAN]
    /\ pushConfig \in [PushSites -> PushConfigs]
    /\ pushData \in [PushSites -> PushSites \cup {None}]
    /\ pushAccount \in [PushSites -> PushRequests \cup {0}]
    /\ pushHash \in [PushSites -> PushRequests \cup {0}]
    /\ pushOps \in [PushRequests -> {None, "running", "succeeded", "failed"}]
    /\ pushTask \in [PushRequests -> [kind : {None, "push", "reset"}, pc : PushSteps \cup {"off"}]]
    /\ pushFaults \in Nat /\ pushAlone \subseteq PushRequests

\* A request that is not accepted does nothing; only pushes are operations.
PushLedger ==
    \A i \in PushRequests :
        /\ pushTask[i].kind = None => pushTask[i].pc = "off"
        /\ pushTask[i].pc \notin {"off", "rotate", "record"} => pushTask[i].kind = "push"
        /\ pushTask[i].kind # "push" => pushOps[i] = None
        /\ pushOps[i] = "succeeded" => pushTask[i].pc = "off"

\* Nobody else works while a request is alone.
AloneAtWork == \A i \in pushAlone : \A j \in PushRequests \ {i} : pushTask[j].pc = "off"

\* A WordPress that the panel has installed has a database.
InstalledHasData == pushWp["production"] => pushData["production"] # None

\* What the steps that push i, alone, has behind it have set right; a push that
\* succeeded has them all behind it.
PastStep(i, steps) == pushTask[i].pc \in steps \/ pushOps[i] = "succeeded"
SetRight(i) ==
    pushTask[i].kind = "push" /\ pushWp["production"] =>
        /\ PastStep(i, {"record", "name", "password", "rewrite", "finalize"}) =>
             pushAccount["production"] = i
        /\ PastStep(i, {"name", "password", "rewrite", "finalize"}) => pushHash["production"] = i
        /\ PastStep(i, {"password", "rewrite", "finalize"}) => ProductionConfig.db = "production"
        /\ PastStep(i, {"rewrite", "finalize"}) => ProductionConfig.password = i
        /\ PastStep(i, {"finalize"}) => pushData["production"] = "production"

PushStrong ==
    /\ PushShapes /\ PushLedger /\ AloneAtWork /\ InstalledHasData
    /\ \A i \in pushAlone : SetRight(i)

LEMMA PushInitStrong == PushInit => PushStrong
<1> SUFFICES ASSUME PushInit PROVE PushStrong
  OBVIOUS
<1> USE DEF PushInit, PushNoTask, PushNoConfig
<1>1. PushShapes
  BY DEF PushShapes, PushConfigs, PushSites
<1>2. PushLedger
  BY PushNoneAssumption DEF PushLedger
<1>3. InstalledHasData
  BY PushNoneAssumption DEF InstalledHasData, PushSites
<1> QED
  BY <1>1, <1>2, <1>3 DEF PushStrong, AloneAtWork

\* A request goes on from one step to another, or ends.
LEMMA PushToTask ==
    ASSUME PushShapes, NEW i \in PushRequests, NEW pc \in PushSteps \cup {"off"}, PushTo(i, pc)
    PROVE  /\ pushTask' \in [PushRequests -> [kind : {None, "push", "reset"}, pc : PushSteps \cup {"off"}]]
           /\ pushTask'[i].pc = pc /\ \A j \in PushRequests \ {i} : pushTask'[j] = pushTask[j]
           /\ \A j \in PushRequests : pushTask'[j].kind = pushTask[j].kind
  BY DEF PushShapes, PushTo

LEMMA PushAcceptStrong ==
    ASSUME PushStrong, NEW i \in PushRequests, NEW kind \in {"push", "reset"}, NEW pc \in PushSteps,
           PushAccept(i, kind, pc),
           pushOps' = IF kind = "push" THEN [pushOps EXCEPT ![i] = "running"] ELSE pushOps,
           pc = IF kind = "push" THEN "files" ELSE "rotate"
    PROVE  PushStrong'
<1>1. /\ pushTask' = [pushTask EXCEPT ![i] = [kind |-> kind, pc |-> pc]]
      /\ pushTask[i].kind = None /\ pushTask[i].pc = "off"
      /\ UNCHANGED <<pushWp, pushConfig, pushData, pushAccount, pushHash, pushFaults>>
  BY DEF PushAccept, PushStrong, PushLedger
<1>2. PushShapes'
  BY <1>1 DEF PushAccept, PushStrong, PushShapes, PushConfigs
<1>3. PushLedger'
  BY <1>1, PushNoneAssumption DEF PushStrong, PushShapes, PushLedger
<1>4. AloneAtWork'
  BY <1>1 DEF PushAccept, PushStrong, PushShapes, AloneAtWork
<1>5. InstalledHasData'
  BY <1>1 DEF PushStrong, InstalledHasData
<1>6. \A j \in pushAlone' : j = i
  BY DEF PushAccept
<1>7. SetRight(i)'
  <2>1. pushTask'[i].kind = "push" => pushTask'[i].pc = "files" /\ pushOps'[i] = "running"
    BY <1>1 DEF PushStrong, PushShapes
  <2> QED
    BY <2>1 DEF SetRight, PastStep
<1> QED
  BY <1>2, <1>3, <1>4, <1>5, <1>6, <1>7 DEF PushStrong

\* A step of a request that is not alone: nobody is.
LEMMA AloneOrNobody ==
    ASSUME PushStrong, NEW i \in PushRequests, pushTask[i].pc # "off"
    PROVE  pushAlone \subseteq {i}
  BY DEF PushStrong, AloneAtWork, PushShapes

\* What a step of request i leaves to show: the types, and, if i is alone,
\* what it set right.
LEMMA PushStepStrong ==
    ASSUME PushStrong, NEW i \in PushRequests, NEW pc \in PushSteps \cup {"off"},
           pushTask[i].pc # "off", PushTo(i, pc), UNCHANGED <<pushWp, pushAlone>>, PushShapes',
           pc \notin {"off", "rotate", "record"} => pushTask[i].kind = "push",
           \A j \in PushRequests \ {i} : pushOps'[j] = pushOps[j],
           \/ pushOps'[i] = pushOps[i]
           \/ pushTask[i].kind = "push" /\ pc = "off",
           InstalledHasData', i \in pushAlone => SetRight(i)'
    PROVE  PushStrong'
<1>1. /\ pushTask'[i].pc = pc /\ \A j \in PushRequests \ {i} : pushTask'[j] = pushTask[j]
      /\ \A j \in PushRequests : pushTask'[j].kind = pushTask[j].kind
  BY PushToTask DEF PushStrong
<1>2. PushLedger'
  BY <1>1, PushNoneAssumption DEF PushStrong, PushLedger
<1>3. AloneAtWork' /\ \A j \in pushAlone' : j = i
  BY <1>1, AloneOrNobody DEF PushStrong, AloneAtWork
<1> QED
  BY <1>2, <1>3 DEF PushStrong

LEMMA MirrorFilesStrong ==
    ASSUME PushStrong, NEW i \in PushRequests, MirrorFiles(i)
    PROVE  PushStrong'
<1>1. PushTo(i, "database") /\ pushTask[i].pc = "files" /\ pushTask'[i].pc = "database"
  BY PushToTask DEF MirrorFiles, PushAt, PushStrong, PushSteps
<1>2. PushShapes'
  BY PushToTask DEF MirrorFiles, PushStrong, PushShapes, PushKeep, PushSteps, PushSites
<1>3. InstalledHasData' /\ SetRight(i)'
  BY <1>1 DEF MirrorFiles, PushKeep, PushStrong, InstalledHasData, SetRight, PastStep, PushLedger
<1>4. pushTask[i].kind = "push"
  BY <1>1 DEF PushStrong, PushLedger
<1> QED
  BY <1>1, <1>2, <1>3, <1>4, PushStepStrong DEF MirrorFiles, PushKeep, PushSteps

LEMMA ReplayDatabaseStrong ==
    ASSUME PushStrong, NEW i \in PushRequests, ReplayDatabase(i)
    PROVE  PushStrong'
<1> DEFINE pc == IF pushWp["production"] THEN "rotate" ELSE "finalize"
<1>1. /\ PushTo(i, pc) /\ pushTask[i].pc = "database" /\ pushTask'[i].pc = pc
      /\ pc \in PushSteps
  BY PushToTask DEF ReplayDatabase, PushAt, PushStrong, PushSteps
<1>2. /\ pushData' \in [PushSites -> PushSites \cup {None}]
      /\ pushData["production"] # None => pushData'["production"] # None
  BY DEF ReplayDatabase, PushStrong, PushShapes, PushSites
<1>3. PushShapes'
  BY <1>1, <1>2, PushToTask DEF ReplayDatabase, PushStrong, PushShapes, PushKeep
<1>4. InstalledHasData' /\ SetRight(i)'
  BY <1>1, <1>2 DEF ReplayDatabase, PushKeep, PushStrong, InstalledHasData, SetRight, PastStep, PushLedger
<1>5. pushTask[i].kind = "push"
  BY <1>1 DEF PushStrong, PushLedger
<1> QED
  BY <1>1, <1>3, <1>4, <1>5, PushStepStrong DEF ReplayDatabase, PushKeep

LEMMA RotatePasswordStrong ==
    ASSUME PushStrong, NEW i \in PushRequests, RotatePassword(i)
    PROVE  PushStrong'
<1>1. PushTo(i, "record") /\ pushTask[i].pc = "rotate" /\ pushTask'[i].pc = "record"
  BY PushToTask DEF RotatePassword, PushAt, PushStrong, PushSteps
<1>2. PushShapes' /\ pushAccount'["production"] = i
  BY PushToTask DEF RotatePassword, PushStrong, PushShapes, PushKeep, PushSteps, PushSites
<1>3. InstalledHasData' /\ SetRight(i)'
  BY <1>1, <1>2 DEF RotatePassword, PushKeep, PushStrong, InstalledHasData, SetRight, PastStep, PushLedger
<1> QED
  BY <1>1, <1>2, <1>3, PushStepStrong DEF RotatePassword, PushKeep, PushSteps

LEMMA RecordHashStrong ==
    ASSUME PushStrong, NEW i \in PushRequests, RecordHash(i)
    PROVE  PushStrong'
<1> DEFINE pc == IF pushTask[i].kind = "push" THEN "name" ELSE "off"
<1>1. /\ PushTo(i, pc) /\ pushTask[i].pc = "record" /\ pushTask'[i].pc = pc
      /\ pc \in PushSteps \cup {"off"}
  BY PushToTask DEF RecordHash, PushAt, PushStrong, PushSteps
<1>2. PushShapes' /\ pushHash'["production"] = i
  BY <1>1, PushToTask DEF RecordHash, PushStrong, PushShapes, PushKeep, PushSites
<1>3. InstalledHasData' /\ (i \in pushAlone => SetRight(i)')
  BY <1>1, <1>2, PushToTask DEF RecordHash, PushKeep, PushStrong, InstalledHasData, SetRight, PastStep, PushLedger
<1> QED
  BY <1>1, <1>2, <1>3, PushStepStrong DEF RecordHash, PushKeep

LEMMA SetNameStrong ==
    ASSUME PushStrong, NEW i \in PushRequests, SetName(i)
    PROVE  PushStrong'
<1>1. /\ PushTo(i, "password") /\ pushTask[i].pc = "name" /\ pushTask'[i].pc = "password"
      /\ pushTask'[i].kind = pushTask[i].kind /\ pushOps[i] # "succeeded"
  BY PushToTask DEF SetName, PushAt, PushStrong, PushSteps, PushLedger
<1>2. /\ pushConfig' \in [PushSites -> PushConfigs]
      /\ pushConfig'["production"].db = "production"
  BY DEF SetName, PushStrong, PushShapes, PushSites, PushConfigs
<1>3. PushShapes'
  BY <1>1, <1>2, PushToTask DEF SetName, PushStrong, PushShapes, PushKeep, PushSteps, PushConfigs
<1>4. /\ UNCHANGED <<pushData, pushAccount, pushHash, pushWp, pushOps, pushFaults, pushAlone>>
      /\ i \in pushAlone => SetRight(i)
  BY DEF SetName, PushKeep, PushStrong
<1>5. InstalledHasData'
  BY <1>4 DEF PushStrong, InstalledHasData
<1>6. i \in pushAlone => SetRight(i)'
  BY <1>1, <1>2, <1>4 DEF SetRight, PastStep, ProductionConfig
<1>7. pushTask[i].kind = "push"
  BY <1>1 DEF PushStrong, PushLedger
<1> QED
  BY <1>1, <1>3, <1>4, <1>5, <1>6, <1>7, PushStepStrong DEF PushSteps

LEMMA SetPasswordStrong ==
    ASSUME PushStrong, NEW i \in PushRequests, SetPassword(i)
    PROVE  PushStrong'
<1>1. /\ PushTo(i, "rewrite") /\ pushTask[i].pc = "password" /\ pushTask'[i].pc = "rewrite"
      /\ pushTask'[i].kind = pushTask[i].kind /\ pushOps[i] # "succeeded"
  BY PushToTask DEF SetPassword, PushAt, PushStrong, PushSteps, PushLedger
<1>2. /\ pushConfig' \in [PushSites -> PushConfigs]
      /\ pushConfig'["production"].password = i
      /\ pushConfig'["production"].db = pushConfig["production"].db
  BY DEF SetPassword, PushStrong, PushShapes, PushSites, PushConfigs
<1>3. PushShapes'
  BY <1>1, <1>2, PushToTask DEF SetPassword, PushStrong, PushShapes, PushKeep, PushSteps, PushConfigs
<1>4. /\ UNCHANGED <<pushData, pushAccount, pushHash, pushWp, pushOps, pushFaults, pushAlone>>
      /\ i \in pushAlone => SetRight(i)
  BY DEF SetPassword, PushKeep, PushStrong
<1>5. InstalledHasData'
  BY <1>4 DEF PushStrong, InstalledHasData
<1>6. i \in pushAlone => SetRight(i)'
  BY <1>1, <1>2, <1>4 DEF SetRight, PastStep, ProductionConfig
<1>7. pushTask[i].kind = "push"
  BY <1>1 DEF PushStrong, PushLedger
<1> QED
  BY <1>1, <1>3, <1>4, <1>5, <1>6, <1>7, PushStepStrong DEF PushSteps

LEMMA RewriteStrong ==
    ASSUME PushStrong, NEW i \in PushRequests, Rewrite(i)
    PROVE  PushStrong'
<1> DEFINE db == ProductionConfig.db
<1>1. /\ PushTo(i, "finalize") /\ pushTask[i].pc = "rewrite" /\ pushTask'[i].pc = "finalize"
      /\ pushTask'[i].kind = pushTask[i].kind /\ pushOps[i] # "succeeded"
  BY PushToTask DEF Rewrite, PushAt, PushStrong, PushSteps, PushLedger
<1>2. db \in PushSites
  BY DEF Rewrite, Connects, PushStrong, PushShapes, PushSites, PushConfigs, ProductionConfig
<1>3. /\ pushData' = [pushData EXCEPT ![db] = "production"]
      /\ UNCHANGED <<pushWp, pushOps, pushFaults, pushAlone, pushConfig, pushAccount, pushHash>>
  BY DEF Rewrite, PushKeep
<1> HIDE DEF db
<1>4. /\ pushData' \in [PushSites -> PushSites \cup {None}]
      /\ pushData'[db] = "production"
      /\ pushData["production"] # None => pushData'["production"] # None
  BY <1>2, <1>3, PushNoneAssumption DEF PushStrong, PushShapes, PushSites
<1>5. PushShapes'
  BY <1>1, <1>3, <1>4, PushToTask DEF PushStrong, PushShapes, PushSteps, PushConfigs
<1>6. InstalledHasData'
  BY <1>3, <1>4 DEF PushStrong, InstalledHasData
<1>7. i \in pushAlone => SetRight(i)'
  <2>1. i \in pushAlone => SetRight(i)
    BY DEF PushStrong
  <2> QED
    BY <1>1, <1>3, <1>4, <2>1 DEF SetRight, PastStep, ProductionConfig, db
<1>8. pushTask[i].kind = "push"
  BY <1>1 DEF PushStrong, PushLedger
<1> QED
  BY <1>1, <1>3, <1>5, <1>6, <1>7, <1>8, PushStepStrong DEF PushSteps

LEMMA FinishPushStrong ==
    ASSUME PushStrong, NEW i \in PushRequests, FinishPush(i)
    PROVE  PushStrong'
<1>1. /\ PushTo(i, "off") /\ pushTask[i].pc = "finalize" /\ pushTask'[i].pc = "off"
      /\ pushTask'[i].kind = pushTask[i].kind
  BY PushToTask DEF FinishPush, PushAt, PushStrong, PushSteps
<1>2. /\ pushOps' = [pushOps EXCEPT ![i] = "succeeded"]
      /\ UNCHANGED <<pushWp, pushConfig, pushData, pushAccount, pushHash, pushFaults, pushAlone>>
  BY DEF FinishPush
<1>3. PushShapes' /\ \A j \in PushRequests \ {i} : pushOps'[j] = pushOps[j]
  BY <1>1, <1>2, PushToTask DEF PushStrong, PushShapes, PushConfigs
<1>4. InstalledHasData'
  BY <1>2 DEF PushStrong, InstalledHasData
<1>5. i \in pushAlone => SetRight(i)'
  <2>1. i \in pushAlone => SetRight(i)
    BY DEF PushStrong
  <2> QED
    BY <1>1, <1>2, <2>1 DEF SetRight, PastStep, ProductionConfig
<1>6. pushTask[i].kind = "push"
  BY <1>1 DEF PushStrong, PushLedger
<1> QED
  BY <1>1, <1>2, <1>3, <1>4, <1>5, <1>6, PushStepStrong

LEMMA PushStepFailsStrong ==
    ASSUME PushStrong, NEW i \in PushRequests, PushStepFails(i)
    PROVE  PushStrong'
<1>1. PushTo(i, "off") /\ pushTask[i].pc \notin {"off", "finalize"} /\ pushTask'[i].pc = "off"
  BY PushToTask DEF PushStepFails, PushStrong
<1>2. /\ pushOps' = IF pushTask[i].kind = "push" THEN [pushOps EXCEPT ![i] = "failed"] ELSE pushOps
      /\ UNCHANGED <<pushWp, pushConfig, pushData, pushAccount, pushHash, pushAlone>>
      /\ pushFaults' \in Nat
  BY DEF PushStepFails, PushStrong, PushShapes
<1>3. PushShapes'
  BY <1>1, <1>2, PushToTask DEF PushStrong, PushShapes, PushConfigs
<1>4. InstalledHasData'
  BY <1>2 DEF PushStrong, InstalledHasData
<1>5. i \in pushAlone => SetRight(i)'
  BY <1>1, <1>2, PushToTask DEF PushStrong, SetRight, PastStep, PushShapes
<1>6. \A j \in PushRequests \ {i} : pushOps'[j] = pushOps[j]
  BY <1>2
<1>7. pushOps'[i] = pushOps[i] \/ pushTask[i].kind = "push"
  BY <1>2
<1> QED
  BY <1>1, <1>2, <1>3, <1>4, <1>5, <1>6, <1>7, PushStepStrong

LEMMA PushRestartStrong ==
    ASSUME PushStrong, PushRestart
    PROVE  PushStrong'
<1>1. /\ pushTask' = [i \in PushRequests |-> [pushTask[i] EXCEPT !.pc = "off"]]
      /\ pushOps' = [i \in PushRequests |-> IF pushOps[i] = "running" THEN "failed" ELSE pushOps[i]]
      /\ UNCHANGED <<pushWp, pushConfig, pushData, pushAccount, pushHash, pushAlone>>
      /\ pushFaults' \in Nat
  BY DEF PushRestart, PushStrong, PushShapes
<1>2. \A i \in PushRequests : pushTask'[i].pc = "off" /\ pushTask'[i].kind = pushTask[i].kind
  BY <1>1 DEF PushStrong, PushShapes
<1>3. PushShapes'
  BY <1>1 DEF PushStrong, PushShapes, PushConfigs
<1>4. PushLedger' /\ AloneAtWork'
  BY <1>1, <1>2, PushNoneAssumption DEF PushStrong, PushLedger, AloneAtWork, PushShapes
<1>5. InstalledHasData'
  BY <1>1 DEF PushStrong, InstalledHasData
<1>6. ASSUME NEW i \in pushAlone' PROVE SetRight(i)'
  BY <1>1, <1>2, <1>6 DEF PushStrong, SetRight, PastStep, PushShapes, ProductionConfig
<1> QED
  BY <1>3, <1>4, <1>5, <1>6 DEF PushStrong

LEMMA PushNextStrong == PushStrong /\ [PushNext]_pushVars => PushStrong'
<1> SUFFICES ASSUME PushStrong, [PushNext]_pushVars PROVE PushStrong'
  OBVIOUS
<1>1. CASE UNCHANGED pushVars
  BY <1>1 DEF pushVars, PushStrong, PushShapes, PushLedger, AloneAtWork, InstalledHasData, SetRight,
       PastStep, ProductionConfig
<1>2. CASE PushRestart
  BY <1>2, PushRestartStrong
<1>3. ASSUME NEW i \in PushRequests, StartPush(i) \/ ResetDbPassword(i) PROVE PushStrong'
  BY <1>3, PushAcceptStrong DEF StartPush, ResetDbPassword, PushSteps
<1>4. ASSUME NEW i \in PushRequests,
             \/ MirrorFiles(i) \/ ReplayDatabase(i) \/ RotatePassword(i) \/ RecordHash(i)
             \/ SetName(i) \/ SetPassword(i) \/ Rewrite(i) \/ FinishPush(i) \/ PushStepFails(i)
      PROVE  PushStrong'
  BY <1>4, MirrorFilesStrong, ReplayDatabaseStrong, RotatePasswordStrong, RecordHashStrong,
     SetNameStrong, SetPasswordStrong, RewriteStrong, FinishPushStrong, PushStepFailsStrong
<1> QED
  BY <1>1, <1>2, <1>3, <1>4 DEF PushNext

LEMMA PushStrongImplies == PushStrong => PushTypeOK /\ PushedSiteSelfContained
<1> SUFFICES ASSUME PushStrong PROVE PushTypeOK /\ PushedSiteSelfContained
  OBVIOUS
<1>1. PushTypeOK
  BY DEF PushStrong, PushShapes, PushTypeOK, PushConfigs
<1>2. ASSUME NEW i \in pushAlone, pushOps[i] = "succeeded", pushWp["production"]
      PROVE  /\ ProductionConfig.db = "production" /\ Connects(ProductionConfig)
             /\ pushHash["production"] = pushAccount["production"]
             /\ pushData["production"] = "production"
  <2>1. pushTask[i].kind = "push"
    BY <1>2, PushNoneAssumption DEF PushStrong, PushLedger, PushShapes
  <2> QED
    BY <1>2, <2>1, PushNoneAssumption DEF PushStrong, SetRight, PastStep, Connects, PushSites
<1> QED
  BY <1>1, <1>2 DEF PushedSiteSelfContained

LEMMA PushAlwaysStrong == PushSpec => []PushStrong
<1>1. PushStrong /\ [PushNext]_pushVars => PushStrong'
  BY PushNextStrong
<1> QED
  BY <1>1, PushInitStrong, PTL DEF PushSpec

\* A push of the clone that succeeded, by itself, leaves production with its
\* own database, domain and credentials, after any number of pushes and
\* password resets that broke off where they did.
THEOREM PushedSites == PushSpec => []PushedSiteSelfContained
  BY PushAlwaysStrong, PushStrongImplies, PTL



-----------------------------------------------------------------------------
(* Uploads and imports.                                                    *)

\* The sum of the sizes of some uploads, over uploads that are a parameter:
\* those of a state or of the next.
ImpSum(up, ks) == FoldSet(LAMBDA k, n : n + up[k].size, 0, ks)
ImpSized(up) == \A k \in ImpUploads : up[k].size \in Nat

LEMMA ImpBytesAreSum == \A ks : ImpBytes(ks) = ImpSum(impUpload, ks)
  BY DEF ImpBytes, ImpSum

\* Some function sums: by induction over the uploads.
LEMMA ImpSumExists ==
    ASSUME NEW up, ImpSized(up)
    PROVE  \E F \in [SUBSET ImpUploads -> Nat] :
              /\ F[{}] = 0
              /\ \A S \in SUBSET ImpUploads : \A k \in S : F[S] = F[S \ {k}] + up[k].size
<1> DEFINE Sums(n) == {F \in [SUBSET (1 .. n) -> Nat] :
                         /\ F[{}] = 0
                         /\ \A S \in SUBSET (1 .. n) : \A k \in S : F[S] = F[S \ {k}] + up[k].size}
           T == {n \in Nat : Sums(n) # {}}
<1>1. 0 \in T
  <2> DEFINE F == [S \in SUBSET (1 .. 0) |-> 0]
  <2>1. F \in [SUBSET (1 .. 0) -> Nat] /\ F[{}] = 0
    OBVIOUS
  <2>2. \A S \in SUBSET (1 .. 0) : S = {}
    OBVIOUS
  <2>3. F \in Sums(0)
    BY <2>1, <2>2
  <2> QED
    BY <2>3
<1>2. ASSUME NEW n \in 1 .. ImpMaxUploads, n - 1 \in T PROVE n \in T
  <2> DEFINE z == up[n].size
  <2>1. n \in Nat /\ n - 1 \in Nat /\ z \in Nat /\ n \notin 1 .. n - 1
    BY <1>2, ImpAssumption DEF ImpSized, ImpUploads
  <2>2. PICK F : F \in Sums(n - 1)
    BY <1>2
  <2>3. \A k \in 1 .. n : up[k].size \in Nat /\ (k # n => k \in 1 .. n - 1)
    BY <1>2, ImpAssumption DEF ImpSized, ImpUploads
  <2> HIDE DEF z
  <2> DEFINE G == [S \in SUBSET (1 .. n) |-> F[S \ {n}] + (IF n \in S THEN z ELSE 0)]
  <2>4. \A S \in SUBSET (1 .. n) : S \ {n} \in SUBSET (1 .. n - 1)
    BY <2>3
  <2>5. G \in [SUBSET (1 .. n) -> Nat] /\ G[{}] = 0
    <3>1. F \in [SUBSET (1 .. n - 1) -> Nat] /\ F[{}] = 0
      BY <2>2
    <3>2. \A S \in SUBSET (1 .. n) : F[S \ {n}] \in Nat
      BY <2>4, <3>1
    <3>3. \A S \in SUBSET (1 .. n) : F[S \ {n}] + (IF n \in S THEN z ELSE 0) \in Nat
      BY <2>1, <3>2
    <3>4. G[{}] = F[{} \ {n}] + 0 /\ {} \ {n} = {}
      OBVIOUS
    <3> QED
      BY <3>1, <3>3, <3>4
  <2>6. ASSUME NEW S \in SUBSET (1 .. n), NEW k \in S PROVE G[S] = G[S \ {k}] + up[k].size
    <3>1. S \ {k} \in SUBSET (1 .. n) /\ S \ {n} \in SUBSET (1 .. n - 1)
          /\ (S \ {k}) \ {n} \in SUBSET (1 .. n - 1)
      BY <2>4
    <3>2. /\ F[S \ {n}] \in Nat /\ F[(S \ {k}) \ {n}] \in Nat
          /\ \A R \in SUBSET (1 .. n - 1) : \A l \in R : F[R] = F[R \ {l}] + up[l].size
      BY <2>2, <3>1
    <3>3. /\ G[S] = F[S \ {n}] + (IF n \in S THEN z ELSE 0)
          /\ G[S \ {k}] = F[(S \ {k}) \ {n}] + (IF n \in S \ {k} THEN z ELSE 0)
      BY <3>1
    <3> HIDE DEF G
    <3>4. CASE k = n
      <4>1. (S \ {k}) \ {n} = S \ {n} /\ n \in S /\ n \notin S \ {k}
        BY <3>4
      <4>2. G[S] = F[S \ {n}] + z
        BY <3>3, <4>1
      <4>3. G[S \ {k}] = F[S \ {n}] + 0
        BY <3>3, <4>1
      <4>4. up[k].size = z
        BY <3>4 DEF z
      <4> QED
        BY <2>1, <3>2, <4>2, <4>3, <4>4
    <3>5. CASE k # n
      <4>1. k \in S \ {n} /\ (S \ {k}) \ {n} = (S \ {n}) \ {k} /\ (n \in S \ {k} <=> n \in S)
        BY <3>5
      <4>2. F[S \ {n}] = F[(S \ {k}) \ {n}] + up[k].size
        BY <3>1, <3>2, <4>1
      <4>3. up[k].size \in Nat
        BY <2>3
      <4> DEFINE e == IF n \in S THEN z ELSE 0
      <4>4. e \in Nat /\ G[S] = F[S \ {n}] + e /\ G[S \ {k}] = F[(S \ {k}) \ {n}] + e
        BY <2>1, <3>3, <4>1
      <4> HIDE DEF e
      <4> QED
        BY <3>2, <4>2, <4>3, <4>4
    <3> QED
      BY <3>4, <3>5
  <2>7. G \in Sums(n)
    <3> HIDE DEF G
    <3> QED
      BY <2>5, <2>6
  <2> HIDE DEF G, Sums
  <2> QED
    BY <2>1, <2>7
<1>3. ImpMaxUploads \in T
  <2> HIDE DEF T
  <2>1. 0 .. ImpMaxUploads \subseteq T
    BY <1>1, <1>2, ImpAssumption, UpTo
  <2> QED
    BY <2>1, ImpAssumption
<1> QED
  BY <1>3 DEF ImpUploads

\* What the fold computes, for uploads that may be chosen in any order.
LEMMA ImpSumIs ==
    ASSUME NEW up, ImpSized(up)
    PROVE  \E F \in [SUBSET ImpUploads -> Nat] :
              /\ F[{}] = 0
              /\ \A S \in SUBSET ImpUploads : \A k \in S : F[S] = F[S \ {k}] + up[k].size
              /\ \A S \in SUBSET ImpUploads : ImpSum(up, S) = F[S]
<1>1. PICK F \in [SUBSET ImpUploads -> Nat] :
              /\ F[{}] = 0
              /\ \A S \in SUBSET ImpUploads : \A k \in S : F[S] = F[S \ {k}] + up[k].size
  BY ImpSumExists
<1>2. ASSUME NEW S \in SUBSET ImpUploads PROVE ImpSum(up, S) = F[S]
  <2> DEFINE AnyRow(s) == CHOOSE x \in s : TRUE
             Is(g) == g = [s \in SUBSET S |-> IF s = {} THEN 0 ELSE g[s \ {AnyRow(s)}] + up[AnyRow(s)].size]
             iter == CHOOSE g : Is(g)
  <2>1. ImpSum(up, S) = iter[S]
    BY DEF ImpSum, FoldSet, MapThenFoldSet
  <2>2. \A s \in SUBSET S : s # {} => AnyRow(s) \in s
    OBVIOUS
  <2> HIDE DEF AnyRow
  <2> DEFINE f == [s \in SUBSET S |-> F[s]]
  <2>3. Is(f)
    <3>1. \A s \in SUBSET S : f[s] = IF s = {} THEN 0 ELSE f[s \ {AnyRow(s)}] + up[AnyRow(s)].size
      <4> TAKE s \in SUBSET S
      <4>1. s \in SUBSET ImpUploads /\ s \ {AnyRow(s)} \in SUBSET S
        OBVIOUS
      <4> QED
        BY <1>1, <2>2, <4>1
    <3> HIDE DEF f
    <3>2. [s \in SUBSET S |-> f[s]]
          = [s \in SUBSET S |-> IF s = {} THEN 0 ELSE f[s \ {AnyRow(s)}] + up[AnyRow(s)].size]
      BY <3>1
    <3>3. f = [s \in SUBSET S |-> f[s]]
      BY DEF f
    <3> QED
      BY <3>2, <3>3
  <2>4. Is(iter)
    <3> HIDE DEF Is
    <3> QED
      BY <2>3
  <2> HIDE DEF iter
  <2>5. \A s \in SUBSET S : iter[s] = IF s = {} THEN 0 ELSE iter[s \ {AnyRow(s)}] + up[AnyRow(s)].size
    BY <2>4
  <2> HIDE DEF Is, f
  <2> DEFINE T == {n \in Nat : \A s \in SUBSET S : s \subseteq 1 .. n => iter[s] = F[s]}
             Sizes == {n \in Nat : \A s \in SUBSET S : Cardinality(s) = n => iter[s] = F[s]}
  <2>6. \A s \in SUBSET S : IsFiniteSet(s) /\ Cardinality(s) \in Nat
    <3>1. IsFiniteSet(ImpUploads)
      BY ImpAssumption, FS_Interval DEF ImpUploads
    <3> QED
      BY <3>1, FS_Subset, FS_CardinalityType
  <2>7. 0 \in Sizes
    <3>1. \A s \in SUBSET S : Cardinality(s) = 0 => s = {}
      BY <2>6, FS_EmptySet
    <3> QED
      BY <1>1, <2>5, <3>1
  <2>8. ASSUME NEW n \in Nat, n # 0, n - 1 \in Sizes PROVE n \in Sizes
    <3> SUFFICES ASSUME NEW s \in SUBSET S, Cardinality(s) = n PROVE iter[s] = F[s]
      OBVIOUS
    <3> DEFINE x == AnyRow(s)
               r == s \ {x}
    <3>1. s # {}
      BY <2>6, <2>8, FS_EmptySet
    <3>2. x \in s
      BY <2>2, <3>1
    <3> HIDE DEF x
    <3>3. r \in SUBSET S /\ Cardinality(r) = n - 1
      BY <2>6, <3>2, FS_RemoveElement
    <3>4. iter[r] = F[r]
      BY <2>8, <3>3
    <3>5. iter[s] = iter[r] + up[x].size
      BY <2>5, <3>1 DEF x
    <3>6. F[s] = F[r] + up[x].size
      BY <1>1, <3>2
    <3> QED
      BY <3>4, <3>5, <3>6
  <2>9. Cardinality(S) \in Sizes
    <3> DEFINE c == Cardinality(S)
    <3>1. c \in Nat
      BY <2>6
    <3> HIDE DEF c, Sizes
    <3>2. \A n \in 1 .. c : n - 1 \in Sizes => n \in Sizes
      BY <2>8, <3>1
    <3>3. 0 .. c \subseteq Sizes
      BY <2>7, <3>1, <3>2, UpTo
    <3> QED
      BY <3>1, <3>3 DEF c
  <2> QED
    BY <2>1, <2>9
<1> QED
  BY <1>1, <1>2

\* Fewer and smaller uploads take less room.
LEMMA ImpSumLess ==
    ASSUME NEW up, NEW up2, ImpSized(up), ImpSized(up2),
           NEW A \in SUBSET ImpUploads, NEW B \in SUBSET ImpUploads, A \subseteq B,
           \A k \in A : up[k].size <= up2[k].size
    PROVE  ImpSum(up, A) \in Nat /\ ImpSum(up2, B) \in Nat /\ ImpSum(up, A) <= ImpSum(up2, B)
<1>1. PICK F \in [SUBSET ImpUploads -> Nat] :
              /\ F[{}] = 0
              /\ \A S \in SUBSET ImpUploads : \A k \in S : F[S] = F[S \ {k}] + up[k].size
              /\ \A S \in SUBSET ImpUploads : ImpSum(up, S) = F[S]
  BY ImpSumIs
<1>2. PICK G \in [SUBSET ImpUploads -> Nat] :
              /\ G[{}] = 0
              /\ \A S \in SUBSET ImpUploads : \A k \in S : G[S] = G[S \ {k}] + up2[k].size
              /\ \A S \in SUBSET ImpUploads : ImpSum(up2, S) = G[S]
  BY ImpSumIs
<1> DEFINE Below(n, C, D) == C \subseteq D /\ C \subseteq A /\ D \subseteq 1 .. n
           T == {n \in Nat : \A C, D \in SUBSET ImpUploads : Below(n, C, D) => F[C] <= G[D]}
<1>3. 0 \in T
  <2>1. \A C, D \in SUBSET ImpUploads : Below(0, C, D) => C = {} /\ D = {}
    OBVIOUS
  <2>2. F[{}] <= G[{}]
    BY <1>1, <1>2
  <2> HIDE DEF Below
  <2>3. \A C, D \in SUBSET ImpUploads : Below(0, C, D) => F[C] <= G[D]
    BY <2>1, <2>2
  <2> QED
    BY <2>3
<1>4. ASSUME NEW n \in 1 .. ImpMaxUploads, n - 1 \in T PROVE n \in T
  <2>1. n \in Nat /\ n - 1 \in Nat /\ n \in ImpUploads
    BY ImpAssumption DEF ImpUploads
  <2> SUFFICES ASSUME NEW C \in SUBSET ImpUploads, NEW D \in SUBSET ImpUploads, Below(n, C, D)
               PROVE  F[C] <= G[D]
    BY <2>1
  <2> DEFINE C1 == C \ {n}
             D1 == D \ {n}
  <2>2. C1 \in SUBSET ImpUploads /\ D1 \in SUBSET ImpUploads /\ Below(n - 1, C1, D1)
    BY <2>1
  <2>3. F[C1] <= G[D1] /\ F[C1] \in Nat /\ G[D1] \in Nat /\ F[C] \in Nat /\ G[D] \in Nat
    BY <1>1, <1>2, <1>4, <2>2
  <2>4. up[n].size \in Nat /\ up2[n].size \in Nat
    BY <2>1 DEF ImpSized
  <2>5. CASE n \in C
    <3>1. F[C] = F[C1] + up[n].size /\ G[D] = G[D1] + up2[n].size /\ up[n].size <= up2[n].size
      BY <1>1, <1>2, <2>5
    <3> HIDE DEF C1, D1
    <3> QED
      BY <2>3, <2>4, <3>1
  <2>6. CASE n \notin C /\ n \in D
    <3>1. C1 = C /\ G[D] = G[D1] + up2[n].size
      BY <1>2, <2>6
    <3> HIDE DEF C1, D1
    <3> QED
      BY <2>3, <2>4, <3>1
  <2>7. CASE n \notin C /\ n \notin D
    <3>1. C1 = C /\ D1 = D
      BY <2>7
    <3> QED
      BY <2>3, <3>1
  <2> QED
    BY <2>5, <2>6, <2>7
<1>5. ImpMaxUploads \in T
  <2> HIDE DEF T
  <2>1. 0 .. ImpMaxUploads \subseteq T
    BY <1>3, <1>4, ImpAssumption, UpTo
  <2> QED
    BY <2>1, ImpAssumption
<1>6. F[A] <= G[B]
  BY <1>5 DEF ImpUploads
<1> QED
  BY <1>1, <1>2, <1>6

\* One more upload takes its size more.
LEMMA ImpSumAdd ==
    ASSUME NEW up, ImpSized(up), NEW A \in SUBSET ImpUploads, NEW k \in A
    PROVE  /\ ImpSum(up, A) = ImpSum(up, A \ {k}) + up[k].size
           /\ ImpSum(up, A) \in Nat /\ ImpSum(up, A \ {k}) \in Nat
<1>1. PICK F \in [SUBSET ImpUploads -> Nat] :
              /\ F[{}] = 0
              /\ \A S \in SUBSET ImpUploads : \A l \in S : F[S] = F[S \ {l}] + up[l].size
              /\ \A S \in SUBSET ImpUploads : ImpSum(up, S) = F[S]
  BY ImpSumIs
<1>2. A \ {k} \in SUBSET ImpUploads
  OBVIOUS
<1> QED
  BY <1>1, <1>2

\* The uploads on disk, and those of a user.
ImpDisk(up) == {k \in ImpUploads : up[k].state \in {"streaming", "ready", "stranded"}}
ImpDiskOf(up, u) == {k \in ImpDisk(up) : up[k].user = u}

ImpUploadRecord == [user : ImpUsers \cup {None},
                    state : {None, "waiting", "streaming", "ready", "stranded", "gone"},
                    size : 0 .. ImpMaxSize + 1, old : BOOLEAN, user0 : Nat, total0 : Nat]
ImpTaskRecord == [upload : 0 .. ImpMaxUploads, pc : {"off", "extract", "mirror", "finalize"},
                  tree : {None, "whole", "holed"}]

ImpShapes ==
    /\ impUpload \in [ImpUploads -> ImpUploadRecord]
    /\ impTask \in [ImpImports -> ImpTaskRecord]
    /\ impLock \in ImpUploads \cup {None}
    /\ impOps \in [ImpImports -> {None, "running", "succeeded", "failed"}]
    /\ impSwept \subseteq ImpImports

\* An import has an upload as long as it runs or has unpacked one, a holed
\* tree has been swept, and a task has an operation for good.
ImpTasksSound ==
    \A i \in ImpImports :
        /\ impTask[i].pc # "off" \/ impTask[i].tree # None => impTask[i].upload \in ImpUploads
        /\ impTask[i].pc = "mirror" => impTask[i].tree # None
        /\ impTask[i].tree = "holed" => i \in impSwept
        /\ impTask[i].pc # "off" \/ i \in impSwept => impOps[i] # None
        /\ impTask[i].tree # None => impTask[i].pc # "off"

\* Who streams has the lock, and counts with at least what the others have.
ImpStreams(up, lock) ==
    \A k \in ImpUploads :
        /\ up[k].state \in {None, "waiting"} => up[k].size = 0
        /\ up[k].state = "waiting" => up[k].user \in ImpUsers
        /\ up[k].state = "streaming" =>
             /\ lock = k /\ up[k].user \in ImpUsers
             /\ ImpSum(up, ImpDiskOf(up, up[k].user) \ {k}) <= up[k].user0
             /\ ImpSum(up, ImpDisk(up) \ {k}) <= up[k].total0
ImpWithin(up) ==
    /\ \A u \in ImpUsers : ImpSum(up, ImpDiskOf(up, u)) <= ImpUserLimit
    /\ ImpSum(up, ImpDisk(up)) <= ImpTotalLimit

ImpStrong ==
    /\ ImpShapes /\ ImpTasksSound /\ ImportsWhole
    /\ ImpStreams(impUpload, impLock) /\ ImpWithin(impUpload)

LEMMA ImpStateNone == None \notin {"waiting", "streaming", "ready", "stranded"}
  BY ImpNoneAssumption

LEMMA ImpShapesSized == \A up \in [ImpUploads -> ImpUploadRecord] : ImpSized(up)
  BY ImpAssumption DEF ImpUploadRecord, ImpSized

LEMMA ImpSumEmpty == \A up : ImpSized(up) => ImpSum(up, {}) = 0
<1> SUFFICES ASSUME NEW up, ImpSized(up) PROVE ImpSum(up, {}) = 0
  OBVIOUS
<1>1. PICK F \in [SUBSET ImpUploads -> Nat] :
              /\ F[{}] = 0
              /\ \A S \in SUBSET ImpUploads : ImpSum(up, S) = F[S]
  BY ImpSumIs
<1> QED
  BY <1>1

LEMMA ImpInitStrong == ImpInit => ImpStrong
<1> SUFFICES ASSUME ImpInit PROVE ImpStrong
  OBVIOUS
<1>1. ImpNoUpload \in ImpUploadRecord /\ ImpNoTask \in ImpTaskRecord
  BY ImpAssumption DEF ImpNoUpload, ImpUploadRecord, ImpNoTask, ImpTaskRecord
<1>2. ImpShapes
  BY <1>1 DEF ImpInit, ImpShapes
<1>3. ImpTasksSound /\ ImportsWhole
  BY ImpNoneAssumption DEF ImpInit, ImpTasksSound, ImportsWhole, ImpNoTask
<1>4. \A k \in ImpUploads : impUpload[k].state = None /\ impUpload[k].size = 0
  BY DEF ImpInit, ImpNoUpload
<1>5. ImpDisk(impUpload) = {}
  BY <1>4, ImpNoneAssumption, ImpStateNone DEF ImpDisk
<1>6. \A u : ImpDiskOf(impUpload, u) = {}
  BY <1>5 DEF ImpDiskOf
<1>7. ImpSum(impUpload, {}) = 0
  BY <1>2, ImpShapesSized, ImpSumEmpty DEF ImpShapes
<1>8. ImpWithin(impUpload)
  BY <1>5, <1>6, <1>7, ImpAssumption DEF ImpWithin
<1>9. ImpStreams(impUpload, impLock)
  BY <1>4, ImpStateNone DEF ImpStreams
<1> QED
  BY <1>2, <1>3, <1>8, <1>9 DEF ImpStrong

\* Uploads that stay as they are or go take no more room.
LEMMA ImpSumShrinks ==
    ASSUME NEW up, NEW up2, ImpSized(up), ImpSized(up2), NEW X,
           \A k \in ImpDisk(up2) : /\ k \in ImpDisk(up) /\ up2[k].user = up[k].user
                                   /\ up2[k].size = up[k].size
    PROVE  /\ ImpSum(up2, ImpDisk(up2) \ X) <= ImpSum(up, ImpDisk(up) \ X)
           /\ \A u : ImpSum(up2, ImpDiskOf(up2, u) \ X) <= ImpSum(up, ImpDiskOf(up, u) \ X)
           /\ ImpSum(up2, ImpDisk(up2) \ X) \in Nat /\ ImpSum(up, ImpDisk(up) \ X) \in Nat
           /\ \A u : /\ ImpSum(up2, ImpDiskOf(up2, u) \ X) \in Nat
                     /\ ImpSum(up, ImpDiskOf(up, u) \ X) \in Nat
<1> DEFINE A == ImpDisk(up2) \ X
           B == ImpDisk(up) \ X
<1>1. /\ A \in SUBSET ImpUploads /\ B \in SUBSET ImpUploads /\ A \subseteq B
      /\ \A k \in A : up2[k].size <= up[k].size
  BY DEF ImpDisk, ImpSized
<1>2. ASSUME NEW u
      PROVE  LET C == ImpDiskOf(up2, u) \ X
                 D == ImpDiskOf(up, u) \ X
             IN  /\ C \in SUBSET ImpUploads /\ D \in SUBSET ImpUploads /\ C \subseteq D
                 /\ \A k \in C : up2[k].size <= up[k].size
  BY DEF ImpDiskOf, ImpDisk, ImpSized
<1>3. ASSUME NEW u
      PROVE  /\ ImpSum(up2, ImpDiskOf(up2, u) \ X) <= ImpSum(up, ImpDiskOf(up, u) \ X)
             /\ ImpSum(up2, ImpDiskOf(up2, u) \ X) \in Nat
             /\ ImpSum(up, ImpDiskOf(up, u) \ X) \in Nat
  <2> DEFINE C == ImpDiskOf(up2, u) \ X
             D == ImpDiskOf(up, u) \ X
  <2>1. /\ C \in SUBSET ImpUploads /\ D \in SUBSET ImpUploads /\ C \subseteq D
        /\ \A k \in C : up2[k].size <= up[k].size
    BY <1>2
  <2> HIDE DEF C, D
  <2>2. ImpSum(up2, C) \in Nat /\ ImpSum(up, D) \in Nat /\ ImpSum(up2, C) <= ImpSum(up, D)
    BY <2>1, ImpSumLess
  <2> QED
    BY <2>2 DEF C, D
<1> HIDE DEF A, B
<1>4. ImpSum(up2, A) \in Nat /\ ImpSum(up, B) \in Nat /\ ImpSum(up2, A) <= ImpSum(up, B)
  BY <1>1, ImpSumLess
<1> QED
  BY <1>3, <1>4 DEF A, B

\* What a step may do to uploads besides to let one grow: none comes to the
\* disk, and who streams on does so with the lock and the sums it has.
ImpShrinks(up, up2, lock, lock2) ==
    /\ up2 \in [ImpUploads -> ImpUploadRecord]
    /\ \A k \in ImpDisk(up2) : /\ k \in ImpDisk(up) /\ up2[k].user = up[k].user
                               /\ up2[k].size = up[k].size
    /\ \A k \in ImpUploads :
          /\ up2[k].state \in {None, "waiting"} => up2[k].size = 0
          /\ up2[k].state = "waiting" => up2[k].user \in ImpUsers
          /\ up2[k].state = "streaming" => /\ up[k].state = "streaming" /\ lock2 = lock
                                           /\ up2[k].user0 = up[k].user0
                                           /\ up2[k].total0 = up[k].total0

\* Then the limits hold on, and for the one that streams, too.
LEMMA ImpFewer ==
    ASSUME NEW up \in [ImpUploads -> ImpUploadRecord], NEW up2, NEW lock, NEW lock2,
           ImpStreams(up, lock), ImpWithin(up), ImpShrinks(up, up2, lock, lock2)
    PROVE  /\ up2 \in [ImpUploads -> ImpUploadRecord]
           /\ ImpStreams(up2, lock2) /\ ImpWithin(up2)
<1> SUFFICES ASSUME
           up2 \in [ImpUploads -> ImpUploadRecord],
           \A k \in ImpDisk(up2) : /\ k \in ImpDisk(up) /\ up2[k].user = up[k].user
                                   /\ up2[k].size = up[k].size,
           \A k \in ImpUploads :
              /\ up2[k].state \in {None, "waiting"} => up2[k].size = 0
              /\ up2[k].state = "waiting" => up2[k].user \in ImpUsers
              /\ up2[k].state = "streaming" => /\ up[k].state = "streaming" /\ lock2 = lock
                                               /\ up2[k].user0 = up[k].user0
                                               /\ up2[k].total0 = up[k].total0
             PROVE ImpStreams(up2, lock2) /\ ImpWithin(up2)
  BY DEF ImpShrinks
<1>1. ImpSized(up) /\ ImpSized(up2)
  BY ImpShapesSized
<1>2. ImpWithin(up2)
  <2>1. /\ ImpSum(up2, ImpDisk(up2) \ {}) <= ImpSum(up, ImpDisk(up) \ {})
        /\ \A u : ImpSum(up2, ImpDiskOf(up2, u) \ {}) <= ImpSum(up, ImpDiskOf(up, u) \ {})
        /\ ImpSum(up2, ImpDisk(up2) \ {}) \in Nat /\ ImpSum(up, ImpDisk(up) \ {}) \in Nat
        /\ \A u : /\ ImpSum(up2, ImpDiskOf(up2, u) \ {}) \in Nat
                  /\ ImpSum(up, ImpDiskOf(up, u) \ {}) \in Nat
    BY <1>1, ImpSumShrinks
  <2>2. \A S : S \ {} = S
    OBVIOUS
  <2>3. /\ ImpSum(up2, ImpDisk(up2)) <= ImpSum(up, ImpDisk(up))
        /\ \A u : ImpSum(up2, ImpDiskOf(up2, u)) <= ImpSum(up, ImpDiskOf(up, u))
        /\ ImpSum(up2, ImpDisk(up2)) \in Nat /\ ImpSum(up, ImpDisk(up)) \in Nat
        /\ \A u : ImpSum(up2, ImpDiskOf(up2, u)) \in Nat /\ ImpSum(up, ImpDiskOf(up, u)) \in Nat
    BY <2>1, <2>2
  <2> QED
    BY <2>3, ImpAssumption DEF ImpWithin
<1>3. ASSUME NEW k \in ImpUploads, up2[k].state = "streaming"
      PROVE  /\ lock2 = k /\ up2[k].user \in ImpUsers
             /\ ImpSum(up2, ImpDiskOf(up2, up2[k].user) \ {k}) <= up2[k].user0
             /\ ImpSum(up2, ImpDisk(up2) \ {k}) <= up2[k].total0
  <2>1. k \in ImpDisk(up2)
    BY <1>3 DEF ImpDisk
  <2> DEFINE u == up[k].user
  <2>2. /\ up[k].state = "streaming" /\ lock2 = lock /\ up2[k].user = u
        /\ up2[k].user0 = up[k].user0 /\ up2[k].total0 = up[k].total0
    BY <1>3, <2>1
  <2>3. /\ lock = k /\ u \in ImpUsers
        /\ ImpSum(up, ImpDiskOf(up, u) \ {k}) <= up[k].user0
        /\ ImpSum(up, ImpDisk(up) \ {k}) <= up[k].total0
    BY <2>2 DEF ImpStreams
  <2>4. up[k].user0 \in Nat /\ up[k].total0 \in Nat
    BY DEF ImpUploadRecord
  <2> HIDE DEF u
  <2>5. /\ ImpSum(up2, ImpDisk(up2) \ {k}) <= ImpSum(up, ImpDisk(up) \ {k})
        /\ ImpSum(up2, ImpDiskOf(up2, u) \ {k}) <= ImpSum(up, ImpDiskOf(up, u) \ {k})
        /\ ImpSum(up2, ImpDisk(up2) \ {k}) \in Nat /\ ImpSum(up, ImpDisk(up) \ {k}) \in Nat
        /\ ImpSum(up2, ImpDiskOf(up2, u) \ {k}) \in Nat
        /\ ImpSum(up, ImpDiskOf(up, u) \ {k}) \in Nat
    BY <1>1, ImpSumShrinks
  <2> DEFINE a == ImpSum(up2, ImpDisk(up2) \ {k})
             b == ImpSum(up, ImpDisk(up) \ {k})
             c == ImpSum(up2, ImpDiskOf(up2, u) \ {k})
             d == ImpSum(up, ImpDiskOf(up, u) \ {k})
  <2>6. a <= b /\ c <= d /\ a \in Nat /\ b \in Nat /\ c \in Nat /\ d \in Nat
        /\ b <= up[k].total0 /\ d <= up[k].user0
    BY <2>3, <2>5
  <2> HIDE DEF a, b, c, d
  <2>7. a <= up[k].total0 /\ c <= up[k].user0
    BY <2>4, <2>6
  <2> QED
    BY <2>2, <2>3, <2>7 DEF a, c
<1> QED
  BY <1>2, <1>3 DEF ImpStreams

\* One upload gets another state, and another user as long as it waits, or is
\* old now; what it had on disk it has still, or less.
LEMMA ImpOneUpload ==
    ASSUME NEW up \in [ImpUploads -> ImpUploadRecord], NEW lock, ImpStreams(up, lock), NEW lock2,
           NEW k \in ImpUploads, NEW r \in ImpUploadRecord,
           r.size = up[k].size,
           \/ r.state = "waiting" /\ r.user \in ImpUsers /\ r.size = 0
           \/ r.state = "gone"
           \/ /\ r.state \in {"ready", "stranded"} /\ r.user = up[k].user
              /\ up[k].state \in {"streaming", "ready", "stranded"}
           \/ /\ r.state = "streaming" /\ r.user = up[k].user /\ lock2 = lock
              /\ up[k].state = "streaming" /\ r.user0 = up[k].user0 /\ r.total0 = up[k].total0,
           \A j \in ImpUploads \ {k} : up[j].state = "streaming" => lock2 = lock
    PROVE  ImpShrinks(up, [up EXCEPT ![k] = r], lock, lock2)
<1> DEFINE up2 == [up EXCEPT ![k] = r]
<1>1. up2 \in [ImpUploads -> ImpUploadRecord] /\ up2[k] = r
      /\ \A j \in ImpUploads : j # k => up2[j] = up[j]
  OBVIOUS
<1> HIDE DEF up2
<1>2. None \notin {"waiting", "streaming", "ready", "stranded", "gone"}
  BY ImpNoneAssumption
<1>3. r.state \in {"waiting", "gone", "ready", "stranded", "streaming"}
  OBVIOUS
<1>4. ASSUME NEW j \in ImpDisk(up2)
      PROVE  j \in ImpDisk(up) /\ up2[j].user = up[j].user /\ up2[j].size = up[j].size
  <2>1. j \in ImpUploads /\ up2[j].state \in {"streaming", "ready", "stranded"}
    BY DEF ImpDisk
  <2>2. CASE j # k
    BY <1>1, <2>1, <2>2 DEF ImpDisk
  <2>3. CASE j = k
    BY <1>1, <2>1, <2>3 DEF ImpDisk
  <2> QED
    BY <2>2, <2>3
<1>5. ASSUME NEW j \in ImpUploads
      PROVE  /\ up2[j].state \in {None, "waiting"} => up2[j].size = 0
             /\ up2[j].state = "waiting" => up2[j].user \in ImpUsers
             /\ up2[j].state = "streaming" => /\ up[j].state = "streaming" /\ lock2 = lock
                                              /\ up2[j].user0 = up[j].user0
                                              /\ up2[j].total0 = up[j].total0
  <2>1. CASE j # k
    BY <1>1, <2>1 DEF ImpStreams
  <2>2. CASE j = k
    BY <1>1, <1>2, <1>3, <2>2
  <2> QED
    BY <2>1, <2>2
<1>6. ImpShrinks(up, up2, lock, lock2)
  BY <1>1, <1>4, <1>5 DEF ImpShrinks
<1> QED
  BY <1>6 DEF up2

\* The part of the invariant that is about uploads.
ImpUploadsStrong ==
    /\ impUpload \in [ImpUploads -> ImpUploadRecord] /\ impLock \in ImpUploads \cup {None}
    /\ ImpStreams(impUpload, impLock) /\ ImpWithin(impUpload)

LEMMA ImpBegins ==
    ASSUME ImpUploadsStrong, NEW k \in ImpUploads, NEW u \in ImpUsers, BeginUpload(k, u)
    PROVE  ImpUploadsStrong'
<1> DEFINE r == [impUpload[k] EXCEPT !.user = u, !.state = "waiting"]
<1>1. r \in ImpUploadRecord /\ r.size = impUpload[k].size /\ r.state = "waiting" /\ r.user = u
  BY DEF ImpUploadsStrong, ImpUploadRecord
<1>2. impUpload' = [impUpload EXCEPT ![k] = r] /\ impLock' = impLock
  BY DEF BeginUpload, ImpUploadsStrong
<1>3. impUpload[k].size = 0
  BY DEF BeginUpload, ImpUploadsStrong, ImpStreams
<1> HIDE DEF r
<1>4. ImpShrinks(impUpload, [impUpload EXCEPT ![k] = r], impLock, impLock)
  BY <1>1, <1>3, ImpOneUpload DEF ImpUploadsStrong
<1>5. ImpShrinks(impUpload, impUpload', impLock, impLock')
  BY <1>2, <1>4
<1> QED
  BY <1>2, <1>5, ImpFewer DEF ImpUploadsStrong

LEMMA ImpExpires ==
    ASSUME ImpUploadsStrong, NEW k \in ImpUploads, ExpireUpload(k)
    PROVE  ImpUploadsStrong'
<1> DEFINE r == [impUpload[k] EXCEPT !.old = TRUE]
<1>1. /\ r \in ImpUploadRecord /\ r.size = impUpload[k].size /\ r.state = impUpload[k].state
      /\ r.user = impUpload[k].user /\ r.user0 = impUpload[k].user0 /\ r.total0 = impUpload[k].total0
  BY DEF ImpUploadsStrong, ImpUploadRecord
<1>2. impUpload' = [impUpload EXCEPT ![k] = r] /\ impLock' = impLock
  BY DEF ExpireUpload, ImpUploadsStrong
<1>3. impUpload[k].state \in {"streaming", "ready", "stranded"}
  BY DEF ExpireUpload, ImpOnDisk
<1> HIDE DEF r
<1>4. ImpShrinks(impUpload, [impUpload EXCEPT ![k] = r], impLock, impLock)
  BY <1>1, <1>3, ImpOneUpload DEF ImpUploadsStrong
<1>5. ImpShrinks(impUpload, impUpload', impLock, impLock')
  BY <1>2, <1>4
<1> QED
  BY <1>2, <1>5, ImpFewer DEF ImpUploadsStrong

\* An upload ends, is cut off or is refused: whoever streams has the lock, and
\* the lock is free after.
LEMMA ImpLeaves ==
    ASSUME ImpUploadsStrong, NEW k \in ImpUploads, NEW s \in {"ready", "gone"},
           s = "ready" => impUpload[k].state = "streaming",
           impUpload' = [impUpload EXCEPT ![k].state = s],
           \/ impUpload[k].state = "streaming" /\ impLock' = None
           \/ impLock' = IF impLock = k THEN None ELSE impLock
           \/ impLock' = impLock
    PROVE  ImpUploadsStrong'
<1> DEFINE r == [impUpload[k] EXCEPT !.state = s]
<1>1. /\ r \in ImpUploadRecord /\ r.size = impUpload[k].size /\ r.state = s
      /\ r.user = impUpload[k].user
  BY DEF ImpUploadsStrong, ImpUploadRecord
<1>2. impUpload' = [impUpload EXCEPT ![k] = r]
  BY DEF ImpUploadsStrong
<1>3. \A j \in ImpUploads : impUpload[j].state = "streaming" => impLock = j
  BY DEF ImpUploadsStrong, ImpStreams
<1>4. \A j \in ImpUploads \ {k} : impUpload[j].state = "streaming" => impLock' = impLock
  BY <1>3
<1>5. impLock' \in ImpUploads \cup {None}
  BY DEF ImpUploadsStrong
<1> HIDE DEF r
<1>6. ImpShrinks(impUpload, [impUpload EXCEPT ![k] = r], impLock, impLock')
  BY <1>1, <1>4, ImpOneUpload DEF ImpUploadsStrong
<1>7. ImpShrinks(impUpload, impUpload', impLock, impLock')
  BY <1>2, <1>6
<1> QED
  BY <1>5, <1>7, ImpFewer DEF ImpUploadsStrong

LEMMA ImpRestarts ==
    ASSUME ImpUploadsStrong, ImpRestart
    PROVE  ImpUploadsStrong'
<1> DEFINE new(k) == IF impUpload[k].state = "streaming"
                     THEN [impUpload[k] EXCEPT !.state = "stranded"]
                     ELSE IF impUpload[k].state = "waiting" THEN [impUpload[k] EXCEPT !.state = "gone"]
                     ELSE impUpload[k]
<1>1. impUpload' = [k \in ImpUploads |-> new(k)] /\ impLock' = None
  BY DEF ImpRestart
<1>2. ASSUME NEW k \in ImpUploads
      PROVE  /\ new(k) \in ImpUploadRecord /\ new(k).user = impUpload[k].user
             /\ new(k).size = impUpload[k].size
             /\ new(k).state # "streaming" /\ new(k).state # "waiting"
             /\ new(k).state \in {"ready", "stranded"}
                  => impUpload[k].state \in {"streaming", "ready", "stranded"}
             /\ new(k).state = None => impUpload[k].state = None
  <2>1. impUpload[k] \in ImpUploadRecord
    BY DEF ImpUploadsStrong
  <2>2. None \notin {"stranded", "gone"}
    BY ImpNoneAssumption
  <2> QED
    BY <2>1, <2>2 DEF ImpUploadRecord
<1> HIDE DEF new
<1>3. impUpload' \in [ImpUploads -> ImpUploadRecord] /\ \A k \in ImpUploads : impUpload'[k] = new(k)
  BY <1>1, <1>2
<1>4. \A k \in ImpUploads : impUpload[k].state = None => impUpload[k].size = 0
  BY DEF ImpUploadsStrong, ImpStreams
<1>5. ImpShrinks(impUpload, impUpload', impLock, impLock')
  BY <1>2, <1>3, <1>4 DEF ImpShrinks, ImpDisk
<1> QED
  BY <1>1, <1>5, ImpFewer DEF ImpUploadsStrong

\* A chunk is added to the one upload that streams, and was counted before.
LEMMA ImpGrows ==
    ASSUME NEW up \in [ImpUploads -> ImpUploadRecord], NEW lock, ImpStreams(up, lock), ImpWithin(up),
           NEW k \in ImpUploads, NEW size, up[k].state = "streaming", size = up[k].size + 1,
           size <= ImpMaxSize, up[k].user0 + size <= ImpUserLimit,
           up[k].total0 + size <= ImpTotalLimit
    PROVE  LET up2 == [up EXCEPT ![k].size = size]
           IN  up2 \in [ImpUploads -> ImpUploadRecord] /\ ImpStreams(up2, lock) /\ ImpWithin(up2)
<1> DEFINE up2 == [up EXCEPT ![k].size = size]
           u0 == up[k].user
<1>1. up[k].size \in Nat /\ size \in 0 .. ImpMaxSize + 1 /\ up[k].user0 \in Nat /\ up[k].total0 \in Nat
  BY ImpAssumption DEF ImpUploadRecord
<1>2. /\ up2 \in [ImpUploads -> ImpUploadRecord]
      /\ \A j \in ImpUploads : j # k => up2[j] = up[j]
      /\ up2[k].size = size /\ up2[k].state = "streaming" /\ up2[k].user = u0
      /\ up2[k].user0 = up[k].user0 /\ up2[k].total0 = up[k].total0
  BY <1>1 DEF ImpUploadRecord
<1> HIDE DEF up2
<1>3. ImpSized(up) /\ ImpSized(up2)
  BY <1>2, ImpShapesSized
<1>4. ImpDisk(up2) = ImpDisk(up) /\ k \in ImpDisk(up) /\ ImpDisk(up) \in SUBSET ImpUploads
  BY <1>2 DEF ImpDisk
<1>5. \A u : ImpDiskOf(up2, u) = ImpDiskOf(up, u) /\ ImpDiskOf(up, u) \in SUBSET ImpUploads
             /\ (k \in ImpDiskOf(up, u) <=> u = u0)
  BY <1>2, <1>4 DEF ImpDiskOf
<1>6. ASSUME NEW S \in SUBSET ImpUploads, k \notin S
      PROVE  ImpSum(up2, S) = ImpSum(up, S) /\ ImpSum(up, S) \in Nat
  <2>1. \A j \in S : up[j].size <= up2[j].size /\ up2[j].size <= up[j].size
    BY <1>2, <1>3, <1>6 DEF ImpSized
  <2>2. ImpSum(up, S) \in Nat /\ ImpSum(up2, S) \in Nat
        /\ ImpSum(up, S) <= ImpSum(up2, S)
    BY <1>3, <2>1, ImpSumLess
  <2>3. ImpSum(up2, S) <= ImpSum(up, S)
    BY <1>3, <2>1, ImpSumLess
  <2> QED
    BY <2>2, <2>3
<1>7. /\ lock = k /\ u0 \in ImpUsers
      /\ ImpSum(up, ImpDiskOf(up, u0) \ {k}) <= up[k].user0
      /\ ImpSum(up, ImpDisk(up) \ {k}) <= up[k].total0
  BY DEF ImpStreams
<1> DEFINE all == ImpDisk(up)
           own == ImpDiskOf(up, u0)
<1>8. /\ all \in SUBSET ImpUploads /\ k \in all /\ own \in SUBSET ImpUploads /\ k \in own
      /\ all \ {k} \in SUBSET ImpUploads /\ own \ {k} \in SUBSET ImpUploads
  BY <1>4, <1>5
<1> HIDE DEF all, own
<1>9. /\ ImpSum(up2, all \ {k}) = ImpSum(up, all \ {k}) /\ ImpSum(up, all \ {k}) \in Nat
      /\ ImpSum(up2, own \ {k}) = ImpSum(up, own \ {k}) /\ ImpSum(up, own \ {k}) \in Nat
  BY <1>6, <1>8
<1>10. /\ ImpSum(up2, all) = ImpSum(up2, all \ {k}) + size
       /\ ImpSum(up2, own) = ImpSum(up2, own \ {k}) + size
  BY <1>2, <1>3, <1>8, ImpSumAdd
<1>11. ImpSum(up, all \ {k}) <= up[k].total0 /\ ImpSum(up, own \ {k}) <= up[k].user0
  BY <1>7 DEF all, own
<1>12. ImpSum(up2, all) <= ImpTotalLimit /\ ImpSum(up2, own) <= ImpUserLimit
  BY <1>1, <1>9, <1>10, <1>11, ImpAssumption
<1>13. ImpWithin(up2)
  <2>1. ASSUME NEW u \in ImpUsers, u # u0 PROVE ImpSum(up2, ImpDiskOf(up2, u)) <= ImpUserLimit
    <3>1. ImpDiskOf(up2, u) = ImpDiskOf(up, u) /\ ImpDiskOf(up, u) \in SUBSET ImpUploads
          /\ k \notin ImpDiskOf(up, u)
      BY <1>5, <2>1
    <3>2. ImpSum(up, ImpDiskOf(up, u)) <= ImpUserLimit
      BY DEF ImpWithin
    <3> QED
      BY <1>6, <3>1, <3>2
  <2>2. ImpSum(up2, ImpDiskOf(up2, u0)) <= ImpUserLimit
    BY <1>5, <1>12 DEF own
  <2>3. ImpSum(up2, ImpDisk(up2)) <= ImpTotalLimit
    BY <1>4, <1>12 DEF all
  <2> QED
    BY <2>1, <2>2, <2>3 DEF ImpWithin
<1>14. ImpStreams(up2, lock)
  <2>1. \A j \in ImpUploads : up[j].state = "streaming" => j = k
    BY <1>7 DEF ImpStreams
  <2>2. /\ ImpSum(up2, ImpDiskOf(up2, up2[k].user) \ {k}) <= up2[k].user0
        /\ ImpSum(up2, ImpDisk(up2) \ {k}) <= up2[k].total0
    BY <1>2, <1>4, <1>5, <1>9, <1>11 DEF all, own
  <2>3. "streaming" \notin {None, "waiting"}
    BY ImpNoneAssumption
  <2>4. ASSUME NEW j \in ImpUploads, j # k
        PROVE  /\ up2[j].state \in {None, "waiting"} => up2[j].size = 0
               /\ up2[j].state = "waiting" => up2[j].user \in ImpUsers
               /\ up2[j].state # "streaming"
    BY <1>2, <2>1, <2>4 DEF ImpStreams
  <2>5. /\ up2[k].state \notin {None, "waiting"} /\ up2[k].user \in ImpUsers /\ lock = k
    BY <1>2, <1>7, <2>3
  <2> QED
    BY <2>2, <2>4, <2>5 DEF ImpStreams
<1> QED
  BY <1>2, <1>13, <1>14 DEF up2

LEMMA ImpChunks ==
    ASSUME ImpUploadsStrong, NEW k \in ImpUploads, Chunk(k)
    PROVE  ImpUploadsStrong'
<1> DEFINE size == impUpload[k].size + 1
           fits == /\ size <= ImpMaxSize /\ impUpload[k].user0 + size <= ImpUserLimit
                   /\ impUpload[k].total0 + size <= ImpTotalLimit
<1>1. CASE fits
  <2>1. /\ impUpload' = [impUpload EXCEPT ![k].size = size] /\ impLock' = impLock
        /\ impUpload[k].state = "streaming"
    BY <1>1 DEF Chunk
  <2> HIDE DEF size
  <2>2. LET up2 == [impUpload EXCEPT ![k].size = size]
        IN  up2 \in [ImpUploads -> ImpUploadRecord] /\ ImpStreams(up2, impLock) /\ ImpWithin(up2)
    BY <1>1, <2>1, ImpGrows DEF size, ImpUploadsStrong
  <2> QED
    BY <2>1, <2>2 DEF ImpUploadsStrong
<1>2. CASE ~fits
  <2>1. /\ impUpload' = [impUpload EXCEPT ![k].state = "gone"] /\ impLock' = None
        /\ impUpload[k].state = "streaming"
    BY <1>2 DEF Chunk
  <2> QED
    BY <2>1, ImpLeaves
<1> QED
  BY <1>1, <1>2

\* The one that gets the lock counts what the sweep has kept, and has nothing
\* on disk yet.
LEMMA ImpSweeps ==
    ASSUME ImpUploadsStrong, ImpTrees \subseteq ImpUploads,
           NEW k \in ImpUploads, LockAndSweep(k)
    PROVE  ImpUploadsStrong'
<1> DEFINE expired == {j \in ImpUploads : ImpOnDisk(j) /\ impUpload[j].old}
           kept == {j \in ImpUploads : ImpOnDisk(j)} \ expired
           u0 == impUpload[k].user
           own == kept \cap ImpUploadsOf(u0)
           user0 == ImpBytes(own)
           total0 == ImpBytes(kept) + ImpBytes(ImpTrees)
           r == [impUpload[k] EXCEPT !.state = "streaming", !.user0 = user0, !.total0 = total0]
           gone(j) == [impUpload[j] EXCEPT !.state = "gone"]
<1>1. /\ impUpload[k].state = "waiting" /\ impLock = None /\ impLock' = k
      /\ impUpload' = [j \in ImpUploads |-> IF j \in expired THEN gone(j)
                                            ELSE IF j = k THEN r ELSE impUpload[j]]
  BY DEF LockAndSweep, UploadLockFree
<1>2. /\ impUpload \in [ImpUploads -> ImpUploadRecord] /\ ImpSized(impUpload)
      /\ u0 \in ImpUsers /\ impUpload[k].size = 0
      /\ ImpStreams(impUpload, impLock) /\ ImpWithin(impUpload)
  BY <1>1, ImpShapesSized DEF ImpUploadsStrong, ImpStreams
<1>3. \A j \in ImpUploads : impUpload[j].state # "streaming"
  <2>1. None \notin ImpUploads
    BY ImpNoneAssumption DEF ImpUploads
  <2> QED
    BY <1>1, <1>2, <2>1 DEF ImpStreams
<1>4. /\ k \notin expired /\ kept \in SUBSET ImpUploads /\ k \notin kept /\ own \in SUBSET kept
      /\ kept = {j \in ImpDisk(impUpload) : ~impUpload[j].old}
      /\ own = {j \in kept : impUpload[j].user = u0}
  <2>1. "waiting" \notin {"streaming", "ready", "stranded"}
    OBVIOUS
  <2> QED
    BY <1>1, <2>1 DEF ImpOnDisk, ImpDisk, ImpUploadsOf
<1>5. \A S \in SUBSET ImpUploads : ImpBytes(S) = ImpSum(impUpload, S) /\ ImpSum(impUpload, S) \in Nat
  <2> SUFFICES ASSUME NEW S \in SUBSET ImpUploads
               PROVE  ImpBytes(S) = ImpSum(impUpload, S) /\ ImpSum(impUpload, S) \in Nat
    OBVIOUS
  <2>1. PICK F \in [SUBSET ImpUploads -> Nat] : \A R \in SUBSET ImpUploads : ImpSum(impUpload, R) = F[R]
    BY <1>2, ImpSumIs
  <2> QED
    BY <2>1, ImpBytesAreSum
<1>6. /\ user0 \in Nat /\ ImpSum(impUpload, own) = user0
      /\ total0 \in Nat /\ ImpSum(impUpload, kept) <= total0
  <2>1. /\ user0 = ImpSum(impUpload, own) /\ user0 \in Nat
        /\ ImpBytes(kept) = ImpSum(impUpload, kept) /\ ImpSum(impUpload, kept) \in Nat
        /\ ImpBytes(ImpTrees) \in Nat
    BY <1>4, <1>5
  <2> DEFINE a == ImpBytes(kept)
             b == ImpBytes(ImpTrees)
  <2>2. a \in Nat /\ b \in Nat /\ total0 = a + b /\ ImpSum(impUpload, kept) = a
    BY <2>1
  <2> HIDE DEF a, b, total0, user0, kept, own
  <2> QED
    BY <2>1, <2>2
<1>7. /\ r \in ImpUploadRecord /\ r.size = 0 /\ r.state = "streaming" /\ r.user = u0
      /\ r.user0 = user0 /\ r.total0 = total0
  <2> HIDE DEF user0, total0
  <2> QED
    BY <1>2, <1>6 DEF ImpUploadRecord
<1>8. \A j \in ImpUploads : /\ gone(j) \in ImpUploadRecord /\ gone(j).state = "gone"
  BY <1>2 DEF ImpUploadRecord
<1> DEFINE up2 == [j \in ImpUploads |-> IF j \in expired THEN gone(j)
                                        ELSE IF j = k THEN r ELSE impUpload[j]]
<1>9. /\ \A j \in expired : j \in ImpUploads
      /\ \A j \in ImpUploads \ expired : j \in ImpDisk(impUpload) <=> j \in kept
  BY DEF ImpOnDisk, ImpDisk
<1> HIDE DEF expired, kept, own, user0, total0, r, gone
<1>10. /\ up2 \in [ImpUploads -> ImpUploadRecord] /\ up2[k] = r
       /\ \A j \in expired : up2[j].state = "gone"
       /\ \A j \in ImpUploads \ (expired \cup {k}) : up2[j] = impUpload[j]
  BY <1>2, <1>4, <1>7, <1>8, <1>9
<1> HIDE DEF up2
<1>11. ImpDisk(up2) = kept \cup {k}
  <2>1. k \in ImpDisk(up2)
    BY <1>7, <1>10 DEF ImpDisk
  <2>2. \A j \in expired : j \notin ImpDisk(up2) /\ j \notin kept
    BY <1>10 DEF ImpDisk, kept
  <2>3. \A j \in ImpUploads \ (expired \cup {k}) : j \in ImpDisk(up2) <=> j \in kept
    BY <1>9, <1>10 DEF ImpDisk
  <2>4. ImpDisk(up2) \subseteq ImpUploads /\ kept \subseteq ImpUploads
    BY <1>4 DEF ImpDisk
  <2> QED
    BY <1>4, <2>1, <2>2, <2>3, <2>4
<1>12. \A j \in kept : j \in ImpUploads /\ j # k /\ up2[j] = impUpload[j]
  BY <1>4, <1>10 DEF kept
<1>13. ImpSized(up2)
  BY <1>10, ImpShapesSized
<1>14. ASSUME NEW S \in SUBSET kept
       PROVE  ImpSum(up2, S) = ImpSum(impUpload, S) /\ ImpSum(impUpload, S) \in Nat
  <2>1. S \in SUBSET ImpUploads
    BY <1>4
  <2>2. \A j \in S : impUpload[j].size <= up2[j].size /\ up2[j].size <= impUpload[j].size
    BY <1>2, <1>12 DEF ImpSized
  <2>3. ImpSum(impUpload, S) \in Nat /\ ImpSum(up2, S) \in Nat
        /\ ImpSum(impUpload, S) <= ImpSum(up2, S)
    BY <1>2, <1>13, <2>1, <2>2, ImpSumLess
  <2>4. ImpSum(up2, S) <= ImpSum(impUpload, S)
    BY <1>2, <1>13, <2>1, <2>2, ImpSumLess
  <2> QED
    BY <2>3, <2>4
<1>15. ASSUME NEW S \in SUBSET kept
       PROVE  ImpSum(up2, S \cup {k}) = ImpSum(impUpload, S)
  <2> DEFINE R == S \cup {k}
  <2>1. R \in SUBSET ImpUploads /\ k \in R /\ R \ {k} = S
    BY <1>4
  <2> HIDE DEF R
  <2>2. ImpSum(up2, R) = ImpSum(up2, S) + up2[k].size
    BY <1>13, <2>1, ImpSumAdd
  <2>3. up2[k].size = 0 /\ ImpSum(up2, S) = ImpSum(impUpload, S) /\ ImpSum(impUpload, S) \in Nat
    BY <1>7, <1>10, <1>14
  <2> QED
    BY <2>2, <2>3 DEF R
<1>16. ASSUME NEW u
       PROVE  ImpDiskOf(up2, u) = {j \in kept : impUpload[j].user = u}
                                  \cup (IF u = u0 THEN {k} ELSE {})
  <2>1. up2[k].user = u0
    BY <1>7, <1>10
  <2> HIDE DEF u0
  <2> QED
    BY <1>11, <1>12, <2>1 DEF ImpDiskOf
<1>17. ImpWithin(up2)
  <2>1. /\ ImpDisk(impUpload) \in SUBSET ImpUploads /\ kept \subseteq ImpDisk(impUpload)
        /\ \A j \in ImpUploads : impUpload[j].size <= impUpload[j].size
    BY <1>2, <1>4 DEF ImpDisk, ImpSized
  <2>2. ImpSum(up2, ImpDisk(up2)) <= ImpTotalLimit
    <3>1. ImpSum(up2, ImpDisk(up2)) = ImpSum(impUpload, kept)
      BY <1>11, <1>15
    <3>2. /\ ImpSum(impUpload, kept) \in Nat /\ ImpSum(impUpload, ImpDisk(impUpload)) \in Nat
          /\ ImpSum(impUpload, kept) <= ImpSum(impUpload, ImpDisk(impUpload))
      BY <1>2, <1>4, <2>1, ImpSumLess
    <3>3. ImpSum(impUpload, ImpDisk(impUpload)) <= ImpTotalLimit
      BY <1>2 DEF ImpWithin
    <3> QED
      BY <3>1, <3>2, <3>3, ImpAssumption
  <2>3. ASSUME NEW u \in ImpUsers PROVE ImpSum(up2, ImpDiskOf(up2, u)) <= ImpUserLimit
    <3> DEFINE S == {j \in kept : impUpload[j].user = u}
    <3>1. /\ S \in SUBSET kept /\ S \in SUBSET ImpUploads /\ S \subseteq ImpDiskOf(impUpload, u)
          /\ ImpDiskOf(impUpload, u) \in SUBSET ImpUploads
      BY <1>4, <2>1 DEF ImpDiskOf
    <3>2. ImpDiskOf(up2, u) = S \cup (IF u = u0 THEN {k} ELSE {})
      BY <1>16
    <3> HIDE DEF S, u0
    <3>3. ImpSum(up2, ImpDiskOf(up2, u)) = ImpSum(impUpload, S)
      <4>1. CASE u = u0
        <5>1. ImpDiskOf(up2, u) = S \cup {k}
          BY <3>2, <4>1
        <5> QED
          BY <1>15, <3>1, <5>1
      <4>2. CASE u # u0
        <5>1. ImpDiskOf(up2, u) = S
          BY <3>2, <4>2
        <5> QED
          BY <1>14, <3>1, <5>1
      <4> QED
        BY <4>1, <4>2
    <3> DEFINE D == ImpDiskOf(impUpload, u)
    <3>4. S \in SUBSET ImpUploads /\ D \in SUBSET ImpUploads /\ S \subseteq D
          /\ \A j \in S : impUpload[j].size <= impUpload[j].size
      BY <2>1, <3>1
    <3>5. ImpSum(impUpload, D) <= ImpUserLimit
      BY <1>2 DEF ImpWithin
    <3> HIDE DEF D
    <3>6. /\ ImpSum(impUpload, S) \in Nat /\ ImpSum(impUpload, D) \in Nat
          /\ ImpSum(impUpload, S) <= ImpSum(impUpload, D)
      BY <1>2, <3>4, ImpSumLess
    <3> QED
      BY <3>3, <3>5, <3>6, ImpAssumption
  <2> QED
    BY <2>2, <2>3 DEF ImpWithin
<1>18. ImpStreams(up2, k)
  <2>1. "streaming" \notin {None, "waiting"} /\ "gone" \notin {None, "waiting", "streaming"}
    BY ImpNoneAssumption
  <2>2. ASSUME NEW j \in ImpUploads, j # k
        PROVE  /\ up2[j].state \in {None, "waiting"} => up2[j].size = 0
               /\ up2[j].state = "waiting" => up2[j].user \in ImpUsers
               /\ up2[j].state # "streaming"
    <3>1. CASE j \in expired
      BY <1>10, <2>1, <3>1
    <3>2. CASE j \notin expired
      <4>1. up2[j] = impUpload[j]
        BY <1>10, <2>2, <3>2
      <4> QED
        BY <1>2, <1>3, <4>1 DEF ImpStreams
    <3> QED
      BY <3>1, <3>2
  <2>3. /\ up2[k].state \notin {None, "waiting"} /\ up2[k].user = u0 /\ u0 \in ImpUsers
        /\ up2[k].user0 = user0 /\ up2[k].total0 = total0
    BY <1>2, <1>7, <1>10, <2>1
  <2>4. ImpDisk(up2) \ {k} = kept
    BY <1>4, <1>11
  <2>5. ImpDiskOf(up2, u0) \ {k} = own
    <3>1. ImpDiskOf(up2, u0) = own \cup {k}
      BY <1>4, <1>16
    <3>2. k \notin own
      BY <1>4
    <3> QED
      BY <3>1, <3>2
  <2>6. ImpSum(up2, own) = user0 /\ ImpSum(up2, kept) <= total0
    <3>1. own \in SUBSET kept /\ kept \in SUBSET kept
      BY <1>4
    <3> QED
      BY <1>6, <1>14, <3>1
  <2>7. ImpSum(up2, own) <= user0
    BY <1>6, <2>6
  <2> QED
    BY <2>2, <2>3, <2>4, <2>5, <2>6, <2>7 DEF ImpStreams
<1> QED
  BY <1>1, <1>10, <1>17, <1>18 DEF up2, ImpUploadsStrong

\* The part that is about imports.
ImpTasksStrong ==
    /\ impTask \in [ImpImports -> ImpTaskRecord]
    /\ impOps \in [ImpImports -> {None, "running", "succeeded", "failed"}]
    /\ impSwept \subseteq ImpImports /\ ImpTasksSound /\ ImportsWhole

\* One import takes a step: what it had unpacked it has still, or not at all.
LEMMA ImpOneTask ==
    ASSUME ImpTasksStrong, NEW i \in ImpImports, NEW t \in ImpTaskRecord,
           NEW op \in {"running", "succeeded", "failed"},
           impTask' = [impTask EXCEPT ![i] = t], impOps' = [impOps EXCEPT ![i] = op] \/ impOps' = impOps,
           impOps' = impOps => impOps[i] # None, impSwept' = impSwept,
           i \in impSwept => t.upload = impTask[i].upload,
           t.pc # "off" => t.upload \in ImpUploads, t.tree # None => t.pc # "off",
           t.pc = "mirror" => t.tree # None, t.tree = "holed" => i \in impSwept,
           \/ impSite' = impSite
           \/ impSite'.upload = t.upload /\ (impSite'.whole \/ i \in impSwept)
    PROVE  ImpTasksStrong'
<1>1. /\ impTask' \in [ImpImports -> ImpTaskRecord] /\ impTask'[i] = t
      /\ \A j \in ImpImports : j # i => impTask'[j] = impTask[j]
  BY DEF ImpTasksStrong
<1>2. None \notin {"running", "succeeded", "failed"}
  BY ImpNoneAssumption
<1>3. /\ impOps' \in [ImpImports -> {None, "running", "succeeded", "failed"}] /\ impOps'[i] # None
      /\ \A j \in ImpImports : j # i => impOps'[j] = impOps[j]
  BY <1>2 DEF ImpTasksStrong
<1>4. \A j \in impSwept : j \in ImpImports /\ impTask'[j].upload = impTask[j].upload
  BY <1>1 DEF ImpTasksStrong
<1>5. ImportsWhole'
  BY <1>1, <1>4 DEF ImpTasksStrong, ImportsWhole
<1>6. ImpTasksSound'
  BY <1>1, <1>3 DEF ImpTasksStrong, ImpTasksSound
<1> QED
  BY <1>1, <1>3, <1>5, <1>6 DEF ImpTasksStrong

LEMMA ImpTasksSweep ==
    ASSUME ImpTasksStrong, NEW k \in ImpUploads, LockAndSweep(k)
    PROVE  ImpTasksStrong'
<1>1. PICK hit \in SUBSET {i \in ImpImports : impTask[i].tree = "whole"} :
         /\ impTask' = [i \in ImpImports |-> IF i \in hit
                          THEN [impTask[i] EXCEPT !.tree = "holed"] ELSE impTask[i]]
         /\ impSwept' = impSwept \cup hit
  BY DEF LockAndSweep
<1>2. impOps' = impOps /\ impSite' = impSite
  BY DEF LockAndSweep
<1>3. None \notin {"whole", "holed"}
  BY ImpNoneAssumption
<1>4. ASSUME NEW i \in ImpImports
      PROVE  /\ impTask'[i] \in ImpTaskRecord /\ impTask'[i].upload = impTask[i].upload
             /\ impTask'[i].pc = impTask[i].pc
             /\ impTask'[i].tree # None <=> impTask[i].tree # None
             /\ i \in hit => impTask[i].tree # None
             /\ impTask'[i].tree = "holed" => i \in hit \/ impTask[i].tree = "holed"
  <2>1. impTask[i] \in ImpTaskRecord
    BY DEF ImpTasksStrong
  <2>2. CASE i \in hit
    <3>1. impTask'[i] = [impTask[i] EXCEPT !.tree = "holed"] /\ impTask[i].tree = "whole"
      BY <1>1, <2>2
    <3> QED
      BY <1>3, <2>1, <2>2, <3>1 DEF ImpTaskRecord
  <2>3. CASE i \notin hit
    <3>1. impTask'[i] = impTask[i]
      BY <1>1, <2>3
    <3> QED
      BY <2>1, <2>3, <3>1
  <2> QED
    BY <2>2, <2>3
<1>5. impTask' \in [ImpImports -> ImpTaskRecord]
  <2>1. impTask' = [i \in ImpImports |-> impTask'[i]]
    BY <1>1
  <2> QED
    BY <1>4, <2>1
<1>6. impSwept' \subseteq ImpImports
  BY <1>1 DEF ImpTasksStrong
<1>7. ImpTasksSound'
  <2> SUFFICES ASSUME NEW i \in ImpImports
               PROVE  /\ impTask'[i].pc # "off" \/ impTask'[i].tree # None
                           => impTask'[i].upload \in ImpUploads
                      /\ impTask'[i].pc = "mirror" => impTask'[i].tree # None
                      /\ impTask'[i].tree = "holed" => i \in impSwept'
                      /\ impTask'[i].pc # "off" \/ i \in impSwept' => impOps'[i] # None
                      /\ impTask'[i].tree # None => impTask'[i].pc # "off"
    BY DEF ImpTasksSound
  <2>1. /\ impTask[i].pc # "off" \/ impTask[i].tree # None => impTask[i].upload \in ImpUploads
        /\ impTask[i].pc = "mirror" => impTask[i].tree # None
        /\ impTask[i].tree = "holed" => i \in impSwept
        /\ impTask[i].pc # "off" \/ i \in impSwept => impOps[i] # None
        /\ impTask[i].tree # None => impTask[i].pc # "off"
    BY DEF ImpTasksStrong, ImpTasksSound
  <2> QED
    BY <1>1, <1>2, <1>4, <2>1
<1>8. ImportsWhole'
  <2>1. \A i \in impSwept : i \in impSwept' /\ impTask'[i].upload = impTask[i].upload
    BY <1>1, <1>4 DEF ImpTasksStrong
  <2> QED
    BY <1>2, <2>1 DEF ImpTasksStrong, ImportsWhole
<1> QED
  BY <1>2, <1>5, <1>6, <1>7, <1>8 DEF ImpTasksStrong

LEMMA ImpTasksStart ==
    ASSUME ImpTasksStrong, NEW i \in ImpImports, NEW k \in ImpUploads, StartImport(i, k)
    PROVE  ImpTasksStrong'
<1> DEFINE t == [upload |-> k, pc |-> "extract", tree |-> None]
<1>1. t \in ImpTaskRecord /\ t.pc = "extract" /\ t.tree = None /\ t.upload \in ImpUploads
  BY ImpAssumption DEF ImpTaskRecord, ImpUploads
<1>2. /\ impTask' = [impTask EXCEPT ![i] = t] /\ impOps' = [impOps EXCEPT ![i] = "running"]
      /\ impSwept' = impSwept /\ impSite' = impSite
  BY DEF StartImport
<1>3. i \notin impSwept
  BY DEF StartImport, ImpTasksStrong, ImpTasksSound
<1>4. "holed" # None /\ impOps'[i] # None
  BY <1>2, ImpNoneAssumption DEF ImpTasksStrong
<1>5. impOps' = impOps => impOps[i] # None
  BY <1>4
<1> HIDE DEF t
<1> QED
  BY <1>1, <1>2, <1>3, <1>4, <1>5, ImpOneTask

LEMMA ImpTasksRun ==
    ASSUME ImpTasksStrong, NEW i \in ImpImports, Extract(i) \/ MirrorTree(i)
    PROVE  ImpTasksStrong'
<1>1. impTask[i] \in ImpTaskRecord /\ "whole" # None /\ "holed" # None /\ "whole" # "holed"
  BY ImpNoneAssumption DEF ImpTasksStrong
<1>2. CASE Extract(i)
  <2> DEFINE t == [impTask[i] EXCEPT !.tree = "whole", !.pc = "mirror"]
  <2>1. t \in ImpTaskRecord /\ t.pc = "mirror" /\ t.tree = "whole" /\ t.upload = impTask[i].upload
    BY <1>1 DEF ImpTaskRecord
  <2>2. /\ impTask' = [impTask EXCEPT ![i] = t] /\ impOps' = impOps /\ impSwept' = impSwept
        /\ impSite' = impSite /\ impTask[i].pc = "extract"
    BY <1>2 DEF Extract, ImpTasksStrong
  <2>3. impOps[i] # None /\ impTask[i].upload \in ImpUploads
    BY <2>2 DEF ImpTasksStrong, ImpTasksSound
  <2> HIDE DEF t
  <2> QED
    BY <1>1, <2>1, <2>2, <2>3, ImpOneTask
<1>3. CASE MirrorTree(i)
  <2> DEFINE t == [impTask[i] EXCEPT !.tree = None, !.pc = "finalize"]
  <2>1. t \in ImpTaskRecord /\ t.pc = "finalize" /\ t.tree = None /\ t.upload = impTask[i].upload
    BY <1>1 DEF ImpTaskRecord
  <2>2. /\ impTask' = [impTask EXCEPT ![i] = t] /\ impOps' = impOps /\ impSwept' = impSwept
        /\ impSite' = [upload |-> impTask[i].upload, whole |-> impTask[i].tree = "whole"]
        /\ impTask[i].pc = "mirror"
    BY <1>3 DEF MirrorTree, ImpTasksStrong
  <2>3. /\ impOps[i] # None /\ impTask[i].upload \in ImpUploads /\ impTask[i].tree # None
        /\ impTask[i].tree = "holed" => i \in impSwept
    BY <2>2 DEF ImpTasksStrong, ImpTasksSound
  <2>4. impSite'.upload = t.upload
    BY <2>1, <2>2
  <2>5. impSite'.whole \/ i \in impSwept
    <3>1. impTask[i].tree \in {"whole", "holed"}
      BY <1>1, <2>3 DEF ImpTaskRecord
    <3>2. impSite'.whole <=> impTask[i].tree = "whole"
      BY <2>2
    <3> QED
      BY <2>3, <3>1, <3>2
  <2> HIDE DEF t
  <2> QED
    BY <1>1, <2>1, <2>2, <2>3, <2>4, <2>5, ImpOneTask
<1> QED
  BY <1>2, <1>3

LEMMA ImpTasksEnd ==
    ASSUME ImpTasksStrong, NEW i \in ImpImports, NEW status \in {"succeeded", "failed"},
           EndImport(i, status)
    PROVE  ImpTasksStrong'
<1> DEFINE t == [impTask[i] EXCEPT !.pc = "off", !.tree = None]
<1>1. t \in ImpTaskRecord /\ t.pc = "off" /\ t.tree = None /\ t.upload = impTask[i].upload
  BY DEF ImpTasksStrong, ImpTaskRecord
<1>2. /\ impTask' = [impTask EXCEPT ![i] = t] /\ impOps' = [impOps EXCEPT ![i] = status]
      /\ impSwept' = impSwept /\ impSite' = impSite
  BY DEF EndImport, ImpTasksStrong
<1>3. "holed" # None /\ impOps'[i] # None
  BY <1>2, ImpNoneAssumption DEF ImpTasksStrong
<1>4. impOps' = impOps => impOps[i] # None
  BY <1>3
<1> HIDE DEF t
<1> QED
  BY <1>1, <1>2, <1>3, <1>4, ImpOneTask

LEMMA ImpTasksRestart ==
    ASSUME ImpTasksStrong, ImpRestart
    PROVE  ImpTasksStrong'
<1>1. /\ impTask' = [i \in ImpImports |-> [impTask[i] EXCEPT !.pc = "off", !.tree = None]]
      /\ impOps' = [i \in ImpImports |-> IF impOps[i] = "running" THEN "failed" ELSE impOps[i]]
      /\ impSite' = impSite /\ impSwept' = impSwept
  BY DEF ImpRestart
<1>2. None \notin {"running", "failed", "holed"}
  BY ImpNoneAssumption
<1>3. ASSUME NEW i \in ImpImports
      PROVE  /\ impTask'[i] \in ImpTaskRecord /\ impTask'[i].upload = impTask[i].upload
             /\ impTask'[i].pc = "off" /\ impTask'[i].tree = None
             /\ impOps'[i] = None => impOps[i] = None
             /\ impOps'[i] \in {None, "running", "succeeded", "failed"}
  BY <1>1, <1>2 DEF ImpTasksStrong, ImpTaskRecord
<1>4. /\ impTask' \in [ImpImports -> ImpTaskRecord]
      /\ impOps' \in [ImpImports -> {None, "running", "succeeded", "failed"}]
  <2>1. impTask' = [i \in ImpImports |-> impTask'[i]] /\ impOps' = [i \in ImpImports |-> impOps'[i]]
    BY <1>1
  <2> QED
    BY <1>3, <2>1
<1>5. ImpTasksSound'
  <2>1. \A i \in ImpImports : i \in impSwept' => impOps'[i] # None
    BY <1>1, <1>3 DEF ImpTasksStrong, ImpTasksSound
  <2>2. \A i \in ImpImports : /\ impTask'[i].pc = "off" /\ impTask'[i].tree = None
                              /\ impTask'[i].pc # "mirror" /\ impTask'[i].tree # "holed"
    BY <1>2, <1>3
  <2> QED
    BY <2>1, <2>2 DEF ImpTasksSound
<1>6. ImportsWhole'
  <2>1. \A i \in impSwept : i \in ImpImports
    BY DEF ImpTasksStrong
  <2> QED
    BY <1>1, <1>3, <2>1 DEF ImpTasksStrong, ImportsWhole
<1> QED
  BY <1>1, <1>4, <1>5, <1>6 DEF ImpTasksStrong

\* Trees are of uploads.
LEMMA ImpTreesAreUploads == ImpTasksStrong => ImpTrees \subseteq ImpUploads
  BY DEF ImpTasksStrong, ImpTasksSound, ImpTrees

\* One step per action, for either part.
LEMMA ImpNextStrong == ImpStrong /\ [ImpNext]_impVars => ImpStrong'
<1> SUFFICES ASSUME ImpStrong, [ImpNext]_impVars PROVE ImpStrong'
  OBVIOUS
<1>1. ImpUploadsStrong /\ ImpTasksStrong
  BY DEF ImpStrong, ImpUploadsStrong, ImpTasksStrong, ImpShapes
<1>2. ASSUME UNCHANGED <<impUpload, impLock>> PROVE ImpUploadsStrong'
  BY <1>1, <1>2 DEF ImpUploadsStrong
<1>3. ASSUME UNCHANGED <<impTask, impSite, impOps, impSwept>> PROVE ImpTasksStrong'
  BY <1>1, <1>3 DEF ImpTasksStrong, ImpTasksSound, ImportsWhole
<1>4. ASSUME NEW k \in ImpUploads, NEW u \in ImpUsers, BeginUpload(k, u)
      PROVE  ImpUploadsStrong' /\ ImpTasksStrong'
  <2>1. UNCHANGED <<impTask, impSite, impOps, impSwept>>
    BY <1>4 DEF BeginUpload
  <2> QED
    BY <1>1, <1>3, <1>4, <2>1, ImpBegins
<1>5. ASSUME NEW k \in ImpUploads, LockAndSweep(k) PROVE ImpUploadsStrong' /\ ImpTasksStrong'
  BY <1>1, <1>5, ImpSweeps, ImpTreesAreUploads, ImpTasksSweep
<1>6. ASSUME NEW k \in ImpUploads, Chunk(k) PROVE ImpUploadsStrong' /\ ImpTasksStrong'
  <2>1. UNCHANGED <<impTask, impSite, impOps, impSwept>>
    BY <1>6 DEF Chunk
  <2> QED
    BY <1>1, <1>3, <1>6, <2>1, ImpChunks
<1>7. ASSUME NEW k \in ImpUploads, EndUpload(k) PROVE ImpUploadsStrong' /\ ImpTasksStrong'
  <2>1. UNCHANGED <<impTask, impSite, impOps, impSwept>>
    BY <1>7 DEF EndUpload
  <2>2. PICK s \in {"ready", "gone"} : impUpload' = [impUpload EXCEPT ![k].state = s]
    BY <1>7 DEF EndUpload
  <2>3. impUpload[k].state = "streaming" /\ impLock' = None
    BY <1>7 DEF EndUpload
  <2> QED
    BY <1>1, <1>3, <2>1, <2>2, <2>3, ImpLeaves
<1>8. ASSUME NEW k \in ImpUploads, BreakUpload(k) PROVE ImpUploadsStrong' /\ ImpTasksStrong'
  <2>1. UNCHANGED <<impTask, impSite, impOps, impSwept>>
    BY <1>8 DEF BreakUpload
  <2>2. /\ impUpload' = [impUpload EXCEPT ![k].state = "gone"]
        /\ impLock' = IF impLock = k THEN None ELSE impLock
    BY <1>8 DEF BreakUpload
  <2> QED
    BY <1>1, <1>3, <2>1, <2>2, ImpLeaves
<1>9. ASSUME NEW k \in ImpUploads, ExpireUpload(k) PROVE ImpUploadsStrong' /\ ImpTasksStrong'
  <2>1. UNCHANGED <<impTask, impSite, impOps, impSwept>>
    BY <1>9 DEF ExpireUpload
  <2> QED
    BY <1>1, <1>3, <1>9, <2>1, ImpExpires
<1>10. ASSUME NEW k \in ImpUploads, NEW i \in ImpImports, StartImport(i, k)
       PROVE  ImpUploadsStrong' /\ ImpTasksStrong'
  <2>1. UNCHANGED <<impUpload, impLock>>
    BY <1>10 DEF StartImport
  <2> QED
    BY <1>1, <1>2, <1>10, <2>1, ImpTasksStart
<1>11. ASSUME NEW i \in ImpImports, Extract(i) \/ MirrorTree(i)
       PROVE  ImpUploadsStrong' /\ ImpTasksStrong'
  <2>1. UNCHANGED <<impUpload, impLock>>
    BY <1>11 DEF Extract, MirrorTree
  <2> QED
    BY <1>1, <1>2, <1>11, <2>1, ImpTasksRun
<1>12. ASSUME NEW i \in ImpImports, FinishImport(i) \/ ImportFails(i)
       PROVE  ImpUploadsStrong' /\ ImpTasksStrong'
  <2>1. PICK status \in {"succeeded", "failed"} : EndImport(i, status)
    BY <1>12 DEF FinishImport, ImportFails
  <2> DEFINE k == impTask[i].upload
  <2>2. k \in ImpUploads
    BY <1>1, <1>12 DEF FinishImport, ImportFails, ImpTasksStrong, ImpTasksSound
  <2>3. impUpload' = [impUpload EXCEPT ![k].state = "gone"] /\ impLock' = impLock
    BY <2>1 DEF EndImport
  <2> HIDE DEF k
  <2> QED
    BY <1>1, <2>1, <2>2, <2>3, ImpLeaves, ImpTasksEnd
<1>13. ASSUME ImpRestart PROVE ImpUploadsStrong' /\ ImpTasksStrong'
  BY <1>1, <1>13, ImpRestarts, ImpTasksRestart
<1>14. ImpUploadsStrong' /\ ImpTasksStrong'
  <2>1. CASE ImpNext
    BY <1>4, <1>5, <1>6, <1>7, <1>8, <1>9, <1>10, <1>11, <1>12, <1>13, <2>1 DEF ImpNext
  <2>2. CASE UNCHANGED impVars
    BY <1>2, <1>3, <2>2 DEF impVars
  <2> QED
    BY <2>1, <2>2
<1> QED
  BY <1>14 DEF ImpStrong, ImpUploadsStrong, ImpTasksStrong, ImpShapes

LEMMA ImpStrongImplies == ImpStrong => ImpTypeOK /\ ImportsSound
<1> SUFFICES ASSUME ImpStrong PROVE ImpTypeOK /\ ImportsSound
  OBVIOUS
<1>1. ImpTypeOK
  BY DEF ImpStrong, ImpShapes, ImpTypeOK, ImpUploadRecord, ImpTaskRecord
<1>2. UploadsWithinLimits
  <2>1. ImpDisk(impUpload) = {k \in ImpUploads : ImpOnDisk(k)}
    BY DEF ImpDisk, ImpOnDisk
  <2>2. \A u : ImpDiskOf(impUpload, u) = ImpUploadsOf(u)
    BY DEF ImpDiskOf, ImpUploadsOf, ImpDisk, ImpOnDisk
  <2> QED
    BY <2>1, <2>2, ImpBytesAreSum DEF ImpStrong, ImpWithin, UploadsWithinLimits
<1> QED
  BY <1>1, <1>2 DEF ImpStrong, ImportsSound

\* What is uploaded stays within the limits of each user and of the server,
\* however uploads, sweeps, imports and restarts interleave, and a site whose
\* import ends has all files of the archive unless a sweep has hit it.
THEOREM ImportsStaySound == ImpSpec => []ImportsSound
<1>1. ImpInit => ImpStrong
  BY ImpInitStrong
<1>2. ImpStrong /\ [ImpNext]_impVars => ImpStrong'
  BY ImpNextStrong
<1>3. ImpStrong => ImportsSound
  BY ImpStrongImplies
<1> QED
  BY <1>1, <1>2, <1>3, PTL DEF ImpSpec

-----------------------------------------------------------------------------
(* Pipelines of sites.                                                     *)

SiteStepNames == {"linux_user", "doc_root", "filebrowser", "database", "php_pool", "caddy",
                  "download", "configure", "remove", "finalize"}
SiteRowSet == [id : Nat, status : SiteStatuses, php : Versions, wp : BOOLEAN]
SiteRouting == [Sites -> Versions \cup {None}]
SiteConfigs == [routes : SiteRouting, before : SiteRouting]
SiteOpSet ==
    [kind : SiteKinds \ Inline, site : Sites, linked : BOOLEAN,
     status : {"pending", "running", "succeeded", "failed"}]
SiteAtWork ==
    [kind : SiteKinds, site : Sites, id : Nat, old : Versions, php : Versions, wp : BOOLEAN,
     pc : {"do", "undo", "finish"}, at : Nat, config : SiteConfigs \cup {None}]
SiteOff(kind) == [NoTask EXCEPT !.kind = kind]
SiteTasks == SiteAtWork \cup {SiteOff(kind) : kind \in SiteKinds \cup {None}}

SiteShapes ==
    /\ siteRow \in [Sites -> SiteRowSet \cup {None}]
    /\ siteHost \in [Sites -> SUBSET SiteParts] /\ sitePools \in [Sites -> SUBSET Versions]
    /\ siteCaddy \in SiteRouting
    /\ siteOps \in [SiteRequests -> SiteOpSet \cup {None}]
    /\ siteTask \in [SiteRequests -> SiteTasks]
    /\ siteWriter \in SiteRequests \cup {None}
    /\ siteFaults \in Nat /\ siteCrashes \in Nat /\ siteFaults + siteCrashes <= SiteMaxFaults
    /\ siteLeft \in [Sites -> SUBSET SiteStepNames]
    /\ siteOverlap \subseteq Sites /\ siteStale \in BOOLEAN

\* Where a task of its kind can be.
SitePlace(task) ==
    /\ task.pc = "do" => task.at \in DOMAIN SiteSteps[task.kind]
    /\ task.pc = "undo" => task.at \in Undoable(task.kind) \cup {0}
                           /\ task.kind \notin {"settings", "resync"}
    /\ task.pc = "finish" => task.kind \notin Inline
    /\ task.config # None => /\ task.pc \in {"do", "undo"} /\ task.at > 0
                             /\ SiteSteps[task.kind][task.at] = "caddy"
SitePlaces == \A i \in SiteRequests : SiteLive(i) => SitePlace(siteTask[i])

\* Identities of rows differ, and requests that are still to come suffice for
\* the next ones.
SiteIds ==
    /\ \A s, t \in Sites : siteRow[s] # None /\ siteRow[t] # None /\ siteRow[s].id = siteRow[t].id
                           => s = t
    /\ \A s \in Sites : siteRow[s] # None =>
         /\ siteRow[s].id <= SiteMaxOps + 1
         /\ \A i \in SiteRequests : siteTask[i].kind = None => siteRow[s].id <= i

SiteOpsOwned == \A i \in SiteRequests :
    /\ siteTask[i].kind = None => siteOps[i] = None
    /\ siteOps[i] # None /\ SiteLive(i) =>
         siteTask[i].site = siteOps[i].site /\ siteTask[i].kind = siteOps[i].kind

\* A switch of PHP holds the database from its configuration to its end.
SwitchWrites == \A i \in SiteRequests :
    siteTask[i].kind = "php" /\ siteTask[i].pc = "do" /\ (siteTask[i].at > 2 \/ siteTask[i].config # None)
    => siteWriter = i

\* A site that one task at a time has worked on, without a restart.
Calm(s) == s \notin siteOverlap /\ siteCrashes = 0
Creation == {"create", "clone"}
AtHand(task) == task.pc \in {"do", "undo"}

\* What a task and the row of its site know of each other.
SiteMeets(s, task) ==
    /\ AtHand(task) =>
         /\ siteRow[s] # None /\ siteRow[s].id = task.id /\ siteRow[s].php = task.old
         /\ task.kind = "php" <=> task.php # task.old
         /\ siteRow[s].status = IF task.kind \in Creation THEN "provisioning"
                                ELSE IF task.kind = "delete" THEN "deleting" ELSE "active"
    /\ task.pc = "finish" =>
         IF task.kind = "delete" THEN siteRow[s] = None
         ELSE siteRow[s] # None /\ siteRow[s].status = "active"

SiteAlone(s) ==
    /\ \A i, j \in SiteRequests : siteTask[i].site = s /\ siteTask[j].site = s => i = j
    /\ \A i \in SiteRequests :
         /\ siteTask[i].site = s => SiteMeets(s, siteTask[i])
         /\ siteRow[s] # None /\ AtHand(siteTask[i]) /\ siteTask[i].id = siteRow[s].id
              => siteTask[i].site = s
    /\ siteRow[s] # None /\ (\A i \in SiteRequests : siteTask[i].site # s)
         => siteRow[s].status \in {"active", "error"}

\* Pools that no failing command has left are as they should be.
Only(s, versions) == sitePools[s] \subseteq versions \/ {"php_pool", "remove"} \cap siteLeft[s] # {}
StepsOf(kind, n) == {SiteSteps[kind][k] : k \in {m \in DOMAIN SiteSteps[kind] : m <= n}}

\* What the steps of a task have made, or removed, so far.
SiteCreated(s, task) ==
    /\ task.kind = "clone" /\ ~task.wp /\ AtHand(task) => "database" \notin siteHost[s]
    /\ task.pc = "do" =>
         /\ siteHost[s] \subseteq siteLeft[s] \cup StepsOf(task.kind, task.at - 1)
         /\ IF task.at > 3 THEN task.php \in sitePools[s] /\ Only(s, {task.php}) ELSE Only(s, {})
    /\ task.pc = "undo" =>
         /\ siteHost[s] \subseteq siteLeft[s] \cup StepsOf(task.kind, task.at)
         /\ Only(s, IF task.at > 2 THEN {task.php} ELSE {})
SiteDeleted(s, task) ==
    task.pc = "do" =>
        /\ siteHost[s] \cap StepsOf("delete", task.at - 1) = {}
        /\ task.at > 3 => Only(s, {})
SiteSwitched(s, task) ==
    /\ task.pc = "do" =>
         /\ Only(s, IF task.at = 1 THEN {task.old} ELSE IF task.at = 4 THEN {task.php}
                    ELSE {task.old, task.php})
         /\ "remove" \notin siteLeft[s] => /\ task.at < 4 => task.old \in sitePools[s]
                                           /\ task.at > 1 => task.php \in sitePools[s]
    /\ task.pc = "undo" =>
         /\ Only(s, IF task.at = 0 THEN {task.old} ELSE {task.old, task.php})
         /\ "remove" \notin siteLeft[s] => task.old \in sitePools[s]
SiteMade(s, task) ==
    /\ task.kind \in Creation => SiteCreated(s, task)
    /\ task.kind = "delete" => SiteDeleted(s, task)
    /\ task.kind = "php" => SiteSwitched(s, task)

\* Nobody creates or switches the site, and what is there of it then.
Settled(s) == \A i \in SiteRequests : siteTask[i].site = s =>
    siteTask[i].kind # "php" /\ (siteTask[i].kind \in Creation => siteTask[i].pc = "finish")
SiteRests(s) ==
    IF siteRow[s] = None THEN siteHost[s] = {} /\ Only(s, {})
    ELSE /\ Only(s, {siteRow[s].php})
         /\ siteRow[s].status = "active" /\ "remove" \notin siteLeft[s]
              => siteRow[s].php \in sitePools[s]
SiteThere(s) ==
    /\ Settled(s) => SiteRests(s)
    /\ \A i \in SiteRequests : siteTask[i].site = s => SiteMade(s, siteTask[i])

\* Where the route of a site leads to.
SwitchedOver(i) == siteTask[i].kind = "php" /\ siteTask[i].pc = "do" /\ siteTask[i].at > 2
SiteLoaded(s, task) ==
    task.pc = "do" =>
        /\ task.kind = "php" /\ task.at > 2 => siteCaddy[s] = task.php
        /\ task.kind = "create" /\ task.at > 4 => siteCaddy[s] = task.old
        /\ task.kind = "clone" /\ task.at > 5 => siteCaddy[s] = task.old
        /\ task.kind = "delete" /\ task.at > 1 => siteCaddy[s] = None
SiteRouted(s) ==
    /\ siteRow[s] = None => siteCaddy[s] = None
    /\ ActiveSite(s) /\ "remove" \notin siteLeft[s]
       /\ (\A i \in SiteRequests : siteTask[i].site = s => ~SwitchedOver(i))
         => siteCaddy[s] = siteRow[s].php
    /\ \A i \in SiteRequests : siteTask[i].site = s => SiteLoaded(s, siteTask[i])

\* A creation that has failed left its row, and no more than its commands did.
CreationUndone(op) ==
    LET s == op.site IN
    /\ op.status \in {"succeeded", "failed"}
    /\ op.status = "failed" /\ op.kind \in Creation =>
         /\ siteRow[s] # None /\ siteRow[s].status \in {"error", "deleting"}
         /\ siteHost[s] \subseteq siteLeft[s] /\ Only(s, {})
CreationsUndone == \A i \in SiteRequests :
    siteOps[i] # None /\ siteOps[i].linked /\ ~SiteLive(i) /\ Calm(siteOps[i].site)
    => CreationUndone(siteOps[i])

SiteStrong ==
    /\ SiteShapes /\ SitePlaces /\ SiteIds /\ SiteOpsOwned /\ SwitchWrites
    /\ \A s \in Sites : Calm(s) =>
         SiteAlone(s) /\ SiteThere(s) /\ (siteStale \/ SiteRouted(s))
    /\ CreationsUndone

-----------------------------------------------------------------------------
LEMMA SiteKindsAre ==
    SiteKinds = {"create", "clone", "delete", "wordpress", "php", "settings", "resync"}
  BY DEF SiteKinds, SiteSteps

LEMMA SiteNones ==
    /\ \A row \in SiteRowSet : row # None
    /\ \A op \in SiteOpSet : op # None
    /\ \A c \in SiteConfigs : c # None
    /\ \A k \in SiteKinds : k # None
    /\ \A s \in Sites : s # None
    /\ \A v \in Versions : v # None
    /\ \A i \in SiteRequests : i # None
<1>1. \A op \in SiteOpSet : op \in [kind : SiteKinds, site : Sites, linked : BOOLEAN,
                                    status : {"pending", "running", "succeeded", "failed"}]
  BY DEF SiteOpSet
<1>2. \A i \in SiteRequests : i \in Nat
  BY SiteAssumption DEF SiteRequests
<1> QED
  BY <1>1, <1>2, SiteNoneAssumption, SiteAssumption, NoneAssumption DEF SiteRowSet, SiteConfigs, SiteRouting

LEMMA SiteStepsCreate ==
    /\ DOMAIN SiteSteps["create"] = 1 .. 6
    /\ SiteSteps["create"][1] = "linux_user" /\ SiteSteps["create"][2] = "doc_root"
    /\ SiteSteps["create"][3] = "php_pool" /\ SiteSteps["create"][4] = "caddy"
    /\ SiteSteps["create"][5] = "filebrowser" /\ SiteSteps["create"][6] = "finalize"
  BY DEF SiteSteps

LEMMA SiteStepsClone ==
    /\ DOMAIN SiteSteps["clone"] = 1 .. 7
    /\ SiteSteps["clone"][1] = "linux_user" /\ SiteSteps["clone"][2] = "doc_root"
    /\ SiteSteps["clone"][3] = "php_pool" /\ SiteSteps["clone"][4] = "database"
    /\ SiteSteps["clone"][5] = "caddy" /\ SiteSteps["clone"][6] = "filebrowser"
    /\ SiteSteps["clone"][7] = "finalize"
  BY DEF SiteSteps

LEMMA SiteStepsDelete ==
    /\ DOMAIN SiteSteps["delete"] = 1 .. 7
    /\ SiteSteps["delete"][1] = "caddy" /\ SiteSteps["delete"][2] = "filebrowser"
    /\ SiteSteps["delete"][3] = "php_pool" /\ SiteSteps["delete"][4] = "database"
    /\ SiteSteps["delete"][5] = "doc_root" /\ SiteSteps["delete"][6] = "linux_user"
    /\ SiteSteps["delete"][7] = "finalize"
  BY DEF SiteSteps

LEMMA SiteStepsWordpress ==
    /\ DOMAIN SiteSteps["wordpress"] = 1 .. 4
    /\ SiteSteps["wordpress"][1] = "database" /\ SiteSteps["wordpress"][2] = "download"
    /\ SiteSteps["wordpress"][3] = "configure" /\ SiteSteps["wordpress"][4] = "finalize"
  BY DEF SiteSteps

LEMMA SiteStepsPhp ==
    /\ DOMAIN SiteSteps["php"] = 1 .. 4
    /\ SiteSteps["php"][1] = "php_pool" /\ SiteSteps["php"][2] = "caddy"
    /\ SiteSteps["php"][3] = "remove" /\ SiteSteps["php"][4] = "finalize"
  BY DEF SiteSteps

LEMMA SiteStepsShort ==
    /\ DOMAIN SiteSteps["settings"] = 1 .. 2 /\ DOMAIN SiteSteps["resync"] = 1 .. 2
    /\ SiteSteps["settings"][1] = "php_pool" /\ SiteSteps["settings"][2] = "finalize"
    /\ SiteSteps["resync"][1] = "caddy" /\ SiteSteps["resync"][2] = "finalize"
  BY DEF SiteSteps

\* Every step has a name, and the last one of a kind is its only "finalize".
LEMMA SiteStepNamed ==
    ASSUME NEW kind \in SiteKinds, NEW at \in DOMAIN SiteSteps[kind]
    PROVE  /\ SiteSteps[kind][at] \in SiteStepNames /\ at \in Nat /\ at > 0
           /\ 1 \in DOMAIN SiteSteps[kind]
           /\ SiteSteps[kind][at] # "finalize" => at + 1 \in DOMAIN SiteSteps[kind]
<1>1. CASE kind = "create"
  BY <1>1, SiteStepsCreate DEF SiteStepNames
<1>2. CASE kind = "clone"
  BY <1>2, SiteStepsClone DEF SiteStepNames
<1>3. CASE kind = "delete"
  BY <1>3, SiteStepsDelete DEF SiteStepNames
<1>4. CASE kind = "wordpress"
  BY <1>4, SiteStepsWordpress DEF SiteStepNames
<1>5. CASE kind = "php"
  BY <1>5, SiteStepsPhp DEF SiteStepNames
<1>6. CASE kind \in {"settings", "resync"}
  BY <1>6, SiteStepsShort DEF SiteStepNames
<1> QED
  BY <1>1, <1>2, <1>3, <1>4, <1>5, <1>6, SiteKindsAre

\* Which step is where.
StepIs(kind, at, step) ==
    /\ kind = "create" =>
            (at = 1 /\ step = "linux_user") \/ (at = 2 /\ step = "doc_root")
            \/ (at = 3 /\ step = "php_pool") \/ (at = 4 /\ step = "caddy")
            \/ (at = 5 /\ step = "filebrowser") \/ (at = 6 /\ step = "finalize")
    /\ kind = "clone" =>
            (at = 1 /\ step = "linux_user") \/ (at = 2 /\ step = "doc_root")
            \/ (at = 3 /\ step = "php_pool") \/ (at = 4 /\ step = "database")
            \/ (at = 5 /\ step = "caddy") \/ (at = 6 /\ step = "filebrowser")
            \/ (at = 7 /\ step = "finalize")
    /\ kind = "delete" =>
            (at = 1 /\ step = "caddy") \/ (at = 2 /\ step = "filebrowser")
            \/ (at = 3 /\ step = "php_pool") \/ (at = 4 /\ step = "database")
            \/ (at = 5 /\ step = "doc_root") \/ (at = 6 /\ step = "linux_user")
            \/ (at = 7 /\ step = "finalize")
    /\ kind = "wordpress" =>
            (at = 1 /\ step = "database") \/ (at = 2 /\ step = "download")
            \/ (at = 3 /\ step = "configure") \/ (at = 4 /\ step = "finalize")
    /\ kind = "php" =>
            (at = 1 /\ step = "php_pool") \/ (at = 2 /\ step = "caddy")
            \/ (at = 3 /\ step = "remove") \/ (at = 4 /\ step = "finalize")
    /\ kind = "settings" =>
            (at = 1 /\ step = "php_pool") \/ (at = 2 /\ step = "finalize")
    /\ kind = "resync" =>
            (at = 1 /\ step = "caddy") \/ (at = 2 /\ step = "finalize")

LEMMA SiteStepAt ==
    ASSUME NEW kind \in SiteKinds, NEW at \in DOMAIN SiteSteps[kind]
    PROVE  StepIs(kind, at, SiteSteps[kind][at])
<1>1. CASE kind = "create"
  BY <1>1, SiteStepsCreate DEF StepIs
<1>2. CASE kind = "clone"
  BY <1>2, SiteStepsClone DEF StepIs
<1>3. CASE kind = "delete"
  BY <1>3, SiteStepsDelete DEF StepIs
<1>4. CASE kind = "wordpress"
  BY <1>4, SiteStepsWordpress DEF StepIs
<1>5. CASE kind = "php"
  BY <1>5, SiteStepsPhp DEF StepIs
<1>6. CASE kind = "settings"
  BY <1>6, SiteStepsShort DEF StepIs
<1>7. CASE kind = "resync"
  BY <1>7, SiteStepsShort DEF StepIs
<1> QED
  BY <1>1, <1>2, <1>3, <1>4, <1>5, <1>6, <1>7, SiteKindsAre

\* What there is to undo, one by one.
LEMMA UndoableAre ==
    /\ Undoable("create") = 1 .. 5 /\ Undoable("clone") = 1 .. 6
    /\ Undoable("wordpress") = {1, 2} /\ Undoable("php") = {1}
    /\ \A kind \in SiteKinds \ {"create", "clone", "wordpress", "php"} : Undoable(kind) = {}
<1>1. Undoable("create") = {j \in DOMAIN SiteSteps["create"] : SiteSteps["create"][j] # "finalize"}
  BY DEF Undoable
<1>2. Undoable("clone") = {j \in DOMAIN SiteSteps["clone"] : SiteSteps["clone"][j] # "finalize"}
  BY DEF Undoable
<1>3. Undoable("create") = 1 .. 5
  BY <1>1, SiteStepsCreate
<1>4. Undoable("clone") = 1 .. 6
  BY <1>2, SiteStepsClone
<1> QED
  BY <1>3, <1>4 DEF Undoable

\* The step before is undone next, and of those that are not undone the one
\* before them.
LEMMA UndoNext ==
    ASSUME NEW kind \in SiteKinds, NEW n \in Nat,
           kind \in Creation => n <= 6 /\ (kind = "create" => n <= 5)
    PROVE  LET m == Greatest({j \in Undoable(kind) : j <= n}) IN
           /\ m \in Undoable(kind) \cup {0}
           /\ kind \in Creation => m = n
           /\ kind = "php" => m = IF n = 0 THEN 0 ELSE 1
           /\ kind = "delete" => m = 0
<1> DEFINE S == {j \in Undoable(kind) : j <= n}
<1>1. S \in SUBSET (0 .. n) /\ Undoable(kind) \subseteq Nat /\ 0 \notin Undoable(kind)
  BY UndoableAre, SiteKindsAre
<1>2. S # {} => Greatest(S) \in S /\ \A j \in S : j <= Greatest(S)
  BY <1>1, GreatestOf
<1>3. S = {} => Greatest(S) = 0
  BY DEF Greatest
<1>4. Greatest(S) \in Undoable(kind) \cup {0}
  BY <1>2, <1>3
<1>5. ASSUME kind \in Creation PROVE Greatest(S) = n
  <2>1. n # 0 => n \in S
    BY <1>5, UndoableAre DEF Creation
  <2>2. n = 0 => S = {}
    BY <1>1
  <2>3. n # 0 => Greatest(S) \in S /\ n <= Greatest(S)
    BY <2>1, <1>2
  <2> HIDE DEF S
  <2>4. \A j \in S : j \in Nat /\ j <= n
    BY <1>1 DEF S
  <2> QED
    BY <2>2, <2>3, <2>4, <1>3
<1>6. ASSUME kind = "php" PROVE Greatest(S) = IF n = 0 THEN 0 ELSE 1
  BY <1>6, <1>2, <1>3, UndoableAre
<1>7. ASSUME kind = "delete" PROVE Greatest(S) = 0
  BY <1>7, <1>3, UndoableAre, SiteKindsAre
<1> QED
  BY <1>4, <1>5, <1>6, <1>7

-----------------------------------------------------------------------------
(* What actions do to tasks.                                               *)

LEMMA SiteTaskIs ==
    ASSUME SiteShapes, NEW i \in SiteRequests
    PROVE  /\ SiteLive(i) => siteTask[i] \in SiteAtWork
           /\ ~SiteLive(i) => /\ siteTask[i].site = None /\ siteTask[i].config = None
                              /\ siteTask[i].kind \in SiteKinds \cup {None}
           /\ siteTask[i].site \in Sites <=> SiteLive(i)
           /\ siteTask[i].pc \in {"off", "do", "undo", "finish"}
           /\ siteTask[i].kind = None => ~SiteLive(i)
<1>1. siteTask[i] \in SiteAtWork \/ \E kind \in SiteKinds \cup {None} : siteTask[i] = SiteOff(kind)
  BY DEF SiteShapes, SiteTasks
<1>2. CASE siteTask[i] \in SiteAtWork
  BY <1>2, SiteNones DEF SiteAtWork, SiteLive
<1>3. ASSUME NEW kind \in SiteKinds \cup {None}, siteTask[i] = SiteOff(kind) PROVE
           /\ siteTask[i].pc = "off" /\ siteTask[i].site = None /\ siteTask[i].config = None
           /\ siteTask[i].kind = kind
  BY <1>3 DEF SiteOff, NoTask
<1> QED
  BY <1>1, <1>2, <1>3, SiteAssumption DEF SiteLive

SiteKept(i) ==
    /\ siteTask'[i].kind = siteTask[i].kind /\ siteTask'[i].site = siteTask[i].site
    /\ siteTask'[i].id = siteTask[i].id /\ siteTask'[i].old = siteTask[i].old
    /\ siteTask'[i].php = siteTask[i].php /\ siteTask'[i].wp = siteTask[i].wp
SiteMoved(i, pc, at) ==
    /\ siteTask' \in [SiteRequests -> SiteTasks] /\ siteTask'[i] \in SiteAtWork
    /\ SiteKept(i)
    /\ siteTask'[i].pc = pc /\ siteTask'[i].at = at /\ siteTask'[i].config = None
    /\ \A j \in SiteRequests : j # i => siteTask'[j] = siteTask[j]
SiteEnded(i) ==
    /\ siteTask' \in [SiteRequests -> SiteTasks]
    /\ siteTask'[i].kind = siteTask[i].kind /\ siteTask'[i].site = None
    /\ siteTask'[i].pc = "off" /\ siteTask'[i].config = None
    /\ siteWriter' = IF siteWriter = i THEN None ELSE siteWriter
    /\ \A j \in SiteRequests : j # i => siteTask'[j] = siteTask[j]

LEMMA SiteGoto ==
    ASSUME SiteShapes, NEW i \in SiteRequests, SiteLive(i), NEW pc \in {"do", "undo", "finish"},
           NEW at \in Nat, Goto(i, pc, at)
    PROVE  SiteMoved(i, pc, at)
<1>1. siteTask[i] \in SiteAtWork
  BY SiteTaskIs
<1>2. PICK new : new = [siteTask[i] EXCEPT !.pc = pc, !.at = at, !.config = None]
  OBVIOUS
<1>3. /\ new \in SiteAtWork
      /\ new.kind = siteTask[i].kind /\ new.site = siteTask[i].site /\ new.id = siteTask[i].id
      /\ new.old = siteTask[i].old /\ new.php = siteTask[i].php /\ new.wp = siteTask[i].wp
      /\ new.pc = pc /\ new.at = at /\ new.config = None
  BY <1>1, <1>2 DEF SiteAtWork
<1>4. siteTask' = [siteTask EXCEPT ![i] = new]
  BY <1>2 DEF Goto
<1>5. siteTask' \in [SiteRequests -> SiteTasks]
  BY <1>3, <1>4 DEF SiteShapes, SiteTasks
<1>6. siteTask'[i] = new /\ \A j \in SiteRequests : j # i => siteTask'[j] = siteTask[j]
  BY <1>4 DEF SiteShapes
<1> QED
  BY <1>3, <1>5, <1>6 DEF SiteMoved, SiteKept

LEMMA SiteEnds ==
    ASSUME SiteShapes, NEW i \in SiteRequests, SiteLive(i), End(i)
    PROVE  SiteEnded(i) /\ siteWriter' \in SiteRequests \cup {None}
<1>1. siteTask[i] \in SiteAtWork
  BY SiteTaskIs
<1>2. PICK new : new = SiteOff(siteTask[i].kind)
  OBVIOUS
<1>3. /\ new \in SiteTasks
      /\ new.kind = siteTask[i].kind /\ new.site = None /\ new.pc = "off" /\ new.config = None
  BY <1>1, <1>2 DEF SiteAtWork, SiteTasks, SiteOff, NoTask
<1>4. siteTask' = [siteTask EXCEPT ![i] = new]
  BY <1>2 DEF End, SiteOff
<1>5. siteTask' \in [SiteRequests -> SiteTasks]
  BY <1>3, <1>4 DEF SiteShapes
<1>6. siteTask'[i] = new /\ \A j \in SiteRequests : j # i => siteTask'[j] = siteTask[j]
  BY <1>4 DEF SiteShapes
<1> QED
  BY <1>3, <1>5, <1>6 DEF SiteEnded, End, SiteShapes

SiteStays(i) == /\ SitePlace(siteTask'[i])
                /\ siteTask'[i].kind = "php" /\ siteTask'[i].pc = "do" /\ siteTask'[i].at > 2
                   => siteWriter = i

\* A task that moves on, to a place of its kind, or ends keeps what is said of
\* all tasks.
LEMMA SiteTasksKept ==
    ASSUME SitePlaces, SiteOpsOwned, SwitchWrites, SiteShapes, NEW i \in SiteRequests, SiteLive(i),
           NEW pc, NEW at,
           \/ SiteMoved(i, pc, at) /\ SiteStays(i) /\ UNCHANGED siteWriter
           \/ SiteEnded(i)
    PROVE  SitePlaces' /\ SwitchWrites'
<1>1. ASSUME NEW j \in SiteRequests, SiteLive(j)' PROVE SitePlace(siteTask[j])'
  <2>1. CASE j = i
    BY <1>1, <2>1 DEF SiteMoved, SiteStays, SiteEnded, SiteLive, SitePlace
  <2>2. CASE j # i
    BY <1>1, <2>2 DEF SiteMoved, SiteEnded, SiteLive, SitePlace, SitePlaces
  <2> QED
    BY <2>1, <2>2
<1>2. ASSUME NEW j \in SiteRequests, siteTask'[j].kind = "php", siteTask'[j].pc = "do",
             siteTask'[j].at > 2 \/ siteTask'[j].config # None
      PROVE  siteWriter' = j
  <2>1. CASE j = i
    BY <1>2, <2>1 DEF SiteMoved, SiteStays, SiteEnded
  <2>2. CASE j # i
    <3>1. siteTask'[j] = siteTask[j] /\ siteWriter = j
      BY <1>2, <2>2 DEF SiteMoved, SiteEnded, SwitchWrites
    <3> QED
      BY <2>2, <3>1 DEF SiteEnded
  <2> QED
    BY <2>1, <2>2
<1>3. SitePlaces'
  BY <1>1 DEF SitePlaces
<1>4. SwitchWrites'
  BY <1>2 DEF SwitchWrites
<1> QED
  BY <1>3, <1>4

-----------------------------------------------------------------------------
(* What a command does to its own site, and that it leaves the others alone. *)

SiteEffect(s, step, present, php, old) ==
    /\ siteHost' \in [Sites -> SUBSET SiteParts] /\ sitePools' \in [Sites -> SUBSET Versions]
    /\ \A w \in Sites : w # s => siteHost'[w] = siteHost[w] /\ sitePools'[w] = sitePools[w]
    /\ step \in SiteParts =>
         siteHost'[s] = IF present THEN siteHost[s] \cup {step} ELSE siteHost[s] \ {step}
    /\ step = "download" => siteHost'[s] = siteHost[s] \cup {"doc_root"}
    /\ step \notin SiteParts \cup {"download"} => siteHost'[s] = siteHost[s]
    /\ step = "php_pool" =>
         sitePools'[s] = IF present THEN sitePools[s] \cup {php} ELSE sitePools[s] \ {php}
    /\ step = "remove" =>
         sitePools'[s] = IF present THEN sitePools[s] \cup {old} ELSE sitePools[s] \ {old}
    /\ step \notin {"php_pool", "remove"} => sitePools'[s] = sitePools[s]

LEMMA SiteEffectIs ==
    ASSUME SiteShapes, NEW i \in SiteRequests, SiteLive(i), NEW step \in SiteStepNames,
           NEW present \in BOOLEAN, StepEffect(i, step, present)
    PROVE  SiteEffect(siteTask[i].site, step, present, siteTask[i].php, siteTask[i].old)
<1>1. PICK s \in Sites : s = siteTask[i].site
  BY SiteTaskIs
<1>2. PICK php \in Versions : php = siteTask[i].php
  BY SiteTaskIs DEF SiteAtWork
<1>3. PICK old \in Versions : old = siteTask[i].old
  BY SiteTaskIs DEF SiteAtWork
<1>4. siteHost \in [Sites -> SUBSET SiteParts] /\ sitePools \in [Sites -> SUBSET Versions]
  BY DEF SiteShapes
<1>5. CASE step \in SiteParts
  <2>1. sitePools' = sitePools /\ siteHost' = [siteHost EXCEPT ![s] = IF present THEN @ \cup {step} ELSE @ \ {step}]
    BY <1>1, <1>5 DEF StepEffect, SetPart, SiteParts
  <2> QED
    BY <1>1, <1>2, <1>3, <1>4, <1>5, <2>1 DEF SiteEffect, SiteParts
<1>6. CASE step = "php_pool"
  <2>1. siteHost' = siteHost /\ sitePools' = [sitePools EXCEPT ![s] = IF present THEN @ \cup {php} ELSE @ \ {php}]
    BY <1>1, <1>2, <1>6 DEF StepEffect, SetPool, SiteParts
  <2> QED
    BY <1>1, <1>2, <1>3, <1>4, <1>6, <2>1 DEF SiteEffect, SiteParts
<1>7. CASE step = "remove"
  <2>1. siteHost' = siteHost /\ sitePools' = [sitePools EXCEPT ![s] = IF present THEN @ \cup {old} ELSE @ \ {old}]
    BY <1>1, <1>3, <1>7 DEF StepEffect, SetPool, SiteParts
  <2> QED
    BY <1>1, <1>2, <1>3, <1>4, <1>7, <2>1 DEF SiteEffect, SiteParts
<1>8. CASE step = "download"
  <2>1. sitePools' = sitePools /\ siteHost' = [siteHost EXCEPT ![s] = @ \cup {"doc_root"}]
    BY <1>1, <1>8 DEF StepEffect, SetPart, SiteParts
  <2> QED
    BY <1>1, <1>2, <1>3, <1>4, <1>8, <2>1 DEF SiteEffect, SiteParts
<1>9. CASE step \notin SiteParts \cup {"php_pool", "remove", "download"}
  <2>1. sitePools' = sitePools /\ siteHost' = siteHost
    BY <1>9 DEF StepEffect
  <2> QED
    BY <1>1, <1>2, <1>3, <1>4, <1>9, <2>1 DEF SiteEffect, SiteParts
<1> QED
  BY <1>5, <1>6, <1>7, <1>8, <1>9

SiteLeaves(i, s) ==
    /\ siteRow'[s] = siteRow[s] /\ siteHost'[s] = siteHost[s] /\ sitePools'[s] = sitePools[s]
    /\ siteLeft'[s] = siteLeft[s]
    /\ \A j \in SiteRequests : j # i => siteTask'[j] = siteTask[j]
    /\ siteTask'[i].site # s
    /\ AtHand(siteTask'[i]) =>
         \/ AtHand(siteTask[i]) /\ siteTask'[i].id = siteTask[i].id
         \/ siteRow[s] # None => siteTask'[i].id # siteRow[s].id

LEMMA SiteElsewhere ==
    ASSUME NEW i \in SiteRequests, NEW s \in Sites, SiteAlone(s), SiteThere(s),
           siteTask[i].site # s, SiteLeaves(i, s)
    PROVE  /\ SiteAlone(s)' /\ SiteThere(s)'
           /\ siteCaddy'[s] = siteCaddy[s] /\ SiteRouted(s) => SiteRouted(s)'
<1>1. \A j \in SiteRequests : siteTask[j].site = s \/ siteTask'[j].site = s =>
          siteTask'[j] = siteTask[j]
  BY DEF SiteLeaves
<1>2. \A j \in SiteRequests : siteTask[j].site = s <=> siteTask'[j].site = s
  BY <1>1
<1>3. SiteAlone(s)'
  <2>1. \A j, k \in SiteRequests : siteTask'[j].site = s /\ siteTask'[k].site = s => j = k
    BY <1>2 DEF SiteAlone
  <2>2. \A j \in SiteRequests : siteTask'[j].site = s => SiteMeets(s, siteTask[j])'
    BY <1>1 DEF SiteAlone, SiteMeets, SiteLeaves
  <2>3. ASSUME NEW j \in SiteRequests, siteRow'[s] # None, AtHand(siteTask'[j]),
               siteTask'[j].id = siteRow'[s].id
        PROVE  siteTask'[j].site = s
    <3>1. CASE j = i
      BY <2>3, <3>1 DEF SiteAlone, SiteLeaves
    <3>2. CASE j # i
      BY <2>3, <3>2 DEF SiteAlone, SiteLeaves
    <3> QED
      BY <3>1, <3>2
  <2>4. siteRow'[s] # None /\ (\A j \in SiteRequests : siteTask'[j].site # s)
        => siteRow'[s].status \in {"active", "error"}
    BY <1>2 DEF SiteAlone, SiteLeaves
  <2> QED
    BY <2>1, <2>2, <2>3, <2>4 DEF SiteAlone, AtHand
<1>4. \A versions : Only(s, versions)' <=> Only(s, versions)
  BY DEF Only, SiteLeaves
<1>5. SiteThere(s)'
  <2>1. \A j \in SiteRequests : siteTask'[j].site = s => SiteMade(s, siteTask[j])'
    BY <1>1 DEF SiteThere, SiteMade, SiteCreated, SiteDeleted, SiteSwitched, SiteLeaves, Only
  <2>2. Settled(s)' => Settled(s)
    BY <1>1, <1>2 DEF Settled
  <2>3. SiteRests(s)' <=> SiteRests(s)
    BY DEF SiteRests, SiteLeaves, Only
  <2> QED
    BY <2>1, <2>2, <2>3 DEF SiteThere
<1>6. ASSUME siteCaddy'[s] = siteCaddy[s], SiteRouted(s) PROVE SiteRouted(s)'
  <2>1. \A j \in SiteRequests : siteTask'[j].site = s => SiteLoaded(s, siteTask[j])'
    BY <1>1, <1>6 DEF SiteRouted, SiteLoaded, SiteLeaves
  <2>2. (\A j \in SiteRequests : siteTask'[j].site = s => ~SwitchedOver(j)') =>
        (\A j \in SiteRequests : siteTask[j].site = s => ~SwitchedOver(j))
    BY <1>1, <1>2 DEF SwitchedOver
  <2>3. /\ siteRow'[s] = None => siteCaddy'[s] = None
        /\ ActiveSite(s)' <=> ActiveSite(s)
        /\ siteRow'[s].php = siteRow[s].php /\ siteLeft'[s] = siteLeft[s]
    BY <1>6 DEF SiteRouted, SiteLeaves, ActiveSite
  <2>4. /\ siteRow'[s] = siteRow[s]
        /\ ActiveSite(s)' /\ "remove" \notin siteLeft'[s]
           /\ (\A j \in SiteRequests : siteTask'[j].site = s => ~SwitchedOver(j)')
           => siteCaddy'[s] = siteRow'[s].php
    BY <1>6, <2>2, <2>3 DEF SiteRouted, SiteLeaves
  <2> QED
    BY <1>6, <2>1, <2>3, <2>4 DEF SiteRouted, SwitchedOver
<1> QED
  BY <1>3, <1>5, <1>6

-----------------------------------------------------------------------------
(* The site of the task itself: what is made and removed, kind by kind.    *)

LEMMA StepsOfNext ==
    ASSUME NEW kind \in SiteKinds, NEW at \in DOMAIN SiteSteps[kind]
    PROVE  StepsOf(kind, at) = StepsOf(kind, at - 1) \cup {SiteSteps[kind][at]}
<1>1. DOMAIN SiteSteps[kind] \subseteq Nat
  BY SiteStepNamed
<1>2. \A m \in DOMAIN SiteSteps[kind] : m <= at <=> m <= at - 1 \/ m = at
  BY <1>1
<1> QED
  BY <1>2 DEF StepsOf

LEMMA StepsOfNone ==
    ASSUME NEW kind \in SiteKinds PROVE StepsOf(kind, 0) = {}
<1>1. \A m \in DOMAIN SiteSteps[kind] : ~(m <= 0)
  BY SiteStepNamed
<1> QED
  BY <1>1 DEF StepsOf

LEMMA CreationGoes ==
    ASSUME NEW s \in Sites, NEW i \in SiteRequests, NEW step, SiteShapes, SiteLive(i),
           siteTask[i].kind \in Creation, siteTask[i].pc = "do",
           siteTask[i].at \in DOMAIN SiteSteps[siteTask[i].kind],
           step = SiteSteps[siteTask[i].kind][siteTask[i].at], step # "finalize",
           SiteCreated(s, siteTask[i]),
           siteHost'[s] \subseteq siteHost[s] \cup {step},
           siteTask[i].kind = "clone" /\ ~siteTask[i].wp => siteHost'[s] \subseteq siteHost[s] \cup ({step} \ {"database"}),
           siteLeft'[s] = siteLeft[s],
           sitePools'[s] = IF step = "php_pool" THEN sitePools[s] \cup {siteTask[i].php} ELSE sitePools[s],
           SiteMoved(i, "do", siteTask[i].at + 1)
    PROVE  SiteCreated(s, siteTask[i])'
<1>1. PICK kind \in Creation : kind = siteTask[i].kind
  OBVIOUS
<1>2. PICK at \in Nat : at = siteTask[i].at /\ at \in DOMAIN SiteSteps[kind] /\ kind \in SiteKinds
  BY <1>1, SiteStepNamed, SiteKindsAre DEF Creation
<1>3. step = "php_pool" <=> at = 3
  BY <1>1, <1>2, SiteStepsCreate, SiteStepsClone DEF Creation
<1>4. StepsOf(kind, at) = StepsOf(kind, at - 1) \cup {step}
  BY <1>1, <1>2, StepsOfNext
<1>0. PICK php : php = siteTask[i].php
  OBVIOUS
<1>5. /\ siteTask'[i].kind = kind /\ siteTask'[i].pc = "do" /\ siteTask'[i].at = at + 1
      /\ siteTask'[i].php = php /\ siteTask'[i].wp = siteTask[i].wp
  BY <1>0, <1>1, <1>2 DEF SiteMoved, SiteKept
<1>6. siteHost'[s] \subseteq siteLeft'[s] \cup StepsOf(kind, at + 1 - 1)
  BY <1>1, <1>2, <1>4 DEF SiteCreated
<1>7. IF at + 1 > 3 THEN php \in sitePools'[s] /\ Only(s, {php})' ELSE Only(s, {})'
  <2>1. CASE at = 3
    BY <1>0, <1>1, <1>2, <1>3, <2>1 DEF SiteCreated, Only
  <2>2. CASE at # 3
    BY <1>0, <1>1, <1>2, <1>3, <2>2 DEF SiteCreated, Only
  <2> QED
    BY <2>1, <2>2
<1>8. kind = "clone" /\ ~siteTask[i].wp => "database" \notin siteHost'[s]
  BY <1>1 DEF SiteCreated, AtHand
<1> QED
  BY <1>5, <1>6, <1>7, <1>8 DEF SiteCreated, Only

\* A step that fails, or the loading of a configuration, and the steps before it.
LEMMA CreationFails ==
    ASSUME NEW s \in Sites, NEW i \in SiteRequests, NEW step, SiteShapes, SiteLive(i),
           siteTask[i].kind \in Creation, siteTask[i].pc = "do",
           siteTask[i].at \in DOMAIN SiteSteps[siteTask[i].kind],
           step = SiteSteps[siteTask[i].kind][siteTask[i].at],
           SiteCreated(s, siteTask[i]),
           siteHost'[s] \subseteq siteHost[s] \cup {step},
           siteTask[i].kind = "clone" /\ ~siteTask[i].wp => siteHost'[s] \subseteq siteHost[s] \cup ({step} \ {"database"}),
           siteLeft'[s] = siteLeft[s] \cup {step},
           step # "php_pool" => sitePools'[s] = sitePools[s],
           SiteMoved(i, "undo", siteTask[i].at - 1)
    PROVE  SiteCreated(s, siteTask[i])'
<1>1. PICK kind \in Creation : kind = siteTask[i].kind
  OBVIOUS
<1>2. PICK at \in Nat : at = siteTask[i].at /\ at \in DOMAIN SiteSteps[kind] /\ kind \in SiteKinds
  BY <1>1, SiteStepNamed, SiteKindsAre DEF Creation
<1>0. PICK php : php = siteTask[i].php
  OBVIOUS
<1>5. /\ siteTask'[i].kind = kind /\ siteTask'[i].pc = "undo" /\ siteTask'[i].at = at - 1
      /\ siteTask'[i].php = php /\ siteTask'[i].wp = siteTask[i].wp
  BY <1>0, <1>1, <1>2 DEF SiteMoved, SiteKept
<1>6. siteHost'[s] \subseteq siteLeft'[s] \cup StepsOf(kind, at - 1)
  BY <1>1, <1>2 DEF SiteCreated
<1>7. Only(s, IF at - 1 > 2 THEN {php} ELSE {})'
  <2>1. CASE step = "php_pool"
    BY <2>1 DEF Only
  <2>2. CASE step # "php_pool"
    BY <1>0, <1>1, <1>2, <2>2 DEF SiteCreated, Only
  <2> QED
    BY <2>1, <2>2
<1>8. kind = "clone" /\ ~siteTask[i].wp => "database" \notin siteHost'[s]
  BY <1>1 DEF SiteCreated, AtHand
<1> QED
  BY <1>5, <1>6, <1>7, <1>8 DEF SiteCreated, Only

LEMMA CreationUndoes ==
    ASSUME NEW s \in Sites, NEW i \in SiteRequests, NEW step, SiteShapes, SiteLive(i),
           siteTask[i].kind \in Creation, siteTask[i].pc = "undo",
           siteTask[i].at \in DOMAIN SiteSteps[siteTask[i].kind],
           step = SiteSteps[siteTask[i].kind][siteTask[i].at],
           SiteCreated(s, siteTask[i]),
           siteHost'[s] \subseteq siteHost[s],
           siteLeft[s] \subseteq siteLeft'[s],
           step \notin siteHost'[s] \/ step \in siteLeft'[s],
           IF step = "php_pool"
           THEN sitePools'[s] = sitePools[s] \ {siteTask[i].php} \/ step \in siteLeft'[s]
           ELSE sitePools'[s] = sitePools[s],
           SiteMoved(i, "undo", siteTask[i].at - 1)
    PROVE  SiteCreated(s, siteTask[i])'
<1>1. PICK kind \in Creation : kind = siteTask[i].kind
  OBVIOUS
<1>2. PICK at \in Nat : at = siteTask[i].at /\ at \in DOMAIN SiteSteps[kind] /\ kind \in SiteKinds
  BY <1>1, SiteStepNamed, SiteKindsAre DEF Creation
<1>3. step = "php_pool" <=> at = 3
  BY <1>1, <1>2, SiteStepsCreate, SiteStepsClone DEF Creation
<1>4. StepsOf(kind, at) = StepsOf(kind, at - 1) \cup {step}
  BY <1>1, <1>2, StepsOfNext
<1>0. PICK php : php = siteTask[i].php
  OBVIOUS
<1>5. /\ siteTask'[i].kind = kind /\ siteTask'[i].pc = "undo" /\ siteTask'[i].at = at - 1
      /\ siteTask'[i].php = php /\ siteTask'[i].wp = siteTask[i].wp
  BY <1>0, <1>1, <1>2 DEF SiteMoved, SiteKept
<1>6. siteHost'[s] \subseteq siteLeft'[s] \cup StepsOf(kind, at - 1)
  BY <1>1, <1>2, <1>4 DEF SiteCreated
<1>7. Only(s, IF at - 1 > 2 THEN {php} ELSE {})'
  <2>1. CASE at = 3
    BY <1>0, <1>1, <1>2, <1>3, <2>1 DEF SiteCreated, Only
  <2>2. CASE at # 3
    BY <1>0, <1>1, <1>2, <1>3, <2>2 DEF SiteCreated, Only
  <2> QED
    BY <2>1, <2>2
<1>8. kind = "clone" /\ ~siteTask[i].wp => "database" \notin siteHost'[s]
  BY <1>1 DEF SiteCreated, AtHand
<1> QED
  BY <1>5, <1>6, <1>7, <1>8 DEF SiteCreated, Only

\* A deletion only takes away.
SiteShrinks(s) ==
    /\ siteHost'[s] \subseteq siteHost[s] /\ sitePools'[s] \subseteq sitePools[s]
    /\ siteLeft[s] \subseteq siteLeft'[s]

LEMMA OnlyShrinks ==
    ASSUME NEW s \in Sites, NEW versions, Only(s, versions), siteLeft[s] \subseteq siteLeft'[s],
           sitePools'[s] \subseteq sitePools[s]
    PROVE  Only(s, versions)'
  BY DEF Only

LEMMA DeletionGoes ==
    ASSUME NEW s \in Sites, NEW i \in SiteRequests, NEW step, SiteShapes, SiteLive(i),
           siteTask[i].kind = "delete", siteTask[i].pc = "do",
           siteTask[i].at \in DOMAIN SiteSteps["delete"],
           step = SiteSteps["delete"][siteTask[i].at], step # "finalize",
           SiteDeleted(s, siteTask[i]), Only(s, {siteTask[i].php}),
           SiteShrinks(s), step \notin siteHost'[s],
           step = "php_pool" => sitePools'[s] = sitePools[s] \ {siteTask[i].php},
           SiteMoved(i, "do", siteTask[i].at + 1)
    PROVE  SiteDeleted(s, siteTask[i])'
<1>2. PICK at \in Nat : at = siteTask[i].at /\ at \in DOMAIN SiteSteps["delete"] /\ "delete" \in SiteKinds
  BY SiteStepNamed, SiteKindsAre
<1>3. step = "php_pool" <=> at = 3
  BY <1>2, SiteStepsDelete
<1>4. StepsOf("delete", at) = StepsOf("delete", at - 1) \cup {step}
  BY <1>2, StepsOfNext
<1>5. siteTask'[i].pc = "do" /\ siteTask'[i].at = at + 1
  BY <1>2 DEF SiteMoved, SiteKept
<1>6. siteHost'[s] \cap StepsOf("delete", at + 1 - 1) = {}
  BY <1>2, <1>4 DEF SiteDeleted, SiteShrinks
<1>7. at + 1 > 3 => Only(s, {})'
  <2>1. CASE at = 3
    BY <1>2, <1>3, <2>1 DEF SiteShrinks, Only
  <2>2. CASE at # 3
    BY <1>2, <2>2, OnlyShrinks DEF SiteDeleted, SiteShrinks
  <2> QED
    BY <2>1, <2>2
<1> QED
  BY <1>5, <1>6, <1>7 DEF SiteDeleted, Only

LEMMA SwitchGoes ==
    ASSUME NEW s \in Sites, NEW i \in SiteRequests, NEW step, SiteShapes, SiteLive(i),
           siteTask[i].kind = "php", siteTask[i].pc = "do", siteTask[i].php # siteTask[i].old,
           siteTask[i].at \in DOMAIN SiteSteps["php"],
           step = SiteSteps["php"][siteTask[i].at], step # "finalize",
           SiteSwitched(s, siteTask[i]), siteLeft'[s] = siteLeft[s],
           step = "php_pool" => sitePools'[s] = sitePools[s] \cup {siteTask[i].php},
           step = "remove" => sitePools'[s] = sitePools[s] \ {siteTask[i].old},
           step = "caddy" => sitePools'[s] = sitePools[s],
           SiteMoved(i, "do", siteTask[i].at + 1)
    PROVE  SiteSwitched(s, siteTask[i])'
<1>1. /\ siteTask'[i].pc = "do" /\ siteTask'[i].at = siteTask[i].at + 1
      /\ siteTask'[i].php = siteTask[i].php /\ siteTask'[i].old = siteTask[i].old
  BY DEF SiteMoved, SiteKept
<1>2. siteTask[i].at \in {1, 2, 3}
  BY SiteStepsPhp
<1>3. CASE siteTask[i].at = 1
  BY <1>1, <1>3, SiteStepsPhp DEF SiteSwitched, Only
<1>4. CASE siteTask[i].at = 2
  BY <1>1, <1>4, SiteStepsPhp DEF SiteSwitched, Only
<1>5. CASE siteTask[i].at = 3
  BY <1>1, <1>5, SiteStepsPhp DEF SiteSwitched, Only
<1> QED
  BY <1>2, <1>3, <1>4, <1>5

LEMMA SwitchUndoes ==
    ASSUME NEW s \in Sites, NEW i \in SiteRequests, SiteShapes, SiteLive(i),
           siteTask[i].kind = "php", siteTask[i].php # siteTask[i].old, SiteSwitched(s, siteTask[i]),
           \/ /\ siteTask[i].pc = "do" /\ siteTask[i].at = 2 /\ sitePools'[s] = sitePools[s]
              /\ siteLeft[s] \subseteq siteLeft'[s] /\ SiteMoved(i, "undo", 1)
           \/ /\ siteTask[i].pc = "undo" /\ siteTask[i].at = 1 /\ siteLeft'[s] = siteLeft[s]
              /\ sitePools'[s] = sitePools[s] \ {siteTask[i].php} /\ SiteMoved(i, "undo", 0)
           \/ /\ siteTask[i].pc = "undo" /\ siteTask[i].at = 1 /\ siteLeft'[s] = siteLeft[s] \cup {"php_pool"}
              /\ sitePools'[s] = sitePools[s] /\ SiteMoved(i, "undo", 0)
    PROVE  SiteSwitched(s, siteTask[i])'
<1>1. /\ siteTask'[i].pc = "undo"
      /\ siteTask'[i].php = siteTask[i].php /\ siteTask'[i].old = siteTask[i].old
  BY DEF SiteMoved, SiteKept
<1>2. CASE siteTask[i].pc = "do"
  <2>1. siteTask'[i].at = 1
    BY <1>2 DEF SiteMoved
  <2> QED
    BY <1>1, <1>2, <2>1 DEF SiteSwitched, Only
<1>3. CASE siteTask[i].pc = "undo"
  <2>1. siteTask'[i].at = 0
    BY <1>3 DEF SiteMoved
  <2> QED
    BY <1>1, <1>3, <2>1 DEF SiteSwitched, Only
<1> QED
  BY <1>2, <1>3

-----------------------------------------------------------------------------
(* The site of the task itself, and its row.                               *)

SiteRowKept(s) ==
    siteRow'[s] # None => siteRow[s] # None /\ siteRow'[s].id = siteRow[s].id

LEMMA SiteOwnMoves ==
    ASSUME NEW i \in SiteRequests, NEW s \in Sites, SiteAlone(s), siteTask[i].site = s,
           NEW pc \in {"do", "undo"}, NEW at, SiteMoved(i, pc, at), AtHand(siteTask[i]),
           siteRow'[s] = siteRow[s], SiteMade(s, siteTask[i])', Settled(s) => SiteRests(s)'
    PROVE  SiteAlone(s)' /\ SiteThere(s)'
<1>1. \A j \in SiteRequests : j # i => siteTask[j].site # s /\ siteTask'[j] = siteTask[j]
  BY DEF SiteAlone, SiteMoved
<1>2. siteTask'[i].site = s /\ AtHand(siteTask'[i])
  BY DEF SiteMoved, SiteKept, AtHand
<1>3. SiteMeets(s, siteTask[i])'
  BY <1>2 DEF SiteAlone, SiteMeets, SiteMoved, SiteKept, AtHand
<1>4. \A j \in SiteRequests : siteTask'[j].site = s <=> j = i
  BY <1>1, <1>2
<1>5. ASSUME NEW j \in SiteRequests, siteRow'[s] # None, AtHand(siteTask'[j]),
             siteTask'[j].id = siteRow'[s].id
      PROVE  siteTask'[j].site = s
  <2>1. CASE j = i
    BY <2>1, <1>2
  <2>2. CASE j # i
    BY <1>1, <1>5, <2>2 DEF SiteAlone
  <2> QED
    BY <2>1, <2>2
<1>6. SiteAlone(s)'
  BY <1>2, <1>3, <1>4, <1>5 DEF SiteAlone, AtHand
<1>7. Settled(s)' => Settled(s)
  <2>1. siteTask'[i].kind = siteTask[i].kind /\ siteTask'[i].pc # "finish"
    BY <1>2 DEF SiteMoved, SiteKept, AtHand
  <2>2. \A j \in SiteRequests : siteTask[j].site = s <=> j = i
    BY <1>1
  <2> QED
    BY <1>4, <2>1, <2>2 DEF Settled
<1>8. \A j \in SiteRequests : siteTask'[j].site = s => SiteMade(s, siteTask[j])'
  BY <1>4
<1> QED
  BY <1>6, <1>7, <1>8 DEF SiteThere

LEMMA SiteOwnEnds ==
    ASSUME NEW i \in SiteRequests, NEW s \in Sites, SiteAlone(s), siteTask[i].site = s,
           SiteEnded(i), SiteRowKept(s),
           siteRow'[s] # None => siteRow'[s].status \in {"active", "error"},
           SiteRests(s)'
    PROVE  SiteAlone(s)' /\ SiteThere(s)'
<1>1. \A j \in SiteRequests : j # i => siteTask[j].site # s /\ siteTask'[j] = siteTask[j]
  BY DEF SiteAlone, SiteEnded
<1>2. \A j \in SiteRequests : siteTask'[j].site # s
  BY <1>1, SiteAssumption DEF SiteEnded
<1>5. ASSUME NEW j \in SiteRequests, siteRow'[s] # None, AtHand(siteTask'[j]),
             siteTask'[j].id = siteRow'[s].id
      PROVE  FALSE
  <2>1. CASE j = i
    BY <2>1, <1>5 DEF SiteEnded, AtHand
  <2>2. CASE j # i
    BY <1>1, <1>5, <2>2 DEF SiteAlone, SiteRowKept
  <2> QED
    BY <2>1, <2>2
<1>6. SiteAlone(s)'
  BY <1>2, <1>5 DEF SiteAlone, AtHand
<1> QED
  BY <1>2, <1>6 DEF SiteThere

\* The last step of a pipeline, before its operation is concluded.
LEMMA SiteOwnFinishes ==
    ASSUME NEW i \in SiteRequests, NEW s \in Sites, SiteAlone(s), siteTask[i].site = s,
           NEW at, SiteMoved(i, "finish", at), SiteRowKept(s), siteTask[i].kind # "php",
           IF siteTask[i].kind = "delete" THEN siteRow'[s] = None
           ELSE siteRow'[s] # None /\ siteRow'[s].status = "active",
           SiteRests(s)'
    PROVE  SiteAlone(s)' /\ SiteThere(s)'
<1>1. \A j \in SiteRequests : j # i => siteTask[j].site # s /\ siteTask'[j] = siteTask[j]
  BY DEF SiteAlone, SiteMoved
<1>2. siteTask'[i].site = s /\ siteTask'[i].pc = "finish" /\ siteTask'[i].kind = siteTask[i].kind
  BY DEF SiteMoved, SiteKept
<1>3. SiteMeets(s, siteTask[i])'
  BY <1>2 DEF SiteMeets, AtHand
<1>4. \A j \in SiteRequests : siteTask'[j].site = s <=> j = i
  BY <1>1, <1>2
<1>5. ASSUME NEW j \in SiteRequests, siteRow'[s] # None, AtHand(siteTask'[j]),
             siteTask'[j].id = siteRow'[s].id
      PROVE  siteTask'[j].site = s
  <2>1. CASE j = i
    BY <2>1, <1>2
  <2>2. CASE j # i
    BY <1>1, <1>5, <2>2 DEF SiteAlone, SiteRowKept
  <2> QED
    BY <2>1, <2>2
<1>6. SiteAlone(s)'
  BY <1>2, <1>3, <1>4, <1>5 DEF SiteAlone, AtHand
<1>7. SiteMade(s, siteTask[i])'
  BY <1>2 DEF SiteMade, SiteCreated, SiteDeleted, SiteSwitched, AtHand
<1>8. \A j \in SiteRequests : siteTask'[j].site = s => SiteMade(s, siteTask[j])'
  BY <1>4, <1>7
<1> QED
  BY <1>6, <1>8 DEF SiteThere

LEMMA SiteOwnRouted ==
    ASSUME NEW i \in SiteRequests, NEW s \in Sites, SiteAlone(s), siteTask[i].site = s,
           \A j \in SiteRequests : j # i => siteTask'[j] = siteTask[j],
           siteTask'[i].site \in {s, None},
           siteRow'[s] = None => siteCaddy'[s] = None,
           ActiveSite(s)' /\ "remove" \notin siteLeft'[s] /\ ~(siteTask'[i].site = s /\ SwitchedOver(i)')
             => siteCaddy'[s] = siteRow'[s].php,
           siteTask'[i].site = s => SiteLoaded(s, siteTask[i])'
    PROVE  SiteRouted(s)'
<1>1. \A j \in SiteRequests : siteTask'[j].site = s => j = i
  BY DEF SiteAlone
<1>2. (\A j \in SiteRequests : siteTask'[j].site = s => ~SwitchedOver(j)')
      => ~(siteTask'[i].site = s /\ SwitchedOver(i)')
  OBVIOUS
<1>3. \A j \in SiteRequests : siteTask'[j].site = s => SiteLoaded(s, siteTask[j])'
  BY <1>1
<1> QED
  BY <1>2, <1>3 DEF SiteRouted

\* A step after which the routes and the row are as before.
LEMMA SiteRoutedKept ==
    ASSUME NEW i \in SiteRequests, NEW s \in Sites, SiteShapes, SiteAlone(s), siteTask[i].site = s,
           SiteRouted(s), siteRow'[s] = siteRow[s], siteCaddy'[s] = siteCaddy[s],
           siteLeft[s] \subseteq siteLeft'[s], NEW pc, NEW at,
           \/ SiteEnded(i)
           \/ SiteMoved(i, pc, at) /\ pc # "do"
           \/ /\ SiteMoved(i, "do", at) /\ siteTask[i].pc = "do" /\ siteTask[i].at \in Nat /\ at = siteTask[i].at + 1
              /\ siteTask[i].kind = "php" => siteTask[i].at # 2
              /\ siteTask[i].kind = "create" => siteTask[i].at # 4
              /\ siteTask[i].kind = "clone" => siteTask[i].at # 5
              /\ siteTask[i].kind = "delete" => siteTask[i].at # 1,
           SwitchedOver(i) => SwitchedOver(i)' \/ "remove" \in siteLeft'[s]
    PROVE  SiteRouted(s)'
<1>1. \A j \in SiteRequests : j # i => siteTask'[j] = siteTask[j]
  BY DEF SiteEnded, SiteMoved
<1>2. siteTask'[i].site \in {s, None}
  BY DEF SiteEnded, SiteMoved, SiteKept
<1>3. siteTask'[i].site = s => SiteLoaded(s, siteTask[i])'
  <2>1. CASE SiteEnded(i)
    BY <2>1, SiteAssumption DEF SiteEnded
  <2>2. CASE SiteMoved(i, pc, at) /\ pc # "do"
    BY <2>2 DEF SiteMoved, SiteLoaded
  <2>3. CASE /\ SiteMoved(i, "do", at) /\ siteTask[i].pc = "do" /\ siteTask[i].at \in Nat /\ at = siteTask[i].at + 1
             /\ siteTask[i].kind = "php" => siteTask[i].at # 2
             /\ siteTask[i].kind = "create" => siteTask[i].at # 4
             /\ siteTask[i].kind = "clone" => siteTask[i].at # 5
             /\ siteTask[i].kind = "delete" => siteTask[i].at # 1
    <3>1. SiteLoaded(s, siteTask[i])
      BY DEF SiteRouted
    <3>2. /\ siteTask'[i].kind = siteTask[i].kind /\ siteTask'[i].php = siteTask[i].php
          /\ siteTask'[i].old = siteTask[i].old /\ siteTask'[i].at = siteTask[i].at + 1
      BY <2>3 DEF SiteMoved, SiteKept
    <3> QED
      BY <2>3, <3>1, <3>2 DEF SiteLoaded
  <2> QED
    BY <2>1, <2>2, <2>3
<1>4. SwitchedOver(i)' => siteTask'[i].site = s
  <2>1. CASE SiteEnded(i)
    BY <2>1 DEF SiteEnded, SwitchedOver
  <2>2. CASE ~SiteEnded(i)
    BY <2>2 DEF SiteMoved, SiteKept
  <2> QED
    BY <2>1, <2>2
<1>5. ActiveSite(s)' /\ "remove" \notin siteLeft'[s] /\ ~(siteTask'[i].site = s /\ SwitchedOver(i)')
      => siteCaddy'[s] = siteRow'[s].php
  <2>1. \A j \in SiteRequests : siteTask[j].site = s => j = i
    BY DEF SiteAlone
  <2> QED
    BY <1>4, <2>1 DEF SiteRouted, ActiveSite
<1>6. siteRow'[s] = None => siteCaddy'[s] = None
  BY DEF SiteRouted
<1> QED
  BY <1>1, <1>2, <1>3, <1>5, <1>6, SiteOwnRouted

-----------------------------------------------------------------------------
(* Failed creations, beside what goes on.                                  *)

\* What a task may do to its site when the creation of it failed before: take
\* away, as long as the row is there.
SiteStillFailed(s) ==
    /\ SiteShrinks(s)
    /\ siteRow[s] # None => siteRow'[s] # None /\ siteRow'[s].status \in {"error", "deleting"}

LEMMA CreationsKept ==
    ASSUME SiteStrong, NEW i \in SiteRequests, SiteLive(i),
           siteOverlap' = siteOverlap, siteCrashes' = siteCrashes,
           \A k \in SiteRequests : k # i /\ siteOps'[k] # None /\ siteOps'[k].linked
               => siteOps'[k] = siteOps[k],
           \A k \in SiteRequests : k # i => siteTask'[k] = siteTask[k],
           \A s \in Sites : Calm(s) /\ s # siteTask[i].site => SiteLeaves(i, s),
           Calm(siteTask[i].site) /\ siteTask[i].kind = "delete" =>
               \/ SiteStillFailed(siteTask[i].site)
               \/ \A k \in SiteRequests : siteOps'[k] # None /\ siteOps'[k].site = siteTask[i].site
                      => ~siteOps'[k].linked,
           siteOps'[i] # None /\ siteOps'[i].linked /\ ~SiteLive(i)' /\ Calm(siteOps'[i].site)
             => CreationUndone(siteOps[i])'
    PROVE  CreationsUndone'
<1> SUFFICES ASSUME NEW k \in SiteRequests, siteOps'[k] # None, siteOps'[k].linked, ~SiteLive(k)',
                    Calm(siteOps[k].site)'
             PROVE  CreationUndone(siteOps[k])'
  BY DEF CreationsUndone
<1>0. \A s : Calm(s)' <=> Calm(s)
  BY DEF Calm
<1>1. CASE k = i
  BY <1>0, <1>1
<1>2. CASE k # i
  <2>1. siteOps'[k] = siteOps[k] /\ siteTask'[k] = siteTask[k]
    BY <1>2
  <2>2. PICK op : op = siteOps[k] /\ op = siteOps'[k]
    BY <2>1
  <2>3. op \in SiteOpSet
    BY <2>2 DEF SiteStrong, SiteShapes
  <2>4. PICK s \in Sites : s = op.site
    BY <2>3 DEF SiteOpSet
  <2>5. Calm(s) /\ op.linked /\ ~SiteLive(k)
    BY <1>0, <2>1, <2>2, <2>4 DEF SiteLive
  <2>6. CreationUndone(op)
    BY <2>2, <2>4, <2>5 DEF SiteStrong, CreationsUndone
  <2>7. SiteAlone(s)
    BY <2>5 DEF SiteStrong
  <2>8. CASE op.status = "failed" /\ op.kind \in Creation
    <3>1. siteRow[s] # None /\ siteRow[s].status \in {"error", "deleting"}
          /\ siteHost[s] \subseteq siteLeft[s] /\ Only(s, {})
      BY <2>4, <2>6, <2>8 DEF CreationUndone
    <3>2. CASE s # siteTask[i].site
      <4>1. SiteLeaves(i, s)
        BY <2>5, <3>2
      <4>2. siteRow'[s] = siteRow[s] /\ siteHost'[s] \subseteq siteLeft'[s] /\ Only(s, {})'
        BY <3>1, <4>1 DEF SiteLeaves, Only
      <4> QED
        BY <2>2, <2>4, <2>8, <3>1, <4>2 DEF CreationUndone, Only
    <3>3. CASE s = siteTask[i].site
      <4>1. SiteMeets(s, siteTask[i]) /\ siteTask[i].pc \in {"do", "undo", "finish"}
        BY <2>7, <3>3, SiteTaskIs DEF SiteAlone, SiteLive, SiteStrong
      <4>2. siteTask[i].kind = "delete"
        BY <3>1, <4>1 DEF SiteMeets, AtHand, Creation
      <4>3. SiteStillFailed(s)
        BY <1>2, <2>2, <2>4, <2>5, <3>3, <4>2
      <4>4. siteHost'[s] \subseteq siteLeft'[s] /\ Only(s, {})'
        BY <3>1, <4>3 DEF SiteStillFailed, SiteShrinks, Only
      <4> QED
        BY <2>2, <2>4, <2>8, <3>1, <4>3, <4>4 DEF CreationUndone, Only, SiteStillFailed
    <3> QED
      BY <3>2, <3>3
  <2>9. CASE ~(op.status = "failed" /\ op.kind \in Creation)
    BY <2>2, <2>6, <2>9 DEF CreationUndone
  <2> QED
    BY <2>8, <2>9
<1> QED
  BY <1>1, <1>2

-----------------------------------------------------------------------------
(* All together: what has to be known of a step of a task.                 *)

SiteElse(i, s) ==
    SiteLeaves(i, s) /\ (siteStale' \/ siteCaddy'[s] = siteCaddy[s] \/ SiteRouted(s)')
SiteOwn(s) == SiteAlone(s)' /\ SiteThere(s)' /\ (siteStale' \/ SiteRouted(s)')
SiteFails(i, s) ==
    /\ siteTask[i].kind = "delete" =>
         \/ SiteStillFailed(s)
         \/ \A k \in SiteRequests : siteOps'[k] # None /\ siteOps'[k].site = s => ~siteOps'[k].linked
    /\ siteOps'[i] # None /\ siteOps'[i].linked /\ ~SiteLive(i)' => CreationUndone(siteOps[i])'
SiteFixed ==
    /\ siteOverlap' = siteOverlap /\ siteCrashes' = siteCrashes /\ (siteStale => siteStale')
    /\ \A s \in Sites : SiteRowKept(s)
SiteOpsStay(i) ==
    \A k \in SiteRequests :
        /\ siteOps'[k] # None => /\ siteOps[k] # None
                                 /\ siteOps'[k].site = siteOps[k].site /\ siteOps'[k].kind = siteOps[k].kind
        /\ k # i /\ siteOps'[k] # None /\ siteOps'[k].linked => siteOps'[k] = siteOps[k]
SiteGoesOn(i) ==
    \/ \E pc, at : SiteMoved(i, pc, at) /\ SiteStays(i) /\ UNCHANGED siteWriter
    \/ SiteEnded(i)

LEMMA SiteStrongFrom ==
    ASSUME SiteStrong, NEW i \in SiteRequests, SiteLive(i), SiteShapes', SiteGoesOn(i),
           NEW s \in Sites, s = siteTask[i].site, SiteFixed, SiteOpsStay(i),
           \A w \in Sites : Calm(w) /\ w # s => SiteElse(i, w),
           Calm(s) => SiteOwn(s) /\ SiteFails(i, s)
    PROVE  SiteStrong'
<1>0. SiteShapes /\ SitePlaces /\ SiteIds /\ SiteOpsOwned /\ SwitchWrites
  BY DEF SiteStrong
<1>1. /\ siteTask'[i].kind = siteTask[i].kind /\ siteTask'[i].site \in {siteTask[i].site, None}
      /\ siteTask'[i].site = None => siteTask'[i].pc = "off"
      /\ \A j \in SiteRequests : j # i => siteTask'[j] = siteTask[j]
  <2>1. ASSUME NEW pc, NEW at, SiteMoved(i, pc, at) PROVE
           /\ siteTask'[i].kind = siteTask[i].kind /\ siteTask'[i].site = siteTask[i].site
           /\ siteTask[i].site # None /\ \A j \in SiteRequests : j # i => siteTask'[j] = siteTask[j]
    BY <2>1, SiteAssumption DEF SiteMoved, SiteKept
  <2>2. CASE SiteEnded(i)
    BY <2>2 DEF SiteEnded
  <2> QED
    BY <2>1, <2>2 DEF SiteGoesOn
<1>2. SitePlaces' /\ SwitchWrites'
  BY <1>0, SiteTasksKept DEF SiteGoesOn
<1>3. SiteIds'
  <2>1. ASSUME NEW u \in Sites, NEW w \in Sites, siteRow'[u] # None, siteRow'[w] # None,
               siteRow'[u].id = siteRow'[w].id
        PROVE  u = w
    BY <1>0, <2>1 DEF SiteIds, SiteFixed, SiteRowKept
  <2>2. ASSUME NEW u \in Sites, siteRow'[u] # None
        PROVE  /\ siteRow'[u].id <= SiteMaxOps + 1
               /\ \A j \in SiteRequests : siteTask'[j].kind = None => siteRow'[u].id <= j
    <3>1. siteRow[u] # None /\ siteRow'[u].id = siteRow[u].id
      BY <2>2 DEF SiteFixed, SiteRowKept
    <3>2. \A j \in SiteRequests : siteTask'[j].kind = siteTask[j].kind
      BY <1>1
    <3> QED
      BY <1>0, <3>1, <3>2 DEF SiteIds
  <2> QED
    BY <2>1, <2>2 DEF SiteIds
<1>4. SiteOpsOwned'
  <2>1. ASSUME NEW j \in SiteRequests
        PROVE  /\ siteTask'[j].kind = None => siteOps'[j] = None
               /\ siteOps'[j] # None /\ SiteLive(j)' =>
                    siteTask'[j].site = siteOps'[j].site /\ siteTask'[j].kind = siteOps'[j].kind
    <3>1. siteTask'[j].kind = siteTask[j].kind
      BY <1>1
    <3>2. siteOps'[j] # None /\ SiteLive(j)' => siteTask'[j].site = siteTask[j].site /\ SiteLive(j)
      BY <1>1 DEF SiteLive
    <3> QED
      BY <1>0, <3>1, <3>2 DEF SiteOpsOwned, SiteOpsStay
  <2> QED
    BY <2>1 DEF SiteOpsOwned
<1>5. ASSUME NEW w \in Sites, Calm(w)'
      PROVE  SiteAlone(w)' /\ SiteThere(w)' /\ (siteStale' \/ SiteRouted(w)')
  <2>1. Calm(w)
    BY <1>5 DEF Calm, SiteFixed
  <2>2. SiteAlone(w) /\ SiteThere(w) /\ (siteStale \/ SiteRouted(w))
    BY <2>1 DEF SiteStrong
  <2>3. CASE w = s
    BY <2>1, <2>3 DEF SiteOwn
  <2>4. CASE w # s
    <3>1. SiteElse(i, w)
      BY <2>1, <2>4
    <3>2. SiteLeaves(i, w)
      BY <3>1 DEF SiteElse
    <3>3. SiteAlone(w)' /\ SiteThere(w)' /\ (siteCaddy'[w] = siteCaddy[w] /\ SiteRouted(w) => SiteRouted(w)')
      BY <2>2, <2>4, <3>2, SiteElsewhere
    <3> QED
      BY <2>2, <3>1, <3>3 DEF SiteElse, SiteFixed
  <2> QED
    BY <2>3, <2>4
<1>6. CreationsUndone'
  <2>1. \A w \in Sites : Calm(w) /\ w # siteTask[i].site => SiteLeaves(i, w)
    BY DEF SiteElse
  <2>2. ASSUME Calm(siteTask[i].site), siteTask[i].kind = "delete"
        PROVE  \/ SiteStillFailed(siteTask[i].site)
               \/ \A k \in SiteRequests : siteOps'[k] # None /\ siteOps'[k].site = siteTask[i].site
                    => ~siteOps'[k].linked
    BY <2>2 DEF SiteFails
  <2>3. ASSUME siteOps'[i] # None, siteOps'[i].linked, ~SiteLive(i)', Calm(siteOps'[i].site)
        PROVE  CreationUndone(siteOps[i])'
    <3>1. siteOps'[i].site = s
      BY <1>0, <2>3 DEF SiteOpsStay, SiteOpsOwned
    <3> QED
      BY <2>3, <3>1 DEF SiteFails
  <2>4. /\ siteOverlap' = siteOverlap /\ siteCrashes' = siteCrashes
        /\ \A k \in SiteRequests : k # i /\ siteOps'[k] # None /\ siteOps'[k].linked
               => siteOps'[k] = siteOps[k]
    BY DEF SiteFixed, SiteOpsStay
  <2> QED
    BY <1>1, <2>1, <2>2, <2>3, <2>4, CreationsKept
<1> QED
  BY <1>2, <1>3, <1>4, <1>5, <1>6 DEF SiteStrong

-----------------------------------------------------------------------------
(* What is known of the task of a step.                                    *)

LEMMA SiteHas ==
    ASSUME SiteStrong, NEW i \in SiteRequests, SiteLive(i)
    PROVE  /\ SiteShapes /\ siteTask[i] \in SiteAtWork /\ SitePlace(siteTask[i])
           /\ siteTask[i].site \in Sites /\ siteTask[i].kind \in SiteKinds
           /\ siteTask[i].php \in Versions /\ siteTask[i].old \in Versions
           /\ siteTask[i].at \in Nat /\ siteTask[i].pc \in {"do", "undo", "finish"}
<1>1. SiteShapes /\ SitePlaces
  BY DEF SiteStrong
<1>2. siteTask[i] \in SiteAtWork
  BY <1>1, SiteTaskIs
<1> QED
  BY <1>1, <1>2 DEF SiteAtWork, SitePlaces

LEMMA SiteOwnIs ==
    ASSUME SiteStrong, NEW i \in SiteRequests, SiteLive(i), NEW s \in Sites, s = siteTask[i].site, Calm(s)
    PROVE  /\ SiteAlone(s) /\ SiteThere(s) /\ SiteMeets(s, siteTask[i]) /\ SiteMade(s, siteTask[i])
           /\ siteStale \/ SiteRouted(s)
           /\ AtHand(siteTask[i]) => RowsOf(i) = {s}
           /\ Settled(s) <=> /\ siteTask[i].kind # "php"
                             /\ siteTask[i].kind \in Creation => siteTask[i].pc = "finish"
           /\ Settled(s) => SiteRests(s)
<1>1. SiteAlone(s) /\ SiteThere(s) /\ (siteStale \/ SiteRouted(s)) /\ SiteIds
  BY DEF SiteStrong
<1>2. SiteMeets(s, siteTask[i]) /\ SiteMade(s, siteTask[i])
  BY <1>1 DEF SiteAlone, SiteThere
<1>3. \A j \in SiteRequests : siteTask[j].site = s => j = i
  BY <1>1 DEF SiteAlone
<1>4. Settled(s) <=> /\ siteTask[i].kind # "php"
                     /\ siteTask[i].kind \in Creation => siteTask[i].pc = "finish"
  BY <1>3 DEF Settled
<1>5. ASSUME AtHand(siteTask[i]) PROVE RowsOf(i) = {s}
  <2>1. siteRow[s] # None /\ siteRow[s].id = siteTask[i].id
    BY <1>2, <1>5 DEF SiteMeets
  <2> QED
    BY <1>1, <2>1 DEF SiteIds, RowsOf
<1> QED
  BY <1>1, <1>2, <1>4, <1>5 DEF SiteThere

\* A task at hand writes no row of another calm site.
LEMMA SiteElseIs ==
    ASSUME SiteStrong, NEW i \in SiteRequests, AtHand(siteTask[i]), NEW w \in Sites, Calm(w),
           w # siteTask[i].site
    PROVE  w \notin RowsOf(i) /\ SiteAlone(w) /\ SiteThere(w) /\ (siteStale \/ SiteRouted(w))
<1>1. SiteAlone(w) /\ SiteThere(w) /\ (siteStale \/ SiteRouted(w))
  BY DEF SiteStrong
<1> QED
  BY <1>1 DEF SiteAlone, RowsOf

\* What a host step has done when it is done.
LEMMA HostStepKeeps ==
    ASSUME SiteStrong, NEW i \in SiteRequests, HostStep(i)
    PROVE  SiteStrong'
<1>1. SiteLive(i) /\ siteTask[i].pc = "do" /\ AtHand(siteTask[i])
  BY DEF HostStep, SiteLive, AtHand
<1>2. PICK kind \in SiteKinds : kind = siteTask[i].kind
  BY <1>1, SiteHas
<1>3. PICK at \in DOMAIN SiteSteps[kind] : at = siteTask[i].at
  BY <1>1, <1>2, SiteHas DEF SitePlace
<1>4. PICK step \in SiteStepNames \ {"caddy", "finalize"} : step = SiteSteps[kind][at] /\ step = StepOf(i)
  BY <1>2, <1>3, SiteStepNamed DEF HostStep, StepOf
<1>5. PICK s \in Sites : s = siteTask[i].site
  BY <1>1, SiteHas
<1>6. at \in Nat /\ at + 1 \in DOMAIN SiteSteps[kind] /\ at + 1 \in Nat
  BY <1>3, <1>4, SiteStepNamed
<1>6a. StepIs(kind, at, step)
  BY <1>4, SiteStepAt
<1>7. SiteMoved(i, "do", at + 1)
  BY <1>1, <1>3, <1>6, SiteHas, SiteGoto DEF HostStep
<1>8. PICK php \in Versions : php = siteTask[i].php
  BY <1>1, SiteHas
<1>9. PICK old \in Versions : old = siteTask[i].old
  BY <1>1, SiteHas
<1>10. \/ Skipped(i, step) /\ UNCHANGED <<siteHost, sitePools>>
       \/ ~Skipped(i, step) /\ SiteEffect(s, step, ~Removing(i, step), php, old)
  <2>1. CASE Skipped(i, step)
    BY <1>4, <2>1 DEF HostStep
  <2>2. CASE ~Skipped(i, step)
    <3>1. StepEffect(i, step, ~Removing(i, step))
      BY <1>4, <2>2 DEF HostStep
    <3> QED
      BY <1>1, <1>5, <1>8, <1>9, <2>2, <3>1, SiteHas, SiteEffectIs DEF Removing
  <2> QED
    BY <2>1, <2>2
<1>11. /\ siteHost' \in [Sites -> SUBSET SiteParts] /\ sitePools' \in [Sites -> SUBSET Versions]
       /\ \A w \in Sites : w # s => siteHost'[w] = siteHost[w] /\ sitePools'[w] = sitePools[w]
  BY <1>1, <1>10, SiteHas DEF SiteEffect, SiteShapes
<1>12. SiteShapes'
  BY <1>1, <1>7, <1>11, SiteHas DEF SiteShapes, HostStep, SiteMoved, siteHistory
<1>13. SiteGoesOn(i)
  <2>1. SitePlace(siteTask'[i])
    BY <1>2, <1>6, <1>7 DEF SiteMoved, SiteKept, SitePlace
  <2>2. ASSUME kind = "php", at + 1 > 2 PROVE siteWriter = i
    <3>1. at = 3
      BY <1>4, <1>6, <1>6a, <2>2 DEF StepIs
    <3>2. SwitchWrites
      BY DEF SiteStrong
    <3>3. siteTask[i].at > 2 /\ siteTask[i].kind = "php"
      BY <1>2, <1>3, <2>2, <3>1
    <3> QED
      BY <1>1, <3>2, <3>3 DEF SwitchWrites
  <2>3. SiteStays(i)
    BY <1>2, <1>7, <2>1, <2>2 DEF SiteStays, SiteMoved, SiteKept
  <2> QED
    BY <1>7, <2>3 DEF SiteGoesOn, HostStep
<1>14. SiteFixed /\ SiteOpsStay(i)
  BY DEF SiteFixed, SiteOpsStay, SiteRowKept, HostStep, siteHistory
<1>15. ASSUME NEW w \in Sites, Calm(w), w # s PROVE SiteElse(i, w)
  BY <1>1, <1>5, <1>7, <1>11, <1>15 DEF SiteElse, SiteLeaves, HostStep, SiteMoved, SiteKept
<1>16. ASSUME Calm(s) PROVE SiteOwn(s) /\ SiteFails(i, s)
  <2>1. /\ SiteAlone(s) /\ SiteMeets(s, siteTask[i]) /\ SiteMade(s, siteTask[i])
        /\ siteStale \/ SiteRouted(s)
        /\ Settled(s) <=> kind \notin Creation \cup {"php"}
        /\ Settled(s) => SiteRests(s)
    BY <1>1, <1>2, <1>5, <1>16, SiteOwnIs DEF Creation
  <2>2. siteRow' = siteRow /\ siteLeft' = siteLeft /\ siteCaddy' = siteCaddy /\ siteOps' = siteOps
        /\ siteStale' = siteStale
    BY DEF HostStep, siteHistory
  <2>3. siteRow[s] # None /\ siteRow[s].php = old /\ (kind = "php" <=> php # old)
    BY <1>1, <1>2, <1>8, <1>9, <2>1 DEF SiteMeets
  <2>4. kind = "delete" => /\ SiteShrinks(s) /\ step \notin siteHost'[s]
                           /\ step = "php_pool" => sitePools'[s] = sitePools[s] \ {php}
    <3>1. ASSUME kind = "delete" PROVE ~Skipped(i, step) /\ Removing(i, step) /\ step \notin {"remove", "download"}
      BY <1>2, <1>6a, <3>1 DEF Skipped, Removing, StepIs
    <3> QED
      BY <1>4, <1>10, <2>2, <3>1 DEF SiteEffect, SiteShrinks, SiteParts, SiteStepNames
  <2>5. SiteMade(s, siteTask[i])'
    <3>1. CASE kind \in Creation
      <4>1. step \notin {"remove", "download"} /\ ~Removing(i, step)
        BY <1>2, <1>4, <1>6a, <3>1 DEF Creation, Removing, StepIs
      <4>2. /\ siteHost'[s] \subseteq siteHost[s] \cup {step}
            /\ sitePools'[s] = IF step = "php_pool" THEN sitePools[s] \cup {php} ELSE sitePools[s]
        BY <1>4, <1>10, <4>1 DEF SiteEffect, Skipped, SiteParts
      <4>3. kind = "clone" /\ ~siteTask[i].wp => siteHost'[s] \subseteq siteHost[s] \cup ({step} \ {"database"})
        BY <1>2, <1>10, <4>2 DEF Skipped
      <4>4. SiteCreated(s, siteTask[i])
        BY <1>2, <2>1, <3>1 DEF SiteMade
      <4>5. SiteCreated(s, siteTask[i])'
        BY <1>1, <1>2, <1>3, <1>4, <1>7, <1>8, <2>2, <3>1, <4>2, <4>3, <4>4, SiteHas, CreationGoes
      <4> QED
        BY <1>2, <1>7, <3>1, <4>5 DEF SiteMade, SiteMoved, SiteKept, Creation
    <3>2. CASE kind = "delete"
      <4>1. SiteDeleted(s, siteTask[i]) /\ Only(s, {php})
        BY <1>2, <2>1, <2>3, <3>2 DEF SiteMade, SiteRests, Creation
      <4>2. PICK del : del = siteTask[i].php /\ del = php
        BY <1>8
      <4>3. SiteDeleted(s, siteTask[i])'
        BY <1>1, <1>2, <1>3, <1>4, <1>7, <1>8, <2>4, <3>2, <4>1, SiteHas, DeletionGoes
      <4> QED
        BY <1>2, <1>7, <3>2, <4>3 DEF SiteMade, SiteMoved, SiteKept, Creation
    <3>3. CASE kind = "php"
      <4>1. SiteSwitched(s, siteTask[i])
        BY <1>2, <2>1, <3>3 DEF SiteMade
      <4>2. ~Skipped(i, step) /\ step \in {"php_pool", "remove"} /\ (Removing(i, step) <=> step = "remove")
        BY <1>2, <1>4, <1>6a, <3>3 DEF Skipped, Removing, StepIs
      <4>3. /\ step = "php_pool" => sitePools'[s] = sitePools[s] \cup {php}
            /\ step = "remove" => sitePools'[s] = sitePools[s] \ {old}
        BY <1>10, <4>2 DEF SiteEffect
      <4>4. SiteSwitched(s, siteTask[i])'
        BY <1>1, <1>2, <1>3, <1>4, <1>7, <1>8, <1>9, <2>2, <2>3, <3>3, <4>1, <4>3, SiteHas, SwitchGoes
      <4> QED
        BY <1>2, <1>7, <3>3, <4>4 DEF SiteMade, SiteMoved, SiteKept, Creation
    <3>4. CASE kind \notin Creation \cup {"delete", "php"}
      BY <1>2, <1>7, <3>4 DEF SiteMade, SiteMoved, SiteKept
    <3> QED
      BY <3>1, <3>2, <3>3, <3>4
  <2>6. Settled(s) => SiteRests(s)'
    <3> SUFFICES ASSUME Settled(s) PROVE SiteRests(s)'
      OBVIOUS
    <3>1. /\ Only(s, {old}) /\ kind \notin Creation \cup {"php"} /\ php = old
          /\ siteRow[s].status = "active" /\ "remove" \notin siteLeft[s] => old \in sitePools[s]
      BY <2>1, <2>3 DEF SiteRests
    <3>2. CASE kind = "delete"
      <4>1. siteRow[s].status = "deleting"
        BY <1>1, <1>2, <2>1, <3>2 DEF SiteMeets, Creation
      <4>2. Only(s, {old})'
        BY <2>4, <3>1, <3>2, OnlyShrinks DEF SiteShrinks
      <4> QED
        BY <2>2, <2>3, <4>1, <4>2 DEF SiteRests, Only
    <3>3. CASE kind # "delete"
      <4>1. step \in {"database", "download", "configure"} \/ step = "php_pool"
        BY <1>4, <1>6a, <3>1, <3>3, SiteKindsAre DEF Creation, StepIs
      <4>2. sitePools'[s] \in {sitePools[s], sitePools[s] \cup {old}}
        <5>1. ~Removing(i, step)
          BY <1>2, <3>3, <4>1 DEF Removing
        <5> QED
          BY <1>4, <1>10, <3>1, <4>1, <5>1 DEF SiteEffect, SiteParts
      <4>3. Only(s, {old})' /\ (old \in sitePools[s] => old \in sitePools'[s])
        BY <2>2, <3>1, <4>2 DEF Only
      <4> QED
        BY <2>2, <2>3, <3>1, <4>3 DEF SiteRests, Only
    <3> QED
      BY <3>2, <3>3
  <2>7. SiteAlone(s)' /\ SiteThere(s)'
    BY <1>1, <1>5, <1>7, <2>1, <2>2, <2>5, <2>6, SiteOwnMoves
  <2>8. siteStale' \/ SiteRouted(s)'
    <3>1. /\ kind = "php" => at # 2
          /\ kind = "create" => at # 4
          /\ kind = "clone" => at # 5
          /\ kind = "delete" => at # 1
      BY <1>4, <1>6a DEF StepIs
    <3>2. SwitchedOver(i) => SwitchedOver(i)'
      BY <1>3, <1>6, <1>7 DEF SwitchedOver, SiteMoved, SiteKept
    <3>3. SiteRouted(s) => SiteRouted(s)'
      BY <1>1, <1>2, <1>3, <1>5, <1>6, <1>7, <2>1, <2>2, <3>1, <3>2, SiteHas, SiteRoutedKept
    <3> QED
      BY <2>1, <2>2, <3>3
  <2>9. SiteFails(i, s)
    <3>1. kind = "delete" => SiteStillFailed(s)
      BY <1>1, <1>2, <2>1, <2>2, <2>3, <2>4 DEF SiteStillFailed, SiteMeets, Creation
    <3>2. SiteLive(i)'
      BY <1>7 DEF SiteMoved, SiteLive
    <3> QED
      BY <1>2, <3>1, <3>2 DEF SiteFails
  <2> QED
    BY <2>7, <2>8, <2>9 DEF SiteOwn
<1> QED
  BY <1>1, <1>5, <1>12, <1>13, <1>14, <1>15, <1>16, SiteStrongFrom

\* The step that a task is at.
LEMMA SiteAtStep ==
    ASSUME SiteStrong, NEW i \in SiteRequests, AtHand(siteTask[i]),
           siteTask[i].pc = "do" \/ siteTask[i].at > 0
    PROVE  /\ SiteLive(i) /\ siteTask[i].at \in DOMAIN SiteSteps[siteTask[i].kind]
           /\ StepOf(i) \in SiteStepNames /\ StepOf(i) = SiteSteps[siteTask[i].kind][siteTask[i].at]
           /\ siteTask[i].at > 0
           /\ StepIs(siteTask[i].kind, siteTask[i].at, StepOf(i))
<1>1. SiteLive(i)
  BY DEF AtHand, SiteLive
<1>2. PICK kind \in SiteKinds : kind = siteTask[i].kind
  BY <1>1, SiteHas
<1>3. PICK at \in Nat : at = siteTask[i].at
  BY <1>1, SiteHas
<1>4. SitePlace(siteTask[i])
  BY <1>1, SiteHas
<1>5. at \in DOMAIN SiteSteps[kind]
  <2>1. CASE siteTask[i].pc = "do"
    BY <1>2, <1>3, <1>4, <2>1 DEF SitePlace
  <2>2. CASE siteTask[i].pc = "undo"
    <3>1. at \in Undoable(kind) /\ at > 0
      BY <1>2, <1>3, <1>4, <2>2 DEF SitePlace
    <3>2. CASE kind = "create"
      BY <3>1, <3>2, UndoableAre, SiteStepsCreate
    <3>3. CASE kind = "clone"
      BY <3>1, <3>3, UndoableAre, SiteStepsClone
    <3>4. CASE kind \in {"wordpress", "php"}
      BY <3>1, <3>4, UndoableAre, SiteStepsWordpress, SiteStepsPhp
    <3>5. CASE kind \notin {"create", "clone", "wordpress", "php"}
      BY <3>1, <3>5, UndoableAre
    <3> QED
      BY <3>2, <3>3, <3>4, <3>5
  <2> QED
    BY <2>1, <2>2 DEF AtHand
<1> QED
  BY <1>1, <1>2, <1>3, <1>5, SiteStepNamed, SiteStepAt DEF StepOf

\* Handlers without an operation have none.
LEMMA SiteInlineNone ==
    ASSUME SiteStrong, NEW i \in SiteRequests, SiteLive(i), siteTask[i].kind \in Inline
    PROVE  siteOps[i] = None
<1>1. siteOps[i] \in SiteOpSet \cup {None} /\ SiteOpsOwned
  BY DEF SiteStrong, SiteShapes
<1>2. siteOps[i] # None => siteOps[i].kind \notin Inline
  BY <1>1 DEF SiteOpSet
<1> QED
  BY <1>1, <1>2 DEF SiteOpsOwned

\* What rests, rests when pools are added that its row names, or, when it is
\* not active, taken away.
LEMMA SiteRestsKept ==
    ASSUME NEW s \in Sites, SiteRests(s), siteRow[s] # None, siteRow'[s] # None,
           siteRow'[s].php = siteRow[s].php,
           siteLeft[s] \subseteq siteLeft'[s],
           \/ siteRow'[s].status # "active" /\ sitePools'[s] \subseteq sitePools[s]
           \/ /\ siteRow'[s].status = "active" => siteRow[s].status = "active"
              /\ sitePools'[s] \in {sitePools[s], sitePools[s] \cup {siteRow[s].php}}
    PROVE  SiteRests(s)'
<1>1. /\ Only(s, {siteRow[s].php})
      /\ siteRow[s].status = "active" /\ "remove" \notin siteLeft[s] => siteRow[s].php \in sitePools[s]
  BY DEF SiteRests
<1>2. Only(s, {siteRow[s].php})' /\ (siteRow'[s].status = "active" /\ "remove" \notin siteLeft'[s]
        => siteRow[s].php \in sitePools'[s])
  BY <1>1 DEF Only
<1> QED
  BY <1>2 DEF SiteRests, Only

\* A task that turns to undoing.
LEMMA SiteTurns ==
    ASSUME SiteStrong, NEW i \in SiteRequests, AtHand(siteTask[i]),
           siteTask[i].pc = "do" \/ siteTask[i].at > 0,
           siteTask[i].kind \notin {"settings", "resync"},
           Goto(i, "undo", LastUndoable(i, siteTask[i].at - 1)), UNCHANGED siteWriter
    PROVE  \E at \in Nat :
             /\ SiteMoved(i, "undo", at) /\ SiteGoesOn(i)
             /\ siteTask[i].kind \in Creation => at = siteTask[i].at - 1
             /\ siteTask[i].kind = "php" => at = IF siteTask[i].at = 1 THEN 0 ELSE 1
             /\ siteTask[i].kind = "delete" => at = 0
<1>1. PICK kind \in SiteKinds : kind = siteTask[i].kind
  BY SiteAtStep, SiteHas
<1>2. PICK n \in Nat : n = siteTask[i].at - 1 /\ n + 1 \in DOMAIN SiteSteps[kind] /\ n + 1 = siteTask[i].at
  BY <1>1, SiteAtStep, SiteHas
<1>3. kind \in Creation => n <= 6 /\ (kind = "create" => n <= 5)
  BY <1>2, SiteStepsCreate, SiteStepsClone DEF Creation
<1>4. PICK at : at = Greatest({j \in Undoable(kind) : j <= n})
  OBVIOUS
<1>5. /\ at \in Undoable(kind) \cup {0} /\ (kind \in Creation => at = n)
      /\ kind = "php" => at = IF n = 0 THEN 0 ELSE 1
      /\ kind = "delete" => at = 0
  BY <1>3, <1>4, UndoNext
<1>6. at \in Nat
  BY <1>5, UndoableAre, SiteKindsAre
<1>7. at = LastUndoable(i, siteTask[i].at - 1)
  BY <1>1, <1>2, <1>4 DEF LastUndoable
<1>8. SiteMoved(i, "undo", at)
  BY <1>6, <1>7, SiteAtStep, SiteHas, SiteGoto
<1>9. SitePlace(siteTask'[i]) /\ SiteStays(i)
  BY <1>1, <1>5, <1>8 DEF SiteMoved, SiteKept, SitePlace, SiteStays
<1> QED
  BY <1>1, <1>2, <1>5, <1>6, <1>8, <1>9 DEF SiteGoesOn

\* What a command that fails may leave: at most what it would have done.
LEMMA HostStepFailsKeeps ==
    ASSUME SiteStrong, NEW i \in SiteRequests, HostStepFails(i)
    PROVE  SiteStrong'
<1>1. SiteLive(i) /\ siteTask[i].pc = "do" /\ AtHand(siteTask[i])
  BY DEF HostStepFails, SiteLive, AtHand
<1>2. PICK kind \in SiteKinds : kind = siteTask[i].kind
  BY <1>1, SiteHas
<1>3. PICK at \in DOMAIN SiteSteps[kind] : at = siteTask[i].at
  BY <1>1, <1>2, SiteAtStep
<1>4. PICK step \in SiteStepNames \ {"caddy", "finalize"} : step = SiteSteps[kind][at] /\ step = StepOf(i)
  BY <1>1, <1>2, <1>3, SiteAtStep DEF HostStepFails
<1>5. PICK s \in Sites : s = siteTask[i].site
  BY <1>1, SiteHas
<1>6. StepIs(kind, at, step) /\ at \in Nat
  BY <1>1, <1>2, <1>3, <1>4, SiteAtStep, SiteHas
<1>7. PICK php \in Versions : php = siteTask[i].php
  BY <1>1, SiteHas
<1>8. PICK old \in Versions : old = siteTask[i].old
  BY <1>1, SiteHas
<1>9. ~Skipped(i, step) /\ (UNCHANGED <<siteHost, sitePools>>
                            \/ SiteEffect(s, step, ~Removing(i, step), php, old))
  <2>1. ~Skipped(i, step) /\ (StepEffect(i, step, ~Removing(i, step)) \/ UNCHANGED <<siteHost, sitePools>>)
    BY <1>4 DEF HostStepFails
  <2>3. StepEffect(i, step, ~Removing(i, step)) => SiteEffect(s, step, ~Removing(i, step), php, old)
    BY <1>1, <1>5, <1>7, <1>8, SiteHas, SiteEffectIs DEF Removing
  <2> QED
    BY <2>1, <2>3
<1>10. /\ siteHost' \in [Sites -> SUBSET SiteParts] /\ sitePools' \in [Sites -> SUBSET Versions]
       /\ \A w \in Sites : w # s => siteHost'[w] = siteHost[w] /\ sitePools'[w] = sitePools[w]
  BY <1>1, <1>9, SiteHas DEF SiteEffect, SiteShapes
<1>11. /\ siteLeft' \in [Sites -> SUBSET SiteStepNames] /\ siteLeft'[s] = siteLeft[s] \cup {step}
       /\ \A w \in Sites : w # s => siteLeft'[w] = siteLeft[w]
  BY <1>1, <1>4, <1>5, SiteHas DEF SiteShapes, HostStepFails, MayHaveLeft
<1>12. /\ siteRow' = siteRow /\ siteCaddy' = siteCaddy /\ siteOps' = siteOps
       /\ siteOverlap' = siteOverlap /\ siteStale' = siteStale /\ siteCrashes' = siteCrashes
  BY DEF HostStepFails, siteHistory
<1>13. kind \in Inline <=> kind \in {"php", "settings"}
  BY <1>4, <1>6 DEF Inline, StepIs
<1>14. /\ kind \in Inline => SiteEnded(i) /\ siteWriter' \in SiteRequests \cup {None}
       /\ kind \notin Inline => /\ UNCHANGED siteWriter
                                /\ Goto(i, "undo", LastUndoable(i, siteTask[i].at - 1))
  BY <1>1, <1>2, SiteHas, SiteEnds DEF HostStepFails
<1>15. kind \notin Inline =>
         \E new \in Nat : /\ SiteMoved(i, "undo", new) /\ SiteGoesOn(i)
                          /\ kind \in Creation => new = at - 1
  BY <1>1, <1>2, <1>3, <1>13, <1>14, SiteTurns DEF Inline
<1>16. SiteGoesOn(i) /\ siteTask' \in [SiteRequests -> SiteTasks]
       /\ (\A j \in SiteRequests : j # i => siteTask'[j] = siteTask[j])
       /\ siteTask'[i].site \in {s, None}
       /\ (AtHand(siteTask'[i]) => siteTask'[i].id = siteTask[i].id)
  BY <1>5, <1>14, <1>15 DEF SiteGoesOn, SiteMoved, SiteKept, SiteEnded, AtHand
<1>17. SiteShapes'
  <2>1. siteWriter' \in SiteRequests \cup {None}
    BY <1>1, <1>14, SiteHas DEF SiteShapes
  <2>2. siteFaults' \in Nat /\ siteCrashes' \in Nat /\ siteFaults' + siteCrashes' <= SiteMaxFaults
    BY <1>1, <1>12, SiteHas, SiteAssumption DEF SiteShapes, HostStepFails, Fault
  <2> QED
    BY <1>1, <1>10, <1>11, <1>12, <1>16, <2>1, <2>2, SiteHas DEF SiteShapes
<1>18. SiteFixed /\ SiteOpsStay(i)
  BY <1>12 DEF SiteFixed, SiteOpsStay, SiteRowKept
<1>19. ASSUME NEW w \in Sites, Calm(w), w # s PROVE SiteElse(i, w)
  BY <1>1, <1>5, <1>10, <1>11, <1>12, <1>16, <1>19, SiteAssumption DEF SiteElse, SiteLeaves
<1>20. ASSUME Calm(s) PROVE SiteOwn(s) /\ SiteFails(i, s)
  <2>1. /\ SiteAlone(s) /\ SiteMeets(s, siteTask[i]) /\ SiteMade(s, siteTask[i])
        /\ siteStale \/ SiteRouted(s)
        /\ Settled(s) <=> kind \notin Creation \cup {"php"}
        /\ Settled(s) => SiteRests(s)
    BY <1>1, <1>2, <1>5, <1>20, SiteOwnIs DEF Creation
  <2>2. /\ siteRow[s] # None /\ siteRow[s].php = old /\ (kind = "php" <=> php # old)
        /\ siteRow[s].status = IF kind \in Creation THEN "provisioning"
                               ELSE IF kind = "delete" THEN "deleting" ELSE "active"
    BY <1>1, <1>2, <1>7, <1>8, <2>1 DEF SiteMeets
  <2>3. CASE kind \in Inline
    <3>1. SiteRests(s)'
      <4>1. CASE kind = "php"
        <5>1. step \in {"php_pool", "remove"} /\ (step = "php_pool" => at = 1)
          BY <1>4, <1>6, <4>1 DEF StepIs
        <5>2. {"php_pool", "remove"} \cap siteLeft'[s] # {}
          BY <1>11, <5>1
        <5>3. step = "php_pool" /\ "remove" \notin siteLeft[s] => old \in sitePools[s]
          BY <1>1, <1>2, <1>3, <1>8, <2>1, <4>1, <5>1 DEF SiteMade, SiteSwitched
        <5>4. step = "php_pool" => sitePools[s] \subseteq sitePools'[s]
          BY <1>2, <1>9, <4>1 DEF SiteEffect, Removing
        <5>5. "remove" \notin siteLeft'[s] => old \in sitePools'[s]
          BY <1>11, <5>1, <5>3, <5>4
        <5> QED
          BY <1>12, <2>2, <5>2, <5>5 DEF SiteRests, Only
      <4>2. CASE kind = "settings"
        <5>1. step = "php_pool" /\ ~Removing(i, step)
          BY <1>2, <1>4, <1>6, <4>2 DEF StepIs, Removing
        <5>2. sitePools'[s] \in {sitePools[s], sitePools[s] \cup {siteRow[s].php}}
          BY <1>9, <2>2, <4>2, <5>1 DEF SiteEffect
        <5> QED
          BY <1>11, <1>12, <2>1, <2>2, <4>2, <5>2, SiteRestsKept DEF Creation
      <4> QED
        BY <1>13, <2>3, <4>1, <4>2
    <3>2. SiteAlone(s)' /\ SiteThere(s)'
      BY <1>5, <1>12, <1>14, <2>1, <2>2, <2>3, <3>1, SiteOwnEnds DEF SiteRowKept, Creation, Inline
    <3>3. SwitchedOver(i) => "remove" \in siteLeft'[s]
      BY <1>2, <1>3, <1>4, <1>6, <1>11 DEF SwitchedOver, StepIs
    <3>4. SiteRouted(s) => SiteRouted(s)'
      BY <1>1, <1>5, <1>11, <1>12, <1>14, <2>1, <2>3, <3>3, SiteHas, SiteRoutedKept
    <3>5. siteOps'[i] = None
      BY <1>1, <1>2, <1>12, <2>3, SiteInlineNone
    <3>6. kind # "delete"
      BY <2>3 DEF Inline
    <3> QED
      BY <1>2, <1>12, <2>1, <3>2, <3>4, <3>5, <3>6 DEF SiteOwn, SiteFails
  <2>4. CASE kind \notin Inline
    <3>0. PICK new \in Nat : SiteMoved(i, "undo", new) /\ (kind \in Creation => new = at - 1)
      BY <1>15, <2>4
    <3>1. kind = "delete" => SiteShrinks(s)
      <4>1. ASSUME kind = "delete" PROVE Removing(i, step) /\ step \notin {"remove", "download"}
        BY <1>2, <1>6, <4>1 DEF Removing, StepIs
      <4> QED
        BY <1>4, <1>9, <1>11, <4>1 DEF SiteEffect, SiteShrinks, SiteParts, SiteStepNames
    <3>2. SiteMade(s, siteTask[i])'
      <4>1. CASE kind \in Creation
        <5>1. step \notin {"remove", "download"} /\ ~Removing(i, step)
          BY <1>2, <1>4, <1>6, <4>1 DEF Creation, Removing, StepIs
        <5>2. /\ siteHost'[s] \subseteq siteHost[s] \cup {step}
              /\ step # "php_pool" => sitePools'[s] = sitePools[s]
          BY <1>4, <1>9, <5>1 DEF SiteEffect, SiteParts
        <5>3. kind = "clone" /\ ~siteTask[i].wp => siteHost'[s] \subseteq siteHost[s] \cup ({step} \ {"database"})
          BY <1>2, <1>9, <5>2 DEF Skipped
        <5>4. SiteCreated(s, siteTask[i])
          BY <1>2, <2>1, <4>1 DEF SiteMade
        <5>5. SiteCreated(s, siteTask[i])'
          BY <1>1, <1>2, <1>3, <1>4, <1>11, <3>0, <4>1, <5>2, <5>3, <5>4, SiteHas, CreationFails
        <5> QED
          BY <1>2, <3>0, <4>1, <5>5 DEF SiteMade, SiteMoved, SiteKept, Creation
      <4>2. CASE kind = "delete"
        BY <1>2, <3>0, <4>2 DEF SiteMade, SiteDeleted, SiteMoved, SiteKept, Creation
      <4>3. CASE kind \notin Creation \cup {"delete"}
        BY <1>2, <2>4, <3>0, <4>3 DEF SiteMade, SiteMoved, SiteKept, Inline
      <4> QED
        BY <4>1, <4>2, <4>3
    <3>3. Settled(s) => SiteRests(s)'
      <4>1. ASSUME Settled(s), kind # "delete" PROVE sitePools'[s] = sitePools[s]
        <5>1. step \notin {"php_pool", "remove"}
          BY <1>2, <1>4, <1>6, <2>1, <2>4, <4>1, SiteKindsAre DEF StepIs, Inline, Creation
        <5> QED
          BY <1>4, <1>9, <5>1 DEF SiteEffect
      <4> QED
        BY <1>11, <1>12, <2>1, <2>2, <3>1, <4>1, SiteRestsKept DEF SiteShrinks, Creation
    <3>4. SiteAlone(s)' /\ SiteThere(s)'
      BY <1>1, <1>5, <1>12, <2>1, <3>0, <3>2, <3>3, SiteOwnMoves
    <3>5. SwitchedOver(i) => "remove" \in siteLeft'[s]
      BY <1>2, <2>4 DEF SwitchedOver, Inline
    <3>6. SiteRouted(s) => SiteRouted(s)'
      BY <1>1, <1>5, <1>11, <1>12, <2>1, <3>0, <3>5, SiteHas, SiteRoutedKept
    <3>7. SiteLive(i)'
      BY <3>0 DEF SiteMoved, SiteLive
    <3>8. kind = "delete" => SiteStillFailed(s)
      BY <1>12, <2>2, <3>1 DEF SiteStillFailed, Creation
    <3> QED
      BY <1>2, <1>12, <2>1, <3>4, <3>6, <3>7, <3>8 DEF SiteOwn, SiteFails
  <2> QED
    BY <2>3, <2>4
<1> QED
  BY <1>1, <1>5, <1>16, <1>17, <1>18, <1>19, <1>20, SiteStrongFrom

\* A step that is undone, or whose undo fails.
LEMMA UndoKeeps ==
    ASSUME SiteStrong, NEW i \in SiteRequests, UndoStep(i) \/ UndoFails(i)
    PROVE  SiteStrong'
<1>1. /\ SiteLive(i) /\ siteTask[i].pc = "undo" /\ siteTask[i].at > 0 /\ AtHand(siteTask[i])
      /\ StepOf(i) # "caddy" /\ Goto(i, "undo", LastUndoable(i, siteTask[i].at - 1))
      /\ UNCHANGED siteWriter
  BY DEF UndoStep, UndoFails, SiteLive, AtHand
<1>2. PICK kind \in SiteKinds : kind = siteTask[i].kind
  BY <1>1, SiteHas
<1>3. PICK at \in DOMAIN SiteSteps[kind] : at = siteTask[i].at
  BY <1>1, <1>2, SiteAtStep
<1>4. PICK step \in SiteStepNames \ {"caddy"} : step = SiteSteps[kind][at] /\ step = StepOf(i)
  BY <1>1, <1>2, <1>3, SiteAtStep
<1>5. PICK s \in Sites : s = siteTask[i].site
  BY <1>1, SiteHas
<1>6. StepIs(kind, at, step) /\ at \in Nat
  BY <1>1, <1>2, <1>3, <1>4, SiteAtStep, SiteHas
<1>7. PICK php \in Versions : php = siteTask[i].php
  BY <1>1, SiteHas
<1>8. PICK old \in Versions : old = siteTask[i].old
  BY <1>1, SiteHas
<1>9. kind \in Creation \cup {"wordpress", "php"} /\ (kind = "php" => at = 1) /\ step # "finalize"
  <2>1. at \in Undoable(kind)
    BY <1>1, <1>2, <1>3, <1>6, SiteHas DEF SitePlace
  <2> QED
    BY <1>6, <2>1, UndoableAre DEF Creation, StepIs
<1>10. \/ /\ siteLeft' = siteLeft
          /\ \/ Skipped(i, step) /\ UNCHANGED <<siteHost, sitePools>>
             \/ SiteEffect(s, step, FALSE, php, old)
       \/ /\ ~Skipped(i, step) /\ UNCHANGED <<siteHost, sitePools>>
          /\ siteLeft' = [siteLeft EXCEPT ![s] = @ \cup {step}]
  <2>1. CASE UndoStep(i)
    <3>1. siteLeft' = siteLeft /\ (IF Skipped(i, step) THEN UNCHANGED <<siteHost, sitePools>>
                                   ELSE StepEffect(i, step, FALSE))
      BY <1>4, <2>1 DEF UndoStep
    <3>2. StepEffect(i, step, FALSE) => SiteEffect(s, step, FALSE, php, old)
      BY <1>1, <1>4, <1>5, <1>7, <1>8, SiteHas, SiteEffectIs
    <3> QED
      BY <3>1, <3>2
  <2>2. CASE UndoFails(i)
    BY <1>4, <1>5, <2>2 DEF UndoFails, MayHaveLeft
  <2> QED
    BY <2>1, <2>2
<1>11. /\ siteHost' \in [Sites -> SUBSET SiteParts] /\ sitePools' \in [Sites -> SUBSET Versions]
       /\ siteLeft' \in [Sites -> SUBSET SiteStepNames] /\ siteLeft[s] \subseteq siteLeft'[s]
       /\ \A w \in Sites : w # s => /\ siteHost'[w] = siteHost[w] /\ sitePools'[w] = sitePools[w]
                                    /\ siteLeft'[w] = siteLeft[w]
  BY <1>1, <1>4, <1>10, SiteHas DEF SiteEffect, SiteShapes
<1>12. /\ siteRow' = siteRow /\ siteCaddy' = siteCaddy /\ siteOps' = siteOps
       /\ siteOverlap' = siteOverlap /\ siteStale' = siteStale /\ siteCrashes' = siteCrashes
  BY DEF UndoStep, UndoFails, siteHistory
<1>13. PICK new \in Nat : /\ SiteMoved(i, "undo", new) /\ SiteGoesOn(i)
                          /\ kind \in Creation => new = at - 1
                          /\ kind = "php" => new = 0
  BY <1>1, <1>2, <1>3, <1>9, SiteTurns DEF Creation
<1>14. SiteShapes'
  <2>1. siteFaults' \in Nat /\ siteFaults' + siteCrashes' <= SiteMaxFaults
    <3>1. siteFaults \in Nat /\ siteCrashes \in Nat /\ siteFaults + siteCrashes <= SiteMaxFaults
      BY <1>1, SiteHas DEF SiteShapes
    <3>2. siteFaults' = siteFaults \/ (siteFaults' = siteFaults + 1 /\ siteFaults + siteCrashes < SiteMaxFaults)
      BY DEF UndoStep, UndoFails, Fault
    <3> QED
      BY <1>12, <3>1, <3>2, SiteAssumption
  <2> QED
    BY <1>1, <1>11, <1>12, <1>13, <2>1, SiteHas DEF SiteShapes, SiteMoved
<1>15. SiteFixed /\ SiteOpsStay(i)
  BY <1>12 DEF SiteFixed, SiteOpsStay, SiteRowKept
<1>16. ASSUME NEW w \in Sites, Calm(w), w # s PROVE SiteElse(i, w)
  BY <1>1, <1>5, <1>11, <1>12, <1>13, <1>16 DEF SiteElse, SiteLeaves, SiteMoved, SiteKept
<1>17. ASSUME Calm(s) PROVE SiteOwn(s) /\ SiteFails(i, s)
  <2>1. /\ SiteAlone(s) /\ SiteMeets(s, siteTask[i]) /\ SiteMade(s, siteTask[i])
        /\ siteStale \/ SiteRouted(s)
        /\ Settled(s) <=> kind \notin Creation \cup {"php"}
        /\ Settled(s) => SiteRests(s)
    BY <1>1, <1>2, <1>5, <1>17, SiteOwnIs DEF Creation
  <2>2. siteRow[s] # None /\ (kind = "php" <=> php # old)
    BY <1>1, <1>2, <1>7, <1>8, <2>1 DEF SiteMeets
  <2>3. SiteMade(s, siteTask[i])'
    <3>1. CASE kind \in Creation
      <4>1. step \notin {"remove", "download"}
        BY <1>6, <3>1 DEF Creation, StepIs
      <4>2. SiteCreated(s, siteTask[i])
        BY <1>2, <2>1, <3>1 DEF SiteMade
      <4>3. siteHost[s] \subseteq SiteParts /\ (Skipped(i, step) => step = "database" /\ "database" \notin siteHost[s])
        BY <1>1, <1>5, <4>2, SiteHas DEF SiteShapes, SiteCreated, Skipped
      <4>4. /\ siteHost'[s] \subseteq siteHost[s]
            /\ step \notin siteHost'[s] \/ step \in siteLeft'[s]
            /\ IF step = "php_pool"
               THEN sitePools'[s] = sitePools[s] \ {php} \/ step \in siteLeft'[s]
               ELSE sitePools'[s] = sitePools[s]
        <5>1. CASE Skipped(i, step) /\ UNCHANGED <<siteHost, sitePools>>
          BY <4>3, <5>1
        <5>2. CASE SiteEffect(s, step, FALSE, php, old)
          BY <4>1, <4>3, <5>2 DEF SiteEffect, SiteParts
        <5>3. CASE UNCHANGED <<siteHost, sitePools>> /\ siteLeft' = [siteLeft EXCEPT ![s] = @ \cup {step}]
          <6>1. step \in siteLeft'[s]
            BY <1>1, <5>3, SiteHas DEF SiteShapes
          <6> QED
            BY <5>3, <6>1
        <5> QED
          BY <1>10, <5>1, <5>2, <5>3
      <4>5. SiteCreated(s, siteTask[i])'
        BY <1>1, <1>2, <1>3, <1>4, <1>7, <1>11, <1>13, <3>1, <4>2, <4>4, SiteHas, CreationUndoes
      <4> QED
        BY <1>2, <1>13, <3>1, <4>5 DEF SiteMade, SiteMoved, SiteKept, Creation
    <3>2. CASE kind = "php"
      <4>1. step = "php_pool" /\ at = 1 /\ ~Skipped(i, step)
        BY <1>6, <1>9, <3>2 DEF StepIs, Skipped
      <4>2. \/ siteLeft'[s] = siteLeft[s] /\ sitePools'[s] = sitePools[s] \ {php}
            \/ siteLeft'[s] = siteLeft[s] \cup {"php_pool"} /\ sitePools'[s] = sitePools[s]
        <5>1. siteLeft' = [siteLeft EXCEPT ![s] = @ \cup {step}] => siteLeft'[s] = siteLeft[s] \cup {"php_pool"}
          BY <1>1, <4>1, SiteHas DEF SiteShapes
        <5> QED
          BY <1>10, <4>1, <5>1 DEF SiteEffect
      <4>3. SiteSwitched(s, siteTask[i])
        BY <1>2, <2>1, <3>2 DEF SiteMade
      <4>4. SiteSwitched(s, siteTask[i])'
        BY <1>1, <1>2, <1>3, <1>7, <1>8, <1>13, <2>2, <3>2, <4>1, <4>2, <4>3, SiteHas, SwitchUndoes
      <4> QED
        BY <1>2, <1>13, <3>2, <4>4 DEF SiteMade, SiteMoved, SiteKept, Creation
    <3>3. CASE kind = "wordpress"
      BY <1>2, <1>13, <3>3 DEF SiteMade, SiteMoved, SiteKept, Creation
    <3> QED
      BY <1>9, <3>1, <3>2, <3>3
  <2>4. Settled(s) => SiteRests(s)'
    <3>1. ASSUME Settled(s) PROVE sitePools'[s] = sitePools[s]
      <4>1. step \notin {"php_pool", "remove"}
        BY <1>6, <1>9, <2>1, <3>1 DEF StepIs
      <4> QED
        BY <1>10, <4>1 DEF SiteEffect
    <3> QED
      BY <1>11, <1>12, <2>1, <2>2, <3>1, SiteRestsKept
  <2>5. SiteAlone(s)' /\ SiteThere(s)'
    BY <1>1, <1>5, <1>12, <1>13, <2>1, <2>3, <2>4, SiteOwnMoves
  <2>6. ~SwitchedOver(i)
    BY <1>1 DEF SwitchedOver
  <2>7. SiteRouted(s) => SiteRouted(s)'
    BY <1>1, <1>5, <1>11, <1>12, <1>13, <2>1, <2>6, SiteHas, SiteRoutedKept
  <2>8. SiteLive(i)' /\ kind # "delete"
    BY <1>9, <1>13 DEF SiteMoved, SiteLive, Creation
  <2> QED
    BY <1>2, <1>12, <2>1, <2>5, <2>7, <2>8 DEF SiteOwn, SiteFails
<1> QED
  BY <1>1, <1>5, <1>13, <1>14, <1>15, <1>16, <1>17, SiteStrongFrom

-----------------------------------------------------------------------------
(* Configurations.                                                         *)

LEMMA ServedType ==
    ASSUME SiteStrong, NEW i \in SiteRequests, SiteLive(i), NEW exclude
    PROVE  Served(i, exclude) \in SiteRouting
<1>1. PICK php \in Versions : php = siteTask[i].php
  BY SiteHas
<1>2. \A w \in Sites : siteRow[w] # None => siteRow[w].php \in Versions
  BY SiteHas DEF SiteShapes, SiteRowSet
<1>3. PICK f : f = Served(i, exclude)
  OBVIOUS
<1>4. f = [w \in Sites |->
        IF w \in exclude \/ siteRow[w] = None \/ siteRow[w].status \notin {"active", "provisioning"}
        THEN None
        ELSE IF siteTask[i].kind = "php" /\ w \in RowsOf(i) THEN php ELSE siteRow[w].php]
  BY <1>1, <1>3 DEF Served
<1>5. f \in [Sites -> Versions \cup {None}]
  BY <1>2, <1>4
<1> QED
  BY <1>3, <1>5 DEF SiteRouting

\* To build a configuration is to remember it, and for a switch of PHP to
\* begin to write.
LEMMA BuildConfigKeeps ==
    ASSUME SiteStrong, NEW i \in SiteRequests, BuildConfig(i)
    PROVE  SiteStrong'
<1>1. /\ SiteLive(i) /\ AtHand(siteTask[i]) /\ siteTask[i].at > 0 /\ StepOf(i) = "caddy"
  BY DEF BuildConfig, AtCaddy, SiteLive, AtHand
<1>2. PICK c : c = [routes |-> Served(i, Excluded(i)), before |-> siteCaddy]
  OBVIOUS
<1>3. c \in SiteConfigs
  BY <1>1, <1>2, ServedType, SiteHas DEF SiteConfigs, SiteShapes
<1>4. PICK new : new = [siteTask[i] EXCEPT !.config = c]
  OBVIOUS
<1>5. /\ new \in SiteAtWork /\ new.config = c
      /\ new.kind = siteTask[i].kind /\ new.site = siteTask[i].site /\ new.id = siteTask[i].id
      /\ new.old = siteTask[i].old /\ new.php = siteTask[i].php /\ new.wp = siteTask[i].wp
      /\ new.pc = siteTask[i].pc /\ new.at = siteTask[i].at
  BY <1>1, <1>3, <1>4, SiteHas DEF SiteAtWork
<1>6. siteTask' = [siteTask EXCEPT ![i] = new]
  BY <1>2, <1>4 DEF BuildConfig
<1>7. siteTask' \in [SiteRequests -> SiteTasks] /\ siteTask'[i] = new
      /\ \A j \in SiteRequests : j # i => siteTask'[j] = siteTask[j]
  BY <1>1, <1>5, <1>6, SiteHas DEF SiteShapes, SiteTasks
<1>8. \A j \in SiteRequests :
        /\ siteTask'[j].kind = siteTask[j].kind /\ siteTask'[j].site = siteTask[j].site
        /\ siteTask'[j].id = siteTask[j].id /\ siteTask'[j].old = siteTask[j].old
        /\ siteTask'[j].php = siteTask[j].php /\ siteTask'[j].wp = siteTask[j].wp
        /\ siteTask'[j].pc = siteTask[j].pc /\ siteTask'[j].at = siteTask[j].at
  BY <1>5, <1>7
<1>9. /\ siteRow' = siteRow /\ siteHost' = siteHost /\ sitePools' = sitePools
      /\ siteCaddy' = siteCaddy /\ siteOps' = siteOps /\ siteLeft' = siteLeft
      /\ siteFaults' = siteFaults /\ siteCrashes' = siteCrashes
      /\ siteOverlap' = siteOverlap /\ siteStale' = siteStale
  BY DEF BuildConfig, siteHistory
<1>10. SiteShapes'
  <2>1. siteWriter' \in SiteRequests \cup {None}
    BY <1>1, SiteHas DEF BuildConfig, SiteShapes
  <2> QED
    BY <1>1, <1>7, <1>9, <2>1, SiteHas DEF SiteShapes
<1>11. SitePlaces'
  <2>1. ASSUME NEW j \in SiteRequests, SiteLive(j)' PROVE SitePlace(siteTask[j])'
    <3>1. SiteLive(j) /\ SitePlace(siteTask[j])
      BY <1>8, <2>1, SiteHas DEF SiteLive
    <3>2. CASE j # i
      BY <1>7, <3>1, <3>2 DEF SitePlace
    <3>3. CASE j = i
      BY <1>1, <1>5, <1>7, <3>1, <3>3 DEF SitePlace, StepOf, AtHand
    <3> QED
      BY <3>2, <3>3
  <2> QED
    BY <2>1 DEF SitePlaces
<1>12. SwitchWrites'
  <2>1. ASSUME NEW j \in SiteRequests, siteTask'[j].kind = "php", siteTask'[j].pc = "do",
               siteTask'[j].at > 2 \/ siteTask'[j].config # None
        PROVE  siteWriter' = j
    <3>1. CASE j # i
      <4>1. siteWriter = j
        BY <1>7, <2>1, <3>1 DEF SiteStrong, SwitchWrites
      <4>2. siteWriter \in {None, i} /\ j # None
        BY SiteNones DEF BuildConfig, CanCommit
      <4> QED
        BY <3>1, <4>1, <4>2
    <3>2. CASE j = i
      BY <1>8, <2>1, <3>2 DEF BuildConfig
    <3> QED
      BY <3>1, <3>2
  <2> QED
    BY <2>1 DEF SwitchWrites
<1>13. SiteIds' /\ SiteOpsOwned'
  <2>1. SiteIds /\ SiteOpsOwned
    BY DEF SiteStrong
  <2> QED
    BY <1>8, <1>9, <2>1 DEF SiteIds, SiteOpsOwned, SiteLive
<1>14. ASSUME NEW s \in Sites, Calm(s)'
       PROVE  SiteAlone(s)' /\ SiteThere(s)' /\ (siteStale' \/ SiteRouted(s)')
  <2>1. SiteAlone(s) /\ SiteThere(s) /\ (siteStale \/ SiteRouted(s))
    BY <1>9, <1>14 DEF SiteStrong, Calm
  <2>2. SiteAlone(s)'
    BY <1>8, <1>9, <2>1 DEF SiteAlone, SiteMeets, AtHand
  <2>3. SiteThere(s)'
    <3>1. SiteRests(s)' <=> SiteRests(s)
      BY <1>9 DEF SiteRests, Only
    <3>2. Settled(s)' <=> Settled(s)
      BY <1>8 DEF Settled
    <3>3. ASSUME NEW j \in SiteRequests, siteTask'[j].site = s PROVE SiteMade(s, siteTask[j])'
      <4>1. SiteMade(s, siteTask[j])
        BY <1>8, <2>1, <3>3 DEF SiteThere
      <4>2. SiteCreated(s, siteTask[j]) => SiteCreated(s, siteTask[j])'
        BY <1>8, <1>9 DEF SiteCreated, AtHand, Only
      <4>3. SiteDeleted(s, siteTask[j]) => SiteDeleted(s, siteTask[j])'
        BY <1>8, <1>9 DEF SiteDeleted, Only
      <4>4. SiteSwitched(s, siteTask[j]) => SiteSwitched(s, siteTask[j])'
        BY <1>8, <1>9 DEF SiteSwitched, Only
      <4> QED
        BY <1>8, <4>1, <4>2, <4>3, <4>4 DEF SiteMade
    <3> QED
      BY <2>1, <3>1, <3>2, <3>3 DEF SiteThere
  <2>4. SiteRouted(s) => SiteRouted(s)'
    BY <1>8, <1>9 DEF SiteRouted, SiteLoaded, SwitchedOver, ActiveSite
  <2> QED
    BY <1>9, <2>1, <2>2, <2>3, <2>4
<1>15. CreationsUndone'
  <2>1. CreationsUndone
    BY DEF SiteStrong
  <2> QED
    BY <1>8, <1>9, <2>1 DEF CreationsUndone, CreationUndone, SiteLive, Calm, Only
<1> QED
  BY <1>10, <1>11, <1>12, <1>13, <1>14, <1>15 DEF SiteStrong

\* What a configuration that is up to date has of another site.
LEMMA SiteServedElse ==
    ASSUME SiteStrong, NEW i \in SiteRequests, AtHand(siteTask[i]), CanCommit(i),
           NEW w \in Sites, Calm(w), w # siteTask[i].site, SiteLeaves(i, w),
           siteCaddy' = Served(i, Excluded(i))
    PROVE  SiteRouted(w)'
<1>1. w \notin RowsOf(i) /\ w \notin Excluded(i) /\ SiteAlone(w)
  BY SiteElseIs DEF Excluded
<1>2. siteCaddy'[w] = IF siteRow[w] = None \/ siteRow[w].status \notin {"active", "provisioning"}
                      THEN None ELSE siteRow[w].php
  BY <1>1 DEF Served
<1>3. siteRow'[w] = siteRow[w]
  BY DEF SiteLeaves
<1>4. ASSUME NEW j \in SiteRequests, siteTask'[j].site = w PROVE SiteLoaded(w, siteTask[j])'
  <2>1. j # i /\ siteTask'[j] = siteTask[j]
    BY <1>4 DEF SiteLeaves
  <2>2. SiteMeets(w, siteTask[j])
    BY <1>1, <1>4, <2>1 DEF SiteAlone
  <2>3. ~SwitchedOver(j)
    <3>1. siteWriter \in {None, i} /\ j # None /\ SwitchWrites
      BY SiteNones DEF CanCommit, SiteStrong
    <3> QED
      BY <2>1, <3>1 DEF SwitchedOver, SwitchWrites
  <2>4. siteTask[j].pc = "do" => /\ siteRow[w] # None /\ siteRow[w].php = siteTask[j].old
                                 /\ siteTask[j].kind \in {"create", "clone"} => siteRow[w].status = "provisioning"
                                 /\ siteTask[j].kind = "delete" => siteRow[w].status = "deleting"
    BY <2>2 DEF SiteMeets, AtHand, Creation
  <2> QED
    BY <1>2, <2>1, <2>3, <2>4 DEF SiteLoaded, SwitchedOver
<1> QED
  BY <1>2, <1>3, <1>4 DEF SiteRouted, ActiveSite

\* What a configuration that was loaded and is up to date has of its own site.
LEMMA SiteServedOwn ==
    ASSUME SiteStrong, NEW i \in SiteRequests, AtHand(siteTask[i]), SiteLive(i),
           NEW s \in Sites, Calm(s), s = siteTask[i].site, AtCaddy(i),
           siteRow' = siteRow, siteCaddy' = Served(i, Excluded(i)),
           \/ siteTask[i].pc = "do" /\ SiteMoved(i, "do", siteTask[i].at + 1)
           \/ siteTask[i].pc = "undo" /\ siteTask[i].kind \in Creation
              /\ \E at : SiteMoved(i, "undo", at)
    PROVE  SiteRouted(s)'
<1>1. /\ SiteAlone(s) /\ SiteMeets(s, siteTask[i]) /\ RowsOf(i) = {s}
  BY SiteOwnIs
<1>2. PICK row : row = siteRow[s]
  OBVIOUS
<1>3. /\ row # None /\ row.php = siteTask[i].old
      /\ row.status = IF siteTask[i].kind \in Creation THEN "provisioning"
                      ELSE IF siteTask[i].kind = "delete" THEN "deleting" ELSE "active"
  BY <1>1, <1>2 DEF SiteMeets
<1>4. siteCaddy'[s] = IF s \in Excluded(i) \/ row.status \notin {"active", "provisioning"} THEN None
                      ELSE IF siteTask[i].kind = "php" THEN siteTask[i].php ELSE row.php
  BY <1>1, <1>2, <1>3 DEF Served
<1>5. \A j \in SiteRequests : j # i => siteTask'[j] = siteTask[j]
  BY DEF SiteMoved
<1>6. /\ siteTask'[i].site = s /\ siteTask'[i].kind = siteTask[i].kind
      /\ siteTask'[i].php = siteTask[i].php /\ siteTask'[i].old = siteTask[i].old
      /\ siteTask'[i].pc = siteTask[i].pc
  BY DEF SiteMoved, SiteKept
<1>7. StepIs(siteTask[i].kind, siteTask[i].at, "caddy")
  BY SiteAtStep DEF AtCaddy
<1>8. CASE siteTask[i].pc = "do"
  <2>1. siteTask[i].kind # "delete" => s \notin Excluded(i)
    BY <1>8 DEF Excluded
  <2>2. SwitchedOver(i)' <=> siteTask[i].kind = "php"
    <3>1. siteTask'[i].pc = "do" /\ siteTask'[i].at = siteTask[i].at + 1
      BY <1>8 DEF SiteMoved
    <3>2. siteTask[i].kind = "php" => siteTask[i].at = 2
      BY <1>7 DEF StepIs
    <3> QED
      BY <1>6, <3>1, <3>2 DEF SwitchedOver
  <2>3. SiteLoaded(s, siteTask[i])'
    BY <1>3, <1>4, <1>6, <2>1 DEF SiteLoaded, Creation, Excluded
  <2>4. ActiveSite(s)' /\ ~SwitchedOver(i)' => siteCaddy'[s] = siteRow'[s].php
    BY <1>2, <1>3, <1>4, <2>1, <2>2 DEF ActiveSite
  <2> QED
    BY <1>1, <1>2, <1>3, <1>5, <1>6, <2>3, <2>4, SiteOwnRouted
<1>9. CASE siteTask[i].pc = "undo" /\ siteTask[i].kind \in Creation
  <2>1. SiteLoaded(s, siteTask[i])'
    BY <1>6, <1>9 DEF SiteLoaded
  <2>2. ~ActiveSite(s)'
    BY <1>2, <1>3, <1>9 DEF ActiveSite
  <2> QED
    BY <1>1, <1>2, <1>3, <1>5, <1>6, <2>1, <2>2, SiteOwnRouted
<1> QED
  BY <1>8, <1>9

LEMMA LoadConfigKeeps ==
    ASSUME SiteStrong, NEW i \in SiteRequests, LoadConfig(i)
    PROVE  SiteStrong'
<1>1. /\ SiteLive(i) /\ AtHand(siteTask[i]) /\ siteTask[i].at > 0 /\ StepOf(i) = "caddy"
      /\ siteTask[i].config # None /\ AtCaddy(i)
  BY DEF LoadConfig, AtCaddy, SiteLive, AtHand
<1>2. PICK kind \in SiteKinds : kind = siteTask[i].kind
  BY <1>1, SiteHas
<1>3. PICK at \in DOMAIN SiteSteps[kind] : at = siteTask[i].at
  BY <1>1, <1>2, SiteAtStep
<1>4. StepIs(kind, at, "caddy") /\ at \in Nat /\ SiteSteps[kind][at] = "caddy"
  BY <1>1, <1>2, <1>3, SiteAtStep, SiteHas
<1>5. PICK s \in Sites : s = siteTask[i].site
  BY <1>1, SiteHas
<1>6. at + 1 \in DOMAIN SiteSteps[kind] /\ at + 1 \in Nat
  BY <1>3, <1>4, SiteStepNamed
<1>7. /\ siteRow' = siteRow /\ siteHost' = siteHost /\ sitePools' = sitePools
      /\ siteOps' = siteOps /\ siteLeft' = siteLeft /\ siteWriter' = siteWriter
      /\ siteFaults' = siteFaults /\ siteCrashes' = siteCrashes /\ siteOverlap' = siteOverlap
  BY DEF LoadConfig, Load
<1>8. siteCaddy' \in SiteRouting
  BY <1>1, SiteHas DEF LoadConfig, Load, SiteAtWork, SiteConfigs
<1>9. /\ siteStale => siteStale'
      /\ ~siteStale' => CanCommit(i) /\ siteCaddy' = Served(i, Excluded(i))
      /\ siteStale' \in BOOLEAN
  <2>1. /\ siteCaddy' = siteTask[i].config.routes
        /\ siteStale' = (siteStale \/ ~CanCommit(i) \/ siteTask[i].config.routes # Served(i, Excluded(i)))
    BY DEF LoadConfig, Load
  <2> QED
    BY <2>1
<1>10. SiteGoesOn(i) /\ ( \/ siteTask[i].pc = "do" /\ SiteMoved(i, "do", at + 1)
                          \/ siteTask[i].pc = "undo" /\ kind \in Creation /\ SiteMoved(i, "undo", at - 1) )
  <2>1. CASE siteTask[i].pc = "do"
    <3>1. SiteMoved(i, "do", at + 1)
      BY <1>1, <1>3, <1>6, <2>1, SiteHas, SiteGoto DEF LoadConfig
    <3>2. SitePlace(siteTask'[i])
      BY <1>2, <1>6, <3>1 DEF SiteMoved, SiteKept, SitePlace
    <3>3. kind = "php" => siteWriter = i
      <4>1. SwitchWrites
        BY DEF SiteStrong
      <4> QED
        BY <1>1, <1>2, <2>1, <4>1 DEF SwitchWrites
    <3>4. SiteStays(i)
      BY <1>2, <3>1, <3>2, <3>3 DEF SiteStays, SiteMoved, SiteKept
    <3> QED
      BY <1>7, <2>1, <3>1, <3>4 DEF SiteGoesOn
  <2>2. CASE siteTask[i].pc = "undo"
    <3>1. kind \in Creation
      <4>1. at \in Undoable(kind)
        BY <1>1, <1>2, <1>3, <1>4, <2>2, SiteHas DEF SitePlace
      <4> QED
        BY <1>4, <4>1, UndoableAre DEF Creation, StepIs
    <3>2. Goto(i, "undo", LastUndoable(i, siteTask[i].at - 1)) /\ UNCHANGED siteWriter
      BY <2>2 DEF LoadConfig
    <3>3. \E new \in Nat : SiteMoved(i, "undo", new) /\ SiteGoesOn(i) /\ new = at - 1
      BY <1>1, <1>2, <1>3, <3>1, <3>2, SiteTurns DEF Creation
    <3> QED
      BY <2>2, <3>1, <3>3
  <2> QED
    BY <1>1, <2>1, <2>2 DEF AtHand
<1>11. /\ siteTask' \in [SiteRequests -> SiteTasks]
       /\ \A j \in SiteRequests : j # i => siteTask'[j] = siteTask[j]
       /\ siteTask'[i].site = s /\ siteTask'[i].id = siteTask[i].id /\ siteTask'[i].kind = kind
       /\ SiteLive(i)'
  BY <1>2, <1>5, <1>10 DEF SiteMoved, SiteKept, SiteLive
<1>12. SiteShapes'
  BY <1>1, <1>7, <1>8, <1>9, <1>11, SiteHas DEF SiteShapes
<1>13. SiteFixed /\ SiteOpsStay(i)
  BY <1>7, <1>9 DEF SiteFixed, SiteOpsStay, SiteRowKept
<1>14. ASSUME NEW w \in Sites, Calm(w), w # s PROVE SiteElse(i, w)
  <2>1. SiteLeaves(i, w)
    BY <1>1, <1>7, <1>11, <1>14 DEF SiteLeaves
  <2>2. ~siteStale' => SiteRouted(w)'
    BY <1>1, <1>5, <1>9, <1>14, <2>1, SiteServedElse
  <2> QED
    BY <2>1, <2>2 DEF SiteElse
<1>15. ASSUME Calm(s) PROVE SiteOwn(s) /\ SiteFails(i, s)
  <2>1. /\ SiteAlone(s) /\ SiteMeets(s, siteTask[i]) /\ SiteMade(s, siteTask[i])
        /\ Settled(s) <=> kind \notin Creation \cup {"php"}
        /\ Settled(s) => SiteRests(s)
    BY <1>1, <1>2, <1>5, <1>15, SiteOwnIs DEF Creation, AtHand
  <2>0. PICK php \in Versions : php = siteTask[i].php
    BY <1>1, SiteHas
  <2>2. /\ siteRow[s] # None /\ siteRow[s].php = siteTask[i].old
        /\ kind = "php" <=> siteTask[i].php # siteTask[i].old
        /\ kind = "delete" => siteRow[s].status = "deleting"
    BY <1>1, <1>2, <2>1 DEF SiteMeets, Creation
  <2>3. siteHost[s] \subseteq SiteParts /\ "caddy" \notin SiteParts
    BY <1>1, SiteHas DEF SiteShapes, SiteParts
  <2>4. SiteMade(s, siteTask[i])'
    <3>1. CASE kind \in Creation
      <4>1. SiteCreated(s, siteTask[i])
        BY <1>2, <2>1, <3>1 DEF SiteMade
      <4>2. SiteCreated(s, siteTask[i])'
        <5>1. CASE siteTask[i].pc = "do" /\ SiteMoved(i, "do", at + 1)
          BY <1>1, <1>2, <1>3, <1>4, <1>7, <3>1, <4>1, <5>1, SiteHas, CreationGoes
        <5>2. CASE siteTask[i].pc = "undo" /\ SiteMoved(i, "undo", at - 1)
          BY <1>1, <1>2, <1>3, <1>4, <1>7, <2>3, <3>1, <4>1, <5>2, SiteHas, CreationUndoes
        <5> QED
          BY <1>10, <5>1, <5>2
      <4> QED
        BY <1>11, <3>1, <4>2 DEF SiteMade, Creation
    <3>2. CASE kind = "delete"
      <4>1. SiteDeleted(s, siteTask[i]) /\ Only(s, {php})
        BY <1>2, <2>0, <2>1, <2>2, <3>2 DEF SiteMade, SiteRests, Creation
      <4>2. SiteShrinks(s) /\ "caddy" \notin siteHost'[s]
        BY <1>7, <2>3 DEF SiteShrinks
      <4>3. siteTask[i].pc = "do" /\ SiteMoved(i, "do", at + 1)
        BY <1>10, <3>2 DEF Creation
      <4>4. SiteDeleted(s, siteTask[i])'
        BY <1>1, <1>2, <1>3, <1>4, <2>0, <3>2, <4>1, <4>2, <4>3, SiteHas, DeletionGoes
      <4> QED
        BY <1>11, <3>2, <4>4 DEF SiteMade, Creation
    <3>3. CASE kind = "php"
      <4>1. SiteSwitched(s, siteTask[i])
        BY <1>2, <2>1, <3>3 DEF SiteMade
      <4>2. siteTask[i].pc = "do" /\ SiteMoved(i, "do", at + 1)
        BY <1>10, <3>3 DEF Creation
      <4>3. SiteSwitched(s, siteTask[i])'
        BY <1>1, <1>2, <1>3, <1>4, <1>7, <2>2, <3>3, <4>1, <4>2, SiteHas, SwitchGoes
      <4> QED
        BY <1>11, <3>3, <4>3 DEF SiteMade, Creation
    <3>4. CASE kind \notin Creation \cup {"delete", "php"}
      BY <1>11, <3>4 DEF SiteMade
    <3> QED
      BY <3>1, <3>2, <3>3, <3>4
  <2>5. Settled(s) => SiteRests(s)'
    BY <1>7, <2>1, <2>2, SiteRestsKept
  <2>6. SiteAlone(s)' /\ SiteThere(s)'
    BY <1>1, <1>5, <1>7, <1>10, <2>1, <2>4, <2>5, SiteOwnMoves
  <2>7. ~siteStale' => SiteRouted(s)'
    BY <1>1, <1>2, <1>3, <1>5, <1>7, <1>9, <1>10, <1>15, SiteServedOwn
  <2>8. kind = "delete" => SiteStillFailed(s)
    BY <1>7, <2>2 DEF SiteStillFailed, SiteShrinks
  <2> QED
    BY <1>2, <1>11, <2>6, <2>7, <2>8 DEF SiteOwn, SiteFails
<1> QED
  BY <1>1, <1>5, <1>10, <1>12, <1>13, <1>14, <1>15, SiteStrongFrom

\* A load that fails leaves the routes as they were, or the tasks know of it.
LEMMA LoadFailsKeeps ==
    ASSUME SiteStrong, NEW i \in SiteRequests, LoadFails(i)
    PROVE  SiteStrong'
<1>1. /\ SiteLive(i) /\ AtHand(siteTask[i]) /\ siteTask[i].at > 0 /\ StepOf(i) = "caddy"
      /\ siteTask[i].config # None
  BY DEF LoadFails, AtCaddy, SiteLive, AtHand
<1>2. PICK kind \in SiteKinds : kind = siteTask[i].kind
  BY <1>1, SiteHas
<1>3. PICK at \in DOMAIN SiteSteps[kind] : at = siteTask[i].at
  BY <1>1, <1>2, SiteAtStep
<1>4. StepIs(kind, at, "caddy") /\ at \in Nat /\ SiteSteps[kind][at] = "caddy"
  BY <1>1, <1>2, <1>3, SiteAtStep, SiteHas
<1>5. PICK s \in Sites : s = siteTask[i].site
  BY <1>1, SiteHas
<1>6. PICK php \in Versions : php = siteTask[i].php
  BY <1>1, SiteHas
<1>7. /\ siteRow' = siteRow /\ siteHost' = siteHost /\ sitePools' = sitePools
      /\ siteOps' = siteOps /\ siteCrashes' = siteCrashes /\ siteOverlap' = siteOverlap
  BY DEF LoadFails
<1>8. /\ siteCaddy' \in SiteRouting /\ siteStale' \in BOOLEAN
      /\ siteStale => siteStale'
      /\ ~siteStale' => siteCaddy' = siteCaddy
  <2>1. \/ siteCaddy' = siteCaddy /\ siteStale' = siteStale
        \/ siteCaddy' = siteTask[i].config.before /\ siteStale' = (siteStale \/ siteTask[i].config.before # siteCaddy)
    BY DEF LoadFails
  <2>2. siteTask[i].config.before \in SiteRouting /\ siteCaddy \in SiteRouting /\ siteStale \in BOOLEAN
    BY <1>1, SiteHas DEF SiteAtWork, SiteConfigs, SiteShapes
  <2> QED
    BY <2>1, <2>2
<1>9. /\ siteLeft' \in [Sites -> SUBSET SiteStepNames] /\ siteLeft'[s] = siteLeft[s] \cup {"caddy"}
      /\ \A w \in Sites : w # s => siteLeft'[w] = siteLeft[w]
  BY <1>1, <1>5, SiteHas DEF SiteShapes, LoadFails, MayHaveLeft, SiteStepNames
<1>10. siteFaults' \in Nat /\ siteFaults' + siteCrashes' <= SiteMaxFaults
  <2>1. siteFaults \in Nat /\ siteCrashes \in Nat
    BY <1>1, SiteHas DEF SiteShapes
  <2>2. siteFaults' = siteFaults + 1 /\ siteFaults + siteCrashes < SiteMaxFaults
    BY DEF LoadFails, Fault
  <2> QED
    BY <1>7, <2>1, <2>2, SiteAssumption
<1>11. kind = "resync" => SiteEnded(i) /\ siteWriter' \in SiteRequests \cup {None}
  BY <1>1, <1>2, SiteHas, SiteEnds DEF LoadFails
<1>12. ASSUME kind # "resync"
       PROVE  /\ SiteGoesOn(i) /\ siteWriter' = siteWriter
              /\ \E new \in Nat : /\ SiteMoved(i, "undo", new)
                                  /\ kind \in Creation => new = at - 1
                                  /\ kind = "php" => new = 1
  <2>1. /\ Goto(i, "undo", LastUndoable(i, siteTask[i].at - 1)) /\ siteWriter' = siteWriter
    BY <1>2, <1>12 DEF LoadFails
  <2>2. kind \notin {"settings", "resync"} /\ (kind = "php" => at = 2)
    BY <1>4, <1>12 DEF StepIs
  <2> QED
    BY <1>1, <1>2, <1>3, <2>1, <2>2, SiteTurns
<1>13. SiteGoesOn(i) /\ siteTask' \in [SiteRequests -> SiteTasks]
       /\ (\A j \in SiteRequests : j # i => siteTask'[j] = siteTask[j])
       /\ siteTask'[i].site \in {s, None}
       /\ (AtHand(siteTask'[i]) => siteTask'[i].id = siteTask[i].id)
  BY <1>5, <1>11, <1>12 DEF SiteGoesOn, SiteMoved, SiteKept, SiteEnded, AtHand
<1>14. SiteShapes'
  <2>1. siteWriter' \in SiteRequests \cup {None} /\ siteCrashes' \in Nat
    BY <1>1, <1>7, <1>11, <1>12, SiteHas DEF SiteShapes
  <2> QED
    BY <1>1, <1>7, <1>8, <1>9, <1>10, <1>13, <2>1, SiteHas DEF SiteShapes
<1>15. SiteFixed /\ SiteOpsStay(i)
  BY <1>7, <1>8 DEF SiteFixed, SiteOpsStay, SiteRowKept
<1>16. ASSUME NEW w \in Sites, Calm(w), w # s PROVE SiteElse(i, w)
  BY <1>1, <1>5, <1>7, <1>8, <1>9, <1>13, <1>16, SiteAssumption DEF SiteElse, SiteLeaves
<1>17. ASSUME Calm(s) PROVE SiteOwn(s) /\ SiteFails(i, s)
  <2>1. /\ SiteAlone(s) /\ SiteMeets(s, siteTask[i]) /\ SiteMade(s, siteTask[i])
        /\ siteStale \/ SiteRouted(s)
        /\ Settled(s) <=> kind \notin Creation \cup {"php"}
        /\ Settled(s) => SiteRests(s)
    BY <1>1, <1>2, <1>5, <1>17, SiteOwnIs DEF Creation, AtHand
  <2>2. /\ siteRow[s] # None /\ (kind = "php" <=> siteTask[i].php # siteTask[i].old)
        /\ siteRow[s].status = IF kind \in Creation THEN "provisioning"
                               ELSE IF kind = "delete" THEN "deleting" ELSE "active"
    BY <1>1, <1>2, <2>1 DEF SiteMeets
  <2>3. ~SwitchedOver(i)
    BY <1>2, <1>3, <1>4 DEF SwitchedOver, StepIs
  <2>4. Settled(s) => SiteRests(s)'
    BY <1>7, <1>9, <2>1, <2>2, SiteRestsKept
  <2>5. CASE kind = "resync"
    <3>1. SiteAlone(s)' /\ SiteThere(s)'
      BY <1>5, <1>7, <1>11, <2>1, <2>2, <2>4, <2>5, SiteOwnEnds DEF SiteRowKept, Creation
    <3>2. SiteRouted(s) /\ siteCaddy' = siteCaddy => SiteRouted(s)'
      BY <1>1, <1>5, <1>7, <1>9, <1>11, <2>1, <2>3, <2>5, SiteHas, SiteRoutedKept
    <3>3. siteOps'[i] = None
      BY <1>1, <1>2, <1>7, <2>5, SiteInlineNone DEF Inline
    <3> QED
      BY <1>2, <1>8, <2>1, <2>5, <3>1, <3>2, <3>3 DEF SiteOwn, SiteFails
  <2>6. CASE kind # "resync"
    <3>0. PICK new \in Nat : /\ SiteMoved(i, "undo", new)
                             /\ kind \in Creation => new = at - 1
                             /\ kind = "php" => new = 1
      BY <1>12, <2>6
    <3>1. siteHost[s] \subseteq SiteParts /\ "caddy" \notin SiteParts
      BY <1>1, SiteHas DEF SiteShapes, SiteParts
    <3>2. SiteMade(s, siteTask[i])'
      <4>1. CASE kind \in Creation
        <5>1. SiteCreated(s, siteTask[i])
          BY <1>2, <2>1, <4>1 DEF SiteMade
        <5>2. SiteCreated(s, siteTask[i])'
          <6>1. CASE siteTask[i].pc = "do"
            BY <1>1, <1>2, <1>3, <1>4, <1>7, <1>9, <3>0, <4>1, <5>1, <6>1, SiteHas, CreationFails
          <6>2. CASE siteTask[i].pc = "undo"
            BY <1>1, <1>2, <1>3, <1>4, <1>7, <1>9, <3>0, <3>1, <4>1, <5>1, <6>2, SiteHas, CreationUndoes
          <6> QED
            BY <1>1, <6>1, <6>2 DEF AtHand
        <5> QED
          BY <1>2, <3>0, <4>1, <5>2 DEF SiteMade, SiteMoved, SiteKept, Creation
      <4>2. CASE kind = "delete"
        BY <1>2, <3>0, <4>2 DEF SiteMade, SiteDeleted, SiteMoved, SiteKept, Creation
      <4>3. CASE kind = "php"
        <5>1. SiteSwitched(s, siteTask[i])
          BY <1>2, <2>1, <4>3 DEF SiteMade
        <5>2. at = 2 /\ siteTask[i].pc = "do"
          <6>1. at = 2
            BY <1>4, <4>3 DEF StepIs
          <6>2. siteTask[i].pc = "undo" => at \in Undoable("php") \cup {0}
            BY <1>1, <1>2, <1>3, <4>3, SiteHas DEF SitePlace
          <6> QED
            BY <1>1, <6>1, <6>2, UndoableAre DEF AtHand
        <5>3. SiteSwitched(s, siteTask[i])'
          BY <1>1, <1>2, <1>3, <1>7, <1>9, <2>2, <3>0, <4>3, <5>1, <5>2, SiteHas, SwitchUndoes
        <5> QED
          BY <1>2, <3>0, <4>3, <5>3 DEF SiteMade, SiteMoved, SiteKept, Creation
      <4>4. CASE kind \notin Creation \cup {"delete", "php"}
        BY <1>2, <3>0, <4>4 DEF SiteMade, SiteMoved, SiteKept
      <4> QED
        BY <4>1, <4>2, <4>3, <4>4
    <3>3. SiteAlone(s)' /\ SiteThere(s)'
      BY <1>1, <1>5, <1>7, <2>1, <2>4, <3>0, <3>2, SiteOwnMoves
    <3>4. SiteRouted(s) /\ siteCaddy' = siteCaddy => SiteRouted(s)'
      BY <1>1, <1>5, <1>7, <1>9, <2>1, <2>3, <3>0, SiteHas, SiteRoutedKept
    <3>5. SiteLive(i)'
      BY <3>0 DEF SiteMoved, SiteLive
    <3>6. kind = "delete" => SiteStillFailed(s)
      BY <1>7, <1>9, <2>2 DEF SiteStillFailed, SiteShrinks, Creation
    <3> QED
      BY <1>2, <1>8, <2>1, <3>3, <3>4, <3>5, <3>6 DEF SiteOwn, SiteFails
  <2> QED
    BY <2>5, <2>6
<1> QED
  BY <1>1, <1>5, <1>13, <1>14, <1>15, <1>16, <1>17, SiteStrongFrom

-----------------------------------------------------------------------------
(* The ends of tasks.                                                      *)

\* A row that has gone stops tasks, but not one that is alone on its site.
LEMMA WithoutRowKeeps ==
    ASSUME SiteStrong, NEW i \in SiteRequests, SwitchWithoutRow(i) \/ FinalizeWithoutRow(i)
    PROVE  SiteStrong'
<1>1. SiteLive(i) /\ AtHand(siteTask[i]) /\ RowsOf(i) = {}
  BY DEF SwitchWithoutRow, FinalizeWithoutRow, AtCaddy, AtFinalize, SiteLive, AtHand
<1>2. PICK s \in Sites : s = siteTask[i].site
  BY <1>1, SiteHas
<1>3. /\ siteRow' = siteRow /\ siteHost' = siteHost /\ sitePools' = sitePools
      /\ siteCaddy' = siteCaddy /\ siteOps' = siteOps /\ siteLeft' = siteLeft
      /\ siteFaults' = siteFaults /\ siteCrashes' = siteCrashes
      /\ siteOverlap' = siteOverlap /\ siteStale' = siteStale
  BY DEF SwitchWithoutRow, FinalizeWithoutRow, siteHistory
<1>4. SiteGoesOn(i) /\ siteTask' \in [SiteRequests -> SiteTasks]
      /\ siteWriter' \in SiteRequests \cup {None}
      /\ (\A j \in SiteRequests : j # i => siteTask'[j] = siteTask[j])
      /\ siteTask'[i].site \in {s, None}
      /\ (AtHand(siteTask'[i]) => siteTask'[i].id = siteTask[i].id)
  <2>1. CASE SwitchWithoutRow(i)
    <3>1. siteTask[i].kind = "php" /\ siteWriter' = siteWriter
      BY <2>1 DEF SwitchWithoutRow
    <3>2. SiteMoved(i, "undo", 1)
      BY <1>1, <2>1, SiteHas, SiteGoto DEF SwitchWithoutRow
    <3>3. SitePlace(siteTask'[i]) /\ SiteStays(i)
      BY <3>1, <3>2, UndoableAre DEF SitePlace, SiteStays, SiteMoved, SiteKept
    <3> QED
      BY <1>1, <1>2, <3>1, <3>2, <3>3, SiteHas DEF SiteGoesOn, SiteMoved, SiteKept, SiteShapes
  <2>2. CASE FinalizeWithoutRow(i)
    <3>1. SiteEnded(i) /\ siteWriter' \in SiteRequests \cup {None}
      BY <1>1, <2>2, SiteHas, SiteEnds DEF FinalizeWithoutRow
    <3> QED
      BY <3>1 DEF SiteGoesOn, SiteEnded, AtHand
  <2> QED
    BY <2>1, <2>2
<1>5. SiteShapes'
  BY <1>1, <1>3, <1>4, SiteHas DEF SiteShapes
<1>6. SiteFixed /\ SiteOpsStay(i)
  BY <1>3 DEF SiteFixed, SiteOpsStay, SiteRowKept
<1>7. ASSUME NEW w \in Sites, Calm(w), w # s PROVE SiteElse(i, w)
  BY <1>1, <1>2, <1>3, <1>4, <1>7, SiteAssumption DEF SiteElse, SiteLeaves
<1>8. ASSUME Calm(s) PROVE FALSE
  BY <1>1, <1>2, <1>8, SiteOwnIs
<1> QED
  BY <1>1, <1>2, <1>4, <1>5, <1>6, <1>7, <1>8, SiteStrongFrom

\* What an operation is when it is concluded.
LEMMA SiteConcludes ==
    ASSUME SiteStrong, NEW i \in SiteRequests, NEW status \in {"succeeded", "failed"},
           Conclude(i, status)
    PROVE  /\ siteOps' \in [SiteRequests -> SiteOpSet \cup {None}]
           /\ \A k \in SiteRequests : k # i => siteOps'[k] = siteOps[k]
           /\ siteOps[i] = None => siteOps'[i] = None
           /\ siteOps[i] # None =>
                /\ siteOps'[i].status = status /\ siteOps'[i].site = siteOps[i].site
                /\ siteOps'[i].kind = siteOps[i].kind /\ siteOps'[i].linked = siteOps[i].linked
<1>1. siteOps \in [SiteRequests -> SiteOpSet \cup {None}]
  BY DEF SiteStrong, SiteShapes
<1>2. CASE siteOps[i] = None
  BY <1>1, <1>2 DEF Conclude
<1>3. CASE siteOps[i] # None
  <2>1. PICK op : op = [siteOps[i] EXCEPT !.status = status]
    OBVIOUS
  <2>2. siteOps[i] \in SiteOpSet
    BY <1>1, <1>3
  <2>3. /\ op \in SiteOpSet /\ op.status = status /\ op.site = siteOps[i].site
        /\ op.kind = siteOps[i].kind /\ op.linked = siteOps[i].linked
    BY <2>1, <2>2 DEF SiteOpSet
  <2>4. siteOps' = [siteOps EXCEPT ![i] = op]
    BY <1>3, <2>1 DEF Conclude
  <2> QED
    BY <1>1, <1>3, <2>3, <2>4
<1> QED
  BY <1>2, <1>3

\* The operation of a task is about its site.
LEMMA SiteOwnOp ==
    ASSUME SiteStrong, NEW i \in SiteRequests, SiteLive(i), siteOps[i] # None
    PROVE  siteOps[i].site = siteTask[i].site /\ siteOps[i].kind = siteTask[i].kind
  BY DEF SiteStrong, SiteOpsOwned

\* The last word of a pipeline that was not undone.
LEMMA FinishKeeps ==
    ASSUME SiteStrong, NEW i \in SiteRequests, Finish(i)
    PROVE  SiteStrong'
<1>1. SiteLive(i) /\ siteTask[i].pc = "finish"
  BY DEF Finish, SiteLive
<1>2. PICK kind \in SiteKinds : kind = siteTask[i].kind
  BY <1>1, SiteHas
<1>3. PICK s \in Sites : s = siteTask[i].site
  BY <1>1, SiteHas
<1>4. kind \notin Inline
  BY <1>1, <1>2, SiteHas DEF SitePlace
<1>5. /\ siteRow' = siteRow /\ siteHost' = siteHost /\ sitePools' = sitePools
      /\ siteCaddy' = siteCaddy /\ siteLeft' = siteLeft
      /\ siteFaults' = siteFaults /\ siteCrashes' = siteCrashes
      /\ siteOverlap' = siteOverlap /\ siteStale' = siteStale
  BY DEF Finish, siteHistory
<1>6. SiteEnded(i) /\ siteWriter' \in SiteRequests \cup {None}
  BY <1>1, SiteHas, SiteEnds DEF Finish
<1>7. /\ siteOps' \in [SiteRequests -> SiteOpSet \cup {None}]
      /\ \A k \in SiteRequests : k # i => siteOps'[k] = siteOps[k]
      /\ siteOps[i] = None => siteOps'[i] = None
      /\ siteOps[i] # None =>
           /\ siteOps'[i].status = "succeeded" /\ siteOps'[i].site = siteOps[i].site
           /\ siteOps'[i].kind = siteOps[i].kind /\ siteOps'[i].linked = siteOps[i].linked
  BY SiteConcludes DEF Finish
<1>8. SiteShapes'
  BY <1>1, <1>5, <1>6, <1>7, SiteHas DEF SiteShapes, SiteEnded
<1>9. SiteFixed /\ SiteOpsStay(i) /\ SiteGoesOn(i)
  BY <1>5, <1>6, <1>7 DEF SiteFixed, SiteOpsStay, SiteRowKept, SiteGoesOn
<1>10. ASSUME NEW w \in Sites, Calm(w), w # s PROVE SiteElse(i, w)
  BY <1>1, <1>3, <1>5, <1>6, <1>10, SiteAssumption DEF SiteElse, SiteLeaves, SiteEnded, AtHand
<1>11. ASSUME Calm(s) PROVE SiteOwn(s) /\ SiteFails(i, s)
  <2>1. /\ SiteAlone(s) /\ SiteMeets(s, siteTask[i]) /\ (siteStale \/ SiteRouted(s))
        /\ SiteRests(s)
    BY <1>1, <1>2, <1>3, <1>4, <1>11, SiteOwnIs DEF Inline
  <2>2. siteRow[s] # None => siteRow[s].status = "active" /\ kind # "delete"
    BY <1>1, <1>2, <2>1 DEF SiteMeets
  <2>3. SiteRests(s)'
    BY <1>5, <2>1 DEF SiteRests, Only
  <2>4. SiteAlone(s)' /\ SiteThere(s)'
    BY <1>3, <1>5, <1>6, <2>1, <2>2, <2>3, SiteOwnEnds DEF SiteRowKept
  <2>5. ~SwitchedOver(i)
    BY <1>1 DEF SwitchedOver
  <2>6. SiteRouted(s) => SiteRouted(s)'
    BY <1>1, <1>3, <1>5, <1>6, <2>1, <2>5, SiteHas, SiteRoutedKept
  <2>7. siteOps'[i] # None => CreationUndone(siteOps[i])'
    <3>1. siteOps'[i] # None => siteOps'[i].status = "succeeded"
      BY <1>7
    <3> QED
      BY <3>1 DEF CreationUndone
  <2>8. kind = "delete" => SiteStillFailed(s)
    BY <1>5, <2>2 DEF SiteStillFailed, SiteShrinks
  <2> QED
    BY <1>2, <1>5, <2>1, <2>4, <2>6, <2>7, <2>8 DEF SiteOwn, SiteFails
<1> QED
  BY <1>1, <1>3, <1>8, <1>9, <1>10, <1>11, SiteStrongFrom

\* A pipeline that has undone what it could.
LEMMA GiveUpKeeps ==
    ASSUME SiteStrong, NEW i \in SiteRequests, GiveUp(i)
    PROVE  SiteStrong'
<1>1. SiteLive(i) /\ AtHand(siteTask[i]) /\ siteTask[i].pc = "undo" /\ siteTask[i].at = 0
  BY DEF GiveUp, SiteLive, AtHand
<1>2. PICK kind \in SiteKinds : kind = siteTask[i].kind
  BY <1>1, SiteHas
<1>3. PICK s \in Sites : s = siteTask[i].site
  BY <1>1, SiteHas
<1>4. kind \notin {"settings", "resync"}
  BY <1>1, <1>2, SiteHas DEF SitePlace
<1>5. /\ siteHost' = siteHost /\ sitePools' = sitePools
      /\ siteCaddy' = siteCaddy /\ siteLeft' = siteLeft
      /\ siteFaults' = siteFaults /\ siteCrashes' = siteCrashes
      /\ siteOverlap' = siteOverlap /\ siteStale' = siteStale
  BY DEF GiveUp, siteHistory
<1>6. SiteEnded(i) /\ siteWriter' \in SiteRequests \cup {None}
  BY <1>1, SiteHas, SiteEnds DEF GiveUp
<1>7. /\ siteRow' \in [Sites -> SiteRowSet \cup {None}]
      /\ \A w \in Sites : w \notin RowsOf(i) \/ kind \notin Creation \cup {"delete"} => siteRow'[w] = siteRow[w]
      /\ \A w \in RowsOf(i) : siteRow[w] # None /\ siteRow'[w] # None
                              /\ siteRow'[w].id = siteRow[w].id /\ siteRow'[w].php = siteRow[w].php
                              /\ (kind \in Creation \cup {"delete"} => siteRow'[w].status = "error")
  <2>1. siteRow \in [Sites -> SiteRowSet \cup {None}]
    BY <1>1, SiteHas DEF SiteShapes
  <2>2. CASE kind \in Creation \cup {"delete"}
    <3>1. siteRow' = [w \in Sites |-> IF w \in RowsOf(i) THEN [siteRow[w] EXCEPT !.status = "error"]
                                      ELSE siteRow[w]]
      BY <1>2, <2>2 DEF GiveUp, Creation
    <3>2. ASSUME NEW w \in RowsOf(i)
          PROVE  /\ siteRow[w] # None /\ [siteRow[w] EXCEPT !.status = "error"] \in SiteRowSet
                 /\ [siteRow[w] EXCEPT !.status = "error"].id = siteRow[w].id
                 /\ [siteRow[w] EXCEPT !.status = "error"].php = siteRow[w].php
                 /\ [siteRow[w] EXCEPT !.status = "error"].status = "error"
      <4>1. siteRow[w] \in SiteRowSet /\ siteRow[w] # None
        BY <2>1 DEF RowsOf
      <4> QED
        BY <4>1 DEF SiteRowSet, SiteStatuses
    <3>3. \A w \in RowsOf(i) : siteRow'[w] = [siteRow[w] EXCEPT !.status = "error"]
      BY <3>1 DEF RowsOf
    <3> QED
      BY <2>1, <2>2, <3>1, <3>2, <3>3, SiteNones
  <2>3. CASE kind \notin Creation \cup {"delete"}
    <3>1. siteRow' = siteRow
      BY <1>2, <2>3 DEF GiveUp, Creation
    <3> QED
      BY <2>1, <2>3, <3>1 DEF RowsOf
  <2> QED
    BY <2>2, <2>3
<1>8. /\ siteOps' \in [SiteRequests -> SiteOpSet \cup {None}]
      /\ \A k \in SiteRequests : k # i => siteOps'[k] = siteOps[k]
      /\ siteOps[i] = None => siteOps'[i] = None
      /\ siteOps[i] # None => siteOps'[i].site = siteOps[i].site /\ siteOps'[i].kind = siteOps[i].kind
      /\ siteOps[i] # None /\ RowsOf(i) # {} => siteOps'[i].status = "failed"
  <2>1. CASE Conclude(i, "failed")
    BY <2>1, SiteConcludes
  <2>2. CASE siteOps' = siteOps /\ RowsOf(i) = {}
    BY <1>1, <2>2, SiteHas DEF SiteShapes
  <2> QED
    BY <2>1, <2>2 DEF GiveUp
<1>9. SiteShapes'
  BY <1>1, <1>5, <1>6, <1>7, <1>8, SiteHas DEF SiteShapes, SiteEnded
<1>10. SiteFixed /\ SiteOpsStay(i) /\ SiteGoesOn(i)
  BY <1>5, <1>6, <1>7, <1>8 DEF SiteFixed, SiteOpsStay, SiteRowKept, SiteGoesOn
<1>11. ASSUME NEW w \in Sites, Calm(w), w # s PROVE SiteElse(i, w)
  <2>1. siteRow'[w] = siteRow[w]
    BY <1>1, <1>3, <1>7, <1>11, SiteElseIs
  <2> QED
    BY <1>3, <1>5, <1>6, <1>11, <2>1, SiteAssumption DEF SiteElse, SiteLeaves, SiteEnded, AtHand
<1>12. ASSUME Calm(s) PROVE SiteOwn(s) /\ SiteFails(i, s)
  <2>1. /\ SiteAlone(s) /\ SiteMeets(s, siteTask[i]) /\ SiteMade(s, siteTask[i])
        /\ siteStale \/ SiteRouted(s)
        /\ RowsOf(i) = {s}
        /\ Settled(s) <=> kind \notin Creation \cup {"php"}
        /\ Settled(s) => SiteRests(s)
    BY <1>1, <1>2, <1>3, <1>12, SiteOwnIs DEF Creation
  <2>2. PICK old \in Versions : old = siteTask[i].old /\ old = siteRow[s].php
    BY <1>1, <2>1, SiteHas DEF SiteMeets
  <2>3. /\ siteRow[s] # None /\ siteRow'[s] # None /\ siteRow'[s].id = siteRow[s].id
        /\ siteRow'[s].php = old
        /\ siteRow'[s].status = IF kind \in Creation \cup {"delete"} THEN "error" ELSE "active"
    BY <1>1, <1>2, <1>7, <2>1, <2>2 DEF SiteMeets
  <2>4. kind \in Creation => siteHost[s] \subseteq siteLeft[s] /\ Only(s, {})
    <3>1. ASSUME kind \in Creation PROVE SiteCreated(s, siteTask[i]) /\ StepsOf(siteTask[i].kind, siteTask[i].at) = {}
      BY <1>1, <1>2, <2>1, <3>1, StepsOfNone DEF SiteMade
    <3> QED
      BY <1>1, <3>1 DEF SiteCreated
  <2>5. SiteRests(s)'
    <3>1. CASE kind \in Creation
      BY <1>5, <2>3, <2>4, <3>1 DEF SiteRests, Only
    <3>2. CASE kind = "php"
      <4>1. Only(s, {old}) /\ ("remove" \notin siteLeft[s] => old \in sitePools[s])
        BY <1>1, <1>2, <2>1, <2>2, <3>2 DEF SiteMade, SiteSwitched
      <4> QED
        BY <1>5, <2>3, <4>1 DEF SiteRests, Only
    <3>3. CASE kind \notin Creation \cup {"php"}
      <4>1. Only(s, {old}) /\ (siteRow[s].status = "active" /\ "remove" \notin siteLeft[s] => old \in sitePools[s])
        BY <2>1, <2>2, <2>3, <3>3 DEF SiteRests
      <4>2. siteRow'[s].status = "active" => siteRow[s].status = "active"
        BY <1>1, <1>2, <2>1, <2>3 DEF SiteMeets
      <4> QED
        BY <1>5, <2>3, <4>1, <4>2 DEF SiteRests, Only
    <3> QED
      BY <3>1, <3>2, <3>3
  <2>6. SiteAlone(s)' /\ SiteThere(s)'
    BY <1>3, <1>6, <2>1, <2>3, <2>5, SiteOwnEnds DEF SiteRowKept
  <2>7. SiteRouted(s) => SiteRouted(s)'
    <3>1. CASE kind \in Creation \cup {"delete"}
      <4>1. ~ActiveSite(s)'
        BY <2>3, <3>1 DEF ActiveSite
      <4>2. \A j \in SiteRequests : j # i => siteTask'[j] = siteTask[j]
        BY <1>6 DEF SiteEnded
      <4>3. siteTask'[i].site = None /\ s # None
        BY <1>6, SiteAssumption DEF SiteEnded
      <4> QED
        BY <1>3, <2>1, <2>3, <4>1, <4>2, <4>3, SiteOwnRouted
    <3>2. CASE kind \notin Creation \cup {"delete"}
      <4>1. siteRow'[s] = siteRow[s] /\ ~SwitchedOver(i)
        BY <1>1, <1>7, <3>2 DEF SwitchedOver
      <4> QED
        BY <1>1, <1>3, <1>5, <1>6, <2>1, <4>1, SiteHas, SiteRoutedKept
    <3> QED
      BY <3>1, <3>2
  <2>8. siteOps'[i] # None => CreationUndone(siteOps[i])'
    <3> SUFFICES ASSUME siteOps'[i] # None PROVE CreationUndone(siteOps[i])'
      OBVIOUS
    <3>1. /\ siteOps'[i].status = "failed" /\ siteOps'[i].site = s /\ siteOps'[i].kind = kind
      BY <1>1, <1>2, <1>3, <1>8, <2>1, SiteOwnOp
    <3>2. kind \in Creation => siteHost'[s] \subseteq siteLeft'[s] /\ Only(s, {})'
      BY <1>5, <2>4 DEF Only
    <3> QED
      BY <2>3, <3>1, <3>2 DEF CreationUndone, Only
  <2>9. kind = "delete" => SiteStillFailed(s)
    BY <1>5, <2>3 DEF SiteStillFailed, SiteShrinks
  <2> QED
    BY <1>2, <1>5, <2>1, <2>6, <2>7, <2>8, <2>9 DEF SiteOwn, SiteFails
<1> QED
  BY <1>1, <1>3, <1>9, <1>10, <1>11, <1>12, SiteStrongFrom

\* The row that the last step writes.
LEMMA FinalizedIs ==
    ASSUME SiteStrong, NEW i \in SiteRequests, SiteLive(i), NEW row \in SiteRowSet
    PROVE  /\ Finalized(i, row) \in SiteRowSet \cup {None}
           /\ siteTask[i].kind = "delete" => Finalized(i, row) = None
           /\ siteTask[i].kind # "delete" =>
                /\ Finalized(i, row) # None /\ Finalized(i, row).id = row.id
                /\ Finalized(i, row).status = IF siteTask[i].kind \in Creation THEN "active" ELSE row.status
                /\ Finalized(i, row).php = IF siteTask[i].kind = "php" THEN siteTask[i].php ELSE row.php
<1>1. PICK kind \in SiteKinds : kind = siteTask[i].kind
  BY SiteHas
<1>2. PICK php \in Versions : php = siteTask[i].php
  BY SiteHas
<1>3. PICK wp \in BOOLEAN : wp = siteTask[i].wp
  BY SiteHas DEF SiteAtWork
<1>4. CASE kind \in Creation
  <2>1. PICK new : new = [row EXCEPT !.status = "active", !.wp = wp]
    OBVIOUS
  <2>2. new \in SiteRowSet /\ new.id = row.id /\ new.status = "active" /\ new.php = row.php
    BY <2>1 DEF SiteRowSet, SiteStatuses
  <2>3. Finalized(i, row) = new
    BY <1>1, <1>3, <1>4, <2>1 DEF Finalized, Creation
  <2> QED
    BY <1>1, <1>4, <2>2, <2>3, SiteNones DEF Creation
<1>5. CASE kind = "wordpress"
  <2>1. PICK new : new = [row EXCEPT !.wp = TRUE]
    OBVIOUS
  <2>2. new \in SiteRowSet /\ new.id = row.id /\ new.status = row.status /\ new.php = row.php
    BY <2>1 DEF SiteRowSet, SiteStatuses
  <2>3. Finalized(i, row) = new
    BY <1>1, <1>5, <2>1 DEF Finalized
  <2> QED
    BY <1>1, <1>5, <2>2, <2>3, SiteNones DEF Creation
<1>6. CASE kind = "php"
  <2>1. PICK new : new = [row EXCEPT !.php = php]
    OBVIOUS
  <2>2. new \in SiteRowSet /\ new.id = row.id /\ new.status = row.status /\ new.php = php
    BY <2>1 DEF SiteRowSet, SiteStatuses
  <2>3. Finalized(i, row) = new
    BY <1>1, <1>2, <1>6, <2>1 DEF Finalized
  <2> QED
    BY <1>1, <1>2, <1>6, <2>2, <2>3, SiteNones DEF Creation
<1>7. CASE kind = "delete"
  BY <1>1, <1>7 DEF Finalized, Creation
<1>8. CASE kind \in {"settings", "resync"}
  <2>1. Finalized(i, row) = row
    BY <1>1, <1>8 DEF Finalized, Creation
  <2> QED
    BY <1>1, <1>8, <2>1, SiteNones DEF Creation
<1> QED
  BY <1>4, <1>5, <1>6, <1>7, <1>8, SiteKindsAre DEF Creation

\* Every part of a site is a step of its deletion.
LEMMA DeletionComplete == SiteParts \subseteq StepsOf("delete", 6)
<1>1. \A k \in {2, 4, 5, 6} : k \in {m \in DOMAIN SiteSteps["delete"] : m <= 6}
  BY SiteStepsDelete
<1> QED
  BY <1>1, SiteStepsDelete DEF StepsOf, SiteParts

\* The step that makes a site active, switched or gone.
LEMMA FinalizeKeeps ==
    ASSUME SiteStrong, NEW i \in SiteRequests, Finalize(i)
    PROVE  SiteStrong'
<1>1. /\ SiteLive(i) /\ AtHand(siteTask[i]) /\ siteTask[i].pc = "do" /\ StepOf(i) = "finalize"
  BY DEF Finalize, AtFinalize, SiteLive, AtHand
<1>2. PICK kind \in SiteKinds : kind = siteTask[i].kind
  BY <1>1, SiteHas
<1>3. PICK at \in Nat : at = siteTask[i].at /\ StepIs(kind, at, "finalize")
  BY <1>1, <1>2, SiteAtStep, SiteHas
<1>4. PICK s \in Sites : s = siteTask[i].site
  BY <1>1, SiteHas
<1>5. /\ siteHost' = siteHost /\ sitePools' = sitePools
      /\ siteCaddy' = siteCaddy /\ siteLeft' = siteLeft
      /\ siteFaults' = siteFaults /\ siteCrashes' = siteCrashes
      /\ siteOverlap' = siteOverlap /\ siteStale' = siteStale
  BY DEF Finalize, siteHistory
<1>6. PICK php \in Versions : php = siteTask[i].php
  BY <1>1, SiteHas
<1>7. /\ siteRow' \in [Sites -> SiteRowSet \cup {None}]
      /\ \A w \in Sites : w \notin RowsOf(i) => siteRow'[w] = siteRow[w]
      /\ \A w \in RowsOf(i) :
           /\ kind = "delete" => siteRow'[w] = None
           /\ kind # "delete" =>
                /\ siteRow'[w] # None /\ siteRow[w] # None /\ siteRow'[w].id = siteRow[w].id
                /\ siteRow'[w].status = IF kind \in Creation THEN "active" ELSE siteRow[w].status
                /\ siteRow'[w].php = IF kind = "php" THEN php ELSE siteRow[w].php
  <2>1. siteRow \in [Sites -> SiteRowSet \cup {None}]
    BY <1>1, SiteHas DEF SiteShapes
  <2>2. siteRow' = [w \in Sites |-> IF w \in RowsOf(i) THEN Finalized(i, siteRow[w]) ELSE siteRow[w]]
    BY DEF Finalize
  <2>3. \A w \in RowsOf(i) : w \in Sites /\ siteRow[w] \in SiteRowSet /\ siteRow[w] # None
    BY <2>1 DEF RowsOf
  <2>4. ASSUME NEW w \in RowsOf(i)
        PROVE  /\ siteRow'[w] = Finalized(i, siteRow[w]) /\ Finalized(i, siteRow[w]) \in SiteRowSet \cup {None}
               /\ kind = "delete" => siteRow'[w] = None
               /\ kind # "delete" =>
                    /\ siteRow'[w] # None /\ siteRow[w] # None /\ siteRow'[w].id = siteRow[w].id
                    /\ siteRow'[w].status = IF kind \in Creation THEN "active" ELSE siteRow[w].status
                    /\ siteRow'[w].php = IF kind = "php" THEN php ELSE siteRow[w].php
    BY <1>1, <1>2, <1>6, <2>2, <2>3, FinalizedIs
  <2>5. siteRow' \in [Sites -> SiteRowSet \cup {None}]
    BY <2>1, <2>2, <2>4
  <2> QED
    BY <2>2, <2>4, <2>5
<1>8. /\ siteOps' \in [SiteRequests -> SiteOpSet \cup {None}]
      /\ \A k \in SiteRequests :
           /\ siteOps'[k] # None => /\ siteOps[k] # None
                                    /\ siteOps'[k].site = siteOps[k].site /\ siteOps'[k].kind = siteOps[k].kind
           /\ siteOps'[k] # None /\ siteOps'[k].linked => siteOps'[k] = siteOps[k]
           /\ kind = "delete" /\ siteOps'[k] # None /\ siteOps'[k].site \in RowsOf(i) => ~siteOps'[k].linked
           /\ siteOps[k] = None => siteOps'[k] = None
  <2>1. siteOps \in [SiteRequests -> SiteOpSet \cup {None}]
    BY <1>1, SiteHas DEF SiteShapes
  <2>2. siteOps' = [j \in SiteRequests |->
           IF kind = "delete" /\ siteOps[j] # None /\ siteOps[j].site \in RowsOf(i)
           THEN [siteOps[j] EXCEPT !.linked = FALSE] ELSE siteOps[j]]
    BY <1>2 DEF Finalize
  <2>3. ASSUME NEW k \in SiteRequests, siteOps[k] # None
        PROVE  \E op \in SiteOpSet : /\ op = [siteOps[k] EXCEPT !.linked = FALSE] /\ ~op.linked
                                     /\ op.site = siteOps[k].site /\ op.kind = siteOps[k].kind /\ op # None
    <3>1. siteOps[k] \in SiteOpSet
      BY <2>1, <2>3
    <3>2. [siteOps[k] EXCEPT !.linked = FALSE] \in SiteOpSet
      BY <3>1 DEF SiteOpSet
    <3> QED
      BY <3>1, <3>2, SiteNones DEF SiteOpSet
  <2>4. siteOps' \in [SiteRequests -> SiteOpSet \cup {None}]
    BY <2>1, <2>2, <2>3
  <2>5. ASSUME NEW k \in SiteRequests
        PROVE  /\ siteOps'[k] # None => /\ siteOps[k] # None
                                        /\ siteOps'[k].site = siteOps[k].site /\ siteOps'[k].kind = siteOps[k].kind
               /\ siteOps'[k] # None /\ siteOps'[k].linked => siteOps'[k] = siteOps[k]
               /\ kind = "delete" /\ siteOps'[k] # None /\ siteOps'[k].site \in RowsOf(i) => ~siteOps'[k].linked
               /\ siteOps[k] = None => siteOps'[k] = None
    <3>1. CASE kind = "delete" /\ siteOps[k] # None /\ siteOps[k].site \in RowsOf(i)
      <4>1. PICK op \in SiteOpSet : /\ op = [siteOps[k] EXCEPT !.linked = FALSE] /\ ~op.linked
                                    /\ op.site = siteOps[k].site /\ op.kind = siteOps[k].kind /\ op # None
        BY <2>3, <3>1
      <4>2. siteOps'[k] = op
        BY <2>2, <3>1, <4>1
      <4> QED
        BY <3>1, <4>1, <4>2
    <3>2. CASE ~(kind = "delete" /\ siteOps[k] # None /\ siteOps[k].site \in RowsOf(i))
      <4>1. siteOps'[k] = siteOps[k]
        BY <2>2, <3>2
      <4> QED
        BY <3>2, <4>1
    <3> QED
      BY <3>1, <3>2
  <2> QED
    BY <2>4, <2>5
<1>9. /\ kind \in Inline => SiteEnded(i) /\ siteWriter' \in SiteRequests \cup {None}
      /\ kind \notin Inline => SiteMoved(i, "finish", at) /\ siteWriter' = siteWriter
  BY <1>1, <1>2, <1>3, SiteHas, SiteEnds, SiteGoto DEF Finalize
<1>10. SiteGoesOn(i) /\ siteTask' \in [SiteRequests -> SiteTasks]
       /\ (\A j \in SiteRequests : j # i => siteTask'[j] = siteTask[j])
       /\ siteTask'[i].site \in {s, None} /\ ~AtHand(siteTask'[i])
  <2>1. CASE kind \in Inline
    BY <1>9, <2>1 DEF SiteGoesOn, SiteEnded, AtHand
  <2>2. CASE kind \notin Inline
    <3>1. SitePlace(siteTask'[i]) /\ SiteStays(i)
      BY <1>2, <1>9, <2>2 DEF SitePlace, SiteStays, SiteMoved, SiteKept
    <3> QED
      BY <1>4, <1>9, <2>2, <3>1 DEF SiteGoesOn, SiteMoved, SiteKept, AtHand
  <2> QED
    BY <2>1, <2>2
<1>11. SiteShapes'
  <2>1. siteWriter' \in SiteRequests \cup {None}
    BY <1>1, <1>9, SiteHas DEF SiteShapes
  <2> QED
    BY <1>1, <1>5, <1>7, <1>8, <1>10, <2>1, SiteHas DEF SiteShapes
<1>12. SiteFixed /\ SiteOpsStay(i)
  BY <1>5, <1>7, <1>8 DEF SiteFixed, SiteOpsStay, SiteRowKept
<1>13. ASSUME NEW w \in Sites, Calm(w), w # s PROVE SiteElse(i, w)
  <2>1. siteRow'[w] = siteRow[w]
    BY <1>1, <1>4, <1>7, <1>13, SiteElseIs
  <2> QED
    BY <1>4, <1>5, <1>10, <1>13, <2>1, SiteAssumption DEF SiteElse, SiteLeaves
<1>14. ASSUME Calm(s) PROVE SiteOwn(s) /\ SiteFails(i, s)
  <2>1. /\ SiteAlone(s) /\ SiteMeets(s, siteTask[i]) /\ SiteMade(s, siteTask[i])
        /\ siteStale \/ SiteRouted(s)
        /\ RowsOf(i) = {s}
        /\ Settled(s) <=> kind \notin Creation \cup {"php"}
        /\ Settled(s) => SiteRests(s)
    BY <1>1, <1>2, <1>4, <1>14, SiteOwnIs DEF Creation
  <2>2. PICK old \in Versions : old = siteTask[i].old /\ old = siteRow[s].php
    BY <1>1, <2>1, SiteHas DEF SiteMeets
  <2>3. /\ siteRow[s] # None /\ (kind = "php" <=> php # old)
        /\ siteRow[s].status = IF kind \in Creation THEN "provisioning"
                               ELSE IF kind = "delete" THEN "deleting" ELSE "active"
    BY <1>1, <1>2, <1>6, <2>1, <2>2 DEF SiteMeets
  <2>4. IF kind = "delete" THEN siteRow'[s] = None
        ELSE /\ siteRow'[s] # None /\ siteRow'[s].id = siteRow[s].id
             /\ siteRow'[s].status = "active" /\ siteRow'[s].php = php
    BY <1>7, <2>1, <2>2, <2>3
  <2>5. SiteRests(s)'
    <3>1. CASE kind \in Creation
      <4>1. SiteCreated(s, siteTask[i]) /\ at > 3
        BY <1>2, <1>3, <2>1, <3>1 DEF SiteMade, StepIs, Creation
      <4>2. php \in sitePools[s] /\ Only(s, {php})
        BY <1>1, <1>3, <1>6, <4>1 DEF SiteCreated
      <4> QED
        BY <1>5, <2>4, <3>1, <4>2 DEF SiteRests, Only, Creation
    <3>2. CASE kind = "delete"
      <4>1. SiteDeleted(s, siteTask[i]) /\ at = 7
        BY <1>2, <1>3, <2>1, <3>2 DEF SiteMade, StepIs
      <4>2. siteHost[s] \cap StepsOf("delete", 6) = {} /\ Only(s, {})
        BY <1>1, <1>3, <4>1 DEF SiteDeleted
      <4>3. siteHost[s] \subseteq SiteParts
        BY <1>1, SiteHas DEF SiteShapes
      <4> QED
        BY <1>5, <2>4, <3>2, <4>2, <4>3, DeletionComplete DEF SiteRests, Only
    <3>3. CASE kind = "php"
      <4>1. SiteSwitched(s, siteTask[i]) /\ at = 4
        BY <1>2, <1>3, <2>1, <3>3 DEF SiteMade, StepIs
      <4>2. Only(s, {php}) /\ ("remove" \notin siteLeft[s] => php \in sitePools[s])
        BY <1>1, <1>3, <1>6, <4>1 DEF SiteSwitched
      <4> QED
        BY <1>5, <2>4, <3>3, <4>2 DEF SiteRests, Only
    <3>4. CASE kind \notin Creation \cup {"delete", "php"}
      <4>1. Only(s, {php}) /\ ("remove" \notin siteLeft[s] => php \in sitePools[s])
        BY <2>1, <2>2, <2>3, <3>4 DEF SiteRests
      <4> QED
        BY <1>5, <2>4, <3>4, <4>1 DEF SiteRests, Only
    <3> QED
      BY <3>1, <3>2, <3>3, <3>4
  <2>6. SiteAlone(s)' /\ SiteThere(s)'
    <3>1. CASE kind \in Inline
      BY <1>4, <1>9, <2>1, <2>3, <2>4, <2>5, <3>1, SiteOwnEnds DEF SiteRowKept, Inline
    <3>2. CASE kind \notin Inline
      BY <1>2, <1>4, <1>9, <2>1, <2>3, <2>4, <2>5, <3>2, SiteOwnFinishes DEF SiteRowKept, Inline
    <3> QED
      BY <3>1, <3>2
  <2>7. SiteRouted(s) => SiteRouted(s)'
    <3> SUFFICES ASSUME SiteRouted(s) PROVE SiteRouted(s)'
      OBVIOUS
    <3>1. SiteLoaded(s, siteTask[i]) /\ ~SwitchedOver(i)'
      BY <1>4, <1>10 DEF SiteRouted, SwitchedOver, AtHand
    <3>2. siteTask'[i].site = s => SiteLoaded(s, siteTask[i])'
      BY <1>10 DEF SiteLoaded, AtHand
    <3>3. siteRow'[s] = None => siteCaddy'[s] = None
      <4>1. kind = "delete" => siteCaddy[s] = None
        BY <1>1, <1>2, <1>3, <3>1 DEF SiteLoaded, StepIs
      <4> QED
        BY <1>5, <2>4, <4>1
    <3>4. "remove" \notin siteLeft'[s] /\ kind # "delete" => siteCaddy'[s] = siteRow'[s].php
      <4>1. CASE kind \in Creation \cup {"php"}
        <5>1. siteCaddy[s] = php
          BY <1>1, <1>2, <1>3, <1>6, <2>2, <2>3, <3>1, <4>1 DEF SiteLoaded, StepIs, Creation
        <5> QED
          BY <1>5, <2>4, <4>1, <5>1 DEF Creation
      <4>2. CASE kind \notin Creation \cup {"php", "delete"}
        <5>1. \A j \in SiteRequests : siteTask[j].site = s => ~SwitchedOver(j)
          BY <1>2, <1>4, <2>1, <4>2 DEF SiteAlone, SwitchedOver
        <5>2. "remove" \notin siteLeft[s] => siteCaddy[s] = php
          BY <2>2, <2>3, <4>2, <5>1 DEF SiteRouted, ActiveSite
        <5> QED
          BY <1>5, <2>4, <4>2, <5>2
      <4> QED
        BY <4>1, <4>2
    <3>5. ActiveSite(s)' => kind # "delete"
      BY <2>4 DEF ActiveSite
    <3> QED
      BY <1>4, <1>10, <2>1, <3>2, <3>3, <3>4, <3>5, SiteOwnRouted
  <2>8. SiteFails(i, s)
    <3>1. kind = "delete" => \A k \in SiteRequests :
             siteOps'[k] # None /\ siteOps'[k].site = s => ~siteOps'[k].linked
      BY <1>8, <2>1
    <3>2. siteOps'[i] # None => SiteLive(i)'
      <4>1. CASE kind \in Inline
        BY <1>1, <1>2, <1>8, <4>1, SiteInlineNone
      <4>2. CASE kind \notin Inline
        BY <1>9, <4>2 DEF SiteMoved, SiteLive
      <4> QED
        BY <4>1, <4>2
    <3> QED
      BY <1>2, <3>1, <3>2 DEF SiteFails
  <2> QED
    BY <1>5, <2>1, <2>6, <2>7, <2>8 DEF SiteOwn
<1> QED
  BY <1>1, <1>4, <1>10, <1>11, <1>12, <1>13, <1>14, SiteStrongFrom

-----------------------------------------------------------------------------
(* The reaper, and restarts.                                               *)

\* An operation that is reaped is not one that left a creation half undone:
\* those that are still linked and have no task have been concluded.
LEMMA ReapKeeps ==
    ASSUME SiteStrong, NEW i \in SiteRequests, Reap(i) \/ ReapSlow(i)
    PROVE  SiteStrong'
<1>0. /\ SiteShapes /\ SitePlaces /\ SiteIds /\ SiteOpsOwned /\ SwitchWrites /\ CreationsUndone
  BY DEF SiteStrong
<1>1. /\ siteRow' = siteRow /\ siteHost' = siteHost /\ sitePools' = sitePools
      /\ siteCaddy' = siteCaddy /\ siteTask' = siteTask /\ siteWriter' = siteWriter
      /\ siteLeft' = siteLeft /\ siteCrashes' = siteCrashes
      /\ siteOverlap' = siteOverlap /\ siteStale' = siteStale
  BY DEF Reap, ReapSlow, siteHistory
<1>2. siteFaults' \in Nat /\ siteFaults' + siteCrashes' <= SiteMaxFaults
  <2>1. siteFaults \in Nat /\ siteCrashes \in Nat /\ siteFaults + siteCrashes <= SiteMaxFaults
    BY <1>0 DEF SiteShapes
  <2>2. siteFaults' = siteFaults \/ (siteFaults' = siteFaults + 1 /\ siteFaults + siteCrashes < SiteMaxFaults)
    BY DEF Reap, ReapSlow, Fault
  <2> QED
    BY <1>1, <2>1, <2>2, SiteAssumption
<1>3. /\ siteOps' \in [SiteRequests -> SiteOpSet \cup {None}]
      /\ \A k \in SiteRequests : k # i => siteOps'[k] = siteOps[k]
      /\ siteOps[i] # None =>
           /\ siteOps'[i].site = siteOps[i].site
           /\ siteOps'[i].kind = siteOps[i].kind /\ siteOps'[i].linked = siteOps[i].linked
  BY SiteConcludes DEF Reap, ReapSlow
<1>4. siteOps[i] # None /\ siteOps[i].status \in {"pending", "running"}
  BY DEF Reap, ReapSlow
<1>5. SiteShapes'
  BY <1>0, <1>1, <1>2, <1>3 DEF SiteShapes
<1>6. SitePlaces' /\ SiteIds' /\ SwitchWrites'
  BY <1>0, <1>1 DEF SitePlaces, SitePlace, SiteIds, SwitchWrites, SiteLive
<1>7. SiteOpsOwned'
  <2>1. \A k \in SiteRequests : siteOps'[k] # None /\ siteOps[k] # None =>
            siteOps'[k].site = siteOps[k].site /\ siteOps'[k].kind = siteOps[k].kind
    BY <1>3
  <2>2. \A k \in SiteRequests : siteOps'[k] # None => siteOps[k] # None
    BY <1>3, <1>4
  <2> QED
    BY <1>0, <1>1, <2>1, <2>2 DEF SiteOpsOwned, SiteLive
<1>8. ASSUME NEW s \in Sites, Calm(s)'
      PROVE  SiteAlone(s)' /\ SiteThere(s)' /\ (siteStale' \/ SiteRouted(s)')
  <2>1. SiteAlone(s) /\ SiteThere(s) /\ (siteStale \/ SiteRouted(s))
    BY <1>1, <1>8 DEF SiteStrong, Calm
  <2>2. SiteAlone(s)'
    BY <1>1, <2>1 DEF SiteAlone, SiteMeets, AtHand
  <2>3. SiteThere(s)'
    BY <1>1, <2>1 DEF SiteThere, SiteMade, SiteCreated, SiteDeleted, SiteSwitched, SiteRests, Settled,
                      Only, AtHand
  <2>4. SiteRouted(s) => SiteRouted(s)'
    BY <1>1 DEF SiteRouted, SiteLoaded, SwitchedOver, ActiveSite
  <2> QED
    BY <1>1, <2>1, <2>2, <2>3, <2>4
<1>9. CreationsUndone'
  <2> SUFFICES ASSUME NEW k \in SiteRequests, siteOps'[k] # None, siteOps'[k].linked, ~SiteLive(k)',
                      Calm(siteOps[k].site)'
               PROVE  CreationUndone(siteOps[k])'
    BY DEF CreationsUndone
  <2>1. CASE k # i
    <3>1. siteOps'[k] = siteOps[k] /\ ~SiteLive(k) /\ Calm(siteOps[k].site)
      BY <1>1, <1>3, <2>1 DEF SiteLive, Calm
    <3>2. CreationUndone(siteOps[k])
      BY <1>0, <3>1 DEF CreationsUndone
    <3> QED
      BY <1>1, <3>1, <3>2 DEF CreationUndone, Only
  <2>2. CASE k = i
    <3>1. siteOps[i].linked /\ ~SiteLive(i) /\ Calm(siteOps[i].site)
      BY <1>1, <1>3, <1>4, <2>2 DEF SiteLive, Calm
    <3>2. siteOps[i].status \in {"succeeded", "failed"}
      BY <1>0, <1>4, <3>1 DEF CreationsUndone, CreationUndone
    <3> QED
      BY <1>4, <3>2
  <2> QED
    BY <2>1, <2>2
<1> QED
  BY <1>5, <1>6, <1>7, <1>8, <1>9 DEF SiteStrong

\* After a restart no site is said to be calm.
LEMMA SiteRestartKeeps ==
    ASSUME SiteStrong, SiteRestart
    PROVE  SiteStrong'
<1>0. SiteShapes /\ SiteIds /\ SiteOpsOwned
  BY DEF SiteStrong
<1>1. /\ siteRow' = siteRow /\ siteHost' = siteHost /\ sitePools' = sitePools
      /\ siteOps' = siteOps /\ siteLeft' = siteLeft /\ siteFaults' = siteFaults
      /\ siteOverlap' = siteOverlap /\ siteStale' = siteStale /\ siteWriter' = None
  BY DEF SiteRestart, siteHistory
<1>2. siteCrashes' \in Nat /\ siteCrashes' # 0 /\ siteFaults' + siteCrashes' <= SiteMaxFaults
  <2>1. siteFaults \in Nat /\ siteCrashes \in Nat
    BY <1>0 DEF SiteShapes
  <2>2. siteCrashes' = siteCrashes + 1 /\ siteFaults + siteCrashes < SiteMaxFaults
    BY DEF SiteRestart
  <2> QED
    BY <1>1, <2>1, <2>2, SiteAssumption
<1>3. \A j \in SiteRequests : siteTask[j].kind \in SiteKinds \cup {None}
  BY <1>0, SiteTaskIs DEF SiteAtWork
<1>4. siteTask' = [j \in SiteRequests |-> SiteOff(siteTask[j].kind)]
  BY DEF SiteRestart, SiteOff
<1>5. \A kind : SiteOff(kind).kind = kind /\ SiteOff(kind).pc = "off"
  BY DEF SiteOff, NoTask
<1>6. siteTask' \in [SiteRequests -> SiteTasks]
  BY <1>3, <1>4 DEF SiteTasks
<1>7. \A j \in SiteRequests : siteTask'[j].kind = siteTask[j].kind /\ siteTask'[j].pc = "off"
  BY <1>4, <1>5
<1>8. siteCaddy' \in SiteRouting
  <2>1. \A w \in Sites : siteRow[w] # None => siteRow[w].php \in Versions
    BY <1>0 DEF SiteShapes, SiteRowSet
  <2>2. PICK f : f = [w \in Sites |-> IF siteRow[w] # None /\ siteRow[w].status \in {"active", "provisioning"}
                                      THEN siteRow[w].php ELSE None]
    OBVIOUS
  <2>3. f \in SiteRouting
    BY <2>1, <2>2 DEF SiteRouting
  <2>4. siteCaddy' \in {siteCaddy, f}
    BY <2>2 DEF SiteRestart
  <2> QED
    BY <1>0, <2>3, <2>4 DEF SiteShapes
<1>9. SiteShapes'
  BY <1>0, <1>1, <1>2, <1>6, <1>8 DEF SiteShapes
<1>10. SitePlaces' /\ SwitchWrites'
  BY <1>7 DEF SitePlaces, SwitchWrites, SiteLive
<1>11. SiteIds' /\ SiteOpsOwned'
  BY <1>0, <1>1, <1>7 DEF SiteIds, SiteOpsOwned, SiteLive
<1>12. \A s : ~Calm(s)'
  BY <1>2 DEF Calm
<1> QED
  BY <1>9, <1>10, <1>11, <1>12 DEF SiteStrong, CreationsUndone

-----------------------------------------------------------------------------
(* Requests.                                                               *)

\* The next identity is one that no row has, and requests to come suffice.
LEMMA NewIdIs ==
    ASSUME SiteStrong, NEW i \in FreeRequest
    PROVE  /\ NewId \in Nat /\ NewId <= SiteMaxOps + 1
           /\ \A w \in Sites : siteRow[w] # None => siteRow[w].id < NewId
           /\ \A j \in SiteRequests : siteTask[j].kind = None /\ j # i => NewId <= j
<1> DEFINE T == {siteRow[w].id : w \in {u \in Sites : siteRow[u] # None}}
<1>0. SiteShapes /\ SiteIds
  BY DEF SiteStrong
<1>1. i \in SiteRequests /\ siteTask[i].kind = None /\ i \in Nat /\ i <= SiteMaxOps /\ SiteMaxOps \in Nat
  BY SiteAssumption DEF FreeRequest, SiteRequests
<1>2. \A w \in Sites : siteRow[w] # None => siteRow[w].id \in Nat /\ siteRow[w].id <= i
  BY <1>0, <1>1 DEF SiteIds, SiteShapes, SiteRowSet
<1>3. T \in SUBSET (0 .. i)
  BY <1>1, <1>2
<1>4. \A w \in Sites : siteRow[w] # None => siteRow[w].id \in T
  OBVIOUS
<1>5. NewId = 1 + Greatest(T)
  BY DEF NewId
<1> HIDE DEF T
<1>6. Greatest(T) \in Nat /\ Greatest(T) <= i /\ \A n \in T : n <= Greatest(T)
  <2>1. CASE T = {}
    BY <1>1, <2>1 DEF Greatest
  <2>2. CASE T # {}
    <3>1. Greatest(T) \in T /\ \A n \in T : n <= Greatest(T)
      BY <1>1, <1>3, <2>2, GreatestOf
    <3>2. PICK g \in 0 .. i : g = Greatest(T)
      BY <1>3, <3>1
    <3> QED
      BY <1>1, <3>1, <3>2
  <2> QED
    BY <2>1, <2>2
<1>7. \A j \in SiteRequests : siteTask[j].kind = None /\ j # i => i + 1 <= j
  BY <1>1 DEF FreeRequest, SiteRequests
<1>8. \A w \in Sites : siteRow[w] # None => siteRow[w].id < NewId
  BY <1>2, <1>4, <1>5, <1>6
<1>9. ASSUME NEW j \in SiteRequests, siteTask[j].kind = None, j # i PROVE NewId <= j
  <2>1. j \in Nat /\ i + 1 <= j
    BY <1>7, <1>9 DEF SiteRequests
  <2> QED
    BY <1>1, <1>5, <1>6, <2>1
<1> QED
  BY <1>1, <1>5, <1>6, <1>8, <1>9

\* The row that a request writes.
NewRow(kind, s, row) ==
    /\ kind \in Creation /\ siteRow[s] = None /\ row.id = NewId /\ row.status = "provisioning"
OldRow(kind, s, row, php) ==
    /\ kind \in SiteKinds \ Creation /\ siteRow[s] # None
    /\ row.id = siteRow[s].id /\ row.php = siteRow[s].php
    /\ IF kind = "delete" THEN row.status = "deleting"
       ELSE siteRow[s].status = "active" /\ row.status = "active"

LEMMA AcceptKeeps ==
    ASSUME SiteStrong, NEW i \in SiteRequests, NEW kind \in SiteKinds, NEW s \in Sites,
           NEW row \in SiteRowSet, NEW php \in Versions, NEW wp \in BOOLEAN,
           kind = "php" <=> php # row.php,
           NewRow(kind, s, row) \/ OldRow(kind, s, row, php),
           Accept(i, kind, s, row, php, wp)
    PROVE  SiteStrong'
<1>0. SiteShapes /\ SitePlaces /\ SiteIds /\ SiteOpsOwned /\ SwitchWrites /\ CreationsUndone
  BY DEF SiteStrong
<1>1. i \in FreeRequest /\ siteTask[i].kind = None /\ ~SiteLive(i) /\ siteTask[i].site = None
      /\ siteOps[i] = None
  BY <1>0, SiteTaskIs DEF Accept, FreeRequest, SiteOpsOwned
<1>2. PICK new : new = [kind |-> kind, site |-> s, id |-> row.id, old |-> row.php, php |-> php,
                        wp |-> wp, pc |-> "do", at |-> 1, config |-> None]
  OBVIOUS
<1>3. /\ new \in SiteAtWork
      /\ new.kind = kind /\ new.site = s /\ new.id = row.id /\ new.old = row.php /\ new.php = php
      /\ new.wp = wp /\ new.pc = "do" /\ new.at = 1 /\ new.config = None
  BY <1>2 DEF SiteAtWork, SiteRowSet
<1>4. /\ siteTask' \in [SiteRequests -> SiteTasks] /\ siteTask'[i] = new
      /\ \A j \in SiteRequests : j # i => siteTask'[j] = siteTask[j]
  <2>1. siteTask' = [siteTask EXCEPT ![i] = new]
    BY <1>2 DEF Accept
  <2> QED
    BY <1>0, <1>3, <2>1 DEF SiteShapes, SiteTasks
<1>5. /\ siteRow' \in [Sites -> SiteRowSet \cup {None}] /\ siteRow'[s] = row /\ row # None
      /\ \A w \in Sites : w # s => siteRow'[w] = siteRow[w]
  BY <1>0, SiteNones DEF SiteShapes, Accept
<1>6. /\ siteOps' \in [SiteRequests -> SiteOpSet \cup {None}]
      /\ siteOps'[i] # None => siteOps'[i].site = s /\ siteOps'[i].kind = kind
      /\ \A k \in SiteRequests : k # i => siteOps'[k] = siteOps[k]
  <2>1. CASE kind \in Inline
    BY <1>0, <2>1 DEF SiteShapes, Accept
  <2>2. CASE kind \notin Inline
    <3>1. PICK op : op = [kind |-> kind, site |-> s, status |-> "running", linked |-> TRUE]
      OBVIOUS
    <3>2. op \in SiteOpSet /\ op.site = s /\ op.kind = kind
      BY <2>2, <3>1 DEF SiteOpSet
    <3>3. siteOps' = [siteOps EXCEPT ![i] = op]
      BY <2>2, <3>1 DEF Accept
    <3> QED
      BY <1>0, <3>2, <3>3 DEF SiteShapes
  <2> QED
    BY <2>1, <2>2
<1>7. /\ siteHost' = siteHost /\ sitePools' = sitePools /\ siteCaddy' = siteCaddy
      /\ siteWriter' = siteWriter /\ siteFaults' = siteFaults /\ siteCrashes' = siteCrashes
      /\ siteLeft' = siteLeft /\ siteStale' = siteStale
      /\ siteOverlap' \subseteq Sites /\ siteOverlap \subseteq siteOverlap'
      /\ s \notin siteOverlap' => OnSite(s) = {} /\ Meaning(row.id) = {}
  BY <1>0 DEF Accept, SiteShapes
<1>8. \A w \in Sites : w # s /\ siteRow[w] # None => siteRow[w].id # row.id
  <2>1. CASE NewRow(kind, s, row)
    <3>1. \A w \in Sites : siteRow[w] # None => siteRow[w].id < row.id /\ siteRow[w].id \in Nat /\ row.id \in Nat
      BY <1>0, <1>1, <2>1, NewIdIs DEF NewRow, SiteShapes, SiteRowSet
    <3> QED
      BY <3>1
  <2>2. CASE OldRow(kind, s, row, php)
    BY <1>0, <2>2 DEF OldRow, SiteIds
  <2> QED
    BY <2>1, <2>2
<1>9. SiteShapes'
  BY <1>0, <1>4, <1>5, <1>6, <1>7 DEF SiteShapes
<1>10. SitePlaces'
  <2>1. ASSUME NEW j \in SiteRequests, SiteLive(j)' PROVE SitePlace(siteTask[j])'
    <3>1. CASE j = i
      BY <1>3, <1>4, <3>1, SiteStepsCreate, SiteStepsClone, SiteStepsDelete, SiteStepsWordpress,
         SiteStepsPhp, SiteStepsShort, SiteKindsAre DEF SitePlace
    <3>2. CASE j # i
      BY <1>0, <1>4, <2>1, <3>2 DEF SitePlaces, SitePlace, SiteLive
    <3> QED
      BY <3>1, <3>2
  <2> QED
    BY <2>1 DEF SitePlaces
<1>11. SwitchWrites'
  BY <1>0, <1>3, <1>4, <1>7 DEF SwitchWrites
<1>12. SiteIds'
  <2>1. \A u, w \in Sites : siteRow'[u] # None /\ siteRow'[w] # None /\ siteRow'[u].id = siteRow'[w].id
            => u = w
    BY <1>0, <1>5, <1>8 DEF SiteIds
  <2>2. /\ row.id <= SiteMaxOps + 1
        /\ \A j \in SiteRequests : siteTask[j].kind = None /\ j # i => row.id <= j
    BY <1>0, <1>1, NewIdIs DEF NewRow, OldRow, SiteIds
  <2>3. \A j \in SiteRequests : siteTask'[j].kind = None => siteTask[j].kind = None /\ j # i
    BY <1>3, <1>4, SiteNones
  <2> QED
    BY <1>0, <1>5, <2>1, <2>2, <2>3 DEF SiteIds
<1>13. SiteOpsOwned'
  <2>1. ASSUME NEW j \in SiteRequests
        PROVE  /\ siteTask'[j].kind = None => siteOps'[j] = None
               /\ siteOps'[j] # None /\ SiteLive(j)' =>
                    siteTask'[j].site = siteOps'[j].site /\ siteTask'[j].kind = siteOps'[j].kind
    <3>1. CASE j = i
      BY <1>3, <1>4, <1>6, <3>1, SiteNones
    <3>2. CASE j # i
      BY <1>0, <1>4, <1>6, <3>2 DEF SiteOpsOwned, SiteLive
    <3> QED
      BY <3>1, <3>2
  <2> QED
    BY <2>1 DEF SiteOpsOwned
<1>14. \A w \in Sites : Calm(w)' => Calm(w)
  BY <1>7 DEF Calm
<1>15. ASSUME NEW w \in Sites, Calm(w)', w # s
       PROVE  SiteAlone(w)' /\ SiteThere(w)' /\ (siteStale' \/ SiteRouted(w)')
  <2>1. SiteAlone(w) /\ SiteThere(w) /\ (siteStale \/ SiteRouted(w))
    BY <1>14, <1>15 DEF SiteStrong
  <2>2. SiteLeaves(i, w) /\ siteTask[i].site # w
    BY <1>1, <1>3, <1>4, <1>5, <1>7, <1>8, <1>15, SiteAssumption DEF SiteLeaves
  <2> QED
    BY <1>7, <2>1, <2>2, SiteElsewhere
<1>16. ASSUME Calm(s)' PROVE SiteAlone(s)' /\ SiteThere(s)' /\ (siteStale' \/ SiteRouted(s)')
  <2>1. SiteAlone(s) /\ SiteThere(s) /\ (siteStale \/ SiteRouted(s))
    BY <1>14, <1>16 DEF SiteStrong
  <2>2. \A j \in SiteRequests : siteTask[j].site # s /\ ~(AtHand(siteTask[j]) /\ siteTask[j].id = row.id)
    <3>1. OnSite(s) = {} /\ Meaning(row.id) = {}
      BY <1>7, <1>16 DEF Calm
    <3>2. \A j \in SiteRequests : siteTask[j].site = s => SiteLive(j)
      BY <1>0, SiteTaskIs
    <3> QED
      BY <3>1, <3>2 DEF OnSite, Meaning, AtHand
  <2>3. \A j \in SiteRequests : siteTask'[j].site = s <=> j = i
    BY <1>3, <1>4, <2>2
  <2>4. SiteRests(s)
    BY <2>1, <2>2 DEF SiteThere, Settled
  <2>5. SiteMeets(s, siteTask[i])'
    BY <1>3, <1>4, <1>5 DEF SiteMeets, AtHand, NewRow, OldRow, Creation
  <2>6. SiteAlone(s)'
    <3>1. \A j \in SiteRequests : AtHand(siteTask'[j]) /\ siteTask'[j].id = row.id => j = i
      BY <1>4, <2>2
    <3> QED
      BY <1>5, <2>3, <2>5, <3>1 DEF SiteAlone, AtHand
  <2>7. kind \notin Creation => OldRow(kind, s, row, php)
    BY DEF NewRow
  <2>8. SiteRests(s)' \/ kind \in Creation
    <3>1. CASE OldRow(kind, s, row, php)
      BY <1>5, <1>7, <2>4, <3>1, SiteRestsKept DEF OldRow
    <3> QED
      BY <2>7, <3>1
  <2>9. SiteMade(s, siteTask[i])'
    <3>1. CASE kind \in Creation
      <4>1. siteHost[s] = {} /\ Only(s, {})
        BY <2>4, <3>1 DEF NewRow, OldRow, SiteRests
      <4>2. SiteCreated(s, siteTask[i])'
        BY <1>3, <1>4, <1>7, <4>1 DEF SiteCreated, Only, AtHand
      <4> QED
        BY <1>3, <1>4, <3>1, <4>2 DEF SiteMade, Creation
    <3>2. CASE kind = "delete"
      <4>1. StepsOf("delete", 1 - 1) = {}
        BY SiteKindsAre, StepsOfNone
      <4>2. SiteDeleted(s, siteTask[i])'
        BY <1>3, <1>4, <4>1 DEF SiteDeleted
      <4> QED
        BY <1>3, <1>4, <3>2, <4>2 DEF SiteMade, Creation
    <3>3. CASE kind = "php"
      <4>1. OldRow(kind, s, row, php)
        BY <2>7, <3>3 DEF Creation
      <4>2. Only(s, {row.php}) /\ ("remove" \notin siteLeft[s] => row.php \in sitePools[s])
        BY <2>4, <3>3, <4>1 DEF SiteRests, OldRow
      <4>3. SiteSwitched(s, siteTask[i])'
        BY <1>3, <1>4, <1>7, <4>2 DEF SiteSwitched, Only
      <4> QED
        BY <1>3, <1>4, <3>3, <4>3 DEF SiteMade, Creation
    <3>4. CASE kind \notin Creation \cup {"delete", "php"}
      BY <1>3, <1>4, <3>4 DEF SiteMade
    <3> QED
      BY <3>1, <3>2, <3>3, <3>4
  <2>10. SiteThere(s)'
    <3>1. Settled(s)' => kind \notin Creation
      BY <1>3, <1>4, <2>3 DEF Settled
    <3> QED
      BY <2>3, <2>8, <2>9, <3>1 DEF SiteThere
  <2>11. SiteRouted(s) => SiteRouted(s)'
    <3>1. ActiveSite(s)' => ActiveSite(s) /\ row.php = siteRow[s].php
      BY <1>5 DEF ActiveSite, NewRow, OldRow
    <3>2. \A j \in SiteRequests : siteTask[j].site = s => ~SwitchedOver(j)
      BY <2>2
    <3>3. SiteLoaded(s, siteTask[i])'
      BY <1>3, <1>4 DEF SiteLoaded
    <3>4. \A j \in SiteRequests : siteTask'[j].site = s => SiteLoaded(s, siteTask[j])'
      BY <2>3, <3>3
    <3> QED
      BY <1>5, <1>7, <3>1, <3>2, <3>4 DEF SiteRouted
  <2> QED
    BY <1>7, <2>1, <2>6, <2>10, <2>11
<1>17. CreationsUndone'
  <2> SUFFICES ASSUME NEW k \in SiteRequests, siteOps'[k] # None, siteOps'[k].linked, ~SiteLive(k)',
                      Calm(siteOps[k].site)'
               PROVE  CreationUndone(siteOps[k])'
    BY DEF CreationsUndone
  <2>1. k # i
    BY <1>3, <1>4 DEF SiteLive
  <2>2. PICK op : op = siteOps[k] /\ op = siteOps'[k] /\ op \in SiteOpSet
    BY <1>0, <1>6, <2>1 DEF SiteShapes
  <2>3. PICK w \in Sites : w = op.site
    BY <2>2 DEF SiteOpSet
  <2>4. Calm(w)' /\ Calm(w) /\ ~SiteLive(k)
    BY <1>4, <1>14, <2>1, <2>2, <2>3 DEF SiteLive
  <2>5. CreationUndone(op)
    BY <1>0, <2>2, <2>3, <2>4 DEF CreationsUndone
  <2>6. op.status = "failed" /\ op.kind \in Creation =>
           siteRow[w] # None /\ siteRow[w].status \in {"error", "deleting"}
           /\ siteHost[w] \subseteq siteLeft[w] /\ Only(w, {})
    BY <2>3, <2>5 DEF CreationUndone
  <2>7. siteRow[w] # None /\ siteRow[w].status \in {"error", "deleting"}
        => siteRow'[w] # None /\ siteRow'[w].status \in {"error", "deleting"}
    <3>1. CASE w = s
      BY <1>5, <3>1 DEF NewRow, OldRow
    <3>2. CASE w # s
      BY <1>5, <3>2
    <3> QED
      BY <3>1, <3>2
  <2>8. Only(w, {}) => Only(w, {})'
    BY <1>7 DEF Only
  <2> QED
    BY <1>7, <2>2, <2>3, <2>5, <2>6, <2>7, <2>8 DEF CreationUndone, Only
<1> QED
  BY <1>9, <1>10, <1>11, <1>12, <1>13, <1>15, <1>16, <1>17 DEF SiteStrong

LEMMA SiteRequestKeeps ==
    ASSUME SiteStrong, NEW i \in SiteRequests, SiteRequest(i)
    PROVE  SiteStrong'
<1>0. SiteShapes
  BY DEF SiteStrong
<1>1. PICK s \in Sites :
         \/ RequestCreate(i, s) \/ RequestStaging(i, s) \/ RequestDelete(i, s)
         \/ RequestWordpress(i, s) \/ RequestSettings(i, s) \/ RequestRenewal(i, s)
         \/ \E v \in Versions : RequestPhp(i, s, v)
  BY DEF SiteRequest
<1>2. \A w \in Sites : siteRow[w] # None =>
         /\ siteRow[w] \in SiteRowSet /\ siteRow[w].php \in Versions /\ siteRow[w].wp \in BOOLEAN
         /\ siteRow[w].id \in Nat /\ siteRow[w].status \in SiteStatuses
  BY <1>0 DEF SiteShapes, SiteRowSet
<1>3. CASE RequestCreate(i, s)
  <2>1. PICK row : row = [id |-> NewId, status |-> "provisioning", php |-> DefaultVersion, wp |-> FALSE]
    OBVIOUS
  <2>2. Accept(i, "create", s, row, DefaultVersion, FALSE) /\ siteRow[s] = None
    BY <1>3, <2>1 DEF RequestCreate
  <2>3. NewId \in Nat
    BY <2>2, NewIdIs DEF Accept
  <2>4. row \in SiteRowSet /\ NewRow("create", s, row) /\ row.php = DefaultVersion
    BY <2>1, <2>2, <2>3, SiteAssumption DEF SiteRowSet, SiteStatuses, NewRow, Creation
  <2> QED
    BY <2>2, <2>4, SiteKindsAre, SiteAssumption, AcceptKeeps
<1>4. CASE RequestStaging(i, s)
  <2>1. PICK w \in Sites : w = StagingOf[s] /\ siteRow[s] # None /\ siteRow[w] = None
    BY <1>4, SiteAssumption DEF RequestStaging
  <2>2. PICK row : row = [id |-> NewId, status |-> "provisioning", php |-> siteRow[s].php, wp |-> FALSE]
    OBVIOUS
  <2>3. Accept(i, "clone", w, row, siteRow[s].php, siteRow[s].wp)
    BY <1>4, <2>1, <2>2 DEF RequestStaging
  <2>4. NewId \in Nat
    BY <2>3, NewIdIs DEF Accept
  <2>5. row \in SiteRowSet /\ NewRow("clone", w, row) /\ row.php = siteRow[s].php
    BY <1>2, <2>1, <2>2, <2>4 DEF SiteRowSet, SiteStatuses, NewRow, Creation
  <2> QED
    BY <1>2, <2>1, <2>3, <2>5, SiteKindsAre, AcceptKeeps
<1>5. CASE RequestDelete(i, s)
  <2>1. PICK row : row = [siteRow[s] EXCEPT !.status = "deleting"]
    OBVIOUS
  <2>2. Accept(i, "delete", s, row, siteRow[s].php, siteRow[s].wp) /\ siteRow[s] # None
    BY <1>5, <2>1 DEF RequestDelete
  <2>3. row \in SiteRowSet /\ row.id = siteRow[s].id /\ row.php = siteRow[s].php /\ row.status = "deleting"
    BY <1>2, <2>1, <2>2 DEF SiteRowSet, SiteStatuses
  <2>4. OldRow("delete", s, row, siteRow[s].php)
    BY <2>2, <2>3, SiteKindsAre DEF OldRow, Creation
  <2> QED
    BY <1>2, <2>2, <2>3, <2>4, SiteKindsAre, AcceptKeeps
<1>6. ASSUME NEW kind \in SiteKinds \ {"create", "clone", "delete"}, NEW php \in Versions, NEW wp \in BOOLEAN,
             ActiveSite(s), kind = "php" <=> php # siteRow[s].php, Accept(i, kind, s, siteRow[s], php, wp)
      PROVE  SiteStrong'
  <2>1. siteRow[s] # None /\ siteRow[s].status = "active"
    BY <1>6 DEF ActiveSite
  <2>2. OldRow(kind, s, siteRow[s], php)
    BY <1>6, <2>1 DEF OldRow, Creation
  <2> QED
    BY <1>2, <1>6, <2>1, <2>2, AcceptKeeps
<1>7. CASE RequestWordpress(i, s) \/ RequestSettings(i, s) \/ RequestRenewal(i, s)
  <2>1. ActiveSite(s) /\ siteRow[s].php \in Versions
    BY <1>2, <1>7 DEF RequestWordpress, RequestSettings, RequestRenewal, ActiveSite
  <2> QED
    BY <1>6, <1>7, <2>1, SiteKindsAre DEF RequestWordpress, RequestSettings, RequestRenewal
<1>8. ASSUME NEW v \in Versions, RequestPhp(i, s, v) PROVE SiteStrong'
  BY <1>6, <1>8, SiteKindsAre DEF RequestPhp
<1> QED
  BY <1>1, <1>3, <1>4, <1>5, <1>7, <1>8

-----------------------------------------------------------------------------
(* The inductive invariant, and what follows from it.                      *)

LEMMA SiteInitStrong == SiteInit => SiteStrong
<1> SUFFICES ASSUME SiteInit PROVE SiteStrong
  OBVIOUS
<1>1. PICK p \in Sites, wp \in BOOLEAN :
         /\ siteRow = [s \in Sites |-> IF s = p THEN [id |-> 1, status |-> "active",
                          php |-> DefaultVersion, wp |-> wp] ELSE None]
         /\ siteHost = [s \in Sites |-> IF s # p THEN {}
                          ELSE SiteParts \ (IF wp THEN {} ELSE {"database"})]
         /\ sitePools = [s \in Sites |-> IF s = p THEN {DefaultVersion} ELSE {}]
         /\ siteCaddy = [s \in Sites |-> IF s = p THEN DefaultVersion ELSE None]
  BY DEF SiteInit
<1>2. /\ siteOps = [i \in SiteRequests |-> None] /\ siteTask = [i \in SiteRequests |-> NoTask]
      /\ siteWriter = None /\ siteFaults = 0 /\ siteCrashes = 0
      /\ siteLeft = [s \in Sites |-> {}] /\ siteOverlap = {} /\ siteStale = FALSE
  BY DEF SiteInit
<1>3. PICK row : row = [id |-> 1, status |-> "active", php |-> DefaultVersion, wp |-> wp]
  OBVIOUS
<1>4. /\ row \in SiteRowSet /\ row # None /\ row.id = 1 /\ row.status = "active" /\ row.php = DefaultVersion
  BY <1>3, SiteNones, SiteAssumption DEF SiteRowSet, SiteStatuses
<1>5. \A s \in Sites : siteRow[s] = IF s = p THEN row ELSE None
  BY <1>1, <1>3
<1>6. \A i \in SiteRequests : /\ siteTask[i] = SiteOff(None) /\ siteTask[i].pc = "off"
                              /\ siteTask[i].site = None /\ siteTask[i].kind = None
  <2>1. SiteOff(None) = NoTask
    <3>1. PICK t : t = NoTask
      OBVIOUS
    <3>2. t \in [kind : {None}, site : {None}, id : {0}, old : {None}, php : {None}, wp : {FALSE},
                 pc : {"off"}, at : {0}, config : {None}]
      BY <3>1 DEF NoTask
    <3>3. [t EXCEPT !.kind = None] = t
      BY <3>2
    <3> QED
      BY <3>1, <3>3, Zenon DEF SiteOff
  <2>2. NoTask.pc = "off" /\ NoTask.site = None /\ NoTask.kind = None
    BY DEF NoTask
  <2> QED
    BY <1>2, <2>1, <2>2
<1>7. SiteShapes
  <2>1. siteRow \in [Sites -> SiteRowSet \cup {None}]
    BY <1>1, <1>3, <1>4
  <2>2. siteTask \in [SiteRequests -> SiteTasks]
    BY <1>2, <1>6 DEF SiteTasks
  <2>3. siteHost \in [Sites -> SUBSET SiteParts] /\ sitePools \in [Sites -> SUBSET Versions]
        /\ siteCaddy \in SiteRouting
    BY <1>1, SiteAssumption DEF SiteRouting
  <2>4. /\ siteOps \in [SiteRequests -> SiteOpSet \cup {None}] /\ siteWriter \in SiteRequests \cup {None}
        /\ siteLeft \in [Sites -> SUBSET SiteStepNames]
        /\ siteOverlap \subseteq Sites /\ siteStale \in BOOLEAN
    BY <1>2
  <2>5. siteFaults \in Nat /\ siteCrashes \in Nat /\ siteFaults + siteCrashes <= SiteMaxFaults
    BY <1>2, SiteAssumption
  <2> QED
    BY <2>1, <2>2, <2>3, <2>4, <2>5 DEF SiteShapes
<1>8. SitePlaces /\ SwitchWrites
  BY <1>6 DEF SitePlaces, SwitchWrites, SiteLive
<1>9. SiteIds /\ SiteOpsOwned
  <2>1. \A i \in SiteRequests : 1 <= i /\ siteOps[i] = None
    BY <1>2, SiteAssumption DEF SiteRequests
  <2>2. 1 <= SiteMaxOps + 1
    BY SiteAssumption
  <2> QED
    BY <1>4, <1>5, <2>1, <2>2 DEF SiteIds, SiteOpsOwned
<1>10. ASSUME NEW s \in Sites PROVE SiteAlone(s) /\ SiteThere(s) /\ SiteRouted(s)
  <2>1. \A i \in SiteRequests : siteTask[i].site # s /\ ~AtHand(siteTask[i])
    BY <1>6, SiteAssumption DEF AtHand
  <2>2. SiteAlone(s)
    BY <1>4, <1>5, <2>1 DEF SiteAlone
  <2>3. SiteRests(s)
    BY <1>1, <1>4, <1>5 DEF SiteRests, Only
  <2>4. SiteRouted(s)
    BY <1>1, <1>4, <1>5, <2>1 DEF SiteRouted, ActiveSite
  <2> QED
    BY <2>1, <2>2, <2>3, <2>4 DEF SiteThere
<1>11. CreationsUndone
  BY <1>2 DEF CreationsUndone
<1> QED
  BY <1>7, <1>8, <1>9, <1>10, <1>11 DEF SiteStrong

LEMMA SiteNextStrong == SiteStrong /\ [SiteNext]_siteVars => SiteStrong'
<1> SUFFICES ASSUME SiteStrong, [SiteNext]_siteVars PROVE SiteStrong'
  OBVIOUS
<1>1. ASSUME NEW i \in SiteRequests, SiteRequest(i) \/ SiteTaskStep(i) \/ Reap(i) \/ ReapSlow(i)
      PROVE  SiteStrong'
  BY <1>1, SiteRequestKeeps, ReapKeeps, HostStepKeeps, HostStepFailsKeeps, BuildConfigKeeps,
     LoadConfigKeeps, LoadFailsKeeps, WithoutRowKeeps, UndoKeeps, GiveUpKeeps, FinalizeKeeps,
     FinishKeeps DEF SiteTaskStep
<1>2. CASE UNCHANGED siteVars
  <2>1. /\ siteRow' = siteRow /\ siteHost' = siteHost /\ sitePools' = sitePools
        /\ siteCaddy' = siteCaddy /\ siteOps' = siteOps /\ siteTask' = siteTask
        /\ siteWriter' = siteWriter /\ siteFaults' = siteFaults /\ siteCrashes' = siteCrashes
        /\ siteLeft' = siteLeft /\ siteOverlap' = siteOverlap /\ siteStale' = siteStale
    BY <1>2 DEF siteVars
  <2>2. SiteShapes' /\ SiteIds' /\ SiteOpsOwned' /\ SwitchWrites' /\ SitePlaces'
    BY <2>1 DEF SiteStrong, SiteShapes, SiteIds, SiteOpsOwned, SwitchWrites, SitePlaces, SitePlace, SiteLive
  <2>3. CreationsUndone'
    BY <2>1 DEF SiteStrong, CreationsUndone, CreationUndone, Only, Calm, SiteLive
  <2>4. ASSUME NEW s \in Sites, Calm(s)'
        PROVE  SiteAlone(s)' /\ SiteThere(s)' /\ (siteStale' \/ SiteRouted(s)')
    <3>1. SiteAlone(s) /\ SiteThere(s) /\ (siteStale \/ SiteRouted(s))
      BY <2>1, <2>4 DEF SiteStrong, Calm
    <3>2. SiteAlone(s)'
      BY <2>1, <3>1 DEF SiteAlone, SiteMeets, AtHand
    <3>3. SiteThere(s)'
      BY <2>1, <3>1 DEF SiteThere, SiteMade, SiteCreated, SiteDeleted, SiteSwitched, SiteRests, Settled,
                        Only, AtHand
    <3>4. SiteRouted(s) => SiteRouted(s)'
      BY <2>1 DEF SiteRouted, SiteLoaded, SwitchedOver, ActiveSite
    <3> QED
      BY <2>1, <3>1, <3>2, <3>3, <3>4
  <2> QED
    BY <2>2, <2>3, <2>4 DEF SiteStrong
<1> QED
  BY <1>1, <1>2, SiteRestartKeeps DEF SiteNext

LEMMA SiteStrongImplies == SiteStrong => SitesSound
<1> SUFFICES ASSUME SiteStrong PROVE SitesSound
  OBVIOUS
<1>1. ASSUME NEW s \in Sites, ActiveSite(s), Undisturbed(s), "remove" \notin siteLeft[s]
      PROVE  siteCaddy[s] # None /\ siteCaddy[s] \in sitePools[s]
  <2>1. SiteAlone(s) /\ SiteThere(s) /\ SiteRouted(s) /\ SiteShapes /\ SitePlaces
    BY <1>1 DEF SiteStrong, Undisturbed, Calm
  <2>2. siteRow[s] # None /\ siteRow[s].status = "active"
    BY <1>1 DEF ActiveSite
  <2>3. \A v \in sitePools[s] : v # None
    BY <2>1, SiteNones DEF SiteShapes
  <2>4. CASE \E i \in SiteRequests : siteTask[i].site = s /\ siteTask[i].kind = "php"
    <3>1. PICK i \in SiteRequests : siteTask[i].site = s /\ siteTask[i].kind = "php"
      BY <2>4
    <3>2. SiteLive(i) /\ SitePlace(siteTask[i])
      BY <2>1, <3>1, SiteTaskIs DEF SitePlaces
    <3>3. AtHand(siteTask[i]) /\ (siteTask[i].pc = "do" => siteTask[i].at \in {1, 2, 3, 4})
      BY <2>1, <3>1, <3>2, SiteTaskIs, SiteStepsPhp DEF SitePlace, SiteLive, AtHand, Inline
    <3>4. SiteMeets(s, siteTask[i]) /\ SiteSwitched(s, siteTask[i]) /\ SiteLoaded(s, siteTask[i])
      BY <2>1, <3>1 DEF SiteAlone, SiteThere, SiteMade, SiteRouted
    <3>5. \A j \in SiteRequests : siteTask[j].site = s => j = i
      BY <2>1, <3>1 DEF SiteAlone
    <3>6. ~SwitchedOver(i) => siteCaddy[s] = siteTask[i].old
      BY <1>1, <2>1, <3>3, <3>4, <3>5 DEF SiteRouted, SiteMeets
    <3>7. SwitchedOver(i) => siteCaddy[s] = siteTask[i].php /\ siteTask[i].php \in sitePools[s]
      BY <1>1, <3>3, <3>4 DEF SwitchedOver, SiteLoaded, SiteSwitched
    <3>8. ~SwitchedOver(i) => siteTask[i].old \in sitePools[s]
      BY <1>1, <3>1, <3>3, <3>4 DEF SwitchedOver, SiteSwitched, AtHand
    <3> QED
      BY <2>3, <3>6, <3>7, <3>8
  <2>5. CASE \A i \in SiteRequests : siteTask[i].site = s => siteTask[i].kind # "php"
    <3>1. Settled(s)
      <4>1. ASSUME NEW i \in SiteRequests, siteTask[i].site = s, siteTask[i].kind \in Creation
            PROVE  siteTask[i].pc = "finish"
        <5>1. SiteMeets(s, siteTask[i]) /\ SiteLive(i)
          BY <2>1, <4>1, SiteTaskIs DEF SiteAlone
        <5> QED
          BY <2>1, <2>2, <4>1, <5>1, SiteTaskIs DEF SiteMeets, AtHand, SiteLive
      <4> QED
        BY <2>5, <4>1 DEF Settled
    <3>2. siteRow[s].php \in sitePools[s]
      BY <1>1, <2>1, <2>2, <3>1 DEF SiteThere, SiteRests
    <3>3. siteCaddy[s] = siteRow[s].php
      BY <1>1, <2>1, <2>5 DEF SiteRouted, SwitchedOver
    <3> QED
      BY <2>3, <3>2, <3>3
  <2> QED
    BY <2>4, <2>5
<1>2. ASSUME NEW i \in SiteRequests,
             siteOps[i] # None, siteOps[i].kind \in {"create", "clone"}, siteOps[i].status = "failed",
             siteOps[i].linked, siteCrashes = 0, siteOps[i].site \notin siteOverlap,
             OnSite(siteOps[i].site) = {}
      PROVE  LET s == siteOps[i].site IN
             /\ siteHost[s] \subseteq siteLeft[s]
             /\ sitePools[s] # {} => {"php_pool", "remove"} \cap siteLeft[s] # {}
  <2>1. CreationUndone(siteOps[i])
    <3>1. SiteLive(i) => siteTask[i].site = siteOps[i].site
      BY <1>2, SiteOwnOp
    <3>2. ~SiteLive(i)
      BY <1>2, <3>1 DEF OnSite
    <3> QED
      BY <1>2, <3>2 DEF SiteStrong, CreationsUndone, Calm
  <2> QED
    BY <1>2, <2>1 DEF CreationUndone, Only, Creation
<1>3. ASSUME NEW s \in Sites, siteRow[s] = None, Undisturbed(s)
      PROVE  /\ siteHost[s] = {} /\ siteCaddy[s] = None
             /\ sitePools[s] # {} => {"php_pool", "remove"} \cap siteLeft[s] # {}
  <2>1. SiteAlone(s) /\ SiteThere(s) /\ SiteRouted(s) /\ SiteShapes /\ SitePlaces
    BY <1>3 DEF SiteStrong, Undisturbed, Calm
  <2>2. Settled(s)
    <3>1. ASSUME NEW i \in SiteRequests, siteTask[i].site = s
          PROVE  siteTask[i].pc = "finish" /\ siteTask[i].kind # "php"
      <4>1. SiteMeets(s, siteTask[i]) /\ SiteLive(i) /\ SitePlace(siteTask[i])
        BY <2>1, <3>1, SiteTaskIs DEF SiteAlone, SitePlaces
      <4>2. siteTask[i].pc = "finish"
        BY <1>3, <2>1, <4>1, SiteTaskIs DEF SiteMeets, AtHand, SiteLive
      <4> QED
        BY <4>1, <4>2 DEF SitePlace, Inline
    <3> QED
      BY <3>1 DEF Settled
  <2>3. SiteRests(s) /\ siteCaddy[s] = None
    BY <1>3, <2>1, <2>2 DEF SiteThere, SiteRouted
  <2> QED
    BY <1>3, <2>3 DEF SiteRests, Only
<1> QED
  BY <1>1, <1>2, <1>3 DEF SitesSound, ActiveSiteServed, PipelinesClean, RollbackComplete, DeletedSiteGone

\* What is there is served, and of what failed or has gone nothing is there.
THEOREM SitesStaySound == SiteSpec => []SitesSound
<1>1. SiteInit => SiteStrong
  BY SiteInitStrong
<1>2. SiteStrong /\ [SiteNext]_siteVars => SiteStrong'
  BY SiteNextStrong
<1>3. SiteStrong => SitesSound
  BY SiteStrongImplies
<1> QED
  BY <1>1, <1>2, <1>3, PTL DEF SiteSpec

================================================================================
