----------------------------- MODULE StackBackup -----------------------------
(***************************************************************************)
(* Backup and restore of one stack beside the reconcile loop.  The two     *)
(* kinds of operation exclude each other by a global lock, but not the     *)
(* loop, which sees stopped services and starts them, and tears the stack  *)
(* down when it is deleted.  The panel may be restarted at any point.      *)
(*                                                                         *)
(* Services are numbered in the order they are started (the database       *)
(* first).  The volumes are one unit of data, of which only matters        *)
(* whether it is a state the services could have left.                     *)
(***************************************************************************)
EXTENDS Naturals, Sequences, FiniteSets

CONSTANTS
    Last,       \* number of services
    MaxOps,     \* bound: backups and restores requested
    MaxFaults,  \* bound: failing steps and actions
    MaxCrashes, \* bound: restarts of the panel
    None

Services == 1 .. Last
Ops == 1 .. MaxOps

ASSUME BackupAssumption ==
    /\ Last \in Nat \ {0} /\ MaxOps \in Nat /\ MaxFaults \in Nat
    /\ MaxCrashes \in Nat
    /\ None \notin Nat
    /\ None \notin {"whole", "mixed", "empty", "deleted"}

VARIABLES
    row,        \* status of the stacks row, or None
    units,      \* do the unit files exist
    loaded,     \* does systemd know the units
    run,        \* running services
    volume,     \* "whole", "mixed" or None: the data on the host
    ops,        \* ops[i]: kind and status of operation i, or None
    task,       \* task[i]: the background task of operation i
    archive,    \* archive[i]: what backup i holds, "deleted", or None
    written,    \* were the volumes written to since the current copy began
    cycle,      \* the reconcile loop
    queue,      \* operation enqueued for the loop, or None
    faults,     \* failures so far
    crashes     \* restarts so far

vars == <<row, units, loaded, run, volume, ops, task, archive, written, cycle,
          queue, faults, crashes>>
hostVars == <<units, loaded, run, volume>>
loopVars == <<cycle, queue>>
faultVars == <<faults, crashes>>

Active == {"ready", "degraded"}
Live == {"pending", "running"}
Data == {"whole", "mixed", "empty"}

ASSUME OperationAssumption ==
    None \notin [kind : {"backup", "restore"}, status : Live \union {"succeeded", "failed"}]

-----------------------------------------------------------------------------
(* The tasks of run_backup_stack() and run_restore_stack().                *)

NoTask == [pc |-> "off", at |-> 0, from |-> None, data |-> None]

SetTask(i, t) == task' = [task EXCEPT ![i] = t]
Goto(i, pc) == SetTask(i, [task[i] EXCEPT !.pc = pc])
SetStatus(i, status) == ops' = [ops EXCEPT ![i].status = status]

\* backup.operation_lock
LockHolders == {i \in Ops : task[i].pc \notin {"off", "lock"}}

FreeOp == {i \in Ops : ops[i] = None /\ \A j \in Ops : j < i => ops[j] # None}

\* start_stack_backup() and start_stack_restore(): only ready stacks.
Request(kind, from) ==
    /\ row = "ready"
    /\ \E i \in FreeOp :
         /\ ops' = [ops EXCEPT ![i] = [kind |-> kind, status |-> "pending"]]
         /\ SetTask(i, [NoTask EXCEPT !.pc = "lock", !.from = from])
    /\ UNCHANGED <<row, hostVars, archive, written, loopVars, faultVars>>

RequestBackup == Request("backup", None)
RequestRestore == \E b \in Ops : archive[b] \in Data /\ Request("restore", b)

\* The row is loaded under the lock and its status is not looked at again;
\* a row that is gone fails an assertion.
Acquire(i) ==
    /\ task[i].pc = "lock" /\ LockHolders = {}
    /\ IF row = None
       THEN SetTask(i, NoTask) /\ UNCHANGED ops
       ELSE /\ SetStatus(i, "running")
            /\ Goto(i, IF ops[i].kind = "backup" THEN "prepare" ELSE "verify")
    /\ UNCHANGED <<row, hostVars, archive, written, loopVars, faultVars>>

\* prepare and the blueprint's dump, or fetch and verify.
Prepare(i) ==
    /\ \/ task[i].pc = "prepare"
       \/ task[i].pc = "verify" /\ archive[task[i].from] \in Data
    /\ SetTask(i, [task[i] EXCEPT !.pc = "stop", !.at = Last])
    /\ UNCHANGED <<row, hostVars, ops, archive, written, loopVars, faultVars>>

\* Services are stopped in reverse order, one await each.
StopService(i) ==
    /\ task[i].pc = "stop" /\ loaded
    /\ run' = run \ {task[i].at}
    /\ IF task[i].at > 1
       THEN SetTask(i, [task[i] EXCEPT !.at = @ - 1])
       ELSE Goto(i, IF ops[i].kind = "backup" THEN "archive" ELSE "restore")
    /\ UNCHANGED <<row, units, loaded, volume, ops, archive, written, loopVars, faultVars>>

\* tar reads, or rsync replaces, the volumes directory, which outlives the
\* volumes in it; both take a while.
StartCopy(i) ==
    /\ \/ task[i].pc = "archive" /\ UNCHANGED volume
       \/ /\ task[i].pc = "restore" /\ archive[task[i].from] \in Data
          /\ volume' = "mixed"
    /\ SetTask(i, [task[i] EXCEPT !.pc = IF @ = "archive" THEN "archiving" ELSE "restoring",
                                  !.data = IF @ # None THEN @
                                           ELSE IF task[i].pc = "restore"
                                                THEN archive[task[i].from]
                                           ELSE IF volume = None THEN "empty" ELSE volume])
    /\ written' = FALSE
    /\ UNCHANGED <<row, units, loaded, run, ops, archive, loopVars, faultVars>>

EndCopy(i) ==
    /\ task[i].pc \in {"archiving", "restoring"}
    /\ LET data == IF written THEN "mixed" ELSE task[i].data
       IN  /\ SetTask(i, [task[i] EXCEPT !.pc = "start", !.at = 1, !.data = data])
           /\ volume' = IF task[i].pc = "archiving" THEN volume
                        ELSE IF data = "empty" THEN None ELSE data
    /\ UNCHANGED <<row, units, loaded, run, ops, archive, written, loopVars, faultVars>>

StartService(i) ==
    /\ task[i].pc = "start" /\ loaded
    /\ run' = run \union {task[i].at}
    /\ IF task[i].at < Last
       THEN SetTask(i, [task[i] EXCEPT !.at = @ + 1])
       ELSE Goto(i, "finalize")
    /\ UNCHANGED <<row, units, loaded, volume, ops, archive, written, loopVars, faultVars>>

\* A backup is listed once its manifest is written and it has its name.
Finalize(i) ==
    /\ task[i].pc = "finalize"
    /\ archive' = IF ops[i].kind = "backup"
                  THEN [archive EXCEPT ![i] = task[i].data] ELSE archive
    /\ Goto(i, "finish")
    /\ UNCHANGED <<row, hostVars, ops, written, loopVars, faultVars>>

Finish(i) ==
    /\ task[i].pc = "finish"
    /\ SetStatus(i, "succeeded")
    /\ SetTask(i, NoTask)
    /\ UNCHANGED <<row, hostVars, archive, written, loopVars, faultVars>>

\* A step raises: its unit is unknown, the backup is gone, tar notices that
\* a file changed, or a fault.
Impossible(i) ==
    \/ task[i].pc = "archiving" /\ written
    \/ task[i].pc \in {"stop", "start"} /\ ~loaded
    \/ task[i].pc \in {"verify", "restore"} /\ archive[task[i].from] \notin Data

Fails(i) ==
    /\ task[i].pc \notin {"off", "lock", "undo"}
    /\ \/ Impossible(i) /\ UNCHANGED faults
       \/ faults < MaxFaults /\ faults' = faults + 1
    /\ SetTask(i, [task[i] EXCEPT !.pc = "undo", !.at = 1])
    /\ UNCHANGED <<row, hostVars, ops, archive, written, loopVars, crashes>>

\* Mutation: a failed operation that could start its services again is fine.
FailedButUp == "succeeded"

Failed == "failed"

\* Every service is started again, whatever had been stopped, and errors
\* are suppressed.
Undo(i) ==
    /\ task[i].pc = "undo"
    /\ \/ loaded /\ run' = run \union {task[i].at} /\ UNCHANGED faults
       \/ ~loaded /\ UNCHANGED <<run, faults>>
       \/ faults < MaxFaults /\ faults' = faults + 1 /\ UNCHANGED run
    /\ IF task[i].at < Last
       THEN SetTask(i, [task[i] EXCEPT !.at = @ + 1]) /\ UNCHANGED ops
       ELSE SetTask(i, NoTask) /\ SetStatus(i, Failed)
    /\ UNCHANGED <<row, units, loaded, volume, archive, written, loopVars, crashes>>

\* delete_stack_backup(), which takes no lock.
DeleteBackup(b) ==
    /\ row # None /\ archive[b] \in Data
    /\ archive' = [archive EXCEPT ![b] = "deleted"]
    /\ UNCHANGED <<row, hostVars, ops, task, written, loopVars, faultVars>>

-----------------------------------------------------------------------------
(* The services and the reconcile loop.                                    *)

ServiceWrites ==
    /\ run # {} /\ volume # None /\ ~written
    /\ written' = TRUE
    /\ UNCHANGED <<row, hostVars, ops, task, archive, loopVars, faultVars>>

DeleteStack ==
    /\ row # None
    /\ row' = "deleting"
    /\ UNCHANGED <<hostVars, ops, task, archive, written, loopVars, faultVars>>

\* Mutation: only stacks with unit files are seen.
ObservedUnits == units

\* Unit files, running containers or volumes of the name.
Observed == units \/ run # {} \/ volume # None

ForServices(op, S) ==
    LET step[s \in 0 .. Last] ==
          IF s = 0 THEN <<>>
          ELSE step[s - 1] \o (IF s \in S THEN << <<op, s>> >> ELSE <<>>)
    IN  step[Last]

\* Mutation: a stack is healthy while one of its services runs.
UnlessSomeRuns == IF run = {} THEN ForServices("start", Services) ELSE <<>>

Inactive == ForServices("start", Services \ run)

Plan ==
    IF row \in Active
    THEN (IF volume = None THEN << <<"ensureVolume", 0>> >> ELSE <<>>) \o Inactive
    ELSE IF ~Observed THEN <<>>
    ELSE ForServices("stop", run) \o << <<"removeUnits", 0>>, <<"reload", 0>> >>
         \o (IF volume = None THEN <<>> ELSE << <<"removeVolume", 0>> >>)

Idle == [pc |-> "idle", plan |-> <<>>, op |-> None, desired |-> FALSE]

\* Mutation: the status of the operation is written to the row.
OperationStatus(desired, ok) == IF ok THEN "succeeded" ELSE "failed"

\* on_stack_status() with the outcome of a cycle.
StatusAfter(desired, ok) ==
    IF row = None \/ (ok /\ ~desired) THEN None
    ELSE IF desired THEN (IF ok THEN "ready" ELSE "degraded") ELSE "deleting"

Conclude(op, desired, ok) ==
    /\ row' = StatusAfter(desired, ok)
    /\ IF op = None THEN UNCHANGED ops
       ELSE SetStatus(op, IF ok THEN "succeeded" ELSE "failed")
    /\ cycle' = Idle

\* converge_stack() of the enqueued operation, or converge_all().
BeginCycle ==
    /\ cycle.pc = "idle"
    /\ row \in Active \/ Observed \/ queue # None
    /\ queue' = None
    /\ IF Plan = <<>>
       THEN Conclude(queue, row \in Active, TRUE)
       ELSE /\ cycle' = [pc |-> "apply", plan |-> Plan, op |-> queue,
                         desired |-> row \in Active]
            /\ IF queue = None THEN UNCHANGED ops ELSE SetStatus(queue, "running")
            /\ UNCHANGED row
    /\ UNCHANGED <<hostVars, task, archive, written, faultVars>>

\* A unit file systemd has not generated is generated by a retry.
ExecuteAction ==
    /\ cycle.pc = "apply" /\ cycle.plan # <<>>
    /\ LET a == Head(cycle.plan)
       IN  /\ a[1] = "start" => loaded \/ units
           /\ run' = CASE a[1] = "start"       -> run \union {a[2]}
                       [] a[1] = "stop"        -> run \ {a[2]}
                       [] a[1] = "removeUnits" -> {}
                       [] OTHER                -> run
           /\ units' = (units /\ a[1] # "removeUnits")
           /\ loaded' = IF a[1] \in {"reload", "start"} THEN units ELSE loaded
           /\ volume' = CASE a[1] = "removeVolume" -> None
                          [] a[1] = "ensureVolume" /\ volume = None -> "whole"
                          [] OTHER -> volume
           /\ written' = (written \/ a[1] \in {"removeVolume", "ensureVolume"})
    /\ cycle' = [cycle EXCEPT !.plan = Tail(@)]
    /\ UNCHANGED <<row, ops, task, archive, queue, faultVars>>

FinishCycle ==
    /\ cycle.pc = "apply" /\ cycle.plan = <<>>
    /\ Conclude(cycle.op, cycle.desired, TRUE)
    /\ UNCHANGED <<hostVars, task, archive, written, queue, faultVars>>

\* A fault; a unit that is gone; rm meeting files rsync has just written.
ActionFails ==
    /\ cycle.pc = "apply" /\ cycle.plan # <<>>
    /\ LET a == Head(cycle.plan)
       IN  \/ faults < MaxFaults /\ faults' = faults + 1
           \/ /\ \/ a[1] = "start" /\ ~loaded /\ ~units
                 \/ a[1] = "removeVolume" /\ \E i \in Ops : task[i].pc = "restoring"
              /\ UNCHANGED faults
    /\ Conclude(cycle.op, cycle.desired, FALSE)
    /\ UNCHANGED <<hostVars, task, archive, written, queue, crashes>>

\* _reap_stale_operations(): an operation may be failed while its task runs.
Reap(i) ==
    /\ cycle.pc = "idle"
    /\ ops[i] # None /\ ops[i].status \in Live
    /\ SetStatus(i, "failed")
    /\ UNCHANGED <<row, hostVars, task, archive, written, loopVars, faultVars>>

\* Background tasks and the lock are lost with the process.
Crash ==
    /\ crashes < MaxCrashes /\ crashes' = crashes + 1
    /\ task' = [i \in Ops |-> NoTask]
    /\ cycle' = [Idle EXCEPT !.pc = "recover"]
    /\ queue' = None
    /\ UNCHANGED <<row, hostVars, ops, archive, written, faults>>

\* _recover_pending_operations() enqueues the pending operations of every
\* kind; the last one enqueued for the stack stays.
Recover ==
    /\ cycle.pc = "recover"
    /\ cycle' = Idle
    /\ LET pending == {i \in Ops : ops[i] # None /\ ops[i].status = "pending"}
       IN  IF row = None \/ pending = {} THEN queue' = None ELSE queue' \in pending
    /\ UNCHANGED <<row, hostVars, ops, task, archive, written, faultVars>>

-----------------------------------------------------------------------------
\* A ready stack on its host.
Init ==
    /\ row = "ready" /\ units = TRUE /\ loaded = TRUE
    /\ run = Services /\ volume = "whole"
    /\ ops = [i \in Ops |-> None] /\ task = [i \in Ops |-> NoTask]
    /\ archive = [i \in Ops |-> None] /\ written = FALSE
    /\ cycle = Idle /\ queue = None /\ faults = 0 /\ crashes = 0

Task(i) ==
    \/ Acquire(i) \/ Prepare(i) \/ StopService(i) \/ StartCopy(i) \/ EndCopy(i)
    \/ StartService(i) \/ Finalize(i) \/ Finish(i) \/ Fails(i) \/ Undo(i)

Loop == Recover \/ BeginCycle \/ ExecuteAction \/ FinishCycle \/ ActionFails

Next ==
    \/ RequestBackup \/ RequestRestore \/ DeleteStack \/ ServiceWrites
    \/ \E i \in Ops : Task(i) \/ Reap(i) \/ DeleteBackup(i)
    \/ Loop \/ Crash

\* The event loop runs every task, and a cycle at the latest each interval.
Fairness ==
    /\ WF_vars(Loop)
    /\ \A i \in Ops : WF_vars(Task(i))

Spec == Init /\ [][Next]_vars /\ Fairness

-----------------------------------------------------------------------------
(* Properties.                                                             *)

Actions == {"start", "stop"} \X Services
           \union {"ensureVolume", "removeVolume", "removeUnits", "reload"} \X {0}

\* The values of the rows, tasks and host.
TypeOK ==
    /\ row \in Active \union {"deleting", None}
    /\ units \in BOOLEAN /\ loaded \in BOOLEAN /\ written \in BOOLEAN
    /\ run \subseteq Services
    /\ volume \in {"whole", "mixed", None}
    /\ ops \in [Ops -> [kind : {"backup", "restore"},
                        status : Live \union {"succeeded", "failed"}] \union {None}]
    /\ \A i \in Ops :
         /\ task[i].at \in 0 .. Last
         /\ task[i].from \in Ops \union {None}
         /\ task[i].data \in Data \union {None}
         /\ task[i].pc # "off" => ops[i] # None
    /\ archive \in [Ops -> Data \union {"deleted", None}]
    /\ cycle.pc \in {"idle", "apply", "recover"}
    /\ \A k \in 1 .. Len(cycle.plan) : cycle.plan[k] \in Actions
    /\ {cycle.op, queue} \subseteq Ops \union {None}
    /\ faults \in 0 .. MaxFaults /\ crashes \in 0 .. MaxCrashes

\* A backup reported as succeeded is there, unless the user deleted it,
\* whatever step failed and whatever the loop did meanwhile.  Only without
\* restarts: recovery concludes a pending backup as a convergence.
SucceededMeansArchived ==
    crashes = 0 =>
        \A i \in Ops :
            ops[i] # None /\ ops[i].kind = "backup" /\ ops[i].status = "succeeded"
              => archive[i] # None

\* Backups stop services; a failed or lost one, or one that restored data
\* that is gone, does not leave an active stack down or without volumes.
ServicesReturn == <>[](row \in Active => run = Services /\ volume # None)

\* A backup or restore that goes on while its stack is torn down does not
\* leave services, units or data behind for good.
NothingLeft == <>[](row \notin Active => run = {} /\ ~units /\ volume = None)

\* BACKUP_STEPS: "Stop stack services for a consistent volume snapshot".
SnapshotConsistent == \A i \in Ops : archive[i] # "mixed"
=============================================================================
