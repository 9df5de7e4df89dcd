--------------------------- MODULE StackReconciler ---------------------------
(***************************************************************************)
(* The reconciler as a concurrent program: API handlers that commit rows   *)
(* and operations and then enqueue, the reconcile loop (drain the queue,   *)
(* then go over every name), the image sweep of the scheduler that calls   *)
(* converge_all() beside it, one task per name and run, the semaphore and  *)
(* the per-name locks, the reaper, and restarts of the panel process.      *)
(*                                                                         *)
(* A stack is abstracted to one service and one volume on its owner's      *)
(* tenant, and WriteUnits or RemoveUnits stands for itself and the         *)
(* DaemonReload behind it; Planner and StackConvergence have the rest.     *)
(* Every write is numbered: its number is the generation it gives the row  *)
(* and the id of the operation it creates.                                 *)
(***************************************************************************)
EXTENDS Integers, Sequences, FiniteSets

CONSTANTS
    Names,          \* stack names
    Tenants,        \* tenant linux users
    TenantOf,       \* TenantOf[n]: the tenant of the owner of n
    Loop,           \* the run_loop() task
    Sweeps,         \* concurrent image sweeps of the scheduler
    Concurrency,    \* reconcile_concurrency
    MaxWrites,      \* bound: writes that create a generation
    MaxFaults,      \* bound: failures and restarts
    None

Runners == {Loop} \union Sweeps
Writes == 1 .. MaxWrites

ASSUME ReconcilerAssumption ==
    /\ TenantOf \in [Names -> Tenants]
    /\ Loop \notin Sweeps
    /\ Concurrency \in Nat \ {0}
    /\ MaxWrites \in Nat
    /\ MaxFaults \in Nat
    /\ None \notin Int \union Names
    /\ IsFiniteSet(Names) /\ IsFiniteSet(Sweeps)

VARIABLES
    rows,       \* rows[n]: the stacks row, or None
    ops,        \* ops[i]: the operation of write i, or None
    writes,     \* writes so far
    outbox,     \* <<n, i>>: committed, the handler has yet to enqueue it
    queue,      \* queue[n]: last operation enqueued for n, or None
    host,       \* host[n]: unit file, running container, volume of n
    users,      \* tenants provisioned on the host and in the ledger
    runner,     \* runner[r]: where a run of the reconciler is
    snap,       \* snap[r]: the rows a run has loaded
    task,       \* task[r][n]: the convergence of n in run r
    strays,     \* operations left running by a restart
    faults      \* failures and restarts so far

vars == <<rows, ops, writes, outbox, queue, host, users, runner, snap, task,
          strays, faults>>
apiVars == <<writes, outbox>>
hostVars == <<host, users>>

-----------------------------------------------------------------------------
(* Rows, operations, host.                                                 *)

\* Mutation: a stack that failed to converge is not desired.
HealthyStatuses == {"converging", "ready"}

ActiveStatuses == {"converging", "ready", "degraded"}
Statuses == ActiveStatuses \union {"deleting"}
Row == [id : Writes, status : Statuses, gen : Writes, observed : 0 .. MaxWrites]

OpStatuses == {"pending", "running", "succeeded", "failed"}
Operation == [status : OpStatuses, stack : Names \union {None}, old : BOOLEAN]
Live == {"pending", "running"}

ASSUME StackNoneAssumption == None \notin Row /\ None \notin Operation

Gen == Writes \union {None}
HostStack == [unit : Gen, run : Gen, vol : BOOLEAN]
Bare == [unit |-> None, run |-> None, vol |-> FALSE]

\* load_desired(): rows with an active status.
Desired(n) == IF rows[n] # None /\ rows[n].status \in ActiveStatuses
              THEN rows[n] ELSE None
DesiredRows == [n \in Names |-> Desired(n)]

\* Tenants for which a set of loaded rows still holds stacks.
TenantsIn(loaded) == {TenantOf[n] : n \in {m \in Names : loaded[m] # None}}

\* Mutation: a failure takes the row back to the generation last observed.
RowAfterUndoing(row, status) ==
    IF row = None \/ status = "absent" THEN None
    ELSE [row EXCEPT !.status = status,
                     !.observed = IF status = "ready" THEN row.gen ELSE @,
                     !.gen = IF status = "degraded" /\ row.observed # 0
                             THEN row.observed ELSE @]

\* on_stack_status(): rows are found by name; ready stamps the generation
\* the row has now; absent deletes the row, whatever its status.
RowAfter(row, status) ==
    IF row = None \/ status = "absent" THEN None
    ELSE [row EXCEPT !.status = status,
                     !.observed = IF status = "ready" THEN row.gen ELSE @]

\* Deleting a row sets stack_id of its operations to NULL (ON DELETE SET NULL).
Unlinked(o, n) == IF o # None /\ o.stack = n THEN [o EXCEPT !.stack = None] ELSE o

WithStatus(o, status) == IF o = None THEN None ELSE [o EXCEPT !.status = status]

\* Mutation: a failure is not recorded on the operation.
UnlessFailed(i, status) ==
    [j \in Writes |-> IF j = i /\ status # "failed" THEN WithStatus(ops[j], status)
                      ELSE ops[j]]

\* The operation of a task is written (i = None: the run has none).
OpsWith(i, status) ==
    [j \in Writes |-> IF j = i THEN WithStatus(ops[j], status) ELSE ops[j]]

\* operations.finish() and then the status hook for n.
Conclude(n, i, opStatus, status) ==
    LET finished == OpsWith(i, opStatus)
    IN  /\ rows' = [rows EXCEPT ![n] = RowAfter(@, status)]
        /\ ops' = IF status = "absent" /\ rows[n] # None
                  THEN [j \in Writes |-> Unlinked(finished[j], n)] ELSE finished

\* Mutation: only operations that never started are reaped.
ReapedPending(o) ==
    IF o # None /\ o.status = "pending" /\ (o.old \/ o.stack = None)
    THEN [o EXCEPT !.status = "failed"] ELSE o

\* _reap_stale_operations(): live operations that are too old, or whose
\* stack is gone, are failed.
Reaped(o) ==
    IF o # None /\ o.status \in Live /\ (o.old \/ o.stack = None)
    THEN [o EXCEPT !.status = "failed"] ELSE o

-----------------------------------------------------------------------------
(* Observation and plan of one name.                                       *)

Observation == [unit : Gen, active : BOOLEAN, vol : BOOLEAN]

\* Mutation: volumes without units are not seen.
ObservedUnits(n, blind) ==
    IF host[n].unit = None \/ TenantOf[n] \notin users \ blind THEN None
    ELSE [unit |-> host[n].unit, active |-> host[n].run # None, vol |-> host[n].vol]

\* observe() walks the ledger: a stack is seen through its tenant.  blind
\* is the set of tenants whose scan failed, reported as absent.
Observed(n, blind) ==
    IF host[n] = Bare \/ TenantOf[n] \notin users \ blind THEN None
    ELSE [unit |-> host[n].unit, active |-> host[n].run # None, vol |-> host[n].vol]

Actions == {"EnsureTenant", "EnsureVolumeDir", "WriteUnits", "StartService",
            "StopService", "RestartService", "RemoveUnits", "RemoveVolumeDir",
            "RemoveTenantIfEmpty", "RemoveTenant", "SyncCaddy"}

Only(cond, action) == IF cond THEN <<action>> ELSE <<>>

PlanTeardown(obs) ==
    Only(obs.active, "StopService") \o <<"RemoveUnits">>
    \o Only(obs.vol, "RemoveVolumeDir") \o <<"RemoveTenantIfEmpty", "SyncCaddy">>

\* Mutation: a unit with an old hash passes for current.
Missing(unit, gen) == unit = None

Stale(unit, gen) == unit # gen

PlanConverge(gen, obs) ==
    LET seen  == IF obs = None
                 THEN [unit |-> None, active |-> FALSE, vol |-> FALSE] ELSE obs
        stale == Stale(seen.unit, gen)
        actions == Only(obs = None, "EnsureTenant")
                   \o Only(~seen.vol, "EnsureVolumeDir")
                   \o Only(stale, "WriteUnits")
                   \o Only(seen.active /\ stale, "RestartService")
                   \o Only(~seen.active, "StartService")
    IN  actions \o Only(actions # <<>>, "SyncCaddy")

Plan(spec, obs) ==
    CASE spec # None -> PlanConverge(spec.gen, obs)
      [] spec = None /\ obs # None -> PlanTeardown(obs)
      [] OTHER -> <<>>

-----------------------------------------------------------------------------
(* Tasks.                                                                  *)

TaskPc == {"off", "load", "observe", "queued", "permit", "apply"}
Task == [pc : TaskPc, spec : Row \union {None}, obs : Observation \union {None},
         used : SUBSET Tenants, plan : Seq(Actions), op : Gen]

NoTask == [pc |-> "off", spec |-> None, obs |-> None, used |-> {},
           plan |-> <<>>, op |-> None]

SetTask(r, n, t) == task' = [task EXCEPT ![r][n] = t]

\* The semaphore is taken before the lock, and kept while waiting for it.
Permits == {p \in Runners \X Names : task[p[1]][p[2]].pc \in {"permit", "apply"}}

\* Mutation: converge_all() calls outside the loop have locks of their own.
LockedByLoop(n) == task[Loop][n].pc = "apply"

Locked(n) == \E r \in Runners : task[r][n].pc = "apply"

AllOff(r) == \A n \in Names : task[r][n].pc = "off"

-----------------------------------------------------------------------------
(* API handlers.                                                           *)

\* One commit: the row, its new generation and a pending operation.
Commit(n, row) ==
    /\ writes < MaxWrites
    /\ writes' = writes + 1
    /\ rows' = [rows EXCEPT ![n] = row]
    /\ ops' = [ops EXCEPT ![writes + 1] =
                    [status |-> "pending", stack |-> n, old |-> FALSE]]
    /\ UNCHANGED <<queue, users, runner, snap, task, strays, faults>>

CreateStack(n) ==
    /\ rows[n] = None
    /\ Commit(n, [id |-> writes + 1, status |-> "converging",
                  gen |-> writes + 1, observed |-> 0])
    /\ outbox' = outbox \union {<<n, writes + 1>>}
    /\ UNCHANGED host

\* set_stack_env and its siblings leave the status as it is.
UpdateStack(n) ==
    /\ rows[n] # None /\ rows[n].status # "deleting"
    /\ Commit(n, [rows[n] EXCEPT !.gen = writes + 1])
    /\ outbox' = outbox \union {<<n, writes + 1>>}
    /\ UNCHANGED host

DeleteStack(n) ==
    /\ rows[n] # None
    /\ Commit(n, [rows[n] EXCEPT !.status = "deleting", !.gen = writes + 1])
    /\ outbox' = outbox \union {<<n, writes + 1>>}
    /\ UNCHANGED host

\* rollback_to_image retags and restarts on the host itself, and does not
\* enqueue the operation it creates.
RollbackToImage(n) ==
    /\ rows[n] # None /\ rows[n].status # "deleting"
    /\ TenantOf[n] \in users /\ host[n].unit # None
    /\ Commit(n, [rows[n] EXCEPT !.gen = writes + 1])
    /\ host' = [host EXCEPT ![n].run = host[n].unit]
    /\ UNCHANGED outbox

Enqueue(n, i) ==
    /\ <<n, i>> \in outbox
    /\ outbox' = outbox \ {<<n, i>>}
    /\ queue' = [queue EXCEPT ![n] = i]
    /\ UNCHANGED <<rows, ops, writes, hostVars, runner, snap, task, strays, faults>>

\* An operation becomes older than operation_timeout_seconds.
Age(i) ==
    /\ ops[i] # None /\ ops[i].status \in Live /\ ~ops[i].old
    /\ ops' = [ops EXCEPT ![i].old = TRUE]
    /\ UNCHANGED <<rows, apiVars, queue, hostVars, runner, snap, task, strays, faults>>

-----------------------------------------------------------------------------
(* A run of the reconciler: run_loop() and its cycle.                      *)

Cycle == [r \in Runners |-> IF r = Loop THEN "drain" ELSE "refreshed"]
NothingLoaded == [n \in Names |-> None]

Goto(r, pc) == runner' = [runner EXCEPT ![r] = pc]

PendingOf(n) == {i \in Writes : ops[i] # None /\ ops[i].status = "pending"
                                /\ ops[i].stack = n}

\* _recover_pending_operations(), in the order the database returns the
\* operations, and the first _reap_stale_operations().
Recover ==
    /\ runner[Loop] = "recover"
    /\ Goto(Loop, "idle")
    /\ queue' \in [Names -> Gen]
    /\ \A n \in Names : IF PendingOf(n) = {} THEN queue'[n] = queue[n]
                        ELSE queue'[n] \in PendingOf(n)
    /\ ops' = [i \in Writes |-> Reaped(ops[i])]
    /\ UNCHANGED <<rows, apiVars, hostVars, snap, task, strays, faults>>

\* Woken or after the interval: _drain_queue() starts one converge_stack()
\* per enqueued name, for the last operation enqueued.
StartDrain ==
    /\ runner[Loop] = "idle"
    /\ Goto(Loop, "drain")
    /\ queue' = NothingLoaded
    /\ task' = [task EXCEPT ![Loop] =
                    [n \in Names |-> IF queue[n] = None THEN NoTask
                                     ELSE [NoTask EXCEPT !.pc = "load", !.op = queue[n]]]]
    /\ UNCHANGED <<rows, ops, apiVars, hostVars, snap, strays, faults>>

\* converge_all(): reap, then load the desired rows ...
StartCycle(r) ==
    /\ runner[r] = Cycle[r] /\ AllOff(r)
    /\ Goto(r, "observe")
    /\ ops' = [i \in Writes |-> Reaped(ops[i])]
    /\ snap' = [snap EXCEPT ![r] = DesiredRows]
    /\ UNCHANGED <<rows, apiVars, queue, hostVars, task, strays, faults>>

\* A scan may fail, and then its stacks look absent.
Blinded(blind) ==
    \/ blind = {} /\ UNCHANGED faults
    \/ blind # {} /\ faults < MaxFaults /\ faults' = faults + 1

\* ... then observe the host, and start a task for every name in either.
Observe(r, blind) ==
    /\ runner[r] = "observe"
    /\ Blinded(blind)
    /\ Goto(r, "gather")
    /\ task' = [task EXCEPT ![r] =
                    [n \in Names |->
                        IF snap[r][n] = None /\ Observed(n, blind) = None THEN NoTask
                        ELSE [NoTask EXCEPT !.pc = "queued",
                                            !.spec = snap[r][n],
                                            !.obs = Observed(n, blind),
                                            !.used = TenantsIn(snap[r])]]]
    /\ snap' = [snap EXCEPT ![r] = NothingLoaded]
    /\ UNCHANGED <<rows, ops, apiVars, queue, hostVars, strays>>

RunnerDone(r) ==
    /\ runner[r] = "gather" /\ AllOff(r)
    /\ Goto(r, "idle")
    /\ UNCHANGED <<rows, ops, apiVars, queue, hostVars, snap, task, strays, faults>>

-----------------------------------------------------------------------------
(* The image sweep: refresh_stable_image_locks() loads the active rows,    *)
(* asks the registry, and writes what it has loaded back; when something   *)
(* changed the scheduler calls converge_all(), beside the loop.            *)

SweepRead(r) ==
    /\ runner[r] = "idle"
    /\ Goto(r, "refresh")
    /\ snap' = [snap EXCEPT ![r] = DesiredRows]
    /\ UNCHANGED <<rows, ops, apiVars, queue, hostVars, task, strays, faults>>

\* A new digest for n: the row gets a new generation, and "converging" when
\* the status loaded was another one.  A row that is gone aborts the commit.
SweepCommit(r, n) ==
    /\ runner[r] = "refresh" /\ snap[r][n] # None
    /\ writes < MaxWrites
    /\ snap' = [snap EXCEPT ![r] = NothingLoaded]
    /\ IF rows[n] = None \/ rows[n].id # snap[r][n].id
       THEN Goto(r, "idle") /\ UNCHANGED <<rows, writes>>
       ELSE /\ Goto(r, "refreshed")
            /\ writes' = writes + 1
            /\ rows' = [rows EXCEPT ![n].gen = writes + 1,
                                    ![n].status = IF snap[r][n].status = "converging"
                                                  THEN @ ELSE "converging"]
    /\ UNCHANGED <<ops, outbox, queue, hostVars, task, strays, faults>>

SweepNothing(r) ==
    /\ runner[r] = "refresh"
    /\ Goto(r, "idle")
    /\ snap' = [snap EXCEPT ![r] = NothingLoaded]
    /\ UNCHANGED <<rows, ops, apiVars, queue, hostVars, task, strays, faults>>

-----------------------------------------------------------------------------
(* One task: _converge_one() for n in run r.                               *)

\* converge_stack(): load the desired rows ...
TaskLoad(r, n) ==
    /\ task[r][n].pc = "load"
    /\ SetTask(r, n, [task[r][n] EXCEPT !.pc = "observe", !.spec = Desired(n),
                                        !.used = TenantsIn(DesiredRows)])
    /\ UNCHANGED <<rows, ops, apiVars, queue, hostVars, runner, snap, strays, faults>>

\* ... and observe the host.
TaskObserve(r, n, blind) ==
    /\ task[r][n].pc = "observe"
    /\ Blinded(blind)
    /\ SetTask(r, n, [task[r][n] EXCEPT !.pc = "queued", !.obs = Observed(n, blind)])
    /\ UNCHANGED <<rows, ops, apiVars, queue, hostVars, runner, snap, strays>>

GetPermit(r, n) ==
    /\ task[r][n].pc = "queued"
    /\ Cardinality(Permits) < Concurrency
    /\ SetTask(r, n, [task[r][n] EXCEPT !.pc = "permit"])
    /\ UNCHANGED <<rows, ops, apiVars, queue, hostVars, runner, snap, strays, faults>>

DoneStatus(spec) == IF spec = None THEN "absent" ELSE "ready"

\* Mutation: the status of the operation is written to the stack.
OperationStatus(spec) == "failed"

\* Keep "deleting" during teardown.
FailStatus(spec) == IF spec = None THEN "deleting" ELSE "degraded"

\* With the lock: plan from what was loaded and observed before.  Nothing
\* to do concludes at once, otherwise the operation is running.
GetLock(r, n) ==
    LET t == task[r][n]
        plan == Plan(t.spec, t.obs)
    IN  /\ t.pc = "permit" /\ ~Locked(n)
        /\ IF plan = <<>>
           THEN /\ Conclude(n, t.op, "succeeded", DoneStatus(t.spec))
                /\ SetTask(r, n, NoTask)
           ELSE /\ ops' = OpsWith(t.op, "running")
                /\ SetTask(r, n, [t EXCEPT !.pc = "apply", !.plan = plan])
                /\ UNCHANGED rows
        /\ UNCHANGED <<apiVars, queue, hostVars, runner, snap, strays, faults>>

\* _uid_for() and the tenant's user manager need the tenant, a restart
\* needs the unit.
Executable(n, a) ==
    /\ a \notin {"EnsureTenant", "RemoveTenantIfEmpty", "RemoveTenant", "SyncCaddy"}
          => TenantOf[n] \in users
    /\ a = "RestartService" => host[n].unit # None
    /\ a = "StartService" => host[n].unit # None \/ host[n].run # None

\* Starting a running service changes nothing.
AfterAction(h, a, spec) ==
    CASE a = "EnsureVolumeDir" -> [h EXCEPT !.vol = TRUE]
      [] a = "RemoveVolumeDir" -> [h EXCEPT !.vol = FALSE]
      [] a = "WriteUnits"      -> [h EXCEPT !.unit = spec.gen]
      [] a = "RemoveUnits"     -> [h EXCEPT !.unit = None, !.run = None]
      [] a = "StopService"     -> [h EXCEPT !.run = None]
      [] a = "StartService"    -> [h EXCEPT !.run = IF @ = None THEN h.unit ELSE @]
      [] a = "RestartService"  -> [h EXCEPT !.run = h.unit]
      [] OTHER                 -> h

\* _remove_tenant_if_empty(): tenants in use according to the rows loaded
\* before the plan, and tenants whose scan still finds something, are kept.
KeepTenant(used, t) ==
    \/ t \in used \/ t \notin users
    \/ \E m \in Names : TenantOf[m] = t /\ (host[m].unit # None \/ host[m].vol)

\* userdel --remove takes the home and what runs, not the unit files; then
\* the ledger row goes.
WithoutTenant(t) ==
    [m \in Names |-> IF TenantOf[m] = t THEN [host[m] EXCEPT !.run = None, !.vol = FALSE]
                     ELSE host[m]]

\* The next action of the plan.  Between the scan and the userdel of
\* RemoveTenantIfEmpty other tasks run.
Step(r, n) ==
    LET t == task[r][n]
        a == Head(t.plan)
        tenant == TenantOf[n]
        collect == a = "RemoveTenantIfEmpty" /\ ~KeepTenant(t.used, tenant)
    IN  /\ t.pc = "apply" /\ t.plan # <<>>
        /\ Executable(n, a)
        /\ SetTask(r, n, [t EXCEPT !.plan = Only(collect, "RemoveTenant") \o Tail(@)])
        /\ users' = CASE a = "EnsureTenant" -> users \union {tenant}
                      [] a = "RemoveTenant" -> users \ {tenant}
                      [] OTHER              -> users
        /\ host' = IF a = "RemoveTenant" THEN WithoutTenant(tenant)
                   ELSE [host EXCEPT ![n] = AfterAction(@, a, t.spec)]
        /\ UNCHANGED <<rows, ops, apiVars, queue, runner, snap, strays, faults>>

Finish(r, n) ==
    LET t == task[r][n]
    IN  /\ t.pc = "apply" /\ t.plan = <<>>
        /\ Conclude(n, t.op, "succeeded", DoneStatus(t.spec))
        /\ SetTask(r, n, NoTask)
        /\ UNCHANGED <<apiVars, queue, hostVars, runner, snap, strays, faults>>

\* An action raises or the apply times out: nothing is undone.
Fail(r, n) ==
    LET t == task[r][n]
    IN  /\ t.pc = "apply" /\ t.plan # <<>>
        /\ Conclude(n, t.op, "failed", FailStatus(t.spec))
        /\ SetTask(r, n, NoTask)
        /\ UNCHANGED <<apiVars, queue, hostVars, runner, snap, strays>>

ActionFails(r, n) ==
    /\ faults < MaxFaults /\ faults' = faults + 1
    /\ Fail(r, n)

ActionImpossible(r, n) ==
    /\ task[r][n].pc = "apply" /\ task[r][n].plan # <<>>
    /\ ~Executable(n, Head(task[r][n].plan))
    /\ Fail(r, n)
    /\ UNCHANGED faults

-----------------------------------------------------------------------------
\* The panel process stops and starts again: queue, tasks, locks and the
\* handlers that had yet to enqueue are lost; the database and the host stay.
Crash ==
    /\ faults < MaxFaults /\ faults' = faults + 1
    /\ runner' = [r \in Runners |-> IF r = Loop THEN "recover" ELSE "idle"]
    /\ task' = [r \in Runners |-> [n \in Names |-> NoTask]]
    /\ snap' = [r \in Runners |-> NothingLoaded]
    /\ queue' = NothingLoaded
    /\ outbox' = {}
    /\ strays' = strays \union {i \in Writes : ops[i] # None /\ ops[i].status = "running"}
    /\ UNCHANGED <<rows, ops, writes, hostVars>>

\* No rows yet; volumes of earlier stacks may be left under a tenant.
Init ==
    /\ rows = NothingLoaded /\ ops = [i \in Writes |-> None]
    /\ writes = 0 /\ outbox = {} /\ queue = NothingLoaded
    /\ users \in SUBSET Tenants
    /\ host \in [Names -> {Bare, [Bare EXCEPT !.vol = TRUE]}]
    /\ \A n \in Names : host[n].vol => TenantOf[n] \in users
    /\ runner = [r \in Runners |-> IF r = Loop THEN "recover" ELSE "idle"]
    /\ snap = [r \in Runners |-> NothingLoaded]
    /\ task = [r \in Runners |-> [n \in Names |-> NoTask]]
    /\ strays = {} /\ faults = 0

Api ==
    \/ \E n \in Names : CreateStack(n) \/ UpdateStack(n) \/ DeleteStack(n)
                        \/ RollbackToImage(n)
    \/ \E n \in Names, i \in Writes : Enqueue(n, i)

Run(r) ==
    \/ r = Loop /\ (Recover \/ StartDrain)
    \/ StartCycle(r)
    \/ \E blind \in SUBSET Tenants : Observe(r, blind)
    \/ RunnerDone(r)

Sweep(r) == SweepRead(r) \/ SweepNothing(r) \/ \E n \in Names : SweepCommit(r, n)

Converge(r, n) ==
    \/ TaskLoad(r, n)
    \/ \E blind \in SUBSET Tenants : TaskObserve(r, n, blind)
    \/ GetPermit(r, n) \/ GetLock(r, n)
    \/ Step(r, n) \/ Finish(r, n)
    \/ ActionFails(r, n) \/ ActionImpossible(r, n)

Next ==
    \/ Api
    \/ \E i \in Writes : Age(i)
    \/ \E r \in Runners : Run(r)
    \/ \E r \in Sweeps : Sweep(r)
    \/ \E r \in Runners, n \in Names : Converge(r, n)
    \/ Crash

\* The event loop runs every task that can go on, time passes, and a
\* handler that has committed goes on to enqueue.
Fairness ==
    /\ \A n \in Names, i \in Writes : WF_vars(Enqueue(n, i))
    /\ \A i \in Writes : WF_vars(Age(i))
    /\ \A r \in Runners : WF_vars(Run(r))
    /\ \A r \in Runners, n \in Names : WF_vars(Converge(r, n))

Spec == Init /\ [][Next]_vars /\ Fairness

-----------------------------------------------------------------------------
(* Properties.                                                             *)

RunnerPc == {"recover", "idle", "drain", "refresh", "refreshed", "observe", "gather"}

\* Types: the database, the host and the runs hold what their comments say.
TypeOK ==
    /\ rows \in [Names -> Row \union {None}]
    /\ ops \in [Writes -> Operation \union {None}]
    /\ writes \in 0 .. MaxWrites
    /\ outbox \subseteq Names \X Writes
    /\ queue \in [Names -> Gen]
    /\ host \in [Names -> HostStack]
    /\ users \subseteq Tenants
    /\ runner \in [Runners -> RunnerPc]
    /\ snap \in [Runners -> [Names -> Row \union {None}]]
    /\ task \in [Runners -> [Names -> Task]]
    /\ strays \subseteq Writes
    /\ faults \in 0 .. MaxFaults

\* Per-stack locks: two runs never apply plans to one stack at a time.
LockExclusion ==
    \A r, s \in Runners, n \in Names :
        task[r][n].pc = "apply" /\ task[s][n].pc = "apply" => r = s

\* The semaphore: plans are applied to no more than Concurrency stacks.
Applying == {p \in Runners \X Names : task[p[1]][p[2]].pc = "apply"}
PermitBound == Cardinality(Applying) <= Concurrency

\* An operation shown as running is being applied by a task, unless a
\* restart of the panel has killed that task.
RunningOpsOwned ==
    \A i \in Writes \ strays :
        ops[i] # None /\ ops[i].status = "running" =>
            \E r \in Runners, n \in Names :
                task[r][n].pc = "apply" /\ task[r][n].op = i

\* The loop alone never writes older units over newer ones.
UnitNeverRegresses ==
    [][ \A n \in Names :
          host[n].unit # None /\ host'[n].unit # None
            => host'[n].unit >= host[n].unit ]_vars

\* The data of a stack that has once converged is removed only when the
\* stack is deleted, whatever was read before the plan was made.
LiveDataSafe ==
    [][ \A n \in Names :
          host[n].vol /\ ~host'[n].vol
            => \/ rows[n] = None
               \/ rows[n].status = "deleting"
               \/ rows[n].observed = 0 ]_vars

\* When an operation succeeds and its stack is not (being) deleted, the
\* host has the units of the write that created it, or of a later one.
Succeeds(i, n) ==
    /\ ops[i] # None /\ ops[i].status # "succeeded"
    /\ ops'[i].status = "succeeded" /\ ops'[i].stack = n

SucceededMeansApplied ==
    [][ \A i \in Writes, n \in Names :
          Succeeds(i, n) /\ rows'[n] # None /\ rows'[n].status \in ActiveStatuses
            => host'[n].unit # None /\ host'[n].unit >= i ]_vars

Pending(i) == ops[i] # None /\ ops[i].status \in Live

\* Every operation ends, also one that lost its task or was never enqueued.
OpsTerminate == \A i \in Writes : Pending(i) ~> ~Pending(i)

\* Once writes and faults stop, exactly the desired stacks are on the host,
\* with the units of their last write.
HostMatches ==
    <>[](\A n \in Names :
            IF Desired(n) = None THEN host[n].unit = None /\ ~host[n].vol
            ELSE host[n].unit = Desired(n).gen /\ host[n].vol)

-----------------------------------------------------------------------------
(* What the documentation says and the code does not do; each is refuted   *)
(* by a run of its own.                                                    *)

\* on_stack_status(): "absent" removes the row of a deletion, "and ONLY a
\* deletion".
AbsentOnlyDeletes ==
    [][ \A n \in Names :
          rows[n] # None /\ rows'[n] = None => rows[n].status = "deleting" ]_vars

\* delete_stack(): flipping the status to "deleting" takes the stack out of
\* desired state.
DeleteIsFinal ==
    [][ \A n \in Names :
          rows[n] # None /\ rows[n].status = "deleting" /\ rows'[n] # None
            => rows'[n].status = "deleting" ]_vars

\* A tenant is collected only when nothing of it is left: units and volumes
\* always have their tenant.
TenantSafe ==
    \A n \in Names :
        host[n].unit # None \/ host[n].vol => TenantOf[n] \in users
=============================================================================
