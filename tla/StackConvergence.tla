-------------------------- MODULE StackConvergence --------------------------
(***************************************************************************)
(* One stack name taken through reconcile cycles: the row, the host, and   *)
(* the one worker that observes, plans (module Planner) and executes the   *)
(* plan action by action.  API writes land between any two actions, an     *)
(* action or an observation may fail, the process may be restarted, and    *)
(* containers and unit files drift.  The concurrency of several workers    *)
(* and stacks is the subject of StackReconciler.                           *)
(***************************************************************************)
EXTENDS Planner

CONSTANTS
    Shapes,     \* the contents an API write can give the stack
    Owner,      \* the tenant that creates the stack
    Busy,       \* tenants that hold other desired stacks
    MaxGen,     \* bound: generations issued
    MaxFaults   \* bound: failures, restarts and drifts

ASSUME ConvergenceAssumption ==
    /\ Shapes \subseteq Contents
    /\ Owner \in Tenants
    /\ Busy \subseteq Tenants
    /\ MaxGen \in Nat
    /\ MaxFaults \in Nat

VARIABLES
    row,        \* the stacks row: [status, spec, observed], or None
    nextGen,    \* generations issued so far
    host,       \* host[t]: this stack's artifacts under tenant t
    ingress,    \* generation of the stack Caddy serves, or None
    spec,       \* spec of the cycle in progress, or None
    plan,       \* actions of the cycle still to execute
    built,      \* <<routes>>: SyncCaddy has read them, not applied; or <<>>
    busy,       \* is a cycle in progress
    requested,  \* is an enqueued request waiting for the drain
    faults      \* faults so far

vars == <<row, nextGen, host, ingress, spec, plan, built, busy, requested,
          faults>>
rowVars == <<row, nextGen>>
cycleVars == <<spec, plan, built, busy>>

-----------------------------------------------------------------------------
(* The row.                                                                *)

ActiveStatuses == {"converging", "ready", "degraded", "suspended", "error"}
Statuses == ActiveStatuses \union {"deleting"}
Rows == [status : Statuses, observed : Nat, spec : Specs]
ASSUME RowAssumption == None \notin Rows

\* load_desired(): every row whose status is active, as its current spec.
Desired == IF row # None /\ row.status \in ActiveStatuses THEN row.spec ELSE None

\* Mutation: a stack once degraded is never reported well again.
StickyStatusHook(status) ==
    row' = IF row = None \/ status = "absent" THEN None
           ELSE IF row.status = "degraded" THEN row
           ELSE [row EXCEPT !.status = status]

\* on_stack_status(): the reconciler's projection of an outcome on the row.
StatusHook(status) ==
    row' = IF row = None \/ status = "absent" THEN None
           ELSE [row EXCEPT !.status = status,
                            !.observed = IF status \in {"ready", "suspended"}
                                         THEN row.spec.gen ELSE @]

Outcome(s) == IF s = None THEN "absent"
              ELSE IF s.suspended THEN "suspended" ELSE "ready"

\* Mutation: the status of an operation is written to the stack.
OperationOutcome(s) == "failed"

FailedOutcome(s) == IF s = None THEN "deleting" ELSE "degraded"

-----------------------------------------------------------------------------
(* The host, as the adapters leave it.  files and builds map a service to  *)
(* the hash its unit file carries (None: marker missing); loaded is what   *)
(* systemd generated at the last daemon-reload; run maps a running service *)
(* to the definition its container was started from.                       *)

NoMap == [s \in {} |-> None]
EmptyHost == [user |-> FALSE, files |-> NoMap, builds |-> NoMap,
              loaded |-> NoMap, run |-> NoMap, dirs |-> {}]

Without(f, S) == [s \in (DOMAIN f) \ S |-> f[s]]
With(f, s, v) == [x \in (DOMAIN f) \union {s} |-> IF x = s THEN v ELSE f[x]]

HasArtifacts(h) ==
    (DOMAIN h.files) \union (DOMAIN h.builds) \union (DOMAIN h.run) # {} \/ h.dirs # {}

\* _observe_tenant(): units from files, plus running labelled containers
\* whose file is gone.  seen is the set of containers podman reported.
ObservedUnder(h, t, seen) ==
    [tenant |-> t, present |-> h.user,
     units  |-> [s \in (DOMAIN h.files) \union seen |->
                    ObservedUnit(IF s \in DOMAIN h.files THEN h.files[s] ELSE None,
                                 s \in seen)],
     builds |-> h.builds, dirs |-> h.dirs]

\* Tenants the ledger still holds and that have something of this stack.
Visible(hs) == {t \in Tenants : hs[t].user /\ HasArtifacts(hs[t])}

\* observe(): the scans are merged by stack name, so of several tenants
\* that hold artifacts of one name only one is seen.
Observations(hs) ==
    IF Visible(hs) = {} THEN {None}
    ELSE {ObservedUnder(hs[t], t, DOMAIN hs[t].run) : t \in Visible(hs)}

\* A tenant whose scan raises is reported absent; a podman ps that fails
\* is reported as "no container runs".
FaultyObservations(hs) ==
    {None} \union {ObservedUnder(hs[t], t, {}) : t \in Visible(hs)}

-----------------------------------------------------------------------------
(* The effect of one action (executor.execute) on the host.                *)

\* _control_service(): a unit the manager does not know is looked for again
\* after a daemon-reload.
Generated(h, s) == IF s \in DOMAIN h.loaded THEN h.loaded ELSE h.files

\* Starting an active unit changes nothing; a restart replaces it.
Control(h, op, s) ==
    CASE op = "StopService" -> [h EXCEPT !.run = Without(@, {s})]
      [] op = "StartService" /\ s \in DOMAIN h.run -> h
      [] OTHER -> [h EXCEPT !.loaded = Generated(h, s),
                            !.run = With(@, s, Generated(h, s)[s])]

\* sync_units() and sync_env_files(): exactly the spec's files remain.
Written(h, s) == [h EXCEPT !.files  = [x \in s.services |-> s.gen],
                           !.builds = [x \in s.builds |-> s.gen]]

\* A tenant is kept while desired state or its own scan still holds stacks.
InUse(s, t) == t \in Busy \/ (s # None /\ s.tenant = t)
Collected(h, s, t) ==
    IF InUse(s, t) \/ DOMAIN h.files # {} \/ DOMAIN h.builds # {} \/ h.dirs # {}
    THEN h ELSE EmptyHost

Executable(h, a) ==
    CASE a.op \in {"StartService", "RestartService"} ->
            /\ h.user
            /\ \/ a.op = "StartService" /\ a.arg \in DOMAIN h.run
               \/ a.arg \in DOMAIN Generated(h, a.arg)
      [] a.op = "ZeroDowntimeDeploy" -> FALSE
      [] a.op \in {"EnsureTenant", "RemoveTenantIfEmpty", "SyncCaddy"} -> TRUE
      [] OTHER -> h.user

Effect(h, a, s) ==
    CASE a.op = "EnsureTenant"    -> [h EXCEPT !.user = TRUE]
      [] a.op = "EnsureVolumeDir" -> [h EXCEPT !.dirs = @ \union {a.arg}]
      [] a.op = "RemoveVolumeDir" -> [h EXCEPT !.dirs = @ \ {a.arg}]
      [] a.op = "WriteUnits"      -> Written(h, s)
      [] a.op = "RemoveUnits"     -> [h EXCEPT !.files = NoMap, !.builds = NoMap,
                                               !.run = NoMap]
      [] a.op = "DaemonReload"    -> [h EXCEPT !.loaded = h.files]
      [] a.op \in {"StartService", "StopService", "RestartService",
                   "ZeroDowntimeDeploy"} ->
            Control(h, a.op, a.arg)
      [] a.op = "RemoveTenantIfEmpty" -> Collected(h, s, a.tenant)

-----------------------------------------------------------------------------
(* API writes.  Each bumps the generation, commits the row with a pending  *)
(* operation and enqueues the name; a restart re-enqueues what is pending. *)

Write(r) ==
    /\ nextGen < MaxGen
    /\ nextGen' = nextGen + 1
    /\ row' = r
    /\ requested' = TRUE
    /\ UNCHANGED <<host, ingress, cycleVars, faults>>

CreateStack(shape) ==
    /\ row = None
    /\ Write([status |-> "converging", observed |-> 0,
              spec |-> SpecOf(Owner, shape, FALSE, nextGen + 1)])

\* env, domain, exposure, health check, zero-downtime, webhook: refused
\* while deleting; the status is left as it is.
EditStack(shape) ==
    /\ row # None /\ row.status # "deleting"
    /\ Write([row EXCEPT !.spec = SpecOf(Owner, shape, @.suspended, nextGen + 1)])

\* Re-requesting a delete is allowed and converges again.
DeleteStack ==
    /\ row # None
    /\ Write([row EXCEPT !.status = "deleting", !.spec.gen = nextGen + 1])

\* Suspending or resuming the owner shows in the next load_desired() without
\* a new generation or a request; it only uses up the bound on writes.
ToggleSuspension ==
    /\ row # None
    /\ nextGen < MaxGen
    /\ nextGen' = nextGen + 1
    /\ row' = [row EXCEPT !.spec.suspended = ~@]
    /\ UNCHANGED <<host, ingress, cycleVars, requested, faults>>

-----------------------------------------------------------------------------
(* The cycle.                                                              *)

Fault == faults < MaxFaults /\ faults' = faults + 1

\* Mutation: a cycle goes over the desired names only.
ScheduledDesired(obs) ==
    \/ requested /\ requested' = FALSE
    \/ Desired # None /\ UNCHANGED requested

\* converge_stack() takes an enqueued name, whatever its state;
\* converge_all() takes the names that are desired or observed.
Scheduled(obs) ==
    \/ requested /\ requested' = FALSE
    \/ (Desired # None \/ obs # None) /\ UNCHANGED requested

\* step_for() has no name for ZeroDowntimeDeploy.  A cycle with an operation
\* names all its steps before the first one is executed.
Nameless(p) ==
    /\ requested /\ ~requested'
    /\ \E i \in DOMAIN p : p[i].op = "ZeroDowntimeDeploy"

\* Observe and plan; an empty plan reports its outcome at once, a plan that
\* cannot be named is given up with an exception.
Cycle(obs) ==
    /\ ~busy
    /\ Scheduled(obs)
    /\ \E p \in {Plan(Desired, obs)} :
         \/ /\ p = <<>>
            /\ StatusHook(Outcome(Desired))
            /\ UNCHANGED cycleVars
         \/ /\ p # <<>> /\ Nameless(p)
            /\ UNCHANGED <<row, cycleVars>>
         \/ /\ p # <<>> /\ ~Nameless(p)
            /\ busy' = TRUE /\ plan' = p /\ spec' = Desired
            /\ UNCHANGED <<row, built>>
    /\ UNCHANGED <<nextGen, host, ingress>>

BeginCycle ==
    /\ \E obs \in Observations(host) : Cycle(obs)
    /\ UNCHANGED faults

BeginBlindCycle ==
    /\ \E obs \in FaultyObservations(host) : Cycle(obs)
    /\ Fault

EndCycle ==
    /\ busy' = FALSE /\ plan' = <<>> /\ spec' = None /\ built' = <<>>
    /\ UNCHANGED requested

\* The routes of the stack according to its row (stack_routes()).
Routes == IF Desired = None THEN None ELSE Desired.gen

\* SyncCaddy builds the routes from the rows as they are now ...
BuildRoutes ==
    /\ busy /\ plan # <<>> /\ built = <<>>
    /\ Head(plan).op = "SyncCaddy"
    /\ built' = <<Routes>>
    /\ UNCHANGED <<rowVars, host, ingress, spec, plan, busy, requested, faults>>

\* ... and then applies them; every other action is one step.
ExecuteAction ==
    /\ busy /\ plan # <<>>
    /\ LET a == Head(plan)
       IN  IF a.op = "SyncCaddy"
           THEN /\ built # <<>>
                /\ ingress' = Head(built) /\ built' = <<>>
                /\ UNCHANGED host
           ELSE /\ Executable(host[a.tenant], a)
                /\ host' = [host EXCEPT ![a.tenant] = Effect(@, a, spec)]
                /\ UNCHANGED <<ingress, built>>
    /\ plan' = Tail(plan)
    /\ UNCHANGED <<rowVars, spec, busy, requested, faults>>

FinishCycle ==
    /\ busy /\ plan = <<>>
    /\ StatusHook(Outcome(spec))
    /\ EndCycle
    /\ UNCHANGED <<nextGen, host, ingress, faults>>

\* An action raises, or the apply times out: the stack's plan stops here.
AbandonPlan ==
    /\ StatusHook(FailedOutcome(spec))
    /\ EndCycle
    /\ UNCHANGED <<nextGen, host, ingress>>

ActionFails ==
    /\ busy
    /\ Fault
    /\ AbandonPlan

ActionImpossible ==
    /\ busy /\ plan # <<>>
    /\ Head(plan).op \notin {"SyncCaddy", "ZeroDowntimeDeploy"}
    /\ ~Executable(host[Head(plan).tenant], Head(plan))
    /\ AbandonPlan
    /\ UNCHANGED faults

\* Without an operation step_for() is called before each action, outside the
\* handler of action failures: the exception leaves the cycle.
StepNameRaises ==
    /\ busy /\ plan # <<>>
    /\ Head(plan).op = "ZeroDowntimeDeploy"
    /\ EndCycle
    /\ UNCHANGED <<rowVars, host, ingress, faults>>

\* The panel process stops between two actions.
Restart ==
    /\ busy
    /\ Fault
    /\ EndCycle
    /\ UNCHANGED <<rowVars, host, ingress>>

\* A container dies, a unit file is corrupted or deleted by hand.
Drift ==
    /\ Fault
    /\ \E t \in Tenants : \E s \in (DOMAIN host[t].files) \union (DOMAIN host[t].run) :
         \/ host' = [host EXCEPT ![t].run = Without(@, {s})]
         \/ /\ s \in DOMAIN host[t].files
            /\ \/ host' = [host EXCEPT ![t].files[s] = None]
               \/ host' = [host EXCEPT ![t].files = Without(@, {s})]
    /\ UNCHANGED <<rowVars, ingress, cycleVars, requested>>

-----------------------------------------------------------------------------
\* The name is free; a tenant may still hold a volume of an earlier stack
\* of that name.
Init ==
    /\ row = None /\ nextGen = 0
    /\ \E left \in {EmptyHost} \union {[EmptyHost EXCEPT !.user = TRUE, !.dirs = {v}] : v \in Volumes} :
         \E t \in Tenants : host = [u \in Tenants |-> IF u = t THEN left ELSE EmptyHost]
    /\ ingress = None
    /\ spec = None /\ plan = <<>> /\ built = <<>>
    /\ busy = FALSE /\ requested = FALSE
    /\ faults = 0

ApiWrite ==
    \/ \E shape \in Shapes : CreateStack(shape) \/ EditStack(shape)
    \/ DeleteStack \/ ToggleSuspension

Reconcile ==
    \/ BeginCycle \/ BuildRoutes \/ ExecuteAction \/ FinishCycle
    \/ ActionImpossible \/ StepNameRaises

Disturbance == BeginBlindCycle \/ ActionFails \/ Restart \/ Drift

Next == ApiWrite \/ Reconcile \/ Disturbance

\* run_loop() starts a cycle at the latest after the interval, and an action
\* returns or raises; clients and faults owe nothing.
Spec == Init /\ [][Next]_vars /\ WF_vars(Reconcile)

-----------------------------------------------------------------------------
(* Properties.                                                             *)

Hash == (0 .. MaxGen) \union {None}
PartialMap == PartialMaps(Hash)

HostType == [user : BOOLEAN, dirs : SUBSET Volumes, files : PartialMap,
             builds : PartialMap, loaded : PartialMap, run : PartialMap]

\* Types: the row, the host and the cycle hold what their comments say.
TypeOK ==
    /\ row # None => /\ row.status \in Statuses
                     /\ \E c \in Shapes, b \in BOOLEAN, g \in 1 .. MaxGen :
                            row.spec = SpecOf(Owner, c, b, g)
                     /\ row.observed \in 0 .. MaxGen
    /\ nextGen \in 0 .. MaxGen
    /\ host \in [Tenants -> HostType]
    /\ ingress \in Hash
    /\ busy \in BOOLEAN /\ requested \in BOOLEAN
    /\ ~busy => spec = None /\ plan = <<>> /\ built = <<>>
    /\ faults \in 0 .. MaxFaults

\* The whole plan on the hosts it was made for, without interruption.
RunStep(acc, a, s) ==
    IF a.op = "SyncCaddy" THEN acc
    ELSE [ok |-> acc.ok /\ (Executable(acc.hs[a.tenant], a) \/ a.op = "ZeroDowntimeDeploy"),
          hs |-> [acc.hs EXCEPT ![a.tenant] = Effect(@, a, s)]]

RunFrom(acc, p, s) ==
    LET run[i \in 0 .. Len(p)] == IF i = 0 THEN acc ELSE RunStep(run[i - 1], p[i], s)
    IN  run[Len(p)]

RunPlan(hs, p, s) == RunFrom([ok |-> TRUE, hs |-> hs], p, s)

\* Convergence theorem of planner.py: on every host the system can reach,
\* half-executed plans, drift and API edits included, a fresh plan meets
\* every prerequisite of its actions and leaves the desired observation.
\* Artifacts of the name under two tenants are seen one tenant at a time.
PlanConverges ==
    (\A t, u \in Visible(host) : t = u) =>
        \A obs \in Observations(host) :
            LET end == RunPlan(host, Plan(Desired, obs), Desired)
            IN  end.ok /\ Observations(end.hs) = {Project(Desired)}

\* Idempotency theorem of planner.py, both ways: exactly the converged
\* observations plan nothing.
EmptyPlanIffConverged ==
    \A obs \in Observations(host) :
        (Plan(Desired, obs) = <<>>) <=> (obs = Project(Desired))

\* Order of the plan: as long as nothing failed, no unit file is removed
\* while its container runs, whatever API edits land during the plan.
StoppedBeforeRemoved ==
    [][ faults' = 0 =>
          \A t \in Tenants : \A s \in DOMAIN host[t].files :
              s \notin DOMAIN host'[t].files => s \notin DOMAIN host[t].run ]_vars

\* Ingress is derived state: as long as nothing failed, a desired stack the
\* host of which is as desired is routed by Caddy as of its current spec,
\* whichever edits landed while the routes were rebuilt.  Zero-downtime plans
\* never reach their SyncCaddy.
IngressFollows ==
    ( /\ faults = 0 /\ ~busy /\ ~requested
      /\ Desired # None /\ Desired.zdt = {}
      /\ \A obs \in Observations(host) : obs = Project(Desired) )
    => ingress = Routes

\* Failures are never undone, yet once faults and writes stop the host is
\* observed as desired for good, and the row of a desired stack says so.
HostHeals ==
    <>[](/\ \A obs \in Observations(host) : obs = Project(Desired)
         /\ Desired # None => row.status = Outcome(Desired))

-----------------------------------------------------------------------------
(* What the documentation promises and the code does not do; each is       *)
(* refuted by a run of its own.                                            *)

\* A stack that has converged runs the containers of its current spec.
EventuallyRunsDesired ==
    <>[]((Desired # None /\ ~Desired.suspended) =>
            \A s \in Desired.services :
                s \in DOMAIN host[Owner].run /\ host[Owner].run[s] = Desired.gen)

\* A deletion that failed on the way is completed by a later cycle.
DeletionCompletes == <>[](row = None \/ row.status # "deleting")
=============================================================================
