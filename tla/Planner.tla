------------------------------- MODULE Planner -------------------------------
(***************************************************************************)
(* The pure planner of backend/app/domain/planner.py for one stack name:   *)
(* what plan() returns for at most one desired spec and at most one        *)
(* observed stack, which is how the reconciler always calls it.  The       *)
(* module has no variables; StackConvergence runs the plans.               *)
(*                                                                         *)
(* A spec hash is modelled by the generation it was computed from:         *)
(* spec_hash() feeds the generation into the digest, so every bump changes *)
(* the hash of every service of the stack, and nothing else is compared.   *)
(***************************************************************************)
EXTENDS Naturals, SequencesExt

CONSTANTS
    Services,   \* service names a stack may have
    Volumes,    \* volume directory names
    Tenants,    \* tenant linux users
    None        \* "no spec", "no unit", "no marker": not a generation

ASSUME PlannerAssumption ==
    /\ None \notin Nat
    /\ Services # {} /\ IsFiniteSet(Services) /\ IsFiniteSet(Volumes)

-----------------------------------------------------------------------------
(* Desired and observed state (domain/specs.py).                           *)

\* A rendered spec without its generation and suspension.  A spec that
\* exists is internally consistent: it has a service, and what is built or
\* deployed without downtime is one of its services.
Contents ==
    { c \in [services : SUBSET Services, builds : SUBSET Services,
             zdt : SUBSET Services, volumes : SUBSET Volumes] :
        /\ c.services # {}
        /\ c.builds \subseteq c.services
        /\ c.zdt \subseteq c.services }

Specs == [tenant : Tenants, gen : Nat, suspended : BOOLEAN, services : SUBSET Services,
          builds : SUBSET Services, zdt : SUBSET Services, volumes : SUBSET Volumes]

SpecOf(tenant, contents, suspended, gen) ==
    [tenant |-> tenant, gen |-> gen, suspended |-> suspended,
     services |-> contents.services, builds |-> contents.builds,
     zdt |-> contents.zdt, volumes |-> contents.volumes]

PartialMaps(V) == UNION {[S -> V] : S \in SUBSET Services}
Observed == [tenant : Tenants, present : BOOLEAN,
             units : PartialMaps([hash : Nat \union {None}, active : BOOLEAN]),
             builds : PartialMaps(Nat \union {None}), dirs : SUBSET Volumes]

\* What is absent is none of these.
ASSUME PlannerNoneAssumption == None \notin Specs \union Observed

ObservedUnit(hash, active) == [hash |-> hash, active |-> active]

Action(op, tenant, arg) == [op |-> op, tenant |-> tenant, arg |-> arg]

\* One action per member of S, in the planner's deterministic order.
ForEach(op, tenant, S) ==
    LET q == SetToSeq(S) IN [i \in DOMAIN q |-> Action(op, tenant, q[i])]

If(cond, q) == IF cond THEN q ELSE <<>>

-----------------------------------------------------------------------------
(* What the planner compares.                                              *)

ActiveOf(obs) == {s \in DOMAIN obs.units : obs.units[s].active}

\* Mutation: a unit with a wrong or missing hash marker passes for current.
StaleIfMissing(spec, obs) == {s \in spec.services : s \notin DOMAIN obs.units}

Stale(spec, obs) ==
    {s \in spec.services :
        s \notin DOMAIN obs.units \/ obs.units[s].hash # spec.gen}

Extra(spec, obs) == (DOMAIN obs.units) \ spec.services

BuildStale(spec, obs) ==
    {s \in spec.builds :
        s \notin DOMAIN obs.builds \/ obs.builds[s] # spec.gen}

ExtraBuilds(spec, obs) == (DOMAIN obs.builds) \ spec.builds

NothingObserved(tenant) ==
    [tenant |-> tenant, present |-> FALSE, units |-> <<>>,
     builds |-> <<>>, dirs |-> {}]

-----------------------------------------------------------------------------
(* The plan.                                                               *)

\* Mutation: volume directories survive the teardown.
TeardownKeepingVolumes(obs) ==
    ForEach("StopService", obs.tenant, ActiveOf(obs))
    \o << Action("RemoveUnits", obs.tenant, None),
          Action("DaemonReload", obs.tenant, None),
          Action("RemoveTenantIfEmpty", obs.tenant, None) >>

\* Mutation: units are removed first, services stopped afterwards.
TeardownUnitsFirst(obs) ==
    << Action("RemoveUnits", obs.tenant, None),
       Action("DaemonReload", obs.tenant, None) >>
    \o ForEach("StopService", obs.tenant, ActiveOf(obs))
    \o ForEach("RemoveVolumeDir", obs.tenant, obs.dirs)
    \o << Action("RemoveTenantIfEmpty", obs.tenant, None) >>

PlanTeardown(obs) ==
    ForEach("StopService", obs.tenant, ActiveOf(obs))
    \o << Action("RemoveUnits", obs.tenant, None),
          Action("DaemonReload", obs.tenant, None) >>
    \o ForEach("RemoveVolumeDir", obs.tenant, obs.dirs)
    \o << Action("RemoveTenantIfEmpty", obs.tenant, None) >>

\* One entry per desired service, in one pass over the sorted services.
ServiceAction(spec, obs, s) ==
    LET active == s \in ActiveOf(obs)
        act(op) == << Action(op, spec.tenant, s) >>
    IN  CASE spec.suspended /\ active     -> act("StopService")
          [] spec.suspended /\ ~active    -> <<>>
          [] ~spec.suspended /\ ~active   -> act("StartService")
          [] ~spec.suspended /\ active    ->
                IF s \notin Stale(spec, obs) THEN <<>>
                ELSE IF s \in spec.zdt THEN act("ZeroDowntimeDeploy")
                ELSE act("RestartService")

PlanConverge(spec, obs) ==
    LET rewrite == \/ Stale(spec, obs) # {}
                   \/ Extra(spec, obs) # {}
                   \/ BuildStale(spec, obs) # {}
                   \/ ExtraBuilds(spec, obs) # {}
        sorted  == SetToSeq(spec.services)
        perService == [i \in DOMAIN sorted |-> ServiceAction(spec, obs, sorted[i])]
    IN  If(~obs.present, << Action("EnsureTenant", spec.tenant, None) >>)
        \o ForEach("EnsureVolumeDir", spec.tenant, spec.volumes \ obs.dirs)
        \o ForEach("StopService", spec.tenant, Extra(spec, obs) \cap ActiveOf(obs))
        \o If(rewrite, << Action("WriteUnits", spec.tenant, None),
                          Action("DaemonReload", spec.tenant, None) >>)
        \o FlattenSeq(perService)
        \o ForEach("RemoveVolumeDir", spec.tenant, obs.dirs \ spec.volumes)

\* Mutation: routes are rebuilt only when a stack appears or goes.
PlanRoutingOnce(spec, obs) ==
    LET foreign == spec # None /\ obs # None /\ obs.tenant # spec.tenant
        seen    == IF spec # None /\ (obs = None \/ foreign)
                   THEN NothingObserved(spec.tenant) ELSE obs
        actions == If(obs # None /\ (spec = None \/ foreign), PlanTeardown(obs))
                   \o If(spec # None, PlanConverge(spec, seen))
    IN  IF actions = <<>> \/ (spec # None /\ obs # None) THEN actions
        ELSE Append(actions, Action("SyncCaddy", None, None))

\* spec = None: not desired; obs = None: nothing of the stack on the host.
Plan(spec, obs) ==
    LET foreign == spec # None /\ obs # None /\ obs.tenant # spec.tenant
        seen    == IF spec # None /\ (obs = None \/ foreign)
                   THEN NothingObserved(spec.tenant) ELSE obs
        actions == If(obs # None /\ (spec = None \/ foreign), PlanTeardown(obs))
                   \o If(spec # None, PlanConverge(spec, seen))
    IN  IF actions = <<>> THEN <<>>
        ELSE Append(actions, Action("SyncCaddy", None, None))

\* The observation a converged host must give (project() of the tests).
Project(spec) ==
    IF spec = None THEN None
    ELSE [tenant |-> spec.tenant, present |-> TRUE,
          units  |-> [s \in spec.services |->
                        ObservedUnit(spec.gen, ~spec.suspended)],
          builds |-> [s \in spec.builds |-> spec.gen],
          dirs   |-> spec.volumes]
=============================================================================
