--------------------------- MODULE ConvergenceProofs ---------------------------
(***************************************************************************)
(* The planner and the convergence of one stack: for any services, volumes *)
(* and tenants, any contents a stack may be given, and any number of       *)
(* edits, failures, restarts and drifts.                                   *)
(***************************************************************************)
EXTENDS StackConvergence, Induction, SequenceTheorems

-----------------------------------------------------------------------------
(* Lists.                                                                  *)

\* A finite set can be listed.
LEMMA Listing ==
    ASSUME NEW S, IsFiniteSet(S)
    PROVE  /\ SetToSeq(S) \in [1 .. Cardinality(S) -> S] /\ Cardinality(S) \in Nat
           /\ SetToSeq(S) \in Seq(S) /\ Len(SetToSeq(S)) = Cardinality(S)
           /\ \A x \in S : \E i \in 1 .. Cardinality(S) : SetToSeq(S)[i] = x
           /\ \A i, j \in 1 .. Cardinality(S) : SetToSeq(S)[i] = SetToSeq(S)[j] => i = j
<1> DEFINE q == SetToSeq(S)
           n == Cardinality(S)
<1>1. n \in Nat /\ ExistsBijection(1 .. n, S)
  BY FS_CardinalityType
<1>2. PICK f \in [1 .. n -> S] : IsInjective(f)
  BY <1>1 DEF ExistsBijection, Bijection, Injection, IsInjective
<1>3. q \in [1 .. n -> S] /\ IsInjective(q)
  BY <1>2 DEF SetToSeq
<1> HIDE DEF q, n
<1>4. q \in Seq(S) /\ Len(q) = n
  BY <1>1, <1>3
<1>5. \A i, j \in 1 .. n : q[i] = q[j] => i = j
  BY <1>3 DEF IsInjective
<1>6. \A x \in S : \E i \in 1 .. n : q[i] = x
  <2>1. q \in Injection(1 .. n, S)
    BY <1>3 DEF Injection, IsInjective
  <2>2. IsFiniteSet(1 .. n) /\ Cardinality(1 .. n) = n
    BY <1>1, FS_Interval
  <2>3. q \in Surjection(1 .. n, S)
    BY <2>1, <2>2, FS_Injection DEF n
  <2> QED
    BY <2>3 DEF Surjection
<1> QED
  BY <1>1, <1>3, <1>4, <1>5, <1>6 DEF q, n

LEMMA ForEachList ==
    ASSUME NEW op, NEW t, NEW S, IsFiniteSet(S), NEW A, \A x \in S : Action(op, t, x) \in A
    PROVE  /\ ForEach(op, t, S) \in Seq(A)
           /\ ForEach(op, t, S) = <<>> <=> S = {}
           /\ \A i \in 1 .. Len(ForEach(op, t, S)) :
                \E x \in S : ForEach(op, t, S)[i] = Action(op, t, x)
           /\ \A x \in S : \E i \in 1 .. Len(ForEach(op, t, S)) :
                ForEach(op, t, S)[i] = Action(op, t, x)
<1> DEFINE q == SetToSeq(S)
           n == Cardinality(S)
           e == [i \in 1 .. n |-> Action(op, t, q[i])]
<1>1. /\ n \in Nat /\ q \in [1 .. n -> S] /\ DOMAIN q = 1 .. n
      /\ \A x \in S : \E i \in 1 .. n : q[i] = x
  BY Listing
<1>2. ForEach(op, t, S) = e
  BY <1>1 DEF ForEach
<1> HIDE DEF q, n
<1>3. e \in Seq(A) /\ Len(e) = n
  BY <1>1
<1>4. e = <<>> <=> S = {}
  <2>1. e = <<>> <=> n = 0
    BY <1>1, <1>3
  <2>2. n = 0 <=> S = {}
    BY FS_EmptySet DEF n
  <2> QED
    BY <2>1, <2>2
<1>5. \A i \in 1 .. n : e[i] = Action(op, t, q[i]) /\ q[i] \in S
  BY <1>1
<1> HIDE DEF e
<1> QED
  BY <1>1, <1>2, <1>3, <1>4, <1>5

\* FlattenSeq puts the sequences together one after the other.
LEMMA Flattening ==
    ASSUME NEW A, NEW seqs \in Seq(Seq(A))
    PROVE  \E F \in [0 .. Len(seqs) -> Seq(A)] :
             /\ F[0] = <<>> /\ FlattenSeq(seqs) = F[Len(seqs)]
             /\ \A i \in 1 .. Len(seqs) : F[i] = F[i - 1] \o seqs[i]
<1> DEFINE n == Len(seqs)
           Joins(F, k) == \A i \in 1 .. k : F[i] = F[i - 1] \o seqs[i]
           T == {k \in Nat : \E F \in [0 .. k -> Seq(A)] : F[0] = <<>> /\ Joins(F, k)}
<1>1. n \in Nat /\ \A i \in 1 .. n : seqs[i] \in Seq(A)
  OBVIOUS
<1>2. 0 \in T
  <2> DEFINE G == [k \in 0 .. 0 |-> <<>>]
  <2>1. G \in [0 .. 0 -> Seq(A)] /\ G[0] = <<>>
    OBVIOUS
  <2>2. Joins(G, 0)
    OBVIOUS
  <2> HIDE DEF G, Joins
  <2> QED
    BY <2>1, <2>2
<1>3. ASSUME NEW k \in 1 .. n, k - 1 \in T PROVE k \in T
  <2>1. PICK F \in [0 .. k - 1 -> Seq(A)] : F[0] = <<>> /\ Joins(F, k - 1)
    BY <1>3
  <2> DEFINE G == [i \in 0 .. k |-> IF i = k THEN F[k - 1] \o seqs[k] ELSE F[i]]
  <2>2. F[k - 1] \o seqs[k] \in Seq(A)
    BY <1>1, <2>1
  <2>3. G \in [0 .. k -> Seq(A)] /\ G[0] = <<>>
    BY <2>1, <2>2
  <2>4. Joins(G, k)
    <3> SUFFICES ASSUME NEW i \in 1 .. k PROVE G[i] = G[i - 1] \o seqs[i]
      OBVIOUS
    <3>1. i - 1 \in 0 .. k /\ i - 1 # k /\ i \in 0 .. k
      BY <1>1
    <3>2. CASE i = k
      BY <3>1, <3>2
    <3>3. CASE i # k
      <4>1. i \in 1 .. k - 1
        BY <1>1, <3>3
      <4> QED
        BY <2>1, <3>1, <3>3, <4>1
    <3> QED
      BY <3>2, <3>3
  <2>5. k \in Nat
    BY <1>1
  <2> HIDE DEF G, Joins
  <2> QED
    BY <2>3, <2>4, <2>5
<1>4. n \in T
  <2> HIDE DEF T, n
  <2>1. 0 .. n \subseteq T
    BY <1>1, <1>2, <1>3, UpTo
  <2> QED
    BY <1>1, <2>1
<1>5. PICK F \in [0 .. n -> Seq(A)] : F[0] = <<>> /\ Joins(F, n)
  BY <1>4
<1>6. CASE n = 0
  <2>1. FlattenSeq(seqs) = <<>>
    BY <1>6 DEF FlattenSeq
  <2> QED
    BY <1>5, <1>6, <2>1
<1>7. CASE n # 0
  <2> DEFINE fl == CHOOSE f : f = [i \in 1 .. n |-> IF i = 1 THEN seqs[i] ELSE f[i - 1] \o seqs[i]]
             U == {k \in 0 .. n : k # 0 => fl[k] = F[k]}
             g == [i \in 1 .. n |-> F[i]]
  <2>1. FlattenSeq(seqs) = fl[n]
    BY <1>7 DEF FlattenSeq
  <2>2. F[1] = seqs[1]
    <3>1. 1 \in 1 .. n /\ 1 - 1 = 0
      BY <1>1, <1>7
    <3>2. F[1] = <<>> \o seqs[1] /\ seqs[1] \in Seq(A)
      BY <1>1, <1>5, <3>1
    <3> QED
      BY <3>2, ConcatEmptySeq
  <2>3. g = [i \in 1 .. n |-> IF i = 1 THEN seqs[i] ELSE g[i - 1] \o seqs[i]]
    <3>1. ASSUME NEW i \in 1 .. n
          PROVE  F[i] = IF i = 1 THEN seqs[i] ELSE g[i - 1] \o seqs[i]
      <4>1. CASE i = 1
        BY <2>2, <4>1
      <4>2. CASE i # 1
        <5>1. i - 1 \in 1 .. n /\ g[i - 1] = F[i - 1]
          BY <1>1, <4>2
        <5> QED
          BY <1>5, <4>2, <5>1
      <4> QED
        BY <4>1, <4>2
    <3> QED
      BY <3>1
  <2>4. fl = [i \in 1 .. n |-> IF i = 1 THEN seqs[i] ELSE fl[i - 1] \o seqs[i]]
    BY <2>3
  <2> HIDE DEF fl, g
  <2>5. ASSUME NEW k \in 1 .. n, k - 1 \in U PROVE k \in U
    <3>1. CASE k = 1
      BY <2>2, <2>4, <3>1
    <3>2. CASE k # 1
      <4>1. k - 1 # 0 /\ fl[k - 1] = F[k - 1] /\ k \in 0 .. n
        BY <1>1, <2>5, <3>2
      <4>2. fl[k] = fl[k - 1] \o seqs[k]
        BY <2>4, <3>2
      <4> QED
        BY <1>5, <4>1, <4>2
    <3> QED
      BY <3>1, <3>2
  <2>6. n \in U
    <3>1. 0 \in U
      BY <1>1
    <3> HIDE DEF U, n
    <3>2. 0 .. n \subseteq U
      BY <1>1, <2>5, <3>1, UpTo
    <3> QED
      BY <1>1, <3>2
  <2> QED
    BY <1>5, <1>7, <2>1, <2>6
<1> QED
  BY <1>6, <1>7

-----------------------------------------------------------------------------
(* The host: what its actions keep.                                        *)

ServiceOps == {"StopService", "StartService", "RestartService", "ZeroDowntimeDeploy"}
VolumeOps == {"EnsureVolumeDir", "RemoveVolumeDir"}
TenantOps == {"EnsureTenant", "WriteUnits", "DaemonReload", "RemoveUnits", "RemoveTenantIfEmpty"}

ServiceActions == [op : ServiceOps, tenant : Tenants, arg : Services]
VolumeActions == [op : VolumeOps, tenant : Tenants, arg : Volumes]
TenantActions == [op : TenantOps, tenant : Tenants, arg : {None}]
HostActions == ServiceActions \cup VolumeActions \cup TenantActions
Actions == HostActions \cup {Action("SyncCaddy", None, None)}

OwnSpecs == {SpecOf(Owner, c, b, g) : c \in Shapes, b \in BOOLEAN, g \in 1 .. MaxGen}

LEMMA MapFacts ==
    ASSUME NEW V, NEW f \in PartialMaps(V)
    PROVE  /\ DOMAIN f \in SUBSET Services /\ f \in [DOMAIN f -> V]
           /\ \A S : Without(f, S) \in PartialMaps(V)
           /\ \A s \in Services, v \in V : With(f, s, v) \in PartialMaps(V)
<1>1. PICK D \in SUBSET Services : f \in [D -> V]
  BY DEF PartialMaps
<1>2. DOMAIN f = D
  BY <1>1
<1>3. ASSUME NEW S PROVE Without(f, S) \in PartialMaps(V)
  <2>1. Without(f, S) \in [D \ S -> V] /\ D \ S \in SUBSET Services
    BY <1>1, <1>2 DEF Without
  <2> QED
    BY <2>1 DEF PartialMaps
<1>4. ASSUME NEW s \in Services, NEW v \in V PROVE With(f, s, v) \in PartialMaps(V)
  <2>1. With(f, s, v) \in [D \cup {s} -> V] /\ D \cup {s} \in SUBSET Services
    BY <1>1, <1>2 DEF With
  <2> QED
    BY <2>1 DEF PartialMaps
<1> QED
  BY <1>1, <1>2, <1>3, <1>4

LEMMA MapOn ==
    ASSUME NEW V, NEW D \in SUBSET Services, NEW f \in [D -> V]
    PROVE  f \in PartialMaps(V)
  BY DEF PartialMaps

LEMMA NoMapTyped == NoMap \in PartialMap /\ DOMAIN NoMap = {} /\ EmptyHost \in HostType
<1>1. NoMap \in [{} -> Hash] /\ {} \in SUBSET Services
  BY DEF NoMap
<1>2. NoMap \in PartialMap
  BY <1>1, MapOn DEF PartialMap
<1> QED
  BY <1>1, <1>2 DEF EmptyHost, HostType

LEMMA OwnSpecFacts ==
    ASSUME NEW d \in OwnSpecs
    PROVE  /\ d \in Specs /\ d # None /\ d.tenant = Owner /\ d.gen \in 1 .. MaxGen
           /\ d.services # {} /\ d.builds \subseteq d.services
           /\ d.services \in SUBSET Services /\ d.builds \in SUBSET Services
           /\ d.volumes \in SUBSET Volumes /\ d.suspended \in BOOLEAN
<1>1. PICK c \in Shapes, b \in BOOLEAN, g \in 1 .. MaxGen : d = SpecOf(Owner, c, b, g)
  BY DEF OwnSpecs
<1>2. c \in Contents /\ g \in Nat /\ Owner \in Tenants
  BY ConvergenceAssumption
<1>3. d \in Specs
  BY <1>1, <1>2 DEF SpecOf, Contents, Specs
<1> QED
  BY <1>1, <1>2, <1>3, PlannerNoneAssumption DEF SpecOf, Contents

LEMMA ControlTyped ==
    ASSUME NEW h \in HostType, NEW a \in ServiceActions, Executable(h, a)
    PROVE  Control(h, a.op, a.arg) \in HostType
<1>1. a.op \in ServiceOps /\ a.arg \in Services
  BY DEF ServiceActions
<1>2. h.run \in PartialMap /\ Generated(h, a.arg) \in PartialMap
  BY DEF HostType, Generated
<1>3. CASE a.op = "StopService"
  <2>1. Without(h.run, {a.arg}) \in PartialMap
    BY <1>2, MapFacts DEF PartialMap
  <2> QED
    BY <1>3, <2>1 DEF Control, HostType
<1>4. CASE a.op # "StopService"
  <2>1. CASE a.op = "StartService" /\ a.arg \in DOMAIN h.run
    BY <2>1 DEF Control
  <2>2. CASE ~(a.op = "StartService" /\ a.arg \in DOMAIN h.run)
    <3>1. a.arg \in DOMAIN Generated(h, a.arg)
      BY <1>1, <1>4, <2>2 DEF Executable, ServiceOps
    <3>2. Generated(h, a.arg)[a.arg] \in Hash
      BY <1>2, <3>1, MapFacts DEF PartialMap
    <3>3. With(h.run, a.arg, Generated(h, a.arg)[a.arg]) \in PartialMap
      BY <1>1, <1>2, <3>2, MapFacts DEF PartialMap
    <3>4. Control(h, a.op, a.arg) =
            [h EXCEPT !.loaded = Generated(h, a.arg),
                      !.run = With(@, a.arg, Generated(h, a.arg)[a.arg])]
      BY <1>4, <2>2 DEF Control
    <3> QED
      BY <1>2, <3>3, <3>4 DEF HostType
  <2> QED
    BY <2>1, <2>2
<1> QED
  BY <1>3, <1>4

\* An action that can be executed leaves a host.
LEMMA EffectTyped ==
    ASSUME NEW h \in HostType, NEW a \in HostActions, NEW d \in OwnSpecs \cup {None},
           Executable(h, a), a.op = "WriteUnits" => d # None
    PROVE  Effect(h, a, d) \in HostType
<1>1. CASE a \in ServiceActions
  <2>1. Effect(h, a, d) = Control(h, a.op, a.arg)
    BY <1>1 DEF Effect, ServiceActions, ServiceOps
  <2> QED
    BY <1>1, <2>1, ControlTyped
<1>2. CASE a \in VolumeActions
  <2>1. \/ a.op = "EnsureVolumeDir" /\ Effect(h, a, d) = [h EXCEPT !.dirs = @ \union {a.arg}]
        \/ a.op = "RemoveVolumeDir" /\ Effect(h, a, d) = [h EXCEPT !.dirs = @ \ {a.arg}]
    BY <1>2 DEF Effect, VolumeActions, VolumeOps
  <2> QED
    BY <1>2, <2>1 DEF VolumeActions, HostType
<1>3. CASE a \in TenantActions
  <2>1. CASE a.op = "EnsureTenant"
    BY <2>1 DEF Effect, HostType
  <2>2. CASE a.op = "WriteUnits"
    <3>1. d \in OwnSpecs
      BY <2>2
    <3>2. d.services \in SUBSET Services /\ d.builds \in SUBSET Services /\ d.gen \in Hash
      BY <3>1, OwnSpecFacts, ConvergenceAssumption DEF Hash
    <3>3. [x \in d.services |-> d.gen] \in PartialMap /\ [x \in d.builds |-> d.gen] \in PartialMap
      BY <3>2, MapOn DEF PartialMap
    <3> QED
      BY <2>2, <3>3 DEF Effect, Written, HostType
  <2>3. CASE a.op = "RemoveUnits"
    BY <2>3, NoMapTyped DEF Effect, HostType
  <2>4. CASE a.op = "DaemonReload"
    BY <2>4 DEF Effect, HostType
  <2>5. CASE a.op = "RemoveTenantIfEmpty"
    BY <2>5, NoMapTyped DEF Effect, Collected
  <2> QED
    BY <1>3, <2>1, <2>2, <2>3, <2>4, <2>5 DEF TenantActions, TenantOps
<1> QED
  BY <1>1, <1>2, <1>3 DEF HostActions

-----------------------------------------------------------------------------
(* The plan: its parts, and what its actions are.                          *)

Rewrites(d, obs) == \/ Stale(d, obs) # {} \/ Extra(d, obs) # {}
                    \/ BuildStale(d, obs) # {} \/ ExtraBuilds(d, obs) # {}

Entering(d, obs) == If(~obs.present, << Action("EnsureTenant", d.tenant, None) >>)
NewVolumes(d, obs) == ForEach("EnsureVolumeDir", d.tenant, d.volumes \ obs.dirs)
ExtraStops(d, obs) == ForEach("StopService", d.tenant, Extra(d, obs) \cap ActiveOf(obs))
Rewriting(d, obs) == If(Rewrites(d, obs), << Action("WriteUnits", d.tenant, None),
                                             Action("DaemonReload", d.tenant, None) >>)
PerService(d, obs) ==
    [i \in DOMAIN SetToSeq(d.services) |-> ServiceAction(d, obs, SetToSeq(d.services)[i])]
OldVolumes(d, obs) == ForEach("RemoveVolumeDir", d.tenant, obs.dirs \ d.volumes)

LEMMA ConvergeParts ==
    ASSUME NEW d, NEW obs
    PROVE  PlanConverge(d, obs) = Entering(d, obs) \o NewVolumes(d, obs) \o ExtraStops(d, obs)
                                  \o Rewriting(d, obs) \o FlattenSeq(PerService(d, obs))
                                  \o OldVolumes(d, obs)
  BY DEF PlanConverge, Entering, NewVolumes, ExtraStops, Rewriting, Rewrites, PerService, OldVolumes

Stops(obs) == ForEach("StopService", obs.tenant, ActiveOf(obs))
Removal(obs) == << Action("RemoveUnits", obs.tenant, None), Action("DaemonReload", obs.tenant, None) >>
VolumesGone(obs) == ForEach("RemoveVolumeDir", obs.tenant, obs.dirs)
Leaving(obs) == << Action("RemoveTenantIfEmpty", obs.tenant, None) >>

LEMMA TeardownParts ==
    ASSUME NEW obs
    PROVE  PlanTeardown(obs) = Stops(obs) \o Removal(obs) \o VolumesGone(obs) \o Leaving(obs)
  BY DEF PlanTeardown, Stops, Removal, VolumesGone, Leaving

LEMMA ObservedFinite ==
    ASSUME NEW obs \in Observed
    PROVE  /\ obs.tenant \in Tenants /\ obs.dirs \in SUBSET Volumes /\ IsFiniteSet(obs.dirs)
           /\ DOMAIN obs.units \in SUBSET Services /\ DOMAIN obs.builds \in SUBSET Services
           /\ ActiveOf(obs) \in SUBSET Services /\ IsFiniteSet(ActiveOf(obs))
<1>1. DOMAIN obs.units \in SUBSET Services /\ DOMAIN obs.builds \in SUBSET Services
  BY MapFacts DEF Observed
<1>2. ActiveOf(obs) \in SUBSET Services
  BY <1>1 DEF ActiveOf
<1>3. obs.dirs \in SUBSET Volumes /\ obs.tenant \in Tenants
  BY DEF Observed
<1> QED
  BY <1>1, <1>2, <1>3, FS_Subset, PlannerAssumption

\* The actions a plan can hold, by the part of it they are in.
Only(ops, t) == {a \in HostActions : a.op \in ops /\ a.tenant = t}

LEMMA OnlyActions ==
    ASSUME NEW t \in Tenants, NEW ops
    PROVE  /\ \A op \in ServiceOps \cap ops, s \in Services : Action(op, t, s) \in Only(ops, t)
           /\ \A op \in VolumeOps \cap ops, v \in Volumes : Action(op, t, v) \in Only(ops, t)
           /\ \A op \in TenantOps \cap ops : Action(op, t, None) \in Only(ops, t)
  BY DEF Only, Action, HostActions, ServiceActions, VolumeActions, TenantActions

LEMMA ServiceActionIs ==
    ASSUME NEW d \in Specs, NEW obs, NEW s \in Services
    PROVE  /\ ServiceAction(d, obs, s) \in Seq(Only(ServiceOps, d.tenant))
           /\ ServiceAction(d, obs, s) = <<>> <=>
                /\ s \in ActiveOf(obs) <=> ~d.suspended
                /\ s \in ActiveOf(obs) => s \notin Stale(d, obs)
<1>1. d.tenant \in Tenants /\ d.suspended \in BOOLEAN
  BY DEF Specs
<1>2. \A op \in ServiceOps : Action(op, d.tenant, s) \in Only(ServiceOps, d.tenant)
  BY <1>1, OnlyActions
<1>3. \A op \in ServiceOps : << Action(op, d.tenant, s) >> \in Seq(Only(ServiceOps, d.tenant))
                             /\ << Action(op, d.tenant, s) >> # <<>>
  BY <1>2
<1>4. <<>> \in Seq(Only(ServiceOps, d.tenant))
  OBVIOUS
<1>5. CASE d.suspended /\ s \in ActiveOf(obs)
  BY <1>3, <1>5 DEF ServiceAction, ServiceOps
<1>6. CASE d.suspended /\ s \notin ActiveOf(obs)
  BY <1>4, <1>6 DEF ServiceAction
<1>7. CASE ~d.suspended /\ s \notin ActiveOf(obs)
  BY <1>3, <1>7 DEF ServiceAction, ServiceOps
<1>8. CASE ~d.suspended /\ s \in ActiveOf(obs)
  BY <1>3, <1>4, <1>8 DEF ServiceAction, ServiceOps
<1> QED
  BY <1>1, <1>5, <1>6, <1>7, <1>8

LEMMA FlattenEmpty ==
    ASSUME NEW A, NEW seqs \in Seq(Seq(A))
    PROVE  /\ FlattenSeq(seqs) \in Seq(A)
           /\ FlattenSeq(seqs) = <<>> <=> \A i \in 1 .. Len(seqs) : seqs[i] = <<>>
<1> DEFINE n == Len(seqs)
<1>1. n \in Nat /\ \A i \in 1 .. n : seqs[i] \in Seq(A)
  OBVIOUS
<1>2. PICK F \in [0 .. n -> Seq(A)] :
         /\ F[0] = <<>> /\ FlattenSeq(seqs) = F[n]
         /\ \A i \in 1 .. n : F[i] = F[i - 1] \o seqs[i]
  BY Flattening
<1> HIDE DEF n
<1>3. \A i \in 1 .. n : F[i] = <<>> <=> F[i - 1] = <<>> /\ seqs[i] = <<>>
  <2> TAKE i \in 1 .. n
  <2>1. F[i - 1] \in Seq(A) /\ seqs[i] \in Seq(A) /\ F[i] = F[i - 1] \o seqs[i]
    <3>1. i - 1 \in 0 .. n
      BY <1>1
    <3> QED
      BY <1>1, <1>2, <3>1
  <2> QED
    BY <2>1, ConcatEqualIffEmpty
<1> DEFINE T == {k \in 0 .. n : F[k] = <<>> <=> \A i \in 1 .. k : seqs[i] = <<>>}
<1>4. 0 \in T
  BY <1>1, <1>2
<1>5. ASSUME NEW k \in 1 .. n, k - 1 \in T PROVE k \in T
  <2>1. F[k - 1] = <<>> <=> \A i \in 1 .. k - 1 : seqs[i] = <<>>
    BY <1>5
  <2>2. (\A i \in 1 .. k : seqs[i] = <<>>) <=> (\A i \in 1 .. k - 1 : seqs[i] = <<>>) /\ seqs[k] = <<>>
    BY <1>1
  <2>3. F[k] = <<>> <=> F[k - 1] = <<>> /\ seqs[k] = <<>>
    BY <1>3
  <2>4. k \in 0 .. n
    BY <1>1
  <2>5. F[k] = <<>> <=> \A i \in 1 .. k : seqs[i] = <<>>
    BY <2>1, <2>2, <2>3
  <2> QED
    BY <2>4, <2>5
<1>6. n \in T
  <2> HIDE DEF T
  <2>1. 0 .. n \subseteq T
    BY <1>1, <1>4, <1>5, UpTo
  <2> QED
    BY <1>1, <2>1
<1> QED
  BY <1>1, <1>2, <1>6 DEF n

LEMMA ConvergePartsAre ==
    ASSUME NEW d \in OwnSpecs, NEW obs \in Observed
    PROVE  /\ Entering(d, obs) \in Seq(Only({"EnsureTenant"}, d.tenant))
           /\ Entering(d, obs) = <<>> <=> obs.present
           /\ NewVolumes(d, obs) \in Seq(Only({"EnsureVolumeDir"}, d.tenant))
           /\ NewVolumes(d, obs) = <<>> <=> d.volumes \subseteq obs.dirs
           /\ ExtraStops(d, obs) \in Seq(Only({"StopService"}, d.tenant))
           /\ ExtraStops(d, obs) = <<>> <=> Extra(d, obs) \cap ActiveOf(obs) = {}
           /\ Rewriting(d, obs) \in Seq(Only({"WriteUnits", "DaemonReload"}, d.tenant))
           /\ Rewriting(d, obs) = <<>> <=> ~Rewrites(d, obs)
           /\ FlattenSeq(PerService(d, obs)) \in Seq(Only(ServiceOps, d.tenant))
           /\ FlattenSeq(PerService(d, obs)) = <<>> <=>
                \A s \in d.services : ServiceAction(d, obs, s) = <<>>
           /\ OldVolumes(d, obs) \in Seq(Only({"RemoveVolumeDir"}, d.tenant))
           /\ OldVolumes(d, obs) = <<>> <=> obs.dirs \subseteq d.volumes
<1> DEFINE t == d.tenant
<1>1. /\ d \in Specs /\ t \in Tenants
      /\ d.services \in SUBSET Services /\ d.volumes \in SUBSET Volumes
      /\ IsFiniteSet(d.services) /\ IsFiniteSet(d.volumes)
  BY OwnSpecFacts, FS_Subset, PlannerAssumption DEF Specs
<1>2. /\ obs.dirs \in SUBSET Volumes /\ IsFiniteSet(obs.dirs)
      /\ ActiveOf(obs) \in SUBSET Services /\ IsFiniteSet(ActiveOf(obs))
  BY ObservedFinite
<1>3. /\ Entering(d, obs) \in Seq(Only({"EnsureTenant"}, t))
      /\ Entering(d, obs) = <<>> <=> obs.present
  <2> DEFINE A == Only({"EnsureTenant"}, t)
             e == Action("EnsureTenant", t, None)
  <2>1. e \in A
    BY <1>1, OnlyActions DEF TenantOps
  <2>2. Entering(d, obs) = IF obs.present THEN <<>> ELSE << e >>
    BY DEF Entering, If, Observed
  <2> HIDE DEF A, e
  <2>3. << e >> \in Seq(A) /\ << e >> # <<>> /\ <<>> \in Seq(A)
    BY <2>1
  <2> QED
    BY <2>2, <2>3 DEF A
<1>4. /\ NewVolumes(d, obs) \in Seq(Only({"EnsureVolumeDir"}, t))
      /\ NewVolumes(d, obs) = <<>> <=> d.volumes \subseteq obs.dirs
  <2>1. \A v \in d.volumes \ obs.dirs : Action("EnsureVolumeDir", t, v) \in Only({"EnsureVolumeDir"}, t)
    BY <1>1, OnlyActions DEF VolumeOps
  <2>2. IsFiniteSet(d.volumes \ obs.dirs)
    BY <1>1, FS_Difference
  <2> QED
    BY <2>1, <2>2, ForEachList DEF NewVolumes
<1>5. /\ ExtraStops(d, obs) \in Seq(Only({"StopService"}, t))
      /\ ExtraStops(d, obs) = <<>> <=> Extra(d, obs) \cap ActiveOf(obs) = {}
  <2>1. \A s \in Extra(d, obs) \cap ActiveOf(obs) :
           Action("StopService", t, s) \in Only({"StopService"}, t)
    BY <1>1, <1>2, OnlyActions DEF ServiceOps
  <2>2. IsFiniteSet(Extra(d, obs) \cap ActiveOf(obs))
    BY <1>2, FS_Subset
  <2> QED
    BY <2>1, <2>2, ForEachList DEF ExtraStops
<1>6. /\ Rewriting(d, obs) \in Seq(Only({"WriteUnits", "DaemonReload"}, t))
      /\ Rewriting(d, obs) = <<>> <=> ~Rewrites(d, obs)
  <2> DEFINE A == Only({"WriteUnits", "DaemonReload"}, t)
             e == Action("WriteUnits", t, None)
             f == Action("DaemonReload", t, None)
  <2>1. e \in A /\ f \in A
    BY <1>1, OnlyActions DEF TenantOps
  <2>2. Rewriting(d, obs) = IF Rewrites(d, obs) THEN << e, f >> ELSE <<>>
    BY DEF Rewriting, If
  <2> HIDE DEF A, e, f
  <2>3. << e, f >> \in Seq(A) /\ << e, f >> # <<>> /\ <<>> \in Seq(A)
    BY <2>1
  <2> QED
    BY <2>2, <2>3 DEF A
<1>7. /\ FlattenSeq(PerService(d, obs)) \in Seq(Only(ServiceOps, t))
      /\ FlattenSeq(PerService(d, obs)) = <<>> <=>
           \A s \in d.services : ServiceAction(d, obs, s) = <<>>
  <2> DEFINE q == SetToSeq(d.services)
             n == Cardinality(d.services)
             A == Only(ServiceOps, t)
             P == PerService(d, obs)
  <2>1. /\ n \in Nat /\ DOMAIN q = 1 .. n
        /\ \A i \in 1 .. n : q[i] \in d.services
        /\ \A s \in d.services : \E i \in 1 .. n : q[i] = s
    BY <1>1, Listing
  <2>2. P = [i \in 1 .. n |-> ServiceAction(d, obs, q[i])]
    BY <2>1 DEF PerService
  <2>3. \A i \in 1 .. n : ServiceAction(d, obs, q[i]) \in Seq(A)
    BY <1>1, <2>1, ServiceActionIs
  <2> HIDE DEF q, n, A, P
  <2>4. P \in Seq(Seq(A)) /\ Len(P) = n
    BY <2>1, <2>2, <2>3
  <2>5. FlattenSeq(P) \in Seq(A) /\ (FlattenSeq(P) = <<>> <=> \A i \in 1 .. n : P[i] = <<>>)
    BY <2>4, FlattenEmpty
  <2>6. (\A i \in 1 .. n : P[i] = <<>>) <=> \A s \in d.services : ServiceAction(d, obs, s) = <<>>
    BY <2>1, <2>2
  <2> QED
    BY <2>5, <2>6 DEF A, P
<1>8. /\ OldVolumes(d, obs) \in Seq(Only({"RemoveVolumeDir"}, t))
      /\ OldVolumes(d, obs) = <<>> <=> obs.dirs \subseteq d.volumes
  <2>1. \A v \in obs.dirs \ d.volumes : Action("RemoveVolumeDir", t, v) \in Only({"RemoveVolumeDir"}, t)
    BY <1>1, <1>2, OnlyActions DEF VolumeOps
  <2>2. IsFiniteSet(obs.dirs \ d.volumes)
    BY <1>2, FS_Difference
  <2> QED
    BY <2>1, <2>2, ForEachList DEF OldVolumes
<1> QED
  BY <1>3, <1>4, <1>5, <1>6, <1>7, <1>8

ConvergeOps == ServiceOps \cup VolumeOps \cup {"EnsureTenant", "WriteUnits", "DaemonReload"}
TeardownOps == {"StopService", "RemoveUnits", "DaemonReload", "RemoveVolumeDir", "RemoveTenantIfEmpty"}

LEMMA OnlyMore ==
    ASSUME NEW t, NEW ops, NEW more, ops \subseteq more, NEW p \in Seq(Only(ops, t))
    PROVE  p \in Seq(Only(more, t))
<1>1. Only(ops, t) \subseteq Only(more, t)
  BY DEF Only
<1> QED
  BY <1>1, SeqMonotonic

\* A concatenation is empty when its parts are.
LEMMA JoinSix ==
    ASSUME NEW A, NEW p1 \in Seq(A), NEW p2 \in Seq(A), NEW p3 \in Seq(A), NEW p4 \in Seq(A),
           NEW p5 \in Seq(A), NEW p6 \in Seq(A)
    PROVE  /\ p1 \o p2 \o p3 \o p4 \o p5 \o p6 \in Seq(A)
           /\ p1 \o p2 \o p3 \o p4 \o p5 \o p6 = <<>> <=>
                p1 = <<>> /\ p2 = <<>> /\ p3 = <<>> /\ p4 = <<>> /\ p5 = <<>> /\ p6 = <<>>
<1>1. p1 \o p2 \in Seq(A) /\ (p1 \o p2 = <<>> <=> p1 = <<>> /\ p2 = <<>>)
  BY ConcatEqualIffEmpty
<1> DEFINE q2 == p1 \o p2
<1> HIDE DEF q2
<1>2. q2 \o p3 \in Seq(A) /\ (q2 \o p3 = <<>> <=> q2 = <<>> /\ p3 = <<>>)
  BY <1>1, ConcatEqualIffEmpty DEF q2
<1> DEFINE q3 == q2 \o p3
<1> HIDE DEF q3
<1>3. q3 \o p4 \in Seq(A) /\ (q3 \o p4 = <<>> <=> q3 = <<>> /\ p4 = <<>>)
  BY <1>2, ConcatEqualIffEmpty DEF q3
<1> DEFINE q4 == q3 \o p4
<1> HIDE DEF q4
<1>4. q4 \o p5 \in Seq(A) /\ (q4 \o p5 = <<>> <=> q4 = <<>> /\ p5 = <<>>)
  BY <1>3, ConcatEqualIffEmpty DEF q4
<1> DEFINE q5 == q4 \o p5
<1> HIDE DEF q5
<1>5. q5 \o p6 \in Seq(A) /\ (q5 \o p6 = <<>> <=> q5 = <<>> /\ p6 = <<>>)
  BY <1>4, ConcatEqualIffEmpty DEF q5
<1> QED
  BY <1>1, <1>2, <1>3, <1>4, <1>5 DEF q2, q3, q4, q5

\* The stack is as desired, part by part of the plan.
InPlace(d, obs) ==
    /\ obs.present /\ obs.dirs = d.volumes
    /\ Extra(d, obs) \cap ActiveOf(obs) = {} /\ ~Rewrites(d, obs)
    /\ \A s \in d.services : ServiceAction(d, obs, s) = <<>>

LEMMA ConvergeIs ==
    ASSUME NEW d \in OwnSpecs, NEW obs \in Observed
    PROVE  /\ PlanConverge(d, obs) \in Seq(Only(ConvergeOps, d.tenant))
           /\ PlanConverge(d, obs) = <<>> <=> InPlace(d, obs)
<1> DEFINE A == Only(ConvergeOps, d.tenant)
<1>1. /\ Entering(d, obs) \in Seq(A) /\ NewVolumes(d, obs) \in Seq(A)
      /\ ExtraStops(d, obs) \in Seq(A) /\ Rewriting(d, obs) \in Seq(A)
      /\ FlattenSeq(PerService(d, obs)) \in Seq(A) /\ OldVolumes(d, obs) \in Seq(A)
  <2>1. /\ {"EnsureTenant"} \subseteq ConvergeOps /\ {"EnsureVolumeDir"} \subseteq ConvergeOps
        /\ {"StopService"} \subseteq ConvergeOps
        /\ {"WriteUnits", "DaemonReload"} \subseteq ConvergeOps
        /\ ServiceOps \subseteq ConvergeOps /\ {"RemoveVolumeDir"} \subseteq ConvergeOps
    BY DEF ConvergeOps, ServiceOps, VolumeOps
  <2> QED
    BY <2>1, ConvergePartsAre, OnlyMore
<1>2. PlanConverge(d, obs) \in Seq(A)
      /\ (PlanConverge(d, obs) = <<>> <=>
            /\ Entering(d, obs) = <<>> /\ NewVolumes(d, obs) = <<>> /\ ExtraStops(d, obs) = <<>>
            /\ Rewriting(d, obs) = <<>> /\ FlattenSeq(PerService(d, obs)) = <<>>
            /\ OldVolumes(d, obs) = <<>>)
  <2> DEFINE p1 == Entering(d, obs)
             p2 == NewVolumes(d, obs)
             p3 == ExtraStops(d, obs)
             p4 == Rewriting(d, obs)
             p5 == FlattenSeq(PerService(d, obs))
             p6 == OldVolumes(d, obs)
  <2>1. PlanConverge(d, obs) = p1 \o p2 \o p3 \o p4 \o p5 \o p6
    BY ConvergeParts
  <2> HIDE DEF A, p1, p2, p3, p4, p5, p6
  <2>2. /\ p1 \in Seq(A) /\ p2 \in Seq(A) /\ p3 \in Seq(A) /\ p4 \in Seq(A)
        /\ p5 \in Seq(A) /\ p6 \in Seq(A)
    BY <1>1 DEF p1, p2, p3, p4, p5, p6
  <2>3. /\ p1 \o p2 \o p3 \o p4 \o p5 \o p6 \in Seq(A)
        /\ p1 \o p2 \o p3 \o p4 \o p5 \o p6 = <<>> <=>
             p1 = <<>> /\ p2 = <<>> /\ p3 = <<>> /\ p4 = <<>> /\ p5 = <<>> /\ p6 = <<>>
    BY <2>2, JoinSix
  <2> QED
    BY <2>1, <2>3 DEF p1, p2, p3, p4, p5, p6
<1>3. obs.dirs = d.volumes <=> d.volumes \subseteq obs.dirs /\ obs.dirs \subseteq d.volumes
  BY OwnSpecFacts, ObservedFinite
<1> HIDE DEF A
<1> QED
  BY <1>2, <1>3, ConvergePartsAre DEF InPlace, A

LEMMA TeardownIs ==
    ASSUME NEW obs \in Observed
    PROVE  /\ Stops(obs) \in Seq(Only({"StopService"}, obs.tenant))
           /\ Removal(obs) \in Seq(Only({"RemoveUnits", "DaemonReload"}, obs.tenant))
           /\ VolumesGone(obs) \in Seq(Only({"RemoveVolumeDir"}, obs.tenant))
           /\ Leaving(obs) \in Seq(Only({"RemoveTenantIfEmpty"}, obs.tenant))
           /\ PlanTeardown(obs) \in Seq(Only(TeardownOps, obs.tenant))
           /\ PlanTeardown(obs) # <<>>
<1> DEFINE t == obs.tenant
<1>1. /\ t \in Tenants /\ obs.dirs \in SUBSET Volumes /\ IsFiniteSet(obs.dirs)
      /\ ActiveOf(obs) \in SUBSET Services /\ IsFiniteSet(ActiveOf(obs))
  BY ObservedFinite
<1>2. Stops(obs) \in Seq(Only({"StopService"}, t))
  <2>1. \A s \in ActiveOf(obs) : Action("StopService", t, s) \in Only({"StopService"}, t)
    BY <1>1, OnlyActions DEF ServiceOps
  <2> QED
    BY <1>1, <2>1, ForEachList DEF Stops
<1>3. Removal(obs) \in Seq(Only({"RemoveUnits", "DaemonReload"}, t))
  <2> DEFINE A == Only({"RemoveUnits", "DaemonReload"}, t)
             e == Action("RemoveUnits", t, None)
             f == Action("DaemonReload", t, None)
  <2>1. e \in A /\ f \in A
    BY <1>1, OnlyActions DEF TenantOps
  <2>2. Removal(obs) = << e, f >>
    BY DEF Removal
  <2> HIDE DEF A, e, f
  <2>3. << e, f >> \in Seq(A)
    BY <2>1
  <2> QED
    BY <2>2, <2>3 DEF A
<1>4. VolumesGone(obs) \in Seq(Only({"RemoveVolumeDir"}, t))
  <2>1. \A v \in obs.dirs : Action("RemoveVolumeDir", t, v) \in Only({"RemoveVolumeDir"}, t)
    BY <1>1, OnlyActions DEF VolumeOps
  <2> QED
    BY <1>1, <2>1, ForEachList DEF VolumesGone
<1>5. Leaving(obs) \in Seq(Only({"RemoveTenantIfEmpty"}, t)) /\ Leaving(obs) # <<>>
  <2> DEFINE A == Only({"RemoveTenantIfEmpty"}, t)
             e == Action("RemoveTenantIfEmpty", t, None)
  <2>1. e \in A
    BY <1>1, OnlyActions DEF TenantOps
  <2>2. Leaving(obs) = << e >>
    BY DEF Leaving
  <2> HIDE DEF A, e
  <2>3. << e >> \in Seq(A) /\ << e >> # <<>>
    BY <2>1
  <2> QED
    BY <2>2, <2>3 DEF A
<1> DEFINE A == Only(TeardownOps, t)
<1>6. /\ Stops(obs) \in Seq(A) /\ Removal(obs) \in Seq(A) /\ VolumesGone(obs) \in Seq(A)
      /\ Leaving(obs) \in Seq(A)
  <2>1. /\ {"StopService"} \subseteq TeardownOps /\ {"RemoveUnits", "DaemonReload"} \subseteq TeardownOps
        /\ {"RemoveVolumeDir"} \subseteq TeardownOps /\ {"RemoveTenantIfEmpty"} \subseteq TeardownOps
    BY DEF TeardownOps
  <2> QED
    BY <1>2, <1>3, <1>4, <1>5, <2>1, OnlyMore
<1> HIDE DEF A
<1>7. Stops(obs) \o Removal(obs) \o VolumesGone(obs) \in Seq(A)
  BY <1>6
<1> DEFINE q == Stops(obs) \o Removal(obs) \o VolumesGone(obs)
<1> HIDE DEF q
<1>8. q \o Leaving(obs) \in Seq(A) /\ q \o Leaving(obs) # <<>>
  BY <1>5, <1>6, <1>7, ConcatEqualIffEmpty DEF q
<1> QED
  BY <1>2, <1>3, <1>4, <1>5, <1>8, TeardownParts DEF A, q

LEMMA InPlaceIsProject ==
    ASSUME NEW d \in OwnSpecs, NEW obs \in Observed, obs.tenant = d.tenant
    PROVE  InPlace(d, obs) <=> obs = Project(d)
<1> DEFINE Units == [s \in d.services |-> ObservedUnit(d.gen, ~d.suspended)]
           Builds == [s \in d.builds |-> d.gen]
           Unit == [hash : Nat \union {None}, active : BOOLEAN]
<1>1. /\ d \in Specs /\ d # None /\ d.gen \in Nat /\ d.suspended \in BOOLEAN
      /\ d.services \in SUBSET Services /\ d.builds \in SUBSET Services
  BY OwnSpecFacts DEF Specs
<1>2. Project(d) = [tenant |-> d.tenant, present |-> TRUE, units |-> Units, builds |-> Builds,
                    dirs |-> d.volumes]
  BY <1>1 DEF Project
<1>3. /\ DOMAIN obs.units \in SUBSET Services /\ obs.units \in [DOMAIN obs.units -> Unit]
      /\ DOMAIN obs.builds \in SUBSET Services
      /\ obs.builds \in [DOMAIN obs.builds -> Nat \union {None}]
  BY MapFacts DEF Observed
<1>4. obs = Project(d) <=> /\ obs.present /\ obs.dirs = d.volumes
                           /\ obs.units = Units /\ obs.builds = Builds
  BY <1>2 DEF Observed
<1>5. obs.units = Units <=>
        /\ DOMAIN obs.units = d.services
        /\ \A s \in d.services : obs.units[s].hash = d.gen /\ (obs.units[s].active <=> ~d.suspended)
  <2>1. ASSUME obs.units = Units
        PROVE  /\ DOMAIN obs.units = d.services
               /\ \A s \in d.services : obs.units[s].hash = d.gen
                                        /\ (obs.units[s].active <=> ~d.suspended)
    <3>1. DOMAIN obs.units = d.services
      BY <2>1
    <3>2. ASSUME NEW s \in d.services
          PROVE  obs.units[s].hash = d.gen /\ obs.units[s].active = ~d.suspended
      <4>1. obs.units[s] = [hash |-> d.gen, active |-> ~d.suspended]
        BY <2>1 DEF ObservedUnit
      <4> QED
        BY <4>1
    <3> QED
      BY <3>1, <3>2
  <2>2. ASSUME DOMAIN obs.units = d.services,
               \A s \in d.services : obs.units[s].hash = d.gen
                                     /\ (obs.units[s].active <=> ~d.suspended)
        PROVE  obs.units = Units
    <3>1. ASSUME NEW s \in d.services PROVE obs.units[s] = ObservedUnit(d.gen, ~d.suspended)
      <4>1. obs.units[s] \in Unit
        BY <1>3, <2>2
      <4>2. obs.units[s].active = ~d.suspended
        BY <1>1, <2>2, <4>1
      <4> QED
        BY <2>2, <4>1, <4>2 DEF ObservedUnit
    <3> QED
      BY <1>3, <2>2, <3>1
  <2> QED
    BY <2>1, <2>2
<1>6. obs.builds = Builds <=>
        /\ DOMAIN obs.builds = d.builds /\ \A s \in d.builds : obs.builds[s] = d.gen
  BY <1>3
<1>7. ~Rewrites(d, obs) <=>
        /\ DOMAIN obs.units = d.services /\ \A s \in d.services : obs.units[s].hash = d.gen
        /\ DOMAIN obs.builds = d.builds /\ \A s \in d.builds : obs.builds[s] = d.gen
  <2>1. Stale(d, obs) = {} /\ Extra(d, obs) = {} <=>
          /\ DOMAIN obs.units = d.services /\ \A s \in d.services : obs.units[s].hash = d.gen
    BY DEF Stale, Extra
  <2>2. BuildStale(d, obs) = {} /\ ExtraBuilds(d, obs) = {} <=>
          /\ DOMAIN obs.builds = d.builds /\ \A s \in d.builds : obs.builds[s] = d.gen
    BY DEF BuildStale, ExtraBuilds
  <2> QED
    BY <2>1, <2>2 DEF Rewrites
<1>8. ~Rewrites(d, obs) =>
        /\ Extra(d, obs) = {}
        /\ \A s \in d.services :
             ServiceAction(d, obs, s) = <<>> <=> (obs.units[s].active <=> ~d.suspended)
  <2> SUFFICES ASSUME ~Rewrites(d, obs)
               PROVE  /\ Extra(d, obs) = {}
                      /\ \A s \in d.services :
                           ServiceAction(d, obs, s) = <<>> <=> (obs.units[s].active <=> ~d.suspended)
    OBVIOUS
  <2>1. Extra(d, obs) = {} /\ Stale(d, obs) = {}
    BY DEF Rewrites
  <2>2. \A s \in d.services : s \in ActiveOf(obs) <=> obs.units[s].active
    BY <1>7 DEF ActiveOf
  <2>3. \A s \in d.services : ServiceAction(d, obs, s) = <<>> <=>
                                /\ s \in ActiveOf(obs) <=> ~d.suspended
                                /\ s \in ActiveOf(obs) => s \notin Stale(d, obs)
    BY <1>1, ServiceActionIs
  <2> QED
    BY <2>1, <2>2, <2>3
<1> HIDE DEF Units, Builds
<1> QED
  BY <1>4, <1>5, <1>6, <1>7, <1>8 DEF InPlace

LEMMA NothingIs ==
    ASSUME NEW t \in Tenants
    PROVE  /\ NothingObserved(t) \in Observed /\ NothingObserved(t).tenant = t
           /\ ~NothingObserved(t).present /\ NothingObserved(t).dirs = {}
           /\ DOMAIN NothingObserved(t).units = {}
<1>1. \A V : <<>> \in [{} -> V] /\ {} \in SUBSET Services
  OBVIOUS
<1>2. \A V : <<>> \in PartialMaps(V)
  BY <1>1 DEF PartialMaps
<1> QED
  BY <1>2 DEF NothingObserved, Observed

Sync == Action("SyncCaddy", None, None)

\* What plan() puts together, case by case.
LEMMA PlanCases ==
    ASSUME NEW d \in OwnSpecs \cup {None}, NEW obs \in Observed \cup {None}
    PROVE  /\ d = None /\ obs = None => Plan(d, obs) = <<>>
           /\ d = None /\ obs # None => Plan(d, obs) = Append(PlanTeardown(obs), Sync)
           /\ d # None /\ obs = None =>
                Plan(d, obs) = Append(PlanConverge(d, NothingObserved(d.tenant)), Sync)
           /\ d # None /\ obs # None /\ obs.tenant # d.tenant =>
                Plan(d, obs) = Append(PlanTeardown(obs)
                                      \o PlanConverge(d, NothingObserved(d.tenant)), Sync)
           /\ d # None /\ obs # None /\ obs.tenant = d.tenant =>
                Plan(d, obs) = IF PlanConverge(d, obs) = <<>> THEN <<>>
                               ELSE Append(PlanConverge(d, obs), Sync)
<1>1. CASE d = None /\ obs = None
  <2>1. <<>> \o <<>> = <<>>
    OBVIOUS
  <2> QED
    BY <1>1, <2>1 DEF Plan, If
<1>2. CASE d = None /\ obs # None
  <2>1. PlanTeardown(obs) \in Seq(Only(TeardownOps, obs.tenant)) /\ PlanTeardown(obs) # <<>>
    BY <1>2, TeardownIs
  <2>2. PlanTeardown(obs) \o <<>> = PlanTeardown(obs)
    BY <2>1, ConcatEmptySeq
  <2> QED
    BY <1>2, <2>1, <2>2 DEF Plan, If, Sync
<1>3. CASE d # None
  <2> DEFINE nothing == NothingObserved(d.tenant)
             A == Only(ConvergeOps, d.tenant)
  <2>1. d \in OwnSpecs /\ nothing \in Observed /\ ~nothing.present
    BY <1>3, NothingIs, OwnSpecFacts DEF Specs
  <2>2. PlanConverge(d, nothing) \in Seq(A) /\ PlanConverge(d, nothing) # <<>>
    BY <2>1, ConvergeIs DEF InPlace
  <2> HIDE DEF A
  <2>3. CASE obs = None
    <3>1. <<>> \o PlanConverge(d, nothing) = PlanConverge(d, nothing)
      BY <2>2, ConcatEmptySeq
    <3> QED
      BY <1>3, <2>2, <2>3, <3>1 DEF Plan, If, Sync
  <2>4. CASE obs # None /\ obs.tenant # d.tenant
    <3> DEFINE B == Only(TeardownOps, obs.tenant) \cup A
               p == PlanTeardown(obs)
               q == PlanConverge(d, nothing)
    <3>1. p \in Seq(Only(TeardownOps, obs.tenant)) /\ p # <<>>
      BY <2>4, TeardownIs
    <3>2. p \in Seq(B) /\ q \in Seq(B)
      BY <2>2, <3>1, SeqMonotonic
    <3> HIDE DEF B, p, q
    <3>3. p \o q # <<>>
      BY <3>1, <3>2, ConcatEqualIffEmpty
    <3> QED
      BY <1>3, <2>4, <3>3 DEF Plan, If, Sync, p, q
  <2>5. CASE obs # None /\ obs.tenant = d.tenant
    <3>1. obs \in Observed /\ PlanConverge(d, obs) \in Seq(A)
      BY <2>1, <2>5, ConvergeIs DEF A
    <3>2. <<>> \o PlanConverge(d, obs) = PlanConverge(d, obs)
      BY <3>1, ConcatEmptySeq
    <3> QED
      BY <1>3, <2>5, <3>2 DEF Plan, If, Sync
  <2> QED
    BY <2>3, <2>4, <2>5
<1> QED
  BY <1>1, <1>2, <1>3

\* The plan is a list of actions, and without a spec none writes units.
LEMMA PlanTyped ==
    ASSUME NEW d \in OwnSpecs \cup {None}, NEW obs \in Observed \cup {None}
    PROVE  /\ Plan(d, obs) \in Seq(Actions)
           /\ d = None => \A i \in 1 .. Len(Plan(d, obs)) : Plan(d, obs)[i].op # "WriteUnits"
<1> DEFINE W == {a \in Actions : d = None => a.op # "WriteUnits"}
<1>1. Sync \in W
  BY DEF Sync, Action, Actions
<1>2. obs # None => Only(TeardownOps, obs.tenant) \subseteq W
  BY DEF Only, Actions, TeardownOps
<1>3. d # None => Only(ConvergeOps, d.tenant) \subseteq W
  BY DEF Only, Actions
<1>4. obs # None => PlanTeardown(obs) \in Seq(W)
  BY <1>2, TeardownIs, SeqMonotonic
<1>5. d # None => /\ PlanConverge(d, NothingObserved(d.tenant)) \in Seq(W)
                  /\ obs # None => PlanConverge(d, obs) \in Seq(W)
  <2> SUFFICES ASSUME d # None
               PROVE  \A o \in Observed : PlanConverge(d, o) \in Seq(W)
    BY NothingIs, OwnSpecFacts DEF Specs
  <2> TAKE o \in Observed
  <2>1. d \in OwnSpecs /\ PlanConverge(d, o) \in Seq(Only(ConvergeOps, d.tenant))
    BY ConvergeIs
  <2> QED
    BY <1>3, <2>1, SeqMonotonic
<1> HIDE DEF W
<1>6. d # None /\ obs # None =>
        PlanTeardown(obs) \o PlanConverge(d, NothingObserved(d.tenant)) \in Seq(W)
  BY <1>4, <1>5
<1>7. Plan(d, obs) \in Seq(W)
  <2>1. \A p \in Seq(W) : Append(p, Sync) \in Seq(W)
    BY <1>1
  <2>2. <<>> \in Seq(W)
    OBVIOUS
  <2>3. CASE d = None
    BY <1>4, <2>1, <2>2, <2>3, PlanCases
  <2>4. CASE d # None
    BY <1>5, <1>6, <2>1, <2>2, <2>4, PlanCases
  <2> QED
    BY <2>3, <2>4
<1>8. W \subseteq Actions
  BY DEF W
<1>9. \A i \in 1 .. Len(Plan(d, obs)) : Plan(d, obs)[i] \in W
  BY <1>7
<1> QED
  BY <1>7, <1>8, <1>9, SeqMonotonic DEF W

LEMMA PlanEmpty ==
    ASSUME NEW d \in OwnSpecs \cup {None}, NEW obs \in Observed \cup {None}
    PROVE  Plan(d, obs) = <<>> <=> obs = Project(d)
<1>1. \A p \in Seq(Actions) : Append(p, Sync) # <<>>
  <2>1. Sync \in Actions
    BY DEF Sync, Actions
  <2> QED
    BY <2>1, AppendProperties
<1>2. CASE d = None
  <2>1. obs # None => PlanTeardown(obs) \in Seq(Actions)
    <3>1. obs # None => Only(TeardownOps, obs.tenant) \subseteq Actions
      BY DEF Only, Actions
    <3> QED
      BY <3>1, TeardownIs, SeqMonotonic
  <2> QED
    BY <1>1, <1>2, <2>1, PlanCases DEF Project
<1>3. CASE d # None
  <2> DEFINE nothing == NothingObserved(d.tenant)
  <2>1. d \in OwnSpecs /\ nothing \in Observed
    BY <1>3, NothingIs, OwnSpecFacts DEF Specs
  <2>2. \A o \in Observed : PlanConverge(d, o) \in Seq(Actions)
    <3>1. Only(ConvergeOps, d.tenant) \subseteq Actions
      BY DEF Only, Actions
    <3> QED
      BY <2>1, <3>1, ConvergeIs, SeqMonotonic
  <2>3. Project(d) # None /\ Project(d).tenant = d.tenant
    <3>1. d.services \in SUBSET Services /\ d.builds \in SUBSET Services /\ d \in Specs
      BY <2>1, OwnSpecFacts
    <3>2. [s \in d.services |-> ObservedUnit(d.gen, ~d.suspended)]
             \in PartialMaps([hash : Nat \union {None}, active : BOOLEAN])
      <4>1. ObservedUnit(d.gen, ~d.suspended) \in [hash : Nat \union {None}, active : BOOLEAN]
        BY <3>1 DEF ObservedUnit, Specs
      <4> QED
        BY <3>1, <4>1, MapOn
    <3>3. [s \in d.builds |-> d.gen] \in PartialMaps(Nat \union {None})
      BY <3>1, MapOn DEF Specs
    <3>4. Project(d) \in Observed /\ Project(d).tenant = d.tenant
      BY <1>3, <3>1, <3>2, <3>3 DEF Project, Observed, Specs
    <3> QED
      BY <3>4, PlannerNoneAssumption
  <2> HIDE DEF nothing
  <2>4. CASE obs = None
    <3>1. Plan(d, obs) = Append(PlanConverge(d, nothing), Sync)
      BY <1>3, <2>4, PlanCases DEF nothing
    <3> QED
      BY <1>1, <2>1, <2>2, <2>3, <2>4, <3>1
  <2>5. CASE obs # None /\ obs.tenant # d.tenant
    <3>1. PlanTeardown(obs) \in Seq(Actions)
      <4>1. Only(TeardownOps, obs.tenant) \subseteq Actions
        BY DEF Only, Actions
      <4> QED
        BY <2>5, <4>1, TeardownIs, SeqMonotonic
    <3>2. PlanTeardown(obs) \o PlanConverge(d, nothing) \in Seq(Actions)
      BY <2>1, <2>2, <3>1
    <3>3. Plan(d, obs) = Append(PlanTeardown(obs) \o PlanConverge(d, nothing), Sync)
      BY <1>3, <2>5, PlanCases DEF nothing
    <3> QED
      BY <1>1, <2>3, <2>5, <3>2, <3>3
  <2>6. CASE obs # None /\ obs.tenant = d.tenant
    <3>1. obs \in Observed /\ (InPlace(d, obs) <=> obs = Project(d))
      BY <2>1, <2>6, InPlaceIsProject
    <3>2. PlanConverge(d, obs) = <<>> <=> InPlace(d, obs)
      BY <2>1, <3>1, ConvergeIs
    <3>3. Plan(d, obs) = IF PlanConverge(d, obs) = <<>> THEN <<>>
                         ELSE Append(PlanConverge(d, obs), Sync)
      BY <1>3, <2>6, PlanCases
    <3> QED
      BY <1>1, <2>2, <3>1, <3>2, <3>3
  <2> QED
    BY <2>4, <2>5, <2>6
<1> QED
  BY <1>2, <1>3

-----------------------------------------------------------------------------
(* Types.                                                                  *)

RowTyped == row \in [status : Statuses, observed : 0 .. MaxGen, spec : OwnSpecs] \cup {None}

CycleTyped ==
    /\ spec \in OwnSpecs \cup {None} /\ plan \in Seq(Actions)
    /\ built \in {<<>>} \cup {<< g >> : g \in Hash}
    /\ busy \in BOOLEAN /\ (~busy => spec = None /\ plan = <<>> /\ built = <<>>)
    /\ spec = None => \A i \in 1 .. Len(plan) : plan[i].op # "WriteUnits"

ConvTyped ==
    /\ RowTyped /\ CycleTyped
    /\ nextGen \in 0 .. MaxGen /\ host \in [Tenants -> HostType] /\ ingress \in Hash
    /\ requested \in BOOLEAN /\ faults \in 0 .. MaxFaults

LEMMA ConvTypedImplies == ConvTyped => TypeOK
<1> SUFFICES ASSUME ConvTyped PROVE TypeOK
  OBVIOUS
<1>1. row # None =>
        /\ row.status \in Statuses /\ row.observed \in 0 .. MaxGen
        /\ \E c \in Shapes, b \in BOOLEAN, g \in 1 .. MaxGen : row.spec = SpecOf(Owner, c, b, g)
  BY DEF ConvTyped, RowTyped, OwnSpecs
<1> QED
  BY <1>1 DEF ConvTyped, CycleTyped, TypeOK

LEMMA DesiredTyped ==
    ASSUME RowTyped
    PROVE  Desired \in OwnSpecs \cup {None}
  BY DEF RowTyped, Desired

LEMMA ObservedUnderTyped ==
    ASSUME NEW h \in HostType, NEW t \in Tenants, NEW seen \in SUBSET Services
    PROVE  /\ ObservedUnder(h, t, seen) \in Observed
           /\ ObservedUnder(h, t, seen).tenant = t
           /\ ObservedUnder(h, t, seen).present = h.user
           /\ DOMAIN ObservedUnder(h, t, seen).units = (DOMAIN h.files) \cup seen
           /\ ActiveOf(ObservedUnder(h, t, seen)) = seen
           /\ ObservedUnder(h, t, seen).dirs = h.dirs
           /\ ObservedUnder(h, t, seen).builds = h.builds
           /\ \A s \in (DOMAIN h.files) \cup seen :
                ObservedUnder(h, t, seen).units[s].hash =
                  IF s \in DOMAIN h.files THEN h.files[s] ELSE None
<1> DEFINE D == (DOMAIN h.files) \cup seen
           Unit == [hash : Nat \union {None}, active : BOOLEAN]
           units == [s \in D |-> ObservedUnit(IF s \in DOMAIN h.files THEN h.files[s] ELSE None,
                                              s \in seen)]
<1>1. /\ DOMAIN h.files \in SUBSET Services /\ h.files \in [DOMAIN h.files -> Hash]
      /\ DOMAIN h.builds \in SUBSET Services /\ h.builds \in [DOMAIN h.builds -> Hash]
  BY MapFacts DEF HostType, PartialMap
<1>2. Hash \subseteq Nat \cup {None}
  BY ConvergenceAssumption DEF Hash
<1>3. \A s \in D : units[s] \in Unit /\ (units[s].active <=> s \in seen)
                   /\ units[s].hash = IF s \in DOMAIN h.files THEN h.files[s] ELSE None
  <2> TAKE s \in D
  <2> DEFINE v == IF s \in DOMAIN h.files THEN h.files[s] ELSE None
             a == s \in seen
  <2>1. v \in Nat \cup {None}
    BY <1>1, <1>2
  <2>2. units[s] = [hash |-> v, active |-> a] /\ a \in BOOLEAN
    BY DEF ObservedUnit
  <2> HIDE DEF v, a, units
  <2>3. units[s] \in Unit /\ units[s].hash = v /\ units[s].active = a
    BY <2>1, <2>2
  <2> QED
    BY <2>3 DEF v, a
<1>4. D \in SUBSET Services /\ units \in [D -> Unit]
  BY <1>1, <1>3
<1>5. units \in PartialMaps(Unit)
  <2> HIDE DEF D, units, Unit
  <2> QED
    BY <1>4, MapOn
<1>6. h.builds \in PartialMaps(Nat \union {None})
  <2>1. h.builds \in [DOMAIN h.builds -> Nat \union {None}]
    BY <1>1, <1>2
  <2> QED
    BY <1>1, <2>1, MapOn
<1>7. h.user \in BOOLEAN /\ h.dirs \in SUBSET Volumes
  BY DEF HostType
<1>8. ObservedUnder(h, t, seen) = [tenant |-> t, present |-> h.user, units |-> units,
                                   builds |-> h.builds, dirs |-> h.dirs]
  BY DEF ObservedUnder
<1>9. DOMAIN units = D
  OBVIOUS
<1> HIDE DEF units, Unit
<1>10. ObservedUnder(h, t, seen) \in Observed
  BY <1>5, <1>6, <1>7, <1>8 DEF Observed, Unit
<1>11. ActiveOf(ObservedUnder(h, t, seen)) = seen
  BY <1>3, <1>8, <1>9 DEF ActiveOf
<1> QED
  BY <1>3, <1>8, <1>9, <1>10, <1>11

LEMMA ObservationsTyped ==
    ASSUME NEW hs \in [Tenants -> HostType]
    PROVE  Observations(hs) \cup FaultyObservations(hs) \subseteq Observed \cup {None}
<1>1. ASSUME NEW t \in Tenants
      PROVE  /\ ObservedUnder(hs[t], t, DOMAIN hs[t].run) \in Observed
             /\ ObservedUnder(hs[t], t, {}) \in Observed
  <2>1. DOMAIN hs[t].run \in SUBSET Services /\ {} \in SUBSET Services
    BY MapFacts DEF HostType, PartialMap
  <2> QED
    BY <2>1, ObservedUnderTyped
<1>2. Visible(hs) \subseteq Tenants
  BY DEF Visible
<1> QED
  BY <1>1, <1>2 DEF Observations, FaultyObservations

\* Idempotency of the planner on every observation the host can give: nothing
\* is planned exactly when the observation is the desired one.
LEMMA TypedEmptyPlan == ConvTyped => EmptyPlanIffConverged
<1> SUFFICES ASSUME ConvTyped, NEW obs \in Observations(host)
             PROVE  (Plan(Desired, obs) = <<>>) <=> (obs = Project(Desired))
  BY DEF EmptyPlanIffConverged
<1>1. Desired \in OwnSpecs \cup {None} /\ obs \in Observed \cup {None}
  BY DesiredTyped, ObservationsTyped DEF ConvTyped
<1> QED
  BY <1>1, PlanEmpty

LEMMA SpecOfOwn ==
    ASSUME NEW c \in Shapes, NEW b \in BOOLEAN, NEW g \in 1 .. MaxGen
    PROVE  SpecOf(Owner, c, b, g) \in OwnSpecs
  BY DEF OwnSpecs

LEMMA OwnSpecEdits ==
    ASSUME NEW d \in OwnSpecs, NEW g \in 1 .. MaxGen
    PROVE  [d EXCEPT !.gen = g] \in OwnSpecs /\ [d EXCEPT !.suspended = ~@] \in OwnSpecs
<1>1. PICK c \in Shapes, b \in BOOLEAN, n \in 1 .. MaxGen : d = SpecOf(Owner, c, b, n)
  BY DEF OwnSpecs
<1>2. PICK nb \in BOOLEAN : nb = ~b
  OBVIOUS
<1>3. /\ [d EXCEPT !.gen = g] = SpecOf(Owner, c, b, g)
      /\ [d EXCEPT !.suspended = ~@] = SpecOf(Owner, c, nb, n)
  BY <1>1, <1>2 DEF SpecOf
<1>4. SpecOf(Owner, c, b, g) \in OwnSpecs /\ SpecOf(Owner, c, nb, n) \in OwnSpecs
  BY SpecOfOwn
<1> QED
  BY <1>3, <1>4

LEMMA WriteTyped ==
    ASSUME ConvTyped, ApiWrite
    PROVE  ConvTyped'
<1> DEFINE Row == [status : Statuses, observed : 0 .. MaxGen, spec : OwnSpecs]
<1>1. /\ nextGen < MaxGen /\ nextGen' = nextGen + 1
      /\ UNCHANGED <<host, ingress, spec, plan, built, busy, faults>>
      /\ requested' \in {TRUE, requested}
  BY DEF ApiWrite, CreateStack, EditStack, DeleteStack, ToggleSuspension, Write, cycleVars
<1>2. nextGen + 1 \in 1 .. MaxGen /\ nextGen' \in 0 .. MaxGen
  BY <1>1, ConvergenceAssumption DEF ConvTyped
<1>3. row # None => row \in Row /\ row.spec \in OwnSpecs /\ row.spec.suspended \in BOOLEAN
  BY OwnSpecFacts DEF ConvTyped, RowTyped
<1>4. "converging" \in Statuses /\ "deleting" \in Statuses /\ 0 \in 0 .. MaxGen
  BY ConvergenceAssumption DEF Statuses, ActiveStatuses
<1>5. CASE \E shape \in Shapes : CreateStack(shape)
  <2>1. PICK shape \in Shapes : CreateStack(shape)
    BY <1>5
  <2>2. SpecOf(Owner, shape, FALSE, nextGen + 1) \in OwnSpecs
    BY <1>2, SpecOfOwn
  <2>3. row' = [status |-> "converging", observed |-> 0,
                spec |-> SpecOf(Owner, shape, FALSE, nextGen + 1)]
    BY <2>1 DEF CreateStack, Write
  <2>4. row' \in Row
    BY <1>4, <2>2, <2>3
  <2> QED
    BY <1>1, <1>2, <2>4 DEF ConvTyped, RowTyped, CycleTyped
<1>6. CASE \E shape \in Shapes : EditStack(shape)
  <2>1. PICK shape \in Shapes : EditStack(shape)
    BY <1>6
  <2>2. row # None /\ row' = [row EXCEPT !.spec = SpecOf(Owner, shape, @.suspended, nextGen + 1)]
    BY <2>1 DEF EditStack, Write
  <2>3. SpecOf(Owner, shape, row.spec.suspended, nextGen + 1) \in OwnSpecs
    BY <1>2, <1>3, <2>2, SpecOfOwn
  <2>4. row' \in Row
    BY <1>3, <2>2, <2>3
  <2> QED
    BY <1>1, <1>2, <2>4 DEF ConvTyped, RowTyped, CycleTyped
<1>7. CASE DeleteStack
  <2>1. row # None /\ row' = [row EXCEPT !.status = "deleting", !.spec.gen = nextGen + 1]
    BY <1>7 DEF DeleteStack, Write
  <2>2. [row.spec EXCEPT !.gen = nextGen + 1] \in OwnSpecs
    BY <1>2, <1>3, <2>1, OwnSpecEdits
  <2>3. row' = [row EXCEPT !.status = "deleting", !.spec = [row.spec EXCEPT !.gen = nextGen + 1]]
    BY <1>3, <2>1
  <2>4. row' \in Row
    BY <1>3, <1>4, <2>1, <2>2, <2>3
  <2> QED
    BY <1>1, <1>2, <2>4 DEF ConvTyped, RowTyped, CycleTyped
<1>8. CASE ToggleSuspension
  <2>1. row # None /\ row' = [row EXCEPT !.spec.suspended = ~@]
    BY <1>8 DEF ToggleSuspension
  <2>2. [row.spec EXCEPT !.suspended = ~@] \in OwnSpecs
    BY <1>2, <1>3, <2>1, OwnSpecEdits
  <2>3. row' = [row EXCEPT !.spec = [row.spec EXCEPT !.suspended = ~@]]
    BY <1>3, <2>1
  <2>4. row' \in Row
    BY <1>3, <2>1, <2>2, <2>3
  <2> QED
    BY <1>1, <1>2, <2>4 DEF ConvTyped, RowTyped, CycleTyped
<1> QED
  BY <1>5, <1>6, <1>7, <1>8 DEF ApiWrite

LEMMA StatusHookTyped ==
    ASSUME RowTyped, NEW status \in Statuses \cup {"absent"}, StatusHook(status)
    PROVE  RowTyped'
<1>1. CASE row = None \/ status = "absent"
  BY <1>1 DEF StatusHook, RowTyped
<1>2. CASE row # None /\ status # "absent"
  <2> DEFINE Row == [status : Statuses, observed : 0 .. MaxGen, spec : OwnSpecs]
             seen == IF status \in {"ready", "suspended"} THEN row.spec.gen ELSE row.observed
  <2>1. row \in Row
    BY <1>2 DEF RowTyped
  <2>2. row.spec.gen \in 0 .. MaxGen
    BY <2>1, OwnSpecFacts, ConvergenceAssumption
  <2>3. seen \in 0 .. MaxGen
    BY <2>1, <2>2
  <2>4. row' = [row EXCEPT !.status = status, !.observed = seen]
    BY <1>2, <2>1 DEF StatusHook
  <2> HIDE DEF seen
  <2>5. row' \in Row
    BY <1>2, <2>1, <2>3, <2>4
  <2> QED
    BY <2>5 DEF RowTyped
<1> QED
  BY <1>1, <1>2

LEMMA OutcomesTyped ==
    ASSUME NEW d
    PROVE  Outcome(d) \in Statuses \cup {"absent"} /\ FailedOutcome(d) \in Statuses \cup {"absent"}
  BY DEF Outcome, FailedOutcome, Statuses, ActiveStatuses

LEMMA EmptyPlanTyped ==
    ASSUME NEW q, q = <<>>
    PROVE  q \in Seq(Actions) /\ Len(q) = 0 /\ \A i \in 1 .. Len(q) : q[i].op # "WriteUnits"
<1>1. Len(<<>>) = 0 /\ <<>> \in Seq(Actions)
  OBVIOUS
<1> QED
  BY <1>1

LEMMA EndCycleTyped ==
    ASSUME EndCycle
    PROVE  CycleTyped' /\ UNCHANGED requested
<1>1. busy' = FALSE /\ plan' = <<>> /\ spec' = None /\ built' = <<>> /\ UNCHANGED requested
  BY DEF EndCycle
<1>2. plan' \in Seq(Actions) /\ \A i \in 1 .. Len(plan') : plan'[i].op # "WriteUnits"
  BY <1>1, EmptyPlanTyped
<1>3. built' \in {<<>>} \cup {<< g >> : g \in Hash}
  BY <1>1
<1> QED
  BY <1>1, <1>2, <1>3 DEF CycleTyped

LEMMA CycleStepTyped ==
    ASSUME ConvTyped, NEW obs \in Observed \cup {None}, Cycle(obs), faults' \in 0 .. MaxFaults
    PROVE  ConvTyped'
<1> DEFINE p == Plan(Desired, obs)
<1>1. Desired \in OwnSpecs \cup {None}
  BY DesiredTyped DEF ConvTyped
<1>2. /\ p \in Seq(Actions)
      /\ Desired = None => \A i \in 1 .. Len(p) : p[i].op # "WriteUnits"
  BY <1>1, PlanTyped
<1>3. /\ ~busy /\ UNCHANGED <<nextGen, host, ingress>>
      /\ \/ StatusHook(Outcome(Desired)) /\ UNCHANGED cycleVars
         \/ UNCHANGED <<row, cycleVars>>
         \/ busy' = TRUE /\ plan' = p /\ spec' = Desired /\ UNCHANGED <<row, built>>
  BY DEF Cycle
<1>4. requested' \in BOOLEAN
  BY DEF Cycle, Scheduled, ConvTyped
<1> HIDE DEF p
<1>5. CASE StatusHook(Outcome(Desired)) /\ UNCHANGED cycleVars
  <2>1. RowTyped'
    BY <1>5, StatusHookTyped, OutcomesTyped DEF ConvTyped
  <2> QED
    BY <1>3, <1>4, <1>5, <2>1 DEF ConvTyped, CycleTyped, cycleVars
<1>6. CASE UNCHANGED <<row, cycleVars>>
  BY <1>3, <1>4, <1>6 DEF ConvTyped, RowTyped, CycleTyped, cycleVars
<1>7. CASE busy' = TRUE /\ plan' = p /\ spec' = Desired /\ UNCHANGED <<row, built>>
  BY <1>1, <1>2, <1>3, <1>4, <1>7 DEF ConvTyped, RowTyped, CycleTyped
<1> QED
  BY <1>3, <1>5, <1>6, <1>7

LEMMA PlanTail ==
    ASSUME CycleTyped, plan # <<>>
    PROVE  /\ Head(plan) \in Actions /\ Head(plan) = plan[1] /\ 1 \in 1 .. Len(plan)
           /\ Tail(plan) \in Seq(Actions) /\ Len(Tail(plan)) = Len(plan) - 1
           /\ \A i \in 1 .. Len(Tail(plan)) : Tail(plan)[i] = plan[i + 1] /\ i + 1 \in 1 .. Len(plan)
<1>1. plan \in Seq(Actions)
  BY DEF CycleTyped
<1>2. Len(plan) \in Nat \ {0} /\ Head(plan) = plan[1]
  BY <1>1, EmptySeq
<1> QED
  BY <1>1, <1>2, HeadTailProperties

LEMMA ExecuteTyped ==
    ASSUME ConvTyped, ExecuteAction
    PROVE  ConvTyped'
<1> DEFINE a == Head(plan)
<1>1. /\ busy /\ plan # <<>> /\ plan' = Tail(plan)
      /\ UNCHANGED <<row, nextGen, spec, busy, requested, faults>>
  BY DEF ExecuteAction, rowVars
<1>2. /\ a \in Actions /\ a = plan[1] /\ 1 \in 1 .. Len(plan)
      /\ plan' \in Seq(Actions)
      /\ \A i \in 1 .. Len(plan') : plan'[i] = plan[i + 1] /\ i + 1 \in 1 .. Len(plan)
  BY <1>1, PlanTail DEF ConvTyped
<1>3. built' \in {<<>>} \cup {<< g >> : g \in Hash}
  BY DEF ExecuteAction, ConvTyped, CycleTyped
<1>4. CycleTyped'
  BY <1>1, <1>2, <1>3 DEF ConvTyped, CycleTyped
<1>5. ingress' \in Hash /\ host' \in [Tenants -> HostType]
  <2>1. CASE a.op = "SyncCaddy"
    <3>1. built # <<>> /\ ingress' = Head(built) /\ UNCHANGED host
      BY <2>1 DEF ExecuteAction
    <3>2. PICK g \in Hash : built = << g >>
      BY <3>1 DEF ConvTyped, CycleTyped
    <3>3. Head(built) = g
      BY <3>2
    <3> QED
      BY <3>1, <3>3 DEF ConvTyped
  <2>2. CASE a.op # "SyncCaddy"
    <3>1. /\ Executable(host[a.tenant], a) /\ UNCHANGED ingress
          /\ host' = [host EXCEPT ![a.tenant] = Effect(host[a.tenant], a, spec)]
      BY <2>2 DEF ExecuteAction
    <3>2. a \in HostActions /\ a.tenant \in Tenants
      BY <1>2, <2>2
         DEF Actions, Action, HostActions, ServiceActions, VolumeActions, TenantActions
    <3>3. a.op = "WriteUnits" => spec # None
      BY <1>2 DEF ConvTyped, CycleTyped
    <3>4. Effect(host[a.tenant], a, spec) \in HostType
      BY <3>1, <3>2, <3>3, EffectTyped DEF ConvTyped, CycleTyped
    <3> QED
      BY <3>1, <3>2, <3>4 DEF ConvTyped
  <2> QED
    BY <2>1, <2>2
<1> QED
  BY <1>1, <1>4, <1>5 DEF ConvTyped, RowTyped

LEMMA ReconcileTyped ==
    ASSUME ConvTyped, Reconcile
    PROVE  ConvTyped'
<1>1. CASE BeginCycle
  BY <1>1, CycleStepTyped, ObservationsTyped DEF BeginCycle, ConvTyped
<1>2. CASE BuildRoutes
  <2>1. Routes \in Hash
    BY DesiredTyped, OwnSpecFacts, ConvergenceAssumption DEF Routes, Hash, ConvTyped
  <2>2. built' \in {<< g >> : g \in Hash}
    BY <1>2, <2>1 DEF BuildRoutes
  <2> QED
    BY <1>2, <2>2 DEF BuildRoutes, rowVars, ConvTyped, RowTyped, CycleTyped
<1>3. CASE FinishCycle
  BY <1>3, StatusHookTyped, OutcomesTyped, EndCycleTyped DEF FinishCycle, ConvTyped
<1>4. CASE ActionImpossible
  BY <1>4, StatusHookTyped, OutcomesTyped, EndCycleTyped DEF ActionImpossible, AbandonPlan, ConvTyped
<1>5. CASE StepNameRaises
  BY <1>5, EndCycleTyped DEF StepNameRaises, rowVars, ConvTyped, RowTyped
<1> QED
  BY <1>1, <1>2, <1>3, <1>4, <1>5, ExecuteTyped DEF Reconcile

LEMMA DisturbanceTyped ==
    ASSUME ConvTyped, Disturbance
    PROVE  ConvTyped'
<1>1. Fault => faults' \in 0 .. MaxFaults
  BY ConvergenceAssumption DEF Fault, ConvTyped
<1>2. CASE BeginBlindCycle
  BY <1>1, <1>2, CycleStepTyped, ObservationsTyped DEF BeginBlindCycle, ConvTyped
<1>3. CASE ActionFails
  BY <1>1, <1>3, StatusHookTyped, OutcomesTyped, EndCycleTyped DEF ActionFails, AbandonPlan, ConvTyped
<1>4. CASE Restart
  BY <1>1, <1>4, EndCycleTyped DEF Restart, rowVars, ConvTyped, RowTyped
<1>5. CASE Drift
  <2>0. PICK t \in Tenants : \E s \in (DOMAIN host[t].files) \union (DOMAIN host[t].run) :
           \/ host' = [host EXCEPT ![t].run = Without(@, {s})]
           \/ s \in DOMAIN host[t].files /\ host' = [host EXCEPT ![t].files[s] = None]
           \/ host' = [host EXCEPT ![t].files = Without(@, {s})]
    BY <1>5 DEF Drift
  <2>1. PICK s \in (DOMAIN host[t].files) \union (DOMAIN host[t].run) :
           \/ host' = [host EXCEPT ![t].run = Without(@, {s})]
           \/ s \in DOMAIN host[t].files /\ host' = [host EXCEPT ![t].files[s] = None]
           \/ host' = [host EXCEPT ![t].files = Without(@, {s})]
    BY <2>0
  <2>2. host[t] \in HostType /\ host[t].files \in PartialMap /\ host[t].run \in PartialMap
    BY DEF ConvTyped, HostType
  <2>3. Without(host[t].run, {s}) \in PartialMap /\ Without(host[t].files, {s}) \in PartialMap
    BY <2>2, MapFacts DEF PartialMap
  <2>4. s \in DOMAIN host[t].files => [host[t].files EXCEPT ![s] = None] \in PartialMap
    <3>1. None \in Hash
      BY DEF Hash
    <3>2. /\ DOMAIN host[t].files \in SUBSET Services
          /\ host[t].files \in [DOMAIN host[t].files -> Hash]
      BY <2>2, MapFacts DEF PartialMap
    <3>3. [host[t].files EXCEPT ![s] = None] \in [DOMAIN host[t].files -> Hash]
      BY <3>1, <3>2
    <3> QED
      BY <3>2, <3>3, MapOn DEF PartialMap
  <2>5. \/ host' = [host EXCEPT ![t] = [host[t] EXCEPT !.run = Without(@, {s})]]
        \/ /\ s \in DOMAIN host[t].files
           /\ host' = [host EXCEPT ![t] = [host[t] EXCEPT !.files = [host[t].files EXCEPT ![s] = None]]]
        \/ host' = [host EXCEPT ![t] = [host[t] EXCEPT !.files = Without(@, {s})]]
    BY <2>1, <2>2 DEF ConvTyped
  <2>6. host' \in [Tenants -> HostType]
    <3>1. /\ [host[t] EXCEPT !.run = Without(@, {s})] \in HostType
          /\ [host[t] EXCEPT !.files = Without(@, {s})] \in HostType
          /\ s \in DOMAIN host[t].files =>
               [host[t] EXCEPT !.files = [host[t].files EXCEPT ![s] = None]] \in HostType
      BY <2>2, <2>3, <2>4 DEF HostType
    <3> QED
      BY <2>5, <3>1 DEF ConvTyped
  <2> QED
    BY <1>1, <1>5, <2>6 DEF Drift, rowVars, cycleVars, ConvTyped, RowTyped, CycleTyped
<1> QED
  BY <1>2, <1>3, <1>4, <1>5 DEF Disturbance

LEMMA InitTyped == Init => ConvTyped
<1> SUFFICES ASSUME Init PROVE ConvTyped
  OBVIOUS
<1>1. \A v \in Volumes : [EmptyHost EXCEPT !.user = TRUE, !.dirs = {v}] \in HostType
  BY NoMapTyped DEF HostType
<1>2. host \in [Tenants -> HostType]
  <2>1. PICK left \in {EmptyHost} \union {[EmptyHost EXCEPT !.user = TRUE, !.dirs = {v}] : v \in Volumes} :
           \E t \in Tenants : host = [u \in Tenants |-> IF u = t THEN left ELSE EmptyHost]
    BY DEF Init
  <2>2. left \in HostType
    BY <1>1, <2>1, NoMapTyped
  <2> QED
    BY <2>1, <2>2, NoMapTyped
<1>3. CycleTyped
  <2>1. plan \in Seq(Actions) /\ \A i \in 1 .. Len(plan) : plan[i].op # "WriteUnits"
    BY EmptyPlanTyped DEF Init
  <2> QED
    BY <2>1 DEF Init, CycleTyped
<1>4. 0 \in 0 .. MaxGen /\ 0 \in 0 .. MaxFaults
  BY ConvergenceAssumption
<1>5. RowTyped /\ ingress \in Hash
  BY DEF Init, RowTyped, Hash
<1> QED
  BY <1>2, <1>3, <1>4, <1>5 DEF Init, ConvTyped

LEMMA NextTyped == ConvTyped /\ [Next]_vars => ConvTyped'
<1>1. ASSUME ConvTyped, UNCHANGED vars PROVE ConvTyped'
  BY <1>1 DEF vars, ConvTyped, RowTyped, CycleTyped
<1> QED
  BY <1>1, WriteTyped, ReconcileTyped, DisturbanceTyped DEF Next

LEMMA AlwaysTyped == Spec => []ConvTyped
  BY InitTyped, NextTyped, PTL DEF Spec

\* Rows, hosts and plans keep their types whatever edits, failures, restarts
\* and drifts land between the actions of a plan, and an idle worker holds no
\* plan, no spec and no routes.
THEOREM ConvergenceTypes == Spec => []TypeOK
  BY AlwaysTyped, ConvTypedImplies, PTL

\* plan() is idempotent on every host the system can reach: it returns nothing
\* exactly for the observation that the desired spec projects to.
THEOREM PlannerIdempotent == Spec => []EmptyPlanIffConverged
  BY AlwaysTyped, TypedEmptyPlan, PTL


-----------------------------------------------------------------------------
(* The order of the plan: as long as nothing failed.                       *)

Removing == {"WriteUnits", "RemoveUnits"}
Adding == {"EnsureVolumeDir", "WriteUnits", "StartService", "RestartService", "ZeroDowntimeDeploy"}
Preparing == {"EnsureTenant", "EnsureVolumeDir", "StopService"}

\* Only the owner has more than volumes of an earlier stack, and as long as
\* another tenant still has such volumes the owner has nothing.
HostsTidy(hs) ==
    /\ \A t \in Tenants : hs[t].user \/ hs[t] = EmptyHost
    /\ \A t \in Tenants \ {Owner} :
         /\ DOMAIN hs[t].files = {} /\ DOMAIN hs[t].run = {} /\ DOMAIN hs[t].builds = {}
         /\ hs[t].dirs # {} => /\ ~HasArtifacts(hs[Owner])
                               /\ \A u \in Tenants \ {Owner, t} : hs[u].dirs = {}

OwnerAdds(p) == \A i \in 1 .. Len(p) : p[i].op \in Adding => p[i].tenant = Owner

\* What another tenant still has is removed before the owner gets anything.
LeftoverFirst(p, hs) ==
    \A t \in Tenants \ {Owner} : \A v \in hs[t].dirs : \A i \in 1 .. Len(p) :
        p[i].tenant = Owner => \E j \in 1 .. i - 1 : p[j] = Action("RemoveVolumeDir", t, v)

\* Before units are removed every service that loses its unit is stopped, and
\* nothing is started in between.
Removes(a) == a.op \in Removing /\ a.tenant = Owner
StopsFirst(p, hs, d) ==
    \A i \in 1 .. Len(p) : Removes(p[i]) =>
        /\ \A s \in (DOMAIN hs[Owner].files) \cap (DOMAIN hs[Owner].run) :
             \/ p[i].op = "WriteUnits" /\ s \in d.services
             \/ \E j \in 1 .. i - 1 : p[j] = Action("StopService", Owner, s)
        /\ \A j \in 1 .. i - 1 : p[j].tenant = Owner => p[j].op \in Preparing

Orderly == faults = 0 =>
    HostsTidy(host) /\ OwnerAdds(plan) /\ LeftoverFirst(plan, host) /\ StopsFirst(plan, host, spec)

LEMMA EffectIs ==
    ASSUME NEW h \in HostType, NEW a \in HostActions, NEW d \in OwnSpecs \cup {None},
           Executable(h, a), a.op = "WriteUnits" => d # None, h.user \/ h = EmptyHost
    PROVE  LET k == Effect(h, a, d) IN
           /\ k.user \/ k = EmptyHost
           /\ a.op \notin Adding =>
                /\ DOMAIN k.files \subseteq DOMAIN h.files /\ DOMAIN k.builds \subseteq DOMAIN h.builds
                /\ DOMAIN k.run \subseteq DOMAIN h.run /\ k.dirs \subseteq h.dirs
           /\ a.op \in Preparing => DOMAIN k.files = DOMAIN h.files /\ DOMAIN k.run \subseteq DOMAIN h.run
           /\ a.op = "StopService" => a.arg \notin DOMAIN k.run
           /\ a.op = "RemoveVolumeDir" => a.arg \notin k.dirs
           /\ a.op \notin Removing => DOMAIN h.files \subseteq DOMAIN k.files
           /\ a.op = "WriteUnits" => DOMAIN k.files = d.services
<1> DEFINE k == Effect(h, a, d)
<1>1. h \in [user : BOOLEAN, dirs : SUBSET Volumes, files : PartialMap, builds : PartialMap,
             loaded : PartialMap, run : PartialMap]
  BY DEF HostType
<1>2. CASE a.op = "StopService"
  <2>1. k = [h EXCEPT !.run = Without(h.run, {a.arg})] /\ h.user
    BY <1>1, <1>2 DEF Effect, Control, Executable
  <2>2. DOMAIN Without(h.run, {a.arg}) = (DOMAIN h.run) \ {a.arg}
    BY DEF Without
  <2>3. /\ k.run = Without(h.run, {a.arg}) /\ k.user = h.user /\ k.files = h.files
        /\ k.builds = h.builds /\ k.dirs = h.dirs
    BY <1>1, <2>1
  <2> QED
    BY <1>2, <2>1, <2>2, <2>3 DEF Removing, Adding, Preparing
<1>3. CASE a.op \in {"StartService", "RestartService", "ZeroDowntimeDeploy"}
  <2>1. h.user /\ k.user = h.user /\ k.files = h.files
    BY <1>1, <1>3 DEF Effect, Control, Executable
  <2> QED
    BY <1>3, <2>1 DEF Removing, Adding, Preparing
<1>4. CASE a.op = "EnsureTenant"
  <2>1. k = [h EXCEPT !.user = TRUE]
    BY <1>4 DEF Effect
  <2> QED
    BY <1>1, <1>4, <2>1 DEF Removing, Adding, Preparing
<1>5. CASE a.op \in {"EnsureVolumeDir", "RemoveVolumeDir"}
  <2>1. /\ h.user
        /\ k = [h EXCEPT !.dirs = IF a.op = "EnsureVolumeDir" THEN h.dirs \cup {a.arg} ELSE h.dirs \ {a.arg}]
    BY <1>1, <1>5 DEF Effect, Executable
  <2> QED
    BY <1>1, <1>5, <2>1 DEF Removing, Adding, Preparing
<1>6. CASE a.op = "WriteUnits"
  <2>1. /\ h.user
        /\ k = [h EXCEPT !.files = [x \in d.services |-> d.gen], !.builds = [x \in d.builds |-> d.gen]]
    BY <1>6 DEF Effect, Executable, Written
  <2> QED
    BY <1>1, <1>6, <2>1 DEF Removing, Adding, Preparing
<1>7. CASE a.op = "RemoveUnits"
  <2>1. h.user /\ k = [h EXCEPT !.files = NoMap, !.builds = NoMap, !.run = NoMap] /\ DOMAIN NoMap = {}
    BY <1>7, NoMapTyped DEF Effect, Executable
  <2> QED
    BY <1>1, <1>7, <2>1 DEF Removing, Adding, Preparing
<1>8. CASE a.op = "DaemonReload"
  <2>1. h.user /\ k = [h EXCEPT !.loaded = h.files]
    BY <1>8 DEF Effect, Executable
  <2> QED
    BY <1>1, <1>8, <2>1 DEF Removing, Adding, Preparing
<1>9. CASE a.op = "RemoveTenantIfEmpty"
  <2>1. \/ k = h
        \/ k = EmptyHost /\ DOMAIN h.files = {} /\ DOMAIN h.builds = {} /\ h.dirs = {}
    BY <1>9 DEF Effect, Collected
  <2>2. DOMAIN EmptyHost.files = {} /\ DOMAIN EmptyHost.builds = {} /\ DOMAIN EmptyHost.run = {}
        /\ EmptyHost.dirs = {}
    BY NoMapTyped DEF EmptyHost
  <2> QED
    BY <1>9, <2>1, <2>2 DEF Removing, Adding, Preparing
<1> QED
  BY <1>2, <1>3, <1>4, <1>5, <1>6, <1>7, <1>8, <1>9
     DEF HostActions, ServiceActions, VolumeActions, TenantActions, ServiceOps, VolumeOps, TenantOps


\* An action leaves the hosts tidy, and the rest of the plan in order.
LEMMA ActionOrderly ==
    ASSUME ConvTyped, faults = 0, Orderly, ExecuteAction
    PROVE  Orderly'
<1> DEFINE a == Head(plan)
           t == a.tenant
           h == host[t]
           k == Effect(h, a, spec)
<1>1. /\ plan # <<>> /\ plan' = Tail(plan) /\ spec' = spec
      /\ HostsTidy(host) /\ OwnerAdds(plan) /\ LeftoverFirst(plan, host)
      /\ StopsFirst(plan, host, spec)
  BY DEF ExecuteAction, Orderly
<1>2. /\ a \in Actions /\ a = plan[1] /\ 1 \in 1 .. Len(plan) /\ Len(plan) \in Nat
      /\ Len(plan') = Len(plan) - 1
      /\ \A i \in 1 .. Len(plan') : plan'[i] = plan[i + 1] /\ i + 1 \in 1 .. Len(plan)
  <2>1. plan \in Seq(Actions)
    BY DEF ConvTyped, CycleTyped
  <2> QED
    BY <1>1, <2>1, PlanTail DEF ConvTyped
<1>3. \A x : \A i \in 1 .. Len(plan') : (\E j \in 1 .. (i + 1) - 1 : plan[j] = x) /\ x # a =>
          \E j \in 1 .. i - 1 : plan'[j] = x
  <2> SUFFICES ASSUME NEW x, NEW i \in 1 .. Len(plan'), x # a, NEW j \in 1 .. (i + 1) - 1, plan[j] = x
               PROVE  \E m \in 1 .. i - 1 : plan'[m] = x
    OBVIOUS
  <2>1. j # 1 /\ j - 1 \in 1 .. i - 1 /\ j - 1 \in 1 .. Len(plan')
    BY <1>2
  <2>2. plan'[j - 1] = plan[j]
    BY <1>2, <2>1
  <2> QED
    BY <2>1, <2>2
<1>4. OwnerAdds(plan')
  BY <1>1, <1>2 DEF OwnerAdds
<1>5. \A i \in 1 .. Len(plan') : Removes(plan'[i]) =>
         \A j \in 1 .. i - 1 : plan'[j].tenant = Owner => plan'[j].op \in Preparing
  <2> SUFFICES ASSUME NEW i \in 1 .. Len(plan'), Removes(plan'[i]),
                      NEW j \in 1 .. i - 1, plan'[j].tenant = Owner
               PROVE  plan'[j].op \in Preparing
    OBVIOUS
  <2>1. /\ plan'[i] = plan[i + 1] /\ i + 1 \in 1 .. Len(plan)
        /\ j \in 1 .. Len(plan') /\ plan'[j] = plan[j + 1] /\ j + 1 \in 1 .. (i + 1) - 1
    BY <1>2
  <2> QED
    BY <1>1, <2>1 DEF StopsFirst
<1> HIDE DEF a
<1>6. CASE a.op = "SyncCaddy"
  <2>1. host' = host
    BY <1>6 DEF ExecuteAction, a
  <2>2. \A u, v : a # Action("RemoveVolumeDir", u, v) /\ a # Action("StopService", u, v)
    BY <1>6 DEF Action
  <2>3. LeftoverFirst(plan', host)
    <3> SUFFICES ASSUME NEW u \in Tenants \ {Owner}, NEW v \in host[u].dirs,
                        NEW i \in 1 .. Len(plan'), plan'[i].tenant = Owner
                 PROVE  \E j \in 1 .. i - 1 : plan'[j] = Action("RemoveVolumeDir", u, v)
      BY DEF LeftoverFirst
    <3>1. \E j \in 1 .. (i + 1) - 1 : plan[j] = Action("RemoveVolumeDir", u, v)
      BY <1>1, <1>2 DEF LeftoverFirst
    <3> QED
      BY <1>3, <2>2, <3>1
  <2>4. StopsFirst(plan', host, spec)
    <3> SUFFICES ASSUME NEW i \in 1 .. Len(plan'), Removes(plan'[i]),
                        NEW s \in (DOMAIN host[Owner].files) \cap (DOMAIN host[Owner].run)
                 PROVE  \/ plan'[i].op = "WriteUnits" /\ s \in spec.services
                        \/ \E j \in 1 .. i - 1 : plan'[j] = Action("StopService", Owner, s)
      BY <1>5 DEF StopsFirst
    <3>1. \/ plan'[i].op = "WriteUnits" /\ s \in spec.services
          \/ \E j \in 1 .. (i + 1) - 1 : plan[j] = Action("StopService", Owner, s)
      BY <1>1, <1>2 DEF StopsFirst
    <3> QED
      BY <1>3, <2>2, <3>1
  <2> QED
    BY <1>1, <1>4, <2>1, <2>3, <2>4 DEF Orderly
<1>7. CASE a.op # "SyncCaddy"
  <2>1. /\ a \in HostActions /\ t \in Tenants /\ Executable(h, a)
        /\ host' = [host EXCEPT ![t] = k] /\ h \in HostType
        /\ a.op = "WriteUnits" => spec # None
        /\ spec \in OwnSpecs \cup {None}
    <3>1. a \in HostActions /\ t \in Tenants
      BY <1>2, <1>7 DEF Actions, Action, HostActions, ServiceActions, VolumeActions, TenantActions
    <3>2. Executable(h, a) /\ host' = [host EXCEPT ![t] = k]
      BY <1>7 DEF ExecuteAction, a
    <3> QED
      BY <1>2, <3>1, <3>2 DEF ConvTyped, CycleTyped
  <2>2. h.user \/ h = EmptyHost
    BY <1>1, <2>1 DEF HostsTidy
  <2> HIDE DEF t, h, k
  <2>3. /\ k.user \/ k = EmptyHost
        /\ a.op \notin Adding =>
             /\ DOMAIN k.files \subseteq DOMAIN h.files /\ DOMAIN k.builds \subseteq DOMAIN h.builds
             /\ DOMAIN k.run \subseteq DOMAIN h.run /\ k.dirs \subseteq h.dirs
        /\ a.op \in Preparing => DOMAIN k.files = DOMAIN h.files /\ DOMAIN k.run \subseteq DOMAIN h.run
        /\ a.op = "StopService" => a.arg \notin DOMAIN k.run
        /\ a.op = "RemoveVolumeDir" => a.arg \notin k.dirs
    BY <2>1, <2>2, EffectIs DEF k
  <2>4. /\ host[t] = h /\ host'[t] = k /\ a.tenant = t
        /\ \A u \in Tenants \ {t} : host'[u] = host[u]
    BY <2>1 DEF ConvTyped, h, t
  <2>5. Owner \in Tenants
    BY ConvergenceAssumption
  <2>6. CASE t # Owner
    <3>1. /\ DOMAIN k.files \subseteq DOMAIN h.files /\ DOMAIN k.builds \subseteq DOMAIN h.builds
          /\ DOMAIN k.run \subseteq DOMAIN h.run /\ k.dirs \subseteq h.dirs
      BY <1>1, <1>2, <2>3, <2>4, <2>6 DEF OwnerAdds
    <3>2. HostsTidy(host')
      <4>1. \A u \in Tenants : host'[u].user \/ host'[u] = EmptyHost
        BY <1>1, <2>3, <2>4 DEF HostsTidy
      <4>2. /\ DOMAIN k.files = {} /\ DOMAIN k.run = {} /\ DOMAIN k.builds = {}
        BY <1>1, <2>1, <2>4, <2>6, <3>1 DEF HostsTidy
      <4>3. host'[Owner] = host[Owner]
        BY <2>4, <2>5, <2>6
      <4>4. \A u \in Tenants \ {Owner} : host'[u].dirs \subseteq host[u].dirs
        BY <2>4, <3>1
      <4> QED
        BY <1>1, <2>4, <4>1, <4>2, <4>3, <4>4 DEF HostsTidy
    <3>3. LeftoverFirst(plan', host')
      <4> SUFFICES ASSUME NEW u \in Tenants \ {Owner}, NEW v \in host'[u].dirs,
                          NEW i \in 1 .. Len(plan'), plan'[i].tenant = Owner
                   PROVE  \E j \in 1 .. i - 1 : plan'[j] = Action("RemoveVolumeDir", u, v)
        BY DEF LeftoverFirst
      <4>1. v \in host[u].dirs
        BY <2>4, <3>1
      <4>2. \E j \in 1 .. (i + 1) - 1 : plan[j] = Action("RemoveVolumeDir", u, v)
        BY <1>1, <1>2, <4>1 DEF LeftoverFirst
      <4>3. a # Action("RemoveVolumeDir", u, v)
        BY <2>3, <2>4 DEF Action
      <4> QED
        BY <1>3, <4>2, <4>3
    <3>4. StopsFirst(plan', host', spec)
      <4> SUFFICES ASSUME NEW i \in 1 .. Len(plan'), Removes(plan'[i]),
                          NEW s \in (DOMAIN host'[Owner].files) \cap (DOMAIN host'[Owner].run)
                   PROVE  \/ plan'[i].op = "WriteUnits" /\ s \in spec.services
                          \/ \E j \in 1 .. i - 1 : plan'[j] = Action("StopService", Owner, s)
        BY <1>5 DEF StopsFirst
      <4>1. host'[Owner] = host[Owner]
        BY <2>4, <2>5, <2>6
      <4>2. \/ plan'[i].op = "WriteUnits" /\ s \in spec.services
            \/ \E j \in 1 .. (i + 1) - 1 : plan[j] = Action("StopService", Owner, s)
        BY <1>1, <1>2, <4>1 DEF StopsFirst
      <4>3. a # Action("StopService", Owner, s)
        BY <2>4, <2>6 DEF Action
      <4> QED
        BY <1>3, <4>2, <4>3
    <3> QED
      BY <1>1, <1>4, <3>2, <3>3, <3>4 DEF Orderly
  <2>7. CASE t = Owner
    <3>1. \A u \in Tenants \ {Owner} : host'[u] = host[u] /\ host[u].dirs = {}
      <4> SUFFICES ASSUME NEW u \in Tenants \ {Owner}, NEW v \in host[u].dirs PROVE FALSE
        BY <2>4, <2>7
      <4>1. \E j \in 1 .. 1 - 1 : plan[j] = Action("RemoveVolumeDir", u, v)
        BY <1>1, <1>2, <2>4, <2>7 DEF LeftoverFirst
      <4> QED
        BY <4>1
    <3>2. HostsTidy(host')
      <4>1. \A u \in Tenants : host'[u].user \/ host'[u] = EmptyHost
        BY <1>1, <2>3, <2>4 DEF HostsTidy
      <4> QED
        BY <1>1, <3>1, <4>1 DEF HostsTidy
    <3>3. LeftoverFirst(plan', host')
      BY <3>1 DEF LeftoverFirst
    <3>4. StopsFirst(plan', host', spec)
      <4> SUFFICES ASSUME NEW i \in 1 .. Len(plan'), Removes(plan'[i]),
                          NEW s \in (DOMAIN host'[Owner].files) \cap (DOMAIN host'[Owner].run)
                   PROVE  \/ plan'[i].op = "WriteUnits" /\ s \in spec.services
                          \/ \E j \in 1 .. i - 1 : plan'[j] = Action("StopService", Owner, s)
        BY <1>5 DEF StopsFirst
      <4>1. a.op \in Preparing
        <5>1. 1 \in 1 .. (i + 1) - 1 /\ Removes(plan[i + 1]) /\ i + 1 \in 1 .. Len(plan)
          BY <1>2
        <5> QED
          BY <1>1, <1>2, <2>4, <2>7, <5>1 DEF StopsFirst
      <4>2. s \in (DOMAIN host[Owner].files) \cap (DOMAIN host[Owner].run)
        BY <2>3, <2>4, <2>7, <4>1
      <4>3. \/ plan'[i].op = "WriteUnits" /\ s \in spec.services
            \/ \E j \in 1 .. (i + 1) - 1 : plan[j] = Action("StopService", Owner, s)
        BY <1>1, <1>2, <4>2 DEF StopsFirst
      <4>4. a # Action("StopService", Owner, s)
        BY <2>3, <2>4, <2>7 DEF Action
      <4> QED
        BY <1>3, <4>3, <4>4
    <3> QED
      BY <1>1, <1>4, <3>2, <3>3, <3>4 DEF Orderly
  <2> QED
    BY <2>6, <2>7
<1> QED
  BY <1>6, <1>7


-----------------------------------------------------------------------------
(* The shape of a plan.                                                    *)

LEMMA AppendJoin ==
    ASSUME NEW A, NEW p \in Seq(A), NEW e \in A
    PROVE  Append(p, e) = p \o << e >> /\ << e >> \in Seq(A)
  OBVIOUS

\* Concatenation under a name of its own: an equality of two long ones is then
\* no more to the provers than a rewriting.
Join(p, q) == p \o q

LEMMA JoinAssociative ==
    ASSUME NEW A, NEW p \in Seq(A), NEW q \in Seq(A), NEW r \in Seq(A)
    PROVE  Join(Join(p, q), r) = Join(p, Join(q, r))
  BY ConcatAssociative DEF Join

LEMMA JoinType ==
    ASSUME NEW A, NEW p \in Seq(A), NEW q \in Seq(A)
    PROVE  Join(p, q) \in Seq(A)
  BY ConcatProperties DEF Join

LEMMA AppendToJoin ==
    ASSUME NEW A, NEW p \in Seq(A), NEW q \in Seq(A), NEW e \in A
    PROVE  Append(p \o q, e) = p \o (q \o << e >>)
<1>1. << e >> \in Seq(A) /\ p \o q \in Seq(A)
  BY ConcatProperties
<1>2. \A r \in Seq(A) : Append(r, e) = r \o << e >>
  OBVIOUS
<1>3. (p \o q) \o << e >> = p \o (q \o << e >>)
  <2> DEFINE s == << e >>
  <2>1. s \in Seq(A)
    BY <1>1
  <2> HIDE DEF s
  <2>2. Join(Join(p, q), s) = Join(p, Join(q, s))
    BY <2>1, JoinAssociative
  <2> QED
    BY <2>2, Zenon DEF Join, s
<1> QED
  BY <1>1, <1>2, <1>3

LEMMA TeardownPlan ==
    ASSUME NEW obs \in Observed
    PROVE  PlanTeardown(obs) \in Seq(Actions) /\ Plan(None, obs) = PlanTeardown(obs) \o << Sync >>
<1>1. Only(TeardownOps, obs.tenant) \subseteq Actions
  BY DEF Only, Actions
<1>2. PlanTeardown(obs) \in Seq(Actions)
  BY <1>1, TeardownIs, SeqMonotonic
<1>3. Sync \in Actions
  BY DEF Sync, Actions
<1>4. None \notin Observed
  BY PlannerNoneAssumption
<1>5. Plan(None, obs) = Append(PlanTeardown(obs), Sync)
  BY <1>4, PlanCases
<1> QED
  BY <1>2, <1>3, <1>5, AppendJoin

LEMMA ConvergePlan ==
    ASSUME NEW d \in OwnSpecs, NEW obs \in Observed \cup {None}
    PROVE  LET nothing == NothingObserved(Owner) IN
           /\ nothing \in Observed /\ nothing.tenant = Owner
           /\ \A o \in Observed : PlanConverge(d, o) \in Seq(Actions)
           /\ obs = None => Plan(d, obs) = PlanConverge(d, nothing) \o << Sync >>
           /\ obs # None /\ obs.tenant # Owner =>
                Plan(d, obs) = PlanTeardown(obs) \o (PlanConverge(d, nothing) \o << Sync >>)
           /\ obs # None /\ obs.tenant = Owner =>
                \/ Plan(d, obs) = <<>>
                \/ Plan(d, obs) = PlanConverge(d, obs) \o << Sync >>
<1> DEFINE nothing == NothingObserved(Owner)
<1>1. d # None /\ d.tenant = Owner /\ Owner \in Tenants
  BY OwnSpecFacts, ConvergenceAssumption
<1>2. nothing \in Observed /\ nothing.tenant = Owner
  BY <1>1, NothingIs
<1>3. \A o \in Observed : PlanConverge(d, o) \in Seq(Actions)
  <2>1. Only(ConvergeOps, d.tenant) \subseteq Actions
    BY DEF Only, Actions
  <2> QED
    BY <2>1, ConvergeIs, SeqMonotonic
<1>4. Sync \in Actions
  BY DEF Sync, Actions
<1> HIDE DEF nothing
<1>5. CASE obs = None
  <2>1. Plan(d, obs) = Append(PlanConverge(d, nothing), Sync)
    BY <1>1, <1>5, PlanCases DEF nothing
  <2> QED
    BY <1>2, <1>3, <1>4, <1>5, <2>1, AppendJoin DEF nothing
<1>6. CASE obs # None /\ obs.tenant # Owner
  <2>1. PlanTeardown(obs) \in Seq(Actions)
    BY <1>6, TeardownPlan
  <2>2. Plan(d, obs) = Append(PlanTeardown(obs) \o PlanConverge(d, nothing), Sync)
    BY <1>1, <1>6, PlanCases DEF nothing
  <2>3. Append(PlanTeardown(obs) \o PlanConverge(d, nothing), Sync)
          = PlanTeardown(obs) \o (PlanConverge(d, nothing) \o << Sync >>)
    <3>1. PlanConverge(d, nothing) \in Seq(Actions)
      BY <1>2, <1>3
    <3> QED
      BY <1>4, <2>1, <3>1, AppendToJoin, Zenon
  <2> QED
    BY <1>2, <1>3, <1>6, <2>2, <2>3 DEF nothing
<1>7. CASE obs # None /\ obs.tenant = Owner
  <2>1. Plan(d, obs) = IF PlanConverge(d, obs) = <<>> THEN <<>>
                       ELSE Append(PlanConverge(d, obs), Sync)
    BY <1>1, <1>7, PlanCases
  <2> QED
    BY <1>2, <1>3, <1>4, <1>7, <2>1, AppendJoin DEF nothing
<1> QED
  BY <1>5, <1>6, <1>7

\* A plan that converges prepares, rewrites the units if it has to, and then
\* looks after the services and the volumes that are left over.
Preparation(d, o) == Entering(d, o) \o NewVolumes(d, o) \o ExtraStops(d, o)
Completion(d, o) == FlattenSeq(PerService(d, o)) \o OldVolumes(d, o)

LEMMA ConvergeOrder ==
    ASSUME NEW d \in OwnSpecs, NEW o \in Observed
    PROVE  /\ PlanConverge(d, o) = Preparation(d, o) \o (Rewriting(d, o) \o Completion(d, o))
           /\ Preparation(d, o) \in Seq(Only(Preparing, Owner))
           /\ Rewriting(d, o) \in Seq(Only({"WriteUnits", "DaemonReload"}, Owner))
           /\ Completion(d, o) \in Seq(Only(ServiceOps \cup VolumeOps, Owner))
<1> DEFINE A == Only(ConvergeOps, Owner)
           p1 == Entering(d, o)
           p2 == NewVolumes(d, o)
           p3 == ExtraStops(d, o)
           p4 == Rewriting(d, o)
           p5 == FlattenSeq(PerService(d, o))
           p6 == OldVolumes(d, o)
<1>1. d.tenant = Owner
  BY OwnSpecFacts
<1>2. /\ p1 \in Seq(Only({"EnsureTenant"}, Owner)) /\ p2 \in Seq(Only({"EnsureVolumeDir"}, Owner))
      /\ p3 \in Seq(Only({"StopService"}, Owner))
      /\ p4 \in Seq(Only({"WriteUnits", "DaemonReload"}, Owner))
      /\ p5 \in Seq(Only(ServiceOps, Owner)) /\ p6 \in Seq(Only({"RemoveVolumeDir"}, Owner))
  BY <1>1, ConvergePartsAre
<1>3. PlanConverge(d, o) = p1 \o p2 \o p3 \o p4 \o p5 \o p6
  BY ConvergeParts
<1> DEFINE P == Only(Preparing, Owner)
           C == Only(ServiceOps \cup VolumeOps, Owner)
<1>4. p1 \in Seq(P) /\ p2 \in Seq(P) /\ p3 \in Seq(P)
  <2>1. {"EnsureTenant"} \subseteq Preparing /\ {"EnsureVolumeDir"} \subseteq Preparing
        /\ {"StopService"} \subseteq Preparing
    BY DEF Preparing
  <2> QED
    BY <1>2, <2>1, OnlyMore
<1>5. p5 \in Seq(C) /\ p6 \in Seq(C)
  <2>1. ServiceOps \subseteq ServiceOps \cup VolumeOps
        /\ {"RemoveVolumeDir"} \subseteq ServiceOps \cup VolumeOps
    BY DEF VolumeOps
  <2> QED
    BY <1>2, <2>1, OnlyMore
<1>6. P \subseteq HostActions /\ C \subseteq HostActions
      /\ Only({"WriteUnits", "DaemonReload"}, Owner) \subseteq HostActions
  BY DEF Only
<1> HIDE DEF P, C, A, p1, p2, p3, p4, p5, p6
<1>7. p1 \o p2 \o p3 \in Seq(P) /\ p5 \o p6 \in Seq(C)
  BY <1>4, <1>5
<1>8. p1 \o p2 \o p3 \o p4 \o p5 \o p6 = (p1 \o p2 \o p3) \o (p4 \o (p5 \o p6))
  <2> DEFINE q == p1 \o p2 \o p3
             r == p5 \o p6
  <2>1. q \in Seq(HostActions) /\ p4 \in Seq(HostActions) /\ r \in Seq(HostActions)
        /\ p5 \in Seq(HostActions) /\ p6 \in Seq(HostActions)
    BY <1>2, <1>5, <1>6, <1>7, SeqMonotonic DEF p4
  <2>2. q \o p4 \in Seq(HostActions) /\ p4 \o p5 \in Seq(HostActions)
    BY <2>1, ConcatProperties
  <2> HIDE DEF q, r
  <2> DEFINE qp == q \o p4
  <2>3. qp \in Seq(HostActions)
    BY <2>2
  <2> HIDE DEF qp
  <2>4. (qp \o p5) \o p6 = qp \o (p5 \o p6)
    <3>1. Join(Join(qp, p5), p6) = Join(qp, Join(p5, p6))
      BY <2>1, <2>3, JoinAssociative
    <3> QED
      BY <3>1, Zenon DEF Join
  <2>5. (q \o p4) \o r = q \o (p4 \o r)
    <3>1. Join(Join(q, p4), r) = Join(q, Join(p4, r))
      BY <2>1, JoinAssociative
    <3> QED
      BY <3>1, Zenon DEF Join
  <2> QED
    BY <2>4, <2>5 DEF q, r, qp
<1> QED
  BY <1>2, <1>3, <1>7, <1>8 DEF Preparation, Completion, P, C, p1, p2, p3, p4, p5, p6


-----------------------------------------------------------------------------
(* A fresh plan is in order.                                               *)

\* Plans are made of what tears down, what converges, and the last action.
LEMMA PlanOver ==
    ASSUME NEW d \in OwnSpecs \cup {None}, NEW obs \in Observed \cup {None}, NEW W,
           Sync \in W, W \subseteq Actions,
           obs # None => Only(TeardownOps, obs.tenant) \subseteq W,
           d # None => Only(ConvergeOps, Owner) \subseteq W
    PROVE  Plan(d, obs) \in Seq(W)
<1>1. obs # None => PlanTeardown(obs) \in Seq(W)
  BY TeardownIs, SeqMonotonic
<1>2. d # None => \A o \in Observed : PlanConverge(d, o) \in Seq(W)
  BY OwnSpecFacts, ConvergeIs, SeqMonotonic
<1>3. << Sync >> \in Seq(W) /\ <<>> \in Seq(W)
  OBVIOUS
<1>4. CASE d = None
  <2>1. CASE obs = None
    BY <1>3, <1>4, <2>1, PlanCases
  <2>2. CASE obs # None
    <3>1. Plan(d, obs) = PlanTeardown(obs) \o << Sync >>
      BY <1>4, <2>2, TeardownPlan
    <3> QED
      BY <1>1, <1>3, <2>2, <3>1, ConcatProperties
  <2> QED
    BY <2>1, <2>2
<1>5. CASE d # None
  <2> DEFINE nothing == NothingObserved(Owner)
  <2>1. d \in OwnSpecs
    BY <1>5
  <2>2. nothing \in Observed /\ PlanConverge(d, nothing) \in Seq(W)
    BY <1>2, <1>5, <2>1, ConvergePlan
  <2>3. PlanConverge(d, nothing) \o << Sync >> \in Seq(W)
    BY <1>3, <2>2, ConcatProperties
  <2>4. obs # None => PlanTeardown(obs) \o (PlanConverge(d, nothing) \o << Sync >>) \in Seq(W)
    BY <1>1, <2>3, ConcatProperties
  <2>5. obs # None => PlanConverge(d, obs) \o << Sync >> \in Seq(W)
    BY <1>2, <1>3, <1>5, ConcatProperties
  <2>6. \/ obs = None /\ Plan(d, obs) = PlanConverge(d, nothing) \o << Sync >>
        \/ obs # None /\ Plan(d, obs) = PlanTeardown(obs) \o (PlanConverge(d, nothing) \o << Sync >>)
        \/ obs # None /\ Plan(d, obs) = <<>>
        \/ obs # None /\ Plan(d, obs) = PlanConverge(d, obs) \o << Sync >>
    BY <2>1, ConvergePlan
  <2> QED
    BY <1>3, <2>3, <2>4, <2>5, <2>6
<1> QED
  BY <1>4, <1>5

LEMMA FreshOwnerAdds ==
    ASSUME NEW d \in OwnSpecs \cup {None}, NEW obs \in Observed \cup {None}
    PROVE  OwnerAdds(Plan(d, obs))
<1> DEFINE W == {a \in Actions : a.op \in Adding => a.tenant = Owner}
<1>1. Sync \in W
  BY DEF Sync, Action, Actions, Adding
<1>2. obs # None => Only(TeardownOps, obs.tenant) \subseteq W
  BY DEF Only, Actions, TeardownOps, Adding
<1>3. Only(ConvergeOps, Owner) \subseteq W
  BY DEF Only, Actions
<1>4. W \subseteq Actions
  OBVIOUS
<1> HIDE DEF W
<1>5. Plan(d, obs) \in Seq(W)
  BY <1>1, <1>2, <1>3, <1>4, PlanOver
<1>6. \A i \in 1 .. Len(Plan(d, obs)) : Plan(d, obs)[i] \in W
  BY <1>5, ElementOfSeq
<1> QED
  BY <1>6 DEF OwnerAdds, W

\* What a host shows of itself.
LEMMA ObservationIs ==
    ASSUME NEW hs \in [Tenants -> HostType], \A t \in Tenants : hs[t].user \/ hs[t] = EmptyHost,
           NEW obs \in Observations(hs)
    PROVE  /\ obs \in Observed \cup {None}
           /\ obs = None => \A t \in Tenants : ~HasArtifacts(hs[t])
           /\ obs # None => LET h == hs[obs.tenant] IN
                /\ obs.tenant \in Tenants /\ HasArtifacts(h) /\ h.user /\ obs.present
                /\ obs = ObservedUnder(h, obs.tenant, DOMAIN h.run)
                /\ ActiveOf(obs) = DOMAIN h.run /\ obs.dirs = h.dirs /\ obs.builds = h.builds
                /\ DOMAIN obs.units = (DOMAIN h.files) \cup (DOMAIN h.run)
<1>1. obs \in Observed \cup {None}
  BY ObservationsTyped
<1>2. ~HasArtifacts(EmptyHost)
  BY NoMapTyped DEF EmptyHost, HasArtifacts
<1>3. CASE Visible(hs) = {}
  BY <1>2, <1>3 DEF Observations, Visible
<1>4. CASE Visible(hs) # {}
  <2>1. PICK t \in Visible(hs) : obs = ObservedUnder(hs[t], t, DOMAIN hs[t].run)
    BY <1>4 DEF Observations
  <2>2. t \in Tenants /\ hs[t].user /\ HasArtifacts(hs[t]) /\ hs[t] \in HostType
    BY <2>1 DEF Visible
  <2>3. DOMAIN hs[t].run \in SUBSET Services
    BY <2>2, MapFacts DEF HostType, PartialMap
  <2>4. /\ obs \in Observed /\ obs.tenant = t /\ obs.present = hs[t].user
        /\ DOMAIN obs.units = (DOMAIN hs[t].files) \cup (DOMAIN hs[t].run)
        /\ ActiveOf(obs) = DOMAIN hs[t].run /\ obs.dirs = hs[t].dirs /\ obs.builds = hs[t].builds
    <3> DEFINE h == hs[t]
               seen == DOMAIN hs[t].run
    <3>1. h \in HostType /\ t \in Tenants /\ seen \in SUBSET Services /\ obs = ObservedUnder(h, t, seen)
      BY <2>1, <2>2, <2>3
    <3> HIDE DEF h, seen
    <3>2. /\ obs \in Observed /\ obs.tenant = t /\ obs.present = h.user
          /\ DOMAIN obs.units = (DOMAIN h.files) \cup seen
          /\ ActiveOf(obs) = seen /\ obs.dirs = h.dirs /\ obs.builds = h.builds
      BY <3>1, ObservedUnderTyped
    <3> QED
      BY <3>2 DEF h, seen
  <2>5. obs # None
    BY <2>4, PlannerNoneAssumption
  <2> QED
    BY <2>1, <2>2, <2>4, <2>5
<1> QED
  BY <1>1, <1>3, <1>4

LEMMA ForEachHas ==
    ASSUME NEW op, NEW t, NEW S, IsFiniteSet(S), NEW x \in S
    PROVE  \E i \in 1 .. Len(ForEach(op, t, S)) : ForEach(op, t, S)[i] = Action(op, t, x)
<1> DEFINE A == {Action(op, t, y) : y \in S}
<1>1. \A y \in S : Action(op, t, y) \in A
  OBVIOUS
<1> HIDE DEF A
<1>2. /\ ForEach(op, t, S) \in Seq(A)
      /\ \A y \in S : \E i \in 1 .. Len(ForEach(op, t, S)) :
           ForEach(op, t, S)[i] = Action(op, t, y)
  BY <1>1, ForEachList
<1> QED
  BY <1>2

LEMMA PairJoin ==
    ASSUME NEW e, NEW f
    PROVE  << e >> \o << f >> = << e, f >>
<1> DEFINE A == {e, f}
<1>1. << e >> \in Seq(A) /\ << f >> \in Seq(A) /\ << e, f >> \in Seq(A)
  OBVIOUS
<1>2. Len(<< e >>) = 1 /\ Len(<< f >>) = 1 /\ Len(<< e, f >>) = 2
  OBVIOUS
<1>3. << e >>[1] = e /\ << f >>[1] = f /\ << e, f >>[1] = e /\ << e, f >>[2] = f
  OBVIOUS
<1> HIDE DEF A
<1>4. /\ << e >> \o << f >> \in Seq(A) /\ Len(<< e >> \o << f >>) = 2
      /\ \A i \in 1 .. 2 : (<< e >> \o << f >>)[i] = IF i <= 1 THEN << e >>[i] ELSE << f >>[i - 1]
  BY <1>1, <1>2, ConcatProperties
<1>5. \A i \in 1 .. 2 : (<< e >> \o << f >>)[i] = << e, f >>[i]
  <2>1. (<< e >> \o << f >>)[1] = e /\ (<< e >> \o << f >>)[2] = f
    BY <1>3, <1>4
  <2> QED
    BY <1>3, <2>1
<1> QED
  BY <1>1, <1>2, <1>4, <1>5, SeqEqual

\* A teardown stops the services and only then removes units; every volume goes.
LEMMA TeardownOrder ==
    ASSUME NEW obs \in Observed
    PROVE  /\ \A v \in obs.dirs : \E j \in 1 .. Len(PlanTeardown(obs)) :
                PlanTeardown(obs)[j] = Action("RemoveVolumeDir", obs.tenant, v)
           /\ \E post \in Seq(Only({"DaemonReload", "RemoveVolumeDir", "RemoveTenantIfEmpty"}, obs.tenant)) :
                PlanTeardown(obs) = Stops(obs) \o << Action("RemoveUnits", obs.tenant, None) >> \o post
<1> DEFINE t == obs.tenant
           p1 == Stops(obs)
           p2 == Removal(obs)
           p3 == VolumesGone(obs)
           p4 == Leaving(obs)
           e == Action("RemoveUnits", t, None)
           f == Action("DaemonReload", t, None)
           B == Only({"DaemonReload", "RemoveVolumeDir", "RemoveTenantIfEmpty"}, t)
           A == HostActions
<1>1. t \in Tenants /\ IsFiniteSet(obs.dirs)
  BY ObservedFinite
<1>2. /\ p1 \in Seq(Only({"StopService"}, t)) /\ p3 \in Seq(Only({"RemoveVolumeDir"}, t))
      /\ p4 \in Seq(Only({"RemoveTenantIfEmpty"}, t)) /\ p2 \in Seq(Only({"RemoveUnits", "DaemonReload"}, t))
  BY TeardownIs
<1>3. p2 = << e, f >> /\ e \in A /\ f \in B /\ B \subseteq A
  BY <1>1 DEF Removal, Only, HostActions, TenantActions, TenantOps, Action
<1>4. p1 \in Seq(A) /\ p2 \in Seq(A) /\ p3 \in Seq(A) /\ p4 \in Seq(A)
  <2>1. \A ops : Only(ops, t) \subseteq A
    BY DEF Only
  <2> QED
    BY <1>2, <2>1, SeqMonotonic
<1>5. p3 \in Seq(B) /\ p4 \in Seq(B)
  <2>1. {"RemoveVolumeDir"} \subseteq {"DaemonReload", "RemoveVolumeDir", "RemoveTenantIfEmpty"}
        /\ {"RemoveTenantIfEmpty"} \subseteq {"DaemonReload", "RemoveVolumeDir", "RemoveTenantIfEmpty"}
    OBVIOUS
  <2> QED
    BY <1>2, <2>1, OnlyMore
<1>6. PlanTeardown(obs) = p1 \o p2 \o p3 \o p4
  BY TeardownParts
<1>7. \A v \in obs.dirs : \E j \in 1 .. Len(p3) : p3[j] = Action("RemoveVolumeDir", t, v)
  BY <1>1, ForEachHas DEF VolumesGone
<1> HIDE DEF p1, p2, p3, p4, e, f, A, B, t
<1>8. \A v \in obs.dirs : \E j \in 1 .. Len(PlanTeardown(obs)) :
         PlanTeardown(obs)[j] = Action("RemoveVolumeDir", t, v)
  <2> TAKE v \in obs.dirs
  <2>1. PICK j \in 1 .. Len(p3) : p3[j] = Action("RemoveVolumeDir", t, v)
    BY <1>7
  <2> DEFINE q == p1 \o p2
  <2>2. q \in Seq(A)
    BY <1>4, ConcatProperties
  <2> HIDE DEF q
  <2>3. /\ q \o p3 \in Seq(A) /\ Len(q \o p3) = Len(q) + Len(p3) /\ Len(q) \in Nat /\ Len(p3) \in Nat
        /\ (q \o p3)[Len(q) + j] = p3[j]
    BY <1>4, <2>2
  <2> DEFINE r == q \o p3
  <2> HIDE DEF r
  <2>4. r \o p4 \in Seq(A) /\ Len(r \o p4) = Len(r) + Len(p4) /\ Len(p4) \in Nat
        /\ \A i \in 1 .. Len(r) : (r \o p4)[i] = r[i]
    BY <1>4, <2>3 DEF r
  <2>5. Len(q) + j \in 1 .. Len(r) /\ Len(r) \in Nat
    BY <2>3 DEF r
  <2>6. PlanTeardown(obs) = r \o p4
    BY <1>6 DEF q, r
  <2>7. Len(q) + j \in 1 .. Len(r \o p4) /\ (r \o p4)[Len(q) + j] = Action("RemoveVolumeDir", t, v)
    BY <2>1, <2>3, <2>4, <2>5 DEF r
  <2> QED
    BY <2>6, <2>7
<1>9. \E post \in Seq(B) : PlanTeardown(obs) = p1 \o << e >> \o post
  <2> DEFINE post == << f >> \o (p3 \o p4)
  <2>1. post \in Seq(B) /\ << f >> \in Seq(B) /\ p3 \o p4 \in Seq(B)
    BY <1>3, <1>5, ConcatProperties
  <2>2. << f >> \in Seq(A) /\ << e >> \in Seq(A) /\ p3 \o p4 \in Seq(A)
    BY <1>3, <1>4, <2>1, SeqMonotonic
  <2>3. p2 = << e >> \o << f >>
    <3>1. << e >> \o << f >> = << e, f >>
      BY <2>2, <1>3, PairJoin
    <3> QED
      BY <1>3, <3>1
  <2>4. p1 \o p2 = (p1 \o << e >>) \o << f >>
    <3> DEFINE se == << e >>
               sf == << f >>
    <3>1. p1 \in Seq(A) /\ se \in Seq(A) /\ sf \in Seq(A)
      BY <1>4, <2>2
    <3> HIDE DEF se, sf
    <3>2. Join(Join(p1, se), sf) = Join(p1, Join(se, sf))
      BY <3>1, JoinAssociative
    <3> QED
      BY <2>3, <3>2, Zenon DEF Join, se, sf
  <2>5. p1 \o << e >> \in Seq(A) /\ p1 \o p2 \in Seq(A)
    BY <1>4, <2>2, ConcatProperties
  <2>6. ((p1 \o p2) \o p3) \o p4 = (p1 \o p2) \o (p3 \o p4)
    <3>1. Join(Join(Join(p1, p2), p3), p4) = Join(Join(p1, p2), Join(p3, p4))
      BY <1>4, JoinType, JoinAssociative
    <3> QED
      BY <3>1, Zenon DEF Join
  <2>7. ((p1 \o << e >>) \o << f >>) \o (p3 \o p4) = (p1 \o << e >>) \o (<< f >> \o (p3 \o p4))
    <3> DEFINE se == << e >>
               sf == << f >>
    <3>1. se \in Seq(A) /\ sf \in Seq(A)
      BY <2>2
    <3> HIDE DEF se, sf
    <3>2. Join(p1, se) \in Seq(A) /\ Join(p3, p4) \in Seq(A)
      BY <1>4, <3>1, JoinType
    <3>3. Join(Join(Join(p1, se), sf), Join(p3, p4)) = Join(Join(p1, se), Join(sf, Join(p3, p4)))
      BY <3>1, <3>2, JoinAssociative
    <3> QED
      BY <3>3, Zenon DEF Join, se, sf
  <2> QED
    BY <1>6, <2>1, <2>4, <2>6, <2>7
<1> QED
  BY <1>8, <1>9 DEF p1, e, B, t


LEMMA FreshLeftoverFirst ==
    ASSUME NEW hs \in [Tenants -> HostType], HostsTidy(hs), NEW d \in OwnSpecs \cup {None},
           NEW obs \in Observations(hs)
    PROVE  LeftoverFirst(Plan(d, obs), hs)
<1> SUFFICES ASSUME NEW t \in Tenants \ {Owner}, NEW v \in hs[t].dirs,
                    NEW i \in 1 .. Len(Plan(d, obs)), Plan(d, obs)[i].tenant = Owner
             PROVE  \E j \in 1 .. i - 1 : Plan(d, obs)[j] = Action("RemoveVolumeDir", t, v)
  BY DEF LeftoverFirst
<1>1. Owner \in Tenants /\ obs \in Observed \cup {None} /\ HasArtifacts(hs[t])
  BY ConvergenceAssumption, ObservationsTyped DEF HasArtifacts
<1>2. \A u \in Tenants \ {t} : ~HasArtifacts(hs[u])
  <2> TAKE u \in Tenants \ {t}
  <2>1. CASE u = Owner
    BY <2>1 DEF HostsTidy
  <2>2. CASE u # Owner
    BY <2>2 DEF HostsTidy, HasArtifacts
  <2> QED
    BY <2>1, <2>2
<1>3. obs # None /\ obs \in Observed /\ obs.tenant = t /\ v \in obs.dirs
  <2>1. \A u \in Tenants : hs[u].user \/ hs[u] = EmptyHost
    BY DEF HostsTidy
  <2>2. obs # None
    BY <1>1, <2>1, ObservationIs
  <2>3. obs.tenant \in Tenants /\ HasArtifacts(hs[obs.tenant]) /\ obs.dirs = hs[obs.tenant].dirs
    BY <2>1, <2>2, ObservationIs
  <2> QED
    BY <1>1, <1>2, <2>2, <2>3
<1> DEFINE p == PlanTeardown(obs)
<1>4. PICK j \in 1 .. Len(p) : p[j] = Action("RemoveVolumeDir", t, v)
  BY <1>3, TeardownOrder
<1>5. p \in Seq(Actions) /\ \A n \in 1 .. Len(p) : p[n].tenant # Owner
  <2>1. p \in Seq(Only(TeardownOps, t))
    BY <1>3, TeardownIs
  <2>2. \A n \in 1 .. Len(p) : p[n] \in Only(TeardownOps, t)
    BY <2>1, ElementOfSeq
  <2> QED
    BY <1>3, <2>2, TeardownPlan DEF Only
<1> HIDE DEF p
<1>6. \E q \in Seq(Actions) : Plan(d, obs) = p \o q
  <2>1. << Sync >> \in Seq(Actions)
    BY DEF Sync, Actions
  <2>2. CASE d = None
    BY <1>3, <2>1, <2>2, TeardownPlan DEF p
  <2>3. CASE d # None
    <3> DEFINE q == PlanConverge(d, NothingObserved(Owner)) \o << Sync >>
    <3>1. d \in OwnSpecs /\ NothingObserved(Owner) \in Observed
      BY <1>3, <2>3, ConvergePlan
    <3>2. PlanConverge(d, NothingObserved(Owner)) \in Seq(Actions)
      BY <1>3, <3>1, ConvergePlan
    <3>3. q \in Seq(Actions)
      BY <2>1, <3>2, ConcatProperties
    <3>4. Plan(d, obs) = p \o q
      BY <1>3, <3>1, ConvergePlan DEF p
    <3> HIDE DEF q
    <3> QED
      BY <3>3, <3>4
  <2> QED
    BY <2>2, <2>3
<1>7. PICK q \in Seq(Actions) : Plan(d, obs) = p \o q
  BY <1>6
<1>8. \A n \in 1 .. Len(p) : Plan(d, obs)[n] = p[n]
  BY <1>5, <1>7
<1>9. i > Len(p) /\ Len(p) \in Nat
  <2>1. Len(p) \in Nat
    BY <1>5
  <2> QED
    BY <1>5, <1>8, <2>1
<1> QED
  BY <1>4, <1>8, <1>9

\* What comes before the units are removed, and what after.
LEMMA MarkedPlan ==
    ASSUME NEW hs, NEW d, NEW m \in Actions, NEW pre \in Seq(Actions), NEW post \in Seq(Actions),
           \A i \in 1 .. Len(pre) : pre[i].tenant = Owner => pre[i].op \in Preparing,
           \A i \in 1 .. Len(post) : ~Removes(post[i]),
           \A s \in (DOMAIN hs[Owner].files) \cap (DOMAIN hs[Owner].run) :
             \/ m.op = "WriteUnits" /\ s \in d.services
             \/ \E j \in 1 .. Len(pre) : pre[j] = Action("StopService", Owner, s)
    PROVE  StopsFirst(pre \o (<< m >> \o post), hs, d)
<1> DEFINE q == << m >> \o post
           p == pre \o q
<1>1. << m >> \in Seq(Actions) /\ Len(<< m >>) = 1 /\ << m >>[1] = m
  OBVIOUS
<1>2. /\ q \in Seq(Actions) /\ Len(q) = 1 + Len(post) /\ q[1] = m /\ Len(q) \in Nat
      /\ \A i \in 2 .. Len(q) : q[i] = post[i - 1] /\ i - 1 \in 1 .. Len(post)
  BY <1>1, ConcatProperties
<1> HIDE DEF q
<1>3. /\ p \in Seq(Actions) /\ Len(p) = Len(pre) + Len(q) /\ Len(pre) \in Nat
      /\ \A i \in 1 .. Len(pre) : p[i] = pre[i]
      /\ \A i \in Len(pre) + 1 .. Len(p) : p[i] = q[i - Len(pre)] /\ i - Len(pre) \in 1 .. Len(q)
  <2>1. Len(pre) \in Nat
    OBVIOUS
  <2>2. /\ p \in Seq(Actions) /\ Len(p) = Len(pre) + Len(q)
        /\ \A i \in 1 .. Len(pre) + Len(q) : p[i] = IF i <= Len(pre) THEN pre[i] ELSE q[i - Len(pre)]
    BY <1>2, ConcatProperties
  <2> HIDE DEF p
  <2> QED
    BY <1>2, <2>1, <2>2
<1> HIDE DEF p
<1>4. ASSUME NEW i \in 1 .. Len(p), Removes(p[i]) PROVE i = Len(pre) + 1 /\ p[i] = m
  <2>1. i > Len(pre)
    BY <1>3, <1>4 DEF Removes, Removing, Preparing
  <2>2. i \in Len(pre) + 1 .. Len(p)
    BY <1>3, <2>1
  <2>3. p[i] = q[i - Len(pre)] /\ i - Len(pre) \in 1 .. Len(q)
    BY <1>3, <2>2
  <2>4. ~(i - Len(pre) \in 2 .. Len(q))
    BY <1>2, <1>4, <2>3
  <2>5. Len(q) \in Nat /\ i - Len(pre) \in Nat /\ i \in Nat /\ Len(pre) \in Nat
    BY <1>2, <1>3, <2>3
  <2>6. i - Len(pre) = 1
    <3> DEFINE n == i - Len(pre)
    <3>1. n \in 1 .. Len(q) /\ ~(n \in 2 .. Len(q)) /\ Len(q) \in Nat
      BY <2>3, <2>4, <2>5
    <3> HIDE DEF n
    <3>2. n = 1
      BY <3>1
    <3> QED
      BY <3>2 DEF n
  <2>7. i = Len(pre) + 1
    BY <2>5, <2>6
  <2> QED
    BY <1>2, <2>3, <2>6, <2>7
<1>5. StopsFirst(p, hs, d)
  <2> SUFFICES ASSUME NEW i \in 1 .. Len(p), Removes(p[i])
               PROVE  /\ \A s \in (DOMAIN hs[Owner].files) \cap (DOMAIN hs[Owner].run) :
                           \/ p[i].op = "WriteUnits" /\ s \in d.services
                           \/ \E j \in 1 .. i - 1 : p[j] = Action("StopService", Owner, s)
                      /\ \A j \in 1 .. i - 1 : p[j].tenant = Owner => p[j].op \in Preparing
    BY DEF StopsFirst
  <2>1. i = Len(pre) + 1 /\ p[i] = m /\ i - 1 = Len(pre)
    BY <1>3, <1>4
  <2> QED
    BY <1>3, <2>1
<1> QED
  BY <1>5 DEF p, q


Members(p) == {p[i] : i \in 1 .. Len(p)}

LEMMA InJoin ==
    ASSUME NEW A, NEW p \in Seq(A), NEW q \in Seq(A)
    PROVE  Members(p \o q) = Members(p) \cup Members(q)
<1> DEFINE r == p \o q
<1>1. /\ r \in Seq(A) /\ Len(r) = Len(p) + Len(q) /\ Len(p) \in Nat /\ Len(q) \in Nat
      /\ \A i \in 1 .. Len(p) + Len(q) : r[i] = IF i <= Len(p) THEN p[i] ELSE q[i - Len(p)]
  BY ConcatProperties
<1> HIDE DEF r
<1>2. ASSUME NEW j \in 1 .. Len(r) PROVE r[j] \in Members(p) \cup Members(q)
  BY <1>1 DEF Members
<1>3. ASSUME NEW j \in 1 .. Len(p) PROVE p[j] \in Members(r)
  <2>1. j \in 1 .. Len(r) /\ r[j] = p[j]
    BY <1>1
  <2> QED
    BY <2>1 DEF Members
<1>4. ASSUME NEW j \in 1 .. Len(q) PROVE q[j] \in Members(r)
  <2>1. j + Len(p) \in 1 .. Len(r) /\ ~(j + Len(p) <= Len(p)) /\ (j + Len(p)) - Len(p) = j
    BY <1>1
  <2>2. r[j + Len(p)] = q[j]
    BY <1>1, <2>1
  <2> QED
    BY <2>1, <2>2 DEF Members
<1>5. Members(r) \subseteq Members(p) \cup Members(q)
  BY <1>2 DEF Members
<1>6. Members(p) \subseteq Members(r) /\ Members(q) \subseteq Members(r)
  BY <1>3, <1>4 DEF Members
<1> QED
  BY <1>5, <1>6 DEF r

Nested(a, b, c, e, f, g) == a \o ((b \o ((c \o e) \o f)) \o g)
Flat(a, b, c, e, f, g) == (a \o b) \o (c \o (e \o (f \o g)))

LEMMA Regroup ==
    ASSUME NEW a, NEW b, NEW c, NEW e, NEW f, NEW g
    PROVE  {a, b, c, e, f, g} \subseteq Seq(Actions) => Nested(a, b, c, e, f, g) = Flat(a, b, c, e, f, g)
<1> DEFINE fg == Join(f, g)
           efg == Join(e, fg)
           ce == Join(c, e)
           cef == Join(ce, f)
           cefg == Join(c, efg)
<1>1. ASSUME {a, b, c, e, f, g} \subseteq Seq(Actions)
      PROVE  Nested(a, b, c, e, f, g) = Flat(a, b, c, e, f, g)
  <2>1. /\ a \in Seq(Actions) /\ b \in Seq(Actions) /\ c \in Seq(Actions)
        /\ e \in Seq(Actions) /\ f \in Seq(Actions) /\ g \in Seq(Actions)
    BY <1>1
  <2>2. /\ fg \in Seq(Actions) /\ efg \in Seq(Actions) /\ ce \in Seq(Actions)
        /\ cef \in Seq(Actions) /\ cefg \in Seq(Actions)
    BY <2>1, JoinType
  <2>3. Join(cef, g) = Join(ce, fg)
    BY <2>1, <2>2, JoinAssociative
  <2>4. Join(ce, fg) = cefg
    BY <2>1, <2>2, JoinAssociative
  <2>5. Join(Join(b, cef), g) = Join(b, Join(cef, g))
    BY <2>1, <2>2, JoinAssociative
  <2>6. Join(Join(a, b), cefg) = Join(a, Join(b, cefg))
    BY <2>1, <2>2, JoinAssociative
  <2>7. Join(a, Join(Join(b, cef), g)) = Join(Join(a, b), cefg)
    BY <2>3, <2>4, <2>5, <2>6
  <2> QED
    BY <2>7, Zenon DEF Join, Nested, Flat
<1> QED
  BY <1>1

LEMMA Unmarked ==
    ASSUME NEW hs, NEW d, NEW p \in Seq({a \in Actions : ~Removes(a)})
    PROVE  StopsFirst(p, hs, d)
<1>1. \A i \in 1 .. Len(p) : ~Removes(p[i])
  <2> DEFINE W == {a \in Actions : ~Removes(a)}
  <2> HIDE DEF W
  <2>1. p \in Seq(W)
    BY DEF W
  <2>2. \A i \in 1 .. Len(p) : p[i] \in W
    BY <2>1, ElementOfSeq
  <2> QED
    BY <2>2 DEF W
<1> QED
  BY <1>1 DEF StopsFirst

\* A plan that converges, after the teardown of another tenant if there is one.
LEMMA ConvergeStopsFirst ==
    ASSUME NEW d \in OwnSpecs, NEW o \in Observed, NEW hs, NEW pre \in Seq(Actions),
           \A i \in 1 .. Len(pre) : pre[i].tenant # Owner,
           \A s \in (DOMAIN hs[Owner].files) \cap (DOMAIN hs[Owner].run) :
             s \in d.services \/ s \in Extra(d, o) \cap ActiveOf(o)
    PROVE  StopsFirst(pre \o (PlanConverge(d, o) \o << Sync >>), hs, d)
<1> DEFINE b == Preparation(d, o)
           r == Rewriting(d, o)
           f == Completion(d, o)
           W == {a \in Actions : ~Removes(a)}
           full == pre \o (PlanConverge(d, o) \o << Sync >>)
<1>1. PlanConverge(d, o) = b \o (r \o f)
  BY ConvergeOrder
<1>2. b \in Seq(Only(Preparing, Owner)) /\ f \in Seq(Only(ServiceOps \cup VolumeOps, Owner))
  BY ConvergeOrder
<1>3. Only(Preparing, Owner) \subseteq W /\ Only(ServiceOps \cup VolumeOps, Owner) \subseteq W
      /\ Sync \in W /\ W \subseteq Actions
  <2>1. Sync \in Actions /\ Sync.op = "SyncCaddy"
    BY DEF Sync, Action, Actions
  <2>2. \A ops, t : Only(ops, t) \subseteq {a \in Actions : a.op \in ops}
    BY DEF Only, Actions
  <2>3. \A x \in Preparing \cup ServiceOps \cup VolumeOps : x \notin Removing
    BY DEF Preparing, ServiceOps, VolumeOps, Removing
  <2> QED
    BY <2>1, <2>2, <2>3 DEF Removes, Removing
<1>4. pre \in Seq(W)
  <2>1. \A i \in 1 .. Len(pre) : pre[i] \in W
    BY ElementOfSeq DEF Removes
  <2> QED
    BY <2>1, IsASeq
<1>5. b \in Seq(W) /\ f \in Seq(W) /\ << Sync >> \in Seq(W) /\ << Sync >> \in Seq(Actions)
      /\ b \in Seq(Actions) /\ f \in Seq(Actions)
  <2>1. b \in Seq(W) /\ f \in Seq(W)
    BY <1>2, <1>3, SeqMonotonic
  <2> HIDE DEF b, f
  <2> QED
    BY <1>3, <2>1, SeqMonotonic
<1>6. CASE ~Rewrites(d, o)
  <2>1. r = <<>>
    BY <1>6 DEF Rewriting, If
  <2> HIDE DEF b, f, W, r
  <2>2. r \o f = f
    BY <1>5, <2>1, ConcatEmptySeq
  <2>3. PlanConverge(d, o) \in Seq(W)
    BY <1>1, <1>5, <2>2, ConcatProperties
  <2>4. PlanConverge(d, o) \o << Sync >> \in Seq(W)
    BY <1>5, <2>3, ConcatProperties
  <2>5. full \in Seq(W)
    BY <1>4, <2>4, ConcatProperties
  <2> QED
    BY <2>5, Unmarked DEF W
<1>7. CASE Rewrites(d, o)
  <2> DEFINE m == Action("WriteUnits", Owner, None)
             n == Action("DaemonReload", Owner, None)
             post == << n >> \o (f \o << Sync >>)
  <2>1. r = << m, n >>
    BY <1>7, OwnSpecFacts DEF Rewriting, If
  <2>2. m \in Actions /\ n \in W /\ n \in Actions /\ m.op = "WriteUnits"
    BY ConvergenceAssumption DEF Action, Actions, HostActions, TenantActions, TenantOps, Removes, Removing
  <2>3. r = << m >> \o << n >> /\ << m >> \in Seq(Actions) /\ << n >> \in Seq(Actions) /\ << n >> \in Seq(W)
    BY <2>1, <2>2, PairJoin
  <2> HIDE DEF m, n, b, f, r
  <2>4. full = (pre \o b) \o (<< m >> \o post)
    <3> DEFINE sm == << m >>
               sn == << n >>
               sy == << Sync >>
    <3>1. sm \in Seq(Actions) /\ sn \in Seq(Actions) /\ sy \in Seq(Actions) /\ r = sm \o sn
      BY <1>5, <2>3
    <3> HIDE DEF sm, sn, sy
    <3>2. {pre, b, sm, sn, f, sy} \subseteq Seq(Actions)
      BY <1>5, <3>1
    <3>4. Nested(pre, b, sm, sn, f, sy) = Flat(pre, b, sm, sn, f, sy)
      BY <3>2, Regroup
    <3>3. PlanConverge(d, o) = b \o ((sm \o sn) \o f)
      BY <1>1, <3>1
    <3> QED
      BY <3>3, <3>4 DEF sm, sn, sy, Nested, Flat
  <2>5. post \in Seq(W) /\ pre \o b \in Seq(Actions)
    BY <1>5, <2>3, ConcatProperties
  <2>6. \A i \in 1 .. Len(post) : ~Removes(post[i])
    <3> HIDE DEF W, post
    <3>1. \A i \in 1 .. Len(post) : post[i] \in W
      BY <2>5, ElementOfSeq
    <3> QED
      BY <3>1 DEF W
  <2>7. \A i \in 1 .. Len(pre \o b) : (pre \o b)[i].tenant = Owner => (pre \o b)[i].op \in Preparing
    <3> DEFINE V == {a \in Actions : a.tenant = Owner => a.op \in Preparing}
    <3>1. \A i \in 1 .. Len(pre) : pre[i] \in V
      BY ElementOfSeq
    <3>2. pre \in Seq(V)
      BY <3>1, IsASeq
    <3>3. Only(Preparing, Owner) \subseteq V
      BY DEF Only, Actions
    <3>4. b \in Seq(V)
      BY <1>2, <3>3, SeqMonotonic DEF b
    <3> HIDE DEF V
    <3>5. pre \o b \in Seq(V)
      BY <3>2, <3>4, ConcatProperties
    <3>6. \A i \in 1 .. Len(pre \o b) : (pre \o b)[i] \in V
      BY <3>5, ElementOfSeq
    <3> QED
      BY <3>6 DEF V
  <2>8. \A s \in Extra(d, o) \cap ActiveOf(o) :
          \E j \in 1 .. Len(pre \o b) : (pre \o b)[j] = Action("StopService", Owner, s)
    <3> TAKE s \in Extra(d, o) \cap ActiveOf(o)
    <3> DEFINE x == Action("StopService", Owner, s)
               e == Entering(d, o)
               v == NewVolumes(d, o)
               w == ExtraStops(d, o)
               u == e \o v
    <3>1. IsFiniteSet(Extra(d, o) \cap ActiveOf(o))
      BY ObservedFinite, FS_Subset
    <3>2. \E j \in 1 .. Len(w) : w[j] = x
      BY <3>1, ForEachHas, OwnSpecFacts DEF ExtraStops
    <3>3. b = u \o w
      BY DEF Preparation, b
    <3>4. e \in Seq(Actions) /\ v \in Seq(Actions) /\ w \in Seq(Actions)
      <4>1. \A ops : Only(ops, d.tenant) \subseteq Actions
        BY DEF Only, Actions
      <4> QED
        BY <4>1, ConvergePartsAre, SeqMonotonic
    <3>5. u \in Seq(Actions)
      BY <3>4, ConcatProperties
    <3> HIDE DEF x, e, v, w, u
    <3>6. x \in Members(w)
      BY <3>2 DEF Members
    <3>7. Members(b) = Members(u) \cup Members(w) /\ Members(pre \o b) = Members(pre) \cup Members(b)
      <4>1. u \in Seq(Actions) /\ w \in Seq(Actions)
        BY <3>4, <3>5
      <4>2. Members(b) = Members(u) \cup Members(w)
        BY <3>3, <4>1, InJoin
      <4>3. b \in Seq(Actions)
        BY <1>5
      <4>4. Members(pre \o b) = Members(pre) \cup Members(b)
        BY <4>3, InJoin
      <4> QED
        BY <4>2, <4>4
    <3>8. x \in Members(pre \o b)
      BY <3>6, <3>7
    <3> QED
      BY <3>8 DEF x, Members
  <2>9. \A s \in (DOMAIN hs[Owner].files) \cap (DOMAIN hs[Owner].run) :
          \/ m.op = "WriteUnits" /\ s \in d.services
          \/ \E j \in 1 .. Len(pre \o b) : (pre \o b)[j] = Action("StopService", Owner, s)
    BY <2>2, <2>8
  <2> DEFINE before == pre \o b
  <2> HIDE DEF before, post
  <2>10. post \in Seq(Actions)
    BY <1>3, <2>5, SeqMonotonic
  <2>11. StopsFirst(before \o (<< m >> \o post), hs, d)
    BY <2>2, <2>5, <2>6, <2>7, <2>9, <2>10, MarkedPlan DEF before
  <2> QED
    BY <2>4, <2>11 DEF before
<1> QED
  BY <1>6, <1>7


LEMMA FreshStopsFirst ==
    ASSUME NEW hs \in [Tenants -> HostType], HostsTidy(hs), NEW d \in OwnSpecs \cup {None},
           NEW obs \in Observations(hs)
    PROVE  StopsFirst(Plan(d, obs), hs, d)
<1> DEFINE h == hs[Owner]
           W == {a \in Actions : ~Removes(a)}
<1>1. /\ Owner \in Tenants /\ obs \in Observed \cup {None} /\ h \in HostType
      /\ \A t \in Tenants : hs[t].user \/ hs[t] = EmptyHost
  BY ConvergenceAssumption, ObservationsTyped DEF HostsTidy
<1>2. obs # None /\ obs.tenant # Owner => DOMAIN h.files = {}
  <2> SUFFICES ASSUME obs # None, obs.tenant # Owner PROVE DOMAIN h.files = {}
    OBVIOUS
  <2>1. obs.tenant \in Tenants /\ HasArtifacts(hs[obs.tenant])
    BY <1>1, ObservationIs
  <2>2. hs[obs.tenant].dirs # {}
    BY <2>1 DEF HostsTidy, HasArtifacts
  <2>3. ~HasArtifacts(h)
    BY <2>1, <2>2 DEF HostsTidy
  <2> QED
    BY <2>3 DEF HasArtifacts
<1>3. obs = None => DOMAIN h.files = {}
  <2> SUFFICES ASSUME obs = None PROVE DOMAIN h.files = {}
    OBVIOUS
  <2>1. ~HasArtifacts(h)
    BY <1>1, ObservationIs
  <2> QED
    BY <2>1 DEF HasArtifacts
<1>4. obs # None /\ obs.tenant = Owner => ActiveOf(obs) = DOMAIN h.run /\ DOMAIN h.run \subseteq DOMAIN obs.units
  BY <1>1, ObservationIs
<1>5. CASE d = None
  <2>1. CASE obs = None
    <3>1. Plan(d, obs) = <<>> /\ <<>> \in Seq(W)
      BY <1>5, <2>1, PlanCases
    <3> QED
      BY <3>1, Unmarked
  <2>2. CASE obs # None /\ obs.tenant # Owner
    <3>1. Sync \in W /\ W \subseteq Actions
      BY DEF Sync, Action, Actions, Removes, Removing
    <3>2. Only(TeardownOps, obs.tenant) \subseteq W
      BY <2>2 DEF Only, Actions, Removes
    <3> HIDE DEF W
    <3>3. Plan(d, obs) \in Seq(W)
      BY <1>1, <1>5, <3>1, <3>2, PlanOver
    <3> QED
      BY <3>3, Unmarked DEF W
  <2>3. CASE obs # None /\ obs.tenant = Owner
    <3> DEFINE B == Only({"DaemonReload", "RemoveVolumeDir", "RemoveTenantIfEmpty"}, Owner)
               e == Action("RemoveUnits", Owner, None)
               pre == Stops(obs)
    <3>1. obs \in Observed
      BY <1>1, <2>3
    <3>2. PICK q \in Seq(B) : PlanTeardown(obs) = pre \o << e >> \o q
      BY <2>3, <3>1, TeardownOrder
    <3>3. B \subseteq W /\ Sync \in W /\ W \subseteq Actions /\ e \in Actions
      BY <1>1 DEF Only, Actions, HostActions, TenantActions, TenantOps, Removes, Removing, Sync, Action
    <3>4. pre \in Seq(Only({"StopService"}, Owner))
      BY <2>3, <3>1, TeardownIs
    <3>5. Only({"StopService"}, Owner) \subseteq Actions
      BY DEF Only, Actions
    <3>6. pre \in Seq(Actions)
      BY <3>4, <3>5, SeqMonotonic
    <3>7. \A i \in 1 .. Len(pre) : pre[i].tenant = Owner => pre[i].op \in Preparing
      <4> HIDE DEF pre
      <4>1. \A i \in 1 .. Len(pre) : pre[i] \in Only({"StopService"}, Owner)
        BY <3>4, ElementOfSeq
      <4> QED
        BY <4>1 DEF Only, Preparing
    <3>8. \A s \in (DOMAIN hs[Owner].files) \cap (DOMAIN hs[Owner].run) :
            \E j \in 1 .. Len(pre) : pre[j] = Action("StopService", Owner, s)
      <4>1. IsFiniteSet(ActiveOf(obs))
        BY <3>1, ObservedFinite
      <4> QED
        BY <1>4, <2>3, <4>1, ForEachHas DEF Stops
    <3> DEFINE post == q \o << Sync >>
    <3> HIDE DEF B, W, e, pre
    <3>9. q \in Seq(W) /\ << Sync >> \in Seq(W)
      BY <3>3, SeqMonotonic
    <3>10. post \in Seq(W)
      BY <3>9, ConcatProperties
    <3>11. \A i \in 1 .. Len(post) : ~Removes(post[i])
      <4> HIDE DEF post
      <4>1. \A i \in 1 .. Len(post) : post[i] \in W
        BY <3>10, ElementOfSeq
      <4> QED
        BY <4>1 DEF W
    <3>12. post \in Seq(Actions) /\ q \in Seq(Actions) /\ << Sync >> \in Seq(Actions)
      BY <3>3, <3>9, <3>10, SeqMonotonic
    <3>13. Plan(d, obs) = pre \o (<< e >> \o post)
      <4> DEFINE se == << e >>
                 sy == << Sync >>
      <4>1. Plan(d, obs) = ((pre \o se) \o q) \o sy
        BY <1>5, <3>1, <3>2, TeardownPlan
      <4>2. se \in Seq(Actions) /\ sy \in Seq(Actions)
        BY <3>3, <3>12
      <4> HIDE DEF se, sy
      <4>3. pre \o se \in Seq(Actions)
        BY <3>6, <4>2, ConcatProperties
      <4>4. ((pre \o se) \o q) \o sy = (pre \o se) \o (q \o sy)
        <5>1. Join(Join(Join(pre, se), q), sy) = Join(Join(pre, se), Join(q, sy))
          BY <3>6, <3>12, <4>2, JoinType, JoinAssociative
        <5> QED
          BY <5>1, Zenon DEF Join
      <4>5. q \o sy \in Seq(Actions)
        BY <3>12, <4>2, ConcatProperties
      <4>6. (pre \o se) \o (q \o sy) = pre \o (se \o (q \o sy))
        <5>1. Join(Join(pre, se), Join(q, sy)) = Join(pre, Join(se, Join(q, sy)))
          BY <3>6, <3>12, <4>2, JoinType, JoinAssociative
        <5> QED
          BY <5>1, Zenon DEF Join
      <4> QED
        BY <4>1, <4>4, <4>6 DEF se, sy
    <3> HIDE DEF post
    <3> QED
      BY <3>3, <3>6, <3>7, <3>8, <3>11, <3>12, <3>13, MarkedPlan
  <2> QED
    BY <2>1, <2>2, <2>3
<1>6. CASE d # None
  <2> DEFINE nothing == NothingObserved(Owner)
             q == PlanConverge(d, nothing) \o << Sync >>
  <2>1. d \in OwnSpecs
    BY <1>6
  <2>2. nothing \in Observed /\ q \in Seq(Actions)
    <3>1. PlanConverge(d, nothing) \in Seq(Actions) /\ nothing \in Observed
      BY <1>1, <2>1, ConvergePlan
    <3>2. << Sync >> \in Seq(Actions)
      BY DEF Sync, Actions
    <3> QED
      BY <3>1, <3>2, ConcatProperties
  <2>3. CASE obs = None
    <3>1. Plan(d, obs) = q /\ <<>> \o q = q /\ <<>> \in Seq(Actions) /\ Len(<<>>) = 0
      <4>1. Plan(d, obs) = q
        BY <1>1, <2>1, <2>3, ConvergePlan
      <4> HIDE DEF q
      <4>2. <<>> \o q = q /\ <<>> \in Seq(Actions) /\ Len(<<>>) = 0
        BY <2>2, ConcatEmptySeq
      <4> QED
        BY <4>1, <4>2
    <3> DEFINE pre == <<>>
    <3>2. /\ pre \in Seq(Actions) /\ pre \o q = q
          /\ \A i \in 1 .. Len(pre) : pre[i].tenant # Owner
      BY <3>1
    <3> HIDE DEF pre
    <3>3. StopsFirst(pre \o q, hs, d)
      BY <1>3, <2>1, <2>2, <2>3, <3>2, ConvergeStopsFirst
    <3> QED
      BY <3>1, <3>2, <3>3
  <2>4. CASE obs # None /\ obs.tenant # Owner
    <3> DEFINE pre == PlanTeardown(obs)
    <3>1. obs \in Observed
      BY <1>1, <2>4
    <3>2. Plan(d, obs) = pre \o q
      BY <2>1, <2>4, <3>1, ConvergePlan
    <3>3. pre \in Seq(Actions) /\ \A i \in 1 .. Len(pre) : pre[i].tenant # Owner
      <4>1. pre \in Seq(Only(TeardownOps, obs.tenant)) /\ pre \in Seq(Actions)
        BY <3>1, TeardownIs, TeardownPlan
      <4> HIDE DEF pre
      <4>2. \A i \in 1 .. Len(pre) : pre[i] \in Only(TeardownOps, obs.tenant)
        BY <4>1, ElementOfSeq
      <4> QED
        BY <2>4, <4>1, <4>2 DEF Only
    <3> HIDE DEF pre
    <3>4. StopsFirst(pre \o q, hs, d)
      BY <1>2, <2>1, <2>2, <2>4, <3>3, ConvergeStopsFirst
    <3> QED
      BY <3>2, <3>4
  <2>5. CASE obs # None /\ obs.tenant = Owner
    <3> DEFINE r == PlanConverge(d, obs) \o << Sync >>
    <3>1. obs \in Observed
      BY <1>1, <2>5
    <3>2. \/ Plan(d, obs) = <<>>
          \/ Plan(d, obs) = r
      BY <2>1, <2>5, <3>1, ConvergePlan
    <3>3. StopsFirst(<<>>, hs, d)
      <4>1. <<>> \in Seq(W)
        OBVIOUS
      <4> QED
        BY <4>1, Unmarked
    <3>4. StopsFirst(r, hs, d)
      <4>1. r \in Seq(Actions)
        <5>1. PlanConverge(d, obs) \in Seq(Actions)
          BY <2>1, <3>1, ConvergePlan
        <5>2. << Sync >> \in Seq(Actions)
          BY DEF Sync, Actions
        <5> QED
          BY <5>1, <5>2, ConcatProperties
      <4>2. \A s \in (DOMAIN hs[Owner].files) \cap (DOMAIN hs[Owner].run) :
              s \in d.services \/ s \in Extra(d, obs) \cap ActiveOf(obs)
        BY <1>4, <2>5 DEF Extra
      <4> DEFINE pre == <<>>
      <4>3. pre \in Seq(Actions) /\ \A i \in 1 .. Len(pre) : pre[i].tenant # Owner
        OBVIOUS
      <4>4. pre \o r = r
        <5> HIDE DEF r
        <5> QED
          BY <4>1, ConcatEmptySeq
      <4> HIDE DEF pre
      <4>5. StopsFirst(pre \o r, hs, d)
        BY <2>1, <3>1, <4>2, <4>3, ConvergeStopsFirst
      <4> QED
        BY <4>4, <4>5
    <3> QED
      BY <3>2, <3>3, <3>4
  <2> QED
    BY <2>3, <2>4, <2>5
<1> QED
  BY <1>5, <1>6


-----------------------------------------------------------------------------
(* Every step keeps the order.                                             *)

LEMMA FreshOrderly ==
    ASSUME ConvTyped, HostsTidy(host), NEW obs \in Observations(host)
    PROVE  LET p == Plan(Desired, obs) IN
           OwnerAdds(p) /\ LeftoverFirst(p, host) /\ StopsFirst(p, host, Desired)
<1>1. /\ Desired \in OwnSpecs \cup {None} /\ host \in [Tenants -> HostType]
      /\ obs \in Observed \cup {None}
  BY DesiredTyped, ObservationsTyped DEF ConvTyped
<1>2. OwnerAdds(Plan(Desired, obs))
  BY <1>1, FreshOwnerAdds
<1>3. LeftoverFirst(Plan(Desired, obs), host)
  BY <1>1, FreshLeftoverFirst
<1>4. StopsFirst(Plan(Desired, obs), host, Desired)
  BY <1>1, FreshStopsFirst
<1> QED
  BY <1>2, <1>3, <1>4

LEMMA EmptyOrderly ==
    ASSUME NEW hs, NEW d
    PROVE  OwnerAdds(<<>>) /\ LeftoverFirst(<<>>, hs) /\ StopsFirst(<<>>, hs, d)
  BY DEF OwnerAdds, LeftoverFirst, StopsFirst

LEMMA InitOrderly == Init => Orderly
<1> SUFFICES ASSUME Init PROVE HostsTidy(host)
  BY EmptyOrderly DEF Init, Orderly
<1>1. PICK left \in {EmptyHost} \cup {[EmptyHost EXCEPT !.user = TRUE, !.dirs = {v}] : v \in Volumes},
           t \in Tenants : host = [u \in Tenants |-> IF u = t THEN left ELSE EmptyHost]
  BY DEF Init
<1>2. /\ DOMAIN EmptyHost.files = {} /\ DOMAIN EmptyHost.run = {} /\ DOMAIN EmptyHost.builds = {}
      /\ EmptyHost.dirs = {} /\ ~HasArtifacts(EmptyHost)
  BY NoMapTyped DEF EmptyHost, HasArtifacts
<1>3. /\ left.user \/ left = EmptyHost
      /\ DOMAIN left.files = {} /\ DOMAIN left.run = {} /\ DOMAIN left.builds = {}
  BY <1>1, <1>2 DEF EmptyHost
<1>4. \A u \in Tenants : host[u] = IF u = t THEN left ELSE EmptyHost
  BY <1>1
<1>5. Owner \in Tenants
  BY ConvergenceAssumption
<1>6. \A u \in Tenants : host[u].user \/ host[u] = EmptyHost
  BY <1>3, <1>4
<1>7. ASSUME NEW u \in Tenants \ {Owner}
      PROVE  /\ DOMAIN host[u].files = {} /\ DOMAIN host[u].run = {} /\ DOMAIN host[u].builds = {}
             /\ host[u].dirs # {} => /\ ~HasArtifacts(host[Owner])
                                     /\ \A w \in Tenants \ {Owner, u} : host[w].dirs = {}
  BY <1>2, <1>3, <1>4, <1>5
<1> QED
  BY <1>6, <1>7 DEF HostsTidy

LEMMA NextOrderly ==
    ASSUME ConvTyped, Orderly, [Next]_vars, faults' = 0
    PROVE  faults = 0 /\ ~Disturbance /\ Orderly'
<1>1. faults \in Nat
  BY ConvergenceAssumption DEF ConvTyped
<1>2. ~Disturbance
  BY <1>1 DEF Disturbance, BeginBlindCycle, ActionFails, Restart, Drift, Fault
<1>3. faults = 0
  BY <1>2 DEF Next, ApiWrite, CreateStack, EditStack, DeleteStack, ToggleSuspension, Write, Reconcile,
              BeginCycle, BuildRoutes, ExecuteAction, FinishCycle, ActionImpossible, StepNameRaises, vars
<1>4. HostsTidy(host) /\ OwnerAdds(plan) /\ LeftoverFirst(plan, host) /\ StopsFirst(plan, host, spec)
  BY <1>3 DEF Orderly
<1>5. ASSUME UNCHANGED <<host, spec, plan>> PROVE Orderly'
  BY <1>4, <1>5 DEF Orderly
<1>6. ASSUME host' = host, plan' = <<>> PROVE Orderly'
  BY <1>4, <1>6, EmptyOrderly DEF Orderly
<1>7. ASSUME ExecuteAction PROVE Orderly'
  BY <1>3, <1>7, ActionOrderly
<1>8. ASSUME BeginCycle PROVE Orderly'
  <2>1. PICK obs \in Observations(host) : Cycle(obs)
    BY <1>8 DEF BeginCycle
  <2>2. CASE UNCHANGED <<spec, plan>>
    BY <1>5, <2>1, <2>2 DEF Cycle
  <2>3. CASE plan' = Plan(Desired, obs) /\ spec' = Desired
    <3>1. host' = host
      BY <2>1 DEF Cycle
    <3>2. HostsTidy(host) /\ OwnerAdds(plan') /\ LeftoverFirst(plan', host) /\ StopsFirst(plan', host, spec')
      BY <1>4, <2>3, FreshOrderly
    <3> QED
      BY <3>1, <3>2 DEF Orderly
  <2> QED
    BY <2>1, <2>2, <2>3 DEF Cycle, cycleVars
<1>9. ASSUME FinishCycle \/ ActionImpossible \/ StepNameRaises PROVE Orderly'
  BY <1>6, <1>9 DEF FinishCycle, ActionImpossible, AbandonPlan, StepNameRaises, EndCycle
<1>10. ASSUME ApiWrite \/ BuildRoutes \/ UNCHANGED vars PROVE Orderly'
  BY <1>5, <1>10 DEF ApiWrite, CreateStack, EditStack, DeleteStack, ToggleSuspension, Write, BuildRoutes,
                     vars, cycleVars
<1> QED
  BY <1>2, <1>3, <1>7, <1>8, <1>9, <1>10 DEF Next, Reconcile

LEMMA KeepsOrderly == ConvTyped /\ Orderly /\ [Next]_vars => Orderly'
  BY NextOrderly DEF Orderly

LEMMA AlwaysOrderly == Spec => []Orderly
  BY AlwaysTyped, InitOrderly, KeepsOrderly, PTL DEF Spec

LEMMA StepStopsFirst ==
    ASSUME ConvTyped, Orderly, [Next]_vars, faults' = 0,
           NEW t \in Tenants, NEW s \in DOMAIN host[t].files, s \notin DOMAIN host'[t].files
    PROVE  s \notin DOMAIN host[t].run
<1> DEFINE a == Head(plan)
           h == host[t]
           k == Effect(h, a, spec)
<1>1. /\ faults = 0 /\ ~Disturbance
      /\ HostsTidy(host) /\ OwnerAdds(plan) /\ StopsFirst(plan, host, spec)
  BY NextOrderly DEF Orderly
<1>2. ExecuteAction /\ a.op # "SyncCaddy"
  <2>1. host' # host
    OBVIOUS
  <2> QED
    BY <1>1, <2>1 DEF Next, ApiWrite, CreateStack, EditStack, DeleteStack, ToggleSuspension, Write,
       Reconcile, BeginCycle, Cycle, BuildRoutes, ExecuteAction, FinishCycle, ActionImpossible,
       AbandonPlan, StepNameRaises, vars
<1>3. a \in Actions /\ a = plan[1] /\ 1 \in 1 .. Len(plan)
  BY <1>2, PlanTail DEF ConvTyped, ExecuteAction
<1>4. /\ a \in HostActions /\ a.tenant \in Tenants
      /\ a.op = "WriteUnits" => spec # None
      /\ spec \in OwnSpecs \cup {None} /\ h \in HostType
  BY <1>2, <1>3 DEF Actions, Action, HostActions, ServiceActions, VolumeActions, TenantActions,
     ConvTyped, CycleTyped
<1>5. Executable(host[a.tenant], a) /\ host' = [host EXCEPT ![a.tenant] = Effect(@, a, spec)]
  BY <1>2 DEF ExecuteAction
<1>6. a.tenant = t /\ host'[t] = k /\ Executable(h, a)
  BY <1>4, <1>5 DEF ConvTyped
<1>7. h.user \/ h = EmptyHost
  BY <1>1 DEF HostsTidy
<1> HIDE DEF a, k, h
<1>8. /\ a.op \notin Removing => DOMAIN h.files \subseteq DOMAIN k.files
      /\ a.op = "WriteUnits" => DOMAIN k.files = spec.services
  BY <1>4, <1>6, <1>7, EffectIs DEF k
<1>9. s \in DOMAIN h.files /\ s \notin DOMAIN k.files
  BY <1>6 DEF h
<1>10. a.op \in Removing /\ t = Owner
  BY <1>1, <1>8, <1>9 DEF HostsTidy, h
<1>11. Removes(plan[1])
  BY <1>3, <1>6, <1>10 DEF Removes
<1>12. \A x \in (DOMAIN host[Owner].files) \cap (DOMAIN host[Owner].run) :
          \/ plan[1].op = "WriteUnits" /\ x \in spec.services
          \/ \E j \in 1 .. 1 - 1 : plan[j] = Action("StopService", Owner, x)
  BY <1>1, <1>3, <1>11 DEF StopsFirst
<1>13. \A x \in (DOMAIN h.files) \cap (DOMAIN h.run) : a.op = "WriteUnits" /\ x \in spec.services
  BY <1>3, <1>10, <1>12 DEF h
<1> QED
  BY <1>8, <1>9, <1>13 DEF h

\* Order of the plan: no interleaving of API writes with the actions of the
\* reconciler removes the unit file of a service the container of which still
\* runs, for as long as no action or observation has failed.
THEOREM UnitsStopFirst == Spec => StoppedBeforeRemoved
<1>1. ASSUME ConvTyped, Orderly, [Next]_vars
      PROVE  faults' = 0 =>
               \A t \in Tenants : \A s \in DOMAIN host[t].files :
                 s \notin DOMAIN host'[t].files => s \notin DOMAIN host[t].run
  BY <1>1, StepStopsFirst
<1> QED
  BY <1>1, AlwaysTyped, AlwaysOrderly, PTL DEF Spec, StoppedBeforeRemoved


-----------------------------------------------------------------------------
(* Running a plan.                                                         *)

\* A run is the list of what each action leaves.
Steps(f, acc, p, d, k) == f[0] = acc /\ \A i \in 1 .. k : f[i] = RunStep(f[i - 1], p[i], d)
IsRun(f, acc, p, d) == f = [i \in 0 .. Len(p) |-> f[i]] /\ Steps(f, acc, p, d, Len(p))

LEMMA RunIs ==
    ASSUME NEW acc, NEW p \in Seq(Actions), NEW d
    PROVE  \E f : IsRun(f, acc, p, d) /\ RunFrom(acc, p, d) = f[Len(p)]
<1> DEFINE n == Len(p)
           T == {k \in Nat : \E f : f = [i \in 0 .. k |-> f[i]] /\ Steps(f, acc, p, d, k)}
<1>1. n \in Nat
  OBVIOUS
<1>2. 0 \in T
  <2> DEFINE g == [i \in 0 .. 0 |-> acc]
  <2>1. g = [i \in 0 .. 0 |-> g[i]] /\ Steps(g, acc, p, d, 0)
    BY DEF Steps
  <2> HIDE DEF g
  <2> QED
    BY <2>1
<1>3. ASSUME NEW k \in 1 .. n, k - 1 \in T PROVE k \in T
  <2>1. PICK f : f = [i \in 0 .. k - 1 |-> f[i]] /\ Steps(f, acc, p, d, k - 1)
    BY <1>3
  <2> DEFINE g == [i \in 0 .. k |-> IF i = k THEN RunStep(f[k - 1], p[k], d) ELSE f[i]]
  <2>2. g = [i \in 0 .. k |-> g[i]] /\ g[0] = acc
    BY <1>1, <2>1 DEF Steps
  <2>3. Steps(g, acc, p, d, k)
    <3> SUFFICES ASSUME NEW i \in 1 .. k PROVE g[i] = RunStep(g[i - 1], p[i], d)
      BY <2>2 DEF Steps
    <3>1. i - 1 \in 0 .. k /\ i - 1 # k /\ i \in 0 .. k
      BY <1>1
    <3>2. CASE i = k
      BY <3>1, <3>2
    <3>3. CASE i # k
      <4>1. i \in 1 .. k - 1
        BY <1>1, <3>3
      <4> QED
        BY <2>1, <3>1, <3>3, <4>1 DEF Steps
    <3> QED
      BY <3>2, <3>3
  <2>4. k \in Nat
    BY <1>1
  <2> HIDE DEF g
  <2> QED
    BY <2>2, <2>3, <2>4
<1>4. n \in T
  <2> HIDE DEF T, n
  <2>1. 0 .. n \subseteq T
    BY <1>1, <1>2, <1>3, UpTo
  <2> QED
    BY <1>1, <2>1
<1>5. PICK f : f = [i \in 0 .. n |-> f[i]] /\ Steps(f, acc, p, d, n)
  BY <1>4
<1> DEFINE run == CHOOSE g : g = [i \in 0 .. n |-> IF i = 0 THEN acc ELSE RunStep(g[i - 1], p[i], d)]
<1>6. RunFrom(acc, p, d) = run[n]
  BY DEF RunFrom
<1>7. f = [i \in 0 .. n |-> IF i = 0 THEN acc ELSE RunStep(f[i - 1], p[i], d)]
  <2> HIDE DEF n
  <2>1. \A i \in 0 .. n : f[i] = IF i = 0 THEN acc ELSE RunStep(f[i - 1], p[i], d)
    <3> TAKE i \in 0 .. n
    <3>1. f[0] = acc
      BY <1>5 DEF Steps
    <3>2. i # 0 => i \in 1 .. n
      BY <1>1
    <3>3. i # 0 => f[i] = RunStep(f[i - 1], p[i], d)
      BY <1>5, <3>2 DEF Steps
    <3> QED
      BY <3>1, <3>3
  <2>2. [i \in 0 .. n |-> f[i]] = [i \in 0 .. n |-> IF i = 0 THEN acc ELSE RunStep(f[i - 1], p[i], d)]
    BY <2>1
  <2> QED
    BY <1>5, <2>2
<1>8. run = [i \in 0 .. n |-> IF i = 0 THEN acc ELSE RunStep(run[i - 1], p[i], d)]
  BY <1>7
<1> HIDE DEF run, n
<1>9. run = [i \in 0 .. n |-> run[i]]
  BY <1>8
<1>10. run[0] = acc /\ \A i \in 1 .. n : run[i] = RunStep(run[i - 1], p[i], d)
  BY <1>1, <1>8
<1>11. IsRun(run, acc, p, d)
  BY <1>9, <1>10 DEF IsRun, Steps, n
<1> QED
  BY <1>6, <1>11 DEF n

LEMMA RunUnique ==
    ASSUME NEW acc, NEW p \in Seq(Actions), NEW d, NEW k \in 0 .. Len(p), NEW f, NEW g,
           Steps(f, acc, p, d, k), Steps(g, acc, p, d, k)
    PROVE  f[k] = g[k]
<1> DEFINE T == {i \in 0 .. k : f[i] = g[i]}
<1>1. k \in Nat /\ 0 \in T
  BY DEF Steps
<1>2. ASSUME NEW i \in 1 .. k, i - 1 \in T PROVE i \in T
  <2>1. f[i - 1] = g[i - 1]
    BY <1>2
  <2>2. f[i] = g[i]
    BY <2>1 DEF Steps
  <2> QED
    BY <1>1, <2>2
<1> HIDE DEF T
<1>3. 0 .. k \subseteq T
  BY <1>1, <1>2, UpTo
<1> QED
  BY <1>1, <1>3 DEF T

LEMMA RunEmpty ==
    ASSUME NEW acc, NEW d
    PROVE  RunFrom(acc, <<>>, d) = acc
<1>1. <<>> \in Seq(Actions) /\ Len(<<>>) = 0
  OBVIOUS
<1>2. PICK f : IsRun(f, acc, <<>>, d) /\ RunFrom(acc, <<>>, d) = f[Len(<<>>)]
  BY <1>1, RunIs
<1> QED
  BY <1>1, <1>2 DEF IsRun, Steps

LEMMA RunOne ==
    ASSUME NEW acc, NEW d, NEW a \in Actions
    PROVE  RunFrom(acc, << a >>, d) = RunStep(acc, a, d)
<1> DEFINE p == << a >>
<1>1. p \in Seq(Actions) /\ Len(p) = 1 /\ p[1] = a
  OBVIOUS
<1> HIDE DEF p
<1>2. PICK f : IsRun(f, acc, p, d) /\ RunFrom(acc, p, d) = f[Len(p)]
  BY <1>1, RunIs
<1>3. f[1] = RunStep(f[1 - 1], p[1], d) /\ f[0] = acc
  BY <1>1, <1>2 DEF IsRun, Steps
<1> QED
  BY <1>1, <1>2, <1>3 DEF p

\* Two plans one after the other.
LEMMA RunJoin ==
    ASSUME NEW acc, NEW p \in Seq(Actions), NEW q \in Seq(Actions), NEW d
    PROVE  RunFrom(acc, p \o q, d) = RunFrom(RunFrom(acc, p, d), q, d)
<1> DEFINE r == p \o q
           m == Len(p)
           n == Len(q)
           mid == RunFrom(acc, p, d)
<1>1. /\ r \in Seq(Actions) /\ Len(r) = m + n /\ m \in Nat /\ n \in Nat
      /\ \A i \in 1 .. m : r[i] = p[i]
      /\ \A i \in 1 .. n : r[m + i] = q[i]
  <2>1. r \in Seq(Actions) /\ Len(r) = m + n /\ m \in Nat /\ n \in Nat
        /\ \A i \in 1 .. m + n : r[i] = IF i <= m THEN p[i] ELSE q[i - m]
    BY ConcatProperties
  <2> HIDE DEF r, m, n
  <2>2. \A i \in 1 .. n : m + i \in 1 .. m + n /\ ~(m + i <= m) /\ (m + i) - m = i
    BY <2>1
  <2> QED
    BY <2>1, <2>2
<1> HIDE DEF r
<1>2. PICK f : IsRun(f, acc, r, d) /\ RunFrom(acc, r, d) = f[Len(r)]
  <2>1. r \in Seq(Actions)
    BY <1>1
  <2> QED
    BY <2>1, RunIs
<1>3. PICK g : IsRun(g, acc, p, d) /\ mid = g[Len(p)]
  BY RunIs
<1>4. PICK h : IsRun(h, mid, q, d) /\ RunFrom(mid, q, d) = h[Len(q)]
  BY RunIs
<1> HIDE DEF mid, m, n
<1>5. f[m] = g[m]
  <2>1. Steps(f, acc, p, d, m)
    <3> SUFFICES ASSUME NEW i \in 1 .. m PROVE f[i] = RunStep(f[i - 1], p[i], d)
      BY <1>2 DEF Steps, IsRun
    <3>1. i \in 1 .. Len(r) /\ r[i] = p[i]
      BY <1>1
    <3> QED
      BY <1>2, <3>1 DEF Steps, IsRun
  <2>2. Steps(g, acc, p, d, m)
    BY <1>3 DEF IsRun, m
  <2>3. m \in 0 .. Len(p)
    BY <1>1 DEF m
  <2> QED
    BY <2>1, <2>2, <2>3, RunUnique
<1>6. f[m] = mid
  BY <1>3, <1>5 DEF m
<1> DEFINE e == [i \in 0 .. n |-> f[m + i]]
<1>7. e[0] = mid /\ e[n] = f[m + n]
  BY <1>1, <1>6
<1>8. \A i \in 1 .. n : e[i] = RunStep(e[i - 1], q[i], d)
  <2> TAKE i \in 1 .. n
  <2>1. i \in 0 .. n /\ i - 1 \in 0 .. n /\ m + i \in 1 .. Len(r) /\ (m + i) - 1 = m + (i - 1)
    BY <1>1
  <2>2. f[m + i] = RunStep(f[(m + i) - 1], r[m + i], d)
    BY <1>2, <2>1 DEF IsRun, Steps
  <2>3. e[i] = f[m + i] /\ e[i - 1] = f[m + (i - 1)]
    BY <2>1
  <2>4. r[m + i] = q[i]
    BY <1>1
  <2> HIDE DEF e
  <2> QED
    BY <2>1, <2>2, <2>3, <2>4
<1> HIDE DEF e
<1>9. Steps(h, mid, q, d, n) /\ Steps(e, mid, q, d, n)
  BY <1>4, <1>7, <1>8 DEF IsRun, Steps, n
<1>10. n \in 0 .. Len(q)
  BY <1>1 DEF n
<1>11. e[n] = h[n]
  BY <1>9, <1>10, RunUnique
<1> QED
  BY <1>1, <1>2, <1>4, <1>7, <1>11 DEF r, mid, n


\* Executed one after the other on one tenant's host, the actions of p take
\* every host of K to one of L, and the other hosts stay as they are.
Worlds(hs, t, K) == {[ok |-> TRUE, hs |-> [hs EXCEPT ![t] = k]] : k \in K}

Leads(t, K, p, d, L) ==
    \A hs \in [Tenants -> HostType] : \A acc \in Worlds(hs, t, K) : RunFrom(acc, p, d) \in Worlds(hs, t, L)

Does(a, d, K, L) ==
    \A k \in K : (Executable(k, a) \/ a.op = "ZeroDowntimeDeploy") /\ Effect(k, a, d) \in L

On(t) == {a \in HostActions : a.tenant = t}

LEMMA StepLeads ==
    ASSUME NEW t \in Tenants, NEW a \in On(t), NEW K \in SUBSET HostType, NEW L, NEW d,
           Does(a, d, K, L), NEW hs \in [Tenants -> HostType], NEW acc \in Worlds(hs, t, K)
    PROVE  RunStep(acc, a, d) \in Worlds(hs, t, L)
<1>1. PICK k \in K : acc = [ok |-> TRUE, hs |-> [hs EXCEPT ![t] = k]]
  BY DEF Worlds
<1>2. a.tenant = t /\ a.op # "SyncCaddy"
  BY DEF On, HostActions, ServiceActions, VolumeActions, TenantActions, ServiceOps, VolumeOps, TenantOps
<1>3. (Executable(k, a) \/ a.op = "ZeroDowntimeDeploy") /\ Effect(k, a, d) \in L
  BY DEF Does
<1>4. acc.ok = TRUE /\ acc.hs = [hs EXCEPT ![t] = k] /\ acc.hs[t] = k
  BY <1>1
<1> DEFINE e == Effect(k, a, d)
<1>5. RunStep(acc, a, d) = [ok |-> TRUE, hs |-> [[hs EXCEPT ![t] = k] EXCEPT ![t] = e]]
  BY <1>2, <1>3, <1>4 DEF RunStep
<1> HIDE DEF e
<1>6. [[hs EXCEPT ![t] = k] EXCEPT ![t] = e] = [hs EXCEPT ![t] = e]
  OBVIOUS
<1> QED
  BY <1>3, <1>5, <1>6 DEF Worlds, e

LEMMA LeadsEmpty ==
    ASSUME NEW t, NEW K, NEW L, K \subseteq L, NEW d
    PROVE  Leads(t, K, <<>>, d, L)
  BY RunEmpty DEF Leads, Worlds

LEMMA LeadsJoin ==
    ASSUME NEW t, NEW K, NEW L, NEW M, NEW d, NEW p \in Seq(Actions), NEW q \in Seq(Actions),
           Leads(t, K, p, d, L), Leads(t, L, q, d, M)
    PROVE  Leads(t, K, p \o q, d, M)
<1> SUFFICES ASSUME NEW hs \in [Tenants -> HostType], NEW acc \in Worlds(hs, t, K)
             PROVE  RunFrom(acc, p \o q, d) \in Worlds(hs, t, M)
  BY DEF Leads
<1>1. RunFrom(acc, p \o q, d) = RunFrom(RunFrom(acc, p, d), q, d)
  BY RunJoin
<1> QED
  BY <1>1 DEF Leads

LEMMA LeadsOne ==
    ASSUME NEW t \in Tenants, NEW a \in On(t), NEW K \in SUBSET HostType, NEW L, NEW d,
           Does(a, d, K, L)
    PROVE  Leads(t, K, << a >>, d, L)
<1>1. a \in Actions
  BY DEF On, Actions
<1> QED
  BY <1>1, StepLeads, RunOne DEF Leads

\* Step by step, each with the set of hosts it leads to.
LEMMA LeadsAll ==
    ASSUME NEW t \in Tenants, NEW p \in Seq(On(t)), NEW d, NEW J,
           \A i \in 0 .. Len(p) : J[i] \in SUBSET HostType,
           \A i \in 1 .. Len(p) : Does(p[i], d, J[i - 1], J[i])
    PROVE  Leads(t, J[0], p, d, J[Len(p)])
<1> DEFINE n == Len(p)
<1>1. n \in Nat /\ \A i \in 1 .. n : p[i] \in On(t)
  BY ElementOfSeq
<1>2. p \in Seq(Actions)
  <2>1. On(t) \subseteq Actions
    BY DEF On, Actions
  <2> QED
    BY <2>1, SeqMonotonic
<1> SUFFICES ASSUME NEW hs \in [Tenants -> HostType], NEW acc \in Worlds(hs, t, J[0])
             PROVE  RunFrom(acc, p, d) \in Worlds(hs, t, J[n])
  BY DEF Leads
<1>3. PICK f : IsRun(f, acc, p, d) /\ RunFrom(acc, p, d) = f[n]
  BY <1>2, RunIs
<1> DEFINE T == {i \in 0 .. n : f[i] \in Worlds(hs, t, J[i])}
<1>4. 0 \in T
  BY <1>1, <1>3 DEF IsRun, Steps
<1>5. ASSUME NEW i \in 1 .. n, i - 1 \in T PROVE i \in T
  <2>1. f[i] = RunStep(f[i - 1], p[i], d)
    BY <1>3 DEF IsRun, Steps
  <2>2. f[i - 1] \in Worlds(hs, t, J[i - 1]) /\ i - 1 \in 0 .. n /\ i \in 0 .. n
    BY <1>1, <1>5
  <2>3. p[i] \in On(t) /\ J[i - 1] \in SUBSET HostType /\ Does(p[i], d, J[i - 1], J[i])
    BY <1>1, <2>2
  <2>4. f[i] \in Worlds(hs, t, J[i])
    <3> DEFINE K == J[i - 1]
               L == J[i]
               was == f[i - 1]
               a == p[i]
    <3>1. /\ a \in On(t) /\ K \in SUBSET HostType /\ L \in SUBSET HostType /\ Does(a, d, K, L)
          /\ was \in Worlds(hs, t, K)
      BY <2>2, <2>3
    <3> HIDE DEF K, L, was, a
    <3>2. RunStep(was, a, d) \in Worlds(hs, t, L)
      BY <3>1, StepLeads
    <3> QED
      BY <2>1, <3>2 DEF L, was, a
  <2> QED
    BY <2>2, <2>4
<1>6. n \in T
  <2> HIDE DEF T, n
  <2>1. 0 .. n \subseteq T
    BY <1>1, <1>4, <1>5, UpTo
  <2> QED
    BY <1>1, <2>1
<1> QED
  BY <1>3, <1>6

-----------------------------------------------------------------------------
(* What the parts of a plan do to a host.                                  *)

\* A tenant's host by its unit files, builds and volumes and by the services
\* that run on it.
Hosts(F, B, D, R) ==
    {k \in HostType : k.user /\ k.files = F /\ k.builds = B /\ k.dirs = D /\ DOMAIN k.run = R}

LEMMA DoesEnter ==
    ASSUME NEW t \in Tenants, NEW d, NEW a \in On(t), a.op = "EnsureTenant", NEW F, NEW B, NEW D, NEW R
    PROVE  Does(a, d, {k \in HostType : k.files = F /\ k.builds = B /\ k.dirs = D /\ DOMAIN k.run = R},
                Hosts(F, B, D, R))
<1> SUFFICES ASSUME NEW k \in HostType, k.files = F, k.builds = B, k.dirs = D, DOMAIN k.run = R
             PROVE  Executable(k, a) /\ Effect(k, a, d) \in Hosts(F, B, D, R)
  BY DEF Does
<1>1. Executable(k, a) /\ Effect(k, a, d) = [k EXCEPT !.user = TRUE]
  BY DEF Executable, Effect
<1> QED
  BY <1>1 DEF Hosts, HostType

\* The hosts that give the observation o, apart from what their files hold.
Before(o, F, B, D, R) ==
    {k \in HostType : (o.present => k.user) /\ k.files = F /\ k.builds = B /\ k.dirs = D /\ DOMAIN k.run = R}

LEMMA LeadsEntering ==
    ASSUME NEW d \in OwnSpecs, NEW o \in Observed, NEW F, NEW B, NEW D, NEW R
    PROVE  Leads(Owner, Before(o, F, B, D, R), Entering(d, o), d, Hosts(F, B, D, R))
<1> DEFINE a == Action("EnsureTenant", Owner, None)
           K == Before(o, F, B, D, R)
           K0 == {k \in HostType : k.files = F /\ k.builds = B /\ k.dirs = D /\ DOMAIN k.run = R}
<1>1. Owner \in Tenants /\ d.tenant = Owner /\ o.present \in BOOLEAN
  BY ConvergenceAssumption, OwnSpecFacts DEF Observed
<1>2. CASE o.present
  <2>1. K \subseteq Hosts(F, B, D, R)
    BY <1>2 DEF Hosts, Before
  <2> QED
    BY <1>2, <2>1, LeadsEmpty DEF Entering, If
<1>3. CASE ~o.present
  <2>1. a \in On(Owner) /\ a.op = "EnsureTenant"
    BY <1>1 DEF On, HostActions, TenantActions, TenantOps, Action
  <2>2. Entering(d, o) = << a >>
    BY <1>1, <1>3 DEF Entering, If
  <2>3. Does(a, d, K0, Hosts(F, B, D, R))
    BY <1>1, <2>1, DoesEnter
  <2>4. Does(a, d, K, Hosts(F, B, D, R))
    BY <2>3 DEF Does, Before
  <2>5. K \in SUBSET HostType
    BY DEF Before
  <2> HIDE DEF a, K
  <2>6. Leads(Owner, K, << a >>, d, Hosts(F, B, D, R))
    BY <1>1, <2>1, <2>4, <2>5, LeadsOne
  <2> QED
    BY <2>2, <2>6 DEF K
<1> QED
  BY <1>1, <1>2, <1>3


LEMMA LeadsWeaken ==
    ASSUME NEW t, NEW K, NEW K1, NEW L, NEW L1, NEW d, NEW p,
           K1 \subseteq K, L \subseteq L1, Leads(t, K, p, d, L)
    PROVE  Leads(t, K1, p, d, L1)
  BY DEF Leads, Worlds

\* One action per member of a set: each does its part and keeps what the
\* others have done.
LEMMA ForEachArgs ==
    ASSUME NEW t \in Tenants, NEW op, NEW S, IsFiniteSet(S),
           \/ op \in ServiceOps /\ S \in SUBSET Services
           \/ op \in VolumeOps /\ S \in SUBSET Volumes
    PROVE  LET p == ForEach(op, t, S) IN
           /\ p \in Seq(On(t)) /\ Len(p) \in Nat
           /\ \A i \in 1 .. Len(p) : p[i] \in On(t) /\ p[i].op = op /\ p[i].arg \in S
           /\ \A x \in S : \E i \in 1 .. Len(p) : p[i].arg = x
<1> DEFINE p == ForEach(op, t, S)
<1>1. \A x \in S : Action(op, t, x) \in On(t)
  BY DEF On, HostActions, ServiceActions, VolumeActions, Action
<1>2. /\ p \in Seq(On(t))
      /\ \A i \in 1 .. Len(p) : \E x \in S : p[i] = Action(op, t, x)
      /\ \A x \in S : \E i \in 1 .. Len(p) : p[i] = Action(op, t, x)
  BY <1>1, ForEachList
<1> HIDE DEF p
<1>3. \A i \in 1 .. Len(p) : p[i] \in On(t) /\ p[i].op = op /\ p[i].arg \in S
  <2> TAKE i \in 1 .. Len(p)
  <2>1. PICK x \in S : p[i] = Action(op, t, x)
    BY <1>2
  <2> QED
    BY <1>1, <2>1 DEF Action
<1>4. \A x \in S : \E i \in 1 .. Len(p) : p[i].arg = x
  <2> TAKE x \in S
  <2>1. PICK i \in 1 .. Len(p) : p[i] = Action(op, t, x)
    BY <1>2
  <2>2. p[i].arg = x
    BY <2>1 DEF Action
  <2> QED
    BY <2>2
<1>5. Len(p) \in Nat
  BY <1>2
<1> QED
  BY <1>2, <1>3, <1>4, <1>5 DEF p

LEMMA LeadsEnsureVolumes ==
    ASSUME NEW t \in Tenants, NEW d, NEW F, NEW B, NEW D, NEW R, NEW V \in SUBSET Volumes,
           IsFiniteSet(V)
    PROVE  Leads(t, Hosts(F, B, D, R), ForEach("EnsureVolumeDir", t, V), d, Hosts(F, B, D \cup V, R))
<1> DEFINE p == ForEach("EnsureVolumeDir", t, V)
           G(i) == {k \in HostType : /\ k.user /\ k.files = F /\ k.builds = B /\ DOMAIN k.run = R
                                     /\ D \subseteq k.dirs /\ k.dirs \subseteq D \cup V
                                     /\ \A j \in 1 .. i : p[j].arg \in k.dirs}
           J == [i \in 0 .. Len(p) |-> G(i)]
<1>1. /\ p \in Seq(On(t)) /\ Len(p) \in Nat
      /\ \A i \in 1 .. Len(p) : p[i] \in On(t) /\ p[i].op = "EnsureVolumeDir" /\ p[i].arg \in V
      /\ \A x \in V : \E i \in 1 .. Len(p) : p[i].arg = x
  BY ForEachArgs DEF VolumeOps
<1> HIDE DEF p
<1>2. ASSUME NEW i \in 1 .. Len(p) PROVE Does(p[i], d, J[i - 1], J[i])
  <2>1. J[i - 1] = G(i - 1) /\ J[i] = G(i)
    BY <1>1
  <2> SUFFICES ASSUME NEW k \in G(i - 1)
               PROVE  Executable(k, p[i]) /\ Effect(k, p[i], d) \in G(i)
    BY <2>1 DEF Does
  <2> DEFINE x == p[i].arg
             e == [k EXCEPT !.dirs = k.dirs \cup {x}]
  <2>2. x \in V /\ p[i].op = "EnsureVolumeDir"
    BY <1>1
  <2>3. Executable(k, p[i]) /\ Effect(k, p[i], d) = e
    BY <2>2 DEF Executable, Effect
  <2> HIDE DEF x
  <2>4. e \in HostType /\ e.user /\ e.files = F /\ e.builds = B /\ DOMAIN e.run = R
        /\ D \subseteq e.dirs /\ e.dirs \subseteq D \cup V /\ k.dirs \subseteq e.dirs /\ x \in e.dirs
    BY <2>2 DEF HostType
  <2> HIDE DEF e
  <2>5. \A j \in 1 .. i : p[j].arg \in e.dirs
    <3> TAKE j \in 1 .. i
    <3>1. CASE j = i
      BY <2>4, <3>1 DEF x
    <3>2. CASE j # i
      <4>1. j \in 1 .. i - 1
        BY <1>1, <3>2
      <4> QED
        BY <2>4, <4>1
    <3> QED
      BY <3>1, <3>2
  <2> QED
    BY <2>3, <2>4, <2>5
<1>3. \A i \in 0 .. Len(p) : J[i] \in SUBSET HostType
  OBVIOUS
<1>4. Hosts(F, B, D, R) \subseteq J[0]
  BY <1>1 DEF Hosts
<1>5. J[Len(p)] \subseteq Hosts(F, B, D \cup V, R)
  <2> SUFFICES ASSUME NEW k \in J[Len(p)] PROVE k \in Hosts(F, B, D \cup V, R)
    OBVIOUS
  <2>0. k \in G(Len(p))
    <3>1. Len(p) \in 0 .. Len(p)
      BY <1>1
    <3> QED
      BY <3>1
  <2> HIDE DEF J
  <2>1. V \subseteq k.dirs
    BY <1>1, <2>0
  <2> QED
    BY <2>0, <2>1 DEF Hosts
<1> HIDE DEF J
<1>6. Leads(t, J[0], p, d, J[Len(p)])
  BY <1>1, <1>2, <1>3, LeadsAll
<1> QED
  BY <1>4, <1>5, <1>6, LeadsWeaken DEF p

LEMMA LeadsRemoveVolumes ==
    ASSUME NEW t \in Tenants, NEW d, NEW F, NEW B, NEW D, NEW R, NEW V \in SUBSET Volumes,
           IsFiniteSet(V)
    PROVE  Leads(t, Hosts(F, B, D, R), ForEach("RemoveVolumeDir", t, V), d, Hosts(F, B, D \ V, R))
<1> DEFINE p == ForEach("RemoveVolumeDir", t, V)
           G(i) == {k \in HostType : /\ k.user /\ k.files = F /\ k.builds = B /\ DOMAIN k.run = R
                                     /\ k.dirs \subseteq D /\ D \ V \subseteq k.dirs
                                     /\ \A j \in 1 .. i : p[j].arg \notin k.dirs}
           J == [i \in 0 .. Len(p) |-> G(i)]
<1>1. /\ p \in Seq(On(t)) /\ Len(p) \in Nat
      /\ \A i \in 1 .. Len(p) : p[i] \in On(t) /\ p[i].op = "RemoveVolumeDir" /\ p[i].arg \in V
      /\ \A x \in V : \E i \in 1 .. Len(p) : p[i].arg = x
  BY ForEachArgs DEF VolumeOps
<1> HIDE DEF p
<1>2. ASSUME NEW i \in 1 .. Len(p) PROVE Does(p[i], d, J[i - 1], J[i])
  <2>1. J[i - 1] = G(i - 1) /\ J[i] = G(i)
    BY <1>1
  <2> SUFFICES ASSUME NEW k \in G(i - 1)
               PROVE  Executable(k, p[i]) /\ Effect(k, p[i], d) \in G(i)
    BY <2>1 DEF Does
  <2> DEFINE x == p[i].arg
             e == [k EXCEPT !.dirs = k.dirs \ {x}]
  <2>2. x \in V /\ p[i].op = "RemoveVolumeDir"
    BY <1>1
  <2>3. Executable(k, p[i]) /\ Effect(k, p[i], d) = e
    BY <2>2 DEF Executable, Effect
  <2> HIDE DEF x
  <2>4. e \in HostType /\ e.user /\ e.files = F /\ e.builds = B /\ DOMAIN e.run = R
        /\ e.dirs \subseteq D /\ D \ V \subseteq e.dirs /\ e.dirs \subseteq k.dirs /\ x \notin e.dirs
    BY <2>2 DEF HostType
  <2> HIDE DEF e
  <2>5. \A j \in 1 .. i : p[j].arg \notin e.dirs
    <3> TAKE j \in 1 .. i
    <3>1. CASE j = i
      BY <2>4, <3>1 DEF x
    <3>2. CASE j # i
      <4>1. j \in 1 .. i - 1
        BY <1>1, <3>2
      <4> QED
        BY <2>4, <4>1
    <3> QED
      BY <3>1, <3>2
  <2> QED
    BY <2>3, <2>4, <2>5
<1>3. \A i \in 0 .. Len(p) : J[i] \in SUBSET HostType
  OBVIOUS
<1>4. Hosts(F, B, D, R) \subseteq J[0]
  BY <1>1 DEF Hosts
<1>5. J[Len(p)] \subseteq Hosts(F, B, D \ V, R)
  <2> SUFFICES ASSUME NEW k \in J[Len(p)] PROVE k \in Hosts(F, B, D \ V, R)
    OBVIOUS
  <2>0. k \in G(Len(p))
    <3>1. Len(p) \in 0 .. Len(p)
      BY <1>1
    <3> QED
      BY <3>1
  <2> HIDE DEF J
  <2>1. \A v \in V : v \notin k.dirs
    BY <1>1, <2>0
  <2> QED
    BY <2>0, <2>1 DEF Hosts
<1> HIDE DEF J
<1>6. Leads(t, J[0], p, d, J[Len(p)])
  BY <1>1, <1>2, <1>3, LeadsAll
<1> QED
  BY <1>4, <1>5, <1>6, LeadsWeaken DEF p

LEMMA LeadsStops ==
    ASSUME NEW t \in Tenants, NEW d, NEW F, NEW B, NEW D, NEW R, NEW S \in SUBSET Services,
           IsFiniteSet(S)
    PROVE  Leads(t, Hosts(F, B, D, R), ForEach("StopService", t, S), d, Hosts(F, B, D, R \ S))
<1> DEFINE p == ForEach("StopService", t, S)
           G(i) == {k \in HostType : /\ k.user /\ k.files = F /\ k.builds = B /\ k.dirs = D
                                     /\ DOMAIN k.run \subseteq R /\ R \ S \subseteq DOMAIN k.run
                                     /\ \A j \in 1 .. i : p[j].arg \notin DOMAIN k.run}
           J == [i \in 0 .. Len(p) |-> G(i)]
<1>1. /\ p \in Seq(On(t)) /\ Len(p) \in Nat
      /\ \A i \in 1 .. Len(p) : p[i] \in On(t) /\ p[i].op = "StopService" /\ p[i].arg \in S
      /\ \A x \in S : \E i \in 1 .. Len(p) : p[i].arg = x
  BY ForEachArgs DEF ServiceOps
<1> HIDE DEF p
<1>2. ASSUME NEW i \in 1 .. Len(p) PROVE Does(p[i], d, J[i - 1], J[i])
  <2>1. J[i - 1] = G(i - 1) /\ J[i] = G(i)
    BY <1>1
  <2> SUFFICES ASSUME NEW k \in G(i - 1)
               PROVE  Executable(k, p[i]) /\ Effect(k, p[i], d) \in G(i)
    BY <2>1 DEF Does
  <2> DEFINE x == p[i].arg
             e == [k EXCEPT !.run = Without(k.run, {x})]
  <2>2. x \in S /\ p[i].op = "StopService"
    BY <1>1
  <2>3. Executable(k, p[i]) /\ Effect(k, p[i], d) = e
    BY <2>2 DEF Executable, Effect, Control
  <2> HIDE DEF x
  <2>4. Without(k.run, {x}) \in PartialMap /\ DOMAIN Without(k.run, {x}) = (DOMAIN k.run) \ {x}
    <3>1. k.run \in PartialMap
      BY DEF HostType
    <3> QED
      BY <3>1, MapFacts, MapOn DEF Without, PartialMap
  <2>5. e \in HostType /\ e.user /\ e.files = F /\ e.builds = B /\ e.dirs = D
        /\ DOMAIN e.run = (DOMAIN k.run) \ {x}
    BY <2>4 DEF HostType
  <2> HIDE DEF e
  <2>6. \A j \in 1 .. i : p[j].arg \notin DOMAIN e.run
    <3> TAKE j \in 1 .. i
    <3>1. CASE j = i
      BY <2>5, <3>1 DEF x
    <3>2. CASE j # i
      <4>1. j \in 1 .. i - 1
        BY <1>1, <3>2
      <4> QED
        BY <2>5, <4>1
    <3> QED
      BY <3>1, <3>2
  <2> QED
    BY <2>2, <2>3, <2>5, <2>6
<1>3. \A i \in 0 .. Len(p) : J[i] \in SUBSET HostType
  OBVIOUS
<1>4. Hosts(F, B, D, R) \subseteq J[0]
  BY <1>1 DEF Hosts
<1>5. J[Len(p)] \subseteq Hosts(F, B, D, R \ S)
  <2> SUFFICES ASSUME NEW k \in J[Len(p)] PROVE k \in Hosts(F, B, D, R \ S)
    OBVIOUS
  <2>0. k \in G(Len(p))
    <3>1. Len(p) \in 0 .. Len(p)
      BY <1>1
    <3> QED
      BY <3>1
  <2> HIDE DEF J
  <2>1. \A s \in S : s \notin DOMAIN k.run
    BY <1>1, <2>0
  <2> QED
    BY <2>0, <2>1 DEF Hosts
<1> HIDE DEF J
<1>6. Leads(t, J[0], p, d, J[Len(p)])
  BY <1>1, <1>2, <1>3, LeadsAll
<1> QED
  BY <1>4, <1>5, <1>6, LeadsWeaken DEF p


\* The unit files and builds of a spec.
Current(d) == [x \in d.services |-> d.gen]
CurrentBuilds(d) == [x \in d.builds |-> d.gen]

LEMMA LeadsRewriting ==
    ASSUME NEW d \in OwnSpecs, NEW o \in Observed, NEW F, NEW B, NEW D, NEW R, Rewrites(d, o)
    PROVE  Leads(Owner, Hosts(F, B, D, R), Rewriting(d, o), d, Hosts(Current(d), CurrentBuilds(d), D, R))
<1> DEFINE m == Action("WriteUnits", Owner, None)
           n == Action("DaemonReload", Owner, None)
           K == Hosts(F, B, D, R)
           L == Hosts(Current(d), CurrentBuilds(d), D, R)
<1>1. Owner \in Tenants /\ d.tenant = Owner /\ d # None
  BY ConvergenceAssumption, OwnSpecFacts
<1>2. m \in On(Owner) /\ n \in On(Owner) /\ m.op = "WriteUnits" /\ n.op = "DaemonReload"
  BY <1>1 DEF On, HostActions, TenantActions, TenantOps, Action
<1>3. Rewriting(d, o) = << m >> \o << n >>
  <2>1. << m >> \o << n >> = << m, n >>
    BY PairJoin
  <2> QED
    BY <1>1, <2>1 DEF Rewriting, If
<1>4. << m >> \in Seq(Actions) /\ << n >> \in Seq(Actions)
  BY <1>2 DEF On, Actions
<1> HIDE DEF m, n
<1>5. Does(m, d, K, L)
  <2> SUFFICES ASSUME NEW k \in K PROVE Executable(k, m) /\ Effect(k, m, d) \in L
    BY DEF Does
  <2>1. Executable(k, m) /\ Effect(k, m, d) = Written(k, d)
    BY <1>2 DEF Hosts, Executable, Effect
  <2>2. Effect(k, m, d) \in HostType
    BY <1>1, <1>2, <2>1, EffectTyped DEF On, Hosts
  <2>3. Written(k, d) = [k EXCEPT !.files = Current(d), !.builds = CurrentBuilds(d)]
    BY DEF Written, Current, CurrentBuilds
  <2> QED
    BY <2>1, <2>2, <2>3 DEF Hosts, HostType
<1>6. Does(n, d, L, L)
  <2> SUFFICES ASSUME NEW k \in L PROVE Executable(k, n) /\ Effect(k, n, d) \in L
    BY DEF Does
  <2>1. Executable(k, n) /\ Effect(k, n, d) = [k EXCEPT !.loaded = k.files]
    BY <1>2 DEF Hosts, Executable, Effect
  <2> QED
    BY <2>1 DEF Hosts, HostType
<1>7. K \in SUBSET HostType /\ L \in SUBSET HostType
  BY DEF Hosts
<1> HIDE DEF K, L
<1>8. Leads(Owner, K, << m >>, d, L)
  BY <1>1, <1>2, <1>5, <1>7, LeadsOne
<1>9. Leads(Owner, L, << n >>, d, L)
  BY <1>1, <1>2, <1>6, <1>7, LeadsOne
<1> DEFINE p == << m >>
           q == << n >>
<1> HIDE DEF p, q
<1>10. Leads(Owner, K, p \o q, d, L)
  BY <1>4, <1>8, <1>9, LeadsJoin DEF p, q
<1> QED
  BY <1>3, <1>10 DEF p, q, K, L

LEMMA StartEffect ==
    ASSUME NEW k \in HostType, NEW s \in Services, s \in DOMAIN k.files, k.user, NEW d,
           NEW op \in {"StartService", "RestartService", "ZeroDowntimeDeploy"},
           NEW a, a = Action(op, Owner, s)
    PROVE  LET e == Effect(k, a, d) IN
           /\ Executable(k, a) \/ a.op = "ZeroDowntimeDeploy"
           /\ e \in HostType /\ e.user /\ e.files = k.files /\ e.builds = k.builds /\ e.dirs = k.dirs
           /\ DOMAIN e.run = (DOMAIN k.run) \cup {s}
<1> DEFINE e == Effect(k, a, d)
           g == Generated(k, s)
<1>1. a.op = op /\ a.arg = s
  BY DEF Action
<1>2. k.run \in PartialMap /\ k.files \in PartialMap /\ k.loaded \in PartialMap
  BY DEF HostType
<1>3. g \in PartialMap /\ s \in DOMAIN g /\ g[s] \in Hash
  <2>1. g \in PartialMap /\ s \in DOMAIN g
    BY <1>2 DEF Generated
  <2> HIDE DEF g
  <2> QED
    BY <2>1, MapFacts DEF PartialMap
<1>4. Executable(k, a) \/ a.op = "ZeroDowntimeDeploy"
  BY <1>1, <1>3 DEF Executable
<1>5. e = Control(k, op, s)
  BY <1>1 DEF Effect
<1>6. CASE op = "StartService" /\ s \in DOMAIN k.run
  BY <1>4, <1>5, <1>6 DEF Control
<1>7. CASE ~(op = "StartService" /\ s \in DOMAIN k.run)
  <2>1. e = [k EXCEPT !.loaded = g, !.run = With(k.run, s, g[s])]
    BY <1>5, <1>7 DEF Control
  <2> HIDE DEF e, g
  <2>2. With(k.run, s, g[s]) \in PartialMap /\ DOMAIN With(k.run, s, g[s]) = (DOMAIN k.run) \cup {s}
    BY <1>2, <1>3, MapFacts DEF PartialMap, With
  <2>3. e \in HostType /\ e.user /\ e.files = k.files /\ e.builds = k.builds /\ e.dirs = k.dirs
        /\ e.run = With(k.run, s, g[s])
    BY <1>3, <2>1, <2>2 DEF HostType
  <2> QED
    BY <1>4, <2>2, <2>3 DEF e
<1> QED
  BY <1>6, <1>7

\* The services of X have been looked after, the others are as observed.
Served(d, o, B, D, X) ==
    {k \in HostType : /\ k.user /\ k.files = Current(d) /\ k.builds = B /\ k.dirs = D
                      /\ DOMAIN k.run \subseteq d.services
                      /\ d.suspended => DOMAIN k.run \subseteq ActiveOf(o) \ X
                      /\ ~d.suspended => d.services \cap (ActiveOf(o) \cup X) \subseteq DOMAIN k.run}

LEMMA LeadsService ==
    ASSUME NEW d \in OwnSpecs, NEW o \in Observed, NEW B, NEW D, NEW X, NEW s \in d.services
    PROVE  Leads(Owner, Served(d, o, B, D, X), ServiceAction(d, o, s), d, Served(d, o, B, D, X \cup {s}))
<1> DEFINE K == Served(d, o, B, D, X)
           L == Served(d, o, B, D, X \cup {s})
           a(op) == Action(op, Owner, s)
<1>1. Owner \in Tenants /\ d.tenant = Owner /\ d.suspended \in BOOLEAN /\ s \in Services
  BY ConvergenceAssumption, OwnSpecFacts
<1>2. K \in SUBSET HostType
  BY DEF Served
<1>3. \A op \in ServiceOps : a(op) \in On(Owner) /\ a(op).op = op /\ a(op).arg = s
  BY <1>1 DEF On, HostActions, ServiceActions, Action
<1>4. CASE d.suspended /\ s \in ActiveOf(o)
  <2> DEFINE b == a("StopService")
  <2>1. b \in On(Owner) /\ b.op = "StopService" /\ b.arg = s
    BY <1>3 DEF ServiceOps
  <2>2. ServiceAction(d, o, s) = << b >>
    BY <1>1, <1>4 DEF ServiceAction
  <2> HIDE DEF b
  <2>3. Does(b, d, K, L)
    <3> SUFFICES ASSUME NEW k \in K PROVE Executable(k, b) /\ Effect(k, b, d) \in L
      BY DEF Does
    <3> DEFINE e == [k EXCEPT !.run = Without(k.run, {s})]
    <3>1. Executable(k, b) /\ Effect(k, b, d) = e
      BY <2>1 DEF Served, Executable, Effect, Control
    <3>2. Without(k.run, {s}) \in PartialMap /\ DOMAIN Without(k.run, {s}) = (DOMAIN k.run) \ {s}
      <4>1. k.run \in PartialMap
        BY DEF Served, HostType
      <4> QED
        BY <4>1, MapFacts DEF Without, PartialMap
    <3>3. /\ e \in HostType /\ e.user = k.user /\ e.files = k.files /\ e.builds = k.builds
          /\ e.dirs = k.dirs /\ DOMAIN e.run = (DOMAIN k.run) \ {s}
      BY <3>2 DEF HostType, Served
    <3> HIDE DEF e
    <3>4. e \in L
      BY <1>4, <3>3 DEF Served
    <3> QED
      BY <3>1, <3>4
  <2> HIDE DEF K, L
  <2>4. Leads(Owner, K, << b >>, d, L)
    BY <1>1, <1>2, <2>1, <2>3, LeadsOne
  <2> QED
    BY <2>2, <2>4 DEF K, L
<1>5. CASE /\ d.suspended <=> s \notin ActiveOf(o)
           /\ ~d.suspended => s \notin Stale(d, o)
  <2>1. ServiceAction(d, o, s) = <<>>
    BY <1>1, <1>5 DEF ServiceAction
  <2>2. K \subseteq L
    BY <1>1, <1>5 DEF Served
  <2> QED
    BY <2>1, <2>2, LeadsEmpty
<1>6. CASE ~d.suspended /\ (s \in ActiveOf(o) => s \in Stale(d, o))
  <2>1. PICK op \in {"StartService", "RestartService", "ZeroDowntimeDeploy"} :
           ServiceAction(d, o, s) = << a(op) >>
    BY <1>1, <1>6 DEF ServiceAction
  <2> DEFINE b == a(op)
  <2>2. b \in On(Owner) /\ b = Action(op, Owner, s)
    BY <1>3 DEF ServiceOps
  <2> HIDE DEF b
  <2>3. Does(b, d, K, L)
    <3> SUFFICES ASSUME NEW k \in K
                 PROVE  (Executable(k, b) \/ b.op = "ZeroDowntimeDeploy") /\ Effect(k, b, d) \in L
      BY DEF Does
    <3>1. k \in HostType /\ k.user /\ s \in DOMAIN k.files
      BY DEF Served, Current
    <3> DEFINE e == Effect(k, b, d)
    <3>2. /\ Executable(k, b) \/ b.op = "ZeroDowntimeDeploy"
          /\ e \in HostType /\ e.user /\ e.files = k.files /\ e.builds = k.builds /\ e.dirs = k.dirs
          /\ DOMAIN e.run = (DOMAIN k.run) \cup {s}
      BY <1>1, <2>2, <3>1, StartEffect
    <3> HIDE DEF e
    <3>3. e \in L
      BY <1>6, <3>2 DEF Served
    <3> QED
      BY <3>2, <3>3 DEF e
  <2> HIDE DEF K, L
  <2>4. Leads(Owner, K, << b >>, d, L)
    BY <1>1, <1>2, <2>2, <2>3, LeadsOne
  <2> QED
    BY <2>1, <2>4 DEF K, L, b
<1> QED
  BY <1>1, <1>4, <1>5, <1>6

LEMMA LeadsServices ==
    ASSUME NEW d \in OwnSpecs, NEW o \in Observed, NEW B, NEW D
    PROVE  Leads(Owner, Hosts(Current(d), B, D, d.services \cap ActiveOf(o)), FlattenSeq(PerService(d, o)), d,
                 Hosts(Current(d), B, D, IF d.suspended THEN {} ELSE d.services))
<1> DEFINE q == SetToSeq(d.services)
           n == Cardinality(d.services)
           A == Only(ServiceOps, Owner)
           P == PerService(d, o)
           K(i) == Served(d, o, B, D, {q[j] : j \in 1 .. i})
<1>1. d \in Specs /\ d.tenant = Owner /\ d.suspended \in BOOLEAN /\ d.services \in SUBSET Services
      /\ IsFiniteSet(d.services)
  BY OwnSpecFacts, FS_Subset, PlannerAssumption
<1>2. /\ n \in Nat /\ DOMAIN q = 1 .. n
      /\ \A i \in 1 .. n : q[i] \in d.services
      /\ \A s \in d.services : \E i \in 1 .. n : q[i] = s
  BY <1>1, Listing
<1>3. P = [i \in 1 .. n |-> ServiceAction(d, o, q[i])]
  BY <1>2 DEF PerService
<1>4. \A i \in 1 .. n : ServiceAction(d, o, q[i]) \in Seq(A)
  BY <1>1, <1>2, ServiceActionIs
<1> HIDE DEF q, n, A, P
<1>5. P \in Seq(Seq(A)) /\ Len(P) = n /\ \A i \in 1 .. n : P[i] = ServiceAction(d, o, q[i]) /\ P[i] \in Seq(A)
  BY <1>2, <1>3, <1>4
<1>6. PICK F \in [0 .. n -> Seq(A)] :
         /\ F[0] = <<>> /\ FlattenSeq(P) = F[n]
         /\ \A i \in 1 .. n : F[i] = F[i - 1] \o P[i]
  BY <1>5, Flattening
<1>7. A \subseteq Actions
  BY DEF Only, Actions, A
<1> DEFINE T == {i \in 0 .. n : Leads(Owner, K(0), F[i], d, K(i))}
<1>8. 0 \in T
  <2>1. Leads(Owner, K(0), <<>>, d, K(0))
    BY LeadsEmpty
  <2> QED
    BY <1>2, <1>6, <2>1
<1>9. ASSUME NEW i \in 1 .. n, i - 1 \in T PROVE i \in T
  <2>1. i - 1 \in 0 .. n /\ i \in 0 .. n /\ Leads(Owner, K(0), F[i - 1], d, K(i - 1))
    BY <1>2, <1>9
  <2>2. F[i - 1] \in Seq(Actions) /\ P[i] \in Seq(Actions)
    BY <1>5, <1>6, <1>7, <2>1, SeqMonotonic
  <2> DEFINE X == {q[j] : j \in 1 .. i - 1}
  <2>3. {q[j] : j \in 1 .. i} = X \cup {q[i]}
    <3>1. 1 .. i = (1 .. i - 1) \cup {i}
      BY <1>2
    <3> QED
      BY <3>1
  <2> HIDE DEF X
  <2>4. q[i] \in d.services
    BY <1>2
  <2>5. Leads(Owner, Served(d, o, B, D, X), ServiceAction(d, o, q[i]), d, Served(d, o, B, D, X \cup {q[i]}))
    BY <2>4, LeadsService
  <2>6. Leads(Owner, K(i - 1), P[i], d, K(i))
    BY <1>5, <2>3, <2>5 DEF X
  <2> DEFINE K0 == K(0)
             K1 == K(i - 1)
             K2 == K(i)
             f == F[i - 1]
             g == P[i]
  <2>7. Leads(Owner, K0, f, d, K1) /\ Leads(Owner, K1, g, d, K2) /\ f \in Seq(Actions) /\ g \in Seq(Actions)
    BY <2>1, <2>2, <2>6
  <2> HIDE DEF K0, K1, K2, f, g
  <2>8. Leads(Owner, K0, f \o g, d, K2)
    BY <2>7, LeadsJoin
  <2>9. F[i] = f \o g
    BY <1>6 DEF f, g
  <2>10. Leads(Owner, K(0), F[i], d, K(i))
    BY <2>8, <2>9 DEF K0, K2
  <2> QED
    BY <2>1, <2>10
<1>10. n \in T
  <2> HIDE DEF T
  <2>1. 0 .. n \subseteq T
    BY <1>2, <1>8, <1>9, UpTo
  <2> QED
    BY <1>2, <2>1
<1>11. Leads(Owner, K(0), FlattenSeq(P), d, K(n))
  BY <1>6, <1>10
<1>12. {q[j] : j \in 1 .. n} = d.services /\ {q[j] : j \in 1 .. 0} = {}
  <2>1. 1 .. 0 = {}
    OBVIOUS
  <2>2. {q[j] : j \in 1 .. 0} = {}
    BY <2>1, Zenon
  <2>3. {q[j] : j \in 1 .. n} \subseteq d.services
    BY <1>2, Zenon
  <2>4. d.services \subseteq {q[j] : j \in 1 .. n}
    BY <1>2, Zenon
  <2> QED
    BY <2>2, <2>3, <2>4
<1>13. Hosts(Current(d), B, D, d.services \cap ActiveOf(o)) \subseteq K(0)
  BY <1>12 DEF Hosts, Served
<1>14. K(n) \subseteq Hosts(Current(d), B, D, IF d.suspended THEN {} ELSE d.services)
  <2> SUFFICES ASSUME NEW k \in Served(d, o, B, D, d.services)
               PROVE  k \in Hosts(Current(d), B, D, IF d.suspended THEN {} ELSE d.services)
    BY <1>12
  <2>1. d.suspended => DOMAIN k.run = {}
    BY DEF Served
  <2>2. ~d.suspended => DOMAIN k.run = d.services
    BY DEF Served
  <2> QED
    BY <2>1, <2>2 DEF Served, Hosts
<1> DEFINE L == K(0)
           M == K(n)
           L1 == Hosts(Current(d), B, D, d.services \cap ActiveOf(o))
           M1 == Hosts(Current(d), B, D, IF d.suspended THEN {} ELSE d.services)
<1>15. Leads(Owner, L, FlattenSeq(P), d, M) /\ L1 \subseteq L /\ M \subseteq M1
  BY <1>11, <1>13, <1>14
<1> HIDE DEF L, M, L1, M1
<1>16. Leads(Owner, L1, FlattenSeq(P), d, M1)
  BY <1>15, LeadsWeaken
<1> QED
  BY <1>16 DEF P, L1, M1


LEMMA LeadsSync ==
    ASSUME NEW t, NEW K, NEW d
    PROVE  Leads(t, K, << Sync >>, d, K) /\ << Sync >> \in Seq(Actions)
<1>1. Sync \in Actions /\ Sync.op = "SyncCaddy"
  BY DEF Sync, Action, Actions
<1>2. \A acc : RunFrom(acc, << Sync >>, d) = acc
  BY <1>1, RunOne DEF RunStep
<1>3. << Sync >> \in Seq(Actions)
  BY <1>1
<1> QED
  BY <1>2, <1>3 DEF Leads

\* The host of a converged stack.
Converged(d) == Hosts(Current(d), CurrentBuilds(d), d.volumes, IF d.suspended THEN {} ELSE d.services)

LEMMA LeadsConverge ==
    ASSUME NEW d \in OwnSpecs, NEW o \in Observed, NEW F, NEW B,
           ActiveOf(o) \subseteq DOMAIN o.units,
           ~Rewrites(d, o) => F = Current(d) /\ B = CurrentBuilds(d)
    PROVE  Leads(Owner, Before(o, F, B, o.dirs, ActiveOf(o)), PlanConverge(d, o), d, Converged(d))
<1> DEFINE K == Before(o, F, B, o.dirs, ActiveOf(o))
           V == o.dirs \cup (d.volumes \ o.dirs)
           R == d.services \cap ActiveOf(o)
           K1 == Hosts(F, B, o.dirs, ActiveOf(o))
           K2 == Hosts(F, B, V, ActiveOf(o))
           K3 == Hosts(F, B, V, R)
           K4 == Hosts(Current(d), CurrentBuilds(d), V, R)
           K5 == Hosts(Current(d), CurrentBuilds(d), V, IF d.suspended THEN {} ELSE d.services)
           p1 == Entering(d, o)
           p2 == NewVolumes(d, o)
           p3 == ExtraStops(d, o)
           p4 == Rewriting(d, o)
           p5 == FlattenSeq(PerService(d, o))
           p6 == OldVolumes(d, o)
<1>1. /\ Owner \in Tenants /\ d.tenant = Owner /\ d.services \in SUBSET Services
      /\ d.volumes \in SUBSET Volumes /\ IsFiniteSet(d.volumes)
      /\ o.dirs \in SUBSET Volumes /\ IsFiniteSet(o.dirs)
      /\ ActiveOf(o) \in SUBSET Services /\ IsFiniteSet(ActiveOf(o))
  BY ConvergenceAssumption, OwnSpecFacts, ObservedFinite, PlannerAssumption, FS_Subset
<1>2. Leads(Owner, K, p1, d, K1)
  BY LeadsEntering
<1>3. Leads(Owner, K1, p2, d, K2)
  <2>1. d.volumes \ o.dirs \in SUBSET Volumes /\ IsFiniteSet(d.volumes \ o.dirs)
    BY <1>1, FS_Difference
  <2> QED
    BY <1>1, <2>1, LeadsEnsureVolumes DEF NewVolumes
<1>4. Leads(Owner, K2, p3, d, K3)
  <2> DEFINE E == Extra(d, o) \cap ActiveOf(o)
  <2>1. E \in SUBSET Services /\ IsFiniteSet(E)
    BY <1>1, FS_Subset
  <2>2. ActiveOf(o) \ E = R
    BY DEF Extra
  <2> HIDE DEF E
  <2>3. Leads(Owner, K2, ForEach("StopService", Owner, E), d, Hosts(F, B, V, ActiveOf(o) \ E))
    BY <1>1, <2>1, LeadsStops
  <2> QED
    BY <1>1, <2>2, <2>3 DEF ExtraStops, E
<1>5. Leads(Owner, K3, p4, d, K4)
  <2>1. CASE Rewrites(d, o)
    BY <2>1, LeadsRewriting
  <2>2. CASE ~Rewrites(d, o)
    <3>1. p4 = <<>> /\ K3 = K4
      BY <2>2 DEF Rewriting, If
    <3> HIDE DEF p4, K3, K4
    <3> QED
      BY <3>1, LeadsEmpty
  <2> QED
    BY <2>1, <2>2
<1>6. Leads(Owner, K4, p5, d, K5)
  BY LeadsServices
<1>7. Leads(Owner, K5, p6, d, Converged(d))
  <2>1. o.dirs \ d.volumes \in SUBSET Volumes /\ IsFiniteSet(o.dirs \ d.volumes)
    BY <1>1, FS_Difference
  <2>2. V \ (o.dirs \ d.volumes) = d.volumes
    OBVIOUS
  <2> HIDE DEF V
  <2>3. Leads(Owner, K5, ForEach("RemoveVolumeDir", Owner, o.dirs \ d.volumes), d,
              Hosts(Current(d), CurrentBuilds(d), V \ (o.dirs \ d.volumes),
                    IF d.suspended THEN {} ELSE d.services))
    BY <1>1, <2>1, LeadsRemoveVolumes
  <2> QED
    BY <1>1, <2>2, <2>3 DEF OldVolumes, Converged
<1>8. /\ p1 \in Seq(Actions) /\ p2 \in Seq(Actions) /\ p3 \in Seq(Actions)
      /\ p4 \in Seq(Actions) /\ p5 \in Seq(Actions) /\ p6 \in Seq(Actions)
  <2>1. \A ops : Only(ops, d.tenant) \subseteq Actions
    BY DEF Only, Actions
  <2> QED
    BY <2>1, ConvergePartsAre, SeqMonotonic
<1> HIDE DEF K, K1, K2, K3, K4, K5, p1, p2, p3, p4, p5, p6
<1> DEFINE q2 == p1 \o p2
           q3 == q2 \o p3
           q4 == q3 \o p4
           q5 == q4 \o p5
<1>9. q2 \in Seq(Actions) /\ Leads(Owner, K, q2, d, K2)
  BY <1>2, <1>3, <1>8, LeadsJoin
<1> HIDE DEF q2
<1>10. q3 \in Seq(Actions) /\ Leads(Owner, K, q3, d, K3)
  BY <1>4, <1>8, <1>9, LeadsJoin
<1> HIDE DEF q3
<1>11. q4 \in Seq(Actions) /\ Leads(Owner, K, q4, d, K4)
  BY <1>5, <1>8, <1>10, LeadsJoin
<1> HIDE DEF q4
<1>12. q5 \in Seq(Actions) /\ Leads(Owner, K, q5, d, K5)
  BY <1>6, <1>8, <1>11, LeadsJoin
<1> HIDE DEF q5
<1>13. Leads(Owner, K, q5 \o p6, d, Converged(d))
  BY <1>7, <1>8, <1>12, LeadsJoin
<1>14. PlanConverge(d, o) = q5 \o p6
  BY ConvergeParts DEF q5, q4, q3, q2, p1, p2, p3, p4, p5, p6
<1> QED
  BY <1>13, <1>14 DEF K

LEMMA LeadsTeardown ==
    ASSUME NEW d \in OwnSpecs \cup {None}, NEW o \in Observed, NEW F, NEW B
    PROVE  Leads(o.tenant, Hosts(F, B, o.dirs, ActiveOf(o)), PlanTeardown(o), d,
                 {k \in HostType : ~HasArtifacts(k)})
<1> DEFINE t == o.tenant
           p1 == Stops(o)
           e == Action("RemoveUnits", t, None)
           f == Action("DaemonReload", t, None)
           g == Action("RemoveTenantIfEmpty", t, None)
           p3 == VolumesGone(o)
           K == Hosts(F, B, o.dirs, ActiveOf(o))
           K1 == Hosts(F, B, o.dirs, {})
           K2 == Hosts(NoMap, NoMap, o.dirs, {})
           K3 == Hosts(NoMap, NoMap, {}, {})
           K4 == {k \in HostType : ~HasArtifacts(k)}
<1>1. /\ t \in Tenants /\ o.dirs \in SUBSET Volumes /\ IsFiniteSet(o.dirs)
      /\ ActiveOf(o) \in SUBSET Services /\ IsFiniteSet(ActiveOf(o))
  BY ObservedFinite
<1>2. /\ e \in On(t) /\ f \in On(t) /\ g \in On(t)
      /\ e.op = "RemoveUnits" /\ f.op = "DaemonReload" /\ g.op = "RemoveTenantIfEmpty"
  BY <1>1 DEF On, HostActions, TenantActions, TenantOps, Action
<1>3. Leads(t, K, p1, d, K1)
  <2>1. ActiveOf(o) \ ActiveOf(o) = {}
    OBVIOUS
  <2>2. Leads(t, K, p1, d, Hosts(F, B, o.dirs, ActiveOf(o) \ ActiveOf(o)))
    BY <1>1, LeadsStops DEF Stops
  <2> QED
    BY <2>1, <2>2
<1> HIDE DEF e, f, g
<1>4. Does(e, d, K1, K2)
  <2> SUFFICES ASSUME NEW k \in K1 PROVE Executable(k, e) /\ Effect(k, e, d) \in K2
    BY DEF Does
  <2>1. Executable(k, e) /\ Effect(k, e, d) = [k EXCEPT !.files = NoMap, !.builds = NoMap, !.run = NoMap]
    BY <1>2 DEF Hosts, Executable, Effect
  <2> QED
    BY <2>1, NoMapTyped DEF Hosts, HostType
<1>5. Does(f, d, K2, K2)
  <2> SUFFICES ASSUME NEW k \in K2 PROVE Executable(k, f) /\ Effect(k, f, d) \in K2
    BY DEF Does
  <2>1. Executable(k, f) /\ Effect(k, f, d) = [k EXCEPT !.loaded = k.files]
    BY <1>2 DEF Hosts, Executable, Effect
  <2> QED
    BY <2>1 DEF Hosts, HostType
<1>6. Leads(t, K2, p3, d, K3)
  <2>1. o.dirs \ o.dirs = {}
    OBVIOUS
  <2>2. Leads(t, K2, p3, d, Hosts(NoMap, NoMap, o.dirs \ o.dirs, {}))
    BY <1>1, LeadsRemoveVolumes DEF VolumesGone
  <2> QED
    BY <2>1, <2>2
<1>7. Does(g, d, K3, K4)
  <2> SUFFICES ASSUME NEW k \in K3 PROVE Executable(k, g) /\ Effect(k, g, d) \in K4
    BY DEF Does
  <2>1. Executable(k, g) /\ Effect(k, g, d) \in {k, EmptyHost}
    BY <1>2 DEF Executable, Effect, Collected
  <2>2. k \in HostType /\ ~HasArtifacts(k)
    BY NoMapTyped DEF Hosts, HasArtifacts
  <2>3. EmptyHost \in HostType /\ ~HasArtifacts(EmptyHost)
    BY NoMapTyped DEF EmptyHost, HasArtifacts
  <2> QED
    BY <2>1, <2>2, <2>3
<1>8. K1 \in SUBSET HostType /\ K2 \in SUBSET HostType /\ K3 \in SUBSET HostType
  BY DEF Hosts
<1> DEFINE se == << e >>
           sf == << f >>
           sg == << g >>
           p2 == se \o sf
<1>9. se \in Seq(Actions) /\ sf \in Seq(Actions) /\ sg \in Seq(Actions) /\ p2 = Removal(o) /\ sg = Leaving(o)
  <2>1. e \in Actions /\ f \in Actions /\ g \in Actions
    BY <1>2 DEF On, Actions
  <2>2. << e >> \o << f >> = << e, f >>
    BY PairJoin
  <2> QED
    BY <2>1, <2>2 DEF Removal, Leaving, e, f, g
<1>10. p1 \in Seq(Actions) /\ p3 \in Seq(Actions)
  <2>1. \A ops : Only(ops, t) \subseteq Actions
    BY DEF Only, Actions
  <2> QED
    BY <2>1, TeardownIs, SeqMonotonic
<1> HIDE DEF K, K1, K2, K3, K4, p1, p3, t
<1>11. Leads(t, K1, se, d, K2)
  BY <1>1, <1>2, <1>4, <1>8, LeadsOne
<1>12. Leads(t, K2, sf, d, K2)
  BY <1>1, <1>2, <1>5, <1>8, LeadsOne
<1>13. Leads(t, K3, sg, d, K4)
  BY <1>1, <1>2, <1>7, <1>8, LeadsOne
<1> HIDE DEF se, sf, sg
<1>14. p2 \in Seq(Actions) /\ Leads(t, K1, p2, d, K2)
  <2>1. se \in Seq(Actions) /\ sf \in Seq(Actions)
    BY <1>9
  <2>2. Leads(t, K1, se \o sf, d, K2)
    BY <1>11, <1>12, <2>1, LeadsJoin
  <2> QED
    BY <2>1, <2>2, ConcatProperties
<1> HIDE DEF p2
<1> DEFINE q2 == p1 \o p2
           q3 == q2 \o p3
<1>15. q2 \in Seq(Actions) /\ Leads(t, K, q2, d, K2)
  BY <1>3, <1>10, <1>14, LeadsJoin
<1> HIDE DEF q2
<1>16. q3 \in Seq(Actions) /\ Leads(t, K, q3, d, K3)
  BY <1>6, <1>10, <1>15, LeadsJoin
<1> HIDE DEF q3
<1>17. Leads(t, K, q3 \o sg, d, K4)
  BY <1>9, <1>13, <1>16, LeadsJoin
<1>18. PlanTeardown(o) = q3 \o sg
  BY <1>9, TeardownParts DEF q3, q2, p1, p3
<1> QED
  BY <1>17, <1>18 DEF t, K, K4


-----------------------------------------------------------------------------
(* The planner converges.                                                  *)

LEMMA RunLeads ==
    ASSUME NEW hs \in [Tenants -> HostType], NEW t \in Tenants, NEW K, hs[t] \in K, NEW L, NEW p, NEW d,
           Leads(t, K, p, d, L)
    PROVE  \E k \in L : RunPlan(hs, p, d) = [ok |-> TRUE, hs |-> [hs EXCEPT ![t] = k]]
<1> DEFINE acc == [ok |-> TRUE, hs |-> hs]
<1>1. hs = [hs EXCEPT ![t] = hs[t]]
  OBVIOUS
<1>2. acc \in Worlds(hs, t, K)
  BY <1>1 DEF Worlds
<1> HIDE DEF acc
<1>3. RunFrom(acc, p, d) \in Worlds(hs, t, L)
  BY <1>2 DEF Leads
<1> QED
  BY <1>3 DEF Worlds, RunPlan, acc

\* A converged host is observed as the projection of its spec.
LEMMA ConvergedObserved ==
    ASSUME NEW d \in OwnSpecs, NEW hs \in [Tenants -> HostType], NEW k \in Converged(d),
           \A t \in Tenants \ {Owner} : t \notin Visible(hs)
    PROVE  Observations([hs EXCEPT ![Owner] = k]) = {Project(d)}
<1> DEFINE gs == [hs EXCEPT ![Owner] = k]
<1>1. /\ Owner \in Tenants /\ d.tenant = Owner /\ d # None /\ d.services # {} /\ d.suspended \in BOOLEAN
  BY ConvergenceAssumption, OwnSpecFacts
<1>2. /\ k \in HostType /\ k.user /\ k.files = Current(d) /\ k.builds = CurrentBuilds(d)
      /\ k.dirs = d.volumes /\ DOMAIN k.run = IF d.suspended THEN {} ELSE d.services
  BY DEF Converged, Hosts
<1>3. HasArtifacts(k)
  BY <1>1, <1>2 DEF HasArtifacts, Current
<1>4. gs[Owner] = k /\ \A t \in Tenants \ {Owner} : gs[t] = hs[t]
  BY <1>1
<1> HIDE DEF gs
<1>5. Visible(gs) = {Owner}
  BY <1>1, <1>2, <1>3, <1>4 DEF Visible
<1>6. ObservedUnder(k, Owner, DOMAIN k.run) = Project(d)
  <2>1. (DOMAIN k.files) \cup (DOMAIN k.run) = d.services
    BY <1>2 DEF Current
  <2>2. \A s \in d.services :
          ObservedUnit(IF s \in DOMAIN k.files THEN k.files[s] ELSE None, s \in DOMAIN k.run)
            = ObservedUnit(d.gen, ~d.suspended)
    <3> TAKE s \in d.services
    <3>1. s \in DOMAIN k.files /\ k.files[s] = d.gen
      BY <1>2 DEF Current
    <3>2. (s \in DOMAIN k.run) = ~d.suspended
      BY <1>1, <1>2
    <3> QED
      BY <3>1, <3>2
  <2>3. [s \in d.services |-> ObservedUnit(IF s \in DOMAIN k.files THEN k.files[s] ELSE None, s \in DOMAIN k.run)]
          = [s \in d.services |-> ObservedUnit(d.gen, ~d.suspended)]
    BY <2>2
  <2>4. k.user = TRUE
    BY <1>2 DEF HostType
  <2> QED
    BY <1>1, <1>2, <2>1, <2>3, <2>4 DEF ObservedUnder, Project, CurrentBuilds
<1>7. Observations(gs) = {ObservedUnder(gs[t], t, DOMAIN gs[t].run) : t \in Visible(gs)}
  BY <1>5 DEF Observations
<1>8. Observations(gs) = {ObservedUnder(k, Owner, DOMAIN k.run)}
  BY <1>4, <1>5, <1>7
<1> QED
  BY <1>6, <1>8 DEF gs

\* What is not rewritten is what the spec asks for.
LEMMA NotRewritten ==
    ASSUME NEW d \in OwnSpecs, NEW k \in HostType, ~Rewrites(d, ObservedUnder(k, Owner, DOMAIN k.run))
    PROVE  k.files = Current(d) /\ k.builds = CurrentBuilds(d)
<1> DEFINE o == ObservedUnder(k, Owner, DOMAIN k.run)
<1>1. /\ k.files \in PartialMap /\ k.builds \in PartialMap /\ k.run \in PartialMap
      /\ d.gen \in Nat /\ d.gen # None
  <2>1. d.gen \in Nat
    BY OwnSpecFacts, ConvergenceAssumption
  <2> QED
    BY <2>1, PlannerAssumption DEF HostType
<1>2. /\ k.files = [s \in DOMAIN k.files |-> k.files[s]] /\ k.builds = [s \in DOMAIN k.builds |-> k.builds[s]]
  BY <1>1, MapFacts DEF PartialMap
<1>3. /\ DOMAIN o.units = (DOMAIN k.files) \cup (DOMAIN k.run) /\ o.builds = k.builds
      /\ \A s \in DOMAIN o.units : o.units[s].hash = IF s \in DOMAIN k.files THEN k.files[s] ELSE None
  BY DEF ObservedUnder, ObservedUnit
<1> HIDE DEF o
<1>4. Stale(d, o) = {} /\ Extra(d, o) = {} /\ BuildStale(d, o) = {} /\ ExtraBuilds(d, o) = {}
  BY DEF Rewrites, o
<1>5. \A s \in d.services : s \in DOMAIN k.files /\ k.files[s] = d.gen
  BY <1>1, <1>3, <1>4 DEF Stale
<1>6. DOMAIN k.files = d.services
  BY <1>3, <1>4, <1>5 DEF Extra
<1>7. DOMAIN k.builds = d.builds /\ \A s \in d.builds : k.builds[s] = d.gen
  <2>1. \A s \in d.builds : s \in DOMAIN o.builds /\ o.builds[s] = d.gen
    BY <1>4 DEF BuildStale
  <2>2. DOMAIN o.builds = d.builds
    BY <1>4, <2>1 DEF ExtraBuilds
  <2> QED
    BY <1>3, <2>1, <2>2
<1> QED
  BY <1>2, <1>5, <1>6, <1>7 DEF Current, CurrentBuilds

UsersKnown == \A t \in Tenants : host[t].user \/ host[t] = EmptyHost

\* A plan on the owner's host alone.
LEMMA OwnerConverges ==
    ASSUME NEW hs \in [Tenants -> HostType], NEW d \in OwnSpecs, NEW o \in Observed,
           \A t \in Tenants \ {Owner} : t \notin Visible(hs),
           \/ o = NothingObserved(Owner) /\ ~HasArtifacts(hs[Owner])
           \/ o = ObservedUnder(hs[Owner], Owner, DOMAIN hs[Owner].run)
    PROVE  LET end == RunPlan(hs, PlanConverge(d, o) \o << Sync >>, d)
           IN  end.ok /\ Observations(end.hs) = {Project(d)}
<1> DEFINE h == hs[Owner]
           F == h.files
           B == h.builds
           K == Before(o, F, B, o.dirs, ActiveOf(o))
           p == PlanConverge(d, o)
           sy == << Sync >>
<1>1. Owner \in Tenants /\ h \in HostType /\ d \in OwnSpecs
  BY ConvergenceAssumption
<1>2. /\ o.present => h.user
      /\ h.dirs = o.dirs /\ DOMAIN h.run = ActiveOf(o) /\ ActiveOf(o) \subseteq DOMAIN o.units
      /\ ~Rewrites(d, o) => F = Current(d) /\ B = CurrentBuilds(d)
  <2>1. CASE o = NothingObserved(Owner) /\ ~HasArtifacts(h)
    <3>1. o.dirs = {} /\ DOMAIN o.units = {} /\ ~o.present
      BY <1>1, <2>1, NothingIs
    <3>2. ActiveOf(o) = {} /\ h.dirs = {} /\ DOMAIN h.run = {}
      BY <2>1, <3>1 DEF ActiveOf, HasArtifacts
    <3>3. Rewrites(d, o)
      BY <3>1, OwnSpecFacts DEF Rewrites, Stale
    <3> QED
      BY <3>1, <3>2, <3>3
  <2>2. CASE o = ObservedUnder(h, Owner, DOMAIN h.run)
    <3>1. DOMAIN h.run \in SUBSET Services
      BY <1>1, MapFacts DEF HostType, PartialMap
    <3>2. /\ o.present = h.user /\ DOMAIN o.units = (DOMAIN h.files) \cup (DOMAIN h.run)
          /\ ActiveOf(o) = DOMAIN h.run /\ o.dirs = h.dirs
      <4> DEFINE seen == DOMAIN h.run
      <4> HIDE DEF h, seen
      <4> QED
        BY <1>1, <2>2, <3>1, ObservedUnderTyped DEF seen
    <3>3. ~Rewrites(d, o) => F = Current(d) /\ B = CurrentBuilds(d)
      BY <1>1, <2>2, NotRewritten
    <3> QED
      BY <3>2, <3>3
  <2> QED
    BY <2>1, <2>2
<1>3. h \in K
  BY <1>1, <1>2 DEF Before
<1> HIDE DEF F, B
<1>4. Leads(Owner, K, p, d, Converged(d))
  BY <1>2, LeadsConverge
<1>5. Leads(Owner, Converged(d), sy, d, Converged(d)) /\ sy \in Seq(Actions)
  BY LeadsSync
<1>6. p \in Seq(Actions)
  BY ConvergePlan
<1> HIDE DEF K, p, sy
<1>7. Leads(Owner, K, p \o sy, d, Converged(d))
  BY <1>4, <1>5, <1>6, LeadsJoin
<1> DEFINE q == p \o sy
<1> HIDE DEF q
<1>8. PICK k \in Converged(d) : RunPlan(hs, q, d) = [ok |-> TRUE, hs |-> [hs EXCEPT ![Owner] = k]]
  BY <1>1, <1>3, <1>7, RunLeads DEF q
<1>9. Observations([hs EXCEPT ![Owner] = k]) = {Project(d)}
  BY ConvergedObserved
<1> DEFINE end == RunPlan(hs, q, d)
<1>10. end.ok = TRUE /\ end.hs = [hs EXCEPT ![Owner] = k]
  BY <1>8
<1> HIDE DEF end
<1>11. end.ok /\ Observations(end.hs) = {Project(d)}
  BY <1>9, <1>10
<1> QED
  BY <1>11 DEF end, q, p, sy


LEMMA RunTeardown ==
    ASSUME NEW hs \in [Tenants -> HostType], NEW d \in OwnSpecs \cup {None}, NEW o \in Observed,
           o = ObservedUnder(hs[o.tenant], o.tenant, DOMAIN hs[o.tenant].run), hs[o.tenant].user,
           \A t, u \in Visible(hs) : t = u, o.tenant \in Visible(hs)
    PROVE  \E gs \in [Tenants -> HostType] :
             /\ RunPlan(hs, PlanTeardown(o), d) = [ok |-> TRUE, hs |-> gs]
             /\ Visible(gs) = {} /\ \A t \in Tenants \ {o.tenant} : gs[t] = hs[t]
             /\ ~HasArtifacts(gs[o.tenant])
<1> DEFINE t == o.tenant
           h == hs[t]
           K == Hosts(h.files, h.builds, o.dirs, ActiveOf(o))
           L == {k \in HostType : ~HasArtifacts(k)}
           p == PlanTeardown(o)
<1>1. t \in Tenants /\ h \in HostType
  BY ObservedFinite
<1>2. ActiveOf(o) = DOMAIN h.run /\ o.dirs = h.dirs
  <2>1. DOMAIN h.run \in SUBSET Services
    BY <1>1, MapFacts DEF HostType, PartialMap
  <2> DEFINE seen == DOMAIN h.run
  <2>2. o = ObservedUnder(h, t, seen) /\ seen \in SUBSET Services
    BY <2>1
  <2> HIDE DEF h, seen, t
  <2> QED
    BY <1>1, <2>2, ObservedUnderTyped DEF seen
<1>3. h \in K
  BY <1>1, <1>2 DEF Hosts
<1>4. Leads(t, K, p, d, L)
  BY LeadsTeardown
<1> HIDE DEF K, L, p, t
<1>5. PICK k \in L : RunPlan(hs, p, d) = [ok |-> TRUE, hs |-> [hs EXCEPT ![t] = k]]
  BY <1>1, <1>3, <1>4, RunLeads
<1>6. k \in HostType /\ ~HasArtifacts(k)
  BY DEF L
<1> DEFINE gs == [hs EXCEPT ![t] = k]
<1>7. gs \in [Tenants -> HostType] /\ gs[t] = k /\ \A u \in Tenants \ {t} : gs[u] = hs[u]
  BY <1>1, <1>6
<1> HIDE DEF gs
<1>8. Visible(gs) = {}
  BY <1>1, <1>6, <1>7 DEF Visible, t
<1>9. RunPlan(hs, p, d) = [ok |-> TRUE, hs |-> gs]
  BY <1>5 DEF gs
<1> QED
  BY <1>6, <1>7, <1>8, <1>9 DEF p, t

LEMMA RunPlanJoin ==
    ASSUME NEW hs, NEW gs, NEW p \in Seq(Actions), NEW q \in Seq(Actions), NEW d,
           RunPlan(hs, p, d) = [ok |-> TRUE, hs |-> gs]
    PROVE  RunPlan(hs, p \o q, d) = RunPlan(gs, q, d)
<1> DEFINE acc == [ok |-> TRUE, hs |-> hs]
<1> HIDE DEF acc
<1>1. RunFrom(acc, p \o q, d) = RunFrom(RunFrom(acc, p, d), q, d)
  BY RunJoin
<1> QED
  BY <1>1 DEF RunPlan, acc

LEMMA TypedConverges ==
    ASSUME ConvTyped, UsersKnown
    PROVE  PlanConverges
<1> SUFFICES ASSUME \A t, u \in Visible(host) : t = u, NEW obs \in Observations(host)
             PROVE  LET end == RunPlan(host, Plan(Desired, obs), Desired)
                    IN  end.ok /\ Observations(end.hs) = {Project(Desired)}
  BY DEF PlanConverges
<1> DEFINE d == Desired
           sy == << Sync >>
           nothing == NothingObserved(Owner)
           q == PlanConverge(d, nothing) \o sy
<1>1. /\ d \in OwnSpecs \cup {None} /\ host \in [Tenants -> HostType] /\ Owner \in Tenants
      /\ \A t \in Tenants : host[t].user \/ host[t] = EmptyHost
  BY DesiredTyped, ConvergenceAssumption DEF ConvTyped, UsersKnown
<1>2. ~HasArtifacts(EmptyHost)
  BY NoMapTyped DEF EmptyHost, HasArtifacts
<1>3. \A t \in Tenants : t \in Visible(host) <=> HasArtifacts(host[t])
  BY <1>1, <1>2 DEF Visible
<1>4. obs \in Observed \cup {None}
  BY <1>1, ObservationsTyped
<1>5. obs = None => Visible(host) = {}
  <2> SUFFICES ASSUME obs = None PROVE Visible(host) = {}
    OBVIOUS
  <2>1. \A t \in Tenants : ~HasArtifacts(host[t])
    BY <1>1, ObservationIs
  <2> QED
    BY <2>1 DEF Visible
<1>6. obs # None =>
        /\ obs.tenant \in Tenants /\ host[obs.tenant].user /\ obs.tenant \in Visible(host)
        /\ obs = ObservedUnder(host[obs.tenant], obs.tenant, DOMAIN host[obs.tenant].run)
  BY <1>1, <1>3, ObservationIs
<1>7. sy \in Seq(Actions) /\ \A hs : RunPlan(hs, sy, d) = [ok |-> TRUE, hs |-> hs]
  <2>1. Sync \in Actions /\ Sync.op = "SyncCaddy"
    BY DEF Sync, Action, Actions
  <2>2. \A acc : RunFrom(acc, << Sync >>, d) = acc
    BY <2>1, RunOne DEF RunStep
  <2> QED
    BY <2>1, <2>2 DEF RunPlan
<1>8. obs # None => PlanTeardown(obs) \in Seq(Actions)
  BY <1>4, TeardownPlan
<1>9. d # None => nothing \in Observed /\ q \in Seq(Actions)
  <2> SUFFICES ASSUME d # None PROVE nothing \in Observed /\ q \in Seq(Actions)
    OBVIOUS
  <2>1. PlanConverge(d, nothing) \in Seq(Actions) /\ nothing \in Observed
    BY <1>1, <1>4, ConvergePlan
  <2> QED
    BY <1>7, <2>1, ConcatProperties
<1> HIDE DEF d, sy
<1>10. CASE d = None
  <2>1. CASE obs = None
    <3>1. Plan(d, obs) = <<>>
      BY <1>10, <2>1, PlanCases
    <3>2. RunPlan(host, <<>>, d) = [ok |-> TRUE, hs |-> host]
      BY RunEmpty DEF RunPlan
    <3>3. Observations(host) = {None}
      BY <1>5, <2>1 DEF Observations
    <3> QED
      BY <1>10, <3>1, <3>2, <3>3 DEF d, Project
  <2>2. CASE obs # None
    <3>1. PICK gs \in [Tenants -> HostType] :
             /\ RunPlan(host, PlanTeardown(obs), d) = [ok |-> TRUE, hs |-> gs]
             /\ Visible(gs) = {}
      BY <1>1, <1>4, <1>6, <2>2, RunTeardown
    <3>2. Plan(d, obs) = PlanTeardown(obs) \o sy
      BY <1>4, <1>10, <2>2, TeardownPlan DEF sy
    <3>3. RunPlan(host, Plan(d, obs), d) = [ok |-> TRUE, hs |-> gs]
      <4> DEFINE p == PlanTeardown(obs)
      <4>1. p \in Seq(Actions) /\ sy \in Seq(Actions)
        BY <1>7, <1>8, <2>2
      <4>2. RunPlan(host, p, d) = [ok |-> TRUE, hs |-> gs] /\ Plan(d, obs) = p \o sy
        BY <3>1, <3>2
      <4>3. RunPlan(gs, sy, d) = [ok |-> TRUE, hs |-> gs]
        BY <1>7
      <4> HIDE DEF p
      <4>4. RunPlan(host, p \o sy, d) = RunPlan(gs, sy, d)
        BY <4>1, <4>2, RunPlanJoin
      <4> QED
        BY <4>2, <4>3, <4>4
    <3>4. Observations(gs) = {None}
      BY <3>1 DEF Observations
    <3> QED
      BY <1>10, <3>3, <3>4 DEF d, Project
  <2> QED
    BY <2>1, <2>2
<1>11. CASE d # None
  <2>1. d \in OwnSpecs
    BY <1>1, <1>11
  <2>2. CASE obs = None
    <3>1. Plan(d, obs) = q
      BY <2>1, <2>2, ConvergePlan DEF sy
    <3>2. ~HasArtifacts(host[Owner]) /\ \A t \in Tenants \ {Owner} : t \notin Visible(host)
      BY <1>1, <1>3, <1>5, <2>2
    <3>3. LET end == RunPlan(host, PlanConverge(d, nothing) \o << Sync >>, d)
          IN  end.ok /\ Observations(end.hs) = {Project(d)}
      BY <1>1, <1>9, <1>11, <2>1, <3>2, OwnerConverges
    <3> QED
      BY <3>1, <3>3 DEF d, sy
  <2>3. CASE obs # None /\ obs.tenant # Owner
    <3>1. PICK gs \in [Tenants -> HostType] :
             /\ RunPlan(host, PlanTeardown(obs), d) = [ok |-> TRUE, hs |-> gs]
             /\ Visible(gs) = {} /\ \A t \in Tenants \ {obs.tenant} : gs[t] = host[t]
      BY <1>1, <1>4, <1>6, <2>3, RunTeardown
    <3>2. Plan(d, obs) = PlanTeardown(obs) \o q
      BY <1>4, <2>1, <2>3, ConvergePlan DEF sy
    <3>3. RunPlan(host, Plan(d, obs), d) = RunPlan(gs, q, d)
      <4> HIDE DEF q
      <4> QED
        BY <1>8, <1>9, <1>11, <2>3, <3>1, <3>2, RunPlanJoin
    <3>4. ~HasArtifacts(gs[Owner]) /\ \A t \in Tenants \ {Owner} : t \notin Visible(gs)
      <4>1. Owner \notin Visible(host)
        BY <1>6, <2>3
      <4> QED
        BY <1>1, <1>3, <2>3, <3>1, <4>1
    <3>5. LET end == RunPlan(gs, PlanConverge(d, nothing) \o << Sync >>, d)
          IN  end.ok /\ Observations(end.hs) = {Project(d)}
      BY <1>9, <1>11, <2>1, <3>4, OwnerConverges
    <3> QED
      BY <3>3, <3>5 DEF d, sy
  <2>4. CASE obs # None /\ obs.tenant = Owner
    <3>1. CASE Plan(d, obs) = <<>>
      <4>1. obs = Project(d)
        BY <1>1, <1>4, <3>1, PlanEmpty
      <4>2. RunPlan(host, <<>>, d) = [ok |-> TRUE, hs |-> host]
        BY RunEmpty DEF RunPlan
      <4>3. Visible(host) = {Owner}
        BY <1>6, <2>4
      <4>4. Observations(host) = {ObservedUnder(host[t], t, DOMAIN host[t].run) : t \in {Owner}}
        BY <4>3 DEF Observations
      <4>5. Observations(host) = {obs}
        BY <1>6, <2>4, <4>4
      <4> QED
        BY <3>1, <4>1, <4>2, <4>5 DEF d
    <3>2. CASE Plan(d, obs) # <<>>
      <4>1. Plan(d, obs) = PlanConverge(d, obs) \o << Sync >>
        BY <1>4, <2>1, <2>4, <3>2, ConvergePlan
      <4>2. \A t \in Tenants \ {Owner} : t \notin Visible(host)
        BY <1>6, <2>4
      <4>3. obs \in Observed /\ obs = ObservedUnder(host[Owner], Owner, DOMAIN host[Owner].run)
        BY <1>4, <1>6, <2>4
      <4>4. LET end == RunPlan(host, PlanConverge(d, obs) \o << Sync >>, d)
            IN  end.ok /\ Observations(end.hs) = {Project(d)}
        BY <1>1, <2>1, <4>2, <4>3, OwnerConverges
      <4> QED
        BY <4>1, <4>4 DEF d
    <3> QED
      BY <3>1, <3>2
  <2> QED
    BY <2>2, <2>3, <2>4
<1> QED
  BY <1>10, <1>11

\* A tenant the ledger does not know has nothing of the stack on the host.
LEMMA InitKnown == Init => UsersKnown
  BY DEF Init, UsersKnown, EmptyHost

LEMMA ExecuteKnown ==
    ASSUME ConvTyped, UsersKnown, ExecuteAction
    PROVE  UsersKnown'
<1> DEFINE a == Head(plan)
           t == a.tenant
           h == host[t]
           k == Effect(h, a, spec)
<1>1. a \in Actions /\ a = plan[1] /\ 1 \in 1 .. Len(plan)
  BY PlanTail DEF ConvTyped, ExecuteAction
<1>2. CASE a.op = "SyncCaddy"
  BY <1>2 DEF ExecuteAction, UsersKnown
<1>3. CASE a.op # "SyncCaddy"
  <2>1. /\ a \in HostActions /\ t \in Tenants /\ h \in HostType
        /\ a.op = "WriteUnits" => spec # None
        /\ spec \in OwnSpecs \cup {None}
    BY <1>1, <1>3 DEF Actions, Action, HostActions, ServiceActions, VolumeActions, TenantActions,
       ConvTyped, CycleTyped
  <2>2. Executable(h, a) /\ host' = [host EXCEPT ![t] = k]
    BY <1>3 DEF ExecuteAction
  <2>3. h.user \/ h = EmptyHost
    BY <2>1 DEF UsersKnown
  <2> HIDE DEF a, t, h, k
  <2>4. k.user \/ k = EmptyHost
    BY <2>1, <2>2, <2>3, EffectIs DEF k
  <2> QED
    BY <2>1, <2>2, <2>4 DEF UsersKnown, ConvTyped
<1> QED
  BY <1>2, <1>3

LEMMA DriftKnown ==
    ASSUME ConvTyped, UsersKnown, Drift
    PROVE  UsersKnown'
<1>0. PICK t \in Tenants : \E s \in (DOMAIN host[t].files) \cup (DOMAIN host[t].run) :
         \/ host' = [host EXCEPT ![t].run = Without(@, {s})]
         \/ /\ s \in DOMAIN host[t].files
            /\ \/ host' = [host EXCEPT ![t].files[s] = None]
               \/ host' = [host EXCEPT ![t].files = Without(@, {s})]
  BY DEF Drift
<1>1. PICK s \in (DOMAIN host[t].files) \cup (DOMAIN host[t].run) :
         \/ host' = [host EXCEPT ![t].run = Without(@, {s})]
         \/ /\ s \in DOMAIN host[t].files
            /\ \/ host' = [host EXCEPT ![t].files[s] = None]
               \/ host' = [host EXCEPT ![t].files = Without(@, {s})]
  BY <1>0
<1>2. host[t] # EmptyHost
  BY <1>1, NoMapTyped DEF EmptyHost
<1>3. host[t].user /\ host \in [Tenants -> HostType]
  BY <1>2 DEF UsersKnown, ConvTyped
<1>4. host'[t].user /\ \A u \in Tenants \ {t} : host'[u] = host[u]
  BY <1>1, <1>3 DEF HostType
<1> QED
  BY <1>4 DEF UsersKnown

LEMMA NextKnown == ConvTyped /\ UsersKnown /\ [Next]_vars => UsersKnown'
<1>1. ASSUME UsersKnown, UNCHANGED host PROVE UsersKnown'
  BY <1>1 DEF UsersKnown
<1> QED
  BY <1>1, ExecuteKnown, DriftKnown
     DEF Next, ApiWrite, CreateStack, EditStack, DeleteStack, ToggleSuspension, Write, Reconcile,
         BeginCycle, Cycle, BuildRoutes, FinishCycle, ActionImpossible, AbandonPlan, StepNameRaises,
         Disturbance, BeginBlindCycle, ActionFails, Restart, vars

LEMMA AlwaysKnown == Spec => []UsersKnown
  BY AlwaysTyped, InitKnown, NextKnown, PTL DEF Spec

\* Convergence theorem of planner.py: on every host that edits, failed and
\* half-executed plans, restarts and drifts can leave, executing a fresh plan
\* without interruption meets the prerequisites of each of its actions, and
\* the host is then observed as the projection of the spec.
THEOREM PlannerConverges == Spec => []PlanConverges
  BY AlwaysTyped, AlwaysKnown, TypedConverges, PTL



-----------------------------------------------------------------------------
(* The routes: as long as nothing failed.                                  *)

\* What may follow the rewriting of the units in a plan without zero-downtime
\* deployments: none of it can fail, and none of it touches a unit file.
Followers == {"DaemonReload", "StartService", "RestartService", "StopService", "RemoveVolumeDir"}
Follows(a, S) ==
    \/ a = Sync
    \/ /\ a \in HostActions /\ a.tenant = Owner /\ a.op \in Followers
       /\ a.op \in {"StartService", "RestartService"} => a.arg \in S

SyncLast(p) == p # <<>> => p[Len(p)] = Sync /\ \A i \in 1 .. Len(p) - 1 : p[i] \in HostActions

UnitsThen(p, d) == d # None /\ d.zdt = {} =>
    \A j \in 1 .. Len(p) : \A i \in 1 .. j - 1 : p[i].op = "WriteUnits" => Follows(p[j], d.services)

Holds(h, g) == \E s \in DOMAIN h.files : h.files[s] = g

\* No generation is in use that was not issued.
NoneNewer ==
    /\ row # None => row.spec.gen <= nextGen
    /\ spec # None => spec.gen <= nextGen
    /\ \A s \in DOMAIN host[Owner].files : host[Owner].files[s] \in 0 .. nextGen

SameSpec ==
    row # None /\ spec # None /\ spec.gen = row.spec.gen =>
        spec.zdt = row.spec.zdt /\ row.status # "deleting"

PlanRoutes ==
    SyncLast(plan) /\ UnitsThen(plan, spec) /\ (built # <<>> => Len(plan) = 1)

\* A host that carries the current generation is routed as of it, or is about
\* to be: the rest of the plan ends in SyncCaddy and can only succeed.
Underway ==
    /\ plan # <<>> /\ host[Owner].user
    /\ \A i \in 1 .. Len(plan) : Follows(plan[i], DOMAIN host[Owner].files)

Routed == row # None /\ Holds(host[Owner], row.spec.gen) =>
    /\ row.status # "deleting" /\ (busy => spec # None)
    /\ built # <<>> => built = << row.spec.gen >>
    /\ row.spec.zdt = {} => ingress = row.spec.gen \/ Underway

Routing == faults = 0 => NoneNewer /\ SameSpec /\ PlanRoutes /\ Routed

\* Fresh plans.
LEMMA SyncLastAppend ==
    ASSUME NEW q \in Seq(HostActions)
    PROVE  SyncLast(Append(q, Sync))
<1> DEFINE A == HostActions \cup {Sync}
<1>1. q \in Seq(A) /\ Sync \in A
  BY SeqMonotonic
<1>2. \A i \in 1 .. Len(q) : q[i] \in HostActions
  BY ElementOfSeq
<1> HIDE DEF A
<1>3. /\ Len(q) \in Nat /\ Len(Append(q, Sync)) = Len(q) + 1
      /\ \A i \in 1 .. Len(q) : Append(q, Sync)[i] = q[i]
      /\ Append(q, Sync)[Len(q) + 1] = Sync
  BY <1>1, AppendProperties
<1> QED
  BY <1>2, <1>3 DEF SyncLast

LEMMA FreshSyncLast ==
    ASSUME NEW d \in OwnSpecs \cup {None}, NEW obs \in Observed \cup {None}
    PROVE  SyncLast(Plan(d, obs))
<1>1. \A t, ops : Only(ops, t) \subseteq HostActions
  BY DEF Only
<1>2. obs # None => PlanTeardown(obs) \in Seq(HostActions)
  BY <1>1, TeardownIs, SeqMonotonic
<1>3. d # None => \A o \in Observed : PlanConverge(d, o) \in Seq(HostActions)
  BY <1>1, ConvergeIs, SeqMonotonic
<1>4. d # None => NothingObserved(d.tenant) \in Observed
  BY NothingIs, OwnSpecFacts DEF Specs
<1>5. d # None /\ obs # None =>
        PlanTeardown(obs) \o PlanConverge(d, NothingObserved(d.tenant)) \in Seq(HostActions)
  BY <1>2, <1>3, <1>4, ConcatProperties
<1>6. SyncLast(<<>>)
  BY DEF SyncLast
<1>7. CASE d = None
  BY <1>2, <1>6, <1>7, PlanCases, SyncLastAppend
<1>8. CASE d # None
  <2>1. CASE obs = None
    BY <1>3, <1>4, <1>8, <2>1, PlanCases, SyncLastAppend
  <2>2. CASE obs # None /\ obs.tenant # d.tenant
    BY <1>5, <1>8, <2>2, PlanCases, SyncLastAppend
  <2>3. CASE obs # None /\ obs.tenant = d.tenant
    <3>1. obs \in Observed /\ PlanConverge(d, obs) \in Seq(HostActions)
      BY <1>3, <1>8, <2>3
    <3>2. Plan(d, obs) = <<>> \/ Plan(d, obs) = Append(PlanConverge(d, obs), Sync)
      BY <1>8, <2>3, PlanCases
    <3> QED
      BY <1>6, <3>1, <3>2, SyncLastAppend
  <2> QED
    BY <2>1, <2>2, <2>3
<1> QED
  BY <1>7, <1>8

LEMMA ThenJoin ==
    ASSUME NEW d, NEW p \in Seq(Actions), NEW q \in Seq(Actions),
           \A i \in 1 .. Len(p) : p[i].op # "WriteUnits", UnitsThen(q, d)
    PROVE  UnitsThen(p \o q, d)
<1> DEFINE r == p \o q
<1>1. /\ r \in Seq(Actions) /\ Len(r) = Len(p) + Len(q) /\ Len(p) \in Nat /\ Len(q) \in Nat
      /\ \A i \in 1 .. Len(p) + Len(q) : r[i] = IF i <= Len(p) THEN p[i] ELSE q[i - Len(p)]
  BY ConcatProperties
<1> HIDE DEF r
<1>2. ASSUME NEW j \in 1 .. Len(r), NEW i \in 1 .. j - 1, r[i].op = "WriteUnits", d # None, d.zdt = {}
      PROVE  Follows(r[j], d.services)
  <2>1. i \in 1 .. Len(p) + Len(q) /\ j \in 1 .. Len(p) + Len(q) /\ i < j
    BY <1>1
  <2>2. ~(i <= Len(p))
    BY <1>1, <1>2, <2>1
  <2>3. /\ j - Len(p) \in 1 .. Len(q) /\ ~(j <= Len(p))
        /\ i - Len(p) \in 1 .. (j - Len(p)) - 1
    BY <1>1, <2>1, <2>2
  <2>4. r[j] = q[j - Len(p)] /\ r[i] = q[i - Len(p)]
    BY <1>1, <2>1, <2>2, <2>3
  <2> QED
    BY <1>2, <2>3, <2>4 DEF UnitsThen
<1> QED
  BY <1>2 DEF UnitsThen, r

LEMMA ThenAppend ==
    ASSUME NEW d, NEW q \in Seq(HostActions), UnitsThen(q, d)
    PROVE  UnitsThen(Append(q, Sync), d)
<1> DEFINE A == HostActions \cup {Sync}
           r == Append(q, Sync)
<1>1. q \in Seq(A) /\ Sync \in A
  BY SeqMonotonic
<1> HIDE DEF A
<1>2. /\ Len(q) \in Nat /\ Len(r) = Len(q) + 1
      /\ \A i \in 1 .. Len(q) : r[i] = q[i]
      /\ r[Len(q) + 1] = Sync
  BY <1>1, AppendProperties
<1> HIDE DEF r
<1>3. ASSUME NEW j \in 1 .. Len(r), NEW i \in 1 .. j - 1, r[i].op = "WriteUnits", d # None, d.zdt = {}
      PROVE  Follows(r[j], d.services)
  <2>1. CASE j = Len(q) + 1
    BY <1>2, <2>1 DEF Follows
  <2>2. CASE j # Len(q) + 1
    <3>1. j \in 1 .. Len(q) /\ i \in 1 .. Len(q)
      BY <1>2, <2>2
    <3> QED
      BY <1>2, <1>3, <3>1 DEF UnitsThen
  <2> QED
    BY <2>1, <2>2
<1> QED
  BY <1>3 DEF UnitsThen, r

\* What comes after the units follows: without zero-downtime deployments
\* services are started, stopped and restarted only.
LEMMA CompletionFollows ==
    ASSUME NEW d \in OwnSpecs, NEW o \in Observed, d.zdt = {}
    PROVE  Completion(d, o) \in Seq({a \in HostActions : Follows(a, d.services)})
<1> DEFINE F == {a \in HostActions : Follows(a, d.services)}
           q == SetToSeq(d.services)
           n == Cardinality(d.services)
           P == PerService(d, o)
<1>1. /\ d \in Specs /\ d.tenant = Owner /\ Owner \in Tenants
      /\ d.services \in SUBSET Services /\ IsFiniteSet(d.services) /\ d.suspended \in BOOLEAN
  BY OwnSpecFacts, FS_Subset, PlannerAssumption, ConvergenceAssumption
<1>2. \A s \in d.services, op \in {"StopService", "StartService", "RestartService"} :
        Action(op, Owner, s) \in F
  BY <1>1 DEF Follows, Followers, Action, HostActions, ServiceActions, ServiceOps
<1>3. \A s \in d.services : ServiceAction(d, o, s) \in Seq(F)
  <2> HIDE DEF F
  <2> TAKE s \in d.services
  <2>1. \A op \in {"StopService", "StartService", "RestartService"} : << Action(op, Owner, s) >> \in Seq(F)
    BY <1>2
  <2>2. <<>> \in Seq(F)
    OBVIOUS
  <2>3. CASE d.suspended /\ s \in ActiveOf(o)
    BY <1>1, <2>1, <2>3 DEF ServiceAction
  <2>4. CASE d.suspended /\ s \notin ActiveOf(o)
    BY <2>2, <2>4 DEF ServiceAction
  <2>5. CASE ~d.suspended /\ s \notin ActiveOf(o)
    BY <1>1, <2>1, <2>5 DEF ServiceAction
  <2>6. CASE ~d.suspended /\ s \in ActiveOf(o)
    BY <1>1, <2>1, <2>2, <2>6 DEF ServiceAction
  <2> QED
    BY <1>1, <2>3, <2>4, <2>5, <2>6
<1>4. FlattenSeq(P) \in Seq(F)
  <2>1. n \in Nat /\ DOMAIN q = 1 .. n /\ \A i \in 1 .. n : q[i] \in d.services
    BY <1>1, Listing
  <2>2. P = [i \in 1 .. n |-> ServiceAction(d, o, q[i])]
    BY <2>1 DEF PerService
  <2>3. \A i \in 1 .. n : ServiceAction(d, o, q[i]) \in Seq(F)
    BY <1>3, <2>1
  <2> HIDE DEF q, n, F, P
  <2>4. P \in Seq(Seq(F))
    BY <2>1, <2>2, <2>3
  <2> QED
    BY <2>4, FlattenEmpty
<1>5. OldVolumes(d, o) \in Seq(F)
  <2>1. OldVolumes(d, o) \in Seq(Only({"RemoveVolumeDir"}, Owner))
    BY <1>1, ConvergePartsAre
  <2>2. Only({"RemoveVolumeDir"}, Owner) \subseteq F
    BY DEF Only, Follows, Followers
  <2> HIDE DEF F
  <2> QED
    BY <2>1, <2>2, SeqMonotonic
<1> HIDE DEF F, P
<1> QED
  BY <1>4, <1>5, ConcatProperties DEF Completion, F, P

LEMMA ConvergeThen ==
    ASSUME NEW d \in OwnSpecs, NEW o \in Observed
    PROVE  UnitsThen(PlanConverge(d, o), d)
<1> SUFFICES ASSUME d.zdt = {} PROVE UnitsThen(PlanConverge(d, o), d)
  BY DEF UnitsThen
<1> DEFINE F == {a \in HostActions : Follows(a, d.services)}
           pre == Preparation(d, o)
           w == Rewriting(d, o)
           c == Completion(d, o)
           q == w \o c
<1>1. PlanConverge(d, o) = pre \o q
  BY ConvergeOrder
<1>2. pre \in Seq(Only(Preparing, Owner)) /\ w \in Seq(HostActions) /\ c \in Seq(F)
  <2>1. Only({"WriteUnits", "DaemonReload"}, Owner) \subseteq HostActions
    BY DEF Only
  <2> QED
    BY <2>1, ConvergeOrder, CompletionFollows, SeqMonotonic
<1>3. pre \in Seq(Actions) /\ \A i \in 1 .. Len(pre) : pre[i].op # "WriteUnits"
  <2>1. Only(Preparing, Owner) \subseteq Actions
    BY DEF Only, Actions
  <2> HIDE DEF pre
  <2>2. \A i \in 1 .. Len(pre) : pre[i] \in Only(Preparing, Owner)
    BY <1>2, ElementOfSeq
  <2> QED
    BY <1>2, <2>1, <2>2, SeqMonotonic DEF Only, Preparing
<1>4. w = <<>> \/ (w = << Action("WriteUnits", Owner, None), Action("DaemonReload", Owner, None) >>)
  BY OwnSpecFacts DEF Rewriting, If
<1>5. Follows(Action("DaemonReload", Owner, None), d.services)
  BY ConvergenceAssumption DEF Follows, Followers, Action, HostActions, TenantActions, TenantOps
<1>6. c \in Seq(HostActions) /\ \A i \in 1 .. Len(c) : Follows(c[i], d.services)
  <2>1. F \subseteq HostActions
    OBVIOUS
  <2> HIDE DEF F, c
  <2>2. \A i \in 1 .. Len(c) : c[i] \in F
    BY <1>2, ElementOfSeq
  <2> QED
    BY <1>2, <2>1, <2>2, SeqMonotonic DEF F
<1>7. Len(w) \in {0, 2} /\ (Len(w) = 2 => Follows(w[2], d.services))
  <2>1. CASE w = <<>>
    BY <2>1
  <2>2. CASE w = << Action("WriteUnits", Owner, None), Action("DaemonReload", Owner, None) >>
    BY <1>5, <2>2
  <2> QED
    BY <1>4, <2>1, <2>2
<1> HIDE DEF pre, w, c, F
<1>8. /\ q \in Seq(HostActions) /\ Len(q) = Len(w) + Len(c) /\ Len(c) \in Nat
      /\ \A i \in 1 .. Len(w) + Len(c) : q[i] = IF i <= Len(w) THEN w[i] ELSE c[i - Len(w)]
  BY <1>2, <1>6, ConcatProperties
<1> HIDE DEF q
<1>9. \A j \in 2 .. Len(q) : Follows(q[j], d.services)
  <2> TAKE j \in 2 .. Len(q)
  <2>1. CASE Len(w) = 2 /\ j = 2
    BY <1>7, <1>8, <2>1
  <2>2. CASE ~(Len(w) = 2 /\ j = 2)
    <3>1. j - Len(w) \in 1 .. Len(c) /\ ~(j <= Len(w)) /\ j \in 1 .. Len(w) + Len(c)
      BY <1>7, <1>8, <2>2
    <3>2. q[j] = c[j - Len(w)]
      BY <1>8, <3>1
    <3> QED
      BY <1>6, <3>1, <3>2
  <2> QED
    BY <2>1, <2>2
<1>10. UnitsThen(q, d)
  <2>1. \A j \in 1 .. Len(q) : \A i \in 1 .. j - 1 : j \in 2 .. Len(q)
    BY <1>8
  <2> QED
    BY <1>9, <2>1 DEF UnitsThen
<1>11. q \in Seq(Actions)
  <2>1. HostActions \subseteq Actions
    BY DEF Actions
  <2> QED
    BY <1>8, <2>1, SeqMonotonic
<1> QED
  BY <1>1, <1>3, <1>10, <1>11, ThenJoin DEF q

LEMMA FreshUnitsThen ==
    ASSUME NEW d \in OwnSpecs \cup {None}, NEW obs \in Observed \cup {None}
    PROVE  UnitsThen(Plan(d, obs), d)
<1> SUFFICES ASSUME d # None PROVE UnitsThen(Plan(d, obs), d)
  BY DEF UnitsThen
<1> DEFINE nothing == NothingObserved(d.tenant)
<1>1. d \in OwnSpecs /\ nothing \in Observed
  BY NothingIs, OwnSpecFacts DEF Specs
<1>2. \A o \in Observed : PlanConverge(d, o) \in Seq(HostActions) /\ UnitsThen(PlanConverge(d, o), d)
  <2>1. Only(ConvergeOps, d.tenant) \subseteq HostActions
    BY DEF Only
  <2> QED
    BY <1>1, <2>1, ConvergeIs, ConvergeThen, SeqMonotonic
<1>3. UnitsThen(<<>>, d)
  BY DEF UnitsThen
<1>4. CASE obs = None
  BY <1>1, <1>2, <1>4, PlanCases, ThenAppend
<1>5. CASE obs # None /\ obs.tenant # d.tenant
  <2> DEFINE p == PlanTeardown(obs)
             q == PlanConverge(d, nothing)
  <2>1. p \in Seq(Only(TeardownOps, obs.tenant))
    BY <1>5, TeardownIs
  <2>2. Only(TeardownOps, obs.tenant) \subseteq HostActions /\ HostActions \subseteq Actions
    BY DEF Only, Actions
  <2>3. q \in Seq(HostActions) /\ UnitsThen(q, d)
    BY <1>1, <1>2
  <2>4. Plan(d, obs) = Append(p \o q, Sync)
    BY <1>1, <1>5, PlanCases
  <2> HIDE DEF p, q
  <2>5. \A i \in 1 .. Len(p) : p[i] \in Only(TeardownOps, obs.tenant)
    BY <2>1, ElementOfSeq
  <2>6. p \in Seq(HostActions) /\ p \in Seq(Actions) /\ q \in Seq(Actions)
    BY <2>1, <2>2, <2>3, SeqMonotonic
  <2>7. UnitsThen(p \o q, d)
    BY <2>3, <2>5, <2>6, ThenJoin DEF Only, TeardownOps
  <2>8. p \o q \in Seq(HostActions)
    BY <2>3, <2>6, ConcatProperties
  <2> QED
    BY <2>4, <2>7, <2>8, ThenAppend
<1>6. CASE obs # None /\ obs.tenant = d.tenant
  <2>1. Plan(d, obs) = <<>> \/ Plan(d, obs) = Append(PlanConverge(d, obs), Sync)
    BY <1>1, <1>6, PlanCases
  <2>2. PlanConverge(d, obs) \in Seq(HostActions) /\ UnitsThen(PlanConverge(d, obs), d)
    BY <1>2, <1>6
  <2> QED
    BY <1>3, <2>1, <2>2, ThenAppend
<1> QED
  BY <1>4, <1>5, <1>6

\* Edits.
LEMMA WriteRow ==
    ASSUME ConvTyped, ApiWrite
    PROVE  /\ row' # None /\ nextGen' = nextGen + 1 /\ nextGen' \in Nat
           /\ \/ row'.spec.gen = nextGen + 1
              \/ /\ row # None /\ row'.spec.gen = row.spec.gen
                 /\ row'.spec.zdt = row.spec.zdt /\ row'.status = row.status
           /\ UNCHANGED <<host, ingress, spec, plan, built, busy, faults>>
<1> DEFINE Row == [status : Statuses, observed : 0 .. MaxGen, spec : OwnSpecs]
<1>1. /\ nextGen < MaxGen /\ nextGen' = nextGen + 1
      /\ UNCHANGED <<host, ingress, spec, plan, built, busy, faults>>
  BY DEF ApiWrite, CreateStack, EditStack, DeleteStack, ToggleSuspension, Write, cycleVars
<1>2. nextGen' \in Nat
  BY <1>1, ConvergenceAssumption DEF ConvTyped
<1>3. row # None => row \in Row /\ row.spec \in Specs
  BY OwnSpecFacts DEF ConvTyped, RowTyped
<1>4. CASE \E shape \in Shapes : CreateStack(shape)
  <2>1. PICK shape \in Shapes : CreateStack(shape)
    BY <1>4
  <2>2. row' = [status |-> "converging", observed |-> 0,
                spec |-> SpecOf(Owner, shape, FALSE, nextGen + 1)]
    BY <2>1 DEF CreateStack, Write
  <2>3. row'.spec.gen = nextGen + 1
    BY <2>2 DEF SpecOf
  <2>4. row' \in Rows
    <3> DEFINE new == SpecOf(Owner, shape, FALSE, nextGen + 1)
    <3>1. new \in Specs
      BY <1>1, <1>2, ConvergenceAssumption DEF SpecOf, Specs, Contents
    <3>2. "converging" \in Statuses
      BY DEF Statuses, ActiveStatuses
    <3> HIDE DEF new
    <3>3. row' = [status |-> "converging", observed |-> 0, spec |-> new]
      BY <2>2 DEF new
    <3> QED
      BY <3>1, <3>2, <3>3 DEF Rows
  <2>5. row' # None
    BY <2>4, RowAssumption
  <2> QED
    BY <1>1, <1>2, <2>3, <2>5
<1>5. CASE \E shape \in Shapes : EditStack(shape)
  <2>1. PICK shape \in Shapes : EditStack(shape)
    BY <1>5
  <2>2. row # None /\ row' = [row EXCEPT !.spec = SpecOf(Owner, shape, row.spec.suspended, nextGen + 1)]
    BY <2>1 DEF EditStack, Write
  <2>3. row'.spec.gen = nextGen + 1
    BY <1>3, <2>2 DEF SpecOf
  <2>4. row' \in Rows
    <3>1. SpecOf(Owner, shape, row.spec.suspended, nextGen + 1) \in Specs
      BY <1>1, <1>2, <1>3, <2>2, ConvergenceAssumption DEF SpecOf, Specs, Contents
    <3> QED
      BY <1>3, <2>2, <3>1 DEF Rows
  <2>5. row' # None
    BY <2>4, RowAssumption
  <2> QED
    BY <1>1, <1>2, <2>3, <2>5
<1>6. CASE DeleteStack
  <2>1. row # None /\ row' = [row EXCEPT !.status = "deleting", !.spec.gen = nextGen + 1]
    BY <1>6 DEF DeleteStack, Write
  <2>2. row' = [row EXCEPT !.status = "deleting", !.spec = [row.spec EXCEPT !.gen = nextGen + 1]]
    BY <1>3, <2>1
  <2>3. row'.spec.gen = nextGen + 1
    BY <1>3, <2>1, <2>2 DEF Specs
  <2>4. row' \in Rows
    <3> DEFINE new == [row.spec EXCEPT !.gen = nextGen + 1]
    <3>1. new \in Specs
      BY <1>1, <1>2, <1>3, <2>1 DEF Specs
    <3>2. "deleting" \in Statuses
      BY DEF Statuses
    <3> HIDE DEF new
    <3>3. row' = [row EXCEPT !.status = "deleting", !.spec = new]
      BY <2>2 DEF new
    <3>4. row \in [status : Statuses, observed : Nat, spec : Specs]
      BY <1>3, <2>1
    <3> QED
      BY <3>1, <3>2, <3>3, <3>4 DEF Rows
  <2>5. row' # None
    BY <2>4, RowAssumption
  <2> QED
    BY <1>1, <1>2, <2>3, <2>5
<1>7. CASE ToggleSuspension
  <2>1. row # None /\ row' = [row EXCEPT !.spec.suspended = ~@]
    BY <1>7 DEF ToggleSuspension
  <2>2. PICK nb \in BOOLEAN : nb = ~row.spec.suspended
    OBVIOUS
  <2>3. row' = [row EXCEPT !.spec = [row.spec EXCEPT !.suspended = nb]]
    BY <1>3, <2>1, <2>2
  <2>4. /\ row'.status = row.status /\ row'.spec = [row.spec EXCEPT !.suspended = nb]
    BY <1>3, <2>1, <2>3
  <2>5. row'.spec.gen = row.spec.gen /\ row'.spec.zdt = row.spec.zdt
    BY <1>3, <2>1, <2>4 DEF Specs
  <2>6. row' \in Rows
    <3>1. [row.spec EXCEPT !.suspended = nb] \in Specs
      BY <1>3, <2>1 DEF Specs
    <3> QED
      BY <1>3, <2>1, <2>3, <3>1 DEF Rows
  <2>7. row' # None
    BY <2>6, RowAssumption
  <2> QED
    BY <1>1, <1>2, <2>1, <2>4, <2>5, <2>7
<1> QED
  BY <1>4, <1>5, <1>6, <1>7 DEF ApiWrite

LEMMA WriteRouting ==
    ASSUME ConvTyped, Routing, faults = 0, ApiWrite
    PROVE  Routing'
<1>1. /\ row' # None /\ nextGen' = nextGen + 1
      /\ \/ row'.spec.gen = nextGen + 1
         \/ /\ row # None /\ row'.spec.gen = row.spec.gen
            /\ row'.spec.zdt = row.spec.zdt /\ row'.status = row.status
      /\ UNCHANGED <<host, ingress, spec, plan, built, busy, faults>>
  BY WriteRow
<1>2. /\ nextGen \in Nat /\ (spec # None => spec.gen \in Nat)
      /\ (row # None => row.spec.gen \in Nat)
  BY OwnSpecFacts, ConvergenceAssumption DEF ConvTyped, CycleTyped, RowTyped
<1>3. NoneNewer /\ SameSpec /\ PlanRoutes /\ Routed
  BY DEF Routing
<1>4. NoneNewer'
  BY <1>1, <1>2, <1>3 DEF NoneNewer
<1>5. PlanRoutes'
  BY <1>1, <1>3 DEF PlanRoutes
<1>6. CASE row'.spec.gen = nextGen + 1
  <2>1. ~Holds(host[Owner], nextGen + 1)
    BY <1>2, <1>3 DEF NoneNewer, Holds
  <2>2. spec # None => spec.gen # nextGen + 1
    BY <1>2, <1>3 DEF NoneNewer
  <2> QED
    BY <1>1, <1>4, <1>5, <1>6, <2>1, <2>2 DEF Routing, SameSpec, Routed
<1>7. CASE /\ row # None /\ row'.spec.gen = row.spec.gen
           /\ row'.spec.zdt = row.spec.zdt /\ row'.status = row.status
  BY <1>1, <1>3, <1>4, <1>5, <1>7 DEF Routing, SameSpec, Routed, Underway
<1> QED
  BY <1>1, <1>6, <1>7

\* The outcome of a cycle leaves the spec of the row.
LEMMA StatusHookKeeps ==
    ASSUME RowTyped, NEW status, StatusHook(status)
    PROVE  \/ row' = None
           \/ row # None /\ status # "absent" /\ row'.status = status /\ row'.spec = row.spec
<1>1. CASE row = None \/ status = "absent"
  BY <1>1 DEF StatusHook
<1>2. CASE row # None /\ status # "absent"
  <2>1. row \in [status : Statuses, observed : 0 .. MaxGen, spec : OwnSpecs]
    BY <1>2 DEF RowTyped
  <2> QED
    BY <1>2, <2>1 DEF StatusHook
<1> QED
  BY <1>1, <1>2

\* Ends of cycles: nothing is underway any more.
LEMMA EndRouting ==
    ASSUME ConvTyped, Routing, faults = 0, EndCycle, UNCHANGED <<nextGen, host, ingress, faults>>,
           \/ UNCHANGED row
           \/ StatusHook(Outcome(spec))
           \/ StatusHook(FailedOutcome(spec)),
           busy, ~Underway \/ row = None \/ ~Holds(host[Owner], row.spec.gen) \/ row.spec.zdt # {}
    PROVE  Routing'
<1>1. /\ busy' = FALSE /\ plan' = <<>> /\ spec' = None /\ built' = <<>>
  BY DEF EndCycle
<1>2. NoneNewer /\ SameSpec /\ PlanRoutes /\ Routed
  BY DEF Routing
<1>3. \/ row' = None
      \/ /\ row # None /\ row'.spec = row.spec
         /\ row'.status # "deleting" \/ row'.status = row.status \/ spec = None
  <2>1. CASE UNCHANGED row
    BY <2>1
  <2>2. CASE StatusHook(Outcome(spec))
    <3>1. Outcome(spec) # "deleting"
      BY DEF Outcome
    <3> QED
      BY <2>2, <3>1, StatusHookKeeps DEF ConvTyped
  <2>3. CASE StatusHook(FailedOutcome(spec))
    <3>1. spec # None => FailedOutcome(spec) # "deleting"
      BY DEF FailedOutcome
    <3> QED
      BY <2>3, <3>1, StatusHookKeeps DEF ConvTyped
  <2> QED
    BY <2>1, <2>2, <2>3
<1>4. NoneNewer' /\ SameSpec'
  BY <1>1, <1>2, <1>3 DEF NoneNewer, SameSpec
<1>5. PlanRoutes'
  BY <1>1 DEF PlanRoutes, SyncLast, UnitsThen
<1>6. Routed'
  BY <1>1, <1>2, <1>3 DEF Routed
<1> QED
  BY <1>4, <1>5, <1>6 DEF Routing

LEMMA TailRoutes ==
    ASSUME CycleTyped, plan # <<>>, SyncLast(plan), NEW d, UnitsThen(plan, d)
    PROVE  SyncLast(Tail(plan)) /\ UnitsThen(Tail(plan), d) /\ (Len(plan) = 1 => Tail(plan) = <<>>)
<1> DEFINE p == Tail(plan)
           n == Len(plan)
<1>1. n \in Nat /\ n >= 1 /\ p \in Seq(Actions) /\ Len(p) = n - 1
      /\ \A i \in 1 .. Len(p) : p[i] = plan[i + 1] /\ i + 1 \in 1 .. n
  <2>1. plan \in Seq(Actions)
    BY DEF CycleTyped
  <2>2. n \in Nat
    BY <2>1, LenProperties
  <2> QED
    BY <2>2, PlanTail
<1>2. plan[n] = Sync /\ \A i \in 1 .. n - 1 : plan[i] \in HostActions
  BY DEF SyncLast
<1>3. Len(p) = 0 => p = <<>>
  <2> HIDE DEF p
  <2> QED
    BY <1>1, EmptySeq
<1> HIDE DEF p, n
<1>4. SyncLast(p)
  <2> SUFFICES ASSUME p # <<>>
               PROVE  p[Len(p)] = Sync /\ \A i \in 1 .. Len(p) - 1 : p[i] \in HostActions
    BY DEF SyncLast
  <2>1. Len(p) \in 1 .. Len(p) /\ Len(p) + 1 = n
    BY <1>1, <1>3
  <2>2. p[Len(p)] = Sync
    BY <1>1, <1>2, <2>1
  <2>3. \A i \in 1 .. Len(p) - 1 : p[i] = plan[i + 1] /\ i + 1 \in 1 .. n - 1
    BY <1>1
  <2> QED
    BY <1>2, <2>2, <2>3
<1>5. ASSUME NEW j \in 1 .. Len(p), NEW i \in 1 .. j - 1, p[i].op = "WriteUnits", d # None, d.zdt = {}
      PROVE  Follows(p[j], d.services)
  <2>1. /\ j + 1 \in 1 .. Len(plan) /\ i + 1 \in 1 .. (j + 1) - 1
        /\ p[j] = plan[j + 1] /\ p[i] = plan[i + 1]
    BY <1>1 DEF n
  <2> QED
    BY <1>5, <2>1 DEF UnitsThen
<1> QED
  BY <1>1, <1>3, <1>4, <1>5 DEF UnitsThen, p, n

\* What an action does to the unit files.
LEMMA EffectFiles ==
    ASSUME NEW h \in HostType, NEW a \in HostActions, NEW d, Executable(h, a)
    PROVE  LET k == Effect(h, a, d) IN
           /\ a.op = "WriteUnits" => k.user = h.user /\ h.user /\ k.files = [x \in d.services |-> d.gen]
           /\ a.op # "WriteUnits" => k.files = h.files \/ DOMAIN k.files = {}
           /\ a.op \in Followers => k.user = h.user /\ k.files = h.files
<1> DEFINE k == Effect(h, a, d)
<1>1. h \in [user : BOOLEAN, dirs : SUBSET Volumes, files : PartialMap, builds : PartialMap,
             loaded : PartialMap, run : PartialMap]
  BY DEF HostType
<1>2. CASE a.op \in ServiceOps
  BY <1>1, <1>2 DEF Effect, Control, ServiceOps
<1>3. CASE a.op \in VolumeOps
  BY <1>1, <1>3 DEF Effect, VolumeOps, Followers
<1>4. CASE a.op = "EnsureTenant"
  BY <1>1, <1>4 DEF Effect, Followers
<1>5. CASE a.op = "WriteUnits"
  BY <1>1, <1>5 DEF Effect, Executable, Written, Followers
<1>6. CASE a.op = "DaemonReload"
  BY <1>1, <1>6 DEF Effect
<1>7. CASE a.op = "RemoveUnits"
  <2>1. k = [h EXCEPT !.files = NoMap, !.builds = NoMap, !.run = NoMap]
    BY <1>7 DEF Effect
  <2>2. k.files = NoMap
    BY <1>1, <2>1
  <2> QED
    BY <1>7, <2>2, NoMapTyped DEF Followers
<1>8. CASE a.op = "RemoveTenantIfEmpty"
  <2>1. k = h \/ k = EmptyHost
    BY <1>8 DEF Effect, Collected
  <2>2. DOMAIN EmptyHost.files = {}
    BY NoMapTyped DEF EmptyHost
  <2> QED
    BY <1>8, <2>1, <2>2 DEF Followers
<1> QED
  BY <1>2, <1>3, <1>4, <1>5, <1>6, <1>7, <1>8
     DEF HostActions, ServiceActions, VolumeActions, TenantActions, TenantOps

LEMMA FollowerExecutable ==
    ASSUME NEW h \in HostType, h.user, NEW a \in HostActions, Follows(a, DOMAIN h.files)
    PROVE  Executable(h, a) /\ a.op \notin {"SyncCaddy", "ZeroDowntimeDeploy"}
<1>1. a # Sync
  BY DEF Sync, Action, HostActions, ServiceActions, VolumeActions, TenantActions, ServiceOps, VolumeOps, TenantOps
<1>2. a.op \in Followers /\ (a.op \in {"StartService", "RestartService"} => a.arg \in DOMAIN h.files)
  BY <1>1 DEF Follows
<1>3. \A s \in DOMAIN h.files : s \in DOMAIN Generated(h, s)
  BY DEF Generated
<1> QED
  BY <1>2, <1>3 DEF Executable, Followers

\* The action that is executed.
LEMMA SyncRouting ==
    ASSUME ConvTyped, Routing, faults = 0, ExecuteAction, Head(plan).op = "SyncCaddy"
    PROVE  Routing'
<1>1. /\ built # <<>> /\ ingress' = Head(built) /\ built' = <<>> /\ plan' = Tail(plan) /\ plan # <<>>
      /\ UNCHANGED <<row, nextGen, host, spec, busy, faults>>
  BY DEF ExecuteAction, rowVars
<1>2. NoneNewer /\ SameSpec /\ PlanRoutes /\ Routed
  BY DEF Routing
<1>3. NoneNewer' /\ SameSpec'
  BY <1>1, <1>2 DEF NoneNewer, SameSpec
<1>4. plan' = <<>> /\ PlanRoutes'
  <2>1. SyncLast(Tail(plan)) /\ UnitsThen(Tail(plan), spec) /\ (Len(plan) = 1 => Tail(plan) = <<>>)
    BY <1>1, <1>2, TailRoutes DEF PlanRoutes, ConvTyped
  <2> QED
    BY <1>1, <1>2, <2>1 DEF PlanRoutes
<1>5. Routed'
  <2> SUFFICES ASSUME row # None, Holds(host[Owner], row.spec.gen)
               PROVE  /\ row.status # "deleting" /\ (busy => spec # None)
                      /\ ingress' = row.spec.gen
    BY <1>1 DEF Routed
  <2>1. built = << row.spec.gen >>
    BY <1>1, <1>2 DEF Routed
  <2>2. Head(built) = row.spec.gen
    BY <2>1
  <2> QED
    BY <1>1, <1>2, <2>2 DEF Routed
<1> QED
  BY <1>1, <1>3, <1>4, <1>5 DEF Routing

LEMMA ActionRouting ==
    ASSUME ConvTyped, Orderly, Routing, faults = 0, ExecuteAction, Head(plan).op # "SyncCaddy"
    PROVE  Routing'
<1> DEFINE a == Head(plan)
           t == a.tenant
           h == host[Owner]
           k == Effect(host[t], a, spec)
           h2 == host'[Owner]
<1>1. /\ plan' = Tail(plan) /\ plan # <<>> /\ Executable(host[t], a)
      /\ host' = [host EXCEPT ![t] = k]
      /\ UNCHANGED <<row, nextGen, ingress, built, spec, busy, faults>>
  BY DEF ExecuteAction, rowVars
<1>2. NoneNewer /\ SameSpec /\ PlanRoutes /\ Routed /\ OwnerAdds(plan)
  BY DEF Routing, Orderly
<1>3. /\ a \in Actions /\ a = plan[1] /\ 1 \in 1 .. Len(plan) /\ Len(plan') = Len(plan) - 1
      /\ \A i \in 1 .. Len(plan') : plan'[i] = plan[i + 1] /\ i + 1 \in 1 .. Len(plan)
      /\ Len(plan) \in Nat
  <2>1. plan \in Seq(Actions)
    BY DEF ConvTyped, CycleTyped
  <2>2. Len(plan) \in Nat
    BY <2>1, LenProperties
  <2> QED
    BY <1>1, <2>2, PlanTail DEF ConvTyped
<1>4. /\ a \in HostActions /\ t \in Tenants /\ Owner \in Tenants /\ host[t] \in HostType /\ h \in HostType
      /\ a.op = "WriteUnits" => t = Owner /\ spec # None
      /\ a # Sync
  <2>1. a \in HostActions /\ t \in Tenants /\ a # Sync
    BY <1>3 DEF Actions, Action, HostActions, ServiceActions, VolumeActions, TenantActions, Sync
  <2> QED
    BY <1>2, <1>3, <2>1, ConvergenceAssumption DEF ConvTyped, CycleTyped, OwnerAdds, Adding
<1>5. /\ t # Owner => h2 = h
      /\ t = Owner => h2 = k
  BY <1>1, <1>4 DEF ConvTyped
<1>6. /\ a.op = "WriteUnits" => k.user = host[t].user /\ host[t].user /\ k.files = [x \in spec.services |-> spec.gen]
      /\ a.op # "WriteUnits" => k.files = host[t].files \/ DOMAIN k.files = {}
      /\ a.op \in Followers => k.user = host[t].user /\ k.files = host[t].files
  BY <1>1, <1>4, EffectFiles
<1>7. Len(plan) >= 2 /\ built = <<>>
  <2>1. plan[Len(plan)] = Sync
    BY <1>1, <1>2 DEF PlanRoutes, SyncLast
  <2>2. Len(plan) # 1
    BY <1>3, <1>4, <2>1
  <2> QED
    BY <1>2, <1>3, <2>2 DEF PlanRoutes
<1>8. SyncLast(plan') /\ UnitsThen(plan', spec)
  BY <1>1, <1>2, TailRoutes DEF PlanRoutes, ConvTyped
<1>9. PlanRoutes' /\ plan' # <<>> /\ SameSpec'
  <2>1. plan' # <<>>
    BY <1>3, <1>7
  <2> QED
    BY <1>1, <1>2, <1>7, <1>8, <2>1 DEF PlanRoutes, SameSpec
<1> HIDE DEF a, t, h, k, h2
<1>10. NoneNewer' /\ Routed'
  <2> DEFINE files == \A s \in DOMAIN h2.files : h2.files[s] \in 0 .. nextGen
             routed == row # None /\ Holds(h2, row.spec.gen) =>
                /\ row.status # "deleting" /\ (busy => spec # None)
                /\ row.spec.zdt = {} =>
                     \/ ingress = row.spec.gen
                     \/ h2.user /\ \A i \in 1 .. Len(plan') : Follows(plan'[i], DOMAIN h2.files)
  <2>0. row # None /\ Holds(h, row.spec.gen) =>
          /\ row.status # "deleting" /\ (busy => spec # None)
          /\ row.spec.zdt = {} =>
               \/ ingress = row.spec.gen
               \/ h.user /\ \A i \in 1 .. Len(plan) : Follows(plan[i], DOMAIN h.files)
    BY <1>2 DEF Routed, Underway, h
  <2>1. ASSUME h2.files = h.files /\ (a.op \in Followers /\ t = Owner => h2.user = h.user)
        PROVE  files /\ routed
    <3>1. files
      BY <1>2, <2>1 DEF NoneNewer, h
    <3>2. ASSUME h.user, \A i \in 1 .. Len(plan) : Follows(plan[i], DOMAIN h.files)
          PROVE  h2.user /\ \A i \in 1 .. Len(plan') : Follows(plan'[i], DOMAIN h2.files)
      <4>1. Follows(a, DOMAIN h.files)
        BY <1>3, <3>2
      <4>2. a.op \in Followers /\ t = Owner
        BY <1>4, <4>1 DEF Follows, t
      <4> QED
        BY <1>3, <2>1, <3>2, <4>2
    <3>3. Holds(h2, row.spec.gen) => Holds(h, row.spec.gen)
      BY <2>1 DEF Holds
    <3> QED
      BY <2>0, <3>1, <3>2, <3>3
  <2>2. ASSUME DOMAIN h2.files = {} PROVE files /\ routed
    BY <2>2 DEF Holds
  <2>3. ASSUME a.op = "WriteUnits" PROVE files /\ routed
    <3>1. /\ t = Owner /\ spec # None /\ h2.files = [x \in spec.services |-> spec.gen] /\ h2.user
          /\ DOMAIN h2.files = spec.services
      BY <1>4, <1>5, <1>6, <2>3
    <3>2. spec.gen \in 0 .. nextGen
      BY <1>2, <3>1, OwnSpecFacts, ConvergenceAssumption DEF NoneNewer, ConvTyped, CycleTyped
    <3>3. files
      BY <3>1, <3>2
    <3>4. ASSUME row # None, Holds(h2, row.spec.gen) PROVE spec.gen = row.spec.gen
      BY <3>1, <3>4 DEF Holds
    <3>5. spec.zdt = {} => \A i \in 1 .. Len(plan') : Follows(plan'[i], spec.services)
      <4> SUFFICES ASSUME spec.zdt = {}, NEW i \in 1 .. Len(plan') PROVE Follows(plan'[i], spec.services)
        OBVIOUS
      <4>1. i + 1 \in 1 .. Len(plan) /\ 1 \in 1 .. (i + 1) - 1 /\ plan'[i] = plan[i + 1]
        BY <1>3
      <4>2. plan[1].op = "WriteUnits"
        BY <1>3, <2>3
      <4> QED
        BY <1>2, <3>1, <4>1, <4>2 DEF PlanRoutes, UnitsThen
    <3>6. routed
      BY <1>2, <3>1, <3>4, <3>5 DEF SameSpec
    <3> QED
      BY <3>3, <3>6
  <2>4. files /\ routed
    <3>1. CASE t # Owner
      BY <1>5, <2>1, <3>1
    <3>2. CASE t = Owner /\ a.op # "WriteUnits"
      <4>1. host[t] = h
        BY <3>2 DEF h
      <4> QED
        BY <1>5, <1>6, <2>1, <2>2, <3>2, <4>1
    <3> QED
      BY <2>3, <3>1, <3>2
  <2>5. NoneNewer'
    BY <1>1, <1>2, <2>4 DEF NoneNewer, h2
  <2>6. Routed'
    BY <1>1, <1>7, <1>9, <2>4 DEF Routed, Underway, h2
  <2> QED
    BY <2>5, <2>6
<1> QED
  BY <1>1, <1>9, <1>10 DEF Routing

LEMMA BeginRouting ==
    ASSUME ConvTyped, Routing, faults = 0, BeginCycle
    PROVE  Routing'
<1>1. PICK obs \in Observations(host) : Cycle(obs)
  BY DEF BeginCycle
<1> DEFINE p == Plan(Desired, obs)
<1>2. /\ Desired \in OwnSpecs \cup {None} /\ obs \in Observed \cup {None}
      /\ Desired # None => row # None /\ Desired = row.spec /\ row.status # "deleting"
      /\ row # None /\ Desired = None => row.status = "deleting"
  <2>1. row # None => row.status \in Statuses /\ row.spec # None
    BY OwnSpecFacts DEF ConvTyped, RowTyped
  <2>2. Desired \in OwnSpecs \cup {None} /\ obs \in Observed \cup {None}
    BY <1>1, DesiredTyped, ObservationsTyped DEF ConvTyped
  <2>3. Desired = IF row # None /\ row.status \in ActiveStatuses THEN row.spec ELSE None
    BY DEF Desired
  <2>4. "deleting" \notin ActiveStatuses
    BY DEF ActiveStatuses
  <2> QED
    BY <2>1, <2>2, <2>3, <2>4 DEF Statuses
<1>3. SyncLast(p) /\ UnitsThen(p, Desired)
  BY <1>2, FreshSyncLast, FreshUnitsThen
<1>4. NoneNewer /\ SameSpec /\ PlanRoutes /\ Routed
  BY DEF Routing
<1>5. /\ ~busy /\ UNCHANGED <<nextGen, host, ingress, faults>>
      /\ spec = None /\ plan = <<>> /\ built = <<>>
      /\ \/ StatusHook(Outcome(Desired)) /\ UNCHANGED cycleVars
         \/ UNCHANGED <<row, cycleVars>>
         \/ busy' = TRUE /\ plan' = p /\ spec' = Desired /\ UNCHANGED <<row, built>>
  BY <1>1 DEF BeginCycle, Cycle, ConvTyped, CycleTyped
<1>6. ~Underway
  BY <1>5 DEF Underway
<1> HIDE DEF p
<1>7. CASE StatusHook(Outcome(Desired)) /\ UNCHANGED cycleVars
  <2>1. Outcome(Desired) # "deleting"
    BY DEF Outcome
  <2>2. row' = None \/ (row # None /\ row'.status # "deleting" /\ row'.spec = row.spec)
    BY <1>7, <2>1, StatusHookKeeps DEF ConvTyped
  <2>3. NoneNewer' /\ SameSpec' /\ PlanRoutes'
    BY <1>4, <1>5, <1>7, <2>2 DEF NoneNewer, SameSpec, PlanRoutes, cycleVars
  <2>4. Routed'
    BY <1>4, <1>5, <1>6, <1>7, <2>2 DEF Routed, cycleVars
  <2> QED
    BY <2>3, <2>4 DEF Routing
<1>8. CASE UNCHANGED <<row, cycleVars>>
  BY <1>4, <1>5, <1>8 DEF Routing, NoneNewer, SameSpec, PlanRoutes, Routed, Underway, cycleVars
<1>9. CASE busy' = TRUE /\ plan' = p /\ spec' = Desired /\ UNCHANGED <<row, built>>
  <2>1. NoneNewer' /\ SameSpec'
    BY <1>2, <1>4, <1>5, <1>9 DEF NoneNewer, SameSpec
  <2>2. PlanRoutes'
    BY <1>3, <1>5, <1>9 DEF PlanRoutes
  <2>3. Routed'
    BY <1>2, <1>4, <1>5, <1>6, <1>9 DEF Routed
  <2> QED
    BY <2>1, <2>2, <2>3 DEF Routing
<1> QED
  BY <1>5, <1>7, <1>8, <1>9

LEMMA BuildRouting ==
    ASSUME ConvTyped, Routing, faults = 0, BuildRoutes
    PROVE  Routing'
<1>1. /\ busy /\ plan # <<>> /\ built = <<>> /\ Head(plan).op = "SyncCaddy" /\ built' = << Routes >>
      /\ UNCHANGED <<row, nextGen, host, ingress, spec, plan, busy, faults>>
  BY DEF BuildRoutes, rowVars
<1>2. NoneNewer /\ SameSpec /\ PlanRoutes /\ Routed
  BY DEF Routing
<1>3. Len(plan) = 1
  <2>1. Head(plan) = plan[1] /\ 1 \in 1 .. Len(plan)
    BY <1>1, PlanTail DEF ConvTyped
  <2>2. plan[1] \notin HostActions
    BY <1>1, <2>1 DEF HostActions, ServiceActions, VolumeActions, TenantActions, ServiceOps, VolumeOps, TenantOps
  <2>3. \A i \in 1 .. Len(plan) - 1 : plan[i] \in HostActions
    BY <1>1, <1>2 DEF PlanRoutes, SyncLast
  <2>4. Len(plan) \in Nat
    <3>1. plan \in Seq(Actions)
      BY DEF ConvTyped, CycleTyped
    <3> QED
      BY <3>1, LenProperties
  <2> QED
    BY <2>1, <2>2, <2>3, <2>4
<1>4. row # None /\ row.status # "deleting" => Routes = row.spec.gen
  <2>1. row # None => row.status \in Statuses /\ row.spec # None
    BY OwnSpecFacts DEF ConvTyped, RowTyped
  <2> QED
    BY <2>1 DEF Routes, Desired, Statuses
<1> QED
  BY <1>1, <1>2, <1>3, <1>4 DEF Routing, NoneNewer, SameSpec, PlanRoutes, Routed, Underway

LEMMA EndsRouting ==
    ASSUME ConvTyped, Routing, faults = 0, FinishCycle \/ ActionImpossible \/ StepNameRaises
    PROVE  Routing'
<1>1. CASE FinishCycle
  <2>1. ~Underway
    BY <1>1 DEF FinishCycle, Underway
  <2> QED
    BY <1>1, <2>1, EndRouting DEF FinishCycle
<1> DEFINE a == Head(plan)
<1>2. ASSUME Underway, plan # <<>>, a.op # "SyncCaddy"
      PROVE  a.tenant = Owner /\ Executable(host[a.tenant], a) /\ a.op # "ZeroDowntimeDeploy"
  <2>1. a \in Actions /\ a = plan[1] /\ 1 \in 1 .. Len(plan)
    BY <1>2, PlanTail DEF ConvTyped
  <2>2. Follows(a, DOMAIN host[Owner].files) /\ host[Owner].user
    BY <1>2, <2>1 DEF Underway
  <2>3. a.tenant = Owner /\ a \in HostActions /\ host[Owner] \in HostType
    BY <1>2, <2>2, ConvergenceAssumption DEF Follows, Sync, Action, ConvTyped
  <2> HIDE DEF a
  <2> QED
    BY <2>2, <2>3, FollowerExecutable
<1>3. CASE ActionImpossible
  <2>1. ~Underway
    BY <1>2, <1>3 DEF ActionImpossible
  <2> QED
    BY <1>3, <2>1, EndRouting DEF ActionImpossible, AbandonPlan
<1>4. CASE StepNameRaises
  <2>1. ~Underway
    BY <1>2, <1>4 DEF StepNameRaises
  <2> QED
    BY <1>4, <2>1, EndRouting DEF StepNameRaises, rowVars
<1> QED
  BY <1>1, <1>3, <1>4

LEMMA InitRouting == Init => Routing
<1> SUFFICES ASSUME Init PROVE NoneNewer /\ SameSpec /\ PlanRoutes /\ Routed
  BY DEF Routing
<1>1. row = None /\ spec = None /\ plan = <<>> /\ built = <<>>
  BY DEF Init
<1>2. DOMAIN host[Owner].files = {}
  <2>1. PICK left \in {EmptyHost} \cup {[EmptyHost EXCEPT !.user = TRUE, !.dirs = {v}] : v \in Volumes},
             t \in Tenants : host = [u \in Tenants |-> IF u = t THEN left ELSE EmptyHost]
    BY DEF Init
  <2>2. DOMAIN EmptyHost.files = {}
    BY NoMapTyped DEF EmptyHost
  <2>3. left.files = EmptyHost.files
    BY <2>1 DEF EmptyHost
  <2> QED
    BY <2>1, <2>2, <2>3, ConvergenceAssumption
<1> QED
  BY <1>1, <1>2 DEF NoneNewer, SameSpec, PlanRoutes, Routed, SyncLast, UnitsThen

LEMMA NextRouting == ConvTyped /\ Orderly /\ Routing /\ [Next]_vars => Routing'
<1> SUFFICES ASSUME ConvTyped, Orderly, Routing, [Next]_vars, faults' = 0 PROVE Routing'
  BY DEF Routing
<1>1. faults = 0 /\ ~Disturbance
  BY NextOrderly
<1>2. CASE UNCHANGED vars
  BY <1>2 DEF vars, Routing, NoneNewer, SameSpec, PlanRoutes, Routed, Underway
<1>3. CASE ApiWrite \/ Reconcile
  BY <1>1, <1>3, WriteRouting, BeginRouting, BuildRouting, SyncRouting, ActionRouting, EndsRouting DEF Reconcile
<1> QED
  BY <1>1, <1>2, <1>3 DEF Next

LEMMA AlwaysRouting == Spec => []Routing
  BY AlwaysTyped, AlwaysOrderly, InitRouting, NextRouting, PTL DEF Spec

\* A host observed as desired carries the generation of the spec.
LEMMA DesiredHolds ==
    ASSUME NEW hs \in [Tenants -> HostType], NEW d \in OwnSpecs,
           \A t \in Tenants : hs[t].user \/ hs[t] = EmptyHost,
           \A obs \in Observations(hs) : obs = Project(d)
    PROVE  Holds(hs[Owner], d.gen)
<1>1. PICK obs \in Observations(hs) : obs = Project(d)
  <2>1. Observations(hs) # {}
    BY DEF Observations
  <2> QED
    BY <2>1
<1>2. /\ d # None /\ d.tenant = Owner /\ d.services # {} /\ d.gen \in Nat
  BY OwnSpecFacts, ConvergenceAssumption
<1>3. obs # None
  <2>1. PlanConverge(d, NothingObserved(Owner)) \in Seq(Actions) /\ Sync \in Actions
    BY ConvergePlan DEF Sync, Actions
  <2>2. Plan(d, None) = Append(PlanConverge(d, NothingObserved(Owner)), Sync)
    BY <1>2, PlanCases
  <2>3. Plan(d, None) # <<>>
    BY <2>1, <2>2, AppendProperties
  <2> QED
    BY <1>1, <2>3, PlanEmpty
<1>4. obs.tenant = Owner
  BY <1>1, <1>2 DEF Project
<1>5. obs \in Observed /\ obs = ObservedUnder(hs[Owner], Owner, DOMAIN hs[Owner].run)
  BY <1>1, <1>3, <1>4, ObservationIs
<1>6. ~Rewrites(d, obs)
  BY <1>1, <1>2, <1>4, <1>5, InPlaceIsProject DEF InPlace
<1>7. hs[Owner].files = Current(d)
  BY <1>5, <1>6, NotRewritten, ConvergenceAssumption
<1> QED
  BY <1>2, <1>7 DEF Holds, Current

\* Ingress is derived state: whichever edits and deletions land while routes
\* are rebuilt and applied, a stack the host of which is as desired is routed
\* by Caddy as of its current spec once its requests are handled, for as long
\* as nothing has failed.
THEOREM RoutesFollow == Spec => []IngressFollows
<1>1. ASSUME ConvTyped, UsersKnown, Routing PROVE IngressFollows
  <2> SUFFICES ASSUME faults = 0, ~busy, Desired # None, Desired.zdt = {},
                      \A obs \in Observations(host) : obs = Project(Desired)
               PROVE  ingress = Routes
    BY DEF IngressFollows
  <2>1. Desired \in OwnSpecs /\ row # None /\ Desired = row.spec
    BY <1>1, DesiredTyped DEF ConvTyped, Desired
  <2>2. Holds(host[Owner], row.spec.gen)
    BY <1>1, <2>1, DesiredHolds DEF ConvTyped, UsersKnown
  <2>3. ~Underway
    BY <1>1 DEF ConvTyped, CycleTyped, Underway
  <2>4. ingress = row.spec.gen
    BY <1>1, <2>1, <2>2, <2>3 DEF Routing, Routed
  <2> QED
    BY <2>1, <2>4 DEF Routes
<1> QED
  BY <1>1, AlwaysTyped, AlwaysKnown, AlwaysRouting, PTL
================================================================================
