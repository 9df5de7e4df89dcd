------------------------ MODULE StackReconcilerProofs ------------------------
(***************************************************************************)
(* What the reconciler promises, for every set of stacks, tenants and      *)
(* sweeps and every number of permits, writes and faults.  First its       *)
(* types: one lemma per operator that builds a value, one per actor, then  *)
(* the theorem.  Then its locking and its operations: at most one run      *)
(* applies a plan to a stack, no more plans are applied than there are     *)
(* permits, and an operation shown as running has a task that will end it. *)
(* Last, for the loop without sweeps beside it: units never go back, an    *)
(* operation that succeeds has been applied, and only deletions remove     *)
(* data.                                                                   *)
(***************************************************************************)
EXTENDS StackReconciler, FiniteSetTheorems, SequenceTheorems, TLAPS

\* A plan that is applied without a spec writes no units.
PlanFits ==
    \A r \in Runners, n \in Names :
        task[r][n].pc = "apply" /\ task[r][n].spec = None
            => task[r][n].plan \in Seq(Actions \ {"WriteUnits"})

TypeInv == TypeOK /\ PlanFits

-----------------------------------------------------------------------------
(* Plans.                                                                  *)

LEMMA OnlyType ==
    ASSUME NEW S, NEW a \in S, NEW c \in BOOLEAN
    PROVE  Only(c, a) \in Seq(S)
  BY DEF Only

LEMMA ConcatType ==
    ASSUME NEW S, NEW s \in Seq(S), NEW t \in Seq(S)
    PROVE  s \o t \in Seq(S)
  OBVIOUS

LEMMA TeardownType ==
    ASSUME NEW obs \in Observation
    PROVE  PlanTeardown(obs) \in Seq(Actions \ {"WriteUnits"})
<1> DEFINE A == Actions \ {"WriteUnits"}
<1>1. /\ "StopService" \in A /\ "RemoveUnits" \in A /\ "RemoveVolumeDir" \in A
      /\ "RemoveTenantIfEmpty" \in A /\ "SyncCaddy" \in A
  BY DEF Actions
<1>2. obs.active \in BOOLEAN /\ obs.vol \in BOOLEAN
  BY DEF Observation
<1>3. Only(obs.active, "StopService") \in Seq(A)
  BY <1>1, <1>2, OnlyType
<1>4. Only(obs.vol, "RemoveVolumeDir") \in Seq(A)
  BY <1>1, <1>2, OnlyType
<1>5. <<"RemoveUnits">> \in Seq(A) /\ <<"RemoveTenantIfEmpty", "SyncCaddy">> \in Seq(A)
  BY <1>1
<1> HIDE DEF A
<1>6. PlanTeardown(obs) \in Seq(A)
  BY <1>3, <1>4, <1>5, ConcatType DEF PlanTeardown
<1> QED
  BY <1>6 DEF A

LEMMA ConvergeType ==
    ASSUME NEW gen, NEW obs \in Observation \union {None}
    PROVE  PlanConverge(gen, obs) \in Seq(Actions)
<1> DEFINE seen == IF obs = None
                   THEN [unit |-> None, active |-> FALSE, vol |-> FALSE] ELSE obs
           stale == Stale(seen.unit, gen)
           actions == Only(obs = None, "EnsureTenant")
                      \o Only(~seen.vol, "EnsureVolumeDir")
                      \o Only(stale, "WriteUnits")
                      \o Only(seen.active /\ stale, "RestartService")
                      \o Only(~seen.active, "StartService")
<1>1. /\ "EnsureTenant" \in Actions /\ "EnsureVolumeDir" \in Actions
      /\ "WriteUnits" \in Actions /\ "RestartService" \in Actions
      /\ "StartService" \in Actions /\ "SyncCaddy" \in Actions
  BY DEF Actions
<1>2. /\ Only(obs = None, "EnsureTenant") \in Seq(Actions)
      /\ Only(~seen.vol, "EnsureVolumeDir") \in Seq(Actions)
      /\ Only(stale, "WriteUnits") \in Seq(Actions)
      /\ Only(seen.active /\ stale, "RestartService") \in Seq(Actions)
      /\ Only(~seen.active, "StartService") \in Seq(Actions)
  BY <1>1 DEF Only
<1>3. actions \in Seq(Actions)
  BY <1>2, ConcatType
<1>4. Only(actions # <<>>, "SyncCaddy") \in Seq(Actions)
  BY <1>1, OnlyType
<1>5. PlanConverge(gen, obs) = actions \o Only(actions # <<>>, "SyncCaddy")
  BY DEF PlanConverge
<1> QED
  BY <1>3, <1>4, <1>5, ConcatType

\* What plan() returns is made of actions, and writes units only for a spec.
LEMMA PlanType ==
    ASSUME NEW spec \in Row \union {None}, NEW obs \in Observation \union {None}
    PROVE  /\ Plan(spec, obs) \in Seq(Actions)
           /\ spec = None => Plan(spec, obs) \in Seq(Actions \ {"WriteUnits"})
<1>1. CASE spec # None
  BY <1>1, ConvergeType DEF Plan
<1>2. CASE spec = None /\ obs # None
  <2>1. Plan(spec, obs) = PlanTeardown(obs)
    BY <1>2 DEF Plan
  <2>2. PlanTeardown(obs) \in Seq(Actions \ {"WriteUnits"})
    BY <1>2, TeardownType
  <2> QED
    BY <2>1, <2>2
<1>3. CASE spec = None /\ obs = None
  <2>1. Plan(spec, obs) = <<>>
    BY <1>3 DEF Plan
  <2> QED
    BY <2>1
<1> QED
  BY <1>1, <1>2, <1>3

-----------------------------------------------------------------------------
(* Rows, operations, host.                                                 *)

LEMMA RowType ==
    ASSUME TypeOK, NEW n \in Names, NEW status \in Statuses \union {"absent"}
    PROVE  RowAfter(rows[n], status) \in Row \union {None}
<1>1. CASE rows[n] = None \/ status = "absent"
  BY <1>1 DEF RowAfter
<1>2. CASE rows[n] # None /\ status # "absent"
  <2>1. rows[n] \in Row /\ status \in Statuses
    BY <1>2 DEF TypeOK
  <2>2. rows[n].gen \in 0 .. MaxWrites
    BY <2>1, ReconcilerAssumption DEF Row, Writes
  <2> QED
    BY <1>2, <2>1, <2>2 DEF RowAfter, Row
<1> QED
  BY <1>1, <1>2

LEMMA OpsWithType ==
    ASSUME TypeOK, NEW i, NEW status \in OpStatuses
    PROVE  OpsWith(i, status) \in [Writes -> Operation \union {None}]
  BY DEF OpsWith, WithStatus, TypeOK, Operation

LEMMA UnlinkedType ==
    ASSUME NEW o \in Operation \union {None}, NEW n
    PROVE  Unlinked(o, n) \in Operation \union {None}
  BY DEF Unlinked, Operation

LEMMA ReapedType ==
    ASSUME TypeOK
    PROVE  [i \in Writes |-> Reaped(ops[i])] \in [Writes -> Operation \union {None}]
<1>1. ASSUME NEW o \in Operation \union {None}
      PROVE  Reaped(o) \in Operation \union {None}
  BY <1>1 DEF Reaped, Operation, OpStatuses
<1> QED
  BY <1>1 DEF TypeOK

LEMMA ConcludeType ==
    ASSUME TypeOK, NEW n \in Names, NEW i, NEW opStatus \in OpStatuses,
           NEW status \in Statuses \union {"absent"},
           Conclude(n, i, opStatus, status)
    PROVE  /\ rows' \in [Names -> Row \union {None}]
           /\ ops' \in [Writes -> Operation \union {None}]
<1>1. OpsWith(i, opStatus) \in [Writes -> Operation \union {None}]
  BY OpsWithType
<1>2. [j \in Writes |-> Unlinked(OpsWith(i, opStatus)[j], n)]
          \in [Writes -> Operation \union {None}]
  BY <1>1, UnlinkedType
<1>3. rows' \in [Names -> Row \union {None}]
  BY RowType DEF Conclude, TypeOK
<1> QED
  BY <1>1, <1>2, <1>3 DEF Conclude

LEMMA ObservedType ==
    ASSUME TypeOK, NEW n \in Names, NEW blind
    PROVE  Observed(n, blind) \in Observation \union {None}
  BY DEF Observed, Observation, TypeOK, HostStack

LEMMA DesiredType ==
    ASSUME TypeOK
    PROVE  /\ \A n \in Names : Desired(n) \in Row \union {None}
           /\ DesiredRows \in [Names -> Row \union {None}]
  BY DEF Desired, DesiredRows, TypeOK

LEMMA TenantsInType ==
    ASSUME NEW loaded
    PROVE  TenantsIn(loaded) \in SUBSET Tenants
  BY ReconcilerAssumption DEF TenantsIn

LEMMA AfterActionType ==
    ASSUME NEW h \in HostStack, NEW a \in Actions, NEW spec,
           a = "WriteUnits" => spec \in Row
    PROVE  AfterAction(h, a, spec) \in HostStack
<1>1. CASE a = "WriteUnits"
  BY <1>1 DEF AfterAction, HostStack, Row, Gen
<1>2. CASE a \in {"EnsureVolumeDir", "RemoveVolumeDir"}
  BY <1>2 DEF AfterAction, HostStack
<1>3. CASE a \in {"RemoveUnits", "StopService"}
  BY <1>3 DEF AfterAction, HostStack, Gen
<1>4. CASE a \in {"StartService", "RestartService"}
  BY <1>4 DEF AfterAction, HostStack
<1>5. CASE a \in {"EnsureTenant", "RemoveTenantIfEmpty", "RemoveTenant", "SyncCaddy"}
  BY <1>5 DEF AfterAction
<1> QED
  BY <1>1, <1>2, <1>3, <1>4, <1>5 DEF Actions

-----------------------------------------------------------------------------
(* Type correctness.                                                       *)

LEMMA NoTaskType == NoTask \in Task /\ NoTask.spec = None /\ NoTask.plan = <<>>
  BY DEF NoTask, Task, TaskPc, Gen

\* A task as StartDrain or Observe starts it.
LEMMA NewTaskType ==
    ASSUME NEW pc \in TaskPc, NEW spec \in Row \union {None},
           NEW obs \in Observation \union {None}, NEW used \in SUBSET Tenants,
           NEW op \in Gen
    PROVE  [pc |-> pc, spec |-> spec, obs |-> obs, used |-> used,
            plan |-> <<>>, op |-> op] \in Task
<1>1. <<>> \in Seq(Actions)
  OBVIOUS
<1> QED
  BY <1>1 DEF Task

LEMMA BlindedType ==
    ASSUME TypeOK, NEW blind, Blinded(blind)
    PROVE  faults' \in 0 .. MaxFaults
<1>1. faults \in 0 .. MaxFaults /\ MaxFaults \in Nat
  BY ReconcilerAssumption DEF TypeOK
<1>2. faults' = faults \/ (faults < MaxFaults /\ faults' = faults + 1)
  BY DEF Blinded
<1> QED
  BY <1>1, <1>2

\* Replacing one task by a well-typed one keeps all tasks well typed.
LEMMA SetTaskType ==
    ASSUME TypeInv, NEW r \in Runners, NEW n \in Names, NEW t \in Task,
           t.pc = "apply" /\ t.spec = None
              => t.plan \in Seq(Actions \ {"WriteUnits"}),
           SetTask(r, n, t)
    PROVE  task' \in [Runners -> [Names -> Task]] /\ PlanFits'
<1>1. /\ task \in [Runners -> [Names -> Task]]
      /\ task' = [task EXCEPT ![r] = [task[r] EXCEPT ![n] = t]]
  BY DEF TypeInv, TypeOK, SetTask
<1>2. task' \in [Runners -> [Names -> Task]]
  BY <1>1
<1>3. ASSUME NEW q \in Runners, NEW m \in Names
      PROVE  task'[q][m] = IF q = r /\ m = n THEN t ELSE task[q][m]
  BY <1>1
<1>4. PlanFits'
  BY <1>3 DEF PlanFits, TypeInv
<1> QED
  BY <1>2, <1>4

\* Starting the tasks of a run.
LEMMA StartTasksType ==
    ASSUME TypeInv, NEW r \in Runners, NEW f \in [Names -> Task],
           \A n \in Names : f[n].plan = <<>>,
           task' = [task EXCEPT ![r] = f]
    PROVE  task' \in [Runners -> [Names -> Task]] /\ PlanFits'
<1>1. task \in [Runners -> [Names -> Task]]
  BY DEF TypeInv, TypeOK
<1>2. task' \in [Runners -> [Names -> Task]]
  BY <1>1
<1>3. ASSUME NEW q \in Runners, NEW m \in Names
      PROVE  task'[q][m] = IF q = r THEN f[m] ELSE task[q][m]
  BY <1>1
<1>4. <<>> \in Seq(Actions \ {"WriteUnits"})
  OBVIOUS
<1>5. ASSUME NEW q \in Runners, NEW m \in Names,
             task'[q][m].pc = "apply", task'[q][m].spec = None
      PROVE  task'[q][m].plan \in Seq(Actions \ {"WriteUnits"})
  <2>1. CASE q = r
    BY <1>3, <1>4, <2>1
  <2>2. CASE q # r
    BY <1>3, <1>5, <2>2 DEF PlanFits, TypeInv
  <2> QED
    BY <2>1, <2>2
<1>6. PlanFits'
  BY <1>5 DEF PlanFits
<1> QED
  BY <1>2, <1>6

LEMMA InitType == Init => TypeInv
<1> SUFFICES ASSUME Init PROVE TypeInv
  OBVIOUS
<1> USE ReconcilerAssumption
<1>1. rows \in [Names -> Row \union {None}] /\ queue \in [Names -> Gen]
  BY DEF Init, NothingLoaded, Gen
<1>2. ops \in [Writes -> Operation \union {None}] /\ outbox \subseteq Names \X Writes
  BY DEF Init
<1>3. host \in [Names -> HostStack] /\ users \subseteq Tenants
  <2>1. Bare \in HostStack /\ [Bare EXCEPT !.vol = TRUE] \in HostStack
    BY DEF HostStack, Bare, Gen
  <2> QED
    BY <2>1 DEF Init
<1>4. runner \in [Runners -> RunnerPc]
  BY DEF Init, RunnerPc
<1>5. snap \in [Runners -> [Names -> Row \union {None}]]
  BY DEF Init, NothingLoaded
<1>6. task \in [Runners -> [Names -> Task]]
  BY NoTaskType DEF Init
<1>7. writes \in 0 .. MaxWrites /\ strays \subseteq Writes /\ faults \in 0 .. MaxFaults
  BY DEF Init
<1>8. TypeOK
  BY <1>1, <1>2, <1>3, <1>4, <1>5, <1>6, <1>7 DEF TypeOK
<1>9. PlanFits
  <2>1. <<>> \in Seq(Actions \ {"WriteUnits"})
    OBVIOUS
  <2> QED
    BY <2>1, NoTaskType DEF PlanFits, Init
<1> QED
  BY <1>8, <1>9 DEF TypeInv

\* The conjuncts of TypeInv a step leaves alone with its variables.
LEMMA CommitType ==
    ASSUME TypeInv, NEW n \in Names, NEW row \in Row, Commit(n, row),
           outbox' \in SUBSET (Names \X Writes), host' \in [Names -> HostStack]
    PROVE  TypeInv'
<1> USE ReconcilerAssumption
<1>1. writes + 1 \in Writes /\ writes' \in 0 .. MaxWrites
  BY DEF Commit, TypeInv, TypeOK, Writes
<1>2. rows' \in [Names -> Row \union {None}]
  BY DEF Commit, TypeInv, TypeOK
<1>3. [status |-> "pending", stack |-> n, old |-> FALSE] \in Operation
  BY DEF Operation, OpStatuses
<1>4. ops' \in [Writes -> Operation \union {None}]
  BY <1>1, <1>3 DEF Commit, TypeInv, TypeOK
<1>5. TypeOK'
  BY <1>1, <1>2, <1>4 DEF Commit, TypeInv, TypeOK
<1>6. PlanFits'
  BY DEF Commit, PlanFits, TypeInv
<1> QED
  BY <1>5, <1>6 DEF TypeInv

LEMMA ApiType ==
    ASSUME TypeInv, Api
    PROVE  TypeInv'
<1> USE ReconcilerAssumption
<1>1. ASSUME NEW n \in Names, CreateStack(n) PROVE TypeInv'
  <2>1. writes + 1 \in Writes
    BY <1>1 DEF CreateStack, Commit, TypeInv, TypeOK, Writes
  <2>2. [id |-> writes + 1, status |-> "converging",
         gen |-> writes + 1, observed |-> 0] \in Row
    BY <2>1 DEF Row, Statuses, ActiveStatuses
  <2>3. outbox' \in SUBSET (Names \X Writes) /\ host' \in [Names -> HostStack]
    BY <1>1, <2>1 DEF CreateStack, TypeInv, TypeOK
  <2> QED
    BY <1>1, <2>2, <2>3, CommitType DEF CreateStack
<1>2. ASSUME NEW n \in Names, UpdateStack(n) PROVE TypeInv'
  <2>1. writes + 1 \in Writes /\ rows[n] \in Row
    BY <1>2 DEF UpdateStack, Commit, TypeInv, TypeOK, Writes
  <2>2. [rows[n] EXCEPT !.gen = writes + 1] \in Row
    BY <2>1 DEF Row
  <2>3. outbox' \in SUBSET (Names \X Writes) /\ host' \in [Names -> HostStack]
    BY <1>2, <2>1 DEF UpdateStack, TypeInv, TypeOK
  <2> QED
    BY <1>2, <2>2, <2>3, CommitType DEF UpdateStack
<1>3. ASSUME NEW n \in Names, DeleteStack(n) PROVE TypeInv'
  <2>1. writes + 1 \in Writes /\ rows[n] \in Row
    BY <1>3 DEF DeleteStack, Commit, TypeInv, TypeOK, Writes
  <2>2. [rows[n] EXCEPT !.status = "deleting", !.gen = writes + 1] \in Row
    BY <2>1 DEF Row, Statuses
  <2>3. outbox' \in SUBSET (Names \X Writes) /\ host' \in [Names -> HostStack]
    BY <1>3, <2>1 DEF DeleteStack, TypeInv, TypeOK
  <2> QED
    BY <1>3, <2>2, <2>3, CommitType DEF DeleteStack
<1>4. ASSUME NEW n \in Names, RollbackToImage(n) PROVE TypeInv'
  <2>1. writes + 1 \in Writes /\ rows[n] \in Row
    BY <1>4 DEF RollbackToImage, Commit, TypeInv, TypeOK, Writes
  <2>2. [rows[n] EXCEPT !.gen = writes + 1] \in Row
    BY <2>1 DEF Row
  <2>3. outbox' \in SUBSET (Names \X Writes) /\ host' \in [Names -> HostStack]
    BY <1>4 DEF RollbackToImage, TypeInv, TypeOK, HostStack
  <2> QED
    BY <1>4, <2>2, <2>3, CommitType DEF RollbackToImage
<1>5. ASSUME NEW n \in Names, NEW i \in Writes, Enqueue(n, i) PROVE TypeInv'
  <2>1. queue' \in [Names -> Gen]
    BY <1>5 DEF Enqueue, TypeInv, TypeOK, Gen
  <2>2. TypeOK'
    BY <1>5, <2>1 DEF Enqueue, TypeInv, TypeOK, hostVars
  <2> QED
    BY <1>5, <2>2 DEF Enqueue, TypeInv, PlanFits
<1> QED
  BY <1>1, <1>2, <1>3, <1>4, <1>5 DEF Api

LEMMA RunType ==
    ASSUME TypeInv, NEW r \in Runners, Run(r)
    PROVE  TypeInv'
<1> USE ReconcilerAssumption
<1>1. ASSUME Recover PROVE TypeInv'
  <2>1. runner' \in [Runners -> RunnerPc]
    BY <1>1 DEF Recover, Goto, RunnerPc, TypeInv, TypeOK
  <2>2. ops' \in [Writes -> Operation \union {None}]
    BY <1>1, ReapedType DEF Recover, TypeInv
  <2>3. TypeOK'
    BY <1>1, <2>1, <2>2 DEF Recover, TypeInv, TypeOK, apiVars, hostVars
  <2> QED
    BY <1>1, <2>3 DEF Recover, TypeInv, PlanFits
<1>2. ASSUME StartDrain PROVE TypeInv'
  <2> DEFINE f == [n \in Names |-> IF queue[n] = None THEN NoTask
                                   ELSE [NoTask EXCEPT !.pc = "load", !.op = queue[n]]]
  <2>1. f \in [Names -> Task] /\ \A n \in Names : f[n].plan = <<>>
    <3> SUFFICES ASSUME NEW n \in Names PROVE f[n] \in Task /\ f[n].plan = <<>>
      OBVIOUS
    <3>1. CASE queue[n] = None
      BY <3>1, NoTaskType
    <3>2. CASE queue[n] # None
      <4>1. f[n] = [pc |-> "load", spec |-> None, obs |-> None, used |-> {},
                    plan |-> <<>>, op |-> queue[n]]
        BY <3>2 DEF NoTask
      <4>2. queue[n] \in Gen /\ "load" \in TaskPc
        BY DEF TypeInv, TypeOK, TaskPc
      <4> HIDE DEF f
      <4>3. f[n] \in Task
        BY <4>1, <4>2, NewTaskType
      <4>4. f[n].plan = <<>>
        BY <4>1
      <4> QED
        BY <4>3, <4>4
    <3> QED
      BY <3>1, <3>2
  <2>2. Loop \in Runners /\ task' = [task EXCEPT ![Loop] = f]
    BY <1>2 DEF StartDrain, Runners
  <2>3. task' \in [Runners -> [Names -> Task]] /\ PlanFits'
    <3> HIDE DEF f
    <3> QED
      BY <2>1, <2>2, StartTasksType
  <2>4. runner' \in [Runners -> RunnerPc] /\ queue' \in [Names -> Gen]
    BY <1>2 DEF StartDrain, Goto, NothingLoaded, Gen, RunnerPc, TypeInv, TypeOK
  <2>5. TypeOK'
    BY <1>2, <2>3, <2>4 DEF StartDrain, TypeInv, TypeOK, apiVars, hostVars
  <2> QED
    BY <2>3, <2>5 DEF TypeInv
<1>3. ASSUME StartCycle(r) PROVE TypeInv'
  <2>1. runner' \in [Runners -> RunnerPc]
    BY <1>3 DEF StartCycle, Goto, RunnerPc, TypeInv, TypeOK
  <2>2. ops' \in [Writes -> Operation \union {None}]
    BY <1>3, ReapedType DEF StartCycle, TypeInv
  <2>3. snap' \in [Runners -> [Names -> Row \union {None}]]
    BY <1>3, DesiredType DEF StartCycle, TypeInv, TypeOK
  <2>4. TypeOK'
    BY <1>3, <2>1, <2>2, <2>3 DEF StartCycle, TypeInv, TypeOK, apiVars, hostVars
  <2> QED
    BY <1>3, <2>4 DEF StartCycle, TypeInv, PlanFits
<1>4. ASSUME NEW blind \in SUBSET Tenants, Observe(r, blind) PROVE TypeInv'
  <2> DEFINE f == [n \in Names |->
                     IF snap[r][n] = None /\ Observed(n, blind) = None THEN NoTask
                     ELSE [NoTask EXCEPT !.pc = "queued",
                                         !.spec = snap[r][n],
                                         !.obs = Observed(n, blind),
                                         !.used = TenantsIn(snap[r])]]
  <2>1. f \in [Names -> Task] /\ \A n \in Names : f[n].plan = <<>>
    <3> SUFFICES ASSUME NEW n \in Names PROVE f[n] \in Task /\ f[n].plan = <<>>
      OBVIOUS
    <3>1. CASE snap[r][n] = None /\ Observed(n, blind) = None
      BY <3>1, NoTaskType
    <3>2. CASE ~(snap[r][n] = None /\ Observed(n, blind) = None)
      <4>1. /\ snap[r][n] \in Row \union {None}
            /\ Observed(n, blind) \in Observation \union {None}
            /\ TenantsIn(snap[r]) \in SUBSET Tenants
        BY ObservedType, TenantsInType DEF TypeInv, TypeOK
      <4>2. f[n] = [pc |-> "queued", spec |-> snap[r][n], obs |-> Observed(n, blind),
                    used |-> TenantsIn(snap[r]), plan |-> <<>>, op |-> None]
        BY <3>2 DEF NoTask
      <4>3. "queued" \in TaskPc /\ None \in Gen
        BY DEF TaskPc, Gen
      <4> HIDE DEF f
      <4>4. f[n] \in Task
        <5>1. ASSUME NEW sp \in Row \union {None}, NEW ob \in Observation \union {None},
                     NEW us \in SUBSET Tenants
              PROVE  [pc |-> "queued", spec |-> sp, obs |-> ob, used |-> us,
                      plan |-> <<>>, op |-> None] \in Task
          BY <4>3, NewTaskType
        <5>2. [pc |-> "queued", spec |-> snap[r][n], obs |-> Observed(n, blind),
               used |-> TenantsIn(snap[r]), plan |-> <<>>, op |-> None] \in Task
          BY <4>1, <5>1, Zenon
        <5> QED
          BY <4>2, <5>2
      <4>5. f[n].plan = <<>>
        BY <4>2
      <4> QED
        BY <4>4, <4>5
    <3> QED
      BY <3>1, <3>2
  <2>2. task' = [task EXCEPT ![r] = f]
    BY <1>4 DEF Observe
  <2>3. task' \in [Runners -> [Names -> Task]] /\ PlanFits'
    <3> HIDE DEF f
    <3> QED
      BY <2>1, <2>2, StartTasksType
  <2>4. faults' \in 0 .. MaxFaults
    BY <1>4, BlindedType DEF Observe, TypeInv
  <2>5. /\ runner' \in [Runners -> RunnerPc]
        /\ snap' \in [Runners -> [Names -> Row \union {None}]]
    BY <1>4 DEF Observe, Goto, NothingLoaded, RunnerPc, TypeInv, TypeOK
  <2>6. TypeOK'
    BY <1>4, <2>3, <2>4, <2>5 DEF Observe, TypeInv, TypeOK, apiVars, hostVars
  <2> QED
    BY <2>3, <2>6 DEF TypeInv
<1>5. ASSUME RunnerDone(r) PROVE TypeInv'
  <2>1. runner' \in [Runners -> RunnerPc]
    BY <1>5 DEF RunnerDone, Goto, RunnerPc, TypeInv, TypeOK
  <2>2. TypeOK'
    BY <1>5, <2>1 DEF RunnerDone, TypeInv, TypeOK, apiVars, hostVars
  <2> QED
    BY <1>5, <2>2 DEF RunnerDone, TypeInv, PlanFits
<1> QED
  BY <1>1, <1>2, <1>3, <1>4, <1>5 DEF Run

LEMMA SweepType ==
    ASSUME TypeInv, NEW r \in Sweeps, Sweep(r)
    PROVE  TypeInv'
<1> USE ReconcilerAssumption
<1>0. r \in Runners
  BY DEF Runners
<1>1. ASSUME SweepRead(r) PROVE TypeInv'
  <2>1. /\ runner' \in [Runners -> RunnerPc]
        /\ snap' \in [Runners -> [Names -> Row \union {None}]]
    BY <1>1, DesiredType DEF SweepRead, Goto, RunnerPc, TypeInv, TypeOK
  <2>2. TypeOK'
    BY <1>1, <2>1 DEF SweepRead, TypeInv, TypeOK, apiVars, hostVars
  <2> QED
    BY <1>1, <2>2 DEF SweepRead, TypeInv, PlanFits
<1>2. ASSUME SweepNothing(r) PROVE TypeInv'
  <2>1. /\ runner' \in [Runners -> RunnerPc]
        /\ snap' \in [Runners -> [Names -> Row \union {None}]]
    BY <1>2 DEF SweepNothing, Goto, NothingLoaded, RunnerPc, TypeInv, TypeOK
  <2>2. TypeOK'
    BY <1>2, <2>1 DEF SweepNothing, TypeInv, TypeOK, apiVars, hostVars
  <2> QED
    BY <1>2, <2>2 DEF SweepNothing, TypeInv, PlanFits
<1>3. ASSUME NEW n \in Names, SweepCommit(r, n) PROVE TypeInv'
  <2>1. /\ runner' \in [Runners -> RunnerPc]
        /\ snap' \in [Runners -> [Names -> Row \union {None}]]
    BY <1>3 DEF SweepCommit, Goto, NothingLoaded, RunnerPc, TypeInv, TypeOK
  <2>2. writes' \in 0 .. MaxWrites /\ writes + 1 \in Writes
    BY <1>3 DEF SweepCommit, TypeInv, TypeOK, Writes
  <2>3. rows' \in [Names -> Row \union {None}]
    <3>1. CASE rows[n] = None \/ rows[n].id # snap[r][n].id
      BY <1>3, <3>1 DEF SweepCommit, TypeInv, TypeOK
    <3>2. CASE ~(rows[n] = None \/ rows[n].id # snap[r][n].id)
      <4> DEFINE st == IF snap[r][n].status = "converging" THEN rows[n].status
                       ELSE "converging"
      <4>1. rows[n] \in Row
        BY <3>2 DEF TypeInv, TypeOK
      <4>2. [rows[n] EXCEPT !.gen = writes + 1, !.status = st] \in Row
        BY <2>2, <4>1 DEF Row, Statuses, ActiveStatuses
      <4>3. rows' = [rows EXCEPT ![n] = [rows[n] EXCEPT !.gen = writes + 1, !.status = st]]
        BY <1>3, <3>2, <4>1 DEF SweepCommit, TypeInv, TypeOK, Row
      <4> QED
        BY <4>2, <4>3 DEF TypeInv, TypeOK
    <3> QED
      BY <3>1, <3>2
  <2>4. TypeOK'
    BY <1>3, <2>1, <2>2, <2>3 DEF SweepCommit, TypeInv, TypeOK, hostVars
  <2> QED
    BY <1>3, <2>4 DEF SweepCommit, TypeInv, PlanFits
<1> QED
  BY <1>1, <1>2, <1>3 DEF Sweep

\* What concluding a task needs, shared by an empty plan, Finish and Fail.
LEMMA ConcludeTaskType ==
    ASSUME TypeInv, NEW r \in Runners, NEW n \in Names,
           NEW opStatus \in {"succeeded", "failed"},
           NEW status \in Statuses \union {"absent"},
           Conclude(n, task[r][n].op, opStatus, status), SetTask(r, n, NoTask),
           faults' \in 0 .. MaxFaults,
           UNCHANGED <<apiVars, queue, hostVars, runner, snap, strays>>
    PROVE  TypeInv'
<1>1. /\ rows' \in [Names -> Row \union {None}]
      /\ ops' \in [Writes -> Operation \union {None}]
  BY ConcludeType DEF TypeInv, OpStatuses
<1>2. task' \in [Runners -> [Names -> Task]] /\ PlanFits'
  <2>1. <<>> \in Seq(Actions \ {"WriteUnits"})
    OBVIOUS
  <2> QED
    BY <2>1, NoTaskType, SetTaskType
<1>3. TypeOK'
  BY <1>1, <1>2 DEF TypeInv, TypeOK, apiVars, hostVars
<1> QED
  BY <1>2, <1>3 DEF TypeInv

LEMMA StatusType ==
    ASSUME NEW spec
    PROVE  /\ DoneStatus(spec) \in Statuses \union {"absent"}
           /\ FailStatus(spec) \in Statuses \union {"absent"}
  BY DEF DoneStatus, FailStatus, Statuses, ActiveStatuses

\* The fields of a task.
LEMMA TaskFields ==
    ASSUME TypeInv, NEW r \in Runners, NEW n \in Names
    PROVE  /\ task[r][n] \in Task
           /\ task[r][n].pc \in TaskPc
           /\ task[r][n].spec \in Row \union {None}
           /\ task[r][n].obs \in Observation \union {None}
           /\ task[r][n].used \in SUBSET Tenants
           /\ task[r][n].plan \in Seq(Actions)
           /\ task[r][n].op \in Gen
           /\ task[r][n].pc = "apply" /\ task[r][n].spec = None
                 => task[r][n].plan \in Seq(Actions \ {"WriteUnits"})
<1>1. task[r][n] \in Task
  BY DEF TypeInv, TypeOK
<1>2. task[r][n].pc = "apply" /\ task[r][n].spec = None
         => task[r][n].plan \in Seq(Actions \ {"WriteUnits"})
  BY DEF TypeInv, PlanFits
<1> QED
  BY <1>1, <1>2 DEF Task

\* The host after an action that can be executed.
LEMMA StepHostType ==
    ASSUME TypeInv, NEW r \in Runners, NEW n \in Names, Step(r, n)
    PROVE  host' \in [Names -> HostStack] /\ users' \in SUBSET Tenants
<1> DEFINE t == task[r][n]
           a == Head(t.plan)
<1>1. /\ t.plan \in Seq(Actions) /\ t.plan # <<>> /\ t.spec \in Row \union {None}
      /\ t.pc = "apply"
      /\ t.spec = None => t.plan \in Seq(Actions \ {"WriteUnits"})
  BY TaskFields DEF Step
<1>2. a \in Actions /\ (a = "WriteUnits" => t.spec \in Row)
  BY <1>1
<1>3. TenantOf[n] \in Tenants /\ users \subseteq Tenants /\ host \in [Names -> HostStack]
  BY ReconcilerAssumption DEF TypeInv, TypeOK
<1>4. users' \in SUBSET Tenants
  BY <1>3 DEF Step
<1>5. WithoutTenant(TenantOf[n]) \in [Names -> HostStack]
  <2> SUFFICES ASSUME NEW m \in Names
               PROVE  [host[m] EXCEPT !.run = None, !.vol = FALSE] \in HostStack
    BY <1>3 DEF WithoutTenant
  <2> QED
    BY <1>3 DEF HostStack, Gen
<1>6. AfterAction(host[n], a, t.spec) \in HostStack
  BY <1>2, <1>3, AfterActionType
<1>7. host' = IF a = "RemoveTenant" THEN WithoutTenant(TenantOf[n])
              ELSE [host EXCEPT ![n] = AfterAction(host[n], a, t.spec)]
  BY <1>3 DEF Step
<1>8. host' \in [Names -> HostStack]
  BY <1>3, <1>5, <1>6, <1>7
<1> QED
  BY <1>4, <1>8

LEMMA ConvergeTaskType ==
    ASSUME TypeInv, NEW r \in Runners, NEW n \in Names, Converge(r, n)
    PROVE  TypeInv'
<1> DEFINE t == task[r][n]
<1>0. /\ t \in Task /\ t.pc \in TaskPc
      /\ t.spec \in Row \union {None} /\ t.obs \in Observation \union {None}
      /\ t.used \in SUBSET Tenants /\ t.plan \in Seq(Actions) /\ t.op \in Gen
      /\ t.pc = "apply" /\ t.spec = None
            => t.plan \in Seq(Actions \ {"WriteUnits"})
  BY TaskFields
<1>1. ASSUME TaskLoad(r, n) PROVE TypeInv'
  <2> DEFINE u == [t EXCEPT !.pc = "observe", !.spec = Desired(n),
                            !.used = TenantsIn(DesiredRows)]
  <2>1. u \in Task /\ u.pc = "observe"
    BY <1>0, DesiredType, TenantsInType DEF Task, TaskPc, TypeInv
  <2>2. task' \in [Runners -> [Names -> Task]] /\ PlanFits'
    <3>1. SetTask(r, n, u)
      BY <1>1 DEF TaskLoad
    <3> HIDE DEF u
    <3> QED
      BY <2>1, <3>1, SetTaskType
  <2>3. TypeOK'
    BY <1>1, <2>2 DEF TaskLoad, TypeInv, TypeOK, apiVars, hostVars
  <2> QED
    BY <2>2, <2>3 DEF TypeInv
<1>2. ASSUME NEW blind \in SUBSET Tenants, TaskObserve(r, n, blind) PROVE TypeInv'
  <2> DEFINE u == [t EXCEPT !.pc = "queued", !.obs = Observed(n, blind)]
  <2>1. u \in Task /\ u.pc = "queued"
    BY <1>0, ObservedType DEF Task, TaskPc, TypeInv
  <2>2. task' \in [Runners -> [Names -> Task]] /\ PlanFits'
    <3>1. SetTask(r, n, u)
      BY <1>2 DEF TaskObserve
    <3> HIDE DEF u
    <3> QED
      BY <2>1, <3>1, SetTaskType
  <2>3. faults' \in 0 .. MaxFaults
    BY <1>2, BlindedType DEF TaskObserve, TypeInv
  <2>4. TypeOK'
    BY <1>2, <2>2, <2>3 DEF TaskObserve, TypeInv, TypeOK, apiVars, hostVars
  <2> QED
    BY <2>2, <2>4 DEF TypeInv
<1>3. ASSUME GetPermit(r, n) PROVE TypeInv'
  <2> DEFINE u == [t EXCEPT !.pc = "permit"]
  <2>1. u \in Task /\ u.pc = "permit"
    BY <1>0 DEF Task, TaskPc
  <2>2. task' \in [Runners -> [Names -> Task]] /\ PlanFits'
    <3>1. SetTask(r, n, u)
      BY <1>3 DEF GetPermit
    <3> HIDE DEF u
    <3> QED
      BY <2>1, <3>1, SetTaskType
  <2>3. TypeOK'
    BY <1>3, <2>2 DEF GetPermit, TypeInv, TypeOK, apiVars, hostVars
  <2> QED
    BY <2>2, <2>3 DEF TypeInv
<1>4. ASSUME GetLock(r, n) PROVE TypeInv'
  <2> DEFINE p == Plan(t.spec, t.obs)
  <2>1. CASE p = <<>>
    <3>1. /\ Conclude(n, t.op, "succeeded", DoneStatus(t.spec))
          /\ SetTask(r, n, NoTask)
          /\ faults' \in 0 .. MaxFaults
          /\ UNCHANGED <<apiVars, queue, hostVars, runner, snap, strays>>
      BY <1>4, <2>1 DEF GetLock, TypeInv, TypeOK
    <3> QED
      BY <3>1, StatusType, ConcludeTaskType
  <2>2. CASE p # <<>>
    <3> DEFINE u == [t EXCEPT !.pc = "apply", !.plan = p]
    <3>1. /\ p \in Seq(Actions)
          /\ t.spec = None => p \in Seq(Actions \ {"WriteUnits"})
      BY <1>0, PlanType
    <3>2. u \in Task /\ u.spec = t.spec /\ u.plan = p
      <4> HIDE DEF p
      <4> QED
        BY <1>0, <3>1 DEF Task, TaskPc
    <3>3. task' \in [Runners -> [Names -> Task]] /\ PlanFits'
      <4>1. SetTask(r, n, u)
        BY <1>4, <2>2 DEF GetLock
      <4>2. u.spec = None => u.plan \in Seq(Actions \ {"WriteUnits"})
        BY <3>1, <3>2
      <4> HIDE DEF u
      <4> QED
        BY <3>2, <4>1, <4>2, SetTaskType
    <3>4. ops' \in [Writes -> Operation \union {None}] /\ UNCHANGED rows
      BY <1>4, <2>2, OpsWithType DEF GetLock, TypeInv, OpStatuses
    <3>5. TypeOK'
      BY <1>4, <3>3, <3>4 DEF GetLock, TypeInv, TypeOK, apiVars, hostVars
    <3> QED
      BY <3>3, <3>5 DEF TypeInv
  <2> QED
    BY <2>1, <2>2
<1>5. ASSUME Step(r, n) PROVE TypeInv'
  <2> DEFINE a == Head(t.plan)
             collect == a = "RemoveTenantIfEmpty" /\ ~KeepTenant(t.used, TenantOf[n])
             rest == Only(collect, "RemoveTenant") \o Tail(t.plan)
             u == [t EXCEPT !.plan = rest]
  <2>1. ASSUME NEW S \in {Actions, Actions \ {"WriteUnits"}}, t.plan \in Seq(S)
        PROVE  rest \in Seq(S)
    <3>1. "RemoveTenant" \in S
      BY DEF Actions
    <3>2. Only(collect, "RemoveTenant") \in Seq(S)
      BY <3>1 DEF Only
    <3>3. Tail(t.plan) \in Seq(S)
      BY <1>5, <2>1 DEF Step
    <3> QED
      BY <3>2, <3>3, ConcatType
  <2>2. t.pc = "apply" /\ rest \in Seq(Actions)
    BY <1>0, <1>5, <2>1 DEF Step
  <2>3. t.spec = None => rest \in Seq(Actions \ {"WriteUnits"})
    BY <1>0, <2>1, <2>2
  <2>4. u \in Task /\ u.spec = t.spec /\ u.plan = rest
    <3> HIDE DEF rest
    <3> QED
      BY <1>0, <2>2 DEF Task
  <2>5. task' \in [Runners -> [Names -> Task]] /\ PlanFits'
    <3>1. SetTask(r, n, u)
      BY <1>5 DEF Step
    <3>2. u.spec = None => u.plan \in Seq(Actions \ {"WriteUnits"})
      BY <2>3, <2>4
    <3> HIDE DEF u
    <3> QED
      BY <2>4, <3>1, <3>2, SetTaskType
  <2>6. host' \in [Names -> HostStack] /\ users' \in SUBSET Tenants
    BY <1>5, StepHostType
  <2>7. TypeOK'
    BY <1>5, <2>5, <2>6 DEF Step, TypeInv, TypeOK, apiVars
  <2> QED
    BY <2>5, <2>7 DEF TypeInv
<1>6. ASSUME Finish(r, n) PROVE TypeInv'
  <2>1. /\ Conclude(n, t.op, "succeeded", DoneStatus(t.spec))
        /\ SetTask(r, n, NoTask)
        /\ faults' \in 0 .. MaxFaults
        /\ UNCHANGED <<apiVars, queue, hostVars, runner, snap, strays>>
    BY <1>6 DEF Finish, TypeInv, TypeOK
  <2> QED
    BY <2>1, StatusType, ConcludeTaskType
<1>7. ASSUME Fail(r, n), faults' \in 0 .. MaxFaults PROVE TypeInv'
  <2>1. /\ Conclude(n, t.op, "failed", FailStatus(t.spec))
        /\ SetTask(r, n, NoTask)
        /\ UNCHANGED <<apiVars, queue, hostVars, runner, snap, strays>>
    BY <1>7 DEF Fail
  <2> QED
    BY <1>7, <2>1, StatusType, ConcludeTaskType
<1>8. ASSUME ActionFails(r, n) \/ ActionImpossible(r, n) PROVE TypeInv'
  <2>1. faults' \in 0 .. MaxFaults
    BY <1>8, ReconcilerAssumption DEF ActionFails, ActionImpossible, TypeInv, TypeOK
  <2> QED
    BY <1>7, <1>8, <2>1 DEF ActionFails, ActionImpossible
<1> QED
  BY <1>1, <1>2, <1>3, <1>4, <1>5, <1>6, <1>8 DEF Converge

LEMMA AgeType ==
    ASSUME TypeInv, NEW i \in Writes, Age(i)
    PROVE  TypeInv'
<1>1. ops' \in [Writes -> Operation \union {None}]
  BY DEF Age, TypeInv, TypeOK, Operation
<1>2. TypeOK'
  BY <1>1 DEF Age, TypeInv, TypeOK, apiVars, hostVars
<1> QED
  BY <1>2 DEF Age, TypeInv, PlanFits

LEMMA CrashType ==
    ASSUME TypeInv, Crash
    PROVE  TypeInv'
<1> USE ReconcilerAssumption
<1>1. runner' \in [Runners -> RunnerPc]
  BY DEF Crash, RunnerPc
<1>2. task' \in [Runners -> [Names -> Task]]
  BY NoTaskType DEF Crash
<1>3. /\ snap' \in [Runners -> [Names -> Row \union {None}]]
      /\ queue' \in [Names -> Gen]
  BY DEF Crash, NothingLoaded, Gen
<1>4. faults' \in 0 .. MaxFaults /\ strays' \subseteq Writes
  BY DEF Crash, TypeInv, TypeOK
<1>5. TypeOK'
  BY <1>1, <1>2, <1>3, <1>4 DEF Crash, TypeInv, TypeOK, hostVars
<1>6. PlanFits'
  <2>1. ASSUME NEW r \in Runners, NEW n \in Names PROVE task'[r][n].pc # "apply"
    BY DEF Crash, NoTask
  <2> QED
    BY <2>1 DEF PlanFits
<1> QED
  BY <1>5, <1>6 DEF TypeInv

LEMMA NextType == TypeInv /\ [Next]_vars => TypeInv'
<1> SUFFICES ASSUME TypeInv, [Next]_vars PROVE TypeInv'
  OBVIOUS
<1>1. CASE Api
  BY <1>1, ApiType
<1>2. CASE \E i \in Writes : Age(i)
  BY <1>2, AgeType
<1>3. CASE \E r \in Runners : Run(r)
  BY <1>3, RunType
<1>4. CASE \E r \in Sweeps : Sweep(r)
  BY <1>4, SweepType
<1>5. CASE \E r \in Runners, n \in Names : Converge(r, n)
  BY <1>5, ConvergeTaskType
<1>6. CASE Crash
  BY <1>6, CrashType
<1>7. CASE UNCHANGED vars
  BY <1>7 DEF vars, TypeInv, TypeOK, PlanFits
<1> QED
  BY <1>1, <1>2, <1>3, <1>4, <1>5, <1>6, <1>7 DEF Next

\* In every reachable state the types hold and no plan that is applied
\* without a spec (a teardown) contains a WriteUnits.
THEOREM PlansFit == Spec => []TypeInv
<1>1. Init => TypeInv
  BY InitType
<1>2. TypeInv /\ [Next]_vars => TypeInv'
  BY NextType
<1> QED
  BY <1>1, <1>2, PTL DEF Spec

\* Every reachable state of the reconciler is well typed.
THEOREM TypeCorrect == Spec => []TypeOK
<1>1. TypeInv => TypeOK
  BY DEF TypeInv
<1> QED
  BY <1>1, PlansFit, PTL

-----------------------------------------------------------------------------
(* Locks, permits and operations.                                          *)

\* A run has tasks only while it waits for them: what a new batch of tasks
\* overwrites is nothing.
Quiet ==
    \A r \in Runners : runner[r] \in {"drain", "gather"} \/ AllOff(r)

PermitInv == Cardinality(Permits) <= Concurrency

-----------------------------------------------------------------------------
(* What a step does to the tasks.                                          *)

LEMMA SetTaskFrame ==
    ASSUME TypeOK, NEW r \in Runners, NEW n \in Names, NEW t, SetTask(r, n, t)
    PROVE  \A q \in Runners, m \in Names :
              task'[q][m] = IF q = r /\ m = n THEN t ELSE task[q][m]
  BY DEF TypeOK, SetTask

\* A step of a task changes this task only, which was not off, and leaves
\* the runs where they are.
LEMMA ConvergeFrame ==
    ASSUME TypeOK, NEW r \in Runners, NEW n \in Names, Converge(r, n)
    PROVE  /\ task[r][n].pc # "off" /\ UNCHANGED runner
           /\ \A q \in Runners, m \in Names :
                 ~(q = r /\ m = n) => task'[q][m] = task[q][m]
<1>1. ASSUME TaskLoad(r, n) PROVE task[r][n].pc # "off" /\ UNCHANGED runner
                                  /\ \E t : SetTask(r, n, t)
  BY <1>1 DEF TaskLoad
<1>2. ASSUME NEW blind \in SUBSET Tenants, TaskObserve(r, n, blind)
      PROVE  task[r][n].pc # "off" /\ UNCHANGED runner /\ \E t : SetTask(r, n, t)
  BY <1>2 DEF TaskObserve
<1>3. ASSUME GetPermit(r, n) PROVE task[r][n].pc # "off" /\ UNCHANGED runner
                                   /\ \E t : SetTask(r, n, t)
  BY <1>3 DEF GetPermit
<1>4. ASSUME GetLock(r, n) PROVE task[r][n].pc # "off" /\ UNCHANGED runner
                                 /\ \E t : SetTask(r, n, t)
  BY <1>4 DEF GetLock
<1>5. ASSUME Step(r, n) PROVE task[r][n].pc # "off" /\ UNCHANGED runner
                              /\ \E t : SetTask(r, n, t)
  BY <1>5 DEF Step
<1>6. ASSUME Finish(r, n) PROVE task[r][n].pc # "off" /\ UNCHANGED runner
                                /\ \E t : SetTask(r, n, t)
  BY <1>6 DEF Finish
<1>7. ASSUME Fail(r, n) PROVE task[r][n].pc # "off" /\ UNCHANGED runner
                              /\ \E t : SetTask(r, n, t)
  BY <1>7 DEF Fail
<1>8. task[r][n].pc # "off" /\ UNCHANGED runner /\ \E t : SetTask(r, n, t)
  BY <1>1, <1>2, <1>3, <1>4, <1>5, <1>6, <1>7
     DEF Converge, ActionFails, ActionImpossible
<1> QED
  BY <1>8, SetTaskFrame

\* A task comes to hold a permit or a lock by GetPermit and GetLock only.
Holding == {"permit", "apply"}

LEMMA ConvergePc ==
    ASSUME TypeOK, NEW r \in Runners, NEW n \in Names, Converge(r, n)
    PROVE  \/ task'[r][n].pc \notin Holding
           \/ task'[r][n].pc = task[r][n].pc
           \/ GetPermit(r, n) /\ task'[r][n].pc = "permit"
           \/ GetLock(r, n)
<1>1. ASSUME TaskLoad(r, n) PROVE task'[r][n].pc = "observe"
  BY <1>1 DEF TaskLoad, SetTask, TypeOK, Task
<1>2. ASSUME NEW blind \in SUBSET Tenants, TaskObserve(r, n, blind)
      PROVE  task'[r][n].pc = "queued"
  BY <1>2 DEF TaskObserve, SetTask, TypeOK, Task
<1>3. ASSUME GetPermit(r, n) PROVE task'[r][n].pc = "permit"
  BY <1>3 DEF GetPermit, SetTask, TypeOK, Task
<1>4. ASSUME Step(r, n) PROVE task'[r][n].pc = task[r][n].pc
  BY <1>4 DEF Step, SetTask, TypeOK, Task
<1>5. ASSUME Finish(r, n) \/ Fail(r, n) PROVE task'[r][n].pc = "off"
  BY <1>5 DEF Finish, Fail, SetTask, TypeOK, NoTask
<1> QED
  BY <1>1, <1>2, <1>3, <1>4, <1>5
     DEF Converge, ActionFails, ActionImpossible, Holding

\* The other actors: they leave the tasks alone, end them (Crash), or start
\* tasks that hold nothing.
LEMMA OthersPc ==
    ASSUME TypeOK, [Next]_vars, NEW r \in Runners, NEW n \in Names,
           ~ \E q \in Runners, m \in Names : Converge(q, m)
    PROVE  \/ task'[r][n].pc \notin Holding
           \/ task'[r][n] = task[r][n]
<1>1. ASSUME Api \/ (\E i \in Writes : Age(i)) \/ (\E q \in Sweeps : Sweep(q))
      PROVE  task' = task
  BY <1>1 DEF Api, CreateStack, UpdateStack, DeleteStack, RollbackToImage, Commit,
              Enqueue, Age, Sweep, SweepRead, SweepNothing, SweepCommit
<1>2. ASSUME NEW q \in Runners, Run(q)
      PROVE  task'[r][n].pc \notin Holding \/ task'[r][n] = task[r][n]
  <2>1. CASE Recover \/ StartCycle(q) \/ RunnerDone(q)
    BY <2>1 DEF Recover, StartCycle, RunnerDone
  <2>2. CASE StartDrain
    <3>1. CASE r = Loop
      BY <2>2, <3>1 DEF StartDrain, NoTask, TypeOK, Holding
    <3>2. CASE r # Loop
      BY <2>2, <3>2 DEF StartDrain, TypeOK
    <3> QED
      BY <3>1, <3>2
  <2>3. CASE \E blind \in SUBSET Tenants : Observe(q, blind)
    <3>1. CASE r = q
      <4>1. PICK blind \in SUBSET Tenants : Observe(q, blind)
        BY <2>3
      <4>2. task'[r][n] =
                IF snap[r][n] = None /\ Observed(n, blind) = None THEN NoTask
                ELSE [NoTask EXCEPT !.pc = "queued",
                                    !.spec = snap[r][n],
                                    !.obs = Observed(n, blind),
                                    !.used = TenantsIn(snap[r])]
        BY <3>1, <4>1 DEF Observe, TypeOK
      <4>3. task'[r][n].pc \in {"off", "queued"}
        BY <4>2 DEF NoTask
      <4> QED
        BY <4>3 DEF Holding
    <3>2. CASE r # q
      BY <2>3, <3>2 DEF Observe, TypeOK
    <3> QED
      BY <3>1, <3>2
  <2> QED
    BY <1>2, <2>1, <2>2, <2>3 DEF Run
<1>3. ASSUME Crash PROVE task'[r][n].pc \notin Holding
  BY <1>3 DEF Crash, NoTask, Holding
<1>4. ASSUME UNCHANGED vars PROVE task' = task
  BY <1>4 DEF vars
<1> QED
  BY <1>1, <1>2, <1>3, <1>4 DEF Next

-----------------------------------------------------------------------------
(* The invariants, one step at a time.                                     *)

LEMMA QuietStep ==
    ASSUME TypeOK, Quiet, [Next]_vars
    PROVE  Quiet'
<1> SUFFICES ASSUME NEW r \in Runners, runner'[r] \notin {"drain", "gather"}
             PROVE  \A n \in Names : task'[r][n].pc = "off"
  BY DEF Quiet, AllOff
<1>1. CASE \E q \in Runners, m \in Names : Converge(q, m)
  <2>1. PICK q \in Runners, m \in Names : Converge(q, m)
    BY <1>1
  <2>2. task[q][m].pc # "off" /\ UNCHANGED runner
    BY <2>1, ConvergeFrame
  <2>3. q # r /\ \A n \in Names : task[r][n].pc = "off"
    BY <2>2 DEF Quiet, AllOff
  <2> QED
    BY <2>1, <2>3, ConvergeFrame
<1>2. CASE Api \/ (\E i \in Writes : Age(i)) \/ UNCHANGED vars
  <2>1. UNCHANGED <<task, runner>>
    BY <1>2 DEF Api, CreateStack, UpdateStack, DeleteStack, RollbackToImage, Commit,
                Enqueue, Age, vars
  <2> QED
    BY <2>1 DEF Quiet, AllOff
<1>3. CASE \E q \in Sweeps : Sweep(q)
  <2>1. PICK q \in Sweeps : Sweep(q)
    BY <1>3
  <2>2. /\ UNCHANGED task
        /\ runner[q] \in {"idle", "refresh"}
        /\ \A s \in Runners : s # q => runner'[s] = runner[s]
    BY <2>1 DEF Sweep, SweepRead, SweepNothing, SweepCommit, Goto, TypeOK, Runners
  <2> QED
    BY <2>2 DEF Quiet, AllOff
<1>4. CASE \E q \in Runners : Run(q)
  <2>1. PICK q \in Runners : Run(q)
    BY <1>4
  <2>2. CASE Recover
    BY <2>2 DEF Recover, Goto, TypeOK, Quiet, AllOff, Runners
  <2>3. CASE StartDrain
    <3>1. Loop \in Runners /\ runner'[Loop] = "drain"
      BY <2>3 DEF StartDrain, Goto, TypeOK, Runners
    <3>2. r # Loop /\ runner'[r] = runner[r] /\ task'[r] = task[r]
      BY <2>3, <3>1 DEF StartDrain, Goto, TypeOK
    <3> QED
      BY <3>2 DEF Quiet, AllOff
  <2>4. CASE StartCycle(q) \/ RunnerDone(q)
    <3>1. AllOff(q) /\ UNCHANGED task /\ \A s \in Runners : s # q => runner'[s] = runner[s]
      BY <2>4 DEF StartCycle, RunnerDone, Goto, TypeOK
    <3> QED
      BY <3>1 DEF Quiet, AllOff
  <2>5. CASE \E blind \in SUBSET Tenants : Observe(q, blind)
    <3>1. runner'[q] = "gather"
      BY <2>5 DEF Observe, Goto, TypeOK
    <3>2. r # q /\ runner'[r] = runner[r] /\ task'[r] = task[r]
      BY <2>5, <3>1 DEF Observe, Goto, TypeOK
    <3> QED
      BY <3>2 DEF Quiet, AllOff
  <2> QED
    BY <2>1, <2>2, <2>3, <2>4, <2>5 DEF Run
<1>5. CASE Crash
  BY <1>5 DEF Crash, NoTask
<1> QED
  BY <1>1, <1>2, <1>3, <1>4, <1>5 DEF Next

LEMMA LockStep ==
    ASSUME TypeOK, LockExclusion, [Next]_vars
    PROVE  LockExclusion'
<1> SUFFICES ASSUME NEW r \in Runners, NEW s \in Runners, NEW n \in Names,
                    task'[r][n].pc = "apply", task'[s][n].pc = "apply", r # s
             PROVE  FALSE
  BY DEF LockExclusion
<1>1. CASE \E q \in Runners, m \in Names : Converge(q, m)
  <2>1. PICK q \in Runners, m \in Names : Converge(q, m)
    BY <1>1
  <2>2. ASSUME NEW x \in Runners, NEW y \in Runners, x # y,
               task'[x][n].pc = "apply", task'[y][n].pc = "apply",
               q = x, m = n
        PROVE  FALSE
    <3>1. task[y][n].pc = "apply"
      BY <2>1, <2>2, ConvergeFrame
    <3>2. task[x][n].pc # "apply" /\ Locked(n)
      BY <2>2, <3>1 DEF LockExclusion, Locked
    <3>3. GetLock(x, n)
      BY <2>1, <2>2, <3>2, ConvergePc DEF Holding
    <3> QED
      BY <3>2, <3>3 DEF GetLock
  <2>3. CASE m = n /\ (q = r \/ q = s)
    BY <2>2, <2>3
  <2>4. CASE ~(m = n /\ (q = r \/ q = s))
    <3>1. task[r][n].pc = "apply" /\ task[s][n].pc = "apply"
      BY <2>1, <2>4, ConvergeFrame
    <3> QED
      BY <3>1 DEF LockExclusion
  <2> QED
    BY <2>3, <2>4
<1>2. CASE ~ \E q \in Runners, m \in Names : Converge(q, m)
  <2>1. task[r][n].pc = "apply" /\ task[s][n].pc = "apply"
    BY <1>2, OthersPc DEF Holding
  <2> QED
    BY <2>1 DEF LockExclusion
<1> QED
  BY <1>1, <1>2

LEMMA PermitsFinite == IsFiniteSet(Permits)
<1>1. IsFiniteSet({Loop})
  BY FS_Singleton
<1>2. IsFiniteSet(Runners)
  BY <1>1, ReconcilerAssumption, FS_Union DEF Runners
<1>3. IsFiniteSet(Runners \X Names)
  BY <1>2, ReconcilerAssumption, FS_Product
<1> QED
  BY <1>3, FS_Subset DEF Permits

LEMMA PermitStep ==
    ASSUME TypeOK, PermitInv, [Next]_vars
    PROVE  PermitInv'
<1>1. ASSUME Permits' \subseteq Permits PROVE PermitInv'
  BY <1>1, PermitsFinite, FS_Subset, FS_CardinalityType, ReconcilerAssumption
     DEF PermitInv
<1>2. CASE \E q \in Runners, m \in Names : Converge(q, m)
  <2>1. PICK q \in Runners, m \in Names : Converge(q, m)
    BY <1>2
  <2>2. ASSUME NEW p \in Permits', p # <<q, m>> PROVE p \in Permits
    BY <2>1, <2>2, ConvergeFrame DEF Permits
  <2>3. CASE GetPermit(q, m)
    <3>1. Permits' \subseteq Permits \union {<<q, m>>}
      BY <2>2
    <3>2. /\ IsFiniteSet(Permits \union {<<q, m>>})
          /\ Cardinality(Permits \union {<<q, m>>}) <= Cardinality(Permits) + 1
      <4>1. Cardinality(Permits) \in Nat
        BY PermitsFinite, FS_CardinalityType
      <4>2. /\ IsFiniteSet(Permits \union {<<q, m>>})
            /\ \/ Cardinality(Permits \union {<<q, m>>}) = Cardinality(Permits)
               \/ Cardinality(Permits \union {<<q, m>>}) = Cardinality(Permits) + 1
        BY PermitsFinite, FS_AddElement
      <4> QED
        BY <4>1, <4>2
    <3>3. Cardinality(Permits') <= Cardinality(Permits \union {<<q, m>>})
      BY <3>1, <3>2, FS_Subset
    <3>4. Cardinality(Permits) < Concurrency
      BY <2>3 DEF GetPermit
    <3>5. /\ Cardinality(Permits) \in Nat /\ Concurrency \in Nat
          /\ Cardinality(Permits \union {<<q, m>>}) \in Nat
          /\ Cardinality(Permits') \in Nat
      BY <3>1, <3>2, PermitsFinite, FS_Subset, FS_CardinalityType, ReconcilerAssumption
    <3> QED
      BY <3>2, <3>3, <3>4, <3>5 DEF PermitInv
  <2>4. CASE ~GetPermit(q, m)
    <3>1. <<q, m>> \in Permits' => <<q, m>> \in Permits
      BY <2>1, <2>4, ConvergePc DEF Permits, Holding, GetLock
    <3> QED
      BY <1>1, <2>2, <3>1
  <2> QED
    BY <2>3, <2>4
<1>3. CASE ~ \E q \in Runners, m \in Names : Converge(q, m)
  <2>1. Permits' \subseteq Permits
    BY <1>3, OthersPc DEF Permits, Holding
  <2> QED
    BY <1>1, <2>1
<1> QED
  BY <1>2, <1>3

\* An operation that runs after a step either ran before it or was started
\* by GetLock.
LEMMA RunningOrigin ==
    ASSUME TypeOK, [Next]_vars, NEW i \in Writes,
           ops'[i] # None, ops'[i].status = "running"
    PROVE  \/ ops[i] # None /\ ops[i].status = "running"
           \/ \E r \in Runners, n \in Names :
                 GetLock(r, n) /\ task'[r][n].pc = "apply" /\ task'[r][n].op = i
<1> USE DEF Operation
<1> DEFINE Ran == ops[i] # None /\ ops[i].status = "running"
<1>1. CASE Api
  <2>1. ASSUME NEW n \in Names, NEW row, Commit(n, row) PROVE Ran
    BY <2>1 DEF Commit, TypeOK
  <2>2. ASSUME NEW n \in Names, NEW j \in Writes, Enqueue(n, j) PROVE Ran
    BY <2>2 DEF Enqueue
  <2> QED
    BY <1>1, <2>1, <2>2 DEF Api, CreateStack, UpdateStack, DeleteStack, RollbackToImage
<1>2. CASE \E j \in Writes : Age(j)
  BY <1>2 DEF Age, TypeOK
<1>3. ASSUME ops' = [j \in Writes |-> Reaped(ops[j])] PROVE Ran
  BY <1>3 DEF Reaped, TypeOK
<1>4. CASE \E r \in Runners : Run(r)
  BY <1>3, <1>4 DEF Run, Recover, StartDrain, StartCycle, Observe, RunnerDone
<1>5. CASE (\E r \in Sweeps : Sweep(r)) \/ Crash \/ UNCHANGED vars
  BY <1>5 DEF Sweep, SweepRead, SweepNothing, SweepCommit, Crash, vars
<1>6. ASSUME NEW n \in Names, NEW j, NEW opStatus \in {"succeeded", "failed"}, NEW status,
             Conclude(n, j, opStatus, status)
      PROVE  Ran /\ j # i
  <2>1. OpsWith(j, opStatus)[i] # None /\ OpsWith(j, opStatus)[i].status = "running"
    BY <1>6 DEF Conclude, Unlinked
  <2> QED
    BY <2>1 DEF OpsWith, WithStatus, TypeOK
<1>7. CASE \E r \in Runners, n \in Names : Converge(r, n)
  <2>1. PICK r \in Runners, n \in Names : Converge(r, n)
    BY <1>7
  <2>2. CASE GetLock(r, n)
    <3> DEFINE t == task[r][n]
               p == Plan(t.spec, t.obs)
    <3>1. CASE p = <<>>
      BY <1>6, <2>2, <3>1 DEF GetLock
    <3>2. CASE p # <<>> /\ t.op = i
      <4>1. SetTask(r, n, [t EXCEPT !.pc = "apply", !.plan = p])
        BY <2>2, <3>2 DEF GetLock
      <4>2. task'[r][n].pc = "apply" /\ task'[r][n].op = i
        BY <3>2, <4>1 DEF SetTask, TypeOK, Task
      <4> QED
        BY <2>2, <4>2
    <3>3. CASE p # <<>> /\ t.op # i
      BY <2>2, <3>3 DEF GetLock, OpsWith
    <3> QED
      BY <3>1, <3>2, <3>3
  <2>3. CASE Finish(r, n) \/ Fail(r, n)
    BY <1>6, <2>3 DEF Finish, Fail
  <2>4. CASE \/ TaskLoad(r, n) \/ (\E blind \in SUBSET Tenants : TaskObserve(r, n, blind))
             \/ GetPermit(r, n) \/ Step(r, n)
    BY <2>4 DEF TaskLoad, TaskObserve, GetPermit, Step
  <2> QED
    BY <2>1, <2>2, <2>3, <2>4 DEF Converge, ActionFails, ActionImpossible
<1> QED
  BY <1>1, <1>2, <1>4, <1>5, <1>7 DEF Next

\* A task that applies a plan for operation i goes on doing so unless it
\* ends the operation or a restart ends the task.
LEMMA OwnerStays ==
    ASSUME TypeOK, Quiet, [Next]_vars, NEW i \in Writes, i \notin strays',
           ops[i] # None, ops[i].status = "running",
           ops'[i] # None, ops'[i].status = "running",
           NEW r \in Runners, NEW n \in Names,
           task[r][n].pc = "apply", task[r][n].op = i
    PROVE  task'[r][n].pc = "apply" /\ task'[r][n].op = i
<1>1. CASE \E q \in Runners, m \in Names : Converge(q, m)
  <2>1. PICK q \in Runners, m \in Names : Converge(q, m)
    BY <1>1
  <2>2. CASE ~(q = r /\ m = n)
    BY <2>1, <2>2, ConvergeFrame
  <2>3. CASE q = r /\ m = n /\ Step(r, n)
    BY <2>3 DEF Step, SetTask, TypeOK, Task
  <2>4. CASE q = r /\ m = n /\ (Finish(r, n) \/ Fail(r, n))
    <3> DEFINE Results == {"absent", "ready", "deleting", "degraded"}
    <3>1. PICK opStatus \in {"succeeded", "failed"} :
              \E status \in Results : Conclude(n, i, opStatus, status)
      BY <2>4 DEF Finish, Fail, DoneStatus, FailStatus
    <3>2. PICK status \in Results : Conclude(n, i, opStatus, status)
      BY <3>1
    <3>3. ops'[i].status = OpsWith(i, opStatus)[i].status
      BY <3>2 DEF Conclude, Unlinked, OpsWith, WithStatus, TypeOK, Operation
    <3>4. OpsWith(i, opStatus)[i].status = opStatus
      BY DEF OpsWith, WithStatus, TypeOK, Operation
    <3> QED
      BY <3>3, <3>4
  <2> QED
    BY <2>1, <2>2, <2>3, <2>4 DEF Converge, ActionFails, ActionImpossible, TaskLoad,
                                  TaskObserve, GetPermit, GetLock
<1>2. CASE Crash
  BY <1>2 DEF Crash
<1>3. CASE ~Crash /\ ~ \E q \in Runners, m \in Names : Converge(q, m)
  <2>1. runner[r] \in {"drain", "gather"}
    BY DEF Quiet, AllOff
  <2>2. CASE \E q \in Runners : Run(q)
    <3>1. PICK q \in Runners : Run(q)
      BY <2>2
    <3>2. CASE StartDrain
      BY <2>1, <3>2 DEF StartDrain, TypeOK
    <3>3. CASE \E blind \in SUBSET Tenants : Observe(q, blind)
      BY <2>1, <3>3 DEF Observe, TypeOK
    <3>4. CASE Recover \/ StartCycle(q) \/ RunnerDone(q)
      BY <3>4 DEF Recover, StartCycle, RunnerDone
    <3> QED
      BY <3>1, <3>2, <3>3, <3>4 DEF Run
  <2>3. CASE ~ \E q \in Runners : Run(q)
    <3>1. UNCHANGED task
      BY <1>3, <2>3 DEF Next, Api, CreateStack, UpdateStack, DeleteStack, RollbackToImage,
                        Commit, Enqueue, Age, Sweep, SweepRead, SweepNothing,
                        SweepCommit, vars
    <3> QED
      BY <3>1
  <2> QED
    BY <2>2, <2>3
<1> QED
  BY <1>1, <1>2, <1>3

LEMMA StraysGrow ==
    ASSUME [Next]_vars
    PROVE  strays \subseteq strays'
<1>1. CASE Api \/ UNCHANGED vars
  BY <1>1 DEF Api, CreateStack, UpdateStack, DeleteStack, RollbackToImage, Commit,
              Enqueue, vars
<1>2. CASE (\E i \in Writes : Age(i)) \/ (\E r \in Sweeps : Sweep(r)) \/ Crash
  BY <1>2 DEF Age, Sweep, SweepRead, SweepNothing, SweepCommit, Crash
<1>3. CASE \E r \in Runners : Run(r)
  BY <1>3 DEF Run, Recover, StartDrain, StartCycle, Observe, RunnerDone
<1>4. CASE \E r \in Runners, n \in Names : Converge(r, n)
  <2>1. PICK r \in Runners, n \in Names : Converge(r, n)
    BY <1>4
  <2>2. CASE GetLock(r, n) \/ Step(r, n) \/ Finish(r, n) \/ Fail(r, n)
    BY <2>2 DEF GetLock, Step, Finish, Fail
  <2>3. CASE \/ TaskLoad(r, n) \/ (\E blind \in SUBSET Tenants : TaskObserve(r, n, blind))
             \/ GetPermit(r, n)
    BY <2>3 DEF TaskLoad, TaskObserve, GetPermit
  <2> QED
    BY <2>1, <2>2, <2>3 DEF Converge, ActionFails, ActionImpossible
<1> QED
  BY <1>1, <1>2, <1>3, <1>4 DEF Next

LEMMA OwnedStep ==
    ASSUME TypeOK, Quiet, RunningOpsOwned, [Next]_vars
    PROVE  RunningOpsOwned'
<1> SUFFICES ASSUME NEW i \in Writes, i \notin strays',
                    ops'[i] # None, ops'[i].status = "running"
             PROVE  \E r \in Runners, n \in Names :
                        task'[r][n].pc = "apply" /\ task'[r][n].op = i
  BY DEF RunningOpsOwned
<1>1. CASE \E r \in Runners, n \in Names :
               GetLock(r, n) /\ task'[r][n].pc = "apply" /\ task'[r][n].op = i
  BY <1>1
<1>2. CASE ops[i] # None /\ ops[i].status = "running"
  <2>1. strays \subseteq strays'
    BY StraysGrow
  <2>2. PICK r \in Runners, n \in Names : task[r][n].pc = "apply" /\ task[r][n].op = i
    BY <1>2, <2>1 DEF RunningOpsOwned
  <2> QED
    BY <1>2, <2>2, OwnerStays
<1> QED
  BY <1>1, <1>2, RunningOrigin

-----------------------------------------------------------------------------
(* The theorems.                                                           *)

SafeInv == TypeInv /\ Quiet /\ LockExclusion /\ PermitInv /\ RunningOpsOwned

LEMMA InitSafe == Init => SafeInv
<1> SUFFICES ASSUME Init PROVE SafeInv
  OBVIOUS
<1>1. \A r \in Runners, n \in Names : task[r][n].pc = "off"
  BY DEF Init, NoTask
<1>2. Quiet /\ LockExclusion
  BY <1>1 DEF Quiet, AllOff, LockExclusion
<1>3. Permits = {}
  BY <1>1 DEF Permits
<1>4. PermitInv
  BY <1>3, FS_EmptySet, ReconcilerAssumption DEF PermitInv
<1>5. RunningOpsOwned
  BY DEF Init, RunningOpsOwned
<1> QED
  BY <1>2, <1>4, <1>5, InitType DEF SafeInv

\* The inductive invariant of the theorems below: with the types, a run has
\* no tasks before it starts them, and permits are counted as taken.
THEOREM Safe == Spec => []SafeInv
<1>1. Init => SafeInv
  BY InitSafe
<1>2. SafeInv /\ [Next]_vars => SafeInv'
  BY NextType, QuietStep, LockStep, PermitStep, OwnedStep DEF SafeInv, TypeInv
<1> QED
  BY <1>1, <1>2, PTL DEF Spec

\* Two runs of the reconciler never apply plans to one stack at a time
\* (the per-stack asyncio locks of _converge_one()).
THEOREM LocksExclude == Spec => []LockExclusion
<1>1. SafeInv => LockExclusion
  BY DEF SafeInv
<1> QED
  BY <1>1, Safe, PTL

\* No more plans are applied at a time than reconcile_concurrency, although
\* tasks keep their permit while they wait for a lock.
THEOREM PermitsBound == Spec => []PermitBound
<1>1. SafeInv => PermitBound
  <2> SUFFICES ASSUME SafeInv PROVE PermitBound
    OBVIOUS
  <2>1. Applying \subseteq Permits
    BY DEF Applying, Permits
  <2>2. /\ Cardinality(Applying) <= Cardinality(Permits)
        /\ Cardinality(Applying) \in Nat /\ Cardinality(Permits) \in Nat
    BY <2>1, PermitsFinite, FS_Subset, FS_CardinalityType
  <2> QED
    BY <2>2, ReconcilerAssumption DEF SafeInv, PermitInv, PermitBound
<1> QED
  BY <1>1, Safe, PTL

\* An operation shown as running is being applied by a task, unless a
\* restart has killed that task: whatever ends a task ends its operation.
THEOREM RunningOwned == Spec => []RunningOpsOwned
<1>1. SafeInv => RunningOpsOwned
  BY DEF SafeInv
<1> QED
  BY <1>1, Safe, PTL

-----------------------------------------------------------------------------
(* The loop by itself: when no sweep converges beside it.                  *)

Turn(n) == task[Loop][n]

\* A row loaded as s is no newer than the row there is now, and what is on
\* the host is no newer than s.
Behind(s, w, row, unit) ==
    s # None => /\ s.gen <= w
                /\ row # None => s.gen <= row.gen
                /\ unit # None => unit <= s.gen

\* Rows, the rows a cycle has loaded and the rows its tasks work from are
\* ordered in time, and units come from one of them.
UnitsNewest ==
    \A n \in Names :
        /\ host[n].unit # None => host[n].unit <= writes
        /\ Behind(rows[n], writes, rows[n], host[n].unit)
        /\ Behind(snap[Loop][n], writes, rows[n], host[n].unit)
        /\ Behind(Turn(n).spec, writes, rows[n], host[n].unit)
        /\ snap[Loop][n] # None => runner[Loop] = "observe"

OpOf(n, i) == i # None => ops[i] # None /\ ops[i].stack \in {n, None}

\* An operation with a stack is older than the row of the stack, and than
\* the row that its task has loaded.
OpsLinked ==
    /\ \A i \in Writes : ops[i] # None =>
            /\ i <= writes
            /\ ops[i].stack # None =>
                  rows[ops[i].stack] # None /\ i <= rows[ops[i].stack].gen
    /\ \A p \in outbox : OpOf(p[1], p[2])
    /\ \A n \in Names :
            /\ OpOf(n, queue[n]) /\ OpOf(n, Turn(n).op)
            /\ Turn(n).op # None /\ Turn(n).spec # None /\ ops[Turn(n).op].stack = n
                  => Turn(n).op <= Turn(n).spec.gen

Upkeep == {"EnsureTenant", "EnsureVolumeDir", "WriteUnits", "StartService",
           "RestartService", "SyncCaddy"}

Writing(plan) == \E k \in 1 .. Len(plan) : plan[k] = "WriteUnits"

\* What was observed is still there when it is planned for, and what is
\* left of a plan writes the units unless they are right.
CurrentFor(n) ==
    /\ Turn(n).pc \in {"queued", "permit"} /\ Turn(n).obs # None
          => Turn(n).obs.unit = host[n].unit
    /\ Turn(n).pc = "apply" /\ Turn(n).spec # None
          => /\ Turn(n).plan \in Seq(Upkeep)
             /\ host[n].unit = Turn(n).spec.gen \/ Writing(Turn(n).plan)

PlanCurrent == \A n \in Names : CurrentFor(n)

Forsaken(row) == row = None \/ row.status = "deleting" \/ row.observed = 0

\* A stack that is converged as absent was deleted, or has not converged.
Doomed ==
    \A n \in Names :
        /\ runner[Loop] = "observe" /\ snap[Loop][n] = None => Forsaken(rows[n])
        /\ Turn(n).pc \in {"observe", "queued", "permit", "apply"} /\ Turn(n).spec = None
              => Forsaken(rows[n])

LoopInv == SafeInv /\ UnitsNewest /\ OpsLinked /\ PlanCurrent /\ Doomed

-----------------------------------------------------------------------------
LEMMA GenIsNat ==
    /\ Writes \subseteq Nat /\ None \notin Writes /\ 0 .. MaxWrites \subseteq Nat
    /\ \A g \in Gen : g # None => g \in Nat
    /\ \A r \in Row \union {None} : r # None => r \in Row /\ r.gen \in Nat /\ r.gen \in Writes
  BY ReconcilerAssumption DEF Writes, Gen, Row

LEMMA BehindStays ==
    ASSUME NEW s \in Row \union {None}, NEW row \in Row \union {None}, NEW row2 \in Row \union {None},
           NEW unit \in Gen, NEW unit2 \in Gen, NEW w \in 0 .. MaxWrites, NEW w2 \in 0 .. MaxWrites,
           w <= w2, Behind(s, w, row, unit), unit2 \in {unit, None},
           row2 # None => \/ row # None /\ row2.gen = row.gen
                          \/ row2.gen = w2
    PROVE  Behind(s, w2, row2, unit2)
  BY GenIsNat DEF Behind

LEMMA BehindRow ==
    ASSUME NEW row \in Row \union {None}, NEW row2 \in Row \union {None},
           NEW unit \in Gen, NEW unit2 \in Gen, NEW w \in 0 .. MaxWrites, NEW w2 \in 0 .. MaxWrites,
           w <= w2, Behind(row, w, row, unit), unit2 \in {unit, None}, unit # None => unit <= w,
           row2 # None => \/ row # None /\ row2.gen = row.gen
                          \/ row2.gen = w2
    PROVE  Behind(row2, w2, row2, unit2)
  BY GenIsNat DEF Behind

-----------------------------------------------------------------------------
(* What steps do: to rows and operations ...                               *)

RowsMove ==
    \A n \in Names : rows'[n] # None =>
        \/ rows[n] # None /\ rows'[n].gen = rows[n].gen
        \/ rows'[n].gen = writes'

OpsMove ==
    \A i \in Writes :
        /\ ops[i] # None =>
              /\ ops'[i] # None
              /\ \/ ops'[i].stack = None
                 \/ /\ ops'[i].stack = ops[i].stack
                    /\ rows[ops[i].stack] # None => rows'[ops[i].stack] # None
        /\ ops[i] = None /\ ops'[i] # None =>
              i = writes' /\ ops'[i].stack \in Names
              /\ rows'[ops'[i].stack] # None /\ rows'[ops'[i].stack].gen = i

LEMMA CommitMoves ==
    ASSUME LoopInv, NEW n \in Names, NEW row \in Row, row.gen = writes + 1, Commit(n, row)
    PROVE  /\ RowsMove /\ OpsMove /\ writes <= writes' /\ writes' \in Writes
           /\ ops'[writes'].stack = n /\ ops'[writes'] # None
           /\ UNCHANGED <<runner, snap, task, queue>>
<1>1. /\ rows \in [Names -> Row \union {None}] /\ ops \in [Writes -> Operation \union {None}]
      /\ writes \in 0 .. MaxWrites /\ writes + 1 \in Writes /\ writes + 1 > writes
  BY ReconcilerAssumption DEF LoopInv, SafeInv, TypeInv, TypeOK, Writes, Commit
<1>2. /\ writes' = writes + 1
      /\ \A m \in Names : rows'[m] = IF m = n THEN row ELSE rows[m]
      /\ \A i \in Writes : ops'[i] = IF i = writes + 1
                             THEN [status |-> "pending", stack |-> n, old |-> FALSE] ELSE ops[i]
      /\ UNCHANGED <<runner, snap, task, queue>>
  BY <1>1 DEF Commit
<1>3. row # None
  BY StackNoneAssumption
<1>4. [status |-> "pending", stack |-> n, old |-> FALSE] # None
  <2>1. [status |-> "pending", stack |-> n, old |-> FALSE] \in Operation
    BY DEF Operation, OpStatuses
  <2> QED
    BY <2>1, StackNoneAssumption
<1>5. RowsMove
  BY <1>2 DEF RowsMove
<1>6. ops[writes + 1] = None
  BY <1>1, GenIsNat DEF LoopInv, OpsLinked
<1>7. ASSUME NEW i \in Writes, ops[i] # None
      PROVE  ops'[i] = ops[i]
  BY <1>2, <1>6, <1>7
<1>8. ASSUME NEW i \in Writes, ops[i] # None, ops[i].stack # None
      PROVE  rows[ops[i].stack] # None => rows'[ops[i].stack] # None
  <2>1. ops[i] \in Operation
    BY <1>1, <1>8
  <2>2. ops[i].stack \in Names
    BY <1>8, <2>1 DEF Operation
  <2> QED
    BY <1>2, <1>3, <2>2
<1>9. ASSUME NEW i \in Writes, ops[i] = None, ops'[i] # None
      PROVE  /\ i = writes' /\ ops'[i].stack \in Names
             /\ rows'[ops'[i].stack] # None /\ rows'[ops'[i].stack].gen = i
  BY <1>2, <1>3, <1>9
<1>10. OpsMove
  BY <1>7, <1>8, <1>9 DEF OpsMove
<1> QED
  BY <1>1, <1>2, <1>4, <1>5, <1>10

\* A row whose status is written stays a row, of the same generation.
LEMMA RowStays ==
    ASSUME TypeOK, NEW n \in Names, NEW status \in Statuses, rows[n] # None
    PROVE  /\ RowAfter(rows[n], status) \in Row
           /\ RowAfter(rows[n], status) # None
           /\ RowAfter(rows[n], status).gen = rows[n].gen
           /\ RowAfter(rows[n], status).status = status
           /\ status # "ready" => RowAfter(rows[n], status).observed = rows[n].observed
<1>1. rows[n] \in Row /\ status # "absent"
  BY DEF TypeOK, Statuses, ActiveStatuses
<1>2. rows[n].gen \in 0 .. MaxWrites
  BY <1>1, ReconcilerAssumption DEF Row, Writes
<1>3. RowAfter(rows[n], status) = [rows[n] EXCEPT !.status = status,
          !.observed = IF status = "ready" THEN rows[n].gen ELSE rows[n].observed]
  BY <1>1 DEF RowAfter
<1>4. RowAfter(rows[n], status) \in Row
  BY <1>1, <1>2, <1>3 DEF Row
<1>5. RowAfter(rows[n], status) # None
  BY <1>4, StackNoneAssumption
<1> QED
  BY <1>1, <1>3, <1>4, <1>5 DEF Row

LEMMA WithStatusStays ==
    ASSUME NEW o \in Operation, NEW status \in OpStatuses
    PROVE  WithStatus(o, status) \in Operation /\ WithStatus(o, status) # None
           /\ WithStatus(o, status).stack = o.stack
<1>1. o # None
  BY StackNoneAssumption
<1>2. WithStatus(o, status) \in Operation /\ WithStatus(o, status).stack = o.stack
  BY <1>1 DEF WithStatus, Operation
<1> QED
  BY <1>2, StackNoneAssumption

LEMMA UnlinkedStays ==
    ASSUME NEW o \in Operation, NEW n \in Names
    PROVE  Unlinked(o, n) \in Operation /\ Unlinked(o, n) # None
           /\ Unlinked(o, n).stack = IF o.stack = n THEN None ELSE o.stack
<1>1. o # None
  BY StackNoneAssumption
<1>2. Unlinked(o, n) \in Operation
      /\ Unlinked(o, n).stack = IF o.stack = n THEN None ELSE o.stack
  BY <1>1 DEF Unlinked, Operation
<1> QED
  BY <1>2, StackNoneAssumption

LEMMA ReapedStays ==
    ASSUME NEW o \in Operation
    PROVE  Reaped(o) \in Operation /\ Reaped(o) # None /\ Reaped(o).stack = o.stack
<1>1. Reaped(o) \in Operation /\ Reaped(o).stack = o.stack
  BY DEF Reaped, Operation, OpStatuses
<1> QED
  BY <1>1, StackNoneAssumption

LEMMA ConcludeMoves ==
    ASSUME LoopInv, NEW n \in Names, NEW i, NEW opStatus \in OpStatuses,
           NEW status \in Statuses \union {"absent"},
           Conclude(n, i, opStatus, status), UNCHANGED writes
    PROVE  /\ RowsMove /\ OpsMove
           /\ \A m \in Names : m # n => rows'[m] = rows[m]
           /\ rows'[n] = RowAfter(rows[n], status)
           /\ \A j \in Writes : ops'[j] # None =>
                 /\ ops[j] # None
                 /\ j # i => ops'[j].status = ops[j].status
<1>1. /\ TypeOK /\ rows \in [Names -> Row \union {None}]
      /\ ops \in [Writes -> Operation \union {None}]
  BY DEF LoopInv, SafeInv, TypeInv, TypeOK
<1>2. \A m \in Names : rows'[m] = IF m = n THEN RowAfter(rows[n], status) ELSE rows[m]
  BY <1>1 DEF Conclude
<1>3. status = "absent" \/ rows[n] = None => rows'[n] = None
  BY <1>2 DEF RowAfter
<1>4. status # "absent" /\ rows[n] # None => rows'[n] # None /\ rows'[n].gen = rows[n].gen
  BY <1>1, <1>2, RowStays
<1>5. RowsMove
  BY <1>2, <1>3, <1>4 DEF RowsMove
<1>6. ASSUME NEW j \in Writes, ops[j] = None PROVE ops'[j] = None
  BY <1>6 DEF Conclude, OpsWith, WithStatus, Unlinked
<1>7. ASSUME NEW j \in Writes, ops[j] # None
      PROVE  /\ ops'[j] # None
             /\ \/ ops'[j].stack = None
                \/ /\ ops'[j].stack = ops[j].stack
                   /\ rows[ops[j].stack] # None => rows'[ops[j].stack] # None
             /\ j # i => ops'[j].status = ops[j].status
  <2> DEFINE o == OpsWith(i, opStatus)[j]
  <2>1. ops[j] \in Operation
    BY <1>1, <1>7
  <2>2. o \in Operation /\ o # None /\ o.stack = ops[j].stack /\ (j # i => o = ops[j])
    BY <1>7, <2>1, WithStatusStays DEF OpsWith
  <2>3. ops'[j] = IF status = "absent" /\ rows[n] # None THEN Unlinked(o, n) ELSE o
    BY DEF Conclude
  <2> HIDE DEF o
  <2>4. ops[j].stack = None \/ ops[j].stack \in Names
    BY <2>1 DEF Operation
  <2>5. CASE status = "absent" /\ rows[n] # None
    <3>1. Unlinked(o, n).status = o.status
      BY <2>2 DEF Unlinked, Operation
    <3> QED
      BY <1>2, <2>2, <2>3, <2>4, <2>5, <3>1, UnlinkedStays
  <2>6. CASE ~(status = "absent" /\ rows[n] # None)
    BY <1>2, <1>4, <2>2, <2>3, <2>4, <2>6
  <2> QED
    BY <2>5, <2>6
<1>8. OpsMove
  BY <1>6, <1>7 DEF OpsMove
<1> QED
  BY <1>2, <1>5, <1>6, <1>7, <1>8

-----------------------------------------------------------------------------
(* ... to what a task works from ...                                       *)

Still == UNCHANGED <<rows, ops, writes, host>>
Idle == {"off", "load"}

\* Where a task has its spec and its operation from.
Origin(n) ==
    \/ Turn(n)'.pc \in Idle /\ Turn(n)'.spec = None /\ Turn(n)'.op \in {None, queue[n]}
    \/ /\ Turn(n)'.spec = Turn(n).spec /\ Turn(n)'.op = Turn(n).op
       /\ Turn(n)'.pc \in Idle <=> Turn(n).pc \in Idle
    \/ Turn(n)'.spec = Desired(n) /\ Turn(n)'.op = Turn(n).op /\ Still
    \/ /\ Turn(n)'.spec = snap[Loop][n] /\ Turn(n)'.op = None /\ Still
       /\ runner[Loop] = "observe"

\* What a cycle has loaded, the units of a stack, and its place in the queue.
SnapMoves(n) ==
    \/ runner'[Loop] # "observe" /\ snap'[Loop][n] = None
    \/ runner'[Loop] = runner[Loop] /\ snap'[Loop][n] = snap[Loop][n]
    \/ runner'[Loop] = "observe" /\ snap'[Loop][n] = Desired(n) /\ UNCHANGED <<rows, writes, host>>

UnitMoves(n) ==
    \/ host'[n].unit \in {None, host[n].unit}
    \/ /\ Turn(n).pc = "apply" /\ Turn(n).spec # None /\ Turn(n)'.spec = Turn(n).spec
       /\ host'[n].unit = Turn(n).spec.gen /\ UNCHANGED <<rows, writes, runner, snap>>

Known(n, i) == i # None => ops'[i] # None /\ ops'[i].stack \in {n, None}

QueueMoves(n) == queue'[n] = queue[n] \/ <<n, queue'[n]>> \in outbox \/ Known(n, queue'[n])
OutboxMoves == \A p \in outbox' : p \in outbox \/ Known(p[1], p[2])

\* A stack is given up unless a task of its own ends.
GivenUp(n) ==
    Forsaken(rows[n]) =>
        Forsaken(rows'[n]) \/ (Turn(n).pc # "off" /\ Turn(n)'.pc = "off")

Moves ==
    /\ RowsMove /\ OpsMove /\ OutboxMoves /\ writes <= writes'
    /\ \A n \in Names : Origin(n) /\ SnapMoves(n) /\ UnitMoves(n) /\ QueueMoves(n)
                        /\ GivenUp(n) /\ CurrentFor(n)'

\* A step that leaves the run, a task and its units alone.
LEMMA BesideTheTask ==
    ASSUME LoopInv, UNCHANGED <<runner, snap>>, NEW n \in Names, UNCHANGED Turn(n),
           host'[n].unit = host[n].unit
    PROVE  Origin(n) /\ SnapMoves(n) /\ UnitMoves(n) /\ CurrentFor(n)'
  BY DEF LoopInv, PlanCurrent, CurrentFor, Origin, SnapMoves, UnitMoves, Turn

LEMMA BesideTheLoop ==
    ASSUME LoopInv, UNCHANGED <<runner, snap, task>>, NEW n \in Names,
           host'[n].unit = host[n].unit
    PROVE  Origin(n) /\ SnapMoves(n) /\ UnitMoves(n) /\ CurrentFor(n)'
  BY BesideTheTask DEF Turn

LEMMA SameRows ==
    ASSUME LoopInv, UNCHANGED rows
    PROVE  RowsMove /\ \A n \in Names : GivenUp(n)
  BY DEF RowsMove, GivenUp

LEMMA SameOps ==
    ASSUME LoopInv, UNCHANGED <<rows, ops>>
    PROVE  OpsMove
  BY DEF OpsMove

LEMMA CommitKeeps ==
    ASSUME LoopInv, NEW n \in Names, NEW row \in Row, row.gen = writes + 1, Commit(n, row),
           Forsaken(rows[n]) => Forsaken(row),
           \A m \in Names : host'[m].unit = host[m].unit,
           outbox' \in {outbox, outbox \union {<<n, writes + 1>>}}
    PROVE  Moves
<1>1. /\ RowsMove /\ OpsMove /\ writes <= writes' /\ writes' = writes + 1
      /\ ops'[writes'] # None /\ ops'[writes'].stack = n
      /\ UNCHANGED <<runner, snap, task, queue>>
  BY CommitMoves DEF Commit
<1>2. rows \in [Names -> Row \union {None}]
  BY DEF LoopInv, SafeInv, TypeInv, TypeOK
<1>3. OutboxMoves
  BY <1>1 DEF OutboxMoves, Known
<1>4. ASSUME NEW m \in Names PROVE GivenUp(m) /\ QueueMoves(m)
  BY <1>1, <1>2 DEF GivenUp, QueueMoves, Commit
<1>5. \A m \in Names : Origin(m) /\ SnapMoves(m) /\ UnitMoves(m) /\ CurrentFor(m)'
  BY <1>1, BesideTheLoop
<1> QED
  BY <1>1, <1>3, <1>4, <1>5 DEF Moves

LEMMA ApiMoves ==
    ASSUME LoopInv, Api
    PROVE  Moves
<1>0. /\ rows \in [Names -> Row \union {None}] /\ writes \in 0 .. MaxWrites
      /\ host \in [Names -> HostStack] /\ outbox \subseteq Names \X Writes
      /\ queue \in [Names -> Gen]
  BY DEF LoopInv, SafeInv, TypeInv, TypeOK
<1>1. ASSUME NEW n \in Names, CreateStack(n) PROVE Moves
  <2> DEFINE row == [id |-> writes + 1, status |-> "converging", gen |-> writes + 1, observed |-> 0]
  <2>1. writes + 1 \in Writes /\ 0 \in 0 .. MaxWrites
    BY <1>0, <1>1, ReconcilerAssumption DEF CreateStack, Commit, Writes
  <2>2. row \in Row /\ row.gen = writes + 1 /\ row.observed = 0
    BY <2>1 DEF Row, Statuses, ActiveStatuses
  <2>3. Commit(n, row) /\ outbox' = outbox \union {<<n, writes + 1>>} /\ UNCHANGED host
    BY <1>1 DEF CreateStack
  <2> HIDE DEF row
  <2> QED
    BY <2>2, <2>3, CommitKeeps DEF Forsaken
<1>2. ASSUME NEW n \in Names, UpdateStack(n) PROVE Moves
  <2> DEFINE row == [rows[n] EXCEPT !.gen = writes + 1]
  <2>1. writes + 1 \in Writes /\ rows[n] \in Row
    BY <1>0, <1>2, ReconcilerAssumption DEF UpdateStack, Commit, Writes
  <2>2. /\ row \in Row /\ row.gen = writes + 1
        /\ row.status = rows[n].status /\ row.observed = rows[n].observed
    BY <2>1 DEF Row
  <2>3. Commit(n, row) /\ outbox' = outbox \union {<<n, writes + 1>>} /\ UNCHANGED host /\ rows[n] # None
    BY <1>2 DEF UpdateStack
  <2> HIDE DEF row
  <2> QED
    BY <2>2, <2>3, CommitKeeps DEF Forsaken
<1>3. ASSUME NEW n \in Names, DeleteStack(n) PROVE Moves
  <2> DEFINE row == [rows[n] EXCEPT !.status = "deleting", !.gen = writes + 1]
  <2>1. writes + 1 \in Writes /\ rows[n] \in Row
    BY <1>0, <1>3, ReconcilerAssumption DEF DeleteStack, Commit, Writes
  <2>2. row \in Row /\ row.gen = writes + 1 /\ row.status = "deleting"
    BY <2>1 DEF Row, Statuses
  <2>3. Commit(n, row) /\ outbox' = outbox \union {<<n, writes + 1>>} /\ UNCHANGED host
    BY <1>3 DEF DeleteStack
  <2> HIDE DEF row
  <2> QED
    BY <2>2, <2>3, CommitKeeps DEF Forsaken
<1>4. ASSUME NEW n \in Names, RollbackToImage(n) PROVE Moves
  <2> DEFINE row == [rows[n] EXCEPT !.gen = writes + 1]
  <2>1. writes + 1 \in Writes /\ rows[n] \in Row
    BY <1>0, <1>4, ReconcilerAssumption DEF RollbackToImage, Commit, Writes
  <2>2. /\ row \in Row /\ row.gen = writes + 1
        /\ row.status = rows[n].status /\ row.observed = rows[n].observed
    BY <2>1 DEF Row
  <2>3. Commit(n, row) /\ outbox' = outbox /\ rows[n] # None
    BY <1>4 DEF RollbackToImage
  <2>4. \A m \in Names : host'[m].unit = host[m].unit
    BY <1>0, <1>4 DEF RollbackToImage, HostStack
  <2> HIDE DEF row
  <2> QED
    BY <2>2, <2>3, <2>4, CommitKeeps DEF Forsaken
<1>5. ASSUME NEW n \in Names, NEW i \in Writes, Enqueue(n, i) PROVE Moves
  <2>1. UNCHANGED <<rows, ops, writes, host, runner, snap, task>>
    BY <1>5 DEF Enqueue, hostVars
  <2>2. OutboxMoves /\ \A m \in Names : QueueMoves(m)
    BY <1>0, <1>5 DEF Enqueue, OutboxMoves, QueueMoves
  <2>3. writes <= writes'
    BY <1>0, <2>1, ReconcilerAssumption
  <2>4. \A m \in Names : Origin(m) /\ SnapMoves(m) /\ UnitMoves(m) /\ CurrentFor(m)'
    BY <2>1, BesideTheLoop
  <2> QED
    BY <2>1, <2>2, <2>3, <2>4, SameRows, SameOps DEF Moves
<1> QED
  BY <1>1, <1>2, <1>3, <1>4, <1>5 DEF Api

LEMMA AgeMoves ==
    ASSUME LoopInv, NEW i \in Writes, Age(i)
    PROVE  Moves
<1>1. UNCHANGED <<rows, writes, outbox, queue, host, runner, snap, task>>
  BY DEF Age, apiVars, hostVars
<1>2. ops \in [Writes -> Operation \union {None}] /\ writes \in 0 .. MaxWrites /\ ops[i] # None
  BY DEF LoopInv, SafeInv, TypeInv, TypeOK, Age
<1>3. ASSUME NEW j \in Writes
      PROVE  /\ ops[j] # None => ops'[j] # None /\ ops'[j].stack = ops[j].stack
             /\ ops[j] = None => ops'[j] = None
  <2>1. CASE j # i
    BY <1>2, <2>1 DEF Age
  <2>2. CASE j = i
    <3>1. ops[i] \in Operation /\ ops'[i] = [ops[i] EXCEPT !.old = TRUE]
      BY <1>2 DEF Age
    <3>2. ops'[i] \in Operation /\ ops'[i].stack = ops[i].stack
      BY <3>1 DEF Operation
    <3> QED
      BY <1>2, <2>2, <3>2, StackNoneAssumption
  <2> QED
    BY <2>1, <2>2
<1>4. OpsMove
  BY <1>1, <1>3 DEF OpsMove
<1>5. writes <= writes' /\ OutboxMoves /\ \A m \in Names : QueueMoves(m)
  BY <1>1, <1>2, ReconcilerAssumption DEF OutboxMoves, QueueMoves
<1>6. \A m \in Names : Origin(m) /\ SnapMoves(m) /\ UnitMoves(m) /\ CurrentFor(m)'
  BY <1>1, BesideTheLoop
<1> QED
  BY <1>1, <1>4, <1>5, <1>6, SameRows DEF Moves

LEMMA ObservedUnit ==
    ASSUME NEW n \in Names, NEW blind, Observed(n, blind) # None
    PROVE  Observed(n, blind).unit = host[n].unit
  BY DEF Observed

LEMMA ReapingMoves ==
    ASSUME LoopInv, ops' = [i \in Writes |-> Reaped(ops[i])], UNCHANGED rows
    PROVE  /\ OpsMove
           /\ \A n \in Names : \A i \in PendingOf(n) : Known(n, i)
<1>1. ops \in [Writes -> Operation \union {None}]
  BY DEF LoopInv, SafeInv, TypeInv, TypeOK
<1>2. ASSUME NEW j \in Writes
      PROVE  /\ ops[j] # None => ops'[j] # None /\ ops'[j].stack = ops[j].stack
             /\ ops[j] = None => ops'[j] = None
  <2>1. CASE ops[j] = None
    BY <2>1 DEF Reaped
  <2>2. CASE ops[j] # None
    BY <1>1, <2>2, ReapedStays
  <2> QED
    BY <2>1, <2>2
<1> QED
  BY <1>2 DEF OpsMove, PendingOf, Known

\* A cycle has loaded rows only while it observes, and no tasks then.
LEMMA LoopRuns ==
    ASSUME LoopInv, NEW n \in Names
    PROVE  /\ runner[Loop] # "observe" => snap[Loop][n] = None
           /\ runner[Loop] \notin {"drain", "gather"} => Turn(n).pc = "off"
           /\ writes <= writes /\ Loop \in Runners
           /\ task \in [Runners -> [Names -> Task]]
           /\ snap \in [Runners -> [Names -> Row \union {None}]]
           /\ runner \in [Runners -> RunnerPc]
<1>1. TypeOK /\ Quiet /\ UnitsNewest /\ Loop \in Runners
  BY DEF LoopInv, SafeInv, TypeInv, Runners
<1>2. runner[Loop] \notin {"drain", "gather"} => Turn(n).pc = "off"
  BY <1>1 DEF Quiet, AllOff, Turn
<1>3. writes <= writes
  BY <1>1, ReconcilerAssumption DEF TypeOK
<1> QED
  BY <1>1, <1>2, <1>3 DEF UnitsNewest, TypeOK

LEMMA NoTaskIs == NoTask.pc = "off" /\ NoTask.spec = None /\ NoTask.op = None
  BY DEF NoTask

LEMMA LoadTaskIs ==
    ASSUME NEW i, NEW t, t = [NoTask EXCEPT !.pc = "load", !.op = i]
    PROVE  t.pc = "load" /\ t.spec = None /\ t.op = i
  BY DEF NoTask

LEMMA RunMoves ==
    ASSUME LoopInv, Run(Loop)
    PROVE  Moves
<1>0. ASSUME NEW n \in Names
      PROVE  /\ runner[Loop] # "observe" => snap[Loop][n] = None
             /\ runner[Loop] \notin {"drain", "gather"} => Turn(n).pc = "off"
             /\ Turn(n) = task[Loop][n]
  BY LoopRuns DEF Turn
<1>1. /\ writes <= writes /\ Loop \in Runners
      /\ task \in [Runners -> [Names -> Task]]
      /\ snap \in [Runners -> [Names -> Row \union {None}]]
      /\ runner \in [Runners -> RunnerPc]
  BY DEF LoopInv, SafeInv, TypeInv, TypeOK, Runners
<1>2. CASE Recover
  <2>1. /\ runner[Loop] = "recover" /\ runner'[Loop] = "idle"
        /\ UNCHANGED <<rows, writes, outbox, host, snap, task>>
    BY <1>1, <1>2 DEF Recover, Goto, apiVars, hostVars
  <2>2. OpsMove /\ \A n \in Names : \A i \in PendingOf(n) : Known(n, i)
    BY <1>2, <2>1, ReapingMoves DEF Recover
  <2>3. ASSUME NEW n \in Names PROVE QueueMoves(n)
    BY <1>2, <2>2 DEF Recover, QueueMoves
  <2>4. ASSUME NEW n \in Names PROVE Origin(n) /\ SnapMoves(n) /\ UnitMoves(n) /\ CurrentFor(n)'
    BY <1>0, <2>1 DEF LoopInv, PlanCurrent, CurrentFor, Origin, SnapMoves, UnitMoves, Turn
  <2> QED
    BY <1>1, <2>1, <2>2, <2>3, <2>4, SameRows DEF Moves, OutboxMoves
<1>3. CASE StartDrain
  <2>1. /\ runner[Loop] = "idle" /\ runner'[Loop] = "drain" /\ queue' = NothingLoaded
        /\ UNCHANGED <<rows, ops, writes, outbox, host, snap>>
    BY <1>1, <1>3 DEF StartDrain, Goto, apiVars, hostVars
  <2>2. ASSUME NEW n \in Names
        PROVE  Turn(n)' = IF queue[n] = None THEN NoTask
                          ELSE [NoTask EXCEPT !.pc = "load", !.op = queue[n]]
    BY <1>1, <1>3 DEF StartDrain, Turn
  <2>3. ASSUME NEW n \in Names
        PROVE  Turn(n)'.pc \in Idle /\ Turn(n)'.spec = None /\ Turn(n)'.op \in {None, queue[n]}
    <3>1. CASE queue[n] = None
      BY <2>2, <3>1, NoTaskIs DEF Idle
    <3>2. CASE queue[n] # None
      <4>1. Turn(n)' = [NoTask EXCEPT !.pc = "load", !.op = queue[n]]
        BY <2>2, <3>2
      <4>2. Turn(n)'.pc = "load" /\ Turn(n)'.spec = None /\ Turn(n)'.op = queue[n]
        BY <4>1, LoadTaskIs, Zenon
      <4> QED
        BY <4>2 DEF Idle
    <3> QED
      BY <3>1, <3>2
  <2>4. ASSUME NEW n \in Names
        PROVE  Origin(n) /\ SnapMoves(n) /\ UnitMoves(n) /\ CurrentFor(n)' /\ QueueMoves(n)
    BY <1>0, <2>1, <2>3
       DEF CurrentFor, Origin, SnapMoves, UnitMoves, QueueMoves, Known, NothingLoaded, Idle
  <2> QED
    BY <1>1, <2>1, <2>4, SameRows, SameOps DEF Moves, OutboxMoves
<1>4. CASE StartCycle(Loop)
  <2>1. /\ runner[Loop] = "drain" /\ runner'[Loop] = "observe" /\ AllOff(Loop)
        /\ UNCHANGED <<rows, writes, outbox, queue, host, task>>
    BY <1>1, <1>4 DEF StartCycle, Goto, Cycle, apiVars, hostVars
  <2>2. ASSUME NEW n \in Names PROVE snap'[Loop][n] = Desired(n)
    BY <1>1, <1>4 DEF StartCycle, DesiredRows
  <2>3. OpsMove
    BY <1>4, <2>1, ReapingMoves DEF StartCycle
  <2>4. ASSUME NEW n \in Names
        PROVE  Origin(n) /\ SnapMoves(n) /\ UnitMoves(n) /\ CurrentFor(n)' /\ QueueMoves(n)
    BY <2>1, <2>2 DEF LoopInv, PlanCurrent, CurrentFor, Origin, SnapMoves, UnitMoves, Turn, QueueMoves
  <2> QED
    BY <1>1, <2>1, <2>3, <2>4, SameRows DEF Moves, OutboxMoves
<1>5. ASSUME NEW blind \in SUBSET Tenants, Observe(Loop, blind) PROVE Moves
  <2>1. /\ runner[Loop] = "observe" /\ runner'[Loop] = "gather"
        /\ UNCHANGED <<rows, ops, writes, outbox, queue, host>>
    BY <1>1, <1>5 DEF Observe, Goto, apiVars, hostVars
  <2>2. ASSUME NEW n \in Names PROVE snap'[Loop][n] = None
    BY <1>1, <1>5 DEF Observe, NothingLoaded
  <2>3. ASSUME NEW n \in Names
        PROVE  Turn(n)' = IF snap[Loop][n] = None /\ Observed(n, blind) = None THEN NoTask
                          ELSE [NoTask EXCEPT !.pc = "queued", !.spec = snap[Loop][n],
                                   !.obs = Observed(n, blind), !.used = TenantsIn(snap[Loop])]
    BY <1>1, <1>5 DEF Observe, Turn
  <2>4. ASSUME NEW n \in Names
        PROVE  \/ Turn(n)'.pc = "off" /\ Turn(n)'.spec = None /\ Turn(n)'.op = None
               \/ /\ Turn(n)'.pc = "queued" /\ Turn(n)'.spec = snap[Loop][n]
                  /\ Turn(n)'.obs = Observed(n, blind) /\ Turn(n)'.op = None
    <3>1. CASE snap[Loop][n] = None /\ Observed(n, blind) = None
      BY <2>3, <3>1, NoTaskIs
    <3>2. CASE ~(snap[Loop][n] = None /\ Observed(n, blind) = None)
      <4> DEFINE s == snap[Loop][n]
                 o == Observed(n, blind)
                 u == TenantsIn(snap[Loop])
                 t == Turn(n)'
      <4>1. t = [NoTask EXCEPT !.pc = "queued", !.spec = s, !.obs = o, !.used = u]
        BY <2>3, <3>2
      <4> HIDE DEF s, o, u, t
      <4>2. t.pc = "queued" /\ t.spec = s /\ t.obs = o /\ t.op = None
        BY <4>1 DEF NoTask
      <4> QED
        BY <4>2 DEF s, o, t
    <3> QED
      BY <3>1, <3>2
  <2>5. ASSUME NEW n \in Names
        PROVE  Origin(n) /\ SnapMoves(n) /\ UnitMoves(n) /\ QueueMoves(n)
    BY <2>1, <2>2, <2>4 DEF Origin, SnapMoves, UnitMoves, QueueMoves, Idle, Still
  <2>6. ASSUME NEW n \in Names PROVE CurrentFor(n)'
    BY <2>1, <2>4, ObservedUnit DEF CurrentFor
  <2> QED
    BY <1>1, <2>1, <2>5, <2>6, SameRows, SameOps DEF Moves, OutboxMoves
<1>6. CASE RunnerDone(Loop)
  <2>1. /\ runner[Loop] = "gather" /\ runner'[Loop] = "idle"
        /\ UNCHANGED <<rows, ops, writes, outbox, queue, host, task, snap>>
    BY <1>1, <1>6 DEF RunnerDone, Goto, apiVars, hostVars
  <2>2. ASSUME NEW n \in Names
        PROVE  Origin(n) /\ SnapMoves(n) /\ UnitMoves(n) /\ CurrentFor(n)' /\ QueueMoves(n)
    BY <1>0, <2>1 DEF LoopInv, PlanCurrent, CurrentFor, Origin, SnapMoves, UnitMoves, Turn, QueueMoves
  <2> QED
    BY <1>1, <2>1, <2>2, SameRows, SameOps DEF Moves, OutboxMoves
<1> QED
  BY <1>2, <1>3, <1>4, <1>5, <1>6 DEF Run

LEMMA CrashMoves ==
    ASSUME LoopInv, Crash
    PROVE  Moves
<1>1. /\ writes <= writes /\ Loop \in Runners
  BY ReconcilerAssumption DEF LoopInv, SafeInv, TypeInv, TypeOK, Runners
<1>2. /\ runner'[Loop] = "recover" /\ outbox' = {} /\ queue' = NothingLoaded
      /\ UNCHANGED <<rows, ops, writes, host>>
  BY <1>1 DEF Crash, hostVars
<1>3. ASSUME NEW n \in Names
      PROVE  snap'[Loop][n] = None /\ Turn(n)' = NoTask
  BY <1>1 DEF Crash, NothingLoaded, Turn
<1>4. ASSUME NEW n \in Names
      PROVE  Origin(n) /\ SnapMoves(n) /\ UnitMoves(n) /\ CurrentFor(n)' /\ QueueMoves(n)
  BY <1>2, <1>3, NoTaskIs
     DEF CurrentFor, Origin, SnapMoves, UnitMoves, QueueMoves, Known, NothingLoaded, Idle
<1> QED
  BY <1>1, <1>2, <1>4, SameRows, SameOps DEF Moves, OutboxMoves

-----------------------------------------------------------------------------
(* Plans, and the steps of a task.                                         *)

LEMMA WritingJoin ==
    ASSUME NEW S, NEW p \in Seq(S), NEW q \in Seq(S), Writing(p) \/ Writing(q)
    PROVE  Writing(p \o q)
<1> DEFINE r == p \o q
<1>1. /\ Len(r) = Len(p) + Len(q) /\ Len(p) \in Nat /\ Len(q) \in Nat
      /\ \A k \in 1 .. Len(p) : r[k] = p[k]
      /\ \A k \in 1 .. Len(q) : r[Len(p) + k] = q[k]
  BY ConcatProperties
<1> HIDE DEF r
<1>2. CASE Writing(p)
  <2>1. PICK k \in 1 .. Len(p) : p[k] = "WriteUnits"
    BY <1>2 DEF Writing
  <2>2. k \in 1 .. Len(r) /\ r[k] = "WriteUnits"
    BY <1>1, <2>1
  <2> QED
    BY <2>2 DEF Writing, r
<1>3. CASE Writing(q)
  <2>1. PICK k \in 1 .. Len(q) : q[k] = "WriteUnits"
    BY <1>3 DEF Writing
  <2>2. Len(p) + k \in 1 .. Len(r) /\ r[Len(p) + k] = "WriteUnits"
    BY <1>1, <2>1
  <2> QED
    BY <2>2 DEF Writing, r
<1> QED
  BY <1>2, <1>3

\* A plan for a row keeps the stack up, and writes its units unless they
\* were observed to be those of the row.
LEMMA UpkeepPlan ==
    ASSUME NEW spec \in Row, NEW obs \in Observation \union {None}
    PROVE  /\ Plan(spec, obs) \in Seq(Upkeep)
           /\ Writing(Plan(spec, obs)) \/ (obs # None /\ obs.unit = spec.gen)
<1> DEFINE seen == IF obs = None
                   THEN [unit |-> None, active |-> FALSE, vol |-> FALSE] ELSE obs
           stale == Stale(seen.unit, spec.gen)
           a == Only(obs = None, "EnsureTenant")
           b == Only(~seen.vol, "EnsureVolumeDir")
           c == Only(stale, "WriteUnits")
           d == Only(seen.active /\ stale, "RestartService")
           e == Only(~seen.active, "StartService")
           actions == a \o b \o c \o d \o e
           f == Only(actions # <<>>, "SyncCaddy")
<1>1. /\ "EnsureTenant" \in Upkeep /\ "EnsureVolumeDir" \in Upkeep
      /\ "WriteUnits" \in Upkeep /\ "RestartService" \in Upkeep
      /\ "StartService" \in Upkeep /\ "SyncCaddy" \in Upkeep
  BY DEF Upkeep
<1>2. spec # None
  BY StackNoneAssumption
<1>3. Plan(spec, obs) = actions \o f
  BY <1>2 DEF Plan, PlanConverge
<1>4. /\ a \in Seq(Upkeep) /\ b \in Seq(Upkeep) /\ c \in Seq(Upkeep) /\ d \in Seq(Upkeep)
      /\ e \in Seq(Upkeep) /\ f \in Seq(Upkeep)
  BY <1>1 DEF Only
<1>5. CASE stale
  <2>1. c = << "WriteUnits" >>
    BY <1>5 DEF Only
  <2>2. Writing(c)
    BY <2>1 DEF Writing
  <2> HIDE DEF a, b, c, d, e, f
  <2> DEFINE p == a \o b
             q == p \o c
             r == q \o d
             s == r \o e
  <2>3. p \in Seq(Upkeep)
    BY <1>4
  <2> HIDE DEF p
  <2>4. q \in Seq(Upkeep) /\ Writing(q)
    BY <1>4, <2>2, <2>3, WritingJoin
  <2> HIDE DEF q
  <2>5. r \in Seq(Upkeep) /\ Writing(r)
    BY <1>4, <2>4, WritingJoin
  <2> HIDE DEF r
  <2>6. s \in Seq(Upkeep) /\ Writing(s)
    BY <1>4, <2>5, WritingJoin
  <2> HIDE DEF s
  <2>7. s \o f \in Seq(Upkeep) /\ Writing(s \o f)
    BY <1>4, <2>6, WritingJoin
  <2>8. s = actions
    BY DEF p, q, r, s
  <2> QED
    BY <1>3, <2>7, <2>8
<1>6. CASE ~stale
  <2>1. obs # None /\ obs.unit = spec.gen
    BY <1>2, <1>6, GenIsNat DEF Stale
  <2> HIDE DEF a, b, c, d, e, f
  <2>2. actions \o f \in Seq(Upkeep)
    BY <1>4
  <2> QED
    BY <1>3, <2>1, <2>2
<1> QED
  BY <1>5, <1>6

LEMMA TurnSet ==
    ASSUME LoopInv, NEW n \in Names, NEW t, SetTask(Loop, n, t)
    PROVE  Turn(n)' = t /\ \A m \in Names : m # n => Turn(m)' = Turn(m)
<1>1. TypeOK /\ Loop \in Runners
  BY DEF LoopInv, SafeInv, TypeInv, Runners
<1> QED
  BY <1>1, SetTaskFrame DEF Turn

\* A step of a task that concerns nothing else.
LEMMA TaskMoves ==
    ASSUME LoopInv, NEW n \in Names, NEW t, SetTask(Loop, n, t),
           UNCHANGED <<rows, ops, writes, outbox, queue, host, runner, snap>>,
           Origin(n), CurrentFor(n)'
    PROVE  Moves
<1>1. \A m \in Names : m # n => Turn(m)' = Turn(m)
  BY TurnSet
<1>2. writes <= writes
  BY ReconcilerAssumption DEF LoopInv, SafeInv, TypeInv, TypeOK
<1>3. ASSUME NEW m \in Names PROVE SnapMoves(m) /\ UnitMoves(m) /\ QueueMoves(m)
  BY DEF SnapMoves, UnitMoves, QueueMoves
<1>4. ASSUME NEW m \in Names PROVE Origin(m) /\ CurrentFor(m)'
  BY <1>1, BesideTheTask
<1> QED
  BY <1>2, <1>3, <1>4, SameRows, SameOps DEF Moves, OutboxMoves

LEMMA EndMoves ==
    ASSUME LoopInv, NEW n \in Names, NEW i, NEW opStatus \in OpStatuses,
           NEW status \in Statuses \union {"absent"},
           Conclude(n, i, opStatus, status), SetTask(Loop, n, NoTask), Turn(n).pc # "off",
           UNCHANGED <<writes, outbox, queue, host, runner, snap>>
    PROVE  Moves
<1>1. Turn(n)' = NoTask /\ \A m \in Names : m # n => Turn(m)' = Turn(m)
  BY TurnSet
<1>2. writes <= writes
  BY ReconcilerAssumption DEF LoopInv, SafeInv, TypeInv, TypeOK
<1>3. RowsMove /\ OpsMove /\ \A m \in Names : m # n => rows'[m] = rows[m]
  BY ConcludeMoves
<1>4. ASSUME NEW m \in Names PROVE SnapMoves(m) /\ UnitMoves(m) /\ QueueMoves(m)
  BY DEF SnapMoves, UnitMoves, QueueMoves
<1>5. ASSUME NEW m \in Names PROVE GivenUp(m)
  BY <1>1, <1>3, NoTaskIs DEF GivenUp
<1>6. Origin(n) /\ CurrentFor(n)'
  BY <1>1, NoTaskIs DEF Origin, Idle, CurrentFor
<1>7. ASSUME NEW m \in Names, m # n PROVE Origin(m) /\ CurrentFor(m)'
  BY <1>1, <1>7, BesideTheTask
<1> QED
  BY <1>2, <1>3, <1>4, <1>5, <1>6, <1>7 DEF Moves, OutboxMoves

\* The fields of a task, and the host, while a step is taken.
LEMMA TurnFields ==
    ASSUME LoopInv, NEW n \in Names
    PROVE  /\ Turn(n) = task[Loop][n] /\ Turn(n) \in Task /\ host[n] \in HostStack
           /\ Turn(n).spec \in Row \union {None} /\ Turn(n).obs \in Observation \union {None}
           /\ Turn(n).plan \in Seq(Actions) /\ Turn(n).op \in Gen
           /\ Turn(n).pc = "apply" /\ Turn(n).spec = None
                 => Turn(n).plan \in Seq(Actions \ {"WriteUnits"})
           /\ CurrentFor(n) /\ Loop \in Runners
<1>1. TypeInv /\ Loop \in Runners /\ CurrentFor(n)
  BY DEF LoopInv, SafeInv, Runners, PlanCurrent
<1> QED
  BY <1>1, TaskFields DEF Turn, TypeInv, TypeOK

LEMMA LoadMoves ==
    ASSUME LoopInv, NEW n \in Names, TaskLoad(Loop, n)
    PROVE  Moves
<1> DEFINE t == [Turn(n) EXCEPT !.pc = "observe", !.spec = Desired(n), !.used = TenantsIn(DesiredRows)]
<1>1. SetTask(Loop, n, t) /\ UNCHANGED <<rows, ops, writes, outbox, queue, host, runner, snap>>
  BY DEF TaskLoad, Turn, apiVars, hostVars
<1>2. t.pc = "observe" /\ t.spec = Desired(n) /\ t.op = Turn(n).op
  BY TurnFields DEF Task
<1> HIDE DEF t
<1>3. Origin(n) /\ CurrentFor(n)'
  BY <1>1, <1>2, TurnSet DEF Origin, CurrentFor, Still
<1> QED
  BY <1>1, <1>3, TaskMoves

LEMMA ObserveMoves ==
    ASSUME LoopInv, NEW n \in Names, NEW blind, TaskObserve(Loop, n, blind)
    PROVE  Moves
<1> DEFINE t == [Turn(n) EXCEPT !.pc = "queued", !.obs = Observed(n, blind)]
<1>1. SetTask(Loop, n, t) /\ UNCHANGED <<rows, ops, writes, outbox, queue, host, runner, snap>>
      /\ Turn(n).pc = "observe"
  BY DEF TaskObserve, Turn, apiVars, hostVars
<1>2. t.pc = "queued" /\ t.spec = Turn(n).spec /\ t.op = Turn(n).op /\ t.obs = Observed(n, blind)
  BY TurnFields DEF Task
<1> HIDE DEF t
<1>3. Origin(n) /\ CurrentFor(n)'
  BY <1>1, <1>2, TurnSet, ObservedUnit DEF Origin, CurrentFor, Idle
<1> QED
  BY <1>1, <1>3, TaskMoves

LEMMA PermitMoves ==
    ASSUME LoopInv, NEW n \in Names, GetPermit(Loop, n)
    PROVE  Moves
<1> DEFINE t == [Turn(n) EXCEPT !.pc = "permit"]
<1>1. SetTask(Loop, n, t) /\ UNCHANGED <<rows, ops, writes, outbox, queue, host, runner, snap>>
      /\ Turn(n).pc = "queued"
  BY DEF GetPermit, Turn, apiVars, hostVars
<1>2. t.pc = "permit" /\ t.spec = Turn(n).spec /\ t.op = Turn(n).op /\ t.obs = Turn(n).obs
  BY TurnFields DEF Task
<1> HIDE DEF t
<1>3. Origin(n) /\ CurrentFor(n)'
  BY <1>1, <1>2, TurnSet, TurnFields DEF Origin, CurrentFor, Idle
<1> QED
  BY <1>1, <1>3, TaskMoves

LEMMA LockMoves ==
    ASSUME LoopInv, NEW n \in Names, GetLock(Loop, n)
    PROVE  Moves
<1> DEFINE p == Plan(Turn(n).spec, Turn(n).obs)
<1>1. UNCHANGED <<writes, outbox, queue, host, runner, snap>> /\ Turn(n).pc = "permit"
  BY DEF GetLock, Turn, apiVars, hostVars
<1>2. CASE p = <<>>
  <2>1. Conclude(n, Turn(n).op, "succeeded", DoneStatus(Turn(n).spec)) /\ SetTask(Loop, n, NoTask)
    BY <1>2 DEF GetLock, Turn
  <2> QED
    BY <1>1, <2>1, StatusType, EndMoves DEF OpStatuses
<1>3. CASE p # <<>>
  <2> DEFINE t == [Turn(n) EXCEPT !.pc = "apply", !.plan = p]
  <2>1. SetTask(Loop, n, t) /\ UNCHANGED rows /\ ops' = OpsWith(Turn(n).op, "running")
    BY <1>3 DEF GetLock, Turn
  <2>2. Turn(n).spec # None => p \in Seq(Upkeep)
           /\ (Writing(p) \/ (Turn(n).obs # None /\ Turn(n).obs.unit = Turn(n).spec.gen))
    BY TurnFields, UpkeepPlan
  <2> HIDE DEF p
  <2>3. t.pc = "apply" /\ t.spec = Turn(n).spec /\ t.op = Turn(n).op /\ t.plan = p
    BY TurnFields DEF Task
  <2> HIDE DEF t
  <2>4. Turn(n)' = t /\ \A m \in Names : m # n => Turn(m)' = Turn(m)
    BY <2>1, TurnSet
  <2>5. CurrentFor(n)'
    BY <1>1, <2>2, <2>3, <2>4, TurnFields DEF CurrentFor
  <2>6. Origin(n)
    BY <1>1, <2>3, <2>4 DEF Origin, Idle
  <2>7. ASSUME NEW m \in Names, m # n PROVE Origin(m) /\ CurrentFor(m)'
    BY <1>1, <2>4, <2>7, BesideTheTask
  <2>8. ASSUME NEW m \in Names PROVE SnapMoves(m) /\ UnitMoves(m) /\ QueueMoves(m)
    BY <1>1 DEF SnapMoves, UnitMoves, QueueMoves
  <2>9. OpsMove
    <3>1. ops \in [Writes -> Operation \union {None}]
      BY DEF LoopInv, SafeInv, TypeInv, TypeOK
    <3>2. ASSUME NEW j \in Writes
          PROVE  /\ ops[j] # None => ops'[j] # None /\ ops'[j].stack = ops[j].stack
                 /\ ops[j] = None => ops'[j] = None
      <4>1. ops'[j] = IF j = Turn(n).op THEN WithStatus(ops[j], "running") ELSE ops[j]
        BY <2>1 DEF OpsWith
      <4>2. CASE ops[j] = None
        BY <4>1, <4>2 DEF WithStatus
      <4>3. CASE ops[j] # None
        BY <3>1, <4>1, <4>3, WithStatusStays DEF OpStatuses
      <4> QED
        BY <4>2, <4>3
    <3> QED
      BY <2>1, <3>2 DEF OpsMove
  <2>10. writes <= writes
    BY ReconcilerAssumption DEF LoopInv, SafeInv, TypeInv, TypeOK
  <2> QED
    BY <1>1, <2>1, <2>5, <2>6, <2>7, <2>8, <2>9, <2>10, SameRows DEF Moves, OutboxMoves
<1> QED
  BY <1>2, <1>3

\* What an action does to the units of a stack, and to its volume.
LEMMA StepEffect ==
    ASSUME LoopInv, NEW n \in Names, Step(Loop, n)
    PROVE  /\ \A m \in Names : m # n => host'[m].unit = host[m].unit
           /\ host'[n].unit = CASE Head(Turn(n).plan) = "WriteUnits"  -> Turn(n).spec.gen
                                [] Head(Turn(n).plan) = "RemoveUnits" -> None
                                [] OTHER -> host[n].unit
           /\ \A m \in Names : host[m].vol /\ ~host'[m].vol =>
                 \/ m = n /\ Head(Turn(n).plan) = "RemoveVolumeDir"
                 \/ TenantOf[m] = TenantOf[n] /\ Head(Turn(n).plan) = "RemoveTenant"
<1> DEFINE a == Head(Turn(n).plan)
           spec == Turn(n).spec
<1>1. host \in [Names -> HostStack] /\ \A m \in Names : host[m] \in HostStack
  BY DEF LoopInv, SafeInv, TypeInv, TypeOK
<1>2. host' = IF a = "RemoveTenant" THEN WithoutTenant(TenantOf[n])
              ELSE [host EXCEPT ![n] = AfterAction(host[n], a, spec)]
  BY <1>1 DEF Step, Turn
<1> HIDE DEF a, spec
<1>3. CASE a = "RemoveTenant"
  <2>1. ASSUME NEW m \in Names
        PROVE  host'[m].unit = host[m].unit /\ (TenantOf[m] # TenantOf[n] => host'[m] = host[m])
    BY <1>1, <1>2, <1>3 DEF WithoutTenant, HostStack
  <2> QED
    BY <1>3, <2>1 DEF a
<1>4. CASE a # "RemoveTenant"
  <2>1. \A m \in Names : host'[m] = IF m = n THEN AfterAction(host[n], a, spec) ELSE host[m]
    BY <1>1, <1>2, <1>4
  <2>2. AfterAction(host[n], a, spec).unit = CASE a = "WriteUnits" -> spec.gen
                                               [] a = "RemoveUnits" -> None
                                               [] OTHER -> host[n].unit
    BY <1>1 DEF AfterAction, HostStack
  <2>3. host[n].vol /\ a # "RemoveVolumeDir" => AfterAction(host[n], a, spec).vol
    BY <1>1 DEF AfterAction, HostStack
  <2> QED
    BY <2>1, <2>2, <2>3 DEF a, spec
<1> QED
  BY <1>3, <1>4

LEMMA StepMoves ==
    ASSUME LoopInv, NEW n \in Names, Step(Loop, n)
    PROVE  Moves
<1> DEFINE a == Head(Turn(n).plan)
           rest == Tail(Turn(n).plan)
           collect == a = "RemoveTenantIfEmpty" /\ ~KeepTenant(Turn(n).used, TenantOf[n])
           p == Only(collect, "RemoveTenant") \o rest
           t == [Turn(n) EXCEPT !.plan = p]
<1>1. /\ Turn(n).pc = "apply" /\ Turn(n).plan # <<>> /\ SetTask(Loop, n, t)
      /\ UNCHANGED <<rows, ops, writes, outbox, queue, runner, snap>>
  BY DEF Step, Turn, apiVars
<1>2. /\ Turn(n) \in Task /\ Turn(n).plan \in Seq(Actions) /\ a \in Actions /\ rest \in Seq(Actions)
      /\ Turn(n).spec = None => a # "WriteUnits"
  BY <1>1, TurnFields
<1>3. t.pc = "apply" /\ t.spec = Turn(n).spec /\ t.op = Turn(n).op /\ t.plan = p
  <2> HIDE DEF p
  <2> QED
    BY <1>1, <1>2 DEF Task
<1>4. ASSUME Turn(n).spec # None
      PROVE  /\ a \in Upkeep /\ p = rest /\ rest \in Seq(Upkeep)
             /\ Writing(Turn(n).plan) => a = "WriteUnits" \/ Writing(rest)
  <2>1. Turn(n).plan \in Seq(Upkeep)
    BY <1>1, <1>4, TurnFields DEF CurrentFor
  <2>2. a \in Upkeep /\ rest \in Seq(Upkeep) /\ Len(rest) = Len(Turn(n).plan) - 1
        /\ \A k \in 1 .. Len(rest) : rest[k] = Turn(n).plan[k + 1]
        /\ a = Turn(n).plan[1] /\ Len(Turn(n).plan) \in Nat \ {0}
    BY <1>1, <2>1, HeadTailProperties
  <2>3. ~collect
    BY <2>2 DEF Upkeep
  <2>4. p = rest
    <3>1. Only(collect, "RemoveTenant") = <<>>
      BY <2>3 DEF Only
    <3> HIDE DEF rest
    <3> QED
      BY <2>2, <3>1
  <2>5. ASSUME Writing(Turn(n).plan), a # "WriteUnits" PROVE Writing(rest)
    <3>1. PICK k \in 1 .. Len(Turn(n).plan) : Turn(n).plan[k] = "WriteUnits"
      BY <2>5 DEF Writing
    <3>2. k - 1 \in 1 .. Len(rest) /\ rest[k - 1] = "WriteUnits"
      <4> DEFINE q == Turn(n).plan
      <4>1. /\ Len(rest) = Len(q) - 1 /\ Len(q) \in Nat /\ k \in 1 .. Len(q) /\ q[k] = "WriteUnits"
            /\ q[1] # "WriteUnits" /\ \A j \in 1 .. Len(rest) : rest[j] = q[j + 1]
        BY <2>2, <2>5, <3>1
      <4> HIDE DEF q, rest
      <4>2. k # 1 /\ k \in Nat /\ k - 1 \in 1 .. Len(rest)
        BY <4>1
      <4>3. (k - 1) + 1 = k
        BY <4>2
      <4> QED
        BY <4>1, <4>2, <4>3
    <3> QED
      BY <3>2 DEF Writing
  <2> QED
    BY <2>2, <2>4, <2>5
<1> HIDE DEF t, p, rest
<1>5. Turn(n)' = t /\ \A m \in Names : m # n => Turn(m)' = Turn(m)
  BY <1>1, TurnSet
<1>6. /\ \A m \in Names : m # n => host'[m].unit = host[m].unit
      /\ host'[n].unit = CASE a = "WriteUnits"  -> Turn(n).spec.gen
                           [] a = "RemoveUnits" -> None
                           [] OTHER -> host[n].unit
  BY StepEffect
<1> HIDE DEF a
<1>7. Origin(n)
  BY <1>1, <1>3, <1>5 DEF Origin
<1>8. UnitMoves(n)
  BY <1>1, <1>2, <1>3, <1>5, <1>6 DEF UnitMoves
<1>9. CurrentFor(n)'
  <2>1. CASE Turn(n).spec = None
    BY <1>3, <1>5, <2>1 DEF CurrentFor
  <2>2. CASE Turn(n).spec # None
    <3>1. a # "RemoveUnits"
      BY <1>4, <2>2 DEF Upkeep
    <3>2. host[n].unit = Turn(n).spec.gen \/ Writing(Turn(n).plan)
      BY <1>1, <2>2, TurnFields DEF CurrentFor
    <3>3. host'[n].unit = Turn(n).spec.gen \/ Writing(rest)
      BY <1>4, <1>6, <2>2, <3>1, <3>2
    <3> QED
      BY <1>3, <1>4, <1>5, <2>2, <3>3 DEF CurrentFor
  <2> QED
    BY <2>1, <2>2
<1>10. ASSUME NEW m \in Names, m # n PROVE Origin(m) /\ UnitMoves(m) /\ CurrentFor(m)'
  BY <1>1, <1>5, <1>6, <1>10, BesideTheTask
<1>11. ASSUME NEW m \in Names PROVE SnapMoves(m) /\ QueueMoves(m)
  BY <1>1 DEF SnapMoves, QueueMoves
<1>12. writes <= writes
  BY ReconcilerAssumption DEF LoopInv, SafeInv, TypeInv, TypeOK
<1> QED
  BY <1>1, <1>7, <1>8, <1>9, <1>10, <1>11, <1>12, SameRows, SameOps DEF Moves, OutboxMoves

LEMMA ConvergeMoves ==
    ASSUME LoopInv, NEW n \in Names, Converge(Loop, n)
    PROVE  Moves
<1>1. ASSUME Finish(Loop, n) PROVE Moves
  <2>1. /\ Conclude(n, Turn(n).op, "succeeded", DoneStatus(Turn(n).spec)) /\ SetTask(Loop, n, NoTask)
        /\ UNCHANGED <<writes, outbox, queue, host, runner, snap>> /\ Turn(n).pc = "apply"
    BY <1>1 DEF Finish, Turn, apiVars, hostVars
  <2> QED
    BY <2>1, StatusType, EndMoves DEF OpStatuses
<1>2. ASSUME Fail(Loop, n) PROVE Moves
  <2>1. /\ Conclude(n, Turn(n).op, "failed", FailStatus(Turn(n).spec)) /\ SetTask(Loop, n, NoTask)
        /\ UNCHANGED <<writes, outbox, queue, host, runner, snap>> /\ Turn(n).pc = "apply"
    BY <1>2 DEF Fail, Turn, apiVars, hostVars
  <2> QED
    BY <2>1, StatusType, EndMoves DEF OpStatuses
<1> QED
  BY <1>1, <1>2, LoadMoves, ObserveMoves, PermitMoves, LockMoves, StepMoves
     DEF Converge, ActionFails, ActionImpossible

LEMMA NextMoves ==
    ASSUME LoopInv, Sweeps = {}, [Next]_vars
    PROVE  Moves
<1>1. Runners = {Loop}
  BY DEF Runners
<1>2. CASE UNCHANGED vars
  <2>1. UNCHANGED <<rows, ops, writes, outbox, queue, host, runner, snap, task>>
    BY <1>2 DEF vars
  <2>2. writes <= writes
    BY ReconcilerAssumption DEF LoopInv, SafeInv, TypeInv, TypeOK
  <2>3. ASSUME NEW m \in Names
        PROVE  Origin(m) /\ SnapMoves(m) /\ UnitMoves(m) /\ CurrentFor(m)' /\ QueueMoves(m)
    BY <2>1, BesideTheLoop DEF QueueMoves
  <2> QED
    BY <2>1, <2>2, <2>3, SameRows, SameOps DEF Moves, OutboxMoves
<1> QED
  BY <1>1, <1>2, ApiMoves, AgeMoves, RunMoves, CrashMoves, ConvergeMoves DEF Next

-----------------------------------------------------------------------------
(* The invariant.                                                          *)

\* The values the invariant relates, before and after a step.
LEMMA LoopValues ==
    ASSUME LoopInv, TypeInv', NEW n \in Names
    PROVE  /\ rows[n] \in Row \union {None} /\ rows'[n] \in Row \union {None}
           /\ writes \in 0 .. MaxWrites /\ writes' \in 0 .. MaxWrites
           /\ host[n].unit \in Gen /\ host'[n].unit \in Gen
           /\ snap[Loop][n] \in Row \union {None} /\ snap'[Loop][n] \in Row \union {None}
           /\ Turn(n).spec \in Row \union {None} /\ Turn(n)'.spec \in Row \union {None}
           /\ Turn(n).op \in Gen /\ Turn(n)'.op \in Gen
           /\ queue[n] \in Gen /\ queue'[n] \in Gen
<1>1. TypeOK /\ TypeOK' /\ Loop \in Runners
  BY DEF LoopInv, SafeInv, TypeInv, Runners
<1>2. Turn(n) \in Task /\ Turn(n)' \in Task
  BY <1>1 DEF TypeOK, Turn
<1> QED
  BY <1>1, <1>2 DEF TypeOK, HostStack, Task

LEMMA NewestStep ==
    ASSUME LoopInv, TypeInv', Moves
    PROVE  UnitsNewest'
<1> SUFFICES ASSUME NEW n \in Names
             PROVE  /\ host'[n].unit # None => host'[n].unit <= writes'
                    /\ Behind(rows'[n], writes', rows'[n], host'[n].unit)
                    /\ Behind(snap'[Loop][n], writes', rows'[n], host'[n].unit)
                    /\ Behind(Turn(n)'.spec, writes', rows'[n], host'[n].unit)
                    /\ snap'[Loop][n] # None => runner'[Loop] = "observe"
  BY DEF UnitsNewest
<1> DEFINE s == Turn(n).spec
           s2 == Turn(n)'.spec
           l == snap[Loop][n]
           l2 == snap'[Loop][n]
           u == host[n].unit
           u2 == host'[n].unit
           row == rows[n]
           row2 == rows'[n]
<1>1. /\ row \in Row \union {None} /\ row2 \in Row \union {None}
      /\ writes \in 0 .. MaxWrites /\ writes' \in 0 .. MaxWrites /\ writes <= writes'
      /\ u \in Gen /\ u2 \in Gen
      /\ s \in Row \union {None} /\ l \in Row \union {None}
  BY LoopValues DEF Moves
<1>2. /\ u # None => u <= writes
      /\ Behind(row, writes, row, u) /\ Behind(l, writes, row, u) /\ Behind(s, writes, row, u)
      /\ l # None => runner[Loop] = "observe"
  BY DEF LoopInv, UnitsNewest
<1>3. row2 # None => \/ row # None /\ row2.gen = row.gen
                     \/ row2.gen = writes'
  BY DEF Moves, RowsMove
<1>4. /\ s2 \in {None, s, l} \/ (s2 = Desired(n) /\ Still)
      /\ Turn(n)'.pc \in Idle => s2 = s \/ s2 \in {None, l} \/ (s2 = Desired(n) /\ Still)
  BY DEF Moves, Origin
<1>5. \/ runner'[Loop] # "observe" /\ l2 = None
      \/ runner'[Loop] = runner[Loop] /\ l2 = l
      \/ runner'[Loop] = "observe" /\ l2 = Desired(n) /\ UNCHANGED <<rows, writes, host>>
  BY DEF Moves, SnapMoves
<1>6. Desired(n) \in {None, row}
  BY DEF Desired
<1>7. l2 # None => runner'[Loop] = "observe"
  BY <1>2, <1>5
<1> HIDE DEF s, s2, l, l2, u, u2, row, row2
<1>8. CASE u2 \in {None, u}
  <2>1. Behind(row2, writes', row2, u2) /\ Behind(s, writes', row2, u2) /\ Behind(l, writes', row2, u2)
    <3> DEFINE w == writes
               w2 == writes'
    <3>1. /\ w \in 0 .. MaxWrites /\ w2 \in 0 .. MaxWrites /\ w <= w2 /\ u2 \in {u, None}
          /\ Behind(row, w, row, u) /\ Behind(s, w, row, u) /\ Behind(l, w, row, u)
          /\ row2 # None => (row # None /\ row2.gen = row.gen) \/ row2.gen = w2
          /\ u # None => u <= w
      BY <1>1, <1>2, <1>3, <1>8
    <3>2. /\ row \in Row \union {None} /\ row2 \in Row \union {None}
          /\ s \in Row \union {None} /\ l \in Row \union {None} /\ u \in Gen /\ u2 \in Gen
      BY <1>1
    <3> HIDE DEF w, w2
    <3>3. \A k \in {s, l} : Behind(k, w2, row2, u2)
      <4> SUFFICES ASSUME NEW k \in {s, l} PROVE Behind(k, w2, row2, u2)
        OBVIOUS
      <4>1. k \in Row \union {None} /\ Behind(k, w, row, u)
        BY <3>1, <3>2
      <4> QED
        BY <3>1, <3>2, <4>1, BehindStays
    <3>4. Behind(row2, w2, row2, u2)
      BY <3>1, <3>2, BehindRow
    <3> QED
      BY <3>3, <3>4 DEF w2
  <2>2. u2 # None => u2 <= writes'
    BY <1>1, <1>2, <1>8, GenIsNat
  <2>3. Behind(None, writes', row2, u2)
    BY DEF Behind
  <2>4. Still => row2 = row
    BY DEF Still, row, row2
  <2>5. UNCHANGED rows => row2 = row
    BY DEF row, row2
  <2>6. Behind(s2, writes', row2, u2)
    BY <1>4, <1>6, <2>1, <2>3, <2>4
  <2>7. Behind(l2, writes', row2, u2)
    BY <1>5, <1>6, <2>1, <2>3, <2>5
  <2> QED
    BY <1>7, <2>1, <2>2, <2>6, <2>7 DEF row2, s2, l2, u2
<1>9. CASE u2 \notin {None, u}
  <2>1. /\ Turn(n).pc = "apply" /\ s # None /\ s2 = s /\ u2 = s.gen
        /\ row2 = row /\ writes' = writes /\ UNCHANGED <<runner, snap>>
    BY <1>9 DEF Moves, UnitMoves, s, s2, u, u2, row, row2
  <2>2. runner[Loop] \in {"drain", "gather"}
    BY <2>1, LoopRuns
  <2>3. l2 = None
    BY <1>2, <2>1, <2>2 DEF l, l2
  <2>4. s \in Row /\ s.gen \in Nat /\ u2 \in Nat
    BY <1>1, <2>1, GenIsNat
  <2>5. u2 <= writes' /\ Behind(row2, writes', row2, u2) /\ Behind(s2, writes', row2, u2)
    BY <1>1, <1>2, <2>1, <2>4, GenIsNat DEF Behind
  <2> QED
    BY <1>7, <2>3, <2>5 DEF row2, s2, l2, u2, Behind
<1> QED
  BY <1>8, <1>9

LEMMA KnownStays ==
    ASSUME LoopInv, TypeInv', Moves, NEW n \in Names, NEW i \in Gen, OpOf(n, i)
    PROVE  Known(n, i)
<1>1. CASE i = None
  BY <1>1 DEF Known
<1>2. CASE i # None
  <2>1. i \in Writes /\ ops[i] # None /\ ops[i].stack \in {n, None}
    BY <1>2 DEF OpOf, Gen
  <2>2. ops'[i] # None /\ ops'[i].stack \in {ops[i].stack, None}
    BY <2>1 DEF Moves, OpsMove
  <2> QED
    BY <2>1, <2>2 DEF Known
<1> QED
  BY <1>1, <1>2

LEMMA LinkedStep ==
    ASSUME LoopInv, TypeInv', Moves
    PROVE  OpsLinked'
<1>0. /\ OpsLinked /\ ops \in [Writes -> Operation \union {None}]
      /\ ops' \in [Writes -> Operation \union {None}]
      /\ writes \in 0 .. MaxWrites /\ writes' \in 0 .. MaxWrites /\ writes <= writes'
      /\ outbox \subseteq Names \X Writes /\ outbox' \subseteq Names \X Writes
  BY DEF LoopInv, SafeInv, TypeInv, TypeOK, Moves
<1>1. ASSUME NEW i \in Writes, ops'[i] # None
      PROVE  /\ i <= writes'
             /\ ops'[i].stack # None =>
                  rows'[ops'[i].stack] # None /\ i <= rows'[ops'[i].stack].gen
  <2>1. i \in Nat /\ writes \in Nat /\ writes' \in Nat
    BY <1>0, GenIsNat
  <2>2. CASE ops[i] = None
    <3>1. i = writes' /\ rows'[ops'[i].stack] # None /\ rows'[ops'[i].stack].gen = i
      BY <1>1, <2>2 DEF Moves, OpsMove
    <3> QED
      BY <2>1, <3>1
  <2>3. CASE ops[i] # None
    <3>1. i <= writes
      BY <1>0, <2>3 DEF OpsLinked
    <3>2. ASSUME ops'[i].stack # None
          PROVE  rows'[ops'[i].stack] # None /\ i <= rows'[ops'[i].stack].gen
      <4>1. /\ ops'[i].stack = ops[i].stack
            /\ rows[ops[i].stack] # None => rows'[ops[i].stack] # None
        BY <2>3, <3>2 DEF Moves, OpsMove
      <4>2. PICK n \in Names : ops[i].stack = n
        BY <1>0, <2>3, <3>2, <4>1 DEF Operation
      <4>3. rows[n] # None /\ i <= rows[n].gen /\ n # None
        BY <1>0, <2>3, <3>2, <4>1, <4>2 DEF OpsLinked
      <4>4. rows'[n] # None /\ rows'[n].gen \in {rows[n].gen, writes'}
        BY <4>1, <4>2, <4>3 DEF Moves, RowsMove
      <4>5. rows[n].gen \in Nat
        BY <4>3, LoopValues, GenIsNat
      <4> QED
        BY <1>0, <2>1, <3>1, <4>1, <4>2, <4>3, <4>4, <4>5
    <3> QED
      BY <2>1, <1>0, <3>1, <3>2
  <2> QED
    BY <2>2, <2>3
<1>2. ASSUME NEW p \in outbox' PROVE Known(p[1], p[2])
  <2>1. p[1] \in Names /\ p[2] \in Gen
    BY <1>0 DEF Gen
  <2>2. CASE p \in outbox
    BY <1>0, <2>1, <2>2, KnownStays DEF OpsLinked
  <2> QED
    BY <2>2 DEF Moves, OutboxMoves
<1>3. ASSUME NEW n \in Names PROVE Known(n, queue'[n])
  <2>1. queue[n] \in Gen /\ queue'[n] \in Gen /\ OpOf(n, queue[n])
    BY <1>0, LoopValues DEF OpsLinked
  <2>2. CASE queue'[n] = queue[n]
    BY <2>1, <2>2, KnownStays
  <2>3. CASE << n, queue'[n] >> \in outbox
    <3>1. OpOf(n, queue'[n])
      BY <1>0, <2>3 DEF OpsLinked
    <3> QED
      BY <2>1, <3>1, KnownStays
  <2> QED
    BY <2>2, <2>3 DEF Moves, QueueMoves
<1>4. ASSUME NEW n \in Names PROVE Known(n, Turn(n)'.op)
  <2>1. queue[n] \in Gen /\ Turn(n).op \in Gen /\ OpOf(n, queue[n]) /\ OpOf(n, Turn(n).op)
    BY <1>0, LoopValues DEF OpsLinked
  <2>2. Turn(n)'.op \in {None, queue[n], Turn(n).op}
    BY DEF Moves, Origin
  <2>3. Known(n, None)
    BY DEF Known
  <2> QED
    BY <2>1, <2>2, <2>3, KnownStays
<1>5. ASSUME NEW n \in Names, Turn(n)'.op # None, Turn(n)'.spec # None,
             ops'[Turn(n)'.op].stack = n
      PROVE  Turn(n)'.op <= Turn(n)'.spec.gen
  <2> DEFINE i == Turn(n).op
  <2>1. i \in Gen /\ OpOf(n, i) /\ Turn(n)'.op = i
    BY <1>0, <1>5, LoopValues DEF OpsLinked, Moves, Origin
  <2>2. i \in Writes /\ ops[i] # None
    BY <1>5, <2>1 DEF OpOf, Gen
  <2>3. ops[i].stack = n
    BY <1>5, <2>1, <2>2, ReconcilerAssumption DEF OpOf, Moves, OpsMove
  <2>4. CASE Turn(n)'.spec = Turn(n).spec
    BY <1>0, <1>5, <2>1, <2>2, <2>3, <2>4 DEF OpsLinked
  <2>5. CASE Turn(n)'.spec = Desired(n)
    <3>1. Turn(n)'.spec = rows[n]
      BY <1>5, <2>5 DEF Desired
    <3>2. i <= rows[n].gen
      BY <1>0, <2>2, <2>3, ReconcilerAssumption DEF OpsLinked
    <3> QED
      BY <2>1, <3>1, <3>2
  <2> QED
    BY <1>5, <2>4, <2>5 DEF Moves, Origin
<1> QED
  BY <1>1, <1>2, <1>3, <1>4, <1>5, <1>0 DEF OpsLinked, OpOf, Known

LEMMA DoomedStep ==
    ASSUME LoopInv, TypeInv', Moves
    PROVE  Doomed'
<1> SUFFICES ASSUME NEW n \in Names
             PROVE  /\ runner'[Loop] = "observe" /\ snap'[Loop][n] = None => Forsaken(rows'[n])
                    /\ Turn(n)'.pc \in {"observe", "queued", "permit", "apply"}
                          /\ Turn(n)'.spec = None => Forsaken(rows'[n])
  BY DEF Doomed
<1>1. /\ runner[Loop] = "observe" /\ snap[Loop][n] = None => Forsaken(rows[n])
      /\ Turn(n).pc \in {"observe", "queued", "permit", "apply"} /\ Turn(n).spec = None
            => Forsaken(rows[n])
  BY DEF LoopInv, Doomed
<1>2. Origin(n) /\ SnapMoves(n) /\ GivenUp(n)
  BY DEF Moves
<1>3. Desired(n) = None => Forsaken(rows[n])
  <2>1. rows[n] \in Row \union {None}
    BY LoopValues
  <2> QED
    BY <2>1, GenIsNat DEF Desired, Forsaken, Row, Statuses
<1>4. Turn(n).pc \in TaskPc /\ Turn(n)'.pc \in TaskPc
  <2>1. TypeOK /\ TypeOK' /\ Loop \in Runners
    BY DEF LoopInv, SafeInv, TypeInv, Runners
  <2> QED
    BY <2>1 DEF TypeOK, Turn, Task
<1>5. ASSUME runner'[Loop] = "observe", snap'[Loop][n] = None
      PROVE  Forsaken(rows'[n])
  <2>1. CASE runner'[Loop] = runner[Loop] /\ snap'[Loop][n] = snap[Loop][n]
    <3>1. Turn(n).pc = "off"
      BY <1>5, <2>1, LoopRuns
    <3> QED
      BY <1>1, <1>2, <1>5, <2>1, <3>1 DEF GivenUp
  <2>2. CASE snap'[Loop][n] = Desired(n) /\ UNCHANGED rows
    BY <1>3, <1>5, <2>2
  <2> QED
    BY <1>2, <1>5, <2>1, <2>2 DEF SnapMoves
<1>6. ASSUME Turn(n)'.pc \in {"observe", "queued", "permit", "apply"}, Turn(n)'.spec = None
      PROVE  Forsaken(rows'[n])
  <2>1. Turn(n)'.pc \notin Idle
    BY <1>6 DEF Idle
  <2>2. CASE Turn(n)'.spec = Turn(n).spec /\ ~(Turn(n).pc \in Idle)
    BY <1>1, <1>2, <1>4, <1>6, <2>2 DEF GivenUp, Idle, TaskPc
  <2>3. CASE Turn(n)'.spec = Desired(n) /\ Still
    BY <1>3, <1>6, <2>3 DEF Still
  <2>4. CASE Turn(n)'.spec = snap[Loop][n] /\ runner[Loop] = "observe" /\ Still
    BY <1>1, <1>6, <2>4 DEF Still
  <2> QED
    BY <1>2, <2>1, <2>2, <2>3, <2>4 DEF Origin
<1> QED
  BY <1>5, <1>6

LEMMA LoopStep ==
    ASSUME LoopInv, Sweeps = {}, [Next]_vars
    PROVE  LoopInv'
<1>1. SafeInv'
  BY NextType, QuietStep, LockStep, PermitStep, OwnedStep DEF LoopInv, SafeInv, TypeInv
<1>2. TypeInv' /\ Moves
  BY <1>1, NextMoves DEF SafeInv
<1>3. PlanCurrent'
  BY <1>2 DEF Moves, PlanCurrent
<1> QED
  BY <1>1, <1>2, <1>3, NewestStep, LinkedStep, DoomedStep DEF LoopInv

LEMMA InitLoop == Init => LoopInv
<1> SUFFICES ASSUME Init PROVE LoopInv
  OBVIOUS
<1>1. SafeInv /\ Loop \in Runners
  BY InitSafe DEF Runners
<1>2. ASSUME NEW n \in Names
      PROVE  /\ rows[n] = None /\ snap[Loop][n] = None /\ Turn(n) = NoTask /\ queue[n] = None
             /\ host[n].unit = None
  BY <1>1 DEF Init, NothingLoaded, Bare, Turn
<1>3. runner[Loop] = "recover" /\ outbox = {} /\ \A i \in Writes : ops[i] = None
  BY <1>1 DEF Init
<1> QED
  BY <1>1, <1>2, <1>3, NoTaskIs
     DEF LoopInv, UnitsNewest, Behind, OpsLinked, OpOf, PlanCurrent, CurrentFor, Doomed, Forsaken

-----------------------------------------------------------------------------
(* The theorems about the loop alone.                                      *)

\* Without sweeps, rows, what was loaded of them and the units on the host
\* stay ordered in time, and every operation stays with its stack.
THEOREM LoopOrdered == ASSUME Sweeps = {} PROVE Spec => []LoopInv
<1>1. Init => LoopInv
  BY InitLoop
<1>2. LoopInv /\ [Next]_vars => LoopInv'
  BY LoopStep
<1> QED
  BY <1>1, <1>2, PTL DEF Spec

\* A step of the loop alone moves the units of a stack forward only.
LEMMA UnitsForward ==
    ASSUME LoopInv, Sweeps = {}, [Next]_vars, NEW n \in Names,
           host[n].unit # None, host'[n].unit # None
    PROVE  host'[n].unit >= host[n].unit
<1>1. UnitMoves(n)
  BY NextMoves DEF Moves
<1>2. host[n].unit \in Nat
  BY LoopRuns, GenIsNat DEF LoopInv, SafeInv, TypeInv, TypeOK, HostStack
<1>3. CASE host'[n].unit = host[n].unit
  BY <1>2, <1>3
<1>4. CASE Turn(n).spec # None /\ host'[n].unit = Turn(n).spec.gen
  <2>1. host[n].unit <= Turn(n).spec.gen
    BY <1>4 DEF LoopInv, UnitsNewest, Behind
  <2>2. Turn(n).spec.gen \in Nat
    BY <1>4, TurnFields, GenIsNat
  <2> QED
    BY <1>2, <1>4, <2>1, <2>2
<1> QED
  BY <1>1, <1>3, <1>4 DEF UnitMoves

\* The loop alone never writes older units over newer ones, however many
\* rows were written, failures had and restarts made since it loaded them.
THEOREM NeverRegresses == ASSUME Sweeps = {} PROVE Spec => UnitNeverRegresses
<1>1. LoopInv /\ [Next]_vars =>
        [\A n \in Names :
            host[n].unit # None /\ host'[n].unit # None
              => host'[n].unit >= host[n].unit]_vars
  BY UnitsForward
<1> QED
  BY <1>1, LoopOrdered, PTL DEF Spec, UnitNeverRegresses

\* What ends a task of the loop as a success: its plan was empty when made,
\* or has been executed.
LEMMA SuccessOf ==
    ASSUME LoopInv, Sweeps = {}, [Next]_vars, NEW i \in Writes, NEW n \in Names, Succeeds(i, n)
    PROVE  /\ Turn(n).op = i /\ ops[i].stack = n /\ UNCHANGED host
           /\ rows'[n] = RowAfter(rows[n], DoneStatus(Turn(n).spec))
           /\ \/ Turn(n).pc = "permit" /\ Plan(Turn(n).spec, Turn(n).obs) = <<>>
              \/ Turn(n).pc = "apply" /\ Turn(n).plan = <<>>
<1>1. Runners = {Loop} /\ n # None /\ ops \in [Writes -> Operation \union {None}] /\ OpsLinked
  BY ReconcilerAssumption DEF Runners, LoopInv, SafeInv, TypeInv, TypeOK
<1>2. ASSUME NEW m \in Names, Conclude(m, Turn(m).op, "succeeded", DoneStatus(Turn(m).spec)),
             UNCHANGED writes
      PROVE  m = n /\ Turn(n).op = i /\ ops[i].stack = n
             /\ rows'[n] = RowAfter(rows[n], DoneStatus(Turn(n).spec))
  <2>0. "succeeded" \in OpStatuses /\ DoneStatus(Turn(m).spec) \in Statuses \union {"absent"}
    BY StatusType DEF OpStatuses
  <2> DEFINE k == Turn(m).op
             status == DoneStatus(Turn(m).spec)
             good == "succeeded"
  <2>1. /\ OpsMove /\ rows'[m] = RowAfter(rows[m], DoneStatus(Turn(m).spec))
        /\ ops'[i] # None /\ i # Turn(m).op => ops'[i].status = ops[i].status
    <3>1. /\ good \in OpStatuses /\ status \in Statuses \union {"absent"}
          /\ Conclude(m, k, good, status) /\ UNCHANGED writes
      BY <1>2, <2>0
    <3> HIDE DEF k, status, good
    <3>2. /\ OpsMove /\ rows'[m] = RowAfter(rows[m], status)
          /\ ops'[i] # None /\ i # k => ops'[i].status = ops[i].status
      BY <3>1, ConcludeMoves
    <3> QED
      BY <3>2 DEF k, status
  <2>2. Turn(m).op = i
    BY <2>1 DEF Succeeds, OpsMove
  <2>3. ops[i].stack = n
    BY <1>1, <2>1 DEF OpsMove, Succeeds
  <2>4. ops[i].stack \in {m, None}
    BY <1>1, <2>2, GenIsNat DEF OpsLinked, OpOf
  <2> QED
    BY <1>1, <2>1, <2>2, <2>3, <2>4
<1>3. ASSUME NEW m \in Names, Conclude(m, Turn(m).op, "failed", FailStatus(Turn(m).spec)),
             UNCHANGED writes
      PROVE  FALSE
  <2>1. ops'[i] \in {ops[i], WithStatus(ops[i], "failed"), Unlinked(ops[i], m),
                     Unlinked(WithStatus(ops[i], "failed"), m)}
    BY <1>3 DEF Conclude, OpsWith
  <2>2. ops[i] \in Operation /\ ops[i].status # "succeeded"
    BY <1>1 DEF Succeeds
  <2> QED
    BY <1>1, <2>1, <2>2 DEF Succeeds, WithStatus, Unlinked, Operation
<1>5. ASSUME UNCHANGED ops PROVE FALSE
  BY <1>5 DEF Succeeds
<1>6. ASSUME NEW m \in Names, NEW row, Commit(m, row) PROVE FALSE
  <2>1. ops'[i] = ops[i] \/ ops'[i] = [status |-> "pending", stack |-> m, old |-> FALSE]
    BY <1>1, <1>6 DEF Commit
  <2> QED
    BY <2>1 DEF Succeeds
<1>7. ~Api
  BY <1>5, <1>6 DEF Api, CreateStack, UpdateStack, DeleteStack, RollbackToImage, Enqueue
<1>8. ASSUME NEW j \in Writes, Age(j) PROVE FALSE
  <2>1. ops'[i] = ops[i] \/ ops'[i] = [ops[i] EXCEPT !.old = TRUE]
    BY <1>1, <1>8 DEF Age
  <2> QED
    BY <1>1, <2>1 DEF Succeeds, Operation
<1>9. ~Run(Loop)
  <2>1. ASSUME ops' = [j \in Writes |-> Reaped(ops[j])] PROVE FALSE
    <3>1. ops'[i] = Reaped(ops[i]) /\ ops[i] \in Operation
      BY <1>1, <2>1 DEF Succeeds
    <3> QED
      BY <3>1 DEF Succeeds, Reaped, Operation
  <2> QED
    BY <1>5, <2>1 DEF Run, Recover, StartDrain, StartCycle, Observe, RunnerDone
<1>10. ~Crash /\ ~UNCHANGED vars
  BY <1>5 DEF Crash, vars
<1>11. PICK m \in Names : Converge(Loop, m)
  BY <1>1, <1>7, <1>8, <1>9, <1>10 DEF Next
<1>12. CASE GetLock(Loop, m)
  <2>1. CASE Plan(Turn(m).spec, Turn(m).obs) = <<>>
    <3>1. /\ Conclude(m, Turn(m).op, "succeeded", DoneStatus(Turn(m).spec))
          /\ UNCHANGED <<writes, host>> /\ Turn(m).pc = "permit"
      BY <1>12, <2>1 DEF GetLock, Turn, apiVars, hostVars
    <3> QED
      BY <1>2, <2>1, <3>1
  <2>2. CASE Plan(Turn(m).spec, Turn(m).obs) # <<>>
    <3>1. ops' = OpsWith(Turn(m).op, "running")
      BY <1>12, <2>2 DEF GetLock, Turn
    <3>2. ops'[i] = ops[i] \/ ops'[i] = [ops[i] EXCEPT !.status = "running"]
      BY <3>1 DEF OpsWith, WithStatus, Succeeds
    <3> QED
      BY <1>1, <3>2 DEF Succeeds, Operation
  <2> QED
    BY <2>1, <2>2
<1>13. CASE Finish(Loop, m)
  <2>1. /\ Conclude(m, Turn(m).op, "succeeded", DoneStatus(Turn(m).spec))
        /\ UNCHANGED <<writes, host>> /\ Turn(m).pc = "apply" /\ Turn(m).plan = <<>>
    BY <1>13 DEF Finish, Turn, apiVars, hostVars
  <2> QED
    BY <1>2, <2>1
<1>14. CASE Fail(Loop, m)
  <2>1. Conclude(m, Turn(m).op, "failed", FailStatus(Turn(m).spec)) /\ UNCHANGED writes
    BY <1>14 DEF Fail, Turn, apiVars
  <2> QED
    BY <1>3, <2>1
<1> QED
  BY <1>5, <1>11, <1>12, <1>13, <1>14
     DEF Converge, ActionFails, ActionImpossible, TaskLoad, TaskObserve, GetPermit, Step

\* When an operation of the loop succeeds and its stack is not deleted, the
\* host has the units of the write that made it, or of a later one.
LEMMA SuccessApplied ==
    ASSUME LoopInv, Sweeps = {}, [Next]_vars, NEW i \in Writes, NEW n \in Names,
           Succeeds(i, n), rows'[n] # None
    PROVE  host'[n].unit # None /\ host'[n].unit >= i
<1> DEFINE spec == Turn(n).spec
<1>1. /\ Turn(n).op = i /\ ops[i].stack = n /\ UNCHANGED host
      /\ rows'[n] = RowAfter(rows[n], DoneStatus(spec))
      /\ \/ Turn(n).pc = "permit" /\ Plan(spec, Turn(n).obs) = <<>>
         \/ Turn(n).pc = "apply" /\ Turn(n).plan = <<>>
  BY SuccessOf
<1>2. spec # None
  BY <1>1 DEF RowAfter, DoneStatus
<1>3. spec \in Row /\ spec.gen \in Nat /\ spec.gen # None /\ i # None
  BY <1>2, TurnFields, GenIsNat
<1>4. i <= spec.gen
  BY <1>1, <1>2, <1>3 DEF LoopInv, OpsLinked
<1>5. ~Writing(<<>>)
  BY DEF Writing
<1>6. host[n].unit = spec.gen
  <2>1. CASE Turn(n).pc = "permit" /\ Plan(spec, Turn(n).obs) = <<>>
    <3>1. Turn(n).obs # None /\ Turn(n).obs.unit = spec.gen
      BY <1>3, <1>5, <2>1, TurnFields, UpkeepPlan
    <3> QED
      BY <2>1, <3>1, TurnFields DEF CurrentFor
  <2>2. CASE Turn(n).pc = "apply" /\ Turn(n).plan = <<>>
    BY <1>2, <1>5, <2>2, TurnFields DEF CurrentFor
  <2> QED
    BY <1>1, <2>1, <2>2
<1> QED
  BY <1>1, <1>3, <1>4, <1>6

\* An operation of the loop that succeeds has been applied: the units of its
\* write, or of a later one, are on the host, unless the stack is gone.
THEOREM SuccessMeansApplied == ASSUME Sweeps = {} PROVE Spec => SucceededMeansApplied
<1>1. LoopInv /\ [Next]_vars =>
        [\A i \in Writes, n \in Names :
            Succeeds(i, n) /\ rows'[n] # None /\ rows'[n].status \in ActiveStatuses
              => host'[n].unit # None /\ host'[n].unit >= i]_vars
  BY SuccessApplied
<1> QED
  BY <1>1, LoopOrdered, PTL DEF Spec, SucceededMeansApplied

\* What removes the volume of a stack that has a tenant of its own is a task
\* that has found the stack not to be desired.
LEMMA VolumeGoes ==
    ASSUME LoopInv, Sweeps = {}, [Next]_vars, NEW n \in Names,
           \A m \in Names : TenantOf[m] = TenantOf[n] => m = n,
           host[n].vol, ~host'[n].vol
    PROVE  Turn(n).pc = "apply" /\ Turn(n).spec = None
<1>1. Runners = {Loop} /\ host \in [Names -> HostStack]
  BY DEF Runners, LoopInv, SafeInv, TypeInv, TypeOK
<1>2. ASSUME UNCHANGED host PROVE FALSE
  BY <1>2
<1>3. ASSUME NEW m \in Names, RollbackToImage(m) PROVE FALSE
  BY <1>1, <1>3 DEF RollbackToImage, HostStack
<1>4. ~Api
  BY <1>2, <1>3 DEF Api, CreateStack, UpdateStack, DeleteStack, Enqueue, hostVars
<1>5. ~Run(Loop)
  BY <1>2 DEF Run, Recover, StartDrain, StartCycle, Observe, RunnerDone, hostVars
<1>6. ~Crash /\ ~UNCHANGED vars /\ \A i \in Writes : ~Age(i)
  BY <1>2 DEF Crash, vars, Age, hostVars
<1>7. PICK m \in Names : Converge(Loop, m)
  BY <1>1, <1>4, <1>5, <1>6 DEF Next
<1>8. Step(Loop, m)
  BY <1>2, <1>7 DEF Converge, ActionFails, ActionImpossible, TaskLoad, TaskObserve, GetPermit,
     GetLock, Finish, Fail, hostVars
<1>9. m = n /\ Head(Turn(n).plan) \in {"RemoveVolumeDir", "RemoveTenant"}
  BY <1>8, StepEffect
<1>10. Turn(n).pc = "apply" /\ Turn(n).plan # <<>>
  BY <1>8, <1>9 DEF Step, Turn
<1>11. ASSUME Turn(n).spec # None PROVE FALSE
  <2>1. Turn(n).plan \in Seq(Upkeep)
    BY <1>10, <1>11, TurnFields DEF CurrentFor
  <2>2. Head(Turn(n).plan) \in Upkeep
    BY <1>10, <2>1
  <2> QED
    BY <1>9, <2>2 DEF Upkeep
<1> QED
  BY <1>10, <1>11

\* The data of a stack that has once converged goes only when the stack was
\* deleted, for owners of one stack each: what another stack of the owner
\* takes with the tenant is what the run reconciler_tenant shows.
THEOREM LiveDataKept ==
    ASSUME Sweeps = {}, \A m, n \in Names : TenantOf[m] = TenantOf[n] => m = n
    PROVE  Spec => LiveDataSafe
<1>1. LoopInv /\ [Next]_vars =>
        [\A n \in Names :
          host[n].vol /\ ~host'[n].vol
            => \/ rows[n] = None
               \/ rows[n].status = "deleting"
               \/ rows[n].observed = 0]_vars
  <2> SUFFICES ASSUME LoopInv, [Next]_vars, NEW n \in Names, host[n].vol, ~host'[n].vol
               PROVE  Forsaken(rows[n])
    BY DEF Forsaken
  <2>1. Turn(n).pc = "apply" /\ Turn(n).spec = None
    BY VolumeGoes
  <2> QED
    BY <2>1 DEF LoopInv, Doomed
<1> QED
  BY <1>1, LoopOrdered, PTL DEF Spec, LiveDataSafe
=============================================================================
