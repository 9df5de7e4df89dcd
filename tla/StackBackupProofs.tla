-------------------------- MODULE StackBackupProofs --------------------------
(***************************************************************************)
(* The types of backups and restores, for any number of services,          *)
(* operations, failures and restarts; and that a backup reported as        *)
(* succeeded is there, as long as the panel is not restarted.              *)
(***************************************************************************)
EXTENDS StackBackup, Induction, SequenceTheorems, TLAPS

Operation == [kind : {"backup", "restore"},
              status : Live \union {"succeeded", "failed"}]

Pc == {"off", "lock", "prepare", "verify", "stop", "archive", "restore",
       "archiving", "restoring", "start", "finalize", "finish", "undo"}

TaskRecord == [pc : Pc, at : 0 .. Last, from : Ops \union {None},
               data : Data \union {None}]

\* Types, and no task without its operation.
Shapes ==
    /\ ops \in [Ops -> Operation \union {None}]
    /\ task \in [Ops -> TaskRecord]
    /\ archive \in [Ops -> Data \union {"deleted", None}]
    /\ volume \in {"whole", "mixed", None}
    /\ \A i \in Ops : task[i].pc # "off" => ops[i] \in Operation

\* From the copy to the end a task has something to list, and it has listed
\* it before it reports; where it counts services, it is at one.
Copied == {"archiving", "restoring", "start", "finalize"}
Counting == {"stop", "start", "undo"}

DataKept ==
    \A i \in Ops :
        /\ task[i].pc \in Copied => task[i].data # None
        /\ task[i].pc = "finish" /\ ops[i].kind = "backup" => archive[i] # None
        /\ task[i].pc \in Counting => task[i].at \in Services

Sound == Shapes /\ DataKept

\* The stack and its host.
HostTyped ==
    /\ row \in Active \union {"deleting", None}
    /\ units \in BOOLEAN /\ loaded \in BOOLEAN /\ written \in BOOLEAN
    /\ run \subseteq Services
    /\ faults \in 0 .. MaxFaults /\ crashes \in 0 .. MaxCrashes

\* The loop holds operations that exist, and a plan of actions.
Cycle == [pc : {"idle", "apply", "recover"}, plan : Seq(Actions),
          op : Ops \union {None}, desired : BOOLEAN]

LoopTyped ==
    /\ cycle \in Cycle /\ queue \in Ops \union {None}
    /\ cycle.op # None => ops[cycle.op] # None
    /\ queue # None => ops[queue] # None

\* Only recovery hands operations of this kind to the loop.
LoopWithoutOps == queue = None /\ cycle.op = None /\ cycle.pc # "recover"

Listed ==
    \A i \in Ops :
        ops[i] # None /\ ops[i].kind = "backup" /\ ops[i].status = "succeeded"
          => archive[i] # None

IInv ==
    /\ Sound /\ HostTyped /\ LoopTyped
    /\ crashes = 0 => LoopWithoutOps /\ Listed

-----------------------------------------------------------------------------
LEMMA NoTaskType == NoTask \in TaskRecord /\ NoTask.pc = "off"
  BY BackupAssumption DEF NoTask, TaskRecord, Pc

LEMMA OperationNotNone == None \notin Operation
  BY OperationAssumption DEF Operation, Live

LEMMA IdleType == Idle \in Cycle /\ Idle.pc = "idle" /\ Idle.op = None
  BY DEF Idle, Cycle

LEMMA InitIInv == Init => IInv
<1> SUFFICES ASSUME Init PROVE IInv
  OBVIOUS
<1>1. Sound
  BY BackupAssumption, NoTaskType DEF Init, Sound, Shapes, DataKept, Copied, Counting
<1>2. HostTyped
  <2>1. faults \in 0 .. MaxFaults /\ crashes \in 0 .. MaxCrashes
    BY BackupAssumption DEF Init
  <2> QED
    BY <2>1 DEF Init, HostTyped, Active
<1>3. LoopTyped /\ LoopWithoutOps
  BY IdleType DEF Init, LoopTyped, LoopWithoutOps
<1>4. Listed
  BY DEF Init, Listed
<1> QED
  BY <1>1, <1>2, <1>3, <1>4 DEF IInv

\* What is not an operation stays as it is: no operation disappears, and
\* without restarts none is reported that is not listed.
LEMMA OpsKept ==
    ASSUME LoopTyped, UNCHANGED <<queue, cycle>>,
           \A i \in Ops : ops[i] # None => ops'[i] # None
    PROVE  LoopTyped'
  BY DEF LoopTyped, Cycle

\* An operation and its task start.
LEMMA RequestKeeps ==
    ASSUME Sound, LoopTyped, NEW kind \in {"backup", "restore"},
           NEW from \in Ops \union {None}, Request(kind, from)
    PROVE  Sound' /\ LoopTyped' /\ (Listed => Listed')
<1> DEFINE t == [NoTask EXCEPT !.pc = "lock", !.from = from]
           o == [kind |-> kind, status |-> "pending"]
<1>1. PICK i \in Ops : /\ ops[i] = None
                       /\ ops' = [ops EXCEPT ![i] = o]
                       /\ task' = [task EXCEPT ![i] = t]
  BY DEF Request, FreeOp, SetTask
<1>2. UNCHANGED <<archive, queue, cycle, volume>>
  BY DEF Request, loopVars, hostVars
<1>3. t \in TaskRecord /\ t.pc = "lock"
  BY NoTaskType DEF TaskRecord, Pc
<1>4. o \in Operation /\ o.status = "pending"
  BY DEF Operation, Live
<1>5. o # None
  BY <1>4, OperationNotNone
<1> HIDE DEF t, o
<1>6. Shapes'
  BY <1>1, <1>2, <1>3, <1>4 DEF Sound, Shapes
<1>7. DataKept' /\ (Listed => Listed')
  BY <1>1, <1>2, <1>3, <1>4 DEF Sound, Shapes, DataKept, Listed, Copied, Counting
<1>8. \A j \in Ops : ops[j] # None => ops'[j] # None
  BY <1>1, <1>5 DEF Sound, Shapes
<1> QED
  BY <1>2, <1>6, <1>7, <1>8, OpsKept DEF Sound

\* Nothing but the status of one operation, which says no more than is true.
LEMMA StatusStep ==
    ASSUME Shapes, NEW i \in Ops, ops[i] \in Operation,
           NEW status \in {"running", "failed", "succeeded"}, SetStatus(i, status)
    PROVE  /\ ops' \in [Ops -> Operation \union {None}]
           /\ ops'[i] \in Operation /\ ops'[i].status = status
           /\ \A j \in Ops : j # i => ops'[j] = ops[j]
           /\ ops'[i].kind = ops[i].kind
<1>1. [ops[i] EXCEPT !.status = status] \in Operation
  BY DEF Operation, Live
<1>2. [ops[i] EXCEPT !.status = status].kind = ops[i].kind
  BY DEF Operation
<1>3. [ops[i] EXCEPT !.status = status].status = status
  BY DEF Operation
<1> QED
  BY <1>1, <1>2, <1>3 DEF Shapes, SetStatus

\* What a step of a task must show.
Promise(i, t) ==
    /\ SetTask(i, t)
    /\ \/ UNCHANGED ops
       \/ \E status \in {"running", "failed", "succeeded"} :
             /\ SetStatus(i, status)
             /\ status = "succeeded" /\ ops[i].kind = "backup" => archive'[i] # None
    /\ archive' \in [Ops -> Data \union {"deleted", None}]
    /\ \A j \in Ops : archive[j] # None => archive'[j] # None
    /\ volume' \in {"whole", "mixed", None}
    /\ t.pc \in Copied => t.data # None
    /\ t.pc = "finish" /\ ops[i].kind = "backup" => archive'[i] # None
    /\ t.pc \in Counting => t.at \in Services
    /\ UNCHANGED <<queue, cycle>>

Kept(i) == task[i].pc # "off" /\ \E t \in TaskRecord : Promise(i, t)

LEMMA TaskStep ==
    ASSUME Sound, LoopTyped, NEW i \in Ops, Kept(i)
    PROVE  Sound' /\ LoopTyped' /\ (Listed => Listed')
<1>0. PICK t \in TaskRecord : Promise(i, t)
  BY DEF Kept
<1>1. ops[i] \in Operation /\ Shapes
  BY DEF Sound, Shapes, Kept
<1>2. /\ ops' \in [Ops -> Operation \union {None}]
      /\ ops'[i] \in Operation
      /\ \A j \in Ops : j # i => ops'[j] = ops[j]
      /\ ops'[i].kind = ops[i].kind
      /\ ops'[i].status = ops[i].status
         \/ (ops'[i].status = "succeeded" /\ ops[i].kind = "backup"
               => archive'[i] # None)
  BY <1>0, <1>1, StatusStep DEF Promise, Shapes
<1>3. \A j \in Ops : task'[j] = IF j = i THEN t ELSE task[j]
  BY <1>0, <1>1 DEF Promise, SetTask, Shapes
<1>4. Shapes'
  BY <1>0, <1>1, <1>2, <1>3 DEF Promise, SetTask, Shapes
<1>5. DataKept'
  BY <1>0, <1>1, <1>2, <1>3 DEF Promise, Sound, DataKept
<1>6. ASSUME Listed, NEW j \in Ops, ops'[j] # None, ops'[j].kind = "backup",
             ops'[j].status = "succeeded"
      PROVE  archive'[j] # None
  <2>1. CASE j # i
    BY <1>0, <1>2, <1>6, <2>1 DEF Promise, Listed
  <2>2. CASE j = i /\ ops'[i].status # ops[i].status
    BY <1>2, <1>6, <2>2
  <2>3. CASE j = i /\ ops'[i].status = ops[i].status
    <3>1. ops[i] # None
      BY <1>1, OperationNotNone
    <3> QED
      BY <1>0, <1>2, <1>6, <2>3, <3>1 DEF Promise, Listed
  <2> QED
    BY <2>1, <2>2, <2>3
<1>7. \A j \in Ops : ops[j] # None => ops'[j] # None
  BY <1>2, OperationNotNone
<1>8. LoopTyped'
  BY <1>0, <1>7, OpsKept DEF Promise
<1> QED
  BY <1>4, <1>5, <1>6, <1>8 DEF Sound, Listed

\* A task that goes on to a place where it needs nothing new.
LEMMA GotoType ==
    ASSUME Shapes, NEW i \in Ops, NEW pc \in Pc
    PROVE  LET t == [task[i] EXCEPT !.pc = pc]
           IN  t \in TaskRecord /\ t.pc = pc /\ t.data = task[i].data
  BY DEF Shapes, TaskRecord

LEMMA CounterType ==
    ASSUME Shapes, NEW i \in Ops, NEW at \in 0 .. Last
    PROVE  LET t == [task[i] EXCEPT !.at = at]
           IN  t \in TaskRecord /\ t.pc = task[i].pc /\ t.data = task[i].data /\ t.at = at
  BY DEF Shapes, TaskRecord

LEMMA AcquireKept ==
    ASSUME Sound, NEW i \in Ops, Acquire(i) PROVE Kept(i)
<1>1. task[i].pc = "lock" /\ Shapes
      /\ UNCHANGED <<archive, volume, queue, cycle>>
  BY DEF Acquire, Sound, hostVars, loopVars
<1>2. CASE row = None
  <2>1. Promise(i, NoTask)
    BY <1>1, <1>2, NoTaskType DEF Acquire, Promise, Shapes, Copied, Counting
  <2> QED
    BY <1>1, <2>1, NoTaskType DEF Kept
<1>3. CASE row # None
  <2> DEFINE pc == IF ops[i].kind = "backup" THEN "prepare" ELSE "verify"
             t == [task[i] EXCEPT !.pc = pc]
  <2>0. pc \in Pc
    BY DEF Pc
  <2> HIDE DEF pc
  <2>1. t \in TaskRecord /\ t.pc = pc
    BY <1>1, <2>0, GotoType
  <2> USE DEF pc
  <2>2. SetTask(i, t) /\ SetStatus(i, "running")
    BY <1>3 DEF Acquire, Goto
  <2> HIDE DEF t
  <2>3. Promise(i, t)
    BY <1>1, <2>1, <2>2 DEF Promise, Shapes, Copied, Counting
  <2> QED
    BY <1>1, <2>1, <2>3 DEF Kept
<1> QED
  BY <1>2, <1>3

LEMMA PrepareKept ==
    ASSUME Sound, NEW i \in Ops, Prepare(i) PROVE Kept(i)
<1>1. task[i].pc # "off" /\ Shapes
      /\ UNCHANGED <<ops, archive, volume, queue, cycle>>
  BY DEF Prepare, Sound, hostVars, loopVars
<1> DEFINE t == [task[i] EXCEPT !.pc = "stop", !.at = Last]
<1>a. "stop" \in Pc /\ Last \in 0 .. Last /\ Last \in Services
  BY BackupAssumption DEF Pc, Services
<1>2. t \in TaskRecord /\ t.pc = "stop" /\ t.at = Last
  BY <1>1, <1>a DEF Shapes, TaskRecord
<1>3. SetTask(i, t)
  BY DEF Prepare
<1> HIDE DEF t
<1>4. Promise(i, t)
  BY <1>1, <1>a, <1>2, <1>3 DEF Promise, Shapes, Copied, Counting
<1> QED
  BY <1>1, <1>2, <1>4 DEF Kept

LEMMA StopKept ==
    ASSUME Sound, NEW i \in Ops, StopService(i) PROVE Kept(i)
<1>1. task[i].pc = "stop" /\ Shapes
      /\ UNCHANGED <<ops, archive, volume, queue, cycle>>
  BY DEF StopService, Sound, loopVars
<1>2. CASE task[i].at > 1
  <2> DEFINE at == task[i].at - 1
             t == [task[i] EXCEPT !.at = at]
  <2>1. at \in 0 .. Last /\ at \in Services
    BY <1>1, <1>2, BackupAssumption DEF Shapes, TaskRecord, Services
  <2>3. SetTask(i, t)
    BY <1>2 DEF StopService
  <2> HIDE DEF at
  <2>2. t \in TaskRecord /\ t.pc = "stop" /\ t.at = at
    BY <1>1, <2>1, CounterType
  <2> HIDE DEF t
  <2>4. Promise(i, t)
    BY <1>1, <2>1, <2>2, <2>3 DEF Promise, Shapes, Copied, Counting
  <2> QED
    BY <1>1, <2>2, <2>4 DEF Kept
<1>3. CASE ~(task[i].at > 1)
  <2> DEFINE pc == IF ops[i].kind = "backup" THEN "archive" ELSE "restore"
             t == [task[i] EXCEPT !.pc = pc]
  <2>0. pc \in Pc
    BY DEF Pc
  <2> HIDE DEF pc
  <2>1. t \in TaskRecord /\ t.pc = pc
    BY <1>1, <2>0, GotoType
  <2> USE DEF pc
  <2>2. SetTask(i, t)
    BY <1>3 DEF StopService, Goto
  <2> HIDE DEF t
  <2>3. Promise(i, t)
    BY <1>1, <2>1, <2>2 DEF Promise, Shapes, Copied, Counting
  <2> QED
    BY <1>1, <2>1, <2>3 DEF Kept
<1> QED
  BY <1>2, <1>3

LEMMA StartCopyKept ==
    ASSUME Sound, NEW i \in Ops, StartCopy(i) PROVE Kept(i)
<1>1. /\ task[i].pc \in {"archive", "restore"} /\ task[i].pc # "off" /\ Shapes
      /\ UNCHANGED <<ops, archive, queue, cycle>>
      /\ volume' \in {"whole", "mixed", None}
  BY DEF StartCopy, Sound, Shapes, loopVars
<1> DEFINE pc == IF task[i].pc = "archive" THEN "archiving" ELSE "restoring"
           data == IF task[i].data # None THEN task[i].data
                   ELSE IF task[i].pc = "restore" THEN archive[task[i].from]
                   ELSE IF volume = None THEN "empty" ELSE volume
           t == [task[i] EXCEPT !.pc = pc, !.data = data]
<1>2. pc \in Pc
  BY DEF Pc
<1>3. data \in Data
  <2>1. task[i].data \in Data \union {None}
    BY <1>1 DEF Shapes, TaskRecord
  <2>2. task[i].pc = "restore" => archive[task[i].from] \in Data
    BY <1>1 DEF StartCopy
  <2> QED
    BY <1>1, <2>1, <2>2 DEF Shapes, Data
<1>4. data # None
  BY <1>3, BackupAssumption DEF Data
<1>5. SetTask(i, t)
  BY DEF StartCopy
<1> HIDE DEF pc, data
<1>a. data \in Data \union {None}
  BY <1>3
<1>6. t \in TaskRecord /\ t.pc = pc /\ t.data = data
  BY <1>1, <1>2, <1>a DEF Shapes, TaskRecord
<1>7. pc # "finish" /\ pc \notin Counting
  BY DEF pc, Counting
<1> HIDE DEF t
<1>8. Promise(i, t)
  BY <1>1, <1>4, <1>5, <1>6, <1>7 DEF Promise, Shapes
<1> QED
  BY <1>1, <1>6, <1>8 DEF Kept

LEMMA EndCopyKept ==
    ASSUME Sound, NEW i \in Ops, EndCopy(i) PROVE Kept(i)
<1>1. /\ task[i].pc \in Copied /\ task[i].pc # "off" /\ Shapes
      /\ UNCHANGED <<ops, archive, queue, cycle>>
  BY DEF EndCopy, Sound, loopVars, Copied
<1> DEFINE data == IF written THEN "mixed" ELSE task[i].data
           one == 1
           t == [task[i] EXCEPT !.pc = "start", !.at = one, !.data = data]
<1>2. data \in Data \union {None}
  BY <1>1 DEF Shapes, TaskRecord, Data
<1>3. data # None
  BY <1>1, BackupAssumption DEF Sound, DataKept
<1>4. SetTask(i, t) /\ volume' \in {"whole", "mixed", None}
  BY <1>1, <1>2 DEF EndCopy, Data, Shapes
<1>5. "start" \in Pc /\ one \in 0 .. Last /\ one \in Services
  BY BackupAssumption DEF Pc, Services
<1> HIDE DEF data, one
<1>6. t \in TaskRecord /\ t.pc = "start" /\ t.data = data /\ t.at = one
  BY <1>1, <1>2, <1>5 DEF Shapes, TaskRecord
<1> HIDE DEF t
<1>7. Promise(i, t)
  BY <1>1, <1>3, <1>4, <1>5, <1>6 DEF Promise, Shapes, Copied, Counting
<1> QED
  BY <1>1, <1>6, <1>7 DEF Kept

LEMMA StartKept ==
    ASSUME Sound, NEW i \in Ops, StartService(i) PROVE Kept(i)
<1>1. task[i].pc = "start" /\ Shapes /\ task[i].data # None
      /\ UNCHANGED <<ops, archive, volume, queue, cycle>>
  BY DEF StartService, Sound, DataKept, Copied, loopVars
<1>2. CASE task[i].at < Last
  <2> DEFINE at == task[i].at + 1
             t == [task[i] EXCEPT !.at = at]
  <2>1. at \in 0 .. Last /\ at \in Services
    BY <1>1, <1>2, BackupAssumption DEF Shapes, TaskRecord, Services
  <2>2. SetTask(i, t)
    BY <1>2 DEF StartService
  <2> HIDE DEF at
  <2>3. t \in TaskRecord /\ t.pc = "start" /\ t.data = task[i].data /\ t.at = at
    BY <1>1, <2>1, CounterType
  <2> HIDE DEF t
  <2>4. Promise(i, t)
    BY <1>1, <2>1, <2>2, <2>3 DEF Promise, Shapes, Copied, Counting
  <2> QED
    BY <1>1, <2>3, <2>4 DEF Kept
<1>3. CASE ~(task[i].at < Last)
  <2> DEFINE t == [task[i] EXCEPT !.pc = "finalize"]
  <2>1. SetTask(i, t)
    BY <1>3 DEF StartService, Goto
  <2>2. "finalize" \in Pc
    BY DEF Pc
  <2>3. t \in TaskRecord /\ t.pc = "finalize" /\ t.data = task[i].data
    BY <1>1, <2>2, GotoType
  <2> HIDE DEF t
  <2>4. Promise(i, t)
    BY <1>1, <2>1, <2>3 DEF Promise, Shapes, Copied, Counting
  <2> QED
    BY <1>1, <2>3, <2>4 DEF Kept
<1> QED
  BY <1>2, <1>3

\* The backup is listed, from data it has, before the task can report.
LEMMA FinalizeKept ==
    ASSUME Sound, NEW i \in Ops, Finalize(i) PROVE Kept(i)
<1>1. task[i].pc = "finalize" /\ Shapes /\ task[i].data # None
      /\ UNCHANGED <<ops, volume, queue, cycle>>
  BY DEF Finalize, Sound, DataKept, Copied, hostVars, loopVars
<1> DEFINE t == [task[i] EXCEPT !.pc = "finish"]
<1>2. SetTask(i, t)
  BY DEF Finalize, Goto
<1>3. "finish" \in Pc
  BY DEF Pc
<1>4. t \in TaskRecord /\ t.pc = "finish"
  BY <1>1, <1>3, GotoType
<1>5. task[i].data \in Data
  BY <1>1 DEF Shapes, TaskRecord
<1>6. /\ archive' \in [Ops -> Data \union {"deleted", None}]
      /\ \A j \in Ops : archive[j] # None => archive'[j] # None
      /\ ops[i].kind = "backup" => archive'[i] # None
  BY <1>1, <1>5 DEF Finalize, Shapes
<1> HIDE DEF t
<1>7. Promise(i, t)
  BY <1>1, <1>2, <1>4, <1>6 DEF Promise, Shapes, Copied, Counting
<1> QED
  BY <1>1, <1>4, <1>7 DEF Kept

LEMMA FinishKept ==
    ASSUME Sound, NEW i \in Ops, Finish(i) PROVE Kept(i)
<1>1. /\ task[i].pc = "finish" /\ Shapes
      /\ ops[i].kind = "backup" => archive[i] # None
      /\ UNCHANGED <<archive, volume, queue, cycle>>
  BY DEF Finish, Sound, DataKept, hostVars, loopVars
<1>2. SetTask(i, NoTask) /\ SetStatus(i, "succeeded")
  BY DEF Finish
<1>3. Promise(i, NoTask)
  BY <1>1, <1>2, NoTaskType DEF Promise, Shapes, Copied, Counting
<1> QED
  BY <1>1, <1>3, NoTaskType DEF Kept

LEMMA FailsKept ==
    ASSUME Sound, NEW i \in Ops, Fails(i) PROVE Kept(i)
<1>1. /\ task[i].pc # "off" /\ Shapes
      /\ UNCHANGED <<ops, archive, volume, queue, cycle>>
  BY DEF Fails, Sound, hostVars, loopVars
<1> DEFINE one == 1
           t == [task[i] EXCEPT !.pc = "undo", !.at = one]
<1>2. SetTask(i, t)
  BY DEF Fails
<1>3. "undo" \in Pc /\ one \in 0 .. Last /\ one \in Services
  BY BackupAssumption DEF Pc, Services
<1> HIDE DEF one
<1>4. t \in TaskRecord /\ t.pc = "undo" /\ t.at = one
  BY <1>1, <1>3 DEF Shapes, TaskRecord
<1> HIDE DEF t
<1>5. Promise(i, t)
  BY <1>1, <1>2, <1>3, <1>4 DEF Promise, Shapes, Copied, Counting
<1> QED
  BY <1>1, <1>4, <1>5 DEF Kept

LEMMA UndoKept ==
    ASSUME Sound, NEW i \in Ops, Undo(i) PROVE Kept(i)
<1>1. /\ task[i].pc = "undo" /\ Shapes
      /\ UNCHANGED <<archive, volume, queue, cycle>>
  BY DEF Undo, Sound, loopVars
<1>2. CASE task[i].at < Last
  <2> DEFINE at == task[i].at + 1
             t == [task[i] EXCEPT !.at = at]
  <2>1. at \in 0 .. Last /\ at \in Services
    BY <1>1, <1>2, BackupAssumption DEF Shapes, TaskRecord, Services
  <2>2. SetTask(i, t) /\ UNCHANGED ops
    BY <1>2 DEF Undo
  <2> HIDE DEF at
  <2>3. t \in TaskRecord /\ t.pc = "undo" /\ t.at = at
    BY <1>1, <2>1, CounterType
  <2> HIDE DEF t
  <2>4. Promise(i, t)
    BY <1>1, <2>1, <2>2, <2>3 DEF Promise, Shapes, Copied, Counting
  <2> QED
    BY <1>1, <2>3, <2>4 DEF Kept
<1>3. CASE ~(task[i].at < Last)
  <2>1. SetTask(i, NoTask) /\ SetStatus(i, "failed")
    BY <1>3 DEF Undo, Failed
  <2>2. Promise(i, NoTask)
    BY <1>1, <2>1, NoTaskType DEF Promise, Shapes, Copied, Counting
  <2> QED
    BY <1>1, <2>2, NoTaskType DEF Kept
<1> QED
  BY <1>2, <1>3

\* Services are stopped and started, failures counted.
LEMMA TaskHost ==
    ASSUME Sound, HostTyped, NEW i \in Ops, Task(i) PROVE HostTyped'
<1>1. row' = row /\ units' = units /\ loaded' = loaded /\ crashes' = crashes
  BY DEF Task, Acquire, Prepare, StopService, StartCopy, EndCopy, StartService, Finalize, Finish,
         Fails, Undo, hostVars, faultVars
<1>2. written' \in BOOLEAN
  BY DEF Task, Acquire, Prepare, StopService, StartCopy, EndCopy, StartService, Finalize, Finish,
         Fails, Undo, HostTyped
<1>3. faults' \in 0 .. MaxFaults
  <2>1. faults' = faults \/ (faults < MaxFaults /\ faults' = faults + 1)
    BY DEF Task, Acquire, Prepare, StopService, StartCopy, EndCopy, StartService, Finalize, Finish,
           Fails, Undo, faultVars
  <2> QED
    BY <2>1, BackupAssumption DEF HostTyped
<1>4. run' \subseteq Services
  <2>1. task[i].pc \in Counting => task[i].at \in Services
    BY DEF Sound, DataKept
  <2>2. \/ run' = run
        \/ run' = run \ {task[i].at}
        \/ task[i].pc \in Counting /\ run' = run \union {task[i].at}
    BY DEF Task, Acquire, Prepare, StopService, StartCopy, EndCopy, StartService, Finalize, Finish,
           Fails, Undo, hostVars, Counting
  <2> QED
    BY <2>1, <2>2 DEF HostTyped
<1> QED
  BY <1>1, <1>2, <1>3, <1>4 DEF HostTyped

-----------------------------------------------------------------------------
(* The loop, the user, and the theorems.                                   *)

\* A status is set, and an archive may be deleted: the tasks go on.
LEMMA SoundKept ==
    ASSUME Sound, task' = task,
           ops' \in [Ops -> Operation \union {None}],
           \A i \in Ops : ops[i] \in Operation => ops'[i] \in Operation /\ ops'[i].kind = ops[i].kind,
           archive' \in [Ops -> Data \union {"deleted", None}],
           \A i \in Ops : archive[i] # None => archive'[i] # None,
           volume' \in {"whole", "mixed", None}
    PROVE  Sound'
  BY DEF Sound, Shapes, DataKept

\* A backup the user deletes stays a backup that was there.
LEMMA DeleteKeeps ==
    ASSUME Sound, LoopTyped, NEW b \in Ops, DeleteBackup(b)
    PROVE  Sound' /\ LoopTyped' /\ (Listed => Listed')
<1>1. UNCHANGED <<ops, task, volume, queue, cycle>>
  BY DEF DeleteBackup, hostVars, loopVars
<1>2. archive' = [archive EXCEPT ![b] = "deleted"]
  BY DEF DeleteBackup
<1>3. /\ archive' \in [Ops -> Data \union {"deleted", None}]
      /\ \A i \in Ops : archive[i] # None => archive'[i] # None
  BY <1>2, BackupAssumption DEF Sound, Shapes
<1>4. Sound'
  BY <1>1, <1>3, SoundKept DEF Sound, Shapes
<1> QED
  BY <1>1, <1>3, <1>4, OpsKept DEF Listed

\* The status of an operation is all the loop and the reaper change of it.
LEMMA StatusKeeps ==
    ASSUME Sound, NEW i \in Ops, ops[i] # None,
           NEW status \in {"running", "failed", "succeeded"}, SetStatus(i, status),
           UNCHANGED <<task, archive>>, volume' \in {"whole", "mixed", None}
    PROVE  /\ Sound' /\ \A j \in Ops : ops[j] # None => ops'[j] # None
           /\ status # "succeeded" => (Listed => Listed')
<1>1. ops[i] \in Operation /\ Shapes
  BY DEF Sound, Shapes
<1>2. /\ ops' \in [Ops -> Operation \union {None}]
      /\ ops'[i] \in Operation /\ ops'[i].status = status
      /\ \A j \in Ops : j # i => ops'[j] = ops[j]
      /\ ops'[i].kind = ops[i].kind
  BY <1>1, StatusStep
<1>3. Sound'
  BY <1>1, <1>2, SoundKept DEF Shapes
<1>4. \A j \in Ops : ops[j] # None => ops'[j] # None
  BY <1>2, OperationNotNone
<1>5. status # "succeeded" => (Listed => Listed')
  BY <1>1, <1>2, OperationNotNone DEF Listed
<1> QED
  BY <1>3, <1>4, <1>5

LEMMA ReapKeeps ==
    ASSUME Sound, LoopTyped, NEW i \in Ops, Reap(i)
    PROVE  Sound' /\ LoopTyped' /\ (Listed => Listed')
<1>1. /\ ops[i] # None /\ SetStatus(i, "failed")
      /\ UNCHANGED <<task, archive, queue, cycle>> /\ volume' \in {"whole", "mixed", None}
  BY DEF Reap, Sound, Shapes, hostVars, loopVars
<1>2. Sound' /\ (\A j \in Ops : ops[j] # None => ops'[j] # None) /\ (Listed => Listed')
  BY <1>1, StatusKeeps
<1> QED
  BY <1>1, <1>2, OpsKept

\* The actions that ForServices lists: one for each service of the set.
LEMMA ForServicesType ==
    ASSUME NEW op \in {"start", "stop"}, NEW S
    PROVE  ForServices(op, S) \in Seq(Actions)
<1> DEFINE Piece(s) == IF s \in S THEN << <<op, s>> >> ELSE <<>>
           T == {k \in Nat : \E f \in [0 .. k -> Seq(Actions)] :
                    f[0] = <<>> /\ \A s \in 1 .. k : f[s] = f[s - 1] \o Piece(s)}
<1>1. \A s \in Services : Piece(s) \in Seq(Actions)
  <2> TAKE s \in Services
  <2>1. <<op, s>> \in Actions
    BY DEF Actions
  <2> QED
    BY <2>1
<1>2. 0 \in T
  <2> DEFINE f == [s \in 0 .. 0 |-> <<>>]
  <2>1. f \in [0 .. 0 -> Seq(Actions)] /\ f[0] = <<>>
    OBVIOUS
  <2>2. \A s \in 1 .. 0 : f[s] = f[s - 1] \o Piece(s)
    OBVIOUS
  <2> HIDE DEF f, Piece
  <2> QED
    BY <2>1, <2>2
<1> HIDE DEF Piece
<1>3. ASSUME NEW k \in 1 .. Last, k - 1 \in T PROVE k \in T
  <2>1. PICK f \in [0 .. k - 1 -> Seq(Actions)] :
           f[0] = <<>> /\ \A s \in 1 .. k - 1 : f[s] = f[s - 1] \o Piece(s)
    BY <1>3
  <2> DEFINE new == f[k - 1] \o Piece(k)
             g == [s \in 0 .. k |-> IF s = k THEN new ELSE f[s]]
  <2>2. k \in Nat /\ k - 1 \in 0 .. k - 1 /\ k \in Services /\ k # 0
        /\ \A s \in 0 .. k : s # k => s \in 0 .. k - 1
    BY BackupAssumption DEF Services
  <2>3. new \in Seq(Actions)
    <3>1. f[k - 1] \in Seq(Actions) /\ Piece(k) \in Seq(Actions)
      BY <1>1, <2>2
    <3> QED
      BY <3>1, ConcatProperties
  <2> HIDE DEF new
  <2>4. g \in [0 .. k -> Seq(Actions)] /\ g[0] = <<>>
    BY <2>1, <2>2, <2>3
  <2>5. \A s \in 1 .. k : g[s] = g[s - 1] \o Piece(s)
    <3> TAKE s \in 1 .. k
    <3>1. s \in 0 .. k /\ s - 1 \in 0 .. k /\ s - 1 # k /\ (s # k => s \in 1 .. k - 1)
      BY <2>2
    <3>2. CASE s = k
      <4>1. g[s] = new /\ g[s - 1] = f[k - 1]
        BY <3>1, <3>2
      <4> QED
        BY <3>2, <4>1 DEF new
    <3>3. CASE s # k
      <4>1. g[s] = f[s] /\ g[s - 1] = f[s - 1]
        BY <3>1, <3>3
      <4>2. f[s] = f[s - 1] \o Piece(s)
        BY <2>1, <3>1, <3>3
      <4> HIDE DEF g
      <4> QED
        BY <4>1, <4>2
    <3> QED
      BY <3>2, <3>3
  <2> HIDE DEF g
  <2> QED
    BY <2>2, <2>4, <2>5
<1>4. Last \in T
  <2> HIDE DEF T
  <2>1. 0 .. Last \subseteq T
    BY <1>2, <1>3, BackupAssumption, UpTo
  <2> QED
    BY <2>1, BackupAssumption
<1>5. PICK f \in [0 .. Last -> Seq(Actions)] :
         f[0] = <<>> /\ \A s \in 1 .. Last : f[s] = f[s - 1] \o Piece(s)
  BY <1>4
<1> DEFINE Is(g) == g = [s \in 0 .. Last |-> IF s = 0 THEN <<>> ELSE g[s - 1] \o Piece(s)]
           step == CHOOSE g : Is(g)
<1>6. ForServices(op, S) = step[Last]
  BY DEF ForServices, Piece
<1>7. Is(f)
  <2>1. \A s \in 0 .. Last : f[s] = IF s = 0 THEN <<>> ELSE f[s - 1] \o Piece(s)
    <3> TAKE s \in 0 .. Last
    <3>1. s # 0 => s \in 1 .. Last
      BY BackupAssumption
    <3> QED
      BY <1>5, <3>1
  <2>2. [s \in 0 .. Last |-> f[s]] = [s \in 0 .. Last |-> IF s = 0 THEN <<>> ELSE f[s - 1] \o Piece(s)]
    BY <2>1
  <2>3. f = [s \in 0 .. Last |-> f[s]]
    OBVIOUS
  <2> QED
    BY <2>2, <2>3
<1>8. Is(step)
  <2> HIDE DEF Is
  <2> QED
    BY <1>7
<1> HIDE DEF step
<1>9. /\ step[0] = <<>>
      /\ \A s \in 1 .. Last : s - 1 \in 0 .. Last /\ step[s] = step[s - 1] \o Piece(s)
  <2>1. \A s \in 0 .. Last : step[s] = IF s = 0 THEN <<>> ELSE step[s - 1] \o Piece(s)
    BY <1>8
  <2>2. 0 \in 0 .. Last /\ \A s \in 1 .. Last : s \in 0 .. Last /\ s # 0 /\ s - 1 \in 0 .. Last
    BY BackupAssumption
  <2> HIDE DEF Is
  <2> QED
    BY <2>1, <2>2
<1> DEFINE U == {k \in Nat : step[k] \in Seq(Actions)}
<1>10. 0 \in U
  <2>1. <<>> \in Seq(Actions) /\ 0 \in Nat
    OBVIOUS
  <2> QED
    BY <1>9, <2>1
<1>11. ASSUME NEW k \in 1 .. Last, k - 1 \in U PROVE k \in U
  <2> DEFINE before == step[k - 1]
             piece == Piece(k)
  <2> HIDE DEF Is
  <2>1. before \in Seq(Actions)
    BY <1>11
  <2>2. piece \in Seq(Actions) /\ k \in Nat
    BY <1>1, BackupAssumption DEF Services
  <2>3. step[k] = before \o piece
    BY <1>9
  <2> HIDE DEF before, piece
  <2>4. before \o piece \in Seq(Actions)
    BY <2>1, <2>2, ConcatProperties
  <2> QED
    BY <2>2, <2>3, <2>4
<1>12. Last \in U
  <2> HIDE DEF U
  <2>1. 0 .. Last \subseteq U
    BY <1>10, <1>11, BackupAssumption, UpTo
  <2> QED
    BY <2>1, BackupAssumption
<1> QED
  BY <1>6, <1>12

LEMMA PlanType == Plan \in Seq(Actions)
<1> DEFINE starts == ForServices("start", Services \ run)
           stops == ForServices("stop", run)
           ensure == << <<"ensureVolume", 0>> >>
           units2 == << <<"removeUnits", 0>>, <<"reload", 0>> >>
           remove == << <<"removeVolume", 0>> >>
           nothing == <<>>
<1>1. starts \in Seq(Actions) /\ stops \in Seq(Actions)
  BY ForServicesType
<1>2. /\ ensure \in Seq(Actions) /\ units2 \in Seq(Actions) /\ remove \in Seq(Actions)
      /\ nothing \in Seq(Actions)
  <2>1. \A a \in {"ensureVolume", "removeVolume", "removeUnits", "reload"} : <<a, 0>> \in Actions
    BY DEF Actions
  <2> QED
    BY <2>1
<1> DEFINE first == IF volume = None THEN ensure ELSE nothing
           last == IF volume = None THEN nothing ELSE remove
<1>3. first \in Seq(Actions) /\ last \in Seq(Actions)
  BY <1>2
<1>4. Plan = IF row \in Active THEN first \o starts
             ELSE IF ~Observed THEN nothing
             ELSE (stops \o units2) \o last
  BY DEF Plan, Inactive
<1> HIDE DEF starts, stops, units2, nothing, first, last
<1>5. first \o starts \in Seq(Actions) /\ stops \o units2 \in Seq(Actions)
  BY <1>1, <1>2, <1>3, ConcatProperties
<1>6. (stops \o units2) \o last \in Seq(Actions)
  BY <1>3, <1>5, ConcatProperties
<1> QED
  BY <1>2, <1>4, <1>5, <1>6

\* A cycle ends: its operation gets a status, its stack another.
LEMMA ConcludeKeeps ==
    ASSUME Sound, HostTyped, NEW op \in Ops \union {None}, op # None => ops[op] # None,
           NEW desired \in BOOLEAN, NEW ok \in BOOLEAN, Conclude(op, desired, ok),
           UNCHANGED <<task, archive, volume>>
    PROVE  /\ Sound' /\ (\A j \in Ops : ops[j] # None => ops'[j] # None)
           /\ row' \in Active \union {"deleting", None} /\ cycle' = Idle
           /\ op = None => ops' = ops
<1>1. row' \in Active \union {"deleting", None} /\ cycle' = Idle
  BY DEF Conclude, StatusAfter, Active
<1>2. volume' \in {"whole", "mixed", None}
  BY DEF Sound, Shapes
<1>3. CASE op = None
  <2>1. ops' = ops
    BY <1>3 DEF Conclude
  <2> QED
    BY <1>1, <1>2, <1>3, <2>1 DEF Sound, Shapes, DataKept
<1>4. CASE op # None
  <2> DEFINE status == IF ok THEN "succeeded" ELSE "failed"
  <2>1. op \in Ops /\ ops[op] # None /\ SetStatus(op, status)
    BY <1>4 DEF Conclude
  <2>2. status \in {"running", "failed", "succeeded"}
    OBVIOUS
  <2> HIDE DEF status
  <2>3. Sound' /\ \A j \in Ops : ops[j] # None => ops'[j] # None
    BY <1>2, <2>1, <2>2, StatusKeeps
  <2> QED
    BY <1>1, <1>4, <2>3
<1> QED
  BY <1>3, <1>4

LEMMA AfterIdle ==
    ASSUME cycle' = Idle, queue' \in Ops \union {None}, queue' # None => ops'[queue'] # None
    PROVE  LoopTyped' /\ (queue' = None => LoopWithoutOps')
  BY IdleType DEF LoopTyped, LoopWithoutOps

LoopKept ==
    /\ Sound' /\ HostTyped' /\ LoopTyped'
    /\ LoopWithoutOps => LoopWithoutOps' /\ UNCHANGED <<ops, archive>>

LEMMA BeginKeeps ==
    ASSUME Sound, HostTyped, LoopTyped, BeginCycle PROVE LoopKept
<1>1. /\ queue \in Ops \union {None} /\ (queue # None => ops[queue] # None) /\ queue' = None
      /\ UNCHANGED <<units, loaded, run, volume, task, archive, written, faults, crashes>>
  BY DEF BeginCycle, LoopTyped, hostVars, faultVars
<1> DEFINE desired == row \in Active
<1>2. desired \in BOOLEAN /\ TRUE \in BOOLEAN
  OBVIOUS
<1>3. CASE Plan = <<>>
  <2>1. Conclude(queue, desired, TRUE)
    BY <1>3 DEF BeginCycle
  <2> HIDE DEF desired
  <2>2. /\ Sound' /\ (\A j \in Ops : ops[j] # None => ops'[j] # None)
        /\ row' \in Active \union {"deleting", None} /\ cycle' = Idle
        /\ queue = None => ops' = ops
    BY <1>1, <1>2, <2>1, ConcludeKeeps
  <2>3. LoopTyped' /\ LoopWithoutOps'
    BY <1>1, <2>2, AfterIdle
  <2> QED
    BY <1>1, <2>2, <2>3 DEF LoopKept, HostTyped, LoopWithoutOps
<1>4. CASE Plan # <<>>
  <2> DEFINE p == Plan
             c == [pc |-> "apply", plan |-> p, op |-> queue, desired |-> desired]
  <2>1. cycle' = c /\ row' = row
        /\ (queue = None => ops' = ops) /\ (queue # None => SetStatus(queue, "running"))
    BY <1>4 DEF BeginCycle
  <2>2. p \in Seq(Actions)
    BY PlanType
  <2> HIDE DEF p, desired
  <2>3. c \in Cycle /\ c.op = queue /\ c.pc = "apply"
    BY <1>1, <1>2, <2>2 DEF Cycle
  <2> HIDE DEF c
  <2>4. Sound' /\ \A j \in Ops : ops[j] # None => ops'[j] # None
    <3>1. volume' \in {"whole", "mixed", None}
      BY <1>1 DEF Sound, Shapes
    <3>2. CASE queue = None
      BY <1>1, <2>1, <3>1, <3>2 DEF Sound, Shapes, DataKept
    <3>3. CASE queue # None
      BY <1>1, <2>1, <3>1, <3>3, StatusKeeps
    <3> QED
      BY <3>2, <3>3
  <2>5. LoopTyped'
    BY <1>1, <2>1, <2>3, <2>4 DEF LoopTyped
  <2>6. LoopWithoutOps => LoopWithoutOps' /\ UNCHANGED <<ops, archive>>
    BY <1>1, <2>1, <2>3 DEF LoopWithoutOps
  <2> QED
    BY <1>1, <2>1, <2>4, <2>5, <2>6 DEF LoopKept, HostTyped
<1> QED
  BY <1>3, <1>4

LEMMA ExecuteKeeps ==
    ASSUME Sound, HostTyped, LoopTyped, ExecuteAction PROVE LoopKept
<1> DEFINE a == Head(cycle.plan)
           rest == Tail(cycle.plan)
           c == [cycle EXCEPT !.plan = rest]
<1>1. cycle \in Cycle /\ cycle.plan \in Seq(Actions) /\ cycle.plan # <<>>
  BY DEF LoopTyped, Cycle, ExecuteAction
<1>2. a \in Actions /\ rest \in Seq(Actions)
  BY <1>1, HeadTailProperties
<1>3. a[1] = "start" => a[2] \in Services
  BY <1>2 DEF Actions
<1>4. UNCHANGED <<row, ops, task, archive, queue, faults, crashes>> /\ cycle' = c
  BY DEF ExecuteAction, faultVars
<1>5. run' \subseteq Services
  <2>1. run' \subseteq run \/ (a[1] = "start" /\ run' = run \union {a[2]})
    BY DEF ExecuteAction
  <2> HIDE DEF a
  <2> QED
    BY <1>3, <2>1 DEF HostTyped
<1>6. units' \in BOOLEAN /\ loaded' \in BOOLEAN /\ written' \in BOOLEAN
  BY DEF ExecuteAction, HostTyped
<1>7. volume' \in {"whole", "mixed", None}
  BY DEF ExecuteAction, Sound, Shapes
<1> HIDE DEF a, rest
<1>8. c \in Cycle /\ c.op = cycle.op /\ c.pc = cycle.pc
  BY <1>1, <1>2 DEF Cycle
<1> HIDE DEF c
<1>9. Sound'
  BY <1>4, <1>7 DEF Sound, Shapes, DataKept
<1>10. HostTyped'
  BY <1>4, <1>5, <1>6 DEF HostTyped
<1>11. LoopTyped' /\ (LoopWithoutOps => LoopWithoutOps')
  BY <1>4, <1>8 DEF LoopTyped, LoopWithoutOps
<1> QED
  BY <1>4, <1>9, <1>10, <1>11 DEF LoopKept

LEMMA EndKeeps ==
    ASSUME Sound, HostTyped, LoopTyped, FinishCycle \/ ActionFails PROVE LoopKept
<1>1. /\ cycle.op \in Ops \union {None} /\ (cycle.op # None => ops[cycle.op] # None)
      /\ cycle.desired \in BOOLEAN
      /\ queue \in Ops \union {None} /\ (queue # None => ops[queue] # None)
  BY DEF LoopTyped, Cycle
<1>2. /\ UNCHANGED <<units, loaded, run, volume, task, archive, written, queue, crashes>>
      /\ faults' = faults \/ (faults < MaxFaults /\ faults' = faults + 1)
  BY DEF FinishCycle, ActionFails, hostVars, faultVars
<1>3. faults' \in 0 .. MaxFaults
  BY <1>2, BackupAssumption DEF HostTyped
<1> DEFINE op == cycle.op
           desired == cycle.desired
<1>4. PICK ok \in BOOLEAN : Conclude(op, desired, ok)
  BY DEF FinishCycle, ActionFails
<1>5. /\ op \in Ops \union {None} /\ (op # None => ops[op] # None) /\ desired \in BOOLEAN
  BY <1>1
<1> HIDE DEF op, desired
<1>6. /\ Sound' /\ (\A j \in Ops : ops[j] # None => ops'[j] # None)
      /\ row' \in Active \union {"deleting", None} /\ cycle' = Idle
      /\ op = None => ops' = ops
  BY <1>2, <1>4, <1>5, ConcludeKeeps
<1>7. LoopTyped' /\ (queue' = None => LoopWithoutOps')
  BY <1>1, <1>2, <1>6, AfterIdle
<1>8. HostTyped'
  BY <1>2, <1>3, <1>6 DEF HostTyped
<1> QED
  BY <1>2, <1>6, <1>7, <1>8 DEF LoopKept, LoopWithoutOps, op

LEMMA RecoverKeeps ==
    ASSUME Sound, HostTyped, LoopTyped, Recover PROVE LoopKept
<1>1. /\ UNCHANGED <<row, units, loaded, run, volume, ops, task, archive, written, faults, crashes>>
      /\ cycle.pc = "recover" /\ cycle' = Idle
      /\ queue' \in Ops \union {None} /\ (queue' # None => ops[queue'] # None)
  BY DEF Recover, hostVars, faultVars
<1>2. LoopTyped'
  BY <1>1, AfterIdle
<1>3. Sound' /\ HostTyped'
  BY <1>1 DEF Sound, Shapes, DataKept, HostTyped
<1> QED
  BY <1>1, <1>2, <1>3 DEF LoopKept, LoopWithoutOps

\* A restart leaves operations without their tasks.
LEMMA CrashKeeps ==
    ASSUME Sound, HostTyped, LoopTyped, Crash PROVE Sound' /\ HostTyped' /\ LoopTyped' /\ crashes' # 0
<1>1. /\ UNCHANGED <<row, units, loaded, run, volume, ops, archive, written, faults>>
      /\ task' = [i \in Ops |-> NoTask] /\ queue' = None
      /\ cycle' = [Idle EXCEPT !.pc = "recover"]
      /\ crashes < MaxCrashes /\ crashes' = crashes + 1
  BY DEF Crash, hostVars
<1>2. Sound'
  BY <1>1, NoTaskType DEF Sound, Shapes, DataKept, Copied, Counting
<1>3. HostTyped' /\ crashes' # 0
  BY <1>1, BackupAssumption DEF HostTyped
<1>4. cycle' \in Cycle /\ cycle'.op = None
  BY <1>1, IdleType DEF Cycle
<1> QED
  BY <1>1, <1>2, <1>3, <1>4 DEF LoopTyped

LEMMA NextIInv ==
    ASSUME IInv, [Next]_vars PROVE IInv'
<1> USE DEF IInv
<1>1. CASE UNCHANGED vars
  BY <1>1 DEF vars, Sound, Shapes, DataKept, HostTyped, LoopTyped, LoopWithoutOps, Listed
<1>2. CASE Crash
  BY <1>2, CrashKeeps
<1>3. ASSUME Sound', LoopTyped', Listed => Listed', HostTyped', crashes' = crashes,
             queue' = queue, cycle' = cycle
      PROVE  IInv'
  BY <1>3 DEF LoopWithoutOps
<1>4. CASE RequestBackup \/ RequestRestore
  <2>1. PICK kind \in {"backup", "restore"}, from \in Ops \union {None} : Request(kind, from)
    BY <1>4 DEF RequestBackup, RequestRestore
  <2>2. Sound' /\ LoopTyped' /\ (Listed => Listed')
    BY <2>1, RequestKeeps
  <2>3. HostTyped' /\ crashes' = crashes /\ queue' = queue /\ cycle' = cycle
    BY <2>1 DEF Request, HostTyped, hostVars, loopVars, faultVars
  <2> QED
    BY <1>3, <2>2, <2>3
<1>5. CASE DeleteStack \/ ServiceWrites
  <2>1. /\ UNCHANGED <<units, loaded, run, volume, ops, task, archive, queue, cycle, faults, crashes>>
        /\ row' \in Active \union {"deleting", None} /\ written' \in BOOLEAN
    BY <1>5 DEF DeleteStack, ServiceWrites, hostVars, loopVars, faultVars, HostTyped
  <2>2. HostTyped'
    BY <2>1 DEF HostTyped
  <2>3. Sound' /\ LoopTyped' /\ (Listed => Listed')
    BY <2>1 DEF Sound, Shapes, DataKept, LoopTyped, Listed
  <2> QED
    BY <1>3, <2>1, <2>2, <2>3
<1>6. ASSUME NEW i \in Ops, Task(i) PROVE IInv'
  <2>1. Kept(i)
    BY <1>6, AcquireKept, PrepareKept, StopKept, StartCopyKept, EndCopyKept, StartKept,
       FinalizeKept, FinishKept, FailsKept, UndoKept DEF Task
  <2>2. Sound' /\ LoopTyped' /\ (Listed => Listed')
    BY <2>1, TaskStep
  <2>3. HostTyped'
    BY <1>6, TaskHost
  <2>4. crashes' = crashes /\ queue' = queue /\ cycle' = cycle
    BY <1>6 DEF Task, Acquire, Prepare, StopService, StartCopy, EndCopy, StartService,
                Finalize, Finish, Fails, Undo, loopVars, faultVars
  <2> QED
    BY <1>3, <2>2, <2>3, <2>4
<1>7. ASSUME NEW i \in Ops, Reap(i) \/ DeleteBackup(i) PROVE IInv'
  <2>1. Sound' /\ LoopTyped' /\ (Listed => Listed')
    BY <1>7, ReapKeeps, DeleteKeeps
  <2>2. HostTyped' /\ crashes' = crashes /\ queue' = queue /\ cycle' = cycle
    BY <1>7 DEF Reap, DeleteBackup, HostTyped, hostVars, loopVars, faultVars
  <2> QED
    BY <1>3, <2>1, <2>2
<1>8. CASE Loop
  <2>1. LoopKept
    BY <1>8, BeginKeeps, ExecuteKeeps, EndKeeps, RecoverKeeps DEF Loop
  <2>2. crashes' = crashes
    BY <1>8 DEF Loop, BeginCycle, ExecuteAction, FinishCycle, ActionFails, Recover, faultVars
  <2> QED
    BY <2>1, <2>2 DEF LoopKept, Listed
<1> QED
  BY <1>1, <1>2, <1>4, <1>5, <1>6, <1>7, <1>8 DEF Next

LEMMA AlwaysIInv == Spec => []IInv
<1>1. Init => IInv
  BY InitIInv
<1>2. IInv /\ [Next]_vars => IInv'
  BY NextIInv
<1> QED
  BY <1>1, <1>2, PTL DEF Spec

\* The rows, tasks and host have their types whatever fails and however often
\* the panel is restarted: every counter stays at a service, every plan of
\* the loop is one of actions, and no task outlives its operation.
THEOREM StackBackupTypes == Spec => []TypeOK
<1>1. IInv => TypeOK
  <2> SUFFICES ASSUME IInv PROVE TypeOK
    OBVIOUS
  <2>1. \A i \in Ops : /\ task[i].at \in 0 .. Last /\ task[i].from \in Ops \union {None}
                       /\ task[i].data \in Data \union {None}
                       /\ task[i].pc # "off" => ops[i] # None
    BY OperationNotNone DEF IInv, Sound, Shapes, TaskRecord
  <2>2. /\ cycle.pc \in {"idle", "apply", "recover"} /\ {cycle.op, queue} \subseteq Ops \union {None}
        /\ \A k \in 1 .. Len(cycle.plan) : cycle.plan[k] \in Actions
    <3>1. cycle.plan \in Seq(Actions)
      BY DEF IInv, LoopTyped, Cycle
    <3>2. \A k \in 1 .. Len(cycle.plan) : cycle.plan[k] \in Actions
      BY <3>1, ElementOfSeq
    <3> QED
      BY <3>2 DEF IInv, LoopTyped, Cycle
  <2> QED
    BY <2>1, <2>2 DEF IInv, Sound, Shapes, HostTyped, TypeOK, Operation
<1> QED
  BY <1>1, AlwaysIInv, PTL

\* A backup reported as succeeded is there, unless the user deleted it: the
\* order of Finalize and Finish, the failure handler and the reaper keep it,
\* however many services, operations and failures there are.
THEOREM BackupsArchived == Spec => []SucceededMeansArchived
<1>1. IInv => SucceededMeansArchived
  BY DEF IInv, Listed, SucceededMeansArchived
<1> QED
  BY <1>1, AlwaysIInv, PTL
=============================================================================
