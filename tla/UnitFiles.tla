------------------------------ MODULE UnitFiles ------------------------------
(***************************************************************************)
(* What WriteUnits leaves on a host, and what an observer reads back.  A   *)
(* blueprint renders the rows of a stack, rows become a spec, a spec a set *)
(* of unit files in two directories and environment files in a third; runs *)
(* write them one by one, may break anywhere, and work beside the runs of  *)
(* other stacks of the tenant in the same directories.  A slug may contain *)
(* hyphens: names are sequences of words, and "shop" with its "api-web" is *)
(* "shop-api" with its "web".                                              *)
(***************************************************************************)
EXTENDS PanelBase, Sequences, SequencesExt

CONSTANTS
    UnStacks,       \* names of stacks, each a sequence of words
    UnBlueprints,   \* blueprints that stacks are created from
    UnMaxOps,       \* bound: requests to create, edit or delete a stack
    UnMaxFaults     \* bound: runs that break

ASSUME UnAssumption ==
    /\ UnStacks \subseteq Seq(STRING) /\ <<>> \notin UnStacks
    /\ UnBlueprints \subseteq {"raw-image", "wordpress", "git", "compose"}
    /\ UnMaxOps \in Nat /\ UnMaxFaults \in Nat

VARIABLES
    unRow,      \* unRow[s]: None, or the spec the rows of stack s stand for
    unGoing,    \* stacks to be deleted
    unFiles,    \* unit files: records of name and unit
    unEnv,      \* environment files: records of stack, service and env
    unDirs,     \* directories of volumes: records of stack and volume
    unPods,     \* containers that run: records of name and stack
    unRun,      \* unRun[s]: the run of stack s, or None
    unDone,     \* unDone[s]: the spec the last complete run of s was for
    unClash,    \* stacks that had to share the name of a file with another
    unOps,      \* how many requests have come
    unFaults    \* how many runs have broken

unHost == <<unFiles, unEnv, unDirs, unPods>>
unVars == <<unRow, unGoing, unHost, unRun, unDone, unClash, unOps, unFaults>>

-----------------------------------------------------------------------------
(* Blueprints: the services and volumes a stack is created with.           *)

Web == <<"web">>
Service(build, env) == [build |-> build, env |-> env]
Rendered(services, volumes, domain) ==
    [services |-> services, volumes |-> volumes, domain |-> domain, gen |-> 1]

\* One image, with variables and a volume.
RawImage == Rendered([n \in {Web} |-> Service("none", "e1")], {<<"data", Web>>}, None)

WordPress ==
    Rendered([n \in {Web, <<"db">>, <<"adminer">>, <<"files">>} |->
                 Service("none", IF n \in {Web, <<"db">>} THEN "e1" ELSE None)],
             {<<"html", Web>>, <<"db-data", <<"db">>>>, <<"html", <<"files">>>>}, "d1")

\* One service built from a repository.
GitApps == {Rendered([n \in {Web} |-> Service(tool, None)], {}, None) : tool \in {"dockerfile", "nixpacks"}}

\* Services have the names they have in the file.
Composed == Rendered([n \in {<<"api", "web">>} |-> Service("none", None)], {}, None)

Renderings(blueprint) ==
    CASE blueprint = "raw-image" -> {RawImage}
      [] blueprint = "wordpress" -> {WordPress}
      [] blueprint = "git" -> GitApps
      [] blueprint = "compose" -> {Composed}

-----------------------------------------------------------------------------
(* Specs and the files they stand for.  A row is what was rendered, with   *)
(* the domain and the generation.                                          *)

ServicesOf(spec) == DOMAIN spec.services
VolumesOf(spec) == {v[1] : v \in spec.volumes}
Built(spec) == {n \in ServicesOf(spec) : spec.services[n].build # "none"}

\* spec_for(): every container learns the domains of the stack.
EnvOf(spec, n) ==
    IF spec.services[n].env = None /\ spec.domain = None THEN None
    ELSE [user |-> spec.services[n].env, magic |-> spec.domain]

Mounts(spec, n) == {v \in spec.volumes : v[2] = n}

\* Mutation: variables do not count, nor does the generation that they bump.
HashOfShape(spec, n) ==
    [build |-> spec.services[n].build, env |-> None, volumes |-> Mounts(spec, n), gen |-> 0]

\* spec_hash()
HashOf(spec, n) ==
    [build |-> spec.services[n].build, env |-> EnvOf(spec, n),
     volumes |-> Mounts(spec, n), gen |-> spec.gen]

FileName(words, suffix) == [words |-> words, suffix |-> suffix]

\* A volume that only one service mounts is handed to the user of its image.
ContainerUnit(s, spec, n) ==
    [name |-> FileName(s \o n, "container"),
     unit |-> [stack |-> s, service |-> n, hash |-> HashOf(spec, n),
               env |-> EnvOf(spec, n) # None, build |-> spec.services[n].build,
               owned |-> {v \in Mounts(spec, n) :
                             Cardinality({w \in spec.volumes : w[1] = v[1]}) = 1}]]

NetworkUnit(s) == [name |-> FileName(s, "network"), unit |-> [stack |-> s, service |-> None]]

BuildUnit(s, spec, n) ==
    [name |-> FileName(s \o n \o <<IF spec.services[n].build = "nixpacks" THEN "nixpacks" ELSE "build">>,
                       "service"),
     unit |-> [stack |-> s, service |-> n, hash |-> HashOf(spec, n)]]

GitSyncUnit(s) ==
    [name |-> FileName(s \o <<"git", "sync">>, "service"), unit |-> [stack |-> s, service |-> None]]

\* unit_files()
UnitFilesOf(s, spec) ==
    {NetworkUnit(s)} \cup {ContainerUnit(s, spec, n) : n \in ServicesOf(spec)}
    \cup {BuildUnit(s, spec, n) : n \in Built(spec)}
    \cup {GitSyncUnit(s) : n \in Built(spec)}

\* env_files()
EnvFilesOf(s, spec) ==
    {[stack |-> s, service |-> n, env |-> EnvOf(spec, n)] :
        n \in {m \in ServicesOf(spec) : EnvOf(spec, m) # None}}

Clash(s, spec, t, other) ==
    \E n \in ServicesOf(spec), m \in ServicesOf(other) : s \o n = t \o m

-----------------------------------------------------------------------------
(* What is found on the host.                                              *)

\* Files are told apart by the marker of the stack they carry.
FilesOf(s) == {f \in unFiles : f.unit.stack = s}

\* Builds are plain services of systemd.
IsBuild(f) == f.name.suffix = "service"

PodsOf(s) == {p \in unPods : p.stack = s}
ServiceOf(p) == IF IsPrefix(p.stack, p.name)
                THEN SubSeq(p.name, Len(p.stack) + 1, Len(p.name)) ELSE p.name

\* Files without a service only show that the stack is there, containers
\* without a file that they run.
Observe(s) ==
    LET units == {f \in FilesOf(s) : f.unit.service # None /\ ~IsBuild(f)}
        builds == {f \in FilesOf(s) : f.unit.service # None /\ IsBuild(f)}
        Named(files) == {f.unit.service : f \in files}
        Hash(files, n) == (CHOOSE f \in files : f.unit.service = n).unit.hash
    IN [units |-> [n \in Named(units) \cup {ServiceOf(p) : p \in PodsOf(s)} |->
                      IF n \in Named(units)
                      THEN [hash |-> Hash(units, n), active |-> \E p \in unPods : p.name = s \o n]
                      ELSE [hash |-> None, active |-> TRUE]],
        builds |-> [n \in Named(builds) |-> Hash(builds, n)],
        volumes |-> {d.volume : d \in {e \in unDirs : e.stack = s}},
        found |-> FilesOf(s) # {} \/ PodsOf(s) # {} \/ \E d \in unDirs : d.stack = s]

\* What an observer sees of a spec that is there.
Projected(spec) ==
    [units |-> [n \in ServicesOf(spec) |-> [hash |-> HashOf(spec, n), active |-> TRUE]],
     builds |-> [n \in Built(spec) |-> HashOf(spec, n)],
     volumes |-> VolumesOf(spec), found |-> TRUE]

-----------------------------------------------------------------------------
(* Requests.                                                               *)

Asked == unOps < UnMaxOps /\ unOps' = unOps + 1

CreateUnits(s) ==
    /\ Asked /\ unRow[s] = None
    /\ \E b \in UnBlueprints : \E spec \in Renderings(b) :
         LET rivals == {t \in UnStacks \ {s} : unRow[t] # None /\ Clash(s, spec, t, unRow[t])}
         IN /\ unRow' = [unRow EXCEPT ![s] = spec]
            /\ unClash' = unClash \cup rivals \cup {x \in {s} : rivals # {}}
    /\ UNCHANGED <<unGoing, unHost, unRun, unDone, unFaults>>

\* A domain; the salts of a WordPress; or anything else of a service, its
\* image, exposure, health check or commands.  Each takes a generation.
\* Other variables are rendered once and kept.
EditUnits(s) ==
    /\ Asked /\ unRow[s] # None /\ s \notin unGoing
    /\ \/ unRow' = [unRow EXCEPT ![s].domain = IF @ = "d1" THEN "d2" ELSE "d1", ![s].gen = @ + 1]
       \/ /\ ServicesOf(unRow[s]) = ServicesOf(WordPress)
          /\ unRow' = [unRow EXCEPT ![s].services[Web].env = IF @ = "e1" THEN "e2" ELSE "e1",
                                    ![s].gen = @ + 1]
       \/ unRow' = [unRow EXCEPT ![s].gen = @ + 1]
    /\ UNCHANGED <<unGoing, unHost, unRun, unDone, unClash, unFaults>>

DeleteUnits(s) ==
    /\ Asked /\ unRow[s] # None /\ s \notin unGoing
    /\ unGoing' = unGoing \cup {s}
    /\ UNCHANGED <<unRow, unHost, unRun, unDone, unClash, unFaults>>

-----------------------------------------------------------------------------
(* Runs.                                                                   *)

Steps(name, set) == SetToSeq({<<name, x>> : x \in set})

\* plan(), as far as it concerns files.
ConvergeSteps(spec, obs) ==
    LET known == DOMAIN obs.units
        stale == {n \in ServicesOf(spec) : n \notin known \/ obs.units[n].hash # HashOf(spec, n)}
        extra == known \ ServicesOf(spec)
        rewrite == \/ stale # {} \/ extra # {} \/ DOMAIN obs.builds # Built(spec)
                   \/ \E n \in Built(spec) : obs.builds[n] # HashOf(spec, n)
        started == {n \in ServicesOf(spec) : n \in stale \/ ~obs.units[n].active}
    IN Steps("mkdir", VolumesOf(spec) \ obs.volumes)
       \o Steps("stop", {n \in extra : obs.units[n].active})
       \o (IF rewrite THEN <<<<"env", None>>, <<"quadlet", None>>, <<"user", None>>>> ELSE <<>>)
       \o Steps("start", started) \o Steps("rmdir", obs.volumes \ VolumesOf(spec))

TeardownSteps(obs) ==
    IF ~obs.found THEN <<>>
    ELSE Steps("stop", {n \in DOMAIN obs.units : obs.units[n].active})
         \o <<<<"quadlet", None>>, <<"user", None>>, <<"env", None>>, <<"pods", None>>>>
         \o Steps("rmdir", obs.volumes)

\* Rows of a stack that is to be deleted are not desired.
BeginUnits(s) ==
    /\ unRun[s] = None
    /\ LET obs == Observe(s)
           desired == unRow[s] # None /\ s \notin unGoing
       IN /\ IF desired THEN obs # Projected(unRow[s]) ELSE obs.found \/ s \in unGoing
          /\ unRun' = [unRun EXCEPT ![s] =
               [spec |-> IF desired THEN unRow[s] ELSE None, ops |-> {},
                steps |-> IF desired THEN ConvergeSteps(unRow[s], obs) ELSE TeardownSteps(obs)]]
    /\ UNCHANGED <<unRow, unGoing, unHost, unDone, unClash, unOps, unFaults>>

AtStep(s, name) ==
    /\ unRun[s] # None /\ unRun[s].ops = {} /\ unRun[s].steps # <<>>
    /\ Head(unRun[s].steps)[1] = name
StepArg(s) == Head(unRun[s].steps)[2]

\* The operations of a step that syncs a directory, the next step otherwise.
Proceed(s, ops) == unRun' = [unRun EXCEPT ![s].steps = Tail(@), ![s].ops = ops]

InDir(name, f) == (name = "user") <=> (f.name.suffix = "service")

\* What differs is written, then what is not desired is unlinked.
SyncUnitDir(s, name) ==
    /\ AtStep(s, name)
    /\ LET found == {f \in FilesOf(s) : InDir(name, f)}
           desired == IF unRun[s].spec = None THEN {}
                      ELSE {f \in UnitFilesOf(s, unRun[s].spec) : InDir(name, f)}
       IN Proceed(s, {<<"write", f>> : f \in desired \ found} \cup
                     {<<"unlink", f>> : f \in {g \in found : \A h \in desired : h.name # g.name}})
    /\ UNCHANGED <<unRow, unGoing, unHost, unDone, unClash, unOps, unFaults>>

SyncEnvDir(s) ==
    /\ AtStep(s, "env")
    /\ LET found == {f \in unEnv : f.stack = s}
           desired == IF unRun[s].spec = None THEN {} ELSE EnvFilesOf(s, unRun[s].spec)
       IN Proceed(s, {<<"write", f>> : f \in desired \ found} \cup
                     {<<"unlink", f>> : f \in {g \in found : \A h \in desired : h.service # g.service}})
    /\ UNCHANGED <<unRow, unGoing, unHost, unDone, unClash, unOps, unFaults>>

\* The order of the files in unit_files(): the network comes first, the sync of
\* the repository last.  What is not desired goes after all of them.
Rank(op) == CASE op[1] = "unlink" -> 3
              [] "env" \in DOMAIN op[2] -> 1
              [] op[2].name.suffix = "network" -> 0
              [] op[2].unit.service = None -> 2
              [] OTHER -> 1

NextFile(ops) == CHOOSE op \in ops : \A other \in ops : Rank(op) <= Rank(other)

\* One file at a time, those of services in a fixed order.  A path belongs to
\* whoever wrote it last.
FileOp(s) ==
    /\ unRun[s] # None /\ unRun[s].ops # {}
    /\ LET op == NextFile(unRun[s].ops)
           f == op[2]
           new == {g \in {f} : op[1] = "write"}
       IN /\ IF "env" \in DOMAIN f
             THEN /\ unEnv' = {g \in unEnv : g.stack # s \/ g.service # f.service} \cup new
                  /\ UNCHANGED unFiles
             ELSE /\ unFiles' = {g \in unFiles : g.name # f.name} \cup new
                  /\ UNCHANGED unEnv
          /\ unRun' = [unRun EXCEPT ![s].ops = @ \ {op}]
    /\ UNCHANGED <<unRow, unGoing, unDirs, unPods, unDone, unClash, unOps, unFaults>>

\* A container is what its file says; one that builds needs its build, which
\* needs the sync of the repository.
Startable(s, n) ==
    {f \in unFiles :
        /\ f.name = FileName(s \o n, "container")
        /\ f.unit.build # "none" =>
             /\ \E g \in unFiles : g.name = BuildUnit(s, unRun[s].spec, n).name
             /\ GitSyncUnit(s) \in unFiles}

StartUnit(s) ==
    /\ AtStep(s, "start")
    /\ \E f \in Startable(s, StepArg(s)) :
         unPods' = {p \in unPods : p.name # s \o StepArg(s)}
                   \cup {[name |-> s \o StepArg(s), stack |-> f.unit.stack]}
    /\ Proceed(s, {})
    /\ UNCHANGED <<unRow, unGoing, unFiles, unEnv, unDirs, unDone, unClash, unOps, unFaults>>

\* By the name of the unit, or by the label of the stack.
StopUnits(s) ==
    /\ \/ AtStep(s, "stop") /\ unPods' = {p \in unPods : p.name # s \o StepArg(s)}
       \/ AtStep(s, "pods") /\ unPods' = unPods \ PodsOf(s)
    /\ Proceed(s, {})
    /\ UNCHANGED <<unRow, unGoing, unFiles, unEnv, unDirs, unDone, unClash, unOps, unFaults>>

VolumeDirs(s) ==
    /\ LET dir == [stack |-> s, volume |-> StepArg(s)]
       IN \/ AtStep(s, "mkdir") /\ unDirs' = unDirs \cup {dir}
          \/ AtStep(s, "rmdir") /\ unDirs' = unDirs \ {dir}
    /\ Proceed(s, {})
    /\ UNCHANGED <<unRow, unGoing, unFiles, unEnv, unPods, unDone, unClash, unOps, unFaults>>

\* The rows go with the host's.
EndUnits(s) ==
    /\ unRun[s] # None /\ unRun[s].steps = <<>> /\ unRun[s].ops = {}
    /\ unDone' = [unDone EXCEPT ![s] = unRun[s].spec]
    /\ IF unRun[s].spec # None THEN UNCHANGED <<unRow, unGoing>>
       ELSE unRow' = [unRow EXCEPT ![s] = None] /\ unGoing' = unGoing \ {s}
    /\ unRun' = [unRun EXCEPT ![s] = None]
    /\ UNCHANGED <<unHost, unClash, unOps, unFaults>>

\* An action fails, or the panel is restarted: nothing is undone.
BreakUnits(s) ==
    /\ unRun[s] # None
    /\ IF AtStep(s, "start") /\ Startable(s, StepArg(s)) = {}
       THEN UNCHANGED unFaults
       ELSE unFaults < UnMaxFaults /\ unFaults' = unFaults + 1
    /\ unRun' = [unRun EXCEPT ![s] = None]
    /\ unDone' = [unDone EXCEPT ![s] = None]
    /\ UNCHANGED <<unRow, unGoing, unHost, unClash, unOps>>

-----------------------------------------------------------------------------
\* Nothing is there, or one stack that has been deployed.
UnInit ==
    /\ \E there \in {{}, {CHOOSE s \in UnStacks : TRUE}} :
       \E b \in UnBlueprints : \E spec \in Renderings(b) :
         /\ unRow = [s \in UnStacks |-> IF s \in there THEN spec ELSE None]
         /\ unFiles = UNION {UnitFilesOf(s, spec) : s \in there}
         /\ unEnv = UNION {EnvFilesOf(s, spec) : s \in there}
         /\ unDirs = {[stack |-> s, volume |-> v] : s \in there, v \in VolumesOf(spec)}
         /\ unPods = {[name |-> s \o n, stack |-> s] : s \in there, n \in ServicesOf(spec)}
         /\ unDone = unRow
    /\ unGoing = {} /\ unRun = [s \in UnStacks |-> None]
    /\ unClash = {} /\ unOps = 0 /\ unFaults = 0

UnNext == \E s \in UnStacks :
    \/ CreateUnits(s) \/ EditUnits(s) \/ DeleteUnits(s) \/ BeginUnits(s)
    \/ SyncUnitDir(s, "quadlet") \/ SyncUnitDir(s, "user") \/ SyncEnvDir(s) \/ FileOp(s)
    \/ StartUnit(s) \/ StopUnits(s) \/ VolumeDirs(s) \/ EndUnits(s) \/ BreakUnits(s)

UnSpec == UnInit /\ [][UnNext]_unVars

-----------------------------------------------------------------------------
(* Properties, for stacks that share no name of a file with another one.   *)

UnTypeOK ==
    /\ DOMAIN unRow = UnStacks /\ unGoing \subseteq {s \in UnStacks : unRow[s] # None}
    /\ \A f \in unFiles : f.unit.stack \in UnStacks /\ f.name.suffix \in {"container", "network", "service"}
    /\ \A f, g \in unFiles : f.name = g.name => f = g
    /\ \A e \in unEnv : e.stack \in UnStacks /\ e.env # None
    /\ \A p, q \in unPods : p.name = q.name => p = q
    /\ unClash \subseteq UnStacks /\ unOps \in 0 .. UnMaxOps /\ unFaults \in 0 .. UnMaxFaults

Quiet(s) == unRun[s] = None /\ s \notin unClash
Sought(s) == unRow[s] # None /\ s \notin unGoing

\* A stack that looks as desired is as desired, whichever run was broken
\* between which files: the files are those of the spec, byte by byte, with
\* the variables of the spec.  Only the sync of the repository has no hash.
LooksAreTrue == \A s \in UnStacks :
    Quiet(s) /\ Sought(s) /\ Observe(s) = Projected(unRow[s]) =>
        /\ {f \in unFiles : f.unit.stack = s} \ {GitSyncUnit(s)} =
             UnitFilesOf(s, unRow[s]) \ {GitSyncUnit(s)}
        /\ {e \in unEnv : e.stack = s} = EnvFilesOf(s, unRow[s])

\* A stack that was written is seen as it was written, until it is edited:
\* runs of other stacks leave its files and containers alone.
WrittenIsSeen == \A s \in UnStacks :
    Quiet(s) /\ Sought(s) /\ unDone[s] = unRow[s] => Observe(s) = Projected(unRow[s])

\* Of a stack that is gone nothing is left, least of all its credentials.
\* A teardown that breaks after its unit files leaves those.
GoneIsGone == \A s \in UnStacks :
    Quiet(s) /\ unRow[s] = None =>
        /\ FilesOf(s) = {} /\ PodsOf(s) = {} /\ \A d \in unDirs : d.stack # s
        /\ unFaults = 0 => \A e \in unEnv : e.stack # s

UnitFilesSound == LooksAreTrue /\ WrittenIsSeen /\ GoneIsGone
=============================================================================
