---------------------------- MODULE RemoteServers ----------------------------
(***************************************************************************)
(* Stacks of one client on the panel's own host and on remote servers.     *)
(* The loop converges the stacks that were enqueued, then all of them; a   *)
(* run reads rows and hosts, plans, and executes over an SSH session.  A   *)
(* server has one host object per cycle, with one session at a time, that  *)
(* all runs on it share; a stack that was enqueued has an object of its    *)
(* own.  The tenant has an account per host, the ledger one uid.           *)
(***************************************************************************)
EXTENDS PanelBase, Sequences

CONSTANTS
    RsServers,     \* rows of servers, but for the panel's own host
    RsStacks,      \* names of stacks
    RsMaxOps,      \* bound: requests about stacks, to validate or delete a server
    RsMaxFaults    \* bound: faults of hosts and sessions, lost keys, restarts

ASSUME RsAssumption ==
    /\ "panel" \notin RsServers /\ None \notin RsServers /\ RsServers \cap RsStacks = {}
    /\ RsMaxOps \in Nat /\ RsMaxFaults \in Nat

\* Python's None is no row and no run.
ASSUME RsNoneAssumption ==
    /\ None \notin [key : BOOLEAN, status : {"pending", "connected", "error"}]
    /\ None \notin [server : RsServers \cup {"panel"}, asked : RsServers \cup {"panel"},
                    at : RsServers \cup {"panel"}, clean : BOOLEAN,
                    status : {"converging", "ready", "degraded", "deleting"}]
    /\ None \notin [pc : {"load"}, op : BOOLEAN]
    /\ None \notin [pc : {"start", "act", "close"}, spec : BOOLEAN,
                    todo : Seq({"tenant", "data", "units", "up", "stop", "remove", "rmdata", "rmtenant"}),
                    host : RsServers \cup {"panel"}, inUse : BOOLEAN, op : BOOLEAN]

VARIABLES
    rsServer,    \* rsServer[v]: None, or the row of a server
    rsDrop,      \* the server a deletion has checked, or None
    rsRow,       \* rsRow[s]: row of stack s, or None
    rsOp,        \* rsOp[s]: status of the last operation of s, or None
    rsQueue,     \* stacks enqueued
    rsPhase,     \* what the loop is at
    rsRun,       \* rsRun[s]: run of s, or None
    rsOpen,      \* host objects whose session is open
    rsHas,       \* rsHas[h][s]: what host h has of stack s
    rsUser,      \* hosts with the account of the tenant
    rsUid,       \* the host the uid in the ledger is of, or None
    rsOps,       \* how many of these requests have come
    rsFaults     \* how many faults have happened

rsRows == <<rsServer, rsDrop, rsRow, rsOp, rsQueue, rsOps>>
rsHosts == <<rsHas, rsUser, rsUid>>
rsVars == <<rsRows, rsHosts, rsPhase, rsRun, rsOpen, rsFaults>>

RsHosts == RsServers \cup {"panel"}
RsParts == {"data", "units", "up"}
RsActive(s) == rsRow[s] # None /\ rsRow[s].status # "deleting"

RsTypeOK ==
    /\ \A v \in RsServers : rsServer[v] # None =>
         rsServer[v].key \in BOOLEAN /\ rsServer[v].status \in {"pending", "connected", "error"}
    /\ rsDrop \in RsServers \cup {None}
    /\ \A s \in RsStacks :
         /\ rsOp[s] \in {None, "pending", "running", "succeeded", "failed"}
         /\ rsRow[s] # None =>
              /\ rsRow[s].server \in RsHosts /\ rsRow[s].at \in RsHosts
              /\ rsRow[s].status \in {"converging", "ready", "degraded", "deleting"}
         /\ rsRun[s] # None => rsRun[s].pc \in {"load", "start", "act", "close"}
    /\ rsQueue \subseteq RsStacks /\ rsPhase \in {"idle", "drain", "cycle"}
    /\ rsOpen \subseteq RsServers \cup RsStacks
    /\ rsHas \in [RsHosts -> [RsStacks -> SUBSET RsParts]]
    /\ rsUser \subseteq RsHosts /\ rsUid \in RsHosts \cup {None}

-----------------------------------------------------------------------------
(* Rows of servers and of stacks.                                          *)

CreateServer(v) ==
    /\ rsServer[v] = None
    /\ rsServer' = [rsServer EXCEPT ![v] = [key |-> TRUE, status |-> "pending"]]
    /\ UNCHANGED <<rsDrop, rsRow, rsOp, rsQueue, rsOps, rsHosts, rsPhase, rsRun, rsOpen, rsFaults>>

\* The probe needs the key, and a server that answers.
ValidateServer(v) ==
    /\ rsServer[v] # None
    /\ rsOps < RsMaxOps /\ rsOps' = rsOps + 1
    /\ \E status \in {"connected", "error"} :
         /\ status = "connected" => rsServer[v].key
         /\ rsServer' = [rsServer EXCEPT ![v].status = status]
    /\ UNCHANGED <<rsDrop, rsRow, rsOp, rsQueue, rsHosts, rsPhase, rsRun, rsOpen, rsFaults>>

\* The key of a server goes with the account that owns it, or by itself.
DeleteKey(v) ==
    /\ rsServer[v] # None /\ rsServer[v].key
    /\ rsFaults < RsMaxFaults /\ rsFaults' = rsFaults + 1
    /\ rsServer' = [rsServer EXCEPT ![v].key = FALSE]
    /\ UNCHANGED <<rsDrop, rsRow, rsOp, rsQueue, rsOps, rsHosts, rsPhase, rsRun, rsOpen>>

\* Mutation: only the stacks that are ready keep their server.
NoReadyStack(v) ==
    \A s \in RsStacks : rsRow[s] # None /\ rsRow[s].status = "ready" => rsRow[s].server # v

\* A stack that is being deleted does not keep its server.
ServerFree(v) == \A s \in RsStacks : RsActive(s) => rsRow[s].server # v

CheckServer(v) ==
    /\ rsServer[v] # None /\ rsDrop = None
    /\ rsOps < RsMaxOps /\ rsOps' = rsOps + 1
    /\ ServerFree(v)
    /\ rsDrop' = v
    /\ UNCHANGED <<rsServer, rsRow, rsOp, rsQueue, rsHosts, rsPhase, rsRun, rsOpen, rsFaults>>

\* The stacks that still name the server are left to the panel's own host.
DeleteServer ==
    /\ rsDrop # None
    /\ rsServer' = [rsServer EXCEPT ![rsDrop] = None]
    /\ rsRow' = [s \in RsStacks |-> IF rsRow[s] # None /\ rsRow[s].server = rsDrop
                                    THEN [rsRow[s] EXCEPT !.server = "panel"] ELSE rsRow[s]]
    /\ rsDrop' = None
    /\ UNCHANGED <<rsOp, rsQueue, rsOps, rsHosts, rsPhase, rsRun, rsOpen, rsFaults>>

\* A run under way has an earlier operation, or none.
RsRequest(s) ==
    /\ rsOps < RsMaxOps /\ rsOps' = rsOps + 1
    /\ rsOp' = [rsOp EXCEPT ![s] = "pending"]
    /\ rsRun' = IF rsRun[s] = None THEN rsRun ELSE [rsRun EXCEPT ![s].op = FALSE]
    /\ rsQueue' = rsQueue \cup {s}

\* clean: nobody has checked a deletion of the server, and no other host has
\* remains of an earlier stack of the name.
CreateStackOn(s, h) ==
    /\ rsRow[s] = None
    /\ h \in RsServers => rsServer[h] # None
    /\ RsRequest(s)
    /\ rsRow' = [rsRow EXCEPT ![s] = [server |-> h, asked |-> h, at |-> h, status |-> "converging",
                                      clean |-> h # rsDrop /\ \A g \in RsHosts \ {h} : rsHas[g][s] = {}]]
    /\ UNCHANGED <<rsServer, rsDrop, rsHosts, rsPhase, rsOpen, rsFaults>>

\* A stack that was to be deleted may lose its server, and be kept after all
\* by a run that overwrites its status.
DeleteStackOn(s) ==
    /\ rsRow[s] # None
    /\ RsRequest(s)
    /\ rsRow' = [rsRow EXCEPT ![s].status = "deleting", ![s].clean = FALSE]
    /\ UNCHANGED <<rsServer, rsDrop, rsHosts, rsPhase, rsOpen, rsFaults>>

-----------------------------------------------------------------------------
(* Reading rows and hosts.                                                 *)

\* _build_host_map(): a server without a key stands for the panel's own host.
HostOf(row) ==
    IF row.server \in RsServers /\ rsServer[row.server] # None /\ rsServer[row.server].key
    THEN row.server ELSE "panel"

\* Unit files and containers are looked for under the uid, data under the name.
Scanned(h, s) == IF rsUid = h THEN rsHas[h][s] ELSE rsHas[h][s] \cap {"data"}

\* A server is scanned for the sake of the active stacks on it; the scan may
\* find no session, or no answer from Podman.
Scans == [RsServers -> {"ok", "down", "dark"}]
RemoteScan(v, s, scan) ==
    IF /\ \E t \in RsStacks : RsActive(t) /\ HostOf(rsRow[t]) = v
       /\ scan[v] # "down"
    THEN IF scan[v] = "ok" THEN Scanned(v, s) ELSE Scanned(v, s) \ {"up"}
    ELSE {}

\* What a remote server shows of a stack hides what the panel's host has of it.
Observations(s, scan) ==
    IF rsUid = None THEN {[seen |-> {}, user |-> FALSE]}
    ELSE LET remote == {v \in RsServers : RemoteScan(v, s, scan) # {}}
         IN {[seen |-> RemoteScan(v, s, scan), user |-> v \in rsUser /\ scan[v] = "ok"] :
               v \in remote}
            \cup (IF remote # {} THEN {}
                  ELSE {[seen |-> Scanned("panel", s), user |-> "panel" \in rsUser]})

ScanFaults(scan) ==
    LET failed == Cardinality({v \in RsServers : scan[v] # "ok"})
    IN rsFaults + failed <= RsMaxFaults /\ rsFaults' = rsFaults + failed

\* plan(): the steps towards the presence of a stack, or towards its absence.
RsPlan(spec, obs) ==
    LET Step(name, needed) == IF needed THEN <<name>> ELSE <<>>
        Without(part) == part \notin obs.seen
    IN IF spec THEN Step("tenant", obs.seen = {} \/ ~obs.user) \o Step("data", Without("data"))
                    \o Step("units", Without("units")) \o Step("up", Without("up"))
       ELSE IF obs.seen = {} THEN <<>>
       ELSE Step("stop", "up" \in obs.seen) \o <<"remove">>
            \o Step("rmdata", "data" \in obs.seen) \o <<"rmtenant">>

\* The host of a stack that is not desired is the panel's own, wherever it was.
RsRuns(s, op, obs) ==
    [pc |-> "start", spec |-> RsActive(s), todo |-> RsPlan(RsActive(s), obs),
     host |-> IF RsActive(s) THEN HostOf(rsRow[s]) ELSE "panel",
     inUse |-> \E t \in RsStacks : RsActive(t), op |-> op]

StartDrain ==
    /\ rsPhase = "idle" /\ rsQueue # {}
    /\ rsPhase' = "drain"
    /\ rsQueue' = {}
    /\ rsRun' = [s \in RsStacks |-> IF s \in rsQueue THEN [pc |-> "load", op |-> TRUE] ELSE None]
    /\ UNCHANGED <<rsServer, rsDrop, rsRow, rsOp, rsOps, rsHosts, rsOpen, rsFaults>>

\* converge_stack() reads everything for its stack.
LoadStack(s) ==
    /\ rsRun[s] # None /\ rsRun[s].pc = "load"
    /\ \E scan \in Scans :
         /\ ScanFaults(scan)
         /\ \E obs \in Observations(s, scan) : rsRun' = [rsRun EXCEPT ![s] = RsRuns(s, rsRun[s].op, obs)]
    /\ UNCHANGED <<rsRows, rsHosts, rsPhase, rsOpen>>

\* converge_all(): a run for each stack that is desired or was seen.
StartCycle ==
    /\ rsPhase = "idle" /\ rsQueue = {}
    /\ \E scan \in Scans :
         /\ ScanFaults(scan)
         /\ \E obs \in [RsStacks -> [seen : SUBSET RsParts, user : BOOLEAN]] :
              /\ \A s \in RsStacks : obs[s] \in Observations(s, scan)
              /\ rsRun' = [s \in RsStacks |-> IF RsActive(s) \/ obs[s].seen # {}
                                              THEN RsRuns(s, FALSE, obs[s]) ELSE None]
    /\ \E s \in RsStacks : rsRun'[s] # None
    /\ rsPhase' = "cycle"
    /\ UNCHANGED <<rsRows, rsHosts, rsOpen>>

\* The loop awaits all runs.
RsAwaited ==
    /\ rsPhase # "idle" /\ rsRun = [s \in RsStacks |-> None]
    /\ rsPhase' = "idle"
    /\ UNCHANGED <<rsRows, rsHosts, rsRun, rsOpen, rsFaults>>

-----------------------------------------------------------------------------
(* A run.                                                                  *)

RsAt(s, pc) == rsRun[s] # None /\ rsRun[s].pc = pc

\* The host object: one per server in a cycle, one per stack in a drain.
Session(s) == IF rsPhase = "cycle" THEN rsRun[s].host ELSE s
Remote(s) == rsRun[s].host # "panel"

\* on_stack_status(); at is the host a stack was last seen ready on.
RsStatus(s, status) ==
    rsRow' = [rsRow EXCEPT ![s] =
        IF rsRow[s] = None \/ status = "absent" THEN None
        ELSE [rsRow[s] EXCEPT !.status = status, !.clean = rsRow[s].clean /\ status # "deleting",
                              !.at = IF status = "ready" THEN rsRun[s].host ELSE rsRow[s].at]]

\* Operations are known to the runs of the queue.
RsOpIs(s, status) == rsOp' = IF rsRun[s].op THEN [rsOp EXCEPT ![s] = status] ELSE rsOp

RsOutcome(s) == IF rsRun[s].spec THEN "ready" ELSE "absent"
RsFailure(s) == IF rsRun[s].spec THEN "degraded" ELSE "deleting"

NothingToDo(s) ==
    /\ RsAt(s, "start") /\ rsRun[s].todo = <<>>
    /\ RsOpIs(s, "succeeded")
    /\ RsStatus(s, RsOutcome(s))
    /\ rsRun' = [rsRun EXCEPT ![s] = None]
    /\ UNCHANGED <<rsServer, rsDrop, rsQueue, rsOps, rsHosts, rsPhase, rsOpen, rsFaults>>

\* A session that another run had opened on the same object is forgotten.
Connect(s) ==
    /\ RsAt(s, "start") /\ rsRun[s].todo # <<>>
    /\ rsOpen' = IF Remote(s) THEN rsOpen \cup {Session(s)} ELSE rsOpen
    /\ RsOpIs(s, "running")
    /\ rsRun' = [rsRun EXCEPT ![s].pc = "act"]
    /\ UNCHANGED <<rsServer, rsDrop, rsRow, rsQueue, rsOps, rsHosts, rsPhase, rsFaults>>

\* The operation is left as it is.
ConnectFails(s) ==
    /\ RsAt(s, "start") /\ rsRun[s].todo # <<>> /\ Remote(s)
    /\ rsFaults < RsMaxFaults /\ rsFaults' = rsFaults + 1
    /\ RsStatus(s, "degraded")
    /\ rsRun' = [rsRun EXCEPT ![s] = None]
    /\ UNCHANGED <<rsServer, rsDrop, rsOp, rsQueue, rsOps, rsHosts, rsPhase, rsOpen>>

\* What a step needs: systemctl fails on a unit it does not know, files of
\* units need the uid, owners need the account.
StepWorks(s, step) ==
    LET h == rsRun[s].host IN
    CASE step \in {"up", "stop"} -> "units" \in rsHas[h][s]
      [] step = "data" -> h \in rsUser
      [] step \in {"units", "remove"} -> rsUid # None
      [] OTHER -> TRUE

\* Unit files go under the uid of the ledger, whose host may be another one.
StepDone(s, step) ==
    LET h == rsRun[s].host
        Add(part) == [rsHas EXCEPT ![h][s] = @ \cup {part}]
        Drop(parts) == [rsHas EXCEPT ![h][s] = @ \ parts]
        found == \E t \in RsStacks : Scanned(h, t) # {}
    IN /\ rsHas' = CASE step = "units" /\ rsUid = h -> Add("units")
                     [] step \in {"data", "up"} -> Add(step)
                     [] step = "stop" -> Drop({"up"})
                     [] step = "remove" /\ rsUid = h -> Drop({"units", "up"})
                     [] step = "rmdata" -> Drop({"data"})
                     [] OTHER -> rsHas
       /\ IF step = "tenant" THEN rsUser' = rsUser \cup {h} /\ rsUid' = h
          ELSE IF step = "rmtenant" /\ ~rsRun[s].inUse /\ rsUid # None /\ ~found
          THEN rsUser' = rsUser \ {h} /\ rsUid' = None
          ELSE UNCHANGED <<rsUser, rsUid>>

\* A step of a remote run goes through the session its object has now.
ActionDone(s) ==
    /\ RsAt(s, "act") /\ rsRun[s].todo # <<>>
    /\ Remote(s) => Session(s) \in rsOpen
    /\ StepWorks(s, Head(rsRun[s].todo))
    /\ StepDone(s, Head(rsRun[s].todo))
    /\ rsRun' = [rsRun EXCEPT ![s].todo = Tail(@)]
    /\ UNCHANGED <<rsRows, rsPhase, rsOpen, rsFaults>>

ActionFails(s) ==
    /\ RsAt(s, "act") /\ rsRun[s].todo # <<>>
    /\ IF (Remote(s) => Session(s) \in rsOpen) /\ StepWorks(s, Head(rsRun[s].todo))
       THEN rsFaults < RsMaxFaults /\ rsFaults' = rsFaults + 1
       ELSE UNCHANGED rsFaults
    /\ RsOpIs(s, "failed")
    /\ RsStatus(s, RsFailure(s))
    /\ rsRun' = [rsRun EXCEPT ![s].pc = "close"]
    /\ UNCHANGED <<rsServer, rsDrop, rsQueue, rsOps, rsHosts, rsPhase, rsOpen>>

AllDone(s) ==
    /\ RsAt(s, "act") /\ rsRun[s].todo = <<>>
    /\ RsOpIs(s, "succeeded")
    /\ RsStatus(s, RsOutcome(s))
    /\ rsRun' = [rsRun EXCEPT ![s].pc = "close"]
    /\ UNCHANGED <<rsServer, rsDrop, rsQueue, rsOps, rsHosts, rsPhase, rsOpen, rsFaults>>

\* The end of a run closes the session of its object, which others may use.
Close(s) ==
    /\ RsAt(s, "close")
    /\ rsOpen' = rsOpen \ {Session(s)}
    /\ rsRun' = [rsRun EXCEPT ![s] = None]
    /\ UNCHANGED <<rsRows, rsHosts, rsPhase, rsFaults>>

-----------------------------------------------------------------------------
(* Operations by age, and restarts.                                        *)

RsUnended == {"pending", "running"}

\* An operation is failed when it is old, also one whose run goes on.
RsReap(s) ==
    /\ rsOp[s] \in RsUnended
    /\ rsOp' = [rsOp EXCEPT ![s] = "failed"]
    /\ UNCHANGED <<rsServer, rsDrop, rsRow, rsQueue, rsOps, rsHosts, rsPhase, rsRun, rsOpen, rsFaults>>

\* Pending operations are enqueued again.
RsRestart ==
    /\ rsFaults < RsMaxFaults /\ rsFaults' = rsFaults + 1
    /\ rsPhase' = "idle" /\ rsRun' = [s \in RsStacks |-> None] /\ rsOpen' = {} /\ rsDrop' = None
    /\ rsQueue' = {s \in RsStacks : rsRow[s] # None /\ rsOp[s] = "pending"}
    /\ UNCHANGED <<rsServer, rsRow, rsOp, rsOps, rsHosts>>

-----------------------------------------------------------------------------
\* Nothing is there, or a server with a stack that runs.
RsInit ==
    /\ \E found \in {{}, {<<CHOOSE s \in RsStacks : TRUE, CHOOSE v \in RsServers : TRUE>>}} :
         LET On(s, v) == <<s, v>> \in found IN
         /\ rsServer = [v \in RsServers |-> IF \E s \in RsStacks : On(s, v)
                                            THEN [key |-> TRUE, status |-> "connected"] ELSE None]
         /\ rsRow = [s \in RsStacks |->
              IF \A v \in RsServers : ~On(s, v) THEN None
              ELSE LET v == CHOOSE v \in RsServers : On(s, v)
                   IN [server |-> v, asked |-> v, at |-> v, status |-> "ready", clean |-> TRUE]]
         /\ rsHas = [h \in RsHosts |-> [s \in RsStacks |-> IF On(s, h) THEN RsParts ELSE {}]]
         /\ rsUser = {v \in RsServers : \E s \in RsStacks : On(s, v)}
         /\ rsUid = IF rsUser = {} THEN None ELSE CHOOSE v \in RsServers : v \in rsUser
    /\ rsDrop = None /\ rsOp = [s \in RsStacks |-> None] /\ rsQueue = {}
    /\ rsPhase = "idle" /\ rsRun = [s \in RsStacks |-> None] /\ rsOpen = {}
    /\ rsOps = 0 /\ rsFaults = 0

RsRunStep(s) ==
    LoadStack(s) \/ NothingToDo(s) \/ Connect(s) \/ ConnectFails(s) \/ ActionDone(s)
    \/ ActionFails(s) \/ AllDone(s) \/ Close(s)

RsNext ==
    \/ \E v \in RsServers : CreateServer(v) \/ ValidateServer(v) \/ DeleteKey(v) \/ CheckServer(v)
    \/ DeleteServer \/ StartDrain \/ StartCycle \/ RsAwaited \/ RsRestart
    \/ \E s \in RsStacks :
         \/ RsRunStep(s) \/ RsReap(s) \/ DeleteStackOn(s)
         \/ \E h \in RsHosts : CreateStackOn(s, h)

\* Every cycle fails the operations that have grown old.
RsFairness == \A s \in RsStacks : WF_rsVars(RsReap(s))

RsSpec == RsInit /\ [][RsNext]_rsVars /\ RsFairness

-----------------------------------------------------------------------------
(* Properties.                                                             *)

\* The rows but for those of stacks that were to be deleted, were created while
\* their server was being deleted, or have a namesake's remains elsewhere.
RsClean == {s \in RsStacks : rsRow[s] # None /\ rsRow[s].clean}

\* A stack that is shown as ready runs on the host of the run that said so,
\* whatever other runs did to the session, and whatever became of the server.
ReadyRuns == \A s \in RsClean : rsRow[s].status = "ready" => "up" \in rsHas[rsRow[s].at][s]

\* A session belongs to a run: none is left open when the runs have ended.
SessionsClosed == \A o \in rsOpen :
    \E s \in RsStacks : rsRun[s] # None /\ rsRun[s].pc \in {"act", "close"} /\ Session(s) = o

\* A stack keeps the server it was created on.
ServersKept == \A s \in RsClean : rsRow[s].server = rsRow[s].asked

\* Operations end, also those a session that failed has left untouched.
RsOpsClosed == \A s \in RsStacks : rsOp[s] \notin RsUnended

ServersSound == ReadyRuns /\ SessionsClosed /\ ServersKept
=============================================================================
