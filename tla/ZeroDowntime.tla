----------------------------- MODULE ZeroDowntime -----------------------------
(***************************************************************************)
(* Deploying a service beside itself: a candidate container is started,    *)
(* the routes of the service are patched over to it one by one, its unit   *)
(* is stopped and started again, and the routes are patched back.  Caddy   *)
(* has one list of routes for everybody, patched by position, and other    *)
(* parts of the panel load a whole new list at any moment.                 *)
(***************************************************************************)
EXTENDS PanelBase, Sequences, SequencesExt

CONSTANTS
    ZdHosts,       \* all domains, in the order of the list that is built
    ZdServiceOf,   \* ZdServiceOf[h]: the service behind domain h, or None
    ZdMaxDeploys,  \* bound: deploys
    ZdMaxLoads,    \* bound: lists that are loaded
    ZdMaxFaults    \* bound: commands that fail, containers that die, crashes

ASSUME ZdAssumption ==
    /\ ZdHosts \in Seq(DOMAIN ZdServiceOf)
    /\ \A h \in DOMAIN ZdServiceOf : \E k \in DOMAIN ZdHosts : ZdHosts[k] = h
    /\ ZdMaxDeploys \in Nat /\ ZdMaxLoads \in Nat /\ ZdMaxFaults \in Nat

\* Python's None is no upstream, no container and no list.
ASSUME ZdNoneAssumption == None \notin {"unit", "candidate", "up", "exited"}

VARIABLES
    zdRoutes,     \* the list of routes of Caddy
    zdUnits,      \* services whose unit runs
    zdCandidate,  \* zdCandidate[v]: "up", "exited" or None
    zdTask,       \* zdTask[v]: the deploy of service v
    zdApply,      \* the list to load and the one to go back to, or None
    zdUsed,       \* deploys, loads and faults so far
    zdLoaded,     \* history: domains of the last list that was loaded
    zdDisturbed,  \* history: services whose deploy was interfered with
    zdLeft        \* history: services whose candidate could not be removed

zdHistory == <<zdLoaded, zdDisturbed, zdLeft>>
zdVars == <<zdRoutes, zdUnits, zdCandidate, zdTask, zdApply, zdUsed, zdHistory>>

ZdServices == {ZdServiceOf[h] : h \in DOMAIN ZdServiceOf} \ {None}

\* The domains of a set, in their order.
InOrder(hosts) ==
    LET upTo[n \in 0 .. Len(ZdHosts)] ==
          IF n = 0 THEN <<>>
          ELSE IF ZdHosts[n] \in hosts THEN Append(upTo[n - 1], ZdHosts[n]) ELSE upTo[n - 1]
    IN upTo[Len(ZdHosts)]

DomainsOf(v) == InOrder({h \in DOMAIN ZdServiceOf : ZdServiceOf[h] = v})

ZdOff == [pc |-> "off", left |-> <<>>, seen |-> None]
ZdPhases == {"off", "run", "poll", "swap", "stop", "start", "check", "back", "clean"}
Deploying == {v \in ZdServices : zdTask[v].pc # "off"}
Exited == {v \in ZdServices : zdCandidate[v] = "exited"}

ZdTypeOK ==
    /\ zdUnits \subseteq ZdServices
    /\ zdCandidate \in [ZdServices -> {"up", "exited", None}]
    /\ \A v \in ZdServices : zdTask[v].pc \in ZdPhases
    /\ \A k \in DOMAIN zdRoutes : /\ zdRoutes[k].host \in DOMAIN ZdServiceOf
                                  /\ zdRoutes[k].to \in {"unit", "candidate"}
    /\ zdLoaded \subseteq DOMAIN ZdServiceOf
    /\ zdDisturbed \subseteq ZdServices /\ zdLeft \subseteq ZdServices

-----------------------------------------------------------------------------
ZdFault == /\ zdUsed.faults < ZdMaxFaults
           /\ zdUsed' = [zdUsed EXCEPT !.faults = @ + 1]
Phase(v, pc) == zdTask' = [zdTask EXCEPT ![v] = [ZdOff EXCEPT !.pc = pc]]
Patching(v, pc) == zdTask' = [zdTask EXCEPT ![v] = [pc |-> pc, left |-> DomainsOf(v), seen |-> None]]

\* The routes of domain h are at these places; the first one counts.
Places(routes, h) == {k \in DOMAIN routes : routes[k].host = h}
FirstPlace(routes, h) == CHOOSE k \in Places(routes, h) : \A j \in Places(routes, h) : k <= j
Upstream(h) == IF Places(zdRoutes, h) = {} THEN None ELSE zdRoutes[FirstPlace(zdRoutes, h)].to

\* build_config(): every domain has one route, to the unit.
BuiltRoutes(hosts) ==
    LET list == InOrder(hosts) IN
    [k \in DOMAIN list |-> [host |-> list[k], to |-> "unit"]]

\* What a PUT of a route at a place of the list does is Caddy's affair: the
\* route there is replaced, or moves up by one.
PutAt(routes, k, route) == {ReplaceAt(routes, k, route), InsertAt(routes, k, route)}

-----------------------------------------------------------------------------
(* A deploy.                                                               *)

\* Mutation: the candidate goes before the routes are back.
CleanBeforeBack(pc) ==
    CASE pc = "check" -> "clean" [] pc = "swap" -> "stop" [] pc = "back" -> "clean" [] OTHER -> pc

\* The phase that follows a health check, or the last of the patches.
NextPhase(pc) ==
    CASE pc = "check" -> "back" [] pc = "swap" -> "stop" [] pc = "back" -> "clean" [] OTHER -> pc

\* Removing the candidate is tried; what comes of it is ignored.
CleanupCandidate(v, used) ==
    \/ /\ zdCandidate' = [zdCandidate EXCEPT ![v] = None]
       /\ zdLeft' = zdLeft \ {v}
       /\ zdUsed' = used
    \/ /\ zdCandidate[v] # None /\ used.faults < ZdMaxFaults
       /\ zdCandidate' \in {zdCandidate, [zdCandidate EXCEPT ![v] = "exited"]}
       /\ zdLeft' = zdLeft \cup {v}
       /\ zdUsed' = [used EXCEPT !.faults = @ + 1]

\* A candidate of an earlier deploy goes first.
ZdBegin(v) ==
    /\ zdTask[v].pc = "off" /\ v \in zdUnits /\ zdUsed.deploys < ZdMaxDeploys
    /\ Phase(v, "run")
    /\ CleanupCandidate(v, [zdUsed EXCEPT !.deploys = @ + 1])
    /\ UNCHANGED <<zdRoutes, zdUnits, zdApply, zdLoaded, zdDisturbed>>

\* Whatever happened since the candidate was started, it goes at the end.
ZdClean(v) ==
    /\ zdTask[v].pc = "clean"
    /\ Phase(v, "off")
    /\ CleanupCandidate(v, zdUsed)
    /\ UNCHANGED <<zdRoutes, zdUnits, zdApply, zdLoaded, zdDisturbed>>

\* podman run; where it fails nothing is cleaned up, and a container that was
\* created but did not start stays.
StartCandidate(v) ==
    /\ zdTask[v].pc = "run" /\ zdCandidate[v] = None
    /\ \/ /\ zdCandidate' = [zdCandidate EXCEPT ![v] = "up"]
          /\ Phase(v, "poll")
          /\ UNCHANGED <<zdUsed, zdLeft>>
       \/ /\ ZdFault
          /\ Phase(v, "off")
          /\ \/ UNCHANGED <<zdCandidate, zdLeft>>
             \/ /\ zdCandidate' = [zdCandidate EXCEPT ![v] = "exited"]
                /\ zdLeft' = zdLeft \cup {v}
    /\ UNCHANGED <<zdRoutes, zdUnits, zdApply, zdLoaded, zdDisturbed>>
NameTaken(v) ==
    /\ zdTask[v].pc = "run" /\ zdCandidate[v] # None
    /\ Phase(v, "off")
    /\ UNCHANGED <<zdRoutes, zdUnits, zdCandidate, zdApply, zdUsed, zdHistory>>

\* The probe asks 127.0.0.1 and the candidate listens elsewhere: whatever the
\* answer is, it says nothing about the candidate.  Without a health check
\* there is a pause and no question.
HealthPoll(v) ==
    /\ zdTask[v].pc = "poll"
    /\ Patching(v, "swap") \/ Phase(v, "clean")
    /\ UNCHANGED <<zdRoutes, zdUnits, zdCandidate, zdApply, zdUsed, zdHistory>>

\* The unit is left running whether it answers or not.
CheckUnit(v) ==
    /\ zdTask[v].pc = "check"
    /\ Patching(v, NextPhase("check"))
    /\ UNCHANGED <<zdRoutes, zdUnits, zdCandidate, zdApply, zdUsed, zdHistory>>

PatchTarget(v) == IF zdTask[v].pc = "swap" THEN "candidate" ELSE "unit"

\* A domain that could not be patched is passed over: only the log tells.
PatchDone(v) ==
    LET rest == Tail(zdTask[v].left) IN
    IF rest = <<>> THEN Phase(v, NextPhase(zdTask[v].pc))
    ELSE zdTask' = [zdTask EXCEPT ![v].left = rest, ![v].seen = None]
PatchFails(v) ==
    /\ PatchDone(v)
    /\ zdDisturbed' = zdDisturbed \cup {v}
    /\ UNCHANGED <<zdRoutes, zdUnits, zdCandidate, zdApply, zdLoaded, zdLeft>>

\* patch_upstream(): the list is read and the route of the domain looked for.
GetRoutes(v) ==
    /\ zdTask[v].pc \in {"swap", "back"} /\ zdTask[v].seen = None
    /\ \/ /\ Upstream(Head(zdTask[v].left)) # None
          /\ zdTask' = [zdTask EXCEPT ![v].seen = zdRoutes]
          /\ UNCHANGED <<zdRoutes, zdUnits, zdCandidate, zdApply, zdUsed, zdHistory>>
       \/ Upstream(Head(zdTask[v].left)) = None /\ PatchFails(v) /\ UNCHANGED zdUsed
       \/ ZdFault /\ PatchFails(v)

\* ... and its new form put at the place it had in the list that was read.
PutRoute(v) ==
    LET h == Head(zdTask[v].left)
        k == FirstPlace(zdTask[v].seen, h)
        Moved == Places(zdRoutes, h) = {} \/ FirstPlace(zdRoutes, h) # k IN
    /\ zdTask[v].pc \in {"swap", "back"} /\ zdTask[v].seen # None
    /\ \/ /\ k \in DOMAIN zdRoutes
          /\ zdRoutes' \in PutAt(zdRoutes, k, [host |-> h, to |-> PatchTarget(v)])
          /\ PatchDone(v)
          \* Another's route may have gone, or stand before this one.
          /\ IF Moved THEN zdDisturbed' = ZdServices /\ zdLoaded' = {}
                      ELSE UNCHANGED <<zdDisturbed, zdLoaded>>
          /\ UNCHANGED <<zdUnits, zdCandidate, zdApply, zdUsed, zdLeft>>
       \/ k \notin DOMAIN zdRoutes /\ PatchFails(v) /\ UNCHANGED zdUsed
       \/ ZdFault /\ PatchFails(v)

\* An exception on the way leaves the routes where they are.
Raises(v) ==
    /\ ZdFault
    /\ Phase(v, "clean")
    /\ zdDisturbed' = zdDisturbed \cup {v}
    /\ UNCHANGED <<zdRoutes, zdCandidate, zdApply, zdLoaded, zdLeft>>

ZdStopUnit(v) ==
    /\ zdTask[v].pc = "stop"
    /\ \/ /\ Phase(v, "start")
          /\ zdUnits' = zdUnits \ {v}
          /\ UNCHANGED <<zdRoutes, zdCandidate, zdApply, zdUsed, zdHistory>>
       \/ Raises(v) /\ zdUnits' \in {zdUnits, zdUnits \ {v}}

ZdStartUnit(v) ==
    /\ zdTask[v].pc = "start"
    /\ \/ /\ Phase(v, "check")
          /\ zdUnits' = zdUnits \cup {v}
          /\ UNCHANGED <<zdRoutes, zdCandidate, zdApply, zdUsed, zdHistory>>
       \/ Raises(v) /\ UNCHANGED zdUnits

-----------------------------------------------------------------------------
(* Meanwhile.                                                              *)

\* A list is built and the one to go back to is read; other domains come and
\* go with what they belong to.
ApplyBegins ==
    /\ zdApply = None /\ zdUsed.loads < ZdMaxLoads
    /\ zdUsed' = [zdUsed EXCEPT !.loads = @ + 1]
    /\ \E gone \in SUBSET {h \in DOMAIN ZdServiceOf : ZdServiceOf[h] = None} :
         zdApply' = [hosts |-> (DOMAIN ZdServiceOf) \ gone, previous |-> zdRoutes]
    /\ UNCHANGED <<zdRoutes, zdUnits, zdCandidate, zdTask, zdHistory>>

\* Every route leads to its unit again: wrong for a deploy that has begun to
\* patch and has not yet started the unit, and no help to one whose candidate
\* has died.
ApplyLoads ==
    /\ zdApply # None
    /\ zdRoutes' = BuiltRoutes(zdApply.hosts)
    /\ zdLoaded' = zdApply.hosts
    /\ zdDisturbed' = {v \in ZdServices : \/ v \notin zdUnits
                                           \/ zdTask[v].pc \in {"swap", "stop", "start"}
                                           \/ v \in Deploying \cap Exited}
    /\ zdApply' = None
    /\ UNCHANGED <<zdUnits, zdCandidate, zdTask, zdUsed, zdLeft>>

\* Caddy refuses the list and gets the previous one back, and with it undone
\* what was patched in between.
ApplyRestores ==
    /\ zdApply # None /\ ZdFault
    /\ zdRoutes' = zdApply.previous
    /\ zdDisturbed' = IF zdRoutes = zdApply.previous THEN zdDisturbed ELSE ZdServices
    /\ zdApply' = None
    /\ UNCHANGED <<zdUnits, zdCandidate, zdTask, zdLoaded, zdLeft>>

CandidateExits(v) ==
    /\ zdCandidate[v] = "up" /\ ZdFault
    /\ zdCandidate' = [zdCandidate EXCEPT ![v] = "exited"]
    /\ zdDisturbed' = zdDisturbed \cup {v}
    /\ UNCHANGED <<zdRoutes, zdUnits, zdTask, zdApply, zdLoaded, zdLeft>>

\* A deploy is a coroutine of the panel.
ZdCrash ==
    /\ ZdFault
    /\ zdTask' = [v \in ZdServices |-> ZdOff]
    /\ zdApply' = None
    /\ zdDisturbed' = zdDisturbed \cup Deploying
    /\ zdLeft' = zdLeft \cup Deploying
    /\ UNCHANGED <<zdRoutes, zdUnits, zdCandidate, zdLoaded>>

\* The next cycle finds the unit inactive and starts it.
UnitHeals(v) ==
    /\ zdTask[v].pc = "off" /\ v \notin zdUnits
    /\ zdUnits' = zdUnits \cup {v}
    /\ UNCHANGED <<zdRoutes, zdCandidate, zdTask, zdApply, zdUsed, zdHistory>>

-----------------------------------------------------------------------------
ZdInit ==
    /\ zdRoutes = BuiltRoutes(DOMAIN ZdServiceOf)
    /\ zdUnits = ZdServices
    /\ zdCandidate = [v \in ZdServices |-> None]
    /\ zdTask = [v \in ZdServices |-> ZdOff]
    /\ zdApply = None
    /\ zdUsed = [deploys |-> 0, loads |-> 0, faults |-> 0]
    /\ zdLoaded = DOMAIN ZdServiceOf
    /\ zdDisturbed = {} /\ zdLeft = {}

ZdNext ==
    \/ \E v \in ZdServices :
         \/ ZdBegin(v) \/ StartCandidate(v) \/ NameTaken(v) \/ HealthPoll(v)
         \/ GetRoutes(v) \/ PutRoute(v) \/ ZdStopUnit(v) \/ ZdStartUnit(v) \/ CheckUnit(v)
         \/ ZdClean(v) \/ CandidateExits(v) \/ UnitHeals(v)
    \/ ApplyBegins \/ ApplyLoads \/ ApplyRestores \/ ZdCrash

ZdSpec == ZdInit /\ [][ZdNext]_zdVars

-----------------------------------------------------------------------------
(* Properties.                                                             *)

Running(v, to) == IF to = "unit" THEN v \in zdUnits ELSE to = "candidate" /\ zdCandidate[v] = "up"

\* The route of every domain of a service leads to a container that runs, at
\* every moment of a deploy that nothing interfered with.
AlwaysServed ==
    \A h \in DOMAIN ZdServiceOf :
        ZdServiceOf[h] \in ZdServices \ zdDisturbed => Running(ZdServiceOf[h], Upstream(h))

\* No deploy takes the route of another domain away, unless the list it had
\* read was out of date.
NoRouteLost == \A h \in zdLoaded : Upstream(h) # None

\* No candidate outlives its deploy, unless it could not be removed.
NoCandidateLeft ==
    \A v \in ZdServices \ zdLeft : zdTask[v].pc = "off" => zdCandidate[v] = None

DeploysSound == AlwaysServed /\ NoRouteLost /\ NoCandidateLeft
=============================================================================
