-------------------------------- MODULE Apps --------------------------------
(***************************************************************************)
(* Containerized apps: one container per app, published on a loopback port *)
(* that the panel allocates and routed through Caddy.  Creation and        *)
(* deletion are background pipelines, which undo their completed steps when*)
(* one fails; start, stop and restart are handlers that run one command and*)
(* record the outcome.  A handler or pipeline works on the row it loaded at*)
(* its beginning: nothing excludes two of them on one app.                 *)
(***************************************************************************)
EXTENDS PanelBase, Sequences

CONSTANTS
    AppNames,      \* a name, with the domain that comes with it
    AppPorts,      \* app_port_min .. app_port_max
    AppMaxOps,     \* bound: requests
    AppMaxFaults   \* bound: failing commands and loads, and restarts

ASSUME AppAssumption ==
    /\ AppPorts \subseteq Nat \ {0} /\ AppPorts # {}
    /\ AppMaxOps \in Nat /\ AppMaxFaults \in Nat

\* No row, container, configuration or kind of request is the absent one.
ASSUME AppNoneAssumption ==
    /\ None \notin [id : 1 .. AppMaxOps + 1, port : AppPorts,
                    status : {"provisioning", "running", "stopped", "error", "deleting"}]
    /\ None \notin [port : AppPorts, up : BOOLEAN]
    /\ LET routes == [AppNames -> AppPorts \cup {None}] IN
       None \notin [routes : routes, before : routes]
    /\ None \notin {"create", "delete", "start", "stop", "restart"}

VARIABLES
    appRow,     \* appRow[n]: the row of app n, or None
    appParts,   \* appParts[d]: directory and network that exist for identity d
    appBox,     \* appBox[d]: the container named after identity d, or None
    appRoute,   \* appRoute[n]: port the loaded route of n leads to, or None
    appTask,    \* appTask[i]: the handler or pipeline of request i
    appFaults,
    appLeft,    \* history: <<d, kind, step>>: steps that have failed for identity d
    appMixed,   \* history: apps on which two tasks have worked at once
    appCut,     \* history: identities whose task a restart has interrupted
    appStale    \* history: was a configuration loaded that rows had outdated

appHistory == <<appMixed, appCut, appStale>>
appVars == <<appRow, appParts, appBox, appRoute, appTask, appFaults, appLeft,
             appHistory>>

AppRequests == 1 .. AppMaxOps
AppIds == 1 .. AppMaxOps + 1   \* one app may be there already

AppSteps == [
    create  |-> <<"image", "app_dir", "network", "container", "caddy", "finalize">>,
    delete  |-> <<"caddy", "container", "network", "app_dir", "finalize">>,
    start   |-> <<"command", "record">>,
    stop    |-> <<"command", "record">>,
    restart |-> <<"command", "record">>]

AppIdle == [kind |-> None, name |-> None, id |-> 0, port |-> 0, was |-> None,
            pc |-> "off", at |-> 0, config |-> None]
AppBusy(i) == appTask[i].pc # "off"
AppStep(i) == AppSteps[appTask[i].kind][appTask[i].at]
AppRowOf(d) == {n \in AppNames : appRow[n] # None /\ appRow[n].id = d}
UsedPorts == {appRow[n].port : n \in {m \in AppNames : appRow[m] # None}}
LowestFree(p) == p \in AppPorts \ UsedPorts /\ \A q \in AppPorts \ UsedPorts : p <= q

AppTypeOK ==
    /\ \A n \in AppNames : appRow[n] # None =>
         /\ appRow[n].id \in AppIds /\ appRow[n].port \in AppPorts
         /\ appRow[n].status \in {"provisioning", "running", "stopped", "error", "deleting"}
    /\ appParts \in [AppIds -> SUBSET {"app_dir", "network"}]
    /\ appBox \in [AppIds -> {None} \cup [port : AppPorts, up : BOOLEAN]]
    /\ appRoute \in [AppNames -> AppPorts \cup {None}]
    /\ \A i \in AppRequests : appTask[i].pc \in {"off", "insert", "do", "undo"}
    /\ appMixed \subseteq [id : AppIds, name : AppNames]
    /\ appCut \subseteq AppIds \cup {0} /\ appStale \in BOOLEAN
    /\ appFaults \in 0 .. AppMaxFaults

-----------------------------------------------------------------------------
(* Requests.                                                               *)

AppFree(i) == appTask[i].kind = None /\ \A j \in 1 .. i - 1 : appTask[j].kind # None

AppBegin(i, kind, n, row) ==
    /\ appTask' = [appTask EXCEPT ![i] = [kind |-> kind, name |-> n, id |-> row.id,
                      port |-> row.port, was |-> row.status, pc |-> "do", at |-> 1,
                      config |-> None]]
    /\ appMixed' = IF \E j \in AppRequests : AppBusy(j) /\ appTask[j].id = row.id
                   THEN appMixed \cup {[id |-> row.id, name |-> n]} ELSE appMixed

\* create_app() looks for the name and for the lowest free port ...
AppAsk(i, n, p) ==
    /\ AppFree(i) /\ appRow[n] = None /\ LowestFree(p)
    /\ appTask' = [appTask EXCEPT ![i] = [AppIdle EXCEPT !.kind = "create", !.name = n,
                                             !.port = p, !.pc = "insert"]]
    /\ UNCHANGED <<appRow, appParts, appBox, appRoute, appFaults, appLeft,
                   appHistory>>

\* ... and then inserts: a name or port taken meanwhile is an error.
AppInsert(i) ==
    LET n == appTask[i].name
        row == [id |-> 1 + Greatest({appRow[m].id : m \in {k \in AppNames : appRow[k] # None}}),
                port |-> appTask[i].port, status |-> "provisioning"]
    IN /\ appTask[i].pc = "insert"
       /\ IF appRow[n] = None /\ row.port \notin UsedPorts
          THEN /\ appRow' = [appRow EXCEPT ![n] = row]
               /\ AppBegin(i, "create", n, row)
          ELSE /\ appTask' = [appTask EXCEPT ![i] = [AppIdle EXCEPT !.kind = "create"]]
               /\ UNCHANGED <<appRow, appMixed>>
       /\ UNCHANGED <<appParts, appBox, appRoute, appFaults, appLeft, appCut,
                   appStale>>

\* An app that is still being provisioned may be deleted.
AppDelete(i, n) ==
    /\ AppFree(i) /\ appRow[n] # None /\ appRow[n].status # "deleting"
    /\ appRow' = [appRow EXCEPT ![n].status = "deleting"]
    /\ AppBegin(i, "delete", n, [appRow[n] EXCEPT !.status = "deleting"])
    /\ UNCHANGED <<appParts, appBox, appRoute, appFaults, appLeft, appCut,
                   appStale>>

AppControl(i, kind, n) ==
    /\ kind \in {"start", "stop", "restart"}
    /\ AppFree(i) /\ appRow[n] # None /\ appRow[n].status \notin {"provisioning", "deleting"}
    /\ AppBegin(i, kind, n, appRow[n])
    /\ UNCHANGED <<appRow, appParts, appBox, appRoute, appFaults, appLeft, appCut,
                   appStale>>

-----------------------------------------------------------------------------
(* Docker.                                                                 *)

PortBusy(d, p) == \E e \in AppIds \ {d} : appBox[e] # None /\ appBox[e].up /\ appBox[e].port = p

\* Whether the command of step can succeed at all.
Possible(d, p, step) ==
    CASE step = "network"   -> "network" \notin appParts[d]
      [] step = "container" -> appBox[d] = None /\ "network" \in appParts[d] /\ ~PortBusy(d, p)
      [] step = "drop network" -> appBox[d] # None => ~appBox[d].up
      [] step \in {"start", "restart"} -> appBox[d] # None /\ ~PortBusy(d, appBox[d].port)
      [] step = "stop"      -> appBox[d] # None
      [] OTHER              -> TRUE

AppPart(d, part, present) ==
    /\ appParts' = [appParts EXCEPT ![d] = IF present THEN @ \cup {part} ELSE @ \ {part}]
    /\ UNCHANGED appBox
AppBoxIs(d, box) == appBox' = [appBox EXCEPT ![d] = box] /\ UNCHANGED appParts

Command(d, p, step) ==
    CASE step = "image"          -> UNCHANGED <<appParts, appBox>>
      [] step = "app_dir"        -> AppPart(d, "app_dir", TRUE)
      [] step = "network"        -> AppPart(d, "network", TRUE)
      [] step = "container"      -> AppBoxIs(d, [port |-> p, up |-> TRUE])
      [] step = "drop app_dir"   -> AppPart(d, "app_dir", FALSE)
      [] step = "drop network"   -> AppPart(d, "network", FALSE)
      [] step = "drop container" -> AppBoxIs(d, None)
      [] step \in {"start", "restart"} -> AppBoxIs(d, [appBox[d] EXCEPT !.up = TRUE])
      [] step = "stop"           -> AppBoxIs(d, [appBox[d] EXCEPT !.up = FALSE])

\* docker run leaves the container it could create and not start.
Failing(d, p, step) ==
    \/ UNCHANGED <<appParts, appBox>>
    \/ Possible(d, p, step) /\ Command(d, p, step)
    \/ step = "container" /\ appBox[d] = None /\ AppBoxIs(d, [port |-> p, up |-> FALSE])

\* The command that a task runs next.
NextCommand(i) ==
    CASE appTask[i].pc = "undo" \/ appTask[i].kind = "delete" ->
            (CASE AppStep(i) = "app_dir"   -> "drop app_dir"
               [] AppStep(i) = "network"   -> "drop network"
               [] AppStep(i) = "container" -> "drop container"
               [] OTHER -> AppStep(i))
      [] AppStep(i) = "command" -> appTask[i].kind
      [] OTHER -> AppStep(i)

\* Mutation: a creation does not remove its container.
AppUndoableButContainer == {2, 3, 5}

AppUndoable == {2, 3, 4, 5}    \* steps of a creation that have an undo
UndoFrom(i, n) ==
    IF appTask[i].kind = "create" THEN Greatest({j \in AppUndoable : j <= n}) ELSE 0
AppGoto(i, pc, at) ==
    appTask' = [appTask EXCEPT ![i] = [@ EXCEPT !.pc = pc, !.at = at, !.config = None]]
AppEnd(i) == appTask' = [appTask EXCEPT ![i] = [AppIdle EXCEPT !.kind = appTask[i].kind]]
AppFault == appFaults < AppMaxFaults /\ appFaults' = appFaults + 1

AtCommand(i) ==
    /\ appTask[i].pc \in {"do", "undo"} /\ appTask[i].at > 0
    /\ AppStep(i) \notin {"caddy", "finalize", "record"}

\* The image step also commits the digest it pins, which needs the row.
AppCommand(i) ==
    LET d == appTask[i].id IN
    /\ AtCommand(i) /\ Possible(d, appTask[i].port, NextCommand(i))
    /\ Command(d, appTask[i].port, NextCommand(i))
    /\ IF AppStep(i) = "image" /\ AppRowOf(d) = {} THEN AppEnd(i)
       ELSE IF appTask[i].pc = "do" THEN AppGoto(i, "do", appTask[i].at + 1)
       ELSE AppGoto(i, "undo", UndoFrom(i, appTask[i].at - 1))
    /\ UNCHANGED <<appRow, appRoute, appFaults, appLeft, appHistory>>

\* A failing undo is skipped; a handler answers with the error.
AppCommandFails(i) ==
    LET d == appTask[i].id IN
    /\ AtCommand(i)
    /\ IF Possible(d, appTask[i].port, NextCommand(i)) THEN AppFault ELSE UNCHANGED appFaults
    /\ Failing(d, appTask[i].port, NextCommand(i))
    /\ appLeft' = appLeft \cup {<<d, appTask[i].kind, AppStep(i)>>}
    /\ IF AppStep(i) = "command" THEN AppEnd(i)
       ELSE AppGoto(i, "undo", UndoFrom(i, appTask[i].at - 1))
    /\ UNCHANGED <<appRow, appRoute, appHistory>>

-----------------------------------------------------------------------------
(* Caddy gets the whole configuration, built from the rows and then loaded.*)

AppServed(i) ==
    [n \in AppNames |->
        IF appRow[n] = None \/ appRow[n].status = "deleting"
           \/ (n = appTask[i].name /\ (appTask[i].kind = "delete" \/ appTask[i].pc = "undo"))
        THEN None ELSE appRow[n].port]

AppAtCaddy(i) == appTask[i].pc \in {"do", "undo"} /\ appTask[i].at > 0 /\ AppStep(i) = "caddy"

AppBuild(i) ==
    /\ AppAtCaddy(i) /\ appTask[i].config = None
    /\ appTask' = [appTask EXCEPT ![i].config = [routes |-> AppServed(i), before |-> appRoute]]
    /\ UNCHANGED <<appRow, appParts, appBox, appRoute, appFaults, appLeft,
                   appHistory>>

AppLoad(i) ==
    /\ AppAtCaddy(i) /\ appTask[i].config # None
    /\ appRoute' = appTask[i].config.routes
    /\ appStale' = (appStale \/ appTask[i].config.routes # AppServed(i))
    /\ IF appTask[i].pc = "do" THEN AppGoto(i, "do", appTask[i].at + 1)
       ELSE AppGoto(i, "undo", UndoFrom(i, appTask[i].at - 1))
    /\ UNCHANGED <<appRow, appParts, appBox, appFaults, appLeft, appMixed, appCut>>

\* Caddy cannot be reached, or refuses and gets back what it had.
AppLoadFails(i) ==
    /\ AppAtCaddy(i) /\ appTask[i].config # None /\ AppFault
    /\ \/ UNCHANGED <<appRoute, appStale>>
       \/ /\ appRoute' = appTask[i].config.before
          /\ appStale' = (appStale \/ appTask[i].config.before # appRoute)
    /\ appLeft' = appLeft \cup {<<appTask[i].id, appTask[i].kind, "caddy">>}
    /\ AppGoto(i, "undo", UndoFrom(i, appTask[i].at - 1))
    /\ UNCHANGED <<appRow, appParts, appBox, appMixed, appCut>>

-----------------------------------------------------------------------------
(* What a task records in the end; the row may have gone, and the commit   *)
(* raises then.  Only a column that differs from the loaded one is written.*)


\* Mutation: an app is given the status of its operation.
OutcomeOfOperation(i) ==
    IF appTask[i].pc = "undo" THEN "failed"
    ELSE IF appTask[i].kind = "stop" THEN "stopped" ELSE "running"

Outcome(i) ==
    CASE appTask[i].pc = "undo" -> "error"
      [] appTask[i].kind = "stop" -> "stopped"
      [] OTHER -> "running"

AppRecord(i) ==
    /\ \/ appTask[i].pc = "undo" /\ appTask[i].at = 0
       \/ appTask[i].pc = "do" /\ AppStep(i) \in {"finalize", "record"}
    /\ appRow' = [n \in AppNames |->
          IF n \notin AppRowOf(appTask[i].id) THEN appRow[n]
          ELSE IF appTask[i].kind = "delete" /\ appTask[i].pc = "do" THEN None
          ELSE IF Outcome(i) = appTask[i].was THEN appRow[n]
          ELSE [appRow[n] EXCEPT !.status = Outcome(i)]]
    /\ AppEnd(i)
    /\ UNCHANGED <<appParts, appBox, appRoute, appFaults, appLeft, appHistory>>

\* Tasks are lost; the configuration is loaded from the rows if Caddy answers.
AppRestart ==
    /\ AppFault
    /\ appTask' = [i \in AppRequests |-> [AppIdle EXCEPT !.kind = appTask[i].kind]]
    /\ appRoute' \in {appRoute, [n \in AppNames |->
          IF appRow[n] = None \/ appRow[n].status = "deleting" THEN None ELSE appRow[n].port]}
    /\ appCut' = appCut \cup {appTask[i].id : i \in {j \in AppRequests : AppBusy(j)}}
    /\ UNCHANGED <<appRow, appParts, appBox, appLeft, appMixed, appStale>>

-----------------------------------------------------------------------------
\* No app, or one that runs on the lowest port.
AppInit ==
    /\ \E running \in SUBSET AppNames :
         LET p == CHOOSE q \in AppPorts : \A r \in AppPorts : q <= r IN
         /\ \A m, n \in running : m = n
         /\ appRow = [n \in AppNames |-> IF n \in running
                        THEN [id |-> 1, port |-> p, status |-> "running"] ELSE None]
         /\ appParts = [d \in AppIds |-> IF d = 1 /\ running # {} THEN {"app_dir", "network"}
                                         ELSE {}]
         /\ appBox = [d \in AppIds |-> IF d = 1 /\ running # {} THEN [port |-> p, up |-> TRUE]
                                       ELSE None]
         /\ appRoute = [n \in AppNames |-> IF n \in running THEN p ELSE None]
    /\ appTask = [i \in AppRequests |-> AppIdle]
    /\ appFaults = 0
    /\ appLeft = {} /\ appMixed = {} /\ appCut = {} /\ appStale = FALSE

AppNext ==
    \/ \E i \in AppRequests :
        \/ \E n \in AppNames : \/ \E p \in AppPorts : AppAsk(i, n, p)
                               \/ AppDelete(i, n)
                               \/ \E kind \in {"start", "stop", "restart"} : AppControl(i, kind, n)
        \/ AppInsert(i)
        \/ AppCommand(i) \/ AppCommandFails(i)
        \/ AppBuild(i) \/ AppLoad(i) \/ AppLoadFails(i)
        \/ AppRecord(i)
    \/ AppRestart

AppSpec == AppInit /\ [][AppNext]_appVars

-----------------------------------------------------------------------------
(* Properties.                                                             *)

AppQuiet(d) == \A e \in appMixed : e.id # d
AppSettled(d) == \A i \in AppRequests : AppBusy(i) => appTask[i].id # d

\* A container, directory or network belongs to a row, and the container
\* publishes the port of that row: no port and no identity is given to a new
\* app while something of an earlier one still has it.
HostOfRows ==
    \A d \in AppIds : AppQuiet(d) /\ (appBox[d] # None \/ appParts[d] # {}) =>
        \E n \in AppRowOf(d) : appBox[d] # None => appBox[d].port = appRow[n].port

\* A route leads to the port of its own app: never to one of a deleted app.
RoutesOfRows ==
    ~appStale =>
        \A n \in AppNames : appRoute[n] # None /\ (\A e \in appMixed : e.name # n) =>
            appRow[n] # None /\ appRow[n].port = appRoute[n]

\* An app recorded as running has its container up, with its directory and
\* network, and one recorded as stopped has it down; one whose creation failed
\* has no container, unless the failing step or an undo has left it.
FailedAt(d, steps) == \E kind \in DOMAIN AppSteps, step \in steps : <<d, kind, step>> \in appLeft
RecordsTrue ==
    \A n \in AppNames :
        appRow[n] # None /\ AppQuiet(appRow[n].id) /\ AppSettled(appRow[n].id)
        /\ appRow[n].id \notin appCut =>
        LET d == appRow[n].id
            touched == FailedAt(d, {"command", "container", "network", "app_dir"})
        IN /\ appRow[n].status = "running" /\ ~touched =>
                appBox[d] # None /\ appBox[d].up /\ appParts[d] = {"app_dir", "network"}
           /\ appRow[n].status = "stopped" /\ ~touched => appBox[d] # None /\ ~appBox[d].up
           /\ appRow[n].status = "error" /\ appBox[d] # None =>
                FailedAt(d, {"container"}) \/ <<d, "delete", "caddy">> \in appLeft

AppsConsistent == HostOfRows /\ RoutesOfRows /\ RecordsTrue
=============================================================================
