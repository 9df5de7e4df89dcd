---------------------------- MODULE SitePipelines ----------------------------
(***************************************************************************)
(* The pipelines of the PHP sites: create, clone to a staging site, delete,*)
(* install WordPress, and the handlers that change a running site without  *)
(* an operation (PHP version, PHP settings, renewal of the certificate).   *)
(* A pipeline runs host commands one by one and, when one fails, undoes    *)
(* the completed ones in reverse.  Nothing excludes two pipelines of one   *)
(* site.  The web server gets a whole configuration each time, built from  *)
(* the rows and loaded later.  The rows are in SQLite: one session at a    *)
(* time has uncommitted writes, the others wait with theirs.               *)
(***************************************************************************)
EXTENDS PanelBase, Sequences

CONSTANTS
    Sites,          \* domains; a domain determines user, directory, database
    StagingOf,      \* StagingOf[s]: the domain of the clone of s, or None
    Versions,       \* PHP versions
    DefaultVersion, \* the version of a site that is created
    SiteMaxOps,     \* bound: requests
    SiteMaxFaults   \* bound: failing commands and loads, restarts of the panel

ASSUME SiteAssumption ==
    /\ None \notin Sites \cup Versions
    /\ StagingOf \in [Sites -> Sites \cup {None}]
    /\ DefaultVersion \in Versions
    /\ SiteMaxOps \in Nat /\ SiteMaxFaults \in Nat

VARIABLES
    siteRow,     \* siteRow[s]: the row of domain s, or None
    siteHost,    \* siteHost[s]: user, directory, ... that exist for s
    sitePools,   \* sitePools[s]: versions with a PHP-FPM pool of s
    siteCaddy,   \* siteCaddy[s]: version whose socket the route of s names
    siteOps,     \* siteOps[i]: the operation of request i, or None
    siteTask,    \* siteTask[i]: the task that works on request i
    siteWriter,  \* request whose session has uncommitted writes, or None
    siteFaults, siteCrashes,
    siteLeft,    \* history: parts that a failing command may have left
    siteOverlap, \* history: sites on which two tasks were at work at once
    siteStale    \* history: was a configuration loaded that rows had outdated

siteVars == <<siteRow, siteHost, sitePools, siteCaddy, siteOps, siteTask, siteWriter,
              siteFaults, siteCrashes, siteLeft, siteOverlap, siteStale>>
siteHistory == <<siteOverlap, siteStale>>

SiteRequests == 1 .. SiteMaxOps
SiteParts == {"linux_user", "doc_root", "filebrowser", "database"}
SiteStatuses == {"provisioning", "active", "deleting", "error"}

SiteSteps == [
    create    |-> <<"linux_user", "doc_root", "php_pool", "caddy", "filebrowser", "finalize">>,
    clone     |-> <<"linux_user", "doc_root", "php_pool", "database", "caddy",
                    "filebrowser", "finalize">>,
    delete    |-> <<"caddy", "filebrowser", "php_pool", "database", "doc_root",
                    "linux_user", "finalize">>,
    wordpress |-> <<"database", "download", "configure", "finalize">>,
    php       |-> <<"php_pool", "caddy", "remove", "finalize">>,
    settings  |-> <<"php_pool", "finalize">>,
    resync    |-> <<"caddy", "finalize">>]
SiteKinds == DOMAIN SiteSteps
Inline == {"php", "settings", "resync"}   \* handlers without an operation

\* Python's None is no kind, no row, no operation and no configuration.
ASSUME SiteNoneAssumption ==
    /\ None \notin SiteKinds
    /\ None \notin [id : Nat, status : SiteStatuses, php : Versions, wp : BOOLEAN]
    /\ None \notin [kind : SiteKinds, site : Sites, linked : BOOLEAN,
                     status : {"pending", "running", "succeeded", "failed"}]
    /\ None \notin [routes : [Sites -> Versions \cup {None}], before : [Sites -> Versions \cup {None}]]

NoTask == [kind |-> None, site |-> None, id |-> 0, old |-> None, php |-> None,
           wp |-> FALSE, pc |-> "off", at |-> 0, config |-> None]

SiteLive(i) == siteTask[i].pc # "off"
StepOf(i) == SiteSteps[siteTask[i].kind][siteTask[i].at]
OnSite(s) == {i \in SiteRequests : SiteLive(i) /\ siteTask[i].site = s}
\* Tasks that will write the row of an identity, whichever domain has it then.
Meaning(id) == {i \in SiteRequests : siteTask[i].pc \in {"do", "undo"} /\ siteTask[i].id = id}
\* The domain whose row has the identity that a task has loaded.
RowsOf(i) == {s \in Sites : siteRow[s] # None /\ siteRow[s].id = siteTask[i].id}
\* A commit waits for the session that holds uncommitted writes.
CanCommit(i) == siteWriter \in {None, i}

SiteTypeOK ==
    /\ \A s \in Sites : siteRow[s] # None =>
         /\ siteRow[s].status \in SiteStatuses
         /\ siteRow[s].php \in Versions
         /\ siteRow[s].id \in Nat /\ siteRow[s].wp \in BOOLEAN
    /\ siteHost \in [Sites -> SUBSET SiteParts]
    /\ sitePools \in [Sites -> SUBSET Versions]
    /\ siteCaddy \in [Sites -> Versions \cup {None}]
    /\ siteWriter \in SiteRequests \cup {None}
    /\ \A i \in SiteRequests :
         /\ siteTask[i].pc \in {"off", "do", "undo", "finish"}
         /\ siteOps[i] # None =>
              siteOps[i].status \in {"pending", "running", "succeeded", "failed"}
    /\ siteFaults \in Nat /\ siteCrashes \in Nat /\ siteFaults + siteCrashes <= SiteMaxFaults

-----------------------------------------------------------------------------
(* Requests.                                                               *)

FreeRequest == {i \in SiteRequests : siteTask[i].kind = None
                   /\ \A j \in 1 .. i - 1 : siteTask[j].kind # None}

\* SQLite gives a row the greatest identity in use plus one.
NewId == 1 + Greatest({siteRow[s].id : s \in {t \in Sites : siteRow[t] # None}})

Accept(i, kind, s, row, php, wp) ==
    /\ i \in FreeRequest
    /\ siteWriter = None
    /\ siteOps' = [siteOps EXCEPT ![i] = IF kind \in Inline THEN None
                     ELSE [kind |-> kind, site |-> s, status |-> "running", linked |-> TRUE]]
    /\ siteTask' = [siteTask EXCEPT ![i] =
                     [kind |-> kind, site |-> s, id |-> row.id, old |-> row.php, php |-> php,
                      wp |-> wp, pc |-> "do", at |-> 1, config |-> None]]
    /\ siteRow' = [siteRow EXCEPT ![s] = row]
    /\ siteOverlap' = siteOverlap \cup {t \in {s} : OnSite(s) \cup Meaning(row.id) # {}}
    /\ UNCHANGED <<siteHost, sitePools, siteCaddy, siteWriter, siteFaults, siteCrashes,
                   siteLeft, siteStale>>

RequestCreate(i, s) ==
    /\ siteRow[s] = None
    /\ Accept(i, "create", s, [id |-> NewId, status |-> "provisioning",
                               php |-> DefaultVersion, wp |-> FALSE], DefaultVersion, FALSE)

\* The clone has a database of its own when the source has one.
RequestStaging(i, s) ==
    /\ siteRow[s] # None /\ siteRow[s].status = "active"
    /\ StagingOf[s] # None /\ siteRow[StagingOf[s]] = None
    /\ Accept(i, "clone", StagingOf[s],
              [id |-> NewId, status |-> "provisioning", php |-> siteRow[s].php, wp |-> FALSE],
              siteRow[s].php, siteRow[s].wp)

RequestDelete(i, s) ==
    /\ siteRow[s] # None /\ siteRow[s].status # "deleting"
    /\ Accept(i, "delete", s, [siteRow[s] EXCEPT !.status = "deleting"], siteRow[s].php,
              siteRow[s].wp)

ActiveSite(s) == siteRow[s] # None /\ siteRow[s].status = "active"

RequestWordpress(i, s) ==
    /\ ActiveSite(s) /\ ~siteRow[s].wp
    /\ Accept(i, "wordpress", s, siteRow[s], siteRow[s].php, TRUE)

RequestPhp(i, s, v) ==
    /\ ActiveSite(s) /\ v # siteRow[s].php
    /\ Accept(i, "php", s, siteRow[s], v, FALSE)

RequestSettings(i, s) ==
    ActiveSite(s) /\ Accept(i, "settings", s, siteRow[s], siteRow[s].php, FALSE)

RequestRenewal(i, s) ==
    ActiveSite(s) /\ Accept(i, "resync", s, siteRow[s], siteRow[s].php, FALSE)

-----------------------------------------------------------------------------
(* What a step does to the host.                                           *)

SetPart(s, part, present) ==
    siteHost' = [siteHost EXCEPT ![s] = IF present THEN @ \cup {part} ELSE @ \ {part}]
SetPool(s, v, present) ==
    sitePools' = [sitePools EXCEPT ![s] = IF present THEN @ \cup {v} ELSE @ \ {v}]

\* The part that a step puts in place or, present being FALSE, takes away.
StepEffect(i, step, present) ==
    LET t == siteTask[i] IN
    CASE step \in SiteParts -> SetPart(t.site, step, present) /\ UNCHANGED sitePools
      [] step = "php_pool"  -> SetPool(t.site, t.php, present) /\ UNCHANGED siteHost
      [] step = "remove"    -> SetPool(t.site, t.old, present) /\ UNCHANGED siteHost
      [] step = "download"  -> SetPart(t.site, "doc_root", TRUE) /\ UNCHANGED sitePools
      [] OTHER              -> UNCHANGED <<siteHost, sitePools>>

\* A clone of a site without a database has nothing to do in this step.
Skipped(i, step) ==
    step = "database" /\ siteTask[i].kind = "clone" /\ ~siteTask[i].wp

\* Steps that take something away when they are done, not when undone.
Removing(i, step) == siteTask[i].kind = "delete" \/ step = "remove"

\* Mutation: the file browser and the web server are forgotten.
UndoableOnHost(kind) == IF kind \in {"create", "clone"} THEN {1, 2, 3} ELSE {}

Undoable(kind) ==
    CASE kind \in {"create", "clone"} -> {j \in DOMAIN SiteSteps[kind] : SiteSteps[kind][j] # "finalize"}
      [] kind = "wordpress" -> {1, 2}
      [] kind = "php" -> {1}
      [] OTHER -> {}
LastUndoable(i, n) == Greatest({j \in Undoable(siteTask[i].kind) : j <= n})

Goto(i, pc, at) ==
    siteTask' = [siteTask EXCEPT ![i] = [@ EXCEPT !.pc = pc, !.at = at, !.config = None]]
End(i) ==
    /\ siteTask' = [siteTask EXCEPT ![i] = [NoTask EXCEPT !.kind = siteTask[i].kind]]
    /\ siteWriter' = IF siteWriter = i THEN None ELSE siteWriter
Conclude(i, status) ==
    siteOps' = IF siteOps[i] = None THEN siteOps ELSE [siteOps EXCEPT ![i].status = status]
MayHaveLeft(i, step) ==
    siteLeft' = [siteLeft EXCEPT ![siteTask[i].site] = @ \cup {step}]
Fault == siteFaults + siteCrashes < SiteMaxFaults /\ siteFaults' = siteFaults + 1

-----------------------------------------------------------------------------
(* _run_pipeline(): the steps forward.                                     *)

HostStep(i) ==
    /\ siteTask[i].pc = "do" /\ StepOf(i) \notin {"caddy", "finalize"}
    /\ CanCommit(i)
    /\ IF Skipped(i, StepOf(i)) THEN UNCHANGED <<siteHost, sitePools>>
       ELSE StepEffect(i, StepOf(i), ~Removing(i, StepOf(i)))
    /\ Goto(i, "do", siteTask[i].at + 1)
    /\ UNCHANGED <<siteRow, siteCaddy, siteOps, siteWriter, siteFaults, siteCrashes,
                   siteLeft, siteHistory>>

\* A command that fails may have done its work, or some of it, before.
\* A switch of PHP that cannot install its pool, or remove the old one, gives
\* up as it is; its session is rolled back.
HostStepFails(i) ==
    /\ siteTask[i].pc = "do" /\ StepOf(i) \notin {"caddy", "finalize"}
    /\ CanCommit(i) /\ ~Skipped(i, StepOf(i)) /\ Fault
    /\ \/ StepEffect(i, StepOf(i), ~Removing(i, StepOf(i)))
       \/ UNCHANGED <<siteHost, sitePools>>
    /\ MayHaveLeft(i, StepOf(i))
    /\ IF siteTask[i].kind \in Inline THEN End(i)
       ELSE Goto(i, "undo", LastUndoable(i, siteTask[i].at - 1)) /\ UNCHANGED siteWriter
    /\ UNCHANGED <<siteRow, siteCaddy, siteOps, siteCrashes, siteHistory>>

\* Mutation: the session has not written the version when it reads the rows.
ServedAsCommitted(i, exclude) ==
    [s \in Sites |->
        IF s \in exclude \/ siteRow[s] = None \/ siteRow[s].status \notin {"active", "provisioning"}
        THEN None ELSE siteRow[s].php]

\* build_full_config(): sites that are active or provisioning, as committed,
\* except for the session's own change of version.
Served(i, exclude) ==
    [s \in Sites |->
        IF s \in exclude \/ siteRow[s] = None \/ siteRow[s].status \notin {"active", "provisioning"}
        THEN None
        ELSE IF siteTask[i].kind = "php" /\ s \in RowsOf(i) THEN siteTask[i].php
        ELSE siteRow[s].php]
Excluded(i) ==
    IF siteTask[i].kind = "delete" \/ siteTask[i].pc = "undo" THEN {siteTask[i].site} ELSE {}

AtCaddy(i) == siteTask[i].pc \in {"do", "undo"} /\ siteTask[i].at > 0 /\ StepOf(i) = "caddy"

\* The configuration is built, and the present one fetched to be restored.
\* A switch of PHP writes its row first and holds the database from then on.
BuildConfig(i) ==
    /\ AtCaddy(i) /\ siteTask[i].config = None
    /\ CanCommit(i)
    /\ siteTask[i].kind = "php" => RowsOf(i) # {}
    /\ siteTask' = [siteTask EXCEPT ![i].config =
                      [routes |-> Served(i, Excluded(i)), before |-> siteCaddy]]
    /\ siteWriter' = IF siteTask[i].kind = "php" THEN i ELSE siteWriter
    /\ UNCHANGED <<siteRow, siteHost, sitePools, siteCaddy, siteOps, siteFaults, siteCrashes,
                   siteLeft, siteHistory>>

\* A configuration is out of date when it is not what would be built now, and
\* while another session has written a version that it has not committed.
Load(i, routes) ==
    /\ siteCaddy' = routes
    /\ siteStale' = (siteStale \/ ~CanCommit(i) \/ routes # Served(i, Excluded(i)))
    /\ UNCHANGED <<siteRow, siteHost, sitePools, siteOps, siteCrashes, siteOverlap>>

LoadConfig(i) ==
    /\ AtCaddy(i) /\ siteTask[i].config # None
    /\ Load(i, siteTask[i].config.routes)
    /\ IF siteTask[i].pc = "do" THEN Goto(i, "do", siteTask[i].at + 1)
       ELSE Goto(i, "undo", LastUndoable(i, siteTask[i].at - 1))
    /\ UNCHANGED <<siteWriter, siteFaults, siteLeft>>

\* Caddy refuses a configuration or cannot be reached: apply() restores what
\* it had fetched if it can.  A pipeline starts to undo, or skips this undo.
LoadFails(i) ==
    /\ AtCaddy(i) /\ siteTask[i].config # None /\ Fault
    /\ \/ siteCaddy' = siteCaddy /\ UNCHANGED siteStale
       \/ /\ siteCaddy' = siteTask[i].config.before
          /\ siteStale' = (siteStale \/ siteTask[i].config.before # siteCaddy)
    /\ MayHaveLeft(i, "caddy")
    /\ IF siteTask[i].kind = "resync" THEN End(i)
       ELSE Goto(i, "undo", LastUndoable(i, siteTask[i].at - 1)) /\ UNCHANGED siteWriter
    /\ UNCHANGED <<siteRow, siteHost, sitePools, siteOps, siteCrashes, siteOverlap>>

\* The row has gone before the switch of PHP could write it.
SwitchWithoutRow(i) ==
    /\ AtCaddy(i) /\ siteTask[i].kind = "php" /\ siteTask[i].config = None
    /\ RowsOf(i) = {} /\ CanCommit(i)
    /\ Goto(i, "undo", 1)
    /\ UNCHANGED <<siteRow, siteHost, sitePools, siteCaddy, siteOps, siteWriter, siteFaults,
                   siteCrashes, siteLeft, siteHistory>>

-----------------------------------------------------------------------------
(* Completed steps are undone in reverse; an undo that fails is skipped.   *)

UndoStep(i) ==
    /\ siteTask[i].pc = "undo" /\ siteTask[i].at > 0 /\ StepOf(i) # "caddy"
    /\ CanCommit(i)
    /\ IF Skipped(i, StepOf(i)) THEN UNCHANGED <<siteHost, sitePools>>
       ELSE StepEffect(i, StepOf(i), FALSE)
    /\ Goto(i, "undo", LastUndoable(i, siteTask[i].at - 1))
    /\ UNCHANGED <<siteRow, siteCaddy, siteOps, siteWriter, siteFaults, siteCrashes, siteLeft,
                   siteHistory>>

UndoFails(i) ==
    /\ siteTask[i].pc = "undo" /\ siteTask[i].at > 0 /\ StepOf(i) # "caddy"
    /\ ~Skipped(i, StepOf(i)) /\ Fault
    /\ MayHaveLeft(i, StepOf(i))
    /\ Goto(i, "undo", LastUndoable(i, siteTask[i].at - 1))
    /\ UNCHANGED <<siteRow, siteHost, sitePools, siteCaddy, siteOps, siteWriter, siteCrashes,
                   siteHistory>>

\* The pipeline records its failure.  Where it also writes the row and the row
\* has gone, the commit raises and the operation is left as it is.
GiveUp(i) ==
    /\ siteTask[i].pc = "undo" /\ siteTask[i].at = 0
    /\ CanCommit(i)
    /\ IF siteTask[i].kind \in {"create", "clone", "delete"}
       THEN /\ siteRow' = [s \in Sites |-> IF s \in RowsOf(i)
                              THEN [siteRow[s] EXCEPT !.status = "error"] ELSE siteRow[s]]
            /\ IF RowsOf(i) = {} THEN UNCHANGED siteOps ELSE Conclude(i, "failed")
       ELSE Conclude(i, "failed") /\ UNCHANGED siteRow
    /\ End(i)
    /\ UNCHANGED <<siteHost, sitePools, siteCaddy, siteFaults, siteCrashes, siteLeft,
                   siteHistory>>

-----------------------------------------------------------------------------
(* The last step, which writes the row, and _finish().                     *)

AtFinalize(i) == siteTask[i].pc = "do" /\ StepOf(i) = "finalize" /\ CanCommit(i)

Finalized(i, row) ==
    CASE siteTask[i].kind \in {"create", "clone"} ->
            [row EXCEPT !.status = "active", !.wp = siteTask[i].wp]
      [] siteTask[i].kind = "wordpress" -> [row EXCEPT !.wp = TRUE]
      [] siteTask[i].kind = "php"       -> [row EXCEPT !.php = siteTask[i].php]
      [] siteTask[i].kind = "delete"    -> None
      [] OTHER                          -> row

Finalize(i) ==
    /\ AtFinalize(i)
    /\ RowsOf(i) # {} \/ siteTask[i].kind \in {"delete", "resync"}
    /\ siteRow' = [s \in Sites |-> IF s \in RowsOf(i) THEN Finalized(i, siteRow[s])
                                    ELSE siteRow[s]]
    /\ siteOps' = [j \in SiteRequests |->
           IF siteTask[i].kind = "delete" /\ siteOps[j] # None /\ siteOps[j].site \in RowsOf(i)
           THEN [siteOps[j] EXCEPT !.linked = FALSE] ELSE siteOps[j]]
    /\ IF siteTask[i].kind \in Inline THEN End(i)
       ELSE Goto(i, "finish", siteTask[i].at) /\ UNCHANGED siteWriter
    /\ UNCHANGED <<siteHost, sitePools, siteCaddy, siteFaults, siteCrashes, siteLeft,
                   siteHistory>>

\* The row has gone: the commit raises, in the pipeline's own error handling
\* too, and the task ends without undoing or recording anything.
FinalizeWithoutRow(i) ==
    /\ AtFinalize(i)
    /\ RowsOf(i) = {} /\ siteTask[i].kind \notin {"delete", "resync"}
    /\ End(i)
    /\ UNCHANGED <<siteRow, siteHost, sitePools, siteCaddy, siteOps, siteFaults, siteCrashes,
                   siteLeft, siteHistory>>

Finish(i) ==
    /\ siteTask[i].pc = "finish" /\ CanCommit(i)
    /\ Conclude(i, "succeeded")
    /\ End(i)
    /\ UNCHANGED <<siteRow, siteHost, sitePools, siteCaddy, siteFaults, siteCrashes, siteLeft,
                   siteHistory>>

-----------------------------------------------------------------------------
(* The reaper, and restarts.                                               *)

\* Mutation: operations are reaped when their site has gone, and only then.
Unlinked(i) == ~siteOps[i].linked

\* _reap_stale_operations(): operations whose site has gone, at once, and
\* lost ones when they are old enough.
Reapable(i) == ~siteOps[i].linked \/ ~SiteLive(i)

Reap(i) ==
    /\ siteWriter = None
    /\ siteOps[i] # None /\ siteOps[i].status \in {"pending", "running"}
    /\ Reapable(i)
    /\ Conclude(i, "failed")
    /\ UNCHANGED <<siteRow, siteHost, sitePools, siteCaddy, siteTask, siteWriter, siteFaults,
                   siteCrashes, siteLeft, siteHistory>>

\* An operation that takes longer than the timeout is ended beside its task,
\* which goes on and concludes it again.
ReapSlow(i) ==
    /\ siteWriter = None
    /\ siteOps[i] # None /\ siteOps[i].status \in {"pending", "running"} /\ SiteLive(i)
    /\ Fault
    /\ Conclude(i, "failed")
    /\ UNCHANGED <<siteRow, siteHost, sitePools, siteCaddy, siteTask, siteWriter,
                   siteCrashes, siteLeft, siteHistory>>

\* Tasks and uncommitted writes are lost.  On startup the configuration is
\* loaded from the rows if Caddy can be reached.
SiteRestart ==
    /\ siteFaults + siteCrashes < SiteMaxFaults /\ siteCrashes' = siteCrashes + 1
    /\ siteTask' = [i \in SiteRequests |-> [NoTask EXCEPT !.kind = siteTask[i].kind]]
    /\ siteWriter' = None
    /\ siteCaddy' \in {siteCaddy,
          [s \in Sites |-> IF siteRow[s] # None /\ siteRow[s].status \in {"active", "provisioning"}
                            THEN siteRow[s].php ELSE None]}
    /\ UNCHANGED <<siteRow, siteHost, sitePools, siteOps, siteFaults, siteLeft, siteHistory>>

-----------------------------------------------------------------------------
\* A site that runs, with or without WordPress; StagingOf makes it a source.
SiteInit ==
    /\ \E p \in Sites, wp \in BOOLEAN :
         /\ StagingOf[p] # None
         /\ siteRow = [s \in Sites |-> IF s = p THEN [id |-> 1, status |-> "active",
                          php |-> DefaultVersion, wp |-> wp] ELSE None]
         /\ siteHost = [s \in Sites |-> IF s # p THEN {}
                          ELSE SiteParts \ (IF wp THEN {} ELSE {"database"})]
         /\ sitePools = [s \in Sites |-> IF s = p THEN {DefaultVersion} ELSE {}]
         /\ siteCaddy = [s \in Sites |-> IF s = p THEN DefaultVersion ELSE None]
    /\ siteOps = [i \in SiteRequests |-> None]
    /\ siteTask = [i \in SiteRequests |-> NoTask]
    /\ siteWriter = None /\ siteFaults = 0 /\ siteCrashes = 0
    /\ siteLeft = [s \in Sites |-> {}]
    /\ siteOverlap = {} /\ siteStale = FALSE

SiteRequest(i) ==
    \E s \in Sites :
        \/ RequestCreate(i, s) \/ RequestStaging(i, s) \/ RequestDelete(i, s)
        \/ RequestWordpress(i, s) \/ RequestSettings(i, s) \/ RequestRenewal(i, s)
        \/ \E v \in Versions : RequestPhp(i, s, v)

SiteTaskStep(i) ==
    \/ HostStep(i) \/ HostStepFails(i)
    \/ BuildConfig(i) \/ LoadConfig(i) \/ LoadFails(i) \/ SwitchWithoutRow(i)
    \/ UndoStep(i) \/ UndoFails(i) \/ GiveUp(i)
    \/ Finalize(i) \/ FinalizeWithoutRow(i) \/ Finish(i)

SiteNext ==
    \/ \E i \in SiteRequests : SiteRequest(i) \/ SiteTaskStep(i) \/ Reap(i) \/ ReapSlow(i)
    \/ SiteRestart

SiteFairness ==
    \A i \in SiteRequests : WF_siteVars(SiteTaskStep(i)) /\ WF_siteVars(Reap(i))

SiteSpec == SiteInit /\ [][SiteNext]_siteVars /\ SiteFairness

-----------------------------------------------------------------------------
(* Properties.                                                             *)

Undisturbed(s) == s \notin siteOverlap /\ ~siteStale /\ siteCrashes = 0

\* An active site is served, through a pool that exists: a change of the PHP
\* version that fails before it removes the old pool does not take the site
\* down, nor does the failure of a pipeline of another site.
ActiveSiteServed ==
    \A s \in Sites : ActiveSite(s) /\ Undisturbed(s) /\ "remove" \notin siteLeft[s] =>
        siteCaddy[s] # None /\ siteCaddy[s] \in sitePools[s]

\* A pipeline that failed has undone what it completed: of a site whose
\* creation failed there is at most what failing commands have left.
RollbackComplete ==
    \A i \in SiteRequests :
        siteOps[i] # None /\ siteOps[i].kind \in {"create", "clone"} /\ siteOps[i].status = "failed"
        /\ siteOps[i].linked /\ siteCrashes = 0 /\ siteOps[i].site \notin siteOverlap
        /\ OnSite(siteOps[i].site) = {}
        => LET s == siteOps[i].site IN
           /\ siteHost[s] \subseteq siteLeft[s]
           /\ sitePools[s] # {} => {"php_pool", "remove"} \cap siteLeft[s] # {}

\* Of a site whose row has gone nothing is left that a later site of this
\* domain could meet, but for pools that a failed switch has left, and no
\* route leads to it: a failed delete can be retried until this holds.
DeletedSiteGone ==
    \A s \in Sites : siteRow[s] = None /\ Undisturbed(s) =>
        /\ siteHost[s] = {}
        /\ siteCaddy[s] = None
        /\ sitePools[s] # {} => {"php_pool", "remove"} \cap siteLeft[s] # {}

\* Pipelines leave nothing behind: neither when they fail nor when they delete.
PipelinesClean == RollbackComplete /\ DeletedSiteGone

\* What is there is served, and of what failed or has gone nothing is there.
SitesSound == ActiveSiteServed /\ PipelinesClean

\* Every operation ends, also when its task died of a row that had gone:
\* requests are finite here, so again and again none is open.
SiteOpsClosed ==
    \A i \in SiteRequests :
        siteOps[i] # None => siteOps[i].status \in {"succeeded", "failed"}
SiteOpsEnd == []<>SiteOpsClosed
=============================================================================
