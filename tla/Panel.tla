-------------------------------- MODULE Panel --------------------------------
(***************************************************************************)
(* The parts of the panel around the stacks side by side.  What one part   *)
(* has to know of another is an action of its own module (the deletion of  *)
(* a site is one of SiteBackups and of SiteDatabases), so their steps      *)
(* commute, and a behaviour concentrates on one of them while the others   *)
(* rest: the states of the parts add up instead of multiplying.            *)
(***************************************************************************)
EXTENDS SitePipelines, SiteBackups, SiteDatabases, StagingPush, SiteImports, AccountTenants,
        Sessions, DnsZones, Apps, StackEdits, Notices, RemoteServers, UnitFiles,
        ZeroDowntime, GitSources, FileSessions, StackActions

CONSTANT PanelParts   \* the parts that are explored

ASSUME PanelAssumption ==
    PanelParts \subseteq {"sites", "backups", "databases", "staging", "imports", "accounts",
                          "sessions", "dns", "apps", "edits", "notices", "servers", "units",
                          "deploys", "sources", "files", "actions"}

VARIABLE focus   \* the part that is at work

panelVars == <<focus, siteVars, bkVars, dbVars, pushVars, impVars, accVars, sesVars, dnsVars,
               appVars, editVars, noteVars, rsVars, unVars, zdVars, gsVars, fmVars,
               saVars>>

\* A part that rests stays in a state that it has at the beginning of its own
\* work, too, so that it is enough to look at a part while it is at work.
AtWork(part, holds) == focus = part => holds

PanelTypeOK ==
    /\ focus \in PanelParts
    /\ AtWork("sites", SiteTypeOK) /\ AtWork("backups", BkTypeOK) /\ AtWork("databases", DbTypeOK)
    /\ AtWork("staging", PushTypeOK) /\ AtWork("imports", ImpTypeOK) /\ AtWork("accounts", AccTypeOK)
    /\ AtWork("sessions", SesTypeOK) /\ AtWork("dns", DnsTypeOK) /\ AtWork("apps", AppTypeOK)
    /\ AtWork("edits", EditTypeOK) /\ AtWork("notices", NoteTypeOK) /\ AtWork("servers", RsTypeOK)
    /\ AtWork("units", UnTypeOK) /\ AtWork("deploys", ZdTypeOK) /\ AtWork("sources", GsTypeOK)
    /\ AtWork("files", FmTypeOK) /\ AtWork("actions", SaTypeOK)

\* A part that rests rests in one of its initial states.
PanelInit ==
    /\ focus \in PanelParts
    /\ SiteInit /\ (focus # "sites" => \A s \in Sites : siteRow[s] # None => siteRow[s].wp)
    /\ PushInit /\ (focus # "staging" => \A s \in PushSites : pushWp[s])
    /\ EditInit /\ (focus # "edits" => editRow[1].env = None)
    /\ DnsInit /\ (focus # "dns" => dnsZone = None)
    /\ DbInit /\ (focus # "databases" => dbSchema = {})
    /\ AppInit /\ (focus # "apps" => appRow = [n \in AppNames |-> None])
    /\ RsInit /\ (focus # "servers" => rsUser = {})
    /\ GsInit /\ (focus # "sources" => GsRegistered = {} /\ gsOwner = CHOOSE owner \in GsOwners : TRUE)
    /\ UnInit /\ (focus # "units" => unFiles = {})
    /\ BkInit /\ ImpInit /\ AccInit /\ SesInit /\ NoteInit /\ ZdInit /\ SaInit
    /\ FmInit /\ (focus # "files" => \A p \in FmPlaces : fmRow[p] = None)

\* Everything but the part at work rests; vars are the variables of the rest.
PanelRest(part, vars) == focus = part /\ UNCHANGED <<focus, vars>>

PanelNext ==
    \/ /\ PanelRest("sites", <<bkVars, dbVars, pushVars, impVars, accVars, sesVars, dnsVars,
                               appVars, editVars, noteVars, rsVars, unVars, zdVars, gsVars, fmVars,
                               saVars>>)
       /\ SiteNext
    \/ /\ PanelRest("backups", <<siteVars, dbVars, pushVars, impVars, accVars, sesVars, dnsVars,
                                 appVars, editVars, noteVars, rsVars, unVars, zdVars, gsVars,
                                 fmVars, saVars>>)
       /\ BkNext
    \/ /\ PanelRest("databases", <<siteVars, bkVars, pushVars, impVars, accVars, sesVars, dnsVars,
                                   appVars, editVars, noteVars, rsVars, unVars, zdVars, gsVars,
                                   fmVars, saVars>>)
       /\ DbNext
    \/ /\ PanelRest("staging", <<siteVars, bkVars, dbVars, impVars, accVars, sesVars, dnsVars,
                                 appVars, editVars, noteVars, rsVars, unVars, zdVars, gsVars,
                                 fmVars, saVars>>)
       /\ PushNext
    \/ /\ PanelRest("imports", <<siteVars, bkVars, dbVars, pushVars, accVars, sesVars, dnsVars,
                                 appVars, editVars, noteVars, rsVars, unVars, zdVars, gsVars,
                                 fmVars, saVars>>)
       /\ ImpNext
    \/ /\ PanelRest("accounts", <<siteVars, bkVars, dbVars, pushVars, impVars, sesVars, dnsVars,
                                  appVars, editVars, noteVars, rsVars, unVars, zdVars, gsVars,
                                  fmVars, saVars>>)
       /\ AccNext
    \/ /\ PanelRest("sessions", <<siteVars, bkVars, dbVars, pushVars, impVars, accVars, dnsVars,
                                  appVars, editVars, noteVars, rsVars, unVars, zdVars, gsVars,
                                  fmVars, saVars>>)
       /\ SesNext
    \/ /\ PanelRest("dns", <<siteVars, bkVars, dbVars, pushVars, impVars, accVars, sesVars, appVars,
                             editVars, noteVars, rsVars, unVars, zdVars, gsVars, fmVars, saVars>>)
       /\ DnsNext
    \/ /\ PanelRest("apps", <<siteVars, bkVars, dbVars, pushVars, impVars, accVars, sesVars,
                              dnsVars, editVars, noteVars, rsVars, unVars, zdVars, gsVars, fmVars,
                              saVars>>)
       /\ AppNext
    \/ /\ PanelRest("edits", <<siteVars, bkVars, dbVars, pushVars, impVars, accVars, sesVars,
                               dnsVars, appVars, noteVars, rsVars, unVars, zdVars, gsVars, fmVars,
                               saVars>>)
       /\ EditNext
    \/ /\ PanelRest("notices", <<siteVars, bkVars, dbVars, pushVars, impVars, accVars, sesVars,
                                 dnsVars, appVars, editVars, rsVars, unVars, zdVars, gsVars, fmVars,
                                 saVars>>)
       /\ NoteNext
    \/ /\ PanelRest("servers", <<siteVars, bkVars, dbVars, pushVars, impVars, accVars, sesVars,
                                 dnsVars, appVars, editVars, noteVars, unVars, zdVars, gsVars,
                                 fmVars, saVars>>)
       /\ RsNext
    \/ /\ PanelRest("units", <<siteVars, bkVars, dbVars, pushVars, impVars, accVars, sesVars,
                               dnsVars, appVars, editVars, noteVars, rsVars, zdVars, gsVars, fmVars,
                               saVars>>)
       /\ UnNext
    \/ /\ PanelRest("deploys", <<siteVars, bkVars, dbVars, pushVars, impVars, accVars, sesVars,
                                 dnsVars, appVars, editVars, noteVars, rsVars, unVars, gsVars,
                                 fmVars, saVars>>)
       /\ ZdNext
    \/ /\ PanelRest("sources", <<siteVars, bkVars, dbVars, pushVars, impVars, accVars, sesVars,
                                 dnsVars, appVars, editVars, noteVars, rsVars, unVars, zdVars,
                                 fmVars, saVars>>)
       /\ GsNext
    \/ /\ PanelRest("files", <<siteVars, bkVars, dbVars, pushVars, impVars, accVars, sesVars,
                               dnsVars, appVars, editVars, noteVars, rsVars, unVars, zdVars, gsVars,
                               saVars>>)
       /\ FmNext
    \/ /\ PanelRest("actions", <<siteVars, bkVars, dbVars, pushVars, impVars, accVars, sesVars,
                                 dnsVars, appVars, editVars, noteVars, rsVars, unVars, zdVars,
                                 gsVars, fmVars>>)
       /\ SaNext

\* Some task of a pipeline or of a backup goes on, and the reaper runs: weaker
\* than the specifications of the parts, whose fairness is for each request.
PanelFairness ==
    /\ WF_siteVars(focus = "sites" /\ \E i \in SiteRequests : SiteTaskStep(i) \/ Reap(i))
    /\ WF_bkVars(focus = "backups" /\ \E i \in BkRequests : BkTaskStep(i) \/ BkReap(i))
    /\ WF_rsVars(focus = "servers" /\ \E s \in RsStacks : RsReap(s))
    /\ WF_saVars(focus = "actions" /\ \E i \in SaRequests : ReapAction(i))

PanelSpec == PanelInit /\ [][PanelNext]_panelVars /\ PanelFairness

\* Operations end: those of pipelines, also when the row of their site goes,
\* backups and restores, which all wait for one lock, those of stacks whose
\* server could not be reached, and those of actions a restart has broken off.
PanelOpsEnd == []<>(SiteOpsClosed /\ BkOpsClosed /\ RsOpsClosed /\ SaOpsClosed)

\* What the parts that reach hosts agree on: sessions with remote servers, the
\* files of units, the routes of services that are deployed, what is built from
\* GitHub, whose files the file manager opens, and what actions leave behind.
HostsSound ==
    /\ AtWork("servers", ServersSound) /\ AtWork("units", UnitFilesSound)
    /\ AtWork("deploys", DeploysSound) /\ AtWork("sources", SourcesSound)
    /\ AtWork("files", FilesSound) /\ AtWork("actions", ActionsSound)
=============================================================================
