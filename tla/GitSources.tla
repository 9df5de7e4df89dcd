------------------------------ MODULE GitSources ------------------------------
(***************************************************************************)
(* GitHub Apps registered as sources of repositories.  The panel learns of *)
(* an app and of its installation by three ways that race: the callback    *)
(* that exchanges a code for the app and asks for installations for a      *)
(* while, the redirect of the browser after an installation, and a refresh *)
(* that a user asks for.  Pushes are matched, and builds authenticated, by *)
(* what the rows say in the end.                                           *)
(***************************************************************************)
EXTENDS PanelBase

CONSTANTS
    GsApps,       \* GitHub Apps that are created
    GsOwners,     \* which accounts may register which apps: functions on GsApps
    GsMaxOps,     \* bound: requests to the panel that take a while
    GsMaxMoves,   \* bound: installations at GitHub
    GsMaxEdits    \* bound: sources deleted

ASSUME GsAssumption ==
    /\ None \notin GsApps /\ \A owner \in GsOwners : GsApps = DOMAIN owner
    /\ IsFiniteSet(GsApps) /\ GsApps # {}
    /\ GsMaxOps \in Nat /\ GsMaxMoves \in Nat /\ GsMaxEdits \in Nat

\* Python's None is no row and no name of a handler.
ASSUME GsNoneAssumption ==
    /\ None \notin [owner : {owner[a] : owner \in GsOwners, a \in GsApps}, app : GsApps,
                    inst : Nat \cup {None}]
    /\ None \notin {"callback", "install", "refresh"}

VARIABLES
    gsOwner,      \* gsOwner[a]: the account that registers app a
    gsHub,        \* gsHub[a]: what GitHub knows of app a: the code not yet
                  \* exchanged, and its installation, or None
    gsApp,        \* gsApp[n]: the app of installation n
    gsRow,        \* gsRow[i]: the source with id i, or None
    gsTask,       \* gsTask[j]: the handler of request j
    gsRedirects,  \* redirects on their way: installation, and the id in the
                  \* signed state, or None
    gsEdits,      \* how many sources were deleted
    gsTold,       \* history: installations that a handler recorded
    gsReused,     \* history: ids of rows that were given again
    gsStale       \* history: ids of rows written from an old answer

gsHistory == <<gsTold, gsReused, gsStale>>
gsVars == <<gsOwner, gsHub, gsApp, gsRow, gsTask, gsRedirects, gsEdits, gsHistory>>

GsIds == 1 .. Cardinality(GsApps)
GsRequests == 1 .. GsMaxOps
Installations == DOMAIN gsApp
GsRegistered == {i \in GsIds : gsRow[i] # None}
InstalledAs(a) == gsHub[a].inst

GsOff == [kind |-> None, pc |-> "off", id |-> 0, app |-> None, inst |-> None, rows |-> {}]

GsTypeOK ==
    /\ gsOwner \in GsOwners
    /\ \A a \in GsApps : gsHub[a].code \in BOOLEAN /\ InstalledAs(a) \in Installations \cup {None}
    /\ \A i \in GsRegistered : /\ gsRow[i].app \in GsApps
                               /\ gsRow[i].inst \in Installations \cup {None}
    /\ \A j \in GsRequests : gsTask[j].pc \in {"off", "ask", "write"}
    /\ gsTold \subseteq Installations /\ gsReused \subseteq GsIds /\ gsStale \subseteq GsIds

-----------------------------------------------------------------------------
GsFree(j) == gsTask[j].kind = None /\ \A h \in 1 .. j - 1 : gsTask[h].kind # None
GsStart(j, task) == GsFree(j) /\ gsTask' = [gsTask EXCEPT ![j] = task]
GsEnd(j) == gsTask' = [gsTask EXCEPT ![j] = [GsOff EXCEPT !.kind = gsTask[j].kind]]

\* The row of a source gets the number of an installation.
Record(i, n) ==
    /\ gsRow' = [gsRow EXCEPT ![i].inst = n]
    /\ gsTold' = gsTold \cup {n}
    /\ gsStale' = IF n = InstalledAs(gsRow[i].app) THEN gsStale \ {i} ELSE gsStale \cup {i}
    /\ UNCHANGED gsReused

-----------------------------------------------------------------------------
(* The callback.                                                           *)

\* The code is exchanged, once; the redirect may already name the installation.
GithubCallback(j, a) ==
    /\ gsHub[a].code
    /\ \E n \in {None, InstalledAs(a)} :
         GsStart(j, [GsOff EXCEPT !.kind = "callback", !.pc = IF n = None THEN "ask" ELSE "write",
                                  !.app = a, !.inst = n])
    /\ gsHub' = [gsHub EXCEPT ![a].code = FALSE]
    /\ UNCHANGED <<gsOwner, gsApp, gsRow, gsRedirects, gsEdits, gsHistory>>

\* The first installation GitHub lists is taken; when it lists none for a
\* while, or answers with an error, the source does without.
AskInstallations(j) ==
    /\ gsTask[j].pc = "ask" /\ gsTask[j].kind = "callback"
    /\ \E n \in {None, InstalledAs(gsTask[j].app)} :
         gsTask' = [gsTask EXCEPT ![j].pc = "write", ![j].inst = n]
    /\ UNCHANGED <<gsOwner, gsHub, gsApp, gsRow, gsRedirects, gsEdits, gsHistory>>

\* Some handler still means the row that had the id before.
Meant(i) == \/ \E j \in GsRequests : gsTask[j].kind # "callback" /\
                                     i \in gsTask[j].rows \cup {gsTask[j].id}
            \/ \E r \in gsRedirects : r.id = i

AddSource(j) ==
    LET t == gsTask[j]
        i == 1 + Greatest(GsRegistered) IN
    /\ t.pc = "write" /\ t.kind = "callback"
    /\ gsRow' = [gsRow EXCEPT ![i] = [owner |-> gsOwner[t.app], app |-> t.app, inst |-> t.inst]]
    /\ gsTold' = gsTold \cup ({t.inst} \ {None})
    /\ gsStale' = IF t.inst \in {None, InstalledAs(t.app)} THEN gsStale \ {i} ELSE gsStale \cup {i}
    /\ gsReused' = IF Meant(i) THEN gsReused \cup {i} ELSE gsReused
    /\ GsEnd(j)
    /\ UNCHANGED <<gsOwner, gsHub, gsApp, gsRedirects, gsEdits>>

\* The account has a source of that name: the answer of GitHub is lost.
SourceRefused(j) ==
    /\ gsTask[j].pc = "write" /\ gsTask[j].kind = "callback"
    /\ \E i \in GsRegistered : gsRow[i].owner = gsOwner[gsTask[j].app]
    /\ GsEnd(j)
    /\ UNCHANGED <<gsOwner, gsHub, gsApp, gsRow, gsRedirects, gsEdits, gsHistory>>

DeleteSource(i) ==
    /\ i \in GsRegistered /\ gsEdits < GsMaxEdits
    /\ gsRow' = [gsRow EXCEPT ![i] = None]
    /\ gsEdits' = gsEdits + 1
    /\ UNCHANGED <<gsOwner, gsHub, gsApp, gsTask, gsRedirects, gsHistory>>

-----------------------------------------------------------------------------
(* Installations.                                                          *)

\* The user installs an app, from the address the panel signed for a source or
\* (or too late for the state in it) from the pages of GitHub, and the browser
\* is sent back to the panel.
HubInstalls(a) ==
    LET n == 1 + Greatest(Installations) IN
    /\ InstalledAs(a) = None /\ n <= GsMaxMoves
    /\ gsHub' = [gsHub EXCEPT ![a].inst = n]
    /\ gsApp' = [m \in 1 .. n |-> IF m = n THEN a ELSE gsApp[m]]
    /\ \E i \in {None} \cup {m \in GsRegistered : gsRow[m].app = a} :
         gsRedirects' = gsRedirects \cup {[inst |-> n, id |-> i]}
    /\ UNCHANGED <<gsOwner, gsRow, gsTask, gsEdits, gsHistory>>

HubUninstalls(a) ==
    /\ InstalledAs(a) # None
    /\ gsHub' = [gsHub EXCEPT ![a].inst = None]
    /\ UNCHANGED <<gsOwner, gsApp, gsRow, gsTask, gsRedirects, gsEdits, gsHistory>>

\* The redirect never arrives.
RedirectLost(r) ==
    /\ r \in gsRedirects
    /\ gsRedirects' = gsRedirects \ {r}
    /\ UNCHANGED <<gsOwner, gsHub, gsApp, gsRow, gsTask, gsEdits, gsHistory>>

\* github_install(): a state that names a source of the user is believed.
SignedFor(r) ==
    {i \in GsRegistered : i = r.id /\ gsRow[i].owner = gsOwner[gsApp[r.inst]]}
InstallSigned(r) ==
    /\ r \in gsRedirects
    /\ \E i \in SignedFor(r) : Record(i, r.inst)
    /\ gsRedirects' = gsRedirects \ {r}
    /\ UNCHANGED <<gsOwner, gsHub, gsApp, gsTask, gsEdits>>

\* Without one all the sources of the user are asked about at GitHub.
InstallFallback(j, r) ==
    /\ r \in gsRedirects /\ SignedFor(r) = {}
    /\ GsStart(j, [GsOff EXCEPT !.kind = "install", !.pc = "ask", !.inst = r.inst,
                     !.rows = {i \in GsRegistered : gsRow[i].owner = gsOwner[gsApp[r.inst]]}])
    /\ gsRedirects' = gsRedirects \ {r}
    /\ UNCHANGED <<gsOwner, gsHub, gsApp, gsRow, gsEdits, gsHistory>>

\* Mutation: an installation that some app of the user answers for is anybody's.
AnyAnswers(a, n) == InstalledAs(gsApp[n]) = n

\* GitHub knows the installation, and it is one of the app of that source.
AnswersFor(a, n) == InstalledAs(a) = n

MatchSource(j) ==
    LET t == gsTask[j] IN
    /\ t.pc = "ask" /\ t.kind = "install"
    /\ \/ \E i \in t.rows \cap GsRegistered :
            /\ AnswersFor(gsRow[i].app, t.inst)
            /\ Record(i, t.inst)
       \/ UNCHANGED <<gsRow, gsHistory>>
    /\ GsEnd(j)
    /\ UNCHANGED <<gsOwner, gsHub, gsApp, gsRedirects, gsEdits>>

\* refresh_installation(): GitHub is asked with the key of the row, and the
\* answer written to the row that has the id by then.
RefreshInstallation(j, i) ==
    /\ i \in GsRegistered
    /\ GsStart(j, [GsOff EXCEPT !.kind = "refresh", !.pc = "ask", !.id = i, !.app = gsRow[i].app])
    /\ UNCHANGED <<gsOwner, gsHub, gsApp, gsRow, gsRedirects, gsEdits, gsHistory>>
RefreshAnswered(j) ==
    /\ gsTask[j].pc = "ask" /\ gsTask[j].kind = "refresh"
    /\ IF InstalledAs(gsTask[j].app) = None THEN GsEnd(j)
       ELSE gsTask' = [gsTask EXCEPT ![j].pc = "write", ![j].inst = InstalledAs(gsTask[j].app)]
    /\ UNCHANGED <<gsOwner, gsHub, gsApp, gsRow, gsRedirects, gsEdits, gsHistory>>
RefreshWrites(j) ==
    LET t == gsTask[j] IN
    /\ t.pc = "write" /\ t.kind = "refresh"
    /\ IF t.id \in GsRegistered THEN Record(t.id, t.inst) ELSE UNCHANGED <<gsRow, gsHistory>>
    /\ GsEnd(j)
    /\ UNCHANGED <<gsOwner, gsHub, gsApp, gsRedirects, gsEdits>>

-----------------------------------------------------------------------------
(* What the rows are for.                                                  *)

\* github_webhook(): a push of app a goes to the stacks that name the one
\* source with its installation, and is answered with an error if two have it.
SourcesWith(n) == {i \in GsRegistered : gsRow[i].inst = n}
PushedSource(a) ==
    {i \in SourcesWith(InstalledAs(a)) : gsRow[i].app = a /\ SourcesWith(InstalledAs(a)) = {i}}

\* Every build asks GitHub for a token of the source its stack names, and does
\* without when there is none.
ResolvedToken(i) ==
    LET row == gsRow[i] IN
    IF row.inst # None /\ InstalledAs(row.app) = row.inst THEN row.app ELSE None

-----------------------------------------------------------------------------
\* Nothing is registered yet; or one app is, and installed.  Which one makes
\* no difference.
GsInit ==
    /\ gsOwner \in GsOwners
    /\ \E old \in {None, CHOOSE a \in GsApps : TRUE} :
         /\ gsHub = [a \in GsApps |-> [code |-> a # old, inst |-> IF a = old THEN 1 ELSE None]]
         /\ gsApp = [n \in {m \in {1} : old # None} |-> old]
         /\ gsRow = [i \in GsIds |->
                IF i = 1 /\ old # None THEN [owner |-> gsOwner[old], app |-> old, inst |-> 1]
                ELSE None]
         /\ gsTold = {m \in {1} : old # None}
    /\ gsTask = [j \in GsRequests |-> GsOff]
    /\ gsRedirects = {} /\ gsEdits = 0
    /\ gsReused = {} /\ gsStale = {}

GsNext ==
    \/ \E j \in GsRequests :
         \/ \E a \in GsApps : GithubCallback(j, a)
         \/ \E r \in gsRedirects : InstallFallback(j, r)
         \/ \E i \in GsIds : RefreshInstallation(j, i)
         \/ AskInstallations(j) \/ AddSource(j) \/ SourceRefused(j) \/ MatchSource(j)
         \/ RefreshAnswered(j) \/ RefreshWrites(j)
    \/ \E r \in gsRedirects : RedirectLost(r) \/ InstallSigned(r)
    \/ \E a \in GsApps : HubInstalls(a) \/ HubUninstalls(a)
    \/ \E i \in GsIds : DeleteSource(i)

GsSpec == GsInit /\ [][GsNext]_gsVars

-----------------------------------------------------------------------------
(* Properties.                                                             *)

\* A source holds installations of its own app, as long as its id has not been
\* given again while a handler still meant the source that had it before.
InstallationsApart ==
    \A i \in GsRegistered \ gsReused :
        gsRow[i].inst # None => gsApp[gsRow[i].inst] = gsRow[i].app

\* Once the installation of an app that stands has been recorded, pushes reach
\* its source and builds get a token, whatever the order of redirects, callbacks
\* and refreshes, unless somebody wrote an older answer over it.
PushesBuilt ==
    \A i \in GsRegistered \ gsStale :
        LET a == gsRow[i].app IN
        InstalledAs(a) \in gsTold => PushedSource(a) = {i} /\ ResolvedToken(i) = a

SourcesSound == InstallationsApart /\ PushesBuilt
=============================================================================
