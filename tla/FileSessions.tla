----------------------------- MODULE FileSessions -----------------------------
(***************************************************************************)
(* The file manager.  A signed ticket names a site or a stack, the account *)
(* it was given to and the version of its token; the proxy looks at the    *)
(* rows again for every request, and forwards it under the name of the     *)
(* site.  One Filebrowser has an account with a directory for each site,   *)
(* made and removed by the pipelines over an interface that lists first    *)
(* and changes later, and makes up accounts for names it does not know.    *)
(***************************************************************************)
EXTENDS PanelBase

CONSTANTS
    FmSites,      \* sites: the domain, and with it user and directory
    FmStacks,     \* stacks with a file manager of their own
    FmUsers,      \* accounts of clients
    FmMaxPipes,   \* bound: sites and stacks created or deleted
    FmMaxProxied, \* bound: requests at the proxy
    FmMaxEdits,   \* bound: changes of an account
    FmMaxFaults   \* bound: Filebrowser out of reach, failing steps, restarts

ASSUME FmAssumption ==
    /\ FmSites \cap FmStacks = {} /\ None \notin FmUsers
    /\ FmUsers # {}
    /\ \A bound \in {FmMaxPipes, FmMaxProxied, FmMaxEdits, FmMaxFaults} : bound \in Nat

\* Python's None is no row, no account at Filebrowser, no ticket and no name of
\* a pipeline.
ASSUME FmNoneAssumption ==
    /\ None \notin [owner : FmUsers, status : {"provisioning", "active", "deleting", "error"}]
    /\ None \notin [id : Nat, scope : {"own", "quarantine"}]
    /\ None \notin [place : FmSites \cup FmStacks, user : FmUsers, version : 0 .. FmMaxEdits]
    /\ None \notin {"create", "delete", "undo"} /\ None \notin FmSites \cup FmStacks

VARIABLES
    fmRow,      \* fmRow[p]: the row of a site or stack, or None
    fmUser,     \* fmUser[u]: the row of account u
    fmTickets,  \* tickets and cookies that have been given
    fmBrowser,  \* fmBrowser[p]: the account of site p at Filebrowser, or None
    fmNextId,   \* the id the next account there gets
    fmPipe,     \* fmPipe[i]: the i-th pipeline
    fmProxy,    \* fmProxy[j]: the j-th request at the proxy
    fmUsed,     \* changes of accounts and faults so far
    fmMoved,    \* history: requests that the rows have moved away from
    fmLeft,     \* history: sites whose account was not looked after
    fmStray     \* history: requests that got files of others

fmHistory == <<fmMoved, fmLeft, fmStray>>
fmVars == <<fmRow, fmUser, fmTickets, fmBrowser, fmNextId, fmPipe, fmProxy, fmUsed, fmHistory>>

FmPlaces == FmSites \cup FmStacks
FmPipes == 1 .. FmMaxPipes
FmProxied == 1 .. FmMaxProxied
FmOff == [kind |-> None, pc |-> "off", place |-> None, seen |-> 0]
FmNoRequest == [pc |-> "new", ticket |-> None, user |-> None]
FmTicket == [place : FmPlaces, user : FmUsers, version : 0 .. FmMaxEdits]
FmWorking(p) == {i \in FmPipes : fmPipe[i].place = p /\ fmPipe[i].pc # "off"}

FmTypeOK ==
    /\ \A p \in FmPlaces : fmRow[p] # None =>
         /\ fmRow[p].owner \in FmUsers
         /\ fmRow[p].status \in {"provisioning", "active", "deleting", "error"}
    /\ \A u \in FmUsers : fmUser[u].version \in 0 .. FmMaxEdits /\ fmUser[u].suspended \in BOOLEAN
    /\ fmTickets \subseteq FmTicket
    /\ \A p \in FmSites : fmBrowser[p] # None =>
         fmBrowser[p].id \in 1 .. fmNextId - 1 /\ fmBrowser[p].scope \in {"own", "quarantine", "all"}
    /\ fmMoved \subseteq FmProxied /\ fmLeft \subseteq FmSites /\ fmStray \subseteq FmProxied

-----------------------------------------------------------------------------
FmFault == /\ fmUsed.faults < FmMaxFaults
           /\ fmUsed' = [fmUsed EXCEPT !.faults = @ + 1]
FmStart(i, kind, pc, p) ==
    /\ fmPipe[i].kind = None /\ \A h \in 1 .. i - 1 : fmPipe[h].kind # None
    /\ fmPipe' = [fmPipe EXCEPT ![i] = [kind |-> kind, pc |-> pc, place |-> p, seen |-> 0]]
\* Two pipelines of one site do not know of each other.
FmOverlap(p) == fmLeft' = IF FmWorking(p) # {} THEN fmLeft \cup {p} ELSE fmLeft
FmStep(i, pc) == fmPipe' = [fmPipe EXCEPT ![i].pc = pc]
FmEnd(i) == FmStep(i, "off")

\* Requests in progress for these places, or of these accounts.
Under(places, users) ==
    {j \in FmProxied : fmProxy[j].ticket # None /\
        (fmProxy[j].ticket.place \in places \/ fmProxy[j].ticket.user \in users)}

-----------------------------------------------------------------------------
(* Pipelines.                                                              *)

FmCreate(i, p, u) ==
    /\ fmRow[p] = None
    /\ FmStart(i, "create", IF p \in FmSites THEN "list" ELSE "finalize", p)
    /\ fmRow' = [fmRow EXCEPT ![p] = [owner |-> u, status |-> "provisioning"]]
    /\ IF p \in FmSites THEN FmOverlap(p) ELSE UNCHANGED fmLeft
    /\ UNCHANGED <<fmUser, fmTickets, fmBrowser, fmNextId, fmProxy, fmUsed, fmMoved, fmStray>>

FmDelete(i, p) ==
    /\ fmRow[p] # None /\ fmRow[p].status # "deleting"
    /\ FmStart(i, "delete", IF p \in FmSites THEN "list" ELSE "finalize", p)
    /\ fmRow' = [fmRow EXCEPT ![p].status = "deleting"]
    /\ IF p \in FmSites THEN FmOverlap(p) ELSE UNCHANGED fmLeft
    /\ UNCHANGED <<fmUser, fmTickets, fmBrowser, fmNextId, fmProxy, fmUsed, fmMoved, fmStray>>

Ensuring(i) == fmPipe[i].kind = "create"
Account(p) == IF fmBrowser[p] = None THEN 0 ELSE fmBrowser[p].id

\* Mutation: an account that is there is left alone.
AfterListTrusting(i) ==
    LET account == fmBrowser[fmPipe[i].place] IN
    IF Ensuring(i) THEN IF account = None THEN "post" ELSE "finalize"
    ELSE IF account = None THEN "finalize" ELSE "delete"

\* ensure_site_user() makes the account or gives it its directory back,
\* remove_site_user() deletes it, if it is there.
AfterList(i) ==
    LET account == fmBrowser[fmPipe[i].place] IN
    IF Ensuring(i)
    THEN IF account = None THEN "post" ELSE IF account.scope = "own" THEN "finalize" ELSE "put"
    ELSE IF account = None THEN "finalize" ELSE "delete"

ListUsers(i) ==
    LET p == fmPipe[i].place IN
    /\ fmPipe[i].pc = "list"
    /\ fmPipe' = [fmPipe EXCEPT ![i].pc = AfterList(i), ![i].seen = Account(p)]
    /\ UNCHANGED <<fmRow, fmUser, fmTickets, fmBrowser, fmNextId, fmProxy, fmUsed, fmHistory>>

\* Filebrowser is not there: the pipeline does without.
Unreachable(i) ==
    /\ fmPipe[i].pc \in {"list", "post", "put", "delete"} /\ FmFault
    /\ FmStep(i, "finalize")
    /\ fmLeft' = fmLeft \cup {fmPipe[i].place}
    /\ UNCHANGED <<fmRow, fmUser, fmTickets, fmBrowser, fmNextId, fmProxy, fmMoved, fmStray>>

\* A conflict is as good as success, whatever the account that is there sees.
PostUser(i) ==
    LET p == fmPipe[i].place IN
    /\ fmPipe[i].pc = "post"
    /\ \/ /\ fmBrowser[p] = None
          /\ fmBrowser' = [fmBrowser EXCEPT ![p] = [id |-> fmNextId, scope |-> "own"]]
          /\ fmNextId' = fmNextId + 1
          /\ UNCHANGED fmLeft
       \/ /\ fmBrowser[p] # None
          /\ fmLeft' = fmLeft \cup {p}
          /\ UNCHANGED <<fmBrowser, fmNextId>>
    /\ FmStep(i, "finalize")
    /\ UNCHANGED <<fmRow, fmUser, fmTickets, fmProxy, fmUsed, fmMoved, fmStray>>

\* PUT and DELETE name the account that was listed; when that has gone, the
\* answer is an error, and the site ends in error.
ChangeUser(i) ==
    LET p == fmPipe[i].place IN
    /\ fmPipe[i].pc \in {"put", "delete"}
    /\ IF Account(p) = fmPipe[i].seen
       THEN /\ fmBrowser' = [fmBrowser EXCEPT ![p] =
                   IF fmPipe[i].pc = "put" THEN [@ EXCEPT !.scope = "own"] ELSE None]
            /\ FmStep(i, "finalize")
            /\ UNCHANGED fmRow
       ELSE /\ FmEnd(i)
            /\ fmRow' = [fmRow EXCEPT ![p] = IF @ = None THEN None ELSE [@ EXCEPT !.status = "error"]]
            /\ UNCHANGED fmBrowser
    /\ UNCHANGED <<fmUser, fmTickets, fmNextId, fmProxy, fmUsed, fmHistory>>

\* A step after that of Filebrowser fails: creation removes the account again,
\* deletion leaves the row for another try.
LaterStepFails(i) ==
    LET p == fmPipe[i].place IN
    /\ fmPipe[i].pc = "finalize" /\ p \in FmSites /\ FmFault
    /\ IF Ensuring(i)
       THEN /\ fmPipe' = [fmPipe EXCEPT ![i].kind = "undo", ![i].pc = "list"]
            /\ UNCHANGED fmRow
       ELSE /\ FmEnd(i)
            /\ fmRow' = [fmRow EXCEPT ![p] = IF @ = None THEN None ELSE [@ EXCEPT !.status = "error"]]
    /\ UNCHANGED <<fmUser, fmTickets, fmBrowser, fmNextId, fmProxy, fmHistory>>

FmFinalize(i) ==
    LET p == fmPipe[i].place IN
    /\ fmPipe[i].pc = "finalize"
    /\ FmEnd(i)
    /\ fmRow' = [fmRow EXCEPT ![p] =
           IF @ = None \/ fmPipe[i].kind = "delete" THEN None
           ELSE [@ EXCEPT !.status = IF Ensuring(i) THEN "active" ELSE "error"]]
    /\ fmMoved' = IF fmPipe[i].kind = "delete" THEN fmMoved \cup Under({p}, {}) ELSE fmMoved
    /\ UNCHANGED <<fmUser, fmTickets, fmBrowser, fmNextId, fmProxy, fmUsed, fmLeft, fmStray>>

-----------------------------------------------------------------------------
(* Sessions.                                                               *)

Manages(u, p) == fmRow[p] # None /\ fmRow[p].owner = u

\* A ticket is given to whoever has the site or the stack; the cookie that the
\* proxy sets says the same.
OpenFiles(u, p) ==
    /\ Manages(u, p) /\ fmRow[p].status = "active" /\ ~fmUser[u].suspended
    /\ fmTickets' = fmTickets \cup {[place |-> p, user |-> u, version |-> fmUser[u].version]}
    /\ UNCHANGED <<fmRow, fmUser, fmBrowser, fmNextId, fmPipe, fmProxy, fmUsed, fmHistory>>

\* _session_target(): the account is read, and then the site.
ReadActor(j, t) ==
    /\ fmProxy[j].pc = "new" /\ \A h \in 1 .. j - 1 : fmProxy[h].pc # "new"
    /\ t \in fmTickets
    /\ fmProxy' = [fmProxy EXCEPT ![j] = [pc |-> "place", ticket |-> t, user |-> fmUser[t.user]]]
    /\ UNCHANGED <<fmRow, fmUser, fmTickets, fmBrowser, fmNextId, fmPipe, fmUsed, fmHistory>>

FmDone(j) == fmProxy' = [fmProxy EXCEPT ![j] = [FmNoRequest EXCEPT !.pc = "done"]]

Authorized(t, user) ==
    /\ ~user.suspended /\ user.version = t.version
    /\ Manages(t.user, t.place) /\ fmRow[t.place].status = "active"
ReadPlace(j) ==
    /\ fmProxy[j].pc = "place"
    /\ IF Authorized(fmProxy[j].ticket, fmProxy[j].user)
       THEN fmProxy' = [fmProxy EXCEPT ![j].pc = "send"] ELSE FmDone(j)
    /\ UNCHANGED <<fmRow, fmUser, fmTickets, fmBrowser, fmNextId, fmPipe, fmUsed, fmHistory>>

\* What Filebrowser makes of a name it does not know: the default that the
\* installer has pinned.
MadeUp == "quarantine"

\* The request is forwarded; Filebrowser serves the directory of the account,
\* which is that of the domain, whoever has it by then.
Forward(j) ==
    LET t == fmProxy[j].ticket
        Reached == IF t.place \in FmStacks THEN "own"
                   ELSE IF fmBrowser[t.place] = None THEN MadeUp ELSE fmBrowser[t.place].scope IN
    /\ fmProxy[j].pc = "send"
    /\ FmDone(j)
    /\ IF t.place \in FmSites /\ fmBrowser[t.place] = None
       THEN /\ fmBrowser' = [fmBrowser EXCEPT ![t.place] = [id |-> fmNextId, scope |-> MadeUp]]
            /\ fmNextId' = fmNextId + 1
       ELSE UNCHANGED <<fmBrowser, fmNextId>>
    /\ fmStray' = IF \/ Reached = "all"
                     \/ /\ Reached = "own" /\ j \notin fmMoved
                        /\ (~Manages(t.user, t.place) \/ fmUser[t.user].version # t.version)
                  THEN fmStray \cup {j} ELSE fmStray
    /\ UNCHANGED <<fmRow, fmUser, fmTickets, fmPipe, fmUsed, fmMoved, fmLeft>>

-----------------------------------------------------------------------------
\* A new password, or a suspension and its end.
EditAccount(u) ==
    /\ fmUsed.edits < FmMaxEdits
    /\ fmUsed' = [fmUsed EXCEPT !.edits = @ + 1]
    /\ \/ fmUser' = [fmUser EXCEPT ![u].version = @ + 1]
       \/ fmUser' = [fmUser EXCEPT ![u].suspended = ~@,
                                   ![u].version = IF fmUser[u].suspended THEN @ ELSE @ + 1]
    /\ fmMoved' = fmMoved \cup Under({}, {u})
    /\ UNCHANGED <<fmRow, fmTickets, fmBrowser, fmNextId, fmPipe, fmProxy, fmLeft, fmStray>>

\* A restart of the panel: rows stay as they are.
FmCrash ==
    /\ FmFault
    /\ fmPipe' = [i \in FmPipes |-> [fmPipe[i] EXCEPT !.pc = "off"]]
    /\ fmProxy' = [j \in FmProxied |-> IF fmProxy[j].pc = "new" THEN fmProxy[j]
                                       ELSE [FmNoRequest EXCEPT !.pc = "done"]]
    /\ UNCHANGED <<fmRow, fmUser, fmTickets, fmBrowser, fmNextId, fmHistory>>

\* There is nothing yet; or one account has all the sites and stacks.  Which
\* one it is makes no difference.
FmInit ==
    /\ \E there \in BOOLEAN :
         /\ fmRow = [p \in FmPlaces |-> IF there
                THEN [owner |-> CHOOSE u \in FmUsers : TRUE, status |-> "active"] ELSE None]
         /\ fmBrowser = [p \in FmSites |-> IF there THEN [id |-> 1, scope |-> "own"] ELSE None]
    /\ fmUser = [u \in FmUsers |-> [version |-> 0, suspended |-> FALSE]]
    /\ fmTickets = {}
    /\ fmNextId = 2
    /\ fmPipe = [i \in FmPipes |-> FmOff]
    /\ fmProxy = [j \in FmProxied |-> FmNoRequest]
    /\ fmUsed = [edits |-> 0, faults |-> 0]
    /\ fmMoved = {} /\ fmLeft = {} /\ fmStray = {}

FmNext ==
    \/ \E i \in FmPipes :
         \/ \E p \in FmPlaces : FmDelete(i, p) \/ \E u \in FmUsers : FmCreate(i, p, u)
         \/ ListUsers(i) \/ Unreachable(i) \/ PostUser(i) \/ ChangeUser(i)
         \/ LaterStepFails(i) \/ FmFinalize(i)
    \/ \E j \in FmProxied : (\E t \in fmTickets : ReadActor(j, t)) \/ ReadPlace(j) \/ Forward(j)
    \/ \E u \in FmUsers : EditAccount(u) \/ \E p \in FmPlaces : OpenFiles(u, p)
    \/ FmCrash

FmSpec == FmInit /\ [][FmNext]_fmVars

-----------------------------------------------------------------------------
(* Properties.                                                             *)

\* Whoever had a site or stack, and lost it or the session, before a request
\* began gets no file of whoever has it now, and nobody gets more than a site.
SessionsConfined == fmStray = {}

\* A site whose pipeline has ended can be reached through its own account, also
\* when a request made one up in the meantime.
FilesReachable ==
    \A p \in FmSites \ fmLeft :
        fmRow[p] # None /\ fmRow[p].status = "active" /\ FmWorking(p) = {} =>
            fmBrowser[p] # None /\ fmBrowser[p].scope = "own"

\* No account that sees a directory outlives the site.
NoAccountLeft ==
    \A p \in FmSites \ fmLeft :
        fmRow[p] = None => fmBrowser[p] = None \/ fmBrowser[p].scope = "quarantine"

FilesSound == SessionsConfined /\ FilesReachable /\ NoAccountLeft
=============================================================================
