---------------------------- MODULE AccountTenants ----------------------------
(***************************************************************************)
(* Accounts, their sites, and their tenants: a row that reserves a range of*)
(* subordinate ids and a Linux user of the host that is given it.  The row *)
(* is committed before the host is touched, and released after the Linux   *)
(* user has gone; either may be cut off in between, and runs again.  The   *)
(* deletion of an account reads first, what it hands over and whether it   *)
(* may go, and commits everything at once.                                 *)
(***************************************************************************)
EXTENDS PanelBase

CONSTANTS
    AccMaxUsers,   \* bound: identities of accounts, the administrator is 0
    AccMaxSites,   \* bound: sites
    AccMaxOps,     \* bound: requests and actions of the reconciler
    AccMaxFaults   \* bound: host commands that fail, restarts

ASSUME AccAssumption ==
    AccMaxUsers \in Nat /\ AccMaxSites \in Nat /\ AccMaxOps \in Nat /\ AccMaxFaults \in Nat

VARIABLES
    accUser,     \* identities of the accounts there are
    accTenant,   \* accTenant[u]: index of the range the row of u reserves, or None
    accHost,     \* accHost[u]: ranges of the Linux user of u, or None
    accMade,     \* sites that have been created
    accOwner,    \* accOwner[s]: owner of site s, or None
    accTask,     \* accTask[i]: the handler or action of request i
    accFaults,
    accRaced,    \* history: tenants that two actions worked on at once
    accStranded, \* history: accounts deleted while their Linux user was there
    accMissed    \* history: sites created while their account was deleted

accVars == <<accUser, accTenant, accHost, accMade, accOwner, accTask, accFaults, accRaced,
             accStranded, accMissed>>
accHistory == <<accRaced, accStranded, accMissed>>

Admin == 0
AccIds == 1 .. AccMaxUsers
AccSites == 1 .. AccMaxSites
AccRequests == 1 .. AccMaxOps
AccRanges == 0 .. AccMaxOps
AccNoTask == [kind |-> None, user |-> 0, pc |-> "off", range |-> None, sites |-> {}]
AccAtWork(u) == {i \in AccRequests : accTask[i].pc # "off" /\ accTask[i].user = u}

AccTypeOK ==
    /\ accUser \subseteq AccIds
    /\ accTenant \in [AccIds -> AccRanges \cup {None}]
    /\ \A u \in AccIds : accHost[u] # None => accHost[u] \subseteq AccRanges
    /\ accOwner \in [AccSites -> AccIds \cup {Admin, None}]
    /\ \A i \in AccRequests : accTask[i].pc \in {"off", "reserve", "provision", "userdel",
                                                 "release", "commit"}

AccAccept(i, kind, u, pc, range, sites) ==
    /\ accTask[i].kind = None /\ \A j \in 1 .. i - 1 : accTask[j].kind # None
    /\ accTask' = [accTask EXCEPT ![i] =
                     [kind |-> kind, user |-> u, pc |-> pc, range |-> range, sites |-> sites]]
    /\ accRaced' = accRaced \cup
         IF kind # "delete" /\ \E j \in AccAtWork(u) : accTask[j].kind # "delete" THEN {u} ELSE {}
    /\ UNCHANGED <<accUser, accTenant, accHost, accMade, accOwner, accFaults, accStranded, accMissed>>
AccEnd(i) == accTask' = [accTask EXCEPT ![i].pc = "off"]
AccTo(i, pc, range) == accTask' = [accTask EXCEPT ![i].pc = pc, ![i].range = range]

-----------------------------------------------------------------------------
(* Accounts and sites.                                                     *)

\* SQLite gives an account the greatest identity in use plus one.
Register ==
    /\ 1 + Greatest(accUser) \in AccIds
    /\ accUser' = accUser \cup {1 + Greatest(accUser)}
    /\ UNCHANGED <<accTenant, accHost, accMade, accOwner, accTask, accFaults, accHistory>>

CreateSite(s, u) ==
    /\ s \notin accMade /\ u \in accUser
    /\ accMade' = accMade \cup {s}
    /\ accOwner' = [accOwner EXCEPT ![s] = u]
    /\ accMissed' = IF \E i \in AccAtWork(u) : accTask[i].kind = "delete"
                    THEN accMissed \cup {s} ELSE accMissed
    /\ UNCHANGED <<accUser, accTenant, accHost, accTask, accFaults, accRaced, accStranded>>

SitesOf(u) == {s \in AccSites : accOwner[s] = u}

\* delete_user(): sites are read to be handed over; stacks must be gone or on
\* their way, which does not say that their tenant has gone.
ReadForDeletion(i, u) ==
    u \in accUser /\ AccAccept(i, "delete", u, "commit", None, SitesOf(u))

\* The row of the tenant goes with the account, the owner of other sites too.
CommitDeletion(i) ==
    /\ accTask[i].pc = "commit"
    /\ LET u == accTask[i].user IN
       IF u \in accUser
       THEN /\ accUser' = accUser \ {u}
            /\ accTenant' = [accTenant EXCEPT ![u] = None]
            /\ accOwner' = [s \in AccSites |->
                 IF s \in accTask[i].sites THEN Admin ELSE IF s \in SitesOf(u) THEN None
                 ELSE accOwner[s]]
            /\ accStranded' = IF accHost[u] = None /\ accTenant[u] = None THEN accStranded
                              ELSE accStranded \cup {u}
       ELSE UNCHANGED <<accUser, accTenant, accOwner, accStranded>>
    /\ AccEnd(i)
    /\ UNCHANGED <<accMade, accHost, accFaults, accRaced, accMissed>>

-----------------------------------------------------------------------------
(* ensure_tenant().                                                        *)

\* _allocate_range(): the one above the greatest that is reserved.
NextRange ==
    LET reserved == {accTenant[u] : u \in {v \in AccIds : accTenant[v] # None}} IN
    IF reserved = {} THEN 0 ELSE 1 + Greatest(reserved)

EnsureTenant(i, u) ==
    /\ u \in accUser
    /\ IF accTenant[u] = None
       THEN NextRange \in AccRanges /\ AccAccept(i, "ensure", u, "reserve", NextRange, {})
       ELSE AccAccept(i, "ensure", u, "provision", accTenant[u], {})

\* Ledger first; the range and the account of a row are unique.
Reserve(i) ==
    /\ accTask[i].pc = "reserve"
    /\ LET u == accTask[i].user IN
       IF u \in accUser /\ accTenant[u] = None
            /\ \A v \in AccIds : accTenant[v] # accTask[i].range
       THEN accTenant' = [accTenant EXCEPT ![u] = accTask[i].range]
            /\ AccTo(i, "provision", accTask[i].range)
       ELSE AccEnd(i) /\ UNCHANGED accTenant
    /\ UNCHANGED <<accUser, accHost, accMade, accOwner, accFaults, accHistory>>

\* provision(): the user unless it exists; the range is added to those it has.
Provision(i) ==
    /\ accTask[i].pc = "provision"
    /\ accHost' = [accHost EXCEPT ![accTask[i].user] =
                     (IF @ = None THEN {} ELSE @) \cup {accTask[i].range}]
    /\ AccEnd(i)
    /\ UNCHANGED <<accUser, accTenant, accMade, accOwner, accFaults, accHistory>>

-----------------------------------------------------------------------------
(* remove_tenant(), when the host shows nothing of the tenant any more.    *)

RemoveTenant(i, u) ==
    /\ accTenant[u] # None
    /\ AccAccept(i, "remove", u, "userdel", None, {})

DeleteHostUser(i) ==
    /\ accTask[i].pc = "userdel"
    /\ accHost' = [accHost EXCEPT ![accTask[i].user] = None]
    /\ AccTo(i, "release", None)
    /\ UNCHANGED <<accUser, accTenant, accMade, accOwner, accFaults, accHistory>>

Release(i) ==
    /\ accTask[i].pc = "release"
    /\ accTenant' = [accTenant EXCEPT ![accTask[i].user] = None]
    /\ AccEnd(i)
    /\ UNCHANGED <<accUser, accHost, accMade, accOwner, accFaults, accHistory>>

\* Mutation: a user that cannot be deleted does not keep the row.
CommandTolerated(i) ==
    IF accTask[i].pc = "userdel" THEN AccTo(i, "release", None) ELSE AccEnd(i)

\* The exception of a command ends the action before it touches the ledger.
CommandRaises(i) == AccEnd(i)

\* useradd may be done and usermod not; a user that is not deleted stays.
HostCommandFails(i) ==
    /\ accTask[i].pc \in {"provision", "userdel"}
    /\ accFaults < AccMaxFaults /\ accFaults' = accFaults + 1
    /\ \/ UNCHANGED accHost
       \/ /\ accTask[i].pc = "provision" /\ accHost[accTask[i].user] = None
          /\ accHost' = [accHost EXCEPT ![accTask[i].user] = {}]
    /\ CommandRaises(i)
    /\ UNCHANGED <<accUser, accTenant, accMade, accOwner, accHistory>>

AccRestart ==
    /\ accFaults < AccMaxFaults /\ accFaults' = accFaults + 1
    /\ accTask' = [i \in AccRequests |-> [accTask[i] EXCEPT !.pc = "off"]]
    /\ UNCHANGED <<accUser, accTenant, accHost, accMade, accOwner, accHistory>>

-----------------------------------------------------------------------------
AccInit ==
    /\ accUser = {}
    /\ accTenant = [u \in AccIds |-> None] /\ accHost = accTenant
    /\ accOwner = [s \in AccSites |-> None] /\ accMade = {}
    /\ accTask = [i \in AccRequests |-> AccNoTask]
    /\ accFaults = 0 /\ accRaced = {} /\ accStranded = {} /\ accMissed = {}

AccNext ==
    \/ Register \/ AccRestart
    \/ \E s \in AccSites, u \in AccIds : CreateSite(s, u)
    \/ \E i \in AccRequests :
         \/ \E u \in AccIds : ReadForDeletion(i, u) \/ EnsureTenant(i, u) \/ RemoveTenant(i, u)
         \/ CommitDeletion(i) \/ Reserve(i) \/ Provision(i) \/ DeleteHostUser(i) \/ Release(i)
         \/ HostCommandFails(i)

AccSpec == AccInit /\ [][AccNext]_accVars

-----------------------------------------------------------------------------
(* Properties.                                                             *)

\* A range that a Linux user has is reserved by the row of its account, so no
\* two have one, whatever fails or is cut off: unless the account was deleted
\* first, which takes the row away, or two actions met in one tenant.
RangesReserved ==
    \A u \in AccIds \ (accStranded \cup accRaced) :
        accHost[u] # None =>
            /\ accTenant[u] # None /\ accHost[u] \subseteq {accTenant[u]}
            /\ \A v \in AccIds \ ({u} \cup accStranded \cup accRaced) :
                 accHost[v] # None => accHost[u] \cap accHost[v] = {}

\* Sites of a deleted account have gone over to the administrator, but for
\* those created while it was being deleted.
SitesOwned == \A s \in accMade \ accMissed : accOwner[s] # None

TenantsAccounted == RangesReserved /\ SitesOwned
=============================================================================
