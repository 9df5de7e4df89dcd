------------------------------- MODULE DnsZones -------------------------------
(***************************************************************************)
(* One DNS zone of the panel, its owner, and its twin at Cloudflare.  The  *)
(* records live in PowerDNS and in Cloudflare, the owner in the database:  *)
(* every handler makes its requests one after the other, and nothing holds *)
(* the three together.  A push creates and updates records at Cloudflare,  *)
(* a pull replaces record sets of the panel; both decide from what they    *)
(* read first.                                                             *)
(***************************************************************************)
EXTENDS PanelBase

CONSTANTS
    DnsUsers,       \* accounts
    DnsSlots,       \* names and types of record sets
    DnsContents,    \* values of a record
    DnsMaxRecords,  \* bound: records Cloudflare ever gave an identity
    DnsMaxOps,      \* bound: requests of more than one step
    DnsMaxEdits,    \* bound: changes of single records and sets
    DnsMaxFaults    \* bound: requests that fail, restarts

ASSUME DnsAssumption ==
    /\ None \notin DnsUsers
    /\ DnsContents # {}
    /\ DnsMaxRecords \in Nat /\ DnsMaxOps \in Nat /\ DnsMaxEdits \in Nat /\ DnsMaxFaults \in Nat

ASSUME DnsNoneAssumption ==
    /\ None \notin [DnsSlots -> SUBSET DnsContents] /\ None \notin DnsSlots \X DnsContents
    /\ None \notin {"create", "auto", "delete", "push", "pull", "pushed", "pulled"}

VARIABLES
    dnsZone,      \* record sets of the zone in PowerDNS, or None
    dnsOwner,     \* dns_zone_owners: owner of the zone, or None
    dnsCloud,     \* dnsCloud[r]: record r of Cloudflare, or None
    dnsMade,      \* records that Cloudflare has ever given an identity
    dnsTask,      \* dnsTask[i]: the handler of request i
    dnsAgreed,    \* "pushed" or "pulled" since the last change of a record, or None
    dnsEdits, dnsFaults,
    dnsCut        \* history: a handler was cut off, met the row of an old owner, or
                  \* deleted a zone whose owner was not recorded yet

dnsVars == <<dnsZone, dnsOwner, dnsCloud, dnsMade, dnsTask, dnsAgreed, dnsEdits, dnsFaults, dnsCut>>
dnsBounds == <<dnsEdits, dnsFaults>>

DnsRequests == 1 .. DnsMaxOps
DnsRecords == 1 .. DnsMaxRecords
DnsRecord == DnsSlots \X DnsContents
Empty == [s \in DnsSlots |-> {}]
Defaults == [Empty EXCEPT ![CHOOSE s \in DnsSlots : TRUE] = {CHOOSE c \in DnsContents : TRUE}]
DnsIdle == [kind |-> None, pc |-> "off", user |-> None, want |-> {}, seen |-> {}, left |-> {},
            clean |-> FALSE]

\* Record sets as the set of their records, and back.
Records(sets) == {rec \in DnsRecord : rec[2] \in sets[rec[1]]}
Sets(records) == [s \in DnsSlots |-> {c \in DnsContents : <<s, c>> \in records}]
CloudValues == {dnsCloud[r] : r \in DnsRecords} \ {None}

DnsTypeOK ==
    /\ dnsZone # None => dnsZone \in [DnsSlots -> SUBSET DnsContents]
    /\ dnsOwner \in DnsUsers \cup {None}
    /\ dnsCloud \in [DnsRecords -> DnsRecord \cup {None}]
    /\ dnsAgreed \in {None, "pushed", "pulled"}
    /\ \A i \in DnsRequests :
         dnsTask[i].pc \in {"off", "server", "owner", "point", "delete", "row", "undo", "list",
                            "push", "patch"}

DnsAccept(i, kind, u, pc, want) ==
    /\ dnsTask[i].kind = None /\ \A j \in 1 .. i - 1 : dnsTask[j].kind # None
    /\ dnsTask' = [dnsTask EXCEPT ![i] = [DnsIdle EXCEPT !.kind = kind, !.pc = pc, !.user = u,
                                                         !.want = want, !.clean = TRUE]]
    /\ UNCHANGED <<dnsZone, dnsOwner, dnsCloud, dnsMade, dnsAgreed, dnsBounds, dnsCut>>
DnsTo(i, pc) == dnsTask' = [dnsTask EXCEPT ![i].pc = pc]
DnsEnd(i) == DnsTo(i, "off")

\* Records change under the feet of the others, i is the task that does it.
Disturb(i) == [j \in DnsRequests |-> IF j = i THEN dnsTask[j] ELSE [dnsTask[j] EXCEPT !.clean = FALSE]]

-----------------------------------------------------------------------------
(* Zones.                                                                  *)

CreateZone(i, u) == DnsAccept(i, "create", u, "server", {})
AutoCreate(i, u) == DnsAccept(i, "auto", u, "server", {})

\* PowerDNS refuses a zone it has; the pipeline of a site then leaves it alone.
ServerCreates(i) ==
    /\ dnsTask[i].pc = "server"
    /\ IF dnsZone # None THEN DnsEnd(i) /\ UNCHANGED <<dnsZone, dnsAgreed>>
       ELSE /\ dnsZone' = Empty /\ dnsAgreed' = None
            /\ dnsTask' = [Disturb(i) EXCEPT ![i].pc =
                             IF dnsTask[i].kind = "auto" THEN "point" ELSE "owner"]
    /\ UNCHANGED <<dnsOwner, dnsCloud, dnsMade, dnsBounds, dnsCut>>

\* A zone has one row; that of an owner whose zone has gone still counts.  A
\* created zone need not be pointed here, one of a site's pipeline is already.
RecordOwner(i) ==
    /\ dnsTask[i].pc = "owner"
    /\ dnsOwner' = IF dnsOwner = None THEN dnsTask[i].user ELSE dnsOwner
    /\ dnsCut' = (dnsCut \/ dnsOwner # None)
    /\ \E pc \in {"point", "off"} :
         /\ pc = "point" => dnsOwner = None /\ dnsTask[i].kind = "create"
         /\ DnsTo(i, pc)
    /\ UNCHANGED <<dnsZone, dnsCloud, dnsMade, dnsAgreed, dnsBounds>>

\* The records that point here, on a server that knows its address; a zone that
\* has been deleted is not found.
PointToServer(i) ==
    /\ dnsTask[i].pc = "point"
    /\ dnsZone' = IF dnsZone = None THEN None ELSE Defaults
    /\ dnsAgreed' = None
    /\ dnsTask' = [Disturb(i) EXCEPT ![i].pc =
                     IF dnsTask[i].kind = "create" THEN "off"
                     ELSE IF dnsZone = None THEN "undo" ELSE "owner"]
    /\ UNCHANGED <<dnsOwner, dnsCloud, dnsMade, dnsBounds, dnsCut>>

\* create_zone_with_defaults() leaves no half of a zone behind.
UndoZone(i) ==
    /\ dnsTask[i].pc = "undo"
    /\ dnsZone' = None /\ dnsAgreed' = None
    /\ dnsTask' = [Disturb(i) EXCEPT ![i].pc = "off"]
    /\ UNCHANGED <<dnsOwner, dnsCloud, dnsMade, dnsBounds, dnsCut>>

DeleteZone(i, u) == dnsOwner = u /\ DnsAccept(i, "delete", u, "delete", {})

\* Handlers that have made the zone, and will record its owner or undo it.
ZoneMakers == {i \in DnsRequests : \/ dnsTask[i].pc \in {"owner", "undo"}
                                   \/ dnsTask[i].pc = "point" /\ dnsTask[i].kind = "auto"}

\* The server first: when the zone is not there, its row is not looked for.  It
\* may be a later zone than the one whose owner was checked.
ServerDeletes(i) ==
    /\ dnsTask[i].pc = "delete"
    /\ dnsZone' = None /\ dnsAgreed' = None
    /\ dnsTask' = [Disturb(i) EXCEPT ![i].pc = IF dnsZone = None THEN "off" ELSE "row"]
    /\ dnsCut' = (dnsCut \/ (dnsZone # None /\ ZoneMakers # {}))
    /\ UNCHANGED <<dnsOwner, dnsCloud, dnsMade, dnsBounds>>
DeleteOwner(i) ==
    /\ dnsTask[i].pc = "row"
    /\ dnsOwner' = None
    /\ DnsEnd(i)
    /\ UNCHANGED <<dnsZone, dnsCloud, dnsMade, dnsAgreed, dnsBounds, dnsCut>>

\* upsert_record(), delete_record(), apply_template(): one set is replaced.
EditSet(s, values) ==
    /\ dnsEdits < DnsMaxEdits /\ dnsEdits' = dnsEdits + 1
    /\ dnsZone # None /\ dnsOwner # None /\ dnsZone[s] # values
    /\ dnsZone' = [dnsZone EXCEPT ![s] = values]
    /\ dnsTask' = Disturb(0) /\ dnsAgreed' = None
    /\ UNCHANGED <<dnsOwner, dnsCloud, dnsMade, dnsFaults, dnsCut>>

\* A record at Cloudflare, by its owner through the panel or elsewhere.
CreateRecord(rec) ==
    /\ dnsMade + 1 \in DnsRecords /\ rec \notin CloudValues
    /\ dnsMade' = dnsMade + 1 /\ dnsCloud' = [dnsCloud EXCEPT ![dnsMade + 1] = rec]
PutRecord(r, rec) == dnsCloud' = [dnsCloud EXCEPT ![r] = rec] /\ UNCHANGED dnsMade

EditCloud ==
    /\ dnsEdits < DnsMaxEdits /\ dnsEdits' = dnsEdits + 1
    /\ \/ \E rec \in DnsRecord : CreateRecord(rec)
       \/ \E r \in DnsRecords : dnsCloud[r] # None /\ \E rec \in DnsRecord \cup {None} : PutRecord(r, rec)
    /\ dnsTask' = Disturb(0) /\ dnsAgreed' = None
    /\ UNCHANGED <<dnsZone, dnsOwner, dnsFaults, dnsCut>>

-----------------------------------------------------------------------------
(* Push and pull.                                                          *)

\* The records of the zone are read, then those of Cloudflare.
ReadZone(i, kind) ==
    /\ dnsZone # None
    /\ DnsAccept(i, kind, None, "list", Records(dnsZone))
ListRecords(i) ==
    /\ dnsTask[i].pc = "list"
    /\ dnsTask' = [dnsTask EXCEPT
         ![i].pc = IF dnsTask[i].kind = "pull" THEN "patch"
                   ELSE IF dnsTask[i].want = {} THEN "off" ELSE "push",
         ![i].seen = {<<r, dnsCloud[r]>> : r \in {q \in DnsRecords : dnsCloud[q] # None}},
         ![i].left = dnsTask[i].want]
    /\ UNCHANGED <<dnsZone, dnsOwner, dnsCloud, dnsMade, dnsAgreed, dnsBounds, dnsCut>>

\* The records listed under the name and type of a wanted one.
Matches(task, rec) == {x \in task.seen : x[2][1] = rec[1]}
SingleValued(task, rec) == {w \in task.want : w[1] = rec[1]} = {rec}

\* Mutation: the only record listed is written over, wanted or not.
OverwriteIfOne(task, rec) == Cardinality(Matches(task, rec)) = 1

UpdateInPlace(task, rec) == Cardinality(Matches(task, rec)) = 1 /\ SingleValued(task, rec)

\* push_zone(): a wanted record is skipped, written over the only one, or new.
PushRecord(i, rec) ==
    /\ dnsTask[i].pc = "push" /\ rec \in dnsTask[i].left
    /\ LET task == dnsTask[i]
           left == task.left \ {rec}
           write == rec \notin {x[2] : x \in Matches(task, rec)}
           refused == write /\ (rec \in CloudValues \/ \E x \in Matches(task, rec) :
                                  UpdateInPlace(task, rec) /\ dnsCloud[x[1]] = None)
       IN
       /\ IF ~write \/ refused THEN UNCHANGED <<dnsCloud, dnsMade>>
          ELSE IF UpdateInPlace(task, rec)
          THEN \E x \in Matches(task, rec) : PutRecord(x[1], rec)
          ELSE CreateRecord(rec)
       /\ dnsTask' = [(IF write THEN Disturb(i) ELSE dnsTask) EXCEPT
                        ![i].left = left, ![i].clean = @ /\ ~refused,
                        ![i].pc = IF left = {} THEN "off" ELSE "push"]
       /\ dnsAgreed' = IF left = {} /\ task.clean /\ ~refused THEN "pushed"
                       ELSE IF write THEN None ELSE dnsAgreed
    /\ UNCHANGED <<dnsZone, dnsOwner, dnsBounds, dnsCut>>

\* A record that fails is noted as an error and the push goes on.
PushRecordFails(i, rec) ==
    /\ dnsTask[i].pc = "push" /\ rec \in dnsTask[i].left
    /\ dnsFaults < DnsMaxFaults /\ dnsFaults' = dnsFaults + 1
    /\ dnsTask' = [dnsTask EXCEPT ![i].left = @ \ {rec}, ![i].clean = FALSE,
                     ![i].pc = IF dnsTask[i].left = {rec} THEN "off" ELSE "push"]
    /\ UNCHANGED <<dnsZone, dnsOwner, dnsCloud, dnsMade, dnsAgreed, dnsEdits, dnsCut>>

\* pulled_rrsets(): the sets of Cloudflare that differ replace those of the panel.
PullPatches(task) ==
    LET cloud == Sets({x[2] : x \in task.seen}) IN
    {s \in DnsSlots : cloud[s] # {} /\ cloud[s] # Sets(task.want)[s]}

PatchZone(i) ==
    /\ dnsTask[i].pc = "patch"
    /\ LET task == dnsTask[i]  patches == PullPatches(task) IN
       IF dnsZone = None \/ patches = {}
       THEN /\ DnsEnd(i) /\ UNCHANGED dnsZone
            /\ dnsAgreed' = IF dnsZone # None /\ task.clean THEN "pulled" ELSE dnsAgreed
       ELSE /\ dnsZone' = [s \in DnsSlots |-> IF s \in patches
                             THEN Sets({x[2] : x \in task.seen})[s] ELSE dnsZone[s]]
            /\ dnsTask' = [Disturb(i) EXCEPT ![i].pc = "off"]
            /\ dnsAgreed' = IF task.clean THEN "pulled" ELSE None
    /\ UNCHANGED <<dnsOwner, dnsCloud, dnsMade, dnsBounds, dnsCut>>

\* Any other request of a handler fails: it ends, but for the one that undoes.
RequestFails(i) ==
    /\ dnsTask[i].pc \in {"server", "owner", "point", "delete", "row", "undo", "list", "patch"}
    /\ dnsFaults < DnsMaxFaults /\ dnsFaults' = dnsFaults + 1
    /\ DnsTo(i, IF dnsTask[i].kind = "auto" /\ dnsTask[i].pc = "point" THEN "undo" ELSE "off")
    /\ dnsCut' = (dnsCut \/ dnsTask[i].pc \in {"owner", "row", "undo"})
    /\ UNCHANGED <<dnsZone, dnsOwner, dnsCloud, dnsMade, dnsAgreed, dnsEdits>>

DnsRestart ==
    /\ dnsFaults < DnsMaxFaults /\ dnsFaults' = dnsFaults + 1
    /\ dnsTask' = [i \in DnsRequests |-> [dnsTask[i] EXCEPT !.pc = "off"]]
    /\ dnsCut' = TRUE
    /\ UNCHANGED <<dnsZone, dnsOwner, dnsCloud, dnsMade, dnsAgreed, dnsEdits>>

-----------------------------------------------------------------------------
\* No zone, or one of some account that points here.
DnsInit ==
    /\ \/ dnsZone = None /\ dnsOwner = None
       \/ dnsZone = Defaults /\ dnsOwner \in DnsUsers
    /\ dnsMade = 0 /\ dnsAgreed = None
    /\ dnsCloud = [r \in DnsRecords |-> None]
    /\ dnsTask = [i \in DnsRequests |-> DnsIdle]
    /\ dnsEdits = 0 /\ dnsFaults = 0 /\ dnsCut = FALSE

DnsNext ==
    \/ EditCloud \/ DnsRestart
    \/ \E s \in DnsSlots, values \in SUBSET DnsContents : EditSet(s, values)
    \/ \E i \in DnsRequests :
         \/ \E u \in DnsUsers : CreateZone(i, u) \/ AutoCreate(i, u) \/ DeleteZone(i, u)
         \/ ServerCreates(i) \/ RecordOwner(i) \/ PointToServer(i) \/ UndoZone(i)
         \/ ServerDeletes(i) \/ DeleteOwner(i)
         \/ \E kind \in {"push", "pull"} : ReadZone(i, kind)
         \/ ListRecords(i) \/ PatchZone(i) \/ RequestFails(i)
         \/ \E rec \in DnsRecord : PushRecord(i, rec) \/ PushRecordFails(i, rec)

DnsSpec == DnsInit /\ [][DnsNext]_dnsVars

-----------------------------------------------------------------------------
(* Properties.                                                             *)

\* A zone has an owner, and an owner a zone, once no handler that will settle
\* it is left: unless one was cut off or came between a deletion and its row,
\* or a deletion came between a creation and its row.
OwnersAgree ==
    \/ dnsCut
    \/ \E i \in DnsRequests : dnsTask[i].pc \in {"owner", "point", "row", "undo"}
    \/ (dnsZone = None) = (dnsOwner = None)

\* After a push that met no error and no other change, Cloudflare has every
\* record of the zone, so that another push would skip them all; after such a
\* pull every record set of Cloudflare is that of the panel.
TwinsAgree ==
    /\ dnsAgreed = "pushed" => Records(dnsZone) \subseteq CloudValues
    /\ dnsAgreed = "pulled" =>
         \A s \in DnsSlots : Sets(CloudValues)[s] \in {{}, dnsZone[s]}

ZonesAgree == OwnersAgree /\ TwinsAgree
=============================================================================
