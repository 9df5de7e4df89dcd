------------------------------ MODULE StackEdits ------------------------------
(***************************************************************************)
(* The handlers that edit the desired state of a stack, beside each other  *)
(* and beside the reconciler's status hook.  Each loads the row, awaits,   *)
(* and writes whole columns back: the generation it computed from the one  *)
(* it loaded, and all the inputs as one encrypted document.  The domain of *)
(* a stack and the variable of its environment that names it are kept in   *)
(* step by both handlers that change them.  A stack here has one service.  *)
(***************************************************************************)
EXTENDS PanelBase

CONSTANTS
    EditDomains,  \* domain names
    EditConfigs,  \* the rest of the inputs: repository, branch, ...
    EditStacks,   \* bound: identities of stacks
    EditMaxOps    \* bound: requests and outcomes of the reconciler

ASSUME EditAssumption ==
    /\ None \notin EditDomains /\ EditDomains # {} /\ EditConfigs # {}
    /\ EditStacks \in Nat \ {0} /\ EditMaxOps \in Nat

VARIABLES
    editRow,     \* editRow[s]: the row of stack s, or None
    editRoutes,  \* editRoutes[s]: domains of the endpoints of stack s
    editSites,   \* domains that have a site
    editTask,    \* editTask[i]: the handler of request i
    editClash,   \* history: stacks written from a row that had changed
    editMade,    \* history: edits of s that were accepted, the last inputs
    editShared   \* history: domains taken without asking for the other kind

editHistory == <<editClash, editMade, editShared>>
editVars == <<editRow, editRoutes, editSites, editTask, editClash, editMade, editShared>>

EditIds == 1 .. EditStacks
EditRequests == 1 .. EditMaxOps
EditKinds == {"domain", "env", "config", "expose", "rollback", "delete", "hook"}
\* Handlers that hand out a new generation: a rollback does nothing else.
Bumping == {"domain", "env", "expose", "rollback", "delete"}
\* Handlers that refuse a stack that is being deleted: "expose" stands for all
\* that change a column of a service (port, health check, zero downtime, ...).
Refusing == {"domain", "env", "expose"}

EditRow == [gen : Nat, observed : Nat, status : {"converging", "ready", "degraded", "deleting"},
            env : EditDomains \cup {None}, config : EditConfigs]

ASSUME EditNoneAssumption == None \notin EditRow \cup EditKinds

EditOff == [kind |-> None, s |-> 0, row |-> None, routes |-> {}, arg |-> None,
            pc |-> "off", stale |-> FALSE]
Routed == UNION {editRoutes[s] : s \in EditIds}
Existing == {s \in EditIds : editRow[s] # None}

EditTypeOK ==
    /\ \A s \in Existing :
         /\ editRow[s].gen \in 1 .. 1 + EditMaxOps /\ editRow[s].observed \in 0 .. 1 + EditMaxOps
         /\ editRow[s].status \in {"converging", "ready", "degraded", "deleting"}
         /\ editRow[s].env \in EditDomains \cup {None} /\ editRow[s].config \in EditConfigs
    /\ editRoutes \in [EditIds -> SUBSET EditDomains]
    /\ editSites \subseteq EditDomains /\ editShared \subseteq EditDomains
    /\ \A i \in EditRequests : editTask[i].pc \in {"off", "write"}
    /\ editClash \subseteq EditIds

-----------------------------------------------------------------------------
EditFree(i) == editTask[i].kind = None /\ \A j \in 1 .. i - 1 : editTask[j].kind # None
EditUsed(i, kind) == editTask' = [editTask EXCEPT ![i].kind = kind]

\* create_stack() has inserted the row, and so holds the database, when it
\* asks whether the domain is free.
EditCreate(i, s, d, env, c) ==
    /\ EditFree(i)
    /\ s = 1 + Greatest(Existing)
    /\ d \notin Routed \cup editSites
    /\ env \in {None, d}
    /\ editRow' = [editRow EXCEPT ![s] = [gen |-> 1, observed |-> 0, status |-> "converging",
                                          env |-> env, config |-> c]]
    /\ editRoutes' = [editRoutes EXCEPT ![s] = {d}]
    /\ editMade' = [editMade EXCEPT ![s] = [bumps |-> 0, config |-> c]]
    /\ editClash' = editClash \ {s}
    /\ EditUsed(i, "create")
    /\ UNCHANGED <<editSites, editShared>>

\* A site or app gets the domain: the handler for sites asks for sites only.
SiteClaims(i, d) ==
    /\ EditFree(i)
    /\ d \notin editSites
    /\ editSites' = editSites \cup {d}
    /\ editShared' = IF d \in Routed \/ \E j \in EditRequests :
                            editTask[j].pc = "write" /\ editTask[j].arg = d
                     THEN editShared \cup {d} ELSE editShared
    /\ EditUsed(i, "site")
    /\ UNCHANGED <<editRow, editRoutes, editClash, editMade>>

\* A handler has loaded the row and, for the domain, the endpoints and checked
\* the domain.  Some handlers do not ask whether the stack is being deleted.
EditLoad(i, kind, s, arg) ==
    /\ EditFree(i) /\ s \in Existing
    /\ kind \in Refusing => editRow[s].status # "deleting"
    /\ kind = "domain" =>
         arg \notin editSites \cup UNION {editRoutes[t] : t \in EditIds \ {s}}
    /\ editTask' = [editTask EXCEPT ![i] = [kind |-> kind, s |-> s, row |-> editRow[s],
                      routes |-> editRoutes[s], arg |-> arg, pc |-> "write", stale |-> FALSE]]
    /\ UNCHANGED <<editRow, editRoutes, editSites, editHistory>>

EditArgs(kind) ==
    CASE kind = "domain" -> EditDomains
      [] kind = "env"    -> EditDomains \cup {None}
      [] kind = "config" -> EditConfigs
      [] kind = "hook"   -> {"ready", "degraded", "absent"}
      [] OTHER           -> {None}

-----------------------------------------------------------------------------
(* What is written.                                                        *)

\* set_stack_domain(): the endpoint that was loaded is replaced.
ReplacedRoutes(t) == (editRoutes[t.s] \ t.routes) \cup {t.arg}

\* sync_endpoints_from_env_change(): the endpoint of the domain the variable
\* had named, or of the service where it had named none, is replaced.
SyncedRoutes(t, old) ==
    IF old = None THEN editRoutes[t.s] ELSE (editRoutes[t.s] \ {old}) \cup {t.arg}
OldRoute(t, old) ==
    IF t.arg \in {None, t.row.env} THEN old = None
    ELSE IF t.row.env # None THEN old = IF t.row.env \in editRoutes[t.s] THEN t.row.env ELSE None
    ELSE old \in editRoutes[t.s]

\* Mutation: the environment does not follow the domain.
EnvAsWritten(t) == IF t.kind \in {"env"} THEN t.arg ELSE editRow[t.s].env

\* update_env_for_domain(): a variable that is there follows the domain.
WrittenEnv(t) ==
    CASE t.kind = "env" -> t.arg
      [] t.kind = "domain" /\ t.row.env # None -> t.arg
      [] t.kind = "config" -> t.row.env
      [] OTHER -> editRow[t.s].env
WrittenConfig(t) ==
    CASE t.kind = "config" -> t.arg
      [] t.kind = "env" \/ (t.kind = "domain" /\ t.row.env # None) -> t.row.config
      [] OTHER -> editRow[t.s].config
WrittenGen(t) == IF t.kind \in Bumping THEN t.row.gen + 1 ELSE editRow[t.s].gen
WrittenStatus(t) ==
    CASE t.kind = "delete" -> "deleting"
      [] t.kind = "hook" -> t.arg
      [] OTHER -> editRow[t.s].status
\* A hook that reports a healthy stack takes the generation as observed.
WrittenObserved(t) ==
    IF t.kind = "hook" /\ t.arg = "ready" THEN t.row.gen ELSE editRow[t.s].observed

\* A commit that writes a taken domain, or a row that has gone, raises.
NewRoutes(routes, s) == routes \ editRoutes[s]
Unique(t) ==
    /\ t.kind = "domain" => t.arg \notin Routed
    /\ t.kind = "env" /\ (\E old \in EditDomains : OldRoute(t, old)) => t.arg \notin Routed

EditDone(i, s) ==
    editTask' = [j \in EditRequests |->
        IF j = i THEN [EditOff EXCEPT !.kind = editTask[i].kind]
        ELSE IF editTask[j].s = s THEN [editTask[j] EXCEPT !.stale = TRUE]
        ELSE editTask[j]]

EditWrite(i) ==
    LET t == editTask[i] IN
    /\ t.pc = "write" /\ t.s \in Existing /\ Unique(t) /\ t.arg # "absent"
    /\ editRow' = [editRow EXCEPT ![t.s] =
           [gen |-> WrittenGen(t), observed |-> WrittenObserved(t), status |-> WrittenStatus(t),
            env |-> WrittenEnv(t), config |-> WrittenConfig(t)]]
    /\ CASE t.kind = "domain" -> editRoutes' = [editRoutes EXCEPT ![t.s] = ReplacedRoutes(t)]
         [] t.kind = "env" -> \E old \in EditDomains \cup {None} :
                /\ OldRoute(t, old)
                /\ editRoutes' = [editRoutes EXCEPT ![t.s] = SyncedRoutes(t, old)]
         [] OTHER -> UNCHANGED editRoutes
    /\ editMade' = [editMade EXCEPT ![t.s] =
           [bumps |-> @.bumps + (IF t.kind \in Bumping THEN 1 ELSE 0),
            config |-> IF t.kind = "config" THEN t.arg ELSE @.config]]
    /\ editShared' = IF t.kind = "env" THEN editShared \cup NewRoutes(editRoutes'[t.s], t.s)
                     ELSE editShared
    /\ editClash' = IF t.stale THEN editClash \cup {t.s} ELSE editClash
    /\ EditDone(i, t.s)
    /\ UNCHANGED editSites

\* Teardown is complete: the row goes, and the endpoints with it.
EditGone(i) ==
    LET t == editTask[i] IN
    /\ t.pc = "write" /\ t.arg = "absent" /\ t.s \in Existing
    /\ editRow' = [editRow EXCEPT ![t.s] = None]
    /\ editRoutes' = [editRoutes EXCEPT ![t.s] = {}]
    /\ EditDone(i, t.s)
    /\ UNCHANGED <<editSites, editHistory>>

EditRaises(i) ==
    LET t == editTask[i] IN
    /\ t.pc = "write" /\ (t.s \in Existing => ~Unique(t))
    /\ editTask' = [editTask EXCEPT ![i] = [EditOff EXCEPT !.kind = t.kind]]
    /\ UNCHANGED <<editRow, editRoutes, editSites, editHistory>>

-----------------------------------------------------------------------------
\* One stack has converged; its environment may name its domain.  Which domain
\* and inputs it has makes no difference.
EditInit ==
    /\ \E named \in BOOLEAN : LET d == CHOOSE d \in EditDomains : TRUE
                                c == CHOOSE c \in EditConfigs : TRUE IN
         /\ editRow = [s \in EditIds |-> IF s # 1 THEN None ELSE
                [gen |-> 1, observed |-> 1, status |-> "ready",
                 env |-> IF named THEN d ELSE None, config |-> c]]
         /\ editRoutes = [s \in EditIds |-> IF s = 1 THEN {d} ELSE {}]
         /\ editMade = [s \in EditIds |-> [bumps |-> 0, config |-> c]]
    /\ editSites = {}
    /\ editTask = [i \in EditRequests |-> EditOff]
    /\ editClash = {} /\ editShared = {}

EditNext ==
    \E i \in EditRequests :
        \/ \E s \in EditIds : \/ \E d \in EditDomains, e \in EditDomains \cup {None},
                                    c \in EditConfigs : EditCreate(i, s, d, e, c)
                              \/ \E kind \in EditKinds : \E arg \in EditArgs(kind) :
                                    EditLoad(i, kind, s, arg)
        \/ \E d \in EditDomains : SiteClaims(i, d)
        \/ EditWrite(i) \/ EditGone(i) \/ EditRaises(i)

EditSpec == EditInit /\ [][EditNext]_editVars

-----------------------------------------------------------------------------
(* Properties.                                                             *)

\* No accepted edit is lost: each has its own generation and the inputs are
\* those of the last edit, as long as no handler wrote from a row that another
\* had changed since.
EditsKept ==
    \A s \in Existing \ editClash :
        /\ editRow[s].gen = 1 + editMade[s].bumps
        /\ editRow[s].config = editMade[s].config
        /\ editRow[s].observed <= editRow[s].gen

\* The stack has one endpoint, and the variable of its environment, where it
\* is set, names the domain of it, whichever of the two was edited.
EnvNamesDomain ==
    \A s \in Existing \ editClash :
        /\ Cardinality(editRoutes[s]) = 1
        /\ editRow[s].env # None => editRoutes[s] = {editRow[s].env}

\* A stack has a domain together with a site only if the site came later, or
\* the domain came through the environment, which asks nobody.
DomainsApart == Routed \cap editSites \subseteq editShared

StackEditsSound == EditsKept /\ EnvNamesDomain /\ DomainsApart
=============================================================================
