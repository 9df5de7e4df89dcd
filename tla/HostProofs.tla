------------------------------ MODULE HostProofs ------------------------------
(***************************************************************************)
(* What the parts of the panel that reach hosts promise, for any number of *)
(* requests, faults and restarts: edits and actions of stacks, apps,       *)
(* stacks on remote servers; and that the routes of domains lead to        *)
(* containers that run while their service is deployed.                    *)
(***************************************************************************)
EXTENDS StackEdits, StackActions, Apps, RemoteServers, ZeroDowntime, Induction

\* The greatest of a set of numbers.
LEMMA GreatestIn ==
    ASSUME NEW bound \in Nat, NEW T \in SUBSET (0 .. bound), T # {}
    PROVE  Greatest(T) \in T /\ \A n \in T : n <= Greatest(T)
<1>1. \E m \in T : \A n \in T : n <= m
  BY GreatestNat
<1> QED
  BY <1>1 DEF Greatest

-----------------------------------------------------------------------------
(* Edits of stacks.                                                        *)

Outcomes == {"ready", "degraded", "absent"}
EditHandler == [kind : EditKinds \cup {None, "create", "site"}, s : EditIds \cup {0},
                row : EditRow \cup {None}, routes : SUBSET EditDomains,
                arg : EditDomains \cup EditConfigs \cup Outcomes \cup {None},
                pc : {"off", "write"}, stale : BOOLEAN]

EditShapes ==
    /\ editRow \in [EditIds -> EditRow \cup {None}]
    /\ editRoutes \in [EditIds -> SUBSET EditDomains]
    /\ editSites \subseteq EditDomains
    /\ editTask \in [EditRequests -> EditHandler]
    /\ editMade \in [EditIds -> [bumps : Nat, config : EditConfigs]]

\* A handler has loaded a row, and the row is still so unless it is stale; a
\* domain that it was given has no site, or one that came in between.
HandlerSound(i) ==
    LET t == editTask[i] IN
    t.pc = "write" =>
        /\ t.kind \in EditKinds /\ t.s \in EditIds /\ t.arg \in EditArgs(t.kind)
        /\ t.row \in EditRow
        /\ ~t.stale => editRow[t.s] = t.row /\ editRoutes[t.s] = t.routes
        /\ t.kind = "domain" => t.arg \notin editSites \/ t.arg \in editShared

\* A stack that no handler has spoilt has the inputs it was given, and one
\* endpoint, which its environment names.
EditSound(s) ==
    editRow[s] # None /\ s \notin editClash =>
        /\ editRow[s].gen = 1 + editMade[s].bumps
        /\ editRow[s].config = editMade[s].config
        /\ editRow[s].observed <= editRow[s].gen
        /\ \E d \in EditDomains : editRoutes[s] = {d}
        /\ editRow[s].env # None => editRoutes[s] = {editRow[s].env}

EditStrong ==
    /\ EditShapes
    /\ \A i \in EditRequests : HandlerSound(i)
    /\ \A s \in EditIds : EditSound(s)
    /\ DomainsApart

LEMMA RoutedBy == \A d : d \in Routed <=> \E s \in EditIds : d \in editRoutes[s]
  BY DEF Routed

LEMMA EditArgsTyped ==
    ASSUME NEW kind \in EditKinds
    PROVE  /\ EditArgs(kind) \subseteq EditDomains \cup EditConfigs \cup Outcomes \cup {None}
           /\ kind = "domain" => EditArgs(kind) = EditDomains
           /\ kind = "env" => EditArgs(kind) = EditDomains \cup {None}
           /\ kind = "config" => EditArgs(kind) = EditConfigs
           /\ kind = "hook" => EditArgs(kind) = Outcomes
  BY DEF EditArgs, EditKinds, Outcomes

LEMMA EditOffHandler ==
    ASSUME NEW kind \in EditKinds \cup {None, "create", "site"}
    PROVE  /\ [EditOff EXCEPT !.kind = kind] \in EditHandler
           /\ [EditOff EXCEPT !.kind = kind].pc = "off"
  BY DEF EditOff, EditHandler

LEMMA EditInitStrong == EditInit => EditStrong
<1> SUFFICES ASSUME EditInit PROVE EditStrong
  OBVIOUS
<1>1. PICK named \in BOOLEAN : LET d == CHOOSE d \in EditDomains : TRUE
                                   c == CHOOSE c \in EditConfigs : TRUE IN
         /\ editRow = [s \in EditIds |-> IF s # 1 THEN None ELSE
                [gen |-> 1, observed |-> 1, status |-> "ready",
                 env |-> IF named THEN d ELSE None, config |-> c]]
         /\ editRoutes = [s \in EditIds |-> IF s = 1 THEN {d} ELSE {}]
         /\ editMade = [s \in EditIds |-> [bumps |-> 0, config |-> c]]
  BY DEF EditInit
<1> DEFINE d == CHOOSE d \in EditDomains : TRUE
           c == CHOOSE c \in EditConfigs : TRUE
           r == [gen |-> 1, observed |-> 1, status |-> "ready",
                 env |-> IF named THEN d ELSE None, config |-> c]
<1>2. d \in EditDomains /\ c \in EditConfigs
  BY EditAssumption
<1>3. /\ editRow = [s \in EditIds |-> IF s # 1 THEN None ELSE r]
      /\ editRoutes = [s \in EditIds |-> IF s = 1 THEN {d} ELSE {}]
      /\ editMade = [s \in EditIds |-> [bumps |-> 0, config |-> c]]
      /\ editSites = {} /\ editTask = [i \in EditRequests |-> EditOff]
  BY <1>1 DEF EditInit
<1> HIDE DEF d, c
<1>4. r \in EditRow
  BY <1>2 DEF EditRow
<1>5. EditOff \in EditHandler /\ EditOff.pc = "off"
  BY DEF EditOff, EditHandler
<1>6. EditShapes
  BY <1>2, <1>3, <1>4, <1>5 DEF EditShapes
<1>7. ASSUME NEW i \in EditRequests PROVE HandlerSound(i)
  BY <1>3, <1>5 DEF HandlerSound
<1>8. ASSUME NEW s \in EditIds PROVE EditSound(s)
  BY <1>2, <1>3 DEF EditSound
<1>9. DomainsApart
  BY <1>3 DEF DomainsApart
<1> QED
  BY <1>6, <1>7, <1>8, <1>9 DEF EditStrong

\* A request that changes nothing but its own kind: no handler is disturbed.
LEMMA EditUsedTask ==
    ASSUME EditStrong, NEW i \in EditRequests, EditFree(i), NEW kind \in {"create", "site"},
           EditUsed(i, kind)
    PROVE  /\ editTask' \in [EditRequests -> EditHandler] /\ editTask'[i].pc = "off"
           /\ \A j \in EditRequests \ {i} : editTask'[j] = editTask[j]
<1>1. editTask[i] \in EditHandler /\ editTask[i].kind = None /\ HandlerSound(i)
  BY DEF EditStrong, EditShapes, EditFree
<1>2. editTask[i].pc = "off"
  BY <1>1, EditNoneAssumption DEF HandlerSound, EditHandler
<1>3. editTask' = [editTask EXCEPT ![i] = [editTask[i] EXCEPT !.kind = kind]]
  BY DEF EditUsed
<1>4. [editTask[i] EXCEPT !.kind = kind] \in EditHandler /\ [editTask[i] EXCEPT !.kind = kind].pc = "off"
  BY <1>1, <1>2 DEF EditHandler
<1> QED
  BY <1>3, <1>4 DEF EditStrong, EditShapes

LEMMA EditCreateStrong ==
    ASSUME EditStrong, NEW i \in EditRequests, NEW s \in EditIds, NEW d \in EditDomains,
           NEW env \in EditDomains \cup {None}, NEW c \in EditConfigs, EditCreate(i, s, d, env, c)
    PROVE  EditStrong'
<1> DEFINE r == [gen |-> 1, observed |-> 0, status |-> "converging", env |-> env, config |-> c]
<1>1. /\ EditFree(i) /\ d \notin Routed \cup editSites /\ env \in {None, d}
      /\ editRow' = [editRow EXCEPT ![s] = r]
      /\ editRoutes' = [editRoutes EXCEPT ![s] = {d}]
      /\ editMade' = [editMade EXCEPT ![s] = [bumps |-> 0, config |-> c]]
      /\ editClash' = editClash \ {s} /\ EditUsed(i, "create")
      /\ UNCHANGED <<editSites, editShared>>
  BY DEF EditCreate
<1>2. editRow[s] = None
  <2> SUFFICES ASSUME s \in Existing PROVE FALSE
    BY DEF Existing
  <2>1. Existing \in SUBSET (0 .. EditStacks) /\ EditStacks \in Nat
    BY EditAssumption DEF Existing, EditIds
  <2>2. s <= Greatest(Existing) /\ Greatest(Existing) \in Existing
    BY <2>1, GreatestIn
  <2>3. s = 1 + Greatest(Existing)
    BY DEF EditCreate
  <2>4. Greatest(Existing) \in Nat
    <3>1. \A e \in Existing : e \in Nat
      BY DEF Existing, EditIds
    <3> QED
      BY <2>2, <3>1
  <2> QED
    BY <2>2, <2>3, <2>4
<1>3. r \in EditRow /\ r.gen = 1 /\ r.observed = 0 /\ r.env = env /\ r.config = c
  BY DEF EditRow
<1> HIDE DEF r
<1>4. /\ editTask' \in [EditRequests -> EditHandler] /\ editTask'[i].pc = "off"
      /\ \A j \in EditRequests \ {i} : editTask'[j] = editTask[j]
  BY <1>1, EditUsedTask
<1>5. EditShapes'
  BY <1>1, <1>3, <1>4 DEF EditStrong, EditShapes
<1>6. ASSUME NEW j \in EditRequests PROVE HandlerSound(j)'
  <2>1. CASE j = i
    BY <1>4, <2>1 DEF HandlerSound
  <2>2. CASE j # i
    <3>1. editTask'[j] = editTask[j] /\ HandlerSound(j)
      BY <1>4, <2>2 DEF EditStrong
    <3>2. editTask[j].pc = "write" /\ ~editTask[j].stale => editTask[j].s # s
      BY <1>2, <3>1, EditNoneAssumption DEF HandlerSound
    <3> QED
      BY <1>1, <3>1, <3>2 DEF HandlerSound
  <2> QED
    BY <2>1, <2>2
<1>7. ASSUME NEW t \in EditIds PROVE EditSound(t)'
  <2>1. CASE t = s
    BY <1>1, <1>3, <2>1 DEF EditSound, EditStrong, EditShapes
  <2>2. CASE t # s
    BY <1>1, <2>2 DEF EditSound, EditStrong, EditShapes
  <2> QED
    BY <2>1, <2>2
<1>8. DomainsApart'
  <2>1. \A e \in Routed' : e = d \/ e \in Routed
    BY <1>1, RoutedBy DEF EditStrong, EditShapes, Routed
  <2> QED
    BY <1>1, <2>1 DEF EditStrong, DomainsApart
<1> QED
  BY <1>5, <1>6, <1>7, <1>8 DEF EditStrong

LEMMA SiteClaimsStrong ==
    ASSUME EditStrong, NEW i \in EditRequests, NEW d \in EditDomains, SiteClaims(i, d)
    PROVE  EditStrong'
<1>1. /\ EditFree(i) /\ EditUsed(i, "site") /\ editSites' = editSites \cup {d}
      /\ editShared \subseteq editShared'
      /\ d \in Routed => d \in editShared'
      /\ \A j \in EditRequests : editTask[j].pc = "write" /\ editTask[j].arg = d => d \in editShared'
      /\ UNCHANGED <<editRow, editRoutes, editClash, editMade>>
  BY DEF SiteClaims
<1>2. /\ editTask' \in [EditRequests -> EditHandler] /\ editTask'[i].pc = "off"
      /\ \A j \in EditRequests \ {i} : editTask'[j] = editTask[j]
  BY <1>1, EditUsedTask
<1>3. EditShapes'
  BY <1>1, <1>2 DEF EditStrong, EditShapes
<1>4. ASSUME NEW j \in EditRequests PROVE HandlerSound(j)'
  BY <1>1, <1>2 DEF HandlerSound, EditStrong
<1>5. ASSUME NEW t \in EditIds PROVE EditSound(t)'
  BY <1>1 DEF EditSound, EditStrong
<1>6. DomainsApart'
  <2>1. Routed' = Routed
    BY <1>1 DEF Routed
  <2> QED
    BY <1>1, <2>1 DEF EditStrong, DomainsApart
<1> QED
  BY <1>3, <1>4, <1>5, <1>6 DEF EditStrong

LEMMA EditLoadStrong ==
    ASSUME EditStrong, NEW i \in EditRequests, NEW kind \in EditKinds, NEW s \in EditIds,
           NEW arg \in EditArgs(kind), EditLoad(i, kind, s, arg)
    PROVE  EditStrong'
<1> DEFINE t == [kind |-> kind, s |-> s, row |-> editRow[s], routes |-> editRoutes[s], arg |-> arg,
                 pc |-> "write", stale |-> FALSE]
<1>1. /\ editRow[s] # None /\ editTask' = [editTask EXCEPT ![i] = t]
      /\ kind = "domain" => arg \notin editSites
      /\ UNCHANGED <<editRow, editRoutes, editSites, editClash, editMade, editShared>>
  BY DEF EditLoad, Existing, editHistory
<1>2. t \in EditHandler
  <2>1. editRow[s] \in EditRow /\ editRoutes[s] \in SUBSET EditDomains
    BY <1>1 DEF EditStrong, EditShapes
  <2>2. arg \in EditDomains \cup EditConfigs \cup Outcomes \cup {None}
    BY EditArgsTyped
  <2> QED
    BY <2>1, <2>2 DEF EditHandler
<1>3. /\ editTask' \in [EditRequests -> EditHandler] /\ editTask'[i] = t
      /\ \A j \in EditRequests \ {i} : editTask'[j] = editTask[j]
  BY <1>1, <1>2 DEF EditStrong, EditShapes
<1>4. EditShapes'
  BY <1>1, <1>3 DEF EditStrong, EditShapes
<1>5. ASSUME NEW j \in EditRequests PROVE HandlerSound(j)'
  <2>1. CASE j = i
    <3>1. editRow[s] \in EditRow
      BY <1>1 DEF EditStrong, EditShapes
    <3> QED
      BY <1>1, <1>3, <2>1, <3>1 DEF HandlerSound
  <2>2. CASE j # i
    BY <1>1, <1>3, <2>2 DEF HandlerSound, EditStrong
  <2> QED
    BY <2>1, <2>2
<1>6. ASSUME NEW u \in EditIds PROVE EditSound(u)'
  BY <1>1 DEF EditSound, EditStrong
<1>7. DomainsApart'
  BY <1>1 DEF EditStrong, DomainsApart, Routed
<1> QED
  BY <1>4, <1>5, <1>6, <1>7 DEF EditStrong

\* A handler is done: those that hold the same stack are stale.
LEMMA EditDoneTask ==
    ASSUME EditStrong, NEW i \in EditRequests, NEW s, EditDone(i, s)
    PROVE  /\ editTask' \in [EditRequests -> EditHandler] /\ editTask'[i].pc = "off"
           /\ \A j \in EditRequests \ {i} :
                /\ editTask[j].s = s => editTask'[j] = [editTask[j] EXCEPT !.stale = TRUE]
                /\ editTask[j].s # s => editTask'[j] = editTask[j]
<1> DEFINE off == [EditOff EXCEPT !.kind = editTask[i].kind]
<1>1. off \in EditHandler /\ off.pc = "off"
  BY EditOffHandler DEF EditStrong, EditShapes, EditHandler
<1>2. editTask' = [j \in EditRequests |->
        IF j = i THEN off
        ELSE IF editTask[j].s = s THEN [editTask[j] EXCEPT !.stale = TRUE]
        ELSE editTask[j]]
  BY DEF EditDone
<1> HIDE DEF off
<1>3. \A j \in EditRequests : /\ editTask[j] \in EditHandler
                              /\ [editTask[j] EXCEPT !.stale = TRUE] \in EditHandler
  BY DEF EditStrong, EditShapes, EditHandler
<1> QED
  BY <1>1, <1>2, <1>3

\* When a handler has written stack s, the others are sound as they were.
LEMMA EditDoneSound ==
    ASSUME EditStrong, NEW i \in EditRequests, NEW s, EditDone(i, s), UNCHANGED editSites,
           editShared \subseteq editShared',
           \A u \in EditIds \ {s} : editRow'[u] = editRow[u] /\ editRoutes'[u] = editRoutes[u],
           NEW j \in EditRequests
    PROVE  HandlerSound(j)'
<1>1. CASE j = i
  BY <1>1, EditDoneTask DEF HandlerSound
<1>2. CASE j # i /\ editTask[j].s = s
  <2>1. editTask'[j] = [editTask[j] EXCEPT !.stale = TRUE] /\ editTask[j] \in EditHandler
    BY <1>2, EditDoneTask DEF EditStrong, EditShapes
  <2>2. /\ editTask'[j].stale = TRUE /\ editTask'[j].pc = editTask[j].pc
        /\ editTask'[j].kind = editTask[j].kind /\ editTask'[j].s = editTask[j].s
        /\ editTask'[j].arg = editTask[j].arg /\ editTask'[j].row = editTask[j].row
    BY <2>1 DEF EditHandler
  <2>3. HandlerSound(j)
    BY DEF EditStrong
  <2> QED
    BY <2>2, <2>3 DEF HandlerSound
<1>3. CASE j # i /\ editTask[j].s # s
  <2>1. editTask'[j] = editTask[j]
    BY <1>3 DEF EditDone
  <2>2. HandlerSound(j)
    BY DEF EditStrong
  <2> QED
    BY <1>3, <2>1, <2>2 DEF HandlerSound
<1> QED
  BY <1>1, <1>2, <1>3

LEMMA EditGoneStrong ==
    ASSUME EditStrong, NEW i \in EditRequests, EditGone(i)
    PROVE  EditStrong'
<1> DEFINE s == editTask[i].s
<1>1. /\ editTask[i].pc = "write" /\ s \in EditIds
      /\ editRow' = [editRow EXCEPT ![s] = None] /\ editRoutes' = [editRoutes EXCEPT ![s] = {}]
      /\ EditDone(i, s)
      /\ UNCHANGED <<editSites, editClash, editMade, editShared>>
  BY DEF EditGone, Existing, editHistory
<1> HIDE DEF s
<1>2. EditShapes'
  BY <1>1, EditDoneTask DEF EditStrong, EditShapes
<1>3. \A u \in EditIds \ {s} : editRow'[u] = editRow[u] /\ editRoutes'[u] = editRoutes[u]
  BY <1>1 DEF EditStrong, EditShapes
<1>4. ASSUME NEW j \in EditRequests PROVE HandlerSound(j)'
  BY <1>1, <1>3, EditDoneSound
<1>5. ASSUME NEW u \in EditIds PROVE EditSound(u)'
  BY <1>1, <1>3 DEF EditSound, EditStrong, EditShapes
<1>6. DomainsApart'
  <2>1. \A d \in Routed' : d \in Routed
    <3> SUFFICES ASSUME NEW d \in Routed' PROVE d \in Routed
      OBVIOUS
    <3>1. PICK u \in EditIds : d \in editRoutes'[u]
      BY DEF Routed
    <3>2. u # s
      BY <1>1, <3>1 DEF EditStrong, EditShapes
    <3> QED
      BY <1>3, <3>1, <3>2, RoutedBy
  <2> QED
    BY <1>1, <2>1 DEF EditStrong, DomainsApart
<1> QED
  BY <1>2, <1>4, <1>5, <1>6 DEF EditStrong

LEMMA EditRaisesStrong ==
    ASSUME EditStrong, NEW i \in EditRequests, EditRaises(i)
    PROVE  EditStrong'
<1> DEFINE off == [EditOff EXCEPT !.kind = editTask[i].kind]
<1>1. /\ editTask' = [editTask EXCEPT ![i] = off]
      /\ UNCHANGED <<editRow, editRoutes, editSites, editClash, editMade, editShared>>
  BY DEF EditRaises, editHistory
<1>2. off \in EditHandler /\ off.pc = "off"
  BY EditOffHandler DEF EditStrong, EditShapes, EditHandler
<1> HIDE DEF off
<1>3. /\ editTask' \in [EditRequests -> EditHandler] /\ editTask'[i] = off
      /\ \A j \in EditRequests \ {i} : editTask'[j] = editTask[j]
  BY <1>1, <1>2 DEF EditStrong, EditShapes
<1>4. EditShapes'
  BY <1>1, <1>3 DEF EditStrong, EditShapes
<1>5. ASSUME NEW j \in EditRequests PROVE HandlerSound(j)'
  BY <1>1, <1>2, <1>3 DEF HandlerSound, EditStrong
<1>6. ASSUME NEW u \in EditIds PROVE EditSound(u)'
  BY <1>1 DEF EditSound, EditStrong
<1>7. DomainsApart'
  BY <1>1 DEF EditStrong, DomainsApart, Routed
<1> QED
  BY <1>4, <1>5, <1>6, <1>7 DEF EditStrong

\* What a handler with a fresh row writes of the row.
LEMMA WrittenRow ==
    ASSUME EditStrong, NEW i \in EditRequests, editTask[i].pc = "write",
           editRow[editTask[i].s] # None, editTask[i].arg # "absent"
    PROVE  LET t == editTask[i]
               r == [gen |-> WrittenGen(t), observed |-> WrittenObserved(t), status |-> WrittenStatus(t),
                     env |-> WrittenEnv(t), config |-> WrittenConfig(t)]
               old == editRow[t.s]
               bump == IF t.kind \in Bumping THEN 1 ELSE 0
           IN  /\ r \in EditRow
               /\ ~t.stale /\ old.observed <= old.gen =>
                    /\ r.gen = old.gen + bump /\ r.observed <= r.gen
                    /\ r.config = IF t.kind = "config" THEN t.arg ELSE old.config
                    /\ t.kind = "domain" => r.env = IF old.env = None THEN None ELSE t.arg
                    /\ t.kind = "env" => r.env = t.arg
                    /\ t.kind \notin {"domain", "env"} => r.env = old.env
<1> DEFINE t == editTask[i]
           old == editRow[t.s]
<1>1. HandlerSound(i) /\ t \in EditHandler /\ t.pc = "write"
  BY DEF EditStrong, EditShapes
<1>2. /\ t.kind \in EditKinds /\ t.s \in EditIds /\ t.arg \in EditArgs(t.kind) /\ t.row \in EditRow
      /\ ~t.stale => old = t.row
  BY <1>1 DEF HandlerSound
<1>3. old \in EditRow /\ t.arg # "absent"
  BY <1>2 DEF EditStrong, EditShapes
<1>4. /\ t.kind = "domain" => t.arg \in EditDomains
      /\ t.kind = "env" => t.arg \in EditDomains \cup {None}
      /\ t.kind = "config" => t.arg \in EditConfigs
      /\ t.kind = "hook" => t.arg \in {"ready", "degraded"}
  BY <1>2, <1>3, EditArgsTyped DEF Outcomes
<1> HIDE DEF t
<1>5. /\ old.gen \in Nat /\ old.observed \in Nat /\ old.config \in EditConfigs
      /\ old.env \in EditDomains \cup {None}
      /\ old.status \in {"converging", "ready", "degraded", "deleting"}
      /\ t.row.gen \in Nat /\ t.row.env \in EditDomains \cup {None} /\ t.row.config \in EditConfigs
  BY <1>2, <1>3 DEF EditRow
<1>6. WrittenGen(t) \in Nat /\ WrittenObserved(t) \in Nat
  BY <1>5 DEF WrittenGen, WrittenObserved
<1>7. WrittenStatus(t) \in {"converging", "ready", "degraded", "deleting"}
  BY <1>4, <1>5 DEF WrittenStatus
<1>8. WrittenEnv(t) \in EditDomains \cup {None}
  BY <1>4, <1>5 DEF WrittenEnv
<1>9. WrittenConfig(t) \in EditConfigs
  BY <1>4, <1>5 DEF WrittenConfig
<1> DEFINE r == [gen |-> WrittenGen(t), observed |-> WrittenObserved(t), status |-> WrittenStatus(t),
                 env |-> WrittenEnv(t), config |-> WrittenConfig(t)]
<1>10. /\ r \in EditRow /\ r.gen = WrittenGen(t) /\ r.observed = WrittenObserved(t)
       /\ r.env = WrittenEnv(t) /\ r.config = WrittenConfig(t)
  BY <1>6, <1>7, <1>8, <1>9 DEF EditRow
<1>11. ASSUME ~t.stale, old.observed <= old.gen
       PROVE  /\ WrittenGen(t) = old.gen + (IF t.kind \in Bumping THEN 1 ELSE 0)
              /\ WrittenObserved(t) <= WrittenGen(t)
              /\ WrittenConfig(t) = IF t.kind = "config" THEN t.arg ELSE old.config
              /\ t.kind = "domain" => WrittenEnv(t) = IF old.env = None THEN None ELSE t.arg
              /\ t.kind = "env" => WrittenEnv(t) = t.arg
              /\ t.kind \notin {"domain", "env"} => WrittenEnv(t) = old.env
  <2>1. old = t.row
    BY <1>2, <1>11
  <2>2. /\ WrittenGen(t) = old.gen + (IF t.kind \in Bumping THEN 1 ELSE 0)
        /\ WrittenObserved(t) <= WrittenGen(t)
    BY <1>5, <1>11, <2>1 DEF WrittenGen, WrittenObserved
  <2>3. WrittenConfig(t) = IF t.kind = "config" THEN t.arg ELSE old.config
    BY <2>1 DEF WrittenConfig
  <2>4. t.kind = "domain" => WrittenEnv(t) = IF old.env = None THEN None ELSE t.arg
    BY <2>1 DEF WrittenEnv
  <2>5. /\ t.kind = "env" => WrittenEnv(t) = t.arg
        /\ t.kind \notin {"domain", "env"} => WrittenEnv(t) = old.env
    BY <2>1 DEF WrittenEnv
  <2> QED
    BY <2>2, <2>3, <2>4, <2>5
<1> HIDE DEF r, old
<1>12. /\ r \in EditRow
       /\ ~t.stale /\ old.observed <= old.gen =>
            /\ r.gen = old.gen + (IF t.kind \in Bumping THEN 1 ELSE 0) /\ r.observed <= r.gen
            /\ r.config = IF t.kind = "config" THEN t.arg ELSE old.config
            /\ t.kind = "domain" => r.env = IF old.env = None THEN None ELSE t.arg
            /\ t.kind = "env" => r.env = t.arg
            /\ t.kind \notin {"domain", "env"} => r.env = old.env
  BY <1>10, <1>11
<1> QED
  BY <1>12 DEF r, old, t

\* What a handler writes of the endpoints: only "env" adds a domain that it did
\* not ask for, and a fresh handler leaves one endpoint.
LEMMA WrittenRoutes ==
    ASSUME EditStrong, NEW i \in EditRequests, EditWrite(i)
    PROVE  LET t == editTask[i]
               new == editRoutes'[t.s]
           IN  /\ editRoutes' \in [EditIds -> SUBSET EditDomains]
               /\ \A u \in EditIds \ {t.s} : editRoutes'[u] = editRoutes[u]
               /\ t.kind \notin {"domain", "env"} => new = editRoutes[t.s]
               /\ t.kind = "domain" => /\ t.arg \in EditDomains /\ new \subseteq editRoutes[t.s] \cup {t.arg}
                                       /\ ~t.stale => new = {t.arg}
               /\ t.kind = "env" =>
                    \A d \in EditDomains :
                       ~t.stale /\ editRoutes[t.s] = {d} /\ editRow[t.s].env \in {None, d} =>
                            IF t.arg = None THEN new = {d} ELSE new = {t.arg}
<1> DEFINE t == editTask[i]
           routes == editRoutes[t.s]
<1>1. HandlerSound(i) /\ t \in EditHandler /\ t.pc = "write" /\ t.arg # "absent"
  BY DEF EditStrong, EditShapes, EditWrite
<1>2. /\ t.kind \in EditKinds /\ t.s \in EditIds /\ t.arg \in EditArgs(t.kind) /\ t.row \in EditRow
      /\ ~t.stale => editRow[t.s] = t.row /\ routes = t.routes
  BY <1>1 DEF HandlerSound
<1>3. /\ t.kind = "domain" => t.arg \in EditDomains
      /\ t.kind = "env" => t.arg \in EditDomains \cup {None}
  BY <1>2, EditArgsTyped
<1>4. editRoutes \in [EditIds -> SUBSET EditDomains]
  BY DEF EditStrong, EditShapes
<1>5. CASE t.kind \notin {"domain", "env"}
  <2>1. editRoutes' = editRoutes
    BY <1>5 DEF EditWrite
  <2> QED
    BY <1>4, <1>5, <2>1
<1>6. CASE t.kind = "domain"
  <2>1. editRoutes' = [editRoutes EXCEPT ![t.s] = ReplacedRoutes(t)]
    BY <1>6 DEF EditWrite
  <2> HIDE DEF t
  <2>2. ReplacedRoutes(t) = (editRoutes[t.s] \ t.routes) \cup {t.arg}
    BY DEF ReplacedRoutes
  <2>3. editRoutes'[t.s] = ReplacedRoutes(t)
    BY <1>2, <1>4, <2>1
  <2>4. ReplacedRoutes(t) \in SUBSET EditDomains
    BY <1>2, <1>3, <1>4, <1>6, <2>2
  <2>5. editRoutes' \in [EditIds -> SUBSET EditDomains] /\ \A u \in EditIds \ {t.s} : editRoutes'[u] = editRoutes[u]
    BY <1>2, <1>4, <2>1, <2>4
  <2>6. ~t.stale => ReplacedRoutes(t) = {t.arg}
    BY <1>2, <2>2
  <2>7. /\ editRoutes' \in [EditIds -> SUBSET EditDomains]
        /\ \A u \in EditIds \ {t.s} : editRoutes'[u] = editRoutes[u]
        /\ t.arg \in EditDomains /\ editRoutes'[t.s] \subseteq editRoutes[t.s] \cup {t.arg}
        /\ ~t.stale => editRoutes'[t.s] = {t.arg}
    BY <1>3, <1>6, <2>2, <2>3, <2>5, <2>6
  <2> QED
    BY <1>6, <2>7 DEF t
<1>7. CASE t.kind = "env"
  <2>1. PICK old \in EditDomains \cup {None} :
           OldRoute(t, old) /\ editRoutes' = [editRoutes EXCEPT ![t.s] = SyncedRoutes(t, old)]
    BY <1>7 DEF EditWrite
  <2> HIDE DEF t
  <2>2. editRoutes'[t.s] = SyncedRoutes(t, old) /\ \A u \in EditIds \ {t.s} : editRoutes'[u] = editRoutes[u]
    BY <1>2, <1>4, <2>1
  <2>3. t.arg = None => old = None
    BY <2>1 DEF OldRoute
  <2>4. SyncedRoutes(t, old) \in SUBSET EditDomains
    <3>1. old # None => t.arg \in EditDomains
      BY <1>3, <1>7, <2>3
    <3> QED
      BY <1>2, <1>4, <3>1 DEF SyncedRoutes
  <2>5. editRoutes' \in [EditIds -> SUBSET EditDomains]
    BY <1>2, <1>4, <2>1, <2>4
  <2>6. ASSUME NEW d \in EditDomains, ~t.stale, editRoutes[t.s] = {d}, editRow[t.s].env \in {None, d}
        PROVE  IF t.arg = None THEN SyncedRoutes(t, old) = {d} ELSE SyncedRoutes(t, old) = {t.arg}
    <3>1. t.row.env \in {None, d} /\ None # d
      BY <1>2, <2>6, EditAssumption
    <3>2. CASE t.arg = None
      BY <2>3, <2>6, <3>2 DEF SyncedRoutes
    <3>3. CASE t.arg # None /\ t.arg = t.row.env
      <4>1. old = None /\ t.arg = d
        BY <2>1, <3>1, <3>3 DEF OldRoute
      <4> QED
        BY <2>6, <3>3, <4>1 DEF SyncedRoutes
    <3>4. CASE t.arg # None /\ t.arg # t.row.env
      <4>1. old = d
        BY <2>1, <2>6, <3>1, <3>4 DEF OldRoute
      <4> QED
        BY <2>6, <3>1, <3>4, <4>1 DEF SyncedRoutes
    <3> QED
      BY <3>2, <3>3, <3>4
  <2>7. /\ editRoutes' \in [EditIds -> SUBSET EditDomains]
        /\ \A u \in EditIds \ {t.s} : editRoutes'[u] = editRoutes[u]
        /\ \A d \in EditDomains :
             ~t.stale /\ editRoutes[t.s] = {d} /\ editRow[t.s].env \in {None, d} =>
                IF t.arg = None THEN editRoutes'[t.s] = {d} ELSE editRoutes'[t.s] = {t.arg}
    BY <2>2, <2>5, <2>6
  <2> QED
    BY <1>7, <2>7 DEF t
<1> QED
  BY <1>5, <1>6, <1>7

LEMMA EditWriteStrong ==
    ASSUME EditStrong, NEW i \in EditRequests, EditWrite(i)
    PROVE  EditStrong'
<1> DEFINE t == editTask[i]
           s == t.s
           r == [gen |-> WrittenGen(t), observed |-> WrittenObserved(t), status |-> WrittenStatus(t),
                 env |-> WrittenEnv(t), config |-> WrittenConfig(t)]
           made == [bumps |-> editMade[s].bumps + (IF t.kind \in Bumping THEN 1 ELSE 0),
                    config |-> IF t.kind = "config" THEN t.arg ELSE editMade[s].config]
<1>1. /\ t.pc = "write" /\ s \in EditIds /\ editRow[s] # None /\ t.arg # "absent"
      /\ editRow' = [editRow EXCEPT ![s] = r]
      /\ editMade' = [editMade EXCEPT ![s] = made]
      /\ editClash' = (IF t.stale THEN editClash \cup {s} ELSE editClash)
      /\ EditDone(i, s) /\ editSites' = editSites
  BY DEF EditWrite, Existing
<1>2. editShared' = IF t.kind = "env" THEN editShared \cup NewRoutes(editRoutes'[s], s) ELSE editShared
  BY DEF EditWrite
<1>3. HandlerSound(i) /\ t \in EditHandler
  BY DEF EditStrong, EditShapes
<1>4. /\ t.kind \in EditKinds /\ t.arg \in EditArgs(t.kind)
      /\ t.kind = "config" => t.arg \in EditConfigs
      /\ t.kind = "domain" => t.arg \notin editSites \/ t.arg \in editShared
  BY <1>1, <1>3, EditArgsTyped DEF HandlerSound
<1>5. r \in EditRow /\ r # None
  <2>1. r \in EditRow
    BY <1>1, WrittenRow
  <2> QED
    BY <2>1, EditNoneAssumption
<1>6. ~t.stale /\ editRow[s].observed <= editRow[s].gen =>
         /\ r.gen = editRow[s].gen + (IF t.kind \in Bumping THEN 1 ELSE 0) /\ r.observed <= r.gen
         /\ r.config = IF t.kind = "config" THEN t.arg ELSE editRow[s].config
         /\ t.kind = "domain" => r.env = IF editRow[s].env = None THEN None ELSE t.arg
         /\ t.kind = "env" => r.env = t.arg
         /\ t.kind \notin {"domain", "env"} => r.env = editRow[s].env
  BY <1>1, WrittenRow
<1>7. /\ editRoutes' \in [EditIds -> SUBSET EditDomains]
      /\ \A u \in EditIds \ {s} : editRoutes'[u] = editRoutes[u]
      /\ t.kind \notin {"domain", "env"} => editRoutes'[s] = editRoutes[s]
      /\ t.kind = "domain" => /\ t.arg \in EditDomains /\ editRoutes'[s] \subseteq editRoutes[s] \cup {t.arg}
                              /\ ~t.stale => editRoutes'[s] = {t.arg}
      /\ t.kind = "env" =>
           \A d \in EditDomains :
              ~t.stale /\ editRoutes[s] = {d} /\ editRow[s].env \in {None, d} =>
                 IF t.arg = None THEN editRoutes'[s] = {d} ELSE editRoutes'[s] = {t.arg}
  BY WrittenRoutes
<1>8. made \in [bumps : Nat, config : EditConfigs] /\ editMade[s].bumps \in Nat
  <2>1. editMade[s] \in [bumps : Nat, config : EditConfigs]
    BY <1>1 DEF EditStrong, EditShapes
  <2> QED
    BY <1>4, <2>1
<1>9. /\ made.bumps = editMade[s].bumps + (IF t.kind \in Bumping THEN 1 ELSE 0)
      /\ made.config = IF t.kind = "config" THEN t.arg ELSE editMade[s].config
  OBVIOUS
<1>10. t.kind = "env" => t.arg \in EditDomains \cup {None}
  BY <1>4, EditArgsTyped
<1> HIDE DEF r, made, t, s
<1>11. /\ editRow' \in [EditIds -> EditRow \cup {None}] /\ editRow'[s] = r
       /\ \A u \in EditIds \ {s} : editRow'[u] = editRow[u] /\ editMade'[u] = editMade[u]
       /\ editMade' \in [EditIds -> [bumps : Nat, config : EditConfigs]] /\ editMade'[s] = made
  BY <1>1, <1>5, <1>8 DEF EditStrong, EditShapes
<1>12. EditShapes'
  <2>1. editTask' \in [EditRequests -> EditHandler]
    BY <1>1, EditDoneTask
  <2> QED
    BY <1>1, <1>7, <1>11, <2>1 DEF EditStrong, EditShapes
<1>13. editShared \subseteq editShared'
  BY <1>2
<1>14. ASSUME NEW j \in EditRequests PROVE HandlerSound(j)'
  BY <1>1, <1>7, <1>11, <1>13, EditDoneSound
<1>15. ASSUME NEW u \in EditIds PROVE EditSound(u)'
  <2>1. EditSound(u)
    BY DEF EditStrong
  <2>2. CASE u # s
    <3>1. u \in editClash' <=> u \in editClash
      BY <1>1, <2>2
    <3>2. editRow'[u] = editRow[u] /\ editMade'[u] = editMade[u] /\ editRoutes'[u] = editRoutes[u]
      BY <1>7, <1>11, <2>2
    <3> QED
      BY <2>1, <3>1, <3>2 DEF EditSound
  <2>3. CASE u = s
    <3> SUFFICES ASSUME s \notin editClash' PROVE EditSound(u)'
      BY <2>3 DEF EditSound
    <3>1. ~t.stale /\ s \notin editClash
      BY <1>1
    <3>2. /\ editRow[s].gen = 1 + editMade[s].bumps /\ editRow[s].config = editMade[s].config
          /\ editRow[s].observed <= editRow[s].gen
          /\ editRow[s].env # None => editRoutes[s] = {editRow[s].env}
      BY <1>1, <2>1, <2>3, <3>1 DEF EditSound
    <3>3. PICK d \in EditDomains : editRoutes[s] = {d}
      BY <1>1, <2>1, <2>3, <3>1 DEF EditSound
    <3>4. editRow[s].env \in {None, d}
      BY <3>2, <3>3
    <3>5. r.gen = 1 + made.bumps /\ r.config = made.config /\ r.observed <= r.gen
      <4>1. 1 + editMade[s].bumps + (IF t.kind \in Bumping THEN 1 ELSE 0) = 1 + made.bumps
        BY <1>8, <1>9
      <4> QED
        BY <1>6, <1>9, <3>1, <3>2, <4>1
    <3>6. /\ \E e \in EditDomains : editRoutes'[s] = {e}
          /\ r.env # None => editRoutes'[s] = {r.env}
      <4>1. CASE t.kind = "domain"
        BY <1>6, <1>7, <3>1, <3>2, <4>1
      <4>2. CASE t.kind = "env"
        <5>1. r.env = t.arg
          BY <1>6, <3>1, <3>2, <4>2
        <5>2. IF t.arg = None THEN editRoutes'[s] = {d} ELSE editRoutes'[s] = {t.arg}
          BY <1>7, <3>1, <3>3, <3>4, <4>2
        <5> QED
          BY <1>10, <4>2, <5>1, <5>2
      <4>3. CASE t.kind \notin {"domain", "env"}
        BY <1>6, <1>7, <3>1, <3>2, <3>3, <4>3
      <4> QED
        BY <4>1, <4>2, <4>3
    <3> QED
      BY <1>11, <2>3, <3>5, <3>6 DEF EditSound
  <2> QED
    BY <2>2, <2>3
<1>16. DomainsApart'
  <2> SUFFICES ASSUME NEW d \in Routed', d \in editSites PROVE d \in editShared'
    BY <1>1 DEF DomainsApart
  <2>1. PICK u \in EditIds : d \in editRoutes'[u]
    BY DEF Routed
  <2>2. CASE d \in Routed
    BY <1>13, <2>2 DEF EditStrong, DomainsApart
  <2>3. CASE d \notin Routed
    <3>1. u = s /\ d \notin editRoutes[s]
      <4>1. d \notin editRoutes[u] /\ d \notin editRoutes[s]
        BY <1>1, <2>3, RoutedBy
      <4> QED
        BY <1>7, <2>1, <4>1
    <3>2. CASE t.kind = "domain"
      BY <1>4, <1>7, <1>13, <2>1, <3>1, <3>2
    <3>3. CASE t.kind = "env"
      BY <1>2, <2>1, <3>1, <3>3 DEF NewRoutes
    <3>4. CASE t.kind \notin {"domain", "env"}
      BY <1>7, <2>1, <3>1, <3>4
    <3> QED
      BY <3>2, <3>3, <3>4
  <2> QED
    BY <2>2, <2>3
<1> QED
  BY <1>12, <1>14, <1>15, <1>16 DEF EditStrong

LEMMA EditNextStrong == EditStrong /\ [EditNext]_editVars => EditStrong'
<1> SUFFICES ASSUME EditStrong, [EditNext]_editVars PROVE EditStrong'
  OBVIOUS
<1>1. CASE UNCHANGED editVars
  <2>1. EditShapes' /\ DomainsApart'
    BY <1>1 DEF editVars, EditStrong, EditShapes, DomainsApart, Routed
  <2>2. \A i \in EditRequests : HandlerSound(i)'
    BY <1>1 DEF editVars, EditStrong, HandlerSound
  <2>3. \A s \in EditIds : EditSound(s)'
    BY <1>1 DEF editVars, EditStrong, EditSound
  <2> QED
    BY <2>1, <2>2, <2>3 DEF EditStrong
<1>2. ASSUME NEW i \in EditRequests, NEW s \in EditIds, NEW d \in EditDomains,
             NEW e \in EditDomains \cup {None}, NEW c \in EditConfigs, EditCreate(i, s, d, e, c)
      PROVE  EditStrong'
  BY <1>2, EditCreateStrong
<1>3. ASSUME NEW i \in EditRequests, NEW s \in EditIds, NEW kind \in EditKinds,
             NEW arg \in EditArgs(kind), EditLoad(i, kind, s, arg)
      PROVE  EditStrong'
  BY <1>3, EditLoadStrong
<1>4. ASSUME NEW i \in EditRequests, EditWrite(i) \/ EditGone(i) \/ EditRaises(i)
      PROVE  EditStrong'
  BY <1>4, EditWriteStrong, EditGoneStrong, EditRaisesStrong
<1> QED
  BY <1>1, <1>2, <1>3, <1>4, SiteClaimsStrong DEF EditNext

LEMMA EditStrongImplies == EditStrong => StackEditsSound
<1> SUFFICES ASSUME EditStrong PROVE StackEditsSound
  OBVIOUS
<1>1. EditsKept
  BY DEF EditStrong, EditSound, EditsKept, Existing
<1>2. EnvNamesDomain
  <2> SUFFICES ASSUME NEW s \in Existing \ editClash
               PROVE  /\ Cardinality(editRoutes[s]) = 1
                      /\ editRow[s].env # None => editRoutes[s] = {editRow[s].env}
    BY DEF EnvNamesDomain
  <2>1. s \in EditIds /\ editRow[s] # None /\ EditSound(s)
    BY DEF EditStrong, Existing
  <2>2. PICK d \in EditDomains : editRoutes[s] = {d}
    BY <2>1 DEF EditSound
  <2> QED
    BY <2>1, <2>2, FS_Singleton DEF EditSound
<1> QED
  BY <1>1, <1>2 DEF EditStrong, StackEditsSound

LEMMA EditAlwaysStrong == EditSpec => []EditStrong
<1>1. EditStrong /\ [EditNext]_editVars => EditStrong'
  BY EditNextStrong
<1> QED
  BY <1>1, EditInitStrong, PTL DEF EditSpec

\* No accepted edit of a stack is lost unless a handler wrote from a row that
\* another had changed, domain and environment stay in step, and a stack and a
\* site share a domain only where nobody asked: for any number of stacks,
\* domains and handlers at work at once.
THEOREM EditsSound == EditSpec => []StackEditsSound
  BY EditAlwaysStrong, EditStrongImplies, PTL

-----------------------------------------------------------------------------
(* Day-2 actions.                                                          *)

SaGens == 1 .. 1 + SaMaxOps
SaRows == [gen : SaGens, observed : SaGens, status : {"ready", "degraded", "deleting"},
           definition : SaDefinition]
SaKinds == {"install", "update", "salts", "php", "delete"}
SaPcs == {"off", "ask", "install", "files", "migrate", "write", "answer"}
SaActRecord == [kind : SaKinds \cup {None}, pc : SaPcs, row : SaRows \cup {None},
                php : SaPhp \cup {None}, ok : BOOLEAN]
SaWordPress == [password : 0 .. SaMaxOps, files : BOOLEAN, database : BOOLEAN]

SaShapes ==
    /\ saRow \in SaRows \cup {None}
    /\ saHost \in SaDefinition \cup {None}
    /\ saWp \in SaWordPress
    /\ saAct \in [SaRequests -> SaActRecord]
    /\ saOp \in [SaRequests -> {None, "running", "succeeded", "failed"}]
    /\ saWoken \in BOOLEAN /\ saLost \in BOOLEAN /\ saWaits \in BOOLEAN
    /\ saCycle \in SaDefinition \cup {None, SaIdle}
    /\ saRaced \subseteq SaRequests

\* Where the handler of an action of each kind can be.
SaPlace(act) ==
    /\ act.pc # "off" => act.row # None /\ act.kind # None
    /\ act.pc \in {"ask", "install"} => act.kind = "install"
    /\ act.pc \in {"files", "migrate"} => act.kind = "update"
    /\ act.pc = "write" => act.kind \in {"salts", "php", "delete"}
    /\ act.kind = "php" /\ act.pc # "off" => act.php \in SaPhp

\* Requests are numbered as they come, and generations go no further than
\* the requests that may have written one.
SaNumbered ==
    \A i \in SaRequests :
        /\ SaPlace(saAct[i])
        /\ saAct[i].kind = None => saOp[i] = None /\ saAct[i].pc = "off"
        /\ saAct[i].kind = None => \A j \in i .. SaMaxOps : saAct[j].kind = None
        /\ saAct[i].kind = None /\ saRow # None => saRow.gen <= i
        /\ saAct[i].pc = "write" => saAct[i].row.gen <= i

\* An installation that has not raced is alone until it has set its password.
SaPasswords ==
    \A i \in SaRequests \ saRaced : saAct[i].kind = "install" =>
        /\ saAct[i].pc = "install" => Installing = {i} /\ saWp.password = 0
        /\ saAct[i].pc = "answer" /\ saAct[i].ok => saWp.password = i
        /\ saOp[i] = "succeeded" => saWp.password = i

SaUpdates ==
    \A i \in SaRequests : saAct[i].kind = "update" =>
        /\ saAct[i].pc = "migrate" => saWp.files
        /\ saAct[i].pc = "answer" /\ saAct[i].ok => saWp.files /\ saWp.database
        /\ saOp[i] = "succeeded" => saWp.files /\ saWp.database

\* Whatever made the row differ from the containers has woken the reconciler
\* or is about to, or a cycle is under way that has loaded the row as it is.
SaGrows(row) == row # None => row.observed <= row.gen
SaPending == \E i \in SaRequests : saAct[i].pc = "answer" /\ Wakes(i)
SaApplied == saRow.status # "deleting" /\ saHost = saRow.definition /\ saRow.observed = saRow.gen
SaLoaded == saRow.status # "deleting" /\ saCycle = saRow.definition
SaOrdered == SaGrows(saRow) /\ \A i \in SaRequests : SaGrows(saAct[i].row)
SaHeeded ==
    \/ saWoken \/ SaPending
    \/ saCycle = SaIdle /\ (saWaits \/ SaApplied)
    \/ saCycle # SaIdle /\ (saCycle = None \/ SaLoaded)
SaKept == saLost \/ saRow = None \/ (SaOrdered /\ SaHeeded)

SaStrong == SaShapes /\ SaNumbered /\ SaPasswords /\ SaUpdates /\ SaKept

-----------------------------------------------------------------------------
LEMMA SaNones ==
    /\ \A row \in SaRows : row # None
    /\ None \notin SaDefinition /\ None # SaIdle /\ SaIdle \notin SaDefinition
    /\ None \notin SaKinds /\ None \notin {"running", "succeeded"}
<1>1. SaIdle \notin SaDefinition
  BY DEF SaIdle, SaDefinition
<1> QED
  BY <1>1, SaNoneAssumption DEF SaRows, SaGens, SaKinds

LEMMA SaInitStrong == SaInit => SaStrong
<1> SUFFICES ASSUME SaInit PROVE SaStrong
  OBVIOUS
<1>1. saHost \in SaDefinition
  <2>1. (CHOOSE php \in SaPhp : TRUE) \in SaPhp
    BY SaAssumption
  <2> QED
    BY <2>1, SaAssumption DEF SaInit, SaDefinition
<1>2. saRow \in SaRows /\ saRow.gen = 1
  BY <1>1, SaAssumption DEF SaInit, SaRows, SaGens
<1>3. SaOff \in SaActRecord
  BY DEF SaOff, SaActRecord, SaPcs
<1>4. SaShapes
  <2>1. saWp \in SaWordPress
    BY SaAssumption DEF SaInit, SaWordPress
  <2>2. saAct \in [SaRequests -> SaActRecord]
    BY <1>3 DEF SaInit
  <2>3. saOp \in [SaRequests -> {None, "running", "succeeded", "failed"}]
    BY DEF SaInit
  <2> QED
    BY <1>1, <1>2, <2>1, <2>2, <2>3 DEF SaInit, SaShapes
<1>5. SaNumbered
  BY <1>2, SaNones, SaAssumption DEF SaInit, SaNumbered, SaPlace, SaOff, SaRequests, SaKinds
<1>6. SaPasswords /\ SaUpdates
  BY SaNones DEF SaInit, SaPasswords, SaUpdates, SaOff, SaKinds
<1>7. SaKept
  BY <1>2, SaNones DEF SaInit, SaKept, SaOrdered, SaGrows, SaHeeded, SaApplied, SaOff
<1> QED
  BY <1>4, <1>5, <1>6, <1>7 DEF SaStrong

-----------------------------------------------------------------------------
\* The records that steps make.
LEMMA SaRecords ==
    ASSUME NEW a \in SaActRecord, NEW pc \in SaPcs, NEW ok \in BOOLEAN
    PROVE  /\ SaEnded(a) \in SaActRecord
           /\ SaEnded(a).kind = a.kind /\ SaEnded(a).pc = "off" /\ SaEnded(a).row = None
           /\ [a EXCEPT !.pc = pc] \in SaActRecord
           /\ [a EXCEPT !.pc = pc, !.ok = ok] \in SaActRecord
  BY DEF SaActRecord, SaEnded, SaPcs

\* A step takes handler i to another place, and changes nothing else.
SaSteps(i, pc) ==
    \E act \in SaActRecord :
        /\ saAct' = [saAct EXCEPT ![i] = act] /\ act.pc = pc
        /\ act.kind = saAct[i].kind /\ act.row = saAct[i].row /\ act.php = saAct[i].php
SaEnds(i, ok) ==
    \E act \in SaActRecord :
        /\ saAct' = [saAct EXCEPT ![i] = act] /\ act.pc = "answer" /\ act.ok = ok
        /\ act.kind = saAct[i].kind /\ act.row = saAct[i].row /\ act.php = saAct[i].php

LEMMA SaGoes ==
    ASSUME SaShapes, NEW i \in SaRequests, NEW pc \in SaPcs, SaGoto(i, pc)
    PROVE  SaSteps(i, pc) /\ saAct' \in [SaRequests -> SaActRecord]
<1>1. PICK a \in SaActRecord : a = saAct[i]
  BY DEF SaShapes
<1> DEFINE act == [a EXCEPT !.pc = pc]
<1>2. act \in SaActRecord /\ act.pc = pc /\ act.kind = a.kind /\ act.row = a.row /\ act.php = a.php
  BY DEF SaActRecord
<1>3. saAct' = [saAct EXCEPT ![i] = act]
  BY <1>1 DEF SaGoto, SaShapes
<1> HIDE DEF act
<1> QED
  BY <1>1, <1>2, <1>3 DEF SaSteps, SaShapes

LEMMA SaResults ==
    ASSUME SaShapes, NEW i \in SaRequests, NEW ok \in BOOLEAN, SaResult(i, ok)
    PROVE  SaEnds(i, ok) /\ saAct' \in [SaRequests -> SaActRecord]
<1>1. PICK a \in SaActRecord : a = saAct[i]
  BY DEF SaShapes
<1> DEFINE act == [a EXCEPT !.pc = "answer", !.ok = ok]
<1>2. /\ act \in SaActRecord /\ act.pc = "answer" /\ act.ok = ok
      /\ act.kind = a.kind /\ act.row = a.row /\ act.php = a.php
  BY DEF SaActRecord, SaPcs
<1>3. saAct' = [saAct EXCEPT ![i] = act]
  BY <1>1 DEF SaResult, SaShapes
<1> HIDE DEF act
<1> QED
  BY <1>1, <1>2, <1>3 DEF SaEnds, SaShapes

-----------------------------------------------------------------------------
(* Types, and the order of requests.                                       *)

LEMMA SaBegins ==
    ASSUME SaShapes, NEW i \in SaRequests, NEW kind \in SaKinds, NEW php \in SaPhp \cup {None},
           BeginAction(i, kind, php), kind = "php" => php \in SaPhp
    PROVE  \E act \in SaActRecord :
              /\ saAct' = [saAct EXCEPT ![i] = act]
              /\ act.kind = kind /\ act.pc = FirstStep(kind) /\ act.row = saRow /\ act.php = php
              /\ ~act.ok
<1> DEFINE act == [kind |-> kind, pc |-> FirstStep(kind), row |-> saRow, php |-> php, ok |-> FALSE]
<1>1. FirstStep(kind) \in SaPcs
  BY DEF FirstStep, SaKinds, SaPcs
<1>2. act \in SaActRecord
  BY <1>1 DEF SaShapes, SaActRecord
<1>3. saAct' = [saAct EXCEPT ![i] = act]
  BY DEF BeginAction
<1> QED
  BY <1>2, <1>3

\* What a write of the desired state does.
SaWrites(i) ==
    \E row \in SaRows, act \in SaActRecord :
        /\ saRow' = row /\ saAct' = [saAct EXCEPT ![i] = act]
        /\ act.kind = saAct[i].kind /\ act.pc = "answer" /\ act.ok /\ act.php = saAct[i].php
        /\ act.row \in SaRows /\ act.row.observed = saAct[i].row.observed
        /\ act.row.gen = saAct[i].row.gen + 1
        /\ row.gen = saAct[i].row.gen + 1 /\ row.observed = saRow.observed
        /\ saLost' = (saLost \/ saAct[i].row.gen + 1 <= saRow.gen)

LEMMA SaWriting ==
    ASSUME SaShapes, SaNumbered, NEW i \in SaRequests, WriteDesired(i)
    PROVE  \/ \E ok \in BOOLEAN : SaResult(i, ok) /\ UNCHANGED <<saRow, saLost>>
           \/ saRow # None /\ SaWrites(i)
<1> DEFINE gen == saAct[i].row.gen + 1
<1>1. PICK a \in SaActRecord : a = saAct[i]
  BY DEF SaShapes
<1>2. a.pc = "write" /\ a.row \in SaRows /\ a.row.gen \in 1 .. i /\ a.kind # None
  BY <1>1, SaNones DEF WriteDesired, SaNumbered, SaPlace, SaActRecord, SaRows, SaGens
<1>3. gen \in SaGens
  BY <1>1, <1>2, SaAssumption DEF SaGens, SaRequests
<1>4. CASE saRow = None
  BY <1>4 DEF WriteDesired
<1>5. CASE saRow # None /\ saAct[i].kind = "php" /\ saRow.definition.php = saAct[i].php
  BY <1>5 DEF WriteDesired
<1>6. CASE saRow # None /\ ~(saAct[i].kind = "php" /\ saRow.definition.php = saAct[i].php)
  <2>1. PICK r \in SaRows : r = saRow
    BY <1>6 DEF SaShapes
  <2>2. Changed(i) \in SaDefinition
    <3>1. PICK d \in SaDefinition : d = saRow.definition
      BY <2>1 DEF SaRows
    <3>2. a.kind = "php" => a.php \in SaPhp
      BY <1>1, <1>2 DEF SaNumbered, SaPlace
    <3>3. PICK salts \in 0 .. SaMaxOps : salts = IF a.kind = "salts" THEN i ELSE d.salts
      BY <3>1, SaAssumption DEF SaDefinition, SaRequests
    <3>4. PICK php \in SaPhp : php = IF a.kind = "php" THEN a.php ELSE d.php
      BY <3>1, <3>2 DEF SaDefinition
    <3>5. Changed(i) = [d EXCEPT !.salts = salts, !.php = php]
      BY <1>1, <3>1, <3>3, <3>4 DEF Changed, SaDefinition
    <3> QED
      BY <3>1, <3>3, <3>4, <3>5 DEF SaDefinition
  <2>3. PICK c \in SaDefinition : c = Changed(i)
    BY <2>2
  <2>4. PICK status \in {"ready", "degraded", "deleting"} :
            status = IF saAct[i].kind = "delete" THEN "deleting" ELSE r.status
    BY <2>1 DEF SaRows
  <2> DEFINE row == [r EXCEPT !.gen = gen, !.definition = c, !.status = status]
  <2> DEFINE read == [a.row EXCEPT !.gen = gen]
  <2> DEFINE act == [a EXCEPT !.pc = "answer", !.ok = TRUE, !.row = read]
  <2>5. row \in SaRows /\ row.gen = gen /\ row.observed = r.observed
    BY <1>3, <2>1 DEF SaRows
  <2>6. read \in SaRows /\ read.gen = gen /\ read.observed = a.row.observed
    BY <1>2, <1>3 DEF SaRows
  <2>7. /\ act \in SaActRecord /\ act.pc = "answer" /\ act.ok /\ act.row = read
        /\ act.kind = a.kind /\ act.php = a.php
    BY <2>6 DEF SaActRecord, SaPcs
  <2>8. saRow' = row
    BY <1>6, <2>1, <2>3, <2>4 DEF WriteDesired
  <2>9. saAct' = [saAct EXCEPT ![i] = act]
    <3>1. saAct' = [saAct EXCEPT ![i].pc = "answer", ![i].ok = TRUE, ![i].row.gen = gen]
      BY <1>6 DEF WriteDesired
    <3>2. saAct \in [SaRequests -> SaActRecord]
      BY DEF SaShapes
    <3> QED
      BY <1>1, <3>1, <3>2
  <2>10. saLost' = (saLost \/ gen <= saRow.gen)
    BY <1>6 DEF WriteDesired
  <2> QED
    BY <1>1, <1>6, <2>1, <2>5, <2>6, <2>7, <2>8, <2>9, <2>10 DEF SaWrites
<1> QED
  BY <1>4, <1>5, <1>6

\* What a handler does to its own record, one of these things.
SaOwn(i) ==
    \/ \E kind \in SaKinds, php \in SaPhp \cup {None} :
          BeginAction(i, kind, php) /\ (kind = "php" => php \in SaPhp)
    \/ AskInstalled(i) \/ AskFails(i) \/ RunInstall(i)
    \/ UpdateFiles(i) \/ UpdateDatabase(i) \/ CommandFails(i)
    \/ WriteDesired(i) \/ AnswerAction(i) \/ ReapAction(i)

LEMMA SaCases ==
    ASSUME SaNext
    PROVE  (\E i \in SaRequests : SaOwn(i)) \/ BeginCycle \/ EndCycle \/ CycleFails \/ SaCrash
  BY DEF SaNext, SaOwn, SaKinds

LEMMA SaInstalledType ==
    ASSUME SaShapes, NEW i \in SaRequests
    PROVE  Installed(i) \in SaWordPress
  BY SaAssumption DEF SaShapes, SaWordPress, Installed, SaRequests

LEMMA SaOwnShapes ==
    ASSUME SaShapes, SaNumbered, NEW i \in SaRequests, SaOwn(i)
    PROVE  SaShapes'
<1>1. ASSUME NEW kind \in SaKinds, NEW php \in SaPhp \cup {None}, BeginAction(i, kind, php),
             kind = "php" => php \in SaPhp
      PROVE  SaShapes'
  <2>1. PICK act \in SaActRecord : saAct' = [saAct EXCEPT ![i] = act]
    BY <1>1, SaBegins
  <2>2. PICK op \in {None, "running"} : saOp' = [saOp EXCEPT ![i] = op]
    BY <1>1 DEF BeginAction
  <2> QED
    BY <1>1, <2>1, <2>2 DEF SaShapes, BeginAction, saHistory
<1>2. CASE AskInstalled(i)
  <2>1. \/ SaResult(i, FALSE) /\ saRaced' = saRaced
        \/ SaGoto(i, "install") /\ saRaced' \in {saRaced, saRaced \cup Installing \cup {i}}
    BY <1>2 DEF AskInstalled
  <2>2. saAct' \in [SaRequests -> SaActRecord]
    BY <2>1, SaGoes, SaResults DEF SaPcs
  <2>3. saRaced' \subseteq SaRequests
    BY <2>1 DEF SaShapes, Installing
  <2> QED
    BY <1>2, <2>2, <2>3 DEF SaShapes, AskInstalled
<1>3. CASE AskFails(i)
  <2>1. SaGoto(i, "install") /\ saRaced' = saRaced \cup Installing \cup {i}
    BY <1>3 DEF AskFails
  <2>2. saAct' \in [SaRequests -> SaActRecord]
    BY <2>1, SaGoes, SaResults DEF SaPcs
  <2>3. saRaced' \subseteq SaRequests
    BY <2>1 DEF SaShapes, Installing
  <2> QED
    BY <1>3, <2>2, <2>3 DEF SaShapes, AskFails
<1>4. CASE RunInstall(i)
  <2>1. saAct' \in [SaRequests -> SaActRecord]
    BY <1>4, SaGoes, SaResults DEF RunInstall
  <2>2. saWp' \in SaWordPress
    BY <1>4, SaInstalledType DEF RunInstall
  <2> QED
    BY <1>4, <2>1, <2>2 DEF SaShapes, RunInstall, saHistory
<1>5. CASE UpdateFiles(i)
  <2>1. saAct' \in [SaRequests -> SaActRecord]
    BY <1>5, SaGoes, SaResults DEF UpdateFiles, SaPcs
  <2>2. saWp' \in SaWordPress
    BY <1>5 DEF UpdateFiles, SaShapes, SaWordPress
  <2> QED
    BY <1>5, <2>1, <2>2 DEF SaShapes, UpdateFiles, saHistory
<1>6. CASE UpdateDatabase(i)
  <2>1. saAct' \in [SaRequests -> SaActRecord]
    BY <1>6, SaGoes, SaResults DEF UpdateDatabase
  <2>2. saWp' \in SaWordPress
    BY <1>6 DEF UpdateDatabase, SaShapes, SaWordPress
  <2> QED
    BY <1>6, <2>1, <2>2 DEF SaShapes, UpdateDatabase, saHistory
<1>7. CASE CommandFails(i)
  <2>1. saAct' \in [SaRequests -> SaActRecord]
    BY <1>7, SaGoes, SaResults DEF CommandFails
  <2>2. saWp' \in {saWp, Installed(i)}
    BY <1>7 DEF CommandFails
  <2>3. saWp' \in SaWordPress
    BY <2>2, SaInstalledType DEF SaShapes
  <2> QED
    BY <1>7, <2>1, <2>3 DEF SaShapes, CommandFails, saHistory
<1>8. CASE WriteDesired(i)
  <2>1. saAct' \in [SaRequests -> SaActRecord]
    BY <1>8, SaWriting, SaResults DEF SaShapes, SaWrites
  <2>2. saRow' \in SaRows \cup {None} /\ saLost' \in BOOLEAN
    BY <1>8, SaWriting DEF SaWrites, SaShapes
  <2> QED
    BY <1>8, <2>1, <2>2 DEF SaShapes, WriteDesired
<1>9. CASE AnswerAction(i)
  <2>1. SaEnded(saAct[i]) \in SaActRecord
    BY SaRecords DEF SaShapes, SaPcs
  <2>2. saAct' = [saAct EXCEPT ![i] = SaEnded(saAct[i])]
    BY <1>9 DEF AnswerAction, SaShapes
  <2>3. saAct' \in [SaRequests -> SaActRecord]
    BY <2>1, <2>2 DEF SaShapes
  <2>4. PICK op \in {None, "failed", "succeeded"} : saOp' = [saOp EXCEPT ![i] = op]
    BY <1>9 DEF AnswerAction
  <2>5. saWoken' \in BOOLEAN
    BY <1>9 DEF AnswerAction
  <2> QED
    BY <1>9, <2>3, <2>4, <2>5 DEF SaShapes, AnswerAction, saHistory
<1>10. CASE ReapAction(i)
  BY <1>10 DEF SaShapes, ReapAction, saHistory
<1> QED
  BY <1>1, <1>2, <1>3, <1>4, <1>5, <1>6, <1>7, <1>8, <1>9, <1>10 DEF SaOwn

LEMMA SaRowSettled ==
    ASSUME SaShapes, saRow # None
    PROVE  /\ [saRow EXCEPT !.status = "degraded"] \in SaRows
           /\ [saRow EXCEPT !.status = "ready", !.observed = saRow.gen] \in SaRows
  BY DEF SaShapes, SaRows

LEMMA SaCycleShapes ==
    ASSUME SaShapes, BeginCycle \/ EndCycle \/ CycleFails \/ SaCrash
    PROVE  SaShapes'
<1>1. CASE BeginCycle
  <2>1. saCycle' \in SaDefinition \cup {None}
    BY <1>1 DEF BeginCycle, SaShapes, SaRows
  <2> QED
    BY <1>1, <2>1 DEF SaShapes, BeginCycle, saHistory
<1>2. CASE EndCycle
  <2>1. saRow' \in SaRows \cup {None}
    BY <1>2, SaRowSettled DEF EndCycle
  <2> QED
    BY <1>2, <2>1 DEF SaShapes, EndCycle
<1>3. CASE CycleFails
  <2>1. saRow' \in SaRows \cup {None}
    BY <1>3, SaRowSettled DEF CycleFails
  <2> QED
    BY <1>3, <2>1 DEF SaShapes, CycleFails
<1>4. CASE SaCrash
  <2>1. \A j \in SaRequests : SaEnded(saAct[j]) \in SaActRecord
    BY SaRecords DEF SaShapes, SaPcs
  <2> QED
    BY <1>4, <2>1 DEF SaShapes, SaCrash, saHistory
<1> QED
  BY <1>1, <1>2, <1>3, <1>4

-----------------------------------------------------------------------------
LEMMA SaNumberedStep ==
    ASSUME SaShapes, SaNumbered, NEW i \in SaRequests, NEW act \in SaActRecord,
           saAct' = [saAct EXCEPT ![i] = act], act.kind # None, SaPlace(act),
           act.pc = "write" => act.row.gen <= i,
           saAct[i].kind = None => \A h \in 1 .. i - 1 : saAct[h].kind # None,
           \A j \in SaRequests : j # i => saOp'[j] = saOp[j],
           saRow' # None => \A j \in SaRequests : j # i /\ saAct[j].kind = None => saRow'.gen <= j
    PROVE  SaNumbered'
<1> SUFFICES ASSUME NEW j \in SaRequests
             PROVE  /\ SaPlace(saAct'[j])
                    /\ saAct'[j].kind = None => saOp'[j] = None /\ saAct'[j].pc = "off"
                    /\ saAct'[j].kind = None => \A k \in j .. SaMaxOps : saAct'[k].kind = None
                    /\ saAct'[j].kind = None /\ saRow' # None => saRow'.gen <= j
                    /\ saAct'[j].pc = "write" => saAct'[j].row.gen <= j
  BY DEF SaNumbered, SaPlace
<1>1. saAct'[i] = act /\ \A k \in SaRequests : k # i => saAct'[k] = saAct[k]
  BY DEF SaShapes
<1>2. CASE j = i
  BY <1>1, <1>2
<1>3. CASE j # i
  <2>1. saAct'[j] = saAct[j]
    BY <1>1, <1>3
  <2>2. ASSUME saAct[j].kind = None, NEW k \in j .. SaMaxOps
        PROVE  saAct'[k].kind = None
    <3>1. k \in SaRequests /\ saAct[k].kind = None
      BY <2>2, SaAssumption DEF SaNumbered, SaRequests
    <3>2. k # i
      <4>1. SUFFICES ASSUME k = i PROVE FALSE
        OBVIOUS
      <4>2. j \in 1 .. i - 1
        BY <4>1, <1>3, <2>2, SaAssumption DEF SaRequests
      <4> QED
        BY <3>1, <4>1, <4>2, <2>2
    <3> QED
      BY <3>1, <3>2, <1>1
  <2> QED
    BY <1>3, <2>1, <2>2 DEF SaNumbered
<1> QED
  BY <1>2, <1>3

LEMMA SaStepsNumbered ==
    ASSUME SaShapes, SaNumbered, NEW i \in SaRequests, NEW pc \in SaPcs, SaSteps(i, pc),
           saAct[i].pc # "off", UNCHANGED <<saRow, saOp>>,
           pc = "install" => saAct[i].kind = "install", pc = "migrate" => saAct[i].kind = "update",
           pc \in {"install", "migrate", "answer"}
    PROVE  SaNumbered'
<1>1. PICK act \in SaActRecord :
          /\ saAct' = [saAct EXCEPT ![i] = act] /\ act.pc = pc
          /\ act.kind = saAct[i].kind /\ act.row = saAct[i].row /\ act.php = saAct[i].php
  BY DEF SaSteps
<1>2. act.kind # None /\ SaPlace(act)
  BY <1>1 DEF SaNumbered, SaPlace
<1>3. \A j \in SaRequests : saAct[j].kind = None /\ saRow # None => saRow.gen <= j
  BY DEF SaNumbered
<1> QED
  BY <1>1, <1>2, <1>3, SaNumberedStep

LEMMA SaEndsNumbered ==
    ASSUME SaShapes, SaNumbered, NEW i \in SaRequests, NEW ok \in BOOLEAN, SaEnds(i, ok),
           saAct[i].pc # "off", UNCHANGED <<saRow, saOp>>
    PROVE  SaNumbered'
<1>1. SaSteps(i, "answer")
  BY DEF SaEnds, SaSteps
<1> QED
  BY <1>1, SaStepsNumbered DEF SaPcs

LEMMA SaOwnNumbered ==
    ASSUME SaShapes, SaNumbered, NEW i \in SaRequests, SaOwn(i)
    PROVE  SaNumbered'
<1>0. \A j \in SaRequests : saAct[j].kind = None /\ saRow # None => saRow.gen <= j
  BY DEF SaNumbered
<1>1. ASSUME NEW kind \in SaKinds, NEW php \in SaPhp \cup {None}, BeginAction(i, kind, php),
             kind = "php" => php \in SaPhp
      PROVE  SaNumbered'
  <2>1. PICK act \in SaActRecord :
            /\ saAct' = [saAct EXCEPT ![i] = act]
            /\ act.kind = kind /\ act.pc = FirstStep(kind) /\ act.row = saRow /\ act.php = php
    BY <1>1, SaBegins
  <2>2. act.kind # None
    BY <2>1, SaNones
  <2>3. SaPlace(act)
    BY <1>1, <2>1, <2>2 DEF SaPlace, FirstStep, SaKinds, BeginAction
  <2>4. act.pc = "write" => act.row.gen <= i
    BY <1>0, <1>1, <2>1 DEF BeginAction
  <2>5. saRow' = saRow /\ (\A h \in 1 .. i - 1 : saAct[h].kind # None)
    BY <1>1 DEF BeginAction
  <2>6. \A j \in SaRequests : j # i => saOp'[j] = saOp[j]
    BY <1>1 DEF BeginAction, SaShapes
  <2> QED
    BY <1>0, <2>1, <2>2, <2>3, <2>4, <2>5, <2>6, SaNumberedStep
<1>2. CASE AskInstalled(i)
  <2>1. SaResult(i, FALSE) \/ SaGoto(i, "install")
    BY <1>2 DEF AskInstalled
  <2>2. SaEnds(i, FALSE) \/ SaSteps(i, "install")
    BY <2>1, SaGoes, SaResults DEF SaPcs
  <2>3. saAct[i].kind = "install" /\ saAct[i].pc # "off" /\ UNCHANGED <<saRow, saOp>>
    BY <1>2 DEF AskInstalled, SaNumbered, SaPlace
  <2> QED
    BY <2>2, <2>3, SaStepsNumbered, SaEndsNumbered DEF SaPcs
<1>3. CASE AskFails(i)
  <2>1. SaSteps(i, "install")
    BY <1>3, SaGoes DEF AskFails, SaPcs
  <2>2. saAct[i].kind = "install" /\ saAct[i].pc # "off" /\ UNCHANGED <<saRow, saOp>>
    BY <1>3 DEF AskFails, SaNumbered, SaPlace
  <2> QED
    BY <2>1, <2>2, SaStepsNumbered DEF SaPcs
<1>4. CASE RunInstall(i)
  <2>1. SaEnds(i, TRUE)
    BY <1>4, SaResults DEF RunInstall
  <2>2. saAct[i].pc # "off" /\ UNCHANGED <<saRow, saOp>>
    BY <1>4 DEF RunInstall
  <2> QED
    BY <2>1, <2>2, SaEndsNumbered
<1>5. CASE UpdateFiles(i)
  <2>1. SaSteps(i, "migrate")
    BY <1>5, SaGoes DEF UpdateFiles, SaPcs
  <2>2. saAct[i].kind = "update" /\ saAct[i].pc # "off" /\ UNCHANGED <<saRow, saOp>>
    BY <1>5 DEF UpdateFiles, SaNumbered, SaPlace
  <2> QED
    BY <2>1, <2>2, SaStepsNumbered DEF SaPcs
<1>6. CASE UpdateDatabase(i)
  <2>1. SaEnds(i, TRUE)
    BY <1>6, SaResults DEF UpdateDatabase
  <2>2. saAct[i].pc # "off" /\ UNCHANGED <<saRow, saOp>>
    BY <1>6 DEF UpdateDatabase
  <2> QED
    BY <2>1, <2>2, SaEndsNumbered
<1>7. CASE CommandFails(i)
  <2>1. SaEnds(i, FALSE)
    BY <1>7, SaResults DEF CommandFails
  <2>2. saAct[i].pc # "off" /\ UNCHANGED <<saRow, saOp>>
    BY <1>7 DEF CommandFails
  <2> QED
    BY <2>1, <2>2, SaEndsNumbered
<1>8. CASE WriteDesired(i)
  <2>1. saAct[i].pc = "write" /\ UNCHANGED saOp
    BY <1>8 DEF WriteDesired
  <2>2. CASE \E ok \in BOOLEAN : SaResult(i, ok) /\ UNCHANGED <<saRow, saLost>>
    BY <2>1, <2>2, SaResults, SaEndsNumbered
  <2>3. CASE saRow # None /\ SaWrites(i)
    <3>1. PICK row \in SaRows, act \in SaActRecord :
              /\ saRow' = row /\ saAct' = [saAct EXCEPT ![i] = act]
              /\ act.kind = saAct[i].kind /\ act.pc = "answer" /\ act.php = saAct[i].php
              /\ act.row \in SaRows /\ row.gen = saAct[i].row.gen + 1
      BY <2>3 DEF SaWrites
    <3>2. act.kind # None /\ SaPlace(act)
      BY <2>1, <3>1, SaNones DEF SaNumbered, SaPlace
    <3>3. saAct[i].kind # None
      BY <3>1, <3>2
    <3>4. ASSUME NEW j \in SaRequests, saAct[j].kind = None
          PROVE  row.gen <= j
      <4>1. ~(i \in j .. SaMaxOps)
        BY <3>3, <3>4 DEF SaNumbered
      <4>2. saAct[i].row.gen <= i
        BY <2>1 DEF SaNumbered
      <4>3. saAct[i].row \in SaRows
        BY <2>1 DEF SaShapes, SaActRecord, SaNumbered, SaPlace
      <4>4. saAct[i].row.gen \in Nat
        BY <4>3, SaAssumption DEF SaRows, SaGens
      <4> QED
        BY <4>1, <4>2, <4>4, <3>1, SaAssumption DEF SaRequests
    <3> QED
      BY <2>1, <3>1, <3>2, <3>3, <3>4, SaNumberedStep
  <2> QED
    BY <1>8, <2>2, <2>3, SaWriting
<1>9. CASE AnswerAction(i)
  <2>1. PICK act \in SaActRecord : act = SaEnded(saAct[i]) /\ act.kind = saAct[i].kind /\ act.pc = "off"
    BY SaRecords DEF SaShapes, SaPcs
  <2>2. saAct' = [saAct EXCEPT ![i] = act]
    BY <1>9, <2>1 DEF AnswerAction, SaShapes
  <2>3. act.kind # None /\ SaPlace(act)
    BY <1>9, <2>1 DEF SaNumbered, SaPlace, AnswerAction
  <2>4. saRow' = saRow /\ \A j \in SaRequests : j # i => saOp'[j] = saOp[j]
    BY <1>9 DEF AnswerAction, SaShapes
  <2>5. saAct[i].kind # None
    BY <2>1, <2>3
  <2> QED
    BY <1>0, <2>1, <2>2, <2>3, <2>4, <2>5, SaNumberedStep
<1>10. CASE ReapAction(i)
  <2>1. saAct[i].kind # None
    BY <1>10, SaNones DEF ReapAction, SaNumbered
  <2>2. \A j \in SaRequests : j # i => saOp'[j] = saOp[j]
    BY <1>10 DEF ReapAction, SaShapes
  <2> QED
    BY <1>10, <2>1, <2>2 DEF ReapAction, SaNumbered, SaPlace
<1> QED
  BY <1>1, <1>2, <1>3, <1>4, <1>5, <1>6, <1>7, <1>8, <1>9, <1>10 DEF SaOwn

LEMMA SaCycleNumbered ==
    ASSUME SaShapes, SaNumbered, BeginCycle \/ EndCycle \/ CycleFails \/ SaCrash
    PROVE  SaNumbered'
<1>1. CASE BeginCycle
  BY <1>1 DEF BeginCycle, SaNumbered, SaPlace
<1>2. CASE EndCycle \/ CycleFails
  <2>1. saRow' # None => saRow # None /\ saRow'.gen = saRow.gen
    BY <1>2 DEF EndCycle, CycleFails, SaShapes, SaRows
  <2>2. UNCHANGED <<saAct, saOp>>
    BY <1>2 DEF EndCycle, CycleFails
  <2> QED
    BY <2>1, <2>2 DEF SaNumbered, SaPlace
<1>3. CASE SaCrash
  <2>1. \A j \in SaRequests : saAct'[j].kind = saAct[j].kind /\ saAct'[j].pc = "off"
    BY <1>3, SaRecords DEF SaCrash, SaShapes, SaPcs
  <2>2. UNCHANGED <<saRow, saOp>>
    BY <1>3 DEF SaCrash
  <2>3. \A j \in SaRequests : \A k \in j .. SaMaxOps : k \in SaRequests
    BY SaAssumption DEF SaRequests
  <2> QED
    BY <2>1, <2>2, <2>3 DEF SaNumbered, SaPlace
<1> QED
  BY <1>1, <1>2, <1>3

-----------------------------------------------------------------------------
(* Installations and updates.                                              *)

\* Handlers keep their kinds, and an operation succeeds by an answer only.
SaFresh(i) ==
    \A j \in SaRequests :
        \/ j = i /\ saAct[j].kind = None /\ saOp'[j] # "succeeded"
           /\ saAct'[j].pc \in {"ask", "files", "write"}
        \/ /\ saAct'[j].kind = saAct[j].kind
           /\ saOp'[j] = "succeeded" =>
                saOp[j] = "succeeded" \/ (saAct[j].pc = "answer" /\ saAct[j].ok)

LEMMA SaOwnFresh ==
    ASSUME SaShapes, SaNumbered, NEW i \in SaRequests, SaOwn(i)
    PROVE  SaFresh(i) /\ \A j \in SaRequests : j # i => saAct'[j] = saAct[j]
<1>1. ASSUME NEW kind \in SaKinds, NEW php \in SaPhp \cup {None}, BeginAction(i, kind, php),
             kind = "php" => php \in SaPhp
      PROVE  SaFresh(i) /\ \A j \in SaRequests : j # i => saAct'[j] = saAct[j]
  <2>1. PICK act \in SaActRecord : /\ saAct' = [saAct EXCEPT ![i] = act]
                                   /\ act.pc = FirstStep(kind)
    BY <1>1, SaBegins
  <2>2. PICK op \in {"running", None} : saOp' = [saOp EXCEPT ![i] = op] /\ (op # "running" => op = None)
    BY <1>1 DEF BeginAction
  <2>3. FirstStep(kind) \in {"ask", "files", "write"}
    BY DEF FirstStep
  <2>4. saAct[i].kind = None /\ op # "succeeded"
    BY <1>1, <2>2, SaNones DEF BeginAction
  <2> QED
    BY <2>1, <2>2, <2>3, <2>4 DEF SaFresh, SaShapes
<1>2. CASE (\E pc \in SaPcs : SaGoto(i, pc)) /\ UNCHANGED saOp
  <2>1. PICK pc \in SaPcs : SaSteps(i, pc)
    BY <1>2, SaGoes
  <2> QED
    BY <1>2, <2>1 DEF SaSteps, SaFresh, SaShapes
<1>3. CASE (\E ok \in BOOLEAN : SaResult(i, ok)) /\ UNCHANGED saOp
  <2>1. PICK ok \in BOOLEAN : SaEnds(i, ok)
    BY <1>3, SaResults
  <2> QED
    BY <1>3, <2>1 DEF SaEnds, SaFresh, SaShapes
<1>4. CASE SaWrites(i) /\ UNCHANGED saOp
  BY <1>4 DEF SaWrites, SaFresh, SaShapes
<1>5. CASE AnswerAction(i)
  <2>1. PICK act \in SaActRecord : act = SaEnded(saAct[i]) /\ act.kind = saAct[i].kind
    BY SaRecords DEF SaShapes, SaPcs
  <2>2. saAct' = [saAct EXCEPT ![i] = act]
    BY <1>5, <2>1 DEF AnswerAction, SaShapes
  <2>3. PICK op \in {None, "failed", "succeeded"} :
            saOp' = [saOp EXCEPT ![i] = op] /\ (op = "succeeded" => saAct[i].ok \/ op = None)
    BY <1>5 DEF AnswerAction
  <2>4. op # "succeeded" \/ saAct[i].ok
    BY <2>3, SaNones
  <2>5. saAct[i].pc = "answer"
    BY <1>5 DEF AnswerAction
  <2> QED
    BY <2>1, <2>2, <2>3, <2>4, <2>5 DEF SaFresh, SaShapes
<1>6. CASE ReapAction(i)
  BY <1>6 DEF ReapAction, SaFresh, SaShapes
<1>7. CASE WriteDesired(i)
  <2>1. UNCHANGED saOp
    BY <1>7 DEF WriteDesired
  <2> QED
    BY <1>3, <1>4, <1>7, <2>1, SaWriting
<1>8. CASE AskInstalled(i) \/ AskFails(i) \/ RunInstall(i) \/ UpdateFiles(i) \/ UpdateDatabase(i)
           \/ CommandFails(i)
  <2>1. UNCHANGED saOp
    BY <1>8 DEF AskInstalled, AskFails, RunInstall, UpdateFiles, UpdateDatabase, CommandFails
  <2>2. (\E pc \in SaPcs : SaGoto(i, pc)) \/ (\E ok \in BOOLEAN : SaResult(i, ok))
    <3>1. "install" \in SaPcs /\ "migrate" \in SaPcs /\ TRUE \in BOOLEAN /\ FALSE \in BOOLEAN
      BY DEF SaPcs
    <3> QED
      BY <1>8, <3>1 DEF AskInstalled, AskFails, RunInstall, UpdateFiles, UpdateDatabase, CommandFails
  <2> QED
    BY <1>2, <1>3, <2>1, <2>2
<1> QED
  BY <1>1, <1>5, <1>6, <1>7, <1>8 DEF SaOwn

LEMMA SaOwnUpdates ==
    ASSUME SaShapes, SaNumbered, SaUpdates, NEW i \in SaRequests, SaOwn(i)
    PROVE  SaUpdates'
<1>1. /\ saWp.files => saWp'.files
      /\ saWp.files /\ saWp.database => saWp'.database
  BY DEF SaOwn, SaShapes, SaWordPress, BeginAction, AskInstalled, AskFails, RunInstall, UpdateFiles,
         UpdateDatabase, CommandFails, WriteDesired, AnswerAction, ReapAction, Installed
<1>2. SaFresh(i) /\ \A j \in SaRequests : j # i => saAct'[j] = saAct[j]
  BY SaOwnFresh
<1>3. ASSUME saAct'[i].kind = "update", saAct'[i].pc = "migrate"
      PROVE  saWp'.files
  <2>1. CASE UpdateFiles(i)
    BY <2>1 DEF UpdateFiles, SaShapes, SaWordPress
  <2>2. CASE ReapAction(i)
    BY <2>2, <1>1, <1>3 DEF ReapAction, SaUpdates
  <2>3. ASSUME SaEnds(i, TRUE) \/ SaEnds(i, FALSE) \/ SaSteps(i, "install") \/ SaWrites(i)
        PROVE  FALSE
    BY <1>3, <2>3 DEF SaEnds, SaSteps, SaWrites, SaShapes
  <2>4. CASE AskInstalled(i)
    BY <2>3, <2>4, SaGoes, SaResults DEF AskInstalled, SaPcs
  <2>5. CASE AskFails(i)
    BY <2>3, <2>5, SaGoes DEF AskFails, SaPcs
  <2>6. CASE RunInstall(i)
    BY <2>3, <2>6, SaResults DEF RunInstall
  <2>7. CASE UpdateDatabase(i)
    BY <2>3, <2>7, SaResults DEF UpdateDatabase
  <2>8. CASE CommandFails(i)
    BY <2>3, <2>8, SaResults DEF CommandFails
  <2>9. CASE WriteDesired(i)
    <3>1. SaWrites(i) \/ \E ok \in BOOLEAN : SaResult(i, ok)
      BY <2>9, SaWriting
    <3> QED
      BY <2>3, <3>1, SaResults
  <2>10. CASE AnswerAction(i)
    <3>1. saAct'[i].pc = "off"
      BY <2>10, SaRecords DEF AnswerAction, SaShapes, SaPcs
    <3> QED
      BY <1>3, <3>1
  <2>11. CASE saAct[i].kind = None
    BY <1>2, <1>3, <2>11, SaNones DEF SaFresh, SaKinds
  <2> QED
    BY <2>1, <2>2, <2>4, <2>5, <2>6, <2>7, <2>8, <2>9, <2>10, <2>11 DEF SaOwn, BeginAction
<1>4. ASSUME saAct'[i].kind = "update", saAct'[i].pc = "answer", saAct'[i].ok
      PROVE  saWp'.files /\ saWp'.database
  <2>1. CASE UpdateDatabase(i)
    <3>1. saWp.files
      BY <2>1 DEF UpdateDatabase, SaNumbered, SaPlace, SaUpdates
    <3> QED
      BY <2>1, <3>1 DEF UpdateDatabase, SaShapes, SaWordPress
  <2>2. CASE ReapAction(i)
    BY <2>2, <1>1, <1>4 DEF ReapAction, SaUpdates
  <2>3. ASSUME SaEnds(i, FALSE) \/ SaSteps(i, "install") \/ SaSteps(i, "migrate") PROVE FALSE
    BY <1>4, <2>3 DEF SaEnds, SaSteps, SaShapes
  <2>4. CASE AskInstalled(i)
    BY <2>3, <2>4, SaGoes, SaResults DEF AskInstalled, SaPcs
  <2>5. CASE AskFails(i)
    BY <2>3, <2>5, SaGoes DEF AskFails, SaPcs
  <2>6. CASE UpdateFiles(i)
    BY <2>3, <2>6, SaGoes DEF UpdateFiles, SaPcs
  <2>7. CASE CommandFails(i)
    BY <2>3, <2>7, SaResults DEF CommandFails
  <2>8. CASE RunInstall(i) \/ WriteDesired(i)
    <3>1. saAct'[i].kind = saAct[i].kind \/ saAct[i].kind = None
      BY <1>2 DEF SaFresh
    <3>2. saAct[i].kind # "update" /\ saAct[i].kind # None
      BY <2>8, SaNones DEF RunInstall, WriteDesired, SaNumbered, SaPlace
    <3> QED
      BY <1>4, <3>1, <3>2
  <2>9. CASE AnswerAction(i)
    <3>1. saAct'[i].pc = "off"
      BY <2>9, SaRecords DEF AnswerAction, SaShapes, SaPcs
    <3> QED
      BY <1>4, <3>1
  <2>10. CASE saAct[i].kind = None
    BY <1>2, <1>4, <2>10, SaNones DEF SaFresh, SaKinds
  <2> QED
    BY <2>1, <2>2, <2>4, <2>5, <2>6, <2>7, <2>8, <2>9, <2>10 DEF SaOwn, BeginAction
<1>5. ASSUME NEW j \in SaRequests, saAct'[j].kind = "update", saOp'[j] = "succeeded"
      PROVE  saWp'.files /\ saWp'.database
  <2>1. saAct[j].kind = "update" /\ (saOp[j] = "succeeded" \/ (saAct[j].pc = "answer" /\ saAct[j].ok))
    BY <1>2, <1>5 DEF SaFresh
  <2> QED
    BY <1>1, <2>1 DEF SaUpdates
<1>6. ASSUME NEW j \in SaRequests, j # i, saAct'[j].kind = "update"
      PROVE  /\ saAct'[j].pc = "migrate" => saWp'.files
             /\ saAct'[j].pc = "answer" /\ saAct'[j].ok => saWp'.files /\ saWp'.database
  BY <1>1, <1>2, <1>6 DEF SaUpdates
<1> QED
  BY <1>3, <1>4, <1>5, <1>6 DEF SaUpdates

\* A password is set once, by a handler that ends thereby.
LEMMA SaOwnPassword ==
    ASSUME SaShapes, NEW i \in SaRequests, SaOwn(i)
    PROVE  \/ saWp'.password = saWp.password
           \/ /\ saWp.password = 0 /\ saWp'.password = i
              /\ saAct[i].pc = "install" /\ saAct'[i].pc = "answer"
<1>1. CASE RunInstall(i)
  <2>1. SaEnds(i, TRUE)
    BY <1>1, SaResults DEF RunInstall
  <2>2. saAct'[i].pc = "answer"
    BY <2>1 DEF SaEnds, SaShapes
  <2> QED
    BY <1>1, <2>2 DEF RunInstall, Installed, SaShapes, SaWordPress
<1>2. CASE CommandFails(i)
  <2>1. SaEnds(i, FALSE)
    BY <1>2, SaResults DEF CommandFails
  <2>2. saAct'[i].pc = "answer"
    BY <2>1 DEF SaEnds, SaShapes
  <2> QED
    BY <1>2, <2>2 DEF CommandFails, Installed, SaShapes, SaWordPress
<1>3. CASE UpdateFiles(i) \/ UpdateDatabase(i)
  BY <1>3 DEF UpdateFiles, UpdateDatabase, SaShapes, SaWordPress
<1>4. CASE ~(RunInstall(i) \/ CommandFails(i) \/ UpdateFiles(i) \/ UpdateDatabase(i))
  BY <1>4 DEF SaOwn, BeginAction, AskInstalled, AskFails, WriteDesired, AnswerAction, ReapAction
<1> QED
  BY <1>1, <1>2, <1>3, <1>4

\* Whoever begins to install, alone or with others, has seen who does.
LEMMA SaOwnInstalling ==
    ASSUME SaShapes, SaNumbered, NEW i \in SaRequests, SaOwn(i)
    PROVE  /\ saRaced \subseteq saRaced'
           /\ \/ Installing' \subseteq Installing
              \/ Installing = {} /\ Installing' = {i} /\ saWp.password = 0 /\ saWp'.password = 0
              \/ Installing' \subseteq saRaced'
<1>1. CASE AskInstalled(i) \/ AskFails(i)
  <2>1. CASE SaEnds(i, FALSE)
    <3>1. Installing' \subseteq Installing
      BY <2>1 DEF SaEnds, Installing, SaShapes
    <3>2. saRaced \subseteq saRaced'
      BY <1>1 DEF AskInstalled, AskFails
    <3> QED
      BY <3>1, <3>2
  <2>2. CASE SaSteps(i, "install")
    <3>1. Installing' = Installing \cup {i}
      BY <2>2 DEF SaSteps, Installing, SaShapes
    <3>2. ~SaResult(i, FALSE)
      <4>1. SUFFICES ASSUME SaResult(i, FALSE) PROVE FALSE
        OBVIOUS
      <4>2. saAct'[i].pc = "answer"
        BY <4>1, SaResults DEF SaEnds, SaShapes
      <4>3. saAct'[i].pc = "install"
        BY <2>2 DEF SaSteps, SaShapes
      <4> QED
        BY <4>2, <4>3
    <3>3. CASE AskFails(i)
      BY <3>1, <3>3 DEF AskFails
    <3>4. CASE AskInstalled(i)
      BY <3>1, <3>2, <3>4 DEF AskInstalled
    <3> QED
      BY <1>1, <3>3, <3>4
  <2>3. SaResult(i, FALSE) \/ SaGoto(i, "install")
    BY <1>1 DEF AskInstalled, AskFails
  <2> QED
    BY <2>1, <2>2, <2>3, SaGoes, SaResults DEF SaPcs
<1>2. CASE ~(AskInstalled(i) \/ AskFails(i))
  <2>1. saRaced' = saRaced
    BY <1>2 DEF SaOwn, BeginAction, RunInstall, UpdateFiles, UpdateDatabase, CommandFails,
                WriteDesired, AnswerAction, ReapAction, saHistory
  <2>2. saAct'[i].pc = "install" => saAct[i].pc = "install"
    <3>1. ASSUME SaEnds(i, TRUE) \/ SaEnds(i, FALSE) \/ SaSteps(i, "migrate") \/ SaWrites(i)
          PROVE  saAct'[i].pc # "install"
      BY <3>1 DEF SaEnds, SaSteps, SaWrites, SaShapes
    <3>2. CASE UpdateFiles(i)
      BY <3>1, <3>2, SaGoes DEF UpdateFiles, SaPcs
    <3>3. CASE UpdateDatabase(i)
      BY <3>1, <3>3, SaResults DEF UpdateDatabase
    <3>4. CASE RunInstall(i) \/ CommandFails(i)
      <4>1. SaEnds(i, TRUE) \/ SaEnds(i, FALSE)
        BY <3>4, SaResults DEF RunInstall, CommandFails
      <4> QED
        BY <3>1, <4>1
    <3>5. CASE WriteDesired(i)
      <4>1. SaWrites(i) \/ \E ok \in BOOLEAN : SaResult(i, ok)
        BY <3>5, SaWriting
      <4> QED
        BY <3>1, <4>1, SaResults
    <3>6. CASE AnswerAction(i)
      <4>1. saAct'[i].pc = "off"
        BY <3>6, SaRecords DEF AnswerAction, SaShapes, SaPcs
      <4> QED
        BY <4>1
    <3>7. CASE ReapAction(i)
      BY <3>7 DEF ReapAction
    <3>8. ASSUME NEW kind \in SaKinds, NEW php \in SaPhp \cup {None}, BeginAction(i, kind, php),
                 kind = "php" => php \in SaPhp
          PROVE  saAct'[i].pc # "install"
      <4>1. PICK act \in SaActRecord : saAct' = [saAct EXCEPT ![i] = act] /\ act.pc = FirstStep(kind)
        BY <3>8, SaBegins
      <4> QED
        BY <4>1 DEF FirstStep, SaShapes
    <3> QED
      BY <1>2, <3>2, <3>3, <3>4, <3>5, <3>6, <3>7, <3>8 DEF SaOwn
  <2>3. \A j \in SaRequests : j # i => saAct'[j] = saAct[j]
    BY SaOwnFresh
  <2> QED
    BY <2>1, <2>2, <2>3 DEF Installing
<1> QED
  BY <1>1, <1>2

LEMMA SaOwnAnswers ==
    ASSUME SaShapes, SaNumbered, NEW i \in SaRequests, SaOwn(i), saAct'[i].kind = "install",
           saAct'[i].pc = "answer", saAct'[i].ok
    PROVE  \/ saAct[i].kind = "install" /\ saAct[i].pc = "answer" /\ saAct[i].ok
           \/ /\ saAct[i].kind = "install" /\ saAct[i].pc = "install"
              /\ saWp.password = 0 => saWp'.password = i
<1>1. saAct[i].kind = "install"
  BY SaOwnFresh DEF SaFresh
<1>2. CASE RunInstall(i)
  BY <1>1, <1>2 DEF RunInstall, Installed, SaShapes, SaWordPress
<1>3. CASE ReapAction(i)
  BY <1>1, <1>3 DEF ReapAction
<1>4. ASSUME SaEnds(i, FALSE) \/ SaSteps(i, "install") \/ SaSteps(i, "migrate") PROVE FALSE
  BY <1>4 DEF SaEnds, SaSteps, SaShapes
<1>5. CASE AskInstalled(i)
  BY <1>4, <1>5, SaGoes, SaResults DEF AskInstalled, SaPcs
<1>6. CASE AskFails(i)
  BY <1>4, <1>6, SaGoes DEF AskFails, SaPcs
<1>7. CASE UpdateFiles(i)
  BY <1>4, <1>7, SaGoes DEF UpdateFiles, SaPcs
<1>8. CASE CommandFails(i)
  BY <1>4, <1>8, SaResults DEF CommandFails
<1>9. CASE UpdateDatabase(i) \/ WriteDesired(i)
  BY <1>1, <1>9 DEF UpdateDatabase, WriteDesired, SaNumbered, SaPlace
<1>10. CASE AnswerAction(i)
  <2>1. saAct'[i].pc = "off"
    BY <1>10, SaRecords DEF AnswerAction, SaShapes, SaPcs
  <2> QED
    BY <2>1
<1>11. CASE \E kind \in SaKinds, php \in SaPhp \cup {None} : BeginAction(i, kind, php)
  BY <1>1, <1>11, SaNones DEF BeginAction, SaKinds
<1> QED
  BY <1>2, <1>3, <1>5, <1>6, <1>7, <1>8, <1>9, <1>10, <1>11 DEF SaOwn

LEMMA SaOwnPasswords ==
    ASSUME SaShapes, SaNumbered, SaPasswords, NEW i \in SaRequests, SaOwn(i)
    PROVE  SaPasswords'
<1> SUFFICES ASSUME NEW j \in SaRequests, j \notin saRaced', saAct'[j].kind = "install"
             PROVE  /\ saAct'[j].pc = "install" => Installing' = {j} /\ saWp'.password = 0
                    /\ saAct'[j].pc = "answer" /\ saAct'[j].ok => saWp'.password = j
                    /\ saOp'[j] = "succeeded" => saWp'.password = j
  BY DEF SaPasswords, Installing
<1>1. j \notin saRaced
  BY SaOwnInstalling
<1>2. j \in Nat /\ i \in Nat /\ j # 0 /\ i # 0
  BY DEF SaRequests
<1>3. \A k \in SaRequests : k # i => saAct'[k] = saAct[k]
  BY SaOwnFresh
<1>4. ASSUME saAct'[j].pc = "install"
      PROVE  Installing' = {j} /\ saWp'.password = 0
  <2>1. j \in Installing'
    BY <1>4 DEF Installing
  <2>2. CASE Installing' \subseteq Installing
    <3>1. saAct[j].pc = "install"
      BY <2>1, <2>2 DEF Installing
    <3>2. Installing = {j} /\ saWp.password = 0
      BY <1>1, <3>1 DEF SaPasswords, SaNumbered, SaPlace
    <3>3. saWp'.password = saWp.password
      <4>1. SUFFICES ASSUME saWp'.password # saWp.password PROVE FALSE
        OBVIOUS
      <4>2. saAct[i].pc = "install" /\ saAct'[i].pc = "answer"
        BY <4>1, SaOwnPassword
      <4>3. i = j
        BY <3>2, <4>2 DEF Installing
      <4> QED
        BY <1>4, <4>2, <4>3
    <3> QED
      BY <2>1, <2>2, <3>2, <3>3
  <2> QED
    BY <2>1, <2>2, SaOwnInstalling
<1>5. ASSUME saWp.password = j PROVE saWp'.password = j
  BY <1>2, <1>5, SaOwnPassword
<1>6. ASSUME saAct'[j].pc = "answer", saAct'[j].ok PROVE saWp'.password = j
  <2>1. CASE j # i
    BY <1>1, <1>3, <1>5, <1>6, <2>1 DEF SaPasswords
  <2>2. CASE j = i
    BY <1>1, <1>5, <1>6, <2>2, SaOwnAnswers DEF SaPasswords
  <2> QED
    BY <2>1, <2>2
<1>7. ASSUME saOp'[j] = "succeeded" PROVE saWp'.password = j
  <2>1. /\ saAct[j].kind = "install"
        /\ saOp[j] = "succeeded" \/ (saAct[j].pc = "answer" /\ saAct[j].ok)
    BY <1>7, SaOwnFresh DEF SaFresh
  <2> QED
    BY <1>1, <1>5, <2>1 DEF SaPasswords
<1> QED
  BY <1>4, <1>6, <1>7

LEMMA SaCyclePasswords ==
    ASSUME SaShapes, SaPasswords, SaUpdates, BeginCycle \/ EndCycle \/ CycleFails \/ SaCrash
    PROVE  SaPasswords' /\ SaUpdates'
<1>1. CASE BeginCycle \/ EndCycle \/ CycleFails
  <2>1. UNCHANGED <<saWp, saAct, saOp, saRaced>>
    BY <1>1 DEF BeginCycle, EndCycle, CycleFails, saHistory
  <2> QED
    BY <2>1 DEF SaPasswords, SaUpdates, Installing
<1>2. CASE SaCrash
  <2>1. \A j \in SaRequests : saAct'[j].kind = saAct[j].kind /\ saAct'[j].pc = "off"
    BY <1>2, SaRecords DEF SaCrash, SaShapes, SaPcs
  <2>2. UNCHANGED <<saWp, saOp, saRaced>>
    BY <1>2 DEF SaCrash, saHistory
  <2> QED
    BY <2>1, <2>2 DEF SaPasswords, SaUpdates
<1> QED
  BY <1>1, <1>2

-----------------------------------------------------------------------------
(* Changes are heeded.                                                     *)

\* A handler that does something else keeps what it has read and what it is
\* about to tell.
LEMMA SaOwnRows ==
    ASSUME SaShapes, SaNumbered, NEW i \in SaRequests, SaOwn(i), ~WriteDesired(i)
    PROVE  /\ UNCHANGED <<saRow, saHost, saCycle, saLost, saWaits>>
           /\ saWoken => saWoken'
           /\ saAct'[i].row \in {saAct[i].row, saRow, None}
           /\ saAct[i].pc = "answer" /\ Wakes(i) =>
                saWoken' \/ (saAct'[i] = saAct[i])
<1>1. UNCHANGED <<saRow, saHost, saCycle, saLost, saWaits>> /\ (saWoken => saWoken')
  <2>0. UNCHANGED <<saRow, saHost, saCycle, saLost, saWaits, saWoken>>
        => UNCHANGED <<saRow, saHost, saCycle, saLost, saWaits>> /\ (saWoken => saWoken')
    OBVIOUS
  <2>1. CASE \E kind \in SaKinds, php \in SaPhp \cup {None} : BeginAction(i, kind, php)
    <3>1. UNCHANGED <<saRow, saHost, saCycle, saLost, saWaits, saWoken>>
      BY <2>1 DEF BeginAction, saHistory
    <3> QED
      BY <2>0, <3>1
  <2>2. CASE AskInstalled(i) \/ AskFails(i)
    <3>1. UNCHANGED <<saRow, saHost, saCycle, saLost, saWaits, saWoken>>
      BY <2>2 DEF AskInstalled, AskFails
    <3> QED
      BY <2>0, <3>1
  <2>3. CASE RunInstall(i) \/ UpdateFiles(i) \/ UpdateDatabase(i) \/ CommandFails(i)
    <3>1. UNCHANGED <<saRow, saHost, saCycle, saLost, saWaits, saWoken>>
      BY <2>3 DEF RunInstall, UpdateFiles, UpdateDatabase, CommandFails, saHistory
    <3> QED
      BY <2>0, <3>1
  <2>4. CASE AnswerAction(i)
    BY <2>4 DEF AnswerAction, saHistory
  <2>5. CASE ReapAction(i)
    BY <2>5 DEF ReapAction, saHistory
  <2> QED
    BY <2>1, <2>2, <2>3, <2>4, <2>5 DEF SaOwn
<1>2. ASSUME NEW kind \in SaKinds, NEW php \in SaPhp \cup {None}, BeginAction(i, kind, php),
             kind = "php" => php \in SaPhp
      PROVE  saAct'[i].row = saRow /\ saAct[i].pc # "answer"
  <2>1. saAct[i].pc # "answer"
    BY <1>2 DEF BeginAction, SaNumbered, SaPlace
  <2> QED
    BY <1>2, <2>1, SaBegins DEF SaShapes
<1>3. CASE AnswerAction(i)
  <2>1. saAct'[i].row = None
    BY <1>3, SaRecords DEF AnswerAction, SaShapes, SaPcs
  <2>2. Wakes(i) => saWoken'
    BY <1>3 DEF AnswerAction
  <2> QED
    BY <1>1, <2>1, <2>2
<1>4. CASE ReapAction(i)
  BY <1>1, <1>4 DEF ReapAction
<1>5. CASE AskInstalled(i) \/ AskFails(i) \/ RunInstall(i) \/ UpdateFiles(i) \/ UpdateDatabase(i)
           \/ CommandFails(i)
  <2>1. (\E pc \in SaPcs : SaGoto(i, pc)) \/ (\E ok \in BOOLEAN : SaResult(i, ok))
    <3>1. "install" \in SaPcs /\ "migrate" \in SaPcs /\ TRUE \in BOOLEAN /\ FALSE \in BOOLEAN
      BY DEF SaPcs
    <3> QED
      BY <1>5, <3>1 DEF AskInstalled, AskFails, RunInstall, UpdateFiles, UpdateDatabase, CommandFails
  <2>2. (\E pc \in SaPcs : SaSteps(i, pc)) \/ (\E ok \in BOOLEAN : SaEnds(i, ok))
    BY <2>1, SaGoes, SaResults
  <2>3. saAct'[i].row = saAct[i].row
    BY <2>2 DEF SaSteps, SaEnds, SaShapes
  <2>4. saAct[i].pc # "answer"
    BY <1>5 DEF AskInstalled, AskFails, RunInstall, UpdateFiles, UpdateDatabase, CommandFails
  <2> QED
    BY <1>1, <2>3, <2>4
<1> QED
  BY <1>1, <1>2, <1>3, <1>4, <1>5 DEF SaOwn

LEMMA SaOwnKept ==
    ASSUME SaShapes, SaNumbered, SaKept, NEW i \in SaRequests, SaOwn(i)
    PROVE  SaKept'
<1>0. \A k \in SaRequests : k # i => saAct'[k] = saAct[k]
  BY SaOwnFresh
<1>1. CASE saLost \/ saRow = None
  <2>1. CASE WriteDesired(i)
    <3>1. saLost => saLost'
      BY <2>1 DEF WriteDesired
    <3>2. saRow = None => saRow' = None
      BY <2>1 DEF WriteDesired
    <3> QED
      BY <1>1, <3>1, <3>2 DEF SaKept
  <2>2. CASE ~WriteDesired(i)
    BY <1>1, <2>2, SaOwnRows DEF SaKept
  <2> QED
    BY <2>1, <2>2
<1>2. CASE ~WriteDesired(i) /\ ~saLost /\ saRow # None
  <2>1. SaOrdered'
    BY <1>0, <1>2, SaOwnRows DEF SaKept, SaOrdered, SaGrows
  <2>2. CASE SaPending
    <3>1. PICK j \in SaRequests : saAct[j].pc = "answer" /\ Wakes(j)
      BY <2>2 DEF SaPending
    <3>2. saWoken' \/ saAct'[j] = saAct[j]
      BY <1>0, <1>2, <3>1, SaOwnRows
    <3>3. saAct'[j] = saAct[j] => SaPending'
      BY <3>1 DEF SaPending, Wakes
    <3> QED
      BY <2>1, <3>2, <3>3 DEF SaKept, SaHeeded
  <2>3. CASE ~SaPending
    BY <1>2, <2>1, <2>3, SaOwnRows DEF SaKept, SaHeeded, SaApplied, SaLoaded
  <2> QED
    BY <2>2, <2>3
<1>3. CASE WriteDesired(i) /\ ~saLost /\ saRow # None
  <2>1. UNCHANGED <<saHost, saCycle, saWaits, saWoken>>
    BY <1>3 DEF WriteDesired
  <2>2. saAct[i].pc = "write"
    BY <1>3 DEF WriteDesired
  <2>3. ASSUME NEW j \in SaRequests, saAct[j].pc = "answer", Wakes(j)
        PROVE  SaPending'
    <3>1. saAct'[j] = saAct[j]
      BY <1>0, <2>2, <2>3
    <3> QED
      BY <2>3, <3>1 DEF SaPending, Wakes
  <2>4. CASE \E ok \in BOOLEAN : SaResult(i, ok) /\ UNCHANGED <<saRow, saLost>>
    <3>1. UNCHANGED <<saRow, saLost>> /\ saAct'[i].row = saAct[i].row
      BY <2>4, SaResults DEF SaEnds, SaShapes
    <3>2. SaOrdered'
      BY <1>0, <1>3, <3>1 DEF SaKept, SaOrdered, SaGrows
    <3>3. SaHeeded'
      BY <1>3, <2>1, <2>3, <3>1 DEF SaKept, SaHeeded, SaPending, SaApplied, SaLoaded
    <3> QED
      BY <3>2, <3>3 DEF SaKept
  <2>5. CASE SaWrites(i)
    <3>1. PICK row \in SaRows, act \in SaActRecord :
        /\ saRow' = row /\ saAct' = [saAct EXCEPT ![i] = act]
        /\ act.kind = saAct[i].kind /\ act.pc = "answer" /\ act.ok
        /\ act.row \in SaRows /\ act.row.observed = saAct[i].row.observed
        /\ act.row.gen = saAct[i].row.gen + 1
        /\ row.gen = saAct[i].row.gen + 1 /\ row.observed = saRow.observed
        /\ saLost' = (saLost \/ saAct[i].row.gen + 1 <= saRow.gen)
      BY <2>5 DEF SaWrites
    <3>2. saAct'[i] = act
      BY <3>1 DEF SaShapes
    <3>3. saAct[i].row \in SaRows /\ saRow \in SaRows
      BY <1>3, <2>2 DEF SaShapes, SaActRecord, SaNumbered, SaPlace
    <3>4. /\ saAct[i].row.gen \in Nat /\ saAct[i].row.observed \in Nat
          /\ saRow.gen \in Nat /\ saRow.observed \in Nat
      BY <3>3, SaAssumption DEF SaRows, SaGens
    <3>5. saAct[i].row.observed <= saAct[i].row.gen /\ saRow.observed <= saRow.gen
      BY <1>3, <3>3, SaNones DEF SaKept, SaOrdered, SaGrows
    <3>6. act.row.gen > act.row.observed
      BY <3>1, <3>4, <3>5
    <3>7. Wakes(i)'
      BY <3>1, <3>2, <3>6 DEF Wakes
    <3>8. SaHeeded'
      BY <3>1, <3>2, <3>7 DEF SaHeeded, SaPending
    <3>9. saLost' \/ row.observed <= row.gen
      <4>1. CASE saAct[i].row.gen + 1 <= saRow.gen
        BY <3>1, <4>1
      <4>2. CASE ~(saAct[i].row.gen + 1 <= saRow.gen)
        <5>1. saRow.observed <= saAct[i].row.gen + 1
          BY <3>4, <3>5, <4>2
        <5> QED
          BY <3>1, <5>1
      <4> QED
        BY <4>1, <4>2
    <3>10. \A j \in SaRequests : SaGrows(saAct'[j].row)
      <4>1. SaGrows(act.row)
        BY <3>1, <3>4, <3>5 DEF SaGrows
      <4> QED
        BY <1>0, <1>3, <3>2, <4>1 DEF SaKept, SaOrdered
    <3>11. saLost' \/ SaOrdered'
      BY <3>1, <3>9, <3>10 DEF SaOrdered, SaGrows
    <3> QED
      BY <3>8, <3>11 DEF SaKept
  <2> QED
    BY <1>3, <2>4, <2>5, SaWriting
<1> QED
  BY <1>1, <1>2, <1>3

LEMMA SaCycleKept ==
    ASSUME SaShapes, SaKept, BeginCycle \/ EndCycle \/ CycleFails \/ SaCrash
    PROVE  SaKept'
<1>1. CASE BeginCycle
  <2>1. UNCHANGED <<saRow, saLost, saAct>>
    BY <1>1 DEF BeginCycle, saHistory
  <2>2. saLost \/ saRow = None \/ (SaOrdered' /\ SaHeeded')
    <3>1. saLost \/ saRow = None \/ SaOrdered'
      BY <2>1 DEF SaKept, SaOrdered, SaGrows
    <3>2. saRow = None \/ saCycle' = None \/ (saRow.status # "deleting" /\ saCycle' = saRow.definition)
      BY <1>1 DEF BeginCycle
    <3>3. saCycle' # SaIdle
      BY <1>1, SaNones DEF BeginCycle, SaShapes, SaRows
    <3>4. saRow = None \/ SaHeeded'
      BY <2>1, <3>2, <3>3 DEF SaHeeded, SaLoaded
    <3> QED
      BY <3>1, <3>4
  <2> QED
    BY <2>1, <2>2 DEF SaKept
<1>2. CASE EndCycle
  <2>1. CASE saRow = None \/ saCycle = None \/ saLost
    BY <1>2, <2>1 DEF EndCycle, SaKept
  <2>2. CASE saRow # None /\ saCycle # None /\ ~saLost
    <3>1. PICK r \in SaRows : r = saRow
      BY <2>2 DEF SaShapes
    <3>2. saRow' = [r EXCEPT !.status = "ready", !.observed = r.gen]
      BY <1>2, <2>2, <3>1 DEF EndCycle
    <3>3. /\ saRow'.gen = r.gen /\ saRow'.observed = r.gen /\ saRow'.status = "ready"
          /\ saRow'.definition = r.definition /\ r.gen \in Nat
      BY <3>2, SaAssumption DEF SaRows, SaGens
    <3>4. UNCHANGED <<saAct, saWoken, saLost>> /\ saHost' = saCycle /\ saCycle' = SaIdle
      BY <1>2 DEF EndCycle
    <3>5. SaOrdered'
      BY <2>2, <3>3, <3>4 DEF SaKept, SaOrdered, SaGrows
    <3>6. saWoken \/ SaPending \/ SaLoaded
      BY <1>2, <2>2 DEF SaKept, SaHeeded, EndCycle
    <3>7. SaPending => SaPending'
      BY <3>4 DEF SaPending, Wakes
    <3>8. SaLoaded => SaApplied'
      BY <3>1, <3>3, <3>4 DEF SaLoaded, SaApplied
    <3> QED
      BY <3>4, <3>5, <3>6, <3>7, <3>8 DEF SaKept, SaHeeded
  <2> QED
    BY <2>1, <2>2
<1>3. CASE CycleFails
  <2>1. UNCHANGED <<saAct, saLost>> /\ saCycle' = SaIdle /\ saWaits'
    BY <1>3 DEF CycleFails
  <2>2. saRow' # None => saRow # None /\ saRow'.gen = saRow.gen /\ saRow'.observed = saRow.observed
    BY <1>3 DEF CycleFails, SaShapes, SaRows
  <2>3. saLost \/ saRow' = None \/ SaOrdered'
    BY <2>1, <2>2 DEF SaKept, SaOrdered, SaGrows
  <2> QED
    BY <2>1, <2>3 DEF SaKept, SaHeeded
<1>4. CASE SaCrash
  <2>1. \A j \in SaRequests : saAct'[j].row = None
    BY <1>4, SaRecords DEF SaCrash, SaShapes, SaPcs
  <2>2. UNCHANGED <<saRow, saLost>> /\ saWoken'
    BY <1>4 DEF SaCrash, saHistory
  <2> QED
    BY <2>1, <2>2 DEF SaKept, SaOrdered, SaGrows, SaHeeded
<1> QED
  BY <1>1, <1>2, <1>3, <1>4

-----------------------------------------------------------------------------
LEMMA SaNextStrong == SaStrong /\ [SaNext]_saVars => SaStrong'
<1> SUFFICES ASSUME SaStrong, [SaNext]_saVars PROVE SaStrong'
  OBVIOUS
<1>1. CASE UNCHANGED saVars
  BY <1>1 DEF SaStrong, saVars, SaShapes, SaNumbered, SaPlace, SaPasswords, SaUpdates, Installing,
              SaKept, SaOrdered, SaGrows, SaHeeded, SaPending, SaApplied, SaLoaded, Wakes
<1>2. CASE \E i \in SaRequests : SaOwn(i)
  BY <1>2, SaOwnShapes, SaOwnNumbered, SaOwnPasswords, SaOwnUpdates, SaOwnKept DEF SaStrong
<1>3. CASE BeginCycle \/ EndCycle \/ CycleFails \/ SaCrash
  BY <1>3, SaCycleShapes, SaCycleNumbered, SaCyclePasswords, SaCycleKept DEF SaStrong
<1> QED
  BY <1>1, <1>2, <1>3, SaCases

LEMMA SaStrongImplies == SaStrong => SaTypeOK /\ ActionsSound
<1> SUFFICES ASSUME SaStrong PROVE SaTypeOK /\ ActionsSound
  OBVIOUS
<1>1. SaTypeOK
  BY DEF SaStrong, SaShapes, SaTypeOK, SaRows, SaGens, SaWordPress, SaActRecord, SaPcs
<1>2. PasswordsShown /\ UpdatesDone
  BY DEF SaStrong, SaPasswords, SaUpdates, PasswordsShown, UpdatesDone
<1>3. ChangesConverge
  BY DEF SaStrong, SaKept, SaHeeded, SaPending, SaApplied, SaLoaded, ChangesConverge
<1> QED
  BY <1>1, <1>2, <1>3 DEF ActionsSound

\* ActionsSound is an invariant, for any number of requests and faults: a
\* password that is shown opens WordPress, an update that has succeeded is
\* complete, and what is desired is converged to without waiting.
THEOREM ActionsStaySound == SaSpec => []ActionsSound
<1>1. SaInit => SaStrong
  BY SaInitStrong
<1>2. SaStrong /\ [SaNext]_saVars => SaStrong'
  BY SaNextStrong
<1>3. SaStrong => ActionsSound
  BY SaStrongImplies
<1> QED
  BY <1>1, <1>2, <1>3, PTL DEF SaSpec

-----------------------------------------------------------------------------
(* Apps.                                                                   *)

AppControls == {"start", "stop", "restart"}
AppKinds == {"create", "delete"} \cup AppControls
AppStatuses == {"provisioning", "running", "stopped", "error", "deleting"}
AppRows == [id : AppIds, port : AppPorts, status : AppStatuses]
AppBoxes == [port : AppPorts, up : BOOLEAN]
AppRouting == [AppNames -> AppPorts \cup {None}]
AppTaskRecord == [kind : AppKinds \cup {None}, name : AppNames \cup {None}, id : AppIds \cup {0},
                  port : AppPorts \cup {0}, was : AppStatuses \cup {None},
                  pc : {"off", "insert", "do", "undo"}, at : 0 .. 6,
                  config : [routes : AppRouting, before : AppRouting] \cup {None}]

AppShapes ==
    /\ appRow \in [AppNames -> AppRows \cup {None}]
    /\ appParts \in [AppIds -> SUBSET {"app_dir", "network"}]
    /\ appBox \in [AppIds -> AppBoxes \cup {None}]
    /\ appRoute \in AppRouting
    /\ appTask \in [AppRequests -> AppTaskRecord]
    /\ appMixed \subseteq [id : AppIds, name : AppNames]
    /\ appCut \subseteq AppIds \cup {0} /\ appStale \in BOOLEAN
    /\ appFaults \in 0 .. AppMaxFaults

\* Where a task of a kind can be, and what it has loaded.
AppPlace(kind, pc, at) ==
    /\ pc = "do" => at \in 1 .. (IF kind = "create" THEN 6 ELSE IF kind = "delete" THEN 5 ELSE 2)
    /\ pc = "undo" /\ kind = "create" => at \in {0, 2, 3, 4, 5}
    /\ pc = "undo" /\ kind # "create" => at = 0
AppTaskWhole(t) ==
    /\ t.pc = "insert" => t.kind = "create" /\ t.name \in AppNames /\ t.port \in AppPorts /\ t.id = 0
    /\ t.pc \in {"do", "undo"} =>
         /\ t.kind \in AppKinds /\ t.name \in AppNames /\ t.id \in AppIds /\ t.port \in AppPorts
         /\ t.kind = "create" => t.was = "provisioning"
         /\ t.kind = "delete" => t.was = "deleting"
         /\ t.kind \in AppControls => t.pc = "do" /\ t.was \in {"running", "stopped", "error"}
    /\ AppPlace(t.kind, t.pc, t.at)

AppWorks(i) == appTask[i].pc \in {"do", "undo"}

\* Identities differ, and are as many as requests that began at the most.
AppBegun == {i \in AppRequests : appTask[i].kind # None /\ appTask[i].pc # "insert"}
AppNumbered ==
    /\ \A m, n \in AppNames : appRow[m] # None /\ appRow[n] # None /\ appRow[m].id = appRow[n].id => m = n
    /\ \A n \in AppNames : appRow[n] # None => appRow[n].id <= 1 + Cardinality(AppBegun)

\* One task at a time works on an app, and has what its row says.
AppAlone(d, n) ==
    /\ \A i, j \in AppRequests :
         AppWorks(i) /\ AppWorks(j) /\ appTask[i].id = d /\ appTask[j].id = d
         /\ appTask[i].name = n /\ appTask[j].name = n => i = j
    /\ \A i \in AppRequests : AppWorks(i) /\ appTask[i].id = d /\ appTask[i].name = n =>
         /\ appRow[n] # None /\ appRow[n].id = d
         /\ appRow[n].port = appTask[i].port /\ appRow[n].status = appTask[i].was
    /\ appRow[n] # None /\ appRow[n].id = d =>
         \A i \in AppRequests : AppWorks(i) /\ appTask[i].id = d => appTask[i].name = n
AppLane(d, n) == [id |-> d, name |-> n] \notin appMixed => AppAlone(d, n)
AppLanes == \A d \in AppIds, n \in AppNames : AppLane(d, n)

\* A deletion past the web server has no route.
AppUnserved(t) == t.pc = "do" /\ t.kind = "delete" /\ t.at >= 2
AppRoutesInTime ==
    ~appStale => \A n \in AppNames : (\A e \in appMixed : e.name # n) =>
        /\ appRoute[n] # None => appRow[n] # None /\ appRow[n].port = appRoute[n]
        /\ \A i \in AppRequests : AppUnserved(appTask[i]) /\ appTask[i].name = n => appRoute[n] = None

AppTouched(d) == FailedAt(d, {"command", "container", "network", "app_dir"})
AppWhole(d) == appParts[d] = {"app_dir", "network"}
AppUp(d) == appBox[d] # None /\ appBox[d].up /\ AppWhole(d)
AppDown(d) == appBox[d] # None /\ ~appBox[d].up /\ AppWhole(d)
AppExcused(d) == appBox[d] # None => FailedAt(d, {"container"}) \/ <<d, "delete", "caddy">> \in appLeft

\* What a status says of the host ...
AppStatusSound(d, status) ==
    /\ status \in {"running", "stopped", "error"}
    /\ \/ AppTouched(d)
       \/ /\ status = "running" => AppUp(d)
          /\ status = "stopped" => AppDown(d)
          /\ status = "error" /\ appBox[d] # None => AppWhole(d)
    /\ status = "error" => AppExcused(d)

\* ... and how far a task has come.
AppWorkSound(d, t) ==
    /\ t.kind = "create" /\ t.pc = "do" =>
         /\ t.at <= 4 => appBox[d] = None
         /\ t.at > 4 => appBox[d] # None /\ appBox[d].up
         /\ "network" \in appParts[d] <=> t.at >= 4
         /\ "app_dir" \in appParts[d] <=> t.at >= 3
    /\ t.kind = "create" /\ t.pc = "undo" /\ t.at < 4 /\ appBox[d] # None => FailedAt(d, {"container"})
    /\ t.kind = "delete" /\ t.pc = "do" =>
         /\ t.at >= 3 => appBox[d] = None
         /\ t.at >= 4 => "network" \notin appParts[d]
         /\ t.at >= 5 => "app_dir" \notin appParts[d]
    /\ d \notin appCut =>
         /\ t.kind = "delete" /\ (t.pc = "undo" \/ t.at <= 2) =>
              AppTouched(d) \/ (appBox[d] # None => AppWhole(d))
         /\ t.kind = "delete" /\ t.pc = "undo" => AppExcused(d)
         /\ t.kind \in AppControls /\ t.at = 1 => AppStatusSound(d, t.was)
         /\ t.kind \in {"start", "restart"} /\ t.at = 2 => AppTouched(d) \/ AppUp(d)
         /\ t.kind = "stop" /\ t.at = 2 => AppTouched(d) \/ AppDown(d)

AppIdSound(d) == AppQuiet(d) =>
    /\ AppRowOf(d) = {} => appBox[d] = None /\ appParts[d] = {}
    /\ \A n \in AppRowOf(d) : appBox[d] # None => appBox[d].port = appRow[n].port
    /\ \A i \in AppRequests : AppWorks(i) /\ appTask[i].id = d => AppWorkSound(d, appTask[i])
    /\ d \notin appCut /\ AppSettled(d) => \A n \in AppRowOf(d) : AppStatusSound(d, appRow[n].status)

AppWholes == \A i \in AppRequests : AppTaskWhole(appTask[i])
AppStrong ==
    /\ AppShapes /\ AppWholes /\ AppNumbered /\ AppLanes /\ AppRoutesInTime
    /\ \A d \in AppIds : AppIdSound(d)

LEMMA AppNones ==
    /\ \A row \in AppRows : row # None
    /\ \A box \in AppBoxes : box # None
    /\ \A p \in AppPorts : p # None /\ p \in Nat /\ p # 0
    /\ \A d \in AppIds : d \in Nat /\ d # 0
    /\ None \notin AppKinds
    /\ \A c \in [routes : AppRouting, before : AppRouting] : c # None
<1>1. \A row \in AppRows : row # None
  BY AppNoneAssumption DEF AppRows, AppIds, AppStatuses
<1>2. \A box \in AppBoxes : box # None
  BY AppNoneAssumption DEF AppBoxes
<1>3. \A p \in AppPorts : p # None /\ p \in Nat /\ p # 0
  BY AppAssumption, NoneAssumption
<1>4. \A d \in AppIds : d \in Nat /\ d # 0
  BY AppAssumption DEF AppIds
<1>5. None \notin AppKinds
  BY AppNoneAssumption DEF AppKinds, AppControls
<1>6. \A c \in [routes : AppRouting, before : AppRouting] : c # None
  BY AppNoneAssumption DEF AppRouting
<1> QED
  BY <1>1, <1>2, <1>3, <1>4, <1>5, <1>6

LEMMA AppIdleTyped ==
    AppIdle \in AppTaskRecord /\ AppIdle.id = 0 /\ AppIdle.pc = "off" /\ AppIdle.kind = None
  BY DEF AppIdle, AppTaskRecord

LEMMA AppFreeOff ==
    ASSUME AppShapes, AppWholes, NEW i \in AppRequests, appTask[i].kind = None
    PROVE  appTask[i].pc = "off"
<1>1. appTask[i] \in AppTaskRecord /\ AppTaskWhole(appTask[i])
  BY DEF AppShapes, AppWholes
<1>2. "create" # None /\ None \notin AppKinds
  BY AppNones DEF AppKinds
<1>3. appTask[i].pc \in {"off", "insert", "do", "undo"}
  BY <1>1 DEF AppTaskRecord
<1> QED
  BY <1>1, <1>2, <1>3 DEF AppTaskWhole

LEMMA AppInitStrong == AppInit => AppStrong
<1> SUFFICES ASSUME AppInit PROVE AppStrong
  OBVIOUS
<1>1. PICK running \in SUBSET AppNames :
        LET p == CHOOSE q \in AppPorts : \A r \in AppPorts : q <= r IN
         /\ \A m, n \in running : m = n
         /\ appRow = [n \in AppNames |-> IF n \in running
                        THEN [id |-> 1, port |-> p, status |-> "running"] ELSE None]
         /\ appParts = [d \in AppIds |-> IF d = 1 /\ running # {} THEN {"app_dir", "network"}
                                         ELSE {}]
         /\ appBox = [d \in AppIds |-> IF d = 1 /\ running # {} THEN [port |-> p, up |-> TRUE]
                                       ELSE None]
         /\ appRoute = [n \in AppNames |-> IF n \in running THEN p ELSE None]
  BY DEF AppInit
<1> DEFINE p == CHOOSE q \in AppPorts : \A r \in AppPorts : q <= r
<1>2. p \in AppPorts
  BY AppAssumption, LeastNat
<1> HIDE DEF p
<1>3. /\ \A m, n \in running : m = n
      /\ appRow = [n \in AppNames |-> IF n \in running
                     THEN [id |-> 1, port |-> p, status |-> "running"] ELSE None]
      /\ appParts = [d \in AppIds |-> IF d = 1 /\ running # {} THEN {"app_dir", "network"} ELSE {}]
      /\ appBox = [d \in AppIds |-> IF d = 1 /\ running # {} THEN [port |-> p, up |-> TRUE] ELSE None]
      /\ appRoute = [n \in AppNames |-> IF n \in running THEN p ELSE None]
  BY <1>1 DEF p
<1>4. /\ appTask = [i \in AppRequests |-> AppIdle] /\ appFaults = 0
      /\ appLeft = {} /\ appMixed = {} /\ appCut = {} /\ appStale = FALSE
  BY DEF AppInit
<1>5. 1 \in AppIds
  BY AppAssumption DEF AppIds
<1>6. \A n \in AppNames : appRow[n] # None =>
        /\ n \in running /\ appRow[n] = [id |-> 1, port |-> p, status |-> "running"]
        /\ appRow[n].id = 1 /\ appRow[n].port = p /\ appRow[n].status = "running"
  BY <1>3
<1>7. \A n \in running : appRow[n] # None
  <2>1. [id |-> 1, port |-> p, status |-> "running"] \in AppRows
    BY <1>2, <1>5 DEF AppRows, AppStatuses
  <2> QED
    BY <1>3, <2>1, AppNones
<1>8. AppIdle \in AppTaskRecord /\ AppIdle.pc = "off" /\ AppIdle.kind = None
  BY DEF AppIdle, AppTaskRecord
<1>9. AppShapes
  <2>1. appRow \in [AppNames -> AppRows \cup {None}]
    BY <1>2, <1>3, <1>5 DEF AppRows, AppStatuses
  <2>2. appBox \in [AppIds -> AppBoxes \cup {None}]
    BY <1>2, <1>3 DEF AppBoxes
  <2>3. appRoute \in AppRouting /\ appParts \in [AppIds -> SUBSET {"app_dir", "network"}]
    BY <1>2, <1>3 DEF AppRouting
  <2>4. appTask \in [AppRequests -> AppTaskRecord]
    BY <1>4, <1>8
  <2>5. appMixed \subseteq [id : AppIds, name : AppNames] /\ appCut \subseteq AppIds \cup {0}
    BY <1>4
  <2>6. appStale \in BOOLEAN
    BY <1>4
  <2>7. appFaults \in 0 .. AppMaxFaults
    BY <1>4, AppAssumption
  <2> QED
    BY <2>1, <2>2, <2>3, <2>4, <2>5, <2>6, <2>7 DEF AppShapes
<1>10. AppWholes
  BY <1>4, <1>8 DEF AppWholes, AppTaskWhole, AppPlace
<1>11. AppNumbered
  <2>1. AppBegun = {}
    BY <1>4, <1>8 DEF AppBegun
  <2> QED
    BY <1>3, <1>6, <2>1, FS_EmptySet DEF AppNumbered
<1>12. \A i \in AppRequests : ~AppWorks(i) /\ ~AppUnserved(appTask[i])
  BY <1>4, <1>8 DEF AppWorks, AppUnserved
<1>13. AppLanes
  BY <1>12 DEF AppLanes, AppLane, AppAlone
<1>14. AppRoutesInTime
  BY <1>3, <1>6, <1>7, <1>12 DEF AppRoutesInTime
<1>15. ASSUME NEW d \in AppIds PROVE AppIdSound(d)
  <2>1. AppRowOf(d) = IF d = 1 THEN running ELSE {}
    BY <1>6, <1>7 DEF AppRowOf
  <2>2. CASE d = 1 /\ running # {}
    <3>1. appBox[d] # None /\ appBox[d].port = p /\ appBox[d].up /\ AppWhole(d)
      <4>1. [port |-> p, up |-> TRUE] \in AppBoxes
        BY <1>2 DEF AppBoxes
      <4> QED
        BY <1>3, <2>2, <4>1, AppNones DEF AppWhole
    <3>2. \A n \in AppRowOf(d) : n \in AppNames /\ appRow[n] # None
      BY DEF AppRowOf
    <3> QED
      BY <1>6, <1>12, <2>1, <2>2, <3>1, <3>2 DEF AppIdSound, AppStatusSound, AppUp
  <2>3. CASE ~(d = 1 /\ running # {})
    BY <1>3, <1>12, <2>1, <2>3 DEF AppIdSound
  <2> QED
    BY <2>2, <2>3
<1> QED
  BY <1>9, <1>10, <1>11, <1>13, <1>14, <1>15 DEF AppStrong

-----------------------------------------------------------------------------
\* What a step leaves as it was stays sound.

LEMMA AppTaskSet ==
    ASSUME AppShapes, AppWholes, NEW i \in AppRequests, NEW t \in AppTaskRecord, AppTaskWhole(t),
           appTask' = [appTask EXCEPT ![i] = t]
    PROVE  /\ appTask' \in [AppRequests -> AppTaskRecord] /\ appTask'[i] = t
           /\ \A j \in AppRequests : j # i => appTask'[j] = appTask[j]
           /\ AppWholes'
<1>1. /\ appTask' \in [AppRequests -> AppTaskRecord] /\ appTask'[i] = t
      /\ \A j \in AppRequests : j # i => appTask'[j] = appTask[j]
  BY DEF AppShapes
<1>2. ASSUME NEW j \in AppRequests PROVE AppTaskWhole(appTask[j])'
  <2>1. CASE j = i
    BY <1>1, <2>1 DEF AppTaskWhole
  <2>2. CASE j # i
    BY <1>1, <2>2 DEF AppTaskWhole, AppWholes
  <2> QED
    BY <2>1, <2>2
<1> QED
  BY <1>1, <1>2 DEF AppWholes

\* A task is where it was, or has ended, or has come to another step.
AppStays(j) == AppWorks(j)' => /\ AppWorks(j)
                               /\ appTask'[j].id = appTask[j].id /\ appTask'[j].name = appTask[j].name
                               /\ appTask'[j].port = appTask[j].port /\ appTask'[j].was = appTask[j].was
                               /\ appTask'[j].kind = appTask[j].kind

LEMMA AppLanesKept ==
    ASSUME AppLanes, UNCHANGED <<appRow, appMixed>>, \A j \in AppRequests : AppStays(j)
    PROVE  AppLanes'
<1> SUFFICES ASSUME NEW d \in AppIds, NEW n \in AppNames, AppAlone(d, n)
             PROVE  AppAlone(d, n)'
  BY DEF AppLanes, AppLane
<1> QED
  BY DEF AppAlone, AppStays

LEMMA AppNumberedKept ==
    ASSUME AppShapes, AppNumbered, AppBegun \subseteq AppBegun',
           \A n \in AppNames : appRow'[n] # None => appRow[n] # None /\ appRow'[n].id = appRow[n].id
    PROVE  AppNumbered'
<1>0. AppMaxOps \in Nat
  BY AppAssumption
<1>1. IsFiniteSet(AppRequests)
  BY <1>0, FS_Interval DEF AppRequests
<1>2. AppBegun \subseteq AppRequests /\ AppBegun' \subseteq AppRequests
  BY DEF AppBegun
<1>3. IsFiniteSet(AppBegun) /\ IsFiniteSet(AppBegun')
  BY <1>1, <1>2, FS_Subset
<1>4. Cardinality(AppBegun) <= Cardinality(AppBegun')
  BY <1>3, FS_Subset
<1>5. Cardinality(AppBegun) \in Nat /\ Cardinality(AppBegun') \in Nat
  BY <1>3, FS_CardinalityType
<1>6. \A n \in AppNames : appRow[n] # None => appRow[n].id \in Nat
  BY AppNones DEF AppShapes, AppRows
<1>7. \A n \in AppNames : appRow'[n] # None => appRow'[n].id <= 1 + Cardinality(AppBegun')
  BY <1>4, <1>5, <1>6 DEF AppNumbered
<1>8. \A m, n \in AppNames :
        appRow'[m] # None /\ appRow'[n] # None /\ appRow'[m].id = appRow'[n].id => m = n
  BY DEF AppNumbered
<1> QED
  BY <1>7, <1>8 DEF AppNumbered

LEMMA AppRoutesKept ==
    ASSUME AppRoutesInTime, appRoute' = appRoute, appStale' = appStale, appMixed \subseteq appMixed',
           \A n \in AppNames : appRow[n] # None => appRow'[n] # None /\ appRow'[n].port = appRow[n].port,
           \A i \in AppRequests : AppUnserved(appTask[i])' =>
               AppUnserved(appTask[i]) /\ appTask'[i].name = appTask[i].name
    PROVE  AppRoutesInTime'
<1> SUFFICES ASSUME ~appStale', NEW n \in AppNames, \A e \in appMixed' : e.name # n
             PROVE  /\ appRoute'[n] # None => appRow'[n] # None /\ appRow'[n].port = appRoute'[n]
                    /\ \A i \in AppRequests :
                         AppUnserved(appTask[i])' /\ appTask'[i].name = n => appRoute'[n] = None
  BY DEF AppRoutesInTime
<1>1. /\ appRoute[n] # None => appRow[n] # None /\ appRow[n].port = appRoute[n]
      /\ \A i \in AppRequests : AppUnserved(appTask[i]) /\ appTask[i].name = n => appRoute[n] = None
  <2>1. ~appStale /\ \A e \in appMixed : e.name # n
    OBVIOUS
  <2> QED
    BY <2>1 DEF AppRoutesInTime
<1> QED
  BY <1>1

\* An identity has what it had, and its tasks are where they were.
AppUntouched(d) ==
    /\ appBox'[d] = appBox[d] /\ appParts'[d] = appParts[d]
    /\ AppQuiet(d)' => AppQuiet(d)
    /\ \A n \in AppNames : /\ n \in AppRowOf(d)' <=> n \in AppRowOf(d)
                           /\ n \in AppRowOf(d) => appRow'[n] = appRow[n]
    /\ appLeft \subseteq appLeft' /\ appCut \subseteq appCut'
    /\ \A i \in AppRequests : AppWorks(i)' /\ appTask'[i].id = d =>
         /\ AppWorks(i) /\ appTask[i].id = d /\ appTask'[i].kind = appTask[i].kind
         /\ appTask'[i].pc = appTask[i].pc /\ appTask'[i].at = appTask[i].at
         /\ appTask'[i].was = appTask[i].was
    /\ d \notin appCut' /\ AppSettled(d)' => AppSettled(d)

LEMMA AppStatusKept ==
    ASSUME NEW d, NEW status, appBox'[d] = appBox[d], appParts'[d] = appParts[d],
           appLeft \subseteq appLeft', AppStatusSound(d, status)
    PROVE  AppStatusSound(d, status)'
<1>1. AppTouched(d) => AppTouched(d)'
  BY DEF AppTouched, FailedAt
<1>2. AppExcused(d) => AppExcused(d)'
  BY DEF AppExcused, FailedAt
<1> QED
  BY <1>1, <1>2 DEF AppStatusSound, AppUp, AppDown, AppWhole

LEMMA AppWorkKept ==
    ASSUME NEW d, NEW t, appBox'[d] = appBox[d], appParts'[d] = appParts[d],
           appLeft \subseteq appLeft', appCut \subseteq appCut', AppWorkSound(d, t)
    PROVE  AppWorkSound(d, t)'
<1>1. AppTouched(d) => AppTouched(d)'
  BY DEF AppTouched, FailedAt
<1>2. AppExcused(d) => AppExcused(d)'
  BY DEF AppExcused, FailedAt
<1>3. FailedAt(d, {"container"}) => FailedAt(d, {"container"})'
  BY DEF FailedAt
<1>4. AppStatusSound(d, t.was) => AppStatusSound(d, t.was)'
  BY AppStatusKept
<1>5. (AppUp(d) <=> AppUp(d)') /\ (AppDown(d) <=> AppDown(d)') /\ (AppWhole(d) <=> AppWhole(d)')
  BY DEF AppUp, AppDown, AppWhole
<1> QED
  BY <1>1, <1>2, <1>3, <1>4, <1>5 DEF AppWorkSound

LEMMA AppIdKept ==
    ASSUME NEW d \in AppIds, AppIdSound(d), AppUntouched(d)
    PROVE  AppIdSound(d)'
<1> SUFFICES ASSUME AppQuiet(d)' 
             PROVE  /\ AppRowOf(d)' = {} => appBox'[d] = None /\ appParts'[d] = {}
                    /\ \A n \in AppRowOf(d)' : appBox'[d] # None => appBox'[d].port = appRow'[n].port
                    /\ \A i \in AppRequests : AppWorks(i)' /\ appTask'[i].id = d =>
                         AppWorkSound(d, appTask[i])'
                    /\ d \notin appCut' /\ AppSettled(d)' =>
                         \A n \in AppRowOf(d)' : AppStatusSound(d, appRow[n].status)'
  BY DEF AppIdSound
<1>1. /\ AppRowOf(d) = {} => appBox[d] = None /\ appParts[d] = {}
      /\ \A n \in AppRowOf(d) : appBox[d] # None => appBox[d].port = appRow[n].port
      /\ \A i \in AppRequests : AppWorks(i) /\ appTask[i].id = d => AppWorkSound(d, appTask[i])
      /\ d \notin appCut /\ AppSettled(d) => \A n \in AppRowOf(d) : AppStatusSound(d, appRow[n].status)
  BY DEF AppIdSound, AppUntouched
<1>2. AppRowOf(d)' = AppRowOf(d) /\ \A n \in AppRowOf(d) : appRow'[n] = appRow[n]
  BY DEF AppUntouched, AppRowOf
<1>3. ASSUME NEW i \in AppRequests, AppWorks(i)', appTask'[i].id = d
      PROVE  AppWorkSound(d, appTask[i])'
  <2>1. AppWorkSound(d, appTask[i])
    BY <1>1, <1>3 DEF AppUntouched
  <2> PICK t : t = appTask[i]
    OBVIOUS
  <2>2. AppWorkSound(d, t)'
    BY <2>1, AppWorkKept DEF AppUntouched
  <2>3. /\ appTask'[i].kind = t.kind /\ appTask'[i].pc = t.pc /\ appTask'[i].at = t.at
        /\ appTask'[i].was = t.was
    BY <1>3 DEF AppUntouched
  <2> QED
    BY <2>2, <2>3 DEF AppWorkSound
<1>4. ASSUME d \notin appCut', AppSettled(d)', NEW n \in AppRowOf(d)'
      PROVE  AppStatusSound(d, appRow[n].status)'
  <2>1. AppStatusSound(d, appRow[n].status)
    BY <1>1, <1>2, <1>4 DEF AppUntouched
  <2> PICK status : status = appRow[n].status
    OBVIOUS
  <2>2. AppStatusSound(d, status)'
    BY <2>1, AppStatusKept DEF AppUntouched
  <2>3. appRow'[n].status = status
    BY <1>2, <1>4
  <2> QED
    BY <2>2, <2>3
<1> QED
  BY <1>1, <1>2, <1>3, <1>4 DEF AppUntouched

-----------------------------------------------------------------------------
\* Requests.

LEMMA AppAsks ==
    ASSUME AppStrong, NEW i \in AppRequests, NEW n \in AppNames, NEW p \in AppPorts, AppAsk(i, n, p)
    PROVE  AppStrong'
<1> DEFINE t == [AppIdle EXCEPT !.kind = "create", !.name = n, !.port = p, !.pc = "insert"]
<1>1. /\ appTask[i].kind = None /\ appTask' = [appTask EXCEPT ![i] = t]
      /\ UNCHANGED <<appRow, appParts, appBox, appRoute, appFaults, appLeft, appMixed, appCut, appStale>>
  BY DEF AppAsk, AppFree, appHistory
<1>2. /\ t \in AppTaskRecord /\ t.kind = "create" /\ t.name = n /\ t.port = p /\ t.pc = "insert" /\ t.id = 0
  <2>1. "create" \in AppKinds
    BY DEF AppKinds
  <2> PICK idle : idle = AppIdle
    OBVIOUS
  <2>2. idle \in AppTaskRecord /\ idle.id = 0
    BY AppIdleTyped
  <2> QED
    BY <2>1, <2>2 DEF AppTaskRecord
<1> HIDE DEF t
<1>3. AppTaskWhole(t)
  BY <1>2 DEF AppTaskWhole, AppPlace
<1>4. /\ appTask' \in [AppRequests -> AppTaskRecord] /\ appTask'[i] = t
      /\ \A j \in AppRequests : j # i => appTask'[j] = appTask[j]
      /\ AppWholes'
  BY <1>1, <1>2, <1>3, AppTaskSet DEF AppStrong
<1>5. AppShapes'
  BY <1>1, <1>4 DEF AppStrong, AppShapes
<1>6. ~AppWorks(i) /\ ~AppWorks(i)' /\ ~AppUnserved(appTask[i])'
  <2>1. AppTaskWhole(appTask[i])
    BY DEF AppStrong, AppWholes
  <2> QED
    BY <1>1, <1>2, <1>4, <2>1, AppNones DEF AppWorks, AppUnserved, AppTaskWhole
<1>7. AppLanes'
  <2>1. \A j \in AppRequests : AppStays(j)
    BY <1>4, <1>6 DEF AppStays, AppWorks
  <2> QED
    BY <1>1, <2>1, AppLanesKept DEF AppStrong
<1>8. AppNumbered'
  <2>1. AppBegun \subseteq AppBegun'
    BY <1>1, <1>4 DEF AppBegun
  <2> QED
    BY <1>1, <2>1, AppNumberedKept DEF AppStrong
<1>9. AppRoutesInTime'
  <2>1. \A j \in AppRequests : AppUnserved(appTask[j])' =>
               AppUnserved(appTask[j]) /\ appTask'[j].name = appTask[j].name
    BY <1>4, <1>6 DEF AppUnserved
  <2> QED
    BY <1>1, <2>1, AppRoutesKept DEF AppStrong
<1>10. ASSUME NEW d \in AppIds PROVE AppIdSound(d)'
  <2>1. AppIdle.pc = "off" /\ t.id # d
    BY <1>2, AppNones DEF AppIdle
  <2>2. AppSettled(d)' => AppSettled(d)
    <3>1. appTask[i].pc = "off"
      BY <1>1, AppFreeOff DEF AppStrong
    <3> QED
      BY <1>4, <3>1 DEF AppSettled, AppBusy
  <2>3. AppUntouched(d)
    BY <1>1, <1>4, <1>6, <2>2 DEF AppUntouched, AppQuiet, AppRowOf, AppWorks
  <2> QED
    BY <2>3, AppIdKept DEF AppStrong
<1> QED
  BY <1>4, <1>5, <1>7, <1>8, <1>9, <1>10 DEF AppStrong

LEMMA AppBegins ==
    ASSUME AppStrong, NEW i \in AppRequests, NEW kind \in AppKinds, NEW n \in AppNames,
           NEW row \in AppRows, appTask[i].pc \in {"off", "insert"},
           AppBegin(i, kind, n, row), appRow' = [appRow EXCEPT ![n] = row],
           IF kind = "create" THEN appRow[n] = None /\ AppRowOf(row.id) = {}
           ELSE appRow[n] # None /\ appRow[n].id = row.id /\ appRow[n].port = row.port,
           kind = "create" => row.status = "provisioning",
           kind = "delete" => row.status = "deleting",
           kind \in AppControls => row = appRow[n] /\ row.status \in {"running", "stopped", "error"},
           AppNumbered',
           UNCHANGED <<appParts, appBox, appRoute, appFaults, appLeft, appCut, appStale>>
    PROVE  AppStrong'
<1> DEFINE t == [kind |-> kind, name |-> n, id |-> row.id, port |-> row.port, was |-> row.status,
                 pc |-> "do", at |-> 1, config |-> None]
           met == \E j \in AppRequests : AppBusy(j) /\ appTask[j].id = row.id
           d == row.id
<1>1. /\ appTask' = [appTask EXCEPT ![i] = t]
      /\ appMixed' = IF met THEN appMixed \cup {[id |-> d, name |-> n]} ELSE appMixed
  BY DEF AppBegin
<1>2. d \in AppIds /\ row.port \in AppPorts /\ row.status \in AppStatuses /\ row # None
  BY AppNones DEF AppRows
<1>3. /\ t \in AppTaskRecord /\ t.kind = kind /\ t.name = n /\ t.id = d /\ t.port = row.port
      /\ t.was = row.status /\ t.pc = "do" /\ t.at = 1
  BY <1>2 DEF AppTaskRecord
<1> HIDE DEF t, met
<1>4. AppTaskWhole(t)
  BY <1>2, <1>3 DEF AppTaskWhole, AppPlace, AppKinds, AppControls
<1>5. /\ appTask' \in [AppRequests -> AppTaskRecord] /\ appTask'[i] = t
      /\ \A j \in AppRequests : j # i => appTask'[j] = appTask[j]
      /\ AppWholes'
  BY <1>1, <1>3, <1>4, AppTaskSet DEF AppStrong
<1>6. /\ appRow' \in [AppNames -> AppRows \cup {None}] /\ appRow'[n] = row
      /\ \A m \in AppNames : m # n => appRow'[m] = appRow[m]
  BY DEF AppStrong, AppShapes
<1>7. AppShapes'
  <2>1. appMixed' \subseteq [id : AppIds, name : AppNames]
    <3>1. [id |-> d, name |-> n] \in [id : AppIds, name : AppNames]
      BY <1>2
    <3> QED
      BY <1>1, <3>1 DEF AppStrong, AppShapes
  <2> QED
    BY <1>5, <1>6, <2>1 DEF AppStrong, AppShapes
<1>8. ~AppWorks(i) /\ AppWorks(i)' /\ ~AppUnserved(appTask[i])'
  BY <1>3, <1>5 DEF AppWorks, AppUnserved
<1>9. \A j \in AppRequests : j # i => (AppWorks(j)' <=> AppWorks(j))
  BY <1>5 DEF AppWorks
<1>10. ~met => \A j \in AppRequests : AppWorks(j) => appTask[j].id # d
  BY DEF met, AppWorks, AppBusy
<1>11. \A j \in AppRequests : appTask[j].pc \in {"off", "insert", "do", "undo"}
  BY DEF AppStrong, AppShapes, AppTaskRecord
<1>12. \A m \in AppNames : appRow'[m] # None /\ appRow'[m].id = d => m = n
  BY <1>2, <1>6 DEF AppNumbered
<1>13. ASSUME NEW e \in AppIds, NEW m \in AppNames, [id |-> e, name |-> m] \notin appMixed'
       PROVE  AppAlone(e, m)'
  <2>1. AppAlone(e, m)
    <3>1. [id |-> e, name |-> m] \notin appMixed
      BY <1>1, <1>13
    <3> QED
      BY <3>1 DEF AppStrong, AppLanes, AppLane
  <2>2. CASE e = d /\ m = n
    <3>1. ~met
      BY <1>1, <1>13, <2>2
    <3>2. \A j \in AppRequests : AppWorks(j)' /\ appTask'[j].id = d => j = i
      BY <1>5, <1>9, <1>10, <3>1
    <3> QED
      BY <1>2, <1>3, <1>5, <1>6, <2>2, <3>2 DEF AppAlone
  <2>3. CASE e = d /\ m # n
    <3>1. \A j \in AppRequests : AppWorks(j)' /\ appTask'[j].name = m => j # i /\ AppWorks(j)
      BY <1>3, <1>5, <1>9, <2>3
    <3>2. ~(appRow'[m] # None /\ appRow'[m].id = d)
      BY <1>12, <2>3
    <3> QED
      BY <1>5, <1>6, <2>1, <2>3, <3>1, <3>2 DEF AppAlone
  <2>4. CASE e # d /\ m # n
    <3>1. \A j \in AppRequests : AppWorks(j)' /\ appTask'[j].id = e => j # i /\ AppWorks(j)
      BY <1>3, <1>5, <1>9, <2>4
    <3> QED
      BY <1>5, <1>6, <2>1, <2>4, <3>1 DEF AppAlone
  <2>5. CASE e # d /\ m = n
    <3>1. \A j \in AppRequests : AppWorks(j)' /\ appTask'[j].id = e => j # i /\ AppWorks(j)
      BY <1>3, <1>5, <1>9, <2>5
    <3>2. \A j \in AppRequests : ~(AppWorks(j) /\ appTask[j].id = e /\ appTask[j].name = n)
      BY <2>1, <2>5 DEF AppAlone
    <3>3. appRow'[n].id # e
      BY <1>6, <2>5
    <3> QED
      BY <1>5, <1>6, <2>5, <3>1, <3>2, <3>3 DEF AppAlone
  <2> QED
    BY <2>2, <2>3, <2>4, <2>5
<1>14. AppLanes'
  BY <1>13 DEF AppLanes, AppLane
<1>15. AppRoutesInTime'
  <2>1. \A j \in AppRequests : AppUnserved(appTask[j])' =>
               AppUnserved(appTask[j]) /\ appTask'[j].name = appTask[j].name
    BY <1>5, <1>8 DEF AppUnserved
  <2>2. \A m \in AppNames : appRow[m] # None => appRow'[m] # None /\ appRow'[m].port = appRow[m].port
    BY <1>2, <1>6
  <2>3. appMixed \subseteq appMixed'
    BY <1>1
  <2> QED
    BY <2>1, <2>2, <2>3, AppRoutesKept DEF AppStrong
<1>16. ASSUME NEW e \in AppIds, e # d PROVE AppIdSound(e)'
  <2>1. AppQuiet(e)' => AppQuiet(e)
    BY <1>1 DEF AppQuiet
  <2>2. \A m \in AppNames : /\ m \in AppRowOf(e)' <=> m \in AppRowOf(e)
                            /\ m \in AppRowOf(e) => appRow'[m] = appRow[m]
    <3> SUFFICES ASSUME NEW m \in AppNames
                 PROVE  /\ m \in AppRowOf(e)' <=> m \in AppRowOf(e)
                        /\ m \in AppRowOf(e) => appRow'[m] = appRow[m]
      OBVIOUS
    <3>1. CASE m = n
      BY <1>6, <1>16, <3>1 DEF AppRowOf
    <3>2. CASE m # n
      BY <1>6, <3>2 DEF AppRowOf
    <3> QED
      BY <3>1, <3>2
  <2>3. \A j \in AppRequests : AppWorks(j)' /\ appTask'[j].id = e =>
         /\ AppWorks(j) /\ appTask[j].id = e /\ appTask'[j].kind = appTask[j].kind
         /\ appTask'[j].pc = appTask[j].pc /\ appTask'[j].at = appTask[j].at
         /\ appTask'[j].was = appTask[j].was
    BY <1>3, <1>5, <1>9, <1>16
  <2>4. AppSettled(e)' => AppSettled(e)
    <3>1. AppTaskWhole(appTask[i])
      BY DEF AppStrong, AppWholes
    <3>2. AppBusy(i) => appTask[i].id # e
      BY <3>1, AppNones DEF AppBusy, AppTaskWhole
    <3> QED
      BY <1>5, <3>2 DEF AppSettled, AppBusy
  <2>5. AppUntouched(e)
    BY <2>1, <2>2, <2>3, <2>4 DEF AppUntouched
  <2> QED
    BY <2>5, AppIdKept DEF AppStrong
<1>17. ASSUME AppQuiet(d)' PROVE AppIdSound(d)'
  <2>1. ~met /\ AppQuiet(d)
    <3>1. \A e \in appMixed' : e.id # d
      BY <1>17 DEF AppQuiet
    <3>2. [id |-> d, name |-> n] \notin appMixed'
      BY <3>1
    <3>3. ~met /\ appMixed' = appMixed
      BY <1>1, <3>2
    <3> QED
      BY <3>1, <3>3 DEF AppQuiet
  <2>2. AppSettled(d)
    BY <2>1 DEF AppSettled, met
  <2>3. /\ AppRowOf(d) = {} => appBox[d] = None /\ appParts[d] = {}
        /\ \A m \in AppRowOf(d) : appBox[d] # None => appBox[d].port = appRow[m].port
        /\ d \notin appCut => \A m \in AppRowOf(d) : AppStatusSound(d, appRow[m].status)
    BY <1>2, <2>1, <2>2 DEF AppStrong, AppIdSound
  <2>4. \A m \in AppRowOf(d)' : m = n
    BY <1>12 DEF AppRowOf
  <2>5. n \in AppRowOf(d)'
    BY <1>2, <1>6 DEF AppRowOf
  <2>6. \A j \in AppRequests : AppWorks(j)' /\ appTask'[j].id = d => j = i
    BY <1>5, <1>9, <1>10, <2>1
  <2>7. ~AppSettled(d)'
    BY <1>3, <1>5 DEF AppSettled, AppBusy
  <2>8. appBox'[d] # None => appBox'[d].port = appRow'[n].port
    BY <1>6, <2>3 DEF AppRowOf
  <2>9. AppWorkSound(d, t)'
    <3>1. CASE kind = "create"
      <4>1. appBox[d] = None /\ appParts[d] = {}
        BY <2>3, <3>1
      <4>2. appBox'[d] = None /\ appParts'[d] = {}
        BY <4>1
      <4>3. "network" \notin appParts'[d] /\ "app_dir" \notin appParts'[d]
        BY <4>2
      <4>4. t.at < 3 /\ t.kind = "create" /\ t.pc = "do"
        BY <1>3, <3>1
      <4> QED
        BY <1>3, <4>2, <4>3, <4>4 DEF AppWorkSound, AppControls
    <3>2. CASE kind = "delete"
      <4>1. d \notin appCut => AppStatusSound(d, appRow[n].status)
        BY <2>3, <3>2 DEF AppRowOf
      <4>2. d \notin appCut => AppTouched(d) \/ (appBox[d] # None => AppWhole(d))
        BY <4>1 DEF AppStatusSound, AppUp, AppDown
      <4>3. AppWorkSound(d, t)
        BY <1>3, <3>2, <4>2 DEF AppWorkSound, AppControls
      <4> QED
        BY <4>3, AppWorkKept
    <3>3. CASE kind \in AppControls
      <4>1. d \notin appCut => AppStatusSound(d, t.was)
        BY <1>3, <2>3, <3>3 DEF AppRowOf, AppControls
      <4>2. AppWorkSound(d, t)
        BY <1>3, <3>3, <4>1 DEF AppWorkSound, AppControls
      <4> QED
        BY <4>2, AppWorkKept
    <3> QED
      BY <3>1, <3>2, <3>3 DEF AppKinds
  <2>10. \A j \in AppRequests : AppWorks(j)' /\ appTask'[j].id = d => AppWorkSound(d, appTask[j])'
    <3> SUFFICES ASSUME NEW j \in AppRequests, AppWorks(j)', appTask'[j].id = d
                 PROVE  AppWorkSound(d, appTask[j])'
      OBVIOUS
    <3>1. appTask'[j] = t
      BY <1>5, <2>6
    <3> PICK u : u = t
      OBVIOUS
    <3> QED
      BY <2>9, <3>1 DEF AppWorkSound
  <2> QED
    BY <2>4, <2>5, <2>7, <2>8, <2>10 DEF AppIdSound
<1>18. AppIdSound(d)'
  BY <1>17 DEF AppIdSound
<1> QED
  BY <1>5, <1>7, <1>14, <1>15, <1>16, <1>18 DEF AppStrong

\* One more request has begun.
LEMMA AppBegunGrows ==
    ASSUME AppShapes, NEW i \in AppRequests, i \notin AppBegun
    PROVE  /\ Cardinality(AppBegun) \in Nat /\ IsFiniteSet(AppBegun)
           /\ Cardinality(AppBegun \cup {i}) = Cardinality(AppBegun) + 1
           /\ Cardinality(AppBegun) + 1 <= AppMaxOps
<1>1. IsFiniteSet(AppRequests) /\ Cardinality(AppRequests) = AppMaxOps
  BY AppAssumption, FS_Interval DEF AppRequests
<1>2. AppBegun \cup {i} \subseteq AppRequests
  BY DEF AppBegun
<1>3. IsFiniteSet(AppBegun \cup {i}) /\ IsFiniteSet(AppBegun)
  BY <1>1, <1>2, FS_Subset
<1>4. Cardinality(AppBegun \cup {i}) <= AppMaxOps
  BY <1>1, <1>2, FS_Subset
<1>5. Cardinality(AppBegun \cup {i}) = Cardinality(AppBegun) + 1
  BY <1>3, FS_AddElement
<1> QED
  BY <1>3, <1>4, <1>5, FS_CardinalityType

LEMMA AppDeletes ==
    ASSUME AppStrong, NEW i \in AppRequests, NEW n \in AppNames, AppDelete(i, n)
    PROVE  AppStrong'
<1> DEFINE row == [appRow[n] EXCEPT !.status = "deleting"]
<1>1. /\ appTask[i].kind = None /\ appRow[n] # None /\ AppBegin(i, "delete", n, row)
      /\ UNCHANGED <<appParts, appBox, appRoute, appFaults, appLeft, appCut, appStale>>
  BY DEF AppDelete, AppFree
<1>2. appRow[n] \in AppRows
  BY <1>1 DEF AppStrong, AppShapes
<1>3. row \in AppRows /\ row.id = appRow[n].id /\ row.port = appRow[n].port /\ row.status = "deleting"
  BY <1>2 DEF AppRows, AppStatuses
<1>4. appRow' = [appRow EXCEPT ![n] = row]
  BY <1>2 DEF AppDelete
<1> HIDE DEF row
<1>5. appTask[i].pc = "off"
  BY <1>1, AppFreeOff DEF AppStrong
<1>6. "delete" \in AppKinds /\ "delete" \notin AppControls /\ "delete" # None
  BY AppNones DEF AppKinds, AppControls
<1>7. AppNumbered'
  <2>1. AppBegun \subseteq AppBegun'
    BY <1>1, <1>6 DEF AppBegun, AppBegin, AppStrong, AppShapes
  <2>2. \A m \in AppNames : appRow'[m] # None => appRow[m] # None /\ appRow'[m].id = appRow[m].id
    BY <1>1, <1>3, <1>4 DEF AppStrong, AppShapes
  <2> QED
    BY <2>1, <2>2, AppNumberedKept DEF AppStrong
<1> QED
  BY <1>1, <1>3, <1>4, <1>5, <1>6, <1>7, AppBegins

LEMMA AppIsControlled ==
    ASSUME AppStrong, NEW i \in AppRequests, NEW kind \in AppControls, NEW n \in AppNames,
           AppControl(i, kind, n)
    PROVE  AppStrong'
<1>1. /\ appTask[i].kind = None /\ appRow[n] # None /\ AppBegin(i, kind, n, appRow[n])
      /\ appRow[n].status \notin {"provisioning", "deleting"}
      /\ UNCHANGED <<appRow, appParts, appBox, appRoute, appFaults, appLeft, appCut, appStale>>
  BY DEF AppControl, AppFree
<1>2. appRow[n] \in AppRows
  BY <1>1 DEF AppStrong, AppShapes
<1>3. appRow[n].status \in {"running", "stopped", "error"}
  BY <1>1, <1>2 DEF AppRows, AppStatuses
<1>4. appRow' = [appRow EXCEPT ![n] = appRow[n]]
  BY <1>1 DEF AppStrong, AppShapes
<1>5. appTask[i].pc = "off"
  BY <1>1, AppFreeOff DEF AppStrong
<1>6. kind \in AppKinds /\ kind \notin {"create", "delete"} /\ kind # None
  BY AppNones DEF AppKinds, AppControls
<1>7. AppNumbered'
  <2>1. AppBegun \subseteq AppBegun'
    BY <1>1, <1>6 DEF AppBegun, AppBegin, AppStrong, AppShapes
  <2> QED
    BY <1>1, <2>1, AppNumberedKept DEF AppStrong
<1> PICK row : row = appRow[n]
  OBVIOUS
<1>8. AppBegin(i, kind, n, row) /\ appRow' = [appRow EXCEPT ![n] = row]
  BY <1>1, <1>4
<1> QED
  BY <1>1, <1>2, <1>3, <1>5, <1>6, <1>7, <1>8, AppBegins

\* A creation that finds its name or port taken ends.
LEMMA AppQuits ==
    ASSUME AppStrong, NEW i \in AppRequests, appTask[i].pc = "insert", NEW t \in AppTaskRecord,
           t.pc = "off", t.kind = "create", appTask' = [appTask EXCEPT ![i] = t],
           UNCHANGED <<appRow, appMixed>>,
           UNCHANGED <<appParts, appBox, appRoute, appFaults, appLeft, appCut, appStale>>
    PROVE  AppStrong'
<1>1. AppTaskWhole(t)
  BY DEF AppTaskWhole, AppPlace
<1>2. /\ appTask' \in [AppRequests -> AppTaskRecord] /\ appTask'[i] = t
      /\ \A j \in AppRequests : j # i => appTask'[j] = appTask[j]
      /\ AppWholes'
  BY <1>1, AppTaskSet DEF AppStrong
<1>3. AppShapes'
  BY <1>2 DEF AppStrong, AppShapes
<1>4. ~AppWorks(i) /\ ~AppWorks(i)' /\ ~AppUnserved(appTask[i])'
  BY <1>2 DEF AppWorks, AppUnserved
<1>5. AppLanes'
  <2>1. \A j \in AppRequests : AppStays(j)
    BY <1>2, <1>4 DEF AppStays, AppWorks
  <2> QED
    BY <2>1, AppLanesKept DEF AppStrong
<1>6. AppNumbered'
  <2>1. "create" # None
    BY AppNones DEF AppKinds
  <2>2. AppBegun \subseteq AppBegun'
    BY <1>2, <2>1 DEF AppBegun
  <2> QED
    BY <2>2, AppNumberedKept DEF AppStrong
<1>7. AppRoutesInTime'
  <2>1. \A j \in AppRequests : AppUnserved(appTask[j])' =>
               AppUnserved(appTask[j]) /\ appTask'[j].name = appTask[j].name
    BY <1>2, <1>4 DEF AppUnserved
  <2> QED
    BY <2>1, AppRoutesKept DEF AppStrong
<1>8. ASSUME NEW d \in AppIds PROVE AppIdSound(d)'
  <2>1. AppTaskWhole(appTask[i])
    BY DEF AppStrong, AppWholes
  <2>2. appTask[i].id # d
    BY <2>1, AppNones DEF AppTaskWhole
  <2>3. AppSettled(d)' => AppSettled(d)
    BY <1>2, <2>2 DEF AppSettled, AppBusy
  <2>4. AppUntouched(d)
    BY <1>2, <1>4, <2>3 DEF AppUntouched, AppQuiet, AppRowOf, AppWorks
  <2> QED
    BY <2>4, AppIdKept DEF AppStrong
<1> QED
  BY <1>2, <1>3, <1>5, <1>6, <1>7, <1>8 DEF AppStrong

LEMMA AppInserts ==
    ASSUME AppStrong, NEW i \in AppRequests, AppInsert(i)
    PROVE  AppStrong'
<1> DEFINE n == appTask[i].name
           ids == {appRow[m].id : m \in {k \in AppNames : appRow[k] # None}}
           row == [id |-> 1 + Greatest(ids), port |-> appTask[i].port, status |-> "provisioning"]
<1>1. /\ appTask[i].pc = "insert"
      /\ UNCHANGED <<appParts, appBox, appRoute, appFaults, appLeft, appCut, appStale>>
  BY DEF AppInsert
<1>2. /\ appTask[i] \in AppTaskRecord /\ appTask[i].kind = "create" /\ n \in AppNames
      /\ appTask[i].port \in AppPorts /\ appTask[i].id = 0
  BY <1>1 DEF AppStrong, AppShapes, AppWholes, AppTaskWhole
<1>3. "create" \in AppKinds /\ "create" \notin AppControls /\ "create" # None
  BY AppNones DEF AppKinds, AppControls
<1>4. i \notin AppBegun
  BY <1>1 DEF AppBegun
<1>5. CASE appRow[n] = None /\ row.port \notin UsedPorts
  <2>1. appRow' = [appRow EXCEPT ![n] = row] /\ AppBegin(i, "create", n, row)
    BY <1>5 DEF AppInsert
  <2>2. /\ Cardinality(AppBegun) \in Nat /\ Cardinality(AppBegun) + 1 <= AppMaxOps
        /\ Cardinality(AppBegun \cup {i}) = Cardinality(AppBegun) + 1
    BY <1>4, AppBegunGrows DEF AppStrong
  <2>3. ids \in SUBSET (0 .. 1 + Cardinality(AppBegun))
    BY <2>2, AppNones DEF AppStrong, AppNumbered, AppShapes, AppRows
  <2>4. /\ Greatest(ids) \in 0 .. 1 + Cardinality(AppBegun)
        /\ \A e \in ids : e <= Greatest(ids)
    <3>1. CASE ids = {}
      <4> HIDE DEF ids
      <4>1. Greatest(ids) = 0
        BY <3>1 DEF Greatest
      <4> QED
        BY <2>2, <3>1, <4>1
    <3>2. CASE ids # {}
      <4> PICK bound \in Nat : bound = 1 + Cardinality(AppBegun)
        BY <2>2
      <4>1. ids \in SUBSET (0 .. bound)
        BY <2>3
      <4> HIDE DEF ids
      <4>2. Greatest(ids) \in ids /\ \A e \in ids : e <= Greatest(ids)
        BY <3>2, <4>1, GreatestIn
      <4>3. Greatest(ids) \in 0 .. bound
        BY <4>1, <4>2
      <4> QED
        BY <4>2, <4>3
    <3> QED
      BY <3>1, <3>2
  <2> PICK greatest : greatest = Greatest(ids)
    OBVIOUS
  <2>5. row.id = 1 + greatest /\ row.port = appTask[i].port /\ row.status = "provisioning"
    OBVIOUS
  <2>6. row.id \in AppIds /\ row.id <= 2 + Cardinality(AppBegun)
    BY <2>2, <2>4, <2>5, AppAssumption DEF AppIds
  <2>7. row \in AppRows
    BY <1>2, <2>6 DEF AppRows, AppStatuses
  <2>8. \A m \in AppNames : appRow[m] # None => appRow[m].id # row.id
    <3> SUFFICES ASSUME NEW m \in AppNames, appRow[m] # None PROVE appRow[m].id # row.id
      OBVIOUS
    <3>1. appRow[m].id \in ids
      OBVIOUS
    <3>2. appRow[m].id <= greatest /\ appRow[m].id \in Nat /\ greatest \in Nat
      BY <2>2, <2>3, <2>4, <3>1
    <3> QED
      BY <2>5, <3>2
  <2> HIDE DEF row
  <2>9. AppRowOf(row.id) = {}
    BY <2>8 DEF AppRowOf
  <2>10. AppBegun' = AppBegun \cup {i}
    BY <1>1, <1>2, <1>3, <2>1 DEF AppBegun, AppBegin, AppStrong, AppShapes
  <2>11. /\ appRow'[n] = row /\ \A m \in AppNames : m # n => appRow'[m] = appRow[m]
    BY <1>2, <2>1 DEF AppStrong, AppShapes
  <2>12. AppNumbered'
    <3>1. \A m \in AppNames : appRow'[m] # None => appRow'[m].id <= 1 + Cardinality(AppBegun')
      <4> SUFFICES ASSUME NEW m \in AppNames, appRow'[m] # None
                   PROVE  appRow'[m].id <= 1 + Cardinality(AppBegun')
        OBVIOUS
      <4>1. CASE m = n
        BY <2>2, <2>6, <2>10, <2>11, <4>1
      <4>2. CASE m # n
        <5>1. appRow[m] # None /\ appRow'[m] = appRow[m] /\ appRow[m].id <= 1 + Cardinality(AppBegun)
          BY <2>11, <4>2 DEF AppStrong, AppNumbered
        <5>2. appRow[m].id \in Nat
          BY <5>1, AppNones DEF AppStrong, AppShapes, AppRows
        <5> QED
          BY <2>2, <2>10, <5>1, <5>2
      <4> QED
        BY <4>1, <4>2
    <3>2. \A l, m \in AppNames :
            appRow'[l] # None /\ appRow'[m] # None /\ appRow'[l].id = appRow'[m].id => l = m
      BY <2>8, <2>11 DEF AppStrong, AppNumbered
    <3> QED
      BY <3>1, <3>2 DEF AppNumbered
  <2> PICK name : name = n
    OBVIOUS
  <2>13. name \in AppNames /\ AppBegin(i, "create", name, row) /\ appRow[name] = None
         /\ appRow' = [appRow EXCEPT ![name] = row]
    BY <1>2, <1>5, <2>1
  <2>14. row.status = "provisioning"
    BY <2>5
  <2> QED
    BY <1>1, <1>3, <2>7, <2>9, <2>12, <2>13, <2>14, AppBegins
<1>6. CASE ~(appRow[n] = None /\ row.port \notin UsedPorts)
  <2>1. /\ appTask' = [appTask EXCEPT ![i] = [AppIdle EXCEPT !.kind = "create"]]
        /\ UNCHANGED <<appRow, appMixed>>
    BY <1>6 DEF AppInsert
  <2> PICK idle : idle = AppIdle
    OBVIOUS
  <2> DEFINE t == [idle EXCEPT !.kind = "create"]
  <2>2. appTask' = [appTask EXCEPT ![i] = t]
    BY <2>1
  <2>3. t \in AppTaskRecord /\ t.pc = "off" /\ t.kind = "create"
    BY <1>3, AppIdleTyped DEF AppTaskRecord
  <2> HIDE DEF t
  <2> QED
    BY <1>1, <1>2, <1>3, <2>1, <2>2, <2>3, AppQuits
<1> QED
  BY <1>5, <1>6

-----------------------------------------------------------------------------
\* Steps of a task.

LEMMA AppUndoesFrom ==
    ASSUME NEW i, NEW n \in 0 .. 5
    PROVE  UndoFrom(i, n) = IF appTask[i].kind = "create" /\ n >= 2 THEN n ELSE 0
<1> DEFINE T == {j \in AppUndoable : j <= n}
<1>1. T \in SUBSET (0 .. 5)
  BY DEF AppUndoable
<1>2. n >= 2 => n \in T
  BY DEF AppUndoable
<1>3. n < 2 => T = {}
  BY DEF AppUndoable
<1>4. \A j \in T : j <= n
  OBVIOUS
<1>5. UndoFrom(i, n) = IF appTask[i].kind = "create" THEN Greatest(T) ELSE 0
  BY DEF UndoFrom
<1> HIDE DEF T
<1>6. CASE n >= 2
  <2>1. Greatest(T) \in T /\ n <= Greatest(T)
    <3>1. 5 \in Nat /\ T # {}
      BY <1>2, <1>6
    <3>2. Greatest(T) \in T /\ \A j \in T : j <= Greatest(T)
      BY <1>1, <3>1, GreatestIn
    <3> QED
      BY <1>2, <1>6, <3>2
  <2>2. Greatest(T) = n
    <3> PICK g : g = Greatest(T)
      OBVIOUS
    <3>1. g \in T /\ n <= g
      BY <2>1
    <3>2. g \in 0 .. 5 /\ g <= n
      BY <1>1, <1>4, <3>1
    <3>3. g = n
      BY <3>1, <3>2
    <3> QED
      BY <3>3
  <2> QED
    BY <1>5, <1>6, <2>2
<1>7. CASE n < 2
  <2>1. Greatest(T) = 0
    BY <1>3, <1>7 DEF Greatest
  <2> QED
    BY <1>5, <1>7, <2>1
<1> QED
  BY <1>6, <1>7

LEMMA AppStepIs ==
    ASSUME NEW i
    PROVE  LET at == appTask[i].at IN
           /\ appTask[i].kind = "create" =>
                /\ at = 1 => AppStep(i) = "image"
                /\ at = 2 => AppStep(i) = "app_dir"
                /\ at = 3 => AppStep(i) = "network"
                /\ at = 4 => AppStep(i) = "container"
                /\ at = 5 => AppStep(i) = "caddy"
                /\ at = 6 => AppStep(i) = "finalize"
           /\ appTask[i].kind = "delete" =>
                /\ at = 1 => AppStep(i) = "caddy"
                /\ at = 2 => AppStep(i) = "container"
                /\ at = 3 => AppStep(i) = "network"
                /\ at = 4 => AppStep(i) = "app_dir"
                /\ at = 5 => AppStep(i) = "finalize"
           /\ appTask[i].kind \in AppControls =>
                /\ at = 1 => AppStep(i) = "command"
                /\ at = 2 => AppStep(i) = "record"
<1>1. CASE appTask[i].kind = "create"
  BY <1>1 DEF AppStep, AppSteps, AppControls
<1>2. CASE appTask[i].kind = "delete"
  BY <1>2 DEF AppStep, AppSteps, AppControls
<1>3. CASE appTask[i].kind = "start"
  BY <1>3 DEF AppStep, AppSteps, AppControls
<1>4. CASE appTask[i].kind = "stop"
  BY <1>4 DEF AppStep, AppSteps, AppControls
<1>5. CASE appTask[i].kind = "restart"
  BY <1>5 DEF AppStep, AppSteps, AppControls
<1> QED
  BY <1>1, <1>2, <1>3, <1>4, <1>5 DEF AppControls

\* An identity that was never worked on by two has one task and one row.
LEMMA AppAloneAt ==
    ASSUME AppStrong, NEW i \in AppRequests, AppWorks(i), AppQuiet(appTask[i].id)
    PROVE  LET n == appTask[i].name IN
           /\ \A j \in AppRequests : AppWorks(j) /\ appTask[j].id = appTask[i].id => j = i
           /\ n \in AppNames /\ AppRowOf(appTask[i].id) = {n}
           /\ appRow[n] # None /\ appRow[n].id = appTask[i].id
           /\ appRow[n].port = appTask[i].port /\ appRow[n].status = appTask[i].was
<1> DEFINE d == appTask[i].id
           n == appTask[i].name
<1>1. d \in AppIds /\ n \in AppNames
  BY DEF AppStrong, AppWholes, AppTaskWhole, AppWorks
<1>2. AppAlone(d, n)
  <2>1. [id |-> d, name |-> n] \notin appMixed
    BY DEF AppQuiet
  <2> QED
    BY <1>1, <2>1 DEF AppStrong, AppLanes, AppLane
<1>3. /\ appRow[n] # None /\ appRow[n].id = d
      /\ appRow[n].port = appTask[i].port /\ appRow[n].status = appTask[i].was
  BY <1>2 DEF AppAlone
<1>4. ASSUME NEW j \in AppRequests, AppWorks(j), appTask[j].id = d PROVE j = i
  BY <1>2, <1>3, <1>4 DEF AppAlone
<1>5. AppRowOf(d) = {n}
  BY <1>1, <1>3 DEF AppRowOf, AppStrong, AppNumbered
<1> QED
  BY <1>1, <1>3, <1>4, <1>5

\* Task i goes on or ends, and touches nothing but what belongs to its identity.
AppTurns(i, t) ==
    /\ appTask' = [appTask EXCEPT ![i] = t] /\ t \in AppTaskRecord /\ AppTaskWhole(t)
    /\ t.kind = appTask[i].kind /\ t.pc \in {"off", "do", "undo"}
    /\ t.pc # "off" => /\ t.id = appTask[i].id /\ t.name = appTask[i].name
                       /\ t.port = appTask[i].port /\ t.was = appTask[i].was
    /\ UNCHANGED <<appRow, appMixed, appCut>> /\ appLeft \subseteq appLeft'
    /\ appBox' \in [AppIds -> AppBoxes \cup {None}]
    /\ appParts' \in [AppIds -> SUBSET {"app_dir", "network"}]
    /\ \A e \in AppIds : e # appTask[i].id => appBox'[e] = appBox[e] /\ appParts'[e] = appParts[e]
    /\ appFaults' \in 0 .. AppMaxFaults

LEMMA AppTurnsSound ==
    ASSUME AppStrong, NEW i \in AppRequests, AppWorks(i), NEW t, AppTurns(i, t),
           AppRoutesInTime', appRoute' \in AppRouting, appStale' \in BOOLEAN,
           NEW d, d = appTask[i].id, NEW was, was = appTask[i].was,
           AppQuiet(d) => /\ appBox'[d] # None => appBox'[d].port = appTask[i].port
                          /\ t.pc # "off" => AppWorkSound(d, t)'
                          /\ t.pc = "off" /\ d \notin appCut => AppStatusSound(d, was)'
    PROVE  AppStrong'
<1>1. appTask' = [appTask EXCEPT ![i] = t] /\ t \in AppTaskRecord /\ AppTaskWhole(t)
  BY DEF AppTurns
<1>2. /\ appTask' \in [AppRequests -> AppTaskRecord] /\ appTask'[i] = t
      /\ \A j \in AppRequests : j # i => appTask'[j] = appTask[j]
      /\ AppWholes'
  BY <1>1, AppTaskSet DEF AppStrong
<1>3. AppShapes'
  BY <1>2 DEF AppStrong, AppShapes, AppTurns
<1>4. AppTaskWhole(appTask[i]) /\ appTask[i].kind \in AppKinds /\ appTask[i].id \in AppIds
  BY DEF AppStrong, AppWholes, AppTaskWhole, AppWorks
<1>5. AppLanes'
  <2>1. \A j \in AppRequests : AppStays(j)
    BY <1>2 DEF AppStays, AppWorks, AppTurns
  <2> QED
    BY <2>1, AppLanesKept DEF AppStrong, AppTurns
<1>6. AppNumbered'
  <2>1. AppBegun \subseteq AppBegun'
    BY <1>2, <1>4, AppNones DEF AppBegun, AppTurns
  <2> QED
    BY <2>1, AppNumberedKept DEF AppStrong, AppTurns
<1>7. ASSUME NEW e \in AppIds, e # d PROVE AppIdSound(e)'
  <2>1. AppSettled(e)' => AppSettled(e)
    BY <1>2, <1>7 DEF AppSettled, AppBusy
  <2>2. \A j \in AppRequests : AppWorks(j)' /\ appTask'[j].id = e => j # i
    BY <1>2, <1>7 DEF AppTurns, AppWorks
  <2>3. \A j \in AppRequests : AppWorks(j)' /\ appTask'[j].id = e =>
         /\ AppWorks(j) /\ appTask[j].id = e /\ appTask'[j].kind = appTask[j].kind
         /\ appTask'[j].pc = appTask[j].pc /\ appTask'[j].at = appTask[j].at
         /\ appTask'[j].was = appTask[j].was
    BY <1>2, <2>2 DEF AppWorks
  <2>4. AppQuiet(e)' => AppQuiet(e)
    BY DEF AppTurns, AppQuiet
  <2>5. \A n \in AppNames : /\ n \in AppRowOf(e)' <=> n \in AppRowOf(e)
                            /\ n \in AppRowOf(e) => appRow'[n] = appRow[n]
    BY DEF AppTurns, AppRowOf
  <2>6. AppUntouched(e)
    BY <1>7, <2>1, <2>3, <2>4, <2>5 DEF AppUntouched, AppTurns
  <2> QED
    BY <1>7, <2>6, AppIdKept DEF AppStrong
<1>8. ASSUME AppQuiet(d)' PROVE AppIdSound(d)'
  <2>1. AppQuiet(d)
    BY <1>8 DEF AppQuiet, AppTurns
  <2> PICK n : n = appTask[i].name
    OBVIOUS
  <2>2. /\ \A j \in AppRequests : AppWorks(j) /\ appTask[j].id = d => j = i
        /\ n \in AppNames /\ AppRowOf(d) = {n}
        /\ appRow[n] # None /\ appRow[n].id = d
        /\ appRow[n].port = appTask[i].port /\ appRow[n].status = appTask[i].was
    BY <2>1, AppAloneAt
  <2>3. AppRowOf(d)' = {n} /\ appRow'[n] = appRow[n]
    BY <2>2 DEF AppRowOf, AppTurns
  <2>4. \A j \in AppRequests : AppWorks(j)' /\ appTask'[j].id = d => j = i /\ t.pc # "off"
    BY <1>2, <2>2 DEF AppWorks
  <2>5. appBox'[d] # None => appBox'[d].port = appRow'[n].port
    BY <2>1, <2>2, <2>3
  <2>6. \A j \in AppRequests : AppWorks(j)' /\ appTask'[j].id = d => AppWorkSound(d, appTask[j])'
    <3> SUFFICES ASSUME NEW j \in AppRequests, AppWorks(j)', appTask'[j].id = d
                 PROVE  AppWorkSound(d, appTask[j])'
      OBVIOUS
    <3>1. appTask'[j] = t /\ t.pc # "off"
      BY <1>2, <2>4
    <3>2. AppWorkSound(d, t)'
      BY <2>1, <3>1
    <3> QED
      BY <3>1, <3>2 DEF AppWorkSound
  <2>7. ASSUME d \notin appCut', AppSettled(d)' PROVE AppStatusSound(d, appRow[n].status)'
    <3>1. t.pc = "off"
      BY <1>2, <2>7 DEF AppSettled, AppBusy, AppTurns
    <3>2. AppStatusSound(d, was)'
      BY <2>1, <2>7, <3>1 DEF AppTurns
    <3>3. appRow'[n].status = was
      BY <2>2, <2>3
    <3> QED
      BY <3>2, <3>3
  <2> QED
    BY <2>3, <2>5, <2>6, <2>7 DEF AppIdSound
<1>9. AppIdSound(d)'
  BY <1>8 DEF AppIdSound
<1> QED
  BY <1>2, <1>3, <1>5, <1>6, <1>7, <1>9 DEF AppStrong

LEMMA AppGoes ==
    ASSUME AppStrong, NEW i \in AppRequests, AppWorks(i), NEW pc \in {"do", "undo"}, NEW at \in 0 .. 6,
           appTask[i].kind \in AppControls => pc = "do", AppPlace(appTask[i].kind, pc, at),
           AppGoto(i, pc, at)
    PROVE  \E t \in AppTaskRecord :
             /\ appTask' = [appTask EXCEPT ![i] = t] /\ AppTaskWhole(t)
             /\ t.kind = appTask[i].kind /\ t.id = appTask[i].id /\ t.name = appTask[i].name
             /\ t.port = appTask[i].port /\ t.was = appTask[i].was /\ t.pc = pc /\ t.at = at
<1> PICK old : old = appTask[i]
  OBVIOUS
<1> DEFINE t == [old EXCEPT !.pc = pc, !.at = at, !.config = None]
<1>1. old \in AppTaskRecord /\ AppTaskWhole(old) /\ old.pc \in {"do", "undo"}
  BY DEF AppStrong, AppShapes, AppWholes, AppWorks
<1>2. appTask' = [appTask EXCEPT ![i] = t]
  BY DEF AppGoto, AppStrong, AppShapes
<1>3. /\ t \in AppTaskRecord /\ t.kind = old.kind /\ t.id = old.id /\ t.name = old.name
      /\ t.port = old.port /\ t.was = old.was /\ t.pc = pc /\ t.at = at
  BY <1>1 DEF AppTaskRecord
<1> HIDE DEF t
<1>4. AppTaskWhole(t)
  BY <1>1, <1>3 DEF AppTaskWhole
<1> QED
  BY <1>2, <1>3, <1>4

LEMMA AppEnds ==
    ASSUME AppStrong, NEW i \in AppRequests, AppWorks(i), AppEnd(i)
    PROVE  \E t \in AppTaskRecord : /\ appTask' = [appTask EXCEPT ![i] = t] /\ AppTaskWhole(t)
                                    /\ t.kind = appTask[i].kind /\ t.pc = "off"
<1> PICK idle : idle = AppIdle
  OBVIOUS
<1> PICK kind : kind = appTask[i].kind
  OBVIOUS
<1> DEFINE t == [idle EXCEPT !.kind = kind]
<1>1. kind \in AppKinds
  BY DEF AppStrong, AppWholes, AppTaskWhole, AppWorks
<1>2. appTask' = [appTask EXCEPT ![i] = t]
  BY DEF AppEnd
<1>3. t \in AppTaskRecord /\ t.kind = kind /\ t.pc = "off"
  BY <1>1, AppIdleTyped DEF AppTaskRecord
<1> HIDE DEF t
<1>4. AppTaskWhole(t)
  BY <1>3 DEF AppTaskWhole, AppPlace
<1> QED
  BY <1>2, <1>3, <1>4

\* The work of a task that only goes on is as sound as it was, where its step
\* says nothing new.
LEMMA AppSoundNow ==
    ASSUME AppStrong, NEW i \in AppRequests, AppWorks(i), NEW d, d = appTask[i].id, AppQuiet(d)
    PROVE  /\ d \in AppIds /\ AppWorkSound(d, appTask[i])
           /\ appBox[d] # None => appBox[d].port = appTask[i].port
<1>1. d \in AppIds
  BY DEF AppStrong, AppWholes, AppTaskWhole, AppWorks
<1>2. AppRowOf(d) = {appTask[i].name} /\ appRow[appTask[i].name].port = appTask[i].port
  BY AppAloneAt
<1> QED
  BY <1>1, <1>2 DEF AppStrong, AppIdSound

LEMMA AppRoutesTurn ==
    ASSUME AppStrong, NEW i \in AppRequests, AppWorks(i), NEW t, AppTurns(i, t),
           UNCHANGED <<appRoute, appStale>>, AppUnserved(t) => AppUnserved(appTask[i])
    PROVE  AppRoutesInTime' /\ appRoute' \in AppRouting /\ appStale' \in BOOLEAN
<1>1. appTask' = [appTask EXCEPT ![i] = t] /\ appTask \in [AppRequests -> AppTaskRecord]
  BY DEF AppTurns, AppStrong, AppShapes
<1>2. \A j \in AppRequests : AppUnserved(appTask[j])' =>
               AppUnserved(appTask[j]) /\ appTask'[j].name = appTask[j].name
  BY <1>1 DEF AppUnserved, AppTurns
<1>3. \A n \in AppNames : appRow[n] # None => appRow'[n] # None /\ appRow'[n].port = appRow[n].port
  BY DEF AppTurns
<1>4. AppRoutesInTime'
  BY <1>2, <1>3, AppRoutesKept DEF AppStrong, AppTurns
<1> QED
  BY <1>4 DEF AppStrong, AppShapes

LEMMA AppServedTyped ==
    ASSUME AppShapes, NEW i PROVE AppServed(i) \in AppRouting
  BY AppNones DEF AppServed, AppRouting, AppShapes, AppRows

LEMMA AppBuilds ==
    ASSUME AppStrong, NEW i \in AppRequests, AppBuild(i)
    PROVE  AppStrong'
<1> PICK old : old = appTask[i]
  OBVIOUS
<1> PICK config : config = [routes |-> AppServed(i), before |-> appRoute]
  OBVIOUS
<1> DEFINE t == [old EXCEPT !.config = config]
<1>1. /\ AppWorks(i) /\ appTask' = [appTask EXCEPT ![i] = t]
      /\ UNCHANGED <<appRow, appParts, appBox, appRoute, appFaults, appLeft, appMixed, appCut, appStale>>
  BY DEF AppBuild, AppAtCaddy, AppWorks, appHistory, AppStrong, AppShapes
<1>2. old \in AppTaskRecord /\ AppTaskWhole(old) /\ old.pc \in {"do", "undo"}
  BY <1>1 DEF AppStrong, AppShapes, AppWholes, AppWorks
<1>3. config \in [routes : AppRouting, before : AppRouting]
  <2>1. AppServed(i) \in AppRouting /\ appRoute \in AppRouting
    BY AppServedTyped DEF AppStrong, AppShapes
  <2> QED
    BY <2>1
<1>4. /\ t \in AppTaskRecord /\ t.kind = old.kind /\ t.id = old.id /\ t.name = old.name
      /\ t.port = old.port /\ t.was = old.was /\ t.pc = old.pc /\ t.at = old.at
  BY <1>2, <1>3 DEF AppTaskRecord
<1> HIDE DEF t
<1>5. AppTaskWhole(t) /\ (AppUnserved(t) => AppUnserved(old))
  BY <1>2, <1>4 DEF AppTaskWhole, AppUnserved
<1>6. AppTurns(i, t)
  BY <1>1, <1>2, <1>4, <1>5 DEF AppTurns, AppStrong, AppShapes
<1>7. AppRoutesInTime' /\ appRoute' \in AppRouting /\ appStale' \in BOOLEAN
  BY <1>1, <1>5, <1>6, AppRoutesTurn
<1> PICK d : d = appTask[i].id
  OBVIOUS
<1> PICK was : was = appTask[i].was
  OBVIOUS
<1>8. ASSUME AppQuiet(d)
      PROVE  /\ appBox'[d] # None => appBox'[d].port = appTask[i].port
             /\ AppWorkSound(d, t)'
  <2>1. AppWorkSound(d, old) /\ (appBox[d] # None => appBox[d].port = appTask[i].port)
    BY <1>1, <1>8, AppSoundNow
  <2>2. AppWorkSound(d, t)
    BY <1>4, <2>1 DEF AppWorkSound
  <2>3. AppWorkSound(d, t)'
    BY <1>1, <2>2, AppWorkKept
  <2> QED
    BY <1>1, <2>1, <2>3
<1> QED
  BY <1>1, <1>2, <1>4, <1>6, <1>7, <1>8, AppTurnsSound

LEMMA AppAtCaddyIs ==
    ASSUME AppStrong, NEW i \in AppRequests, AppAtCaddy(i)
    PROVE  /\ AppWorks(i) /\ appTask[i] \in AppTaskRecord /\ AppTaskWhole(appTask[i])
           /\ \/ appTask[i].kind = "create" /\ appTask[i].at = 5
              \/ appTask[i].kind = "delete" /\ appTask[i].at = 1 /\ appTask[i].pc = "do"
<1>1. AppWorks(i) /\ appTask[i] \in AppTaskRecord /\ AppTaskWhole(appTask[i])
  BY DEF AppAtCaddy, AppWorks, AppStrong, AppShapes, AppWholes
<1>2. appTask[i].at \in 1 .. 6 /\ AppStep(i) = "caddy"
  BY <1>1 DEF AppAtCaddy, AppTaskRecord
<1>3. appTask[i].kind \in {"create", "delete"} \cup AppControls
  BY <1>1 DEF AppTaskWhole, AppWorks, AppKinds
<1>4. AppPlace(appTask[i].kind, appTask[i].pc, appTask[i].at) /\ appTask[i].pc \in {"do", "undo"}
  BY <1>1 DEF AppTaskWhole, AppWorks
<1>5. CASE appTask[i].kind = "create"
  BY <1>1, <1>2, <1>5, AppStepIs
<1>6. CASE appTask[i].kind = "delete"
  <2>1. appTask[i].pc = "do" /\ appTask[i].at \in 1 .. 5
    BY <1>2, <1>4, <1>6 DEF AppPlace
  <2> QED
    BY <1>1, <1>2, <1>6, <2>1, AppStepIs
<1>7. CASE appTask[i].kind \in AppControls
  <2>1. appTask[i].at \in {1, 2}
    BY <1>2, <1>4, <1>7 DEF AppPlace, AppControls
  <2> QED
    BY <1>2, <1>7, <2>1, AppStepIs
<1> QED
  BY <1>3, <1>5, <1>6, <1>7

\* A failed step, or one undone, gives way to the last that has an undo.
LEMMA AppGoesBack ==
    ASSUME AppStrong, NEW i \in AppRequests, AppWorks(i), appTask[i].at > 0,
           appTask[i].kind \notin AppControls, AppGoto(i, "undo", UndoFrom(i, appTask[i].at - 1))
    PROVE  \E t \in AppTaskRecord :
             /\ appTask' = [appTask EXCEPT ![i] = t] /\ AppTaskWhole(t)
             /\ t.kind = appTask[i].kind /\ t.id = appTask[i].id /\ t.name = appTask[i].name
             /\ t.port = appTask[i].port /\ t.was = appTask[i].was /\ t.pc = "undo"
             /\ t.at = IF appTask[i].kind = "create" /\ appTask[i].at >= 3
                       THEN appTask[i].at - 1 ELSE 0
<1>1. appTask[i] \in AppTaskRecord /\ appTask[i].at \in 1 .. 6
  BY DEF AppStrong, AppShapes, AppTaskRecord
<1> PICK at : at = UndoFrom(i, appTask[i].at - 1)
  OBVIOUS
<1>2. at = IF appTask[i].kind = "create" /\ appTask[i].at - 1 >= 2 THEN appTask[i].at - 1 ELSE 0
  <2> PICK n \in 0 .. 5 : n = appTask[i].at - 1
    BY <1>1
  <2> QED
    BY AppUndoesFrom
<1>3. at = IF appTask[i].kind = "create" /\ appTask[i].at >= 3 THEN appTask[i].at - 1 ELSE 0
  BY <1>1, <1>2
<1>4. at \in 0 .. 6 /\ AppPlace(appTask[i].kind, "undo", at)
  <2>1. CASE appTask[i].kind = "create" /\ appTask[i].at >= 3
    <3>1. at \in {2, 3, 4, 5}
      BY <1>1, <1>3, <2>1
    <3> QED
      BY <2>1, <3>1 DEF AppPlace
  <2>2. CASE ~(appTask[i].kind = "create" /\ appTask[i].at >= 3)
    <3>1. at = 0
      BY <1>3, <2>2
    <3> QED
      BY <3>1 DEF AppPlace
  <2> QED
    BY <2>1, <2>2
<1>5. \E t \in AppTaskRecord :
             /\ appTask' = [appTask EXCEPT ![i] = t] /\ AppTaskWhole(t)
             /\ t.kind = appTask[i].kind /\ t.id = appTask[i].id /\ t.name = appTask[i].name
             /\ t.port = appTask[i].port /\ t.was = appTask[i].was /\ t.pc = "undo" /\ t.at = at
  <2>1. AppGoto(i, "undo", at)
    OBVIOUS
  <2> QED
    BY <1>4, <2>1, AppGoes
<1> QED
  BY <1>3, <1>5

\* What comes after a step that was done, or undone.
LEMMA AppGoesOn ==
    ASSUME AppStrong, NEW i \in AppRequests, AppWorks(i), appTask[i].at > 0,
           AppStep(i) \notin {"finalize", "record"},
           IF appTask[i].pc = "do" THEN AppGoto(i, "do", appTask[i].at + 1)
           ELSE AppGoto(i, "undo", UndoFrom(i, appTask[i].at - 1))
    PROVE  \E t \in AppTaskRecord :
             /\ appTask' = [appTask EXCEPT ![i] = t] /\ AppTaskWhole(t)
             /\ t.kind = appTask[i].kind /\ t.id = appTask[i].id /\ t.name = appTask[i].name
             /\ t.port = appTask[i].port /\ t.was = appTask[i].was /\ t.pc = appTask[i].pc
             /\ t.pc = "do" => t.at = appTask[i].at + 1
             /\ t.pc = "undo" => t.at = IF appTask[i].at >= 3 THEN appTask[i].at - 1 ELSE 0
<1>1. /\ appTask[i] \in AppTaskRecord /\ AppTaskWhole(appTask[i])
      /\ appTask[i].at \in 1 .. 6 /\ appTask[i].pc \in {"do", "undo"}
      /\ appTask[i].kind \in {"create", "delete"} \cup AppControls
  BY DEF AppStrong, AppShapes, AppWholes, AppTaskRecord, AppTaskWhole, AppWorks, AppKinds
<1>2. AppPlace(appTask[i].kind, appTask[i].pc, appTask[i].at)
  BY <1>1 DEF AppTaskWhole
<1>3. CASE appTask[i].pc = "do"
  <2>1. AppPlace(appTask[i].kind, "do", appTask[i].at + 1) /\ appTask[i].at + 1 \in 0 .. 6
    <3>1. CASE appTask[i].kind = "create"
      <4>1. appTask[i].at \in 1 .. 6 /\ appTask[i].at # 6
        BY <1>1, <3>1, AppStepIs
      <4> QED
        BY <3>1, <4>1 DEF AppPlace
    <3>2. CASE appTask[i].kind = "delete"
      <4>1. appTask[i].at \in 1 .. 5 /\ appTask[i].at # 5
        BY <1>2, <1>3, <3>2, AppStepIs DEF AppPlace
      <4> QED
        BY <3>2, <4>1 DEF AppPlace
    <3>3. CASE appTask[i].kind \in AppControls
      <4>1. appTask[i].at \in 1 .. 2 /\ appTask[i].at # 2
        BY <1>2, <1>3, <3>3, AppStepIs DEF AppPlace, AppControls
      <4> QED
        BY <3>3, <4>1 DEF AppPlace, AppControls
    <3> QED
      BY <1>1, <3>1, <3>2, <3>3
  <2> PICK at \in 0 .. 6 : at = appTask[i].at + 1
    BY <2>1
  <2>2. \E t \in AppTaskRecord :
             /\ appTask' = [appTask EXCEPT ![i] = t] /\ AppTaskWhole(t)
             /\ t.kind = appTask[i].kind /\ t.id = appTask[i].id /\ t.name = appTask[i].name
             /\ t.port = appTask[i].port /\ t.was = appTask[i].was /\ t.pc = "do" /\ t.at = at
    <3>1. AppGoto(i, "do", at) /\ AppPlace(appTask[i].kind, "do", at)
      BY <1>3, <2>1
    <3> QED
      BY <3>1, AppGoes
  <2> QED
    BY <1>3, <2>2
<1>4. CASE appTask[i].pc = "undo"
  <2>1. appTask[i].kind = "create" /\ appTask[i].at \in {2, 3, 4, 5}
    BY <1>1, <1>2, <1>4 DEF AppPlace, AppTaskWhole
  <2>2. appTask[i].kind \notin AppControls
    BY <2>1 DEF AppControls
  <2> QED
    BY <1>4, <2>1, <2>2, AppGoesBack
<1> QED
  BY <1>1, <1>3, <1>4

LEMMA AppLoads ==
    ASSUME AppStrong, NEW i \in AppRequests, AppLoad(i)
    PROVE  AppStrong'
<1>1. /\ AppAtCaddy(i) /\ appTask[i].config # None /\ appRoute' = appTask[i].config.routes
      /\ appStale' = (appStale \/ appTask[i].config.routes # AppServed(i))
      /\ IF appTask[i].pc = "do" THEN AppGoto(i, "do", appTask[i].at + 1)
         ELSE AppGoto(i, "undo", UndoFrom(i, appTask[i].at - 1))
      /\ UNCHANGED <<appRow, appParts, appBox, appFaults, appLeft, appMixed, appCut>>
  BY DEF AppLoad
<1>2. /\ AppWorks(i) /\ appTask[i] \in AppTaskRecord /\ AppTaskWhole(appTask[i])
      /\ \/ appTask[i].kind = "create" /\ appTask[i].at = 5
         \/ appTask[i].kind = "delete" /\ appTask[i].at = 1 /\ appTask[i].pc = "do"
  BY <1>1, AppAtCaddyIs
<1>3. PICK t \in AppTaskRecord :
             /\ appTask' = [appTask EXCEPT ![i] = t] /\ AppTaskWhole(t)
             /\ t.kind = appTask[i].kind /\ t.id = appTask[i].id /\ t.name = appTask[i].name
             /\ t.port = appTask[i].port /\ t.was = appTask[i].was /\ t.pc = appTask[i].pc
             /\ t.pc = "do" => t.at = appTask[i].at + 1
             /\ t.pc = "undo" => t.at = IF appTask[i].at >= 3 THEN appTask[i].at - 1 ELSE 0
  <2>1. AppStep(i) = "caddy" /\ appTask[i].at > 0
    BY <1>1 DEF AppAtCaddy
  <2> QED
    BY <1>1, <1>2, <2>1, AppGoesOn
<1>4. AppTurns(i, t)
  BY <1>1, <1>2, <1>3 DEF AppTurns, AppStrong, AppShapes, AppWorks
<1>5. appRoute' \in AppRouting /\ appStale' \in BOOLEAN
  BY <1>1, <1>2 DEF AppTaskRecord
<1>6. AppRoutesInTime'
  <2> SUFFICES ASSUME ~appStale', NEW n \in AppNames, \A e \in appMixed' : e.name # n
               PROVE  /\ appRoute'[n] # None => appRow'[n] # None /\ appRow'[n].port = appRoute'[n]
                      /\ \A j \in AppRequests :
                           AppUnserved(appTask[j])' /\ appTask'[j].name = n => appRoute'[n] = None
    BY DEF AppRoutesInTime
  <2>1. appRoute' = AppServed(i)
    BY <1>1
  <2>2. /\ appRoute'[n] # None => /\ appRow[n] # None /\ appRow[n].status # "deleting"
                                  /\ appRow[n].port = appRoute'[n]
                                  /\ ~(n = appTask[i].name /\ appTask[i].kind = "delete")
    BY <2>1 DEF AppServed
  <2>3. ASSUME NEW j \in AppRequests, AppUnserved(appTask[j])', appTask'[j].name = n
        PROVE  appRoute'[n] = None
    <3>1. CASE j = i
      BY <1>2, <1>3, <2>2, <2>3, <3>1 DEF AppUnserved, AppStrong, AppShapes
    <3>2. CASE j # i
      <4>1. AppUnserved(appTask[j]) /\ appTask[j].name = n
        BY <1>3, <2>3, <3>2 DEF AppUnserved, AppStrong, AppShapes
      <4>2. AppWorks(j) /\ appTask[j].was = "deleting" /\ appTask[j].id \in AppIds
        BY <4>1 DEF AppUnserved, AppWorks, AppStrong, AppWholes, AppTaskWhole
      <4>3. [id |-> appTask[j].id, name |-> n] \notin appMixed
        BY <1>1
      <4>4. AppAlone(appTask[j].id, n)
        BY <4>2, <4>3 DEF AppStrong, AppLanes, AppLane
      <4>5. appRow[n].status = "deleting"
        BY <4>1, <4>2, <4>4 DEF AppAlone
      <4> QED
        BY <2>2, <4>5
    <3> QED
      BY <3>1, <3>2
  <2> QED
    BY <1>1, <2>2, <2>3
<1> PICK d : d = appTask[i].id
  OBVIOUS
<1> PICK was : was = appTask[i].was
  OBVIOUS
<1>7. ASSUME AppQuiet(d)
      PROVE  /\ appBox'[d] # None => appBox'[d].port = appTask[i].port
             /\ AppWorkSound(d, t)'
  <2>1. AppWorkSound(d, appTask[i]) /\ (appBox[d] # None => appBox[d].port = appTask[i].port)
    BY <1>2, <1>7, AppSoundNow
  <2>2. AppWorkSound(d, t)
    BY <1>2, <1>3, <2>1 DEF AppWorkSound, AppControls, AppWorks
  <2>3. AppWorkSound(d, t)'
    BY <1>1, <2>2, AppWorkKept
  <2> QED
    BY <1>1, <2>1, <2>3
<1>8. t.pc # "off"
  BY <1>2, <1>3 DEF AppWorks
<1> QED
  BY <1>2, <1>4, <1>5, <1>6, <1>7, <1>8, AppTurnsSound

LEMMA AppLoadingFails ==
    ASSUME AppStrong, NEW i \in AppRequests, AppLoadFails(i)
    PROVE  AppStrong'
<1>1. /\ AppAtCaddy(i) /\ appTask[i].config # None /\ appFaults < AppMaxFaults
      /\ appFaults' = appFaults + 1
      /\ \/ UNCHANGED <<appRoute, appStale>>
         \/ /\ appRoute' = appTask[i].config.before
            /\ appStale' = (appStale \/ appTask[i].config.before # appRoute)
      /\ appLeft' = appLeft \cup {<<appTask[i].id, appTask[i].kind, "caddy">>}
      /\ AppGoto(i, "undo", UndoFrom(i, appTask[i].at - 1))
      /\ UNCHANGED <<appRow, appParts, appBox, appMixed, appCut>>
  BY DEF AppLoadFails, AppFault
<1>2. /\ AppWorks(i) /\ appTask[i] \in AppTaskRecord /\ AppTaskWhole(appTask[i])
      /\ \/ appTask[i].kind = "create" /\ appTask[i].at = 5
         \/ appTask[i].kind = "delete" /\ appTask[i].at = 1 /\ appTask[i].pc = "do"
  BY <1>1, AppAtCaddyIs
<1>3. PICK t \in AppTaskRecord :
             /\ appTask' = [appTask EXCEPT ![i] = t] /\ AppTaskWhole(t)
             /\ t.kind = appTask[i].kind /\ t.id = appTask[i].id /\ t.name = appTask[i].name
             /\ t.port = appTask[i].port /\ t.was = appTask[i].was /\ t.pc = "undo"
             /\ t.at = IF appTask[i].kind = "create" /\ appTask[i].at >= 3
                       THEN appTask[i].at - 1 ELSE 0
  <2>1. appTask[i].at > 0 /\ appTask[i].kind \notin AppControls
    BY <1>2 DEF AppControls
  <2> QED
    BY <1>1, <1>2, <2>1, AppGoesBack
<1>4. appFaults' \in 0 .. AppMaxFaults
  BY <1>1, AppAssumption DEF AppStrong, AppShapes
<1>5. AppTurns(i, t) /\ ~AppUnserved(t)
  BY <1>1, <1>2, <1>3, <1>4 DEF AppTurns, AppUnserved, AppStrong, AppShapes, AppWorks
<1>6. AppRoutesInTime' /\ appRoute' \in AppRouting /\ appStale' \in BOOLEAN
  <2>1. CASE UNCHANGED <<appRoute, appStale>>
    BY <1>2, <1>5, <2>1, AppRoutesTurn
  <2>2. CASE ~UNCHANGED <<appRoute, appStale>>
    <3>1. /\ appRoute' = appTask[i].config.before
          /\ appStale' = (appStale \/ appTask[i].config.before # appRoute)
      BY <1>1, <2>2
    <3>2. appRoute' \in AppRouting /\ appStale' \in BOOLEAN
      BY <1>1, <1>2, <3>1 DEF AppTaskRecord
    <3>3. appStale'
      <4>1. appStale \in BOOLEAN
        BY DEF AppStrong, AppShapes
      <4> QED
        BY <2>2, <3>1, <4>1
    <3>4. AppRoutesInTime'
      BY <3>3 DEF AppRoutesInTime
    <3> QED
      BY <3>2, <3>4
  <2> QED
    BY <2>1, <2>2
<1> PICK d : d = appTask[i].id
  OBVIOUS
<1> PICK was : was = appTask[i].was
  OBVIOUS
<1>7. ASSUME AppQuiet(d)
      PROVE  /\ appBox'[d] # None => appBox'[d].port = appTask[i].port
             /\ AppWorkSound(d, t)'
  <2>1. AppWorkSound(d, appTask[i]) /\ (appBox[d] # None => appBox[d].port = appTask[i].port)
    BY <1>2, <1>7, AppSoundNow
  <2>2. CASE appTask[i].kind = "create"
    <3>1. t.kind = "create" /\ t.pc = "undo" /\ t.at = 4
      BY <1>2, <1>3, <2>2
    <3> QED
      BY <1>1, <2>1, <3>1 DEF AppWorkSound, AppControls
  <2>3. CASE appTask[i].kind = "delete"
    <3>1. t.kind = "delete" /\ t.pc = "undo" /\ t.at = 0
      BY <1>2, <1>3, <2>3
    <3>2. d \notin appCut => AppTouched(d) \/ (appBox[d] # None => AppWhole(d))
      BY <1>2, <2>1, <2>3 DEF AppWorkSound
    <3>3. d \notin appCut' => (AppTouched(d) \/ (appBox[d] # None => AppWhole(d)))'
      BY <1>1, <3>2 DEF AppTouched, FailedAt, AppWhole
    <3>4. <<d, "delete", "caddy">> \in appLeft'
      BY <1>1, <2>3
    <3>5. AppExcused(d)'
      BY <3>4 DEF AppExcused
    <3>6. AppWorkSound(d, t)'
      BY <3>1, <3>3, <3>5 DEF AppWorkSound, AppControls
    <3> QED
      BY <1>1, <2>1, <3>6
  <2> QED
    BY <1>2, <2>2, <2>3
<1>8. t.pc # "off"
  BY <1>3
<1> QED
  BY <1>2, <1>5, <1>6, <1>7, <1>8, AppTurnsSound

-----------------------------------------------------------------------------
\* Commands.

AppCommands == {"image", "app_dir", "network", "container", "drop app_dir", "drop network",
                "drop container", "start", "restart", "stop"}

\* What a command has done to the host.
AppHostOf(d) ==
    /\ appBox' \in [AppIds -> AppBoxes \cup {None}]
    /\ appParts' \in [AppIds -> SUBSET {"app_dir", "network"}]
    /\ \A e \in AppIds : e # d => appBox'[e] = appBox[e] /\ appParts'[e] = appParts[e]

AppDid(d, p, step) ==
    /\ step \in {"image", "container", "drop container", "start", "restart", "stop"} =>
         appParts'[d] = appParts[d]
    /\ step \in {"image", "app_dir", "network", "drop app_dir", "drop network"} =>
         appBox'[d] = appBox[d]
    /\ step = "app_dir"        => appParts'[d] = appParts[d] \cup {"app_dir"}
    /\ step = "network"        => appParts'[d] = appParts[d] \cup {"network"}
    /\ step = "drop app_dir"   => appParts'[d] = appParts[d] \ {"app_dir"}
    /\ step = "drop network"   => appParts'[d] = appParts[d] \ {"network"}
    /\ step = "drop container" => appBox'[d] = None
    /\ step = "container"      => appBox'[d] # None /\ appBox'[d].port = p /\ appBox'[d].up
    /\ step \in {"start", "restart", "stop"} =>
         /\ appBox[d] # None /\ appBox'[d] # None /\ appBox'[d].port = appBox[d].port
         /\ appBox'[d].up <=> step # "stop"

LEMMA AppBoxSet ==
    ASSUME AppShapes, NEW d \in AppIds, NEW box \in AppBoxes \cup {None}, AppBoxIs(d, box)
    PROVE  AppHostOf(d) /\ appBox'[d] = box /\ appParts'[d] = appParts[d]
  BY DEF AppShapes, AppBoxIs, AppHostOf

LEMMA AppPartSet ==
    ASSUME AppShapes, NEW d \in AppIds, NEW part \in {"app_dir", "network"}, NEW present \in BOOLEAN,
           AppPart(d, part, present)
    PROVE  /\ AppHostOf(d) /\ appBox'[d] = appBox[d]
           /\ present => appParts'[d] = appParts[d] \cup {part}
           /\ ~present => appParts'[d] = appParts[d] \ {part}
<1>1. CASE present
  BY <1>1 DEF AppShapes, AppPart, AppHostOf
<1>2. CASE ~present
  BY <1>2 DEF AppShapes, AppPart, AppHostOf
<1> QED
  BY <1>1, <1>2

LEMMA AppHostKept ==
    ASSUME AppShapes, NEW d, UNCHANGED <<appParts, appBox>>
    PROVE  AppHostOf(d) /\ appBox'[d] = appBox[d] /\ appParts'[d] = appParts[d]
  BY DEF AppShapes, AppHostOf

LEMMA AppCommandDone ==
    ASSUME AppShapes, NEW d \in AppIds, NEW p \in AppPorts, NEW step \in AppCommands,
           Possible(d, p, step), Command(d, p, step)
    PROVE  AppHostOf(d) /\ AppDid(d, p, step)
<1>1. CASE step = "image"
  <2>1. UNCHANGED <<appParts, appBox>>
    BY <1>1 DEF Command
  <2> QED
    BY <1>1, <2>1, AppHostKept DEF AppDid
<1>2. CASE step = "app_dir"
  <2>1. AppPart(d, "app_dir", TRUE)
    BY <1>2 DEF Command
  <2> QED
    BY <1>2, <2>1, AppPartSet DEF AppDid
<1>3. CASE step = "network"
  <2>1. AppPart(d, "network", TRUE)
    BY <1>3 DEF Command
  <2> QED
    BY <1>3, <2>1, AppPartSet DEF AppDid
<1>4. CASE step = "container"
  <2> DEFINE box == [port |-> p, up |-> TRUE]
  <2>1. AppBoxIs(d, box)
    BY <1>4 DEF Command
  <2>2. box \in AppBoxes /\ box.port = p /\ box.up
    BY DEF AppBoxes
  <2> HIDE DEF box
  <2>3. box # None
    BY <2>2, AppNones
  <2> QED
    BY <1>4, <2>1, <2>2, <2>3, AppBoxSet DEF AppDid
<1>5. CASE step = "drop app_dir"
  <2>1. AppPart(d, "app_dir", FALSE)
    BY <1>5 DEF Command
  <2> QED
    BY <1>5, <2>1, AppPartSet DEF AppDid
<1>6. CASE step = "drop network"
  <2>1. AppPart(d, "network", FALSE)
    BY <1>6 DEF Command
  <2> QED
    BY <1>6, <2>1, AppPartSet DEF AppDid
<1>7. CASE step = "drop container"
  <2>1. AppBoxIs(d, None)
    BY <1>7 DEF Command
  <2> QED
    BY <1>7, <2>1, AppBoxSet DEF AppDid
<1>8. CASE step \in {"start", "restart", "stop"}
  <2> PICK up \in BOOLEAN : up <=> step # "stop"
    OBVIOUS
  <2> PICK old : old = appBox[d]
    OBVIOUS
  <2> DEFINE box == [old EXCEPT !.up = up]
  <2>1. old # None /\ old \in AppBoxes
    BY <1>8 DEF Possible, AppShapes
  <2>2. AppBoxIs(d, box)
    <3>1. CASE step = "stop"
      <4>1. up = FALSE
        BY <3>1
      <4> QED
        BY <3>1, <4>1 DEF Command
    <3>2. CASE step \in {"start", "restart"}
      <4>1. up = TRUE
        BY <3>2
      <4> QED
        BY <3>2, <4>1 DEF Command
    <3> QED
      BY <1>8, <3>1, <3>2
  <2>3. box \in AppBoxes /\ box.port = old.port /\ box.up = up
    BY <2>1 DEF AppBoxes
  <2> HIDE DEF box
  <2>4. box # None
    BY <2>3, AppNones
  <2>5. AppHostOf(d) /\ appBox'[d] = box /\ appParts'[d] = appParts[d]
    BY <2>2, <2>3, AppBoxSet
  <2> QED
    BY <1>8, <2>1, <2>3, <2>4, <2>5 DEF AppDid
<1> QED
  BY <1>1, <1>2, <1>3, <1>4, <1>5, <1>6, <1>7, <1>8 DEF AppCommands

\* The command of each step.
LEMMA AppNextIs ==
    ASSUME AppStrong, NEW i \in AppRequests, AtCommand(i)
    PROVE  LET t == appTask[i] IN
           /\ AppWorks(i) /\ t \in AppTaskRecord /\ AppTaskWhole(t)
           /\ \/ /\ t.kind = "create" /\ t.pc = "do"
                 /\ \/ t.at = 1 /\ AppStep(i) = "image" /\ NextCommand(i) = "image"
                    \/ t.at = 2 /\ AppStep(i) = "app_dir" /\ NextCommand(i) = "app_dir"
                    \/ t.at = 3 /\ AppStep(i) = "network" /\ NextCommand(i) = "network"
                    \/ t.at = 4 /\ AppStep(i) = "container" /\ NextCommand(i) = "container"
              \/ /\ t.kind = "create" /\ t.pc = "undo"
                 /\ \/ t.at = 2 /\ AppStep(i) = "app_dir" /\ NextCommand(i) = "drop app_dir"
                    \/ t.at = 3 /\ AppStep(i) = "network" /\ NextCommand(i) = "drop network"
                    \/ t.at = 4 /\ AppStep(i) = "container" /\ NextCommand(i) = "drop container"
              \/ /\ t.kind = "delete" /\ t.pc = "do"
                 /\ \/ t.at = 2 /\ AppStep(i) = "container" /\ NextCommand(i) = "drop container"
                    \/ t.at = 3 /\ AppStep(i) = "network" /\ NextCommand(i) = "drop network"
                    \/ t.at = 4 /\ AppStep(i) = "app_dir" /\ NextCommand(i) = "drop app_dir"
              \/ /\ t.kind \in AppControls /\ t.pc = "do" /\ t.at = 1
                 /\ AppStep(i) = "command" /\ NextCommand(i) = t.kind
<1>1. AppWorks(i) /\ appTask[i] \in AppTaskRecord /\ AppTaskWhole(appTask[i])
  BY DEF AtCommand, AppWorks, AppStrong, AppShapes, AppWholes
<1>2. appTask[i].at \in 1 .. 6 /\ AppStep(i) \notin {"caddy", "finalize", "record"}
  BY <1>1 DEF AtCommand, AppTaskRecord
<1>3. appTask[i].kind \in {"create", "delete"} \cup AppControls
  BY <1>1 DEF AppTaskWhole, AppWorks, AppKinds
<1>4. AppPlace(appTask[i].kind, appTask[i].pc, appTask[i].at) /\ appTask[i].pc \in {"do", "undo"}
  BY <1>1 DEF AppTaskWhole, AppWorks
<1>5. CASE appTask[i].kind = "create" /\ appTask[i].pc = "do"
  <2>1. appTask[i].at \in 1 .. 4
    BY <1>2, <1>5, AppStepIs
  <2>2. NextCommand(i) = AppStep(i)
    BY <1>5, <2>1, AppStepIs DEF NextCommand
  <2> QED
    BY <1>1, <1>5, <2>1, <2>2, AppStepIs
<1>6. CASE appTask[i].kind = "create" /\ appTask[i].pc = "undo"
  <2>1. appTask[i].at \in {2, 3, 4}
    BY <1>2, <1>4, <1>6, AppStepIs DEF AppPlace
  <2> QED
    BY <1>1, <1>6, <2>1, AppStepIs DEF NextCommand
<1>7. CASE appTask[i].kind = "delete"
  <2>1. appTask[i].at \in {2, 3, 4} /\ appTask[i].pc = "do"
    BY <1>2, <1>4, <1>7, AppStepIs DEF AppPlace
  <2> QED
    BY <1>1, <1>7, <2>1, AppStepIs DEF NextCommand
<1>8. CASE appTask[i].kind \in AppControls
  <2>1. appTask[i].at = 1 /\ appTask[i].pc = "do"
    BY <1>1, <1>2, <1>4, <1>8, AppStepIs DEF AppPlace, AppControls, AppTaskWhole, AppWorks
  <2>2. AppStep(i) = "command" /\ appTask[i].kind # "delete"
    BY <1>8, <2>1, AppStepIs DEF AppControls
  <2> QED
    BY <1>1, <1>8, <2>1, <2>2 DEF NextCommand
<1> QED
  BY <1>3, <1>4, <1>5, <1>6, <1>7, <1>8

\* What follows a task after a command that succeeded.
AppFollows(t, u) ==
    /\ t.kind = u.kind /\ t.pc = u.pc /\ t.was = u.was
    /\ t.pc = "do" => t.at = u.at + 1
    /\ t.pc = "undo" => t.at = IF u.at >= 3 THEN u.at - 1 ELSE 0

\* The command of a task, by its kind and step.
AppNextOf(u, step) ==
    \/ u.kind = "create" /\ u.pc = "do" /\ u.at = 1 /\ step = "image"
    \/ u.kind = "create" /\ u.pc = "do" /\ u.at = 2 /\ step = "app_dir"
    \/ u.kind = "create" /\ u.pc = "do" /\ u.at = 3 /\ step = "network"
    \/ u.kind = "create" /\ u.pc = "do" /\ u.at = 4 /\ step = "container"
    \/ u.kind = "create" /\ u.pc = "undo" /\ u.at = 2 /\ step = "drop app_dir"
    \/ u.kind = "create" /\ u.pc = "undo" /\ u.at = 3 /\ step = "drop network"
    \/ u.kind = "create" /\ u.pc = "undo" /\ u.at = 4 /\ step = "drop container"
    \/ u.kind = "delete" /\ u.pc = "do" /\ u.at = 2 /\ step = "drop container"
    \/ u.kind = "delete" /\ u.pc = "do" /\ u.at = 3 /\ step = "drop network"
    \/ u.kind = "delete" /\ u.pc = "do" /\ u.at = 4 /\ step = "drop app_dir"
    \/ u.kind \in AppControls /\ u.pc = "do" /\ u.at = 1 /\ step = u.kind

LEMMA AppWorkedOn ==
    ASSUME NEW d, NEW p, NEW step, NEW u \in AppTaskRecord, NEW t, UNCHANGED <<appLeft, appCut>>,
           appParts[d] \subseteq {"app_dir", "network"}, AppWorkSound(d, u),
           appBox[d] # None => appBox[d].port = p,
           AppNextOf(u, step), AppDid(d, p, step), AppFollows(t, u)
    PROVE  AppWorkSound(d, t)' /\ (appBox'[d] # None => appBox'[d].port = p)
<1>2. AppWorkSound(d, u) /\ (appBox[d] # None => appBox[d].port = p)
  OBVIOUS
<1>3. AppDid(d, p, step) /\ appParts[d] \subseteq {"app_dir", "network"}
  OBVIOUS
<1>4. AppNextOf(u, step)
  OBVIOUS
<1>5. /\ (AppTouched(d) <=> AppTouched(d)') /\ (FailedAt(d, {"container"}) <=> FailedAt(d, {"container"})')
      /\ (d \in appCut' <=> d \in appCut)
  BY DEF AppTouched, FailedAt
<1>6. /\ t.kind = u.kind /\ t.pc = u.pc /\ t.was = u.was
      /\ t.pc = "do" => t.at = u.at + 1
      /\ t.pc = "undo" => t.at = IF u.at >= 3 THEN u.at - 1 ELSE 0
  BY DEF AppFollows
<1>u. u.at \in Nat
  BY DEF AppTaskRecord
<1>7. CASE u.kind = "create" /\ u.pc = "do"
  <2>1. \/ u.at = 1 /\ step = "image"
        \/ u.at = 2 /\ step = "app_dir"
        \/ u.at = 3 /\ step = "network"
        \/ u.at = 4 /\ step = "container"
    BY <1>4, <1>7 DEF AppControls, AppNextOf
  <2>2. /\ appBox[d] = None
        /\ "network" \in appParts[d] <=> u.at >= 4
        /\ "app_dir" \in appParts[d] <=> u.at >= 3
    BY <1>2, <1>7, <2>1 DEF AppWorkSound
  <2>3. t.kind = "create" /\ t.pc = "do" /\ t.at = u.at + 1
    BY <1>6, <1>7
  <2>4. /\ t.at <= 4 => appBox'[d] = None
        /\ t.at > 4 => appBox'[d] # None /\ appBox'[d].up /\ appBox'[d].port = p
        /\ "network" \in appParts'[d] <=> t.at >= 4
        /\ "app_dir" \in appParts'[d] <=> t.at >= 3
    <3>1. CASE u.at = 1 /\ step = "image"
      BY <1>3, <2>2, <2>3, <3>1 DEF AppDid
    <3>2. CASE u.at = 2 /\ step = "app_dir"
      BY <1>3, <2>2, <2>3, <3>2 DEF AppDid
    <3>3. CASE u.at = 3 /\ step = "network"
      BY <1>3, <2>2, <2>3, <3>3 DEF AppDid
    <3>4. CASE u.at = 4 /\ step = "container"
      BY <1>3, <2>2, <2>3, <3>4 DEF AppDid
    <3> QED
      BY <2>1, <3>1, <3>2, <3>3, <3>4
  <2>5. appBox'[d] # None => appBox'[d].port = p
    BY <2>1, <2>3, <2>4
  <2> QED
    BY <2>3, <2>4, <2>5 DEF AppWorkSound, AppControls
<1>8. CASE u.kind = "create" /\ u.pc = "undo"
  <2>1. t.kind = "create" /\ t.pc = "undo"
    BY <1>6, <1>8
  <2>2. \/ u.at = 2 /\ step = "drop app_dir"
        \/ u.at = 3 /\ step = "drop network"
        \/ u.at = 4 /\ step = "drop container"
    BY <1>4, <1>8 DEF AppControls, AppNextOf
  <2>3. CASE u.at = 4 /\ step = "drop container"
    <3>1. appBox'[d] = None
      BY <1>3, <2>3 DEF AppDid
    <3> QED
      BY <2>1, <3>1 DEF AppWorkSound, AppControls
  <2>4. CASE u.at < 4 /\ step \in {"drop app_dir", "drop network"}
    <3>1. appBox'[d] = appBox[d]
      BY <1>3, <2>4 DEF AppDid
    <3>2. appBox[d] # None => FailedAt(d, {"container"})
      BY <1>2, <1>8, <2>4 DEF AppWorkSound
    <3>3. appBox'[d] # None => FailedAt(d, {"container"})'
      BY <1>5, <3>1, <3>2
    <3>4. appBox'[d] # None => appBox'[d].port = p
      BY <1>2, <3>1
    <3>5. AppWorkSound(d, t)'
      BY <2>1, <3>3 DEF AppWorkSound, AppControls
    <3> QED
      BY <3>4, <3>5
  <2>5. u.at = 4 \/ u.at < 4
    <3>1. u.at = 2 \/ u.at = 3 \/ u.at = 4
      BY <2>2
    <3> QED
      BY <3>1
  <2>6. u.at < 4 => step \in {"drop app_dir", "drop network"}
    <3>1. u.at = 4 => ~(u.at < 4)
      OBVIOUS
    <3> QED
      BY <2>2, <3>1
  <2>7. u.at = 4 => step = "drop container"
    <3>1. u.at = 4 => u.at # 2 /\ u.at # 3
      OBVIOUS
    <3> QED
      BY <2>2, <3>1
  <2> QED
    BY <2>3, <2>4, <2>5, <2>6, <2>7
<1>9. CASE u.kind = "delete"
  <2>1. /\ u.pc = "do"
        /\ \/ u.at = 2 /\ step = "drop container"
           \/ u.at = 3 /\ step = "drop network"
           \/ u.at = 4 /\ step = "drop app_dir"
    BY <1>4, <1>9 DEF AppControls, AppNextOf
  <2>2. t.kind = "delete" /\ t.pc = "do" /\ t.at = u.at + 1
    BY <1>6, <1>9, <2>1
  <2>3. /\ u.at >= 3 => appBox[d] = None
        /\ u.at >= 4 => "network" \notin appParts[d]
    BY <1>2, <1>9, <2>1 DEF AppWorkSound
  <2>4. /\ appBox'[d] = None
        /\ t.at >= 4 => "network" \notin appParts'[d]
        /\ t.at >= 5 => "app_dir" \notin appParts'[d]
        /\ t.at \in 3 .. 5
    <3>1. CASE u.at = 2 /\ step = "drop container"
      <4>1. appBox'[d] = None
        BY <1>3, <3>1 DEF AppDid
      <4>0. u.at = 2
        BY <3>1
      <4>2. t.at = 3
        BY <1>u, <2>2, <4>0
      <4> QED
        BY <4>1, <4>2
    <3>2. CASE u.at = 3 /\ step = "drop network"
      <4>1. appBox'[d] = appBox[d] /\ appParts'[d] = appParts[d] \ {"network"}
        BY <1>3, <3>2 DEF AppDid
      <4>0. u.at = 3
        BY <3>2
      <4>2. t.at = 4 /\ appBox[d] = None
        BY <1>u, <2>2, <2>3, <4>0
      <4> QED
        BY <4>1, <4>2
    <3>3. CASE u.at = 4 /\ step = "drop app_dir"
      <4>1. appBox'[d] = appBox[d] /\ appParts'[d] = appParts[d] \ {"app_dir"}
        BY <1>3, <3>3 DEF AppDid
      <4>0. u.at = 4
        BY <3>3
      <4>2. t.at = 5 /\ appBox[d] = None /\ "network" \notin appParts[d]
        BY <1>u, <2>2, <2>3, <4>0
      <4> QED
        BY <4>1, <4>2
    <3> QED
      BY <2>1, <3>1, <3>2, <3>3
  <2>5. t.at > 2
    BY <2>4
  <2> QED
    BY <2>2, <2>4, <2>5 DEF AppWorkSound, AppControls
<1>10. CASE u.kind \in AppControls
  <2> u.kind \in {"start", "stop", "restart"}
    BY <1>10 DEF AppControls
  <2>0. u.pc = "do" /\ u.at = 1 /\ step = u.kind
    BY <1>4 DEF AppNextOf
  <2>1. /\ t.kind = u.kind /\ t.pc = "do" /\ t.at = 2 /\ u.pc = "do" /\ u.at = 1
        /\ u.kind \in {"start", "stop", "restart"} /\ step = u.kind
    BY <1>6, <2>0
  <2>2. /\ appParts'[d] = appParts[d] /\ appBox[d] # None /\ appBox'[d] # None
        /\ appBox'[d].port = appBox[d].port /\ (appBox'[d].up <=> step # "stop")
    BY <1>3, <2>1 DEF AppDid
  <2>3. d \notin appCut => AppStatusSound(d, u.was)
    BY <1>2, <2>1 DEF AppWorkSound, AppControls
  <2>4. d \notin appCut => AppTouched(d) \/ AppWhole(d)
    BY <2>2, <2>3 DEF AppStatusSound, AppUp, AppDown
  <2>5. d \notin appCut' => AppTouched(d)' \/ AppWhole(d)'
    BY <1>5, <2>2, <2>4 DEF AppWhole
  <2>6. /\ t.kind = "stop" /\ d \notin appCut' => AppTouched(d)' \/ AppDown(d)'
        /\ t.kind # "stop" /\ d \notin appCut' => AppTouched(d)' \/ AppUp(d)'
    BY <2>1, <2>2, <2>5 DEF AppUp, AppDown
  <2>7. appBox'[d].port = p
    BY <1>2, <2>2
  <2> QED
    BY <2>1, <2>6, <2>7 DEF AppWorkSound, AppControls
<1> QED
  BY <1>4, <1>7, <1>8, <1>9, <1>10 DEF AppNextOf


LEMMA AppWorked ==
    ASSUME AppStrong, NEW i \in AppRequests, AtCommand(i), NEW d, d = appTask[i].id,
           NEW p, p = appTask[i].port, AppQuiet(d),
           AppDid(d, p, NextCommand(i)), NEW t, UNCHANGED <<appLeft, appCut>>, AppFollows(t, appTask[i])
    PROVE  AppWorkSound(d, t)' /\ (appBox'[d] # None => appBox'[d].port = p)
<1> PICK u : u = appTask[i]
  OBVIOUS
<1> PICK step : step = NextCommand(i)
  OBVIOUS
<1>1. AppWorks(i) /\ u \in AppTaskRecord
  BY AppNextIs
<1>2. d \in AppIds /\ AppWorkSound(d, u) /\ (appBox[d] # None => appBox[d].port = p)
  BY <1>1, AppSoundNow
<1>3. AppDid(d, p, step) /\ appParts[d] \subseteq {"app_dir", "network"}
  BY <1>2 DEF AppStrong, AppShapes
<1>4. AppNextOf(u, step)
  BY AppNextIs DEF AppNextOf
<1> QED
  BY <1>1, <1>2, <1>3, <1>4, AppWorkedOn

LEMMA AppCommandSound ==
    ASSUME AppStrong, NEW i \in AppRequests, AppCommand(i)
    PROVE  AppStrong'
<1> PICK d : d = appTask[i].id
  OBVIOUS
<1> PICK was : was = appTask[i].was
  OBVIOUS
<1> PICK p : p = appTask[i].port
  OBVIOUS
<1>1. /\ AtCommand(i) /\ Possible(d, p, NextCommand(i)) /\ Command(d, p, NextCommand(i))
      /\ IF AppStep(i) = "image" /\ AppRowOf(d) = {} THEN AppEnd(i)
         ELSE IF appTask[i].pc = "do" THEN AppGoto(i, "do", appTask[i].at + 1)
         ELSE AppGoto(i, "undo", UndoFrom(i, appTask[i].at - 1))
      /\ UNCHANGED <<appRow, appRoute, appFaults, appLeft, appMixed, appCut, appStale>>
  BY DEF AppCommand, appHistory
<1>2. AppWorks(i) /\ appTask[i] \in AppTaskRecord /\ AppTaskWhole(appTask[i])
  BY <1>1, AppNextIs
<1>3. d \in AppIds /\ p \in AppPorts
  BY <1>2 DEF AppTaskWhole, AppWorks
<1>4. NextCommand(i) \in AppCommands
  BY <1>1, AppNextIs DEF AppCommands, AppControls
<1>5. AppHostOf(d) /\ AppDid(d, p, NextCommand(i))
  BY <1>1, <1>3, <1>4, AppCommandDone DEF AppStrong
<1>6. CASE AppStep(i) = "image" /\ AppRowOf(d) = {}
  <2>1. PICK t \in AppTaskRecord : /\ appTask' = [appTask EXCEPT ![i] = t] /\ AppTaskWhole(t)
                                   /\ t.kind = appTask[i].kind /\ t.pc = "off"
    BY <1>1, <1>2, <1>6, AppEnds
  <2>2. AppTurns(i, t) /\ ~AppUnserved(t)
    BY <1>1, <1>5, <2>1 DEF AppTurns, AppUnserved, AppHostOf, AppStrong, AppShapes
  <2>3. AppRoutesInTime' /\ appRoute' \in AppRouting /\ appStale' \in BOOLEAN
    BY <1>1, <1>2, <2>2, AppRoutesTurn
  <2>4. ~AppQuiet(d)
    BY <1>2, <1>6, AppAloneAt
  <2> QED
    BY <1>2, <2>2, <2>3, <2>4, AppTurnsSound
<1>7. CASE ~(AppStep(i) = "image" /\ AppRowOf(d) = {})
  <2>1. PICK t \in AppTaskRecord :
             /\ appTask' = [appTask EXCEPT ![i] = t] /\ AppTaskWhole(t)
             /\ t.kind = appTask[i].kind /\ t.id = appTask[i].id /\ t.name = appTask[i].name
             /\ t.port = appTask[i].port /\ t.was = appTask[i].was /\ t.pc = appTask[i].pc
             /\ t.pc = "do" => t.at = appTask[i].at + 1
             /\ t.pc = "undo" => t.at = IF appTask[i].at >= 3 THEN appTask[i].at - 1 ELSE 0
    <3>1. appTask[i].at > 0 /\ AppStep(i) \notin {"finalize", "record"}
      BY <1>1 DEF AtCommand
    <3>2. IF appTask[i].pc = "do" THEN AppGoto(i, "do", appTask[i].at + 1)
          ELSE AppGoto(i, "undo", UndoFrom(i, appTask[i].at - 1))
      BY <1>1, <1>7
    <3> QED
      BY <1>2, <3>1, <3>2, AppGoesOn
  <2>2. AppFollows(t, appTask[i])
    BY <2>1 DEF AppFollows
  <2>3. t.pc \in {"do", "undo"}
    BY <1>2, <2>1 DEF AppWorks
  <2>4. AppTurns(i, t)
    BY <1>1, <1>5, <2>1, <2>3 DEF AppTurns, AppHostOf, AppStrong, AppShapes
  <2>5. AppUnserved(t) => AppUnserved(appTask[i])
    <3> SUFFICES ASSUME AppUnserved(t) PROVE AppUnserved(appTask[i])
      OBVIOUS
    <3>1. appTask[i].kind = "delete" /\ appTask[i].pc = "do"
      BY <2>1 DEF AppUnserved
    <3>2. appTask[i].at = 2 \/ appTask[i].at = 3 \/ appTask[i].at = 4
      BY <1>1, <3>1, AppNextIs DEF AppControls
    <3>3. appTask[i].at >= 2
      BY <3>2
    <3> QED
      BY <3>1, <3>3 DEF AppUnserved
  <2>6. AppRoutesInTime' /\ appRoute' \in AppRouting /\ appStale' \in BOOLEAN
    BY <1>1, <1>2, <2>4, <2>5, AppRoutesTurn
  <2>7. AppQuiet(d) => AppWorkSound(d, t)' /\ (appBox'[d] # None => appBox'[d].port = p)
    <3>1. UNCHANGED <<appLeft, appCut>>
      BY <1>1
    <3> QED
      BY <1>1, <1>5, <2>2, <3>1, AppWorked
  <2> QED
    BY <1>2, <2>3, <2>4, <2>6, <2>7, AppTurnsSound
<1> QED
  BY <1>6, <1>7

\* What a failing command has done to the host: nothing, everything, or a
\* container that is not up.
AppFailedTo(d, p, step) ==
    \/ appBox'[d] = appBox[d] /\ appParts'[d] = appParts[d]
    \/ AppDid(d, p, step)
    \/ /\ step = "container" /\ appBox'[d] # None /\ appBox'[d].port = p
       /\ appParts'[d] = appParts[d]

LEMMA AppFailingIs ==
    ASSUME AppShapes, NEW d \in AppIds, NEW p \in AppPorts, NEW step \in AppCommands,
           Failing(d, p, step)
    PROVE  AppHostOf(d) /\ AppFailedTo(d, p, step)
<1>1. CASE UNCHANGED <<appParts, appBox>>
  BY <1>1, AppHostKept DEF AppFailedTo
<1>2. CASE Possible(d, p, step) /\ Command(d, p, step)
  BY <1>2, AppCommandDone DEF AppFailedTo
<1>3. CASE step = "container" /\ appBox[d] = None /\ AppBoxIs(d, [port |-> p, up |-> FALSE])
  <2> DEFINE box == [port |-> p, up |-> FALSE]
  <2>1. AppBoxIs(d, box)
    BY <1>3
  <2>2. box \in AppBoxes /\ box.port = p
    BY DEF AppBoxes
  <2> HIDE DEF box
  <2>3. box # None
    BY <2>2, AppNones
  <2> QED
    BY <1>3, <2>1, <2>2, <2>3, AppBoxSet DEF AppFailedTo
<1> QED
  BY <1>1, <1>2, <1>3 DEF Failing

\* A task that undoes what it has done, or what it leaves.
AppNamed(u, name) ==
    /\ u.kind = "create" /\ u.at = 4 => name = "container"
    /\ u.kind = "delete" => /\ u.at = 2 => name = "container"
                            /\ u.at = 3 => name = "network"
                            /\ u.at = 4 => name = "app_dir"
AppTurnsBack(t, u) ==
    /\ t.kind = u.kind /\ t.pc = "undo"
    /\ t.at = IF u.kind = "create" /\ u.at >= 3 THEN u.at - 1 ELSE 0

LEMMA AppWorkedBack ==
    ASSUME NEW d, NEW p, NEW step, NEW name, NEW u \in AppTaskRecord, NEW t, AppWorkSound(d, u),
           appCut' = appCut, appLeft' = appLeft \cup {<<d, u.kind, name>>},
           appBox[d] # None => appBox[d].port = p, u.kind \in {"create", "delete"},
           AppNextOf(u, step), AppNamed(u, name), AppFailedTo(d, p, step), AppTurnsBack(t, u)
    PROVE  AppWorkSound(d, t)'
<1>1. FailedAt(d, {"container"}) => FailedAt(d, {"container"})'
  BY DEF FailedAt
<1>2. ASSUME NEW steps, name \in steps PROVE FailedAt(d, steps)'
  BY <1>2 DEF FailedAt, AppSteps
<1>3. u.at \in Nat /\ t.kind = u.kind /\ t.pc = "undo"
  BY DEF AppTaskRecord, AppTurnsBack
<1>4. CASE u.kind = "create"
  <2>1. appBox'[d] # None => FailedAt(d, {"container"})'
    <3>1. CASE u.at = 4
      <4>1. name = "container"
        BY <1>4, <3>1 DEF AppNamed
      <4> QED
        BY <1>2, <4>1
    <3>2. CASE u.at # 4
      <4>1. appBox[d] # None => FailedAt(d, {"container"})
        <5>1. CASE u.pc = "do"
          <6>1. u.at = 1 \/ u.at = 2 \/ u.at = 3
            BY <1>4, <3>2, <5>1 DEF AppNextOf, AppControls
          <6>2. u.at <= 4
            BY <6>1
          <6> QED
            BY <1>4, <5>1, <6>2 DEF AppWorkSound
        <5>2. CASE u.pc # "do"
          <6>1. u.pc = "undo" /\ (u.at = 2 \/ u.at = 3)
            BY <1>4, <3>2, <5>2 DEF AppNextOf, AppControls
          <6>2. u.at < 4
            BY <6>1
          <6> QED
            BY <1>4, <6>1, <6>2 DEF AppWorkSound
        <5> QED
          BY <5>1, <5>2
      <4>2. step \in {"image", "app_dir", "network", "drop app_dir", "drop network"}
        BY <1>4, <3>2 DEF AppNextOf, AppControls
      <4>3. appBox'[d] = appBox[d]
        BY <4>2 DEF AppFailedTo, AppDid
      <4> QED
        BY <1>1, <4>1, <4>3
    <3> QED
      BY <3>1, <3>2
  <2> QED
    BY <1>3, <1>4, <2>1 DEF AppWorkSound, AppControls
<1>5. CASE u.kind = "delete"
  <2>1. (u.at = 2 /\ name = "container") \/ (u.at = 3 /\ name = "network")
        \/ (u.at = 4 /\ name = "app_dir")
    BY <1>5 DEF AppNextOf, AppNamed, AppControls
  <2>2. AppTouched(d)'
    BY <1>2, <2>1 DEF AppTouched
  <2>3. AppExcused(d)'
    <3>1. CASE u.at = 2
      <4>1. name = "container"
        BY <1>5, <3>1 DEF AppNamed
      <4> QED
        BY <1>2, <4>1 DEF AppExcused
    <3>2. CASE u.at # 2
      <4>1. u.pc = "do" /\ step \in {"drop network", "drop app_dir"}
        BY <1>5, <3>2 DEF AppNextOf, AppControls
      <4>2. u.at >= 3
        BY <2>1, <3>2
      <4>3. appBox[d] = None
        BY <1>5, <4>1, <4>2 DEF AppWorkSound
      <4>4. appBox'[d] = appBox[d]
        BY <4>1 DEF AppFailedTo, AppDid
      <4> QED
        BY <4>3, <4>4 DEF AppExcused
    <3> QED
      BY <3>1, <3>2
  <2> QED
    BY <1>3, <1>5, <2>2, <2>3 DEF AppWorkSound, AppControls
<1> QED
  BY <1>4, <1>5

LEMMA AppPortBack ==
    ASSUME NEW d, NEW p, NEW step \in AppCommands, appBox[d] # None => appBox[d].port = p,
           AppFailedTo(d, p, step), appBox'[d] # None
    PROVE  appBox'[d].port = p
<1>1. CASE appBox'[d] = appBox[d]
  BY <1>1
<1>2. CASE step = "container" /\ appBox'[d].port = p
  BY <1>2
<1>3. CASE AppDid(d, p, step)
  <2>1. CASE step \in {"image", "app_dir", "network", "drop app_dir", "drop network"}
    BY <1>3, <2>1 DEF AppDid
  <2>2. CASE step \in {"start", "restart", "stop", "container", "drop container"}
    BY <1>3, <2>2 DEF AppDid
  <2> QED
    BY <2>1, <2>2 DEF AppCommands
<1> QED
  BY <1>1, <1>2, <1>3 DEF AppFailedTo

LEMMA AppCommandFailed ==
    ASSUME AppStrong, NEW i \in AppRequests, AppCommandFails(i)
    PROVE  AppStrong'
<1> PICK d : d = appTask[i].id
  OBVIOUS
<1> PICK was : was = appTask[i].was
  OBVIOUS
<1> PICK p : p = appTask[i].port
  OBVIOUS
<1> PICK u : u = appTask[i]
  OBVIOUS
<1> PICK name : name = AppStep(i)
  OBVIOUS
<1> PICK step : step = NextCommand(i)
  OBVIOUS
<1>1. /\ AtCommand(i) /\ Failing(d, p, step)
      /\ IF Possible(d, p, step) THEN AppFault ELSE UNCHANGED appFaults
      /\ appLeft' = appLeft \cup {<<d, u.kind, name>>}
      /\ IF name = "command" THEN AppEnd(i)
         ELSE AppGoto(i, "undo", UndoFrom(i, appTask[i].at - 1))
      /\ UNCHANGED <<appRow, appRoute, appMixed, appCut, appStale>>
  BY DEF AppCommandFails, appHistory
<1>2. AppWorks(i) /\ u \in AppTaskRecord /\ AppTaskWhole(u)
  BY <1>1, AppNextIs
<1>3. d \in AppIds /\ p \in AppPorts
  BY <1>2 DEF AppTaskWhole, AppWorks
<1>4. step \in AppCommands
  BY <1>1, AppNextIs DEF AppCommands, AppControls
<1>5. AppHostOf(d) /\ AppFailedTo(d, p, step)
  BY <1>1, <1>3, <1>4, AppFailingIs DEF AppStrong
<1>6. AppNextOf(u, step) /\ AppNamed(u, name)
  <2>1. AppNextOf(u, step)
    BY <1>1, AppNextIs DEF AppNextOf
  <2>2. AppNamed(u, name)
    <3>1. u.at > 0
      BY <1>1 DEF AtCommand
    <3> QED
      BY AppStepIs DEF AppNamed
  <2> QED
    BY <2>1, <2>2
<1>7. u.kind \in {"create", "delete"} <=> name # "command"
  BY <1>1, AppNextIs DEF AppControls
<1>8. appFaults' \in 0 .. AppMaxFaults
  <2>1. appFaults' = appFaults \/ (appFaults < AppMaxFaults /\ appFaults' = appFaults + 1)
    BY <1>1 DEF AppFault
  <2> QED
    BY <2>1, AppAssumption DEF AppStrong, AppShapes
<1>9. AppQuiet(d) /\ appBox'[d] # None => appBox'[d].port = p
  <2> SUFFICES ASSUME AppQuiet(d), appBox'[d] # None PROVE appBox'[d].port = p
    OBVIOUS
  <2>1. appBox[d] # None => appBox[d].port = p
    BY <1>2, AppSoundNow
  <2> QED
    BY <1>4, <1>5, <2>1, AppPortBack
<1>10. CASE name = "command"
  <2>1. PICK t \in AppTaskRecord : /\ appTask' = [appTask EXCEPT ![i] = t] /\ AppTaskWhole(t)
                                   /\ t.kind = appTask[i].kind /\ t.pc = "off"
    BY <1>1, <1>2, <1>10, AppEnds
  <2>2. AppTurns(i, t) /\ ~AppUnserved(t)
    BY <1>1, <1>5, <1>8, <2>1 DEF AppTurns, AppUnserved, AppHostOf, AppStrong, AppShapes
  <2>3. AppRoutesInTime' /\ appRoute' \in AppRouting /\ appStale' \in BOOLEAN
    BY <1>1, <1>2, <2>2, AppRoutesTurn
  <2>4. u.kind \in AppControls /\ u.at = 1 /\ step = u.kind
    BY <1>6, <1>7, <1>10 DEF AppNextOf
  <2>5. ASSUME AppQuiet(d), d \notin appCut PROVE AppStatusSound(d, was)'
    <3>1. AppTouched(d)'
      <4>1. <<d, u.kind, "command">> \in appLeft'
        BY <1>1, <1>10
      <4> QED
        BY <2>4, <4>1 DEF AppTouched, FailedAt, AppSteps, AppControls
    <3>2. AppStatusSound(d, was)
      <4>1. AppWorkSound(d, u)
        BY <1>2, <2>5, AppSoundNow
      <4> QED
        BY <2>4, <2>5, <4>1 DEF AppWorkSound
    <3>3. appBox'[d] # None => appBox[d] # None
      BY <1>5, <2>4 DEF AppFailedTo, AppDid, AppControls
    <3>4. AppExcused(d) => AppExcused(d)'
      BY <1>1, <3>3 DEF AppExcused, FailedAt
    <3> QED
      BY <3>1, <3>2, <3>4 DEF AppStatusSound
  <2> QED
    BY <1>2, <1>9, <2>1, <2>2, <2>3, <2>5, AppTurnsSound
<1>11. CASE name # "command"
  <2>1. u.at > 0 /\ u.kind \notin AppControls
    BY <1>1, <1>7, <1>11 DEF AtCommand, AppControls
  <2>2. PICK t \in AppTaskRecord :
             /\ appTask' = [appTask EXCEPT ![i] = t] /\ AppTaskWhole(t)
             /\ t.kind = appTask[i].kind /\ t.id = appTask[i].id /\ t.name = appTask[i].name
             /\ t.port = appTask[i].port /\ t.was = appTask[i].was /\ t.pc = "undo"
             /\ t.at = IF appTask[i].kind = "create" /\ appTask[i].at >= 3
                       THEN appTask[i].at - 1 ELSE 0
    BY <1>1, <1>2, <1>11, <2>1, AppGoesBack
  <2>3. AppTurns(i, t) /\ ~AppUnserved(t)
    BY <1>1, <1>5, <1>8, <2>2 DEF AppTurns, AppUnserved, AppHostOf, AppStrong, AppShapes
  <2>4. AppRoutesInTime' /\ appRoute' \in AppRouting /\ appStale' \in BOOLEAN
    BY <1>1, <1>2, <2>3, AppRoutesTurn
  <2>5. ASSUME AppQuiet(d) PROVE AppWorkSound(d, t)'
    <3>1. AppWorkSound(d, u) /\ (appBox[d] # None => appBox[d].port = p)
      BY <1>2, <2>5, AppSoundNow
    <3>2. AppTurnsBack(t, u)
      BY <2>2 DEF AppTurnsBack
    <3> QED
      BY <1>1, <1>2, <1>5, <1>6, <1>7, <1>11, <3>1, <3>2, AppWorkedBack
  <2> QED
    BY <1>2, <1>9, <2>2, <2>3, <2>4, <2>5, AppTurnsSound
<1> QED
  BY <1>10, <1>11

-----------------------------------------------------------------------------
\* What a task records, and a restart.

AppDrops(i) == appTask[i].kind = "delete" /\ appTask[i].pc = "do"

LEMMA AppRecordIs ==
    ASSUME AppStrong, NEW i \in AppRequests, AppRecord(i)
    PROVE  LET t == appTask[i] IN
           /\ AppWorks(i) /\ t \in AppTaskRecord /\ AppTaskWhole(t)
           /\ \/ t.kind = "create" /\ t.pc = "do" /\ t.at = 6 /\ Outcome(i) = "running"
              \/ t.kind = "create" /\ t.pc = "undo" /\ t.at = 0 /\ Outcome(i) = "error"
              \/ t.kind = "delete" /\ t.pc = "undo" /\ t.at = 0 /\ Outcome(i) = "error"
              \/ t.kind = "delete" /\ t.pc = "do" /\ t.at = 5
              \/ t.kind \in {"start", "restart"} /\ t.pc = "do" /\ t.at = 2 /\ Outcome(i) = "running"
              \/ t.kind = "stop" /\ t.pc = "do" /\ t.at = 2 /\ Outcome(i) = "stopped"
<1>1. \/ appTask[i].pc = "undo" /\ appTask[i].at = 0
      \/ appTask[i].pc = "do" /\ AppStep(i) \in {"finalize", "record"}
  BY DEF AppRecord
<1>2. AppWorks(i) /\ appTask[i] \in AppTaskRecord /\ AppTaskWhole(appTask[i])
  BY <1>1 DEF AppWorks, AppStrong, AppShapes, AppWholes
<1>3. appTask[i].kind \in {"create", "delete"} \cup AppControls
  BY <1>2 DEF AppTaskWhole, AppWorks, AppKinds
<1>4. AppPlace(appTask[i].kind, appTask[i].pc, appTask[i].at)
  BY <1>2 DEF AppTaskWhole
<1>5. CASE appTask[i].pc = "undo"
  <2>1. appTask[i].at = 0 /\ Outcome(i) = "error" /\ appTask[i].kind \notin AppControls
    <3>1. appTask[i].at = 0 /\ appTask[i].kind \notin AppControls
      BY <1>1, <1>2, <1>5 DEF AppTaskWhole
    <3>2. appTask[i].kind # "stop"
      BY <3>1 DEF AppControls
    <3>3. Outcome(i) = "error"
      BY <1>5, <3>2 DEF Outcome
    <3> QED
      BY <3>1, <3>3
  <2> QED
    BY <1>2, <1>3, <1>5, <2>1
<1>6. CASE appTask[i].pc = "do"
  <2>1. AppStep(i) \in {"finalize", "record"}
    BY <1>1, <1>6
  <2>2. CASE appTask[i].kind = "create"
    <3>1. appTask[i].at \in 1 .. 6
      BY <1>4, <1>6, <2>2 DEF AppPlace
    <3>2. appTask[i].at = 6
      BY <2>1, <2>2, <3>1, AppStepIs
    <3>3. Outcome(i) = "running"
      BY <1>6, <2>2 DEF Outcome
    <3> QED
      BY <1>2, <1>6, <2>2, <3>2, <3>3
  <2>3. CASE appTask[i].kind = "delete"
    <3>1. appTask[i].at \in 1 .. 5
      BY <1>4, <1>6, <2>3 DEF AppPlace
    <3>2. appTask[i].at = 5
      BY <2>1, <2>3, <3>1, AppStepIs
    <3> QED
      BY <1>2, <1>6, <2>3, <3>2
  <2>4. CASE appTask[i].kind \in AppControls
    <3>1. appTask[i].at \in 1 .. 2
      BY <1>4, <1>6, <2>4 DEF AppPlace, AppControls
    <3>2. appTask[i].at = 2
      BY <2>1, <2>4, <3>1, AppStepIs
    <3>3. Outcome(i) = IF appTask[i].kind = "stop" THEN "stopped" ELSE "running"
      BY <1>6 DEF Outcome
    <3> QED
      BY <1>2, <1>6, <2>4, <3>2, <3>3 DEF AppControls
  <2> QED
    BY <1>3, <2>2, <2>3, <2>4
<1> QED
  BY <1>1, <1>5, <1>6

LEMMA AppRecordRows ==
    ASSUME AppStrong, NEW i \in AppRequests, AppRecord(i), NEW n \in AppNames, NEW d, d = appTask[i].id
    PROVE  /\ n \notin AppRowOf(d) => appRow'[n] = appRow[n]
           /\ n \in AppRowOf(d) /\ AppDrops(i) => appRow'[n] = None
           /\ n \in AppRowOf(d) /\ ~AppDrops(i) =>
                /\ appRow'[n] \in AppRows /\ appRow'[n] # None
                /\ appRow'[n].id = d /\ appRow'[n].port = appRow[n].port
                /\ appRow[n].status = appTask[i].was => appRow'[n].status = Outcome(i)
<1> PICK out : out = Outcome(i)
  OBVIOUS
<1> PICK old : old = appRow[n]
  OBVIOUS
<1>1. appRow' = [m \in AppNames |->
          IF m \notin AppRowOf(d) THEN appRow[m]
          ELSE IF appTask[i].kind = "delete" /\ appTask[i].pc = "do" THEN None
          ELSE IF out = appTask[i].was THEN appRow[m]
          ELSE [appRow[m] EXCEPT !.status = out]]
  BY DEF AppRecord
<1>2. appRow'[n] = IF n \notin AppRowOf(d) THEN old
                   ELSE IF AppDrops(i) THEN None
                   ELSE IF out = appTask[i].was THEN old
                   ELSE [old EXCEPT !.status = out]
  BY <1>1 DEF AppDrops
<1>3. ASSUME n \in AppRowOf(d), ~AppDrops(i)
      PROVE  /\ appRow'[n] \in AppRows /\ appRow'[n] # None
             /\ appRow'[n].id = d /\ appRow'[n].port = old.port
             /\ old.status = appTask[i].was => appRow'[n].status = out
  <2>1. old # None /\ old.id = d /\ old \in AppRows
    BY <1>3 DEF AppRowOf, AppStrong, AppShapes
  <2>2. out \in AppStatuses
    BY <1>3, AppRecordIs DEF AppDrops, AppStatuses
  <2>3. CASE out = appTask[i].was
    BY <1>2, <1>3, <2>1, <2>3
  <2>4. CASE out # appTask[i].was
    <3> DEFINE row == [old EXCEPT !.status = out]
    <3>1. row \in AppRows /\ row.id = d /\ row.port = old.port /\ row.status = out
      BY <2>1, <2>2 DEF AppRows
    <3>2. appRow'[n] = row
      BY <1>2, <1>3, <2>4
    <3> HIDE DEF row
    <3> QED
      BY <3>1, <3>2, AppNones
  <2> QED
    BY <2>3, <2>4
<1> QED
  BY <1>2, <1>3

\* What a task records is what its work has come to.
LEMMA AppOutcomeSound ==
    ASSUME AppStrong, NEW i \in AppRequests, AppRecord(i), ~AppDrops(i), NEW d, d = appTask[i].id,
           AppQuiet(d), d \notin appCut, NEW out, out = Outcome(i)
    PROVE  AppStatusSound(d, out)
<1> PICK u : u = appTask[i]
  OBVIOUS
<1>1. /\ AppWorks(i)
      /\ \/ u.kind = "create" /\ u.pc = "do" /\ u.at = 6 /\ out = "running"
         \/ u.kind = "create" /\ u.pc = "undo" /\ u.at = 0 /\ out = "error"
         \/ u.kind = "delete" /\ u.pc = "undo" /\ u.at = 0 /\ out = "error"
         \/ u.kind \in {"start", "restart"} /\ u.pc = "do" /\ u.at = 2 /\ out = "running"
         \/ u.kind = "stop" /\ u.pc = "do" /\ u.at = 2 /\ out = "stopped"
  BY AppRecordIs DEF AppDrops
<1>2. d \in AppIds /\ AppWorkSound(d, u)
  BY <1>1, AppSoundNow
<1>3. appParts[d] \subseteq {"app_dir", "network"}
  BY <1>2 DEF AppStrong, AppShapes
<1>4. CASE u.kind = "create" /\ u.pc = "do" /\ u.at = 6 /\ out = "running"
  <2>1. /\ appBox[d] # None /\ appBox[d].up
        /\ "network" \in appParts[d] /\ "app_dir" \in appParts[d]
    BY <1>2, <1>4 DEF AppWorkSound
  <2>2. AppUp(d)
    BY <1>3, <2>1 DEF AppUp, AppWhole
  <2> QED
    BY <1>4, <2>2 DEF AppStatusSound
<1>5. CASE u.kind = "create" /\ u.pc = "undo" /\ u.at = 0 /\ out = "error"
  <2>1. appBox[d] # None => FailedAt(d, {"container"})
    BY <1>2, <1>5 DEF AppWorkSound
  <2>2. FailedAt(d, {"container"}) => AppTouched(d)
    BY DEF FailedAt, AppTouched
  <2> QED
    BY <1>5, <2>1, <2>2 DEF AppStatusSound, AppExcused
<1>6. CASE u.kind = "delete" /\ u.pc = "undo" /\ out = "error"
  BY <1>2, <1>6 DEF AppWorkSound, AppStatusSound
<1>7. CASE u.kind \in {"start", "restart"} /\ u.at = 2 /\ out = "running"
  BY <1>2, <1>7 DEF AppWorkSound, AppStatusSound
<1>8. CASE u.kind = "stop" /\ u.at = 2 /\ out = "stopped"
  BY <1>2, <1>8 DEF AppWorkSound, AppStatusSound
<1> QED
  BY <1>1, <1>4, <1>5, <1>6, <1>7, <1>8

LEMMA AppDropsAll ==
    ASSUME AppStrong, NEW i \in AppRequests, AppRecord(i), AppDrops(i), NEW d, d = appTask[i].id, AppQuiet(d)
    PROVE  appBox[d] = None /\ appParts[d] = {}
<1>1. AppWorks(i) /\ appTask[i].kind = "delete" /\ appTask[i].pc = "do" /\ appTask[i].at = 5
  BY AppRecordIs DEF AppDrops
<1>2. d \in AppIds /\ AppWorkSound(d, appTask[i])
  BY <1>1, AppSoundNow
<1>3. appParts[d] \subseteq {"app_dir", "network"}
  BY <1>2 DEF AppStrong, AppShapes
<1>4. appBox[d] = None /\ "network" \notin appParts[d] /\ "app_dir" \notin appParts[d]
  BY <1>1, <1>2 DEF AppWorkSound
<1> QED
  BY <1>3, <1>4

LEMMA AppRecordSound ==
    ASSUME AppStrong, NEW i \in AppRequests, AppRecord(i)
    PROVE  AppStrong'
<1> PICK d : d = appTask[i].id
  OBVIOUS
<1>1. /\ AppEnd(i)
      /\ UNCHANGED <<appParts, appBox, appRoute, appFaults, appLeft, appMixed, appCut, appStale>>
      /\ appRow' \in [AppNames -> {appRow'[n] : n \in AppNames}]
  BY DEF AppRecord, appHistory
<1>2. AppWorks(i) /\ appTask[i] \in AppTaskRecord /\ AppTaskWhole(appTask[i])
  BY AppRecordIs
<1>3. d \in AppIds /\ appTask[i].kind \in AppKinds /\ appTask[i].kind # None
  BY <1>2, AppNones DEF AppTaskWhole, AppWorks
<1>4. PICK t \in AppTaskRecord : /\ appTask' = [appTask EXCEPT ![i] = t] /\ AppTaskWhole(t)
                                 /\ t.kind = appTask[i].kind /\ t.pc = "off"
  BY <1>1, <1>2, AppEnds
<1>5. /\ appTask' \in [AppRequests -> AppTaskRecord] /\ appTask'[i] = t
      /\ \A j \in AppRequests : j # i => appTask'[j] = appTask[j]
      /\ AppWholes'
  BY <1>4, AppTaskSet DEF AppStrong
<1>6. ASSUME NEW n \in AppNames
      PROVE  /\ n \notin AppRowOf(d) => appRow'[n] = appRow[n]
             /\ n \in AppRowOf(d) /\ AppDrops(i) => appRow'[n] = None
             /\ n \in AppRowOf(d) /\ ~AppDrops(i) =>
                  /\ appRow'[n] \in AppRows /\ appRow'[n] # None
                  /\ appRow'[n].id = d /\ appRow'[n].port = appRow[n].port
                  /\ appRow[n].status = appTask[i].was => appRow'[n].status = Outcome(i)
  BY AppRecordRows
<1>7. \A n \in AppNames : n \in AppRowOf(d) <=> appRow[n] # None /\ appRow[n].id = d
  BY DEF AppRowOf
<1>8. \A n \in AppNames : appRow'[n] # None => appRow[n] # None /\ appRow'[n].id = appRow[n].id
  BY <1>6, <1>7
<1>9. \A j \in AppRequests : AppWorks(j)' => j # i /\ AppWorks(j) /\ appTask'[j] = appTask[j]
  BY <1>4, <1>5 DEF AppWorks
<1>10. AppShapes'
  <2>1. appRow' \in [AppNames -> AppRows \cup {None}]
    <3>1. \A n \in AppNames : appRow'[n] \in AppRows \cup {None}
      BY <1>6 DEF AppStrong, AppShapes
    <3> QED
      BY <1>1, <3>1
  <2> QED
    BY <1>1, <1>5, <2>1 DEF AppStrong, AppShapes
<1>11. AppNumbered'
  <2>1. AppBegun \subseteq AppBegun'
    BY <1>3, <1>4, <1>5 DEF AppBegun
  <2> QED
    BY <1>8, <2>1, AppNumberedKept DEF AppStrong
<1>12. AppLanes'
  <2> SUFFICES ASSUME NEW e \in AppIds, NEW n \in AppNames, AppAlone(e, n)
               PROVE  AppAlone(e, n)'
    BY <1>1 DEF AppStrong, AppLanes, AppLane
  <2>1. \A j, k \in AppRequests :
          AppWorks(j)' /\ AppWorks(k)' /\ appTask'[j].id = e /\ appTask'[k].id = e
          /\ appTask'[j].name = n /\ appTask'[k].name = n => j = k
    BY <1>9 DEF AppAlone
  <2>2. ASSUME NEW j \in AppRequests, AppWorks(j)', appTask'[j].id = e, appTask'[j].name = n
        PROVE  /\ appRow'[n] # None /\ appRow'[n].id = e
               /\ appRow'[n].port = appTask'[j].port /\ appRow'[n].status = appTask'[j].was
    <3>1. j # i /\ AppWorks(j) /\ appTask'[j] = appTask[j]
      BY <1>9, <2>2
    <3>2. /\ appRow[n] # None /\ appRow[n].id = e
          /\ appRow[n].port = appTask[j].port /\ appRow[n].status = appTask[j].was
      BY <2>2, <3>1 DEF AppAlone
    <3>3. e # d
      BY <1>2, <2>2, <3>1, <3>2 DEF AppAlone
    <3>4. appRow'[n] = appRow[n]
      BY <1>6, <1>7, <3>2, <3>3
    <3> QED
      BY <3>1, <3>2, <3>4
  <2>3. appRow'[n] # None /\ appRow'[n].id = e =>
          \A j \in AppRequests : AppWorks(j)' /\ appTask'[j].id = e => appTask'[j].name = n
    BY <1>8, <1>9 DEF AppAlone
  <2> QED
    BY <2>1, <2>2, <2>3 DEF AppAlone
<1>13. AppRoutesInTime'
  <2> SUFFICES ASSUME ~appStale', NEW n \in AppNames, \A e \in appMixed' : e.name # n
               PROVE  /\ appRoute'[n] # None => appRow'[n] # None /\ appRow'[n].port = appRoute'[n]
                      /\ \A j \in AppRequests :
                           AppUnserved(appTask[j])' /\ appTask'[j].name = n => appRoute'[n] = None
    BY DEF AppRoutesInTime
  <2>1. /\ appRoute[n] # None => appRow[n] # None /\ appRow[n].port = appRoute[n]
        /\ \A j \in AppRequests : AppUnserved(appTask[j]) /\ appTask[j].name = n => appRoute[n] = None
    <3>1. ~appStale /\ \A e \in appMixed : e.name # n
      BY <1>1
    <3> QED
      BY <3>1 DEF AppStrong, AppRoutesInTime
  <2>2. \A j \in AppRequests : AppUnserved(appTask[j])' /\ appTask'[j].name = n => appRoute'[n] = None
    <3> SUFFICES ASSUME NEW j \in AppRequests, AppUnserved(appTask[j])', appTask'[j].name = n
                 PROVE  appRoute'[n] = None
      OBVIOUS
    <3>1. appTask'[j] = appTask[j]
      <4>1. AppWorks(j)'
        BY DEF AppUnserved, AppWorks
      <4> QED
        BY <1>9, <4>1
    <3>2. AppUnserved(appTask[j])
      BY <3>1 DEF AppUnserved
    <3> QED
      BY <1>1, <2>1, <3>1, <3>2
  <2>3. CASE n \notin AppRowOf(d)
    BY <1>1, <1>6, <2>1, <2>2, <2>3
  <2>4. CASE n \in AppRowOf(d) /\ ~AppDrops(i)
    BY <1>1, <1>6, <2>1, <2>2, <2>4
  <2>5. CASE n \in AppRowOf(d) /\ AppDrops(i)
    <3>1. AppUnserved(appTask[i])
      <4>1. appTask[i].kind = "delete" /\ appTask[i].pc = "do" /\ appTask[i].at = 5
        BY <2>5, AppRecordIs DEF AppDrops
      <4> QED
        BY <4>1 DEF AppUnserved
    <3>2. appTask[i].name = n
      <4>1. [id |-> d, name |-> n] \notin appMixed
        BY <1>1
      <4>2. AppAlone(d, n)
        BY <1>3, <4>1 DEF AppStrong, AppLanes, AppLane
      <4> QED
        BY <1>2, <1>7, <2>5, <4>2 DEF AppAlone
    <3>3. appRoute'[n] = None
      BY <1>1, <2>1, <3>1, <3>2
    <3> QED
      BY <2>2, <3>3
  <2> QED
    BY <2>3, <2>4, <2>5
<1>14. ASSUME NEW e \in AppIds, e # d PROVE AppIdSound(e)'
  <2>1. AppSettled(e)' => AppSettled(e)
    BY <1>5, <1>14 DEF AppSettled, AppBusy
  <2>2. \A n \in AppNames : /\ n \in AppRowOf(e)' <=> n \in AppRowOf(e)
                            /\ n \in AppRowOf(e) => appRow'[n] = appRow[n]
    <3> SUFFICES ASSUME NEW n \in AppNames
                 PROVE  /\ n \in AppRowOf(e)' <=> n \in AppRowOf(e)
                        /\ n \in AppRowOf(e) => appRow'[n] = appRow[n]
      OBVIOUS
    <3>1. n \in AppRowOf(e) => appRow'[n] = appRow[n]
      BY <1>6, <1>7, <1>14 DEF AppRowOf
    <3>2. n \in AppRowOf(e)' <=> appRow'[n] # None /\ appRow'[n].id = e
      BY DEF AppRowOf
    <3>3. n \in AppRowOf(e) <=> appRow[n] # None /\ appRow[n].id = e
      BY DEF AppRowOf
    <3> QED
      BY <1>8, <3>1, <3>2, <3>3
  <2>3. AppQuiet(e)' => AppQuiet(e)
    BY <1>1 DEF AppQuiet
  <2>4. AppUntouched(e)
    BY <1>1, <1>9, <2>1, <2>2, <2>3 DEF AppUntouched
  <2> QED
    BY <1>14, <2>4, AppIdKept DEF AppStrong
<1>15. ASSUME AppQuiet(d)' PROVE AppIdSound(d)'
  <2>1. AppQuiet(d)
    BY <1>1, <1>15 DEF AppQuiet
  <2> PICK n : n = appTask[i].name
    OBVIOUS
  <2>2. /\ \A j \in AppRequests : AppWorks(j) /\ appTask[j].id = d => j = i
        /\ n \in AppNames /\ AppRowOf(d) = {n}
        /\ appRow[n] # None /\ appRow[n].id = d
        /\ appRow[n].port = appTask[i].port /\ appRow[n].status = appTask[i].was
    BY <1>2, <2>1, AppAloneAt
  <2>3. \A j \in AppRequests : ~(AppWorks(j)' /\ appTask'[j].id = d)
    BY <1>9, <2>2
  <2>4. AppRowOf(d)' \subseteq {n}
    BY <1>8, <2>2 DEF AppRowOf
  <2>5. CASE AppDrops(i)
    <3>1. appBox[d] = None /\ appParts[d] = {}
      BY <2>1, <2>5, AppDropsAll
    <3>2. AppRowOf(d)' = {}
      BY <1>6, <2>2, <2>4, <2>5 DEF AppRowOf
    <3> QED
      BY <1>1, <2>3, <3>1, <3>2 DEF AppIdSound
  <2>6. CASE ~AppDrops(i)
    <3>1. /\ appRow'[n] # None /\ appRow'[n].id = d /\ appRow'[n].port = appRow[n].port
          /\ appRow'[n].status = Outcome(i)
      BY <1>6, <2>2, <2>6
    <3>2. AppRowOf(d)' = {n}
      BY <2>2, <2>4, <3>1 DEF AppRowOf
    <3>3. appBox'[d] # None => appBox'[d].port = appRow'[n].port
      BY <1>1, <1>2, <2>1, <2>2, <3>1, AppSoundNow
    <3> PICK out : out = Outcome(i)
      OBVIOUS
    <3>4. d \notin appCut' => AppStatusSound(d, out)'
      <4> SUFFICES ASSUME d \notin appCut PROVE AppStatusSound(d, out)'
        BY <1>1
      <4>1. AppStatusSound(d, out)
        BY <2>1, <2>6, AppOutcomeSound
      <4> QED
        BY <1>1, <4>1, AppStatusKept
    <3>5. d \notin appCut' => AppStatusSound(d, appRow[n].status)'
      BY <3>1, <3>4
    <3> QED
      BY <2>3, <3>2, <3>3, <3>5 DEF AppIdSound
  <2> QED
    BY <2>5, <2>6
<1>16. AppIdSound(d)'
  BY <1>15 DEF AppIdSound
<1> QED
  BY <1>5, <1>10, <1>11, <1>12, <1>13, <1>14, <1>16 DEF AppStrong

LEMMA AppRestartSound == AppStrong /\ AppRestart => AppStrong'
<1> SUFFICES ASSUME AppStrong, AppRestart PROVE AppStrong'
  OBVIOUS
<1> PICK idle : idle = AppIdle
  OBVIOUS
<1>1. /\ appFaults < AppMaxFaults /\ appFaults' = appFaults + 1
      /\ appTask' = [i \in AppRequests |-> [idle EXCEPT !.kind = appTask[i].kind]]
      /\ appRoute' \in {appRoute, [n \in AppNames |->
           IF appRow[n] = None \/ appRow[n].status = "deleting" THEN None ELSE appRow[n].port]}
      /\ appCut' = appCut \cup {appTask[i].id : i \in {j \in AppRequests : AppBusy(j)}}
      /\ UNCHANGED <<appRow, appParts, appBox, appLeft, appMixed, appStale>>
  BY DEF AppRestart, AppFault
<1>2. idle \in AppTaskRecord /\ idle.pc = "off"
  BY AppIdleTyped
<1>3. ASSUME NEW i \in AppRequests
      PROVE  /\ appTask'[i] \in AppTaskRecord /\ appTask'[i].kind = appTask[i].kind
             /\ appTask'[i].pc = "off" /\ appTask[i].id \in AppIds \cup {0}
  <2> PICK kind : kind = appTask[i].kind
    OBVIOUS
  <2>1. kind \in AppKinds \cup {None} /\ appTask[i].id \in AppIds \cup {0}
    BY DEF AppStrong, AppShapes, AppTaskRecord
  <2> DEFINE t == [idle EXCEPT !.kind = kind]
  <2>2. t \in AppTaskRecord /\ t.kind = kind /\ t.pc = "off"
    BY <1>2, <2>1 DEF AppTaskRecord
  <2>3. appTask'[i] = t
    BY <1>1
  <2> HIDE DEF t
  <2> QED
    BY <2>1, <2>2, <2>3
<1>4. AppShapes'
  <2>1. appTask' \in [AppRequests -> AppTaskRecord]
    <3>1. appTask' = [i \in AppRequests |-> appTask'[i]]
      BY <1>1
    <3> QED
      BY <1>3, <3>1
  <2>2. appRoute' \in AppRouting
    BY <1>1 DEF AppStrong, AppShapes, AppRouting, AppRows
  <2>3. appFaults' \in 0 .. AppMaxFaults
    BY <1>1, AppAssumption DEF AppStrong, AppShapes
  <2>4. appCut' \subseteq AppIds \cup {0}
    BY <1>1, <1>3 DEF AppStrong, AppShapes
  <2> QED
    BY <1>1, <2>1, <2>2, <2>3, <2>4 DEF AppStrong, AppShapes
<1>5. AppWholes'
  BY <1>3 DEF AppWholes, AppTaskWhole, AppPlace
<1>6. \A i \in AppRequests : ~AppWorks(i)' /\ ~AppUnserved(appTask[i])' /\ ~AppBusy(i)'
  BY <1>3 DEF AppWorks, AppUnserved, AppBusy
<1>7. AppNumbered'
  <2>1. AppBegun \subseteq AppBegun'
    BY <1>3 DEF AppBegun
  <2> QED
    BY <1>1, <2>1, AppNumberedKept DEF AppStrong
<1>8. AppLanes'
  <2>1. \A i \in AppRequests : AppStays(i)
    BY <1>6 DEF AppStays
  <2> QED
    BY <1>1, <2>1, AppLanesKept DEF AppStrong
<1>9. AppRoutesInTime'
  <2>1. CASE appRoute' = appRoute
    BY <1>1, <1>6, <2>1, AppRoutesKept DEF AppStrong
  <2>2. CASE appRoute' = [n \in AppNames |->
           IF appRow[n] = None \/ appRow[n].status = "deleting" THEN None ELSE appRow[n].port]
    BY <1>1, <1>6, <2>2 DEF AppRoutesInTime
  <2> QED
    BY <1>1, <2>1, <2>2
<1>10. ASSUME NEW d \in AppIds PROVE AppIdSound(d)'
  <2>1. d \notin appCut' /\ AppSettled(d)' => AppSettled(d)
    BY <1>1 DEF AppSettled
  <2>2. \A n \in AppNames : /\ n \in AppRowOf(d)' <=> n \in AppRowOf(d)
                            /\ n \in AppRowOf(d) => appRow'[n] = appRow[n]
    BY <1>1 DEF AppRowOf
  <2>3. AppQuiet(d)' => AppQuiet(d)
    BY <1>1 DEF AppQuiet
  <2>4. AppUntouched(d)
    BY <1>1, <1>6, <2>1, <2>2, <2>3 DEF AppUntouched
  <2> QED
    BY <2>4, AppIdKept DEF AppStrong
<1> QED
  BY <1>4, <1>5, <1>7, <1>8, <1>9, <1>10 DEF AppStrong

LEMMA AppStutters == AppStrong /\ UNCHANGED appVars => AppStrong'
<1> SUFFICES ASSUME AppStrong, UNCHANGED appVars PROVE AppStrong'
  OBVIOUS
<1>1. UNCHANGED <<appRow, appParts, appBox, appRoute, appTask, appFaults, appLeft, appMixed, appCut, appStale>>
  BY DEF appVars, appHistory
<1>2. AppShapes' /\ AppWholes'
  BY <1>1 DEF AppStrong, AppShapes, AppWholes, AppTaskWhole
<1>3. AppBegun' = AppBegun /\ \A i \in AppRequests : (AppWorks(i)' <=> AppWorks(i)) /\ AppStays(i)
  BY <1>1 DEF AppBegun, AppWorks, AppStays
<1>4. AppNumbered'
  BY <1>1, <1>3, AppNumberedKept DEF AppStrong
<1>5. AppLanes'
  BY <1>1, <1>3, AppLanesKept DEF AppStrong
<1>6. AppRoutesInTime'
  <2>1. \A i \in AppRequests : AppUnserved(appTask[i])' =>
               AppUnserved(appTask[i]) /\ appTask'[i].name = appTask[i].name
    BY <1>1 DEF AppUnserved
  <2> QED
    BY <1>1, <2>1, AppRoutesKept DEF AppStrong
<1>7. ASSUME NEW d \in AppIds PROVE AppIdSound(d)'
  <2>1. AppSettled(d)' => AppSettled(d)
    BY <1>1 DEF AppSettled, AppBusy
  <2>2. AppQuiet(d)' => AppQuiet(d)
    BY <1>1 DEF AppQuiet
  <2>3. \A n \in AppNames : n \in AppRowOf(d)' <=> n \in AppRowOf(d)
    BY <1>1 DEF AppRowOf
  <2>4. AppUntouched(d)
    BY <1>1, <1>3, <2>1, <2>2, <2>3 DEF AppUntouched
  <2> QED
    BY <2>4, AppIdKept DEF AppStrong
<1> QED
  BY <1>2, <1>4, <1>5, <1>6, <1>7 DEF AppStrong

LEMMA AppNextStrong == AppStrong /\ [AppNext]_appVars => AppStrong'
<1> SUFFICES ASSUME AppStrong, [AppNext]_appVars PROVE AppStrong'
  OBVIOUS
<1>1. CASE UNCHANGED appVars
  BY <1>1, AppStutters
<1>2. CASE AppRestart
  BY <1>2, AppRestartSound
<1>3. ASSUME NEW i \in AppRequests, NEW n \in AppNames,
             \/ \E p \in AppPorts : AppAsk(i, n, p)
             \/ AppDelete(i, n)
             \/ \E kind \in {"start", "stop", "restart"} : AppControl(i, kind, n)
      PROVE  AppStrong'
  BY <1>3, AppAsks, AppDeletes, AppIsControlled DEF AppControls
<1>4. ASSUME NEW i \in AppRequests,
             \/ AppInsert(i) \/ AppCommand(i) \/ AppCommandFails(i)
             \/ AppBuild(i) \/ AppLoad(i) \/ AppLoadFails(i) \/ AppRecord(i)
      PROVE  AppStrong'
  BY <1>4, AppInserts, AppCommandSound, AppCommandFailed, AppBuilds, AppLoads, AppLoadingFails,
     AppRecordSound
<1> QED
  BY <1>1, <1>2, <1>3, <1>4 DEF AppNext

LEMMA AppStrongImplies == AppStrong => AppTypeOK /\ AppsConsistent
<1> SUFFICES ASSUME AppStrong PROVE AppTypeOK /\ AppsConsistent
  OBVIOUS
<1>1. AppTypeOK
  <2>1. \A n \in AppNames : appRow[n] # None =>
         /\ appRow[n].id \in AppIds /\ appRow[n].port \in AppPorts
         /\ appRow[n].status \in {"provisioning", "running", "stopped", "error", "deleting"}
    BY DEF AppStrong, AppShapes, AppRows, AppStatuses
  <2>2. \A i \in AppRequests : appTask[i].pc \in {"off", "insert", "do", "undo"}
    BY DEF AppStrong, AppShapes, AppTaskRecord
  <2> QED
    BY <2>1, <2>2 DEF AppTypeOK, AppStrong, AppShapes, AppBoxes, AppRouting
<1>2. HostOfRows
  <2> SUFFICES ASSUME NEW d \in AppIds, AppQuiet(d), appBox[d] # None \/ appParts[d] # {}
               PROVE  \E n \in AppRowOf(d) : appBox[d] # None => appBox[d].port = appRow[n].port
    BY DEF HostOfRows
  <2>1. /\ AppRowOf(d) = {} => appBox[d] = None /\ appParts[d] = {}
        /\ \A n \in AppRowOf(d) : appBox[d] # None => appBox[d].port = appRow[n].port
    BY DEF AppStrong, AppIdSound
  <2> QED
    BY <2>1
<1>3. RoutesOfRows
  BY DEF AppStrong, AppRoutesInTime, RoutesOfRows
<1>4. RecordsTrue
  <2> SUFFICES ASSUME NEW n \in AppNames, NEW d, d = appRow[n].id, appRow[n] # None,
                      AppQuiet(d), AppSettled(d), d \notin appCut
               PROVE  LET touched == FailedAt(d, {"command", "container", "network", "app_dir"}) IN
                      /\ appRow[n].status = "running" /\ ~touched =>
                           appBox[d] # None /\ appBox[d].up /\ appParts[d] = {"app_dir", "network"}
                      /\ appRow[n].status = "stopped" /\ ~touched => appBox[d] # None /\ ~appBox[d].up
                      /\ appRow[n].status = "error" /\ appBox[d] # None =>
                           FailedAt(d, {"container"}) \/ <<d, "delete", "caddy">> \in appLeft
    BY DEF RecordsTrue
  <2>1. d \in AppIds /\ n \in AppRowOf(d)
    BY DEF AppRowOf, AppStrong, AppShapes, AppRows
  <2>2. AppStatusSound(d, appRow[n].status)
    BY <2>1 DEF AppStrong, AppIdSound
  <2> QED
    BY <2>2 DEF AppStatusSound, AppTouched, AppUp, AppDown, AppWhole, AppExcused
<1> QED
  BY <1>1, <1>2, <1>3, <1>4 DEF AppsConsistent

\* AppsConsistent is an invariant: the containers, directories, networks and
\* routes of identities that one task at a time has worked on are those of
\* their rows, and a settled row says what its container does, whatever
\* fails, and whenever the panel restarts.
THEOREM AppsStayConsistent == AppSpec => []AppsConsistent
<1>1. AppInit => AppStrong
  BY AppInitStrong
<1>2. AppStrong /\ [AppNext]_appVars => AppStrong'
  BY AppNextStrong
<1>3. AppStrong => AppsConsistent
  BY AppStrongImplies
<1> QED
  BY <1>1, <1>2, <1>3, PTL DEF AppSpec

-----------------------------------------------------------------------------
(* Remote servers.                                                         *)

RsUpSteps == {"tenant", "data", "units", "up"}
RsDownSteps == {"stop", "remove", "rmdata", "rmtenant"}
RsSteps == {"tenant", "data", "units", "up", "stop", "remove", "rmdata", "rmtenant"}
RsServerRows == [key : BOOLEAN, status : {"pending", "connected", "error"}]
RsStackRows == [server : RsHosts, asked : RsHosts, at : RsHosts, clean : BOOLEAN,
                status : {"converging", "ready", "degraded", "deleting"}]
RsLoading == [pc : {"load"}, op : BOOLEAN]
RsRunRecord == [pc : {"start", "act", "close"}, spec : BOOLEAN,
                todo : Seq(RsSteps), host : RsHosts, inUse : BOOLEAN, op : BOOLEAN]
RsOpStates == {None, "pending", "running", "succeeded", "failed"}

RsShapes ==
    /\ rsServer \in [RsServers -> RsServerRows \cup {None}] /\ rsDrop \in RsServers \cup {None}
    /\ rsRow \in [RsStacks -> RsStackRows \cup {None}] /\ rsOp \in [RsStacks -> RsOpStates]
    /\ rsQueue \subseteq RsStacks /\ rsPhase \in {"idle", "drain", "cycle"}
    /\ rsRun \in [RsStacks -> RsRunRecord \cup RsLoading \cup {None}]
    /\ rsOpen \subseteq RsServers \cup RsStacks
    /\ rsHas \in [RsHosts -> [RsStacks -> SUBSET RsParts]]
    /\ rsUser \subseteq RsHosts /\ rsUid \in RsHosts \cup {None}

RsIdle == rsPhase = "idle" => \A s \in RsStacks : rsRun[s] = None

\* The hosts a stack that was to run on h may have something on: h, and the
\* panel's own once the key of h has gone.
RsMayHave(g, h) == g = h \/ (g = "panel" /\ h \in RsServers /\ ~rsServer[h].key)

RsUpToCome(todo) == \E k \in 1 .. Len(todo) : todo[k] = "up"

\* What runs that are not yet through with their steps know and will do.  A run
\* for an absent stack works on the panel's own host, and none is ready meanwhile.
RsRunOk(s) ==
    rsRun[s] # None /\ rsRun[s].pc \in {"start", "act"} =>
        IF rsRun[s].spec
        THEN /\ rsRow[s] # None /\ rsRun[s].todo \in Seq(RsUpSteps)
             /\ rsRow[s].clean =>
                  /\ RsMayHave(rsRun[s].host, rsRow[s].server)
                  /\ "up" \in rsHas[rsRun[s].host][s] \/ RsUpToCome(rsRun[s].todo)
        ELSE /\ rsRun[s].todo \in Seq(RsDownSteps)
             /\ rsRow[s] # None => rsRow[s].status # "ready"

\* A clean row keeps its server, and what there is of its stack is there.
RsRowOk(s) ==
    rsRow[s] # None /\ rsRow[s].clean =>
        /\ rsRow[s].status # "deleting" /\ rsRow[s].server = rsRow[s].asked
        /\ rsDrop # None => rsRow[s].server # rsDrop
        /\ rsRow[s].server \in RsServers => rsServer[rsRow[s].server] # None
        /\ \A g \in RsHosts : rsHas[g][s] # {} => RsMayHave(g, rsRow[s].server)
        /\ rsRow[s].status = "ready" => "up" \in rsHas[rsRow[s].at][s]

RsStrong ==
    /\ RsShapes /\ RsIdle /\ SessionsClosed
    /\ \A s \in RsStacks : RsRunOk(s) /\ RsRowOk(s)

-----------------------------------------------------------------------------
(* Remote servers: what steps have in common.                              *)

LEMMA RsNones ==
    /\ None \notin RsServerRows /\ None \notin RsStackRows
    /\ None \notin RsLoading /\ None \notin RsRunRecord /\ None \notin RsServers
  BY RsNoneAssumption, RsAssumption
     DEF RsServerRows, RsStackRows, RsLoading, RsRunRecord, RsSteps, RsHosts

LEMMA RsSeqs ==
    /\ \A seq \in Seq(RsUpSteps) : seq \in Seq(RsSteps)
    /\ \A seq \in Seq(RsDownSteps) : seq \in Seq(RsSteps)
  BY DEF RsUpSteps, RsDownSteps, RsSteps

LEMMA RsRowTyped ==
    ASSUME RsShapes, NEW s \in RsStacks, rsRow[s] # None
    PROVE  /\ rsRow[s] \in RsStackRows /\ rsRow[s].server \in RsHosts /\ rsRow[s].asked \in RsHosts
           /\ rsRow[s].at \in RsHosts /\ rsRow[s].clean \in BOOLEAN
           /\ rsRow[s].status \in {"converging", "ready", "degraded", "deleting"}
<1>1. rsRow[s] \in RsStackRows
  BY DEF RsShapes
<1> QED
  BY <1>1 DEF RsStackRows

LEMMA RsRunTyped ==
    ASSUME RsShapes, NEW s \in RsStacks, rsRun[s] # None, rsRun[s].pc # "load"
    PROVE  /\ rsRun[s] \in RsRunRecord /\ rsRun[s].host \in RsHosts /\ rsRun[s].op \in BOOLEAN
           /\ rsRun[s].spec \in BOOLEAN /\ rsRun[s].todo \in Seq(RsSteps)
<1>1. rsRun[s] \in RsRunRecord
  BY DEF RsShapes, RsLoading
<1> QED
  BY <1>1 DEF RsRunRecord

\* What the row of a stack relies on stays: its server, and that nobody has
\* checked a deletion of it.
RsServerStays(s) ==
    rsRow[s] # None /\ rsRow[s].clean =>
        /\ rsRow[s].server \in RsServers =>
             /\ rsServer'[rsRow[s].server] # None
             /\ ~rsServer[rsRow[s].server].key => ~rsServer'[rsRow[s].server].key
        /\ rsDrop' # None => rsRow[s].server # rsDrop'

LEMMA RsServersSame ==
    ASSUME RsStrong, UNCHANGED <<rsServer, rsDrop>>, NEW s \in RsStacks
    PROVE  RsServerStays(s)
  BY DEF RsStrong, RsRowOk, RsServerStays

\* A stack that a step does not touch.
LEMMA RsOthersKept ==
    ASSUME RsStrong, NEW s \in RsStacks, RsServerStays(s), rsRow'[s] = rsRow[s],
           rsRun'[s] = rsRun[s], \A g \in RsHosts : rsHas'[g][s] = rsHas[g][s]
    PROVE  RsRunOk(s)' /\ RsRowOk(s)'
<1>1. RsRunOk(s) /\ RsRowOk(s) /\ RsShapes
  BY DEF RsStrong
<1>2. ASSUME rsRow[s] # None, rsRow[s].clean, NEW g, RsMayHave(g, rsRow[s].server)
      PROVE  g = rsRow[s].server
             \/ (g = "panel" /\ rsRow[s].server \in RsServers /\ ~rsServer'[rsRow[s].server].key)
  BY <1>2 DEF RsMayHave, RsServerStays
<1>3. RsRowOk(s)'
  <2>1. rsRow[s] # None => rsRow[s].at \in RsHosts
    BY <1>1, RsRowTyped
  <2> QED
    BY <1>1, <1>2, <2>1 DEF RsRowOk, RsMayHave, RsServerStays
<1>4. RsRunOk(s)'
  <2>1. rsRun[s] # None /\ rsRun[s].pc \in {"start", "act"} => rsRun[s].host \in RsHosts
    BY <1>1, RsRunTyped
  <2> QED
    BY <1>1, <1>2, <2>1 DEF RsRunOk, RsMayHave
<1> QED
  BY <1>3, <1>4

\* Sessions of runs that go on.
LEMMA RsSessionsKept ==
    ASSUME SessionsClosed, rsPhase' = rsPhase, rsOpen' \subseteq rsOpen,
           \A t \in RsStacks : rsRun[t] # None /\ rsRun[t].pc \in {"act", "close"} =>
               /\ rsRun'[t] # None /\ rsRun'[t].pc \in {"act", "close"}
               /\ rsRun'[t].host = rsRun[t].host
    PROVE  SessionsClosed'
<1>1. ASSUME NEW o \in rsOpen'
      PROVE  \E t \in RsStacks : rsRun'[t] # None /\ rsRun'[t].pc \in {"act", "close"} /\ Session(t)' = o
  <2>1. PICK t \in RsStacks : rsRun[t] # None /\ rsRun[t].pc \in {"act", "close"} /\ Session(t) = o
    BY <1>1 DEF SessionsClosed
  <2>2. Session(t)' = o
    BY <2>1 DEF Session
  <2> QED
    BY <2>1, <2>2
<1> QED
  BY <1>1 DEF SessionsClosed

LEMMA RsNoSessions ==
    ASSUME RsStrong, \A s \in RsStacks : rsRun[s] = None PROVE rsOpen = {}
  BY DEF RsStrong, SessionsClosed

\* Steps on the rows of servers.
LEMMA RsServersKeep ==
    ASSUME RsStrong, UNCHANGED <<rsHosts, rsPhase, rsRun, rsOpen, rsOp, rsQueue>>,
           rsServer' \in [RsServers -> RsServerRows \cup {None}], rsDrop' \in RsServers \cup {None},
           rsRow' \in [RsStacks -> RsStackRows \cup {None}],
           \A s \in RsStacks : RsServerStays(s),
           \A s \in RsStacks : rsRow'[s] = rsRow[s]
              \/ (rsRow[s] # None /\ ~rsRow[s].clean /\ rsRow'[s] # None /\ ~rsRow'[s].clean
                  /\ rsRow'[s].status = rsRow[s].status)
    PROVE  RsStrong'
<1>1. RsShapes'
  BY DEF RsStrong, RsShapes, rsHosts
<1>2. RsIdle'
  BY DEF RsStrong, RsIdle
<1>3. SessionsClosed'
  BY RsSessionsKept DEF RsStrong
<1>4. ASSUME NEW s \in RsStacks PROVE RsRunOk(s)' /\ RsRowOk(s)'
  <2>1. CASE rsRow'[s] = rsRow[s]
    BY <2>1, RsOthersKept DEF rsHosts
  <2>2. CASE rsRow'[s] # rsRow[s]
    <3>1. RsRunOk(s)
      BY DEF RsStrong
    <3> QED
      BY <2>2, <3>1 DEF RsRunOk, RsRowOk
  <2> QED
    BY <2>1, <2>2
<1> QED
  BY <1>1, <1>2, <1>3, <1>4 DEF RsStrong

LEMMA CreateServerKeeps ==
    ASSUME RsStrong, NEW v \in RsServers, CreateServer(v) PROVE RsStrong'
<1>1. PICK row : row = [key |-> TRUE, status |-> "pending"]
  OBVIOUS
<1>2. row \in RsServerRows /\ rsServer' = [rsServer EXCEPT ![v] = row]
  BY <1>1 DEF CreateServer, RsServerRows
<1>3. rsServer' \in [RsServers -> RsServerRows \cup {None}]
  BY <1>2 DEF RsStrong, RsShapes
<1>4. \A s \in RsStacks : RsServerStays(s)
  <2>1. ASSUME NEW s \in RsStacks, rsRow[s] # None, rsRow[s].clean PROVE rsRow[s].server # v
    BY <2>1 DEF RsStrong, RsRowOk, CreateServer
  <2>2. rsDrop' = rsDrop /\ \A u \in RsServers : u # v => rsServer'[u] = rsServer[u]
    BY <1>2 DEF CreateServer, RsStrong, RsShapes
  <2> QED
    BY <2>1, <2>2 DEF RsServerStays, RsStrong, RsRowOk
<1> QED
  BY <1>3, <1>4, RsServersKeep DEF CreateServer, RsStrong, RsShapes

LEMMA ServerRowKeeps ==
    ASSUME RsStrong, NEW v \in RsServers, NEW row \in RsServerRows, rsServer[v] # None,
           rsServer' = [rsServer EXCEPT ![v] = row], ~rsServer[v].key => ~row.key,
           UNCHANGED <<rsHosts, rsPhase, rsRun, rsOpen, rsOp, rsQueue, rsDrop, rsRow>>
    PROVE  RsStrong'
<1>1. rsServer' \in [RsServers -> RsServerRows \cup {None}]
  BY DEF RsStrong, RsShapes
<1>2. rsServer'[v] = row /\ row # None /\ \A u \in RsServers : u # v => rsServer'[u] = rsServer[u]
  BY RsNones DEF RsStrong, RsShapes
<1>3. \A s \in RsStacks : RsServerStays(s)
  BY <1>2 DEF RsServerStays, RsStrong, RsRowOk
<1> QED
  BY <1>1, <1>3, RsServersKeep DEF RsStrong, RsShapes

LEMMA ValidateServerKeeps ==
    ASSUME RsStrong, NEW v \in RsServers, ValidateServer(v) PROVE RsStrong'
<1>1. PICK status \in {"connected", "error"} : rsServer' = [rsServer EXCEPT ![v].status = status]
  BY DEF ValidateServer
<1>2. rsServer[v] # None /\ rsServer[v] \in RsServerRows
  BY DEF ValidateServer, RsStrong, RsShapes
<1>3. PICK row : row = [rsServer[v] EXCEPT !.status = status]
  OBVIOUS
<1>4. row \in RsServerRows /\ row.key = rsServer[v].key
  BY <1>2, <1>3 DEF RsServerRows
<1>5. rsServer' = [rsServer EXCEPT ![v] = row]
  BY <1>1, <1>3 DEF RsStrong, RsShapes
<1> QED
  BY <1>2, <1>4, <1>5, ServerRowKeeps DEF ValidateServer

LEMMA DeleteKeyKeeps ==
    ASSUME RsStrong, NEW v \in RsServers, DeleteKey(v) PROVE RsStrong'
<1>1. rsServer[v] # None /\ rsServer[v] \in RsServerRows
  BY DEF DeleteKey, RsStrong, RsShapes
<1>2. PICK row : row = [rsServer[v] EXCEPT !.key = FALSE]
  OBVIOUS
<1>3. row \in RsServerRows /\ ~row.key
  BY <1>1, <1>2 DEF RsServerRows
<1>4. rsServer' = [rsServer EXCEPT ![v] = row]
  BY <1>2 DEF DeleteKey, RsStrong, RsShapes
<1> QED
  BY <1>1, <1>3, <1>4, ServerRowKeeps DEF DeleteKey

\* A row that is clean is not being deleted: its server is not free.
LEMMA CheckServerKeeps ==
    ASSUME RsStrong, NEW v \in RsServers, CheckServer(v) PROVE RsStrong'
<1>1. ASSUME NEW s \in RsStacks, rsRow[s] # None, rsRow[s].clean PROVE rsRow[s].server # v
  BY <1>1 DEF RsStrong, RsRowOk, CheckServer, ServerFree, RsActive
<1>2. \A s \in RsStacks : RsServerStays(s)
  BY <1>1 DEF RsServerStays, RsStrong, RsRowOk, CheckServer
<1> QED
  BY <1>2, RsServersKeep DEF CheckServer, RsStrong, RsShapes

LEMMA DeleteServerKeeps == ASSUME RsStrong, DeleteServer PROVE RsStrong'
<1>1. rsDrop \in RsServers /\ rsDrop # None
  BY DEF DeleteServer, RsStrong, RsShapes
<1>2. /\ rsServer' \in [RsServers -> RsServerRows \cup {None}]
      /\ \A u \in RsServers : u # rsDrop => rsServer'[u] = rsServer[u]
  BY <1>1 DEF DeleteServer, RsStrong, RsShapes
<1>3. \A s \in RsStacks : RsServerStays(s)
  BY <1>1, <1>2 DEF RsServerStays, RsStrong, RsRowOk, DeleteServer
<1>4. ASSUME NEW s \in RsStacks
      PROVE  /\ rsRow'[s] \in RsStackRows \cup {None}
             /\ \/ rsRow'[s] = rsRow[s]
                \/ (rsRow[s] # None /\ ~rsRow[s].clean /\ rsRow'[s] # None /\ ~rsRow'[s].clean
                    /\ rsRow'[s].status = rsRow[s].status)
  <2>1. CASE rsRow[s] # None /\ rsRow[s].server = rsDrop
    <3>1. rsRow[s] \in RsStackRows /\ ~rsRow[s].clean
      BY <1>1, <2>1, RsRowTyped DEF RsStrong, RsRowOk
    <3>2. PICK row : row = [rsRow[s] EXCEPT !.server = "panel"]
      OBVIOUS
    <3>3. row \in RsStackRows /\ row.clean = rsRow[s].clean /\ row.status = rsRow[s].status
      BY <3>1, <3>2 DEF RsStackRows, RsHosts
    <3>4. row # None
      BY <3>3, RsNones
    <3>5. rsRow'[s] = row
      BY <2>1, <3>2 DEF DeleteServer
    <3> QED
      BY <2>1, <3>1, <3>3, <3>4, <3>5
  <2>2. CASE ~(rsRow[s] # None /\ rsRow[s].server = rsDrop)
    BY <2>2 DEF DeleteServer, RsStrong, RsShapes
  <2> QED
    BY <2>1, <2>2
<1>5. rsRow' \in [RsStacks -> RsStackRows \cup {None}]
  <2>1. DOMAIN rsRow' = RsStacks /\ rsRow' = [s \in RsStacks |-> rsRow'[s]]
    BY DEF DeleteServer
  <2> QED
    BY <1>4, <2>1
<1>6. rsDrop' = None
  BY DEF DeleteServer
<1> QED
  BY <1>2, <1>3, <1>4, <1>5, <1>6, RsServersKeep DEF DeleteServer

-----------------------------------------------------------------------------
(* Remote servers: requests about stacks.                                  *)

LEMMA RsRequestKeeps ==
    ASSUME RsStrong, NEW s \in RsStacks, RsRequest(s),
           UNCHANGED <<rsServer, rsDrop, rsHosts, rsPhase, rsOpen>>,
           NEW row \in RsStackRows, rsRow' = [rsRow EXCEPT ![s] = row],
           row.status = "deleting" \/ (rsRow[s] = None /\ row.status = "converging"),
           row.clean =>
             /\ rsRow[s] = None /\ row.status # "deleting" /\ row.server = row.asked
             /\ rsDrop # None => row.server # rsDrop
             /\ row.server \in RsServers => rsServer[row.server] # None
             /\ \A g \in RsHosts : rsHas[g][s] # {} => g = row.server
    PROVE  RsStrong'
<1>1. RsShapes
  BY DEF RsStrong
<1>2. /\ rsRow' \in [RsStacks -> RsStackRows \cup {None}] /\ rsRow'[s] = row /\ row # None
      /\ \A t \in RsStacks : t # s => rsRow'[t] = rsRow[t]
  BY <1>1, RsNones DEF RsShapes
<1>3. /\ rsRun' \in [RsStacks -> RsRunRecord \cup RsLoading \cup {None}]
      /\ \A t \in RsStacks : t # s => rsRun'[t] = rsRun[t]
      /\ rsRun[s] = None => rsRun'[s] = None
      /\ rsRun[s] # None => /\ rsRun'[s] # None /\ rsRun'[s].pc = rsRun[s].pc
                            /\ rsRun[s].pc # "load" => /\ rsRun'[s].host = rsRun[s].host
                                                       /\ rsRun'[s].spec = rsRun[s].spec
                                                       /\ rsRun'[s].todo = rsRun[s].todo
  <2>1. CASE rsRun[s] = None
    BY <1>1, <2>1 DEF RsRequest, RsShapes
  <2>2. CASE rsRun[s] # None
    <3>1. PICK run : run = [rsRun[s] EXCEPT !.op = FALSE]
      OBVIOUS
    <3>2. rsRun' = [rsRun EXCEPT ![s] = run]
      BY <1>1, <2>2, <3>1 DEF RsRequest, RsShapes
    <3>3. CASE rsRun[s] \in RsLoading
      <4>1. run \in RsLoading /\ run.pc = "load" /\ rsRun[s].pc = "load"
        BY <3>1, <3>3 DEF RsLoading
      <4>2. run # None
        BY <4>1, RsNones
      <4> QED
        BY <1>1, <2>2, <3>2, <4>1, <4>2 DEF RsShapes
    <3>4. CASE rsRun[s] \in RsRunRecord
      <4>1. run \in RsRunRecord /\ run.pc = rsRun[s].pc /\ run.host = rsRun[s].host
            /\ run.spec = rsRun[s].spec /\ run.todo = rsRun[s].todo
        BY <3>1, <3>4 DEF RsRunRecord
      <4>2. run # None
        BY <4>1, RsNones
      <4> QED
        BY <1>1, <2>2, <3>2, <4>1, <4>2 DEF RsShapes
    <3> QED
      BY <1>1, <2>2, <3>3, <3>4 DEF RsShapes
  <2> QED
    BY <2>1, <2>2
<1>4. RsShapes'
  BY <1>1, <1>2, <1>3 DEF RsRequest, RsShapes, rsHosts, RsOpStates
<1>5. RsIdle'
  BY <1>3 DEF RsStrong, RsIdle
<1>6. SessionsClosed'
  <2>1. \A t \in RsStacks : rsRun[t] # None /\ rsRun[t].pc \in {"act", "close"} =>
               /\ rsRun'[t] # None /\ rsRun'[t].pc \in {"act", "close"}
               /\ rsRun'[t].host = rsRun[t].host
    BY <1>3
  <2> QED
    BY <2>1, RsSessionsKept DEF RsStrong
<1>7. ASSUME NEW t \in RsStacks, t # s PROVE RsRunOk(t)' /\ RsRowOk(t)'
  BY <1>2, <1>3, <1>7, RsServersSame, RsOthersKept DEF rsHosts
<1>8. RsRowOk(s)'
  <2>1. row.clean => \A g \in RsHosts : rsHas'[g][s] # {} => RsMayHave(g, row.server)'
    BY DEF rsHosts, RsMayHave
  <2>2. row.clean => row.status # "ready"
    OBVIOUS
  <2> QED
    BY <1>2, <2>1, <2>2 DEF RsRowOk, RsMayHave
<1>9. RsRunOk(s)'
  <2>1. RsRunOk(s)
    BY DEF RsStrong
  <2>2. row.status # "ready"
    OBVIOUS
  <2>3. ASSUME rsRun'[s] # None, rsRun'[s].pc \in {"start", "act"}, rsRun'[s].spec PROVE ~row.clean
    BY <1>3, <2>1, <2>3 DEF RsRunOk
  <2>4. row.clean \in BOOLEAN
    BY DEF RsStackRows
  <2> QED
    BY <1>2, <1>3, <2>1, <2>2, <2>3, <2>4 DEF RsRunOk
<1> QED
  BY <1>4, <1>5, <1>6, <1>7, <1>8, <1>9 DEF RsStrong

LEMMA CreateStackOnKeeps ==
    ASSUME RsStrong, NEW s \in RsStacks, NEW h \in RsHosts, CreateStackOn(s, h) PROVE RsStrong'
<1>1. PICK clean \in BOOLEAN : clean = (h # rsDrop /\ \A g \in RsHosts \ {h} : rsHas[g][s] = {})
  OBVIOUS
<1>2. PICK row : row = [server |-> h, asked |-> h, at |-> h, status |-> "converging", clean |-> clean]
  OBVIOUS
<1>3. /\ row \in RsStackRows /\ row.server = h /\ row.asked = h /\ row.status = "converging"
      /\ row.clean = clean
  BY <1>2 DEF RsStackRows
<1>4. rsRow' = [rsRow EXCEPT ![s] = row]
  BY <1>1, <1>2 DEF CreateStackOn
<1>5. /\ rsRow[s] = None /\ RsRequest(s) /\ UNCHANGED <<rsServer, rsDrop, rsHosts, rsPhase, rsOpen>>
      /\ h \in RsServers => rsServer[h] # None
  BY DEF CreateStackOn
<1>6. clean => /\ rsDrop # None => h # rsDrop
               /\ \A g \in RsHosts : rsHas[g][s] # {} => g = h
  BY <1>1
<1> QED
  BY <1>3, <1>4, <1>5, <1>6, RsRequestKeeps

LEMMA DeleteStackOnKeeps ==
    ASSUME RsStrong, NEW s \in RsStacks, DeleteStackOn(s) PROVE RsStrong'
<1>1. rsRow[s] # None /\ rsRow[s] \in RsStackRows
  BY DEF DeleteStackOn, RsStrong, RsShapes
<1>2. PICK row : row = [rsRow[s] EXCEPT !.status = "deleting", !.clean = FALSE]
  OBVIOUS
<1>3. row \in RsStackRows /\ row.status = "deleting" /\ ~row.clean
  BY <1>1, <1>2 DEF RsStackRows
<1>4. rsRow' = [rsRow EXCEPT ![s] = row]
  BY <1>2 DEF DeleteStackOn, RsStrong, RsShapes
<1>5. RsRequest(s) /\ UNCHANGED <<rsServer, rsDrop, rsHosts, rsPhase, rsOpen>>
  BY DEF DeleteStackOn
<1> QED
  BY <1>3, <1>4, <1>5, RsRequestKeeps

-----------------------------------------------------------------------------
(* Remote servers: what a run reads and plans.                             *)

LEMMA RsSeen ==
    ASSUME RsStrong, NEW s \in RsStacks, NEW scan \in Scans, NEW obs \in Observations(s, scan),
           rsRow[s] # None, rsRow[s].clean, "up" \in obs.seen
    PROVE  "up" \in rsHas[HostOf(rsRow[s])][s]
<1>1. RsRowOk(s) /\ RsShapes /\ rsRow[s].server \in RsHosts
  BY RsRowTyped DEF RsStrong
<1>2. \A h : Scanned(h, s) \subseteq rsHas[h][s]
  BY DEF Scanned
<1>3. ASSUME NEW v \in RsServers, "up" \in RemoteScan(v, s, scan)
      PROVE  "up" \in rsHas[HostOf(rsRow[s])][s]
  <2>1. "up" \in rsHas[v][s] /\ v \in RsHosts /\ v # "panel"
    BY <1>2, <1>3, RsAssumption DEF RemoteScan, RsHosts
  <2>2. rsServer[v] # None /\ rsServer[v].key
    <3>1. PICK t \in RsStacks : RsActive(t) /\ HostOf(rsRow[t]) = v
      BY <1>3 DEF RemoteScan
    <3> QED
      BY <2>1, <3>1 DEF HostOf
  <2>3. RsMayHave(v, rsRow[s].server)
    BY <1>1, <2>1 DEF RsRowOk
  <2>4. HostOf(rsRow[s]) = v
    BY <2>1, <2>2, <2>3 DEF RsMayHave, HostOf
  <2> QED
    BY <2>1, <2>4
<1>4. ASSUME "up" \in Scanned("panel", s) PROVE "up" \in rsHas[HostOf(rsRow[s])][s]
  <2>1. "up" \in rsHas["panel"][s] /\ "panel" \in RsHosts /\ "panel" \notin RsServers
    BY <1>2, <1>4, RsAssumption DEF RsHosts
  <2>2. RsMayHave("panel", rsRow[s].server)
    BY <1>1, <2>1 DEF RsRowOk
  <2>3. HostOf(rsRow[s]) = "panel"
    BY <2>1, <2>2 DEF RsMayHave, HostOf
  <2> QED
    BY <2>1, <2>3
<1>5. \/ obs.seen = {}
      \/ \E v \in RsServers : obs.seen = RemoteScan(v, s, scan)
      \/ obs.seen = Scanned("panel", s)
  BY DEF Observations
<1> QED
  BY <1>3, <1>4, <1>5

LEMMA RsUpSeqs ==
    /\ <<>> \in Seq(RsUpSteps) /\ <<"tenant">> \in Seq(RsUpSteps) /\ <<"data">> \in Seq(RsUpSteps)
    /\ <<"units">> \in Seq(RsUpSteps) /\ <<"up">> \in Seq(RsUpSteps)
<1>1. <<"tenant">> \in Seq(RsUpSteps)
  BY DEF RsUpSteps
<1>2. <<"data">> \in Seq(RsUpSteps)
  BY DEF RsUpSteps
<1>3. <<"units">> \in Seq(RsUpSteps)
  BY DEF RsUpSteps
<1>4. <<"up">> \in Seq(RsUpSteps)
  BY DEF RsUpSteps
<1>5. <<>> \in Seq(RsUpSteps)
  OBVIOUS
<1> QED
  BY <1>1, <1>2, <1>3, <1>4, <1>5

LEMMA RsPlanUp ==
    ASSUME NEW obs
    PROVE  /\ RsPlan(TRUE, obs) \in Seq(RsUpSteps)
           /\ "up" \notin obs.seen => RsUpToCome(RsPlan(TRUE, obs))
<1>1. PICK a : a = IF obs.seen = {} \/ ~obs.user THEN <<"tenant">> ELSE <<>>
  OBVIOUS
<1>2. PICK b : b = IF "data" \notin obs.seen THEN <<"data">> ELSE <<>>
  OBVIOUS
<1>3. PICK c : c = IF "units" \notin obs.seen THEN <<"units">> ELSE <<>>
  OBVIOUS
<1>4. PICK d : d = IF "up" \notin obs.seen THEN <<"up">> ELSE <<>>
  OBVIOUS
<1>5. a \in Seq(RsUpSteps) /\ b \in Seq(RsUpSteps)
  BY <1>1, <1>2, RsUpSeqs
<1>6. c \in Seq(RsUpSteps) /\ d \in Seq(RsUpSteps)
  BY <1>3, <1>4, RsUpSeqs
<1>7. RsPlan(TRUE, obs) = a \o b \o c \o d
  BY <1>1, <1>2, <1>3, <1>4 DEF RsPlan
<1>8. PICK pre : pre = a \o b \o c
  OBVIOUS
<1>9. pre \in Seq(RsUpSteps)
  BY <1>5, <1>6, <1>8
<1>10. RsPlan(TRUE, obs) = pre \o d
  BY <1>7, <1>8
<1>11. pre \o d \in Seq(RsUpSteps)
  BY <1>6, <1>9
<1>12. ASSUME "up" \notin obs.seen PROVE RsUpToCome(pre \o d)
  <2>1. d = <<"up">> /\ Len(d) = 1 /\ d[1] = "up"
    BY <1>4, <1>12
  <2>2. Len(pre) \in Nat /\ Len(pre \o d) = Len(pre) + 1
    BY <1>6, <1>9, <2>1
  <2>3. (pre \o d)[Len(pre) + 1] = d[1]
    BY <1>6, <1>9, <2>1, <2>2
  <2>4. Len(pre) + 1 \in 1 .. Len(pre \o d)
    BY <2>2
  <2> QED
    BY <2>1, <2>3, <2>4 DEF RsUpToCome
<1> QED
  BY <1>10, <1>11, <1>12

LEMMA RsDownSeqs ==
    /\ <<>> \in Seq(RsDownSteps) /\ <<"stop">> \in Seq(RsDownSteps) /\ <<"remove">> \in Seq(RsDownSteps)
    /\ <<"rmdata">> \in Seq(RsDownSteps) /\ <<"rmtenant">> \in Seq(RsDownSteps)
<1>1. <<"stop">> \in Seq(RsDownSteps)
  BY DEF RsDownSteps
<1>2. <<"remove">> \in Seq(RsDownSteps)
  BY DEF RsDownSteps
<1>3. <<"rmdata">> \in Seq(RsDownSteps)
  BY DEF RsDownSteps
<1>4. <<"rmtenant">> \in Seq(RsDownSteps)
  BY DEF RsDownSteps
<1>5. <<>> \in Seq(RsDownSteps)
  OBVIOUS
<1> QED
  BY <1>1, <1>2, <1>3, <1>4, <1>5

LEMMA RsPlanDown ==
    ASSUME NEW obs PROVE RsPlan(FALSE, obs) \in Seq(RsDownSteps)
<1>1. PICK a : a = IF "up" \in obs.seen THEN <<"stop">> ELSE <<>>
  OBVIOUS
<1>2. PICK b : b = IF "data" \in obs.seen THEN <<"rmdata">> ELSE <<>>
  OBVIOUS
<1>3. PICK c, d : c = <<"remove">> /\ d = <<"rmtenant">>
  OBVIOUS
<1>4. a \in Seq(RsDownSteps) /\ b \in Seq(RsDownSteps)
  BY <1>1, <1>2, RsDownSeqs
<1>5. c \in Seq(RsDownSteps) /\ d \in Seq(RsDownSteps)
  BY <1>3, RsDownSeqs
<1>6. RsPlan(FALSE, obs) = IF obs.seen = {} THEN <<>> ELSE a \o c \o b \o d
  BY <1>1, <1>2, <1>3 DEF RsPlan
<1>7. a \o c \o b \o d \in Seq(RsDownSteps)
  BY <1>4, <1>5
<1> QED
  BY <1>6, <1>7, RsDownSeqs

LEMMA RsRunsOk ==
    ASSUME RsStrong, NEW s \in RsStacks, NEW scan \in Scans, NEW obs \in Observations(s, scan),
           NEW op \in BOOLEAN, NEW run, run = RsRuns(s, op, obs)
    PROVE  /\ run \in RsRunRecord /\ run # None /\ run.pc = "start"
           /\ run.spec => /\ rsRow[s] # None /\ run.todo \in Seq(RsUpSteps)
                          /\ rsRow[s].clean =>
                               /\ RsMayHave(run.host, rsRow[s].server)
                               /\ "up" \in rsHas[run.host][s] \/ RsUpToCome(run.todo)
           /\ ~run.spec => /\ run.todo \in Seq(RsDownSteps) /\ run.host = "panel"
                           /\ rsRow[s] # None => rsRow[s].status # "ready"
<1>1. PICK spec \in BOOLEAN : spec = RsActive(s)
  BY DEF RsActive
<1>2. PICK inUse \in BOOLEAN : inUse = \E t \in RsStacks : RsActive(t)
  OBVIOUS
<1>3. PICK host \in RsHosts : host = IF spec THEN HostOf(rsRow[s]) ELSE "panel"
  BY DEF HostOf, RsHosts
<1>4. PICK todo : todo = RsPlan(spec, obs)
  OBVIOUS
<1>5. /\ spec => todo \in Seq(RsUpSteps) /\ ("up" \notin obs.seen => RsUpToCome(todo))
      /\ ~spec => todo \in Seq(RsDownSteps)
  <2>1. CASE spec
    BY <1>4, <2>1, RsPlanUp
  <2>2. CASE ~spec
    BY <1>4, <2>2, RsPlanDown
  <2> QED
    BY <2>1, <2>2
<1>6. run = [pc |-> "start", spec |-> spec, todo |-> todo, host |-> host, inUse |-> inUse, op |-> op]
  BY <1>1, <1>2, <1>3, <1>4 DEF RsRuns
<1>7. todo \in Seq(RsSteps)
  BY <1>5, RsSeqs
<1>8. run \in RsRunRecord /\ run.pc = "start" /\ run.spec = spec /\ run.todo = todo /\ run.host = host
  BY <1>6, <1>7 DEF RsRunRecord
<1>9. run # None
  BY <1>8, RsNones
<1>10. ASSUME spec, rsRow[s].clean
       PROVE  RsMayHave(host, rsRow[s].server) /\ ("up" \in rsHas[host][s] \/ RsUpToCome(todo))
  <2>1. rsRow[s] # None /\ host = HostOf(rsRow[s])
    BY <1>1, <1>3, <1>10 DEF RsActive
  <2>2. "up" \in rsHas[host][s] \/ RsUpToCome(todo)
    BY <1>5, <1>10, <2>1, RsSeen
  <2>3. RsMayHave(host, rsRow[s].server)
    <3>1. rsRow[s].server \in RsHosts /\ (rsRow[s].server \in RsServers => rsServer[rsRow[s].server] # None)
      BY <1>10, <2>1, RsRowTyped DEF RsStrong, RsRowOk
    <3> QED
      BY <2>1, <3>1 DEF RsMayHave, HostOf, RsHosts
  <2> QED
    BY <2>2, <2>3
<1>11. spec => rsRow[s] # None
  BY <1>1 DEF RsActive
<1>12. ~spec /\ rsRow[s] # None => rsRow[s].status # "ready"
  BY <1>1 DEF RsActive
<1> QED
  BY <1>3, <1>5, <1>8, <1>9, <1>10, <1>11, <1>12

-----------------------------------------------------------------------------
(* Remote servers: the steps of a run.                                     *)

\* A step of the run of one stack.
RsOthersSame(s) ==
    \A t \in RsStacks : t # s =>
        /\ rsRow'[t] = rsRow[t] /\ rsRun'[t] = rsRun[t]
        /\ \A g \in RsHosts : rsHas'[g][t] = rsHas[g][t]

LEMMA RsOneRun ==
    ASSUME RsStrong, NEW s \in RsStacks, rsRun[s] # None, UNCHANGED <<rsServer, rsDrop, rsPhase>>,
           RsShapes', RsOthersSame(s), SessionsClosed', RsRunOk(s)', RsRowOk(s)'
    PROVE  RsStrong'
<1>1. RsIdle'
  BY DEF RsStrong, RsIdle
<1>2. ASSUME NEW t \in RsStacks PROVE RsRunOk(t)' /\ RsRowOk(t)'
  <2>1. CASE t = s
    BY <2>1
  <2>2. CASE t # s
    <3>1. RsServerStays(t)
      BY RsServersSame
    <3> QED
      BY <2>2, <3>1, RsOthersKept DEF RsOthersSame
  <2> QED
    BY <2>1, <2>2
<1> QED
  BY <1>1, <1>2 DEF RsStrong

\* The new status of a stack, and of its operation.
LEMMA RsStatusSet ==
    ASSUME RsShapes, NEW s \in RsStacks, rsRun[s] # None, rsRun[s].pc # "load",
           NEW status \in {"ready", "absent", "degraded", "deleting"}, RsStatus(s, status)
    PROVE  /\ rsRow' \in [RsStacks -> RsStackRows \cup {None}]
           /\ \A t \in RsStacks : t # s => rsRow'[t] = rsRow[t]
           /\ rsRow[s] = None \/ status = "absent" => rsRow'[s] = None
           /\ rsRow[s] # None /\ status # "absent" =>
                /\ rsRow'[s] # None /\ rsRow'[s].status = status
                /\ rsRow'[s].server = rsRow[s].server /\ rsRow'[s].asked = rsRow[s].asked
                /\ rsRow'[s].clean = (rsRow[s].clean /\ status # "deleting")
                /\ status = "ready" => rsRow'[s].at = rsRun[s].host
<1>1. CASE rsRow[s] = None \/ status = "absent"
  BY <1>1 DEF RsShapes, RsStatus
<1>2. CASE ~(rsRow[s] = None \/ status = "absent")
  <2>1. rsRow[s] \in RsStackRows /\ rsRun[s].host \in RsHosts /\ rsRow[s].at \in RsHosts
        /\ rsRow[s].clean \in BOOLEAN
    BY <1>2, RsRowTyped, RsRunTyped
  <2>2. PICK at \in RsHosts : at = IF status = "ready" THEN rsRun[s].host ELSE rsRow[s].at
    BY <2>1
  <2>3. PICK clean \in BOOLEAN : clean = (rsRow[s].clean /\ status # "deleting")
    OBVIOUS
  <2>4. PICK row : row = [rsRow[s] EXCEPT !.status = status, !.clean = clean, !.at = at]
    OBVIOUS
  <2>5. /\ row \in RsStackRows /\ row.status = status /\ row.clean = clean /\ row.at = at
        /\ row.server = rsRow[s].server /\ row.asked = rsRow[s].asked
    BY <1>2, <2>1, <2>4 DEF RsStackRows
  <2>6. row # None
    BY <2>5, RsNones
  <2>7. rsRow' = [rsRow EXCEPT ![s] = row]
    BY <1>2, <2>2, <2>3, <2>4 DEF RsStatus, RsShapes
  <2>8. rsRow' \in [RsStacks -> RsStackRows \cup {None}] /\ rsRow'[s] = row
        /\ \A t \in RsStacks : t # s => rsRow'[t] = rsRow[t]
    BY <2>5, <2>7 DEF RsShapes
  <2> QED
    BY <1>2, <2>2, <2>3, <2>5, <2>6, <2>8
<1> QED
  BY <1>1, <1>2

LEMMA RsOpSet ==
    ASSUME RsShapes, NEW s \in RsStacks, NEW status \in {"running", "succeeded", "failed"},
           RsOpIs(s, status)
    PROVE  rsOp' \in [RsStacks -> RsOpStates]
  BY DEF RsShapes, RsOpIs, RsOpStates

LEMMA RsPcSet ==
    ASSUME RsShapes, NEW s \in RsStacks, rsRun[s] # None, rsRun[s].pc # "load",
           NEW pc \in {"act", "close"}, rsRun' = [rsRun EXCEPT ![s].pc = pc]
    PROVE  /\ rsRun' \in [RsStacks -> RsRunRecord \cup RsLoading \cup {None}]
           /\ \A t \in RsStacks : t # s => rsRun'[t] = rsRun[t]
           /\ rsRun'[s] # None /\ rsRun'[s].pc = pc /\ rsRun'[s].host = rsRun[s].host
           /\ rsRun'[s].spec = rsRun[s].spec /\ rsRun'[s].todo = rsRun[s].todo
<1>1. rsRun[s] \in RsRunRecord
  BY RsRunTyped
<1>2. PICK run : run = [rsRun[s] EXCEPT !.pc = pc]
  OBVIOUS
<1>3. /\ run \in RsRunRecord /\ run.pc = pc /\ run.host = rsRun[s].host
      /\ run.spec = rsRun[s].spec /\ run.todo = rsRun[s].todo
  BY <1>1, <1>2 DEF RsRunRecord
<1>4. run # None
  BY <1>3, RsNones
<1>5. rsRun' = [rsRun EXCEPT ![s] = run]
  BY <1>2 DEF RsShapes
<1>6. rsRun' \in [RsStacks -> RsRunRecord \cup RsLoading \cup {None}] /\ rsRun'[s] = run
      /\ \A t \in RsStacks : t # s => rsRun'[t] = rsRun[t]
  BY <1>3, <1>5 DEF RsShapes
<1> QED
  BY <1>3, <1>4, <1>6

LEMMA RsRunGone ==
    ASSUME RsShapes, NEW s \in RsStacks, rsRun' = [rsRun EXCEPT ![s] = None]
    PROVE  /\ rsRun' \in [RsStacks -> RsRunRecord \cup RsLoading \cup {None}]
           /\ \A t \in RsStacks : t # s => rsRun'[t] = rsRun[t]
           /\ rsRun'[s] = None
  BY DEF RsShapes

\* A run that reports what has become of its stack, and does no more steps.
RsDoneWith(s) ==
    \/ rsRun[s].pc = "start" /\ rsRun' = [rsRun EXCEPT ![s] = None]
    \/ rsRun[s].pc = "act" /\ rsRun' = [rsRun EXCEPT ![s].pc = "close"]

LEMMA RsReports ==
    ASSUME RsStrong, NEW s \in RsStacks, rsRun[s] # None, RsDoneWith(s),
           NEW status \in {"ready", "absent", "degraded", "deleting"}, RsStatus(s, status),
           status = "ready" /\ rsRow[s] # None /\ rsRow[s].clean => "up" \in rsHas[rsRun[s].host][s],
           rsOp' \in [RsStacks -> RsOpStates],
           UNCHANGED <<rsServer, rsDrop, rsQueue, rsHosts, rsPhase, rsOpen>>
    PROVE  RsStrong'
<1>1. RsShapes /\ RsRowOk(s) /\ rsRun[s].pc # "load" /\ SessionsClosed
  BY DEF RsStrong, RsDoneWith
<1>2. /\ rsRun' \in [RsStacks -> RsRunRecord \cup RsLoading \cup {None}]
      /\ \A t \in RsStacks : t # s => rsRun'[t] = rsRun[t]
      /\ rsRun'[s] # None => rsRun'[s].pc = "close" /\ rsRun'[s].host = rsRun[s].host
      /\ rsRun[s].pc = "act" => rsRun'[s] # None
  BY <1>1, RsRunGone, RsPcSet DEF RsDoneWith
<1>3. RsShapes'
  BY <1>1, <1>2, RsStatusSet DEF RsShapes, rsHosts
<1>4. RsOthersSame(s)
  BY <1>1, <1>2, RsStatusSet DEF RsOthersSame, rsHosts
<1>5. SessionsClosed'
  <2>1. \A t \in RsStacks : rsRun[t] # None /\ rsRun[t].pc \in {"act", "close"} =>
               /\ rsRun'[t] # None /\ rsRun'[t].pc \in {"act", "close"}
               /\ rsRun'[t].host = rsRun[t].host
    BY <1>2 DEF RsDoneWith
  <2> QED
    BY <1>1, <2>1, RsSessionsKept
<1>6. RsRunOk(s)'
  BY <1>2 DEF RsRunOk
<1>7. RsRowOk(s)'
  <2>1. CASE rsRow[s] = None \/ status = "absent"
    BY <1>1, <2>1, RsStatusSet DEF RsRowOk
  <2>2. CASE rsRow[s] # None /\ status # "absent"
    <3>1. /\ rsRow'[s] # None /\ rsRow'[s].status = status
          /\ rsRow'[s].server = rsRow[s].server /\ rsRow'[s].asked = rsRow[s].asked
          /\ rsRow'[s].clean = (rsRow[s].clean /\ status # "deleting")
          /\ status = "ready" => rsRow'[s].at = rsRun[s].host
      BY <1>1, <2>2, RsStatusSet
    <3>2. rsHas' = rsHas
      BY DEF rsHosts
    <3>3. rsServer' = rsServer /\ rsDrop' = rsDrop
      OBVIOUS
    <3> QED
      BY <1>1, <2>2, <3>1, <3>2, <3>3 DEF RsRowOk, RsMayHave
  <2> QED
    BY <2>1, <2>2
<1> QED
  BY <1>3, <1>4, <1>5, <1>6, <1>7, RsOneRun

LEMMA NothingToDoKeeps ==
    ASSUME RsStrong, NEW s \in RsStacks, NothingToDo(s) PROVE RsStrong'
<1>1. rsRun[s] # None /\ rsRun[s].pc = "start" /\ rsRun[s].todo = <<>> /\ RsRunOk(s)
  BY DEF NothingToDo, RsAt, RsStrong
<1>2. ~RsUpToCome(rsRun[s].todo)
  BY <1>1 DEF RsUpToCome
<1>3. RsDoneWith(s) /\ RsOpIs(s, "succeeded") /\ RsStatus(s, RsOutcome(s))
      /\ UNCHANGED <<rsServer, rsDrop, rsQueue, rsHosts, rsPhase, rsOpen>>
  BY <1>1 DEF NothingToDo, RsDoneWith
<1>4. PICK status \in {"ready", "absent"} : status = RsOutcome(s)
  BY DEF RsOutcome
<1>5. status = "ready" => rsRun[s].spec
  BY <1>4 DEF RsOutcome
<1>6. status = "ready" /\ rsRow[s] # None /\ rsRow[s].clean => "up" \in rsHas[rsRun[s].host][s]
  BY <1>1, <1>2, <1>5 DEF RsRunOk
<1>7. rsOp' \in [RsStacks -> RsOpStates]
  BY <1>3, RsOpSet DEF RsStrong
<1> QED
  BY <1>1, <1>3, <1>4, <1>6, <1>7, RsReports

LEMMA AllDoneKeeps ==
    ASSUME RsStrong, NEW s \in RsStacks, AllDone(s) PROVE RsStrong'
<1>1. rsRun[s] # None /\ rsRun[s].pc = "act" /\ rsRun[s].todo = <<>> /\ RsRunOk(s)
  BY DEF AllDone, RsAt, RsStrong
<1>2. ~RsUpToCome(rsRun[s].todo)
  BY <1>1 DEF RsUpToCome
<1>3. RsDoneWith(s) /\ RsOpIs(s, "succeeded") /\ RsStatus(s, RsOutcome(s))
      /\ UNCHANGED <<rsServer, rsDrop, rsQueue, rsHosts, rsPhase, rsOpen>>
  BY <1>1 DEF AllDone, RsDoneWith
<1>4. PICK status \in {"ready", "absent"} : status = RsOutcome(s)
  BY DEF RsOutcome
<1>5. status = "ready" => rsRun[s].spec
  BY <1>4 DEF RsOutcome
<1>6. status = "ready" /\ rsRow[s] # None /\ rsRow[s].clean => "up" \in rsHas[rsRun[s].host][s]
  BY <1>1, <1>2, <1>5 DEF RsRunOk
<1>7. rsOp' \in [RsStacks -> RsOpStates]
  BY <1>3, RsOpSet DEF RsStrong
<1> QED
  BY <1>1, <1>3, <1>4, <1>6, <1>7, RsReports

LEMMA ConnectFailsKeeps ==
    ASSUME RsStrong, NEW s \in RsStacks, ConnectFails(s) PROVE RsStrong'
<1>1. rsRun[s] # None /\ RsDoneWith(s) /\ RsStatus(s, "degraded")
      /\ UNCHANGED <<rsServer, rsDrop, rsQueue, rsHosts, rsPhase, rsOpen>>
  BY DEF ConnectFails, RsAt, RsDoneWith
<1>2. rsOp' \in [RsStacks -> RsOpStates]
  BY DEF RsStrong, RsShapes, ConnectFails
<1> QED
  BY <1>1, <1>2, RsReports

LEMMA ActionFailsKeeps ==
    ASSUME RsStrong, NEW s \in RsStacks, ActionFails(s) PROVE RsStrong'
<1>1. rsRun[s] # None /\ RsDoneWith(s) /\ RsOpIs(s, "failed") /\ RsStatus(s, RsFailure(s))
      /\ UNCHANGED <<rsServer, rsDrop, rsQueue, rsHosts, rsPhase, rsOpen>>
  BY DEF ActionFails, RsAt, RsDoneWith
<1>2. PICK status \in {"degraded", "deleting"} : status = RsFailure(s)
  BY DEF RsFailure
<1>3. rsOp' \in [RsStacks -> RsOpStates]
  BY <1>1, RsOpSet DEF RsStrong
<1> QED
  BY <1>1, <1>2, <1>3, RsReports

LEMMA ConnectKeeps ==
    ASSUME RsStrong, NEW s \in RsStacks, Connect(s) PROVE RsStrong'
<1>1. /\ rsRun[s] # None /\ rsRun[s].pc = "start" /\ rsRun' = [rsRun EXCEPT ![s].pc = "act"]
      /\ RsOpIs(s, "running") /\ UNCHANGED <<rsServer, rsDrop, rsRow, rsQueue, rsOps, rsHosts, rsPhase>>
      /\ RsShapes /\ RsRunOk(s) /\ RsRowOk(s) /\ SessionsClosed
  BY DEF Connect, RsAt, RsStrong
<1>2. /\ rsRun' \in [RsStacks -> RsRunRecord \cup RsLoading \cup {None}]
      /\ \A t \in RsStacks : t # s => rsRun'[t] = rsRun[t]
      /\ rsRun'[s] # None /\ rsRun'[s].pc = "act" /\ rsRun'[s].host = rsRun[s].host
      /\ rsRun'[s].spec = rsRun[s].spec /\ rsRun'[s].todo = rsRun[s].todo
  BY <1>1, RsPcSet
<1>3. rsRun[s].host \in RsHosts
  BY <1>1, RsRunTyped
<1>4. rsOpen' = rsOpen \/ (rsOpen' = rsOpen \cup {Session(s)} /\ rsRun[s].host \in RsServers)
  BY <1>3 DEF Connect, Remote, RsHosts
<1>5. rsOpen' \subseteq RsServers \cup RsStacks
  BY <1>1, <1>4 DEF RsShapes, Session
<1>6. rsOp' \in [RsStacks -> RsOpStates]
  BY <1>1, RsOpSet
<1>7. RsShapes'
  BY <1>1, <1>2, <1>5, <1>6 DEF RsShapes, rsHosts
<1>8. RsOthersSame(s)
  BY <1>1, <1>2 DEF RsOthersSame, rsHosts
<1>9. SessionsClosed'
  <2>1. Session(s)' = Session(s)
    BY <1>1, <1>2 DEF Session
  <2>2. ASSUME NEW o \in rsOpen, o # Session(s)
        PROVE  \E t \in RsStacks : rsRun'[t] # None /\ rsRun'[t].pc \in {"act", "close"} /\ Session(t)' = o
    <3>1. PICK t \in RsStacks : rsRun[t] # None /\ rsRun[t].pc \in {"act", "close"} /\ Session(t) = o
      BY <1>1, <2>2 DEF SessionsClosed
    <3>2. t # s /\ rsRun'[t] = rsRun[t]
      BY <1>1, <1>2, <3>1
    <3>3. Session(t)' = o
      BY <1>1, <3>1, <3>2 DEF Session
    <3> QED
      BY <3>1, <3>2, <3>3
  <2>3. \A o \in rsOpen' : o = Session(s) \/ (o \in rsOpen /\ o # Session(s))
    BY <1>4
  <2>4. ASSUME NEW o \in rsOpen'
        PROVE  \E t \in RsStacks : rsRun'[t] # None /\ rsRun'[t].pc \in {"act", "close"} /\ Session(t)' = o
    BY <1>2, <2>1, <2>2, <2>3
  <2> QED
    BY <2>4 DEF SessionsClosed
<1>10. RsRunOk(s)' /\ RsRowOk(s)'
  <2>1. rsHas' = rsHas /\ rsServer' = rsServer /\ rsDrop' = rsDrop /\ rsRow' = rsRow
    BY <1>1 DEF rsHosts
  <2>2. RsRunOk(s)'
    BY <1>1, <1>2, <2>1 DEF RsRunOk, RsMayHave
  <2>3. RsRowOk(s)'
    BY <1>1, <2>1 DEF RsRowOk, RsMayHave
  <2> QED
    BY <2>2, <2>3
<1> QED
  BY <1>1, <1>7, <1>8, <1>9, <1>10, RsOneRun

LEMMA CloseKeeps ==
    ASSUME RsStrong, NEW s \in RsStacks, Close(s) PROVE RsStrong'
<1>1. /\ rsRun[s] # None /\ rsRun[s].pc = "close" /\ rsRun' = [rsRun EXCEPT ![s] = None]
      /\ UNCHANGED <<rsRows, rsHosts, rsPhase>> /\ rsOpen' = rsOpen \ {Session(s)}
      /\ RsShapes /\ RsRowOk(s) /\ SessionsClosed
  BY DEF Close, RsAt, RsStrong
<1>2. /\ rsRun' \in [RsStacks -> RsRunRecord \cup RsLoading \cup {None}]
      /\ \A t \in RsStacks : t # s => rsRun'[t] = rsRun[t]
      /\ rsRun'[s] = None
  BY <1>1, RsRunGone
<1>3. RsShapes'
  BY <1>1, <1>2 DEF RsShapes, rsHosts, rsRows
<1>4. RsOthersSame(s)
  BY <1>1, <1>2 DEF RsOthersSame, rsHosts, rsRows
<1>5. SessionsClosed'
  <2>1. ASSUME NEW o \in rsOpen'
        PROVE  \E t \in RsStacks : rsRun'[t] # None /\ rsRun'[t].pc \in {"act", "close"} /\ Session(t)' = o
    <3>1. PICK t \in RsStacks : rsRun[t] # None /\ rsRun[t].pc \in {"act", "close"} /\ Session(t) = o
      BY <1>1, <2>1 DEF SessionsClosed
    <3>2. t # s /\ rsRun'[t] = rsRun[t]
      BY <1>1, <1>2, <2>1, <3>1
    <3>3. Session(t)' = o
      BY <1>1, <3>1, <3>2 DEF Session
    <3> QED
      BY <3>1, <3>2, <3>3
  <2> QED
    BY <2>1 DEF SessionsClosed
<1>6. RsRunOk(s)' /\ RsRowOk(s)'
  BY <1>1, <1>2 DEF RsRunOk, RsRowOk, RsMayHave, rsRows, rsHosts
<1> QED
  BY <1>1, <1>3, <1>4, <1>5, <1>6, RsOneRun DEF rsRows

\* A run as converge_stack() or converge_all() starts it is as RsRunOk says.
LEMMA RsStarted ==
    ASSUME RsStrong, NEW s \in RsStacks, NEW scan \in Scans, NEW obs \in Observations(s, scan),
           NEW op \in BOOLEAN, rsRun'[s] = RsRuns(s, op, obs),
           UNCHANGED <<rsServer, rsDrop, rsRow, rsHas>>
    PROVE  rsRun'[s] \in RsRunRecord /\ rsRun'[s] # None /\ rsRun'[s].pc = "start" /\ RsRunOk(s)'
<1>1. PICK run : run = RsRuns(s, op, obs)
  OBVIOUS
<1>2. /\ run \in RsRunRecord /\ run # None /\ run.pc = "start"
      /\ run.spec => /\ rsRow[s] # None /\ run.todo \in Seq(RsUpSteps)
                     /\ rsRow[s].clean =>
                          /\ RsMayHave(run.host, rsRow[s].server)
                          /\ "up" \in rsHas[run.host][s] \/ RsUpToCome(run.todo)
      /\ ~run.spec => /\ run.todo \in Seq(RsDownSteps) /\ run.host = "panel"
                      /\ rsRow[s] # None => rsRow[s].status # "ready"
  BY <1>1, RsRunsOk
<1>3. rsRun'[s] = run
  BY <1>1
<1>4. RsRunOk(s)'
  BY <1>2, <1>3 DEF RsRunOk, RsMayHave
<1> QED
  BY <1>2, <1>3, <1>4

LEMMA LoadStackKeeps ==
    ASSUME RsStrong, NEW s \in RsStacks, LoadStack(s) PROVE RsStrong'
<1>1. PICK scan \in Scans : \E obs \in Observations(s, scan) :
          rsRun' = [rsRun EXCEPT ![s] = RsRuns(s, rsRun[s].op, obs)]
  BY DEF LoadStack
<1>2. PICK obs \in Observations(s, scan) : rsRun' = [rsRun EXCEPT ![s] = RsRuns(s, rsRun[s].op, obs)]
  BY <1>1
<1>3. rsRun[s] # None /\ rsRun[s].pc = "load" /\ UNCHANGED <<rsRows, rsHosts, rsPhase, rsOpen>>
      /\ RsShapes /\ RsRowOk(s) /\ SessionsClosed
  BY DEF LoadStack, RsStrong
<1>4. rsRun[s].op \in BOOLEAN
  BY <1>3 DEF RsShapes, RsRunRecord, RsLoading
<1>5. rsRun'[s] = RsRuns(s, rsRun[s].op, obs) /\ \A t \in RsStacks : t # s => rsRun'[t] = rsRun[t]
  BY <1>2, <1>3 DEF RsShapes
<1>6. UNCHANGED <<rsServer, rsDrop, rsRow, rsHas, rsPhase, rsOpen>>
  BY <1>3 DEF rsRows, rsHosts
<1>7. rsRun'[s] \in RsRunRecord /\ RsRunOk(s)'
  BY <1>4, <1>5, <1>6, RsStarted
<1>8. rsRun' \in [RsStacks -> RsRunRecord \cup RsLoading \cup {None}]
  <2>1. PICK run : run = RsRuns(s, rsRun[s].op, obs)
    OBVIOUS
  <2>2. rsRun' = [rsRun EXCEPT ![s] = run] /\ run \in RsRunRecord
    BY <1>2, <1>5, <1>7, <2>1
  <2> QED
    BY <1>3, <2>2 DEF RsShapes
<1>9. RsShapes'
  BY <1>3, <1>8 DEF RsShapes, rsRows, rsHosts
<1>10. RsOthersSame(s)
  BY <1>5, <1>6 DEF RsOthersSame
<1>11. SessionsClosed'
  <2>1. \A t \in RsStacks : rsRun[t] # None /\ rsRun[t].pc \in {"act", "close"} =>
               /\ rsRun'[t] # None /\ rsRun'[t].pc \in {"act", "close"}
               /\ rsRun'[t].host = rsRun[t].host
    BY <1>3, <1>5
  <2> QED
    BY <1>3, <1>6, <2>1, RsSessionsKept
<1>12. RsRowOk(s)'
  BY <1>3, <1>6 DEF RsRowOk, RsMayHave
<1> QED
  BY <1>3, <1>6, <1>7, <1>9, <1>10, <1>11, <1>12, RsOneRun

\* What a step does to its host: nothing else has it for its stack.
LEMMA RsStepShapes ==
    ASSUME RsShapes, NEW s \in RsStacks, rsRun[s] # None, rsRun[s].pc # "load",
           NEW step \in RsSteps, StepDone(s, step)
    PROVE  /\ rsHas' \in [RsHosts -> [RsStacks -> SUBSET RsParts]]
           /\ rsUser' \subseteq RsHosts /\ rsUid' \in RsHosts \cup {None}
           /\ \A g \in RsHosts, t \in RsStacks :
                g # rsRun[s].host \/ t # s => rsHas'[g][t] = rsHas[g][t]
           /\ step \in RsDownSteps => rsHas'[rsRun[s].host][s] \subseteq rsHas[rsRun[s].host][s]
           /\ step \in RsUpSteps => rsHas[rsRun[s].host][s] \subseteq rsHas'[rsRun[s].host][s]
           /\ step = "up" => "up" \in rsHas'[rsRun[s].host][s]
<1>1. PICK h : h = rsRun[s].host
  OBVIOUS
<1>2. h \in RsHosts
  BY <1>1, RsRunTyped
<1>3. rsUser' \subseteq RsHosts /\ rsUid' \in RsHosts \cup {None}
  BY <1>1, <1>2 DEF StepDone, RsShapes
<1>4. \E new \in SUBSET RsParts :
          /\ rsHas' = [rsHas EXCEPT ![h][s] = new]
          /\ step \in RsDownSteps => new \subseteq rsHas[h][s]
          /\ step \in RsUpSteps => rsHas[h][s] \subseteq new
          /\ step = "up" => "up" \in new
  <2>1. rsHas[h][s] \in SUBSET RsParts /\ rsHas = [rsHas EXCEPT ![h][s] = rsHas[h][s]]
    BY <1>2 DEF RsShapes
  <2>2. CASE step \in {"tenant", "rmtenant"}
    <3>1. rsHas' = rsHas
      BY <2>2 DEF StepDone
    <3> QED
      BY <2>1, <2>2, <3>1
  <2>3. CASE step = "data"
    <3>1. rsHas' = [rsHas EXCEPT ![h][s] = rsHas[h][s] \cup {"data"}]
      BY <1>1, <1>2, <2>3 DEF StepDone, RsShapes
    <3> QED
      BY <2>1, <2>3, <3>1 DEF RsParts, RsDownSteps
  <2>4. CASE step = "up"
    <3>1. rsHas' = [rsHas EXCEPT ![h][s] = rsHas[h][s] \cup {"up"}]
      BY <1>1, <1>2, <2>4 DEF StepDone, RsShapes
    <3> QED
      BY <2>1, <2>4, <3>1 DEF RsParts, RsDownSteps
  <2>5. CASE step = "units"
    <3>1. rsHas' = [rsHas EXCEPT ![h][s] = rsHas[h][s] \cup {"units"}] \/ rsHas' = rsHas
      BY <1>1, <1>2, <2>5 DEF StepDone, RsShapes
    <3> QED
      BY <2>1, <2>5, <3>1 DEF RsParts, RsDownSteps
  <2>6. CASE step = "stop"
    <3>1. rsHas' = [rsHas EXCEPT ![h][s] = rsHas[h][s] \ {"up"}]
      BY <1>1, <1>2, <2>6 DEF StepDone, RsShapes
    <3> QED
      BY <2>1, <2>6, <3>1 DEF RsParts, RsUpSteps
  <2>7. CASE step = "rmdata"
    <3>1. rsHas' = [rsHas EXCEPT ![h][s] = rsHas[h][s] \ {"data"}]
      BY <1>1, <1>2, <2>7 DEF StepDone, RsShapes
    <3> QED
      BY <2>1, <2>7, <3>1 DEF RsParts, RsUpSteps
  <2>8. CASE step = "remove"
    <3>1. rsHas' = [rsHas EXCEPT ![h][s] = rsHas[h][s] \ {"units", "up"}] \/ rsHas' = rsHas
      BY <1>1, <1>2, <2>8 DEF StepDone, RsShapes
    <3> QED
      BY <2>1, <2>8, <3>1 DEF RsParts, RsUpSteps
  <2> QED
    BY <2>2, <2>3, <2>4, <2>5, <2>6, <2>7, <2>8 DEF RsSteps
<1>5. PICK new \in SUBSET RsParts :
          /\ rsHas' = [rsHas EXCEPT ![h][s] = new]
          /\ step \in RsDownSteps => new \subseteq rsHas[h][s]
          /\ step \in RsUpSteps => rsHas[h][s] \subseteq new
          /\ step = "up" => "up" \in new
  BY <1>4
<1>6. /\ rsHas' \in [RsHosts -> [RsStacks -> SUBSET RsParts]] /\ rsHas'[h][s] = new
      /\ \A g \in RsHosts, t \in RsStacks : g # h \/ t # s => rsHas'[g][t] = rsHas[g][t]
  BY <1>2, <1>5 DEF RsShapes
<1> QED
  BY <1>1, <1>3, <1>5, <1>6

LEMMA RsTailUp ==
    ASSUME NEW todo \in Seq(RsSteps), todo # <<>>
    PROVE  /\ Head(todo) \in RsSteps /\ Tail(todo) \in Seq(RsSteps)
           /\ RsUpToCome(todo) => Head(todo) = "up" \/ RsUpToCome(Tail(todo))
           /\ todo \in Seq(RsUpSteps) => Head(todo) \in RsUpSteps /\ Tail(todo) \in Seq(RsUpSteps)
           /\ todo \in Seq(RsDownSteps) => Head(todo) \in RsDownSteps /\ Tail(todo) \in Seq(RsDownSteps)
<1>1. Head(todo) \in RsSteps /\ Tail(todo) \in Seq(RsSteps) /\ Head(todo) = todo[1]
  OBVIOUS
<1>2. ASSUME RsUpToCome(todo), Head(todo) # "up" PROVE RsUpToCome(Tail(todo))
  <2>1. PICK k \in 1 .. Len(todo) : todo[k] = "up"
    BY <1>2 DEF RsUpToCome
  <2>2. k # 1
    BY <1>1, <1>2, <2>1
  <2>3. Len(todo) \in Nat /\ Len(Tail(todo)) = Len(todo) - 1
    OBVIOUS
  <2>4. k - 1 \in 1 .. Len(Tail(todo))
    BY <2>1, <2>2, <2>3
  <2>5. Tail(todo)[k - 1] = todo[(k - 1) + 1]
    BY <2>3, <2>4
  <2>6. (k - 1) + 1 = k
    BY <2>1
  <2> QED
    BY <2>1, <2>4, <2>5, <2>6 DEF RsUpToCome
<1>3. todo \in Seq(RsUpSteps) => Head(todo) \in RsUpSteps /\ Tail(todo) \in Seq(RsUpSteps)
  OBVIOUS
<1>4. todo \in Seq(RsDownSteps) => Head(todo) \in RsDownSteps /\ Tail(todo) \in Seq(RsDownSteps)
  OBVIOUS
<1> QED
  BY <1>1, <1>2, <1>3, <1>4

LEMMA ActionDoneKeeps ==
    ASSUME RsStrong, NEW s \in RsStacks, ActionDone(s) PROVE RsStrong'
<1>1. /\ rsRun[s] # None /\ rsRun[s].pc = "act" /\ rsRun[s].todo # <<>>
      /\ StepDone(s, Head(rsRun[s].todo)) /\ rsRun' = [rsRun EXCEPT ![s].todo = Tail(@)]
      /\ UNCHANGED <<rsServer, rsDrop, rsRow, rsOp, rsQueue, rsPhase, rsOpen>>
      /\ RsShapes /\ RsRunOk(s) /\ RsRowOk(s) /\ SessionsClosed
  BY DEF ActionDone, RsAt, RsStrong, rsRows
<1>2. rsRun[s] \in RsRunRecord /\ rsRun[s].host \in RsHosts /\ rsRun[s].todo \in Seq(RsSteps)
  BY <1>1, RsRunTyped
<1>3. PICK h, step : h = rsRun[s].host /\ step = Head(rsRun[s].todo)
  OBVIOUS
<1>4. PICK todo : todo = Tail(rsRun[s].todo)
  OBVIOUS
<1>5. /\ step \in RsSteps /\ todo \in Seq(RsSteps)
      /\ RsUpToCome(rsRun[s].todo) => step = "up" \/ RsUpToCome(todo)
      /\ rsRun[s].todo \in Seq(RsUpSteps) => step \in RsUpSteps /\ todo \in Seq(RsUpSteps)
      /\ rsRun[s].todo \in Seq(RsDownSteps) => step \in RsDownSteps /\ todo \in Seq(RsDownSteps)
  BY <1>1, <1>2, <1>3, <1>4, RsTailUp
<1>6. PICK run : run = [rsRun[s] EXCEPT !.todo = todo]
  OBVIOUS
<1>7. /\ run \in RsRunRecord /\ run.pc = "act" /\ run.host = h
      /\ run.spec = rsRun[s].spec /\ run.todo = todo
  BY <1>1, <1>2, <1>3, <1>5, <1>6 DEF RsRunRecord
<1>8. run # None
  BY <1>7, RsNones
<1>9. rsRun' = [rsRun EXCEPT ![s] = run]
  BY <1>1, <1>4, <1>6 DEF RsShapes
<1>10. /\ rsRun' \in [RsStacks -> RsRunRecord \cup RsLoading \cup {None}] /\ rsRun'[s] = run
       /\ \A t \in RsStacks : t # s => rsRun'[t] = rsRun[t]
  BY <1>1, <1>7, <1>9 DEF RsShapes
<1>11. /\ rsHas' \in [RsHosts -> [RsStacks -> SUBSET RsParts]]
       /\ rsUser' \subseteq RsHosts /\ rsUid' \in RsHosts \cup {None}
       /\ \A g \in RsHosts, t \in RsStacks : g # h \/ t # s => rsHas'[g][t] = rsHas[g][t]
       /\ step \in RsDownSteps => rsHas'[h][s] \subseteq rsHas[h][s]
       /\ step \in RsUpSteps => rsHas[h][s] \subseteq rsHas'[h][s]
       /\ step = "up" => "up" \in rsHas'[h][s]
  BY <1>1, <1>3, <1>5, RsStepShapes
<1>12. RsShapes'
  BY <1>1, <1>10, <1>11 DEF RsShapes
<1>13. RsOthersSame(s)
  BY <1>1, <1>10, <1>11 DEF RsOthersSame
<1>14. SessionsClosed'
  <2>1. \A t \in RsStacks : rsRun[t] # None /\ rsRun[t].pc \in {"act", "close"} =>
               /\ rsRun'[t] # None /\ rsRun'[t].pc \in {"act", "close"}
               /\ rsRun'[t].host = rsRun[t].host
    BY <1>3, <1>7, <1>8, <1>10
  <2> QED
    BY <1>1, <2>1, RsSessionsKept
<1>15. CASE rsRun[s].spec
  <2>1. /\ rsRow[s] # None /\ step \in RsUpSteps /\ todo \in Seq(RsUpSteps)
        /\ rsRow[s].clean =>
             /\ RsMayHave(h, rsRow[s].server)
             /\ "up" \in rsHas[h][s] \/ RsUpToCome(rsRun[s].todo)
    BY <1>1, <1>3, <1>5, <1>15 DEF RsRunOk
  <2>2. rsRow[s].clean => "up" \in rsHas'[h][s] \/ RsUpToCome(todo)
    BY <1>5, <1>11, <2>1
  <2>3. RsRunOk(s)'
    BY <1>1, <1>7, <1>10, <1>15, <2>1, <2>2 DEF RsRunOk, RsMayHave
  <2>4. \A g \in RsHosts : rsHas[g][s] \subseteq rsHas'[g][s] /\ (g # h => rsHas'[g][s] = rsHas[g][s])
    BY <1>11, <2>1
  <2>5. rsRow[s].at \in RsHosts
    BY <1>1, <2>1, RsRowTyped
  <2>6. rsRow[s].clean => \A g \in RsHosts : rsHas'[g][s] # {} => RsMayHave(g, rsRow[s].server)
    BY <1>1, <2>1, <2>4 DEF RsRowOk
  <2>7. RsRowOk(s)'
    BY <1>1, <2>4, <2>5, <2>6 DEF RsRowOk, RsMayHave
  <2> QED
    BY <1>1, <1>12, <1>13, <1>14, <2>3, <2>7, RsOneRun
<1>16. CASE ~rsRun[s].spec
  <2>1. step \in RsDownSteps /\ todo \in Seq(RsDownSteps) /\ (rsRow[s] # None => rsRow[s].status # "ready")
    BY <1>1, <1>5, <1>16 DEF RsRunOk
  <2>2. RsRunOk(s)'
    BY <1>1, <1>7, <1>10, <1>16, <2>1 DEF RsRunOk
  <2>3. \A g \in RsHosts : rsHas'[g][s] \subseteq rsHas[g][s]
    BY <1>11, <2>1
  <2>4. rsRow[s] # None /\ rsRow[s].clean =>
            \A g \in RsHosts : rsHas'[g][s] # {} => RsMayHave(g, rsRow[s].server)
    BY <1>1, <2>3 DEF RsRowOk
  <2>5. RsRowOk(s)'
    BY <1>1, <2>1, <2>4 DEF RsRowOk, RsMayHave
  <2> QED
    BY <1>1, <1>12, <1>13, <1>14, <2>2, <2>5, RsOneRun
<1> QED
  BY <1>15, <1>16

-----------------------------------------------------------------------------
(* Remote servers: the loop, the operations, and the theorem.              *)

\* Steps with no session before or after them, that leave rows and hosts.
LEMMA RsLoopKeeps ==
    ASSUME RsStrong, UNCHANGED <<rsServer, rsRow, rsHosts>>, rsDrop' \in {rsDrop, None},
           rsOp' \in [RsStacks -> RsOpStates], rsQueue' \subseteq RsStacks,
           rsPhase' \in {"idle", "drain", "cycle"}, rsOpen' = {},
           rsRun' \in [RsStacks -> RsRunRecord \cup RsLoading \cup {None}],
           rsPhase' = "idle" => \A s \in RsStacks : rsRun'[s] = None,
           \A s \in RsStacks : RsRunOk(s)'
    PROVE  RsStrong'
<1>1. RsShapes'
  BY DEF RsStrong, RsShapes, rsHosts
<1>2. RsIdle' /\ SessionsClosed'
  BY DEF RsIdle, SessionsClosed
<1>3. ASSUME NEW s \in RsStacks PROVE RsRowOk(s)'
  BY RsRowTyped DEF RsStrong, RsRowOk, RsMayHave, rsHosts
<1> QED
  BY <1>1, <1>2, <1>3 DEF RsStrong

LEMMA StartDrainKeeps == ASSUME RsStrong, StartDrain PROVE RsStrong'
<1>1. rsOpen = {}
  BY RsNoSessions DEF RsStrong, RsIdle, StartDrain
<1>2. PICK run : run = [pc |-> "load", op |-> TRUE]
  OBVIOUS
<1>3. run \in RsLoading /\ run.pc = "load"
  BY <1>2 DEF RsLoading
<1>4. rsRun' = [s \in RsStacks |-> IF s \in rsQueue THEN run ELSE None]
  BY <1>2 DEF StartDrain
<1>5. rsRun' \in [RsStacks -> RsRunRecord \cup RsLoading \cup {None}]
  BY <1>3, <1>4
<1>6. \A s \in RsStacks : RsRunOk(s)'
  BY <1>3, <1>4 DEF RsRunOk
<1>7. /\ UNCHANGED <<rsServer, rsRow, rsHosts>> /\ rsDrop' = rsDrop /\ rsOp' = rsOp
      /\ rsQueue' = {} /\ rsPhase' = "drain" /\ rsOpen' = rsOpen
  BY DEF StartDrain
<1>8. rsOp' \in [RsStacks -> RsOpStates]
  BY <1>7 DEF RsStrong, RsShapes
<1> QED
  BY <1>1, <1>5, <1>6, <1>7, <1>8, RsLoopKeeps

LEMMA StartCycleKeeps == ASSUME RsStrong, StartCycle PROVE RsStrong'
<1>1. rsOpen = {}
  BY RsNoSessions DEF RsStrong, RsIdle, StartCycle
<1>2. PICK scan \in Scans : \E obs \in [RsStacks -> [seen : SUBSET RsParts, user : BOOLEAN]] :
              /\ \A s \in RsStacks : obs[s] \in Observations(s, scan)
              /\ rsRun' = [s \in RsStacks |-> IF RsActive(s) \/ obs[s].seen # {}
                                              THEN RsRuns(s, FALSE, obs[s]) ELSE None]
  BY DEF StartCycle
<1>3. PICK obs \in [RsStacks -> [seen : SUBSET RsParts, user : BOOLEAN]] :
              /\ \A s \in RsStacks : obs[s] \in Observations(s, scan)
              /\ rsRun' = [s \in RsStacks |-> IF RsActive(s) \/ obs[s].seen # {}
                                              THEN RsRuns(s, FALSE, obs[s]) ELSE None]
  BY <1>2
<1>4. /\ UNCHANGED <<rsServer, rsRow, rsHosts>> /\ rsDrop' = rsDrop /\ rsOp' = rsOp
      /\ rsQueue' = rsQueue /\ rsPhase' = "cycle" /\ rsOpen' = rsOpen /\ rsHas' = rsHas
  BY DEF StartCycle, rsRows, rsHosts
<1>5. ASSUME NEW s \in RsStacks
      PROVE  rsRun'[s] \in RsRunRecord \cup RsLoading \cup {None} /\ RsRunOk(s)'
  <2>1. rsRun'[s] = RsRuns(s, FALSE, obs[s]) \/ rsRun'[s] = None
    BY <1>3
  <2>2. CASE rsRun'[s] = None
    BY <2>2 DEF RsRunOk
  <2>3. CASE rsRun'[s] = RsRuns(s, FALSE, obs[s])
    <3>1. PICK o \in Observations(s, scan) : o = obs[s]
      BY <1>3
    <3> QED
      BY <1>4, <2>3, <3>1, RsStarted
  <2> QED
    BY <2>1, <2>2, <2>3
<1>6. rsRun' \in [RsStacks -> RsRunRecord \cup RsLoading \cup {None}]
  <2>1. DOMAIN rsRun' = RsStacks /\ rsRun' = [s \in RsStacks |-> rsRun'[s]]
    BY <1>3
  <2> QED
    BY <1>5, <2>1
<1>7. rsOp' \in [RsStacks -> RsOpStates] /\ rsQueue' \subseteq RsStacks
  BY <1>4 DEF RsStrong, RsShapes
<1> QED
  BY <1>1, <1>4, <1>5, <1>6, <1>7, RsLoopKeeps

LEMMA RsAwaitedKeeps == ASSUME RsStrong, RsAwaited PROVE RsStrong'
<1>1. \A s \in RsStacks : rsRun[s] = None
  BY DEF RsAwaited
<1>2. rsOpen = {}
  BY <1>1, RsNoSessions
<1>3. /\ UNCHANGED <<rsServer, rsRow, rsHosts>> /\ rsDrop' = rsDrop /\ rsOp' = rsOp
      /\ rsQueue' = rsQueue /\ rsPhase' = "idle" /\ rsOpen' = rsOpen /\ rsRun' = rsRun
  BY DEF RsAwaited, rsRows
<1>4. \A s \in RsStacks : RsRunOk(s)'
  BY <1>1, <1>3 DEF RsRunOk
<1>5. /\ rsOp' \in [RsStacks -> RsOpStates] /\ rsQueue' \subseteq RsStacks
      /\ rsRun' \in [RsStacks -> RsRunRecord \cup RsLoading \cup {None}]
  BY <1>3 DEF RsStrong, RsShapes
<1> QED
  BY <1>1, <1>2, <1>3, <1>4, <1>5, RsLoopKeeps

LEMMA RsRestartKeeps == ASSUME RsStrong, RsRestart PROVE RsStrong'
<1>1. /\ UNCHANGED <<rsServer, rsRow, rsHosts>> /\ rsDrop' = None /\ rsOp' = rsOp
      /\ rsQueue' \subseteq RsStacks /\ rsPhase' = "idle" /\ rsOpen' = {}
      /\ rsRun' = [s \in RsStacks |-> None]
  BY DEF RsRestart
<1>2. \A s \in RsStacks : RsRunOk(s)'
  BY <1>1 DEF RsRunOk
<1>3. rsOp' \in [RsStacks -> RsOpStates]
  BY <1>1 DEF RsStrong, RsShapes
<1>4. rsRun' \in [RsStacks -> RsRunRecord \cup RsLoading \cup {None}] /\ \A s \in RsStacks : rsRun'[s] = None
  BY <1>1
<1> QED
  BY <1>1, <1>2, <1>3, <1>4, RsLoopKeeps

\* Steps that the strengthening does not depend on, and stuttering.
LEMMA RsUnseen ==
    ASSUME RsStrong, UNCHANGED <<rsServer, rsDrop, rsRow, rsQueue, rsHosts, rsPhase, rsRun, rsOpen>>,
           rsOp' \in [RsStacks -> RsOpStates]
    PROVE  RsStrong'
<1>1. RsShapes'
  BY DEF RsStrong, RsShapes, rsHosts
<1>2. RsIdle'
  BY DEF RsStrong, RsIdle
<1>3. SessionsClosed'
  BY RsSessionsKept DEF RsStrong
<1>4. ASSUME NEW s \in RsStacks PROVE RsRunOk(s)' /\ RsRowOk(s)'
  BY RsServersSame, RsOthersKept DEF rsHosts
<1> QED
  BY <1>1, <1>2, <1>3, <1>4 DEF RsStrong

LEMMA RsReapKeeps ==
    ASSUME RsStrong, NEW s \in RsStacks, RsReap(s) PROVE RsStrong'
<1>1. rsOp' \in [RsStacks -> RsOpStates]
  BY DEF RsStrong, RsShapes, RsReap, RsOpStates
<1> QED
  BY <1>1, RsUnseen DEF RsReap

\* Nothing is there, or one server with one stack that is ready.
LEMMA RsInitStrong == RsInit => RsStrong
<1> SUFFICES ASSUME RsInit PROVE RsStrong
  OBVIOUS
<1>1. PICK found \in {{}, {<<CHOOSE s \in RsStacks : TRUE, CHOOSE v \in RsServers : TRUE>>}} :
         LET On(s, v) == <<s, v>> \in found IN
         /\ rsServer = [v \in RsServers |-> IF \E s \in RsStacks : On(s, v)
                                            THEN [key |-> TRUE, status |-> "connected"] ELSE None]
         /\ rsRow = [s \in RsStacks |->
              IF \A v \in RsServers : ~On(s, v) THEN None
              ELSE LET v == CHOOSE v \in RsServers : On(s, v)
                   IN [server |-> v, asked |-> v, at |-> v, status |-> "ready", clean |-> TRUE]]
         /\ rsHas = [h \in RsHosts |-> [s \in RsStacks |-> IF On(s, h) THEN RsParts ELSE {}]]
         /\ rsUser = {v \in RsServers : \E s \in RsStacks : On(s, v)}
         /\ rsUid = IF rsUser = {} THEN None ELSE CHOOSE v \in RsServers : v \in rsUser
  BY DEF RsInit
<1>2. PICK s0, v0 : s0 = (CHOOSE s \in RsStacks : TRUE) /\ v0 = (CHOOSE v \in RsServers : TRUE)
  OBVIOUS
<1>3. found = {} \/ found = {<<s0, v0>>}
  BY <1>2
<1>4. /\ rsDrop = None /\ rsOp = [s \in RsStacks |-> None] /\ rsQueue = {} /\ rsPhase = "idle"
      /\ rsRun = [s \in RsStacks |-> None] /\ rsOpen = {}
  BY DEF RsInit
<1>5. RsIdle /\ SessionsClosed /\ \A s \in RsStacks : RsRunOk(s)
  BY <1>4 DEF RsIdle, SessionsClosed, RsRunOk
<1>6. PICK server : server = [key |-> TRUE, status |-> "connected"]
  OBVIOUS
<1>7. server \in RsServerRows
  BY <1>6 DEF RsServerRows
<1>8. server # None
  BY <1>7, RsNones
<1>9. rsServer = [v \in RsServers |-> IF \E s \in RsStacks : <<s, v>> \in found THEN server ELSE None]
  BY <1>1, <1>6
<1>10. rsServer \in [RsServers -> RsServerRows \cup {None}]
  BY <1>7, <1>9
<1>11. rsHas = [h \in RsHosts |-> [s \in RsStacks |-> IF <<s, h>> \in found THEN RsParts ELSE {}]]
  BY <1>1
<1>12. rsHas \in [RsHosts -> [RsStacks -> SUBSET RsParts]]
  BY <1>11
<1>13. rsUser \subseteq RsHosts /\ rsUid \in RsHosts \cup {None}
  <2>1. rsUser \subseteq RsServers
    BY <1>1
  <2>2. rsUid \in RsServers \cup {None}
    <3>1. CASE rsUser = {}
      BY <1>1, <3>1
    <3>2. CASE rsUser # {}
      <4>1. \E v \in RsServers : v \in rsUser
        BY <2>1, <3>2
      <4>2. rsUid = CHOOSE v \in RsServers : v \in rsUser
        BY <1>1, <3>2
      <4> QED
        BY <4>1, <4>2
    <3> QED
      BY <3>1, <3>2
  <2> QED
    BY <2>1, <2>2 DEF RsHosts
<1>14. ASSUME NEW s \in RsStacks
       PROVE  rsRow[s] \in RsStackRows \cup {None} /\ RsRowOk(s)
  <2>1. CASE \A v \in RsServers : <<s, v>> \notin found
    <3>1. rsRow[s] = None
      BY <1>1, <2>1
    <3> QED
      BY <3>1 DEF RsRowOk
  <2>2. CASE ~\A v \in RsServers : <<s, v>> \notin found
    <3>1. PICK v \in RsServers : <<s, v>> \in found
      BY <2>2
    <3>2. found = {<<s, v>>}
      BY <1>3, <3>1
    <3>3. \A u : <<s, u>> \in found <=> u = v
      BY <3>2
    <3>4. PICK w : w = CHOOSE u \in RsServers : <<s, u>> \in found
      OBVIOUS
    <3>5. w = v
      BY <3>1, <3>3, <3>4
    <3>6. rsRow[s] = [server |-> w, asked |-> w, at |-> w, status |-> "ready", clean |-> TRUE]
      BY <1>1, <2>2, <3>4
    <3>7. PICK row : row = [server |-> v, asked |-> v, at |-> v, status |-> "ready", clean |-> TRUE]
      OBVIOUS
    <3>8. rsRow[s] = row
      BY <3>5, <3>6, <3>7
    <3>9. row \in RsStackRows /\ row.server = v /\ row.asked = v /\ row.at = v /\ row.status = "ready"
      BY <3>7 DEF RsStackRows, RsHosts
    <3>10. rsServer[v] # None
      BY <1>8, <1>9, <3>1
    <3>11. \A g \in RsHosts : rsHas[g][s] # {} => g = v
      BY <1>11, <3>3
    <3>12. "up" \in rsHas[v][s]
      BY <1>11, <3>1 DEF RsHosts, RsParts
    <3>13. RsRowOk(s)
      BY <1>4, <3>8, <3>9, <3>10, <3>11, <3>12 DEF RsRowOk, RsMayHave
    <3> QED
      BY <3>8, <3>9, <3>13
  <2> QED
    BY <2>1, <2>2
<1>15. rsRow \in [RsStacks -> RsStackRows \cup {None}]
  <2>1. DOMAIN rsRow = RsStacks /\ rsRow = [s \in RsStacks |-> rsRow[s]]
    BY <1>1
  <2> QED
    BY <1>14, <2>1
<1>16. RsShapes
  BY <1>4, <1>10, <1>12, <1>13, <1>15 DEF RsShapes, RsOpStates
<1> QED
  BY <1>5, <1>14, <1>16 DEF RsStrong

LEMMA RsNextStrong == RsStrong /\ [RsNext]_rsVars => RsStrong'
<1> SUFFICES ASSUME RsStrong, [RsNext]_rsVars PROVE RsStrong'
  OBVIOUS
<1>1. CASE UNCHANGED rsVars
  <2>1. UNCHANGED <<rsServer, rsDrop, rsRow, rsQueue, rsHosts, rsPhase, rsRun, rsOpen>> /\ rsOp' = rsOp
    BY <1>1 DEF rsVars, rsRows
  <2>2. rsOp' \in [RsStacks -> RsOpStates]
    BY <2>1 DEF RsStrong, RsShapes
  <2> QED
    BY <2>1, <2>2, RsUnseen
<1>2. CASE \E v \in RsServers : CreateServer(v) \/ ValidateServer(v) \/ DeleteKey(v) \/ CheckServer(v)
  BY <1>2, CreateServerKeeps, ValidateServerKeeps, DeleteKeyKeeps, CheckServerKeeps
<1>3. CASE DeleteServer \/ StartDrain \/ StartCycle \/ RsAwaited \/ RsRestart
  BY <1>3, DeleteServerKeeps, StartDrainKeeps, StartCycleKeeps, RsAwaitedKeeps, RsRestartKeeps
<1>4. ASSUME NEW s \in RsStacks, RsRunStep(s) PROVE RsStrong'
  BY <1>4, LoadStackKeeps, NothingToDoKeeps, ConnectKeeps, ConnectFailsKeeps, ActionDoneKeeps,
     ActionFailsKeeps, AllDoneKeeps, CloseKeeps DEF RsRunStep
<1>5. CASE \E s \in RsStacks : RsReap(s) \/ DeleteStackOn(s) \/ \E h \in RsHosts : CreateStackOn(s, h)
  BY <1>5, RsReapKeeps, DeleteStackOnKeeps, CreateStackOnKeeps
<1> QED
  BY <1>1, <1>2, <1>3, <1>4, <1>5 DEF RsNext

LEMMA RsStrongImplies == RsStrong => RsTypeOK /\ ServersSound
<1> SUFFICES ASSUME RsStrong PROVE RsTypeOK /\ ServersSound
  OBVIOUS
<1>1. RsShapes /\ SessionsClosed /\ \A s \in RsStacks : RsRowOk(s)
  BY DEF RsStrong
<1>2. \A v \in RsServers : rsServer[v] # None =>
         rsServer[v].key \in BOOLEAN /\ rsServer[v].status \in {"pending", "connected", "error"}
  BY <1>1 DEF RsShapes, RsServerRows
<1>3. ASSUME NEW s \in RsStacks
      PROVE  /\ rsOp[s] \in {None, "pending", "running", "succeeded", "failed"}
             /\ rsRow[s] # None =>
                  /\ rsRow[s].server \in RsHosts /\ rsRow[s].at \in RsHosts
                  /\ rsRow[s].status \in {"converging", "ready", "degraded", "deleting"}
             /\ rsRun[s] # None => rsRun[s].pc \in {"load", "start", "act", "close"}
  <2>1. rsRun[s] # None => rsRun[s].pc \in {"load", "start", "act", "close"}
    BY <1>1 DEF RsShapes, RsRunRecord, RsLoading
  <2> QED
    BY <1>1, <2>1, RsRowTyped DEF RsShapes, RsOpStates
<1>4. RsTypeOK
  BY <1>1, <1>2, <1>3 DEF RsTypeOK, RsShapes
<1>5. ReadyRuns /\ ServersKept
  BY <1>1 DEF ReadyRuns, ServersKept, RsClean, RsRowOk
<1> QED
  BY <1>1, <1>4, <1>5 DEF ServersSound

\* Remote servers: a stack that is shown as ready runs on the host of the run
\* that said so, whatever other runs did to sessions and whatever became of its
\* server; no session outlives the runs; a stack keeps its server.
THEOREM ServersStaySound == RsSpec => []ServersSound
<1>1. RsStrong => ServersSound
  BY RsStrongImplies
<1> QED
  BY <1>1, RsInitStrong, RsNextStrong, PTL DEF RsSpec

-----------------------------------------------------------------------------
(* Deploys beside the running service.                                     *)

ZdDomains == DOMAIN ZdServiceOf
ZdOf(v) == {h \in ZdDomains : ZdServiceOf[h] = v}
ZdRouteSet == [host : ZdDomains, to : {"unit", "candidate"}]
ZdTasks == [pc : ZdPhases, left : Seq(ZdDomains), seen : Seq(ZdRouteSet) \cup {None}]
ZdApplies == [hosts : SUBSET ZdDomains, previous : Seq(ZdRouteSet)]
ZdIn(list, h) == \E k \in DOMAIN list : list[k] = h

\* The upstream of a domain in a list of routes.
ZdUp(routes, h) == IF Places(routes, h) = {} THEN None ELSE routes[FirstPlace(routes, h)].to

ZdShapes ==
    /\ zdRoutes \in Seq(ZdRouteSet) /\ zdUnits \subseteq ZdServices
    /\ zdCandidate \in [ZdServices -> {"up", "exited", None}]
    /\ zdTask \in [ZdServices -> ZdTasks]
    /\ zdLoaded \subseteq ZdDomains /\ zdDisturbed \subseteq ZdServices /\ zdLeft \subseteq ZdServices

\* A list that is under way names the domains of all services, and the one to
\* go back to has the domains of the last list that was loaded.
ZdApplyOk ==
    zdApply # None =>
        /\ zdApply \in ZdApplies
        /\ \A h \in ZdDomains : ZdServiceOf[h] # None => h \in zdApply.hosts
        /\ \A h \in zdLoaded : Places(zdApply.previous, h) # {}

\* Phases in which a candidate was started and has not been removed.
ZdBeside == {"poll", "swap", "stop", "start", "check", "back"}

\* Where the routes of a service lead to while a deploy goes on: all to the unit
\* or all to the candidate, but while they are patched, and once the unit runs
\* again beside the candidate.
ZdLeads(v, task) ==
    \A h \in ZdOf(v) :
        /\ Upstream(h) \in {"unit", "candidate"}
        /\ task.pc \in {"off", "run", "poll", "clean"} => Upstream(h) = "unit"
        /\ task.pc \in {"stop", "start"} => Upstream(h) = "candidate"
        /\ task.pc = "swap" /\ ~ZdIn(task.left, h) => Upstream(h) = "candidate"
        /\ task.pc = "back" /\ ~ZdIn(task.left, h) => Upstream(h) = "unit"

ZdDeployOk(v) ==
    /\ zdTask[v].pc \in {"off", "run"} /\ v \notin zdLeft => zdCandidate[v] = None
    /\ zdTask[v].pc \in ZdBeside => zdCandidate[v] # None
    /\ zdTask[v].pc \in {"swap", "back"} => zdTask[v].left \in Seq(ZdOf(v)) /\ zdTask[v].left # <<>>
    /\ v \notin zdDisturbed =>
         /\ zdTask[v].pc \in ZdBeside => zdCandidate[v] = "up"
         /\ zdTask[v].pc # "start" => v \in zdUnits
         /\ ZdLeads(v, zdTask[v])

ZdStrong ==
    /\ ZdShapes /\ ZdApplyOk /\ NoRouteLost
    /\ \A v \in ZdServices : ZdDeployOk(v)

-----------------------------------------------------------------------------
(* Deploys: lists of domains and of routes.                                *)

\* What InOrder recurses to, up to some domain.
ZdStep(list, h, hosts) == IF h \in hosts THEN Append(list, h) ELSE list

LEMMA ZdStepTyped ==
    ASSUME NEW hosts \in SUBSET ZdDomains, NEW list \in Seq(hosts), NEW h \in ZdDomains
    PROVE  /\ ZdStep(list, h, hosts) \in Seq(hosts)
           /\ \A g : ZdIn(list, g) => ZdIn(ZdStep(list, h, hosts), g)
           /\ h \in hosts => ZdIn(ZdStep(list, h, hosts), h)
<1>1. CASE h \in hosts
  <2>1. PICK new : new = Append(list, h)
    OBVIOUS
  <2>2. new \in Seq(hosts) /\ Len(new) = Len(list) + 1 /\ Len(list) \in Nat
        /\ (\A k \in 1 .. Len(list) : new[k] = list[k]) /\ new[Len(list) + 1] = h
    BY <1>1, <2>1
  <2>3. DOMAIN new = 1 .. Len(new) /\ DOMAIN list = 1 .. Len(list)
    BY <2>2
  <2>4. ZdStep(list, h, hosts) = new
    BY <1>1, <2>1 DEF ZdStep
  <2> QED
    BY <2>2, <2>3, <2>4 DEF ZdIn
<1>2. CASE h \notin hosts
  BY <1>2 DEF ZdStep
<1> QED
  BY <1>1, <1>2

LEMMA ZdUpToExists ==
    ASSUME NEW hosts \in SUBSET ZdDomains
    PROVE  \E f \in [0 .. Len(ZdHosts) -> Seq(hosts)] :
              /\ f[0] = <<>>
              /\ \A n \in 1 .. Len(ZdHosts) : f[n] = ZdStep(f[n - 1], ZdHosts[n], hosts)
<1> DEFINE Is(f, m) == /\ f[0] = <<>>
                       /\ \A n \in 1 .. m : f[n] = ZdStep(f[n - 1], ZdHosts[n], hosts)
           T == {m \in Nat : \E f \in [0 .. m -> Seq(hosts)] : Is(f, m)}
<1>1. Len(ZdHosts) \in Nat /\ \A n \in 1 .. Len(ZdHosts) : ZdHosts[n] \in ZdDomains
  BY ZdAssumption DEF ZdDomains
<1>2. 0 \in T
  <2> DEFINE f == [n \in 0 .. 0 |-> <<>>]
  <2>1. f \in [0 .. 0 -> Seq(hosts)] /\ Is(f, 0)
    OBVIOUS
  <2> QED
    BY <2>1
<1>3. ASSUME NEW m \in 1 .. Len(ZdHosts), m - 1 \in T PROVE m \in T
  <2>1. m \in Nat /\ m - 1 \in Nat /\ m \notin 0 .. m - 1
    BY <1>1
  <2>2. PICK f \in [0 .. m - 1 -> Seq(hosts)] : Is(f, m - 1)
    BY <1>3
  <2>3. f[m - 1] \in Seq(hosts)
    BY <2>1, <2>2
  <2>4. PICK new : new = ZdStep(f[m - 1], ZdHosts[m], hosts)
    OBVIOUS
  <2>5. new \in Seq(hosts)
    BY <1>1, <2>3, <2>4, ZdStepTyped
  <2> DEFINE g == [n \in 0 .. m |-> IF n = m THEN new ELSE f[n]]
  <2>6. g \in [0 .. m -> Seq(hosts)]
    BY <2>1, <2>2, <2>5
  <2>7. g[0] = <<>>
    BY <2>1, <2>2
  <2>8. ASSUME NEW n \in 1 .. m PROVE g[n] = ZdStep(g[n - 1], ZdHosts[n], hosts)
    <3>1. n \in 0 .. m /\ n - 1 \in 0 .. m /\ n - 1 # m /\ (n # m => n \in 1 .. m - 1)
      BY <2>1
    <3>2. g[n - 1] = f[n - 1] /\ g[n] = (IF n = m THEN new ELSE f[n])
      BY <3>1
    <3>3. CASE n = m
      BY <2>4, <3>2, <3>3
    <3>4. CASE n # m
      BY <2>2, <3>1, <3>2, <3>4
    <3> QED
      BY <3>3, <3>4
  <2> HIDE DEF g
  <2>9. Is(g, m)
    BY <2>7, <2>8
  <2> HIDE DEF Is
  <2> QED
    BY <2>1, <2>6, <2>9
<1>4. Len(ZdHosts) \in T
  <2> HIDE DEF T
  <2>1. 0 .. Len(ZdHosts) \subseteq T
    BY <1>1, <1>2, <1>3, UpTo
  <2> QED
    BY <1>1, <2>1
<1> QED
  BY <1>4

\* The list has the domains of the set.
LEMMA ZdInOrderHas ==
    ASSUME NEW hosts \in SUBSET ZdDomains
    PROVE  InOrder(hosts) \in Seq(hosts) /\ \A h \in hosts : ZdIn(InOrder(hosts), h)
<1> DEFINE Is(g) == g = [n \in 0 .. Len(ZdHosts) |->
                           IF n = 0 THEN <<>>
                           ELSE IF ZdHosts[n] \in hosts THEN Append(g[n - 1], ZdHosts[n]) ELSE g[n - 1]]
           iter == CHOOSE g : Is(g)
<1>1. InOrder(hosts) = iter[Len(ZdHosts)]
  BY DEF InOrder
<1>2. Len(ZdHosts) \in Nat /\ \A n \in 1 .. Len(ZdHosts) : ZdHosts[n] \in ZdDomains
  BY ZdAssumption DEF ZdDomains
<1>3. PICK f \in [0 .. Len(ZdHosts) -> Seq(hosts)] :
              /\ f[0] = <<>>
              /\ \A n \in 1 .. Len(ZdHosts) : f[n] = ZdStep(f[n - 1], ZdHosts[n], hosts)
  BY ZdUpToExists
<1>4. Is(f)
  <2>1. \A n \in 0 .. Len(ZdHosts) :
            f[n] = IF n = 0 THEN <<>>
                   ELSE IF ZdHosts[n] \in hosts THEN Append(f[n - 1], ZdHosts[n]) ELSE f[n - 1]
    <3> TAKE n \in 0 .. Len(ZdHosts)
    <3>1. CASE n = 0
      BY <1>3, <3>1
    <3>2. CASE n # 0
      <4>1. n \in 1 .. Len(ZdHosts)
        BY <1>2, <3>2
      <4>2. f[n] = ZdStep(f[n - 1], ZdHosts[n], hosts)
        BY <1>3, <4>1
      <4> QED
        BY <3>2, <4>2 DEF ZdStep
    <3> QED
      BY <3>1, <3>2
  <2>2. f = [n \in 0 .. Len(ZdHosts) |-> f[n]]
    BY <1>3
  <2> QED
    BY <2>1, <2>2
<1>5. Is(iter)
  <2> HIDE DEF Is
  <2> QED
    BY <1>4
<1> HIDE DEF iter
<1>6. iter[0] = <<>> /\ \A n \in 1 .. Len(ZdHosts) : iter[n] = ZdStep(iter[n - 1], ZdHosts[n], hosts)
  <2>1. ASSUME NEW n \in 0 .. Len(ZdHosts)
        PROVE  iter[n] = IF n = 0 THEN <<>>
                         ELSE IF ZdHosts[n] \in hosts THEN Append(iter[n - 1], ZdHosts[n]) ELSE iter[n - 1]
    BY <1>5
  <2>2. 0 \in 0 .. Len(ZdHosts) /\ \A n \in 1 .. Len(ZdHosts) : n \in 0 .. Len(ZdHosts) /\ n # 0
    BY <1>2
  <2>3. iter[0] = <<>>
    BY <2>1, <2>2
  <2>4. ASSUME NEW n \in 1 .. Len(ZdHosts) PROVE iter[n] = ZdStep(iter[n - 1], ZdHosts[n], hosts)
    <3>1. iter[n] = IF ZdHosts[n] \in hosts THEN Append(iter[n - 1], ZdHosts[n]) ELSE iter[n - 1]
      BY <2>1, <2>2
    <3> QED
      BY <3>1 DEF ZdStep
  <2> QED
    BY <2>3, <2>4
<1> HIDE DEF Is
<1> DEFINE T == {n \in Nat : /\ iter[n] \in Seq(hosts)
                             /\ \A k \in 1 .. n : ZdHosts[k] \in hosts => ZdIn(iter[n], ZdHosts[k])}
<1>7. 0 \in T
  BY <1>6
<1>8. ASSUME NEW n \in 1 .. Len(ZdHosts), n - 1 \in T PROVE n \in T
  <2>1. iter[n - 1] \in Seq(hosts) /\ n \in Nat /\ n - 1 \in Nat /\ ZdHosts[n] \in ZdDomains
        /\ \A k \in 1 .. n - 1 : ZdHosts[k] \in hosts => ZdIn(iter[n - 1], ZdHosts[k])
    BY <1>2, <1>8
  <2>2. PICK list \in Seq(hosts) : list = iter[n - 1]
    BY <2>1
  <2>3. iter[n] = ZdStep(list, ZdHosts[n], hosts)
    BY <1>6, <2>2
  <2>4. /\ iter[n] \in Seq(hosts)
        /\ \A g : ZdIn(list, g) => ZdIn(iter[n], g)
        /\ ZdHosts[n] \in hosts => ZdIn(iter[n], ZdHosts[n])
    BY <2>1, <2>3, ZdStepTyped
  <2>5. \A k \in 1 .. n : k = n \/ k \in 1 .. n - 1
    BY <2>1
  <2> QED
    BY <2>1, <2>2, <2>4, <2>5
<1>9. Len(ZdHosts) \in T
  <2> HIDE DEF T
  <2>1. 0 .. Len(ZdHosts) \subseteq T
    BY <1>2, <1>7, <1>8, UpTo
  <2> QED
    BY <1>2, <2>1
<1>10. \A h \in hosts : \E k \in 1 .. Len(ZdHosts) : ZdHosts[k] = h
  BY <1>2, ZdAssumption DEF ZdDomains
<1> QED
  BY <1>1, <1>9, <1>10

\* The first place of a domain.
LEMMA ZdFirst ==
    ASSUME NEW routes \in Seq(ZdRouteSet), NEW h, Places(routes, h) # {}
    PROVE  /\ FirstPlace(routes, h) \in 1 .. Len(routes) /\ Len(routes) \in Nat
           /\ routes[FirstPlace(routes, h)].host = h
           /\ \A j \in 1 .. Len(routes) : routes[j].host = h => FirstPlace(routes, h) <= j
<1>1. Places(routes, h) \in SUBSET Nat /\ Len(routes) \in Nat /\ DOMAIN routes = 1 .. Len(routes)
  BY DEF Places
<1>2. PICK k \in Places(routes, h) : \A j \in Places(routes, h) : k <= j
  BY <1>1, LeastNat
<1>3. FirstPlace(routes, h) \in Places(routes, h)
      /\ \A j \in Places(routes, h) : FirstPlace(routes, h) <= j
  BY <1>2 DEF FirstPlace
<1> QED
  BY <1>1, <1>3 DEF Places

\* The upstream is that of the place no other one is before.
LEMMA ZdUpIs ==
    ASSUME NEW routes \in Seq(ZdRouteSet), NEW h, NEW k \in 1 .. Len(routes),
           routes[k].host = h, \A j \in 1 .. Len(routes) : routes[j].host = h => k <= j
    PROVE  ZdUp(routes, h) = routes[k].to /\ FirstPlace(routes, h) = k /\ Places(routes, h) # {}
<1>1. k \in Places(routes, h)
  BY DEF Places
<1>2. FirstPlace(routes, h) = k
  <2>1. FirstPlace(routes, h) \in 1 .. Len(routes) /\ routes[FirstPlace(routes, h)].host = h
        /\ FirstPlace(routes, h) <= k
    BY <1>1, ZdFirst
  <2>2. k <= FirstPlace(routes, h)
    BY <2>1
  <2> QED
    BY <2>1, <2>2
<1> QED
  BY <1>1, <1>2 DEF ZdUp

LEMMA ZdUpTyped ==
    ASSUME NEW routes \in Seq(ZdRouteSet), NEW h
    PROVE  /\ ZdUp(routes, h) \in {"unit", "candidate", None}
           /\ ZdUp(routes, h) = None <=> Places(routes, h) = {}
<1>1. CASE Places(routes, h) = {}
  BY <1>1 DEF ZdUp
<1>2. CASE Places(routes, h) # {}
  <2>1. FirstPlace(routes, h) \in 1 .. Len(routes)
    BY <1>2, ZdFirst
  <2>2. routes[FirstPlace(routes, h)] \in ZdRouteSet
    BY <2>1
  <2>3. routes[FirstPlace(routes, h)].to \in {"unit", "candidate"}
    BY <2>2 DEF ZdRouteSet
  <2> QED
    BY <1>2, <2>3, ZdNoneAssumption DEF ZdUp
<1> QED
  BY <1>1, <1>2

\* What the concatenation of two lists is.
LEMMA ZdConcat ==
    ASSUME NEW S, NEW a \in Seq(S), NEW b \in Seq(S)
    PROVE  /\ a \o b \in Seq(S) /\ Len(a \o b) = Len(a) + Len(b)
           /\ \A i \in 1 .. Len(a) : (a \o b)[i] = a[i]
           /\ \A i \in 1 .. Len(b) : (a \o b)[Len(a) + i] = b[i]
<1>1. a \o b \in Seq(S)
  OBVIOUS
<1>2. Len(a \o b) = Len(a) + Len(b)
  OBVIOUS
<1>3. \A i \in 1 .. Len(a) : (a \o b)[i] = a[i]
  OBVIOUS
<1>4. \A i \in 1 .. Len(b) : (a \o b)[Len(a) + i] = b[i]
  OBVIOUS
<1> QED
  BY <1>1, <1>2, <1>3, <1>4

\* Positions of a list with one element more.
LEMMA ZdInserted ==
    ASSUME NEW routes \in Seq(ZdRouteSet), NEW k \in 1 .. Len(routes), NEW route \in ZdRouteSet
    PROVE  \E new \in Seq(ZdRouteSet) :
              /\ new = InsertAt(routes, k, route) /\ Len(new) = Len(routes) + 1 /\ new[k] = route
              /\ \A j \in 1 .. k - 1 : new[j] = routes[j]
              /\ \A j \in k + 1 .. Len(new) : new[j] = routes[j - 1]
<1>0. PICK new : new = InsertAt(routes, k, route)
  OBVIOUS
<1>1. PICK a, b : a = SubSeq(routes, 1, k - 1) /\ b = SubSeq(routes, k, Len(routes))
  OBVIOUS
<1>2. Len(routes) \in Nat /\ k \in Nat /\ 1 <= k /\ k <= Len(routes)
  OBVIOUS
<1>3. /\ a \in Seq(ZdRouteSet) /\ Len(a) = k - 1 /\ \A j \in 1 .. k - 1 : a[j] = routes[j]
  BY <1>1, <1>2
<1>4. /\ b \in Seq(ZdRouteSet) /\ Len(b) = Len(routes) - k + 1
      /\ \A j \in 1 .. Len(routes) - k + 1 : b[j] = routes[j + k - 1]
  BY <1>1, <1>2
<1>5. PICK c : c = <<route>>
  OBVIOUS
<1>6. c \in Seq(ZdRouteSet) /\ Len(c) = 1 /\ c[1] = route
  BY <1>5
<1>7. new = a \o c \o b
  BY <1>0, <1>1, <1>5 DEF InsertAt
<1>8. PICK ac : ac = a \o c
  OBVIOUS
<1>9. /\ ac \in Seq(ZdRouteSet) /\ Len(ac) = k /\ ac[k] = route
      /\ \A j \in 1 .. k - 1 : ac[j] = routes[j]
  <2>1. ac \in Seq(ZdRouteSet)
    BY <1>3, <1>6, <1>8
  <2>2. Len(ac) = k
    <3>1. Len(a \o c) = Len(a) + Len(c)
      BY <1>3, <1>6, ZdConcat
    <3> QED
      BY <1>2, <1>3, <1>6, <1>8, <3>1
  <2>3. ac[k] = c[1]
    <3>1. 1 \in 1 .. Len(c) /\ Len(a) + 1 = k
      BY <1>2, <1>3, <1>6
    <3>2. (a \o c)[Len(a) + 1] = c[1]
      BY <1>3, <1>6, <3>1, ZdConcat
    <3> QED
      BY <1>8, <3>1, <3>2
  <2>4. ASSUME NEW j \in 1 .. k - 1 PROVE ac[j] = a[j]
    BY <1>2, <1>3, <1>6, <1>8, <2>4
  <2> QED
    BY <1>3, <1>6, <2>1, <2>2, <2>3, <2>4
<1>10. new = ac \o b
  BY <1>7, <1>8
<1>11. new \in Seq(ZdRouteSet) /\ Len(new) = Len(routes) + 1
  <2>1. new \in Seq(ZdRouteSet)
    BY <1>4, <1>9, <1>10
  <2>2. Len(ac \o b) = Len(ac) + Len(b)
    BY <1>4, <1>9, ZdConcat
  <2> QED
    BY <1>2, <1>4, <1>9, <1>10, <2>1, <2>2
<1>12. \A j \in 1 .. k : new[j] = ac[j]
  BY <1>2, <1>4, <1>9, <1>10
<1>13. ASSUME NEW j \in k + 1 .. Len(new) PROVE new[j] = routes[j - 1]
  <2>1. j \in Nat /\ k < j /\ j <= Len(routes) + 1 /\ j - k \in 1 .. Len(routes) - k + 1
    BY <1>2, <1>11
  <2>2. new[j] = b[j - k]
    BY <1>2, <1>4, <1>9, <1>10, <2>1
  <2>3. b[j - k] = routes[(j - k) + k - 1]
    BY <1>4, <2>1
  <2>4. (j - k) + k - 1 = j - 1
    BY <1>2, <2>1
  <2> QED
    BY <2>2, <2>3, <2>4
<1>14. new[k] = route /\ \A j \in 1 .. k - 1 : new[j] = routes[j]
  BY <1>2, <1>9, <1>12
<1> QED
  BY <1>0, <1>11, <1>13, <1>14

LEMMA ZdPut ==
    ASSUME NEW routes \in Seq(ZdRouteSet), NEW k \in 1 .. Len(routes), NEW route \in ZdRouteSet,
           NEW new \in PutAt(routes, k, route)
    PROVE  /\ new \in Seq(ZdRouteSet)
           /\ Places(routes, route.host) # {} /\ FirstPlace(routes, route.host) = k =>
                /\ ZdUp(new, route.host) = route.to
                /\ \A g : g # route.host => ZdUp(new, g) = ZdUp(routes, g)
<1>1. CASE new = ReplaceAt(routes, k, route)
  <2>1. new = [routes EXCEPT ![k] = route]
    BY <1>1 DEF ReplaceAt
  <2>2. /\ new \in Seq(ZdRouteSet) /\ Len(new) = Len(routes) /\ new[k] = route /\ Len(routes) \in Nat
        /\ \A j \in 1 .. Len(routes) : j # k => new[j] = routes[j]
    BY <2>1
  <2> SUFFICES ASSUME Places(routes, route.host) # {}, FirstPlace(routes, route.host) = k
               PROVE  /\ ZdUp(new, route.host) = route.to
                      /\ \A g : g # route.host => ZdUp(new, g) = ZdUp(routes, g)
    BY <2>2
  <2>3. routes[k].host = route.host
        /\ \A j \in 1 .. Len(routes) : routes[j].host = route.host => k <= j
    BY ZdFirst
  <2>4. ZdUp(new, route.host) = route.to
    BY <2>2, <2>3, ZdUpIs
  <2>5. ASSUME NEW g, g # route.host PROVE ZdUp(new, g) = ZdUp(routes, g)
    <3>1. \A j \in 1 .. Len(routes) : new[j].host = g <=> routes[j].host = g
      BY <2>2, <2>3, <2>5
    <3>2. CASE Places(routes, g) = {}
      <4>1. Places(new, g) = {}
        <5>1. DOMAIN new = 1 .. Len(routes) /\ DOMAIN routes = 1 .. Len(routes)
          BY <2>2
        <5> QED
          BY <3>1, <3>2, <5>1 DEF Places
      <4> QED
        BY <3>2, <4>1 DEF ZdUp
    <3>3. CASE Places(routes, g) # {}
      <4>1. PICK f : f = FirstPlace(routes, g)
        OBVIOUS
      <4>2. f \in 1 .. Len(routes) /\ routes[f].host = g
            /\ \A j \in 1 .. Len(routes) : routes[j].host = g => f <= j
        BY <3>3, <4>1, ZdFirst
      <4>3. f # k
        BY <2>3, <2>5, <4>2
      <4>4. new[f] = routes[f] /\ f \in 1 .. Len(new)
            /\ \A j \in 1 .. Len(new) : new[j].host = g => f <= j
        BY <2>2, <3>1, <4>2, <4>3
      <4>5. ZdUp(new, g) = new[f].to
        BY <2>2, <4>2, <4>4, ZdUpIs
      <4> QED
        BY <3>3, <4>1, <4>4, <4>5 DEF ZdUp
    <3> QED
      BY <3>2, <3>3
  <2> QED
    BY <2>4, <2>5
<1>2. CASE new = InsertAt(routes, k, route)
  <2>1. /\ new \in Seq(ZdRouteSet) /\ Len(new) = Len(routes) + 1 /\ new[k] = route
        /\ \A j \in 1 .. k - 1 : new[j] = routes[j]
        /\ \A j \in k + 1 .. Len(new) : new[j] = routes[j - 1]
    <3>1. PICK list \in Seq(ZdRouteSet) :
            /\ list = InsertAt(routes, k, route) /\ Len(list) = Len(routes) + 1 /\ list[k] = route
            /\ \A j \in 1 .. k - 1 : list[j] = routes[j]
            /\ \A j \in k + 1 .. Len(list) : list[j] = routes[j - 1]
      BY ZdInserted
    <3>2. new = list
      BY <1>2, <3>1
    <3> QED
      BY <3>1, <3>2
  <2>2. Len(routes) \in Nat /\ k \in Nat /\ 1 <= k /\ k <= Len(routes)
    OBVIOUS
  <2> SUFFICES ASSUME Places(routes, route.host) # {}, FirstPlace(routes, route.host) = k
               PROVE  /\ ZdUp(new, route.host) = route.to
                      /\ \A g : g # route.host => ZdUp(new, g) = ZdUp(routes, g)
    BY <2>1
  <2>3. routes[k].host = route.host
        /\ \A j \in 1 .. Len(routes) : routes[j].host = route.host => k <= j
    BY ZdFirst
  <2>4. ZdUp(new, route.host) = route.to
    <3>1. ASSUME NEW j \in 1 .. Len(new), new[j].host = route.host, j < k PROVE FALSE
      <4>1. j \in 1 .. k - 1 /\ j \in 1 .. Len(routes)
        BY <2>1, <2>2, <3>1
      <4> QED
        BY <2>1, <2>2, <2>3, <3>1, <4>1
    <3>2. k \in 1 .. Len(new) /\ \A j \in 1 .. Len(new) : new[j].host = route.host => k <= j
      BY <2>1, <2>2, <3>1
    <3> QED
      BY <2>1, <3>2, ZdUpIs
  <2>5. ASSUME NEW g, g # route.host PROVE ZdUp(new, g) = ZdUp(routes, g)
    <3>1. ASSUME NEW j \in 1 .. Len(new), new[j].host = g
          PROVE  \/ j < k /\ j \in 1 .. Len(routes) /\ routes[j].host = g
                 \/ k < j /\ j - 1 \in 1 .. Len(routes) /\ routes[j - 1].host = g
      <4>1. j \in Nat /\ j # k /\ Len(new) = Len(routes) + 1
        BY <2>1, <2>2, <2>5, <3>1
      <4>2. CASE j < k
        <5>1. j \in 1 .. k - 1 /\ j \in 1 .. Len(routes)
          BY <2>1, <2>2, <4>1, <4>2
        <5> QED
          BY <2>1, <3>1, <4>2, <5>1
      <4>3. CASE k < j
        <5>1. j \in k + 1 .. Len(new) /\ j - 1 \in 1 .. Len(routes)
          BY <2>1, <2>2, <4>1, <4>3
        <5> QED
          BY <2>1, <3>1, <4>3, <5>1
      <4> QED
        BY <2>2, <4>1, <4>2, <4>3
    <3>2. CASE Places(routes, g) = {}
      <4>1. \A j \in 1 .. Len(routes) : routes[j].host # g
        <5>1. DOMAIN routes = 1 .. Len(routes)
          OBVIOUS
        <5> QED
          BY <3>2, <5>1 DEF Places
      <4>2. DOMAIN new = 1 .. Len(new)
        BY <2>1
      <4>3. Places(new, g) = {}
        BY <3>1, <4>1, <4>2 DEF Places
      <4> QED
        BY <3>2, <4>3 DEF ZdUp
    <3>3. CASE Places(routes, g) # {}
      <4>1. PICK f : f = FirstPlace(routes, g)
        OBVIOUS
      <4>2. f \in 1 .. Len(routes) /\ routes[f].host = g
            /\ \A j \in 1 .. Len(routes) : routes[j].host = g => f <= j
        BY <3>3, <4>1, ZdFirst
      <4>3. f # k /\ f \in Nat
        BY <2>3, <2>5, <4>2
      <4>4. PICK p : p = IF f < k THEN f ELSE f + 1
        OBVIOUS
      <4>5. p \in 1 .. Len(new) /\ new[p] = routes[f]
        <5>1. CASE f < k
          <6>1. f \in 1 .. k - 1 /\ f \in 1 .. Len(new)
            BY <2>1, <2>2, <4>2, <4>3, <5>1
          <6> QED
            BY <2>1, <4>4, <5>1, <6>1
        <5>2. CASE ~(f < k)
          <6>1. f + 1 \in k + 1 .. Len(new) /\ f + 1 \in 1 .. Len(new) /\ (f + 1) - 1 = f
            BY <2>1, <2>2, <4>2, <4>3, <5>2
          <6> QED
            BY <2>1, <4>4, <5>2, <6>1
        <5> QED
          BY <5>1, <5>2
      <4>6. ASSUME NEW j \in 1 .. Len(new), new[j].host = g PROVE p <= j
        <5>1. CASE j < k /\ j \in 1 .. Len(routes) /\ routes[j].host = g
          <6>1. f <= j
            BY <4>2, <5>1
          <6> QED
            BY <2>2, <4>3, <4>4, <5>1, <6>1
        <5>2. CASE k < j /\ j - 1 \in 1 .. Len(routes) /\ routes[j - 1].host = g
          <6>1. f <= j - 1 /\ j \in Nat
            BY <4>2, <5>2
          <6> QED
            BY <2>2, <4>3, <4>4, <5>2, <6>1
        <5> QED
          BY <3>1, <4>6, <5>1, <5>2
      <4>7. p \in 1 .. Len(new) /\ new[p].host = g
        BY <4>2, <4>5
      <4>8. new \in Seq(ZdRouteSet)
        BY <2>1
      <4>9. ZdUp(new, g) = new[p].to
        BY <4>6, <4>7, <4>8, ZdUpIs
      <4> QED
        BY <3>3, <4>1, <4>5, <4>9 DEF ZdUp
    <3> QED
      BY <3>2, <3>3
  <2> QED
    BY <2>4, <2>5
<1> QED
  BY <1>1, <1>2 DEF PutAt

\* A list that was built leads all its domains to their units.
LEMMA ZdBuilt ==
    ASSUME NEW hosts \in SUBSET ZdDomains
    PROVE  /\ BuiltRoutes(hosts) \in Seq(ZdRouteSet)
           /\ \A h \in hosts : ZdUp(BuiltRoutes(hosts), h) = "unit" /\ Places(BuiltRoutes(hosts), h) # {}
<1>1. PICK list : list = InOrder(hosts)
  OBVIOUS
<1>2. list \in Seq(hosts) /\ \A h \in hosts : ZdIn(list, h)
  BY <1>1, ZdInOrderHas
<1>3. list \in Seq(ZdDomains) /\ Len(list) \in Nat /\ DOMAIN list = 1 .. Len(list)
  BY <1>2
<1>4. PICK routes : routes = [k \in 1 .. Len(list) |-> [host |-> list[k], to |-> "unit"]]
  OBVIOUS
<1>5. BuiltRoutes(hosts) = routes
  BY <1>1, <1>3, <1>4 DEF BuiltRoutes
<1>6. \A k \in 1 .. Len(list) : routes[k].host = list[k] /\ routes[k].to = "unit" /\ routes[k] \in ZdRouteSet
  BY <1>3, <1>4 DEF ZdRouteSet
<1>7. routes \in Seq(ZdRouteSet) /\ Len(routes) = Len(list)
  <2>1. routes \in [1 .. Len(list) -> ZdRouteSet]
    BY <1>4, <1>6
  <2> QED
    BY <1>3, <2>1
<1>8. ASSUME NEW h \in hosts PROVE ZdUp(routes, h) = "unit" /\ Places(routes, h) # {}
  <2>1. PICK k \in 1 .. Len(list) : list[k] = h
    BY <1>2, <1>3 DEF ZdIn
  <2>2. k \in DOMAIN routes /\ routes[k].host = h
    BY <1>4, <1>6, <2>1
  <2>3. Places(routes, h) # {}
    BY <2>2 DEF Places
  <2>4. FirstPlace(routes, h) \in 1 .. Len(list)
    BY <1>7, <2>3, ZdFirst
  <2> QED
    BY <1>6, <2>3, <2>4 DEF ZdUp
<1> QED
  BY <1>5, <1>7, <1>8

\* A service has a domain.
LEMMA ZdDomainsHas ==
    ASSUME NEW v \in ZdServices
    PROVE  DomainsOf(v) \in Seq(ZdOf(v)) /\ DomainsOf(v) # <<>> /\ \A h \in ZdOf(v) : ZdIn(DomainsOf(v), h)
<1>1. ZdOf(v) \in SUBSET ZdDomains /\ DomainsOf(v) = InOrder(ZdOf(v))
  BY DEF ZdOf, ZdDomains, DomainsOf
<1>2. DomainsOf(v) \in Seq(ZdOf(v)) /\ \A h \in ZdOf(v) : ZdIn(DomainsOf(v), h)
  BY <1>1, ZdInOrderHas
<1>3. PICK h \in ZdOf(v) : TRUE
  BY DEF ZdServices, ZdOf, ZdDomains
<1>4. ZdIn(DomainsOf(v), h) /\ ~ZdIn(<<>>, h)
  BY <1>2 DEF ZdIn
<1> QED
  BY <1>2, <1>4

-----------------------------------------------------------------------------
(* Deploys: what steps have in common.                                     *)

LEMMA ZdUpstream == \A h : Upstream(h) = ZdUp(zdRoutes, h)
  BY DEF Upstream, ZdUp

LEMMA ZdNones ==
    None \notin {"unit", "candidate", "up", "exited"}
  BY ZdNoneAssumption

\* A service that a step does not touch, or only makes a disturbed one of.
LEMMA ZdSame ==
    ASSUME NEW v \in ZdServices, ZdDeployOk(v),
           zdTask'[v] = zdTask[v], zdCandidate'[v] = zdCandidate[v],
           v \in zdUnits => v \in zdUnits', v \in zdLeft => v \in zdLeft',
           v \notin zdDisturbed' =>
              v \notin zdDisturbed /\ \A h \in ZdOf(v) : Upstream(h)' = Upstream(h)
    PROVE  ZdDeployOk(v)'
<1>1. PICK task : task = zdTask[v]
  OBVIOUS
<1>2. v \notin zdDisturbed' => ZdLeads(v, task)'
  BY <1>1 DEF ZdDeployOk, ZdLeads
<1>3. ZdLeads(v, zdTask[v])' <=> ZdLeads(v, task)'
  BY <1>1 DEF ZdLeads
<1> QED
  BY <1>2, <1>3 DEF ZdDeployOk

\* What a step of the deploy of one service leaves as it is.
ZdOthersSame(v) ==
    \A w \in ZdServices : w # v =>
        /\ zdTask'[w] = zdTask[w] /\ zdCandidate'[w] = zdCandidate[w]
        /\ w \in zdUnits' <=> w \in zdUnits
        /\ w \in zdDisturbed' <=> w \in zdDisturbed
        /\ w \in zdLeft' <=> w \in zdLeft

LEMMA ZdOwn ==
    ASSUME ZdStrong, NEW v \in ZdServices, UNCHANGED <<zdRoutes, zdApply, zdLoaded>>,
           ZdShapes', ZdOthersSame(v), ZdDeployOk(v)'
    PROVE  ZdStrong'
<1>1. ASSUME NEW w \in ZdServices PROVE ZdDeployOk(w)'
  <2>1. CASE w = v
    BY <2>1
  <2>2. CASE w # v
    <3>1. \A h : Upstream(h)' = Upstream(h)
      BY DEF Upstream
    <3> QED
      BY <2>2, <3>1, ZdSame DEF ZdOthersSame, ZdStrong
  <2> QED
    BY <2>1, <2>2
<1>2. ZdApplyOk'
  BY DEF ZdStrong, ZdApplyOk
<1>3. NoRouteLost'
  BY DEF ZdStrong, NoRouteLost, Upstream
<1> QED
  BY <1>1, <1>2, <1>3 DEF ZdStrong

\* The service itself, where the routes stay.
LEMMA ZdMoved ==
    ASSUME NEW v \in ZdServices, zdRoutes' = zdRoutes, NEW task, zdTask'[v] = task,
           task.pc \in {"off", "run"} /\ v \notin zdLeft' => zdCandidate'[v] = None,
           task.pc \in ZdBeside => zdCandidate'[v] # None,
           task.pc \in {"swap", "back"} => task.left \in Seq(ZdOf(v)) /\ task.left # <<>>,
           v \notin zdDisturbed' =>
             /\ task.pc \in ZdBeside => zdCandidate'[v] = "up"
             /\ task.pc # "start" => v \in zdUnits'
             /\ ZdLeads(v, task)
    PROVE  ZdDeployOk(v)'
<1>1. ZdLeads(v, task)' <=> ZdLeads(v, task)
  BY DEF ZdLeads, Upstream
<1>2. ZdLeads(v, zdTask[v])' <=> ZdLeads(v, task)'
  BY DEF ZdLeads
<1> QED
  BY <1>1, <1>2 DEF ZdDeployOk

LEMMA ZdPhaseSet ==
    ASSUME ZdShapes, NEW v \in ZdServices, NEW pc \in ZdPhases, Phase(v, pc)
    PROVE  /\ zdTask' \in [ZdServices -> ZdTasks] /\ zdTask'[v] \in ZdTasks /\ zdTask'[v].pc = pc
           /\ \A w \in ZdServices : w # v => zdTask'[w] = zdTask[w]
<1>1. PICK task : task = [ZdOff EXCEPT !.pc = pc]
  OBVIOUS
<1>2. task \in ZdTasks /\ task.pc = pc
  <2>1. task = [pc |-> pc, left |-> <<>>, seen |-> None]
    BY <1>1 DEF ZdOff
  <2>2. <<>> \in Seq(ZdDomains)
    OBVIOUS
  <2> QED
    BY <2>1, <2>2 DEF ZdTasks
<1>3. zdTask' = [zdTask EXCEPT ![v] = task]
  BY <1>1 DEF Phase
<1> QED
  BY <1>2, <1>3 DEF ZdShapes

LEMMA ZdPatchingSet ==
    ASSUME ZdShapes, NEW v \in ZdServices, NEW pc \in ZdPhases, Patching(v, pc)
    PROVE  /\ zdTask' \in [ZdServices -> ZdTasks] /\ zdTask'[v].pc = pc
           /\ zdTask'[v].left \in Seq(ZdOf(v)) /\ zdTask'[v].left # <<>>
           /\ \A h \in ZdOf(v) : ZdIn(zdTask'[v].left, h)
           /\ \A w \in ZdServices : w # v => zdTask'[w] = zdTask[w]
<1>1. PICK left : left = DomainsOf(v)
  OBVIOUS
<1>2. left \in Seq(ZdOf(v)) /\ left # <<>> /\ \A h \in ZdOf(v) : ZdIn(left, h)
  BY <1>1, ZdDomainsHas
<1>3. left \in Seq(ZdDomains)
  BY <1>2 DEF ZdOf
<1>4. PICK task : task = [pc |-> pc, left |-> left, seen |-> None]
  OBVIOUS
<1>5. task \in ZdTasks /\ task.pc = pc /\ task.left = left
  BY <1>3, <1>4 DEF ZdTasks
<1>6. zdTask' = [zdTask EXCEPT ![v] = task]
  BY <1>1, <1>4 DEF Patching
<1>7. zdTask' \in [ZdServices -> ZdTasks] /\ zdTask'[v] = task
      /\ \A w \in ZdServices : w # v => zdTask'[w] = zdTask[w]
  BY <1>5, <1>6 DEF ZdShapes
<1> QED
  BY <1>2, <1>5, <1>7

LEMMA ZdTailIn ==
    ASSUME NEW S, NEW list \in Seq(S), list # <<>>
    PROVE  /\ Head(list) \in S /\ Tail(list) \in Seq(S)
           /\ \A h : ZdIn(list, h) => h = Head(list) \/ ZdIn(Tail(list), h)
<1>1. Head(list) \in S /\ Tail(list) \in Seq(S) /\ Head(list) = list[1]
  OBVIOUS
<1>2. ASSUME NEW h, ZdIn(list, h), h # Head(list) PROVE ZdIn(Tail(list), h)
  <2>1. PICK k \in DOMAIN list : list[k] = h
    BY <1>2 DEF ZdIn
  <2>2. DOMAIN list = 1 .. Len(list) /\ Len(list) \in Nat /\ Len(Tail(list)) = Len(list) - 1
        /\ DOMAIN Tail(list) = 1 .. Len(Tail(list))
    BY <1>1
  <2>3. k # 1 /\ k \in 1 .. Len(list)
    BY <1>1, <1>2, <2>1, <2>2
  <2>4. k - 1 \in 1 .. Len(Tail(list))
    BY <2>2, <2>3
  <2>5. Tail(list)[k - 1] = list[(k - 1) + 1] /\ (k - 1) + 1 = k
    BY <2>2, <2>3, <2>4
  <2> QED
    BY <2>1, <2>2, <2>4, <2>5 DEF ZdIn
<1> QED
  BY <1>1, <1>2

\* One domain more is through, and with the last of them the phase ends.
LEMMA ZdPatchSet ==
    ASSUME ZdShapes, NEW v \in ZdServices, zdTask[v].pc \in {"swap", "back"},
           zdTask[v].left \in Seq(ZdOf(v)), zdTask[v].left # <<>>, PatchDone(v)
    PROVE  /\ zdTask' \in [ZdServices -> ZdTasks]
           /\ \A w \in ZdServices : w # v => zdTask'[w] = zdTask[w]
           /\ Head(zdTask[v].left) \in ZdOf(v)
           /\ \/ /\ zdTask'[v].pc = IF zdTask[v].pc = "swap" THEN "stop" ELSE "clean"
                 /\ \A h : ZdIn(zdTask[v].left, h) => h = Head(zdTask[v].left)
              \/ /\ zdTask'[v].pc = zdTask[v].pc
                 /\ zdTask'[v].left \in Seq(ZdOf(v)) /\ zdTask'[v].left # <<>>
                 /\ \A h : ZdIn(zdTask[v].left, h) => h = Head(zdTask[v].left) \/ ZdIn(zdTask'[v].left, h)
<1>1. PICK rest : rest = Tail(zdTask[v].left)
  OBVIOUS
<1>2. /\ rest \in Seq(ZdOf(v)) /\ Head(zdTask[v].left) \in ZdOf(v)
      /\ \A h : ZdIn(zdTask[v].left, h) => h = Head(zdTask[v].left) \/ ZdIn(rest, h)
  BY <1>1, ZdTailIn
<1>3. rest \in Seq(ZdDomains)
  BY <1>2 DEF ZdOf
<1>4. CASE rest = <<>>
  <2>1. PICK pc : pc = IF zdTask[v].pc = "swap" THEN "stop" ELSE "clean"
    OBVIOUS
  <2>2. pc \in ZdPhases /\ NextPhase(zdTask[v].pc) = pc
    BY <2>1 DEF ZdPhases, NextPhase
  <2>3. Phase(v, pc)
    BY <1>1, <1>4, <2>2 DEF PatchDone
  <2>4. \A h : ~ZdIn(rest, h)
    BY <1>4 DEF ZdIn
  <2> QED
    BY <1>2, <2>1, <2>2, <2>3, <2>4, ZdPhaseSet
<1>5. CASE rest # <<>>
  <2>1. zdTask[v] \in ZdTasks
    BY DEF ZdShapes
  <2>2. PICK task : task = [zdTask[v] EXCEPT !.left = rest, !.seen = None]
    OBVIOUS
  <2>3. task \in ZdTasks /\ task.pc = zdTask[v].pc /\ task.left = rest
    BY <1>3, <2>1, <2>2 DEF ZdTasks
  <2>4. zdTask' = [zdTask EXCEPT ![v] = task]
    BY <1>1, <1>5, <2>2 DEF PatchDone, ZdShapes
  <2>5. zdTask' \in [ZdServices -> ZdTasks] /\ zdTask'[v] = task
        /\ \A w \in ZdServices : w # v => zdTask'[w] = zdTask[w]
    BY <2>3, <2>4 DEF ZdShapes
  <2> QED
    BY <1>2, <1>5, <2>3, <2>5
<1> QED
  BY <1>4, <1>5

LEMMA ZdCleanupSet ==
    ASSUME ZdShapes, NEW v \in ZdServices, NEW used, CleanupCandidate(v, used)
    PROVE  /\ zdCandidate' \in [ZdServices -> {"up", "exited", None}]
           /\ \A w \in ZdServices : w # v => zdCandidate'[w] = zdCandidate[w]
           /\ (zdCandidate'[v] = None /\ zdLeft' = zdLeft \ {v}) \/ zdLeft' = zdLeft \cup {v}
  BY DEF ZdShapes, CleanupCandidate

-----------------------------------------------------------------------------
(* Deploys: the steps of a deploy.                                         *)

LEMMA ZdBeginKeeps ==
    ASSUME ZdStrong, NEW v \in ZdServices, ZdBegin(v) PROVE ZdStrong'
<1>1. /\ zdTask[v].pc = "off" /\ v \in zdUnits /\ Phase(v, "run")
      /\ UNCHANGED <<zdRoutes, zdUnits, zdApply, zdLoaded, zdDisturbed>>
      /\ ZdShapes /\ ZdDeployOk(v)
  BY DEF ZdBegin, ZdStrong
<1>2. /\ zdTask' \in [ZdServices -> ZdTasks] /\ zdTask'[v].pc = "run"
      /\ \A w \in ZdServices : w # v => zdTask'[w] = zdTask[w]
  BY <1>1, ZdPhaseSet DEF ZdPhases
<1>3. /\ zdCandidate' \in [ZdServices -> {"up", "exited", None}]
      /\ \A w \in ZdServices : w # v => zdCandidate'[w] = zdCandidate[w]
      /\ (zdCandidate'[v] = None /\ zdLeft' = zdLeft \ {v}) \/ zdLeft' = zdLeft \cup {v}
  BY <1>1, ZdCleanupSet DEF ZdBegin
<1>4. ZdShapes'
  BY <1>1, <1>2, <1>3 DEF ZdShapes
<1>5. ZdOthersSame(v)
  BY <1>1, <1>2, <1>3 DEF ZdOthersSame
<1>6. PICK task : task = zdTask'[v]
  OBVIOUS
<1>7. v \notin zdDisturbed => ZdLeads(v, task)
  BY <1>1, <1>2, <1>6 DEF ZdDeployOk, ZdLeads
<1>8. ZdDeployOk(v)'
  BY <1>1, <1>2, <1>3, <1>6, <1>7, ZdMoved DEF ZdBeside
<1> QED
  BY <1>1, <1>4, <1>5, <1>8, ZdOwn

LEMMA ZdCleanKeeps ==
    ASSUME ZdStrong, NEW v \in ZdServices, ZdClean(v) PROVE ZdStrong'
<1>1. /\ zdTask[v].pc = "clean" /\ Phase(v, "off")
      /\ UNCHANGED <<zdRoutes, zdUnits, zdApply, zdLoaded, zdDisturbed>>
      /\ ZdShapes /\ ZdDeployOk(v)
  BY DEF ZdClean, ZdStrong
<1>2. /\ zdTask' \in [ZdServices -> ZdTasks] /\ zdTask'[v].pc = "off"
      /\ \A w \in ZdServices : w # v => zdTask'[w] = zdTask[w]
  BY <1>1, ZdPhaseSet DEF ZdPhases
<1>3. /\ zdCandidate' \in [ZdServices -> {"up", "exited", None}]
      /\ \A w \in ZdServices : w # v => zdCandidate'[w] = zdCandidate[w]
      /\ (zdCandidate'[v] = None /\ zdLeft' = zdLeft \ {v}) \/ zdLeft' = zdLeft \cup {v}
  BY <1>1, ZdCleanupSet DEF ZdClean
<1>4. ZdShapes'
  BY <1>1, <1>2, <1>3 DEF ZdShapes
<1>5. ZdOthersSame(v)
  BY <1>1, <1>2, <1>3 DEF ZdOthersSame
<1>6. PICK task : task = zdTask'[v]
  OBVIOUS
<1>7. v \notin zdDisturbed => ZdLeads(v, task)
  BY <1>1, <1>2, <1>6 DEF ZdDeployOk, ZdLeads
<1>8. ZdDeployOk(v)'
  BY <1>1, <1>2, <1>3, <1>6, <1>7, ZdMoved DEF ZdBeside, ZdDeployOk
<1> QED
  BY <1>1, <1>4, <1>5, <1>8, ZdOwn

LEMMA StartCandidateKeeps ==
    ASSUME ZdStrong, NEW v \in ZdServices, StartCandidate(v) PROVE ZdStrong'
<1>1. /\ zdTask[v].pc = "run" /\ zdCandidate[v] = None
      /\ UNCHANGED <<zdRoutes, zdUnits, zdApply, zdLoaded, zdDisturbed>>
      /\ ZdShapes /\ ZdDeployOk(v)
  BY DEF StartCandidate, ZdStrong
<1>2. PICK pc \in {"poll", "off"} : Phase(v, pc)
            /\ (pc = "poll" => zdCandidate' = [zdCandidate EXCEPT ![v] = "up"] /\ zdLeft' = zdLeft)
            /\ (pc = "off" => \/ UNCHANGED <<zdCandidate, zdLeft>>
                              \/ /\ zdCandidate' = [zdCandidate EXCEPT ![v] = "exited"]
                                 /\ zdLeft' = zdLeft \cup {v})
  BY DEF StartCandidate
<1>3. /\ zdTask' \in [ZdServices -> ZdTasks] /\ zdTask'[v].pc = pc
      /\ \A w \in ZdServices : w # v => zdTask'[w] = zdTask[w]
  BY <1>1, <1>2, ZdPhaseSet DEF ZdPhases
<1>4. /\ zdCandidate' \in [ZdServices -> {"up", "exited", None}]
      /\ \A w \in ZdServices : w # v => zdCandidate'[w] = zdCandidate[w]
      /\ zdLeft' = zdLeft \/ zdLeft' = zdLeft \cup {v}
      /\ pc = "poll" => zdCandidate'[v] = "up"
      /\ pc = "off" => zdCandidate'[v] = None \/ v \in zdLeft'
  BY <1>1, <1>2 DEF ZdShapes
<1>5. ZdShapes'
  BY <1>1, <1>3, <1>4 DEF ZdShapes
<1>6. ZdOthersSame(v)
  BY <1>1, <1>3, <1>4 DEF ZdOthersSame
<1>7. PICK task : task = zdTask'[v]
  OBVIOUS
<1>8. v \notin zdDisturbed => ZdLeads(v, task)
  BY <1>1, <1>3, <1>7 DEF ZdDeployOk, ZdLeads
<1>9. ZdDeployOk(v)'
  BY <1>1, <1>3, <1>4, <1>7, <1>8, ZdMoved, ZdNones DEF ZdBeside, ZdDeployOk
<1> QED
  BY <1>1, <1>5, <1>6, <1>9, ZdOwn

LEMMA NameTakenKeeps ==
    ASSUME ZdStrong, NEW v \in ZdServices, NameTaken(v) PROVE ZdStrong'
<1>1. /\ zdTask[v].pc = "run" /\ zdCandidate[v] # None /\ Phase(v, "off")
      /\ UNCHANGED <<zdRoutes, zdUnits, zdCandidate, zdApply, zdLoaded, zdDisturbed, zdLeft>>
      /\ ZdShapes /\ ZdDeployOk(v)
  BY DEF NameTaken, ZdStrong, zdHistory
<1>2. /\ zdTask' \in [ZdServices -> ZdTasks] /\ zdTask'[v].pc = "off"
      /\ \A w \in ZdServices : w # v => zdTask'[w] = zdTask[w]
  BY <1>1, ZdPhaseSet DEF ZdPhases
<1>3. ZdShapes' /\ ZdOthersSame(v)
  BY <1>1, <1>2 DEF ZdShapes, ZdOthersSame
<1>4. PICK task : task = zdTask'[v]
  OBVIOUS
<1>5. v \notin zdDisturbed => ZdLeads(v, task)
  BY <1>1, <1>2, <1>4 DEF ZdDeployOk, ZdLeads
<1>6. ZdDeployOk(v)'
  BY <1>1, <1>2, <1>4, <1>5, ZdMoved DEF ZdBeside, ZdDeployOk
<1> QED
  BY <1>1, <1>3, <1>6, ZdOwn

LEMMA HealthPollKeeps ==
    ASSUME ZdStrong, NEW v \in ZdServices, HealthPoll(v) PROVE ZdStrong'
<1>1. /\ zdTask[v].pc = "poll" /\ (Patching(v, "swap") \/ Phase(v, "clean"))
      /\ UNCHANGED <<zdRoutes, zdUnits, zdCandidate, zdApply, zdLoaded, zdDisturbed, zdLeft>>
      /\ ZdShapes /\ ZdDeployOk(v)
  BY DEF HealthPoll, ZdStrong, zdHistory
<1>2. PICK task : task = zdTask'[v]
  OBVIOUS
<1>3. CASE Patching(v, "swap")
  <2>1. /\ zdTask' \in [ZdServices -> ZdTasks] /\ task.pc = "swap"
        /\ task.left \in Seq(ZdOf(v)) /\ task.left # <<>> /\ \A h \in ZdOf(v) : ZdIn(task.left, h)
        /\ \A w \in ZdServices : w # v => zdTask'[w] = zdTask[w]
    BY <1>1, <1>2, <1>3, ZdPatchingSet DEF ZdPhases
  <2>2. ZdShapes' /\ ZdOthersSame(v)
    BY <1>1, <2>1 DEF ZdShapes, ZdOthersSame
  <2>3. v \notin zdDisturbed => ZdLeads(v, task)
    BY <1>1, <2>1 DEF ZdDeployOk, ZdLeads
  <2>4. ZdDeployOk(v)'
    BY <1>1, <1>2, <2>1, <2>3, ZdMoved DEF ZdBeside, ZdDeployOk
  <2> QED
    BY <1>1, <2>2, <2>4, ZdOwn
<1>4. CASE Phase(v, "clean")
  <2>1. /\ zdTask' \in [ZdServices -> ZdTasks] /\ task.pc = "clean"
        /\ \A w \in ZdServices : w # v => zdTask'[w] = zdTask[w]
    BY <1>1, <1>2, <1>4, ZdPhaseSet DEF ZdPhases
  <2>2. ZdShapes' /\ ZdOthersSame(v)
    BY <1>1, <2>1 DEF ZdShapes, ZdOthersSame
  <2>3. v \notin zdDisturbed => ZdLeads(v, task)
    BY <1>1, <2>1 DEF ZdDeployOk, ZdLeads
  <2>4. ZdDeployOk(v)'
    BY <1>1, <1>2, <2>1, <2>3, ZdMoved DEF ZdBeside, ZdDeployOk
  <2> QED
    BY <1>1, <2>2, <2>4, ZdOwn
<1> QED
  BY <1>1, <1>3, <1>4

LEMMA CheckUnitKeeps ==
    ASSUME ZdStrong, NEW v \in ZdServices, CheckUnit(v) PROVE ZdStrong'
<1>1. /\ zdTask[v].pc = "check"
      /\ UNCHANGED <<zdRoutes, zdUnits, zdCandidate, zdApply, zdLoaded, zdDisturbed, zdLeft>>
      /\ ZdShapes /\ ZdDeployOk(v)
  BY DEF CheckUnit, ZdStrong, zdHistory
<1>2. Patching(v, "back")
  BY DEF CheckUnit, NextPhase
<1>3. PICK task : task = zdTask'[v]
  OBVIOUS
<1>4. /\ zdTask' \in [ZdServices -> ZdTasks] /\ task.pc = "back"
      /\ task.left \in Seq(ZdOf(v)) /\ task.left # <<>> /\ \A h \in ZdOf(v) : ZdIn(task.left, h)
      /\ \A w \in ZdServices : w # v => zdTask'[w] = zdTask[w]
  BY <1>1, <1>2, <1>3, ZdPatchingSet DEF ZdPhases
<1>5. ZdShapes' /\ ZdOthersSame(v)
  BY <1>1, <1>4 DEF ZdShapes, ZdOthersSame
<1>6. v \notin zdDisturbed => ZdLeads(v, task)
  BY <1>1, <1>4 DEF ZdDeployOk, ZdLeads
<1>7. ZdDeployOk(v)'
  BY <1>1, <1>3, <1>4, <1>6, ZdMoved DEF ZdBeside, ZdDeployOk
<1> QED
  BY <1>1, <1>5, <1>7, ZdOwn

\* A patch that fails leaves the routes, and its service disturbed.
LEMMA PatchFailsKeeps ==
    ASSUME ZdStrong, NEW v \in ZdServices, zdTask[v].pc \in {"swap", "back"}, PatchFails(v)
    PROVE  ZdStrong'
<1>1. /\ PatchDone(v) /\ zdDisturbed' = zdDisturbed \cup {v}
      /\ UNCHANGED <<zdRoutes, zdUnits, zdCandidate, zdApply, zdLoaded, zdLeft>>
      /\ ZdShapes /\ ZdDeployOk(v)
  BY DEF PatchFails, ZdStrong
<1>2. zdTask[v].left \in Seq(ZdOf(v)) /\ zdTask[v].left # <<>>
  BY <1>1 DEF ZdDeployOk
<1>3. PICK task : task = zdTask'[v]
  OBVIOUS
<1>4. /\ zdTask' \in [ZdServices -> ZdTasks]
      /\ \A w \in ZdServices : w # v => zdTask'[w] = zdTask[w]
      /\ \/ task.pc \in {"stop", "clean"}
         \/ task.pc \in {"swap", "back"} /\ task.left \in Seq(ZdOf(v)) /\ task.left # <<>>
  BY <1>1, <1>2, <1>3, ZdPatchSet
<1>5. ZdShapes' /\ ZdOthersSame(v)
  BY <1>1, <1>4 DEF ZdShapes, ZdOthersSame
<1>6. zdCandidate'[v] # None
  BY <1>1 DEF ZdDeployOk, ZdBeside
<1>7. v \in zdDisturbed'
  BY <1>1
<1>8. ZdDeployOk(v)'
  BY <1>1, <1>3, <1>4, <1>6, <1>7, ZdMoved
<1> QED
  BY <1>1, <1>5, <1>8, ZdOwn

LEMMA GetRoutesKeeps ==
    ASSUME ZdStrong, NEW v \in ZdServices, GetRoutes(v) PROVE ZdStrong'
<1>1. zdTask[v].pc \in {"swap", "back"}
  BY DEF GetRoutes
<1>2. CASE zdTask' = [zdTask EXCEPT ![v].seen = zdRoutes]
           /\ UNCHANGED <<zdRoutes, zdUnits, zdCandidate, zdApply, zdUsed, zdHistory>>
  <2>1. zdTask[v] \in ZdTasks /\ zdRoutes \in Seq(ZdRouteSet) /\ ZdShapes /\ ZdDeployOk(v)
    BY DEF ZdStrong, ZdShapes
  <2>2. PICK task : task = [zdTask[v] EXCEPT !.seen = zdRoutes]
    OBVIOUS
  <2>3. task \in ZdTasks /\ task.pc = zdTask[v].pc /\ task.left = zdTask[v].left
    BY <2>1, <2>2 DEF ZdTasks
  <2>4. zdTask' = [zdTask EXCEPT ![v] = task]
    BY <1>2, <2>1, <2>2 DEF ZdShapes
  <2>5. zdTask' \in [ZdServices -> ZdTasks] /\ zdTask'[v] = task
        /\ \A w \in ZdServices : w # v => zdTask'[w] = zdTask[w]
    BY <2>1, <2>3, <2>4 DEF ZdShapes
  <2>6. ZdShapes' /\ ZdOthersSame(v)
    BY <1>2, <2>1, <2>5 DEF ZdShapes, ZdOthersSame, zdHistory
  <2>7. v \notin zdDisturbed => ZdLeads(v, task)
    BY <2>1, <2>3 DEF ZdDeployOk, ZdLeads
  <2>8. UNCHANGED <<zdRoutes, zdUnits, zdCandidate, zdApply, zdLoaded, zdDisturbed, zdLeft>>
    BY <1>2 DEF zdHistory
  <2>9. ZdDeployOk(v)'
    BY <2>1, <2>3, <2>5, <2>7, <2>8, ZdMoved DEF ZdDeployOk
  <2> QED
    BY <2>6, <2>8, <2>9, ZdOwn
<1>3. CASE PatchFails(v)
  BY <1>1, <1>3, PatchFailsKeeps
<1> QED
  BY <1>2, <1>3 DEF GetRoutes

\* A route is put where it was when the list was read.
LEMMA ZdPutDone ==
    ASSUME ZdStrong, NEW v \in ZdServices, zdTask[v].pc \in {"swap", "back"},
           NEW h, h = Head(zdTask[v].left),
           NEW k \in DOMAIN zdRoutes, zdRoutes' \in PutAt(zdRoutes, k, [host |-> h, to |-> PatchTarget(v)]),
           PatchDone(v),
           IF Places(zdRoutes, h) = {} \/ FirstPlace(zdRoutes, h) # k
           THEN zdDisturbed' = ZdServices /\ zdLoaded' = {} ELSE UNCHANGED <<zdDisturbed, zdLoaded>>,
           UNCHANGED <<zdUnits, zdCandidate, zdApply, zdLeft>>
    PROVE  ZdStrong'
<1>1. ZdShapes /\ ZdDeployOk(v) /\ zdTask[v].left \in Seq(ZdOf(v)) /\ zdTask[v].left # <<>>
  BY DEF ZdStrong, ZdDeployOk
<1>2. PICK task : task = zdTask'[v]
  OBVIOUS
<1>3. /\ zdTask' \in [ZdServices -> ZdTasks] /\ h \in ZdOf(v)
      /\ \A w \in ZdServices : w # v => zdTask'[w] = zdTask[w]
      /\ \/ /\ task.pc = IF zdTask[v].pc = "swap" THEN "stop" ELSE "clean"
            /\ \A g : ZdIn(zdTask[v].left, g) => g = h
         \/ /\ task.pc = zdTask[v].pc
            /\ task.left \in Seq(ZdOf(v)) /\ task.left # <<>>
            /\ \A g : ZdIn(zdTask[v].left, g) => g = h \/ ZdIn(task.left, g)
  BY <1>1, <1>2, ZdPatchSet
<1>4. PICK target : target = PatchTarget(v)
  OBVIOUS
<1>5. PICK route : route = [host |-> h, to |-> target]
  OBVIOUS
<1>6. route \in ZdRouteSet /\ route.host = h /\ route.to = target /\ target \in {"unit", "candidate"}
      /\ target = IF zdTask[v].pc = "swap" THEN "candidate" ELSE "unit"
  BY <1>3, <1>4, <1>5 DEF ZdRouteSet, PatchTarget, ZdOf
<1>7. PICK new : new = zdRoutes'
  OBVIOUS
<1>8. new \in PutAt(zdRoutes, k, route) /\ zdRoutes \in Seq(ZdRouteSet) /\ k \in 1 .. Len(zdRoutes)
  BY <1>1, <1>4, <1>5, <1>7 DEF ZdShapes
<1>9. /\ new \in Seq(ZdRouteSet)
      /\ Places(zdRoutes, h) # {} /\ FirstPlace(zdRoutes, h) = k =>
           ZdUp(new, h) = target /\ \A g : g # h => ZdUp(new, g) = ZdUp(zdRoutes, g)
  BY <1>6, <1>8, ZdPut
<1>10. ZdShapes'
  BY <1>1, <1>3, <1>7, <1>9 DEF ZdShapes
<1>11. zdCandidate'[v] # None /\ (task.pc \in {"swap", "back"} => task.left \in Seq(ZdOf(v)) /\ task.left # <<>>)
       /\ task.pc \notin {"off", "run"}
  BY <1>1, <1>3 DEF ZdDeployOk, ZdBeside
<1>12. CASE Places(zdRoutes, h) = {} \/ FirstPlace(zdRoutes, h) # k
  <2>1. zdDisturbed' = ZdServices /\ zdLoaded' = {}
    BY <1>12
  <2>2. ZdApplyOk' /\ NoRouteLost'
    BY <2>1 DEF ZdStrong, ZdApplyOk, NoRouteLost
  <2>3. ZdDeployOk(v)'
    BY <1>2, <1>11, <2>1 DEF ZdDeployOk
  <2>4. ASSUME NEW w \in ZdServices, w # v PROVE ZdDeployOk(w)'
    <3>1. ZdDeployOk(w)
      BY DEF ZdStrong
    <3> QED
      BY <1>3, <2>1, <2>4, <3>1, ZdSame
  <2> QED
    BY <1>10, <2>2, <2>3, <2>4 DEF ZdStrong
<1>13. CASE ~(Places(zdRoutes, h) = {} \/ FirstPlace(zdRoutes, h) # k)
  <2>1. UNCHANGED <<zdDisturbed, zdLoaded>>
    BY <1>13
  <2>2. Upstream(h)' = target /\ \A g : g # h => Upstream(g)' = Upstream(g)
    <3>1. \A g : Upstream(g)' = ZdUp(new, g)
      BY <1>7 DEF Upstream, ZdUp
    <3> QED
      BY <1>9, <1>13, <3>1, ZdUpstream
  <2>3. ZdApplyOk'
    BY <2>1 DEF ZdStrong, ZdApplyOk
  <2>4. NoRouteLost'
    BY <1>6, <2>1, <2>2, ZdNones DEF ZdStrong, NoRouteLost
  <2>5. ASSUME NEW w \in ZdServices, w # v PROVE ZdDeployOk(w)'
    <3>1. ZdDeployOk(w) /\ \A g \in ZdOf(w) : g # h
      BY <1>3, <2>5 DEF ZdStrong, ZdOf
    <3> QED
      BY <1>3, <2>1, <2>2, <2>5, <3>1, ZdSame
  <2>6. ASSUME v \notin zdDisturbed PROVE ZdLeads(v, task)'
    <3>1. ZdLeads(v, zdTask[v])
      BY <1>1, <2>6 DEF ZdDeployOk
    <3>2. \A g \in ZdOf(v) : Upstream(g)' \in {"unit", "candidate"}
      BY <1>6, <2>2, <3>1 DEF ZdLeads
    <3>3. ASSUME NEW g \in ZdOf(v), g = h \/ ~ZdIn(zdTask[v].left, g) PROVE Upstream(g)' = target
      <4>1. CASE g = h
        BY <2>2, <4>1
      <4>2. CASE g # h
        BY <1>6, <2>2, <3>1, <3>3, <4>2 DEF ZdLeads
      <4> QED
        BY <4>1, <4>2
    <3>4. CASE task.pc = (IF zdTask[v].pc = "swap" THEN "stop" ELSE "clean")
               /\ \A g : ZdIn(zdTask[v].left, g) => g = h
      <4>1. \A g \in ZdOf(v) : Upstream(g)' = target
        BY <3>3, <3>4
      <4> QED
        BY <1>6, <3>2, <3>4, <4>1 DEF ZdLeads
    <3>5. CASE task.pc = zdTask[v].pc
               /\ \A g : ZdIn(zdTask[v].left, g) => g = h \/ ZdIn(task.left, g)
      <4>1. \A g \in ZdOf(v) : ~ZdIn(task.left, g) => Upstream(g)' = target
        BY <3>3, <3>5
      <4> QED
        BY <1>6, <3>2, <3>5, <4>1 DEF ZdLeads
    <3> QED
      BY <1>3, <3>4, <3>5
  <2>7. ZdDeployOk(v)'
    <3>1. ZdLeads(v, zdTask[v])' <=> ZdLeads(v, task)'
      BY <1>2 DEF ZdLeads
    <3>2. v \notin zdDisturbed => zdCandidate'[v] = "up" /\ v \in zdUnits'
      BY <1>1 DEF ZdDeployOk, ZdBeside
    <3>3. (v \in zdDisturbed') = (v \in zdDisturbed)
      BY <2>1
    <3> QED
      BY <1>2, <1>11, <2>6, <3>1, <3>2, <3>3 DEF ZdDeployOk
  <2> QED
    BY <1>10, <2>3, <2>4, <2>5, <2>7 DEF ZdStrong
<1> QED
  BY <1>12, <1>13

LEMMA PutRouteKeeps ==
    ASSUME ZdStrong, NEW v \in ZdServices, PutRoute(v) PROVE ZdStrong'
<1>1. zdTask[v].pc \in {"swap", "back"}
  BY DEF PutRoute
<1>2. CASE PatchFails(v)
  BY <1>1, <1>2, PatchFailsKeeps
<1>3. CASE ~PatchFails(v)
  <2>1. PICK h, k : h = Head(zdTask[v].left) /\ k = FirstPlace(zdTask[v].seen, h)
    OBVIOUS
  <2>2. /\ k \in DOMAIN zdRoutes
        /\ zdRoutes' \in PutAt(zdRoutes, k, [host |-> h, to |-> PatchTarget(v)])
        /\ PatchDone(v) /\ UNCHANGED <<zdUnits, zdCandidate, zdApply, zdLeft>>
        /\ IF Places(zdRoutes, h) = {} \/ FirstPlace(zdRoutes, h) # k
           THEN zdDisturbed' = ZdServices /\ zdLoaded' = {} ELSE UNCHANGED <<zdDisturbed, zdLoaded>>
    BY <1>3, <2>1 DEF PutRoute
  <2> QED
    BY <1>1, <2>1, <2>2, ZdPutDone
<1> QED
  BY <1>2, <1>3

\* An exception leaves the service disturbed, and its candidate to be removed.
LEMMA ZdRaisesKeeps ==
    ASSUME ZdStrong, NEW v \in ZdServices, Raises(v), zdUnits' \in {zdUnits, zdUnits \ {v}}
    PROVE  ZdStrong'
<1>1. /\ Phase(v, "clean") /\ zdDisturbed' = zdDisturbed \cup {v}
      /\ UNCHANGED <<zdRoutes, zdCandidate, zdApply, zdLoaded, zdLeft>> /\ ZdShapes
  BY DEF Raises, ZdStrong
<1>2. /\ zdTask' \in [ZdServices -> ZdTasks] /\ zdTask'[v].pc = "clean"
      /\ \A w \in ZdServices : w # v => zdTask'[w] = zdTask[w]
  BY <1>1, ZdPhaseSet DEF ZdPhases
<1>3. ZdShapes' /\ ZdOthersSame(v)
  BY <1>1, <1>2 DEF ZdShapes, ZdOthersSame
<1>4. PICK task : task = zdTask'[v]
  OBVIOUS
<1>5. v \in zdDisturbed'
  BY <1>1
<1>6. ZdDeployOk(v)'
  BY <1>1, <1>2, <1>4, <1>5, ZdMoved DEF ZdBeside
<1> QED
  BY <1>1, <1>3, <1>6, ZdOwn

LEMMA ZdStopUnitKeeps ==
    ASSUME ZdStrong, NEW v \in ZdServices, ZdStopUnit(v) PROVE ZdStrong'
<1>1. CASE Raises(v) /\ zdUnits' \in {zdUnits, zdUnits \ {v}}
  BY <1>1, ZdRaisesKeeps
<1>2. CASE Phase(v, "start") /\ zdUnits' = zdUnits \ {v}
           /\ UNCHANGED <<zdRoutes, zdCandidate, zdApply, zdUsed, zdHistory>>
  <2>1. zdTask[v].pc = "stop" /\ ZdShapes /\ ZdDeployOk(v)
        /\ UNCHANGED <<zdRoutes, zdCandidate, zdApply, zdLoaded, zdDisturbed, zdLeft>>
    BY <1>2 DEF ZdStopUnit, ZdStrong, zdHistory
  <2>2. /\ zdTask' \in [ZdServices -> ZdTasks] /\ zdTask'[v].pc = "start"
        /\ \A w \in ZdServices : w # v => zdTask'[w] = zdTask[w]
    BY <1>2, <2>1, ZdPhaseSet DEF ZdPhases
  <2>3. ZdShapes' /\ ZdOthersSame(v)
    BY <1>2, <2>1, <2>2 DEF ZdShapes, ZdOthersSame
  <2>4. PICK task : task = zdTask'[v]
    OBVIOUS
  <2>5. v \notin zdDisturbed => ZdLeads(v, task)
    BY <2>1, <2>2, <2>4 DEF ZdDeployOk, ZdLeads
  <2>6. ZdDeployOk(v)'
    BY <2>1, <2>2, <2>4, <2>5, ZdMoved DEF ZdBeside, ZdDeployOk
  <2> QED
    BY <2>1, <2>3, <2>6, ZdOwn
<1> QED
  BY <1>1, <1>2 DEF ZdStopUnit

LEMMA ZdStartUnitKeeps ==
    ASSUME ZdStrong, NEW v \in ZdServices, ZdStartUnit(v) PROVE ZdStrong'
<1>1. CASE Raises(v) /\ UNCHANGED zdUnits
  BY <1>1, ZdRaisesKeeps
<1>2. CASE Phase(v, "check") /\ zdUnits' = zdUnits \cup {v}
           /\ UNCHANGED <<zdRoutes, zdCandidate, zdApply, zdUsed, zdHistory>>
  <2>1. zdTask[v].pc = "start" /\ ZdShapes /\ ZdDeployOk(v)
        /\ UNCHANGED <<zdRoutes, zdCandidate, zdApply, zdLoaded, zdDisturbed, zdLeft>>
    BY <1>2 DEF ZdStartUnit, ZdStrong, zdHistory
  <2>2. /\ zdTask' \in [ZdServices -> ZdTasks] /\ zdTask'[v].pc = "check"
        /\ \A w \in ZdServices : w # v => zdTask'[w] = zdTask[w]
    BY <1>2, <2>1, ZdPhaseSet DEF ZdPhases
  <2>3. ZdShapes' /\ ZdOthersSame(v)
    BY <1>2, <2>1, <2>2 DEF ZdShapes, ZdOthersSame
  <2>4. PICK task : task = zdTask'[v]
    OBVIOUS
  <2>5. v \notin zdDisturbed => ZdLeads(v, task)
    BY <2>1, <2>2, <2>4 DEF ZdDeployOk, ZdLeads
  <2>6. ZdDeployOk(v)'
    BY <1>2, <2>1, <2>2, <2>4, <2>5, ZdMoved DEF ZdBeside, ZdDeployOk
  <2> QED
    BY <2>1, <2>3, <2>6, ZdOwn
<1> QED
  BY <1>1, <1>2 DEF ZdStartUnit

-----------------------------------------------------------------------------
(* Deploys: what happens meanwhile, and the theorem.                       *)

LEMMA CandidateExitsKeeps ==
    ASSUME ZdStrong, NEW v \in ZdServices, CandidateExits(v) PROVE ZdStrong'
<1>1. /\ zdCandidate[v] = "up" /\ zdCandidate' = [zdCandidate EXCEPT ![v] = "exited"]
      /\ zdDisturbed' = zdDisturbed \cup {v}
      /\ UNCHANGED <<zdRoutes, zdUnits, zdTask, zdApply, zdLoaded, zdLeft>> /\ ZdShapes /\ ZdDeployOk(v)
  BY DEF CandidateExits, ZdStrong
<1>2. ZdShapes' /\ ZdOthersSame(v) /\ zdCandidate'[v] = "exited"
  BY <1>1 DEF ZdShapes, ZdOthersSame
<1>3. PICK task : task = zdTask'[v]
  OBVIOUS
<1>4. v \in zdDisturbed' /\ task = zdTask[v]
  BY <1>1, <1>3
<1>5. task.pc \in {"off", "run"} => v \in zdLeft'
  BY <1>1, <1>4, ZdNones DEF ZdDeployOk
<1>6. ZdDeployOk(v)'
  BY <1>1, <1>2, <1>3, <1>4, <1>5, ZdMoved, ZdNones DEF ZdDeployOk
<1> QED
  BY <1>1, <1>2, <1>6, ZdOwn

LEMMA UnitHealsKeeps ==
    ASSUME ZdStrong, NEW v \in ZdServices, UnitHeals(v) PROVE ZdStrong'
<1>1. /\ zdUnits' = zdUnits \cup {v} /\ ZdShapes /\ ZdDeployOk(v)
      /\ UNCHANGED <<zdRoutes, zdCandidate, zdTask, zdApply, zdLoaded, zdDisturbed, zdLeft>>
  BY DEF UnitHeals, ZdStrong, zdHistory
<1>2. ZdShapes' /\ ZdOthersSame(v)
  BY <1>1 DEF ZdShapes, ZdOthersSame
<1>3. \A h : Upstream(h)' = Upstream(h)
  BY <1>1 DEF Upstream
<1>4. ZdDeployOk(v)'
  BY <1>1, <1>3, ZdSame
<1> QED
  BY <1>1, <1>2, <1>4, ZdOwn

LEMMA ApplyBeginsKeeps == ASSUME ZdStrong, ApplyBegins PROVE ZdStrong'
<1>1. PICK gone \in SUBSET {h \in DOMAIN ZdServiceOf : ZdServiceOf[h] = None} :
         zdApply' = [hosts |-> (DOMAIN ZdServiceOf) \ gone, previous |-> zdRoutes]
  BY DEF ApplyBegins
<1>2. UNCHANGED <<zdRoutes, zdUnits, zdCandidate, zdTask, zdLoaded, zdDisturbed, zdLeft>> /\ ZdShapes
  BY DEF ApplyBegins, ZdStrong, zdHistory
<1>3. PICK apply : apply = [hosts |-> (DOMAIN ZdServiceOf) \ gone, previous |-> zdRoutes]
  OBVIOUS
<1>4. apply \in ZdApplies /\ apply.hosts = ZdDomains \ gone /\ apply.previous = zdRoutes
  BY <1>2, <1>3 DEF ZdApplies, ZdDomains, ZdShapes
<1>5. \A h \in ZdDomains : ZdServiceOf[h] # None => h \in apply.hosts
  BY <1>1, <1>4 DEF ZdDomains
<1>6. \A h \in zdLoaded : Places(zdRoutes, h) # {}
  BY DEF ZdStrong, NoRouteLost, Upstream
<1>7. zdApply' = apply
  BY <1>1, <1>3
<1>8. ZdApplyOk'
  BY <1>2, <1>4, <1>5, <1>6, <1>7 DEF ZdApplyOk
<1>9. ZdShapes'
  BY <1>2 DEF ZdShapes
<1>10. NoRouteLost'
  BY <1>2 DEF ZdStrong, NoRouteLost, Upstream
<1>11. \A h : Upstream(h)' = Upstream(h)
  BY <1>2 DEF Upstream
<1>12. ASSUME NEW v \in ZdServices PROVE ZdDeployOk(v)'
  BY <1>2, <1>11, ZdSame DEF ZdStrong
<1> QED
  BY <1>8, <1>9, <1>10, <1>12 DEF ZdStrong

LEMMA ApplyLoadsKeeps == ASSUME ZdStrong, ApplyLoads PROVE ZdStrong'
<1>1. /\ zdApply # None /\ zdRoutes' = BuiltRoutes(zdApply.hosts) /\ zdLoaded' = zdApply.hosts
      /\ zdDisturbed' = {v \in ZdServices : \/ v \notin zdUnits
                                            \/ zdTask[v].pc \in {"swap", "stop", "start"}
                                            \/ v \in Deploying \cap Exited}
      /\ zdApply' = None /\ UNCHANGED <<zdUnits, zdCandidate, zdTask, zdLeft>>
  BY DEF ApplyLoads
<1>2. /\ ZdShapes /\ zdApply.hosts \in SUBSET ZdDomains
      /\ \A h \in ZdDomains : ZdServiceOf[h] # None => h \in zdApply.hosts
  BY <1>1 DEF ZdStrong, ZdApplyOk, ZdApplies
<1>3. PICK hosts \in SUBSET ZdDomains : hosts = zdApply.hosts
  BY <1>2
<1>4. /\ BuiltRoutes(hosts) \in Seq(ZdRouteSet)
      /\ \A h \in hosts : ZdUp(BuiltRoutes(hosts), h) = "unit"
  BY ZdBuilt
<1>5. \A h \in hosts : Upstream(h)' = "unit"
  <2>1. PICK new : new = zdRoutes'
    OBVIOUS
  <2>2. \A h : Upstream(h)' = ZdUp(new, h)
    BY <2>1 DEF Upstream, ZdUp
  <2> QED
    BY <1>1, <1>3, <1>4, <2>1, <2>2
<1>6. ZdShapes'
  BY <1>1, <1>2, <1>3, <1>4 DEF ZdShapes
<1>7. ZdApplyOk' /\ NoRouteLost'
  BY <1>1, <1>3, <1>5, ZdNones DEF ZdApplyOk, NoRouteLost
<1>8. ASSUME NEW v \in ZdServices PROVE ZdDeployOk(v)'
  <2>1. ZdDeployOk(v) /\ zdTask'[v] = zdTask[v] /\ zdCandidate'[v] = zdCandidate[v]
    BY <1>1 DEF ZdStrong
  <2>2. PICK task : task = zdTask'[v]
    OBVIOUS
  <2>3. \A h \in ZdOf(v) : Upstream(h)' = "unit"
    BY <1>2, <1>3, <1>5 DEF ZdOf, ZdServices
  <2>4. ASSUME v \notin zdDisturbed'
        PROVE  /\ v \in zdUnits' /\ ZdLeads(v, task)'
               /\ task.pc \in ZdBeside => zdCandidate'[v] = "up"
    <3>1. v \in zdUnits /\ task.pc \notin {"swap", "stop", "start"} /\ v \notin Deploying \cap Exited
      BY <1>1, <2>1, <2>2, <2>4
    <3>2. ZdLeads(v, task)'
      BY <2>3, <3>1 DEF ZdLeads
    <3>3. task.pc \in ZdBeside => zdCandidate[v] # None /\ zdCandidate[v] # "exited"
      BY <2>1, <2>2, <3>1 DEF ZdDeployOk, Deploying, Exited, ZdBeside
    <3>4. zdCandidate[v] \in {"up", "exited", None}
      BY <1>2 DEF ZdShapes
    <3> QED
      BY <1>1, <2>1, <3>1, <3>2, <3>3, <3>4
  <2>5. ZdLeads(v, zdTask[v])' <=> ZdLeads(v, task)'
    BY <2>2 DEF ZdLeads
  <2> QED
    BY <1>1, <2>1, <2>2, <2>4, <2>5 DEF ZdDeployOk
<1> QED
  BY <1>6, <1>7, <1>8 DEF ZdStrong

LEMMA ApplyRestoresKeeps == ASSUME ZdStrong, ApplyRestores PROVE ZdStrong'
<1>1. /\ zdApply # None /\ zdRoutes' = zdApply.previous
      /\ zdDisturbed' = IF zdRoutes = zdApply.previous THEN zdDisturbed ELSE ZdServices
      /\ zdApply' = None /\ UNCHANGED <<zdUnits, zdCandidate, zdTask, zdLoaded, zdLeft>>
  BY DEF ApplyRestores
<1>2. /\ ZdShapes /\ zdApply.previous \in Seq(ZdRouteSet)
      /\ \A h \in zdLoaded : Places(zdApply.previous, h) # {}
  BY <1>1 DEF ZdStrong, ZdApplyOk, ZdApplies
<1>3. ZdShapes'
  BY <1>1, <1>2 DEF ZdShapes
<1>4. ZdApplyOk' /\ NoRouteLost'
  <2>1. PICK new : new = zdRoutes'
    OBVIOUS
  <2>2. \A h : Upstream(h)' = ZdUp(new, h)
    BY <2>1 DEF Upstream, ZdUp
  <2>3. new \in Seq(ZdRouteSet) /\ \A h \in zdLoaded : Places(new, h) # {}
    BY <1>1, <1>2, <2>1
  <2>4. \A h \in zdLoaded : ZdUp(new, h) # None
    BY <2>3, ZdUpTyped
  <2> QED
    BY <1>1, <2>2, <2>4 DEF ZdApplyOk, NoRouteLost
<1>5. ASSUME NEW v \in ZdServices PROVE ZdDeployOk(v)'
  <2>1. v \notin zdDisturbed' => v \notin zdDisturbed /\ \A h \in ZdOf(v) : Upstream(h)' = Upstream(h)
    BY <1>1 DEF Upstream
  <2> QED
    BY <1>1, <2>1, ZdSame DEF ZdStrong
<1> QED
  BY <1>3, <1>4, <1>5 DEF ZdStrong

LEMMA ZdCrashKeeps == ASSUME ZdStrong, ZdCrash PROVE ZdStrong'
<1>1. /\ zdTask' = [v \in ZdServices |-> ZdOff] /\ zdApply' = None
      /\ zdDisturbed' = zdDisturbed \cup Deploying /\ zdLeft' = zdLeft \cup Deploying
      /\ UNCHANGED <<zdRoutes, zdUnits, zdCandidate, zdLoaded>> /\ ZdShapes
  BY DEF ZdCrash, ZdStrong
<1>2. PICK off : off = ZdOff
  OBVIOUS
<1>3. off \in ZdTasks /\ off.pc = "off"
  <2>1. off = [pc |-> "off", left |-> <<>>, seen |-> None] /\ <<>> \in Seq(ZdDomains)
    BY <1>2 DEF ZdOff
  <2> QED
    BY <2>1 DEF ZdTasks, ZdPhases
<1>4. zdTask' \in [ZdServices -> ZdTasks] /\ \A v \in ZdServices : zdTask'[v] = off
  BY <1>1, <1>2, <1>3
<1>5. ZdShapes'
  BY <1>1, <1>4 DEF ZdShapes, Deploying
<1>6. ZdApplyOk' /\ NoRouteLost'
  BY <1>1 DEF ZdStrong, ZdApplyOk, NoRouteLost, Upstream
<1>7. ASSUME NEW v \in ZdServices PROVE ZdDeployOk(v)'
  <2>1. ZdDeployOk(v) /\ zdTask'[v] = off
    BY <1>4 DEF ZdStrong
  <2>2. CASE zdTask[v].pc = "off"
    <3>1. v \notin zdDisturbed => ZdLeads(v, off)
      BY <1>3, <2>1, <2>2 DEF ZdDeployOk, ZdLeads
    <3> QED
      BY <1>1, <1>3, <2>1, <2>2, <3>1, ZdMoved DEF ZdDeployOk, ZdBeside
  <2>3. CASE zdTask[v].pc # "off"
    <3>1. v \in zdDisturbed' /\ v \in zdLeft'
      BY <1>1, <2>3 DEF Deploying
    <3> QED
      BY <1>1, <1>3, <2>1, <3>1, ZdMoved DEF ZdBeside
  <2> QED
    BY <2>2, <2>3
<1> QED
  BY <1>5, <1>6, <1>7 DEF ZdStrong

LEMMA ZdInitStrong == ZdInit => ZdStrong
<1> SUFFICES ASSUME ZdInit PROVE ZdStrong
  OBVIOUS
<1>1. /\ zdRoutes = BuiltRoutes(ZdDomains) /\ zdUnits = ZdServices
      /\ zdCandidate = [v \in ZdServices |-> None] /\ zdTask = [v \in ZdServices |-> ZdOff]
      /\ zdApply = None /\ zdLoaded = ZdDomains /\ zdDisturbed = {} /\ zdLeft = {}
  BY DEF ZdInit, ZdDomains
<1>2. PICK off : off = ZdOff
  OBVIOUS
<1>3. off \in ZdTasks /\ off.pc = "off"
  <2>1. off = [pc |-> "off", left |-> <<>>, seen |-> None] /\ <<>> \in Seq(ZdDomains)
    BY <1>2 DEF ZdOff
  <2> QED
    BY <2>1 DEF ZdTasks, ZdPhases
<1>4. zdTask \in [ZdServices -> ZdTasks] /\ \A v \in ZdServices : zdTask[v] = off
  BY <1>1, <1>2, <1>3
<1>5. zdRoutes \in Seq(ZdRouteSet) /\ \A h \in ZdDomains : Upstream(h) = "unit"
  BY <1>1, ZdBuilt, ZdUpstream
<1>6. ZdShapes
  BY <1>1, <1>4, <1>5 DEF ZdShapes
<1>7. ZdApplyOk /\ NoRouteLost
  BY <1>1, <1>5, ZdNones DEF ZdApplyOk, NoRouteLost
<1>8. ASSUME NEW v \in ZdServices PROVE ZdDeployOk(v)
  <2>1. ZdLeads(v, off)
    BY <1>3, <1>5 DEF ZdLeads, ZdOf
  <2> QED
    BY <1>1, <1>3, <1>4, <2>1 DEF ZdDeployOk, ZdBeside
<1> QED
  BY <1>6, <1>7, <1>8 DEF ZdStrong

LEMMA ZdNextStrong == ZdStrong /\ [ZdNext]_zdVars => ZdStrong'
<1> SUFFICES ASSUME ZdStrong, [ZdNext]_zdVars PROVE ZdStrong'
  OBVIOUS
<1>1. CASE UNCHANGED zdVars
  <2>1. UNCHANGED <<zdRoutes, zdUnits, zdCandidate, zdTask, zdApply, zdLoaded, zdDisturbed, zdLeft>>
    BY <1>1 DEF zdVars, zdHistory
  <2>2. ZdShapes' /\ ZdApplyOk' /\ NoRouteLost'
    BY <2>1 DEF ZdStrong, ZdShapes, ZdApplyOk, NoRouteLost, Upstream
  <2>3. \A h : Upstream(h)' = Upstream(h)
    BY <2>1 DEF Upstream
  <2>4. ASSUME NEW v \in ZdServices PROVE ZdDeployOk(v)'
    BY <2>1, <2>3, ZdSame DEF ZdStrong
  <2> QED
    BY <2>2, <2>4 DEF ZdStrong
<1>2. ASSUME NEW v \in ZdServices,
             \/ ZdBegin(v) \/ StartCandidate(v) \/ NameTaken(v) \/ HealthPoll(v)
             \/ GetRoutes(v) \/ PutRoute(v) \/ ZdStopUnit(v) \/ ZdStartUnit(v) \/ CheckUnit(v)
             \/ ZdClean(v) \/ CandidateExits(v) \/ UnitHeals(v)
      PROVE  ZdStrong'
  BY <1>2, ZdBeginKeeps, StartCandidateKeeps, NameTakenKeeps, HealthPollKeeps, GetRoutesKeeps,
     PutRouteKeeps, ZdStopUnitKeeps, ZdStartUnitKeeps, CheckUnitKeeps, ZdCleanKeeps,
     CandidateExitsKeeps, UnitHealsKeeps
<1>3. CASE ApplyBegins \/ ApplyLoads \/ ApplyRestores \/ ZdCrash
  BY <1>3, ApplyBeginsKeeps, ApplyLoadsKeeps, ApplyRestoresKeeps, ZdCrashKeeps
<1> QED
  BY <1>1, <1>2, <1>3 DEF ZdNext

LEMMA ZdStrongImplies == ZdStrong => ZdTypeOK /\ DeploysSound
<1> SUFFICES ASSUME ZdStrong PROVE ZdTypeOK /\ DeploysSound
  OBVIOUS
<1>1. ZdShapes /\ NoRouteLost /\ \A v \in ZdServices : ZdDeployOk(v)
  BY DEF ZdStrong
<1>2. ZdTypeOK
  <2>1. \A v \in ZdServices : zdTask[v].pc \in ZdPhases
    BY <1>1 DEF ZdShapes, ZdTasks
  <2>2. \A k \in DOMAIN zdRoutes : zdRoutes[k].host \in DOMAIN ZdServiceOf
                                   /\ zdRoutes[k].to \in {"unit", "candidate"}
    <3> TAKE k \in DOMAIN zdRoutes
    <3>1. zdRoutes \in Seq(ZdRouteSet)
      BY <1>1 DEF ZdShapes
    <3>2. zdRoutes[k] \in ZdRouteSet
      BY <3>1
    <3> QED
      BY <3>2 DEF ZdRouteSet, ZdDomains
  <2> QED
    BY <1>1, <2>1, <2>2 DEF ZdTypeOK, ZdShapes, ZdDomains
<1>3. ASSUME NEW h \in DOMAIN ZdServiceOf, ZdServiceOf[h] \in ZdServices \ zdDisturbed
      PROVE  Running(ZdServiceOf[h], Upstream(h))
  <2>1. PICK v \in ZdServices : v = ZdServiceOf[h] /\ v \notin zdDisturbed
    BY <1>3
  <2>2. h \in ZdOf(v) /\ ZdDeployOk(v)
    BY <1>1, <2>1 DEF ZdOf, ZdDomains
  <2>3. ZdLeads(v, zdTask[v]) /\ zdTask[v].pc \in ZdPhases
    BY <1>1, <2>1, <2>2 DEF ZdDeployOk, ZdShapes, ZdTasks
  <2>4. CASE Upstream(h) = "unit"
    BY <2>1, <2>2, <2>3, <2>4 DEF ZdDeployOk, ZdLeads, Running
  <2>5. CASE Upstream(h) = "candidate"
    <3>1. zdTask[v].pc \in ZdBeside
      BY <2>2, <2>3, <2>5 DEF ZdLeads, ZdBeside, ZdPhases
    <3> QED
      BY <2>1, <2>2, <2>5, <3>1 DEF ZdDeployOk, Running
  <2> QED
    BY <2>2, <2>3, <2>4, <2>5 DEF ZdLeads
<1>4. NoCandidateLeft
  BY <1>1 DEF NoCandidateLeft, ZdDeployOk
<1> QED
  BY <1>1, <1>2, <1>3, <1>4 DEF DeploysSound, AlwaysServed

\* Deploys: the routes of a service lead to a container that runs at every
\* moment of a deploy that nothing interfered with, no deploy takes the route of
\* another domain away, and no candidate outlives its deploy.
THEOREM DeploysStaySound == ZdSpec => []DeploysSound
<1>1. ZdStrong => DeploysSound
  BY ZdStrongImplies
<1> QED
  BY <1>1, ZdInitStrong, ZdNextStrong, PTL DEF ZdSpec

================================================================================
