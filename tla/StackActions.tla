----------------------------- MODULE StackActions -----------------------------
(***************************************************************************)
(* The day-2 actions of WordPress beside the reconciler.  A handler loads  *)
(* the row of the stack, commits an operation, and then either talks to    *)
(* WordPress through a container of its own, for up to ten minutes, or     *)
(* changes the desired state itself and bumps the generation it loaded.    *)
(* Whether the reconciler is woken is decided from the loaded row, too.    *)
(***************************************************************************)
EXTENDS PanelBase

CONSTANTS
    SaPhp,       \* versions of PHP
    SaMaxOps,    \* bound: requests
    SaMaxFaults  \* bound: commands and cycles that fail, restarts

ASSUME SaAssumption ==
    /\ SaPhp # {} /\ None \notin SaPhp
    /\ SaMaxOps \in Nat /\ SaMaxFaults \in Nat

VARIABLES
    saRow,      \* the row of the stack, or None
    saHost,     \* what its containers have been started from, or None
    saWp,       \* WordPress: request that set the password, what has been updated
    saAct,      \* saAct[i]: the handler of request i
    saOp,       \* saOp[i]: status of its operation, or None
    saWoken,    \* the reconciler has been woken
    saCycle,    \* what the cycle under way has loaded: a definition, None for removal
    saFaults,   \* faults so far
    saRaced,    \* history: installations that could not know of another
    saLost,     \* history: a generation that was there already has been written
    saWaits     \* history: the last cycle failed, the next one is waited for

saHistory == <<saRaced, saLost, saWaits>>
saVars == <<saRow, saHost, saWp, saAct, saOp, saWoken, saCycle, saFaults,
            saRaced, saLost, saWaits>>

SaRequests == 1 .. SaMaxOps
SaOff == [kind |-> None, pc |-> "off", row |-> None, php |-> None, ok |-> FALSE]
SaIdle == <<>>   \* no cycle
SaDefinition == [salts : 0 .. SaMaxOps, php : SaPhp]

\* Python's None is no row, no definition, no cycle and no name of an action or
\* of a status.
ASSUME SaNoneAssumption ==
    /\ None \notin [gen : 1 .. 1 + SaMaxOps, observed : 1 .. 1 + SaMaxOps,
                    status : {"ready", "degraded", "deleting"}, definition : SaDefinition]
    /\ None \notin SaDefinition /\ None # SaIdle
    /\ None \notin {"install", "update", "salts", "php", "delete", "running", "succeeded"}

SaTypeOK ==
    /\ saRow # None => /\ saRow.gen \in 1 .. 1 + SaMaxOps /\ saRow.observed \in 1 .. 1 + SaMaxOps
                       /\ saRow.status \in {"ready", "degraded", "deleting"}
                       /\ saRow.definition \in SaDefinition
    /\ saHost \in SaDefinition \cup {None}
    /\ saWp.password \in 0 .. SaMaxOps
    /\ \A i \in SaRequests :
         /\ saAct[i].pc \in {"off", "ask", "install", "files", "migrate", "write", "answer"}
         /\ saOp[i] \in {None, "running", "succeeded", "failed"}
    /\ saRaced \subseteq SaRequests
    /\ saCycle \in SaDefinition \cup {None, SaIdle}

-----------------------------------------------------------------------------
SaFault == saFaults < SaMaxFaults /\ saFaults' = saFaults + 1
SaEnded(act) == [act EXCEPT !.pc = "off", !.row = None, !.php = None, !.ok = FALSE]
SaGoto(i, pc) == saAct' = [saAct EXCEPT ![i].pc = pc]
SaResult(i, ok) == saAct' = [saAct EXCEPT ![i].pc = "answer", ![i].ok = ok]

\* Mutation: installation does not ask first.
UncheckedFirst(kind) ==
    CASE kind = "install" -> "install" [] kind = "update" -> "files" [] OTHER -> "write"

\* What the handler of an action does first.
FirstStep(kind) ==
    CASE kind = "install" -> "ask" [] kind = "update" -> "files" [] OTHER -> "write"

SaActions == {"install", "update", "salts", "php"}

\* run_stack_action() has found its stack and committed the operation; the
\* handler that deletes the stack works the same way.
BeginAction(i, kind, php) ==
    /\ saAct[i].kind = None /\ \A h \in 1 .. i - 1 : saAct[h].kind # None
    /\ saRow # None /\ saRow.status # "deleting"
    /\ saAct' = [saAct EXCEPT ![i] = [kind |-> kind, pc |-> FirstStep(kind), row |-> saRow,
                                      php |-> php, ok |-> FALSE]]
    /\ saOp' = [saOp EXCEPT ![i] = IF kind \in SaActions THEN "running" ELSE None]
    /\ UNCHANGED <<saRow, saHost, saWp, saWoken, saCycle, saFaults, saHistory>>

-----------------------------------------------------------------------------
(* Commands in a container of their own: _wp_cli().                        *)

Installing == {i \in SaRequests : saAct[i].pc = "install"}

\* _is_installed()
AskInstalled(i) ==
    /\ saAct[i].pc = "ask" /\ saHost # None
    /\ IF saWp.password # 0 THEN SaResult(i, FALSE) /\ UNCHANGED saRaced
       ELSE /\ SaGoto(i, "install")
            /\ saRaced' = IF Installing # {} THEN saRaced \cup Installing \cup {i} ELSE saRaced
    /\ UNCHANGED <<saRow, saHost, saWp, saOp, saWoken, saCycle, saFaults,
                   saLost, saWaits>>

\* Any other exit code than 0 is taken for a no.
AskFails(i) ==
    /\ saAct[i].pc = "ask"
    /\ (saHost = None /\ UNCHANGED saFaults) \/ SaFault
    /\ SaGoto(i, "install")
    /\ saRaced' = saRaced \cup Installing \cup {i}
    /\ UNCHANGED <<saRow, saHost, saWp, saOp, saWoken, saCycle, saLost, saWaits>>

\* wp core install leaves a WordPress that is there as it is, and succeeds.
Installed(i) == [saWp EXCEPT !.password = IF @ = 0 THEN i ELSE @]
RunInstall(i) ==
    /\ saAct[i].pc = "install" /\ saHost # None
    /\ saWp' = Installed(i)
    /\ SaResult(i, TRUE)
    /\ UNCHANGED <<saRow, saHost, saOp, saWoken, saCycle, saFaults, saHistory>>

UpdateFiles(i) ==
    /\ saAct[i].pc = "files" /\ saHost # None
    /\ saWp' = [saWp EXCEPT !.files = TRUE]
    /\ SaGoto(i, "migrate")
    /\ UNCHANGED <<saRow, saHost, saOp, saWoken, saCycle, saFaults, saHistory>>

UpdateDatabase(i) ==
    /\ saAct[i].pc = "migrate" /\ saHost # None
    /\ saWp' = [saWp EXCEPT !.database = saWp.files]
    /\ SaResult(i, TRUE)
    /\ UNCHANGED <<saRow, saHost, saOp, saWoken, saCycle, saFaults, saHistory>>

\* The command fails, or is given up on and goes on without its caller.
CommandFails(i) ==
    /\ saAct[i].pc \in {"install", "files", "migrate"}
    /\ \/ saHost = None /\ UNCHANGED <<saFaults, saWp>>
       \/ /\ SaFault
          /\ saWp' \in {saWp} \cup IF saAct[i].pc = "install" /\ saHost # None
                                   THEN {Installed(i)} ELSE {}
    /\ SaResult(i, FALSE)
    /\ UNCHANGED <<saRow, saHost, saOp, saWoken, saCycle, saHistory>>

-----------------------------------------------------------------------------
(* Changes of the desired state.                                           *)

Changed(i) == [saRow.definition EXCEPT
    !.salts = IF saAct[i].kind = "salts" THEN i ELSE @,
    !.php   = IF saAct[i].kind = "php" THEN saAct[i].php ELSE @]

\* rotate_salts(), switch_php() and the deletion write the service they have
\* just read, and the generation of the row they loaded.
WriteDesired(i) ==
    LET gen == saAct[i].row.gen + 1 IN
    /\ saAct[i].pc = "write"
    /\ IF saRow = None
       THEN SaResult(i, FALSE) /\ UNCHANGED <<saRow, saLost>>
       ELSE IF saAct[i].kind = "php" /\ saRow.definition.php = saAct[i].php
       THEN SaResult(i, TRUE) /\ UNCHANGED <<saRow, saLost>>
       ELSE /\ saRow' = [saRow EXCEPT !.gen = gen, !.definition = Changed(i),
                            !.status = IF saAct[i].kind = "delete" THEN "deleting" ELSE @]
            /\ saAct' = [saAct EXCEPT ![i].pc = "answer", ![i].ok = TRUE, ![i].row.gen = gen]
            /\ saLost' = (saLost \/ gen <= saRow.gen)
    /\ UNCHANGED <<saHost, saWp, saOp, saWoken, saCycle, saFaults, saRaced,
                   saWaits>>

\* Mutation: woken when the stack has converged in the meantime, too late.
WakesIfBehind(i) ==
    saAct[i].ok /\ (saAct[i].kind \notin SaActions \/ (saRow # None /\ saRow.gen > saRow.observed))

\* The reconciler is woken by a change, judged by the row that was loaded.
Wakes(i) ==
    saAct[i].ok /\ (saAct[i].kind \notin SaActions \/ saAct[i].row.gen > saAct[i].row.observed)

\* run_stack_action() ends the operation, whatever has become of it, and shows
\* the password.
AnswerAction(i) ==
    /\ saAct[i].pc = "answer"
    /\ saAct' = [saAct EXCEPT ![i] = SaEnded(@)]
    /\ saOp' = [saOp EXCEPT ![i] = IF saAct[i].kind \notin SaActions THEN None
                                   ELSE IF saAct[i].ok THEN "succeeded" ELSE "failed"]
    /\ saWoken' = (saWoken \/ Wakes(i))
    /\ UNCHANGED <<saRow, saHost, saWp, saCycle, saFaults, saHistory>>

-----------------------------------------------------------------------------
(* The reconciler, and what happens besides.                               *)

\* A cycle starts because it was woken, or because the interval is over.
BeginCycle ==
    /\ saCycle = SaIdle /\ (saRow # None \/ saHost # None)
    /\ saCycle' = IF saRow = None \/ saRow.status = "deleting" THEN None ELSE saRow.definition
    /\ saWoken' = FALSE
    /\ UNCHANGED <<saRow, saHost, saWp, saAct, saOp, saFaults, saHistory>>

CycleFails ==
    /\ saCycle # SaIdle /\ SaFault
    /\ saCycle' = SaIdle
    /\ saWaits' = TRUE
    /\ saRow' = IF saRow = None THEN None ELSE [saRow EXCEPT !.status = "degraded"]
    /\ UNCHANGED <<saHost, saWp, saAct, saOp, saWoken, saRaced, saLost>>

\* The plan is carried out, and on_stack_status() takes the generation it finds,
\* and not the one that was applied, for the observed one.
EndCycle ==
    /\ saCycle # SaIdle
    /\ saHost' = saCycle
    /\ saCycle' = SaIdle
    /\ saWaits' = FALSE
    /\ saRow' = IF saRow = None \/ saCycle = None THEN None
                ELSE [saRow EXCEPT !.status = "ready", !.observed = saRow.gen]
    /\ UNCHANGED <<saWp, saAct, saOp, saWoken, saFaults, saRaced, saLost>>

\* _reap_stale_operations(): also when the handler is still at work.
ReapAction(i) ==
    /\ saOp[i] = "running"
    /\ saOp' = [saOp EXCEPT ![i] = "failed"]
    /\ UNCHANGED <<saRow, saHost, saWp, saAct, saWoken, saCycle, saFaults,
                   saHistory>>

\* A restart: handlers and the queue are lost, and everything is looked at.
SaCrash ==
    /\ SaFault
    /\ saAct' = [i \in SaRequests |-> SaEnded(saAct[i])]
    /\ saWoken' = TRUE /\ saCycle' = SaIdle
    /\ UNCHANGED <<saRow, saHost, saWp, saOp, saHistory>>

\* A stack that has been created and has converged; WordPress awaits its
\* installation.
SaInit ==
    /\ saHost = [salts |-> 0, php |-> CHOOSE php \in SaPhp : TRUE]
    /\ saRow = [gen |-> 1, observed |-> 1, status |-> "ready", definition |-> saHost]
    /\ saWp = [password |-> 0, files |-> FALSE, database |-> FALSE] 
    /\ saAct = [i \in SaRequests |-> SaOff] /\ saOp = [i \in SaRequests |-> None]
    /\ saWoken = FALSE /\ saCycle = SaIdle /\ saFaults = 0
    /\ saRaced = {} /\ saLost = FALSE /\ saWaits = FALSE

SaNext ==
    \/ \E i \in SaRequests :
         \/ \E kind \in {"install", "update", "salts", "delete"} : BeginAction(i, kind, None)
         \/ \E php \in SaPhp : BeginAction(i, "php", php)
         \/ AskInstalled(i) \/ AskFails(i) \/ RunInstall(i)
         \/ UpdateFiles(i) \/ UpdateDatabase(i) \/ CommandFails(i)
         \/ WriteDesired(i) \/ AnswerAction(i) \/ ReapAction(i)
    \/ BeginCycle \/ EndCycle \/ CycleFails \/ SaCrash

SaSpec == SaInit /\ [][SaNext]_saVars /\ \A i \in SaRequests : WF_saVars(ReapAction(i))

-----------------------------------------------------------------------------
(* Properties.                                                             *)

\* A password that was shown opens WordPress, unless the installation could
\* not know that there was another.
PasswordsShown ==
    \A i \in SaRequests \ saRaced :
        saAct[i].kind = "install" /\ saOp[i] = "succeeded" => saWp.password = i

\* An update that has succeeded has brought both files and database to the
\* release that was offered.
UpdatesDone ==
    \A i \in SaRequests :
        saAct[i].kind = "update" /\ saOp[i] = "succeeded" => saWp.files /\ saWp.database

\* With nobody at work, the containers run what is desired, without waiting for
\* the interval: whatever bumped the generation has woken the reconciler, as
\* long as no generation was handed out twice.
ChangesConverge ==
    \/ saRow = None \/ saWoken \/ saCycle # SaIdle \/ saWaits \/ saLost
    \/ \E i \in SaRequests : saAct[i].pc # "off"
    \/ saRow.status # "deleting" /\ saHost = saRow.definition /\ saRow.observed = saRow.gen

ActionsSound == PasswordsShown /\ UpdatesDone /\ ChangesConverge

\* No operation runs.
SaOpsClosed == \A i \in SaRequests : saOp[i] # "running"
SaOpsEnd == []<>SaOpsClosed
=============================================================================
