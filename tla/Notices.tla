------------------------------- MODULE Notices -------------------------------
(***************************************************************************)
(* The notifications of the administrator, of two kinds of trouble: a      *)
(* service that is down, found by the hourly sweep, and a stack that keeps *)
(* drifting, counted by the cycles of the reconciler, which two tasks run. *)
(* Who finds trouble asks whether a notice of it is open and then writes   *)
(* one; who finds none closes all of them.                                 *)
(***************************************************************************)
EXTENDS PanelBase

CONSTANTS
    NoteThreshold,  \* reconcile_drift_cycles
    NoteMaxMoves    \* bound: changes of what is watched, dismissals, restarts

ASSUME NoteAssumption == NoteThreshold \in Nat \ {0} /\ NoteMaxMoves \in Nat

VARIABLES
    noteBad,    \* noteBad[k]: is there trouble of kind k
    noteOpen,   \* noteOpen[k]: notices of kind k that are not resolved
    noteCount,  \* _drift_counts: cycles in a row that found drift, 0 for no entry
    noteTask,   \* noteTask[w]: the check that watcher w has under way
    noteMoves,
    noteTold,   \* history: noteTold[k]: what the last check found, or None
    noteMet,    \* history: kinds that two watchers have checked at once
    noteLost    \* history: did a restart lose the count, or the resolve that follows it

noteVars == <<noteBad, noteOpen, noteCount, noteTask, noteMoves, noteTold, noteMet, noteLost>>

NoteKinds == {"service", "drift"}
Watches == [sweep |-> "service", loop |-> "drift", images |-> "drift"]
Watchers == DOMAIN Watches
NoteIdle == [pc |-> "off", saw |-> FALSE]

NoteTypeOK ==
    /\ noteBad \in [NoteKinds -> BOOLEAN]
    /\ noteOpen \in [NoteKinds -> Nat]
    /\ noteCount \in 0 .. NoteThreshold + 1
    /\ noteTask \in [Watchers -> [pc : {"off", "report", "emit", "insert", "resolve"}, saw : BOOLEAN]]
    /\ noteTold \in [NoteKinds -> BOOLEAN \cup {None}]

-----------------------------------------------------------------------------
NoteTo(w, pc) == noteTask' = [noteTask EXCEPT ![w].pc = pc]
\* The check is over: nothing of its kind has changed hands since it looked.
NoteDone(w) ==
    /\ NoteTo(w, "off")
    /\ noteTold' = [noteTold EXCEPT ![Watches[w]] = noteTask[w].saw]
NoteQuiet == UNCHANGED <<noteBad, noteMoves, noteMet, noteLost>>

\* The service is asked, or the stacks are observed.
Look(w) ==
    /\ noteTask[w].pc = "off"
    /\ noteTask' = [noteTask EXCEPT ![w] = [pc |-> "report", saw |-> noteBad[Watches[w]]]]
    /\ noteMet' = noteMet \cup {Watches[v] : v \in {u \in Watchers \ {w} :
                     Watches[u] = Watches[w] /\ noteTask[u].pc # "off"}}
    /\ UNCHANGED <<noteBad, noteOpen, noteCount, noteMoves, noteTold, noteLost>>

\* The sweep reports what it has found.
Report(w) ==
    /\ noteTask[w].pc = "report" /\ Watches[w] # "drift"
    /\ NoteTo(w, IF noteTask[w].saw THEN "emit" ELSE "resolve")
    /\ UNCHANGED <<noteOpen, noteCount, noteTold>> /\ NoteQuiet

\* Mutation: the count is compared with the limit the wrong way round.
ResolvesAfter(count) == count > NoteThreshold

\* What was counted is closed, whether or not there is a notice of it.
Resolves(count) == count > 0

\* _track_drift(): the count is not followed further than one past the limit.
TrackDrift(w) ==
    /\ noteTask[w].pc = "report" /\ Watches[w] = "drift"
    /\ IF noteTask[w].saw
       THEN LET count == noteCount + 1 IN
            /\ noteCount' = IF count > NoteThreshold THEN NoteThreshold + 1 ELSE count
            /\ IF count >= NoteThreshold THEN NoteTo(w, "emit") /\ UNCHANGED noteTold
               ELSE NoteTo(w, "off") /\ noteTold' = [noteTold EXCEPT !["drift"] = None]
       ELSE /\ noteCount' = 0
            /\ IF Resolves(noteCount) THEN NoteTo(w, "resolve") /\ UNCHANGED noteTold
               ELSE NoteDone(w)
    /\ UNCHANGED noteOpen /\ NoteQuiet

\* emit(): is one open?  With two of them the query raises and the check ends.
AskForOpen(w) ==
    /\ noteTask[w].pc = "emit"
    /\ IF noteOpen[Watches[w]] = 0 THEN NoteTo(w, "insert") /\ UNCHANGED noteTold ELSE NoteDone(w)
    /\ UNCHANGED <<noteOpen, noteCount>> /\ NoteQuiet
InsertNotice(w) ==
    /\ noteTask[w].pc = "insert"
    /\ noteOpen' = [noteOpen EXCEPT ![Watches[w]] = @ + 1]
    /\ NoteDone(w)
    /\ UNCHANGED noteCount /\ NoteQuiet

\* resolve() closes every one of the kind.
ResolveNotices(w) ==
    /\ noteTask[w].pc = "resolve"
    /\ noteOpen' = [noteOpen EXCEPT ![Watches[w]] = 0]
    /\ NoteDone(w)
    /\ UNCHANGED noteCount /\ NoteQuiet

-----------------------------------------------------------------------------
NoteMove == noteMoves < NoteMaxMoves /\ noteMoves' = noteMoves + 1

Turn(k) ==
    /\ NoteMove
    /\ noteBad' = [noteBad EXCEPT ![k] = ~@]
    /\ UNCHANGED <<noteOpen, noteCount, noteTask, noteTold, noteMet, noteLost>>

\* The administrator closes one by hand; the next check writes it again.
Dismiss(k) ==
    /\ NoteMove /\ noteOpen[k] > 0
    /\ noteOpen' = [noteOpen EXCEPT ![k] = @ - 1]
    /\ noteTold' = [noteTold EXCEPT ![k] = None]
    /\ noteMet' = IF \E w \in Watchers : Watches[w] = k /\ noteTask[w].pc # "off"
                  THEN noteMet \cup {k} ELSE noteMet
    /\ UNCHANGED <<noteBad, noteCount, noteTask, noteLost>>

\* Checks and the count, which is in memory, are lost.
NoteRestart ==
    /\ NoteMove
    /\ noteTask' = [w \in Watchers |-> NoteIdle]
    /\ noteCount' = 0
    /\ noteLost' = (\/ noteLost
                    \/ noteCount > 0
                    \/ \E w \in Watchers : Watches[w] = "drift" /\ noteTask[w].pc = "resolve")
    /\ UNCHANGED <<noteBad, noteOpen, noteTold, noteMet>>

-----------------------------------------------------------------------------
NoteInit ==
    /\ noteBad = [k \in NoteKinds |-> FALSE]
    /\ noteOpen = [k \in NoteKinds |-> 0]
    /\ noteCount = 0 /\ noteMoves = 0
    /\ noteTask = [w \in Watchers |-> NoteIdle]
    /\ noteTold = [k \in NoteKinds |-> None]
    /\ noteMet = {} /\ noteLost = FALSE

NoteNext ==
    \/ \E w \in Watchers :
         Look(w) \/ Report(w) \/ TrackDrift(w) \/ AskForOpen(w) \/ InsertNotice(w) \/ ResolveNotices(w)
    \/ \E k \in NoteKinds : Turn(k) \/ Dismiss(k)
    \/ NoteRestart

NoteSpec == NoteInit /\ [][NoteNext]_noteVars

-----------------------------------------------------------------------------
(* Properties.                                                             *)

\* The list is not flooded: one open notice of each kind, and two at most of
\* drift, when both tasks that look for it found none at once.
OneOpenNotice ==
    \A k \in NoteKinds : noteOpen[k] <= (IF k = "drift" /\ k \in noteMet THEN 2 ELSE 1)

\* Between checks a notice is open if, and only if, the last one found trouble:
\* unless two checks met, or a restart lost the count that would have closed
\* a notice of drift.
NoticesFollow ==
    \A k \in NoteKinds \ noteMet : noteTold[k] # None =>
        /\ noteTold[k] => noteOpen[k] > 0
        /\ ~noteTold[k] /\ (k = "drift" => ~noteLost) => noteOpen[k] = 0

NoticesSound == OneOpenNotice /\ NoticesFollow
=============================================================================
