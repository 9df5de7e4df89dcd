----------------------------- MODULE ArchiveStore -----------------------------
(***************************************************************************)
(* What backups promise, apart from how they are made: an archive holds    *)
(* for each part of a site a state that part really had, it never changes  *)
(* as long as it exists, and a part of the site becomes by a restore what  *)
(* some archive holds of it.  Which archives there are is up to the users. *)
(***************************************************************************)
CONSTANTS Parts, States, Ids, Absent

VARIABLES
    site,     \* site[p]: state of part p of the site
    past,     \* past[p]: the states part p has had
    archives  \* archives[i]: what archive i holds, by part, or Absent

storeVars == <<site, past, archives>>

\* A part may be missing from an archive that was made without it.
StoreInit ==
    /\ site \in [Parts -> States]
    /\ past = [p \in Parts |-> {site[p]}]
    /\ archives = [i \in Ids |-> Absent]

Become(p, s) ==
    /\ site' = [site EXCEPT ![p] = s]
    /\ past' = [past EXCEPT ![p] = @ \cup {s}]

\* The site changes by itself, to a state it has not had.
Change ==
    /\ \A p \in Parts : site[p] # Absent
    /\ \E p \in Parts : \E s \in States \ past[p] : Become(p, s)
    /\ UNCHANGED archives

\* It is deleted; its archives stay.
Vanish == site' = [p \in Parts |-> Absent] /\ UNCHANGED <<past, archives>>

RestorePart ==
    /\ \A p \in Parts : site[p] # Absent
    /\ \E p \in Parts, i \in Ids :
         archives[i] # Absent /\ archives[i][p] # Absent /\ Become(p, archives[i][p])
    /\ UNCHANGED archives

\* Archiving may make room by dropping others in the same step.
Archive ==
    /\ archives' # archives /\ UNCHANGED <<site, past>>
    /\ \E i \in Ids, dropped \in SUBSET Ids :
         /\ archives[i] = Absent /\ i \notin dropped
         /\ \E content \in [Parts -> (UNION {past[p] : p \in Parts}) \cup {Absent}] :
              /\ \A p \in Parts : content[p] \in past[p] \cup {Absent}
              /\ archives' = [j \in Ids |-> IF j = i THEN content
                                ELSE IF j \in dropped THEN Absent ELSE archives[j]]

Drop ==
    /\ archives' # archives /\ UNCHANGED <<site, past>>
    /\ \E i \in Ids : archives' = [archives EXCEPT ![i] = Absent]

StoreNext == Change \/ Vanish \/ RestorePart \/ Archive \/ Drop

StoreSpec == StoreInit /\ [][StoreNext]_storeVars
===============================================================================
