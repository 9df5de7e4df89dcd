------------------------------ MODULE PanelBase ------------------------------
(***************************************************************************)
(* What the modules of the panel around the stacks share: the value that   *)
(* stands for an absent row, task or answer, and the states of a request   *)
(* that the modules number in the order they are accepted.                 *)
(***************************************************************************)
EXTENDS Naturals, FiniteSets

CONSTANT None   \* no row, no task, no answer

ASSUME NoneAssumption == None \notin Nat \cup BOOLEAN

\* The greatest member of a set of numbers, 0 when there is none.
Greatest(set) == IF set = {} THEN 0 ELSE CHOOSE m \in set : \A n \in set : n <= m
=============================================================================
