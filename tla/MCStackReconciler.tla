------------------------- MODULE MCStackReconciler -------------------------
(***************************************************************************)
(* Instances of StackReconciler for TLC: every stack belongs to one        *)
(* tenant, so that collecting the tenant concerns all of them.             *)
(***************************************************************************)
EXTENDS StackReconciler

CONSTANTS owner

OneTenant == {owner}
AllOfOneTenant == [n \in Names |-> owner]
=============================================================================
