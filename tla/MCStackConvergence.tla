------------------------- MODULE MCStackConvergence -------------------------
(***************************************************************************)
(* Instances of StackConvergence for TLC: a web service whose content      *)
(* changes between a built and a plain form, a worker that comes and goes, *)
(* one volume.                                                             *)
(***************************************************************************)
EXTENDS StackConvergence

CONSTANTS web, worker, data, t1, t2

MCServices == {web, worker}
MCVolumes == {data}

Plain == [services |-> {web}, builds |-> {}, zdt |-> {}, volumes |-> {}]
Pair  == [services |-> {web, worker}, builds |-> {worker}, zdt |-> {},
          volumes |-> {data}]
Green == [services |-> {web}, builds |-> {}, zdt |-> {web}, volumes |-> {data}]

MCShapes == {Plain, Pair, Green}
MCRestartShapes == {Plain, Pair}
=============================================================================
