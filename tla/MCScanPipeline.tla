---------------------------- MODULE MCScanPipeline ----------------------------
(***************************************************************************)
(* Instances of ScanPipeline: an Aave runner and a Balancer runner, whose  *)
(* transactions are disjoint, the same, or shared in one id.               *)
(***************************************************************************)
EXTENDS ScanPipeline, TLC

CONSTANTS aave, balancer, job, service, t1, t2, t3

MCProtocols == {aave, balancer}

(* One runner per protocol, as in a console job.                           *)
EachItsOwn == job :> aave @@ service :> balancer

(* t1 and t2 hold an Aave flash loan, t3 two Balancer ones.                *)
Apart == aave :> {<<t1, 0>>, <<t2, 0>>} @@ balancer :> {<<t3, 0>>, <<t3, 1>>}

(* The Balancer event groups are numbered from 0 in a transaction of Aave. *)
Shared == aave :> {<<t1, 0>>} @@ balancer :> {<<t1, 0>>, <<t1, 1>>}

MCLegless == aave :> {} @@ balancer :> {<<t3, 1>>}

(* Every transaction went through.                                         *)
NoneRejected == aave :> {} @@ balancer :> {}

(* The transaction t1, of Aave alone, has failed.                          *)
MCRejected == aave :> {<<t1, 0>>} @@ balancer :> {}

(* The Aave flash loan of t2 opens debt: verified, never strict.  The      *)
(* second interaction of a transaction is verified but not strict, or,     *)
(* when the trace cannot be had, not verified.                             *)
MCJudge ==
  [p \in MCProtocols |->
     [i \in {t1, t2, t3} \X {0, 1} |->
        CASE i = <<t2, 0>> -> {"verified"}
          [] i[2] = 1 -> {"verified", "unverified"}
          [] OTHER -> {"strict"}]]
===============================================================================
