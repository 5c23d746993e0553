----------------------------- MODULE MCJobConsole -----------------------------
(***************************************************************************)
(* Instances of JobConsole for model checking.                             *)
(***************************************************************************)
EXTENDS JobConsole, TLC

(* The protocols of a job are interchangeable: no code path of the registry*)
(* or of the bridge tells them apart.                                      *)
ProtocolSymmetry == Permutations(Protocols)

(* No finding, or one, in the first job: its counters then differ from one *)
(* event to the next.                                                      *)
NoFindings == [j \in JobIds |-> 0]
FirstFinds == [j \in JobIds |-> IF j = 1 THEN 1 ELSE 0]
===============================================================================
