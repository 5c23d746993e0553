--------------------------- MODULE MCScannerProcess ---------------------------
(* A configuration with two pools, a factory and a pair, and other         *)
(* processes that have another pool and know the same pair.                *)
EXTENDS ScannerProcess

MCConfig ==
  [x \in {"aave_v3", "uniswap_v2"} |->
     IF x = "aave_v3" THEN [addresses |-> {"pool", "pool2"}, pairs |-> {}]
     ELSE [addresses |-> {"factory"}, pairs |-> {"pair"}]]

MCOthers == [addresses |-> {<<"aave_v3", "old">>}, pairs |-> {"pair"}]
===============================================================================
