------------------------------ MODULE Checkpoint ------------------------------
(***************************************************************************)
(* What the scanner_cursors row promises, without the loop that keeps it:  *)
(* a frontier below which every block has been scanned, which moves only   *)
(* forward.  Scanning is at-least-once: a block may be scanned again, and  *)
(* blocks above the frontier may have been scanned without the row saying  *)
(* so (an error or a crash between the scan and the save).                 *)
(***************************************************************************)
EXTENDS Naturals

CONSTANT LastBlock        \* the highest block number there is

VARIABLES
  frontier,               \* the first block the row does not vouch for
  scanned                 \* the blocks some scan has covered successfully

vars == <<frontier, scanned>>

Init ==
  /\ frontier = 0
  /\ scanned = {}

(* A scan covers some more blocks; the row is written separately.          *)
Scan ==
  /\ \E blocks \in SUBSET (0 .. LastBlock) : scanned' = scanned \cup blocks
  /\ UNCHANGED frontier

(* The row moves over blocks that have all been scanned.                   *)
Commit ==
  /\ \E n \in frontier .. LastBlock + 1 :
       /\ \A b \in 0 .. n - 1 : b \in scanned
       /\ frontier' = n
  /\ UNCHANGED scanned

Next == Scan \/ Commit

Spec == Init /\ [][Next]_vars
===============================================================================
