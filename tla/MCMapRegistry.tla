--------------------------- MODULE MCMapRegistry ---------------------------
(* Instances of MapRegistry for TLC.                                        *)
EXTENDS MapRegistry

(* The instance map runs in the other process, or in that of the service    *)
(* core; the exit map is in the other process and not loaded yet.           *)
SmallSetups == {[remote |-> {Exit} \cup far, loaded |-> {Home}] : far \in SUBSET Instance}
\* p1 can enter the instance map and leave it again.
CONSTANTS p1, p2
Switches == (p1 :> 2) @@ (p2 :> 1)
Scripts == Permutations(Script)
=============================================================================
