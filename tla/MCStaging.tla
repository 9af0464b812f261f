------------------------------ MODULE MCStaging ------------------------------
(* A working directory with two files and up to two trit processes. *)
EXTENDS Staging, TLC
CONSTANTS p1, p2, a, b
MCOne      == {p1}
MCTwo      == {p1, p2}
MCPaths    == {a, b}
MCKinds    == {"add", "drop", "list", "clear", "send"}
MCEditing  == {"add", "drop"}
MCStarting == {"add", "list"}
MCSymmetry == Permutations(MCTwo) \cup Permutations(MCPaths)
MCSending  == {"add", "send"}
=============================================================================
