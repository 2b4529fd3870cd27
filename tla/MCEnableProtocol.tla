-------------------------- MODULE MCEnableProtocol --------------------------
EXTENDS EnableProtocol

(* The second settings ask for another version, the third for the first    *)
(* version again.                                                          *)
GoAndReturn == [n \in Seqs |-> IF n = 2 THEN "v2" ELSE "v1"]
=============================================================================
