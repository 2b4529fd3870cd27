--------------------------- MODULE MCCustomActions ---------------------------
EXTENDS CustomActions

(* Four actions of two applications, two of them with the same tick count. *)
FourActions == {"a", "b", "c", "d"}
Ticks == [a |-> 1, b |-> 2, c |-> 2, d |-> 3]
Owners == [a |-> "x", b |-> "x", c |-> "y", d |-> "y"]
=============================================================================
