------------------------------ MODULE MCHoming ------------------------------
(* A small instance of Homing for TLC. *)
EXTENDS Homing

CONSTANTS a1, a2, a3, c1, c2, s1

TheList == <<a1, a2, a3>>

To(c, a) == [client |-> c, target |-> a]

\* Nothing, one client, both on one appliance or two, and one moved twice.
SomeAssignments ==
    {<<>>, <<To(c1, a2)>>, <<To(c1, a1), To(c2, a1)>>, <<To(c1, a3), To(c2, a1)>>,
     <<To(c1, a2), To(c1, a3)>>}
=============================================================================
