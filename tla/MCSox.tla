------------------------------- MODULE MCSox -------------------------------
(***************************************************************************)
(* Batteries for Sox: a tired one, one that has lost a fifth in a room too *)
(* cool to trust a measurement, one that holds more than its design.       *)
(***************************************************************************)
EXTENDS Sox

MCPacks == {[holds |-> 640, warm |-> TRUE], [holds |-> 800, warm |-> FALSE],
            [holds |-> 1005, warm |-> TRUE]}

=============================================================================
