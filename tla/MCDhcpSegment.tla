--------------------------- MODULE MCDhcpSegment ---------------------------
(***************************************************************************)
(* A small instance of DhcpSegment for TLC.                                *)
(***************************************************************************)
EXTENDS DhcpSegment

CONSTANT c1

OneClient == {c1}
=============================================================================
