-------------------------------- MODULE MCWire --------------------------------
EXTENDS Wire

(* A line has four bytes before its newline and its padding: with no       *)
(* padding it fits Limit, with two bytes of it it does not.                *)
MCPadding == {0, 2}
=============================================================================
