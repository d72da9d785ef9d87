--------------------------- MODULE MCRackControls ---------------------------
(***************************************************************************)
(* Gains for model checking RackControls: the highest of a line card (0xFF *)
(* in the register, one more would be the code of a muted card), and one   *)
(* step above, which only a microphone takes and which lies between two    *)
(* register values.                                                        *)
(***************************************************************************)
EXTENDS RackControls

SomeGains == {48, 49}
=============================================================================
