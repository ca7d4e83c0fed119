----------------------------- MODULE MCGethLink -----------------------------
(* An instance of GethLink for TLC: three images, a queue of two.          *)
EXTENDS GethLink

MCUnits == 1 .. 3

=============================================================================
