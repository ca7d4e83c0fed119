------------------------------ MODULE MCDemux ------------------------------
(* Instances of Demux for TLC: a file of two streams.                      *)
EXTENDS Demux

CONSTANTS v, a

Interleaved == <<v, a, v, a>>

Pair == <<v, a>>

Short == <<v, a, v>>
=============================================================================
