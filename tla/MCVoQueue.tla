----------------------------- MODULE MCVoQueue -----------------------------
(* Small instances of VoQueue for TLC.                                     *)
EXTENDS VoQueue, TLC

Both == {FALSE, TRUE}
Condition == {FALSE}
Unpause == {FALSE}

(* The parameters are only compared: sound where no liveness is checked.   *)
Symmetry == Permutations(Params)
=============================================================================
