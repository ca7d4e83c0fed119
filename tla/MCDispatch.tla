----------------------------- MODULE MCDispatch -----------------------------
(* Instances of Dispatch for TLC.                                          *)
EXTENDS Dispatch, TLC

CONSTANTS t1, t2

TwoThreads == {t1, t2}

(* The first thread makes two calls, the second one.                       *)
MCCallsOf == t1 :> 2 @@ t2 :> 1
=============================================================================
