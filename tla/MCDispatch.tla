----------------------------- MODULE MCDispatch -----------------------------
(* A small instance of the dispatching of connections: two workers. *)
EXTENDS Dispatch, TLC
CONSTANTS w1, w2
MCNextWorker == (w1 :> w2) @@ (w2 :> w1)
=============================================================================
