------------------------------ MODULE MCRealMQ ------------------------------
(* The client and the server on small instances. *)
EXTENDS RealMQ, TLC

Symmetry == Permutations(Threads)

(***************************************************************************)
(* What a step may depend on: the rest is history and counters that no     *)
(* guard reads (MaxCount aside), and local variables out of their scope.   *)
(***************************************************************************)
Live ==
    [net    |-> netVars,
     sender |-> [t \in Threads |-> <<pc[t], count[t], stops[t],
                                     IF pc[t] \in {"add", "send"} THEN newId[t] ELSE 0>>],
     flags  |-> flagVars,
     array  |-> arrayVars,
     ack    |-> <<rpc, IF rpc \in {"lock", "diff"} THEN <<acked, ri>> ELSE <<>>>>,
     server |-> <<spc, unacked>>]
=============================================================================
