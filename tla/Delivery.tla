------------------------------ MODULE Delivery ------------------------------
(***************************************************************************)
(* What the acknowledgement protocol promises, without threads, packets or *)
(* acknowledgements.  The client keeps a message until it knows the server *)
(* has it, or gives it one second chance and then keeps it no longer.  The *)
(* server may get a message any number of times, at any time after it was  *)
(* submitted.                                                              *)
(***************************************************************************)
CONSTANT Message

VARIABLES submitted,    \* given to the client
          pending,      \* kept by the client
          retried,      \* sent a second time
          delivered     \* handed over at the server

vars == <<submitted, pending, retried, delivered>>

TypeOK == /\ submitted \subseteq Message
          /\ pending \subseteq submitted
          /\ retried \subseteq submitted
          /\ delivered \subseteq submitted

Init == /\ submitted = {}
        /\ pending = {}
        /\ retried = {}
        /\ delivered = {}

Submit(m) == /\ m \notin submitted
             /\ submitted' = submitted \cup {m}
             /\ pending' = pending \cup {m}
             /\ UNCHANGED <<retried, delivered>>

Deliver(m) == /\ m \in submitted
              /\ delivered' = delivered \cup {m}
              /\ UNCHANGED <<submitted, pending, retried>>

\* Forget a message the server has.
Confirm(m) == /\ m \in pending
              /\ m \in delivered
              /\ pending' = pending \ {m}
              /\ UNCHANGED <<submitted, retried, delivered>>

\* Send a message again and forget it.
Retry(m) == /\ m \in pending
            /\ pending' = pending \ {m}
            /\ retried' = retried \cup {m}
            /\ UNCHANGED <<submitted, delivered>>

Next == \E m \in Message : Submit(m) \/ Deliver(m) \/ Confirm(m) \/ Retry(m)

Spec == Init /\ [][Next]_vars

\* No message is forgotten unless it was delivered or tried twice.
NoSilentDrop == submitted \subseteq pending \cup delivered \cup retried
=============================================================================
