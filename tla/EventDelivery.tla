--------------------------- MODULE EventDelivery ---------------------------
(***************************************************************************)
(* What VMSClient promises the plugins, without saying how: an event it    *)
(* has accepted is delivered, in its custody, or discarded on record; it   *)
(* lets go of an event only after delivery or as a recorded discard.       *)
(***************************************************************************)
CONSTANT Events

VARIABLES custody,    \* events held durably
          delivered,  \* events the central server has committed
          discarded,  \* events the cap has given up
          accepted    \* events whose plugin was told True

deliveryVars == <<custody, delivered, discarded, accepted>>

\* Init allows a backlog left by an earlier run of the worker.
Init ==
  /\ custody \subseteq Events
  /\ delivered = {}
  /\ discarded = {}
  /\ accepted \subseteq custody

Take(e) ==
  /\ custody' = custody \union {e}
  /\ UNCHANGED <<delivered, discarded, accepted>>

Deliver(e) ==
  /\ delivered' = delivered \union {e}
  /\ UNCHANGED <<custody, discarded, accepted>>

Release(e) ==
  /\ e \in custody \intersect delivered
  /\ custody' = custody \ {e}
  /\ UNCHANGED <<delivered, discarded, accepted>>

\* The cap is the only way out without delivery.  It may run inside the call
\* that accepts an event.
Discard(S, A) ==
  /\ S \subseteq custody
  /\ A \subseteq custody \union delivered \union discarded
  /\ custody' = custody \ S
  /\ discarded' = discarded \union S
  /\ accepted' = accepted \union A
  /\ UNCHANGED delivered

Accept(e) ==
  /\ e \in custody \union delivered \union discarded
  /\ accepted' = accepted \union {e}
  /\ UNCHANGED <<custody, delivered, discarded>>

Next ==
  \/ \E e \in Events : Take(e) \/ Deliver(e) \/ Release(e) \/ Accept(e)
  \/ \E S, A \in SUBSET Events : Discard(S, A)

Spec == Init /\ [][Next]_deliveryVars

\* No accepted event is ever unaccounted for.
Accountable == accepted \subseteq custody \union delivered \union discarded
=============================================================================
