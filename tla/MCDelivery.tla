----------------------------- MODULE MCDelivery -----------------------------
(***************************************************************************)
(* Delivery on small instances: one approved request.                       *)
(***************************************************************************)
EXTENDS Delivery

CONSTANTS q1, d1, d2, p1, p2

OneRequest == {q1}
OneDispatcher == {d1}
TwoDispatchers == {d1, d2}
OnePublisher == {p1}
TwoPublishers == {p1, p2}
=============================================================================
