----------------------- MODULE MCSubscriptionManager -----------------------
(* Instances of SubscriptionManager for TLC.                               *)
EXTENDS SubscriptionManager

Two   == {1, 2}
First == {1}
None  == {}
=============================================================================
