---------------------------- MODULE MCQuantDaily ----------------------------
(* An instance of QuantDaily for TLC: one execution under every fault.     *)
EXTENDS QuantDaily

CONSTANT e1

One == {e1}
=============================================================================
