---------------------------- MODULE MCDelivery ----------------------------
(* Delivery for TLC: two messages from a to b.                             *)
EXTENDS Delivery

CONSTANTS a, b, m1, m2

MCFrom(m) == a
MCTo(m) == b
=============================================================================
