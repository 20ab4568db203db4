----------------------------- MODULE MCCheckout -----------------------------
(* Instances of Checkout small enough for TLC. *)
EXTENDS Checkout, TLC

AllSessions == 1..MaxSessions

CheckoutSymmetry == Permutations(Requests)

=============================================================================
