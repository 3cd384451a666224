--------------------------- MODULE MCCardPayments ---------------------------
(***************************************************************************)
(* CardPayments for model checking: requests are interchangeable.  Only    *)
(* safety is checked with the symmetry.                                    *)
(***************************************************************************)
EXTENDS CardPayments, TLC

Symmetry == Permutations(Requests)

=============================================================================
