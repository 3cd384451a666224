-------------------------------- MODULE Sums --------------------------------
(***************************************************************************)
(* The sum of a sequence of numbers, as a recursive function: what the     *)
(* code adds up in a loop.                                                 *)
(***************************************************************************)
EXTENDS Integers

(* f[1] + ... + f[n]                                                       *)
SumTo(f, n) == LET s[i \in 0..n] == IF i = 0 THEN 0 ELSE s[i - 1] + f[i] IN s[n]

=============================================================================
