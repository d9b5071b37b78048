------------------------------- MODULE Powers -------------------------------
(***************************************************************************)
(* The powers of two, by recursion: heights of trees and widths of bit     *)
(* fields are their exponents.                                             *)
(***************************************************************************)
EXTENDS Integers

Pow2[n \in Nat] == IF n = 0 THEN 1 ELSE 2 * Pow2[n - 1]
=============================================================================
