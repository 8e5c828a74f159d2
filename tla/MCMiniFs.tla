------------------------------ MODULE MCMiniFs ------------------------------
(***************************************************************************)
(* Instances of MiniFs with units of few bytes.                            *)
(***************************************************************************)
EXTENDS MiniFs, TLC

CONSTANTS a, b, c

MCNames == {a, b, c}
MCHeaderLen == a :> 1 @@ b :> 1 @@ c :> 2

\* Names of the same length are interchangeable.
NameSymmetry == Permutations({a, b})
=============================================================================
