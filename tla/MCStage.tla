------------------------------- MODULE MCStage -------------------------------
(***************************************************************************)
(* Stage on a diamond: b and c on top of a, d merging b and c.  Callers    *)
(* may submit any hash, in any order, more than once, with or without      *)
(* transactions.                                                           *)
(***************************************************************************)
EXTENDS Stage, TLC

CONSTANTS a, b, c, d

Diamond == (a :> {}) @@ (b :> {a}) @@ (c :> {a}) @@ (d :> {b, c})

CallersSymmetry == Permutations(Callers)
=============================================================================
