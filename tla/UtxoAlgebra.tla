---------------------------- MODULE UtxoAlgebra ----------------------------
(***************************************************************************)
(* How resolve_virtual uses UTXO diffs: it accumulates, over a base UTXO   *)
(* set it does not touch, the diffs of the blocks it walks over, reversed  *)
(* on the way down and as they are on the way up, and unwraps the result   *)
(* of each with_diff_in_place.  A diff it applies is one of the view it    *)
(* has reached.  `view` is that UTXO set kept in full, which the code      *)
(* never has; `diff` is the accumulated diff.                              *)
(***************************************************************************)
EXTENDS UtxoDiff

VARIABLES base, view, diff, failed

vars == <<base, view, diff, failed>>

\* d removes entries that are in the set, and adds outpoints that are not.
ValidOn(set, d) ==
  \A o \in Outpoints :
    /\ d.remove[o] # None => set[o] = d.remove[o]
    /\ d.add[o] # None => /\ set[o] = None \/ d.remove[o] # None
                          /\ d.add[o] # d.remove[o]

DiffsOn(set) == {d \in Diff : ValidOn(set, d)}

Init ==
  /\ base \in Collection
  /\ view = base
  /\ diff = EmptyDiff
  /\ failed = FALSE

\* accumulated_diff.with_diff_in_place(d).unwrap()
Accumulate(d) ==
  /\ ~failed
  /\ failed' = WithDiffFails(diff, d)
  /\ diff' = IF failed' THEN diff ELSE WithDiffInPlace(diff, d)
  /\ view' = IF failed' THEN view ELSE Compose(view, d)
  /\ UNCHANGED base

\* mergeset_diff.add_transaction(tx, pov_daa_score).unwrap() for a
\* transaction populated from the composed view; a spent output never
\* comes back in the same transaction.
Accept(inputs, outputs, score) ==
  /\ ~failed
  /\ \A o \in Outpoints : inputs[o] # None => inputs[o] = view[o]
  /\ \A o \in outputs : view[o] = None
  /\ failed' = AddTransactionFails(diff, inputs, outputs, score)
  /\ diff' = IF failed' THEN diff ELSE AddTransaction(diff, inputs, outputs, score)
  /\ view' = IF failed' THEN view
             ELSE [o \in Outpoints |-> IF o \in outputs THEN score
                                       ELSE IF inputs[o] # None THEN None ELSE view[o]]
  /\ UNCHANGED base

\* The accumulated diff is written to the UTXO set, which is the new base.
Write ==
  /\ ~failed
  /\ base' = Compose(base, diff)
  /\ diff' = EmptyDiff
  /\ UNCHANGED <<view, failed>>

Next ==
  \/ \E d \in DiffsOn(view) : Accumulate(d)
  \/ \E inputs \in Collection, outputs \in SUBSET Outpoints, score \in Scores :
       Accept(inputs, outputs, score)
  \/ Write

Spec == Init /\ [][Next]_vars
-----------------------------------------------------------------------------
TypeOK ==
  /\ base \in Collection
  /\ view \in Collection
  /\ diff \in Diff
  /\ failed \in BOOLEAN

(* The accumulated diff is exactly the difference between the base and the *)
(* view, in normal form, after any sequence of diffs and transactions; and *)
(* no unwrap of with_diff_in_place or add_transaction meets an error.      *)
DiffExact ==
  /\ ~failed
  /\ ValidOn(base, diff)
  /\ Compose(base, diff) = view

(* For two diffs of the same base, diff_from succeeds and gives the step   *)
(* from one to the other: applying it to the first yields the second,      *)
(* entry by entry, DAA scores included.                                    *)
DiffFromExact ==
  \A d \in DiffsOn(base) :
    /\ ~DiffFromFails(diff, d)
    /\ ~WithDiffFails(diff, DiffFrom(diff, d))
    /\ WithDiffInPlace(diff, DiffFrom(diff, d)) = d

(* Walking down undoes walking up: the reversed diff of a step is a diff   *)
(* of the view it led to, and restores the accumulated diff.               *)
ReverseUndoes ==
  \A d \in DiffsOn(view) :
    LET there == WithDiffInPlace(diff, d)
    IN /\ ValidOn(Compose(view, d), Reversed(d))
       /\ ~WithDiffFails(there, Reversed(d))
       /\ WithDiffInPlace(there, Reversed(d)) = diff
=============================================================================
