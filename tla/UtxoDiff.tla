------------------------------ MODULE UtxoDiff ------------------------------
(***************************************************************************)
(* The algebra of UTXO collections and diffs (consensus/core/src/utxo).    *)
(* An outpoint names an output of one transaction, which fixes its amount  *)
(* and script; two entries of the same outpoint can differ in the DAA      *)
(* score of the block that accepted the transaction only.  So a            *)
(* UtxoCollection is a map from outpoints to DAA scores, and every loop    *)
(* over a collection acts on each outpoint by itself.                      *)
(***************************************************************************)
CONSTANTS Outpoints, Scores, None

ASSUME ScoresAssumption == None \notin Scores

Collection == [Outpoints -> Scores \cup {None}]
Diff == [add : Collection, remove : Collection]

NoEntries == [o \in Outpoints |-> None]
EmptyDiff == [add |-> NoEntries, remove |-> NoEntries]

ContainsWithDaaScore(c, o, score) == c[o] # None /\ c[o] = score

\* The two in-place loops over `this`, each with the collection it fills.
IntersectionHavingDaaScore(this, other) ==
  [o \in Outpoints |->
     IF this[o] # None /\ ContainsWithDaaScore(other, o, this[o]) THEN this[o] ELSE None]

SubtractionHavingDaaScore(this, other) ==
  [o \in Outpoints |->
     IF this[o] # None /\ ~ContainsWithDaaScore(other, o, this[o]) THEN this[o] ELSE None]

AddCollection(c, other) == [o \in Outpoints |-> IF other[o] # None THEN other[o] ELSE c[o]]
RemoveCollection(c, other) == [o \in Outpoints |-> IF other[o] # None THEN None ELSE c[o]]
Intersects(c, other) == \E o \in Outpoints : c[o] # None /\ other[o] # None

\* as_reversed and to_reversed
Reversed(d) == [add |-> d.remove, remove |-> d.add]

\* ComposedUtxoView::get, and what write_diff leaves in the UTXO set store.
Compose(base, d) ==
  [o \in Outpoints |-> IF d.add[o] # None THEN d.add[o]
                       ELSE IF d.remove[o] # None THEN None ELSE base[o]]

-----------------------------------------------------------------------------
DuplicateRemovePoint(this, other) ==
  \E o \in Outpoints : /\ other.remove[o] # None /\ this.remove[o] # None
                       /\ ~ContainsWithDaaScore(this.add, o, other.remove[o])

DuplicateAddPoint(this, other) ==
  \E o \in Outpoints : /\ other.add[o] # None /\ this.add[o] # None
                       /\ ~ContainsWithDaaScore(other.remove, o, this.add[o])

\* The result of with_diff_in_place, once its sanity checks have passed.
WithDiffInPlace(this, other) ==
  LET remove1 == AddCollection(this.remove, SubtractionHavingDaaScore(other.remove, this.add))
      add1 == RemoveCollection(this.add, IntersectionHavingDaaScore(other.remove, this.add))
  IN [add |-> AddCollection(add1, SubtractionHavingDaaScore(other.add, remove1)),
      remove |-> RemoveCollection(remove1, IntersectionHavingDaaScore(other.add, remove1))]

WithDiffFails(this, other) == DuplicateRemovePoint(this, other) \/ DuplicateAddPoint(this, other)

-----------------------------------------------------------------------------
\* The first check of diff_from: an outpoint removed here and added there.
RemovedThenAdded(this, other) ==
  \E o \in Outpoints :
    /\ this.remove[o] # None /\ other.add[o] # None
    /\ ~ /\ other.add[o] # this.remove[o]
         /\ \/ ContainsWithDaaScore(this.add, o, other.add[o])
            \/ ContainsWithDaaScore(other.remove, o, this.remove[o])

\* The second: an outpoint added here and removed there.
AddedThenRemoved(this, other) ==
  \E o \in Outpoints :
    /\ this.add[o] # None /\ other.remove[o] # None
    /\ ~ /\ other.remove[o] # this.add[o]
         /\ \/ ContainsWithDaaScore(this.remove, o, other.remove[o])
            \/ ContainsWithDaaScore(other.add, o, this.add[o])

RemovedUnequally(this, other) ==
  \E o \in Outpoints : /\ this.remove[o] # None /\ other.remove[o] # None
                       /\ other.remove[o] # this.remove[o]

\* The last compares two answers about the whole collection, not outpoints.
AddedOverUnequalBases(this, other) ==
  LET in_both_to_add == IntersectionHavingDaaScore(this.add, other.add)
  IN Intersects(in_both_to_add, this.remove) # Intersects(in_both_to_add, other.remove)

DiffFromFails(this, other) ==
  \/ RemovedThenAdded(this, other) \/ AddedThenRemoved(this, other)
  \/ RemovedUnequally(this, other) \/ AddedOverUnequalBases(this, other)

DiffFrom(this, other) ==
  [remove |-> AddCollection(SubtractionHavingDaaScore(this.add, other.add),
                            SubtractionHavingDaaScore(other.remove, this.remove)),
   add |-> AddCollection(SubtractionHavingDaaScore(this.remove, other.remove),
                         SubtractionHavingDaaScore(other.add, this.add))]

-----------------------------------------------------------------------------
(* add_transaction spends the outpoints of `inputs` with their populated   *)
(* entries and then creates `outputs` at block_daa_score.                  *)
DoubleRemoveCall(d, inputs) ==
  \E o \in Outpoints : /\ inputs[o] # None
                       /\ ~ContainsWithDaaScore(d.add, o, inputs[o])
                       /\ d.remove[o] # None

RemoveEntries(d, inputs) ==
  [add |-> RemoveCollection(d.add, IntersectionHavingDaaScore(inputs, d.add)),
   remove |-> AddCollection(d.remove, SubtractionHavingDaaScore(inputs, d.add))]

DoubleAddCall(d, outputs, score) ==
  \E o \in outputs : ~ContainsWithDaaScore(d.remove, o, score) /\ d.add[o] # None

\* Bug: a removed entry that comes back is listed under both.
BugAddEntries(d, outputs, score) ==
  [add |-> [o \in Outpoints |-> IF o \in outputs THEN score ELSE d.add[o]],
   remove |-> d.remove]

AddEntries(d, outputs, score) ==
  [add |-> [o \in Outpoints |->
      IF o \in outputs /\ ~ContainsWithDaaScore(d.remove, o, score) THEN score ELSE d.add[o]],
   remove |-> [o \in Outpoints |->
      IF o \in outputs /\ ContainsWithDaaScore(d.remove, o, score) THEN None ELSE d.remove[o]]]

AddTransactionFails(d, inputs, outputs, score) ==
  DoubleRemoveCall(d, inputs) \/ DoubleAddCall(RemoveEntries(d, inputs), outputs, score)

AddTransaction(d, inputs, outputs, score) == AddEntries(RemoveEntries(d, inputs), outputs, score)
=============================================================================
