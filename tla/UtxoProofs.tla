----------------------------- MODULE UtxoProofs -----------------------------
(***************************************************************************)
(* What UtxoAlgebra's run checks for two outpoints and three DAA scores,   *)
(* proved for any sets of them.  Every operation of the algebra acts on    *)
(* each outpoint by itself, so each lemma comes down to a case analysis of *)
(* the entries of one outpoint.                                            *)
(***************************************************************************)
EXTENDS UtxoAlgebra, TLAPS

(* The loops of utxo_collection.rs yield collections.                      *)
LEMMA CollectionOps ==
  ASSUME NEW c \in Collection, NEW d \in Collection
  PROVE  /\ IntersectionHavingDaaScore(c, d) \in Collection
         /\ SubtractionHavingDaaScore(c, d) \in Collection
         /\ AddCollection(c, d) \in Collection
         /\ RemoveCollection(c, d) \in Collection
BY DEF Collection, IntersectionHavingDaaScore, SubtractionHavingDaaScore, AddCollection,
       RemoveCollection

(* with_diff_in_place yields a diff.                                       *)
LEMMA WithDiffType ==
  ASSUME NEW this \in Diff, NEW other \in Diff
  PROVE  WithDiffInPlace(this, other) \in Diff
<1> DEFINE remove1 == AddCollection(this.remove, SubtractionHavingDaaScore(other.remove, this.add))
           add1 == RemoveCollection(this.add, IntersectionHavingDaaScore(other.remove, this.add))
<1>1. /\ this.add \in Collection /\ this.remove \in Collection
      /\ other.add \in Collection /\ other.remove \in Collection
  BY DEF Diff
<1>2. remove1 \in Collection /\ add1 \in Collection
  BY <1>1, CollectionOps
<1> HIDE DEF remove1, add1
<1>3. /\ AddCollection(add1, SubtractionHavingDaaScore(other.add, remove1)) \in Collection
      /\ RemoveCollection(remove1, IntersectionHavingDaaScore(other.add, remove1)) \in Collection
  BY <1>1, <1>2, CollectionOps
<1> QED BY <1>3 DEF WithDiffInPlace, Diff, remove1, add1

(* The entries with_diff_in_place leaves for one outpoint.                 *)
LEMMA WithDiffAt ==
  ASSUME NEW this \in Diff, NEW other \in Diff, NEW o \in Outpoints
  PROVE  LET ta == this.add[o]
             tr == this.remove[o]
             oa == other.add[o]
             or == other.remove[o]
             r1 == IF or # None /\ ta # or THEN or ELSE tr
             a1 == IF or # None /\ ta = or THEN None ELSE ta
         IN /\ WithDiffInPlace(this, other).add[o] = IF oa # None /\ r1 # oa THEN oa ELSE a1
            /\ WithDiffInPlace(this, other).remove[o] = IF oa # None /\ r1 = oa THEN None ELSE r1
BY ScoresAssumption
   DEF WithDiffInPlace, AddCollection, RemoveCollection, IntersectionHavingDaaScore,
       SubtractionHavingDaaScore, ContainsWithDaaScore, Diff, Collection

(* The heart of the matter: a diff of a set followed by a diff of the set  *)
(* it leads to passes the sanity checks of with_diff_in_place and yields   *)
(* one diff with the effect of both, in normal form.                       *)
LEMMA WithDiffCorrect ==
  ASSUME NEW set \in Collection, NEW this \in Diff, NEW other \in Diff,
         ValidOn(set, this), ValidOn(Compose(set, this), other)
  PROVE  /\ ~WithDiffFails(this, other)
         /\ ValidOn(set, WithDiffInPlace(this, other))
         /\ Compose(set, WithDiffInPlace(this, other)) = Compose(Compose(set, this), other)
<1> USE DEF Diff, Collection
<1>1. ASSUME NEW o \in Outpoints
      PROVE  /\ set[o] \in Scores \cup {None}
             /\ this.add[o] \in Scores \cup {None} /\ this.remove[o] \in Scores \cup {None}
             /\ other.add[o] \in Scores \cup {None} /\ other.remove[o] \in Scores \cup {None}
  OBVIOUS
<1>2. \A o \in Outpoints :
        /\ this.remove[o] # None => set[o] = this.remove[o]
        /\ this.add[o] # None => /\ set[o] = None \/ this.remove[o] # None
                                 /\ this.add[o] # this.remove[o]
  BY DEF ValidOn
<1>3. \A o \in Outpoints :
        LET mid == IF this.add[o] # None THEN this.add[o]
                   ELSE IF this.remove[o] # None THEN None ELSE set[o]
        IN /\ other.remove[o] # None => mid = other.remove[o]
           /\ other.add[o] # None => /\ mid = None \/ other.remove[o] # None
                                     /\ other.add[o] # other.remove[o]
  BY DEF ValidOn, Compose
<1>4. ~DuplicateRemovePoint(this, other)
  BY <1>2, <1>3 DEF DuplicateRemovePoint, ContainsWithDaaScore
<1>5. ~DuplicateAddPoint(this, other)
  BY <1>2, <1>3 DEF DuplicateAddPoint, ContainsWithDaaScore
<1>6. ValidOn(set, WithDiffInPlace(this, other))
  <2> SUFFICES ASSUME NEW o \in Outpoints
               PROVE  LET d == WithDiffInPlace(this, other)
                      IN /\ d.remove[o] # None => set[o] = d.remove[o]
                         /\ d.add[o] # None => /\ set[o] = None \/ d.remove[o] # None
                                               /\ d.add[o] # d.remove[o]
    BY DEF ValidOn
  <2> QED BY <1>2, <1>3, WithDiffAt
<1>7. ASSUME NEW o \in Outpoints
      PROVE  Compose(set, WithDiffInPlace(this, other))[o] = Compose(Compose(set, this), other)[o]
  BY <1>2, <1>3, <1>7, WithDiffAt DEF Compose
<1>8. Compose(set, WithDiffInPlace(this, other)) = Compose(Compose(set, this), other)
  BY <1>7 DEF Compose
<1> QED BY <1>4, <1>5, <1>6, <1>8 DEF WithDiffFails

(* A diff in normal form is determined by the sets it leads from and to.   *)
LEMMA DiffUnique ==
  ASSUME NEW set \in Collection, NEW d \in Diff, NEW e \in Diff,
         ValidOn(set, d), ValidOn(set, e), Compose(set, d) = Compose(set, e)
  PROVE  d = e
<1>1. ASSUME NEW o \in Outpoints
      PROVE  d.add[o] = e.add[o] /\ d.remove[o] = e.remove[o]
  <2>1. Compose(set, d)[o] = Compose(set, e)[o]
    OBVIOUS
  <2> QED BY <2>1 DEF Compose, ValidOn, Diff, Collection
<1>2. d.add = e.add /\ d.remove = e.remove
  BY <1>1 DEF Diff, Collection
<1> QED BY <1>2 DEF Diff

(* The view a diff leads to is a collection, and the reversed diff leads   *)
(* back from it.                                                           *)
LEMMA ReversedCorrect ==
  ASSUME NEW set \in Collection, NEW d \in Diff, ValidOn(set, d)
  PROVE  /\ Compose(set, d) \in Collection
         /\ Reversed(d) \in Diff
         /\ ValidOn(Compose(set, d), Reversed(d))
         /\ Compose(Compose(set, d), Reversed(d)) = set
<1>1. Compose(set, d) \in Collection /\ Reversed(d) \in Diff
  BY DEF Compose, Reversed, Diff, Collection
<1>2. ValidOn(Compose(set, d), Reversed(d))
  BY DEF Compose, Reversed, Diff, Collection, ValidOn
<1>3. ASSUME NEW o \in Outpoints
      PROVE  Compose(Compose(set, d), Reversed(d))[o] = set[o]
  BY DEF Compose, Reversed, Diff, Collection, ValidOn
<1>4. Compose(Compose(set, d), Reversed(d)) = set
  BY <1>3 DEF Compose, Collection
<1> QED BY <1>1, <1>2, <1>4

(* The empty diff is a diff of every set and leads nowhere.                *)
LEMMA EmptyDiffCorrect ==
  ASSUME NEW set \in Collection
  PROVE  EmptyDiff \in Diff /\ ValidOn(set, EmptyDiff) /\ Compose(set, EmptyDiff) = set
BY DEF EmptyDiff, NoEntries, Diff, Collection, ValidOn, Compose

(* add_transaction on a diff is with_diff_in_place with the diff of the    *)
(* transaction, so it inherits WithDiffCorrect.                            *)
LEMMA AddTransactionCorrect ==
  ASSUME NEW set \in Collection, NEW d \in Diff, ValidOn(set, d),
         NEW inputs \in Collection, NEW outputs \in SUBSET Outpoints, NEW score \in Scores,
         \A o \in Outpoints : inputs[o] # None => inputs[o] = Compose(set, d)[o],
         \A o \in outputs : Compose(set, d)[o] = None
  PROVE  LET e == AddTransaction(d, inputs, outputs, score)
         IN /\ ~AddTransactionFails(d, inputs, outputs, score)
            /\ e \in Diff
            /\ ValidOn(set, e)
            /\ Compose(set, e) =
                 [o \in Outpoints |-> IF o \in outputs THEN score
                                      ELSE IF inputs[o] # None THEN None ELSE Compose(set, d)[o]]
<1> DEFINE tx == [add |-> [o \in Outpoints |-> IF o \in outputs THEN score ELSE None],
                  remove |-> inputs]
           mid == Compose(set, d)
<1>1. tx \in Diff /\ mid \in Collection
  BY DEF Diff, Collection, Compose
<1>2. ValidOn(mid, tx)
  BY ScoresAssumption DEF ValidOn, Collection
<1>3. AddTransaction(d, inputs, outputs, score) = WithDiffInPlace(d, tx)
  <2> DEFINE add1 == RemoveEntries(d, inputs).add
             remove1 == RemoveEntries(d, inputs).remove
  <2>1. /\ add1 = RemoveCollection(d.add, IntersectionHavingDaaScore(tx.remove, d.add))
        /\ remove1 = AddCollection(d.remove, SubtractionHavingDaaScore(tx.remove, d.add))
        /\ tx.add = [o \in Outpoints |-> IF o \in outputs THEN score ELSE None]
    BY DEF RemoveEntries
  <2>2. add1 \in Collection /\ remove1 \in Collection
    BY <1>1, <2>1, CollectionOps DEF Diff
  <2> HIDE DEF add1, remove1, tx
  <2>3. WithDiffInPlace(d, tx) =
          [add |-> AddCollection(add1, SubtractionHavingDaaScore(tx.add, remove1)),
           remove |-> RemoveCollection(remove1, IntersectionHavingDaaScore(tx.add, remove1))]
    BY <2>1 DEF WithDiffInPlace
  <2>4. AddTransaction(d, inputs, outputs, score) =
          [add |-> [o \in Outpoints |->
              IF o \in outputs /\ ~ContainsWithDaaScore(remove1, o, score)
              THEN score ELSE add1[o]],
           remove |-> [o \in Outpoints |->
              IF o \in outputs /\ ContainsWithDaaScore(remove1, o, score)
              THEN None ELSE remove1[o]]]
    BY DEF AddTransaction, AddEntries, add1, remove1
  <2>5. ASSUME NEW o \in Outpoints
        PROVE  /\ AddCollection(add1, SubtractionHavingDaaScore(tx.add, remove1))[o] =
                    IF o \in outputs /\ ~ContainsWithDaaScore(remove1, o, score)
                    THEN score ELSE add1[o]
               /\ RemoveCollection(remove1, IntersectionHavingDaaScore(tx.add, remove1))[o] =
                    IF o \in outputs /\ ContainsWithDaaScore(remove1, o, score)
                    THEN None ELSE remove1[o]
    BY <2>1, ScoresAssumption DEF AddCollection, RemoveCollection, SubtractionHavingDaaScore,
       IntersectionHavingDaaScore, ContainsWithDaaScore
  <2>6. /\ AddCollection(add1, SubtractionHavingDaaScore(tx.add, remove1)) =
             [o \in Outpoints |-> IF o \in outputs /\ ~ContainsWithDaaScore(remove1, o, score)
                                  THEN score ELSE add1[o]]
        /\ RemoveCollection(remove1, IntersectionHavingDaaScore(tx.add, remove1)) =
             [o \in Outpoints |-> IF o \in outputs /\ ContainsWithDaaScore(remove1, o, score)
                                  THEN None ELSE remove1[o]]
    BY <2>5 DEF AddCollection, RemoveCollection
  <2> QED BY <2>3, <2>4, <2>6
<1>4. /\ ~WithDiffFails(d, tx)
      /\ ValidOn(set, WithDiffInPlace(d, tx))
      /\ Compose(set, WithDiffInPlace(d, tx)) = Compose(mid, tx)
      /\ WithDiffInPlace(d, tx) \in Diff
  BY <1>1, <1>2, WithDiffCorrect, WithDiffType
<1>5. ~DoubleRemoveCall(d, inputs)
  BY <1>4 DEF WithDiffFails, DuplicateRemovePoint, DoubleRemoveCall
<1>6. ~DoubleAddCall(RemoveEntries(d, inputs), outputs, score)
  BY DEF DoubleAddCall, RemoveEntries, RemoveCollection, AddCollection, Compose,
         IntersectionHavingDaaScore, SubtractionHavingDaaScore, ContainsWithDaaScore,
         Diff, Collection, ValidOn
<1>7. Compose(mid, tx) =
        [o \in Outpoints |-> IF o \in outputs THEN score
                             ELSE IF inputs[o] # None THEN None ELSE mid[o]]
  BY ScoresAssumption DEF Compose, Collection
<1> QED BY <1>3, <1>4, <1>5, <1>6, <1>7 DEF AddTransactionFails

-----------------------------------------------------------------------------
(* The two diffs of diff_from's comment come from the same base: none of   *)
(* its sanity checks fails then, and the result leads from one to the      *)
(* other.                                                                  *)
LEMMA DiffFromCorrect ==
  ASSUME NEW set \in Collection, NEW this \in Diff, NEW other \in Diff,
         ValidOn(set, this), ValidOn(set, other)
  PROVE  /\ ~DiffFromFails(this, other)
         /\ DiffFrom(this, other) \in Diff
         /\ ValidOn(Compose(set, this), DiffFrom(this, other))
         /\ Compose(Compose(set, this), DiffFrom(this, other)) = Compose(set, other)
<1> USE DEF Diff, Collection
<1>0. \A o \in Outpoints :
        /\ this.remove[o] # None => set[o] = this.remove[o]
        /\ this.add[o] # None => /\ set[o] = None \/ this.remove[o] # None
                                 /\ this.add[o] # this.remove[o]
        /\ other.remove[o] # None => set[o] = other.remove[o]
        /\ other.add[o] # None => /\ set[o] = None \/ other.remove[o] # None
                                  /\ other.add[o] # other.remove[o]
  BY DEF ValidOn
<1>1. ~RemovedThenAdded(this, other)
  BY <1>0 DEF RemovedThenAdded, ContainsWithDaaScore
<1>2. ~AddedThenRemoved(this, other)
  BY <1>0 DEF AddedThenRemoved, ContainsWithDaaScore
<1>3. ~RemovedUnequally(this, other)
  BY <1>0 DEF RemovedUnequally
<1>4. ~AddedOverUnequalBases(this, other)
  <2> DEFINE both == IntersectionHavingDaaScore(this.add, other.add)
  <2>1. \A o \in Outpoints : both[o] # None => this.add[o] # None /\ other.add[o] # None
    BY DEF IntersectionHavingDaaScore, ContainsWithDaaScore
  <2> HIDE DEF both
  <2>2. \A o \in Outpoints :
          both[o] # None => (this.remove[o] # None <=> other.remove[o] # None)
    BY <1>0, <2>1
  <2>3. Intersects(both, this.remove) = Intersects(both, other.remove)
    BY <2>2, Zenon DEF Intersects
  <2> QED BY <2>3 DEF AddedOverUnequalBases, both
<1>5. DiffFrom(this, other) \in Diff
  <2>1. /\ this.add \in Collection /\ this.remove \in Collection
        /\ other.add \in Collection /\ other.remove \in Collection
    OBVIOUS
  <2>2. /\ SubtractionHavingDaaScore(this.add, other.add) \in Collection
        /\ SubtractionHavingDaaScore(other.remove, this.remove) \in Collection
        /\ SubtractionHavingDaaScore(this.remove, other.remove) \in Collection
        /\ SubtractionHavingDaaScore(other.add, this.add) \in Collection
    BY <2>1, CollectionOps
  <2>3. DiffFrom(this, other).add \in Collection /\ DiffFrom(this, other).remove \in Collection
    BY <2>2, CollectionOps DEF DiffFrom
  <2> QED BY <2>3 DEF DiffFrom
<1>6. ASSUME NEW o \in Outpoints
      PROVE  /\ DiffFrom(this, other).remove[o] =
                  IF other.remove[o] # None /\ this.remove[o] # other.remove[o]
                  THEN other.remove[o]
                  ELSE IF this.add[o] # None /\ other.add[o] # this.add[o] THEN this.add[o] ELSE None
             /\ DiffFrom(this, other).add[o] =
                  IF other.add[o] # None /\ this.add[o] # other.add[o] THEN other.add[o]
                  ELSE IF this.remove[o] # None /\ other.remove[o] # this.remove[o]
                       THEN this.remove[o] ELSE None
  BY ScoresAssumption
     DEF DiffFrom, AddCollection, SubtractionHavingDaaScore, ContainsWithDaaScore
<1>7. ValidOn(Compose(set, this), DiffFrom(this, other))
  <2> SUFFICES ASSUME NEW o \in Outpoints
               PROVE  LET d == DiffFrom(this, other)
                          mid == Compose(set, this)
                      IN /\ d.remove[o] # None => mid[o] = d.remove[o]
                         /\ d.add[o] # None => /\ mid[o] = None \/ d.remove[o] # None
                                               /\ d.add[o] # d.remove[o]
    BY DEF ValidOn
  <2> QED BY <1>0, <1>6 DEF Compose
<1>8. ASSUME NEW o \in Outpoints
      PROVE  Compose(Compose(set, this), DiffFrom(this, other))[o] = Compose(set, other)[o]
  BY <1>0, <1>6 DEF Compose
<1>9. Compose(Compose(set, this), DiffFrom(this, other)) = Compose(set, other)
  BY <1>8 DEF Compose
<1> QED BY <1>1, <1>2, <1>3, <1>4, <1>5, <1>7, <1>9 DEF DiffFromFails

-----------------------------------------------------------------------------
(* DiffExact is inductive together with the types of the variables.        *)
LEMMA ExactInit == Init => TypeOK /\ DiffExact
BY EmptyDiffCorrect DEF Init, TypeOK, DiffExact

(* Each operation on the accumulated diff keeps it exact.                  *)
LEMMA ExactStep == TypeOK /\ DiffExact /\ [Next]_vars => TypeOK' /\ DiffExact'
<1> SUFFICES ASSUME TypeOK, DiffExact, [Next]_vars PROVE TypeOK' /\ DiffExact'
  OBVIOUS
<1> USE DEF TypeOK, DiffExact
<1>1. ASSUME NEW d \in DiffsOn(view), Accumulate(d) PROVE TypeOK' /\ DiffExact'
  <2>1. d \in Diff /\ ValidOn(view, d)
    BY DEF DiffsOn
  <2>2. /\ ~WithDiffFails(diff, d)
        /\ WithDiffInPlace(diff, d) \in Diff
        /\ ValidOn(base, WithDiffInPlace(diff, d))
        /\ Compose(base, WithDiffInPlace(diff, d)) = Compose(view, d)
    BY <2>1, WithDiffCorrect, WithDiffType
  <2>3. Compose(view, d) \in Collection
    BY <2>1, ReversedCorrect
  <2>4. /\ failed' = FALSE /\ base' = base
        /\ diff' = WithDiffInPlace(diff, d) /\ view' = Compose(view, d)
    BY <1>1, <2>2 DEF Accumulate
  <2> QED BY <2>2, <2>3, <2>4
<1>2. ASSUME NEW inputs \in Collection, NEW outputs \in SUBSET Outpoints, NEW score \in Scores,
             Accept(inputs, outputs, score)
      PROVE  TypeOK' /\ DiffExact'
  <2> DEFINE e == AddTransaction(diff, inputs, outputs, score)
             after == [o \in Outpoints |-> IF o \in outputs THEN score
                                           ELSE IF inputs[o] # None THEN None ELSE view[o]]
  <2>0. /\ \A o \in Outpoints : inputs[o] # None => inputs[o] = Compose(base, diff)[o]
        /\ \A o \in outputs : Compose(base, diff)[o] = None
        /\ base \in Collection /\ diff \in Diff /\ ValidOn(base, diff)
        /\ Compose(base, diff) = view
    BY <1>2 DEF Accept
  <2>1. /\ ~AddTransactionFails(diff, inputs, outputs, score)
        /\ e \in Diff /\ ValidOn(base, e) /\ Compose(base, e) = after
    <3> HIDE DEF TypeOK, DiffExact
    <3> QED BY <2>0, AddTransactionCorrect
  <2>2. after \in Collection
    BY DEF Collection
  <2> HIDE DEF e, after
  <2>3. diff' = e /\ view' = after /\ failed' = FALSE /\ base' = base
    BY <1>2, <2>1 DEF Accept, e, after
  <2> QED BY <2>1, <2>2, <2>3
<1>3. CASE Write
  BY <1>3, EmptyDiffCorrect DEF Write
<1>4. CASE UNCHANGED vars
  BY <1>4 DEF vars, ValidOn, Compose
<1> QED BY <1>1, <1>2, <1>3, <1>4 DEF Next

(* The diff resolve_virtual accumulates is the exact difference between    *)
(* the stored UTXO set and the view it has reached, and none of the        *)
(* unwraps on the way panics.                                              *)
THEOREM AccumulatedDiffExact == Spec => []DiffExact
BY ExactInit, ExactStep, PTL DEF Spec

(* diff_from of two diffs with a common base succeeds and is the step from *)
(* the first to the second.                                                *)
THEOREM DiffFromIsStep == Spec => []DiffFromExact
<1>1. TypeOK /\ DiffExact => DiffFromExact
  <2> SUFFICES ASSUME TypeOK, DiffExact, NEW d \in DiffsOn(base)
               PROVE  /\ ~DiffFromFails(diff, d)
                      /\ ~WithDiffFails(diff, DiffFrom(diff, d))
                      /\ WithDiffInPlace(diff, DiffFrom(diff, d)) = d
    BY DEF DiffFromExact
  <2> DEFINE step == DiffFrom(diff, d)
  <2>1. d \in Diff /\ ValidOn(base, d) /\ diff \in Diff /\ ValidOn(base, diff)
        /\ base \in Collection
    BY DEF DiffsOn, TypeOK, DiffExact
  <2>2. /\ ~DiffFromFails(diff, d) /\ step \in Diff /\ ValidOn(Compose(base, diff), step)
        /\ Compose(Compose(base, diff), step) = Compose(base, d)
    BY <2>1, DiffFromCorrect
  <2> HIDE DEF step
  <2>3. /\ ~WithDiffFails(diff, step) /\ ValidOn(base, WithDiffInPlace(diff, step))
        /\ Compose(base, WithDiffInPlace(diff, step)) = Compose(base, d)
        /\ WithDiffInPlace(diff, step) \in Diff
    BY <2>1, <2>2, WithDiffCorrect, WithDiffType
  <2>4. WithDiffInPlace(diff, step) = d
    BY <2>1, <2>3, DiffUnique
  <2> QED BY <2>2, <2>3, <2>4 DEF step
<1> QED BY <1>1, ExactInit, ExactStep, PTL DEF Spec

(* Applying a chain block's diff and then its reverse, as a reorg down and *)
(* up does, restores the accumulated diff itself, not just its effect.     *)
THEOREM ReverseRestores == Spec => []ReverseUndoes
<1>1. TypeOK /\ DiffExact => ReverseUndoes
  <2> SUFFICES ASSUME TypeOK, DiffExact, NEW d \in DiffsOn(view)
               PROVE  /\ ValidOn(Compose(view, d), Reversed(d))
                      /\ ~WithDiffFails(WithDiffInPlace(diff, d), Reversed(d))
                      /\ WithDiffInPlace(WithDiffInPlace(diff, d), Reversed(d)) = diff
    BY DEF ReverseUndoes
  <2> DEFINE there == WithDiffInPlace(diff, d)
  <2>1. /\ d \in Diff /\ ValidOn(view, d) /\ diff \in Diff /\ ValidOn(base, diff)
        /\ base \in Collection /\ view \in Collection /\ Compose(base, diff) = view
    BY DEF DiffsOn, TypeOK, DiffExact
  <2>2. /\ there \in Diff /\ ValidOn(base, there) /\ Compose(base, there) = Compose(view, d)
    BY <2>1, WithDiffCorrect, WithDiffType
  <2>3. /\ Reversed(d) \in Diff /\ ValidOn(Compose(view, d), Reversed(d))
        /\ Compose(Compose(view, d), Reversed(d)) = view
    BY <2>1, ReversedCorrect
  <2> HIDE DEF there
  <2>4. /\ ~WithDiffFails(there, Reversed(d)) /\ ValidOn(base, WithDiffInPlace(there, Reversed(d)))
        /\ Compose(base, WithDiffInPlace(there, Reversed(d))) = view
        /\ WithDiffInPlace(there, Reversed(d)) \in Diff
    BY <2>1, <2>2, <2>3, WithDiffCorrect, WithDiffType
  <2>5. WithDiffInPlace(there, Reversed(d)) = diff
    BY <2>1, <2>4, DiffUnique
  <2> QED BY <2>3, <2>4, <2>5 DEF there
<1> QED BY <1>1, ExactInit, ExactStep, PTL DEF Spec
=============================================================================
