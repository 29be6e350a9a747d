----------------------------- MODULE MCPipeline -----------------------------
(***************************************************************************)
(* Small instances of Pipeline above genesis g.  Chain: a, and b on a.     *)
(* Merge: a and b side by side, and c merging them.                        *)
(***************************************************************************)
EXTENDS Pipeline, TLC

CONSTANTS g, a, b, c, good, bad

ChainParents == (g :> {}) @@ (a :> {g}) @@ (b :> {a})
ChainRank == (g :> 0) @@ (a :> 1) @@ (b :> 2)
ChainVerdict(va, vb) == (g :> "ok") @@ (a :> va) @@ (b :> vb)
ChainVerdicts == {ChainVerdict("ok", "bodyContext"), ChainVerdict("utxo", "ok"),
                  ChainVerdict("bodyIsolation", "ok"), ChainVerdict("postPow", "headerIsolation"),
                  ChainVerdict("ok", "prePow")}

MergeParents == (g :> {}) @@ (a :> {g}) @@ (b :> {g}) @@ (c :> {a, b})
MergeRank == (g :> 0) @@ (a :> 1) @@ (b :> 2) @@ (c :> 3)
MergeVerdict(va, vb) == (g :> "ok") @@ (a :> va) @@ (b :> vb) @@ (c :> "ok")
MergeVerdicts == {MergeVerdict("ok", "ok"), MergeVerdict("bodyIsolation", "ok"),
                  MergeVerdict("ok", "utxo")}

CallersSymmetry == Permutations(Callers)
=============================================================================
