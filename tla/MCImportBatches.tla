--------------------------- MODULE MCImportBatches ---------------------------
(* Small instances of ImportBatches: two valid batches that name the same   *)
(* SKUs in opposite orders, one of them twice, and a batch with a bad row.  *)
EXTENDS ImportBatches, TLC

CONSTANTS b1, b2, b3, x, y, h1, h2

MCBatch == {b1, b2, b3}
MCSku == {x, y}
MCRows == (b1 :> <<x, y>>) @@ (b2 :> <<y, x, y>>) @@ (b3 :> <<x>>)
MCInvalid == {b3}
MCHandler == {h1, h2}
MCSymmetry == Permutations(MCHandler)
=============================================================================
