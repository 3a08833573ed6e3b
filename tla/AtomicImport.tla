----------------------------- MODULE AtomicImport -----------------------------
(***************************************************************************)
(* What importing promises the catalog: a product row comes from a batch   *)
(* all of whose rows are valid, and the rows of a batch arrive together.   *)
(***************************************************************************)
EXTENDS Naturals, Sequences

CONSTANTS
    Batch,    \* uploaded files
    Sku,      \* product keys
    Rows,     \* Rows[b]: the SKUs of b's rows, in file order
    Invalid,  \* batches with a row that fails validation
    NoRow     \* "no such product"

VARIABLE products  \* products[s]: the batch and row last stored for s

Skus(b) == {Rows[b][i] : i \in DOMAIN Rows[b]}

\* The last of the first n rows of b that names s.
IsLast(b, n, s, i) ==
    /\ i \in 1 .. n
    /\ Rows[b][i] = s
    /\ \A k \in 1 .. n : Rows[b][k] = s => k <= i

\* The catalog after the rows of b were stored in order.
Stored(b) ==
    [s \in Sku |-> IF s \in Skus(b)
                   THEN <<b, CHOOSE i \in 1 .. Len(Rows[b]) :
                                IsLast(b, Len(Rows[b]), s, i)>>
                   ELSE products[s]]

Init == products = [s \in Sku |-> NoRow]

Import(b) == b \notin Invalid /\ products' = Stored(b)

Next == \E b \in Batch : Import(b)

Spec == Init /\ [][Next]_products
=============================================================================
