---------------------------- MODULE ImportBatches ----------------------------
(***************************************************************************)
(* Bulk product import, products/import.rs: upload, re-validation, commit  *)
(* and cancellation of a batch, by handlers that interleave.               *)
(*                                                                         *)
(* Upload and commit are database transactions, validate and cancel are a  *)
(* read and an unguarded UPDATE.  A commit checks the batch before its     *)
(* transaction begins and then takes the rows one at a time at READ        *)
(* COMMITTED: a SELECT of the product as it is, an upsert that waits for   *)
(* and then holds the row lock, the history record.  The rows of a batch   *)
(* never change after upload, so validating again writes the same verdict. *)
(***************************************************************************)
EXTENDS Naturals, Sequences, FiniteSets

CONSTANTS
    Batch,       \* import_batches rows that may be uploaded
    Sku,         \* product keys
    Rows,        \* Rows[b]: the SKUs of b's rows, in row_number order
    Invalid,     \* batches with a row that fails validate_row
    NoRow,       \* "no such product"
    Handler,     \* requests that may be in flight
    MaxCommits   \* bound: commits of one batch

ASSUME RowsAssumption == Rows \in [Batch -> Seq(Sku)]
ASSUME InvalidAssumption == Invalid \subseteq Batch
ASSUME NoRowAssumption == NoRow \notin Batch \X Nat
ASSUME BoundAssumption == MaxCommits \in Nat

VARIABLES
    status,    \* import_batches.status
    errors,    \* import_batches.error_count > 0
    products,  \* products[s]: the batch and row number last stored, committed
    history,   \* history[s]: product_history of s in commit order
    hnd,       \* handlers in flight
    commits,   \* commits[b]: transactions that committed b (history)
    told       \* told[b]: import.committed notifications inserted

vars == <<status, errors, products, history, hnd, commits, told>>

Status == {"absent", "uploaded", "validated", "committed", "cancelled"}
Value  == (Batch \X Nat) \cup {NoRow}
Entry  == [before : Value, after : Batch \X Nat]

\* at: the row a commit works on.  writes and log are the transaction's own
\* product rows and history records, invisible to others until it commits.
Steps  == {"validate", "cancel", "read", "upsert", "notify"}
Flight == [step : Steps, batch : Batch, at : Nat, before : Value,
           writes : [Sku -> Value], log : [Sku -> Seq(Entry)]]
Idle == [step |-> "idle"]

TypeOK ==
    /\ status \in [Batch -> Status]
    /\ errors \in [Batch -> BOOLEAN]
    /\ products \in [Sku -> Value]
    /\ history \in [Sku -> Seq(Entry)]
    /\ hnd \in [Handler -> Flight \cup {Idle}]
    /\ commits \in [Batch -> Nat]
    /\ told \in [Batch -> Nat]

Init ==
    /\ status = [b \in Batch |-> "absent"]
    /\ errors = [b \in Batch |-> FALSE]
    /\ products = [s \in Sku |-> NoRow]
    /\ history = [s \in Sku |-> <<>>]
    /\ hnd = [h \in Handler |-> Idle]
    /\ commits = [b \in Batch |-> 0]
    /\ told = [b \in Batch |-> 0]

-----------------------------------------------------------------------------
Start(h, step, b) ==
    /\ hnd[h] = Idle
    /\ hnd' = [hnd EXCEPT ![h] =
                 [step |-> step, batch |-> b, at |-> 1, before |-> NoRow,
                  writes |-> [s \in Sku |-> NoRow],
                  log |-> [s \in Sku |-> <<>>]]]

Finish(h) == hnd' = [hnd EXCEPT ![h] = Idle]

\* The verdict of validate_row over the rows, as validate and upload store it.
Verdict(b) ==
    /\ status' = [status EXCEPT ![b] =
                    IF b \in Invalid THEN "uploaded" ELSE "validated"]
    /\ errors' = [errors EXCEPT ![b] = b \in Invalid]

\* POST /imports: batch, rows and verdict in one transaction.
Upload(b) ==
    /\ status[b] = "absent"
    /\ Verdict(b)
    /\ UNCHANGED <<products, history, hnd, commits, told>>

\* POST /imports/{id}/validate: the status check.
ValidateRead(h, b) ==
    /\ status[b] \in {"uploaded", "validated"}
    /\ Start(h, "validate", b)
    /\ UNCHANGED <<status, errors, products, history, commits, told>>

\* The final UPDATE, whatever the status is by now.
ValidateWrite(h) ==
    /\ hnd[h].step = "validate"
    /\ Verdict(hnd[h].batch)
    /\ Finish(h)
    /\ UNCHANGED <<products, history, commits, told>>

\* POST /imports/{id}/cancel: the status check.
CancelRead(h, b) ==
    /\ status[b] \in {"uploaded", "validated"}
    /\ Start(h, "cancel", b)
    /\ UNCHANGED <<status, errors, products, history, commits, told>>

\* Slip: the status is spelt as docs/design.md spells it.
CancelWriteSpelt(h) ==
    /\ hnd[h].step = "cancel"
    /\ status' = [status EXCEPT ![hnd[h].batch] = "canceled"]
    /\ Finish(h)
    /\ UNCHANGED <<errors, products, history, commits, told>>

CancelWrite(h) ==
    /\ hnd[h].step = "cancel"
    /\ status' = [status EXCEPT ![hnd[h].batch] = "cancelled"]
    /\ Finish(h)
    /\ UNCHANGED <<errors, products, history, commits, told>>

-----------------------------------------------------------------------------
(* POST /imports/{id}/commit *)

\* Slip: any open batch may be committed.
CommitReadOpen(h, b) ==
    /\ status[b] \in {"uploaded", "validated"}
    /\ Start(h, "read", b)
    /\ UNCHANGED <<status, errors, products, history, commits, told>>

CommitRead(h, b) ==
    /\ status[b] = "validated"
    /\ ~ errors[b]
    /\ Start(h, "read", b)
    /\ UNCHANGED <<status, errors, products, history, commits, told>>

InTx(f) == f.step \in {"read", "upsert"}
RowAt(f) == Rows[f.batch][f.at]

\* What a transaction sees of a product: its own write, or the committed row.
Seen(f, s) == IF f.writes[s] # NoRow THEN f.writes[s] ELSE products[s]

\* Rows another transaction has written stay locked until it ends.
Locked(h, s) ==
    \E g \in Handler \ {h} : InTx(hnd[g]) /\ hnd[g].writes[s] # NoRow

\* Slip: the SELECT comes after the upsert and reads its own row.
ReadBeforeLate(h) ==
    /\ hnd[h].step = "read"
    /\ hnd[h].at \in DOMAIN Rows[hnd[h].batch]
    /\ hnd' = [hnd EXCEPT ![h].step = "upsert",
                          ![h].before = <<hnd[h].batch, hnd[h].at>>]
    /\ UNCHANGED <<status, errors, products, history, commits, told>>

\* SELECT to_jsonb(p) ... WHERE sku = $1: it takes no lock and waits for none.
ReadBefore(h) ==
    /\ hnd[h].step = "read"
    /\ hnd[h].at \in DOMAIN Rows[hnd[h].batch]
    /\ hnd' = [hnd EXCEPT ![h].step = "upsert",
                          ![h].before = Seen(hnd[h], RowAt(hnd[h]))]
    /\ UNCHANGED <<status, errors, products, history, commits, told>>

\* Slip: the rows are fetched without ORDER BY row_number, last one first.
UpsertReversed(h) ==
    /\ hnd[h].step = "upsert"
    /\ LET f == hnd[h]
           i == Len(Rows[f.batch]) + 1 - f.at
           s == Rows[f.batch][i]
           v == <<f.batch, i>>
       IN /\ ~ Locked(h, s)
          /\ hnd' = [hnd EXCEPT ![h] =
                       [f EXCEPT !.step = "read", !.at = f.at + 1,
                                 !.writes[s] = v,
                                 !.log[s] = Append(@, [before |-> f.before,
                                                       after |-> v])]]
    /\ UNCHANGED <<status, errors, products, history, commits, told>>

\* The upsert, the re-read of the row it now holds, and the history record.
Upsert(h) ==
    /\ hnd[h].step = "upsert"
    /\ ~ Locked(h, RowAt(hnd[h]))
    /\ LET f == hnd[h]
           s == RowAt(f)
           v == <<f.batch, f.at>>
       IN hnd' = [hnd EXCEPT ![h] =
                    [f EXCEPT !.step = "read", !.at = f.at + 1,
                              !.writes[s] = v,
                              !.log[s] = Append(@, [before |-> f.before,
                                                    after |-> v])]]
    /\ UNCHANGED <<status, errors, products, history, commits, told>>

\* Slip: ON CONFLICT DO NOTHING, with the history written all the same.
CommitTxKeeps(h) ==
    /\ hnd[h].step = "read"
    /\ hnd[h].at \notin DOMAIN Rows[hnd[h].batch]
    /\ LET f == hnd[h] IN
         /\ commits[f.batch] < MaxCommits
         /\ status' = [status EXCEPT ![f.batch] = "committed"]
         /\ commits' = [commits EXCEPT ![f.batch] = @ + 1]
         /\ products' = [s \in Sku |-> IF products[s] = NoRow THEN Seen(f, s)
                                       ELSE products[s]]
         /\ history' = [s \in Sku |-> history[s] \o f.log[s]]
    /\ hnd' = [hnd EXCEPT ![h].step = "notify"]
    /\ UNCHANGED <<errors, told>>

\* The unguarded UPDATE of the batch and COMMIT.
CommitTx(h) ==
    /\ hnd[h].step = "read"
    /\ hnd[h].at \notin DOMAIN Rows[hnd[h].batch]
    /\ LET f == hnd[h] IN
         /\ commits[f.batch] < MaxCommits
         /\ status' = [status EXCEPT ![f.batch] = "committed"]
         /\ commits' = [commits EXCEPT ![f.batch] = @ + 1]
         /\ products' = [s \in Sku |-> Seen(f, s)]
         /\ history' = [s \in Sku |-> history[s] \o f.log[s]]
    /\ hnd' = [hnd EXCEPT ![h].step = "notify"]
    /\ UNCHANGED <<errors, told>>

\* emit_import_committed, after the transaction; its failure is ignored.
Notify(h) ==
    /\ hnd[h].step = "notify"
    /\ told' = [told EXCEPT ![hnd[h].batch] = @ + 1]
    /\ Finish(h)
    /\ UNCHANGED <<status, errors, products, history, commits>>

\* Slip: no transaction, so what a commit cut short has written stays.
DropKeeps(h) ==
    /\ hnd[h] # Idle
    /\ IF InTx(hnd[h])
       THEN /\ products' = [s \in Sku |-> Seen(hnd[h], s)]
            /\ history' = [s \in Sku |-> history[s] \o hnd[h].log[s]]
       ELSE UNCHANGED <<products, history>>
    /\ Finish(h)
    /\ UNCHANGED <<status, errors, commits, told>>

\* The budget, a failing statement, a deadlock the database breaks or a crash
\* ends the handler; an open transaction is rolled back.
Drop(h) ==
    /\ hnd[h] # Idle
    /\ Finish(h)
    /\ UNCHANGED <<status, errors, products, history, commits, told>>

-----------------------------------------------------------------------------
Next ==
    \/ \E b \in Batch : Upload(b)
    \/ \E h \in Handler, b \in Batch :
          ValidateRead(h, b) \/ CancelRead(h, b) \/ CommitRead(h, b)
    \/ \E h \in Handler :
          \/ ValidateWrite(h)
          \/ CancelWrite(h)
          \/ ReadBefore(h)
          \/ Upsert(h)
          \/ CommitTx(h)
          \/ Notify(h)
          \/ Drop(h)

Spec == Init /\ [][Next]_vars

-----------------------------------------------------------------------------
(* Properties *)

\* Records of b in the history of s.
Records(b, s) == {i \in DOMAIN history[s] : history[s][i].after[1] = b}

\* A batch reaches the catalog wholly or not at all, wherever its handler was
\* cut off: every SKU has one history record per row and commit of the batch.
\* The uploader is never told of a commit that did not happen.
WholeBatches ==
    \A b \in Batch :
        /\ \A s \in Sku :
              Cardinality(Records(b, s)) =
                 commits[b] * Cardinality({i \in DOMAIN Rows[b] : Rows[b][i] = s})
        /\ told[b] <= commits[b]

\* A batch with an invalid row never gets past "uploaded": however validation,
\* commit and cancellation overlap, none of its rows is stored.
InvalidKeptOut ==
    /\ \A b \in Invalid : status[b] \notin {"validated", "committed"}
    /\ \A s \in Sku : products[s] # NoRow => products[s][1] \notin Invalid

\* What reaches the catalog is a whole batch of valid rows, wherever the commit
\* was cut off and however it overlapped with the other handlers of the batch.
WholeValidBatches == WholeBatches /\ InvalidKeptOut

\* The newest history record of a product is what the product holds: commits
\* that overlap on a SKU are ordered by its row lock until they commit.
HistoryEndsAtRow ==
    \A s \in Sku :
        products[s] = IF history[s] = <<>> THEN NoRow
                      ELSE history[s][Len(history[s])].after

\* The before image of a record may be out of date (the SELECT takes no lock),
\* but it is never a row that was rolled back or not yet committed: some
\* earlier record of the product left it.
BeforeWasStored ==
    \A s \in Sku : \A i \in DOMAIN history[s] :
        LET b == history[s][i].before IN
        b = NoRow \/ \E k \in 1 .. i - 1 : history[s][k].after = b

\* The history of a product, before images included, tells of committed rows
\* only and leads to the row that is stored.
HistoryTrue == HistoryEndsAtRow /\ BeforeWasStored

\* The catalog changes by whole batches of valid rows only: what commit_import
\* does in many statements is one step of AtomicImport, and the rest a stutter.
Atomic == INSTANCE AtomicImport
          WITH Batch <- Batch, Sku <- Sku, Rows <- Rows, Invalid <- Invalid,
               NoRow <- NoRow, products <- products
ImplementsAtomicImport == Atomic!Spec

-----------------------------------------------------------------------------
(* What the documentation promises and the code does not do *)

\* docs/design.md, state machines: "No reopen of `committed`".
NoReopen ==
    [][\A b \in Batch :
         status[b] = "committed" => status'[b] = "committed"]_vars
=============================================================================
