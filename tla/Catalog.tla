------------------------------- MODULE Catalog -------------------------------
(***************************************************************************)
(* The product catalog: products/handlers.rs, repo.rs, history.rs,         *)
(* tax_rates.rs, images.rs, storage/images.rs, crypto/signed_url.rs, and   *)
(* the rows of an import as commit_import stores them (ImportBatches has   *)
(* the batches).                                                           *)
(*                                                                         *)
(* A call is a list of statements.  Each commits by itself, except those   *)
(* of an import; the history record is a statement of its own.  The budget *)
(* or a failing statement may cut the list short anywhere.  Of a product   *)
(* the model keeps the call that wrote its fields last and the on_shelf    *)
(* flag; its SKU does not change.                                          *)
(***************************************************************************)
EXTENDS Integers, Sequences, FiniteSets

CONSTANTS
    Sku, State,    \* product keys; state_codes
    Ttl,           \* MAX_TTL_SECONDS
    MaxRunning,    \* bound: calls at once
    Mixes          \* bounds of a behaviour: the kinds of its calls, their
                   \* products and number, the last moment

ASSUME TtlAssumption == Ttl \in Nat
ASSUME BoundAssumption ==
    /\ MaxRunning \in Nat
    /\ \A m \in Mixes : m.skus \subseteq Sku /\ {m.calls, m.time} \subseteq Nat

VARIABLES
    product,   \* products
    rate,      \* product_tax_rates
    image,     \* product_images
    file,      \* the image files on disk, by image
    history,   \* product_history of each product, in commit order
    call,      \* the calls so far
    url,       \* signed URLs handed out
    now, mix,
    past       \* history of the model

vars == <<product, rate, image, file, history, call, url, now, mix, past>>

Made == DOMAIN call
Seed == 0      \* the call that stored what is there at the start
NoRow == <<>>
Row == [val : Made \cup {Seed}, shelf : BOOLEAN, deleted : BOOLEAN]
Shown(row) == IF row = NoRow THEN NoRow ELSE <<row.val, row.shelf>>
Finished == {"ok", "refused", "cut"}
Statement == {"exists", "before", "update", "after", "delete", "shelf", "insert",
              "begin", "upsert", "commit", "rate", "rerate", "unrate", "file", "bytes",
              "row", "find", "unrow", "unfile", "detail", "verify", "fetch",
              "read", "notify", "record"}

TypeOK ==
    /\ \A s \in Sku : product[s] \in Row \cup {NoRow}
    /\ rate \subseteq [id : Made, sku : Sku, state : State, val : Made]
    /\ image \subseteq [id : Made, sku : Sku]
    /\ \A i \in DOMAIN file : i \in Made /\ file[i] \in {"part", "whole"}
    /\ \A s \in Sku : \A i \in DOMAIN history[s] :
          LET h == history[s][i] IN
          h.call \in Made \cup {Seed} /\ h.stamp <= Len(history[s])
    /\ Made = 1..Len(call) /\ Len(call) <= mix.calls
    /\ \A c \in Made : call[c].todo \in Seq(Statement)
                       /\ call[c].result \in {"running"} \cup Finished
    /\ url \subseteq [image : Made, exp : Nat]
    /\ mix \in Mixes /\ now \in 0..mix.time

Init ==
    /\ mix \in Mixes
    /\ \E there \in SUBSET mix.skus :
          /\ product = [s \in Sku |-> IF s \in there
                          THEN [val |-> Seed, shelf |-> TRUE, deleted |-> FALSE]
                          ELSE NoRow]
          /\ history = [s \in Sku |-> IF s \in there
                          THEN <<[call |-> Seed, op |-> "create", stamp |-> 1,
                                  before |-> NoRow, after |-> <<Seed, TRUE>>]>>
                          ELSE <<>>]
    /\ rate = {} /\ image = {} /\ file = <<>>
    /\ call = <<>> /\ url = {} /\ now = 0
    /\ past = [mixed |-> {}, told |-> {}, done |-> {}, late |-> {}]

Live(s) == product[s] # NoRow /\ ~product[s].deleted

-----------------------------------------------------------------------------
(* A call arrives *)

Running == {c \in Made : call[c].result = "running"}
On(s) == {c \in Running : call[c].on = s}

\* The changes of the product itself, which overlap when one begins before the
\* other has ended.
Edits == {"create", "update", "delete", "status"}

\* What the call is about was deleted before it came.
Gone(op, s, arg) ==
    IF op = "serve" THEN \A i \in image : i.id # arg.image
    ELSE product[s] # NoRow /\ ~Live(s)

Arrive(op, s, arg, todo) ==
    /\ op \in mix.kinds /\ s \in mix.skus
    /\ Len(call) < mix.calls /\ Cardinality(Running) < MaxRunning
    /\ call' = Append(call, [op |-> op, on |-> s, arg |-> arg, todo |-> todo,
                             result |-> "running", before |-> NoRow,
                             after |-> NoRow, stamp |-> Len(history[s]) + 1,
                             gone |-> Gone(op, s, arg)])
    /\ past' = IF op \in Edits /\ \E c \in On(s) : call[c].op \in Edits \cup {"import"}
               THEN [past EXCEPT !.mixed = @ \cup {s}] ELSE past
    /\ UNCHANGED <<product, rate, image, file, history, url, now, mix>>

Edit == \E s \in Sku :
    \/ Arrive("create", s, <<>>, <<"insert", "after", "record">>)
    \/ Arrive("update", s, <<>>, <<"exists", "before", "update", "after", "record">>)
    \/ Arrive("delete", s, <<>>, <<"before", "delete", "record">>)
    \/ \E on \in BOOLEAN :
          Arrive("status", s, on, <<"shelf", "record", "notify">>)

\* commit_import, of a batch with one row for the SKU.
Import == \E s \in Sku, on \in BOOLEAN :
    Arrive("import", s, on, <<"begin", "before", "upsert", "commit">>)

TaxRate == \E s \in Sku :
    \/ \E st \in State :
          Arrive("add", s, st, <<"exists", "rate", "record">>)
    \/ \E r \in rate :
          \/ Arrive("set", s, r.id, <<"exists", "rerate", "record">>)
          \/ Arrive("drop", s, r.id, <<"exists", "unrate", "record">>)

Image == \E s \in Sku :
    \/ Arrive("upload", s, <<>>, <<"exists", "file", "bytes", "row", "record">>)
    \/ \E i \in DOMAIN file :
          Arrive("remove", s, i, <<"exists", "find", "unrow", "unfile", "record">>)

\* get_product, and a browser that loads an image by its URL.
Look ==
    \/ \E s \in Sku : Arrive("detail", s, <<>>, <<"detail">>)
    \/ \E u \in url, s \in Sku :
          Arrive("serve", s, u, <<"verify", "fetch", "read">>)

-----------------------------------------------------------------------------
(* The statements *)

At(c, s) == c \in Running /\ Head(call[c].todo) = s

Over(c, result) == [call EXCEPT ![c] = [op |-> call[c].op, on |-> call[c].on,
                                        todo |-> <<>>, result |-> result]]
Step(c) == IF Len(call[c].todo) = 1 THEN Over(c, "ok")
           ELSE [call EXCEPT ![c].todo = Tail(@)]
Ran(c) == call' = Step(c)
Refused(c) == call' = Over(c, "refused")

\* The change of c is made: late if the product was deleted before c came.
Done(c) == [past EXCEPT !.done = @ \cup {c},
                        !.late = IF call[c].gone THEN @ \cup {c} ELSE @]

\* An import holds the row from its upsert until it commits.
Held(s) == \E c \in On(s) : call[c].op = "import" /\ At(c, "commit")

\* Slip: it is enough that there is a row.
ExistsRow(c) == product[call[c].on] # NoRow

Found(c) == Live(call[c].on)

Exists(c) ==
    /\ At(c, "exists")
    /\ IF Found(c) THEN Ran(c) ELSE Refused(c)
    /\ UNCHANGED <<product, rate, image, file, history, url, now, mix, past>>

\* product_snapshot, which also finds a deleted product, and the SELECT of an
\* import, to which a missing one is no error.
Before(c) ==
    LET row == product[call[c].on] IN
    /\ At(c, "before")
    /\ IF row = NoRow /\ call[c].op # "import" THEN Refused(c)
       ELSE call' = [Step(c) EXCEPT ![c].before = Shown(row)]
    /\ UNCHANGED <<product, rate, image, file, history, url, now, mix, past>>

After(c) ==
    /\ At(c, "after")
    /\ call' = [Step(c) EXCEPT ![c].after = Shown(product[call[c].on])]
    /\ UNCHANGED <<product, rate, image, file, history, url, now, mix, past>>

Insert(c) ==
    LET s == call[c].on IN
    /\ At(c, "insert") /\ ~Held(s)
    /\ IF product[s] # NoRow THEN Refused(c) /\ UNCHANGED <<product, past>>
       ELSE /\ product' = [product EXCEPT
                   ![s] = [val |-> c, shelf |-> TRUE, deleted |-> FALSE]]
            /\ past' = Done(c)
            /\ Ran(c)
    /\ UNCHANGED <<rate, image, file, history, url, now, mix>>

\* Slip: an UPDATE writes all that came with the request.
WrittenAll(c, row) ==
    IF At(c, "delete") THEN [row EXCEPT !.deleted = TRUE]
    ELSE [row EXCEPT !.val = c, !.shelf = call[c].arg]

\* The three UPDATEs of a product that is not deleted.
Written(c, row) ==
    CASE At(c, "update") -> [row EXCEPT !.val = c]
      [] At(c, "delete") -> [row EXCEPT !.deleted = TRUE]
      [] At(c, "shelf") -> [row EXCEPT !.shelf = call[c].arg]

Update(c) ==
    LET s == call[c].on IN
    /\ At(c, "update") \/ At(c, "delete") \/ At(c, "shelf")
    /\ ~Held(s)
    /\ IF ~Live(s) THEN Refused(c) /\ UNCHANGED <<product, past>>
       ELSE /\ product' = [product EXCEPT ![s] = Written(c, @)]
            /\ past' = Done(c)
            /\ call' = IF At(c, "shelf")
                       THEN [Step(c) EXCEPT ![c].after = <<call[c].arg>>] ELSE Step(c)
    /\ UNCHANGED <<rate, image, file, history, url, now, mix>>

\* BEGIN: the moment that NOW() gives for the whole transaction.
Begin(c) ==
    /\ At(c, "begin")
    /\ call' = [Step(c) EXCEPT ![c].stamp = Len(history[call[c].on])]
    /\ UNCHANGED <<product, rate, image, file, history, url, now, mix, past>>

\* The row waits for another import to end.  A deleted product stays deleted.
Upsert(c) ==
    /\ At(c, "upsert") /\ ~Held(call[c].on)
    /\ call' = [Step(c) EXCEPT ![c].after = <<c, call[c].arg>>]
    /\ past' = IF call[c].before # Shown(product[call[c].on])
                  \/ \E d \in On(call[c].on) : call[d].op \in Edits
               THEN [past EXCEPT !.mixed = @ \cup {call[c].on}] ELSE past
    /\ UNCHANGED <<product, rate, image, file, history, url, now, mix>>

Entry(c, stamp) == [call |-> c, op |-> call[c].op, stamp |-> stamp,
                    before |-> call[c].before, after |-> call[c].after]

\* Slip: storing a row brings the product back.
StaysNot(s) == FALSE

\* ON CONFLICT leaves deleted_at alone.
StaysDeleted(s) == product[s] # NoRow /\ product[s].deleted

Commit(c) ==
    LET s == call[c].on IN
    /\ At(c, "commit")
    /\ product' = [product EXCEPT
          ![s] = [val |-> c, shelf |-> call[c].arg, deleted |-> StaysDeleted(s)]]
    /\ history' = [history EXCEPT ![s] = Append(@, Entry(c, call[c].stamp))]
    /\ past' = [past EXCEPT !.done = @ \cup {c}, !.told = @ \cup {c}]
    /\ Ran(c)
    /\ UNCHANGED <<rate, image, file, url, now, mix>>

\* A rate belongs to one product, and a product has one for each state.
AddRate(c) ==
    LET s == call[c].on IN
    /\ At(c, "rate")
    /\ IF \E r \in rate : r.sku = s /\ r.state = call[c].arg
       THEN Refused(c) /\ UNCHANGED <<rate, past>>
       ELSE /\ rate' = rate \cup {[id |-> c, sku |-> s, state |-> call[c].arg,
                                   val |-> c]}
            /\ past' = Done(c)
            /\ Ran(c)
    /\ UNCHANGED <<product, image, file, history, url, now, mix>>

ChangeRate(c) ==
    LET hit == {r \in rate : r.id = call[c].arg /\ r.sku = call[c].on} IN
    /\ At(c, "rerate") \/ At(c, "unrate")
    /\ IF hit = {} THEN Refused(c) /\ UNCHANGED <<rate, past>>
       ELSE /\ rate' = (rate \ hit) \cup (IF At(c, "unrate") THEN {}
                                          ELSE {[r EXCEPT !.val = c] : r \in hit})
            /\ past' = Done(c)
            /\ Ran(c)
    /\ UNCHANGED <<product, image, file, history, url, now, mix>>

\* Slip: a record tells the moment its call came.
StampAtStart(c) == call[c].stamp

\* changed_at DEFAULT NOW(), of a statement of its own.
Stamp(c) == Len(history[call[c].on]) + 1

\* Slip: a record is not written for a change of the flag.
RecordButStatus(c) == IF call[c].op = "status" THEN {} ELSE {c}

Recorded(c) == {c}

\* history::record
Record(c) ==
    LET s == call[c].on IN
    /\ At(c, "record")
    /\ history' = [history EXCEPT ![s] = IF Recorded(c) = {} THEN @
                                         ELSE Append(@, Entry(c, Stamp(c)))]
    /\ past' = [past EXCEPT !.told = @ \cup Recorded(c)]
    /\ Ran(c)
    /\ UNCHANGED <<product, rate, image, file, url, now, mix>>

\* emit_status_changed: a failure is ignored.
Notify(c) ==
    /\ At(c, "notify")
    /\ Ran(c)
    /\ UNCHANGED <<product, rate, image, file, history, url, now, mix, past>>

-----------------------------------------------------------------------------
(* Images *)

Files == DOMAIN file
With(i, v) == [j \in Files \cup {i} |-> IF j = i THEN v ELSE file[j]]
Without(i) == [j \in Files \ {i} |-> file[j]]

\* The file is made and its chunks arrive, before there is a row.
WriteFile(c) ==
    /\ \/ At(c, "file") /\ file' = With(c, "part")
       \/ At(c, "bytes") /\ file' = With(c, "whole")
    /\ Ran(c)
    /\ UNCHANGED <<product, rate, image, history, url, now, mix, past>>

InsertImage(c) ==
    /\ At(c, "row")
    /\ image' = image \cup {[id |-> c, sku |-> call[c].on]}
    /\ past' = Done(c)
    /\ Ran(c)
    /\ UNCHANGED <<product, rate, file, history, url, now, mix>>

FindImage(c) ==
    /\ At(c, "find")
    /\ IF [id |-> call[c].arg, sku |-> call[c].on] \in image
       THEN Ran(c) ELSE Refused(c)
    /\ UNCHANGED <<product, rate, image, file, history, url, now, mix, past>>

\* Slip: the file is removed first.
DeleteImageFile(c) ==
    /\ At(c, "unrow")
    /\ file' = Without(call[c].arg)
    /\ past' = Done(c)
    /\ Ran(c)
    /\ UNCHANGED <<product, rate, image, history, url, now, mix>>

DeleteImage(c) ==
    /\ At(c, "unrow")
    /\ image' = {i \in image : i.id # call[c].arg}
    /\ past' = Done(c)
    /\ Ran(c)
    /\ UNCHANGED <<product, rate, file, history, url, now, mix>>

\* The file goes, or the removal fails and nobody is told.
RemoveFile(c) ==
    /\ At(c, "unfile")
    /\ file' = Without(call[c].arg) \/ file' = file
    /\ Ran(c)
    /\ UNCHANGED <<product, rate, image, history, url, now, mix, past>>

\* get_product_detail: a URL for each image of a product that is not deleted.
Detail(c) ==
    LET s == call[c].on IN
    /\ At(c, "detail")
    /\ IF Live(s)
       THEN /\ url' = url \cup {[image |-> i.id, exp |-> now + Ttl] :
                                  i \in {j \in image : j.sku = s}}
            /\ Ran(c)
       ELSE Refused(c) /\ UNCHANGED url
    /\ UNCHANGED <<product, rate, image, file, history, now, mix, past>>

\* Slip: the signature is all that is looked at.
Signed(u) == u \in url

Valid(u) == u \in url /\ u.exp >= now

\* signed_url::verify, get_image_row, and the file.
Verify(c) ==
    /\ At(c, "verify")
    /\ IF Valid(call[c].arg)
       THEN call' = [Step(c) EXCEPT ![c].stamp = now] ELSE Refused(c)
    /\ UNCHANGED <<product, rate, image, file, history, url, now, mix, past>>

Known(c) == {i.id : i \in image}

Fetch(c) ==
    /\ At(c, "fetch")
    /\ IF call[c].arg.image \in Known(c) THEN Ran(c) ELSE Refused(c)
    /\ UNCHANGED <<product, rate, image, file, history, url, now, mix, past>>

Read(c) ==
    /\ At(c, "read")
    /\ IF call[c].arg.image \in Files
       THEN /\ past' = IF call[c].gone THEN [past EXCEPT !.late = @ \cup {c}] ELSE past
            /\ Ran(c)
       ELSE Refused(c) /\ UNCHANGED past
    /\ UNCHANGED <<product, rate, image, file, history, url, now, mix>>

-----------------------------------------------------------------------------
\* BudgetMw, or a statement that fails: the rest is dropped, a transaction
\* rolled back.
Cut(c) ==
    /\ c \in Running
    /\ call' = Over(c, "cut")
    /\ past' = IF c \in past.done \ past.told
               THEN [past EXCEPT !.mixed = @ \cup {call[c].on}] ELSE past
    /\ UNCHANGED <<product, rate, image, file, history, url, now, mix>>

Tick ==
    /\ now < mix.time
    /\ now' = now + 1
    /\ UNCHANGED <<product, rate, image, file, history, call, url, mix, past>>

Next ==
    \/ Edit \/ Import \/ TaxRate \/ Image \/ Look \/ Tick
    \/ \E c \in Made :
          \/ Exists(c) \/ Before(c) \/ After(c) \/ Insert(c) \/ Update(c)
          \/ Begin(c) \/ Upsert(c) \/ Commit(c) \/ AddRate(c) \/ ChangeRate(c)
          \/ Record(c) \/ Notify(c) \/ WriteFile(c) \/ InsertImage(c)
          \/ FindImage(c) \/ DeleteImage(c) \/ RemoveFile(c) \/ Detail(c)
          \/ Verify(c) \/ Fetch(c) \/ Read(c) \/ Cut(c)

Spec == Init /\ [][Next]_vars

-----------------------------------------------------------------------------
(* Properties *)

\* What a record makes of the product that the earlier ones have left: those of
\* rates and images leave it alone, and a deleted one keeps its row.
Replay(h, row) ==
    IF h.op = "status" THEN <<row[1], h.after[1]>>
    ELSE IF h.op \in {"create", "update", "import"} THEN h.after ELSE row

Replayed(h) ==
    LET left[n \in 0..Len(h)] == IF n = 0 THEN NoRow ELSE Replay(h[n], left[n - 1])
    IN  left[Len(h)]

\* The records of a product lead to the row that is stored, unless changes of
\* it overlapped or one was cut short before its record was written.
HistoryReplays ==
    \A s \in Sku :
        s \notin past.mixed /\ On(s) = {} =>
            /\ Shown(product[s]) = Replayed(history[s])
            /\ product[s] # NoRow => (product[s].deleted <=>
                  \E i \in DOMAIN history[s] : history[s][i].op = "delete")

\* A call answered with success has left its record; a change without one is
\* that of a call that still runs or was cut short.
ChangesAreTold ==
    \A c \in past.done \ past.told : call[c].result \in {"running", "cut"}

\* The order of changed_at, in which history is read, is that of the changes,
\* except that an import is listed where its transaction began.
ListedInOrder ==
    \A s \in Sku : \A i, j \in DOMAIN history[s] :
        i < j /\ history[s][j].stamp < history[s][i].stamp =>
            history[s][j].op = "import"

\* Once a product is deleted, calls that come later change neither it nor its
\* rates and images, however they overlap with others, and only an import still
\* writes it.  An image that was deleted is not served to a later request, though
\* its file may still be there.
GoneStaysGone == past.late = {}

\* A browser gets an image at most Ttl after the detail of its product was read.
ServedInTime ==
    \A c \in Running : call[c].op = "serve" /\ call[c].todo[1] # "verify" =>
        call[c].stamp <= call[c].arg.exp /\ call[c].arg.exp <= call[c].stamp + Ttl

\* The row of an image promises a whole file, wherever an upload or a removal
\* was cut short.
RowHasFile == \A i \in image : i.id \in Files /\ file[i.id] = "whole"

\* The history of a product tells what became of it: every change that was
\* answered, in their order, up to the row that is stored.
HistoryHolds == TypeOK /\ HistoryReplays /\ ChangesAreTold /\ ListedInOrder

\* An image that a product lists is there, and its link is good for a while.
ImagesHold == RowHasFile /\ ServedInTime
=============================================================================
