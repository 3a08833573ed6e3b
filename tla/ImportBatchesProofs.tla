------------------------- MODULE ImportBatchesProofs -------------------------
(***************************************************************************)
(* Safety of ImportBatches, and that it implements AtomicImport, for any   *)
(* batches, products and handlers and any number of commits.               *)
(***************************************************************************)
EXTENDS ImportBatches, FiniteSetTheorems, TLAPS

\* The first n rows of b that name s.
Naming(b, n, s) == {i \in 1 .. n : Rows[b][i] = s}

\* v is a row that some record of log shows.
ShownIn(v, log) == \E k \in DOMAIN log : log[k].after = v

\* A transaction works on a batch of valid rows, and is at one of them or past
\* the last.
Placed(f) ==
    /\ f.batch \notin Invalid
    /\ f.at \in 1 .. Len(Rows[f.batch]) + 1
    /\ f.step = "upsert" => f.at \in DOMAIN Rows[f.batch]

\* A transaction has written, of every product, the last of the rows it is past
\* that name the product, and has logged a record for each of them.
Written(f) ==
    \A s \in Sku :
        /\ IF f.writes[s] = NoRow
           THEN Naming(f.batch, f.at - 1, s) = {} /\ f.log[s] = <<>>
           ELSE /\ f.writes[s][1] = f.batch
                /\ Atomic!IsLast(f.batch, f.at - 1, s, f.writes[s][2])
                /\ f.log[s] # <<>>
                /\ f.log[s][Len(f.log[s])].after = f.writes[s]
        /\ Len(f.log[s]) = Cardinality(Naming(f.batch, f.at - 1, s))
        /\ \A i \in DOMAIN f.log[s] : f.log[s][i].after[1] = f.batch

\* A before image was committed, or is an earlier row of the same transaction.
Imaged(f) ==
    /\ \A s \in Sku : \A i \in DOMAIN f.log[s] :
          \/ f.log[s][i].before = NoRow
          \/ ShownIn(f.log[s][i].before, history[s])
          \/ \E k \in 1 .. i - 1 : f.log[s][k].after = f.log[s][i].before
    /\ f.step = "upsert" =>
          \/ f.before = NoRow
          \/ ShownIn(f.before, history[RowAt(f)])
          \/ ShownIn(f.before, f.log[RowAt(f)])

PlaceInv == \A h \in Handler : InTx(hnd[h]) => Placed(hnd[h])
WriteInv == \A h \in Handler : InTx(hnd[h]) => Written(hnd[h])
ImageInv == \A h \in Handler : InTx(hnd[h]) => Imaged(hnd[h])

\* Handlers that will tell the uploader of a commit of b.
Telling(b) == {h \in Handler : hnd[h].step = "notify" /\ hnd[h].batch = b}

\* No commit is told twice.
TellInv ==
    \A b \in Batch : /\ IsFiniteSet(Telling(b))
                     /\ told[b] + Cardinality(Telling(b)) <= commits[b]

\* Every SKU has one history record per row and commit of a batch.
CountInv ==
    \A b \in Batch, s \in Sku :
        /\ IsFiniteSet(Records(b, s))
        /\ Cardinality(Records(b, s)) =
              commits[b] * Cardinality(Naming(b, Len(Rows[b]), s))

\* Two transactions that are open at once have not written the same product.
RowLockExclusive ==
    \A g, h \in Handler, s \in Sku :
        /\ InTx(hnd[g]) /\ hnd[g].writes[s] # NoRow
        /\ InTx(hnd[h]) /\ hnd[h].writes[s] # NoRow
        => g = h

IInv == /\ TypeOK /\ PlaceInv /\ WriteInv /\ ImageInv /\ TellInv /\ CountInv
        /\ InvalidKeptOut /\ HistoryTrue /\ RowLockExclusive

-----------------------------------------------------------------------------
(* Rows, records and handlers *)

\* The rows of a batch are a sequence of SKUs.
LEMMA RowsFacts ==
  ASSUME NEW b \in Batch
  PROVE  /\ Rows[b] \in Seq(Sku)
         /\ Len(Rows[b]) \in Nat
         /\ DOMAIN Rows[b] = 1 .. Len(Rows[b])
  BY RowsAssumption

LEMMA NamingFinite ==
  ASSUME NEW b, NEW n \in Int, NEW s
  PROVE  IsFiniteSet(Naming(b, n, s)) /\ Cardinality(Naming(b, n, s)) \in Nat
<1>1. IsFiniteSet(1 .. n)
  BY FS_Interval
<1>2. Naming(b, n, s) \in SUBSET (1 .. n)
  BY DEF Naming
<1> QED
  BY <1>1, <1>2, FS_Subset, FS_CardinalityType

\* Passing row n adds n to the rows that name its SKU.
LEMMA NamingStep ==
  ASSUME NEW b \in Batch, NEW n \in Nat \ {0}, NEW s
  PROVE  /\ Rows[b][n] = s =>
              /\ Naming(b, n, s) = Naming(b, n - 1, s) \cup {n}
              /\ Cardinality(Naming(b, n, s)) = Cardinality(Naming(b, n - 1, s)) + 1
         /\ Rows[b][n] # s => Naming(b, n, s) = Naming(b, n - 1, s)
<1>1. Rows[b][n] = s => Naming(b, n, s) = Naming(b, n - 1, s) \cup {n}
  BY DEF Naming
<1>2. Rows[b][n] # s => Naming(b, n, s) = Naming(b, n - 1, s)
  BY DEF Naming
<1>3. n \notin Naming(b, n - 1, s)
  BY DEF Naming
<1>4. IsFiniteSet(Naming(b, n - 1, s))
  BY NamingFinite
<1>5. Cardinality(Naming(b, n - 1, s) \cup {n}) = Cardinality(Naming(b, n - 1, s)) + 1
  BY <1>3, <1>4, FS_AddElement
<1> QED
  BY <1>1, <1>2, <1>5

\* Records of b in a list of records.
Of(b, log) == {i \in DOMAIN log : log[i].after[1] = b}

\* Appending the records of one batch changes the count of that batch only.
LEMMA CountAppended ==
  ASSUME NEW old \in Seq(Entry), NEW log \in Seq(Entry), NEW c,
         \A i \in DOMAIN log : log[i].after[1] = c,
         NEW b, IsFiniteSet(Of(b, old))
  PROVE  /\ IsFiniteSet(Of(b, old \o log))
         /\ Cardinality(Of(b, old \o log)) =
               Cardinality(Of(b, old)) + (IF b = c THEN Len(log) ELSE 0)
<1> DEFINE n == Len(old)
           m == Len(log)
<1>1. n \in Nat /\ m \in Nat /\ DOMAIN old = 1 .. n /\ DOMAIN log = 1 .. m
  OBVIOUS
<1>2. DOMAIN (old \o log) = 1 .. n + m
      /\ \A i \in 1 .. n + m : (old \o log)[i] = IF i <= n THEN old[i] ELSE log[i - n]
  OBVIOUS
<1>3. CASE b = c
  <2>1. Of(b, old \o log) = Of(b, old) \cup (n + 1 .. n + m)
    BY <1>1, <1>2, <1>3 DEF Of
  <2>2. Of(b, old) \cap (n + 1 .. n + m) = {}
    BY <1>1 DEF Of
  <2> DEFINE p == n + 1
             q == n + m
  <2>3. p \in Int /\ q \in Int /\ (IF p > q THEN 0 ELSE q - p + 1) = m
    BY <1>1
  <2> HIDE DEF p, q
  <2>4. IsFiniteSet(p .. q) /\ Cardinality(p .. q) = IF p > q THEN 0 ELSE q - p + 1
    BY <2>3, FS_Interval
  <2>5. Cardinality(p .. q) = m
    BY <2>3, <2>4
  <2>6. Cardinality(Of(b, old)) \in Nat
    BY FS_CardinalityType
  <2> DEFINE new == p .. q
  <2> HIDE DEF new
  <2>7. /\ IsFiniteSet(Of(b, old) \cup new)
        /\ Cardinality(Of(b, old) \cup new) =
              Cardinality(Of(b, old)) + Cardinality(new) - Cardinality({})
    <3>1. IsFiniteSet(new)
      BY <2>4 DEF new
    <3>2. /\ IsFiniteSet(Of(b, old) \cup new)
          /\ Cardinality(Of(b, old) \cup new) =
                Cardinality(Of(b, old)) + Cardinality(new)
                  - Cardinality(Of(b, old) \cap new)
      BY <3>1, FS_Union
    <3>3. Of(b, old) \cap new = {}
      BY <2>2 DEF new, p, q
    <3> QED
      BY <3>2, <3>3
  <2>8. Of(b, old \o log) = Of(b, old) \cup new
    BY <2>1 DEF new, p, q
  <2>9. Cardinality(new) = m /\ Cardinality({}) = 0
    BY <2>5, FS_EmptySet DEF new
  <2> QED
    BY <1>1, <1>3, <2>6, <2>7, <2>8, <2>9
<1>4. CASE b # c
  <2>1. Of(b, old \o log) = Of(b, old)
    BY <1>1, <1>2, <1>4 DEF Of
  <2>2. Cardinality(Of(b, old)) \in Nat
    BY FS_CardinalityType
  <2> QED
    BY <1>4, <2>1, <2>2
<1> QED
  BY <1>3, <1>4

\* The two shapes of a handler.
LEMMA Shapes ==
  ASSUME TypeOK, NEW h \in Handler
  PROVE  \/ hnd[h] = Idle /\ hnd[h].step = "idle" /\ ~InTx(hnd[h])
         \/ hnd[h] \in Flight /\ hnd[h] # Idle /\ hnd[h].step \in Steps
  BY DEF TypeOK, Flight, Idle, Steps, InTx

LEMMA FlightFacts ==
  ASSUME TypeOK, NEW h \in Handler, hnd[h].step # "idle"
  PROVE  /\ hnd[h] \in Flight
         /\ hnd[h] # Idle
         /\ hnd[h].batch \in Batch
         /\ hnd[h].at \in Nat
         /\ hnd[h].before \in Value
         /\ hnd[h].writes \in [Sku -> Value]
         /\ hnd[h].log \in [Sku -> Seq(Entry)]
  BY Shapes DEF Flight

\* What a handler starts with.
Fresh(step, b) == [step |-> step, batch |-> b, at |-> 1, before |-> NoRow,
                   writes |-> [s \in Sku |-> NoRow], log |-> [s \in Sku |-> <<>>]]

LEMMA FreshFlight ==
  ASSUME NEW step \in Steps, NEW b \in Batch
  PROVE  Fresh(step, b) \in Flight
<1>1. [s \in Sku |-> NoRow] \in [Sku -> Value]
  BY DEF Value
<1>2. [s \in Sku |-> <<>>] \in [Sku -> Seq(Entry)]
  OBVIOUS
<1>3. NoRow \in Value /\ 1 \in Nat
  BY DEF Value
<1> QED
  BY <1>1, <1>2, <1>3 DEF Fresh, Flight

\* The handler's part of a step: it starts, or ends.
LEMMA StartFacts ==
  ASSUME TypeOK, NEW h \in Handler, NEW step \in Steps, NEW b \in Batch,
         Start(h, step, b)
  PROVE  /\ hnd[h] = Idle
         /\ hnd'[h] = Fresh(step, b)
         /\ hnd' \in [Handler -> Flight \cup {Idle}]
         /\ \A g \in Handler \ {h} : hnd'[g] = hnd[g]
<1>1. hnd' = [hnd EXCEPT ![h] = Fresh(step, b)] /\ hnd[h] = Idle
  BY DEF Start, Fresh
<1> QED
  BY <1>1, FreshFlight DEF TypeOK

LEMMA FinishFacts ==
  ASSUME TypeOK, NEW h \in Handler, Finish(h)
  PROVE  /\ hnd'[h] = Idle
         /\ hnd' \in [Handler -> Flight \cup {Idle}]
         /\ \A g \in Handler \ {h} : hnd'[g] = hnd[g]
  BY DEF Finish, TypeOK

LEMMA ReadFacts ==
  ASSUME TypeOK, PlaceInv, NEW h \in Handler, ReadBefore(h)
  PROVE  /\ RowAt(hnd[h]) \in Sku
         /\ hnd' \in [Handler -> Flight \cup {Idle}]
         /\ hnd'[h].step = "upsert"
         /\ hnd'[h].before = Seen(hnd[h], RowAt(hnd[h]))
         /\ hnd'[h].batch = hnd[h].batch
         /\ hnd'[h].at = hnd[h].at
         /\ hnd'[h].writes = hnd[h].writes
         /\ hnd'[h].log = hnd[h].log
         /\ \A g \in Handler \ {h} : hnd'[g] = hnd[g]
<1> DEFINE f == hnd[h]
           e == [f EXCEPT !.step = "upsert", !.before = Seen(f, RowAt(f))]
<1>1. f \in Flight /\ f.batch \in Batch /\ f.writes \in [Sku -> Value]
  BY FlightFacts DEF ReadBefore
<1>2. RowAt(f) \in Sku
  BY <1>1, RowsFacts DEF ReadBefore, RowAt
<1>3. Seen(f, RowAt(f)) \in Value
  BY <1>1, <1>2 DEF Seen, TypeOK
<1>4. /\ e \in Flight /\ e.step = "upsert" /\ e.before = Seen(f, RowAt(f))
      /\ e.batch = f.batch /\ e.at = f.at /\ e.writes = f.writes
      /\ e.log = f.log
  BY <1>1, <1>3 DEF Flight, Steps
<1>5. hnd' = [hnd EXCEPT ![h] = e]
  BY <1>1 DEF ReadBefore, TypeOK
<1> HIDE DEF e
<1> QED
  BY <1>2, <1>4, <1>5 DEF TypeOK

\* The record that an upsert logs.
Logged(f) == [before |-> f.before, after |-> <<f.batch, f.at>>]

LEMMA UpsertFacts ==
  ASSUME TypeOK, PlaceInv, NEW h \in Handler, Upsert(h)
  PROVE  LET f == hnd[h]
             s == RowAt(f)
         IN  /\ s \in Sku
             /\ f.at \in DOMAIN Rows[f.batch]
             /\ ~Locked(h, s)
             /\ hnd' \in [Handler -> Flight \cup {Idle}]
             /\ hnd'[h].step = "read"
             /\ hnd'[h].batch = f.batch
             /\ hnd'[h].at = f.at + 1
             /\ hnd'[h].writes[s] = <<f.batch, f.at>>
             /\ hnd'[h].log[s] = Append(f.log[s], Logged(f))
             /\ Logged(f) \in Entry
             /\ \A t \in Sku \ {s} : /\ hnd'[h].writes[t] = f.writes[t]
                                     /\ hnd'[h].log[t] = f.log[t]
             /\ \A g \in Handler \ {h} : hnd'[g] = hnd[g]
<1> DEFINE f == hnd[h]
           s == RowAt(f)
           v == <<f.batch, f.at>>
           w == [f.writes EXCEPT ![s] = v]
           l == [f.log EXCEPT ![s] = Append(f.log[s], Logged(f))]
           e == [f EXCEPT !.step = "read", !.at = f.at + 1, !.writes = w, !.log = l]
<1>1. /\ f \in Flight /\ f.batch \in Batch /\ f.at \in Nat /\ f.before \in Value
      /\ f.writes \in [Sku -> Value] /\ f.log \in [Sku -> Seq(Entry)]
  BY FlightFacts DEF Upsert
<1>2. f.at \in DOMAIN Rows[f.batch]
  BY DEF PlaceInv, Placed, InTx, Upsert
<1>3. s \in Sku
  BY <1>1, <1>2, RowsFacts DEF RowAt
<1>4. v \in Value /\ Logged(f) \in Entry
  BY <1>1 DEF Value, Entry, Logged
<1>5. w \in [Sku -> Value] /\ w[s] = v /\ \A t \in Sku \ {s} : w[t] = f.writes[t]
  BY <1>1, <1>3, <1>4
<1>6. /\ l \in [Sku -> Seq(Entry)] /\ l[s] = Append(f.log[s], Logged(f))
      /\ \A t \in Sku \ {s} : l[t] = f.log[t]
  BY <1>1, <1>3, <1>4
<1>7. hnd' = [hnd EXCEPT ![h] = e]
  BY <1>1 DEF Upsert, Logged
<1> DEFINE at == f.at + 1
<1>8. f \in Flight /\ at \in Nat
  BY <1>1
<1> HIDE DEF w, l
<1>w. w \in [Sku -> Value] /\ l \in [Sku -> Seq(Entry)]
  BY <1>5, <1>6
<1>e. e = [f EXCEPT !.step = "read", !.at = at, !.writes = w, !.log = l]
  OBVIOUS
<1>f. /\ e \in Flight /\ e.step = "read" /\ e.at = at
      /\ e.batch = f.batch /\ e.writes = w /\ e.log = l
  <2> HIDE DEF f, e, at
  <2> QED
    BY <1>8, <1>w, <1>e DEF Flight, Steps
<1> HIDE DEF e
<1>9. /\ hnd'[h] = e /\ hnd' \in [Handler -> Flight \cup {Idle}]
      /\ \A g \in Handler \ {h} : hnd'[g] = hnd[g]
  BY <1>7, <1>f DEF TypeOK
<1>10. ~Locked(h, s)
  BY DEF Upsert
<1> QED
  BY <1>2, <1>3, <1>4, <1>5, <1>6, <1>f, <1>9, <1>10

LEMMA CommitFacts ==
  ASSUME TypeOK, PlaceInv, NEW h \in Handler, CommitTx(h)
  PROVE  LET f == hnd[h]
         IN  /\ InTx(f) /\ f.batch \in Batch
             /\ f.at = Len(Rows[f.batch]) + 1
             /\ hnd' \in [Handler -> Flight \cup {Idle}]
             /\ hnd'[h].step = "notify"
             /\ hnd'[h].batch = f.batch
             /\ \A g \in Handler \ {h} : hnd'[g] = hnd[g]
<1> DEFINE f == hnd[h]
           e == [f EXCEPT !.step = "notify"]
<1>1. f \in Flight /\ f.batch \in Batch /\ InTx(f)
  BY FlightFacts DEF CommitTx, InTx
<1>2. f.at = Len(Rows[f.batch]) + 1
  BY <1>1, RowsFacts DEF PlaceInv, Placed, CommitTx
<1>3. e \in Flight /\ e.step = "notify" /\ e.batch = f.batch
  BY <1>1 DEF Flight, Steps
<1>4. hnd' = [hnd EXCEPT ![h] = e]
  BY DEF CommitTx
<1> HIDE DEF e
<1> QED
  BY <1>1, <1>2, <1>3, <1>4 DEF TypeOK

-----------------------------------------------------------------------------
(* Steps *)

LEMMA InitIInv == Init => IInv
<1> SUFFICES ASSUME Init PROVE IInv
  OBVIOUS
<1>1. \A h \in Handler : hnd[h] = Idle /\ hnd[h].step = "idle"
  BY DEF Init, Idle
<1>2. TypeOK
  <2>1. NoRow \in Value /\ <<>> \in Seq(Entry)
    BY DEF Value
  <2> QED
    BY <2>1 DEF Init, TypeOK, Status
<1>3. PlaceInv /\ WriteInv /\ ImageInv /\ RowLockExclusive
  BY <1>1 DEF PlaceInv, WriteInv, ImageInv, RowLockExclusive, InTx
<1>4. TellInv
  <2>1. \A b \in Batch : Telling(b) = {}
    BY <1>1 DEF Telling
  <2>2. \A b \in Batch : told[b] = 0 /\ commits[b] = 0
    BY DEF Init
  <2> QED
    BY <2>1, <2>2, FS_EmptySet DEF TellInv
<1>5. CountInv
  <2> SUFFICES ASSUME NEW b \in Batch, NEW s \in Sku
               PROVE  /\ IsFiniteSet(Records(b, s))
                      /\ Cardinality(Records(b, s)) =
                           commits[b] * Cardinality(Naming(b, Len(Rows[b]), s))
    BY DEF CountInv
  <2>1. Records(b, s) = {} /\ commits[b] = 0
    BY DEF Records, Init
  <2>2. Cardinality(Naming(b, Len(Rows[b]), s)) \in Nat
    BY RowsFacts, NamingFinite
  <2> QED
    BY <2>1, <2>2, FS_EmptySet
<1>6. InvalidKeptOut
  BY InvalidAssumption DEF Init, InvalidKeptOut
<1>7. HistoryTrue
  BY DEF Init, HistoryTrue, HistoryEndsAtRow, BeforeWasStored
<1> QED
  BY <1>2, <1>3, <1>4, <1>5, <1>6, <1>7 DEF IInv

LEMMA NextTypeOK == TypeOK /\ PlaceInv /\ [Next]_vars => TypeOK'
<1> SUFFICES ASSUME TypeOK, PlaceInv, [Next]_vars PROVE TypeOK'
  OBVIOUS
<1>1. ASSUME NEW b \in Batch, Upload(b) PROVE TypeOK'
  BY <1>1 DEF Upload, Verdict, TypeOK, Status
<1>2. ASSUME NEW h \in Handler, NEW b \in Batch,
             ValidateRead(h, b) \/ CancelRead(h, b) \/ CommitRead(h, b)
      PROVE  TypeOK'
  <2>1. hnd' \in [Handler -> Flight \cup {Idle}]
    BY <1>2, StartFacts DEF ValidateRead, CancelRead, CommitRead, Steps
  <2> QED
    BY <1>2, <2>1 DEF ValidateRead, CancelRead, CommitRead, TypeOK
<1>3. ASSUME NEW h \in Handler, ValidateWrite(h) \/ CancelWrite(h) PROVE TypeOK'
  <2>1. hnd[h].batch \in Batch /\ hnd' \in [Handler -> Flight \cup {Idle}]
    BY <1>3, FlightFacts, FinishFacts DEF ValidateWrite, CancelWrite
  <2>2. CASE ValidateWrite(h)
    BY <2>1, <2>2 DEF ValidateWrite, Verdict, TypeOK, Status
  <2>3. CASE CancelWrite(h)
    BY <2>1, <2>3 DEF CancelWrite, TypeOK, Status
  <2> QED
    BY <1>3, <2>2, <2>3
<1>4. ASSUME NEW h \in Handler, ReadBefore(h) PROVE TypeOK'
  BY <1>4, ReadFacts DEF ReadBefore, TypeOK
<1>5. ASSUME NEW h \in Handler, Upsert(h) PROVE TypeOK'
  BY <1>5, UpsertFacts DEF Upsert, TypeOK
<1>6. ASSUME NEW h \in Handler, CommitTx(h) PROVE TypeOK'
  <2>1. hnd[h].batch \in Batch /\ hnd' \in [Handler -> Flight \cup {Idle}]
    BY <1>6, CommitFacts
  <2>2. hnd[h].writes \in [Sku -> Value] /\ hnd[h].log \in [Sku -> Seq(Entry)]
    BY <1>6, FlightFacts DEF CommitTx
  <2>3. products' \in [Sku -> Value]
    BY <1>6, <2>2 DEF CommitTx, Seen, TypeOK
  <2>4. history' \in [Sku -> Seq(Entry)]
    <3>1. \A s \in Sku : history[s] \o hnd[h].log[s] \in Seq(Entry)
      BY <2>2 DEF TypeOK
    <3> QED
      BY <1>6, <3>1 DEF CommitTx
  <2> QED
    BY <1>6, <2>1, <2>3, <2>4 DEF CommitTx, TypeOK, Status
<1>7. ASSUME NEW h \in Handler, Notify(h) PROVE TypeOK'
  <2>1. hnd[h].batch \in Batch /\ hnd' \in [Handler -> Flight \cup {Idle}]
    BY <1>7, FlightFacts, FinishFacts DEF Notify
  <2> QED
    BY <1>7, <2>1 DEF Notify, TypeOK
<1>8. ASSUME NEW h \in Handler, Drop(h) PROVE TypeOK'
  BY <1>8, FinishFacts DEF Drop, TypeOK
<1>9. CASE UNCHANGED vars
  BY <1>9 DEF vars, TypeOK
<1> QED
  BY <1>1, <1>2, <1>3, <1>4, <1>5, <1>6, <1>7, <1>8, <1>9 DEF Next

\* The transaction part of the invariant, when one handler moves and nothing is
\* committed.
LEMMA TxKept ==
  ASSUME PlaceInv, WriteInv, ImageInv, NEW h \in Handler,
         \A g \in Handler \ {h} : hnd'[g] = hnd[g],
         history' = history,
         InTx(hnd'[h]) => Placed(hnd'[h]) /\ Written(hnd'[h]) /\ Imaged(hnd'[h])
  PROVE  PlaceInv' /\ WriteInv' /\ ImageInv'
<1>1. PlaceInv'
  BY DEF PlaceInv, Placed, InTx
<1>2. WriteInv'
  <2> SUFFICES ASSUME NEW g \in Handler, InTx(hnd'[g]) PROVE Written(hnd'[g])
    BY DEF WriteInv, InTx, Written, Naming, Atomic!IsLast
  <2>1. CASE g = h
    BY <2>1
  <2>2. CASE g # h
    BY <2>2 DEF WriteInv
  <2> QED
    BY <2>1, <2>2
<1>3. ImageInv'
  BY DEF ImageInv, Imaged, RowAt, InTx
<1> QED
  BY <1>1, <1>2, <1>3

\* The catalog's part of the invariant depends on its tables only.
LEMMA TablesKept ==
  ASSUME CountInv, HistoryTrue, history' = history, products' = products,
         commits' = commits
  PROVE  CountInv' /\ HistoryTrue'
  BY DEF CountInv, Records, HistoryTrue, HistoryEndsAtRow, BeforeWasStored

\* A record that is there stays there.
LEMMA ShownGrows ==
  ASSUME NEW old \in Seq(Entry), NEW log \in Seq(Entry), NEW v, ShownIn(v, old)
  PROVE  ShownIn(v, old \o log)
<1>1. PICK k \in DOMAIN old : old[k].after = v
  BY DEF ShownIn
<1>2. k \in DOMAIN (old \o log) /\ (old \o log)[k] = old[k]
  BY <1>1
<1> QED
  BY <1>1, <1>2 DEF ShownIn

\* The locks, when one handler moves and writes no further product.
LEMMA LocksKept ==
  ASSUME RowLockExclusive, NEW h \in Handler,
         \A g \in Handler \ {h} : hnd'[g] = hnd[g],
         InTx(hnd'[h]) => \A s \in Sku : hnd'[h].writes[s] # NoRow =>
                             InTx(hnd[h]) /\ hnd[h].writes[s] # NoRow
  PROVE  RowLockExclusive'
  BY DEF RowLockExclusive, InTx

\* What is told, when one handler moves that is not going to tell.
LEMMA TellKept ==
  ASSUME TellInv, NEW h \in Handler,
         \A g \in Handler \ {h} : hnd'[g] = hnd[g], hnd'[h].step # "notify",
         told' = told, commits' = commits, TypeOK
  PROVE  TellInv'
<1> SUFFICES ASSUME NEW b \in Batch
             PROVE  /\ IsFiniteSet(Telling(b)')
                    /\ told'[b] + Cardinality(Telling(b)') <= commits'[b]
  BY DEF TellInv
<1>1. IsFiniteSet(Telling(b)) /\ told[b] + Cardinality(Telling(b)) <= commits[b]
  BY DEF TellInv
<1>2. Telling(b)' \in SUBSET Telling(b)
  BY DEF Telling
<1>3. /\ IsFiniteSet(Telling(b)')
      /\ Cardinality(Telling(b)') <= Cardinality(Telling(b))
  BY <1>1, <1>2, FS_Subset
<1>4. /\ Cardinality(Telling(b)) \in Nat /\ Cardinality(Telling(b)') \in Nat
      /\ told[b] \in Nat /\ commits[b] \in Nat
  BY <1>1, <1>3, FS_CardinalityType DEF TypeOK
<1> QED
  BY <1>1, <1>3, <1>4

\* A handler that starts has written nothing.
LEMMA StartInv ==
  ASSUME IInv, TypeOK', NEW h \in Handler, NEW b \in Batch,
         NEW step \in {"validate", "cancel", "read"}, Start(h, step, b),
         step = "read" => b \notin Invalid,
         UNCHANGED <<status, errors, products, history, commits, told>>
  PROVE  IInv'
<1> DEFINE e == hnd'[h]
<1>1. e = Fresh(step, b) /\ \A g \in Handler \ {h} : hnd'[g] = hnd[g]
  BY StartFacts DEF IInv, Steps
<1>2. /\ e.step = step /\ e.batch = b /\ e.at = 1
      /\ \A s \in Sku : e.writes[s] = NoRow /\ e.log[s] = <<>>
  BY <1>1 DEF Fresh
<1> HIDE DEF e
<1>3. InTx(e) => Placed(e)
  BY <1>2, RowsFacts DEF InTx, Placed
<1>4. Written(e)
  <2>1. \A s \in Sku : Naming(b, e.at - 1, s) = {}
    BY <1>2 DEF Naming
  <2>2. \A s \in Sku : Len(e.log[s]) = 0 /\ DOMAIN e.log[s] = {}
    BY <1>2
  <2> QED
    BY <1>2, <2>1, <2>2, FS_EmptySet DEF Written
<1>5. Imaged(e)
  BY <1>2 DEF Imaged
<1>6. PlaceInv' /\ WriteInv' /\ ImageInv'
  BY <1>1, <1>3, <1>4, <1>5, TxKept DEF IInv, e
<1>7. TellInv'
  BY <1>1, <1>2, TellKept DEF IInv, e
<1>8. RowLockExclusive'
  BY <1>1, <1>2, LocksKept DEF IInv, e
<1>9. CountInv' /\ HistoryTrue'
  BY TablesKept DEF IInv
<1>10. InvalidKeptOut'
  BY DEF IInv, InvalidKeptOut
<1> QED
  BY <1>6, <1>7, <1>8, <1>9, <1>10 DEF IInv

\* A handler that ends leaves its transaction to nobody.
LEMMA FinishInv ==
  ASSUME IInv, TypeOK', NEW h \in Handler, Finish(h), InvalidKeptOut', TellInv',
         UNCHANGED <<products, history, commits>>
  PROVE  IInv'
<1>1. hnd'[h] = Idle /\ \A g \in Handler \ {h} : hnd'[g] = hnd[g]
  BY FinishFacts DEF IInv
<1>2. ~InTx(hnd'[h])
  BY <1>1 DEF Idle, InTx
<1>3. PlaceInv' /\ WriteInv' /\ ImageInv'
  BY <1>1, <1>2, TxKept DEF IInv
<1>4. RowLockExclusive'
  BY <1>1, <1>2, LocksKept DEF IInv
<1>5. CountInv' /\ HistoryTrue'
  BY TablesKept DEF IInv
<1> QED
  BY <1>3, <1>4, <1>5 DEF IInv

\* The verdict leaves a batch with an invalid row at "uploaded".
LEMMA VerdictInv ==
  ASSUME TypeOK, InvalidKeptOut, NEW b \in Batch, Verdict(b), products' = products
  PROVE  InvalidKeptOut'
<1>1. status' = [status EXCEPT ![b] = IF b \in Invalid THEN "uploaded" ELSE "validated"]
  BY DEF Verdict
<1>2. \A c \in Invalid : status'[c] \notin {"validated", "committed"}
  BY <1>1, InvalidAssumption DEF TypeOK, InvalidKeptOut
<1> QED
  BY <1>2 DEF InvalidKeptOut

\* Telling the uploader takes the handler off the list of those who will.
LEMMA NotifyInv ==
  ASSUME IInv, TypeOK', NEW h \in Handler, Notify(h)
  PROVE  TellInv'
<1> DEFINE c == hnd[h].batch
<1>1. hnd'[h] = Idle /\ \A g \in Handler \ {h} : hnd'[g] = hnd[g]
  BY FinishFacts DEF Notify, IInv
<1>2. hnd'[h].step # "notify"
  BY <1>1 DEF Idle
<1>3. c \in Batch
  BY FlightFacts DEF IInv, Notify
<1> SUFFICES ASSUME NEW b \in Batch
             PROVE  /\ IsFiniteSet(Telling(b)')
                    /\ told'[b] + Cardinality(Telling(b)') <= commits'[b]
  BY DEF TellInv
<1>4. /\ IsFiniteSet(Telling(b)) /\ Cardinality(Telling(b)) \in Nat
      /\ told[b] + Cardinality(Telling(b)) <= commits[b]
      /\ told[b] \in Nat /\ commits[b] \in Nat
  BY FS_CardinalityType DEF IInv, TellInv, TypeOK
<1>5. CASE b = c
  <2>1. h \in Telling(b) /\ Telling(b)' = Telling(b) \ {h}
    BY <1>1, <1>2, <1>5 DEF Telling, Notify
  <2>2. /\ IsFiniteSet(Telling(b)')
        /\ Cardinality(Telling(b)') = Cardinality(Telling(b)) - 1
    BY <1>4, <2>1, FS_RemoveElement
  <2>3. told'[b] = told[b] + 1 /\ commits'[b] = commits[b]
    BY <1>3, <1>5 DEF Notify, IInv, TypeOK
  <2> QED
    BY <1>4, <2>2, <2>3
<1>6. CASE b # c
  <2>1. Telling(b)' = Telling(b)
    BY <1>1, <1>2, <1>6 DEF Telling
  <2>2. told'[b] = told[b] /\ commits'[b] = commits[b]
    BY <1>3, <1>6 DEF Notify, IInv, TypeOK
  <2> QED
    BY <1>4, <2>1, <2>2
<1> QED
  BY <1>5, <1>6

\* The SELECT reads an own row, a committed row or none.
LEMMA ReadInv ==
  ASSUME IInv, TypeOK', NEW h \in Handler, ReadBefore(h)
  PROVE  IInv'
<1> DEFINE f == hnd[h]
           e == hnd'[h]
           s == RowAt(f)
<1>1. /\ s \in Sku /\ e.step = "upsert" /\ e.before = Seen(f, s)
      /\ e.batch = f.batch /\ e.at = f.at
      /\ e.writes = f.writes /\ e.log = f.log
      /\ \A g \in Handler \ {h} : hnd'[g] = hnd[g]
  BY ReadFacts DEF IInv
<1>2. InTx(f) /\ Placed(f) /\ Written(f) /\ Imaged(f)
  BY DEF ReadBefore, InTx, IInv, PlaceInv, WriteInv, ImageInv
<1>3. UNCHANGED <<status, errors, products, history, commits, told>>
  BY DEF ReadBefore
<1>4. f.log \in [Sku -> Seq(Entry)] /\ history \in [Sku -> Seq(Entry)]
  BY FlightFacts DEF IInv, TypeOK, ReadBefore
<1>5. Placed(e)
  BY <1>1, <1>2 DEF Placed, ReadBefore
<1>6. Written(e)
  BY <1>1, <1>2 DEF Written
<1>7. Imaged(e)
  <2>1. RowAt(e) = s
    BY <1>1 DEF RowAt
  <2>2. \/ e.before = NoRow
        \/ ShownIn(e.before, history[s])
        \/ ShownIn(e.before, f.log[s])
    <3>1. CASE f.writes[s] # NoRow
      <4>1. f.log[s] # <<>> /\ f.log[s][Len(f.log[s])].after = f.writes[s]
        BY <1>1, <1>2, <3>1 DEF Written
      <4>2. Len(f.log[s]) \in DOMAIN f.log[s]
        BY <1>1, <1>4, <4>1
      <4> QED
        BY <1>1, <3>1, <4>1, <4>2 DEF Seen, ShownIn
    <3>2. CASE f.writes[s] = NoRow
      <4>1. e.before = products[s]
        BY <1>1, <3>2 DEF Seen
      <4>2. products[s] = IF history[s] = <<>> THEN NoRow
                          ELSE history[s][Len(history[s])].after
        BY <1>1 DEF IInv, HistoryTrue, HistoryEndsAtRow
      <4>3. history[s] # <<>> => Len(history[s]) \in DOMAIN history[s]
        BY <1>1, <1>4
      <4> QED
        BY <4>1, <4>2, <4>3 DEF ShownIn
    <3> QED
      BY <3>1, <3>2
  <2> QED
    BY <1>1, <1>2, <2>1, <2>2 DEF Imaged
<1>8. PlaceInv' /\ WriteInv' /\ ImageInv'
  BY <1>1, <1>3, <1>5, <1>6, <1>7, TxKept DEF IInv
<1>9. TellInv'
  BY <1>1, <1>3, TellKept DEF IInv
<1>10. RowLockExclusive'
  BY <1>1, <1>2, LocksKept DEF IInv
<1>11. CountInv' /\ HistoryTrue'
  BY <1>3, TablesKept DEF IInv
<1>12. InvalidKeptOut'
  BY <1>3 DEF IInv, InvalidKeptOut
<1> QED
  BY <1>8, <1>9, <1>10, <1>11, <1>12 DEF IInv

\* An upsert writes the row the transaction is at and logs a record of it.
LEMMA UpsertInv ==
  ASSUME IInv, TypeOK', NEW h \in Handler, Upsert(h)
  PROVE  IInv'
<1> DEFINE f == hnd[h]
           e == hnd'[h]
           s == RowAt(f)
           b == f.batch
           n == f.at
           v == <<b, n>>
           x == Logged(f)
<1>1. /\ s \in Sku /\ n \in DOMAIN Rows[b] /\ ~Locked(h, s)
      /\ e.step = "read" /\ e.batch = b /\ e.at = n + 1
      /\ e.writes[s] = v /\ e.log[s] = Append(f.log[s], x) /\ x \in Entry
      /\ \A t \in Sku \ {s} : e.writes[t] = f.writes[t] /\ e.log[t] = f.log[t]
      /\ \A g \in Handler \ {h} : hnd'[g] = hnd[g]
  BY UpsertFacts DEF IInv
<1>2. InTx(f) /\ Placed(f) /\ Written(f) /\ Imaged(f) /\ f.step = "upsert"
  BY DEF Upsert, InTx, IInv, PlaceInv, WriteInv, ImageInv
<1>3. UNCHANGED <<status, errors, products, history, commits, told>>
  BY DEF Upsert
<1>4. b \in Batch /\ n \in Nat /\ f.log \in [Sku -> Seq(Entry)]
  BY FlightFacts DEF IInv, Upsert
<1>5. /\ Len(Rows[b]) \in Nat /\ DOMAIN Rows[b] = 1 .. Len(Rows[b])
      /\ Rows[b][n] = s /\ n \in Nat \ {0}
  <2>1. Len(Rows[b]) \in Nat /\ DOMAIN Rows[b] = 1 .. Len(Rows[b])
    BY <1>4, RowsFacts
  <2>2. n # 0
    BY <1>1, <2>1
  <2> QED
    BY <1>4, <2>1, <2>2 DEF RowAt
<1>6. v # NoRow /\ v[1] = b /\ v[2] = n /\ x.after = v /\ x.before = f.before
  BY <1>4, NoRowAssumption DEF Logged
<1>7. f.log[s] \in Seq(Entry) /\ e.log[s] = Append(f.log[s], x)
  BY <1>1, <1>4
<1>8. /\ Len(e.log[s]) = Len(f.log[s]) + 1 /\ Len(f.log[s]) \in Nat
      /\ DOMAIN f.log[s] = 1 .. Len(f.log[s])
      /\ DOMAIN e.log[s] = 1 .. Len(f.log[s]) + 1
      /\ e.log[s][Len(f.log[s]) + 1] = x
      /\ \A i \in DOMAIN f.log[s] : e.log[s][i] = f.log[s][i]
      /\ e.log[s] # <<>>
  <2> HIDE DEF f, s, e, x
  <2> QED
    BY <1>7, <1>1
<1> HIDE DEF x, e, s
<1>9. \A i \in DOMAIN e.log[s] : i \in DOMAIN f.log[s] \/ i = Len(f.log[s]) + 1
  <2> DEFINE m == Len(f.log[s])
  <2>1. m \in Nat /\ DOMAIN f.log[s] = 1 .. m /\ DOMAIN e.log[s] = 1 .. m + 1
    BY <1>8
  <2> HIDE DEF m
  <2>2. \A i \in 1 .. m + 1 : i \in 1 .. m \/ i = m + 1
    BY <2>1
  <2> QED
    BY <2>1, <2>2 DEF m
<1>10. Placed(e)
  BY <1>1, <1>2, <1>5 DEF Placed
<1>11. Written(e)
  <2> SUFFICES ASSUME NEW t \in Sku
               PROVE  /\ IF e.writes[t] = NoRow
                         THEN Naming(b, n, t) = {} /\ e.log[t] = <<>>
                         ELSE /\ e.writes[t][1] = b
                              /\ Atomic!IsLast(b, n, t, e.writes[t][2])
                              /\ e.log[t] # <<>>
                              /\ e.log[t][Len(e.log[t])].after = e.writes[t]
                      /\ Len(e.log[t]) = Cardinality(Naming(b, n, t))
                      /\ \A i \in DOMAIN e.log[t] : e.log[t][i].after[1] = b
    BY <1>1, <1>5 DEF Written
  <2>1. /\ IF f.writes[t] = NoRow
           THEN Naming(b, n - 1, t) = {} /\ f.log[t] = <<>>
           ELSE /\ f.writes[t][1] = b
                /\ Atomic!IsLast(b, n - 1, t, f.writes[t][2])
                /\ f.log[t] # <<>>
                /\ f.log[t][Len(f.log[t])].after = f.writes[t]
        /\ Len(f.log[t]) = Cardinality(Naming(b, n - 1, t))
        /\ \A i \in DOMAIN f.log[t] : f.log[t][i].after[1] = b
    BY <1>2 DEF Written
  <2>2. CASE t = s
    <3>1. Atomic!IsLast(b, n, s, n)
      BY <1>5 DEF Atomic!IsLast
    <3>2. Cardinality(Naming(b, n, s)) = Cardinality(Naming(b, n - 1, s)) + 1
      BY <1>4, <1>5, NamingStep
    <3>3. \A i \in DOMAIN e.log[s] : e.log[s][i].after[1] = b
      <4> SUFFICES ASSUME NEW i \in DOMAIN e.log[s]
                   PROVE  e.log[s][i].after[1] = b
        OBVIOUS
      <4>1. CASE i \in DOMAIN f.log[s]
        BY <1>8, <2>1, <2>2, <4>1
      <4>2. CASE i = Len(f.log[s]) + 1
        BY <1>6, <1>8, <4>2
      <4> QED
        BY <1>9, <4>1, <4>2
    <3>4. Len(e.log[s]) = Cardinality(Naming(b, n, s))
      BY <1>8, <2>1, <2>2, <3>2
    <3>5. e.log[s][Len(e.log[s])].after = v
      BY <1>6, <1>8
    <3> HIDE DEF v
    <3> QED
      BY <1>1, <1>6, <1>8, <2>2, <3>1, <3>3, <3>4, <3>5
  <2>3. CASE t # s
    <3>1. Naming(b, n, t) = Naming(b, n - 1, t)
      BY <1>4, <1>5, <2>3, NamingStep
    <3>2. \A i : Atomic!IsLast(b, n - 1, t, i) => Atomic!IsLast(b, n, t, i)
      BY <1>5, <2>3 DEF Atomic!IsLast
    <3> QED
      BY <1>1, <2>1, <2>3, <3>1, <3>2
  <2> QED
    BY <2>2, <2>3
<1>12. Imaged(e)
  <2> SUFFICES ASSUME NEW t \in Sku, NEW i \in DOMAIN e.log[t]
               PROVE  \/ e.log[t][i].before = NoRow
                      \/ ShownIn(e.log[t][i].before, history[t])
                      \/ \E k \in 1 .. i - 1 :
                            e.log[t][k].after = e.log[t][i].before
    BY <1>1 DEF Imaged
  <2>1. \A j \in DOMAIN f.log[t] :
           \/ f.log[t][j].before = NoRow
           \/ ShownIn(f.log[t][j].before, history[t])
           \/ \E k \in 1 .. j - 1 : f.log[t][k].after = f.log[t][j].before
    BY <1>2 DEF Imaged
  <2>2. CASE t # s
    BY <1>1, <2>1, <2>2
  <2>3. CASE t = s /\ i \in DOMAIN f.log[s]
    <3>1. \A k \in 1 .. i - 1 : e.log[s][k] = f.log[s][k]
      <4>1. \A k \in 1 .. i - 1 : k \in DOMAIN f.log[s]
        BY <1>8, <2>3
      <4> QED
        BY <1>8, <4>1
    <3>2. e.log[s][i] = f.log[s][i]
      BY <1>8, <2>3
    <3> QED
      BY <2>1, <2>3, <3>1, <3>2
  <2>4. CASE t = s /\ i = Len(f.log[s]) + 1
    <3>1. e.log[t][i].before = f.before
      BY <1>6, <1>8, <2>4
    <3>2. \/ f.before = NoRow
          \/ ShownIn(f.before, history[s])
          \/ ShownIn(f.before, f.log[s])
      BY <1>2 DEF Imaged, s
    <3>3. ShownIn(f.before, f.log[s]) =>
             \E k \in 1 .. i - 1 : e.log[s][k].after = f.before
      BY <1>8, <2>4 DEF ShownIn
    <3> QED
      BY <2>4, <3>1, <3>2, <3>3
  <2> QED
    BY <1>9, <2>2, <2>3, <2>4
<1>13. PlaceInv' /\ WriteInv' /\ ImageInv'
  BY <1>1, <1>3, <1>10, <1>11, <1>12, TxKept DEF IInv, e
<1>14. TellInv'
  BY <1>1, <1>3, TellKept DEF IInv, e
<1>15. RowLockExclusive'
  <2> SUFFICES ASSUME NEW g \in Handler, NEW k \in Handler, NEW t \in Sku,
                      InTx(hnd'[g]), hnd'[g].writes[t] # NoRow,
                      InTx(hnd'[k]), hnd'[k].writes[t] # NoRow
               PROVE  g = k
    BY DEF RowLockExclusive, InTx
  <2>1. \A j \in Handler \ {h} : ~(InTx(hnd[j]) /\ hnd[j].writes[s] # NoRow)
    BY <1>1 DEF Locked
  <2>2. CASE t = s
    BY <1>1, <2>1, <2>2
  <2>3. CASE t # s
    <3>1. InTx(hnd[g]) /\ hnd[g].writes[t] # NoRow
      BY <1>1, <1>2, <2>3 DEF e
    <3>2. InTx(hnd[k]) /\ hnd[k].writes[t] # NoRow
      BY <1>1, <1>2, <2>3 DEF e
    <3> QED
      BY <3>1, <3>2 DEF IInv, RowLockExclusive
  <2> QED
    BY <2>2, <2>3
<1>16. CountInv' /\ HistoryTrue'
  BY <1>3, TablesKept DEF IInv
<1>17. InvalidKeptOut'
  BY <1>3 DEF IInv, InvalidKeptOut
<1> QED
  BY <1>13, <1>14, <1>15, <1>16, <1>17 DEF IInv

\* Every before image in a list of records is left by an earlier record of it.
Explained(log) == \A i \in DOMAIN log :
                     \/ log[i].before = NoRow
                     \/ \E k \in 1 .. i - 1 : log[k].after = log[i].before

\* Appending records whose images are explained by what they follow.
LEMMA ExplainedAppended ==
  ASSUME NEW old \in Seq(Entry), NEW log \in Seq(Entry), Explained(old),
         \A i \in DOMAIN log :
            \/ log[i].before = NoRow
            \/ ShownIn(log[i].before, old)
            \/ \E k \in 1 .. i - 1 : log[k].after = log[i].before
  PROVE  Explained(old \o log)
<1> DEFINE n == Len(old)
           m == Len(log)
           all == old \o log
<1>1. n \in Nat /\ m \in Nat /\ DOMAIN old = 1 .. n /\ DOMAIN log = 1 .. m
  OBVIOUS
<1>2. /\ DOMAIN all = 1 .. n + m
      /\ \A i \in 1 .. n : all[i] = old[i]
      /\ \A i \in 1 .. m : all[n + i] = log[i]
  OBVIOUS
<1> HIDE DEF n, m, all
<1> SUFFICES ASSUME NEW i \in 1 .. n + m, all[i].before # NoRow
             PROVE  \E k \in 1 .. i - 1 : all[k].after = all[i].before
  BY <1>2 DEF Explained, all
<1>3. CASE i <= n
  <2>1. i \in 1 .. n /\ all[i] = old[i]
    BY <1>1, <1>2, <1>3
  <2>2. PICK k \in 1 .. i - 1 : old[k].after = old[i].before
    BY <1>1, <2>1 DEF Explained
  <2>3. k \in 1 .. n
    BY <1>1, <2>1, <2>2
  <2> QED
    BY <1>2, <2>1, <2>2, <2>3
<1>4. CASE i > n
  <2> DEFINE j == i - n
  <2>1. j \in 1 .. m /\ i = n + j
    BY <1>1, <1>4
  <2> HIDE DEF j
  <2>2. all[i] = log[j]
    BY <1>2, <2>1
  <2>3. CASE ShownIn(log[j].before, old)
    <3>1. PICK k \in 1 .. n : old[k].after = log[j].before
      BY <1>1, <2>3 DEF ShownIn
    <3>2. k \in 1 .. i - 1 /\ all[k] = old[k]
      BY <1>1, <1>2, <1>4, <3>1
    <3> QED
      BY <2>2, <3>1, <3>2
  <2>4. CASE \E k \in 1 .. j - 1 : log[k].after = log[j].before
    <3>1. PICK k \in 1 .. j - 1 : log[k].after = log[j].before
      BY <2>4
    <3>2. n + k \in 1 .. i - 1 /\ k \in 1 .. m
      BY <1>1, <2>1, <3>1
    <3> QED
      BY <1>2, <2>2, <3>1, <3>2
  <2> QED
    BY <1>1, <2>1, <2>2, <2>3, <2>4
<1> QED
  BY <1>1, <1>3, <1>4

\* COMMIT stores what the transaction wrote and appends what it logged.
LEMMA CommitInv ==
  ASSUME IInv, TypeOK', NEW h \in Handler, CommitTx(h)
  PROVE  IInv'
<1> DEFINE f == hnd[h]
           b == f.batch
<1>1. /\ InTx(f) /\ b \in Batch /\ f.at = Len(Rows[b]) + 1
      /\ hnd'[h].step = "notify" /\ hnd'[h].batch = b
      /\ \A g \in Handler \ {h} : hnd'[g] = hnd[g]
  BY CommitFacts DEF IInv
<1>2. Placed(f) /\ Written(f) /\ Imaged(f)
  BY <1>1 DEF IInv, PlaceInv, WriteInv, ImageInv
<1>3. ~InTx(hnd'[h]) /\ f.step = "read"
  BY <1>1 DEF InTx, CommitTx
<1>4. /\ f.log \in [Sku -> Seq(Entry)] /\ history \in [Sku -> Seq(Entry)]
      /\ commits \in [Batch -> Nat] /\ told \in [Batch -> Nat]
      /\ status \in [Batch -> Status]
  BY <1>3, FlightFacts DEF IInv, TypeOK
<1>5. /\ status' = [status EXCEPT ![b] = "committed"]
      /\ commits' = [commits EXCEPT ![b] = @ + 1]
      /\ \A s \in Sku : products'[s] = Seen(f, s)
      /\ \A s \in Sku : history'[s] = history[s] \o f.log[s]
      /\ UNCHANGED <<errors, told>>
  BY DEF CommitTx
<1>6. Len(Rows[b]) \in Nat /\ f.at - 1 = Len(Rows[b])
  BY <1>1, RowsFacts
<1>7. \A s \in Sku :
        /\ IF f.writes[s] = NoRow
           THEN f.log[s] = <<>>
           ELSE /\ f.writes[s][1] = b
                /\ f.log[s] # <<>>
                /\ f.log[s][Len(f.log[s])].after = f.writes[s]
        /\ Len(f.log[s]) = Cardinality(Naming(b, Len(Rows[b]), s))
        /\ \A i \in DOMAIN f.log[s] : f.log[s][i].after[1] = b
  BY <1>2, <1>6 DEF Written
<1> HIDE DEF f, b
<1>8. PlaceInv'
  BY <1>1, <1>3 DEF IInv, PlaceInv, Placed, InTx
<1>9. WriteInv'
  <2> SUFFICES ASSUME NEW g \in Handler, InTx(hnd'[g]) PROVE Written(hnd'[g])
    BY DEF WriteInv, InTx, Written, Naming, Atomic!IsLast
  <2> QED
    BY <1>1, <1>3 DEF IInv, WriteInv
<1>10. ImageInv'
  <2> SUFFICES ASSUME NEW g \in Handler, InTx(hnd'[g]) PROVE Imaged(hnd[g])'
    BY DEF ImageInv, InTx
  <2> DEFINE e == hnd[g]
  <2>1. g # h /\ hnd'[g] = e /\ InTx(e)
    BY <1>1, <1>3
  <2>2. Imaged(e) /\ Placed(e)
    BY <2>1 DEF IInv, ImageInv, PlaceInv
  <2>3. \A s \in Sku : \A v : ShownIn(v, history[s]) => ShownIn(v, history'[s])
    BY <1>4, <1>5, ShownGrows
  <2>4. e.step = "upsert" => RowAt(e) \in Sku
    BY <2>1, <2>2, FlightFacts, RowsFacts DEF IInv, Placed, RowAt
  <2> HIDE DEF e
  <2> QED
    BY <2>1, <2>2, <2>3, <2>4 DEF Imaged, RowAt
<1>11. TellInv'
  <2> SUFFICES ASSUME NEW c \in Batch
               PROVE  /\ IsFiniteSet(Telling(c)')
                      /\ told'[c] + Cardinality(Telling(c)') <= commits'[c]
    BY DEF TellInv
  <2>1. /\ IsFiniteSet(Telling(c)) /\ Cardinality(Telling(c)) \in Nat
        /\ told[c] + Cardinality(Telling(c)) <= commits[c]
        /\ told[c] \in Nat /\ commits[c] \in Nat /\ told'[c] = told[c]
    BY <1>4, <1>5, FS_CardinalityType DEF IInv, TellInv
  <2>2. h \notin Telling(c)
    BY <1>3 DEF Telling, f
  <2>3. CASE c = b
    <3>1. Telling(c)' = Telling(c) \cup {h}
      BY <1>1, <2>3 DEF Telling
    <3>2. /\ IsFiniteSet(Telling(c)')
          /\ Cardinality(Telling(c)') = Cardinality(Telling(c)) + 1
      BY <2>1, <2>2, <3>1, FS_AddElement
    <3>3. commits'[c] = commits[c] + 1
      BY <1>4, <1>5, <2>3
    <3> QED
      BY <2>1, <3>2, <3>3
  <2>4. CASE c # b
    <3>1. Telling(c)' = Telling(c)
      BY <1>1, <2>2, <2>4 DEF Telling
    <3>2. commits'[c] = commits[c]
      BY <1>4, <1>5, <2>4
    <3> QED
      BY <2>1, <3>1, <3>2
  <2> QED
    BY <2>3, <2>4
<1>12. CountInv'
  <2> SUFFICES ASSUME NEW c \in Batch, NEW s \in Sku
               PROVE  /\ IsFiniteSet(Records(c, s)')
                      /\ Cardinality(Records(c, s)') =
                            commits'[c] * Cardinality(Naming(c, Len(Rows[c]), s))
    BY DEF CountInv, Naming
  <2> DEFINE k == Cardinality(Naming(c, Len(Rows[c]), s))
             r == Cardinality(Records(c, s))
             old == history[s]
             log == f.log[s]
  <2>1. IsFiniteSet(Records(c, s)) /\ r = commits[c] * k
    BY DEF IInv, CountInv
  <2>2. k \in Nat /\ commits[c] \in Nat
    BY <1>4, RowsFacts, NamingFinite
  <2>3. Records(c, s) = Of(c, old) /\ Records(c, s)' = Of(c, old \o log)
    BY <1>5 DEF Records, Of
  <2>4. old \in Seq(Entry) /\ log \in Seq(Entry)
    BY <1>4
  <2>5. \A i \in DOMAIN log : log[i].after[1] = b
    BY <1>7
  <2>6. Len(log) = Cardinality(Naming(b, Len(Rows[b]), s))
    BY <1>7
  <2> HIDE DEF old, log
  <2>7. /\ IsFiniteSet(Of(c, old \o log))
        /\ Cardinality(Of(c, old \o log)) =
              Cardinality(Of(c, old)) + (IF c = b THEN Len(log) ELSE 0)
    <3>1. IsFiniteSet(Of(c, old))
      BY <2>1, <2>3
    <3> QED
      BY <2>4, <2>5, <3>1, CountAppended
  <2>8. Cardinality(Records(c, s)') = r + (IF c = b THEN k ELSE 0)
    BY <2>3, <2>6, <2>7
  <2> HIDE DEF k, r
  <2>9. CASE c = b
    <3>1. commits'[c] = commits[c] + 1
      BY <1>4, <1>5, <2>9
    <3>2. commits'[c] * k = commits[c] * k + k
      BY <2>2, <3>1
    <3> QED
      BY <2>1, <2>3, <2>7, <2>8, <2>9, <3>2 DEF k
  <2>10. CASE c # b
    <3>1. commits'[c] = commits[c]
      BY <1>4, <1>5, <2>10
    <3>2. commits[c] * k \in Nat
      BY <2>2
    <3> QED
      BY <2>1, <2>3, <2>7, <2>8, <2>10, <3>1, <3>2 DEF k
  <2> QED
    BY <2>9, <2>10
<1>13. InvalidKeptOut'
  <2>1. b \notin Invalid
    BY <1>2 DEF Placed, b
  <2>2. \A c \in Invalid : status'[c] = status[c]
    BY <1>4, <1>5, <2>1, InvalidAssumption
  <2>3. \A s \in Sku : products'[s] # NoRow => products'[s][1] \notin Invalid
    BY <1>5, <1>7, <2>1 DEF IInv, InvalidKeptOut, Seen
  <2> QED
    BY <2>2, <2>3 DEF IInv, InvalidKeptOut
<1>14. HistoryEndsAtRow'
  <2> SUFFICES ASSUME NEW s \in Sku
               PROVE  products'[s] = IF history'[s] = <<>> THEN NoRow
                                     ELSE history'[s][Len(history'[s])].after
    BY DEF HistoryEndsAtRow
  <2> DEFINE old == history[s]
             log == f.log[s]
  <2>1. old \in Seq(Entry) /\ log \in Seq(Entry) /\ history'[s] = old \o log
    BY <1>4, <1>5
  <2>2. products[s] = IF old = <<>> THEN NoRow ELSE old[Len(old)].after
    BY DEF IInv, HistoryTrue, HistoryEndsAtRow
  <2>3. CASE f.writes[s] = NoRow
    <3>1. log = <<>> /\ products'[s] = products[s]
      BY <1>5, <1>7, <2>3 DEF Seen
    <3>2. history'[s] = old
      BY <2>1, <3>1
    <3> QED
      BY <2>2, <3>1, <3>2
  <2>4. CASE f.writes[s] # NoRow
    <3>1. /\ products'[s] = f.writes[s] /\ log # <<>>
          /\ log[Len(log)].after = f.writes[s]
      BY <1>5, <1>7, <2>4 DEF Seen
    <3> HIDE DEF old, log
    <3>2. old \o log # <<>> /\ (old \o log)[Len(old \o log)] = log[Len(log)]
      BY <2>1, <3>1
    <3> QED
      BY <2>1, <3>1, <3>2
  <2> QED
    BY <2>3, <2>4
<1>15. BeforeWasStored'
  <2>1. \A s \in Sku : Explained(history[s])
    BY DEF IInv, HistoryTrue, BeforeWasStored, Explained
  <2>2. \A s \in Sku : Explained(history[s] \o f.log[s])
    BY <1>2, <1>4, <2>1, ExplainedAppended DEF Imaged
  <2>3. \A s \in Sku : Explained(history'[s])
    BY <1>5, <2>2
  <2> QED
    BY <2>3 DEF BeforeWasStored, Explained
<1>16. RowLockExclusive'
  BY <1>1, <1>3, LocksKept DEF IInv
<1> QED
  BY <1>8, <1>9, <1>10, <1>11, <1>12, <1>13, <1>14, <1>15, <1>16
  DEF IInv, HistoryTrue

\* The handlers' part of the invariant, when no handler moves.
LEMMA HandlersKept ==
  ASSUME PlaceInv, WriteInv, ImageInv, RowLockExclusive,
         hnd' = hnd, history' = history
  PROVE  PlaceInv' /\ WriteInv' /\ ImageInv' /\ RowLockExclusive'
<1>1. PlaceInv' /\ RowLockExclusive'
  BY DEF PlaceInv, Placed, RowLockExclusive, InTx
<1>2. WriteInv'
  <2> SUFFICES ASSUME NEW g \in Handler, InTx(hnd'[g]) PROVE Written(hnd'[g])
    BY DEF WriteInv, InTx, Written, Naming, Atomic!IsLast
  <2> QED
    BY DEF WriteInv
<1>3. ImageInv'
  BY DEF ImageInv, Imaged, RowAt, InTx
<1> QED
  BY <1>1, <1>2, <1>3

\* Every step keeps the invariant.
LEMMA NextInv == IInv /\ [Next]_vars => IInv'
<1> SUFFICES ASSUME IInv, [Next]_vars PROVE IInv'
  OBVIOUS
<1>1. TypeOK'
  BY NextTypeOK DEF IInv
<1>2. ASSUME NEW b \in Batch, Upload(b) PROVE IInv'
  <2>1. UNCHANGED <<products, history, hnd, commits, told>>
    BY <1>2 DEF Upload
  <2>2. InvalidKeptOut'
    BY <1>2, <2>1, VerdictInv DEF Upload, IInv
  <2>3. CountInv' /\ HistoryTrue'
    BY <2>1, TablesKept DEF IInv
  <2>4. PlaceInv' /\ WriteInv' /\ ImageInv' /\ RowLockExclusive'
    BY <2>1, HandlersKept DEF IInv
  <2>5. TellInv'
    BY <2>1 DEF IInv, TellInv, Telling
  <2> QED
    BY <1>1, <2>2, <2>3, <2>4, <2>5 DEF IInv
<1>3. ASSUME NEW h \in Handler, NEW b \in Batch,
             ValidateRead(h, b) \/ CancelRead(h, b) \/ CommitRead(h, b)
      PROVE  IInv'
  <2>1. UNCHANGED <<status, errors, products, history, commits, told>>
    BY <1>3 DEF ValidateRead, CancelRead, CommitRead
  <2>2. CASE ValidateRead(h, b)
    BY <1>1, <2>1, <2>2, StartInv DEF ValidateRead
  <2>3. CASE CancelRead(h, b)
    BY <1>1, <2>1, <2>3, StartInv DEF CancelRead
  <2>4. CASE CommitRead(h, b)
    <3>1. b \notin Invalid
      BY <2>4 DEF CommitRead, IInv, InvalidKeptOut
    <3> QED
      BY <1>1, <2>1, <2>4, <3>1, StartInv DEF CommitRead
  <2> QED
    BY <1>3, <2>2, <2>3, <2>4
<1>4. ASSUME NEW h \in Handler, ValidateWrite(h) \/ CancelWrite(h) \/ Drop(h)
      PROVE  IInv'
  <2>1. /\ Finish(h) /\ UNCHANGED <<products, history, commits, told>>
    BY <1>4 DEF ValidateWrite, CancelWrite, Drop
  <2>2. hnd'[h].step # "notify" /\ \A g \in Handler \ {h} : hnd'[g] = hnd[g]
    BY <2>1, FinishFacts DEF IInv, Idle
  <2>3. TellInv'
    BY <2>1, <2>2, TellKept DEF IInv
  <2>4. CASE ValidateWrite(h)
    <3>1. hnd[h].batch \in Batch
      BY <2>4, FlightFacts DEF ValidateWrite, IInv
    <3>2. InvalidKeptOut'
      BY <2>1, <2>4, <3>1, VerdictInv DEF ValidateWrite, IInv
    <3> QED
      BY <1>1, <2>1, <2>3, <3>2, FinishInv
  <2>5. CASE CancelWrite(h)
    <3>1. \A b \in Invalid : status'[b] \in {status[b], "cancelled"}
      BY <2>5, InvalidAssumption DEF CancelWrite, IInv, TypeOK
    <3>2. InvalidKeptOut'
      BY <2>1, <3>1 DEF IInv, InvalidKeptOut
    <3> QED
      BY <1>1, <2>1, <2>3, <3>2, FinishInv
  <2>6. CASE Drop(h)
    <3>1. InvalidKeptOut'
      BY <2>6 DEF Drop, IInv, InvalidKeptOut
    <3> QED
      BY <1>1, <2>1, <2>3, <3>1, FinishInv
  <2> QED
    BY <1>4, <2>4, <2>5, <2>6
<1>5. ASSUME NEW h \in Handler, Notify(h) PROVE IInv'
  <2>1. TellInv'
    BY <1>1, <1>5, NotifyInv
  <2>2. InvalidKeptOut'
    BY <1>5 DEF Notify, IInv, InvalidKeptOut
  <2>3. Finish(h) /\ UNCHANGED <<products, history, commits>>
    BY <1>5 DEF Notify
  <2> QED
    BY <1>1, <2>1, <2>2, <2>3, FinishInv
<1>6. ASSUME NEW h \in Handler, ReadBefore(h) PROVE IInv'
  BY <1>1, <1>6, ReadInv
<1>7. ASSUME NEW h \in Handler, Upsert(h) PROVE IInv'
  BY <1>1, <1>7, UpsertInv
<1>8. ASSUME NEW h \in Handler, CommitTx(h) PROVE IInv'
  BY <1>1, <1>8, CommitInv
<1>9. CASE UNCHANGED vars
  <2>1. UNCHANGED <<status, products, history, hnd, commits, told>>
    BY <1>9 DEF vars
  <2>2. CountInv' /\ HistoryTrue'
    BY <2>1, TablesKept DEF IInv
  <2>3. PlaceInv' /\ WriteInv' /\ ImageInv' /\ RowLockExclusive'
    BY <2>1, HandlersKept DEF IInv
  <2>4. TellInv' /\ InvalidKeptOut'
    BY <2>1 DEF IInv, TellInv, Telling, InvalidKeptOut
  <2> QED
    BY <1>1, <2>2, <2>3, <2>4 DEF IInv
<1> QED
  BY <1>2, <1>3, <1>4, <1>5, <1>6, <1>7, <1>8, <1>9 DEF Next

-----------------------------------------------------------------------------
(* Theorems *)

\* The inductive invariant holds in every reachable state.
THEOREM Inductive == Spec => []IInv
<1>1. Init => IInv
  BY InitIInv
<1>2. IInv /\ [Next]_vars => IInv'
  BY NextInv
<1> QED
  BY <1>1, <1>2, PTL DEF Spec

\* Batches, handlers and tables keep their shapes.
THEOREM TypeCorrect == Spec => []TypeOK
<1>1. IInv => TypeOK
  BY DEF IInv
<1> QED
  BY <1>1, Inductive, PTL

\* A batch reaches the catalog wholly or not at all and only with valid rows,
\* and no uploader is told of a commit that did not happen.
THEOREM BatchesWholeAndValid == Spec => []WholeValidBatches
<1>1. IInv => WholeValidBatches
  <2> SUFFICES ASSUME IInv PROVE WholeBatches
    BY DEF IInv, WholeValidBatches
  <2> SUFFICES ASSUME NEW b \in Batch
               PROVE  /\ \A s \in Sku : Cardinality(Records(b, s)) =
                           commits[b] * Cardinality({i \in DOMAIN Rows[b] : Rows[b][i] = s})
                      /\ told[b] <= commits[b]
    BY DEF WholeBatches
  <2>1. \A s \in Sku : {i \in DOMAIN Rows[b] : Rows[b][i] = s} =
                       Naming(b, Len(Rows[b]), s)
    BY RowsFacts DEF Naming
  <2>2. \A s \in Sku : Cardinality(Records(b, s)) =
                       commits[b] * Cardinality(Naming(b, Len(Rows[b]), s))
    BY DEF IInv, CountInv
  <2>3. /\ told[b] + Cardinality(Telling(b)) <= commits[b]
        /\ Cardinality(Telling(b)) \in Nat
        /\ told[b] \in Nat /\ commits[b] \in Nat
    BY FS_CardinalityType DEF IInv, TellInv, TypeOK
  <2>4. told[b] <= commits[b]
    BY <2>3
  <2> QED
    BY <2>1, <2>2, <2>4
<1> QED
  BY <1>1, Inductive, PTL

\* The history of a product leads to its row, and its before images are rows
\* that were committed.
THEOREM HistoryIsTrue == Spec => []HistoryTrue
<1>1. IInv => HistoryTrue
  BY DEF IInv
<1> QED
  BY <1>1, Inductive, PTL

\* No product is written by two transactions that are open at once.
THEOREM OneWriterPerProduct == Spec => []RowLockExclusive
<1>1. IInv => RowLockExclusive
  BY DEF IInv
<1> QED
  BY <1>1, Inductive, PTL

\* A commit stores, of every product that the batch names, the last row naming
\* it, and leaves the others alone.
LEMMA CommitIsImport ==
  ASSUME IInv, NEW h \in Handler, CommitTx(h)
  PROVE  Atomic!Import(hnd[h].batch)
<1> DEFINE f == hnd[h]
           b == f.batch
           n == Len(Rows[b])
<1>1. InTx(f) /\ b \in Batch /\ f.at = n + 1
  BY CommitFacts DEF IInv
<1>2. Placed(f) /\ Written(f)
  BY <1>1 DEF IInv, PlaceInv, WriteInv
<1>3. f.writes \in [Sku -> Value]
  BY <1>1, FlightFacts DEF IInv, InTx
<1>4. n \in Nat /\ DOMAIN Rows[b] = 1 .. n /\ f.at - 1 = n
  BY <1>1, RowsFacts
<1>5. ASSUME NEW s \in Sku
      PROVE  Seen(f, s) = IF s \in Atomic!Skus(b)
                          THEN <<b, CHOOSE i \in 1 .. n : Atomic!IsLast(b, n, s, i)>>
                          ELSE products[s]
  <2>1. CASE f.writes[s] = NoRow
    <3>1. Naming(b, n, s) = {}
      BY <1>2, <1>4, <2>1 DEF Written
    <3>2. s \notin Atomic!Skus(b)
      BY <1>4, <3>1 DEF Atomic!Skus, Naming
    <3> QED
      BY <2>1, <3>2 DEF Seen
  <2>2. CASE f.writes[s] # NoRow
    <3> DEFINE j == f.writes[s][2]
    <3>1. f.writes[s][1] = b /\ Atomic!IsLast(b, n, s, j)
      BY <1>2, <1>4, <2>2 DEF Written
    <3>2. f.writes[s] = <<b, j>>
      <4>1. f.writes[s] \in Batch \X Nat
        BY <1>3, <2>2 DEF Value
      <4> QED
        BY <3>1, <4>1
    <3> HIDE DEF n, b
    <3>3. j \in 1 .. n /\ Rows[b][j] = s
      BY <3>1 DEF Atomic!IsLast
    <3>4. \A i \in 1 .. n : Atomic!IsLast(b, n, s, i) => i = j
      BY <1>4, <3>1, <3>3 DEF Atomic!IsLast
    <3>5. (CHOOSE i \in 1 .. n : Atomic!IsLast(b, n, s, i)) = j
      BY <3>1, <3>3, <3>4
    <3>6. s \in Atomic!Skus(b)
      BY <1>4, <3>3 DEF Atomic!Skus
    <3> QED
      BY <2>2, <3>2, <3>5, <3>6 DEF Seen
  <2> QED
    BY <2>1, <2>2
<1>6. products' = [s \in Sku |-> Seen(f, s)]
  BY DEF CommitTx
<1>7. products' = Atomic!Stored(b)
  BY <1>5, <1>6 DEF Atomic!Stored
<1> QED
  BY <1>2, <1>7 DEF Atomic!Import, Placed

\* What commit_import does in many statements is one atomic import, and every
\* other step leaves the catalog alone.
THEOREM ImportIsAtomic == Spec => ImplementsAtomicImport
<1>1. Init => Atomic!Init
  BY DEF Init, Atomic!Init
<1>2. IInv /\ [Next]_vars => [Atomic!Next]_products
  <2> SUFFICES ASSUME IInv, [Next]_vars PROVE Atomic!Next \/ products' = products
    OBVIOUS
  <2>1. ASSUME NEW h \in Handler, CommitTx(h) PROVE Atomic!Next
    <3>1. hnd[h].batch \in Batch
      BY <2>1, CommitFacts DEF IInv
    <3> QED
      BY <2>1, <3>1, CommitIsImport DEF Atomic!Next
  <2>2. ASSUME NEW b \in Batch, Upload(b) PROVE products' = products
    BY <2>2 DEF Upload
  <2>3. ASSUME NEW h \in Handler, NEW b \in Batch,
               ValidateRead(h, b) \/ CancelRead(h, b) \/ CommitRead(h, b)
        PROVE  products' = products
    BY <2>3 DEF ValidateRead, CancelRead, CommitRead
  <2>4. ASSUME NEW h \in Handler,
               \/ ValidateWrite(h) \/ CancelWrite(h) \/ ReadBefore(h)
               \/ Upsert(h) \/ Notify(h) \/ Drop(h)
        PROVE  products' = products
    BY <2>4 DEF ValidateWrite, CancelWrite, ReadBefore, Upsert, Notify, Drop
  <2>5. CASE UNCHANGED vars
    BY <2>5 DEF vars
  <2> QED
    BY <2>1, <2>2, <2>3, <2>4, <2>5 DEF Next
<1> QED
  BY <1>1, <1>2, Inductive, PTL DEF Spec, ImplementsAtomicImport, Atomic!Spec
=============================================================================
