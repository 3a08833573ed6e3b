---------------------------- MODULE CatalogProofs ----------------------------
(***************************************************************************)
(* Safety of Catalog for any products, states and lifetime of a link, and  *)
(* any mix and number of calls: what is deleted stays deleted, images have *)
(* their files, links end in time, every change is told, and the records  *)
(* of a product lead to the row that is stored.                            *)
(***************************************************************************)
EXTENDS Catalog, TLAPS, WellFoundedInduction

\* The statements of each kind of call, the last one first: Left[op][n] is the
\* next one when n are left.
Left == [create |-> <<"record", "after", "insert">>,
         update |-> <<"record", "after", "update", "before", "exists">>,
         delete |-> <<"record", "delete", "before">>,
         status |-> <<"notify", "record", "shelf">>,
         import |-> <<"commit", "upsert", "before", "begin">>,
         add |-> <<"record", "rate", "exists">>,
         set |-> <<"record", "rerate", "exists">>,
         drop |-> <<"record", "unrate", "exists">>,
         upload |-> <<"record", "row", "bytes", "file", "exists">>,
         remove |-> <<"record", "unfile", "unrow", "find", "exists">>,
         detail |-> <<"detail">>,
         serve |-> <<"read", "fetch", "verify">>]
Ops == DOMAIN Left

\* Statements that are left when the call has made its change.
After1 == {"delete", "add", "set", "drop", "upload"}
After2 == {"create", "update", "status", "remove"}
Changed(op, n) == n <= (IF op \in After1 THEN 1 ELSE IF op \in After2 THEN 2 ELSE 0)

Listed(f) ==
    /\ f.todo \in Seq(Statement)
    /\ Len(f.todo) \in 1 .. Len(Left[f.op])
    /\ \A i \in 1 .. Len(f.todo) : f.todo[i] = Left[f.op][Len(f.todo) + 1 - i]

ArgOK(f) ==
    /\ f.op \in {"status", "import"} => f.arg \in BOOLEAN
    /\ f.op = "add" => f.arg \in State

Fields == {"op", "on", "arg", "todo", "result", "before", "after", "stamp", "gone"}

\* A call that runs.
Flying(f) == /\ DOMAIN f = Fields
             /\ f.on \in Sku /\ f.stamp \in Nat /\ f.gone \in BOOLEAN
             /\ Listed(f) /\ ArgOK(f)

CallInv ==
    /\ Len(call) \in Nat
    /\ \A c \in Made :
          /\ call[c].op \in Ops
          /\ call[c].result = "running" =>
                /\ Flying(call[c])
                /\ call[c].op = "remove" => call[c].arg \in Made
                /\ call[c].op = "serve" => call[c].arg \in url

PastOK == past \in [mixed : SUBSET Sku, told : SUBSET Made, done : SUBSET Made,
                    late : SUBSET Made]

\* The stamp of a record is a place in the history of its product.
TableInv ==
    /\ DOMAIN product = Sku /\ DOMAIN history = Sku
    /\ \A s \in Sku : /\ Len(history[s]) \in Nat
                      /\ DOMAIN history[s] = 1 .. Len(history[s])
                      /\ \A i \in DOMAIN history[s] : history[s][i].stamp \in Nat
    /\ \A c \in Running : call[c].op = "import" =>
          call[c].stamp <= Len(history[call[c].on]) + 1

Todo(c) == Len(call[c].todo)
Dead(s) == product[s] # NoRow /\ product[s].deleted

\* A call that came after the deletion stops at its first look.
GoneInv ==
    \A c \in Running : call[c].gone =>
        IF call[c].op = "serve"
        THEN /\ Todo(c) >= 2
             /\ \A i \in image : i.id # call[c].arg.image
        ELSE /\ Dead(call[c].on)
             /\ call[c].op \in {"add", "set", "drop"} => Todo(c) = 3
             /\ call[c].op \in {"upload", "remove"} => Todo(c) = 5

\* The upload d has yet to insert its row.
Pending(d) == /\ call[d].result = "running" /\ call[d].op = "upload"
              /\ Todo(d) >= 2

\* Rows, links and removals are of images that were inserted, a row that is
\* about to be inserted has its file, and one that was removed stays away.
ImageInv ==
    /\ RowHasFile
    /\ \A i \in image : ~Pending(i.id)
    /\ \A u \in url : ~Pending(u.image)
    /\ \A c \in Running :
          /\ call[c].op = "remove" /\ Todo(c) <= 3 => ~Pending(call[c].arg)
          /\ call[c].op = "remove" /\ Todo(c) <= 2 =>
                \A i \in image : i.id # call[c].arg
          /\ call[c].op = "upload" /\ Todo(c) = 2 => c \in Files /\ file[c] = "whole"

\* A link ends at most Ttl from now, or from when it was looked at.
TimeInv ==
    /\ \A u \in url : u.exp <= now + Ttl
    /\ \A c \in Running : call[c].op = "serve" /\ Todo(c) <= 2 =>
          /\ call[c].stamp <= call[c].arg.exp
          /\ call[c].arg.exp <= call[c].stamp + Ttl

\* The record of a change that was made is still to come, or was written.
DoneInv ==
    \A c \in Running :
        /\ c \in past.done => Changed(call[c].op, Todo(c))
        /\ call[c].op = "status" /\ Todo(c) = 1 => c \in past.told

IInv == /\ TypeOK /\ CallInv /\ PastOK /\ TableInv /\ GoneInv /\ ImageInv
        /\ TimeInv /\ DoneInv /\ ChangesAreTold /\ ListedInOrder
        /\ GoneStaysGone

-----------------------------------------------------------------------------
(* Calls and their lists of statements *)

\* Where a statement stands in the call to which it belongs.
LEMMA Where ==
  ASSUME NEW op \in Ops, NEW n \in 1 .. Len(Left[op])
  PROVE  LET s == Left[op][n] IN
         /\ s \in Statement
         /\ n = 1 => s \in {"record", "notify", "commit", "detail", "read"}
         /\ op \in {"add", "set", "drop"} /\ n = 3 => s = "exists"
         /\ op \in {"upload", "remove"} /\ n = 5 => s = "exists"
         /\ op = "serve" /\ n = 2 => s = "fetch"
         /\ op = "serve" /\ n = 3 => s = "verify"
         /\ op = "serve" => n <= 3
         /\ op = "status" /\ n = 2 => s = "record"
         /\ op = "remove" /\ n = 4 => s = "find"
         /\ op = "remove" /\ n = 3 => s = "unrow"
         /\ op = "upload" /\ n = 3 => s = "bytes"
         /\ s = "exists" =>
               n >= 3 /\ op \in {"update", "add", "set", "drop", "upload", "remove"}
         /\ s = "exists" /\ op \in {"update", "upload", "remove"} => n = 5
         /\ s = "before" => n >= 3 /\ op \in {"update", "delete", "import"}
         /\ s = "after" => n = 2 /\ op \in {"create", "update"}
         /\ s = "insert" => n = 3 /\ op = "create"
         /\ s = "update" => n = 3 /\ op = "update"
         /\ s = "delete" => n = 2 /\ op = "delete"
         /\ s = "shelf" => n = 3 /\ op = "status"
         /\ s = "begin" => n = 4 /\ op = "import"
         /\ s = "upsert" => n = 2 /\ op = "import"
         /\ s = "commit" => n = 1 /\ op = "import"
         /\ s = "rate" => n = 2 /\ op = "add"
         /\ s = "rerate" => n = 2 /\ op = "set"
         /\ s = "unrate" => n = 2 /\ op = "drop"
         /\ s = "record" =>
               n = (IF op = "status" THEN 2 ELSE 1)
               /\ op \notin {"import", "detail", "serve"}
         /\ s = "notify" => n = 1 /\ op = "status"
         /\ s = "file" => n = 4 /\ op = "upload"
         /\ s = "bytes" => n = 3 /\ op = "upload"
         /\ s = "row" => n = 2 /\ op = "upload"
         /\ s = "find" => n = 4 /\ op = "remove"
         /\ s = "unrow" => n = 3 /\ op = "remove"
         /\ s = "unfile" => n = 2 /\ op = "remove"
         /\ s = "detail" => n = 1 /\ op = "detail"
         /\ s = "verify" => n = 3 /\ op = "serve"
         /\ s = "fetch" => n = 2 /\ op = "serve"
         /\ s = "read" => n = 1 /\ op = "serve"
<1> USE DEF Statement
<1>1. CASE op = "create"
  BY <1>1 DEF Left
<1>2. CASE op = "update"
  BY <1>2 DEF Left
<1>3. CASE op = "delete"
  BY <1>3 DEF Left
<1>4. CASE op = "status"
  BY <1>4 DEF Left
<1>5. CASE op = "import"
  BY <1>5 DEF Left
<1>6. CASE op = "add"
  BY <1>6 DEF Left
<1>7. CASE op = "set"
  BY <1>7 DEF Left
<1>8. CASE op = "drop"
  BY <1>8 DEF Left
<1>9. CASE op = "upload"
  BY <1>9 DEF Left
<1>10. CASE op = "remove"
  BY <1>10 DEF Left
<1>11. CASE op = "detail"
  BY <1>11 DEF Left
<1>12. CASE op = "serve"
  BY <1>12 DEF Left
<1> QED
  BY <1>1, <1>2, <1>3, <1>4, <1>5, <1>6, <1>7, <1>8, <1>9, <1>10, <1>11, <1>12
     DEF Ops, Left

\* The statements that make the change of their call.
Changes == {"insert", "update", "delete", "shelf", "rate", "rerate", "unrate",
            "row", "unrow"}

\* The change of each kind of call.
LEMMA WhereChange ==
  ASSUME NEW op \in Ops, NEW n \in 1 .. Len(Left[op]), Left[op][n] \in Changes
  PROVE  /\ Left[op][n] = "insert" => n = 3 /\ op = "create"
         /\ Left[op][n] = "update" => n = 3 /\ op = "update"
         /\ Left[op][n] = "delete" => n = 2 /\ op = "delete"
         /\ Left[op][n] = "shelf" => n = 3 /\ op = "status"
         /\ Left[op][n] = "rate" => n = 2 /\ op = "add"
         /\ Left[op][n] = "rerate" => n = 2 /\ op = "set"
         /\ Left[op][n] = "unrate" => n = 2 /\ op = "drop"
         /\ Left[op][n] = "row" => n = 2 /\ op = "upload"
         /\ Left[op][n] = "unrow" => n = 3 /\ op = "remove"
<1> DEFINE s == Left[op][n]
<1>1. s = Left[op][n]
  OBVIOUS
<1> HIDE DEF s
<1>2. /\ s = "insert" => n = 3 /\ op = "create"
      /\ s = "update" => n = 3 /\ op = "update"
      /\ s = "delete" => n = 2 /\ op = "delete"
  BY <1>1, Where
<1>3. /\ s = "shelf" => n = 3 /\ op = "status"
      /\ s = "rate" => n = 2 /\ op = "add"
      /\ s = "rerate" => n = 2 /\ op = "set"
  BY <1>1, Where
<1>4. /\ s = "unrate" => n = 2 /\ op = "drop"
      /\ s = "row" => n = 2 /\ op = "upload"
      /\ s = "unrow" => n = 3 /\ op = "remove"
  BY <1>1, Where
<1> QED
  BY <1>2, <1>3, <1>4 DEF s

\* The statements that write records and files, or hand out links.
LEMMA WhereWrite ==
  ASSUME NEW op \in Ops, NEW n \in 1 .. Len(Left[op])
  PROVE  LET s == Left[op][n] IN
         /\ s = "file" => n = 4 /\ op = "upload"
         /\ s = "bytes" => n = 3 /\ op = "upload"
         /\ s = "unfile" => n = 2 /\ op = "remove"
         /\ s = "detail" => n = 1 /\ op = "detail"
         /\ s = "record" => n = IF op = "status" THEN 2 ELSE 1
         /\ s = "commit" => n = 1 /\ op = "import"
<1>1. CASE op = "create"
  BY <1>1 DEF Left
<1>2. CASE op = "update"
  BY <1>2 DEF Left
<1>3. CASE op = "delete"
  BY <1>3 DEF Left
<1>4. CASE op = "status"
  BY <1>4 DEF Left
<1>5. CASE op = "import"
  BY <1>5 DEF Left
<1>6. CASE op = "add"
  BY <1>6 DEF Left
<1>7. CASE op = "set"
  BY <1>7 DEF Left
<1>8. CASE op = "drop"
  BY <1>8 DEF Left
<1>9. CASE op = "upload"
  BY <1>9 DEF Left
<1>10. CASE op = "remove"
  BY <1>10 DEF Left
<1>11. CASE op = "detail"
  BY <1>11 DEF Left
<1>12. CASE op = "serve"
  BY <1>12 DEF Left
<1> QED
  BY <1>1, <1>2, <1>3, <1>4, <1>5, <1>6, <1>7, <1>8, <1>9, <1>10, <1>11, <1>12
     DEF Ops, Left

\* A call that may be refused has changed nothing, and what is left after a
\* change is not more than what Changed allows.
LEMMA ChangedFacts ==
  ASSUME NEW op \in Ops, NEW n \in Nat
  PROVE  /\ Changed(op, n) => n <= 2
         /\ Changed(op, n) /\ n = 2 => op \in After2
         /\ Changed(op, n) /\ n = 1 => op \in After1 \cup After2
         /\ Changed(op, n + 1) => Changed(op, n)
         /\ op \in After2 => Changed(op, 2)
         /\ op \in After1 => Changed(op, 1)
  BY DEF Changed, After1, After2

\* The rest of a list.
LEMMA TailFacts ==
  ASSUME NEW S, NEW s \in Seq(S), s # <<>>
  PROVE  /\ Head(s) = s[1] /\ Len(s) \in Nat \ {0} /\ DOMAIN s = 1 .. Len(s)
         /\ Tail(s) \in Seq(S) /\ Len(Tail(s)) = Len(s) - 1
         /\ \A i \in 1 .. Len(s) - 1 : Tail(s)[i] = s[i + 1]
<1>1. Head(s) = s[1] /\ Len(s) \in Nat \ {0} /\ DOMAIN s = 1 .. Len(s)
  OBVIOUS
<1>2. Tail(s) \in Seq(S) /\ Len(Tail(s)) = Len(s) - 1
  OBVIOUS
<1>3. \A i \in 1 .. Len(s) - 1 : Tail(s)[i] = s[i + 1]
  BY <1>1
<1> QED
  BY <1>1, <1>2, <1>3

\* What is left of a call after its next statement.
LEMMA ListedTail ==
  ASSUME NEW f, NEW g, Listed(f), g.op = f.op, g.todo = Tail(f.todo),
         Len(f.todo) # 1, Len(Left[f.op]) \in Nat
  PROVE  Listed(g) /\ Len(g.todo) = Len(f.todo) - 1
<1> DEFINE s == f.todo
           L == Left[f.op]
<1>1. /\ s \in Seq(Statement) /\ Len(s) \in 1 .. Len(L) /\ Len(s) # 1
      /\ \A i \in 1 .. Len(s) : s[i] = L[Len(s) + 1 - i]
      /\ Len(L) \in Nat
  BY DEF Listed
<1>2. g.todo = Tail(s) /\ Left[g.op] = L
  OBVIOUS
<1> HIDE DEF s, L
<1>3. s # <<>>
  <2>1. s = <<>> => Len(s) = 0
    OBVIOUS
  <2> QED
    BY <1>1, <2>1
<1>4. /\ Tail(s) \in Seq(Statement) /\ Len(Tail(s)) = Len(s) - 1
      /\ \A i \in 1 .. Len(s) - 1 : Tail(s)[i] = s[i + 1]
  BY <1>1, <1>3, TailFacts
<1>5. Len(s) - 1 \in 1 .. Len(L)
  <2> DEFINE m == Len(s)
             n == Len(L)
  <2>1. m \in 1 .. n /\ m # 1 /\ n \in Nat
    BY <1>1
  <2> HIDE DEF m, n
  <2>2. m - 1 \in 1 .. n
    BY <2>1
  <2> QED
    BY <2>2 DEF m, n
<1>6. \A i \in 1 .. Len(s) - 1 : Tail(s)[i] = L[Len(s) - 1 + 1 - i]
  <2> TAKE i \in 1 .. Len(s) - 1
  <2>1. i + 1 \in 1 .. Len(s) /\ Len(s) + 1 - (i + 1) = Len(s) - 1 + 1 - i
    BY <1>1
  <2> QED
    BY <1>1, <1>4, <2>1
<1>7. Listed(g)
  BY <1>2, <1>4, <1>5, <1>6 DEF Listed
<1>8. Len(g.todo) = Len(s) - 1
  BY <1>2, <1>4
<1> QED
  BY <1>7, <1>8 DEF s

\* What a call that runs is at.
LEMMA RunningFacts ==
  ASSUME TypeOK, CallInv, NEW c \in Running
  PROVE  /\ c \in Made /\ c \in Nat /\ call[c].result = "running"
         /\ call[c].op \in Ops /\ Flying(call[c])
         /\ call[c].on \in Sku /\ call[c].stamp \in Nat /\ call[c].gone \in BOOLEAN
         /\ Listed(call[c]) /\ call[c].todo \in Seq(Statement) /\ call[c].todo # <<>>
         /\ Todo(c) \in Nat \ {0} /\ Todo(c) \in 1 .. Len(Left[call[c].op])
         /\ Head(call[c].todo) = Left[call[c].op][Todo(c)]
         /\ Len(Left[call[c].op]) \in Nat
<1>1. c \in Made /\ call[c].result = "running" /\ c \in Nat
  BY DEF Running, TypeOK, CallInv
<1>2. call[c].op \in Ops /\ Flying(call[c])
  BY <1>1 DEF CallInv
<1>3. /\ call[c].on \in Sku /\ call[c].stamp \in Nat /\ call[c].gone \in BOOLEAN
      /\ Listed(call[c])
  BY <1>2 DEF Flying
<1> DEFINE s == call[c].todo
           L == Left[call[c].op]
<1>4. /\ s \in Seq(Statement) /\ Len(s) \in 1 .. Len(L)
      /\ \A i \in 1 .. Len(s) : s[i] = L[Len(s) + 1 - i]
  BY <1>3 DEF Listed
<1>5. Len(L) \in Nat
  BY <1>2 DEF Ops, Left
<1> HIDE DEF s, L
<1>6. s # <<>>
  <2>1. s = <<>> => Len(s) = 0
    OBVIOUS
  <2> QED
    BY <1>4, <2>1
<1>7. Head(s) = s[1] /\ Len(s) \in Nat \ {0}
  BY <1>4, <1>6, TailFacts
<1>8. s[1] = L[Len(s)]
  <2>1. 1 \in 1 .. Len(s) /\ Len(s) + 1 - 1 = Len(s)
    BY <1>7
  <2> QED
    BY <1>4, <2>1
<1> QED
  BY <1>1, <1>2, <1>3, <1>4, <1>5, <1>6, <1>7, <1>8 DEF s, L, Todo

\* Call c has run its next statement, been refused or been cut.
Moved(c) ==
    /\ Len(call') = Len(call) /\ Made' = Made
    /\ \A d \in Made \ {c} : call'[d] = call[d]
    /\ call'[c].op = call[c].op
    /\ call'[c].todo \in Seq(Statement)
    /\ call'[c].result \in {"running"} \cup Finished
    /\ call'[c].result = "running" =>
          /\ Flying(call'[c])
          /\ call'[c].on = call[c].on /\ call'[c].arg = call[c].arg
          /\ call'[c].gone = call[c].gone
          /\ Len(call'[c].todo) = Todo(c) - 1

\* It has run it: it ends when this was the last one.
Went(c) ==
    /\ Moved(c)
    /\ call'[c].result = IF Todo(c) = 1 THEN "ok" ELSE "running"

LEMMA OverFacts ==
  ASSUME TypeOK, CallInv, NEW c \in Running,
         NEW result \in Finished, call' = Over(c, result)
  PROVE  Moved(c) /\ call'[c].result = result
<1>1. c \in Made
  BY RunningFacts
<1> DEFINE e == [op |-> call[c].op, on |-> call[c].on,
                 todo |-> <<>>, result |-> result]
<1>2. e.op = call[c].op /\ e.todo = <<>> /\ e.result = result
  OBVIOUS
<1>3. call' = [call EXCEPT ![c] = e]
  BY DEF Over
<1> HIDE DEF e
<1>4. /\ Len(call') = Len(call) /\ Made' = Made
      /\ call'[c] = e /\ \A d \in Made \ {c} : call'[d] = call[d]
  BY <1>1, <1>3 DEF TypeOK, CallInv, Made
<1>5. <<>> \in Seq(Statement) /\ result # "running"
  BY DEF Finished
<1>6. /\ call'[c].op = call[c].op /\ call'[c].todo \in Seq(Statement)
      /\ call'[c].result = result /\ call'[c].result # "running"
      /\ call'[c].result \in {"running"} \cup Finished
  BY <1>2, <1>4, <1>5
<1> QED
  BY <1>4, <1>6 DEF Moved

\* A statement that is not the last one, and may keep something for later ones.
LEMMA StepFacts ==
  ASSUME TypeOK, CallInv, NEW c \in Running, Todo(c) # 1, NEW e,
         call' = [call EXCEPT ![c] = e],
         DOMAIN e = Fields, e.op = call[c].op, e.on = call[c].on,
         e.arg = call[c].arg, e.gone = call[c].gone, e.result = "running",
         e.stamp \in Nat, e.todo = Tail(call[c].todo)
  PROVE  Went(c) /\ call'[c] = e
<1> DEFINE f == call[c]
<1>1. /\ c \in Made /\ f.op \in Ops /\ Flying(f) /\ Listed(f)
      /\ Len(Left[f.op]) \in Nat
  BY RunningFacts
<1>2. /\ Len(call') = Len(call) /\ Made' = Made
      /\ call'[c] = e /\ \A d \in Made \ {c} : call'[d] = call[d]
  BY <1>1 DEF TypeOK, CallInv, Made
<1>3. e.op = f.op /\ e.todo = Tail(f.todo) /\ Len(f.todo) # 1
  BY DEF Todo
<1>4. Listed(e) /\ Len(e.todo) = Len(f.todo) - 1
  BY <1>1, <1>3, ListedTail
<1>5. ArgOK(e)
  BY <1>1 DEF Flying, ArgOK
<1>6. Flying(e)
  BY <1>1, <1>4, <1>5 DEF Flying
<1>7. e.todo \in Seq(Statement)
  BY <1>4 DEF Listed
<1> QED
  BY <1>2, <1>4, <1>6, <1>7 DEF Moved, Went, Todo

\* A statement that ran and keeps nothing.
LEMMA RanFacts ==
  ASSUME TypeOK, CallInv, NEW c \in Running, Ran(c)
  PROVE  /\ Went(c)
         /\ call'[c].result = "running" => call'[c].stamp = call[c].stamp
<1>1. CASE Todo(c) = 1
  BY <1>1, OverFacts DEF Ran, Step, Todo, Went, Finished
<1>2. CASE Todo(c) # 1
  <2> DEFINE f == call[c]
             e == [f EXCEPT !.todo = Tail(@)]
  <2>1. c \in Made /\ Flying(f) /\ f.result = "running" /\ f.stamp \in Nat
    BY RunningFacts
  <2>2. call' = [call EXCEPT ![c] = e]
    BY <1>2 DEF Ran, Step, Todo
  <2> HIDE DEF f
  <2>3. /\ DOMAIN e = Fields /\ e.op = f.op /\ e.on = f.on /\ e.arg = f.arg
        /\ e.gone = f.gone /\ e.result = "running" /\ e.todo = Tail(f.todo)
        /\ e.stamp = f.stamp
    BY <2>1 DEF Flying, Fields
  <2> HIDE DEF e
  <2>4. Went(c) /\ call'[c] = e
    BY <1>2, <2>1, <2>2, <2>3, StepFacts DEF f
  <2> QED
    BY <2>3, <2>4 DEF f
<1> QED
  BY <1>1, <1>2

\* One that keeps the row it has seen, or what the change leaves.
LEMMA KeepFacts ==
  ASSUME TypeOK, CallInv, NEW c \in Running, Todo(c) # 1, NEW row,
         \/ call' = [Step(c) EXCEPT ![c].before = row]
         \/ call' = [Step(c) EXCEPT ![c].after = row]
  PROVE  Went(c) /\ call'[c].stamp = call[c].stamp
<1> DEFINE f == call[c]
<1>1. c \in Made /\ Flying(f) /\ f.result = "running" /\ f.stamp \in Nat
  BY RunningFacts
<1>2. Step(c) = [call EXCEPT ![c].todo = Tail(@)]
  BY DEF Step, Todo
<1> DEFINE t == [f EXCEPT !.todo = Tail(@)]
<1>3. CASE call' = [Step(c) EXCEPT ![c].before = row]
  <2> DEFINE e == [t EXCEPT !.before = row]
  <2>1. call' = [call EXCEPT ![c] = e]
    BY <1>1, <1>2, <1>3 DEF Made
  <2> HIDE DEF f
  <2>2. /\ DOMAIN e = Fields /\ e.op = f.op /\ e.on = f.on /\ e.arg = f.arg
        /\ e.gone = f.gone /\ e.result = "running" /\ e.todo = Tail(f.todo)
        /\ e.stamp = f.stamp
    BY <1>1 DEF Flying, Fields
  <2> HIDE DEF e, t
  <2> QED
    BY <1>1, <2>1, <2>2, StepFacts DEF f
<1>4. CASE call' = [Step(c) EXCEPT ![c].after = row]
  <2> DEFINE e == [t EXCEPT !.after = row]
  <2>1. call' = [call EXCEPT ![c] = e]
    BY <1>1, <1>2, <1>4 DEF Made
  <2> HIDE DEF f
  <2>2. /\ DOMAIN e = Fields /\ e.op = f.op /\ e.on = f.on /\ e.arg = f.arg
        /\ e.gone = f.gone /\ e.result = "running" /\ e.todo = Tail(f.todo)
        /\ e.stamp = f.stamp
    BY <1>1 DEF Flying, Fields
  <2> HIDE DEF e, t
  <2> QED
    BY <1>1, <2>1, <2>2, StepFacts DEF f
<1> QED
  BY <1>3, <1>4

\* One that keeps a moment.
LEMMA StampFacts ==
  ASSUME TypeOK, CallInv, NEW c \in Running, Todo(c) # 1, NEW stamp \in Nat,
         call' = [Step(c) EXCEPT ![c].stamp = stamp]
  PROVE  Went(c) /\ call'[c].stamp = stamp
<1> DEFINE f == call[c]
           t == [f EXCEPT !.todo = Tail(@)]
           e == [t EXCEPT !.stamp = stamp]
<1>1. c \in Made /\ Flying(f) /\ f.result = "running"
  BY RunningFacts
<1>2. Step(c) = [call EXCEPT ![c].todo = Tail(@)]
  BY DEF Step, Todo
<1>3. call' = [call EXCEPT ![c] = e]
  BY <1>1, <1>2 DEF Made
<1> HIDE DEF f
<1>4. /\ DOMAIN e = Fields /\ e.op = f.op /\ e.on = f.on /\ e.arg = f.arg
      /\ e.gone = f.gone /\ e.result = "running" /\ e.todo = Tail(f.todo)
      /\ e.stamp = stamp
  BY <1>1 DEF Flying, Fields
<1> HIDE DEF e, t
<1> QED
  BY <1>1, <1>3, <1>4, StepFacts DEF f

-----------------------------------------------------------------------------
(* What one statement leaves alone *)

ProductOK == \A s \in Sku : product[s] \in Row \cup {NoRow}
RateOK == rate \subseteq [id : Made, sku : Sku, state : State, val : Made]
ImageOK == image \subseteq [id : Made, sku : Sku]
FileOK == \A i \in DOMAIN file : i \in Made /\ file[i] \in {"part", "whole"}
HistoryOK == \A s \in Sku : \A i \in DOMAIN history[s] :
                /\ history[s][i].call \in Made \cup {Seed}
                /\ history[s][i].stamp <= Len(history[s])
UrlOK == url \subseteq [image : Made, exp : Nat]

\* A table that stays keeps its type.
LEMMA Frames ==
  ASSUME TypeOK, Made \subseteq Made'
  PROVE  /\ UNCHANGED product => ProductOK'
         /\ UNCHANGED rate => RateOK'
         /\ UNCHANGED image => ImageOK'
         /\ UNCHANGED file => FileOK'
         /\ UNCHANGED history => HistoryOK'
         /\ UNCHANGED url => UrlOK'
<1>1. UNCHANGED product => ProductOK'
  BY DEF TypeOK, ProductOK, Row
<1>2. UNCHANGED rate => RateOK'
  BY DEF TypeOK, RateOK
<1>3. UNCHANGED image => ImageOK'
  BY DEF TypeOK, ImageOK
<1>4. UNCHANGED file => FileOK'
  BY DEF TypeOK, FileOK
<1>5. UNCHANGED history => HistoryOK'
  BY DEF TypeOK, HistoryOK
<1>6. UNCHANGED url => UrlOK'
  BY DEF TypeOK, UrlOK
<1> QED
  BY <1>1, <1>2, <1>3, <1>4, <1>5, <1>6

\* The types, when one call moves and the tables keep theirs.
LEMMA TypeKept ==
  ASSUME TypeOK, CallInv, NEW c \in Running, Moved(c), UNCHANGED <<now, mix>>,
         ProductOK', RateOK', ImageOK', FileOK', HistoryOK', UrlOK',
         url \subseteq url'
  PROVE  TypeOK' /\ CallInv'
<1>1. c \in Made /\ call[c].op \in Ops /\ call[c].result = "running"
  BY RunningFacts
<1>2. Made' = Made /\ Len(call') = Len(call)
  BY DEF Moved
<1>3. \A d \in Made : call'[d].todo \in Seq(Statement)
                      /\ call'[d].result \in {"running"} \cup Finished
  BY <1>1 DEF Moved, TypeOK
<1>4. \A d \in Made :
         /\ call'[d].op \in Ops
         /\ call'[d].result = "running" =>
               /\ Flying(call'[d])
               /\ call'[d].op = "remove" => call'[d].arg \in Made
               /\ call'[d].op = "serve" => call'[d].arg \in url'
  <2> HIDE DEF Ops
  <2>1. ASSUME NEW d \in Made, d # c
        PROVE  /\ call'[d].op \in Ops
               /\ call'[d].result = "running" =>
                     /\ Flying(call'[d])
                     /\ call'[d].op = "remove" => call'[d].arg \in Made
                     /\ call'[d].op = "serve" => call'[d].arg \in url'
    BY <2>1 DEF Moved, CallInv
  <2>2. /\ call'[c].op \in Ops
        /\ call'[c].result = "running" =>
              /\ Flying(call'[c])
              /\ call'[c].op = "remove" => call'[c].arg \in Made
              /\ call'[c].op = "serve" => call'[c].arg \in url'
    BY <1>1 DEF Moved, CallInv
  <2> QED
    BY <2>1, <2>2
<1>5. CallInv'
  BY <1>2, <1>4 DEF CallInv, Flying, Listed, ArgOK
<1>6. Made' = 1 .. Len(call') /\ Len(call') <= mix'.calls
      /\ mix' \in Mixes /\ now' \in 0 .. mix'.time
  BY <1>2 DEF TypeOK
<1>7. TypeOK'
  BY <1>2, <1>3, <1>6
     DEF TypeOK, ProductOK, RateOK, ImageOK, FileOK, HistoryOK, UrlOK
<1> QED
  BY <1>5, <1>7

\* Calls that run after the step ran before it.
LEMMA StillRunning ==
  ASSUME TypeOK, CallInv, NEW c \in Running, Moved(c), NEW d \in Running'
  PROVE  /\ d \in Running /\ d \in Made /\ call'[d].result = "running"
         /\ call'[d].op = call[d].op /\ call'[d].on = call[d].on
         /\ call'[d].arg = call[d].arg /\ call'[d].gone = call[d].gone
         /\ Todo(d)' = (IF d = c THEN Todo(c) - 1 ELSE Todo(d))
         /\ d # c => call'[d] = call[d]
         /\ Todo(d) \in Nat \ {0}
<1>1. d \in Made /\ call'[d].result = "running"
  BY DEF Running, Moved
<1>2. c \in Made /\ call[c].result = "running"
  BY RunningFacts
<1>3. CASE d = c
  BY <1>1, <1>2, <1>3, RunningFacts DEF Moved, Todo
<1>4. CASE d # c
  <2>1. call'[d] = call[d] /\ d \in Running
    BY <1>1, <1>4 DEF Moved, Running
  <2> QED
    BY <1>1, <1>4, <2>1, RunningFacts DEF Todo
<1> QED
  BY <1>3, <1>4

\* Records and the stamps of imports, when no history gets shorter.
LEMMA TableKept ==
  ASSUME TypeOK, CallInv, TableInv, NEW c \in Running, Moved(c),
         DOMAIN product' = Sku, DOMAIN history' = Sku,
         \A s \in Sku : /\ Len(history'[s]) \in Nat
                        /\ DOMAIN history'[s] = 1 .. Len(history'[s])
                        /\ \A i \in DOMAIN history'[s] : history'[s][i].stamp \in Nat
                        /\ Len(history[s]) <= Len(history'[s]),
         call'[c].result = "running" /\ call[c].op = "import" =>
            call'[c].stamp <= Len(history[call[c].on]) + 1
  PROVE  TableInv'
<1>1. ASSUME NEW d \in Running', call'[d].op = "import"
      PROVE  call'[d].stamp <= Len(history'[call'[d].on]) + 1
  <2>1. /\ d \in Running /\ call'[d].op = call[d].op /\ call'[d].on = call[d].on
        /\ d # c => call'[d] = call[d]
        /\ call'[d].result = "running"
    BY StillRunning
  <2>2. call[d].on \in Sku /\ call'[d].stamp \in Nat
    <3>1. d = c => call'[d].stamp \in Nat
      BY <2>1 DEF Moved, Flying
    <3> QED
      BY <2>1, <3>1, RunningFacts
  <2>3. call'[d].stamp <= Len(history[call[d].on]) + 1
    BY <1>1, <2>1 DEF TableInv
  <2>4. /\ Len(history[call[d].on]) \in Nat /\ Len(history'[call[d].on]) \in Nat
        /\ Len(history[call[d].on]) <= Len(history'[call[d].on])
    BY <2>2 DEF TableInv
  <2> QED
    BY <2>1, <2>2, <2>3, <2>4
<1> QED
  BY <1>1 DEF TableInv

\* Calls about what is gone, when nothing comes back.
LEMMA GoneKept ==
  ASSUME TypeOK, CallInv, GoneInv, NEW c \in Running, Moved(c),
         \A s \in Sku : Dead(s) => Dead(s)',
         \A d \in Running : call[d].op = "serve" /\ call[d].gone =>
            \A i \in image' : i.id # call[d].arg.image,
         call'[c].result = "running" /\ call[c].gone =>
            Head(call[c].todo) \notin {"exists", "fetch"}
  PROVE  GoneInv'
<1> SUFFICES ASSUME NEW d \in Running', call'[d].gone
             PROVE  IF call'[d].op = "serve"
                    THEN /\ Todo(d)' >= 2
                         /\ \A i \in image' : i.id # call'[d].arg.image
                    ELSE /\ Dead(call[d].on)'
                         /\ call'[d].op \in {"add", "set", "drop"} => Todo(d)' = 3
                         /\ call'[d].op \in {"upload", "remove"} => Todo(d)' = 5
  BY StillRunning DEF GoneInv, Dead
<1>1. /\ d \in Running /\ call'[d].result = "running"
      /\ call'[d].op = call[d].op /\ call'[d].on = call[d].on
      /\ call'[d].arg = call[d].arg /\ call[d].gone
      /\ Todo(d)' = (IF d = c THEN Todo(c) - 1 ELSE Todo(d))
  BY StillRunning
<1>2. IF call[d].op = "serve"
      THEN /\ Todo(d) >= 2
           /\ \A i \in image : i.id # call[d].arg.image
      ELSE /\ Dead(call[d].on)
           /\ call[d].op \in {"add", "set", "drop"} => Todo(d) = 3
           /\ call[d].op \in {"upload", "remove"} => Todo(d) = 5
  BY <1>1 DEF GoneInv
<1>3. call[d].on \in Sku
  BY <1>1, RunningFacts
<1>4. CASE d # c
  BY <1>1, <1>2, <1>3, <1>4
<1>5. CASE d = c
  <2> DEFINE op == call[c].op
             n == Todo(c)
             s == Head(call[c].todo)
  <2>1. op \in Ops /\ n \in 1 .. Len(Left[op]) /\ s = Left[op][n] /\ n \in Nat \ {0}
    BY RunningFacts
  <2>2. s \notin {"exists", "fetch"}
    BY <1>1, <1>5
  <2> HIDE DEF op, n, s
  <2>3. /\ ~(op \in {"add", "set", "drop"} /\ n = 3)
        /\ ~(op \in {"upload", "remove"} /\ n = 5)
        /\ ~(op = "serve" /\ n = 2)
    BY <2>1, <2>2, Where
  <2> QED
    BY <1>1, <1>2, <1>3, <1>5, <2>1, <2>3 DEF op, n
<1> QED
  BY <1>4, <1>5

\* Times, when the clock stays and a link that is looked at is still good.
LEMMA TimeKept ==
  ASSUME TypeOK, CallInv, TimeInv, NEW c \in Running, Moved(c), UNCHANGED now,
         \A u \in url' : u.exp <= now + Ttl,
         call'[c].result = "running" /\ call[c].op = "serve" =>
            IF Head(call[c].todo) = "verify"
            THEN /\ call'[c].stamp <= call[c].arg.exp
                 /\ call[c].arg.exp <= call'[c].stamp + Ttl
            ELSE call'[c].stamp = call[c].stamp
  PROVE  TimeInv'
<1> SUFFICES ASSUME NEW d \in Running', call'[d].op = "serve", Todo(d)' <= 2
             PROVE  /\ call'[d].stamp <= call'[d].arg.exp
                    /\ call'[d].arg.exp <= call'[d].stamp + Ttl
  BY DEF TimeInv
<1>1. /\ d \in Running /\ call'[d].result = "running"
      /\ call[d].op = "serve" /\ call'[d].arg = call[d].arg
      /\ Todo(d)' = (IF d = c THEN Todo(c) - 1 ELSE Todo(d))
      /\ d # c => call'[d] = call[d]
      /\ Todo(d) \in Nat \ {0}
  BY StillRunning
<1>2. CASE d # c
  BY <1>1, <1>2 DEF TimeInv
<1>3. CASE d = c
  <2> DEFINE op == call[c].op
             n == Todo(c)
             s == Head(call[c].todo)
  <2>1. op \in Ops /\ n \in 1 .. Len(Left[op]) /\ s = Left[op][n] /\ n \in Nat \ {0}
    BY RunningFacts
  <2>2. op = "serve" /\ n <= 3
    BY <1>1, <1>3
  <2> HIDE DEF op, n, s
  <2>3. n = 3 \/ n <= 2
    BY <2>1, <2>2
  <2>4. n = 3 => s = "verify"
    BY <2>1, <2>2, Where
  <2>5. s = "verify" => n = 3
    <3>1. /\ n = 1 => s # "verify"
          /\ n = 2 => s # "verify"
      BY <2>1, <2>2, Where
    <3> QED
      BY <2>1, <2>3, <3>1
  <2>6. CASE n = 3
    BY <1>1, <1>3, <2>2, <2>4, <2>6 DEF op, s
  <2>7. CASE n <= 2
    <3>1. s # "verify"
      BY <2>1, <2>5, <2>7
    <3>2. call'[c].stamp = call[c].stamp
      BY <1>1, <1>3, <3>1 DEF s
    <3> QED
      BY <1>1, <1>3, <2>7, <3>2 DEF TimeInv, n
  <2> QED
    BY <2>3, <2>6, <2>7
<1> QED
  BY <1>2, <1>3

\* An upload that is still to insert its row was so before.
LEMMA PendingLess ==
  ASSUME TypeOK, CallInv, NEW c \in Running, Moved(c), NEW d \in Made, Pending(d)'
  PROVE  Pending(d) /\ (d = c => Todo(c) >= 3)
<1>1. d \in Running'
  BY DEF Pending, Running, Moved
<1> QED
  BY <1>1, StillRunning DEF Pending, Running

\* Images and their files, when these stay.
LEMMA ImageKept ==
  ASSUME TypeOK, CallInv, ImageInv, NEW c \in Running, Moved(c),
         UNCHANGED <<image, file>>,
         \A u \in url' : u.image \in Made /\ ~Pending(u.image),
         call'[c].result = "running" =>
            /\ Head(call[c].todo) \notin {"bytes", "unrow"}
            /\ Head(call[c].todo) = "find" => ~Pending(call[c].arg)
  PROVE  ImageInv'
<1>1. RowHasFile'
  BY DEF ImageInv, RowHasFile, Files
<1>2. \A d \in Made : Pending(d)' => Pending(d)
  BY PendingLess
<1>3. \A i \in image' : ~Pending(i.id)'
  BY <1>2 DEF ImageInv, TypeOK
<1>4. \A u \in url' : ~Pending(u.image)'
  BY <1>2
<1>5. ASSUME NEW d \in Running'
      PROVE  /\ call'[d].op = "remove" /\ Todo(d)' <= 3 => ~Pending(call[d].arg)'
             /\ call'[d].op = "remove" /\ Todo(d)' <= 2 =>
                   \A i \in image' : i.id # call'[d].arg
             /\ call'[d].op = "upload" /\ Todo(d)' = 2 =>
                   d \in Files' /\ file'[d] = "whole"
  <2>1. /\ d \in Running /\ call'[d].result = "running"
        /\ call'[d].op = call[d].op /\ call'[d].arg = call[d].arg
        /\ Todo(d)' = (IF d = c THEN Todo(c) - 1 ELSE Todo(d))
        /\ d # c => call'[d] = call[d]
        /\ Todo(d) \in Nat \ {0}
    BY StillRunning
  <2>2. call[d].op = "remove" => call[d].arg \in Made
    BY <2>1, RunningFacts DEF CallInv
  <2>3. CASE d # c
    BY <1>2, <2>1, <2>2, <2>3 DEF ImageInv, Files
  <2>4. CASE d = c
    <3> DEFINE op == call[c].op
               n == Todo(c)
               s == Head(call[c].todo)
    <3>1. op \in Ops /\ n \in 1 .. Len(Left[op]) /\ s = Left[op][n] /\ n \in Nat \ {0}
      BY RunningFacts
    <3>2. s \notin {"bytes", "unrow"} /\ (s = "find" => ~Pending(call[c].arg))
      BY <2>1, <2>4
    <3> HIDE DEF op, n, s
    <3>3. /\ op = "remove" => n # 3
          /\ op = "upload" => n # 3
          /\ op = "remove" /\ n = 4 => s = "find"
      BY <3>1, <3>2, Where
    <3>4. op = "remove" /\ n - 1 <= 3 => ~Pending(call[c].arg)
      <4>1. op = "remove" /\ n <= 3 => ~Pending(call[c].arg)
        BY <2>1, <2>4 DEF ImageInv, op, n
      <4> QED
        BY <3>1, <3>2, <3>3, <4>1
    <3>5. op = "remove" /\ n - 1 <= 2 => n <= 2
      BY <3>1, <3>3
    <3>6. ~(op = "upload" /\ n - 1 = 2)
      BY <3>1, <3>3
    <3>7. op = "remove" /\ n - 1 <= 2 => \A i \in image : i.id # call[c].arg
      BY <2>1, <2>4, <3>5 DEF ImageInv, op, n
    <3> QED
      BY <1>2, <2>1, <2>2, <2>4, <3>4, <3>6, <3>7 DEF op, n
  <2> QED
    BY <2>3, <2>4
<1> QED
  BY <1>1, <1>3, <1>4, <1>5 DEF ImageInv

\* Changes and their records.
LEMMA DoneKept ==
  ASSUME TypeOK, CallInv, PastOK, DoneInv, ChangesAreTold,
         NEW c \in Running, Moved(c),
         past'.done \subseteq past.done \cup {c}, past.told \subseteq past'.told,
         call'[c].result = "running" =>
            /\ c \in past'.done => Changed(call[c].op, Todo(c) - 1)
            /\ call[c].op = "status" /\ Todo(c) = 2 => c \in past'.told,
         c \in past'.done \ past'.told => call'[c].result \in {"running", "cut"}
  PROVE  DoneInv' /\ ChangesAreTold'
<1>1. c \in Made /\ past.done \subseteq Made
  BY RunningFacts DEF PastOK
<1>2. ASSUME NEW d \in Running'
      PROVE  /\ d \in past'.done => Changed(call'[d].op, Todo(d)')
             /\ call'[d].op = "status" /\ Todo(d)' = 1 => d \in past'.told
  <2>1. /\ d \in Running /\ call'[d].result = "running"
        /\ call'[d].op = call[d].op
        /\ Todo(d)' = (IF d = c THEN Todo(c) - 1 ELSE Todo(d))
        /\ Todo(d) \in Nat \ {0}
    BY StillRunning
  <2>2. CASE d # c
    BY <2>1, <2>2 DEF DoneInv
  <2>3. CASE d = c
    BY <2>1, <2>3
  <2> QED
    BY <2>2, <2>3
<1>3. DoneInv'
  BY <1>2 DEF DoneInv, Changed
<1>4. ASSUME NEW d \in past'.done \ past'.told
      PROVE  call'[d].result \in {"running", "cut"}
  <2>1. CASE d = c
    BY <1>4, <2>1
  <2>2. CASE d # c
    <3>1. d \in past.done \ past.told /\ d \in Made
      BY <1>1, <1>4, <2>2
    <3> QED
      BY <2>2, <3>1 DEF ChangesAreTold, Moved
  <2> QED
    BY <2>1, <2>2
<1> QED
  BY <1>3, <1>4 DEF ChangesAreTold

\* A step that writes no table.
Quiet == UNCHANGED <<product, rate, image, file, history, url, now, mix>>

\* A statement that writes no table keeps the invariant, if what it keeps for
\* later ones is right.
LEMMA QuietInv ==
  ASSUME IInv, NEW c \in Running, Moved(c), Quiet, PastOK',
         past'.done = past.done, past'.told = past.told, past'.late = {},
         call'[c].result = "running" =>
            /\ Head(call[c].todo) \notin {"bytes", "unrow", "record"}
            /\ Head(call[c].todo) = "find" => ~Pending(call[c].arg)
            /\ call[c].gone => Head(call[c].todo) \notin {"exists", "fetch"}
            /\ call[c].op = "import" =>
                  call'[c].stamp <= Len(history[call[c].on]) + 1
            /\ call[c].op = "serve" =>
                  IF Head(call[c].todo) = "verify"
                  THEN /\ call'[c].stamp <= call[c].arg.exp
                       /\ call[c].arg.exp <= call'[c].stamp + Ttl
                  ELSE call'[c].stamp = call[c].stamp,
         c \in past.done \ past.told => call'[c].result \in {"running", "cut"}
  PROVE  IInv'
<1>1. /\ TypeOK /\ CallInv /\ PastOK /\ TableInv /\ GoneInv /\ ImageInv
      /\ TimeInv /\ DoneInv /\ ChangesAreTold /\ ListedInOrder
  BY DEF IInv
<1>2. UNCHANGED <<product, rate, image, file, history, url, now, mix>>
  BY DEF Quiet
<1>3. TypeOK' /\ CallInv'
  <2>1. Made' = Made
    BY DEF Moved
  <2> QED
    BY <1>1, <1>2, <2>1, Frames, TypeKept
<1>4. TableInv'
  <2>1. \A s \in Sku : /\ Len(history'[s]) \in Nat
                       /\ DOMAIN history'[s] = 1 .. Len(history'[s])
                       /\ \A i \in DOMAIN history'[s] : history'[s][i].stamp \in Nat
                       /\ Len(history[s]) <= Len(history'[s])
    BY <1>1, <1>2 DEF TableInv
  <2>2. DOMAIN product' = Sku /\ DOMAIN history' = Sku
    BY <1>1, <1>2 DEF TableInv
  <2> QED
    BY <1>1, <2>1, <2>2, TableKept
<1>5. GoneInv'
  <2>1. \A s \in Sku : Dead(s) => Dead(s)'
    BY <1>2 DEF Dead
  <2>2. \A d \in Running : call[d].op = "serve" /\ call[d].gone =>
           \A i \in image' : i.id # call[d].arg.image
    BY <1>1, <1>2 DEF GoneInv
  <2> QED
    BY <1>1, <2>1, <2>2, GoneKept
<1>6. ImageInv'
  <2>1. \A u \in url' : u.image \in Made /\ ~Pending(u.image)
    BY <1>1, <1>2 DEF ImageInv, TypeOK
  <2> QED
    BY <1>1, <1>2, <2>1, ImageKept
<1>7. TimeInv'
  <2>1. \A u \in url' : u.exp <= now + Ttl
    BY <1>1, <1>2 DEF TimeInv
  <2> QED
    BY <1>1, <1>2, <2>1, TimeKept
<1>8. DoneInv' /\ ChangesAreTold'
  <2> DEFINE op == call[c].op
             n == Todo(c)
             s == Head(call[c].todo)
  <2>1. op \in Ops /\ n \in 1 .. Len(Left[op]) /\ s = Left[op][n] /\ n \in Nat \ {0}
    BY <1>1, RunningFacts
  <2>2. op = "status" /\ n = 2 => s = "record"
    <3> HIDE DEF op, n, s
    <3> QED
      BY <2>1, Where
  <2>3. c \in past.done => Changed(op, n)
    BY <1>1 DEF DoneInv
  <2>4. Changed(op, n) => Changed(op, n - 1)
    <3> HIDE DEF op, n, s
    <3>1. n - 1 \in Nat /\ n - 1 + 1 = n
      BY <2>1
    <3> QED
      BY <2>1, <3>1, ChangedFacts
  <2>5. call'[c].result = "running" =>
           /\ c \in past'.done => Changed(call[c].op, Todo(c) - 1)
           /\ call[c].op = "status" /\ Todo(c) = 2 => c \in past'.told
    BY <2>2, <2>3, <2>4
  <2> HIDE DEF op, n, s
  <2>6. past'.done \subseteq past.done \cup {c} /\ past.told \subseteq past'.told
    OBVIOUS
  <2> QED
    BY <1>1, <2>5, <2>6, DoneKept
<1>9. ListedInOrder'
  BY <1>1, <1>2 DEF ListedInOrder
<1>10. GoneStaysGone'
  BY DEF GoneStaysGone
<1> QED
  BY <1>3, <1>4, <1>5, <1>6, <1>7, <1>8, <1>9, <1>10 DEF IInv

\* Where a call is whose next statement is s.
LEMMA Here ==
  ASSUME IInv, NEW c, NEW s, At(c, s)
  PROVE  /\ c \in Running /\ c \in Made /\ s = Head(call[c].todo)
         /\ call[c].op \in Ops /\ Todo(c) \in 1 .. Len(Left[call[c].op])
         /\ Todo(c) \in Nat \ {0} /\ s = Left[call[c].op][Todo(c)]
         /\ call[c].on \in Sku /\ call[c].stamp \in Nat
         /\ call[c].result = "running" /\ ArgOK(call[c])
<1>1. c \in Running /\ s = Head(call[c].todo)
  BY DEF At
<1>2. TypeOK /\ CallInv
  BY DEF IInv
<1>3. Flying(call[c])
  BY <1>1, <1>2, RunningFacts
<1> QED
  BY <1>1, <1>2, <1>3, RunningFacts DEF Flying

LEMMA PastSame ==
  ASSUME PastOK, past' = past, Made \subseteq Made'
  PROVE  PastOK'
  BY DEF PastOK

\* The statements that may refuse the call.
Refusals == {"exists", "before", "insert", "update", "delete", "shelf", "rate",
             "rerate", "unrate", "find", "detail", "verify", "fetch", "read"}

\* A call that is refused has changed nothing.
LEMMA RefusedInv ==
  ASSUME IInv, NEW c, NEW s \in Refusals, At(c, s), Refused(c), Quiet, past' = past
  PROVE  IInv'
<1> DEFINE op == call[c].op
           n == Todo(c)
<1>1. /\ c \in Running /\ s = Head(call[c].todo) /\ n \in Nat \ {0}
      /\ op \in Ops /\ n \in 1 .. Len(Left[op]) /\ s = Left[op][n]
  BY Here
<1>2. TypeOK /\ CallInv /\ PastOK /\ DoneInv /\ GoneStaysGone
  BY DEF IInv
<1>3. Moved(c) /\ call'[c].result = "refused"
  BY <1>1, <1>2, OverFacts DEF Refused, Finished
<1>4. ~Changed(op, n)
  <2> HIDE DEF op, n
  <2>1. s \in {"exists", "before", "insert", "update", "shelf", "find", "verify"} =>
           n >= 3
    BY <1>1, Where
  <2>2. s \in {"delete", "rate", "rerate", "unrate"} =>
           n = 2 /\ op \in {"delete", "add", "set", "drop"}
    BY <1>1, Where
  <2>3. s \in {"detail", "fetch", "read"} => op \in {"detail", "serve"}
    BY <1>1, Where
  <2>4. \/ s \in {"exists", "before", "insert", "update", "shelf", "find", "verify"}
        \/ s \in {"delete", "rate", "rerate", "unrate"}
        \/ s \in {"detail", "fetch", "read"}
    BY DEF Refusals
  <2> QED
    BY <1>1, <2>1, <2>2, <2>3, <2>4 DEF Changed, After1, After2
<1>5. c \notin past.done
  BY <1>1, <1>2, <1>4 DEF DoneInv
<1>6. /\ PastOK' /\ past'.done = past.done /\ past'.told = past.told
      /\ past'.late = {}
  BY <1>2, <1>3, PastSame DEF Moved, GoneStaysGone
<1>7. call'[c].result # "running"
  BY <1>3
<1> QED
  BY <1>1, <1>3, <1>5, <1>6, <1>7, QuietInv

-----------------------------------------------------------------------------
(* The statements *)

\* A statement that ran and wrote no table.
LEMMA WentInv ==
  ASSUME IInv, NEW c, NEW s, At(c, s), Went(c), Quiet, PastOK',
         past'.done = past.done, past'.told = past.told, past'.late = {},
         s \notin {"bytes", "unrow", "record", "commit"},
         s = "find" => ~Pending(call[c].arg),
         call[c].gone => s \notin {"exists", "fetch"},
         call'[c].result = "running" =>
            \/ call'[c].stamp = call[c].stamp /\ s # "verify"
            \/ s = "begin" /\ call'[c].stamp = Len(history[call[c].on])
            \/ /\ s = "verify" /\ call'[c].stamp <= call[c].arg.exp
               /\ call[c].arg.exp <= call'[c].stamp + Ttl
  PROVE  IInv'
<1> DEFINE op == call[c].op
           n == Todo(c)
<1>1. /\ c \in Running /\ s = Head(call[c].todo) /\ n \in Nat \ {0}
      /\ op \in Ops /\ n \in 1 .. Len(Left[op]) /\ s = Left[op][n]
      /\ call[c].on \in Sku /\ call[c].stamp \in Nat
  BY Here
<1>2. /\ TypeOK /\ CallInv /\ TableInv /\ DoneInv /\ Moved(c)
      /\ call'[c].result = (IF n = 1 THEN "ok" ELSE "running")
  BY DEF IInv, Went
<1>3. /\ n = 1 => s \in {"notify", "detail", "read"}
      /\ s = "notify" => op = "status"
      /\ s = "begin" => op = "import"
      /\ s = "verify" => op = "serve"
      /\ s \in {"detail", "read"} => op \in {"detail", "serve"}
  <2> HIDE DEF op, n
  <2>1. n = 1 => s \in {"record", "notify", "commit", "detail", "read"}
    BY <1>1, Where
  <2>2. /\ s = "notify" => op = "status"
        /\ s = "begin" => op = "import"
        /\ s = "verify" => op = "serve"
    BY <1>1, Where
  <2>3. s \in {"detail", "read"} => op \in {"detail", "serve"}
    BY <1>1, Where
  <2> QED
    BY <2>1, <2>2, <2>3
<1>4. c \in past.done \ past.told => call'[c].result \in {"running", "cut"}
  <2> SUFFICES ASSUME c \in past.done \ past.told, n = 1 PROVE FALSE
    BY <1>2
  <2>1. Changed(op, n)
    BY <1>1, <1>2 DEF DoneInv
  <2>2. op # "status"
    BY <1>1, <1>2 DEF DoneInv
  <2>3. op \in {"detail", "serve"}
    BY <1>3, <2>2
  <2> QED
    BY <1>1, <2>1, <2>3 DEF Changed, After1, After2
<1>5. call'[c].result = "running" /\ op = "import" =>
         call'[c].stamp <= Len(history[call[c].on]) + 1
  <2>1. Len(history[call[c].on]) \in Nat
    BY <1>1, <1>2 DEF TableInv
  <2>2. op = "import" => call[c].stamp <= Len(history[call[c].on]) + 1
    BY <1>1, <1>2 DEF TableInv
  <2> QED
    BY <1>3, <2>1, <2>2
<1>6. call'[c].result = "running" /\ op = "serve" =>
         IF s = "verify"
         THEN /\ call'[c].stamp <= call[c].arg.exp
              /\ call[c].arg.exp <= call'[c].stamp + Ttl
         ELSE call'[c].stamp = call[c].stamp
  BY <1>3
<1> QED
  BY <1>1, <1>2, <1>4, <1>5, <1>6, QuietInv

\* What the model remembers, when it only marks a product.
LEMMA PastMixed ==
  ASSUME PastOK, NEW s \in Sku, Made' = Made,
         past' = past \/ past' = [past EXCEPT !.mixed = @ \cup {s}]
  PROVE  /\ PastOK' /\ past'.done = past.done /\ past'.told = past.told
         /\ past'.late = past.late
  BY DEF PastOK

LEMMA LookInv ==
  ASSUME IInv, NEW c, \/ Exists(c) \/ Before(c) \/ After(c) \/ Begin(c)
                      \/ Notify(c) \/ FindImage(c)
  PROVE  IInv'
<1>1. /\ TypeOK /\ CallInv /\ PastOK /\ GoneInv /\ GoneStaysGone
      /\ TableInv /\ ImageInv
  BY DEF IInv
<1>2. Quiet /\ past' = past
  BY DEF Quiet, Exists, Before, After, Begin, Notify, FindImage
<1>3. ASSUME Went(c)
      PROVE  /\ PastOK' /\ past'.done = past.done /\ past'.told = past.told
             /\ past'.late = {}
  BY <1>1, <1>2, <1>3, PastSame DEF Went, Moved, GoneStaysGone
<1>4. CASE Exists(c)
  <2>1. At(c, "exists") /\ (IF Found(c) THEN Ran(c) ELSE Refused(c))
    BY <1>4 DEF Exists
  <2>2. CASE ~Found(c)
    <3>1. Refused(c) /\ "exists" \in Refusals
      BY <2>1, <2>2 DEF Refusals
    <3> QED
      BY <1>2, <2>1, <3>1, RefusedInv
  <2>3. CASE Found(c)
    <3>1. c \in Running /\ call[c].op # "serve"
      <4>1. /\ c \in Running /\ call[c].op \in Ops
            /\ Todo(c) \in 1 .. Len(Left[call[c].op])
            /\ "exists" = Left[call[c].op][Todo(c)]
        BY <2>1, Here
      <4> QED
        BY <4>1, Where
    <3>2. ~call[c].gone
      BY <1>1, <2>3, <3>1 DEF GoneInv, Found, Live, Dead
    <3>3. /\ Went(c)
          /\ call'[c].result = "running" => call'[c].stamp = call[c].stamp
      BY <1>1, <2>1, <2>3, <3>1, RanFacts
    <3> DEFINE s == "exists"
    <3>4. /\ At(c, s) /\ s \notin {"bytes", "unrow", "record", "commit"}
          /\ s # "find" /\ s # "verify"
      BY <2>1
    <3> HIDE DEF s
    <3> QED
      BY <1>2, <1>3, <3>2, <3>3, <3>4, WentInv
  <2> QED
    BY <2>2, <2>3
<1>5. CASE Before(c)
  <2> DEFINE row == product[call[c].on]
  <2>1. /\ At(c, "before")
        /\ IF row = NoRow /\ call[c].op # "import" THEN Refused(c)
           ELSE call' = [Step(c) EXCEPT ![c].before = Shown(row)]
    BY <1>5 DEF Before
  <2>2. CASE row = NoRow /\ call[c].op # "import"
    <3>1. Refused(c) /\ "before" \in Refusals
      BY <2>1, <2>2 DEF Refusals
    <3> QED
      BY <1>2, <2>1, <3>1, RefusedInv
  <2>3. CASE ~(row = NoRow /\ call[c].op # "import")
    <3>1. c \in Running /\ Todo(c) # 1
      <4>1. /\ c \in Running /\ call[c].op \in Ops /\ Todo(c) \in Nat \ {0}
            /\ Todo(c) \in 1 .. Len(Left[call[c].op])
            /\ "before" = Left[call[c].op][Todo(c)]
        BY <2>1, Here
      <4> QED
        BY <4>1, Where
    <3> DEFINE r == Shown(row)
    <3>2. call' = [Step(c) EXCEPT ![c].before = r]
      BY <2>1, <2>3
    <3> HIDE DEF r
    <3>3. Went(c) /\ call'[c].stamp = call[c].stamp
      BY <1>1, <3>1, <3>2, KeepFacts
    <3> DEFINE s == "before"
    <3>4. /\ At(c, s) /\ s \notin {"bytes", "unrow", "record", "commit"}
          /\ s \notin {"exists", "fetch"} /\ s # "find" /\ s # "verify"
      BY <2>1
    <3> HIDE DEF s
    <3> QED
      BY <1>2, <1>3, <3>3, <3>4, WentInv
  <2> QED
    BY <2>2, <2>3
<1>6. CASE After(c)
  <2> DEFINE r == Shown(product[call[c].on])
  <2>1. At(c, "after") /\ call' = [Step(c) EXCEPT ![c].after = r]
    BY <1>6 DEF After
  <2>2. c \in Running /\ Todo(c) # 1
    <3>1. /\ c \in Running /\ call[c].op \in Ops /\ Todo(c) \in Nat \ {0}
          /\ Todo(c) \in 1 .. Len(Left[call[c].op])
          /\ "after" = Left[call[c].op][Todo(c)]
      BY <2>1, Here
    <3> QED
      BY <3>1, Where
  <2> HIDE DEF r
  <2>3. Went(c) /\ call'[c].stamp = call[c].stamp
    BY <1>1, <2>1, <2>2, KeepFacts
  <2> DEFINE s == "after"
  <2>4. /\ At(c, s) /\ s \notin {"bytes", "unrow", "record", "commit"}
        /\ s \notin {"exists", "fetch"} /\ s # "find" /\ s # "verify"
    BY <2>1
  <2> HIDE DEF s
  <2> QED
    BY <1>2, <1>3, <2>3, <2>4, WentInv
<1>7. CASE Begin(c)
  <2> DEFINE m == Len(history[call[c].on])
  <2>1. At(c, "begin") /\ call' = [Step(c) EXCEPT ![c].stamp = m]
    BY <1>7 DEF Begin
  <2>2. c \in Running /\ Todo(c) # 1 /\ call[c].on \in Sku
    <3>1. /\ c \in Running /\ call[c].op \in Ops /\ Todo(c) \in Nat \ {0}
          /\ Todo(c) \in 1 .. Len(Left[call[c].op]) /\ call[c].on \in Sku
          /\ "begin" = Left[call[c].op][Todo(c)]
      BY <2>1, Here
    <3> QED
      BY <3>1, Where
  <2>3. m \in Nat
    BY <1>1, <2>2 DEF TableInv
  <2> HIDE DEF m
  <2>4. Went(c) /\ call'[c].stamp = m
    BY <1>1, <2>1, <2>2, <2>3, StampFacts
  <2> DEFINE s == "begin"
  <2>5. /\ At(c, s) /\ s \notin {"bytes", "unrow", "record", "commit"}
        /\ s \notin {"exists", "fetch"} /\ s # "find" /\ s = "begin"
    BY <2>1
  <2>6. call'[c].stamp = Len(history[call[c].on])
    BY <2>4 DEF m
  <2> HIDE DEF s
  <2> QED
    BY <1>2, <1>3, <2>4, <2>5, <2>6, WentInv
<1>8. CASE Notify(c)
  <2>1. At(c, "notify") /\ Ran(c)
    BY <1>8 DEF Notify
  <2>2. c \in Running
    BY <2>1, Here
  <2>3. /\ Went(c)
        /\ call'[c].result = "running" => call'[c].stamp = call[c].stamp
    BY <1>1, <2>1, <2>2, RanFacts
  <2> DEFINE s == "notify"
  <2>4. /\ At(c, s) /\ s \notin {"bytes", "unrow", "record", "commit"}
        /\ s \notin {"exists", "fetch"} /\ s # "find" /\ s # "verify"
    BY <2>1
  <2> HIDE DEF s
  <2> QED
    BY <1>2, <1>3, <2>3, <2>4, WentInv
<1>9. CASE FindImage(c)
  <2>1. /\ At(c, "find")
        /\ IF [id |-> call[c].arg, sku |-> call[c].on] \in image
           THEN Ran(c) ELSE Refused(c)
    BY <1>9 DEF FindImage
  <2>2. CASE [id |-> call[c].arg, sku |-> call[c].on] \notin image
    <3>1. Refused(c) /\ "find" \in Refusals
      BY <2>1, <2>2 DEF Refusals
    <3> QED
      BY <1>2, <2>1, <3>1, RefusedInv
  <2>3. CASE [id |-> call[c].arg, sku |-> call[c].on] \in image
    <3>1. c \in Running
      BY <2>1, Here
    <3>2. ~Pending(call[c].arg)
      <4> DEFINE row == [id |-> call[c].arg, sku |-> call[c].on]
      <4>1. row \in image /\ row.id = call[c].arg
        BY <2>3
      <4> HIDE DEF row
      <4> QED
        BY <1>1, <4>1 DEF ImageInv
    <3>3. /\ Went(c)
          /\ call'[c].result = "running" => call'[c].stamp = call[c].stamp
      BY <1>1, <2>1, <2>3, <3>1, RanFacts
    <3> DEFINE s == "find"
    <3>4. /\ At(c, s) /\ s \notin {"bytes", "unrow", "record", "commit"}
          /\ s \notin {"exists", "fetch"} /\ s # "verify"
      BY <2>1
    <3> HIDE DEF s
    <3> QED
      BY <1>2, <1>3, <3>2, <3>3, <3>4, WentInv
  <2> QED
    BY <2>2, <2>3
<1> QED
  BY <1>4, <1>5, <1>6, <1>7, <1>8, <1>9

\* The upsert of an import, which the commit makes to last, and the end of a
\* call that was cut.
LEMMA MarkInv ==
  ASSUME IInv, NEW c, Upsert(c) \/ Cut(c)
  PROVE  IInv'
<1>1. TypeOK /\ CallInv /\ PastOK /\ GoneStaysGone
  BY DEF IInv
<1>2. c \in Running /\ Quiet
  BY DEF Upsert, Cut, At, Quiet
<1>3. c \in Made /\ call[c].on \in Sku
  BY <1>1, <1>2, RunningFacts
<1>4. \/ past' = past
      \/ past' = [past EXCEPT !.mixed = @ \cup {call[c].on}]
  BY DEF Upsert, Cut
<1>5. ASSUME Moved(c)
      PROVE  /\ PastOK' /\ past'.done = past.done /\ past'.told = past.told
             /\ past'.late = {}
  BY <1>1, <1>3, <1>4, <1>5, PastMixed DEF Moved, GoneStaysGone
<1>6. CASE Upsert(c)
  <2> DEFINE r == <<c, call[c].arg>>
             s == "upsert"
  <2>1. At(c, s) /\ call' = [Step(c) EXCEPT ![c].after = r]
    BY <1>6 DEF Upsert
  <2>2. Todo(c) # 1
    <3>1. /\ call[c].op \in Ops /\ Todo(c) \in Nat \ {0}
          /\ Todo(c) \in 1 .. Len(Left[call[c].op])
          /\ "upsert" = Left[call[c].op][Todo(c)]
      BY <2>1, Here
    <3> QED
      BY <3>1, Where
  <2>3. /\ s \notin {"bytes", "unrow", "record", "commit"}
        /\ s \notin {"exists", "fetch"} /\ s # "find" /\ s # "verify"
    OBVIOUS
  <2> HIDE DEF r, s
  <2>4. Went(c) /\ call'[c].stamp = call[c].stamp
    BY <1>1, <1>2, <2>1, <2>2, KeepFacts
  <2> QED
    BY <1>2, <1>5, <2>1, <2>3, <2>4, WentInv DEF Went
<1>7. CASE Cut(c)
  <2>1. Moved(c) /\ call'[c].result = "cut"
    BY <1>1, <1>2, <1>7, OverFacts DEF Cut, Finished
  <2>2. call'[c].result # "running" /\ call'[c].result \in {"running", "cut"}
    BY <2>1
  <2> QED
    BY <1>2, <1>5, <2>1, <2>2, QuietInv
<1> QED
  BY <1>6, <1>7

\* The three statements of a browser that loads an image.
LEMMA ServeInv ==
  ASSUME IInv, NEW c, Verify(c) \/ Fetch(c) \/ Read(c)
  PROVE  IInv'
<1>1. /\ TypeOK /\ CallInv /\ PastOK /\ GoneInv /\ GoneStaysGone /\ TimeInv
  BY DEF IInv
<1>2. PICK s \in {"verify", "fetch", "read"} : At(c, s)
  BY DEF Verify, Fetch, Read
<1>3. /\ c \in Running /\ c \in Made /\ Quiet /\ call[c].op = "serve"
      /\ s = "verify" => Todo(c) = 3
      /\ s = "read" => Todo(c) = 1
  <2>1. /\ call[c].op \in Ops /\ Todo(c) \in Nat \ {0} /\ c \in Running /\ c \in Made
        /\ Todo(c) \in 1 .. Len(Left[call[c].op])
        /\ s = Left[call[c].op][Todo(c)]
    BY <1>2, Here
  <2>2. /\ call[c].op = "serve" /\ (s = "verify" => Todo(c) = 3)
        /\ s = "read" => Todo(c) = 1
    BY <2>1, Where
  <2> QED
    BY <2>1, <2>2 DEF Verify, Fetch, Read, Quiet
<1>4. s \in Refusals /\ s \notin {"bytes", "unrow", "record", "commit", "find", "exists"}
  BY DEF Refusals
<1>5. ASSUME past' = past, Went(c)
      PROVE  /\ PastOK' /\ past'.done = past.done /\ past'.told = past.told
             /\ past'.late = {}
  BY <1>1, <1>5, PastSame DEF Went, Moved, GoneStaysGone
<1>6. CASE Refused(c) /\ past' = past
  BY <1>2, <1>3, <1>4, <1>6, RefusedInv
<1>7. CASE Verify(c) /\ ~(Refused(c) /\ past' = past)
  <2>1. /\ s = "verify" /\ past' = past /\ Valid(call[c].arg)
        /\ call' = [Step(c) EXCEPT ![c].stamp = now]
    BY <1>2, <1>7 DEF Verify, At
  <2>2. now \in Nat
    BY <1>1, BoundAssumption DEF TypeOK
  <2>3. Went(c) /\ call'[c].stamp = now
    <3>1. Todo(c) # 1
      BY <1>3, <2>1
    <3> QED
      BY <1>1, <1>3, <2>1, <2>2, <3>1, StampFacts
  <2>4. call[c].arg \in url /\ call[c].arg.exp \in Nat
        /\ call[c].arg.exp >= now /\ call[c].arg.exp <= now + Ttl
    BY <1>1, <2>1 DEF Valid, TypeOK, TimeInv
  <2>5. call'[c].stamp <= call[c].arg.exp /\ call[c].arg.exp <= call'[c].stamp + Ttl
    BY <2>2, <2>3, <2>4
  <2>6. s \notin {"exists", "fetch"} /\ s # "find"
    BY <2>1
  <2> QED
    BY <1>2, <1>3, <1>4, <1>5, <2>1, <2>3, <2>5, <2>6, WentInv
<1>8. CASE Fetch(c) /\ ~(Refused(c) /\ past' = past)
  <2>1. /\ s = "fetch" /\ past' = past /\ call[c].arg.image \in Known(c) /\ Ran(c)
    BY <1>2, <1>8 DEF Fetch, At
  <2>2. /\ Went(c)
        /\ call'[c].result = "running" => call'[c].stamp = call[c].stamp
    BY <1>1, <1>3, <2>1, RanFacts
  <2>3. ~call[c].gone
    BY <1>1, <1>3, <2>1 DEF GoneInv, Known
  <2>4. s # "verify" /\ s # "find"
    BY <2>1
  <2> QED
    BY <1>2, <1>3, <1>4, <1>5, <2>1, <2>2, <2>3, <2>4, WentInv
<1>9. CASE Read(c) /\ ~(Refused(c) /\ past' = past)
  <2>1. /\ s = "read" /\ Ran(c)
        /\ past' = IF call[c].gone THEN [past EXCEPT !.late = @ \cup {c}] ELSE past
    BY <1>2, <1>9 DEF Read, At
  <2>2. ~call[c].gone
    BY <1>1, <1>3, <2>1 DEF GoneInv
  <2>3. /\ Went(c)
        /\ call'[c].result = "running" => call'[c].stamp = call[c].stamp
    BY <1>1, <1>3, <2>1, RanFacts
  <2>4. s # "verify" /\ s # "find" /\ s \notin {"exists", "fetch"}
    BY <2>1
  <2> QED
    BY <1>2, <1>3, <1>4, <1>5, <2>1, <2>2, <2>3, <2>4, WentInv
<1> QED
  BY <1>6, <1>7, <1>8, <1>9

LEMMA PastDone ==
  ASSUME PastOK, NEW c \in Made, Made' = Made, past' = Done(c), ~call[c].gone
  PROVE  /\ PastOK' /\ past'.done = past.done \cup {c}
         /\ past'.told = past.told /\ past'.late = past.late
  BY DEF PastOK, Done

\* A statement that makes the change of a call which came before the deletion:
\* its record is still to come.
LEMMA ChangeInv ==
  ASSUME IInv, NEW c, NEW s \in Changes, At(c, s), Went(c),
         call'[c].stamp = call[c].stamp, past' = Done(c), ~call[c].gone,
         UNCHANGED <<file, history, url, now, mix>>,
         ProductOK', RateOK', ImageOK', ImageInv', DOMAIN product' = Sku,
         \A p \in Sku : Dead(p) => Dead(p)',
         \A d \in Running : call[d].op = "serve" /\ call[d].gone =>
            \A i \in image' : i.id # call[d].arg.image
  PROVE  IInv'
<1> DEFINE op == call[c].op
           n == Todo(c)
<1>1. /\ c \in Running /\ c \in Made /\ s = Head(call[c].todo) /\ n \in Nat \ {0}
      /\ op \in Ops /\ n \in 1 .. Len(Left[op]) /\ s = Left[op][n]
      /\ call[c].on \in Sku
  BY Here
<1>2. /\ TypeOK /\ CallInv /\ PastOK /\ TableInv /\ GoneInv /\ TimeInv /\ DoneInv
      /\ ChangesAreTold /\ ListedInOrder /\ GoneStaysGone
  BY DEF IInv
<1>3. n # 1 /\ op \notin {"import", "serve"} /\ Changed(op, n - 1)
      /\ ~(op = "status" /\ n = 2)
  <2> HIDE DEF op, n
  <2>1. CASE s \in {"insert", "update", "shelf"}
    <3>1. n = 3 /\ op \in {"create", "update", "status"}
      BY <1>1, <2>1, WhereChange
    <3> QED
      BY <3>1 DEF Changed, After1, After2
  <2>2. CASE s \in {"delete", "rate", "rerate", "unrate", "row"}
    <3>1. n = 2 /\ op \in {"delete", "add", "set", "drop", "upload"}
      BY <1>1, <2>2, WhereChange
    <3> QED
      BY <3>1 DEF Changed, After1, After2
  <2>3. CASE s = "unrow"
    <3>1. n = 3 /\ op = "remove"
      BY <1>1, <2>3, WhereChange
    <3> QED
      BY <3>1 DEF Changed, After1, After2
  <2> QED
    BY <2>1, <2>2, <2>3 DEF Changes
<1>4. Moved(c) /\ Made' = Made /\ call'[c].result = "running"
  BY <1>3 DEF Went, Moved
<1>5. /\ PastOK' /\ past'.done = past.done \cup {c} /\ past'.told = past.told
      /\ past'.late = {}
  BY <1>1, <1>2, <1>4, PastDone DEF GoneStaysGone
<1>6. TypeOK' /\ CallInv'
  BY <1>1, <1>2, <1>4, Frames, TypeKept
<1>7. TableInv'
  <2>1. \A p \in Sku : /\ Len(history'[p]) \in Nat
                       /\ DOMAIN history'[p] = 1 .. Len(history'[p])
                       /\ \A i \in DOMAIN history'[p] : history'[p][i].stamp \in Nat
                       /\ Len(history[p]) <= Len(history'[p])
    BY <1>2 DEF TableInv
  <2>2. DOMAIN product' = Sku /\ DOMAIN history' = Sku
    BY <1>2 DEF TableInv
  <2>3. call[c].op # "import"
    BY <1>3
  <2> QED
    BY <1>1, <1>2, <1>4, <2>1, <2>2, <2>3, TableKept
<1>8. GoneInv'
  BY <1>1, <1>2, <1>4, GoneKept
<1>9. TimeInv'
  <2>1. \A u \in url' : u.exp <= now + Ttl
    BY <1>2 DEF TimeInv
  <2>2. call[c].op # "serve"
    BY <1>3
  <2> QED
    BY <1>1, <1>2, <1>4, <2>1, <2>2, TimeKept
<1>10. DoneInv' /\ ChangesAreTold'
  <2>1. Changed(call[c].op, Todo(c) - 1) /\ ~(call[c].op = "status" /\ Todo(c) = 2)
    BY <1>3
  <2>2. past'.done \subseteq past.done \cup {c} /\ past.told \subseteq past'.told
    BY <1>5
  <2>3. call'[c].result \in {"running", "cut"}
    BY <1>4
  <2> QED
    BY <1>1, <1>2, <1>4, <2>1, <2>2, <2>3, DoneKept
<1>11. ListedInOrder' /\ GoneStaysGone'
  BY <1>2, <1>5 DEF ListedInOrder, GoneStaysGone
<1> QED
  BY <1>5, <1>6, <1>7, <1>8, <1>9, <1>10, <1>11 DEF IInv

\* When images and files stay, so does what is known of them, unless the call
\* is at one of the statements that make it true.
LEMMA ImagesAlone ==
  ASSUME IInv, NEW c, NEW s, At(c, s), Moved(c), UNCHANGED <<image, file, url>>,
         s \notin {"bytes", "unrow", "find"}
  PROVE  ImageInv'
<1>1. TypeOK /\ CallInv /\ ImageInv
  BY DEF IInv
<1>2. c \in Running /\ s = Head(call[c].todo)
  BY Here
<1>3. \A u \in url' : u.image \in Made /\ ~Pending(u.image)
  BY <1>1 DEF ImageInv, TypeOK
<1> QED
  BY <1>1, <1>2, <1>3, ImageKept

\* What a call of a product writes to its row.
LEMMA ProductInv ==
  ASSUME IInv, NEW c, Insert(c) \/ Update(c)
  PROVE  IInv'
<1>1. PICK s \in {"insert", "update", "delete", "shelf"} : At(c, s)
  BY DEF Insert, Update
<1>2. /\ c \in Running /\ c \in Made /\ call[c].on \in Sku /\ s = Head(call[c].todo)
      /\ s # "insert" => call[c].op \in {"update", "delete", "status"}
      /\ s = "insert" => call[c].op = "create"
      /\ s = "shelf" => call[c].op = "status"
      /\ Todo(c) # 1 /\ ArgOK(call[c])
  <2>1. /\ call[c].op \in Ops /\ Todo(c) \in Nat \ {0} /\ c \in Running /\ c \in Made
        /\ Todo(c) \in 1 .. Len(Left[call[c].op]) /\ call[c].on \in Sku
        /\ s = Left[call[c].op][Todo(c)] /\ s = Head(call[c].todo)
        /\ ArgOK(call[c])
    BY <1>1, Here
  <2>2. /\ s = "insert" => Todo(c) = 3 /\ call[c].op = "create"
        /\ s = "update" => Todo(c) = 3 /\ call[c].op = "update"
        /\ s = "delete" => Todo(c) = 2 /\ call[c].op = "delete"
        /\ s = "shelf" => Todo(c) = 3 /\ call[c].op = "status"
    <3>1. s \in Changes
      BY DEF Changes
    <3> QED
      BY <2>1, <3>1, WhereChange
  <2> QED
    BY <2>1, <2>2
<1>3. /\ TypeOK /\ CallInv /\ GoneInv /\ TableInv /\ ImageInv
  BY DEF IInv
<1>4. UNCHANGED <<rate, image, file, history, url, now, mix>>
  BY DEF Insert, Update
<1>5. s \in Refusals /\ s \in Changes /\ s \notin {"bytes", "unrow", "find"}
  BY DEF Refusals, Changes
<1> DEFINE p == call[c].on
<1>6. CASE Refused(c) /\ UNCHANGED <<product, past>>
  <2>1. Quiet /\ past' = past
    BY <1>4, <1>6 DEF Quiet
  <2> QED
    BY <1>1, <1>5, <1>6, <2>1, RefusedInv
<1>7. CASE ~(Refused(c) /\ UNCHANGED <<product, past>>)
  <2> DEFINE row == product'[p]
  <2>1. /\ past' = Done(c) /\ Went(c) /\ call'[c].stamp = call[c].stamp
        /\ ~Dead(p) /\ row \in Row /\ product' = [product EXCEPT ![p] = row]
    <3>1. CASE Insert(c)
      <4>1. /\ s = "insert" /\ product[p] = NoRow /\ past' = Done(c) /\ Ran(c)
            /\ product' = [product EXCEPT
                             ![p] = [val |-> c, shelf |-> TRUE, deleted |-> FALSE]]
        BY <1>1, <1>7, <3>1 DEF Insert, At
      <4>2. Went(c) /\ call'[c].stamp = call[c].stamp
        <5>1. Went(c) /\ (call'[c].result = "running" =>
                             call'[c].stamp = call[c].stamp)
          BY <1>2, <1>3, <4>1, RanFacts
        <5> QED
          BY <1>2, <5>1 DEF Went
      <4> DEFINE new == [val |-> c, shelf |-> TRUE, deleted |-> FALSE]
      <4>3. new \in Row
        BY <1>2 DEF Row
      <4> HIDE DEF new
      <4>4. p \in DOMAIN product
        BY <1>2, <1>3 DEF TableInv
      <4>5. product' = [product EXCEPT ![p] = new]
        BY <4>1 DEF new
      <4>6. row = new
        BY <4>4, <4>5
      <4> QED
        BY <4>1, <4>2, <4>3, <4>5, <4>6 DEF Dead
    <3>2. CASE Update(c)
      <4> DEFINE old == product[p]
      <4>1. /\ s # "insert" /\ Live(p) /\ past' = Done(c)
            /\ product' = [product EXCEPT ![p] = Written(c, old)]
            /\ call' = IF At(c, "shelf")
                       THEN [Step(c) EXCEPT ![c].after = <<call[c].arg>>]
                       ELSE Step(c)
        BY <1>1, <1>7, <3>2 DEF Update, At
      <4>2. Went(c) /\ call'[c].stamp = call[c].stamp
        <5>1. CASE At(c, "shelf")
          <6> DEFINE r == <<call[c].arg>>
          <6>1. call' = [Step(c) EXCEPT ![c].after = r]
            BY <4>1, <5>1
          <6> HIDE DEF r
          <6> QED
            BY <1>2, <1>3, <6>1, KeepFacts
        <5>2. CASE ~At(c, "shelf")
          <6>1. Ran(c)
            BY <4>1, <5>2 DEF Ran
          <6>2. Went(c) /\ (call'[c].result = "running" =>
                               call'[c].stamp = call[c].stamp)
            BY <1>2, <1>3, <6>1, RanFacts
          <6> QED
            BY <1>2, <6>2 DEF Went
        <5> QED
          BY <5>1, <5>2
      <4>3. old \in Row
        BY <1>2, <1>3, <4>1 DEF TypeOK, Live
      <4> HIDE DEF old
      <4>4. Written(c, old) \in Row
        <5>1. CASE s = "update"
          <6>1. At(c, "update")
            BY <1>1, <5>1
          <6>2. [old EXCEPT !.val = c] \in Row
            BY <1>2, <4>3 DEF Row
          <6>3. ~At(c, "delete") /\ ~At(c, "shelf")
            BY <6>1 DEF At
          <6> QED
            BY <6>1, <6>2, <6>3 DEF Written
        <5>2. CASE s = "delete"
          <6>1. At(c, "delete")
            BY <1>1, <5>2
          <6>2. [old EXCEPT !.deleted = TRUE] \in Row
            BY <4>3 DEF Row
          <6>3. ~At(c, "update") /\ ~At(c, "shelf")
            BY <6>1 DEF At
          <6> QED
            BY <6>1, <6>2, <6>3 DEF Written
        <5>3. CASE s = "shelf"
          <6>1. At(c, "shelf") /\ call[c].arg \in BOOLEAN
            BY <1>1, <1>2, <5>3 DEF ArgOK
          <6>2. [old EXCEPT !.shelf = call[c].arg] \in Row
            BY <4>3, <6>1 DEF Row
          <6>3. ~At(c, "update") /\ ~At(c, "delete")
            BY <6>1 DEF At
          <6> QED
            BY <6>1, <6>2, <6>3 DEF Written
        <5> QED
          BY <4>1, <5>1, <5>2, <5>3
      <4>5. p \in DOMAIN product
        BY <1>2, <1>3 DEF TableInv
      <4>6. row = Written(c, old)
        BY <4>1, <4>5
      <4>7. ~Dead(p)
        BY <4>1 DEF Dead, Live
      <4> QED
        BY <4>1, <4>2, <4>4, <4>6, <4>7
    <3> QED
      BY <3>1, <3>2
  <2> HIDE DEF row
  <2>2. Moved(c) /\ Made' = Made
    BY <2>1 DEF Went, Moved
  <2>3. DOMAIN product' = Sku /\ \A q \in Sku \ {p} : product'[q] = product[q]
    BY <1>3, <2>1 DEF TableInv
  <2>4. \A q \in Sku : Dead(q) => Dead(q)'
    BY <2>1, <2>3 DEF Dead
  <2>5. ~call[c].gone
    BY <1>2, <1>3, <2>1 DEF GoneInv
  <2>6. ProductOK'
    <3>1. product'[p] = row
      BY DEF row
    <3>2. \A q \in Sku : product'[q] \in Row \cup {NoRow}
      BY <1>3, <2>1, <2>3, <3>1 DEF TypeOK
    <3>3. Row' = Row
      BY <2>2 DEF Row
    <3> QED
      BY <3>2, <3>3 DEF ProductOK
  <2>7. RateOK' /\ ImageOK'
    BY <1>3, <1>4, <2>2, Frames
  <2>8. ImageInv'
    BY <1>1, <1>4, <1>5, <2>2, ImagesAlone
  <2>9. \A d \in Running : call[d].op = "serve" /\ call[d].gone =>
           \A i \in image' : i.id # call[d].arg.image
    BY <1>3, <1>4 DEF GoneInv
  <2> QED
    BY <1>1, <1>4, <1>5, <2>1, <2>3, <2>4, <2>5, <2>6, <2>7, <2>8, <2>9, ChangeInv
<1> QED
  BY <1>6, <1>7

\* What every statement that makes a change has in common.
LEMMA ChangeHere ==
  ASSUME IInv, NEW c, NEW s \in Changes, At(c, s)
  PROVE  /\ c \in Running /\ c \in Made /\ call[c].on \in Sku
         /\ s = Head(call[c].todo) /\ Todo(c) # 1 /\ ArgOK(call[c])
         /\ call[c].op \notin {"import", "serve"}
         /\ s = "rate" => call[c].op = "add" /\ Todo(c) = 2
         /\ s = "rerate" => call[c].op = "set" /\ Todo(c) = 2
         /\ s = "unrate" => call[c].op = "drop" /\ Todo(c) = 2
         /\ s = "row" => call[c].op = "upload" /\ Todo(c) = 2
         /\ s = "unrow" => call[c].op = "remove" /\ Todo(c) = 3
         /\ Ran(c) => Went(c) /\ call'[c].stamp = call[c].stamp
<1>1. /\ call[c].op \in Ops /\ Todo(c) \in Nat \ {0} /\ c \in Running /\ c \in Made
      /\ Todo(c) \in 1 .. Len(Left[call[c].op]) /\ call[c].on \in Sku
      /\ s = Left[call[c].op][Todo(c)] /\ s = Head(call[c].todo)
      /\ ArgOK(call[c])
  BY Here
<1>2. /\ s = "insert" => Todo(c) = 3 /\ call[c].op = "create"
      /\ s = "update" => Todo(c) = 3 /\ call[c].op = "update"
      /\ s = "delete" => Todo(c) = 2 /\ call[c].op = "delete"
      /\ s = "shelf" => Todo(c) = 3 /\ call[c].op = "status"
      /\ s = "rate" => Todo(c) = 2 /\ call[c].op = "add"
      /\ s = "rerate" => Todo(c) = 2 /\ call[c].op = "set"
      /\ s = "unrate" => Todo(c) = 2 /\ call[c].op = "drop"
      /\ s = "row" => Todo(c) = 2 /\ call[c].op = "upload"
      /\ s = "unrow" => Todo(c) = 3 /\ call[c].op = "remove"
  BY <1>1, WhereChange
<1>3. Todo(c) # 1 /\ call[c].op \notin {"import", "serve"}
  BY <1>2 DEF Changes
<1>4. ASSUME Ran(c) PROVE Went(c) /\ call'[c].stamp = call[c].stamp
  <2>1. TypeOK /\ CallInv
    BY DEF IInv
  <2>2. Went(c) /\ (call'[c].result = "running" => call'[c].stamp = call[c].stamp)
    BY <1>1, <1>4, <2>1, RanFacts
  <2> QED
    BY <1>3, <2>2 DEF Went
<1> QED
  BY <1>1, <1>2, <1>3, <1>4

\* Tax rates: a call that came after the deletion has stopped at its first look.
LEMMA RateInv ==
  ASSUME IInv, NEW c, AddRate(c) \/ ChangeRate(c)
  PROVE  IInv'
<1>1. PICK s \in {"rate", "rerate", "unrate"} : At(c, s)
  BY DEF AddRate, ChangeRate
<1>2. s \in Changes /\ s \in Refusals /\ s \notin {"bytes", "unrow", "find"}
  BY DEF Changes, Refusals
<1>3. /\ c \in Running /\ c \in Made /\ call[c].on \in Sku /\ Todo(c) = 2
      /\ s = Head(call[c].todo) /\ ArgOK(call[c])
      /\ call[c].op \in {"add", "set", "drop"}
      /\ s = "rate" => call[c].op = "add"
      /\ Ran(c) => Went(c) /\ call'[c].stamp = call[c].stamp
  BY <1>1, <1>2, ChangeHere
<1>4. /\ TypeOK /\ CallInv /\ GoneInv /\ TableInv
  BY DEF IInv
<1>5. UNCHANGED <<product, image, file, history, url, now, mix>>
  BY DEF AddRate, ChangeRate
<1>6. CASE Refused(c) /\ UNCHANGED <<rate, past>>
  <2>1. Quiet /\ past' = past
    BY <1>5, <1>6 DEF Quiet
  <2> QED
    BY <1>1, <1>2, <1>6, <2>1, RefusedInv
<1>7. CASE ~(Refused(c) /\ UNCHANGED <<rate, past>>)
  <2> DEFINE Rate == [id : Made, sku : Sku, state : State, val : Made]
  <2>1. past' = Done(c) /\ Ran(c) /\ rate' \subseteq Rate
    <3>1. rate \subseteq Rate
      BY <1>4 DEF TypeOK
    <3>2. CASE AddRate(c)
      <4> DEFINE new == [id |-> c, sku |-> call[c].on, state |-> call[c].arg, val |-> c]
      <4>1. At(c, "rate") /\ past' = Done(c) /\ Ran(c) /\ rate' = rate \cup {new}
        BY <1>7, <3>2 DEF AddRate
      <4>2. s = "rate"
        BY <1>1, <4>1 DEF At
      <4>3. call[c].arg \in State
        BY <1>3, <4>2 DEF ArgOK
      <4>4. new \in Rate
        BY <1>3, <4>3
      <4> HIDE DEF new
      <4> QED
        BY <3>1, <4>1, <4>4
    <3>3. CASE ChangeRate(c)
      <4> DEFINE hit == {r \in rate : r.id = call[c].arg /\ r.sku = call[c].on}
                 set == {[r EXCEPT !.val = c] : r \in hit}
      <4>1. /\ past' = Done(c) /\ Ran(c)
            /\ rate' = (rate \ hit) \cup (IF At(c, "unrate") THEN {} ELSE set)
        BY <1>7, <3>3 DEF ChangeRate
      <4>2. set \subseteq Rate
        <5> SUFFICES ASSUME NEW r \in hit PROVE [r EXCEPT !.val = c] \in Rate
          OBVIOUS
        <5>1. r \in Rate
          BY <3>1
        <5> HIDE DEF hit
        <5> QED
          BY <1>3, <5>1
      <4> HIDE DEF set, hit
      <4> QED
        BY <3>1, <4>1, <4>2
    <3> QED
      BY <3>2, <3>3
  <2>2. Went(c) /\ call'[c].stamp = call[c].stamp /\ Moved(c) /\ Made' = Made
    BY <1>3, <2>1 DEF Went, Moved
  <2>3. ~call[c].gone
    BY <1>3, <1>4 DEF GoneInv
  <2>4. RateOK'
    BY <2>1, <2>2 DEF RateOK
  <2>5. ProductOK' /\ ImageOK'
    BY <1>4, <1>5, <2>2, Frames
  <2>6. ImageInv'
    BY <1>1, <1>2, <1>5, <2>2, ImagesAlone
  <2>7. \A d \in Running : call[d].op = "serve" /\ call[d].gone =>
           \A i \in image' : i.id # call[d].arg.image
    BY <1>4, <1>5 DEF GoneInv
  <2>8. DOMAIN product' = Sku /\ \A q \in Sku : Dead(q) => Dead(q)'
    BY <1>4, <1>5 DEF TableInv, Dead
  <2> QED
    BY <1>1, <1>2, <1>5, <2>1, <2>2, <2>3, <2>4, <2>5, <2>6, <2>7, <2>8, ChangeInv
<1> QED
  BY <1>6, <1>7

\* The row of an image whose file is whole, and the end of one.
LEMMA ImageRowInv ==
  ASSUME IInv, NEW c, InsertImage(c) \/ DeleteImage(c)
  PROVE  IInv'
<1>1. PICK s \in {"row", "unrow"} :
         /\ At(c, s) /\ past' = Done(c) /\ Ran(c)
         /\ s = "row" => image' = image \cup {[id |-> c, sku |-> call[c].on]}
         /\ s = "unrow" => image' = {i \in image : i.id # call[c].arg}
  BY DEF InsertImage, DeleteImage
<1>2. s \in Changes
  BY DEF Changes
<1>3. /\ c \in Running /\ c \in Made /\ call[c].on \in Sku
      /\ call[c].op \notin {"import", "serve"}
      /\ s = "row" => call[c].op = "upload" /\ Todo(c) = 2
      /\ s = "unrow" => call[c].op = "remove" /\ Todo(c) = 3
      /\ Went(c) /\ call'[c].stamp = call[c].stamp
      /\ call[c].result = "running"
  BY <1>1, <1>2, ChangeHere DEF Running
<1>4. /\ TypeOK /\ CallInv /\ GoneInv /\ TableInv /\ ImageInv
  BY DEF IInv
<1>5. UNCHANGED <<product, rate, file, history, url, now, mix>>
  BY DEF InsertImage, DeleteImage
<1>6. Moved(c) /\ Made' = Made
  BY <1>3 DEF Went, Moved
<1>7. ~call[c].gone
  BY <1>3, <1>4 DEF GoneInv
<1> DEFINE new == [id |-> c, sku |-> call[c].on]
<1>8. new.id = c /\ new \in [id : Made, sku : Sku]
  BY <1>3
<1>9. \A i \in image' : i \in image \/ (s = "row" /\ i = new)
  BY <1>1
<1>10. s = "unrow" => \A i \in image' : i.id # call[c].arg
  BY <1>1
<1> HIDE DEF new
<1>11. ImageOK'
  BY <1>4, <1>6, <1>8, <1>9 DEF ImageOK, TypeOK
<1>12. s = "row" => Pending(c) /\ c \in Files /\ file[c] = "whole"
  BY <1>3, <1>4 DEF Pending, ImageInv
<1>13. \A d \in Made : Pending(d)' => Pending(d) /\ d # c
  <2> SUFFICES ASSUME NEW d \in Made, Pending(d)' PROVE Pending(d) /\ d # c
    OBVIOUS
  <2>1. Pending(d) /\ (d = c => Todo(c) >= 3)
    BY <1>3, <1>4, <1>6, PendingLess
  <2>2. ~(d = c)
    BY <1>3, <2>1 DEF Pending
  <2> QED
    BY <2>1, <2>2
<1>14. \A d \in Running : call[d].op = "serve" /\ call[d].gone =>
          \A i \in image' : i.id # call[d].arg.image
  <2> SUFFICES ASSUME NEW d \in Running, call[d].op = "serve", call[d].gone,
                      NEW i \in image'
               PROVE  i.id # call[d].arg.image
    OBVIOUS
  <2>1. call[d].arg \in url
    BY <1>4, RunningFacts DEF CallInv
  <2>2. i \in image => i.id # call[d].arg.image
    BY <1>4 DEF GoneInv
  <2>3. ~Pending(call[d].arg.image)
    BY <1>4, <2>1 DEF ImageInv
  <2> QED
    BY <1>8, <1>9, <1>12, <2>2, <2>3
<1>15. ImageInv'
  <2>1. RowHasFile'
    <3>1. \A i \in image' : i.id \in Files /\ file[i.id] = "whole"
      BY <1>4, <1>8, <1>9, <1>12 DEF ImageInv, RowHasFile
    <3> QED
      BY <1>5, <3>1 DEF RowHasFile, Files
  <2>2. \A i \in image' : ~Pending(i.id)'
    BY <1>3, <1>4, <1>8, <1>9, <1>13 DEF ImageInv, TypeOK
  <2>3. \A u \in url' : ~Pending(u.image)'
    BY <1>4, <1>5, <1>13 DEF ImageInv, TypeOK
  <2>4. ASSUME NEW d \in Running'
        PROVE  /\ call'[d].op = "remove" /\ Todo(d)' <= 3 => ~Pending(call[d].arg)'
               /\ call'[d].op = "remove" /\ Todo(d)' <= 2 =>
                     \A i \in image' : i.id # call'[d].arg
               /\ call'[d].op = "upload" /\ Todo(d)' = 2 =>
                     d \in Files' /\ file'[d] = "whole"
               /\ call'[d].arg = call[d].arg
    <3>1. /\ d \in Running /\ call'[d].op = call[d].op /\ call'[d].arg = call[d].arg
          /\ Todo(d)' = (IF d = c THEN Todo(c) - 1 ELSE Todo(d))
          /\ Todo(d) \in Nat \ {0}
      BY <1>3, <1>4, <1>6, StillRunning
    <3>2. call[d].op = "remove" => call[d].arg \in Made
      BY <1>4, <3>1, RunningFacts DEF CallInv
    <3>3. call'[d].op = "remove" /\ Todo(d)' <= 3 =>
             Todo(d) <= 3
      BY <1>2, <1>3, <3>1 DEF Changes
    <3>4. call'[d].op = "remove" /\ Todo(d)' <= 3 =>
             ~Pending(call[d].arg) /\ call[d].arg \in Made
      BY <1>4, <3>1, <3>2, <3>3 DEF ImageInv
    <3>5. call'[d].op = "remove" /\ Todo(d)' <= 2 =>
             \A i \in image' : i.id # call'[d].arg
      <4> SUFFICES ASSUME call[d].op = "remove", Todo(d)' <= 2, NEW i \in image'
                   PROVE  i.id # call[d].arg
        BY <3>1
      <4>1. ~Pending(call[d].arg)
        BY <3>1, <3>4
      <4>2. CASE d = c
        <5>1. s = "unrow"
          BY <1>3, <4>2
        <5> QED
          BY <1>10, <4>2, <5>1
      <4>3. CASE d # c
        <5>1. i \in image => i.id # call[d].arg
          BY <1>4, <3>1, <4>3 DEF ImageInv
        <5> QED
          BY <1>8, <1>9, <1>12, <4>1, <5>1
      <4> QED
        BY <4>2, <4>3
    <3>6. call'[d].op = "upload" /\ Todo(d)' = 2 => d \in Files' /\ file'[d] = "whole"
      BY <1>3, <1>4, <1>5, <3>1 DEF ImageInv, Files
    <3> QED
      BY <1>13, <3>1, <3>4, <3>5, <3>6
  <2> QED
    BY <2>1, <2>2, <2>3, <2>4 DEF ImageInv
<1>16. ProductOK' /\ RateOK'
  BY <1>4, <1>5, <1>6, Frames
<1>17. DOMAIN product' = Sku /\ \A q \in Sku : Dead(q) => Dead(q)'
  BY <1>4, <1>5 DEF TableInv, Dead
<1> QED
  BY <1>1, <1>2, <1>3, <1>5, <1>7, <1>11, <1>14, <1>15, <1>16, <1>17, ChangeInv

\* A statement that ran and wrote files or handed out links only.
LEMMA StoreInv ==
  ASSUME IInv, NEW c, NEW s \in {"file", "bytes", "unfile", "detail"}, At(c, s),
         Ran(c), UNCHANGED <<product, rate, image, history, now, mix, past>>,
         FileOK', UrlOK', url \subseteq url', \A u \in url' : u.exp <= now + Ttl,
         ImageInv'
  PROVE  IInv'
<1> DEFINE op == call[c].op
           n == Todo(c)
<1>1. /\ c \in Running /\ s = Head(call[c].todo) /\ n \in Nat \ {0}
      /\ op \in Ops /\ n \in 1 .. Len(Left[op]) /\ s = Left[op][n]
      /\ call[c].on \in Sku
  BY Here
<1>2. /\ TypeOK /\ CallInv /\ PastOK /\ TableInv /\ GoneInv /\ TimeInv /\ DoneInv
      /\ ChangesAreTold /\ ListedInOrder /\ GoneStaysGone
  BY DEF IInv
<1>3. op \in {"upload", "remove", "detail"} /\ (n = 1 => op = "detail")
  <2> HIDE DEF op, n
  <2>1. /\ s = "file" => n = 4 /\ op = "upload"
        /\ s = "bytes" => n = 3 /\ op = "upload"
    BY <1>1, WhereWrite
  <2>2. /\ s = "unfile" => n = 2 /\ op = "remove"
        /\ s = "detail" => n = 1 /\ op = "detail"
    BY <1>1, WhereWrite
  <2> QED
    BY <2>1, <2>2
<1>4. /\ Went(c)
      /\ call'[c].result = "running" => call'[c].stamp = call[c].stamp
  BY <1>1, <1>2, RanFacts
<1>5. Moved(c) /\ Made' = Made /\ call'[c].result = (IF n = 1 THEN "ok" ELSE "running")
  BY <1>4 DEF Went, Moved
<1>6. TypeOK' /\ CallInv'
  BY <1>1, <1>2, <1>5, Frames, TypeKept
<1>7. PastOK'
  BY <1>2, <1>5, PastSame
<1>8. TableInv'
  <2>1. \A p \in Sku : /\ Len(history'[p]) \in Nat
                       /\ DOMAIN history'[p] = 1 .. Len(history'[p])
                       /\ \A i \in DOMAIN history'[p] : history'[p][i].stamp \in Nat
                       /\ Len(history[p]) <= Len(history'[p])
    BY <1>2 DEF TableInv
  <2>2. DOMAIN product' = Sku /\ DOMAIN history' = Sku
    BY <1>2 DEF TableInv
  <2>3. call[c].op # "import"
    BY <1>3
  <2> QED
    BY <1>1, <1>2, <1>5, <2>1, <2>2, <2>3, TableKept
<1>9. GoneInv'
  <2>1. \A p \in Sku : Dead(p) => Dead(p)'
    BY DEF Dead
  <2>2. \A d \in Running : call[d].op = "serve" /\ call[d].gone =>
           \A i \in image' : i.id # call[d].arg.image
    BY <1>2 DEF GoneInv
  <2>3. Head(call[c].todo) \notin {"exists", "fetch"}
    BY <1>1
  <2> QED
    BY <1>1, <1>2, <1>5, <2>1, <2>2, <2>3, GoneKept
<1>10. TimeInv'
  <2>1. call[c].op # "serve"
    BY <1>3
  <2> QED
    BY <1>1, <1>2, <1>5, <2>1, TimeKept
<1>11. DoneInv' /\ ChangesAreTold'
  <2>1. c \in past.done => Changed(op, n)
    BY <1>1, <1>2 DEF DoneInv
  <2>2. Changed(op, n) => Changed(op, n - 1)
    <3>1. n - 1 \in Nat /\ n - 1 + 1 = n
      BY <1>1
    <3> HIDE DEF op, n
    <3> QED
      BY <1>1, <3>1, ChangedFacts
  <2>3. n = 1 => ~Changed(op, n)
    BY <1>3 DEF Changed, After1, After2
  <2>4. c \in past'.done \ past'.told => call'[c].result \in {"running", "cut"}
    BY <1>5, <2>1, <2>3
  <2>5. call'[c].result = "running" =>
           /\ c \in past'.done => Changed(call[c].op, Todo(c) - 1)
           /\ call[c].op = "status" /\ Todo(c) = 2 => c \in past'.told
    BY <1>3, <2>1, <2>2
  <2>6. past'.done \subseteq past.done \cup {c} /\ past.told \subseteq past'.told
    OBVIOUS
  <2> HIDE DEF op, n
  <2> QED
    BY <1>1, <1>2, <1>5, <2>4, <2>5, <2>6, DoneKept
<1>12. ListedInOrder' /\ GoneStaysGone'
  BY <1>2 DEF ListedInOrder, GoneStaysGone
<1> QED
  BY <1>6, <1>7, <1>8, <1>9, <1>10, <1>11, <1>12 DEF IInv

\* The file of an image: its upload writes it before there is a row, and it is
\* removed when there is none.
LEMMA FileInv ==
  ASSUME IInv, NEW c, WriteFile(c) \/ RemoveFile(c)
  PROVE  IInv'
<1>1. PICK s \in {"file", "bytes", "unfile"} :
         /\ At(c, s) /\ Ran(c)
         /\ s = "file" => file' = With(c, "part")
         /\ s = "bytes" => file' = With(c, "whole")
         /\ s = "unfile" => file' = Without(call[c].arg) \/ file' = file
  BY DEF WriteFile, RemoveFile
<1>2. UNCHANGED <<product, rate, image, history, url, now, mix, past>>
  BY DEF WriteFile, RemoveFile
<1>3. /\ TypeOK /\ CallInv /\ ImageInv /\ TimeInv
  BY DEF IInv
<1>4. /\ c \in Running /\ c \in Made /\ call[c].result = "running"
      /\ s = "file" => Todo(c) = 4 /\ call[c].op = "upload"
      /\ s = "bytes" => Todo(c) = 3 /\ call[c].op = "upload"
      /\ s = "unfile" => Todo(c) = 2 /\ call[c].op = "remove"
  <2>1. /\ call[c].op \in Ops /\ Todo(c) \in Nat \ {0} /\ c \in Running /\ c \in Made
        /\ Todo(c) \in 1 .. Len(Left[call[c].op]) /\ call[c].result = "running"
        /\ s = Left[call[c].op][Todo(c)]
    BY <1>1, Here
  <2>2. /\ s = "file" => Todo(c) = 4 /\ call[c].op = "upload"
        /\ s = "bytes" => Todo(c) = 3 /\ call[c].op = "upload"
    BY <2>1, WhereWrite
  <2>3. s = "unfile" => Todo(c) = 2 /\ call[c].op = "remove"
    BY <2>1, WhereWrite
  <2> QED
    BY <2>1, <2>2, <2>3
<1>5. Went(c) /\ Moved(c) /\ Made' = Made
  BY <1>1, <1>3, <1>4, RanFacts DEF Went, Moved
<1>6. \A d \in Made : Pending(d)' => Pending(d)
  BY <1>3, <1>4, <1>5, PendingLess
<1>7. \A j \in Files' : j \in Files \/ (j = c /\ s # "unfile")
  BY <1>1 DEF With, Without, Files
<1>8. \A j \in Files : \/ j \in Files' /\ file'[j] = file[j]
                       \/ j = c /\ s # "unfile"
                       \/ j = call[c].arg /\ s = "unfile"
  BY <1>1 DEF With, Without, Files
<1>9. s # "unfile" => /\ c \in Files'
                      /\ file'[c] = (IF s = "bytes" THEN "whole" ELSE "part")
  BY <1>1 DEF With, Files
<1>10. \A j \in Files' \cap Files : j # c => file'[j] = file[j]
  BY <1>1 DEF With, Without, Files
<1>11. FileOK'
  <2> SUFFICES ASSUME NEW j \in Files'
               PROVE  j \in Made' /\ file'[j] \in {"part", "whole"}
    BY DEF FileOK, Files
  <2>1. CASE s # "unfile" /\ j = c
    BY <1>4, <1>5, <1>9, <2>1
  <2>2. CASE ~(s # "unfile" /\ j = c)
    <3>1. j \in Files
      BY <1>7, <2>2
    <3>2. file'[j] = file[j]
      BY <1>1, <2>2, <3>1 DEF With, Without, Files
    <3> QED
      BY <1>3, <1>5, <3>1, <3>2 DEF TypeOK, Files
  <2> QED
    BY <2>1, <2>2
<1>12. s # "unfile" => Pending(c)
  BY <1>4 DEF Pending
<1>13. s = "unfile" => /\ ~Pending(call[c].arg)
                       /\ \A i \in image : i.id # call[c].arg
  BY <1>3, <1>4 DEF ImageInv
<1>14. ImageInv'
  <2>1. RowHasFile'
    <3> SUFFICES ASSUME NEW i \in image
                 PROVE  i.id \in Files' /\ file'[i.id] = "whole"
      BY <1>2 DEF RowHasFile
    <3>1. i.id \in Files /\ file[i.id] = "whole" /\ ~Pending(i.id)
      BY <1>3 DEF ImageInv, RowHasFile
    <3>2. ~(i.id = c /\ s # "unfile") /\ ~(i.id = call[c].arg /\ s = "unfile")
      BY <1>12, <1>13, <3>1
    <3> QED
      BY <1>8, <3>1, <3>2
  <2>2. \A i \in image' : ~Pending(i.id)'
    BY <1>2, <1>3, <1>6 DEF ImageInv, TypeOK
  <2>3. \A u \in url' : ~Pending(u.image)'
    BY <1>2, <1>3, <1>6 DEF ImageInv, TypeOK
  <2>4. ASSUME NEW d \in Running'
        PROVE  /\ call'[d].op = "remove" /\ Todo(d)' <= 3 => ~Pending(call[d].arg)'
               /\ call'[d].op = "remove" /\ Todo(d)' <= 2 =>
                     \A i \in image' : i.id # call'[d].arg
               /\ call'[d].op = "upload" /\ Todo(d)' = 2 =>
                     d \in Files' /\ file'[d] = "whole"
               /\ call'[d].arg = call[d].arg
    <3>1. /\ d \in Running /\ call'[d].op = call[d].op /\ call'[d].arg = call[d].arg
          /\ Todo(d)' = (IF d = c THEN Todo(c) - 1 ELSE Todo(d))
          /\ Todo(d) \in Nat \ {0}
      BY <1>3, <1>4, <1>5, StillRunning
    <3>2. call[d].op = "remove" => call[d].arg \in Made
      BY <1>3, <3>1, RunningFacts DEF CallInv
    <3>3. call'[d].op = "remove" =>
             /\ Todo(d)' <= 3 => Todo(d) <= 3
             /\ Todo(d)' <= 2 => Todo(d) <= 2
      <4>1. CASE d = c
        <5>1. call[c].op = "remove" => Todo(c) <= 2
          BY <1>4
        <5> QED
          BY <3>1, <4>1, <5>1
      <4>2. CASE d # c
        BY <3>1, <4>2
      <4> QED
        BY <4>1, <4>2
    <3>4. call'[d].op = "remove" /\ Todo(d)' <= 3 => ~Pending(call[d].arg)'
      BY <1>3, <1>6, <3>1, <3>2, <3>3 DEF ImageInv
    <3>5. call'[d].op = "remove" /\ Todo(d)' <= 2 =>
             \A i \in image' : i.id # call'[d].arg
      BY <1>2, <1>3, <3>1, <3>3 DEF ImageInv
    <3>6. call'[d].op = "upload" /\ Todo(d)' = 2 => d \in Files' /\ file'[d] = "whole"
      <4> SUFFICES ASSUME call[d].op = "upload", Todo(d)' = 2
                   PROVE  d \in Files' /\ file'[d] = "whole"
        BY <3>1
      <4>1. CASE d = c
        <5>1. s = "bytes"
          BY <1>1, <1>4, <3>1, <4>1
        <5> QED
          BY <1>9, <4>1, <5>1
      <4>2. CASE d # c
        <5>1. Todo(d) = 2 /\ d \in Files /\ file[d] = "whole"
          BY <1>3, <3>1, <4>2 DEF ImageInv
        <5>2. Pending(d)
          BY <3>1, <5>1 DEF Pending, Running
        <5> QED
          BY <1>8, <1>13, <4>2, <5>1, <5>2
      <4> QED
        BY <4>1, <4>2
    <3> QED
      BY <3>1, <3>4, <3>5, <3>6
  <2> QED
    BY <2>1, <2>2, <2>3, <2>4 DEF ImageInv
<1>15. UrlOK' /\ url \subseteq url' /\ \A u \in url' : u.exp <= now + Ttl
  BY <1>2, <1>3, <1>5, Frames DEF TimeInv
<1>16. s \in {"file", "bytes", "unfile", "detail"}
  OBVIOUS
<1> QED
  BY <1>1, <1>2, <1>11, <1>14, <1>15, <1>16, StoreInv

\* The links to the images of a product that was looked at.
LEMMA DetailInv ==
  ASSUME IInv, NEW c, Detail(c)
  PROVE  IInv'
<1> DEFINE new == {[image |-> i.id, exp |-> now + Ttl] :
                     i \in {j \in image : j.sku = call[c].on}}
<1>1. /\ At(c, "detail") /\ "detail" \in Refusals
      /\ UNCHANGED <<product, rate, image, file, history, now, mix, past>>
      /\ \/ url' = url \cup new /\ Ran(c)
         \/ Refused(c) /\ url' = url
  BY DEF Detail, Refusals
<1>2. /\ TypeOK /\ CallInv /\ ImageInv /\ TimeInv
  BY DEF IInv
<1>3. c \in Running
  BY <1>1, Here
<1>4. now \in Nat
  BY <1>2, BoundAssumption DEF TypeOK
<1>5. \A u \in new : /\ u \in [image : Made, exp : Nat]
                     /\ u.exp = now + Ttl /\ ~Pending(u.image)
  <2> SUFFICES ASSUME NEW i \in image
               PROVE  LET u == [image |-> i.id, exp |-> now + Ttl] IN
                      /\ u \in [image : Made, exp : Nat]
                      /\ u.exp = now + Ttl /\ ~Pending(u.image)
    OBVIOUS
  <2>1. i.id \in Made /\ ~Pending(i.id)
    BY <1>2 DEF ImageInv, TypeOK
  <2> QED
    BY <1>4, <2>1, TtlAssumption
<1> HIDE DEF new
<1>6. CASE Refused(c) /\ url' = url
  <2>1. Quiet /\ past' = past
    BY <1>1, <1>6 DEF Quiet
  <2> QED
    BY <1>1, <1>6, <2>1, RefusedInv
<1>7. CASE url' = url \cup new /\ Ran(c)
  <2>1. Went(c) /\ Moved(c) /\ Made' = Made
    BY <1>2, <1>3, <1>7, RanFacts DEF Went, Moved
  <2>2. FileOK'
    BY <1>1, <1>2, <2>1, Frames
  <2>3. UrlOK' /\ url \subseteq url'
    BY <1>2, <1>5, <1>7, <2>1 DEF UrlOK, TypeOK
  <2>4. \A u \in url' : u.exp <= now + Ttl
    BY <1>2, <1>4, <1>5, <1>7, TtlAssumption DEF TimeInv
  <2>5. ImageInv'
    <3>1. \A u \in url' : u.image \in Made /\ ~Pending(u.image)
      BY <1>2, <1>5, <1>7 DEF ImageInv, TypeOK
    <3>2. Head(call[c].todo) = "detail"
      BY <1>1 DEF At
    <3>3. call'[c].result = "running" =>
             /\ Head(call[c].todo) \notin {"bytes", "unrow"}
             /\ Head(call[c].todo) = "find" => ~Pending(call[c].arg)
      BY <3>2
    <3> QED
      BY <1>1, <1>2, <1>3, <2>1, <3>1, <3>3, ImageKept
  <2> DEFINE s == "detail"
  <2>6. s \in {"file", "bytes", "unfile", "detail"} /\ At(c, s)
    BY <1>1
  <2> HIDE DEF s
  <2> QED
    BY <1>1, <1>7, <2>2, <2>3, <2>4, <2>5, <2>6, StoreInv
<1> QED
  BY <1>1, <1>6, <1>7

\* A record at the end of a product's history: its stamp is that of the moment,
\* or it is an import's.
LEMMA AppendInv ==
  ASSUME IInv, NEW c, NEW s \in {"record", "commit"}, At(c, s), Ran(c), NEW e,
         e.call = c, e.stamp \in Nat, e.stamp <= Len(history[call[c].on]) + 1,
         e.stamp = Len(history[call[c].on]) + 1 \/ e.op = "import",
         history' = [history EXCEPT ![call[c].on] = Append(@, e)],
         PastOK', past'.told = past.told \cup {c}, past'.late = {},
         past'.done \subseteq past.done \cup {c},
         s = "record" => past'.done = past.done,
         UNCHANGED <<rate, image, file, url, now, mix>>,
         ProductOK', DOMAIN product' = Sku, \A p \in Sku : Dead(p) => Dead(p)'
  PROVE  IInv'
<1> DEFINE op == call[c].op
           n == Todo(c)
           on == call[c].on
           h == history[on]
<1>1. /\ c \in Running /\ c \in Made /\ s = Head(call[c].todo) /\ n \in Nat \ {0}
      /\ op \in Ops /\ n \in 1 .. Len(Left[op]) /\ s = Left[op][n]
      /\ on \in Sku
  BY Here
<1>2. /\ TypeOK /\ CallInv /\ PastOK /\ TableInv /\ GoneInv /\ TimeInv /\ DoneInv
      /\ ChangesAreTold /\ ListedInOrder /\ GoneStaysGone
  BY DEF IInv
<1>3. n = 1 \/ (n = 2 /\ op = "status" /\ s = "record")
  <2> HIDE DEF op, n
  <2>1. /\ s = "record" => n = (IF op = "status" THEN 2 ELSE 1)
        /\ s = "commit" => n = 1
    BY <1>1, WhereWrite
  <2> QED
    BY <2>1
<1>4. /\ Went(c)
      /\ call'[c].result = "running" => call'[c].stamp = call[c].stamp
  BY <1>1, <1>2, RanFacts
<1>5. Moved(c) /\ Made' = Made /\ call'[c].result = (IF n = 1 THEN "ok" ELSE "running")
  BY <1>4 DEF Went, Moved
<1>6. /\ \A p \in Sku : Len(history[p]) \in Nat /\ DOMAIN history[p] = 1 .. Len(history[p])
      /\ DOMAIN history' = Sku /\ \A p \in Sku \ {on} : history'[p] = history[p]
      /\ history'[on] = Append(h, e)
  BY <1>1, <1>2 DEF TableInv
<1>7. Len(h) \in Nat /\ DOMAIN h = 1 .. Len(h)
  BY <1>1, <1>6
<1> DEFINE new == Append(h, e)
<1>8. /\ Len(new) = Len(h) + 1 /\ DOMAIN new = 1 .. Len(h) + 1
      /\ new[Len(h) + 1] = e /\ \A i \in 1 .. Len(h) : new[i] = h[i]
  <2> HIDE DEF h
  <2> QED
    BY <1>7
<1>9. history'[on] = new
  BY <1>6
<1>10. /\ \A i \in 1 .. Len(h) : /\ h[i].stamp \in Nat /\ h[i].stamp <= Len(h)
                                 /\ h[i].call \in Made \cup {Seed}
       /\ \A i, j \in 1 .. Len(h) : i < j /\ h[j].stamp < h[i].stamp => h[j].op = "import"
  <2>1. \A i \in DOMAIN history[on] : history[on][i].stamp \in Nat
    BY <1>1, <1>2 DEF TableInv
  <2>2. \A i \in DOMAIN history[on] : /\ history[on][i].stamp <= Len(history[on])
                                     /\ history[on][i].call \in Made \cup {Seed}
    BY <1>1, <1>2 DEF TypeOK
  <2>3. \A i, j \in DOMAIN history[on] :
           i < j /\ history[on][j].stamp < history[on][i].stamp =>
              history[on][j].op = "import"
    BY <1>1, <1>2 DEF ListedInOrder
  <2> QED
    BY <1>7, <2>1, <2>2, <2>3
<1>11. e.stamp \in Nat /\ e.stamp <= Len(h) + 1
       /\ (e.stamp = Len(h) + 1 \/ e.op = "import") /\ e.call \in Made
  BY <1>1
<1> HIDE DEF new, h
<1>12. \A i \in DOMAIN new : /\ new[i].call \in Made \cup {Seed}
                             /\ new[i].stamp \in Nat /\ new[i].stamp <= Len(new)
  <2> SUFFICES ASSUME NEW i \in 1 .. Len(h) + 1
               PROVE  /\ new[i].call \in Made \cup {Seed}
                      /\ new[i].stamp \in Nat /\ new[i].stamp <= Len(h) + 1
    BY <1>8
  <2>1. CASE i = Len(h) + 1
    BY <1>8, <1>11, <2>1
  <2>2. CASE i # Len(h) + 1
    <3>1. i \in 1 .. Len(h)
      BY <1>7, <2>2
    <3> QED
      BY <1>7, <1>8, <1>10, <3>1
  <2> QED
    BY <2>1, <2>2
<1>13. \A i, j \in DOMAIN new :
          i < j /\ new[j].stamp < new[i].stamp => new[j].op = "import"
  <2> SUFFICES ASSUME NEW i \in 1 .. Len(h) + 1, NEW j \in 1 .. Len(h) + 1,
                      i < j, new[j].stamp < new[i].stamp
               PROVE  new[j].op = "import"
    BY <1>8
  <2>1. i \in 1 .. Len(h) /\ new[i] = h[i] /\ h[i].stamp \in Nat /\ h[i].stamp <= Len(h)
    BY <1>7, <1>8, <1>10
  <2>2. CASE j = Len(h) + 1
    <3>1. new[j] = e
      BY <1>8, <2>2
    <3>2. e.stamp # Len(h) + 1
      BY <1>7, <2>1, <3>1
    <3> QED
      BY <1>11, <3>1, <3>2
  <2>3. CASE j # Len(h) + 1
    <3>1. j \in 1 .. Len(h) /\ new[j] = h[j]
      BY <1>7, <1>8, <2>3
    <3> QED
      BY <1>10, <2>1, <3>1
  <2> QED
    BY <2>2, <2>3
<1>14. HistoryOK' /\ ListedInOrder'
  <2>1. ASSUME NEW p \in Sku
        PROVE  /\ \A i \in DOMAIN history'[p] :
                     /\ history'[p][i].call \in Made \cup {Seed}
                     /\ history'[p][i].stamp <= Len(history'[p])
               /\ \A i, j \in DOMAIN history'[p] :
                     i < j /\ history'[p][j].stamp < history'[p][i].stamp =>
                        history'[p][j].op = "import"
    <3>1. CASE p = on
      <4>1. history'[p] = new
        BY <1>9, <3>1
      <4>2. \A i \in DOMAIN history'[p] :
               /\ history'[p][i].call \in Made \cup {Seed}
               /\ history'[p][i].stamp <= Len(history'[p])
        BY <1>12, <4>1
      <4>3. \A i, j \in DOMAIN history'[p] :
               i < j /\ history'[p][j].stamp < history'[p][i].stamp =>
                  history'[p][j].op = "import"
        BY <1>13, <4>1
      <4> QED
        BY <4>2, <4>3
    <3>2. CASE p # on
      <4>1. history'[p] = history[p]
        BY <1>6, <3>2
      <4>2. \A i \in DOMAIN history[p] : /\ history[p][i].call \in Made \cup {Seed}
                                        /\ history[p][i].stamp <= Len(history[p])
        BY <1>2 DEF TypeOK
      <4>3. \A i, j \in DOMAIN history[p] :
               i < j /\ history[p][j].stamp < history[p][i].stamp =>
                  history[p][j].op = "import"
        BY <1>2 DEF ListedInOrder
      <4> QED
        BY <4>1, <4>2, <4>3
    <3> QED
      BY <3>1, <3>2
  <2> QED
    BY <1>5, <2>1 DEF HistoryOK, ListedInOrder
<1>15. ProductOK' /\ RateOK' /\ ImageOK' /\ FileOK' /\ UrlOK'
  BY <1>2, <1>5, Frames
<1>16. TypeOK' /\ CallInv'
  BY <1>1, <1>2, <1>5, <1>14, <1>15, TypeKept
<1>17. TableInv'
  <2>1. ASSUME NEW p \in Sku
        PROVE  /\ Len(history'[p]) \in Nat
               /\ DOMAIN history'[p] = 1 .. Len(history'[p])
               /\ \A i \in DOMAIN history'[p] : history'[p][i].stamp \in Nat
               /\ Len(history[p]) <= Len(history'[p])
    <3>1. CASE p = on
      <4>1. history[p] = h /\ history'[p] = new
        BY <1>9, <3>1 DEF h
      <4> QED
        BY <1>7, <1>8, <1>12, <4>1
    <3>2. CASE p # on
      BY <1>2, <1>6, <3>2 DEF TableInv
    <3> QED
      BY <3>1, <3>2
  <2>2. call'[c].result = "running" => call[c].op # "import"
    BY <1>3, <1>5
  <2> QED
    BY <1>1, <1>2, <1>5, <1>6, <2>1, <2>2, TableKept
<1>18. GoneInv'
  <2>1. \A d \in Running : call[d].op = "serve" /\ call[d].gone =>
           \A i \in image' : i.id # call[d].arg.image
    BY <1>2 DEF GoneInv
  <2>2. Head(call[c].todo) \notin {"exists", "fetch"}
    BY <1>1
  <2> QED
    BY <1>1, <1>2, <1>5, <2>1, <2>2, GoneKept
<1>19. TimeInv'
  <2>1. \A u \in url' : u.exp <= now + Ttl
    BY <1>2 DEF TimeInv
  <2>2. call'[c].result = "running" => call[c].op # "serve"
    BY <1>3, <1>5
  <2> QED
    BY <1>1, <1>2, <1>5, <2>1, <2>2, TimeKept
<1>20. ImageInv'
  <2>1. s \notin {"bytes", "unrow", "find"}
    OBVIOUS
  <2> QED
    BY <1>5, <2>1, ImagesAlone
<1>21. DoneInv' /\ ChangesAreTold'
  <2>1. call'[c].result = "running" =>
           /\ c \in past'.done => Changed(call[c].op, Todo(c) - 1)
           /\ call[c].op = "status" /\ Todo(c) = 2 => c \in past'.told
    <3> SUFFICES ASSUME call'[c].result = "running"
                 PROVE  Changed(call[c].op, Todo(c) - 1) /\ c \in past'.told
      OBVIOUS
    <3>1. op = "status" /\ n = 2
      BY <1>3, <1>5
    <3> QED
      BY <3>1 DEF Changed, After1, After2
  <2>2. c \notin past'.done \ past'.told /\ past.told \subseteq past'.told
    OBVIOUS
  <2> HIDE DEF op, n, on
  <2> QED
    BY <1>1, <1>2, <1>5, <2>1, <2>2, DoneKept
<1>22. GoneStaysGone'
  BY DEF GoneStaysGone
<1> QED
  BY <1>14, <1>16, <1>17, <1>18, <1>19, <1>20, <1>21, <1>22 DEF IInv

\* The record of a change.
LEMMA RecordInv ==
  ASSUME IInv, NEW c, Record(c)
  PROVE  IInv'
<1> DEFINE on == call[c].on
           e == Entry(c, Stamp(c))
           s == "record"
<1>1. /\ At(c, s) /\ Ran(c)
      /\ history' = [history EXCEPT ![on] = Append(@, e)]
      /\ past' = [past EXCEPT !.told = @ \cup {c}]
      /\ UNCHANGED <<product, rate, image, file, url, now, mix>>
  BY DEF Record, Recorded
<1>2. /\ TypeOK /\ CallInv /\ PastOK /\ TableInv /\ GoneStaysGone
  BY DEF IInv
<1>3. c \in Running /\ c \in Made /\ on \in Sku
  BY <1>1, Here
<1>4. Moved(c) /\ Made' = Made
  BY <1>1, <1>2, <1>3, RanFacts DEF Went, Moved
<1>5. /\ PastOK' /\ past'.told = past.told \cup {c} /\ past'.late = {}
      /\ past'.done = past.done
  BY <1>1, <1>2, <1>3, <1>4 DEF PastOK, GoneStaysGone
<1>6. Len(history[on]) \in Nat
  BY <1>2, <1>3 DEF TableInv
<1>7. /\ e.call = c /\ e.stamp = Len(history[on]) + 1
      /\ e.stamp \in Nat /\ e.stamp <= Len(history[on]) + 1
  BY <1>6 DEF Entry, Stamp
<1>8. ProductOK' /\ DOMAIN product' = Sku /\ \A p \in Sku : Dead(p) => Dead(p)'
  BY <1>1, <1>2, <1>4, Frames DEF TableInv, Dead
<1>9. s \in {"record", "commit"}
  OBVIOUS
<1>10. past'.done \subseteq past.done \cup {c}
  BY <1>5
<1> HIDE DEF e, s
<1> QED
  BY <1>1, <1>5, <1>7, <1>8, <1>9, <1>10, AppendInv

\* The end of an import: the row, with its record, at once.
LEMMA CommitInv ==
  ASSUME IInv, NEW c, Commit(c)
  PROVE  IInv'
<1> DEFINE on == call[c].on
           e == Entry(c, call[c].stamp)
           s == "commit"
           row == [val |-> c, shelf |-> call[c].arg, deleted |-> StaysDeleted(on)]
<1>1. /\ At(c, s) /\ Ran(c)
      /\ product' = [product EXCEPT ![on] = row]
      /\ history' = [history EXCEPT ![on] = Append(@, e)]
      /\ past' = [past EXCEPT !.done = @ \cup {c}, !.told = @ \cup {c}]
      /\ UNCHANGED <<rate, image, file, url, now, mix>>
  BY DEF Commit
<1>2. /\ TypeOK /\ CallInv /\ PastOK /\ TableInv /\ GoneStaysGone
  BY DEF IInv
<1>3. /\ c \in Running /\ c \in Made /\ on \in Sku /\ ArgOK(call[c])
      /\ call[c].op = "import" /\ call[c].stamp \in Nat
  <2>1. /\ call[c].op \in Ops /\ Todo(c) \in Nat \ {0} /\ c \in Running /\ c \in Made
        /\ Todo(c) \in 1 .. Len(Left[call[c].op]) /\ ArgOK(call[c])
        /\ s = Left[call[c].op][Todo(c)] /\ on \in Sku /\ call[c].stamp \in Nat
    BY <1>1, Here
  <2>2. s = "commit"
    OBVIOUS
  <2> HIDE DEF s
  <2>3. call[c].op = "import"
    BY <2>1, <2>2, WhereWrite
  <2> QED
    BY <2>1, <2>3
<1>4. Moved(c) /\ Made' = Made
  BY <1>1, <1>2, <1>3, RanFacts DEF Went, Moved
<1>5. /\ PastOK' /\ past'.told = past.told \cup {c} /\ past'.late = {}
      /\ past'.done = past.done \cup {c}
  BY <1>1, <1>2, <1>3, <1>4 DEF PastOK, GoneStaysGone
<1>6. e.call = c /\ e.stamp = call[c].stamp /\ e.op = "import"
  BY <1>3 DEF Entry
<1>7. call[c].stamp <= Len(history[on]) + 1
  BY <1>2, <1>3 DEF TableInv
<1>13. /\ e.stamp \in Nat /\ e.stamp <= Len(history[on]) + 1
       /\ e.stamp = Len(history[on]) + 1 \/ e.op = "import"
       /\ past'.done \subseteq past.done \cup {c}
  BY <1>3, <1>5, <1>6, <1>7
<1>8. row \in Row /\ row # NoRow /\ row.deleted = StaysDeleted(on)
  <2>1. call[c].arg \in BOOLEAN
    BY <1>3 DEF ArgOK
  <2>2. StaysDeleted(on) \in BOOLEAN
    BY DEF StaysDeleted
  <2>3. DOMAIN row # {} /\ DOMAIN NoRow = {}
    BY DEF NoRow
  <2> QED
    BY <1>3, <2>1, <2>2, <2>3 DEF Row
<1> HIDE DEF row
<1>9. DOMAIN product' = Sku /\ product'[on] = row
      /\ \A p \in Sku \ {on} : product'[p] = product[p]
  BY <1>1, <1>2, <1>3 DEF TableInv
<1>10. ProductOK'
  <2>1. \A p \in Sku : product'[p] \in Row \cup {NoRow}
    BY <1>2, <1>8, <1>9 DEF TypeOK
  <2>2. Row' = Row
    BY <1>4 DEF Row
  <2> QED
    BY <2>1, <2>2 DEF ProductOK
<1>11. \A p \in Sku : Dead(p) => Dead(p)'
  BY <1>8, <1>9 DEF Dead, StaysDeleted
<1>12. s \in {"record", "commit"} /\ (s = "record" => past'.done = past.done)
  OBVIOUS
<1> HIDE DEF e, s
<1> QED
  BY <1>1, <1>5, <1>6, <1>9, <1>10, <1>11, <1>12, <1>13, AppendInv

-----------------------------------------------------------------------------
(* A call arrives *)

\* Whole lists of one, three, four and five statements.
LEMMA ListOne ==
  ASSUME NEW f, NEW x \in Statement, Left[f.op] = <<x>>, f.todo = <<x>>
  PROVE  Listed(f) /\ Len(f.todo) = Len(Left[f.op])
<1> DEFINE s == <<x>>
<1>1. s \in Seq(Statement) /\ Len(s) = 1 /\ s[1] = x
  OBVIOUS
<1>2. f.todo = s /\ Left[f.op] = s
  OBVIOUS
<1> HIDE DEF s
<1>3. \A i \in 1 .. 1 : s[i] = s[1 + 1 - i]
  BY <1>1
<1> QED
  BY <1>1, <1>2, <1>3 DEF Listed

LEMMA ListThree ==
  ASSUME NEW f, NEW x \in Statement, NEW y \in Statement, NEW z \in Statement,
         Left[f.op] = <<z, y, x>>, f.todo = <<x, y, z>>
  PROVE  Listed(f) /\ Len(f.todo) = Len(Left[f.op])
<1> DEFINE s == <<x, y, z>>
           t == <<z, y, x>>
<1>1. s \in Seq(Statement)
  OBVIOUS
<1>2. Len(s) = 3 /\ s[1] = x /\ s[2] = y /\ s[3] = z
  OBVIOUS
<1>3. Len(t) = 3 /\ t[1] = z /\ t[2] = y /\ t[3] = x
  OBVIOUS
<1>4. f.todo = s /\ Left[f.op] = t
  OBVIOUS
<1> HIDE DEF s, t
<1>5. \A i \in 1 .. 3 : s[i] = t[3 + 1 - i]
  BY <1>2, <1>3
<1> QED
  BY <1>1, <1>2, <1>3, <1>4, <1>5 DEF Listed

LEMMA ListFour ==
  ASSUME NEW f, NEW w \in Statement, NEW x \in Statement, NEW y \in Statement,
         NEW z \in Statement, Left[f.op] = <<z, y, x, w>>, f.todo = <<w, x, y, z>>
  PROVE  Listed(f) /\ Len(f.todo) = Len(Left[f.op])
<1> DEFINE s == <<w, x, y, z>>
           t == <<z, y, x, w>>
<1>1. s \in Seq(Statement)
  OBVIOUS
<1>2. Len(s) = 4 /\ s[1] = w /\ s[2] = x /\ s[3] = y /\ s[4] = z
  OBVIOUS
<1>3. Len(t) = 4 /\ t[1] = z /\ t[2] = y /\ t[3] = x /\ t[4] = w
  OBVIOUS
<1>4. f.todo = s /\ Left[f.op] = t
  OBVIOUS
<1> HIDE DEF s, t
<1>5. \A i \in 1 .. 4 : s[i] = t[4 + 1 - i]
  BY <1>2, <1>3
<1> QED
  BY <1>1, <1>2, <1>3, <1>4, <1>5 DEF Listed

LEMMA ListFive ==
  ASSUME NEW f, NEW v \in Statement, NEW w \in Statement, NEW x \in Statement,
         NEW y \in Statement, NEW z \in Statement,
         Left[f.op] = <<z, y, x, w, v>>, f.todo = <<v, w, x, y, z>>
  PROVE  Listed(f) /\ Len(f.todo) = Len(Left[f.op])
<1> DEFINE s == <<v, w, x, y, z>>
           t == <<z, y, x, w, v>>
<1>1. s \in Seq(Statement)
  OBVIOUS
<1>2. Len(s) = 5 /\ s[1] = v /\ s[2] = w /\ s[3] = x /\ s[4] = y /\ s[5] = z
  OBVIOUS
<1>3. Len(t) = 5 /\ t[1] = z /\ t[2] = y /\ t[3] = x /\ t[4] = w /\ t[5] = v
  OBVIOUS
<1>4. f.todo = s /\ Left[f.op] = t
  OBVIOUS
<1> HIDE DEF s, t
<1>5. \A i \in 1 .. 5 : s[i] = t[5 + 1 - i]
  BY <1>2, <1>3
<1> QED
  BY <1>1, <1>2, <1>3, <1>4, <1>5 DEF Listed

\* What a new call looks like.
New(op, s, arg, todo) ==
    [op |-> op, on |-> s, arg |-> arg, todo |-> todo, result |-> "running",
     before |-> NoRow, after |-> NoRow, stamp |-> Len(history[s]) + 1,
     gone |-> Gone(op, s, arg)]

\* How many statements the calls have that may be stopped, and are told apart.
LEMMA FullLength ==
  ASSUME NEW op \in Ops
  PROVE  /\ Len(Left[op]) \in Nat
         /\ op \in {"add", "set", "drop", "serve", "status"} => Len(Left[op]) = 3
         /\ op \in {"upload", "remove"} => Len(Left[op]) = 5
  BY DEF Ops, Left

\* A new call keeps the invariant.
LEMMA ArriveInv ==
  ASSUME IInv, NEW op \in Ops, NEW s, NEW arg, NEW todo, Arrive(op, s, arg, todo),
         Listed(New(op, s, arg, todo)), Len(todo) = Len(Left[op]),
         ArgOK(New(op, s, arg, todo)),
         op = "remove" => arg \in Made, op = "serve" => arg \in url
  PROVE  IInv'
<1> DEFINE e == New(op, s, arg, todo)
<1> PICK c : c = Len(call) + 1
  OBVIOUS
<1>1. /\ TypeOK /\ CallInv /\ PastOK /\ TableInv /\ GoneInv /\ ImageInv
      /\ TimeInv /\ DoneInv /\ ChangesAreTold /\ ListedInOrder /\ GoneStaysGone
  BY DEF IInv
<1>2. /\ s \in mix.skus /\ Len(call) < mix.calls /\ call' = Append(call, e)
      /\ past' = past \/ past' = [past EXCEPT !.mixed = @ \cup {s}]
      /\ UNCHANGED <<product, rate, image, file, history, url, now, mix>>
  BY DEF Arrive, New
<1>3. s \in Sku /\ Len(call) \in Nat /\ mix.calls \in Nat
  BY <1>1, <1>2, BoundAssumption DEF TypeOK, CallInv
<1>4. /\ e.op = op /\ e.on = s /\ e.arg = arg /\ e.todo = todo
      /\ e.result = "running" /\ e.stamp = Len(history[s]) + 1
      /\ e.gone = Gone(op, s, arg) /\ DOMAIN e = Fields
  BY DEF New, Fields
<1>5. Gone(op, s, arg) \in BOOLEAN
  BY DEF Gone, Live
<1>6. Len(history[s]) \in Nat
  BY <1>1, <1>3 DEF TableInv
<1> HIDE DEF e
<1>7. Flying(e) /\ Listed(e)
  BY <1>3, <1>4, <1>5, <1>6 DEF Flying, e
<1>8. todo \in Seq(Statement)
  BY <1>4, <1>7 DEF Listed
<1>9. /\ Len(call') = c /\ Made' = 1 .. c /\ Made = 1 .. Len(call)
      /\ call'[c] = e /\ \A d \in Made : call'[d] = call[d]
  BY <1>1, <1>2, <1>3 DEF TypeOK, Made
<1>10. Made' = Made \cup {c} /\ c \notin Made /\ c \in Nat
  BY <1>3, <1>9
<1>11. TypeOK'
  <2>1. /\ ProductOK' /\ RateOK' /\ ImageOK' /\ FileOK' /\ HistoryOK' /\ UrlOK'
    BY <1>1, <1>2, <1>10, Frames
  <2>2. \A d \in Made' : call'[d].todo \in Seq(Statement)
                         /\ call'[d].result \in {"running"} \cup Finished
    BY <1>1, <1>4, <1>8, <1>9, <1>10 DEF TypeOK
  <2>3. Made' = 1 .. Len(call') /\ Len(call') <= mix'.calls
    BY <1>2, <1>3, <1>9
  <2>4. mix' \in Mixes /\ now' \in 0 .. mix'.time
    BY <1>1, <1>2 DEF TypeOK
  <2> QED
    BY <2>1, <2>2, <2>3, <2>4
       DEF TypeOK, ProductOK, RateOK, ImageOK, FileOK, HistoryOK, UrlOK
<1>12. CallInv'
  <2>1. ASSUME NEW d \in Made'
        PROVE  /\ call'[d].op \in Ops
               /\ call'[d].result = "running" =>
                     /\ Flying(call'[d])
                     /\ call'[d].op = "remove" => call'[d].arg \in Made'
                     /\ call'[d].op = "serve" => call'[d].arg \in url'
    <3> HIDE DEF Ops
    <3>1. CASE d = c
      BY <1>2, <1>4, <1>7, <1>9, <1>10, <3>1
    <3>2. CASE d # c
      BY <1>1, <1>2, <1>9, <1>10, <3>2 DEF CallInv
    <3> QED
      BY <3>1, <3>2
  <2>2. Len(call') \in Nat
    BY <1>9, <1>10
  <2> QED
    BY <2>1, <2>2 DEF CallInv, Flying, Listed, ArgOK
<1>13. /\ PastOK' /\ past'.done = past.done /\ past'.told = past.told
       /\ past'.late = {}
  BY <1>1, <1>2, <1>3, <1>10 DEF PastOK, GoneStaysGone
<1>14. past.done \subseteq Made
  BY <1>1 DEF PastOK
<1>15. ASSUME NEW d \in Running', d # c
       PROVE  /\ d \in Running /\ d \in Made /\ call'[d] = call[d]
              /\ Todo(d)' = Todo(d)
  BY <1>9, <1>10, <1>15 DEF Running, Todo
<1>16. call'[c] = e /\ e.todo = todo
  BY <1>4, <1>9
<1>17. /\ Len(todo) \in Nat
       /\ op \in {"add", "set", "drop", "serve", "status"} => Len(todo) = 3
       /\ op \in {"upload", "remove"} => Len(todo) = 5
  BY FullLength
<1>18. ASSUME NEW d, d = c
       PROVE  /\ call'[d].op = op /\ Todo(d)' \in Nat
              /\ op \in {"add", "set", "drop", "serve", "status"} => Todo(d)' = 3
              /\ op \in {"upload", "remove"} => Todo(d)' = 5
  <2>1. call'[d] = e /\ e.todo = todo /\ e.op = op
    BY <1>4, <1>16, <1>18
  <2>2. Todo(d)' = Len(todo)
    BY <2>1 DEF Todo
  <2> QED
    BY <1>17, <2>1, <2>2
<1>19. GoneInv'
  <2> SUFFICES ASSUME NEW d \in Running', call'[d].gone
               PROVE  IF call'[d].op = "serve"
                      THEN /\ Todo(d)' >= 2
                           /\ \A i \in image' : i.id # call'[d].arg.image
                      ELSE /\ Dead(call[d].on)'
                           /\ call'[d].op \in {"add", "set", "drop"} => Todo(d)' = 3
                           /\ call'[d].op \in {"upload", "remove"} => Todo(d)' = 5
    BY DEF GoneInv, Dead
  <2>1. CASE d = c
    <3>1. Gone(op, s, arg)
      BY <1>4, <1>16, <2>1
    <3>2. op # "serve" => Dead(s)
      BY <3>1 DEF Gone, Live, Dead
    <3>3. op = "serve" => \A i \in image : i.id # arg.image
      BY <3>1 DEF Gone
    <3> QED
      BY <1>2, <1>4, <1>16, <1>18, <2>1, <3>2, <3>3 DEF Dead
  <2>2. CASE d # c
    <3>1. d \in Running /\ call'[d] = call[d] /\ Todo(d)' = Todo(d)
      BY <1>15, <2>2
    <3>2. IF call[d].op = "serve"
          THEN /\ Todo(d) >= 2
               /\ \A i \in image : i.id # call[d].arg.image
          ELSE /\ Dead(call[d].on)
               /\ call[d].op \in {"add", "set", "drop"} => Todo(d) = 3
               /\ call[d].op \in {"upload", "remove"} => Todo(d) = 5
      BY <1>1, <3>1 DEF GoneInv
    <3> QED
      BY <1>2, <3>1, <3>2 DEF Dead
  <2> QED
    BY <2>1, <2>2
<1>20. \A d \in Made : Pending(d)' => Pending(d)
  BY <1>9 DEF Pending, Todo
<1>21. ImageInv'
  <2>1. RowHasFile'
    BY <1>1, <1>2 DEF ImageInv, RowHasFile, Files
  <2>2. \A i \in image' : ~Pending(i.id)'
    BY <1>1, <1>2, <1>20 DEF ImageInv, TypeOK
  <2>3. \A u \in url' : ~Pending(u.image)'
    BY <1>1, <1>2, <1>20 DEF ImageInv, TypeOK
  <2>4. ASSUME NEW d \in Running'
        PROVE  /\ call'[d].op = "remove" /\ Todo(d)' <= 3 => ~Pending(call[d].arg)'
               /\ call'[d].op = "remove" /\ Todo(d)' <= 2 =>
                     \A i \in image' : i.id # call'[d].arg
               /\ call'[d].op = "upload" /\ Todo(d)' = 2 =>
                     d \in Files' /\ file'[d] = "whole"
    <3>1. CASE d = c
      BY <1>18, <3>1
    <3>2. CASE d # c
      <4>1. /\ d \in Running /\ call'[d] = call[d] /\ Todo(d)' = Todo(d)
        BY <1>15, <3>2
      <4>2. call[d].op = "remove" => call[d].arg \in Made
        BY <1>1, <4>1, RunningFacts DEF CallInv
      <4> QED
        BY <1>1, <1>2, <1>20, <4>1, <4>2 DEF ImageInv, Files
    <3> QED
      BY <3>1, <3>2
  <2> QED
    BY <2>1, <2>2, <2>3, <2>4 DEF ImageInv
<1>22. TimeInv'
  <2> SUFFICES ASSUME NEW d \in Running', call'[d].op = "serve", Todo(d)' <= 2
               PROVE  /\ call'[d].stamp <= call'[d].arg.exp
                      /\ call'[d].arg.exp <= call'[d].stamp + Ttl
    BY <1>1, <1>2 DEF TimeInv
  <2>1. d # c
    BY <1>18
  <2> QED
    BY <1>1, <1>15, <2>1 DEF TimeInv
<1>23. DoneInv'
  <2> SUFFICES ASSUME NEW d \in Running'
               PROVE  /\ d \in past'.done => Changed(call'[d].op, Todo(d)')
                      /\ call'[d].op = "status" /\ Todo(d)' = 1 => d \in past'.told
    BY DEF DoneInv, Changed
  <2>1. CASE d = c
    <3>1. d \notin past'.done
      BY <1>10, <1>13, <1>14, <2>1
    <3>2. ~(call'[d].op = "status" /\ Todo(d)' = 1)
      BY <1>18, <2>1
    <3> QED
      BY <3>1, <3>2
  <2>2. CASE d # c
    BY <1>1, <1>13, <1>15, <2>2 DEF DoneInv
  <2> QED
    BY <2>1, <2>2
<1>24. ChangesAreTold'
  BY <1>1, <1>9, <1>13, <1>14 DEF ChangesAreTold
<1>25. ListedInOrder' /\ GoneStaysGone'
  BY <1>1, <1>2, <1>13 DEF ListedInOrder, GoneStaysGone
<1>26. TableInv'
  <2>1. \A d \in Running' : call'[d].op = "import" =>
           call'[d].stamp <= Len(history'[call'[d].on]) + 1
    <3> TAKE d \in Running'
    <3>1. CASE d = c
      BY <1>2, <1>4, <1>6, <1>16, <3>1
    <3>2. CASE d # c
      BY <1>1, <1>2, <1>15, <3>2 DEF TableInv
    <3> QED
      BY <3>1, <3>2
  <2> QED
    BY <1>1, <1>2, <2>1 DEF TableInv
<1> QED
  BY <1>11, <1>12, <1>13, <1>19, <1>21, <1>22, <1>23, <1>24, <1>25, <1>26 DEF IInv

\* Calls of one, three, four and five statements.
LEMMA ArriveOne ==
  ASSUME IInv, NEW op \in Ops, NEW s, NEW arg,
         NEW x \in Statement,
         Left[op] = <<x>>,
         Arrive(op, s, arg, <<x>>),
         op \in {"status", "import"} => arg \in BOOLEAN,
         op = "add" => arg \in State,
         op = "remove" => arg \in Made, op = "serve" => arg \in url
  PROVE  IInv'
<1> DEFINE todo == <<x>>
           f == New(op, s, arg, todo)
<1>1. f.op = op /\ f.arg = arg /\ f.todo = todo
  BY DEF New
<1>2. Listed(f) /\ Len(f.todo) = Len(Left[f.op])
  <2> HIDE DEF f
  <2> QED
    BY <1>1, ListOne
<1>3. ArgOK(f)
  BY <1>1 DEF ArgOK
<1>4. Arrive(op, s, arg, todo) /\ Len(todo) = Len(Left[op])
  BY <1>1, <1>2
<1> HIDE DEF todo
<1> QED
  BY <1>2, <1>3, <1>4, ArriveInv

LEMMA ArriveThree ==
  ASSUME IInv, NEW op \in Ops, NEW s, NEW arg,
         NEW x \in Statement, NEW y \in Statement, NEW z \in Statement,
         Left[op] = <<z, y, x>>,
         Arrive(op, s, arg, <<x, y, z>>),
         op \in {"status", "import"} => arg \in BOOLEAN,
         op = "add" => arg \in State,
         op = "remove" => arg \in Made, op = "serve" => arg \in url
  PROVE  IInv'
<1> DEFINE todo == <<x, y, z>>
           f == New(op, s, arg, todo)
<1>1. f.op = op /\ f.arg = arg /\ f.todo = todo
  BY DEF New
<1>2. Listed(f) /\ Len(f.todo) = Len(Left[f.op])
  <2> HIDE DEF f
  <2> QED
    BY <1>1, ListThree
<1>3. ArgOK(f)
  BY <1>1 DEF ArgOK
<1>4. Arrive(op, s, arg, todo) /\ Len(todo) = Len(Left[op])
  BY <1>1, <1>2
<1> HIDE DEF todo
<1> QED
  BY <1>2, <1>3, <1>4, ArriveInv

LEMMA ArriveFour ==
  ASSUME IInv, NEW op \in Ops, NEW s, NEW arg,
         NEW w \in Statement, NEW x \in Statement, NEW y \in Statement,
         NEW z \in Statement,
         Left[op] = <<z, y, x, w>>,
         Arrive(op, s, arg, <<w, x, y, z>>),
         op \in {"status", "import"} => arg \in BOOLEAN,
         op = "add" => arg \in State,
         op = "remove" => arg \in Made, op = "serve" => arg \in url
  PROVE  IInv'
<1> DEFINE todo == <<w, x, y, z>>
           f == New(op, s, arg, todo)
<1>1. f.op = op /\ f.arg = arg /\ f.todo = todo
  BY DEF New
<1>2. Listed(f) /\ Len(f.todo) = Len(Left[f.op])
  <2> HIDE DEF f
  <2> QED
    BY <1>1, ListFour
<1>3. ArgOK(f)
  BY <1>1 DEF ArgOK
<1>4. Arrive(op, s, arg, todo) /\ Len(todo) = Len(Left[op])
  BY <1>1, <1>2
<1> HIDE DEF todo
<1> QED
  BY <1>2, <1>3, <1>4, ArriveInv

LEMMA ArriveFive ==
  ASSUME IInv, NEW op \in Ops, NEW s, NEW arg,
         NEW v \in Statement, NEW w \in Statement, NEW x \in Statement,
         NEW y \in Statement, NEW z \in Statement,
         Left[op] = <<z, y, x, w, v>>,
         Arrive(op, s, arg, <<v, w, x, y, z>>),
         op \in {"status", "import"} => arg \in BOOLEAN,
         op = "add" => arg \in State,
         op = "remove" => arg \in Made, op = "serve" => arg \in url
  PROVE  IInv'
<1> DEFINE todo == <<v, w, x, y, z>>
           f == New(op, s, arg, todo)
<1>1. f.op = op /\ f.arg = arg /\ f.todo = todo
  BY DEF New
<1>2. Listed(f) /\ Len(f.todo) = Len(Left[f.op])
  <2> HIDE DEF f
  <2> QED
    BY <1>1, ListFive
<1>3. ArgOK(f)
  BY <1>1 DEF ArgOK
<1>4. Arrive(op, s, arg, todo) /\ Len(todo) = Len(Left[op])
  BY <1>1, <1>2
<1> HIDE DEF todo
<1> QED
  BY <1>2, <1>3, <1>4, ArriveInv

\* Every call arrives with such a list.
LEMMA EditArrives ==
  ASSUME IInv, Edit \/ Import
  PROVE  IInv'
<1>1. ASSUME NEW s \in Sku,
             Arrive("create", s, <<>>, <<"insert", "after", "record">>)
      PROVE  IInv'
  <2>1. "create" \in Ops /\ Left["create"] = <<"record", "after", "insert">>
    BY DEF Ops, Left
  <2>2. {"insert", "after", "record"} \subseteq Statement
    BY DEF Statement
  <2> QED
    BY <1>1, <2>1, <2>2, ArriveThree
<1>2. ASSUME NEW s \in Sku,
             Arrive("update", s, <<>>, <<"exists", "before", "update", "after", "record">>)
      PROVE  IInv'
  <2>1. "update" \in Ops /\ Left["update"] = <<"record", "after", "update", "before", "exists">>
    BY DEF Ops, Left
  <2>2. {"exists", "before", "update", "after", "record"} \subseteq Statement
    BY DEF Statement
  <2> QED
    BY <1>2, <2>1, <2>2, ArriveFive
<1>3. ASSUME NEW s \in Sku,
             Arrive("delete", s, <<>>, <<"before", "delete", "record">>)
      PROVE  IInv'
  <2>1. "delete" \in Ops /\ Left["delete"] = <<"record", "delete", "before">>
    BY DEF Ops, Left
  <2>2. {"before", "delete", "record"} \subseteq Statement
    BY DEF Statement
  <2> QED
    BY <1>3, <2>1, <2>2, ArriveThree
<1>4. ASSUME NEW s \in Sku, NEW on \in BOOLEAN,
             Arrive("status", s, on, <<"shelf", "record", "notify">>)
      PROVE  IInv'
  <2>1. "status" \in Ops /\ Left["status"] = <<"notify", "record", "shelf">>
    BY DEF Ops, Left
  <2>2. {"shelf", "record", "notify"} \subseteq Statement
    BY DEF Statement
  <2> QED
    BY <1>4, <2>1, <2>2, ArriveThree
<1>5. ASSUME NEW s \in Sku, NEW on \in BOOLEAN,
             Arrive("import", s, on, <<"begin", "before", "upsert", "commit">>)
      PROVE  IInv'
  <2>1. "import" \in Ops /\ Left["import"] = <<"commit", "upsert", "before", "begin">>
    BY DEF Ops, Left
  <2>2. {"begin", "before", "upsert", "commit"} \subseteq Statement
    BY DEF Statement
  <2> QED
    BY <1>5, <2>1, <2>2, ArriveFour
<1> QED
  BY <1>1, <1>2, <1>3, <1>4, <1>5 DEF Edit, Import

LEMMA OtherArrives ==
  ASSUME IInv, TaxRate \/ Image \/ Look
  PROVE  IInv'
<1>1. ASSUME NEW s \in Sku, NEW st \in State,
             Arrive("add", s, st, <<"exists", "rate", "record">>)
      PROVE  IInv'
  <2>1. "add" \in Ops /\ Left["add"] = <<"record", "rate", "exists">>
    BY DEF Ops, Left
  <2>2. {"exists", "rate", "record"} \subseteq Statement
    BY DEF Statement
  <2> QED
    BY <1>1, <2>1, <2>2, ArriveThree
<1>2. ASSUME NEW s \in Sku, NEW r \in rate,
             Arrive("set", s, r.id, <<"exists", "rerate", "record">>)
      PROVE  IInv'
  <2>1. "set" \in Ops /\ Left["set"] = <<"record", "rerate", "exists">>
    BY DEF Ops, Left
  <2>2. {"exists", "rerate", "record"} \subseteq Statement
    BY DEF Statement
  <2> QED
    BY <1>2, <2>1, <2>2, ArriveThree
<1>3. ASSUME NEW s \in Sku, NEW r \in rate,
             Arrive("drop", s, r.id, <<"exists", "unrate", "record">>)
      PROVE  IInv'
  <2>1. "drop" \in Ops /\ Left["drop"] = <<"record", "unrate", "exists">>
    BY DEF Ops, Left
  <2>2. {"exists", "unrate", "record"} \subseteq Statement
    BY DEF Statement
  <2> QED
    BY <1>3, <2>1, <2>2, ArriveThree
<1>4. ASSUME NEW s \in Sku,
             Arrive("upload", s, <<>>, <<"exists", "file", "bytes", "row", "record">>)
      PROVE  IInv'
  <2>1. "upload" \in Ops /\ Left["upload"] = <<"record", "row", "bytes", "file", "exists">>
    BY DEF Ops, Left
  <2>2. {"exists", "file", "bytes", "row", "record"} \subseteq Statement
    BY DEF Statement
  <2> QED
    BY <1>4, <2>1, <2>2, ArriveFive
<1>5. ASSUME NEW s \in Sku, NEW i \in DOMAIN file,
             Arrive("remove", s, i, <<"exists", "find", "unrow", "unfile", "record">>)
      PROVE  IInv'
  <2>1. "remove" \in Ops /\ Left["remove"] = <<"record", "unfile", "unrow", "find", "exists">>
    BY DEF Ops, Left
  <2>2. {"exists", "find", "unrow", "unfile", "record"} \subseteq Statement
    BY DEF Statement
  <2>3. i \in Made
    BY DEF IInv, TypeOK
  <2> QED
    BY <1>5, <2>3, <2>1, <2>2, ArriveFive
<1>6. ASSUME NEW s \in Sku,
             Arrive("detail", s, <<>>, <<"detail">>)
      PROVE  IInv'
  <2>1. "detail" \in Ops /\ Left["detail"] = <<"detail">>
    BY DEF Ops, Left
  <2>2. {"detail"} \subseteq Statement
    BY DEF Statement
  <2> QED
    BY <1>6, <2>1, <2>2, ArriveOne
<1>7. ASSUME NEW s \in Sku, NEW u \in url,
             Arrive("serve", s, u, <<"verify", "fetch", "read">>)
      PROVE  IInv'
  <2>1. "serve" \in Ops /\ Left["serve"] = <<"read", "fetch", "verify">>
    BY DEF Ops, Left
  <2>2. {"verify", "fetch", "read"} \subseteq Statement
    BY DEF Statement
  <2> QED
    BY <1>7, <2>1, <2>2, ArriveThree
<1> QED
  BY <1>1, <1>2, <1>3, <1>4, <1>5, <1>6, <1>7 DEF TaxRate, Image, Look

-----------------------------------------------------------------------------
(* Time, the invariant and the theorems *)

\* A step of no call: what is known of the calls and the tables stays.
LEMMA StillInv ==
  ASSUME IInv, UNCHANGED <<product, rate, image, file, history, call, url, mix, past>>
  PROVE  /\ CallInv' /\ PastOK' /\ TableInv' /\ GoneInv' /\ ImageInv' /\ DoneInv'
         /\ ChangesAreTold' /\ ListedInOrder' /\ GoneStaysGone'
<1>1. Made' = Made /\ Running' = Running
  BY DEF Made, Running
<1>2. CallInv'
  BY <1>1 DEF IInv, CallInv, Flying, Listed, ArgOK
<1>3. PastOK' /\ TableInv' /\ ListedInOrder' /\ GoneStaysGone'
  BY <1>1 DEF IInv, PastOK, TableInv, ListedInOrder, GoneStaysGone
<1>4. GoneInv'
  BY <1>1 DEF IInv, GoneInv, Dead, Todo
<1>5. ImageInv'
  BY <1>1 DEF IInv, ImageInv, RowHasFile, Files, Pending, Todo
<1>6. DoneInv' /\ ChangesAreTold'
  BY <1>1 DEF IInv, DoneInv, ChangesAreTold, Changed, Todo
<1> QED
  BY <1>2, <1>3, <1>4, <1>5, <1>6

LEMMA TickInv ==
  ASSUME IInv, Tick
  PROVE  IInv'
<1>1. /\ UNCHANGED <<product, rate, image, file, history, call, url, mix, past>>
      /\ now < mix.time /\ now' = now + 1
  BY DEF Tick
<1>2. now \in Nat /\ mix \in Mixes /\ mix.time \in Nat
  BY BoundAssumption DEF IInv, TypeOK
<1>3. TypeOK'
  <2>1. now' \in 0 .. mix'.time
    BY <1>1, <1>2
  <2>2. Made' = Made
    BY <1>1 DEF Made
  <2> QED
    BY <1>1, <2>1, <2>2 DEF IInv, TypeOK, Row
<1>4. TimeInv'
  <2>1. \A u \in url' : u.exp <= now' + Ttl
    <3> SUFFICES ASSUME NEW u \in url PROVE u.exp <= now + 1 + Ttl
      BY <1>1
    <3>1. u.exp \in Nat /\ u.exp <= now + Ttl
      BY DEF IInv, TimeInv, TypeOK
    <3> QED
      BY <1>2, <3>1, TtlAssumption
  <2>2. Running' = Running
    BY <1>1 DEF Running, Made
  <2> QED
    BY <1>1, <2>1, <2>2 DEF IInv, TimeInv, Todo
<1> QED
  BY <1>1, <1>3, <1>4, StillInv DEF IInv

LEMMA InitIInv == Init => IInv
<1> SUFFICES ASSUME Init PROVE IInv
  OBVIOUS
<1>1. PICK there \in SUBSET mix.skus :
         /\ product = [s \in Sku |-> IF s \in there
                         THEN [val |-> Seed, shelf |-> TRUE, deleted |-> FALSE]
                         ELSE NoRow]
         /\ history = [s \in Sku |-> IF s \in there
                         THEN <<[call |-> Seed, op |-> "create", stamp |-> 1,
                                 before |-> NoRow, after |-> <<Seed, TRUE>>]>>
                         ELSE <<>>]
  BY DEF Init
<1>2. /\ mix \in Mixes /\ rate = {} /\ image = {} /\ file = <<>>
      /\ call = <<>> /\ url = {} /\ now = 0
      /\ past = [mixed |-> {}, told |-> {}, done |-> {}, late |-> {}]
  BY DEF Init
<1>3. Made = {} /\ Len(call) = 0 /\ Made = 1 .. Len(call) /\ Running = {}
  BY <1>2 DEF Made, Running
<1>4. mix.calls \in Nat /\ mix.time \in Nat
  BY <1>2, BoundAssumption
<1>5. \A s \in Sku : product[s] \in Row \cup {NoRow}
  <2>1. [val |-> Seed, shelf |-> TRUE, deleted |-> FALSE] \in Row
    BY DEF Row
  <2> QED
    BY <1>1, <2>1
<1>6. \A s \in Sku : /\ Len(history[s]) \in Nat
                     /\ DOMAIN history[s] = 1 .. Len(history[s])
                     /\ \A i \in DOMAIN history[s] :
                           /\ history[s][i].call = Seed /\ i = 1
                           /\ history[s][i].stamp = 1 /\ Len(history[s]) = 1
  <2> TAKE s \in Sku
  <2> DEFINE e == [call |-> Seed, op |-> "create", stamp |-> 1,
                   before |-> NoRow, after |-> <<Seed, TRUE>>]
  <2>1. e.call = Seed /\ e.stamp = 1
    OBVIOUS
  <2>2. history[s] = <<e>> \/ history[s] = <<>>
    BY <1>1
  <2> HIDE DEF e
  <2>3. CASE history[s] = <<e>>
    BY <2>1, <2>3
  <2>4. CASE history[s] = <<>>
    BY <2>4
  <2> QED
    BY <2>2, <2>3, <2>4
<1>7. TypeOK
  <2>1. /\ rate \subseteq [id : Made, sku : Sku, state : State, val : Made]
        /\ image \subseteq [id : Made, sku : Sku]
        /\ url \subseteq [image : Made, exp : Nat] /\ DOMAIN file = {}
    BY <1>2
  <2>2. \A s \in Sku : \A i \in DOMAIN history[s] :
           LET h == history[s][i] IN
           h.call \in Made \cup {Seed} /\ h.stamp <= Len(history[s])
    BY <1>6
  <2>3. now \in 0 .. mix.time /\ Len(call) <= mix.calls
    BY <1>2, <1>3, <1>4
  <2> QED
    BY <1>2, <1>3, <1>5, <2>1, <2>2, <2>3 DEF TypeOK
<1>8. CallInv
  BY <1>3 DEF CallInv
<1>9. PastOK
  BY <1>2 DEF PastOK
<1>10. TableInv
  <2>1. DOMAIN product = Sku /\ DOMAIN history = Sku
    BY <1>1
  <2> QED
    BY <1>3, <1>6, <2>1 DEF TableInv
<1>11. GoneInv /\ DoneInv
  BY <1>3 DEF GoneInv, DoneInv
<1>12. ImageInv /\ TimeInv
  BY <1>2, <1>3 DEF ImageInv, TimeInv, RowHasFile
<1>13. ChangesAreTold /\ GoneStaysGone
  BY <1>2 DEF ChangesAreTold, GoneStaysGone
<1>14. ListedInOrder
  BY <1>6 DEF ListedInOrder
<1> QED
  BY <1>7, <1>8, <1>9, <1>10, <1>11, <1>12, <1>13, <1>14 DEF IInv

\* Every step keeps the invariant.
LEMMA NextInv == IInv /\ [Next]_vars => IInv'
<1> SUFFICES ASSUME IInv, [Next]_vars PROVE IInv'
  OBVIOUS
<1>1. CASE Edit \/ Import
  BY <1>1, EditArrives
<1>2. CASE TaxRate \/ Image \/ Look
  BY <1>2, OtherArrives
<1>3. CASE Tick
  BY <1>3, TickInv
<1>4. ASSUME NEW c \in Made,
             \/ Exists(c) \/ Before(c) \/ After(c) \/ Insert(c) \/ Update(c)
             \/ Begin(c) \/ Upsert(c) \/ Commit(c) \/ AddRate(c) \/ ChangeRate(c)
             \/ Record(c) \/ Notify(c) \/ WriteFile(c) \/ InsertImage(c)
             \/ FindImage(c) \/ DeleteImage(c) \/ RemoveFile(c) \/ Detail(c)
             \/ Verify(c) \/ Fetch(c) \/ Read(c) \/ Cut(c)
      PROVE  IInv'
  <2>1. CASE \/ Exists(c) \/ Before(c) \/ After(c) \/ Begin(c)
             \/ Notify(c) \/ FindImage(c)
    BY <2>1, LookInv
  <2>2. CASE Insert(c) \/ Update(c)
    BY <2>2, ProductInv
  <2>3. CASE Upsert(c) \/ Cut(c)
    BY <2>3, MarkInv
  <2>4. CASE Commit(c)
    BY <2>4, CommitInv
  <2>5. CASE AddRate(c) \/ ChangeRate(c)
    BY <2>5, RateInv
  <2>6. CASE Record(c)
    BY <2>6, RecordInv
  <2>7. CASE WriteFile(c) \/ RemoveFile(c)
    BY <2>7, FileInv
  <2>8. CASE InsertImage(c) \/ DeleteImage(c)
    BY <2>8, ImageRowInv
  <2>9. CASE Detail(c)
    BY <2>9, DetailInv
  <2>10. CASE Verify(c) \/ Fetch(c) \/ Read(c)
    BY <2>10, ServeInv
  <2> QED
    BY <1>4, <2>1, <2>2, <2>3, <2>4, <2>5, <2>6, <2>7, <2>8, <2>9, <2>10
<1>5. CASE UNCHANGED vars
  <2>1. UNCHANGED <<product, rate, image, file, history, call, url, now, mix, past>>
    BY <1>5 DEF vars
  <2>2. TypeOK'
    BY <2>1 DEF IInv, TypeOK, Row, Made
  <2>3. TimeInv'
    BY <2>1 DEF IInv, TimeInv, Running, Made, Todo
  <2> QED
    BY <2>1, <2>2, <2>3, StillInv DEF IInv
<1> QED
  BY <1>1, <1>2, <1>3, <1>4, <1>5 DEF Next

\* The inductive invariant holds in every reachable state.
THEOREM Inductive == Spec => []IInv
<1>1. Init => IInv
  BY InitIInv
<1>2. IInv /\ [Next]_vars => IInv'
  BY NextInv
<1> QED
  BY <1>1, <1>2, PTL DEF Spec

\* A call that came after its product or image was deleted neither changes the
\* product, its rates and its images nor gets the image.
THEOREM GoneIsGone == Spec => []GoneStaysGone
<1>1. IInv => GoneStaysGone
  BY DEF IInv
<1> QED
  BY <1>1, Inductive, PTL

\* The row of an image promises a whole file, and a link is good for no longer
\* than its lifetime, wherever uploads, removals and requests were cut short.
THEOREM ImagesAreHeld == Spec => []ImagesHold
<1>1. IInv => RowHasFile
  BY DEF IInv, ImageInv
<1>2. ASSUME IInv, NEW c \in Running, call[c].op = "serve", call[c].todo[1] # "verify"
      PROVE  /\ call[c].stamp <= call[c].arg.exp
             /\ call[c].arg.exp <= call[c].stamp + Ttl
  <2> DEFINE op == call[c].op
             n == Todo(c)
             s == Head(call[c].todo)
  <2>1. /\ op \in Ops /\ n \in 1 .. Len(Left[op]) /\ s = Left[op][n]
        /\ n \in Nat \ {0} /\ call[c].todo \in Seq(Statement) /\ call[c].todo # <<>>
    BY <1>2, RunningFacts DEF IInv
  <2>2. s = call[c].todo[1] /\ op = "serve"
    BY <1>2, <2>1, TailFacts
  <2>3. s # "verify"
    BY <1>2, <2>2
  <2> HIDE DEF op, n, s
  <2>4. n <= 3
    <3>1. Len(Left[op]) = 3
      BY <2>1, <2>2, FullLength
    <3> QED
      BY <2>1, <3>1
  <2>5. n = 3 => s = "verify"
    <3>1. Left[op][3] = "verify"
      BY <2>2 DEF Left
    <3> QED
      BY <2>1, <3>1
  <2>6. n <= 2
    BY <2>1, <2>3, <2>4, <2>5
  <2> QED
    BY <1>2, <2>2, <2>6 DEF IInv, TimeInv, n
<1>3. IInv => ImagesHold
  BY <1>1, <1>2 DEF ImagesHold, ServedInTime
<1> QED
  BY <1>3, Inductive, PTL

-----------------------------------------------------------------------------
(* What the records of a product lead to *)

\* The least of a set of numbers, which stands for induction: of the numbers
\* for which a claim fails, take the first.
LEMMA Least == \A T \in SUBSET Nat : T # {} => \E n \in T : \A m \in T : n <= m
<1>1. PICK R : /\ IsWellFoundedOn(R, Nat)
               /\ \A m, n \in Nat : <<m, n>> \in R <=> m < n
  <2>1. \A m, n \in Nat : <<m, n>> \in OpToRel(<, Nat) <=> m < n
    BY DEF OpToRel
  <2> QED
    BY <2>1, NatLessThanWellFounded
<1>2. SUFFICES ASSUME NEW T \in SUBSET Nat, T # {}
               PROVE  \E n \in T : \A m \in T : n <= m
  OBVIOUS
<1>3. T \subseteq Nat /\ IsWellFoundedOn(R, Nat)
  BY <1>1
<1>4. \E n \in T : \A m \in T : ~(<<m, n>> \in R)
  BY <1>2, <1>3, WFMin
<1>5. \A m, n \in Nat : n <= m \/ m < n
  OBVIOUS
<1> QED
  BY <1>1, <1>3, <1>4, <1>5

\* f has what the first n records of h lead to, one after the other.
Steps(h, n, f) ==
    f = [i \in 0..n |-> IF i = 0 THEN NoRow ELSE Replay(h[i], f[i - 1])]

LEMMA ReplayExists ==
  ASSUME NEW h, NEW n \in Nat
  PROVE  \E f : Steps(h, n, f)
<1> DEFINE T == {i \in Nat : ~\E f : Steps(h, i, f)}
<1>1. SUFFICES ASSUME T # {} PROVE FALSE
  OBVIOUS
<1>2. PICK k \in T : \A m \in T : k <= m
  BY <1>1, Least
<1>3. CASE k = 0
  <2>1. Steps(h, 0, [i \in 0..0 |-> NoRow])
    BY DEF Steps
  <2> QED
    BY <1>3, <2>1
<1>4. CASE k # 0
  <2>1. k - 1 \in Nat /\ k - 1 \notin T /\ k \in Nat
    BY <1>2, <1>4
  <2>2. PICK f : Steps(h, k - 1, f)
    BY <2>1
  <2>3. PICK g : g = [i \in 0..k |-> IF i = k THEN Replay(h[k], f[k - 1]) ELSE f[i]]
    OBVIOUS
  <2>4. \A i \in 0..(k - 1) : f[i] = IF i = 0 THEN NoRow ELSE Replay(h[i], f[i - 1])
    BY <2>2 DEF Steps
  <2>5. \A i \in 0..k : g[i] = IF i = 0 THEN NoRow ELSE Replay(h[i], g[i - 1])
    <3>1. \A i \in 0..(k - 1) : i \in 0..k /\ i # k /\ g[i] = f[i]
      BY <2>1, <2>3
    <3>2. k \in 0..k /\ k - 1 \in 0..(k - 1) /\ g[k] = Replay(h[k], g[k - 1])
      BY <2>1, <2>3, <3>1
    <3>3. \A i \in 0..(k - 1) : i # 0 => i - 1 \in 0..(k - 1)
      BY <2>1
    <3>4. \A i \in 0..k : i = k \/ i \in 0..(k - 1)
      BY <2>1
    <3> QED
      BY <1>4, <2>4, <3>1, <3>2, <3>3, <3>4
  <2>6. Steps(h, k, g)
    <3>1. g = [i \in 0..k |-> g[i]]
      BY <2>3
    <3> QED
      BY <2>5, <3>1 DEF Steps
  <2> QED
    BY <1>2, <2>6
<1> QED
  BY <1>3, <1>4

\* Histories with the same first m records lead to the same by then.
LEMMA ReplaySame ==
  ASSUME NEW h, NEW g, NEW m \in Nat, NEW n \in Nat, m <= n,
         \A i \in 1..m : h[i] = g[i],
         NEW e, NEW f, Steps(h, m, e), Steps(g, n, f)
  PROVE  \A i \in 0..m : e[i] = f[i]
<1> DEFINE T == {i \in 0..m : e[i] # f[i]}
<1>1. SUFFICES ASSUME T # {} PROVE FALSE
  OBVIOUS
<1>2. PICK k \in T : \A i \in T : k <= i
  <2>1. T \in SUBSET Nat
    OBVIOUS
  <2> QED
    BY <1>1, <2>1, Least
<1>3. /\ \A i \in 0..m : e[i] = IF i = 0 THEN NoRow ELSE Replay(h[i], e[i - 1])
      /\ \A i \in 0..n : f[i] = IF i = 0 THEN NoRow ELSE Replay(g[i], f[i - 1])
  BY DEF Steps
<1>4. k # 0 /\ k \in 0..m /\ k \in 0..n /\ k \in 1..m
  BY <1>2, <1>3
<1>5. k - 1 \in 0..m /\ k - 1 \notin T
  BY <1>2, <1>4
<1>6. e[k] = f[k]
  BY <1>3, <1>4, <1>5
<1> QED
  BY <1>2, <1>6

LEMMA ReplayedIs ==
  ASSUME NEW h, Len(h) \in Nat
  PROVE  \E f : Steps(h, Len(h), f) /\ Replayed(h) = f[Len(h)]
<1>1. \E f : f = [i \in 0..Len(h) |-> IF i = 0 THEN NoRow ELSE Replay(h[i], f[i - 1])]
  BY ReplayExists DEF Steps
<1> DEFINE c == CHOOSE f : f = [i \in 0..Len(h) |->
                                   IF i = 0 THEN NoRow ELSE Replay(h[i], f[i - 1])]
<1>2. c = [i \in 0..Len(h) |-> IF i = 0 THEN NoRow ELSE Replay(h[i], c[i - 1])]
  BY <1>1
<1>3. Replayed(h) = c[Len(h)]
  BY DEF Replayed
<1> HIDE DEF c
<1> QED
  BY <1>2, <1>3 DEF Steps

\* A history without records leads to no row.
LEMMA ReplayedNone == Replayed(<<>>) = NoRow
<1> DEFINE h == <<>>
<1>1. Len(h) = 0
  OBVIOUS
<1> HIDE DEF h
<1>2. PICK f : Steps(h, 0, f) /\ Replayed(h) = f[0]
  BY <1>1, ReplayedIs
<1>3. f[0] = NoRow
  BY <1>2 DEF Steps
<1> QED
  BY <1>2, <1>3 DEF h

\* One more record is applied to what the others lead to.
LEMMA ReplayedAppend ==
  ASSUME NEW h, Len(h) \in Nat, DOMAIN h = 1 .. Len(h), NEW e
  PROVE  Replayed(Append(h, e)) = Replay(e, Replayed(h))
<1> DEFINE g == Append(h, e)
           n == Len(h)
<1>1. Len(g) = n + 1 /\ g[n + 1] = e /\ \A i \in 1..n : h[i] = g[i]
  OBVIOUS
<1>2. n \in Nat /\ n + 1 \in Nat /\ n <= n + 1 /\ n + 1 # 0 /\ n + 1 - 1 = n
      /\ n \in 0..n /\ n + 1 \in 0..(n + 1)
  OBVIOUS
<1>3. PICK f : Steps(h, n, f) /\ Replayed(h) = f[n]
  BY ReplayedIs
<1> HIDE DEF g, n
<1>4. PICK r : Steps(g, n + 1, r) /\ Replayed(g) = r[n + 1]
  BY <1>1, <1>2, ReplayedIs
<1>5. f[n] = r[n]
  BY <1>1, <1>2, <1>3, <1>4, ReplaySame
<1>6. r[n + 1] = Replay(g[n + 1], r[n])
  BY <1>2, <1>4 DEF Steps
<1> QED
  BY <1>1, <1>3, <1>4, <1>5, <1>6 DEF g

-----------------------------------------------------------------------------
(* What stands between the records of a product and its row *)

\* The calls that change the product s itself, and those of them whose change
\* is made and not yet told.
Editors(s) == {c \in On(s) : call[c].op \in Edits}
OwedAt(op, n) == Changed(op, n) /\ (op = "status" => n = 2)
Owed(c) == OwedAt(call[c].op, Todo(c))

\* The record that c is about to write tells the row as it is.
Fits(c, s) ==
    LET f == call[c]
        row == product[s] IN
    /\ f.op \in {"create", "update"} /\ Todo(c) = 1 => f.after = Shown(row)
    /\ f.op = "delete" => Shown(row) = Replayed(history[s])
    /\ f.op = "status" => /\ row # NoRow /\ f.after = <<row.shelf>>
                          /\ Replayed(history[s])[1] = row.val

DeleteTold(h) == \E i \in DOMAIN h : h[i].op = "delete"

\* One call changes the product at a time, an import that holds it is alone,
\* and the records lead to the row unless one is owed.
ReplayOf(s) ==
    /\ \A c, d \in Editors(s) : c = d
    /\ \A c \in On(s) : call[c].op = "import" /\ Todo(c) = 1 =>
          Editors(s) = {} /\ call[c].after = <<c, call[c].arg>>
    /\ Dead(s) <=> \/ DeleteTold(history[s])
                   \/ \E c \in Editors(s) : Owed(c) /\ call[c].op = "delete"
    /\ \/ Shown(product[s]) = Replayed(history[s])
       \/ \E c \in Editors(s) : Owed(c)
    /\ \A c \in Editors(s) : Owed(c) => c \in past.done \ past.told /\ Fits(c, s)

\* Of the calls that run, only a change of the flag has told it already.
ToldInv == \A c \in Running : c \in past.told => call[c].op = "status" /\ Todo(c) = 1

ReplayInv == ToldInv /\ \A s \in Sku : s \notin past.mixed => ReplayOf(s)

\* Where the calls that change a product owe their record.
LEMMA WhereEdit ==
  ASSUME NEW op \in Edits, NEW n \in 1 .. Len(Left[op])
  PROVE  LET s == Left[op][n] IN
         /\ s \in {"exists", "before", "notify"} => ~OwedAt(op, n) /\ ~OwedAt(op, n - 1)
         /\ s \in {"insert", "update", "delete", "shelf"} =>
               ~OwedAt(op, n) /\ OwedAt(op, n - 1) /\ n # 1
         /\ s = "after" => n = 2
         /\ s = "record" => OwedAt(op, n) /\ (n # 1 => ~OwedAt(op, n - 1))
         /\ s \in {"exists", "before", "notify", "insert", "update", "delete",
                   "shelf", "after", "record"}
<1> DEFINE s == Left[op][n]
<1>1. CASE op = "create"
  <2>1. /\ n = 1 => s = "record"
        /\ n = 2 => s = "after"
        /\ n = 3 => s = "insert"
        /\ n \in 1 .. 3
    BY <1>1 DEF Left
  <2>2. /\ OwedAt(op, n) <=> n <= 2
        /\ OwedAt(op, n - 1) <=> n - 1 <= 2
    BY <1>1 DEF OwedAt, Changed, After1, After2
  <2> HIDE DEF s
  <2>3. \/ n = 1 /\ n - 1 = 0
        \/ n = 2 /\ n - 1 = 1
        \/ n = 3 /\ n - 1 = 2
    BY <2>1
  <2>4. /\ s \in {"exists", "before", "notify"} => ~OwedAt(op, n) /\ ~OwedAt(op, n - 1)
        /\ s \in {"insert", "update", "delete", "shelf"} =>
              ~OwedAt(op, n) /\ OwedAt(op, n - 1) /\ n # 1
        /\ s = "after" => n = 2
        /\ s = "record" => OwedAt(op, n) /\ (n # 1 => ~OwedAt(op, n - 1))
        /\ s \in {"exists", "before", "notify", "insert", "update", "delete",
                  "shelf", "after", "record"}
    BY <2>1, <2>2, <2>3
  <2> QED
    BY <2>4 DEF s
<1>2. CASE op = "update"
  <2>1. /\ n = 1 => s = "record"
        /\ n = 2 => s = "after"
        /\ n = 3 => s = "update"
        /\ n = 4 => s = "before"
        /\ n = 5 => s = "exists"
        /\ n \in 1 .. 5
    BY <1>2 DEF Left
  <2>2. /\ OwedAt(op, n) <=> n <= 2
        /\ OwedAt(op, n - 1) <=> n - 1 <= 2
    BY <1>2 DEF OwedAt, Changed, After1, After2
  <2> HIDE DEF s
  <2>3. \/ n = 1 /\ n - 1 = 0
        \/ n = 2 /\ n - 1 = 1
        \/ n = 3 /\ n - 1 = 2
        \/ n = 4 /\ n - 1 = 3
        \/ n = 5 /\ n - 1 = 4
    BY <2>1
  <2>4. /\ s \in {"exists", "before", "notify"} => ~OwedAt(op, n) /\ ~OwedAt(op, n - 1)
        /\ s \in {"insert", "update", "delete", "shelf"} =>
              ~OwedAt(op, n) /\ OwedAt(op, n - 1) /\ n # 1
        /\ s = "after" => n = 2
        /\ s = "record" => OwedAt(op, n) /\ (n # 1 => ~OwedAt(op, n - 1))
        /\ s \in {"exists", "before", "notify", "insert", "update", "delete",
                  "shelf", "after", "record"}
    BY <2>1, <2>2, <2>3
  <2> QED
    BY <2>4 DEF s
<1>3. CASE op = "delete"
  <2>1. /\ n = 1 => s = "record"
        /\ n = 2 => s = "delete"
        /\ n = 3 => s = "before"
        /\ n \in 1 .. 3
    BY <1>3 DEF Left
  <2>2. /\ OwedAt(op, n) <=> n <= 1
        /\ OwedAt(op, n - 1) <=> n - 1 <= 1
    BY <1>3 DEF OwedAt, Changed, After1, After2
  <2> HIDE DEF s
  <2>3. \/ n = 1 /\ n - 1 = 0
        \/ n = 2 /\ n - 1 = 1
        \/ n = 3 /\ n - 1 = 2
    BY <2>1
  <2>4. /\ s \in {"exists", "before", "notify"} => ~OwedAt(op, n) /\ ~OwedAt(op, n - 1)
        /\ s \in {"insert", "update", "delete", "shelf"} =>
              ~OwedAt(op, n) /\ OwedAt(op, n - 1) /\ n # 1
        /\ s = "after" => n = 2
        /\ s = "record" => OwedAt(op, n) /\ (n # 1 => ~OwedAt(op, n - 1))
        /\ s \in {"exists", "before", "notify", "insert", "update", "delete",
                  "shelf", "after", "record"}
    BY <2>1, <2>2, <2>3
  <2> QED
    BY <2>4 DEF s
<1>4. CASE op = "status"
  <2>1. /\ n = 1 => s = "notify"
        /\ n = 2 => s = "record"
        /\ n = 3 => s = "shelf"
        /\ n \in 1 .. 3
    BY <1>4 DEF Left
  <2>2. /\ OwedAt(op, n) <=> n = 2
        /\ OwedAt(op, n - 1) <=> n - 1 = 2
    BY <1>4 DEF OwedAt, Changed, After1, After2
  <2> HIDE DEF s
  <2>3. \/ n = 1 /\ n - 1 = 0
        \/ n = 2 /\ n - 1 = 1
        \/ n = 3 /\ n - 1 = 2
    BY <2>1
  <2>4. /\ s \in {"exists", "before", "notify"} => ~OwedAt(op, n) /\ ~OwedAt(op, n - 1)
        /\ s \in {"insert", "update", "delete", "shelf"} =>
              ~OwedAt(op, n) /\ OwedAt(op, n - 1) /\ n # 1
        /\ s = "after" => n = 2
        /\ s = "record" => OwedAt(op, n) /\ (n # 1 => ~OwedAt(op, n - 1))
        /\ s \in {"exists", "before", "notify", "insert", "update", "delete",
                  "shelf", "after", "record"}
    BY <2>1, <2>2, <2>3
  <2> QED
    BY <2>4 DEF s
<1> QED
  BY <1>1, <1>2, <1>3, <1>4 DEF Edits

\* The calls on a product after one of them moved.
LEMMA OnMoved ==
  ASSUME TypeOK, CallInv, NEW c \in Running, Moved(c), NEW s
  PROVE  /\ \A d \in On(s)' : /\ d \in On(s) /\ call'[d].op = call[d].op
                              /\ call'[d].arg = call[d].arg
                              /\ Todo(d)' = (IF d = c THEN Todo(c) - 1 ELSE Todo(d))
                              /\ d # c => call'[d] = call[d]
         /\ \A d \in Editors(s)' : d \in Editors(s)
         /\ \A d \in On(s) \ {c} : d \in On(s)' /\ call'[d] = call[d] /\ Todo(d)' = Todo(d)
         /\ \A d \in Editors(s) \ {c} : d \in Editors(s)'
         /\ c \in Editors(s) /\ call'[c].result = "running" => c \in Editors(s)'
         /\ s # call[c].on => c \notin On(s) /\ c \notin On(s)'
<1>1. \A d \in Running' : /\ d \in Running /\ call'[d].op = call[d].op
                          /\ call'[d].on = call[d].on /\ call'[d].arg = call[d].arg
                          /\ Todo(d)' = (IF d = c THEN Todo(c) - 1 ELSE Todo(d))
                          /\ d # c => call'[d] = call[d]
  BY StillRunning
<1>2. \A d \in Running \ {c} : d \in Running' /\ call'[d] = call[d] /\ Todo(d)' = Todo(d)
  BY DEF Running, Moved, Todo
<1>3. call'[c].result = "running" => c \in Running'
  BY DEF Running, Moved
<1>4. On(s)' = {d \in Running' : call'[d].on = s}
  BY DEF On
<1>5. Editors(s)' = {d \in On(s)' : call'[d].op \in Edits}
  BY DEF Editors
<1>6. \A d \in On(s)' : /\ d \in On(s) /\ call'[d].op = call[d].op
                        /\ call'[d].arg = call[d].arg
                        /\ Todo(d)' = (IF d = c THEN Todo(c) - 1 ELSE Todo(d))
                        /\ d # c => call'[d] = call[d]
  BY <1>1, <1>4 DEF On
<1>7. \A d \in On(s) \ {c} : d \in On(s)' /\ call'[d] = call[d] /\ Todo(d)' = Todo(d)
  BY <1>2, <1>4 DEF On
<1>8. \A d \in Editors(s)' : d \in Editors(s)
  BY <1>5, <1>6 DEF Editors
<1>9. \A d \in Editors(s) \ {c} : d \in Editors(s)'
  BY <1>5, <1>7 DEF Editors
<1>10. c \in Editors(s) /\ call'[c].result = "running" => c \in Editors(s)'
  BY <1>1, <1>3, <1>4, <1>5 DEF Editors, On
<1>11. s # call[c].on => c \notin On(s) /\ c \notin On(s)'
  BY <1>1, <1>4 DEF On
<1> QED
  BY <1>6, <1>7, <1>8, <1>9, <1>10, <1>11

\* A step of c, after which the product has the row and the records as before,
\* and c owes a record neither before nor after.
LEMMA SameReplay ==
  ASSUME TypeOK, CallInv, NEW c \in Running, Moved(c), NEW s \in Sku, ReplayOf(s),
         past.done \subseteq past'.done, past'.told \subseteq past.told \cup {c},
         product'[s] = product[s],
         Replayed(history'[s]) = Replayed(history[s]),
         DeleteTold(history'[s]) <=> DeleteTold(history[s]),
         c \in Editors(s) =>
            ~Owed(c) /\ (call'[c].result = "running" => ~OwedAt(call[c].op, Todo(c) - 1)),
         c \in On(s) /\ call'[c].result = "running" /\ call[c].op = "import" /\ Todo(c) = 2 =>
            Editors(s) = {} /\ call'[c].after = <<c, call[c].arg>>
  PROVE  ReplayOf(s)'
<1>1. /\ \A d \in On(s)' : /\ d \in On(s) /\ call'[d].op = call[d].op
                           /\ call'[d].arg = call[d].arg
                           /\ Todo(d)' = (IF d = c THEN Todo(c) - 1 ELSE Todo(d))
                           /\ d # c => call'[d] = call[d]
      /\ \A d \in Editors(s)' : d \in Editors(s) /\ d \in On(s)' /\ d \in Running'
      /\ \A d \in Editors(s) \ {c} : d \in Editors(s)'
  <2>1. \A d \in Editors(s)' : d \in On(s)' /\ d \in Running'
    BY DEF Editors, On
  <2> QED
    BY <2>1, OnMoved
<1>2. \A d \in Editors(s)' : IF d = c THEN ~Owed(d) /\ ~Owed(d)' ELSE Owed(d)' <=> Owed(d)
  <2> TAKE d \in Editors(s)'
  <2>1. call'[d].result = "running"
    BY <1>1 DEF Running
  <2>2. Owed(d)' <=> OwedAt(call'[d].op, Todo(d)')
    BY DEF Owed, OwedAt, Changed
  <2>3. CASE d = c
    BY <1>1, <2>1, <2>2, <2>3
  <2>4. CASE d # c
    BY <1>1, <2>2, <2>4 DEF Owed
  <2> QED
    BY <2>3, <2>4
<1>3. \A d, e \in Editors(s)' : d = e
  BY <1>1 DEF ReplayOf
<1>4. ASSUME NEW d \in On(s)', call'[d].op = "import", Todo(d)' = 1
      PROVE  Editors(s)' = {} /\ call'[d].after = <<d, call'[d].arg>>
  <2>1. CASE d = c
    <3>1. d \in On(s) /\ call[c].op = "import" /\ Todo(c) = 2 /\ call'[d].arg = call[d].arg
      <4>1. c \in On(s) /\ call[c].op = "import" /\ Todo(c) - 1 = 1
            /\ call'[d].arg = call[d].arg
        BY <1>1, <1>4, <2>1
      <4>2. Todo(c) \in Nat
        BY RunningFacts
      <4> QED
        BY <2>1, <4>1, <4>2
    <3>2. d \in Running' /\ call'[c].result = "running"
      BY <1>4, <2>1 DEF On, Running
    <3> QED
      BY <1>1, <2>1, <3>1, <3>2
  <2>2. CASE d # c
    BY <1>1, <1>4, <2>2 DEF ReplayOf
  <2> QED
    BY <2>1, <2>2
<1>5. (\E d \in Editors(s)' : Owed(d)' /\ call'[d].op = "delete") <=>
         \E d \in Editors(s) : Owed(d) /\ call[d].op = "delete"
  BY <1>1, <1>2
<1>6. (\E d \in Editors(s)' : Owed(d)') <=> \E d \in Editors(s) : Owed(d)
  BY <1>1, <1>2
<1>7. Dead(s)' <=> Dead(s)
  BY DEF Dead
<1>8. Shown(product[s])' = Shown(product[s])
  BY DEF Shown
<1>9. ASSUME NEW d \in Editors(s)', Owed(d)'
      PROVE  d \in past'.done \ past'.told /\ Fits(d, s)'
  <2>1. d # c /\ d \in Editors(s) /\ Owed(d) /\ call'[d] = call[d] /\ Todo(d)' = Todo(d)
    BY <1>1, <1>2, <1>9
  <2>2. d \in past.done \ past.told /\ Fits(d, s)
    BY <2>1 DEF ReplayOf
  <2>3. Fits(d, s)'
    BY <1>8, <2>1, <2>2 DEF Fits
  <2> QED
    BY <2>1, <2>2, <2>3
<1>10. (Dead(s) <=> \/ DeleteTold(history[s])
                    \/ \E d \in Editors(s) : Owed(d) /\ call[d].op = "delete")'
  BY <1>5, <1>7 DEF ReplayOf, DeleteTold
<1>11. (\/ Shown(product[s]) = Replayed(history[s])
        \/ \E d \in Editors(s) : Owed(d))'
  BY <1>6, <1>8 DEF ReplayOf
<1> QED
  BY <1>3, <1>4, <1>9, <1>10, <1>11 DEF ReplayOf

\* A product that the step of c is not about.
LEMMA OtherReplay ==
  ASSUME TypeOK, CallInv, NEW c \in Running, Moved(c), NEW s \in Sku, ReplayOf(s),
         s # call[c].on,
         past.done \subseteq past'.done, past'.told \subseteq past.told \cup {c},
         product'[s] = product[s], history'[s] = history[s]
  PROVE  ReplayOf(s)'
<1>1. c \notin On(s)
  BY OnMoved
<1>2. c \notin Editors(s)
  BY <1>1 DEF Editors
<1>3. /\ Replayed(history'[s]) = Replayed(history[s])
      /\ DeleteTold(history'[s]) <=> DeleteTold(history[s])
  BY DEF DeleteTold
<1> QED
  BY <1>1, <1>2, <1>3, SameReplay

\* The call that changes the product is alone with it.
LEMMA LoneEditor ==
  ASSUME TypeOK, CallInv, NEW c \in Running, Moved(c), NEW s \in Sku, ReplayOf(s),
         c \in Editors(s)
  PROVE  /\ Editors(s) = {c}
         /\ \A d \in Editors(s)' : d = c
         /\ call'[c].result = "running" => Editors(s)' = {c}
         /\ call'[c].result # "running" => Editors(s)' = {}
         /\ \A d \in On(s)' : call'[d].op = "import" => Todo(d)' # 1
<1>1. /\ \A d \in On(s)' : /\ d \in On(s) /\ call'[d].op = call[d].op
                           /\ Todo(d)' = (IF d = c THEN Todo(c) - 1 ELSE Todo(d))
      /\ \A d \in Editors(s)' : d \in Editors(s) /\ d \in Running'
      /\ call'[c].result = "running" => c \in Editors(s)'
  <2>1. \A d \in Editors(s)' : d \in On(s)' /\ d \in Running'
    BY DEF Editors, On
  <2> QED
    BY <2>1, OnMoved
<1>2. Editors(s) = {c}
  BY DEF ReplayOf
<1>3. \A d \in Editors(s)' : d = c
  BY <1>1, <1>2
<1>4. call'[c].result # "running" => Editors(s)' = {}
  BY <1>1, <1>3 DEF Running
<1>5. call[c].op # "import"
  BY DEF Editors, Edits
<1>6. \A d \in On(s)' : call'[d].op = "import" => Todo(d)' # 1
  BY <1>1, <1>2, <1>5 DEF ReplayOf
<1> QED
  BY <1>1, <1>2, <1>3, <1>4, <1>6

\* Calls that told of their change.
LEMMA ToldKept ==
  ASSUME TypeOK, CallInv, ToldInv, NEW c \in Running, Moved(c),
         past'.told = past.told
         \/ /\ past'.told \subseteq past.told \cup {c}
            /\ call'[c].result = "running" => call[c].op = "status" /\ Todo(c) = 2
  PROVE  ToldInv'
<1>1. ASSUME NEW d \in Running', d \in past'.told
      PROVE  call'[d].op = "status" /\ Todo(d)' = 1
  <2>1. /\ d \in Running /\ call'[d].result = "running"
        /\ call'[d].op = call[d].op
        /\ Todo(d)' = (IF d = c THEN Todo(c) - 1 ELSE Todo(d))
        /\ Todo(d) \in Nat \ {0}
    BY StillRunning
  <2>2. CASE d # c
    BY <1>1, <2>1, <2>2 DEF ToldInv
  <2>3. CASE d = c /\ d \notin past.told
    BY <1>1, <2>1, <2>3
  <2>4. CASE d = c /\ d \in past.told
    <3>1. Todo(c) = 1 /\ Todo(d)' = 0
      BY <2>1, <2>4 DEF ToldInv
    <3>2. Listed(call'[c])
      BY <2>1, <2>4 DEF Moved, Flying
    <3>3. Len(call'[c].todo) # 0
      <4>1. Len(call'[c].todo) \in 1 .. Len(Left[call'[c].op])
        BY <3>2 DEF Listed
      <4>2. call[c].op \in Ops /\ Len(Left[call[c].op]) \in Nat
        BY RunningFacts
      <4>3. Len(Left[call'[c].op]) \in Nat
        BY <2>1, <2>4, <4>2
      <4> QED
        BY <4>1, <4>3
    <3> QED
      BY <2>4, <3>1, <3>3 DEF Todo
  <2> QED
    BY <2>2, <2>3, <2>4
<1> QED
  BY <1>1 DEF ToldInv

\* Where an import is.
LEMMA WhereImport ==
  ASSUME NEW n \in 1 .. Len(Left["import"])
  PROVE  /\ n = 1 <=> Left["import"][n] = "commit"
         /\ n = 2 <=> Left["import"][n] = "upsert"
  BY DEF Left

-----------------------------------------------------------------------------
(* The statements *)

\* A call that is about one product, when the others are left alone.
LEMMA ReplayHere ==
  ASSUME IInv, ReplayInv, NEW c \in Running, Moved(c), ToldInv',
         NEW p, p = call[c].on,
         past.mixed \subseteq past'.mixed, past.done \subseteq past'.done,
         past'.told \subseteq past.told \cup {c},
         \A s \in Sku \ {p} : product'[s] = product[s] /\ history'[s] = history[s],
         p \notin past'.mixed => ReplayOf(p)'
  PROVE  ReplayInv'
<1>1. TypeOK /\ CallInv
  BY DEF IInv
<1>2. ASSUME NEW s \in Sku, s \notin past'.mixed
      PROVE  ReplayOf(s)'
  <2>1. CASE s = p
    BY <1>2, <2>1
  <2>2. CASE s # p
    <3>1. s \notin past.mixed /\ ReplayOf(s)
      BY <1>2 DEF ReplayInv
    <3>2. product'[s] = product[s] /\ history'[s] = history[s]
      BY <2>2
    <3> QED
      BY <1>1, <2>2, <3>1, <3>2, OtherReplay
  <2> QED
    BY <2>1, <2>2
<1> QED
  BY <1>2 DEF ReplayInv

\* Statements that neither change a product nor tell of a change.
Plain == {"exists", "before", "notify", "begin", "rate", "rerate", "unrate", "file",
          "bytes", "row", "find", "unrow", "unfile", "detail", "verify", "fetch", "read"}

LEMMA PlainReplay ==
  ASSUME IInv, ReplayInv, NEW c, NEW s, At(c, s), Moved(c),
         s \in Plain \/ (s \in Refusals /\ Refused(c)),
         UNCHANGED <<product, history>>, past'.mixed = past.mixed,
         past.done \subseteq past'.done, past'.told = past.told
  PROVE  ReplayInv'
<1> DEFINE op == call[c].op
           n == Todo(c)
<1> PICK p : p = call[c].on
  OBVIOUS
<1>1. /\ c \in Running /\ s = Left[op][n] /\ n \in 1 .. Len(Left[op]) /\ p \in Sku
  BY Here
<1>2. TypeOK /\ CallInv /\ ToldInv
  BY DEF IInv, ReplayInv
<1>3. s \in Refusals /\ Refused(c) => call'[c].result # "running"
  BY <1>1, <1>2, OverFacts DEF Refused, Finished
<1>4. op \in Edits =>
         ~OwedAt(op, n) /\ (call'[c].result = "running" => ~OwedAt(op, n - 1))
  <2> HIDE DEF op, n
  <2>1. CASE s \in Plain
    BY <1>1, <2>1, WhereEdit DEF Plain
  <2>2. CASE s \in Refusals /\ Refused(c)
    BY <1>1, <1>3, <2>2, WhereEdit DEF Refusals
  <2> QED
    BY <2>1, <2>2
<1>5. op = "import" => n \notin {1, 2}
  <2> HIDE DEF op, n
  <2> QED
    BY <1>1, WhereImport DEF Plain, Refusals
<1>6. ToldInv'
  BY <1>1, <1>2, ToldKept
<1>7. ASSUME p \notin past'.mixed PROVE ReplayOf(p)'
  <2>1. ReplayOf(p)
    BY <1>1, <1>7 DEF ReplayInv
  <2>2. c \in Editors(p) =>
           ~Owed(c) /\ (call'[c].result = "running" => ~OwedAt(call[c].op, Todo(c) - 1))
    BY <1>4 DEF Editors, Owed
  <2>3. /\ product'[p] = product[p] /\ Replayed(history'[p]) = Replayed(history[p])
        /\ DeleteTold(history'[p]) <=> DeleteTold(history[p])
    BY DEF DeleteTold
  <2>4. call[c].op = "import" => Todo(c) # 1 /\ Todo(c) # 2
    BY <1>5
  <2>5. past.done \subseteq past'.done /\ past'.told \subseteq past.told \cup {c}
    OBVIOUS
  <2> HIDE DEF op, n
  <2> QED
    BY <1>1, <1>2, <2>1, <2>2, <2>3, <2>4, <2>5, SameReplay
<1> QED
  BY <1>1, <1>6, <1>7, ReplayHere

\* A statement that runs or is refused and keeps nothing.
LEMMA RanMoves ==
  ASSUME IInv, NEW c, NEW s, At(c, s), Ran(c) \/ Refused(c)
  PROVE  Moved(c)
<1>1. TypeOK /\ CallInv /\ c \in Running
  BY DEF IInv, At
<1> QED
  BY <1>1, RanFacts, OverFacts DEF Went, Refused, Finished

\* All but the changes and records of the products.
LEMMA OthersReplay ==
  ASSUME IInv, ReplayInv, NEW c,
         \/ Exists(c) \/ Before(c) \/ Begin(c) \/ Notify(c) \/ FindImage(c)
         \/ AddRate(c) \/ ChangeRate(c) \/ WriteFile(c) \/ InsertImage(c)
         \/ DeleteImage(c) \/ RemoveFile(c) \/ Detail(c)
         \/ Verify(c) \/ Fetch(c) \/ Read(c)
  PROVE  ReplayInv'
<1>1. /\ TypeOK /\ CallInv /\ PastOK /\ TableInv
      /\ past \in [mixed : SUBSET Sku, told : SUBSET Made, done : SUBSET Made,
                   late : SUBSET Made]
  BY DEF IInv, PastOK
<1> DEFINE Safe == /\ UNCHANGED <<product, history>> /\ past'.mixed = past.mixed
                   /\ past.done \subseteq past'.done /\ past'.told = past.told
<1>2. ASSUME past' = past \/ past' = Done(c)
             \/ past' = [past EXCEPT !.late = @ \cup {c}],
             UNCHANGED <<product, history>>
      PROVE  Safe
  BY <1>1, <1>2 DEF Done
<1> HIDE DEF Safe
<1>3. ASSUME Moved(c), Safe, NEW s \in Plain, At(c, s)
      PROVE  ReplayInv'
  BY <1>3, PlainReplay DEF Safe
<1>4. CASE Exists(c)
  <2>1. At(c, "exists") /\ (Ran(c) \/ Refused(c)) /\ Safe
    BY <1>2, <1>4 DEF Exists
  <2>2. Moved(c)
    BY <2>1, RanMoves
  <2> QED
    BY <1>3, <2>1, <2>2 DEF Plain
<1>5. CASE Notify(c) \/ FindImage(c)
  <2>1. PICK s \in Plain : At(c, s) /\ (Ran(c) \/ Refused(c))
    BY <1>5 DEF Notify, FindImage, Plain
  <2>2. Safe
    BY <1>2, <1>5 DEF Notify, FindImage
  <2> QED
    BY <1>3, <2>1, <2>2, RanMoves
<1>6. CASE AddRate(c) \/ ChangeRate(c)
  <2>1. PICK s \in Plain : At(c, s) /\ (Ran(c) \/ Refused(c))
    BY <1>6 DEF AddRate, ChangeRate, Plain
  <2>2. Safe
    BY <1>2, <1>6 DEF AddRate, ChangeRate
  <2> QED
    BY <1>3, <2>1, <2>2, RanMoves
<1>7. CASE WriteFile(c) \/ InsertImage(c) \/ DeleteImage(c) \/ RemoveFile(c)
  <2>1. PICK s \in Plain : At(c, s) /\ Ran(c)
    BY <1>7 DEF WriteFile, InsertImage, DeleteImage, RemoveFile, Plain
  <2>2. Safe
    BY <1>2, <1>7 DEF WriteFile, InsertImage, DeleteImage, RemoveFile
  <2> QED
    BY <1>3, <2>1, <2>2, RanMoves
<1>8. CASE Detail(c) \/ Fetch(c) \/ Read(c)
  <2>1. PICK s \in Plain : At(c, s) /\ (Ran(c) \/ Refused(c))
    BY <1>8 DEF Detail, Fetch, Read, Plain
  <2>2. Safe
    BY <1>2, <1>8 DEF Detail, Fetch, Read
  <2> QED
    BY <1>3, <2>1, <2>2, RanMoves
<1>9. CASE Before(c)
  <2> DEFINE row == Shown(product[call[c].on])
  <2>1. At(c, "before") /\ (Refused(c) \/ call' = [Step(c) EXCEPT ![c].before = row])
    BY <1>9 DEF Before
  <2>2. Safe
    BY <1>2, <1>9 DEF Before
  <2> HIDE DEF row
  <2>3. c \in Running /\ Todo(c) # 1
    <3>1. /\ c \in Running /\ call[c].op \in Ops /\ Todo(c) \in Nat
          /\ Todo(c) \in 1 .. Len(Left[call[c].op])
          /\ "before" = Left[call[c].op][Todo(c)]
      BY <2>1, Here
    <3> QED
      BY <3>1, Where
  <2>4. Moved(c)
    BY <1>1, <2>1, <2>3, RanMoves, KeepFacts DEF Went
  <2> QED
    BY <1>3, <2>1, <2>2, <2>4 DEF Plain
<1>10. CASE Begin(c)
  <2> DEFINE stamp == Len(history[call[c].on])
  <2>1. At(c, "begin") /\ call' = [Step(c) EXCEPT ![c].stamp = stamp]
    BY <1>10 DEF Begin
  <2>2. Safe
    BY <1>2, <1>10 DEF Begin
  <2>3. c \in Running /\ Todo(c) # 1 /\ stamp \in Nat
    <3>1. /\ c \in Running /\ call[c].op \in Ops /\ Todo(c) \in Nat
          /\ Todo(c) \in 1 .. Len(Left[call[c].op]) /\ call[c].on \in Sku
          /\ "begin" = Left[call[c].op][Todo(c)]
      BY <2>1, Here
    <3>2. stamp \in Nat
      BY <1>1, <3>1 DEF TableInv
    <3> QED
      BY <3>1, <3>2, Where
  <2> HIDE DEF stamp
  <2>4. Moved(c)
    BY <1>1, <2>1, <2>3, StampFacts DEF Went
  <2> QED
    BY <1>3, <2>1, <2>2, <2>4 DEF Plain
<1>11. CASE Verify(c)
  <2>1. At(c, "verify") /\ (Refused(c) \/ call' = [Step(c) EXCEPT ![c].stamp = now])
    BY <1>11 DEF Verify
  <2>2. Safe
    BY <1>2, <1>11 DEF Verify
  <2>3. c \in Running /\ Todo(c) # 1 /\ now \in Nat
    <3>1. /\ c \in Running /\ call[c].op \in Ops /\ Todo(c) \in Nat
          /\ Todo(c) \in 1 .. Len(Left[call[c].op])
          /\ "verify" = Left[call[c].op][Todo(c)]
      BY <2>1, Here
    <3>2. now \in Nat
      BY <1>1, BoundAssumption DEF TypeOK
    <3> QED
      BY <3>1, <3>2, Where
  <2>4. Moved(c)
    BY <1>1, <2>1, <2>3, RanMoves, StampFacts DEF Went
  <2> QED
    BY <1>3, <2>1, <2>2, <2>4 DEF Plain
<1> QED
  BY <1>4, <1>5, <1>6, <1>7, <1>8, <1>9, <1>10, <1>11

\* What a statement of the product itself finds.
LEMMA EditHere ==
  ASSUME IInv, ReplayInv, NEW c, NEW s, At(c, s), call[c].op \in Edits,
         NEW p, p = call[c].on, p \notin past.mixed, Moved(c)
  PROVE  /\ TypeOK /\ CallInv /\ ToldInv /\ c \in Running /\ p \in Sku /\ c \in Nat
         /\ s = Left[call[c].op][Todo(c)] /\ Todo(c) \in 1 .. Len(Left[call[c].op])
         /\ c \in Editors(p) /\ ReplayOf(p)
         /\ Editors(p) = {c} /\ \A d \in Editors(p)' : d = c
         /\ call'[c].result = "running" => Editors(p)' = {c}
         /\ call'[c].result # "running" => Editors(p)' = {}
         /\ \A d \in On(p)' : call'[d].op = "import" => Todo(d)' # 1
         /\ Owed(c) => c \in past.done \ past.told /\ Fits(c, p)
         /\ ~Owed(c) => /\ Shown(product[p]) = Replayed(history[p])
                        /\ Dead(p) <=> DeleteTold(history[p])
         /\ call[c].op # "delete" => (Dead(p) <=> DeleteTold(history[p]))
<1>1. /\ c \in Running /\ p \in Sku /\ s = Left[call[c].op][Todo(c)]
      /\ Todo(c) \in 1 .. Len(Left[call[c].op])
  BY Here
<1>2. TypeOK /\ CallInv /\ ToldInv
  BY DEF IInv, ReplayInv
<1>3. ReplayOf(p)
  BY <1>1 DEF ReplayInv
<1>4. c \in Editors(p)
  BY <1>1 DEF Editors, On
<1>5. Editors(p) = {c}
  BY <1>3, <1>4 DEF ReplayOf
<1>6. c \in Nat
  BY <1>1, <1>2, RunningFacts
<1>7. /\ \A d \in Editors(p)' : d = c
      /\ call'[c].result = "running" => Editors(p)' = {c}
      /\ call'[c].result # "running" => Editors(p)' = {}
      /\ \A d \in On(p)' : call'[d].op = "import" => Todo(d)' # 1
  BY <1>1, <1>2, <1>3, <1>4, LoneEditor
<1>8. /\ Owed(c) => c \in past.done \ past.told /\ Fits(c, p)
      /\ ~Owed(c) => /\ Shown(product[p]) = Replayed(history[p])
                     /\ Dead(p) <=> DeleteTold(history[p])
      /\ call[c].op # "delete" => (Dead(p) <=> DeleteTold(history[p]))
  BY <1>3, <1>5 DEF ReplayOf
<1> QED
  BY <1>1, <1>2, <1>3, <1>4, <1>5, <1>6, <1>7, <1>8

\* What a statement keeps as the outcome of its change.
LEMMA KeptAfter ==
  ASSUME TypeOK, CallInv, NEW c \in Running, Todo(c) # 1, NEW row,
         call' = [Step(c) EXCEPT ![c].after = row]
  PROVE  call'[c].after = row
<1> DEFINE f == call[c]
           t == [f EXCEPT !.todo = Tail(@)]
           e == [t EXCEPT !.after = row]
<1>1. c \in Made /\ Flying(f)
  BY RunningFacts
<1>2. Step(c) = [call EXCEPT ![c].todo = Tail(@)]
  BY DEF Step, Todo
<1>3. call' = [call EXCEPT ![c] = e]
  BY <1>1, <1>2 DEF Made
<1> HIDE DEF f
<1>4. e.after = row
  BY <1>1 DEF Flying, Fields
<1> HIDE DEF e, t
<1> QED
  BY <1>1, <1>3, <1>4 DEF Made

\* The row as it is after the change goes into the record.
LEMMA AfterReplay ==
  ASSUME IInv, ReplayInv, NEW c, After(c)
  PROVE  ReplayInv'
<1> DEFINE row == Shown(product[call[c].on])
<1> PICK p : p = call[c].on
  OBVIOUS
<1>1. /\ At(c, "after") /\ call' = [Step(c) EXCEPT ![c].after = row]
      /\ UNCHANGED <<product, history, past>>
  BY DEF After
<1>2. row = Shown(product[p])
  OBVIOUS
<1> HIDE DEF row
<1>3. /\ TypeOK /\ CallInv /\ ToldInv /\ c \in Running /\ c \in Made /\ p \in Sku
      /\ call[c].op \in Ops /\ Todo(c) \in 1 .. Len(Left[call[c].op])
      /\ "after" = Left[call[c].op][Todo(c)] /\ call[c].result = "running"
  BY <1>1, Here DEF IInv, ReplayInv
<1>4. Todo(c) = 2 /\ call[c].op \in {"create", "update"} /\ call[c].op \in Edits
  BY <1>3, Where DEF Edits
<1>5. Went(c) /\ call'[c].result = "running"
  <2>1. Todo(c) # 1
    BY <1>4
  <2>2. Went(c)
    BY <1>1, <1>3, <2>1, KeepFacts
  <2> QED
    BY <2>1, <2>2 DEF Went
<1>6. call'[c].after = row
  <2>1. Todo(c) # 1
    BY <1>4
  <2> QED
    BY <1>1, <1>3, <2>1, KeptAfter
<1>7. Moved(c)
  BY <1>5 DEF Went
<1>8. ToldInv'
  BY <1>1, <1>3, <1>7, ToldKept
<1>9. ASSUME p \notin past'.mixed PROVE ReplayOf(p)'
  <2>1. p \notin past.mixed
    BY <1>1, <1>9
  <2>2. /\ Editors(p) = {c} /\ Editors(p)' = {c} /\ ReplayOf(p)
        /\ \A d \in On(p)' : call'[d].op = "import" => Todo(d)' # 1
        /\ Owed(c) => c \in past.done \ past.told /\ Fits(c, p)
        /\ Dead(p) <=> DeleteTold(history[p])
    BY <1>1, <1>4, <1>5, <1>7, <2>1, EditHere
  <2>3. Owed(c)
    BY <1>4 DEF Owed, OwedAt, Changed, After1, After2
  <2>4. call'[c].op = call[c].op
    BY <1>7 DEF Moved
  <2>5. Todo(c)' = 1
    BY <1>4, <1>5, <1>7 DEF Moved, Todo
  <2>6. Owed(c)'
    BY <1>4, <2>4, <2>5 DEF Owed, OwedAt, Changed, After1, After2
  <2>7. Fits(c, p)'
    BY <1>1, <1>2, <1>4, <1>6, <2>4 DEF Fits, Shown
  <2>8. c \in past'.done \ past'.told
    BY <1>1, <2>2, <2>3
  <2>9. Dead(p)' <=> DeleteTold(history'[p])
    BY <1>1, <2>2 DEF Dead, DeleteTold
  <2>10. (Dead(p) <=> \/ DeleteTold(history[p])
                      \/ \E d \in Editors(p) : Owed(d) /\ call[d].op = "delete")'
    BY <1>4, <2>2, <2>4, <2>9
  <2>11. \A d, e \in Editors(p)' : d = e
    BY <2>2
  <2>12. \E d \in Editors(p)' : Owed(d)'
    BY <2>2, <2>6
  <2>13. \A d \in Editors(p)' : Owed(d)' => d \in past'.done \ past'.told /\ Fits(d, p)'
    BY <2>2, <2>7, <2>8
  <2> QED
    BY <2>2, <2>10, <2>11, <2>12, <2>13 DEF ReplayOf
<1>10. /\ past.mixed \subseteq past'.mixed /\ past.done \subseteq past'.done
       /\ past'.told \subseteq past.told \cup {c}
       /\ \A s \in Sku \ {p} : product'[s] = product[s] /\ history'[s] = history[s]
  BY <1>1
<1> QED
  BY <1>3, <1>7, <1>8, <1>9, <1>10, ReplayHere

\* A change of the product that is made.
LEMMA ChangeReplay ==
  ASSUME IInv, ReplayInv, NEW c, NEW s \in {"insert", "update", "delete", "shelf"},
         At(c, s), Went(c), NEW p, p = call[c].on, call[c].op \in Edits,
         s = "delete" <=> call[c].op = "delete",
         s = "shelf" <=> call[c].op = "status",
         call[c].op \in {"create", "update"} => Todo(c) = 3,
         past' = Done(c), history' = history,
         \A q \in Sku \ {p} : product'[q] = product[q],
         ~Dead(p), product'[p] # NoRow, product'[p].deleted <=> s = "delete",
         s = "delete" => Shown(product'[p]) = Shown(product[p]),
         s = "shelf" => /\ call'[c].after = <<product'[p].shelf>>
                        /\ product'[p].val = Shown(product[p])[1]
  PROVE  ReplayInv'
<1>1. Moved(c)
  BY DEF Went
<1>2. TypeOK /\ CallInv /\ ToldInv /\ PastOK /\ c \in Running
  BY DEF IInv, ReplayInv, At
<1>3. /\ past'.mixed = past.mixed /\ past'.told = past.told
      /\ past'.done = past.done \cup {c}
  BY <1>2 DEF Done, PastOK
<1>4. ToldInv'
  BY <1>1, <1>2, <1>3, ToldKept
<1>5. ASSUME p \notin past'.mixed PROVE ReplayOf(p)'
  <2>1. p \notin past.mixed
    BY <1>3, <1>5
  <2>2. /\ s = Left[call[c].op][Todo(c)] /\ Todo(c) \in 1 .. Len(Left[call[c].op])
        /\ ReplayOf(p)
        /\ call'[c].result = "running" => Editors(p)' = {c}
        /\ \A d \in On(p)' : call'[d].op = "import" => Todo(d)' # 1
        /\ ~Owed(c) => /\ Shown(product[p]) = Replayed(history[p])
                       /\ Dead(p) <=> DeleteTold(history[p])
    BY <1>1, <2>1, EditHere
  <2>3. ~OwedAt(call[c].op, Todo(c)) /\ OwedAt(call[c].op, Todo(c) - 1) /\ Todo(c) # 1
    <3> DEFINE op == call[c].op
               n == Todo(c)
    <3>1. op \in Edits /\ n \in 1 .. Len(Left[op]) /\ s = Left[op][n]
      BY <2>2
    <3> HIDE DEF op, n
    <3>2. ~OwedAt(op, n) /\ OwedAt(op, n - 1) /\ n # 1
      BY <3>1, WhereEdit
    <3> QED
      BY <3>2 DEF op, n
  <2>4. /\ Shown(product[p]) = Replayed(history[p]) /\ ~DeleteTold(history[p])
    BY <2>2, <2>3 DEF Owed
  <2>5. call'[c].result = "running" /\ Editors(p)' = {c}
    BY <2>2, <2>3 DEF Went
  <2>6. call'[c].op = call[c].op /\ Todo(c)' = Todo(c) - 1
    BY <1>1, <2>5 DEF Moved, Todo
  <2>7. Owed(c)'
    BY <2>3, <2>6 DEF Owed, OwedAt, Changed
  <2>8. c \notin past.told
    BY <1>2, <2>3 DEF ToldInv, OwedAt, Changed, After1, After2
  <2>9. c \in past'.done \ past'.told
    BY <1>3, <2>8
  <2>10. Fits(c, p)'
    <3>1. call[c].op \in {"create", "update"} => Todo(c)' # 1
      BY <2>6
    <3>2. call[c].op = "delete" => Shown(product[p])' = Replayed(history[p])'
      BY <2>4 DEF Shown
    <3>3. call[c].op = "status" =>
             /\ product'[p] # NoRow /\ call'[c].after = <<product'[p].shelf>>
             /\ Replayed(history'[p])[1] = product'[p].val
      BY <2>4
    <3> QED
      BY <2>6, <3>1, <3>2, <3>3 DEF Fits
  <2>11. Dead(p)' <=> call[c].op = "delete"
    BY DEF Dead
  <2>12. (Dead(p) <=> \/ DeleteTold(history[p])
                      \/ \E d \in Editors(p) : Owed(d) /\ call[d].op = "delete")'
    BY <2>4, <2>5, <2>6, <2>7, <2>11 DEF DeleteTold
  <2>13. \A d, e \in Editors(p)' : d = e
    BY <2>5
  <2>14. \E d \in Editors(p)' : Owed(d)'
    BY <2>5, <2>7
  <2>15. \A d \in Editors(p)' : Owed(d)' => d \in past'.done \ past'.told /\ Fits(d, p)'
    BY <2>5, <2>9, <2>10
  <2> QED
    BY <2>2, <2>12, <2>13, <2>14, <2>15 DEF ReplayOf
<1>6. /\ past.mixed \subseteq past'.mixed /\ past.done \subseteq past'.done
      /\ past'.told \subseteq past.told \cup {c}
      /\ \A q \in Sku \ {p} : product'[q] = product[q] /\ history'[q] = history[q]
  BY <1>3
<1> QED
  BY <1>1, <1>2, <1>4, <1>5, <1>6, ReplayHere

\* What a call writes to the row of its product.
LEMMA ProductReplay ==
  ASSUME IInv, ReplayInv, NEW c, Insert(c) \/ Update(c)
  PROVE  ReplayInv'
<1>1. PICK s \in {"insert", "update", "delete", "shelf"} : At(c, s)
  BY DEF Insert, Update
<1>2. /\ TypeOK /\ CallInv /\ TableInv
      /\ c \in Running /\ c \in Made /\ call[c].on \in Sku
      /\ call[c].op \in Ops /\ Todo(c) \in 1 .. Len(Left[call[c].op])
      /\ s = Left[call[c].op][Todo(c)]
  BY <1>1, Here DEF IInv
<1>3. /\ s = "insert" => Todo(c) = 3 /\ call[c].op = "create"
      /\ s = "update" => Todo(c) = 3 /\ call[c].op = "update"
      /\ s = "delete" => Todo(c) = 2 /\ call[c].op = "delete"
      /\ s = "shelf" => Todo(c) = 3 /\ call[c].op = "status"
  <2> DEFINE op == call[c].op
             n == Todo(c)
  <2>1. op \in Ops /\ n \in 1 .. Len(Left[op]) /\ s = Left[op][n] /\ s \in Changes
    BY <1>2 DEF Changes
  <2> HIDE DEF op, n
  <2>2. /\ s = "insert" => n = 3 /\ op = "create"
        /\ s = "update" => n = 3 /\ op = "update"
        /\ s = "delete" => n = 2 /\ op = "delete"
        /\ s = "shelf" => n = 3 /\ op = "status"
    BY <2>1, WhereChange
  <2> QED
    BY <2>2 DEF op, n
<1>4. /\ call[c].op \in Edits /\ Todo(c) # 1
      /\ s = "delete" <=> call[c].op = "delete"
      /\ s = "shelf" <=> call[c].op = "status"
      /\ call[c].op \in {"create", "update"} => Todo(c) = 3
  BY <1>3 DEF Edits
<1>5. UNCHANGED history
  BY DEF Insert, Update
<1> PICK p : p = call[c].on
  OBVIOUS
<1>6. CASE Refused(c) /\ UNCHANGED <<product, past>>
  <2>1. Moved(c)
    BY <1>1, <1>6, RanMoves
  <2>2. s \in Refusals
    BY DEF Refusals
  <2> QED
    BY <1>1, <1>5, <1>6, <2>1, <2>2, PlainReplay
<1>7. CASE Insert(c) /\ product[p] = NoRow
  <2> DEFINE new == [val |-> c, shelf |-> TRUE, deleted |-> FALSE]
  <2>1. /\ Ran(c) /\ past' = Done(c) /\ product' = [product EXCEPT ![p] = new] /\ s = "insert"
    BY <1>1, <1>7 DEF Insert, At
  <2>2. new # NoRow /\ ~new.deleted
    <3>1. DOMAIN new # {} /\ DOMAIN NoRow = {}
      BY DEF NoRow
    <3> QED
      BY <3>1
  <2> HIDE DEF new
  <2>3. /\ product'[p] = new /\ \A q \in Sku \ {p} : product'[q] = product[q]
    BY <1>2, <2>1 DEF TableInv
  <2>4. Went(c) /\ ~Dead(p)
    BY <1>2, <1>7, <2>1, RanFacts DEF Dead
  <2> QED
    BY <1>1, <1>4, <1>5, <2>1, <2>2, <2>3, <2>4, ChangeReplay
<1>8. CASE Update(c) /\ Live(p)
  <2> DEFINE old == product[p]
  <2>1. /\ past' = Done(c)
        /\ product' = [product EXCEPT ![p] = Written(c, old)]
        /\ call' = IF At(c, "shelf")
                   THEN [Step(c) EXCEPT ![c].after = <<call[c].arg>>]
                   ELSE Step(c)
    BY <1>8 DEF Update
  <2>2. old \in Row /\ ~old.deleted /\ ~Dead(p)
    BY <1>2, <1>8 DEF TypeOK, Live, Dead
  <2>3. s # "insert"
    BY <1>1, <1>8 DEF Update, At
  <2>4. /\ product'[p] = Written(c, old) /\ \A q \in Sku \ {p} : product'[q] = product[q]
    BY <1>2, <2>1 DEF TableInv
  <2>5. Shown(product[p]) = <<old.val, old.shelf>>
    BY <1>8 DEF Shown, Live
  <2>6. \A r \in Row : r # NoRow
    <3>1. \A r \in Row : DOMAIN r # {}
      BY DEF Row
    <3> QED
      BY <3>1 DEF NoRow
  <2> HIDE DEF old
  <2>7. CASE s = "shelf"
    <3>1. At(c, "shelf") /\ ~At(c, "update") /\ ~At(c, "delete")
      BY <1>1, <2>7 DEF At
    <3> DEFINE r == <<call[c].arg>>
               new == [old EXCEPT !.shelf = call[c].arg]
    <3>2. call' = [Step(c) EXCEPT ![c].after = r] /\ Written(c, old) = new
      BY <2>1, <3>1 DEF Written
    <3>3. ArgOK(call[c])
      BY <1>1, Here
    <3>4. call[c].arg \in BOOLEAN
      BY <1>3, <2>7, <3>3 DEF ArgOK
    <3>5. new \in Row /\ ~new.deleted /\ new.val = old.val /\ r = <<new.shelf>>
      BY <2>2, <3>4 DEF Row
    <3> HIDE DEF r, new
    <3>6. Went(c) /\ call'[c].after = r
      BY <1>2, <1>4, <3>2, KeepFacts, KeptAfter
    <3>7. product'[p] # NoRow /\ (product'[p].deleted <=> s = "delete")
      BY <2>4, <2>6, <2>7, <3>2, <3>5
    <3>8. /\ call'[c].after = <<product'[p].shelf>>
          /\ product'[p].val = Shown(product[p])[1]
      BY <2>4, <2>5, <3>2, <3>5, <3>6
    <3>9. s = "delete" => Shown(product'[p]) = Shown(product[p])
      BY <2>7
    <3> QED
      BY <1>1, <1>4, <1>5, <2>1, <2>2, <2>4, <3>6, <3>7, <3>8, <3>9, ChangeReplay
  <2>8. CASE s # "shelf"
    <3>1. ~At(c, "shelf") /\ Ran(c)
      <4>1. ~At(c, "shelf")
        BY <1>1, <2>8 DEF At
      <4> QED
        BY <2>1, <4>1 DEF Ran
    <3>2. Went(c)
      BY <1>2, <3>1, RanFacts
    <3>3. CASE s = "update"
      <4>1. At(c, "update") /\ ~At(c, "delete")
        BY <1>1, <3>3 DEF At
      <4>2. Written(c, old) = [old EXCEPT !.val = c]
        BY <3>1, <4>1 DEF Written
      <4>3. [old EXCEPT !.val = c] \in Row /\ ~[old EXCEPT !.val = c].deleted
        BY <1>2, <2>2 DEF Row
      <4>4. product'[p] # NoRow /\ (product'[p].deleted <=> s = "delete")
        BY <2>4, <2>6, <3>3, <4>2, <4>3
      <4>5. s = "delete" => Shown(product'[p]) = Shown(product[p])
        BY <3>3
      <4> QED
        BY <1>1, <1>4, <1>5, <2>1, <2>2, <2>4, <2>8, <3>2, <4>4, <4>5, ChangeReplay
    <3>4. CASE s = "delete"
      <4>1. At(c, "delete") /\ ~At(c, "update")
        BY <1>1, <3>4 DEF At
      <4> DEFINE new == [old EXCEPT !.deleted = TRUE]
      <4>2. Written(c, old) = new
        BY <3>1, <4>1 DEF Written
      <4>3. new \in Row /\ new.deleted /\ new.val = old.val /\ new.shelf = old.shelf
        BY <2>2 DEF Row
      <4> HIDE DEF new
      <4>4. product'[p] # NoRow /\ (product'[p].deleted <=> s = "delete")
        BY <2>4, <2>6, <3>4, <4>2, <4>3
      <4>5. Shown(product'[p]) = Shown(product[p])
        BY <2>4, <2>5, <4>2, <4>3, <4>4 DEF Shown
      <4> QED
        BY <1>1, <1>4, <1>5, <2>1, <2>2, <2>4, <2>8, <3>2, <4>4, <4>5, ChangeReplay
    <3> QED
      BY <2>3, <2>8, <3>3, <3>4
  <2> QED
    BY <2>7, <2>8
<1> QED
  BY <1>6, <1>7, <1>8 DEF Insert, Update

\* One more record.
LEMMA ToldAppend ==
  ASSUME NEW h, Len(h) \in Nat, DOMAIN h = 1 .. Len(h), NEW e
  PROVE  DeleteTold(Append(h, e)) <=> DeleteTold(h) \/ e.op = "delete"
<1> DEFINE g == Append(h, e)
           n == Len(h)
<1>1. /\ DOMAIN g = 1 .. n + 1 /\ g[n + 1] = e /\ \A i \in 1 .. n : g[i] = h[i]
      /\ DOMAIN h = 1 .. n /\ n \in Nat
  OBVIOUS
<1> HIDE DEF g, n
<1>2. \A i \in 1 .. n + 1 : i \in 1 .. n \/ i = n + 1
  BY <1>1
<1>3. /\ n + 1 \in 1 .. n + 1 /\ \A i \in 1 .. n : i \in 1 .. n + 1
  BY <1>1
<1>4. DeleteTold(g) <=> DeleteTold(h) \/ e.op = "delete"
  BY <1>1, <1>2, <1>3 DEF DeleteTold
<1> QED
  BY <1>4 DEF g

\* A record leads to what the row is by then.
LEMMA RecordReplay ==
  ASSUME IInv, ReplayInv, NEW c, Record(c)
  PROVE  ReplayInv'
<1> DEFINE r == Entry(c, Stamp(c))
<1> PICK p : p = call[c].on
  OBVIOUS
<1>1. /\ At(c, "record") /\ Ran(c)
      /\ history' = [history EXCEPT ![p] = Append(@, r)]
      /\ past' = [past EXCEPT !.told = @ \cup {c}]
      /\ UNCHANGED product
  BY DEF Record, Recorded
<1>2. r.op = call[c].op /\ r.after = call[c].after
  BY DEF Entry
<1> HIDE DEF r
<1> PICK e : e = r
  OBVIOUS
<1>3. /\ TypeOK /\ CallInv /\ ToldInv /\ PastOK /\ TableInv
      /\ c \in Running /\ c \in Made /\ p \in Sku
      /\ call[c].op \in Ops /\ Todo(c) \in 1 .. Len(Left[call[c].op])
      /\ Todo(c) \in Nat \ {0} /\ "record" = Left[call[c].op][Todo(c)]
  BY <1>1, Here DEF IInv, ReplayInv
<1>4. Went(c) /\ Moved(c)
  BY <1>1, <1>3, RanFacts DEF Went
<1>5. /\ Todo(c) = IF call[c].op = "status" THEN 2 ELSE 1
      /\ call[c].op # "import"
  <2> DEFINE op == call[c].op
             n == Todo(c)
  <2>1. op \in Ops /\ n \in 1 .. Len(Left[op]) /\ "record" = Left[op][n]
    BY <1>3
  <2> HIDE DEF op, n
  <2>2. n = (IF op = "status" THEN 2 ELSE 1) /\ op # "import"
    BY <2>1, Where
  <2> QED
    BY <2>2 DEF op, n
<1>6. /\ past'.mixed = past.mixed /\ past'.done = past.done
      /\ past'.told = past.told \cup {c}
  BY <1>1, <1>3 DEF PastOK
<1>7. call'[c].result = "running" => call[c].op = "status" /\ Todo(c) = 2
  BY <1>4, <1>5 DEF Went
<1>8. ToldInv'
  BY <1>3, <1>4, <1>6, <1>7, ToldKept
<1>9. /\ \A q \in Sku \ {p} : history'[q] = history[q]
      /\ history'[p] = Append(history[p], e)
      /\ Len(history[p]) \in Nat /\ DOMAIN history[p] = 1 .. Len(history[p])
  BY <1>1, <1>3 DEF TableInv
<1>10. /\ Replayed(history'[p]) = Replay(e, Replayed(history[p]))
       /\ DeleteTold(history'[p]) <=> DeleteTold(history[p]) \/ e.op = "delete"
  BY <1>9, ReplayedAppend, ToldAppend
<1>11. ASSUME p \notin past'.mixed PROVE ReplayOf(p)'
  <2>1. p \notin past.mixed /\ ReplayOf(p)
    BY <1>3, <1>6, <1>11 DEF ReplayInv
  <2>2. CASE call[c].op \notin Edits
    <3>1. e.op \notin Edits /\ e.op # "import"
      BY <1>2, <1>5, <2>2
    <3>2. /\ Replayed(history'[p]) = Replayed(history[p])
          /\ DeleteTold(history'[p]) <=> DeleteTold(history[p])
      BY <1>10, <3>1 DEF Replay, Edits
    <3>3. c \notin Editors(p)
      BY <2>2 DEF Editors
    <3>4. product'[p] = product[p] /\ past.done \subseteq past'.done
          /\ past'.told \subseteq past.told \cup {c}
      BY <1>1, <1>6
    <3> QED
      BY <1>3, <1>4, <1>5, <2>1, <3>2, <3>3, <3>4, SameReplay
  <2>3. CASE call[c].op \in Edits
    <3>1. /\ Editors(p) = {c} /\ \A d \in Editors(p)' : d = c
          /\ \A d \in On(p)' : call'[d].op = "import" => Todo(d)' # 1
          /\ Owed(c) => Fits(c, p)
      BY <1>1, <1>4, <2>1, <2>3, EditHere
    <3>2. Owed(c) /\ (Todo(c) # 1 => ~OwedAt(call[c].op, Todo(c) - 1))
      <4> DEFINE op == call[c].op
                 n == Todo(c)
      <4>1. op \in Edits /\ n \in 1 .. Len(Left[op]) /\ "record" = Left[op][n]
        BY <1>3, <2>3
      <4> HIDE DEF op, n
      <4>2. OwedAt(op, n) /\ (n # 1 => ~OwedAt(op, n - 1))
        BY <4>1, WhereEdit
      <4> QED
        BY <4>2 DEF op, n, Owed
    <3>3. \A d \in Editors(p)' : ~Owed(d)'
      <4> TAKE d \in Editors(p)'
      <4>1. d = c /\ call'[c].result = "running"
        BY <3>1 DEF Editors, On, Running
      <4>2. Todo(c) # 1 /\ Todo(c)' = Todo(c) - 1 /\ call'[c].op = call[c].op
        BY <1>4, <4>1 DEF Went, Moved, Todo
      <4> QED
        BY <3>2, <4>1, <4>2 DEF Owed, OwedAt, Changed
    <3>4. Fits(c, p)
      BY <3>1, <3>2
    <3>5. Shown(product[p]) = Replay(e, Replayed(history[p]))
      <4>1. CASE call[c].op \in {"create", "update"}
        BY <1>2, <1>5, <3>4, <4>1 DEF Fits, Replay
      <4>2. CASE call[c].op = "delete"
        BY <1>2, <3>4, <4>2 DEF Fits, Replay
      <4>3. CASE call[c].op = "status"
        <5>1. /\ product[p] # NoRow /\ call[c].after = <<product[p].shelf>>
              /\ Replayed(history[p])[1] = product[p].val
          BY <3>4, <4>3 DEF Fits
        <5>2. e.op = "status" /\ e.after[1] = product[p].shelf
          BY <1>2, <4>3, <5>1
        <5> QED
          BY <5>1, <5>2 DEF Replay, Shown
      <4> QED
        BY <2>3, <4>1, <4>2, <4>3 DEF Edits
    <3>6. Shown(product[p])' = Replayed(history'[p])
      BY <1>1, <1>10, <3>5 DEF Shown
    <3>7. Dead(p)' <=> DeleteTold(history'[p])
      BY <1>1, <1>2, <1>10, <2>1, <3>1, <3>2 DEF ReplayOf, Dead
    <3>8. \A d, f \in Editors(p)' : d = f
      BY <3>1
    <3>9. (Dead(p) <=> DeleteTold(history[p]))'
      BY <3>7
    <3>10. (Shown(product[p]) = Replayed(history[p]))'
      BY <3>6
    <3>11. (\A d \in On(p) : call[d].op = "import" /\ Todo(d) = 1 =>
              Editors(p) = {} /\ call[d].after = <<d, call[d].arg>>)'
      BY <3>1
    <3> QED
      BY <3>3, <3>8, <3>9, <3>10, <3>11 DEF ReplayOf
  <2> QED
    BY <2>2, <2>3
<1>12. /\ past.mixed \subseteq past'.mixed /\ past.done \subseteq past'.done
       /\ past'.told \subseteq past.told \cup {c}
       /\ \A q \in Sku \ {p} : product'[q] = product[q] /\ history'[q] = history[q]
  BY <1>1, <1>6, <1>9
<1> QED
  BY <1>3, <1>4, <1>8, <1>11, <1>12, ReplayHere

\* An import leaves the row that its record tells.
LEMMA CommitReplay ==
  ASSUME IInv, ReplayInv, NEW c, Commit(c)
  PROVE  ReplayInv'
<1> DEFINE r == Entry(c, call[c].stamp)
           new == [val |-> c, shelf |-> call[c].arg, deleted |-> StaysDeleted(call[c].on)]
<1> PICK p : p = call[c].on
  OBVIOUS
<1>1. /\ At(c, "commit") /\ Ran(c)
      /\ product' = [product EXCEPT ![p] = new]
      /\ history' = [history EXCEPT ![p] = Append(@, r)]
      /\ past' = [past EXCEPT !.done = @ \cup {c}, !.told = @ \cup {c}]
  BY DEF Commit
<1>2. r.op = call[c].op /\ r.after = call[c].after
  BY DEF Entry
<1>3. new # NoRow /\ new.val = c /\ new.shelf = call[c].arg /\ new.deleted = Dead(p)
  <2>1. DOMAIN new # {} /\ DOMAIN NoRow = {}
    BY DEF NoRow
  <2>2. StaysDeleted(p) = Dead(p)
    BY DEF StaysDeleted, Dead
  <2> QED
    BY <2>1, <2>2
<1> HIDE DEF r, new
<1> PICK e : e = r
  OBVIOUS
<1>4. /\ TypeOK /\ CallInv /\ ToldInv /\ PastOK /\ TableInv
      /\ c \in Running /\ c \in Made /\ p \in Sku
      /\ call[c].op \in Ops /\ Todo(c) \in 1 .. Len(Left[call[c].op])
      /\ "commit" = Left[call[c].op][Todo(c)]
  BY <1>1, Here DEF IInv, ReplayInv
<1>5. Went(c) /\ Moved(c)
  BY <1>1, <1>4, RanFacts DEF Went
<1>6. Todo(c) = 1 /\ call[c].op = "import" /\ call'[c].result # "running"
  <2>1. Todo(c) = 1 /\ call[c].op = "import"
    BY <1>4, WhereWrite
  <2> QED
    BY <1>5, <2>1 DEF Went
<1>7. /\ past'.mixed = past.mixed /\ past'.done = past.done \cup {c}
      /\ past'.told = past.told \cup {c}
  BY <1>1, <1>4 DEF PastOK
<1>8. ToldInv'
  BY <1>4, <1>5, <1>6, <1>7, ToldKept
<1>9. /\ \A q \in Sku \ {p} : history'[q] = history[q] /\ product'[q] = product[q]
      /\ history'[p] = Append(history[p], e) /\ product'[p] = new
      /\ Len(history[p]) \in Nat /\ DOMAIN history[p] = 1 .. Len(history[p])
  BY <1>1, <1>4 DEF TableInv
<1>10. /\ Replayed(history'[p]) = Replay(e, Replayed(history[p]))
       /\ DeleteTold(history'[p]) <=> DeleteTold(history[p]) \/ e.op = "delete"
  BY <1>9, ReplayedAppend, ToldAppend
<1>11. ASSUME p \notin past'.mixed PROVE ReplayOf(p)'
  <2>1. p \notin past.mixed /\ ReplayOf(p)
    BY <1>4, <1>7, <1>11 DEF ReplayInv
  <2>2. c \in On(p)
    BY <1>4 DEF On
  <2>3. Editors(p) = {} /\ call[c].after = <<c, call[c].arg>>
    BY <1>6, <2>1, <2>2 DEF ReplayOf
  <2>4. Dead(p) <=> DeleteTold(history[p])
    BY <2>1, <2>3 DEF ReplayOf
  <2>5. /\ \A d \in On(p)' : /\ d \in On(p) /\ call'[d].op = call[d].op
                             /\ d # c => call'[d] = call[d] /\ Todo(d)' = Todo(d)
        /\ \A d \in Editors(p)' : d \in Editors(p)
        /\ c \notin On(p)'
    <3>1. c \notin On(p)'
      BY <1>6 DEF On, Running
    <3> QED
      BY <1>4, <1>5, <3>1, OnMoved
  <2>6. Editors(p)' = {}
    BY <2>3, <2>5
  <2>7. Shown(product[p])' = <<c, call[c].arg>>
    BY <1>3, <1>9 DEF Shown
  <2>8. Replayed(history'[p]) = <<c, call[c].arg>>
    BY <1>2, <1>6, <1>10, <2>3 DEF Replay
  <2>9. Dead(p)' <=> Dead(p)
    BY <1>3, <1>9 DEF Dead
  <2>10. (Dead(p) <=> DeleteTold(history[p]))'
    BY <1>2, <1>6, <1>10, <2>4, <2>9
  <2>11. (Shown(product[p]) = Replayed(history[p]))'
    BY <2>7, <2>8
  <2>12. (\A d \in On(p) : call[d].op = "import" /\ Todo(d) = 1 =>
            Editors(p) = {} /\ call[d].after = <<d, call[d].arg>>)'
    BY <2>1, <2>5, <2>6 DEF ReplayOf
  <2>13. (\A d, f \in Editors(p) : d = f)' /\ (\A d \in Editors(p) : ~Owed(d))'
    BY <2>6
  <2>14. p \in Sku
    BY <1>4
  <2> QED
    BY <2>10, <2>11, <2>12, <2>13 DEF ReplayOf
<1>12. /\ past.mixed \subseteq past'.mixed /\ past.done \subseteq past'.done
       /\ past'.told \subseteq past.told \cup {c}
       /\ \A q \in Sku \ {p} : product'[q] = product[q] /\ history'[q] = history[q]
  BY <1>7, <1>9
<1> QED
  BY <1>4, <1>5, <1>8, <1>11, <1>12, ReplayHere

\* An import takes the row while nobody changes it, or the product is marked.
LEMMA UpsertReplay ==
  ASSUME IInv, ReplayInv, NEW c, Upsert(c)
  PROVE  ReplayInv'
<1> DEFINE row == <<c, call[c].arg>>
<1> PICK p : p = call[c].on
  OBVIOUS
<1>1. /\ At(c, "upsert") /\ call' = [Step(c) EXCEPT ![c].after = row]
      /\ UNCHANGED <<product, history>>
      /\ past' = IF call[c].before # Shown(product[p])
                    \/ \E d \in On(p) : call[d].op \in Edits
                 THEN [past EXCEPT !.mixed = @ \cup {p}] ELSE past
  BY DEF Upsert
<1>2. row = <<c, call[c].arg>>
  OBVIOUS
<1> HIDE DEF row
<1>3. /\ TypeOK /\ CallInv /\ ToldInv /\ PastOK /\ c \in Running /\ p \in Sku
      /\ call[c].op \in Ops /\ Todo(c) \in 1 .. Len(Left[call[c].op])
      /\ "upsert" = Left[call[c].op][Todo(c)]
  BY <1>1, Here DEF IInv, ReplayInv
<1>4. Todo(c) = 2 /\ call[c].op = "import" /\ Todo(c) # 1
  BY <1>3, Where
<1>5. Went(c) /\ call'[c].after = row
  BY <1>1, <1>3, <1>4, KeepFacts, KeptAfter
<1>6. Moved(c)
  BY <1>5 DEF Went
<1>7. /\ past.mixed \subseteq past'.mixed /\ past'.done = past.done
      /\ past'.told = past.told
      /\ p \notin past'.mixed => \A d \in On(p) : call[d].op \notin Edits
  BY <1>1, <1>3 DEF PastOK
<1>8. ToldInv'
  BY <1>3, <1>6, <1>7, ToldKept
<1>9. ASSUME p \notin past'.mixed PROVE ReplayOf(p)'
  <2>1. ReplayOf(p)
    BY <1>3, <1>7, <1>9 DEF ReplayInv
  <2>2. Editors(p) = {}
    BY <1>7, <1>9 DEF Editors
  <2>3. /\ product'[p] = product[p] /\ Replayed(history'[p]) = Replayed(history[p])
        /\ DeleteTold(history'[p]) <=> DeleteTold(history[p])
        /\ past.done \subseteq past'.done /\ past'.told \subseteq past.told \cup {c}
    BY <1>1, <1>7 DEF DeleteTold
  <2> QED
    BY <1>2, <1>3, <1>5, <1>6, <2>1, <2>2, <2>3, SameReplay
<1>10. /\ past.done \subseteq past'.done /\ past'.told \subseteq past.told \cup {c}
       /\ \A q \in Sku \ {p} : product'[q] = product[q] /\ history'[q] = history[q]
  BY <1>1, <1>7
<1> QED
  BY <1>3, <1>6, <1>7, <1>8, <1>9, <1>10, ReplayHere

\* A call that is cut short with a record owed marks its product.
LEMMA CutReplay ==
  ASSUME IInv, ReplayInv, NEW c, Cut(c)
  PROVE  ReplayInv'
<1> PICK p : p = call[c].on
  OBVIOUS
<1>1. /\ c \in Running /\ call' = Over(c, "cut") /\ UNCHANGED <<product, history>>
      /\ past' = IF c \in past.done \ past.told
                 THEN [past EXCEPT !.mixed = @ \cup {p}] ELSE past
  BY DEF Cut
<1>2. TypeOK /\ CallInv /\ ToldInv /\ PastOK /\ p \in Sku
  BY <1>1, RunningFacts DEF IInv, ReplayInv
<1>3. Moved(c) /\ call'[c].result # "running"
  BY <1>1, <1>2, OverFacts DEF Finished
<1>4. /\ past.mixed \subseteq past'.mixed /\ past'.done = past.done
      /\ past'.told = past.told
      /\ p \notin past'.mixed => c \notin past.done \ past.told
  BY <1>1, <1>2 DEF PastOK
<1>5. ToldInv'
  BY <1>1, <1>2, <1>3, <1>4, ToldKept
<1>6. ASSUME p \notin past'.mixed PROVE ReplayOf(p)'
  <2>1. ReplayOf(p)
    BY <1>2, <1>4, <1>6 DEF ReplayInv
  <2>2. c \in Editors(p) => ~Owed(c)
    BY <1>4, <1>6, <2>1 DEF ReplayOf
  <2>3. /\ product'[p] = product[p] /\ Replayed(history'[p]) = Replayed(history[p])
        /\ DeleteTold(history'[p]) <=> DeleteTold(history[p])
        /\ past.done \subseteq past'.done /\ past'.told \subseteq past.told \cup {c}
    BY <1>1, <1>4 DEF DeleteTold
  <2> QED
    BY <1>1, <1>2, <1>3, <2>1, <2>2, <2>3, SameReplay
<1>7. /\ past.done \subseteq past'.done /\ past'.told \subseteq past.told \cup {c}
      /\ \A q \in Sku \ {p} : product'[q] = product[q] /\ history'[q] = history[q]
  BY <1>1, <1>4
<1> QED
  BY <1>1, <1>2, <1>3, <1>4, <1>5, <1>6, <1>7, ReplayHere

\* A call that arrives owes nothing, and if it is to change a product on which
\* another change is under way the product is marked.
LEMMA ArriveReplay ==
  ASSUME IInv, ReplayInv, NEW op, NEW s, NEW arg, NEW todo, Arrive(op, s, arg, todo),
         NEW n \in Nat, n = Len(todo), op \in Edits \cup {"import"} => n >= 3
  PROVE  ReplayInv'
<1> DEFINE e == New(op, s, arg, todo)
<1> PICK c : c = Len(call) + 1
  OBVIOUS
<1>1. TypeOK /\ CallInv /\ PastOK /\ ToldInv
  BY DEF IInv, ReplayInv
<1>2. /\ call' = Append(call, e) /\ UNCHANGED <<product, history>>
      /\ past' = IF op \in Edits /\ \E d \in On(s) : call[d].op \in Edits \cup {"import"}
                 THEN [past EXCEPT !.mixed = @ \cup {s}] ELSE past
  BY DEF Arrive, New
<1>3. e.op = op /\ e.on = s /\ e.todo = todo /\ e.result = "running"
  BY DEF New
<1> HIDE DEF e
<1>4. /\ Made' = 1 .. c /\ Made = 1 .. Len(call) /\ Len(call) \in Nat
      /\ call'[c] = e /\ \A d \in Made : call'[d] = call[d]
  BY <1>1, <1>2 DEF TypeOK, CallInv, Made
<1>5. Made' = Made \cup {c} /\ c \notin Made /\ c \in Nat
  BY <1>4
<1>6. Running' = Running \cup {c}
  BY <1>3, <1>4, <1>5 DEF Running
<1>7. /\ past.mixed \subseteq past'.mixed /\ past'.done = past.done
      /\ past'.told = past.told /\ c \notin past'.told
      /\ s \in past'.mixed
         \/ ~(op \in Edits /\ \E d \in On(s) : call[d].op \in Edits \cup {"import"})
         \/ s \notin Sku
  BY <1>1, <1>2, <1>5 DEF PastOK
<1>8. /\ \A d \in Running : d \in Made /\ call'[d] = call[d] /\ Todo(d)' = Todo(d)
      /\ Todo(c)' = n
  BY <1>3, <1>4 DEF Running, Todo
<1>9. ToldInv'
  BY <1>1, <1>6, <1>7, <1>8 DEF ToldInv
<1>10. ASSUME NEW q \in Sku, q \notin past'.mixed
       PROVE  ReplayOf(q)'
  <2>1. ReplayOf(q)
    BY <1>7, <1>10 DEF ReplayInv
  <2>2. On(q)' = On(q) \cup {d \in {c} : q = s}
    BY <1>3, <1>4, <1>6, <1>8 DEF On
  <2>3. \A d \in On(q) : d \in Running
    BY DEF On
  <2>4. Editors(q)' = Editors(q) \cup {d \in {c} : q = s /\ op \in Edits}
    BY <1>3, <1>4, <1>8, <2>2, <2>3 DEF Editors
  <2>5. op \in Edits => ~OwedAt(op, n)
    BY DEF OwedAt, Changed
  <2>6. \A d \in Editors(q) : (Owed(d)' <=> Owed(d)) /\ call'[d] = call[d]
                              /\ Todo(d)' = Todo(d)
    BY <1>8, <2>3 DEF Editors, Owed
  <2>7. op \in Edits => ~Owed(c)'
    BY <1>3, <1>4, <1>8, <2>5 DEF Owed, OwedAt, Changed
  <2>8. q = s /\ op \in Edits =>
           Editors(q) = {} /\ \A d \in On(q) : call[d].op # "import"
    BY <1>7, <1>10 DEF Editors
  <2>9. \A d, f \in Editors(q)' : d = f
    BY <2>1, <2>4, <2>8 DEF ReplayOf
  <2>10. (\A d \in On(q) : call[d].op = "import" /\ Todo(d) = 1 =>
            Editors(q) = {} /\ call[d].after = <<d, call[d].arg>>)'
    <3> SUFFICES ASSUME NEW d \in On(q)', call'[d].op = "import", Todo(d)' = 1
                 PROVE  Editors(q)' = {} /\ call'[d].after = <<d, call'[d].arg>>
      OBVIOUS
    <3>1. d # c
      BY <1>3, <1>4, <1>8
    <3>2. d \in On(q) /\ call'[d] = call[d] /\ Todo(d)' = Todo(d)
      BY <1>8, <2>2, <2>3, <3>1
    <3>3. Editors(q) = {} /\ call[d].after = <<d, call[d].arg>> /\ call[d].op = "import"
      BY <2>1, <3>2 DEF ReplayOf
    <3> QED
      BY <2>4, <2>8, <3>2, <3>3
  <2>11. (\E d \in Editors(q)' : Owed(d)' /\ call'[d].op = "delete") <=>
            \E d \in Editors(q) : Owed(d) /\ call[d].op = "delete"
    BY <2>4, <2>6, <2>7
  <2>12. (\E d \in Editors(q)' : Owed(d)') <=> \E d \in Editors(q) : Owed(d)
    BY <2>4, <2>6, <2>7
  <2>13. (Dead(q)' <=> Dead(q)) /\ Shown(product[q])' = Shown(product[q])
    BY <1>2 DEF Dead, Shown
  <2>14. (Dead(q) <=> \/ DeleteTold(history[q])
                      \/ \E d \in Editors(q) : Owed(d) /\ call[d].op = "delete")'
    BY <1>2, <2>1, <2>11, <2>13 DEF ReplayOf, DeleteTold
  <2>15. (\/ Shown(product[q]) = Replayed(history[q])
          \/ \E d \in Editors(q) : Owed(d))'
    BY <1>2, <2>1, <2>12, <2>13 DEF ReplayOf
  <2>16. ASSUME NEW d \in Editors(q)', Owed(d)'
         PROVE  d \in past'.done \ past'.told /\ Fits(d, q)'
    <3>1. d \in Editors(q) /\ Owed(d) /\ call'[d] = call[d] /\ Todo(d)' = Todo(d)
      BY <2>4, <2>6, <2>7, <2>16
    <3>2. d \in past.done \ past.told /\ Fits(d, q)
      BY <2>1, <3>1 DEF ReplayOf
    <3>3. Fits(d, q)'
      BY <1>2, <2>13, <3>1, <3>2 DEF Fits
    <3> QED
      BY <1>7, <3>2, <3>3
  <2> QED
    BY <2>9, <2>10, <2>14, <2>15, <2>16 DEF ReplayOf
<1> QED
  BY <1>9, <1>10 DEF ReplayInv

LEMMA NewReplay ==
  ASSUME IInv, ReplayInv, Edit \/ Import \/ TaxRate \/ Image \/ Look
  PROVE  ReplayInv'
<1>1. ASSUME NEW op, NEW s, NEW arg, NEW v, NEW w, NEW x, Arrive(op, s, arg, <<v, w, x>>)
      PROVE  ReplayInv'
  <2> DEFINE todo == <<v, w, x>>
  <2>1. Len(todo) = 3 /\ Arrive(op, s, arg, todo)
    BY <1>1
  <2> HIDE DEF todo
  <2>2. PICK n \in Nat : n = Len(todo) /\ n >= 3
    BY <2>1
  <2> QED
    BY <2>1, <2>2, ArriveReplay
<1>2. ASSUME NEW op, NEW s, NEW arg, NEW v, NEW w, NEW x, NEW y,
             Arrive(op, s, arg, <<v, w, x, y>>)
      PROVE  ReplayInv'
  <2> DEFINE todo == <<v, w, x, y>>
  <2>1. Len(todo) = 4 /\ Arrive(op, s, arg, todo)
    BY <1>2
  <2> HIDE DEF todo
  <2>2. PICK n \in Nat : n = Len(todo) /\ n >= 3
    BY <2>1
  <2> QED
    BY <2>1, <2>2, ArriveReplay
<1>3. ASSUME NEW op, NEW s, NEW arg, NEW v, NEW w, NEW x, NEW y, NEW z,
             Arrive(op, s, arg, <<v, w, x, y, z>>)
      PROVE  ReplayInv'
  <2> DEFINE todo == <<v, w, x, y, z>>
  <2>1. Len(todo) = 5 /\ Arrive(op, s, arg, todo)
    BY <1>3
  <2> HIDE DEF todo
  <2>2. PICK n \in Nat : n = Len(todo) /\ n >= 3
    BY <2>1
  <2> QED
    BY <2>1, <2>2, ArriveReplay
<1>4. ASSUME NEW s, Arrive("detail", s, <<>>, <<"detail">>)
      PROVE  ReplayInv'
  <2>1. Len(<<"detail">>) = 1 /\ "detail" \notin Edits \cup {"import"}
    BY DEF Edits
  <2> QED
    BY <1>4, <2>1, ArriveReplay
<1>5. CASE Edit
  BY <1>1, <1>3, <1>5 DEF Edit
<1>6. CASE Import
  BY <1>2, <1>6 DEF Import
<1>7. CASE TaxRate
  BY <1>1, <1>7 DEF TaxRate
<1>8. CASE Image
  BY <1>3, <1>8 DEF Image
<1>9. CASE Look
  BY <1>1, <1>4, <1>9 DEF Look
<1> QED
  BY <1>5, <1>6, <1>7, <1>8, <1>9

LEMMA InitReplay == Init => ReplayInv
<1> SUFFICES ASSUME Init PROVE ReplayInv
  OBVIOUS
<1>1. Made = {} /\ Running = {} /\ \A s : On(s) = {} /\ Editors(s) = {}
  BY DEF Init, Made, Running, On, Editors
<1>2. ASSUME NEW s \in Sku
      PROVE  Shown(product[s]) = Replayed(history[s])
             /\ ~Dead(s) /\ ~DeleteTold(history[s])
  <2> DEFINE new == [val |-> Seed, shelf |-> TRUE, deleted |-> FALSE]
             e == [call |-> Seed, op |-> "create", stamp |-> 1,
                   before |-> NoRow, after |-> <<Seed, TRUE>>]
  <2>1. \/ product[s] = new /\ history[s] = <<e>>
        \/ product[s] = NoRow /\ history[s] = <<>>
    BY DEF Init
  <2>2. CASE product[s] = NoRow /\ history[s] = <<>>
    BY <2>2, ReplayedNone DEF Shown, Dead, DeleteTold
  <2>3. CASE product[s] = new /\ history[s] = <<e>>
    <3>1. new.val = Seed /\ new.shelf = TRUE /\ ~new.deleted /\ new # NoRow
      <4>1. DOMAIN new # {} /\ DOMAIN NoRow = {}
        BY DEF NoRow
      <4> QED
        BY <4>1
    <3>2. e.op = "create" /\ e.after = <<Seed, TRUE>>
      OBVIOUS
    <3>3. Shown(product[s]) = <<Seed, TRUE>>
      BY <2>3, <3>1 DEF Shown
    <3> HIDE DEF new, e
    <3>4. <<e>> = Append(<<>>, e) /\ Len(<<>>) = 0 /\ DOMAIN <<>> = 1 .. 0
      OBVIOUS
    <3>5. Replayed(<<e>>) = <<Seed, TRUE>>
      <4>1. PICK h, f : /\ Len(h) = 0 /\ DOMAIN h = 1 .. Len(h)
                        /\ <<e>> = Append(h, f) /\ f = e
        BY <3>4
      <4>2. Replayed(Append(h, f)) = Replay(f, Replayed(h))
        <5>1. Len(h) \in Nat
          BY <4>1
        <5> QED
          BY <4>1, <5>1, ReplayedAppend
      <4> QED
        BY <3>2, <4>1, <4>2 DEF Replay
    <3>6. ~DeleteTold(<<e>>)
      <4>1. DOMAIN <<e>> = 1 .. 1 /\ <<e>>[1] = e
        OBVIOUS
      <4> QED
        BY <3>2, <4>1 DEF DeleteTold
    <3> QED
      BY <2>3, <3>1, <3>3, <3>5, <3>6 DEF Dead
  <2> QED
    BY <2>1, <2>2, <2>3
<1>3. \A s \in Sku : ReplayOf(s)
  BY <1>1, <1>2 DEF ReplayOf
<1> QED
  BY <1>1, <1>3 DEF ReplayInv, ToldInv

\* Every step keeps the two invariants.
LEMMA NextReplay == IInv /\ ReplayInv /\ [Next]_vars => ReplayInv'
<1> SUFFICES ASSUME IInv, ReplayInv, [Next]_vars PROVE ReplayInv'
  OBVIOUS
<1>1. CASE Edit \/ Import \/ TaxRate \/ Image \/ Look
  BY <1>1, NewReplay
<1>2. CASE Tick \/ UNCHANGED vars
  <2>1. UNCHANGED <<product, history, call, past>>
    BY <1>2 DEF Tick, vars
  <2>2. /\ \A s : On(s)' = On(s) /\ Editors(s)' = Editors(s)
        /\ Running' = Running /\ \A c : Todo(c)' = Todo(c)
    BY <2>1 DEF On, Editors, Running, Made, Todo
  <2>3. ToldInv'
    BY <2>1, <2>2 DEF ReplayInv, ToldInv
  <2>4. \A c : Owed(c)' <=> Owed(c)
    BY <2>1, <2>2 DEF Owed, OwedAt, Changed
  <2>5. \A c, s : Fits(c, s)' <=> Fits(c, s)
    BY <2>1, <2>2 DEF Fits, Shown
  <2>6. \A s \in Sku : ReplayOf(s) => ReplayOf(s)'
    BY <2>1, <2>2, <2>4, <2>5 DEF ReplayOf, Dead, Shown, DeleteTold
  <2> QED
    BY <2>1, <2>3, <2>6 DEF ReplayInv
<1>3. ASSUME NEW c \in Made,
             \/ Exists(c) \/ Before(c) \/ After(c) \/ Insert(c) \/ Update(c)
             \/ Begin(c) \/ Upsert(c) \/ Commit(c) \/ AddRate(c) \/ ChangeRate(c)
             \/ Record(c) \/ Notify(c) \/ WriteFile(c) \/ InsertImage(c)
             \/ FindImage(c) \/ DeleteImage(c) \/ RemoveFile(c) \/ Detail(c)
             \/ Verify(c) \/ Fetch(c) \/ Read(c) \/ Cut(c)
      PROVE  ReplayInv'
  <2>1. CASE \/ Exists(c) \/ Before(c) \/ Begin(c) \/ Notify(c) \/ FindImage(c)
             \/ AddRate(c) \/ ChangeRate(c) \/ WriteFile(c) \/ InsertImage(c)
             \/ DeleteImage(c) \/ RemoveFile(c) \/ Detail(c)
             \/ Verify(c) \/ Fetch(c) \/ Read(c)
    BY <2>1, OthersReplay
  <2>2. CASE After(c)
    BY <2>2, AfterReplay
  <2>3. CASE Insert(c) \/ Update(c)
    BY <2>3, ProductReplay
  <2>4. CASE Record(c)
    BY <2>4, RecordReplay
  <2>5. CASE Commit(c)
    BY <2>5, CommitReplay
  <2>6. CASE Upsert(c)
    BY <2>6, UpsertReplay
  <2>7. CASE Cut(c)
    BY <2>7, CutReplay
  <2> QED
    BY <1>3, <2>1, <2>2, <2>3, <2>4, <2>5, <2>6, <2>7
<1> QED
  BY <1>1, <1>2, <1>3 DEF Next

\* The history of a product tells what became of it: unless changes of it
\* overlapped or one was cut short before it was told, the records lead to the
\* row that is stored.
THEOREM HistoryIsTold == Spec => []HistoryHolds
<1>1. Init => IInv /\ ReplayInv
  BY InitIInv, InitReplay
<1>2. (IInv /\ ReplayInv) /\ [Next]_vars => (IInv /\ ReplayInv)'
  BY NextInv, NextReplay
<1>3. IInv /\ ReplayInv => HistoryHolds
  <2> SUFFICES ASSUME IInv, ReplayInv PROVE HistoryHolds
    OBVIOUS
  <2>1. TypeOK /\ ChangesAreTold /\ ListedInOrder
    BY DEF IInv
  <2>2. ASSUME NEW s \in Sku, s \notin past.mixed, On(s) = {}
        PROVE  /\ Shown(product[s]) = Replayed(history[s])
               /\ product[s] # NoRow => (product[s].deleted <=>
                     \E i \in DOMAIN history[s] : history[s][i].op = "delete")
    <3>1. ReplayOf(s) /\ Editors(s) = {}
      BY <2>2 DEF ReplayInv, Editors
    <3> QED
      BY <3>1 DEF ReplayOf, Dead, DeleteTold
  <2> QED
    BY <2>1, <2>2 DEF HistoryHolds, HistoryReplays
<1> QED
  BY <1>1, <1>2, <1>3, PTL DEF Spec
=============================================================================
