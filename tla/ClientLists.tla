----------------------------- MODULE ClientLists -----------------------------
(***************************************************************************)
(* A list of the browser client that grows with "Load more" (products,     *)
(* observations, alert events, candidates in pages.rs), the request policy *)
(* of api.rs (three seconds, one retry of a GET, none of anything else),   *)
(* and the LoadMore and DataTable components.                              *)
(*                                                                         *)
(* Requests overlap and are answered in any order; a request the client    *)
(* has given up may still reach the server.  A task keeps the rows, the    *)
(* page number and the filters of the moment the user pressed the button.  *)
(***************************************************************************)
EXTENDS Naturals, Sequences, FiniteSets, SequencesExt

CONSTANTS
    Row,         \* rows the server may come to hold, as numbers
    First,       \* how many of them it holds at the start
    Filters,     \* settings of the form: the sets of rows each lets through
    PageSize,    \* rows the client asks for at once (50 in the code)
    TableSize,   \* rows on a page of the DataTable (25 in the code)
    MaxFetches,  \* bound: fetches started
    MaxPresses,  \* bound: presses of a button that changes something
    MaxListFaults    \* bound: failing attempts

ASSUME ListAssumption ==
    /\ PageSize \in Nat \ {0} /\ TableSize \in Nat \ {0} /\ First \in Nat
    /\ Row \subseteq Nat /\ 1..First \subseteq Row
    /\ Row \in Filters /\ Filters \subseteq SUBSET Row
    /\ MaxListFaults \in Nat

VARIABLES
    db,       \* the server's rows, the newest first
    form,     \* the filter set in the form
    list,     \* LoadState: "loading", "loaded" or "failed"
    rows,     \* the rows held while it is loaded
    page, total, more,  \* page, total and loading_more of the body
    tpage,    \* page of the DataTable
    fetches,  \* fetch tasks waiting for an answer
    presses,  \* mutations waiting for an answer
    unheard,   \* mutations given up that may still reach the server
    toasts,   \* toasts[n]: what the user was told of press n
    done,     \* done[n]: times the server carried press n out (history)
    tries,    \* tries[n]: requests sent by fetch n (history)
    snap,     \* rows and filter of the last load from the start (history)
    clean,    \* nothing disturbed the list since then (history)
    listFaults

bodyVars == <<form, list, rows, page, total, more, tpage>>
listVars == <<db, form, list, rows, page, total, more, tpage, fetches, presses,
          unheard, toasts, done, tries, snap, clean, listFaults>>

\* LIMIT and OFFSET of the handler, and the rows that a filter lets through.
Slice(s, p) ==
    SubSeq(s, (p - 1) * PageSize + 1,
           IF p * PageSize < Len(s) THEN p * PageSize ELSE Len(s))
Matching(s, f) ==
    LET found[n \in 0..Len(s)] ==
            IF n = 0 THEN <<>>
            ELSE IF s[n] \in f THEN Append(found[n - 1], s[n]) ELSE found[n - 1]
    IN  found[Len(s)]

NoReply == [rows |-> <<>>, total |-> 0]
Fetch == [n : Nat, page : Nat \ {0}, append : BOOLEAN, existing : Seq(Row),
          filter : Filters, attempt : 0..1, stage : {"sent", "answered"},
          reply : [rows : Seq(Row), total : Nat]]
Press == [n : Nat, row : Row, filter : Filters,
          stage : {"sent", "answered"}]

ListTypeOK ==
    /\ db \in Seq(Row)
    /\ form \in Filters
    /\ list \in {"loading", "loaded", "failed"}
    /\ rows \in Seq(Row)
    /\ page \in Nat \ {0} /\ total \in Nat /\ more \in BOOLEAN /\ tpage \in Nat
    /\ fetches \subseteq Fetch
    /\ presses \subseteq Press /\ unheard \subseteq Press
    /\ toasts \in Seq({"none", "success", "error"})
    /\ done \in Seq(Nat) /\ Len(done) = Len(toasts)
    /\ tries \in Seq(Nat)
    /\ snap \in [rows : Seq(Row), filter : Filters]
    /\ clean \in BOOLEAN
    /\ listFaults \in 0..MaxListFaults

\* fetch(target_page, append): the page number moves before the answer comes.
\* snap and clean are history: a fresh load with nothing else under way starts
\* a clean list; a request that overlaps another, or that adds rows of another
\* filter, ends it.
StartFetch(p, append, f) ==
    /\ Len(tries) < MaxFetches
    /\ page' = p
    /\ IF append THEN /\ more' = TRUE
                      /\ UNCHANGED <<list, rows>>
                 ELSE /\ list' = "loading" /\ rows' = <<>>
                      /\ more' = more
    /\ tries' = Append(tries, 1)
    /\ fetches' = fetches \cup
          {[n |-> Len(tries) + 1, page |-> p, append |-> append,
            existing |-> IF append THEN rows ELSE <<>>, filter |-> f,
            attempt |-> 0, stage |-> "sent", reply |-> NoReply]}
    /\ clean' = /\ fetches = {}
                /\ append => clean /\ f = snap.filter

\* Mount: the effect of the body emits (1, FALSE).
ListInit ==
    /\ db = [i \in 1..First |-> First + 1 - i]
    /\ form = Row
    /\ list = "loading" /\ rows = <<>>
    /\ page = 1 /\ total = 0 /\ more = FALSE /\ tpage = 0
    /\ fetches = {[n |-> 1, page |-> 1, append |-> FALSE, existing |-> <<>>,
                   filter |-> Row, attempt |-> 0, stage |-> "sent",
                   reply |-> NoReply]}
    /\ presses = {} /\ unheard = {}
    /\ toasts = <<>> /\ done = <<>> /\ tries = <<1>>
    /\ snap = [rows |-> <<>>, filter |-> Row]
    /\ clean = TRUE /\ listFaults = 0

-----------------------------------------------------------------------------
(* The user *)

\* Retry on the error card, or a search: the form as it stands is sent.
Reload ==
    /\ StartFetch(1, FALSE, form)
    /\ UNCHANGED <<db, form, total, tpage, presses, unheard, toasts, done,
                   snap, listFaults>>

\* A field of the search form.
Type(f) ==
    /\ f # form
    /\ form' = f
    /\ UNCHANGED <<db, list, rows, page, total, more, tpage, fetches, presses,
                   unheard, toasts, done, tries, snap, clean, listFaults>>

\* Clear empties the fields; the reload it emits still holds the old ones.
Clear ==
    /\ StartFetch(1, FALSE, form)
    /\ form' = Row
    /\ UNCHANGED <<db, total, tpage, presses, unheard, toasts, done, snap,
                   listFaults>>

\* Slip: the page just loaded is asked for again.
LoadSamePage ==
    /\ list = "loaded" /\ ~more
    /\ Len(rows) < total
    /\ StartFetch(page, TRUE, form)
    /\ UNCHANGED <<db, form, total, tpage, presses, unheard, toasts, done,
                   snap, listFaults>>

\* The button is there while rows are missing, and disabled while it loads.
LoadMore ==
    /\ list = "loaded" /\ ~more
    /\ Len(rows) < total
    /\ StartFetch(page + 1, TRUE, form)
    /\ UNCHANGED <<db, form, total, tpage, presses, unheard, toasts, done,
                   snap, listFaults>>

TablePages == (Len(rows) + TableSize - 1) \div TableSize

\* ListNext and Prev of the DataTable.
TurnPage ==
    /\ list = "loaded"
    /\ \/ /\ tpage + 1 < TablePages
          /\ tpage' = tpage + 1
       \/ /\ tpage > 0
          /\ tpage' = tpage - 1
    /\ UNCHANGED <<db, form, list, rows, page, total, more, fetches, presses,
                   unheard, toasts, done, tries, snap, clean, listFaults>>

\* A button that adds or removes row r.
PressButton(r) ==
    /\ Len(done) < MaxPresses
    /\ done' = Append(done, 0) /\ toasts' = Append(toasts, "none")
    /\ presses' = presses \cup {[n |-> Len(done) + 1, row |-> r,
                                 filter |-> form, stage |-> "sent"]}
    /\ UNCHANGED <<db, bodyVars, fetches, unheard, tries, snap, clean, listFaults>>

-----------------------------------------------------------------------------
(* The server *)

\* A handler reads the page that the fetch asks for.
AnswerFetch(f) ==
    LET found == Matching(db, f.filter)
    IN  /\ f \in fetches /\ f.stage = "sent"
        /\ fetches' = (fetches \ {f}) \cup
              {[f EXCEPT !.stage = "answered",
                         !.reply = [rows |-> Slice(found, f.page),
                                    total |-> Len(found)]]}
        /\ IF f.append
           THEN /\ clean' = (clean /\ found = snap.rows)
                /\ UNCHANGED snap
           ELSE /\ snap' = [rows |-> found, filter |-> f.filter]
                /\ UNCHANGED clean
        /\ UNCHANGED <<db, bodyVars, presses, unheard, toasts, done, tries,
                       listFaults>>

Toggled(r) ==
    IF r \in ToSet(db) THEN Matching(db, Row \ {r}) ELSE <<r>> \o db

CarryOut(w) ==
    /\ w.stage = "sent"
    /\ \/ /\ w \in presses
          /\ presses' = (presses \ {w}) \cup {[w EXCEPT !.stage = "answered"]}
          /\ UNCHANGED unheard
       \/ /\ w \in unheard
          /\ unheard' = unheard \ {w}
          /\ UNCHANGED presses
    /\ db' = Toggled(w.row)
    /\ done' = [done EXCEPT ![w.n] = @ + 1]
    /\ UNCHANGED <<bodyVars, fetches, toasts, tries, snap, clean, listFaults>>

-----------------------------------------------------------------------------
(* The client's tasks *)

\* Slip: a table keeps its page whatever was shown in between.
ShowKeepingPage(new, n) ==
    /\ list' = "loaded" /\ rows' = new /\ total' = n
    /\ more' = FALSE /\ tpage' = tpage

\* A table that is rendered again after something else starts on page 0.
Show(new, n) ==
    /\ list' = "loaded" /\ rows' = new /\ total' = n
    /\ more' = FALSE
    /\ tpage' = IF list = "loaded" THEN tpage ELSE 0

ReceiveFetch(f) ==
    /\ f \in fetches /\ f.stage = "answered"
    /\ fetches' = fetches \ {f}
    /\ Show(f.existing \o f.reply.rows, f.reply.total)
    /\ UNCHANGED <<db, form, page, presses, unheard, toasts, done, tries, snap,
                   clean, listFaults>>

\* Slip: the attempts are not counted.
RetryForever(f) ==
    /\ f \in fetches
    /\ listFaults < MaxListFaults + 1
    /\ listFaults' = listFaults + f.attempt
    /\ tries' = [tries EXCEPT ![f.n] = @ + 1]
    /\ fetches' = (fetches \ {f}) \cup
          {[f EXCEPT !.attempt = 1, !.stage = "sent", !.reply = NoReply]}
    /\ UNCHANGED <<db, bodyVars, presses, unheard, toasts, done, snap, clean>>

\* Timeout, broken connection or 5xx: a GET is tried again, once.
RetryFetch(f) ==
    /\ f \in fetches /\ f.attempt = 0
    /\ listFaults < MaxListFaults
    /\ listFaults' = listFaults + 1
    /\ tries' = [tries EXCEPT ![f.n] = @ + 1]
    /\ fetches' = (fetches \ {f}) \cup
          {[f EXCEPT !.attempt = 1, !.stage = "sent", !.reply = NoReply]}
    /\ UNCHANGED <<db, bodyVars, presses, unheard, toasts, done, snap, clean>>

\* Slip: the button is left in its loading state, and listFaults are not counted.
FailSilently(f) ==
    /\ f \in fetches
    /\ listFaults' = listFaults + 1
    /\ fetches' = fetches \ {f}
    /\ IF f.append
       THEN /\ clean' = FALSE
            /\ UNCHANGED <<list, rows>>
       ELSE /\ list' = "failed" /\ rows' = <<>>
            /\ UNCHANGED clean
    /\ UNCHANGED <<db, form, page, total, more, tpage, presses, unheard, toasts,
                   done, tries, snap>>

\* The retry fails too, or the first answer is one that is not retried (4xx).
\* An append that fails leaves the rows and the page number as they are.
FailFetch(f) ==
    /\ f \in fetches
    /\ listFaults < MaxListFaults
    /\ listFaults' = listFaults + 1
    /\ fetches' = fetches \ {f}
    /\ more' = FALSE
    /\ IF f.append
       THEN /\ clean' = FALSE
            /\ UNCHANGED <<list, rows>>
       ELSE /\ list' = "failed" /\ rows' = <<>>
            /\ UNCHANGED clean
    /\ UNCHANGED <<db, form, page, total, tpage, presses, unheard, toasts, done,
                   tries, snap>>

\* Slip: the list is left as it is.
ReceiveOnly(w) ==
    /\ w \in presses /\ w.stage = "answered"
    /\ presses' = presses \ {w}
    /\ toasts' = [toasts EXCEPT ![w.n] = "success"]
    /\ UNCHANGED <<db, bodyVars, fetches, unheard, done, tries, snap, clean,
                   listFaults>>

\* A success is told and the list loads again from page 1, with the filters of
\* the moment the button was pressed.
ReceivePress(w) ==
    /\ w \in presses /\ w.stage = "answered"
    /\ presses' = presses \ {w}
    /\ toasts' = [toasts EXCEPT ![w.n] = "success"]
    /\ StartFetch(1, FALSE, w.filter)
    /\ UNCHANGED <<db, form, total, tpage, unheard, done, snap, listFaults>>

\* The client gives up, whether or not the server has acted or will.
LosePress(w) ==
    /\ w \in presses
    /\ listFaults < MaxListFaults
    /\ listFaults' = listFaults + 1
    /\ presses' = presses \ {w}
    /\ unheard' = IF w.stage = "sent" THEN unheard \cup {w} ELSE unheard
    /\ toasts' = [toasts EXCEPT ![w.n] = "error"]
    /\ UNCHANGED <<db, bodyVars, fetches, done, tries, snap, clean>>

StepFetch(f) == ReceiveFetch(f) \/ RetryFetch(f) \/ FailFetch(f)

ListNext ==
    \/ Reload \/ Clear \/ LoadMore \/ TurnPage
    \/ \E f \in Filters : Type(f)
    \/ \E r \in Row : PressButton(r)
    \/ \E f \in fetches : AnswerFetch(f) \/ StepFetch(f)
    \/ \E w \in presses \cup unheard : CarryOut(w)
    \/ \E w \in presses : ReceivePress(w) \/ LosePress(w)

\* The three-second timer ends every request that is not answered, so a fetch
\* that can take a step takes one.
ListFairness == WF_listVars(\E f \in fetches : AnswerFetch(f))
            /\ WF_listVars(\E f \in fetches : StepFetch(f))

ListSpec == ListInit /\ [][ListNext]_listVars /\ ListFairness

-----------------------------------------------------------------------------
(* Properties *)

\* A GET is sent at most twice, whatever fails, and nothing else is sent more
\* than once: the server carries a press out at most once, and exactly once
\* when the user is told that it succeeded.
RetryPolicy ==
    /\ \A n \in DOMAIN tries : tries[n] <= 2
    /\ \A n \in DOMAIN done : /\ done[n] <= 1
                              /\ toasts[n] = "success" => done[n] = 1

\* While no two loads overlapped, no append failed and the filters and the
\* server's rows stayed as they were between the pages, the list is the first
\* pages of the answer: no row is missing and none is there twice.
ExactWhenClean ==
    clean /\ list = "loaded" /\ fetches = {} =>
        rows = SubSeq(snap.rows, 1, IF page * PageSize < Len(snap.rows)
                                    THEN page * PageSize ELSE Len(snap.rows))

\* Once everything has been answered and no press was reported as failed, the
\* list shows the effect of every press.
FreshWhenSettled ==
    /\ clean /\ list = "loaded"
    /\ fetches = {} /\ presses = {}
    /\ \A n \in DOMAIN toasts : toasts[n] = "success"
    => snap.rows = Matching(db, snap.filter)

\* The slice that the DataTable cuts out of the rows exists.  When loads
\* overlap it may not: the rows can shrink under a table that stays mounted.
TableInRange ==
    clean /\ list = "loaded" => tpage * TableSize <= Len(rows)

\* Neither the page nor the "Load more" button stays in its loading state.
SpinnerStops ==
    /\ list = "loading" ~> list # "loading"
    /\ more ~> ~more

\* A list tells the truth about the server as far as its requests were answered
\* in order, and a press is carried out as often as the user is told.
ListsTruthful ==
    ListTypeOK /\ RetryPolicy /\ ExactWhenClean /\ FreshWhenSettled /\ TableInRange
==============================================================================
