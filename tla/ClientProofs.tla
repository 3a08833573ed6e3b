---------------------------- MODULE ClientProofs ----------------------------
(***************************************************************************)
(* Safety of the browser client.  ClientSession for any users, tabs and    *)
(* sessions, and any number of acts and failures: each tab keeps one       *)
(* refresh task, a tab shows the user of its token, and sign-out leaves no *)
(* live cookie.  ClientLists for any rows, filters and page sizes, and any *)
(* number of loads, presses and failures: a list that was loaded in order  *)
(* is the first pages of what the server holds.                            *)
(***************************************************************************)
EXTENDS ClientSession, ClientLists, SequenceTheorems, WellFoundedInduction, TLAPS

\* The refresh tasks that have not been told to stop.
LiveOf(ts) == {r \in ts : r.kind = "refresh" /\ ~r.stale}

\* Only a successful sign-in or renewal issues a session, no session is issued
\* twice, and the token of a tab is not on its way to it.  Only refresh tasks
\* sleep.
ReplyInv ==
    /\ \A r \in AllTasks :
          /\ r.stage \in {"sleep", "backoff"} => r.kind = "refresh"
          /\ r.ok => r.stage = "answered"
          /\ r.reply # None <=> r.ok /\ r.kind \in {"refresh", "login"}
    /\ \A t \in Tab : \A r \in tasks[t] : r.reply # None =>
          /\ r.reply # auth[t].token
          /\ \A q \in tasks[t] : q.reply = r.reply => q = r

\* Every answer but that of a sign-in ends, or finds ended, the session that the
\* request carried.
SpentInv ==
    \A r \in AllTasks :
        r.stage = "answered" /\ r.kind # "login" => ~Live(r.carries)

\* What the tasks of t may rely on as long as nothing came out of turn.
RefreshOK(t, r) ==
    r.kind = "refresh" /\ ~r.stale =>
        /\ SignedIn(t) /\ r.user = auth[t].user
        /\ r.stage \in {"sent", "answered"} => r.carries = cookie

LoginOK(t, r) ==
    r.kind = "login" =>
        /\ ~r.stale => ~SignedIn(t)
        /\ \A q \in tasks[t] : q.kind = "login" => q = r

\* A change of password that succeeded finds no renewal that did.
PasswordOK(t, r) ==
    r.kind = "password" /\ ~r.stale =>
        /\ SignedIn(t)
        /\ Live(r.carries) \/ r.ok => r.carries = cookie
        /\ r.ok => \A q \in LiveOf(tasks[t]) : ~q.ok

IssuedOK(r) == r.reply # None /\ ~r.stale => sess[r.reply].user = r.user

\* While signed in, the token and the cookie are of one session, which is the
\* user's; while signed out, the cookie is of none that lives.
TabInv(t) ==
    /\ IF SignedIn(t)
       THEN cookie = auth[t].token /\ sess[cookie].user = auth[t].user
       ELSE ~Live(cookie)
    /\ \A r \in tasks[t] : /\ RefreshOK(t, r) /\ LoginOK(t, r)
                           /\ PasswordOK(t, r) /\ IssuedOK(r)

TurnInv == OneTab /\ ~upset => \A t \in Tab : TabInv(t)

IInv == TypeOK /\ OneRefreshTask /\ ReplyInv /\ SpentInv /\ TurnInv
-----------------------------------------------------------------------------
(* Tasks and sessions *)

\* The tasks of the client are those of the tabs and the strays.
LEMMA AllTasksIs ==
  /\ \A r : r \in AllTasks <=> r \in strays \/ \E t \in Tab : r \in tasks[t]
  /\ \A r : r \in AllTasks' <=> r \in strays' \/ \E t \in Tab : r \in tasks'[t]
BY DEF AllTasks

\* A session that anybody refers to is not issued again.
LEMMA HeldIsNotFree ==
  /\ cookie \notin Free
  /\ \A t \in Tab : auth[t].token \notin Free
  /\ \A r \in AllTasks : r.carries \notin Free /\ r.reply \notin Free
BY DEF Free, Held

\* A session is issued only while one is free.
LEMMA NewIsFree ==
  ASSUME Free # {}
  PROVE  NewSession \in Free /\ NewSession \in Session /\ NewSession # None
<1>1. NewSession \in Free
  BY DEF NewSession
<1>2. Free \subseteq Session
  BY DEF Free
<1>3. None \notin Session
  BY DEF None, Session
<1> QED
  BY <1>1, <1>2, <1>3

\* Sessions, and None, are numbers up to the bound.
LEMMA Bounds == None \in 0..MaxSession /\ Session \subseteq 0..MaxSession
BY BoundAssumption DEF None, Session

\* The fields of a task.
LEMMA TaskFields ==
  ASSUME NEW r \in Task
  PROVE  /\ r.kind \in Kind /\ r.stage \in Stage /\ r.user \in User
         /\ r.stale \in BOOLEAN /\ r.ok \in BOOLEAN
         /\ r.carries \in 0..MaxSession /\ r.reply \in 0..MaxSession
BY DEF Task

\* A task that has no answer yet.
Fresh(r) == ~r.ok /\ r.reply = None /\ r.stage # "answered"

\* A request that is sent carries the cookie of the moment.
LEMMA WaitingIs ==
  ASSUME NEW kind \in Kind, NEW u \in User, TypeOK
  PROVE  /\ Waiting(kind, u) \in Task /\ Fresh(Waiting(kind, u))
         /\ Waiting(kind, u).kind = kind /\ Waiting(kind, u).user = u
         /\ ~Waiting(kind, u).stale /\ Waiting(kind, u).carries = cookie
         /\ Waiting(kind, u).stage = "sent"
BY Bounds DEF Waiting, Task, Fresh, TypeOK, Stage

\* The refresh task that a new token starts.
LEMMA SleepingIs ==
  ASSUME NEW u \in User
  PROVE  /\ Sleeping(u) \in Task /\ Fresh(Sleeping(u))
         /\ Sleeping(u).kind = "refresh" /\ Sleeping(u).user = u
         /\ ~Sleeping(u).stale /\ Sleeping(u).stage = "sleep"
BY Bounds DEF Sleeping, Task, Fresh, Stage, Kind

\* There is an AuthState without a token, since there is a user.
LEMMA SignedOutIs ==
  /\ SignedOut \in [token : 0..MaxSession, user : User]
  /\ SignedOut.token = None
BY UserAssumption, Bounds DEF SignedOut

\* What cancelling leaves of a task.
Kept(q, r) ==
    /\ q.kind = r.kind /\ q.stage = r.stage /\ q.user = r.user
    /\ q.carries = r.carries /\ q.reply = r.reply /\ q.ok = r.ok
    /\ r.stale => q.stale

\* Cancelling changes nothing but the flag, and sets that of refresh tasks.
LEMMA CancelledIs ==
  ASSUME NEW ts \in SUBSET Task, NEW a, NEW q \in Cancelled(ts, a)
  PROVE  /\ q \in Task
         /\ q.kind = "refresh" \/ a.token = None => q.stale
         /\ \E r \in ts : Kept(q, r) /\ q = [r EXCEPT !.stale = q.stale]
                          /\ q.stale = (r.stale \/ r.kind = "refresh"
                                                \/ a.token = None)
<1>1. PICK r \in ts : q = [r EXCEPT !.stale = @ \/ r.kind = "refresh"
                                                \/ a.token = None]
  BY DEF Cancelled
<1>2. r \in Task
  OBVIOUS
<1>3. PICK b \in BOOLEAN : b = (r.stale \/ r.kind = "refresh" \/ a.token = None)
  BY <1>2, TaskFields
<1>4. q = [r EXCEPT !.stale = b]
  BY <1>1, <1>2, <1>3 DEF Task
<1>5. q \in Task /\ q.stale = b /\ q.kind = r.kind /\ q.stage = r.stage
      /\ q.user = r.user /\ q.carries = r.carries /\ q.reply = r.reply
      /\ q.ok = r.ok
  BY <1>2, <1>4 DEF Task
<1>6. Kept(q, r)
  BY <1>3, <1>5 DEF Kept
<1> QED
  BY <1>3, <1>4, <1>5, <1>6

\* Two of them with one answer were two with one answer.
LEMMA CancelledApart ==
  ASSUME NEW ts \in SUBSET Task, NEW a, NEW p \in Cancelled(ts, a),
         NEW q \in Cancelled(ts, a), p.reply = q.reply,
         \A r, s \in ts : r.reply = p.reply /\ s.reply = p.reply => r = s
  PROVE  p = q
<1>1. PICK r \in ts : r.reply = p.reply /\ p = [r EXCEPT !.stale = p.stale]
         /\ p.stale = (r.stale \/ r.kind = "refresh" \/ a.token = None)
  BY CancelledIs DEF Kept
<1>2. PICK s \in ts : s.reply = q.reply /\ q = [s EXCEPT !.stale = q.stale]
         /\ q.stale = (s.stale \/ s.kind = "refresh" \/ a.token = None)
  BY CancelledIs DEF Kept
<1>3. r = s
  BY <1>1, <1>2
<1> QED
  BY <1>1, <1>2, <1>3
-----------------------------------------------------------------------------
(* What setting the AuthState does *)

\* set_auth on tab t: its tasks are cancelled if and only if the token changes,
\* and the other tabs keep what they have.
LEMMA InstallIs ==
  ASSUME TypeOK, NEW t \in Tab, NEW a \in [token : 0..MaxSession, user : User],
         NEW ts \in SUBSET Task, Install(t, a, ts)
  PROVE  /\ auth' \in [Tab -> [token : 0..MaxSession, user : User]]
         /\ tasks' \in [Tab -> SUBSET Task] /\ gaveUp' \subseteq Tab
         /\ auth'[t] = a
         /\ \A x \in Tab \ {t} : /\ auth'[x] = auth[x] /\ tasks'[x] = tasks[x]
                                 /\ x \in gaveUp' <=> x \in gaveUp
         /\ a.token = auth[t].token => tasks'[t] = ts /\ gaveUp' = gaveUp
         /\ a.token # auth[t].token =>
               /\ t \notin gaveUp'
               /\ a.token = None => tasks'[t] = Cancelled(ts, a)
               /\ a.token # None => tasks'[t] = Cancelled(ts, a) \cup {Sleeping(a.user)}
<1>1. a.user \in User /\ a.token \in 0..MaxSession
  OBVIOUS
<1>2. Cancelled(ts, a) \subseteq Task
  BY CancelledIs
<1>3. Sleeping(a.user) \in Task
  BY <1>1, SleepingIs
<1> DEFINE new == IF a.token = auth[t].token THEN ts
                  ELSE Cancelled(ts, a) \cup
                       IF a.token = None THEN {} ELSE {Sleeping(a.user)}
<1>4. tasks' = [tasks EXCEPT ![t] = new] /\ auth' = [auth EXCEPT ![t] = a]
      /\ gaveUp' = IF a.token = auth[t].token THEN gaveUp ELSE gaveUp \ {t}
  BY DEF Install
<1>5. new \in SUBSET Task
  BY <1>2, <1>3
<1>6. /\ a.token = auth[t].token => new = ts
      /\ a.token # auth[t].token /\ a.token = None => new = Cancelled(ts, a)
      /\ a.token # auth[t].token /\ a.token # None =>
            new = Cancelled(ts, a) \cup {Sleeping(a.user)}
  OBVIOUS
<1> HIDE DEF new
<1>7. tasks'[t] = new /\ \A x \in Tab \ {t} : tasks'[x] = tasks[x]
  BY <1>4 DEF TypeOK
<1>8. auth'[t] = a /\ \A x \in Tab \ {t} : auth'[x] = auth[x]
  BY <1>4 DEF TypeOK
<1>9. tasks' \in [Tab -> SUBSET Task]
  BY <1>4, <1>5 DEF TypeOK
<1>10. auth' \in [Tab -> [token : 0..MaxSession, user : User]]
  BY <1>4 DEF TypeOK
<1>11. gaveUp' \subseteq Tab
  BY <1>4 DEF TypeOK
<1> QED
  BY <1>4, <1>6, <1>7, <1>8, <1>9, <1>10, <1>11

\* The answers a tab receives: what it becomes.
LEMMA ReceiveIs ==
  ASSUME TypeOK, NEW t \in Tab, NEW r \in tasks[t], Receive(t, r)
  PROVE  \E a \in [token : 0..MaxSession, user : User] :
            /\ Install(t, a, tasks[t] \ {r})
            /\ \/ /\ r.kind \in {"refresh", "login"} /\ r.ok
                  /\ a.token = r.reply /\ a.user = r.user
               \/ /\ r.kind = "logout" \/ (r.kind = "refresh" /\ ~r.ok)
                                       \/ (r.kind = "password" /\ r.ok)
                  /\ a = SignedOut
               \/ /\ r.kind \in {"login", "password"} /\ ~r.ok
                  /\ a = auth[t]
<1>1. r \in Task
  BY DEF TypeOK
<1>2. r.kind \in Kind /\ r.user \in User /\ r.reply \in 0..MaxSession
  BY <1>1, TaskFields
<1>3. auth[t] \in [token : 0..MaxSession, user : User]
  BY DEF TypeOK
<1> DEFINE renewed == [token |-> r.reply, user |-> r.user]
<1>4. renewed \in [token : 0..MaxSession, user : User]
  BY <1>2
<1>5. renewed.token = r.reply /\ renewed.user = r.user
  OBVIOUS
<1>6. \/ /\ r.kind \in {"refresh", "login"} /\ r.ok
         /\ Install(t, renewed, tasks[t] \ {r})
      \/ /\ r.kind = "logout" \/ (r.kind = "refresh" /\ ~r.ok)
                              \/ (r.kind = "password" /\ r.ok)
         /\ Install(t, SignedOut, tasks[t] \ {r})
      \/ /\ r.kind \in {"login", "password"} /\ ~r.ok
         /\ Install(t, auth[t], tasks[t] \ {r})
  BY DEF Receive
<1> HIDE DEF renewed
<1> QED
  BY <1>3, <1>4, <1>5, <1>6, SignedOutIs

\* A request that fails: what the tab becomes.
LEMMA FailIs ==
  ASSUME TypeOK, NEW t \in Tab, NEW r \in tasks[t], Fail(t, r)
  PROVE  \/ /\ r.kind = "refresh" /\ UNCHANGED <<auth, gaveUp>>
            /\ \E q \in Task :
                  /\ tasks' = [tasks EXCEPT ![t] = (@ \ {r}) \cup {q}]
                  /\ Fresh(q) /\ q.kind = r.kind /\ q.user = r.user
                  /\ q.stale = r.stale /\ q.stage = "backoff"
         \/ r.kind = "logout" /\ Install(t, SignedOut, tasks[t] \ {r}) /\ upset'
         \/ r.kind \in {"login", "password"} /\ Install(t, auth[t], tasks[t] \ {r})
<1>1. r \in Task
  BY DEF TypeOK
<1>2. r.kind \in Kind
  BY <1>1, TaskFields
<1>3. CASE r.kind = "refresh"
  <2> DEFINE q == [r EXCEPT !.stage = "backoff", !.carries = None,
                            !.reply = None, !.ok = FALSE]
  <2>1. q \in Task /\ Fresh(q) /\ q.kind = r.kind /\ q.user = r.user
        /\ q.stale = r.stale /\ q.stage = "backoff"
    BY <1>1, Bounds DEF Task, Stage, Fresh
  <2>2. tasks' = [tasks EXCEPT ![t] = (tasks[t] \ {r}) \cup {q}]
        /\ UNCHANGED <<auth, gaveUp>>
    BY <1>3 DEF Fail
  <2> HIDE DEF q
  <2> QED
    BY <1>3, <2>1, <2>2
<1>4. CASE r.kind = "logout"
  BY <1>4 DEF Fail
<1>5. CASE r.kind \in {"login", "password"}
  BY <1>5 DEF Fail
<1> QED
  BY <1>2, <1>3, <1>4, <1>5 DEF Kind

-----------------------------------------------------------------------------
(* What the server does *)

SessType == [Session -> [user : User, live : BOOLEAN]]

\* Apart from those in f, sessions keep their users and only die.
DyingOnly(f, old, new) ==
    \A s \in Session \ f : /\ new[s].user = old[s].user
                           /\ new[s].live => old[s].live

\* A session that is ended does not live; the others are as they were.
LEMMA EndedIs ==
  ASSUME NEW old \in SessType, NEW c \in Session, NEW new,
         new = [old EXCEPT ![c].live = FALSE]
  PROVE  new \in SessType /\ DyingOnly({}, old, new) /\ ~new[c].live
<1>1. \A s \in Session : /\ s # c => new[s] = old[s]
                         /\ new[s].user = old[s].user
                         /\ s = c => new[s] = [old[s] EXCEPT !.live = FALSE]
  BY DEF SessType
<1>2. new[c].live = FALSE
  BY <1>1 DEF SessType
<1>3. new \in SessType
  BY DEF SessType
<1> QED
  BY <1>1, <1>2, <1>3 DEF DyingOnly

IssuedTo(old, new, n, u) ==
    new = [old EXCEPT ![n] = [user |-> u, live |-> TRUE]]

\* A session that is issued belongs to its user.
LEMMA IssuedIs ==
  ASSUME NEW old \in SessType, NEW n \in Session, NEW u \in User, NEW new,
         IssuedTo(old, new, n, u)
  PROVE  /\ new \in SessType /\ new[n].user = u
         /\ \A s \in Session \ {n} : new[s] = old[s]
<1>1. \A s \in Session : s # n => new[s] = old[s]
  BY DEF SessType, IssuedTo
<1>2. new[n] = [user |-> u, live |-> TRUE]
  BY DEF SessType, IssuedTo
<1>3. new \in SessType
  BY DEF SessType, IssuedTo
<1> QED
  BY <1>1, <1>2, <1>3

\* Ending all sessions of a user leaves none of them alive.
LEMMA EndAllIs ==
  ASSUME TypeOK, NEW u
  PROVE  /\ EndAll(u) \in SessType /\ DyingOnly({}, sess, EndAll(u))
         /\ \A s \in Session : sess[s].user = u => ~EndAll(u)[s].live
<1> DEFINE new == EndAll(u)
<1>1. \A s \in Session : new[s] = IF sess[s].user = u
                                  THEN [sess[s] EXCEPT !.live = FALSE] ELSE sess[s]
  BY DEF EndAll
<1>2. \A s \in Session : sess[s] \in [user : User, live : BOOLEAN]
  BY DEF TypeOK
<1>3. \A s \in Session : /\ new[s] \in [user : User, live : BOOLEAN]
                         /\ new[s].user = sess[s].user
                         /\ new[s].live => sess[s].live
                         /\ sess[s].user = u => ~new[s].live
  BY <1>1, <1>2
<1>4. new \in SessType
  BY <1>3 DEF EndAll, SessType
<1> HIDE DEF new
<1> QED
  BY <1>3, <1>4 DEF DyingOnly, new

\* What lives is a session.
LEMMA LiveIs ==
  ASSUME NEW s \in 0..MaxSession, Live(s)
  PROVE  s \in Session
BY BoundAssumption DEF Live, None, Session

\* A request and its answer a: which sessions there are then.
Served(r, a) ==
    /\ a.kind = r.kind /\ a.user = r.user /\ a.stale = r.stale
    /\ a.carries = r.carries /\ a.stage = "answered"
    /\ a.reply # None <=> a.ok /\ a.kind \in {"refresh", "login"}
    /\ a.reply # None => a.reply \in Free
    /\ a.kind # "login" => ~Live(a.carries)'
    /\ a.kind \in {"refresh", "password"} /\ a.ok => Live(r.carries)
    /\ a.kind = "refresh" /\ a.ok => sess'[a.reply].user = sess[r.carries].user
    /\ a.kind = "login" /\ a.ok => sess'[a.reply].user = r.user
    /\ DyingOnly(Free, sess, sess')

\* The four handlers answer one task, and change sessions as Served says.
LEMMA ServeIs ==
  ASSUME TypeOK, NEW r \in AllTasks, Serve(r)
  PROVE  /\ sess' \in SessType
         /\ UNCHANGED <<cookie, auth, upset, gaveUp, acts, faults>>
         /\ \E a \in Task :
              /\ Served(r, a)
              /\ \/ \E t \in Tab : /\ r \in tasks[t] /\ UNCHANGED strays
                                   /\ tasks' = [tasks EXCEPT ![t] = (@ \ {r}) \cup {a}]
                 \/ /\ r \in strays /\ UNCHANGED tasks
                    /\ strays' = (strays \ {r}) \cup {a}
<1>1. r \in Task /\ r.stage = "sent"
  BY AllTasksIs DEF TypeOK, Serve
<1>2. r.kind \in Kind /\ r.user \in User /\ r.carries \in 0..MaxSession
  BY <1>1, TaskFields
<1>3. sess \in SessType
  BY DEF TypeOK, SessType
<1>4. r.carries \notin Free
  BY HeldIsNotFree
<1>5. Live(r.carries) => r.carries \in Session /\ r.carries # None
  BY <1>2, LiveIs DEF Live
<1>6. Free \subseteq Session
  BY DEF Free
<1>7. DyingOnly(Free, sess, sess)
  BY DEF DyingOnly
<1> DEFINE Holds(a) ==
       \/ \E t \in Tab : /\ r \in tasks[t] /\ UNCHANGED strays
                         /\ tasks' = [tasks EXCEPT ![t] = (@ \ {r}) \cup {a}]
       \/ /\ r \in strays /\ UNCHANGED tasks
          /\ strays' = (strays \ {r}) \cup {a}
<1> DEFINE Rest == UNCHANGED <<cookie, auth, upset, gaveUp, acts, faults>>
<1>8. ASSUME NEW after, NEW reply \in 0..MaxSession, NEW ok \in BOOLEAN,
             Answer(r, after, reply, ok)
      PROVE  /\ Rest /\ sess' = after
             /\ \E a \in Task :
                   /\ a.kind = r.kind /\ a.user = r.user /\ a.stale = r.stale
                   /\ a.carries = r.carries /\ a.stage = "answered"
                   /\ a.reply = reply /\ a.ok = ok /\ Holds(a)
  <2>1. Rest
    BY <1>8 DEF Answer
  <2> DEFINE a == [r EXCEPT !.stage = "answered", !.reply = reply, !.ok = ok]
  <2>2. /\ a \in Task /\ a.kind = r.kind /\ a.user = r.user /\ a.stale = r.stale
        /\ a.carries = r.carries /\ a.stage = "answered"
        /\ a.reply = reply /\ a.ok = ok
    BY <1>1, <1>8 DEF Task, Stage
  <2>3. sess' = after /\ Holds(a)
    BY <1>8 DEF Answer
  <2> HIDE DEF Holds, Rest, a
  <2> QED
    BY <2>1, <2>2, <2>3
<1> HIDE DEF Holds, Rest
<1>9. CASE Login(r)
  <2>1. r.kind = "login" /\ Free # {} /\ Answer(r, Issued(sess, r.user), NewSession, TRUE)
    BY <1>9 DEF Login
  <2>2. PICK n : n = NewSession
    OBVIOUS
  <2>3. n \in Free /\ n \in Session /\ n # None
    BY <2>1, <2>2, NewIsFree
  <2>4. PICK new : new = [sess EXCEPT ![n] = [user |-> r.user, live |-> TRUE]]
    OBVIOUS
  <2>5. Answer(r, new, n, TRUE)
    BY <2>1, <2>2, <2>4 DEF Issued
  <2>6. /\ new \in SessType /\ new[n].user = r.user
        /\ DyingOnly(Free, sess, new)
    <3>1. PICK u \in User : u = r.user
      BY <1>2
    <3>2. IssuedTo(sess, new, n, u)
      BY <2>4, <3>1 DEF IssuedTo
    <3>3. /\ new \in SessType /\ new[n].user = u
          /\ \A s \in Session \ {n} : new[s] = sess[s]
      BY <1>3, <2>3, <3>2, IssuedIs
    <3> QED
      BY <2>3, <3>1, <3>3 DEF DyingOnly
  <2>7. n \in 0..MaxSession
    BY <2>3, Bounds
  <2>8. PICK a \in Task :
            /\ a.kind = r.kind /\ a.user = r.user /\ a.stale = r.stale
            /\ a.carries = r.carries /\ a.stage = "answered"
            /\ a.reply = n /\ a.ok = TRUE /\ Holds(a)
    BY <1>8, <2>5, <2>7
  <2>9. sess' = new /\ Rest
    BY <1>8, <2>5, <2>7
  <2>10. Served(r, a)
    BY <2>1, <2>3, <2>6, <2>8, <2>9 DEF Served
  <2> QED
    BY <2>6, <2>8, <2>9, <2>10 DEF Holds, Rest
<1>10. ASSUME r.kind \in {"refresh", "logout", "password"}, ~Live(r.carries),
              NEW ok \in BOOLEAN, Answer(r, sess, None, ok), ok => r.kind = "logout"
       PROVE  sess' \in SessType /\ Rest /\ \E a \in Task : Served(r, a) /\ Holds(a)
  <2>1. PICK a \in Task :
            /\ a.kind = r.kind /\ a.user = r.user /\ a.stale = r.stale
            /\ a.carries = r.carries /\ a.stage = "answered"
            /\ a.reply = None /\ a.ok = ok /\ Holds(a)
    BY <1>8, <1>10, Bounds
  <2>2. sess' = sess /\ Rest
    BY <1>8, <1>10, Bounds
  <2>3. ~Live(a.carries)'
    BY <1>10, <2>1, <2>2 DEF Live
  <2>4. Served(r, a)
    BY <1>7, <1>10, <2>1, <2>2, <2>3 DEF Served
  <2> QED
    BY <1>3, <2>1, <2>2, <2>4
<1>11. CASE Refresh(r)
  <2>1. r.kind = "refresh"
    BY <1>11 DEF Refresh
  <2>2. CASE ~Live(r.carries)
    <3>1. Answer(r, sess, None, FALSE)
      BY <1>11, <2>2 DEF Refresh
    <3> QED
      BY <1>10, <2>1, <2>2, <3>1 DEF Holds, Rest
  <2>3. CASE Live(r.carries)
    <3>1. Free # {} /\ Answer(r, Issued(Ended(r.carries), sess[r.carries].user),
                              NewSession, TRUE)
      BY <1>11, <2>3 DEF Refresh
    <3>2. PICK n : n = NewSession
      OBVIOUS
    <3>3. n \in Free /\ n \in Session /\ n # None
      BY <3>1, <3>2, NewIsFree
    <3>4. PICK c : c = r.carries
      OBVIOUS
    <3>5. c \in Session /\ c # None /\ c # n
      BY <1>4, <1>5, <2>3, <3>3, <3>4
    <3>6. PICK mid : mid = [sess EXCEPT ![c].live = FALSE]
      OBVIOUS
    <3>7. mid \in SessType /\ DyingOnly({}, sess, mid) /\ ~mid[c].live
      BY <1>3, <3>5, <3>6, EndedIs
    <3>8. PICK u : u = sess[c].user
      OBVIOUS
    <3>9. u \in User
      BY <1>3, <3>5, <3>8 DEF SessType
    <3>10. PICK new : new = [mid EXCEPT ![n] = [user |-> u, live |-> TRUE]]
      OBVIOUS
    <3>11. Answer(r, new, n, TRUE)
      BY <3>1, <3>2, <3>4, <3>6, <3>8, <3>10 DEF Issued, Ended
    <3>12. /\ new \in SessType /\ new[n].user = u
           /\ \A s \in Session \ {n} : new[s] = mid[s]
      <4>1. IssuedTo(mid, new, n, u)
        BY <3>10 DEF IssuedTo
      <4> QED
        BY <3>3, <3>7, <3>9, <4>1, IssuedIs
    <3>13. DyingOnly(Free, sess, new) /\ ~new[c].live
      BY <3>3, <3>5, <3>7, <3>12 DEF DyingOnly
    <3>14. n \in 0..MaxSession
      BY <3>3, Bounds
    <3>15. PICK a \in Task :
              /\ a.kind = r.kind /\ a.user = r.user /\ a.stale = r.stale
              /\ a.carries = r.carries /\ a.stage = "answered"
              /\ a.reply = n /\ a.ok = TRUE /\ Holds(a)
      BY <1>8, <3>11, <3>14
    <3>16. sess' = new /\ Rest
      BY <1>8, <3>11, <3>14
    <3>17. ~Live(a.carries)'
      BY <3>4, <3>13, <3>15, <3>16 DEF Live
    <3>18. Served(r, a)
      BY <2>1, <2>3, <3>3, <3>4, <3>8, <3>12, <3>13, <3>15, <3>16, <3>17 DEF Served
    <3> QED
      BY <3>12, <3>15, <3>16, <3>18 DEF Holds, Rest
  <2> QED
    BY <2>2, <2>3
<1>12. ASSUME r.kind \in {"logout", "password"}, Live(r.carries),
              NEW new \in SessType, DyingOnly({}, sess, new), ~new[r.carries].live,
              Answer(r, new, None, TRUE)
       PROVE  sess' \in SessType /\ Rest /\ \E a \in Task : Served(r, a) /\ Holds(a)
  <2>1. PICK a \in Task :
            /\ a.kind = r.kind /\ a.user = r.user /\ a.stale = r.stale
            /\ a.carries = r.carries /\ a.stage = "answered"
            /\ a.reply = None /\ a.ok = TRUE /\ Holds(a)
    BY <1>8, <1>12, Bounds
  <2>2. sess' = new /\ Rest
    BY <1>8, <1>12, Bounds
  <2>3. ~Live(a.carries)'
    BY <1>12, <2>1, <2>2 DEF Live
  <2>4. DyingOnly(Free, sess, new)
    BY <1>12 DEF DyingOnly
  <2>5. Served(r, a)
    BY <1>12, <2>1, <2>2, <2>3, <2>4 DEF Served
  <2> QED
    BY <1>12, <2>1, <2>2, <2>5
<1>13. CASE Logout(r)
  <2>1. r.kind = "logout"
    BY <1>13 DEF Logout
  <2>2. CASE ~Live(r.carries)
    <3>1. Answer(r, sess, None, TRUE)
      BY <1>13, <2>2 DEF Logout
    <3> QED
      BY <1>10, <2>1, <2>2, <3>1 DEF Holds, Rest
  <2>3. CASE Live(r.carries)
    <3>1. PICK new : new = [sess EXCEPT ![r.carries].live = FALSE]
      OBVIOUS
    <3>2. Answer(r, new, None, TRUE)
      BY <1>13, <2>3, <3>1 DEF Logout, Ended
    <3>3. new \in SessType /\ DyingOnly({}, sess, new) /\ ~new[r.carries].live
      BY <1>3, <1>5, <2>3, <3>1, EndedIs
    <3> QED
      BY <1>12, <2>1, <2>3, <3>2, <3>3 DEF Holds, Rest
  <2> QED
    BY <2>2, <2>3
<1>14. CASE Password(r)
  <2>1. r.kind = "password"
    BY <1>14 DEF Password
  <2>2. CASE ~Live(r.carries)
    <3>1. Answer(r, sess, None, FALSE)
      BY <1>14, <2>2 DEF Password
    <3> QED
      BY <1>10, <2>1, <2>2, <3>1 DEF Holds, Rest
  <2>3. CASE Live(r.carries)
    <3>1. PICK new : new = EndAll(sess[r.carries].user)
      OBVIOUS
    <3>2. Answer(r, new, None, TRUE)
      BY <1>14, <2>3, <3>1 DEF Password
    <3>3. new \in SessType /\ DyingOnly({}, sess, new)
      BY <3>1, EndAllIs
    <3>4. ~new[r.carries].live
      BY <1>5, <2>3, <3>1, EndAllIs
    <3> QED
      BY <1>12, <2>1, <2>3, <3>2, <3>3, <3>4 DEF Holds, Rest
  <2> QED
    BY <2>2, <2>3
<1> QED
  BY <1>9, <1>11, <1>13, <1>14 DEF Serve
-----------------------------------------------------------------------------
(* Types *)

\* The AuthState and the tasks of a tab.
LEMMA TabTypes ==
  ASSUME TypeOK, NEW t \in Tab
  PROVE  /\ auth[t] \in [token : 0..MaxSession, user : User]
         /\ auth[t].token \in 0..MaxSession /\ auth[t].user \in User
         /\ tasks[t] \in SUBSET Task
BY DEF TypeOK

\* The client starts signed out and without tasks.
LEMMA InitTypeOK == Init => TypeOK
<1> SUFFICES ASSUME Init PROVE TypeOK
  OBVIOUS
<1>1. SignedOut \in [token : 0..MaxSession, user : User] /\ SignedOut.user \in User
  BY SignedOutIs
<1>2. sess \in [Session -> [user : User, live : BOOLEAN]]
  BY <1>1 DEF Init
<1>3. auth \in [Tab -> [token : 0..MaxSession, user : User]]
  BY <1>1 DEF Init
<1>4. tasks \in [Tab -> SUBSET Task]
  BY DEF Init
<1>5. cookie \in 0..MaxSession /\ acts \in 0..MaxActs /\ faults \in 0..MaxFaults
  BY Bounds, BoundAssumption DEF Init
<1>6. strays \subseteq Task /\ upset \in BOOLEAN /\ gaveUp \subseteq Tab
  BY DEF Init
<1> QED
  BY <1>2, <1>3, <1>4, <1>5, <1>6 DEF TypeOK

\* One more task, or one less, or one for another.
LEMMA TasksType ==
  ASSUME TypeOK, NEW t \in Tab, NEW new \in SUBSET Task,
         tasks' = [tasks EXCEPT ![t] = new]
  PROVE  /\ tasks' \in [Tab -> SUBSET Task] /\ tasks'[t] = new
         /\ \A x \in Tab \ {t} : tasks'[x] = tasks[x]
BY DEF TypeOK

\* Act stays within its bound.
LEMMA ActType ==
  ASSUME TypeOK, Act
  PROVE  acts' \in 0..MaxActs
BY BoundAssumption DEF TypeOK, Act

\* Every step keeps the types.
LEMMA NextTypeOK == TypeOK /\ [Next]_vars => TypeOK'
<1> SUFFICES ASSUME TypeOK, [Next]_vars PROVE TypeOK'
  OBVIOUS
<1> USE DEF TypeOK
<1>1. ASSUME NEW t \in Tab, NEW u \in User, SubmitLogin(t, u) PROVE TypeOK'
  <2>1. PICK w \in Task : w = Waiting("login", u)
    BY WaitingIs DEF Kind
  <2>2. tasks' = [tasks EXCEPT ![t] = tasks[t] \cup {w}]
    BY <1>1, <2>1 DEF SubmitLogin
  <2>3. tasks' \in [Tab -> SUBSET Task]
    BY <2>2, TasksType, TabTypes
  <2> QED
    BY <1>1, <2>3, ActType DEF SubmitLogin
<1>2. ASSUME NEW t \in Tab, PressLogout(t) PROVE TypeOK'
  <2>1. PICK w \in Task : w = Waiting("logout", auth[t].user)
    BY WaitingIs, TabTypes DEF Kind
  <2>2. tasks' = [tasks EXCEPT ![t] = tasks[t] \cup {w}]
    BY <1>2, <2>1 DEF PressLogout
  <2>3. tasks' \in [Tab -> SUBSET Task]
    BY <2>2, TasksType, TabTypes
  <2> QED
    BY <1>2, <2>3, ActType DEF PressLogout
<1>3. ASSUME NEW t \in Tab, SubmitPassword(t) PROVE TypeOK'
  <2>1. PICK w \in Task : w = Waiting("password", auth[t].user)
    BY WaitingIs, TabTypes DEF Kind
  <2>2. PICK v \in Task : v = [w EXCEPT !.carries = auth[t].token]
    BY TabTypes DEF Task
  <2>3. tasks' = [tasks EXCEPT ![t] = tasks[t] \cup {v}]
    BY <1>3, <2>1, <2>2 DEF SubmitPassword
  <2>4. tasks' \in [Tab -> SUBSET Task]
    BY <2>3, TasksType, TabTypes
  <2> QED
    BY <1>3, <2>4, ActType DEF SubmitPassword
<1>4. ASSUME NEW t \in Tab, ReloadPage(t) PROVE TypeOK'
  <2>1. PICK w \in Task : w = Sleeping(auth[t].user)
    BY SleepingIs, TabTypes
  <2>2. PICK new \in SUBSET Task : new = IF SignedIn(t) THEN {w} ELSE {}
    OBVIOUS
  <2>3. tasks' = [tasks EXCEPT ![t] = new]
    BY <1>4, <2>1, <2>2 DEF ReloadPage
  <2>4. tasks' \in [Tab -> SUBSET Task]
    BY <2>3, TasksType
  <2>5. strays' \subseteq Task
    BY <1>4 DEF ReloadPage
  <2> QED
    BY <1>4, <2>4, <2>5, ActType DEF ReloadPage
<1>5. ASSUME NEW t \in Tab, NEW r \in tasks[t], Wake(t, r) PROVE TypeOK'
  <2>1. r.user \in User
    BY TaskFields, TabTypes
  <2>2. PICK w \in Task : w = Waiting("refresh", r.user)
    BY <2>1, WaitingIs DEF Kind
  <2>3. PICK new \in SUBSET Task :
           new = (tasks[t] \ {r}) \cup IF r.stale THEN {} ELSE {w}
    BY TabTypes
  <2>4. tasks' = [tasks EXCEPT ![t] = new]
    BY <1>5, <2>2, <2>3 DEF Wake
  <2>5. tasks' \in [Tab -> SUBSET Task]
    BY <2>4, TasksType
  <2> QED
    BY <1>5, <2>5 DEF Wake
<1>6. ASSUME NEW t \in Tab, NEW r \in tasks[t], WakeLast(t, r) PROVE TypeOK'
  <2>1. r.user \in User
    BY TaskFields, TabTypes
  <2>2. PICK w \in Task : w = Waiting("refresh", r.user)
    BY <2>1, WaitingIs DEF Kind
  <2>3. strays' \subseteq Task
    BY <1>6, <2>2 DEF WakeLast
  <2>4. tasks' = [tasks EXCEPT ![t] = tasks[t] \ {r}]
    BY <1>6 DEF WakeLast
  <2>5. tasks' \in [Tab -> SUBSET Task]
    BY <2>4, TasksType, TabTypes
  <2> QED
    BY <1>6, <2>3, <2>5 DEF WakeLast
<1>7. ASSUME NEW t \in Tab, NEW r \in tasks[t], Receive(t, r) PROVE TypeOK'
  <2>1. PICK a \in [token : 0..MaxSession, user : User] :
           Install(t, a, tasks[t] \ {r})
    BY <1>7, ReceiveIs
  <2>2. tasks[t] \ {r} \in SUBSET Task
    BY TabTypes
  <2>3. /\ auth' \in [Tab -> [token : 0..MaxSession, user : User]]
        /\ tasks' \in [Tab -> SUBSET Task] /\ gaveUp' \subseteq Tab
    BY <2>1, <2>2, InstallIs
  <2>4. r.reply \in 0..MaxSession /\ r.stale \in BOOLEAN
    BY TaskFields, TabTypes
  <2>5. cookie' \in 0..MaxSession
    BY <1>7, <2>4, Bounds DEF Receive, SetCookie
  <2>6. upset' \in BOOLEAN
    BY <1>7, <2>4 DEF Receive
  <2> QED
    BY <1>7, <2>3, <2>5, <2>6 DEF Receive
<1>8. ASSUME NEW t \in Tab, NEW r \in tasks[t], Fail(t, r) PROVE TypeOK'
  <2>1. tasks[t] \ {r} \in SUBSET Task /\ r \in Task
    BY TabTypes
  <2>2. /\ auth' \in [Tab -> [token : 0..MaxSession, user : User]]
        /\ tasks' \in [Tab -> SUBSET Task] /\ gaveUp' \subseteq Tab
    <3>1. CASE /\ UNCHANGED <<auth, gaveUp>>
               /\ \E q \in Task : tasks' = [tasks EXCEPT ![t] = (@ \ {r}) \cup {q}]
      <4>1. PICK q \in Task : tasks' = [tasks EXCEPT ![t] = (tasks[t] \ {r}) \cup {q}]
        BY <3>1
      <4>2. tasks' \in [Tab -> SUBSET Task]
        BY <2>1, <4>1, TasksType
      <4> QED
        BY <3>1, <4>2
    <3>2. CASE \E a \in [token : 0..MaxSession, user : User] :
                  Install(t, a, tasks[t] \ {r})
      BY <2>1, <3>2, InstallIs
    <3> QED
      BY <1>8, <3>1, <3>2, FailIs, SignedOutIs, TabTypes
  <2>3. strays' \subseteq Task
    BY <1>8, <2>1 DEF Fail
  <2>4. faults' \in 0..MaxFaults
    BY <1>8, BoundAssumption DEF Fail
  <2>5. upset' \in BOOLEAN
    BY <1>8 DEF Fail
  <2> QED
    BY <1>8, <2>2, <2>3, <2>4, <2>5 DEF Fail
<1>9. ASSUME NEW r \in AllTasks, Serve(r) PROVE TypeOK'
  <2>1. /\ sess' \in [Session -> [user : User, live : BOOLEAN]]
        /\ UNCHANGED <<cookie, auth, upset, gaveUp, acts, faults>>
    BY <1>9, ServeIs DEF SessType
  <2>2. PICK a \in Task :
           \/ \E t \in Tab : /\ r \in tasks[t] /\ UNCHANGED strays
                             /\ tasks' = [tasks EXCEPT ![t] = (@ \ {r}) \cup {a}]
           \/ /\ r \in strays /\ UNCHANGED tasks
              /\ strays' = (strays \ {r}) \cup {a}
    BY <1>9, ServeIs
  <2>3. tasks' \in [Tab -> SUBSET Task] /\ strays' \subseteq Task
    <3>1. ASSUME NEW t \in Tab, UNCHANGED strays,
                 tasks' = [tasks EXCEPT ![t] = (tasks[t] \ {r}) \cup {a}]
          PROVE  tasks' \in [Tab -> SUBSET Task] /\ strays' \subseteq Task
      BY <3>1, TasksType, TabTypes
    <3> QED
      BY <2>2, <3>1
  <2> QED
    BY <2>1, <2>3
<1>10. ASSUME NEW r \in strays, Stray(r) PROVE TypeOK'
  <2>1. r.reply \in 0..MaxSession
    BY TaskFields
  <2>2. cookie' \in 0..MaxSession /\ upset' \in BOOLEAN
    BY <1>10, <2>1, Bounds DEF Stray, SetCookie
  <2> QED
    BY <1>10, <2>2 DEF Stray
<1>11. ASSUME NEW u \in User, EndSessions(u) PROVE TypeOK'
  <2>1. sess' \in [Session -> [user : User, live : BOOLEAN]]
    BY <1>11, EndAllIs DEF EndSessions, SessType
  <2> QED
    BY <1>11, <2>1, ActType DEF EndSessions
<1>12. CASE UNCHANGED vars
  BY <1>12 DEF vars
<1> QED
  BY <1>1, <1>2, <1>3, <1>4, <1>5, <1>6, <1>7, <1>8, <1>9, <1>10, <1>11, <1>12
     DEF Next, TaskStep
-----------------------------------------------------------------------------
(* One refresh task *)

OneAt(t) ==
    IF SignedIn(t) /\ t \notin gaveUp THEN \E r \in LiveOf(tasks[t]) : LiveOf(tasks[t]) = {r}
    ELSE LiveOf(tasks[t]) = {}

\* OneRefreshTask, tab by tab.
LEMMA OneIs ==
  /\ OneRefreshTask <=> \A t \in Tab : OneAt(t)
  /\ OneRefreshTask' <=> \A t \in Tab : OneAt(t)'
BY DEF OneRefreshTask, OneAt, LiveOf

\* A tab that keeps its AuthState and its live tasks.
LEMMA OneKept ==
  ASSUME NEW t \in Tab, OneAt(t), auth'[t] = auth[t], t \in gaveUp' <=> t \in gaveUp,
         LiveOf(tasks'[t]) = LiveOf(tasks[t])
  PROVE  OneAt(t)'
<1>1. LiveOf(tasks[t])' = LiveOf(tasks'[t])
  BY DEF LiveOf
<1>2. SignedIn(t)' <=> SignedIn(t)
  BY DEF SignedIn
<1> QED
  BY <1>1, <1>2 DEF OneAt

\* One that swaps its live task.
LEMMA OneSwapped ==
  ASSUME NEW t \in Tab, OneAt(t), auth'[t] = auth[t], t \in gaveUp' <=> t \in gaveUp,
         NEW r \in LiveOf(tasks[t]), NEW q, q.kind = "refresh", ~q.stale,
         tasks'[t] = (tasks[t] \ {r}) \cup {q}
  PROVE  OneAt(t)'
<1>1. LiveOf(tasks[t]) = {r} /\ SignedIn(t) /\ t \notin gaveUp
  BY DEF OneAt
<1>2. LiveOf(tasks'[t]) = {q}
  BY <1>1 DEF LiveOf
<1>3. LiveOf(tasks[t])' = LiveOf(tasks'[t])
  BY DEF LiveOf
<1>4. SignedIn(t)'
  BY <1>1 DEF SignedIn
<1> QED
  BY <1>1, <1>2, <1>3, <1>4 DEF OneAt

\* Setting the AuthState to another token, or to the same.
LEMMA OneInstalled ==
  ASSUME TypeOK, OneRefreshTask, NEW t \in Tab,
         NEW a \in [token : 0..MaxSession, user : User],
         NEW ts \in SUBSET tasks[t], Install(t, a, ts),
         a.token = auth[t].token => LiveOf(ts) = LiveOf(tasks[t])
  PROVE  OneRefreshTask'
<1>1. ts \in SUBSET Task
  BY TabTypes
<1>2. \A x \in Tab \ {t} : OneAt(x)'
  BY <1>1, InstallIs, OneKept, OneIs
<1>3. LiveOf(Cancelled(ts, a)) = {}
  BY <1>1, CancelledIs DEF LiveOf
<1>4. auth'[t] = a /\ (SignedIn(t)' <=> a.token # None)
  BY <1>1, InstallIs DEF SignedIn
<1>5. LiveOf(tasks[t])' = LiveOf(tasks'[t])
  BY DEF LiveOf
<1>6. CASE a.token = auth[t].token
  <2>1. tasks'[t] = ts /\ gaveUp' = gaveUp
    BY <1>1, <1>6, InstallIs
  <2>2. SignedIn(t)' <=> SignedIn(t)
    BY <1>4, <1>6 DEF SignedIn
  <2>3. LiveOf(tasks[t])' = LiveOf(tasks[t])
    BY <1>5, <1>6, <2>1
  <2>4. OneAt(t)
    BY OneIs
  <2>5. OneAt(t)'
    BY <2>1, <2>2, <2>3, <2>4 DEF OneAt
  <2> QED
    BY <1>2, <2>5, OneIs
<1>7. CASE a.token # auth[t].token /\ a.token = None
  <2>1. tasks'[t] = Cancelled(ts, a)
    BY <1>1, <1>7, InstallIs
  <2>2. OneAt(t)'
    BY <1>3, <1>4, <1>5, <1>7, <2>1 DEF OneAt
  <2> QED
    BY <1>2, <2>2, OneIs
<1>8. CASE a.token # auth[t].token /\ a.token # None
  <2>1. PICK s : s = Sleeping(a.user)
    OBVIOUS
  <2>2. tasks'[t] = Cancelled(ts, a) \cup {s} /\ t \notin gaveUp'
    BY <1>1, <1>8, <2>1, InstallIs
  <2>3. s.kind = "refresh" /\ ~s.stale
    BY <2>1, SleepingIs
  <2>4. LiveOf(tasks'[t]) = {s}
    BY <1>3, <2>2, <2>3 DEF LiveOf
  <2>5. OneAt(t)'
    BY <1>4, <1>5, <1>8, <2>2, <2>4 DEF OneAt
  <2> QED
    BY <1>2, <2>5, OneIs
<1> QED
  BY <1>6, <1>7, <1>8

\* The same for a step that changes the tasks of t only, and keeps or swaps the
\* live one.
LEMMA OneStep ==
  ASSUME TypeOK, OneRefreshTask, NEW t \in Tab, UNCHANGED <<auth, gaveUp>>,
         \A x \in Tab \ {t} : tasks'[x] = tasks[x],
         \/ LiveOf(tasks'[t]) = LiveOf(tasks[t])
         \/ \E r \in LiveOf(tasks[t]), q \in Task :
               /\ q.kind = "refresh" /\ ~q.stale
               /\ tasks'[t] = (tasks[t] \ {r}) \cup {q}
  PROVE  OneRefreshTask'
<1>1. \A x \in Tab \ {t} : OneAt(x)'
  BY OneKept, OneIs
<1>2. OneAt(t)
  BY OneIs
<1>3. OneAt(t)'
  <2>1. CASE LiveOf(tasks'[t]) = LiveOf(tasks[t])
    BY <1>2, <2>1, OneKept
  <2>2. ASSUME NEW r \in LiveOf(tasks[t]), NEW q \in Task, q.kind = "refresh", ~q.stale,
               tasks'[t] = (tasks[t] \ {r}) \cup {q}
        PROVE  OneAt(t)'
    BY <1>2, <2>2, OneSwapped
  <2> QED
    BY <2>1, <2>2
<1> QED
  BY <1>1, <1>3, OneIs
\* What the tab t can receive while its AuthState stays is no renewal.
LEMMA ReceivedLive ==
  ASSUME TypeOK, OneRefreshTask, ReplyInv, NEW t \in Tab, NEW r \in tasks[t],
         NEW a, a.token = auth[t].token,
         \/ r.kind \in {"refresh", "login"} /\ r.ok /\ a.token = r.reply
         \/ a = SignedOut
         \/ r.kind # "refresh"
  PROVE  LiveOf(tasks[t] \ {r}) = LiveOf(tasks[t])
<1>1. CASE r.kind \in {"refresh", "login"} /\ r.ok /\ a.token = r.reply
  <2>1. r.reply # None /\ r.reply # auth[t].token
    BY <1>1, AllTasksIs DEF ReplyInv
  <2> QED
    BY <1>1, <2>1
<1>2. CASE a = SignedOut
  <2>1. ~SignedIn(t)
    BY <1>2, SignedOutIs DEF SignedIn
  <2>2. LiveOf(tasks[t]) = {}
    BY <2>1, OneIs DEF OneAt
  <2> QED
    BY <2>2 DEF LiveOf
<1>3. CASE r.kind # "refresh"
  BY <1>3 DEF LiveOf
<1> QED
  BY <1>1, <1>2, <1>3

\* Every step leaves each tab its one refresh task: the effect on the token
\* replaces it, sleeping and sending renew it, and only giving up ends it.
LEMMA NextOne ==
  TypeOK /\ OneRefreshTask /\ ReplyInv /\ [Next]_vars => OneRefreshTask'
<1> SUFFICES ASSUME TypeOK, OneRefreshTask, ReplyInv, [Next]_vars
             PROVE  OneRefreshTask'
  OBVIOUS
<1>1. ASSUME NEW t \in Tab, UNCHANGED <<auth, gaveUp>>, NEW w \in Task,
             w.kind # "refresh", tasks' = [tasks EXCEPT ![t] = tasks[t] \cup {w}]
      PROVE  OneRefreshTask'
  <2>1. tasks'[t] = tasks[t] \cup {w} /\ \A x \in Tab \ {t} : tasks'[x] = tasks[x]
    BY <1>1, TabTypes DEF TypeOK
  <2>2. LiveOf(tasks'[t]) = LiveOf(tasks[t])
    BY <1>1, <2>1 DEF LiveOf
  <2> QED
    BY <1>1, <2>1, <2>2, OneStep
<1>2. ASSUME NEW t \in Tab, NEW u \in User, SubmitLogin(t, u) PROVE OneRefreshTask'
  <2>1. PICK w \in Task : w = Waiting("login", u) /\ w.kind = "login"
    BY WaitingIs DEF Kind
  <2>2. tasks' = [tasks EXCEPT ![t] = tasks[t] \cup {w}] /\ UNCHANGED <<auth, gaveUp>>
    BY <1>2, <2>1 DEF SubmitLogin
  <2> QED
    BY <1>1, <2>1, <2>2
<1>3. ASSUME NEW t \in Tab, PressLogout(t) PROVE OneRefreshTask'
  <2>1. PICK w \in Task : w = Waiting("logout", auth[t].user) /\ w.kind = "logout"
    BY WaitingIs, TabTypes DEF Kind
  <2>2. tasks' = [tasks EXCEPT ![t] = tasks[t] \cup {w}] /\ UNCHANGED <<auth, gaveUp>>
    BY <1>3, <2>1 DEF PressLogout
  <2> QED
    BY <1>1, <2>1, <2>2
<1>4. ASSUME NEW t \in Tab, SubmitPassword(t) PROVE OneRefreshTask'
  <2>1. PICK w \in Task : w = Waiting("password", auth[t].user) /\ w.kind = "password"
    BY WaitingIs, TabTypes DEF Kind
  <2>2. PICK v \in Task : /\ v = [w EXCEPT !.carries = auth[t].token]
                          /\ v.kind = "password"
    <3>1. PICK c \in 0..MaxSession : c = auth[t].token
      BY TabTypes
    <3>2. [w EXCEPT !.carries = c] \in Task /\ [w EXCEPT !.carries = c].kind = w.kind
      BY DEF Task
    <3> QED
      BY <2>1, <3>1, <3>2
  <2>3. tasks' = [tasks EXCEPT ![t] = tasks[t] \cup {v}] /\ UNCHANGED <<auth, gaveUp>>
    BY <1>4, <2>1, <2>2 DEF SubmitPassword
  <2> QED
    BY <1>1, <2>2, <2>3
<1>5. ASSUME NEW t \in Tab, ReloadPage(t) PROVE OneRefreshTask'
  <2>1. PICK w \in Task : /\ w = Sleeping(auth[t].user)
                          /\ w.kind = "refresh" /\ ~w.stale
    BY SleepingIs, TabTypes
  <2>2. PICK new \in SUBSET Task : new = IF SignedIn(t) THEN {w} ELSE {}
    OBVIOUS
  <2>3. tasks' = [tasks EXCEPT ![t] = new]
    BY <1>5, <2>1, <2>2 DEF ReloadPage
  <2>4. tasks'[t] = new /\ \A x \in Tab \ {t} : tasks'[x] = tasks[x]
    BY <2>3, TasksType
  <2>5. UNCHANGED auth /\ gaveUp' = gaveUp \ {t}
    BY <1>5 DEF ReloadPage
  <2>6. \A x \in Tab \ {t} : OneAt(x)'
    BY <2>4, <2>5, OneKept, OneIs
  <2>7. LiveOf(new) = new
    BY <2>1, <2>2 DEF LiveOf
  <2>8. LiveOf(tasks[t])' = new /\ (SignedIn(t)' <=> SignedIn(t)) /\ t \notin gaveUp'
    BY <2>4, <2>5, <2>7 DEF LiveOf, SignedIn
  <2>9. OneAt(t)'
    BY <2>2, <2>8 DEF OneAt
  <2> QED
    BY <2>6, <2>9, OneIs
<1>6. ASSUME NEW t \in Tab, NEW r \in tasks[t], Wake(t, r) PROVE OneRefreshTask'
  <2>1. r.user \in User /\ r.kind = "refresh"
    BY <1>6, TaskFields, TabTypes, AllTasksIs DEF Wake, ReplyInv
  <2>2. PICK w \in Task : w = Waiting("refresh", r.user) /\ w.kind = "refresh"
                          /\ ~w.stale
    BY <2>1, WaitingIs DEF Kind
  <2>3. PICK new \in SUBSET Task :
           new = (tasks[t] \ {r}) \cup IF r.stale THEN {} ELSE {w}
    BY TabTypes
  <2>4. tasks' = [tasks EXCEPT ![t] = new] /\ UNCHANGED <<auth, gaveUp>>
    BY <1>6, <2>2, <2>3 DEF Wake
  <2>5. tasks'[t] = new /\ \A x \in Tab \ {t} : tasks'[x] = tasks[x]
    BY <2>4, TasksType
  <2>6. CASE r.stale
    <3>1. LiveOf(tasks'[t]) = LiveOf(tasks[t])
      BY <2>3, <2>5, <2>6 DEF LiveOf
    <3> QED
      BY <2>4, <2>5, <3>1, OneStep
  <2>7. CASE ~r.stale
    <3>1. r \in LiveOf(tasks[t]) /\ tasks'[t] = (tasks[t] \ {r}) \cup {w}
      BY <2>1, <2>3, <2>5, <2>7 DEF LiveOf
    <3> QED
      BY <2>2, <2>4, <2>5, <3>1, OneStep
  <2> QED
    BY <2>6, <2>7
<1>7. ASSUME NEW t \in Tab, NEW r \in tasks[t], WakeLast(t, r) PROVE OneRefreshTask'
  <2>1. r.kind = "refresh"
    BY <1>7, AllTasksIs DEF WakeLast, ReplyInv
  <2>2. tasks' = [tasks EXCEPT ![t] = tasks[t] \ {r}] /\ UNCHANGED auth
        /\ gaveUp' = IF r.stale THEN gaveUp ELSE gaveUp \cup {t}
    BY <1>7 DEF WakeLast
  <2>3. tasks'[t] = tasks[t] \ {r} /\ \A x \in Tab \ {t} : tasks'[x] = tasks[x]
    BY <2>2, TabTypes DEF TypeOK
  <2>4. CASE r.stale
    <3>1. LiveOf(tasks'[t]) = LiveOf(tasks[t])
      BY <2>3, <2>4 DEF LiveOf
    <3> QED
      BY <2>2, <2>3, <2>4, <3>1, OneStep
  <2>5. CASE ~r.stale
    <3>1. r \in LiveOf(tasks[t])
      BY <2>1, <2>5 DEF LiveOf
    <3>2. LiveOf(tasks[t]) = {r}
      BY <3>1, OneIs DEF OneAt
    <3>3. LiveOf(tasks[t])' = {}
      BY <2>3, <3>2 DEF LiveOf
    <3>4. OneAt(t)'
      BY <2>2, <2>5, <3>3 DEF OneAt
    <3>5. \A x \in Tab \ {t} : OneAt(x)'
      BY <2>2, <2>3, OneKept, OneIs
    <3> QED
      BY <3>4, <3>5, OneIs
  <2> QED
    BY <2>4, <2>5
<1>8. ASSUME NEW t \in Tab, NEW r \in tasks[t], Receive(t, r) PROVE OneRefreshTask'
  <2>1. PICK a \in [token : 0..MaxSession, user : User] :
           /\ Install(t, a, tasks[t] \ {r})
           /\ \/ r.kind \in {"refresh", "login"} /\ r.ok /\ a.token = r.reply
              \/ a = SignedOut
              \/ r.kind # "refresh"
    BY <1>8, ReceiveIs
  <2>2. a.token = auth[t].token => LiveOf(tasks[t] \ {r}) = LiveOf(tasks[t])
    BY <2>1, ReceivedLive
  <2> QED
    BY <2>1, <2>2, OneInstalled
<1>9. ASSUME NEW t \in Tab, NEW r \in tasks[t], Fail(t, r) PROVE OneRefreshTask'
  <2>1. CASE /\ r.kind = "refresh" /\ UNCHANGED <<auth, gaveUp>>
             /\ \E q \in Task :
                  /\ tasks' = [tasks EXCEPT ![t] = (@ \ {r}) \cup {q}]
                  /\ q.kind = r.kind /\ q.stale = r.stale
    <3>1. PICK q \in Task : /\ tasks' = [tasks EXCEPT ![t] = (tasks[t] \ {r}) \cup {q}]
                            /\ q.kind = r.kind /\ q.stale = r.stale
      BY <2>1
    <3>2. /\ tasks'[t] = (tasks[t] \ {r}) \cup {q}
          /\ \A x \in Tab \ {t} : tasks'[x] = tasks[x]
      BY <3>1, TabTypes DEF TypeOK
    <3>3. CASE r.stale
      <4>1. LiveOf(tasks'[t]) = LiveOf(tasks[t])
        BY <3>1, <3>2, <3>3 DEF LiveOf
      <4> QED
        BY <2>1, <3>2, <4>1, OneStep
    <3>4. CASE ~r.stale
      <4>1. r \in LiveOf(tasks[t])
        BY <2>1, <3>4 DEF LiveOf
      <4> QED
        BY <2>1, <3>1, <3>2, <3>4, <4>1, OneStep
    <3> QED
      BY <3>3, <3>4
  <2>2. CASE \E a \in [token : 0..MaxSession, user : User] :
                /\ Install(t, a, tasks[t] \ {r})
                /\ a = SignedOut \/ r.kind # "refresh"
    <3>1. PICK a \in [token : 0..MaxSession, user : User] :
             /\ Install(t, a, tasks[t] \ {r})
             /\ a = SignedOut \/ r.kind # "refresh"
      BY <2>2
    <3>2. a.token = auth[t].token => LiveOf(tasks[t] \ {r}) = LiveOf(tasks[t])
      BY <3>1, ReceivedLive
    <3> QED
      BY <3>1, <3>2, OneInstalled
  <2> QED
    BY <1>9, <2>1, <2>2, FailIs, SignedOutIs, TabTypes
<1>10. ASSUME NEW r \in AllTasks, Serve(r) PROVE OneRefreshTask'
  <2>1. UNCHANGED <<auth, gaveUp>>
    BY <1>10, ServeIs
  <2>2. PICK a \in Task :
           /\ a.kind = r.kind /\ a.stale = r.stale
           /\ \/ \E t \in Tab : /\ r \in tasks[t]
                                /\ tasks' = [tasks EXCEPT ![t] = (@ \ {r}) \cup {a}]
              \/ UNCHANGED tasks
    BY <1>10, ServeIs DEF Served
  <2>3. ASSUME NEW t \in Tab, r \in tasks[t],
               tasks' = [tasks EXCEPT ![t] = (tasks[t] \ {r}) \cup {a}]
        PROVE  OneRefreshTask'
    <3>1. /\ tasks'[t] = (tasks[t] \ {r}) \cup {a}
          /\ \A x \in Tab \ {t} : tasks'[x] = tasks[x]
      BY <2>3, TabTypes DEF TypeOK
    <3>2. CASE r.kind # "refresh" \/ r.stale
      <4>1. LiveOf(tasks'[t]) = LiveOf(tasks[t])
        BY <2>2, <3>1, <3>2 DEF LiveOf
      <4> QED
        BY <2>1, <3>1, <4>1, OneStep
    <3>3. CASE r.kind = "refresh" /\ ~r.stale
      <4>1. r \in LiveOf(tasks[t])
        BY <2>3, <3>3 DEF LiveOf
      <4> QED
        BY <2>1, <2>2, <3>1, <3>3, <4>1, OneStep
    <3> QED
      BY <3>2, <3>3
  <2>4. CASE UNCHANGED tasks
    <3>1. \A x \in Tab : OneAt(x)'
      BY <2>1, <2>4, OneKept, OneIs
    <3> QED
      BY <3>1, OneIs
  <2> QED
    BY <2>2, <2>3, <2>4
<1>11. CASE UNCHANGED <<auth, gaveUp, tasks>>
  <2>1. \A x \in Tab : OneAt(x)'
    BY <1>11, OneKept, OneIs
  <2> QED
    BY <2>1, OneIs
<1>12. ASSUME NEW r \in strays, Stray(r) PROVE OneRefreshTask'
  BY <1>11, <1>12 DEF Stray
<1>13. ASSUME NEW u \in User, EndSessions(u) PROVE OneRefreshTask'
  BY <1>11, <1>13 DEF EndSessions
<1>14. CASE UNCHANGED vars
  BY <1>11, <1>14 DEF vars
<1> QED
  BY <1>2, <1>3, <1>4, <1>5, <1>6, <1>7, <1>8, <1>9, <1>10, <1>12, <1>13, <1>14
     DEF Next, TaskStep
-----------------------------------------------------------------------------
(* Answers *)

\* A task without an answer, which sleeps only if it is a refresh task.
Plain(q) == Fresh(q) /\ (q.stage \in {"sleep", "backoff"} => q.kind = "refresh")

\* Tasks that are new, or as they were but for the cancel flag.
LEMMA AnswersKept ==
  ASSUME ReplyInv, SpentInv,
         \A q \in AllTasks' : /\ q.carries \in 0..MaxSession
                              /\ Plain(q) \/ \E r \in AllTasks : Kept(q, r),
         \A x \in Tab : \A q \in tasks'[x] : q.reply # None =>
            /\ q.reply # auth'[x].token
            /\ \A p \in tasks'[x] : p.reply = q.reply => p = q,
         \A s \in 0..MaxSession : Live(s)' => Live(s)
  PROVE  ReplyInv' /\ SpentInv'
<1>1. ASSUME NEW q \in AllTasks'
      PROVE  /\ q.stage \in {"sleep", "backoff"} => q.kind = "refresh"
             /\ q.ok => q.stage = "answered"
             /\ q.reply # None <=> q.ok /\ q.kind \in {"refresh", "login"}
             /\ q.stage = "answered" /\ q.kind # "login" => ~Live(q.carries)'
  <2>1. CASE Plain(q)
    BY <2>1 DEF Plain, Fresh
  <2>2. ASSUME NEW r \in AllTasks, Kept(q, r)
        PROVE  /\ q.stage \in {"sleep", "backoff"} => q.kind = "refresh"
               /\ q.ok => q.stage = "answered"
               /\ q.reply # None <=> q.ok /\ q.kind \in {"refresh", "login"}
               /\ q.stage = "answered" /\ q.kind # "login" => ~Live(q.carries)
    BY <2>2 DEF Kept, ReplyInv, SpentInv
  <2> QED
    BY <1>1, <2>1, <2>2
<1>2. SpentInv'
  BY <1>1 DEF SpentInv
<1>3. ReplyInv'
  BY <1>1 DEF ReplyInv
<1> QED
  BY <1>2, <1>3

\* Steps that leave every AuthState alone.
LEMMA AnswersQuiet ==
  ASSUME TypeOK, TypeOK', ReplyInv, SpentInv, UNCHANGED auth,
         \A x \in Tab : \A q \in tasks'[x] : Plain(q) \/ q \in tasks[x],
         \A q \in strays' : Plain(q) \/ q \in AllTasks,
         \A s \in 0..MaxSession : Live(s)' => Live(s)
  PROVE  ReplyInv' /\ SpentInv'
<1>1. ASSUME NEW q \in AllTasks'
      PROVE  /\ q.carries \in 0..MaxSession
             /\ Plain(q) \/ \E r \in AllTasks : Kept(q, r)
  <2>1. q \in Task
    BY AllTasksIs DEF TypeOK
  <2>2. Plain(q) \/ q \in AllTasks
    BY AllTasksIs
  <2>3. Kept(q, q)
    BY DEF Kept
  <2> QED
    BY <2>1, <2>2, <2>3, TaskFields
<1>2. ASSUME NEW x \in Tab, NEW q \in tasks'[x], q.reply # None
      PROVE  /\ q.reply # auth'[x].token
             /\ \A p \in tasks'[x] : p.reply = q.reply => p = q
  <2>1. \A p \in tasks'[x] : p.reply = q.reply => p \in tasks[x]
    BY <1>2 DEF Plain, Fresh
  <2> QED
    BY <1>2, <2>1 DEF ReplyInv
<1> QED
  BY <1>1, <1>2, AnswersKept

\* A tab that sets its AuthState to a token that is not on its way.
LEMMA AnswersInstalled ==
  ASSUME TypeOK, TypeOK', ReplyInv, SpentInv, NEW t \in Tab,
         NEW a \in [token : 0..MaxSession, user : User],
         NEW ts \in SUBSET tasks[t], Install(t, a, ts),
         \A q \in ts : q.reply # None => q.reply # a.token,
         strays' \subseteq AllTasks, UNCHANGED sess
  PROVE  ReplyInv' /\ SpentInv'
<1>1. ts \in SUBSET Task
  BY TabTypes
<1>2. ASSUME NEW q \in tasks'[t]
      PROVE  \/ q \in ts /\ tasks'[t] = ts
             \/ q \in Cancelled(ts, a) \/ Plain(q)
  <2>1. Plain(Sleeping(a.user))
    BY SleepingIs DEF Plain
  <2>2. \/ tasks'[t] = ts \/ tasks'[t] = Cancelled(ts, a)
        \/ tasks'[t] = Cancelled(ts, a) \cup {Sleeping(a.user)}
    BY <1>1, InstallIs
  <2> QED
    BY <2>1, <2>2
<1>3. ASSUME NEW q \in tasks'[t], ~Plain(q) PROVE \E r \in ts : Kept(q, r)
  <2>1. CASE q \in ts
    BY <2>1 DEF Kept
  <2>2. CASE q \in Cancelled(ts, a)
    BY <1>1, <2>2, CancelledIs
  <2> QED
    BY <1>2, <1>3, <2>1, <2>2
<1>4. ASSUME NEW q \in AllTasks'
      PROVE  /\ q.carries \in 0..MaxSession
             /\ Plain(q) \/ \E r \in AllTasks : Kept(q, r)
  <2>1. q \in Task
    BY AllTasksIs DEF TypeOK
  <2>2. Kept(q, q)
    BY DEF Kept
  <2>3. ASSUME NEW x \in Tab, q \in tasks'[x]
        PROVE  Plain(q) \/ \E r \in AllTasks : Kept(q, r)
    <3>1. CASE x = t
      BY <1>3, <2>3, <3>1, AllTasksIs
    <3>2. CASE x # t
      BY <1>1, <2>2, <2>3, <3>2, AllTasksIs, InstallIs
    <3> QED
      BY <3>1, <3>2
  <2> QED
    BY <2>1, <2>2, <2>3, TaskFields, AllTasksIs
<1>5. ASSUME NEW x \in Tab, NEW q \in tasks'[x], q.reply # None
      PROVE  /\ q.reply # auth'[x].token
             /\ \A p \in tasks'[x] : p.reply = q.reply => p = q
  <2>1. CASE x # t
    <3>1. tasks'[x] = tasks[x] /\ auth'[x] = auth[x]
      BY <1>1, <2>1, InstallIs
    <3> QED
      BY <1>5, <3>1 DEF ReplyInv
  <2>2. CASE x = t
    <3>1. \A p \in tasks'[t] : p.reply = q.reply => ~Plain(p)
      BY <1>5 DEF Plain, Fresh
    <3>2. PICK r \in ts : Kept(q, r)
      BY <1>3, <2>2, <3>1
    <3>3. q.reply # a.token /\ auth'[t] = a
      BY <1>1, <1>5, <3>2, InstallIs DEF Kept
    <3>4. \A r1, r2 \in ts : r1.reply = q.reply /\ r2.reply = q.reply => r1 = r2
      BY <1>5 DEF ReplyInv
    <3>5. ASSUME NEW p \in tasks'[t], p.reply = q.reply PROVE p = q
      <4>1. CASE tasks'[t] = ts
        BY <2>2, <3>4, <3>5, <4>1
      <4>2. CASE tasks'[t] # ts
        <5>1. p \in Cancelled(ts, a) /\ q \in Cancelled(ts, a)
          BY <1>2, <2>2, <3>1, <3>5, <4>2
        <5> QED
          BY <1>1, <3>4, <3>5, <5>1, CancelledApart
      <4> QED
        BY <4>1, <4>2
    <3> QED
      BY <2>2, <3>3, <3>5
  <2> QED
    BY <2>1, <2>2
<1>6. \A s \in 0..MaxSession : Live(s)' => Live(s)
  BY DEF Live
<1> QED
  BY <1>4, <1>5, <1>6, AnswersKept

\* The answer of the server.
LEMMA AnswersServed ==
  ASSUME TypeOK, TypeOK', ReplyInv, SpentInv, NEW r \in AllTasks, Serve(r)
  PROVE  ReplyInv' /\ SpentInv'
<1>1. UNCHANGED auth
  BY ServeIs
<1>2. PICK a \in Task :
         /\ Served(r, a)
         /\ \/ \E t \in Tab : /\ r \in tasks[t] /\ UNCHANGED strays
                              /\ tasks' = [tasks EXCEPT ![t] = (@ \ {r}) \cup {a}]
            \/ /\ r \in strays /\ UNCHANGED tasks
               /\ strays' = (strays \ {r}) \cup {a}
  BY ServeIs
<1>3. \A x \in Tab : \A q \in tasks'[x] : q = a \/ q \in tasks[x]
  BY <1>2 DEF TypeOK
<1>4. \A q \in AllTasks' : q = a \/ q \in AllTasks
  BY <1>2, <1>3, AllTasksIs
<1>5. \A s \in 0..MaxSession : s \notin Free /\ Live(s)' => Live(s)
  <2> TAKE s \in 0..MaxSession
  <2> HAVE s \notin Free /\ Live(s)'
  <2>1. s # None /\ s \in Session \ Free
    BY BoundAssumption DEF Live, None, Session
  <2> QED
    BY <1>2, <2>1 DEF Served, DyingOnly, Live
<1>6. /\ a.stage = "answered"
      /\ a.reply # None <=> a.ok /\ a.kind \in {"refresh", "login"}
      /\ a.reply # None => a.reply \in Free
      /\ a.kind # "login" => ~Live(a.carries)'
  BY <1>2 DEF Served
<1>7. ASSUME NEW q \in AllTasks'
      PROVE  /\ q.stage \in {"sleep", "backoff"} => q.kind = "refresh"
             /\ q.ok => q.stage = "answered"
             /\ q.reply # None <=> q.ok /\ q.kind \in {"refresh", "login"}
             /\ q.stage = "answered" /\ q.kind # "login" => ~Live(q.carries)'
  <2>1. CASE q = a
    BY <1>6, <2>1
  <2>2. CASE q \in AllTasks
    <3>1. q \in Task /\ q.carries \notin Free
      BY <2>2, AllTasksIs, HeldIsNotFree DEF TypeOK
    <3>2. Live(q.carries)' => Live(q.carries)
      BY <1>5, <3>1, TaskFields
    <3> QED
      BY <2>2, <3>2 DEF ReplyInv, SpentInv
  <2> QED
    BY <1>4, <2>1, <2>2
<1>8. ASSUME NEW x \in Tab, NEW q \in tasks'[x], q.reply # None
      PROVE  /\ q.reply # auth'[x].token
             /\ \A p \in tasks'[x] : p.reply = q.reply => p = q
  <2>1. \A p \in tasks[x] : p.reply \notin Free
    BY AllTasksIs, HeldIsNotFree
  <2>2. auth[x].token \notin Free
    BY HeldIsNotFree
  <2>3. CASE q = a
    BY <1>1, <1>3, <1>6, <1>8, <2>1, <2>2, <2>3
  <2>4. CASE q # a
    <3>1. q \in tasks[x]
      BY <1>3, <2>4
    <3>2. \A p \in tasks'[x] : p.reply = q.reply => p \in tasks[x]
      BY <1>3, <1>6, <1>8, <2>1, <3>1
    <3> QED
      BY <1>1, <1>8, <3>1, <3>2 DEF ReplyInv
  <2> QED
    BY <2>3, <2>4
<1>9. SpentInv'
  BY <1>7 DEF SpentInv
<1>10. ReplyInv'
  BY <1>7, <1>8 DEF ReplyInv
<1> QED
  BY <1>9, <1>10

\* Every step keeps what is known of answers.
LEMMA NextAnswers ==
  TypeOK /\ TypeOK' /\ ReplyInv /\ SpentInv /\ [Next]_vars => ReplyInv' /\ SpentInv'
<1> SUFFICES ASSUME TypeOK, TypeOK', ReplyInv, SpentInv, [Next]_vars
             PROVE  ReplyInv' /\ SpentInv'
  OBVIOUS
<1>1. UNCHANGED sess => \A s \in 0..MaxSession : Live(s)' => Live(s)
  BY DEF Live
<1>2. ASSUME NEW t \in Tab, UNCHANGED <<auth, sess, strays>>, NEW new,
             tasks' = [tasks EXCEPT ![t] = new],
             \A q \in new : Plain(q) \/ q \in tasks[t]
      PROVE  ReplyInv' /\ SpentInv'
  <2>1. \A x \in Tab : \A q \in tasks'[x] : Plain(q) \/ q \in tasks[x]
    BY <1>2 DEF TypeOK
  <2>2. \A q \in strays' : q \in AllTasks
    BY <1>2, AllTasksIs
  <2> QED
    BY <1>1, <1>2, <2>1, <2>2, AnswersQuiet
<1>3. ASSUME NEW t \in Tab, NEW u \in User, SubmitLogin(t, u)
      PROVE  ReplyInv' /\ SpentInv'
  <2>1. PICK w \in Task : w = Waiting("login", u) /\ Plain(w)
    BY WaitingIs DEF Kind, Plain
  <2>2. PICK new : new = tasks[t] \cup {w}
    OBVIOUS
  <2>3. tasks' = [tasks EXCEPT ![t] = new] /\ UNCHANGED <<auth, sess, strays>>
    BY <1>3, <2>1, <2>2 DEF SubmitLogin
  <2>4. \A q \in new : Plain(q) \/ q \in tasks[t]
    BY <2>1, <2>2
  <2> QED
    BY <1>2, <2>3, <2>4
<1>4. ASSUME NEW t \in Tab, PressLogout(t) PROVE ReplyInv' /\ SpentInv'
  <2>1. PICK w \in Task : w = Waiting("logout", auth[t].user) /\ Plain(w)
    BY WaitingIs, TabTypes DEF Kind, Plain
  <2>2. PICK new : new = tasks[t] \cup {w}
    OBVIOUS
  <2>3. tasks' = [tasks EXCEPT ![t] = new] /\ UNCHANGED <<auth, sess, strays>>
    BY <1>4, <2>1, <2>2 DEF PressLogout
  <2>4. \A q \in new : Plain(q) \/ q \in tasks[t]
    BY <2>1, <2>2
  <2> QED
    BY <1>2, <2>3, <2>4
<1>5. ASSUME NEW t \in Tab, SubmitPassword(t) PROVE ReplyInv' /\ SpentInv'
  <2>1. PICK w \in Task : w = Waiting("password", auth[t].user) /\ Plain(w)
    BY WaitingIs, TabTypes DEF Kind, Plain
  <2>2. PICK v : v = [w EXCEPT !.carries = auth[t].token]
    OBVIOUS
  <2>3. Plain(v)
    BY <2>1, <2>2 DEF Plain, Fresh, Task
  <2>4. PICK new : new = tasks[t] \cup {v}
    OBVIOUS
  <2>5. tasks' = [tasks EXCEPT ![t] = new] /\ UNCHANGED <<auth, sess, strays>>
    BY <1>5, <2>1, <2>2, <2>4 DEF SubmitPassword
  <2> QED
    BY <1>2, <2>3, <2>4, <2>5
<1>6. ASSUME NEW t \in Tab, ReloadPage(t) PROVE ReplyInv' /\ SpentInv'
  <2>1. PICK w \in Task : w = Sleeping(auth[t].user) /\ Plain(w)
    BY SleepingIs, TabTypes DEF Plain
  <2>2. PICK new : new = IF SignedIn(t) THEN {w} ELSE {}
    OBVIOUS
  <2>3. tasks' = [tasks EXCEPT ![t] = new] /\ UNCHANGED <<auth, sess>>
        /\ strays' \subseteq strays \cup tasks[t]
    BY <1>6, <2>1, <2>2 DEF ReloadPage
  <2>4. \A x \in Tab : \A q \in tasks'[x] : Plain(q) \/ q \in tasks[x]
    BY <2>1, <2>2, <2>3 DEF TypeOK
  <2>5. \A q \in strays' : q \in AllTasks
    BY <2>3, AllTasksIs
  <2> QED
    BY <1>1, <2>3, <2>4, <2>5, AnswersQuiet
<1>7. ASSUME NEW t \in Tab, NEW r \in tasks[t], Wake(t, r)
      PROVE  ReplyInv' /\ SpentInv'
  <2>1. r.user \in User
    BY TaskFields, TabTypes
  <2>2. PICK w \in Task : w = Waiting("refresh", r.user) /\ Plain(w)
    BY <2>1, WaitingIs DEF Kind, Plain
  <2>3. PICK new : new = (tasks[t] \ {r}) \cup IF r.stale THEN {} ELSE {w}
    OBVIOUS
  <2>4. tasks' = [tasks EXCEPT ![t] = new] /\ UNCHANGED <<auth, sess, strays>>
    BY <1>7, <2>2, <2>3 DEF Wake
  <2>5. \A q \in new : Plain(q) \/ q \in tasks[t]
    BY <2>2, <2>3
  <2> QED
    BY <1>2, <2>4, <2>5
<1>8. ASSUME NEW t \in Tab, NEW r \in tasks[t], WakeLast(t, r)
      PROVE  ReplyInv' /\ SpentInv'
  <2>1. r.user \in User
    BY TaskFields, TabTypes
  <2>2. PICK w \in Task : w = Waiting("refresh", r.user) /\ Plain(w)
    BY <2>1, WaitingIs DEF Kind, Plain
  <2>3. tasks' = [tasks EXCEPT ![t] = tasks[t] \ {r}] /\ UNCHANGED <<auth, sess>>
        /\ strays' \subseteq strays \cup {w}
    BY <1>8, <2>2 DEF WakeLast
  <2>4. \A x \in Tab : \A q \in tasks'[x] : q \in tasks[x]
    BY <2>3 DEF TypeOK
  <2>5. \A q \in strays' : Plain(q) \/ q \in AllTasks
    BY <2>2, <2>3, AllTasksIs
  <2> QED
    BY <1>1, <2>3, <2>4, <2>5, AnswersQuiet
<1>9. ASSUME NEW t \in Tab, NEW r \in tasks[t], Receive(t, r)
      PROVE  ReplyInv' /\ SpentInv'
  <2>1. PICK a \in [token : 0..MaxSession, user : User] :
           /\ Install(t, a, tasks[t] \ {r})
           /\ \/ r.kind \in {"refresh", "login"} /\ r.ok /\ a.token = r.reply
              \/ a = SignedOut \/ a = auth[t]
    BY <1>9, ReceiveIs
  <2>2. \A q \in tasks[t] \ {r} : q.reply # None => q.reply # a.token
    <3>1. CASE r.kind \in {"refresh", "login"} /\ r.ok /\ a.token = r.reply
      BY <3>1 DEF ReplyInv
    <3>2. CASE a = SignedOut
      BY <3>2, SignedOutIs
    <3>3. CASE a = auth[t]
      BY <3>3 DEF ReplyInv
    <3> QED
      BY <2>1, <3>1, <3>2, <3>3
  <2>3. UNCHANGED <<sess, strays>>
    BY <1>9 DEF Receive
  <2>4. strays' \subseteq AllTasks
    BY <2>3, AllTasksIs
  <2> QED
    BY <2>1, <2>2, <2>3, <2>4, AnswersInstalled
<1>10. ASSUME NEW t \in Tab, NEW r \in tasks[t], Fail(t, r)
       PROVE  ReplyInv' /\ SpentInv'
  <2>1. UNCHANGED sess /\ strays' = strays \cup {r}
    BY <1>10 DEF Fail
  <2>2. strays' \subseteq AllTasks
    BY <2>1, AllTasksIs
  <2>3. CASE /\ r.kind = "refresh" /\ UNCHANGED <<auth, gaveUp>>
             /\ \E q \in Task :
                  /\ tasks' = [tasks EXCEPT ![t] = (@ \ {r}) \cup {q}]
                  /\ Fresh(q) /\ q.kind = r.kind
    <3>1. PICK q \in Task : /\ tasks' = [tasks EXCEPT ![t] = (tasks[t] \ {r}) \cup {q}]
                            /\ Plain(q)
      BY <2>3 DEF Plain
    <3>2. \A x \in Tab : \A p \in tasks'[x] : Plain(p) \/ p \in tasks[x]
      BY <3>1 DEF TypeOK
    <3> QED
      BY <1>1, <2>1, <2>2, <2>3, <3>2, AnswersQuiet
  <2>4. CASE \E a \in [token : 0..MaxSession, user : User] :
                /\ Install(t, a, tasks[t] \ {r})
                /\ a = SignedOut \/ a = auth[t]
    <3>1. PICK a \in [token : 0..MaxSession, user : User] :
             /\ Install(t, a, tasks[t] \ {r})
             /\ a = SignedOut \/ a = auth[t]
      BY <2>4
    <3>2. \A q \in tasks[t] \ {r} : q.reply # None => q.reply # a.token
      BY <3>1, SignedOutIs DEF ReplyInv
    <3> QED
      BY <2>1, <2>2, <3>1, <3>2, AnswersInstalled
  <2> QED
    BY <1>10, <2>3, <2>4, FailIs, SignedOutIs, TabTypes
<1>11. ASSUME NEW r \in AllTasks, Serve(r) PROVE ReplyInv' /\ SpentInv'
  BY <1>11, AnswersServed
<1>12. ASSUME NEW r \in strays, Stray(r) PROVE ReplyInv' /\ SpentInv'
  <2>1. UNCHANGED <<sess, auth, tasks>> /\ strays' \subseteq strays
    BY <1>12 DEF Stray
  <2>2. \A q \in strays' : q \in AllTasks
    BY <2>1, AllTasksIs
  <2> QED
    BY <1>1, <2>1, <2>2, AnswersQuiet
<1>13. ASSUME NEW u \in User, EndSessions(u) PROVE ReplyInv' /\ SpentInv'
  <2>1. UNCHANGED <<auth, tasks, strays>> /\ sess' = EndAll(u)
    BY <1>13 DEF EndSessions
  <2>2. \A s \in Session : sess'[s].live => sess[s].live
    BY <2>1, EndAllIs DEF DyingOnly
  <2>3. \A s \in 0..MaxSession : Live(s)' => Live(s)
    BY <2>2, BoundAssumption DEF Live, None, Session
  <2>4. \A q \in strays' : q \in AllTasks
    BY <2>1, AllTasksIs
  <2> QED
    BY <2>1, <2>3, <2>4, AnswersQuiet
<1>14. CASE UNCHANGED vars
  <2>1. UNCHANGED <<sess, auth, tasks, strays>>
    BY <1>14 DEF vars
  <2>2. \A q \in strays' : q \in AllTasks
    BY <2>1, AllTasksIs
  <2> QED
    BY <1>1, <2>1, <2>2, AnswersQuiet
<1> QED
  BY <1>3, <1>4, <1>5, <1>6, <1>7, <1>8, <1>9, <1>10, <1>11, <1>12, <1>13, <1>14
     DEF Next, TaskStep
-----------------------------------------------------------------------------
(* Who a tab shows, and what the cookie is *)

\* The cookie is a session or None.
LEMMA CookieTypes ==
  ASSUME TypeOK
  PROVE  /\ cookie \in 0..MaxSession
         /\ \A s \in 0..MaxSession : s # None => s \in Session
BY BoundAssumption DEF TypeOK, None, Session

\* A session that is referred to keeps its user, and does not come to life.
LEMMA HeldOnlyDies ==
  ASSUME TypeOK, DyingOnly(Free, sess, sess'), NEW s \in 0..MaxSession, s \notin Free
  PROVE  /\ s # None => sess'[s].user = sess[s].user
         /\ Live(s)' => Live(s)
<1>1. s # None => s \in Session \ Free
  BY CookieTypes
<1> QED
  BY <1>1 DEF DyingOnly, Live

\* What t may send: with the cookie, and in its state.
NewOK(t, n) ==
    /\ Fresh(n)
    /\ n.kind = "refresh" /\ ~n.stale =>
          /\ SignedIn(t) /\ n.user = auth[t].user
          /\ n.stage = "sent" => n.carries = cookie
    /\ n.kind = "login" => /\ ~SignedIn(t)
                           /\ \A q \in tasks[t] : q.kind # "login"
    /\ n.kind = "password" => SignedIn(t) /\ n.carries = cookie

\* A tab stays as it should when tasks go, one allowed task comes, and sessions
\* that somebody holds only die.
LEMMA TabQuiet ==
  ASSUME TypeOK, NEW t \in Tab, TabInv(t), UNCHANGED <<auth, cookie>>,
         DyingOnly(Free, sess, sess'), NEW n,
         \A q \in tasks'[t] : q \in tasks[t] \/ (q = n /\ NewOK(t, n))
  PROVE  TabInv(t)'
<1>1. cookie \notin Free /\ auth[t].token \notin Free
  BY HeldIsNotFree
<1>2. /\ cookie # None => sess'[cookie].user = sess[cookie].user
      /\ Live(cookie)' => Live(cookie)
  <2>1. PICK s \in 0..MaxSession : s = cookie
    BY CookieTypes
  <2>2. /\ s # None => sess'[s].user = sess[s].user
        /\ Live(s)' => Live(s)
    BY <1>1, <2>1, HeldOnlyDies
  <2>3. Live(cookie)' <=> Live(s)'
    BY <2>1 DEF Live
  <2> QED
    BY <2>1, <2>2, <2>3
<1>3. SignedIn(t)' <=> SignedIn(t)
  BY DEF SignedIn
<1>4. IF SignedIn(t)' THEN cookie' = auth'[t].token /\ sess'[cookie'].user = auth'[t].user
      ELSE ~Live(cookie)'
  BY <1>2, <1>3 DEF TabInv, SignedIn
<1>5. ASSUME NEW q \in tasks[t], q \in tasks'[t]
      PROVE  RefreshOK(t, q)' /\ LoginOK(t, q)' /\ PasswordOK(t, q)' /\ IssuedOK(q)'
  <2>1. RefreshOK(t, q) /\ LoginOK(t, q) /\ PasswordOK(t, q) /\ IssuedOK(q)
    BY <1>5 DEF TabInv
  <2>2. q.carries \in 0..MaxSession /\ q.reply \in 0..MaxSession
        /\ q.carries \notin Free /\ q.reply \notin Free
    BY <1>5, TaskFields, TabTypes, AllTasksIs, HeldIsNotFree
  <2>3. /\ Live(q.carries)' => Live(q.carries)
        /\ q.reply # None => sess'[q.reply].user = sess[q.reply].user
    BY <2>2, HeldOnlyDies
  <2>4. RefreshOK(t, q)' /\ IssuedOK(q)'
    BY <1>3, <2>1, <2>3 DEF RefreshOK, IssuedOK
  <2>5. LoginOK(t, q)'
    BY <1>3, <2>1 DEF LoginOK, NewOK
  <2>6. \A p \in LiveOf(tasks[t])' : p \in LiveOf(tasks[t]) \/ ~p.ok
    BY DEF LiveOf, NewOK, Fresh
  <2>7. PasswordOK(t, q)'
    BY <1>3, <2>1, <2>3, <2>6 DEF PasswordOK
  <2> QED
    BY <2>4, <2>5, <2>7
<1>6. ASSUME NewOK(t, n), n \in tasks'[t]
      PROVE  RefreshOK(t, n)' /\ LoginOK(t, n)' /\ PasswordOK(t, n)' /\ IssuedOK(n)'
  BY <1>3, <1>6 DEF NewOK, Fresh, RefreshOK, LoginOK, PasswordOK, IssuedOK
<1>7. \A q \in tasks'[t] : RefreshOK(t, q)' /\ LoginOK(t, q)'
                           /\ PasswordOK(t, q)' /\ IssuedOK(q)'
  BY <1>5, <1>6
<1> QED
  BY <1>4, <1>7 DEF TabInv

\* The tasks of a tab whose token changes, but for the refresh task it starts.
LEMMA TabCancelled ==
  ASSUME TypeOK, NEW t \in Tab, TabInv(t), NEW r \in tasks[t], ~r.stale, NEW a,
         NEW q \in Cancelled(tasks[t] \ {r}, a)
  PROVE  /\ q.kind = "refresh" => q.stale
         /\ a.token = None => q.stale
         /\ q.kind = "login" =>
               \A p \in Cancelled(tasks[t] \ {r}, a) : p.kind = "login" => p = q
         /\ \E s \in tasks[t] \ {r} : Kept(q, s) /\ IssuedOK(s) /\ LoginOK(t, s)
                                      /\ PasswordOK(t, s)
<1>1. tasks[t] \ {r} \in SUBSET Task
  BY TabTypes
<1>2. q.kind = "refresh" \/ a.token = None => q.stale
  BY <1>1, CancelledIs
<1>3. \A p \in Cancelled(tasks[t] \ {r}, a) :
         \E s \in tasks[t] \ {r} :
            /\ Kept(p, s) /\ p = [s EXCEPT !.stale = p.stale]
            /\ p.stale = (s.stale \/ s.kind = "refresh" \/ a.token = None)
  BY <1>1, CancelledIs
<1>4. PICK s \in tasks[t] \ {r} :
         /\ Kept(q, s) /\ q = [s EXCEPT !.stale = q.stale]
         /\ q.stale = (s.stale \/ s.kind = "refresh" \/ a.token = None)
  BY <1>3
<1>5. IssuedOK(s) /\ LoginOK(t, s) /\ PasswordOK(t, s)
  BY DEF TabInv
<1>6. ASSUME q.kind = "login", NEW p \in Cancelled(tasks[t] \ {r}, a), p.kind = "login"
      PROVE  p = q
  <2>1. PICK v \in tasks[t] \ {r} :
           /\ Kept(p, v) /\ p = [v EXCEPT !.stale = p.stale]
           /\ p.stale = (v.stale \/ v.kind = "refresh" \/ a.token = None)
    BY <1>3
  <2>2. v = s
    BY <1>4, <1>5, <1>6, <2>1 DEF Kept, LoginOK
  <2> QED
    BY <1>4, <2>1, <2>2
<1> QED
  BY <1>2, <1>4, <1>5, <1>6

\* A sign-in, or a renewal, that is not out of turn.
LEMMA TabRenewed ==
  ASSUME TypeOK, ReplyInv, SpentInv, NEW t \in Tab, TabInv(t), NEW r \in tasks[t],
         ~r.stale, r.kind \in {"refresh", "login"}, r.ok,
         NEW a \in [token : 0..MaxSession, user : User],
         Install(t, a, tasks[t] \ {r}), a.token = r.reply, a.user = r.user,
         cookie' = r.reply, UNCHANGED sess
  PROVE  TabInv(t)'
<1>1. r.stage = "answered" /\ r.reply # None /\ r.reply # auth[t].token
      /\ (r.kind # "login" => ~Live(r.carries))
  BY AllTasksIs DEF ReplyInv, SpentInv
<1>2. tasks[t] \ {r} \in SUBSET Task
  BY TabTypes
<1>3. PICK n : n = Sleeping(a.user)
  OBVIOUS
<1>4. tasks'[t] = Cancelled(tasks[t] \ {r}, a) \cup {n} /\ auth'[t] = a
  BY <1>1, <1>2, <1>3, InstallIs
<1>5. n.kind = "refresh" /\ n.user = a.user /\ ~n.stale /\ n.stage = "sleep" /\ Fresh(n)
  BY <1>3, SleepingIs
<1>6. SignedIn(t)'
  BY <1>1, <1>4 DEF SignedIn
<1>7. IssuedOK(r) /\ RefreshOK(t, r) /\ LoginOK(t, r)
  BY DEF TabInv
<1>8. cookie' = auth'[t].token /\ sess'[cookie'].user = auth'[t].user
  BY <1>1, <1>4, <1>7 DEF IssuedOK
<1>9. RefreshOK(t, n)' /\ LoginOK(t, n)' /\ PasswordOK(t, n)' /\ IssuedOK(n)'
  BY <1>4, <1>5, <1>6 DEF RefreshOK, LoginOK, PasswordOK, IssuedOK, Fresh
<1>10. ASSUME NEW q \in Cancelled(tasks[t] \ {r}, a)
       PROVE  RefreshOK(t, q)' /\ LoginOK(t, q)' /\ PasswordOK(t, q)' /\ IssuedOK(q)'
  <2>1. /\ q.kind = "refresh" => q.stale
        /\ q.kind = "login" =>
              \A p \in Cancelled(tasks[t] \ {r}, a) : p.kind = "login" => p = q
    BY <1>10, TabCancelled
  <2>2. PICK s \in tasks[t] \ {r} : /\ Kept(q, s) /\ IssuedOK(s)
                                    /\ LoginOK(t, s) /\ PasswordOK(t, s)
    BY <1>10, TabCancelled
  <2>3. RefreshOK(t, q)' /\ IssuedOK(q)'
    BY <2>1, <2>2 DEF RefreshOK, IssuedOK, Kept
  <2>4. q.kind = "login" => q.stale
    <3>1. CASE r.kind = "login"
      BY <1>7, <2>2, <3>1 DEF LoginOK, Kept
    <3>2. CASE r.kind = "refresh"
      <4>1. SignedIn(t)
        BY <1>7, <3>2 DEF RefreshOK
      <4> QED
        BY <2>2, <4>1 DEF LoginOK, Kept
    <3> QED
      BY <3>1, <3>2
  <2>5. LoginOK(t, q)'
    BY <1>4, <1>5, <2>1, <2>4 DEF LoginOK
  <2>6. q.kind = "password" /\ ~q.stale => ~Live(q.carries) /\ ~q.ok
    <3> SUFFICES ASSUME q.kind = "password", ~q.stale
                 PROVE  ~Live(q.carries) /\ ~q.ok
      OBVIOUS
    <3>1. /\ SignedIn(t) /\ (Live(s.carries) \/ s.ok => s.carries = cookie)
          /\ s.ok => \A p \in LiveOf(tasks[t]) : ~p.ok
      BY <2>2 DEF PasswordOK, Kept
    <3>2. r.kind = "refresh"
      BY <1>7, <3>1 DEF LoginOK
    <3>3. r.carries = cookie /\ ~Live(r.carries)
      BY <1>1, <1>7, <3>2 DEF RefreshOK
    <3>4. r \in LiveOf(tasks[t])
      BY <3>2 DEF LiveOf
    <3> QED
      BY <2>2, <3>1, <3>3, <3>4 DEF Kept
  <2>7. Live(q.carries)' <=> Live(q.carries)
    BY DEF Live
  <2>8. PasswordOK(t, q)'
    BY <1>6, <2>6, <2>7 DEF PasswordOK
  <2> QED
    BY <2>3, <2>5, <2>8
<1>11. \A q \in tasks'[t] : RefreshOK(t, q)' /\ LoginOK(t, q)'
                            /\ PasswordOK(t, q)' /\ IssuedOK(q)'
  BY <1>4, <1>9, <1>10
<1> QED
  BY <1>6, <1>8, <1>11 DEF TabInv

\* A sign-out, by itself or by a refused renewal or a new password.
LEMMA TabLeft ==
  ASSUME TypeOK, NEW t \in Tab, TabInv(t), NEW r \in tasks[t], ~r.stale,
         Install(t, SignedOut, tasks[t] \ {r}), ~Live(cookie)', UNCHANGED sess,
         SignedIn(t) \/ r.kind = "logout"
  PROVE  TabInv(t)'
<1>1. tasks[t] \ {r} \in SUBSET Task
  BY TabTypes
<1>2. auth'[t] = SignedOut /\ ~SignedIn(t)'
  BY <1>1, InstallIs, SignedOutIs DEF SignedIn
<1>3. CASE SignedIn(t)
  <2>1. PICK a : a = SignedOut
    OBVIOUS
  <2>2. a.token = None
    BY <2>1, SignedOutIs
  <2>3. tasks'[t] = Cancelled(tasks[t] \ {r}, a)
    BY <1>1, <1>3, <2>1, <2>2, InstallIs, SignedOutIs DEF SignedIn
  <2>4. ASSUME NEW q \in tasks'[t]
        PROVE  RefreshOK(t, q)' /\ LoginOK(t, q)' /\ PasswordOK(t, q)' /\ IssuedOK(q)'
    <3>1. /\ q.stale
          /\ q.kind = "login" =>
                \A p \in Cancelled(tasks[t] \ {r}, a) : p.kind = "login" => p = q
      BY <2>2, <2>3, <2>4, TabCancelled
    <3>2. PICK s \in tasks[t] \ {r} : Kept(q, s) /\ IssuedOK(s)
      BY <2>3, <2>4, TabCancelled
    <3> QED
      BY <2>3, <3>1, <3>2 DEF RefreshOK, LoginOK, PasswordOK, IssuedOK, Kept
  <2> QED
    BY <1>2, <2>4 DEF TabInv
<1>4. CASE ~SignedIn(t)
  <2>1. tasks'[t] = tasks[t] \ {r}
    BY <1>1, <1>4, InstallIs, SignedOutIs DEF SignedIn
  <2>2. ASSUME NEW q \in tasks'[t]
        PROVE  RefreshOK(t, q)' /\ LoginOK(t, q)' /\ PasswordOK(t, q)' /\ IssuedOK(q)'
    <3>1. q \in tasks[t]
      BY <2>1, <2>2
    <3>2. RefreshOK(t, q) /\ LoginOK(t, q) /\ PasswordOK(t, q) /\ IssuedOK(q)
      BY <3>1 DEF TabInv
    <3>3. RefreshOK(t, q)' /\ PasswordOK(t, q)' /\ IssuedOK(q)'
      BY <1>4, <3>2 DEF RefreshOK, PasswordOK, IssuedOK
    <3>4. LoginOK(t, q)'
      BY <1>2, <2>1, <3>2 DEF LoginOK
    <3> QED
      BY <3>3, <3>4
  <2> QED
    BY <1>2, <2>2 DEF TabInv
<1> QED
  BY <1>3, <1>4

\* A tab that takes an answer in its turn.
LEMMA TabReceived ==
  ASSUME TypeOK, ReplyInv, SpentInv, NEW t \in Tab, TabInv(t), NEW r \in tasks[t],
         ~r.stale, Receive(t, r)
  PROVE  TabInv(t)'
<1>1. r.stage = "answered" /\ UNCHANGED sess
      /\ cookie' = IF r.reply # None THEN r.reply
                   ELSE IF r.kind = "logout" THEN None ELSE cookie
  BY DEF Receive, SetCookie
<1>2. /\ r.reply # None <=> r.ok /\ r.kind \in {"refresh", "login"}
      /\ r.kind # "login" => ~Live(r.carries)
  BY <1>1, AllTasksIs DEF ReplyInv, SpentInv
<1>3. RefreshOK(t, r) /\ PasswordOK(t, r)
  BY DEF TabInv
<1>4. PICK a \in [token : 0..MaxSession, user : User] :
         /\ Install(t, a, tasks[t] \ {r})
         /\ \/ /\ r.kind \in {"refresh", "login"} /\ r.ok
               /\ a.token = r.reply /\ a.user = r.user
            \/ /\ r.kind = "logout" \/ (r.kind = "refresh" /\ ~r.ok)
                                    \/ (r.kind = "password" /\ r.ok)
               /\ a = SignedOut
            \/ /\ r.kind \in {"login", "password"} /\ ~r.ok
               /\ a = auth[t]
  BY ReceiveIs
<1>5. CASE /\ r.kind \in {"refresh", "login"} /\ r.ok
           /\ a.token = r.reply /\ a.user = r.user
  BY <1>1, <1>2, <1>4, <1>5, TabRenewed
<1>6. CASE /\ r.kind = "logout" \/ (r.kind = "refresh" /\ ~r.ok)
                                \/ (r.kind = "password" /\ r.ok)
           /\ a = SignedOut
  <2>1. SignedIn(t) \/ r.kind = "logout"
    BY <1>3, <1>6 DEF RefreshOK, PasswordOK
  <2>2. CASE r.kind = "logout"
    <3>1. cookie' = None
      BY <1>1, <1>2, <2>2
    <3>2. ~Live(cookie)'
      BY <3>1 DEF Live
    <3> QED
      BY <1>1, <1>4, <1>6, <2>1, <3>2, TabLeft
  <2>3. CASE r.kind # "logout"
    <3>1. r.carries = cookie /\ ~Live(r.carries)
      BY <1>1, <1>2, <1>3, <1>6, <2>3 DEF RefreshOK, PasswordOK
    <3>2. cookie' = cookie
      BY <1>1, <1>2, <1>6, <2>3
    <3>3. ~Live(cookie)'
      BY <1>1, <3>1, <3>2 DEF Live
    <3> QED
      BY <1>1, <1>4, <1>6, <2>1, <3>3, TabLeft
  <2> QED
    BY <2>2, <2>3
<1>7. CASE r.kind \in {"login", "password"} /\ ~r.ok /\ a = auth[t]
  <2>1. tasks[t] \ {r} \in SUBSET Task
    BY TabTypes
  <2>2. tasks'[t] = tasks[t] \ {r} /\ auth' = auth
    BY <1>4, <1>7, <2>1, InstallIs DEF Install, TypeOK
  <2>3. cookie' = cookie
    BY <1>1, <1>2, <1>7
  <2>4. DyingOnly(Free, sess, sess')
    BY <1>1 DEF DyingOnly
  <2>5. \A q \in tasks'[t] : q \in tasks[t]
    BY <2>2
  <2> QED
    BY <2>2, <2>3, <2>4, <2>5, TabQuiet
<1> QED
  BY <1>4, <1>5, <1>6, <1>7

\* The answer that the server gives to a request of t.
LEMMA TabServed ==
  ASSUME TypeOK, ReplyInv, SpentInv, NEW t \in Tab, TabInv(t), NEW r \in tasks[t],
         r.stage = "sent", NEW a \in Task, Served(r, a),
         UNCHANGED <<cookie, auth>>, tasks'[t] = (tasks[t] \ {r}) \cup {a}
  PROVE  TabInv(t)'
<1>1. /\ a.kind = r.kind /\ a.user = r.user /\ a.stale = r.stale
      /\ a.carries = r.carries /\ a.stage = "answered"
      /\ a.reply # None <=> a.ok /\ a.kind \in {"refresh", "login"}
      /\ a.kind # "login" => ~Live(a.carries)'
      /\ a.kind \in {"refresh", "password"} /\ a.ok => Live(r.carries)
      /\ a.kind = "refresh" /\ a.ok => sess'[a.reply].user = sess[r.carries].user
      /\ a.kind = "login" /\ a.ok => sess'[a.reply].user = r.user
      /\ DyingOnly(Free, sess, sess')
  BY DEF Served
<1>2. RefreshOK(t, r) /\ LoginOK(t, r) /\ PasswordOK(t, r)
  BY DEF TabInv
<1>3. \A q \in tasks[t] : q.ok => q.stage = "answered"
  BY AllTasksIs DEF ReplyInv
<1>4. \A q \in tasks[t] : q.stage = "answered" /\ q.kind # "login" => ~Live(q.carries)
  BY AllTasksIs DEF SpentInv
<1>5. SignedIn(t)' <=> SignedIn(t)
  BY DEF SignedIn
<1>6. IF SignedIn(t)' THEN cookie' = auth'[t].token /\ sess'[cookie'].user = auth'[t].user
      ELSE ~Live(cookie)'
  <2>1. PICK s \in 0..MaxSession : s = cookie
    BY CookieTypes
  <2>2. s \notin Free
    BY <2>1, HeldIsNotFree
  <2>3. /\ s # None => sess'[s].user = sess[s].user
        /\ Live(s)' => Live(s)
    BY <1>1, <2>2, HeldOnlyDies
  <2>4. Live(cookie)' <=> Live(s)'
    BY <2>1 DEF Live
  <2> QED
    BY <1>5, <2>1, <2>3, <2>4 DEF TabInv, SignedIn
<1>7. a.kind = "refresh" /\ ~a.stale =>
         SignedIn(t) /\ a.user = auth[t].user /\ a.carries = cookie
  BY <1>1, <1>2 DEF RefreshOK
<1>8. a.kind = "password" /\ ~a.stale =>
         SignedIn(t) /\ (a.ok => a.carries = cookie /\ Live(cookie))
  BY <1>1, <1>2 DEF PasswordOK
<1>9. RefreshOK(t, a)'
  BY <1>5, <1>7 DEF RefreshOK
<1>10. LoginOK(t, a)'
  BY <1>1, <1>2, <1>5 DEF LoginOK
<1>11. PasswordOK(t, a)'
  <2>1. ASSUME a.kind = "password", ~a.stale, a.ok, NEW q \in LiveOf(tasks[t])'
        PROVE  ~q.ok
    <3>1. q.kind = "refresh" /\ ~q.stale /\ q \in tasks[t]
      BY <2>1 DEF LiveOf
    <3>2. q.ok => ~Live(q.carries) /\ q.carries = cookie
      BY <1>3, <1>4, <3>1 DEF TabInv, RefreshOK
    <3> QED
      BY <1>8, <2>1, <3>2
  <2>2. a.kind = "password" => ~Live(a.carries)'
    BY <1>1
  <2> QED
    BY <1>5, <1>8, <2>1, <2>2 DEF PasswordOK
<1>12. IssuedOK(a)'
  <2>1. CASE a.kind = "refresh" /\ a.ok /\ ~a.stale
    <3>1. sess'[a.reply].user = sess[cookie].user
      BY <1>1, <1>7, <2>1
    <3>2. sess[cookie].user = auth[t].user
      BY <1>7, <2>1 DEF TabInv
    <3> QED
      BY <1>7, <2>1, <3>1, <3>2 DEF IssuedOK
  <2>2. CASE ~(a.kind = "refresh" /\ a.ok /\ ~a.stale)
    BY <1>1, <2>2 DEF IssuedOK
  <2> QED
    BY <2>1, <2>2
<1>13. ASSUME NEW q \in tasks[t] \ {r}
       PROVE  RefreshOK(t, q)' /\ LoginOK(t, q)' /\ PasswordOK(t, q)' /\ IssuedOK(q)'
  <2>1. RefreshOK(t, q) /\ LoginOK(t, q) /\ PasswordOK(t, q) /\ IssuedOK(q)
    BY DEF TabInv
  <2>2. q.carries \in 0..MaxSession /\ q.reply \in 0..MaxSession
        /\ q.carries \notin Free /\ q.reply \notin Free
    BY TaskFields, TabTypes, AllTasksIs, HeldIsNotFree
  <2>3. /\ Live(q.carries)' => Live(q.carries)
        /\ q.reply # None => sess'[q.reply].user = sess[q.reply].user
    BY <1>1, <2>2, HeldOnlyDies
  <2>4. RefreshOK(t, q)' /\ IssuedOK(q)'
    BY <1>5, <2>1, <2>3 DEF RefreshOK, IssuedOK
  <2>5. LoginOK(t, q)'
    BY <1>1, <1>5, <2>1 DEF LoginOK
  <2>6. ASSUME q.kind = "password", ~q.stale, q.ok, NEW p \in LiveOf(tasks[t])'
        PROVE  ~p.ok
    <3>1. q.carries = cookie /\ ~Live(q.carries)
      BY <1>3, <1>4, <2>1, <2>6 DEF PasswordOK
    <3>2. CASE p = a
      <4>1. p.ok => Live(r.carries) /\ r.carries = cookie
        BY <1>1, <1>7, <2>6, <3>2 DEF LiveOf
      <4> QED
        BY <3>1, <4>1
    <3>3. CASE p # a
      <4>1. p \in LiveOf(tasks[t])
        BY <2>6, <3>3 DEF LiveOf
      <4> QED
        BY <2>1, <2>6, <4>1 DEF PasswordOK
    <3> QED
      BY <3>2, <3>3
  <2>7. PasswordOK(t, q)'
    BY <1>5, <2>1, <2>3, <2>6 DEF PasswordOK
  <2> QED
    BY <2>4, <2>5, <2>7
<1>14. \A q \in tasks'[t] : RefreshOK(t, q)' /\ LoginOK(t, q)'
                            /\ PasswordOK(t, q)' /\ IssuedOK(q)'
  BY <1>9, <1>10, <1>11, <1>12, <1>13
<1> QED
  BY <1>6, <1>14 DEF TabInv

\* An answer out of turn is not undone.
LEMMA UpsetStays ==
  ASSUME TypeOK, [Next]_vars, upset
  PROVE  upset'
<1>1. ASSUME NEW t \in Tab, NEW u \in User, SubmitLogin(t, u) PROVE upset'
  BY <1>1 DEF SubmitLogin
<1>2. ASSUME NEW t \in Tab, PressLogout(t) \/ SubmitPassword(t) \/ ReloadPage(t)
      PROVE  upset'
  BY <1>2 DEF PressLogout, SubmitPassword, ReloadPage
<1>3. ASSUME NEW t \in Tab, NEW r \in tasks[t], Wake(t, r) \/ WakeLast(t, r)
      PROVE  upset'
  BY <1>3 DEF Wake, WakeLast
<1>4. ASSUME NEW t \in Tab, NEW r \in tasks[t], Receive(t, r) \/ Fail(t, r)
      PROVE  upset'
  BY <1>4 DEF Receive, Fail
<1>5. ASSUME NEW r \in AllTasks, Serve(r) PROVE upset'
  BY <1>5, ServeIs
<1>6. ASSUME NEW r \in strays, Stray(r) PROVE upset'
  BY <1>6 DEF Stray
<1>7. ASSUME NEW u \in User, EndSessions(u) PROVE upset'
  BY <1>7 DEF EndSessions
<1>8. CASE UNCHANGED vars
  BY <1>8 DEF vars
<1> QED
  BY <1>1, <1>2, <1>3, <1>4, <1>5, <1>6, <1>7, <1>8 DEF Next, TaskStep

\* With one tab, every step that is not out of turn leaves what it shows so.
LEMMA NextTurn ==
  TypeOK /\ ReplyInv /\ SpentInv /\ TurnInv /\ [Next]_vars => TurnInv'
<1> SUFFICES ASSUME TypeOK, ReplyInv, SpentInv, TurnInv, [Next]_vars, OneTab,
                    ~upset', NEW t \in Tab
             PROVE  TabInv(t)'
  BY DEF TurnInv, OneTab
<1>1. TabInv(t)
  BY UpsetStays DEF TurnInv
<1>2. \A x \in Tab : x = t
  BY DEF OneTab
<1>3. IF SignedIn(t) THEN cookie = auth[t].token ELSE ~Live(cookie)
  BY <1>1 DEF TabInv
<1>4. auth[t].user \in User /\ auth[t].token \in 0..MaxSession
      /\ tasks[t] \in SUBSET Task
  BY TabTypes
<1>5. UNCHANGED sess => DyingOnly(Free, sess, sess')
  BY DEF DyingOnly
<1>6. ASSUME UNCHANGED <<auth, cookie, sess>>, NEW n,
             \A q \in tasks'[t] : q \in tasks[t] \/ (q = n /\ NewOK(t, n))
      PROVE  TabInv(t)'
  BY <1>1, <1>5, <1>6, TabQuiet
<1>7. ASSUME NEW u \in User, SubmitLogin(t, u) PROVE TabInv(t)'
  <2>1. PICK n : n = Waiting("login", u)
    OBVIOUS
  <2>2. Fresh(n) /\ n.kind = "login"
    BY <2>1, WaitingIs DEF Kind
  <2>3. NewOK(t, n)
    BY <1>7, <2>2 DEF NewOK, SubmitLogin
  <2>4. tasks'[t] = tasks[t] \cup {n}
    BY <1>7, <2>1 DEF SubmitLogin, TypeOK
  <2> QED
    BY <1>6, <1>7, <2>3, <2>4 DEF SubmitLogin
<1>8. CASE PressLogout(t)
  <2>1. PICK n : n = Waiting("logout", auth[t].user)
    OBVIOUS
  <2>2. Fresh(n) /\ n.kind = "logout"
    BY <1>4, <2>1, WaitingIs DEF Kind
  <2>3. NewOK(t, n)
    BY <2>2 DEF NewOK
  <2>4. tasks'[t] = tasks[t] \cup {n}
    BY <1>8, <2>1 DEF PressLogout, TypeOK
  <2> QED
    BY <1>6, <1>8, <2>3, <2>4 DEF PressLogout
<1>9. CASE SubmitPassword(t)
  <2>1. PICK w \in Task : w = Waiting("password", auth[t].user) /\ Fresh(w)
                          /\ w.kind = "password"
    BY <1>4, WaitingIs DEF Kind
  <2>2. PICK n : n = [w EXCEPT !.carries = auth[t].token]
    OBVIOUS
  <2>3. Fresh(n) /\ n.kind = "password" /\ n.carries = auth[t].token
    BY <2>1, <2>2 DEF Fresh, Task
  <2>4. NewOK(t, n)
    BY <1>3, <1>9, <2>3 DEF NewOK, SubmitPassword
  <2>5. tasks'[t] = tasks[t] \cup {n}
    BY <1>9, <2>1, <2>2 DEF SubmitPassword, TypeOK
  <2> QED
    BY <1>6, <1>9, <2>4, <2>5 DEF SubmitPassword
<1>10. CASE ReloadPage(t)
  <2>1. PICK n : n = Sleeping(auth[t].user)
    OBVIOUS
  <2>2. Fresh(n) /\ n.kind = "refresh" /\ n.user = auth[t].user /\ n.stage = "sleep"
    BY <1>4, <2>1, SleepingIs
  <2>3. SignedIn(t) => NewOK(t, n)
    BY <2>2 DEF NewOK
  <2>4. tasks'[t] = IF SignedIn(t) THEN {n} ELSE {}
    BY <1>10, <2>1 DEF ReloadPage, TypeOK
  <2> QED
    BY <1>6, <1>10, <2>3, <2>4 DEF ReloadPage
<1>11. ASSUME NEW r \in tasks[t], Wake(t, r) PROVE TabInv(t)'
  <2>1. r.user \in User /\ r.kind = "refresh" /\ RefreshOK(t, r)
    BY <1>1, <1>4, <1>11, TaskFields, AllTasksIs DEF Wake, ReplyInv, TabInv
  <2>2. PICK n : n = Waiting("refresh", r.user)
    OBVIOUS
  <2>3. Fresh(n) /\ n.kind = "refresh" /\ n.user = r.user /\ n.carries = cookie
    BY <2>1, <2>2, WaitingIs DEF Kind
  <2>4. ~r.stale => NewOK(t, n)
    BY <2>1, <2>3 DEF NewOK, RefreshOK
  <2>5. tasks'[t] = (tasks[t] \ {r}) \cup IF r.stale THEN {} ELSE {n}
    BY <1>11, <2>2 DEF Wake, TypeOK
  <2> QED
    BY <1>6, <1>11, <2>4, <2>5 DEF Wake
<1>12. ASSUME NEW r \in tasks[t], WakeLast(t, r) PROVE TabInv(t)'
  <2>1. tasks'[t] = tasks[t] \ {r}
    BY <1>12 DEF WakeLast, TypeOK
  <2> QED
    BY <1>6, <1>12, <2>1 DEF WakeLast
<1>13. ASSUME NEW r \in tasks[t], Receive(t, r) PROVE TabInv(t)'
  <2>1. ~r.stale
    BY <1>13 DEF Receive
  <2> QED
    BY <1>1, <1>13, <2>1, TabReceived
<1>14. ASSUME NEW r \in tasks[t], Fail(t, r) PROVE TabInv(t)'
  <2>1. UNCHANGED <<sess, cookie>>
    BY <1>14 DEF Fail
  <2>2. CASE /\ r.kind = "refresh" /\ UNCHANGED auth
             /\ \E q \in Task :
                   /\ tasks' = [tasks EXCEPT ![t] = (@ \ {r}) \cup {q}]
                   /\ Fresh(q) /\ q.kind = r.kind /\ q.user = r.user
                   /\ q.stale = r.stale /\ q.stage = "backoff"
    <3>1. PICK n \in Task : /\ tasks' = [tasks EXCEPT ![t] = (tasks[t] \ {r}) \cup {n}]
                            /\ Fresh(n) /\ n.kind = r.kind /\ n.user = r.user
                            /\ n.stale = r.stale /\ n.stage = "backoff"
      BY <2>2
    <3>2. RefreshOK(t, r)
      BY <1>1 DEF TabInv
    <3>3. NewOK(t, n)
      BY <2>2, <3>1, <3>2 DEF NewOK, RefreshOK
    <3>4. tasks'[t] = (tasks[t] \ {r}) \cup {n}
      BY <3>1 DEF TypeOK
    <3> QED
      BY <1>6, <2>1, <2>2, <3>3, <3>4
  <2>3. CASE r.kind \in {"login", "password"} /\ Install(t, auth[t], tasks[t] \ {r})
    <3>1. tasks'[t] = tasks[t] \ {r} /\ UNCHANGED auth
      BY <2>3 DEF Install, TypeOK
    <3> QED
      BY <1>6, <2>1, <3>1
  <2> QED
    BY <1>14, <2>2, <2>3, FailIs
<1>15. ASSUME NEW r \in AllTasks, Serve(r) PROVE TabInv(t)'
  <2>1. UNCHANGED <<cookie, auth>> /\ r.stage = "sent"
    BY <1>15, ServeIs DEF Serve
  <2>2. PICK a \in Task :
           /\ Served(r, a)
           /\ \/ \E x \in Tab : /\ r \in tasks[x] /\ UNCHANGED strays
                                /\ tasks' = [tasks EXCEPT ![x] = (@ \ {r}) \cup {a}]
              \/ UNCHANGED tasks
    BY <1>15, ServeIs
  <2>3. CASE UNCHANGED tasks
    <3>1. DyingOnly(Free, sess, sess')
      BY <2>2 DEF Served
    <3> QED
      BY <1>1, <2>1, <2>3, <3>1, TabQuiet
  <2>4. CASE \E x \in Tab : /\ r \in tasks[x]
                            /\ tasks' = [tasks EXCEPT ![x] = (@ \ {r}) \cup {a}]
    <3>1. r \in tasks[t] /\ tasks' = [tasks EXCEPT ![t] = (tasks[t] \ {r}) \cup {a}]
      BY <1>2, <2>4
    <3>2. tasks'[t] = (tasks[t] \ {r}) \cup {a}
      BY <3>1 DEF TypeOK
    <3> QED
      BY <1>1, <2>1, <2>2, <3>1, <3>2, TabServed
  <2> QED
    BY <2>2, <2>3, <2>4
<1>16. ASSUME NEW r \in strays, Stray(r) PROVE TabInv(t)'
  <2>1. UNCHANGED <<sess, auth, tasks, cookie>>
    BY <1>16 DEF Stray
  <2> QED
    BY <1>6, <2>1
<1>17. ASSUME NEW u \in User, EndSessions(u) PROVE TabInv(t)'
  <2>1. UNCHANGED <<auth, tasks, cookie>> /\ sess' = EndAll(u)
    BY <1>17 DEF EndSessions
  <2>2. DyingOnly(Free, sess, sess')
    BY <2>1, EndAllIs DEF DyingOnly
  <2> QED
    BY <1>1, <2>1, <2>2, TabQuiet
<1>18. CASE UNCHANGED vars
  BY <1>6, <1>18 DEF vars
<1> QED
  BY <1>2, <1>7, <1>8, <1>9, <1>10, <1>11, <1>12, <1>13, <1>14, <1>15, <1>16,
     <1>17, <1>18 DEF Next, TaskStep
-----------------------------------------------------------------------------
(* The theorems *)

\* The invariant holds at the start.
LEMMA InitIInv == Init => IInv
<1> SUFFICES ASSUME Init PROVE IInv
  OBVIOUS
<1>1. TypeOK
  BY InitTypeOK
<1>2. \A t \in Tab : tasks[t] = {} /\ ~SignedIn(t)
  BY SignedOutIs DEF Init, SignedIn
<1>3. AllTasks = {}
  BY <1>2 DEF AllTasks, Init
<1>4. OneRefreshTask
  BY <1>2 DEF OneRefreshTask
<1>5. ReplyInv /\ SpentInv
  BY <1>2, <1>3 DEF ReplyInv, SpentInv
<1>6. ~Live(cookie)
  BY DEF Init, Live
<1>7. TurnInv
  BY <1>2, <1>6 DEF TurnInv, TabInv
<1> QED
  BY <1>1, <1>4, <1>5, <1>7 DEF IInv

\* Every step keeps it.
LEMMA NextIInv == IInv /\ [Next]_vars => IInv'
BY NextTypeOK, NextOne, NextAnswers, NextTurn DEF IInv

\* What the tabs rely on holds throughout.
THEOREM Inductive == Spec => []IInv
<1>1. Init => IInv
  BY InitIInv
<1>2. IInv /\ [Next]_vars => IInv'
  BY NextIInv
<1> QED
  BY <1>1, <1>2, PTL DEF Spec

\* What a tab shows of its session is so: one task keeps the token alive, the
\* user on the screen is the token's, and after sign-out no cookie lives on.
THEOREM SessionIsTruthful == Spec => []SessionTruthful
<1>1. IInv => SessionTruthful
  <2> SUFFICES ASSUME IInv PROVE SessionTruthful
    OBVIOUS
  <2>1. ShowsTokenUser
    BY DEF IInv, TurnInv, TabInv, ShowsTokenUser
  <2>2. SignedOutForGood
    BY DEF IInv, TurnInv, TabInv, SignedOutForGood
  <2> QED
    BY <2>1, <2>2 DEF IInv, SessionTruthful
<1> QED
  BY <1>1, Inductive, PTL

-----------------------------------------------------------------------------
(* The growing list: ClientLists *)

\* The fetches are numbered apart, a fetch was tried as often as it says, and
\* none more than twice.
TriesInv ==
    /\ \A f \in fetches : f.n \in DOMAIN tries /\ tries[f.n] = f.attempt + 1
    /\ \A f, g \in fetches : f.n = g.n => f = g
    /\ \A n \in DOMAIN tries : tries[n] <= 2

\* The presses are numbered apart; the server has carried out one that waits
\* for an answer if it is answered, and none that was given up before.
ToldInv ==
    /\ \A w \in presses :
          /\ w.n \in DOMAIN done /\ toasts[w.n] = "none"
          /\ done[w.n] = IF w.stage = "sent" THEN 0 ELSE 1
    /\ \A w \in unheard :
          /\ w.n \in DOMAIN done /\ toasts[w.n] = "error"
          /\ w.stage = "sent" /\ done[w.n] = 0
    /\ \A v, w \in presses \cup unheard : v.n = w.n => v = w
    /\ \A n \in DOMAIN done : /\ done[n] <= 1
                              /\ toasts[n] = "success" => done[n] = 1

\* The first p pages of s.
UpTo(s, p) ==
    SubSeq(s, 1, IF p * PageSize < Len(s) THEN p * PageSize ELSE Len(s))

\* What the only load of a clean list relies on: one that adds a page finds the
\* pages before it, and the answer is the page of the answer to the first.
LoadOK(f) ==
    /\ page = f.page
    /\ IF f.append
       THEN /\ list = "loaded" /\ f.existing = rows
            /\ rows = SubSeq(snap.rows, 1, (page - 1) * PageSize)
            /\ (page - 1) * PageSize < Len(snap.rows)
       ELSE list = "loading" /\ page = 1 /\ f.existing = <<>>
    /\ f.stage = "answered" =>
          f.reply = [rows |-> Slice(snap.rows, page), total |-> Len(snap.rows)]

LoadInv ==
    clean =>
        /\ page # 0
        /\ \A f, g \in fetches : f = g
        /\ \A f \in fetches : LoadOK(f)
        /\ list = "loaded" /\ fetches = {} =>
              rows = UpTo(snap.rows, page) /\ total = Len(snap.rows)

\* The rows of a clean list are the server's unless a load from the start is
\* under way or failed, or a press is still to be told or was told as failed.
FreshInv ==
    clean =>
        \/ snap.rows = Matching(db, snap.filter)
        \/ list = "failed"
        \/ \E f \in fetches : f.stage = "sent" /\ ~f.append
        \/ \E w \in presses : w.stage = "answered"
        \/ \E n \in DOMAIN toasts : toasts[n] = "error"

ListInv ==
    /\ ListTypeOK /\ TriesInv /\ ToldInv
    /\ LoadInv /\ FreshInv /\ TableInRange

\* The least of a set of numbers, which stands for induction: of the numbers
\* for which a claim fails, take the first.
LEMMA Least == \A T \in SUBSET Nat : T # {} => \E n \in T : \A m \in T : n <= m
<1>1. PICK R : /\ IsWellFoundedOn(R, Nat)
               /\ \A m, n \in Nat : <<m, n>> \in R <=> m < n
  <2>1. \A m, n \in Nat : <<m, n>> \in OpToRel(<, Nat) <=> m < n
    BY DEF OpToRel
  <2> QED
    BY <2>1, NatLessThanWellFounded
<1>2. SUFFICES ASSUME NEW T \in SUBSET Nat, T # {}
               PROVE  \E n \in T : \A m \in T : n <= m
  OBVIOUS
<1>3. T \subseteq Nat /\ IsWellFoundedOn(R, Nat)
  BY <1>1
<1>4. \E n \in T : \A m \in T : ~(<<m, n>> \in R)
  BY <1>2, <1>3, WFMin
<1>5. \A m, n \in Nat : n <= m \/ m < n
  OBVIOUS
<1> QED
  BY <1>1, <1>3, <1>4, <1>5

\* What a filter has let through of the first i rows of s.
Found(s, f, n, g) ==
    g = [i \in 0..n |->
            IF i = 0 THEN <<>>
            ELSE IF s[i] \in f THEN Append(g[i - 1], s[i]) ELSE g[i - 1]]

\* There is such a function, since every row is reached from the one before.
LEMMA FoundExists ==
  ASSUME NEW s, NEW f, NEW n \in Nat
  PROVE  \E g : Found(s, f, n, g)
<1> DEFINE T == {i \in Nat : ~\E g : Found(s, f, i, g)}
<1>1. SUFFICES ASSUME T # {} PROVE FALSE
  OBVIOUS
<1>2. PICK k \in T : \A m \in T : k <= m
  BY <1>1, Least
<1>3. CASE k = 0
  <2>1. Found(s, f, 0, [i \in 0..0 |-> <<>>])
    BY DEF Found
  <2> QED
    BY <1>3, <2>1
<1>4. CASE k # 0
  <2>1. k - 1 \in Nat /\ k - 1 \notin T /\ k \in Nat
    BY <1>2, <1>4
  <2>2. PICK e : Found(s, f, k - 1, e)
    BY <2>1
  <2> DEFINE At(h, i) == IF s[i] \in f THEN Append(h[i - 1], s[i]) ELSE h[i - 1]
  <2>3. PICK g : g = [i \in 0..k |-> IF i = k THEN At(e, k) ELSE e[i]]
    OBVIOUS
  <2>4. \A i \in 0..(k - 1) : e[i] = IF i = 0 THEN <<>> ELSE At(e, i)
    BY <2>2 DEF Found
  <2>5. \A i \in 0..k : g[i] = IF i = 0 THEN <<>> ELSE At(g, i)
    <3>1. \A i \in 0..(k - 1) : i \in 0..k /\ i # k /\ g[i] = e[i]
      BY <2>1, <2>3
    <3>2. k \in 0..k /\ k - 1 \in 0..(k - 1) /\ g[k] = At(g, k)
      BY <2>1, <2>3, <3>1
    <3>3. \A i \in 0..(k - 1) : i # 0 => i - 1 \in 0..(k - 1)
      BY <2>1
    <3>4. \A i \in 0..(k - 1) : i # 0 => At(g, i) = At(e, i)
      BY <3>1, <3>3
    <3>5. \A i \in 0..k : i = k \/ i \in 0..(k - 1)
      BY <2>1
    <3> HIDE DEF At
    <3> QED
      BY <1>4, <2>4, <3>1, <3>2, <3>4, <3>5
  <2>6. Found(s, f, k, g)
    <3>1. g = [i \in 0..k |-> g[i]]
      BY <2>3
    <3> QED
      BY <2>5, <3>1 DEF Found
  <2> QED
    BY <1>2, <2>6
<1> QED
  BY <1>3, <1>4

\* What a filter lets through of a list is a list of the same rows.
LEMMA MatchingType ==
  ASSUME NEW s \in Seq(Row), NEW f
  PROVE  Matching(s, f) \in Seq(Row)
<1>1. Len(s) \in Nat /\ \A i \in 1..Len(s) : s[i] \in Row
  OBVIOUS
<1>2. PICK g : Found(s, f, Len(s), g) /\ Matching(s, f) = g[Len(s)]
  <2>1. \E g : g = [i \in 0..Len(s) |->
                      IF i = 0 THEN <<>>
                      ELSE IF s[i] \in f THEN Append(g[i - 1], s[i]) ELSE g[i - 1]]
    <3>1. \E g : Found(s, f, Len(s), g)
      BY <1>1, FoundExists
    <3> QED
      BY <3>1, Zenon DEF Found
  <2> DEFINE c == CHOOSE g : g = [i \in 0..Len(s) |->
                      IF i = 0 THEN <<>>
                      ELSE IF s[i] \in f THEN Append(g[i - 1], s[i]) ELSE g[i - 1]]
  <2>2. c = [i \in 0..Len(s) |->
                IF i = 0 THEN <<>>
                ELSE IF s[i] \in f THEN Append(c[i - 1], s[i]) ELSE c[i - 1]]
    BY <2>1, Zenon
  <2>3. Matching(s, f) = c[Len(s)]
    BY DEF Matching
  <2> HIDE DEF c
  <2> QED
    BY <2>2, <2>3, Zenon DEF Found
<1>3. \A i \in 0..Len(s) : g[i] =
         IF i = 0 THEN <<>>
         ELSE IF s[i] \in f THEN Append(g[i - 1], s[i]) ELSE g[i - 1]
  BY <1>2 DEF Found
<1> DEFINE T == {i \in 0..Len(s) : g[i] \notin Seq(Row)}
<1>4. SUFFICES ASSUME T # {} PROVE FALSE
  BY <1>1, <1>2
<1>5. PICK k \in T : \A m \in T : k <= m
  <2>1. T \in SUBSET Nat
    BY <1>1
  <2> QED
    BY <1>4, <2>1, Least
<1>6. k \in 0..Len(s) /\ k # 0
  <2>1. g[0] = <<>>
    BY <1>1, <1>3
  <2>2. <<>> \in Seq(Row)
    OBVIOUS
  <2>3. 0 \notin T
    BY <2>1, <2>2
  <2> QED
    BY <1>5, <2>3
<1>7. k - 1 \in 0..Len(s) /\ k - 1 \notin T /\ s[k] \in Row
  BY <1>1, <1>5, <1>6
<1>8. g[k - 1] \in Seq(Row)
  BY <1>7
<1>9. g[k] \in Seq(Row)
  <2>1. g[k] = IF s[k] \in f THEN Append(g[k - 1], s[k]) ELSE g[k - 1]
    BY <1>3, <1>6
  <2>2. Append(g[k - 1], s[k]) \in Seq(Row)
    BY <1>7, <1>8
  <2> QED
    BY <1>8, <2>1, <2>2
<1> QED
  BY <1>5, <1>9

\* A page of the rows is a list of them, and follows the pages before it.
LEMMA PageIs ==
  ASSUME ListAssumption, NEW s \in Seq(Row), NEW p \in Nat \ {0}
  PROVE  /\ Slice(s, p) \in Seq(Row)
         /\ (p - 1) * PageSize <= Len(s) =>
               SubSeq(s, 1, (p - 1) * PageSize) \o Slice(s, p) = UpTo(s, p)
<1>1. PageSize \in Nat \ {0} /\ Len(s) \in Nat
  BY DEF ListAssumption
<1>2. PICK k \in Nat : k = (p - 1) * PageSize
  BY <1>1
<1>3. p * PageSize = k + PageSize
  BY <1>1, <1>2
<1>4. PICK e \in Nat : e = IF p * PageSize < Len(s) THEN p * PageSize ELSE Len(s)
  BY <1>1, <1>3
<1>5. Slice(s, p) = SubSeq(s, k + 1, e) /\ UpTo(s, p) = SubSeq(s, 1, e)
  BY <1>2, <1>4 DEF Slice, UpTo
<1>6. e <= Len(s) /\ (k <= Len(s) => k <= e)
  BY <1>1, <1>3, <1>4
<1>7. \A i \in k + 1 .. e : s[i] \in Row
  BY <1>1, <1>6
<1>8. k + 1 \in Int /\ e \in Int
  OBVIOUS
<1>9. SubSeq(s, k + 1, e) \in Seq(Row)
  BY <1>7, <1>8, SubSeqProperties
<1>10. ASSUME k <= Len(s)
       PROVE  SubSeq(s, 1, k) \o SubSeq(s, k + 1, e) = SubSeq(s, 1, e)
  <2>1. 1 \in 1..Len(s) + 1 /\ k \in 1 - 1 .. Len(s) /\ e \in k .. Len(s)
    BY <1>1, <1>6, <1>10
  <2> QED
    BY <2>1, ConcatAdjacentSubSeq
<1> QED
  BY <1>2, <1>5, <1>9, <1>10

\* The first pages are fewer than all rows only if they are full ones.
LEMMA UpToIs ==
  ASSUME ListAssumption, NEW s \in Seq(Row), NEW p \in Nat
  PROVE  /\ UpTo(s, p) \in Seq(Row)
         /\ Len(UpTo(s, p)) < Len(s) =>
               /\ p * PageSize < Len(s)
               /\ UpTo(s, p) = SubSeq(s, 1, p * PageSize)
<1>1. PageSize \in Nat \ {0} /\ Len(s) \in Nat
  BY DEF ListAssumption
<1>2. PICK k \in Nat : k = p * PageSize
  BY <1>1
<1>3. PICK e \in Nat : e = IF k < Len(s) THEN k ELSE Len(s)
  BY <1>1
<1>4. UpTo(s, p) = SubSeq(s, 1, e)
  BY <1>2, <1>3 DEF UpTo
<1>5. \A i \in 1..e : s[i] \in Row
  BY <1>1, <1>3
<1>6. SubSeq(s, 1, e) \in Seq(Row) /\ Len(SubSeq(s, 1, e)) = e
  <2>1. 1 \in Int /\ e \in Int /\ e = IF 1 <= e THEN e - 1 + 1 ELSE 0
    OBVIOUS
  <2> QED
    BY <1>5, <2>1, SubSeqProperties
<1> QED
  BY <1>1, <1>2, <1>3, <1>4, <1>6

\* The rows of a toggled list are rows.
LEMMA ToggledType ==
  ASSUME ListTypeOK, NEW r \in Row
  PROVE  Toggled(r) \in Seq(Row)
<1>1. db \in Seq(Row)
  BY DEF ListTypeOK
<1>2. Matching(db, Row \ {r}) \in Seq(Row)
  BY <1>1, MatchingType
<1>3. <<r>> \in Seq(Row)
  OBVIOUS
<1>4. <<r>> \o db \in Seq(Row)
  BY <1>1, <1>3, ConcatProperties
<1> QED
  BY <1>2, <1>4 DEF Toggled

\* What starting a fetch does to the types.
LEMMA StartType ==
  ASSUME ListAssumption, ListTypeOK,
         NEW p \in Nat \ {0}, NEW a \in BOOLEAN, NEW f \in Filters,
         StartFetch(p, a, f)
  PROVE  /\ page' \in Nat \ {0} /\ more' \in BOOLEAN /\ clean' \in BOOLEAN
         /\ list' \in {"loading", "loaded", "failed"} /\ rows' \in Seq(Row)
         /\ tries' \in Seq(Nat) /\ fetches' \subseteq Fetch
<1>1. /\ page' = p /\ tries' = Append(tries, 1)
      /\ IF a THEN more' = TRUE /\ list' = list /\ rows' = rows
         ELSE list' = "loading" /\ rows' = <<>> /\ more' = more
  BY DEF StartFetch
<1>2. rows' \in Seq(Row)
  <2>1. <<>> \in Seq(Row)
    OBVIOUS
  <2> QED
    BY <1>1, <2>1 DEF ListTypeOK
<1>3. tries' \in Seq(Nat)
  BY <1>1, AppendProperties DEF ListTypeOK
<1>4. clean' \in BOOLEAN
  BY DEF StartFetch
<1>5. PICK e : e = IF a THEN rows ELSE <<>>
  OBVIOUS
<1>6. e \in Seq(Row)
  BY <1>5 DEF ListTypeOK
<1>7. NoReply \in [rows : Seq(Row), total : Nat]
  BY DEF NoReply
<1>8. Len(tries) + 1 \in Nat
  BY DEF ListTypeOK
<1>9. [n |-> Len(tries) + 1, page |-> p, append |-> a, existing |-> e,
       filter |-> f, attempt |-> 0, stage |-> "sent", reply |-> NoReply] \in Fetch
  BY <1>6, <1>7, <1>8 DEF Fetch
<1>10. fetches' = fetches \cup
         {[n |-> Len(tries) + 1, page |-> p, append |-> a, existing |-> e,
           filter |-> f, attempt |-> 0, stage |-> "sent", reply |-> NoReply]}
  BY <1>5 DEF StartFetch
<1>11. fetches' \subseteq Fetch
  BY <1>9, <1>10 DEF ListTypeOK
<1> QED
  BY <1>1, <1>2, <1>3, <1>4, <1>11 DEF ListTypeOK

\* What a fetch becomes when it is answered and when it is tried again.
LEMMA FetchTypes ==
  ASSUME ListAssumption, ListTypeOK, NEW f \in fetches
  PROVE  /\ Matching(db, f.filter) \in Seq(Row)
         /\ f.n \in Nat /\ f.page \in Nat \ {0} /\ f.append \in BOOLEAN
         /\ f.existing \in Seq(Row) /\ f.filter \in Filters /\ f.attempt \in 0..1
         /\ f.stage \in {"sent", "answered"}
         /\ f.reply.rows \in Seq(Row) /\ f.reply.total \in Nat
         /\ \A s \in Seq(Row) :
               [f EXCEPT !.stage = "answered",
                         !.reply = [rows |-> Slice(s, f.page),
                                    total |-> Len(s)]] \in Fetch
         /\ [f EXCEPT !.attempt = 1, !.stage = "sent",
                      !.reply = NoReply] \in Fetch
<1>1. f \in Fetch /\ db \in Seq(Row)
  BY DEF ListTypeOK
<1>2. f.page \in Nat \ {0}
  BY <1>1 DEF Fetch
<1>3. \A s \in Seq(Row) : Slice(s, f.page) \in Seq(Row) /\ Len(s) \in Nat
  BY <1>2, PageIs
<1>4. \A s \in Seq(Row) :
         [f EXCEPT !.stage = "answered",
                   !.reply = [rows |-> Slice(s, f.page),
                              total |-> Len(s)]] \in Fetch
  BY <1>1, <1>3 DEF Fetch
<1>5. [f EXCEPT !.attempt = 1, !.stage = "sent", !.reply = NoReply] \in Fetch
  <2>1. <<>> \in Seq(Row)
    OBVIOUS
  <2>2. NoReply \in [rows : Seq(Row), total : Nat]
    BY <2>1 DEF NoReply
  <2>3. PICK r \in [rows : Seq(Row), total : Nat] : r = NoReply
    BY <2>2
  <2>4. 1 \in 0..1 /\ "sent" \in {"sent", "answered"}
    OBVIOUS
  <2>5. [f EXCEPT !.attempt = 1, !.stage = "sent", !.reply = r] \in Fetch
    BY <1>1, <2>4 DEF Fetch
  <2> QED
    BY <2>3, <2>5
<1>6. Matching(db, f.filter) \in Seq(Row)
  BY <1>1, MatchingType
<1> QED
  BY <1>1, <1>2, <1>4, <1>5, <1>6 DEF Fetch

\* What is known of a press that waits or was given up.
LEMMA PressTypes ==
  ASSUME ListTypeOK, NEW w \in presses \cup unheard
  PROVE  /\ w \in Press /\ w.n \in Nat /\ w.row \in Row /\ w.filter \in Filters
         /\ w.stage \in {"sent", "answered"}
         /\ [w EXCEPT !.stage = "answered"] \in Press
BY DEF ListTypeOK, Press

\* Every step keeps the types.
LEMMA ListTypeNext ==
  ASSUME ListAssumption, ListTypeOK, TriesInv, ToldInv, [ListNext]_listVars
  PROVE  ListTypeOK'
<1>1. ASSUME Reload PROVE ListTypeOK'
  <2>1. StartFetch(1, FALSE, form)
    BY <1>1, Zenon DEF Reload
  <2>2. 1 \in Nat \ {0} /\ form \in Filters /\ FALSE \in BOOLEAN
    BY DEF ListTypeOK
  <2>3. /\ page' \in Nat \ {0} /\ more' \in BOOLEAN /\ clean' \in BOOLEAN
        /\ list' \in {"loading", "loaded", "failed"} /\ rows' \in Seq(Row)
        /\ tries' \in Seq(Nat) /\ fetches' \subseteq Fetch
    BY <2>1, <2>2, StartType, Zenon
  <2> QED
    BY <1>1, <2>3 DEF Reload, ListTypeOK
<1>2. ASSUME Clear PROVE ListTypeOK'
  <2>1. StartFetch(1, FALSE, form)
    BY <1>2, Zenon DEF Clear
  <2>2. 1 \in Nat \ {0} /\ form \in Filters /\ Row \in Filters /\ FALSE \in BOOLEAN
    BY DEF ListTypeOK, ListAssumption
  <2>3. /\ page' \in Nat \ {0} /\ more' \in BOOLEAN /\ clean' \in BOOLEAN
        /\ list' \in {"loading", "loaded", "failed"} /\ rows' \in Seq(Row)
        /\ tries' \in Seq(Nat) /\ fetches' \subseteq Fetch
    BY <2>1, <2>2, StartType, Zenon
  <2> QED
    BY <1>2, <2>2, <2>3 DEF Clear, ListTypeOK
<1>3. ASSUME LoadMore PROVE ListTypeOK'
  <2>1. StartFetch(page + 1, TRUE, form)
    BY <1>3, Zenon DEF LoadMore
  <2>2. page + 1 \in Nat \ {0} /\ form \in Filters /\ TRUE \in BOOLEAN
    BY DEF ListTypeOK
  <2>3. /\ page' \in Nat \ {0} /\ more' \in BOOLEAN /\ clean' \in BOOLEAN
        /\ list' \in {"loading", "loaded", "failed"} /\ rows' \in Seq(Row)
        /\ tries' \in Seq(Nat) /\ fetches' \subseteq Fetch
    BY <2>1, <2>2, StartType, Zenon
  <2> QED
    BY <1>3, <2>3 DEF LoadMore, ListTypeOK
<1>4. ASSUME TurnPage PROVE ListTypeOK'
  <2>1. tpage' \in Nat
    BY <1>4 DEF TurnPage, ListTypeOK
  <2> QED
    BY <1>4, <2>1 DEF TurnPage, ListTypeOK
<1>5. ASSUME NEW f \in Filters, Type(f) PROVE ListTypeOK'
  BY <1>5 DEF Type, ListTypeOK
<1>6. ASSUME NEW r \in Row, PressButton(r) PROVE ListTypeOK'
  <2>1. done' = Append(done, 0) /\ toasts' = Append(toasts, "none")
    BY <1>6 DEF PressButton
  <2>2. done' \in Seq(Nat) /\ Len(done') = Len(done) + 1
    BY <2>1, AppendProperties DEF ListTypeOK
  <2>3. "none" \in {"none", "success", "error"}
    OBVIOUS
  <2>4. toasts' \in Seq({"none", "success", "error"})
        /\ Len(toasts') = Len(toasts) + 1
    BY <2>1, <2>3, AppendProperties DEF ListTypeOK
  <2>5. [n |-> Len(done) + 1, row |-> r, filter |-> form, stage |-> "sent"] \in Press
    BY DEF ListTypeOK, Press
  <2> QED
    BY <1>6, <2>2, <2>4, <2>5 DEF PressButton, bodyVars, ListTypeOK
<1>7. ASSUME NEW f \in fetches, AnswerFetch(f) PROVE ListTypeOK'
  <2>1. PICK s \in Seq(Row) : s = Matching(db, f.filter)
    BY FetchTypes
  <2>2. /\ fetches' = (fetches \ {f}) \cup
              {[f EXCEPT !.stage = "answered",
                         !.reply = [rows |-> Slice(s, f.page),
                                    total |-> Len(s)]]}
        /\ IF f.append THEN clean' = (clean /\ s = snap.rows) /\ snap' = snap
           ELSE snap' = [rows |-> s, filter |-> f.filter] /\ clean' = clean
    BY <1>7, <2>1 DEF AnswerFetch
  <2>3. fetches' \subseteq Fetch
    <3>1. [f EXCEPT !.stage = "answered",
                    !.reply = [rows |-> Slice(s, f.page),
                               total |-> Len(s)]] \in Fetch
      BY FetchTypes
    <3> QED
      BY <2>2, <3>1 DEF ListTypeOK
  <2>4. snap' \in [rows : Seq(Row), filter : Filters]
    <3>1. f.filter \in Filters
      BY FetchTypes
    <3> QED
      BY <2>2, <3>1 DEF ListTypeOK
  <2>5. clean' \in BOOLEAN
    BY <2>2 DEF ListTypeOK
  <2> QED
    BY <1>7, <2>3, <2>4, <2>5 DEF AnswerFetch, bodyVars, ListTypeOK
<1>8. ASSUME NEW f \in fetches, ReceiveFetch(f) PROVE ListTypeOK'
  <2>1. f.existing \o f.reply.rows \in Seq(Row) /\ f.reply.total \in Nat
    BY FetchTypes, ConcatProperties
  <2>2. /\ list' = "loaded" /\ rows' = f.existing \o f.reply.rows
        /\ total' = f.reply.total /\ more' = FALSE
        /\ tpage' = IF list = "loaded" THEN tpage ELSE 0
    BY <1>8 DEF ReceiveFetch, Show
  <2>3. tpage' \in Nat
    BY <2>2 DEF ListTypeOK
  <2>4. fetches' \subseteq fetches
    BY <1>8 DEF ReceiveFetch
  <2> QED
    BY <1>8, <2>1, <2>2, <2>3, <2>4 DEF ReceiveFetch, ListTypeOK
<1>9. ASSUME NEW f \in fetches, RetryFetch(f) PROVE ListTypeOK'
  <2>1. tries \in Seq(Nat) /\ f.n \in 1..Len(tries) /\ tries[f.n] + 1 \in Nat
    BY DEF ListTypeOK, TriesInv
  <2>2. tries' \in Seq(Nat)
    BY <1>9, <2>1, ExceptSeq DEF RetryFetch
  <2>3. fetches' \subseteq Fetch
    BY <1>9, FetchTypes DEF RetryFetch, ListTypeOK
  <2>4. listFaults' \in 0..MaxListFaults
    BY <1>9 DEF RetryFetch, ListTypeOK, ListAssumption
  <2> QED
    BY <1>9, <2>2, <2>3, <2>4 DEF RetryFetch, bodyVars, ListTypeOK
<1>10. ASSUME NEW f \in fetches, FailFetch(f) PROVE ListTypeOK'
  <2>1. fetches' \subseteq Fetch /\ more' \in BOOLEAN
    BY <1>10 DEF FailFetch, ListTypeOK
  <2>2. listFaults' \in 0..MaxListFaults
    BY <1>10 DEF FailFetch, ListTypeOK, ListAssumption
  <2>3. /\ clean' \in BOOLEAN /\ rows' \in Seq(Row)
        /\ list' \in {"loading", "loaded", "failed"}
    <3>1. <<>> \in Seq(Row)
      OBVIOUS
    <3> QED
      BY <1>10, <3>1 DEF FailFetch, ListTypeOK
  <2> QED
    BY <1>10, <2>1, <2>2, <2>3 DEF FailFetch, ListTypeOK
<1>11. ASSUME NEW w \in presses \cup unheard, CarryOut(w) PROVE ListTypeOK'
  <2>1. db' \in Seq(Row)
    BY <1>11, PressTypes, ToggledType DEF CarryOut
  <2>2. presses' \subseteq Press /\ unheard' \subseteq Press
    BY <1>11, PressTypes DEF CarryOut, ListTypeOK
  <2>3. done \in Seq(Nat) /\ w.n \in 1..Len(done) /\ done[w.n] + 1 \in Nat
    BY DEF ListTypeOK, ToldInv
  <2>4. done' \in Seq(Nat) /\ Len(done') = Len(done)
    BY <1>11, <2>3, ExceptSeq DEF CarryOut
  <2> QED
    BY <1>11, <2>1, <2>2, <2>4 DEF CarryOut, bodyVars, ListTypeOK
<1>12. ASSUME NEW w \in presses, ReceivePress(w) PROVE ListTypeOK'
  <2>1. StartFetch(1, FALSE, w.filter)
    BY <1>12, Zenon DEF ReceivePress
  <2>2. 1 \in Nat \ {0} /\ w.filter \in Filters /\ FALSE \in BOOLEAN
    <3>1. w \in presses \cup unheard
      BY <1>12
    <3>2. w.filter \in Filters
      BY <3>1, PressTypes
    <3> QED
      BY <3>2
  <2>3. toasts \in Seq({"none", "success", "error"}) /\ w.n \in 1..Len(toasts)
        /\ "success" \in {"none", "success", "error"}
    BY DEF ListTypeOK, ToldInv
  <2>4. /\ toasts' \in Seq({"none", "success", "error"})
        /\ Len(toasts') = Len(toasts)
    BY <1>12, <2>3, ExceptSeq DEF ReceivePress
  <2>5. /\ page' \in Nat \ {0} /\ more' \in BOOLEAN /\ clean' \in BOOLEAN
        /\ list' \in {"loading", "loaded", "failed"} /\ rows' \in Seq(Row)
        /\ tries' \in Seq(Nat) /\ fetches' \subseteq Fetch
    BY <2>1, <2>2, StartType, Zenon
  <2> QED
    BY <1>12, <2>4, <2>5 DEF ReceivePress, ListTypeOK
<1>13. ASSUME NEW w \in presses, LosePress(w) PROVE ListTypeOK'
  <2>1. presses' \subseteq Press /\ unheard' \subseteq Press
    BY <1>13 DEF LosePress, ListTypeOK
  <2>2. toasts \in Seq({"none", "success", "error"}) /\ w.n \in 1..Len(toasts)
        /\ "error" \in {"none", "success", "error"}
    BY DEF ListTypeOK, ToldInv
  <2>3. /\ toasts' \in Seq({"none", "success", "error"})
        /\ Len(toasts') = Len(toasts)
    BY <1>13, <2>2, ExceptSeq DEF LosePress
  <2>4. listFaults' \in 0..MaxListFaults
    BY <1>13 DEF LosePress, ListTypeOK, ListAssumption
  <2> QED
    BY <1>13, <2>1, <2>3, <2>4 DEF LosePress, bodyVars, ListTypeOK
<1>14. CASE UNCHANGED listVars
  BY <1>14 DEF listVars, ListTypeOK
<1> QED
  BY <1>1, <1>2, <1>3, <1>4, <1>5, <1>6, <1>7, <1>8, <1>9, <1>10, <1>11, <1>12,
     <1>13, <1>14 DEF ListNext, StepFetch

\* A fetch that changes keeps its number, and counts its tries.
LEMMA TriesSwapped ==
  ASSUME TriesInv, NEW f \in fetches, NEW g, g.n = f.n,
         fetches' = (fetches \ {f}) \cup {g},
         DOMAIN tries' = DOMAIN tries,
         tries'[f.n] = g.attempt + 1, tries'[f.n] <= 2,
         \A n \in DOMAIN tries : n # f.n => tries'[n] = tries[n]
  PROVE  TriesInv'
<1>1. ASSUME NEW q \in fetches'
      PROVE  q.n \in DOMAIN tries' /\ tries'[q.n] = q.attempt + 1
  <2>1. CASE q = g
    BY <2>1 DEF TriesInv
  <2>2. CASE q # g
    <3>1. q \in fetches /\ q # f
      BY <1>1, <2>2
    <3>2. q.n # f.n
      BY <3>1 DEF TriesInv
    <3> QED
      BY <3>1, <3>2 DEF TriesInv
  <2> QED
    BY <2>1, <2>2
<1>2. ASSUME NEW q \in fetches', NEW r \in fetches', q.n = r.n PROVE q = r
  BY <1>2 DEF TriesInv
<1>3. \A n \in DOMAIN tries' : tries'[n] <= 2
  BY DEF TriesInv
<1> QED
  BY <1>1, <1>2, <1>3 DEF TriesInv

\* A new fetch has a new number.
LEMMA TriesStarted ==
  ASSUME ListTypeOK, TriesInv, NEW p, NEW a \in BOOLEAN, NEW f,
         StartFetch(p, a, f)
  PROVE  TriesInv'
<1> DEFINE n == Len(tries) + 1
<1>1. tries \in Seq(Nat) /\ Len(tries) \in Nat /\ DOMAIN tries = 1..Len(tries)
  BY DEF ListTypeOK
<1>2. tries' = Append(tries, 1)
  BY DEF StartFetch
<1>3. /\ DOMAIN tries' = 1..n /\ tries'[n] = 1
      /\ \A i \in 1..Len(tries) : tries'[i] = tries[i] /\ i \in 1..n /\ i # n
  BY <1>1, <1>2, AppendProperties
<1>4. PICK g : g.n = n /\ g.attempt = 0 /\ fetches' = fetches \cup {g}
  BY DEF StartFetch
<1>5. n \in 1..n /\ \A i \in 1..n : i = n \/ i \in 1..Len(tries)
  BY <1>1
<1> HIDE DEF n
<1>6. ASSUME NEW q \in fetches'
      PROVE  q.n \in DOMAIN tries' /\ tries'[q.n] = q.attempt + 1
  <2>1. CASE q = g
    BY <1>3, <1>4, <1>5, <2>1
  <2>2. CASE q \in fetches
    BY <1>1, <1>3, <2>2 DEF TriesInv
  <2> QED
    BY <1>4, <2>1, <2>2
<1>7. ASSUME NEW q \in fetches', NEW r \in fetches', q.n = r.n PROVE q = r
  <2>1. \A s \in fetches : s.n # n
    BY <1>1, <1>3 DEF TriesInv
  <2> QED
    BY <1>4, <1>7, <2>1 DEF TriesInv
<1>8. \A i \in DOMAIN tries' : tries'[i] <= 2
  <2>1. \A i \in 1..Len(tries) : tries[i] <= 2
    BY <1>1 DEF TriesInv
  <2> QED
    BY <1>3, <1>5, <2>1
<1> QED
  BY <1>6, <1>7, <1>8 DEF TriesInv

\* Every step keeps the numbers of the fetches and the counts of their tries.
LEMMA TriesNext ==
  ASSUME ListAssumption, ListTypeOK, TriesInv, [ListNext]_listVars
  PROVE  TriesInv'
<1>1. ASSUME NEW p, NEW a \in BOOLEAN, NEW f, StartFetch(p, a, f)
      PROVE  TriesInv'
  BY <1>1, TriesStarted, Zenon
<1>2. ASSUME fetches' \subseteq fetches, tries' = tries PROVE TriesInv'
  BY <1>2 DEF TriesInv
<1>3. TRUE \in BOOLEAN /\ FALSE \in BOOLEAN
  OBVIOUS
<1>4. ASSUME NEW f \in fetches, AnswerFetch(f) PROVE TriesInv'
  <2>1. PICK s : s = Matching(db, f.filter)
    OBVIOUS
  <2>2. PICK g : g = [f EXCEPT !.stage = "answered",
                         !.reply = [rows |-> Slice(s, f.page),
                                    total |-> Len(s)]]
    OBVIOUS
  <2>3. fetches' = (fetches \ {f}) \cup {g} /\ tries' = tries
    BY <1>4, <2>1, <2>2 DEF AnswerFetch
  <2>4. g.n = f.n /\ g.attempt = f.attempt
    BY <2>2 DEF ListTypeOK, Fetch
  <2>5. /\ tries'[f.n] = g.attempt + 1 /\ tries'[f.n] <= 2
        /\ \A n \in DOMAIN tries : n # f.n => tries'[n] = tries[n]
    BY <2>3, <2>4 DEF TriesInv
  <2> QED
    BY <2>3, <2>4, <2>5, TriesSwapped
<1>5. ASSUME NEW f \in fetches, RetryFetch(f) PROVE TriesInv'
  <2>1. PICK g : g = [f EXCEPT !.attempt = 1, !.stage = "sent",
                               !.reply = NoReply]
    OBVIOUS
  <2>2. /\ fetches' = (fetches \ {f}) \cup {g} /\ f.attempt = 0
        /\ tries' = [tries EXCEPT ![f.n] = @ + 1]
    BY <1>5, <2>1 DEF RetryFetch
  <2>3. g.n = f.n /\ g.attempt = 1
    BY <2>1 DEF ListTypeOK, Fetch
  <2>4. f.n \in DOMAIN tries /\ tries[f.n] = 1
    BY <2>2 DEF TriesInv
  <2>5. /\ DOMAIN tries' = DOMAIN tries
        /\ tries'[f.n] = g.attempt + 1 /\ tries'[f.n] <= 2
        /\ \A n \in DOMAIN tries : n # f.n => tries'[n] = tries[n]
    BY <2>2, <2>3, <2>4
  <2> QED
    BY <2>2, <2>3, <2>5, TriesSwapped
<1>6. CASE Reload
  BY <1>1, <1>3, <1>6, Zenon DEF Reload
<1>7. CASE Clear
  BY <1>1, <1>3, <1>7, Zenon DEF Clear
<1>8. CASE LoadMore
  BY <1>1, <1>3, <1>8, Zenon DEF LoadMore
<1>9. CASE TurnPage
  BY <1>2, <1>9 DEF TurnPage
<1>10. ASSUME NEW f \in Filters, Type(f) PROVE TriesInv'
  BY <1>2, <1>10 DEF Type
<1>11. ASSUME NEW r \in Row, PressButton(r) PROVE TriesInv'
  BY <1>2, <1>11 DEF PressButton
<1>12. ASSUME NEW f \in fetches, ReceiveFetch(f) PROVE TriesInv'
  BY <1>2, <1>12 DEF ReceiveFetch
<1>13. ASSUME NEW f \in fetches, FailFetch(f) PROVE TriesInv'
  BY <1>2, <1>13 DEF FailFetch
<1>14. ASSUME NEW w, CarryOut(w) PROVE TriesInv'
  BY <1>2, <1>14 DEF CarryOut
<1>15. ASSUME NEW w \in presses, ReceivePress(w) PROVE TriesInv'
  BY <1>1, <1>3, <1>15, Zenon DEF ReceivePress
<1>16. ASSUME NEW w \in presses, LosePress(w) PROVE TriesInv'
  BY <1>2, <1>16 DEF LosePress
<1>17. CASE UNCHANGED listVars
  BY <1>2, <1>17 DEF listVars
<1> QED
  BY <1>4, <1>5, <1>6, <1>7, <1>8, <1>9, <1>10, <1>11, <1>12, <1>13, <1>14, <1>15,
     <1>16, <1>17 DEF ListNext, StepFetch

\* What the client knows of a press that waits, and of one that was given up.
WaitsOK(w, ts, ds) ==
    /\ w.n \in DOMAIN ds /\ ts[w.n] = "none"
    /\ ds[w.n] = IF w.stage = "sent" THEN 0 ELSE 1

GivenUpOK(w, ts, ds) ==
    /\ w.n \in DOMAIN ds /\ ts[w.n] = "error"
    /\ w.stage = "sent" /\ ds[w.n] = 0

\* Every step keeps what the user is told in line with what the server does.
LEMMA ToldNext ==
  ASSUME ListTypeOK, ToldInv, [ListNext]_listVars
  PROVE  ToldInv'
<1>1. /\ done \in Seq(Nat) /\ toasts \in Seq({"none", "success", "error"})
      /\ Len(done) = Len(toasts) /\ Len(done) \in Nat
      /\ DOMAIN done = 1..Len(done) /\ DOMAIN toasts = 1..Len(done)
  BY DEF ListTypeOK
<1>2. ASSUME UNCHANGED <<presses, unheard, toasts, done>> PROVE ToldInv'
  BY <1>2 DEF ToldInv
<1>3. ASSUME NEW r \in Row, PressButton(r) PROVE ToldInv'
  <2> DEFINE n == Len(done) + 1
  <2>1. PICK v : /\ v.n = n /\ v.stage = "sent"
                 /\ presses' = presses \cup {v} /\ unheard' = unheard
    BY <1>3 DEF PressButton
  <2>2. done' = Append(done, 0) /\ toasts' = Append(toasts, "none")
    BY <1>3 DEF PressButton
  <2>3. /\ DOMAIN done' = 1..n /\ done'[n] = 0 /\ toasts'[n] = "none"
        /\ \A i \in 1..Len(done) : /\ done'[i] = done[i] /\ toasts'[i] = toasts[i]
                                   /\ i \in 1..n /\ i # n
    BY <1>1, <2>2, AppendProperties
  <2>4. n \in 1..n /\ \A i \in 1..n : i = n \/ i \in 1..Len(done)
    BY <1>1
  <2> HIDE DEF n
  <2>5. \A w \in presses' : WaitsOK(w, toasts', done')
    BY <1>1, <2>1, <2>3, <2>4 DEF ToldInv, WaitsOK
  <2>6. \A w \in unheard' : GivenUpOK(w, toasts', done')
    BY <1>1, <2>1, <2>3, <2>4 DEF ToldInv, GivenUpOK
  <2>7. \A w \in presses \cup unheard : w.n # n
    BY <1>1, <2>3 DEF ToldInv
  <2>8. \A v1, w \in presses' \cup unheard' : v1.n = w.n => v1 = w
    BY <2>1, <2>7 DEF ToldInv
  <2>9. \A i \in DOMAIN done' : /\ done'[i] <= 1
                                /\ toasts'[i] = "success" => done'[i] = 1
    BY <1>1, <2>3, <2>4 DEF ToldInv
  <2> QED
    BY <2>5, <2>6, <2>8, <2>9 DEF ToldInv, WaitsOK, GivenUpOK
<1>4. ASSUME NEW w \in presses \cup unheard, CarryOut(w) PROVE ToldInv'
  <2>1. PICK v : v = [w EXCEPT !.stage = "answered"]
    OBVIOUS
  <2>2. v.n = w.n /\ v.stage = "answered"
    BY <2>1 DEF ListTypeOK, Press
  <2>3. /\ w.n \in DOMAIN done /\ done[w.n] = 0 /\ w.stage = "sent"
        /\ done' = [done EXCEPT ![w.n] = @ + 1] /\ toasts' = toasts
    BY <1>4 DEF CarryOut, ToldInv
  <2>4. /\ DOMAIN done' = DOMAIN done /\ done'[w.n] = 1
        /\ \A i \in DOMAIN done : i # w.n => done'[i] = done[i]
    BY <2>3
  <2>5. \/ /\ w \in presses /\ unheard' = unheard
           /\ presses' = (presses \ {w}) \cup {v}
        \/ /\ w \in unheard /\ presses' = presses
           /\ unheard' = unheard \ {w}
    BY <1>4, <2>1 DEF CarryOut
  <2>6. \A q \in presses \cup unheard : q.n = w.n => q = w
    BY DEF ToldInv
  <2>7. w \in unheard => w \notin presses
    BY DEF ToldInv
  <2>8. w \in presses => w \notin unheard
    BY DEF ToldInv
  <2>9. \A q \in presses' : WaitsOK(q, toasts', done')
    <3>1. ASSUME NEW q \in presses, q # w PROVE WaitsOK(q, toasts', done')
      BY <2>3, <2>4, <2>6, <3>1 DEF ToldInv, WaitsOK
    <3>2. w \in presses => WaitsOK(v, toasts', done')
      BY <2>2, <2>3, <2>4 DEF ToldInv, WaitsOK
    <3> QED
      BY <2>5, <2>7, <3>1, <3>2
  <2>10. \A q \in unheard' : GivenUpOK(q, toasts', done')
    <3>1. ASSUME NEW q \in unheard, q # w PROVE GivenUpOK(q, toasts', done')
      BY <2>3, <2>4, <2>6, <3>1 DEF ToldInv, GivenUpOK
    <3> QED
      BY <2>5, <2>8, <3>1
  <2>11. \A q, r \in presses' \cup unheard' : q.n = r.n => q = r
    BY <2>2, <2>5, <2>6 DEF ToldInv
  <2>12. \A i \in DOMAIN done' : /\ done'[i] <= 1
                                 /\ toasts'[i] = "success" => done'[i] = 1
    BY <2>3, <2>4 DEF ToldInv
  <2> QED
    BY <2>9, <2>10, <2>11, <2>12 DEF ToldInv, WaitsOK, GivenUpOK
<1>5. ASSUME NEW w \in presses, ReceivePress(w) PROVE ToldInv'
  <2>1. /\ w.stage = "answered" /\ presses' = presses \ {w} /\ unheard' = unheard
        /\ toasts' = [toasts EXCEPT ![w.n] = "success"] /\ done' = done
    BY <1>5, Zenon DEF ReceivePress
  <2>2. w.n \in DOMAIN done /\ done[w.n] = 1
    BY <2>1 DEF ToldInv
  <2>3. /\ toasts'[w.n] = "success"
        /\ \A i \in DOMAIN done : i # w.n => toasts'[i] = toasts[i]
    BY <1>1, <2>1, <2>2
  <2>4. \A q \in presses' \cup unheard' : q.n # w.n
    BY <2>1 DEF ToldInv
  <2>5. \A q \in presses' : WaitsOK(q, toasts', done')
    BY <2>1, <2>3, <2>4 DEF ToldInv, WaitsOK
  <2>6. \A q \in unheard' : GivenUpOK(q, toasts', done')
    BY <2>1, <2>3, <2>4 DEF ToldInv, GivenUpOK
  <2>7. \A i \in DOMAIN done' : /\ done'[i] <= 1
                                /\ toasts'[i] = "success" => done'[i] = 1
    BY <2>1, <2>2, <2>3 DEF ToldInv
  <2> QED
    BY <2>1, <2>5, <2>6, <2>7 DEF ToldInv, WaitsOK, GivenUpOK
<1>6. ASSUME NEW w \in presses, LosePress(w) PROVE ToldInv'
  <2>1. /\ presses' = presses \ {w} /\ done' = done
        /\ unheard' = IF w.stage = "sent" THEN unheard \cup {w} ELSE unheard
        /\ toasts' = [toasts EXCEPT ![w.n] = "error"]
    BY <1>6 DEF LosePress
  <2>2. /\ w.n \in DOMAIN done /\ w.n \in DOMAIN toasts
        /\ w.stage = "sent" => done[w.n] = 0
    BY <1>1 DEF ToldInv
  <2>3. /\ toasts'[w.n] = "error"
        /\ \A i \in DOMAIN done : i # w.n => toasts'[i] = toasts[i]
    BY <1>1, <2>1, <2>2
  <2>4. \A q \in presses \cup unheard : q # w => q.n # w.n
    BY DEF ToldInv
  <2>5. w \notin unheard
    BY DEF ToldInv
  <2>6. \A q \in presses' : WaitsOK(q, toasts', done')
    BY <2>1, <2>3, <2>4 DEF ToldInv, WaitsOK
  <2>7. \A q \in unheard' : GivenUpOK(q, toasts', done')
    <3>1. ASSUME NEW q \in unheard PROVE GivenUpOK(q, toasts', done')
      BY <2>1, <2>3, <2>4, <2>5, <3>1 DEF ToldInv, GivenUpOK
    <3>2. w.stage = "sent" => GivenUpOK(w, toasts', done')
      BY <2>1, <2>2, <2>3 DEF GivenUpOK
    <3> QED
      BY <2>1, <3>1, <3>2
  <2>8. \A q, r \in presses' \cup unheard' : q.n = r.n => q = r
    BY <2>1 DEF ToldInv
  <2>9. \A i \in DOMAIN done' : /\ done'[i] <= 1
                                /\ toasts'[i] = "success" => done'[i] = 1
    BY <2>1, <2>3 DEF ToldInv
  <2> QED
    BY <2>6, <2>7, <2>8, <2>9 DEF ToldInv, WaitsOK, GivenUpOK
<1>7. CASE Reload
  BY <1>2, <1>7, Zenon DEF Reload
<1>8. CASE Clear
  BY <1>2, <1>8, Zenon DEF Clear
<1>9. CASE LoadMore
  BY <1>2, <1>9, Zenon DEF LoadMore
<1>10. CASE TurnPage
  BY <1>2, <1>10 DEF TurnPage
<1>11. ASSUME NEW f \in Filters, Type(f) PROVE ToldInv'
  BY <1>2, <1>11 DEF Type
<1>12. ASSUME NEW f \in fetches, AnswerFetch(f) PROVE ToldInv'
  BY <1>2, <1>12 DEF AnswerFetch
<1>13. ASSUME NEW f \in fetches, StepFetch(f) PROVE ToldInv'
  BY <1>2, <1>13 DEF StepFetch, ReceiveFetch, RetryFetch, FailFetch
<1>14. CASE UNCHANGED listVars
  BY <1>2, <1>14 DEF listVars
<1> QED
  BY <1>3, <1>4, <1>5, <1>6, <1>7, <1>8, <1>9, <1>10, <1>11, <1>12, <1>13,
     <1>14 DEF ListNext

\* A load from the start is the only one of a list that it makes clean.
LEMMA LoadStarted ==
  ASSUME NEW f, StartFetch(1, FALSE, f)
  PROVE  LoadInv'
<1>1. PICK g : /\ g.page = 1 /\ g.append = FALSE /\ g.existing = <<>>
               /\ g.stage = "sent" /\ fetches' = fetches \cup {g}
  BY DEF StartFetch
<1>2. page' = 1 /\ list' = "loading"
  BY DEF StartFetch
<1>3. clean' => fetches' = {g}
  BY <1>1 DEF StartFetch
<1>4. LoadOK(g)'
  BY <1>1, <1>2 DEF LoadOK
<1> QED
  BY <1>2, <1>3, <1>4 DEF LoadInv

\* One that adds a page to a clean list finds the pages before it.
LEMMA LoadAdded ==
  ASSUME ListAssumption, ListTypeOK, LoadInv, LoadMore
  PROVE  LoadInv'
<1>1. /\ StartFetch(page + 1, TRUE, form) /\ list = "loaded"
      /\ Len(rows) < total /\ snap' = snap
  BY Zenon DEF LoadMore
<1>2. PICK g : /\ g.page = page + 1 /\ g.append = TRUE /\ g.existing = rows
               /\ g.stage = "sent" /\ fetches' = fetches \cup {g}
  BY <1>1 DEF StartFetch
<1>3. page' = page + 1 /\ list' = list /\ rows' = rows
  BY <1>1 DEF StartFetch
<1>4. clean' => clean /\ fetches = {}
  BY <1>1 DEF StartFetch
<1>5. SUFFICES ASSUME clean' PROVE LoadInv'
  BY DEF LoadInv
<1>6. /\ rows = UpTo(snap.rows, page) /\ Len(rows) < Len(snap.rows)
  BY <1>1, <1>4, <1>5 DEF LoadInv
<1>7. snap.rows \in Seq(Row) /\ page \in Nat
  BY DEF ListTypeOK
<1>8. page * PageSize < Len(snap.rows) /\ rows = SubSeq(snap.rows, 1, page * PageSize)
  BY <1>6, <1>7, UpToIs
<1>9. page' - 1 = page /\ page' # 0
  BY <1>3, <1>7
<1>10. LoadOK(g)'
  BY <1>1, <1>2, <1>3, <1>8, <1>9 DEF LoadOK
<1>11. fetches' = {g}
  BY <1>2, <1>4, <1>5
<1> QED
  BY <1>9, <1>10, <1>11 DEF LoadInv

\* The answer to a load of a clean list is the next page of its rows.
LEMMA LoadAnswered ==
  ASSUME ListTypeOK, LoadInv, NEW f \in fetches, AnswerFetch(f)
  PROVE  LoadInv'
<1>1. PICK s : s = Matching(db, f.filter)
  OBVIOUS
<1>2. PICK g : g = [f EXCEPT !.stage = "answered",
                       !.reply = [rows |-> Slice(s, f.page),
                                  total |-> Len(s)]]
  OBVIOUS
<1>3. /\ fetches' = (fetches \ {f}) \cup {g}
      /\ IF f.append THEN clean' = (clean /\ s = snap.rows) /\ snap' = snap
         ELSE snap' = [rows |-> s, filter |-> f.filter] /\ clean' = clean
      /\ page' = page /\ list' = list /\ rows' = rows
  BY <1>1, <1>2 DEF AnswerFetch, bodyVars
<1>4. SUFFICES ASSUME clean' PROVE LoadInv'
  BY DEF LoadInv
<1>5. clean /\ snap'.rows = s /\ (f.append => snap'.rows = snap.rows)
  <2>1. CASE f.append
    <3>1. clean' = (clean /\ s = snap.rows) /\ snap' = snap
      BY <1>3, <2>1
    <3>2. clean /\ s = snap.rows
      BY <1>4, <3>1, Zenon
    <3> QED
      BY <3>1, <3>2
  <2>2. CASE ~f.append
    <3>1. snap' = [rows |-> s, filter |-> f.filter] /\ clean' = clean
      BY <1>3, <2>2
    <3> QED
      BY <1>4, <2>2, <3>1
  <2> QED
    BY <2>1, <2>2
<1>6. f \in Fetch
  BY DEF ListTypeOK
<1>7. /\ g.page = f.page /\ g.append = f.append /\ g.existing = f.existing
      /\ g.reply = [rows |-> Slice(s, f.page), total |-> Len(s)]
  BY <1>2, <1>6 DEF Fetch
<1>8. fetches = {f} /\ LoadOK(f) /\ page # 0
  BY <1>5 DEF LoadInv
<1>9. fetches' = {g}
  BY <1>3, <1>8
<1>10. Slice(snap'.rows, page') = Slice(s, f.page)
  BY <1>3, <1>5, <1>8 DEF LoadOK
<1>11. LoadOK(g)'
  <2>1. page' = g.page
    BY <1>3, <1>7, <1>8 DEF LoadOK
  <2>2. g.reply = [rows |-> Slice(snap'.rows, page'), total |-> Len(snap'.rows)]
    BY <1>5, <1>7, <1>10
  <2>3. IF g.append
        THEN /\ list' = "loaded" /\ g.existing = rows'
             /\ rows' = SubSeq(snap'.rows, 1, (page' - 1) * PageSize)
             /\ (page' - 1) * PageSize < Len(snap'.rows)
        ELSE list' = "loading" /\ page' = 1 /\ g.existing = <<>>
    BY <1>3, <1>5, <1>7, <1>8 DEF LoadOK
  <2> QED
    BY <2>1, <2>2, <2>3 DEF LoadOK, Slice
<1> QED
  BY <1>3, <1>8, <1>9, <1>11 DEF LoadInv

\* With the page that arrives, a clean list is the first pages of its rows.
LEMMA LoadReceived ==
  ASSUME ListAssumption, ListTypeOK, LoadInv,
         NEW f \in fetches, ReceiveFetch(f)
  PROVE  LoadInv'
<1>1. /\ f.stage = "answered" /\ fetches' = fetches \ {f}
      /\ rows' = f.existing \o f.reply.rows /\ total' = f.reply.total
      /\ page' = page /\ snap' = snap /\ clean' = clean
  BY DEF ReceiveFetch, Show
<1>2. SUFFICES ASSUME clean PROVE LoadInv'
  BY <1>1 DEF LoadInv
<1>3. fetches = {f} /\ LoadOK(f) /\ page # 0
  BY <1>2 DEF LoadInv
<1>4. PICK s \in Seq(Row) : s = snap.rows
  BY DEF ListTypeOK
<1>5. f.reply.rows = Slice(s, page) /\ f.reply.total = Len(s)
  BY <1>1, <1>3, <1>4 DEF LoadOK
<1>6. page \in Nat \ {0} /\ PageSize \in Nat
  BY DEF ListTypeOK, ListAssumption
<1>7. PICK k : k = (page - 1) * PageSize
  OBVIOUS
<1>8. f.existing = SubSeq(s, 1, k) /\ k <= Len(s)
  <2>1. CASE f.append
    <3>1. f.existing = SubSeq(s, 1, k) /\ k < Len(s)
      BY <1>3, <1>4, <1>7, <2>1 DEF LoadOK
    <3>2. k \in Int /\ Len(s) \in Int
      BY <1>6, <1>7
    <3> QED
      BY <3>1, <3>2
  <2>2. CASE ~f.append
    <3>1. f.existing = <<>> /\ page = 1
      BY <1>3, <2>2 DEF LoadOK
    <3>2. k = 0
      BY <1>6, <1>7, <3>1
    <3>3. SubSeq(s, 1, 0) = <<>>
      BY SubSeqEmpty
    <3> QED
      BY <3>1, <3>2, <3>3
  <2> QED
    BY <2>1, <2>2
<1>9. rows' = UpTo(s, page)
  <2>1. k <= Len(s) => SubSeq(s, 1, k) \o Slice(s, page) = UpTo(s, page)
    BY <1>6, <1>7, PageIs
  <2> QED
    BY <1>1, <1>5, <1>8, <2>1
<1>10. UpTo(s, page) = UpTo(snap.rows, page)'
  BY <1>1, <1>4 DEF UpTo
<1>11. fetches' = {}
  BY <1>1, <1>3
<1> QED
  BY <1>1, <1>3, <1>4, <1>5, <1>9, <1>10, <1>11 DEF LoadInv

\* Every step keeps what a clean list and its load rely on.
LEMMA LoadNext ==
  ASSUME ListAssumption, ListTypeOK, LoadInv, [ListNext]_listVars
  PROVE  LoadInv'
<1>1. ASSUME UNCHANGED <<page, list, rows, total, fetches, snap, clean>>
      PROVE  LoadInv'
  BY <1>1 DEF LoadInv, LoadOK, UpTo, Slice
<1>2. ASSUME NEW f \in fetches, RetryFetch(f) PROVE LoadInv'
  <2>1. PICK g : g = [f EXCEPT !.attempt = 1, !.stage = "sent",
                               !.reply = NoReply]
    OBVIOUS
  <2>2. /\ fetches' = (fetches \ {f}) \cup {g}
        /\ UNCHANGED <<page, list, rows, snap, clean>>
    BY <1>2, <2>1 DEF RetryFetch, bodyVars
  <2>3. /\ g.page = f.page /\ g.append = f.append /\ g.existing = f.existing
        /\ g.stage = "sent"
    BY <2>1 DEF ListTypeOK, Fetch
  <2>4. SUFFICES ASSUME clean PROVE LoadInv'
    BY <2>2 DEF LoadInv
  <2>5. fetches = {f} /\ LoadOK(f) /\ page # 0
    BY <2>4 DEF LoadInv
  <2>6. LoadOK(g)'
    BY <2>2, <2>3, <2>5 DEF LoadOK
  <2>7. fetches' = {g}
    BY <2>2, <2>5
  <2> QED
    BY <2>2, <2>5, <2>6, <2>7 DEF LoadInv
<1>3. ASSUME NEW f \in fetches, FailFetch(f) PROVE LoadInv'
  <2>1. /\ fetches' = fetches \ {f} /\ page' = page
        /\ IF f.append THEN clean' = FALSE ELSE list' = "failed" /\ clean' = clean
    BY <1>3 DEF FailFetch
  <2>2. clean /\ clean' => page # 0 /\ fetches' = {} /\ list' = "failed"
    BY <2>1 DEF LoadInv
  <2> QED
    BY <2>1, <2>2 DEF LoadInv
<1>4. CASE Reload
  BY <1>4, LoadStarted, Zenon DEF Reload
<1>5. CASE Clear
  BY <1>5, LoadStarted, Zenon DEF Clear
<1>6. CASE TurnPage
  BY <1>1, <1>6 DEF TurnPage
<1>7. ASSUME NEW f \in Filters, Type(f) PROVE LoadInv'
  BY <1>1, <1>7 DEF Type
<1>8. ASSUME NEW r \in Row, PressButton(r) PROVE LoadInv'
  BY <1>1, <1>8 DEF PressButton, bodyVars
<1>9. ASSUME NEW w, CarryOut(w) PROVE LoadInv'
  BY <1>1, <1>9 DEF CarryOut, bodyVars
<1>10. ASSUME NEW w \in presses, ReceivePress(w) PROVE LoadInv'
  BY <1>10, LoadStarted, Zenon DEF ReceivePress
<1>11. ASSUME NEW w \in presses, LosePress(w) PROVE LoadInv'
  BY <1>1, <1>11 DEF LosePress, bodyVars
<1>12. CASE UNCHANGED listVars
  BY <1>1, <1>12 DEF listVars
<1> QED
  BY LoadAdded, LoadAnswered, LoadReceived, <1>2, <1>3, <1>4, <1>5, <1>6, <1>7,
     <1>8, <1>9, <1>10, <1>11, <1>12 DEF ListNext, StepFetch

\* A load from the start has still to find what the server holds.
LEMMA FreshStarted ==
  ASSUME NEW f, StartFetch(1, FALSE, f)
  PROVE  FreshInv'
<1>1. PICK g : g.append = FALSE /\ g.stage = "sent" /\ fetches' = fetches \cup {g}
  BY DEF StartFetch
<1> QED
  BY <1>1 DEF FreshInv

\* Every step keeps what a clean list may lack of what the server holds.
LEMMA FreshNext ==
  ASSUME ListTypeOK, ToldInv, LoadInv, FreshInv, [ListNext]_listVars
  PROVE  FreshInv'
<1>1. ASSUME UNCHANGED <<db, list, snap, clean>>, fetches' = fetches,
             presses \subseteq presses', toasts' = toasts
      PROVE  FreshInv'
  BY <1>1 DEF FreshInv
<1>2. CASE LoadMore
  <2>1. /\ StartFetch(page + 1, TRUE, form)
        /\ UNCHANGED <<db, presses, toasts, snap>>
    BY <1>2, Zenon DEF LoadMore
  <2>2. list' = list /\ (clean' => clean) /\ fetches \subseteq fetches'
    BY <2>1 DEF StartFetch
  <2> QED
    BY <2>1, <2>2 DEF FreshInv
<1>3. ASSUME NEW r \in Row, PressButton(r) PROVE FreshInv'
  <2>1. /\ toasts' = Append(toasts, "none") /\ presses \subseteq presses'
        /\ UNCHANGED <<db, list, fetches, snap, clean>>
    BY <1>3 DEF PressButton, bodyVars
  <2>2. \A n \in DOMAIN toasts : n \in DOMAIN toasts' /\ toasts'[n] = toasts[n]
    <3>1. /\ toasts \in Seq({"none", "success", "error"})
          /\ "none" \in {"none", "success", "error"}
      BY DEF ListTypeOK
    <3>2. /\ Len(toasts) \in Nat /\ Len(toasts') = Len(toasts) + 1
          /\ DOMAIN toasts = 1..Len(toasts) /\ DOMAIN toasts' = 1..Len(toasts')
          /\ \A n \in 1..Len(toasts) : toasts'[n] = toasts[n]
      BY <2>1, <3>1, AppendProperties
    <3> QED
      BY <3>2
  <2> QED
    BY <2>1, <2>2 DEF FreshInv
<1>4. ASSUME NEW f \in fetches, AnswerFetch(f) PROVE FreshInv'
  <2>1. PICK g : fetches' = (fetches \ {f}) \cup {g}
    BY <1>4 DEF AnswerFetch
  <2>2. /\ IF f.append THEN snap' = snap
           ELSE snap' = [rows |-> Matching(db, f.filter), filter |-> f.filter]
        /\ UNCHANGED <<db, list, presses, toasts>>
    BY <1>4 DEF AnswerFetch, bodyVars
  <2>3. clean' => clean
    <3>1. CASE f.append
      <4>1. clean' = (clean /\ Matching(db, f.filter) = snap.rows)
        BY <1>4, <3>1 DEF AnswerFetch
      <4> QED
        BY <4>1, Zenon
    <3>2. CASE ~f.append
      BY <1>4, <3>2 DEF AnswerFetch
    <3> QED
      BY <3>1, <3>2
  <2>4. CASE f.append
    <3>1. \A q \in fetches : ~q.append => q \in fetches'
      BY <2>1, <2>4
    <3> QED
      BY <2>2, <2>3, <2>4, <3>1 DEF FreshInv
  <2>5. CASE ~f.append
    <3>1. /\ snap'.rows = Matching(db, f.filter) /\ snap'.filter = f.filter
          /\ db' = db
      BY <2>2, <2>5
    <3>2. Matching(db', snap'.filter) = Matching(db, f.filter)
      BY <3>1
    <3>3. (snap.rows = Matching(db, snap.filter))'
      BY <3>1, <3>2 DEF Matching
    <3> QED
      BY <3>3 DEF FreshInv
  <2> QED
    BY <2>4, <2>5
<1>5. ASSUME NEW f \in fetches, ReceiveFetch(f) PROVE FreshInv'
  <2>1. /\ f.stage = "answered" /\ fetches' = fetches \ {f}
        /\ UNCHANGED <<db, presses, toasts, snap, clean>>
    BY <1>5 DEF ReceiveFetch
  <2>2. clean => list # "failed"
    BY DEF LoadInv, LoadOK
  <2>3. \A q \in fetches : q.stage = "sent" => q \in fetches'
    BY <2>1
  <2> QED
    BY <2>1, <2>2, <2>3 DEF FreshInv
<1>6. ASSUME NEW f \in fetches, RetryFetch(f) PROVE FreshInv'
  <2>1. PICK g : g = [f EXCEPT !.attempt = 1, !.stage = "sent",
                               !.reply = NoReply]
    OBVIOUS
  <2>2. /\ fetches' = (fetches \ {f}) \cup {g}
        /\ UNCHANGED <<db, list, presses, toasts, snap, clean>>
    BY <1>6, <2>1 DEF RetryFetch, bodyVars
  <2>3. g.append = f.append /\ g.stage = "sent"
    BY <2>1 DEF ListTypeOK, Fetch
  <2> QED
    BY <2>2, <2>3 DEF FreshInv
<1>7. ASSUME NEW f \in fetches, FailFetch(f) PROVE FreshInv'
  BY <1>7 DEF FailFetch, FreshInv
<1>8. ASSUME NEW w \in presses \cup unheard, CarryOut(w) PROVE FreshInv'
  <2>1. /\ clean' = clean /\ toasts' = toasts
        /\ \/ /\ w \in presses
              /\ presses' = (presses \ {w}) \cup {[w EXCEPT !.stage = "answered"]}
           \/ w \in unheard
    BY <1>8 DEF CarryOut
  <2>2. CASE w \in unheard
    <3>1. w.n \in DOMAIN toasts' /\ toasts'[w.n] = "error"
      BY <2>1, <2>2 DEF ToldInv, ListTypeOK
    <3> QED
      BY <3>1 DEF FreshInv
  <2>3. CASE presses' = (presses \ {w}) \cup {[w EXCEPT !.stage = "answered"]}
    <3>1. [w EXCEPT !.stage = "answered"].stage = "answered"
      BY DEF ListTypeOK, Press
    <3> QED
      BY <2>3, <3>1 DEF FreshInv
  <2> QED
    BY <2>1, <2>2, <2>3
<1>9. ASSUME NEW w \in presses, LosePress(w) PROVE FreshInv'
  <2>1. toasts' = [toasts EXCEPT ![w.n] = "error"]
    BY <1>9 DEF LosePress
  <2>3. w.n \in DOMAIN toasts
    <3>1. w.n \in DOMAIN done
      BY DEF ToldInv
    <3>2. DOMAIN done = 1..Len(done) /\ DOMAIN toasts = 1..Len(done)
      BY DEF ListTypeOK
    <3> QED
      BY <3>1, <3>2
  <2>2. w.n \in DOMAIN toasts' /\ toasts'[w.n] = "error"
    BY <2>1, <2>3
  <2> QED
    BY <2>2 DEF FreshInv
<1>10. CASE Reload
  BY <1>10, FreshStarted, Zenon DEF Reload
<1>11. CASE Clear
  BY <1>11, FreshStarted, Zenon DEF Clear
<1>12. CASE TurnPage
  BY <1>1, <1>12 DEF TurnPage
<1>13. ASSUME NEW f \in Filters, Type(f) PROVE FreshInv'
  BY <1>1, <1>13 DEF Type
<1>14. ASSUME NEW w \in presses, ReceivePress(w) PROVE FreshInv'
  BY <1>14, FreshStarted, Zenon DEF ReceivePress
<1>15. CASE UNCHANGED listVars
  BY <1>1, <1>15 DEF listVars
<1> QED
  BY <1>2, <1>3, <1>4, <1>5, <1>6, <1>7, <1>8, <1>9, <1>10, <1>11, <1>12, <1>13,
     <1>14, <1>15 DEF ListNext, StepFetch

\* The page of a table is a page of its rows before it is turned, and after.
LEMMA TableTurns ==
  ASSUME NEW n \in Nat, NEW k \in Nat, NEW s \in Nat \ {0},
         k + 1 < (n + s - 1) \div s
  PROVE  (k + 1) * s <= n
<1>1. PICK d \in Nat : d = (n + s - 1) \div s
  OBVIOUS
<1>2. d * s <= n + s - 1
  BY <1>1
<1>3. PICK e \in Nat : d = k + 2 + e
  <2>1. d - k - 2 \in Nat
    BY <1>1
  <2> QED
    BY <2>1
<1>4. d * s = (k + 1) * s + s + e * s /\ e * s \in Nat /\ (k + 1) * s \in Nat
  BY <1>3
<1> QED
  BY <1>2, <1>4

\* Every step keeps the page of the table within a clean list.
LEMMA TableNext ==
  ASSUME ListAssumption, ListTypeOK, LoadInv, TableInRange, [ListNext]_listVars
  PROVE  TableInRange'
<1>1. ASSUME UNCHANGED <<list, rows, tpage>>, clean' => clean PROVE TableInRange'
  BY <1>1 DEF TableInRange
<1>2. ASSUME NEW f, StartFetch(1, FALSE, f) PROVE TableInRange'
  BY <1>2 DEF StartFetch, TableInRange
<1>3. TableSize \in Nat \ {0} /\ tpage \in Nat /\ Len(rows) \in Nat
  BY DEF ListAssumption, ListTypeOK
<1>4. CASE LoadMore
  <2>1. StartFetch(page + 1, TRUE, form) /\ tpage' = tpage
    BY <1>4, Zenon DEF LoadMore
  <2>2. list' = list /\ rows' = rows /\ (clean' => clean)
    BY <2>1 DEF StartFetch
  <2> QED
    BY <1>1, <2>1, <2>2
<1>5. CASE TurnPage
  <2>1. /\ UNCHANGED <<list, rows, clean>> /\ list = "loaded"
        /\ \/ tpage + 1 < TablePages /\ tpage' = tpage + 1
           \/ tpage > 0 /\ tpage' = tpage - 1
    BY <1>5 DEF TurnPage
  <2>2. CASE tpage + 1 < TablePages /\ tpage' = tpage + 1
    <3>1. (tpage + 1) * TableSize <= Len(rows)
      BY <1>3, <2>2, TableTurns DEF TablePages
    <3> QED
      BY <2>1, <2>2, <3>1 DEF TableInRange
  <2>3. CASE tpage > 0 /\ tpage' = tpage - 1
    <3>1. PICK k \in Nat : tpage = k + 1 /\ tpage' = k
      BY <1>3, <2>3
    <3>2. k * TableSize + TableSize = tpage * TableSize /\ k * TableSize \in Nat
      BY <1>3, <3>1
    <3> QED
      BY <1>3, <2>1, <3>1, <3>2 DEF TableInRange
  <2> QED
    BY <2>1, <2>2, <2>3
<1>6. ASSUME NEW f \in fetches, ReceiveFetch(f) PROVE TableInRange'
  <2>1. /\ f.stage = "answered" /\ clean' = clean
        /\ rows' = f.existing \o f.reply.rows
        /\ tpage' = IF list = "loaded" THEN tpage ELSE 0
    BY <1>6 DEF ReceiveFetch, Show
  <2>2. f.existing \in Seq(Row) /\ f.reply.rows \in Seq(Row)
    BY FetchTypes
  <2>3. /\ Len(rows') = Len(f.existing) + Len(f.reply.rows)
        /\ Len(f.existing) \in Nat /\ Len(f.reply.rows) \in Nat
        /\ rows' \in Seq(Row)
    BY <2>1, <2>2, ConcatProperties
  <2>4. SUFFICES ASSUME clean PROVE tpage' * TableSize <= Len(rows')
    BY <2>1 DEF TableInRange
  <2>5. LoadOK(f)
    BY <2>4 DEF LoadInv
  <2>6. CASE list = "loaded"
    <3>1. f.existing = rows /\ tpage' = tpage
      BY <2>1, <2>5, <2>6 DEF LoadOK
    <3>2. tpage * TableSize <= Len(rows)
      BY <2>4, <2>6 DEF TableInRange
    <3>3. PICK k \in Nat : k = tpage * TableSize
      BY <1>3
    <3> QED
      BY <1>3, <2>3, <3>1, <3>2, <3>3
  <2>7. CASE list # "loaded"
    <3>1. tpage' = 0 /\ 0 * TableSize = 0
      BY <1>3, <2>1, <2>7
    <3>2. Len(rows') \in Nat
      BY <2>3, LenProperties
    <3> QED
      BY <3>1, <3>2
  <2> QED
    BY <2>6, <2>7
<1>7. ASSUME NEW f \in fetches, AnswerFetch(f) PROVE TableInRange'
  <2>1. clean' => clean
    <3>1. CASE f.append
      <4>1. clean' = (clean /\ Matching(db, f.filter) = snap.rows)
        BY <1>7, <3>1 DEF AnswerFetch
      <4> QED
        BY <4>1, Zenon
    <3>2. CASE ~f.append
      BY <1>7, <3>2 DEF AnswerFetch
    <3> QED
      BY <3>1, <3>2
  <2> QED
    BY <1>1, <1>7, <2>1 DEF AnswerFetch, bodyVars
<1>8. ASSUME NEW f \in fetches, RetryFetch(f) PROVE TableInRange'
  BY <1>1, <1>8 DEF RetryFetch, bodyVars
<1>9. ASSUME NEW f \in fetches, FailFetch(f) PROVE TableInRange'
  BY <1>9 DEF FailFetch, TableInRange
<1>10. CASE Reload
  BY <1>2, <1>10, Zenon DEF Reload
<1>11. CASE Clear
  BY <1>2, <1>11, Zenon DEF Clear
<1>12. ASSUME NEW f \in Filters, Type(f) PROVE TableInRange'
  BY <1>1, <1>12 DEF Type
<1>13. ASSUME NEW r \in Row, PressButton(r) PROVE TableInRange'
  BY <1>1, <1>13 DEF PressButton, bodyVars
<1>14. ASSUME NEW w, CarryOut(w) PROVE TableInRange'
  BY <1>1, <1>14 DEF CarryOut, bodyVars
<1>15. ASSUME NEW w \in presses, ReceivePress(w) PROVE TableInRange'
  BY <1>2, <1>15, Zenon DEF ReceivePress
<1>16. ASSUME NEW w \in presses, LosePress(w) PROVE TableInRange'
  BY <1>1, <1>16 DEF LosePress, bodyVars
<1>17. CASE UNCHANGED listVars
  BY <1>1, <1>17 DEF listVars
<1> QED
  BY <1>4, <1>5, <1>6, <1>7, <1>8, <1>9, <1>10, <1>11, <1>12, <1>13, <1>14, <1>15,
     <1>16, <1>17 DEF ListNext, StepFetch

\* What holds when the page is mounted.
LEMMA InitListInv ==
  ASSUME ListAssumption, ListInit
  PROVE  ListInv
<1>1. PICK g : g = [n |-> 1, page |-> 1, append |-> FALSE, existing |-> <<>>,
                    filter |-> Row, attempt |-> 0, stage |-> "sent",
                    reply |-> NoReply]
  OBVIOUS
<1>2. fetches = {g} /\ tries = <<1>>
  BY <1>1 DEF ListInit
<1>3. ListTypeOK
  <2>1. db \in Seq(Row)
    <3>1. First \in Nat /\ \A i \in 1..First : First + 1 - i \in Row
      <4>1. First \in Nat /\ 1..First \subseteq Row
        BY DEF ListAssumption
      <4>2. \A i \in 1..First : First + 1 - i \in 1..First
        BY <4>1
      <4> QED
        BY <4>1, <4>2
    <3>2. db = [i \in 1..First |-> First + 1 - i]
      BY DEF ListInit
    <3> QED
      BY <3>1, <3>2
  <2>2. <<>> \in Seq(Row)
    OBVIOUS
  <2>3. NoReply \in [rows : Seq(Row), total : Nat]
    BY <2>2 DEF NoReply
  <2>4. Row \in Filters /\ 0 \in 0..MaxListFaults
    BY DEF ListAssumption
  <2>5. PICK r \in [rows : Seq(Row), total : Nat] : r = NoReply
    BY <2>3
  <2>6. PICK e \in Seq(Row) : e = <<>>
    BY <2>2
  <2>7. [n |-> 1, page |-> 1, append |-> FALSE, existing |-> e,
         filter |-> Row, attempt |-> 0, stage |-> "sent", reply |-> r] \in Fetch
    BY <2>4 DEF Fetch
  <2>8. fetches \subseteq Fetch
    BY <1>1, <1>2, <2>5, <2>6, <2>7
  <2>9. [rows |-> <<>>, filter |-> Row] \in [rows : Seq(Row), filter : Filters]
    BY <2>2, <2>4
  <2>10. /\ <<>> \in Seq(Nat) /\ <<>> \in Seq({"none", "success", "error"})
         /\ Len(<<>>) = 0 /\ <<1>> \in Seq(Nat)
    OBVIOUS
  <2>11. /\ list \in {"loading", "loaded", "failed"}
         /\ page \in Nat \ {0} /\ total \in Nat /\ more \in BOOLEAN /\ tpage \in Nat
         /\ clean \in BOOLEAN
    <3>1. list = "loading" /\ page = 1 /\ total = 0 /\ tpage = 0
      BY DEF ListInit
    <3>2. more \in BOOLEAN /\ clean \in BOOLEAN
      BY Zenon DEF ListInit
    <3>3. 1 \in Nat \ {0} /\ 0 \in Nat
      OBVIOUS
    <3> QED
      BY <3>1, <3>2, <3>3, Zenon
  <2>12. /\ rows = <<>> /\ toasts = <<>> /\ done = <<>> /\ form = Row
         /\ presses = {} /\ unheard = {} /\ listFaults = 0
         /\ snap = [rows |-> <<>>, filter |-> Row]
    BY DEF ListInit
  <2>13. /\ rows \in Seq(Row) /\ done \in Seq(Nat) /\ tries \in Seq(Nat)
         /\ toasts \in Seq({"none", "success", "error"}) /\ Len(done) = Len(toasts)
    BY <1>2, <2>2, <2>10, <2>12
  <2>14. /\ form \in Filters /\ snap \in [rows : Seq(Row), filter : Filters]
         /\ presses \subseteq Press /\ unheard \subseteq Press
         /\ listFaults \in 0..MaxListFaults
    BY <2>4, <2>9, <2>12
  <2> QED
    BY <2>1, <2>8, <2>11, <2>13, <2>14 DEF ListTypeOK
<1>4. TriesInv
  <2>1. g.n = 1 /\ g.attempt = 0
    BY <1>1
  <2>2. DOMAIN tries = 1..1 /\ tries[1] = 1
    BY <1>2
  <2> QED
    BY <1>2, <2>1, <2>2 DEF TriesInv
<1>5. ToldInv
  BY DEF ListInit, ToldInv
<1>6. LoadInv
  <2>1. /\ g.page = 1 /\ g.append = FALSE /\ g.existing = <<>> /\ g.stage = "sent"
    BY <1>1
  <2>2. page = 1 /\ list = "loading"
    BY DEF ListInit
  <2>3. LoadOK(g)
    BY <2>1, <2>2 DEF LoadOK
  <2> QED
    BY <1>2, <2>2, <2>3 DEF LoadInv
<1>7. FreshInv
  <2>1. g.stage = "sent" /\ ~g.append
    BY <1>1
  <2> QED
    BY <1>2, <2>1 DEF FreshInv
<1>8. TableInRange
  BY DEF ListInit, TableInRange
<1> QED
  BY <1>3, <1>4, <1>5, <1>6, <1>7, <1>8 DEF ListInv

\* What the list relies on holds throughout.
LEMMA ListInductive ==
  ASSUME ListAssumption
  PROVE  ListSpec => []ListInv
<1>1. ListInit => ListInv
  BY InitListInv
<1>2. ListInv /\ [ListNext]_listVars => ListInv'
  <2> SUFFICES ASSUME ListInv, [ListNext]_listVars PROVE ListInv'
    OBVIOUS
  <2>1. ListTypeOK /\ TriesInv /\ ToldInv /\ LoadInv /\ FreshInv /\ TableInRange
    BY DEF ListInv
  <2>2. ListTypeOK'
    BY <2>1, ListTypeNext
  <2>3. TriesInv'
    BY <2>1, TriesNext
  <2>4. ToldInv'
    BY <2>1, ToldNext
  <2>5. LoadInv'
    BY <2>1, LoadNext
  <2>6. FreshInv'
    BY <2>1, FreshNext
  <2>7. TableInRange'
    BY <2>1, TableNext
  <2> QED
    BY <2>2, <2>3, <2>4, <2>5, <2>6, <2>7 DEF ListInv
<1> QED
  BY <1>1, <1>2, PTL DEF ListSpec

\* A growing list tells the truth about the server as far as its requests were
\* answered in order: no row is missing or there twice, what a told press did is
\* on the screen, no press is carried out more often than told, and the table
\* shows a page that exists.
THEOREM ListsAreTruthful ==
  ASSUME ListAssumption
  PROVE  ListSpec => []ListsTruthful
<1>1. ListInv => ListsTruthful
  <2> SUFFICES ASSUME ListInv PROVE ListsTruthful
    OBVIOUS
  <2>1. RetryPolicy
    BY DEF ListInv, TriesInv, ToldInv, RetryPolicy
  <2>2. ExactWhenClean
    BY DEF ListInv, LoadInv, UpTo, ExactWhenClean
  <2>3. FreshWhenSettled
    <3> SUFFICES ASSUME clean, list = "loaded", fetches = {}, presses = {},
                        \A n \in DOMAIN toasts : toasts[n] = "success"
                 PROVE  snap.rows = Matching(db, snap.filter)
      BY DEF FreshWhenSettled
    <3> QED
      BY DEF ListInv, FreshInv
  <2> QED
    BY <2>1, <2>2, <2>3 DEF ListInv, ListsTruthful
<1> QED
  BY <1>1, ListInductive, PTL
=============================================================================
