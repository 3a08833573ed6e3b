---------------------------- MODULE ClientSession ----------------------------
(***************************************************************************)
(* Who the browser client is signed in as: AuthContext of state.rs, the    *)
(* refresh task of app.rs, sign-in, sign-out and password change of the    *)
(* pages, and the refresh cookie, which all tabs of a browser share while  *)
(* every tab keeps an AuthState of its own.                                *)
(*                                                                         *)
(* The handlers of handlers/auth.rs appear as one step each (AuthSessions  *)
(* has their statements).  A request carries the cookie of the moment it   *)
(* is sent; a response sets the cookie when it arrives, also when the      *)
(* client has stopped waiting for it, since nothing aborts a request.      *)
(***************************************************************************)
EXTENDS Naturals

CONSTANTS
    User,
    Tab,
    MaxSession,  \* bound: sessions the browser and the requests refer to
    MaxActs,     \* bound: things users and administrators do
    MaxFaults    \* bound: requests that fail or take more than 3 seconds

ASSUME UserAssumption == User # {}
ASSUME BoundAssumption == MaxSession \in Nat /\ MaxActs \in Nat
                          /\ MaxFaults \in Nat

Session == 1..MaxSession
None == 0   \* no session: no cookie, no AuthState, nothing answered

VARIABLES
    sess,    \* the server's sessions: their user, and whether they are live
    cookie,  \* the refresh cookie: a session, or None
    auth,    \* AuthState of each tab: the token's session and the user shown
    tasks,   \* tasks of each tab and the request each waits for; two that are
             \* alike, such as a button pressed twice, are one
    strays,  \* requests that nobody waits for any more
    upset,   \* an answer came out of turn or a sign-out failed (history)
    gaveUp,  \* tabs whose refresh task ended without renewing (history)
    acts, faults

vars == <<sess, cookie, auth, tasks, strays, upset, gaveUp, acts, faults>>

SignedOut == [token |-> None, user |-> CHOOSE u \in User : TRUE]
Kind == {"refresh", "login", "logout", "password"}
Stage == {"sleep", "sent", "answered", "backoff"}

\* reply is the session an answer issues; ok says whether it is an Ok.
Task == [kind : Kind, stage : Stage, user : User, stale : BOOLEAN,
         carries : 0..MaxSession, reply : 0..MaxSession, ok : BOOLEAN]

TypeOK ==
    /\ sess \in [Session -> [user : User, live : BOOLEAN]]
    /\ cookie \in 0..MaxSession
    /\ auth \in [Tab -> [token : 0..MaxSession, user : User]]
    /\ tasks \in [Tab -> SUBSET Task]
    /\ strays \subseteq Task
    /\ upset \in BOOLEAN
    /\ gaveUp \subseteq Tab
    /\ acts \in 0..MaxActs /\ faults \in 0..MaxFaults

SignedIn(t) == auth[t].token # None
Live(s) == s # None /\ sess[s].live

AllTasks == strays \cup UNION {tasks[t] : t \in Tab}
Held == {cookie} \cup {auth[t].token : t \in Tab}
        \cup {r.carries : r \in AllTasks} \cup {r.reply : r \in AllTasks}
Free == Session \ Held

Init ==
    /\ sess = [s \in Session |-> [user |-> SignedOut.user, live |-> FALSE]]
    /\ cookie = None
    /\ auth = [t \in Tab |-> SignedOut]
    /\ tasks = [t \in Tab |-> {}]
    /\ strays = {}
    /\ upset = FALSE /\ gaveUp = {}
    /\ acts = 0 /\ faults = 0

-----------------------------------------------------------------------------
(* The tasks of a tab *)

Waiting(kind, u) ==
    [kind |-> kind, stage |-> "sent", user |-> u, stale |-> FALSE,
     carries |-> cookie, reply |-> None, ok |-> FALSE]
Sleeping(u) == [kind |-> "refresh", stage |-> "sleep", user |-> u,
                stale |-> FALSE, carries |-> None, reply |-> None,
                ok |-> FALSE]

\* stale is the cancel flag of a refresh task; of any other it is history: the
\* tab was signed out since the task began.
Cancelled(ts, a) ==
    {[r EXCEPT !.stale = @ \/ r.kind = "refresh" \/ a.token = None] : r \in ts}

\* Slip: the effect has no clean-up.
InstallKeeps(t, a, ts) ==
    /\ auth' = [auth EXCEPT ![t] = a]
    /\ gaveUp' = IF a.token = auth[t].token THEN gaveUp ELSE gaveUp \ {t}
    /\ tasks' = [tasks EXCEPT ![t] =
          ts \cup IF a.token = None THEN {} ELSE {Sleeping(a.user)}]

\* Slip: only the first sign-in starts a refresh task.
InstallOnce(t, a, ts) ==
    /\ auth' = [auth EXCEPT ![t] = a]
    /\ gaveUp' = IF a.token = auth[t].token THEN gaveUp ELSE gaveUp \ {t}
    /\ tasks' = [tasks EXCEPT ![t] =
          Cancelled(ts, a) \cup IF a.token = None \/ SignedIn(t) THEN {}
                             ELSE {Sleeping(a.user)}]

\* set_auth: the effect on the token cancels the task it had started and
\* starts one for the new token.
Install(t, a, ts) ==
    /\ auth' = [auth EXCEPT ![t] = a]
    /\ gaveUp' = IF a.token = auth[t].token THEN gaveUp ELSE gaveUp \ {t}
    /\ tasks' = [tasks EXCEPT ![t] =
          IF a.token = auth[t].token THEN ts
          ELSE Cancelled(ts, a) \cup
               IF a.token = None THEN {} ELSE {Sleeping(a.user)}]

\* Slip: without the bound.
ActFreely == acts' = acts + 1

Act == acts < MaxActs /\ acts' = acts + 1

\* The form of the sign-in page; submitting it twice does nothing.
SubmitLogin(t, u) ==
    /\ ~SignedIn(t)
    /\ \A r \in tasks[t] : r.kind # "login"
    /\ Act
    /\ tasks' = [tasks EXCEPT ![t] = @ \cup {Waiting("login", u)}]
    /\ UNCHANGED <<sess, cookie, auth, strays, upset, gaveUp, faults>>

PressLogout(t) ==
    /\ SignedIn(t)
    /\ Act
    /\ tasks' = [tasks EXCEPT ![t] = @ \cup {Waiting("logout", auth[t].user)}]
    /\ UNCHANGED <<sess, cookie, auth, strays, upset, gaveUp, faults>>

\* The server learns the account from the token, which carries stands for.
SubmitPassword(t) ==
    /\ SignedIn(t)
    /\ Act
    /\ tasks' = [tasks EXCEPT ![t] = @ \cup
          {[Waiting("password", auth[t].user) EXCEPT
              !.carries = auth[t].token]}]
    /\ UNCHANGED <<sess, cookie, auth, strays, upset, gaveUp, faults>>

\* The page is loaded again: AuthState comes from sessionStorage.
ReloadPage(t) ==
    /\ Act
    /\ strays' = strays \cup {r \in tasks[t] : r.stage \in {"sent", "answered"}}
    /\ tasks' = [tasks EXCEPT ![t] =
          IF SignedIn(t) THEN {Sleeping(auth[t].user)} ELSE {}]
    /\ gaveUp' = gaveUp \ {t}
    /\ UNCHANGED <<sess, cookie, auth, upset, faults>>

\* Slip: the refresh task does not look at its flag after sleeping.
WakeAnyway(t, r) ==
    /\ r.stage = "sleep"
    /\ tasks' = [tasks EXCEPT ![t] = (@ \ {r}) \cup
          {Waiting("refresh", r.user)}]
    /\ UNCHANGED <<sess, cookie, auth, strays, upset, gaveUp, acts, faults>>

\* The refresh task a minute before the token expires.
Wake(t, r) ==
    /\ r.stage = "sleep"
    /\ tasks' = [tasks EXCEPT ![t] = (@ \ {r}) \cup
          IF r.stale THEN {} ELSE {Waiting("refresh", r.user)}]
    /\ UNCHANGED <<sess, cookie, auth, strays, upset, gaveUp, acts, faults>>

\* Half a minute after a failure: one more request, its answer discarded.
WakeLast(t, r) ==
    /\ r.stage = "backoff"
    /\ tasks' = [tasks EXCEPT ![t] = @ \ {r}]
    /\ strays' = IF r.stale THEN strays
                 ELSE strays \cup {Waiting("refresh", r.user)}
    /\ gaveUp' = IF r.stale THEN gaveUp ELSE gaveUp \cup {t}
    /\ UNCHANGED <<sess, cookie, auth, upset, acts, faults>>

-----------------------------------------------------------------------------
(* The server *)

Ended(s) == [sess EXCEPT ![s].live = FALSE]
NewSession == CHOOSE x \in Free : TRUE
Issued(base, u) ==
    [base EXCEPT ![NewSession] = [user |-> u, live |-> TRUE]]

\* The handler of r ends: the sessions after it and the answer, which waits
\* for its way to the browser.
Answer(r, after, reply, ok) ==
    LET a == [r EXCEPT !.stage = "answered", !.reply = reply, !.ok = ok]
    IN  /\ sess' = after
        /\ \/ \E t \in Tab : /\ r \in tasks[t]
                             /\ tasks' = [tasks EXCEPT ![t] =
                                            (@ \ {r}) \cup {a}]
                             /\ UNCHANGED strays
           \/ /\ r \in strays
              /\ strays' = (strays \ {r}) \cup {a}
              /\ UNCHANGED tasks
        /\ UNCHANGED <<cookie, auth, upset, gaveUp, acts, faults>>

Login(r) ==
    /\ r.kind = "login"
    /\ Free # {}
    /\ Answer(r, Issued(sess, r.user), NewSession, TRUE)

\* Without a live session of the cookie the answer is 401.
Refresh(r) ==
    /\ r.kind = "refresh"
    /\ IF Live(r.carries)
       THEN /\ Free # {}
            /\ Answer(r, Issued(Ended(r.carries), sess[r.carries].user),
                      NewSession, TRUE)
       ELSE Answer(r, sess, None, FALSE)

\* The session of the cookie, not that of the bearer token.
Logout(r) ==
    /\ r.kind = "logout"
    /\ Answer(r, IF Live(r.carries) THEN Ended(r.carries) ELSE sess, None, TRUE)

EndAll(u) == [s \in Session |-> IF sess[s].user = u
                                THEN [sess[s] EXCEPT !.live = FALSE]
                                ELSE sess[s]]

Password(r) ==
    /\ r.kind = "password"
    /\ IF Live(r.carries)
       THEN Answer(r, EndAll(sess[r.carries].user), None, TRUE)
       ELSE Answer(r, sess, None, FALSE)

\* An administrator deactivates u or sets another password.
EndSessions(u) ==
    /\ Act
    /\ sess' = EndAll(u)
    /\ UNCHANGED <<cookie, auth, tasks, strays, upset, gaveUp, faults>>

-----------------------------------------------------------------------------
(* Answers and failures *)

\* Slip: logout leaves the cookie where it is.
SetCookieKeeps(r) == cookie' = IF r.reply # None THEN r.reply ELSE cookie

\* Set-Cookie of an answer: a new token, or the removal by logout.
SetCookie(r) ==
    cookie' = IF r.reply # None THEN r.reply
              ELSE IF r.kind = "logout" THEN None ELSE cookie

\* What the task of tab t does with the answer r: sign-out forgets the
\* AuthState whatever the answer is.  A renewed token goes with the user the
\* task was started for; the flag is not looked at again.
Receive(t, r) ==
    /\ r \in tasks[t] /\ r.stage = "answered"
    /\ SetCookie(r)
    /\ LET rest == tasks[t] \ {r}
           renewed == [token |-> r.reply, user |-> r.user]
       IN  \/ /\ r.kind \in {"refresh", "login"} /\ r.ok
              /\ Install(t, renewed, rest)
           \/ /\ \/ r.kind = "logout"
                 \/ r.kind = "refresh" /\ ~r.ok
                 \/ r.kind = "password" /\ r.ok
              /\ Install(t, SignedOut, rest)
           \/ /\ r.kind \in {"login", "password"} /\ ~r.ok
              /\ Install(t, auth[t], rest)
    /\ upset' = (upset \/ r.stale)
    /\ UNCHANGED <<sess, strays, acts, faults>>

\* Three seconds pass, the connection breaks, or the answer is a 5xx.  The
\* request may still be on its way to the server.
Fail(t, r) ==
    /\ r \in tasks[t] /\ r.stage \in {"sent", "answered"}
    /\ faults < MaxFaults
    /\ faults' = faults + 1
    /\ strays' = strays \cup {r}
    /\ LET rest == tasks[t] \ {r}
           later == [r EXCEPT !.stage = "backoff", !.carries = None,
                              !.reply = None, !.ok = FALSE]
       IN  \/ /\ r.kind = "refresh"
              /\ tasks' = [tasks EXCEPT ![t] = rest \cup {later}]
              /\ UNCHANGED <<auth, gaveUp>>
           \/ r.kind = "logout" /\ Install(t, SignedOut, rest)
           \/ r.kind \in {"login", "password"} /\ Install(t, auth[t], rest)
    /\ upset' = (upset \/ r.kind = "logout")
    /\ UNCHANGED <<sess, cookie, acts>>

\* An answer that nobody waits for still sets the cookie, or is lost.
Stray(r) ==
    /\ r \in strays
    /\ strays' = strays \ {r}
    /\ \/ UNCHANGED <<cookie, upset>>
       \/ /\ r.stage = "answered"
          /\ SetCookie(r)
          /\ upset' = (upset \/ cookie' # cookie)
    /\ UNCHANGED <<sess, auth, tasks, gaveUp, acts, faults>>

Serve(r) ==
    /\ r.stage = "sent"
    /\ Login(r) \/ Refresh(r) \/ Logout(r) \/ Password(r)

\* A request that tab t waits for is answered.
ServeTab(t) == \E r \in tasks[t] : Serve(r) /\ tasks'[t] # tasks[t]

TaskStep(t) ==
    \E r \in tasks[t] : Wake(t, r) \/ WakeLast(t, r) \/ Receive(t, r)

Next ==
    \/ \E t \in Tab :
          \/ \E u \in User : SubmitLogin(t, u)
          \/ PressLogout(t) \/ SubmitPassword(t) \/ ReloadPage(t)
          \/ TaskStep(t)
          \/ \E r \in tasks[t] : Fail(t, r)
    \/ \E r \in AllTasks : Serve(r)
    \/ \E r \in strays : Stray(r)
    \/ \E u \in User : EndSessions(u)

\* Timers expire and the server answers what it is sent.
Fairness ==
    \A t \in Tab : /\ WF_vars(TaskStep(t))
                   /\ WF_vars(ServeTab(t))

Spec == Init /\ [][Next]_vars /\ Fairness

-----------------------------------------------------------------------------
(* Properties *)

\* A signed-in tab has exactly one refresh task that has not been told to
\* stop, unless it gave up after two failures, and a signed-out one has none:
\* tokens do not expire under an active user and two tasks do not compete for
\* the cookie.
OneRefreshTask ==
    \A t \in Tab :
        LET live == {r \in tasks[t] : r.kind = "refresh" /\ ~r.stale}
        IN  IF SignedIn(t) /\ t \notin gaveUp
            THEN \E r \in live : live = {r}
            ELSE live = {}

OneTab == \A t, x \in Tab : t = x

\* A tab shows the user whose token it holds: the permissions on the screen are
\* those the server applies.  What can break it is an answer that nobody waited
\* for, or one for a task that had been cancelled, after another user has signed
\* in; and another tab, since the tabs share the cookie.
ShowsTokenUser ==
    OneTab /\ ~upset =>
        \A t \in Tab : SignedIn(t) => sess[auth[t].token].user = auth[t].user

\* Once the tab is signed out, the browser holds no cookie of a live session, so
\* that nobody signs in with it afterwards, whatever is under way.  Excepted are
\* a sign-out whose request failed, answers out of turn, and two tabs whose
\* refresh tasks present the same cookie: the second is refused and signs out.
SignedOutForGood ==
    OneTab /\ ~upset => \A t \in Tab : ~SignedIn(t) => ~Live(cookie)

\* A tab that holds the token of a session that has ended is signed out or
\* gets another token, as long as its refresh task has not given up.
DeadTokenNoticed ==
    \A t \in Tab : SignedIn(t) /\ ~Live(auth[t].token)
        ~> ~SignedIn(t) \/ Live(auth[t].token) \/ t \in gaveUp \/ Free = {}

\* What a tab shows of its session is so: whose it is, that it is kept alive by
\* one task, and that it is over after sign-out.
SessionTruthful ==
    TypeOK /\ OneRefreshTask /\ ShowsTokenUser /\ SignedOutForGood
=============================================================================
