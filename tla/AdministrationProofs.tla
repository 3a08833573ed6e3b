------------------------ MODULE AdministrationProofs ------------------------
(***************************************************************************)
(* Safety of Administration for any accounts, networks, certificates, lock *)
(* threshold and lock time, and any mix and number of calls.               *)
(***************************************************************************)
EXTENDS Administration, TLAPS

\* The statements of each kind of call.
Words == [guess |-> {"wrong"}, login |-> {"right", "issue", "audit"},
          patch |-> {"name", "forbid", "active", "revoke", "audit"},
          delete |-> {"active", "revoke", "audit"},
          unlock |-> {"unlock", "audit"}, reset |-> {"hash", "revoke", "audit"},
          create |-> {"insert", "grant", "audit"},
          roles |-> {"snapshot", "replace", "audit"},
          allow |-> {"list", "audit"}, unlist |-> {"unlist", "audit"},
          register |-> {"register", "audit"}, retire |-> {"retire", "audit"},
          mtls |-> {"switch", "audit"}]
Ops == DOMAIN Words

\* Statements that refuse a call which has changed nothing yet, and their calls.
Once == {"replace", "unlist", "register", "retire"}
OnceOps == {"roles", "unlist", "register", "retire"}

\* What is left of a call: the record comes last.
Listed(f) ==
    /\ f.todo \in Seq(Words[f.op]) /\ f.todo # <<>>
    /\ IF f.op = "guess" THEN Len(f.todo) = 1
       ELSE f.todo[Len(f.todo)] = "audit"
    /\ f.op \in OnceOps => \A i \in DOMAIN f.todo :
                              f.todo[i] \in Once => i + 1 = Len(f.todo)

ArgOK(f) ==
    /\ f.op \in {"create", "roles"} => f.arg \in SUBSET Role
    /\ f.op = "allow" => f.arg \in Net
    /\ f.op \in {"register", "retire"} => f.arg \in Cert
    /\ f.op = "mtls" => f.arg \in BOOLEAN

Fields == {"op", "by", "on", "arg", "todo", "result", "seen", "waits", "start"}

\* A call that runs.
Flying(f) == /\ DOMAIN f = Fields
             /\ f.on \in User /\ f.start \in Nat
             /\ Listed(f) /\ ArgOK(f)

CallInv ==
    /\ Len(call) \in Nat
    /\ \A c \in Made : /\ call[c].op \in Ops
                       /\ call[c].result = "running" =>
                             Flying(call[c]) /\ call[c].start <= now

Try == [user : User, start : Nat, nth : Nat, end : Nat]
PastOK == past \in [tries : SUBSET Try, changed : SUBSET Made,
                    asked : [User -> SUBSET Role], mixed : SUBSET User,
                    retired : SUBSET Cert, older : SUBSET Cert]

\* s and t are not the failures of a guess that was let in while the account
\* was locked by s.
Apart(s, start) == start <= s.end \/ start >= s.end + LockTime

\* The failures that are remembered of an account are counted in it, and one
\* that reached the threshold has locked it; a guess that still runs was let
\* in before that, or after the lock time.
LockInv ==
    /\ \A t \in past.tries :
          /\ t.nth <= user[t.user].failed /\ t.end <= now
          /\ t.nth >= Threshold => user[t.user].until >= t.end + LockTime
    /\ \A c \in Running, s \in past.tries :
          call[c].op = "guess" /\ call[c].on = s.user /\ s.nth >= Threshold =>
             Apart(s, call[c].start)
    /\ LockHolds

\* The pins that were read are no older than the reading before them.
PinInv ==
    /\ PinsAgeOnce
    /\ server.read # <<>> => server.read[1] \subseteq Active \cup past.retired

\* A call whose first change is still to come has changed nothing.
UntouchedInv ==
    \A c \in past.changed : call[c].result = "running" =>
        /\ call[c].op # "guess"
        /\ call[c].op \in OnceOps => Len(call[c].todo) < 2

IInv == /\ TypeOK /\ CallInv /\ PastOK /\ LockInv /\ RolesReplaced /\ PinInv
        /\ UntouchedInv /\ ChangesAreAudited

-----------------------------------------------------------------------------
(* Calls and their lists of statements *)

\* The call to which a statement belongs.
LEMMA CallOf ==
  ASSUME NEW op \in Ops
  PROVE  /\ Words[op] \subseteq Statement
         /\ "wrong" \in Words[op] => op = "guess"
         /\ "right" \in Words[op] => op = "login"
         /\ "forbid" \in Words[op] => op = "patch"
         /\ "insert" \in Words[op] \/ "grant" \in Words[op] => op = "create"
         /\ "snapshot" \in Words[op] \/ "replace" \in Words[op] => op = "roles"
         /\ "list" \in Words[op] => op = "allow"
         /\ "unlist" \in Words[op] => op = "unlist"
         /\ "register" \in Words[op] => op = "register"
         /\ "retire" \in Words[op] => op = "retire"
         /\ "switch" \in Words[op] => op = "mtls"
         /\ op = "guess" => Words[op] = {"wrong"}
         /\ op \in OnceOps => Words[op] \subseteq Once \cup {"snapshot", "audit"}
  BY DEF Ops, Words, Statement, OnceOps, Once

\* The rest of a list.
LEMMA TailFacts ==
  ASSUME NEW S, NEW s \in Seq(S), s # <<>>
  PROVE  /\ Head(s) = s[1] /\ Head(s) \in S /\ Len(s) \in Nat \ {0}
         /\ DOMAIN s = 1 .. Len(s)
         /\ Tail(s) \in Seq(S) /\ Len(Tail(s)) = Len(s) - 1
         /\ DOMAIN Tail(s) = 1 .. Len(s) - 1
         /\ \A i \in 1 .. Len(s) - 1 : Tail(s)[i] = s[i + 1]
         /\ Len(s) # 1 => Tail(s) # <<>> /\ Tail(s)[Len(s) - 1] = s[Len(s)]
<1>1. Head(s) = s[1] /\ Head(s) \in S /\ Len(s) \in Nat \ {0} /\ DOMAIN s = 1 .. Len(s)
  OBVIOUS
<1>2. Tail(s) \in Seq(S) /\ Len(Tail(s)) = Len(s) - 1
  OBVIOUS
<1>3. DOMAIN Tail(s) = 1 .. Len(s) - 1
  BY <1>1, <1>2
<1>4. \A i \in 1 .. Len(s) - 1 : Tail(s)[i] = s[i + 1]
  BY <1>1
<1>5. Len(s) # 1 => Len(s) - 1 \in 1 .. Len(s) - 1 /\ Len(s) - 1 + 1 = Len(s)
  BY <1>1
<1>6. Len(s) # 1 => Tail(s) # <<>>
  <2> DEFINE t == Tail(s)
             n == Len(s)
  <2>1. n \in Nat \ {0} /\ Len(t) = n - 1
    BY <1>1, <1>2
  <2> HIDE DEF t, n
  <2>2. t = <<>> => Len(t) = 0
    OBVIOUS
  <2>3. n # 1 => t # <<>>
    BY <2>1, <2>2
  <2> QED
    BY <2>3 DEF t, n
<1> QED
  BY <1>1, <1>2, <1>3, <1>4, <1>5, <1>6

\* What is left of a call after its next statement.
LEMMA ListedTail ==
  ASSUME NEW op \in Ops, NEW f, NEW g,
         f.op = op, g.op = op, Listed(f), g.todo = Tail(f.todo),
         Len(f.todo) # 1
  PROVE  Listed(g) /\ Len(g.todo) = Len(f.todo) - 1
<1> DEFINE s == f.todo
           W == Words[op]
<1>1. s \in Seq(W) /\ s # <<>> /\ op # "guess" /\ s[Len(s)] = "audit"
  BY DEF Listed
<1>2. op \in OnceOps => \A i \in DOMAIN s : s[i] \in Once => i + 1 = Len(s)
  BY DEF Listed
<1> HIDE DEF s, W
<1>3. /\ Len(s) \in Nat \ {0} /\ DOMAIN s = 1 .. Len(s)
      /\ Tail(s) \in Seq(W) /\ Len(Tail(s)) = Len(s) - 1
      /\ DOMAIN Tail(s) = 1 .. Len(s) - 1
      /\ \A i \in 1 .. Len(s) - 1 : Tail(s)[i] = s[i + 1]
      /\ Len(s) # 1 => Tail(s) # <<>> /\ Tail(s)[Len(s) - 1] = s[Len(s)]
  BY <1>1, TailFacts
<1>4. ASSUME op \in OnceOps, NEW i \in DOMAIN Tail(s), Tail(s)[i] \in Once
      PROVE  i + 1 = Len(Tail(s))
  <2>1. i \in 1 .. Len(s) - 1 /\ s[i + 1] \in Once
    BY <1>3, <1>4
  <2>2. i + 1 \in DOMAIN s
    BY <1>3, <2>1
  <2>3. i + 1 + 1 = Len(s)
    BY <1>2, <1>4, <2>1, <2>2
  <2> QED
    BY <1>3, <2>1, <2>3
<1>5. g.todo = Tail(s) /\ g.op = op /\ Len(s) # 1
  BY DEF s
<1> HIDE DEF Ops, Words, Once, OnceOps
<1>6. Listed(g)
  BY <1>1, <1>3, <1>4, <1>5 DEF Listed, W
<1> QED
  BY <1>3, <1>5, <1>6 DEF s

\* What a new call looks like.
New(op, by, on, arg, todo) ==
    [op |-> op, by |-> by, on |-> on, arg |-> arg, todo |-> todo,
     result |-> "running", seen |-> {}, waits |-> {}, start |-> now]

\* Call c has run its next statement, been refused or been dropped.
Moved(c) ==
    /\ Len(call') = Len(call) /\ Made' = Made
    /\ \A d \in Made \ {c} : call'[d] = call[d]
    /\ call'[c].op = call[c].op
    /\ call'[c].todo \in Seq(Statement)
    /\ call'[c].result \in {"running"} \cup Finished
    /\ call'[c].result = "running" =>
          /\ call'[c].on = call[c].on /\ call'[c].start = call[c].start
          /\ Flying(call'[c])
          /\ Len(call'[c].todo) = Len(call[c].todo) - 1

LEMMA RunningFacts ==
  ASSUME TypeOK, CallInv, NEW c \in Running
  PROVE  /\ c \in Made /\ c \in Nat /\ call[c].result = "running"
         /\ call[c].op \in Ops /\ Flying(call[c]) /\ call[c].start <= now
         /\ call[c].on \in User /\ Listed(call[c])
         /\ Head(call[c].todo) \in Words[call[c].op]
         /\ Len(call[c].todo) \in Nat \ {0}
<1>1. c \in Made /\ call[c].result = "running" /\ c \in Nat
  BY DEF Running, TypeOK, CallInv
<1>2. call[c].op \in Ops /\ Flying(call[c]) /\ call[c].start <= now
  BY <1>1 DEF CallInv
<1>3. call[c].on \in User /\ Listed(call[c])
  BY <1>2 DEF Flying
<1>4. call[c].todo \in Seq(Words[call[c].op]) /\ call[c].todo # <<>>
  BY <1>3 DEF Listed
<1>5. Head(call[c].todo) \in Words[call[c].op] /\ Len(call[c].todo) \in Nat \ {0}
  BY <1>4, TailFacts
<1> QED
  BY <1>1, <1>2, <1>3, <1>5

LEMMA StopFacts ==
  ASSUME TypeOK, CallInv, NEW c \in Running,
         NEW result \in Finished, Stop(c, result)
  PROVE  Moved(c) /\ call'[c].result = result
<1>1. c \in Made
  BY RunningFacts
<1> DEFINE e == Over(c, result)
<1>2. e.op = call[c].op /\ e.todo = <<>> /\ e.result = result
  BY DEF Over
<1>3. call' = [call EXCEPT ![c] = e]
  BY DEF Stop
<1> HIDE DEF e
<1>4. /\ Len(call') = Len(call) /\ Made' = Made
      /\ call'[c] = e /\ \A d \in Made \ {c} : call'[d] = call[d]
  BY <1>1, <1>3 DEF TypeOK, CallInv, Made
<1>5. <<>> \in Seq(Statement) /\ result # "running"
  BY DEF Finished
<1> QED
  BY <1>2, <1>4, <1>5 DEF Moved

\* A statement that ran: unless it was the record, more are left.
Went(c) ==
    /\ Moved(c)
    /\ IF Len(call[c].todo) = 1 THEN call'[c].result = "ok"
       ELSE call'[c].result = "running"
    /\ Len(call[c].todo) = 1 => Head(call[c].todo) \in {"wrong", "audit"}

LEMMA RanFacts ==
  ASSUME TypeOK, CallInv, NEW c \in Running, Ran(c)
  PROVE  Went(c)
<1> DEFINE f == call[c]
           e == [f EXCEPT !.todo = Tail(@)]
<1>1. /\ c \in Made /\ f.op \in Ops /\ Flying(f) /\ Listed(f)
      /\ Head(f.todo) \in Words[f.op] /\ f.result = "running"
  BY RunningFacts
<1>2. f.todo \in Seq(Words[f.op]) /\ f.todo # <<>>
  BY <1>1 DEF Listed
<1>3. Len(f.todo) = 1 => Head(f.todo) \in {"wrong", "audit"}
  <2>1. Head(f.todo) = f.todo[1]
    BY <1>2, TailFacts
  <2>2. f.op = "guess" => Words[f.op] = {"wrong"}
    BY <1>1, CallOf
  <2> QED
    BY <1>1, <2>1, <2>2 DEF Listed
<1>4. CASE Len(f.todo) = 1
  BY <1>3, <1>4, StopFacts DEF Ran, Finished, Went
<1>5. CASE Len(f.todo) # 1
  <2>1. call' = [call EXCEPT ![c] = e]
    BY <1>5 DEF Ran
  <2>2. /\ DOMAIN e = Fields /\ e.op = f.op /\ e.on = f.on /\ e.arg = f.arg
        /\ e.start = f.start /\ e.result = "running" /\ e.todo = Tail(f.todo)
    <3> HIDE DEF f
    <3> QED
      BY <1>1 DEF Flying, Fields
  <2> HIDE DEF e
  <2>3. /\ Len(call') = Len(call) /\ Made' = Made
        /\ call'[c] = e /\ \A d \in Made \ {c} : call'[d] = call[d]
    BY <1>1, <2>1 DEF TypeOK, CallInv, Made
  <2>4. Listed(e) /\ Len(e.todo) = Len(f.todo) - 1
    BY <1>1, <1>5, <2>2, ListedTail
  <2>5. Flying(e)
    BY <1>1, <2>2, <2>4 DEF Flying, ArgOK
  <2>6. e.todo \in Seq(Statement)
    <3>1. e.todo \in Seq(Words[e.op]) /\ Words[e.op] \subseteq Statement
      BY <1>1, <2>2, <2>4, CallOf DEF Listed
    <3> QED
      BY <3>1
  <2> QED
    BY <1>3, <1>5, <2>2, <2>3, <2>4, <2>5, <2>6 DEF Moved, Went
<1> QED
  BY <1>4, <1>5 DEF Went

-----------------------------------------------------------------------------
(* What one statement leaves alone *)

Account == [state : {"absent", "active", "inactive"}, failed : Nat, until : Nat]

\* The types, when one call moves and the tables keep theirs.
LEMMA TypeKept ==
  ASSUME TypeOK, CallInv, NEW c \in Running, Moved(c),
         UNCHANGED <<mix, now, faults, server>>,
         user' \in [User -> Account], grant' \in [User -> SUBSET Tuple],
         live' \subseteq User, allow' \subseteq [id : Made, net : Net],
         cert' \in [Cert -> {"none", "active", "revoked"}], mtls' \in BOOLEAN,
         audit' \subseteq Made
  PROVE  TypeOK' /\ CallInv'
<1>1. c \in Made /\ call[c].op \in Ops /\ call[c].start <= now
      /\ call[c].result = "running"
  BY RunningFacts
<1>2. Made' = Made /\ Len(call') = Len(call)
  BY DEF Moved
<1>3. \A d \in Made : call'[d].todo \in Seq(Statement)
                      /\ call'[d].result \in {"running"} \cup Finished
  BY <1>1 DEF Moved, TypeOK
<1>4. CallInv'
  <2>1. \A d \in Made : /\ call'[d].op \in Ops
                        /\ call'[d].result = "running" =>
                              Flying(call'[d]) /\ call'[d].start <= now
    <3> HIDE DEF Ops
    <3>1. ASSUME NEW d \in Made, d # c
          PROVE  /\ call'[d].op \in Ops
                 /\ call'[d].result = "running" =>
                       Flying(call'[d]) /\ call'[d].start <= now
      BY <3>1 DEF Moved, CallInv
    <3>2. /\ call'[c].op \in Ops
          /\ call'[c].result = "running" =>
                Flying(call'[c]) /\ call'[c].start <= now
      BY <1>1 DEF Moved
    <3> QED
      BY <3>1, <3>2
  <2>2. Len(call') \in Nat /\ now' = now
    BY <1>2 DEF CallInv
  <2> QED
    BY <1>2, <2>1, <2>2 DEF CallInv, Flying, Listed, ArgOK
<1>5. Made' = 1 .. Len(call') /\ Len(call') <= mix'.calls
  BY <1>2 DEF TypeOK
<1>6. TypeOK'
  BY <1>2, <1>3, <1>5 DEF TypeOK, Account
<1> QED
  BY <1>4, <1>6

LEMMA PastSame ==
  ASSUME PastOK, past' = past, Made \subseteq Made'
  PROVE  PastOK'
  BY DEF PastOK

LEMMA PastChanged ==
  ASSUME PastOK, NEW c \in Made, past' = Changed(c), Made' = Made
  PROVE  /\ PastOK' /\ past'.changed = past.changed \cup {c}
         /\ past'.tries = past.tries /\ past'.asked = past.asked
         /\ past'.mixed = past.mixed /\ past'.retired = past.retired
         /\ past'.older = past.older
  BY DEF PastOK, Changed

\* Locks, when no failure is added and those that are left are of accounts that
\* keep their count.
LEMMA LocksKept ==
  ASSUME TypeOK, CallInv, LockInv, NEW c \in Running, Moved(c), now' = now,
         past'.tries \subseteq past.tries,
         \A t \in past'.tries : /\ user'[t.user].failed = user[t.user].failed
                                /\ user'[t.user].until = user[t.user].until
  PROVE  LockInv'
<1>1. \A t \in past'.tries :
         /\ t.nth <= user'[t.user].failed /\ t.end <= now'
         /\ t.nth >= Threshold => user'[t.user].until >= t.end + LockTime
  BY DEF LockInv
<1>2. \A d \in Running', s \in past'.tries :
         call'[d].op = "guess" /\ call'[d].on = s.user /\ s.nth >= Threshold =>
            Apart(s, call'[d].start)
  <2> SUFFICES ASSUME NEW d \in Running', NEW s \in past'.tries,
                      call'[d].op = "guess", call'[d].on = s.user,
                      s.nth >= Threshold
               PROVE  Apart(s, call'[d].start)
    OBVIOUS
  <2>1. d \in Made /\ call'[d].result = "running"
    BY DEF Running, Moved
  <2>2. d \in Running /\ call'[d].op = call[d].op /\ call'[d].on = call[d].on
        /\ call'[d].start = call[d].start
    BY <2>1, RunningFacts DEF Moved, Running
  <2> QED
    BY <2>2 DEF LockInv
<1>3. LockHolds'
  BY DEF LockInv, LockHolds
<1> QED
  BY <1>1, <1>2, <1>3 DEF LockInv, Apart

LEMMA RolesKept ==
  ASSUME RolesReplaced, grant' = grant,
         past'.asked = past.asked, past'.mixed = past.mixed
  PROVE  RolesReplaced'
  BY DEF RolesReplaced, Names

LEMMA PinsKept ==
  ASSUME PinInv, server' = server, cert' = cert,
         past'.retired = past.retired, past'.older = past.older
  PROVE  PinInv'
  BY DEF PinInv, PinsAgeOnce, Active

\* A statement belongs to the call that runs it.
LEMMA AtFacts ==
  ASSUME TypeOK, CallInv, NEW c, NEW s, At(c, s)
  PROVE  /\ c \in Running /\ c \in Made /\ call[c].op \in Ops
         /\ s \in Words[call[c].op] /\ s = Head(call[c].todo)
         /\ call[c].on \in User
  BY RunningFacts DEF At, Next1

\* The records, when a statement ran.
LEMMA AuditRan ==
  ASSUME IInv, NEW c, NEW s, At(c, s), s # "wrong", Went(c),
         audit \subseteq audit', s = "audit" => c \in audit',
         \/ past'.changed = past.changed
         \/ /\ s \notin {"snapshot", "audit"}
            /\ past'.changed = past.changed \cup {c}
  PROVE  UntouchedInv' /\ ChangesAreAudited'
<1> DEFINE f == call[c]
           e == call'[c]
<1>1. /\ c \in Running /\ c \in Made /\ f.op \in Ops /\ s \in Words[f.op]
      /\ s = Head(f.todo)
  BY AtFacts DEF IInv
<1>2. f.op # "guess"
  BY <1>1, CallOf
<1>3. /\ Moved(c)
      /\ Len(f.todo) = 1 => s = "audit"
      /\ IF Len(f.todo) = 1 THEN e.result = "ok" ELSE e.result = "running"
  BY <1>1 DEF Went
<1>4. Listed(f) /\ Len(f.todo) \in Nat \ {0} /\ f.result = "running"
  BY <1>1, RunningFacts DEF IInv
<1>5. ASSUME e.result = "running", c \in past'.changed, f.op \in OnceOps
      PROVE  Len(e.todo) < 2
  <2>1. Len(e.todo) = Len(f.todo) - 1
    BY <1>3, <1>5 DEF Moved
  <2>2. CASE c \in past.changed
    <3>1. Len(f.todo) < 2
      BY <1>4, <1>5, <2>2 DEF IInv, UntouchedInv
    <3> QED
      BY <1>4, <2>1, <3>1
  <2>3. CASE c \notin past.changed
    <3>1. s \in Once
      <4>1. s \notin {"snapshot", "audit"}
        BY <1>5, <2>3
      <4>2. Words[f.op] \subseteq Once \cup {"snapshot", "audit"}
        BY <1>1, <1>5, CallOf
      <4> QED
        BY <1>1, <4>1, <4>2
    <3>2. f.todo \in Seq(Words[f.op]) /\ f.todo # <<>>
      BY <1>4 DEF Listed
    <3>3. s = f.todo[1] /\ 1 \in DOMAIN f.todo
      BY <1>1, <3>2, TailFacts
    <3>4. Len(f.todo) = 2
      <4>1. 1 + 1 = Len(f.todo)
        BY <1>4, <1>5, <3>1, <3>3 DEF Listed
      <4> QED
        BY <4>1
    <3> QED
      BY <2>1, <3>4
  <2> QED
    BY <2>2, <2>3
<1>6. e.op = f.op /\ \A d \in Made \ {c} : call'[d] = call[d]
  BY <1>3 DEF Moved
<1>7. past'.changed \subseteq past.changed \cup {c} /\ past.changed \subseteq Made
  BY DEF IInv, PastOK
<1>8. UntouchedInv'
  BY <1>2, <1>5, <1>6, <1>7 DEF IInv, UntouchedInv
<1>9. ChangesAreAudited'
  <2>1. \A d \in Made : call'[d].result = "ok" => d \in audit'
    BY <1>3, <1>6 DEF IInv, ChangesAreAudited
  <2>2. c \notin audit' => e.result = "running"
    BY <1>3
  <2>3. \A d \in past'.changed \ audit' :
           \/ call'[d].result \in {"running", "dropped"}
           \/ call'[d].result = "refused" /\ call'[d].op \in {"patch", "create"}
    BY <1>6, <1>7, <2>2 DEF IInv, ChangesAreAudited
  <2>4. Made' = Made
    BY <1>3 DEF Moved
  <2> QED
    BY <2>1, <2>3, <2>4 DEF ChangesAreAudited
<1> QED
  BY <1>8, <1>9

\* The records, when a call was refused or dropped.
LEMMA AuditStopped ==
  ASSUME IInv, NEW c \in Running, NEW result \in {"refused", "dropped"},
         Stop(c, result),
         past'.changed = past.changed, audit' = audit,
         result = "refused" =>
            Head(call[c].todo) \in Once \cup {"wrong", "forbid", "insert", "grant"}
  PROVE  UntouchedInv' /\ ChangesAreAudited'
<1> DEFINE f == call[c]
           s == Head(f.todo)
<1>1. /\ c \in Made /\ f.op \in Ops /\ s \in Words[f.op] /\ Listed(f)
      /\ f.result = "running" /\ Len(f.todo) \in Nat \ {0}
  BY RunningFacts DEF IInv
<1>2. Moved(c) /\ call'[c].result = result
  BY StopFacts DEF IInv, Finished
<1>3. Made' = Made /\ call'[c].op = f.op /\ \A d \in Made \ {c} : call'[d] = call[d]
  BY <1>2 DEF Moved
<1>4. past.changed \subseteq Made
  BY DEF IInv, PastOK
<1>5. UntouchedInv'
  BY <1>2, <1>3, <1>4 DEF IInv, UntouchedInv
<1>6. ASSUME result = "refused", c \in past.changed
      PROVE  f.op \in {"patch", "create"}
  <2>1. f.op # "guess"
    BY <1>1, <1>6 DEF IInv, UntouchedInv
  <2>2. CASE s \in Once
    <3>1. f.op \in OnceOps
      BY <1>1, <2>2, CallOf DEF Once, OnceOps
    <3>2. f.todo \in Seq(Words[f.op]) /\ f.todo # <<>>
      BY <1>1 DEF Listed
    <3>3. s = f.todo[1] /\ 1 \in DOMAIN f.todo
      BY <3>2, TailFacts
    <3>4. Len(f.todo) = 2
      <4>1. 1 + 1 = Len(f.todo)
        BY <1>1, <2>2, <3>1, <3>3 DEF Listed
      <4> QED
        BY <4>1
    <3>5. Len(f.todo) < 2
      BY <1>1, <1>6, <3>1 DEF IInv, UntouchedInv
    <3> HIDE DEF f
    <3> QED
      BY <3>4, <3>5
  <2>3. CASE s \in {"wrong", "forbid", "insert", "grant"}
    <3>1. /\ "wrong" \in Words[f.op] => f.op = "guess"
          /\ "forbid" \in Words[f.op] => f.op = "patch"
          /\ "insert" \in Words[f.op] \/ "grant" \in Words[f.op] => f.op = "create"
      BY <1>1, CallOf
    <3> HIDE DEF f
    <3> QED
      BY <1>1, <2>1, <2>3, <3>1
  <2> QED
    BY <1>1, <1>6, <2>2, <2>3
<1>7. ChangesAreAudited'
  BY <1>2, <1>3, <1>4, <1>6 DEF IInv, ChangesAreAudited
<1> QED
  BY <1>5, <1>7

\* The snapshot of a role assignment runs like any statement.
LEMMA SnapshotFacts ==
  ASSUME IInv, NEW c \in Made, Snapshot(c)
  PROVE  Went(c)
<1> DEFINE f == call[c]
           e == [f EXCEPT !.todo = Tail(f.todo), !.seen = grant[f.on],
                          !.waits = {d \in Replacing(f.on) :
                                       call[d].seen \cap grant[f.on] # {}}]
<1>1. /\ c \in Running /\ f.op \in Ops /\ "snapshot" \in Words[f.op]
      /\ Head(f.todo) = "snapshot" /\ Flying(f) /\ Listed(f)
      /\ f.result = "running" /\ f.on \in User
  BY AtFacts, RunningFacts DEF Snapshot, IInv
<1>2. f.todo \in Seq(Words[f.op]) /\ f.todo # <<>> /\ f.op # "guess"
  BY <1>1, CallOf DEF Listed
<1>3. Len(f.todo) # 1
  <2>1. Head(f.todo) = f.todo[1]
    BY <1>2, TailFacts
  <2>2. f.todo[Len(f.todo)] = "audit"
    BY <1>1, <1>2 DEF Listed
  <2> QED
    BY <1>1, <2>1, <2>2
<1>4. call' = [call EXCEPT ![c] = e]
  BY DEF Snapshot
<1>5. /\ DOMAIN e = Fields /\ e.op = f.op /\ e.on = f.on /\ e.arg = f.arg
      /\ e.start = f.start /\ e.result = "running" /\ e.todo = Tail(f.todo)
  <2> HIDE DEF f
  <2> QED
    BY <1>1 DEF Flying, Fields
<1> HIDE DEF e
<1>6. /\ Len(call') = Len(call) /\ Made' = Made
      /\ call'[c] = e /\ \A d \in Made \ {c} : call'[d] = call[d]
  BY <1>4 DEF IInv, TypeOK, CallInv, Made
<1>7. Listed(e) /\ Len(e.todo) = Len(f.todo) - 1
  BY <1>1, <1>3, <1>5, ListedTail
<1>8. Flying(e)
  BY <1>1, <1>5, <1>7 DEF Flying, ArgOK
<1>9. e.todo \in Seq(Statement)
  <2>1. e.todo \in Seq(Words[e.op]) /\ Words[e.op] \subseteq Statement
    BY <1>1, <1>5, <1>7, CallOf DEF Listed
  <2> QED
    BY <2>1
<1> QED
  BY <1>3, <1>5, <1>6, <1>7, <1>8, <1>9 DEF Moved, Went

-----------------------------------------------------------------------------
(* Statements *)

\* A step of one call keeps the invariant if it keeps these parts of it.
LEMMA StepInv ==
  ASSUME IInv, NEW c \in Running, Moved(c),
         UNCHANGED <<mix, now, faults, server>>,
         user' \in [User -> Account], grant' \in [User -> SUBSET Tuple],
         live' \subseteq User, allow' \subseteq [id : Made, net : Net],
         cert' \in [Cert -> {"none", "active", "revoked"}], mtls' \in BOOLEAN,
         audit' \subseteq Made, PastOK', LockInv', RolesReplaced', PinInv',
         UntouchedInv', ChangesAreAudited'
  PROVE  IInv'
  BY TypeKept DEF IInv

\* The tables as they are.
LEMMA Tables ==
  ASSUME TypeOK
  PROVE  /\ user \in [User -> Account] /\ grant \in [User -> SUBSET Tuple]
         /\ live \subseteq User /\ allow \subseteq [id : Made, net : Net]
         /\ cert \in [Cert -> {"none", "active", "revoked"}] /\ mtls \in BOOLEAN
         /\ audit \subseteq Made
  BY DEF TypeOK, Account

\* A statement that changes neither tables of interest nor what is remembered.
LEMMA QuietInv ==
  ASSUME IInv, NEW c \in Running, Moved(c),
         UNCHANGED <<user, grant, allow, cert, mtls, server, past, mix, now, faults>>,
         live' \subseteq User, audit' \subseteq Made,
         UntouchedInv', ChangesAreAudited'
  PROVE  IInv'
<1>1. PastOK'
  BY PastSame DEF IInv, Moved
<1>2. LockInv'
  BY LocksKept DEF IInv
<1>3. RolesReplaced' /\ PinInv'
  BY RolesKept, PinsKept DEF IInv
<1> QED
  BY <1>1, <1>2, <1>3, StepInv, Tables DEF IInv

LEMMA QuietStatements ==
  ASSUME IInv, NEW c \in Made,
         Issue(c) \/ NoRow(c) \/ Revoke(c) \/ Snapshot(c) \/ Audit(c)
  PROVE  IInv'
<1>1. /\ UNCHANGED <<user, grant, allow, cert, mtls, server, past, mix, now, faults>>
      /\ live' \subseteq live \cup {call[c].on} /\ audit' \subseteq audit \cup {c}
  BY DEF Issue, NoRow, Revoke, Snapshot, Audit, Others, Record
<1>2. PICK s \in {"issue", "name", "active", "unlock", "hash", "revoke",
                  "snapshot", "audit"} :
         /\ At(c, s) /\ audit \subseteq audit'
         /\ s = "audit" => c \in audit'
  BY DEF Issue, NoRow, Revoke, Snapshot, Audit, Others, Record
<1>3. c \in Running /\ call[c].on \in User
  BY <1>2, AtFacts DEF IInv
<1>4. Went(c)
  BY <1>3, RanFacts, SnapshotFacts DEF IInv, Issue, NoRow, Revoke, Audit
<1>5. Moved(c)
  BY <1>4 DEF Went
<1>6. UntouchedInv' /\ ChangesAreAudited'
  BY <1>1, <1>2, <1>4, AuditRan
<1> QED
  BY <1>1, <1>3, <1>5, <1>6, QuietInv, Tables DEF IInv

LEMMA QuietEnds ==
  ASSUME IInv, NEW c \in Made, Forbid(c) \/ Drop(c)
  PROVE  IInv'
<1>1. UNCHANGED <<user, grant, live, allow, cert, mtls, server, past, mix, now,
                  faults, audit>>
  BY DEF Forbid, Drop, Others
<1>2. c \in Running
  BY AtFacts DEF Forbid, Drop, IInv
<1>3. PICK result \in {"refused", "dropped"} :
        /\ Stop(c, result)
        /\ result = "refused" => Head(call[c].todo) = "forbid"
  BY AtFacts DEF Forbid, Drop, IInv
<1>4. Moved(c)
  BY <1>2, <1>3, StopFacts DEF IInv, Finished
<1>5. UntouchedInv' /\ ChangesAreAudited'
  BY <1>1, <1>2, <1>3, AuditStopped
<1> QED
  BY <1>1, <1>2, <1>4, <1>5, QuietInv, Tables DEF IInv

\* A change of one table that is remembered as a change, and nothing else.
LEMMA ChangeInv ==
  ASSUME IInv, NEW c, NEW s, At(c, s), s \notin {"wrong", "snapshot", "audit"},
         Ran(c), past' = Changed(c),
         UNCHANGED <<grant, live, server, audit, mix, now, faults>>,
         user' \in [User -> Account],
         \A u \in User : /\ user'[u].failed = user[u].failed
                         /\ user'[u].until = user[u].until,
         allow' \subseteq [id : Made, net : Net],
         cert' \in [Cert -> {"none", "active", "revoked"}], mtls' \in BOOLEAN,
         \A k \in Cert : cert[k] = "active" => cert'[k] = "active"
  PROVE  IInv'
<1>1. c \in Running /\ c \in Made
  BY AtFacts DEF IInv
<1>2. Went(c) /\ Moved(c) /\ Made' = Made
  BY <1>1, RanFacts DEF IInv, Went, Moved
<1>3. /\ PastOK' /\ past'.changed = past.changed \cup {c}
      /\ past'.tries = past.tries /\ past'.asked = past.asked
      /\ past'.mixed = past.mixed /\ past'.retired = past.retired
      /\ past'.older = past.older
  BY <1>1, <1>2, PastChanged DEF IInv
<1>4. LockInv'
  <2>1. \A t \in past.tries : t.user \in User
    BY DEF IInv, PastOK, Try
  <2> QED
    BY <1>1, <1>2, <1>3, <2>1, LocksKept DEF IInv
<1>5. RolesReplaced'
  BY <1>3, RolesKept DEF IInv
<1>6. PinInv'
  <2>1. Active \subseteq Active'
    BY DEF Active
  <2> QED
    BY <1>3, <2>1 DEF IInv, PinInv, PinsAgeOnce
<1>7. UntouchedInv' /\ ChangesAreAudited'
  BY <1>2, <1>3, AuditRan
<1> QED
  BY <1>1, <1>2, <1>3, <1>4, <1>5, <1>6, <1>7, StepInv, Tables DEF IInv

\* What the statements are about.
LEMMA ArgFacts ==
  ASSUME IInv, NEW c, NEW s, At(c, s)
  PROVE  /\ s \in {"grant", "replace"} => call[c].arg \in SUBSET Role
         /\ s = "list" => call[c].arg \in Net
         /\ s \in {"register", "retire"} => call[c].arg \in Cert
         /\ s = "switch" => call[c].arg \in BOOLEAN
<1>1. ArgOK(call[c])
  BY AtFacts, RunningFacts DEF IInv, Flying
<1>2. call[c].op \in Ops /\ s \in Words[call[c].op]
  BY AtFacts DEF IInv
<1>3. /\ "grant" \in Words[call[c].op] => call[c].op = "create"
      /\ "replace" \in Words[call[c].op] => call[c].op = "roles"
      /\ "list" \in Words[call[c].op] => call[c].op = "allow"
      /\ "register" \in Words[call[c].op] => call[c].op = "register"
      /\ "retire" \in Words[call[c].op] => call[c].op = "retire"
      /\ "switch" \in Words[call[c].op] => call[c].op = "mtls"
  BY <1>2, CallOf
<1> QED
  BY <1>1, <1>2, <1>3 DEF ArgOK

LEMMA NameInv ==
  ASSUME IInv, NEW c \in Made, Name(c) \/ SetActive(c) \/ List(c) \/ Switch(c)
  PROVE  IInv'
<1>1. CASE Name(c)
  BY <1>1, ChangeInv, Tables DEF Name, Others, IInv
<1>2. CASE SetActive(c)
  <2> DEFINE u == call[c].on
             v == IF call[c].arg[1] THEN "active" ELSE "inactive"
  <2>1. At(c, "active") /\ u \in User
    BY <1>2, AtFacts DEF SetActive, IInv
  <2>2. user' = [user EXCEPT ![u].state = v] /\ v \in {"active", "inactive"}
    BY <1>2 DEF SetActive
  <2>3. user' \in [User -> Account]
        /\ \A w \in User : user'[w].failed = user[w].failed
                           /\ user'[w].until = user[w].until
    <3> HIDE DEF u, v
    <3> QED
      BY <2>1, <2>2, Tables DEF IInv, Account
  <2> QED
    BY <1>2, <2>1, <2>3, ChangeInv, Tables DEF SetActive, Others, IInv
<1>3. CASE List(c)
  <2>1. At(c, "list") /\ call[c].arg \in Net
    BY <1>3, ArgFacts DEF List
  <2>2. allow' \subseteq [id : Made, net : Net]
    BY <1>3, <2>1, Tables DEF List, IInv
  <2> QED
    BY <1>3, <2>1, <2>2, ChangeInv, Tables DEF List, Others, IInv
<1>4. CASE Switch(c)
  <2>1. At(c, "switch") /\ mtls' \in BOOLEAN
    BY <1>4, ArgFacts DEF Switch
  <2> QED
    BY <1>4, <2>1, ChangeInv, Tables DEF Switch, Others, IInv
<1> QED
  BY <1>1, <1>2, <1>3, <1>4

\* A statement that refuses the call changes nothing.
LEMMA RefusedInv ==
  ASSUME IInv, NEW c, NEW s, At(c, s), Stop(c, "refused"),
         s \in Once \cup {"wrong", "forbid", "insert", "grant"},
         UNCHANGED <<user, grant, live, allow, cert, mtls, server, audit, past,
                     mix, now, faults>>
  PROVE  IInv'
<1>1. c \in Running /\ Head(call[c].todo) = s
  BY AtFacts DEF IInv
<1>2. Moved(c)
  BY <1>1, StopFacts DEF IInv, Finished
<1>3. UntouchedInv' /\ ChangesAreAudited'
  BY <1>1, AuditStopped
<1> QED
  BY <1>1, <1>2, <1>3, QuietInv, Tables DEF IInv

LEMMA InsertInv ==
  ASSUME IInv, NEW c \in Made, Insert(c) \/ Unlist(c) \/ Register(c)
  PROVE  IInv'
<1>1. CASE Insert(c)
  <2> DEFINE u == call[c].on
  <2>1. At(c, "insert") /\ u \in User
    BY <1>1, AtFacts DEF Insert, IInv
  <2>2. CASE user[u].state # "absent"
    BY <1>1, <2>1, <2>2, RefusedInv DEF Insert, Others
  <2>3. CASE user[u].state = "absent"
    <3>1. user' = [user EXCEPT ![u].state = "active"]
      BY <1>1, <2>3 DEF Insert
    <3>2. user' \in [User -> Account]
          /\ \A w \in User : user'[w].failed = user[w].failed
                             /\ user'[w].until = user[w].until
      <4> HIDE DEF u
      <4> QED
        BY <2>1, <3>1, Tables DEF IInv, Account
    <3> QED
      BY <1>1, <2>1, <2>3, <3>2, ChangeInv, Tables DEF Insert, Others, IInv
  <2> QED
    BY <2>2, <2>3
<1>2. CASE Unlist(c)
  <2>1. At(c, "unlist")
    BY <1>2 DEF Unlist
  <2>2. CASE call[c].arg \notin allow
    BY <1>2, <2>1, <2>2, RefusedInv DEF Unlist, Others, Once
  <2>3. CASE call[c].arg \in allow
    <3>1. allow' \subseteq [id : Made, net : Net]
      BY <1>2, <2>3, Tables DEF Unlist, IInv
    <3> QED
      BY <1>2, <2>1, <2>3, <3>1, ChangeInv, Tables DEF Unlist, Others, IInv
  <2> QED
    BY <2>2, <2>3
<1>3. CASE Register(c)
  <2> DEFINE k == call[c].arg
  <2>1. At(c, "register") /\ k \in Cert
    BY <1>3, ArgFacts DEF Register
  <2>2. CASE cert[k] # "none"
    BY <1>3, <2>1, <2>2, RefusedInv DEF Register, Others, Once
  <2>3. CASE cert[k] = "none"
    <3>1. cert' = [cert EXCEPT ![k] = "active"]
      BY <1>3, <2>3 DEF Register
    <3>2. /\ cert' \in [Cert -> {"none", "active", "revoked"}]
          /\ \A j \in Cert : cert[j] = "active" => cert'[j] = "active"
      <4> HIDE DEF k
      <4> QED
        BY <2>1, <3>1, Tables DEF IInv
    <3> QED
      BY <1>3, <2>1, <2>3, <3>2, ChangeInv, Tables DEF Register, Others, IInv
  <2> QED
    BY <2>2, <2>3
<1> QED
  BY <1>1, <1>2, <1>3

\* A certificate that is revoked is remembered until the pins are read again.
LEMMA RetireInv ==
  ASSUME IInv, NEW c \in Made, Retire(c)
  PROVE  IInv'
<1> DEFINE k == call[c].arg
<1>1. At(c, "retire") /\ k \in Cert
  BY ArgFacts DEF Retire
<1>2. CASE cert[k] # "active"
  BY <1>1, <1>2, RefusedInv DEF Retire, Others, Once
<1>3. CASE cert[k] = "active"
  <2>1. /\ cert' = [cert EXCEPT ![k] = "revoked"]
        /\ past' = [Changed(c) EXCEPT !.retired = @ \cup {k}]
        /\ Ran(c)
        /\ UNCHANGED <<user, grant, live, allow, mtls, server, audit, mix, now, faults>>
    BY <1>3 DEF Retire, Others
  <2>2. c \in Running /\ Went(c) /\ Moved(c) /\ Made' = Made
    BY <1>1, <2>1, AtFacts, RanFacts DEF IInv, Went, Moved
  <2> HIDE DEF k
  <2>3. /\ PastOK' /\ past'.changed = past.changed \cup {c}
        /\ past'.tries = past.tries /\ past'.asked = past.asked
        /\ past'.mixed = past.mixed /\ past'.retired = past.retired \cup {k}
        /\ past'.older = past.older
    BY <1>1, <2>1, <2>2 DEF IInv, PastOK, Changed
  <2>4. cert' \in [Cert -> {"none", "active", "revoked"}]
        /\ Active \subseteq Active' \cup {k}
    BY <1>1, <2>1, Tables DEF IInv, Active
  <2>5. PinInv'
    BY <2>1, <2>3, <2>4 DEF IInv, PinInv, PinsAgeOnce
  <2>6. LockInv'
    BY <2>1, <2>2, <2>3, LocksKept DEF IInv
  <2>7. RolesReplaced'
    BY <2>1, <2>3, RolesKept DEF IInv
  <2>8. UntouchedInv' /\ ChangesAreAudited'
    BY <1>1, <2>1, <2>2, <2>3, AuditRan
  <2> QED
    BY <2>1, <2>2, <2>3, <2>4, <2>5, <2>6, <2>7, <2>8, StepInv, Tables DEF IInv
<1> QED
  BY <1>2, <1>3

\* Forgetting the failures of an account forgets them all.
LEMMA ClearInv ==
  ASSUME IInv, NEW c \in Made, Clear(c)
  PROVE  IInv'
<1> DEFINE u == call[c].on
           more == IF call[c].op = "login" THEN past.changed ELSE past.changed \cup {c}
           left == {t \in past.tries : t.user # u}
<1>1. PICK s \in {"right", "unlock", "hash"} : At(c, s)
  BY DEF Clear
<1>2. /\ user' = [user EXCEPT ![u] = Cleared(user[u])]
      /\ past' = [past EXCEPT !.tries = left, !.changed = more]
      /\ Ran(c)
      /\ UNCHANGED <<grant, live, allow, cert, mtls, server, audit, mix, now, faults>>
  BY DEF Clear, Others
<1>3. c \in Running /\ u \in User
  BY <1>1, AtFacts DEF IInv
<1>4. Went(c) /\ Moved(c) /\ Made' = Made
  BY <1>2, <1>3, RanFacts DEF IInv, Went, Moved
<1>5. more \in {past.changed, past.changed \cup {c}} /\ left \subseteq past.tries
      /\ \A t \in left : t.user # u
  OBVIOUS
<1> HIDE DEF u, more, left
<1>6. user[u] \in Account /\ Cleared(user[u]) \in Account
  BY <1>3, Tables DEF IInv, Account, Cleared
<1>7. /\ user' \in [User -> Account]
      /\ \A w \in User \ {u} : user'[w] = user[w]
  BY <1>2, <1>3, <1>6, Tables DEF IInv
<1>8. /\ PastOK' /\ past'.changed = more
      /\ past'.tries = left /\ past'.asked = past.asked
      /\ past'.mixed = past.mixed /\ past'.retired = past.retired
      /\ past'.older = past.older
  BY <1>2, <1>4, <1>5 DEF IInv, PastOK
<1>9. \A t \in left : t.user \in User \ {u}
  BY <1>5 DEF IInv, PastOK, Try
<1>10. LockInv'
  BY <1>2, <1>3, <1>4, <1>5, <1>7, <1>8, <1>9, LocksKept DEF IInv
<1>11. RolesReplaced' /\ PinInv'
  BY <1>2, <1>8, RolesKept, PinsKept DEF IInv
<1>12. UntouchedInv' /\ ChangesAreAudited'
  BY <1>1, <1>2, <1>4, <1>5, <1>8, AuditRan
<1> QED
  BY <1>2, <1>3, <1>4, <1>7, <1>8, <1>10, <1>11, <1>12, StepInv, Tables DEF IInv

\* The roles that a call grants are those that it asks for.
LEMMA GivenFacts ==
  ASSUME NEW c \in Nat, call[c].arg \in SUBSET Role
  PROVE  /\ Given(c) \in SUBSET Tuple
         /\ {t.role : t \in Given(c)} = call[c].arg
<1> DEFINE want == call[c].arg
           T(r) == [role |-> r, by |-> c]
<1>1. \A r \in want : T(r).role = r /\ T(r) \in Tuple
  BY DEF Tuple
<1>2. Given(c) = {T(r) : r \in want}
  BY DEF Given
<1> HIDE DEF T, want
<1>3. {t.role : t \in Given(c)} = want
  BY <1>1, <1>2
<1>4. Given(c) \in SUBSET Tuple
  BY <1>1, <1>2
<1> QED
  BY <1>3, <1>4 DEF want

LEMMA GrantInv ==
  ASSUME IInv, NEW c \in Made, Grant(c)
  PROVE  IInv'
<1> DEFINE u == call[c].on
           want == call[c].arg
           mixed == IF grant[u] = {} THEN past.mixed ELSE past.mixed \cup {u}
<1>1. At(c, "grant") /\ want \in SUBSET Role
  BY ArgFacts DEF Grant
<1>2. c \in Running /\ u \in User /\ c \in Nat
  BY <1>1, AtFacts, RunningFacts DEF IInv
<1>3. CASE Names(u) \cap want # {}
  BY <1>1, <1>3, RefusedInv DEF Grant, Others
<1>4. CASE Names(u) \cap want = {}
  <2>1. /\ grant' = [grant EXCEPT ![u] = grant[u] \cup Given(c)]
        /\ past' = [past EXCEPT !.asked[u] = want, !.mixed = mixed]
        /\ Ran(c)
        /\ UNCHANGED <<user, live, allow, cert, mtls, server, audit, mix, now, faults>>
    BY <1>4 DEF Grant, Others
  <2>2. Went(c) /\ Moved(c) /\ Made' = Made
    BY <1>2, <2>1, RanFacts DEF IInv, Went, Moved
  <2>3. /\ Given(c) \in SUBSET Tuple
        /\ {t.role : t \in Given(c)} = want
    BY <1>1, <1>2, GivenFacts
  <2>4. /\ mixed \in SUBSET User /\ past.mixed \subseteq mixed
        /\ u \notin mixed => grant[u] = {}
    BY <1>2 DEF IInv, PastOK
  <2> HIDE DEF u, want, mixed
  <2>5. /\ PastOK' /\ past'.changed = past.changed
        /\ past'.tries = past.tries /\ past'.mixed = mixed
        /\ past'.retired = past.retired /\ past'.older = past.older
        /\ past'.asked = [past.asked EXCEPT ![u] = want]
        /\ past.asked \in [User -> SUBSET Role]
    BY <1>1, <1>2, <2>1, <2>2, <2>4 DEF IInv, PastOK
  <2>6. grant' \in [User -> SUBSET Tuple]
    BY <1>2, <2>1, <2>3, Tables DEF IInv
  <2>7. RolesReplaced'
    <3> SUFFICES ASSUME NEW w \in User, w \notin past'.mixed
                 PROVE  {t.role : t \in grant'[w]} = past'.asked[w]
      BY DEF RolesReplaced, Names
    <3>1. CASE w = u
      <4>1. grant[u] = {} /\ past'.asked[u] = want
        BY <1>2, <2>4, <2>5, <3>1
      <4>2. grant'[u] = Given(c)
        BY <1>2, <2>1, <4>1, Tables DEF IInv
      <4> QED
        BY <2>3, <3>1, <4>1, <4>2
    <3>2. CASE w # u
      <4>1. grant'[w] = grant[w] /\ past'.asked[w] = past.asked[w]
            /\ w \notin past.mixed
        BY <1>2, <2>1, <2>4, <2>5, <3>2, Tables DEF IInv
      <4> QED
        BY <4>1 DEF IInv, RolesReplaced, Names
    <3> QED
      BY <3>1, <3>2
  <2>8. LockInv' /\ PinInv'
    BY <1>2, <2>1, <2>2, <2>5, LocksKept, PinsKept DEF IInv
  <2>9. UntouchedInv' /\ ChangesAreAudited'
    BY <1>1, <2>1, <2>2, <2>5, AuditRan
  <2> QED
    BY <1>2, <2>1, <2>2, <2>5, <2>6, <2>7, <2>8, <2>9, StepInv, Tables DEF IInv
<1> QED
  BY <1>3, <1>4

LEMMA ReplaceInv ==
  ASSUME IInv, NEW c \in Made, Replace(c)
  PROVE  IInv'
<1> DEFINE u == call[c].on
           want == call[c].arg
           mixed == IF grant[u] = call[c].seen THEN past.mixed \ {u}
                    ELSE past.mixed \cup {u}
<1>1. At(c, "replace") /\ want \in SUBSET Role
  BY ArgFacts DEF Replace
<1>2. c \in Running /\ u \in User /\ c \in Nat
  BY <1>1, AtFacts, RunningFacts DEF IInv
<1>3. CASE user[u].state = "absent" /\ want # {}
  BY <1>1, <1>3, RefusedInv DEF Replace, Others, Once
<1>4. CASE ~(user[u].state = "absent" /\ want # {})
  <2>1. /\ grant' = [grant EXCEPT ![u] = NewRoles(c)]
        /\ past' = [Changed(c) EXCEPT !.asked[u] = want, !.mixed = mixed]
        /\ Ran(c)
        /\ UNCHANGED <<user, live, allow, cert, mtls, server, audit, mix, now, faults>>
    <3>1. Changed(c).mixed = past.mixed
      BY DEF Changed, IInv, PastOK
    <3> QED
      BY <1>4, <3>1 DEF Replace, Others
  <2>2. Went(c) /\ Moved(c) /\ Made' = Made
    BY <1>2, <2>1, RanFacts DEF IInv, Went, Moved
  <2>3. /\ Given(c) \in SUBSET Tuple
        /\ {t.role : t \in Given(c)} = want
    BY <1>1, <1>2, GivenFacts
  <2>4. /\ mixed \in SUBSET User /\ past.mixed \subseteq mixed \cup {u}
        /\ u \notin mixed => grant[u] = call[c].seen
    BY <1>2 DEF IInv, PastOK
  <2>5. /\ NewRoles(c) \in SUBSET Tuple
        /\ grant[u] = call[c].seen => NewRoles(c) = Given(c)
    BY <1>2, <2>3, Tables DEF IInv, NewRoles
  <2> HIDE DEF u, want, mixed
  <2>6. /\ PastOK' /\ past'.changed = past.changed \cup {c}
        /\ past'.tries = past.tries /\ past'.mixed = mixed
        /\ past'.retired = past.retired /\ past'.older = past.older
        /\ past'.asked = [past.asked EXCEPT ![u] = want]
        /\ past.asked \in [User -> SUBSET Role]
    BY <1>1, <1>2, <2>1, <2>2, <2>4 DEF IInv, PastOK, Changed
  <2>7. grant' \in [User -> SUBSET Tuple]
    BY <1>2, <2>1, <2>5, Tables DEF IInv
  <2>8. RolesReplaced'
    <3> SUFFICES ASSUME NEW w \in User, w \notin past'.mixed
                 PROVE  {t.role : t \in grant'[w]} = past'.asked[w]
      BY DEF RolesReplaced, Names
    <3>1. CASE w = u
      <4>1. NewRoles(c) = Given(c) /\ past'.asked[u] = want
        BY <1>2, <2>4, <2>5, <2>6, <3>1
      <4>2. grant'[u] = Given(c)
        BY <1>2, <2>1, <4>1, Tables DEF IInv
      <4> QED
        BY <2>3, <3>1, <4>1, <4>2
    <3>2. CASE w # u
      <4>1. grant'[w] = grant[w] /\ past'.asked[w] = past.asked[w]
            /\ w \notin past.mixed
        BY <1>2, <2>1, <2>4, <2>6, <3>2, Tables DEF IInv
      <4> QED
        BY <4>1 DEF IInv, RolesReplaced, Names
    <3> QED
      BY <3>1, <3>2
  <2>9. LockInv' /\ PinInv'
    BY <1>2, <2>1, <2>2, <2>6, LocksKept, PinsKept DEF IInv
  <2>10. UntouchedInv' /\ ChangesAreAudited'
    BY <1>1, <2>1, <2>2, <2>6, AuditRan
  <2> QED
    BY <1>2, <2>1, <2>2, <2>6, <2>7, <2>8, <2>9, <2>10, StepInv, Tables DEF IInv
<1> QED
  BY <1>3, <1>4

\* A failure is apart from those that had locked the account.
LEMMA WrongInv ==
  ASSUME IInv, NEW c \in Made, Wrong(c)
  PROVE  IInv'
<1> DEFINE u == call[c].on
           row == user[u]
           n == row.failed + 1
           start == call[c].start
           t == [user |-> u, start |-> start, nth |-> n, end |-> now]
           until == IF n >= Threshold THEN now + LockTime ELSE row.until
<1>1. At(c, "wrong") /\ Stop(c, "refused")
  BY DEF Wrong
<1>2. /\ c \in Running /\ u \in User /\ call[c].op = "guess"
      /\ start \in Nat /\ start <= now /\ Head(call[c].todo) = "wrong"
  BY <1>1, AtFacts, RunningFacts, CallOf DEF IInv, Flying
<1>3. row \in Account /\ now \in Nat /\ row.failed \in Nat /\ row.until \in Nat
      /\ n \in Nat /\ until \in Nat /\ Threshold \in Nat \ {0} /\ LockTime \in Nat \ {0}
  <2>1. now \in Nat
    BY BoundAssumption DEF IInv, TypeOK
  <2>2. row \in Account
    BY <1>2, Tables DEF IInv
  <2>3. row.failed \in Nat /\ row.until \in Nat
    BY <2>2 DEF Account
  <2> HIDE DEF row
  <2> QED
    BY <2>1, <2>2, <2>3, LockAssumption
<1>4. /\ user' = [user EXCEPT ![u] = Failed(row)]
      /\ past' = [past EXCEPT !.tries = past.tries \cup {t}]
      /\ UNCHANGED <<grant, live, allow, cert, mtls, server, audit, mix, now, faults>>
  BY DEF Wrong, Others
<1>5. Failed(row) \in Account /\ Failed(row).failed = n /\ Failed(row).until = until
  <2>1. Failed(row) = [row EXCEPT !.failed = n, !.until = until]
    BY <1>3 DEF Failed, Account
  <2> HIDE DEF row, n, until
  <2> QED
    BY <1>3, <2>1 DEF Account
<1>6. t \in Try /\ t.user = u /\ t.start = start /\ t.nth = n /\ t.end = now
  BY <1>2, <1>3 DEF Try
<1>7. Moved(c) /\ call'[c].result = "refused"
  BY <1>1, <1>2, StopFacts DEF IInv, Finished
<1> HIDE DEF u, row, n, start, t, until
<1>8. /\ user' \in [User -> Account]
      /\ user'[u].failed = n /\ user'[u].until = until
      /\ \A w \in User \ {u} : user'[w] = user[w]
  BY <1>2, <1>4, <1>5, Tables DEF IInv
<1>9. /\ PastOK' /\ past'.changed = past.changed
      /\ past'.tries = past.tries \cup {t} /\ past'.asked = past.asked
      /\ past'.mixed = past.mixed /\ past'.retired = past.retired
      /\ past'.older = past.older
  BY <1>4, <1>6, <1>7 DEF IInv, PastOK, Moved
<1>10. \A s \in past.tries : /\ s.user \in User /\ s.nth \in Nat /\ s.end \in Nat
                             /\ s.start \in Nat /\ s.end <= now
                             /\ s.nth <= user[s.user].failed
                             /\ s.nth >= Threshold =>
                                   user[s.user].until >= s.end + LockTime
  BY DEF IInv, PastOK, Try, LockInv
<1>11. \A s \in past.tries : s.user = u => s.nth < n
  BY <1>3, <1>10 DEF n, row
<1>12. \A s \in past.tries : s.user = u /\ s.nth >= Threshold => Apart(s, start)
  BY <1>2 DEF IInv, LockInv, u, start
<1>13. LockInv'
  <2>1. \A s \in past'.tries :
           /\ s.nth <= user'[s.user].failed /\ s.end <= now'
           /\ s.nth >= Threshold => user'[s.user].until >= s.end + LockTime
    <3> SUFFICES ASSUME NEW s \in past'.tries
                 PROVE  /\ s.nth <= user'[s.user].failed /\ s.end <= now'
                        /\ s.nth >= Threshold =>
                              user'[s.user].until >= s.end + LockTime
      OBVIOUS
    <3>1. CASE s = t
      BY <1>3, <1>4, <1>6, <1>8, <3>1 DEF until
    <3>2. CASE s # t /\ s.user # u
      BY <1>4, <1>8, <1>9, <1>10, <3>2
    <3>3. CASE s # t /\ s.user = u
      <4>1. /\ s.nth \in Nat /\ s.end \in Nat /\ s.end <= now /\ s.nth < n
            /\ s.nth >= Threshold => row.until >= s.end + LockTime
        BY <1>9, <1>10, <1>11, <3>3 DEF row
      <4>2. s.nth <= n
        BY <1>3, <4>1
      <4>3. s.nth >= Threshold => until >= s.end + LockTime
        BY <1>3, <4>1 DEF until
      <4> QED
        BY <1>4, <1>8, <3>3, <4>1, <4>2, <4>3
    <3> QED
      BY <3>1, <3>2, <3>3
  <2>2. \A d \in Running', s \in past'.tries :
           call'[d].op = "guess" /\ call'[d].on = s.user /\ s.nth >= Threshold =>
              Apart(s, call'[d].start)
    <3> SUFFICES ASSUME NEW d \in Running', NEW s \in past'.tries,
                        call'[d].op = "guess", call'[d].on = s.user,
                        s.nth >= Threshold
                 PROVE  Apart(s, call'[d].start)
      OBVIOUS
    <3>1. d \in Made /\ call'[d].result = "running" /\ d # c
      BY <1>7 DEF Running, Moved
    <3>2. d \in Running /\ call'[d] = call[d]
      BY <1>7, <3>1 DEF Moved, Running
    <3>3. call[d].start \in Nat /\ call[d].start <= now
      BY <3>2, RunningFacts DEF IInv, Flying
    <3>4. CASE s = t
      BY <1>6, <3>2, <3>3, <3>4 DEF Apart
    <3>5. CASE s \in past.tries
      BY <3>2, <3>5 DEF IInv, LockInv
    <3> QED
      BY <1>9, <3>4, <3>5
  <2>3. LockHolds'
    <3> SUFFICES ASSUME NEW s \in past'.tries, NEW r \in past'.tries,
                        s.user = r.user, s.nth >= Threshold, r.nth > s.nth
                 PROVE  r.start <= s.end \/ r.start >= s.end + LockTime
      BY DEF LockHolds
    <3>1. CASE s \in past.tries /\ r \in past.tries
      BY <3>1 DEF IInv, LockInv, LockHolds
    <3>2. CASE s \in past.tries /\ r = t
      BY <1>6, <1>12, <3>2 DEF Apart
    <3>3. CASE s = t /\ r \in past.tries
      <4>1. r.nth < n /\ r.nth \in Nat
        BY <1>6, <1>10, <1>11, <3>3
      <4>2. r.nth > n
        BY <1>6, <3>3
      <4> QED
        BY <1>3, <4>1, <4>2
    <3>4. CASE s = t /\ r = t
      BY <1>3, <1>6, <3>4
    <3> QED
      BY <1>9, <3>1, <3>2, <3>3, <3>4
  <2> QED
    BY <2>1, <2>2, <2>3 DEF LockInv, Apart
<1>14. RolesReplaced' /\ PinInv'
  BY <1>4, <1>9, RolesKept, PinsKept DEF IInv
<1>15. UntouchedInv' /\ ChangesAreAudited'
  BY <1>1, <1>2, <1>4, <1>9, AuditStopped
<1> QED
  BY <1>2, <1>4, <1>7, <1>8, <1>9, <1>13, <1>14, <1>15, StepInv, Tables DEF IInv

-----------------------------------------------------------------------------
(* Arrivals *)

\* Lists of two and of three statements, and one put together.
LEMMA ListTwo ==
  ASSUME NEW op \in Ops, op # "guess", NEW x \in Words[op], "audit" \in Words[op],
         NEW f, f.op = op, f.todo = <<x, "audit">>
  PROVE  Listed(f)
<1> DEFINE s == <<x, "audit">>
<1>1. /\ s \in Seq(Words[op]) /\ s # <<>> /\ Len(s) = 2
      /\ s[1] = x /\ s[2] = "audit" /\ DOMAIN s = {1, 2}
  <2>1. s \in Seq(Words[op]) /\ s # <<>> /\ Len(s) = 2
    OBVIOUS
  <2>2. s[1] = x /\ s[2] = "audit"
    OBVIOUS
  <2>3. DOMAIN s = 1 .. 2 /\ 1 .. 2 = {1, 2}
    OBVIOUS
  <2> QED
    BY <2>1, <2>2, <2>3
<1> HIDE DEF s
<1>2. \A i \in DOMAIN s : s[i] \in Once => i + 1 = Len(s)
  BY <1>1 DEF Once
<1>3. f.todo = s
  BY DEF s
<1> HIDE DEF Ops
<1> QED
  BY <1>1, <1>2, <1>3 DEF Listed

LEMMA ListThree ==
  ASSUME NEW op \in Ops, op # "guess", NEW x \in Words[op], NEW y \in Words[op],
         "audit" \in Words[op], x \notin Once,
         NEW f, f.op = op, f.todo = <<x, y, "audit">>
  PROVE  Listed(f)
<1> DEFINE s == <<x, y, "audit">>
<1>1. /\ s \in Seq(Words[op]) /\ s # <<>> /\ Len(s) = 3
      /\ s[1] = x /\ s[2] = y /\ s[3] = "audit" /\ DOMAIN s = {1, 2, 3}
  <2>1. s \in Seq(Words[op]) /\ s # <<>> /\ Len(s) = 3
    <3> DEFINE W == Words[op]
    <3>1. x \in W /\ y \in W /\ "audit" \in W
      OBVIOUS
    <3> HIDE DEF W
    <3>2. s \in Seq(W)
      BY <3>1
    <3>3. s # <<>> /\ Len(s) = 3
      OBVIOUS
    <3> QED
      BY <3>2, <3>3 DEF W
  <2>2. s[1] = x /\ s[2] = y /\ s[3] = "audit"
    OBVIOUS
  <2>3. DOMAIN s = 1 .. 3 /\ 1 .. 3 = {1, 2, 3}
    OBVIOUS
  <2> QED
    BY <2>1, <2>2, <2>3
<1> HIDE DEF s
<1>2. \A i \in DOMAIN s : s[i] \in Once => i + 1 = Len(s)
  BY <1>1 DEF Once
<1>3. f.todo = s
  BY DEF s
<1> HIDE DEF Ops
<1> QED
  BY <1>1, <1>2, <1>3 DEF Listed

LEMMA ListEnds ==
  ASSUME NEW op \in Ops, op # "guess", op \notin OnceOps,
         NEW a \in Seq(Words[op]), NEW b \in Seq(Words[op]), "audit" \in Words[op],
         NEW f, f.op = op, f.todo = a \o b \o <<"audit">>
  PROVE  Listed(f)
<1> DEFINE s == a \o b \o <<"audit">>
           W == Words[op]
<1> HIDE DEF W
<1>1. a \in Seq(W) /\ b \in Seq(W) /\ "audit" \in W
  BY DEF W
<1>2. s \in Seq(W) /\ s # <<>> /\ s[Len(s)] = "audit"
  BY <1>1
<1>3. f.todo = s
  OBVIOUS
<1> HIDE DEF s, Ops, OnceOps
<1> QED
  BY <1>2, <1>3 DEF Listed, W

\* A call that arrives while the account is not locked is apart from all
\* failures that had locked it.
LEMMA ArriveInv ==
  ASSUME IInv, NEW op \in Ops, NEW by, NEW on \in User, NEW arg, NEW todo,
         Arrive(op, by, on, arg, todo), Listed(New(op, by, on, arg, todo)),
         ArgOK(New(op, by, on, arg, todo)), op = "guess" => ~Locked(on)
  PROVE  IInv'
<1> DEFINE e == New(op, by, on, arg, todo)
           n == Len(call) + 1
<1>1. /\ call' = Append(call, e)
      /\ Len(call) < mix.calls
      /\ UNCHANGED <<user, grant, live, allow, cert, mtls, server, audit, past,
                     mix, now, faults>>
  BY DEF Arrive, New
<1>2. /\ DOMAIN e = Fields /\ e.op = op /\ e.on = on /\ e.start = now
      /\ e.result = "running" /\ e.todo = todo
  BY DEF New, Fields
<1>3. now \in Nat /\ mix.calls \in Nat
  BY BoundAssumption DEF IInv, TypeOK
<1>4. e.todo \in Seq(Statement)
  <2>1. e.todo \in Seq(Words[op]) /\ Words[op] \subseteq Statement
    BY <1>2, CallOf DEF Listed
  <2> QED
    BY <2>1
<1>5. Flying(e)
  BY <1>2, <1>3 DEF Flying
<1> HIDE DEF e
<1>6. /\ Len(call') = n /\ Made' = 1 .. n /\ Made' = Made \cup {n} /\ n \notin Made
      /\ n \in Nat /\ n <= mix.calls
      /\ call'[n] = e /\ \A d \in Made : call'[d] = call[d]
  BY <1>1, <1>3 DEF IInv, TypeOK, CallInv, Made
<1> HIDE DEF n
<1>7. CallInv'
  <2>1. ASSUME NEW d \in Made'
        PROVE  /\ call'[d].op \in Ops
               /\ call'[d].result = "running" =>
                     Flying(call'[d]) /\ call'[d].start <= now
    <3>1. CASE d = n
      BY <1>2, <1>3, <1>5, <1>6, <3>1
    <3>2. CASE d \in Made
      BY <1>6, <3>2 DEF IInv, CallInv
    <3> QED
      BY <1>6, <3>1, <3>2
  <2> HIDE DEF Ops
  <2> QED
    BY <1>1, <1>6, <2>1 DEF CallInv, Flying, Listed, ArgOK
<1>8. TypeOK'
  <2>1. \A d \in Made' : call'[d].todo \in Seq(Statement)
                         /\ call'[d].result \in {"running"} \cup Finished
    BY <1>2, <1>4, <1>6 DEF IInv, TypeOK
  <2>2. Made' = 1 .. Len(call') /\ Len(call') <= mix'.calls
    BY <1>1, <1>6
  <2>3. /\ allow' \subseteq [id : Made', net : Net] /\ audit' \subseteq Made'
    BY <1>1, <1>6, Tables DEF IInv
  <2> QED
    BY <1>1, <2>1, <2>2, <2>3 DEF IInv, TypeOK
<1>9. PastOK'
  BY <1>1, <1>6, PastSame DEF IInv
<1>10. LockInv'
  <2>1. \A d \in Running', s \in past'.tries :
           call'[d].op = "guess" /\ call'[d].on = s.user /\ s.nth >= Threshold =>
              Apart(s, call'[d].start)
    <3> SUFFICES ASSUME NEW d \in Running', NEW s \in past.tries,
                        call'[d].op = "guess", call'[d].on = s.user,
                        s.nth >= Threshold
                 PROVE  Apart(s, call'[d].start)
      BY <1>1
    <3>1. CASE d \in Made
      BY <1>6, <3>1 DEF IInv, LockInv, Running
    <3>2. CASE d = n
      <4>1. op = "guess" /\ s.user = on /\ call'[d].start = now
        BY <1>2, <1>6, <3>2
      <4>2. ~(user[on].until > now) /\ user[on].until >= s.end + LockTime
        BY <4>1 DEF Locked, IInv, LockInv
      <4>3. user[on].until \in Nat /\ s.end \in Nat
        BY Tables DEF IInv, PastOK, Try, Account
      <4> DEFINE v == user[on].until
      <4>4. v <= now /\ v >= s.end + LockTime /\ v \in Nat
        <5> HIDE DEF v
        <5>1. v \in Nat /\ ~(v > now) /\ v >= s.end + LockTime
          BY <4>2, <4>3 DEF v
        <5> QED
          BY <1>3, <5>1
      <4> HIDE DEF v
      <4> QED
        BY <1>3, <4>1, <4>3, <4>4, LockAssumption DEF Apart
    <3> QED
      BY <1>6, <3>1, <3>2 DEF Running
  <2>2. LockHolds'
    BY <1>1 DEF IInv, LockInv, LockHolds
  <2> QED
    BY <1>1, <2>1, <2>2 DEF IInv, LockInv, Apart
<1>11. RolesReplaced' /\ PinInv'
  BY <1>1, RolesKept, PinsKept DEF IInv
<1>12. UntouchedInv'
  <2>1. past.changed \subseteq Made
    BY DEF IInv, PastOK
  <2> QED
    BY <1>1, <1>6, <2>1 DEF IInv, UntouchedInv
<1>13. ChangesAreAudited'
  <2>1. past.changed \subseteq Made
    BY DEF IInv, PastOK
  <2> QED
    BY <1>1, <1>2, <1>6, <2>1 DEF IInv, ChangesAreAudited
<1> QED
  BY <1>7, <1>8, <1>9, <1>10, <1>11, <1>12, <1>13 DEF IInv

\* Every call arrives with such a list.
LEMMA Arrivals ==
  ASSUME IInv,
         \/ Login \/ Patch \/ DeleteUser \/ Unlock \/ ResetPassword \/ CreateUser
         \/ AssignRoles \/ Security
  PROVE  IInv'
<1> USE DEF Ops, Words, New, ArgOK, OnceOps, Once
<1>1. CASE Login
  <2> PICK u \in User, right \in BOOLEAN :
         /\ ~Locked(u)
         /\ IF right THEN Arrive("login", u, u, <<>>, <<"right", "issue", "audit">>)
            ELSE Arrive("guess", u, u, <<>>, <<"wrong">>)
    BY <1>1 DEF Login
  <2>1. CASE right
    <3>1. Listed(New("login", u, u, <<>>, <<"right", "issue", "audit">>))
      BY ListThree
    <3> QED
      BY <2>1, <3>1, ArriveInv
  <2>2. CASE ~right
    <3>1. Listed(New("guess", u, u, <<>>, <<"wrong">>))
      BY DEF Listed
    <3> QED
      BY <2>2, <3>1, ArriveInv
  <2> QED
    BY <2>1, <2>2
<1>2. CASE Patch
  <2> PICK u \in User, v \in User, name \in BOOLEAN,
           active \in {<<>>, <<TRUE>>, <<FALSE>>} :
         Arrive("patch", u, v, active,
                (IF name THEN <<"name">> ELSE <<>>)
                \o (IF active = <<>> THEN <<>>
                    ELSE IF ~Manages(u) THEN <<"forbid">>
                    ELSE IF active[1] THEN <<"active">>
                    ELSE <<"active", "revoke">>)
                \o <<"audit">>)
    BY <1>2 DEF Patch
  <2> DEFINE a == IF name THEN <<"name">> ELSE <<>>
             b == IF active = <<>> THEN <<>>
                  ELSE IF ~Manages(u) THEN <<"forbid">>
                  ELSE IF active[1] THEN <<"active">>
                  ELSE <<"active", "revoke">>
             W == Words["patch"]
  <2>1. a \in Seq(W)
    <3>1. <<>> \in Seq(W) /\ <<"name">> \in Seq(W)
      OBVIOUS
    <3> QED
      BY <3>1
  <2>2. b \in Seq(W)
    <3>1. /\ <<>> \in Seq(W) /\ <<"forbid">> \in Seq(W) /\ <<"active">> \in Seq(W)
          /\ <<"active", "revoke">> \in Seq(W)
      OBVIOUS
    <3> HIDE DEF W
    <3> QED
      BY <3>1
  <2> HIDE DEF a, b
  <2>3. Listed(New("patch", u, v, active, a \o b \o <<"audit">>))
    BY <2>1, <2>2, ListEnds
  <2>4. Arrive("patch", u, v, active, a \o b \o <<"audit">>)
    BY DEF a, b
  <2> QED
    BY <2>3, <2>4, ArriveInv
<1>3. CASE DeleteUser
  <2> PICK u \in User, v \in User :
         Arrive("delete", u, v, <<FALSE>>, <<"active", "revoke", "audit">>)
    BY <1>3 DEF DeleteUser
  <2>1. Listed(New("delete", u, v, <<FALSE>>, <<"active", "revoke", "audit">>))
    BY ListThree
  <2> QED
    BY <2>1, ArriveInv
<1>4. CASE Unlock
  <2> PICK u \in User, v \in User :
         Arrive("unlock", u, v, <<>>, <<"unlock", "audit">>)
    BY <1>4 DEF Unlock
  <2>1. Listed(New("unlock", u, v, <<>>, <<"unlock", "audit">>))
    BY ListTwo
  <2> QED
    BY <2>1, ArriveInv
<1>5. CASE ResetPassword
  <2> PICK u \in User, v \in User :
         Arrive("reset", u, v, <<>>, <<"hash", "revoke", "audit">>)
    BY <1>5 DEF ResetPassword
  <2>1. Listed(New("reset", u, v, <<>>, <<"hash", "revoke", "audit">>))
    BY ListThree
  <2> QED
    BY <2>1, ArriveInv
<1>6. CASE CreateUser
  <2> PICK u \in User, v \in User, roles \in SUBSET Role :
         Arrive("create", u, v, roles,
                <<"insert">> \o (IF roles = {} THEN <<>> ELSE <<"grant">>)
                \o <<"audit">>)
    BY <1>6 DEF CreateUser
  <2> DEFINE a == <<"insert">>
             b == IF roles = {} THEN <<>> ELSE <<"grant">>
             W == Words["create"]
  <2>1. a \in Seq(W) /\ b \in Seq(W)
    <3>1. <<>> \in Seq(W) /\ <<"insert">> \in Seq(W) /\ <<"grant">> \in Seq(W)
      OBVIOUS
    <3> QED
      BY <3>1
  <2> HIDE DEF a, b
  <2>2. Listed(New("create", u, v, roles, a \o b \o <<"audit">>))
    BY <2>1, ListEnds
  <2>3. Arrive("create", u, v, roles, a \o b \o <<"audit">>)
    BY DEF a, b
  <2> QED
    BY <2>2, <2>3, ArriveInv
<1>7. CASE AssignRoles
  <2> PICK u \in User, v \in User, roles \in SUBSET Role :
         Arrive("roles", u, v, roles, <<"snapshot", "replace", "audit">>)
    BY <1>7 DEF AssignRoles
  <2>1. Listed(New("roles", u, v, roles, <<"snapshot", "replace", "audit">>))
    BY ListThree
  <2> QED
    BY <2>1, ArriveInv
<1>8. CASE Security
  <2> PICK u \in User :
        \/ \E n \in Net : Arrive("allow", u, u, n, <<"list", "audit">>)
        \/ \E row \in allow : Arrive("unlist", u, u, row, <<"unlist", "audit">>)
        \/ \E k \in Cert :
              \/ Arrive("register", u, u, k, <<"register", "audit">>)
              \/ Arrive("retire", u, u, k, <<"retire", "audit">>)
        \/ \E x \in BOOLEAN : Arrive("mtls", u, u, x, <<"switch", "audit">>)
    BY <1>8 DEF Security
  <2>1. ASSUME NEW n \in Net, Arrive("allow", u, u, n, <<"list", "audit">>)
        PROVE  IInv'
    <3>1. Listed(New("allow", u, u, n, <<"list", "audit">>))
      BY ListTwo
    <3> QED
      BY <2>1, <3>1, ArriveInv
  <2>2. ASSUME NEW row \in allow, Arrive("unlist", u, u, row, <<"unlist", "audit">>)
        PROVE  IInv'
    <3>1. Listed(New("unlist", u, u, row, <<"unlist", "audit">>))
      BY ListTwo
    <3> QED
      BY <2>2, <3>1, ArriveInv
  <2>3. ASSUME NEW k \in Cert, Arrive("register", u, u, k, <<"register", "audit">>)
        PROVE  IInv'
    <3>1. Listed(New("register", u, u, k, <<"register", "audit">>))
      BY ListTwo
    <3> QED
      BY <2>3, <3>1, ArriveInv
  <2>4. ASSUME NEW k \in Cert, Arrive("retire", u, u, k, <<"retire", "audit">>)
        PROVE  IInv'
    <3>1. Listed(New("retire", u, u, k, <<"retire", "audit">>))
      BY ListTwo
    <3> QED
      BY <2>4, <3>1, ArriveInv
  <2>5. ASSUME NEW x \in BOOLEAN, Arrive("mtls", u, u, x, <<"switch", "audit">>)
        PROVE  IInv'
    <3>1. Listed(New("mtls", u, u, x, <<"switch", "audit">>))
      BY ListTwo
    <3> QED
      BY <2>5, <3>1, ArriveInv
  <2> QED
    BY <2>1, <2>2, <2>3, <2>4, <2>5
<1> QED
  BY <1>1, <1>2, <1>3, <1>4, <1>5, <1>6, <1>7, <1>8

-----------------------------------------------------------------------------
(* The process, and time *)

\* What depends on the calls only, when they stay.
LEMMA CallsKept ==
  ASSUME IInv, UNCHANGED <<call, audit>>, past'.changed = past.changed
  PROVE  UntouchedInv' /\ ChangesAreAudited'
  BY DEF IInv, UntouchedInv, ChangesAreAudited, Made

LEMMA PinStepsInv ==
  ASSUME IInv, LoadPins \/ SwapPins \/ LoadFails
  PROVE  IInv'
<1>1. /\ UNCHANGED <<user, grant, live, allow, cert, mtls, call, audit, mix, now>>
      /\ faults' \in 0 .. mix.faults
  BY BoundAssumption DEF LoadPins, SwapPins, LoadFails, Others, IInv, TypeOK
<1>2. Active \in SUBSET Cert /\ Made' = Made
  BY <1>1 DEF Active, Made
<1>3. /\ server \in [mode : BOOLEAN, pins : SUBSET Cert,
                     read : {<<>>} \cup {<<s>> : s \in SUBSET Cert}]
      /\ past.retired \in SUBSET Cert /\ past.older \in SUBSET Cert
  BY DEF IInv, TypeOK, PastOK
<1>4. /\ server' \in [mode : BOOLEAN, pins : SUBSET Cert,
                      read : {<<>>} \cup {<<s>> : s \in SUBSET Cert}]
      /\ PastOK' /\ PinInv'
      /\ past'.tries = past.tries /\ past'.changed = past.changed
      /\ past'.asked = past.asked /\ past'.mixed = past.mixed
  <2>1. CASE LoadPins
    <3>1. /\ server.read = <<>> /\ server' = [server EXCEPT !.read = <<Active>>]
          /\ past' = [past EXCEPT !.retired = {}, !.older = past.retired]
      BY <2>1 DEF LoadPins
    <3>2. /\ PastOK' /\ past'.tries = past.tries /\ past'.changed = past.changed
          /\ past'.asked = past.asked /\ past'.mixed = past.mixed
          /\ past'.retired = {} /\ past'.older = past.retired
      BY <1>2, <1>3, <3>1 DEF IInv, PastOK
    <3>3. <<Active>> \in {<<s>> : s \in SUBSET Cert} /\ <<Active>> # <<>>
          /\ <<Active>>[1] = Active
      BY <1>2
    <3> DEFINE new == <<Active>>
    <3> HIDE DEF new
    <3>4. /\ server'.read = new /\ server'.pins = server.pins
          /\ server' \in [mode : BOOLEAN, pins : SUBSET Cert,
                          read : {<<>>} \cup {<<s>> : s \in SUBSET Cert}]
      <4>1. new \in {<<>>} \cup {<<s>> : s \in SUBSET Cert}
        BY <3>3 DEF new
      <4>2. server' = [server EXCEPT !.read = new]
        BY <3>1 DEF new
      <4> QED
        BY <1>3, <4>1, <4>2
    <3>5. new # <<>> /\ new[1] = Active
      BY <3>3 DEF new
    <3>6. PinInv'
      <4>1. server.pins \subseteq Active \cup past.retired
        BY <3>1 DEF IInv, PinInv, PinsAgeOnce
      <4>2. Active' = Active
        BY <1>1 DEF Active
      <4> QED
        BY <3>2, <3>4, <3>5, <4>1, <4>2 DEF PinInv, PinsAgeOnce
    <3> QED
      BY <3>2, <3>4, <3>6
  <2>2. CASE SwapPins
    <3> DEFINE pins == server.read[1]
    <3>1. /\ server.read # <<>> /\ past' = past
          /\ server' = [server EXCEPT !.pins = pins, !.read = <<>>]
      BY <2>2 DEF SwapPins, NewPins, Others
    <3>2. pins \in SUBSET Cert
      <4>1. PICK s \in SUBSET Cert : server.read = <<s>>
        BY <1>3, <3>1
      <4> QED
        BY <4>1
    <3>3. pins \subseteq Active \cup past.retired
      BY <3>1 DEF IInv, PinInv
    <3> HIDE DEF pins
    <3>4. /\ server'.read = <<>> /\ server'.pins = pins
          /\ server' \in [mode : BOOLEAN, pins : SUBSET Cert,
                          read : {<<>>} \cup {<<s>> : s \in SUBSET Cert}]
      BY <1>3, <3>1, <3>2
    <3>5. Active' = Active
      BY <1>1 DEF Active
    <3>6. PinInv'
      BY <3>1, <3>3, <3>4, <3>5 DEF PinInv, PinsAgeOnce
    <3>7. PastOK'
      BY <1>2, <3>1, PastSame DEF IInv
    <3> QED
      BY <3>1, <3>4, <3>6, <3>7
  <2>3. CASE LoadFails
    <3>1. server' = server /\ past' = past
      BY <2>3 DEF LoadFails
    <3>2. PastOK' /\ PinInv'
      BY <1>1, <1>2, <3>1, PastSame, PinsKept DEF IInv
    <3> QED
      BY <1>3, <3>1, <3>2
  <2> QED
    BY <2>1, <2>2, <2>3
<1>5. TypeOK'
  BY <1>1, <1>2, <1>4 DEF IInv, TypeOK
<1>6. CallInv'
  BY <1>1 DEF IInv, CallInv, Flying, Listed, ArgOK, Made
<1>7. LockInv'
  BY <1>1, <1>2, <1>4 DEF IInv, LockInv, LockHolds, Apart, Running, Made
<1>8. RolesReplaced'
  BY <1>1, <1>4, RolesKept DEF IInv
<1>9. UntouchedInv' /\ ChangesAreAudited'
  BY <1>1, <1>4, CallsKept
<1> QED
  BY <1>4, <1>5, <1>6, <1>7, <1>8, <1>9 DEF IInv

\* A restart drops what runs and reads the pins anew.
LEMMA RestartInv ==
  ASSUME IInv, Restart
  PROVE  IInv'
<1> DEFINE Ended(c) == IF c \in Running THEN Over(c, "dropped") ELSE call[c]
<1>1. /\ UNCHANGED <<user, grant, live, allow, cert, mtls, audit, mix, now>>
      /\ call' = [c \in Made |-> Ended(c)]
      /\ server' = [mode |-> mtls, pins |-> IF mtls THEN Active ELSE {},
                    read |-> <<>>]
      /\ past' = [past EXCEPT !.retired = {}, !.older = {}]
      /\ faults' \in 0 .. mix.faults
  BY BoundAssumption DEF Restart, IInv, TypeOK
<1>2. \A c \in Made : /\ Ended(c).op = call[c].op
                      /\ Ended(c).todo \in Seq(Statement)
                      /\ Ended(c).result \in {call[c].result, "dropped"} \ {"running"}
                      /\ call[c].result # "running" => Ended(c) = call[c]
  BY DEF Over, Running, IInv, TypeOK
<1> HIDE DEF Ended
<1>3. /\ Len(call') = Len(call) /\ Made' = Made
      /\ \A c \in Made : call'[c] = Ended(c)
  BY <1>1 DEF IInv, TypeOK, CallInv, Made
<1>4. /\ PastOK' /\ past'.tries = past.tries /\ past'.changed = past.changed
      /\ past'.asked = past.asked /\ past'.mixed = past.mixed
      /\ past'.retired = {} /\ past'.older = {}
  BY <1>1, <1>3 DEF IInv, PastOK
<1>5. /\ server' \in [mode : BOOLEAN, pins : SUBSET Cert,
                      read : {<<>>} \cup {<<s>> : s \in SUBSET Cert}]
      /\ server'.read = <<>> /\ server'.pins \subseteq Active
  BY <1>1, Tables DEF IInv, Active
<1>6. TypeOK'
  <2>1. \A c \in Made : call'[c].todo \in Seq(Statement)
                        /\ call'[c].result \in {"running"} \cup Finished
    BY <1>2, <1>3 DEF IInv, TypeOK, Finished
  <2> QED
    BY <1>1, <1>3, <1>5, <2>1 DEF IInv, TypeOK
<1>7. CallInv'
  <2>1. \A c \in Made : call'[c].op \in Ops /\ call'[c].result # "running"
    BY <1>2, <1>3 DEF IInv, CallInv
  <2> HIDE DEF Ops
  <2> QED
    BY <1>1, <1>3, <2>1 DEF IInv, CallInv
<1>8. LockInv'
  <2>1. Running' = {}
    BY <1>2, <1>3 DEF Running
  <2> QED
    BY <1>1, <1>4, <2>1 DEF IInv, LockInv, LockHolds
<1>9. RolesReplaced'
  BY <1>1, <1>4, RolesKept DEF IInv
<1>10. PinInv'
  <2>1. Active' = Active
    BY <1>1 DEF Active
  <2> QED
    BY <1>5, <2>1 DEF PinInv, PinsAgeOnce
<1>11. UntouchedInv' /\ ChangesAreAudited'
  <2>1. past.changed \subseteq Made
    BY DEF IInv, PastOK
  <2> QED
    BY <1>1, <1>2, <1>3, <1>4, <2>1 DEF IInv, UntouchedInv, ChangesAreAudited
<1> QED
  BY <1>4, <1>6, <1>7, <1>8, <1>9, <1>10, <1>11 DEF IInv

LEMMA TickInv ==
  ASSUME IInv, Tick
  PROVE  IInv'
<1>1. /\ UNCHANGED <<user, grant, live, allow, cert, mtls, server, call, audit,
                     past, mix, faults>>
      /\ now \in Nat /\ now' = now + 1 /\ now' \in 0 .. mix.time
  BY BoundAssumption DEF Tick, IInv, TypeOK
<1>2. TypeOK'
  BY <1>1 DEF IInv, TypeOK, Made
<1>3. CallInv'
  <2>1. \A c \in Made : call[c].result = "running" => call[c].start <= now'
    <3>1. \A c \in Made : call[c].result = "running" =>
             call[c].start \in Nat /\ call[c].start <= now
      BY DEF IInv, CallInv, Flying
    <3> QED
      BY <1>1, <3>1
  <2> QED
    BY <1>1, <2>1 DEF IInv, CallInv, Flying, Listed, ArgOK, Made
<1>4. PastOK'
  BY <1>1, PastSame DEF IInv, Made
<1>5. LockInv'
  <2>1. \A t \in past.tries : t.end <= now'
    <3>1. \A t \in past.tries : t.end \in Nat /\ t.end <= now
      BY DEF IInv, LockInv, PastOK, Try
    <3> QED
      BY <1>1, <3>1
  <2> QED
    BY <1>1, <2>1 DEF IInv, LockInv, LockHolds, Apart, Running, Made
<1>6. RolesReplaced' /\ PinInv'
  BY <1>1, RolesKept, PinsKept DEF IInv
<1>7. UntouchedInv' /\ ChangesAreAudited'
  BY <1>1, CallsKept
<1> QED
  BY <1>2, <1>3, <1>4, <1>5, <1>6, <1>7 DEF IInv

-----------------------------------------------------------------------------
(* The invariant and the theorems *)

LEMMA InitIInv == Init => IInv
<1> SUFFICES ASSUME Init PROVE IInv
  OBVIOUS
<1>1. PICK new \in SUBSET (User \ {Admin}) :
         /\ user = [u \in User |-> [state |-> IF u \in new THEN "absent" ELSE "active",
                                    failed |-> 0, until |-> 0]]
         /\ live = User \ new
  BY DEF Init
<1>2. /\ grant = [u \in User |-> IF u = Admin
                                 THEN {[role |-> "administrator", by |-> Seed]}
                                 ELSE {}]
      /\ allow = {} /\ cert = [c \in Cert |-> "none"] /\ mtls = FALSE
      /\ server = [mode |-> FALSE, pins |-> {}, read |-> <<>>]
      /\ call = <<>> /\ audit = {}
      /\ past = [tries |-> {}, changed |-> {}, asked |-> [u \in User |-> Names(u)],
                 mixed |-> {}, retired |-> {}, older |-> {}]
      /\ mix \in Mixes /\ now = 0 /\ faults = 0
  BY DEF Init
<1>3. Made = {} /\ Len(call) = 0 /\ Made = 1 .. Len(call)
  BY <1>2 DEF Made
<1>4. /\ mix.calls \in Nat /\ mix.time \in Nat /\ mix.faults \in Nat
  BY <1>2, BoundAssumption
<1>5. user \in [User -> Account]
  BY <1>1 DEF Account
<1>6. grant \in [User -> SUBSET Tuple]
  <2>1. [role |-> "administrator", by |-> Seed] \in Tuple
    BY DEF Tuple, Role, Seed
  <2> QED
    BY <1>2, <2>1
<1>7. \A u \in User : Names(u) \in SUBSET Role
  BY <1>6 DEF Names, Tuple
<1>8. server \in [mode : BOOLEAN, pins : SUBSET Cert,
                  read : {<<>>} \cup {<<s>> : s \in SUBSET Cert}]
  BY <1>2
<1>9. TypeOK
  <2>1. now \in 0 .. mix.time /\ faults \in 0 .. mix.faults /\ Len(call) <= mix.calls
    BY <1>2, <1>3, <1>4
  <2>2. /\ allow \subseteq [id : Made, net : Net] /\ audit \subseteq Made
        /\ cert \in [Cert -> {"none", "active", "revoked"}] /\ mtls \in BOOLEAN
        /\ live \subseteq User
    BY <1>1, <1>2
  <2> QED
    BY <1>2, <1>3, <1>5, <1>6, <1>8, <2>1, <2>2 DEF TypeOK, Account
<1>10. CallInv
  BY <1>3 DEF CallInv
<1>11. /\ past.tries = {} /\ past.changed = {} /\ past.mixed = {}
       /\ past.retired = {} /\ past.older = {}
       /\ past.asked = [u \in User |-> Names(u)]
  BY <1>2
<1>12. PastOK
  BY <1>2, <1>7 DEF PastOK
<1>13. LockInv
  BY <1>3, <1>11 DEF LockInv, LockHolds, Running
<1>14. RolesReplaced
  BY <1>11 DEF RolesReplaced
<1>15. PinInv
  BY <1>2 DEF PinInv, PinsAgeOnce
<1>16. UntouchedInv /\ ChangesAreAudited
  BY <1>3, <1>11 DEF UntouchedInv, ChangesAreAudited
<1> QED
  BY <1>9, <1>10, <1>12, <1>13, <1>14, <1>15, <1>16 DEF IInv

\* Every step keeps the invariant.
LEMMA NextInv == IInv /\ [Next]_vars => IInv'
<1> SUFFICES ASSUME IInv, [Next]_vars PROVE IInv'
  OBVIOUS
<1>1. CASE \/ Login \/ Patch \/ DeleteUser \/ Unlock \/ ResetPassword
           \/ CreateUser \/ AssignRoles \/ Security
  BY <1>1, Arrivals
<1>2. ASSUME NEW c \in Made, Statements(c) \/ Drop(c) PROVE IInv'
  <2>1. CASE Issue(c) \/ NoRow(c) \/ Revoke(c) \/ Snapshot(c) \/ Audit(c)
    BY <2>1, QuietStatements
  <2>2. CASE Forbid(c) \/ Drop(c)
    BY <2>2, QuietEnds
  <2>3. CASE Name(c) \/ SetActive(c) \/ List(c) \/ Switch(c)
    BY <2>3, NameInv
  <2>4. CASE Insert(c) \/ Unlist(c) \/ Register(c)
    BY <2>4, InsertInv
  <2>5. CASE Retire(c)
    BY <2>5, RetireInv
  <2>6. CASE Clear(c)
    BY <2>6, ClearInv
  <2>7. CASE Grant(c)
    BY <2>7, GrantInv
  <2>8. CASE Replace(c)
    BY <2>8, ReplaceInv
  <2>9. CASE Wrong(c)
    BY <2>9, WrongInv
  <2> QED
    BY <1>2, <2>1, <2>2, <2>3, <2>4, <2>5, <2>6, <2>7, <2>8, <2>9 DEF Statements
<1>3. CASE LoadPins \/ SwapPins \/ LoadFails
  BY <1>3, PinStepsInv
<1>4. CASE Restart
  BY <1>4, RestartInv
<1>5. CASE Tick
  BY <1>5, TickInv
<1>6. CASE UNCHANGED vars
  <2>1. UNCHANGED <<user, grant, live, allow, cert, mtls, server, call, audit,
                    past, mix, now, faults>>
    BY <1>6 DEF vars
  <2>2. TypeOK' /\ PastOK'
    BY <2>1, PastSame DEF IInv, TypeOK, Made
  <2>3. CallInv'
    BY <2>1 DEF IInv, CallInv, Flying, Listed, ArgOK, Made
  <2>4. LockInv'
    BY <2>1 DEF IInv, LockInv, LockHolds, Apart, Running, Made
  <2>5. RolesReplaced' /\ PinInv'
    BY <2>1, RolesKept, PinsKept DEF IInv
  <2>6. UntouchedInv' /\ ChangesAreAudited'
    BY <2>1, CallsKept
  <2> QED
    BY <2>2, <2>3, <2>4, <2>5, <2>6 DEF IInv
<1> QED
  BY <1>1, <1>2, <1>3, <1>4, <1>5, <1>6 DEF Next

\* The inductive invariant holds in every reachable state.
THEOREM Inductive == Spec => []IInv
<1>1. Init => IInv
  BY InitIInv
<1>2. IInv /\ [Next]_vars => IInv'
  BY NextInv
<1> QED
  BY <1>1, <1>2, PTL DEF Spec

\* Locks, roles and certificates are in force as an administrator has set them.
THEOREM SettingsAreInForce == Spec => []SettingsHold
<1>1. IInv => SettingsHold
  BY DEF IInv, LockInv, PinInv, SettingsHold
<1> QED
  BY <1>1, Inductive, PTL

\* No lock is outlived by a guess that came after it: a password is looked at
\* again only after the lock time.
THEOREM LocksHold == Spec => []LockHolds
<1>1. IInv => LockHolds
  BY DEF IInv, LockInv
<1> QED
  BY <1>1, Inductive, PTL

\* Whatever an administrator changed is told in the audit log, unless the call
\* was cut short.
THEOREM ChangesAreTold == Spec => []ChangesAreAudited
<1>1. IInv => ChangesAreAudited
  BY DEF IInv
<1> QED
  BY <1>1, Inductive, PTL
=============================================================================
