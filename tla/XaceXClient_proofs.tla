------------------------- MODULE XaceXClient_proofs -------------------------
(***************************************************************************)
(* Theorems about XaceXClient, for any xClients, calls, servers, numbers   *)
(* of retries and thresholds, and any configurations.                      *)
(***************************************************************************)
EXTENDS XaceXClient, FiniteSetTheorems, TLAPS

\* Where a call gets a connection; the last four have looked at isShutdown and the breaker.
Getting == {"select", "check", "reset", "find", "lock", "dial"}
Past == {"reset", "find", "lock", "dial"}

\* A Call that Failbackup makes: the only one with a second request of its own.
Backup(a) == option.failMode = "failbackup" /\ option.kind[a] = "call"

-----------------------------------------------------------------------------
(* The inductive invariant, in parts *)

\* A call that is getting a connection: what it may have sent, and the error it will
\* return if it never gets one.  In SendRaw that error may be nil.
Seeking(a, o, s) ==
  /\ o.cont # "refused"
  /\ o.cont = "first" => o.left = Retries + 1
  /\ o.cont = "retry" => Retrying /\ (option.kind[a] # "raw" => o.err = "other")
  /\ o.cont \in {"go1", "go2"} => Backup(a)
  /\ s <= IF Retrying THEN Retries + 1 - o.left ELSE IF o.cont = "go2" THEN 1 ELSE 0

\* What a caller is told, as ErrorIsOutcome says it of call a.
Told(a, o, v) ==
  option.kind[a] # "go" =>
    /\ v = "nil" => o.err = "nil"
    /\ ~(option.kind[a] = "raw" \/ o.cont = "refused") =>
         (o.err = "nil" <=> v = "nil") /\ (o.err = "service" <=> v = "service")

\* Call a, whose record is o, has sent s requests and was given v: the requests still to
\* come are within its budget, and only a call that is over was answered.
Sound(a, o, s, v) ==
  /\ o \in Record
  /\ o.pc # "done" => v = "no"
  /\ o.pc \in Getting \cup {"new"} => Seeking(a, o, s)
  /\ o.pc \in {"send", "remove"} =>
       /\ ~Backup(a)
       /\ s <= IF Retrying THEN Retries + 1 - o.left ELSE 1
       /\ o.pc = "remove" /\ option.kind[a] # "raw" => o.err = "other"
  /\ o.pc = "go1" => Backup(a) /\ s = 0
  /\ o.pc \in {"wait1", "go2", "refused"} => Backup(a) /\ s <= 1
  /\ o.pc = "wait2" => Backup(a) /\ s <= 2
  /\ o.pc = "done" => s <= Budget(a) /\ Told(a, o, v)

CallInv == \A a \in Ops : Sound(a, op[a], sent[a], served[a])

\* One call at a time dials for an xClient, and always a server.
DialInv ==
  /\ \A a \in Ops : op[a].pc \in Past => op[a].k \in Servers
  /\ \A a, b \in Ops : At(a, "dial") /\ At(b, "dial") /\ XOf[a] = XOf[b] => a = b

\* A call that dialled after Close never comes to dial again.
LateInv ==
  /\ \A a \in Ops : /\ lateDials[a] <= 1
                    /\ lateDials[a] > 0 => XOf[a] \in isShutdown /\ op[a].pc \notin Past
  /\ \A x \in isShutdown, k \in Servers : cached[x][k] \in late \cup {None}

\* A call that dialled past an open breaker does not dial that server again before the
\* breaker lets go; a breaker that has counted failures exists.
KnockInv ==
  /\ \A x \in XClients, k \in Servers : breakers[x][k].failures > 0 => breakers[x][k].made
  /\ \A a \in Ops, k \in Servers :
       /\ knocks[a][k] <= 1
       /\ knocks[a][k] > 0 => /\ Tripped(XOf[a], k)
                              /\ ~(op[a].pc \in Past /\ op[a].k = k)

\* A connection is cached in one place at most, where it is not closed, and an open one is
\* cached unless builders are shared.  What a call is about to dial is not cached.
CacheInv ==
  /\ \A p \in XClients \cup {Builder}, k \in Servers :
       cached[p][k] # None => conn[cached[p][k]] \in {"open", "lost"}
  /\ \A p, q \in XClients \cup {Builder}, k, l \in Servers :
       cached[p][k] # None /\ cached[p][k] = cached[q][l] => p = q /\ k = l
  /\ ~option.shared =>
       /\ \A c \in Clients : conn[c] = "open" =>
            \E x \in XClients, k \in Servers : cached[x][k] = c
       /\ \A a \in Ops : At(a, "dial") => cached[XOf[a]][op[a].k] = None

\* Connection c was got by xClient x for server k: if cached at all, then there.
Home(x, k, c) ==
  /\ Made(c)
  /\ \A p \in XClients \cup {Builder}, l \in Servers :
       cached[p][l] = c => p = Place(x) /\ l = k

\* The connections a call may remove.
HomeInv ==
  \A a \in Ops :
    /\ op[a].pc \in {"send", "remove"} /\ op[a].client # None =>
         Home(XOf[a], op[a].k, op[a].client)
    /\ op[a].client0 # None => Home(XOf[a], op[a].k0, op[a].client0)

RestInv == DialInv /\ LateInv /\ KnockInv /\ CacheInv /\ HomeInv

Inv == TypeOK /\ CallInv /\ RestInv

-----------------------------------------------------------------------------
(* What becomes of a call that has a connection, or the error of having none *)

LEMMA OptionType ==
  ASSUME option \in OptionSet, NEW a \in Ops
  PROVE  /\ option.failMode \in FailModes /\ option.kind[a] \in OpKinds
         /\ option.shared \in BOOLEAN /\ option.breaker \in BOOLEAN
         /\ option.servers \subseteq Servers
  BY OptionAssumption DEF FailModes, OpKinds

\* A record of a call with one field replaced.
LEMMA Replaced ==
  ASSUME NEW o \in Record
  PROVE  /\ \A v \in Getting \cup {"send", "remove", "go1", "wait1", "go2", "wait2",
                                   "refused", "done"} : [o EXCEPT !.pc = v] \in Record
         /\ \A v \in {"first", "retry", "go1", "go2", "refused"} :
              [o EXCEPT !.cont = v] \in Record
         /\ \A v \in Servers \cup {NoServer} :
              [o EXCEPT !.k = v] \in Record /\ [o EXCEPT !.k0 = v] \in Record
         /\ \A v \in Clients \cup {None} :
              /\ [o EXCEPT !.client = v] \in Record
              /\ [o EXCEPT !.client0 = v] \in Record
              /\ [o EXCEPT !.first = v] \in Record
         /\ \A v \in Errors : [o EXCEPT !.err = v] \in Record /\ [o EXCEPT !.e = v] \in Record
         /\ \A v \in 0 .. Retries + 1 : [o EXCEPT !.left = v] \in Record
<1>1. ASSUME NEW v \in Getting \cup {"send", "remove", "go1", "wait1", "go2", "wait2",
                                     "refused", "done"}
      PROVE  [o EXCEPT !.pc = v] \in Record
  BY DEF Record, Getting
<1>2. ASSUME NEW v \in {"first", "retry", "go1", "go2", "refused"}
      PROVE  [o EXCEPT !.cont = v] \in Record
  BY DEF Record
<1>3. ASSUME NEW v \in Servers \cup {NoServer}
      PROVE  [o EXCEPT !.k = v] \in Record /\ [o EXCEPT !.k0 = v] \in Record
  BY DEF Record
<1>4. ASSUME NEW v \in Clients \cup {None}
      PROVE  /\ [o EXCEPT !.client = v] \in Record
             /\ [o EXCEPT !.client0 = v] \in Record
             /\ [o EXCEPT !.first = v] \in Record
  BY DEF Record
<1>5. ASSUME NEW v \in Errors
      PROVE  [o EXCEPT !.err = v] \in Record /\ [o EXCEPT !.e = v] \in Record
  BY DEF Record
<1>6. ASSUME NEW v \in 0 .. Retries + 1
      PROVE  [o EXCEPT !.left = v] \in Record
  BY DEF Record
<1> QED BY <1>1, <1>2, <1>3, <1>4, <1>5, <1>6

LEMMA BegunType == Begun \in Record
  BY NumberAssumption DEF Begun, Record, Errors, Clients, None

LEMMA DoneShape ==
  ASSUME NEW o \in Record, NEW e \in Errors
  PROVE  /\ Done(o, e) \in Record
         /\ Done(o, e).pc = "done" /\ Done(o, e).err = e /\ Done(o, e).cont = o.cont
         /\ Done(o, e).client0 = None
<1>1. [Begun EXCEPT !.pc = "done"] \in Record
  BY BegunType, Replaced
<1>2. [Begun EXCEPT !.pc = "done", !.err = e] \in Record
  BY <1>1, Replaced, Zenon
<1>3. o.cont \in {"first", "retry", "go1", "go2", "refused"}
  BY DEF Record
<1>4. Done(o, e) \in Record
  BY <1>2, <1>3, Replaced, Zenon DEF Done
<1> QED BY <1>4 DEF Done, Begun

\* Either a connection or an error comes back.
Got(c, e) == (c \in Clients /\ e = "nil") \/ (c = None /\ e = "other")

LEMMA LoopShape ==
  ASSUME NEW o \in Record
  PROVE  /\ Loop(o) \in Record
         /\ o.left > 0 => /\ Loop(o).pc = IF o.client = None THEN "remove" ELSE "send"
                          /\ Loop(o).left = o.left - 1
                          /\ Loop(o).client = o.client /\ Loop(o).k = o.k
                          /\ Loop(o).err = o.err /\ Loop(o).cont = o.cont
                          /\ Loop(o).client0 = o.client0 /\ Loop(o).k0 = o.k0
         /\ o.left = 0 => /\ Loop(o).pc = "done" /\ Loop(o).client0 = None
                          /\ Loop(o).cont = o.cont
                          /\ Loop(o).err = IF o.err = "nil" THEN o.e ELSE o.err
<1>1. CASE o.left = 0
  <2> DEFINE e == IF o.err = "nil" THEN o.e ELSE o.err
  <2>1. e \in Errors
    BY DEF Record
  <2>2. Loop(o) = Done(o, e)
    BY <1>1 DEF Loop
  <2> QED BY <1>1, <2>1, <2>2, DoneShape
<1>2. CASE o.left # 0
  <2> DEFINE l == o.left - 1
             q == IF o.client = None THEN "remove" ELSE "send"
             n == [[o EXCEPT !.left = l] EXCEPT !.pc = q]
  <2>1. l \in 0 .. Retries + 1 /\ o.left > 0 /\ q \in {"send", "remove"}
    BY <1>2, NumberAssumption DEF Record
  <2>2. [o EXCEPT !.left = l] \in Record
    BY <2>1, Replaced, Zenon
  <2>3. n \in Record
    BY <2>1, <2>2, Replaced, Zenon
  <2>4. Loop(o) = n
    BY <1>2 DEF Loop
  <2>5. /\ n.pc = q /\ n.left = l /\ n.client = o.client /\ n.k = o.k
        /\ n.err = o.err /\ n.cont = o.cont /\ n.client0 = o.client0 /\ n.k0 = o.k0
    BY DEF Record
  <2> QED BY <1>2, <2>1, <2>3, <2>4, <2>5
<1> QED BY <1>1, <1>2

\* The local variables of a call that getCachedClient or selectClient has returned to.
LEMMA AfterSelectShape ==
  ASSUME option \in OptionSet, NEW a \in Ops, NEW o \in Record, NEW c, NEW e, Got(c, e)
  PROVE  LET n == AfterSelect(a, o, c, e) IN
         /\ n \in Record
         /\ \/ n.pc = "done" /\ n.client0 = None
            \/ /\ n.pc = "go1" /\ Backup(a) /\ n.cont = o.cont
               /\ n.client0 = c /\ n.k0 = o.k
            \/ /\ n.pc = IF c = None THEN "remove" ELSE "send"
               /\ ~Backup(a) /\ n.cont = o.cont
               /\ n.client = c /\ n.k = o.k /\ n.err = e
               /\ n.client0 = o.client0 /\ n.k0 = o.k0
               /\ Retrying => o.left > 0 /\ n.left = o.left - 1
         /\ n.pc = "done" =>
              /\ n.cont = o.cont
              /\ \/ option.kind[a] = "go" \/ n.err = "other"
                 \/ Retrying /\ o.left = 0
<1>1. c \in Clients \cup {None} /\ e \in Errors
  BY DEF Got, Errors
<1>2. CASE option.kind[a] = "go" \/ (e # "nil" /\ option.failMode = "failfast")
  <2>1. AfterSelect(a, o, c, e) = Done(o, e)
    BY <1>2 DEF AfterSelect, Retrying
  <2> QED BY <1>1, <1>2, <2>1, DoneShape DEF Got
<1>3. CASE Backup(a)
  <2> DEFINE m == [o EXCEPT !.pc = "go1"]
             n == [o EXCEPT !.pc = "go1", !.k0 = o.k, !.client0 = c]
  <2>1. AfterSelect(a, o, c, e) = n
    BY <1>3 DEF AfterSelect, Backup, Retrying
  <2>2. m \in Record /\ o.k \in Servers \cup {NoServer}
    BY Replaced DEF Record
  <2>3. [m EXCEPT !.k0 = o.k] \in Record
    BY <2>2, Replaced, Zenon
  <2>4. n \in Record
    BY <2>3, <1>1, Replaced, Zenon
  <2>5. n.pc = "go1" /\ n.client0 = c /\ n.k0 = o.k /\ n.cont = o.cont
    BY DEF Record
  <2> QED BY <1>3, <2>1, <2>4, <2>5
<1>4. CASE Retrying /\ ~(option.kind[a] = "go" \/ (e # "nil" /\ option.failMode = "failfast"))
  <2> DEFINE m == [[o EXCEPT !.client = c] EXCEPT !.err = e]
  <2>1. AfterSelect(a, o, c, e) = Loop(m)
    BY <1>4 DEF AfterSelect, Retrying
  <2>2. [o EXCEPT !.client = c] \in Record
    BY <1>1, Replaced
  <2>3. m \in Record
    BY <2>2, <1>1, Replaced, Zenon
  <2>4. /\ m.client = c /\ m.err = e /\ m.k = o.k /\ m.cont = o.cont /\ m.left = o.left
        /\ m.client0 = o.client0 /\ m.k0 = o.k0
    BY DEF Record
  <2>5. ~Backup(a) /\ option.failMode # "failfast"
    BY <1>4 DEF Backup, Retrying
  <2>6. o.left \in Nat
    BY NumberAssumption DEF Record
  <2> HIDE DEF m
  <2>7. CASE o.left > 0
    BY <1>4, <2>1, <2>3, <2>4, <2>5, <2>7, LoopShape
  <2>8. CASE o.left = 0
    BY <1>4, <2>1, <2>3, <2>4, <2>5, <2>8, LoopShape
  <2> QED BY <2>6, <2>7, <2>8
<1>5. CASE ~Retrying /\ ~Backup(a)
           /\ ~(option.kind[a] = "go" \/ (e # "nil" /\ option.failMode = "failfast"))
  <2> DEFINE p == IF c = None THEN "remove" ELSE "send"
             n == [o EXCEPT !.client = c, !.err = e, !.pc = p]
  <2>1. AfterSelect(a, o, c, e) = n
    BY <1>5 DEF AfterSelect, Backup
  <2>2. [o EXCEPT !.client = c] \in Record /\ p \in {"remove", "send"}
    BY <1>1, Replaced
  <2>3. n \in Record
    <3>1. [o EXCEPT !.client = c, !.err = e] \in Record
      BY <1>1, <2>2, Replaced, Zenon
    <3> QED BY <2>2, <3>1, Replaced, Zenon
  <2>4. /\ n.pc = p /\ n.client = c /\ n.k = o.k /\ n.cont = o.cont /\ n.err = e
        /\ n.client0 = o.client0 /\ n.k0 = o.k0
    BY DEF Record
  <2> QED BY <1>5, <2>1, <2>3, <2>4
<1> QED BY <1>2, <1>3, <1>4, <1>5

\* A call that comes back with a connection or without one is within its budget, and if
\* it is over it returns the error of a call that nobody answered.
ReturnsSoundly(a, o, n, c, s) ==
  /\ Sound(a, n, IF Sends(n) THEN s + 1 ELSE s, "no")
  /\ n.pc \in {"done", "go1", "send", "remove", "wait1", "wait2", "refused"}
  /\ n.pc \in {"send", "remove"} => n.client = c /\ n.k = o.k
  /\ n.client0 # None => \/ n.client0 = o.client0 /\ n.k0 = o.k0
                         \/ n.client0 = c /\ n.k0 = o.k

LEMMA FirstReturn ==
  ASSUME option \in OptionSet, NEW a \in Ops, NEW o \in Record, NEW s \in Nat,
         Seeking(a, o, s), NEW c, NEW e, Got(c, e), o.cont = "first"
  PROVE  ReturnsSoundly(a, o, Return(a, o, c, e), c, s)
<1> DEFINE n == AfterSelect(a, o, c, e)
<1>1. Return(a, o, c, e) = n
  BY DEF Return
<1>2. /\ n \in Record
      /\ \/ n.pc = "done" /\ n.client0 = None
         \/ /\ n.pc = "go1" /\ Backup(a) /\ n.cont = o.cont
            /\ n.client0 = c /\ n.k0 = o.k
         \/ /\ n.pc = IF c = None THEN "remove" ELSE "send"
            /\ ~Backup(a) /\ n.cont = o.cont
            /\ n.client = c /\ n.k = o.k /\ n.err = e
            /\ n.client0 = o.client0 /\ n.k0 = o.k0
            /\ Retrying => o.left > 0 /\ n.left = o.left - 1
      /\ n.pc = "done" =>
           /\ n.cont = o.cont
           /\ \/ option.kind[a] = "go" \/ n.err = "other"
              \/ Retrying /\ o.left = 0
  BY AfterSelectShape
<1>3. /\ o.left = Retries + 1 /\ o.left > 0 /\ Retries \in Nat
      /\ s = 0
  BY NumberAssumption DEF Seeking
<1>4. Sends(n) <=> n.pc = "send"
  BY <1>2 DEF Sends
<1> HIDE DEF n
<1>5. CASE n.pc = "done"
  <2>1. Budget(a) \in Nat
    BY NumberAssumption DEF Budget, Retrying
  <2>2. Told(a, n, "no")
    BY <1>2, <1>3, <1>5 DEF Told
  <2>3. Sound(a, n, s, "no")
    BY <1>2, <1>3, <1>5, <2>1, <2>2 DEF Sound, Getting
  <2> QED BY <1>1, <1>2, <1>4, <1>5, <2>3 DEF ReturnsSoundly
<1>6. CASE n.pc = "go1"
  BY <1>1, <1>2, <1>3, <1>4, <1>6 DEF ReturnsSoundly, Sound, Getting
<1>7. CASE n.pc \in {"send", "remove"}
  <2>1. n.pc = "remove" => n.err = "other"
    BY <1>2, <1>7, NumberAssumption DEF Got, Clients, None
  <2>2. Retrying => 1 <= Retries + 1 - n.left
    BY <1>2, <1>3, <1>7
  <2>3. Sound(a, n, IF Sends(n) THEN s + 1 ELSE s, "no")
    BY <1>2, <1>3, <1>4, <1>7, <2>1, <2>2 DEF Sound, Getting
  <2> QED BY <1>1, <1>2, <1>7, <2>3 DEF ReturnsSoundly
<1> QED BY <1>2, <1>5, <1>6, <1>7

LEMMA RetryReturn ==
  ASSUME option \in OptionSet, NEW a \in Ops, NEW o \in Record, NEW s \in Nat,
         Seeking(a, o, s), NEW c, NEW e, Got(c, e), o.cont = "retry"
  PROVE  ReturnsSoundly(a, o, Return(a, o, c, e), c, s)
<1> DEFINE m == [[o EXCEPT !.client = c] EXCEPT !.e = e]
           n == Loop(m)
<1>1. Return(a, o, c, e) = n
  BY DEF Return
<1>2. c \in Clients \cup {None} /\ e \in Errors
  BY DEF Got, Errors
<1>3. [o EXCEPT !.client = c] \in Record
  BY <1>2, Replaced
<1>4. m \in Record
  BY <1>2, <1>3, Replaced, Zenon
<1>5. /\ m.client = c /\ m.err = o.err /\ m.k = o.k /\ m.cont = o.cont /\ m.left = o.left
      /\ m.client0 = o.client0 /\ m.k0 = o.k0
  BY DEF Record
<1>6. /\ Retrying /\ ~Backup(a) /\ (option.kind[a] # "raw" => o.err = "other")
      /\ s <= Retries + 1 - o.left /\ o.left \in Nat /\ Retries \in Nat
  BY NumberAssumption DEF Seeking, Retrying, Backup, Record
<1> HIDE DEF m
<1>7. CASE o.left = 0
  <2>1. /\ n \in Record /\ n.pc = "done" /\ n.client0 = None
        /\ n.err = IF m.err = "nil" THEN m.e ELSE m.err
    BY <1>4, <1>5, <1>7, LoopShape
  <2> HIDE DEF n
  <2>2. Told(a, n, "no")
    BY <1>5, <1>6, <2>1 DEF Told
  <2>3. Budget(a) = Retries + 1
    BY <1>6 DEF Budget, Backup
  <2>4. ~Sends(n)
    BY <2>1 DEF Sends
  <2>5. Sound(a, n, s, "no")
    BY <1>6, <1>7, <2>1, <2>2, <2>3 DEF Sound, Getting
  <2> QED BY <1>1, <2>1, <2>4, <2>5 DEF ReturnsSoundly
<1>8. CASE o.left > 0
  <2>1. /\ n \in Record /\ n.pc = IF m.client = None THEN "remove" ELSE "send"
        /\ n.left = m.left - 1 /\ n.client = m.client /\ n.k = m.k /\ n.err = m.err
        /\ n.client0 = m.client0 /\ n.k0 = m.k0
    BY <1>4, <1>5, <1>8, LoopShape
  <2> HIDE DEF n
  <2>2. Sends(n) <=> n.pc = "send"
    BY <2>1 DEF Sends
  <2>3. Sound(a, n, IF Sends(n) THEN s + 1 ELSE s, "no")
    BY <1>5, <1>6, <1>8, <2>1, <2>2 DEF Sound, Getting
  <2> QED BY <1>1, <1>5, <2>1, <2>3 DEF ReturnsSoundly
<1> QED BY <1>6, <1>7, <1>8

LEMMA BackupReturn ==
  ASSUME option \in OptionSet, NEW a \in Ops, NEW o \in Record, NEW s \in Nat,
         Seeking(a, o, s), NEW c, NEW e, Got(c, e), o.cont \in {"go1", "go2"}
  PROVE  ReturnsSoundly(a, o, Return(a, o, c, e), c, s)
<1>1. c \in Clients \cup {None} /\ e \in Errors
  BY DEF Got, Errors
<1>2. /\ Backup(a) /\ ~Retrying
      /\ s <= IF o.cont = "go2" THEN 1 ELSE 0
  BY DEF Seeking, Retrying, Backup
<1>3. CASE o.cont = "go1"
  <2> DEFINE n == [o EXCEPT !.pc = "wait1", !.first = c, !.err = e]
  <2>1. Return(a, o, c, e) = n
    BY <1>3 DEF Return
  <2>2. [o EXCEPT !.pc = "wait1"] \in Record
    BY Replaced
  <2>3. [o EXCEPT !.pc = "wait1", !.first = c] \in Record
    BY <1>1, <2>2, Replaced, Zenon
  <2>4. n \in Record
    BY <1>1, <2>3, Replaced, Zenon
  <2>5. n.pc = "wait1" /\ n.client0 = o.client0 /\ n.k0 = o.k0
    BY DEF Record
  <2> HIDE DEF n
  <2> QED BY <1>2, <1>3, <2>1, <2>4, <2>5 DEF ReturnsSoundly, Sound, Getting
<1>4. CASE o.cont = "go2" /\ e # "nil"
  <2> DEFINE n == [o EXCEPT !.pc = "refused"]
  <2>1. Return(a, o, c, e) = n
    BY <1>4 DEF Return
  <2>2. n \in Record
    BY Replaced
  <2>3. n.pc = "refused" /\ n.client0 = o.client0 /\ n.k0 = o.k0
    BY DEF Record
  <2> HIDE DEF n
  <2> QED BY <1>2, <1>4, <2>1, <2>2, <2>3 DEF ReturnsSoundly, Sound, Getting, Sends
<1>5. CASE o.cont = "go2" /\ e = "nil"
  <2> DEFINE n == [o EXCEPT !.pc = "wait2", !.client = c]
  <2>1. Return(a, o, c, e) = n
    BY <1>5 DEF Return
  <2>2. [o EXCEPT !.pc = "wait2"] \in Record
    BY Replaced
  <2>3. n \in Record
    BY <1>1, <2>2, Replaced, Zenon
  <2>4. n.pc = "wait2" /\ n.client0 = o.client0 /\ n.k0 = o.k0
    BY DEF Record
  <2> HIDE DEF n
  <2> QED BY <1>2, <1>5, <2>1, <2>3, <2>4 DEF ReturnsSoundly, Sound, Getting
<1> QED BY <1>3, <1>4, <1>5

LEMMA Returned ==
  ASSUME option \in OptionSet, NEW a \in Ops, NEW o \in Record, NEW s \in Nat,
         Seeking(a, o, s), NEW c, NEW e, Got(c, e)
  PROVE  ReturnsSoundly(a, o, Return(a, o, c, e), c, s)
<1>1. o.cont \in {"first", "retry", "go1", "go2"}
  BY DEF Seeking, Record
<1> QED BY <1>1, FirstReturn, RetryReturn, BackupReturn

-----------------------------------------------------------------------------
(* One call takes a step *)

\* The record of call a becomes n, and its requests and its answer are s and v.
Becomes(a, n, s, v) ==
  /\ op' = [op EXCEPT ![a] = n]
  /\ sent' = [sent EXCEPT ![a] = s]
  /\ served' = [served EXCEPT ![a] = v]
  /\ option' = option

CallTypes ==
  /\ op \in [Ops -> Record] /\ sent \in [Ops -> Nat]
  /\ served \in [Ops -> {"no", "nil", "service"}]

LEMMA CallKeeps ==
  ASSUME TypeOK, CallInv, NEW a \in Ops, NEW n, NEW s \in Nat,
         NEW v \in {"no", "nil", "service"},
         Becomes(a, n, s, v), Sound(a, n, s, v)
  PROVE  CallTypes' /\ CallInv'
<1>1. n \in Record
  BY DEF Sound
<1>2. CallTypes'
  BY <1>1 DEF CallTypes, TypeOK, Becomes
<1>3. ASSUME NEW b \in Ops
      PROVE  Sound(b, op'[b], sent'[b], served'[b])
  <2>1. CASE b = a
    BY <2>1 DEF Becomes, TypeOK
  <2>2. CASE b # a
    BY <2>2 DEF Becomes, TypeOK, CallInv
  <2> QED BY <2>1, <2>2
<1>4. ASSUME NEW b \in Ops
      PROVE  Sound(b, op[b], sent[b], served[b])'
  <2>1. option' = option
    BY DEF Becomes
  <2> QED BY <1>3, <2>1 DEF Sound, Seeking, Told, Retrying, Backup, Budget
<1> QED BY <1>2, <1>4 DEF CallInv

\* What the other parts ask of the new record of a call.
Placed(a, n) ==
  /\ n.pc \in Past => /\ n.k \in Servers /\ n.pc # "dial"
                      /\ \/ op[a].pc \in Past /\ op[a].k = n.k
                         \/ XOf[a] \notin isShutdown /\ ~Tripped(XOf[a], n.k)
  /\ n.pc \in {"send", "remove"} /\ n.client # None => Home(XOf[a], n.k, n.client)
  /\ n.client0 # None => Home(XOf[a], n.k0, n.client0)

\* A step of one call that leaves the connections, the breakers and the flags alone.
LEMMA MoveKeeps ==
  ASSUME TypeOK, RestInv, NEW a \in Ops, NEW n, Placed(a, n),
         op' = [op EXCEPT ![a] = n],
         UNCHANGED <<option, isShutdown, breakers, netVars, lateDials>>
  PROVE  RestInv'
<1> USE DEF netVars
<1>1. \A b \in Ops : op'[b] = IF b = a THEN n ELSE op[b]
  BY DEF TypeOK
<1>2. DialInv'
  BY <1>1 DEF RestInv, DialInv, Placed, At, Past
<1>3. LateInv'
  BY <1>1 DEF RestInv, LateInv, Placed
<1>4. KnockInv'
  BY <1>1 DEF RestInv, KnockInv, Placed, Tripped
<1>5. CacheInv'
  BY <1>1 DEF RestInv, CacheInv, Placed, At, Past
<1>6. HomeInv'
  BY <1>1 DEF RestInv, HomeInv, Placed, Home, Made, Place
<1> QED BY <1>2, <1>3, <1>4, <1>5, <1>6 DEF RestInv

\* The same of a whole step.
LEMMA CallMoves ==
  ASSUME Inv, NEW a \in Ops, NEW n, NEW s \in Nat, NEW v \in {"no", "nil", "service"},
         Becomes(a, n, s, v), Sound(a, n, s, v), Placed(a, n),
         UNCHANGED <<isShutdown, breakers, netVars, lateDials>>
  PROVE  Inv'
<1>1. CallTypes' /\ CallInv'
  BY CallKeeps DEF Inv
<1>2. RestInv'
  BY MoveKeeps DEF Inv, Becomes
<1>3. TypeOK'
  BY <1>1 DEF Inv, TypeOK, CallTypes, Becomes, netVars
<1> QED BY <1>1, <1>2, <1>3 DEF Inv

\* A call on its way has not been answered, and has its types.
LEMMA OnItsWay ==
  ASSUME Inv, NEW a \in Ops, op[a].pc # "done"
  PROVE  /\ served[a] = "no" /\ sent[a] \in Nat /\ op[a] \in Record
         /\ option \in OptionSet
         /\ Sound(a, op[a], sent[a], "no")
         /\ op[a].client0 # None => Home(XOf[a], op[a].k0, op[a].client0)
         /\ op[a].pc \in {"send", "remove"} /\ op[a].client # None =>
              Home(XOf[a], op[a].k, op[a].client)
  BY DEF Inv, CallInv, Sound, TypeOK, RestInv, HomeInv

\* A call goes on getting its connection.
LEMMA SeeksOn ==
  ASSUME Inv, NEW a \in Ops, NEW o \in Record, Seeking(a, o, sent[a]),
         op[a].pc # "done", o.k0 = op[a].k0, o.client0 = op[a].client0,
         NEW p \in Getting \ {"dial"},
         p \in Past => /\ o.k \in Servers
                       /\ \/ op[a].pc \in Past /\ op[a].k = o.k
                          \/ XOf[a] \notin isShutdown /\ ~Tripped(XOf[a], o.k)
  PROVE  LET n == [o EXCEPT !.pc = p]
         IN Sound(a, n, sent[a], "no") /\ Placed(a, n) /\ ~Sends(n)
<1> DEFINE n == [o EXCEPT !.pc = p]
<1>1. n \in Record
  BY Replaced DEF Getting
<1>2. /\ n.pc = p /\ n.k = o.k /\ n.k0 = o.k0 /\ n.client0 = o.client0
      /\ n.cont = o.cont /\ n.left = o.left /\ n.err = o.err
  BY DEF Record
<1> HIDE DEF n
<1>3. Sound(a, n, sent[a], "no")
  BY <1>1, <1>2 DEF Sound, Seeking, Getting
<1>4. Placed(a, n)
  BY <1>2, OnItsWay DEF Placed, Getting, Past
<1>5. ~Sends(n)
  BY <1>2 DEF Sends, Getting
<1> QED BY <1>3, <1>4, <1>5 DEF n

\* A call comes back with a connection or without one.
LEMMA Returns ==
  ASSUME Inv, NEW a \in Ops, NEW o \in Record, Seeking(a, o, sent[a]),
         op[a].pc # "done", o.k0 = op[a].k0, o.client0 = op[a].client0,
         NEW c, NEW e, Got(c, e), c # None => Home(XOf[a], o.k, c)
  PROVE  LET n == Return(a, o, c, e)
             s == IF Sends(n) THEN sent[a] + 1 ELSE sent[a]
         IN Sound(a, n, s, "no") /\ Placed(a, n) /\ s \in Nat
<1> DEFINE n == Return(a, o, c, e)
           s == IF Sends(n) THEN sent[a] + 1 ELSE sent[a]
<1>1. sent[a] \in Nat /\ option \in OptionSet
  BY OnItsWay
<1>2. ReturnsSoundly(a, o, n, c, sent[a])
  BY <1>1, Returned
<1> HIDE DEF n
<1>3. Placed(a, n)
  BY <1>2, OnItsWay DEF ReturnsSoundly, Placed, Past
<1> QED BY <1>1, <1>2, <1>3 DEF ReturnsSoundly, n

\* The step of a call that only its own record and its request note.
LEMMA Proceeds ==
  ASSUME Inv, NEW a \in Ops, op[a].pc # "done", NEW n, Proceed(a, n),
         Sound(a, n, IF Sends(n) THEN sent[a] + 1 ELSE sent[a], "no"),
         UNCHANGED <<option, served>>
  PROVE  /\ Becomes(a, n, IF Sends(n) THEN sent[a] + 1 ELSE sent[a], "no")
         /\ (IF Sends(n) THEN sent[a] + 1 ELSE sent[a]) \in Nat
  BY OnItsWay DEF Proceed, Become, Becomes, Inv, TypeOK

-----------------------------------------------------------------------------
(* Each action keeps the invariant *)

LEMMA EnterKeeps == ASSUME Inv, NEW a \in Ops, Enter(a) PROVE Inv'
<1>1. /\ op[a].pc = "new" /\ op[a] \in Record /\ sent[a] \in Nat /\ served[a] = "no"
      /\ Seeking(a, op[a], sent[a]) /\ option \in OptionSet
  BY OnItsWay DEF Enter, At, Sound
<1>2. CASE XOf[a] \in isShutdown
  <2> DEFINE n == Done(op[a], "other")
  <2>1. n \in Record /\ n.pc = "done" /\ n.err = "other" /\ n.client0 = None
    BY <1>1, DoneShape DEF Errors
  <2> HIDE DEF n
  <2>2. sent[a] <= Budget(a)
    BY <1>1, NumberAssumption DEF Seeking, Budget, Retrying, Record
  <2>3. Sound(a, n, sent[a], "no") /\ Placed(a, n)
    BY <2>1, <2>2 DEF Sound, Told, Placed, Past, Getting
  <2>4. Becomes(a, n, sent[a], "no")
    BY <1>1, <1>2 DEF Enter, Become, Becomes, Inv, TypeOK, n
  <2> QED BY <1>1, <2>3, <2>4, CallMoves DEF Enter
<1>3. CASE XOf[a] \notin isShutdown
  <2> DEFINE n == [op[a] EXCEPT !.pc = "select"]
  <2>1. Sound(a, n, sent[a], "no") /\ Placed(a, n)
    BY <1>1, SeeksOn DEF Getting, Past
  <2>2. Becomes(a, n, sent[a], "no")
    BY <1>1, <1>3 DEF Enter, Become, Becomes, Inv, TypeOK
  <2> HIDE DEF n
  <2> QED BY <1>1, <2>1, <2>2, CallMoves DEF Enter
<1> QED BY <1>2, <1>3

\* A step on which a call goes on getting its connection, and only that.
LEMMA SeekStep ==
  ASSUME Inv, NEW a \in Ops, NEW o \in Record, Seeking(a, o, sent[a]),
         op[a].pc # "done", o.k0 = op[a].k0, o.client0 = op[a].client0,
         NEW p \in Getting \ {"dial"}, Proceed(a, [o EXCEPT !.pc = p]),
         p \in Past => /\ o.k \in Servers
                       /\ \/ op[a].pc \in Past /\ op[a].k = o.k
                          \/ XOf[a] \notin isShutdown /\ ~Tripped(XOf[a], o.k),
         UNCHANGED <<option, isShutdown, breakers, netVars, served, lateDials>>
  PROVE  Inv'
<1> DEFINE n == [o EXCEPT !.pc = p]
<1>1. Sound(a, n, sent[a], "no") /\ Placed(a, n) /\ ~Sends(n)
  BY SeeksOn
<1> HIDE DEF n
<1>2. Becomes(a, n, sent[a], "no") /\ sent[a] \in Nat
  BY <1>1, Proceeds DEF n
<1> QED BY <1>1, <1>2, CallMoves

\* A step on which a call gets a connection or an error, and only that.
LEMMA ReturnStep ==
  ASSUME Inv, NEW a \in Ops, NEW o \in Record, Seeking(a, o, sent[a]),
         op[a].pc # "done", o.k0 = op[a].k0, o.client0 = op[a].client0,
         NEW c, NEW e, Got(c, e), c # None => Home(XOf[a], o.k, c),
         Proceed(a, Return(a, o, c, e)),
         UNCHANGED <<option, isShutdown, breakers, netVars, served, lateDials>>
  PROVE  Inv'
<1> DEFINE n == Return(a, o, c, e)
           s == IF Sends(n) THEN sent[a] + 1 ELSE sent[a]
<1>1. Sound(a, n, s, "no") /\ Placed(a, n) /\ s \in Nat
  BY Returns
<1>2. Becomes(a, n, s, "no")
  BY <1>1, Proceeds
<1> HIDE DEF n, s
<1> QED BY <1>1, <1>2, CallMoves

LEMMA SelectKeeps == ASSUME Inv, NEW a \in Ops, Select(a) PROVE Inv'
<1> /\ op[a].pc = "select"
    /\ UNCHANGED <<option, isShutdown, breakers, netVars, served, lateDials>>
  BY Zenon DEF Select, At
<1>1. /\ op[a] \in Record /\ Seeking(a, op[a], sent[a]) /\ option \in OptionSet
  BY OnItsWay DEF Sound, Getting
<1>2. option.servers \subseteq Servers
  BY <1>1, OptionType
<1>3. ASSUME NEW k \in option.servers, Proceed(a, [op[a] EXCEPT !.pc = "check", !.k = k])
      PROVE  Inv'
  <2> DEFINE o == [op[a] EXCEPT !.k = k]
  <2>1. o \in Record
    BY <1>1, <1>2, <1>3, Replaced
  <2>2. /\ o.k0 = op[a].k0 /\ o.client0 = op[a].client0 /\ o.cont = op[a].cont
        /\ o.left = op[a].left /\ o.err = op[a].err
    BY <1>1 DEF Record
  <2>3. [op[a] EXCEPT !.pc = "check", !.k = k] = [o EXCEPT !.pc = "check"]
    BY <1>1 DEF Record
  <2> HIDE DEF o
  <2>4. Seeking(a, o, sent[a])
    BY <1>1, <2>2, Zenon DEF Seeking
  <2>5. Proceed(a, [o EXCEPT !.pc = "check"])
    BY <1>3, <2>3, Zenon
  <2> QED BY <1>1, <2>1, <2>2, <2>4, <2>5, SeekStep DEF Getting, Past
<1>4. CASE Proceed(a, Return(a, [op[a] EXCEPT !.k = NoServer], None, "other"))
  <2> DEFINE o == [op[a] EXCEPT !.k = NoServer]
  <2>1. o \in Record
    BY <1>1, Replaced
  <2>2. /\ o.k0 = op[a].k0 /\ o.client0 = op[a].client0 /\ o.cont = op[a].cont
        /\ o.left = op[a].left /\ o.err = op[a].err
    BY <1>1 DEF Record
  <2>3. Proceed(a, Return(a, o, None, "other"))
    BY <1>4
  <2> HIDE DEF o
  <2>4. Seeking(a, o, sent[a])
    BY <1>1, <2>2, Zenon DEF Seeking
  <2> QED BY <1>1, <2>1, <2>2, <2>3, <2>4, ReturnStep DEF Got
<1> QED BY <1>3, <1>4, Zenon DEF Select

LEMMA CheckKeeps == ASSUME Inv, NEW a \in Ops, Check(a) PROVE Inv'
<1>1. /\ op[a].pc = "check" /\ op[a] \in Record /\ Seeking(a, op[a], sent[a])
  BY OnItsWay DEF Check, At, Sound, Getting
<1>2. CASE Proceed(a, Return(a, op[a], None, "other"))
  BY <1>1, <1>2, ReturnStep DEF Got, Check
<1>3. CASE ~Proceed(a, Return(a, op[a], None, "other"))
  <2>1. op[a].k \in Servers /\ XOf[a] \notin isShutdown /\ XOf[a] \in XClients
    BY <1>1, <1>3, XOfAssumption DEF Check, Admitted, Record
  <2> DEFINE b == breakers[XOf[a]][op[a].k]
  <2>2. ~b.made \/ Ready(b)
    BY <1>3, <2>1, NameAssumption DEF Check
  <2>3. ~Tripped(XOf[a], op[a].k)
    BY <2>1, <2>2, NumberAssumption DEF Tripped, Ready, Inv, RestInv, KnockInv
  <2>4. \E p \in {"reset", "find"} : Proceed(a, [op[a] EXCEPT !.pc = p])
    BY <1>3, <2>1, NameAssumption DEF Check
  <2> QED BY <1>1, <2>1, <2>3, <2>4, SeekStep DEF Getting, Past, Check
<1> QED BY <1>2, <1>3

LEMMA PlaceType ==
  ASSUME NEW x \in XClients PROVE Place(x) \in XClients \cup {Builder}
  BY DEF Place

\* What is found in the cache is at home there.
LEMMA FoundHome ==
  ASSUME TypeOK, CacheInv, NEW x \in XClients, NEW k \in Servers, Find(x, k) # None
  PROVE  /\ Find(x, k) \in Clients /\ Home(x, k, Find(x, k))
         /\ conn[Find(x, k)] \in {"open", "lost"}
<1>1. Place(x) \in XClients \cup {Builder} /\ Find(x, k) = cached[Place(x)][k]
  BY PlaceType, NameAssumption DEF Find
<1>2. Find(x, k) \in Clients
  BY <1>1 DEF TypeOK
<1>3. conn[Find(x, k)] \in {"open", "lost"}
  BY <1>1 DEF CacheInv
<1>4. ASSUME NEW p \in XClients \cup {Builder}, NEW l \in Servers, cached[p][l] = Find(x, k)
      PROVE  p = Place(x) /\ l = k
  BY <1>1, <1>4 DEF CacheInv
<1> QED BY <1>2, <1>3, <1>4 DEF Home, Made

LEMMA FindCachedKeeps == ASSUME Inv, NEW a \in Ops, FindCached(a) PROVE Inv'
<1>1. /\ op[a].pc = "find"
      /\ UNCHANGED <<option, isShutdown, breakers, netVars, served, lateDials>>
  BY DEF FindCached, At
<1>2. op[a] \in Record /\ Seeking(a, op[a], sent[a]) /\ op[a].k \in Servers
  BY <1>1, OnItsWay DEF Sound, Getting, Inv, RestInv, DialInv, Past
<1> DEFINE c == Find(XOf[a], op[a].k)
<1>3. CASE Usable(c)
  <2>1. c \in Clients /\ Home(XOf[a], op[a].k, c)
    BY <1>2, <1>3, FoundHome, XOfAssumption DEF Usable, Inv, RestInv
  <2>2. Proceed(a, Return(a, op[a], c, "nil"))
    BY <1>3 DEF FindCached
  <2> HIDE DEF c
  <2> QED BY <1>1, <1>2, <2>1, <2>2, ReturnStep DEF Got
<1>4. CASE ~Usable(c)
  <2>1. Proceed(a, [op[a] EXCEPT !.pc = "lock"])
    BY <1>4 DEF FindCached
  <2> QED BY <1>1, <1>2, <2>1, SeekStep DEF Getting, Past
<1> QED BY <1>3, <1>4

\* The call Failbackup makes, from go1 or go2, begins like any other.
LEMMA BackupGoKeeps ==
  ASSUME Inv, NEW a \in Ops, FirstGo(a) \/ SecondGo(a)
  PROVE  Inv'
<1>1. PICK g \in {"go1", "go2"} : BackupGo(a, g, g)
  BY DEF FirstGo, SecondGo
<1>2. /\ op[a].pc = g
      /\ UNCHANGED <<option, isShutdown, breakers, netVars, served, lateDials>>
  BY <1>1 DEF BackupGo, At
<1>3. /\ op[a] \in Record /\ Backup(a) /\ sent[a] \in Nat
      /\ sent[a] <= IF g = "go2" THEN 1 ELSE 0
  BY <1>2, OnItsWay DEF Sound
<1> DEFINE o == [op[a] EXCEPT !.cont = g]
<1>4. o \in Record
  BY <1>3, Replaced
<1>5. o.k0 = op[a].k0 /\ o.client0 = op[a].client0 /\ o.cont = g
  BY <1>3 DEF Record
<1>6. \/ Proceed(a, Return(a, o, None, "other"))
      \/ Proceed(a, [o EXCEPT !.pc = "select"])
  BY <1>1 DEF BackupGo
<1> HIDE DEF o
<1>7. Seeking(a, o, sent[a])
  BY <1>3, <1>5 DEF Seeking, Backup, Retrying
<1>8. CASE Proceed(a, Return(a, o, None, "other"))
  BY <1>2, <1>4, <1>5, <1>7, <1>8, ReturnStep DEF Got
<1>9. CASE Proceed(a, [o EXCEPT !.pc = "select"])
  BY <1>2, <1>4, <1>5, <1>7, <1>9, SeekStep DEF Getting, Past
<1> QED BY <1>6, <1>8, <1>9

\* A call ends with error e, having been given v.
LEMMA Ending ==
  ASSUME Inv, NEW a \in Ops, NEW o \in Record, NEW e \in Errors,
         NEW v \in {"no", "nil", "service"}, sent[a] \in Nat,
         sent[a] <= Budget(a),
         option.kind[a] # "go" =>
           /\ v = "nil" => e = "nil"
           /\ ~(option.kind[a] = "raw" \/ o.cont = "refused") =>
                (e = "nil" <=> v = "nil") /\ (e = "service" <=> v = "service"),
         Become(a, Done(o, e)), served' = [served EXCEPT ![a] = v],
         UNCHANGED <<option, sent>>
  PROVE  LET n == Done(o, e)
         IN  /\ Becomes(a, n, sent[a], v) /\ Sound(a, n, sent[a], v)
             /\ n.pc = "done" /\ n.client0 = None
<1> DEFINE n == Done(o, e)
<1>1. /\ n \in Record /\ n.pc = "done" /\ n.err = e /\ n.cont = o.cont
      /\ n.client0 = None
  BY DoneShape
<1>2. Becomes(a, n, sent[a], v)
  BY DEF Become, Becomes, Inv, TypeOK
<1> HIDE DEF n
<1>3. Sound(a, n, sent[a], v)
  BY <1>1 DEF Sound, Told, Getting
<1> QED BY <1>1, <1>2, <1>3 DEF n

LEMMA EndStep ==
  ASSUME Inv, NEW a \in Ops, NEW o \in Record, NEW e \in Errors,
         NEW v \in {"no", "nil", "service"}, sent[a] \in Nat,
         sent[a] <= Budget(a),
         option.kind[a] # "go" =>
           /\ v = "nil" => e = "nil"
           /\ ~(option.kind[a] = "raw" \/ o.cont = "refused") =>
                (e = "nil" <=> v = "nil") /\ (e = "service" <=> v = "service"),
         Become(a, Done(o, e)), served' = [served EXCEPT ![a] = v],
         UNCHANGED <<option, isShutdown, breakers, netVars, sent, lateDials>>
  PROVE  Inv'
<1> DEFINE n == Done(o, e)
<1>1. /\ Becomes(a, n, sent[a], v) /\ Sound(a, n, sent[a], v)
      /\ n.pc = "done" /\ n.client0 = None
  BY Ending
<1> HIDE DEF n
<1>2. Placed(a, n)
  BY <1>1 DEF Placed, Past
<1> QED BY <1>1, <1>2, CallMoves

LEMMA AttemptKeeps == ASSUME Inv, NEW a \in Ops, Attempt(a) PROVE Inv'
<1>1. PICK r \in Ends(op[a].client) :
        /\ Answer(a, r)
        /\ Become(a,
             CASE Retrying /\ Final(r) -> Done(op[a], r)
               [] ~Retrying /\ r # "other" -> Done(op[a], Outcome(a, r))
               [] OTHER -> [op[a] EXCEPT !.pc = "remove",
                              !.err = IF option.kind[a] = "raw" THEN @ ELSE r])
  BY Zenon DEF Attempt
<1>2. /\ op[a].pc = "send"
      /\ UNCHANGED <<option, isShutdown, breakers, netVars, sent, lateDials>>
  BY Zenon DEF Attempt, At
<1>3. r \in Errors
  BY DEF Ends, Errors
<1>4. /\ op[a] \in Record /\ sent[a] \in Nat /\ served[a] = "no" /\ ~Backup(a)
      /\ sent[a] <= IF Retrying THEN Retries + 1 - op[a].left ELSE 1
  BY <1>2, OnItsWay DEF Sound
<1>5. sent[a] <= Budget(a)
  BY <1>4, NumberAssumption DEF Budget, Backup, Record
<1> DEFINE v == IF r \in {"nil", "service"} THEN r ELSE "no"
<1>6. served' = [served EXCEPT ![a] = v]
  BY <1>1, <1>4 DEF Answer, Inv, TypeOK
<1>7. CASE Retrying /\ Final(r)
  <2>1. Become(a, Done(op[a], r))
    BY <1>1, <1>7, Zenon
  <2> QED BY <1>2, <1>3, <1>4, <1>5, <1>6, <1>7, <2>1, EndStep DEF Final
<1>8. CASE ~Retrying /\ r # "other"
  <2>1. Become(a, Done(op[a], Outcome(a, r)))
    BY <1>1, <1>8, Zenon
  <2>2. Outcome(a, r) \in Errors /\ (Outcome(a, r) = r \/ option.kind[a] = "raw")
    BY <1>3 DEF Outcome, Errors
  <2>3. v = "nil" => Outcome(a, r) = "nil"
    BY DEF Outcome
  <2> QED BY <1>2, <1>3, <1>4, <1>5, <1>6, <1>8, <2>1, <2>2, <2>3, EndStep
<1>9. CASE ~(Retrying /\ Final(r)) /\ ~(~Retrying /\ r # "other")
  <2> DEFINE e == IF option.kind[a] = "raw" THEN op[a].err ELSE r
             n == [op[a] EXCEPT !.pc = "remove", !.err = e]
  <2>1. Become(a, n)
    BY <1>1, <1>9
  <2>2. r = "other" /\ v = "no"
    BY <1>3, <1>9 DEF Errors, Final
  <2>3. e \in Errors /\ [op[a] EXCEPT !.pc = "remove"] \in Record
    BY <1>3, <1>4, Replaced DEF Record
  <2>4. n \in Record
    BY <2>3, Replaced, Zenon
  <2>5. /\ n.pc = "remove" /\ n.err = e /\ n.left = op[a].left
        /\ n.k = op[a].k /\ n.client = op[a].client
        /\ n.k0 = op[a].k0 /\ n.client0 = op[a].client0
    BY <1>4 DEF Record
  <2>6. Becomes(a, n, sent[a], "no")
    BY <1>2, <1>4, <1>6, <2>1, <2>2 DEF Become, Becomes, Inv, TypeOK
  <2> HIDE DEF n
  <2>7. Sound(a, n, sent[a], "no")
    BY <1>4, <2>2, <2>4, <2>5 DEF Sound, Getting
  <2>8. Placed(a, n)
    BY <1>2, <2>5, OnItsWay DEF Placed, Past
  <2> QED BY <1>2, <1>4, <2>6, <2>7, <2>8, CallMoves
<1> QED BY <1>7, <1>8, <1>9

LEMMA BackupWaitKeeps == ASSUME Inv, NEW a \in Ops, BackupWait(a) PROVE Inv'
<1>1. /\ op[a].pc \in {"wait1", "wait2"}
      /\ UNCHANGED <<option, isShutdown, breakers, netVars, sent, lateDials>>
  BY DEF BackupWait
<1>2. /\ op[a] \in Record /\ sent[a] \in Nat /\ served[a] = "no" /\ Backup(a)
      /\ sent[a] <= 2
  BY <1>1, OnItsWay DEF Sound
<1>3. sent[a] <= Budget(a)
  BY <1>2 DEF Budget, Backup, Retrying
<1>4. CASE Become(a, Done(op[a], "context")) /\ served' = served
  <2>1. served' = [served EXCEPT ![a] = "no"]
    BY <1>2, <1>4 DEF Inv, TypeOK
  <2> QED BY <1>1, <1>2, <1>3, <1>4, <2>1, EndStep DEF Errors
<1>5. ASSUME NEW c, NEW r \in Ends(c) \ {"context"}, Answer(a, r), Become(a, Done(op[a], r))
      PROVE  Inv'
  <2> DEFINE v == IF r \in {"nil", "service"} THEN r ELSE "no"
  <2>1. r \in Errors /\ r # "context"
    BY DEF Ends, Errors
  <2>2. served' = [served EXCEPT ![a] = v]
    BY <1>2, <1>5 DEF Answer, Inv, TypeOK
  <2> QED BY <1>1, <1>2, <1>3, <1>5, <2>1, <2>2, EndStep
<1>6. CASE At(a, "wait1") /\ Become(a, [op[a] EXCEPT !.pc = "go2"]) /\ served' = served
  <2> DEFINE n == [op[a] EXCEPT !.pc = "go2"]
  <2>1. n \in Record
    BY <1>2, Replaced
  <2>2. n.pc = "go2" /\ n.k0 = op[a].k0 /\ n.client0 = op[a].client0
    BY <1>2 DEF Record
  <2>3. Becomes(a, n, sent[a], "no")
    BY <1>1, <1>2, <1>6 DEF Become, Becomes, Inv, TypeOK
  <2> HIDE DEF n
  <2>4. Sound(a, n, sent[a], "no")
    BY <1>2, <1>6, <2>1, <2>2, OnItsWay DEF Sound, Getting, At
  <2>5. Placed(a, n)
    BY <1>1, <2>2, OnItsWay DEF Placed, Past
  <2> QED BY <1>1, <1>2, <2>3, <2>4, <2>5, CallMoves
<1> QED BY <1>4, <1>5, <1>6 DEF BackupWait

-----------------------------------------------------------------------------
(* Steps that change the cache, the connections or the breakers *)

\* Connections at home stay at home.
HomesStay == \A y, l : \A d \in Clients : Home(y, l, d) => Home(y, l, d)'

\* What every step keeps of the cache, but for the calls about to dial.
Cached ==
  /\ cached \in [XClients \cup {Builder} -> [Servers -> Clients \cup {None}]]
  /\ conn \in [Clients -> {"unused", "open", "lost", "closed"}]
  /\ \A p \in XClients \cup {Builder}, k \in Servers :
       cached[p][k] # None => conn[cached[p][k]] \in {"open", "lost"}
  /\ \A p, q \in XClients \cup {Builder}, k, l \in Servers :
       cached[p][k] # None /\ cached[p][k] = cached[q][l] => p = q /\ k = l
  /\ ~option.shared =>
       \A c \in Clients : conn[c] = "open" =>
         \E x \in XClients, k \in Servers : cached[x][k] = c

LEMMA DeleteKeeps ==
  ASSUME TypeOK, CacheInv, option' = option, NEW x \in XClients, NEW k,
         NEW c \in Clients \cup {None}, c # None => Home(x, k, c), Delete(x, k, c)
  PROVE  /\ Cached' /\ HomesStay
         /\ \A p \in XClients \cup {Builder}, l \in Servers :
              cached'[p][l] \in {cached[p][l], None}
<1>1. Place(x) \in XClients \cup {Builder} /\ Place(x)' = Place(x)
  BY PlaceType DEF Place
<1>2. \A d \in Clients : conn'[d] = IF d = c THEN "closed" ELSE conn[d]
  BY NumberAssumption DEF Delete, Closed, TypeOK, Clients, None
<1>3. conn' \in [Clients -> {"unused", "open", "lost", "closed"}]
  BY DEF Delete, Closed, TypeOK
<1>4. cached' \in [XClients \cup {Builder} -> [Servers -> Clients \cup {None}]]
  BY <1>1 DEF Delete, TypeOK
<1>5. \A p \in XClients \cup {Builder}, l \in Servers :
        cached'[p][l] \in {cached[p][l], None}
  BY <1>1 DEF Delete, TypeOK
<1>6. \A p \in XClients \cup {Builder}, l \in Servers :
        c # None => cached'[p][l] # c
  <2> SUFFICES ASSUME NEW p \in XClients \cup {Builder}, NEW l \in Servers,
                      c # None, cached'[p][l] = c
               PROVE  FALSE
    OBVIOUS
  <2>1. cached[p][l] = c
    BY <1>5
  <2>2. p = Place(x) /\ l = k
    BY <2>1 DEF Home
  <2>3. Find(x, k) = c
    BY <2>1, <2>2, NameAssumption DEF Find
  <2>4. cached' = [cached EXCEPT ![Place(x)][k] = None]
    BY <2>3 DEF Delete
  <2> QED BY <1>1, <2>2, <2>4 DEF TypeOK
<1>7. \A p, q \in XClients \cup {Builder}, m, l \in Servers :
        cached'[p][m] # None /\ cached'[p][m] = cached'[q][l] => p = q /\ m = l
  BY <1>5 DEF CacheInv
<1>8. \A p \in XClients \cup {Builder}, l \in Servers :
        cached'[p][l] # None => conn'[cached'[p][l]] \in {"open", "lost"}
  <2> SUFFICES ASSUME NEW p \in XClients \cup {Builder}, NEW l \in Servers,
                      cached'[p][l] # None
               PROVE  conn'[cached'[p][l]] \in {"open", "lost"}
    OBVIOUS
  <2>1. cached'[p][l] = cached[p][l] /\ cached[p][l] \in Clients
    BY <1>5 DEF TypeOK
  <2> QED BY <1>2, <1>6, <2>1 DEF CacheInv
<1>9. ASSUME ~option.shared, NEW d \in Clients, conn'[d] = "open"
      PROVE  \E y \in XClients, l \in Servers : cached'[y][l] = d
  <2>1. d # c /\ conn[d] = "open"
    BY <1>2, <1>9
  <2>2. PICK y \in XClients, l \in Servers : cached[y][l] = d
    BY <1>9, <2>1 DEF CacheInv
  <2>3. cached'[y][l] = d
    BY <1>1, <2>1, <2>2 DEF Delete, Find, TypeOK
  <2> QED BY <2>3
<1>10. HomesStay
  <2> SUFFICES ASSUME NEW y, NEW l, NEW d \in Clients, Home(y, l, d)
               PROVE  Home(y, l, d)'
    BY DEF HomesStay
  <2>1. conn'[d] # "unused" /\ d # None
    BY <1>2, NumberAssumption DEF Home, Made, Clients, None
  <2> QED BY <1>5, <2>1 DEF Home, Made, Place
<1> QED BY <1>3, <1>4, <1>5, <1>7, <1>8, <1>9, <1>10 DEF Cached

\* The parts of the invariant after a step of call a that changes the cache: its new record
\* n has let go of the lock or has just taken it.
LEMMA HomesKept ==
  ASSUME TypeOK, HomeInv, NEW a \in Ops, NEW n, op' = [op EXCEPT ![a] = n], HomesStay,
         n.pc \in {"send", "remove"} /\ n.client # None => Home(XOf[a], n.k, n.client)',
         n.client0 # None => \/ Home(XOf[a], n.k0, n.client0)'
                             \/ n.k0 = op[a].k0 /\ n.client0 = op[a].client0
  PROVE  HomeInv'
<1>1. ASSUME NEW b \in Ops, NEW o, o = op'[b]
      PROVE  /\ o.pc \in {"send", "remove"} /\ o.client # None =>
                  Home(XOf[b], o.k, o.client)'
             /\ o.client0 # None => Home(XOf[b], o.k0, o.client0)'
  <2>1. op[b].client \in Clients \cup {None} /\ op[b].client0 \in Clients \cup {None}
    BY DEF TypeOK, Record
  <2>2. CASE b = a
    <3>1. o = n
      BY <1>1, <2>2 DEF TypeOK
    <3>2. ASSUME NEW k, NEW c \in Clients, Home(XOf[a], k, c)
          PROVE  Home(XOf[a], k, c)'
      BY <3>2 DEF HomesStay
    <3>3. ASSUME n.client0 # None, n.k0 = op[a].k0, n.client0 = op[a].client0
          PROVE  Home(XOf[a], n.k0, n.client0)'
      BY <2>1, <2>2, <3>2, <3>3 DEF HomeInv
    <3> QED BY <2>2, <3>1, <3>3
  <2>3. CASE b # a
    <3>1. o = op[b]
      BY <1>1, <2>3 DEF TypeOK
    <3>2. /\ o.pc \in {"send", "remove"} /\ o.client # None => Home(XOf[b], o.k, o.client)
          /\ o.client0 # None => Home(XOf[b], o.k0, o.client0)
      BY <3>1 DEF HomeInv
    <3> QED BY <2>1, <3>1, <3>2 DEF HomesStay
  <2> QED BY <2>2, <2>3
<1> QED BY <1>1 DEF HomeInv

LEMMA ResetKeeps == ASSUME Inv, NEW a \in Ops, Reset(a) PROVE Inv'
<1> DEFINE n == [op[a] EXCEPT !.pc = "find"]
           x == XOf[a]
           k == op[a].k
<1>1. op[a].pc = "reset" /\ sent[a] \in Nat
  BY OnItsWay DEF Reset, At
<1>2. op[a] \in Record /\ Seeking(a, op[a], sent[a]) /\ k \in Servers /\ x \in XClients
  BY <1>1, OnItsWay, XOfAssumption DEF Sound, Getting, Inv, RestInv, DialInv, Past
<1>3. Sound(a, n, sent[a], "no") /\ n.pc = "find" /\ n.k = k
      /\ n.k0 = op[a].k0 /\ n.client0 = op[a].client0
  <2>1. Sound(a, n, sent[a], "no")
    BY <1>1, <1>2, SeeksOn DEF Getting, Past
  <2> QED BY <1>2, <2>1 DEF Record
<1>4. Becomes(a, n, sent[a], "no")
  BY <1>1, OnItsWay DEF Becomes, Reset, Become, Inv, TypeOK
<1> HIDE DEF n
<1>5. CallTypes' /\ CallInv'
  BY <1>1, <1>3, <1>4, CallKeeps DEF Inv
<1>6. \A b \in Ops : op'[b] = IF b = a THEN n ELSE op[b]
  BY <1>4 DEF Becomes, Inv, TypeOK
<1>7. UNCHANGED <<option, isShutdown, cached, conn, late, lateDials>>
  BY DEF Reset
<1>8. DialInv' /\ LateInv' /\ CacheInv' /\ HomeInv'
  <2>1. DialInv'
    BY <1>1, <1>3, <1>6 DEF Inv, RestInv, DialInv, At, Past
  <2>2. LateInv'
    BY <1>1, <1>3, <1>6, <1>7 DEF Inv, RestInv, LateInv, Past
  <2>3. CacheInv'
    BY <1>3, <1>6, <1>7 DEF Inv, RestInv, CacheInv, At
  <2>4. HomeInv'
    BY <1>3, <1>6, <1>7 DEF Inv, RestInv, HomeInv, Home, Made, Place
  <2> QED BY <2>1, <2>2, <2>3, <2>4
<1>9. /\ breakers' \in [XClients -> [Servers ->
           [made : BOOLEAN, failures : 0 .. Threshold, recent : BOOLEAN]]]
      /\ knocks' \in [Ops -> [Servers -> Nat]]
  BY <1>2, NumberAssumption DEF Reset, LetGo, Inv, TypeOK
<1>10. \A y \in XClients, l \in Servers :
         breakers'[y][l] = IF y = x /\ l = k
                           THEN [made |-> TRUE, failures |-> 0, recent |-> TRUE]
                           ELSE breakers[y][l]
  BY <1>2 DEF Reset, Inv, TypeOK
<1>11. \A b \in Ops, l \in Servers :
         knocks'[b][l] = IF XOf[b] = x /\ l = k THEN 0 ELSE knocks[b][l]
  BY <1>2 DEF Reset, LetGo, Inv, TypeOK
<1> HIDE DEF x, k
<1>12. KnockInv'
  <2>1. \A y \in XClients, l \in Servers : breakers'[y][l].failures > 0 => breakers'[y][l].made
    BY <1>10 DEF Inv, RestInv, KnockInv
  <2>2. ASSUME NEW b \in Ops, NEW l \in Servers
        PROVE  /\ knocks'[b][l] <= 1
               /\ knocks'[b][l] > 0 => /\ Tripped(XOf[b], l)'
                                       /\ ~(op'[b].pc \in Past /\ op'[b].k = l)
    BY <1>1, <1>3, <1>6, <1>10, <1>11, XOfAssumption
       DEF Inv, RestInv, KnockInv, Tripped, Past, x, k
  <2> QED BY <2>1, <2>2 DEF KnockInv
<1> QED BY <1>5, <1>7, <1>8, <1>9, <1>12 DEF Inv, RestInv, TypeOK, CallTypes

\* A call deletes connection c from the cache, and may take the lock for the server it
\* was cached for.
LEMMA DeleteStep ==
  ASSUME Inv, NEW a \in Ops, NEW k, NEW c \in Clients \cup {None},
         c # None => Home(XOf[a], k, c), Delete(XOf[a], k, c), ~Locked(XOf[a]),
         NEW n, NEW s \in Nat, NEW v \in {"no", "nil", "service"},
         Becomes(a, n, s, v), Sound(a, n, s, v),
         n.pc \notin {"send", "remove"},
         n.pc \in Past => /\ n.pc = "dial" /\ op[a].pc \in Past
                          /\ n.k = op[a].k /\ n.k = k /\ c = Find(XOf[a], k),
         n.client0 # None => n.k0 = op[a].k0 /\ n.client0 = op[a].client0,
         UNCHANGED <<isShutdown, breakers, late, knocks, lateDials>>
  PROVE  Inv'
<1> DEFINE x == XOf[a]
<1>1. x \in XClients /\ option' = option /\ option \in OptionSet
  BY XOfAssumption DEF Becomes, Inv, TypeOK
<1>2. /\ Cached' /\ HomesStay
      /\ \A p \in XClients \cup {Builder}, l \in Servers :
           cached'[p][l] \in {cached[p][l], None}
  BY <1>1, DeleteKeeps DEF Inv, RestInv
<1>3. CallTypes' /\ CallInv'
  BY CallKeeps DEF Inv
<1>4. \A b \in Ops : op'[b] = IF b = a THEN n ELSE op[b]
  BY DEF Becomes, Inv, TypeOK
<1>5. DialInv'
  <2>1. \A b \in Ops : XOf[b] = x => op[b].pc # "dial"
    BY DEF Locked, At
  <2> HIDE DEF x
  <2> QED BY <1>4, <2>1 DEF Inv, RestInv, DialInv, At, Past, x
<1>6. LateInv'
  <2>1. \A b \in Ops : /\ lateDials'[b] <= 1
                       /\ lateDials'[b] > 0 => XOf[b] \in isShutdown' /\ op'[b].pc \notin Past
    BY <1>4 DEF Inv, RestInv, LateInv
  <2>2. \A y \in isShutdown', l \in Servers : cached'[y][l] \in late' \cup {None}
    BY <1>2 DEF Inv, RestInv, LateInv, TypeOK
  <2> QED BY <2>1, <2>2 DEF LateInv
<1>7. KnockInv'
  BY <1>1, <1>4 DEF Inv, RestInv, KnockInv, Tripped
<1>8. CacheInv'
  <2>1. ASSUME ~option.shared, NEW b \in Ops, op'[b].pc = "dial"
        PROVE  cached'[XOf[b]][op'[b].k] = None
    <3>1. CASE b = a
      <4>1. n.pc = "dial" /\ k = op[a].k /\ c = Find(x, k) /\ op'[b].k = k
        BY <1>4, <2>1, <3>1 DEF Past
      <4>2. k \in Servers
        BY <4>1, <1>4, <2>1, <3>1 DEF Past, Inv, RestInv, DialInv
      <4>3. Place(x) = x /\ Find(x, k) = cached[x][k]
        BY <2>1, <4>2, NameAssumption DEF Place, Find
      <4>4. cached'[x][k] = None
        BY <1>1, <4>1, <4>2, <4>3 DEF Delete, Inv, TypeOK
      <4> QED BY <3>1, <4>1, <4>4
    <3>2. CASE b # a
      <4>1. op'[b] = op[b] /\ op[b].pc = "dial"
        BY <1>4, <2>1, <3>2
      <4>2. cached[XOf[b]][op[b].k] = None /\ op[b].k \in Servers /\ XOf[b] \in XClients
        BY <2>1, <4>1, XOfAssumption DEF Inv, RestInv, CacheInv, At, DialInv, Past
      <4> QED BY <1>2, <4>1, <4>2
    <3> QED BY <3>1, <3>2
  <2> QED BY <1>1, <1>2, <2>1 DEF Cached, CacheInv, At
<1>9. HomeInv'
  BY <1>2, HomesKept DEF Inv, RestInv, Becomes
<1>10. TypeOK'
  BY <1>1, <1>2, <1>3 DEF Inv, TypeOK, CallTypes, Cached
<1> QED BY <1>3, <1>5, <1>6, <1>7, <1>8, <1>9, <1>10 DEF Inv, RestInv

LEMMA LockCachedKeeps == ASSUME Inv, NEW a \in Ops, LockCached(a) PROVE Inv'
<1> DEFINE c == Find(XOf[a], op[a].k)
<1>1. /\ op[a].pc = "lock" /\ ~Locked(XOf[a])
      /\ UNCHANGED <<option, isShutdown, breakers, late, knocks, served, lateDials>>
  BY DEF LockCached, At
<1>2. /\ op[a] \in Record /\ Seeking(a, op[a], sent[a]) /\ sent[a] \in Nat
      /\ op[a].k \in Servers /\ served[a] = "no"
  BY <1>1, OnItsWay DEF Sound, Getting, Inv, RestInv, DialInv, Past
<1>3. c # None => c \in Clients /\ Home(XOf[a], op[a].k, c)
  BY <1>2, FoundHome, XOfAssumption DEF Inv, RestInv
<1>4. CASE Usable(c)
  <2>1. Proceed(a, Return(a, op[a], c, "nil")) /\ UNCHANGED netVars
    BY <1>1, <1>4 DEF LockCached, netVars
  <2>2. c # None
    BY <1>4 DEF Usable
  <2> HIDE DEF c
  <2> QED BY <1>1, <1>2, <1>3, <2>1, <2>2, ReturnStep DEF Got
<1>5. CASE ~Usable(c)
  <2> DEFINE n == [op[a] EXCEPT !.pc = "dial"]
  <2>1. Proceed(a, n) /\ Delete(XOf[a], op[a].k, c)
    BY <1>5 DEF LockCached
  <2>2. n \in Record
    BY <1>2, Replaced DEF Getting
  <2>3. /\ n.pc = "dial" /\ n.k = op[a].k /\ n.k0 = op[a].k0 /\ n.client0 = op[a].client0
        /\ n.cont = op[a].cont /\ n.left = op[a].left /\ n.err = op[a].err
    BY <1>2 DEF Record
  <2> HIDE DEF n
  <2>4. Sound(a, n, sent[a], "no") /\ ~Sends(n)
    BY <1>2, <2>2, <2>3 DEF Sound, Seeking, Getting, Sends
  <2>5. Becomes(a, n, sent[a], "no")
    BY <1>1, <2>1, <2>4, Proceeds
  <2> HIDE DEF c
  <2> QED BY <1>1, <1>2, <1>3, <2>1, <2>3, <2>4, <2>5, DeleteStep DEF Past, c
<1> QED BY <1>4, <1>5

LEMMA RemoveClientKeeps == ASSUME Inv, NEW a \in Ops, RemoveClient(a) PROVE Inv'
<1>1. /\ op[a].pc = "remove" /\ ~Locked(XOf[a]) /\ Delete(XOf[a], op[a].k, op[a].client)
      /\ UNCHANGED <<option, isShutdown, breakers, late, knocks, sent, served, lateDials>>
  BY Zenon DEF RemoveClient, At, Remove
<1>2. /\ op[a] \in Record /\ sent[a] \in Nat /\ served[a] = "no" /\ ~Backup(a)
      /\ sent[a] <= IF Retrying THEN Retries + 1 - op[a].left ELSE 1
      /\ option.kind[a] # "raw" => op[a].err = "other"
      /\ op[a].client # None => Home(XOf[a], op[a].k, op[a].client)
  BY <1>1, OnItsWay DEF Sound
<1>3. op[a].client \in Clients \cup {None}
  BY <1>2 DEF Record
<1>4. CASE Retrying
  <2>1. PICK p \in {"check", "select"} :
          Become(a, [op[a] EXCEPT !.pc = p, !.cont = "retry"])
    BY <1>4, Zenon DEF RemoveClient, Retrying
  <2> DEFINE n == [op[a] EXCEPT !.pc = p, !.cont = "retry"]
  <2>2. [op[a] EXCEPT !.pc = p] \in Record
    BY <1>2, Replaced DEF Getting
  <2>3. n \in Record
    BY <2>2, Replaced, Zenon
  <2>4. /\ n.pc = p /\ n.cont = "retry" /\ n.left = op[a].left /\ n.err = op[a].err
        /\ n.k0 = op[a].k0 /\ n.client0 = op[a].client0
    BY <1>2 DEF Record
  <2>5. Becomes(a, n, sent[a], "no")
    BY <1>1, <1>2, <2>1 DEF Become, Becomes, Inv, TypeOK
  <2> HIDE DEF n
  <2>6. Sound(a, n, sent[a], "no")
    BY <1>2, <1>4, <2>3, <2>4 DEF Sound, Seeking, Getting
  <2> QED BY <1>1, <1>2, <1>3, <2>4, <2>5, <2>6, DeleteStep DEF Past
<1>5. CASE ~Retrying
  <2> DEFINE e == Outcome(a, op[a].err)
  <2>1. Become(a, Done(op[a], e))
    BY <1>5, Zenon DEF RemoveClient, Retrying
  <2>2. e \in Errors /\ (option.kind[a] # "raw" => e = "other")
    BY <1>2 DEF Outcome, Errors, Record
  <2>3. served' = [served EXCEPT ![a] = "no"] /\ UNCHANGED <<option, sent>>
    BY <1>1, <1>2 DEF Inv, TypeOK
  <2>4. sent[a] <= Budget(a)
    BY <1>2, <1>5, NumberAssumption DEF Budget, Backup
  <2> HIDE DEF e
  <2> DEFINE n == Done(op[a], e)
  <2>5. /\ Becomes(a, n, sent[a], "no") /\ Sound(a, n, sent[a], "no")
        /\ n.pc = "done" /\ n.client0 = None
    BY <1>2, <2>1, <2>2, <2>3, <2>4, Ending
  <2> HIDE DEF n
  <2> QED BY <1>1, <1>2, <1>3, <2>5, DeleteStep DEF Past
<1> QED BY <1>4, <1>5

LEMMA BackupRefusedKeeps == ASSUME Inv, NEW a \in Ops, BackupRefused(a) PROVE Inv'
<1> DEFINE o == [op[a] EXCEPT !.cont = "refused"]
           n == Done(o, op[a].err)
<1>1. /\ op[a].pc = "refused" /\ ~Locked(XOf[a]) /\ Delete(XOf[a], op[a].k0, op[a].client0)
      /\ Become(a, n)
      /\ UNCHANGED <<option, isShutdown, breakers, late, knocks, sent, served, lateDials>>
  BY DEF BackupRefused, At, Remove
<1>2. /\ op[a] \in Record /\ sent[a] \in Nat /\ served[a] = "no" /\ Backup(a)
      /\ sent[a] <= 1
      /\ op[a].client0 # None => Home(XOf[a], op[a].k0, op[a].client0)
  BY <1>1, OnItsWay DEF Sound
<1>3. op[a].client0 \in Clients \cup {None} /\ op[a].err \in Errors
  BY <1>2 DEF Record
<1>4. o \in Record /\ o.cont = "refused"
  <2>1. o \in Record
    BY <1>2, Replaced
  <2> QED BY <1>2, <2>1 DEF Record
<1>5. served' = [served EXCEPT ![a] = "no"] /\ UNCHANGED <<option, sent>>
  BY <1>1, <1>2 DEF Inv, TypeOK
<1>6. sent[a] <= Budget(a)
  BY <1>2 DEF Budget, Backup, Retrying
<1> HIDE DEF o
<1>7. /\ Becomes(a, n, sent[a], "no") /\ Sound(a, n, sent[a], "no")
      /\ n.pc = "done" /\ n.client0 = None
  BY <1>1, <1>2, <1>3, <1>4, <1>5, <1>6, Ending
<1> HIDE DEF n
<1> QED BY <1>1, <1>2, <1>3, <1>7, DeleteStep DEF Past

\* A dial that meets an open breaker is the call's only one of that server until the
\* breaker lets go; one that fails leaves an open breaker open.
LEMMA KnockKeeps ==
  ASSUME Inv, NEW a \in Ops, op[a].pc = "dial", NEW n, n.pc \notin Past,
         op' = [op EXCEPT ![a] = n], Knock(a, op[a].k),
         \/ breakers' = breakers
         \/ breakers' = [breakers EXCEPT ![XOf[a]][op[a].k] = Failed(@)]
  PROVE  /\ KnockInv' /\ knocks' \in [Ops -> [Servers -> Nat]]
         /\ breakers' \in [XClients -> [Servers ->
              [made : BOOLEAN, failures : 0 .. Threshold, recent : BOOLEAN]]]
<1> DEFINE x == XOf[a]
           k == op[a].k
<1>1. x \in XClients /\ k \in Servers
  BY XOfAssumption DEF Inv, RestInv, DialInv, Past
<1>2. \A y \in XClients, l \in Servers :
        /\ breakers[y][l].failures \in 0 .. Threshold
        /\ breakers[y][l].failures > 0 => breakers[y][l].made
  BY DEF Inv, TypeOK, RestInv, KnockInv
<1>3. /\ breakers' \in [XClients -> [Servers ->
           [made : BOOLEAN, failures : 0 .. Threshold, recent : BOOLEAN]]]
      /\ \A y \in XClients, l \in Servers :
           /\ breakers'[y][l].failures > 0 => breakers'[y][l].made
           /\ Tripped(y, l) => Tripped(y, l)'
  <2>1. CASE breakers' = breakers
    BY <1>2, <2>1 DEF Inv, TypeOK, Tripped
  <2>2. CASE breakers' = [breakers EXCEPT ![XOf[a]][op[a].k] = Failed(@)]
    <3> DEFINE b == Failed(breakers[x][k])
    <3>1. /\ b \in [made : BOOLEAN, failures : 0 .. Threshold, recent : BOOLEAN]
          /\ b.made /\ b.recent
          /\ breakers[x][k].failures = Threshold => b.failures = Threshold
      BY <1>1, <1>2, NumberAssumption DEF Failed
    <3>2. \A y \in XClients, l \in Servers :
            breakers'[y][l] = IF y = x /\ l = k THEN b ELSE breakers[y][l]
      BY <1>1, <2>2 DEF Inv, TypeOK
    <3> HIDE DEF b, x, k
    <3>3. breakers' \in [XClients -> [Servers ->
            [made : BOOLEAN, failures : 0 .. Threshold, recent : BOOLEAN]]]
      BY <2>2, <3>1 DEF Inv, TypeOK, b, x, k
    <3> QED BY <1>2, <3>1, <3>2, <3>3 DEF Tripped
  <2> QED BY <2>1, <2>2
<1>4. /\ knocks' \in [Ops -> [Servers -> Nat]]
      /\ \A b \in Ops, l \in Servers :
           knocks'[b][l] = IF b = a /\ l = k /\ Tripped(x, k) THEN knocks[b][l] + 1
                           ELSE knocks[b][l]
  BY <1>1 DEF Knock, Inv, TypeOK
<1>5. knocks[a][k] = 0
  BY <1>1 DEF Inv, RestInv, KnockInv, TypeOK, Past
<1>6. \A b \in Ops : op'[b] = IF b = a THEN n ELSE op[b]
  BY DEF Inv, TypeOK
<1> HIDE DEF x, k
<1>7. ASSUME NEW b \in Ops, NEW l \in Servers
      PROVE  /\ knocks'[b][l] <= 1
             /\ knocks'[b][l] > 0 => /\ Tripped(XOf[b], l)'
                                     /\ ~(op'[b].pc \in Past /\ op'[b].k = l)
  <2>1. XOf[b] \in XClients
    BY XOfAssumption
  <2>2. knocks'[b][l] <= 1
    BY <1>4, <1>5 DEF Inv, RestInv, KnockInv, TypeOK
  <2>3. ASSUME knocks'[b][l] > 0
        PROVE  Tripped(XOf[b], l)'
    <3>1. Tripped(XOf[b], l)
      BY <1>4, <2>3 DEF Inv, RestInv, KnockInv, x
    <3> QED BY <1>3, <2>1, <3>1
  <2>4. ASSUME knocks'[b][l] > 0
        PROVE  ~(op'[b].pc \in Past /\ op'[b].k = l)
    BY <1>4, <1>6, <2>4 DEF Inv, RestInv, KnockInv
  <2> QED BY <2>2, <2>3, <2>4
<1> QED BY <1>3, <1>4, <1>7 DEF KnockInv

LEMMA DialFailKeeps == ASSUME Inv, NEW a \in Ops, DialFail(a) PROVE Inv'
<1>1. op[a].pc = "dial"
  BY DEF DialFail, At
<1>2. op[a] \in Record /\ Seeking(a, op[a], sent[a])
  BY <1>1, OnItsWay DEF Sound, Getting
<1> DEFINE n == Return(a, op[a], None, "other")
           s == IF Sends(n) THEN sent[a] + 1 ELSE sent[a]
<1>3. Sound(a, n, s, "no") /\ Placed(a, n) /\ s \in Nat
  BY <1>1, <1>2, Returns DEF Got
<1>4. ReturnsSoundly(a, op[a], n, None, sent[a])
  BY <1>1, <1>2, OnItsWay, Returned DEF Got
<1>5. Proceed(a, n)
  BY DEF DialFail
<1>6. Becomes(a, n, s, "no")
  BY <1>1, <1>3, <1>5, Proceeds DEF DialFail
<1> HIDE DEF n, s
<1>7. CallTypes' /\ CallInv'
  BY <1>3, <1>6, CallKeeps DEF Inv
<1>8. n.pc \notin Past
  BY <1>4 DEF ReturnsSoundly, Past
<1>9. \A b \in Ops : op'[b] = IF b = a THEN n ELSE op[b]
  BY <1>6 DEF Becomes, Inv, TypeOK
<1>10. UNCHANGED <<option, isShutdown, cached, conn, late, lateDials>>
  BY DEF DialFail
<1>11. /\ KnockInv' /\ knocks' \in [Ops -> [Servers -> Nat]]
       /\ breakers' \in [XClients -> [Servers ->
            [made : BOOLEAN, failures : 0 .. Threshold, recent : BOOLEAN]]]
  <2>1. Knock(a, op[a].k)
    BY DEF DialFail
  <2>2. \/ breakers' = breakers
        \/ breakers' = [breakers EXCEPT ![XOf[a]][op[a].k] = Failed(@)]
    BY DEF DialFail
  <2> QED BY <1>1, <1>6, <1>8, <2>1, <2>2, KnockKeeps DEF Becomes
<1>12. DialInv' /\ LateInv' /\ CacheInv' /\ HomeInv'
  <2>1. DialInv'
    BY <1>8, <1>9 DEF Inv, RestInv, DialInv, At, Past
  <2>2. LateInv'
    BY <1>8, <1>9, <1>10 DEF Inv, RestInv, LateInv
  <2>3. CacheInv'
    BY <1>8, <1>9, <1>10 DEF Inv, RestInv, CacheInv, At, Past
  <2>4. HomeInv'
    BY <1>3, <1>9, <1>10 DEF Inv, RestInv, HomeInv, Placed, Home, Made, Place
  <2> QED BY <2>1, <2>2, <2>3, <2>4
<1> QED BY <1>7, <1>10, <1>11, <1>12 DEF Inv, RestInv, TypeOK, CallTypes

\* Connection c is made by xClient x for server k.
Opens(x, k, c) ==
  /\ ~Made(c) /\ conn' = [conn EXCEPT ![c] = "open"] /\ cached' = Set(x, k, c)
  /\ ~option.shared => cached[x][k] = None
  /\ option' = option

\* A connection just made takes the place of one that was deleted or is shared.
LEMMA NewConnection ==
  ASSUME TypeOK, CacheInv, NEW x \in XClients, NEW k \in Servers, NEW c \in Clients,
         Opens(x, k, c)
  PROVE  /\ Cached' /\ HomesStay /\ Home(x, k, c)'
         /\ \A p \in XClients \cup {Builder}, l \in Servers :
              cached'[p][l] = IF p = Place(x) /\ l = k THEN c ELSE cached[p][l]
<1> USE DEF Opens
<1>1. Place(x) \in XClients \cup {Builder} /\ Place(x)' = Place(x)
  BY PlaceType DEF Place
<1>2. c # None
  BY NumberAssumption DEF Clients, None
<1>3. /\ conn' \in [Clients -> {"unused", "open", "lost", "closed"}]
      /\ \A d \in Clients : conn'[d] = IF d = c THEN "open" ELSE conn[d]
  BY DEF TypeOK
<1>4. /\ cached' \in [XClients \cup {Builder} -> [Servers -> Clients \cup {None}]]
      /\ \A p \in XClients \cup {Builder}, l \in Servers :
           cached'[p][l] = IF p = Place(x) /\ l = k THEN c ELSE cached[p][l]
  BY <1>1 DEF Set, TypeOK
<1>5. \A p \in XClients \cup {Builder}, l \in Servers : cached[p][l] # c
  BY <1>2 DEF CacheInv, Made
<1>6. \A p, q \in XClients \cup {Builder}, m, l \in Servers :
        cached'[p][m] # None /\ cached'[p][m] = cached'[q][l] => p = q /\ m = l
  BY <1>4, <1>5 DEF CacheInv
<1>7. \A p \in XClients \cup {Builder}, l \in Servers :
        cached'[p][l] # None => conn'[cached'[p][l]] \in {"open", "lost"}
  BY <1>3, <1>4, <1>5 DEF CacheInv, TypeOK
<1>8. ASSUME ~option.shared, NEW d \in Clients, conn'[d] = "open"
      PROVE  \E y \in XClients, l \in Servers : cached'[y][l] = d
  <2>1. CASE d = c
    BY <1>4, <1>8, <2>1 DEF Place
  <2>2. CASE d # c
    <3>1. PICK y \in XClients, l \in Servers : cached[y][l] = d
      BY <1>3, <1>8, <2>2 DEF CacheInv
    <3>2. d # None
      BY NumberAssumption DEF Clients, None
    <3> QED BY <1>4, <1>8, <3>1, <3>2 DEF Place
  <2> QED BY <2>1, <2>2
<1>9. HomesStay
  <2> SUFFICES ASSUME NEW y, NEW l, NEW d \in Clients, Home(y, l, d)
               PROVE  Home(y, l, d)'
    BY DEF HomesStay
  <2>1. d # c /\ conn'[d] # "unused"
    BY <1>3 DEF Home, Made
  <2> QED BY <1>4, <2>1 DEF Home, Made, Place
<1>10. Home(x, k, c)'
  BY <1>1, <1>3, <1>4, <1>5 DEF Home, Made
<1> QED BY <1>3, <1>4, <1>6, <1>7, <1>8, <1>9, <1>10 DEF Cached

LEMMA DialOkKeeps == ASSUME Inv, NEW a \in Ops, DialOk(a) PROVE Inv'
<1> DEFINE x == XOf[a]
<1>0. PICK k : k = op[a].k
  OBVIOUS
<1>1. /\ op[a].pc = "dial" /\ Knock(a, k)
      /\ UNCHANGED <<option, isShutdown, breakers, served>>
  BY <1>0 DEF DialOk, At
<1>2. PICK c \in Clients :
        /\ ~Made(c) /\ conn' = [conn EXCEPT ![c] = "open"] /\ cached' = Set(x, k, c)
        /\ IF x \in isShutdown
           THEN late' = late \cup {c} /\ lateDials' = [lateDials EXCEPT ![a] = @ + 1]
           ELSE UNCHANGED <<late, lateDials>>
        /\ Proceed(a, Return(a, op[a], c, "nil"))
  BY <1>0 DEF DialOk
<1>3. /\ op[a] \in Record /\ Seeking(a, op[a], sent[a]) /\ sent[a] \in Nat
      /\ option \in OptionSet /\ k \in Servers /\ x \in XClients
  BY <1>0, <1>1, OnItsWay, XOfAssumption DEF Sound, Getting, Inv, RestInv, DialInv, Past
<1>4. PICK n : n = Return(a, op[a], c, "nil")
  OBVIOUS
<1> DEFINE s == IF Sends(n) THEN sent[a] + 1 ELSE sent[a]
<1>5. ReturnsSoundly(a, op[a], n, c, sent[a])
  BY <1>3, <1>4, Returned DEF Got
<1>6. Sound(a, n, s, "no") /\ n.pc \notin Past /\ s \in Nat
  BY <1>3, <1>5 DEF ReturnsSoundly, Past
<1>7. Becomes(a, n, s, "no")
  BY <1>1, <1>2, <1>4, <1>6, Proceeds
<1> HIDE DEF s
<1>8. CallTypes' /\ CallInv'
  BY <1>6, <1>7, CallKeeps DEF Inv
<1>9. \A b \in Ops : op'[b] = IF b = a THEN n ELSE op[b]
  BY <1>7 DEF Becomes, Inv, TypeOK
<1>10. /\ KnockInv' /\ knocks' \in [Ops -> [Servers -> Nat]]
       /\ breakers' \in [XClients -> [Servers ->
            [made : BOOLEAN, failures : 0 .. Threshold, recent : BOOLEAN]]]
  BY <1>0, <1>1, <1>6, <1>7, KnockKeeps DEF Becomes
<1>11. /\ Cached' /\ HomesStay /\ Home(x, k, c)'
       /\ \A p \in XClients \cup {Builder}, l \in Servers :
            cached'[p][l] = IF p = Place(x) /\ l = k THEN c ELSE cached[p][l]
  <2>1. ~option.shared => cached[x][k] = None
    BY <1>0, <1>1 DEF Inv, RestInv, CacheInv, At
  <2>2. TypeOK /\ CacheInv /\ Opens(x, k, c)
    BY <1>1, <1>2, <2>1 DEF Inv, RestInv, Opens
  <2> QED BY <1>3, <2>2, NewConnection
<1>12. HomeInv'
  <2>1. n.pc \in {"send", "remove"} => n.client = c /\ n.k = k
    BY <1>0, <1>5 DEF ReturnsSoundly
  <2>2. n.client0 # None => \/ n.client0 = op[a].client0 /\ n.k0 = op[a].k0
                            \/ n.client0 = c /\ n.k0 = k
    BY <1>0, <1>5 DEF ReturnsSoundly
  <2> QED BY <1>7, <1>11, <2>1, <2>2, HomesKept DEF Inv, RestInv, Becomes
<1>13. DialInv'
  BY <1>6, <1>9 DEF Inv, RestInv, DialInv, At, Past
<1>14. \/ /\ x \in isShutdown /\ late' = late \cup {c}
          /\ lateDials' = [lateDials EXCEPT ![a] = @ + 1]
       \/ x \notin isShutdown /\ late' = late /\ lateDials' = lateDials
  BY <1>2
<1>15. LateInv'
  <2>1. ASSUME NEW b \in Ops
        PROVE  /\ lateDials'[b] <= 1
               /\ lateDials'[b] > 0 => XOf[b] \in isShutdown' /\ op'[b].pc \notin Past
    <3>1. lateDials \in [Ops -> Nat] /\ ~(lateDials[a] > 0)
      BY <1>1 DEF Inv, TypeOK, RestInv, LateInv, Past
    <3>2. lateDials'[b] = lateDials[b] \/ (b = a /\ lateDials'[b] = 1 /\ x \in isShutdown)
      BY <1>14, <3>1
    <3> QED BY <1>1, <1>6, <1>9, <3>1, <3>2 DEF Inv, RestInv, LateInv
  <2>2. ASSUME NEW y \in isShutdown', NEW l \in Servers
        PROVE  cached'[y][l] \in late' \cup {None}
    <3>1. y \in isShutdown /\ y \in XClients /\ y # Builder
      BY <1>1, NameAssumption DEF Inv, TypeOK
    <3>2. CASE y = Place(x) /\ l = k
      BY <1>2, <1>11, <3>1, <3>2 DEF Place
    <3>3. CASE ~(y = Place(x) /\ l = k)
      BY <1>2, <1>11, <3>1, <3>3 DEF Inv, RestInv, LateInv
    <3> QED BY <3>2, <3>3
  <2> QED BY <2>1, <2>2 DEF LateInv
<1>16. CacheInv'
  <2>1. ASSUME ~option.shared, NEW b \in Ops, op'[b].pc = "dial"
        PROVE  cached'[XOf[b]][op'[b].k] = None
    <3>1. b # a /\ op'[b] = op[b] /\ op[b].pc = "dial"
      BY <1>6, <1>9, <2>1 DEF Past
    <3>2. /\ cached[XOf[b]][op[b].k] = None /\ op[b].k \in Servers /\ XOf[b] \in XClients
          /\ XOf[b] # x
      BY <1>1, <2>1, <3>1, XOfAssumption DEF Inv, RestInv, CacheInv, At, DialInv, Past
    <3>3. Place(x) = x
      BY <2>1 DEF Place
    <3> QED BY <1>11, <3>1, <3>2, <3>3
  <2> QED BY <1>1, <1>11, <2>1 DEF Cached, CacheInv, At
<1>17. lateDials' \in [Ops -> Nat] /\ late' \subseteq Clients
  BY <1>14 DEF Inv, TypeOK
<1> QED BY <1>1, <1>8, <1>10, <1>11, <1>12, <1>13, <1>15, <1>16, <1>17
    DEF Inv, RestInv, TypeOK, CallTypes, Cached

LEMMA CloseKeeps == ASSUME Inv, NEW x \in XClients, Close(x) PROVE Inv'
<1>1. /\ isShutdown' = isShutdown \cup {x} /\ ~Locked(x)
      /\ UNCHANGED <<option, breakers, late, knocks, op, sent, served, lateDials>>
  BY DEF Close, opVars
<1>2. /\ conn' \in [Clients -> {"unused", "open", "lost", "closed"}]
      /\ \A c \in Clients : conn'[c] = IF c \in Own(x) THEN "closed" ELSE conn[c]
  BY DEF Close, Inv, TypeOK
<1>3. /\ cached' \in [XClients \cup {Builder} -> [Servers -> Clients \cup {None}]]
      /\ \A p \in XClients \cup {Builder}, k \in Servers :
           cached'[p][k] = IF p = x THEN None ELSE cached[p][k]
  BY DEF Close, Inv, TypeOK
<1>4. \A c \in Clients : conn[c] # "unused" => conn'[c] # "unused"
  BY <1>2
<1>5. ASSUME NEW p \in XClients \cup {Builder}, NEW k \in Servers, cached'[p][k] # None
      PROVE  /\ cached'[p][k] = cached[p][k] /\ cached[p][k] \in Clients
             /\ cached[p][k] \notin Own(x) /\ p # x
  BY <1>3, <1>5 DEF Inv, TypeOK, RestInv, CacheInv, Own
<1>6. DialInv' /\ KnockInv'
  <2>1. DialInv'
    BY <1>1 DEF Inv, RestInv, DialInv, At
  <2>2. KnockInv'
    BY <1>1 DEF Inv, RestInv, KnockInv, Tripped
  <2> QED BY <2>1, <2>2
<1>7. LateInv'
  <2>1. \A a \in Ops : /\ lateDials'[a] <= 1
                       /\ lateDials'[a] > 0 => XOf[a] \in isShutdown' /\ op'[a].pc \notin Past
    BY <1>1 DEF Inv, RestInv, LateInv
  <2>2. \A y \in isShutdown', k \in Servers : cached'[y][k] \in late' \cup {None}
    BY <1>1, <1>3 DEF Inv, TypeOK, RestInv, LateInv
  <2> QED BY <2>1, <2>2 DEF LateInv
<1>8. CacheInv'
  <2>1. \A p \in XClients \cup {Builder}, k \in Servers :
          cached'[p][k] # None => conn'[cached'[p][k]] \in {"open", "lost"}
    BY <1>2, <1>5 DEF Inv, RestInv, CacheInv
  <2>2. \A p, q \in XClients \cup {Builder}, k, l \in Servers :
          cached'[p][k] # None /\ cached'[p][k] = cached'[q][l] => p = q /\ k = l
    BY <1>5 DEF Inv, RestInv, CacheInv
  <2>3. ASSUME ~option.shared, NEW c \in Clients, conn'[c] = "open"
        PROVE  \E y \in XClients, k \in Servers : cached'[y][k] = c
    <3>1. conn[c] = "open" /\ c \notin Own(x)
      BY <1>2, <2>3
    <3>2. PICK y \in XClients, k \in Servers : cached[y][k] = c
      BY <2>3, <3>1 DEF Inv, RestInv, CacheInv
    <3>3. y # x
      BY <3>1, <3>2 DEF Own
    <3> QED BY <1>3, <3>2, <3>3
  <2>4. ASSUME ~option.shared, NEW a \in Ops, op'[a].pc = "dial"
        PROVE  cached'[XOf[a]][op'[a].k] = None
    <3>1. /\ cached[XOf[a]][op[a].k] = None /\ XOf[a] \in XClients /\ op[a].k \in Servers
          /\ op'[a] = op[a]
      BY <1>1, <2>4, XOfAssumption DEF Inv, RestInv, CacheInv, DialInv, At, Past
    <3> QED BY <1>3, <3>1
  <2> QED BY <1>1, <2>1, <2>2, <2>3, <2>4 DEF CacheInv, At
<1>9. HomeInv'
  <2>1. ASSUME NEW y, NEW k, NEW c \in Clients, Home(y, k, c)
        PROVE  Home(y, k, c)'
    BY <1>1, <1>4, <1>5, <2>1, NumberAssumption DEF Home, Made, Place, Clients, None
  <2>2. ASSUME NEW a \in Ops, NEW o, o = op[a]
        PROVE  /\ o.pc \in {"send", "remove"} /\ o.client # None =>
                    Home(XOf[a], o.k, o.client)'
               /\ o.client0 # None => Home(XOf[a], o.k0, o.client0)'
    <3>1. o.client \in Clients \cup {None} /\ o.client0 \in Clients \cup {None}
      BY <2>2 DEF Inv, TypeOK, Record
    <3>2. /\ o.pc \in {"send", "remove"} /\ o.client # None => Home(XOf[a], o.k, o.client)
          /\ o.client0 # None => Home(XOf[a], o.k0, o.client0)
      BY <2>2 DEF Inv, RestInv, HomeInv
    <3> QED BY <2>1, <3>1, <3>2
  <2> QED BY <1>1, <2>2 DEF HomeInv
<1>10. CallInv'
  BY <1>1 DEF Inv, CallInv, Sound, Seeking, Told, Retrying, Backup, Budget
<1>11. TypeOK'
  BY <1>1, <1>2, <1>3 DEF Inv, TypeOK
<1> QED BY <1>6, <1>7, <1>8, <1>9, <1>10, <1>11 DEF Inv, RestInv

LEMMA WindowKeeps ==
  ASSUME Inv, NEW x \in XClients, NEW k \in Servers, WindowPasses(x, k)
  PROVE  Inv'
<1>1. UNCHANGED <<option, isShutdown, cached, conn, late, op, sent, served, lateDials>>
  BY DEF WindowPasses, opVars
<1>2. /\ breakers' \in [XClients -> [Servers ->
           [made : BOOLEAN, failures : 0 .. Threshold, recent : BOOLEAN]]]
      /\ knocks' \in [Ops -> [Servers -> Nat]]
  <2> DEFINE Breaker == [made : BOOLEAN, failures : 0 .. Threshold, recent : BOOLEAN]
             b == [breakers[x][k] EXCEPT !.recent = FALSE]
  <2>1. breakers \in [XClients -> [Servers -> Breaker]]
    BY DEF Inv, TypeOK
  <2>2. b \in Breaker
    <3>1. breakers[x][k] \in Breaker
      BY <2>1
    <3>2. \A q \in Breaker : [q EXCEPT !.recent = FALSE] \in Breaker
      OBVIOUS
    <3> QED BY <3>1, <3>2, Zenon
  <2>3. breakers' = [breakers EXCEPT ![x][k] = b]
    BY DEF WindowPasses
  <2>4. knocks' \in [Ops -> [Servers -> Nat]]
    BY DEF WindowPasses, LetGo, Inv, TypeOK
  <2> HIDE DEF b, Breaker
  <2>5. breakers' \in [XClients -> [Servers -> Breaker]]
    BY <2>1, <2>2, <2>3
  <2> QED BY <2>4, <2>5 DEF Breaker
<1>3. \A y \in XClients, l \in Servers :
        /\ breakers'[y][l].failures = breakers[y][l].failures
        /\ breakers'[y][l].made = breakers[y][l].made
        /\ y # x \/ l # k => breakers'[y][l] = breakers[y][l]
  BY DEF WindowPasses, Inv, TypeOK
<1>4. \A a \in Ops, l \in Servers :
        knocks'[a][l] = IF XOf[a] = x /\ l = k THEN 0 ELSE knocks[a][l]
  BY DEF WindowPasses, LetGo, Inv, TypeOK
<1>5. KnockInv'
  <2>1. \A y \in XClients, l \in Servers : breakers'[y][l].failures > 0 => breakers'[y][l].made
    BY <1>3 DEF Inv, RestInv, KnockInv
  <2>2. ASSUME NEW a \in Ops, NEW l \in Servers
        PROVE  /\ knocks'[a][l] <= 1
               /\ knocks'[a][l] > 0 => /\ Tripped(XOf[a], l)'
                                       /\ ~(op'[a].pc \in Past /\ op'[a].k = l)
    BY <1>1, <1>3, <1>4, XOfAssumption DEF Inv, RestInv, KnockInv, Tripped
  <2> QED BY <2>1, <2>2 DEF KnockInv
<1>6. DialInv' /\ LateInv' /\ CacheInv' /\ HomeInv'
  BY <1>1 DEF Inv, RestInv, DialInv, LateInv, CacheInv, HomeInv, Home, Made, Place, At
<1>7. CallInv'
  BY <1>1 DEF Inv, CallInv, Sound, Seeking, Told, Retrying, Backup, Budget
<1>8. TypeOK'
  BY <1>1, <1>2 DEF Inv, TypeOK
<1> QED BY <1>5, <1>6, <1>7, <1>8 DEF Inv, RestInv

LEMMA LoseKeeps == ASSUME Inv, NEW c \in Clients, Lose(c) PROVE Inv'
<1>1. UNCHANGED <<option, isShutdown, breakers, cached, late, knocks, op, sent, served,
                  lateDials>>
  BY DEF Lose, opVars
<1>2. /\ conn' \in [Clients -> {"unused", "open", "lost", "closed"}]
      /\ conn[c] = "open"
      /\ \A d \in Clients : conn'[d] = IF d = c THEN "lost" ELSE conn[d]
  BY DEF Lose, Inv, TypeOK
<1>3. DialInv' /\ LateInv' /\ KnockInv'
  BY <1>1 DEF Inv, RestInv, DialInv, LateInv, KnockInv, At, Tripped
<1>4. CacheInv'
  BY <1>1, <1>2 DEF Inv, TypeOK, RestInv, CacheInv, At
<1>5. HomeInv'
  <2>1. \A d \in Clients \cup {None} : Made(d) => Made(d)'
    BY <1>2, NumberAssumption DEF Made, Clients, None, Lose, Inv, TypeOK
  <2>2. \A a \in Ops : op[a].client \in Clients \cup {None} /\ op[a].client0 \in Clients \cup {None}
    BY DEF Inv, TypeOK, Record
  <2> QED BY <1>1, <2>1, <2>2 DEF Inv, RestInv, HomeInv, Home, Place
<1>6. CallInv'
  BY <1>1 DEF Inv, CallInv, Sound, Seeking, Told, Retrying, Backup, Budget
<1>7. TypeOK'
  BY <1>1, <1>2 DEF Inv, TypeOK
<1> QED BY <1>3, <1>4, <1>5, <1>6, <1>7 DEF Inv, RestInv

-----------------------------------------------------------------------------
(* Theorems *)

LEMMA InitInv == Init => Inv
<1> SUFFICES ASSUME Init PROVE Inv
  OBVIOUS
<1>1. /\ \A a \in Ops : /\ op[a] = Begun /\ sent[a] = 0 /\ served[a] = "no"
                        /\ lateDials[a] = 0 /\ \A k \in Servers : knocks[a][k] = 0
      /\ Begun.pc = "new" /\ Begun.cont = "first" /\ Begun.left = Retries + 1
      /\ Begun.client0 = None
  BY DEF Init, Begun
<1>2. TypeOK
  <2>1. op \in [Ops -> Record]
    BY BegunType DEF Init
  <2>2. breakers \in [XClients -> [Servers ->
          [made : BOOLEAN, failures : 0 .. Threshold, recent : BOOLEAN]]]
    BY NumberAssumption DEF Init
  <2>3. /\ cached \in [XClients \cup {Builder} -> [Servers -> Clients \cup {None}]]
        /\ conn \in [Clients -> {"unused", "open", "lost", "closed"}]
        /\ late \subseteq Clients /\ isShutdown \subseteq XClients /\ option \in OptionSet
    BY DEF Init
  <2>4. /\ sent \in [Ops -> Nat] /\ served \in [Ops -> {"no", "nil", "service"}]
        /\ lateDials \in [Ops -> Nat] /\ knocks \in [Ops -> [Servers -> Nat]]
    BY DEF Init
  <2> QED BY <2>1, <2>2, <2>3, <2>4 DEF TypeOK
<1>3. CallInv
  BY <1>1, BegunType, NumberAssumption DEF CallInv, Sound, Seeking
<1>4. DialInv /\ LateInv /\ CacheInv /\ HomeInv
  BY <1>1 DEF Init, DialInv, LateInv, CacheInv, HomeInv, Past, At
<1>5. KnockInv
  BY <1>1 DEF Init, KnockInv
<1> QED BY <1>2, <1>3, <1>4, <1>5 DEF Inv, RestInv

LEMMA NextInv == Inv /\ [Next]_vars => Inv'
<1> SUFFICES ASSUME Inv, [Next]_vars PROVE Inv'
  OBVIOUS
<1>1. ASSUME NEW a \in Ops, OpStep(a) PROVE Inv'
  BY <1>1, EnterKeeps, SelectKeeps, CheckKeeps, ResetKeeps, FindCachedKeeps,
     LockCachedKeeps, DialOkKeeps, DialFailKeeps, AttemptKeeps, RemoveClientKeeps,
     BackupGoKeeps, BackupWaitKeeps, BackupRefusedKeeps, Zenon DEF OpStep
<1>2. CASE UNCHANGED vars
  <2> USE <1>2 DEF vars, netVars, opVars
  <2>1. TypeOK' /\ CallInv'
    BY DEF Inv, TypeOK, CallInv, Sound, Seeking, Told, Retrying, Backup, Budget
  <2>2. RestInv'
    BY DEF Inv, RestInv, DialInv, LateInv, KnockInv, CacheInv, HomeInv, Home, Made, Place,
           At, Tripped
  <2> QED BY <2>1, <2>2 DEF Inv
<1> QED BY <1>1, <1>2, CloseKeeps, WindowKeeps, LoseKeeps DEF Next

\* What the invariant says of the properties: the parts it was made of, and the count of
\* the entries of a connection.
LEMMA InvImplies ==
  Inv => /\ TypeOK /\ ErrorIsOutcome /\ AnswerEndsRetries /\ CacheTracksConnections
         /\ CloseLeavesLateDials /\ OpenBreakerStopsDials
<1> SUFFICES ASSUME Inv
             PROVE  /\ TypeOK /\ ErrorIsOutcome /\ AnswerEndsRetries /\ CacheTracksConnections
                    /\ CloseLeavesLateDials /\ OpenBreakerStopsDials
  OBVIOUS
<1>1. TypeOK
  BY DEF Inv
<1>2. ErrorIsOutcome
  BY DEF Inv, CallInv, Sound, Told, ErrorIsOutcome, Vague, At
<1>3. AnswerEndsRetries
  <2> SUFFICES ASSUME NEW a \in Ops
               PROVE  (served[a] # "no" => At(a, "done")) /\ sent[a] <= Budget(a)
    BY DEF AnswerEndsRetries
  <2>1. Sound(a, op[a], sent[a], served[a])
    BY DEF Inv, CallInv
  <2>2. sent[a] \in Nat /\ op[a] \in Record
    BY DEF Inv, TypeOK
  <2>3. op[a].left \in 0 .. Retries + 1 /\ Retries \in Nat
    BY <2>2, NumberAssumption DEF Record
  <2>4. /\ Retrying => Budget(a) = Retries + 1 /\ ~Backup(a)
        /\ Backup(a) => Budget(a) = 2
        /\ ~Retrying => Budget(a) \in {1, 2}
    BY DEF Budget, Backup, Retrying
  <2>5. CASE op[a].pc = "done"
    BY <2>1, <2>5 DEF Sound, At
  <2>6. CASE op[a].pc \in Getting \cup {"new"}
    BY <2>1, <2>2, <2>3, <2>4, <2>6 DEF Sound, Seeking, Getting
  <2>7. CASE op[a].pc \in {"send", "remove"}
    BY <2>1, <2>2, <2>3, <2>4, <2>7 DEF Sound
  <2>8. CASE op[a].pc \in {"go1", "wait1", "go2", "wait2", "refused"}
    BY <2>1, <2>2, <2>4, <2>8 DEF Sound
  <2> QED BY <2>2, <2>5, <2>6, <2>7, <2>8 DEF Record, Getting
<1>4. CacheTracksConnections
  <2> DEFINE Entry(at) == cached[at[1]][at[2]]
             entries == {at \in (XClients \cup {Builder}) \X Servers : Entry(at) # None}
  <2>1. \A at \in entries : conn[Entry(at)] # "closed"
    BY DEF Inv, RestInv, CacheInv
  <2>2. ASSUME ~option.shared, NEW c \in Clients, conn[c] = "open"
        PROVE  Cardinality({at \in entries : Entry(at) = c}) = 1
    <3>1. PICK x \in XClients, k \in Servers : cached[x][k] = c
      BY <2>2 DEF Inv, RestInv, CacheInv
    <3>2. c # None
      BY NumberAssumption DEF Clients, None
    <3>3. ASSUME NEW at \in entries, Entry(at) = c
          PROVE  at = <<x, k>>
      BY <3>1, <3>2, <3>3 DEF Inv, RestInv, CacheInv
    <3>4. {at \in entries : Entry(at) = c} = {<<x, k>>}
      BY <3>1, <3>2, <3>3
    <3> HIDE DEF entries, Entry
    <3>5. Cardinality({<<x, k>>}) = 1
      BY FS_Singleton
    <3> QED BY <3>4, <3>5
  <2> QED BY <2>1, <2>2 DEF CacheTracksConnections
<1>5. CloseLeavesLateDials
  BY DEF Inv, RestInv, LateInv, CloseLeavesLateDials
<1>6. OpenBreakerStopsDials
  BY DEF Inv, RestInv, KnockInv, OpenBreakerStopsDials
<1> QED BY <1>1, <1>2, <1>3, <1>4, <1>5, <1>6

LEMMA InvHolds == Spec => []Inv
  BY InitInv, NextInv, PTL DEF Spec

\* Every variable keeps its type.
THEOREM XTypeCorrect == Spec => []TypeOK
  BY InvHolds, InvImplies, PTL

\* The error a caller of Call or SendRaw gets is the outcome of its attempts, whatever the
\* fail mode and the retries, and whoever removes or closes the connections it is using
\* (xclient.go:493-651, 684-788).
THEOREM ErrorsAreOutcomes == Spec => []ErrorIsOutcome
  BY InvHolds, InvImplies, PTL

\* No server is asked after one has answered, nor more often than the retries allow; a
\* Failbackup asks at most twice (531-640).
THEOREM RetriesEnd == Spec => []AnswerEndsRetries
  BY InvHolds, InvImplies, PTL

\* No closed connection is found in the cache, and without a shared builder an open one is
\* under exactly one key (300-317, 326-372, cache_client_builder.go).
THEOREM CacheTracks == Spec => []CacheTracksConnections
  BY InvHolds, InvImplies, PTL

\* Close leaves only connections that calls dialled after it, having looked at isShutdown
\* before: at most one per call (279, 1283-1296).
THEOREM CloseLeavesLate == Spec => []CloseLeavesLateDials
  BY InvHolds, InvImplies, PTL

\* Each call dials a server at most once while its breaker is open (283-287, 386-390;
\* circuit_breaker.go:67-102).
THEOREM BreakersStopDials == Spec => []OpenBreakerStopsDials
  BY InvHolds, InvImplies, PTL
=============================================================================
