---------------------------- MODULE XaceXClient ----------------------------
(***************************************************************************)
(* The service client of xace: xClient (src/xace/client/xclient.go), its   *)
(* cache of connections, the builder that shares connections between       *)
(* xClients (cache_client_builder.go), the circuit breakers                *)
(* (circuit_breaker.go) and the fail modes of Call, Go and SendRaw.        *)
(*                                                                         *)
(* A connection is a client.Client, the subject of XaceClient; here it is  *)
(* open, lost (its input loop has ended) or closed (by this process), and  *)
(* a request on it has one of four outcomes.                               *)
(***************************************************************************)
EXTENDS Integers, FiniteSets

CONSTANTS
  XClients,   \* the xClients of the process
  Ops,        \* calls of the application
  XOf,        \* the xClient each is made on
  Servers,    \* the servers discovery has told them of
  Builder,    \* the registered CacheClientBuilder
  NoServer,   \* the empty key selectClient returns with an error
  OptionSet,  \* the configurations considered
  Retries,    \* Option.Retries
  Threshold,  \* failures that open a breaker
  MaxDials    \* bound: connections that can be made

FailModes == {"failover", "failfast", "failtry", "failbackup"}
OpKinds == {"call", "go", "raw", "none"}

ASSUME XOfAssumption == XOf \in [Ops -> XClients]
ASSUME NumberAssumption ==
  Retries \in Nat /\ Threshold \in Nat \ {0} /\ MaxDials \in Nat
ASSUME NameAssumption == Builder \notin XClients /\ NoServer \notin Servers
ASSUME OptionAssumption ==
  OptionSet \subseteq [failMode : FailModes,
                       kind : [Ops -> OpKinds],   \* "none": not made
                       shared : BOOLEAN,          \* the network has a builder
                       breaker : BOOLEAN,         \* Option.GenBreaker is set
                       closed : SUBSET XClients,  \* those the application closes
                       servers : SUBSET Servers]  \* what the selectors know

VARIABLES
  option,      \* the configuration, fixed when the xClients are made
  isShutdown,  \* the xClients that Close has marked
  cached,      \* cachedClient of each xClient, and the clients of the builder
  conn,        \* every connection made
  breakers,
  op,          \* one record per call: where it is and its local variables
  \* history
  sent,        \* requests handed to a connection
  served,      \* how a server answered them
  late,        \* connections made after Close
  lateDials,   \* how many of them each call made
  knocks       \* each call's dials of a server since its breaker opened

opVars == <<op, sent, served, lateDials>>
netVars == <<cached, conn, late, knocks>>
vars == <<option, isShutdown, breakers, netVars, opVars>>

None == 0
Clients == 1 .. MaxDials
Errors == {"nil", "service", "context", "other"}

\* The local variables of a call: k, client, err, e, retries; those of Failbackup; and
\* where getCachedClient returns to.
Begun ==
  [pc |-> "new", cont |-> "first", k |-> NoServer, client |-> None, err |-> "nil",
   e |-> "nil", left |-> Retries + 1, k0 |-> NoServer, client0 |-> None, first |-> None]

Init ==
  /\ option \in OptionSet
  /\ isShutdown = {}
  /\ cached = [p \in XClients \cup {Builder} |-> [k \in Servers |-> None]]
  /\ conn = [c \in Clients |-> "unused"]
  /\ breakers = [x \in XClients |->
                  [k \in Servers |-> [made |-> FALSE, failures |-> 0, recent |-> FALSE]]]
  /\ op = [a \in Ops |-> Begun]
  /\ sent = [a \in Ops |-> 0]
  /\ served = [a \in Ops |-> "no"]
  /\ late = {}
  /\ lateDials = [a \in Ops |-> 0]
  /\ knocks = [a \in Ops |-> [k \in Servers |-> 0]]

At(a, pc) == op[a].pc = pc
Become(a, o) == op' = [op EXCEPT ![a] = o]

\* Dialling happens under xClient.mu, so xClient.mu is held while a call dials.
Locked(x) == \E a \in Ops : XOf[a] = x /\ At(a, "dial")

-----------------------------------------------------------------------------
(* The cache: 326-358, cache_client_builder.go *)

\* Where xClient x keeps its connections.
Place(x) == IF option.shared THEN Builder ELSE x

Find(x, k) == IF k = NoServer THEN None ELSE cached[Place(x)][k]

Usable(c) == c # None /\ conn[c] = "open"

Closed(c) == IF c = None THEN conn ELSE [conn EXCEPT ![c] = "closed"]

\* deleteCachedClient, for the connection found under k
Delete(x, k, c) ==
  /\ cached' = IF c # None /\ Find(x, k) = c
               THEN [cached EXCEPT ![Place(x)][k] = None] ELSE cached
  /\ conn' = Closed(c)

\* Mutant: the connection is closed and stays in the cache.
CloseOnly(x, k, c) == conn' = Closed(c) /\ UNCHANGED cached

\* removeClient: taken out if it is still the cached one, and closed in any case.
Remove(x, k, c) == Delete(x, k, c)

-----------------------------------------------------------------------------
(* The breaker of a server: circuit_breaker.go:67-102.  recent: the window since the   *)
(* last failure or reset has not passed.  Failures beyond the threshold make no          *)
(* difference.                                                                           *)

\* Mutant: one failure more than the threshold opens the breaker.
ReadyAtThreshold(b) == ~b.recent \/ b.failures <= Threshold

\* ready()
Ready(b) == ~b.recent \/ b.failures < Threshold

Failed(b) ==
  [made |-> TRUE, recent |-> TRUE,
   failures |-> IF b.failures < Threshold THEN b.failures + 1 ELSE Threshold]

Tripped(x, k) == breakers[x][k].recent /\ breakers[x][k].failures = Threshold

\* The breaker that call a has for server k: a dial while it is open is noted, and
\* forgotten when it lets go.
Knock(a, k) ==
  knocks' = IF Tripped(XOf[a], k) THEN [knocks EXCEPT ![a][k] = @ + 1] ELSE knocks

LetGo(x, k) ==
  knocks' = [a \in Ops |-> IF XOf[a] = x THEN [knocks[a] EXCEPT ![k] = 0] ELSE knocks[a]]

WindowPasses(x, k) ==
  /\ breakers[x][k].recent
  /\ breakers' = [breakers EXCEPT ![x][k].recent = FALSE]
  /\ LetGo(x, k)
  /\ UNCHANGED <<option, isShutdown, cached, conn, late, opVars>>

-----------------------------------------------------------------------------
(* What becomes of a call: each operator maps its record to the next one. *)

Done(o, e) == [Begun EXCEPT !.pc = "done", !.err = e, !.cont = o.cont]

\* Where the result of removeClient leaves SendRaw outside Failtry and Failover: its error
\* is dropped (786).
Outcome(a, e) == IF option.kind[a] = "raw" THEN "nil" ELSE e

Retrying == option.failMode \in {"failtry", "failover"}

\* Mutant: one attempt too many.
LoopTooLong(o) ==
  IF o.left < 0 THEN Done(o, o.err)
  ELSE [o EXCEPT !.left = @ - 1, !.pc = IF o.client = None THEN "remove" ELSE "send"]

\* Mutant: the error of the last getCachedClient is returned.
LoopLastError(o) ==
  IF o.left = 0 THEN Done(o, o.e)
  ELSE [o EXCEPT !.left = @ - 1, !.pc = IF o.client = None THEN "remove" ELSE "send"]

\* Mutant: an attempt without a connection does not count.
LoopUncounted(o) ==
  IF o.left = 0 THEN Done(o, IF o.err = "nil" THEN o.e ELSE o.err)
  ELSE IF o.client = None THEN [o EXCEPT !.pc = "remove"]
  ELSE [o EXCEPT !.left = @ - 1, !.pc = "send"]

\* The head of the loops of Failtry and Failover, and what follows them (533-557).
Loop(o) ==
  IF o.left = 0
  THEN Done(o, IF o.err = "nil" THEN o.e ELSE o.err)
  ELSE [o EXCEPT !.left = @ - 1, !.pc = IF o.client = None THEN "remove" ELSE "send"]

\* selectClient has returned k, client and e to Call, Go or SendRaw.
AfterSelect(a, o, c, e) ==
  CASE option.kind[a] = "go" \/ (e # "nil" /\ option.failMode = "failfast") -> Done(o, e)
    [] option.failMode = "failbackup" /\ option.kind[a] = "call" ->
         [o EXCEPT !.pc = "go1", !.k0 = o.k, !.client0 = c]
    [] Retrying /\ option.kind[a] # "go" -> Loop([o EXCEPT !.client = c, !.err = e])
    [] OTHER -> [o EXCEPT !.client = c, !.err = e,
                          !.pc = IF c = None THEN "remove" ELSE "send"]

\* getCachedClient or selectClient returns connection c and error e.
Return(a, o, c, e) ==
  CASE o.cont = "first" -> AfterSelect(a, o, c, e)
    [] o.cont = "retry" -> Loop([o EXCEPT !.client = c, !.e = e])
    [] o.cont = "go1"   -> [o EXCEPT !.pc = "wait1", !.first = c, !.err = e]
    [] o.cont = "go2"   -> IF e # "nil" THEN [o EXCEPT !.pc = "refused"]
                           ELSE [o EXCEPT !.pc = "wait2", !.client = c]

\* A request is written as soon as the call has a connection to write it to.
Sends(o) == o.pc \in {"send", "wait2"} \/ (o.pc = "wait1" /\ o.first # None)

Proceed(a, o) ==
  /\ Become(a, o)
  /\ sent' = [sent EXCEPT ![a] = IF Sends(o) THEN @ + 1 ELSE @]

-----------------------------------------------------------------------------
(* selectClient and getCachedClient: 254-324 *)

Enter(a) ==
  /\ At(a, "new") /\ option.kind[a] # "none"
  /\ Become(a, IF XOf[a] \in isShutdown THEN Done(op[a], "other")
               ELSE [op[a] EXCEPT !.pc = "select"])
  /\ UNCHANGED <<option, isShutdown, breakers, netVars, sent, served, lateDials>>

\* Any server the selector knows; none gives ErrXClientNoServer and an empty key.
Select(a) ==
  /\ At(a, "select") /\ ~Locked(XOf[a])
  /\ \/ \E k \in option.servers : Proceed(a, [op[a] EXCEPT !.pc = "check", !.k = k])
     \/ /\ option.servers = {}
        /\ Proceed(a, Return(a, [op[a] EXCEPT !.k = NoServer], None, "other"))
  /\ UNCHANGED <<option, isShutdown, breakers, netVars, served, lateDials>>

\* Mutant: getCachedClient does not look at isShutdown.
AdmittedClosed(a) == TRUE

\* isShutdown, read without the lock (279)
Admitted(a) == XOf[a] \notin isShutdown

\* An empty address cannot be dialled.
Check(a) ==
  /\ At(a, "check")
  /\ LET b == IF op[a].k = NoServer THEN [made |-> FALSE]
              ELSE breakers[XOf[a]][op[a].k]
     IN Proceed(a,
          IF ~Admitted(a) \/ op[a].k = NoServer \/ (b.made /\ ~Ready(b))
          THEN Return(a, op[a], None, "other")
          ELSE [op[a] EXCEPT !.pc = IF b.made /\ ~b.recent THEN "reset" ELSE "find"])
  /\ UNCHANGED <<option, isShutdown, breakers, netVars, served, lateDials>>

\* The reset of ready(), decided when the window was found to have passed.
Reset(a) ==
  /\ At(a, "reset")
  /\ Become(a, [op[a] EXCEPT !.pc = "find"])
  /\ breakers' = [breakers EXCEPT ![XOf[a]][op[a].k] =
                    [made |-> TRUE, failures |-> 0, recent |-> TRUE]]
  /\ LetGo(XOf[a], op[a].k)
  /\ UNCHANGED <<option, isShutdown, cached, conn, late, sent, served, lateDials>>

\* Under the read lock (290-297).
FindCached(a) ==
  /\ At(a, "find") /\ ~Locked(XOf[a])
  /\ LET c == Find(XOf[a], op[a].k) IN
     Proceed(a, IF Usable(c) THEN Return(a, op[a], c, "nil")
                ELSE [op[a] EXCEPT !.pc = "lock"])
  /\ UNCHANGED <<option, isShutdown, breakers, netVars, served, lateDials>>

\* Under the lock, which stays held while the call dials (300-308).
LockCached(a) ==
  /\ At(a, "lock") /\ ~Locked(XOf[a])
  /\ LET c == Find(XOf[a], op[a].k) IN
     \/ /\ Usable(c)
        /\ Proceed(a, Return(a, op[a], c, "nil"))
        /\ UNCHANGED <<cached, conn>>
     \/ /\ ~Usable(c)
        /\ Proceed(a, [op[a] EXCEPT !.pc = "dial"])
        /\ Delete(XOf[a], op[a].k, c)
  /\ UNCHANGED <<option, isShutdown, breakers, late, knocks, served, lateDials>>

\* setCachedClient
Set(x, k, c) == [cached EXCEPT ![Place(x)][k] = c]

Made(c) == conn[c] # "unused"

\* generateClient and setCachedClient (310-317, 374-396)
DialOk(a) ==
  /\ At(a, "dial")
  /\ \E c \in Clients :
       /\ ~Made(c) /\ \A d \in Clients : d < c => Made(d)
       /\ conn' = [conn EXCEPT ![c] = "open"]
       /\ cached' = Set(XOf[a], op[a].k, c)
       /\ IF XOf[a] \in isShutdown
          THEN late' = late \cup {c} /\ lateDials' = [lateDials EXCEPT ![a] = @ + 1]
          ELSE UNCHANGED <<late, lateDials>>
       /\ Proceed(a, Return(a, op[a], c, "nil"))
  /\ Knock(a, op[a].k)
  /\ UNCHANGED <<option, isShutdown, breakers, served>>

DialFail(a) ==
  /\ At(a, "dial")
  /\ breakers' = IF option.breaker
                 THEN [breakers EXCEPT ![XOf[a]][op[a].k] = Failed(@)] ELSE breakers
  /\ Knock(a, op[a].k)
  /\ Proceed(a, Return(a, op[a], None, "other"))
  /\ UNCHANGED <<option, isShutdown, cached, conn, late, served, lateDials>>

-----------------------------------------------------------------------------
(* wrapCall and wrapSendRaw: 790-834 *)

\* How a request on connection c may end.  Only an open connection brings an answer.
Ends(c) == {"context", "other"} \cup IF conn[c] = "open" THEN {"nil", "service"} ELSE {}

\* Mutant: an error the server itself reports is retried like any other.
FinalService(r) == r \in {"nil", "context"}

\* Errors after which Failtry and Failover do not try again (538-546).
Final(r) == r \in {"nil", "context", "service"}

Answer(a, r) ==
  served' = IF r \in {"nil", "service"} THEN [served EXCEPT ![a] = r] ELSE served

\* In SendRaw the error of the attempt is a variable of the loop's body (727, 754), so the
\* one tested and returned later is that of the first selectClient.
Attempt(a) ==
  /\ At(a, "send")
  /\ \E r \in Ends(op[a].client) :
       /\ Answer(a, r)
       /\ Become(a,
            CASE Retrying /\ Final(r) -> Done(op[a], r)
              [] ~Retrying /\ r # "other" -> Done(op[a], Outcome(a, r))
              [] OTHER -> [op[a] EXCEPT !.pc = "remove",
                             !.err = IF option.kind[a] = "raw" THEN @ ELSE r])
  /\ UNCHANGED <<option, isShutdown, breakers, netVars, sent, lateDials>>

\* removeClient, and on to the next attempt: the same server, another one, or none.
RemoveClient(a) ==
  /\ At(a, "remove") /\ ~Locked(XOf[a])
  /\ Remove(XOf[a], op[a].k, op[a].client)
  /\ Become(a, CASE option.failMode = "failtry" ->
                      [op[a] EXCEPT !.pc = "check", !.cont = "retry"]
                 [] option.failMode = "failover" ->
                      [op[a] EXCEPT !.pc = "select", !.cont = "retry"]
                 [] OTHER -> Done(op[a], Outcome(a, op[a].err)))
  /\ UNCHANGED <<option, isShutdown, breakers, late, knocks, sent, served, lateDials>>

-----------------------------------------------------------------------------
(* Failbackup: 587-640 *)

\* c.Go, which makes its own selection (600, 616).
BackupGo(a, from, cont) ==
  /\ At(a, from)
  /\ LET o == [op[a] EXCEPT !.cont = cont] IN
     Proceed(a, IF XOf[a] \in isShutdown THEN Return(a, o, None, "other")
                ELSE [o EXCEPT !.pc = "select"])
  /\ UNCHANGED <<option, isShutdown, breakers, netVars, served, lateDials>>

FirstGo(a) == BackupGo(a, "go1", "go1")
SecondGo(a) == BackupGo(a, "go2", "go2")

\* The connections whose answer the call is waiting for.
Awaited(a) == {op[a].first, op[a].client} \ {None}

\* The context ends, or one of the requests is answered; the timer leads to the second.
BackupWait(a) ==
  /\ op[a].pc \in {"wait1", "wait2"}
  /\ \/ Become(a, Done(op[a], "context")) /\ served' = served
     \/ \E c \in IF At(a, "wait1") THEN {op[a].first} \ {None} ELSE Awaited(a) :
          \E r \in Ends(c) \ {"context"} : Answer(a, r) /\ Become(a, Done(op[a], r))
     \/ /\ At(a, "wait1")
        /\ Become(a, [op[a] EXCEPT !.pc = "go2"]) /\ served' = served
  /\ UNCHANGED <<option, isShutdown, breakers, netVars, sent, lateDials>>

\* The second request cannot be sent: the connection first selected is removed and the
\* error of the first Go is returned, which says nothing of its answer (617-623).
BackupRefused(a) ==
  /\ At(a, "refused") /\ ~Locked(XOf[a])
  /\ Remove(XOf[a], op[a].k0, op[a].client0)
  /\ Become(a, Done([op[a] EXCEPT !.cont = "refused"], op[a].err))
  /\ UNCHANGED <<option, isShutdown, breakers, late, knocks, sent, served, lateDials>>

-----------------------------------------------------------------------------
(* Close: 1283-1311.  A builder's connections are not the xClient's own. *)

Own(x) == {c \in Clients : \E k \in Servers : cached[x][k] = c}

Close(x) ==
  /\ x \in option.closed \ isShutdown /\ ~Locked(x)
  /\ isShutdown' = isShutdown \cup {x}
  /\ conn' = [c \in Clients |-> IF c \in Own(x) THEN "closed" ELSE conn[c]]
  /\ cached' = [cached EXCEPT ![x] = [k \in Servers |-> None]]
  /\ UNCHANGED <<option, breakers, late, knocks, opVars>>

\* The peer or the network ends a connection.
Lose(c) ==
  /\ conn[c] = "open"
  /\ conn' = [conn EXCEPT ![c] = "lost"]
  /\ UNCHANGED <<option, isShutdown, breakers, cached, late, knocks, opVars>>

-----------------------------------------------------------------------------
OpStep(a) ==
  \/ Enter(a) \/ Select(a) \/ Check(a) \/ Reset(a) \/ FindCached(a) \/ LockCached(a)
  \/ DialOk(a) \/ DialFail(a) \/ Attempt(a) \/ RemoveClient(a)
  \/ FirstGo(a) \/ SecondGo(a) \/ BackupWait(a) \/ BackupRefused(a)

Next ==
  \/ \E a \in Ops : OpStep(a)
  \/ \E x \in XClients : Close(x)
  \/ \E x \in XClients, k \in Servers : WindowPasses(x, k)
  \/ \E c \in Clients : Lose(c)

Spec == Init /\ [][Next]_vars

\* A goroutine goes on; a request is answered, its connection is lost or its context ends.
Fairness == \A a \in Ops : WF_vars(OpStep(a) /\ ~At(a, "new"))

LiveSpec == Spec /\ Fairness

-----------------------------------------------------------------------------
(* Properties *)

Record ==
  [pc : {"new", "select", "check", "reset", "find", "lock", "dial", "send", "remove",
         "go1", "wait1", "go2", "wait2", "refused", "done"},
   cont : {"first", "retry", "go1", "go2", "refused"},
   k : Servers \cup {NoServer}, client : Clients \cup {None},
   err : Errors, e : Errors, left : 0 .. Retries + 1,
   k0 : Servers \cup {NoServer}, client0 : Clients \cup {None},
   first : Clients \cup {None}]

\* Type invariant.
TypeOK ==
  /\ option \in OptionSet
  /\ isShutdown \subseteq XClients
  /\ cached \in [XClients \cup {Builder} -> [Servers -> Clients \cup {None}]]
  /\ conn \in [Clients -> {"unused", "open", "lost", "closed"}]
  /\ breakers \in [XClients -> [Servers ->
       [made : BOOLEAN, failures : 0 .. Threshold, recent : BOOLEAN]]]
  /\ op \in [Ops -> Record]
  /\ sent \in [Ops -> Nat]
  /\ served \in [Ops -> {"no", "nil", "service"}]
  /\ late \subseteq Clients
  /\ lateDials \in [Ops -> Nat]
  /\ knocks \in [Ops -> [Servers -> Nat]]

\* A call whose nil error says nothing: every SendRaw that ran out of attempts or fails
\* outside Failtry and Failover (745-748, 786), and a Failbackup whose second request was
\* refused (617-623).
Vague(a) == option.kind[a] = "raw" \/ op[a].cont = "refused"

\* The error a caller gets is the outcome of the attempts, however many were made, on
\* whichever connections, and whoever else removed or closed those connections: nil
\* exactly if a server answered so, a ServiceError exactly if one reported it (493-651).
\* A vague nil at least does not hide behind an error that a server answered.
ErrorIsOutcome ==
  \A a \in Ops :
    At(a, "done") /\ option.kind[a] # "go" =>
      /\ served[a] = "nil" => op[a].err = "nil"
      /\ ~Vague(a) => /\ op[a].err = "nil" <=> served[a] = "nil"
                      /\ op[a].err = "service" <=> served[a] = "service"

\* Requests a call may send: the first and its retries, or the first and its backup.
Budget(a) ==
  CASE Retrying -> Retries + 1
    [] option.failMode = "failbackup" /\ option.kind[a] = "call" -> 2
    [] OTHER -> 1

\* No server is asked again once one has answered, also with a ServiceError, and nobody is
\* asked more often than the retries allow (531-586).
AnswerEndsRetries ==
  \A a \in Ops : /\ served[a] # "no" => At(a, "done")
                 /\ sent[a] <= Budget(a)

\* The cache knows the connections: none that an xClient has closed is in it, where a call
\* would find it, and every open one is, under one key, where Close would find it (300-317,
\* 326-372).  A connection that its own heartbeat closed (client.go 812-815) counts as
\* lost: it stays in the cache, and only IsClosing keeps calls from it (291-297).  xClients
\* that share a builder take different locks, and the second to dial replaces the
\* connection of the first.
CacheTracksConnections ==
  LET Entry(at) == cached[at[1]][at[2]]
      entries == {at \in (XClients \cup {Builder}) \X Servers : Entry(at) # None}
  IN /\ \A at \in entries : conn[Entry(at)] # "closed"
     /\ ~option.shared =>
          \A c \in Clients : conn[c] = "open" =>
            Cardinality({at \in entries : Entry(at) = c}) = 1

\* What an xClient still has cached after Close was dialled after it, by a call that had
\* looked at isShutdown before; each such call leaves at most one (279, 1283-1296).
CloseLeavesLateDials ==
  /\ \A a \in Ops : lateDials[a] <= 1
  /\ \A x \in isShutdown, k \in Servers : cached[x][k] \in late \cup {None}

\* While a breaker is open each call dials its server at most once, having looked at the
\* breaker before it opened (283-287, 386-390).
OpenBreakerStopsDials == \A a \in Ops, k \in Servers : knocks[a][k] <= 1

\* Every call comes back, under every fail mode, whatever it has to wait for: again and
\* again there is none on its way.
CallsReturn == []<>(\A a \in Ops : op[a].pc \in {"new", "done"})
=============================================================================
