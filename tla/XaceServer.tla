----------------------------- MODULE XaceServer -----------------------------
(***************************************************************************)
(* The server of xace: server.Server (src/xace/server/server.go), from the *)
(* accept loop to Shutdown and Close.                                      *)
(*                                                                         *)
(* Goroutines: the accept loop (serveListener), one serveConn and, with    *)
(* AsyncWrite, one serveAsyncWrite per connection, one processOneRequest   *)
(* per request (started with go or run by the worker pool), one caller of  *)
(* Shutdown and one of Close.  An action is what one of them does between  *)
(* two points at which another can interfere.                              *)
(***************************************************************************)
EXTENDS Naturals, FiniteSets

CONSTANTS
  Conns,      \* the connections clients open
  Requests,   \* the requests they send
  ConnOf,     \* the connection each request arrives on
  Kind,       \* what each request is (Kinds)
  PoolSize,   \* workers of the pool, when there is one
  PoolCap,    \* tasks its queue holds
  OptionSet   \* the configurations considered

Kinds == {"call", "oneway", "heartbeat", "handler"}

ASSUME FiniteAssumption == IsFiniteSet(Requests)
ASSUME ConnOfAssumption == ConnOf \in [Requests -> Conns]
ASSUME KindAssumption == Kind \in [Requests -> Kinds]
ASSUME PoolAssumption == PoolSize \in Nat \ {0} /\ PoolCap \in Nat \ {0}
ASSUME OptionAssumption ==
  OptionSet \subseteq [async : BOOLEAN,   \* Server.AsyncWrite
                       pool : BOOLEAN,    \* Server.pool is not nil
                       tcp : BOOLEAN,     \* connections are *net.TCPConn
                       close : BOOLEAN,   \* the application calls Close
                       shutdown : BOOLEAN,   \* the application calls Shutdown
                       guard : BOOLEAN]   \* AuthFunc is set, and a plugin limits the rate

VARIABLES
  \* the accept loop
  lnOpen, lpc,
  \* one entry per connection: its serveConn and its socket
  cpc,
  cur,        \* the request serveConn has read and not yet passed on: {} or one
  open,       \* connections this side has not closed
  readShut,   \* connections whose read side Shutdown closed
  active,     \* Server.activeConn
  broken,     \* history: given up for what the peer sent, or because it left
  \* one entry per request: its processOneRequest
  rpc,
  answered,   \* responses written to the connection while it was open
  silent,     \* history: requests whose processing ended without trying to answer
  handlerMsgNum,
  \* with AsyncWrite: the channel and the writer of each connection
  writeCh, chClosed, writer, writing,
  \* Shutdown, Close, the pool
  inShutdown, doneClosed, spc, kpc,
  expired,    \* the context of Shutdown ended before the handlers did
  early,      \* history: requests being processed when Shutdown began
  poolStopped,
  option      \* the configuration, fixed when the server is built

listenVars == <<lnOpen, lpc>>
sockVars   == <<open, readShut, active, broken>>
connVars   == <<cpc, cur, sockVars>>
reqVars    == <<rpc, answered, silent, handlerMsgNum>>
writeVars  == <<writeCh, chClosed, writer, writing>>
downVars   == <<inShutdown, doneClosed, spc, kpc, expired, early, poolStopped>>
otherVars  == <<listenVars, downVars, option>>
vars == <<connVars, reqVars, writeVars, otherVars>>

Init ==
  /\ lnOpen = TRUE /\ lpc = "accept"
  /\ cpc = [c \in Conns |-> "new"]
  /\ cur = [c \in Conns |-> {}]
  /\ open = {} /\ readShut = {} /\ active = {} /\ broken = {}
  /\ rpc = [r \in Requests |-> "new"]
  /\ answered = [r \in Requests |-> 0]
  /\ silent = {} /\ handlerMsgNum = 0
  /\ writeCh = [c \in Conns |-> {}] /\ chClosed = {}
  /\ writer = [c \in Conns |-> "none"] /\ writing = [c \in Conns |-> {}]
  /\ inShutdown = FALSE /\ doneClosed = FALSE /\ spc = "none" /\ kpc = "none"
  /\ expired = FALSE /\ early = {} /\ poolStopped = FALSE
  /\ option \in OptionSet

\* Close keeps Server.mu while it waits for the pool.
MutexFree == kpc # "stopping"

Step(c, from, to) == cpc[c] = from /\ cpc' = [cpc EXCEPT ![c] = to]

\* The states of a request between the two updates of handlerMsgNum.
Counted == {"running", "respond", "leaving"}

-----------------------------------------------------------------------------
(* serveListener: server.go:246-309 *)

Accept(c) ==
  /\ lpc = "accept" /\ lnOpen
  /\ \A d \in Conns : cpc[d] # "accepted"
  /\ Step(c, "new", "accepted")
  /\ open' = open \cup {c}
  /\ UNCHANGED <<cur, readShut, active, broken, reqVars, writeVars, otherVars>>

\* A DoPostConnAccept plugin turns the connection away.
Reject(c) ==
  /\ Step(c, "accepted", "ended")
  /\ open' = open \ {c}
  /\ UNCHANGED <<cur, readShut, active, broken, reqVars, writeVars, otherVars>>

\* Mutant: serveConn starts before the connection is in activeConn.
RegisterUntracked(c) ==
  /\ Step(c, "accepted", "start")
  /\ UNCHANGED <<cur, reqVars, writeVars, sockVars, otherVars>>

\* Between Accept and here Shutdown or Close may have been through activeConn.
Register(c) ==
  /\ MutexFree
  /\ Step(c, "accepted", "start")
  /\ active' = active \cup {c}
  /\ UNCHANGED <<cur, open, readShut, broken, reqVars, writeVars, otherVars>>

\* Accept on the closed listener.  An error that ends the loop while the listener is
\* open acts as if nobody connected any more.
AcceptFail ==
  /\ lpc = "accept" /\ ~lnOpen /\ \A d \in Conns : cpc[d] # "accepted"
  /\ lpc' = IF inShutdown THEN "wait" ELSE "failed"
  /\ UNCHANGED <<lnOpen, connVars, reqVars, writeVars, downVars, option>>

ServeReturn ==
  /\ lpc = "wait" /\ doneClosed
  /\ lpc' = "ErrServerClosed"
  /\ UNCHANGED <<lnOpen, connVars, reqVars, writeVars, downVars, option>>

-----------------------------------------------------------------------------
(* sendResponse: server.go:326-343 *)

\* conn.Write, whose error nobody looks at
WriteTo(r) ==
  answered' = [answered EXCEPT ![r] = IF ConnOf[r] \in open THEN @ + 1 ELSE @]

\* writeCh has one place; a sender waits for it.
Enqueue(r) ==
  /\ ConnOf[r] \notin chClosed /\ writeCh[ConnOf[r]] = {}
  /\ writeCh' = [writeCh EXCEPT ![ConnOf[r]] = {r}]

SendResponse(r) ==
  \/ ~option.async /\ WriteTo(r) /\ UNCHANGED writeCh
  \/ option.async /\ Enqueue(r) /\ UNCHANGED answered

-----------------------------------------------------------------------------
(* serveConn: server.go:345-489, 627-666 *)

\* Where serveConn goes when it returns: close(writeCh) is its first deferred call.
Leave == IF option.async THEN "closeCh" ELSE "defer"

\* Mutant: serveConn starts without asking for isShutdown.
StartUnchecked(c) ==
  /\ Step(c, "start", "read")
  /\ writer' = [writer EXCEPT ![c] = IF option.async THEN "run" ELSE @]
  /\ UNCHANGED <<cur, reqVars, writeCh, chClosed, writing, sockVars, otherVars>>

\* A connection that arrives during a shutdown is closed at once, without waiting.
Start(c) ==
  /\ Step(c, "start", IF inShutdown THEN "close" ELSE "loop")
  /\ writer' = [writer EXCEPT ![c] = IF option.async /\ ~inShutdown THEN "run" ELSE @]
  /\ UNCHANGED <<cur, reqVars, writeCh, chClosed, writing, sockVars, otherVars>>

Loop(c) ==
  /\ Step(c, "loop", IF inShutdown THEN Leave ELSE "read")
  /\ UNCHANGED <<cur, reqVars, writeVars, sockVars, otherVars>>

\* A request is read.  What the reader had buffered is read even from a connection
\* closed meanwhile; inShutdown is not looked at again.
ReadRequest(c, r) ==
  /\ Step(c, "read", "handle")
  /\ rpc[r] = "new" /\ ConnOf[r] = c
  /\ rpc' = [rpc EXCEPT ![r] = "taken"]
  /\ cur' = [cur EXCEPT ![c] = {r}]
  /\ UNCHANGED <<answered, silent, handlerMsgNum, writeVars, sockVars, otherVars>>

\* The read fails: this side shut the connection down, the peer left or sent something
\* unreadable, or a plugin refused (DoPreReadRequest, DoPostReadRequest).
ReadFail(c) ==
  /\ Step(c, "read", Leave)
  /\ broken' = IF c \in readShut \/ c \notin open THEN broken ELSE broken \cup {c}
  /\ UNCHANGED <<cur, open, readShut, active, reqVars, writeVars, otherVars>>

\* Mutant: the limited request is answered and run all the same (a missing continue).
LimitAndRun(c) ==
  /\ Step(c, "handle", "limited")
  /\ \E r \in cur[c] : rpc' = [rpc EXCEPT ![r] = "submitted"]
  /\ UNCHANGED <<cur, answered, silent, handlerMsgNum, writeVars, sockVars, otherVars>>

\* ErrReqReachLimit: the request is answered with an error, or dropped, and not run.
Limit(c) ==
  /\ option.guard /\ cur[c] # {}
  /\ Step(c, "handle", IF \E r \in cur[c] : Kind[r] = "oneway" THEN "loop" ELSE "limited")
  /\ cur' = [cur EXCEPT ![c] = IF \E r \in cur[c] : Kind[r] = "oneway" THEN {} ELSE @]
  /\ UNCHANGED <<reqVars, writeVars, sockVars, otherVars>>

\* AuthFunc refuses the request; the connection will be closed.
AuthFail(c) ==
  /\ option.guard /\ cur[c] # {} /\ \A r \in cur[c] : Kind[r] # "heartbeat"
  /\ Step(c, "handle", IF \E r \in cur[c] : Kind[r] = "oneway" THEN Leave ELSE "denied")
  /\ cur' = [cur EXCEPT ![c] = IF \E r \in cur[c] : Kind[r] = "oneway" THEN {} ELSE @]
  /\ broken' = broken \cup {c}
  /\ UNCHANGED <<open, readShut, active, reqVars, writeVars, otherVars>>

AfterReply(c) == IF cpc[c] = "limited" THEN "loop" ELSE Leave

\* serveConn itself answers a limited or denied request.
Reply(c) ==
  /\ cpc[c] \in {"limited", "denied"}
  /\ \E r \in cur[c] : SendResponse(r)
  /\ cpc' = [cpc EXCEPT ![c] = AfterReply(c)]
  /\ cur' = [cur EXCEPT ![c] = {}]
  /\ UNCHANGED <<rpc, silent, handlerMsgNum, chClosed, writer, writing, sockVars, otherVars>>

Queued == {r \in Requests : rpc[r] = "submitted"}

\* go processOneRequest, or pool.Submit, which waits while the queue is full.
Submit(c) ==
  /\ Step(c, "handle", "loop")
  /\ option.pool => ~poolStopped /\ Cardinality(Queued) < PoolCap
  /\ \E r \in cur[c] : rpc' = [rpc EXCEPT ![r] = "submitted"]
  /\ cur' = [cur EXCEPT ![c] = {}]
  /\ UNCHANGED <<answered, silent, handlerMsgNum, writeVars, sockVars, otherVars>>

\* Submit on a pool that Close has stopped panics; serveConn recovers and returns.
SubmitPanics(c) ==
  /\ option.pool /\ poolStopped
  /\ Step(c, "handle", Leave)
  /\ cur' = [cur EXCEPT ![c] = {}]
  /\ UNCHANGED <<reqVars, writeVars, sockVars, otherVars>>

\* Mutant: serveConn returns without closing its channel.
CloseChNot(c) ==
  /\ Step(c, "closeCh", "defer")
  /\ UNCHANGED <<cur, reqVars, writeVars, sockVars, otherVars>>

CloseCh(c) ==
  /\ Step(c, "closeCh", "defer")
  /\ chClosed' = chClosed \cup {c}
  /\ UNCHANGED <<cur, reqVars, writeCh, writer, writing, sockVars, otherVars>>

\* Mutant: the deferred function does not wait for the shutdown.
DeferNoWait(c) ==
  /\ Step(c, "defer", "close")
  /\ UNCHANGED <<cur, reqVars, writeVars, sockVars, otherVars>>

Defer(c) ==
  /\ Step(c, "defer", IF inShutdown THEN "await" ELSE "close")
  /\ UNCHANGED <<cur, reqVars, writeVars, sockVars, otherVars>>

AwaitDone(c) ==
  /\ doneClosed
  /\ Step(c, "await", "close")
  /\ UNCHANGED <<cur, reqVars, writeVars, sockVars, otherVars>>

\* closeConn: the connection leaves activeConn under the lock ...
Forget(c) ==
  /\ MutexFree
  /\ Step(c, "close", "shut")
  /\ active' = active \ {c}
  /\ UNCHANGED <<cur, open, readShut, broken, reqVars, writeVars, otherVars>>

\* ... and is closed outside it.
CloseConn(c) ==
  /\ Step(c, "shut", "ended")
  /\ open' = open \ {c}
  /\ UNCHANGED <<cur, readShut, active, broken, reqVars, writeVars, otherVars>>

-----------------------------------------------------------------------------
(* processOneRequest: server.go:491-584, 668-860 *)

Running == {r \in Requests : rpc[r] \in Counted}

Begin(r) ==
  /\ rpc[r] = "submitted"
  /\ option.pool => Cardinality(Running) < PoolSize
  /\ rpc' = [rpc EXCEPT ![r] = "running"]
  /\ handlerMsgNum' = handlerMsgNum + 1
  /\ UNCHANGED <<answered, silent, connVars, writeVars, otherVars>>

\* Written to the connection, past the channel of AsyncWrite.
Heartbeat(r) ==
  /\ rpc[r] = "running" /\ Kind[r] = "heartbeat"
  /\ WriteTo(r)
  /\ rpc' = [rpc EXCEPT ![r] = "leaving"]
  /\ UNCHANGED <<silent, handlerMsgNum, connVars, writeVars, otherVars>>

\* The service or the handler returns.  An error is answered like a result, and so is a
\* panic of a service, which call() turns into an error.
Handle(r) ==
  /\ rpc[r] = "running" /\ Kind[r] # "heartbeat"
  /\ rpc' = [rpc EXCEPT ![r] = IF Kind[r] = "oneway" THEN "leaving" ELSE "respond"]
  /\ UNCHANGED <<answered, silent, handlerMsgNum, connVars, writeVars, otherVars>>

\* A panic that processOneRequest itself recovers, without an answer: of a plugin, of a
\* handler, of the codec on an argument or a reply it does not know.  A handler that
\* returns without writing does the same.
EndSilently(r) ==
  /\ rpc[r] = "running"
  /\ rpc' = [rpc EXCEPT ![r] = "leaving"]
  /\ silent' = silent \cup {r}
  /\ UNCHANGED <<answered, handlerMsgNum, connVars, writeVars, otherVars>>

\* sendResponse, or Context.Write of a handler
Respond(r) ==
  /\ rpc[r] = "respond"
  /\ SendResponse(r)
  /\ rpc' = [rpc EXCEPT ![r] = "leaving"]
  /\ UNCHANGED <<silent, handlerMsgNum, connVars, chClosed, writer, writing, otherVars>>

\* serveConn has returned and closed the channel: the send panics and is recovered.
RespondPanics(r) ==
  /\ rpc[r] = "respond" /\ option.async /\ ConnOf[r] \in chClosed
  /\ rpc' = [rpc EXCEPT ![r] = "leaving"]
  /\ UNCHANGED <<answered, silent, handlerMsgNum, connVars, writeVars, otherVars>>

\* Mutant: the end of the request and the deferred call both decrement handlerMsgNum.
FinishTwice(r) ==
  /\ rpc[r] = "leaving"
  /\ rpc' = [rpc EXCEPT ![r] = "finished"]
  /\ handlerMsgNum' = handlerMsgNum - 2
  /\ UNCHANGED <<answered, silent, connVars, writeVars, otherVars>>

\* Mutant: handlerMsgNum is not decremented when the request ends.
FinishUncounted(r) ==
  /\ rpc[r] = "leaving"
  /\ rpc' = [rpc EXCEPT ![r] = "finished"]
  /\ UNCHANGED <<silent, handlerMsgNum, answered, connVars, writeVars, otherVars>>

Finish(r) ==
  /\ rpc[r] = "leaving"
  /\ rpc' = [rpc EXCEPT ![r] = "finished"]
  /\ handlerMsgNum' = handlerMsgNum - 1
  /\ UNCHANGED <<answered, silent, connVars, writeVars, otherVars>>

-----------------------------------------------------------------------------
(* serveAsyncWrite: server.go:589-605 *)

WriterTake(c) ==
  /\ writer[c] = "run" /\ writing[c] = {} /\ writeCh[c] # {}
  /\ writing' = [writing EXCEPT ![c] = writeCh[c]]
  /\ writeCh' = [writeCh EXCEPT ![c] = {}]
  /\ UNCHANGED <<chClosed, writer, connVars, reqVars, otherVars>>

WriterWrite(c) ==
  /\ writing[c] # {}
  /\ \E r \in writing[c] : WriteTo(r)
  /\ writing' = [writing EXCEPT ![c] = {}]
  /\ UNCHANGED <<writeCh, chClosed, writer, connVars, rpc, silent, handlerMsgNum, otherVars>>

\* select takes the closed doneChan even when a response is waiting.
WriterStop(c) ==
  /\ writer[c] = "run" /\ writing[c] = {}
  /\ doneClosed \/ (c \in chClosed /\ writeCh[c] = {})
  /\ writer' = [writer EXCEPT ![c] = "stopped"]
  /\ UNCHANGED <<writeCh, chClosed, writing, connVars, reqVars, otherVars>>

-----------------------------------------------------------------------------
(* Shutdown and Close: server.go:888-908, 934-1004, 1044-1059 *)

\* The compare-and-swap that lets one caller in.
ShutdownBegin ==
  /\ option.shutdown /\ spc = "none"
  /\ inShutdown' = TRUE /\ early' = Running
  /\ spc' = "stop"
  /\ UNCHANGED <<doneClosed, kpc, expired, poolStopped, listenVars, connVars, reqVars,
                 writeVars, option>>

ShutdownStop ==
  /\ spc = "stop" /\ MutexFree
  /\ lnOpen' = FALSE
  /\ readShut' = IF option.tcp THEN readShut \cup active ELSE readShut
  /\ spc' = "poll"
  /\ UNCHANGED <<lpc, cpc, cur, open, active, broken, inShutdown, doneClosed, kpc,
                 expired, early, poolStopped, reqVars, writeVars, option>>

\* checkProcessMsg
ShutdownPoll ==
  /\ spc = "poll" /\ handlerMsgNum = 0
  /\ spc' = "final"
  /\ UNCHANGED <<inShutdown, doneClosed, kpc, expired, early, poolStopped, listenVars,
                 connVars, reqVars, writeVars, option>>

ShutdownExpire ==
  /\ spc = "poll" /\ handlerMsgNum # 0
  /\ expired' = TRUE /\ spc' = "final"
  /\ UNCHANGED <<inShutdown, doneClosed, kpc, early, poolStopped, listenVars, connVars,
                 reqVars, writeVars, option>>

\* Every connection in activeConn is closed, and doneChan.
CloseActive ==
  /\ open' = open \ active
  /\ active' = {}
  /\ doneClosed' = TRUE

\* Mutant: doneChan stays open.
ShutdownFinalSilent ==
  /\ spc = "final" /\ MutexFree
  /\ open' = open \ active
  /\ active' = {}
  /\ spc' = "ended"
  /\ UNCHANGED <<cpc, cur, readShut, broken, inShutdown, doneClosed, kpc, expired,
                 early, poolStopped, listenVars, reqVars, writeVars, option>>

ShutdownFinal ==
  /\ spc = "final" /\ MutexFree
  /\ CloseActive
  /\ spc' = "ended"
  /\ UNCHANGED <<cpc, cur, readShut, broken, inShutdown, kpc, expired, early,
                 poolStopped, listenVars, reqVars, writeVars, option>>

\* Close does not set inShutdown.  With a pool it holds the lock while the pool stops.
Close ==
  /\ option.close /\ kpc = "none"
  /\ lnOpen' = FALSE
  /\ CloseActive
  /\ poolStopped' = option.pool
  /\ kpc' = IF option.pool THEN "stopping" ELSE "ended"
  /\ UNCHANGED <<lpc, cpc, cur, readShut, broken, inShutdown, spc, expired, early,
                 reqVars, writeVars, option>>

\* The tasks of the pool are done, or ten seconds have passed.
PoolStopped ==
  /\ kpc = "stopping" /\ kpc' = "ended"
  /\ UNCHANGED <<inShutdown, doneClosed, spc, expired, early, poolStopped, listenVars,
                 connVars, reqVars, writeVars, option>>

-----------------------------------------------------------------------------
Listener == (\E c \in Conns : Accept(c) \/ Reject(c) \/ Register(c))
            \/ AcceptFail \/ ServeReturn

\* What serveConn does by itself; Limit, AuthFail and a peer that leaves are not its own.
Pass(c) == \/ Start(c) \/ Loop(c) \/ Reply(c) \/ Submit(c) \/ SubmitPanics(c)
           \/ CloseCh(c) \/ Defer(c) \/ AwaitDone(c) \/ Forget(c) \/ CloseConn(c)

ServeConn(c) == \/ Pass(c) \/ ReadFail(c) \/ Limit(c) \/ AuthFail(c)
                \/ \E r \in Requests : ReadRequest(c, r)

ProcessOneRequest(r) ==
  \/ Begin(r) \/ Heartbeat(r) \/ Handle(r) \/ EndSilently(r)
  \/ Respond(r) \/ RespondPanics(r) \/ Finish(r)

ServeAsyncWrite(c) == WriterTake(c) \/ WriterWrite(c) \/ WriterStop(c)

Shutdown == ShutdownStop \/ ShutdownPoll \/ ShutdownFinal

Next == \/ Listener
        \/ \E c \in Conns : ServeConn(c) \/ ServeAsyncWrite(c)
        \/ \E r \in Requests : ProcessOneRequest(r)
        \/ ShutdownBegin \/ Shutdown \/ ShutdownExpire
        \/ Close \/ PoolStopped

Spec == Init /\ [][Next]_vars

(* Goroutines go on; services and handlers return, peers read what is written to them,  *)
(* and the pool stops within its deadline.  Nobody has to connect, to send, to leave or *)
(* to shut the server down; a read fails only once this side ended the connection.      *)
Fairness ==
  /\ WF_vars(Listener)
  /\ \A c \in Conns :
       /\ WF_vars(Pass(c))
       /\ WF_vars((c \in readShut \/ c \notin open) /\ ReadFail(c))
       /\ WF_vars(ServeAsyncWrite(c))
  /\ \A r \in Requests : WF_vars(ProcessOneRequest(r))
  /\ WF_vars(Shutdown)
  /\ WF_vars(PoolStopped)

LiveSpec == Spec /\ Fairness

-----------------------------------------------------------------------------
(* Properties *)

\* Type invariant.
TypeOK ==
  /\ lnOpen \in BOOLEAN /\ lpc \in {"accept", "wait", "ErrServerClosed", "failed"}
  /\ cpc \in [Conns -> {"new", "accepted", "start", "loop", "read", "handle", "limited",
                        "denied", "closeCh", "defer", "await", "close", "shut", "ended"}]
  /\ cur \in [Conns -> SUBSET Requests]
  /\ open \subseteq Conns /\ readShut \subseteq Conns /\ active \subseteq Conns
  /\ broken \subseteq Conns
  /\ rpc \in [Requests -> {"new", "taken", "submitted", "finished"} \cup Counted]
  /\ answered \in [Requests -> Nat] /\ silent \subseteq Requests
  /\ handlerMsgNum \in Nat
  /\ writeCh \in [Conns -> SUBSET Requests] /\ writing \in [Conns -> SUBSET Requests]
  /\ chClosed \subseteq Conns
  /\ writer \in [Conns -> {"none", "run", "stopped"}]
  /\ inShutdown \in BOOLEAN /\ doneClosed \in BOOLEAN /\ expired \in BOOLEAN
  /\ spc \in {"none", "stop", "poll", "final", "ended"}
  /\ kpc \in {"none", "stopping", "ended"}
  /\ early \subseteq Requests
  /\ poolStopped \in BOOLEAN
  /\ option \in OptionSet

\* A connection nobody but Shutdown has a reason to close, in a shutdown with time enough.
Undisturbed(c) == c \notin broken /\ kpc = "none" /\ ~expired

\* Its goroutine has ended and its answer, if any, is not in the hands of a writer.
Over(r) == rpc[r] = "finished" /\ r \notin writeCh[ConnOf[r]] \cup writing[ConnOf[r]]

\* A request whose sender is owed an answer: not one whose own processing ended without
\* one, in a recovered panic (492-499) or in a handler that writes nothing.
Owed(r) == Kind[r] # "oneway" /\ r \notin silent

\* A request that was being processed when Shutdown began and that its own processing
\* answers is answered before Shutdown or serveConn closes its connection: neither the
\* count, nor the order in which they close, lets one go (367-373, 500-502, 956-970, 990-996).
InflightDrained ==
  \A r \in early :
    /\ Owed(r) /\ Undisturbed(ConnOf[r])
    /\ ConnOf[r] \notin open \/ Over(r)
    => answered[r] = 1

\* No request read from a connection loses its answer to a Shutdown (927-930).
ShutdownInterruptsNothing ==
  \A r \in Requests :
    /\ Owed(r) /\ Undisturbed(ConnOf[r])
    /\ Over(r)
    => answered[r] = 1

\* A request is answered at most once and a one-way request never, whether serveConn
\* answers it (limit, authentication) or its own goroutine (418-430, 456-479, 505-576).
AnsweredOnce ==
  \A r \in Requests : answered[r] <= IF Kind[r] = "oneway" THEN 0 ELSE 1

\* Shutdown and Close find every connection that is being served: it is in activeConn
\* from before its serveConn starts until that closes it (299-307, 631-639).
OpenConnsTracked ==
  \A c \in open : cpc[c] \in {"accepted", "shut"} \/ c \in active

\* A connection still open when Shutdown has ended is one that its serveConn had already
\* given up and is about to close, or one that was accepted while Shutdown ran and that is
\* turned away without ever being served (299-307, 346-349, 631-639).
LateConnsTurnedAway ==
  spc = "ended" =>
    \A c \in open : \/ cpc[c] = "shut"
                    \/ cpc[c] \in {"accepted", "start", "close"} /\ writer[c] = "none"

\* serveConn waits for a place in writeCh to answer a request itself, and the writer has
\* stopped: only serveConn would close the channel, so it waits for ever.
SelfBlocked(c) ==
  cpc[c] \in {"limited", "denied"} /\ writer[c] = "stopped" /\ writeCh[c] # {}

\* Close went through activeConn before the connection was registered, and stopped its
\* writer: the connection is served on, and the response of r waits for a place that
\* nobody will make as long as the peer stays.
MissedByClose(r) ==
  /\ kpc # "none" /\ ConnOf[r] \in open
  /\ rpc[r] = "respond" /\ writer[ConnOf[r]] = "stopped" /\ writeCh[ConnOf[r]] # {}

\* Shutdown comes to its end without its context, once the handlers have finished: they
\* count themselves out on every path, recovered panics included (491-502, 956-998).
\* The one thing that holds it up is a response on a connection that Close missed.
ShutdownCompletes ==
  spc # "none" ~> spc = "ended" \/ \E r \in Requests : MissedByClose(r)

\* After a Shutdown every connection that was accepted is closed and its serveConn ends,
\* also when it was accepted, but not yet registered, while Shutdown went through
\* activeConn.  A serveConn that blocks itself does not end, nor does a Shutdown that a
\* response on a connection missed by Close holds up.
ConnsReleased ==
  \A c \in Conns :
    inShutdown /\ cpc[c] # "new" ~>
      \/ (cpc[c] = "ended" \/ SelfBlocked(c)) /\ c \notin open
      \/ \E r \in Requests : MissedByClose(r)

\* Every request that is being processed comes to an end, also when it waits for a place
\* in writeCh after its writer has stopped (395, 589-595), unless serveConn blocks itself
\* or Close has missed the connection.
HandlersFinish ==
  \A r \in Requests :
    rpc[r] \in Counted ~>
      rpc[r] = "finished" \/ MissedByClose(r) \/ SelfBlocked(ConnOf[r])
=============================================================================
