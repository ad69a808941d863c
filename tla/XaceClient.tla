----------------------------- MODULE XaceClient -----------------------------
(***************************************************************************)
(* One RPC connection of xace: client.Client (src/xace/client/client.go).  *)
(*                                                                         *)
(* Concurrent goroutines share the Client: the callers (Call, Go, SendRaw, *)
(* one-way calls), the heartbeat loop, the input loop that reads the       *)
(* connection, the callers of Close, and the application that reads        *)
(* ServerMessageChan.  An action is the code one goroutine runs between    *)
(* two points at which another can interfere: a critical section of        *)
(* client.mutex, a write or a read of the connection, a channel operation. *)
(*                                                                         *)
(* The map client.pending is the set `pending` of the calls it holds; a    *)
(* call's key is seqOf[c], so pending[s] is the call in At(s).             *)
(***************************************************************************)
EXTENDS Naturals, FiniteSets

CONSTANTS
  Calls,      \* the Call objects of a behaviour, each used by one goroutine
  Kind,       \* how each call is issued (Kinds)
  RawSeq,     \* r.Seq() of the messages given to SendRaw
  Closers,    \* goroutines of the application that call Client.Close once
  ChanCap,    \* capacity of ServerMessageChan
  MaxPush,    \* bound: messages the server pushes on its own
  OptionSet   \* the configurations considered

Kinds == {"call", "go", "notify", "heartbeat", "raw", "rawOneway"}

ASSUME KindAssumption == Kind \in [Calls -> Kinds]
ASSUME RawSeqAssumption == RawSeq \in [Calls -> Nat]
ASSUME BoundAssumption == ChanCap \in Nat /\ MaxPush \in Nat
ASSUME OptionAssumption ==
  OptionSet \subseteq [codecKnown : BOOLEAN,         \* share.Codecs has the SerializeType
                       bidirectionalBlock : BOOLEAN,
                       listens : BOOLEAN]            \* ServerMessageChan is registered

VARIABLES
  \* one entry per call: its goroutine and its Call object
  pc,         \* where the goroutine that issued the call is
  seqOf,      \* the key: *seq of call(), seq of send(), r.Seq() of SendRaw
  callErr,    \* Call.Error
  reply,      \* whose answer is in Call.Reply: {} or a singleton
  done,       \* copies of the call in its Done channel
  signals,    \* history: how often Call.done() ran
  result,     \* history: the error the caller was given
  ctxDone,    \* the context of the call is cancelled or past its deadline
  \* the fields of Client
  pending, seq, closing, shutdown, pluginClosed,
  registered, \* history: calls that were ever put in pending
  late,       \* history: calls that reached send() or SendRaw after the client ended
  \* the connection and the server behind it
  connOpen,   \* Client.Conn was not closed by this side
  written,    \* calls whose request was written to the connection
  answered,   \* calls whose response was read from it
  hollow,     \* history: calls whose response held no value for their caller
  notified,   \* runs of Plugins.DoClientConnectionClose
  \* the input goroutine
  ipc, ierr,
  held,       \* the call taken from pending and not yet completed: {} or one
  from,       \* the request the response at hand answers: {} or one
  \* ServerMessageChan
  chanSet,    \* client.ServerMessageChan is not nil
  chanOpen,   \* the application has not closed the channel
  queued, pushes,
  \* the configuration, fixed when the client is built
  option,
  closeRes    \* what each Close returned

callVars   == <<pc, seqOf, callErr, reply, done, signals, result, ctxDone>>
flagVars   == <<closing, shutdown, pluginClosed>>
noteVars   == <<seq, registered, late>>
clientVars == <<pending, flagVars, noteVars>>
connVars   == <<connOpen, written, answered, hollow, notified>>
inputVars  == <<ipc, ierr, held, from>>
chanVars   == <<chanSet, chanOpen, queued, pushes>>
restVars   == <<chanVars, option, closeRes>>
vars == <<callVars, clientVars, connVars, inputVars, restVars>>

Raw(c)    == Kind[c] \in {"raw", "rawOneway"}
Oneway(c) == Kind[c] \in {"notify", "heartbeat", "rawOneway"}

\* Mutant: call() makes an unbuffered channel, into which done() can only drop.
UnbufferedDone(c) == IF Kind[c] = "call" THEN 0 ELSE 10

\* make(chan *Call, 1) in call(), make(chan *Call, 10) in Go and SendRaw
DoneCap(c) == IF Kind[c] = "call" THEN 1 ELSE 10

Errors == {"nil", "ErrShutdown", "UnexpectedEOF", "net", "ctx", "encode",
           "write", "decode", "codec"}

\* The call registered under the key s: client.pending[s].
At(s) == {c \in pending : seqOf[c] = s}

\* No SendRaw message shares c's key.  send() numbers its calls itself; the caller of
\* SendRaw chooses r.Seq(), and nothing keeps it apart from the client's numbers.
Unshared(c) == \A d \in registered \ {c} : Raw(c) \/ Raw(d) => seqOf[d] # seqOf[c]

Idle == [c \in Calls |-> "idle"]

Init ==
  /\ pc = Idle
  /\ seqOf = [c \in Calls |-> IF Raw(c) THEN RawSeq[c] ELSE 0]
  /\ callErr = [c \in Calls |-> "nil"]
  /\ reply = [c \in Calls |-> {}]
  /\ done = [c \in Calls |-> 0]
  /\ signals = [c \in Calls |-> 0]
  /\ result = [c \in Calls |-> "none"]
  /\ ctxDone = [c \in Calls |-> FALSE]
  /\ pending = {} /\ seq = 0 /\ registered = {} /\ late = {}
  /\ closing = FALSE /\ shutdown = FALSE /\ pluginClosed = FALSE
  /\ connOpen = TRUE /\ written = {} /\ answered = {} /\ hollow = {}
  /\ notified = 0
  /\ ipc = "read" /\ ierr = "nil" /\ held = {} /\ from = {}
  /\ option \in OptionSet
  /\ chanSet = option.listens /\ chanOpen = TRUE /\ queued = 0 /\ pushes = 0
  /\ closeRes = [k \in Closers |-> "none"]

-----------------------------------------------------------------------------
(* Completing calls *)

\* Mutant: done() takes no notice of the capacity.
SignalUnbounded(S) ==
  /\ signals' = [c \in Calls |-> IF c \in S THEN signals[c] + 1 ELSE signals[c]]
  /\ done' = [c \in Calls |-> IF c \in S THEN done[c] + 1 ELSE done[c]]

\* Call.done() on every call of S: a send on Done that is dropped when it is full.
Signal(S) ==
  /\ signals' = [c \in Calls |-> IF c \in S THEN signals[c] + 1 ELSE signals[c]]
  /\ done' = [c \in Calls |-> IF c \in S /\ done[c] < DoneCap(c)
                              THEN done[c] + 1 ELSE done[c]]

\* Mutant: the call is completed before its error is set.
FailSilently(S, e) == UNCHANGED callErr /\ Signal(S)

\* call.Error = e; call.done()
Fail(S, e) ==
  /\ callErr' = [c \in Calls |-> IF c \in S THEN e ELSE callErr[c]]
  /\ Signal(S)

Goto(c, l) == pc' = [pc EXCEPT ![c] = l]

\* Go returned: its user receives from Done, call() selects, heartbeat() looks at Error.
AfterSend(c) == IF Kind[c] = "heartbeat" THEN "check" ELSE "wait"

\* SendRaw returns to its caller without looking at Done.
ReturnRaw(c, e) == /\ Goto(c, "returned")
                   /\ result' = [result EXCEPT ![c] = e]

-----------------------------------------------------------------------------
(* send() and the registration of SendRaw: client.go:396-401, 498-531 *)

\* The heartbeat ticker fires and the loop finds the client neither shut down nor
\* closing (the two flags never fall, so the two locked reads act as one).
HeartbeatTick(c) ==
  /\ Kind[c] = "heartbeat" /\ pc[c] = "idle"
  /\ \A d \in Calls : Kind[d] = "heartbeat" => pc[d] \in {"idle", "returned"}
  /\ ~shutdown /\ ~closing
  /\ Goto(c, "tick")
  /\ UNCHANGED <<seqOf, callErr, reply, done, signals, result, ctxDone, clientVars,
                 connVars, inputVars, restVars>>

Starting(c) == pc[c] = IF Kind[c] = "heartbeat" THEN "tick" ELSE "idle"

NoteLate(c) == late' = IF closing \/ shutdown THEN late \cup {c} ELSE late

\* Mutant: a refused call is completed without an error.
RefusalUnset == "nil"

Refusal == IF closing \/ shutdown THEN "ErrShutdown" ELSE "codec"

\* send() completes the call at once: the client is closing or shut down, or the
\* configured codec does not exist.  *seq keeps its zero value.
Refuse(c) ==
  /\ Starting(c) /\ ~Raw(c)
  /\ closing \/ shutdown \/ ~option.codecKnown
  /\ Fail({c}, Refusal)
  /\ Goto(c, AfterSend(c))
  /\ NoteLate(c)
  /\ UNCHANGED <<seqOf, reply, result, ctxDone, pending, seq, flagVars, registered,
                 connVars, inputVars, restVars>>

\* pending[s] = call; whatever call the key held before is forgotten.
Enter(c, s) ==
  /\ pending' = (pending \ At(s)) \cup {c}
  /\ registered' = registered \cup {c}
  /\ seqOf' = [seqOf EXCEPT ![c] = s]
  /\ NoteLate(c)
  /\ Goto(c, "send")

\* Mutant: client.seq is not incremented under the lock.
SeqKept == seq

NextSeq == seq + 1

Register(c) ==
  /\ Starting(c) /\ ~Raw(c)
  /\ ~closing /\ ~shutdown /\ option.codecKnown
  /\ Enter(c, seq)
  /\ seq' = NextSeq
  /\ UNCHANGED <<callErr, reply, done, signals, result, ctxDone, flagVars, connVars,
                 inputVars, restVars>>

\* SendRaw registers under the caller's number and asks for neither flag.
RegisterRaw(c) ==
  /\ Starting(c) /\ Raw(c)
  /\ Enter(c, RawSeq[c])
  /\ UNCHANGED <<callErr, reply, done, signals, result, ctxDone, seq, flagVars,
                 connVars, inputVars, restVars>>

-----------------------------------------------------------------------------
(* Encoding and writing the request: client.go:403-427, 556-609 *)

\* codec.Encode fails: the own key is deleted and the own call completed, whether
\* or not someone completed it before.
EncodeFail(c) ==
  /\ pc[c] = "send" /\ ~Raw(c)
  /\ pending' = pending \ At(seqOf[c])
  /\ Fail({c}, "encode")
  /\ Goto(c, AfterSend(c))
  /\ UNCHANGED <<seqOf, reply, result, ctxDone, noteVars, flagVars, connVars,
                 inputVars, restVars>>

WriteOk(c) ==
  /\ pc[c] = "send" /\ connOpen
  /\ written' = written \cup {c}
  /\ Goto(c, IF Oneway(c) THEN "oneway" ELSE AfterSend(c))
  /\ UNCHANGED <<seqOf, callErr, reply, done, signals, result, ctxDone, clientVars,
                 connOpen, answered, hollow, notified, inputVars, restVars>>

\* Conn.Write fails, as it must once this side closed the connection.  The call
\* now found under the key is the one that is completed.
WriteFail(c) ==
  /\ pc[c] = "send"
  /\ pending' = pending \ At(seqOf[c])
  /\ Fail(At(seqOf[c]), "write")
  /\ IF Raw(c) THEN ReturnRaw(c, "write")
               ELSE Goto(c, AfterSend(c)) /\ UNCHANGED result
  /\ UNCHANGED <<seqOf, reply, ctxDone, noteVars, flagVars, connVars, inputVars,
                 restVars>>

\* A one-way call is complete once written.
OnewayDone(c) ==
  /\ pc[c] = "oneway"
  /\ pending' = pending \ At(seqOf[c])
  /\ Signal(At(seqOf[c]))
  /\ IF Raw(c) THEN ReturnRaw(c, "nil")
               ELSE Goto(c, AfterSend(c)) /\ UNCHANGED result
  /\ UNCHANGED <<seqOf, callErr, reply, ctxDone, noteVars, flagVars, connVars,
                 inputVars, restVars>>

-----------------------------------------------------------------------------
(* The caller waits: client.go:318-355, 432-452 *)

Receive(c) ==
  /\ pc[c] = "wait" /\ done[c] > 0
  /\ done' = [done EXCEPT ![c] = @ - 1]
  /\ result' = [result EXCEPT ![c] = callErr[c]]
  /\ Goto(c, "returned")
  /\ UNCHANGED <<seqOf, callErr, reply, signals, ctxDone, clientVars, connVars,
                 inputVars, restVars>>

\* call() and SendRaw watch a context, Go does not.
Cancellable(c) == Kind[c] \in {"call", "notify", "raw"}

InFlight(c) == pc[c] \notin {"idle", "tick", "returned"}

\* The context ends at any time.  Neither send() nor Conn.Write looks at it: a call that
\* is encoding, writing or completing its one-way request learns of it when it waits.
CtxExpire(c) ==
  /\ Cancellable(c) /\ InFlight(c) /\ ~ctxDone[c]
  /\ ctxDone' = [ctxDone EXCEPT ![c] = TRUE]
  /\ UNCHANGED <<pc, seqOf, callErr, reply, done, signals, result, clientVars,
                 connVars, inputVars, restVars>>

\* Mutant: the cancelled call looks under client.seq instead of its own number.
LatestKey(c) == seq - 1

CancelKey(c) == seqOf[c]

\* Mutant: the cancelled call leaves pending and goes on waiting for its signal.
CancelWaits(c) ==
  /\ pc[c] = "wait" /\ ctxDone[c] /\ At(CancelKey(c)) # {}
  /\ pending' = pending \ At(CancelKey(c))
  /\ UNCHANGED <<callVars, noteVars, flagVars, connVars, inputVars, restVars>>

\* What a cancelled call finds under *seq: its own call, nothing, or, when send()
\* refused it and *seq is still 0, whatever call holds the key 0.
Cancel(c) ==
  /\ pc[c] = "wait" /\ ctxDone[c]
  /\ pending' = pending \ At(CancelKey(c))
  /\ Fail(At(CancelKey(c)), "ctx")
  /\ result' = [result EXCEPT ![c] = "ctx"]
  /\ Goto(c, "returned")
  /\ UNCHANGED <<seqOf, reply, ctxDone, noteVars, flagVars, connVars, inputVars,
                 restVars>>

-----------------------------------------------------------------------------
(* Close and the heartbeat's use of it: client.go:791-845, 852-881 *)

\* Mutant: the plugins are told whether or not they were told before.
NotifyAlways == pluginClosed' = TRUE /\ notified' = notified + 1

NotifyPlugins ==
  /\ pluginClosed' = TRUE
  /\ notified' = IF pluginClosed THEN notified ELSE notified + 1

CloseBody ==
  /\ Fail(pending, "ErrShutdown")
  /\ pending' = {}
  /\ NotifyPlugins
  /\ connOpen' = (connOpen /\ pluginClosed)
  /\ closing' = (closing \/ ~shutdown)

Close(k) ==
  /\ closeRes[k] = "none"
  /\ CloseBody
  /\ closeRes' = [closeRes EXCEPT ![k] = IF closing \/ shutdown
                                         THEN "ErrShutdown" ELSE "nil"]
  /\ UNCHANGED <<pc, seqOf, reply, result, ctxDone, noteVars, shutdown, written,
                 answered, hollow, inputVars, chanVars, option>>

\* After Go the loop looks at call.Error, and at nothing the server may answer.
HeartbeatCheck(c) ==
  /\ pc[c] = "check"
  /\ Goto(c, "returned")
  /\ IF callErr[c] # "nil"
     THEN CloseBody
     ELSE UNCHANGED <<callErr, done, signals, pending, pluginClosed, connOpen, notified,
                 closing>>
  /\ UNCHANGED <<seqOf, reply, result, ctxDone, noteVars, shutdown, written,
                 answered, hollow, inputVars, restVars>>

-----------------------------------------------------------------------------
(* The input loop: client.go:616-789 *)

\* The server answers what was written to it.  A one-way request is answered only
\* when the header drops its call type: PackData leaves the trailing fields out when
\* there is no metadata and seq is 0, and UnpackData then reads the type Request.
Answerable(c) == c \in written \ answered /\ (Oneway(c) => seqOf[c] = 0)

\* A response is read and its call taken from pending.  The order of responses is
\* the server's; responses that were buffered are read even after Conn.Close.
ReadResponse(r) ==
  /\ ipc = "read" /\ Answerable(r)
  /\ answered' = answered \cup {r}
  /\ held' = At(seqOf[r])
  /\ pending' = pending \ At(seqOf[r])
  /\ IF At(seqOf[r]) = {} THEN UNCHANGED <<ipc, from>>
                          ELSE ipc' = "dispatch" /\ from' = {r}
  /\ UNCHANGED <<callVars, noteVars, flagVars, connOpen, written, hollow, notified,
                 ierr, restVars>>

\* The response is stored in the call, outside the lock, and the call completed.  There
\* is no way to store anything in a one-way call of send(), whose Reply is nil.
Dispatch ==
  /\ ipc = "dispatch" /\ \A c \in held : Raw(c) \/ ~Oneway(c)
  /\ reply' = [c \in Calls |-> IF c \in held THEN from ELSE reply[c]]
  /\ Signal(held)
  /\ held' = {} /\ from' = {} /\ ipc' = "read"
  /\ UNCHANGED <<pc, seqOf, callErr, result, ctxDone, clientVars, connVars, ierr,
                 restVars>>

\* An empty payload or the return code -90006: nothing is decoded, Reply stays as it is,
\* and the call is completed without an error.  The response to a call the server could
\* not serve is of this kind, since its status is not sent.
DispatchEmpty ==
  /\ ipc = "dispatch" /\ \A c \in held : ~Raw(c)
  /\ hollow' = hollow \cup from
  /\ Signal(held)
  /\ held' = {} /\ from' = {} /\ ipc' = "read"
  /\ UNCHANGED <<pc, seqOf, callErr, reply, result, ctxDone, clientVars, connOpen, written,
                 answered, notified, ierr, restVars>>

\* Where the loop goes when it ends: a last message to the application, if it listens.
LoopEnd == IF chanSet THEN "lastPush" ELSE "terminate"

\* A payload the codec cannot decode fails the call and, since the error is kept in
\* the loop's own err, ends the loop.  A raw reply is not decoded.
DispatchBad ==
  /\ ipc = "dispatch" /\ \A c \in held : ~Raw(c)
  /\ Fail(held, "decode")
  /\ held' = {} /\ from' = {} /\ ierr' = "decode" /\ ipc' = LoopEnd
  /\ UNCHANGED <<pc, seqOf, reply, result, ctxDone, clientVars, connVars, restVars>>

\* The peer closed the connection, or reading failed for another reason.
ReadError(e) ==
  /\ ipc = "read" /\ e \in {"EOF", "net"}
  /\ ierr' = e /\ ipc' = LoopEnd
  /\ UNCHANGED <<callVars, clientVars, connVars, held, from, restVars>>

\* A message the server sent on its own, for which the application registered.
ReadPush ==
  /\ ipc = "read" /\ chanSet /\ pushes < MaxPush
  /\ pushes' = pushes + 1 /\ ipc' = "push"
  /\ UNCHANGED <<callVars, clientVars, connVars, ierr, held, from, chanSet, chanOpen,
                 queued, option, closeRes>>

\* Mutant: after the last message the loop reads again instead of terminating.
AfterPushRead == ipc' = "read"

AfterPush == ipc' = IF ipc = "push" THEN "read" ELSE "terminate"

\* handleServerRequest, for a pushed message and for the last one.
PushQueued ==
  /\ ipc \in {"push", "lastPush"} /\ chanOpen /\ queued < ChanCap
  /\ queued' = queued + 1 /\ AfterPush
  /\ UNCHANGED <<callVars, clientVars, connVars, ierr, held, from, chanSet, chanOpen,
                 pushes, option, closeRes>>

PushDropped ==
  /\ ipc \in {"push", "lastPush"} /\ chanOpen /\ queued = ChanCap
  /\ ~option.bidirectionalBlock
  /\ AfterPush
  /\ UNCHANGED <<callVars, clientVars, connVars, ierr, held, from, restVars>>

\* The send on a closed channel panics; the handler recovers and forgets the channel.
PushRecovered ==
  /\ ipc \in {"push", "lastPush"} /\ ~chanOpen
  /\ chanSet' = FALSE /\ AfterPush
  /\ UNCHANGED <<callVars, clientVars, connVars, ierr, held, from, chanOpen, queued,
                 pushes, option, closeRes>>

LoopError == IF ierr # "EOF" THEN ierr
             ELSE IF closing THEN "ErrShutdown" ELSE "UnexpectedEOF"

\* One critical section: every pending call is completed, and stays in pending.
Terminate ==
  /\ ipc = "terminate"
  /\ NotifyPlugins
  /\ connOpen' = FALSE
  /\ shutdown' = TRUE
  /\ Fail(pending, LoopError)
  /\ ipc' = "done"
  /\ UNCHANGED <<pc, seqOf, reply, result, ctxDone, pending, noteVars, closing,
                 written, answered, hollow, ierr, held, from, restVars>>

-----------------------------------------------------------------------------
(* The application's end of ServerMessageChan *)

Consume ==
  /\ queued > 0 /\ queued' = queued - 1
  /\ UNCHANGED <<callVars, clientVars, connVars, inputVars, chanSet, chanOpen,
                 pushes, option, closeRes>>

CloseChan ==
  /\ chanSet /\ chanOpen /\ chanOpen' = FALSE
  /\ UNCHANGED <<callVars, clientVars, connVars, inputVars, chanSet, queued, pushes,
                 option, closeRes>>

UnregisterServerMessageChan ==
  /\ chanSet /\ chanSet' = FALSE
  /\ UNCHANGED <<callVars, clientVars, connVars, inputVars, chanOpen, queued, pushes,
                 option, closeRes>>

-----------------------------------------------------------------------------
Send(c) == \/ Refuse(c) \/ Register(c) \/ RegisterRaw(c)
           \/ EncodeFail(c) \/ WriteOk(c) \/ WriteFail(c) \/ OnewayDone(c)

Caller(c) == Send(c) \/ Receive(c) \/ Cancel(c) \/ HeartbeatCheck(c)

Handle == PushQueued \/ PushDropped \/ PushRecovered

Input == \/ \E r \in Calls : ReadResponse(r)
         \/ Dispatch \/ DispatchEmpty \/ DispatchBad
         \/ \E e \in {"EOF", "net"} : ReadError(e)
         \/ ReadPush \/ Handle \/ Terminate

Application == \/ \E k \in Closers : Close(k)
               \/ Consume \/ CloseChan \/ UnregisterServerMessageChan

Next == \/ \E c \in Calls : Caller(c) \/ HeartbeatTick(c) \/ CtxExpire(c)
        \/ Input
        \/ Application

Spec == Init /\ [][Next]_vars

(* Each goroutine that is in the middle of an operation goes on with it.  Nobody has *)
(* to start a call or to receive from the channel of Go; the server has to answer    *)
(* nothing.  A write on an open connection may block for ever, since it has no        *)
(* deadline (without IdleTimeout, 611-613), and so may a read: both have to end only  *)
(* once this side has closed the connection.                                          *)
Fairness ==
  /\ \A c \in Calls :
       /\ WF_vars(~connOpen /\ WriteFail(c))
       /\ WF_vars(OnewayDone(c))
       /\ Kind[c] # "go" => WF_vars(Receive(c) \/ Cancel(c))
       /\ WF_vars(HeartbeatCheck(c))
  /\ WF_vars(Dispatch \/ DispatchEmpty \/ DispatchBad)
  /\ WF_vars(Handle)
  /\ WF_vars(Terminate)
  /\ WF_vars(~connOpen /\ \E e \in {"EOF", "net"} : ReadError(e))

LiveSpec == Spec /\ Fairness

-----------------------------------------------------------------------------
(* Properties *)

\* Type invariant.  The last part bounds the copies in a Done channel by its capacity
\* (done() drops a signal rather than block, client.go:227-235).
TypeOK ==
  /\ pc \in [Calls -> {"idle", "tick", "send", "oneway", "wait", "check", "returned"}]
  /\ seqOf \in [Calls -> Nat] /\ seq \in Nat
  /\ callErr \in [Calls -> Errors]
  /\ result \in [Calls -> Errors \cup {"none"}]
  /\ reply \in [Calls -> SUBSET Calls]
  /\ done \in [Calls -> Nat] /\ signals \in [Calls -> Nat]
  /\ ctxDone \in [Calls -> BOOLEAN]
  /\ pending \subseteq Calls /\ registered \subseteq Calls /\ late \subseteq Calls
  /\ written \subseteq Calls /\ answered \subseteq Calls
  /\ hollow \subseteq Calls
  /\ held \subseteq Calls /\ from \subseteq Calls
  /\ closing \in BOOLEAN /\ shutdown \in BOOLEAN /\ pluginClosed \in BOOLEAN
  /\ connOpen \in BOOLEAN /\ chanSet \in BOOLEAN /\ chanOpen \in BOOLEAN
  /\ notified \in Nat /\ queued \in 0..ChanCap /\ pushes \in 0..MaxPush
  /\ ipc \in {"read", "dispatch", "push", "lastPush", "terminate", "done"}
  /\ ierr \in {"nil", "EOF", "net", "decode"}
  /\ option \in OptionSet
  /\ closeRes \in [Closers -> {"none", "nil", "ErrShutdown"}]
  /\ \A c \in Calls : done[c] <= DoneCap(c)

\* Once the client is closed or its input loop has ended, every goroutine that waits for
\* a call finds its signal in Done, or the input loop is about to put it there: neither
\* Close (client.go:855-861) nor the end of input (757-760) leaves a caller behind,
\* whatever send() was doing at that moment.
NoCallerStranded ==
  closing \/ shutdown =>
    \A c \in Calls : pc[c] = "wait" /\ Unshared(c) => done[c] > 0 \/ c \in held

\* A reply is stored only in the call whose request it answers, although responses come
\* in any order and calls are cancelled, failed and registered meanwhile (634-642).
ReplyIsOwn == \A c \in Calls : Unshared(c) => reply[c] \subseteq {c}

\* A two-way call whose caller is told of success was answered, and has got its own reply
\* unless the answer held none: no path of send(), of the input loop or of Close completes
\* one with a nil error before its response (501-518, 556-596, 634-722, 757-760, 855-861).
\* A nil error does not mean that there is a value, or that the server served the call:
\* a response without a payload leaves Reply as the caller passed it (699-721).
OkMeansAnswered ==
  \A c \in Calls :
    result[c] = "nil" /\ ~Oneway(c) /\ Unshared(c) =>
      c \in answered /\ (reply[c] = {c} \/ c \in hollow)

\* A call fails with a context error only when its own context ended (318-330), for
\* every call whose key is not 0.  The key 0 is left out because the code breaks it
\* there: a refused call cancels whatever call holds the key 0.
CancelTakesOwn ==
  \A c \in Calls :
    callErr[c] = "ctx" /\ Unshared(c) /\ seqOf[c] # 0 => ctxDone[c]

\* Close and the end of the input loop race to close the connection: the plugins are
\* told exactly once, before any caller can find the client closed (741-748, 864-871).
ClosedOnce ==
  /\ notified <= 1
  /\ closing \/ shutdown <=> notified = 1
  /\ connOpen <=> notified = 0

\* The Done channel of Go signals when the call is complete (261-263), so once.
SignalledOnce == \A c \in Calls : signals[c] <= 1

-----------------------------------------------------------------------------
(* Refinement of RpcSession; the heartbeat's own calls are no one's to observe *)

SessionCalls == {c \in Calls : Kind[c] # "heartbeat"}

StatusOf(c) ==
  CASE result[c] = "nil"                     -> "ok"
    [] result[c] \notin {"none", "nil"}      -> "failed"
    [] result[c] = "none" /\ pc[c] = "idle"  -> "new"
    [] result[c] = "none" /\ pc[c] # "idle"  -> IF c \in late THEN "doomed" ELSE "live"

Served ==
  {c \in SessionCalls : reply[c] = {c} \/ c \in hollow \/ (Oneway(c) /\ c \in written)}

Session == INSTANCE RpcSession WITH
  Calls  <- SessionCalls,
  status <- [c \in SessionCalls |-> StatusOf(c)],
  served <- Served,
  over   <- closing \/ shutdown

\* The client keeps the promise of RpcSession to its callers as long as SendRaw is not
\* given a number the client uses itself.
RefinesSession == Session!Spec

-----------------------------------------------------------------------------
(* Liveness *)

\* The caller has its result or, for Go, finds the call in its Done channel.
Finished(c) == pc[c] = "returned" \/ (Kind[c] = "go" /\ signals[c] > 0)

\* Once the client is closing or shut down every call in flight comes to an end,
\* without any help of the server or of the reader of ServerMessageChan (740-762, 852-881).
ClosedCallsFinish ==
  \A c \in Calls :
    (closing \/ shutdown) /\ InFlight(c) ~> Finished(c) \/ ~Unshared(c)

\* A call whose context ends while it encodes, writes, completes or waits returns, even
\* while the input loop holds it or is stuck in a send to ServerMessageChan; what keeps it
\* is its own Conn.Write, which knows nothing of the context, and only as long as nobody
\* closes the connection (318-330, 432-443, 577-583).
CancelledCallsFinish ==
  \A c \in Calls :
    ctxDone[c] /\ InFlight(c) ~> pc[c] = "returned" \/ (pc[c] = "send" /\ connOpen)

\* Once this side has closed the connection the input goroutine comes to its end, whatever
\* is still buffered, unless it blocks on an application that has stopped receiving from
\* ServerMessageChan: then it stays for ever, and a response behind it is never read
\* (616-628, 724-762, 769-788).
InputLoopEnds ==
  ~connOpen ~> \/ ipc = "done"
               \/ /\ ipc \in {"push", "lastPush"} /\ option.bidirectionalBlock
                  /\ chanOpen /\ queued = ChanCap

\* The loop cannot deliver its last message: BidirectionalBlock, a full channel, and
\* nobody receiving.  Until then no pending call learns that the connection is gone.
BlockedOnLastPush ==
  ipc = "lastPush" /\ chanOpen /\ queued = ChanCap /\ option.bidirectionalBlock

\* An error of the input loop reaches every call in flight, except when the loop blocks
\* on the application's channel first (724-762, 777-788).
LoopFailureReachesCallers ==
  \A c \in Calls :
    ierr # "nil" /\ InFlight(c) ~> Finished(c) \/ BlockedOnLastPush \/ ~Unshared(c)
=============================================================================
