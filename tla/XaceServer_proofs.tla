-------------------------- MODULE XaceServer_proofs --------------------------
(***************************************************************************)
(* What the server keeps in every reachable state, for any connections,    *)
(* requests and configurations: the proofs of the safety properties of     *)
(* XaceServer.                                                             *)
(*                                                                         *)
(* The invariant has three independent parts.  Tracked: which connections  *)
(* are in activeConn, and which of those left after Shutdown were served.  *)
(* Answers: a request is in one hand at a time, from the reader to the     *)
(* writer.  Drained: how far serveConn and Shutdown can get while requests *)
(* are being processed; it needs the other parts and the count of          *)
(* handlerMsgNum.                                                          *)
(***************************************************************************)
EXTENDS XaceServer, FiniteSetTheorems, TLAPS

-----------------------------------------------------------------------------
(* The invariant *)

\* The writer of a connection starts with its serveConn; Shutdown sets inShutdown first.
Tracked ==
  /\ inShutdown = (spc # "none")
  /\ \A c \in Conns : cpc[c] \in {"new", "accepted", "start"} => writer[c] = "none"
  /\ OpenConnsTracked
  /\ LateConnsTurnedAway

\* A request nobody has answered, and that somebody still may: serveConn, which has read
\* it, or its own goroutine.
Pending(r) == \/ rpc[r] \in {"new", "submitted", "running", "respond"}
              \/ rpc[r] = "taken" /\ r \in cur[ConnOf[r]]

\* The response is in the channel of AsyncWrite or with the writer.
OnItsWay(r) == r \in writeCh[ConnOf[r]] \/ r \in writing[ConnOf[r]]

\* serveConn holds requests of its own connection only, and those of the goroutines not.
Held ==
  /\ \A c \in Conns : \A r \in cur[c] : ConnOf[r] = c /\ rpc[r] = "taken"
  /\ \A c \in Conns : cpc[c] \in {"limited", "denied"} => \A r \in cur[c] : Kind[r] # "oneway"
  /\ \A c \in Conns : \A r \in writeCh[c] \cup writing[c] : ConnOf[r] = c

\* One response at most, in one place.
Single(r) ==
  /\ Pending(r) => answered[r] = 0 /\ ~OnItsWay(r)
  /\ OnItsWay(r) => answered[r] = 0
  /\ ~(r \in writeCh[ConnOf[r]] /\ r \in writing[ConnOf[r]])
  /\ answered[r] <= 1
  /\ Kind[r] = "oneway" => answered[r] = 0 /\ ~OnItsWay(r) /\ rpc[r] # "respond"

Answers == \A r \in Requests : Single(r)

\* serveConn between its start and its deferred function.
Serving == {"loop", "read", "handle", "limited", "denied"}
Waiting == {"closeCh", "defer", "await"}
Closing == {"close", "shut", "ended"}

\* The order in which Shutdown and Close do things.
Downs ==
  /\ doneClosed /\ kpc = "none" => spc = "ended"
  /\ poolStopped => kpc # "none"
  /\ readShut # {} => inShutdown
  /\ early # {} => inShutdown

\* A connection that only Shutdown may close stays open until doneChan is closed: its
\* serveConn denies nothing and leaves only in a shutdown, and then waits for doneChan
\* before it closes what it has served.
Kept ==
  /\ \A c \in Conns \ broken : kpc = "none" /\ ~doneClosed =>
       /\ cpc[c] \in {"accepted", "start"} \cup Serving \cup Waiting => c \in open
       /\ cpc[c] \in Waiting => inShutdown
       /\ cpc[c] # "denied"
  /\ \A r \in Requests : rpc[r] # "new" =>
       /\ cpc[ConnOf[r]] \in Serving \cup Waiting \cup Closing
       /\ ConnOf[r] \notin broken /\ kpc = "none" /\ ~doneClosed
            => cpc[ConnOf[r]] \notin Closing

\* Shutdown gets past its poll when the requests that were running are over.
Drained ==
  /\ handlerMsgNum = Cardinality(Running)
  /\ early \subseteq {r \in Requests : rpc[r] \in Counted \cup {"finished"}}
  /\ spc \in {"final", "ended"} /\ ~expired => \A r \in early : rpc[r] = "finished"

\* A request that was processed before Shutdown began, or that was being processed then,
\* has its answer, unless its own processing ended without one.
Ended ==
  ~option.async =>
    \A r \in Requests :
      /\ rpc[r] \in {"leaving", "finished"} /\ (r \in early \/ ~inShutdown)
      /\ Owed(r) /\ Undisturbed(ConnOf[r])
      => answered[r] = 1

Inv == TypeOK /\ Tracked /\ Held /\ Answers /\ Downs /\ Kept /\ Drained /\ Ended

-----------------------------------------------------------------------------
(* Steps *)

USE DEF listenVars, sockVars, connVars, reqVars, writeVars, downVars, otherVars, vars

\* What one goroutine of the server, or the listener, does in a step.
LEMMA Steps ==
  ASSUME Next
  PROVE  \/ \E c \in Conns : \/ Accept(c) \/ Reject(c) \/ Register(c)
                             \/ Start(c) \/ Loop(c) \/ Reply(c) \/ Submit(c) \/ SubmitPanics(c)
                             \/ CloseCh(c) \/ Defer(c) \/ AwaitDone(c) \/ Forget(c) \/ CloseConn(c)
                             \/ ReadFail(c) \/ Limit(c) \/ AuthFail(c)
                             \/ \E r \in Requests : ReadRequest(c, r)
                             \/ WriterTake(c) \/ WriterWrite(c) \/ WriterStop(c)
         \/ AcceptFail \/ ServeReturn
         \/ \E r \in Requests : \/ Begin(r) \/ Heartbeat(r) \/ Handle(r) \/ EndSilently(r)
                                \/ Respond(r) \/ RespondPanics(r) \/ Finish(r)
         \/ ShutdownBegin \/ ShutdownStop \/ ShutdownPoll \/ ShutdownFinal \/ ShutdownExpire
         \/ Close \/ PoolStopped
BY DEF Next, Listener, ServeConn, Pass, ServeAsyncWrite, ProcessOneRequest, Shutdown

\* Type correctness of what serveConn and its connection change.
LEMMA ServeTypes ==
  ASSUME TypeOK, NEW c \in Conns,
         \/ Accept(c) \/ Reject(c) \/ Register(c)
         \/ Start(c) \/ Loop(c) \/ Submit(c) \/ SubmitPanics(c)
         \/ CloseCh(c) \/ Defer(c) \/ AwaitDone(c) \/ Forget(c) \/ CloseConn(c)
         \/ ReadFail(c) \/ Limit(c) \/ AuthFail(c)
         \/ \E r \in Requests : ReadRequest(c, r)
  PROVE  TypeOK'
<1> USE DEF TypeOK, Step, Leave, Counted
<1>1. CASE Accept(c) BY <1>1 DEF Accept
<1>2. CASE Reject(c) BY <1>2 DEF Reject
<1>3. CASE Register(c) BY <1>3 DEF Register
<1>4. CASE Start(c) BY <1>4 DEF Start
<1>5. CASE Loop(c) BY <1>5 DEF Loop
<1>6. CASE Submit(c) BY <1>6 DEF Submit
<1>7. CASE SubmitPanics(c) BY <1>7 DEF SubmitPanics
<1>8. CASE CloseCh(c) BY <1>8 DEF CloseCh
<1>9. CASE Defer(c) BY <1>9 DEF Defer
<1>10. CASE AwaitDone(c) BY <1>10 DEF AwaitDone
<1>11. CASE Forget(c) BY <1>11 DEF Forget
<1>12. CASE CloseConn(c) BY <1>12 DEF CloseConn
<1>13. CASE ReadFail(c) BY <1>13 DEF ReadFail
<1>14. CASE Limit(c) BY <1>14 DEF Limit
<1>15. CASE AuthFail(c) BY <1>15 DEF AuthFail
<1>16. CASE \E r \in Requests : ReadRequest(c, r) BY <1>16 DEF ReadRequest
<1> QED BY <1>1, <1>2, <1>3, <1>4, <1>5, <1>6, <1>7, <1>8, <1>9, <1>10, <1>11, <1>12,
           <1>13, <1>14, <1>15, <1>16

\* What sendResponse changes.
LEMMA SendTypes ==
  ASSUME TypeOK, NEW r \in Requests, SendResponse(r)
  PROVE  answered' \in [Requests -> Nat] /\ writeCh' \in [Conns -> SUBSET Requests]
<1>1. ConnOf[r] \in Conns BY ConnOfAssumption
<1> QED BY <1>1 DEF SendResponse, WriteTo, Enqueue, TypeOK

\* handlerMsgNum counts the requests between its two updates.
LEMMA Counting ==
  ASSUME TypeOK, Drained, NEW r \in Requests,
         NEW next, rpc' = [rpc EXCEPT ![r] = next]
  PROVE  /\ IsFiniteSet(Running) /\ IsFiniteSet(Running')
         /\ rpc[r] \notin Counted /\ next \in Counted => Cardinality(Running') = handlerMsgNum + 1
         /\ rpc[r] \in Counted /\ next \notin Counted
              => Cardinality(Running') = handlerMsgNum - 1 /\ handlerMsgNum - 1 \in Nat
         /\ (rpc[r] \in Counted <=> next \in Counted) => Cardinality(Running') = handlerMsgNum
<1>1. IsFiniteSet(Running) /\ IsFiniteSet(Running')
  BY FiniteAssumption, FS_Subset DEF Running
<1>2. handlerMsgNum = Cardinality(Running) /\ handlerMsgNum \in Nat
  BY DEF Drained, TypeOK
<1>3. \A s \in Requests : rpc'[s] = IF s = r THEN next ELSE rpc[s]
  BY DEF TypeOK
<1>4. CASE rpc[r] \notin Counted /\ next \in Counted
  <2>1. Running' = Running \cup {r} /\ r \notin Running BY <1>3, <1>4 DEF Running
  <2> QED BY <1>1, <1>2, <1>4, <2>1, FS_AddElement
<1>5. CASE rpc[r] \in Counted /\ next \notin Counted
  <2>1. Running' = Running \ {r} /\ r \in Running BY <1>3, <1>5 DEF Running
  <2>2. Cardinality(Running') = Cardinality(Running) - 1
    BY <1>1, <2>1, FS_RemoveElement
  <2>3. Cardinality(Running') \in Nat BY <1>1, FS_CardinalityType
  <2> QED BY <1>1, <1>2, <1>5, <2>2, <2>3
<1>6. CASE rpc[r] \in Counted <=> next \in Counted
  <2>1. Running' = Running BY <1>3, <1>6 DEF Running
  <2> QED BY <1>1, <1>2, <1>6, <2>1
<1> QED BY <1>4, <1>5, <1>6

LEMMA RequestTypes ==
  ASSUME TypeOK, Drained, NEW r \in Requests,
         \/ Begin(r) \/ Heartbeat(r) \/ Handle(r) \/ EndSilently(r)
         \/ Respond(r) \/ RespondPanics(r) \/ Finish(r)
  PROVE  TypeOK'
<1> USE DEF Counted
<1>1. CASE Begin(r) BY <1>1 DEF Begin, TypeOK
<1>2. CASE Heartbeat(r) BY <1>2 DEF Heartbeat, WriteTo, TypeOK
<1>3. CASE Handle(r) BY <1>3 DEF Handle, TypeOK
<1>4. CASE EndSilently(r) BY <1>4 DEF EndSilently, TypeOK
<1>5. CASE Respond(r) BY <1>5, SendTypes DEF Respond, TypeOK
<1>6. CASE RespondPanics(r) BY <1>6 DEF RespondPanics, TypeOK
<1>7. CASE Finish(r)
  <2>1. rpc[r] = "leaving" /\ rpc' = [rpc EXCEPT ![r] = "finished"] BY <1>7 DEF Finish
  <2>2. rpc[r] \in Counted /\ "finished" \notin Counted BY <2>1
  <2> HIDE DEF Counted
  <2>3. handlerMsgNum - 1 \in Nat BY <2>1, <2>2, Counting, Zenon
  <2> USE DEF Counted
  <2> QED BY <1>7, <2>3 DEF Finish, TypeOK
<1> QED BY <1>1, <1>2, <1>3, <1>4, <1>5, <1>6, <1>7

LEMMA WriterTypes ==
  ASSUME TypeOK, NEW c \in Conns,
         Reply(c) \/ WriterTake(c) \/ WriterWrite(c) \/ WriterStop(c)
  PROVE  TypeOK'
<1> USE DEF TypeOK
<1>1. CASE Reply(c)
  <2>1. PICK r \in cur[c] : SendResponse(r) BY <1>1 DEF Reply
  <2>2. answered' \in [Requests -> Nat] /\ writeCh' \in [Conns -> SUBSET Requests]
    BY <2>1, SendTypes
  <2>3. cpc' \in [Conns -> {"new", "accepted", "start", "loop", "read", "handle", "limited",
                           "denied", "closeCh", "defer", "await", "close", "shut", "ended"}]
    BY <1>1 DEF Reply, AfterReply, Leave
  <2>4. cur' \in [Conns -> SUBSET Requests] BY <1>1 DEF Reply
  <2> QED BY <1>1, <2>2, <2>3, <2>4 DEF Reply
<1>2. CASE WriterTake(c) BY <1>2 DEF WriterTake
<1>3. CASE WriterWrite(c) BY <1>3 DEF WriterWrite, WriteTo
<1>4. CASE WriterStop(c) BY <1>4 DEF WriterStop
<1> QED BY <1>1, <1>2, <1>3, <1>4

LEMMA DownTypes ==
  ASSUME TypeOK,
         \/ AcceptFail \/ ServeReturn
         \/ ShutdownBegin \/ ShutdownStop \/ ShutdownPoll \/ ShutdownFinal \/ ShutdownExpire
         \/ Close \/ PoolStopped
  PROVE  TypeOK'
<1> USE OptionAssumption DEF TypeOK
<1>1. CASE AcceptFail BY <1>1 DEF AcceptFail
<1>2. CASE ServeReturn BY <1>2 DEF ServeReturn
<1>3. CASE ShutdownBegin BY <1>3 DEF ShutdownBegin, Running
<1>4. CASE ShutdownStop BY <1>4 DEF ShutdownStop
<1>5. CASE ShutdownPoll BY <1>5 DEF ShutdownPoll
<1>6. CASE ShutdownFinal BY <1>6 DEF ShutdownFinal, CloseActive
<1>7. CASE ShutdownExpire BY <1>7 DEF ShutdownExpire
<1>8. CASE Close BY <1>8 DEF Close, CloseActive
<1>9. CASE PoolStopped BY <1>9 DEF PoolStopped
<1> QED BY <1>1, <1>2, <1>3, <1>4, <1>5, <1>6, <1>7, <1>8, <1>9

\* Every step keeps the types; handlerMsgNum stays a number because it counts.
LEMMA TypesKept ==
  ASSUME TypeOK, Drained, Next
  PROVE  TypeOK'
BY Steps, ServeTypes, RequestTypes, WriterTypes, DownTypes

-----------------------------------------------------------------------------
(* Tracked *)

\* A connection enters activeConn before it is served and leaves it when its serveConn is
\* about to close it; the sweep of Shutdown and Close closes what it empties.
LEMMA TrackedConn ==
  ASSUME TypeOK, Tracked, NEW c \in Conns,
         \/ Accept(c) \/ Reject(c) \/ Register(c)
         \/ Start(c) \/ Loop(c) \/ Reply(c) \/ Submit(c) \/ SubmitPanics(c)
         \/ CloseCh(c) \/ Defer(c) \/ AwaitDone(c) \/ Forget(c) \/ CloseConn(c)
         \/ ReadFail(c) \/ Limit(c) \/ AuthFail(c)
         \/ \E r \in Requests : ReadRequest(c, r)
         \/ WriterTake(c) \/ WriterWrite(c) \/ WriterStop(c)
  PROVE  Tracked'
<1> USE DEF Tracked, TypeOK, OpenConnsTracked, LateConnsTurnedAway, Step, Leave
<1>1. CASE Accept(c) BY <1>1 DEF Accept
<1>2. CASE Reject(c) BY <1>2 DEF Reject
<1>3. CASE Register(c) BY <1>3 DEF Register
<1>4. CASE Start(c) BY <1>4 DEF Start
<1>5. CASE Loop(c) BY <1>5 DEF Loop
<1>6. CASE Reply(c) BY <1>6 DEF Reply, AfterReply
<1>7. CASE Submit(c) BY <1>7 DEF Submit
<1>8. CASE SubmitPanics(c) BY <1>8 DEF SubmitPanics
<1>9. CASE CloseCh(c) BY <1>9 DEF CloseCh
<1>10. CASE Defer(c) BY <1>10 DEF Defer
<1>11. CASE AwaitDone(c) BY <1>11 DEF AwaitDone
<1>12. CASE Forget(c) BY <1>12 DEF Forget
<1>13. CASE CloseConn(c) BY <1>13 DEF CloseConn
<1>14. CASE ReadFail(c) BY <1>14 DEF ReadFail
<1>15. CASE Limit(c) BY <1>15 DEF Limit
<1>16. CASE AuthFail(c) BY <1>16 DEF AuthFail
<1>17. CASE \E r \in Requests : ReadRequest(c, r) BY <1>17 DEF ReadRequest
<1>18. CASE WriterTake(c) BY <1>18 DEF WriterTake
<1>19. CASE WriterWrite(c) BY <1>19 DEF WriterWrite
<1>20. CASE WriterStop(c) BY <1>20 DEF WriterStop
<1> QED BY <1>1, <1>2, <1>3, <1>4, <1>5, <1>6, <1>7, <1>8, <1>9, <1>10, <1>11, <1>12,
           <1>13, <1>14, <1>15, <1>16, <1>17, <1>18, <1>19, <1>20

LEMMA TrackedRequest ==
  ASSUME Tracked, NEW r \in Requests,
         \/ Begin(r) \/ Heartbeat(r) \/ Handle(r) \/ EndSilently(r)
         \/ Respond(r) \/ RespondPanics(r) \/ Finish(r)
  PROVE  Tracked'
BY DEF Tracked, OpenConnsTracked, LateConnsTurnedAway, Begin, Heartbeat, Handle,
       EndSilently, Respond, RespondPanics, Finish

LEMMA TrackedDown ==
  ASSUME TypeOK, Tracked,
         \/ AcceptFail \/ ServeReturn
         \/ ShutdownBegin \/ ShutdownStop \/ ShutdownPoll \/ ShutdownFinal \/ ShutdownExpire
         \/ Close \/ PoolStopped
  PROVE  Tracked'
<1> USE DEF Tracked, TypeOK, OpenConnsTracked, LateConnsTurnedAway, CloseActive
<1>1. CASE AcceptFail \/ ServeReturn BY <1>1 DEF AcceptFail, ServeReturn
<1>2. CASE ShutdownBegin BY <1>2 DEF ShutdownBegin
<1>3. CASE ShutdownStop BY <1>3 DEF ShutdownStop
<1>4. CASE ShutdownPoll BY <1>4 DEF ShutdownPoll
<1>5. CASE ShutdownFinal BY <1>5 DEF ShutdownFinal
<1>6. CASE ShutdownExpire BY <1>6 DEF ShutdownExpire
<1>7. CASE Close BY <1>7 DEF Close
<1>8. CASE PoolStopped BY <1>8 DEF PoolStopped
<1> QED BY <1>1, <1>2, <1>3, <1>4, <1>5, <1>6, <1>7, <1>8

LEMMA TrackedKept ==
  ASSUME TypeOK, Tracked, Next
  PROVE  Tracked'
BY Steps, TrackedConn, TrackedRequest, TrackedDown

-----------------------------------------------------------------------------
(* Held and Answers *)

LEMMA HeldConn ==
  ASSUME TypeOK, Held, NEW c \in Conns,
         \/ Accept(c) \/ Reject(c) \/ Register(c)
         \/ Start(c) \/ Loop(c) \/ Submit(c) \/ SubmitPanics(c)
         \/ CloseCh(c) \/ Defer(c) \/ AwaitDone(c) \/ Forget(c) \/ CloseConn(c)
         \/ ReadFail(c) \/ Limit(c) \/ AuthFail(c)
         \/ \E r \in Requests : ReadRequest(c, r)
         \/ WriterTake(c) \/ WriterWrite(c) \/ WriterStop(c)
  PROVE  Held'
<1> USE DEF Held, TypeOK, Step, Leave
<1>1. CASE \/ Accept(c) \/ Reject(c) \/ Register(c) \/ Start(c) \/ Loop(c) \/ CloseCh(c)
           \/ Defer(c) \/ AwaitDone(c) \/ Forget(c) \/ CloseConn(c) \/ ReadFail(c)
  BY <1>1 DEF Accept, Reject, Register, Start, Loop, CloseCh, Defer, AwaitDone, Forget,
              CloseConn, ReadFail
<1>2. CASE Submit(c) BY <1>2 DEF Submit
<1>3. CASE SubmitPanics(c) BY <1>3 DEF SubmitPanics
<1>4. CASE Limit(c) BY <1>4 DEF Limit
<1>5. CASE AuthFail(c) BY <1>5 DEF AuthFail
<1>6. CASE \E r \in Requests : ReadRequest(c, r) BY <1>6 DEF ReadRequest
<1>7. CASE WriterTake(c) BY <1>7 DEF WriterTake
<1>8. CASE WriterWrite(c) BY <1>8 DEF WriterWrite
<1>9. CASE WriterStop(c) BY <1>9 DEF WriterStop
<1> QED BY <1>1, <1>2, <1>3, <1>4, <1>5, <1>6, <1>7, <1>8, <1>9

\* A response in the channel is one of the connection of its request.
LEMMA SendHeld ==
  ASSUME TypeOK, Held, NEW r \in Requests, SendResponse(r)
  PROVE  \A c \in Conns : \A s \in writeCh'[c] :
           ConnOf[s] = c /\ (s \in writeCh[c] \/ s = r)
BY ConnOfAssumption DEF SendResponse, Enqueue, Held, TypeOK

LEMMA HeldReply ==
  ASSUME TypeOK, Held, NEW c \in Conns, Reply(c)
  PROVE  Held'
<1>1. PICK r \in cur[c] : SendResponse(r) BY DEF Reply
<1>2. r \in Requests BY DEF TypeOK
<1>3. \A d \in Conns : \A s \in writeCh'[d] : ConnOf[s] = d BY <1>1, <1>2, SendHeld
<1>4. writing' = writing /\ rpc' = rpc BY DEF Reply
<1>5. \A d \in Conns : cur'[d] = IF d = c THEN {} ELSE cur[d] BY DEF Reply, TypeOK
<1>6. \A d \in Conns : d # c => cpc'[d] = cpc[d] BY DEF Reply, TypeOK
<1> QED BY <1>3, <1>4, <1>5, <1>6 DEF Held

LEMMA HeldRequest ==
  ASSUME TypeOK, Held, NEW r \in Requests,
         \/ Begin(r) \/ Heartbeat(r) \/ Handle(r) \/ EndSilently(r)
         \/ Respond(r) \/ RespondPanics(r) \/ Finish(r)
  PROVE  Held'
<1>1. rpc[r] # "taken" /\ \A s \in Requests : s # r => rpc'[s] = rpc[s]
  BY DEF Begin, Heartbeat, Handle, EndSilently, Respond, RespondPanics, Finish, TypeOK
<1>2. cpc' = cpc /\ cur' = cur /\ writing' = writing
  BY DEF Begin, Heartbeat, Handle, EndSilently, Respond, RespondPanics, Finish
<1>3. \A c \in Conns : \A s \in writeCh'[c] : ConnOf[s] = c
  <2>1. CASE Respond(r) BY <2>1, SendHeld DEF Respond
  <2>2. CASE ~Respond(r)
    BY <2>2 DEF Begin, Heartbeat, Handle, EndSilently, RespondPanics, Finish, Held
  <2> QED BY <2>1, <2>2
<1>4. \A c \in Conns : cur[c] \subseteq Requests BY DEF TypeOK
<1> QED BY <1>1, <1>2, <1>3, <1>4 DEF Held

LEMMA HeldKept ==
  ASSUME TypeOK, Held, Next
  PROVE  Held'
<1>1. CASE \/ AcceptFail \/ ServeReturn
           \/ ShutdownBegin \/ ShutdownStop \/ ShutdownPoll \/ ShutdownFinal \/ ShutdownExpire
           \/ Close \/ PoolStopped
  BY <1>1 DEF Held, AcceptFail, ServeReturn, ShutdownBegin, ShutdownStop, ShutdownPoll,
              ShutdownFinal, ShutdownExpire, Close, PoolStopped
<1> QED BY <1>1, Steps, HeldConn, HeldReply, HeldRequest

\* A step that answers nothing, and hands nobody a request that was not his to answer,
\* keeps the answers single.
LEMMA SingleStays ==
  ASSUME NEW r \in Requests, Single(r),
         Pending(r)' => Pending(r),
         OnItsWay(r)' => OnItsWay(r),
         ~(r \in writeCh'[ConnOf[r]] /\ r \in writing'[ConnOf[r]]),
         answered'[r] = answered[r],
         rpc'[r] = "respond" => rpc[r] = "respond"
  PROVE  Single(r)'
BY DEF Single

\* sendResponse takes the request from whoever had it: it is answered, lost on a closed
\* connection, or in the channel.
LEMMA SendOnce ==
  ASSUME TypeOK, Held, Answers, NEW r \in Requests, Pending(r), Kind[r] # "oneway",
         SendResponse(r), writing' = writing,
         NEW s \in Requests, s = r => ~Pending(r)',
         s # r => (Pending(s)' => Pending(s)) /\ rpc'[s] = rpc[s]
  PROVE  Single(s)'
<1>1. ConnOf[r] \in Conns /\ ConnOf[s] \in Conns BY ConnOfAssumption
<1>2. Single(s) /\ Single(r) BY DEF Answers
<1>3. CASE ~option.async /\ WriteTo(r) /\ UNCHANGED writeCh
  <2>1. answered'[s] = IF s = r /\ ConnOf[r] \in open THEN answered[s] + 1 ELSE answered[s]
    BY <1>3 DEF WriteTo, TypeOK
  <2>2. OnItsWay(s)' <=> OnItsWay(s) BY <1>3 DEF OnItsWay
  <2>3. CASE s = r BY <1>2, <1>3, <2>1, <2>2, <2>3 DEF Single, TypeOK
  <2>4. CASE s # r BY <1>2, <1>3, <2>1, <2>2, <2>4, SingleStays DEF Single
  <2> QED BY <2>3, <2>4
<1>4. CASE option.async /\ Enqueue(r) /\ UNCHANGED answered
  <2>1. s \in writeCh'[ConnOf[s]] <=>
          IF ConnOf[s] = ConnOf[r] THEN s = r ELSE s \in writeCh[ConnOf[s]]
    BY <1>1, <1>4 DEF Enqueue, TypeOK
  <2>2. CASE s = r BY <1>2, <1>4, <2>1, <2>2 DEF Single, OnItsWay
  <2>3. CASE s # r BY <1>2, <1>4, <2>1, <2>3, SingleStays DEF Single, OnItsWay
  <2> QED BY <2>2, <2>3
<1> QED BY <1>3, <1>4 DEF SendResponse

LEMMA AnswersConn ==
  ASSUME TypeOK, Held, Answers, NEW c \in Conns,
         \/ Accept(c) \/ Reject(c) \/ Register(c)
         \/ Start(c) \/ Loop(c) \/ Submit(c) \/ SubmitPanics(c)
         \/ CloseCh(c) \/ Defer(c) \/ AwaitDone(c) \/ Forget(c) \/ CloseConn(c)
         \/ ReadFail(c) \/ Limit(c) \/ AuthFail(c)
         \/ \E r \in Requests : ReadRequest(c, r)
         \/ WriterStop(c),
         NEW r \in Requests
  PROVE  Single(r)'
<1>1. ConnOf[r] \in Conns BY ConnOfAssumption
<1>2. Single(r) BY DEF Answers
<1> USE DEF Step
<1>3. answered' = answered /\ writeCh' = writeCh /\ writing' = writing
  BY DEF Accept, Reject, Register, Start, Loop, Submit, SubmitPanics, CloseCh, Defer,
         AwaitDone, Forget, CloseConn, ReadFail, Limit, AuthFail, ReadRequest, WriterStop
<1>4. (Pending(r)' => Pending(r)) /\ (rpc'[r] = "respond" => rpc[r] = "respond")
  <2> USE <1>1 DEF Pending, TypeOK
  <2>1. CASE Submit(c) BY <2>1 DEF Submit, Held
  <2>2. CASE \E q \in Requests : ReadRequest(c, q) BY <2>2 DEF ReadRequest
  <2>3. CASE SubmitPanics(c) \/ Limit(c) \/ AuthFail(c)
    BY <2>3 DEF SubmitPanics, Limit, AuthFail
  <2>4. CASE \/ Accept(c) \/ Reject(c) \/ Register(c) \/ Start(c) \/ Loop(c) \/ CloseCh(c)
             \/ Defer(c) \/ AwaitDone(c) \/ Forget(c) \/ CloseConn(c) \/ ReadFail(c)
             \/ WriterStop(c)
    BY <2>4 DEF Accept, Reject, Register, Start, Loop, CloseCh, Defer, AwaitDone, Forget,
                CloseConn, ReadFail, WriterStop
  <2> QED BY <2>1, <2>2, <2>3, <2>4
<1> QED BY <1>2, <1>3, <1>4, SingleStays DEF OnItsWay, Single

LEMMA AnswersReply ==
  ASSUME TypeOK, Held, Answers, NEW c \in Conns, Reply(c), NEW s \in Requests
  PROVE  Single(s)'
<1>1. PICK r \in cur[c] : SendResponse(r) BY DEF Reply
<1>2. r \in Requests /\ ConnOf[r] = c /\ rpc[r] = "taken" /\ Kind[r] # "oneway"
  BY DEF Reply, Held, TypeOK
<1>3. writing' = writing /\ rpc' = rpc BY DEF Reply
<1>4. \A d \in Conns : cur'[d] = IF d = c THEN {} ELSE cur[d] BY DEF Reply, TypeOK
<1>5. ConnOf[s] \in Conns BY ConnOfAssumption
<1>6. Pending(r) /\ ~Pending(r)' BY <1>2, <1>3, <1>4 DEF Pending
<1>7. s # r => (Pending(s)' => Pending(s)) /\ rpc'[s] = rpc[s]
  BY <1>3, <1>4, <1>5 DEF Pending
<1> QED BY <1>1, <1>2, <1>3, <1>6, <1>7, SendOnce

LEMMA AnswersWriter ==
  ASSUME TypeOK, Held, Answers, NEW c \in Conns, WriterTake(c) \/ WriterWrite(c),
         NEW s \in Requests
  PROVE  Single(s)'
<1>1. ConnOf[s] \in Conns BY ConnOfAssumption
<1>2. Single(s) BY DEF Answers
<1>3. CASE WriterTake(c)
  <2>1. /\ writing'[ConnOf[s]] = IF ConnOf[s] = c THEN writeCh[c] ELSE writing[ConnOf[s]]
        /\ writeCh'[ConnOf[s]] = IF ConnOf[s] = c THEN {} ELSE writeCh[ConnOf[s]]
        /\ answered' = answered /\ rpc' = rpc /\ cur' = cur
    BY <1>1, <1>3 DEF WriterTake, TypeOK
  <2> QED BY <1>2, <2>1, SingleStays DEF OnItsWay, Pending, Single
<1>4. CASE WriterWrite(c)
  <2>1. PICK r \in writing[c] : WriteTo(r) BY <1>4 DEF WriterWrite
  <2>2. r \in Requests /\ ConnOf[r] = c BY <2>1 DEF TypeOK, Held
  <2>3. answered'[s] = IF s = r /\ c \in open THEN answered[s] + 1 ELSE answered[s]
    BY <2>1, <2>2 DEF WriteTo, TypeOK
  <2>4. /\ writing'[ConnOf[s]] = IF ConnOf[s] = c THEN {} ELSE writing[ConnOf[s]]
        /\ writeCh' = writeCh /\ rpc' = rpc /\ cur' = cur
    BY <1>1, <1>4 DEF WriterWrite, TypeOK
  <2>5. CASE s = r
    <3>1. OnItsWay(s) /\ answered[s] = 0 /\ ~Pending(s) /\ s \notin writeCh[ConnOf[s]]
      BY <1>2, <2>1, <2>2, <2>5 DEF Single, OnItsWay
    <3>2. ~OnItsWay(s)' /\ ~Pending(s)'
      BY <2>2, <2>4, <2>5, <3>1 DEF OnItsWay, Pending
    <3> QED BY <1>2, <2>3, <2>4, <3>1, <3>2 DEF Single
  <2>6. CASE s # r
    BY <1>2, <2>3, <2>4, <2>6, SingleStays DEF OnItsWay, Pending, Single
  <2> QED BY <2>5, <2>6
<1> QED BY <1>3, <1>4

LEMMA AnswersRequest ==
  ASSUME TypeOK, Held, Answers, NEW r \in Requests,
         \/ Begin(r) \/ Heartbeat(r) \/ Handle(r) \/ EndSilently(r)
         \/ Respond(r) \/ RespondPanics(r) \/ Finish(r),
         NEW s \in Requests
  PROVE  Single(s)'
<1>1. Single(s) /\ Single(r) BY DEF Answers
<1>2. cur' = cur /\ writing' = writing
  BY DEF Begin, Heartbeat, Handle, EndSilently, Respond, RespondPanics, Finish
<1>3. s # r => rpc'[s] = rpc[s] /\ (Pending(s)' => Pending(s))
  BY <1>2 DEF Pending, Begin, Heartbeat, Handle, EndSilently, Respond, RespondPanics,
              Finish, TypeOK
<1>4. CASE Heartbeat(r)
  <2>1. /\ rpc[r] = "running" /\ rpc'[r] = "leaving" /\ Kind[r] = "heartbeat"
        /\ writeCh' = writeCh
        /\ answered'[s] = IF s = r /\ ConnOf[r] \in open THEN answered[s] + 1 ELSE answered[s]
    BY <1>4 DEF Heartbeat, WriteTo, TypeOK
  <2>2. OnItsWay(s)' = OnItsWay(s) BY <1>2, <2>1 DEF OnItsWay
  <2>3. CASE s = r
    <3>1. answered[s] = 0 /\ ~OnItsWay(s) BY <1>1, <2>1, <2>3 DEF Single, Pending
    <3>2. ~Pending(s)' BY <2>1, <2>3 DEF Pending
    <3> QED BY <1>1, <1>2, <2>1, <2>2, <2>3, <3>1, <3>2 DEF Single, OnItsWay
  <2>4. CASE s # r BY <1>1, <1>2, <1>3, <2>1, <2>2, <2>4, SingleStays DEF Single
  <2> QED BY <2>3, <2>4
<1>5. CASE Respond(r)
  <2>1. rpc[r] = "respond" /\ rpc'[r] = "leaving" /\ SendResponse(r)
    BY <1>5 DEF Respond, TypeOK
  <2>2. Pending(r) /\ ~Pending(r)' BY <2>1 DEF Pending
  <2>3. Kind[r] # "oneway" BY <1>1, <2>1 DEF Single
  <2> QED BY <1>2, <1>3, <2>1, <2>2, <2>3, SendOnce
<1>6. CASE Begin(r) \/ Handle(r) \/ EndSilently(r) \/ RespondPanics(r) \/ Finish(r)
  <2>1. answered' = answered /\ writeCh' = writeCh
    BY <1>6 DEF Begin, Handle, EndSilently, RespondPanics, Finish
  <2>2. /\ Pending(r)' => Pending(r)
        /\ rpc'[r] = "respond" => Pending(r) /\ Kind[r] # "oneway"
    BY <1>6 DEF Begin, Handle, EndSilently, RespondPanics, Finish, Pending, TypeOK
  <2>3. CASE s = r BY <1>1, <1>2, <2>1, <2>2, <2>3 DEF Single, OnItsWay
  <2>4. CASE s # r BY <1>1, <1>2, <1>3, <2>1, <2>4, SingleStays DEF Single, OnItsWay
  <2> QED BY <2>3, <2>4
<1> QED BY <1>4, <1>5, <1>6

LEMMA AnswersKept ==
  ASSUME TypeOK, Held, Answers, Next
  PROVE  Answers'
<1> SUFFICES ASSUME NEW s \in Requests PROVE Single(s)' BY DEF Answers
<1>1. CASE \/ AcceptFail \/ ServeReturn
           \/ ShutdownBegin \/ ShutdownStop \/ ShutdownPoll \/ ShutdownFinal \/ ShutdownExpire
           \/ Close \/ PoolStopped
  <2>1. rpc' = rpc /\ cur' = cur /\ answered' = answered /\ writeCh' = writeCh /\ writing' = writing
    BY <1>1 DEF AcceptFail, ServeReturn, ShutdownBegin, ShutdownStop, ShutdownPoll,
                ShutdownFinal, ShutdownExpire, Close, PoolStopped
  <2> QED BY <2>1, SingleStays DEF Answers, Pending, OnItsWay, Single
<1> QED BY <1>1, Steps, AnswersConn, AnswersReply, AnswersWriter, AnswersRequest

-----------------------------------------------------------------------------
(* Downs and Kept *)

LEMMA DownsKept ==
  ASSUME TypeOK, Tracked, Downs, Next
  PROVE  Downs'
<1> USE DEF Downs, Tracked, TypeOK
<1>1. CASE ShutdownBegin BY <1>1 DEF ShutdownBegin
<1>2. CASE ShutdownStop BY <1>2 DEF ShutdownStop
<1>3. CASE ShutdownPoll BY <1>3 DEF ShutdownPoll
<1>4. CASE ShutdownFinal BY <1>4 DEF ShutdownFinal, CloseActive
<1>5. CASE ShutdownExpire BY <1>5 DEF ShutdownExpire
<1>6. CASE Close BY <1>6 DEF Close, CloseActive
<1>7. CASE PoolStopped BY <1>7 DEF PoolStopped
<1>8. ASSUME NEW c \in Conns,
             \/ Accept(c) \/ Reject(c) \/ Register(c)
             \/ Start(c) \/ Loop(c) \/ Reply(c) \/ Submit(c) \/ SubmitPanics(c)
             \/ CloseCh(c) \/ Defer(c) \/ AwaitDone(c) \/ Forget(c) \/ CloseConn(c)
             \/ ReadFail(c) \/ Limit(c) \/ AuthFail(c)
             \/ \E r \in Requests : ReadRequest(c, r)
             \/ WriterTake(c) \/ WriterWrite(c) \/ WriterStop(c)
      PROVE  Downs'
  BY <1>8 DEF Accept, Reject, Register, Start, Loop, Reply, Submit, SubmitPanics, CloseCh,
              Defer, AwaitDone, Forget, CloseConn, ReadFail, Limit, AuthFail, ReadRequest,
              WriterTake, WriterWrite, WriterStop
<1>9. ASSUME NEW r \in Requests,
             \/ Begin(r) \/ Heartbeat(r) \/ Handle(r) \/ EndSilently(r)
             \/ Respond(r) \/ RespondPanics(r) \/ Finish(r)
      PROVE  Downs'
  BY <1>9 DEF Begin, Heartbeat, Handle, EndSilently, Respond, RespondPanics, Finish
<1>10. CASE AcceptFail \/ ServeReturn BY <1>10 DEF AcceptFail, ServeReturn
<1> QED BY <1>1, <1>2, <1>3, <1>4, <1>5, <1>6, <1>7, <1>8, <1>9, <1>10, Steps

\* serveConn goes from the accept to the deferred function; what it has read shows how far
\* it has got.
LEMMA KeptConn ==
  ASSUME TypeOK, Tracked, Held, Downs, Kept, NEW c \in Conns,
         \/ Accept(c) \/ Reject(c) \/ Register(c)
         \/ Start(c) \/ Loop(c) \/ Reply(c) \/ Submit(c) \/ SubmitPanics(c)
         \/ CloseCh(c) \/ Defer(c) \/ AwaitDone(c) \/ Forget(c) \/ CloseConn(c)
         \/ ReadFail(c) \/ Limit(c) \/ AuthFail(c)
         \/ \E r \in Requests : ReadRequest(c, r)
         \/ WriterTake(c) \/ WriterWrite(c) \/ WriterStop(c)
  PROVE  Kept'
<1> USE ConnOfAssumption DEF Kept, TypeOK, Step, Leave, Serving, Waiting, Closing
<1>1. CASE Accept(c) BY <1>1 DEF Accept
<1>2. CASE Reject(c) BY <1>2 DEF Reject
<1>3. CASE Register(c) BY <1>3 DEF Register
<1>4. CASE Start(c) BY <1>4 DEF Start
<1>5. CASE Loop(c) BY <1>5 DEF Loop
<1>6. CASE Reply(c)
  <2>1. cpc[c] \in {"limited", "denied"} /\ cpc'[c] \in {"loop", "closeCh", "defer"}
    BY <1>6 DEF Reply, AfterReply
  <2>2. cpc[c] = "denied" \/ cpc'[c] = "loop" BY <1>6 DEF Reply, AfterReply
  <2>3. c \in broken \/ kpc # "none" \/ doneClosed \/ cpc'[c] = "loop" BY <2>2
  <2> QED BY <1>6, <2>1, <2>3 DEF Reply
<1>7. CASE Submit(c) BY <1>7 DEF Submit, Held
<1>8. CASE SubmitPanics(c) BY <1>8 DEF SubmitPanics, Downs
<1>9. CASE CloseCh(c) BY <1>9 DEF CloseCh
<1>10. CASE Defer(c) BY <1>10 DEF Defer
<1>11. CASE AwaitDone(c) BY <1>11 DEF AwaitDone
<1>12. CASE Forget(c) BY <1>12 DEF Forget
<1>13. CASE CloseConn(c) BY <1>13 DEF CloseConn
<1>14. CASE ReadFail(c) BY <1>14 DEF ReadFail, Downs
<1>15. CASE Limit(c) BY <1>15 DEF Limit
<1>16. CASE AuthFail(c) BY <1>16 DEF AuthFail
<1>17. CASE \E r \in Requests : ReadRequest(c, r) BY <1>17 DEF ReadRequest
<1>18. CASE WriterTake(c) BY <1>18 DEF WriterTake
<1>19. CASE WriterWrite(c) BY <1>19 DEF WriterWrite
<1>20. CASE WriterStop(c) BY <1>20 DEF WriterStop
<1> QED BY <1>1, <1>2, <1>3, <1>4, <1>5, <1>6, <1>7, <1>8, <1>9, <1>10, <1>11, <1>12,
           <1>13, <1>14, <1>15, <1>16, <1>17, <1>18, <1>19, <1>20

LEMMA KeptRest ==
  ASSUME TypeOK, Tracked, Downs, Kept,
         \/ AcceptFail \/ ServeReturn
         \/ ShutdownBegin \/ ShutdownStop \/ ShutdownPoll \/ ShutdownFinal \/ ShutdownExpire
         \/ Close \/ PoolStopped
         \/ \E r \in Requests : \/ Begin(r) \/ Heartbeat(r) \/ Handle(r) \/ EndSilently(r)
                                \/ Respond(r) \/ RespondPanics(r) \/ Finish(r)
  PROVE  Kept'
<1> USE DEF Kept
<1>1. CASE AcceptFail \/ ServeReturn BY <1>1 DEF AcceptFail, ServeReturn
<1>2. CASE ShutdownBegin BY <1>2 DEF ShutdownBegin
<1>3. CASE ShutdownStop BY <1>3 DEF ShutdownStop
<1>4. CASE ShutdownPoll BY <1>4 DEF ShutdownPoll
<1>5. CASE ShutdownFinal BY <1>5 DEF ShutdownFinal, CloseActive
<1>6. CASE ShutdownExpire BY <1>6 DEF ShutdownExpire
<1>7. CASE Close BY <1>7 DEF Close, CloseActive, TypeOK
<1>8. CASE PoolStopped BY <1>8 DEF PoolStopped, TypeOK
<1>9. ASSUME NEW r \in Requests,
             \/ Begin(r) \/ Heartbeat(r) \/ Handle(r) \/ EndSilently(r)
             \/ Respond(r) \/ RespondPanics(r) \/ Finish(r)
      PROVE  Kept'
  <2>1. \A s \in Requests : rpc'[s] # "new" => rpc[s] # "new"
    BY <1>9 DEF Begin, Heartbeat, Handle, EndSilently, Respond, RespondPanics, Finish, TypeOK
  <2>2. UNCHANGED <<connVars, otherVars>>
    BY <1>9 DEF Begin, Heartbeat, Handle, EndSilently, Respond, RespondPanics, Finish
  <2> QED BY <2>1, <2>2
<1> QED BY <1>1, <1>2, <1>3, <1>4, <1>5, <1>6, <1>7, <1>8, <1>9

LEMMA KeptKept ==
  ASSUME TypeOK, Tracked, Held, Downs, Kept, Next
  PROVE  Kept'
BY Steps, KeptConn, KeptRest


-----------------------------------------------------------------------------
(* Drained and Ended *)

\* A request changes hands: the count follows, and what was over when Shutdown got past
\* its poll is not touched.
LEMMA DrainedMove ==
  ASSUME TypeOK, Drained, NEW r \in Requests, NEW next, rpc' = [rpc EXCEPT ![r] = next],
         spc' = spc, expired' = expired, early' = early,
         \/ rpc[r] \notin Counted \cup {"finished"} /\ next \notin Counted
              /\ handlerMsgNum' = handlerMsgNum
         \/ rpc[r] \notin Counted \cup {"finished"} /\ next \in Counted
              /\ handlerMsgNum' = handlerMsgNum + 1
         \/ rpc[r] \in Counted /\ next \in Counted /\ handlerMsgNum' = handlerMsgNum
         \/ rpc[r] \in Counted /\ next = "finished" /\ handlerMsgNum' = handlerMsgNum - 1
  PROVE  Drained'
<1>1. "finished" \notin Counted BY DEF Counted
<1>2. handlerMsgNum' = Cardinality(Running')
  <2>1. CASE /\ rpc[r] \notin Counted /\ next \notin Counted
             /\ handlerMsgNum' = handlerMsgNum
    BY <2>1, Counting, Zenon
  <2>2. CASE /\ rpc[r] \notin Counted /\ next \in Counted
             /\ handlerMsgNum' = handlerMsgNum + 1
    BY <2>2, Counting, Zenon
  <2>3. CASE rpc[r] \in Counted /\ next \in Counted /\ handlerMsgNum' = handlerMsgNum
    BY <2>3, Counting, Zenon
  <2>4. CASE /\ rpc[r] \in Counted /\ next \notin Counted
             /\ handlerMsgNum' = handlerMsgNum - 1
    BY <2>4, Counting, Zenon
  <2> QED BY <1>1, <2>1, <2>2, <2>3, <2>4, Zenon
<1>3. \A s \in Requests : rpc'[s] = IF s = r THEN next ELSE rpc[s] BY DEF TypeOK
<1>4. early' \subseteq {s \in Requests : rpc'[s] \in Counted \cup {"finished"}}
  BY <1>3 DEF Drained
<1>5. spc \in {"final", "ended"} /\ ~expired => \A s \in early : rpc'[s] = "finished"
  BY <1>1, <1>3 DEF Drained
<1> QED BY <1>2, <1>4, <1>5 DEF Drained

LEMMA DrainedRequest ==
  ASSUME TypeOK, Held, Drained,
         \/ \E r \in Requests : \/ Begin(r) \/ Heartbeat(r) \/ Handle(r) \/ EndSilently(r)
                                \/ Respond(r) \/ RespondPanics(r) \/ Finish(r)
         \/ \E c \in Conns : Submit(c) \/ \E r \in Requests : ReadRequest(c, r)
  PROVE  Drained'
<1>1. ASSUME NEW r \in Requests, Begin(r) PROVE Drained'
  BY <1>1, DrainedMove DEF Begin, Counted
<1>2. ASSUME NEW r \in Requests, Heartbeat(r) PROVE Drained'
  BY <1>2, DrainedMove DEF Heartbeat, Counted
<1>3. ASSUME NEW r \in Requests, Handle(r) PROVE Drained'
  BY <1>3, DrainedMove DEF Handle, Counted
<1>4. ASSUME NEW r \in Requests, EndSilently(r) PROVE Drained'
  BY <1>4, DrainedMove DEF EndSilently, Counted
<1>5. ASSUME NEW r \in Requests, Respond(r) PROVE Drained'
  BY <1>5, DrainedMove DEF Respond, Counted
<1>6. ASSUME NEW r \in Requests, RespondPanics(r) PROVE Drained'
  BY <1>6, DrainedMove DEF RespondPanics, Counted
<1>7. ASSUME NEW r \in Requests, Finish(r) PROVE Drained'
  BY <1>7, DrainedMove DEF Finish, Counted
<1>8. ASSUME NEW c \in Conns, Submit(c) PROVE Drained'
  <2>1. PICK r \in cur[c] : rpc' = [rpc EXCEPT ![r] = "submitted"] BY <1>8 DEF Submit
  <2>2. r \in Requests /\ rpc[r] = "taken" BY DEF Held, TypeOK
  <2> QED BY <1>8, <2>1, <2>2, DrainedMove DEF Submit, Counted
<1>9. ASSUME NEW c \in Conns, NEW r \in Requests, ReadRequest(c, r) PROVE Drained'
  BY <1>9, DrainedMove DEF ReadRequest, Counted
<1> QED BY <1>1, <1>2, <1>3, <1>4, <1>5, <1>6, <1>7, <1>8, <1>9

LEMMA DrainedDown ==
  ASSUME TypeOK, Tracked, Downs, Drained,
         ShutdownBegin \/ ShutdownStop \/ ShutdownPoll \/ ShutdownFinal \/ ShutdownExpire
  PROVE  Drained'
<1>1. CASE ShutdownBegin BY <1>1 DEF ShutdownBegin, Drained, Running
<1>2. CASE ShutdownStop BY <1>2 DEF ShutdownStop, Drained, Running
<1>3. CASE ShutdownPoll
  <2>1. IsFiniteSet(Running) BY FiniteAssumption, FS_Subset DEF Running
  <2>2. Running = {} BY <1>3, <2>1, FS_EmptySet DEF ShutdownPoll, Drained
  <2> QED BY <1>3, <2>2 DEF ShutdownPoll, Drained, Running
<1>4. CASE ShutdownFinal BY <1>4 DEF ShutdownFinal, Drained, Running
<1>5. CASE ShutdownExpire BY <1>5 DEF ShutdownExpire, Drained, Running
<1> QED BY <1>1, <1>2, <1>3, <1>4, <1>5

LEMMA DrainedKept ==
  ASSUME TypeOK, Tracked, Held, Downs, Drained, Next
  PROVE  Drained'
<1>1. ASSUME NEW c \in Conns,
             \/ Accept(c) \/ Reject(c) \/ Register(c) \/ Start(c) \/ Loop(c) \/ Reply(c)
             \/ SubmitPanics(c) \/ CloseCh(c) \/ Defer(c) \/ AwaitDone(c) \/ Forget(c)
             \/ CloseConn(c) \/ ReadFail(c) \/ Limit(c) \/ AuthFail(c)
             \/ WriterTake(c) \/ WriterWrite(c) \/ WriterStop(c)
      PROVE  Drained'
  <2>1. UNCHANGED <<rpc, handlerMsgNum, downVars>>
    BY <1>1 DEF Accept, Reject, Register, Start, Loop, Reply, SubmitPanics, CloseCh, Defer,
                AwaitDone, Forget, CloseConn, ReadFail, Limit, AuthFail,
                WriterTake, WriterWrite, WriterStop
  <2> QED BY <2>1 DEF Drained, Running
<1>2. CASE AcceptFail \/ ServeReturn \/ Close \/ PoolStopped
  BY <1>2 DEF AcceptFail, ServeReturn, Close, PoolStopped, Drained, Running
<1> QED BY <1>1, <1>2, Steps, DrainedRequest, DrainedDown

\* Nothing takes an answer back.
LEMMA AnswersStand ==
  ASSUME TypeOK, Next, NEW s \in Requests
  PROVE  answered'[s] = answered[s] \/ answered'[s] = answered[s] + 1
<1>1. \/ answered' = answered
      \/ \E r : WriteTo(r)
  BY Steps DEF Accept, Reject, Register, Start, Loop, Reply, Submit, SubmitPanics, CloseCh,
               Defer, AwaitDone, Forget, CloseConn, ReadFail, Limit, AuthFail, ReadRequest,
               WriterTake, WriterWrite, WriterStop, AcceptFail, ServeReturn,
               Begin, Heartbeat, Handle, EndSilently, Respond, RespondPanics, Finish,
               ShutdownBegin, ShutdownStop, ShutdownPoll, ShutdownFinal, ShutdownExpire,
               Close, PoolStopped, SendResponse
<1> QED BY <1>1 DEF WriteTo, TypeOK

\* The connection of a request that is being processed and that Shutdown has to wait for
\* is open.
LEMMA StillOpen ==
  ASSUME TypeOK, Tracked, Downs, Kept, Drained, NEW r \in Requests,
         rpc[r] \in Counted, r \in early \/ ~inShutdown, Undisturbed(ConnOf[r])
  PROVE  ConnOf[r] \in open
<1>1. rpc[r] # "finished" /\ rpc[r] # "new" BY DEF Counted
<1>2. ~doneClosed BY <1>1 DEF Downs, Tracked, Drained, Undisturbed
<1>3. cpc[ConnOf[r]] \in Serving \cup Waiting
  BY <1>1, <1>2 DEF Kept, Undisturbed
<1> QED BY <1>2, <1>3, ConnOfAssumption DEF Kept, Undisturbed

\* The step that ends the processing of a request writes its answer or notes that there
\* is none.
LEMMA EndedRequest ==
  ASSUME TypeOK, Tracked, Answers, Downs, Kept, Drained, Ended, NEW r \in Requests,
         \/ Begin(r) \/ Heartbeat(r) \/ Handle(r) \/ EndSilently(r)
         \/ Respond(r) \/ RespondPanics(r) \/ Finish(r),
         ~option.async,
         rpc'[r] \in {"leaving", "finished"}, r \in early \/ ~inShutdown,
         Owed(r)', Undisturbed(ConnOf[r])
  PROVE  answered[r] = 1 \/ answered'[r] = 1
<1>1. CASE Heartbeat(r) \/ Respond(r)
  <2>1. /\ WriteTo(r) /\ rpc[r] \in {"running", "respond"}
    BY <1>1 DEF Heartbeat, Respond, SendResponse
  <2>2. ConnOf[r] \in open BY <2>1, StillOpen DEF Counted
  <2>3. answered[r] = 0 BY <2>1 DEF Answers, Single, Pending
  <2> QED BY <2>1, <2>2, <2>3 DEF WriteTo, TypeOK
<1>2. CASE Finish(r) BY <1>2 DEF Finish, Ended, Owed
<1>3. CASE EndSilently(r) BY <1>3 DEF EndSilently, Owed
<1>4. CASE Begin(r) \/ Handle(r) \/ RespondPanics(r)
  BY <1>4 DEF Begin, Handle, RespondPanics, Owed, TypeOK
<1> QED BY <1>1, <1>2, <1>3, <1>4

\* No other step ends the processing of a request.
LEMMA OnlyRequestsEnd ==
  ASSUME TypeOK, Held, Next, NEW s \in Requests,
         rpc'[s] \in {"leaving", "finished"},
         ~(\/ Begin(s) \/ Heartbeat(s) \/ Handle(s) \/ EndSilently(s)
           \/ Respond(s) \/ RespondPanics(s) \/ Finish(s))
  PROVE  rpc[s] = rpc'[s]
<1>1. CASE \E r \in Requests : \/ Begin(r) \/ Heartbeat(r) \/ Handle(r) \/ EndSilently(r)
                               \/ Respond(r) \/ RespondPanics(r) \/ Finish(r)
  BY <1>1 DEF Begin, Heartbeat, Handle, EndSilently, Respond, RespondPanics, Finish, TypeOK
<1>2. CASE \E c \in Conns : Submit(c) \/ \E r \in Requests : ReadRequest(c, r)
  BY <1>2 DEF Submit, ReadRequest, TypeOK
<1>3. CASE \/ rpc' = rpc
  BY <1>3
<1>4. \/ rpc' = rpc
      \/ \E r \in Requests : \/ Begin(r) \/ Heartbeat(r) \/ Handle(r) \/ EndSilently(r)
                             \/ Respond(r) \/ RespondPanics(r) \/ Finish(r)
      \/ \E c \in Conns : Submit(c) \/ \E r \in Requests : ReadRequest(c, r)
  BY Steps DEF Accept, Reject, Register, Start, Loop, Reply, SubmitPanics, CloseCh,
               Defer, AwaitDone, Forget, CloseConn, ReadFail, Limit, AuthFail,
               WriterTake, WriterWrite, WriterStop, AcceptFail, ServeReturn,
               ShutdownBegin, ShutdownStop, ShutdownPoll, ShutdownFinal, ShutdownExpire,
               Close, PoolStopped
<1> QED BY <1>1, <1>2, <1>3, <1>4

\* An answer that is owed after a step was owed before it.
LEMMA OwedBefore ==
  ASSUME Next, NEW r \in Requests, Owed(r)'
  PROVE  Owed(r)
<1>1. silent \subseteq silent'
  BY Steps DEF Accept, Reject, Register, Start, Loop, Reply, Submit, SubmitPanics, CloseCh,
               Defer, AwaitDone, Forget, CloseConn, ReadFail, Limit, AuthFail, ReadRequest,
               WriterTake, WriterWrite, WriterStop, AcceptFail, ServeReturn,
               Begin, Heartbeat, Handle, EndSilently, Respond, RespondPanics, Finish,
               ShutdownBegin, ShutdownStop, ShutdownPoll, ShutdownFinal, ShutdownExpire,
               Close, PoolStopped
<1> QED BY <1>1 DEF Owed

\* Shutdown begins once, the history variables grow, and the configuration is fixed.
LEMMA Forward ==
  ASSUME TypeOK, Tracked, Downs, Next
  PROVE  /\ option' = option
         /\ \A c : Undisturbed(c)' => Undisturbed(c)
         /\ ~inShutdown' => ~inShutdown
         /\ ~ShutdownBegin => early' = early
         /\ ShutdownBegin => early' = Running /\ ~inShutdown /\ rpc' = rpc
<1> USE DEF Undisturbed, Tracked
<1>1. ASSUME NEW c \in Conns,
             \/ Accept(c) \/ Reject(c) \/ Register(c)
             \/ Start(c) \/ Loop(c) \/ Reply(c) \/ Submit(c) \/ SubmitPanics(c)
             \/ CloseCh(c) \/ Defer(c) \/ AwaitDone(c) \/ Forget(c) \/ CloseConn(c)
             \/ ReadFail(c) \/ Limit(c) \/ AuthFail(c)
             \/ \E r \in Requests : ReadRequest(c, r)
             \/ WriterTake(c) \/ WriterWrite(c) \/ WriterStop(c)
      PROVE  UNCHANGED <<downVars, option>> /\ broken \subseteq broken'
  BY <1>1 DEF Accept, Reject, Register, Start, Loop, Reply, Submit, SubmitPanics, CloseCh,
              Defer, AwaitDone, Forget, CloseConn, ReadFail, Limit, AuthFail, ReadRequest,
              WriterTake, WriterWrite, WriterStop
<1>2. ASSUME NEW r \in Requests,
             \/ Begin(r) \/ Heartbeat(r) \/ Handle(r) \/ EndSilently(r)
             \/ Respond(r) \/ RespondPanics(r) \/ Finish(r)
      PROVE  UNCHANGED <<downVars, option, broken>>
  BY <1>2 DEF Begin, Heartbeat, Handle, EndSilently, Respond, RespondPanics, Finish
<1>3. CASE AcceptFail \/ ServeReturn
  BY <1>3 DEF AcceptFail, ServeReturn, ShutdownBegin
<1>4. CASE ShutdownBegin BY <1>4 DEF ShutdownBegin
<1>5. CASE ShutdownStop \/ ShutdownPoll \/ ShutdownFinal \/ ShutdownExpire
  BY <1>5 DEF ShutdownStop, ShutdownPoll, ShutdownFinal, ShutdownExpire, CloseActive,
              ShutdownBegin
<1>6. CASE Close \/ PoolStopped
  BY <1>6 DEF Close, PoolStopped, CloseActive, ShutdownBegin, TypeOK
<1>7. ShutdownBegin => early' = Running /\ ~inShutdown /\ rpc' = rpc /\ spc' # spc
  BY DEF ShutdownBegin
<1> QED BY Steps, <1>1, <1>2, <1>3, <1>4, <1>5, <1>6, <1>7

LEMMA EndedKept ==
  ASSUME TypeOK, Tracked, Held, Answers, Downs, Kept, Drained, Ended, Next
  PROVE  Ended'
<1> SUFFICES ASSUME ~option'.async, NEW r \in Requests,
                    rpc'[r] \in {"leaving", "finished"}, r \in early' \/ ~inShutdown',
                    Owed(r)', Undisturbed(ConnOf[r])'
             PROVE  answered'[r] = 1
  BY DEF Ended
<1>1. ~option.async /\ Undisturbed(ConnOf[r]) /\ (r \in early \/ ~inShutdown) /\ Owed(r)
  BY Forward, OwedBefore
<1>2. answered[r] = 1 \/ answered'[r] = 1
  <2>1. CASE \/ Begin(r) \/ Heartbeat(r) \/ Handle(r) \/ EndSilently(r)
             \/ Respond(r) \/ RespondPanics(r) \/ Finish(r)
    BY <1>1, <2>1, EndedRequest
  <2>2. CASE ~(\/ Begin(r) \/ Heartbeat(r) \/ Handle(r) \/ EndSilently(r)
               \/ Respond(r) \/ RespondPanics(r) \/ Finish(r))
    <3>1. rpc[r] = rpc'[r] BY <2>2, OnlyRequestsEnd
    <3> QED BY <1>1, <3>1 DEF Ended
  <2> QED BY <2>1, <2>2
<1>3. answered'[r] <= 1 BY AnswersKept DEF Answers, Single
<1> QED BY <1>2, <1>3, AnswersStand

-----------------------------------------------------------------------------
(* Theorems *)

LEMMA InitInv == Init => Inv
<1> SUFFICES ASSUME Init PROVE Inv OBVIOUS
<1>1. TypeOK BY DEF Init, TypeOK, Counted
<1>2. Tracked BY DEF Init, Tracked, OpenConnsTracked, LateConnsTurnedAway
<1>3. Held /\ Answers
  BY ConnOfAssumption DEF Init, Held, Answers, Single, Pending, OnItsWay
<1>4. Downs /\ Kept BY ConnOfAssumption DEF Init, Downs, Kept, Serving, Waiting, Closing
<1>5. Drained /\ Ended
  <2>1. Running = {} BY DEF Init, Running, Counted
  <2> QED BY <2>1, FS_EmptySet DEF Init, Drained, Ended
<1> QED BY <1>1, <1>2, <1>3, <1>4, <1>5 DEF Inv

LEMMA NextInv == Inv /\ [Next]_vars => Inv'
<1>1. ASSUME Inv, Next PROVE Inv'
  BY <1>1, TypesKept, TrackedKept, HeldKept, AnswersKept, DownsKept, KeptKept, DrainedKept,
     EndedKept DEF Inv
<1>2. ASSUME Inv, UNCHANGED vars PROVE Inv'
  BY <1>2 DEF Inv, TypeOK, Tracked, OpenConnsTracked, LateConnsTurnedAway, Held, Answers,
              Single, Pending, OnItsWay, Downs, Kept, Drained, Running, Ended, Owed, Undisturbed
<1> QED BY <1>1, <1>2

LEMMA InvHolds == Spec => []Inv
BY InitInv, NextInv, PTL DEF Spec

\* Every reachable state of a server is well typed; in particular handlerMsgNum is never
\* negative: every path out of processOneRequest takes back what its entry added (491-502).
THEOREM ServerTypeCorrect == Spec => []TypeOK
BY InvHolds, PTL DEF Inv

\* However the accept loop, serveConn, Shutdown and Close are interleaved, an open
\* connection is in activeConn from before it is served until its serveConn closes it
\* (299-307, 631-639).
THEOREM ConnsTracked == Spec => []OpenConnsTracked
BY InvHolds, PTL DEF Inv, Tracked

\* With or without AsyncWrite, what Shutdown leaves open was never served or is being
\* closed by its own serveConn (299-307, 346-349).
THEOREM LateConnsNeverServed == Spec => []LateConnsTurnedAway
BY InvHolds, PTL DEF Inv, Tracked

\* For any number of connections and requests, with or without AsyncWrite and the pool, no
\* request is answered twice and no one-way request is answered (418-479, 505-576).
THEOREM NoSecondAnswer == Spec => []AnsweredOnce
<1>1. Inv => AnsweredOnce BY DEF Inv, Answers, Single, TypeOK, AnsweredOnce
<1> QED BY <1>1, InvHolds, PTL

\* Without AsyncWrite, a request that was being processed when Shutdown began and whose
\* processing does not itself end without an answer, in a recovered panic for one, is
\* answered before Shutdown or serveConn closes its connection (367-373, 492-502, 956-998).
THEOREM ShutdownDrains == Spec => [](~option.async => InflightDrained)
<1>1. ASSUME Inv, ~option.async PROVE InflightDrained
  <2> SUFFICES ASSUME NEW r \in early, Owed(r), Undisturbed(ConnOf[r]),
                      ConnOf[r] \notin open \/ Over(r)
               PROVE  answered[r] = 1
    BY DEF InflightDrained
  <2>1. r \in Requests /\ rpc[r] \in Counted \cup {"finished"}
    BY <1>1 DEF Inv, TypeOK, Drained
  <2>2. rpc[r] \in Counted => ConnOf[r] \in open
    BY <1>1, <2>1, StillOpen DEF Inv
  <2>3. rpc[r] = "finished" BY <2>1, <2>2 DEF Over, Counted
  <2> QED BY <1>1, <2>1, <2>3 DEF Inv, Ended
<1>2. Inv => (~option.async => InflightDrained) BY <1>1
<1> QED BY <1>2, InvHolds, PTL
=============================================================================
