-------------------------- MODULE XaceSession_proofs --------------------------
(***************************************************************************)
(* What a caller of XaceClient learns: a reply is its own, success means   *)
(* that a response to this very call has arrived, a context error that its *)
(* own context ended; and, as long as SendRaw is not given a number the    *)
(* client uses, every behaviour of the client is one of RpcSession.        *)
(***************************************************************************)
EXTENDS XaceClient_proofs

-----------------------------------------------------------------------------
(* The invariant *)

\* What the caller of a completed call relies on: a one-way request was written, another
\* one was answered, and has its own reply unless the answer held none.
Complete(c) == IF Oneway(c) THEN c \in written
               ELSE c \in answered /\ (reply[c] = {c} \/ c \in hollow)

\* A call that send() refused, or that has not begun, got no answer and no success, and
\* its key is still 0.
UnregisteredInv ==
  \A c \in Calls \ registered :
    /\ reply[c] = {} /\ callErr[c] # "ctx" /\ result[c] # "nil"
    /\ signals[c] > 0 => callErr[c] # "nil"
    /\ IF Raw(c) THEN pc[c] \in {"idle", "tick"} ELSE seqOf[c] = 0

\* Where the goroutine of a call is when it has something to show.
PlaceInv ==
  \A c \in Calls :
    /\ pc[c] = "oneway" => Oneway(c) /\ c \in written
    /\ pc[c] \in {"idle", "tick"} => c \notin late /\ result[c] = "none"
    /\ result[c] # "none" => pc[c] = "returned"
    /\ done[c] > 0 => signals[c] > 0

\* Only registered requests are written, and only before the end; the input loop holds
\* calls under the key of a request that was written; it ends with an error.
WireInv ==
  /\ written \subseteq registered
  /\ late # {} => closing \/ shutdown
  /\ written \cap late = {}
  /\ answered \subseteq written /\ hollow \subseteq answered
  /\ ipc = "dispatch" =>
       \E r \in answered : from = {r} /\ \A h \in held : seqOf[h] = seqOf[r]
  /\ ipc \in {"lastPush", "terminate"} => ierr # "nil"

\* What a call whose key is its own may have been told.
Own(c) ==
  /\ reply[c] \subseteq {c}
  /\ reply[c] # {} => c \in written
  /\ signals[c] > 0 /\ callErr[c] = "nil" => Complete(c)
  /\ result[c] = "nil" => Complete(c)
  /\ callErr[c] = "ctx" /\ seqOf[c] # 0 => ctxDone[c]

OwnInv == \A c \in Calls : Unshared(c) => Own(c)

ToldInv == UnregisteredInv /\ PlaceInv /\ WireInv /\ OwnInv

-----------------------------------------------------------------------------
(* Steps that complete calls with an error, and steps that complete nothing *)

\* Each goroutine stays where it is, or goes on to wait or to return with an error.
MovesOn ==
  \A d \in Calls :
    \/ pc'[d] = pc[d] /\ result'[d] = result[d]
    \/ /\ pc[d] \notin {"idle", "tick"} /\ pc'[d] \notin {"idle", "tick", "oneway"}
       /\ result'[d] \in {result[d], "write"}
       /\ result'[d] # "none" => pc'[d] = "returned"

\* The client does not come back to life, and nothing is registered or written.
Settled ==
  /\ UNCHANGED <<seqOf, registered, written, late, reply, hollow, ctxDone>>
  /\ answered \subseteq answered'
  /\ closing \/ shutdown => closing' \/ shutdown'

\* The input loop neither takes a call nor comes to its end.
LoopQuiet == UNCHANGED <<ipc, ierr, held, from, answered>>

LEMMA WireQuiet ==
  ASSUME WireInv, Settled, LoopQuiet
  PROVE  WireInv'
BY DEF WireInv, Settled, LoopQuiet

\* Completing calls with an error other than the context's tells nobody a success.
LEMMA ToldFail ==
  ASSUME TypeOK, ToldInv, Settled, WireInv', MovesOn,
         NEW S, NEW e, e \notin {"nil", "ctx"}, Fail(S, e)
  PROVE  ToldInv'
<1> USE DEF ToldInv, Settled, MovesOn
<1>1. \A d \in Calls : /\ callErr'[d] = IF d \in S THEN e ELSE callErr[d]
                       /\ d \notin S => signals'[d] = signals[d] /\ done'[d] = done[d]
                       /\ d \in S => signals'[d] > 0
  BY SignalFacts DEF Fail
<1>2. UnregisteredInv'
  BY <1>1 DEF UnregisteredInv, Raw
<1>3. PlaceInv'
  BY <1>1 DEF PlaceInv, Oneway
<1>4. OwnInv'
  BY <1>1 DEF OwnInv, Own, Complete, Unshared, Raw, Oneway
<1> QED BY <1>2, <1>3, <1>4

\* Nothing is completed, and no caller returns with a success.
LEMMA ToldSame ==
  ASSUME TypeOK, ToldInv, Settled, WireInv', MovesOn, UNCHANGED <<callErr, done, signals>>
  PROVE  ToldInv'
<1> USE DEF ToldInv, Settled, MovesOn
<1>1. UnregisteredInv' BY DEF UnregisteredInv, Raw
<1>2. PlaceInv' BY DEF PlaceInv, Oneway
<1>3. OwnInv' BY DEF OwnInv, Own, Complete, Unshared, Raw, Oneway
<1> QED BY <1>1, <1>2, <1>3

LEMMA ToldRefuse ==
  ASSUME TypeOK, FlagInv, StrandInv, ToldInv, NEW c \in Calls, Refuse(c)
  PROVE  ToldInv'
<1> USE DEF Refuse, Goto, AfterSend, NoteLate, connVars, inputVars, flagVars, TypeOK, ToldInv
<1>1. c \notin registered /\ Refusal \notin {"nil", "ctx"} /\ ~Raw(c)
  BY DEF Starting, StrandInv, KeyInv, Refusal
<1>2. /\ callErr'[c] = Refusal /\ signals'[c] > 0
      /\ \A d \in Calls : d # c => /\ callErr'[d] = callErr[d] /\ signals'[d] = signals[d]
                                   /\ done'[d] = done[d]
  BY SignalFacts DEF Fail
<1>3. pc[c] \in {"idle", "tick"} /\ pc'[c] \in {"check", "wait"}
      /\ \A d \in Calls : d # c => pc'[d] = pc[d]
  BY DEF Starting
<1>4. UnregisteredInv' BY <1>1, <1>2, <1>3 DEF UnregisteredInv, Raw
<1>5. PlaceInv' BY <1>1, <1>2, <1>3 DEF PlaceInv, Oneway
<1>6. WireInv' BY <1>1 DEF WireInv
<1>7. OwnInv' BY <1>1, <1>2 DEF OwnInv, Own, Complete, Unshared, Raw, Oneway
<1> QED BY <1>4, <1>5, <1>6, <1>7

\* Under its key the call is unshared only with calls that were so before.
LEMMA ToldEnter ==
  ASSUME TypeOK, FlagInv, StrandInv, ToldInv, NEW c \in Calls, Register(c) \/ RegisterRaw(c)
  PROVE  ToldInv'
<1> USE DEF Register, RegisterRaw, Enter, Goto, NoteLate, connVars, inputVars, flagVars,
            TypeOK, ToldInv
<1>1. c \notin registered /\ pc[c] \in {"idle", "tick"}
  BY DEF Starting, StrandInv, KeyInv
<1>2. /\ pc'[c] = "send" /\ registered' = registered \cup {c}
      /\ \A d \in Calls : d # c => pc'[d] = pc[d] /\ seqOf'[d] = seqOf[d]
      /\ UNCHANGED <<callErr, reply, done, signals, result, ctxDone, written, answered,
                     hollow, closing, shutdown, ipc, ierr, held, from>>
      /\ late' \subseteq late \cup {c} /\ (late' = late \/ closing \/ shutdown)
  OBVIOUS
<1>3. UnregisteredInv' BY <1>1, <1>2 DEF UnregisteredInv, Raw
<1>4. PlaceInv' BY <1>1, <1>2 DEF PlaceInv, Oneway
<1>5. WireInv'
  <2>1. c \notin written /\ c \notin held
    BY <1>1 DEF WireInv, StrandInv, KeyInv
  <2>2. \A r \in written : r \in Calls /\ seqOf'[r] = seqOf[r]
    BY <1>2, <2>1
  <2>3. \A r \in held : seqOf'[r] = seqOf[r]
    BY <1>2, <2>1
  <2> QED BY <1>2, <2>1, <2>2, <2>3 DEF WireInv
<1>6. OwnInv'
  <2> SUFFICES ASSUME NEW d \in Calls, Unshared(d)' PROVE Own(d)' BY DEF OwnInv
  <2>1. CASE d = c
    <3>1. /\ reply[c] = {} /\ callErr[c] # "ctx" /\ result[c] # "nil"
          /\ signals[c] > 0 => callErr[c] # "nil"
      BY <1>1 DEF UnregisteredInv
    <3> QED BY <1>2, <2>1, <3>1 DEF Own
  <2>2. CASE d # c
    <3>1. Unshared(d) BY <1>1, <1>2, <2>2 DEF Unshared, Raw
    <3> QED BY <1>2, <2>2, <3>1 DEF OwnInv, Own, Complete, Oneway
  <2> QED BY <2>1, <2>2
<1> QED BY <1>3, <1>4, <1>5, <1>6

LEMMA ToldWrite ==
  ASSUME TypeOK, FlagInv, StrandInv, ToldInv, NEW c \in Calls, WriteOk(c)
  PROVE  ToldInv'
<1> USE DEF WriteOk, Goto, AfterSend, clientVars, noteVars, inputVars, flagVars, TypeOK, ToldInv
<1>1. c \in registered /\ ~closing /\ ~shutdown
  BY DEF StrandInv, KeyInv, FlagInv
<1>2. UnregisteredInv' BY <1>1 DEF UnregisteredInv, Raw
<1>3. PlaceInv' BY <1>1 DEF PlaceInv, Oneway
<1>4. WireInv' BY <1>1 DEF WireInv
<1>5. OwnInv' BY DEF OwnInv, Own, Complete, Unshared, Raw, Oneway
<1> QED BY <1>2, <1>3, <1>4, <1>5

\* Of two registered calls under one key neither is unshared, unless they are the same.
LEMMA OwnKey ==
  ASSUME KeyInv, NEW c \in registered, NEW d \in registered, seqOf[c] = seqOf[d],
         Unshared(c)
  PROVE  c = d
BY DEF KeyInv, Unshared

LEMMA ToldOneway ==
  ASSUME TypeOK, FlagInv, StrandInv, ToldInv, NEW c \in Calls, OnewayDone(c)
  PROVE  ToldInv'
<1> USE DEF OnewayDone, ReturnRaw, Goto, noteVars, connVars, inputVars, flagVars, TypeOK, ToldInv
<1>1. c \in registered /\ KeyInv /\ Oneway(c) /\ c \in written
  BY DEF StrandInv, KeyInv, PlaceInv
<1>2. \A d \in At(seqOf[c]) : d \in registered /\ (Unshared(d) => d = c)
  BY <1>1, OwnKey DEF KeyInv, At
<1>3. /\ \A d \in Calls : d \notin At(seqOf[c]) =>
                            signals'[d] = signals[d] /\ done'[d] = done[d]
      /\ \A d \in Calls : d \in At(seqOf[c]) => signals'[d] > 0
  BY SignalFacts
<1>4. /\ \A d \in Calls : d # c => pc'[d] = pc[d] /\ result'[d] = result[d]
      /\ pc'[c] \in {"wait", "check", "returned"}
      /\ result'[c] = result[c] \/ (pc'[c] = "returned" /\ result'[c] = "nil")
      /\ result'[c] # "none" => pc'[c] = "returned"
  BY DEF AfterSend, PlaceInv
<1>5. UnregisteredInv' BY <1>1, <1>2, <1>3, <1>4 DEF UnregisteredInv, Raw
<1>6. PlaceInv' BY <1>3, <1>4 DEF PlaceInv, Oneway
<1>7. WireInv' BY DEF WireInv
<1>8. OwnInv'
  <2> SUFFICES ASSUME NEW d \in Calls, Unshared(d)' PROVE Own(d)' BY DEF OwnInv
  <2>1. Unshared(d) BY DEF Unshared, Raw
  <2>2. Own(d) BY <2>1 DEF OwnInv
  <2>3. d = c => Complete(d) BY <1>1 DEF Complete
  <2>4. Complete(d)' = Complete(d) BY DEF Complete, Oneway
  <2>5. signals'[d] > 0 /\ d # c => signals[d] > 0 BY <1>2, <1>3, <2>1
  <2>6. result'[d] = "nil" /\ d # c => result[d] = "nil" BY <1>4
  <2> QED BY <2>2, <2>3, <2>4, <2>5, <2>6 DEF Own
<1> QED BY <1>5, <1>6, <1>7, <1>8

LEMMA ToldReceive ==
  ASSUME TypeOK, ToldInv, NEW c \in Calls, Receive(c)
  PROVE  ToldInv'
<1> USE DEF Receive, Goto, clientVars, noteVars, connVars, inputVars, flagVars, TypeOK, ToldInv
<1>1. signals[c] > 0 BY DEF PlaceInv
<1>2. /\ \A d \in Calls : d # c => /\ pc'[d] = pc[d] /\ result'[d] = result[d]
                                   /\ done'[d] = done[d]
      /\ pc[c] = "wait" /\ pc'[c] = "returned" /\ result'[c] = callErr[c]
  OBVIOUS
<1>3. UnregisteredInv' BY <1>1, <1>2 DEF UnregisteredInv, Raw
<1>4. PlaceInv' BY <1>1, <1>2 DEF PlaceInv, Oneway
<1>5. WireInv' BY DEF WireInv
<1>6. OwnInv' BY <1>1, <1>2 DEF OwnInv, Own, Complete, Unshared, Raw, Oneway
<1> QED BY <1>3, <1>4, <1>5, <1>6

\* What a cancelled call finds under its key is, for a key other than 0, a call that
\* shares it or itself.
LEMMA ToldCancel ==
  ASSUME TypeOK, StrandInv, ToldInv, NEW c \in Calls, Cancel(c)
  PROVE  ToldInv'
<1> DEFINE S == At(seqOf[c])
<1> USE DEF Cancel, CancelKey, Goto, noteVars, connVars, inputVars, flagVars, TypeOK, ToldInv
<1>1. Fail(S, "ctx") /\ S \subseteq registered
  BY DEF At, StrandInv, KeyInv
<1>2. \A d \in S : Unshared(d) /\ seqOf[d] # 0 => ctxDone[d]
  <2> SUFFICES ASSUME NEW d \in S, Unshared(d), seqOf[d] # 0 PROVE ctxDone[d]
    OBVIOUS
  <2>1. seqOf[d] = seqOf[c] /\ ctxDone[c] BY DEF At
  <2>2. c \in registered BY <2>1 DEF UnregisteredInv
  <2>3. d = c BY <1>1, <2>1, <2>2, OwnKey DEF StrandInv
  <2> QED BY <2>1, <2>3
<1> HIDE DEF S
<1>3. \A d \in Calls : /\ callErr'[d] = IF d \in S THEN "ctx" ELSE callErr[d]
                       /\ d \notin S => signals'[d] = signals[d] /\ done'[d] = done[d]
                       /\ d \in S => signals'[d] > 0
  BY <1>1, SignalFacts DEF Fail
<1>4. /\ \A d \in Calls : d # c => pc'[d] = pc[d] /\ result'[d] = result[d]
      /\ pc[c] = "wait" /\ pc'[c] = "returned" /\ result'[c] = "ctx"
  OBVIOUS
<1>5. UNCHANGED <<seqOf, registered, reply, ctxDone, written, answered, hollow, late,
                  closing, shutdown, ipc, ierr, held, from>>
  OBVIOUS
<1> HIDE DEF Cancel
<1>6. UnregisteredInv' BY <1>1, <1>3, <1>4, <1>5 DEF UnregisteredInv, Raw
<1>7. PlaceInv' BY <1>3, <1>4, <1>5 DEF PlaceInv, Oneway
<1>8. WireInv' BY <1>5 DEF WireInv
<1>9. OwnInv' BY <1>2, <1>3, <1>4, <1>5 DEF OwnInv, Own, Complete, Unshared, Raw, Oneway
<1> QED BY <1>6, <1>7, <1>8, <1>9

LEMMA ToldCaller ==
  ASSUME TypeOK, FlagInv, StrandInv, ToldInv, NEW c \in Calls,
         Caller(c) \/ HeartbeatTick(c) \/ CtxExpire(c)
  PROVE  ToldInv'
<1>1. CASE \/ Refuse(c) \/ Register(c) \/ RegisterRaw(c) \/ WriteOk(c) \/ OnewayDone(c)
           \/ Receive(c) \/ Cancel(c)
  BY <1>1, ToldRefuse, ToldEnter, ToldWrite, ToldOneway, ToldReceive, ToldCancel
<1>2. CASE EncodeFail(c)
  <2> USE <1>2 DEF EncodeFail, noteVars, connVars, inputVars, flagVars
  <2>1. MovesOn BY DEF MovesOn, Goto, AfterSend, TypeOK, ToldInv, PlaceInv
  <2>2. Settled /\ LoopQuiet BY DEF Settled, LoopQuiet
  <2>3. Fail({c}, "encode") OBVIOUS
  <2> HIDE <1>2
  <2> QED BY <2>1, <2>2, <2>3, WireQuiet, ToldFail DEF ToldInv
<1>3. CASE WriteFail(c)
  <2> USE <1>3 DEF WriteFail, noteVars, connVars, inputVars, flagVars
  <2>1. MovesOn BY DEF MovesOn, Goto, ReturnRaw, AfterSend, TypeOK, ToldInv, PlaceInv
  <2>2. Settled /\ LoopQuiet BY DEF Settled, LoopQuiet
  <2>3. Fail(At(seqOf[c]), "write") OBVIOUS
  <2> HIDE <1>3
  <2> QED BY <2>1, <2>2, <2>3, WireQuiet, ToldFail DEF ToldInv
<1>4. CASE HeartbeatCheck(c)
  <2> USE <1>4 DEF HeartbeatCheck, noteVars, inputVars
  <2>1. MovesOn BY DEF MovesOn, Goto, TypeOK, ToldInv, PlaceInv
  <2>2. Settled /\ LoopQuiet BY DEF Settled, LoopQuiet, CloseBody, TypeOK
  <2>3. Fail(pending, "ErrShutdown") \/ UNCHANGED <<callErr, done, signals>>
    BY DEF CloseBody
  <2> HIDE <1>4
  <2> QED BY <2>1, <2>2, <2>3, WireQuiet, ToldFail, ToldSame DEF ToldInv
<1>5. CASE HeartbeatTick(c)
  <2> USE <1>5 DEF HeartbeatTick, Goto, clientVars, noteVars, connVars, inputVars, flagVars,
               TypeOK, ToldInv
  <2>1. UnregisteredInv' /\ PlaceInv' BY DEF UnregisteredInv, PlaceInv, Raw, Oneway
  <2>2. WireInv' /\ OwnInv' BY DEF WireInv, OwnInv, Own, Complete, Unshared, Raw, Oneway
  <2> QED BY <2>1, <2>2
<1>6. CASE CtxExpire(c)
  <2> USE <1>6 DEF CtxExpire, clientVars, noteVars, connVars, inputVars, flagVars, TypeOK,
               ToldInv
  <2>1. UnregisteredInv' /\ PlaceInv' BY DEF UnregisteredInv, PlaceInv, Raw, Oneway
  <2>2. WireInv' /\ OwnInv' BY DEF WireInv, OwnInv, Own, Complete, Unshared, Raw, Oneway
  <2> QED BY <2>1, <2>2
<1> QED BY <1>1, <1>2, <1>3, <1>4, <1>5, <1>6 DEF Caller, Send

\* The answer goes to the call under the key of its request.
LEMMA ToldDispatch ==
  ASSUME TypeOK, StrandInv, ToldInv, Dispatch
  PROVE  ToldInv'
<1> USE DEF Dispatch, clientVars, noteVars, connVars, flagVars, TypeOK, ToldInv
<1>1. PICK r \in answered : from = {r} /\ \A h \in held : seqOf[h] = seqOf[r]
  BY DEF WireInv
<1>2. r \in registered /\ held \subseteq registered /\ KeyInv
  BY DEF WireInv, StrandInv, KeyInv
<1>3. \A h \in held : Unshared(h) => h = r BY <1>1, <1>2, OwnKey
<1>4. /\ \A d \in Calls : d \notin held => signals'[d] = signals[d] /\ done'[d] = done[d]
      /\ \A d \in Calls : d \in held => signals'[d] > 0
  BY SignalFacts
<1>5. \A d \in Calls : reply'[d] = IF d \in held THEN {r} ELSE reply[d] BY <1>1
<1>6. UnregisteredInv' BY <1>2, <1>4, <1>5 DEF UnregisteredInv, Raw
<1>7. PlaceInv' BY <1>4 DEF PlaceInv, Oneway
<1>8. WireInv' BY DEF WireInv
<1>9. OwnInv'
  <2> SUFFICES ASSUME NEW d \in Calls, Unshared(d)' PROVE Own(d)' BY DEF OwnInv
  <2>1. Unshared(d) BY DEF Unshared, Raw
  <2>2. Own(d) BY <2>1 DEF OwnInv
  <2>3. CASE d \in held
    <3>1. d = r BY <1>3, <2>1, <2>3
    <3>2. d \in written BY <3>1 DEF WireInv
    <3> QED BY <1>1, <1>5, <2>2, <2>3, <3>1, <3>2 DEF Own, Complete, Oneway
  <2>4. CASE d \notin held
    BY <1>4, <1>5, <2>2, <2>4 DEF Own, Complete, Oneway
  <2> QED BY <2>3, <2>4
<1> QED BY <1>6, <1>7, <1>8, <1>9

\* The answer holds nothing: the call under the key of its request is completed as it is.
LEMMA ToldEmpty ==
  ASSUME TypeOK, StrandInv, ToldInv, DispatchEmpty
  PROVE  ToldInv'
<1> USE DEF DispatchEmpty, clientVars, noteVars, flagVars, TypeOK, ToldInv
<1>1. PICK r \in answered : from = {r} /\ \A h \in held : seqOf[h] = seqOf[r]
  BY DEF WireInv
<1>2. r \in registered /\ held \subseteq registered /\ KeyInv
  BY DEF WireInv, StrandInv, KeyInv
<1>3. \A h \in held : Unshared(h) => h = r BY <1>1, <1>2, OwnKey
<1>4. /\ \A d \in Calls : d \notin held => signals'[d] = signals[d] /\ done'[d] = done[d]
      /\ \A d \in Calls : d \in held => signals'[d] > 0
  BY SignalFacts
<1>5. hollow' = hollow \cup {r} BY <1>1
<1>6. UnregisteredInv' BY <1>2, <1>4 DEF UnregisteredInv, Raw
<1>7. PlaceInv' BY <1>4 DEF PlaceInv, Oneway
<1>8. WireInv' BY <1>5 DEF WireInv
<1>9. OwnInv'
  <2> SUFFICES ASSUME NEW d \in Calls, Unshared(d)' PROVE Own(d)' BY DEF OwnInv
  <2>1. Unshared(d) BY DEF Unshared, Raw
  <2>2. Own(d) BY <2>1 DEF OwnInv
  <2>3. CASE d \in held
    <3>1. d = r BY <1>3, <2>1, <2>3
    <3>2. d \in written BY <3>1 DEF WireInv
    <3> QED BY <1>5, <2>2, <3>1, <3>2 DEF Own, Complete, Oneway
  <2>4. CASE d \notin held
    BY <1>4, <1>5, <2>2, <2>4 DEF Own, Complete, Oneway
  <2> QED BY <2>3, <2>4
<1> QED BY <1>6, <1>7, <1>8, <1>9

LEMMA ToldInput ==
  ASSUME TypeOK, StrandInv, ToldInv, Input
  PROVE  ToldInv'
<1>1. ASSUME NEW r \in Calls, ReadResponse(r) PROVE ToldInv'
  <2> USE <1>1 DEF ReadResponse, callVars, noteVars, flagVars
  <2>1. MovesOn /\ Settled BY DEF MovesOn, Settled, TypeOK
  <2>2. WireInv' BY DEF ToldInv, WireInv, Answerable, At
  <2> QED BY <2>1, <2>2, ToldSame
<1>2. CASE Dispatch \/ DispatchEmpty BY <1>2, ToldDispatch, ToldEmpty
<1>3. CASE DispatchBad
  <2> USE <1>3 DEF DispatchBad, clientVars, noteVars, connVars, flagVars
  <2>1. MovesOn /\ Settled BY DEF MovesOn, Settled, TypeOK
  <2>2. WireInv' BY DEF ToldInv, WireInv, LoopEnd
  <2>3. Fail(held, "decode") OBVIOUS
  <2> QED BY <2>1, <2>2, <2>3, ToldFail
<1>4. CASE (\E e \in {"EOF", "net"} : ReadError(e)) \/ ReadPush \/ Handle
  <2> USE <1>4 DEF ReadError, ReadPush, Handle, PushQueued, PushDropped, PushRecovered,
               AfterPush, callVars, clientVars, noteVars, connVars, flagVars
  <2>1. MovesOn /\ Settled BY DEF MovesOn, Settled, TypeOK
  <2>2. WireInv' BY DEF ToldInv, WireInv, LoopEnd
  <2>3. UNCHANGED <<callErr, done, signals>> OBVIOUS
  <2> HIDE <1>4
  <2> QED BY <2>1, <2>2, <2>3, ToldSame
<1>5. CASE Terminate
  <2> USE <1>5 DEF Terminate, noteVars, flagVars
  <2>1. MovesOn /\ Settled BY DEF MovesOn, Settled, TypeOK
  <2>2. WireInv' BY DEF ToldInv, WireInv
  <2>3. LoopError \notin {"nil", "ctx"} BY DEF LoopError, ToldInv, WireInv, TypeOK
  <2>4. Fail(pending, LoopError) OBVIOUS
  <2> QED BY <2>1, <2>2, <2>3, <2>4, ToldFail
<1> QED BY <1>1, <1>2, <1>3, <1>4, <1>5 DEF Input

LEMMA ToldApplication ==
  ASSUME TypeOK, ToldInv, Application \/ UNCHANGED vars
  PROVE  ToldInv'
<1>1. ASSUME NEW k \in Closers, Close(k) PROVE ToldInv'
  <2> USE <1>1 DEF Close, noteVars, inputVars
  <2>1. MovesOn BY DEF MovesOn
  <2>2. Settled /\ LoopQuiet BY DEF Settled, LoopQuiet, CloseBody, TypeOK
  <2>3. Fail(pending, "ErrShutdown") BY DEF CloseBody
  <2> HIDE <1>1
  <2> QED BY <2>1, <2>2, <2>3, WireQuiet, ToldFail DEF ToldInv
<1>2. CASE Consume \/ CloseChan \/ UnregisterServerMessageChan \/ UNCHANGED vars
  <2> USE <1>2 DEF Consume, CloseChan, UnregisterServerMessageChan, vars, callVars, clientVars,
               noteVars, connVars, flagVars, inputVars
  <2>1. MovesOn BY DEF MovesOn
  <2>2. Settled /\ LoopQuiet BY DEF Settled, LoopQuiet
  <2>3. UNCHANGED <<callErr, done, signals>> OBVIOUS
  <2> HIDE <1>2
  <2> QED BY <2>1, <2>2, <2>3, WireQuiet, ToldSame DEF ToldInv
<1> QED BY <1>1, <1>2 DEF Application

-----------------------------------------------------------------------------
(* Theorems *)

LEMMA ToldInit == Init => ToldInv
<1> SUFFICES ASSUME Init PROVE ToldInv OBVIOUS
<1>1. UnregisteredInv BY DEF Init, Idle, UnregisteredInv, Raw
<1>2. PlaceInv BY DEF Init, Idle, PlaceInv
<1>3. WireInv /\ OwnInv BY DEF Init, WireInv, OwnInv, Own
<1> QED BY <1>1, <1>2, <1>3 DEF ToldInv

ClientInv == TypeOK /\ FlagInv /\ StrandInv /\ ToldInv

LEMMA ClientInvHolds == Spec => []ClientInv
<1>1. TypeOK /\ FlagInv /\ StrandInv /\ ToldInv /\ [Next]_vars => ToldInv'
  BY ToldCaller, ToldInput, ToldApplication DEF Next
<1> QED BY <1>1, ToldInit, StrandHolds, PTL DEF Spec, ClientInv

\* Responses arrive in any order while calls are cancelled, failed and registered: a reply
\* is stored only in the call whose request it answers (client.go:634-642, 670-719).
THEOREM RepliesAreOwn == Spec => []ReplyIsOwn
<1>1. ClientInv => ReplyIsOwn
  BY DEF ClientInv, ToldInv, OwnInv, Own, ReplyIsOwn
<1> QED BY <1>1, ClientInvHolds, PTL

\* No path of send(), of the input loop or of Close completes a two-way call with a nil
\* error before a response to it was read, and Reply then holds its own answer unless the
\* response held none, which the client lets pass (client.go:318-355, 498-609, 670-762).
THEOREM SuccessMeansAnswered == Spec => []OkMeansAnswered
<1>1. ClientInv => OkMeansAnswered
  BY DEF ClientInv, ToldInv, OwnInv, Own, Complete, OkMeansAnswered
<1> QED BY <1>1, ClientInvHolds, PTL

\* A cancelled call takes no other call with it, as long as its key is not 0
\* (client.go:318-330, 432-443).
THEOREM CancelsOwn == Spec => []CancelTakesOwn
<1>1. ClientInv => CancelTakesOwn
  BY DEF ClientInv, ToldInv, OwnInv, Own, CancelTakesOwn
<1> QED BY <1>1, ClientInvHolds, PTL

-----------------------------------------------------------------------------
(* Refinement of RpcSession *)

\* SendRaw is given no number the client uses for another call.
Apart == \A c \in Calls : Unshared(c)

Over == closing \/ shutdown

LEMMA QuietStep ==
  ASSUME \A c \in SessionCalls : StatusOf(c)' = StatusOf(c), Served' = Served, Over' <=> Over
  PROVE  UNCHANGED Session!sessionVars
BY DEF Session!sessionVars, Over

LEMMA EndStep ==
  ASSUME \A c \in SessionCalls : StatusOf(c)' = StatusOf(c), Served' = Served, ~Over, Over'
  PROVE  Session!Next
BY DEF Session!Next, Session!End, Over

LEMMA ServeStep ==
  ASSUME NEW c \in SessionCalls, \A d \in SessionCalls : StatusOf(d)' = StatusOf(d),
         StatusOf(c) \in {"live", "failed"}, Served' = Served \cup {c}, Over' <=> Over
  PROVE  Session!Next
<1>1. Session!Serve(c) BY DEF Session!Serve, Over
<1> QED BY <1>1 DEF Session!Next

\* The status of one call changes, and nothing else.
Turns(c, before, after) ==
  /\ StatusOf(c) = before
  /\ \A d \in SessionCalls : StatusOf(d)' = IF d = c THEN after ELSE StatusOf(d)
  /\ Served' = Served /\ (Over' <=> Over)

LEMMA TurnStep ==
  ASSUME NEW c \in SessionCalls, NEW before, NEW after, Turns(c, before, after),
         \/ before = "new" /\ after = IF Over THEN "doomed" ELSE "live"
         \/ before = "live" /\ after = "ok" /\ c \in Served
         \/ before \in {"live", "doomed"} /\ after = "failed"
  PROVE  Session!Next
<1>1. CASE before = "new" /\ after = IF Over THEN "doomed" ELSE "live"
  <2>1. Session!Begin(c) BY <1>1 DEF Turns, Session!Begin, Over
  <2> QED BY <2>1 DEF Session!Next
<1>2. CASE before = "live" /\ after = "ok" /\ c \in Served
  <2>1. Session!Succeed(c) BY <1>2 DEF Turns, Session!Succeed, Over
  <2> QED BY <2>1 DEF Session!Next
<1>3. CASE before \in {"live", "doomed"} /\ after = "failed"
  <2>1. Session!Fail(c) BY <1>3 DEF Turns, Session!Fail, Over
  <2> QED BY <2>1 DEF Session!Next
<1> QED BY <1>1, <1>2, <1>3

\* What a step of the client is to an observer of the session.
Allowed == Session!Next \/ UNCHANGED Session!sessionVars

LEMMA StatusFrame ==
  ASSUME NEW d \in Calls, result'[d] = result[d], pc'[d] = "idle" <=> pc[d] = "idle",
         d \in late' <=> d \in late
  PROVE  StatusOf(d)' = StatusOf(d)
BY DEF StatusOf

\* No caller begins or returns and nothing is served; the session may end.
LEMMA Unseen ==
  ASSUME \A d \in SessionCalls : /\ result'[d] = result[d] /\ (d \in late' <=> d \in late)
                                 /\ pc'[d] = "idle" <=> pc[d] = "idle",
         reply' = reply, hollow' = hollow,
         SessionCalls \cap written' = SessionCalls \cap written,
         Over => Over'
  PROVE  Allowed
<1>1. \A d \in SessionCalls : StatusOf(d)' = StatusOf(d) BY StatusFrame DEF SessionCalls
<1>2. Served' = Served BY DEF Served
<1> QED BY <1>1, <1>2, QuietStep, EndStep DEF Allowed

\* A goroutine goes into send() or SendRaw.
LEMMA Begins ==
  ASSUME TypeOK, ToldInv, NEW c \in Calls, Starting(c), NEW l, l \notin {"idle", "tick"},
         pc' = [pc EXCEPT ![c] = l], NoteLate(c),
         UNCHANGED <<result, reply, hollow, written, closing, shutdown>>
  PROVE  Allowed
<1>1. /\ \A d \in Calls : d # c => pc'[d] = pc[d] /\ (d \in late' <=> d \in late)
      /\ pc'[c] = l /\ result[c] = "none" /\ c \notin late /\ (c \in late' <=> Over)
  BY DEF TypeOK, NoteLate, Over, Starting, ToldInv, PlaceInv
<1>2. CASE c \notin SessionCalls
  BY <1>1, <1>2, Unseen DEF SessionCalls, Over
<1>3. CASE c \in SessionCalls
  <2>1. StatusOf(c) = "new" BY <1>1, <1>3 DEF StatusOf, Starting, SessionCalls
  <2>2. StatusOf(c)' = IF Over THEN "doomed" ELSE "live" BY <1>1 DEF StatusOf
  <2>3. \A d \in SessionCalls : d # c => StatusOf(d)' = StatusOf(d)
    BY <1>1, StatusFrame DEF SessionCalls
  <2>4. Served' = Served /\ (Over' <=> Over) BY DEF Served, Over
  <2>5. Turns(c, "new", IF Over THEN "doomed" ELSE "live")
    BY <2>1, <2>2, <2>3, <2>4 DEF Turns
  <2> QED BY <1>3, <2>5, TurnStep DEF Allowed
<1> QED BY <1>2, <1>3

\* A caller returns: with an error, or from a call that was served before the end.
LEMMA Returns ==
  ASSUME TypeOK, ToldInv, NEW c \in Calls, pc[c] \notin {"idle", "returned"},
         pc' = [pc EXCEPT ![c] = "returned"], NEW e \in Errors,
         result' = [result EXCEPT ![c] = e],
         e = "nil" => c \notin late /\ (c \in SessionCalls => c \in Served),
         UNCHANGED <<reply, hollow, written, late, closing, shutdown>>
  PROVE  Allowed
<1>1. /\ \A d \in Calls : d # c => pc'[d] = pc[d] /\ result'[d] = result[d]
      /\ pc'[c] = "returned" /\ result[c] = "none" /\ result'[c] = e /\ e # "none"
  BY DEF TypeOK, ToldInv, PlaceInv, Errors
<1>2. CASE c \notin SessionCalls
  BY <1>1, <1>2, Unseen DEF SessionCalls, Over
<1>3. CASE c \in SessionCalls
  <2>1. StatusOf(c) = IF c \in late THEN "doomed" ELSE "live" BY <1>1 DEF StatusOf
  <2>2. StatusOf(c)' = IF e = "nil" THEN "ok" ELSE "failed" BY <1>1 DEF StatusOf
  <2>3. \A d \in SessionCalls : d # c => StatusOf(d)' = StatusOf(d)
    BY <1>1, StatusFrame DEF SessionCalls
  <2>4. Served' = Served /\ (Over' <=> Over) BY DEF Served, Over
  <2>5. Turns(c, StatusOf(c), IF e = "nil" THEN "ok" ELSE "failed")
    BY <2>2, <2>3, <2>4 DEF Turns
  <2> QED BY <1>3, <2>1, <2>5, TurnStep DEF Allowed
<1> QED BY <1>2, <1>3

LEMMA CallerAllowed ==
  ASSUME ClientInv, Apart, NEW c \in Calls, Caller(c) \/ HeartbeatTick(c) \/ CtxExpire(c)
  PROVE  Allowed
<1> USE DEF ClientInv
<1>1. CASE Refuse(c)
  <2>1. AfterSend(c) \notin {"idle", "tick"} BY DEF AfterSend
  <2> QED BY <1>1, <2>1, Begins DEF Refuse, Goto, connVars, flagVars
<1>2. CASE Register(c) \/ RegisterRaw(c)
  BY <1>2, Begins DEF Register, RegisterRaw, Enter, Goto, connVars, flagVars
<1>3. CASE EncodeFail(c)
  BY <1>3, Unseen DEF EncodeFail, Goto, AfterSend, TypeOK, Over, noteVars, connVars, flagVars
<1>4. CASE WriteOk(c)
  <2>1. /\ ~Over /\ c \notin late /\ result[c] = "none" /\ pc[c] = "send"
    BY <1>4 DEF WriteOk, FlagInv, Over, ToldInv, WireInv, PlaceInv, TypeOK
  <2>2. \A d \in Calls : result'[d] = result[d] /\ (pc'[d] = "idle" <=> pc[d] = "idle")
                         /\ (d \in late' <=> d \in late)
    BY <1>4 DEF WriteOk, Goto, AfterSend, TypeOK, clientVars, noteVars
  <2>3. reply' = reply /\ hollow' = hollow /\ (Over' <=> Over) /\ written' = written \cup {c}
    BY <1>4 DEF WriteOk, Over, clientVars, flagVars
  <2>4. CASE c \in SessionCalls /\ Oneway(c)
    <3>1. Served' = Served \cup {c} BY <2>3, <2>4 DEF Served, Oneway
    <3>2. StatusOf(c) = "live" BY <2>1 DEF StatusOf
    <3>3. \A d \in SessionCalls : StatusOf(d)' = StatusOf(d)
      BY <2>2, StatusFrame DEF SessionCalls
    <3> QED BY <2>3, <2>4, <3>1, <3>2, <3>3, ServeStep DEF Allowed
  <2>5. CASE ~(c \in SessionCalls /\ Oneway(c))
    <3>1. Served' = Served BY <2>3, <2>5 DEF Served, Oneway
    <3>2. \A d \in SessionCalls : StatusOf(d)' = StatusOf(d)
      BY <2>2, StatusFrame DEF SessionCalls
    <3> QED BY <2>3, <3>1, <3>2, QuietStep DEF Allowed
  <2> QED BY <2>4, <2>5
<1>5. CASE WriteFail(c)
  <2>1. UNCHANGED <<reply, hollow, written, late, closing, shutdown>> /\ pc[c] = "send"
    BY <1>5 DEF WriteFail, noteVars, connVars, flagVars
  <2>2. CASE Raw(c)
    BY <1>5, <2>1, <2>2, Returns DEF WriteFail, ReturnRaw, Goto, Errors
  <2>3. CASE ~Raw(c)
    <3>1. Goto(c, AfterSend(c)) /\ result' = result BY <1>5, <2>3 DEF WriteFail
    <3>2. \A d \in Calls : pc'[d] = "idle" <=> pc[d] = "idle"
      BY <2>1, <3>1 DEF Goto, AfterSend, TypeOK
    <3> QED BY <2>1, <3>1, <3>2, Unseen DEF SessionCalls, Over
  <2> QED BY <2>2, <2>3
<1>6. CASE OnewayDone(c)
  <2>1. UNCHANGED <<reply, hollow, written, late, closing, shutdown>> /\ pc[c] = "oneway"
    BY <1>6 DEF OnewayDone, noteVars, connVars, flagVars
  <2>2. Oneway(c) /\ c \in written /\ c \notin late
    BY <2>1 DEF ToldInv, PlaceInv, WireInv
  <2>3. CASE Raw(c)
    <3>1. c \in SessionCalls => c \in Served BY <2>2 DEF Served
    <3> QED BY <1>6, <2>1, <2>2, <2>3, <3>1, Returns DEF OnewayDone, ReturnRaw, Goto, Errors
  <2>4. CASE ~Raw(c)
    <3>1. Goto(c, AfterSend(c)) /\ result' = result BY <1>6, <2>4 DEF OnewayDone
    <3>2. \A d \in Calls : pc'[d] = "idle" <=> pc[d] = "idle"
      BY <2>1, <3>1 DEF Goto, AfterSend, TypeOK
    <3> QED BY <2>1, <3>1, <3>2, Unseen DEF SessionCalls, Over
  <2> QED BY <2>3, <2>4
<1>7. CASE Receive(c)
  <2>1. UNCHANGED <<reply, hollow, written, late, closing, shutdown>> /\ pc[c] = "wait"
    BY <1>7 DEF Receive, clientVars, noteVars, connVars, flagVars
  <2>2. callErr[c] \in Errors BY DEF TypeOK
  <2>3. ASSUME callErr[c] = "nil"
        PROVE  c \notin late /\ (c \in SessionCalls => c \in Served)
    <3>1. signals[c] > 0 BY <1>7 DEF Receive, ToldInv, PlaceInv
    <3>2. Complete(c) /\ (reply[c] # {} => c \in written)
      BY <2>3, <3>1 DEF Apart, ToldInv, OwnInv, Own
    <3>3. c \in written BY <3>2 DEF Complete, ToldInv, WireInv
    <3> QED BY <3>2, <3>3 DEF ToldInv, WireInv, Complete, Served
  <2> QED BY <1>7, <2>1, <2>2, <2>3, Returns DEF Receive, Goto
<1>8. CASE Cancel(c)
  BY <1>8, Returns DEF Cancel, Goto, Errors, noteVars, connVars, flagVars
<1>9. CASE HeartbeatCheck(c)
  BY <1>9, Unseen DEF HeartbeatCheck, CloseBody, Goto, TypeOK, Over, noteVars
<1>10. CASE HeartbeatTick(c)
  BY <1>10, Unseen DEF HeartbeatTick, SessionCalls, Goto, TypeOK, Over, clientVars, noteVars,
                       connVars, flagVars
<1>11. CASE CtxExpire(c)
  BY <1>11, Unseen DEF CtxExpire, Over, clientVars, noteVars, connVars, flagVars
<1> QED BY <1>1, <1>2, <1>3, <1>4, <1>5, <1>6, <1>7, <1>8, <1>9, <1>10, <1>11 DEF Caller, Send

LEMMA InputAllowed ==
  ASSUME ClientInv, Apart, Input
  PROVE  Allowed
<1> USE DEF ClientInv
<1>1. ASSUME NEW r \in Calls, ReadResponse(r) PROVE Allowed
  BY <1>1, Unseen DEF ReadResponse, Over, callVars, noteVars, flagVars
<1>2. CASE Dispatch \/ DispatchEmpty
  <2>1. PICK r \in answered : from = {r} /\ \A h \in held : seqOf[h] = seqOf[r]
    BY <1>2 DEF Dispatch, DispatchEmpty, ToldInv, WireInv
  <2>2. /\ r \in written /\ r \in registered /\ registered \subseteq Calls
        /\ held \subseteq registered /\ KeyInv
    BY DEF ToldInv, WireInv, StrandInv, KeyInv, TypeOK
  <2>3. \A h \in held : h = r BY <2>1, <2>2, OwnKey DEF Apart
  <2>4. UNCHANGED <<pc, result, late, written, closing, shutdown>>
    BY <1>2 DEF Dispatch, DispatchEmpty, clientVars, noteVars, connVars, flagVars
  <2>5. \A d \in SessionCalls : StatusOf(d)' = StatusOf(d)
    BY <2>4, StatusFrame DEF SessionCalls
  <2>6. Served' \in {Served, Served \cup ({r} \cap SessionCalls)}
    <3>1. CASE Dispatch
      <4>1. hollow' = hollow /\ \A d \in Calls : reply'[d] = IF d \in held THEN {r} ELSE reply[d]
        BY <2>1, <3>1 DEF Dispatch, connVars
      <4>2. CASE r \in held
        <5>1. Served' = Served \cup ({r} \cap SessionCalls)
          BY <2>2, <2>3, <2>4, <4>1, <4>2 DEF Served, SessionCalls, Oneway
        <5> QED BY <5>1
      <4>3. CASE r \notin held
        <5>1. Served' = Served BY <2>2, <2>3, <2>4, <4>1, <4>3 DEF Served, SessionCalls, Oneway
        <5> QED BY <5>1
      <4> QED BY <4>2, <4>3
    <3>2. CASE DispatchEmpty
      <4>1. hollow' = hollow \cup {r} /\ reply' = reply BY <2>1, <3>2 DEF DispatchEmpty
      <4>2. Served' = Served \cup ({r} \cap SessionCalls)
        BY <2>4, <4>1 DEF Served, SessionCalls, Oneway
      <4> QED BY <4>2
    <3> QED BY <1>2, <3>1, <3>2
  <2>7. Over' <=> Over BY <2>4 DEF Over
  <2>8. CASE r \in SessionCalls /\ r \notin Served
    <3>1. pc[r] \notin {"idle", "tick"} /\ r \notin late
      BY <2>2 DEF KeyInv, ToldInv, WireInv
    <3>2. result[r] # "nil"
      BY <2>2, <2>8 DEF Apart, ToldInv, OwnInv, Own, Complete, Served
    <3>3. StatusOf(r) \in {"live", "failed"} BY <3>1, <3>2 DEF StatusOf
    <3>4. Served' = Served \/ Served' = Served \cup {r} BY <2>6, <2>8
    <3> QED BY <2>5, <2>7, <2>8, <3>3, <3>4, ServeStep, QuietStep DEF Allowed
  <2>9. CASE ~(r \in SessionCalls /\ r \notin Served)
    <3>1. Served' = Served BY <2>6, <2>9
    <3> QED BY <2>5, <2>7, <3>1, QuietStep DEF Allowed
  <2> QED BY <2>8, <2>9
<1>3. CASE DispatchBad
  BY <1>3, Unseen DEF DispatchBad, Over, clientVars, noteVars, connVars, flagVars
<1>4. CASE (\E e \in {"EOF", "net"} : ReadError(e)) \/ ReadPush \/ Handle
  BY <1>4, Unseen DEF ReadError, ReadPush, Handle, PushQueued, PushDropped, PushRecovered,
                      Over, callVars, clientVars, noteVars, connVars, flagVars
<1>5. CASE Terminate
  BY <1>5, Unseen DEF Terminate, Over, noteVars
<1> QED BY <1>1, <1>2, <1>3, <1>4, <1>5 DEF Input

LEMMA ApplicationAllowed ==
  ASSUME ClientInv, Application \/ UNCHANGED vars
  PROVE  Allowed
<1>1. ASSUME NEW k \in Closers, Close(k) PROVE Allowed
  BY <1>1, Unseen DEF Close, CloseBody, Over, noteVars
<1>2. CASE Consume \/ CloseChan \/ UnregisterServerMessageChan \/ UNCHANGED vars
  BY <1>2, Unseen DEF Consume, CloseChan, UnregisterServerMessageChan, Over, vars, callVars,
                      clientVars, noteVars, connVars, flagVars
<1> QED BY <1>1, <1>2 DEF Application

\* Every behaviour in which no number given to SendRaw meets one the client uses is a
\* behaviour of RpcSession: a call ends once, succeeds only when it was served, and only
\* fails when it began after the end, whatever callers, heartbeat, input loop and Close do.
THEOREM ClientRefines == Spec /\ []Apart => RefinesSession
<1>1. ASSUME Init PROVE Session!Init
  <2>1. \A c \in Calls : result[c] = "none" /\ pc[c] = "idle" /\ reply[c] = {}
    BY <1>1 DEF Init, Idle
  <2>2. \A c \in SessionCalls : StatusOf(c) = "new" BY <2>1 DEF SessionCalls, StatusOf
  <2>3. Served = {} BY <1>1, <2>1 DEF Init, Served, SessionCalls
  <2>4. ~Over BY <1>1 DEF Init, Over
  <2> QED BY <2>2, <2>3, <2>4 DEF Session!Init, Over
<1>2. ASSUME ClientInv, Apart, [Next]_vars PROVE [Session!Next]_(Session!sessionVars)
  BY <1>2, CallerAllowed, InputAllowed, ApplicationAllowed DEF Next, Allowed
<1> QED BY <1>1, <1>2, ClientInvHolds, PTL DEF Spec, RefinesSession, Session!Spec

\* A program that does not use SendRaw is given the promise of RpcSession without any
\* condition: send() never gives a number out twice (client.go:524-527).
THEOREM RefinesWithoutSendRaw ==
  ASSUME \A c \in Calls : ~Raw(c)
  PROVE  Spec => RefinesSession
<1>1. ClientInv => Apart BY DEF ClientInv, TypeOK, Apart, Unshared
<1> QED BY <1>1, ClientInvHolds, ClientRefines, PTL
=============================================================================
