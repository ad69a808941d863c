------------------------- MODULE XaceClient_proofs --------------------------
(***************************************************************************)
(* Theorems about XaceClient, for any set of calls of any kinds, any       *)
(* numbers given to SendRaw and any configurations.                        *)
(***************************************************************************)
EXTENDS XaceClient, TLAPS

-----------------------------------------------------------------------------
(* Facts about the operators that complete calls *)

LEMMA DoneCapType == ASSUME NEW c \in Calls PROVE DoneCap(c) \in Nat \ {0}
  BY DEF DoneCap

\* Completing calls keeps the types, and a Done channel within its capacity.
LEMMA SignalType ==
  ASSUME done \in [Calls -> Nat], signals \in [Calls -> Nat],
         \A c \in Calls : done[c] <= DoneCap(c),
         NEW S, Signal(S)
  PROVE  /\ done' \in [Calls -> Nat] /\ signals' \in [Calls -> Nat]
         /\ \A c \in Calls : done'[c] <= DoneCap(c)
  BY DoneCapType DEF Signal

LEMMA FailType ==
  ASSUME TypeOK, NEW S, NEW e \in Errors, Fail(S, e)
  PROVE  /\ callErr' \in [Calls -> Errors]
         /\ done' \in [Calls -> Nat] /\ signals' \in [Calls -> Nat]
         /\ \A c \in Calls : done'[c] <= DoneCap(c)
  BY SignalType DEF Fail, TypeOK

LEMMA CloseBodyType ==
  ASSUME TypeOK, CloseBody
  PROVE  /\ callErr' \in [Calls -> Errors]
         /\ done' \in [Calls -> Nat] /\ signals' \in [Calls -> Nat]
         /\ \A c \in Calls : done'[c] <= DoneCap(c)
         /\ pending' \subseteq Calls /\ notified' \in Nat
         /\ pluginClosed' \in BOOLEAN /\ connOpen' \in BOOLEAN
         /\ closing' \in BOOLEAN
  <1>1. "ErrShutdown" \in Errors
    BY DEF Errors
  <1> QED BY <1>1, FailType DEF CloseBody, NotifyPlugins, TypeOK

-----------------------------------------------------------------------------
(* Type correctness *)

LEMMA SendType ==
  ASSUME TypeOK, NEW c \in Calls, Send(c)
  PROVE  TypeOK'
<1>1. CASE Refuse(c)
  <2>1. Refusal \in Errors
    BY DEF Refusal, Errors
  <2> QED BY <1>1, <2>1, FailType DEF TypeOK, Refuse, Goto, AfterSend, NoteLate,
       connVars, inputVars, restVars, chanVars, flagVars
<1>2. CASE Register(c)
  BY <1>2 DEF TypeOK, Register, Enter, Goto, NoteLate, NextSeq, At,
     connVars, inputVars, restVars, chanVars, flagVars
<1>3. CASE RegisterRaw(c)
  <2>1. seqOf' \in [Calls -> Nat]
    BY <1>3, RawSeqAssumption DEF TypeOK, RegisterRaw, Enter
  <2>2. pc' \in [Calls -> {"idle", "tick", "send", "oneway", "wait", "check", "returned"}]
    BY <1>3 DEF TypeOK, RegisterRaw, Enter, Goto
  <2>3. pending' \subseteq Calls /\ registered' \subseteq Calls /\ late' \subseteq Calls
    BY <1>3 DEF TypeOK, RegisterRaw, Enter, NoteLate, At
  <2> QED BY <1>3, <2>1, <2>2, <2>3 DEF TypeOK, RegisterRaw,
     connVars, inputVars, restVars, chanVars, flagVars
<1>4. CASE EncodeFail(c)
  <2>1. "encode" \in Errors
    BY DEF Errors
  <2> QED BY <1>4, <2>1, FailType DEF TypeOK, EncodeFail, Goto, AfterSend,
       connVars, inputVars, restVars, chanVars, flagVars, noteVars
<1>5. CASE WriteOk(c)
  BY <1>5 DEF TypeOK, WriteOk, Goto, AfterSend,
     inputVars, restVars, chanVars, clientVars, flagVars, noteVars
<1>6. CASE WriteFail(c)
  <2>1. "write" \in Errors
    BY DEF Errors
  <2> QED BY <1>6, <2>1, FailType DEF TypeOK, WriteFail, Goto, ReturnRaw, AfterSend,
       connVars, inputVars, restVars, chanVars, flagVars, noteVars
<1>7. CASE OnewayDone(c)
  <2>1. "nil" \in Errors
    BY DEF Errors
  <2>2. /\ done' \in [Calls -> Nat] /\ signals' \in [Calls -> Nat]
        /\ \A d \in Calls : done'[d] <= DoneCap(d)
    BY <1>7, SignalType DEF OnewayDone, TypeOK
  <2> QED BY <1>7, <2>1, <2>2 DEF TypeOK, OnewayDone, Goto, ReturnRaw, AfterSend,
       connVars, inputVars, restVars, chanVars, flagVars, noteVars
<1> QED BY <1>1, <1>2, <1>3, <1>4, <1>5, <1>6, <1>7 DEF Send

LEMMA CallerType ==
  ASSUME TypeOK, NEW c \in Calls, Caller(c) \/ HeartbeatTick(c) \/ CtxExpire(c)
  PROVE  TypeOK'
<1>1. CASE Send(c)
  BY <1>1, SendType
<1>2. CASE Receive(c)
  <2>1. done' \in [Calls -> Nat] /\ \A d \in Calls : done'[d] <= DoneCap(d)
    BY <1>2, DoneCapType DEF TypeOK, Receive
  <2> QED BY <1>2, <2>1 DEF TypeOK, Receive, Goto,
     connVars, inputVars, restVars, chanVars, clientVars, flagVars, noteVars
<1>3. CASE Cancel(c)
  <2>1. "ctx" \in Errors
    BY DEF Errors
  <2> QED BY <1>3, <2>1, FailType DEF TypeOK, Cancel, Goto,
       connVars, inputVars, restVars, chanVars, flagVars, noteVars
<1>4. CASE HeartbeatCheck(c)
  <2>1. CASE callErr[c] # "nil"
    BY <1>4, <2>1, CloseBodyType DEF TypeOK, HeartbeatCheck, Goto,
       inputVars, restVars, chanVars, noteVars
  <2>2. CASE callErr[c] = "nil"
    BY <1>4, <2>2 DEF TypeOK, HeartbeatCheck, Goto,
       inputVars, restVars, chanVars, noteVars
  <2> QED BY <2>1, <2>2
<1>5. CASE HeartbeatTick(c)
  BY <1>5 DEF TypeOK, HeartbeatTick, Goto,
     connVars, inputVars, restVars, chanVars, clientVars, flagVars, noteVars
<1>6. CASE CtxExpire(c)
  BY <1>6 DEF TypeOK, CtxExpire,
     connVars, inputVars, restVars, chanVars, clientVars, flagVars, noteVars
<1> QED BY <1>1, <1>2, <1>3, <1>4, <1>5, <1>6 DEF Caller

LEMMA InputType ==
  ASSUME TypeOK, Input
  PROVE  TypeOK'
<1>1. ASSUME NEW r \in Calls, ReadResponse(r) PROVE TypeOK'
  BY <1>1 DEF TypeOK, ReadResponse, At, callVars, restVars, chanVars, flagVars, noteVars
<1>2. CASE Dispatch
  <2>1. /\ done' \in [Calls -> Nat] /\ signals' \in [Calls -> Nat]
        /\ \A d \in Calls : done'[d] <= DoneCap(d)
    BY <1>2, SignalType DEF Dispatch, TypeOK
  <2> QED BY <1>2, <2>1 DEF TypeOK, Dispatch,
       connVars, restVars, chanVars, clientVars, flagVars, noteVars
<1>10. CASE DispatchEmpty
  <2>1. /\ done' \in [Calls -> Nat] /\ signals' \in [Calls -> Nat]
        /\ \A d \in Calls : done'[d] <= DoneCap(d)
    BY <1>10, SignalType DEF DispatchEmpty, TypeOK
  <2> QED BY <1>10, <2>1 DEF TypeOK, DispatchEmpty,
       restVars, chanVars, clientVars, flagVars, noteVars
<1>3. CASE DispatchBad
  <2>1. "decode" \in Errors
    BY DEF Errors
  <2> QED BY <1>3, <2>1, FailType DEF TypeOK, DispatchBad, LoopEnd,
       connVars, restVars, chanVars, clientVars, flagVars, noteVars
<1>4. ASSUME NEW e \in {"EOF", "net"}, ReadError(e) PROVE TypeOK'
  BY <1>4 DEF TypeOK, ReadError, LoopEnd,
     callVars, connVars, restVars, chanVars, clientVars, flagVars, noteVars
<1>5. CASE ReadPush
  BY <1>5, BoundAssumption DEF TypeOK, ReadPush,
     callVars, connVars, clientVars, flagVars, noteVars
<1>6. CASE PushQueued
  BY <1>6, BoundAssumption DEF TypeOK, PushQueued, AfterPush,
     callVars, connVars, clientVars, flagVars, noteVars
<1>7. CASE PushDropped
  BY <1>7 DEF TypeOK, PushDropped, AfterPush,
     callVars, connVars, restVars, chanVars, clientVars, flagVars, noteVars
<1>8. CASE PushRecovered
  BY <1>8 DEF TypeOK, PushRecovered, AfterPush,
     callVars, connVars, clientVars, flagVars, noteVars
<1>9. CASE Terminate
  <2>1. LoopError \in Errors
    BY DEF LoopError, Errors, TypeOK
  <2>2. /\ callErr' \in [Calls -> Errors]
        /\ done' \in [Calls -> Nat] /\ signals' \in [Calls -> Nat]
        /\ \A c \in Calls : done'[c] <= DoneCap(c)
    BY <1>9, <2>1, FailType DEF Terminate
  <2>3. notified' \in Nat
    BY <1>9 DEF Terminate, NotifyPlugins, TypeOK
  <2> QED BY <1>9, <2>2, <2>3 DEF TypeOK, Terminate, NotifyPlugins,
       restVars, chanVars, noteVars
<1> QED BY <1>1, <1>2, <1>3, <1>4, <1>5, <1>6, <1>7, <1>8, <1>9, <1>10 DEF Input, Handle

LEMMA ApplicationType ==
  ASSUME TypeOK, Application
  PROVE  TypeOK'
<1>1. ASSUME NEW k \in Closers, Close(k) PROVE TypeOK'
  <2>1. closeRes' \in [Closers -> {"none", "nil", "ErrShutdown"}]
    BY <1>1 DEF Close, TypeOK
  <2>2. CloseBody
    BY <1>1 DEF Close
  <2> QED BY <1>1, <2>1, <2>2, CloseBodyType DEF TypeOK, Close, inputVars, chanVars, noteVars
<1>2. CASE Consume
  BY <1>2, BoundAssumption DEF TypeOK, Consume,
     callVars, connVars, inputVars, clientVars, flagVars, noteVars
<1>3. CASE CloseChan
  BY <1>3 DEF TypeOK, CloseChan,
     callVars, connVars, inputVars, clientVars, flagVars, noteVars
<1>4. CASE UnregisterServerMessageChan
  BY <1>4 DEF TypeOK, UnregisterServerMessageChan,
     callVars, connVars, inputVars, clientVars, flagVars, noteVars
<1> QED BY <1>1, <1>2, <1>3, <1>4 DEF Application

\* Every variable keeps its type, and no Done channel holds more copies of a call than
\* its capacity: done() drops a signal rather than block (client.go:227-235).
THEOREM TypeCorrect == Spec => []TypeOK
<1>1. Init => TypeOK
  <2> SUFFICES ASSUME Init PROVE TypeOK
    OBVIOUS
  <2>1. /\ done \in [Calls -> Nat] /\ signals \in [Calls -> Nat]
        /\ \A c \in Calls : done[c] <= DoneCap(c)
    BY DoneCapType DEF Init
  <2>2. option \in OptionSet /\ chanSet \in BOOLEAN
    BY OptionAssumption DEF Init
  <2>3. seqOf \in [Calls -> Nat]
    BY RawSeqAssumption DEF Init
  <2>4. callErr \in [Calls -> Errors] /\ result \in [Calls -> Errors \cup {"none"}]
    BY DEF Init, Errors
  <2>5. queued \in 0..ChanCap /\ pushes \in 0..MaxPush /\ notified \in Nat /\ seq \in Nat
    BY BoundAssumption DEF Init
  <2> QED BY <2>1, <2>2, <2>3, <2>4, <2>5 DEF Init, TypeOK, Idle
<1>2. TypeOK /\ [Next]_vars => TypeOK'
  <2> SUFFICES ASSUME TypeOK, [Next]_vars PROVE TypeOK'
    OBVIOUS
  <2>1. CASE UNCHANGED vars
    BY <2>1 DEF TypeOK, vars, callVars, connVars, inputVars, restVars, chanVars,
       clientVars, flagVars, noteVars
  <2>2. CASE Next
    BY <2>2, CallerType, InputType, ApplicationType DEF Next
  <2> QED BY <2>1, <2>2
<1> QED BY <1>1, <1>2, PTL DEF Spec

-----------------------------------------------------------------------------
(* Closing the connection *)

\* The two flags and pluginClosed agree: whoever closes the client sets one of the
\* flags, tells the plugins and closes the connection in one critical section.
FlagInv ==
  /\ closing \/ shutdown <=> pluginClosed
  /\ connOpen <=> ~pluginClosed
  /\ notified = IF pluginClosed THEN 1 ELSE 0

flags == <<closing, shutdown, pluginClosed, connOpen, notified>>

LEMMA FlagCaller ==
  ASSUME TypeOK, FlagInv, NEW c \in Calls, Caller(c) \/ HeartbeatTick(c) \/ CtxExpire(c)
  PROVE  FlagInv'
<1>1. CASE HeartbeatCheck(c) /\ callErr[c] # "nil"
  BY <1>1 DEF HeartbeatCheck, CloseBody, NotifyPlugins, FlagInv, TypeOK
<1>2. CASE ~(HeartbeatCheck(c) /\ callErr[c] # "nil")
  <2>1. UNCHANGED flags
    BY <1>2 DEF flags, Caller, Send, Refuse, Register, RegisterRaw, EncodeFail, WriteOk,
       WriteFail, OnewayDone, Receive, Cancel, HeartbeatCheck, HeartbeatTick, CtxExpire,
       clientVars, flagVars, connVars
  <2> QED BY <2>1 DEF flags, FlagInv
<1> QED BY <1>1, <1>2

LEMMA FlagStep == TypeOK /\ FlagInv /\ [Next]_vars => FlagInv'
<1> SUFFICES ASSUME TypeOK, FlagInv, [Next]_vars PROVE FlagInv'
  OBVIOUS
<1>1. CASE \E c \in Calls : Caller(c) \/ HeartbeatTick(c) \/ CtxExpire(c)
  BY <1>1, FlagCaller
<1>2. CASE Terminate
  BY <1>2 DEF Terminate, NotifyPlugins, FlagInv, TypeOK
<1>3. CASE Input /\ ~Terminate
  <2>1. UNCHANGED flags
    BY <1>3 DEF flags, Input, Handle, ReadResponse, Dispatch, DispatchEmpty, DispatchBad, ReadError,
       ReadPush, PushQueued, PushDropped, PushRecovered, clientVars, flagVars, connVars
  <2> QED BY <2>1 DEF flags, FlagInv
<1>4. ASSUME NEW k \in Closers, Close(k) PROVE FlagInv'
  BY <1>4 DEF Close, CloseBody, NotifyPlugins, FlagInv, TypeOK
<1>5. CASE Consume \/ CloseChan \/ UnregisterServerMessageChan \/ UNCHANGED vars
  <2>1. UNCHANGED flags
    BY <1>5 DEF flags, Consume, CloseChan, UnregisterServerMessageChan,
       clientVars, flagVars, connVars, vars
  <2> QED BY <2>1 DEF flags, FlagInv
<1> QED BY <1>1, <1>2, <1>3, <1>4, <1>5 DEF Next, Application

\* Close, the heartbeat and the end of the input loop race to close the client: whatever
\* the order, the plugins are told once, and from the moment a flag is set the connection
\* is closed (client.go:740-748, 863-878).
THEOREM ClosesOnce == Spec => []ClosedOnce
<1>1. Init => FlagInv
  BY DEF Init, FlagInv
<1>2. TypeOK /\ FlagInv /\ [Next]_vars => FlagInv'
  BY FlagStep
<1>3. FlagInv => ClosedOnce
  BY DEF FlagInv, ClosedOnce
<1> QED BY <1>1, <1>2, <1>3, TypeCorrect, PTL DEF Spec

-----------------------------------------------------------------------------
(* No caller is left behind *)

\* Who is registered, and under which keys: send() never reuses a number.
KeyInv ==
  /\ pending \cup held \subseteq registered
  /\ \A c \in registered : pc[c] \notin {"idle", "tick"}
  /\ \A c \in Calls : pc[c] \in {"send", "oneway"} => c \in registered
  /\ \A c \in registered : ~Raw(c) => seqOf[c] < seq
  /\ \A c, d \in registered : ~Raw(c) /\ ~Raw(d) /\ seqOf[c] = seqOf[d] => c = d
  /\ ipc # "dispatch" => held = {}

\* A registered call is in pending, with the input loop, or was completed.
KeptInv ==
  \A c \in registered :
    Unshared(c) => c \in pending \/ c \in held \/ signals[c] > 0

\* A goroutine waits only for a call that was registered or completed at once.
WaitInv == \A c \in Calls : pc[c] = "wait" => c \in registered \/ signals[c] > 0

\* What pending may still hold after the end: messages of SendRaw whose write is about
\* to fail and, if only the input loop ended, calls that were completed.
DrainInv ==
  \A c \in pending : \/ Raw(c) /\ pc[c] = "send"
                     \/ ~closing /\ (shutdown => signals[c] > 0)

\* A completed call stays in its Done channel until its caller takes it.
DoneInv == \A c \in Calls : pc[c] # "returned" /\ signals[c] > 0 => done[c] > 0

StrandInv == KeyInv /\ KeptInv /\ WaitInv /\ DrainInv /\ DoneInv

\* Completing the calls of S: a signal is never taken back, and leaves a copy in Done.
LEMMA SignalFacts ==
  ASSUME TypeOK, NEW S, Signal(S)
  PROVE  /\ \A c \in Calls : signals'[c] >= signals[c]
         /\ \A c \in Calls : c \in S => signals'[c] > 0
         /\ \A c \in Calls : c \notin S => signals'[c] = signals[c] /\ done'[c] = done[c]
         /\ \A c \in Calls : c \in S => done'[c] > 0
         /\ \A c \in Calls : done[c] > 0 => done'[c] > 0
  BY DoneCapType DEF Signal, TypeOK

LEMMA RefuseKeeps ==
  ASSUME TypeOK, StrandInv, NEW c \in Calls, Refuse(c)
  PROVE  StrandInv'
<1> USE DEF Refuse, Fail, Goto, AfterSend, connVars, inputVars, flagVars, TypeOK, StrandInv
<1>1. Signal({c}) /\ c \notin registered
  BY DEF Starting, KeyInv
<1>2. KeyInv'
  BY <1>1 DEF KeyInv, Raw
<1>3. KeptInv'
  BY <1>1, SignalFacts DEF KeptInv, Unshared, Raw
<1>4. WaitInv'
  BY <1>1, SignalFacts DEF WaitInv
<1>5. DrainInv'
  BY <1>1, SignalFacts DEF DrainInv, KeyInv, Raw
<1>6. DoneInv'
  BY <1>1, SignalFacts DEF DoneInv, Starting
<1> QED BY <1>2, <1>3, <1>4, <1>5, <1>6

LEMMA RegisterKeeps ==
  ASSUME TypeOK, StrandInv, NEW c \in Calls, Register(c)
  PROVE  StrandInv'
<1> USE DEF Register, Enter, NextSeq, Goto, connVars, inputVars, flagVars, TypeOK, StrandInv
<1>1. c \notin registered
  BY DEF Starting, KeyInv
<1>2. \A d \in At(seq) : d # c /\ Raw(d)
  BY <1>1 DEF KeyInv, At
<1>3. KeyInv'
  BY <1>1 DEF KeyInv, Raw
<1>4. KeptInv'
  <2> SUFFICES ASSUME NEW d \in registered', Unshared(d)'
               PROVE  d \in pending' \/ d \in held' \/ signals'[d] > 0
    BY DEF KeptInv
  <2>1. CASE d = c
    BY <2>1
  <2>2. CASE d # c
    <3>1. d \in registered /\ Unshared(d) /\ d \notin At(seq)
      BY <1>1, <1>2, <2>2 DEF Unshared, Raw, At
    <3> QED BY <3>1, <2>2 DEF KeptInv
  <2> QED BY <2>1, <2>2
<1>5. WaitInv'
  BY DEF WaitInv
<1>6. DrainInv'
  BY <1>1 DEF DrainInv, KeyInv, Raw
<1>7. DoneInv'
  BY DEF DoneInv, Starting
<1> QED BY <1>3, <1>4, <1>5, <1>6, <1>7

LEMMA RegisterRawKeeps ==
  ASSUME TypeOK, StrandInv, NEW c \in Calls, RegisterRaw(c)
  PROVE  StrandInv'
<1> USE DEF RegisterRaw, Enter, Goto, connVars, inputVars, flagVars, TypeOK, StrandInv
<1>1. c \notin registered /\ Raw(c) /\ RawSeq[c] \in Nat
  BY RawSeqAssumption DEF Starting, KeyInv
<1>2. KeyInv'
  BY <1>1 DEF KeyInv, Raw
<1>3. KeptInv'
  <2> SUFFICES ASSUME NEW d \in registered', Unshared(d)'
               PROVE  d \in pending' \/ d \in held' \/ signals'[d] > 0
    BY DEF KeptInv
  <2>1. CASE d = c
    BY <2>1
  <2>2. CASE d # c
    <3>1. d \in registered /\ Unshared(d) /\ d \notin At(RawSeq[c])
      BY <1>1, <2>2 DEF Unshared, Raw, At
    <3> QED BY <3>1, <2>2 DEF KeptInv
  <2> QED BY <2>1, <2>2
<1>4. WaitInv'
  BY DEF WaitInv
<1>5. DrainInv'
  BY <1>1 DEF DrainInv, KeyInv, Raw
<1>6. DoneInv'
  BY DEF DoneInv, Starting
<1> QED BY <1>2, <1>3, <1>4, <1>5, <1>6

\* The own key of an unshared call of send() holds no other unshared call.
LEMMA KeyUnique ==
  ASSUME TypeOK, KeyInv, NEW c \in registered, ~Raw(c),
         NEW d \in At(seqOf[c]), Unshared(d)
  PROVE  d = c
  BY DEF KeyInv, At, Unshared, Raw, TypeOK

LEMMA EncodeFailKeeps ==
  ASSUME TypeOK, StrandInv, NEW c \in Calls, EncodeFail(c)
  PROVE  StrandInv'
<1> USE DEF EncodeFail, Fail, Goto, AfterSend, noteVars, connVars, inputVars, flagVars,
        TypeOK, StrandInv
<1>1. Signal({c}) /\ c \in registered /\ ~Raw(c)
  BY DEF KeyInv
<1>2. KeyInv'
  BY <1>1 DEF KeyInv, Raw
<1>3. KeptInv'
  <2> SUFFICES ASSUME NEW d \in registered, Unshared(d)
               PROVE  d \in pending' \/ d \in held' \/ signals'[d] > 0
    BY DEF KeptInv, Unshared, Raw
  <2>1. CASE d \in At(seqOf[c])
    BY <2>1, <1>1, KeyUnique, SignalFacts
  <2>2. CASE d \notin At(seqOf[c])
    BY <2>2, <1>1, SignalFacts DEF KeptInv
  <2> QED BY <2>1, <2>2
<1>4. WaitInv'
  BY <1>1, SignalFacts DEF WaitInv
<1>5. DrainInv'
  BY <1>1, SignalFacts DEF DrainInv, At, Raw
<1>6. DoneInv'
  BY <1>1, SignalFacts DEF DoneInv
<1> QED BY <1>2, <1>3, <1>4, <1>5, <1>6

LEMMA WriteOkKeeps ==
  ASSUME TypeOK, FlagInv, StrandInv, NEW c \in Calls, WriteOk(c)
  PROVE  StrandInv'
<1> USE DEF WriteOk, Goto, AfterSend, clientVars, noteVars, inputVars, flagVars,
        TypeOK, StrandInv
<1>1. c \in registered /\ ~closing /\ ~shutdown
  BY DEF KeyInv, FlagInv
<1>2. KeyInv'
  BY <1>1 DEF KeyInv, Raw
<1>3. KeptInv'
  BY DEF KeptInv, Unshared, Raw
<1>4. WaitInv'
  BY <1>1 DEF WaitInv
<1>5. DrainInv'
  BY <1>1 DEF DrainInv, Raw
<1>6. DoneInv'
  BY DEF DoneInv
<1> QED BY <1>2, <1>3, <1>4, <1>5, <1>6

\* The calls of S are taken from pending and completed while the goroutine of c, which
\* is past its registration, moves on to l: what WriteFail, OnewayDone and Cancel share.
Takes(c, S, l) ==
  /\ pc[c] \in {"send", "oneway", "wait"} /\ l \in {"wait", "check", "returned"}
  /\ l = "wait" => c \in registered
  /\ pc[c] = "send" /\ c \in pending => c \in S
  /\ pc' = [pc EXCEPT ![c] = l]
  /\ pending' = pending \ S /\ Signal(S)
  /\ UNCHANGED <<seqOf, seq, registered, held, ipc, closing, shutdown>>

LEMMA TakeKeeps ==
  ASSUME TypeOK, StrandInv, NEW c \in Calls, NEW S, NEW l, Takes(c, S, l)
  PROVE  StrandInv'
<1> USE DEF TypeOK, StrandInv, Takes
<1>1. KeyInv'
  BY DEF KeyInv, Raw
<1>2. KeptInv'
  BY SignalFacts DEF KeptInv, Unshared, Raw
<1>3. WaitInv'
  BY SignalFacts DEF WaitInv
<1>4. DrainInv'
  BY SignalFacts DEF DrainInv, Raw
<1>5. DoneInv'
  BY SignalFacts DEF DoneInv
<1> QED BY <1>1, <1>2, <1>3, <1>4, <1>5

LEMMA CallerKeeps ==
  ASSUME TypeOK, FlagInv, StrandInv, NEW c \in Calls,
         Caller(c) \/ HeartbeatTick(c) \/ CtxExpire(c)
  PROVE  StrandInv'
<1>1. CASE Refuse(c) \/ Register(c) \/ RegisterRaw(c) \/ EncodeFail(c) \/ WriteOk(c)
  BY <1>1, RefuseKeeps, RegisterKeeps, RegisterRawKeeps, EncodeFailKeeps, WriteOkKeeps
<1>2. CASE WriteFail(c)
  <2> DEFINE l == IF Raw(c) THEN "returned" ELSE AfterSend(c)
  <2>1. l \in {"wait", "check", "returned"} /\ c \in registered
    BY <1>2 DEF AfterSend, WriteFail, StrandInv, KeyInv
  <2>2. pc' = [pc EXCEPT ![c] = l]
    BY <1>2 DEF WriteFail, ReturnRaw, Goto
  <2>3. c \in pending => c \in At(seqOf[c])
    BY DEF At
  <2> HIDE DEF l
  <2>4. Takes(c, At(seqOf[c]), l)
    BY <1>2, <2>1, <2>2, <2>3 DEF Takes, WriteFail, Fail, noteVars, flagVars, inputVars
  <2> QED BY <2>4, TakeKeeps
<1>3. CASE OnewayDone(c)
  <2> DEFINE l == IF Raw(c) THEN "returned" ELSE AfterSend(c)
  <2>1. l \in {"wait", "check", "returned"} /\ c \in registered
    BY <1>3 DEF AfterSend, OnewayDone, StrandInv, KeyInv
  <2>2. pc' = [pc EXCEPT ![c] = l]
    BY <1>3 DEF OnewayDone, ReturnRaw, Goto
  <2> HIDE DEF l
  <2>3. Takes(c, At(seqOf[c]), l)
    BY <1>3, <2>1, <2>2 DEF Takes, OnewayDone, noteVars, flagVars, inputVars
  <2> QED BY <2>3, TakeKeeps
<1>4. CASE Cancel(c)
  <2>1. Takes(c, At(CancelKey(c)), "returned")
    BY <1>4 DEF Takes, Cancel, Goto, Fail, noteVars, flagVars, inputVars
  <2> QED BY <2>1, TakeKeeps
<1>5. CASE Receive(c)
  <2> USE <1>5 DEF Receive, Goto, StrandInv, TypeOK,
          clientVars, noteVars, flagVars, inputVars
  <2>1. KeyInv' /\ WaitInv'
    BY DEF KeyInv, WaitInv, Raw
  <2>2. KeptInv' /\ DrainInv'
    BY DEF KeptInv, DrainInv, Unshared, Raw
  <2>3. DoneInv'
    BY DEF DoneInv
  <2> QED BY <2>1, <2>2, <2>3
<1>6. CASE HeartbeatTick(c)
  <2> USE <1>6 DEF HeartbeatTick, Goto, StrandInv, TypeOK,
          clientVars, noteVars, flagVars, inputVars
  <2>1. c \notin registered
    BY DEF KeyInv
  <2>2. KeyInv' /\ WaitInv'
    BY <2>1 DEF KeyInv, WaitInv, Raw
  <2>3. KeptInv' /\ DrainInv' /\ DoneInv'
    BY <2>1 DEF KeptInv, DrainInv, DoneInv, Unshared, Raw
  <2> QED BY <2>2, <2>3
<1>7. CASE CtxExpire(c)
  BY <1>7 DEF CtxExpire, StrandInv, KeyInv, KeptInv, WaitInv, DrainInv, DoneInv,
     Unshared, Raw, clientVars, noteVars, flagVars, inputVars
<1>8. CASE HeartbeatCheck(c)
  <2> USE <1>8 DEF HeartbeatCheck, Goto, StrandInv, TypeOK, noteVars, flagVars, inputVars
  <2>1. CASE callErr[c] # "nil"
    <3>1. pending' = {} /\ Signal(pending)
      BY <2>1 DEF CloseBody, Fail
    <3>2. KeyInv' /\ DrainInv'
      BY <3>1 DEF KeyInv, DrainInv, Raw
    <3>3. KeptInv' /\ WaitInv' /\ DoneInv'
      BY <3>1, SignalFacts DEF KeptInv, WaitInv, DoneInv, Unshared, Raw
    <3> QED BY <3>2, <3>3
  <2>2. CASE callErr[c] = "nil"
    <3>1. KeyInv' /\ DrainInv'
      BY <2>2 DEF KeyInv, DrainInv, Raw
    <3>2. KeptInv' /\ WaitInv' /\ DoneInv'
      BY <2>2 DEF KeptInv, WaitInv, DoneInv, Unshared, Raw
    <3> QED BY <3>1, <3>2
  <2> QED BY <2>1, <2>2
<1> QED BY <1>1, <1>2, <1>3, <1>4, <1>5, <1>6, <1>7, <1>8 DEF Caller, Send

\* The input loop moves without touching pending, Done or the flags.
LEMMA LoopMoveKeeps ==
  ASSUME TypeOK, StrandInv, ipc # "dispatch", ipc' # "dispatch",
         UNCHANGED <<pc, seqOf, done, signals, pending, seq, registered, held,
                     closing, shutdown>>
  PROVE  StrandInv'
<1> USE DEF StrandInv
<1>1. KeyInv' /\ KeptInv'
  BY DEF KeyInv, KeptInv, Unshared, Raw
<1>2. WaitInv' /\ DrainInv' /\ DoneInv'
  BY DEF WaitInv, DrainInv, DoneInv, Raw
<1> QED BY <1>1, <1>2

\* The input loop completes the call it holds.
LEMMA ReleaseKeeps ==
  ASSUME TypeOK, StrandInv, Signal(held), held' = {},
         UNCHANGED <<pc, seqOf, pending, seq, registered, closing, shutdown>>
  PROVE  StrandInv'
<1> USE DEF StrandInv, TypeOK
<1>1. KeyInv'
  BY DEF KeyInv, Raw
<1>2. KeptInv' /\ DrainInv'
  BY SignalFacts DEF KeptInv, DrainInv, Unshared, Raw
<1>3. WaitInv' /\ DoneInv'
  BY SignalFacts DEF WaitInv, DoneInv
<1> QED BY <1>1, <1>2, <1>3

LEMMA InputKeeps ==
  ASSUME TypeOK, StrandInv, Input
  PROVE  StrandInv'
<1>1. ASSUME NEW r \in Calls, ReadResponse(r) PROVE StrandInv'
  <2> USE <1>1 DEF ReadResponse, callVars, noteVars, flagVars, StrandInv, TypeOK
  <2>1. held = {} /\ At(seqOf[r]) \subseteq pending
    BY DEF KeyInv, At
  <2>2. KeyInv'
    BY <2>1 DEF KeyInv, Raw
  <2>3. KeptInv' /\ DrainInv'
    BY <2>1 DEF KeptInv, DrainInv, Unshared, Raw
  <2>4. WaitInv' /\ DoneInv'
    BY DEF WaitInv, DoneInv
  <2> QED BY <2>2, <2>3, <2>4
<1>2. CASE Dispatch \/ DispatchEmpty
  BY <1>2, ReleaseKeeps DEF Dispatch, DispatchEmpty, clientVars, noteVars, flagVars
<1>3. CASE DispatchBad
  BY <1>3, ReleaseKeeps DEF DispatchBad, Fail, clientVars, noteVars, flagVars
<1>4. CASE (\E e \in {"EOF", "net"} : ReadError(e)) \/ ReadPush \/ Handle
  <2>1. /\ ipc # "dispatch" /\ ipc' # "dispatch"
        /\ UNCHANGED <<pc, seqOf, done, signals, pending, seq, registered, held,
                       closing, shutdown>>
    BY <1>4 DEF ReadError, LoopEnd, ReadPush, Handle, PushQueued, PushDropped,
       PushRecovered, AfterPush, callVars, clientVars, noteVars, flagVars
  <2> QED BY <2>1, LoopMoveKeeps
<1>5. CASE Terminate
  <2> USE <1>5 DEF Terminate, Fail, noteVars, StrandInv, TypeOK
  <2>1. KeyInv' /\ WaitInv'
    BY SignalFacts DEF KeyInv, WaitInv, Raw
  <2>2. KeptInv' /\ DoneInv'
    BY SignalFacts DEF KeptInv, DoneInv, Unshared, Raw
  <2>3. DrainInv'
    BY SignalFacts DEF DrainInv, Raw
  <2> QED BY <2>1, <2>2, <2>3
<1> QED BY <1>1, <1>2, <1>3, <1>4, <1>5 DEF Input

LEMMA ApplicationKeeps ==
  ASSUME TypeOK, StrandInv, Application
  PROVE  StrandInv'
<1>1. ASSUME NEW k \in Closers, Close(k) PROVE StrandInv'
  <2> USE <1>1 DEF Close, StrandInv, TypeOK, noteVars, inputVars
  <2>1. pending' = {} /\ Signal(pending)
    BY DEF CloseBody, Fail
  <2>2. KeyInv' /\ DrainInv'
    BY <2>1 DEF KeyInv, DrainInv, Raw
  <2>3. KeptInv' /\ WaitInv' /\ DoneInv'
    BY <2>1, SignalFacts DEF KeptInv, WaitInv, DoneInv, Unshared, Raw
  <2> QED BY <2>2, <2>3
<1>2. CASE Consume \/ CloseChan \/ UnregisterServerMessageChan
  BY <1>2 DEF Consume, CloseChan, UnregisterServerMessageChan, StrandInv, KeyInv, KeptInv,
     WaitInv, DrainInv, DoneInv, Unshared, Raw,
     callVars, clientVars, noteVars, flagVars, inputVars
<1> QED BY <1>1, <1>2 DEF Application

\* The invariant holds of every reachable state.
LEMMA StrandHolds == Spec => [](TypeOK /\ FlagInv /\ StrandInv)
<1>1. Init => FlagInv /\ StrandInv
  <2> SUFFICES ASSUME Init PROVE FlagInv /\ StrandInv
    OBVIOUS
  <2>1. FlagInv
    BY DEF Init, FlagInv
  <2>2. KeyInv /\ KeptInv /\ WaitInv /\ DrainInv /\ DoneInv
    BY DEF Init, Idle, KeyInv, KeptInv, WaitInv, DrainInv, DoneInv
  <2> QED BY <2>1, <2>2 DEF StrandInv
<1>2. TypeOK /\ FlagInv /\ StrandInv /\ [Next]_vars => FlagInv' /\ StrandInv'
  <2> SUFFICES ASSUME TypeOK, FlagInv, StrandInv, [Next]_vars PROVE FlagInv' /\ StrandInv'
    OBVIOUS
  <2>1. FlagInv'
    BY FlagStep
  <2>2. CASE UNCHANGED vars
    <3>1. UNCHANGED <<pc, seqOf, done, signals, pending, seq, registered, held, ipc,
                      closing, shutdown>>
      BY <2>2 DEF vars, callVars, clientVars, noteVars, flagVars, inputVars
    <3>2. KeyInv' /\ WaitInv' /\ DoneInv'
      BY <3>1 DEF StrandInv, KeyInv, WaitInv, DoneInv, Raw
    <3>3. KeptInv' /\ DrainInv'
      BY <3>1 DEF StrandInv, KeptInv, DrainInv, Unshared, Raw
    <3> QED BY <2>1, <3>2, <3>3 DEF StrandInv
  <2>3. CASE \E c \in Calls : Caller(c) \/ HeartbeatTick(c) \/ CtxExpire(c)
    BY <2>1, <2>3, CallerKeeps
  <2>4. CASE Input \/ Application
    BY <2>1, <2>4, InputKeeps, ApplicationKeeps
  <2> QED BY <2>1, <2>2, <2>3, <2>4 DEF Next
<1> QED BY <1>1, <1>2, TypeCorrect, PTL DEF Spec

\* The inductive invariant: after the end, a caller that waits was registered or was
\* completed at once (WaitInv); a registered call is in pending, held or completed
\* (KeptInv); what is still in pending was completed or is not yet waited for (DrainInv);
\* and a completed call is in its Done channel (DoneInv).
LEMMA StrandImplies == StrandInv => NoCallerStranded
  BY DEF StrandInv, KeptInv, WaitInv, DrainInv, DoneInv, NoCallerStranded

\* Whatever the interleaving of callers, input loop, heartbeat and Close, once the client
\* is closing or shut down no goroutine waits for a call that nobody will complete.
THEOREM NobodyStranded == Spec => []NoCallerStranded
BY StrandHolds, StrandImplies, PTL
=============================================================================
