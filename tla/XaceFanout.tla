----------------------------- MODULE XaceFanout -----------------------------
(***************************************************************************)
(* Broadcast, Fork and Inform of xClient (src/xace/client/xclient.go,      *)
(* 836-1144), made next to the calls of XaceXClient on the same cache of   *)
(* connections.                                                            *)
(*                                                                         *)
(* Each gathers a connection to every server it can, starts a goroutine    *)
(* per connection, and collects the verdicts these put into a channel.     *)
(* What else a goroutine has to store (its error, the reply, a receipt) it *)
(* stores before or after that, and the collector may be gone by then.     *)
(***************************************************************************)
EXTENDS XaceXClient, Sequences

CONSTANTS
  Fans,    \* calls of Broadcast, Fork and Inform
  XOfFan,  \* the xClient each is made on
  FanKind  \* what each is, per configuration

FanKinds == {"broadcast", "fork", "inform", "none"}

ASSUME FiniteAssumption == IsFiniteSet(Servers)
ASSUME XOfFanAssumption == XOfFan \in [Fans -> XClients]
ASSUME FanKindAssumption == FanKind \in [OptionSet -> [Fans -> FanKinds]]

VARIABLES
  fan,     \* the caller: where it is, what it counts and what it returned
  worker,  \* its goroutine for each server
  done,    \* the channel of verdicts
  errs,    \* the shared MultiError: the servers whose error it holds, and the timeout
  reply,   \* the server whose reply was copied into the caller's
  receipts

fanVars == <<fan, worker, done, errs, reply, receipts>>
allVars == <<vars, fanVars>>

Timeout == "timeout"

\* reply, receipts, unrecorded: history, what there was when the caller returned.
FanBegun == [pc |-> "new", left |-> 0, timedOut |-> FALSE, result |-> "none",
             reply |-> NoServer, receipts |-> {}, unrecorded |-> {}]

Idle == [pc |-> "none", client |-> None, e |-> "nil"]

FanInit ==
  /\ Init
  /\ fan = [f \in Fans |-> FanBegun]
  /\ worker = [f \in Fans |-> [k \in Servers |-> Idle]]
  /\ done = [f \in Fans |-> <<>>]
  /\ errs = [f \in Fans |-> {}]
  /\ reply = [f \in Fans |-> NoServer]
  /\ receipts = [f \in Fans |-> {}]

FanBecomes(f, r) == fan' = [fan EXCEPT ![f] = r]

Is(f, kind) == FanKind[option][f] = kind

\* The servers a request was sent to.
Gathered(f) == {k \in Servers : worker[f][k].pc # "none"}

-----------------------------------------------------------------------------
(* The caller *)

FanEnter(f) ==
  /\ fan[f].pc = "new" /\ ~Is(f, "none")
  /\ FanBecomes(f, IF XOfFan[f] \in isShutdown
                   THEN [fan[f] EXCEPT !.pc = "returned", !.result = "error"]
                   ELSE [fan[f] EXCEPT !.pc = "gather"])
  /\ UNCHANGED <<vars, worker, done, errs, reply, receipts>>

\* getCachedClientWithoutLock for every server (398-422): one that has no usable connection
\* loses its old one and gets a new one if it can be dialled.
Refilled(x, up, new) ==
  [k \in Servers |-> CASE k \in up -> new[k]
                       [] k \in option.servers \ up /\ ~Usable(Find(x, k)) -> None
                       [] OTHER -> cached[Place(x)][k]]

\* The number of servers and their goroutines, once the lock is released (859-889).
Start(f, got) ==
  /\ FanBecomes(f, IF \A k \in Servers : got[k] = None
                   THEN [fan[f] EXCEPT !.pc = "returned", !.result = "error"]
                   ELSE [fan[f] EXCEPT !.pc = "collect",
                                       !.left = Cardinality({k \in Servers : got[k] # None})])
  /\ worker' = [worker EXCEPT ![f] =
       [k \in Servers |-> IF got[k] = None THEN Idle
                          ELSE [pc |-> "call", client |-> got[k], e |-> "nil"]]]

\* Those of up could be dialled, and of the other stale ones the breaker counts a failure.
Stale(x) == {k \in option.servers : ~Usable(Find(x, k))}

Reconnect(x, up, new) ==
  LET fresh == {new[k] : k \in up}
      lost == {Find(x, k) : k \in Stale(x)} \ {None}
  IN /\ \A k, l \in up : new[k] = new[l] => k = l
     /\ \A c \in fresh : ~Made(c) /\ \A d \in Clients : d < c => Made(d) \/ d \in fresh
     /\ cached' = [cached EXCEPT ![Place(x)] = Refilled(x, up, new)]
     /\ conn' = [c \in Clients |-> IF c \in fresh THEN "open"
                                   ELSE IF c \in lost THEN "closed" ELSE conn[c]]
     /\ late' = IF x \in isShutdown THEN late \cup fresh ELSE late
     /\ breakers' = IF ~option.breaker THEN breakers
                    ELSE [breakers EXCEPT ![x] = [k \in Servers |->
                           IF k \in Stale(x) \ up THEN Failed(@[k]) ELSE @[k]]]

\* Under xClient.mu, with no look at isShutdown or a breaker.
Gather(f) ==
  /\ fan[f].pc = "gather" /\ ~Locked(XOfFan[f])
  /\ \E up \in SUBSET Stale(XOfFan[f]) : \E new \in [up -> Clients] :
       /\ Reconnect(XOfFan[f], up, new)
       /\ Start(f, [k \in Servers |-> IF k \in option.servers
                                      THEN Refilled(XOfFan[f], up, new)[k] ELSE None])
  /\ UNCHANGED <<option, isShutdown, knocks, opVars, done, errs, reply, receipts>>

\* Mutant: Broadcast stops at the first success.
EnoughEarly(f, ok, left) == left = 0 \/ ok

\* When the collector stops (917, 1012-1016, 1130).
Enough(f, ok, left) ==
  left = 0 \/ (Is(f, "broadcast") /\ ~ok) \/ (Is(f, "fork") /\ ok)

Collect(f) ==
  /\ fan[f].pc = "collect" /\ done[f] # <<>>
  /\ LET ok == Head(done[f])  left == fan[f].left - 1 IN
     FanBecomes(f,
       CASE Enough(f, ok, left) /\ Is(f, "fork") /\ ok ->
              [fan[f] EXCEPT !.pc = "returned", !.left = left,
                             !.result = "nil", !.reply = reply[f]]
         [] Enough(f, ok, left) /\ ~(Is(f, "fork") /\ ok) ->
              [fan[f] EXCEPT !.pc = "verdict", !.left = left]
         [] OTHER -> [fan[f] EXCEPT !.left = left])
  /\ done' = [done EXCEPT ![f] = Tail(@)]
  /\ UNCHANGED <<vars, worker, errs, reply, receipts>>

\* A minute has passed.
FanTimeout(f) ==
  /\ fan[f].pc = "collect"
  /\ FanBecomes(f, [fan[f] EXCEPT !.pc = "verdict", !.timedOut = TRUE])
  /\ errs' = [errs EXCEPT ![f] = @ \cup {Timeout}]
  /\ UNCHANGED <<vars, worker, done, reply, receipts>>

\* The MultiError is read: nil if it holds nothing (927-930, 1140-1143).
Verdict(f) ==
  /\ fan[f].pc = "verdict"
  /\ FanBecomes(f, [fan[f] EXCEPT
       !.pc = "returned",
       !.result = IF errs[f] = {} THEN "nil" ELSE "error",
       !.reply = reply[f], !.receipts = receipts[f],
       !.unrecorded = {k \in Gathered(f) : worker[f][k].e # "nil" /\ k \notin errs[f]}])
  /\ UNCHANGED <<vars, worker, done, errs, reply, receipts>>

-----------------------------------------------------------------------------
(* The goroutine of one server: 888-908, 984-1003, 1088-1121 *)

WorkerAt(f, k, from) == worker[f][k].pc = from
WorkerBecomes(f, k, w) == worker' = [worker EXCEPT ![f][k] = w]
Moves(f, k, to) == WorkerBecomes(f, k, [worker[f][k] EXCEPT !.pc = to])

\* wrapCall.  Fork stores the reply before it signals, the others after.
WorkerCall(f, k) ==
  /\ WorkerAt(f, k, "call")
  /\ \E r \in Ends(worker[f][k].client) :
       WorkerBecomes(f, k, [worker[f][k] EXCEPT
         !.e = r, !.pc = IF Is(f, "fork") /\ r = "nil" THEN "reply" ELSE "signal"])
  /\ UNCHANGED <<vars, fan, done, errs, reply, receipts>>

\* Mutant: the channel has room for one verdict.
RoomForOne(f) == 1

\* make(chan bool, l)
Room(f) == Cardinality(Gathered(f))

\* done <- (e == nil)
WorkerSignal(f, k) ==
  /\ WorkerAt(f, k, "signal") /\ Len(done[f]) < Room(f)
  /\ LET e == worker[f][k].e IN
     /\ done' = [done EXCEPT ![f] = Append(@, e = "nil")]
     /\ Moves(f, k, CASE e = "other" -> "remove"
                      [] e \in {"service", "context"} -> "append"
                      [] OTHER -> IF Is(f, "fork") THEN "ended" ELSE "reply")
  /\ UNCHANGED <<vars, fan, errs, reply, receipts>>

WorkerRemove(f, k) ==
  /\ WorkerAt(f, k, "remove") /\ ~Locked(XOfFan[f])
  /\ Remove(XOfFan[f], k, worker[f][k].client)
  /\ Moves(f, k, "append")
  /\ UNCHANGED <<option, isShutdown, breakers, late, knocks, opVars,
                 fan, done, errs, reply, receipts>>

WorkerAppend(f, k) ==
  /\ WorkerAt(f, k, "append")
  /\ errs' = [errs EXCEPT ![f] = @ \cup {k}]
  /\ Moves(f, k, IF Is(f, "inform") THEN "receipt" ELSE "ended")
  /\ UNCHANGED <<vars, fan, done, reply, receipts>>

\* replyOnce
WorkerReply(f, k) ==
  /\ WorkerAt(f, k, "reply")
  /\ reply' = [reply EXCEPT ![f] = IF @ = NoServer THEN k ELSE @]
  /\ Moves(f, k, CASE Is(f, "fork") -> "signal"
                   [] Is(f, "inform") -> "receipt"
                   [] OTHER -> "ended")
  /\ UNCHANGED <<vars, fan, done, errs, receipts>>

\* The receipt's Error is the shared MultiError.
WorkerReceipt(f, k) ==
  /\ WorkerAt(f, k, "receipt")
  /\ receipts' = [receipts EXCEPT ![f] = @ \cup {k}]
  /\ Moves(f, k, "ended")
  /\ UNCHANGED <<vars, fan, done, errs, reply>>

-----------------------------------------------------------------------------
CallerStep(f) ==
  FanEnter(f) \/ Gather(f) \/ Collect(f) \/ FanTimeout(f) \/ Verdict(f)

WorkerStep(f, k) ==
  \/ WorkerCall(f, k) \/ WorkerSignal(f, k) \/ WorkerRemove(f, k)
  \/ WorkerAppend(f, k) \/ WorkerReply(f, k) \/ WorkerReceipt(f, k)

FanNext ==
  \/ Next /\ UNCHANGED fanVars
  \/ \E f \in Fans : CallerStep(f)
  \/ \E f \in Fans, k \in Servers : WorkerStep(f, k)

FanSpec == FanInit /\ [][FanNext]_allVars

\* As for a call, with a goroutine for each server; the timer of a minute runs out.
FanFairness ==
  /\ \A a \in Ops : WF_allVars(OpStep(a) /\ ~At(a, "new") /\ UNCHANGED fanVars)
  /\ \A f \in Fans : WF_allVars(fan[f].pc # "new" /\ CallerStep(f))
  /\ \A f \in Fans, k \in Servers : WF_allVars(WorkerStep(f, k))

FanLiveSpec == FanSpec /\ FanFairness

-----------------------------------------------------------------------------
(* Properties *)

FanRecord ==
  [pc : {"new", "gather", "collect", "verdict", "returned"}, left : 0 .. Cardinality(Servers),
   timedOut : BOOLEAN, result : {"none", "nil", "error"}, reply : Servers \cup {NoServer},
   receipts : SUBSET Servers, unrecorded : SUBSET Servers]

WorkerRecord ==
  [pc : {"none", "call", "signal", "remove", "append", "reply", "receipt", "ended"},
   client : Clients \cup {None}, e : Errors]

\* Type invariant.
FanTypeOK ==
  /\ TypeOK
  /\ fan \in [Fans -> FanRecord]
  /\ worker \in [Fans -> [Servers -> WorkerRecord]]
  /\ done \in [Fans -> Seq(BOOLEAN)]
  /\ \A f \in Fans : Len(done[f]) <= Cardinality(Servers)
  /\ errs \in [Fans -> SUBSET (Servers \cup {Timeout})]
  /\ reply \in [Fans -> Servers \cup {NoServer}]
  /\ receipts \in [Fans -> SUBSET Servers]

\* What a caller is told is the outcome of the requests that were sent (836, 933, 1033):
\*   an error that is not the timeout means that one failed, for Fork that all did;
\*   nil from Broadcast, that every server answered nil; from Fork, that the reply is
\*   there and one answered nil; from Inform, that every call is over and none failed.
\* The exception is a nil returned while errors of failed requests were not recorded yet.
FanErrorIsOutcome ==
  \A f \in Fans :
    fan[f].pc = "returned" /\ Gathered(f) # {} =>
      LET got == fan[f]
          bad == {k \in Gathered(f) : worker[f][k].e # "nil"}
          over == {k \in Gathered(f) : worker[f][k].pc # "call"}
          nil == got.result = "nil"
      IN /\ ~nil /\ ~got.timedOut => bad # {} /\ (Is(f, "fork") => bad = Gathered(f))
         /\ Is(f, "broadcast") /\ nil /\ got.unrecorded = {} =>
              over = Gathered(f) /\ bad = {}
         /\ Is(f, "fork") /\ nil /\ got.unrecorded # Gathered(f) =>
              got.reply # NoServer /\ worker[f][got.reply].e = "nil"
         /\ Is(f, "inform") /\ ~got.timedOut =>
              over = Gathered(f) /\ (nil => bad = got.unrecorded)

\* The channel has room for the verdict of every goroutine that has one to deliver: none of
\* them waits for a collector that stopped at an earlier one (884, 895, 917).
VerdictsFit ==
  \A f \in Fans, k \in Servers : WorkerAt(f, k, "signal") => Len(done[f]) < Room(f)

\* The caller returns and every goroutine it started ends, although the collector may be
\* gone long before the last of them has a verdict to deliver (884, 895, 917).
FanoutEnds ==
  []<>(\A f \in Fans :
         /\ fan[f].pc \in {"new", "returned"}
         /\ \A k \in Servers : worker[f][k].pc \in {"none", "ended"})

\* "Success only when all servers return OK" (836), for the servers a request was sent to.
BroadcastNeedsAll ==
  \A f \in Fans :
    Is(f, "broadcast") /\ fan[f].result = "nil" =>
      \A k \in Gathered(f) : worker[f][k].e = "nil"
=============================================================================
