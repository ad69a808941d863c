------------------------- MODULE XaceFanout_proofs -------------------------
(***************************************************************************)
(* Theorems about XaceFanout, for any number of fan-outs made beside any   *)
(* number of calls.                                                        *)
(***************************************************************************)
EXTENDS XaceFanout, XaceXClient_proofs

Workers == [Servers -> WorkerRecord]

-----------------------------------------------------------------------------
(* The inductive invariant of one fan-out, in parts.  Its kind is b, its      *)
(* caller r, its goroutines are w, its channel holds d and its error list e,  *)
(* and its reply is that of p.                                                *)

\* The servers a request was sent to, those whose goroutine has yet to put its verdict
\* into the channel, and those that failed.
Asked(w) == {k \in Servers : w[k].pc # "none"}
Owing(b, w) ==
  {k \in Servers : w[k].pc \in {"call", "signal"} \/ (b = "fork" /\ w[k].pc = "reply")}
Bad(w) == {k \in Asked(w) : w[k].e # "nil"}

Typed(r, w, d, e, p) ==
  /\ r \in FanRecord /\ w \in Workers /\ d \in Seq(BOOLEAN)
  /\ Len(d) <= Cardinality(Servers)
  /\ e \subseteq Servers \cup {Timeout} /\ p \in Servers \cup {NoServer}

\* Where a goroutine is tells what became of its request.
OnWay(b, w) ==
  \A k \in Servers :
    /\ w[k].pc \in {"none", "call", "reply"} => w[k].e = "nil"
    /\ w[k].pc \in {"remove", "append"} => w[k].e # "nil"
    /\ w[k].pc = "receipt" => b = "inform"

\* Before the goroutines are started there is nothing; from then on the collector counts
\* each verdict that is still to come, and there is room for all of them.
Counts(b, r, w, d, e, p) ==
  /\ r.pc \in {"new", "gather"} => Asked(w) = {} /\ d = <<>> /\ e = {} /\ p = NoServer
  /\ r.pc \in {"new", "gather", "collect"} =>
       ~r.timedOut /\ r.unrecorded = {} /\ r.reply = NoServer
  /\ r.pc = "collect" => r.left = Len(d) + Cardinality(Owing(b, w))
  /\ Len(d) + Cardinality(Owing(b, w)) <= Cardinality(Asked(w))

\* The errors are those of goroutines that failed, and the timeout.
Recorded(r, w, e) ==
  /\ e \subseteq Bad(w) \cup (IF r.timedOut THEN {Timeout} ELSE {})
  /\ r.timedOut => Timeout \in e

\* A verdict of failure is that of a request that failed, and a reply that of one that
\* succeeded.
Heard(r, w, d, p) ==
  /\ (\E i \in 1 .. Len(d) : ~d[i]) => Bad(w) # {}
  /\ \A q \in {p, r.reply} : q # NoServer => w[q].pc \notin {"none", "call"} /\ w[q].e = "nil"

\* A Fork has its reply before it hears of a success, and hears of every success.
Forked(b, r, w, d, p) ==
  b = "fork" =>
    /\ \A k \in Servers : w[k].pc \in {"signal", "ended"} /\ w[k].e = "nil" => p # NoServer
    /\ (\E i \in 1 .. Len(d) : d[i]) => p # NoServer
    /\ r.pc = "collect" =>
         \A k \in Asked(w) \ Owing(b, w) : w[k].e = "nil" => \E i \in 1 .. Len(d) : d[i]

\* Why the collector stopped, unless the time was up.
Stopped(b, r, w) ==
  r.pc = "verdict" /\ ~r.timedOut =>
    /\ Owing(b, w) = {} \/ (b = "broadcast" /\ Bad(w) # {})
    /\ b = "fork" => Bad(w) = Asked(w)

\* What the caller was told, as FanErrorIsOutcome says it of this fan-out.
FanTold(b, r, w) ==
  r.pc = "returned" /\ Asked(w) # {} =>
    LET over == {k \in Asked(w) : w[k].pc # "call"}
        nil == r.result = "nil"
    IN /\ ~nil /\ ~r.timedOut => Bad(w) # {} /\ (b = "fork" => Bad(w) = Asked(w))
       /\ b = "broadcast" /\ nil /\ r.unrecorded = {} => over = Asked(w) /\ Bad(w) = {}
       /\ b = "fork" /\ nil /\ r.unrecorded # Asked(w) =>
            r.reply # NoServer /\ w[r.reply].e = "nil"
       /\ b = "inform" /\ ~r.timedOut => over = Asked(w) /\ (nil => Bad(w) = r.unrecorded)

FanSound(b, r, w, d, e, p) ==
  /\ Typed(r, w, d, e, p) /\ OnWay(b, w) /\ Counts(b, r, w, d, e, p) /\ Recorded(r, w, e)
  /\ Heard(r, w, d, p) /\ Forked(b, r, w, d, p) /\ Stopped(b, r, w) /\ FanTold(b, r, w)

AllSound ==
  \A f \in Fans :
    FanSound(FanKind[option][f], fan[f], worker[f], done[f], errs[f], reply[f])

\* The connection of a goroutine, if cached at all, is so where the goroutine removes it.
WorkerHomes ==
  \A f \in Fans, k \in Servers :
    worker[f][k].pc # "none" =>
      worker[f][k].client # None /\ Home(XOfFan[f], k, worker[f][k].client)

FanInv == Inv /\ FanTypeOK /\ AllSound /\ WorkerHomes

-----------------------------------------------------------------------------
(* The steps of a goroutine *)

LEMMA OwingFinite ==
  ASSUME NEW b, NEW w
  PROVE  /\ IsFiniteSet(Owing(b, w)) /\ Cardinality(Owing(b, w)) \in Nat
         /\ Cardinality(Owing(b, w)) <= Cardinality(Servers) /\ Cardinality(Servers) \in Nat
<1>1. Owing(b, w) \subseteq Servers BY DEF Owing
<1> QED BY <1>1, FiniteAssumption, FS_Subset, FS_CardinalityType

LEMMA AskedFinite ==
  ASSUME NEW w
  PROVE  /\ IsFiniteSet(Asked(w)) /\ Cardinality(Asked(w)) \in Nat
         /\ Cardinality(Asked(w)) <= Cardinality(Servers)
<1>1. Asked(w) \subseteq Servers BY DEF Asked
<1> QED BY <1>1, FiniteAssumption, FS_Subset, FS_CardinalityType

\* A request ends: nobody has been told of it.
LEMMA CallSound ==
  ASSUME NEW b, NEW r, NEW w, NEW d, NEW e, NEW p, FanSound(b, r, w, d, e, p),
         NEW k \in Servers, w[k].pc = "call", NEW m \in WorkerRecord,
         m.pc = IF b = "fork" /\ m.e = "nil" THEN "reply" ELSE "signal"
  PROVE  FanSound(b, r, [w EXCEPT ![k] = m], d, e, p)
<1> DEFINE n == [w EXCEPT ![k] = m]
<1>1. Typed(r, n, d, e, p) /\ \A l \in Servers : n[l] = IF l = k THEN m ELSE w[l]
  BY DEF FanSound, Typed, Workers
<1> HIDE DEF n
<1>2. w[k].e = "nil" /\ k \in Asked(w) /\ k \in Owing(b, w) /\ k \notin Bad(w)
  BY DEF FanSound, OnWay, Asked, Owing, Bad
<1>3. Asked(n) = Asked(w) /\ Owing(b, n) = Owing(b, w)
  BY <1>1 DEF Asked, Owing
<1>4. Bad(n) = IF m.e = "nil" THEN Bad(w) ELSE Bad(w) \cup {k}
  BY <1>1, <1>2, <1>3 DEF Bad, Asked
<1>5. OnWay(b, n) BY <1>1 DEF FanSound, OnWay
<1>6. Counts(b, r, n, d, e, p) BY <1>3 DEF FanSound, Counts
<1>7. Recorded(r, n, e) BY <1>4 DEF FanSound, Recorded
<1>8. Heard(r, n, d, p)
  BY <1>1, <1>4 DEF FanSound, Heard, Typed, FanRecord
<1>9. Forked(b, r, n, d, p)
  BY <1>1, <1>2, <1>3 DEF FanSound, Forked, Owing, Asked
<1>10. Stopped(b, r, n)
  BY <1>2, <1>3, <1>4 DEF FanSound, Stopped
<1>11. FanTold(b, r, n)
  <2> DEFINE over == {l \in Asked(w) : w[l].pc # "call"}
             over1 == {l \in Asked(n) : n[l].pc # "call"}
  <2>1. k \notin over BY DEF over
  <2>2. r.reply # NoServer => r.reply \in Servers /\ r.reply # k
    BY DEF FanSound, Heard, Typed, FanRecord
  <2> HIDE DEF over, over1
  <2>3. r.pc = "returned" =>
          /\ ~(b = "broadcast" /\ r.result = "nil" /\ r.unrecorded = {})
          /\ ~(b = "inform" /\ ~r.timedOut)
          /\ ~(b = "fork" /\ r.result # "nil" /\ ~r.timedOut)
    BY <1>2, <2>1 DEF FanSound, FanTold, over
  <2> QED BY <1>1, <1>3, <1>4, <2>2, <2>3 DEF FanSound, FanTold
<1> QED BY <1>1, <1>5, <1>6, <1>7, <1>8, <1>9, <1>10, <1>11 DEF FanSound, n

\* A verdict is put into the channel.
LEMMA SignalSound ==
  ASSUME NEW b, NEW r, NEW w, NEW d, NEW e, NEW p, FanSound(b, r, w, d, e, p),
         NEW k \in Servers, w[k].pc = "signal", Len(d) < Cardinality(Asked(w)),
         NEW m \in WorkerRecord, m.e = w[k].e,
         m.pc = CASE m.e = "other" -> "remove"
                  [] m.e \in {"service", "context"} -> "append"
                  [] OTHER -> IF b = "fork" THEN "ended" ELSE "reply"
  PROVE  FanSound(b, r, [w EXCEPT ![k] = m], Append(d, m.e = "nil"), e, p)
<1> DEFINE n == [w EXCEPT ![k] = m]
           c == Append(d, m.e = "nil")
<1>1. w \in Workers /\ d \in Seq(BOOLEAN) /\ r \in FanRecord
  BY DEF FanSound, Typed
<1>2. n \in Workers /\ \A l \in Servers : n[l] = IF l = k THEN m ELSE w[l]
  BY <1>1 DEF Workers
<1>3. /\ c \in Seq(BOOLEAN) /\ Len(c) = Len(d) + 1 /\ c[Len(d) + 1] = (m.e = "nil")
      /\ \A i \in 1 .. Len(d) : c[i] = d[i]
  <2>1. (m.e = "nil") \in BOOLEAN OBVIOUS
  <2> QED BY <1>1, <2>1
<1> HIDE DEF n, c
<1>4. m.e \in {"nil", "service", "context", "other"}
  BY DEF WorkerRecord, Errors
<1>5. /\ m.pc \in {"remove", "append", "ended", "reply"}
      /\ m.pc \in {"remove", "append"} <=> m.e # "nil"
      /\ m.pc = "reply" => b # "fork" /\ m.e = "nil"
      /\ m.pc = "ended" => b = "fork" /\ m.e = "nil"
  BY <1>4
<1>6. k \in Asked(w) /\ k \in Owing(b, w)
  BY DEF Asked, Owing
<1>7. Asked(n) = Asked(w) BY <1>2, <1>5 DEF Asked
<1>8. Owing(b, n) = Owing(b, w) \ {k} BY <1>2, <1>5 DEF Owing
<1>9. Bad(n) = Bad(w) BY <1>2, <1>7 DEF Bad, Asked
<1>10. Cardinality(Owing(b, n)) = Cardinality(Owing(b, w)) - 1
  BY <1>6, <1>8, OwingFinite, FS_RemoveElement
<1>11. Typed(r, n, c, e, p)
  <2>1. Asked(w) \subseteq Servers BY DEF Asked
  <2>2. Cardinality(Asked(w)) <= Cardinality(Servers) /\ Cardinality(Servers) \in Nat
        /\ Cardinality(Asked(w)) \in Nat
    BY <2>1, FiniteAssumption, FS_Subset, FS_CardinalityType
  <2>3. Len(d) \in Nat BY <1>1
  <2> QED BY <1>2, <1>3, <2>2, <2>3 DEF FanSound, Typed
<1>12. OnWay(b, n) BY <1>2, <1>5 DEF FanSound, OnWay
<1>13. Counts(b, r, n, c, e, p)
  <2>1. r.pc \notin {"new", "gather"} BY <1>6 DEF FanSound, Counts
  <2>2. Len(d) \in Nat /\ Cardinality(Owing(b, w)) \in Nat BY <1>1, OwingFinite
  <2>3. Len(c) + Cardinality(Owing(b, n)) = Len(d) + Cardinality(Owing(b, w))
    BY <1>3, <1>10, <2>2
  <2> QED BY <1>7, <2>1, <2>3 DEF FanSound, Counts
<1>14. Recorded(r, n, e) BY <1>9 DEF FanSound, Recorded
<1>15. Heard(r, n, c, p)
  <2>1. ASSUME NEW i \in 1 .. Len(c), ~c[i] PROVE Bad(n) # {}
    <3>1. CASE i \in 1 .. Len(d) BY <1>3, <1>9, <2>1, <3>1 DEF FanSound, Heard
    <3>2. CASE i = Len(d) + 1 BY <1>3, <1>6, <1>9, <2>1, <3>2 DEF Bad
    <3>3. Len(d) \in Nat BY <1>1
    <3> QED BY <1>3, <3>1, <3>2, <3>3
  <2>2. \A q \in {p, r.reply} :
          q # NoServer => n[q].pc \notin {"none", "call"} /\ n[q].e = "nil"
    BY <1>2, <1>5 DEF FanSound, Heard, Typed, FanRecord
  <2> QED BY <2>1, <2>2 DEF Heard
<1>16. Forked(b, r, n, c, p)
  <2> SUFFICES ASSUME b = "fork" PROVE Forked(b, r, n, c, p) BY DEF Forked
  <2>1. m.e = "nil" => p # NoServer BY DEF FanSound, Forked
  <2>2. \A l \in Servers : n[l].pc \in {"signal", "ended"} /\ n[l].e = "nil" => p # NoServer
    BY <1>2, <2>1 DEF FanSound, Forked
  <2>3. Len(d) \in Nat BY <1>1
  <2>4. (\E i \in 1 .. Len(c) : c[i]) => p # NoServer
    BY <1>3, <2>1, <2>3 DEF FanSound, Forked
  <2>5. ASSUME r.pc = "collect", NEW l \in Asked(n) \ Owing(b, n), n[l].e = "nil"
        PROVE  \E i \in 1 .. Len(c) : c[i]
    <3>1. CASE l = k
      <4>1. c[Len(d) + 1] BY <1>2, <1>3, <2>5, <3>1 DEF Asked
      <4> QED BY <1>3, <2>3, <4>1
    <3>2. CASE l # k
      <4>1. l \in Asked(w) \ Owing(b, w) /\ w[l].e = "nil"
        BY <1>2, <1>7, <1>8, <2>5, <3>2 DEF Asked
      <4>2. PICK i \in 1 .. Len(d) : d[i] BY <2>5, <4>1 DEF FanSound, Forked
      <4> QED BY <1>3, <2>3, <4>2
    <3> QED BY <3>1, <3>2
  <2> QED BY <2>2, <2>4, <2>5 DEF Forked
<1>17. Stopped(b, r, n)
  BY <1>7, <1>8, <1>9 DEF FanSound, Stopped
<1>18. FanTold(b, r, n)
  <2>1. {l \in Asked(n) : n[l].pc # "call"} = {l \in Asked(w) : w[l].pc # "call"}
    BY <1>2, <1>5, <1>7 DEF Asked
  <2>2. r.reply # NoServer => n[r.reply].e = w[r.reply].e
    BY <1>1, <1>2 DEF FanRecord
  <2> QED BY <1>7, <1>9, <2>1, <2>2 DEF FanSound, FanTold
<1> QED
  BY <1>11, <1>12, <1>13, <1>14, <1>15, <1>16, <1>17, <1>18 DEF FanSound, n, c

\* What follows its signal: the client removed, the error appended, the receipt stored.
LEMMA LaterSound ==
  ASSUME NEW b, NEW r, NEW w, NEW d, NEW e, NEW p, FanSound(b, r, w, d, e, p),
         NEW k \in Servers, w[k].pc \in {"remove", "append", "receipt"},
         NEW m \in WorkerRecord, m.e = w[k].e, m.pc \in {"append", "receipt", "ended"},
         m.pc = "append" => w[k].pc = "remove", m.pc = "receipt" => b = "inform",
         NEW c, c = e \/ (w[k].pc = "append" /\ c = e \cup {k})
  PROVE  FanSound(b, r, [w EXCEPT ![k] = m], d, c, p)
<1> DEFINE n == [w EXCEPT ![k] = m]
<1>1. Typed(r, n, d, c, p) /\ \A l \in Servers : n[l] = IF l = k THEN m ELSE w[l]
  BY DEF FanSound, Typed, Workers
<1> HIDE DEF n
<1>2. Asked(n) = Asked(w) /\ Owing(b, n) = Owing(b, w)
  BY <1>1 DEF Asked, Owing
<1>3. Bad(n) = Bad(w) BY <1>1, <1>2 DEF Bad, Asked
<1>4. OnWay(b, n) BY <1>1 DEF FanSound, OnWay
<1>5. Counts(b, r, n, d, c, p)
  <2>1. r.pc \notin {"new", "gather"} BY DEF FanSound, Counts, Asked
  <2> QED BY <1>2, <2>1 DEF FanSound, Counts
<1>6. Recorded(r, n, c)
  <2>1. w[k].pc = "append" => k \in Bad(w) BY DEF FanSound, OnWay, Bad, Asked
  <2> QED BY <1>3, <2>1 DEF FanSound, Recorded
<1>7. Heard(r, n, d, p)
  BY <1>1, <1>3 DEF FanSound, Heard, Typed, FanRecord
<1>8. Forked(b, r, n, d, p)
  <2>1. b = "fork" => m.e # "nil" BY DEF FanSound, OnWay
  <2> QED BY <1>1, <1>2, <2>1 DEF FanSound, Forked, Asked
<1>9. Stopped(b, r, n) BY <1>2, <1>3 DEF FanSound, Stopped
<1>10. FanTold(b, r, n)
  <2>1. {l \in Asked(n) : n[l].pc # "call"} = {l \in Asked(w) : w[l].pc # "call"}
    BY <1>1, <1>2 DEF Asked
  <2>2. r.reply # NoServer => n[r.reply].e = w[r.reply].e
    BY <1>1 DEF Typed, FanRecord
  <2> QED BY <1>2, <1>3, <2>1, <2>2 DEF FanSound, FanTold
<1> QED BY <1>1, <1>4, <1>5, <1>6, <1>7, <1>8, <1>9, <1>10 DEF FanSound, n

\* The first reply is kept.
LEMMA ReplySound ==
  ASSUME NEW b, NEW r, NEW w, NEW d, NEW e, NEW p, FanSound(b, r, w, d, e, p),
         NEW k \in Servers, w[k].pc = "reply", NEW m \in WorkerRecord, m.e = w[k].e,
         m.pc = CASE b = "fork" -> "signal" [] b = "inform" -> "receipt" [] OTHER -> "ended"
  PROVE  FanSound(b, r, [w EXCEPT ![k] = m], d, e, IF p = NoServer THEN k ELSE p)
<1> DEFINE n == [w EXCEPT ![k] = m]
           q == IF p = NoServer THEN k ELSE p
<1>1. Typed(r, n, d, e, q) /\ \A l \in Servers : n[l] = IF l = k THEN m ELSE w[l]
  BY DEF FanSound, Typed, Workers
<1>2. q # NoServer /\ q \in {k, p} /\ m.e = "nil"
  BY NameAssumption DEF FanSound, OnWay
<1> HIDE DEF n, q
<1>3. /\ m.pc \in {"signal", "receipt", "ended"}
      /\ m.pc = "signal" <=> b = "fork"
      /\ m.pc = "receipt" => b = "inform"
  OBVIOUS
<1>4. Asked(n) = Asked(w) /\ Owing(b, n) = Owing(b, w)
  BY <1>1, <1>3 DEF Asked, Owing
<1>5. Bad(n) = Bad(w) BY <1>1, <1>4 DEF Bad, Asked
<1>6. OnWay(b, n) BY <1>1, <1>3 DEF FanSound, OnWay
<1>7. Counts(b, r, n, d, e, q)
  <2>1. r.pc \notin {"new", "gather"} BY DEF FanSound, Counts, Asked
  <2> QED BY <1>4, <2>1 DEF FanSound, Counts
<1>8. Recorded(r, n, e) BY <1>5 DEF FanSound, Recorded
<1>9. Heard(r, n, d, q)
  <2>1. \A s \in {q, r.reply} :
          s # NoServer => n[s].pc \notin {"none", "call"} /\ n[s].e = "nil"
    BY <1>1, <1>2, <1>3 DEF FanSound, Heard, Typed, FanRecord
  <2> QED BY <1>5, <2>1 DEF FanSound, Heard
<1>10. Forked(b, r, n, d, q)
  BY <1>1, <1>2, <1>4 DEF FanSound, Forked, Owing, Asked
<1>11. Stopped(b, r, n) BY <1>4, <1>5 DEF FanSound, Stopped
<1>12. FanTold(b, r, n)
  <2>1. {l \in Asked(n) : n[l].pc # "call"} = {l \in Asked(w) : w[l].pc # "call"}
    BY <1>1, <1>3, <1>4 DEF Asked
  <2>2. r.reply # NoServer => n[r.reply].e = w[r.reply].e
    BY <1>1 DEF Typed, FanRecord
  <2> QED BY <1>4, <1>5, <2>1, <2>2 DEF FanSound, FanTold
<1> QED
  BY <1>1, <1>6, <1>7, <1>8, <1>9, <1>10, <1>11, <1>12 DEF FanSound, n, q

-----------------------------------------------------------------------------
(* The steps of the caller *)

\* A caller's record with fields replaced.
LEMMA FanCounting ==
  ASSUME NEW r \in FanRecord, NEW c \in 0 .. Cardinality(Servers)
  PROVE  [r EXCEPT !.pc = "collect", !.left = c] \in FanRecord
  BY DEF FanRecord

LEMMA FanReporting ==
  ASSUME NEW r \in FanRecord, NEW c \in SUBSET Servers, NEW u \in SUBSET Servers
  PROVE  [r EXCEPT !.receipts = c, !.unrecorded = u] \in FanRecord
  BY DEF FanRecord

LEMMA BegunSound ==
  ASSUME NEW b
  PROVE  FanSound(b, FanBegun, [k \in Servers |-> Idle], <<>>, {}, NoServer)
<1> DEFINE w == [k \in Servers |-> Idle]
<1>1. Cardinality(Servers) \in Nat BY OwingFinite
<1>2. /\ FanBegun \in FanRecord /\ FanBegun.pc = "new" /\ ~FanBegun.timedOut
      /\ FanBegun.unrecorded = {} /\ FanBegun.reply = NoServer
  BY <1>1 DEF FanBegun, FanRecord
<1>3. Idle \in WorkerRecord /\ Idle.pc = "none" /\ Idle.e = "nil"
  BY DEF Idle, WorkerRecord, Errors, None
<1>4. w \in Workers /\ \A k \in Servers : w[k].pc = "none" /\ w[k].e = "nil"
  BY <1>3 DEF Workers
<1> HIDE DEF w
<1>5. Asked(w) = {} BY <1>4 DEF Asked
<1>6. Typed(FanBegun, w, <<>>, {}, NoServer) BY <1>1, <1>2, <1>4 DEF Typed
<1>7. OnWay(b, w) /\ Counts(b, FanBegun, w, <<>>, {}, NoServer)
  <2>1. Owing(b, w) = {} /\ Cardinality({}) = 0 BY <1>4, FS_EmptySet DEF Owing
  <2> QED BY <1>2, <1>4, <1>5, <2>1 DEF OnWay, Counts
<1>8. Recorded(FanBegun, w, {}) /\ Heard(FanBegun, w, <<>>, NoServer)
  BY <1>2 DEF Recorded, Heard
<1>9. Forked(b, FanBegun, w, <<>>, NoServer)
  BY <1>2, <1>4 DEF Forked
<1> QED BY <1>2, <1>6, <1>7, <1>8, <1>9 DEF FanSound, Stopped, FanTold, w

\* The caller is refused, at once or because no server could be reached, or goes on.
LEMMA EnterSound ==
  ASSUME NEW b, NEW r, NEW w, NEW d, NEW e, NEW p, FanSound(b, r, w, d, e, p),
         r.pc \in {"new", "gather"}, NEW n,
         \/ n = [r EXCEPT !.pc = "returned", !.result = "error"]
         \/ n = [r EXCEPT !.pc = "gather"],
         NEW v, v = w \/ v = [k \in Servers |-> Idle]
  PROVE  FanSound(b, n, v, d, e, p)
<1>1. /\ r \in FanRecord /\ w \in Workers /\ Asked(w) = {}
      /\ d = <<>> /\ e = {} /\ p = NoServer
      /\ ~r.timedOut /\ r.unrecorded = {} /\ r.reply = NoServer
  BY DEF FanSound, Typed, Counts
<1>2. /\ n \in FanRecord /\ n.pc \in {"returned", "gather"}
      /\ ~n.timedOut /\ n.unrecorded = {} /\ n.reply = NoServer
  BY <1>1 DEF FanRecord
<1>3. v \in Workers /\ \A k \in Servers : v[k].pc = "none" /\ v[k].e = "nil"
  <2>1. CASE v = w BY <1>1, <2>1 DEF Asked, FanSound, OnWay
  <2>2. CASE v = [k \in Servers |-> Idle]
    BY <2>2 DEF Workers, WorkerRecord, Idle, Errors, None
  <2> QED BY <2>1, <2>2
<1>4. Asked(v) = {} BY <1>3 DEF Asked
<1>5. Typed(n, v, d, e, p) BY <1>2, <1>3 DEF FanSound, Typed
<1>6. OnWay(b, v) BY <1>3 DEF OnWay
<1>7. Counts(b, n, v, d, e, p)
  <2>1. Owing(b, v) = {} /\ Cardinality({}) = 0 BY <1>3, FS_EmptySet DEF Owing
  <2> QED BY <1>1, <1>2, <1>4, <2>1 DEF Counts
<1>8. Recorded(n, v, e) /\ Heard(n, v, d, p) BY <1>1, <1>2 DEF Recorded, Heard
<1>9. Forked(b, n, v, d, p) BY <1>1, <1>2, <1>3 DEF Forked
<1>10. Stopped(b, n, v) /\ FanTold(b, n, v) BY <1>2, <1>4 DEF Stopped, FanTold
<1> QED BY <1>5, <1>6, <1>7, <1>8, <1>9, <1>10 DEF FanSound

\* A goroutine is started for every server a connection was got to.
LEMMA StartSound ==
  ASSUME NEW b, NEW r, NEW w, NEW d, NEW e, NEW p, FanSound(b, r, w, d, e, p),
         r.pc = "gather", NEW got \in [Servers -> Clients \cup {None}],
         NEW n, n = [r EXCEPT !.pc = "collect",
                              !.left = Cardinality({k \in Servers : got[k] # None})],
         NEW v, v = [k \in Servers |-> IF got[k] = None THEN Idle
                                       ELSE [pc |-> "call", client |-> got[k], e |-> "nil"]]
  PROVE  FanSound(b, n, v, d, e, p)
<1>1. /\ r \in FanRecord /\ d = <<>> /\ e = {} /\ p = NoServer
      /\ ~r.timedOut /\ r.unrecorded = {} /\ r.reply = NoServer
  BY DEF FanSound, Typed, Counts
<1>2. \A k \in Servers : /\ v[k] \in WorkerRecord /\ v[k].e = "nil"
                         /\ v[k].pc = IF got[k] = None THEN "none" ELSE "call"
  BY DEF Idle, WorkerRecord, Errors, None
<1>3. v \in Workers BY <1>2 DEF Workers
<1>4. Owing(b, v) = {k \in Servers : got[k] # None}
  BY <1>2 DEF Owing
<1>5. Cardinality(Owing(b, v)) \in 0 .. Cardinality(Servers) /\ Cardinality(Servers) \in Nat
  BY OwingFinite
<1>6. /\ n \in FanRecord /\ n.pc = "collect" /\ n.left = Cardinality(Owing(b, v))
      /\ ~n.timedOut /\ n.unrecorded = {} /\ n.reply = NoServer
  <2>1. PICK c : c = Cardinality(Owing(b, v)) OBVIOUS
  <2>2. n = [r EXCEPT !.pc = "collect", !.left = c] BY <1>4, <2>1
  <2>3. c \in 0 .. Cardinality(Servers) BY <1>5, <2>1
  <2>4. r \in FanRecord BY <1>1
  <2>5. n \in FanRecord BY <2>2, <2>3, <2>4, FanCounting, Zenon
  <2>6. /\ n.pc = "collect" /\ n.left = c
        /\ n.timedOut = r.timedOut /\ n.unrecorded = r.unrecorded /\ n.reply = r.reply
    BY <2>2, <2>4 DEF FanRecord
  <2> QED BY <1>1, <2>1, <2>5, <2>6
<1>7. Typed(n, v, d, e, p) BY <1>3, <1>6 DEF FanSound, Typed
<1>8. OnWay(b, v) BY <1>2 DEF OnWay
<1>9. Counts(b, n, v, d, e, p)
  <2>1. Asked(v) = Owing(b, v) BY <1>2, <1>4 DEF Asked
  <2> QED BY <1>1, <1>5, <1>6, <2>1 DEF Counts
<1>10. Recorded(n, v, e) /\ Heard(n, v, d, p) BY <1>1, <1>6 DEF Recorded, Heard
<1>11. Forked(b, n, v, d, p)
  <2>1. \A k \in Servers : v[k].pc \notin {"signal", "ended"} BY <1>2
  <2>2. Asked(v) \ Owing(b, v) = {} BY <1>2 DEF Asked, Owing
  <2>3. ~\E i \in 1 .. Len(d) : d[i] BY <1>1
  <2> QED BY <2>1, <2>2, <2>3 DEF Forked
<1> QED BY <1>6, <1>7, <1>8, <1>9, <1>10, <1>11 DEF FanSound, Stopped, FanTold

\* A verdict is taken from the channel.
LEMMA CollectSound ==
  ASSUME NEW b, NEW r, NEW w, NEW d, NEW e, NEW p, FanSound(b, r, w, d, e, p),
         r.pc = "collect", d # <<>>, NEW ok, ok = Head(d), NEW enough \in BOOLEAN,
         enough <=> \/ r.left - 1 = 0 \/ (b = "broadcast" /\ ~ok) \/ (b = "fork" /\ ok),
         NEW n,
         n = CASE enough /\ b = "fork" /\ ok ->
                    [r EXCEPT !.pc = "returned", !.left = r.left - 1,
                              !.result = "nil", !.reply = p]
               [] enough /\ ~(b = "fork" /\ ok) ->
                    [r EXCEPT !.pc = "verdict", !.left = r.left - 1]
               [] OTHER -> [r EXCEPT !.left = r.left - 1]
  PROVE  FanSound(b, n, w, Tail(d), e, p)
<1> DEFINE t == Tail(d)
<1>1. /\ r \in FanRecord /\ d \in Seq(BOOLEAN) /\ ~r.timedOut
      /\ r.unrecorded = {} /\ r.reply = NoServer /\ p \in Servers \cup {NoServer}
      /\ r.left = Len(d) + Cardinality(Owing(b, w)) /\ Len(d) <= Cardinality(Servers)
  BY DEF FanSound, Typed, Counts
<1>2. /\ t \in Seq(BOOLEAN) /\ Len(t) = Len(d) - 1 /\ Len(d) >= 1 /\ Len(d) \in Nat
      /\ ok = d[1] /\ ok \in BOOLEAN /\ \A i \in 1 .. Len(t) : t[i] = d[i + 1]
  BY <1>1
<1> HIDE DEF t
<1>3. Cardinality(Owing(b, w)) \in Nat /\ IsFiniteSet(Owing(b, w)) /\ Cardinality(Servers) \in Nat
  BY OwingFinite
<1>4. r.left - 1 \in 0 .. Cardinality(Servers)
  BY <1>1, <1>2, <1>3 DEF FanRecord
<1>5. /\ n \in FanRecord /\ n.left = r.left - 1 /\ n.unrecorded = {} /\ ~n.timedOut
      /\ n.reply \in {p, r.reply}
      /\ ~enough => n.pc = "collect" /\ n.reply = NoServer
      /\ enough /\ b = "fork" /\ ok => n.pc = "returned" /\ n.result = "nil" /\ n.reply = p
      /\ enough /\ ~(b = "fork" /\ ok) => n.pc = "verdict"
  <2>1. CASE enough /\ b = "fork" /\ ok
    <3>1. n = [r EXCEPT !.pc = "returned", !.left = r.left - 1, !.result = "nil", !.reply = p]
      BY <2>1
    <3> QED BY <1>1, <1>4, <2>1, <3>1 DEF FanRecord
  <2>2. CASE enough /\ ~(b = "fork" /\ ok)
    <3>1. n = [r EXCEPT !.pc = "verdict", !.left = r.left - 1] BY <2>2
    <3> QED BY <1>1, <1>4, <2>2, <3>1 DEF FanRecord
  <2>3. CASE ~enough
    <3>1. n = [r EXCEPT !.left = r.left - 1] BY <2>3
    <3> QED BY <1>1, <1>4, <2>3, <3>1 DEF FanRecord
  <2> QED BY <2>1, <2>2, <2>3
<1>6. Typed(n, w, t, e, p) BY <1>1, <1>2, <1>3, <1>5 DEF FanSound, Typed
<1>7. OnWay(b, w) BY DEF FanSound
<1>8. Counts(b, n, w, t, e, p)
  <2>1. Len(d) + Cardinality(Owing(b, w)) <= Cardinality(Asked(w)) BY DEF FanSound, Counts
  <2>2. Cardinality(Asked(w)) \in Nat BY AskedFinite
  <2> QED BY <1>1, <1>2, <1>3, <1>5, <2>1, <2>2 DEF Counts
<1>9. Recorded(n, w, e) BY <1>1, <1>5 DEF FanSound, Recorded
<1>10. Heard(n, w, t, p)
  <2>1. ASSUME NEW i \in 1 .. Len(t), ~t[i] PROVE Bad(w) # {}
    BY <1>2, <2>1 DEF FanSound, Heard
  <2> QED BY <1>5, <2>1 DEF FanSound, Heard
<1>11. ASSUME b = "fork", ~ok, NEW k \in Asked(w) \ Owing(b, w), w[k].e = "nil"
       PROVE  \E i \in 1 .. Len(t) : t[i]
  <2>1. PICK j \in 1 .. Len(d) : d[j] BY <1>11 DEF FanSound, Forked
  <2>2. j # 1 BY <1>2, <1>11, <2>1
  <2>3. j - 1 \in 1 .. Len(t) /\ t[j - 1] = d[j] BY <1>2, <2>2
  <2> QED BY <2>1, <2>3
<1>12. Forked(b, n, w, t, p)
  <2> SUFFICES ASSUME b = "fork" PROVE Forked(b, n, w, t, p) BY DEF Forked
  <2>1. (\E i \in 1 .. Len(t) : t[i]) => p # NoServer
    BY <1>2 DEF FanSound, Forked
  <2>2. n.pc = "collect" => ~ok BY <1>5
  <2> QED BY <1>11, <2>1, <2>2 DEF FanSound, Forked
<1>13. Stopped(b, n, w)
  <2> SUFFICES ASSUME n.pc = "verdict" PROVE Stopped(b, n, w) BY DEF Stopped
  <2>1. enough /\ ~(b = "fork" /\ ok) BY <1>5
  <2>2. CASE b = "broadcast" /\ ~ok
    <3>1. Bad(w) # {} BY <1>2, <2>2 DEF FanSound, Heard
    <3> QED BY <2>2, <3>1 DEF Stopped
  <2>3. CASE r.left - 1 = 0
    <3>1. Len(d) = 1 /\ Cardinality(Owing(b, w)) = 0 BY <1>1, <1>2, <1>3, <2>3
    <3>2. Owing(b, w) = {} BY <1>3, <3>1, FS_EmptySet
    <3>3. b = "fork" => Bad(w) = Asked(w)
      <4>1. ASSUME b = "fork", NEW k \in Asked(w) PROVE w[k].e # "nil"
        BY <1>2, <1>11, <2>1, <3>1, <3>2, <4>1
      <4> QED BY <4>1 DEF Bad
    <3> QED BY <3>2, <3>3 DEF Stopped
  <2> QED BY <2>1, <2>2, <2>3
<1>14. FanTold(b, n, w)
  <2> SUFFICES ASSUME n.pc = "returned" PROVE FanTold(b, n, w) BY DEF FanTold
  <2>1. b = "fork" /\ ok /\ n.result = "nil" /\ n.reply = p BY <1>5
  <2>2. p # NoServer
    BY <1>2, <2>1 DEF FanSound, Forked
  <2>3. w[p].e = "nil" BY <2>2 DEF FanSound, Heard
  <2> QED BY <2>1, <2>2, <2>3 DEF FanTold
<1> QED
  BY <1>6, <1>7, <1>8, <1>9, <1>10, <1>12, <1>13, <1>14 DEF FanSound, t

\* The minute is over.
LEMMA TimeoutSound ==
  ASSUME NEW b, NEW r, NEW w, NEW d, NEW e, NEW p, FanSound(b, r, w, d, e, p),
         r.pc = "collect", NEW n, n = [r EXCEPT !.pc = "verdict", !.timedOut = TRUE]
  PROVE  FanSound(b, n, w, d, e \cup {Timeout}, p)
<1>1. /\ r \in FanRecord /\ ~r.timedOut BY DEF FanSound, Typed, Counts
<1>2. /\ n \in FanRecord /\ n.pc = "verdict" /\ n.timedOut /\ n.reply = r.reply
  BY <1>1 DEF FanRecord
<1>3. Typed(n, w, d, e \cup {Timeout}, p) BY <1>2 DEF FanSound, Typed
<1>4. OnWay(b, w) BY DEF FanSound
<1>5. Counts(b, n, w, d, e \cup {Timeout}, p) BY <1>2 DEF FanSound, Counts
<1>6. Recorded(n, w, e \cup {Timeout}) BY <1>1, <1>2 DEF FanSound, Recorded
<1>7. Heard(n, w, d, p) BY <1>2 DEF FanSound, Heard
<1>8. Forked(b, n, w, d, p) BY <1>2 DEF FanSound, Forked
<1>9. Stopped(b, n, w) /\ FanTold(b, n, w) BY <1>2 DEF Stopped, FanTold
<1> QED BY <1>3, <1>4, <1>5, <1>6, <1>7, <1>8, <1>9 DEF FanSound

\* The caller returns what the error list says.
LEMMA VerdictSound ==
  ASSUME NEW b, NEW r, NEW w, NEW d, NEW e, NEW p, FanSound(b, r, w, d, e, p),
         r.pc = "verdict", NEW c \in SUBSET Servers, NEW n,
         n = [r EXCEPT !.pc = "returned", !.result = IF e = {} THEN "nil" ELSE "error",
                       !.reply = p, !.receipts = c,
                       !.unrecorded = {k \in Asked(w) : w[k].e # "nil" /\ k \notin e}]
  PROVE  FanSound(b, n, w, d, e, p)
<1> DEFINE u == {k \in Asked(w) : w[k].e # "nil" /\ k \notin e}
           v == IF e = {} THEN "nil" ELSE "error"
<1>1. r \in FanRecord /\ p \in Servers \cup {NoServer} /\ u \subseteq Servers
      /\ v \in {"nil", "error"} /\ (v = "nil" <=> e = {})
  BY DEF FanSound, Typed, Asked
<1>2. n = [r EXCEPT !.pc = "returned", !.result = v, !.reply = p, !.receipts = c,
                    !.unrecorded = u]
  OBVIOUS
<1>3. e = {} => u = Bad(w) BY DEF Bad
<1> HIDE DEF u, v
<1>4. /\ n \in FanRecord /\ n.pc = "returned" /\ n.result = v /\ n.reply = p
      /\ n.unrecorded = u /\ n.timedOut = r.timedOut
  <2>1. PICK s : s = [r EXCEPT !.pc = "returned", !.result = v, !.reply = p] OBVIOUS
  <2>2. /\ s \in FanRecord /\ s.pc = "returned" /\ s.result = v /\ s.reply = p
        /\ s.timedOut = r.timedOut
    BY <1>1, <2>1 DEF FanRecord
  <2>3. n = [s EXCEPT !.receipts = c, !.unrecorded = u] BY <1>2, <2>1
  <2>4. n \in FanRecord
    <3>1. u \in SUBSET Servers BY <1>1
    <3>2. s \in FanRecord BY <2>2
    <3>3. PICK q \in SUBSET Servers : q = u BY <3>1
    <3>4. [s EXCEPT !.receipts = c, !.unrecorded = q] \in FanRecord
      BY <3>2, FanReporting, Zenon
    <3> QED BY <2>3, <3>3, <3>4
  <2>5. /\ n.pc = s.pc /\ n.result = s.result /\ n.reply = s.reply
        /\ n.unrecorded = u /\ n.timedOut = s.timedOut
    BY <2>2, <2>3 DEF FanRecord
  <2> QED BY <2>2, <2>4, <2>5
<1>5. Typed(n, w, d, e, p) BY <1>4 DEF FanSound, Typed
<1>6. OnWay(b, w) BY DEF FanSound
<1>7. Counts(b, n, w, d, e, p) BY <1>4 DEF FanSound, Counts
<1>8. Recorded(n, w, e) BY <1>4 DEF FanSound, Recorded
<1>9. Heard(n, w, d, p) BY <1>4 DEF FanSound, Heard
<1>10. Forked(b, n, w, d, p) BY <1>4 DEF FanSound, Forked
<1>11. FanTold(b, n, w)
  <2>1. v = "error" /\ ~r.timedOut => Bad(w) # {}
    BY <1>1 DEF FanSound, Recorded
  <2>2. v = "nil" => ~r.timedOut BY <1>1 DEF FanSound, Recorded
  <2>3. b = "fork" /\ ~r.timedOut => Bad(w) = Asked(w) BY DEF FanSound, Stopped
  <2>4. Owing(b, w) = {} => {k \in Asked(w) : w[k].pc # "call"} = Asked(w)
    BY DEF Owing, Asked
  <2>5. ~r.timedOut => Owing(b, w) = {} \/ (b = "broadcast" /\ Bad(w) # {})
    BY DEF FanSound, Stopped
  <2> QED BY <1>1, <1>3, <1>4, <2>1, <2>2, <2>3, <2>4, <2>5 DEF FanTold
<1> QED BY <1>4, <1>5, <1>6, <1>7, <1>8, <1>9, <1>10, <1>11 DEF FanSound, Stopped

-----------------------------------------------------------------------------
(* The cache of connections *)

\* Connections at home stay there when nothing is unmade, and nothing that was made before
\* is put into the cache.
LEMMA HomesStayWhen ==
  ASSUME option' = option, \A c \in Clients : Made(c) => Made(c)',
         \A p \in XClients \cup {Builder}, l \in Servers :
           \/ cached'[p][l] = cached[p][l]
           \/ cached'[p][l] \notin Clients
           \/ ~Made(cached'[p][l])
  PROVE  HomesStay
<1> SUFFICES ASSUME NEW y, NEW k, NEW c \in Clients, Home(y, k, c) PROVE Home(y, k, c)'
  BY DEF HomesStay
<1> QED BY DEF Home, Place

LEMMA NoneNotClient == None \notin Clients
  BY NumberAssumption DEF None, Clients

\* Calls, closing and lost connections leave every connection at home.
LEMMA NextHomes ==
  ASSUME Inv, [Next]_vars
  PROVE  HomesStay /\ option' = option
<1>1. ASSUME NEW x \in XClients, NEW k, NEW c \in Clients \cup {None}, Delete(x, k, c),
             option' = option
      PROVE  HomesStay
  <2>1. \A p \in XClients \cup {Builder}, l \in Servers : cached'[p][l] \in {cached[p][l], None}
    BY <1>1, PlaceType DEF Delete, Inv, TypeOK
  <2>2. \A d \in Clients : Made(d) => Made(d)'
    BY <1>1, NoneNotClient DEF Delete, Closed, Made, Inv, TypeOK
  <2> QED BY <1>1, <2>1, <2>2, HomesStayWhen, NoneNotClient
<1>2. ASSUME UNCHANGED <<option, cached, conn>> PROVE HomesStay
  BY <1>2, HomesStayWhen DEF Made
<1>3. ASSUME NEW a \in Ops, OpStep(a) PROVE HomesStay /\ option' = option
  <2>1. CASE Enter(a) \/ Select(a) \/ Check(a) \/ Reset(a) \/ FindCached(a) \/ DialFail(a)
             \/ Attempt(a) \/ FirstGo(a) \/ SecondGo(a) \/ BackupWait(a)
    <3>1. ASSUME \/ Enter(a) \/ Select(a) \/ Check(a) \/ FindCached(a)
                 \/ Attempt(a) \/ FirstGo(a) \/ SecondGo(a) \/ BackupWait(a)
          PROVE  UNCHANGED <<option, netVars>>
      BY <3>1, Zenon DEF Enter, Select, Check, FindCached, Attempt, FirstGo, SecondGo, BackupGo,
                   BackupWait
    <3>2. Reset(a) \/ DialFail(a) => UNCHANGED <<option, cached, conn>>
      BY Zenon DEF Reset, DialFail
    <3>3. UNCHANGED <<option, cached, conn>> BY <2>1, <3>1, <3>2 DEF netVars
    <3> QED BY <1>2, <3>3
  <2>2. CASE LockCached(a)
    <3>1. option' = option BY <2>2 DEF LockCached
    <3>2. CASE UNCHANGED <<cached, conn>> BY <1>2, <3>1, <3>2
    <3>3. CASE Delete(XOf[a], op[a].k, Find(XOf[a], op[a].k))
      <4>1. Find(XOf[a], op[a].k) \in Clients \cup {None}
        <5>1. op[a].k \in Servers
          BY <2>2 DEF LockCached, At, Inv, RestInv, DialInv, Past
        <5> QED BY <5>1, PlaceType, XOfAssumption, NameAssumption DEF Find, Inv, TypeOK
      <4> QED BY <1>1, <3>1, <3>3, <4>1, XOfAssumption
    <3> QED BY <2>2, <3>1, <3>2, <3>3 DEF LockCached
  <2>3. CASE RemoveClient(a)
    <3>1. option' = option /\ Delete(XOf[a], op[a].k, op[a].client)
      BY <2>3, Zenon DEF RemoveClient, Remove
    <3>2. op[a].client \in Clients \cup {None} BY DEF Inv, TypeOK, Record
    <3> QED BY <1>1, <3>1, <3>2, XOfAssumption
  <2>4. CASE BackupRefused(a)
    <3>1. option' = option /\ Delete(XOf[a], op[a].k0, op[a].client0)
      BY <2>4, Zenon DEF BackupRefused, Remove
    <3>2. op[a].client0 \in Clients \cup {None} BY DEF Inv, TypeOK, Record
    <3> QED BY <1>1, <3>1, <3>2, XOfAssumption
  <2>5. CASE DialOk(a)
    <3>1. PICK c \in Clients : /\ ~Made(c) /\ conn' = [conn EXCEPT ![c] = "open"]
                               /\ cached' = Set(XOf[a], op[a].k, c)
      BY <2>5 DEF DialOk
    <3>2. option' = option BY <2>5 DEF DialOk
    <3>3. \A d \in Clients : Made(d) => Made(d)'
      BY <3>1 DEF Made, Inv, TypeOK
    <3>4. op[a].k \in Servers
      BY <2>5 DEF DialOk, At, Inv, RestInv, DialInv, Past
    <3>5. \A p \in XClients \cup {Builder}, l \in Servers : cached'[p][l] \in {cached[p][l], c}
      BY <3>1, <3>4, PlaceType, XOfAssumption DEF Set, Inv, TypeOK
    <3> QED BY <3>1, <3>2, <3>3, <3>5, HomesStayWhen
  <2> QED BY <1>3, <2>1, <2>2, <2>3, <2>4, <2>5 DEF OpStep
<1>4. ASSUME NEW x \in XClients, Close(x) PROVE HomesStay /\ option' = option
  <2>1. \A p \in XClients \cup {Builder}, l \in Servers : cached'[p][l] \in {cached[p][l], None}
    BY <1>4 DEF Close, Inv, TypeOK
  <2>2. \A d \in Clients : Made(d) => Made(d)'
    BY <1>4 DEF Close, Made, Inv, TypeOK
  <2>3. option' = option BY <1>4 DEF Close
  <2> QED BY <2>1, <2>2, <2>3, HomesStayWhen, NoneNotClient
<1>5. ASSUME NEW x \in XClients, NEW k \in Servers, WindowPasses(x, k)
      PROVE  HomesStay /\ option' = option
  BY <1>2, <1>5 DEF WindowPasses
<1>6. ASSUME NEW c \in Clients, Lose(c) PROVE HomesStay /\ option' = option
  <2>1. \A d \in Clients : Made(d) => Made(d)' BY <1>6 DEF Lose, Made, Inv, TypeOK
  <2>2. option' = option /\ cached' = cached BY <1>6 DEF Lose
  <2> QED BY <2>1, <2>2, HomesStayWhen
<1>7. CASE UNCHANGED vars BY <1>2, <1>7 DEF vars, netVars
<1> QED BY <1>3, <1>4, <1>5, <1>6, <1>7 DEF Next

\* removeClient, called by a goroutine, is to the calls what it is when one of them calls it.
LEMMA RemoveCalls ==
  ASSUME Inv, NEW x \in XClients, NEW k \in Servers, NEW c \in Clients, Home(x, k, c),
         Delete(x, k, c), ~Locked(x),
         UNCHANGED <<option, isShutdown, breakers, late, knocks, opVars>>
  PROVE  Inv' /\ HomesStay
<1>1. /\ Cached' /\ HomesStay
      /\ \A p \in XClients \cup {Builder}, l \in Servers :
           cached'[p][l] \in {cached[p][l], None}
  BY DeleteKeeps DEF Inv, RestInv
<1>2. DialInv' /\ KnockInv'
  BY DEF Inv, RestInv, DialInv, KnockInv, At, Tripped, opVars
<1>3. LateInv'
  <2>1. \A y \in isShutdown', l \in Servers : cached'[y][l] \in late' \cup {None}
    BY <1>1 DEF Inv, RestInv, LateInv, TypeOK
  <2> QED BY <2>1 DEF Inv, RestInv, LateInv, opVars
<1>4. CacheInv'
  <2>1. ASSUME ~option.shared, NEW b \in Ops, op'[b].pc = "dial"
        PROVE  cached'[XOf[b]][op'[b].k] = None
    <3>1. /\ cached[XOf[b]][op[b].k] = None /\ op[b].k \in Servers /\ XOf[b] \in XClients
          /\ op' = op
      BY <2>1, XOfAssumption DEF Inv, RestInv, CacheInv, At, DialInv, Past, opVars
    <3> QED BY <1>1, <3>1
  <2> QED BY <1>1, <2>1 DEF Cached, CacheInv, At
<1>5. HomeInv'
  BY <1>1 DEF Inv, TypeOK, Record, RestInv, HomeInv, HomesStay, opVars
<1>6. CallInv'
  BY DEF Inv, CallInv, Sound, Seeking, Told, Retrying, Backup, Budget, opVars
<1>7. TypeOK'
  BY <1>1 DEF Inv, TypeOK, Cached, opVars
<1> QED BY <1>1, <1>2, <1>3, <1>4, <1>5, <1>6, <1>7 DEF Inv, RestInv

\* The connections a fan-out gathers: those to up are new, those to other servers without a
\* usable one are deleted.  For the calls this is as if it had removed and dialled them.
LEMMA GatherCalls ==
  ASSUME Inv, NEW x \in XClients, ~Locked(x), NEW up \in SUBSET Stale(x),
         NEW new \in [up -> Clients], Reconnect(x, up, new), NEW R, R = Refilled(x, up, new),
         UNCHANGED <<option, isShutdown, knocks, opVars>>
  PROVE  /\ Inv' /\ HomesStay
         /\ R \in [Servers -> Clients \cup {None}]
         /\ \A k \in Servers : R[k] # None => Home(x, k, R[k])'
<1>1. PICK stale, fresh, lost :
        /\ stale = Stale(x) /\ fresh = {new[k] : k \in up}
        /\ lost = {Find(x, k) : k \in stale} \ {None}
  OBVIOUS
<1>2. /\ stale = {k \in option.servers : ~Usable(Find(x, k))}
      /\ \A k \in up : k \in option.servers /\ ~Usable(Find(x, k))
      /\ \A k, l \in up : new[k] = new[l] => k = l
      /\ \A c \in fresh : ~Made(c)
      /\ cached' = [cached EXCEPT ![Place(x)] = R]
      /\ conn' = [c \in Clients |-> IF c \in fresh THEN "open"
                                    ELSE IF c \in lost THEN "closed" ELSE conn[c]]
      /\ late' = IF x \in isShutdown THEN late \cup fresh ELSE late
      /\ breakers' = IF ~option.breaker THEN breakers
                     ELSE [breakers EXCEPT ![x] = [k \in Servers |->
                            IF k \in stale \ up THEN Failed(@[k]) ELSE @[k]]]
  BY <1>1 DEF Reconnect, Stale
<1> USE <1>1, <1>2
<1> DEFINE Places == XClients \cup {Builder}
<1>3. /\ Place(x) \in Places /\ Place(x)' = Place(x) /\ option \in OptionSet
      /\ option.servers \subseteq Servers /\ option.shared \in BOOLEAN
      /\ option.breaker \in BOOLEAN
  BY PlaceType, OptionAssumption DEF Place, Inv, TypeOK
<1>4. /\ up \subseteq stale /\ stale \subseteq Servers /\ fresh \subseteq Clients
      /\ \A k \in stale : Find(x, k) = cached[Place(x)][k] /\ ~Usable(Find(x, k))
  BY <1>3, NameAssumption DEF Find
<1>5. /\ cached \in [Places -> [Servers -> Clients \cup {None}]]
      /\ conn \in [Clients -> {"unused", "open", "lost", "closed"}]
  BY DEF Inv, TypeOK
<1>6. /\ R \in [Servers -> Clients \cup {None}]
      /\ \A k \in Servers : R[k] = IF k \in up THEN new[k]
                                   ELSE IF k \in stale THEN None ELSE cached[Place(x)][k]
  <2>1. \A k \in Servers : R[k] = IF k \in up THEN new[k]
                                  ELSE IF k \in stale THEN None ELSE cached[Place(x)][k]
    BY <1>4 DEF Refilled
  <2>2. \A k \in Servers : R[k] \in Clients \cup {None}
    BY <1>3, <1>5, <2>1
  <2>3. R = [k \in Servers |-> R[k]] BY DEF Refilled
  <2> QED BY <2>1, <2>2, <2>3
<1>7. /\ cached' \in [Places -> [Servers -> Clients \cup {None}]]
      /\ \A p \in Places, l \in Servers :
           cached'[p][l] = IF p = Place(x) THEN R[l] ELSE cached[p][l]
  BY <1>3, <1>5, <1>6
<1>8. /\ conn' \in [Clients -> {"unused", "open", "lost", "closed"}]
      /\ \A c \in Clients : conn'[c] = IF c \in fresh THEN "open"
                                       ELSE IF c \in lost THEN "closed" ELSE conn[c]
  BY <1>5
<1>9. \A p \in Places, l \in Servers :
        cached[p][l] # None =>
          /\ cached[p][l] \in Clients /\ cached[p][l] \notin fresh
          /\ conn[cached[p][l]] \in {"open", "lost"}
          /\ cached[p][l] \in lost => p = Place(x) /\ l \in stale
  <2> SUFFICES ASSUME NEW p \in Places, NEW l \in Servers, cached[p][l] # None
               PROVE  /\ cached[p][l] \in Clients /\ cached[p][l] \notin fresh
                      /\ conn[cached[p][l]] \in {"open", "lost"}
                      /\ cached[p][l] \in lost => p = Place(x) /\ l \in stale
    OBVIOUS
  <2>1. cached[p][l] \in Clients /\ conn[cached[p][l]] \in {"open", "lost"}
    BY <1>5 DEF Inv, RestInv, CacheInv
  <2>2. cached[p][l] \notin fresh BY <2>1 DEF Made
  <2>3. ASSUME cached[p][l] \in lost PROVE p = Place(x) /\ l \in stale
    <3>1. PICK k \in stale : cached[p][l] = cached[Place(x)][k] BY <1>4, <2>3
    <3>2. p = Place(x) /\ l = k BY <1>3, <1>4, <3>1 DEF Inv, RestInv, CacheInv
    <3> QED BY <3>1, <3>2
  <2> QED BY <2>1, <2>2, <2>3
<1>10. ASSUME NEW p \in Places, NEW l \in Servers, cached'[p][l] # None
      PROVE  \/ p = Place(x) /\ l \in up /\ cached'[p][l] = new[l] /\ new[l] \in fresh
             \/ /\ cached'[p][l] = cached[p][l]
                /\ cached[p][l] \notin fresh /\ cached[p][l] \notin lost
  BY <1>4, <1>6, <1>7, <1>9, <1>10
<1>11. \A p, q \in Places, k, l \in Servers :
         cached'[p][k] # None /\ cached'[p][k] = cached'[q][l] => p = q /\ k = l
  BY <1>10 DEF Inv, RestInv, CacheInv
<1>12. \A p \in Places, k \in Servers :
         cached'[p][k] # None => conn'[cached'[p][k]] \in {"open", "lost"}
  BY <1>4, <1>8, <1>9, <1>10
<1>13. HomesStay
  <2>1. \A c \in Clients : Made(c) => Made(c)' BY <1>8 DEF Made
  <2>2. \A p \in Places, l \in Servers :
          \/ cached'[p][l] = cached[p][l] \/ cached'[p][l] \notin Clients
          \/ ~Made(cached'[p][l])
    BY <1>10, NoneNotClient
  <2> QED BY <2>1, <2>2, HomesStayWhen
<1>14. \A k \in Servers : R[k] # None => Home(x, k, R[k])'
  <2> SUFFICES ASSUME NEW k \in Servers, R[k] # None PROVE Home(x, k, R[k])'
    BY <1>6
  <2>1. cached'[Place(x)][k] = R[k] BY <1>3, <1>7
  <2>2. conn'[R[k]] # "unused" BY <1>3, <1>12, <2>1
  <2>3. \A p \in Places, l \in Servers : cached'[p][l] = R[k] => p = Place(x) /\ l = k
    BY <1>3, <1>11, <2>1
  <2> QED BY <1>3, <2>2, <2>3 DEF Home, Made
<1>15. CacheInv'
  <2>1. ASSUME ~option.shared, NEW c \in Clients, conn'[c] = "open"
        PROVE  \E y \in XClients, l \in Servers : cached'[y][l] = c
    <3>1. Place(x) = x BY <2>1 DEF Place
    <3>2. CASE c \in fresh
      <4>1. PICK l \in up : c = new[l] BY <3>2
      <4> QED BY <1>4, <1>6, <1>7, <3>1, <4>1
    <3>3. CASE c \notin fresh
      <4>1. conn[c] = "open" BY <1>8, <2>1, <3>3
      <4>2. PICK y \in XClients, l \in Servers : cached[y][l] = c
        BY <2>1, <4>1 DEF Inv, RestInv, CacheInv
      <4>3. ~(y = x /\ l \in stale)
        BY <1>4, <3>1, <4>1, <4>2, NoneNotClient DEF Usable
      <4>4. cached'[y][l] = c BY <1>4, <1>6, <1>7, <3>1, <4>2, <4>3
      <4> QED BY <4>4
    <3> QED BY <3>2, <3>3
  <2>2. ASSUME ~option.shared, NEW b \in Ops, op'[b].pc = "dial"
        PROVE  cached'[XOf[b]][op'[b].k] = None
    <3>1. /\ cached[XOf[b]][op[b].k] = None /\ op[b].k \in Servers /\ XOf[b] \in XClients
          /\ op' = op /\ op[b].pc = "dial"
      BY <2>2, XOfAssumption DEF Inv, RestInv, CacheInv, At, DialInv, Past, opVars
    <3>2. XOf[b] # x /\ Place(x) = x BY <2>2, <3>1 DEF Locked, At, Place
    <3> QED BY <1>7, <3>1, <3>2
  <2> QED BY <1>11, <1>12, <2>1, <2>2 DEF CacheInv, At
<1>16. DialInv' BY DEF Inv, RestInv, DialInv, At, opVars
<1>17. LateInv'
  <2>1. ASSUME NEW y \in isShutdown', NEW l \in Servers
        PROVE  cached'[y][l] \in late' \cup {None}
    <3>1. y \in isShutdown /\ y \in XClients /\ y # Builder
      BY NameAssumption DEF Inv, TypeOK
    <3>2. cached[y][l] \in late \cup {None} BY <3>1 DEF Inv, RestInv, LateInv
    <3>3. y = Place(x) => y = x BY <3>1 DEF Place
    <3> QED BY <1>10, <3>1, <3>2, <3>3
  <2> QED BY <2>1 DEF Inv, RestInv, LateInv, opVars
<1>18. /\ breakers' \in [XClients -> [Servers ->
            [made : BOOLEAN, failures : 0 .. Threshold, recent : BOOLEAN]]]
       /\ \A y \in XClients, l \in Servers :
            \/ breakers'[y][l] = breakers[y][l]
            \/ breakers'[y][l] = Failed(breakers[y][l])
  <2> DEFINE Breaker == [made : BOOLEAN, failures : 0 .. Threshold, recent : BOOLEAN]
             row == [k \in Servers |-> IF k \in stale \ up THEN Failed(breakers[x][k])
                                       ELSE breakers[x][k]]
  <2>1. breakers \in [XClients -> [Servers -> Breaker]] BY DEF Inv, TypeOK
  <2>2. \A q \in Breaker : Failed(q) \in Breaker BY NumberAssumption DEF Failed
  <2>3. breakers' = breakers \/ breakers' = [breakers EXCEPT ![x] = row] BY <2>1
  <2> HIDE DEF Breaker
  <2>4. row \in [Servers -> Breaker] BY <2>1, <2>2
  <2>5. \A l \in Servers : row[l] = breakers[x][l] \/ row[l] = Failed(breakers[x][l])
    OBVIOUS
  <2> HIDE DEF row
  <2>6. breakers' \in [XClients -> [Servers -> Breaker]] BY <2>1, <2>3, <2>4
  <2>7. \A y \in XClients, l \in Servers :
          breakers'[y][l] = breakers[y][l] \/ breakers'[y][l] = Failed(breakers[y][l])
    BY <2>1, <2>3, <2>5
  <2> QED BY <2>6, <2>7 DEF Breaker
<1>19. KnockInv'
  <2>1. \A y \in XClients, l \in Servers :
          /\ breakers'[y][l].failures > 0 => breakers'[y][l].made
          /\ Tripped(y, l) => Tripped(y, l)'
    <3> SUFFICES ASSUME NEW y \in XClients, NEW l \in Servers
                 PROVE  /\ breakers'[y][l].failures > 0 => breakers'[y][l].made
                        /\ Tripped(y, l) => Tripped(y, l)'
      OBVIOUS
    <3>1. Threshold \in Nat BY NumberAssumption
    <3>2. CASE breakers'[y][l] = breakers[y][l]
      BY <3>2 DEF Inv, RestInv, KnockInv, Tripped
    <3>3. CASE breakers'[y][l] = Failed(breakers[y][l])
      BY <3>1, <3>3 DEF Failed, Tripped
    <3> QED BY <1>18, <3>2, <3>3
  <2> QED BY <2>1, XOfAssumption DEF Inv, RestInv, KnockInv, opVars
<1>20. HomeInv'
  BY <1>13 DEF Inv, TypeOK, Record, RestInv, HomeInv, HomesStay, opVars
<1>21. CallInv'
  BY DEF Inv, CallInv, Sound, Seeking, Told, Retrying, Backup, Budget, opVars
<1>22. TypeOK'
  <2>1. late' \subseteq Clients BY <1>4 DEF Inv, TypeOK
  <2> QED BY <1>7, <1>8, <1>18, <2>1 DEF Inv, TypeOK, opVars
<1> QED BY <1>6, <1>13, <1>14, <1>15, <1>16, <1>17, <1>19, <1>20, <1>21, <1>22 DEF Inv, RestInv

-----------------------------------------------------------------------------
(* Every step keeps the invariant *)

Kind(f) == FanKind[option][f]

LEMMA Same ==
  ASSUME NEW S, NEW T, NEW g \in [S -> T], NEW s \in S
  PROVE  g = [g EXCEPT ![s] = g[s]]
  OBVIOUS

\* Nothing of fan-out f changes but what a step says.
LEMMA FanTypes ==
  ASSUME FanInv, NEW f \in Fans
  PROVE  /\ fan[f] \in FanRecord /\ worker[f] \in Workers /\ receipts[f] \in SUBSET Servers
         /\ FanSound(Kind(f), fan[f], worker[f], done[f], errs[f], reply[f])
         /\ fan = [fan EXCEPT ![f] = fan[f]] /\ worker = [worker EXCEPT ![f] = worker[f]]
         /\ done = [done EXCEPT ![f] = done[f]] /\ errs = [errs EXCEPT ![f] = errs[f]]
         /\ reply = [reply EXCEPT ![f] = reply[f]]
         /\ receipts = [receipts EXCEPT ![f] = receipts[f]]
<1>1. /\ fan \in [Fans -> FanRecord] /\ worker \in [Fans -> Workers]
      /\ done \in [Fans -> Seq(BOOLEAN)] /\ errs \in [Fans -> SUBSET (Servers \cup {Timeout})]
      /\ reply \in [Fans -> Servers \cup {NoServer}]
      /\ receipts \in [Fans -> SUBSET Servers]
  BY DEF FanInv, FanTypeOK, Workers
<1>2. FanSound(Kind(f), fan[f], worker[f], done[f], errs[f], reply[f])
  BY DEF FanInv, AllSound, Kind
<1>3. fan[f] \in FanRecord /\ worker[f] \in Workers /\ receipts[f] \in SUBSET Servers
  BY <1>1
<1> QED BY <1>1, <1>2, <1>3, Same

\* A step of fan-out f, after which its parts are r, w, d, e, p and c.
LEMMA FanStep ==
  ASSUME FanInv, Inv', HomesStay, option' = option, NEW f \in Fans,
         NEW r, NEW w, NEW d, NEW e, NEW p, NEW c \in SUBSET Servers,
         FanSound(Kind(f), r, w, d, e, p),
         fan' = [fan EXCEPT ![f] = r], worker' = [worker EXCEPT ![f] = w],
         done' = [done EXCEPT ![f] = d], errs' = [errs EXCEPT ![f] = e],
         reply' = [reply EXCEPT ![f] = p], receipts' = [receipts EXCEPT ![f] = c],
         \A k \in Servers :
           w[k].pc # "none" =>
             \/ w[k].client # None /\ Home(XOfFan[f], k, w[k].client)'
             \/ worker[f][k].pc # "none" /\ w[k].client = worker[f][k].client
  PROVE  FanInv'
<1>1. Typed(r, w, d, e, p) BY DEF FanSound
<1>2. /\ fan' \in [Fans -> FanRecord] /\ worker' \in [Fans -> Workers]
      /\ done' \in [Fans -> Seq(BOOLEAN)] /\ errs' \in [Fans -> SUBSET (Servers \cup {Timeout})]
      /\ reply' \in [Fans -> Servers \cup {NoServer}]
      /\ receipts' \in [Fans -> SUBSET Servers]
  BY <1>1 DEF FanInv, FanTypeOK, Workers, Typed
<1>3. \A g \in Fans : /\ fan'[g] = IF g = f THEN r ELSE fan[g]
                      /\ worker'[g] = IF g = f THEN w ELSE worker[g]
                      /\ done'[g] = IF g = f THEN d ELSE done[g]
                      /\ errs'[g] = IF g = f THEN e ELSE errs[g]
                      /\ reply'[g] = IF g = f THEN p ELSE reply[g]
  BY DEF FanInv, FanTypeOK
<1>4. FanTypeOK'
  <2>1. \A g \in Fans : Len(done'[g]) <= Cardinality(Servers)
    BY <1>1, <1>3 DEF Typed, FanInv, FanTypeOK
  <2> QED BY <1>2, <2>1 DEF FanTypeOK, Workers, Inv
<1>5. AllSound'
  <2>1. ASSUME NEW g \in Fans
        PROVE  FanSound(Kind(g), fan'[g], worker'[g], done'[g], errs'[g], reply'[g])
    <3>1. CASE g = f BY <1>3, <3>1
    <3>2. CASE g # f
      <4>1. FanSound(Kind(g), fan[g], worker[g], done[g], errs[g], reply[g])
        BY DEF FanInv, AllSound, Kind
      <4> QED BY <1>3, <3>2, <4>1
    <3> QED BY <3>1, <3>2
  <2> QED BY <2>1 DEF AllSound, Kind
<1>6. WorkerHomes'
  <2> SUFFICES ASSUME NEW g \in Fans, NEW k \in Servers, NEW m, m = worker'[g][k],
                      m.pc # "none"
               PROVE  m.client # None /\ Home(XOfFan[g], k, m.client)'
    BY DEF WorkerHomes
  <2>1. ASSUME worker[g][k].pc # "none", m.client = worker[g][k].client
        PROVE  m.client # None /\ Home(XOfFan[g], k, m.client)'
    <3>1. m.client # None /\ Home(XOfFan[g], k, m.client)
      BY <2>1 DEF FanInv, WorkerHomes
    <3>2. m.client \in Clients
      BY <2>1, <3>1 DEF FanInv, FanTypeOK, WorkerRecord
    <3> QED BY <3>1, <3>2 DEF HomesStay
  <2>2. CASE g = f BY <1>3, <2>1, <2>2
  <2>3. CASE g # f BY <1>3, <2>1, <2>3
  <2> QED BY <2>2, <2>3
<1> QED BY <1>4, <1>5, <1>6 DEF FanInv

\* A step of goroutine k of fan-out f, which becomes m.
LEMMA OneWorker ==
  ASSUME FanInv, Inv', HomesStay, option' = option, NEW f \in Fans, NEW k \in Servers,
         worker[f][k].pc # "none", NEW m, WorkerBecomes(f, k, m),
         m.client = worker[f][k].client, fan' = fan,
         NEW d, NEW e, NEW p, NEW c \in SUBSET Servers,
         FanSound(Kind(f), fan[f], [worker[f] EXCEPT ![k] = m], d, e, p),
         done' = [done EXCEPT ![f] = d], errs' = [errs EXCEPT ![f] = e],
         reply' = [reply EXCEPT ![f] = p], receipts' = [receipts EXCEPT ![f] = c]
  PROVE  FanInv'
<1>1. PICK w : w = [worker[f] EXCEPT ![k] = m] OBVIOUS
<1>2. PICK r : r = fan[f] OBVIOUS
<1>3. fan' = [fan EXCEPT ![f] = r] BY <1>2, FanTypes
<1>4. worker' = [worker EXCEPT ![f] = w] BY <1>1 DEF WorkerBecomes
<1>5. worker[f] \in Workers BY FanTypes
<1>6. \A l \in Servers :
        w[l].pc # "none" =>
          \/ w[l].client # None /\ Home(XOfFan[f], l, w[l].client)'
          \/ worker[f][l].pc # "none" /\ w[l].client = worker[f][l].client
  BY <1>1, <1>5 DEF Workers
<1>7. FanSound(Kind(f), r, w, d, e, p) BY <1>1, <1>2
<1> QED BY <1>3, <1>4, <1>6, <1>7, FanStep, Zenon

\* Steps that leave the calls and their connections alone.
LEMMA CallsStay ==
  ASSUME FanInv, UNCHANGED vars
  PROVE  Inv' /\ HomesStay /\ option' = option
  BY NextInv, NextHomes DEF FanInv

LEMMA WorkerCallKeeps ==
  ASSUME FanInv, NEW f \in Fans, NEW k \in Servers, WorkerCall(f, k)
  PROVE  FanInv'
<1>1. /\ worker[f][k].pc = "call"
      /\ UNCHANGED <<vars, fan, done, errs, reply, receipts>>
  BY DEF WorkerCall, WorkerAt
<1>2. PICK v \in Ends(worker[f][k].client) :
        WorkerBecomes(f, k, [worker[f][k] EXCEPT
          !.e = v, !.pc = IF Is(f, "fork") /\ v = "nil" THEN "reply" ELSE "signal"])
  BY Zenon DEF WorkerCall
<1>3. PICK z : z = IF Is(f, "fork") /\ v = "nil" THEN "reply" ELSE "signal" OBVIOUS
<1>4. PICK m : m = [worker[f][k] EXCEPT !.e = v, !.pc = z] OBVIOUS
<1>5. worker[f][k] \in WorkerRecord BY FanTypes DEF Workers
<1>6. v \in Errors /\ z \in {"reply", "signal"} BY <1>3 DEF Ends, Errors
<1>7. m \in WorkerRecord /\ m.e = v /\ m.pc = z /\ m.client = worker[f][k].client
  BY <1>4, <1>5, <1>6 DEF WorkerRecord
<1>8. WorkerBecomes(f, k, m) BY <1>2, <1>3, <1>4
<1>9. FanSound(Kind(f), fan[f], [worker[f] EXCEPT ![k] = m], done[f], errs[f], reply[f])
  BY <1>1, <1>3, <1>7, FanTypes, CallSound DEF Is, Kind
<1>10. Inv' /\ HomesStay /\ option' = option BY <1>1, CallsStay
<1>11. PICK d, e, p, c : d = done[f] /\ e = errs[f] /\ p = reply[f] /\ c = receipts[f]
  OBVIOUS
<1>12. /\ FanSound(Kind(f), fan[f], [worker[f] EXCEPT ![k] = m], d, e, p) /\ c \in SUBSET Servers
       /\ done' = [done EXCEPT ![f] = d] /\ errs' = [errs EXCEPT ![f] = e]
       /\ reply' = [reply EXCEPT ![f] = p] /\ receipts' = [receipts EXCEPT ![f] = c]
  BY <1>1, <1>9, <1>11, FanTypes
<1>13. worker[f][k].pc # "none" /\ fan' = fan BY <1>1
<1> QED BY <1>7, <1>8, <1>10, <1>12, <1>13, OneWorker, Zenon

LEMMA WorkerSignalKeeps ==
  ASSUME FanInv, NEW f \in Fans, NEW k \in Servers, WorkerSignal(f, k)
  PROVE  FanInv'
<1>1. PICK v : v = worker[f][k] OBVIOUS
<1>2. v \in WorkerRecord BY <1>1, FanTypes DEF Workers
<1>3. PICK z : z = CASE v.e = "other" -> "remove"
                     [] v.e \in {"service", "context"} -> "append"
                     [] OTHER -> IF Is(f, "fork") THEN "ended" ELSE "reply"
  OBVIOUS
<1>4. PICK m : m = [v EXCEPT !.pc = z] OBVIOUS
<1>5. /\ v.pc = "signal" /\ Len(done[f]) < Cardinality(Asked(worker[f]))
      /\ done' = [done EXCEPT ![f] = Append(done[f], v.e = "nil")]
      /\ WorkerBecomes(f, k, m)
      /\ UNCHANGED <<vars, fan, errs, reply, receipts>>
  <2>1. v.pc = "signal" BY <1>1 DEF WorkerSignal, WorkerAt
  <2>2. Len(done[f]) < Cardinality(Asked(worker[f]))
    BY DEF WorkerSignal, Room, Gathered, Asked
  <2>3. done' = [done EXCEPT ![f] = Append(done[f], v.e = "nil")]
    BY <1>1, FanTypes DEF WorkerSignal
  <2>4. WorkerBecomes(f, k, m) BY <1>1, <1>3, <1>4 DEF WorkerSignal, Moves
  <2>5. UNCHANGED <<vars, fan, errs, reply, receipts>> BY DEF WorkerSignal
  <2> QED BY <2>1, <2>2, <2>3, <2>4, <2>5
<1>6. z \in {"remove", "append", "ended", "reply"}
  BY <1>2, <1>3 DEF WorkerRecord, Errors
<1>7. m \in WorkerRecord /\ m.e = v.e /\ m.pc = z /\ m.client = v.client
  BY <1>2, <1>4, <1>6 DEF WorkerRecord
<1>8. PICK d, e, p, c : /\ d = Append(done[f], v.e = "nil") /\ e = errs[f]
                        /\ p = reply[f] /\ c = receipts[f]
  OBVIOUS
<1>9. FanSound(Kind(f), fan[f], [worker[f] EXCEPT ![k] = m], d, e, p)
  <2>1. m.pc = CASE m.e = "other" -> "remove"
                 [] m.e \in {"service", "context"} -> "append"
                 [] OTHER -> IF Kind(f) = "fork" THEN "ended" ELSE "reply"
    BY <1>3, <1>7 DEF Is, Kind
  <2>2. FanSound(Kind(f), fan[f], [worker[f] EXCEPT ![k] = m],
                 Append(done[f], m.e = "nil"), errs[f], reply[f])
    BY <1>1, <1>5, <1>7, <2>1, FanTypes, SignalSound
  <2> QED BY <1>7, <1>8, <2>2
<1>10. Inv' /\ HomesStay /\ option' = option BY <1>5, CallsStay
<1>11. /\ c \in SUBSET Servers
       /\ done' = [done EXCEPT ![f] = d] /\ errs' = [errs EXCEPT ![f] = e]
       /\ reply' = [reply EXCEPT ![f] = p] /\ receipts' = [receipts EXCEPT ![f] = c]
  BY <1>5, <1>8, FanTypes
<1>12. /\ worker[f][k].pc # "none" /\ WorkerBecomes(f, k, m) /\ fan' = fan
       /\ m.client = worker[f][k].client
  BY <1>1, <1>5, <1>7
<1> QED BY <1>9, <1>10, <1>11, <1>12, OneWorker, Zenon

\* What a goroutine does once it has signalled; its errors are then e and its receipts c.
LEMMA LaterKeeps ==
  ASSUME FanInv, NEW f \in Fans, NEW k \in Servers, NEW z \in {"append", "receipt", "ended"},
         worker[f][k].pc \in {"remove", "append", "receipt"}, Moves(f, k, z),
         z = "append" => worker[f][k].pc = "remove", z = "receipt" => Kind(f) = "inform",
         NEW e, e = errs[f] \/ (worker[f][k].pc = "append" /\ e = errs[f] \cup {k}),
         NEW c \in SUBSET Servers,
         errs' = [errs EXCEPT ![f] = e], receipts' = [receipts EXCEPT ![f] = c],
         Inv', HomesStay, option' = option, UNCHANGED <<fan, done, reply>>
  PROVE  FanInv'
<1>1. PICK v : v = worker[f][k] OBVIOUS
<1>2. v \in WorkerRecord BY <1>1, FanTypes DEF Workers
<1>3. PICK m : m = [v EXCEPT !.pc = z] OBVIOUS
<1>4. m \in WorkerRecord /\ m.e = v.e /\ m.pc = z /\ m.client = v.client
  BY <1>2, <1>3 DEF WorkerRecord
<1>5. WorkerBecomes(f, k, m) BY <1>1, <1>3 DEF Moves
<1>6. PICK d, p : d = done[f] /\ p = reply[f] OBVIOUS
<1>7. FanSound(Kind(f), fan[f], [worker[f] EXCEPT ![k] = m], d, e, p)
  BY <1>1, <1>4, <1>6, FanTypes, LaterSound
<1>8. done' = [done EXCEPT ![f] = d] /\ reply' = [reply EXCEPT ![f] = p]
  BY <1>6, FanTypes
<1>9. worker[f][k].pc # "none" /\ fan' = fan /\ m.client = worker[f][k].client
  BY <1>1, <1>4
<1> QED BY <1>4, <1>5, <1>7, <1>8, <1>9, OneWorker, Zenon

LEMMA WorkerRemoveKeeps ==
  ASSUME FanInv, NEW f \in Fans, NEW k \in Servers, WorkerRemove(f, k)
  PROVE  FanInv'
<1>1. /\ worker[f][k].pc = "remove" /\ ~Locked(XOfFan[f]) /\ Moves(f, k, "append")
      /\ UNCHANGED <<option, isShutdown, breakers, late, knocks, opVars, fan, done, errs,
                     reply, receipts>>
  BY DEF WorkerRemove, WorkerAt
<1>2. PICK x, c : x = XOfFan[f] /\ c = worker[f][k].client OBVIOUS
<1>3. c \in Clients /\ Home(x, k, c) /\ x \in XClients
  <2>1. c # None /\ Home(x, k, c) BY <1>1, <1>2 DEF FanInv, WorkerHomes
  <2>2. c \in Clients \cup {None} BY <1>2, FanTypes DEF Workers, WorkerRecord
  <2> QED BY <1>2, <2>1, <2>2, XOfFanAssumption
<1>4. Delete(x, k, c) BY <1>2, <1>3, NoneNotClient DEF WorkerRemove, Remove
<1>5. Inv' /\ HomesStay
  <2>1. Inv /\ ~Locked(x) BY <1>1, <1>2 DEF FanInv
  <2> QED BY <1>1, <1>3, <1>4, <2>1, RemoveCalls
<1>6. PICK e, g : e = errs[f] /\ g = receipts[f] OBVIOUS
<1>7. /\ errs' = [errs EXCEPT ![f] = e] /\ receipts' = [receipts EXCEPT ![f] = g]
      /\ g \in SUBSET Servers
  BY <1>1, <1>6, FanTypes
<1>8. worker[f][k].pc \in {"remove", "append", "receipt"} /\ option' = option
      /\ UNCHANGED <<fan, done, reply>>
  BY <1>1
<1>9. PICK z : z = "append" OBVIOUS
<1>10. /\ z \in {"append", "receipt", "ended"} /\ Moves(f, k, z)
       /\ e = errs[f] \/ (worker[f][k].pc = "append" /\ e = errs[f] \cup {k})
       /\ z = "append" => worker[f][k].pc = "remove"
       /\ z = "receipt" => Kind(f) = "inform"
  BY <1>1, <1>6, <1>9
<1> QED BY <1>5, <1>7, <1>8, <1>10, LaterKeeps, Zenon

LEMMA WorkerAppendKeeps ==
  ASSUME FanInv, NEW f \in Fans, NEW k \in Servers, WorkerAppend(f, k)
  PROVE  FanInv'
<1>1. PICK z : z = IF Is(f, "inform") THEN "receipt" ELSE "ended" OBVIOUS
<1>2. /\ worker[f][k].pc = "append" /\ Moves(f, k, z)
      /\ errs' = [errs EXCEPT ![f] = errs[f] \cup {k}]
      /\ UNCHANGED <<vars, fan, done, reply, receipts>>
  BY <1>1, FanTypes DEF WorkerAppend, WorkerAt
<1>3. PICK e, g : e = errs[f] \cup {k} /\ g = receipts[f] OBVIOUS
<1>4. Inv' /\ HomesStay /\ option' = option BY <1>2, CallsStay
<1>5. /\ errs' = [errs EXCEPT ![f] = e] /\ receipts' = [receipts EXCEPT ![f] = g]
      /\ g \in SUBSET Servers
  BY <1>2, <1>3, FanTypes
<1>6. /\ worker[f][k].pc \in {"remove", "append", "receipt"} /\ UNCHANGED <<fan, done, reply>>
      /\ e = errs[f] \/ (worker[f][k].pc = "append" /\ e = errs[f] \cup {k})
  BY <1>2, <1>3
<1>7. /\ z \in {"append", "receipt", "ended"} /\ Moves(f, k, z)
      /\ z = "append" => worker[f][k].pc = "remove"
      /\ z = "receipt" => Kind(f) = "inform"
  BY <1>1, <1>2 DEF Is, Kind
<1> QED BY <1>4, <1>5, <1>6, <1>7, LaterKeeps, Zenon

LEMMA WorkerReceiptKeeps ==
  ASSUME FanInv, NEW f \in Fans, NEW k \in Servers, WorkerReceipt(f, k)
  PROVE  FanInv'
<1>1. /\ worker[f][k].pc = "receipt" /\ Moves(f, k, "ended")
      /\ receipts' = [receipts EXCEPT ![f] = receipts[f] \cup {k}]
      /\ UNCHANGED <<vars, fan, done, errs, reply>>
  BY FanTypes DEF WorkerReceipt, WorkerAt
<1>2. PICK e, g : e = errs[f] /\ g = receipts[f] \cup {k} OBVIOUS
<1>3. Inv' /\ HomesStay /\ option' = option BY <1>1, CallsStay
<1>4. /\ errs' = [errs EXCEPT ![f] = e] /\ receipts' = [receipts EXCEPT ![f] = g]
      /\ g \in SUBSET Servers
  BY <1>1, <1>2, FanTypes
<1>5. /\ worker[f][k].pc \in {"remove", "append", "receipt"} /\ UNCHANGED <<fan, done, reply>>
      /\ e = errs[f] \/ (worker[f][k].pc = "append" /\ e = errs[f] \cup {k})
  BY <1>1, <1>2
<1>6. PICK z : z = "ended" OBVIOUS
<1>7. /\ z \in {"append", "receipt", "ended"} /\ Moves(f, k, z)
      /\ z = "append" => worker[f][k].pc = "remove"
      /\ z = "receipt" => Kind(f) = "inform"
  BY <1>1, <1>6
<1> QED BY <1>3, <1>4, <1>5, <1>7, LaterKeeps, Zenon

LEMMA WorkerReplyKeeps ==
  ASSUME FanInv, NEW f \in Fans, NEW k \in Servers, WorkerReply(f, k)
  PROVE  FanInv'
<1>1. PICK v : v = worker[f][k] OBVIOUS
<1>2. v \in WorkerRecord BY <1>1, FanTypes DEF Workers
<1>3. PICK z : z = CASE Kind(f) = "fork" -> "signal"
                     [] Kind(f) = "inform" -> "receipt"
                     [] OTHER -> "ended"
  OBVIOUS
<1>4. PICK m : m = [v EXCEPT !.pc = z] OBVIOUS
<1>5. PICK p : p = IF reply[f] = NoServer THEN k ELSE reply[f] OBVIOUS
<1>6. /\ v.pc = "reply" /\ WorkerBecomes(f, k, m) /\ reply' = [reply EXCEPT ![f] = p]
      /\ UNCHANGED <<vars, fan, done, errs, receipts>>
  <2>1. v.pc = "reply" /\ UNCHANGED <<vars, fan, done, errs, receipts>>
    BY <1>1 DEF WorkerReply, WorkerAt
  <2>2. WorkerBecomes(f, k, m) BY <1>1, <1>3, <1>4 DEF WorkerReply, Moves, Is, Kind
  <2>3. reply' = [reply EXCEPT ![f] = p] BY <1>5, FanTypes DEF WorkerReply
  <2> QED BY <2>1, <2>2, <2>3
<1>7. z \in {"signal", "receipt", "ended"} BY <1>3
<1>8. m \in WorkerRecord /\ m.e = v.e /\ m.pc = z /\ m.client = v.client
  BY <1>2, <1>4, <1>7 DEF WorkerRecord
<1>9. PICK d, e, c : d = done[f] /\ e = errs[f] /\ c = receipts[f] OBVIOUS
<1>10. FanSound(Kind(f), fan[f], [worker[f] EXCEPT ![k] = m], d, e, p)
  BY <1>1, <1>3, <1>5, <1>6, <1>8, <1>9, FanTypes, ReplySound
<1>11. Inv' /\ HomesStay /\ option' = option BY <1>6, CallsStay
<1>12. /\ c \in SUBSET Servers
       /\ done' = [done EXCEPT ![f] = d] /\ errs' = [errs EXCEPT ![f] = e]
       /\ receipts' = [receipts EXCEPT ![f] = c]
  BY <1>6, <1>9, FanTypes
<1>13. worker[f][k].pc # "none" /\ fan' = fan /\ m.client = worker[f][k].client
  BY <1>1, <1>6, <1>8
<1> QED BY <1>6, <1>8, <1>10, <1>11, <1>12, <1>13, OneWorker, Zenon

\* A step of the caller alone.
LEMMA CallerAlone ==
  ASSUME FanInv, Inv', HomesStay, option' = option, NEW f \in Fans,
         NEW r, NEW w, NEW d, NEW e, NEW p, NEW c \in SUBSET Servers, w = worker[f],
         FanSound(Kind(f), r, w, d, e, p), fan' = [fan EXCEPT ![f] = r],
         worker' = [worker EXCEPT ![f] = w], done' = [done EXCEPT ![f] = d],
         errs' = [errs EXCEPT ![f] = e], reply' = [reply EXCEPT ![f] = p],
         receipts' = [receipts EXCEPT ![f] = c]
  PROVE  FanInv'
<1>1. \A k \in Servers :
        w[k].pc # "none" =>
          \/ w[k].client # None /\ Home(XOfFan[f], k, w[k].client)'
          \/ worker[f][k].pc # "none" /\ w[k].client = worker[f][k].client
  OBVIOUS
<1> QED BY <1>1, FanStep, Zenon

LEMMA FanEnterKeeps ==
  ASSUME FanInv, NEW f \in Fans, FanEnter(f)
  PROVE  FanInv'
<1>1. PICK b, r, w, d, e, p, c :
        /\ b = Kind(f) /\ r = fan[f] /\ w = worker[f] /\ d = done[f] /\ e = errs[f]
        /\ p = reply[f] /\ c = receipts[f]
  OBVIOUS
<1>2. PICK n : n = IF XOfFan[f] \in isShutdown
                   THEN [r EXCEPT !.pc = "returned", !.result = "error"]
                   ELSE [r EXCEPT !.pc = "gather"]
  OBVIOUS
<1>3. /\ r.pc \in {"new", "gather"} /\ fan' = [fan EXCEPT ![f] = n]
      /\ UNCHANGED <<vars, worker, done, errs, reply, receipts>>
  BY <1>1, <1>2 DEF FanEnter, FanBecomes
<1>4. \/ n = [r EXCEPT !.pc = "returned", !.result = "error"]
      \/ n = [r EXCEPT !.pc = "gather"]
  BY <1>2
<1>5. FanSound(b, r, w, d, e, p) BY <1>1, FanTypes
<1>6. FanSound(b, n, w, d, e, p) BY <1>3, <1>4, <1>5, EnterSound, Zenon
<1>7. FanSound(Kind(f), n, w, d, e, p) BY <1>1, <1>6
<1>8. /\ done' = [done EXCEPT ![f] = d] /\ errs' = [errs EXCEPT ![f] = e]
      /\ worker' = [worker EXCEPT ![f] = w] /\ reply' = [reply EXCEPT ![f] = p]
      /\ receipts' = [receipts EXCEPT ![f] = c] /\ c \in SUBSET Servers /\ w = worker[f]
  BY <1>1, <1>3, FanTypes
<1>9. Inv' /\ HomesStay /\ option' = option BY <1>3, CallsStay
<1>10. fan' = [fan EXCEPT ![f] = n] BY <1>3
<1> QED BY <1>7, <1>8, <1>9, <1>10, CallerAlone, Zenon

LEMMA CollectKeeps ==
  ASSUME FanInv, NEW f \in Fans, Collect(f)
  PROVE  FanInv'
<1>1. PICK b, r, w, d, e, p, c :
        /\ b = Kind(f) /\ r = fan[f] /\ w = worker[f] /\ d = done[f] /\ e = errs[f]
        /\ p = reply[f] /\ c = receipts[f]
  OBVIOUS
<1>2. PICK ok \in BOOLEAN : ok = Head(d)
  <2>1. d \in Seq(BOOLEAN) BY <1>1, FanTypes DEF FanSound, Typed
  <2>2. d # <<>> BY <1>1, Zenon DEF Collect
  <2> QED BY <2>1, <2>2
<1>3. PICK enough \in BOOLEAN :
        enough <=> \/ r.left - 1 = 0 \/ (b = "broadcast" /\ ~ok) \/ (b = "fork" /\ ok)
  OBVIOUS
<1>4. PICK n :
        n = CASE enough /\ b = "fork" /\ ok ->
                   [r EXCEPT !.pc = "returned", !.left = r.left - 1,
                             !.result = "nil", !.reply = p]
              [] enough /\ ~(b = "fork" /\ ok) ->
                   [r EXCEPT !.pc = "verdict", !.left = r.left - 1]
              [] OTHER -> [r EXCEPT !.left = r.left - 1]
  OBVIOUS
<1>5. /\ r.pc = "collect" /\ d # <<>>
      /\ UNCHANGED <<vars, worker, errs, reply, receipts>>
  BY <1>1, Zenon DEF Collect
<1>6. done' = [done EXCEPT ![f] = Tail(d)]
  <2>1. done' = [done EXCEPT ![f] = Tail(@)] BY Zenon DEF Collect
  <2> QED BY <1>1, <2>1, FanTypes
<1>7. fan' = [fan EXCEPT ![f] = n]
  <2>1. fan' = [fan EXCEPT ![f] =
          CASE Enough(f, Head(done[f]), fan[f].left - 1) /\ Is(f, "fork") /\ Head(done[f]) ->
                 [fan[f] EXCEPT !.pc = "returned", !.left = fan[f].left - 1,
                                !.result = "nil", !.reply = reply[f]]
            [] Enough(f, Head(done[f]), fan[f].left - 1)
                 /\ ~(Is(f, "fork") /\ Head(done[f])) ->
                 [fan[f] EXCEPT !.pc = "verdict", !.left = fan[f].left - 1]
            [] OTHER -> [fan[f] EXCEPT !.left = fan[f].left - 1]]
    BY Zenon DEF Collect, FanBecomes
  <2>2. fan' = [fan EXCEPT ![f] =
          CASE Enough(f, ok, r.left - 1) /\ Is(f, "fork") /\ ok ->
                 [r EXCEPT !.pc = "returned", !.left = r.left - 1,
                           !.result = "nil", !.reply = p]
            [] Enough(f, ok, r.left - 1) /\ ~(Is(f, "fork") /\ ok) ->
                 [r EXCEPT !.pc = "verdict", !.left = r.left - 1]
            [] OTHER -> [r EXCEPT !.left = r.left - 1]]
    BY <1>1, <1>2, <2>1, Zenon
  <2>3. Enough(f, ok, r.left - 1) <=> enough
    BY <1>1, <1>3, Zenon DEF Enough, Is, Kind
  <2>4. Is(f, "fork") <=> b = "fork" BY <1>1 DEF Is, Kind
  <2> QED BY <1>4, <2>2, <2>3, <2>4
<1>8. FanSound(b, r, w, d, e, p) BY <1>1, FanTypes
<1>9. PICK t : t = Tail(d) OBVIOUS
<1>10. FanSound(b, n, w, t, e, p)
  <2>1. r.pc = "collect" /\ d # <<>> BY <1>5
  <2>2. ok = Head(d) BY <1>2
  <2>3. FanSound(b, n, w, Tail(d), e, p)
    BY <1>3, <1>4, <1>8, <2>1, <2>2, CollectSound, Zenon
  <2> QED BY <1>9, <2>3
<1>11. FanSound(Kind(f), n, w, t, e, p) BY <1>1, <1>10
<1>12. /\ done' = [done EXCEPT ![f] = t] /\ errs' = [errs EXCEPT ![f] = e]
       /\ worker' = [worker EXCEPT ![f] = w] /\ reply' = [reply EXCEPT ![f] = p]
      /\ receipts' = [receipts EXCEPT ![f] = c] /\ c \in SUBSET Servers /\ w = worker[f]
  BY <1>1, <1>5, <1>6, <1>9, FanTypes
<1>13. Inv' /\ HomesStay /\ option' = option BY <1>5, CallsStay
<1> QED BY <1>7, <1>11, <1>12, <1>13, CallerAlone, Zenon

LEMMA TimeoutKeeps ==
  ASSUME FanInv, NEW f \in Fans, FanTimeout(f)
  PROVE  FanInv'
<1>1. PICK b, r, w, d, e, p, c :
        /\ b = Kind(f) /\ r = fan[f] /\ w = worker[f] /\ d = done[f] /\ e = errs[f]
        /\ p = reply[f] /\ c = receipts[f]
  OBVIOUS
<1>2. PICK n : n = [r EXCEPT !.pc = "verdict", !.timedOut = TRUE] OBVIOUS
<1>3. PICK g : g = e \cup {Timeout} OBVIOUS
<1>4. /\ r.pc = "collect" /\ fan' = [fan EXCEPT ![f] = n]
      /\ errs' = [errs EXCEPT ![f] = g]
      /\ UNCHANGED <<vars, worker, done, reply, receipts>>
  BY <1>1, <1>2, <1>3, FanTypes DEF FanTimeout, FanBecomes
<1>5. FanSound(b, r, w, d, e, p) BY <1>1, FanTypes
<1>6. FanSound(b, n, w, d, g, p)
  <2>1. r.pc = "collect" BY <1>4
  <2>2. FanSound(b, n, w, d, e \cup {Timeout}, p)
    BY <1>2, <1>5, <2>1, TimeoutSound, Zenon
  <2> QED BY <1>3, <2>2
<1>7. FanSound(Kind(f), n, w, d, g, p) BY <1>1, <1>6
<1>8. /\ fan' = [fan EXCEPT ![f] = n] /\ done' = [done EXCEPT ![f] = d]
      /\ errs' = [errs EXCEPT ![f] = g]
      /\ worker' = [worker EXCEPT ![f] = w] /\ reply' = [reply EXCEPT ![f] = p]
      /\ receipts' = [receipts EXCEPT ![f] = c] /\ c \in SUBSET Servers /\ w = worker[f]
  BY <1>1, <1>4, FanTypes
<1>9. Inv' /\ HomesStay /\ option' = option BY <1>4, CallsStay
<1> QED BY <1>7, <1>8, <1>9, CallerAlone, Zenon

LEMMA VerdictKeeps ==
  ASSUME FanInv, NEW f \in Fans, Verdict(f)
  PROVE  FanInv'
<1>1. PICK b, r, w, d, e, p, c :
        /\ b = Kind(f) /\ r = fan[f] /\ w = worker[f] /\ d = done[f] /\ e = errs[f]
        /\ p = reply[f] /\ c = receipts[f]
  OBVIOUS
<1>3. PICK n :
        n = [r EXCEPT !.pc = "returned", !.result = IF e = {} THEN "nil" ELSE "error",
                      !.reply = p, !.receipts = c,
                      !.unrecorded = {k \in Asked(w) : w[k].e # "nil" /\ k \notin e}]
  BY Zenon
<1>4. r.pc = "verdict" /\ UNCHANGED <<vars, worker, done, errs, reply, receipts>>
  BY <1>1, Zenon DEF Verdict
<1>5. fan' = [fan EXCEPT ![f] = n]
  <2>1. Gathered(f) = Asked(w) BY <1>1 DEF Gathered, Asked
  <2>2. fan' = [fan EXCEPT ![f] =
          [fan[f] EXCEPT
            !.pc = "returned", !.result = IF errs[f] = {} THEN "nil" ELSE "error",
            !.reply = reply[f], !.receipts = receipts[f],
            !.unrecorded = {k \in Gathered(f) : worker[f][k].e # "nil" /\ k \notin errs[f]}]]
    BY Zenon DEF Verdict, FanBecomes
  <2> QED BY <1>1, <1>3, <2>1, <2>2, Zenon
<1>6. FanSound(b, r, w, d, e, p) /\ c \in SUBSET Servers BY <1>1, FanTypes
<1>7. FanSound(b, n, w, d, e, p)
  <2>1. r.pc = "verdict" BY <1>4
  <2> QED BY <1>3, <1>6, <2>1, VerdictSound, Zenon
<1>8. FanSound(Kind(f), n, w, d, e, p) BY <1>1, <1>7
<1>9. /\ done' = [done EXCEPT ![f] = d] /\ errs' = [errs EXCEPT ![f] = e]
      /\ worker' = [worker EXCEPT ![f] = w] /\ reply' = [reply EXCEPT ![f] = p]
      /\ receipts' = [receipts EXCEPT ![f] = c] /\ c \in SUBSET Servers /\ w = worker[f]
  BY <1>1, <1>4, FanTypes
<1>10. Inv' /\ HomesStay /\ option' = option BY <1>4, CallsStay
<1> QED BY <1>5, <1>8, <1>9, <1>10, CallerAlone, Zenon

\* The connections of the goroutines are in the cache when the caller lets go of it.
LEMMA GatherKeeps ==
  ASSUME FanInv, NEW f \in Fans, Gather(f)
  PROVE  FanInv'
<1>1. PICK b, r, w, d, e, p, q :
        /\ b = Kind(f) /\ r = fan[f] /\ w = worker[f] /\ d = done[f] /\ e = errs[f]
        /\ p = reply[f] /\ q = receipts[f]
  OBVIOUS
<1>2. PICK x \in XClients : x = XOfFan[f] BY XOfFanAssumption
<1>3. PICK up \in SUBSET Stale(x) : \E new \in [up -> Clients] :
        /\ Reconnect(x, up, new)
        /\ Start(f, [k \in Servers |-> IF k \in option.servers
                                       THEN Refilled(x, up, new)[k] ELSE None])
  BY <1>2, Zenon DEF Gather
<1>4. PICK new \in [up -> Clients] :
        /\ Reconnect(x, up, new)
        /\ Start(f, [k \in Servers |-> IF k \in option.servers
                                       THEN Refilled(x, up, new)[k] ELSE None])
  BY <1>3, Zenon
<1>5. PICK R : R = Refilled(x, up, new) OBVIOUS
<1>6. PICK got : got = [k \in Servers |-> IF k \in option.servers THEN R[k] ELSE None] OBVIOUS
<1>7. /\ r.pc = "gather" /\ ~Locked(x)
       /\ UNCHANGED <<option, isShutdown, knocks, opVars, done, errs, reply, receipts>>
  BY <1>1, <1>2, Zenon DEF Gather
<1>8. /\ Inv' /\ HomesStay /\ R \in [Servers -> Clients \cup {None}]
       /\ \A k \in Servers : R[k] # None => Home(x, k, R[k])'
  <2>1. Inv /\ ~Locked(x) /\ UNCHANGED <<option, isShutdown, knocks, opVars>>
    BY <1>7 DEF FanInv
  <2> QED BY <1>4, <1>5, <2>1, GatherCalls, Zenon
<1>9. /\ got \in [Servers -> Clients \cup {None}]
       /\ \A k \in Servers : got[k] # None => got[k] = R[k]
  BY <1>6, <1>8
<1>10. Start(f, got) BY <1>4, <1>5, <1>6, Zenon
<1>11. PICK v : v = [k \in Servers |-> IF got[k] = None THEN Idle
                                       ELSE [pc |-> "call", client |-> got[k], e |-> "nil"]]
  OBVIOUS
<1>12. worker' = [worker EXCEPT ![f] = v] BY <1>10, <1>11, Zenon DEF Start
<1>13. PICK n :
         n = IF \A k \in Servers : got[k] = None
             THEN [r EXCEPT !.pc = "returned", !.result = "error"]
             ELSE [r EXCEPT !.pc = "collect",
                            !.left = Cardinality({k \in Servers : got[k] # None})]
  BY Zenon
<1>14. fan' = [fan EXCEPT ![f] = n]
  BY <1>1, <1>10, <1>13, Zenon DEF Start, FanBecomes
<1>15. FanSound(b, r, w, d, e, p) /\ q \in SUBSET Servers BY <1>1, FanTypes
<1>16. FanSound(b, n, v, d, e, p)
  <2>1. CASE \A k \in Servers : got[k] = None
    <3>1. n = [r EXCEPT !.pc = "returned", !.result = "error"] BY <1>13, <2>1
    <3>2. r.pc \in {"new", "gather"} BY <1>7
    <3>3. v = [k \in Servers |-> Idle] BY <1>11, <2>1
    <3> QED BY <1>15, <3>1, <3>2, <3>3, EnterSound, Zenon
  <2>2. CASE ~\A k \in Servers : got[k] = None
    <3>1. n = [r EXCEPT !.pc = "collect",
                        !.left = Cardinality({k \in Servers : got[k] # None})]
      BY <1>13, <2>2, Zenon
    <3>2. r.pc = "gather" BY <1>7
    <3> QED BY <1>9, <1>11, <1>15, <3>1, <3>2, StartSound, Zenon
  <2> QED BY <2>1, <2>2
<1>17. \A k \in Servers :
         v[k].pc # "none" =>
           \/ v[k].client # None /\ Home(XOfFan[f], k, v[k].client)'
           \/ worker[f][k].pc # "none" /\ v[k].client = worker[f][k].client
  <2> SUFFICES ASSUME NEW k \in Servers, v[k].pc # "none"
               PROVE  v[k].client # None /\ Home(XOfFan[f], k, v[k].client)'
    OBVIOUS
  <2>1. got[k] # None /\ v[k].client = got[k] BY <1>11 DEF Idle
  <2>2. got[k] = R[k] /\ Home(x, k, R[k])' BY <1>8, <1>9, <2>1
  <2>3. PICK g : g = v[k].client OBVIOUS
  <2>4. PICK h : h = R[k] OBVIOUS
  <2>5. g = h /\ g # None /\ Home(x, k, h)' BY <2>1, <2>2, <2>3, <2>4
  <2>6. Home(XOfFan[f], k, g)' BY <1>2, <2>5
  <2> QED BY <2>3, <2>5, <2>6
<1>18. /\ done' = [done EXCEPT ![f] = d] /\ errs' = [errs EXCEPT ![f] = e]
       /\ reply' = [reply EXCEPT ![f] = p] /\ receipts' = [receipts EXCEPT ![f] = q]
  BY <1>1, <1>7, FanTypes
<1>19. FanSound(Kind(f), n, v, d, e, p) /\ q \in SUBSET Servers BY <1>1, <1>15, <1>16
<1>20. Inv' /\ HomesStay /\ option' = option BY <1>7, <1>8
<1> QED BY <1>12, <1>14, <1>17, <1>18, <1>19, <1>20, FanStep, Zenon

-----------------------------------------------------------------------------
(* The theorems *)

LEMMA FanInitInv == FanInit => FanInv
<1> SUFFICES ASSUME FanInit PROVE FanInv OBVIOUS
<1>1. Inv BY InitInv DEF FanInit
<1>2. \A f \in Fans : /\ fan[f] = FanBegun /\ worker[f] = [k \in Servers |-> Idle]
                      /\ done[f] = <<>> /\ errs[f] = {} /\ reply[f] = NoServer
  BY DEF FanInit
<1>3. AllSound
  BY <1>2, BegunSound DEF AllSound
<1>4. WorkerHomes BY <1>2 DEF WorkerHomes, Idle
<1>5. FanTypeOK
  <2>1. Typed(FanBegun, [k \in Servers |-> Idle], <<>>, {}, NoServer)
    BY BegunSound DEF FanSound
  <2>2. FanBegun \in FanRecord /\ [k \in Servers |-> Idle] \in [Servers -> WorkerRecord]
        /\ <<>> \in Seq(BOOLEAN) /\ Len(<<>>) <= Cardinality(Servers)
    BY <2>1 DEF Typed, Workers
  <2> QED BY <1>1, <1>2, <2>2 DEF FanInit, FanTypeOK, Inv
<1> QED BY <1>1, <1>3, <1>4, <1>5 DEF FanInv

\* Steps of the calls, and none at all.
LEMMA FansStay ==
  ASSUME FanInv, [Next]_vars, UNCHANGED fanVars
  PROVE  FanInv'
<1>1. Inv' /\ HomesStay /\ option' = option BY NextInv, NextHomes DEF FanInv
<1>2. /\ fan' = fan /\ worker' = worker /\ done' = done /\ errs' = errs
      /\ reply' = reply /\ receipts' = receipts
  BY DEF fanVars
<1>3. FanTypeOK' BY <1>1, <1>2 DEF FanInv, FanTypeOK, Inv
<1>4. AllSound' BY <1>1, <1>2 DEF FanInv, AllSound
<1>5. WorkerHomes'
  <2> SUFFICES ASSUME NEW f \in Fans, NEW k \in Servers, NEW m, m = worker[f][k],
                      m.pc # "none"
               PROVE  m.client # None /\ Home(XOfFan[f], k, m.client)'
    BY <1>2 DEF WorkerHomes
  <2>1. m.client # None /\ Home(XOfFan[f], k, m.client) BY DEF FanInv, WorkerHomes
  <2>2. m.client \in Clients BY <2>1 DEF FanInv, FanTypeOK, WorkerRecord
  <2> QED BY <1>1, <2>1, <2>2 DEF HomesStay
<1> QED BY <1>1, <1>3, <1>4, <1>5 DEF FanInv

LEMMA FanNextInv == FanInv /\ [FanNext]_allVars => FanInv'
<1> SUFFICES ASSUME FanInv, [FanNext]_allVars PROVE FanInv' OBVIOUS
<1>1. CASE Next /\ UNCHANGED fanVars BY <1>1, FansStay
<1>2. CASE UNCHANGED allVars BY <1>2, FansStay DEF allVars
<1>3. ASSUME NEW f \in Fans, CallerStep(f) PROVE FanInv'
  BY <1>3, FanEnterKeeps, GatherKeeps, CollectKeeps, TimeoutKeeps, VerdictKeeps DEF CallerStep
<1>4. ASSUME NEW f \in Fans, NEW k \in Servers, WorkerStep(f, k) PROVE FanInv'
  BY <1>4, WorkerCallKeeps, WorkerSignalKeeps, WorkerRemoveKeeps, WorkerAppendKeeps,
     WorkerReplyKeeps, WorkerReceiptKeeps DEF WorkerStep
<1> QED BY <1>1, <1>2, <1>3, <1>4 DEF FanNext

LEMMA FanInvHolds == FanSpec => []FanInv
  BY FanInitInv, FanNextInv, PTL DEF FanSpec

\* The goroutine that owes a verdict is one of those there is room for.
LEMMA RoomImplies == FanInv => VerdictsFit
<1> SUFFICES ASSUME FanInv, NEW f \in Fans, NEW k \in Servers, WorkerAt(f, k, "signal")
             PROVE  Len(done[f]) < Room(f)
  BY DEF VerdictsFit
<1>1. PICK b, r, w, d, e, p :
        /\ b = Kind(f) /\ r = fan[f] /\ w = worker[f] /\ d = done[f] /\ e = errs[f]
        /\ p = reply[f]
  OBVIOUS
<1>2. FanSound(b, r, w, d, e, p) BY <1>1, FanTypes
<1>3. Len(d) + Cardinality(Owing(b, w)) <= Cardinality(Asked(w)) /\ Len(d) \in Nat
  BY <1>2 DEF FanSound, Counts, Typed
<1>4. k \in Owing(b, w) BY <1>1 DEF WorkerAt, Owing
<1>5. Cardinality(Owing(b, w)) # 0 /\ Cardinality(Owing(b, w)) \in Nat
  BY <1>4, OwingFinite, FS_EmptySet
<1>6. Cardinality(Asked(w)) \in Nat BY AskedFinite
<1>7. Len(d) < Cardinality(Asked(w)) BY <1>3, <1>5, <1>6
<1>8. Gathered(f) = Asked(w) BY <1>1 DEF Gathered, Asked
<1> QED BY <1>1, <1>7, <1>8 DEF Room

\* What each fan-out was told is what FanErrorIsOutcome says of all of them.
LEMMA FanInvImplies == FanInv => FanErrorIsOutcome
<1> SUFFICES ASSUME FanInv, NEW f \in Fans, fan[f].pc = "returned", Gathered(f) # {}
             PROVE  LET got == fan[f]
                        bad == {k \in Gathered(f) : worker[f][k].e # "nil"}
                        over == {k \in Gathered(f) : worker[f][k].pc # "call"}
                        nil == got.result = "nil"
                    IN /\ ~nil /\ ~got.timedOut =>
                            bad # {} /\ (Is(f, "fork") => bad = Gathered(f))
                       /\ Is(f, "broadcast") /\ nil /\ got.unrecorded = {} =>
                            over = Gathered(f) /\ bad = {}
                       /\ Is(f, "fork") /\ nil /\ got.unrecorded # Gathered(f) =>
                            got.reply # NoServer /\ worker[f][got.reply].e = "nil"
                       /\ Is(f, "inform") /\ ~got.timedOut =>
                            over = Gathered(f) /\ (nil => bad = got.unrecorded)
  BY DEF FanErrorIsOutcome
<1>1. FanTold(Kind(f), fan[f], worker[f]) BY FanTypes DEF FanSound
<1>2. Gathered(f) = Asked(worker[f]) BY DEF Gathered, Asked
<1>3. \A t : Is(f, t) <=> Kind(f) = t BY DEF Is, Kind
<1> QED BY <1>1, <1>2, <1>3, Zenon DEF FanTold, Bad

\* Every variable keeps its type.
THEOREM FanTypeCorrect == FanSpec => []FanTypeOK
<1>1. FanInv => FanTypeOK BY DEF FanInv
<1> QED BY <1>1, FanInvHolds, PTL

\* No goroutine ever waits to deliver its verdict, although the collector may be gone long
\* before (884, 895, 917).
THEOREM VerdictsAlwaysFit == FanSpec => []VerdictsFit
  BY FanInvHolds, RoomImplies, PTL

\* The error a caller of Broadcast, Fork or Inform gets is the outcome of the requests it
\* sent, whatever the order in which their goroutines end and whoever removes or closes the
\* connections they are using; a nil may still hide the errors not recorded by then
\* (836-1144).
THEOREM FanErrorsAreOutcomes == FanSpec => []FanErrorIsOutcome
  BY FanInvHolds, FanInvImplies, PTL

\* What is proved of calls holds of calls made beside fan-outs, which put connections into
\* the cache and take them from it, count failures and look neither at isShutdown nor at a
\* breaker (398-422, 836-1144).
THEOREM CallsBesideFans ==
  FanSpec => [](/\ ErrorIsOutcome /\ AnswerEndsRetries /\ CacheTracksConnections
                /\ CloseLeavesLateDials /\ OpenBreakerStopsDials)
<1>1. FanInv => /\ ErrorIsOutcome /\ AnswerEndsRetries /\ CacheTracksConnections
                /\ CloseLeavesLateDials /\ OpenBreakerStopsDials
  BY InvImplies DEF FanInv
<1> QED BY <1>1, FanInvHolds, PTL
=============================================================================
