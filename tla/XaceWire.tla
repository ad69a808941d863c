------------------------------- MODULE XaceWire -------------------------------
(***************************************************************************)
(* Messages on one connection, byte by byte: protocol.Message and Header   *)
(* (src/xace/protocol/message.go, header_serialize.go), the pools of       *)
(* messages and of write buffers (protocol/pool.go, util/buffer_pool.go),  *)
(* and the payload the client and the server put in and take out           *)
(* (client/client.go: send, input; server/server.go: serveConn,            *)
(* handleRequest).                                                         *)
(*                                                                         *)
(* Every caller, every handler, the server's reader, its writer and the    *)
(* client's input loop is a goroutine of its own.  An array that outlives  *)
(* its user is a sequence in msgs or bufs: who writes to it overwrites its *)
(* first elements and leaves the rest.                                     *)
(***************************************************************************)
EXTENDS XaceCodec

CONSTANTS
  Jobs,        \* a sequence of what the callers may do: a function of the calls each
  MinBuf, MaxBuf,  \* the pooled buffer sizes (512, 4096)
  MaxKeep,     \* a message with a larger array is not pooled (1024)
  NoRetcode,   \* -90006, for a payload too short to hold a code
  ErrorMeta    \* the pair handleError adds to the metadata

ASSUME BufferAssumption == {MinBuf, MaxBuf, MaxKeep} \subseteq Nat /\ MinBuf > 0

VARIABLES
  job,        \* which of Jobs the calls do
  async,      \* Server.AsyncWrite
  pc,         \* where each caller is
  hold,       \* the buffer a caller encoded into, and how much of it
  seq, seqOf, \* Client.seq and the number each call was given
  sent,       \* history: the calls, in the order their requests were written
  up, down,   \* the bytes in the connection, to the server and to the client
  ended,      \* the sides that stopped reading: "server", "client"
  hand,       \* the requests read so far, each with its handler
  queue,      \* writeCh: buffers that wait for the writer
  outcome,    \* what a caller was given: << >> or one record
  msgs, msgPool,   \* the arrays of pooled messages; those in the pool
  bufs, bufPool    \* the buffers; those in the pools

callerVars == <<pc, hold, seq, seqOf, sent>>
poolVars   == <<msgs, msgPool>>
vars == <<job, async, callerVars, up, down, ended, hand, queue, outcome, poolVars,
          bufs, bufPool>>

Calls == DOMAIN Jobs[job]
Work(c) == Jobs[job][c]

Request == 0
Response == 1
Notify == 2

WireInit ==
  /\ job \in DOMAIN Jobs /\ async \in BOOLEAN
  /\ pc = [c \in Calls |-> "idle"]
  /\ hold = [c \in Calls |-> [buf |-> 0, len |-> 0]]
  /\ seq = 0 /\ seqOf = [c \in Calls |-> 0]
  /\ sent = << >> /\ up = << >> /\ down = << >> /\ ended = {}
  /\ hand = << >> /\ queue = << >>
  /\ outcome = [c \in Calls |-> << >>]
  /\ msgs = << >> /\ msgPool = {}
  /\ bufs = << >> /\ bufPool = {}

-----------------------------------------------------------------------------
(* Header: header_serialize.go *)

\* Mutant: each missing field is left out, not only those at the end.
AnyMissing(h) ==
  5 - (IF h.meta = {} THEN 1 ELSE 0) - (IF h.seq = 0 THEN 1 ELSE 0)
    - (IF h.type = Notify THEN 1 ELSE 0)

\* How many fields are packed: trailing ones that say nothing are left out.
FieldNum(h) == CASE h.meta # {}      -> 5
                 [] h.seq # 0        -> 4
                 [] h.type # Notify  -> 3
                 [] OTHER            -> 2

PackPairs(pairs) ==
  FlattenSeq([i \in DOMAIN pairs |-> PackBytes(pairs[i][1]) \o PackBytes(pairs[i][2])])

PackHeader(h) ==
  LET fields == << <<FT_STRING>> \o PackBytes(h.path),
                   <<FT_STRING>> \o PackBytes(h.method),
                   <<FT_CHAR, h.type>>,
                   <<FT_NUMBER>> \o PackUint(h.seq),
                   <<FT_MAP, FT_STRING, FT_STRING>> \o PackUint(Cardinality(h.meta))
                     \o PackPairs(SetToSeq(h.meta)) >>
  IN <<FieldNum(h)>> \o FlattenSeq(SubSeq(fields, 1, FieldNum(h)))

\* Unpack2String and Unpack2UNumber of the type they are sent with.
UnpackText(d, p) == IF p <= d.n /\ d.b[p] = FT_STRING THEN UnpackBytes(d, p + 1) ELSE Panic
UnpackNumber(d, p) == IF p <= d.n /\ d.b[p] = FT_NUMBER THEN UnpackUint(d, p + 1) ELSE Panic

UnpackPair(d, p) ==
  Then(UnpackBytes(d, p), LAMBDA key :
    Then(UnpackBytes(d, key.pos), LAMBDA val : Got(val.pos, <<key.val, val.val>>)))
UnpackMeta(d, p) ==
  Then(UnpackField(d, p), LAMBDA field :
    IF field.val.base # FT_MAP THEN Panic
    ELSE Then(UnpackUint(d, field.pos), LAMBDA n :
           Then(Steps(LAMBDA i, q : UnpackPair(d, q), n.val, n.pos),
                LAMBDA pairs : Got(pairs.pos, Stored(pairs.val)))))

UnpackType(d, p) == IF p < d.n /\ d.b[p] = FT_CHAR THEN Got(p + 2, d.b[p + 1]) ELSE Panic

HeaderField(d, i, p) == CASE i \in {1, 2} -> UnpackText(d, p)
                          [] i = 3       -> UnpackType(d, p)
                          [] i = 4       -> UnpackNumber(d, p)
                          [] i = 5       -> UnpackMeta(d, p)

\* A field that is not there keeps the value of an empty Header: the type is Request.
UnpackHeader(d) ==
  IF d.b[1] < 1 THEN Panic
  ELSE Then(Steps(LAMBDA i, p : HeaderField(d, i, p), Min({5, d.b[1]}), 2), LAMBDA fields :
         LET Present(i, default) == IF i \in DOMAIN fields.val THEN fields.val[i] ELSE default
         IN Got(fields.pos, [path |-> Present(1, << >>), method |-> Present(2, << >>),
                             type |-> Present(3, Request), seq |-> Present(4, 0),
                             meta |-> Present(5, {})]))

-----------------------------------------------------------------------------
(* Arrays, buffers and messages *)

\* copy(old, new)
Over(new, old) == new \o SubSeq(old, Len(new) + 1, Len(old))

Make(n) == [i \in 1..n |-> 0]

\* The levels of a LimitedPool: doubled sizes from the smallest to the largest.
Levels == {n \in MinBuf..MaxBuf : n = MaxBuf \/ \E i \in 0..(n \div MinBuf) : n = MinBuf * 2^i}

FindPool(size) == Min({n \in Levels : n >= size})
FindPutPool(size) == Max({n \in Levels : n <= size})

\* Get: a buffer of the level's pool, or a new one.
Buffers(size) ==
  {b \in bufPool : size <= MaxBuf /\ FindPutPool(Len(bufs[b])) = FindPool(size)}
    \cup {Len(bufs) + 1}

\* The buffers once these bytes are copied into b.
Filled(b, bytes) ==
  IF b \in DOMAIN bufs THEN [bufs EXCEPT ![b] = Over(bytes, @)]
  ELSE LET size == IF Len(bytes) > MaxBuf THEN Len(bytes) ELSE FindPool(Len(bytes))
       IN Append(bufs, Over(bytes, Make(size)))

\* Put: what the pools get when b is put back.
Back(b, arrays) == IF Len(arrays[b]) \in MinBuf..MaxBuf THEN {b} ELSE {}

Bytes(slot) == SubSeq(bufs[slot.buf], 1, slot.len)

\* EncodeSlicePointer
Frame(h, payload) ==
  LET body == PackHeader(h) \o payload IN PackUint(Len(body)) \o body

\* UnpackLen of the first 8 bytes: how long the message is and where it starts, and how
\* many bytes are read for it.
Prefix(d) == LET Sized(n) == [from |-> n.pos, len |-> Signed(n.val, Word32),
                              total |-> Max({8, n.pos - 1 + Signed(n.val, Word32)})]
             IN Sized(UnpackUint(Data(SubSeq(d, 1, 8)), 1))

\* A message to decode is there: ReadFull of 8 bytes, and of what the length in them lacks.
Arrived(d) == Len(d) >= 8 /\ Len(d) >= Prefix(d).total
After(d) == SubSeq(d, Prefix(d).total + 1, Len(d))

\* Message.Decode into an array.  Those of the first 8 bytes that a shorter message
\* leaves over have to fit into the array, and belong to the next message.
Opened(array, n, head) ==
  [ok |-> head.ok, array |-> array, to |-> n, from |-> head.pos, head |-> head.val]
Placed(d, at, own) ==
  IF at.len <= 0 \/ 9 - at.from > Len(own) THEN Opened(own, at.len, Panic)
  ELSE LET Parsed(array) == Opened(array, at.len, UnpackHeader(Window(array, 1, at.len)))
       IN Parsed(Over(SubSeq(d, at.from, at.total), own))
DecodedAt(d, at, array) == Placed(d, at, IF Len(array) >= at.len THEN array ELSE Make(at.len))
Decoded(d, array) == DecodedAt(d, Prefix(d), array)

-----------------------------------------------------------------------------
(* The caller: send() *)

HeadOf(c) == [path |-> Work(c).path, method |-> Work(c).method, seq |-> seqOf[c],
              type |-> IF Work(c).oneway THEN Notify ELSE Request, meta |-> Work(c).meta]

\* The number is taken and the request encoded.  Encoding panics at some arguments.
Encode(c) ==
  /\ pc[c] = "idle"
  /\ seqOf' = [seqOf EXCEPT ![c] = seq] /\ seq' = seq + 1
  /\ IF ArgsEncodable(Work(c).args)
     THEN LET bytes == Frame([HeadOf(c) EXCEPT !.seq = seq], EncodeArgs(Work(c).args))
          IN \E b \in Buffers(Len(bytes)) :
               /\ bufs' = Filled(b, bytes) /\ bufPool' = bufPool \ {b}
               /\ hold' = [hold EXCEPT ![c] = [buf |-> b, len |-> Len(bytes)]]
               /\ pc' = [pc EXCEPT ![c] = "encoded"]
     ELSE pc' = [pc EXCEPT ![c] = "panicked"] /\ UNCHANGED <<hold, bufs, bufPool>>
  /\ UNCHANGED <<job, async, sent, up, down, ended, hand, queue, outcome, poolVars>>

\* Conn.Write, then PutData.
Write(c) ==
  /\ pc[c] = "encoded"
  /\ up' = up \o Bytes(hold[c])
  /\ bufPool' = bufPool \cup Back(hold[c].buf, bufs)
  /\ sent' = Append(sent, c)
  /\ pc' = [pc EXCEPT ![c] = "written"]
  /\ UNCHANGED <<job, async, hold, seq, seqOf, down, ended, hand, queue, outcome,
                 poolVars, bufs>>

\* A one-way call stays in pending until its caller, done with the write, deletes it.
Forget(c) ==
  /\ pc[c] = "written" /\ Work(c).oneway
  /\ pc' = [pc EXCEPT ![c] = "forgotten"]
  /\ UNCHANGED <<job, async, hold, seq, seqOf, sent, up, down, ended, hand, queue,
                 outcome, poolVars, bufs, bufPool>>

-----------------------------------------------------------------------------
(* The server *)

\* readRequest: a message from the pool, decoded, and its handler started.
Read ==
  /\ "server" \notin ended /\ Arrived(up)
  /\ up' = After(up)
  /\ \E o \in msgPool \cup {Len(msgs) + 1} :
       LET in == Decoded(up, IF o \in msgPool THEN msgs[o] ELSE << >>)
       IN IF in.ok
          THEN /\ msgs' = IF o \in msgPool THEN [msgs EXCEPT ![o] = in.array]
                                            ELSE Append(msgs, in.array)
               /\ msgPool' = msgPool \ {o}
               /\ hand' = Append(hand, [obj |-> o, from |-> in.from, to |-> in.to,
                                        head |-> in.head, at |-> "read",
                                        argv |-> Panic, ran |-> FALSE])
               /\ UNCHANGED ended
          ELSE ended' = ended \cup {"server"} /\ UNCHANGED <<poolVars, hand>>
  /\ UNCHANGED <<job, async, callerVars, down, queue, outcome, bufs, bufPool>>

\* Message.Payload, a slice of the message's array that ends where the array does.
Payload(h) == SubSeq(msgs[h.obj], h.from, h.to)
PayloadSlice(h) == Window(msgs[h.obj], h.from, h.to)

\* The registered method the header names.
Called(h) == {c \in Calls : /\ Work(c).style # "missing"
                            /\ Work(c).path = h.head.path /\ Work(c).method = h.head.method}
Service(h) == Work(CHOOSE c \in Called(h) : TRUE)

At(i, l) == i \in DOMAIN hand /\ hand[i].at = l

\* The arguments are decoded and the service runs, unless there is none or they are wrong.
Run(i) ==
  /\ At(i, "read")
  /\ LET argv == IF Called(hand[i]) = {} THEN Panic
                 ELSE DecodeArgs(Service(hand[i]).recv, PayloadSlice(hand[i]))
     IN hand' = [hand EXCEPT ![i].at = "ran", ![i].argv = argv, ![i].ran = argv.ok]
  /\ UNCHANGED <<job, async, callerVars, up, down, ended, queue, outcome, poolVars,
                 bufs, bufPool>>

Reply(w) == EncodeArgs(<<w.reply>>)

\* handleRequest and handleError: a method that returns a code puts it before its reply,
\* also when it is not 0; one that returns an error puts its reply alone; a failure
\* before the call has no payload.  The clone shares the metadata of the request.
Payloads(h) == CASE ~h.ran                      -> << >>
                 [] Service(h).style = "error"  -> Reply(Service(h))
                 [] OTHER                       -> PackUint(Service(h).ret % Word) \o Reply(Service(h))

Failed(h) == ~h.ran \/ (Service(h).style = "error" /\ Service(h).ret # 0)

AnswerOf(h) ==
  Frame([h.head EXCEPT !.type = Response,
                       !.meta = IF Failed(h) THEN @ \cup {ErrorMeta} ELSE @], Payloads(h))

\* Mutant: PutData as soon as the buffer is in writeCh.
DeliverPut(slot, arrays) ==
  IF async THEN /\ queue' = Append(queue, slot)
                /\ bufPool' = bufPool \cup Back(slot.buf, arrays)
                /\ UNCHANGED down
           ELSE /\ down' = down \o SubSeq(arrays[slot.buf], 1, slot.len)
                /\ bufPool' = bufPool \cup Back(slot.buf, arrays)
                /\ UNCHANGED queue

\* sendResponse: the buffer goes into writeCh, or is written and put back.
Deliver(slot, arrays) ==
  IF async THEN /\ queue' = Append(queue, slot)
                /\ bufPool' = bufPool \ {slot.buf}
                /\ UNCHANGED down
           ELSE /\ down' = down \o SubSeq(arrays[slot.buf], 1, slot.len)
                /\ bufPool' = bufPool \cup Back(slot.buf, arrays)
                /\ UNCHANGED queue

\* The reply is encoded and sent.  Encoding it may panic, which ends the handler.
Respond(i) ==
  /\ At(i, "ran") /\ hand[i].head.type # Notify
  /\ IF hand[i].ran /\ ~ArgsEncodable(<<Service(hand[i]).reply>>)
     THEN hand' = [hand EXCEPT ![i].at = "panicked"]
          /\ UNCHANGED <<bufs, bufPool, queue, down>>
     ELSE LET bytes == AnswerOf(hand[i])
          IN \E b \in Buffers(Len(bytes)) :
               /\ hand' = [hand EXCEPT ![i].at = "sent"]
               /\ bufs' = Filled(b, bytes)
               /\ Deliver([buf |-> b, len |-> Len(bytes)], Filled(b, bytes))
  /\ UNCHANGED <<job, async, callerVars, up, ended, outcome, poolVars>>

\* FreeMsg: what a one-way request has instead of a response, and what follows one.
Free(i) ==
  /\ At(i, "sent") \/ (At(i, "ran") /\ hand[i].head.type = Notify)
  /\ hand' = [hand EXCEPT ![i].at = "freed"]
  /\ msgPool' = IF Len(msgs[hand[i].obj]) < MaxKeep THEN msgPool \cup {hand[i].obj}
                                                    ELSE msgPool
  /\ UNCHANGED <<job, async, callerVars, up, down, ended, queue, outcome, msgs, bufs,
                 bufPool>>

\* serveAsyncWrite
WriteQueued ==
  /\ queue # << >>
  /\ down' = down \o Bytes(Head(queue))
  /\ bufPool' = bufPool \cup Back(Head(queue).buf, bufs)
  /\ queue' = Tail(queue)
  /\ UNCHANGED <<job, async, callerVars, up, ended, hand, outcome, poolVars, bufs>>

-----------------------------------------------------------------------------
(* The client's input loop *)

Awaiting(number) == {c \in Calls : pc[c] = "written" /\ outcome[c] = << >> /\ seqOf[c] = number}

\* UnpackRetCode, then the payload into the caller's list of one pointer, which a one-way
\* call does not have.  The status of the message is not sent, so that every response
\* takes the way of a success.
Given(ret, reply) == [ret |-> ret, ok |-> reply.ok, val |-> reply.val]
Unread == Got(0, << >>)
Reception(w, bytes) == IF w.oneway THEN Panic ELSE DecodeList(<<w.target>>, Data(bytes))
Coded(w, payload, code) ==
  IF code.pos > Len(payload) \/ Signed(code.val, Word32) = NoRetcode
  THEN Given(Signed(code.val, Word32), Unread)
  ELSE Given(Signed(code.val, Word32),
             Reception(w, SubSeq(payload, code.pos, Len(payload))))
Taken(w, payload) == IF Len(payload) < 4 THEN Given(NoRetcode, Unread)
                     ELSE Coded(w, payload, UnpackUint(Data(payload), 1))

\* A response that cannot be decoded, or whose payload cannot, ends the loop.
Input ==
  /\ "client" \notin ended /\ Arrived(down)
  /\ down' = After(down)
  /\ LET in == Decoded(down, << >>)
         owner == IF in.ok THEN Awaiting(in.head.seq) ELSE {}
         given == [c \in owner |-> Taken(Work(c), SubSeq(in.array, in.from, in.to))]
     IN /\ outcome' = [c \in Calls |-> IF c \in owner THEN <<given[c]>> ELSE outcome[c]]
        /\ ended' = IF in.ok /\ \A c \in owner : given[c].ok THEN ended
                    ELSE ended \cup {"client"}
  /\ UNCHANGED <<job, async, callerVars, up, hand, queue, poolVars, bufs, bufPool>>

-----------------------------------------------------------------------------
Next ==
  \/ \E c \in Calls : Encode(c) \/ Write(c) \/ Forget(c)
  \/ Read
  \/ \E i \in DOMAIN hand : Run(i) \/ Respond(i) \/ Free(i)
  \/ WriteQueued
  \/ Input

WireSpec == WireInit /\ [][Next]_vars

-----------------------------------------------------------------------------
(* Requests are read in the order they were written, each with the header it was sent  *)
(* with, and its payload is not overwritten while its handler is at work, whichever     *)
(* pooled message and buffer carried it (message.go 264-351, pool.go 19-24, server.go   *)
(* 641-657, 582).  The one exception is the one-way call numbered 0 without metadata:   *)
(* its call type is among the trailing fields left out and is read as Request           *)
(* (header_serialize.go 16-34, 87-89).  The reader never ends, and a caller panics only *)
(* at arguments that cannot be encoded.                                                 *)
Delivered(h) == IF FieldNum(h) = 2 THEN [h EXCEPT !.type = Request] ELSE h

MessagesArrive ==
  /\ \A i \in DOMAIN hand :
       /\ hand[i].head = Delivered(HeadOf(sent[i]))
       /\ hand[i].at # "freed" => Payload(hand[i]) = EncodeArgs(Work(sent[i]).args)
  /\ "server" \notin ended

(* A service receives the arguments the caller passed, converted to the types of its    *)
(* own fields: nothing before a value the decoder cannot read past is read from the     *)
(* wrong place, numbers keep their low bits, text that is no number becomes 0           *)
(* (encode.go 173-271, decode.go 205-422, server.go 697-708).  Such values are named in *)
(* Skews; those of a kind the encoder has no case for are among them, and what comes    *)
(* after is then read in their place.                                                   *)
ArgsConverted ==
  \A i \in DOMAIN hand : hand[i].at # "read" /\ Called(hand[i]) # {}
    => Agrees(hand[i].argv, Work(sent[i]).args, Work(sent[i]).recv)

(* A two-way caller is given the return code and the reply of its own call's service,   *)
(* and the code for a missing one if the service was not reached or not run, although   *)
(* responses share pooled buffers and leave in any order (server.go 326-343, 589-605,   *)
(* 762-773; client.go 637-712; message.go 353-363).  A reply of a kind that is not      *)
(* written leaves the payload too short for the code in front of it to be read.         *)
(* Methods that return an error are outside: the client takes the first number of their *)
(* reply for a code (server.go 753, 769).                                               *)
RepliesArrive ==
  \A c \in Calls : outcome[c] # << >> /\ ~Work(c).oneway /\ Work(c).style # "error" =>
    LET given == outcome[c][1]
        ran   == \E i \in DOMAIN hand : sent[i] = c /\ hand[i].ran
        lost  == Uncoded(Work(c).reply.t) /\ Len(EncodeArgs(<<Work(c).reply>>)) < 4
    IN IF ran THEN /\ given.ret = Work(c).ret \/ (lost /\ given.ret = NoRetcode)
                   /\ Agrees(given, <<Work(c).reply>>, <<Work(c).target>>)
       ELSE given.ret = NoRetcode /\ given.ok
=============================================================================
