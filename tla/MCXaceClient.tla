---------------------------- MODULE MCXaceClient ----------------------------
(* Instances of XaceClient for TLC. *)
EXTENDS XaceClient

CONSTANTS call1, call2, go1, notify1, beat1, beat2, raw1, rawOneway1

\* How each of the calls above is issued.
CallKinds ==
  [c \in Calls |-> CASE c \in {call1, call2} -> "call"
                     [] c = go1              -> "go"
                     [] c = notify1          -> "notify"
                     [] c \in {beat1, beat2} -> "heartbeat"
                     [] c = raw1             -> "raw"
                     [] c = rawOneway1       -> "rawOneway"]

\* SendRaw with the numbers the client hands out itself.
ClashingSeq == [c \in Calls |-> IF c = raw1 THEN 1 ELSE 0]

\* SendRaw with numbers the client does not reach in these instances.
ApartSeq == [c \in Calls |-> IF c = raw1 THEN 7 ELSE 8]
\* Nobody listens to ServerMessageChan; with and without the configured codec.
QuietOptions ==
  [codecKnown : BOOLEAN, bidirectionalBlock : {FALSE}, listens : {FALSE}]

\* The application listens; the input loop waits for it or drops messages.
ListenOptions ==
  [codecKnown : {TRUE}, bidirectionalBlock : BOOLEAN, listens : {TRUE}]
=============================================================================
