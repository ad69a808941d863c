---------------------------- MODULE MCXaceServer ----------------------------
(* Instances of XaceServer for TLC. *)
EXTENDS XaceServer

CONSTANTS conn1, conn2, call1, call2, notify1, beat1, handler1

\* beat1 arrives on conn2 when there is one, all others on conn1.
Arrival == [r \in Requests |-> IF r = beat1 /\ conn2 \in Conns THEN conn2 ELSE conn1]

RequestKinds ==
  [r \in Requests |-> CASE r \in {call1, call2} -> "call"
                        [] r = notify1          -> "oneway"
                        [] r = beat1            -> "heartbeat"
                        [] r = handler1         -> "handler"]

\* Responses are written by the goroutine that has them, or go through writeCh.
Written(async) ==
  {[async |-> async, pool |-> FALSE, tcp |-> TRUE, close |-> FALSE, shutdown |-> TRUE,
    guard |-> TRUE]}

SyncOptions  == Written(FALSE)
AsyncOptions == Written(TRUE)

\* Both, without a read side to close: responses written at once, with Close, a pool and
\* Shutdown; responses through writeCh, with Shutdown and with Close.
LiveOptions ==
  {[async |-> FALSE, pool |-> TRUE, tcp |-> FALSE, close |-> TRUE, shutdown |-> TRUE,
    guard |-> TRUE],
   [async |-> TRUE, pool |-> FALSE, tcp |-> FALSE, close |-> FALSE, shutdown |-> TRUE,
    guard |-> TRUE],
   [async |-> TRUE, pool |-> FALSE, tcp |-> FALSE, close |-> TRUE, shutdown |-> FALSE,
    guard |-> TRUE]}
=============================================================================
