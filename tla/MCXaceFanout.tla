---------------------------- MODULE MCXaceFanout ----------------------------
(* Instances of XaceXClient and XaceFanout for TLC. *)
EXTENDS XaceFanout

CONSTANTS call1, call2, call3, fan1, client1, client2, srv1, srv2

\* call3 is made on an xClient of its own.
XClientOf == [a \in Ops |-> IF a = call3 THEN client2 ELSE client1]
XClientOfFan == [f \in Fans |-> client1]

Made3(p, q, r) ==
  [a \in Ops |-> CASE a = call1 -> p [] a = call2 -> q [] a = call3 -> r]

Case(mode, kinds, set, servers) ==
  [failMode |-> mode, kind |-> kinds, servers |-> servers, shared |-> "shared" \in set,
   breaker |-> "breaker" \in set,
   closed |-> (IF "close" \in set THEN {client1} ELSE {}) \cup
              (IF "shared" \in set THEN {client2} ELSE {})]

Nobody == Made3("none", "none", "none")

\* The failMode says what is made on the xClient: it plays no part in a fan-out.
Broadcasting == Case("failover", Nobody, {"close"}, {srv1, srv2})
Forking == Case("failtry", Nobody, {"close"}, {srv1, srv2})
Informing == Case("failbackup", Nobody, {"close"}, {srv1, srv2})
ForkingBesideCall == Case("failfast", Made3("call", "none", "none"), {"breaker"}, {srv1})

\* Every fail mode, alone or with a second call that disturbs it.
Calling ==
  {Case("failtry", Made3("call", "raw", "none"), {"breaker", "close"}, {srv1}),
   Case("failover", Made3("raw", "none", "none"), {"breaker", "close"}, {srv1, srv2}),
   Case("failbackup", Made3("call", "none", "none"), {"close"}, {srv1, srv2}),
   Case("failbackup", Made3("raw", "none", "none"), {"close"}, {srv1}),
   Case("failfast", Made3("call", "go", "none"), {"breaker", "close"}, {srv1}),
   Case("failfast", Made3("raw", "none", "none"), {"breaker", "close"}, {srv1}),
   Case("failfast", Made3("call", "none", "call"), {"shared"}, {srv1}),
   Case("failover", Made3("call", "none", "none"), {"close"}, {})}

EveryCase == Calling \cup {Broadcasting, Forking, Informing, ForkingBesideCall}
OnlyBroadcast == {Broadcasting}

FanKinds1 == [o \in OptionSet |-> [f \in Fans |->
  CASE o = Broadcasting -> "broadcast"
    [] o \in {Forking, ForkingBesideCall} -> "fork"
    [] o = Informing -> "inform"
    [] OTHER -> "none"]]
=============================================================================
