--------------------------- MODULE MCXaceOneClient ---------------------------
(* Instances of XaceDirectory and XaceOneClient for TLC. *)
EXTENDS XaceOneClient

CONSTANTS one1, one2, one3, path1, path2, disc1, disc2, srv1, srv2, srv3

Server(status, empty, weight, distance) ==
  [status |-> status, empty |-> empty, inactive |-> FALSE, group |-> NoGroup,
   weight |-> weight, rtt |-> 10 * weight + 150, distance |-> distance]

Some(S) == [k \in S |-> Server(2, FALSE, IF k = srv1 THEN 3 ELSE 1,
                               IF k = srv3 THEN -1 ELSE 5)]
Bare == [k \in {srv1} |-> Server(2, TRUE, 1, 5)]
Grouped == [k \in {srv1, srv2, srv3} |->
              [Server(IF k = srv1 THEN 1 ELSE 2, FALSE, 1, 5) EXCEPT
                 !.group = IF k = srv3 THEN "b" ELSE "a", !.inactive = k = srv1]]

Lists1 == {Some({}), Some({srv1}), Some({srv2}), Some({srv1, srv2}), Some({srv1, srv2, srv3}), Bare,
           Grouped}

Idle == [what |-> "none", path |-> path1, setting |-> "auth", value |-> 1]
Get(x) == [Idle EXCEPT !.what = "get", !.path = x]
Set(setting, v) == [Idle EXCEPT !.what = "set", !.setting = setting, !.value = v]
Geo == [Idle EXCEPT !.what = "geo"]
Selector == [Idle EXCEPT !.what = "selector"]
Close == [Idle EXCEPT !.what = "close"]

Pair(p, q) == [x \in XClients |-> IF x = path1 THEN p ELSE q]
PairOf(p, q) == [d \in Discoveries |-> IF d = disc1 THEN p ELSE q]

Base ==
  [of |-> Pair(disc1, disc2), kind |-> PairOf("static", "static"),
   answer |-> PairOf(Some({srv1}), Some({srv1})), changing |-> PairOf({}, {}),
   mode |-> Pair("random", "random"), group |-> NoGroup, centre |-> NoOne,
   direct |-> {}, closed |-> {}, swapped |-> {}, picks |-> FALSE, work |-> "none"]

\* The centre's own xClient, and another that watches the same discovery.
Centre == [Base EXCEPT !.of = Pair(disc1, disc1), !.kind = PairOf("ace", "static"),
                       !.centre = path1, !.changing = PairOf({Grouped}, {}),
                       !.direct = {path1, path2}]

\* The centre forgets itself.
Lonely == [Centre EXCEPT !.changing = PairOf({Some({}), Some({srv2})}, {}), !.direct = {path1}]

\* Two xClients that watch one discovery.
Watched(m, n, group, lists) ==
  [Base EXCEPT !.of = Pair(disc1, disc1), !.kind = PairOf("other", "static"),
               !.changing = PairOf(lists, {}), !.mode = Pair(m, n), !.group = group,
               !.direct = {path1, path2}]

\* One xClient that selects, while its unchanged list comes again and again.
Selecting(m) ==
  [Base EXCEPT !.kind = PairOf("other", "static"), !.mode = Pair(m, m),
               !.answer = PairOf(Some({srv1, srv2, srv3}), Some({})),
               !.direct = {path1}, !.picks = TRUE]

\* The OneClient.
Calling(work) == [Base EXCEPT !.work = work]

Swapping == [Watched("user", "random", "a", {Grouped, Some({srv1})}) EXCEPT
               !.swapped = {path1}, !.direct = {path1}]

Cases ==
  <<Centre, Lonely,
   [Watched("hash", "random", NoGroup, {Some({srv1, srv2})}) EXCEPT !.closed = {path2}],
   [Watched("hash", "random", NoGroup, {Bare, Some({srv2})}) EXCEPT
       !.of = Pair(disc1, disc2)],
   Swapping, [Swapping EXCEPT !.mode = Pair("roundrobin", "random"), !.group = NoGroup],
   Selecting("roundrobin"), Selecting("weighted"), Selecting("icmp"),
   [Selecting("closest") EXCEPT !.swapped = {path1}],
   Calling("gets"), [Calling("sets") EXCEPT !.mode = Pair("user", "user")],
   Calling("selects"), Calling("closes"),
   [Calling("selects") EXCEPT !.kind = PairOf("other", "static"),
                              !.changing = PairOf({Some({srv2})}, {})],
   [Calling("locates") EXCEPT !.kind = PairOf("other", "static"),
                              !.changing = PairOf({Some({srv2})}, {})],
   [Calling("gets") EXCEPT !.mode = Pair("closest", "closest")]>>

Options1 == Range(Cases)

Triple(p, q, r) ==
  [a \in OneOps |-> CASE a = one1 -> p [] a = one2 -> q [] a = one3 -> r]

Work1 == [o \in OptionSet |->
  CASE o.work = "gets" -> Triple(Get(path1), Get(path1), Set("auth", 1))
    [] o.work = "sets" -> Triple(Get(path1), Set("plugins", 1), Set("plugins", 2))
    [] o.work = "selects" -> Triple(Get(path1), Selector, Get(path1))
    [] o.work = "locates" -> Triple(Get(path1), Geo, Selector)
    [] o.work = "closes" -> Triple(Get(path1), Get(path2), Close)
    [] OTHER -> Triple(Idle, Idle, Idle)]
=============================================================================
