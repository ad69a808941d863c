---------------------------- MODULE XaceDirectory ----------------------------
(***************************************************************************)
(* How an xClient of xace learns of its servers and chooses among them:    *)
(* AceDiscovery (src/xace/client/ace_discovery.go), which asks the naming  *)
(* centre again and again through an xClient of the centre's own           *)
(* (acecenterclient.go), the list of servers each xClient keeps            *)
(* (xclient.go), and the selectors (selector.go).                          *)
(*                                                                         *)
(* Each list is delivered to each watcher by a goroutine of its own, into  *)
(* a channel that the xClient's watch loop empties and Close closes.       *)
(***************************************************************************)
EXTENDS Integers, FiniteSets, SequencesExt

CONSTANTS
  XClients, Discoveries, Servers,
  NoOne,       \* not an xClient: there is no client of the naming centre
  Groups,      \* of servers
  NoGroup,     \* "": of a server without one, and of an xClient that takes any
  Lists,       \* lists of servers with their metadata
  OptionSet,   \* the configurations considered
  Seed,        \* the centre's own address, as InitializeAceCenter dialled it
  Capacity,    \* of a watcher's channel (10 in the code)
  MaxFlights,  \* bound: deliveries under way to one watcher (at most 7: one in 10 s,
               \* dropped after a minute)
  MaxChanges,  \* bound: changes of what the centre answers
  MaxFaults,   \* bound: calls to the centre that fail
  MaxPicks     \* bound: selections between two updates that are counted

Metadata ==
  [status : Int, empty : BOOLEAN, inactive : BOOLEAN, group : Groups,
   weight : Nat, rtt : Nat, distance : Int]  \* distance < 0: no location

Modes == {"random", "roundrobin", "weighted", "icmp", "hash", "closest", "user"}

ASSUME ListsAssumption ==
  /\ IsFiniteSet(Servers)
  /\ \A l \in Lists : DOMAIN l \subseteq Servers /\ l \in [DOMAIN l -> Metadata]
ASSUME BoundsAssumption ==
  /\ Capacity \in Nat \ {0} /\ MaxFlights \in Nat \ {0}
  /\ MaxChanges \in Nat /\ MaxFaults \in Nat /\ MaxPicks \in Nat
ASSUME DirectoryAssumption ==
  /\ NoOne \notin XClients /\ Seed \in Servers /\ NoGroup \in Groups
  /\ \A o \in OptionSet :
       /\ o.of \in [XClients -> Discoveries]
       /\ o.kind \in [Discoveries -> {"ace", "static", "other"}]
       /\ o.answer \in [Discoveries -> Lists]   \* what a lookup finds at first
       /\ o.changing \in [Discoveries -> SUBSET Lists]   \* and later
       /\ o.mode \in [XClients -> Modes] /\ o.group \in Groups
       /\ o.centre \in XClients \cup {NoOne}
       /\ o.direct \subseteq XClients           \* made by the application itself
       /\ o.closed \subseteq XClients           \* those it closes
       /\ o.swapped \subseteq XClients          \* those it gives another selector
       /\ o.picks \in BOOLEAN

VARIABLES
  option,    \* the configuration
  answer,    \* what a lookup would find now
  changes, faults,
  centre,    \* how far InitializeAceCenter is: "none", "announced", "seeded"
  disc,      \* each discovery: its pairs, and where its lookup is
  chans,     \* the watchers of each
  flight,    \* lists under way to each xClient, oldest first
  ch,        \* its channel
  closing,   \* its Close: "no", "marked", "removed", "closed"
  xc,        \* its construction and watch loop
  servers,   \* xClient.servers
  sel,       \* xClient.selector
  pending,   \* the selector SetSelector or ConfigGeoSelector is about to set
  overtaken, \* history: xClients whose list changed meanwhile
  picks      \* history: how often each server was selected since the last update

centreVars == <<answer, changes, faults, centre>>
wireVars == <<chans, flight, ch, closing>>
selVars == <<sel, pending, overtaken, picks>>
dirVars == <<option, centreVars, disc, wireVars, xc, servers, selVars>>

\* The value of a pair of AceDiscovery is the status and nothing else.
Plain(status) == [status |-> status, empty |-> FALSE, inactive |-> FALSE, group |-> NoGroup,
                  weight |-> 1, rtt |-> 0, distance |-> -1]

EmptyList == [k \in {} |-> Plain(2)]
Unpicked == [k \in Servers |-> 0]

-----------------------------------------------------------------------------
(* Selectors: selector.go, smooth_weighted_round_robin.go, ping_utils.go *)

\* order is the order a range over the map happened to have.
NoSelector == [mode |-> "none", list |-> EmptyList, order |-> <<>>, i |-> 0,
               current |-> Unpicked, hash |-> {}]

\* createGeoServer leaves out the servers without a location.
Listed(mode, list) ==
  {k \in DOMAIN list : mode = "closest" => list[k].distance >= 0}

Orders(mode, list) ==
  IF mode \in {"roundrobin", "weighted", "icmp"} THEN SetToSeqs(DOMAIN list)
  ELSE {SetToSeq(Listed(mode, list))}

NewSelector(mode, list, order) ==
  [NoSelector EXCEPT !.mode = mode, !.list = list, !.order = order, !.hash = DOMAIN list]

\* Mutant: the servers that are gone stay in the hash.
HashedKeepsGone(s, list) == s.hash \cup DOMAIN list

\* The consistent hash after UpdateServer (269-284): a server that was there before and has
\* no metadata now is removed with those that are gone.
Hashed(s, list) ==
  (s.hash \cup DOMAIN list)
    \ {k \in DOMAIN s.list : k \notin DOMAIN list \/ list[k].empty}

\* UpdateServer: weights start anew, the round-robin index is kept.
Updated(s, list, order) ==
  IF s.mode = "none" THEN s
  ELSE [s EXCEPT !.list = list, !.order = order, !.current = Unpicked,
                 !.hash = Hashed(s, list)]

CalculateWeight(rtt) ==
  CASE rtt \in 0 .. 10 -> 191
    [] rtt \in 11 .. 200 -> 201 - rtt
    [] rtt \in 201 .. 999 -> 1
    [] OTHER -> 0

Weight(s, k) ==
  IF s.mode = "icmp" THEN CalculateWeight(s.list[k].rtt) ELSE s.list[k].weight

Total(s) == SumFunction([k \in DOMAIN s.list |-> Weight(s, k)])

\* The first of the order whose weight, increased, is greatest.
Best(s) ==
  LET raised(n) == s.current[s.order[n]] + Weight(s, s.order[n])
  IN CHOOSE n \in DOMAIN s.order :
       \A m \in DOMAIN s.order : /\ raised(m) <= raised(n)
                                 /\ raised(m) = raised(n) => n <= m

\* Mutant: the chosen server pays its own weight back.
PaysItself(s, k) == Weight(s, k)

\* What the chosen server pays.
Pays(s, k) == Total(s)

\* nextWeighted
Weighted(s) ==
  LET k == s.order[Best(s)]
  IN [server |-> k,
      next |-> [s EXCEPT !.current = [l \in Servers |->
                  IF l \in DOMAIN s.list
                  THEN @[l] + Weight(s, l) - (IF l = k THEN Pays(s, k) ELSE 0)
                  ELSE 0]]]

Candidates(s) == IF s.mode = "hash" THEN s.hash ELSE Range(s.order)

Nearest(s) ==
  {k \in Candidates(s) : \A l \in Candidates(s) : s.list[k].distance <= s.list[l].distance}

\* Select: the servers it may return, with the selector afterwards.  A random number, the
\* hash of a call and a selector of the application may each return any of theirs.
Selections(s) ==
  IF Candidates(s) = {} THEN {}
  ELSE CASE s.mode \in {"weighted", "icmp"} -> {Weighted(s)}
         [] s.mode = "roundrobin" ->
              LET i == s.i % Len(s.order)
              IN {[server |-> s.order[i + 1], next |-> [s EXCEPT !.i = i + 1]]}
         [] s.mode = "closest" -> {[server |-> k, next |-> s] : k \in Nearest(s)}
         [] OTHER -> {[server |-> k, next |-> s] : k \in Candidates(s)}

-----------------------------------------------------------------------------
(* The naming centre and AceDiscovery *)

DirInit ==
  /\ option \in OptionSet
  /\ answer = option.answer
  /\ changes = 0 /\ faults = 0 /\ centre = "none"
  /\ disc = [d \in Discoveries |-> [pc |-> "none", found |-> EmptyList,
               pairs |-> IF option.kind[d] = "static" THEN option.answer[d] ELSE EmptyList]]
  /\ chans = [d \in Discoveries |-> {}]
  /\ flight = [x \in XClients |-> <<>>]
  /\ ch = [x \in XClients |-> <<>>]
  /\ closing = [x \in XClients |-> "no"]
  /\ xc = [x \in XClients |-> "none"]
  /\ servers = [x \in XClients |-> EmptyList]
  /\ sel = [x \in XClients |-> NoSelector]
  /\ pending = [x \in XClients |-> NoSelector]
  /\ overtaken = {}
  /\ picks = [x \in XClients |-> Unpicked]

\* Servers are registered with the centre and leave it.
Change(d) ==
  /\ changes < MaxChanges
  /\ \E l \in option.changing[d] \ {answer[d]} : answer' = [answer EXCEPT ![d] = l]
  /\ changes' = changes + 1
  /\ UNCHANGED <<option, faults, centre, disc, wireVars, xc, servers, selVars>>

\* AceDiscoveryFilter
Active(list) ==
  [k \in {k \in DOMAIN list : list[k].status = 2} |-> Plain(2)]

Found(d) ==
  IF option.kind[d] # "ace" THEN answer[d]
  ELSE IF centre = "none" THEN EmptyList  \* getProxyInfos: no xclient, no error
  ELSE Active(answer[d])

\* The centre's own xClient has no server left to call: every lookup fails from now on.
Stranded == option.centre # NoOne /\ centre # "none" /\ Candidates(sel[option.centre]) = {}

\* lookup: the answer has come; nobody else asks meanwhile.
Ask(d) ==
  /\ option.kind[d] # "static" /\ disc[d].pc \in {"none", "idle"}
  /\ option.kind[d] = "ace" => ~Stranded
  /\ disc' = [disc EXCEPT ![d].pc = "asked", ![d].found = Found(d)]
  /\ UNCHANGED <<option, centreVars, wireVars, xc, servers, selVars>>

\* The call failed: the pairs stay as they are.
AskFail(d) ==
  /\ option.kind[d] = "ace" /\ disc[d].pc \in {"none", "idle"} /\ centre # "none"
  /\ Stranded \/ faults < MaxFaults
  /\ disc' = [disc EXCEPT ![d].pc = "idle"]
  /\ faults' = IF Stranded THEN faults ELSE faults + 1
  /\ UNCHANGED <<option, answer, changes, centre, wireVars, xc, servers, selVars>>

\* Mutant: a list that is the same as before is not delivered.
StoreChange(d) ==
  /\ disc[d].pc = "asked"
  /\ disc' = [disc EXCEPT ![d].pc = IF @ = "asked" /\ disc[d].pairs = disc[d].found
                                   THEN "idle" ELSE "stored",
                         ![d].pairs = disc[d].found]
  /\ UNCHANGED <<option, centreVars, wireVars, xc, servers, selVars>>

\* d.pairs = pairs
Store(d) ==
  /\ disc[d].pc = "asked"
  /\ disc' = [disc EXCEPT ![d].pc = "stored", ![d].pairs = disc[d].found]
  /\ UNCHANGED <<option, centreVars, wireVars, xc, servers, selVars>>

\* A goroutine for each watcher (113-127).
Tell(d) ==
  /\ disc[d].pc = "stored" /\ \A x \in chans[d] : Len(flight[x]) < MaxFlights
  /\ disc' = [disc EXCEPT ![d].pc = "idle"]
  /\ flight' = [x \in XClients |->
                  IF x \in chans[d] THEN Append(flight[x], disc[d].found) ELSE flight[x]]
  /\ UNCHANGED <<option, centreVars, chans, ch, closing, xc, servers, selVars>>

\* Any of the goroutines is next.  On a closed channel it panics and recovers; on a full
\* one its minute may pass.
Deliver(x) ==
  /\ \E n \in DOMAIN flight[x] :
       /\ flight' = [flight EXCEPT ![x] = RemoveAt(@, n)]
       /\ \/ closing[x] = "closed" /\ ch' = ch
          \/ closing[x] # "closed" /\ Len(ch[x]) = Capacity /\ ch' = ch
          \/ /\ closing[x] # "closed" /\ Len(ch[x]) < Capacity
             /\ ch' = [ch EXCEPT ![x] = Append(@, flight[x][n])]
  /\ UNCHANGED <<option, centreVars, disc, chans, closing, xc, servers, selVars>>

-----------------------------------------------------------------------------
(* An xClient: NewXClient, watch, Close *)

\* filterByStateAndGroup
Filter(list) ==
  [k \in {k \in DOMAIN list : /\ ~list[k].inactive
                              /\ option.group # NoGroup => list[k].group = option.group}
     |-> list[k]]

\* The discovery has been made and looked up once.
Ready(d) == option.kind[d] = "static" \/ disc[d].pc = "idle"

\* GetServices, and the selector; Closest and SelectByUser wait for the application's.
ListAs(x, mode) ==
  /\ xc[x] = "none" /\ Ready(option.of[x])
  /\ LET list == Filter(disc[option.of[x]].pairs) IN
     /\ servers' = [servers EXCEPT ![x] = list]
     /\ IF mode \in {"closest", "user"} THEN sel' = sel
        ELSE \E order \in Orders(mode, list) :
               sel' = [sel EXCEPT ![x] = NewSelector(mode, list, order)]
  /\ xc' = [xc EXCEPT ![x] = "listed"]
  /\ UNCHANGED <<option, centreVars, disc, wireVars, pending, overtaken, picks>>

GetServices(x) == ListAs(x, option.mode[x])

\* Only now is it told of changes.
WatchService(x) ==
  /\ xc[x] = "listed"
  /\ LET d == option.of[x] IN
     IF option.kind[d] = "static"
     THEN xc' = [xc EXCEPT ![x] = "unwatched"] /\ UNCHANGED chans
     ELSE /\ xc' = [xc EXCEPT ![x] = "watching"]
          /\ chans' = [chans EXCEPT ![d] = @ \cup {x}]
  /\ UNCHANGED <<option, centreVars, disc, flight, ch, closing, servers, selVars>>

\* The list and its selector are replaced together, under xClient.mu.
Replace(x, list) ==
  /\ servers' = [servers EXCEPT ![x] = list]
  /\ \E order \in Orders(sel[x].mode, list) :
       sel' = [sel EXCEPT ![x] = Updated(@, list, order)]
  /\ overtaken' = IF pending[x] = NoSelector THEN overtaken \ {x} ELSE overtaken \cup {x}
  /\ picks' = [picks EXCEPT ![x] = Unpicked]
  /\ UNCHANGED pending

\* watch
Receive(x) ==
  /\ xc[x] = "watching" /\ ch[x] # <<>>
  /\ Replace(x, Filter(Head(ch[x])))
  /\ ch' = [ch EXCEPT ![x] = Tail(@)]
  /\ UNCHANGED <<option, centreVars, disc, chans, flight, closing, xc>>

WatchEnd(x) ==
  /\ xc[x] = "watching" /\ ch[x] = <<>> /\ closing[x] = "closed"
  /\ xc' = [xc EXCEPT ![x] = "ended"]
  /\ UNCHANGED <<option, centreVars, disc, wireVars, servers, selVars>>

Made(x) == xc[x] \in {"watching", "unwatched"}

MarkClosed(x) ==
  /\ Made(x) /\ closing[x] = "no"
  /\ closing' = [closing EXCEPT ![x] = "marked"]
  /\ UNCHANGED <<option, centreVars, disc, chans, flight, ch, xc, servers, selVars>>

RemoveWatcher(x) ==
  /\ closing[x] = "marked"
  /\ closing' = [closing EXCEPT ![x] = "removed"]
  /\ chans' = [chans EXCEPT ![option.of[x]] = @ \ {x}]
  /\ UNCHANGED <<option, centreVars, disc, flight, ch, xc, servers, selVars>>

\* Without a channel this panics and recovers.
CloseChannel(x) ==
  /\ closing[x] = "removed"
  /\ closing' = [closing EXCEPT ![x] = "closed"]
  /\ UNCHANGED <<option, centreVars, disc, chans, flight, ch, xc, servers, selVars>>

\* SetSelector and ConfigGeoSelector make a selector from the servers ...
Prepare(x, mode) ==
  /\ Made(x) /\ pending[x] = NoSelector
  /\ \E order \in Orders(mode, servers[x]) :
       pending' = [pending EXCEPT ![x] = NewSelector(mode, servers[x], order)]
  /\ UNCHANGED <<option, centreVars, disc, wireVars, xc, servers, sel, overtaken, picks>>

\* ... and set it without the lock.
Install(x) ==
  /\ pending[x] # NoSelector
  /\ sel' = [sel EXCEPT ![x] = pending[x]]
  /\ pending' = [pending EXCEPT ![x] = NoSelector]
  /\ picks' = [picks EXCEPT ![x] = Unpicked]
  /\ UNCHANGED <<option, centreVars, disc, wireVars, xc, servers, overtaken>>

Picked(x) == SumFunction(picks[x])

\* selectClient
Select(x) ==
  /\ option.picks /\ Made(x) /\ Picked(x) < MaxPicks
  /\ \E s \in Selections(sel[x]) :
       /\ sel' = [sel EXCEPT ![x] = s.next]
       /\ picks' = [picks EXCEPT ![x][s.server] = @ + 1]
  /\ UNCHANGED <<option, centreVars, disc, wireVars, xc, servers, pending, overtaken>>

\* InitializeAceCenter: the centre's xClient is made and every lookup goes through it ...
Announce ==
  /\ option.centre # NoOne /\ centre = "none" /\ Made(option.centre)
  /\ centre' = "announced"
  /\ UNCHANGED <<option, answer, changes, faults, disc, wireVars, xc, servers, selVars>>

\* ... to the server dialled before: setInitAceClient.
SetInitAceClient ==
  /\ centre = "announced"
  /\ centre' = "seeded"
  /\ LET x == option.centre IN
     Replace(x, [k \in DOMAIN servers[x] \cup {Seed} |->
                   IF k = Seed THEN Plain(2) ELSE servers[x][k]])
  /\ UNCHANGED <<option, answer, changes, faults, disc, wireVars, xc>>

-----------------------------------------------------------------------------
DiscoveryStep(d) == Ask(d) \/ AskFail(d) \/ Store(d) \/ Tell(d)

\* What the application does with an xClient of its own.
Direct(x) ==
  \/ x \in option.direct /\ (GetServices(x) \/ WatchService(x))
  \/ x \in option.closed /\ MarkClosed(x)
  \/ x \in option.swapped /\ sel[x].mode \notin {"user", "closest"}
       /\ \E mode \in {"user", "closest"} : Prepare(x, mode)
  \/ x \in option.direct /\ Install(x)
  \/ Select(x)

Loops(x) ==
  Deliver(x) \/ Receive(x) \/ WatchEnd(x) \/ RemoveWatcher(x) \/ CloseChannel(x)

DirNext ==
  \/ \E d \in Discoveries : Change(d) \/ DiscoveryStep(d)
  \/ \E x \in XClients : Direct(x) \/ Loops(x)
  \/ Announce \/ SetInitAceClient

DirSpec == DirInit /\ [][DirNext]_dirVars

\* Goroutines and tickers go on; a constructor and InitializeAceCenter finish.
DirFairness ==
  /\ \A d \in Discoveries : WF_dirVars(DiscoveryStep(d))
  /\ \A x \in XClients :
       /\ WF_dirVars(WatchService(x)) /\ WF_dirVars(Deliver(x)) /\ WF_dirVars(Receive(x))
       /\ WF_dirVars(WatchEnd(x) \/ RemoveWatcher(x) \/ CloseChannel(x))
  /\ WF_dirVars(SetInitAceClient)

-----------------------------------------------------------------------------
(* Properties *)

\* Type invariant.
DirTypeOK ==
  /\ option \in OptionSet
  /\ answer \in [Discoveries -> Lists]
  /\ changes \in 0 .. MaxChanges /\ faults \in 0 .. MaxFaults
  /\ centre \in {"none", "announced", "seeded"}
  /\ \A d \in Discoveries :
       /\ disc[d].pc \in {"none", "idle", "asked", "stored"}
       /\ DOMAIN disc[d].pairs \subseteq Servers /\ DOMAIN disc[d].found \subseteq Servers
  /\ chans \in [Discoveries -> SUBSET XClients]
  /\ \A x \in XClients :
       /\ Len(flight[x]) <= MaxFlights /\ Len(ch[x]) <= Capacity
       /\ DOMAIN servers[x] \subseteq Servers
       /\ \A s \in {sel[x], pending[x]} : /\ s.mode \in Modes \cup {"none"}
                                          /\ s.hash \subseteq Servers
                                          /\ Range(s.order) \subseteq Servers
  /\ closing \in [XClients -> {"no", "marked", "removed", "closed"}]
  /\ xc \in [XClients -> {"none", "listed", "watching", "unwatched", "ended"}]
  /\ overtaken \subseteq XClients
  /\ picks \in [XClients -> [Servers -> 0 .. MaxPicks]]

\* A selector chooses among the servers its xClient has now, and forgets none of them,
\* whatever lists came in which order and whichever selectors were set (selector.go).
\* Left out by the code: a server without a location by Closest, one that lost its metadata
\* by the consistent hash (279); and until the next list a selector set while a list was
\* taking effect lags behind (69-73).
SelectorTracksServers ==
  \A x \in XClients : sel[x].mode # "none" /\ x \notin overtaken =>
    LET s == sel[x] IN
    /\ Candidates(s) \subseteq DOMAIN servers[x]
    /\ \A k \in DOMAIN servers[x] \ Candidates(s) :
         CASE s.mode = "closest" -> servers[x][k].distance < 0
           [] s.mode = "hash" -> servers[x][k].empty
           [] OTHER -> FALSE

\* Between two updates round robin gives every server the same number of calls, give or
\* take one.  By weight no server is ever a whole call ahead of its share, nor behind it by
\* more calls than there are other servers, and at the end of a round each has had exactly
\* its share (93-103, nextWeighted).
RoundsAreFair ==
  \A x \in XClients :
    LET s == sel[x]  n == Picked(x)  total == Total(s) IN
    /\ s.mode = "roundrobin" =>
         \A k, l \in DOMAIN s.list : picks[x][k] - picks[x][l] <= 1
    /\ s.mode \in {"weighted", "icmp"} /\ total > 0 =>
         \A k \in DOMAIN s.list :
           LET ahead == total * picks[x][k] - n * Weight(s, k)
           IN /\ ahead < total
              /\ -ahead <= total * (Cardinality(DOMAIN s.list) - 1)
              /\ n % total = 0 => ahead = 0

\* What the discovery of x would tell it now.
Current(x) == Filter(Found(option.of[x]))

\* Every xClient in use ends up with the servers the centre knows, although its first list
\* is taken before it watches, deliveries overtake each other and may be dropped, and calls
\* to the centre fail; an xClient that was closed stops watching, and nothing more is under
\* way to it.  Unless the centre's own xClient has run out of servers: then no lookup
\* succeeds any more (220-239, ace_discovery.go:88-142, acecenterclient.go:50-70).
WatchersSettle ==
  \A x \in XClients :
    <>[](\/ xc[x] = "none"
         \/ option.kind[option.of[x]] = "ace" /\ Stranded
         \/ IF closing[x] = "no" THEN servers[x] = Current(x)
            ELSE /\ xc[x] \in {"ended", "unwatched"} /\ flight[x] = <<>>
                 /\ \A d \in Discoveries : x \notin chans[d])
=============================================================================
