------------------------ MODULE XaceOneClient_proofs ------------------------
(***************************************************************************)
(* Theorems about XaceOneClient, for any number of calls, paths, settings  *)
(* and servers.                                                            *)
(***************************************************************************)
EXTENDS XaceOneClient, XaceDirectory_proofs

-----------------------------------------------------------------------------
(* The inductive invariant, in parts *)

GetPaths == {x \in XClients : \E a \in OneOps : Job(a).what = "get" /\ Path(a) = x}

Pcs == {"new", "lock", "create", "swap", "mode", "place", "store", "loop", "locate",
        "locating", "closing", "done", "failed", "panicked"}

OneTyped ==
  /\ field \in [Settings -> Nat] /\ own \in [XClients -> [Settings -> Nat]]
  /\ entry \in [XClients -> {"none", "nil", "made"}]
  /\ selectors \subseteq XClients /\ half \subseteq XClients /\ clashed \subseteq Settings
  /\ writer \in OneOps \cup {Nobody} /\ readers \subseteq OneOps
  /\ one \in [OneOps -> Pcs]
  /\ geo \in BOOLEAN /\ located \in [OneOps -> SUBSET XClients]
  /\ made \in [XClients -> Nat] /\ got \in [OneOps -> Nat]
  /\ failures \in 0 .. MaxCreates

\* Where a call may be.
Places(a) ==
  /\ one[a] \in {"lock", "create", "mode", "place", "store", "failed"} => Job(a).what = "get"
  /\ one[a] = "swap" => Job(a).what \in {"get", "selector"}
  /\ one[a] = "loop" => Job(a).what = "set"
  /\ one[a] \in {"locate", "locating"} => Job(a).what = "geo"
  /\ one[a] = "closing" => Job(a).what = "close"

Doing == \A a \in OneOps : Places(a)

\* Who holds c.mu, and how.
Writes(a) ==
  \/ one[a] \in {"create", "swap", "mode", "place", "store"}
  \/ one[a] = "panicked" /\ Job(a).what = "selector"
Reads(a) ==
  \/ one[a] \in {"locating", "closing"}
  \/ one[a] = "panicked" /\ Job(a).what # "selector"

Locks ==
  /\ \A a \in OneOps : (writer = a <=> Writes(a)) /\ (a \in readers <=> Reads(a))
  /\ writer # Nobody => readers = {}

\* An xClient is made once, by a caller that has locked the map, and every caller gets it.
Making(a) ==
  /\ one[a] \in {"create", "mode", "place", "store"} => entry[Path(a)] # "made"
  /\ one[a] = "swap" => (entry[Path(a)] = "made" <=> Job(a).what = "selector")
Holding(a) == got[a] # 0 => Job(a).what = "get" /\ got[a] = made[Path(a)]

Maps ==
  /\ \A x \in XClients : /\ made[x] = IF entry[x] = "made" THEN 1 ELSE 0
                         /\ entry[x] # "none" => x \in GetPaths
  /\ \A a \in OneOps : Making(a) /\ Holding(a)

\* An xClient that is made, or is about to be stored; a setter that has not been through.
Storing(a, x) == Path(a) = x /\ one[a] = "store"
Complete(x) == entry[x] = "made" \/ \E a \in OneOps : Storing(a, x)
Setting(a, s) ==
  Job(a).what = "set" /\ Job(a).setting = s /\ one[a] \in {"loop", "panicked"}
Looping(a) == one[a] = "loop" =>
  /\ field[Job(a).setting] # 0
  /\ Job(a).setting \notin clashed => field[Job(a).setting] = Job(a).value

\* What an xClient has of a setting is what the field has, or a setter is on its way to it.
Fields ==
  /\ \A s \in Settings, x \in XClients : field[s] = 0 => own[x][s] = 0
  /\ \A a \in OneOps : Looping(a)
  /\ \A x \in XClients \ half, s \in Settings \ clashed :
       Complete(x) => own[x][s] = field[s] \/ \E a \in OneOps : Setting(a, s)

\* Who is about to set which selector.
Swaps(a) == one[a] = "swap" => pending[Path(a)].mode = "user" /\ Path(a) \in selectors
Puts(a) == one[a] = "place" => pending[Path(a)].mode = "closest" /\ Locating(Path(a))
Locates(a) ==
  /\ Job(a).what = "geo" /\ one[a] # "new" => geo
  /\ located[a] # {} =>
       Job(a).what = "geo" /\ one[a] \notin {"new", "locate"} /\ located[a] \subseteq Kept
  /\ one[a] = "locating" =>
       \A x \in located[a] : pending[x].mode = "none" => sel[x].mode = "closest"

Awaits(x) ==
  /\ pending[x].mode \in {"none", "user", "closest"}
  /\ pending[x].mode = "closest" => Locating(x)
  /\ pending[x].mode = "user" => \E a \in OneOps : one[a] = "swap" /\ Path(a) = x

\* Its path's selector has been set; SetSelector has it, ConfigGeoSelector is on its way.
Fitting(a, x) == Path(a) = x /\ one[a] \in {"mode", "store"}
Fitted(x) == entry[x] = "made" \/ \E a \in OneOps : Fitting(a, x)
Changing(a, x) == one[a] = "swap" /\ Job(a).what = "selector" /\ Path(a) = x
GeoOnWay(a) == Job(a).what = "geo" /\ one[a] \in {"locate", "locating", "panicked"}

\* The selector an xClient has is its path's, or closest, or will be.
Selected(x) ==
  /\ Fitted(x) /\ x \in selectors /\ ~Locating(x) =>
       sel[x].mode = "user" \/ \E a \in OneOps : Changing(a, x)
  /\ Complete(x) /\ Locating(x) =>
       \/ sel[x].mode = "closest"
       \/ sel[x].mode = "user" /\ x \in selectors
       \/ \E a \in OneOps : GeoOnWay(a)

Moded ==
  /\ \A a \in OneOps : Swaps(a) /\ Puts(a) /\ Locates(a)
  /\ \A x \in GetPaths : Awaits(x) /\ (x \notin half => Selected(x))

OneInv == DirInv /\ OneTyped /\ Doing /\ Locks /\ Maps /\ Fields /\ Moded

-----------------------------------------------------------------------------
(* The configuration, and what each call is *)

LEMMA JobIs ==
  ASSUME option \in OptionSet, NEW a \in OneOps
  PROVE  /\ Job(a) \in Work /\ Path(a) \in XClients /\ Job(a).setting \in Settings
         /\ Job(a).value \in Nat \ {0}
         /\ Job(a).what \in {"get", "set", "selector", "geo", "close", "none"}
<1>1. Job(a) \in Work
  BY OneAssumption DEF Job
<1> QED
  BY <1>1 DEF Work, Path

LEMMA OptionStays ==
  ASSUME DirNext \/ (\E a \in OneOps : OneStep(a)) \/ UNCHANGED everyVar
  PROVE  option' = option
<1>1. DirNext => option' = option
  <2>1. ASSUME NEW d \in Discoveries, Change(d) \/ DiscoveryStep(d) PROVE option' = option
    BY <2>1 DEF Change, DiscoveryStep, Ask, AskFail, Store, Tell
  <2>2. ASSUME NEW x \in XClients, Direct(x) \/ Loops(x) PROVE option' = option
    BY <2>2 DEF Direct, Loops, GetServices, ListAs, WatchService, MarkClosed, Prepare,
                Install, Select, Deliver, Receive, WatchEnd, RemoveWatcher, CloseChannel
  <2> QED
    BY <2>1, <2>2 DEF DirNext, Announce, SetInitAceClient
<1>2. \A x, m : ListAs(x, m) \/ WatchService(x) \/ Prepare(x, m) \/ Install(x)
                  \/ MarkClosed(x) => option' = option
  BY DEF ListAs, WatchService, Prepare, Install, MarkClosed
<1>3. UNCHANGED dirVars => option' = option
  BY DEF dirVars
<1>4. ASSUME NEW a \in OneOps, OneStep(a) PROVE option' = option
  BY <1>2, <1>3, <1>4
     DEF OneStep, Lookup, LookupLocked, Create, CreateFail, Configure, Swap, Locate, Place,
         SetMode, LocateBegin, LocateOne, LocateEnd, SwapPanics, StoreXClient, SetField,
         SetLoop, SetSelector, SelectorSet, CloseBegin, CloseOne, CloseEnd
<1> QED
  BY <1>1, <1>3, <1>4 DEF everyVar

LEMMA JobStays ==
  ASSUME option' = option
  PROVE  /\ \A a : Job(a)' = Job(a) /\ Path(a)' = Path(a)
         /\ GetPaths' = GetPaths
  BY DEF Job, Path, GetPaths

\* What a call does to the xClients.
Touches(x) ==
  \/ \E m \in Modes : ListAs(x, m) \/ Prepare(x, m)
  \/ WatchService(x) \/ Install(x) \/ MarkClosed(x)

LEMMA StepTouches ==
  ASSUME option \in OptionSet, OneTyped, NEW a \in OneOps, OneStep(a)
  PROVE  UNCHANGED dirVars \/ \E x \in XClients : Touches(x)
<1>1. Path(a) \in XClients
  BY JobIs
<1>2. option.mode[Path(a)] \in Modes /\ "closest" \in Modes /\ "user" \in Modes
  BY <1>1, OptionIs DEF Modes
<1>3. CASE Create(a)
  <2>1. (IF geo THEN "closest" ELSE option.mode[Path(a)]) \in Modes
    BY <1>2
  <2> QED
    BY <1>1, <1>3, <2>1 DEF Create, Touches
<1>4. CASE Configure(a) \/ Swap(a) \/ Locate(a) \/ Place(a) \/ SelectorSet(a) \/ SetSelector(a)
  BY <1>1, <1>2, <1>4 DEF Configure, Swap, Locate, Place, SelectorSet, SetSelector, Touches
<1>5. CASE LocateOne(a)
  <2>1. Kept \subseteq XClients /\ Unplaced(a) \subseteq XClients
    BY DEF Kept, Unplaced, OneTyped
  <2> QED
    BY <1>2, <1>5, <2>1 DEF LocateOne, Touches
<1>6. CASE CloseOne(a)
  BY <1>6 DEF CloseOne, Kept, Touches
<1>7. CASE \/ Lookup(a) \/ LookupLocked(a) \/ CreateFail(a) \/ SetMode(a) \/ LocateBegin(a)
           \/ LocateEnd(a) \/ SwapPanics(a) \/ StoreXClient(a) \/ SetField(a) \/ SetLoop(a)
           \/ CloseBegin(a) \/ CloseEnd(a)
  BY <1>7 DEF Lookup, LookupLocked, CreateFail, SetMode, LocateBegin, LocateEnd, SwapPanics,
              StoreXClient, SetField, SetLoop, CloseBegin, CloseEnd
<1> QED
  BY <1>3, <1>4, <1>5, <1>6, <1>7 DEF OneStep

LEMMA TouchesInv ==
  ASSUME DirInv, NEW x \in XClients, Touches(x)
  PROVE  DirInv'
<1>1. CASE \E m \in Modes : ListAs(x, m)
  BY <1>1, ListAsInv
<1>2. CASE \E m \in Modes : Prepare(x, m)
  BY <1>2, PrepareInv
<1> QED
  BY <1>1, <1>2, WatchServiceInv, InstallInv, CloseInv DEF Touches

LEMMA OneDirInv ==
  ASSUME DirInv, OneTyped, [OneNext]_everyVar
  PROVE  DirInv'
<1>1. option \in OptionSet
  BY DEF DirInv, CentreTyped
<1>2. CASE DirNext
  BY <1>2, DirStep
<1>3. ASSUME NEW a \in OneOps, OneStep(a) PROVE DirInv'
  BY <1>1, <1>3, StepTouches, TouchesInv, DirStutter
<1>4. CASE UNCHANGED everyVar
  BY <1>4, DirStutter DEF everyVar
<1> QED
  BY <1>2, <1>3, <1>4 DEF OneNext

-----------------------------------------------------------------------------
(* Types *)

LEMMA OneInitTyped ==
  ASSUME OneInit
  PROVE  OneTyped
<1>1. 0 \in 0 .. MaxCreates
  BY OneAssumption
<1>2. one \in [OneOps -> Pcs] /\ entry \in [XClients -> {"none", "nil", "made"}]
  BY DEF OneInit, Pcs
<1>3. /\ field \in [Settings -> Nat] /\ own \in [XClients -> [Settings -> Nat]]
      /\ made \in [XClients -> Nat] /\ got \in [OneOps -> Nat]
  BY DEF OneInit
<1>4. /\ selectors \subseteq XClients /\ half \subseteq XClients /\ clashed \subseteq Settings
      /\ writer \in OneOps \cup {Nobody} /\ readers \subseteq OneOps
      /\ geo \in BOOLEAN /\ located \in [OneOps -> SUBSET XClients]
      /\ failures \in 0 .. MaxCreates
  BY <1>1 DEF OneInit
<1> QED
  BY <1>2, <1>3, <1>4 DEF OneTyped

LEMMA PastStays ==
  ASSUME UNCHANGED oneVars
  PROVE  /\ geo' = geo /\ located' = located /\ field' = field /\ entry' = entry
         /\ selectors' = selectors /\ writer' = writer /\ readers' = readers /\ one' = one
         /\ own' = own /\ made' = made /\ got' = got /\ half' = half
         /\ clashed' = clashed /\ failures' = failures
  BY DEF oneVars, geoVars, pastVars

LEMMA OneTypedStep ==
  ASSUME option \in OptionSet, OneTyped, NEW a \in OneOps, OneStep(a)
  PROVE  OneTyped'
<1> USE DEF OneTyped, Pcs, Goes, geoVars, pastVars
<1>1. /\ Path(a) \in XClients /\ Job(a).setting \in Settings /\ Job(a).value \in Nat
      /\ made[Path(a)] \in Nat
  BY JobIs
<1>2. CASE Lookup(a) \/ LookupLocked(a)
  <2>1. got' \in [OneOps -> Nat]
    BY <1>1, <1>2 DEF Lookup, LookupLocked
  <2>2. one' \in [OneOps -> Pcs]
    BY <1>2 DEF Lookup, LookupLocked
  <2> QED
    BY <1>2, <2>1, <2>2 DEF Lookup, LookupLocked
<1>3. CASE Create(a) \/ CloseOne(a)
  BY <1>3, PastStays DEF Create, CloseOne
<1>4. CASE CreateFail(a) \/ SwapPanics(a)
  <2>1. failures' \in 0 .. MaxCreates
    BY <1>4, OneAssumption DEF CreateFail, SwapPanics
  <2>2. entry' \in [XClients -> {"none", "nil", "made"}] /\ half' \subseteq XClients
    BY <1>1, <1>4 DEF CreateFail, SwapPanics
  <2>3. made' \in [XClients -> Nat]
    BY <1>1, <1>4 DEF CreateFail, SwapPanics
  <2> QED
    BY <1>4, <2>1, <2>2, <2>3 DEF CreateFail, SwapPanics
<1>5. CASE Configure(a) \/ Swap(a) \/ SelectorSet(a) \/ SetSelector(a)
  BY <1>1, <1>5 DEF Configure, Swap, SelectorSet, SetSelector
<1>6. ASSUME Inherit(a) PROVE own' \in [XClients -> [Settings -> Nat]]
  <2>1. PICK f : f = [s \in Settings |-> IF field[s] # 0 THEN field[s] ELSE own[Path(a)][s]]
    OBVIOUS
  <2>2. f \in [Settings -> Nat] /\ own' = [own EXCEPT ![Path(a)] = f]
    BY <1>1, <1>6, <2>1 DEF Inherit
  <2> QED
    BY <2>2
<1>7. CASE Locate(a) \/ Place(a)
  <2>1. own' \in [XClients -> [Settings -> Nat]]
    BY <1>6, <1>7 DEF Locate, Place
  <2>2. one' \in [OneOps -> Pcs]
    BY <1>7 DEF Locate, Place, Inherit
  <2> QED
    BY <1>7, <2>1, <2>2 DEF Locate, Place
<1>8. CASE StoreXClient(a)
  BY <1>1, <1>8 DEF StoreXClient
<1>9. CASE SetField(a) \/ SetMode(a)
  BY <1>1, <1>9 DEF SetField, SetMode
<1>10. CASE SetLoop(a)
  <2>1. own' \in [XClients -> [Settings -> Nat]]
    <3>1. PICK S : own' = [x \in XClients |->
                             IF x \in S THEN [own[x] EXCEPT ![Job(a).setting] = Job(a).value]
                             ELSE own[x]]
      BY <1>10 DEF SetLoop
    <3>2. ASSUME NEW x \in XClients PROVE own'[x] \in [Settings -> Nat]
      BY <1>1, <3>1
    <3> QED
      BY <3>1, <3>2
  <2> QED
    BY <1>10, <2>1 DEF SetLoop
<1>11. CASE LocateBegin(a) \/ LocateEnd(a) \/ CloseBegin(a) \/ CloseEnd(a)
  BY <1>11 DEF LocateBegin, LocateEnd, CloseBegin, CloseEnd
<1>12. CASE LocateOne(a)
  <2>1. located' \in [OneOps -> SUBSET XClients]
    BY <1>12 DEF LocateOne, Kept
  <2> QED
    BY <1>12, <2>1 DEF LocateOne
<1> QED
  BY <1>2, <1>3, <1>4, <1>5, <1>7, <1>8, <1>9, <1>10, <1>11, <1>12 DEF OneStep

-----------------------------------------------------------------------------
(* Where the calls are, and who holds the lock *)

LEMMA OthersStay ==
  ASSUME OneTyped, NEW a \in OneOps, OneStep(a), NEW b \in OneOps, b # a
  PROVE  one'[b] = one[b]
<1> USE DEF Goes, OneTyped
<1>1. CASE Create(a) \/ CloseOne(a)
  BY <1>1, PastStays DEF Create, CloseOne
<1>2. CASE Locate(a) \/ Place(a)
  BY <1>2 DEF Locate, Place, Inherit
<1>3. CASE Lookup(a) \/ LookupLocked(a) \/ CreateFail(a) \/ Configure(a) \/ Swap(a)
           \/ SetMode(a) \/ LocateBegin(a)
  BY <1>3 DEF Lookup, LookupLocked, CreateFail, Configure, Swap, SetMode, LocateBegin
<1>4. CASE LocateOne(a) \/ LocateEnd(a) \/ SwapPanics(a) \/ StoreXClient(a) \/ SetField(a)
           \/ SetLoop(a) \/ SetSelector(a) \/ SelectorSet(a) \/ CloseBegin(a) \/ CloseEnd(a)
  BY <1>4 DEF LocateOne, LocateEnd, SwapPanics, StoreXClient, SetField, SetLoop,
              SetSelector, SelectorSet, CloseBegin, CloseEnd
<1> QED
  BY <1>1, <1>2, <1>3, <1>4 DEF OneStep

LEMMA DoingStep ==
  ASSUME OneTyped, Doing, option' = option, NEW a \in OneOps, OneStep(a)
  PROVE  Doing'
<1> USE DEF Goes, OneTyped, Places, Begins
<1>1. \A b : Job(b)' = Job(b)
  BY JobStays
<1>2. Places(a)
  BY DEF Doing
<1>3. CASE Create(a) \/ CloseOne(a)
  <2>1. one' = one
    BY <1>3, PastStays DEF Create, CloseOne
  <2> QED
    BY <1>1, <2>1 DEF Doing
<1>4. CASE Locate(a) \/ Place(a)
  <2>1. Places(a)'
    BY <1>1, <1>2, <1>4 DEF Locate, Place, Inherit
  <2> QED
    BY <1>1, <2>1, OthersStay DEF Doing
<1>5. CASE Lookup(a) \/ LookupLocked(a) \/ CreateFail(a) \/ Configure(a) \/ Swap(a)
           \/ SetMode(a) \/ LocateBegin(a)
  <2>1. Places(a)'
    BY <1>1, <1>2, <1>5
       DEF Lookup, LookupLocked, CreateFail, Configure, Swap, SetMode, LocateBegin
  <2> QED
    BY <1>1, <2>1, OthersStay DEF Doing
<1>6. CASE LocateOne(a) \/ LocateEnd(a) \/ SwapPanics(a) \/ StoreXClient(a) \/ SetField(a)
           \/ SetLoop(a) \/ SetSelector(a) \/ SelectorSet(a) \/ CloseBegin(a) \/ CloseEnd(a)
  <2>1. Places(a)'
    BY <1>1, <1>2, <1>6
       DEF LocateOne, LocateEnd, SwapPanics, StoreXClient, SetField, SetLoop,
           SetSelector, SelectorSet, CloseBegin, CloseEnd
  <2> QED
    BY <1>1, <2>1, OthersStay DEF Doing
<1> QED
  BY <1>3, <1>4, <1>5, <1>6 DEF OneStep

LEMMA LocksStep ==
  ASSUME OneTyped, Doing, Locks, option' = option, NEW a \in OneOps, OneStep(a)
  PROVE  Locks'
<1> USE DEF Goes, OneTyped, Begins
<1>1. \A b : Job(b)' = Job(b)
  BY JobStays
<1>2. /\ writer = a <=> Writes(a)
      /\ a \in readers <=> Reads(a)
      /\ writer # Nobody => readers = {}
      /\ a # Nobody
  BY OneAssumption DEF Locks
<1>3. Places(a)
  BY DEF Doing
<1>4. ASSUME \/ writer' = writer /\ readers' = readers
             \/ readers' = readers /\ {writer, writer'} = {a, Nobody}
             \/ writer' = writer /\ readers' \in {readers \cup {a}, readers \ {a}},
             writer' = a <=> Writes(a)', a \in readers' <=> Reads(a)',
             writer' # Nobody => readers' = {}
      PROVE  Locks'
  <2>1. ASSUME NEW b \in OneOps, b # a
        PROVE  (writer' = b <=> Writes(b)') /\ (b \in readers' <=> Reads(b)')
    <3>1. one'[b] = one[b] /\ Job(b)' = Job(b)
      BY <1>1, <2>1, OthersStay
    <3>2. (Writes(b)' <=> Writes(b)) /\ (Reads(b)' <=> Reads(b))
      BY <3>1 DEF Writes, Reads
    <3>3. (writer' = b <=> writer = b) /\ (b \in readers' <=> b \in readers)
      BY <1>4, <2>1, OneAssumption
    <3> QED
      BY <3>2, <3>3 DEF Locks
  <2> QED
    BY <1>4, <2>1 DEF Locks
<1>5. CASE Create(a) \/ CloseOne(a)
  <2>1. Writes(a)' <=> Writes(a)
    BY <1>1, <1>5, PastStays DEF Create, CloseOne, Writes
  <2>2. Reads(a)' <=> Reads(a)
    BY <1>1, <1>5, PastStays DEF Create, CloseOne, Reads
  <2> QED
    BY <1>2, <1>4, <1>5, <2>1, <2>2, PastStays DEF Create, CloseOne
<1>6. CASE Locate(a) \/ Place(a)
  BY <1>1, <1>2, <1>4, <1>6 DEF Locate, Place, Inherit, Writes, Reads
<1>7. CASE Lookup(a) \/ LookupLocked(a) \/ CreateFail(a)
  BY <1>1, <1>2, <1>3, <1>4, <1>7
     DEF Lookup, LookupLocked, CreateFail, Free, Writes, Reads, Places
<1>8. CASE Configure(a) \/ Swap(a) \/ SwapPanics(a) \/ StoreXClient(a)
  BY <1>1, <1>2, <1>3, <1>4, <1>8
     DEF Configure, Swap, SwapPanics, StoreXClient, Writes, Reads, Places
<1>9. CASE SetSelector(a) \/ SelectorSet(a)
  BY <1>1, <1>2, <1>3, <1>4, <1>9 DEF SetSelector, SelectorSet, Free, Writes, Reads, Places
<1>10. CASE SetMode(a) \/ LocateBegin(a) \/ LocateOne(a) \/ LocateEnd(a)
  BY <1>1, <1>2, <1>3, <1>4, <1>10
     DEF SetMode, LocateBegin, LocateOne, LocateEnd, Writes, Reads, Places
<1>11. CASE SetField(a) \/ SetLoop(a) \/ CloseBegin(a) \/ CloseEnd(a)
  BY <1>1, <1>2, <1>3, <1>4, <1>11
     DEF SetField, SetLoop, CloseBegin, CloseEnd, Writes, Reads, Places
<1> QED
  BY <1>5, <1>6, <1>7, <1>8, <1>9, <1>10, <1>11 DEF OneStep

-----------------------------------------------------------------------------
(* The map *)

\* There is one writer, and no reader beside it.
LEMMA OneWriter ==
  ASSUME Locks, NEW a \in OneOps, NEW b \in OneOps
  PROVE  /\ Writes(a) /\ Writes(b) => a = b
         /\ ~(Writes(a) /\ Reads(b))
         /\ writer = Nobody => ~Writes(a)
         /\ readers = {} => ~Reads(a)
  BY OneAssumption DEF Locks

LEMMA MapsStep ==
  ASSUME option \in OptionSet, OneTyped, Doing, Locks, Maps, option' = option,
         NEW a \in OneOps, OneStep(a)
  PROVE  Maps'
<1> USE DEF Goes, OneTyped, Begins
<1>1. (\A b : Job(b)' = Job(b) /\ Path(b)' = Path(b)) /\ GetPaths' = GetPaths
  BY JobStays
<1>2. PICK x \in XClients : x = Path(a)
  BY JobIs
<1>3. Places(a) /\ Making(a) /\ Holding(a)
  BY DEF Doing, Maps
<1>4. Job(a).what = "get" => x \in GetPaths
  BY <1>2 DEF GetPaths
<1>5. ASSUME UNCHANGED <<entry, made>>, Making(a)', Holding(a)',
             \A b \in OneOps : b # a => got'[b] = got[b]
      PROVE  Maps'
  <2>1. ASSUME NEW b \in OneOps, b # a PROVE Making(b)' /\ Holding(b)'
    <3>1. Making(b) /\ Holding(b) /\ one'[b] = one[b]
      BY <2>1, OthersStay DEF Maps
    <3>2. Making(b)'
      BY <1>1, <1>5, <3>1 DEF Making
    <3>3. Holding(b)'
      BY <1>1, <1>5, <2>1, <3>1 DEF Holding
    <3> QED
      BY <3>2, <3>3
  <2>2. \A b \in OneOps : Making(b)' /\ Holding(b)'
    BY <1>5, <2>1
  <2> QED
    BY <1>1, <1>5, <2>2 DEF Maps
<1>6. ASSUME Writes(a), entry[x] # "made", Job(a).what = "get",
             \A y \in XClients : y # x => entry'[y] = entry[y] /\ made'[y] = made[y],
             \/ entry'[x] = "made" /\ made'[x] = made[x] + 1
             \/ entry'[x] = "nil" /\ made'[x] = made[x],
             one'[a] \in {"done", "failed"}, got'[a] = got[a] \/ got'[a] = made'[x],
             \A b \in OneOps : b # a => got'[b] = got[b]
      PROVE  Maps'
  <2>1. ASSUME NEW y \in XClients
        PROVE  /\ made'[y] = IF entry'[y] = "made" THEN 1 ELSE 0
               /\ entry'[y] # "none" => y \in GetPaths
    <3>1. /\ made[y] = IF entry[y] = "made" THEN 1 ELSE 0
          /\ entry[y] # "none" => y \in GetPaths
      BY DEF Maps
    <3> QED
      BY <1>4, <1>6, <3>1
  <2>2. ASSUME NEW b \in OneOps, Path(b) = x PROVE got[b] = 0
    <3>1. Holding(b) /\ made[x] = 0
      BY <1>6 DEF Maps
    <3> QED
      BY <2>2, <3>1 DEF Holding
  <2>3. ASSUME NEW b \in OneOps, b # a PROVE Making(b)' /\ Holding(b)'
    <3>1. Making(b) /\ Holding(b) /\ one'[b] = one[b] /\ Path(b) \in XClients
      BY <2>3, OthersStay, JobIs DEF Maps
    <3>2. ~Writes(b)
      BY <1>6, <2>3, OneWriter
    <3>3. Making(b)'
      BY <3>1, <3>2 DEF Making, Writes
    <3>4. Holding(b)'
      BY <1>1, <1>6, <2>2, <2>3, <3>1 DEF Holding
    <3> QED
      BY <3>3, <3>4
  <2>4. Making(a)'
    BY <1>6 DEF Making
  <2>5. Holding(a)'
    <3>1. got[a] = 0
      BY <1>2, <2>2
    <3> QED
      BY <1>1, <1>2, <1>6, <3>1 DEF Holding
  <2>6. \A b \in OneOps : Making(b)' /\ Holding(b)'
    BY <2>3, <2>4, <2>5
  <2> QED
    BY <1>1, <2>1, <2>6 DEF Maps
<1>7. CASE Create(a) \/ CloseOne(a)
  <2>1. UNCHANGED <<entry, made, got, one>>
    BY <1>7, PastStays DEF Create, CloseOne
  <2>2. Making(a)' /\ Holding(a)'
    BY <1>1, <1>3, <2>1 DEF Making, Holding
  <2> QED
    BY <1>5, <2>1, <2>2
<1>8. CASE Lookup(a) \/ LookupLocked(a)
  <2>1. UNCHANGED <<entry, made>> /\ \A b \in OneOps : b # a => got'[b] = got[b]
    BY <1>8 DEF Lookup, LookupLocked
  <2>2. Making(a)'
    BY <1>1, <1>2, <1>3, <1>8 DEF Lookup, LookupLocked, Needed, Making
  <2>3. Holding(a)'
    BY <1>1, <1>2, <1>3, <1>8 DEF Lookup, LookupLocked, Places, Holding
  <2> QED
    BY <1>5, <2>1, <2>2, <2>3
<1>9. CASE CreateFail(a) \/ SwapPanics(a)
  <2>1. Writes(a) /\ entry[x] # "made" /\ Job(a).what = "get"
    BY <1>2, <1>3, <1>9 DEF CreateFail, SwapPanics, Writes, Making, Places
  <2>2. /\ \A y \in XClients : y # x => entry'[y] = entry[y] /\ made'[y] = made[y]
        /\ \/ entry'[x] = "made" /\ made'[x] = made[x] + 1
           \/ entry'[x] = "nil" /\ made'[x] = made[x]
        /\ one'[a] \in {"done", "failed"} /\ got' = got
    BY <1>2, <1>9 DEF CreateFail, SwapPanics
  <2> QED
    BY <1>6, <2>1, <2>2
<1>10. CASE StoreXClient(a)
  <2>1. Writes(a) /\ entry[x] # "made" /\ Job(a).what = "get"
    BY <1>2, <1>3, <1>10 DEF StoreXClient, Writes, Making, Places
  <2>2. /\ \A y \in XClients : y # x => entry'[y] = entry[y] /\ made'[y] = made[y]
        /\ entry'[x] = "made" /\ made'[x] = made[x] + 1
        /\ one'[a] \in {"done", "failed"} /\ got'[a] = made'[x]
        /\ \A b \in OneOps : b # a => got'[b] = got[b]
    BY <1>2, <1>10 DEF StoreXClient
  <2> QED
    BY <1>6, <2>1, <2>2
<1>11. ASSUME UNCHANGED <<entry, made, got>>, Making(a)' PROVE Maps'
  <2>1. Holding(a)'
    BY <1>1, <1>3, <1>11 DEF Holding
  <2> QED
    BY <1>5, <1>11, <2>1
<1>12. CASE Configure(a) \/ Swap(a) \/ Locate(a) \/ Place(a)
  <2>1. UNCHANGED <<entry, made, got>>
    BY <1>12 DEF Configure, Swap, Locate, Place
  <2>2. Making(a)'
    BY <1>1, <1>3, <1>12, <2>1
       DEF Configure, Swap, Locate, Place, Inherit, Making, Places
  <2> QED
    BY <1>11, <2>1, <2>2
<1>13. CASE SetSelector(a) \/ SelectorSet(a)
  <2>1. UNCHANGED <<entry, made, got>>
    BY <1>13 DEF SetSelector, SelectorSet
  <2>2. Making(a)'
    BY <1>1, <1>3, <1>13, <2>1 DEF SetSelector, SelectorSet, Making
  <2> QED
    BY <1>11, <2>1, <2>2
<1>14. CASE SetMode(a) \/ LocateBegin(a) \/ LocateOne(a) \/ LocateEnd(a)
  <2>1. UNCHANGED <<entry, made, got>>
    BY <1>14 DEF SetMode, LocateBegin, LocateOne, LocateEnd
  <2>2. Making(a)'
    BY <1>14 DEF SetMode, LocateBegin, LocateOne, LocateEnd, Making
  <2> QED
    BY <1>11, <2>1, <2>2
<1>15. CASE SetField(a) \/ SetLoop(a) \/ CloseBegin(a) \/ CloseEnd(a)
  <2>1. UNCHANGED <<entry, made, got>>
    BY <1>15 DEF SetField, SetLoop, CloseBegin, CloseEnd
  <2>2. Making(a)'
    BY <1>15 DEF SetField, SetLoop, CloseBegin, CloseEnd, Making
  <2> QED
    BY <1>11, <2>1, <2>2
<1> QED
  BY <1>7, <1>8, <1>9, <1>10, <1>12, <1>13, <1>14, <1>15 DEF OneStep

-----------------------------------------------------------------------------
(* The settings *)

LEMMA InheritFields ==
  ASSUME option \in OptionSet, OneTyped, Doing, Locks, Maps, Fields, option' = option,
         NEW a \in OneOps, Inherit(a), one[a] \in {"mode", "place"},
         UNCHANGED <<field, entry, half, clashed>>
  PROVE  Fields'
<1> USE DEF OneTyped
<1>1. \A b : Job(b)' = Job(b) /\ Path(b)' = Path(b)
  BY JobStays
<1>2. PICK x \in XClients : x = Path(a)
  BY JobIs
<1>3. one' = [one EXCEPT ![a] = "store"]
  BY DEF Inherit, Goes
<1>4. PICK f : f = [s \in Settings |-> IF field[s] # 0 THEN field[s] ELSE own[x][s]]
  OBVIOUS
<1>5. own' = [own EXCEPT ![x] = f]
  BY <1>2, <1>4 DEF Inherit
<1>6. \A s \in Settings : f[s] = field[s]
  BY <1>4 DEF Fields
<1>7. \A s \in Settings, y \in XClients : field'[s] = 0 => own'[y][s] = 0
  BY <1>5, <1>6 DEF Fields
<1>8. \A b \in OneOps : Looping(b)'
  BY <1>1, <1>3 DEF Fields, Looping
<1>9. ASSUME NEW y \in XClients \ half', NEW s \in Settings \ clashed', Complete(y)'
      PROVE  own'[y][s] = field'[s] \/ \E b \in OneOps : Setting(b, s)'
  <2>1. CASE y = x
    BY <1>5, <1>6, <2>1
  <2>2. CASE y # x
    <3>1. Complete(y)
      BY <1>1, <1>2, <1>3, <1>9, <2>2 DEF Complete, Storing
    <3>2. own[y][s] = field[s] \/ \E b \in OneOps : Setting(b, s)
      BY <1>9, <3>1 DEF Fields
    <3>3. \A b \in OneOps : Setting(b, s) => Setting(b, s)'
      BY <1>1, <1>3 DEF Setting
    <3> QED
      BY <1>5, <2>2, <3>2, <3>3
  <2> QED
    BY <2>1, <2>2
<1> QED
  BY <1>7, <1>8, <1>9 DEF Fields

LEMMA SetFieldFields ==
  ASSUME option \in OptionSet, OneTyped, Doing, Fields, option' = option,
         NEW a \in OneOps, SetField(a)
  PROVE  Fields'
<1> USE DEF OneTyped
<1>1. \A b : Job(b)' = Job(b) /\ Path(b)' = Path(b)
  BY JobStays
<1>2. PICK t \in Settings, v \in Nat \ {0} : t = Job(a).setting /\ v = Job(a).value
  BY JobIs
<1>3. /\ one' = [one EXCEPT ![a] = "loop"] /\ field' = [field EXCEPT ![t] = v]
      /\ clashed' = IF Busy(t) = {} THEN clashed ELSE clashed \cup {t}
      /\ own' = own /\ entry' = entry /\ half' = half
      /\ one[a] = "new" /\ Job(a).what = "set"
  BY <1>2 DEF SetField, Goes, Begins
<1>4. \A s \in Settings, y \in XClients : field'[s] = 0 => own'[y][s] = 0
  BY <1>3 DEF Fields
<1>5. ASSUME NEW b \in OneOps PROVE Looping(b)'
  <2>1. CASE b = a
    BY <1>1, <1>2, <1>3, <2>1 DEF Looping
  <2>2. CASE b # a
    <3>1. one'[b] = one[b] /\ Looping(b)
      BY <1>3, <2>2 DEF Fields
    <3>2. Job(b).setting \in Settings
      BY JobIs
    <3>3. one[b] = "loop" /\ Job(b).setting = t => t \in clashed'
      BY <1>3 DEF Busy
    <3> QED
      BY <1>1, <1>3, <3>1, <3>2, <3>3 DEF Looping
  <2> QED
    BY <2>1, <2>2
<1>6. ASSUME NEW y \in XClients \ half', NEW s \in Settings \ clashed', Complete(y)'
      PROVE  own'[y][s] = field'[s] \/ \E b \in OneOps : Setting(b, s)'
  <2>1. CASE s = t
    <3>1. Setting(a, s)'
      BY <1>1, <1>2, <1>3, <2>1 DEF Setting
    <3> QED
      BY <3>1
  <2>2. CASE s # t
    <3>1. Complete(y)
      BY <1>1, <1>3, <1>6 DEF Complete, Storing
    <3>2. own[y][s] = field[s] \/ \E b \in OneOps : Setting(b, s)
      BY <1>3, <1>6, <3>1 DEF Fields
    <3>3. \A b \in OneOps : Setting(b, s) => Setting(b, s)'
      BY <1>1, <1>3 DEF Setting
    <3> QED
      BY <1>3, <2>2, <3>2, <3>3
  <2> QED
    BY <2>1, <2>2
<1> QED
  BY <1>4, <1>5, <1>6 DEF Fields

LEMMA SetLoopFields ==
  ASSUME option \in OptionSet, OneTyped, Doing, Locks, Fields, option' = option,
         NEW a \in OneOps, SetLoop(a)
  PROVE  Fields'
<1> USE DEF OneTyped
<1>1. \A b : Job(b)' = Job(b) /\ Path(b)' = Path(b)
  BY JobStays
<1>2. PICK t \in Settings, v \in Nat \ {0} : t = Job(a).setting /\ v = Job(a).value
  BY JobIs
<1>3. PICK S \in SUBSET XClients :
        /\ Nils = {} => S = Kept
        /\ own' = [x \in XClients |-> IF x \in S THEN [own[x] EXCEPT ![t] = v] ELSE own[x]]
  <2>1. PICK S \in IF Nils = {} THEN {Kept} ELSE SUBSET (Kept \ Nils) :
          own' = [x \in XClients |-> IF x \in S
                                     THEN [own[x] EXCEPT ![Job(a).setting] = Job(a).value]
                                     ELSE own[x]]
    BY DEF SetLoop
  <2>2. Kept \subseteq XClients
    BY DEF Kept
  <2>3. S \in SUBSET XClients /\ (Nils = {} => S = Kept)
    BY <2>1, <2>2
  <2> QED
    BY <1>2, <2>1, <2>3
<1>4. PICK pc \in {"done", "panicked"} :
        one' = [one EXCEPT ![a] = pc] /\ (pc = "done" => Nils = {})
  BY DEF SetLoop, Goes
<1>5. /\ field' = field /\ entry' = entry /\ half' = half /\ clashed' = clashed
      /\ one[a] = "loop" /\ writer = Nobody
  BY DEF SetLoop, pastVars
<1>6. Looping(a) /\ Job(a).what = "set"
  BY <1>5 DEF Fields, Doing, Places
<1>7. \A y \in XClients, s \in Settings : own'[y][s] = IF y \in S /\ s = t THEN v ELSE own[y][s]
  BY <1>3
<1>8. \A s \in Settings, y \in XClients : field'[s] = 0 => own'[y][s] = 0
  BY <1>2, <1>5, <1>6, <1>7 DEF Fields, Looping
<1>9. \A b \in OneOps : Looping(b)'
  BY <1>1, <1>4, <1>5 DEF Fields, Looping
<1>10. ASSUME NEW y \in XClients \ half', NEW s \in Settings \ clashed', Complete(y)'
       PROVE  own'[y][s] = field'[s] \/ \E b \in OneOps : Setting(b, s)'
  <2>1. Complete(y) /\ entry[y] = "made"
    <3>1. Complete(y)
      BY <1>1, <1>4, <1>5, <1>10 DEF Complete, Storing
    <3>2. ASSUME NEW b \in OneOps PROVE ~Storing(b, y)
      BY <1>5, OneWriter DEF Storing, Writes
    <3> QED
      BY <3>1, <3>2 DEF Complete
  <2>2. own[y][s] = field[s] \/ \E b \in OneOps : Setting(b, s)
    BY <1>5, <1>10, <2>1 DEF Fields
  <2>3. CASE s = t /\ pc = "done"
    <3>1. y \in S
      BY <1>3, <1>4, <2>1, <2>3 DEF Kept
    <3>2. field[t] = v
      BY <1>2, <1>5, <1>6, <1>10, <2>3 DEF Looping
    <3> QED
      BY <1>5, <1>7, <2>3, <3>1, <3>2
  <2>4. CASE s = t /\ pc = "panicked"
    <3>1. Setting(a, s)'
      BY <1>1, <1>2, <1>4, <1>6, <2>4 DEF Setting
    <3> QED
      BY <3>1
  <2>5. CASE s # t
    <3>1. \A b \in OneOps : Setting(b, s) => Setting(b, s)'
      BY <1>1, <1>2, <1>4, <2>5 DEF Setting
    <3> QED
      BY <1>5, <1>7, <2>2, <2>5, <3>1
  <2> QED
    BY <2>3, <2>4, <2>5
<1> QED
  BY <1>8, <1>9, <1>10 DEF Fields

\* A step that is not of a setter, by which no xClient becomes complete.
LEMMA OtherFields ==
  ASSUME OneTyped, Fields, option' = option, NEW a \in OneOps,
         \A b \in OneOps : b # a => one'[b] = one[b],
         one[a] \notin {"loop", "panicked"}, one'[a] # "loop",
         UNCHANGED <<field, own, clashed>>, half \subseteq half',
         \A y \in XClients \ half' :
           entry'[y] = "made" \/ Storing(a, y)' => entry[y] = "made" \/ Storing(a, y)
  PROVE  Fields'
<1>1. \A b : Job(b)' = Job(b) /\ Path(b)' = Path(b)
  BY JobStays
<1>2. ASSUME NEW b \in OneOps PROVE Looping(b)'
  <2>1. CASE b = a
    BY <2>1 DEF Looping
  <2>2. CASE b # a
    BY <1>1, <2>2 DEF Fields, Looping
  <2> QED
    BY <2>1, <2>2
<1>3. ASSUME NEW y \in XClients \ half', NEW s \in Settings \ clashed', Complete(y)'
      PROVE  own'[y][s] = field'[s] \/ \E b \in OneOps : Setting(b, s)'
  <2>1. Complete(y)
    <3>1. \A b \in OneOps : b # a /\ Storing(b, y)' => Storing(b, y)
      BY <1>1 DEF Storing
    <3> QED
      BY <1>3, <3>1 DEF Complete
  <2>2. own[y][s] = field[s] \/ \E b \in OneOps : Setting(b, s)
    BY <1>3, <2>1 DEF Fields
  <2>3. \A b \in OneOps : Setting(b, s) => b # a
    BY DEF Setting
  <2>4. \A b \in OneOps : Setting(b, s) => Setting(b, s)'
    BY <1>1, <2>3 DEF Setting
  <2> QED
    BY <2>2, <2>4
<1> QED
  BY <1>2, <1>3 DEF Fields

LEMMA FieldsStep ==
  ASSUME option \in OptionSet, OneTyped, Doing, Locks, Maps, Fields, option' = option,
         NEW a \in OneOps, OneStep(a)
  PROVE  Fields'
<1> USE DEF Goes, OneTyped, Begins, pastVars, Storing
<1>1. \A b : Job(b)' = Job(b) /\ Path(b)' = Path(b)
  BY JobStays
<1>2. \A b \in OneOps : b # a => one'[b] = one[b]
  BY OthersStay
<1>3. ASSUME one[a] \notin {"loop", "panicked"}, one'[a] # "loop",
             one'[a] = "store" => one[a] = "store",
             UNCHANGED <<field, own, clashed, half, entry>>
      PROVE  Fields'
  <2>1. \A y \in XClients \ half' :
          entry'[y] = "made" \/ Storing(a, y)' => entry[y] = "made" \/ Storing(a, y)
    BY <1>1, <1>3
  <2> QED
    BY <1>2, <1>3, <2>1, OtherFields
<1>4. CASE Create(a) \/ CloseOne(a)
  BY <1>3, <1>4, PastStays DEF Create, CloseOne
<1>5. CASE Lookup(a) \/ LookupLocked(a) \/ Configure(a) \/ Swap(a)
  <2>1. /\ one[a] \notin {"loop", "panicked"}
        /\ one'[a] \notin {"loop", "store"}
    BY <1>5 DEF Lookup, LookupLocked, Configure, Swap
  <2>2. UNCHANGED <<field, own, clashed, half, entry>>
    BY <1>5 DEF Lookup, LookupLocked, Configure, Swap
  <2> QED
    BY <1>3, <2>1, <2>2
<1>6. CASE SetSelector(a) \/ SelectorSet(a) \/ SetMode(a) \/ LocateBegin(a)
  <2>1. /\ one[a] \notin {"loop", "panicked"}
        /\ one'[a] \notin {"loop", "store"}
    BY <1>6 DEF SetSelector, SelectorSet, SetMode, LocateBegin
  <2>2. UNCHANGED <<field, own, clashed, half, entry>>
    BY <1>6 DEF SetSelector, SelectorSet, SetMode, LocateBegin
  <2> QED
    BY <1>3, <2>1, <2>2
<1>7. CASE LocateOne(a) \/ LocateEnd(a) \/ CloseBegin(a) \/ CloseEnd(a)
  <2>1. /\ one[a] \notin {"loop", "panicked"}
        /\ one'[a] \notin {"loop", "store"}
    BY <1>7 DEF LocateOne, LocateEnd, CloseBegin, CloseEnd
  <2>2. UNCHANGED <<field, own, clashed, half, entry>>
    BY <1>7 DEF LocateOne, LocateEnd, CloseBegin, CloseEnd
  <2> QED
    BY <1>3, <2>1, <2>2
<1>8. CASE CreateFail(a) \/ SwapPanics(a) \/ StoreXClient(a)
  <2>1. /\ one[a] \notin {"loop", "panicked"} /\ one'[a] \in {"failed", "done"}
        /\ UNCHANGED <<field, own, clashed>> /\ half \subseteq half'
    BY <1>8 DEF CreateFail, SwapPanics, StoreXClient
  <2>2. ASSUME NEW y \in XClients \ half', entry'[y] = "made" \/ Storing(a, y)'
        PROVE  entry[y] = "made" \/ Storing(a, y)
    <3>1. entry'[y] = "made"
      BY <2>1, <2>2
    <3>2. CASE CreateFail(a)
      BY <3>1, <3>2 DEF CreateFail
    <3>3. CASE SwapPanics(a)
      BY <2>2, <3>1, <3>3 DEF SwapPanics
    <3>4. CASE StoreXClient(a)
      BY <3>1, <3>4 DEF StoreXClient
    <3> QED
      BY <1>8, <3>2, <3>3, <3>4
  <2> QED
    BY <1>2, <2>1, <2>2, OtherFields
<1>9. CASE Locate(a)
  <2>1. CASE Inherit(a)
    BY <1>9, <2>1, InheritFields DEF Locate
  <2>2. CASE ~Inherit(a)
    <3>1. one'[a] = "place" /\ UNCHANGED <<field, own, clashed, half, entry>>
      BY <1>9, <2>2 DEF Locate
    <3>2. one[a] = "mode"
      BY <1>9 DEF Locate
    <3> QED
      BY <1>3, <3>1, <3>2
  <2> QED
    BY <2>1, <2>2
<1>10. CASE Place(a)
  BY <1>10, InheritFields DEF Place
<1>11. CASE SetField(a) \/ SetLoop(a)
  BY <1>11, SetFieldFields, SetLoopFields
<1> QED
  BY <1>4, <1>5, <1>6, <1>7, <1>8, <1>9, <1>10, <1>11 DEF OneStep

-----------------------------------------------------------------------------
(* What a step does to the mode of a selector *)

\* The modes of what y has and awaits stay.
Kind(y) == sel'[y].mode = sel[y].mode /\ pending'[y].mode = pending[y].mode

LEMMA UpdatedMode ==
  ASSUME NEW s \in SelectorRecord, NEW l, NEW o
  PROVE  Updated(s, l, o).mode = s.mode
  BY DEF Updated, SelectorRecord

LEMMA PrepareModes ==
  ASSUME DirInv, NEW x \in XClients, NEW m \in Modes, Prepare(x, m)
  PROVE  /\ sel' = sel /\ pending'[x].mode = m
         /\ \A y \in XClients : y # x => Kind(y)
<1>1. PICK t : pending' = [pending EXCEPT ![x] = t] /\ pending'[x].mode = m
  BY PrepareInv
<1>2. sel' = sel
  BY DEF Prepare
<1> QED
  BY <1>1, <1>2 DEF DirInv, ClientsTyped, Kind

LEMMA InstallModes ==
  ASSUME DirInv, NEW x \in XClients, Install(x)
  PROVE  /\ sel'[x].mode = pending[x].mode /\ pending'[x].mode = "none"
         /\ pending[x].mode # "none"
         /\ \A y \in XClients : y # x => Kind(y)
<1>1. Sound(pending[x]) /\ pending[x] # NoSelector
  BY ClientIs DEF ClientOK, Install
<1>2. pending[x].mode # "none"
  BY <1>1 DEF Sound
<1>3. sel' = [sel EXCEPT ![x] = pending[x]] /\ pending' = [pending EXCEPT ![x] = NoSelector]
  BY DEF Install
<1> QED
  BY <1>2, <1>3, NoSelectorSound DEF DirInv, ClientsTyped, Kind

LEMMA ListAsModes ==
  ASSUME DirInv, NEW x \in XClients, NEW m, ListAs(x, m)
  PROVE  pending' = pending /\ \A y \in XClients : y # x => Kind(y)
<1>1. sel' = sel \/ \E s : sel' = [sel EXCEPT ![x] = s]
  BY DEF ListAs
<1>2. pending' = pending
  BY DEF ListAs
<1> QED
  BY <1>1, <1>2 DEF DirInv, ClientsTyped, Kind

\* The directory and the application leave alone what is not theirs.
LEMMA DirKeepsKind ==
  ASSUME DirInv, DirNext, NEW y \in XClients, y \notin option.direct \cup option.swapped
  PROVE  Kind(y)
<1>1. ASSUME UNCHANGED <<sel, pending>> PROVE Kind(y)
  BY <1>1 DEF Kind
<1>2. ASSUME NEW x \in XClients, NEW l, Replace(x, l) PROVE Kind(y)
  <2>1. PICK o : sel' = [sel EXCEPT ![x] = Updated(sel[x], l, o)]
    BY <1>2 DEF Replace
  <2>2. sel[x] \in SelectorRecord /\ pending' = pending
    BY <1>2 DEF Replace, DirInv, ClientsTyped
  <2>3. Updated(sel[x], l, o).mode = sel[x].mode
    BY <2>2, UpdatedMode
  <2> QED
    BY <2>1, <2>2, <2>3 DEF Kind, DirInv, ClientsTyped
<1>3. ASSUME NEW d \in Discoveries, Change(d) \/ DiscoveryStep(d) PROVE Kind(y)
  BY <1>1, <1>3 DEF Change, DiscoveryStep, Ask, AskFail, Store, Tell, selVars
<1>4. ASSUME NEW x \in XClients, Direct(x) PROVE Kind(y)
  <2>1. CASE x \in option.direct /\ GetServices(x)
    BY <2>1, ListAsModes DEF GetServices
  <2>2. CASE WatchService(x) \/ MarkClosed(x)
    BY <1>1, <2>2 DEF WatchService, MarkClosed, selVars
  <2>3. CASE x \in option.swapped /\ \E mode \in {"user", "closest"} : Prepare(x, mode)
    BY <2>3, PrepareModes DEF Modes
  <2>4. CASE x \in option.direct /\ Install(x)
    BY <2>4, InstallModes
  <2>5. CASE Select(x)
    <3>1. sel'[x].mode = sel[x].mode /\ \E s : sel' = [sel EXCEPT ![x] = s]
      BY <2>5, SelectInv
    <3>2. pending' = pending
      BY <2>5 DEF Select
    <3> QED
      BY <3>1, <3>2 DEF Kind, DirInv, ClientsTyped
  <2> QED
    BY <1>4, <2>1, <2>2, <2>3, <2>4, <2>5 DEF Direct
<1>5. ASSUME NEW x \in XClients, Loops(x) PROVE Kind(y)
  <2>1. CASE Receive(x)
    BY <1>2, <2>1 DEF Receive
  <2>2. CASE Deliver(x) \/ WatchEnd(x) \/ RemoveWatcher(x) \/ CloseChannel(x)
    BY <1>1, <2>2 DEF Deliver, WatchEnd, RemoveWatcher, CloseChannel, selVars
  <2> QED
    BY <1>5, <2>1, <2>2 DEF Loops
<1>6. CASE Announce
  BY <1>1, <1>6 DEF Announce, selVars
<1>7. CASE SetInitAceClient
  <2>1. option.centre \in XClients
    BY <1>7 DEF SetInitAceClient, DirInv, CentreTyped
  <2>2. PICK x \in XClients : x = option.centre
    BY <2>1
  <2> QED
    BY <1>2, <1>7, <2>2 DEF SetInitAceClient
<1> QED
  BY <1>3, <1>4, <1>5, <1>6, <1>7 DEF DirNext

LEMMA PathsKeepKind ==
  ASSUME DirInv, DirNext
  PROVE  \A y \in GetPaths : Kind(y)
<1>1. ASSUME NEW y \in GetPaths
      PROVE  y \in XClients /\ y \notin option.direct \cup option.swapped
  BY MapAssumption DEF GetPaths, Job, Path, DirInv, CentreTyped
<1> QED
  BY <1>1, DirKeepsKind

-----------------------------------------------------------------------------
(* The selectors *)

LEMMA LocatingStays ==
  ASSUME option' = option
  PROVE  /\ geo' = geo => \A y : Locating(y)' <=> Locating(y)
         /\ geo' => \A y : Locating(y)'
  BY DEF Locating

\* What waits at a path, or holds the map, is a path of the map.
LEMMA PathsAre ==
  ASSUME option \in OptionSet, Doing, Maps, NEW a \in OneOps
  PROVE  /\ Path(a) \in XClients
         /\ one[a] \in {"create", "swap", "mode", "place", "store"} => Path(a) \in GetPaths
         /\ Kept \subseteq GetPaths
<1>1. Path(a) \in XClients
  BY JobIs
<1>2. Places(a) /\ Making(a)
  BY DEF Doing, Maps
<1>3. \A x \in XClients : entry[x] # "none" => x \in GetPaths
  BY DEF Maps
<1>4. Job(a).what = "get" => Path(a) \in GetPaths
  BY <1>1 DEF GetPaths
<1>5. one[a] = "swap" /\ Job(a).what = "selector" => Path(a) \in GetPaths
  BY <1>1, <1>2, <1>3 DEF Making
<1> QED
  BY <1>1, <1>2, <1>3, <1>4, <1>5 DEF Places, Kept

LEMMA ModedFrame ==
  ASSUME option \in OptionSet, Doing, Maps, Moded, option' = option,
         UNCHANGED oneVars, \A y \in GetPaths : Kind(y)
  PROVE  Moded'
<1>1. (\A b : Job(b)' = Job(b) /\ Path(b)' = Path(b)) /\ GetPaths' = GetPaths
  BY JobStays
<1>2. /\ geo' = geo /\ located' = located /\ entry' = entry
      /\ selectors' = selectors /\ one' = one /\ half' = half
  BY PastStays
<1>3. \A y : Locating(y)' <=> Locating(y)
  BY <1>2, LocatingStays
<1>4. ASSUME NEW b \in OneOps PROVE Swaps(b)' /\ Puts(b)' /\ Locates(b)'
  <2>1. Swaps(b) /\ Puts(b) /\ Locates(b)
    BY DEF Moded
  <2>2. Swaps(b)' /\ Puts(b)'
    BY <1>1, <1>2, <1>3, <2>1, PathsAre DEF Swaps, Puts, Kind
  <2>3. Locates(b)'
    BY <1>1, <1>2, <2>1, PathsAre DEF Locates, Kind, Kept
  <2> QED
    BY <2>2, <2>3
<1>5. ASSUME NEW y \in GetPaths PROVE Awaits(y)' /\ (y \notin half => Selected(y)')
  <2>1. Awaits(y) /\ (y \notin half => Selected(y)) /\ Kind(y)
    BY DEF Moded
  <2>2. Awaits(y)'
    BY <1>1, <1>2, <1>3, <2>1 DEF Awaits, Kind
  <2>3. ASSUME y \notin half PROVE Selected(y)'
    BY <1>1, <1>2, <1>3, <2>1, <2>3
       DEF Selected, Kind, Fitted, Fitting, Complete, Storing, Changing, GeoOnWay
  <2> QED
    BY <2>2, <2>3
<1> QED
  BY <1>1, <1>2, <1>4, <1>5 DEF Moded

\* A step of a that neither sets a selector nor is of ConfigGeoSelector, by which no xClient
\* is fitted or complete that must have another one.
LEMMA QuietModes ==
  ASSUME option \in OptionSet, OneTyped, Doing, Maps, Moded, option' = option,
         NEW a \in OneOps, \A b \in OneOps : b # a => one'[b] = one[b],
         \A y \in GetPaths : Kind(y), UNCHANGED <<geo, located, selectors>>,
         Kept \subseteq Kept', half \subseteq half',
         one[a] # "swap", one'[a] \notin {"new", "swap", "place", "locate"},
         Job(a).what = "geo" => one[a] # "new",
         one'[a] = "locating" => one[a] = "locate",
         GeoOnWay(a) => GeoOnWay(a)',
         \A y \in GetPaths \ half' :
           /\ entry'[y] = "made" \/ Fitting(a, y)'
                => entry[y] = "made" \/ Fitting(a, y) \/ y \notin selectors
           /\ entry'[y] = "made" \/ Storing(a, y)'
                => entry[y] = "made" \/ Storing(a, y) \/ ~Locating(y)
  PROVE  Moded'
<1>1. (\A b : Job(b)' = Job(b) /\ Path(b)' = Path(b)) /\ GetPaths' = GetPaths
  BY JobStays
<1>2. \A y : Locating(y)' <=> Locating(y)
  BY LocatingStays
<1>3. ASSUME NEW b \in OneOps PROVE Swaps(b)' /\ Puts(b)' /\ Locates(b)'
  <2>1. Swaps(b) /\ Puts(b) /\ Locates(b)
    BY DEF Moded
  <2>2. Swaps(b)'
    BY <1>1, <2>1, PathsAre DEF Swaps, Kind
  <2>3. Puts(b)'
    BY <1>1, <1>2, <2>1, PathsAre DEF Puts, Kind
  <2>4. Locates(b)'
    <3>1. CASE b # a
      BY <1>1, <2>1, <3>1, PathsAre DEF Locates, Kind
    <3>2. CASE b = a
      BY <1>1, <2>1, <3>2 DEF Locates
    <3> QED
      BY <3>1, <3>2
  <2> QED
    BY <2>2, <2>3, <2>4
<1>4. ASSUME NEW y \in GetPaths PROVE Awaits(y)' /\ (y \notin half' => Selected(y)')
  <2>1. Awaits(y) /\ (y \notin half => Selected(y)) /\ Kind(y)
    BY DEF Moded
  <2>2. Awaits(y)'
    BY <1>1, <1>2, <2>1 DEF Awaits, Kind
  <2>3. ASSUME y \notin half' PROVE Selected(y)'
    <3>1. Selected(y)
      BY <2>1, <2>3
    <3>2. Fitted(y)' => Fitted(y) \/ y \notin selectors
      <4>1. \A b \in OneOps : b # a /\ Fitting(b, y)' => Fitting(b, y)
        BY <1>1 DEF Fitting
      <4> QED
        BY <2>3, <4>1 DEF Fitted
    <3>3. Complete(y)' => Complete(y) \/ ~Locating(y)
      <4>1. \A b \in OneOps : b # a /\ Storing(b, y)' => Storing(b, y)
        BY <1>1 DEF Storing
      <4> QED
        BY <2>3, <4>1 DEF Complete
    <3>4. \A b \in OneOps : Changing(b, y) => Changing(b, y)'
      BY <1>1 DEF Changing
    <3>5. \A b \in OneOps : GeoOnWay(b) => GeoOnWay(b)'
      BY <1>1 DEF GeoOnWay
    <3> QED
      BY <1>2, <2>1, <3>1, <3>2, <3>3, <3>4, <3>5 DEF Selected, Kind
  <2> QED
    BY <2>2, <2>3
<1> QED
  BY <1>1, <1>3, <1>4 DEF Moded

\* A step of a, which has the map to itself, on the xClient of its path.
LEMMA WriterModes ==
  ASSUME option \in OptionSet, OneTyped, Doing, Maps, Moded, option' = option,
         NEW a \in OneOps, \A b \in OneOps : b # a => one'[b] = one[b],
         \A b \in OneOps : b # a => ~Writes(b) /\ ~Reads(b),
         Job(a).what \in {"get", "selector"},
         NEW x, x = Path(a), \A y \in GetPaths : y # x => Kind(y),
         UNCHANGED <<geo, located, entry, half>>,
         \A y : y # x => (y \in selectors' <=> y \in selectors),
         Swaps(a)', Puts(a)',
         x \in GetPaths => Awaits(x)' /\ (x \notin half => Selected(x)')
  PROVE  Moded'
<1>1. (\A b : Job(b)' = Job(b) /\ Path(b)' = Path(b)) /\ GetPaths' = GetPaths
  BY JobStays
<1>2. \A y : Locating(y)' <=> Locating(y)
  BY LocatingStays
<1>3. \A b \in OneOps : b # a =>
        one[b] \notin {"create", "swap", "mode", "place", "store", "locating"}
  BY DEF Writes, Reads
<1>4. ASSUME NEW b \in OneOps PROVE Swaps(b)' /\ Puts(b)' /\ Locates(b)'
  <2>1. Locates(b)
    BY DEF Moded
  <2>2. CASE b # a
    <3>1. Swaps(b)' /\ Puts(b)'
      BY <1>3, <2>2 DEF Swaps, Puts
    <3>2. Locates(b)'
      BY <1>1, <1>3, <2>1, <2>2 DEF Locates, Kept
    <3> QED
      BY <3>1, <3>2
  <2>3. CASE b = a
    <3>1. located[a] = {}
      BY <2>1, <2>3 DEF Locates
    <3> QED
      BY <1>1, <2>3, <3>1 DEF Locates
  <2> QED
    BY <2>2, <2>3
<1>5. ASSUME NEW y \in GetPaths PROVE Awaits(y)' /\ (y \notin half => Selected(y)')
  <2>1. Awaits(y) /\ (y \notin half => Selected(y))
    BY DEF Moded
  <2>2. CASE y # x
    <3>1. Kind(y) /\ (y \in selectors' <=> y \in selectors)
      BY <2>2
    <3>2. Awaits(y)'
      <4>1. \A b \in OneOps : Path(b) = y => b # a
        BY <2>2
      <4> QED
        BY <1>1, <1>2, <2>1, <3>1, <4>1 DEF Awaits, Kind
    <3>3. ASSUME y \notin half PROVE Selected(y)'
      <4>1. \A b \in OneOps : Fitting(b, y)' => Fitting(b, y)
        BY <1>1, <2>2 DEF Fitting
      <4>2. \A b \in OneOps : Storing(b, y)' => Storing(b, y)
        BY <1>1, <2>2 DEF Storing
      <4>3. \A b \in OneOps : Changing(b, y) => Changing(b, y)'
        BY <1>1, <2>2 DEF Changing
      <4>4. \A b \in OneOps : GeoOnWay(b) => GeoOnWay(b)'
        BY <1>1 DEF GeoOnWay
      <4>5. (Fitted(y)' => Fitted(y)) /\ (Complete(y)' => Complete(y))
        BY <4>1, <4>2 DEF Fitted, Complete
      <4> QED
        BY <1>2, <2>1, <3>1, <3>3, <4>3, <4>4, <4>5 DEF Selected, Kind
    <3> QED
      BY <3>2, <3>3
  <2>3. CASE y = x
    BY <2>3
  <2> QED
    BY <2>2, <2>3
<1> QED
  BY <1>1, <1>4, <1>5 DEF Moded
LEMMA KindStays ==
  ASSUME UNCHANGED <<sel, pending>>
  PROVE  \A y : Kind(y)
  BY DEF Kind

LEMMA DirVarsKind ==
  ASSUME UNCHANGED dirVars
  PROVE  \A y : Kind(y)
<1>1. UNCHANGED <<sel, pending>>
  BY DEF dirVars, selVars
<1> QED
  BY <1>1, KindStays

\* The calls of getXClient that set no selector.
LEMMA GetQuietModes ==
  ASSUME option \in OptionSet, OneTyped, Doing, Maps, Moded, option' = option,
         NEW a \in OneOps,
         \/ Lookup(a) \/ LookupLocked(a) \/ CreateFail(a) \/ SwapPanics(a) \/ StoreXClient(a)
         \/ Configure(a) /\ Path(a) \notin selectors
         \/ Locate(a) /\ ~Locating(Path(a))
  PROVE  Moded'
<1> USE DEF Goes, Begins, geoVars, pastVars
<1> DEFINE x == Path(a)
<1>1. (\A b : Job(b)' = Job(b) /\ Path(b)' = Path(b)) /\ GetPaths' = GetPaths
  BY JobStays
<1>2. \A b \in OneOps : b # a => one'[b] = one[b]
  BY OthersStay DEF OneStep
<1>3. Places(a) /\ a \in DOMAIN one /\ x \in DOMAIN entry
  BY PathsAre DEF Doing, OneTyped
<1>4. Job(a).what = "get"
  BY <1>3 DEF Lookup, LookupLocked, CreateFail, SwapPanics, StoreXClient, Configure, Locate,
              Places
<1>5. UNCHANGED dirVars
  BY DEF Lookup, LookupLocked, CreateFail, SwapPanics, StoreXClient, Configure, Locate,
         Locating
<1>6. /\ UNCHANGED <<geo, located, selectors>>
      /\ one[a] # "swap" /\ one'[a] \notin {"new", "swap", "place", "locate", "locating"}
  BY <1>3 DEF Lookup, LookupLocked, CreateFail, SwapPanics, StoreXClient, Configure, Locate,
              Inherit, Locating
<1>7. Kept \subseteq Kept' /\ half \subseteq half'
  BY <1>3 DEF Lookup, LookupLocked, CreateFail, SwapPanics, StoreXClient, Configure, Locate,
              Kept, OneTyped
<1>8. ASSUME NEW y \in GetPaths \ half'
      PROVE  /\ entry'[y] = "made" \/ Fitting(a, y)'
                  => entry[y] = "made" \/ Fitting(a, y) \/ y \notin selectors
             /\ entry'[y] = "made" \/ Storing(a, y)'
                  => entry[y] = "made" \/ Storing(a, y) \/ ~Locating(y)
  <2>1. y \in XClients
    BY DEF GetPaths
  <2>2. CASE Lookup(a) \/ LookupLocked(a)
    BY <1>1, <1>3, <2>2 DEF Lookup, LookupLocked, Fitting, Storing
  <2>3. CASE CreateFail(a) \/ SwapPanics(a)
    BY <1>1, <1>3, <1>8, <2>1, <2>3 DEF CreateFail, SwapPanics, Fitting, Storing, OneTyped
  <2>4. CASE StoreXClient(a)
    BY <1>1, <1>3, <2>1, <2>4 DEF StoreXClient, Fitting, Storing, OneTyped
  <2>5. CASE Configure(a) /\ x \notin selectors
    BY <1>1, <1>3, <2>5 DEF Configure, Fitting, Storing
  <2>6. CASE Locate(a) /\ ~Locating(x)
    BY <1>1, <1>3, <2>6 DEF Locate, Locating, Inherit, Fitting, Storing
  <2> QED
    BY <2>2, <2>3, <2>4, <2>5, <2>6
<1>9. \A y \in GetPaths : Kind(y)
  BY <1>5, DirVarsKind
<1>10. ~GeoOnWay(a) /\ Job(a).what # "geo"
  BY <1>4 DEF GeoOnWay
<1> QED
  BY <1>2, <1>6, <1>7, <1>8, <1>9, <1>10, QuietModes

\* The settings, Close, and the loop of ConfigGeoSelector, its beginning and its panic.
LEMMA RestQuietModes ==
  ASSUME option \in OptionSet, OneTyped, Doing, Maps, Moded, option' = option,
         NEW a \in OneOps,
         \/ SetField(a) \/ SetLoop(a) \/ CloseBegin(a) \/ CloseEnd(a) \/ LocateBegin(a)
         \/ LocateEnd(a) /\ Nils # {}
  PROVE  Moded'
<1> USE DEF Goes, Begins, geoVars, pastVars
<1>1. (\A b : Job(b)' = Job(b) /\ Path(b)' = Path(b)) /\ GetPaths' = GetPaths
  BY JobStays
<1>2. \A b \in OneOps : b # a => one'[b] = one[b]
  BY OthersStay DEF OneStep
<1>3. Places(a) /\ a \in DOMAIN one
  BY DEF Doing, OneTyped
<1>4. /\ UNCHANGED dirVars /\ UNCHANGED <<geo, located, selectors, entry, half>>
  BY DEF SetField, SetLoop, CloseBegin, CloseEnd, LocateBegin, LocateEnd
<1>5. /\ one[a] # "swap" /\ one'[a] \in {"loop", "done", "panicked", "closing", "locating"}
      /\ one'[a] = "locating" => one[a] = "locate"
  BY <1>3 DEF SetField, SetLoop, CloseBegin, CloseEnd, LocateBegin, LocateEnd
<1>6. /\ Job(a).what = "geo" => one[a] # "new" /\ one'[a] \in {"locating", "panicked"}
  BY <1>3 DEF SetField, SetLoop, CloseBegin, CloseEnd, LocateBegin, LocateEnd, Places
<1>7. Kept \subseteq Kept' /\ half \subseteq half' /\ (GeoOnWay(a) => GeoOnWay(a)')
  BY <1>1, <1>4, <1>6 DEF Kept, GeoOnWay
<1>8. \A y \in GetPaths : ~Fitting(a, y)' /\ ~Storing(a, y)'
  BY <1>5 DEF Fitting, Storing
<1>9. \A y \in GetPaths : Kind(y)
  BY <1>4, DirVarsKind
<1> QED
  BY <1>2, <1>4, <1>5, <1>6, <1>7, <1>8, <1>9, QuietModes

\* While a has the map to itself, an xClient it has not made is neither complete nor fitted.
LEMMA Unfinished ==
  ASSUME option' = option, NEW a \in OneOps, NEW x, x = Path(a), entry[x] # "made",
         entry' = entry, one'[a] \notin {"mode", "store"},
         \A b \in OneOps : b # a => one'[b] = one[b],
         \A b \in OneOps : b # a => ~Writes(b) /\ ~Reads(b)
  PROVE  Selected(x)'
<1>1. \A b \in OneOps : one'[b] \notin {"mode", "store"}
  BY DEF Writes
<1>2. ~Fitted(x)' /\ ~Complete(x)'
  BY <1>1 DEF Fitted, Fitting, Complete, Storing
<1> QED
  BY <1>2 DEF Selected

\* Making an xClient: its list, the selector of its path, and ConfigGeoSelector.
LEMMA MakerModes ==
  ASSUME DirInv, OneTyped, Doing, Locks, Maps, Moded, option' = option, NEW a \in OneOps,
         \/ Create(a) \/ Swap(a) \/ Place(a)
         \/ Configure(a) /\ Path(a) \in selectors
         \/ Locate(a) /\ Locating(Path(a))
  PROVE  Moded'
<1> USE DEF Goes, Begins, geoVars, pastVars
<1>1. (\A b : Job(b)' = Job(b) /\ Path(b)' = Path(b)) /\ GetPaths' = GetPaths
  BY JobStays
<1>2. \A b \in OneOps : b # a => one'[b] = one[b]
  BY OthersStay DEF OneStep
<1>3. option \in OptionSet
  BY DEF DirInv, CentreTyped
<1>4. PICK x \in XClients : x = Path(a)
  BY <1>3, PathsAre
<1>5. Places(a) /\ Making(a) /\ Swaps(a) /\ Puts(a) /\ Locates(a) /\ a \in DOMAIN one
  BY DEF Doing, Maps, Moded, OneTyped
<1>6. one[a] \in {"create", "swap", "mode", "place"} /\ Job(a).what = "get"
  BY <1>5 DEF Create, Swap, Place, Configure, Locate, Places
<1>7. \A b \in OneOps : b # a => ~Writes(b) /\ ~Reads(b)
  BY <1>6, OneWriter DEF Writes
<1>8. x \in GetPaths /\ entry[x] # "made"
  BY <1>3, <1>4, <1>5, <1>6, PathsAre DEF Making
<1>9. Awaits(x) /\ "user" \in Modes /\ "closest" \in Modes
  BY <1>8 DEF Moded, Modes
<1>10. UNCHANGED <<geo, located, selectors, entry, half>>
  <2>1. CASE Create(a)
    BY <2>1, PastStays DEF Create
  <2> QED
    BY <2>1 DEF Swap, Place, Configure, Locate
<1>11. \A y : Locating(y)' <=> Locating(y)
  BY <1>10, LocatingStays
<1>12. ASSUME \A y \in GetPaths : y # x => Kind(y), Swaps(a)', Puts(a)', Awaits(x)',
              Selected(x)'
       PROVE  Moded'
  BY <1>2, <1>3, <1>4, <1>6, <1>7, <1>10, <1>12, WriterModes
<1>13. ASSUME one'[a] \notin {"mode", "store"} PROVE Selected(x)'
  BY <1>2, <1>4, <1>7, <1>8, <1>10, <1>13, Unfinished
<1>14. \A y \in GetPaths : y \in XClients
  BY DEF GetPaths
<1>15. CASE Create(a)
  <2>1. one' = one
    BY <1>15, PastStays DEF Create
  <2>2. one[a] = "create"
    BY <1>15 DEF Create
  <2>3. CASE WatchService(x)
    <3>1. \A y \in GetPaths : Kind(y)
      BY <2>3, KindStays DEF WatchService, selVars
    <3> QED
      BY <1>3, <1>15, <3>1, ModedFrame DEF Create
  <2>4. CASE ~WatchService(x)
    <3>1. PICK m : ListAs(x, m)
      BY <1>4, <1>15, <2>4 DEF Create
    <3>2. pending' = pending /\ \A y \in XClients : y # x => Kind(y)
      BY <3>1, ListAsModes
    <3>3. Awaits(x)'
      BY <1>1, <1>9, <1>11, <2>1, <3>2 DEF Awaits
    <3> QED
      BY <1>12, <1>13, <1>14, <2>1, <2>2, <3>2, <3>3 DEF Swaps, Puts
  <2> QED
    BY <2>3, <2>4
<1>16. CASE Configure(a) /\ Path(a) \in selectors
  <2>1. Prepare(x, "user") /\ one'[a] = "swap" /\ x \in selectors
    BY <1>4, <1>5, <1>16 DEF Configure
  <2>2. pending'[x].mode = "user" /\ \A y \in XClients : y # x => Kind(y)
    BY <1>9, <2>1, PrepareModes
  <2>3. Swaps(a)' /\ Puts(a)' /\ Awaits(x)'
    BY <1>1, <1>4, <1>10, <2>1, <2>2 DEF Swaps, Puts, Awaits
  <2> QED
    BY <1>12, <1>13, <1>14, <2>1, <2>2, <2>3
<1>17. CASE Swap(a)
  <2>1. Install(x) /\ one'[a] = "mode" /\ one[a] = "swap"
    BY <1>4, <1>5, <1>17 DEF Swap
  <2>2. /\ sel'[x].mode = "user" /\ pending'[x].mode = "none"
        /\ \A y \in XClients : y # x => Kind(y)
    BY <1>4, <1>5, <2>1, InstallModes DEF Swaps
  <2>3. Swaps(a)' /\ Puts(a)' /\ Awaits(x)'
    BY <2>1, <2>2 DEF Swaps, Puts, Awaits
  <2>4. ~Complete(x)'
    BY <1>1, <1>2, <1>7, <1>8, <1>10, <2>1 DEF Complete, Storing, Writes
  <2>5. Selected(x)'
    BY <2>2, <2>4 DEF Selected
  <2> QED
    BY <1>12, <1>14, <2>2, <2>3, <2>5
<1>18. CASE Locate(a) /\ Locating(Path(a))
  <2>1. Prepare(x, "closest") /\ one'[a] = "place" /\ Locating(x)
    BY <1>4, <1>5, <1>18 DEF Locate, Locating
  <2>2. pending'[x].mode = "closest" /\ \A y \in XClients : y # x => Kind(y)
    BY <1>9, <2>1, PrepareModes
  <2>3. Swaps(a)' /\ Puts(a)' /\ Awaits(x)'
    BY <1>1, <1>4, <1>11, <2>1, <2>2 DEF Swaps, Puts, Awaits
  <2> QED
    BY <1>12, <1>13, <1>14, <2>1, <2>2, <2>3
<1>19. CASE Place(a)
  <2>1. Install(x) /\ one'[a] = "store" /\ one[a] = "place"
    BY <1>4, <1>5, <1>19 DEF Place, Inherit
  <2>2. /\ sel'[x].mode = "closest" /\ pending'[x].mode = "none" /\ Locating(x)
        /\ \A y \in XClients : y # x => Kind(y)
    BY <1>4, <1>5, <2>1, InstallModes DEF Puts
  <2>3. Swaps(a)' /\ Puts(a)' /\ Awaits(x)'
    BY <2>1, <2>2 DEF Swaps, Puts, Awaits
  <2>4. Selected(x)'
    BY <1>11, <2>2 DEF Selected
  <2> QED
    BY <1>12, <1>14, <2>2, <2>3, <2>4
<1> QED
  BY <1>15, <1>16, <1>17, <1>18, <1>19

LEMMA SetSelectorModes ==
  ASSUME DirInv, OneTyped, Doing, Locks, Maps, Moded, option' = option, NEW a \in OneOps,
         SetSelector(a)
  PROVE  Moded'
<1> USE DEF Goes, Begins, geoVars, pastVars
<1>1. (\A b : Job(b)' = Job(b) /\ Path(b)' = Path(b)) /\ GetPaths' = GetPaths
  BY JobStays
<1>2. \A b \in OneOps : b # a => one'[b] = one[b]
  BY OthersStay DEF OneStep
<1>3. option \in OptionSet
  BY DEF DirInv, CentreTyped
<1>4. PICK x \in XClients : x = Path(a)
  BY <1>3, PathsAre
<1>5. /\ a \in DOMAIN one /\ "user" \in Modes
      /\ one[a] = "new" /\ Job(a).what = "selector" /\ Free
      /\ UNCHANGED <<geo, located, entry, half>> /\ selectors' = selectors \cup {x}
  BY <1>4 DEF SetSelector, OneTyped, Modes
<1>6. \A b \in OneOps : b # a => ~Writes(b) /\ ~Reads(b)
  BY <1>5, OneWriter DEF Free
<1>7. \A y : Locating(y)' <=> Locating(y)
  BY <1>5, LocatingStays
<1>8. \A y : y # x => (y \in selectors' <=> y \in selectors)
  BY <1>5
<1>9. ASSUME \A y \in GetPaths : y # x => Kind(y), Swaps(a)', Puts(a)',
             x \in GetPaths => Awaits(x)' /\ (x \notin half => Selected(x)')
      PROVE  Moded'
  BY <1>2, <1>3, <1>4, <1>5, <1>6, <1>8, <1>9, WriterModes
<1>10. x \in GetPaths => Awaits(x) /\ (x \notin half => Selected(x))
  BY DEF Moded
<1>11. CASE UNCHANGED dirVars /\ one'[a] \in {"done", "panicked"} /\ entry[x] # "made"
  <2>1. \A y : Kind(y)
    BY <1>11, DirVarsKind
  <2>2. Selected(x)'
    BY <1>2, <1>4, <1>5, <1>6, <1>11, Unfinished
  <2>3. x \in GetPaths => Awaits(x)'
    <3>1. Kind(x)
      BY <2>1
    <3>2. (\E b \in OneOps : one[b] = "swap" /\ Path(b) = x)
             => \E b \in OneOps : one'[b] = "swap" /\ Path(b)' = x
      BY <1>1, <1>2, <1>5
    <3> QED
      BY <1>7, <1>10, <3>1, <3>2 DEF Awaits, Kind
  <2> QED
    BY <1>9, <1>11, <2>1, <2>2, <2>3 DEF Swaps, Puts
<1>12. CASE entry[x] = "made" /\ one'[a] = "swap" /\ Prepare(x, "user")
  <2>1. x \in GetPaths
    BY <1>12 DEF Maps
  <2>2. /\ sel' = sel /\ pending'[x].mode = "user"
        /\ \A y \in XClients : y # x => Kind(y)
    BY <1>5, <1>12, PrepareModes
  <2>3. Swaps(a)' /\ Puts(a)' /\ Awaits(x)'
    BY <1>1, <1>4, <1>5, <1>12, <2>2 DEF Swaps, Puts, Awaits
  <2>4. ASSUME x \notin half PROVE Selected(x)'
    <3>1. Selected(x) /\ Complete(x)
      BY <1>10, <1>12, <2>1, <2>4 DEF Complete
    <3>2. Changing(a, x)'
      BY <1>1, <1>4, <1>5, <1>12 DEF Changing
    <3>3. \A b \in OneOps : GeoOnWay(b) => GeoOnWay(b)'
      BY <1>1, <1>2, <1>5 DEF GeoOnWay
    <3> QED
      BY <1>5, <1>7, <2>2, <3>1, <3>2, <3>3 DEF Selected
  <2>5. \A y \in GetPaths : y \in XClients
    BY DEF GetPaths
  <2> QED
    BY <1>9, <2>2, <2>3, <2>4, <2>5
<1> QED
  BY <1>4, <1>5, <1>11, <1>12 DEF SetSelector

LEMMA SelectorSetModes ==
  ASSUME DirInv, OneTyped, Doing, Locks, Maps, Moded, option' = option, NEW a \in OneOps,
         SelectorSet(a)
  PROVE  Moded'
<1> USE DEF Goes, geoVars, pastVars
<1>1. (\A b : Job(b)' = Job(b) /\ Path(b)' = Path(b)) /\ GetPaths' = GetPaths
  BY JobStays
<1>2. \A b \in OneOps : b # a => one'[b] = one[b]
  BY OthersStay DEF OneStep
<1>3. option \in OptionSet
  BY DEF DirInv, CentreTyped
<1>4. PICK x \in XClients : x = Path(a)
  BY <1>3, PathsAre
<1>5. /\ one[a] = "swap" /\ one'[a] = "done" /\ Job(a).what = "selector"
      /\ UNCHANGED <<geo, located, entry, half, selectors>> /\ Install(x)
  BY <1>4 DEF SelectorSet, OneTyped
<1>6. x \in GetPaths /\ Swaps(a)
  BY <1>3, <1>4, <1>5, PathsAre DEF Moded
<1>7. \A b \in OneOps : b # a => ~Writes(b) /\ ~Reads(b)
  BY <1>5, OneWriter DEF Writes
<1>8. /\ sel'[x].mode = "user" /\ pending'[x].mode = "none" /\ x \in selectors
      /\ \A y \in XClients : y # x => Kind(y)
  BY <1>4, <1>5, <1>6, InstallModes DEF Swaps
<1>9. Swaps(a)' /\ Puts(a)' /\ Awaits(x)' /\ Selected(x)'
  BY <1>5, <1>8 DEF Swaps, Puts, Awaits, Selected
<1>10. \A y \in GetPaths : y \in XClients
  BY DEF GetPaths
<1> QED
  BY <1>2, <1>3, <1>4, <1>5, <1>7, <1>8, <1>9, <1>10, WriterModes

\* ConfigGeoSelector is on its way, and every xClient it may not reach gets its selector.
LEMMA SetModeModes ==
  ASSUME option \in OptionSet, OneTyped, Doing, Maps, Moded, option' = option,
         NEW a \in OneOps, SetMode(a)
  PROVE  Moded'
<1> USE DEF Goes, Begins
<1>1. (\A b : Job(b)' = Job(b) /\ Path(b)' = Path(b)) /\ GetPaths' = GetPaths
  BY JobStays
<1>2. \A b \in OneOps : b # a => one'[b] = one[b]
  BY OthersStay DEF OneStep
<1>3. /\ one[a] = "new" /\ one'[a] = "locate" /\ Job(a).what = "geo" /\ geo'
      /\ located' = located /\ entry' = entry /\ selectors' = selectors /\ half' = half
  BY DEF SetMode, OneTyped, pastVars
<1>4. \A y : Locating(y)'
  BY <1>3, LocatingStays
<1>5. \A y : Kind(y)
  BY DirVarsKind DEF SetMode
<1>6. ASSUME NEW b \in OneOps PROVE Swaps(b)' /\ Puts(b)' /\ Locates(b)'
  <2>1. Swaps(b) /\ Puts(b) /\ Locates(b)
    BY DEF Moded
  <2>2. Swaps(b)' /\ Puts(b)'
    BY <1>1, <1>2, <1>3, <1>4, <1>5, <2>1 DEF Swaps, Puts, Kind
  <2>3. CASE b # a
    BY <1>1, <1>2, <1>3, <1>5, <2>1, <2>2, <2>3 DEF Locates, Kind, Kept
  <2>4. CASE b = a
    BY <1>1, <1>3, <2>1, <2>2, <2>4 DEF Locates
  <2> QED
    BY <2>3, <2>4
<1>7. ASSUME NEW y \in GetPaths PROVE Awaits(y)' /\ Selected(y)'
  <2>1. Awaits(y) /\ Kind(y)
    BY <1>5 DEF Moded
  <2>2. Awaits(y)'
    BY <1>1, <1>2, <1>3, <1>4, <2>1 DEF Awaits, Kind
  <2>3. GeoOnWay(a)'
    BY <1>1, <1>3 DEF GeoOnWay
  <2> QED
    BY <1>4, <2>2, <2>3 DEF Selected
<1> QED
  BY <1>1, <1>6, <1>7 DEF Moded

\* It gives an xClient its selector: nobody has the map to himself meanwhile.
LEMMA LocateOneModes ==
  ASSUME DirInv, OneTyped, Doing, Locks, Maps, Moded, option' = option, NEW a \in OneOps,
         LocateOne(a)
  PROVE  Moded'
<1>1. (\A b : Job(b)' = Job(b) /\ Path(b)' = Path(b)) /\ GetPaths' = GetPaths
  BY JobStays
<1>2. /\ one[a] = "locating" /\ Job(a).what = "geo" /\ Locates(a)
      /\ UNCHANGED <<geo, entry, selectors, one, half>>
  BY DEF LocateOne, pastVars, Doing, Places, Moded
<1>3. geo /\ \A y : Locating(y) /\ Locating(y)'
  BY <1>2 DEF Locates, Locating
<1>4. \A b \in OneOps : ~Writes(b)
  BY <1>2, OneWriter DEF Reads
<1>5. \A b \in OneOps : Swaps(b)' /\ Puts(b)'
  BY <1>2, <1>4 DEF Swaps, Puts, Writes
<1>6. Kept \subseteq GetPaths /\ GetPaths \subseteq XClients /\ located[a] \subseteq Kept
      /\ \A b \in OneOps : located[b] \subseteq XClients
  BY <1>2 DEF Locates, Maps, Kept, GetPaths, OneTyped
<1>7. ASSUME NEW x \in GetPaths, \A y \in XClients : y # x => Kind(y),
             pending'[x].mode = "none" => sel'[x].mode = "closest",
             \A b \in OneOps : b # a => located'[b] = located[b],
             located'[a] \subseteq located[a] \cup {x}, x \in Kept,
             pending'[x].mode \in {"none", "closest"},
             sel'[x].mode = "closest" \/ sel'[x].mode = sel[x].mode
      PROVE  Moded'
  <2>1. ASSUME NEW b \in OneOps PROVE Locates(b)'
    <3>1. Locates(b)
      BY DEF Moded
    <3>2. Kept' = Kept
      BY <1>2 DEF Kept
    <3>3. CASE b # a
      BY <1>1, <1>2, <1>3, <1>6, <1>7, <3>1, <3>2, <3>3 DEF Locates, Kind
    <3>4. CASE b = a
      BY <1>1, <1>2, <1>3, <1>6, <1>7, <3>1, <3>2, <3>4 DEF Locates, Kind
    <3> QED
      BY <3>3, <3>4
  <2>2. ASSUME NEW y \in GetPaths PROVE Awaits(y)'
    <3>1. Awaits(y)
      BY DEF Moded
    <3>2. CASE y # x
      BY <1>1, <1>2, <1>3, <1>6, <1>7, <3>1, <3>2 DEF Awaits, Kind
    <3> QED
      BY <1>3, <1>7, <3>2 DEF Awaits
  <2>3. ASSUME NEW y \in GetPaths, y \notin half PROVE Selected(y)'
    <3>1. Selected(y)
      BY <2>3 DEF Moded
    <3>2. sel'[y].mode = "closest" \/ sel'[y].mode = sel[y].mode
      BY <1>6, <1>7 DEF Kind
    <3>3. Complete(y)' => Complete(y)
      BY <1>1, <1>2 DEF Complete, Storing
    <3>4. \A b \in OneOps : GeoOnWay(b) => GeoOnWay(b)'
      BY <1>1, <1>2 DEF GeoOnWay
    <3> QED
      BY <1>2, <1>3, <3>1, <3>2, <3>3, <3>4 DEF Selected
  <2> QED
    BY <1>1, <1>2, <1>5, <2>1, <2>2, <2>3 DEF Moded
<1>8. ASSUME NEW x \in Kept, Prepare(x, "closest"),
             located' = [located EXCEPT ![a] = @ \cup {x}]
      PROVE  Moded'
  <2>1. /\ sel' = sel /\ pending'[x].mode = "closest"
        /\ \A y \in XClients : y # x => Kind(y)
    BY <1>6, <1>8, PrepareModes DEF Modes
  <2>2. located'[a] \subseteq located[a] \cup {x}
        /\ \A b \in OneOps : b # a => located'[b] = located[b]
    BY <1>8 DEF OneTyped
  <2> QED
    BY <1>6, <1>7, <1>8, <2>1, <2>2
<1>9. ASSUME NEW x \in Unplaced(a), Install(x), located' = located
      PROVE  Moded'
  <2>1. x \in Kept /\ x \in GetPaths /\ x \in XClients
    BY <1>6, <1>9 DEF Unplaced
  <2>2. /\ sel'[x].mode = pending[x].mode /\ pending'[x].mode = "none"
        /\ pending[x].mode # "none" /\ \A y \in XClients : y # x => Kind(y)
    BY <1>9, <2>1, InstallModes
  <2>3. pending[x].mode = "closest"
    BY <1>4, <2>1, <2>2 DEF Moded, Awaits, Writes
  <2> QED
    BY <1>7, <1>9, <2>1, <2>2, <2>3
<1> QED
  BY <1>8, <1>9 DEF LocateOne

\* It has been through: every xClient in the map has the closest server now.
LEMMA LocateEndModes ==
  ASSUME DirInv, OneTyped, Doing, Locks, Maps, Moded, option' = option, NEW a \in OneOps,
         LocateEnd(a), Nils = {}
  PROVE  Moded'
<1> USE DEF Goes
<1>1. (\A b : Job(b)' = Job(b) /\ Path(b)' = Path(b)) /\ GetPaths' = GetPaths
  BY JobStays
<1>2. \A b \in OneOps : b # a => one'[b] = one[b]
  BY OthersStay DEF OneStep
<1>3. /\ one[a] = "locating" /\ one'[a] = "done" /\ Job(a).what = "geo"
      /\ Unplaced(a) = {} /\ Kept \subseteq located[a]
      /\ UNCHANGED <<geo, located, entry, selectors, half>>
  BY DEF LocateEnd, geoVars, pastVars, Doing, Places, OneTyped
<1>4. \A y : Locating(y)' <=> Locating(y)
  BY <1>3, LocatingStays
<1>5. \A y : Kind(y)
  BY DirVarsKind DEF LocateEnd
<1>6. \A b \in OneOps : ~Writes(b)
  BY <1>3, OneWriter DEF Reads
<1>7. ASSUME NEW b \in OneOps PROVE Swaps(b)' /\ Puts(b)' /\ Locates(b)'
  <2>1. Swaps(b) /\ Puts(b) /\ Locates(b)
    BY DEF Moded
  <2>2. Swaps(b)' /\ Puts(b)'
    BY <1>1, <1>2, <1>3, <1>4, <1>5, <2>1 DEF Swaps, Puts, Kind
  <2>3. CASE b # a
    BY <1>1, <1>2, <1>3, <1>5, <2>1, <2>2, <2>3 DEF Locates, Kind, Kept
  <2>4. CASE b = a
    BY <1>1, <1>3, <2>1, <2>2, <2>4 DEF Locates, Kept
  <2> QED
    BY <2>3, <2>4
<1>8. ASSUME NEW y \in GetPaths PROVE Awaits(y)' /\ (y \notin half => Selected(y)')
  <2>1. Awaits(y) /\ (y \notin half => Selected(y)) /\ Kind(y)
    BY <1>5 DEF Moded
  <2>2. Awaits(y)'
    BY <1>1, <1>2, <1>3, <1>4, <2>1 DEF Awaits, Kind
  <2>3. ASSUME Complete(y)' PROVE sel[y].mode = "closest"
    <3>1. \A b \in OneOps : one'[b] # "store"
      BY <1>2, <1>3, <1>6 DEF Writes
    <3>2. y \in Kept
      BY <1>3, <2>3, <3>1 DEF Complete, Storing, Kept, GetPaths
    <3>3. pending[y] = NoSelector
      BY <1>3, <3>2 DEF Unplaced
    <3>4. Locates(a) /\ pending[y].mode = "none"
      BY <3>3, NoSelectorSound DEF Moded
    <3> QED
      BY <1>3, <3>2, <3>4 DEF Locates
  <2>4. ASSUME y \notin half PROVE Selected(y)'
    <3>1. Fitted(y)' => Fitted(y)
      BY <1>1, <1>2, <1>3 DEF Fitted, Fitting
    <3>2. \A b \in OneOps : Changing(b, y) => Changing(b, y)'
      BY <1>1, <1>2, <1>3 DEF Changing
    <3> QED
      BY <1>3, <1>4, <2>1, <2>3, <2>4, <3>1, <3>2 DEF Selected, Kind
  <2> QED
    BY <2>2, <2>4
<1> QED
  BY <1>1, <1>3, <1>7, <1>8 DEF Moded

LEMMA ModedStep ==
  ASSUME DirInv, OneTyped, Doing, Locks, Maps, Moded, option' = option, NEW a \in OneOps,
         OneStep(a)
  PROVE  Moded'
<1>1. option \in OptionSet
  BY DEF DirInv, CentreTyped
<1>2. CASE \/ Lookup(a) \/ LookupLocked(a) \/ CreateFail(a) \/ SwapPanics(a)
           \/ StoreXClient(a)
           \/ Configure(a) /\ Path(a) \notin selectors
           \/ Locate(a) /\ ~Locating(Path(a))
  BY <1>1, <1>2, GetQuietModes
<1>3. CASE \/ SetField(a) \/ SetLoop(a) \/ CloseBegin(a) \/ CloseEnd(a) \/ LocateBegin(a)
           \/ LocateEnd(a) /\ Nils # {}
  BY <1>1, <1>3, RestQuietModes
<1>4. CASE \/ Create(a) \/ Swap(a) \/ Place(a)
           \/ Configure(a) /\ Path(a) \in selectors
           \/ Locate(a) /\ Locating(Path(a))
  BY <1>4, MakerModes
<1>5. CASE SetSelector(a) \/ SelectorSet(a)
  BY <1>5, SetSelectorModes, SelectorSetModes
<1>6. CASE \/ SetMode(a) \/ LocateOne(a)
           \/ LocateEnd(a) /\ Nils = {}
  BY <1>1, <1>6, SetModeModes, LocateOneModes, LocateEndModes
<1>7. CASE CloseOne(a)
  <2>1. \A y : Kind(y)
    BY <1>7, KindStays DEF CloseOne, MarkClosed, selVars
  <2> QED
    BY <1>1, <1>7, <2>1, ModedFrame DEF CloseOne
<1> QED
  BY <1>2, <1>3, <1>4, <1>5, <1>6, <1>7 DEF OneStep

-----------------------------------------------------------------------------
(* The invariant *)

LEMMA OneInitInv ==
  ASSUME OneInit
  PROVE  OneInv
<1>1. DirInv /\ OneTyped
  BY DirInitInv, OneInitTyped DEF OneInit
<1>2. option \in OptionSet
  BY <1>1 DEF DirInv, CentreTyped
<1>3. /\ \A a \in OneOps : one[a] = "new" /\ got[a] = 0 /\ located[a] = {}
      /\ \A x \in XClients : entry[x] = "none" /\ made[x] = 0 /\ pending[x] = NoSelector
      /\ \A s \in Settings, x \in XClients : field[s] = 0 /\ own[x][s] = 0
      /\ writer = Nobody /\ readers = {}
  BY DEF OneInit, DirInit
<1>4. Doing
  BY <1>3 DEF Doing, Places
<1>5. Locks
  BY <1>3, OneAssumption DEF Locks, Writes, Reads
<1>6. Maps
  BY <1>2, <1>3, JobIs DEF Maps, Making, Holding
<1>7. Fields
  BY <1>3 DEF Fields, Looping
<1>8. Moded
  <2>1. \A a \in OneOps : Swaps(a) /\ Puts(a) /\ Locates(a)
    BY <1>3 DEF Swaps, Puts, Locates
  <2>2. ASSUME NEW x \in GetPaths PROVE Awaits(x) /\ Selected(x)
    <3>1. x \in XClients
      BY DEF GetPaths
    <3>2. Awaits(x)
      BY <1>3, <3>1, NoSelectorSound DEF Awaits
    <3>3. ~Fitted(x) /\ ~Complete(x)
      BY <1>3, <3>1 DEF Fitted, Fitting, Complete, Storing
    <3> QED
      BY <3>2, <3>3 DEF Selected
  <2> QED
    BY <2>1, <2>2 DEF Moded
<1> QED
  BY <1>1, <1>4, <1>5, <1>6, <1>7, <1>8 DEF OneInv

\* Nothing that the directory does, or nobody, disturbs it.
LEMMA OneFrame ==
  ASSUME OneInv, option' = option, UNCHANGED oneVars, DirInv', \A y \in GetPaths : Kind(y)
  PROVE  OneInv'
<1>1. option \in OptionSet /\ DirInv /\ OneTyped /\ Doing /\ Locks /\ Maps /\ Fields /\ Moded
  BY DEF OneInv, DirInv, CentreTyped
<1>2. (\A b : Job(b)' = Job(b) /\ Path(b)' = Path(b)) /\ GetPaths' = GetPaths
  BY JobStays
<1>3. /\ geo' = geo /\ located' = located /\ field' = field /\ entry' = entry
      /\ selectors' = selectors /\ writer' = writer /\ readers' = readers /\ one' = one
      /\ own' = own /\ made' = made /\ got' = got /\ half' = half
      /\ clashed' = clashed /\ failures' = failures
  BY PastStays
<1>4. OneTyped'
  BY <1>1, <1>3 DEF OneTyped
<1>5. Doing' /\ Locks'
  BY <1>1, <1>2, <1>3 DEF Doing, Places, Locks, Writes, Reads
<1>6. Maps'
  BY <1>1, <1>2, <1>3 DEF Maps, Making, Holding
<1>7. Fields'
  BY <1>1, <1>2, <1>3 DEF Fields, Looping, Setting, Complete, Storing
<1>8. Moded'
  BY <1>1, ModedFrame
<1> QED
  BY <1>4, <1>5, <1>6, <1>7, <1>8 DEF OneInv

LEMMA OneInvStep ==
  ASSUME OneInv, [OneNext]_everyVar
  PROVE  OneInv'
<1>1. option \in OptionSet /\ DirInv /\ OneTyped /\ Doing /\ Locks /\ Maps /\ Fields /\ Moded
  BY DEF OneInv, DirInv, CentreTyped
<1>2. option' = option
  BY OptionStays DEF OneNext
<1>3. DirInv'
  BY <1>1, OneDirInv
<1>4. CASE DirNext /\ UNCHANGED oneVars
  <2>1. \A y \in GetPaths : Kind(y)
    BY <1>1, <1>4, PathsKeepKind
  <2> QED
    BY <1>2, <1>3, <1>4, <2>1, OneFrame
<1>5. CASE UNCHANGED everyVar
  <2>1. UNCHANGED dirVars /\ UNCHANGED oneVars
    BY <1>5 DEF everyVar
  <2>2. \A y \in GetPaths : Kind(y)
    BY <2>1, DirVarsKind
  <2> QED
    BY <1>2, <1>3, <2>1, <2>2, OneFrame
<1>6. ASSUME NEW a \in OneOps, OneStep(a) PROVE OneInv'
  <2>1. OneTyped'
    BY <1>1, <1>6, OneTypedStep
  <2>2. Doing'
    BY <1>1, <1>2, <1>6, DoingStep
  <2>3. Locks'
    BY <1>1, <1>2, <1>6, LocksStep
  <2>4. Maps'
    BY <1>1, <1>2, <1>6, MapsStep
  <2>5. Fields'
    BY <1>1, <1>2, <1>6, FieldsStep
  <2>6. Moded'
    BY <1>1, <1>2, <1>6, ModedStep
  <2> QED
    BY <1>3, <2>1, <2>2, <2>3, <2>4, <2>5, <2>6 DEF OneInv
<1> QED
  BY <1>4, <1>5, <1>6 DEF OneNext

LEMMA OneInvariant == OneSpec => []OneInv
<1>1. OneInit => OneInv
  BY OneInitInv
<1>2. OneInv /\ [OneNext]_everyVar => OneInv'
  BY OneInvStep
<1> QED
  BY <1>1, <1>2, PTL DEF OneSpec

-----------------------------------------------------------------------------
(* What the invariant says *)

LEMMA OneInvTyped ==
  ASSUME OneInv
  PROVE  OneTypeOK
<1>1. DirTypeOK
  BY DirInvTyped DEF OneInv
<1>2. writer # Nobody => readers = {}
  BY DEF OneInv, Locks
<1> QED
  BY <1>1, <1>2 DEF OneInv, OneTyped, OneTypeOK, Pcs

LEMMA OneInvSettings ==
  ASSUME OneInv
  PROVE  SettingsReachCallers
<1>1. Locks /\ Maps /\ Fields /\ Moded
  BY DEF OneInv
<1> SUFFICES ASSUME NEW x \in XClients, entry[x] = "made"
             PROVE  /\ \A a \in OneOps : Path(a) = x /\ got[a] # 0 => got[a] = made[x]
                    /\ x \notin half =>
                         /\ \A s \in Settings \ clashed :
                              (\A a \in OneOps :
                                 Job(a).what = "set" /\ Job(a).setting = s =>
                                   one[a] \in {"new", "done"})
                                => own[x][s] = field[s]
                         /\ writer = Nobody =>
                              /\ x \in selectors /\ ~Locating(x) => sel[x].mode = "user"
                              /\ Located(x) =>
                                   sel[x].mode \in {"closest"} \cup IF x \in selectors
                                                                    THEN {"user"} ELSE {}
  BY DEF SettingsReachCallers
<1>2. ASSUME NEW a \in OneOps, Path(a) = x, got[a] # 0 PROVE got[a] = made[x]
  BY <1>1, <1>2 DEF Maps, Holding
<1>3. ASSUME x \notin half, NEW s \in Settings \ clashed,
             \A a \in OneOps : Job(a).what = "set" /\ Job(a).setting = s =>
                                 one[a] \in {"new", "done"}
      PROVE  own[x][s] = field[s]
  <2>1. \A a \in OneOps : ~Setting(a, s)
    BY <1>3 DEF Setting
  <2>2. Complete(x)
    BY DEF Complete
  <2> QED
    BY <1>1, <1>3, <2>1, <2>2 DEF Fields
<1>4. ASSUME x \notin half, writer = Nobody
      PROVE  /\ x \in selectors /\ ~Locating(x) => sel[x].mode = "user"
             /\ Located(x) => sel[x].mode \in {"closest"} \cup IF x \in selectors
                                                               THEN {"user"} ELSE {}
  <2>1. Selected(x)
    BY <1>1, <1>4 DEF Maps, Moded
  <2>2. Complete(x) /\ Fitted(x)
    BY DEF Complete, Fitted
  <2>3. \A a \in OneOps : ~Changing(a, x)
    BY <1>1, <1>4, OneWriter DEF Changing, Writes
  <2>4. Located(x) => Locating(x) /\ \A a \in OneOps : ~GeoOnWay(a)
    BY DEF Located, GeoOnWay
  <2> QED
    BY <2>1, <2>2, <2>3, <2>4 DEF Selected
<1> QED
  BY <1>2, <1>3, <1>4

-----------------------------------------------------------------------------
(* Theorems *)

\* Every variable keeps its type, and nobody reads the map of xClients while another has it
\* locked (c.mu).
THEOREM OneTypeCorrect == OneSpec => []OneTypeOK
  BY OneInvariant, OneInvTyped, PTL

\* With the xClients of the map among them, and SetSelector and ConfigGeoSelector of the
\* OneClient setting selectors, a selector still chooses among the servers of its xClient.
THEOREM MapTracksServers == OneSpec => []SelectorTracksServers
<1>1. OneInv => SelectorTracksServers
  BY DirInvTracks DEF OneInv
<1> QED
  BY <1>1, OneInvariant, PTL

\* And its calls are dealt out fairly.
THEOREM MapRoundsFair == OneSpec => []RoundsAreFair
<1>1. OneInv => RoundsAreFair
  BY DirInvFair DEF OneInv
<1> QED
  BY <1>1, OneInvariant, PTL

\* Every caller of a path holds the one xClient the map holds, with every setting whose
\* setter has returned and the selector of its path, whichever came first (getXClient,
\* newXClient, Auth, SetPlugins, SetSelector and ConfigGeoSelector).
THEOREM SettingsAlwaysReach == OneSpec => []SettingsReachCallers
  BY OneInvariant, OneInvSettings, PTL
=============================================================================
