---------------------------- MODULE XaceOneClient ----------------------------
(***************************************************************************)
(* OneClient and AceClient (src/xace/client/oneclient.go, aceclient.go):   *)
(* a map from service paths to xClients that are made when they are first  *)
(* needed, each with a discovery of its own, and settings that reach those *)
(* that exist and those still to be made.  An xClient of this map goes by  *)
(* its service path.                                                       *)
(***************************************************************************)
EXTENDS XaceDirectory

CONSTANTS
  OneOps,      \* calls on the OneClient
  Nobody,      \* not one of them
  Settings,    \* Auth and SetPlugins: a field and a loop over the xClients
  OneWork,     \* what each call is, per configuration
  MaxCreates   \* bound: creations that fail

Work == [what : {"get", "set", "selector", "geo", "close", "none"},
         path : XClients, setting : Settings, value : Nat \ {0}]

ASSUME OneAssumption ==
  Nobody \notin OneOps /\ MaxCreates \in Nat /\ OneWork \in [OptionSet -> [OneOps -> Work]]

\* The xClients of the map are its own: the application makes others, and sets the selectors
\* of these through the OneClient only, whose getXClient is not exported.  (AceClient hands
\* them out, 146: left out is a caller that sets a selector behind its back.)
ASSUME MapAssumption ==
  \A o \in OptionSet, a \in OneOps :
    OneWork[o][a].what = "get" => OneWork[o][a].path \notin o.direct \cup o.swapped

VARIABLES
  field,      \* c.auth, c.Plugins: 0 until set
  entry,      \* c.xclients: "none", "nil" or "made"
  selectors,  \* the paths with a selector in c.selectors
  geo,        \* c.selectMode was set to Closest
  writer,     \* who has locked c.mu
  readers,    \* who has read-locked it
  one,        \* where each call is
  \* the xClients, and history
  own,        \* the settings of each xClient
  located,    \* those a call of ConfigGeoSelector has reached
  made,       \* how many xClients were made for a path
  got,        \* which of them a call was given
  half,       \* paths whose xClient panicked on its way
  clashed,    \* settings set by two calls at a time
  failures

geoVars == <<geo, located>>
pastVars == <<half, clashed, failures>>
oneVars == <<geoVars, field, entry, selectors, writer, readers, one, own, made, got,
             pastVars>>
everyVar == <<dirVars, oneVars>>

OneInit ==
  /\ DirInit
  /\ field = [s \in Settings |-> 0]
  /\ entry = [x \in XClients |-> "none"]
  /\ selectors = {} /\ geo = FALSE /\ located = [a \in OneOps |-> {}]
  /\ writer = Nobody /\ readers = {}
  /\ one = [a \in OneOps |-> "new"]
  /\ own = [x \in XClients |-> [s \in Settings |-> 0]]
  /\ made = [x \in XClients |-> 0]
  /\ got = [a \in OneOps |-> 0]
  /\ half = {} /\ clashed = {} /\ failures = 0

Job(a) == OneWork[option][a]
Path(a) == Job(a).path
Begins(a, what) == one[a] = "new" /\ Job(a).what = what
Goes(a, pc) == one' = [one EXCEPT ![a] = pc]
\* Mutant: readers do not keep a writer out.
FreeOfWriters == writer = Nobody

\* c.mu can be locked.
Free == writer = Nobody /\ readers = {}
Kept == {x \in XClients : entry[x] # "none"}
Nils == {x \in XClients : entry[x] = "nil"}

-----------------------------------------------------------------------------
(* getXClient and newXClient *)

\* Under the read lock.
Lookup(a) ==
  /\ Begins(a, "get") /\ writer = Nobody
  /\ LET x == Path(a) IN
     /\ Goes(a, IF entry[x] = "made" THEN "done" ELSE "lock")
     /\ got' = [got EXCEPT ![a] = IF entry[x] = "made" THEN made[x] ELSE 0]
  /\ UNCHANGED <<dirVars, geoVars, field, entry, selectors, writer, readers, own, made,
                 pastVars>>

\* Mutant: the xClient made meanwhile is not noticed.
AnyNeeded(x) == TRUE

\* Whether it is still to be made (159).
Needed(x) == entry[x] # "made"

\* Under the lock, which stays held while the xClient is made.
LookupLocked(a) ==
  /\ one[a] = "lock" /\ Free
  /\ LET x == Path(a) IN
     IF Needed(x)
     THEN Goes(a, "create") /\ writer' = a /\ got' = got
     ELSE Goes(a, "done") /\ got' = [got EXCEPT ![a] = made[x]] /\ writer' = writer
  /\ UNCHANGED <<dirVars, geoVars, field, entry, selectors, readers, own, made,
                 pastVars>>

\* Clone makes the discovery (Begun below), NewXClient goes on.
Create(a) ==
  /\ one[a] = "create"
  /\ \/ ListAs(Path(a), IF geo THEN "closest" ELSE option.mode[Path(a)])
     \/ WatchService(Path(a))
  /\ UNCHANGED oneVars

\* Clone returns an error: a nil xClient is stored.
CreateFail(a) ==
  /\ one[a] = "create" /\ xc[Path(a)] = "none" /\ disc[option.of[Path(a)]].pc = "none"
  /\ failures < MaxCreates /\ failures' = failures + 1
  /\ entry' = [entry EXCEPT ![Path(a)] = "nil"]
  /\ Goes(a, "failed") /\ writer' = Nobody
  /\ UNCHANGED <<dirVars, geoVars, field, selectors, readers, own, made, got, half,
                 clashed>>

\* The settings known so far, Auth the last of them.
Inherit(a) ==
  /\ Goes(a, "store")
  /\ own' = [own EXCEPT ![Path(a)] =
               [s \in Settings |-> IF field[s] # 0 THEN field[s] ELSE @[s]]]

\* If the path has a selector, SetSelector comes before.
Configure(a) ==
  /\ one[a] = "create" /\ Made(Path(a))
  /\ LET x == Path(a) IN
     IF x \in selectors
     THEN Goes(a, "swap") /\ Prepare(x, "user")
     ELSE Goes(a, "mode") /\ UNCHANGED dirVars
  /\ UNCHANGED <<geoVars, field, entry, selectors, writer, readers, own, made, got,
                 pastVars>>

Swap(a) ==
  /\ one[a] = "swap" /\ Job(a).what = "get"
  /\ Install(Path(a)) /\ Goes(a, "mode")
  /\ UNCHANGED <<geoVars, field, entry, selectors, writer, readers, own, made, got,
                 pastVars>>

\* c.selectMode is read again, and ConfigGeoSelector replaces any selector (139-141).
Locate(a) ==
  /\ one[a] = "mode"
  /\ IF geo \/ option.mode[Path(a)] = "closest"
     THEN Goes(a, "place") /\ Prepare(Path(a), "closest") /\ UNCHANGED own
     ELSE Inherit(a) /\ UNCHANGED dirVars
  /\ UNCHANGED <<geoVars, field, entry, selectors, writer, readers, made, got,
                 pastVars>>

Place(a) ==
  /\ one[a] = "place" /\ Install(Path(a)) /\ Inherit(a)
  /\ UNCHANGED <<geoVars, field, entry, selectors, writer, readers, made, got,
                 pastVars>>

\* The application's selector panics: what was made so far is stored with the error, and
\* no further setting reaches it (110-118, 136).
SwapPanics(a) ==
  /\ one[a] = "create" /\ Made(Path(a)) /\ Path(a) \in selectors
  /\ failures < MaxCreates /\ failures' = failures + 1
  /\ entry' = [entry EXCEPT ![Path(a)] = "made"]
  /\ made' = [made EXCEPT ![Path(a)] = @ + 1]
  /\ half' = half \cup {Path(a)}
  /\ Goes(a, "failed") /\ writer' = Nobody
  /\ UNCHANGED <<dirVars, geoVars, field, selectors, readers, own, got, clashed>>

\* The new xClient is in the map.
StoreXClient(a) ==
  /\ one[a] = "store"
  /\ entry' = [entry EXCEPT ![Path(a)] = "made"]
  /\ made' = [made EXCEPT ![Path(a)] = @ + 1]
  /\ got' = [got EXCEPT ![a] = made[Path(a)] + 1]
  /\ Goes(a, "done") /\ writer' = Nobody
  /\ UNCHANGED <<dirVars, geoVars, field, selectors, readers, own, pastVars>>

-----------------------------------------------------------------------------
(* Settings and Close *)

Busy(s) == {a \in OneOps : one[a] = "loop" /\ Job(a).setting = s}

\* The field is set without the lock ...
SetField(a) ==
  /\ Begins(a, "set") /\ Goes(a, "loop")
  /\ field' = [field EXCEPT ![Job(a).setting] = Job(a).value]
  /\ clashed' = IF Busy(Job(a).setting) = {} THEN clashed
                ELSE clashed \cup {Job(a).setting}
  /\ UNCHANGED <<dirVars, geoVars, entry, selectors, writer, readers, own, made, got,
                 half, failures>>

\* ... and then every xClient in the map.  A nil one makes the loop panic somewhere on its
\* way, with the read lock held for good.
SetLoop(a) ==
  /\ one[a] = "loop" /\ writer = Nobody
  /\ \E S \in IF Nils = {} THEN {Kept} ELSE SUBSET (Kept \ Nils) :
       own' = [x \in XClients |-> IF x \in S
                                  THEN [own[x] EXCEPT ![Job(a).setting] = Job(a).value]
                                  ELSE own[x]]
  /\ IF Nils = {} THEN Goes(a, "done") /\ readers' = readers
     ELSE Goes(a, "panicked") /\ readers' = readers \cup {a}
  /\ UNCHANGED <<dirVars, geoVars, field, entry, selectors, writer, made, got,
                 pastVars>>

\* SetSelector: a nil xClient makes it panic with the lock held for good.
SetSelector(a) ==
  /\ Begins(a, "selector") /\ Free
  /\ LET x == Path(a) IN
     /\ selectors' = selectors \cup {x}
     /\ \/ entry[x] = "none" /\ Goes(a, "done") /\ UNCHANGED <<writer, dirVars>>
        \/ entry[x] = "nil" /\ Goes(a, "panicked") /\ writer' = a /\ UNCHANGED dirVars
        \/ entry[x] = "made" /\ Goes(a, "swap") /\ writer' = a /\ Prepare(x, "user")
  /\ UNCHANGED <<geoVars, field, entry, readers, own, made, got, pastVars>>

SelectorSet(a) ==
  /\ one[a] = "swap" /\ Job(a).what = "selector"
  /\ Install(Path(a)) /\ Goes(a, "done") /\ writer' = Nobody
  /\ UNCHANGED <<geoVars, field, entry, selectors, readers, own, made, got, pastVars>>

\* ConfigGeoSelector: selectMode without the lock, then every xClient in the map.
SetMode(a) ==
  /\ Begins(a, "geo") /\ Goes(a, "locate") /\ geo' = TRUE
  /\ UNCHANGED <<dirVars, located, field, entry, selectors, writer, readers, own, made,
                 got, pastVars>>

LocateBegin(a) ==
  /\ one[a] = "locate" /\ writer = Nobody
  /\ Goes(a, "locating") /\ readers' = readers \cup {a}
  /\ UNCHANGED <<dirVars, geoVars, field, entry, selectors, writer, own, made, got,
                 pastVars>>

Unplaced(a) == {x \in located[a] : pending[x] # NoSelector}

LocateOne(a) ==
  /\ one[a] = "locating"
  /\ \/ /\ Unplaced(a) = {}
        /\ \E x \in Kept \ (Nils \cup located[a]) :
             Prepare(x, "closest") /\ located' = [located EXCEPT ![a] = @ \cup {x}]
     \/ \E x \in Unplaced(a) : Install(x) /\ located' = located
  /\ UNCHANGED <<geo, field, entry, selectors, writer, readers, one, own, made, got,
                 pastVars>>

LocateEnd(a) ==
  /\ one[a] = "locating" /\ Unplaced(a) = {}
  /\ IF Nils = {}
     THEN Kept \subseteq located[a] /\ Goes(a, "done") /\ readers' = readers \ {a}
     ELSE Goes(a, "panicked") /\ readers' = readers
  /\ UNCHANGED <<dirVars, geoVars, field, entry, selectors, writer, own, made, got,
                 pastVars>>

CloseBegin(a) ==
  /\ Begins(a, "close") /\ writer = Nobody
  /\ Goes(a, "closing") /\ readers' = readers \cup {a}
  /\ UNCHANGED <<dirVars, geoVars, field, entry, selectors, writer, own, made, got,
                 pastVars>>

CloseOne(a) ==
  /\ one[a] = "closing"
  /\ \E x \in Kept \ Nils : MarkClosed(x)
  /\ UNCHANGED oneVars

CloseEnd(a) ==
  /\ one[a] = "closing"
  /\ IF Nils = {}
     THEN /\ \A x \in Kept : closing[x] # "no"
          /\ Goes(a, "done") /\ readers' = readers \ {a}
     ELSE Goes(a, "panicked") /\ readers' = readers
  /\ UNCHANGED <<dirVars, geoVars, field, entry, selectors, writer, own, made, got,
                 pastVars>>

-----------------------------------------------------------------------------
OneStep(a) ==
  \/ Lookup(a) \/ LookupLocked(a) \/ Create(a) \/ CreateFail(a) \/ Configure(a) \/ Swap(a)
  \/ Locate(a) \/ Place(a) \/ SetMode(a) \/ LocateBegin(a) \/ LocateOne(a) \/ LocateEnd(a)
  \/ SwapPanics(a) \/ StoreXClient(a) \/ SetField(a) \/ SetLoop(a) \/ SetSelector(a)
  \/ SelectorSet(a) \/ CloseBegin(a) \/ CloseOne(a) \/ CloseEnd(a)

\* A discovery is made by the application or by Clone.
Begun(d) ==
  \/ disc[d].pc # "none"
  \/ \E x \in option.direct : option.of[x] = d
  \/ \E a \in OneOps : one[a] = "create" /\ option.of[Path(a)] = d

OneNext ==
  \/ DirNext /\ UNCHANGED oneVars /\ \A d \in Discoveries : disc'[d] = disc[d] \/ Begun(d)
  \/ \E a \in OneOps : OneStep(a)

OneSpec == OneInit /\ [][OneNext]_everyVar

OneFairness ==
  /\ \A d \in Discoveries : WF_everyVar(Begun(d) /\ DiscoveryStep(d) /\ UNCHANGED oneVars)
  /\ \A x \in XClients :
       /\ WF_everyVar(x \in option.direct /\ WatchService(x) /\ UNCHANGED oneVars)
       /\ WF_everyVar(Deliver(x) /\ UNCHANGED oneVars)
       /\ WF_everyVar(Receive(x) /\ UNCHANGED oneVars)
       /\ WF_everyVar((WatchEnd(x) \/ RemoveWatcher(x) \/ CloseChannel(x))
                      /\ UNCHANGED oneVars)
  /\ WF_everyVar(SetInitAceClient /\ UNCHANGED oneVars)
  /\ \A a \in OneOps : WF_everyVar(one[a] # "new" /\ OneStep(a))

OneLiveSpec == OneSpec /\ OneFairness

-----------------------------------------------------------------------------
(* Properties *)

\* Type invariant.
OneTypeOK ==
  /\ DirTypeOK
  /\ field \in [Settings -> Nat] /\ own \in [XClients -> [Settings -> Nat]]
  /\ entry \in [XClients -> {"none", "nil", "made"}]
  /\ selectors \subseteq XClients /\ half \subseteq XClients /\ clashed \subseteq Settings
  /\ writer \in OneOps \cup {Nobody} /\ readers \subseteq OneOps
  /\ writer # Nobody => readers = {}
  /\ one \in [OneOps -> {"new", "lock", "create", "swap", "mode", "place", "store",
                         "loop", "locate", "locating", "closing", "done", "failed",
                         "panicked"}]
  /\ geo \in BOOLEAN /\ located \in [OneOps -> SUBSET XClients]
  /\ made \in [XClients -> Nat] /\ got \in [OneOps -> Nat]
  /\ failures \in 0 .. MaxCreates

\* ConfigGeoSelector has begun, or the OneClient was made so; it has been through.
Locating(x) == geo \/ option.mode[x] = "closest"
Located(x) ==
  Locating(x) /\ \A a \in OneOps : Job(a).what = "geo" => one[a] \in {"new", "done"}

\* Every caller of a path holds the same xClient, the one the map holds; it has every
\* setting whose setter has returned, whether it was made before, during or after the call
\* of the setter, and the selector of its path, or the one ConfigGeoSelector gives every
\* xClient (62-166).  Left out: an xClient whose making panicked, settings set by two
\* callers at a time, and a setter that panicked itself.
SettingsReachCallers ==
  \A x \in XClients : entry[x] = "made" =>
    /\ \A a \in OneOps : Path(a) = x /\ got[a] # 0 => got[a] = made[x]
    /\ x \notin half =>
         /\ \A s \in Settings \ clashed :
              (\A a \in OneOps : Job(a).what = "set" /\ Job(a).setting = s =>
                                   one[a] \in {"new", "done"})
                => own[x][s] = field[s]
         /\ writer = Nobody =>
              /\ x \in selectors /\ ~Locating(x) => sel[x].mode = "user"
              /\ Located(x) => sel[x].mode \in {"closest"} \cup IF x \in selectors
                                                           THEN {"user"} ELSE {}
=============================================================================
