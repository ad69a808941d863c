SPECIFICATION OneLiveSpec
CONSTANTS
  one1 = one1
  one2 = one2
  one3 = one3
  path1 = path1
  path2 = path2
  disc1 = disc1
  disc2 = disc2
  srv1 = srv1
  srv2 = srv2
  srv3 = srv3
  OneOps = {one1, one2, one3}
  XClients = {path1, path2}
  Discoveries = {disc1, disc2}
  Servers = {srv1, srv2, srv3}
  NoOne = NoOne
  Nobody = Nobody
  NoGroup = NoGroup
  Groups = {"a", "b", NoGroup}
  Settings = {"auth", "plugins"}
  Seed = srv1
  Lists <- Lists1
  OptionSet <- Options1
  OneWork <- Work1
  Capacity = 1
  MaxFlights = 2
  MaxChanges = 1
  MaxFaults = 1
  MaxPicks = 6
  MaxCreates = 1
INVARIANTS
  OneTypeOK
  SelectorTracksServers
  RoundsAreFair
  SettingsReachCallers
PROPERTIES
  WatchersSettle
CHECK_DEADLOCK FALSE
