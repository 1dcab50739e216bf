CONSTANTS
  Tasks = {}
  Servers = {s1}
  Callbacks = {f1}
  Callers = {c1, c2}
  Watchers = {"parent", "signal"}
SPECIFICATION FairSpec
PROPERTIES
  ShutdownCompletes
