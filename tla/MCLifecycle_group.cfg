CONSTANTS
  Tasks = {t1}
  Servers = {s1}
  Callbacks = {f1, f2}
  Callers = {c1}
  Watchers = {"user", "parent"}
SPECIFICATION Spec
INVARIANTS
  CauseBeforeCancel
  NoSilentExit
  NoOrphanServer
  TeardownOrder
  NoErrorLost
PROPERTIES
  NoAddAfterWait
