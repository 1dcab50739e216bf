CONSTANTS
  Tasks = {t1}
  Servers = {}
  Callbacks = {}
  Callers = {c1}
  Watchers = {"parent"}
SPECIFICATION Spec
INVARIANT CleanStopIsNotTheCause
