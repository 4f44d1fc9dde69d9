SPECIFICATION Spec
CONSTANTS
  Threads = {t1, t2}
  Bundles = {b1, b2, b3}
  Finding = {f1, f2}
  MaxEmits = 2
  NoBundle = none
INVARIANTS
  TypeOK
  ChannelConsistent
  ReportIsOwn
PROPERTY
  ImplementsReports
CHECK_DEADLOCK FALSE
