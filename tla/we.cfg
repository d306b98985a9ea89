SPECIFICATION Spec
CONSTANTS
  auto = auto manual = manual
  Events = {auto, manual}
  Manual = {manual}
  Address <- TwoAddresses
  Arrays <- Pairs
  Threads = {t1, t2}
  Watchers = {v1, v2}
  Pointers = {x1, x2}
  Flags = {f1, f2, f3}
  Nobody = Nobody
INVARIANTS WaitListsExact SignalsConserved ReturnsAfterSignal WatchesExact NoCircularWait
SYMMETRY Symmetry
