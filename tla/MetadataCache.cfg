\* Both metadata caches.
SPECIFICATION Spec
CONSTANTS
    Threads = {t1, t2}
    NoThread = NoThread
    Versions <- OneTwoThree
    Preloaded <- JustOne
    MaxCalls = 3
\* every thread stops after MaxCalls lookups
CHECK_DEADLOCK FALSE
INVARIANTS
  OneLoader
  ReadsBounded
PROPERTIES
  EntriesKept
  LookupsReturn
