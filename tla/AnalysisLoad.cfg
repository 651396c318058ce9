SPECIFICATION FairSpec
CONSTANTS
  Sboms = {s1, s2}
  Callers = {c1}
  Loader = Loader
  Concurrency = 2
  BatchSize = 8
  None = None
INVARIANTS
  TypeOK
  OneLoad
  FaithfulUnqueued
PROPERTY
  Answered
