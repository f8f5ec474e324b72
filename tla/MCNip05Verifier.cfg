\* Two domains, two pubkeys and two promises: a claim behind a lookup, two
\* domains at once, and an old promise still in flight when its domain starts
\* a new queue.  Without symmetry, for the liveness under FairSpec.
CONSTANTS
  Pubkeys = {p1, p2}
  Names = {name}
  Domains = {d1, d2}
  Drains = {q1, q2}
  NoDrain = NoDrain
SPECIFICATION FairSpec
INVARIANT QueuedExactlyOnce
PROPERTIES NoVerdictAfterAbort WhenIdleIsIdle KeepsThePromise EveryClaimSettles ShutdownDrains
CHECK_DEADLOCK FALSE
