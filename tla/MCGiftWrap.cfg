\* Three people, a throwaway key for each wrap, two kinds of failure.
CONSTANTS
  Pubkeys = {1, 2, 3}
  Ephemerals = {11, 12, 13}
  SignerFailures = {"encrypt-failed", "pubkey-mismatch"}
  NotJson = NotJson
  Rumours <- TheRumours
  SignerKeys = {1, 2}
  ForeignWraps <- TheForeignWraps
SPECIFICATION FairSpec
INVARIANTS RoomReadsItsWraps AllOrNothing SenderSignedForIt
PROPERTIES EveryCallIsAnswered
