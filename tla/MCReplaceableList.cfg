\* Two clients, two edits whose ids may be lower and higher than their base's,
\* made in the second of the base, a later one, or pinned to the first.
CONSTANTS
  NoIdentifier = NoIdentifier
  NoKey = NoKey
  Clients = {c1, c2}
  Pubkeys = {"author", "stranger"}
  Author = "author"
  Kinds = {10000, 30000}
  Identifiers = {"", "a", "b"}
  Targets <- NamedTargets
  Modified <- ModifiedTags
  EntryLists = {"none", "some"}
  NoEntries = "none"
  PrivateLists = {"nothing", "secrets"}
  NoPrivateTags = "nothing"
  NotAnArray = NotAnArray
  NoContent = NoContent
  Unreadable = Unreadable
  Ids = {0, 1, 2, 3}
  MaxTime = 1
  Pins = {0}
  Published <- PublishedLists
  NoEvent = NoEvent
SPECIFICATION Spec
SYMMETRY Symmetry
INVARIANTS Convergence EditKeepsCoordinate EditReplacesItsBase EditKeepsOtherHalf
