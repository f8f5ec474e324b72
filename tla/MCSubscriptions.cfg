\* Two callers, two subscriptions, one message on its way.
CONSTANTS
  Null = Null
  NotAList = NotAList
  Pubkeys = {"bob", "eve", "relay"}
  EventIds <- AllIds
  Addresses <- Coordinates
  RelayUrlOf <- Relays
  WebUrls = {}
  DecimalText <- Decimals
  Letters = {"a", "d", "e", "E", "h", "p", "t"}
  Extensions = {"lang:en"}
  SubscriptionIds = {"s1", "s2"}
  Sigs = {"sig"}
  Callers = {c1, c2}
  FilterSets <- Asked
  Stored <- Held
  GroupIds = {"room", "hall"}
  RelayUrl = "wss://relay"
  RelayKey = "relay"
  Posts <- Published
  Reasons <- RelayReasons
  Strays <- Others
  MaxFrames = 1
SYMMETRY CallersAlike
SPECIFICATION Spec
CHECK_DEADLOCK FALSE
INVARIANT AskedAndAnswered
