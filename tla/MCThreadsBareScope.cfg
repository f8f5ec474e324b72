\* Paths of four events under a comment with an I tag that has no value.
CONSTANTS
  Null = Null
  Pubkeys <- People
  EventIds <- AllIds
  Addresses <- Coordinates
  RelayUrlOf <- Relays
  WebUrls = {"https://page"}
  Utf8Length <- Lengths
  DecimalText <- Kinds
  OpeningEvents <- BareScopes
  OpeningContents = {}
  Ids <- PathIds
  Authors = {"alice", "bob"}
  Hints = {"", "wss://relay"}
  Contents <- Texts
  RawHint = "WSS://Relay/"
SPECIFICATION Spec
INVARIANT OneThread
