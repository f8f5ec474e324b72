\* Paths of four events, two authors, replies with and without a relay hint
\* and with three contents, beside what other programs write.
CONSTANTS
  Null = Null
  Pubkeys <- People
  EventIds <- AllIds
  Addresses <- Coordinates
  RelayUrlOf <- Relays
  WebUrls = {"https://page"}
  Utf8Length <- Lengths
  DecimalText <- Kinds
  OpeningEvents <- Openings
  OpeningContents <- Pages
  Ids <- PathIds
  Authors = {"alice", "bob"}
  Hints = {"", "wss://relay"}
  Contents <- Texts
  RawHint = "WSS://Relay/"
SPECIFICATION Spec
INVARIANTS AnswersItsParent OneThread EveryoneIsTold CopiesAreChecked MentionedOnce
