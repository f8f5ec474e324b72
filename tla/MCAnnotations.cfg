\* Paths of three events; a unit is ten times the next, so a bitcoin is 10000
\* pico-bitcoins and 1000 millisats.
CONSTANTS
  Null = Null
  NotJson = NotJson
  Pubkeys <- People
  EventIds <- AllIds
  Addresses <- Coordinates
  RelayUrlOf <- Relays
  Utf8Length <- Lengths
  WebUrls = {"https://mint", "https://elsewhere"}
  DecimalText <- Decimals
  HttpUrlOf <- WebPages
  LowerCaseOf <- LowerCases
  MimeTypeOf <- MimeTypes
  BeforeParams <- MimeBases
  Sha256Hexes = {"abcd"}
  CompressedKeyOf <- Keys
  Thousand = 10
  MaxSafe = 2000
  OpeningEvents <- Openings
  Publications <- Publishing
  Ids <- PathIds
  Authors = {"alice", "carol"}
  Rooms <- RoomsOfThree
  Hints = {Null, "wss://host"}
  Groups = {"g1", "g3"}
  Pages = {"https://page", "https://other"}
  Amounts <- ZapAmounts
  Lnurls = {"lnurl1a", "LNURL1A", "lnurl1b"}
  Provider = "lnd"
  ProviderLnurl = "lnurl1a"
  Invoices <- InvoiceTags
  Proofs <- ProofTags
  Units = {Null, "sat", "msat", "usd"}
  Keysets <- MintKeysets
SPECIFICATION Spec
CHECK_DEADLOCK FALSE
INVARIANTS AnnotatesItsTarget ReadBackAsMeant StaysInItsRoom ReceiptsAreEarned NutzapsAreEarned
