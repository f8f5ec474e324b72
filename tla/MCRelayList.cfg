\* Lists of up to three tags as read, up to four as edited.
CONSTANTS
  Null = Null
  Pubkeys = {}
  EventIds = {}
  WebUrls = {}
  Addresses <- NoAddresses
  DecimalText <- NoKinds
  RelayUrlOf <- Spellings
  Texts <- Strings
  Published <- Lists
  MaxTags = 4
SPECIFICATION ListSpec
INVARIANTS EntriesAreTheUnion
PROPERTIES EditDoesAsAsked
