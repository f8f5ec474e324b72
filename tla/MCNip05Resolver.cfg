\* Two reader calls, chunks of one or two bytes, at most four bytes sent; a ceiling of no bytes for the hosts at an edge.
CONSTANTS
  Null = Null
  Hosts <- AllHosts
  Inputs <- TheInputs
  Responses <- TheResponses
  ERROR_BODY_BYTE_LIMIT = 1
  ReadCalls = {"first", "second"}
  NotFollowed = NotFollowed
  MaxChunk = 2
  MaxSent = 4
SPECIFICATION FairExchangeSpec
INVARIANTS RefusedHostsAreUnread BodyIsReadWholeOnce StreamIsReleased
           VerdictIsTheDomainsAnswer
PROPERTIES AbortSettles PublicHostsAreReached
CHECK_DEADLOCK FALSE
