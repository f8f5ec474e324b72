\* Two contents that can pass and one that cannot, each genuine, unsigned or
\* under another's id; two calls at once; the first window and its
\* replay memory both end before the clock does.
CONSTANTS
  Contents <- PresentedContents
  Events <- PresentedEvents
  Headers <- PresentedHeaders
  Requests <- SentRequests
  HttpUrlOf <- UrlOf
  NoUrl = NoUrl
  EmptyBodyHash = "empty"
  Slots = {s1, s2}
  Tolerance = 1
  MaxDelay = 0
  MaxTime = 4
  Upper <- UpperOf
  Builds <- BuildInputs
  Sizes <- EventSizes
SPECIFICATION FairSpec
INVARIANTS AtMostOnce ReplayIsDeserved BuiltEventsPass
PROPERTIES SomebodyIsGranted
CHECK_DEADLOCK FALSE
