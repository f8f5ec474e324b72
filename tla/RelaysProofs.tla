---------------------------- MODULE RelaysProofs ----------------------------
(***************************************************************************)
(* What a client says of relays and to them.                               *)
(*                                                                         *)
(* Callers that share a connection find what they asked for, whatever      *)
(* callers, filters, stored events, subscription ids and other messages    *)
(* there are: what a filter selects once it is sent, what a digest         *)
(* decides, what a message is read as, and the invariant that joins them.  *)
(*                                                                         *)
(* Relay lists, for every list another program publishes, every spelling   *)
(* of a relay and every sequence of edits: the entries read from a list    *)
(* are the union of its r tags, and an edit does to one relay what it asks *)
(* and to the others nothing.                                              *)
(***************************************************************************)
EXTENDS RelayList, Subscriptions, TagsProofs


-----------------------------------------------------------------------------
(* A filter goes out with the entries of the keys FIELD_ORDER names.       *)
SentFields == {"ids", "authors", "kinds", "#", "since", "until", "limit", "search"}

LEMMA WireEntries ==
  ASSUME NEW filter, filter \in Seq(ToSet(filter))
  PROVE  ToSet(InWireOrder(filter)) = Entries(filter, SentFields)
<1>. DEFINE T         == ToSet(filter)
            of(field) == Among(filter, Entries(filter, {field}))
<1>1. ASSUME NEW field
      PROVE  of(field) \in Seq(T) /\ ToSet(of(field)) = {entry \in T : entry.field = field}
  BY AmongSelects DEF Entries
<1>. HIDE DEF of, T
<1>. DEFINE two == of("ids") \o of("authors")
<1>2. two \in Seq(T) /\ ToSet(two) = {entry \in T : entry.field \in {"ids", "authors"}}
  BY <1>1, ConcatSet
<1>. HIDE DEF two
<1>. DEFINE three == two \o of("kinds")
<1>3. three \in Seq(T) /\ ToSet(three) = {entry \in T : entry.field \in {"ids", "authors", "kinds"}}
  <2>1. two \in Seq(T) /\ of("kinds") \in Seq(T)
    BY <1>1, <1>2
  <2>2. three \in Seq(T) /\ ToSet(three) = ToSet(two) \cup ToSet(of("kinds"))
    BY <2>1, ConcatSet
  <2>. QED BY <1>1, <1>2, <2>2
<1>. HIDE DEF three
<1>. DEFINE four == three \o of("#")
<1>4. four \in Seq(T) /\ ToSet(four) = {entry \in T : entry.field \in {"ids", "authors", "kinds", "#"}}
  <2>1. three \in Seq(T) /\ of("#") \in Seq(T)
    BY <1>1, <1>3
  <2>2. four \in Seq(T) /\ ToSet(four) = ToSet(three) \cup ToSet(of("#"))
    BY <2>1, ConcatSet
  <2>. QED BY <1>1, <1>3, <2>2
<1>. HIDE DEF four
<1>. DEFINE five == four \o of("since")
<1>5. five \in Seq(T) /\ ToSet(five) = {entry \in T : entry.field \in {"ids", "authors", "kinds", "#", "since"}}
  <2>1. four \in Seq(T) /\ of("since") \in Seq(T)
    BY <1>1, <1>4
  <2>2. five \in Seq(T) /\ ToSet(five) = ToSet(four) \cup ToSet(of("since"))
    BY <2>1, ConcatSet
  <2>. QED BY <1>1, <1>4, <2>2
<1>. HIDE DEF five
<1>. DEFINE six == five \o of("until")
<1>6. six \in Seq(T) /\ ToSet(six) = {entry \in T : entry.field \in {"ids", "authors", "kinds", "#", "since", "until"}}
  <2>1. five \in Seq(T) /\ of("until") \in Seq(T)
    BY <1>1, <1>5
  <2>2. six \in Seq(T) /\ ToSet(six) = ToSet(five) \cup ToSet(of("until"))
    BY <2>1, ConcatSet
  <2>. QED BY <1>1, <1>5, <2>2
<1>. HIDE DEF six
<1>. DEFINE seven == six \o of("limit")
<1>7. seven \in Seq(T) /\ ToSet(seven) = {entry \in T : entry.field \in {"ids", "authors", "kinds", "#", "since", "until", "limit"}}
  <2>1. six \in Seq(T) /\ of("limit") \in Seq(T)
    BY <1>1, <1>6
  <2>2. seven \in Seq(T) /\ ToSet(seven) = ToSet(six) \cup ToSet(of("limit"))
    BY <2>1, ConcatSet
  <2>. QED BY <1>1, <1>6, <2>2
<1>. HIDE DEF seven
<1>8. ToSet(seven \o of("search")) = {entry \in T : entry.field \in SentFields}
  <2>1. ToSet(seven \o of("search")) = ToSet(seven) \cup ToSet(of("search"))
    BY <1>1, <1>7, ConcatSet
  <2>. QED BY <1>1, <1>7, <2>1 DEF SentFields
<1>9. InWireOrder(filter) = seven \o of("search")
  BY DEF InWireOrder, of, two, three, four, five, six, seven
<1>. QED BY <1>8, <1>9 DEF Entries, T

(* A REQ carries the filters that can match, and is sent when one can.     *)
LEMMA SentFilters ==
  ASSUME NEW filters \in FilterSets
  PROVE  LET able == {filter \in ToSet(filters) : CanFilterMatch(filter)} IN
         /\ Sendable(filters) = <<>> <=> able = {}
         /\ ToSet(WireFilters(filters)) = {InWireOrder(filter) : filter \in able}
<1>. DEFINE able == {filter \in ToSet(filters) : CanFilterMatch(filter)}
            sendable == Sendable(filters)
            wire     == WireFilters(filters)
<1>1. sendable \in Seq(ToSet(filters)) /\ ToSet(sendable) = able
  <2>1. filters \in Seq(ToSet(filters))
    BY FilterSetsAssumption
  <2>2. sendable = Among(filters, able)
    BY DEF Sendable
  <2>. HIDE DEF sendable
  <2>3. Among(filters, able) \in Seq(ToSet(filters)) /\ ToSet(Among(filters, able)) = {x \in ToSet(filters) : x \in able}
    BY <2>1, AmongSelects
  <2>. QED BY <2>2, <2>3
<1>2. wire = [i \in DOMAIN sendable |-> InWireOrder(sendable[i])]
  BY DEF WireFilters
<1>. HIDE DEF sendable, able, wire
<1>3. sendable = <<>> <=> able = {}
  <2>1. Len(sendable) \in Nat /\ DOMAIN sendable = 1..Len(sendable) /\ (sendable = <<>> <=> Len(sendable) = 0)
    BY <1>1
  <2>2. able = {sendable[i] : i \in 1..Len(sendable)}
    BY <1>1, <2>1 DEF ToSet
  <2>3. CASE Len(sendable) = 0
    BY <2>1, <2>2, <2>3
  <2>4. CASE Len(sendable) # 0
    <3>1. 1 \in 1..Len(sendable)
      BY <2>1, <2>4
    <3>. QED BY <2>1, <2>2, <2>4, <3>1
  <2>. QED BY <2>3, <2>4
<1>4. ToSet(wire) = {InWireOrder(sendable[i]) : i \in DOMAIN sendable}
  BY <1>2 DEF ToSet
<1>5. ToSet(wire) = {InWireOrder(filter) : filter \in able}
  BY <1>1, <1>4 DEF ToSet
<1>. QED BY <1>3, <1>5 DEF sendable, able, wire

-----------------------------------------------------------------------------
(* The filters on which no call throws.                                    *)
Sound == {filters \in FilterSets : \A i \in DOMAIN filters : ~ThrowsOnNull(filters[i])}

(* A stored event has the seven fields, each of its type.                  *)
LEMMA StoredEvents ==
  ASSUME NEW event \in Stored
  PROVE  /\ event = [field \in NIP01_FIELDS |-> event[field]]
         /\ event.id \in EventIds /\ event.pubkey \in Pubkeys /\ event.sig \in Sigs
         /\ IsValidKind(event.kind) /\ event.created_at \in Nat
         /\ event.tags \in Seq(ToSet(event.tags))
<1>1. ParseNostrEvent(Json("object", event)) = event /\ event # Null
  BY StoredAssumption, NullAssumption
<1>. QED BY <1>1, StoredAssumption DEF ParseNostrEvent, Json, Nip01Event

(* Where a filter can match, no value of it is null or malformed.          *)
LEMMA NoNullCanMatch ==
  ASSUME NEW filter, IsFilter(filter), ~ThrowsOnNull(filter), CanFilterMatch(filter),
         NEW entry \in ToSet(filter)
  PROVE  /\ entry.value # Null
         /\ entry.field = "#" => entry.letter \in Letters /\ entry.value # NotAList
<1>1. \A other \in ToSet(filter) : other.field = "#" => IsTagCondition(other)
  BY DEF CanFilterMatch, Entries
<1>2. PICK i \in DOMAIN filter : filter[i] = entry
  BY DEF ToSet
<1>3. \A j \in 1..(i - 1) : filter[j] \in ToSet(filter)
  <2>1. filter \in Seq(ToSet(filter))
    BY DEF IsFilter
  <2>2. Len(filter) \in Nat /\ DOMAIN filter = 1..Len(filter)
    BY <2>1
  <2>. QED BY <1>2, <2>2 DEF ToSet
<1>. QED BY <1>1, <1>2, <1>3 DEF ThrowsOnNull, IsTagCondition

(* The relay accepts an entry of a sent filter where the client does.      *)
LEMMA EntryAsSent ==
  ASSUME NEW filter, IsFilter(filter), ~ThrowsOnNull(filter), CanFilterMatch(filter),
         NEW entry \in ToSet(filter), NEW event \in Stored
  PROVE  /\ entry.field = "ids" => (Accepts(entry, event) <=> event.id \in ToSet(entry.value))
         /\ entry.field = "authors" => (Accepts(entry, event) <=> event.pubkey \in ToSet(entry.value))
         /\ entry.field = "kinds" => (Accepts(entry, event) <=> event.kind \in ToSet(entry.value))
         /\ entry.field = "since" => (Accepts(entry, event) <=> event.created_at >= entry.value)
         /\ entry.field = "until" => (Accepts(entry, event) <=> event.created_at <= entry.value)
         /\ entry.field = "#" =>
              (Accepts(entry, event) <=> HasTagValue(event.tags, entry.letter, ToSet(entry.value)))
         /\ entry.field = "search" => (Accepts(entry, event) <=> SearchTermsOf(entry.value) \subseteq event.content)
         /\ entry.field = "limit" => Accepts(entry, event)
<1>1. /\ entry.value # Null
      /\ entry.field = "#" => entry.letter \in Letters /\ entry.value # NotAList
  BY NoNullCanMatch
<1>2. entry.field \in {"ids", "authors", "kinds", "#"} => entry.value # <<>>
  BY DEF CanFilterMatch, Entries
<1>3. event.created_at \in Nat
  BY StoredEvents
<1>4. CASE entry.field = "ids"
  BY <1>2, <1>4 DEF Accepts
<1>5. CASE entry.field = "authors"
  BY <1>2, <1>5 DEF Accepts
<1>6. CASE entry.field = "kinds"
  BY <1>2, <1>6 DEF Accepts
<1>7. CASE entry.field \in {"since", "until"}
  <2>1. entry.value \in Nat
    BY <1>1, <1>7 DEF IsFilter
  <2>. DEFINE at == event.created_at
              edge == entry.value
  <2>2. entry.field = "since" => (Accepts(entry, event) <=> ~(at < edge))
    BY DEF Accepts
  <2>3. entry.field = "until" => (Accepts(entry, event) <=> ~(at > edge))
    BY DEF Accepts
  <2>4. (~(at < edge) <=> at >= edge) /\ (~(at > edge) <=> at <= edge)
    BY <1>3, <2>1
  <2>. HIDE DEF at, edge
  <2>5. /\ entry.field = "since" => (Accepts(entry, event) <=> at >= edge)
        /\ entry.field = "until" => (Accepts(entry, event) <=> at <= edge)
    BY <2>2, <2>3, <2>4
  <2>. QED BY <1>7, <2>5 DEF at, edge
<1>8. CASE entry.field = "#"
  <2>1. Accepts(entry, event) <=> \E value \in ToSet(entry.value) : HasTag(event.tags, entry.letter, value)
    BY <1>1, <1>2, <1>8 DEF Accepts
  <2>. QED BY <1>8, <2>1 DEF HasTag, HasTagValue
<1>9. CASE entry.field = "search"
  BY <1>9 DEF Accepts, SearchTermsOf
<1>10. CASE entry.field = "limit"
  BY <1>10 DEF Accepts
<1>. QED BY <1>4, <1>5, <1>6, <1>7, <1>8, <1>9, <1>10

(* A sent filter selects at the relay what it matches at the client.       *)
LEMMA FilterAsSent ==
  ASSUME NEW filter, IsFilter(filter), ~ThrowsOnNull(filter), CanFilterMatch(filter),
         NEW event \in Stored
  PROVE  Matches(filter, event) <=> \A entry \in ToSet(InWireOrder(filter)) : Accepts(entry, event)
<1>1. ToSet(InWireOrder(filter)) = {entry \in ToSet(filter) : entry.field \in SentFields}
  BY WireEntries DEF IsFilter, Entries
<1>2. ASSUME Matches(filter, event), NEW entry \in ToSet(filter), entry.field \in SentFields
      PROVE  Accepts(entry, event)
  BY <1>2, EntryAsSent DEF Matches, SentFields
<1>3. ASSUME \A entry \in ToSet(filter) : entry.field \in SentFields => Accepts(entry, event)
      PROVE  Matches(filter, event)
  BY <1>3, EntryAsSent DEF Matches, SentFields
<1>. QED BY <1>1, <1>2, <1>3

(* Filters are sent as they are meant: whichever way a relay reads what    *)
(* NIP-01 leaves open, the wire filters of serialiseReqMessage select      *)
(* there what compileFilters matches here, and a REQ that is not sent had  *)
(* nothing to find.                                                        *)
THEOREM FiltersAreSentAsMeant ==
  ASSUME NEW filters \in Sound
  PROVE  /\ Selected(WireFilters(filters)) = Matching(filters)
         /\ Sendable(filters) = <<>> => Matching(filters) = {}
<1>1. ASSUME NEW filter \in ToSet(filters)
      PROVE  IsFilter(filter) /\ ~ThrowsOnNull(filter)
  BY FilterSetsAssumption DEF Sound, ToSet
<1>. DEFINE able == {filter \in ToSet(filters) : CanFilterMatch(filter)}
<1>2. /\ Sendable(filters) = <<>> <=> able = {}
      /\ ToSet(WireFilters(filters)) = {InWireOrder(filter) : filter \in able}
  BY SentFilters DEF Sound
<1>3. \A filter \in ToSet(filters), event \in Stored : Matches(filter, event) => filter \in able
  BY DEF Matches
<1>4. ASSUME NEW event \in Stored
      PROVE  MatchesSome(filters, event) <=> event \in Selected(WireFilters(filters))
  <2>1. \A filter \in able :
          Matches(filter, event) <=> \A entry \in ToSet(InWireOrder(filter)) : Accepts(entry, event)
    BY <1>1, FilterAsSent
  <2>2. event \in Selected(WireFilters(filters)) <=>
          \E filter \in able : \A entry \in ToSet(InWireOrder(filter)) : Accepts(entry, event)
    BY <1>2 DEF Selected
  <2>3. MatchesSome(filters, event) <=> \E filter \in able : Matches(filter, event)
    BY <1>3 DEF MatchesSome
  <2>. QED BY <2>1, <2>2, <2>3
<1>. QED BY <1>2, <1>3, <1>4 DEF Matching, Selected, MatchesSome

-----------------------------------------------------------------------------
(* The digest.  What an entry adds to it, below the entry's key.           *)
DigestOf(entry) == IF IsList(entry) THEN Counts(entry.value) ELSE entry.value

LEMMA CanonicalEntry ==
  ASSUME NEW filter, IsFilter(filter), NEW entry \in ToSet(filter)
  PROVE  /\ DOMAIN Canonical(filter) = {KeyOf(other) : other \in ToSet(filter)}
         /\ Canonical(filter)[KeyOf(entry)] = DigestOf(entry)
<1>. DEFINE only == CHOOSE other \in ToSet(filter) : KeyOf(other) = KeyOf(entry)
<1>1. only = entry
  BY DEF IsFilter
<1>2. Canonical(filter)[KeyOf(entry)] = DigestOf(only)
  BY DEF Canonical, DigestOf
<1>. HIDE DEF only
<1>3. DOMAIN Canonical(filter) = {KeyOf(other) : other \in ToSet(filter)}
  BY DEF Canonical
<1>. QED BY <1>1, <1>2, <1>3

(* Filters of one canonical form have their entries in pairs.              *)
LEMMA SameEntry ==
  ASSUME NEW filter, NEW other, IsFilter(filter), IsFilter(other), Canonical(filter) = Canonical(other),
         NEW entry \in ToSet(filter)
  PROVE  \E twin \in ToSet(other) :
           twin.field = entry.field /\ twin.letter = entry.letter /\ DigestOf(twin) = DigestOf(entry)
<1>1. /\ KeyOf(entry) \in DOMAIN Canonical(filter)
      /\ Canonical(filter)[KeyOf(entry)] = DigestOf(entry)
  BY CanonicalEntry
<1>2. PICK some \in ToSet(other) : TRUE
  <2>1. KeyOf(entry) \in DOMAIN Canonical(other)
    BY <1>1
  <2>2. DOMAIN Canonical(other) = {KeyOf(some) : some \in ToSet(other)}
    BY DEF Canonical
  <2>. QED BY <2>1, <2>2
<1>3. PICK twin \in ToSet(other) : KeyOf(twin) = KeyOf(entry)
  <2>1. DOMAIN Canonical(other) = {KeyOf(one) : one \in ToSet(other)}
    BY <1>2, CanonicalEntry
  <2>. QED BY <1>1, <2>1
<1>4. Canonical(other)[KeyOf(twin)] = DigestOf(twin)
  BY CanonicalEntry
<1>5. DigestOf(twin) = DigestOf(entry)
  BY <1>1, <1>3, <1>4
<1>6. twin.field = entry.field /\ twin.letter = entry.letter
  BY <1>3 DEF KeyOf
<1>. QED BY <1>5, <1>6

(* A list has the elements of every list it shares its digest with.        *)
LEMMA SameList ==
  ASSUME NEW s, NEW t, Counts(s) = Counts(t)
  PROVE  ToSet(s) = ToSet(t)
BY DEF Counts

(* The twin, in another filter, of an entry that a filter can match on.    *)
LEMMA TwinMatches ==
  ASSUME NEW filters \in FilterSets, NEW filter \in ToSet(filters),
         ~ThrowsOnNull(filter), CanFilterMatch(filter),
         NEW entry \in ToSet(filter),
         NEW others \in FilterSets, NEW other \in ToSet(others), NEW twin \in ToSet(other),
         twin.field = entry.field, twin.letter = entry.letter, DigestOf(twin) = DigestOf(entry)
  PROVE  /\ entry.field \in {"ids", "authors", "kinds", "#"} =>
              ToSet(twin.value) = ToSet(entry.value) /\ twin.value # <<>>
         /\ entry.field = "#" => twin.value # NotAList
         /\ entry.field \notin {"ids", "authors", "kinds", "#"} => twin.value = entry.value
<1>1. IsFilter(filter) /\ IsFilter(other)
  BY FilterSetsAssumption
<1>2. /\ entry.value # Null
      /\ entry.field = "#" => entry.letter \in Letters /\ entry.value # NotAList
  BY <1>1, NoNullCanMatch
<1>4. CASE entry.field \in {"ids", "authors", "kinds", "#"}
  <2>1. IsList(entry)
    BY <1>1, <1>2, <1>4 DEF IsList, IsFilter
  <2>2. DigestOf(twin) = Counts(entry.value) /\ Counts(entry.value) \notin {Null, NotAList}
    BY <2>1, NullAssumption DEF DigestOf
  <2>3. IsList(twin)
    BY <1>4, <2>2 DEF DigestOf, IsList
  <2>4. ToSet(twin.value) = ToSet(entry.value)
    BY <2>2, <2>3, SameList DEF DigestOf
  <2>5. entry.value # <<>> /\ entry.value \in Seq(ToSet(entry.value))
    BY <1>1, <1>2, <1>4 DEF CanFilterMatch, Entries, IsFilter
  <2>6. ToSet(entry.value) # {}
    <3>1. 1 \in DOMAIN entry.value
      BY <2>5
    <3>. QED BY <3>1 DEF ToSet
  <2>7. ToSet(<<>>) = {}
    BY DEF ToSet
  <2>. QED BY <1>4, <2>3, <2>4, <2>6, <2>7 DEF IsList
<1>5. CASE entry.field \notin {"ids", "authors", "kinds", "#"}
  BY <1>5 DEF DigestOf, IsList
<1>. QED BY <1>4, <1>5

LEMMA CanonicalMatches ==
  ASSUME NEW filters \in FilterSets, NEW filter \in ToSet(filters), ~ThrowsOnNull(filter),
         NEW others \in FilterSets, NEW other \in ToSet(others),
         Canonical(filter) = Canonical(other),
         NEW event, Matches(filter, event)
  PROVE  Matches(other, event)
<1>1. CanFilterMatch(filter)
  BY DEF Matches
<1>2. IsFilter(filter) /\ IsFilter(other)
  BY FilterSetsAssumption
<1>3. ASSUME NEW twin \in ToSet(other)
      PROVE  \E entry \in ToSet(filter) :
               /\ entry.field = twin.field /\ entry.letter = twin.letter
               /\ twin.field \in {"ids", "authors", "kinds", "#"} =>
                    ToSet(twin.value) = ToSet(entry.value) /\ twin.value # <<>>
               /\ twin.field = "#" => twin.value # NotAList
               /\ twin.field \notin {"ids", "authors", "kinds", "#"} => twin.value = entry.value
  <2>1. PICK entry \in ToSet(filter) :
          entry.field = twin.field /\ entry.letter = twin.letter /\ DigestOf(entry) = DigestOf(twin)
    BY <1>2, SameEntry
  <2>. QED BY <1>1, <2>1, TwinMatches
<1>4. CanFilterMatch(other)
  <2>1. \A twin \in ToSet(other) : twin.field = "#" => IsTagCondition(twin)
    BY <1>1, <1>3 DEF CanFilterMatch, Entries, IsTagCondition
  <2>2. \A twin \in ToSet(other) : twin.field \in {"ids", "authors", "kinds", "#"} => twin.value # <<>>
    BY <1>3
  <2>3. ASSUME NEW since \in ToSet(other), NEW until \in ToSet(other),
               since.field = "since", until.field = "until"
        PROVE  since.value <= until.value
    <3>1. PICK from \in ToSet(filter) : from.field = "since" /\ from.value = since.value
      BY <1>3, <2>3
    <3>2. PICK to \in ToSet(filter) : to.field = "until" /\ to.value = until.value
      BY <1>3, <2>3
    <3>. QED BY <1>1, <3>1, <3>2 DEF CanFilterMatch, Entries
  <2>. QED BY <2>1, <2>2, <2>3 DEF CanFilterMatch, Entries
<1>5. ASSUME NEW twin \in ToSet(other)
      PROVE  /\ twin.field = "ids" => event.id \in ToSet(twin.value)
             /\ twin.field = "authors" => event.pubkey \in ToSet(twin.value)
             /\ twin.field = "kinds" => event.kind \in ToSet(twin.value)
             /\ twin.field = "since" => event.created_at >= twin.value
             /\ twin.field = "until" => event.created_at <= twin.value
             /\ twin.field = "#" => HasTagValue(event.tags, twin.letter, ToSet(twin.value))
             /\ twin.field = "search" => SearchTermsOf(twin.value) \subseteq event.content
  <2>1. PICK entry \in ToSet(filter) :
          /\ entry.field = twin.field /\ entry.letter = twin.letter
          /\ twin.field \in {"ids", "authors", "kinds", "#"} => ToSet(twin.value) = ToSet(entry.value)
          /\ twin.field \notin {"ids", "authors", "kinds", "#"} => twin.value = entry.value
    BY <1>3
  <2>. QED BY <2>1 DEF Matches
<1>. QED BY <1>4, <1>5 DEF Matches

(* Filters of one digest of hashFilters match the same events, whatever    *)
(* the order of their keys, lists and filters.                             *)
THEOREM EqualDigestsMatchAlike ==
  ASSUME NEW filters \in Sound, NEW others \in Sound, HashFilters(filters) = HashFilters(others)
  PROVE  Matching(filters) = Matching(others)
<1>1. ASSUME NEW one \in Sound, NEW two \in Sound, HashFilters(one) = HashFilters(two),
             NEW event \in Matching(one)
      PROVE  event \in Matching(two)
  <2>. DEFINE canonical(f) == [i \in DOMAIN f |-> Canonical(f[i])]
  <2>1. ToSet(canonical(one)) = ToSet(canonical(two))
    <3>. HIDE DEF canonical
    <3>1. Counts(canonical(one)) = Counts(canonical(two))
      BY <1>1 DEF HashFilters, canonical
    <3>. QED BY <3>1, SameList
  <2>2. PICK i \in DOMAIN one : Matches(one[i], event)
    BY <1>1 DEF Matching, MatchesSome, ToSet
  <2>3. Canonical(one[i]) \in ToSet(canonical(two))
    <3>1. canonical(one)[i] = Canonical(one[i]) /\ i \in DOMAIN canonical(one)
      OBVIOUS
    <3>. HIDE DEF canonical
    <3>. QED BY <2>1, <3>1 DEF ToSet
  <2>4. PICK j \in DOMAIN two : Canonical(one[i]) = Canonical(two[j])
    BY <2>3 DEF ToSet
  <2>5. one[i] \in ToSet(one) /\ ~ThrowsOnNull(one[i]) /\ two[j] \in ToSet(two)
    BY <1>1 DEF Sound, ToSet
  <2>6. Matches(two[j], event)
    BY <2>2, <2>4, <2>5, CanonicalMatches DEF Sound
  <2>. QED BY <1>1, <2>5, <2>6 DEF Matching, MatchesSome
<1>. QED BY <1>1

-----------------------------------------------------------------------------
(* What a subscription of a digest is for.                                 *)
Wanted(hash) == Matching(CHOOSE filters \in Sound : HashFilters(filters) = hash)

LEMMA WantedIsMatching ==
  ASSUME NEW filters \in Sound
  PROVE  Wanted(HashFilters(filters)) = Matching(filters)
<1>. DEFINE hash == HashFilters(filters)
            one  == CHOOSE some \in Sound : HashFilters(some) = hash
<1>1. one \in Sound /\ HashFilters(one) = hash
  OBVIOUS
<1>. HIDE DEF one
<1>2. Matching(one) = Matching(filters)
  BY <1>1, EqualDigestsMatchAlike
<1>. QED BY <1>2 DEF Wanted, one

(* The messages a frame may be: one that brings an event, one that says    *)
(* that all have been sent, and one that refuses.                          *)
Brings(frame, sub, event) ==
  LET message == ParseRelayMessage(frame) IN
  /\ message # Null /\ message.type = "EVENT" /\ "subscriptionId" \in DOMAIN message
  /\ message.subscriptionId = sub /\ message.event = event

SaysAll(frame, sub) ==
  LET message == ParseRelayMessage(frame) IN
  message # Null /\ message.type = "EOSE" /\ message.subscriptionId = sub /\ "finish" \in message.hints

SaysWhy(frame) ==
  LET message == ParseRelayMessage(frame)
      stated  == Last(frame).v
  IN  IsRefusal(message) =>
        message.reason = IF stated.prefix \in REASON_PREFIXES THEN stated.prefix ELSE "error"

(* What a message is read as, by its first element.                        *)
LEMMA ReadByVerb ==
  ASSUME NEW frame
  PROVE  LET verb == ElementAt(frame, 1).v
             a    == ElementAt(frame, 2)
             b    == ElementAt(frame, 3)
             c    == ElementAt(frame, 4)
             message == ParseRelayMessage(frame)
         IN  /\ verb = "EVENT" =>
                  message = IF IsValidSubscriptionId(a) /\ ParseNostrEvent(b) # Null
                            THEN [type |-> "EVENT", subscriptionId |-> a.v, event |-> ParseNostrEvent(b)] ELSE Null
             /\ verb = "EOSE" =>
                  message = IF IsValidSubscriptionId(a)
                            THEN [type |-> "EOSE", subscriptionId |-> a.v, hints |-> EoseHintsOf(b)] ELSE Null
             /\ verb = "OK" =>
                  message = IF IsValidEventId(a) /\ b.is = "boolean" /\ IsReason(c)
                            THEN [type |-> "OK", eventId |-> a.v, accepted |-> b.v,
                                  reason |-> IF b.v THEN ParseReasonPrefix(c.v) ELSE RejectionReason(c.v)] ELSE Null
             /\ verb = "CLOSED" =>
                  message = IF IsValidSubscriptionId(a) /\ IsReason(b)
                            THEN [type |-> "CLOSED", subscriptionId |-> a.v, reason |-> RejectionReason(b.v)] ELSE Null
<1>. DEFINE verb == ElementAt(frame, 1).v
            a    == ElementAt(frame, 2)
            b    == ElementAt(frame, 3)
            c    == ElementAt(frame, 4)
<1>1. CASE verb = "EVENT"
  BY <1>1 DEF ParseRelayMessage
<1>2. CASE verb = "EOSE"
  BY <1>2 DEF ParseRelayMessage
<1>3. CASE verb = "OK"
  BY <1>3 DEF ParseRelayMessage
<1>4. CASE verb = "CLOSED"
  BY <1>4 DEF ParseRelayMessage
<1>. QED BY <1>1, <1>2, <1>3, <1>4

(* What each message that is sent is read as.                              *)
LEMMA EventRead ==
  ASSUME NEW event \in Stored, NEW sub \in SubscriptionIds
  PROVE  LET frame == <<Json("string", "EVENT"), Json("string", sub), Json("object", WithOwnField(event))>> IN
         ParseRelayMessage(frame) = [type |-> "EVENT", subscriptionId |-> sub, event |-> event]
<1>. DEFINE frame == <<Json("string", "EVENT"), Json("string", sub), Json("object", WithOwnField(event))>>
            body  == Json("object", WithOwnField(event))
<1>1. /\ WithOwnField(event) = [field \in NIP01_FIELDS \cup {"seen"} |->
                                  IF field = "seen" THEN "today" ELSE event[field]]
      /\ "seen" \notin NIP01_FIELDS
  BY DEF WithOwnField, NIP01_FIELDS
<1>2. \A field \in NIP01_FIELDS : WithOwnField(event)[field] = event[field]
  BY <1>1
<1>3. DOMAIN WithOwnField(event) = NIP01_FIELDS \cup {"seen"}
  BY <1>1
<1>4. Nip01Event(WithOwnField(event)) = event
  <2>1. event = [field \in NIP01_FIELDS |-> event[field]]
    BY StoredEvents
  <2>. QED BY <1>2, <2>1 DEF Nip01Event
<1>5. /\ WithOwnField(event).id = event.id /\ WithOwnField(event).pubkey = event.pubkey
      /\ WithOwnField(event).sig = event.sig /\ WithOwnField(event).kind = event.kind
      /\ WithOwnField(event).created_at = event.created_at
  BY <1>2 DEF NIP01_FIELDS
<1>6. ParseNostrEvent(body) = event
  BY <1>3, <1>4, <1>5, StoredEvents DEF ParseNostrEvent, Json
<1>7. event # Null
  BY NullAssumption
<1>8. /\ ElementAt(frame, 1) = Json("string", "EVENT") /\ ElementAt(frame, 2) = Json("string", sub)
      /\ ElementAt(frame, 3) = body
  BY DEF ElementAt
<1>. HIDE DEF frame, body
<1>9. ParseRelayMessage(frame) = [type |-> "EVENT", subscriptionId |-> sub, event |-> event]
  <2>1. ElementAt(frame, 1).v = "EVENT" /\ ElementAt(frame, 2).v = sub
    BY <1>8 DEF Json
  <2>2. IsValidSubscriptionId(ElementAt(frame, 2)) /\ ParseNostrEvent(ElementAt(frame, 3)) = event
    BY <1>6, <1>8 DEF IsValidSubscriptionId, IsString, Json
  <2>. QED BY <1>7, <2>1, <2>2, ReadByVerb
<1>. QED BY <1>9 DEF frame

LEMMA EndRead ==
  ASSUME NEW hints \in Hints, NEW sub \in SubscriptionIds
  PROVE  LET frame   == <<Json("string", "EOSE"), Json("string", sub), Json("array", hints)>>
             message == ParseRelayMessage(frame)
         IN  /\ message = [type |-> "EOSE", subscriptionId |-> sub, hints |-> EoseHintsOf(Json("array", hints))]
             /\ "finish" \in message.hints => Json("string", "finish") \in ToSet(hints)
<1>. DEFINE frame == <<Json("string", "EOSE"), Json("string", sub), Json("array", hints)>>
<1>1. /\ ElementAt(frame, 1) = Json("string", "EOSE") /\ ElementAt(frame, 2) = Json("string", sub)
      /\ ElementAt(frame, 3) = Json("array", hints)
  BY DEF ElementAt
<1>2. "finish" \in EoseHintsOf(Json("array", hints)) => Json("string", "finish") \in ToSet(hints)
  <2>1. SUFFICES ASSUME "finish" \in EoseHintsOf(Json("array", hints))
                 PROVE  Json("string", "finish") \in ToSet(hints)
    OBVIOUS
  <2>2. PICK hint \in ToSet(hints) : hint.v = "finish"
    BY <2>1 DEF EoseHintsOf, Json
  <2>3. \A one \in ToSet(hints) : one.v = "finish" => one = Json("string", "finish")
    BY DEF Hints, Json, ToSet
  <2>. QED BY <2>2, <2>3
<1>. HIDE DEF frame
<1>3. ParseRelayMessage(frame) = [type |-> "EOSE", subscriptionId |-> sub, hints |-> EoseHintsOf(Json("array", hints))]
  <2>1. ElementAt(frame, 1).v = "EOSE" /\ ElementAt(frame, 2).v = sub
    BY <1>1 DEF Json
  <2>2. IsValidSubscriptionId(ElementAt(frame, 2))
    BY <1>1 DEF IsValidSubscriptionId, IsString, Json
  <2>. QED BY <1>1, <2>1, <2>2, ReadByVerb
<1>. QED BY <1>2, <1>3 DEF frame

(* A refusal brings no event and says nothing of the end.                  *)
LEMMA RejectionReasonIsRight ==
  ASSUME NEW reason
  PROVE  RejectionReason(reason) = IF reason.prefix \in REASON_PREFIXES THEN reason.prefix ELSE "error"
BY NullAssumption DEF RejectionReason, ParseReasonPrefix, ??

LEMMA CloseRead ==
  ASSUME NEW reason, NEW sub \in SubscriptionIds
  PROVE  LET frame == <<Json("string", "CLOSED"), Json("string", sub), Json("reason", reason)>> IN
         /\ SaysWhy(frame)
         /\ \A other, event : ~Brings(frame, other, event) /\ ~SaysAll(frame, other)
<1>. DEFINE frame == <<Json("string", "CLOSED"), Json("string", sub), Json("reason", reason)>>
<1>1. /\ ElementAt(frame, 1) = Json("string", "CLOSED") /\ ElementAt(frame, 2) = Json("string", sub)
      /\ ElementAt(frame, 3) = Json("reason", reason)
      /\ Last(frame) = Json("reason", reason)
  BY DEF ElementAt, Last
<1>. HIDE DEF frame
<1>2. ParseRelayMessage(frame) = [type |-> "CLOSED", subscriptionId |-> sub, reason |-> RejectionReason(reason)]
  <2>1. ElementAt(frame, 1).v = "CLOSED" /\ ElementAt(frame, 2).v = sub /\ ElementAt(frame, 3).v = reason
    BY <1>1 DEF Json
  <2>2. IsValidSubscriptionId(ElementAt(frame, 2)) /\ IsReason(ElementAt(frame, 3))
    BY <1>1 DEF IsValidSubscriptionId, IsString, IsReason, Json
  <2>. QED BY <2>1, <2>2, ReadByVerb
<1>3. Last(frame).v = reason
  BY <1>1 DEF Json
<1>. QED BY <1>2, <1>3, RejectionReasonIsRight DEF SaysWhy, Brings, SaysAll, frame

LEMMA OkRead ==
  ASSUME NEW id, NEW accepted, NEW reason
  PROVE  LET frame == <<Json("string", "OK"), Json("string", id), Json("boolean", accepted), Json("reason", reason)>>
         IN  /\ SaysWhy(frame)
             /\ \A other, event : ~Brings(frame, other, event) /\ ~SaysAll(frame, other)
<1>. DEFINE frame == <<Json("string", "OK"), Json("string", id), Json("boolean", accepted), Json("reason", reason)>>
            message == ParseRelayMessage(frame)
<1>1. /\ ElementAt(frame, 1) = Json("string", "OK") /\ ElementAt(frame, 2) = Json("string", id)
      /\ ElementAt(frame, 3) = Json("boolean", accepted) /\ ElementAt(frame, 4) = Json("reason", reason)
      /\ Last(frame) = Json("reason", reason)
  BY DEF ElementAt, Last
<1>. HIDE DEF frame
<1>2. /\ ElementAt(frame, 1).v = "OK" /\ ElementAt(frame, 3).v = accepted
      /\ ElementAt(frame, 4).v = reason /\ Last(frame).v = reason
  BY <1>1 DEF Json
<1>3. \/ message = Null
      \/ /\ message.type = "OK" /\ message.accepted = accepted
         /\ ~accepted => message.reason = RejectionReason(reason)
  BY <1>2, ReadByVerb
<1>. HIDE DEF message
<1>4. \A other, event : ~Brings(frame, other, event) /\ ~SaysAll(frame, other)
  BY <1>3 DEF Brings, SaysAll, message
<1>5. SaysWhy(frame)
  BY <1>2, <1>3, RejectionReasonIsRight DEF SaysWhy, IsRefusal, message
<1>. QED BY <1>4, <1>5 DEF frame

LEMMA StrayRead ==
  ASSUME NEW i \in DOMAIN Strays
  PROVE  /\ SaysWhy(Strays[i])
         /\ \A other, event : ~Brings(Strays[i], other, event) /\ ~SaysAll(Strays[i], other)
BY StraysAssumption DEF SaysWhy, Brings, SaysAll, IsRefusal

-----------------------------------------------------------------------------
(* The inductive invariant.                                                *)
TypeOK ==
  /\ asked \in [Callers -> FilterSets \cup {Null}]
  /\ subOf \in [Callers -> SubscriptionIds \cup {Null}]
  /\ held \in [SubscriptionIds -> Holdings \cup {Null}]
  /\ serving \in [SubscriptionIds -> Servings \cup {Null}]
  /\ frames \in Seq(ToSet(frames))

(* A caller has a subscription to what it asked for.                       *)
SharesItsOwn ==
  \A caller \in Callers : subOf[caller] # Null =>
    /\ asked[caller] \in Sound
    /\ held[subOf[caller]] # Null /\ held[subOf[caller]].hash = HashFilters(asked[caller])

(* The events that the first of some messages bring a subscription.        *)
Coming(messages, sub, count) == {event \in Stored : \E i \in 1..count : Brings(messages[i], sub, event)}

ServesWhatIsWanted ==
  \A sub \in SubscriptionIds : serving[sub] # Null =>
    /\ held[sub] # Null
    /\ Selected(serving[sub].wire) = Wanted(held[sub].hash)
    /\ serving[sub].sent \subseteq held[sub].found \cup Coming(frames, sub, Len(frames))

FindsWhatIsWanted ==
  \A sub \in SubscriptionIds : held[sub] # Null =>
    /\ held[sub].found \subseteq Wanted(held[sub].hash)
    /\ held[sub].end = "finish" => Wanted(held[sub].hash) \subseteq held[sub].found

(* A message that says all were sent comes after the last of them.         *)
FramesAreInOrder ==
  \A i \in 1..Len(frames) :
    /\ SaysWhy(frames[i])
    /\ \A sub \in SubscriptionIds :
         /\ \A event : Brings(frames[i], sub, event) =>
              held[sub] # Null /\ event \in Wanted(held[sub].hash)
         /\ SaysAll(frames[i], sub) =>
              held[sub] # Null /\ Wanted(held[sub].hash) \subseteq held[sub].found \cup Coming(frames, sub, i - 1)

IInv ==
  /\ TypeOK
  /\ SharesItsOwn
  /\ ServesWhatIsWanted
  /\ FindsWhatIsWanted
  /\ FramesAreInOrder
  /\ RefusalsSayWhy

-----------------------------------------------------------------------------
(* What is on its way once a message more is sent, or the first is read.   *)
LEMMA ComingAfterSend ==
  ASSUME NEW messages, messages \in Seq(ToSet(messages)), NEW frame
  PROVE  LET later == Append(messages, frame) IN
         /\ later \in Seq(ToSet(later)) /\ Len(messages) \in Nat /\ Len(later) = Len(messages) + 1
         /\ \A i \in 1..Len(messages) : later[i] = messages[i]
         /\ later[Len(messages) + 1] = frame
         /\ \A sub : \A count \in 0..Len(messages) : Coming(later, sub, count) = Coming(messages, sub, count)
         /\ \A sub : Coming(later, sub, Len(later)) =
              Coming(messages, sub, Len(messages)) \cup {event \in Stored : Brings(frame, sub, event)}
<1>. DEFINE later == Append(messages, frame)
            T     == ToSet(messages) \cup {frame}
<1>1. messages \in Seq(T) /\ frame \in T
  OBVIOUS
<1>2. ToSet(later) = T
  <2>. HIDE DEF T
  <2>1. ToSet(Append(messages, frame)) = ToSet(messages) \cup {frame}
    BY <1>1, AppendSet
  <2>. QED BY <2>1 DEF T
<1>. HIDE DEF T
<1>3. /\ Len(messages) \in Nat /\ Len(later) = Len(messages) + 1 /\ later \in Seq(T)
      /\ \A i \in 1..Len(messages) : later[i] = messages[i]
      /\ later[Len(messages) + 1] = frame
  BY <1>1
<1>. HIDE DEF later
<1>4. ASSUME NEW sub, NEW count \in 0..Len(messages)
      PROVE  Coming(later, sub, count) = Coming(messages, sub, count)
  <2>1. \A i \in 1..count : later[i] = messages[i]
    BY <1>3
  <2>. QED BY <2>1 DEF Coming
<1>5. ASSUME NEW sub
      PROVE  Coming(later, sub, Len(later)) =
               Coming(messages, sub, Len(messages)) \cup {event \in Stored : Brings(frame, sub, event)}
  <2>1. 1..Len(later) = 1..Len(messages) \cup {Len(messages) + 1}
    BY <1>3
  <2>2. \A event \in Stored :
          (\E i \in 1..Len(later) : Brings(later[i], sub, event)) <=>
            \/ \E i \in 1..Len(messages) : Brings(messages[i], sub, event)
            \/ Brings(frame, sub, event)
    BY <1>3, <2>1
  <2>. QED BY <2>2 DEF Coming
<1>. QED BY <1>2, <1>3, <1>4, <1>5 DEF later

LEMMA ComingAfterRead ==
  ASSUME NEW messages, messages \in Seq(ToSet(messages)), messages # <<>>
  PROVE  LET later == Tail(messages) IN
         /\ later \in Seq(ToSet(later)) /\ Len(later) \in Nat /\ Len(messages) = Len(later) + 1
         /\ Head(messages) = messages[1]
         /\ \A i \in 1..Len(later) : later[i] = messages[i + 1]
         /\ \A sub : \A count \in 0..Len(later) :
              Coming(messages, sub, count + 1) =
                Coming(later, sub, count) \cup {event \in Stored : Brings(messages[1], sub, event)}
<1>. DEFINE later == Tail(messages)
<1>1. /\ Len(later) \in Nat /\ Len(messages) = Len(later) + 1 /\ DOMAIN later = 1..Len(later)
      /\ Head(messages) = messages[1]
      /\ \A i \in 1..Len(later) : later[i] = messages[i + 1]
      /\ later \in Seq(ToSet(messages))
  OBVIOUS
<1>. HIDE DEF later
<1>2. later \in Seq(ToSet(later))
  <2>1. \A i \in 1..Len(later) : later[i] \in ToSet(later)
    BY <1>1 DEF ToSet
  <2>. QED BY <1>1, <2>1
<1>3. ASSUME NEW sub, NEW count \in 0..Len(later)
      PROVE  Coming(messages, sub, count + 1) =
               Coming(later, sub, count) \cup {event \in Stored : Brings(messages[1], sub, event)}
  <2>1. \A i \in 1..(count + 1) : i = 1 \/ (i - 1 \in 1..count /\ messages[i] = later[i - 1])
    BY <1>1
  <2>2. \A i \in 1..count : i + 1 \in 1..(count + 1) /\ later[i] = messages[i + 1]
    BY <1>1
  <2>3. 1 \in 1..(count + 1)
    BY <1>1
  <2>4. \A event \in Stored :
          (\E i \in 1..(count + 1) : Brings(messages[i], sub, event)) <=>
            \/ \E i \in 1..count : Brings(later[i], sub, event)
            \/ Brings(messages[1], sub, event)
    BY <2>1, <2>2, <2>3
  <2>. QED BY <2>4 DEF Coming
<1>. QED BY <1>1, <1>2, <1>3 DEF later

(* A step that sends a message the subscriptions are ready for.            *)
LEMMA SendKeepsOrder ==
  ASSUME TypeOK, FramesAreInOrder, NEW frame, Send(frame), held' = held,
         SaysWhy(frame),
         \A sub \in SubscriptionIds : \A event : Brings(frame, sub, event) =>
           held[sub] # Null /\ event \in Wanted(held[sub].hash),
         \A sub \in SubscriptionIds : SaysAll(frame, sub) =>
           held[sub] # Null /\ Wanted(held[sub].hash) \subseteq held[sub].found \cup Coming(frames, sub, Len(frames))
  PROVE  /\ FramesAreInOrder' /\ frames' \in Seq(ToSet(frames'))
         /\ \A sub : Coming(frames', sub, Len(frames')) =
              Coming(frames, sub, Len(frames)) \cup {event \in Stored : Brings(frame, sub, event)}
         /\ RefusalsSayWhy'
<1>. DEFINE now   == frames
            later == frames'
<1>1. now \in Seq(ToSet(now)) /\ later = Append(now, frame)
  BY DEF TypeOK, Send
<1>. HIDE DEF now, later
<1>2. /\ later \in Seq(ToSet(later)) /\ Len(now) \in Nat /\ Len(later) = Len(now) + 1
      /\ \A i \in 1..Len(now) : later[i] = now[i]
      /\ later[Len(now) + 1] = frame
      /\ \A sub : \A count \in 0..Len(now) : Coming(later, sub, count) = Coming(now, sub, count)
      /\ \A sub : Coming(later, sub, Len(later)) =
           Coming(now, sub, Len(now)) \cup {event \in Stored : Brings(frame, sub, event)}
  BY <1>1, ComingAfterSend
<1>3. ASSUME NEW i \in 1..Len(later)
      PROVE  /\ SaysWhy(later[i])
             /\ \A sub \in SubscriptionIds :
                  /\ \A event : Brings(later[i], sub, event) =>
                       held[sub] # Null /\ event \in Wanted(held[sub].hash)
                  /\ SaysAll(later[i], sub) =>
                       /\ held[sub] # Null
                       /\ Wanted(held[sub].hash) \subseteq held[sub].found \cup Coming(later, sub, i - 1)
  <2>1. CASE i = Len(now) + 1
    <3>1. later[i] = frame /\ i - 1 = Len(now) /\ Len(now) \in 0..Len(now)
      BY <1>2, <2>1
    <3>. QED BY <1>2, <3>1 DEF now
  <2>2. CASE i \in 1..Len(now)
    <3>1. later[i] = now[i] /\ i - 1 \in 0..Len(now)
      BY <1>2, <2>2
    <3>2. /\ SaysWhy(now[i])
          /\ \A sub \in SubscriptionIds :
               /\ \A event : Brings(now[i], sub, event) => held[sub] # Null /\ event \in Wanted(held[sub].hash)
               /\ SaysAll(now[i], sub) =>
                    /\ held[sub] # Null
                    /\ Wanted(held[sub].hash) \subseteq held[sub].found \cup Coming(now, sub, i - 1)
      BY <2>2 DEF now, FramesAreInOrder
    <3>3. \A sub : Coming(later, sub, i - 1) = Coming(now, sub, i - 1)
      BY <1>2, <3>1
    <3>. QED BY <3>1, <3>2, <3>3
  <2>. QED BY <1>2, <2>1, <2>2
<1>4. FramesAreInOrder'
  BY <1>3 DEF FramesAreInOrder, later
<1>. QED BY <1>2, <1>4 DEF now, later, RefusalsSayWhy, Send

LEMMA PublishKeeps ==
  ASSUME IInv, NEW post, Publish(post)
  PROVE  IInv'
<1>. DEFINE frame == <<Json("string", "OK"), Json("string", Message(post.event)[2].id),
                       Json("boolean", post.accepted), Json("reason", post.reason)>>
<1>1. Send(frame) /\ UNCHANGED <<asked, subOf, held, serving>>
  BY DEF Publish
<1>2. SaysWhy(frame) /\ \A sub, event : ~Brings(frame, sub, event) /\ ~SaysAll(frame, sub)
  BY OkRead
<1>. HIDE DEF frame
<1>3. /\ FramesAreInOrder' /\ frames' \in Seq(ToSet(frames')) /\ RefusalsSayWhy'
      /\ \A sub : Coming(frames, sub, Len(frames)) \subseteq Coming(frames', sub, Len(frames'))
  BY <1>1, <1>2, SendKeepsOrder DEF IInv
<1>4. TypeOK' /\ SharesItsOwn' /\ FindsWhatIsWanted'
  BY <1>1, <1>3 DEF IInv, TypeOK, SharesItsOwn, FindsWhatIsWanted
<1>5. ServesWhatIsWanted'
  BY <1>1, <1>3 DEF IInv, ServesWhatIsWanted
<1>. QED BY <1>3, <1>4, <1>5 DEF IInv

LEMMA StrayKeeps ==
  ASSUME IInv, NEW i \in DOMAIN Strays, Stray(Strays[i])
  PROVE  IInv'
<1>1. Send(Strays[i]) /\ UNCHANGED <<asked, subOf, held, serving>>
  BY DEF Stray
<1>2. SaysWhy(Strays[i]) /\ \A sub, event : ~Brings(Strays[i], sub, event) /\ ~SaysAll(Strays[i], sub)
  BY StrayRead
<1>3. /\ FramesAreInOrder' /\ frames' \in Seq(ToSet(frames')) /\ RefusalsSayWhy'
      /\ \A sub : Coming(frames, sub, Len(frames)) \subseteq Coming(frames', sub, Len(frames'))
  BY <1>1, <1>2, SendKeepsOrder DEF IInv
<1>4. TypeOK' /\ SharesItsOwn' /\ FindsWhatIsWanted'
  BY <1>1, <1>3 DEF IInv, TypeOK, SharesItsOwn, FindsWhatIsWanted
<1>5. ServesWhatIsWanted'
  BY <1>1, <1>3 DEF IInv, ServesWhatIsWanted
<1>. QED BY <1>3, <1>4, <1>5 DEF IInv

LEMMA RefuseKeeps ==
  ASSUME IInv, NEW sub \in SubscriptionIds, NEW reason, Refuse(sub, reason)
  PROVE  IInv'
<1>. DEFINE frame == <<Json("string", "CLOSED"), Json("string", sub), Json("reason", reason)>>
<1>1. /\ Send(frame) /\ UNCHANGED <<asked, subOf, held>>
      /\ serving' = [serving EXCEPT ![sub] = Null]
  BY DEF Refuse
<1>2. SaysWhy(frame) /\ \A other, event : ~Brings(frame, other, event) /\ ~SaysAll(frame, other)
  BY CloseRead
<1>. HIDE DEF frame
<1>3. /\ FramesAreInOrder' /\ frames' \in Seq(ToSet(frames')) /\ RefusalsSayWhy'
      /\ \A other : Coming(frames, other, Len(frames)) \subseteq Coming(frames', other, Len(frames'))
  BY <1>1, <1>2, SendKeepsOrder DEF IInv
<1>4. TypeOK' /\ SharesItsOwn' /\ FindsWhatIsWanted'
  BY <1>1, <1>3 DEF IInv, TypeOK, SharesItsOwn, FindsWhatIsWanted
<1>5. ServesWhatIsWanted'
  BY <1>1, <1>3 DEF IInv, TypeOK, ServesWhatIsWanted
<1>. QED BY <1>3, <1>4, <1>5 DEF IInv

LEMMA ServeKeeps ==
  ASSUME IInv, NEW sub \in SubscriptionIds, NEW event \in Stored, Serve(sub, event)
  PROVE  IInv'
<1>. DEFINE frame == <<Json("string", "EVENT"), Json("string", sub), Json("object", WithOwnField(event))>>
<1>1. /\ Send(frame) /\ UNCHANGED <<asked, subOf, held>>
      /\ serving[sub] # Null /\ event \in Selected(serving[sub].wire)
      /\ serving' = [serving EXCEPT ![sub].sent = @ \cup {event}]
  BY DEF Serve
<1>2. ParseRelayMessage(frame) = [type |-> "EVENT", subscriptionId |-> sub, event |-> event]
  BY EventRead
<1>. HIDE DEF frame
<1>3. ParseRelayMessage(frame) # Null
  BY <1>2, NullAssumption DEF Answers
<1>4. /\ SaysWhy(frame) /\ Brings(frame, sub, event)
      /\ \A other, one : ~SaysAll(frame, other) /\ (Brings(frame, other, one) => other = sub /\ one = event)
  BY <1>2, <1>3 DEF SaysWhy, IsRefusal, Brings, SaysAll
<1>5. held[sub] # Null /\ event \in Wanted(held[sub].hash)
  BY <1>1 DEF IInv, ServesWhatIsWanted
<1>6. /\ FramesAreInOrder' /\ frames' \in Seq(ToSet(frames')) /\ RefusalsSayWhy'
      /\ \A other : Coming(frames, other, Len(frames)) \subseteq Coming(frames', other, Len(frames'))
      /\ event \in Coming(frames', sub, Len(frames'))
  BY <1>1, <1>4, <1>5, SendKeepsOrder DEF IInv
<1>7. /\ serving[sub] \in Servings
      /\ serving' = [serving EXCEPT ![sub] = [serving[sub] EXCEPT !.sent = serving[sub].sent \cup {event}]]
  BY <1>1 DEF IInv, TypeOK
<1>8. TypeOK' /\ SharesItsOwn' /\ FindsWhatIsWanted'
  BY <1>1, <1>6, <1>7 DEF IInv, TypeOK, SharesItsOwn, FindsWhatIsWanted, Servings
<1>9. ASSUME NEW other \in SubscriptionIds, serving'[other] # Null
      PROVE  /\ held'[other] # Null
             /\ Selected(serving'[other].wire) = Wanted(held'[other].hash)
             /\ serving'[other].sent \subseteq held'[other].found \cup Coming(frames', other, Len(frames'))
  <2>1. CASE other = sub
    <3>1. serving'[sub].wire = serving[sub].wire /\ serving'[sub].sent = serving[sub].sent \cup {event}
      BY <1>7 DEF IInv, TypeOK, Servings
    <3>. QED BY <1>1, <1>6, <2>1, <3>1 DEF IInv, ServesWhatIsWanted
  <2>2. CASE other # sub
    <3>1. serving'[other] = serving[other]
      BY <1>7, <2>2 DEF IInv, TypeOK
    <3>. QED BY <1>1, <1>6, <1>9, <3>1 DEF IInv, ServesWhatIsWanted
  <2>. QED BY <2>1, <2>2
<1>10. ServesWhatIsWanted'
  BY <1>9 DEF ServesWhatIsWanted
<1>. QED BY <1>6, <1>8, <1>10 DEF IInv

LEMMA EndOfStoredKeeps ==
  ASSUME IInv, NEW sub \in SubscriptionIds, NEW hints \in Hints, EndOfStored(sub, hints)
  PROVE  IInv'
<1>. DEFINE frame == <<Json("string", "EOSE"), Json("string", sub), Json("array", hints)>>
<1>1. /\ Send(frame) /\ UNCHANGED <<asked, subOf, held>>
      /\ serving[sub] # Null
      /\ Json("string", "finish") \in ToSet(hints) => serving[sub].sent = Selected(serving[sub].wire)
      /\ serving' = [serving EXCEPT ![sub].ended = TRUE]
  BY DEF EndOfStored
<1>2. /\ ParseRelayMessage(frame) =
           [type |-> "EOSE", subscriptionId |-> sub, hints |-> EoseHintsOf(Json("array", hints))]
      /\ "finish" \in ParseRelayMessage(frame).hints => Json("string", "finish") \in ToSet(hints)
  BY EndRead
<1>. HIDE DEF frame
<1>3. /\ SaysWhy(frame)
      /\ \A other, one : ~Brings(frame, other, one)
      /\ \A other : SaysAll(frame, other) => other = sub /\ Json("string", "finish") \in ToSet(hints)
  BY <1>2 DEF SaysWhy, IsRefusal, Brings, SaysAll
<1>4. /\ held[sub] # Null
      /\ Json("string", "finish") \in ToSet(hints) =>
           Wanted(held[sub].hash) \subseteq held[sub].found \cup Coming(frames, sub, Len(frames))
  BY <1>1 DEF IInv, ServesWhatIsWanted
<1>5. /\ FramesAreInOrder' /\ frames' \in Seq(ToSet(frames')) /\ RefusalsSayWhy'
      /\ \A other : Coming(frames, other, Len(frames)) \subseteq Coming(frames', other, Len(frames'))
  BY <1>1, <1>3, <1>4, SendKeepsOrder DEF IInv
<1>6. /\ serving[sub] \in Servings
      /\ serving' = [serving EXCEPT ![sub] = [serving[sub] EXCEPT !.ended = TRUE]]
  BY <1>1 DEF IInv, TypeOK
<1>7. TypeOK' /\ SharesItsOwn' /\ FindsWhatIsWanted'
  <2>1. [serving[sub] EXCEPT !.ended = TRUE] \in Servings
    BY <1>6 DEF Servings
  <2>. QED BY <1>1, <1>5, <1>6, <2>1 DEF IInv, TypeOK, SharesItsOwn, FindsWhatIsWanted
<1>8. ASSUME NEW other \in SubscriptionIds, serving'[other] # Null
      PROVE  /\ serving[other] # Null
             /\ serving'[other].wire = serving[other].wire /\ serving'[other].sent = serving[other].sent
  BY <1>1, <1>6, <1>8 DEF IInv, TypeOK, Servings
<1>9. ServesWhatIsWanted'
  BY <1>1, <1>5, <1>8 DEF IInv, ServesWhatIsWanted
<1>. QED BY <1>5, <1>7, <1>9 DEF IInv

LEMMA LeaveKeeps ==
  ASSUME IInv, NEW caller \in Callers, Leave(caller)
  PROVE  IInv'
<1>. DEFINE sub == subOf[caller]
<1>1. /\ sub \in SubscriptionIds /\ UNCHANGED <<asked, held, frames>> /\ refusal' = Null
      /\ subOf' = [subOf EXCEPT ![caller] = Null]
      /\ serving' = serving \/ serving' = [serving EXCEPT ![sub] = Null]
  BY DEF Leave, SerialiseCloseMessage, IInv, TypeOK
<1>. HIDE DEF sub
<1>2. TypeOK' /\ SharesItsOwn' /\ FindsWhatIsWanted'
  BY <1>1 DEF IInv, TypeOK, SharesItsOwn, FindsWhatIsWanted
<1>3. ServesWhatIsWanted'
  BY <1>1 DEF IInv, TypeOK, ServesWhatIsWanted
<1>4. FramesAreInOrder' /\ RefusalsSayWhy'
  BY <1>1 DEF IInv, FramesAreInOrder, RefusalsSayWhy
<1>. QED BY <1>2, <1>3, <1>4 DEF IInv

LEMMA AskKeeps ==
  ASSUME IInv, NEW caller \in Callers, NEW filters \in FilterSets, Ask(caller, filters)
  PROVE  IInv'
<1>1. /\ asked' = [asked EXCEPT ![caller] = filters] /\ filters \in Sound /\ asked[caller] = Null
      /\ refusal' = Null /\ UNCHANGED frames
  BY DEF Ask, Sound
<1>2. \A other \in Callers : subOf[other] # Null => other # caller /\ subOf[other] \in SubscriptionIds
  BY <1>1, NullAssumption DEF IInv, TypeOK, SharesItsOwn, Sound
<1>3. CASE Share(caller, filters)
  <2>1. PICK sub \in SubscriptionIds :
          /\ subOf' = [subOf EXCEPT ![caller] = sub]
          /\ \E other \in Callers : subOf[other] = sub
          /\ held[sub].hash = HashFilters(filters)
    BY <1>3 DEF Share, SharedBy
  <2>2. held[sub] # Null
    BY <2>1, NullAssumption DEF IInv, SharesItsOwn
  <2>3. held' = held /\ serving' = serving
    BY <1>3 DEF Share
  <2>4. TypeOK'
    BY <1>1, <2>1, <2>3 DEF IInv, TypeOK
  <2>5. SharesItsOwn'
    BY <1>1, <1>2, <2>1, <2>2, <2>3 DEF IInv, TypeOK, SharesItsOwn
  <2>6. FindsWhatIsWanted' /\ ServesWhatIsWanted' /\ FramesAreInOrder' /\ RefusalsSayWhy'
    BY <1>1, <2>3 DEF IInv, FindsWhatIsWanted, ServesWhatIsWanted, FramesAreInOrder, RefusalsSayWhy
  <2>. QED BY <2>4, <2>5, <2>6 DEF IInv
<1>4. CASE Open(caller, filters)
  <2>. DEFINE free == {id \in SubscriptionIds : held[id] = Null}
              sub  == CHOOSE id \in free : TRUE
              req  == SerialiseReqMessage(sub, filters)
              hash == HashFilters(filters)
              holding  == [hash |-> hash, found |-> {}, end |-> IF req = Null THEN "finish" ELSE "none"]
              service  == IF req = Null THEN Null ELSE [wire |-> req[3], sent |-> {}, ended |-> FALSE]
  <2>1. /\ free # {}
        /\ held' = [held EXCEPT ![sub] = holding]
        /\ serving' = [serving EXCEPT ![sub] = service]
        /\ subOf' = [subOf EXCEPT ![caller] = sub]
    BY <1>4 DEF Open
  <2>2. sub \in SubscriptionIds /\ held[sub] = Null
    BY <2>1
  <2>. HIDE DEF sub, free
  <2>3. /\ req = Null => Matching(filters) = {}
        /\ req # Null => req[3] = WireFilters(filters)
    <3>1. <<"REQ", sub, WireFilters(filters)>> # Null
      BY <2>2, NullAssumption
    <3>. QED BY <1>1, <3>1, FiltersAreSentAsMeant DEF SerialiseReqMessage
  <2>4. Wanted(hash) = Matching(filters) /\ Selected(WireFilters(filters)) = Matching(filters)
    BY <1>1, WantedIsMatching, FiltersAreSentAsMeant
  <2>. HIDE DEF req
  <2>5. holding \in Holdings /\ holding # Null
    BY NullAssumption DEF Holdings
  <2>6. service \in Servings \cup {Null}
    BY <2>3 DEF Servings
  <2>7. holding.hash = hash /\ holding.found = {} /\ (holding.end = "finish" <=> req = Null)
    OBVIOUS
  <2>8. service # Null => req # Null /\ service.wire = WireFilters(filters) /\ service.sent = {}
    BY <2>3
  <2>. HIDE DEF holding, service, hash
  <2>9. TypeOK'
    BY <1>1, <2>1, <2>2, <2>5, <2>6 DEF IInv, TypeOK
  <2>10. ASSUME NEW id \in SubscriptionIds
         PROVE  /\ id = sub => held'[id] = holding /\ serving'[id] = service
                /\ id # sub => held'[id] = held[id] /\ serving'[id] = serving[id]
    BY <2>1 DEF IInv, TypeOK
  <2>11. SharesItsOwn'
    <3>1. \A other \in Callers : subOf'[other] = IF other = caller THEN sub ELSE subOf[other]
      BY <2>1 DEF IInv, TypeOK
    <3>2. \A other \in Callers : asked'[other] = IF other = caller THEN filters ELSE asked[other]
      BY <1>1 DEF IInv, TypeOK
    <3>3. \A other \in Callers : subOf[other] # Null => subOf[other] # sub
      BY <2>2 DEF IInv, SharesItsOwn
    <3>. QED BY <1>1, <1>2, <2>2, <2>5, <2>7, <2>10, <3>1, <3>2, <3>3 DEF IInv, SharesItsOwn, hash
  <2>12. FindsWhatIsWanted'
    <3>1. ASSUME NEW id \in SubscriptionIds, held'[id] # Null
          PROVE  /\ held'[id].found \subseteq Wanted(held'[id].hash)
                 /\ held'[id].end = "finish" => Wanted(held'[id].hash) \subseteq held'[id].found
      <4>1. CASE id = sub
        BY <2>3, <2>4, <2>7, <2>10, <4>1
      <4>2. CASE id # sub
        BY <2>10, <3>1, <4>2 DEF IInv, FindsWhatIsWanted
      <4>. QED BY <4>1, <4>2
    <3>. QED BY <3>1 DEF FindsWhatIsWanted
  <2>13. ServesWhatIsWanted'
    <3>1. ASSUME NEW id \in SubscriptionIds, serving'[id] # Null
          PROVE  /\ held'[id] # Null
                 /\ Selected(serving'[id].wire) = Wanted(held'[id].hash)
                 /\ serving'[id].sent \subseteq held'[id].found \cup Coming(frames, id, Len(frames))
      <4>1. CASE id = sub
        BY <2>4, <2>5, <2>7, <2>8, <2>10, <3>1, <4>1
      <4>2. CASE id # sub
        BY <2>10, <3>1, <4>2 DEF IInv, ServesWhatIsWanted
      <4>. QED BY <4>1, <4>2
    <3>. QED BY <1>1, <3>1 DEF ServesWhatIsWanted
  <2>14. FramesAreInOrder'
    <3>1. ASSUME NEW i \in 1..Len(frames), NEW id \in SubscriptionIds
          PROVE  /\ \A event : Brings(frames[i], id, event) =>
                      held'[id] # Null /\ event \in Wanted(held'[id].hash)
                 /\ SaysAll(frames[i], id) =>
                      /\ held'[id] # Null
                      /\ Wanted(held'[id].hash) \subseteq held'[id].found \cup Coming(frames, id, i - 1)
      <4>1. CASE id = sub
        BY <2>2, <4>1 DEF IInv, FramesAreInOrder
      <4>2. CASE id # sub
        BY <2>10, <4>2 DEF IInv, FramesAreInOrder
      <4>. QED BY <4>1, <4>2
    <3>2. \A i \in 1..Len(frames) : SaysWhy(frames[i])
      BY DEF IInv, FramesAreInOrder
    <3>. QED BY <1>1, <3>1, <3>2 DEF FramesAreInOrder
  <2>15. RefusalsSayWhy'
    BY <1>1 DEF RefusalsSayWhy
  <2>. QED BY <2>9, <2>11, <2>12, <2>13, <2>14, <2>15 DEF IInv
<1>. QED BY <1>3, <1>4 DEF Ask

(* What reading a message does to the subscription it is for.              *)
LEMMA AfterMessage ==
  ASSUME NEW holding \in Holdings, NEW message, message.type = "EVENT" => message.event \in Stored
  PROVE  LET later == After(holding, message) IN
         /\ later \in Holdings /\ later.hash = holding.hash
         /\ later.found = IF message.type = "EVENT" THEN holding.found \cup {message.event} ELSE holding.found
         /\ later.end = "finish" =>
              holding.end = "finish" \/ (message.type = "EOSE" /\ "finish" \in message.hints)
<1>1. holding = [hash |-> holding.hash, found |-> holding.found, end |-> holding.end]
  BY DEF Holdings
<1>2. CASE message.type = "EVENT"
  <2>1. After(holding, message) = [holding EXCEPT !.found = holding.found \cup {message.event}]
    BY <1>2 DEF After
  <2>. QED BY <1>2, <2>1 DEF Holdings
<1>3. CASE message.type = "EOSE"
  <2>. DEFINE end == IF EoseHasHint(message, "finish") \/ holding.end = "finish" THEN "finish" ELSE "more"
  <2>1. After(holding, message) = [holding EXCEPT !.end = end]
    BY <1>3 DEF After
  <2>2. end \in {"finish", "more"} /\ (end = "finish" => holding.end = "finish" \/ "finish" \in message.hints)
    BY DEF EoseHasHint
  <2>. HIDE DEF end
  <2>. QED BY <1>3, <2>1, <2>2 DEF Holdings
<1>4. CASE message.type = "CLOSED"
  <2>. DEFINE end == IF holding.end = "finish" THEN holding.end ELSE "closed"
  <2>1. After(holding, message) = [holding EXCEPT !.end = end]
    BY <1>4 DEF After
  <2>2. end \in {"finish", "closed"} /\ (end = "finish" => holding.end = "finish")
    OBVIOUS
  <2>. HIDE DEF end
  <2>. QED BY <1>4, <2>1, <2>2 DEF Holdings
<1>5. CASE message.type \notin {"EVENT", "EOSE", "CLOSED"}
  <2>1. After(holding, message) = holding
    BY <1>5 DEF After
  <2>. QED BY <1>5, <2>1
<1>. QED BY <1>2, <1>3, <1>4, <1>5

LEMMA ReadKeeps ==
  ASSUME IInv, Read
  PROVE  IInv'
<1>. DEFINE now     == frames
            later   == frames'
            frame   == now[1]
            message == ParseRelayMessage(frame)
            new(sub) == {event \in Stored : Brings(frame, sub, event)}
<1>1. /\ now # <<>> /\ later = Tail(now) /\ now \in Seq(ToSet(now)) /\ UNCHANGED <<asked, subOf, serving>>
      /\ later \in Seq(ToSet(later)) /\ Len(later) \in Nat /\ Len(now) = Len(later) + 1
      /\ Head(now) = frame
      /\ \A i \in 1..Len(later) : later[i] = now[i + 1]
      /\ \A sub : \A count \in 0..Len(later) :
           Coming(now, sub, count + 1) = Coming(later, sub, count) \cup new(sub)
  <2>1. now # <<>> /\ later = Tail(now) /\ now \in Seq(ToSet(now)) /\ UNCHANGED <<asked, subOf, serving>>
    BY DEF Read, IInv, TypeOK
  <2>. HIDE DEF now, later
  <2>. QED BY <2>1, ComingAfterRead
<1>2. /\ held' = IF IsForSubscription(message)
                 THEN [held EXCEPT ![message.subscriptionId] = After(held[message.subscriptionId], message)] ELSE held
      /\ refusal' = IF IsRefusal(message) THEN [stated |-> Last(frame).v, reason |-> message.reason] ELSE Null
  BY <1>1 DEF Read
<1>3. /\ SaysWhy(frame)
      /\ \A sub \in SubscriptionIds :
           /\ \A event : Brings(frame, sub, event) => held[sub] # Null /\ event \in Wanted(held[sub].hash)
           /\ SaysAll(frame, sub) =>
                held[sub] # Null /\ Wanted(held[sub].hash) \subseteq held[sub].found \cup Coming(now, sub, 0)
  <2>1. 1 \in 1..Len(frames) /\ 1 - 1 = 0
    BY <1>1
  <2>. QED BY <2>1 DEF IInv, FramesAreInOrder
<1>. HIDE DEF now, later
<1>4. ASSUME NEW sub \in SubscriptionIds
      PROVE  /\ held[sub] = Null => held'[sub] = Null
             /\ held[sub] # Null =>
                  /\ held'[sub] \in Holdings /\ held'[sub] # Null /\ held'[sub].hash = held[sub].hash
                  /\ held'[sub].found = held[sub].found \cup new(sub)
                  /\ held'[sub].end = "finish" => held[sub].end = "finish" \/ SaysAll(frame, sub)
  <2>1. held[sub] # Null => held[sub] \in Holdings
    BY DEF IInv, TypeOK
  <2>2. CASE IsForSubscription(message) /\ message.subscriptionId = sub
    <3>1. held'[sub] = After(held[sub], message) /\ held[sub] # Null /\ message # Null
      BY <1>2, <2>2 DEF IInv, TypeOK, IsForSubscription
    <3>2. message.type = "EVENT" => Brings(frame, sub, message.event)
      BY <2>2, <3>1 DEF Brings, IsForSubscription
    <3>3. message.type = "EVENT" => message.event \in Stored
      BY <1>3, <3>2 DEF Wanted, Matching
    <3>4. new(sub) = IF message.type = "EVENT" THEN {message.event} ELSE {}
      BY <3>2, <3>3 DEF Brings
    <3>5. message.type = "EOSE" /\ "finish" \in message.hints => SaysAll(frame, sub)
      BY <2>2, <3>1 DEF SaysAll
    <3>. HIDE DEF message, new
    <3>6. /\ held'[sub] \in Holdings /\ held'[sub].hash = held[sub].hash
          /\ held'[sub].found = IF message.type = "EVENT" THEN held[sub].found \cup {message.event} ELSE held[sub].found
          /\ held'[sub].end = "finish" => held[sub].end = "finish" \/ SaysAll(frame, sub)
      <4>. DEFINE old  == held[sub]
                  read == After(old, message)
      <4>1. old \in Holdings
        BY <2>1, <3>1
      <4>. HIDE DEF old
      <4>2. /\ read \in Holdings /\ read.hash = old.hash
            /\ read.found = IF message.type = "EVENT" THEN old.found \cup {message.event} ELSE old.found
            /\ read.end = "finish" =>
                 old.end = "finish" \/ (message.type = "EOSE" /\ "finish" \in message.hints)
        BY <3>3, <4>1, AfterMessage
      <4>. HIDE DEF read
      <4>3. held'[sub] = read
        BY <3>1 DEF read, old
      <4>. QED BY <3>5, <4>2, <4>3 DEF old
    <3>. QED BY <3>1, <3>4, <3>6, NullAssumption
  <2>3. CASE ~(IsForSubscription(message) /\ message.subscriptionId = sub)
    <3>1. held'[sub] = held[sub]
      BY <1>2, <2>3 DEF IInv, TypeOK
    <3>2. held[sub] # Null => new(sub) = {}
      <4>1. SUFFICES ASSUME held[sub] # Null, NEW event, Brings(frame, sub, event) PROVE FALSE
        OBVIOUS
      <4>. QED BY <2>3, <4>1 DEF Brings, IsForSubscription
    <3>. QED BY <2>1, <3>1, <3>2
  <2>. QED BY <2>2, <2>3
<1>. HIDE DEF new, frame, message
<1>5. TypeOK'
  <2>1. held' \in [SubscriptionIds -> Holdings \cup {Null}]
    <3>1. held' = [sub \in SubscriptionIds |-> held'[sub]]
      BY <1>2 DEF IInv, TypeOK
    <3>2. \A sub \in SubscriptionIds : held'[sub] \in Holdings \cup {Null}
      BY <1>4
    <3>. QED BY <3>1, <3>2
  <2>. QED BY <1>1, <2>1 DEF IInv, TypeOK, later
<1>6. SharesItsOwn'
  <2>1. \A caller \in Callers : subOf[caller] # Null => subOf[caller] \in SubscriptionIds
    BY DEF IInv, TypeOK
  <2>. QED BY <1>1, <1>4, <2>1 DEF IInv, SharesItsOwn
<1>7. FindsWhatIsWanted'
  <2>1. ASSUME NEW sub \in SubscriptionIds, held'[sub] # Null
        PROVE  /\ held'[sub].found \subseteq Wanted(held'[sub].hash)
               /\ held'[sub].end = "finish" => Wanted(held'[sub].hash) \subseteq held'[sub].found
    <3>1. /\ held[sub] # Null /\ held'[sub].hash = held[sub].hash
          /\ held'[sub].found = held[sub].found \cup new(sub)
          /\ held'[sub].end = "finish" => held[sub].end = "finish" \/ SaysAll(frame, sub)
      BY <1>4, <2>1
    <3>2. new(sub) \subseteq Wanted(held[sub].hash)
      BY <1>3 DEF new
    <3>3. held[sub].found \subseteq Wanted(held[sub].hash)
      BY <3>1 DEF IInv, FindsWhatIsWanted
    <3>4. Coming(now, sub, 0) = {}
      BY DEF Coming
    <3>5. held'[sub].end = "finish" => Wanted(held[sub].hash) \subseteq held[sub].found
      BY <1>3, <3>1, <3>4 DEF IInv, FindsWhatIsWanted
    <3>. QED BY <3>1, <3>2, <3>3, <3>5
  <2>. QED BY <2>1 DEF FindsWhatIsWanted
<1>8. ServesWhatIsWanted'
  <2>1. ASSUME NEW sub \in SubscriptionIds, serving[sub] # Null
        PROVE  /\ held'[sub] # Null
               /\ Selected(serving[sub].wire) = Wanted(held'[sub].hash)
               /\ serving[sub].sent \subseteq held'[sub].found \cup Coming(later, sub, Len(later))
    <3>1. /\ held[sub] # Null
          /\ Selected(serving[sub].wire) = Wanted(held[sub].hash)
          /\ serving[sub].sent \subseteq held[sub].found \cup Coming(now, sub, Len(now))
      BY <2>1 DEF IInv, ServesWhatIsWanted, now
    <3>2. held'[sub] # Null /\ held'[sub].hash = held[sub].hash /\ held'[sub].found = held[sub].found \cup new(sub)
      BY <1>4, <3>1
    <3>3. Coming(now, sub, Len(now)) = Coming(later, sub, Len(later)) \cup new(sub)
      BY <1>1
    <3>. QED BY <3>1, <3>2, <3>3
  <2>. QED BY <1>1, <2>1 DEF ServesWhatIsWanted, later
<1>9. FramesAreInOrder'
  <2>1. ASSUME NEW i \in 1..Len(later)
        PROVE  /\ SaysWhy(later[i])
               /\ \A sub \in SubscriptionIds :
                    /\ \A event : Brings(later[i], sub, event) =>
                         held'[sub] # Null /\ event \in Wanted(held'[sub].hash)
                    /\ SaysAll(later[i], sub) =>
                         /\ held'[sub] # Null
                         /\ Wanted(held'[sub].hash) \subseteq held'[sub].found \cup Coming(later, sub, i - 1)
    <3>1. /\ i \in Nat /\ i + 1 \in 1..Len(now) /\ later[i] = now[i + 1] /\ (i + 1) - 1 = i
          /\ i - 1 \in 0..Len(later) /\ (i - 1) + 1 = i
      BY <1>1
    <3>2. /\ SaysWhy(now[i + 1])
          /\ \A sub \in SubscriptionIds :
               /\ \A event : Brings(now[i + 1], sub, event) =>
                    held[sub] # Null /\ event \in Wanted(held[sub].hash)
               /\ SaysAll(now[i + 1], sub) =>
                    /\ held[sub] # Null
                    /\ Wanted(held[sub].hash) \subseteq held[sub].found \cup Coming(now, sub, (i + 1) - 1)
      BY <3>1 DEF IInv, FramesAreInOrder, now
    <3>3. \A sub : Coming(now, sub, i) = Coming(later, sub, i - 1) \cup new(sub)
      BY <1>1, <3>1
    <3>4. ASSUME NEW sub \in SubscriptionIds, held[sub] # Null
          PROVE  held'[sub] # Null /\ held'[sub].hash = held[sub].hash /\ held'[sub].found = held[sub].found \cup new(sub)
      BY <1>4, <3>4
    <3>5. ASSUME NEW sub \in SubscriptionIds, SaysAll(later[i], sub)
          PROVE  /\ held'[sub] # Null
                 /\ Wanted(held'[sub].hash) \subseteq held'[sub].found \cup Coming(later, sub, i - 1)
      <4>1. /\ held[sub] # Null
            /\ Wanted(held[sub].hash) \subseteq held[sub].found \cup Coming(now, sub, i)
        BY <3>1, <3>2, <3>5
      <4>. QED BY <3>3, <3>4, <4>1
    <3>6. ASSUME NEW sub \in SubscriptionIds, NEW event, Brings(later[i], sub, event)
          PROVE  held'[sub] # Null /\ event \in Wanted(held'[sub].hash)
      BY <3>1, <3>2, <3>4, <3>6
    <3>. QED BY <3>1, <3>2, <3>5, <3>6
  <2>. QED BY <2>1 DEF FramesAreInOrder, later
<1>10. RefusalsSayWhy'
  <2>1. CASE IsRefusal(message)
    <3>. DEFINE stated == Last(frame).v
    <3>1. message.reason = IF stated.prefix \in REASON_PREFIXES THEN stated.prefix ELSE "error"
      BY <1>3, <2>1 DEF SaysWhy, message
    <3>. HIDE DEF stated
    <3>2. refusal' = [stated |-> stated, reason |-> message.reason]
      BY <1>2, <2>1 DEF stated
    <3>. QED BY <3>1, <3>2 DEF RefusalsSayWhy
  <2>2. CASE ~IsRefusal(message)
    BY <1>2, <2>2 DEF RefusalsSayWhy
  <2>. QED BY <2>1, <2>2
<1>. QED BY <1>5, <1>6, <1>7, <1>8, <1>9, <1>10 DEF IInv

LEMMA InitIsSound == Init => IInv
<1>. SUFFICES ASSUME Init PROVE IInv
  OBVIOUS
<1>1. TypeOK
  BY DEF Init, TypeOK
<1>2. Len(frames) = 0
  BY DEF Init
<1>. QED BY <1>1, <1>2 DEF Init, IInv, SharesItsOwn, ServesWhatIsWanted, FindsWhatIsWanted, FramesAreInOrder, RefusalsSayWhy

LEMMA StepsKeep == IInv /\ [Next]_vars => IInv'
<1>. SUFFICES ASSUME IInv, [Next]_vars PROVE IInv'
  OBVIOUS
<1>1. CASE UNCHANGED vars
  BY <1>1 DEF vars, IInv, TypeOK, SharesItsOwn, ServesWhatIsWanted, FindsWhatIsWanted, FramesAreInOrder, RefusalsSayWhy
<1>2. ASSUME NEW caller \in Callers, NEW filters \in FilterSets, Ask(caller, filters) PROVE IInv'
  BY <1>2, AskKeeps
<1>3. ASSUME NEW caller \in Callers, Leave(caller) PROVE IInv'
  BY <1>3, LeaveKeeps
<1>4. ASSUME NEW post \in Posts, Publish(post) PROVE IInv'
  BY <1>4, PublishKeeps
<1>5. ASSUME NEW sub \in SubscriptionIds, NEW event \in Stored, Serve(sub, event) PROVE IInv'
  BY <1>5, ServeKeeps
<1>6. ASSUME NEW sub \in SubscriptionIds, NEW hints \in Hints, EndOfStored(sub, hints) PROVE IInv'
  BY <1>6, EndOfStoredKeeps
<1>7. ASSUME NEW sub \in SubscriptionIds, NEW reason \in Reasons, Refuse(sub, reason) PROVE IInv'
  BY <1>7, RefuseKeeps
<1>8. ASSUME NEW i \in DOMAIN Strays, Stray(Strays[i]) PROVE IInv'
  BY <1>8, StrayKeeps
<1>9. CASE Read
  BY <1>9, ReadKeeps
<1>. QED BY <1>1, <1>2, <1>3, <1>4, <1>5, <1>6, <1>7, <1>8, <1>9 DEF Next

-----------------------------------------------------------------------------
(* The group that an event found by a group's filter states.               *)
LEMMA GroupIsTheOneAsked ==
  ASSUME NEW id \in GroupIds, NEW event \in Matching(<< GroupMetadataFilter(id) >>),
         NEW group, group = ParseGroupMetadata(event, RelayUrl, RelayKey), group # Null
  PROVE  group.id = id
<1>. DEFINE filter == GroupMetadataFilter(id)
            entry  == TagCondition("d", <<id>>)
            values == ExtractTagValues(event.tags, "d")
<1>1. entry \in ToSet(filter)
  <2>. DEFINE kinds == Entry("kinds", <<KIND_GROUP_METADATA>>)
  <2>1. id # Null
    BY NullAssumption
  <2>2. filter = <<kinds>> \o <<entry>>
    <3>. HIDE DEF kinds, entry
    <3>. QED BY <2>1 DEF GroupMetadataFilter, kinds, entry
  <2>. HIDE DEF filter, entry, kinds
  <2>3. <<kinds>> \in Seq({kinds, entry}) /\ <<entry>> \in Seq({kinds, entry})
    <3>1. \A x, y : <<x>> \in Seq({x, y})
      OBVIOUS
    <3>2. {kinds, entry} = {entry, kinds}
      OBVIOUS
    <3>. QED BY <3>1, <3>2, Zenon
  <2>4. ToSet(filter) = ToSet(<<kinds>>) \cup ToSet(<<entry>>)
    <3>1. \A s, t \in Seq({kinds, entry}) : ToSet(s \o t) = ToSet(s) \cup ToSet(t)
      BY ConcatSet
    <3>. QED BY <2>2, <2>3, <3>1, ZenonT(30)
  <2>5. entry \in ToSet(<<entry>>)
    BY DEF ToSet
  <2>. QED BY <2>4, <2>5
<1>2. Matches(filter, event)
  <2>1. ToSet(<<filter>>) = {filter}
    BY DEF ToSet
  <2>. QED BY <2>1 DEF Matching, MatchesSome
<1>3. HasTagValue(event.tags, "d", {id})
  <2>1. entry.field = "#" /\ entry.letter = "d" /\ ToSet(entry.value) = {id}
    BY DEF TagCondition, ToSet
  <2>. HIDE DEF filter, entry
  <2>2. HasTagValue(event.tags, entry.letter, ToSet(entry.value))
    BY <1>1, <1>2, <2>1 DEF Matches
  <2>. QED BY <2>1, <2>2
<1>4. id \in values
  <2>1. event.tags \in Seq(ToSet(event.tags))
    BY StoredEvents DEF Matching
  <2>2. ToSet(Tagged(event.tags, "d")) = {tag \in ToSet(event.tags) : At(tag, 1) = "d"}
    BY <2>1, AmongSelects DEF Tagged
  <2>3. PICK tag \in ToSet(event.tags) : At(tag, 1) = "d" /\ At(tag, 2) = id
    BY <1>3 DEF HasTagValue
  <2>4. id # Null
    BY NullAssumption
  <2>. QED BY <2>2, <2>3, <2>4 DEF ExtractTagValues
<1>5. DTag(event.tags) = SoleValue(values)
  BY <1>4 DEF DTag, SoleTagValue
<1>6. group.id = DTag(event.tags) /\ DTag(event.tags) # Null
  BY DEF ParseGroupMetadata
<1>. HIDE DEF values
<1>7. SoleValue(values) # Null => SoleValue(values) = id
  BY <1>4 DEF SoleValue
<1>. QED BY <1>5, <1>6, <1>7

(* AskedAndAnswered, for any callers, filters, stored events and messages: *)
(* the subscription a caller shares has the digest of its own filters,     *)
(* what is sent and read for it is what those match, and a final end comes *)
(* after the last of it.                                                   *)
THEOREM CallersFindWhatTheyAsked == Spec => []AskedAndAnswered
<1>1. ASSUME IInv PROVE AskedAndAnswered
  <2>1. ASSUME NEW caller \in Callers, subOf[caller] # Null
        PROVE  FindsWhatWasAsked(caller)
    <3>. DEFINE sub == subOf[caller]
    <3>1. /\ sub \in SubscriptionIds /\ asked[caller] \in Sound /\ held[sub] # Null
          /\ held[sub].hash = HashFilters(asked[caller])
      BY <1>1, <2>1 DEF IInv, TypeOK, SharesItsOwn
    <3>2. Wanted(held[sub].hash) = Matching(asked[caller])
      BY <3>1, WantedIsMatching
    <3>3. /\ held[sub].found \subseteq Matching(asked[caller])
          /\ held[sub].end = "finish" => held[sub].found = Matching(asked[caller])
      BY <1>1, <3>1, <3>2 DEF IInv, FindsWhatIsWanted
    <3>4. ASSUME NEW id \in GroupIds, asked[caller] = << GroupMetadataFilter(id) >>,
                 NEW group \in GroupsIn(held[sub].found)
          PROVE  group.id = id
      <4>1. PICK event \in held[sub].found : group = ParseGroupMetadata(event, RelayUrl, RelayKey) /\ group # Null
        BY DEF GroupsIn
      <4>2. event \in Matching(<< GroupMetadataFilter(id) >>)
        BY <3>3, <3>4
      <4>. QED BY <4>1, <4>2, GroupIsTheOneAsked
    <3>. QED BY <3>3, <3>4 DEF FindsWhatWasAsked
  <2>. QED BY <1>1, <2>1 DEF AskedAndAnswered, IInv
<1>. QED BY <1>1, InitIsSound, StepsKeep, PTL DEF Spec

-----------------------------------------------------------------------------
(* Relay lists.                                                            *)

Tag == Seq(Texts)

Of(url)       == {tag \in Tag : IsRelayTagFor(tag, url)}
NotOf(url)    == {tag \in Tag : ~IsRelayTagFor(tag, url)}

-----------------------------------------------------------------------------
LEMMA UrlsAreTexts ==
  /\ \A url \in RelayUrls : url \in Texts /\ url # Null /\ ParseRelayUrl(url) = url
  /\ \A tag : RelayTagUrl(tag) \in RelayUrls \cup {Null}
<1>1. ASSUME NEW url \in RelayUrls PROVE url \in Texts /\ url # Null /\ ParseRelayUrl(url) = url
  <2>1. PICK text \in DOMAIN RelayUrlOf : url = RelayUrlOf[text]
    BY DEF RelayUrls, Range
  <2>2. url \in DOMAIN RelayUrlOf /\ RelayUrlOf[url] = url
    BY <2>1, RelaysAssumption
  <2>. QED BY <2>2, TextsAssumption, NullTextAssumption DEF ParseRelayUrl
<1>2. ASSUME NEW tag PROVE RelayTagUrl(tag) \in RelayUrls \cup {Null}
  BY DEF RelayTagUrl, ParseRelayUrl, RelayUrls, Range
<1>. QED BY <1>1, <1>2

(* A tag the builder writes is its relay's, in the directions of its marker.*)
LEMMA WrittenTag ==
  ASSUME NEW url \in RelayUrls, NEW marker \in Markers
  PROVE  /\ RelayTag(url, marker) \in Of(url)
         /\ TagDirections(RelayTag(url, marker)) = MarkerDirections(marker)
<1>1. url \in Texts /\ ParseRelayUrl(url) = url
  BY UrlsAreTexts
<1>2. "r" \in Texts /\ "read" \in Texts /\ "write" \in Texts
  BY TextsAssumption DEF Markers
<1>3. CASE marker = "both"
  <2>. DEFINE tag == <<"r", url>>
  <2>1. RelayTag(url, marker) = tag
    BY <1>3 DEF RelayTag
  <2>2. tag \in Tag
    BY <1>1, <1>2 DEF Tag
  <2>3. Len(tag) = 2 /\ tag[1] = "r" /\ tag[2] = url
    OBVIOUS
  <2>. HIDE DEF tag
  <2>4. At(tag, 1) = "r" /\ At(tag, 2) = url /\ At(tag, 3) = Null
    BY <2>3 DEF At
  <2>5. Null \notin {"read", "write"}
    BY <1>2, NullTextAssumption
  <2>6. IsRelayTagFor(tag, url)
    BY <1>1, <2>4 DEF IsRelayTagFor, RelayTagUrl
  <2>7. TagDirections(tag) = {"read", "write"} /\ MarkerDirections(marker) = {"read", "write"}
    BY <1>3, <2>4, <2>5 DEF TagDirections, MarkerDirections
  <2>. QED BY <2>1, <2>2, <2>6, <2>7 DEF Of
<1>4. CASE marker \in {"read", "write"}
  <2>. DEFINE tag == <<"r", url, marker>>
  <2>1. RelayTag(url, marker) = tag
    BY <1>4 DEF RelayTag
  <2>2. tag \in Tag
    BY <1>1, <1>2, <1>4 DEF Tag
  <2>3. Len(tag) = 3 /\ tag[1] = "r" /\ tag[2] = url /\ tag[3] = marker
    OBVIOUS
  <2>. HIDE DEF tag
  <2>4. At(tag, 1) = "r" /\ At(tag, 2) = url /\ At(tag, 3) = marker
    BY <2>3 DEF At
  <2>5. IsRelayTagFor(tag, url)
    BY <1>1, <2>4 DEF IsRelayTagFor, RelayTagUrl
  <2>6. TagDirections(tag) = {marker} /\ MarkerDirections(marker) = {marker}
    BY <1>4, <2>3, <2>4 DEF TagDirections, MarkerDirections
  <2>. QED BY <2>1, <2>2, <2>5, <2>6 DEF Of
<1>. QED BY <1>3, <1>4 DEF Markers

(* The tags of a relay and the others, selected by sets that do not depend *)
(* on the list.                                                            *)
LEMMA SelectedTags ==
  ASSUME NEW list \in Seq(Tag), NEW url
  PROVE  /\ RelayTags(list, url) = Among(list, Of(url))
         /\ OtherTags(list, url) = Among(list, NotOf(url))
         /\ RelayTags(list, url) \in Seq(Tag) /\ OtherTags(list, url) \in Seq(Tag)
         /\ ToSet(RelayTags(list, url)) = {tag \in ToSet(list) : IsRelayTagFor(tag, url)}
         /\ ToSet(list) \subseteq Tag
<1>. DEFINE mine   == {tag \in ToSet(list) : IsRelayTagFor(tag, url)}
            others == {tag \in ToSet(list) : ~IsRelayTagFor(tag, url)}
<1>1. \A tag \in ToSet(list) : tag \in Tag
  <2>1. DOMAIN list = 1..Len(list) /\ \A i \in 1..Len(list) : list[i] \in Tag
    OBVIOUS
  <2>. QED BY <2>1 DEF ToSet
<1>2. /\ \A tag \in ToSet(list) : tag \in mine <=> tag \in Of(url)
      /\ \A tag \in ToSet(list) : tag \in others <=> tag \in NotOf(url)
  BY <1>1 DEF Of, NotOf
<1>3. RelayTags(list, url) = Among(list, mine) /\ OtherTags(list, url) = Among(list, others)
  BY DEF RelayTags, OtherTags
<1>4. mine = {tag \in ToSet(list) : tag \in mine}
  OBVIOUS
<1>. HIDE DEF mine, others
<1>5. Among(list, mine) = Among(list, Of(url)) /\ Among(list, others) = Among(list, NotOf(url))
  BY <1>2, AmongAgrees
<1>6. /\ Among(list, mine) \in Seq(Tag) /\ Among(list, others) \in Seq(Tag)
      /\ ToSet(Among(list, mine)) = {tag \in ToSet(list) : tag \in mine}
  BY AmongSelects
<1>. QED BY <1>1, <1>3, <1>4, <1>5, <1>6 DEF mine

LEMMA DirectionsOfList ==
  ASSUME NEW list \in Seq(Tag), NEW url
  PROVE  Directions(list, url) = UNION {TagDirections(tag) : tag \in {t \in ToSet(list) : IsRelayTagFor(t, url)}}
BY SelectedTags, Zenon DEF Directions

-----------------------------------------------------------------------------
(* A relay a list names is named first somewhere, and in one place.        *)
LEMMA FirstIsFirst ==
  ASSUME NEW list \in Seq(Tag), NEW url, HasRelayEntry(list, url)
  PROVE  /\ FirstTag(list, url) \in 1..Len(list)
         /\ IsRelayTagFor(list[FirstTag(list, url)], url)
         /\ \A j \in 1..(FirstTag(list, url) - 1) : ~IsRelayTagFor(list[j], url)
<1>. DEFINE Less  == {ss \in Nat \X Nat : ss[1] < ss[2]}
            Named == {i \in 1..Len(list) : IsRelayTagFor(list[i], url)}
<1>1. DOMAIN list = 1..Len(list) /\ Len(list) \in Nat
  OBVIOUS
<1>2. Named # {} /\ Named \subseteq Nat
  BY <1>1 DEF HasRelayEntry, ToSet
<1>3. IsWellFoundedOn(Less, Nat)
  BY NatLessThanWellFounded DEF OpToRel
<1>4. PICK x \in Named : \A y \in Named : <<y, x>> \notin Less
  <2>. HIDE DEF Less, Named
  <2>. QED BY <1>2, <1>3, WFMin
<1>5. ASSUME NEW j \in 1..(x - 1) PROVE ~IsRelayTagFor(list[j], url)
  <2>1. j \in 1..Len(list) /\ <<j, x>> \in Less
    BY <1>1
  <2>. QED BY <1>4, <2>1
<1>6. x \in DOMAIN list /\ IsRelayTagFor(list[x], url)
  BY <1>1
<1>. QED BY <1>1, <1>5, <1>6 DEF FirstTag

LEMMA FirstIsOnly ==
  ASSUME NEW list \in Seq(Tag), NEW url, NEW i \in 1..Len(list),
         IsRelayTagFor(list[i], url), \A j \in 1..(i - 1) : ~IsRelayTagFor(list[j], url)
  PROVE  HasRelayEntry(list, url) /\ FirstTag(list, url) = i
<1>. DEFINE first == FirstTag(list, url)
<1>1. HasRelayEntry(list, url)
  <2>1. i \in DOMAIN list
    OBVIOUS
  <2>. QED BY <2>1 DEF HasRelayEntry, ToSet
<1>2. /\ first \in 1..Len(list) /\ IsRelayTagFor(list[first], url)
      /\ \A j \in 1..(first - 1) : ~IsRelayTagFor(list[j], url)
  BY <1>1, FirstIsFirst
<1>. HIDE DEF first
<1>3. Len(list) \in Nat
  OBVIOUS
<1>4. ~(first < i) /\ ~(i < first)
  BY <1>2, <1>3
<1>5. first = i
  BY <1>2, <1>3, <1>4
<1>. QED BY <1>1, <1>5 DEF first

(* One tag more of a list.                                                 *)
LEMMA OneTagMore ==
  ASSUME NEW list \in Seq(Tag), NEW tag \in Tag, NEW url
  PROVE  LET new == Append(list, tag) IN
         /\ HasRelayEntry(new, url) <=> HasRelayEntry(list, url) \/ IsRelayTagFor(tag, url)
         /\ HasRelayEntry(list, url) => FirstTag(new, url) = FirstTag(list, url)
         /\ ~HasRelayEntry(list, url) /\ IsRelayTagFor(tag, url) => FirstTag(new, url) = Len(list) + 1
         /\ Directions(new, url) = Directions(list, url)
                                   \cup (IF IsRelayTagFor(tag, url) THEN TagDirections(tag) ELSE {})
<1>. DEFINE new == Append(list, tag)
<1>1. /\ new \in Seq(Tag) /\ Len(list) \in Nat /\ Len(new) = Len(list) + 1
      /\ \A i \in 1..Len(list) : new[i] = list[i]
      /\ new[Len(list) + 1] = tag
      /\ DOMAIN list = 1..Len(list)
  OBVIOUS
<1>2. ToSet(new) = ToSet(list) \cup {tag}
  BY AppendSet
<1>. HIDE DEF new
<1>3. HasRelayEntry(new, url) <=> HasRelayEntry(list, url) \/ IsRelayTagFor(tag, url)
  BY <1>2 DEF HasRelayEntry
<1>4. ASSUME HasRelayEntry(list, url) PROVE FirstTag(new, url) = FirstTag(list, url)
  <2>. DEFINE first == FirstTag(list, url)
  <2>1. /\ first \in 1..Len(list) /\ IsRelayTagFor(list[first], url)
        /\ \A j \in 1..(first - 1) : ~IsRelayTagFor(list[j], url)
    BY <1>4, FirstIsFirst
  <2>. HIDE DEF first
  <2>2. /\ first \in 1..Len(new) /\ IsRelayTagFor(new[first], url)
        /\ \A j \in 1..(first - 1) : ~IsRelayTagFor(new[j], url)
    BY <1>1, <2>1
  <2>3. FirstTag(new, url) = first
    BY <1>1, <2>2, FirstIsOnly
  <2>. QED BY <2>3 DEF first
<1>5. ASSUME ~HasRelayEntry(list, url), IsRelayTagFor(tag, url) PROVE FirstTag(new, url) = Len(list) + 1
  <2>1. \A j \in 1..Len(list) : ~IsRelayTagFor(list[j], url)
    BY <1>1, <1>5 DEF HasRelayEntry, ToSet
  <2>2. \A j \in 1..((Len(list) + 1) - 1) : ~IsRelayTagFor(new[j], url)
    BY <1>1, <2>1
  <2>3. Len(list) + 1 \in 1..Len(new) /\ IsRelayTagFor(new[Len(list) + 1], url)
    BY <1>1, <1>5
  <2>. QED BY <1>1, <2>2, <2>3, FirstIsOnly
<1>6. Directions(new, url) = Directions(list, url)
                             \cup (IF IsRelayTagFor(tag, url) THEN TagDirections(tag) ELSE {})
  <2>1. {t \in ToSet(new) : IsRelayTagFor(t, url)}
          = {t \in ToSet(list) : IsRelayTagFor(t, url)} \cup {t \in {tag} : IsRelayTagFor(t, url)}
    BY <1>2
  <2>. QED BY <1>1, <2>1, DirectionsOfList
<1>. QED BY <1>3, <1>4, <1>5, <1>6 DEF new

-----------------------------------------------------------------------------
(* What the edits leave of a list.                                         *)
LEMMA OneTagSelected ==
  ASSUME NEW url, NEW tag \in Of(url)
  PROVE  /\ << tag >> \in Seq(Tag) /\ Among(<< tag >>, Of(url)) = << tag >>
         /\ Among(<< tag >>, NotOf(url)) = <<>> /\ ToSet(<< tag >>) = {tag}
<1>1. tag \in Tag /\ tag \notin NotOf(url)
  BY DEF Of, NotOf
<1>2. << tag >> \in Seq(Tag) /\ ToSet(<< tag >>) = {tag}
  BY <1>1 DEF ToSet
<1>. QED BY <1>1, <1>2, AmongAll, AmongNone

(* A list that names a relay, apart from the tag that names it first.      *)
LEMMA AroundTheFirst ==
  ASSUME NEW list \in Seq(Tag), NEW url, HasRelayEntry(list, url)
  PROVE  LET first  == FirstTag(list, url)
             before == SubSeq(list, 1, first - 1)
             after  == SubSeq(list, first + 1, Len(list))
         IN  /\ before \in Seq(Tag) /\ after \in Seq(Tag) /\ list[first] \in Of(url)
             /\ Len(before) = first - 1 /\ \A j \in 1..(first - 1) : before[j] \in NotOf(url)
             /\ list = (before \o << list[first] >>) \o after
<1>. DEFINE first  == FirstTag(list, url)
            before == SubSeq(list, 1, first - 1)
            after  == SubSeq(list, first + 1, Len(list))
<1>1. /\ first \in 1..Len(list) /\ IsRelayTagFor(list[first], url)
      /\ \A j \in 1..(first - 1) : ~IsRelayTagFor(list[j], url)
  BY FirstIsFirst
<1>. HIDE DEF first
<1>2. Len(list) \in Nat /\ \A i \in 1..Len(list) : list[i] \in Tag
  OBVIOUS
<1>3. /\ before \in Seq(Tag) /\ after \in Seq(Tag)
      /\ Len(before) = first - 1 /\ \A j \in 1..(first - 1) : before[j] = list[j]
  BY <1>1, <1>2, SubSeqProperties
<1>4. list[first] \in Of(url) /\ \A j \in 1..(first - 1) : before[j] \in NotOf(url)
  BY <1>1, <1>2, <1>3 DEF Of, NotOf
<1>5. SubSeq(list, 1, first) = before \o << list[first] >>
  <2>1. 1 \in 1..Len(list) /\ first \in 1..Len(list)
    BY <1>1, <1>2
  <2>. QED BY <2>1, SubSeqRecursiveSecond
<1>6. SubSeq(list, 1, first) \o after = SubSeq(list, 1, Len(list))
  <2>1. 1 \in 1..(Len(list) + 1) /\ first \in (1 - 1)..Len(list) /\ Len(list) \in first..Len(list)
    BY <1>1, <1>2
  <2>. QED BY <2>1, ConcatAdjacentSubSeq
<1>7. SubSeq(list, 1, Len(list)) = list
  BY SubSeqFull
<1>. HIDE DEF before, after
<1>8. list = (before \o << list[first] >>) \o after
  BY <1>5, <1>6, <1>7, Zenon
<1>. QED BY <1>3, <1>4, <1>8, Zenon DEF first, before, after

(* A list in three parts.                                                  *)
LEMMA AmongThree ==
  ASSUME NEW S
  PROVE  \A a, b, c \in Seq(Tag) :
           /\ (a \o b) \o c \in Seq(Tag)
           /\ Among((a \o b) \o c, S) = (Among(a, S) \o Among(b, S)) \o Among(c, S)
<1>1. ASSUME NEW a \in Seq(Tag), NEW b \in Seq(Tag), NEW c \in Seq(Tag)
      PROVE  /\ (a \o b) \o c \in Seq(Tag)
             /\ Among((a \o b) \o c, S) = (Among(a, S) \o Among(b, S)) \o Among(c, S)
  <2>1. a \o b \in Seq(Tag)
    BY ConcatProperties
  <2>2. Among(a \o b, S) = Among(a, S) \o Among(b, S)
    BY AmongConcat
  <2>3. ASSUME NEW ab \in Seq(Tag) PROVE ab \o c \in Seq(Tag)
    BY ConcatProperties
  <2>4. ASSUME NEW ab \in Seq(Tag) PROVE Among(ab \o c, S) = Among(ab, S) \o Among(c, S)
    BY AmongConcat, SMTT(30)
  <2>5. (a \o b) \o c \in Seq(Tag) /\ Among((a \o b) \o c, S) = Among(a \o b, S) \o Among(c, S)
    BY <2>1, <2>3, <2>4, Zenon
  <2>. QED BY <2>2, <2>5, Zenon
<1>. QED BY <1>1, Zenon

LEMMA Added ==
  ASSUME NEW list \in Seq(Tag), NEW url \in RelayUrls, NEW marker \in Markers
  PROVE  LET new == AddRelayTag(list, url, marker) IN
         /\ new \in Seq(Tag)
         /\ RelayTags(new, url) = << RelayTag(url, marker) >>
         /\ OtherTags(new, url) = OtherTags(list, url)
         /\ HasRelayEntry(list, url) => FirstTag(new, url) = FirstTag(list, url)
<1>. DEFINE new == AddRelayTag(list, url, marker)
            tag == RelayTag(url, marker)
<1>1. /\ tag \in Of(url) /\ tag \in Tag /\ << tag >> \in Seq(Tag)
      /\ Among(<< tag >>, Of(url)) = << tag >> /\ Among(<< tag >>, NotOf(url)) = <<>>
  <2>1. tag \in Of(url)
    BY WrittenTag
  <2>. HIDE DEF tag
  <2>. QED BY <2>1, OneTagSelected DEF Of
<1>. HIDE DEF tag
<1>2. CASE ~HasRelayEntry(list, url)
  <2>1. new = Append(list, tag)
    BY <1>2 DEF AddRelayTag, tag
  <2>2. new \in Seq(Tag) /\ tag \notin NotOf(url)
    BY <1>1, <2>1 DEF Of, NotOf
  <2>3. Among(list, Of(url)) = <<>>
    <3>1. \A t \in ToSet(list) : t \notin Of(url)
      BY <1>2 DEF HasRelayEntry, Of
    <3>. QED BY <3>1, AmongNone
  <2>4. /\ Among(new, Of(url)) = Append(<<>>, tag)
        /\ Among(new, NotOf(url)) = Among(list, NotOf(url))
    BY <1>1, <2>1, <2>2, <2>3, AmongAppend
  <2>5. Append(<<>>, tag) = << tag >>
    OBVIOUS
  <2>. HIDE DEF new
  <2>6. RelayTags(new, url) = << tag >> /\ OtherTags(new, url) = OtherTags(list, url)
    BY <2>2, <2>4, <2>5, SelectedTags
  <2>. QED BY <1>2, <2>2, <2>6 DEF new, tag
<1>3. CASE HasRelayEntry(list, url)
  <2>. DEFINE first  == FirstTag(list, url)
              before == SubSeq(list, 1, first - 1)
              after  == SubSeq(list, first + 1, Len(list))
              rest   == Among(after, NotOf(url))
              old    == list[first]
  <2>1. /\ before \in Seq(Tag) /\ after \in Seq(Tag) /\ old \in Of(url)
        /\ Len(before) = first - 1 /\ \A j \in 1..(first - 1) : before[j] \in NotOf(url)
        /\ list = (before \o << old >>) \o after
        /\ first \in 1..Len(list)
    BY <1>3, AroundTheFirst, FirstIsFirst
  <2>2. new = (OtherTags(before, url) \o << tag >>) \o OtherTags(after, url)
    BY <1>3 DEF AddRelayTag, tag
  <2>. HIDE DEF new, first, before, after, old
  <2>3. Among(before, NotOf(url)) = before /\ Among(before, Of(url)) = <<>>
    <3>1. \A t \in ToSet(before) : t \in NotOf(url) /\ t \notin Of(url)
      <4>1. DOMAIN before = 1..(first - 1)
        BY <2>1
      <4>. QED BY <2>1, <4>1 DEF ToSet, Of, NotOf
    <3>. QED BY <2>1, <3>1, AmongAll, AmongNone
  <2>4. rest \in Seq(Tag) /\ Among(rest, NotOf(url)) = rest /\ Among(rest, Of(url)) = <<>>
    <3>1. NotOf(url) \cap NotOf(url) = NotOf(url)
      OBVIOUS
    <3>2. rest \in Seq(Tag) /\ \A t \in ToSet(rest) : t \notin Of(url)
      BY <2>1, AmongSelects DEF Of, NotOf
    <3>. QED BY <2>1, <3>1, <3>2, AmongTwice, AmongNone
  <2>5. new = (before \o << tag >>) \o rest
    BY <2>1, <2>2, <2>3, SelectedTags
  <2>. HIDE DEF rest
  <2>. DEFINE one == << tag >>
              was == << old >>
  <2>6. /\ one \in Seq(Tag) /\ Among(one, Of(url)) = one /\ Among(one, NotOf(url)) = <<>>
        /\ was \in Seq(Tag) /\ Among(was, NotOf(url)) = <<>>
        /\ <<>> \o one = one /\ one \o <<>> = one /\ before \o <<>> = before
        /\ new = (before \o one) \o rest /\ list = (before \o was) \o after
    BY <1>1, <2>1, <2>5, OneTagSelected, ConcatEmptySeq
  <2>. HIDE DEF one, was
  <2>mine. \A a, b, c \in Seq(Tag) :
             /\ (a \o b) \o c \in Seq(Tag)
             /\ Among((a \o b) \o c, Of(url)) = (Among(a, Of(url)) \o Among(b, Of(url))) \o Among(c, Of(url))
    BY AmongThree, Zenon
  <2>others. \A a, b, c \in Seq(Tag) :
               /\ (a \o b) \o c \in Seq(Tag)
               /\ Among((a \o b) \o c, NotOf(url))
                    = (Among(a, NotOf(url)) \o Among(b, NotOf(url))) \o Among(c, NotOf(url))
    BY AmongThree, Zenon
  <2>7. new \in Seq(Tag) /\ Among(new, Of(url)) = one
    <3>1. /\ (before \o one) \o rest \in Seq(Tag)
          /\ Among((before \o one) \o rest, Of(url)) = (Among(before, Of(url)) \o Among(one, Of(url))) \o Among(rest, Of(url))
      <4>1. before \in Seq(Tag) /\ one \in Seq(Tag) /\ rest \in Seq(Tag)
        BY <2>1, <2>4, <2>6
      <4>. QED BY <2>mine, <4>1, ZenonT(40)
    <3>. QED BY <2>3, <2>4, <2>6, <3>1, ZenonT(40)
  <2>8. Among(new, NotOf(url)) = before \o rest
    <3>1. Among((before \o one) \o rest, NotOf(url)) = (Among(before, NotOf(url)) \o Among(one, NotOf(url))) \o Among(rest, NotOf(url))
      <4>1. before \in Seq(Tag) /\ one \in Seq(Tag) /\ rest \in Seq(Tag)
        BY <2>1, <2>4, <2>6
      <4>. QED BY <2>others, <4>1, ZenonT(40)
    <3>. QED BY <2>3, <2>4, <2>6, <3>1, ZenonT(40)
  <2>9. Among(list, NotOf(url)) = before \o rest
    <3>1. Among((before \o was) \o after, NotOf(url)) = (Among(before, NotOf(url)) \o Among(was, NotOf(url))) \o Among(after, NotOf(url))
      <4>1. before \in Seq(Tag) /\ was \in Seq(Tag) /\ after \in Seq(Tag)
        BY <2>1, <2>6
      <4>. QED BY <2>others, <4>1, ZenonT(40)
    <3>. QED BY <2>3, <2>6, <3>1, Zenon DEF rest
  <2>10. RelayTags(new, url) = one /\ OtherTags(new, url) = OtherTags(list, url)
    BY <2>7, <2>8, <2>9, SelectedTags, Zenon
  <2>11. FirstTag(new, url) = first
    <3>. DEFINE front == before \o one
    <3>0. Len(one) = 1 /\ one[1] = tag /\ first \in Nat
      BY <2>1 DEF one
    <3>1. /\ front \in Seq(Tag) /\ Len(front) = first /\ front[first] = tag
          /\ \A j \in 1..(first - 1) : front[j] = before[j]
      <4>1. \A p, q \in Seq(Tag) : p \o q \in Seq(Tag) /\ \A j \in 1..Len(p) : (p \o q)[j] = p[j]
        OBVIOUS
      <4>2. \A p, q \in Seq(Tag) : Len(q) = 1 => Len(p \o q) = Len(p) + 1 /\ (p \o q)[Len(p) + 1] = q[1]
        <5>1. ASSUME NEW p \in Seq(Tag), NEW q \in Seq(Tag), Len(q) = 1
              PROVE  Len(p \o q) = Len(p) + 1 /\ (p \o q)[Len(p) + 1] = q[1]
          <6>1. Len(p \o q) = Len(p) + Len(q) /\ Len(p) \in Nat
            BY ConcatProperties
          <6>2. \A i \in 1..(Len(p) + Len(q)) : (p \o q)[i] = IF i <= Len(p) THEN p[i] ELSE q[i - Len(p)]
            BY ConcatProperties
          <6>3. (p \o q)[Len(p) + 1] = q[(Len(p) + 1) - Len(p)] /\ (Len(p) + 1) - Len(p) = 1
            BY <5>1, <6>1, <6>2
          <6>. QED BY <5>1, <6>1, <6>3
        <5>. QED BY <5>1
      <4>3. front \in Seq(Tag) /\ \A j \in 1..Len(before) : front[j] = before[j]
        BY <2>1, <2>6, <4>1, ZenonT(40)
      <4>4. Len(front) = Len(before) + 1 /\ front[Len(before) + 1] = one[1]
        BY <2>1, <2>6, <3>0, <4>2, Zenon
      <4>5. Len(before) = first - 1 /\ Len(before) + 1 = first
        BY <2>1, <3>0
      <4>. QED BY <3>0, <4>3, <4>4, <4>5, Zenon
    <3>2. new = front \o rest
      BY <2>6
    <3>. HIDE DEF front
    <3>3. Len(new) = first + Len(rest) /\ Len(rest) \in Nat /\ \A j \in 1..first : new[j] = front[j]
      <4>1. \A p, q \in Seq(Tag) : /\ Len(p \o q) = Len(p) + Len(q) /\ Len(q) \in Nat
                                  /\ \A j \in 1..Len(p) : (p \o q)[j] = p[j]
        OBVIOUS
      <4>. QED BY <2>4, <3>1, <3>2, <4>1, Zenon
    <3>4. /\ first \in 1..Len(new) /\ new[first] = tag
          /\ \A j \in 1..(first - 1) : new[j] = before[j]
      <4>1. first \in Nat /\ first >= 1 /\ first \in 1..first /\ \A j \in 1..(first - 1) : j \in 1..first
        BY <2>1, <3>0
      <4>2. first \in 1..Len(new)
        <5>. HIDE DEF new
        <5>. QED BY <3>3, <4>1
      <4>. QED BY <3>1, <3>3, <4>1, <4>2, Zenon
    <3>5. IsRelayTagFor(new[first], url) /\ \A j \in 1..(first - 1) : ~IsRelayTagFor(new[j], url)
      BY <1>1, <2>1, <3>4 DEF Of, NotOf
    <3>. QED BY <2>7, <3>4, <3>5, FirstIsOnly
  <2>. QED BY <2>7, <2>10, <2>11, Zenon DEF new, tag, first, one
<1>. QED BY <1>2, <1>3

LEMMA Removed ==
  ASSUME NEW list \in Seq(Tag), NEW url
  PROVE  LET new == RemoveRelayTag(list, url) IN
         /\ new \in Seq(Tag)
         /\ RelayTags(new, url) = <<>>
         /\ OtherTags(new, url) = OtherTags(list, url)
<1>. DEFINE new == RemoveRelayTag(list, url)
<1>1. new = Among(list, NotOf(url)) /\ new \in Seq(Tag)
  BY SelectedTags DEF RemoveRelayTag
<1>2. Among(new, NotOf(url)) = Among(list, NotOf(url) \cap NotOf(url))
  BY <1>1, AmongTwice
<1>3. \A tag \in ToSet(new) : tag \notin Of(url)
  BY <1>1, AmongSelects DEF Of, NotOf
<1>. HIDE DEF new
<1>4. Among(new, Of(url)) = <<>>
  BY <1>1, <1>3, AmongNone
<1>5. NotOf(url) \cap NotOf(url) = NotOf(url)
  OBVIOUS
<1>. QED BY <1>1, <1>2, <1>4, <1>5, SelectedTags DEF new

-----------------------------------------------------------------------------
(* Gathering entries: tag by tag, as the code's map grows.                 *)
Gathering(f, list) ==
  /\ f[0] = <<>>
  /\ \A i \in 1..Len(list) : f[i] = WithEntry(f[i - 1], list[i])

LEMMA GatheringExists ==
  ASSUME NEW list \in Seq(Tag)
  PROVE  \E f : Gathering(f, list) /\ ExtractRelayEntries(list) = f[Len(list)]
<1>. DEFINE Step(f, i)   == IF i = 0 THEN <<>> ELSE WithEntry(f[i - 1], list[i])
            IsUpTo(f, n) == f = [i \in 0..n |-> Step(f, i)]
            upTo         == CHOOSE f : IsUpTo(f, Len(list))
            Good         == {n \in 0..Len(list) : \E f : IsUpTo(f, n)}
<1>1. Len(list) \in Nat
  OBVIOUS
<1>2. 0 \in Good
  <2>. DEFINE f == [i \in 0..0 |-> <<>>]
  <2>1. IsUpTo(f, 0)
    OBVIOUS
  <2>. HIDE DEF IsUpTo, f
  <2>. QED BY <1>1, <2>1
<1>3. ASSUME NEW n \in 1..Len(list), n - 1 \in Good PROVE n \in Good
  <2>1. PICK f : IsUpTo(f, n - 1)
    <3>. HIDE DEF IsUpTo
    <3>. QED BY <1>3
  <2>. DEFINE g == [i \in 0..n |-> IF i < n THEN f[i] ELSE Step(f, n)]
  <2>2. n \in Nat /\ \A i \in 0..(n - 1) : g[i] = f[i] /\ f[i] = Step(f, i)
    <3>1. n \in Nat
      BY <1>1
    <3>2. \A i \in 0..(n - 1) : g[i] = f[i]
      BY <3>1
    <3>3. \A i \in 0..(n - 1) : f[i] = Step(f, i)
      <4>. HIDE DEF Step
      <4>. QED BY <2>1
    <3>. QED BY <3>1, <3>2, <3>3
  <2>3. \A i \in 0..n : g[i] = Step(f, i)
    <3>1. g[n] = Step(f, n)
      <4>. HIDE DEF Step
      <4>. QED BY <2>2
    <3>2. \A i \in 0..n : i = n \/ i \in 0..(n - 1)
      BY <2>2
    <3>. HIDE DEF Step, g
    <3>. QED BY <2>2, <3>1, <3>2
  <2>4. \A i \in 0..n : Step(g, i) = Step(f, i)
    BY <1>1, <2>2
  <2>5. IsUpTo(g, n)
    BY <2>3, <2>4
  <2>. HIDE DEF g, IsUpTo
  <2>. QED BY <1>1, <2>5
<1>4. IsUpTo(upTo, Len(list))
  <2>1. Len(list) \in Good
    <3>. HIDE DEF Good
    <3>1. 0..Len(list) \subseteq Good
      BY <1>1, <1>2, <1>3, AllIndices, Zenon
    <3>. QED BY <1>1, <3>1
  <2>. HIDE DEF IsUpTo
  <2>. QED BY <2>1
<1>5. ExtractRelayEntries(list) = upTo[Len(list)]
  BY DEF ExtractRelayEntries
<1>. HIDE DEF upTo
<1>6. \A i \in 0..Len(list) : upTo[i] = Step(upTo, i)
  BY <1>4
<1>7. Gathering(upTo, list)
  BY <1>1, <1>6 DEF Gathering
<1>. QED BY <1>5, <1>7

LEMMA ExtractEmpty == ExtractRelayEntries(<<>>) = <<>>
<1>1. <<>> \in Seq(Tag) /\ Len(<<>>) = 0
  OBVIOUS
<1>2. PICK f : Gathering(f, <<>>) /\ ExtractRelayEntries(<<>>) = f[0]
  BY <1>1, GatheringExists
<1>. QED BY <1>1, <1>2 DEF Gathering

LEMMA ExtractAppend ==
  ASSUME NEW list \in Seq(Tag), NEW tag \in Tag
  PROVE  ExtractRelayEntries(Append(list, tag)) = WithEntry(ExtractRelayEntries(list), tag)
<1>. DEFINE new == Append(list, tag)
<1>1. /\ Len(list) \in Nat /\ new \in Seq(Tag) /\ Len(new) = Len(list) + 1
      /\ \A i \in 1..Len(list) : new[i] = list[i]
      /\ new[Len(new)] = tag
  OBVIOUS
<1>2. PICK f : Gathering(f, list) /\ ExtractRelayEntries(list) = f[Len(list)]
  BY GatheringExists
<1>3. PICK g : Gathering(g, new) /\ ExtractRelayEntries(new) = g[Len(new)]
  BY <1>1, GatheringExists
<1>. HIDE DEF new
<1>. DEFINE Same == {i \in 0..Len(list) : f[i] = g[i]}
<1>4. 0 \in Same
  BY <1>1, <1>2, <1>3 DEF Gathering
<1>5. ASSUME NEW i \in 1..Len(list), i - 1 \in Same PROVE i \in Same
  <2>1. f[i] = WithEntry(f[i - 1], list[i]) /\ g[i] = WithEntry(g[i - 1], new[i])
    BY <1>1, <1>2, <1>3 DEF Gathering
  <2>2. f[i - 1] = g[i - 1] /\ new[i] = list[i] /\ i \in 0..Len(list)
    BY <1>1, <1>5
  <2>. QED BY <2>1, <2>2
<1>6. f[Len(list)] = g[Len(list)]
  <2>. HIDE DEF Same
  <2>1. 0..Len(list) \subseteq Same
    BY <1>1, <1>4, <1>5, AllIndices, Zenon
  <2>. QED BY <1>1, <2>1 DEF Same
<1>7. g[Len(new)] = WithEntry(g[Len(list)], tag)
  BY <1>1, <1>3 DEF Gathering
<1>. QED BY <1>2, <1>3, <1>6, <1>7 DEF new

-----------------------------------------------------------------------------
LEMMA MarkersSayTheirDirections ==
  /\ \A tag : /\ ToRelayMarker(At(tag, 3)) \in Markers
              /\ MarkerDirections(ToRelayMarker(At(tag, 3))) = TagDirections(tag)
  /\ \A a, b \in Markers : /\ UnionMarker(a, b) \in Markers
                           /\ MarkerDirections(UnionMarker(a, b)) = MarkerDirections(a) \cup MarkerDirections(b)
<1>1. ASSUME NEW tag
      PROVE  /\ ToRelayMarker(At(tag, 3)) \in Markers
             /\ MarkerDirections(ToRelayMarker(At(tag, 3))) = TagDirections(tag)
  <2>0. Null \notin {"read", "write"}
    BY TextsAssumption, NullTextAssumption DEF Markers
  <2>1. CASE At(tag, 3) \in {"read", "write"}
    <3>1. At(tag, 3) = tag[3]
      BY <2>0, <2>1 DEF At
    <3>2. ToRelayMarker(At(tag, 3)) = tag[3] /\ TagDirections(tag) = {tag[3]} /\ tag[3] \in {"read", "write"}
      BY <2>1, <3>1 DEF ToRelayMarker, TagDirections
    <3>. QED BY <3>2 DEF MarkerDirections, Markers
  <2>2. CASE At(tag, 3) \notin {"read", "write"}
    <3>1. ToRelayMarker(At(tag, 3)) = "both" /\ TagDirections(tag) = {"read", "write"}
      BY <2>2 DEF ToRelayMarker, TagDirections
    <3>. QED BY <3>1 DEF MarkerDirections, Markers
  <2>. QED BY <2>1, <2>2
<1>2. ASSUME NEW a \in Markers, NEW b \in Markers
      PROVE  /\ UnionMarker(a, b) \in Markers
             /\ MarkerDirections(UnionMarker(a, b)) = MarkerDirections(a) \cup MarkerDirections(b)
  BY DEF Markers, UnionMarker, MarkerDirections
<1>. QED BY <1>1, <1>2

(* Entries that say what a list says: each relay the list names once, in   *)
(* the order first named, in the directions its tags name between them.    *)
RelayEntry == [url : RelayUrls, marker : Markers]

Reads(list, entries) ==
  /\ \A i, j \in 1..Len(entries) : i < j => FirstTag(list, entries[i].url) < FirstTag(list, entries[j].url)
  /\ \A i \in 1..Len(entries) : /\ HasRelayEntry(list, entries[i].url)
                                /\ Directions(list, entries[i].url) = MarkerDirections(entries[i].marker)
  /\ \A url \in RelayUrls : HasRelayEntry(list, url) => \E i \in 1..Len(entries) : entries[i].url = url

LEMMA ReadsOneMore ==
  ASSUME NEW list \in Seq(Tag), NEW tag \in Tag, NEW entries \in Seq(RelayEntry), Reads(list, entries)
  PROVE  WithEntry(entries, tag) \in Seq(RelayEntry) /\ Reads(Append(list, tag), WithEntry(entries, tag))
<1>. DEFINE new    == Append(list, tag)
            more   == WithEntry(entries, tag)
            named  == RelayTagUrl(tag)
            marker == ToRelayMarker(At(tag, 3))
<1>0. /\ Len(entries) \in Nat /\ DOMAIN entries = 1..Len(entries) /\ Len(list) \in Nat
      /\ \A i \in 1..Len(entries) : /\ entries[i].url \in RelayUrls /\ entries[i].marker \in Markers
                                    /\ entries[i] \in RelayEntry
  <2>1. /\ Len(entries) \in Nat /\ DOMAIN entries = 1..Len(entries) /\ Len(list) \in Nat
        /\ \A i \in 1..Len(entries) : entries[i] \in RelayEntry
    OBVIOUS
  <2>2. \A entry \in RelayEntry : entry.url \in RelayUrls /\ entry.marker \in Markers
    BY DEF RelayEntry
  <2>. QED BY <2>1, <2>2
<1>1. /\ named \in RelayUrls \cup {Null} /\ Null \notin RelayUrls
      /\ marker \in Markers /\ MarkerDirections(marker) = TagDirections(tag)
  BY UrlsAreTexts, MarkersSayTheirDirections
<1>2. \A url :
        /\ HasRelayEntry(new, url) <=> HasRelayEntry(list, url) \/ url = named
        /\ HasRelayEntry(list, url) => FirstTag(new, url) = FirstTag(list, url)
        /\ ~HasRelayEntry(list, url) /\ url = named => FirstTag(new, url) = Len(list) + 1
        /\ url # named => Directions(new, url) = Directions(list, url)
        /\ url = named => Directions(new, url) = Directions(list, url) \cup MarkerDirections(marker)
  <2>1. ASSUME NEW url
        PROVE  /\ HasRelayEntry(new, url) <=> HasRelayEntry(list, url) \/ url = named
               /\ HasRelayEntry(list, url) => FirstTag(new, url) = FirstTag(list, url)
               /\ ~HasRelayEntry(list, url) /\ url = named => FirstTag(new, url) = Len(list) + 1
               /\ url # named => Directions(new, url) = Directions(list, url)
               /\ url = named => Directions(new, url) = Directions(list, url) \cup MarkerDirections(marker)
    <3>1. IsRelayTagFor(tag, url) <=> url = named
      BY DEF IsRelayTagFor
    <3>2. /\ HasRelayEntry(new, url) <=> HasRelayEntry(list, url) \/ IsRelayTagFor(tag, url)
          /\ HasRelayEntry(list, url) => FirstTag(new, url) = FirstTag(list, url)
          /\ ~HasRelayEntry(list, url) /\ IsRelayTagFor(tag, url) => FirstTag(new, url) = Len(list) + 1
          /\ Directions(new, url) = Directions(list, url)
                                    \cup (IF IsRelayTagFor(tag, url) THEN TagDirections(tag) ELSE {})
      BY OneTagMore
    <3>. HIDE DEF new, named, marker
    <3>3. url # named => Directions(new, url) = Directions(list, url)
      BY <3>1, <3>2
    <3>4. url = named => Directions(new, url) = Directions(list, url) \cup MarkerDirections(marker)
      BY <1>1, <3>1, <3>2
    <3>. QED BY <3>1, <3>2, <3>3, <3>4, Zenon
  <2>. HIDE DEF new, named, marker
  <2>. QED BY <2>1, Zenon
<1>3. \A url : ~HasRelayEntry(list, url) => Directions(list, url) = {}
  <2>1. ASSUME NEW url, ~HasRelayEntry(list, url) PROVE Directions(list, url) = {}
    <3>1. {t \in ToSet(list) : IsRelayTagFor(t, url)} = {}
      BY <2>1 DEF HasRelayEntry
    <3>. QED BY <3>1, DirectionsOfList
  <2>. QED BY <2>1
<1>4. \A url : HasRelayEntry(list, url) => FirstTag(list, url) \in 1..Len(list)
  BY FirstIsFirst
<1>5. CASE named = Null
  <2>1. more = entries
    BY <1>5 DEF WithEntry
  <2>. HIDE DEF new, more, named, marker
  <2>. QED BY <1>0, <1>1, <1>2, <1>5, <2>1 DEF Reads, new, more
<1>6. CASE named # Null /\ \A entry \in ToSet(entries) : entry.url # named
  <2>. DEFINE last == [url |-> named, marker |-> marker]
  <2>1. more = Append(entries, last)
    BY <1>6 DEF WithEntry
  <2>2. last \in RelayEntry /\ last.url = named /\ last.marker = marker
    BY <1>1, <1>6 DEF RelayEntry
  <2>. HIDE DEF last, named, marker, new
  <2>3. /\ more \in Seq(RelayEntry) /\ Len(more) = Len(entries) + 1 /\ more[Len(entries) + 1] = last
        /\ \A i \in 1..Len(entries) : more[i] = entries[i]
    BY <2>1, <2>2
  <2>. HIDE DEF more
  <2>4. ~HasRelayEntry(list, named)
    <3>1. \A i \in 1..Len(entries) : entries[i].url # named
      BY <1>0, <1>6 DEF ToSet
    <3>. QED BY <1>1, <1>6, <3>1 DEF Reads
  <2>5. /\ FirstTag(new, named) = Len(list) + 1 /\ HasRelayEntry(new, named)
        /\ Directions(new, named) = MarkerDirections(marker)
    BY <1>2, <1>3, <2>4
  <2>6. ASSUME NEW i \in 1..Len(entries)
        PROVE  /\ entries[i].url # named /\ HasRelayEntry(new, entries[i].url)
               /\ FirstTag(new, entries[i].url) = FirstTag(list, entries[i].url)
               /\ FirstTag(list, entries[i].url) \in 1..Len(list)
               /\ Directions(new, entries[i].url) = MarkerDirections(entries[i].marker)
    <3>1. entries[i].url # named
      BY <1>0, <1>6 DEF ToSet
    <3>. QED BY <1>2, <1>4, <3>1 DEF Reads
  <2>7. ASSUME NEW i \in 1..Len(more), NEW j \in 1..Len(more), i < j
        PROVE  FirstTag(new, more[i].url) < FirstTag(new, more[j].url)
    <3>1. i \in 1..Len(entries) /\ more[i] = entries[i]
      BY <1>0, <2>3, <2>7
    <3>2. CASE j \in 1..Len(entries)
      BY <1>0, <2>3, <2>6, <2>7, <3>1, <3>2 DEF Reads
    <3>3. CASE j = Len(entries) + 1
      BY <1>0, <2>2, <2>3, <2>5, <2>6, <3>1, <3>3
    <3>. QED BY <1>0, <2>3, <3>2, <3>3
  <2>8. ASSUME NEW i \in 1..Len(more)
        PROVE  HasRelayEntry(new, more[i].url) /\ Directions(new, more[i].url) = MarkerDirections(more[i].marker)
    <3>1. CASE i \in 1..Len(entries)
      BY <2>3, <2>6, <3>1
    <3>2. CASE i = Len(entries) + 1
      BY <2>2, <2>3, <2>5, <3>2
    <3>. QED BY <1>0, <2>3, <3>1, <3>2
  <2>9. ASSUME NEW url \in RelayUrls, HasRelayEntry(new, url)
        PROVE  \E i \in 1..Len(more) : more[i].url = url
    <3>1. CASE url = named
      BY <1>0, <2>2, <2>3, <3>1
    <3>2. CASE url # named
      <4>1. PICK i \in 1..Len(entries) : entries[i].url = url
        BY <1>2, <2>9, <3>2 DEF Reads
      <4>. QED BY <1>0, <2>3, <4>1
    <3>. QED BY <3>1, <3>2
  <2>10. Reads(new, more)
    BY <2>7, <2>8, <2>9 DEF Reads
  <2>. QED BY <2>3, <2>10 DEF new, more
<1>7. CASE named # Null /\ \E entry \in ToSet(entries) : entry.url = named
  <2>1. more = [i \in DOMAIN entries |->
                  IF entries[i].url = named
                  THEN [url |-> named, marker |-> UnionMarker(entries[i].marker, marker)]
                  ELSE entries[i]]
    BY <1>7 DEF WithEntry
  <2>. HIDE DEF new, more, named, marker
  <2>2. ASSUME NEW i \in 1..Len(entries)
        PROVE  /\ more[i] \in RelayEntry /\ more[i].url = entries[i].url
               /\ Directions(new, entries[i].url) = MarkerDirections(more[i].marker)
    <3>1. CASE entries[i].url = named
      <4>1. more[i] = [url |-> named, marker |-> UnionMarker(entries[i].marker, marker)]
        BY <1>0, <2>1, <3>1
      <4>2. /\ UnionMarker(entries[i].marker, marker) \in Markers
            /\ MarkerDirections(UnionMarker(entries[i].marker, marker))
                 = MarkerDirections(entries[i].marker) \cup MarkerDirections(marker)
        BY <1>0, <1>1, MarkersSayTheirDirections
      <4>3. Directions(new, named) = MarkerDirections(entries[i].marker) \cup MarkerDirections(marker)
        BY <1>2, <3>1 DEF Reads
      <4>4. named \in RelayUrls
        BY <1>0, <3>1
      <4>. QED BY <3>1, <4>1, <4>2, <4>3, <4>4 DEF RelayEntry
    <3>2. CASE entries[i].url # named
      <4>1. more[i] = entries[i]
        BY <1>0, <2>1, <3>2
      <4>. QED BY <1>0, <1>2, <3>2, <4>1 DEF Reads
    <3>. QED BY <3>1, <3>2
  <2>3. more \in Seq(RelayEntry) /\ Len(more) = Len(entries)
    <3>1. DOMAIN more = 1..Len(entries) /\ more = [i \in 1..Len(entries) |-> more[i]]
      BY <1>0, <2>1
    <3>2. more \in [1..Len(entries) -> RelayEntry]
      BY <2>2, <3>1
    <3>. QED BY <1>0, <3>2
  <2>4. \A url \in RelayUrls : HasRelayEntry(new, url) <=> HasRelayEntry(list, url)
    <3>1. HasRelayEntry(list, named)
      BY <1>0, <1>7 DEF Reads, ToSet
    <3>. QED BY <1>2, <3>1
  <2>5. ASSUME NEW i \in 1..Len(entries)
        PROVE  /\ HasRelayEntry(new, entries[i].url) 
               /\ FirstTag(new, entries[i].url) = FirstTag(list, entries[i].url)
    BY <1>2 DEF Reads
  <2>6. Reads(new, more)
    BY <2>2, <2>3, <2>4, <2>5 DEF Reads
  <2>. QED BY <2>3, <2>6 DEF new, more
<1>. QED BY <1>5, <1>6, <1>7

LEMMA ExtractReads ==
  ASSUME NEW list \in Seq(Tag)
  PROVE  ExtractRelayEntries(list) \in Seq(RelayEntry) /\ Reads(list, ExtractRelayEntries(list))
<1>. DEFINE Done == {l \in Seq(Tag) : /\ ExtractRelayEntries(l) \in Seq(RelayEntry)
                                      /\ Reads(l, ExtractRelayEntries(l))}
<1>1. <<>> \in Done
  <2>1. <<>> \in Seq(Tag) /\ <<>> \in Seq(RelayEntry) /\ Len(<<>>) = 0
    OBVIOUS
  <2>2. \A url : ~HasRelayEntry(<<>>, url)
    BY DEF HasRelayEntry, ToSet
  <2>3. Reads(<<>>, <<>>)
    BY <2>1, <2>2 DEF Reads
  <2>. QED BY <2>1, <2>3, ExtractEmpty, Zenon
<1>2. ASSUME NEW l \in Seq(Tag), NEW tag \in Tag, l \in Done PROVE Append(l, tag) \in Done
  <2>1. Append(l, tag) \in Seq(Tag)
    OBVIOUS
  <2>2. ExtractRelayEntries(Append(l, tag)) = WithEntry(ExtractRelayEntries(l), tag)
    BY ExtractAppend
  <2>3. /\ WithEntry(ExtractRelayEntries(l), tag) \in Seq(RelayEntry)
        /\ Reads(Append(l, tag), WithEntry(ExtractRelayEntries(l), tag))
    BY <1>2, ReadsOneMore
  <2>. QED BY <2>1, <2>2, <2>3, Zenon
<1>3. list \in Done
  <2>. HIDE DEF Done
  <2>. QED BY <1>1, <1>2, EverySequence, Zenon
<1>. QED BY <1>3

(* The marker a list gives a relay is the union of the relay's tags.       *)
LEMMA MarkerIsTheUnion ==
  ASSUME NEW list \in Seq(Tag), NEW url \in RelayUrls
  PROVE  LET marker == GetRelayEntryMarker(list, url) IN
         /\ marker \in Markers \cup {Null} /\ Null \notin Markers
         /\ HasRelayEntry(list, url) <=> marker # Null
         /\ Directions(list, url) = IF marker = Null THEN {} ELSE MarkerDirections(marker)
<1>. DEFINE entries == ExtractRelayEntries(list)
            found   == {entry \in ToSet(entries) : entry.url = url}
            marker  == GetRelayEntryMarker(list, url)
<1>1. entries \in Seq(RelayEntry) /\ Reads(list, entries)
  BY ExtractReads
<1>2. marker = IF found = {} THEN Null ELSE (CHOOSE entry \in found : TRUE).marker
  BY DEF GetRelayEntryMarker
<1>3. Null \notin Markers
  BY TextsAssumption, NullTextAssumption
<1>. HIDE DEF entries, marker
<1>4. DOMAIN entries = 1..Len(entries) /\ \A i \in 1..Len(entries) : entries[i] \in RelayEntry
  BY <1>1
<1>5. ASSUME NEW entry \in found
      PROVE  /\ entry.marker \in Markers /\ HasRelayEntry(list, url)
             /\ Directions(list, url) = MarkerDirections(entry.marker)
  <2>1. PICK i \in 1..Len(entries) : entry = entries[i]
    BY <1>4 DEF ToSet
  <2>2. entry.url = url /\ entry \in RelayEntry
    BY <1>4, <2>1
  <2>. QED BY <1>1, <2>1, <2>2 DEF Reads, RelayEntry
<1>6. CASE found = {}
  <2>1. marker = Null
    BY <1>2, <1>6
  <2>2. ~HasRelayEntry(list, url)
    BY <1>1, <1>4, <1>6 DEF Reads, ToSet
  <2>3. Directions(list, url) = {}
    <3>1. {t \in ToSet(list) : IsRelayTagFor(t, url)} = {}
      BY <2>2 DEF HasRelayEntry
    <3>. QED BY <3>1, DirectionsOfList
  <2>. QED BY <1>3, <2>1, <2>2, <2>3 DEF marker
<1>7. CASE found # {}
  <2>. HIDE DEF found
  <2>1. PICK entry \in found : marker = entry.marker
    BY <1>2, <1>7
  <2>. QED BY <1>3, <1>5, <2>1 DEF marker
<1>. QED BY <1>6, <1>7

-----------------------------------------------------------------------------
(* What EditDoesAsAsked says of the list before an edit and the one after. *)
Shows(list, new, url, wanted) ==
  /\ Directions(new, url) = wanted
  /\ RelayTags(new, url) \in
       (IF wanted = {} THEN {<<>>} ELSE { << <<"r", url>> >>, << <<"r", url, "read">> >>, << <<"r", url, "write">> >> })
  /\ OtherTags(new, url) = OtherTags(list, url)
  /\ wanted # {} /\ HasRelayEntry(list, url) => FirstTag(new, url) = FirstTag(list, url)

(* A list whose only tag of a relay is written shows its marker.           *)
LEMMA WrittenShows ==
  ASSUME NEW list, NEW url \in RelayUrls, NEW marker \in Markers, IsWritten(list, url, marker)
  PROVE  /\ Directions(list, url) = MarkerDirections(marker) /\ MarkerDirections(marker) # {}
         /\ RelayTags(list, url) \in { << <<"r", url>> >>, << <<"r", url, "read">> >>, << <<"r", url, "write">> >> }
<1>. DEFINE tag == RelayTag(url, marker)
<1>1. RelayTags(list, url) = << tag >> /\ TagDirections(tag) = MarkerDirections(marker)
  BY WrittenTag DEF IsWritten
<1>2. tag \in { <<"r", url>>, <<"r", url, "read">>, <<"r", url, "write">> }
  BY DEF RelayTag, Markers
<1>3. MarkerDirections(marker) # {}
  BY DEF MarkerDirections
<1>. HIDE DEF tag
<1>4. ToSet(<< tag >>) = {tag}
  BY DEF ToSet
<1>5. Directions(list, url) = MarkerDirections(marker)
  BY <1>1, <1>4 DEF Directions
<1>6. << tag >> \in { << <<"r", url>> >>, << <<"r", url, "read">> >>, << <<"r", url, "write">> >> }
  BY <1>2, Zenon
<1>. QED BY <1>1, <1>3, <1>5, <1>6, Zenon

LEMMA AddedShows ==
  ASSUME NEW list \in Seq(Tag), NEW url \in RelayUrls, NEW marker \in Markers
  PROVE  LET new == AddRelayTag(list, url, marker) IN
         /\ new \in Seq(Tag) /\ IsWritten(new, url, marker)
         /\ Shows(list, new, url, MarkerDirections(marker))
<1>. DEFINE new == AddRelayTag(list, url, marker)
<1>1. /\ new \in Seq(Tag) /\ RelayTags(new, url) = << RelayTag(url, marker) >>
      /\ OtherTags(new, url) = OtherTags(list, url)
      /\ HasRelayEntry(list, url) => FirstTag(new, url) = FirstTag(list, url)
  BY Added
<1>. HIDE DEF new
<1>2. IsWritten(new, url, marker)
  BY <1>1 DEF IsWritten
<1>3. /\ Directions(new, url) = MarkerDirections(marker) /\ MarkerDirections(marker) # {}
      /\ RelayTags(new, url) \in { << <<"r", url>> >>, << <<"r", url, "read">> >>, << <<"r", url, "write">> >> }
  BY <1>2, WrittenShows
<1>4. Shows(list, new, url, MarkerDirections(marker))
  BY <1>1, <1>3, Zenon DEF Shows
<1>. QED BY <1>1, <1>2, <1>4 DEF new

LEMMA RemovedShows ==
  ASSUME NEW list \in Seq(Tag), NEW url \in RelayUrls
  PROVE  LET new == RemoveRelayTag(list, url) IN
         /\ new \in Seq(Tag) /\ RelayTags(new, url) = <<>>
         /\ Shows(list, new, url, {})
<1>. DEFINE new == RemoveRelayTag(list, url)
<1>1. /\ new \in Seq(Tag) /\ RelayTags(new, url) = <<>>
      /\ OtherTags(new, url) = OtherTags(list, url)
  BY Removed
<1>. HIDE DEF new
<1>2. ToSet(<<>>) = {}
  BY DEF ToSet
<1>3. Directions(new, url) = {}
  BY <1>1, <1>2 DEF Directions
<1>4. Shows(list, new, url, {})
  BY <1>1, <1>3, Zenon DEF Shows
<1>. QED BY <1>1, <1>4 DEF new

(* The marker a usage change leaves is what it asks of the directions the  *)
(* relay had.                                                              *)
LEMMA UsageIsAsAsked ==
  ASSUME NEW list \in Seq(Tag), NEW url \in RelayUrls, NEW change \in Changes
  PROVE  LET next  == UsageAfter(GetRelayEntryMarker(list, url), change)
             wanted == {d \in {"read", "write"} : change[d] ?? (d \in Directions(list, url))}
         IN  /\ next = Null => wanted = {}
             /\ next # Null => next \in Markers /\ wanted = MarkerDirections(next)
<1>. DEFINE marker == GetRelayEntryMarker(list, url)
            before == Directions(list, url)
            wanted  == {d \in {"read", "write"} : change[d] ?? (d \in before)}
            reads  == change.read ?? (marker \in {"read", "both"})
            writes == change.write ?? (marker \in {"write", "both"})
<1>1. /\ marker \in Markers \cup {Null} /\ Null \notin Markers
      /\ before = IF marker = Null THEN {} ELSE MarkerDirections(marker)
  BY MarkerIsTheUnion
<1>2. UsageAfter(marker, change) = RelayMarkerFor(reads, writes)
  BY DEF UsageAfter
<1>. HIDE DEF marker, before
<1>3. ("read" \in before <=> marker \in {"read", "both"}) /\ ("write" \in before <=> marker \in {"write", "both"})
  BY <1>1 DEF MarkerDirections, Markers
<1>4. (change["read"] ?? ("read" \in before)) = reads /\ (change["write"] ?? ("write" \in before)) = writes
  <2>1. ("read" \in before) = (marker \in {"read", "both"}) /\ ("write" \in before) = (marker \in {"write", "both"})
    BY <1>3
  <2>2. change["read"] = change.read /\ change["write"] = change.write
    OBVIOUS
  <2>. QED BY <2>1, <2>2 DEF ??
<1>5. reads \in BOOLEAN /\ writes \in BOOLEAN
  <2>1. change.read \in BOOLEAN \cup {Null} /\ change.write \in BOOLEAN \cup {Null}
    BY DEF Changes
  <2>2. ASSUME NEW a \in BOOLEAN \cup {Null}, NEW b \in BOOLEAN PROVE (a ?? b) \in BOOLEAN
    BY Zenon DEF ??
  <2>3. (marker \in {"read", "both"}) \in BOOLEAN /\ (marker \in {"write", "both"}) \in BOOLEAN
    OBVIOUS
  <2>. QED BY <2>1, <2>2, <2>3, Zenon
<1>. HIDE DEF reads, writes
<1>6. ("read" \in wanted <=> reads) /\ ("write" \in wanted <=> writes) /\ wanted \subseteq {"read", "write"}
  BY <1>4
<1>. HIDE DEF wanted
<1>7. CASE reads /\ writes
  <2>1. RelayMarkerFor(reads, writes) = "both" /\ wanted = {"read", "write"}
    BY <1>6, <1>7 DEF RelayMarkerFor
  <2>. QED BY <1>1, <1>2, <2>1 DEF MarkerDirections, Markers, marker, before, wanted
<1>8. CASE reads /\ ~writes
  <2>1. RelayMarkerFor(reads, writes) = "read" /\ wanted = {"read"}
    BY <1>6, <1>8 DEF RelayMarkerFor
  <2>. QED BY <1>1, <1>2, <2>1 DEF MarkerDirections, Markers, marker, before, wanted
<1>9. CASE ~reads /\ writes
  <2>1. RelayMarkerFor(reads, writes) = "write" /\ wanted = {"write"}
    BY <1>6, <1>9 DEF RelayMarkerFor
  <2>. QED BY <1>1, <1>2, <2>1 DEF MarkerDirections, Markers, marker, before, wanted
<1>10. CASE ~reads /\ ~writes
  <2>1. RelayMarkerFor(reads, writes) = Null /\ wanted = {}
    BY <1>6, <1>10 DEF RelayMarkerFor
  <2>. QED BY <1>2, <2>1 DEF marker, before, wanted
<1>. QED BY <1>5, <1>7, <1>8, <1>9, <1>10

(* A usage change: what it asks is shown, and another array is another     *)
(* list.                                                                   *)
LEMMA UsedShows ==
  ASSUME NEW list \in Seq(Tag), NEW url \in RelayUrls, NEW change \in Changes
  PROVE  LET result == SetRelayEntryUsage(list, url, change)
             wanted  == {d \in {"read", "write"} : change[d] ?? (d \in Directions(list, url))}
         IN  /\ result.tags \in Seq(Tag) /\ result.fresh \in BOOLEAN
             /\ Shows(list, result.tags, url, wanted)
             /\ result.fresh <=> result.tags # list
<1>. DEFINE marker == GetRelayEntryMarker(list, url)
            next   == UsageAfter(marker, change)
            itself == IF next = Null THEN marker = Null ELSE IsWritten(list, url, next)
            wanted  == {d \in {"read", "write"} : change[d] ?? (d \in Directions(list, url))}
            result == SetRelayEntryUsage(list, url, change)
<1>1. /\ HasRelayEntry(list, url) <=> marker # Null
      /\ Directions(list, url) = IF marker = Null THEN {} ELSE MarkerDirections(marker)
  BY MarkerIsTheUnion
<1>2. /\ next = Null => wanted = {}
      /\ next # Null => next \in Markers /\ wanted = MarkerDirections(next)
  BY UsageIsAsAsked
<1>3. /\ result.fresh = ~itself
      /\ result.tags = IF itself THEN list
                       ELSE IF next = Null THEN RemoveRelayTag(list, url) ELSE AddRelayTag(list, url, next)
  BY DEF SetRelayEntryUsage
<1>. HIDE DEF marker, next, wanted, result
<1>4. CASE next = Null /\ marker = Null
  <2>1. itself /\ result.fresh = FALSE /\ result.tags = list /\ wanted = {} /\ Directions(list, url) = {}
    BY <1>1, <1>2, <1>3, <1>4
  <2>2. RelayTags(list, url) = <<>>
    <3>1. \A tag \in ToSet(list) : tag \notin Of(url)
      BY <1>1, <1>4 DEF HasRelayEntry, Of
    <3>. QED BY <3>1, AmongNone, SelectedTags
  <2>3. Shows(list, list, url, wanted)
    BY <2>1, <2>2, Zenon DEF Shows
  <2>. QED BY <2>1, <2>3 DEF marker, next, wanted, result
<1>5. CASE next = Null /\ marker # Null
  <2>1. ~itself /\ result.fresh = TRUE /\ result.tags = RemoveRelayTag(list, url) /\ wanted = {}
    BY <1>2, <1>3, <1>5
  <2>2. result.tags \in Seq(Tag) /\ RelayTags(result.tags, url) = <<>> /\ Shows(list, result.tags, url, wanted)
    BY <2>1, RemovedShows
  <2>3. RelayTags(list, url) # <<>>
    <3>1. ToSet(RelayTags(list, url)) = {tag \in ToSet(list) : IsRelayTagFor(tag, url)}
      BY SelectedTags
    <3>2. {tag \in ToSet(list) : IsRelayTagFor(tag, url)} # {}
      BY <1>1, <1>5 DEF HasRelayEntry
    <3>3. ToSet(<<>>) = {}
      BY DEF ToSet
    <3>. QED BY <3>1, <3>2, <3>3
  <2>4. result.tags # list
    BY <2>2, <2>3
  <2>. QED BY <2>1, <2>2, <2>4 DEF marker, next, wanted, result
<1>6. CASE next # Null /\ IsWritten(list, url, next)
  <2>1. itself /\ result.fresh = FALSE /\ result.tags = list /\ next \in Markers /\ wanted = MarkerDirections(next)
    BY <1>2, <1>3, <1>6
  <2>2. /\ Directions(list, url) = wanted /\ wanted # {}
        /\ RelayTags(list, url) \in { << <<"r", url>> >>, << <<"r", url, "read">> >>, << <<"r", url, "write">> >> }
    BY <1>6, <2>1, WrittenShows
  <2>3. Shows(list, list, url, wanted)
    BY <2>2, Zenon DEF Shows
  <2>. QED BY <2>1, <2>3 DEF marker, next, wanted, result
<1>7. CASE next # Null /\ ~IsWritten(list, url, next)
  <2>1. ~itself /\ result.fresh = TRUE /\ result.tags = AddRelayTag(list, url, next)
        /\ next \in Markers /\ wanted = MarkerDirections(next)
    BY <1>2, <1>3, <1>7
  <2>2. /\ result.tags \in Seq(Tag) /\ IsWritten(result.tags, url, next)
        /\ Shows(list, result.tags, url, wanted)
    BY <2>1, AddedShows
  <2>3. result.tags # list
    BY <1>7, <2>2
  <2>. QED BY <2>1, <2>2, <2>3 DEF marker, next, wanted, result
<1>. QED BY <1>4, <1>5, <1>6, <1>7

-----------------------------------------------------------------------------
(* One edit: the list it leaves, and that it did as wanted.                 *)
LEMMA EditStep ==
  ASSUME ListTypeOK, NEW edit \in Calls, Edit(edit)
  PROVE  /\ ListTypeOK'
         /\ Shows(tags, tags', edit.url, Asked(edit, Directions(tags, edit.url)))
         /\ edit.op = "use" => (fresh' <=> tags' # tags)
<1>1. tags \in Seq(Tag)
  BY DEF ListTypeOK, Tag
<1>2. /\ call' = edit /\ tags' = Result(edit, tags).tags /\ fresh' = Result(edit, tags).fresh
  BY DEF Edit
<1>3. ASSUME edit \in [op : {"add"}, url : RelayUrls, marker : Markers]
      PROVE  /\ tags' \in Seq(Tag) /\ fresh' \in BOOLEAN
             /\ Shows(tags, tags', edit.url, Asked(edit, Directions(tags, edit.url)))
             /\ edit.op # "use"
  <2>1. edit.op = "add" /\ edit.url \in RelayUrls /\ edit.marker \in Markers
    BY <1>3
  <2>2. /\ Result(edit, tags).tags = AddRelayTag(tags, edit.url, edit.marker) /\ Result(edit, tags).fresh = TRUE
        /\ Asked(edit, Directions(tags, edit.url)) = MarkerDirections(edit.marker)
    BY <2>1 DEF Result, Asked
  <2>. QED BY <1>1, <1>2, <2>1, <2>2, AddedShows
<1>4. ASSUME edit \in [op : {"remove"}, url : RelayUrls]
      PROVE  /\ tags' \in Seq(Tag) /\ fresh' \in BOOLEAN
             /\ Shows(tags, tags', edit.url, Asked(edit, Directions(tags, edit.url)))
             /\ edit.op # "use"
  <2>1. edit.op = "remove" /\ edit.url \in RelayUrls
    BY <1>4
  <2>2. /\ Result(edit, tags).tags = RemoveRelayTag(tags, edit.url) /\ Result(edit, tags).fresh = TRUE
        /\ Asked(edit, Directions(tags, edit.url)) = {}
    BY <2>1 DEF Result, Asked
  <2>. QED BY <1>1, <1>2, <2>1, <2>2, RemovedShows
<1>5. ASSUME edit \in [op : {"use"}, url : RelayUrls, change : Changes]
      PROVE  /\ tags' \in Seq(Tag) /\ fresh' \in BOOLEAN
             /\ Shows(tags, tags', edit.url, Asked(edit, Directions(tags, edit.url)))
             /\ fresh' <=> tags' # tags
  <2>1. edit.op = "use" /\ edit.url \in RelayUrls /\ edit.change \in Changes
    BY <1>5
  <2>2. /\ Result(edit, tags) = SetRelayEntryUsage(tags, edit.url, edit.change)
        /\ Asked(edit, Directions(tags, edit.url))
             = {d \in {"read", "write"} : edit.change[d] ?? (d \in Directions(tags, edit.url))}
    BY <2>1 DEF Result, Asked
  <2>. DEFINE result == SetRelayEntryUsage(tags, edit.url, edit.change)
              wanted  == {d \in {"read", "write"} : edit.change[d] ?? (d \in Directions(tags, edit.url))}
  <2>3. /\ result.tags \in Seq(Tag) /\ result.fresh \in BOOLEAN
        /\ Shows(tags, result.tags, edit.url, wanted)
        /\ result.fresh <=> result.tags # tags
    BY <1>1, <2>1, UsedShows
  <2>4. tags' = result.tags /\ fresh' = result.fresh /\ Asked(edit, Directions(tags, edit.url)) = wanted
    BY <1>2, <2>2
  <2>. HIDE DEF result, wanted
  <2>. QED BY <2>3, <2>4, Zenon
<1>6. tags' \in Seq(Tag) /\ fresh' \in BOOLEAN => ListTypeOK'
  BY <1>2 DEF ListTypeOK, Tag
<1>. QED BY <1>3, <1>4, <1>5, <1>6 DEF Calls

LEMMA ListsStayTyped == ListSpec => []ListTypeOK
<1>1. ListInit => ListTypeOK
  BY PublishedAssumption DEF ListInit, ListTypeOK
<1>2. ListTypeOK /\ [ListNext]_listVars => ListTypeOK'
  <2>1. ASSUME ListTypeOK, NEW edit \in Calls, Edit(edit) PROVE ListTypeOK'
    BY <2>1, EditStep
  <2>2. ListTypeOK /\ UNCHANGED listVars => ListTypeOK'
    BY DEF ListTypeOK, listVars
  <2>. QED BY <2>1, <2>2 DEF ListNext
<1>. QED BY <1>1, <1>2, PTL DEF ListSpec

(* The list stays a list of tags, tags sequences of strings, whoever wrote *)
(* the list that was read.                                                 *)
THEOREM ListsAreTyped == ListSpec => []ListTypeOK
BY ListsStayTyped

(* However a list spells, repeats and marks its relays, the entries read   *)
(* from it name each relay once, in the order first named, with the union  *)
(* of the directions its tags name: extractRelayEntries and                *)
(* getRelayEntryMarker, for lists of every length.                         *)
THEOREM ListsReadAsTheUnion == ListSpec => []EntriesAreTheUnion
<1>1. ListTypeOK => EntriesAreTheUnion
  <2>. SUFFICES ASSUME ListTypeOK PROVE EntriesAreTheUnion
    OBVIOUS
  <2>. DEFINE entries == ExtractRelayEntries(tags)
  <2>1. tags \in Seq(Tag)
    BY DEF ListTypeOK, Tag
  <2>2. entries \in Seq(RelayEntry) /\ Reads(tags, entries)
    BY <2>1, ExtractReads
  <2>3. ASSUME NEW url \in RelayUrls
        PROVE  LET marker == GetRelayEntryMarker(tags, url) IN
               /\ HasRelayEntry(tags, url) <=> marker # Null
               /\ Directions(tags, url) = IF marker = Null THEN {} ELSE MarkerDirections(marker)
    BY <2>1, MarkerIsTheUnion
  <2>. HIDE DEF entries
  <2>4. \A i, j \in DOMAIN entries : i < j => FirstTag(tags, entries[i].url) < FirstTag(tags, entries[j].url)
    BY <2>2 DEF Reads
  <2>. QED BY <2>3, <2>4 DEF EntriesAreTheUnion, entries
<1>. QED BY <1>1, ListsStayTyped, PTL

(* addRelayTag, removeRelayTag and setRelayEntryUsage change one relay to  *)
(* exactly what they are wanted, leave every other tag as and where it was, *)
(* and a usage change gives back another array only for another list.      *)
THEOREM EditsDoAsAsked == ListSpec => EditDoesAsAsked
<1>. DEFINE Step ==
       call' # NoCall =>
         LET url   == call'.url
             wanted == Asked(call', Directions(tags, url))
         IN  /\ Directions(tags', url) = wanted
             /\ RelayTags(tags', url) \in
                  (IF wanted = {} THEN {<<>>} ELSE { << <<"r", url>> >>, << <<"r", url, "read">> >>, << <<"r", url, "write">> >> })
             /\ OtherTags(tags', url) = OtherTags(tags, url)
             /\ wanted # {} /\ HasRelayEntry(tags, url) => FirstTag(tags', url) = FirstTag(tags, url)
             /\ call'.op = "use" => (fresh' <=> tags' # tags)
<1>1. ListTypeOK /\ [ListNext]_listVars => [Step]_listVars
  <2>1. ASSUME ListTypeOK, NEW edit \in Calls, Edit(edit) PROVE Step
    <3>1. call' = edit
      BY <2>1 DEF Edit
    <3>2. /\ Shows(tags, tags', edit.url, Asked(edit, Directions(tags, edit.url)))
          /\ edit.op = "use" => (fresh' <=> tags' # tags)
      BY <2>1, EditStep
    <3>. QED BY <3>1, <3>2, Zenon DEF Shows
  <2>. QED BY <2>1 DEF ListNext
<1>. QED BY <1>1, ListsStayTyped, PTL DEF ListSpec, EditDoesAsAsked

=============================================================================
