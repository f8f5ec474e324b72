------------------------------ MODULE Filters ------------------------------
(***************************************************************************)
(* NIP-01 filters: src/domain/service/filter.ts, filter-hash.ts, and the   *)
(* filters that group.ts and event-utils.ts build.                         *)
(*                                                                         *)
(* A filter is the sequence of its entries [field, letter, value], in the  *)
(* order the caller wrote them: a # key has its letters in letter.  A      *)
(* search is the sequence of its lower-cased pieces, and the content of an *)
(* event the set of the terms it holds, lower-cased.                       *)
(***************************************************************************)
EXTENDS Tags

CONSTANTS NotAList,   \* what a # key forced past the type holds
          Letters,    \* the letters of a NIP-01 tag condition
          Extensions  \* the pieces of a search that are key:value extensions

KIND_CHAT_MESSAGE   == 9
KIND_GROUP_METADATA == 39000

Entry(field, value)           == [field |-> field, letter |-> "", value |-> value]
TagCondition(letter, values)  == [field |-> "#", letter |-> letter, value |-> values]

Entries(filter, fields) == {entry \in ToSet(filter) : entry.field \in fields}

IsTagCondition(entry) == entry.letter \in Letters /\ entry.value # NotAList

(* The call throws at a null, unless it met a malformed # key before.      *)
ThrowsOnNull(filter) ==
  \E i \in DOMAIN filter :
    /\ filter[i].value = Null
    /\ \A j \in 1..(i - 1) : filter[j].field = "#" => IsTagCondition(filter[j])

(* A bug: a filter with an empty list is sent.                             *)
CanMatchOnEmpty(filter) ==
  /\ \A entry \in Entries(filter, {"#"}) : IsTagCondition(entry)
  /\ \A since \in Entries(filter, {"since"}), until \in Entries(filter, {"until"}) : since.value <= until.value

CanFilterMatch(filter) ==
  /\ \A entry \in Entries(filter, {"#"}) : IsTagCondition(entry)
  /\ \A entry \in Entries(filter, {"ids", "authors", "kinds", "#"}) : entry.value # <<>>
  /\ \A since \in Entries(filter, {"since"}), until \in Entries(filter, {"until"}) : since.value <= until.value

SearchTermsOf(search) == ToSet(search) \ Extensions

HasTagValue(tags, name, values) == \E tag \in ToSet(tags) : At(tag, 1) = name /\ At(tag, 2) \in values

(* compileFilter(filter).matches(event).                                   *)
Matches(filter, event) ==
  /\ CanFilterMatch(filter)
  /\ \A entry \in ToSet(filter) :
       CASE entry.field = "ids"     -> event.id \in ToSet(entry.value)
         [] entry.field = "authors" -> event.pubkey \in ToSet(entry.value)
         [] entry.field = "kinds"   -> event.kind \in ToSet(entry.value)
         [] entry.field = "since"   -> event.created_at >= entry.value
         [] entry.field = "until"   -> event.created_at <= entry.value
         [] entry.field = "#"       -> HasTagValue(event.tags, entry.letter, ToSet(entry.value))
         [] entry.field = "search"  -> SearchTermsOf(entry.value) \subseteq event.content
         [] OTHER                   -> TRUE

(* compileFilters(filters).matches(event).                                 *)
MatchesSome(filters, event) == \E filter \in ToSet(filters) : Matches(filter, event)

-----------------------------------------------------------------------------
(* The canonical form whose digest hashFilters is: neither the order of    *)
(* the keys, nor of a list's elements, nor of the filters counts; their    *)
(* number does.                                                            *)
Counts(sequence) ==
  [element \in ToSet(sequence) |-> Cardinality({i \in DOMAIN sequence : sequence[i] = element})]

KeyOf(entry) == <<entry.field, entry.letter>>

IsList(entry) == entry.field \in {"ids", "authors", "kinds", "#"} /\ entry.value \notin {Null, NotAList}

Canonical(filter) ==
  [key \in {KeyOf(entry) : entry \in ToSet(filter)} |->
     LET entry == CHOOSE entry \in ToSet(filter) : KeyOf(entry) = key
     IN  IF IsList(entry) THEN Counts(entry.value) ELSE entry.value]

HashFilters(filters) == Counts([i \in DOMAIN filters |-> Canonical(filters[i])])

-----------------------------------------------------------------------------
GroupMetadataFilter(groupId) ==
  << Entry("kinds", <<KIND_GROUP_METADATA>>) >>
    \o (IF groupId = Null THEN <<>> ELSE << TagCondition("d", <<groupId>>) >>)

GroupChatFilter(groupId) == << Entry("kinds", <<KIND_CHAT_MESSAGE>>), TagCondition("h", <<groupId>>) >>

BuildAddressableEventFilter(address) ==
  << Entry("kinds", <<address.kind>>), Entry("authors", <<address.pubkey>>) >>
    \o (IF KindCategory(address.kind) = "replaceable" THEN <<>>
        ELSE << TagCondition("d", <<address.dTag>>) >>)

(* Of what parseNostrInput read: an event, an address, or a profile.       *)
BuildEventFilter(parsed) ==
  IF parsed.type = "event" THEN << Entry("ids", <<parsed.id>>) >>
  ELSE IF parsed.type = "address"
       THEN Append(BuildAddressableEventFilter(parsed.address), Entry("limit", 1))
  ELSE Null

(* A group as its metadata states it, read from a relay whose own key is   *)
(* relayPubkey, or Null where the relay names none.                        *)
DTag(tags) == IF ExtractTagValues(tags, "d") = {} THEN "" ELSE SoleTagValue(tags, "d")

ParseGroupMetadata(event, relay, relayPubkey) ==
  LET id     == DTag(event.tags)
      marked(name) == Tagged(event.tags, name) # <<>>
  IN  IF \/ event.kind # KIND_GROUP_METADATA
         \/ relayPubkey \notin {Null, event.pubkey}
         \/ id \in {Null, ""}
      THEN Null
      ELSE [id |-> id, relay |-> relay,
            name |-> SoleTagValue(event.tags, "name") ?? id,
            about |-> SoleTagValue(event.tags, "about"),
            picture |-> SoleTagValue(event.tags, "picture"),
            isPublic |-> ~marked("private"), isOpen |-> ~marked("closed"),
            isRestricted |-> marked("restricted"), isHidden |-> marked("hidden"),
            isLiveAvSpace |-> marked("livekit")]
=============================================================================
