-------------------------------- MODULE Tags --------------------------------
(***************************************************************************)
(* Reading the tags of an event: src/domain/service/tags.ts, with          *)
(* soleValue and the parsers of what a slot may hold.                      *)
(*                                                                         *)
(* A tag is a sequence of strings, its slots counted from 1: tag[0] of the *)
(* code is slot 1.  An event is [kind, id, pubkey, tags]; a created_at, a  *)
(* signature and the text of the content take no part in what is read.     *)
(***************************************************************************)
EXTENDS SequencesExt

CONSTANTS Null,        \* null and undefined
          Pubkeys,     \* the strings isValidPublicKey accepts
          EventIds,    \* the strings isValidEventId accepts
          Addresses,   \* coordinate text -> [kind, pubkey, dTag]
          RelayUrlOf,  \* relay text -> the canonical RelayUrl parseRelayUrl gives it
          WebUrls,     \* the strings parseWebUrl accepts, each kept as written
          DecimalText  \* a number -> String(number)

INSTANCE Replaceable WITH NoIdentifier <- Null, NoKey <- Null

(* formatAddressableRef is the inverse of parseAddressableRef: a           *)
(* coordinate has one text, its kind in canonical decimal form.            *)
ASSUME AddressesAssumption ==
  \A s, t \in DOMAIN Addresses : Addresses[s] = Addresses[t] => s = t
(* A canonical relay URL is its own canonical form.                        *)
ASSUME RelaysAssumption ==
  \A s \in DOMAIN RelayUrlOf :
    RelayUrlOf[s] \in DOMAIN RelayUrlOf /\ RelayUrlOf[RelayUrlOf[s]] = RelayUrlOf[s]

ParseRelayUrl(text) == IF text \in DOMAIN RelayUrlOf THEN RelayUrlOf[text] ELSE Null
ParseWebUrl(text)   == IF text \in WebUrls THEN text ELSE Null

FormatAddressableRef(address) == CHOOSE text \in DOMAIN Addresses : Addresses[text] = address

a ?? b == IF a = Null THEN b ELSE a

-----------------------------------------------------------------------------
IsSequence(s) == s \in Seq(ToSet(s))
IsTags(tags)  == IsSequence(tags) /\ \A tag \in ToSet(tags) : IsSequence(tag)

At(tag, slot) == IF slot <= Len(tag) THEN tag[slot] ELSE Null

(* The elements of a sequence that are in a set, in order: what SelectSeq  *)
(* selects, in a form whose facts can be proved.                           *)
Among(sequence, set) ==
  LET upTo[n \in 0..Len(sequence)] ==
        IF n = 0 THEN <<>>
        ELSE IF sequence[n] \in set THEN Append(upTo[n - 1], sequence[n]) ELSE upTo[n - 1]
  IN  upTo[Len(sequence)]

Tagged(tags, name) == Among(tags, {tag \in ToSet(tags) : At(tag, 1) = name})

HasTag(tags, name, value) ==
  \E tag \in ToSet(tags) : At(tag, 1) = name /\ At(tag, 2) = value

RemoveTag(tags, name, value) ==
  Among(tags, {tag \in ToSet(tags) : ~(At(tag, 1) = name /\ At(tag, 2) = value)})

(* extractTagValues, without the order of its values.                      *)
ExtractTagValues(tags, name) ==
  {At(tag, 2) : tag \in ToSet(Tagged(tags, name))} \ {Null}

ExtractPubkeys(tags) == ExtractTagValues(tags, "p") \cap Pubkeys

(* The value of soleValue: what the values agree on, or Null.              *)
SoleValue(values) == IF \E v \in values : values = {v} THEN CHOOSE v \in values : TRUE ELSE Null

SoleTagValue(tags, name) == SoleValue(ExtractTagValues(tags, name))

NIP10_MARKERS == {"root", "reply", "mention"}

Nip10Marker(tag) == IF At(tag, 4) \in NIP10_MARKERS THEN At(tag, 4) ELSE Null

(* The author an e tag names: in slot 5 when it has one, else in slot 4.   *)
EventTagAuthor(tag) ==
  LET author == IF Len(tag) > 4 THEN tag[5] ELSE At(tag, 4)
  IN  IF author \in Pubkeys THEN author ELSE Null

-----------------------------------------------------------------------------
EventRef(id)        == [type |-> "event", id |-> id]
AddressRef(address) == [type |-> "address", address |-> address]

(* A coordinate has a text: the one formatAddressableRef gives it.         *)
HasText(ref) == ref.type = "address" => \E text \in DOMAIN Addresses : Addresses[text] = ref.address

FormatRef(ref) == IF ref.type = "event" THEN ref.id ELSE FormatAddressableRef(ref.address)

(* eventOrAddressRefFromTag: what an e, E, a or A tag points at.           *)
RefFromTag(tag) ==
  IF At(tag, 1) \in {"e", "E"} /\ At(tag, 2) \in EventIds THEN EventRef(tag[2])
  ELSE IF At(tag, 1) \in {"a", "A"} /\ At(tag, 2) \in DOMAIN Addresses THEN AddressRef(Addresses[tag[2]])
  ELSE Null

SoleRef(tags) == SoleValue({RefFromTag(tag) : tag \in ToSet(tags)} \ {Null})
=============================================================================
