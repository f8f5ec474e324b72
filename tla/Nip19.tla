--------------------------------- MODULE Nip19 ---------------------------------
(***************************************************************************)
(* NIP-19 entities: what the encoders write and what decodeNostrEntity     *)
(* reads (src/domain/service/bech32.ts).                                   *)
(*                                                                         *)
(* An entity as written is [hrp, bytes], its bytes for npub and note one   *)
(* value, and for the others TLV records: [records, cut], cut when the     *)
(* stream ends inside a record.  A value is [is, length]: what it states,  *)
(* Null where no reader accepts it, and its length in bytes.  The          *)
(* checksum, the alphabet and the case of bech32 are left out, and texts   *)
(* are well-formed Unicode, which UTF-8 gives back as written.             *)
(***************************************************************************)
EXTENDS Tags

CONSTANT Utf8Length   \* text -> the bytes of its UTF-8, for relays and identifiers

ASSUME Utf8LengthAssumption == \A text \in DOMAIN Utf8Length : Utf8Length[text] \in Nat

MAX_ENTITY_LENGTH    == 5000
MAX_TLV_VALUE_LENGTH == 255
CHECKSUM_LENGTH      == 6
KEY_BYTES            == 32
KIND_BYTES           == 4

TLV_SPECIAL == 0
TLV_RELAY   == 1
TLV_AUTHOR  == 2
TLV_KIND    == 3

IsAddress(address) == IsValidAddressableRef(address.kind, address.dTag)

(* Each value once, where it is first seen.                                *)
Once(values) ==
  LET upTo[n \in 0..Len(values)] ==
        IF n = 0 THEN <<>>
        ELSE LET seen == upTo[n - 1] IN IF values[n] \in ToSet(seen) THEN seen ELSE Append(seen, values[n])
  IN  upTo[Len(values)]

-----------------------------------------------------------------------------
KeyValue(key)   == [is |-> key, length |-> KEY_BYTES]
KindValue(kind) == [is |-> kind, length |-> KIND_BYTES]
TextValue(text) == [is |-> text, length |-> Utf8Length[text]]

TlvRecord(type, value) == [type |-> type, value |-> value]

StreamLength(records) == FoldLeft(LAMBDA sum, r : sum + 2 + r.value.length, 0, records)

(* Characters of a bech32 text: five bits each, the last one padded.       *)
EntityLength(hrp, bytes) ==
  LET prefix == [npub |-> 4, note |-> 4, nprofile |-> 8, nevent |-> 6, naddr |-> 5]
  IN  prefix[hrp] + 1 + ((8 * bytes + 4) \div 5) + CHECKSUM_LENGTH

EncodeTlvEntity(hrp, records) ==
  IF \/ \E r \in ToSet(records) : r.value.length > MAX_TLV_VALUE_LENGTH
     \/ EntityLength(hrp, StreamLength(records)) > MAX_ENTITY_LENGTH
  THEN Null ELSE [hrp |-> hrp, bytes |-> [records |-> records, cut |-> FALSE]]

RelayRecords(relayUrls) ==
  LET once == Once(relayUrls) IN [i \in DOMAIN once |-> TlvRecord(TLV_RELAY, TextValue(once[i]))]

EncodePubkeyToNpub(pubkey)   == [hrp |-> "npub", bytes |-> KeyValue(pubkey)]
EncodeEventIdToNote(eventId) == [hrp |-> "note", bytes |-> KeyValue(eventId)]

EncodeNprofile(pubkey, relayUrls) ==
  EncodeTlvEntity("nprofile", << TlvRecord(TLV_SPECIAL, KeyValue(pubkey)) >> \o RelayRecords(relayUrls))

EncodeNevent(eventId, relayUrls, authorPubkey, kind) ==
  IF kind # Null /\ ~IsValidKind(kind) THEN Null
  ELSE EncodeTlvEntity("nevent",
         << TlvRecord(TLV_SPECIAL, KeyValue(eventId)) >> \o RelayRecords(relayUrls)
           \o (IF authorPubkey = Null THEN <<>> ELSE << TlvRecord(TLV_AUTHOR, KeyValue(authorPubkey)) >>)
           \o (IF kind = Null THEN <<>> ELSE << TlvRecord(TLV_KIND, KindValue(kind)) >>))

EncodeNaddr(address, relayUrls) ==
  IF ~IsValidKind(address.kind) \/ ~IsAddress(address) THEN Null
  ELSE EncodeTlvEntity("naddr",
         << TlvRecord(TLV_SPECIAL, TextValue(address.dTag)) >> \o RelayRecords(relayUrls)
           \o << TlvRecord(TLV_AUTHOR, KeyValue(address.pubkey)), TlvRecord(TLV_KIND, KindValue(address.kind)) >>)

-----------------------------------------------------------------------------
PubkeyOf(value)   == IF value.length = KEY_BYTES /\ value.is \in Pubkeys THEN value.is ELSE Null
EventIdOf(value)  == IF value.length = KEY_BYTES /\ value.is \in EventIds THEN value.is ELSE Null
ReadKind(value)   == IF value.length = KIND_BYTES /\ IsValidKind(value.is) THEN value.is ELSE Null
DecodeUtf8(value) == value.is

ValuesOf(records, type) == {r.value : r \in {s \in ToSet(records) : s.type = type}}

(* Null when a record is malformed, else the value the records claim, Null *)
(* within when they disagree or there is none.                             *)
SoleRecord(read) == IF Null \in read THEN Null ELSE [value |-> SoleValue(read)]

ClaimOf(sole) == IF sole = Null THEN Null ELSE sole.value

TlvExtractRelays(records) ==
  LET stated == {r \in ToSet(records) : r.type = TLV_RELAY /\ ParseRelayUrl(DecodeUtf8(r.value)) # Null}
      hints  == Among(records, stated)
  IN  Once([i \in DOMAIN hints |-> ParseRelayUrl(hints[i].value.is)])

DecodeNprofile(records) ==
  LET pubkey == ClaimOf(SoleRecord({PubkeyOf(v) : v \in ValuesOf(records, TLV_SPECIAL)}))
  IN  IF pubkey = Null THEN Null
      ELSE [type |-> "nprofile", pubkey |-> pubkey, relays |-> TlvExtractRelays(records)]

DecodeNevent(records) ==
  LET eventId == ClaimOf(SoleRecord({EventIdOf(v) : v \in ValuesOf(records, TLV_SPECIAL)}))
      author  == SoleRecord({PubkeyOf(v) : v \in ValuesOf(records, TLV_AUTHOR)})
      kind    == SoleRecord({ReadKind(v) : v \in ValuesOf(records, TLV_KIND)})
  IN  IF eventId = Null \/ author = Null \/ kind = Null THEN Null
      ELSE [type |-> "nevent", eventId |-> eventId, relays |-> TlvExtractRelays(records),
            pubkey |-> author.value, kind |-> kind.value]

DecodeNaddr(records) ==
  LET dTag    == ClaimOf(SoleRecord({DecodeUtf8(v) : v \in ValuesOf(records, TLV_SPECIAL)}))
      pubkey  == ClaimOf(SoleRecord({PubkeyOf(v) : v \in ValuesOf(records, TLV_AUTHOR)}))
      kind    == ClaimOf(SoleRecord({ReadKind(v) : v \in ValuesOf(records, TLV_KIND)}))
      address == [kind |-> kind, pubkey |-> pubkey, dTag |-> dTag]
  IN  IF dTag = Null \/ pubkey = Null \/ kind = Null THEN Null
      ELSE IF ~IsAddress(address) THEN Null
      ELSE [type |-> "naddr", address |-> address, pubkey |-> pubkey, relays |-> TlvExtractRelays(records)]

DecodeNote(value) ==
  IF EventIdOf(value) = Null THEN Null ELSE [type |-> "note", eventId |-> EventIdOf(value), pubkey |-> Null]
DecodeNpub(value) ==
  IF PubkeyOf(value) = Null THEN Null ELSE [type |-> "npub", pubkey |-> PubkeyOf(value)]

ParseTlv(stream) == IF stream.cut THEN Null ELSE stream.records

DecodeTlvEntity(hrp, stream) ==
  LET records == ParseTlv(stream) IN
  IF records = Null THEN Null
  ELSE CASE hrp = "nprofile" -> DecodeNprofile(records)
         [] hrp = "nevent"   -> DecodeNevent(records)
         [] hrp = "naddr"    -> DecodeNaddr(records)

DecodeBech32(entity) ==
  LET bytes == IF entity.hrp \in {"npub", "note"} THEN entity.bytes.length
               ELSE StreamLength(entity.bytes.records)
  IN  IF EntityLength(entity.hrp, bytes) > MAX_ENTITY_LENGTH THEN Null ELSE entity

DecodeNostrEntity(entity) ==
  IF DecodeBech32(entity) = Null THEN Null
  ELSE CASE entity.hrp = "note" -> DecodeNote(entity.bytes)
         [] entity.hrp = "npub" -> DecodeNpub(entity.bytes)
         [] OTHER               -> DecodeTlvEntity(entity.hrp, entity.bytes)
=============================================================================
