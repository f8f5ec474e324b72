---------------------------- MODULE FileMetadata ----------------------------
(***************************************************************************)
(* NIP-94 and NIP-92 file metadata: src/domain/service/file-metadata.ts.   *)
(*                                                                         *)
(* Metadata is a function from the names of the fields it states to their  *)
(* values; its fallbacks are a sequence.  An entry of an imeta tag is the  *)
(* <<name, value>> its first space divides it into, or <<text>>.           *)
(***************************************************************************)
EXTENDS EventMetadata

CONSTANTS MimeTypeOf,   \* the texts parseMimeType accepts -> the MIME type, in lower case
          BeforeParams, \* the texts a ";", a space or a tab is cut from -> what is left
          Sha256Hexes   \* the texts that are 64 lowercase hex digits

(* A MIME type in lower case is its own, and has nothing to be cut from it. *)
ASSUME MimeTypesAssumption ==
  \A s \in DOMAIN MimeTypeOf :
    /\ MimeTypeOf[s] \in DOMAIN MimeTypeOf \ DOMAIN BeforeParams
    /\ MimeTypeOf[MimeTypeOf[s]] = MimeTypeOf[s]

KIND_FILE_METADATA == 1063

(* Each field and its tag, in the order they are written.                  *)
Fields == << <<"url", "url">>, <<"mimeType", "m">>, <<"hash", "x">>, <<"originalHash", "ox">>,
             <<"size", "size">>, <<"dimensions", "dim">>, <<"blurhash", "blurhash">>,
             <<"thumbnail", "thumb">>, <<"image", "image">>, <<"summary", "summary">>, <<"alt", "alt">> >>

(* Fallbacks that are none are not stated.                                 *)
IsFileMetadata(metadata) ==
  /\ metadata = [name \in DOMAIN metadata |-> metadata[name]]
  /\ "url" \in DOMAIN metadata
  /\ DOMAIN metadata \subseteq {field[1] : field \in ToSet(Fields)} \cup {"fallbacks"}
  /\ \A name \in DOMAIN metadata : metadata[name] # Null
  /\ "size" \in DOMAIN metadata => metadata["size"] \in DOMAIN DecimalText
  /\ "fallbacks" \in DOMAIN metadata => IsSequence(metadata["fallbacks"]) /\ metadata["fallbacks"] # <<>>

(* assertWritable: what would not be read back is not written.            *)
IsWritable(metadata) ==
  /\ metadata["url"] # ""
  /\ "mimeType" \in DOMAIN metadata =>
       metadata["mimeType"] \in DOMAIN MimeTypeOf /\ MimeTypeOf[metadata["mimeType"]] = metadata["mimeType"]
  /\ "size" \in DOMAIN metadata => metadata["size"] \in Nat

FieldText(metadata, field) == IF field = "size" THEN DecimalText[metadata["size"]] ELSE metadata[field]

(* A bug: one fallback is written.                                         *)
ToFieldsOneFallback(metadata) ==
  LET stated == Among(Fields, {field \in ToSet(Fields) : field[1] \in DOMAIN metadata}) IN
  [i \in DOMAIN stated |-> <<stated[i][2], FieldText(metadata, stated[i][1])>>]
    \o (IF "fallbacks" \in DOMAIN metadata THEN << <<"fallback", Head(metadata["fallbacks"])>> >> ELSE <<>>)

ToFields(metadata) ==
  LET stated    == Among(Fields, {field \in ToSet(Fields) : field[1] \in DOMAIN metadata})
      fallbacks == IF "fallbacks" \in DOMAIN metadata THEN metadata["fallbacks"] ELSE <<>>
  IN  [i \in DOMAIN stated |-> <<stated[i][2], FieldText(metadata, stated[i][1])>>]
        \o [i \in DOMAIN fallbacks |-> <<"fallback", fallbacks[i]>>]

MimeTypeBeforeItsParameters(text) ==
  LET base == IF text \in DOMAIN BeforeParams THEN BeforeParams[text] ELSE text
  IN  IF base \in DOMAIN MimeTypeOf THEN MimeTypeOf[base] ELSE Null

(* What a field's tags state, or Null.                                     *)
FieldRead(tags, field, name) ==
  LET value == SoleTagValue(tags, name) IN
  IF value = Null THEN Null
  ELSE CASE field = "size"     -> ParseDecimalInteger(value)
         [] field = "mimeType" -> MimeTypeBeforeItsParameters(value)
         [] OTHER              -> value

(* Null without one url.                                                   *)
ParseFileMetadataTags(tags) ==
  LET stating   == Among(tags, {tag \in ToSet(tags) : At(tag, 1) = "fallback" /\ Len(tag) > 1})
      read      == {<<field[1], FieldRead(tags, field[1], field[2])>> : field \in ToSet(Fields)}
      stated    == {pair \in read : pair[2] # Null}
      names     == {pair[1] : pair \in stated} \cup (IF stating = <<>> THEN {} ELSE {"fallbacks"})
  IN  IF SoleTagValue(tags, "url") \in {Null, ""} THEN Null
      ELSE [name \in names |->
              IF name = "fallbacks" THEN [i \in DOMAIN stating |-> stating[i][2]]
              ELSE (CHOOSE pair \in stated : pair[1] = name)[2]]

StatesEventFields(metadata) ==
  /\ {"mimeType", "hash", "originalHash"} \subseteq DOMAIN metadata
  /\ {metadata["hash"], metadata["originalHash"]} \subseteq Sha256Hexes

ParseFileMetadataEvent(event) ==
  LET metadata == IF event.kind = KIND_FILE_METADATA THEN ParseFileMetadataTags(event.tags) ELSE Null
  IN  IF metadata = Null THEN Null ELSE IF StatesEventFields(metadata) THEN metadata ELSE Null

DescribesTheUrl(fields) == \E field \in ToSet(fields) : field[1] # "url"

ParseImetaTag(tag) ==
  LET entries == Tail(tag)
      fields  == IF tag[1] = "imeta" THEN Among(entries, {entry \in ToSet(entries) : Len(entry) = 2}) ELSE <<>>
  IN  IF DescribesTheUrl(fields) THEN ParseFileMetadataTags(fields) ELSE Null

(* Null for a call that throws.                                            *)
BuildFileMetadataEvent(metadata, caption) ==
  IF ~IsWritable(metadata) \/ ~StatesEventFields(metadata) THEN Null
  ELSE [kind |-> KIND_FILE_METADATA, tags |-> ToFields(metadata), content |-> caption]

(* Null also for metadata that states its url alone.                       *)
BuildImetaTag(metadata) ==
  IF ~IsWritable(metadata) \/ ~DescribesTheUrl(ToFields(metadata)) THEN Null
  ELSE <<"imeta">> \o ToFields(metadata)
=============================================================================
