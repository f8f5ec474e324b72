----------------------------- MODULE AuthHeader -----------------------------
(***************************************************************************)
(* Authorization headers (src/domain/service/auth-header.ts): an event's   *)
(* JSON in base64 behind a scheme, as NIP-98 and Blossom write and read    *)
(* it, within the lengths each allows.                                     *)
(*                                                                         *)
(* A header is [length, scheme, spelling, text, event]: its characters,    *)
(* whether its first six are "Nostr " in any case, what its rest is        *)
(* canonical in (padded base64, or only unpadded base64url, or neither),   *)
(* what that decodes to, and the event of a text that is one.              *)
(***************************************************************************)
EXTENDS Integers

Spellings == {"base64", "base64url", "other"}
Texts     == {"no UTF-8 JSON", "JSON", "event"}

PrefixLength                   == 6
MAX_NIP98_AUTH_HEADER_LENGTH   == 4096
MAX_BLOSSOM_AUTH_HEADER_LENGTH == 8000

(* Three bytes are four characters; a rest is padded to four, or is not.   *)
PaddedLength(bytes)   == 4 * ((bytes + 2) \div 3)
UnpaddedLength(bytes) == (4 * bytes + 2) \div 3

Header(event, spelling, characters) ==
  [length |-> PrefixLength + characters, scheme |-> "Nostr", spelling |-> spelling,
   text |-> "event", event |-> event]

(* The header, or none: it would be refused for its length.                *)
HeaderWithin(header, maxLength) == {h \in {header} : h.length <= maxLength}

(* bytes is the size of the event's seven fields as JSON.                  *)
EncodeAuthHeader(event, bytes) ==
  HeaderWithin(Header(event, "base64", PaddedLength(bytes)), MAX_NIP98_AUTH_HEADER_LENGTH)

EncodeBlossomAuthHeader(event, bytes) ==
  HeaderWithin(Header(event, "base64url", UnpaddedLength(bytes)), MAX_BLOSSOM_AUTH_HEADER_LENGTH)

AuthHeaderDecodeFailures ==
  {"header_too_long", "header_bad_prefix", "header_bad_base64", "header_bad_json", "header_bad_event"}

Refused(reason) == [success |-> FALSE, failure |-> reason]

ParseCredentials(header, readable, maxLength) ==
  IF header.length > maxLength             THEN Refused("header_too_long")
  ELSE IF header.scheme # "Nostr"          THEN Refused("header_bad_prefix")
  ELSE IF header.spelling \notin readable  THEN Refused("header_bad_base64")
  ELSE IF header.text = "no UTF-8 JSON"    THEN Refused("header_bad_json")
  ELSE IF header.text = "JSON"             THEN Refused("header_bad_event")
  ELSE [success |-> TRUE, value |-> header.event]

ParseAuthHeader(header) == ParseCredentials(header, {"base64"}, MAX_NIP98_AUTH_HEADER_LENGTH)

(* A Blossom header is also read as clients wrote it before BUD-11.        *)
ParseBlossomAuthHeader(header) ==
  ParseCredentials(header, {"base64url", "base64"}, MAX_BLOSSOM_AUTH_HEADER_LENGTH)
=============================================================================
