------------------------------- MODULE Nip44 -------------------------------
(***************************************************************************)
(* The sizes of a NIP-44 v2 payload, from plaintext to wire and back:      *)
(* src/infrastructure/crypto/nip44-codec.ts over nip44-v2.ts, and the gift *)
(* wrap of src/application/service/dm-crypto.ts that holds one payload in  *)
(* another.                                                                *)
(*                                                                         *)
(* A text is [units, bytes, utf8, inner]: its UTF-16 code units, its UTF-8 *)
(* bytes, whether it has them, and the payload a seal's content is, or     *)
(* Null.  A payload is the characters on the wire and what they decode to; *)
(* the cipher itself, its keys and its nonces are external.                *)
(***************************************************************************)
EXTENDS Integers

CONSTANTS Null,
          NIP44_MAX_PLAINTEXT_SIZE, \* 4294967295 in the code
          SealBytes,                \* the JSON of a seal but for its content
          Texts,                    \* texts a caller encrypts
          Ceilings                  \* values of maxPlaintextSize

NIP44_MIN_PLAINTEXT_SIZE         == 1
NIP44_DEFAULT_MAX_PLAINTEXT_SIZE == 262144
(* A bug: the largest rumour is taken to pad to a power of two.            *)
LowerMaxRumourSize               == 131072
GIFT_WRAP_MAX_RUMOUR_SIZE        == 163840
EXTENDED_PREFIX_THRESHOLD        == 65536

(* A bound: the lengths modelled end at 2^30, below TLC's integers.        *)
MaxLength == 1073741824

PowersOfTwo == {64, 128, 256, 512, 1024, 2048, 4096, 8192, 16384, 32768, 65536, 131072,
                262144, 524288, 1048576, 2097152, 4194304, 8388608, 16777216, 33554432,
                67108864, 134217728, 268435456, 536870912, 1073741824}

ASSUME SizesAssumption == /\ NIP44_MAX_PLAINTEXT_SIZE \in Nat
                          /\ NIP44_DEFAULT_MAX_PLAINTEXT_SIZE <= NIP44_MAX_PLAINTEXT_SIZE
                          /\ NIP44_MAX_PLAINTEXT_SIZE <= MaxLength
ASSUME CeilingsAssumption == Ceilings \subseteq 1..NIP44_MAX_PLAINTEXT_SIZE
ASSUME SealAssumption == SealBytes \in 300..400
ASSUME TextsAssumption ==
  /\ Texts \subseteq [units : Nat, bytes : Nat, utf8 : BOOLEAN, inner : {Null}]
  /\ \A text \in Texts : text.bytes \in text.units..(3 * text.units) /\ text.bytes <= MaxLength

VARIABLES by,      \* the call that was made, or Null
          text,    \* the text that was encrypted, or Null
          ceiling, \* the ceiling it was encrypted under
          wire,    \* the payload on the wire, or Null
          genuine  \* it is the payload that was encrypted

codecVars == <<by, text, ceiling, wire, genuine>>

-----------------------------------------------------------------------------
CalcPaddedLen(len) ==
  IF len <= 32 THEN 32
  ELSE LET nextPower == CHOOSE p \in PowersOfTwo : len <= p /\ p < 2 * len
           chunk     == IF nextPower <= 256 THEN 32 ELSE nextPower \div 8
       IN  chunk * ((len - 1) \div chunk + 1)

PrefixBytes(len) == IF len >= EXTENDED_PREFIX_THRESHOLD THEN 6 ELSE 2

(* u.pad: a u16, or two zero bytes and a u32, then the text and the zeros. *)
Pad(plain) ==
  [firstTwo |-> IF plain.bytes >= EXTENDED_PREFIX_THRESHOLD THEN 0 ELSE plain.bytes,
   u32      |-> plain.bytes,
   length   |-> PrefixBytes(plain.bytes) + CalcPaddedLen(plain.bytes),
   zeros    |-> TRUE,
   text     |-> plain]

(* A bug: the prefix may be the long one whatever the length.              *)
UnpadAnyPrefix(padded) ==
  LET extended == padded.firstTwo = 0
      len      == IF extended THEN padded.u32 ELSE padded.firstTwo
  IN  IF /\ len \in NIP44_MIN_PLAINTEXT_SIZE..NIP44_MAX_PLAINTEXT_SIZE
         /\ padded.length = (IF extended THEN 6 ELSE 2) + CalcPaddedLen(len)
         /\ padded.zeros /\ padded.text.utf8
      THEN padded.text ELSE Null

(* u.unpad: the text, or Null when the prefix, the length or the padding   *)
(* is not what u.pad writes.                                               *)
Unpad(padded) ==
  LET extended == padded.firstTwo = 0
      len      == IF extended THEN padded.u32 ELSE padded.firstTwo
      prefix   == IF extended THEN 6 ELSE 2
  IN  IF /\ extended => len >= EXTENDED_PREFIX_THRESHOLD
         /\ len \in NIP44_MIN_PLAINTEXT_SIZE..NIP44_MAX_PLAINTEXT_SIZE
         /\ padded.length = prefix + CalcPaddedLen(len)
         /\ padded.zeros /\ padded.text.utf8
      THEN padded.text ELSE Null

VERSION_NONCE_AND_MAC_BYTES == 1 + 32 + 32

Base64Length(bytes) == 4 * ((bytes + 2) \div 3)

WirePayload(padded) ==
  [flag |-> FALSE, base64 |-> TRUE, version |-> 2, mac |-> TRUE, padded |-> padded,
   bytes  |-> VERSION_NONCE_AND_MAC_BYTES + padded.length,
   length |-> Base64Length(VERSION_NONCE_AND_MAC_BYTES + padded.length)]

(* decrypt, check by check; a payload that starts with # is no version.    *)
Decipher(payload) ==
  IF payload.flag \/ payload.length < 132 \/ ~payload.base64 \/ payload.bytes < 99
     \/ payload.version # 2 \/ ~payload.mac
  THEN Null ELSE Unpad(payload.padded)

-----------------------------------------------------------------------------
ExceedsUtf8Bytes(plain, limit) ==
  plain.units > limit \/ (plain.units * 3 > limit /\ plain.bytes > limit)

(* A bug: the prefix that a high ceiling makes longer is left out.         *)
PayloadLengthForShortPrefix(maxPlaintextSize) ==
  Base64Length(VERSION_NONCE_AND_MAC_BYTES + 2 + CalcPaddedLen(maxPlaintextSize))

(* The payload of the longest text under the ceiling.                      *)
PayloadLengthFor(maxPlaintextSize) ==
  Base64Length(VERSION_NONCE_AND_MAC_BYTES + PrefixBytes(maxPlaintextSize) + CalcPaddedLen(maxPlaintextSize))

(* nip44Encrypt and nip44Decrypt; Null stands for a Nip44CryptoError.      *)
Nip44Encrypt(plain, maxPlaintextSize) ==
  IF ~plain.utf8 \/ plain.units = 0 \/ ExceedsUtf8Bytes(plain, maxPlaintextSize) THEN Null
  ELSE WirePayload(Pad(plain))

Nip44Decrypt(payload, maxPlaintextSize) ==
  LET plain == Decipher(payload) IN
  IF payload.length > PayloadLengthFor(maxPlaintextSize) THEN Null
  ELSE IF plain = Null THEN Null
  ELSE IF ExceedsUtf8Bytes(plain, maxPlaintextSize) THEN Null ELSE plain

(* The JSON of a seal: one byte a character, as is base64.                 *)
SealOf(payload) ==
  [units |-> SealBytes + payload.length, bytes |-> SealBytes + payload.length, utf8 |-> TRUE, inner |-> payload]

(* buildDmGiftWraps for one member, with signers under the default ceiling.*)
GiftWrapOf(rumour) ==
  IF ExceedsUtf8Bytes(rumour, GIFT_WRAP_MAX_RUMOUR_SIZE) THEN Null
  ELSE LET seal == Nip44Encrypt(rumour, NIP44_DEFAULT_MAX_PLAINTEXT_SIZE) IN
       IF seal = Null THEN Null ELSE Nip44Encrypt(SealOf(seal), NIP44_DEFAULT_MAX_PLAINTEXT_SIZE)

-----------------------------------------------------------------------------
(* What others put on the wire: the payload damaged, or another program's  *)
(* encryption of the text, padded, prefixed or filled in its own way.      *)
OtherPaddings(padded) ==
  {[padded EXCEPT !.zeros = FALSE], [padded EXCEPT !.text.utf8 = FALSE],
   [padded EXCEPT !.length = @ + 32], [padded EXCEPT !.length = @ - 1],
   [padded EXCEPT !.firstTwo = 0, !.length = CalcPaddedLen(padded.u32) + 6],
   [padded EXCEPT !.firstTwo = padded.u32 % EXTENDED_PREFIX_THRESHOLD, !.length = CalcPaddedLen(padded.u32) + 2],
   [padded EXCEPT !.firstTwo = 0, !.u32 = 0]}

Altered(payload) ==
  {[payload EXCEPT !.flag = TRUE], [payload EXCEPT !.base64 = FALSE],
   [payload EXCEPT !.version = 1], [payload EXCEPT !.mac = FALSE],
   [payload EXCEPT !.length = 131, !.bytes = 98, !.mac = FALSE]}
  \cup {WirePayload(padded) : padded \in OtherPaddings(payload.padded)}

Encryptions == {"nip44Encrypt", "buildDmGiftWraps"}

(* Null is neither a call nor a text nor a payload.                        *)
ASSUME NullAssumption ==
  /\ Null \notin Encryptions
  /\ \A plain \in Texts \cup {SealOf(WirePayload(Pad(rumour))) : rumour \in Texts} :
       Null \notin {plain, WirePayload(Pad(plain))} \cup Altered(WirePayload(Pad(plain)))

CodecInit == by = Null /\ text = Null /\ ceiling = Null /\ wire = Null /\ genuine = FALSE

Send(call, plain, limit, payload) ==
  /\ by = Null /\ by' = call
  /\ text' = plain /\ ceiling' = limit /\ wire' = payload /\ genuine' = (payload # Null)

Encrypt(plain, limit) == Send("nip44Encrypt", plain, limit, Nip44Encrypt(plain, limit))

WrapRumour(plain) ==
  Send("buildDmGiftWraps", plain, NIP44_DEFAULT_MAX_PLAINTEXT_SIZE, GiftWrapOf(plain))

Alter ==
  /\ genuine
  /\ \E payload \in Altered(wire) : wire' = payload
  /\ genuine' = FALSE
  /\ UNCHANGED <<by, text, ceiling>>

CodecNext ==
  \/ \E plain \in Texts, limit \in Ceilings : Encrypt(plain, limit)
  \/ \E plain \in Texts : WrapRumour(plain)
  \/ Alter

CodecSpec == CodecInit /\ [][CodecNext]_codecVars

-----------------------------------------------------------------------------
(* A text is encrypted when it is UTF-8 of one byte up to the ceiling, and *)
(* then it is read under every ceiling it is within and refused under the  *)
(* others: a payload refused by its length alone never held a text within  *)
(* the reader's ceiling (ADR-0035, shared ADR-0102).                       *)
EncryptedIsReadBack ==
  by = "nip44Encrypt" =>
    /\ wire # Null <=> text.utf8 /\ text.bytes \in 1..ceiling
    /\ genuine => \A limit \in Ceilings :
         Nip44Decrypt(wire, limit) = IF text.bytes <= limit THEN text ELSE Null

(* Whatever is on the wire, a text that is read is under the ceiling and   *)
(* its payload is the one this library writes for it: no other padding,    *)
(* prefix or version of it is accepted.                                    *)
ReadAsWritten ==
  wire # Null => \A limit \in Ceilings :
    LET plain == Nip44Decrypt(wire, limit) IN
    plain # Null => plain.bytes \in 1..limit /\ wire = WirePayload(Pad(plain))

(* Encryption and decryption are each other's inverse, whatever the        *)
(* ceiling of the one who reads.                                           *)
PayloadsAreFaithful == EncryptedIsReadBack /\ ReadAsWritten

(* Every rumour up to 163840 bytes is wrapped, and its receiver reads the  *)
(* seal and then the rumour; a rumour that is refused would have had a     *)
(* seal over the ceiling (dm-crypto.ts, GIFT_WRAP_MAX_RUMOUR_SIZE).        *)
GiftWrapsHoldWhatFits ==
  by = "buildDmGiftWraps" /\ text.utf8 /\ text.bytes > 0 =>
    /\ wire = Null <=> SealOf(WirePayload(Pad(text))).bytes > NIP44_DEFAULT_MAX_PLAINTEXT_SIZE
    /\ genuine =>
         LET seal == Nip44Decrypt(wire, NIP44_DEFAULT_MAX_PLAINTEXT_SIZE) IN
         /\ seal # Null
         /\ Nip44Decrypt(seal.inner, NIP44_DEFAULT_MAX_PLAINTEXT_SIZE) = text
=============================================================================
