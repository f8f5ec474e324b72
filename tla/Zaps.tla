-------------------------------- MODULE Zaps --------------------------------
(***************************************************************************)
(* What a zap receipt or a nutzap is worth: src/domain/service/            *)
(* zap-parser.ts, with nutzap-info.ts, p2pk-secret.ts and mint-keyset.ts.  *)
(*                                                                         *)
(* A JSON text is what it parses to, NotJson for a text that is none.  The *)
(* text of a proof has a spelling besides, its white space, the order of   *)
(* its keys and what other keys it has, so that two texts may be of one    *)
(* proof; a receipt's request has one text.  A BOLT-11 invoice is          *)
(* [network, digits, unit, mixedCase]: the number its digits write, Null   *)
(* when it states no amount.  A signed event has a signature that is       *)
(* genuine or not.  Curve and hash arithmetic is outside: a DLEQ proof     *)
(* verifies against the key that made it.                                  *)
(***************************************************************************)
EXTENDS EventMetadata, FiniteSetsExt

CONSTANTS Thousand,  \* 1000; a run may take a smaller step between units
          MaxSafe,   \* Number.MAX_SAFE_INTEGER
          NotJson    \* a text JSON.parse throws on

ASSUME ThousandAssumption == Thousand \in Nat /\ Thousand >= 10 /\ Thousand % 10 = 0
ASSUME MaxSafeAssumption == MaxSafe \in Nat

KIND_NUTZAP                     == 9321
KIND_ZAP_RECEIPT                == 9735
KIND_NUTZAP_MINT_RECOMMENDATION == 10019

(* A nano-bitcoin is 100 millisats, and a pico-bitcoin a tenth of one.     *)
MSATS_PER_SAT   == Thousand
MSATS_PER_UNIT  ==
  LET nano == Thousand \div 10 IN
  [unit \in {"", "m", "u", "n"} |->
     CASE unit = ""  -> nano * Thousand * Thousand * Thousand
       [] unit = "m" -> nano * Thousand * Thousand
       [] unit = "u" -> nano * Thousand
       [] unit = "n" -> nano]
MAX_ZAP_MSATS   == MSATS_PER_UNIT[""]
BITCOIN_NETWORKS == {"bc", "tb", "tbs", "bcrt"}

ParseBolt11Msats(invoice) ==
  LET amount == invoice.digits IN
  IF invoice.mixedCase \/ invoice.network \notin BITCOIN_NETWORKS THEN Null
  ELSE IF amount \in {Null, 0} \/ invoice.unit \notin {"", "m", "u", "n", "p"} THEN Null
  ELSE IF invoice.unit = "p"
       THEN IF amount % 10 = 0 /\ amount \div 10 <= MAX_ZAP_MSATS THEN amount \div 10 ELSE Null
  ELSE IF amount <= MAX_ZAP_MSATS \div MSATS_PER_UNIT[invoice.unit] THEN amount * MSATS_PER_UNIT[invoice.unit]
  ELSE Null

ParseZapRequest(description) ==
  IF description = NotJson THEN Null ELSE IF description.kind = KIND_ZAP_REQUEST THEN description ELSE Null

(* Every amount the request asks for is the invoice's.                     *)
RequestedAmountsMatch(zapRequest, invoiceMsats) ==
  \A amount \in ExtractTagValues(zapRequest.tags, "amount") : ParseDecimalInteger(amount) = invoiceMsats

ParseZapReceipt(event) ==
  LET description == SoleTagValue(event.tags, "description")
      bolt11      == SoleTagValue(event.tags, "bolt11")
      zapRequest  == IF description = Null THEN Null ELSE ParseZapRequest(description)
      amount      == IF bolt11 = Null THEN Null ELSE ParseBolt11Msats(bolt11)
  IN  IF event.kind # KIND_ZAP_RECEIPT \/ zapRequest = Null \/ amount = Null THEN Null
      ELSE IF ~RequestedAmountsMatch(zapRequest, amount) THEN Null
      ELSE [receipt |-> event, zapRequest |-> zapRequest, amountMillisats |-> amount,
            amountSats |-> amount \div MSATS_PER_SAT,
            pubkey |-> zapRequest.pubkey, message |-> zapRequest.content]

LnurlMatches(zapRequest, expectedLnurl) ==
  expectedLnurl = Null \/
  \A lnurl \in ExtractTagValues(zapRequest.tags, "lnurl") : ToLowerCase(lnurl) = expectedLnurl

(* A bug: the request a receipt carries is believed as it stands.          *)
VerifyZapReceiptAlone(receipt, lnurlProviderPubkey, expectedLnurl) ==
  IF receipt.receipt.pubkey # lnurlProviderPubkey THEN "provider-pubkey-mismatch"
  ELSE IF ~LnurlMatches(receipt.zapRequest, expectedLnurl) THEN "lnurl-mismatch"
  ELSE IF ~receipt.receipt.genuine THEN "receipt-signature-invalid" ELSE "ok"

VerifyZapReceipt(receipt, lnurlProviderPubkey, expectedLnurl) ==
  IF receipt.receipt.pubkey # lnurlProviderPubkey THEN "provider-pubkey-mismatch"
  ELSE IF ~LnurlMatches(receipt.zapRequest, expectedLnurl) THEN "lnurl-mismatch"
  ELSE IF ~receipt.receipt.genuine THEN "receipt-signature-invalid"
  ELSE IF ~receipt.zapRequest.genuine THEN "zap-request-signature-invalid" ELSE "ok"

-----------------------------------------------------------------------------
(* A secret is [data, tags]: its NUT-11 data and the names of its tags.    *)
(* CompressedKeyOf reads a compressed key by its x-coordinate.             *)
CONSTANT CompressedKeyOf

SPENDERS_BESIDE_THE_LOCK == {"pubkeys", "refund", "locktime"}

ParseCompressedKey(key) == IF key \in DOMAIN CompressedKeyOf THEN CompressedKeyOf[key] ELSE Null

(* A bug: a secret locks a proof whoever else may spend it.                *)
ParseP2pkDataKey(secret) == IF secret = NotJson THEN Null ELSE ParseCompressedKey(secret.data)

ParseP2pkLockKey(secret) ==
  IF secret = NotJson THEN Null
  ELSE IF secret.tags \cap SPENDERS_BESIDE_THE_LOCK # {} THEN Null ELSE ParseCompressedKey(secret.data)

(* The text of a proof, [spelling, id, amount, secret, C, dleq], states an *)
(* amount, or is skipped.                                                  *)
StatesAmount(text) == IF text = NotJson THEN FALSE ELSE text.amount \in -MaxSafe..MaxSafe

(* The proof it is of, however it is spelt.                                *)
ParseNutzapProof(text) ==
  [keysetId |-> text.id, amount |-> text.amount, secret |-> text.secret,
   unblindedSignature |-> text.C, dleq |-> text.dleq,
   lockKey |-> IF text.secret = Null THEN Null ELSE ParseP2pkLockKey(text.secret)]

DEFAULT_NUTZAP_UNIT    == "sat"
MSATS_PER_BITCOIN_UNIT == [unit \in {"sat", "msat"} |-> IF unit = "sat" THEN MSATS_PER_SAT ELSE 1]

(* The sum in any order, Null once it would leave the safe integers.       *)
SumWithinTheSafeIntegerRange(amounts) ==
  LET upTo[n \in 0..Len(amounts)] ==
        IF n = 0 THEN 0
        ELSE IF upTo[n - 1] = Null THEN Null
        ELSE IF amounts[n] > MaxSafe - upTo[n - 1] THEN Null ELSE upTo[n - 1] + amounts[n]
  IN  upTo[Len(amounts)]

ExceedsTheBitcoinCeiling(cashuAmount) ==
  IF cashuAmount.unit \in DOMAIN MSATS_PER_BITCOIN_UNIT
  THEN cashuAmount.amount > MAX_ZAP_MSATS \div MSATS_PER_BITCOIN_UNIT[cashuAmount.unit] ELSE FALSE

BitcoinAmountOf(cashuAmount) ==
  IF cashuAmount.unit \in DOMAIN MSATS_PER_BITCOIN_UNIT
  THEN cashuAmount.amount * MSATS_PER_BITCOIN_UNIT[cashuAmount.unit] ELSE Null

NutzapOf(event, proofs, cashuAmount) ==
  LET recipient == SoleTagValue(event.tags, "p")
      msats     == IF cashuAmount = Null THEN Null ELSE BitcoinAmountOf(cashuAmount)
  IN  [pubkey |-> event.pubkey, recipient |-> IF recipient \in Pubkeys THEN recipient ELSE Null,
       mint |-> ParseWebUrl(SoleTagValue(event.tags, "u")), proofs |-> proofs,
       keysetIds |-> {proof.keysetId : proof \in ToSet(proofs)} \ {Null},
       cashuAmount |-> cashuAmount, amountMillisats |-> msats,
       amountSats |-> IF msats = Null THEN Null ELSE msats \div MSATS_PER_SAT]

(* Each value once, in the order they are first given.  A value is the     *)
(* text in the tag: two spellings of one proof are two values.             *)
Distinct(values) ==
  LET upTo[n \in 0..Len(values)] ==
        IF n = 0 THEN <<>>
        ELSE IF values[n] \in ToSet(upTo[n - 1]) THEN upTo[n - 1] ELSE Append(upTo[n - 1], values[n])
  IN  upTo[Len(values)]

(* A bug: a text that is tagged twice counts twice.                        *)
EveryValue(tags, name) ==
  LET named == Among(tags, {tag \in ToSet(tags) : At(tag, 1) = name /\ Len(tag) > 1})
  IN  [i \in DOMAIN named |-> named[i][2]]

DistinctValues(tags, name) ==
  LET named == Among(tags, {tag \in ToSet(tags) : At(tag, 1) = name /\ Len(tag) > 1})
  IN  Distinct([i \in DOMAIN named |-> named[i][2]])

ParseNutzap(event) ==
  LET units   == ExtractTagValues(event.tags, "unit")
      tagged  == DistinctValues(event.tags, "proof")
      stating == Among(tagged, {text \in ToSet(tagged) : StatesAmount(text)})
      proofs  == [i \in DOMAIN stating |-> ParseNutzapProof(stating[i])]
      total   == SumWithinTheSafeIntegerRange([i \in DOMAIN proofs |-> proofs[i].amount])
      cashu   == [amount |-> total, unit |-> SoleValue(units) ?? DEFAULT_NUTZAP_UNIT]
  IN  IF event.kind # KIND_NUTZAP \/ Cardinality(units) > 1 THEN Null
      ELSE IF \E proof \in ToSet(proofs) : proof.amount < 0 THEN Null
      ELSE IF proofs = <<>> THEN NutzapOf(event, proofs, Null)
      ELSE IF total = Null THEN Null
      ELSE IF ExceedsTheBitcoinCeiling(cashu) THEN Null ELSE NutzapOf(event, proofs, cashu)

XCoordinateOf(key) ==
  ParseCompressedKey(key) ?? (IF ToLowerCase(key) \in Pubkeys THEN ToLowerCase(key) ELSE Null)

(* Null without one P2PK key, or with the author's own.                    *)
ParseNutzapInfo(event) ==
  LET p2pkPubkey == SoleValue({XCoordinateOf(key) : key \in ExtractTagValues(event.tags, "pubkey")} \ {Null})
  IN  IF event.kind # KIND_NUTZAP_MINT_RECOMMENDATION \/ p2pkPubkey \in {Null, event.pubkey} THEN Null
      ELSE [pubkey |-> event.pubkey, p2pkPubkey |-> p2pkPubkey,
            mints  |-> ExtractTagValues(event.tags, "mint") \cap WebUrls,
            relays |-> {ParseRelayUrl(url) : url \in ExtractTagValues(event.tags, "relay")} \ {Null}]

VerifyNutzap(nutzap, recipientsInfo) ==
  IF nutzap.recipient # recipientsInfo.pubkey THEN "recipient-mismatch"
  ELSE IF nutzap.mint \notin recipientsInfo.mints THEN "mint-not-listed"
  ELSE IF nutzap.proofs = <<>> THEN "no-proof"
  ELSE IF \E proof \in ToSet(nutzap.proofs) : proof.lockKey # recipientsInfo.p2pkPubkey
       THEN "proof-not-locked-to-recipient"
  ELSE "ok"

(* A keyset as its mint serves it: [id, unit, keys], amount -> key.  A     *)
(* DLEQ proof is the mint key it proves, Null when a field is missing.     *)
HasValidDleq(proof, mintKey) ==
  proof.secret # Null /\ proof.unblindedSignature # Null /\ proof.dleq = mintKey

(* The first keyset with the proof's id.                                   *)
KeysetOf(proof, keysets) ==
  LET named == {i \in DOMAIN keysets : keysets[i].id = proof.keysetId} IN
  IF named = {} THEN Null ELSE keysets[Min(named)]

VerifyNutzapDleq(nutzap, keysets) ==
  LET proofs == ToSet(nutzap.proofs) IN
  IF proofs = {} THEN "no-proof"
  ELSE IF \E proof \in proofs : KeysetOf(proof, keysets) = Null THEN "unknown-keyset"
  ELSE IF \E proof \in proofs : KeysetOf(proof, keysets).unit # nutzap.cashuAmount.unit THEN "unit-mismatch"
  ELSE IF \E proof \in proofs : proof.amount \notin DOMAIN KeysetOf(proof, keysets).keys THEN "no-mint-key"
  ELSE IF \A proof \in proofs : HasValidDleq(proof, KeysetOf(proof, keysets).keys[proof.amount]) THEN "ok"
  ELSE "dleq-invalid"
=============================================================================
