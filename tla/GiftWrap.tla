------------------------------ MODULE GiftWrap ------------------------------
(***************************************************************************)
(* NIP-17 gift wraps (src/application/service/dm-crypto.ts):               *)
(* buildDmGiftWraps, which seals and wraps one rumour to every member of   *)
(* its chat room concurrently, and unwrapGiftWrap, which opens a wrap from *)
(* whatever program made it.                                               *)
(*                                                                         *)
(* The NIP-44 cipher is external: a payload is [between, text], the two    *)
(* keys it was encrypted between and the plaintext, and only a holder of   *)
(* one of them who names the other reads it.  A layer is what its parser   *)
(* sees of it.  Every call of a signer is a state: it answers, it fails,   *)
(* or its promise rejects.                                                 *)
(***************************************************************************)
EXTENDS Naturals, FiniteSets

CONSTANTS Pubkeys,        \* keys of people, as numbers: hex order is number order
          Ephemerals,     \* throwaway keys, numbers as well
          SignerFailures, \* types of SignerFailure
          NotJson,        \* a plaintext that is no JSON
          Rumours,        \* rumours: [pubkey, p, fits]
          SignerKeys,     \* keys the sender's signer may hold
          ForeignWraps    \* events other programs published

ASSUME PubkeysAssumption == Pubkeys \subseteq Nat
ASSUME EphemeralsAssumption == Ephemerals \cap Pubkeys = {}
ASSUME RumoursAssumption == Rumours \subseteq [pubkey : Pubkeys, p : SUBSET Pubkeys, fits : BOOLEAN]
ASSUME SignerKeysAssumption == SignerKeys \subseteq Pubkeys
ASSUME SignerFailuresAssumption ==
  {"pubkey-mismatch", "encrypt-failed"} \subseteq SignerFailures

KIND_SEAL == 13
KIND_GIFT_WRAP == 1059
KIND_EPHEMERAL_GIFT_WRAP == 21059

VARIABLES call,      \* the buildDmGiftWraps call: its stage, rumour and signer
          parts,     \* parts[m]: how far the wrap to member m has come
          answer,    \* what the call resolved to
          network,   \* the wraps that were published
          read       \* the last rumour a reader unwrapped, and its sender

vars == <<call, parts, answer, network, read>>

-----------------------------------------------------------------------------
(* The plaintext of a rumour, as parseRumour reads it: its fields, whether *)
(* they are well formed, and what it states as its id and signature.       *)
RumourJson(rumour) ==
  [rumour |-> rumour, wellFormed |-> TRUE, id |-> "computed", sig |-> "none"]

Payload(a, b, text) == [between |-> {a, b}, text |-> text]

(* createJsonCipher(cipher).decrypt: up tells whether the cipher answers.  *)
Decrypts(reader, peer, payload, up) == up /\ payload.between = {reader, peer}

ChatRoomMembers(rumour) == {rumour.pubkey} \cup rumour.p

Seal(rumour, signer, target) ==
  [kind |-> KIND_SEAL, pubkey |-> signer, tags |-> {}, wellFormed |-> TRUE,
   genuine |-> TRUE, content |-> Payload(signer, target, RumourJson(rumour))]

GiftWrap(rumour, signer, target, key) ==
  [kind |-> KIND_GIFT_WRAP, pubkey |-> key, p |-> target, genuine |-> TRUE,
   content |-> Payload(key, target, Seal(rumour, signer, target))]

ASSUME NotJsonAssumption ==
  \A r \in Rumours, a, b \in Pubkeys : NotJson # RumourJson(r) /\ NotJson # Seal(r, a, b)

-----------------------------------------------------------------------------
(* unwrapGiftWrap, check by check: a failure names the first that failed.  *)
Failed(why) == [success |-> FALSE, why |-> why]
Opened(rumour, sender) == [success |-> TRUE, rumour |-> rumour, sender |-> sender]

(* A bug: the rumour's author is taken for the sender without a look.      *)
ReadRumourUnmatched(json, seal) ==
  IF json = NotJson THEN Failed("rumour-malformed")
  ELSE IF json.sig = "present" THEN Failed("rumour-signed")
  ELSE IF ~json.wellFormed \/ json.id = "absent" THEN Failed("rumour-malformed")
  ELSE IF json.id = "other" THEN Failed("rumour-id-mismatch")
  ELSE Opened(json.rumour, json.rumour.pubkey)

ReadRumour(json, seal) ==
  IF json = NotJson THEN Failed("rumour-malformed")
  ELSE IF json.sig = "present" THEN Failed("rumour-signed")
  ELSE IF ~json.wellFormed \/ json.id = "absent" THEN Failed("rumour-malformed")
  ELSE IF json.id = "other" THEN Failed("rumour-id-mismatch")
  ELSE IF json.rumour.pubkey # seal.pubkey THEN Failed("rumour-pubkey-mismatch")
  ELSE Opened(json.rumour, seal.pubkey)

ReadSeal(reader, seal, up) ==
  IF seal = NotJson \/ ~seal.wellFormed \/ ~(seal.tags \subseteq {"expiration"})
  THEN Failed("seal-malformed")
  ELSE IF seal.kind # KIND_SEAL THEN Failed("seal-wrong-kind")
  ELSE IF ~seal.genuine THEN Failed("seal-signature-invalid")
  ELSE IF ~Decrypts(reader, seal.pubkey, seal.content, up)
  THEN Failed("rumour-decrypt-failed")
  ELSE ReadRumour(seal.content.text, seal)

UnwrapGiftWrap(reader, wrap, sealUp, rumourUp) ==
  IF wrap.kind \notin {KIND_GIFT_WRAP, KIND_EPHEMERAL_GIFT_WRAP}
  THEN Failed("not-gift-wrap")
  ELSE IF ~wrap.genuine THEN Failed("wrap-signature-invalid")
  ELSE IF ~Decrypts(reader, wrap.pubkey, wrap.content, sealUp)
  THEN Failed("seal-decrypt-failed")
  ELSE ReadSeal(reader, wrap.content.text, rumourUp)

-----------------------------------------------------------------------------
NoCall   == [stage |-> "none"]
NoPart   == [at |-> "none"]
NoAnswer == [type |-> "none"]
NoReading == [reader |-> "none"]

Calls  == [stage : {"key", "wrapping", "settled"}, rumour : Rumours, signer : SignerKeys]
Parts  == {NoPart} \cup [at : {"sealing", "signingSeal", "rejected"}]
          \cup [at : {"wrapping", "signingWrap", "done"}, key : Ephemerals]
          \cup [at : {"failed"}, why : SignerFailures]

Members == ChatRoomMembers(call.rumour)

Wraps(members) ==
  [members -> {GiftWrap(call.rumour, call.signer, m, key) : m \in members, key \in Ephemerals}]

TypeOK ==
  /\ call \in {NoCall} \cup Calls
  /\ parts \in [Pubkeys -> Parts]
  /\ \/ answer = NoAnswer \/ answer = [type |-> "thrown"]
     \/ \E why \in SignerFailures : answer = [type |-> "failed", why |-> why]
     \/ call # NoCall /\ \E wraps \in Wraps(Members) : answer = [type |-> "ok", wraps |-> wraps]
  /\ read = NoReading \/ (read.reader \in Pubkeys /\ read.wrap \in network)

Init ==
  /\ call = NoCall
  /\ parts = [m \in Pubkeys |-> NoPart]
  /\ answer = NoAnswer
  /\ network = ForeignWraps
  /\ read = NoReading

(* buildDmGiftWraps asks the signer for its key.                           *)
BuildDmGiftWraps(rumour, signer) ==
  /\ call = NoCall
  /\ call' = [stage |-> "key", rumour |-> rumour, signer |-> signer]
  /\ UNCHANGED <<parts, answer, network, read>>

Refuse(why) ==
  /\ call' = [call EXCEPT !.stage = "settled"]
  /\ answer' = [type |-> "failed", why |-> why]
  /\ UNCHANGED <<parts, network, read>>

KeyFails == call.stage = "key" /\ \E why \in SignerFailures : Refuse(why)

KeyRejects ==
  /\ call.stage = "key"
  /\ call' = [call EXCEPT !.stage = "settled"]
  /\ answer' = [type |-> "thrown"]
  /\ UNCHANGED <<parts, network, read>>

(* A bug: the rumour is sealed whoever its author is.                      *)
KeyArrivesUnmatched ==
  /\ call.stage = "key"
  /\ call' = [call EXCEPT !.stage = "wrapping"]
  /\ parts' = [m \in Pubkeys |-> IF m \in Members THEN [at |-> "sealing"] ELSE NoPart]
  /\ UNCHANGED <<answer, network, read>>

(* The key arrives: a signer of another key, or a rumour too large for a   *)
(* seal, ends the call before anything is encrypted; otherwise every wrap  *)
(* starts at once.                                                         *)
KeyArrives ==
  /\ call.stage = "key"
  /\ \/ call.signer # call.rumour.pubkey /\ Refuse("pubkey-mismatch")
     \/ call.signer = call.rumour.pubkey /\ ~call.rumour.fits /\ Refuse("encrypt-failed")
     \/ /\ call.signer = call.rumour.pubkey /\ call.rumour.fits
        /\ call' = [call EXCEPT !.stage = "wrapping"]
        /\ parts' = [m \in Pubkeys |-> IF m \in Members THEN [at |-> "sealing"] ELSE NoPart]
        /\ UNCHANGED <<answer, network, read>>

MovePart(m, part) ==
  /\ parts' = [parts EXCEPT ![m] = part]
  /\ UNCHANGED <<call, answer, network, read>>

(* buildGiftWrapFor, await by await: the rumour is sealed to m, the seal   *)
(* is signed, a throwaway signer is made and encrypts it, and signs.       *)
SealRumour(m) == parts[m].at = "sealing" /\ MovePart(m, [at |-> "signingSeal"])

UsedKeys == {parts[m].key : m \in {n \in Pubkeys : parts[n].at \in {"wrapping", "signingWrap", "done"}}}

SignSeal(m) ==
  /\ parts[m].at = "signingSeal"
  /\ \E key \in Ephemerals \ UsedKeys : MovePart(m, [at |-> "wrapping", key |-> key])

WrapSeal(m) ==
  parts[m].at = "wrapping" /\ MovePart(m, [at |-> "signingWrap", key |-> parts[m].key])

SignWrap(m) ==
  parts[m].at = "signingWrap" /\ MovePart(m, [at |-> "done", key |-> parts[m].key])

Pending == {"sealing", "signingSeal", "wrapping", "signingWrap"}

(* Any of the four calls gives a SignerFailure, or its promise rejects.    *)
PartFails(m) ==
  /\ parts[m].at \in Pending
  /\ \E why \in SignerFailures : MovePart(m, [at |-> "failed", why |-> why])

PartRejects(m) == parts[m].at \in Pending /\ MovePart(m, [at |-> "rejected"])

PartStep(m) ==
  \/ SealRumour(m) \/ SignSeal(m) \/ WrapSeal(m) \/ SignWrap(m)
  \/ PartFails(m) \/ PartRejects(m)

(* Promise.all rejects with the first rejection, while the other wraps go  *)
(* on; without one, it waits for all of them.                              *)
Throw ==
  /\ call.stage = "wrapping" /\ \E m \in Members : parts[m].at = "rejected"
  /\ call' = [call EXCEPT !.stage = "settled"]
  /\ answer' = [type |-> "thrown"]
  /\ UNCHANGED <<parts, network, read>>

(* wraps.find(isFailure), in the order of the members.                     *)
FailedMembers == {m \in Members : parts[m].at = "failed"}
FirstFailed   == CHOOSE m \in FailedMembers : \A n \in FailedMembers : m <= n

(* A bug: the wraps that were made are returned without the others.        *)
SettleWithWhatIsDone ==
  /\ call.stage = "wrapping"
  /\ \A m \in Members : parts[m].at \in {"done", "failed"}
  /\ call' = [call EXCEPT !.stage = "settled"]
  /\ answer' = [type |-> "ok",
                wraps |-> [m \in Members \ FailedMembers |->
                             GiftWrap(call.rumour, call.signer, m, parts[m].key)]]
  /\ UNCHANGED <<parts, network, read>>

(* A bug: a failed wrap is waited for as if it could still be made.        *)
SettleWhenAllAreDone ==
  /\ call.stage = "wrapping"
  /\ \A m \in Members : parts[m].at = "done"
  /\ call' = [call EXCEPT !.stage = "settled"]
  /\ answer' = [type |-> "ok",
                wraps |-> [m \in Members |-> GiftWrap(call.rumour, call.signer, m, parts[m].key)]]
  /\ UNCHANGED <<parts, network, read>>

Settle ==
  /\ call.stage = "wrapping"
  /\ \A m \in Members : parts[m].at \in {"done", "failed"}
  /\ call' = [call EXCEPT !.stage = "settled"]
  /\ answer' = IF FailedMembers # {}
               THEN [type |-> "failed", why |-> parts[FirstFailed].why]
               ELSE [type |-> "ok",
                     wraps |-> [m \in Members |-> GiftWrap(call.rumour, call.signer, m, parts[m].key)]]
  /\ UNCHANGED <<parts, network, read>>

(* The host publishes the wraps it was given, each in its own time.        *)
Publish(m) ==
  /\ answer.type = "ok" /\ m \in Members /\ answer.wraps[m] \notin network
  /\ network' = network \cup {answer.wraps[m]}
  /\ UNCHANGED <<call, parts, answer, read>>

(* A reader unwraps a published wrap; its cipher may fail either decryption.*)
Unwrap(reader, wrap, sealUp, rumourUp) ==
  LET result == UnwrapGiftWrap(reader, wrap, sealUp, rumourUp) IN
  /\ read' = IF result.success
             THEN [reader |-> reader, wrap |-> wrap,
                   rumour |-> result.rumour, sender |-> result.sender]
             ELSE read
  /\ UNCHANGED <<call, parts, answer, network>>

BuildNext ==
  \/ \E rumour \in Rumours, signer \in SignerKeys : BuildDmGiftWraps(rumour, signer)
  \/ KeyFails \/ KeyRejects \/ KeyArrives
  \/ \E m \in Pubkeys : PartStep(m)
  \/ Throw \/ Settle

Next ==
  \/ BuildNext
  \/ \E m \in Pubkeys : Publish(m)
  \/ \E reader \in Pubkeys, wrap \in network, sealUp, rumourUp \in BOOLEAN :
       Unwrap(reader, wrap, sealUp, rumourUp)

Spec == Init /\ [][Next]_vars

(* Signers answer, fail or reject every call, and the job queue runs.      *)
FairSpec ==
  /\ Spec /\ WF_vars(KeyArrives \/ KeyFails \/ KeyRejects) /\ WF_vars(Throw \/ Settle)
  /\ \A m \in Pubkeys : WF_vars(PartStep(m))

-----------------------------------------------------------------------------
(* What a call wraps, its room opens and nobody else: each member, in      *)
(* whatever order the wraps were made, unwraps its own wrap to the rumour  *)
(* and its author, and no other wrap (ADR-0030, ADR-0031).                 *)
RoomReadsItsWraps ==
  answer.type = "ok" =>
    \A m \in Members, reader \in Pubkeys :
      UnwrapGiftWrap(reader, answer.wraps[m], TRUE, TRUE) =
        IF reader = m THEN Opened(call.rumour, call.rumour.pubkey)
        ELSE Failed("seal-decrypt-failed")

(* A call answers with a wrap per member or with none, and which failure   *)
(* it reports does not depend on which signer call failed first.           *)
AllOrNothing ==
  /\ answer.type = "ok" => \A m \in Pubkeys : parts[m].at = "done" <=> m \in Members
  /\ answer.type = "failed" /\ (\E m \in Pubkeys : parts[m] # NoPart) =>
       \E m \in Members :
         /\ parts[m].at = "failed" /\ parts[m].why = answer.why
         /\ \A n \in Members : n < m => parts[n].at = "done"

(* The sender of an unwrapped rumour is its author, and signed the seal it *)
(* came in, whatever program made the wrap.                                *)
SenderSignedForIt ==
  read # NoReading =>
    LET seal == read.wrap.content.text
        json == seal.content.text IN
    /\ read.wrap.genuine /\ read.wrap.content.between = {read.reader, read.wrap.pubkey}
    /\ seal.genuine /\ seal.pubkey = read.sender
    /\ seal.content.between = {read.reader, read.sender}
    /\ json.rumour = read.rumour /\ json.rumour.pubkey = read.sender /\ json.sig # "present"

(* A call is answered once its signers are.                                *)
EveryCallIsAnswered == call.stage = "key" ~> answer # NoAnswer
=============================================================================
