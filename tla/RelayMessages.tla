--------------------------- MODULE RelayMessages ---------------------------
(***************************************************************************)
(* What a client writes to a relay and reads from it: client-message.ts,   *)
(* relay-message.ts and parseNostrEvent of event-utils.ts.                 *)
(*                                                                         *)
(* A message is the sequence of the elements of its JSON array.  A client  *)
(* message starts with its verb; an element of a relay message is [is, v], *)
(* a JSON value and its type.  A reason is [prefix, text], prefix Null     *)
(* where no colon ends a first word; an object is a function from its      *)
(* keys.                                                                   *)
(***************************************************************************)
EXTENDS Filters

CONSTANTS SubscriptionIds,  \* the strings isValidSubscriptionId accepts
          Sigs              \* the strings isValidSig accepts

REASON_PREFIXES ==
  {"duplicate", "pow", "blocked", "rate-limited", "invalid", "restricted",
   "mute", "error", "unsupported", "auth-required", "info"}

ParseReasonPrefix(message) == IF message.prefix \in REASON_PREFIXES THEN message.prefix ELSE Null

RejectionReason(message) == ParseReasonPrefix(message) ?? "error"

-----------------------------------------------------------------------------
(* Client messages.  A filter goes out with the keys of FIELD_ORDER alone, *)
(* in that order, its # keys in the caller's.                              *)
InWireOrder(filter) ==
  LET of(field) == Among(filter, Entries(filter, {field})) IN
  of("ids") \o of("authors") \o of("kinds") \o of("#") \o of("since") \o of("until") \o of("limit") \o of("search")

Sendable(filters) == Among(filters, {filter \in ToSet(filters) : CanFilterMatch(filter)})

WireFilters(filters) == [i \in DOMAIN Sendable(filters) |-> InWireOrder(Sendable(filters)[i])]

(* Null is null, for a REQ that is not sent.                               *)
SerialiseReqMessage(subId, filters) ==
  IF Sendable(filters) = <<>> THEN Null ELSE <<"REQ", subId, WireFilters(filters)>>

NIP01_FIELDS == {"id", "pubkey", "created_at", "kind", "tags", "content", "sig"}

Nip01Event(event) == [field \in NIP01_FIELDS |-> event[field]]

SerialiseEventMessage(event) == <<"EVENT", Nip01Event(event)>>
SerialiseAuthMessage(event)  == <<"AUTH", Nip01Event(event)>>
SerialiseCloseMessage(subId) == <<"CLOSE", subId>>

-----------------------------------------------------------------------------
(* Relay messages.                                                         *)
Json(is, v) == [is |-> is, v |-> v]
Undefined   == Json("undefined", Null)

ElementAt(fields, slot) == IF slot <= Len(fields) THEN fields[slot] ELSE Undefined

IsString(element)              == element.is = "string"
IsValidSubscriptionId(element) == IsString(element) /\ element.v \in SubscriptionIds
IsValidEventId(element)        == IsString(element) /\ element.v \in EventIds
IsReason(element)              == element.is = "reason"

(* The seven fields of a well-formed event, or Null.                       *)
ParseNostrEvent(element) ==
  IF /\ element.is = "object"
     /\ NIP01_FIELDS \subseteq DOMAIN element.v
     /\ element.v.id \in EventIds /\ element.v.pubkey \in Pubkeys /\ element.v.sig \in Sigs
     /\ IsValidKind(element.v.kind) /\ element.v.created_at \in Nat
  THEN Nip01Event(element.v) ELSE Null

EoseHintsOf(element) ==
  IF element.is = "array" /\ \A hint \in ToSet(element.v) : IsString(hint)
  THEN {hint.v : hint \in ToSet(element.v)} ELSE {}

EoseHasHint(eose, hint) == hint \in eose.hints

(* A key whose value is null counts as one that is missing.                *)
Approximate(payload) ==
  IF "approximate" \in DOMAIN payload.v THEN payload.v.approximate ?? FALSE ELSE FALSE

ParseCount(subId, payload) ==
  IF /\ IsValidSubscriptionId(subId) /\ payload.is = "object" /\ "count" \in DOMAIN payload.v
     /\ payload.v.count \in Nat /\ Approximate(payload) \in BOOLEAN
  THEN [type |-> "COUNT", subscriptionId |-> subId.v, count |-> payload.v.count,
        approximate |-> Approximate(payload)]
  ELSE Null

(* Elements after those a type defines are ignored.                        *)
ParseRelayMessage(fields) ==
  LET verb == ElementAt(fields, 1).v
      a == ElementAt(fields, 2)
      b == ElementAt(fields, 3)
      c == ElementAt(fields, 4)
  IN  CASE verb = "EVENT" /\ IsValidSubscriptionId(a) /\ ParseNostrEvent(b) # Null ->
             [type |-> "EVENT", subscriptionId |-> a.v, event |-> ParseNostrEvent(b)]
        [] verb = "EOSE" /\ IsValidSubscriptionId(a) ->
             [type |-> "EOSE", subscriptionId |-> a.v, hints |-> EoseHintsOf(b)]
        [] verb = "OK" /\ IsValidEventId(a) /\ b.is = "boolean" /\ IsReason(c) ->
             [type |-> "OK", eventId |-> a.v, accepted |-> b.v,
              reason |-> IF b.v THEN ParseReasonPrefix(c.v) ELSE RejectionReason(c.v)]
        [] verb = "CLOSED" /\ IsValidSubscriptionId(a) /\ IsReason(b) ->
             [type |-> "CLOSED", subscriptionId |-> a.v, reason |-> RejectionReason(b.v)]
        [] verb = "NOTICE" /\ IsString(a) /\ a.v # "" -> [type |-> "NOTICE", message |-> a.v]
        [] verb = "AUTH" /\ IsString(a) /\ a.v # "" -> [type |-> "AUTH", challenge |-> a.v]
        [] verb = "COUNT" -> ParseCount(a, b)
        [] OTHER -> Null
=============================================================================
