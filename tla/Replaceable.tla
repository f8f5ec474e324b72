---------------------------- MODULE Replaceable ----------------------------
(***************************************************************************)
(* Replaceable and addressable events: the key they compete for and the    *)
(* precedence that decides (src/domain/service/replaceable.ts, with        *)
(* kindCategory, soleTagValue and isValidAddressableRef).                  *)
(*                                                                         *)
(* The tags of an event are [d, entries]: the set of values its d tags     *)
(* carry, and its other tags, in order, as one value.  An id is a number:  *)
(* ids are hex strings of one length, compared lexicographically.          *)
(***************************************************************************)
EXTENDS Naturals

CONSTANTS NoIdentifier,  \* getDTag's null
          NoKey          \* replaceableStorageKey's null

IsValidKind(kind) == kind \in 0..65535

KindCategory(kind) ==
  IF kind \in {0, 3} \/ kind \in 10000..19999 THEN "replaceable"
  ELSE IF kind \in 20000..29999 THEN "ephemeral"
  ELSE IF kind \in 30000..39999 THEN "addressable"
  ELSE "regular"

IsValidAddressableRef(kind, dTag) ==
  \/ KindCategory(kind) = "addressable"
  \/ KindCategory(kind) = "replaceable" /\ dTag = ""

(* soleTagValue: what the values of one tag name agree on.                 *)
SoleTagState(values) ==
  IF values = {} THEN "absent"
  ELSE IF \E v \in values : values = {v} THEN "one" ELSE "disagreeing"

GetDTag(tags) ==
  CASE SoleTagState(tags.d) = "absent"      -> ""
    [] SoleTagState(tags.d) = "one"         -> CHOOSE v \in tags.d : TRUE
    [] SoleTagState(tags.d) = "disagreeing" -> NoIdentifier

ReplaceableStorageKey(event) ==
  CASE KindCategory(event.kind) = "addressable" ->
         IF GetDTag(event.tags) = NoIdentifier THEN NoKey
         ELSE <<event.pubkey, event.kind, GetDTag(event.tags)>>
    [] KindCategory(event.kind) = "replaceable" -> <<event.pubkey, event.kind>>
    [] OTHER -> NoKey

(* Bugs: an event of the same second replaces the one that is held, and no *)
(* event of the same second does.                                          *)
LatestArrivalSupersedes(candidate, existing) ==
  candidate.created_at >= existing.created_at
NewerByIdSupersedes(candidate, existing) == candidate.id < existing.id

ReplaceableSupersedes(candidate, existing) ==
  \/ candidate.created_at > existing.created_at
  \/ candidate.created_at = existing.created_at /\ candidate.id < existing.id

(* What a store keyed by ReplaceableStorageKey holds after an event: a     *)
(* store is the host's, and holds kept, one event per key.                 *)
Keep(kept, event) ==
  LET key    == ReplaceableStorageKey(event)
      rivals == {held \in kept : ReplaceableStorageKey(held) = key}
  IN  IF key # NoKey /\ \A held \in rivals : ReplaceableSupersedes(event, held)
      THEN (kept \ rivals) \cup {event} ELSE kept
=============================================================================
