---------------------------- MODULE ContentTags ----------------------------
(***************************************************************************)
(* The tags the content of an event adds to those of its thread:           *)
(* src/domain/service/content-tags.ts.                                     *)
(*                                                                         *)
(* A content is [references, hashtags], each in content order.  A          *)
(* reference is [text, uri, inWebUrl, encoded, names]: the entity as       *)
(* written, Null where its writer's encoder refused; whether nostr: comes  *)
(* before it; whether it stands in a web URL; and, read by no code,        *)
(* whether an encoder of this library wrote it and the entity a reader     *)
(* should take it for, Null for none.                                      *)
(***************************************************************************)
EXTENDS Nip19

(* A text has the prefix of a kind of entity.                              *)
IsContent(content) ==
  /\ IsSequence(content.references) /\ IsSequence(content.hashtags)
  /\ \A reference \in ToSet(content.references) :
       reference.text # Null => reference.text.hrp \in {"npub", "note", "nprofile", "nevent", "naddr"}

(* A bare entity in a web URL is part of the link.                         *)
IsBareInsideAWebUrl(found) == ~found.uri /\ found.inWebUrl

(* The entities of the content that decode, in order.                      *)
ExtractContentReferences(content) ==
  LET found   == content.references
      read    == Among(found, {entity \in ToSet(found) : entity.text # Null /\ ~IsBareInsideAWebUrl(entity)})
      decoded == [i \in DOMAIN read |-> DecodeNostrEntity(read[i].text)]
  IN  Among(decoded, ToSet(decoded) \ {Null})

QuoteTag(target, relays, regularEventPubkey) ==
  LET relay == At(relays, 1) ?? "" IN
  IF regularEventPubkey # Null THEN <<"q", target, relay, regularEventPubkey>>
  ELSE IF relay = "" THEN <<"q", target>> ELSE <<"q", target, relay>>

IsRegularOrUnstated(kind) == IF kind = Null THEN TRUE ELSE KindCategory(kind) = "regular"

ReferenceTags(entity) ==
  CASE entity.type \in {"npub", "nprofile"} -> << <<"p", entity.pubkey>> >>
    [] entity.type = "note"  -> << <<"q", entity.eventId>> >>
    [] entity.type = "naddr" ->
         << <<"p", entity.address.pubkey>>,
            QuoteTag(FormatAddressableRef(entity.address), entity.relays, Null) >>
    [] entity.type = "nevent" ->
         LET author == IF IsRegularOrUnstated(entity.kind) THEN entity.pubkey ELSE Null
             quote  == QuoteTag(entity.eventId, entity.relays, author)
         IN  IF entity.pubkey = Null THEN << quote >> ELSE << <<"p", entity.pubkey>>, quote >>

(* The tags of entities and of the content's hashtags, in order.           *)
MentionsOf(entities, content) ==
  FlattenSeq([i \in DOMAIN entities |-> ReferenceTags(entities[i])])
    \o [i \in DOMAIN content.hashtags |-> <<"t", content.hashtags[i]>>]

(* Every mention of the content.                                           *)
Mentions(content) == MentionsOf(ExtractContentReferences(content), content)

KeepingEarlierHints(earlier, later) ==
  LET slot(tag, i) == At(tag, i) ?? "" IN
  [i \in 1..Max({Len(earlier), Len(later)}) |->
     IF i <= 2 THEN later[i]
     ELSE IF slot(earlier, i) # "" THEN earlier[i] ELSE slot(later, i)]

(* A bug: a repeated mention replaces the earlier one, hints and all.      *)
WithMentionAnew(tags, mention) == Append(RemoveTag(tags, mention[1], mention[2]), mention)

(* A repeated mention moves to where it is last named.                     *)
WithMention(tags, mention) ==
  LET earlier == Among(tags, {tag \in ToSet(tags) : tag[1] = mention[1] /\ tag[2] = mention[2]}) IN
  Append(RemoveTag(tags, mention[1], mention[2]),
         IF earlier = <<>> THEN mention ELSE KeepingEarlierHints(Head(earlier), mention))

(* One tag for each of the mentions.                                       *)
Gathered(mentions) ==
  LET upTo[n \in 0..Len(mentions)] == IF n = 0 THEN <<>> ELSE WithMention(upTo[n - 1], mentions[n])
  IN  upTo[Len(mentions)]

(* What the content mentions and the thread does not tag.                  *)
ContentTagsBeside(threadTags, content) ==
  LET gathered == Gathered(Mentions(content))
  IN  Among(gathered, {tag \in ToSet(gathered) : ~HasTag(threadTags, tag[1], tag[2])})

(* A bug: what the content mentions is written before the thread.          *)
ContentTagsFirst(threadTags, content) ==
  ContentTagsBeside(threadTags, content) \o threadTags

WithContentTags(threadTags, content) ==
  threadTags \o ContentTagsBeside(threadTags, content)
=============================================================================
