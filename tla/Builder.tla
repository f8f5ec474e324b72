------------------------------- MODULE Builder -------------------------------
(***************************************************************************)
(* The event builders of src/domain/service/builder.ts.  A builder returns *)
(* the [kind, tags, content] of an event, or Null for the call that throws *)
(* InvalidArgumentError; the clock is left out.  The content of a repost   *)
(* is the event its JSON writes, in a sequence that is empty when there is *)
(* none; the content of a note is the [references, hashtags] of            *)
(* ContentTags; any other is a text.                                       *)
(***************************************************************************)
EXTENDS EventMetadata, ContentTags

KIND_METADATA                  == 0
KIND_EVENT_DELETION            == 5
KIND_PRIVATE_MESSAGE           == 14
KIND_RELAY_LIST                == 10002
KIND_CLIENT_AUTH               == 22242
KIND_LONGFORM_CONTENT_DRAFT    == 30024
KIND_APPLICATION_SPECIFIC_DATA == 30078
KIND_DRAFT_WRAP                == 31234

Template(kind, tags, content) == [kind |-> kind, tags |-> tags, content |-> content]

(* The tag of an optional field, or no tag.                                *)
TagOf(name, value) == IF value = Null THEN <<>> ELSE << <<name, value>> >>

IsNonNegativeInteger(n) == n \in Nat

BuildTextNote(content) == Template(KIND_TEXT_NOTE, WithContentTags(<<>>, content), content)

CoordinateOf(event) ==
  LET ref == ReplyTargetRef(event) IN
  IF ref.type = "address" THEN FormatAddressableRef(ref.address) ELSE Null

(* A reaction or a zap request names only an addressable target so.        *)
AddressableCoordinateOf(event) ==
  IF KindCategory(event.kind) = "addressable" THEN CoordinateOf(event) ELSE Null

IsProtected(event) == Tagged(event.tags, "-") # <<>>

BuildRepost(target, relay) ==
  LET isNote     == target.kind = KIND_TEXT_NOTE
      coordinate == CoordinateOf(target)
  IN  Template(IF isNote THEN KIND_REPOST ELSE KIND_GENERIC_REPOST,
               << <<"e", target.id, relay>>, <<"p", target.pubkey>> >>
                 \o (IF isNote THEN <<>> ELSE << <<"k", DecimalText[target.kind]>> >>)
                 \o (IF coordinate = Null THEN <<>> ELSE << <<"a", coordinate, relay>> >>),
               IF IsProtected(target) THEN <<>> ELSE << target >>)

BuildReaction(target, reaction, relay) ==
  LET hint       == relay ?? ""
      coordinate == AddressableCoordinateOf(target)
  IN  Template(KIND_REACTION,
               << <<"e", target.id, hint, target.pubkey>>,
                  IF hint = "" THEN <<"p", target.pubkey>> ELSE <<"p", target.pubkey, hint>>,
                  <<"k", DecimalText[target.kind]>> >>
                 \o (IF coordinate = Null THEN <<>> ELSE << <<"a", coordinate, hint, target.pubkey>> >>),
               reaction)

(* Only an own event that is no deletion request itself is deleted.        *)
BuildDeletion(author, target) ==
  IF target.pubkey # author \/ target.kind = KIND_EVENT_DELETION THEN Null
  ELSE Template(KIND_EVENT_DELETION,
                << <<"e", target.id>> >> \o TagOf("a", CoordinateOf(target))
                  \o << <<"k", DecimalText[target.kind]>> >>, "")

BuildClientAuth(relay, challenge) ==
  Template(KIND_CLIENT_AUTH, << <<"relay", relay>>, <<"challenge", challenge>> >>, "")

BuildHighlightFromUrl(text, sourceUrl, comment) ==
  Template(KIND_HIGHLIGHT, << <<"r", sourceUrl, "source">> >> \o TagOf("comment", comment), text)

(* A bug: a replaceable source is named by its id alone.                   *)
BuildHighlightOfVersion(text, source) ==
  Template(KIND_HIGHLIGHT,
           TagOf("a", AddressableCoordinateOf(source)) \o << <<"e", source.id>>, <<"p", source.pubkey>> >>,
           text)

BuildHighlightFromEvent(text, source) ==
  Template(KIND_HIGHLIGHT,
           TagOf("a", CoordinateOf(source)) \o << <<"e", source.id>>, <<"p", source.pubkey>> >>, text)

(* The input is [recipientPubkey, relayUrls, amountMillisats, target,      *)
(* lnurl, comment], Null for what is left out.                             *)
BuildZapRequest(input) ==
  IF input.amountMillisats \notin Nat \ {0} THEN Null
  ELSE LET target == input.target IN
       Template(KIND_ZAP_REQUEST,
                << <<"relays">> \o input.relayUrls, <<"amount", DecimalText[input.amountMillisats]>> >>
                  \o TagOf("lnurl", input.lnurl) \o << <<"p", input.recipientPubkey>> >>
                  \o (IF target = Null THEN <<>>
                      ELSE << <<"e", target.id>>, <<"k", DecimalText[target.kind]>> >>
                             \o TagOf("a", AddressableCoordinateOf(target))),
                input.comment ?? "")

(* The topics as they are first named, normalised, each once.              *)
TopicTags(topics) ==
  LET normalised == [i \in DOMAIN topics |-> NormaliseHashtag(topics[i])]
      first      == {i \in DOMAIN topics : \A j \in 1..(i - 1) : normalised[j] # normalised[i]}
      named      == Among([i \in DOMAIN topics |-> i], {i \in first : normalised[i] # Null})
  IN  [i \in DOMAIN named |-> <<"t", normalised[named[i]]>>]

BuildLongform(input) ==
  IF input.publishedAt # Null /\ ~IsNonNegativeInteger(input.publishedAt) THEN Null
  ELSE Template(input.kind,
                << <<"d", input.dTag>> >> \o TagOf("title", input.title)
                  \o TagOf("summary", input.summary) \o TagOf("image", input.image)
                  \o (IF input.publishedAt = Null THEN <<>>
                      ELSE << <<"published_at", DecimalText[input.publishedAt]>> >>)
                  \o TopicTags(input.topics),
                input.content)

BuildDraftWrap(input) ==
  IF ~IsNonNegativeInteger(input.draftKind) THEN Null
  ELSE Template(KIND_DRAFT_WRAP,
                << <<"d", input.dTag>>, <<"k", DecimalText[input.draftKind]>> >>, input.content)

(* Metadata is [json, isObject]: the text it serialises to.                *)
BuildMetadata(metadata) ==
  IF metadata.isObject THEN Template(KIND_METADATA, <<>>, metadata.json) ELSE Null

BuildRelayList(tags, content) == Template(KIND_RELAY_LIST, tags, content)

BuildAppSettings(dTag, content) ==
  Template(KIND_APPLICATION_SPECIFIC_DATA, << <<"d", dTag>> >>, content)

-----------------------------------------------------------------------------
(* A room is [sender, receivers], the receivers as the caller lists them.  *)
(* A room of the sender alone is a note to self.                           *)
RoomTags(room) ==
  LET others == SetToSeq(ToSet(room.receivers) \ {room.sender}) IN
  IF others = <<>> THEN << <<"p", room.sender>> >> ELSE [i \in DOMAIN others |-> <<"p", others[i]>>]

Rumour(pubkey, kind, tags, content) == [pubkey |-> pubkey, kind |-> kind, tags |-> tags, content |-> content]

BuildPrivateMessage(room, content, replyTo) ==
  Rumour(room.sender, KIND_PRIVATE_MESSAGE,
         RoomTags(room) \o (IF replyTo = Null THEN <<>> ELSE << <<"e", replyTo.id>> >>), content)

(* The author of the target is tagged last, when the room has them.        *)
BuildPrivateReaction(room, target, reaction) ==
  IF target.pubkey \notin {room.sender} \cup ToSet(room.receivers) THEN Null
  ELSE Rumour(room.sender, KIND_REACTION,
              << <<"e", target.id, "", target.pubkey>> >>
                \o RemoveTag(RoomTags(room), "p", target.pubkey)
                \o << <<"p", target.pubkey>>, <<"k", DecimalText[target.kind]>> >>, reaction)

(* chatRoomMembers: who reads the rumour, its author included.             *)
ChatRoomMembers(rumour) == {rumour.pubkey} \cup ExtractPubkeys(rumour.tags)
=============================================================================
