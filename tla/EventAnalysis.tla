--------------------------- MODULE EventAnalysis ---------------------------
(***************************************************************************)
(* The reply chain analyseEvent reads from the tags of an event, the way   *)
(* its kind threads: src/domain/service/event-analysis.ts.                 *)
(***************************************************************************)
EXTENDS Tags

ASSUME AddressKindsAssumption ==
  \A text \in DOMAIN Addresses :
    IsValidAddressableRef(Addresses[text].kind, Addresses[text].dTag) /\ Addresses[text].pubkey \in Pubkeys

KIND_TEXT_NOTE             == 1
KIND_CHAT_MESSAGE          == 9
KIND_CHANNEL_MESSAGE       == 42
KIND_COMMENT               == 1111
KIND_VOICE_MESSAGE_COMMENT == 1244
KIND_LIVE_CHAT_MESSAGE     == 1311

COMMENT_KINDS == {KIND_COMMENT, KIND_VOICE_MESSAGE_COMMENT}

ThreadsAsComment(kind) == kind \in COMMENT_KINDS

CoordinateIdentifier(event) ==
  CASE KindCategory(event.kind) = "replaceable" -> ""
    [] KindCategory(event.kind) = "addressable" ->
         GetDTag([d |-> ExtractTagValues(event.tags, "d")])
    [] OTHER -> Null

(* What a reply to the event points at: its coordinate, or else its id.    *)
ReplyTargetRef(event) ==
  LET dTag == CoordinateIdentifier(event) IN
  IF dTag = Null THEN EventRef(event.id)
  ELSE AddressRef([kind |-> event.kind, pubkey |-> event.pubkey, dTag |-> dTag])

-----------------------------------------------------------------------------
SoleRefTagged(tags, name) == SoleRef(Tagged(tags, name))

SoleNonEmptyValue(tags, name) ==
  LET value == SoleTagValue(tags, name) IN IF value = "" THEN Null ELSE value

SoleWebUrlHint(tags, idTag) ==
  SoleValue({ParseWebUrl(At(tag, 3)) : tag \in ToSet(Tagged(tags, idTag))} \ {Null})

ExternalContent(tags, idTag, kindTag) ==
  LET id   == SoleNonEmptyValue(tags, idTag)
      kind == SoleNonEmptyValue(tags, kindTag)
  IN  IF Null \in {id, kind} THEN Null
      ELSE [type |-> "external", id |-> id, kind |-> kind, hint |-> SoleWebUrlHint(tags, idTag)]

CommentPointers(tags) ==
  [root    |-> (SoleRefTagged(tags, "A") ?? SoleRefTagged(tags, "E")) ?? ExternalContent(tags, "I", "K"),
   replyTo |-> (SoleRefTagged(tags, "a") ?? SoleRefTagged(tags, "e")) ?? ExternalContent(tags, "i", "k")]

-----------------------------------------------------------------------------
(* The first of the tags, when all of them point at one event.             *)
SoleTag(tags) == IF SoleRef(tags) = Null THEN Null ELSE Head(tags)

EventTagsOf(tags) == Among(tags, {tag \in ToSet(tags) : At(tag, 1) = "e" /\ RefFromTag(tag) # Null})

MarkedThreadTags(eTags) ==
  LET marked(marker) == Among(eTags, {tag \in ToSet(eTags) : Nip10Marker(tag) = marker})
  IN  [root |-> SoleTag(marked("root")), parent |-> SoleTag(marked("reply"))]

(* NIP-10: by marker when any tag has one, else by position.               *)
ShortNoteThreadTags(tags) ==
  LET eTags == EventTagsOf(tags) IN
  IF \E tag \in ToSet(eTags) : Nip10Marker(tag) # Null THEN MarkedThreadTags(eTags)
  ELSE [root   |-> IF Len(eTags) > 1 THEN Head(eTags) ELSE Null,
        parent |-> IF eTags = <<>> THEN Null ELSE Last(eTags)]

(* NIP-28: by marker alone; the root is the channel.                       *)
ChannelMessageThreadTags(tags) == MarkedThreadTags(EventTagsOf(tags))

PointersOf(threadTags) ==
  LET refOf(tag) == IF tag = Null THEN Null ELSE RefFromTag(tag)
  IN  [root |-> refOf(threadTags.root), replyTo |-> refOf(threadTags.parent)]

LiveChatPointers(tags) == [root |-> Null, replyTo |-> SoleRefTagged(tags, "e")]

(* The first q tag that names an event id is the message answered.         *)
ChatPointers(tags) ==
  LET quoted == Among(tags, {tag \in ToSet(tags) : At(tag, 1) = "q" /\ At(tag, 2) \in EventIds})
  IN  [root |-> Null, replyTo |-> IF quoted = <<>> THEN Null ELSE EventRef(Head(quoted)[2])]

Pointers(event) ==
  CASE event.kind = KIND_CHAT_MESSAGE      -> ChatPointers(event.tags)
    [] event.kind = KIND_CHANNEL_MESSAGE   -> PointersOf(ChannelMessageThreadTags(event.tags))
    [] event.kind = KIND_LIVE_CHAT_MESSAGE -> LiveChatPointers(event.tags)
    [] ThreadsAsComment(event.kind)        -> CommentPointers(event.tags)
    [] OTHER                               -> PointersOf(ShortNoteThreadTags(event.tags))

ThreadingKinds ==
  COMMENT_KINDS \cup {KIND_TEXT_NOTE, KIND_CHAT_MESSAGE, KIND_CHANNEL_MESSAGE, KIND_LIVE_CHAT_MESSAGE}

(* buildRefs: a channel message in a channel, answering nothing, is no     *)
(* reply, and nor is an event of a kind that does not thread.              *)
Refs(event) ==
  LET pointers == Pointers(event) IN
  [root    |-> pointers.root,
   replyTo |-> pointers.replyTo,
   isReply |-> /\ event.kind \in ThreadingKinds
               /\ \/ pointers.replyTo # Null
                  \/ event.kind # KIND_CHANNEL_MESSAGE /\ pointers.root # Null]
=============================================================================
