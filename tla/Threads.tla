------------------------------ MODULE Threads ------------------------------
(***************************************************************************)
(* Threads of replies: buildReply (src/domain/service/reply.ts) called on  *)
(* what it built before, and on what other programs wrote, each event read *)
(* back as EventAnalysis reads it.                                         *)
(*                                                                         *)
(* The thread is one path down a reply tree: its first entry is any event, *)
(* or external content, and every later one answers the entry before it.   *)
(* An entry keeps who wrote its event and the content it was built from.   *)
(***************************************************************************)
EXTENDS EventAnalysis, ContentTags

CONSTANTS OpeningEvents,   \* events a path starts with; each has the id Ids[1]
          OpeningContents, \* external contents a path starts with
          Ids,             \* the ids of the events of a path, in order
          Authors,
          Hints,           \* the relay hints a caller gives: "" or a RelayUrl
          Contents,
          RawHint          \* a relay hint as another program writes one

ASSUME IdsAssumption == Ids \in Seq(EventIds) /\ Ids # <<>> /\ \A i, j \in DOMAIN Ids : Ids[i] = Ids[j] => i = j
ASSUME AuthorsAssumption == Authors \subseteq Pubkeys
RelayHints == {""} \cup Range(RelayUrlOf)
ASSUME HintsAssumption == Hints \subseteq RelayHints

TagNames == {"a", "e", "i", "k", "p", "q", "t", "A", "E", "I", "K", "P"}

(* null is no string, no reference and no tag.                             *)
ASSUME NothingAssumption ==
  /\ Null \notin {""} \cup TagNames \cup NIP10_MARKERS \cup EventIds \cup Pubkeys \cup WebUrls \cup DOMAIN Addresses \cup DOMAIN RelayUrlOf
  /\ \A id \in EventIds : EventRef(id) # Null
  /\ \A text \in DOMAIN Addresses : AddressRef(Addresses[text]) # Null
  /\ \A id \in EventIds :
       Null \notin {<<"e", id>>, <<"e", id, RawHint>>, <<"e", id, RawHint, "root">>}
  /\ \A id \in EventIds, relay \in RelayHints, marker \in {"root", "reply"} :
       <<"e", id, relay, marker>> # Null /\ \A pubkey \in Pubkeys : <<"e", id, relay, marker, pubkey>> # Null

(* A pubkey is 64 hex digits.                                              *)
ASSUME MarkersAssumption == NIP10_MARKERS \cap Pubkeys = {}

(* Every kind has a text.                                                  *)
ASSUME KindTextsAssumption ==
  ThreadingKinds \subseteq DOMAIN DecimalText /\ \A kind \in DOMAIN DecimalText : DecimalText[kind] \notin {"", Null}

IsEvent(event) ==
  /\ event = [kind |-> event.kind, id |-> event.id, pubkey |-> event.pubkey, tags |-> event.tags]
  /\ event.kind \in DOMAIN DecimalText /\ event.id \in EventIds /\ event.pubkey \in Pubkeys
  /\ IsTags(event.tags)

IsExternal(content) ==
  /\ content = [type |-> "external", id |-> content.id, kind |-> content.kind, hint |-> content.hint]
  /\ Null \notin {content.id, content.kind}

(* What a path starts with is well-formed, whatever its tags say.          *)
ASSUME OpeningsAssumption ==
  /\ \A event \in OpeningEvents : IsEvent(event) /\ HasText(ReplyTargetRef(event))
  /\ \A content \in OpeningContents : IsExternal(content)
ASSUME ContentsAssumption == \A content \in Contents : IsContent(content)

(* An id is a hash over the tags: an event names neither itself nor one    *)
(* written after it.                                                       *)
ASSUME HashesAssumption ==
  \A event \in OpeningEvents :
    /\ event.id = Ids[1]
    /\ \A tag \in ToSet(event.tags) : At(tag, 1) \in {"e", "E"} => At(tag, 2) \notin ToSet(Ids)

VARIABLE thread

vars == thread

NoText == [references |-> <<>>, hashtags |-> <<>>]

IsExternalContent(parent) == "type" \in DOMAIN parent

Answered == thread[Len(thread)].event
MaxLength == Len(Ids)   \* a bound: the events of a path

Entry(by, event, content) == [by |-> by, event |-> event, content |-> content]

-----------------------------------------------------------------------------
WithHint(tag, hint) == IF hint = "" THEN tag ELSE Append(tag, hint)

RootTagOf(id, relay, pubkey) ==
  <<"e", id, relay, "root">> \o (IF pubkey = Null THEN <<>> ELSE <<pubkey>>)

(* A bug: the parent's hint is copied as it stands.                        *)
CopiedRootTagVerbatim(source) ==
  IF source = Null THEN Null
  ELSE RootTagOf(source[2], At(source, 3) ?? "", EventTagAuthor(source))

CopiedRootTag(source) ==
  IF source = Null THEN Null
  ELSE RootTagOf(source[2], ParseRelayUrl(At(source, 3)) ?? "", EventTagAuthor(source))

(* A bug: a parent that names no root is taken for the root.               *)
InheritedMarkedRootTag(parent) == CopiedRootTag(ShortNoteThreadTags(parent.tags).root)

InheritedRootTag(parent) ==
  LET threadTags == ShortNoteThreadTags(parent.tags)
      source     == threadTags.root ?? threadTags.parent
  IN  IF source # Null /\ At(source, 2) = parent.id THEN Null ELSE CopiedRootTag(source)

(* The p tags of a set of pubkeys; their order is nobody's business.       *)
PubkeyTags(pubkeys) ==
  LET inOrder == SetToSeq(pubkeys) IN [i \in DOMAIN inOrder |-> <<"p", inOrder[i]>>]

NoteThreadTags(parent, hint, rootTag) ==
  IF rootTag = Null THEN << <<"e", parent.id, hint, "root", parent.pubkey>> >>
  ELSE << rootTag, <<"e", parent.id, hint, "reply", parent.pubkey>> >>

(* A bug: only the author that is answered is told.                        *)
NoteReplyTagsToAuthor(parent, hint) ==
  NoteThreadTags(parent, hint, InheritedRootTag(parent)) \o << <<"p", parent.pubkey>> >>

NoteReplyTags(parent, hint) ==
  LET rootTag      == InheritedRootTag(parent)
      rootAuthor   == IF rootTag # Null /\ Len(rootTag) > 4 THEN {rootTag[5]} ELSE {}
      participants == {parent.pubkey} \cup ExtractPubkeys(parent.tags) \cup rootAuthor
  IN  NoteThreadTags(parent, hint, rootTag) \o PubkeyTags(participants)

ChannelReplyTags(parent, hint) ==
  LET channel == CopiedRootTag(ChannelMessageThreadTags(parent.tags).root)
  IN  (IF channel = Null THEN <<>> ELSE << channel >>)
      \o << <<"e", parent.id, hint, "reply", parent.pubkey>>, WithHint(<<"p", parent.pubkey>>, hint) >>

(* The first a tag that states the activity all a tags agree on.           *)
LiveActivityTags(parent) ==
  LET stating == Among(parent.tags, {tag \in ToSet(parent.tags) : At(tag, 1) = "a" /\ RefFromTag(tag) # Null})
  IN  IF SoleRef(stating) = Null THEN <<>> ELSE << Head(stating) >>

-----------------------------------------------------------------------------
ROOT_SCOPE_TAG_NAMES == {"A", "E", "I", "K", "P"}

EventScopeTags(event, hint) ==
  LET ref   == ReplyTargetRef(event)
      scope == IF ref.type = "address" THEN <<"A", FormatRef(ref), hint>>
               ELSE <<"E", event.id, hint, event.pubkey>>
  IN  << scope, <<"K", DecimalText[event.kind]>>, WithHint(<<"P", event.pubkey>>, hint) >>

ScopedRoot(comment) ==
  IF SoleNonEmptyValue(comment.tags, "K") = Null THEN Null ELSE Refs(comment).root

CopiedScopeTag(tag) ==
  IF tag[1] # "I" THEN tag
  ELSE <<"I", At(tag, 2) ?? "">>
       \o (IF ParseWebUrl(At(tag, 3)) = Null THEN <<>> ELSE <<tag[3]>>)

RootEventAuthor(comment, rootId) ==
  SoleValue({At(tag, 4) : tag \in {t \in ToSet(comment.tags) : At(t, 1) = "E" /\ At(t, 2) = rootId}}
            \cap Pubkeys)

KnownRootAuthor(comment, root) ==
  CASE root.type = "address"  -> root.address.pubkey
    [] root.type = "event"    -> RootEventAuthor(comment, root.id)
    [] root.type = "external" -> Null

CopiedRootScope(parent, root) ==
  LET copied == Among(parent.tags, {tag \in ToSet(parent.tags) : At(tag, 1) \in ROOT_SCOPE_TAG_NAMES})
      scope  == [i \in DOMAIN copied |-> CopiedScopeTag(copied[i])]
      author == IF \E tag \in ToSet(scope) : tag[1] = "P" /\ At(tag, 2) \in Pubkeys THEN Null
                ELSE KnownRootAuthor(parent, root)
  IN  IF author = Null THEN scope ELSE Append(scope, <<"P", author>>)

CommentRootScope(parent, hint) ==
  LET root == IF ThreadsAsComment(parent.kind) THEN ScopedRoot(parent) ELSE Null
  IN  IF root = Null THEN EventScopeTags(parent, hint) ELSE CopiedRootScope(parent, root)

ParentItemTags(parent, hint) ==
  LET ref == ReplyTargetRef(parent) IN
  (IF ref.type = "address" THEN << <<"a", FormatRef(ref), hint>> >> ELSE <<>>)
  \o << <<"e", parent.id, hint, parent.pubkey>>, <<"k", DecimalText[parent.kind]>>,
        WithHint(<<"p", parent.pubkey>>, hint) >>

(* requireExternalContent and externalHintOf throw on anything else.       *)
IsNamed(content) ==
  "" \notin {content.id, content.kind} /\ (content.hint = Null \/ ParseWebUrl(content.hint) # Null)

ExternalScopeTags(content) ==
  LET hint == content.hint ?? "" IN
  << WithHint(<<"I", content.id>>, hint), <<"K", content.kind>>,
     WithHint(<<"i", content.id>>, hint), <<"k", content.kind>> >>

-----------------------------------------------------------------------------
OwnKinds == {KIND_TEXT_NOTE, KIND_CHAT_MESSAGE, KIND_CHANNEL_MESSAGE, KIND_LIVE_CHAT_MESSAGE}

ReplyKind(parent) ==
  IF ~IsExternalContent(parent) /\ parent.kind \in OwnKinds THEN parent.kind ELSE KIND_COMMENT

OwnKindReplyTags(parent, hint) ==
  CASE parent.kind = KIND_TEXT_NOTE         -> NoteReplyTags(parent, hint)
    [] parent.kind = KIND_CHAT_MESSAGE      -> << <<"q", parent.id, hint, parent.pubkey>> >>
    [] parent.kind = KIND_CHANNEL_MESSAGE   -> ChannelReplyTags(parent, hint)
    [] parent.kind = KIND_LIVE_CHAT_MESSAGE ->
         LiveActivityTags(parent) \o << <<"e", parent.id, hint, parent.pubkey>> >>

ReplyTags(parent, hint) ==
  IF IsExternalContent(parent) THEN ExternalScopeTags(parent)
  ELSE IF parent.kind \in OwnKinds THEN OwnKindReplyTags(parent, hint)
  ELSE CommentRootScope(parent, hint) \o ParentItemTags(parent, hint)

Answer(by, author, kind, tags, content) ==
  /\ Len(thread) < MaxLength
  /\ thread' = Append(thread, Entry(by, [kind |-> kind, id |-> Ids[Len(thread) + 1],
                                         pubkey |-> author, tags |-> tags], content))

(* buildReply, signed and published by its author.  External content takes *)
(* no relay hint; a call that throws builds nothing.                       *)
BuildReply(author, hint, content) ==
  /\ IsExternalContent(Answered) => hint = "" /\ IsNamed(Answered)
  /\ Answer("buildReply", author, ReplyKind(Answered),
            WithContentTags(ReplyTags(Answered, hint), content), content)

-----------------------------------------------------------------------------
FormatThreadRef(ref) == IF ref.type = "external" THEN ref.id ELSE FormatRef(ref)

SameTarget(a, b) ==
  IF Null \in {a, b} THEN a = b
  ELSE a.type = b.type /\ FormatThreadRef(a) = FormatThreadRef(b)

(* What a reply to the entry answers.                                      *)
TargetOf(parent) == IF IsExternalContent(parent) THEN parent ELSE ReplyTargetRef(parent)

(* The thread an event belongs to, as its readers see it: the root it      *)
(* names, the channel or activity it is in, or itself when it opens one.   *)
ThreadOf(event) ==
  LET refs == Refs(event) IN
  CASE event.kind = KIND_TEXT_NOTE -> (refs.root ?? refs.replyTo) ?? EventRef(event.id)
    [] event.kind = KIND_CHANNEL_MESSAGE   -> refs.root
    [] event.kind = KIND_LIVE_CHAT_MESSAGE -> SoleRefTagged(event.tags, "a")
    [] event.kind = KIND_CHAT_MESSAGE      -> Null
    [] ThreadsAsComment(event.kind)        -> ScopedRoot(event) ?? ReplyTargetRef(event)
    [] OTHER                               -> ReplyTargetRef(event)

Opens(parent) == IF IsExternalContent(parent) THEN parent ELSE ThreadOf(parent)

-----------------------------------------------------------------------------
(* What other programs write in answer, each well-formed under its NIP and *)
(* none of it the way buildReply writes it.                                *)
PositionalTags(parent) ==
  (IF Opens(parent).id = parent.id THEN <<>> ELSE << <<"e", Opens(parent).id, RawHint>> >>)
  \o << <<"e", parent.id>> >>

(* Marked, naming no author of an event and one pubkey to tell.            *)
MarkedTags(parent) ==
  LET root == Opens(parent) IN
  (IF root = Null THEN <<>> ELSE << <<"e", root.id, RawHint, "root">> >>)
  \o (IF root # Null /\ root.id = parent.id THEN <<>> ELSE << <<"e", parent.id, "", "reply">> >>)
  \o << <<"p", parent.pubkey>> >>

ParentKindText(parent) == IF IsExternalContent(parent) THEN parent.kind ELSE DecimalText[parent.kind]

RootKindText(parent) ==
  IF ~IsExternalContent(parent) /\ ThreadsAsComment(parent.kind) /\ ScopedRoot(parent) # Null
  THEN SoleTagValue(parent.tags, "K") ELSE ParentKindText(parent)

PointerTag(ref, event, address, external) ==
  CASE ref.type = "event"    -> <<event, ref.id, RawHint>>
    [] ref.type = "address"  -> <<address, FormatRef(ref), RawHint>>
    [] ref.type = "external" -> <<external, ref.id, RawHint>>

(* A comment that names its root and its parent and no author of either.   *)
BareCommentTags(parent) ==
  << PointerTag(Opens(parent), "E", "A", "I"), <<"K", RootKindText(parent)>>,
     PointerTag(TargetOf(parent), "e", "a", "i"), <<"k", ParentKindText(parent)>> >>

IsReferable(parent) == IsExternalContent(parent) => "" \notin {parent.id, parent.kind}

ForeignReply(author) ==
  IF IsExternalContent(Answered) \/ Answered.kind \notin OwnKinds
  THEN /\ IsReferable(Answered)
       /\ \E kind \in COMMENT_KINDS : Answer("bare", author, kind, BareCommentTags(Answered), NoText)
  ELSE \/ /\ Answered.kind = KIND_TEXT_NOTE
          /\ Answer("positional", author, KIND_TEXT_NOTE, PositionalTags(Answered), NoText)
       \/ /\ Answered.kind \in {KIND_TEXT_NOTE, KIND_CHANNEL_MESSAGE}
          /\ Answer("marked", author, Answered.kind, MarkedTags(Answered), NoText)

(* Somebody turns to another thread.                                       *)
OpenThread ==
  \/ \E event \in OpeningEvents : thread' = << Entry("opening", event, NoText) >>
  \/ \E content \in OpeningContents : thread' = << Entry("opening", content, NoText) >>

Init ==
  \/ \E event \in OpeningEvents : thread = << Entry("opening", event, NoText) >>
  \/ \E content \in OpeningContents : thread = << Entry("opening", content, NoText) >>

Next ==
  \/ \E author \in Authors, hint \in Hints, content \in Contents : BuildReply(author, hint, content)
  \/ \E author \in Authors : ForeignReply(author)
  \/ OpenThread

Spec == Init /\ [][Next]_vars

-----------------------------------------------------------------------------
Built == {i \in 2..Len(thread) : thread[i].by = "buildReply"}

EventAt(i) == thread[i].event

(* What buildReply builds is read back as a reply, to the entry it was     *)
(* given, whatever its content mentions: a quoted event never takes the    *)
(* parent's place (shared ADR-0012, ADR-0043, ADR-0076).                   *)
AnswersItsParent ==
  \A i \in Built :
    LET refs == Refs(EventAt(i)) IN
    refs.isReply /\ SameTarget(refs.replyTo ?? refs.root, TargetOf(EventAt(i - 1)))

(* A reply stays in the thread of what it answers, so a whole path has one *)
(* root, channel or activity, whichever programs wrote it: "the thread's   *)
(* root is read from the parent's own tags" (reply.ts, buildReply).        *)
OneThread ==
  \A i \in 2..Len(thread) : SameTarget(ThreadOf(EventAt(i)), Opens(EventAt(i - 1)))

NamedRootAuthor(note) ==
  LET threadTags == ShortNoteThreadTags(note.tags)
      source     == threadTags.root ?? threadTags.parent
  IN  IF source = Null THEN {} ELSE {EventTagAuthor(source)} \ {Null}

(* Along notes buildReply built, nobody drops out: each tells everyone who *)
(* wrote, was told or is named as the root's author, since the last note   *)
(* another program wrote.  A comment tells whom it answers and, as long as *)
(* any tag it copies names them, the author of its root.                   *)
EveryoneIsTold ==
  \A j \in Built :
    LET told == ExtractPubkeys(EventAt(j).tags)
        root == Refs(EventAt(j)).root
    IN  /\ EventAt(j).kind = KIND_TEXT_NOTE =>
             \A i \in 1..(j - 1) : (i + 1)..j \subseteq Built =>
               {EventAt(i).pubkey} \cup ExtractPubkeys(EventAt(i).tags) \cup NamedRootAuthor(EventAt(i))
                 \subseteq told
        /\ EventAt(j).kind = KIND_COMMENT =>
             /\ IsExternalContent(EventAt(j - 1)) \/ EventAt(j - 1).pubkey \in told
             /\ root.type = "address" => ExtractTagValues(EventAt(j).tags, "P") \cap Pubkeys # {}
             /\ \A i \in 1..(j - 1) :
                  (i + 1)..j \subseteq Built /\ SameTarget(root, TargetOf(EventAt(i))) =>
                    IsExternalContent(EventAt(i)) \/ HasTag(EventAt(j).tags, "P", EventAt(i).pubkey)

(* What a reply copies from a parent it was not the author of is parsed    *)
(* first: a root tag's relay and author, the web page of an I scope.       *)
CopiesAreChecked ==
  \A i \in Built : \A tag \in ToSet(EventAt(i).tags) :
    /\ tag[1] = "e" => At(tag, 3) = "" \/ ParseRelayUrl(At(tag, 3)) = At(tag, 3)
    /\ tag[1] = "e" /\ EventAt(i).kind # KIND_COMMENT => At(tag, 5) \in {Null} \cup Pubkeys
    /\ tag[1] = "I" => At(tag, 3) \in {Null} \cup WebUrls

(* The first relay or author any mention of a target gives in a slot.      *)
FirstHint(mentions, name, value, slot) ==
  LET giving == Among(mentions, {mention \in ToSet(mentions) :
                  At(mention, 1) = name /\ At(mention, 2) = value /\ (At(mention, slot) ?? "") # ""})
  IN  IF giving = <<>> THEN "" ELSE Head(giving)[slot]

(* What the references of a content should be taken for, in order.         *)
Meant(content) ==
  LET found  == content.references
      naming == Among(found, {reference \in ToSet(found) : reference.names # Null})
  IN  [i \in DOMAIN naming |-> naming[i].names]

(* A reply has one tag for every target its content names, the thread's    *)
(* own or else one holding the first hint any mention gave in each slot,   *)
(* and quotes nothing else (content-tags.ts, withContentTags).  An entity  *)
(* the encoders wrote names what they were given; of another program's, a  *)
(* record repeated with one value is one claim, records that disagree name *)
(* nothing, and a malformed one spoils the entity (bech32.ts,              *)
(* decodeNostrEntity).  The encoders refuse what the decoder would reject. *)
MentionedOnce ==
  \A i \in Built :
    LET mentions == MentionsOf(Meant(thread[i].content), thread[i].content)
        quotes   == EventAt(i).kind # KIND_CHAT_MESSAGE
    IN  /\ \A mention \in ToSet(mentions) :
             LET named == Among(EventAt(i).tags, {tag \in ToSet(EventAt(i).tags) :
                            At(tag, 1) = mention[1] /\ At(tag, 2) = mention[2]})
             IN  /\ Len(named) = 1
                 /\ mention[1] = "q" /\ quotes =>
                      \A slot \in 3..4 :
                        (At(named[1], slot) ?? "") = FirstHint(mentions, "q", mention[2], slot)
        /\ \A reference \in ToSet(thread[i].content.references) :
             reference.encoded /\ reference.text # Null => DecodeNostrEntity(reference.text) # Null
        /\ quotes => ExtractTagValues(EventAt(i).tags, "q") = ExtractTagValues(mentions, "q")
=============================================================================
