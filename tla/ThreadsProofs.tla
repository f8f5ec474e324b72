---------------------------- MODULE ThreadsProofs ----------------------------
(***************************************************************************)
(* Paths of replies, for every path, every tag of what it starts from and  *)
(* every content: what buildReply copies was parsed first, its reply       *)
(* answers what it was built for, stays in its parent's thread, tells      *)
(* everyone it should, and tags once what its content names.               *)
(*                                                                         *)
(* The invariant, Path, says how each entry came from the one before it.   *)
(* What remains is what the tags written for a parent are read back as.    *)
(***************************************************************************)
EXTENDS Threads, TagsProofs

-----------------------------------------------------------------------------
(* Each of the pubkeys of a reply has a tag.                               *)
LEMMA EachToldOnce ==
  ASSUME NEW pubkeys, IsFiniteSet(pubkeys)
  PROVE  /\ IsTags(PubkeyTags(pubkeys))
         /\ ToSet(PubkeyTags(pubkeys)) = {<<"p", pubkey>> : pubkey \in pubkeys}
<1>1. IsSequence(SetToSeq(pubkeys)) /\ ToSet(SetToSeq(pubkeys)) = pubkeys
  BY EachListed
<1>. QED BY <1>1, NamedEach DEF PubkeyTags

-----------------------------------------------------------------------------
(* Tags that point at an event, as a note and a channel message use them.  *)
IsEventTag(tag) == IsSequence(tag) /\ At(tag, 1) = "e" /\ At(tag, 2) \in EventIds

LEMMA EventTags ==
  ASSUME NEW tag, IsEventTag(tag)
  PROVE  /\ Len(tag) \in Nat /\ Len(tag) >= 2 /\ tag[1] = "e" /\ tag[2] = At(tag, 2)
         /\ RefFromTag(tag) = EventRef(tag[2]) /\ EventRef(tag[2]) # Null
<1>1. Len(tag) \in Nat
  BY TypedSequence DEF IsEventTag, IsSequence
<1>2. Len(tag) >= 2
  BY <1>1, NothingAssumption DEF IsEventTag, At
<1>3. tag[1] = "e" /\ tag[2] = At(tag, 2)
  BY <1>1, <1>2 DEF IsEventTag, At
<1>4. RefFromTag(tag) = EventRef(tag[2])
  BY <1>3 DEF IsEventTag, RefFromTag
<1>. QED BY <1>1, <1>2, <1>3, <1>4, NothingAssumption DEF IsEventTag

LEMMA EventTagsAreRead ==
  ASSUME NEW tags, IsTags(tags)
  PROVE  /\ IsTags(EventTagsOf(tags))
         /\ \A tag \in ToSet(EventTagsOf(tags)) : tag \in ToSet(tags) /\ IsEventTag(tag)
<1>1. /\ IsTags(EventTagsOf(tags))
      /\ \A tag \in ToSet(EventTagsOf(tags)) :
           tag \in ToSet(tags) /\ At(tag, 1) = "e" /\ RefFromTag(tag) # Null
  BY SomeTags DEF EventTagsOf
<1>2. ASSUME NEW tag, At(tag, 1) = "e", RefFromTag(tag) # Null PROVE At(tag, 2) \in EventIds
  BY <1>2 DEF RefFromTag
<1>. QED BY <1>1, <1>2 DEF IsTags, IsEventTag

LEMMA SoleTagIsFirst ==
  ASSUME NEW tags, IsTags(tags)
  PROVE  SoleTag(tags) = Null \/ SoleTag(tags) \in ToSet(tags)
<1>1. CASE tags = <<>>
  <2>1. {RefFromTag(tag) : tag \in ToSet(tags)} \ {Null} = {}
    BY <1>1, NoTags
  <2>2. SoleRef(tags) = Null
    BY <2>1 DEF SoleRef, SoleValue
  <2>. QED BY <2>2 DEF SoleTag
<1>2. CASE tags # <<>>
  BY <1>2, FirstAndLast DEF SoleTag, IsTags
<1>. QED BY <1>1, <1>2

(* What tells a note which tag names its root, and which its parent.       *)
AreThreadTags(threadTags, tags) ==
  /\ threadTags.root # Null => threadTags.root \in ToSet(tags) /\ IsEventTag(threadTags.root)
  /\ threadTags.parent # Null => threadTags.parent \in ToSet(tags) /\ IsEventTag(threadTags.parent)

LEMMA ThreadTagsPoint ==
  ASSUME NEW tags, IsTags(tags)
  PROVE  /\ AreThreadTags(ShortNoteThreadTags(tags), tags)
         /\ AreThreadTags(ChannelMessageThreadTags(tags), tags)
<1>. DEFINE eTags == EventTagsOf(tags)
            marked(marker) == Among(eTags, {tag \in ToSet(eTags) : Nip10Marker(tag) = marker})
<1>1. IsTags(eTags) /\ \A tag \in ToSet(eTags) : tag \in ToSet(tags) /\ IsEventTag(tag)
  BY EventTagsAreRead
<1>. HIDE DEF eTags
<1>2. ASSUME NEW marker
      PROVE  SoleTag(marked(marker)) = Null \/ SoleTag(marked(marker)) \in ToSet(eTags)
  <2>1. IsTags(marked(marker)) /\ ToSet(marked(marker)) \subseteq ToSet(eTags)
    BY <1>1, SomeTags
  <2>. HIDE DEF marked
  <2>. QED BY <2>1, SoleTagIsFirst
<1>3. MarkedThreadTags(eTags) = [root |-> SoleTag(marked("root")), parent |-> SoleTag(marked("reply"))]
  BY DEF MarkedThreadTags
<1>. HIDE DEF marked
<1>4. AreThreadTags(MarkedThreadTags(eTags), tags)
  BY <1>1, <1>2, <1>3 DEF AreThreadTags
<1>5. Len(eTags) \in Nat /\ (eTags = <<>> => ~(Len(eTags) > 1))
  BY <1>1, TypedSequence DEF IsTags, IsSequence
<1>. DEFINE placed == [root   |-> IF Len(eTags) > 1 THEN Head(eTags) ELSE Null,
                       parent |-> IF eTags = <<>> THEN Null ELSE Last(eTags)]
<1>6. AreThreadTags(placed, tags)
  <2>1. eTags # <<>> => Head(eTags) \in ToSet(eTags) /\ Last(eTags) \in ToSet(eTags)
    BY <1>1, FirstAndLast DEF IsTags
  <2>. QED BY <1>1, <1>5, <2>1 DEF AreThreadTags
<1>7. /\ ShortNoteThreadTags(tags) \in {MarkedThreadTags(eTags), placed}
      /\ ChannelMessageThreadTags(tags) = MarkedThreadTags(eTags)
  BY DEF ShortNoteThreadTags, ChannelMessageThreadTags, eTags
<1>. QED BY <1>4, <1>6, <1>7

-----------------------------------------------------------------------------
LEMMA HintedTags ==
  ASSUME NEW name, NEW value, NEW hint
  PROVE  WithHint(<<name, value>>, hint) = IF hint = "" THEN <<name, value>> ELSE <<name, value, hint>>
BY AppendedPair DEF WithHint

(* A canonical relay URL, or none.                                         *)
LEMMA RelayHintsParse == \A hint \in RelayHints : hint # Null /\ (hint = "" \/ ParseRelayUrl(hint) = hint)
BY NothingAssumption, RelaysAssumption DEF RelayHints, Range, ParseRelayUrl

LEMMA RootTags ==
  ASSUME NEW id, NEW relay, NEW pubkey, NEW tag, tag = RootTagOf(id, relay, pubkey)
  PROVE  /\ tag = IF pubkey = Null THEN <<"e", id, relay, "root">> ELSE <<"e", id, relay, "root", pubkey>>
         /\ IsSequence(tag) /\ tag[1] = "e" /\ tag[2] = id /\ Len(tag) = IF pubkey = Null THEN 4 ELSE 5
         /\ At(tag, 1) = "e" /\ At(tag, 2) = id /\ At(tag, 3) = relay /\ At(tag, 4) = "root" /\ At(tag, 5) = pubkey
<1>1. tag = IF pubkey = Null THEN <<"e", id, relay, "root">> ELSE <<"e", id, relay, "root", pubkey>>
  <2>. DEFINE four == <<"e", id, relay, "root">>
              five == <<"e", id, relay, "root", pubkey>>
              one  == << pubkey >>
              T    == {"e", id, relay, "root", pubkey}
  <2>1. /\ four \in Seq(T) /\ five \in Seq(T) /\ one \in Seq(T) /\ Len(one) = 1
        /\ Len(four) = 4 /\ Len(five) = 5 /\ one[1] = five[5]
        /\ four[1] = five[1] /\ four[2] = five[2] /\ four[3] = five[3] /\ four[4] = five[4]
    OBVIOUS
  <2>2. tag = four \o (IF pubkey = Null THEN <<>> ELSE one)
    BY DEF RootTagOf
  <2>. HIDE DEF four, five, T, one
  <2>3. four \o <<>> = four
    BY <2>1, ConcatEmptySeq
  <2>4. four \o one = five
    <3>1. /\ four \o one \in Seq(T) /\ Len(four \o one) = 5
          /\ \A i \in 1..5 : (four \o one)[i] = IF i <= 4 THEN four[i] ELSE one[i - 4]
      <4>1. /\ four \in Seq(T) /\ Len(four) = 4 /\ one \in Seq(T) /\ Len(one) = 1
        BY <2>1
      <4>2. \A p, q \in Seq(T) : /\ p \o q \in Seq(T) /\ Len(p \o q) = Len(p) + Len(q)
                                /\ \A i \in 1..(Len(p) + Len(q)) :
                                     (p \o q)[i] = IF i <= Len(p) THEN p[i] ELSE q[i - Len(p)]
        BY ConcatProperties
      <4>3. /\ four \o one \in Seq(T) /\ Len(four \o one) = Len(four) + Len(one)
            /\ \A i \in 1..(Len(four) + Len(one)) :
                 (four \o one)[i] = IF i <= Len(four) THEN four[i] ELSE one[i - Len(four)]
        BY <4>1, <4>2, Zenon
      <4>. DEFINE both == four \o one
      <4>. HIDE DEF both
      <4>4. both \in Seq(T) /\ Len(both) = 5 /\ \A i \in 1..5 : both[i] = IF i <= 4 THEN four[i] ELSE one[i - 4]
        BY <4>1, <4>3 DEF both
      <4>. QED BY <4>4 DEF both
    <3>2. \A i \in 1..5 : (four \o one)[i] = five[i]
      <4>1. \A i \in 1..5 : i = 1 \/ i = 2 \/ i = 3 \/ i = 4 \/ i = 5
        OBVIOUS
      <4>. QED BY <2>1, <3>1, <4>1
    <3>. QED BY <2>1, <3>1, <3>2, SeqEqual
  <2>. QED BY <2>2, <2>3, <2>4 DEF four, five
<1>2. CASE pubkey = Null
  <2>1. tag = <<"e", id, relay, "root">>
    BY <1>1, <1>2
  <2>2. IsSequence(tag)
    BY <2>1, Tuples, Zenon
  <2>3. /\ tag[1] = "e" /\ tag[2] = id /\ Len(tag) = 4
        /\ At(tag, 1) = "e" /\ At(tag, 2) = id /\ At(tag, 3) = relay /\ At(tag, 4) = "root" /\ At(tag, 5) = Null
    BY <2>1 DEF At
  <2>. QED BY <1>1, <1>2, <2>2, <2>3
<1>3. CASE pubkey # Null
  <2>1. tag = <<"e", id, relay, "root", pubkey>>
    BY <1>1, <1>3
  <2>2. IsSequence(tag)
    BY <2>1, Tuples, Zenon
  <2>3. /\ tag[1] = "e" /\ tag[2] = id /\ Len(tag) = 5
        /\ At(tag, 1) = "e" /\ At(tag, 2) = id /\ At(tag, 3) = relay /\ At(tag, 4) = "root" /\ At(tag, 5) = pubkey
    BY <2>1 DEF At
  <2>. QED BY <1>1, <1>3, <2>2, <2>3
<1>. QED BY <1>2, <1>3

(* The root tag a reply copies from its parent's is checked, its event the *)
(* one the parent's tag names.                                             *)
LEMMA CopiedRoots ==
  ASSUME NEW source, source # Null => IsEventTag(source)
  PROVE  IF source = Null THEN CopiedRootTag(source) = Null
         ELSE \E relay \in RelayHints, pubkey \in {Null} \cup Pubkeys :
                /\ CopiedRootTag(source) = RootTagOf(source[2], relay, pubkey)
                /\ pubkey = EventTagAuthor(source)
                /\ CopiedRootTag(source) # Null /\ source[2] \in EventIds /\ source[2] = At(source, 2)
<1>1. CASE source = Null
  BY <1>1 DEF CopiedRootTag
<1>2. CASE source # Null
  <2>. DEFINE relay  == ParseRelayUrl(At(source, 3)) ?? ""
              pubkey == EventTagAuthor(source)
  <2>1. relay \in RelayHints
    BY DEF RelayHints, ParseRelayUrl, ??, Range
  <2>2. pubkey \in {Null} \cup Pubkeys
    BY DEF EventTagAuthor
  <2>3. CopiedRootTag(source) = RootTagOf(source[2], relay, pubkey)
    BY <1>2 DEF CopiedRootTag
  <2>4. source[2] \in EventIds /\ source[2] = At(source, 2)
    BY <1>2, EventTags DEF IsEventTag
  <2>. HIDE DEF relay
  <2>5. RootTagOf(source[2], relay, pubkey) # Null
    <3>1. \A id \in EventIds : <<"e", id, relay, "root">> # Null
      BY <2>1, NothingAssumption
    <3>2. \A id \in EventIds : pubkey \in Pubkeys => <<"e", id, relay, "root", pubkey>> # Null
      BY <2>1, NothingAssumption
    <3>. HIDE DEF pubkey
    <3>3. RootTagOf(source[2], relay, pubkey)
            = IF pubkey = Null THEN <<"e", source[2], relay, "root">> ELSE <<"e", source[2], relay, "root", pubkey>>
      BY RootTags
    <3>. QED BY <2>2, <2>4, <3>1, <3>2, <3>3, Zenon
  <2>. QED BY <1>2, <2>1, <2>2, <2>3, <2>4, <2>5
<1>. QED BY <1>1, <1>2

-----------------------------------------------------------------------------
(* What CopiesAreChecked asks of one tag, of a comment or of another reply.*)
Checked(tag, commenting) ==
  /\ tag[1] = "e" => At(tag, 3) = "" \/ ParseRelayUrl(At(tag, 3)) = At(tag, 3)
  /\ tag[1] = "e" /\ ~commenting => At(tag, 5) \in {Null} \cup Pubkeys
  /\ tag[1] = "I" => At(tag, 3) \in {Null} \cup WebUrls

LEMMA WrittenEventTags ==
  ASSUME NEW id, NEW hint \in RelayHints, NEW pubkey \in Pubkeys, NEW marker
  PROVE  LET marked == <<"e", id, hint, marker, pubkey>>
             plain  == <<"e", id, hint, pubkey>>
         IN  /\ IsSequence(marked) /\ IsSequence(plain)
             /\ \A commenting : Checked(marked, commenting) /\ Checked(plain, commenting)
<1>1. hint = "" \/ ParseRelayUrl(hint) = hint
  BY RelayHintsParse
<1>. DEFINE marked == <<"e", id, hint, marker, pubkey>>
            plain  == <<"e", id, hint, pubkey>>
<1>2. IsSequence(marked) /\ IsSequence(plain)
  BY Tuples
<1>3. /\ marked[1] = "e" /\ At(marked, 3) = hint /\ At(marked, 5) = pubkey
      /\ plain[1] = "e" /\ At(plain, 3) = hint /\ At(plain, 5) = Null
  BY Slots
<1>. HIDE DEF marked, plain
<1>4. \A commenting : Checked(marked, commenting) /\ Checked(plain, commenting)
  BY <1>1, <1>3 DEF Checked
<1>. QED BY <1>2, <1>4 DEF marked, plain

LEMMA WrittenRootTags ==
  ASSUME NEW id, NEW relay \in RelayHints, NEW pubkey \in {Null} \cup Pubkeys
  PROVE  IsSequence(RootTagOf(id, relay, pubkey)) /\ Checked(RootTagOf(id, relay, pubkey), FALSE)
<1>1. relay = "" \/ ParseRelayUrl(relay) = relay
  BY RelayHintsParse
<1>. DEFINE tag == RootTagOf(id, relay, pubkey)
<1>2. IsSequence(tag) /\ tag[1] = "e" /\ At(tag, 3) = relay /\ At(tag, 5) = pubkey
  BY RootTags
<1>. HIDE DEF tag
<1>3. Checked(tag, FALSE)
  BY <1>1, <1>2 DEF Checked
<1>. QED BY <1>2, <1>3 DEF tag

(* The tag a note's root is copied from, and the copy.                     *)
Source(note) ==
  LET threadTags == ShortNoteThreadTags(note.tags) IN threadTags.root ?? threadTags.parent

LEMMA InheritedRoots ==
  ASSUME NEW parent, IsEvent(parent)
  PROVE  /\ Source(parent) # Null =>
              IsEventTag(Source(parent)) /\ Source(parent) \in ToSet(parent.tags)
         /\ InheritedRootTag(parent) =
              IF Source(parent) = Null \/ Source(parent)[2] = parent.id THEN Null
              ELSE CopiedRootTag(Source(parent))
<1>. DEFINE threadTags == ShortNoteThreadTags(parent.tags)
            source == Source(parent)
<1>1. AreThreadTags(threadTags, parent.tags)
  BY ThreadTagsPoint DEF IsEvent
<1>2. source = IF threadTags.root = Null THEN threadTags.parent ELSE threadTags.root
  BY DEF Source, ??
<1>3. InheritedRootTag(parent) = IF source # Null /\ At(source, 2) = parent.id THEN Null ELSE CopiedRootTag(source)
  BY DEF InheritedRootTag, Source
<1>. HIDE DEF threadTags
<1>4. source # Null => IsEventTag(source) /\ source \in ToSet(parent.tags)
  BY <1>1, <1>2 DEF AreThreadTags
<1>. HIDE DEF source
<1>5. source # Null => source[2] = At(source, 2)
  BY <1>4, EventTags
<1>6. source = Null => CopiedRootTag(source) = Null
  BY DEF CopiedRootTag
<1>. QED BY <1>3, <1>4, <1>5, <1>6 DEF source

LEMMA InheritedTags ==
  ASSUME NEW parent, IsEvent(parent), InheritedRootTag(parent) # Null
  PROVE  /\ Source(parent) # Null /\ Source(parent)[2] # parent.id
         /\ \E relay \in RelayHints, pubkey \in {Null} \cup Pubkeys :
              /\ InheritedRootTag(parent) = RootTagOf(Source(parent)[2], relay, pubkey)
              /\ pubkey = EventTagAuthor(Source(parent)) /\ Source(parent)[2] \in EventIds
BY InheritedRoots, CopiedRoots

Participants(parent, rootTag) ==
  {parent.pubkey} \cup ExtractPubkeys(parent.tags) \cup (IF rootTag # Null /\ Len(rootTag) > 4 THEN {rootTag[5]} ELSE {})

LEMMA NoteReplies ==
  ASSUME NEW parent, IsEvent(parent), NEW hint \in Hints
  PROVE  LET rootTag == InheritedRootTag(parent)
             notes  == NoteThreadTags(parent, hint, rootTag)
             told    == PubkeyTags(Participants(parent, rootTag))
         IN  /\ NoteReplyTags(parent, hint) = notes \o told
             /\ IsTags(notes) /\ \A tag \in ToSet(notes) : Checked(tag, FALSE)
             /\ IsTags(told) /\ ToSet(told) = {<<"p", pubkey>> : pubkey \in Participants(parent, rootTag)}
<1>. DEFINE rootTag == InheritedRootTag(parent)
            notes  == NoteThreadTags(parent, hint, rootTag)
            who     == Participants(parent, rootTag)
            told    == PubkeyTags(who)
            opening == <<"e", parent.id, hint, "root", parent.pubkey>>
            reply   == <<"e", parent.id, hint, "reply", parent.pubkey>>
<1>1. NoteReplyTags(parent, hint) = notes \o told
  BY DEF NoteReplyTags, Participants
<1>2. /\ IsSequence(opening) /\ Checked(opening, FALSE)
      /\ IsSequence(reply) /\ Checked(reply, FALSE)
  BY HintsAssumption, WrittenEventTags DEF IsEvent
<1>3. rootTag # Null => IsSequence(rootTag) /\ Checked(rootTag, FALSE)
  BY InheritedTags, WrittenRootTags
<1>4. notes = IF rootTag = Null THEN << opening >> ELSE << rootTag, reply >>
  BY DEF NoteThreadTags
<1>. HIDE DEF rootTag, opening, reply, notes
<1>5. IsTags(notes) /\ \A tag \in ToSet(notes) : Checked(tag, FALSE)
  <2>1. CASE rootTag = Null
    <3>1. notes = << opening >>
      BY <1>4, <2>1
    <3>2. IsTags(<< opening >>) /\ ToSet(<< opening >>) = {opening}
      BY <1>2, OneTag
    <3>. QED BY <1>2, <3>1, <3>2
  <2>2. CASE rootTag # Null
    <3>1. notes = << rootTag, reply >>
      BY <1>4, <2>2
    <3>2. IsTags(<< rootTag, reply >>) /\ ToSet(<< rootTag, reply >>) = {rootTag, reply}
      BY <1>2, <1>3, <2>2, TwoTags
    <3>. QED BY <1>2, <1>3, <2>2, <3>1, <3>2
  <2>. QED BY <2>1, <2>2
<1>6. IsFiniteSet(who)
  <2>1. IsFiniteSet(ExtractPubkeys(parent.tags))
    BY ToldAreFinite DEF IsEvent
  <2>2. /\ IsFiniteSet({parent.pubkey})
        /\ IsFiniteSet(IF rootTag # Null /\ Len(rootTag) > 4 THEN {rootTag[5]} ELSE {})
    BY FS_Singleton, FS_EmptySet
  <2>. QED BY <2>1, <2>2, FS_Union DEF Participants
<1>7. IsTags(told) /\ ToSet(told) = {<<"p", pubkey>> : pubkey \in who}
  <2>. HIDE DEF who
  <2>. QED BY <1>6, EachToldOnce
<1>. QED BY <1>1, <1>5, <1>7 DEF rootTag, notes

(* The tags a channel message answers with.                                *)
Channel(parent) == CopiedRootTag(ChannelMessageThreadTags(parent.tags).root)

LEMMA CopiedChannels ==
  ASSUME NEW parent, IsEvent(parent)
  PROVE  LET source == ChannelMessageThreadTags(parent.tags).root IN
         /\ source = Null => Channel(parent) = Null
         /\ source # Null =>
              /\ IsEventTag(source) /\ Channel(parent) # Null
              /\ \E relay \in RelayHints, pubkey \in {Null} \cup Pubkeys :
                   Channel(parent) = RootTagOf(source[2], relay, pubkey) /\ source[2] \in EventIds
<1>. DEFINE threadTags == ChannelMessageThreadTags(parent.tags)
            source     == threadTags.root
<1>1. AreThreadTags(threadTags, parent.tags)
  BY ThreadTagsPoint DEF IsEvent
<1>. HIDE DEF threadTags
<1>2. source # Null => IsEventTag(source)
  BY <1>1 DEF AreThreadTags
<1>3. Channel(parent) = CopiedRootTag(source)
  BY DEF Channel, threadTags
<1>. HIDE DEF source
<1>4. source = Null => Channel(parent) = Null
  BY <1>3 DEF CopiedRootTag
<1>5. source # Null => /\ IsEventTag(source) /\ Channel(parent) # Null
                       /\ \E relay \in RelayHints, pubkey \in {Null} \cup Pubkeys :
                            Channel(parent) = RootTagOf(source[2], relay, pubkey) /\ source[2] \in EventIds
  BY <1>2, <1>3, CopiedRoots
<1>. QED BY <1>4, <1>5 DEF source, threadTags

LEMMA ChannelReplies ==
  ASSUME NEW parent, IsEvent(parent), NEW hint \in Hints
  PROVE  LET channel == IF Channel(parent) = Null THEN <<>> ELSE << Channel(parent) >>
             reply   == <<"e", parent.id, hint, "reply", parent.pubkey>>
             told    == WithHint(<<"p", parent.pubkey>>, hint)
         IN  /\ ChannelReplyTags(parent, hint) = channel \o << reply, told >>
             /\ IsTags(channel) /\ \A tag \in ToSet(channel) : Checked(tag, FALSE)
             /\ IsSequence(reply) /\ Checked(reply, FALSE)
             /\ IsSequence(told) /\ Checked(told, FALSE) /\ told[1] = "p" /\ At(told, 1) = "p"
<1>. DEFINE channel == IF Channel(parent) = Null THEN <<>> ELSE << Channel(parent) >>
            reply   == <<"e", parent.id, hint, "reply", parent.pubkey>>
            told    == WithHint(<<"p", parent.pubkey>>, hint)
<1>1. ChannelReplyTags(parent, hint) = channel \o << reply, told >>
  BY DEF ChannelReplyTags, Channel
<1>2. IsSequence(reply) /\ Checked(reply, FALSE)
  BY HintsAssumption, WrittenEventTags DEF IsEvent
<1>3. IsSequence(told) /\ told[1] = "p" /\ At(told, 1) = "p"
  <2>1. told = IF hint = "" THEN <<"p", parent.pubkey>> ELSE <<"p", parent.pubkey, hint>>
    BY HintedTags
  <2>. HIDE DEF told
  <2>2. CASE hint = ""
    <3>1. told = <<"p", parent.pubkey>>
      BY <2>1, <2>2
    <3>. QED BY <3>1, Tuples, Slots
  <2>3. CASE hint # ""
    <3>1. told = <<"p", parent.pubkey, hint>>
      BY <2>1, <2>3
    <3>. QED BY <3>1, Tuples, Slots
  <2>. QED BY <2>2, <2>3
<1>4. Checked(told, FALSE)
  <2>. HIDE DEF told
  <2>. QED BY <1>3 DEF Checked
<1>5. Channel(parent) # Null => IsSequence(Channel(parent)) /\ Checked(Channel(parent), FALSE)
  <2>. SUFFICES ASSUME Channel(parent) # Null PROVE IsSequence(Channel(parent)) /\ Checked(Channel(parent), FALSE)
    OBVIOUS
  <2>1. \E id \in EventIds, relay \in RelayHints, pubkey \in {Null} \cup Pubkeys : Channel(parent) = RootTagOf(id, relay, pubkey)
    BY CopiedChannels
  <2>. QED BY <2>1, WrittenRootTags
<1>6. IsTags(channel) /\ \A tag \in ToSet(channel) : Checked(tag, FALSE)
  <2>1. CASE Channel(parent) = Null
    BY <2>1, NoTags
  <2>2. CASE Channel(parent) # Null
    <3>1. channel = << Channel(parent) >>
      BY <2>2
    <3>2. IsTags(<< Channel(parent) >>) /\ ToSet(<< Channel(parent) >>) = {Channel(parent)}
      BY <1>5, <2>2, OneTag
    <3>. QED BY <1>5, <2>2, <3>1, <3>2
  <2>. QED BY <2>1, <2>2
<1>. QED BY <1>1, <1>2, <1>3, <1>4, <1>6

(* The tags a live chat message answers with.                              *)
LEMMA LiveReplies ==
  ASSUME NEW parent, IsEvent(parent), NEW hint \in Hints
  PROVE  /\ IsTags(LiveActivityTags(parent))
         /\ \A tag \in ToSet(LiveActivityTags(parent)) : tag[1] = "a" /\ At(tag, 1) = "a" /\ Checked(tag, FALSE)
         /\ IsSequence(<<"e", parent.id, hint, parent.pubkey>>)
         /\ Checked(<<"e", parent.id, hint, parent.pubkey>>, FALSE)
<1>. DEFINE stating == Among(parent.tags, {tag \in ToSet(parent.tags) : At(tag, 1) = "a" /\ RefFromTag(tag) # Null})
            live    == LiveActivityTags(parent)
<1>1. /\ IsTags(stating) /\ \A tag \in ToSet(stating) : At(tag, 1) = "a" /\ RefFromTag(tag) # Null
  BY SomeTags DEF IsEvent
<1>2. live = IF SoleRef(stating) = Null THEN <<>> ELSE << Head(stating) >>
  BY DEF LiveActivityTags
<1>3. SoleTag(stating) = IF SoleRef(stating) = Null THEN Null ELSE Head(stating)
  BY DEF SoleTag
<1>. HIDE DEF stating, live
<1>4. CASE SoleRef(stating) = Null
  <2>1. live = <<>>
    BY <1>2, <1>4
  <2>. QED BY <2>1, NoTags, HintsAssumption, WrittenEventTags DEF IsEvent, live
<1>5. CASE SoleRef(stating) # Null
  <2>1. stating # <<>>
    <3>. SUFFICES ASSUME stating = <<>> PROVE FALSE
      OBVIOUS
    <3>1. {RefFromTag(tag) : tag \in ToSet(stating)} \ {Null} = {}
      BY NoTags
    <3>. QED BY <1>5, <3>1 DEF SoleRef, SoleValue
  <2>. DEFINE tag == Head(stating)
  <2>2. tag \in ToSet(stating)
    BY <1>1, <2>1, FirstAndLast DEF IsTags
  <2>3. IsSequence(tag) /\ At(tag, 1) = "a"
    BY <1>1, <2>2 DEF IsTags
  <2>. HIDE DEF tag
  <2>4. tag[1] = "a"
    <3>1. At(tag, 1) # Null
      BY <2>3, NothingAssumption DEF TagNames
    <3>. QED BY <2>3, <3>1, NamedTags
  <2>5. Checked(tag, FALSE)
    BY <2>4 DEF Checked
  <2>6. IsTags(<< tag >>) /\ ToSet(<< tag >>) = {tag}
    BY <2>3, OneTag
  <2>7. live = << tag >>
    BY <1>2, <1>5 DEF tag
  <2>. QED BY <2>3, <2>4, <2>5, <2>6, <2>7, HintsAssumption, WrittenEventTags DEF IsEvent, live
<1>. QED BY <1>4, <1>5

-----------------------------------------------------------------------------
(* The tags a comment answers with, by their names.                        *)
Names(tag, names) == IsSequence(tag) /\ tag[1] \in names /\ At(tag, 1) = tag[1]

LEMMA NamedTuples ==
  ASSUME NEW name
  PROVE  /\ \A a : Names(<<name, a>>, {name})
         /\ \A a, b : Names(<<name, a, b>>, {name})
         /\ \A a, b, c : Names(<<name, a, b, c>>, {name})
<1>1. /\ \A a : <<name, a>>[1] = name /\ At(<<name, a>>, 1) = name
      /\ \A a, b : <<name, a, b>>[1] = name /\ At(<<name, a, b>>, 1) = name
      /\ \A a, b, c : <<name, a, b, c>>[1] = name /\ At(<<name, a, b, c>>, 1) = name
  BY DEF At
<1>2. /\ \A a : IsSequence(<<name, a>>)
      /\ \A a, b : IsSequence(<<name, a, b>>)
      /\ \A a, b, c : IsSequence(<<name, a, b, c>>)
  BY Tuples, Zenon
<1>. QED BY <1>1, <1>2 DEF Names

LEMMA HintedNames ==
  ASSUME NEW name, NEW value, NEW hint
  PROVE  Names(WithHint(<<name, value>>, hint), {name})
<1>. DEFINE two   == <<name, value>>
            three == <<name, value, hint>>
<1>1. WithHint(two, hint) = IF hint = "" THEN two ELSE three
  BY HintedTags
<1>2. Names(two, {name}) /\ Names(three, {name})
  BY NamedTuples
<1>. HIDE DEF two, three
<1>3. Names(WithHint(two, hint), {name})
  BY <1>1, <1>2
<1>. QED BY <1>3 DEF two

LEMMA CheckedNames ==
  ASSUME NEW tag, tag[1] \notin {"e", "I"}
  PROVE  \A commenting : Checked(tag, commenting)
BY DEF Checked

AreCommentTags(tags, names) ==
  IsTags(tags) /\ \A tag \in ToSet(tags) : Names(tag, names) /\ Checked(tag, TRUE)

LEMMA OpenedScopes ==
  ASSUME NEW event, IsEvent(event), NEW hint \in Hints
  PROVE  AreCommentTags(EventScopeTags(event, hint), {"A", "E", "K", "P"})
<1>. DEFINE ref   == ReplyTargetRef(event)
            scope == IF ref.type = "address" THEN <<"A", FormatRef(ref), hint>>
                     ELSE <<"E", event.id, hint, event.pubkey>>
            kind  == <<"K", DecimalText[event.kind]>>
            told  == WithHint(<<"P", event.pubkey>>, hint)
<1>1. Names(scope, {"A", "E"}) /\ Names(kind, {"K"}) /\ Names(told, {"P"})
  <2>1. Names(scope, {"A", "E"})
    <3>1. Names(<<"A", FormatRef(ref), hint>>, {"A"}) /\ Names(<<"E", event.id, hint, event.pubkey>>, {"E"})
      BY NamedTuples
    <3>. QED BY <3>1 DEF Names
  <2>2. Names(kind, {"K"})
    BY NamedTuples
  <2>3. Names(told, {"P"})
    BY HintedNames
  <2>. QED BY <2>1, <2>2, <2>3
<1>2. EventScopeTags(event, hint) = << scope, kind, told >>
  BY DEF EventScopeTags
<1>. HIDE DEF scope, kind, told
<1>3. IsTags(<< scope, kind, told >>) /\ ToSet(<< scope, kind, told >>) = {scope, kind, told}
  BY <1>1, ThreeTags DEF Names
<1>4. \A tag \in {scope, kind, told} : Names(tag, {"A", "E", "K", "P"}) /\ tag[1] \notin {"e", "I"}
  BY <1>1 DEF Names
<1>. QED BY <1>2, <1>3, <1>4, CheckedNames DEF AreCommentTags

LEMMA CopiedTags ==
  ASSUME NEW tag, IsSequence(tag), At(tag, 1) \in ROOT_SCOPE_TAG_NAMES
  PROVE  /\ Names(CopiedScopeTag(tag), {tag[1]}) /\ tag[1] = At(tag, 1)
         /\ Checked(CopiedScopeTag(tag), TRUE)
<1>1. tag[1] = At(tag, 1)
  <2>1. At(tag, 1) # Null
    BY NothingAssumption DEF ROOT_SCOPE_TAG_NAMES, TagNames
  <2>. QED BY <2>1, NamedTags
<1>2. CASE tag[1] # "I"
  BY <1>1, <1>2, CheckedNames DEF CopiedScopeTag, Names, ROOT_SCOPE_TAG_NAMES
<1>3. CASE tag[1] = "I"
  <2>. DEFINE value == At(tag, 2) ?? ""
              pair  == <<"I", value>>
  <2>1. CASE ParseWebUrl(At(tag, 3)) = Null
    <3>1. CopiedScopeTag(tag) = pair \o <<>>
      BY <1>3, <2>1 DEF CopiedScopeTag
    <3>2. pair \in Seq({"I", value})
      OBVIOUS
    <3>3. Names(pair, {"I"})
      BY NamedTuples
    <3>4. At(pair, 3) = Null /\ pair[1] = "I"
      BY DEF At
    <3>. HIDE DEF pair
    <3>5. CopiedScopeTag(tag) = pair
      BY <3>1, <3>2, ConcatEmptySeq
    <3>. QED BY <1>1, <1>3, <3>3, <3>4, <3>5 DEF Checked
  <2>2. CASE ParseWebUrl(At(tag, 3)) # Null
    <3>. DEFINE page   == tag[3]
                triple == <<"I", value, page>>
    <3>1. page \in WebUrls
      <4>1. At(tag, 3) \in WebUrls /\ At(tag, 3) # Null
        BY <2>2 DEF ParseWebUrl
      <4>. QED BY <4>1, NamedTags
    <3>2. CopiedScopeTag(tag) = pair \o << page >>
      BY <1>3, <2>2 DEF CopiedScopeTag
    <3>. HIDE DEF page, value
    <3>3. pair \in Seq({"I", value, page}) /\ page \in {"I", value, page}
      OBVIOUS
    <3>4. pair \o << page >> = Append(pair, page)
      <4>. HIDE DEF pair
      <4>. QED BY <3>3, AppendIsConcat
    <3>5. Append(pair, page) = triple
      BY AppendedPair
    <3>6. Names(triple, {"I"})
      BY NamedTuples
    <3>7. At(triple, 3) = page /\ triple[1] = "I"
      BY DEF At
    <3>. HIDE DEF triple, pair
    <3>8. CopiedScopeTag(tag) = triple
      BY <3>2, <3>4, <3>5
    <3>. QED BY <1>1, <1>3, <3>1, <3>6, <3>7, <3>8 DEF Checked
  <2>. QED BY <2>1, <2>2
<1>. QED BY <1>2, <1>3

LEMMA MappedTags ==
  ASSUME NEW tags, IsTags(tags)
  PROVE  LET mapped == [i \in DOMAIN tags |-> CopiedScopeTag(tags[i])]
         IN  mapped \in Seq(ToSet(mapped)) /\ ToSet(mapped) = {CopiedScopeTag(tag) : tag \in ToSet(tags)}
<1>. DEFINE mapped == [i \in DOMAIN tags |-> CopiedScopeTag(tags[i])]
            All    == {CopiedScopeTag(tag) : tag \in ToSet(tags)}
<1>1. Len(tags) \in Nat /\ DOMAIN tags = 1..Len(tags) /\ ToSet(tags) = {tags[i] : i \in 1..Len(tags)}
  BY TypedSequence DEF IsTags, IsSequence
<1>2. /\ mapped \in [1..Len(tags) -> All]
      /\ All = {mapped[i] : i \in 1..Len(tags)}
  <2>1. \A i \in 1..Len(tags) : mapped[i] = CopiedScopeTag(tags[i]) /\ tags[i] \in ToSet(tags)
    BY <1>1
  <2>. QED BY <1>1, <2>1
<1>. HIDE DEF mapped, All
<1>3. mapped \in Seq(All) /\ Len(mapped) = Len(tags)
  BY <1>1, <1>2, SeqDef
<1>4. ToSet(mapped) = All /\ IsSequence(mapped)
  <2>1. IsSequence(mapped) /\ ToSet(mapped) = {mapped[i] : i \in 1..Len(mapped)}
    BY <1>3, TypedSequence
  <2>. QED BY <1>2, <1>3, <2>1
<1>. QED BY <1>4 DEF IsSequence, mapped, All

(* The scope a comment copies: the tags of its parent's, and a P tag of    *)
(* its own for an author they leave out.                                   *)
ScopeTags(tags) == {tag \in ToSet(tags) : At(tag, 1) \in ROOT_SCOPE_TAG_NAMES}

LEMMA CopiedScopes ==
  ASSUME NEW parent, IsEvent(parent), NEW root
  PROVE  /\ AreCommentTags(CopiedRootScope(parent, root), ROOT_SCOPE_TAG_NAMES)
         /\ \E author : ToSet(CopiedRootScope(parent, root))
              \in {{CopiedScopeTag(tag) : tag \in ScopeTags(parent.tags)},
                   {CopiedScopeTag(tag) : tag \in ScopeTags(parent.tags)} \cup {<<"P", author>>}}
<1>. DEFINE copied == Among(parent.tags, ScopeTags(parent.tags))
            scope  == [i \in DOMAIN copied |-> CopiedScopeTag(copied[i])]
            author == IF \E tag \in ToSet(scope) : tag[1] = "P" /\ At(tag, 2) \in Pubkeys THEN Null
                      ELSE KnownRootAuthor(parent, root)
            told   == <<"P", author>>
            Copies == {CopiedScopeTag(tag) : tag \in ScopeTags(parent.tags)}
<1>1. IsTags(copied) /\ ToSet(copied) = ScopeTags(parent.tags)
  BY SomeTags DEF IsEvent, ScopeTags
<1>2. CopiedRootScope(parent, root) = IF author = Null THEN scope ELSE Append(scope, told)
  BY DEF CopiedRootScope, ScopeTags
<1>. HIDE DEF copied
<1>3. scope \in Seq(ToSet(scope)) /\ ToSet(scope) = Copies
  BY <1>1, MappedTags
<1>. HIDE DEF scope
<1>4. ASSUME NEW copy \in Copies PROVE Names(copy, ROOT_SCOPE_TAG_NAMES) /\ Checked(copy, TRUE)
  <2>1. PICK tag \in ScopeTags(parent.tags) : copy = CopiedScopeTag(tag)
    OBVIOUS
  <2>2. IsSequence(tag) /\ At(tag, 1) \in ROOT_SCOPE_TAG_NAMES
    BY DEF ScopeTags, IsEvent, IsTags
  <2>3. Names(copy, {tag[1]}) /\ tag[1] = At(tag, 1) /\ Checked(copy, TRUE)
    BY <2>1, <2>2, CopiedTags
  <2>. QED BY <2>2, <2>3 DEF Names
<1>. HIDE DEF Copies
<1>5. AreCommentTags(scope, ROOT_SCOPE_TAG_NAMES)
  BY <1>3, <1>4 DEF AreCommentTags, IsTags, IsSequence, Names
<1>6. Names(told, ROOT_SCOPE_TAG_NAMES) /\ Checked(told, TRUE)
  <2>1. Names(told, {"P"})
    BY NamedTuples
  <2>. HIDE DEF told
  <2>. QED BY <2>1, CheckedNames DEF Names, ROOT_SCOPE_TAG_NAMES
<1>. HIDE DEF author, told
<1>7. /\ AreCommentTags(Append(scope, told), ROOT_SCOPE_TAG_NAMES)
      /\ ToSet(Append(scope, told)) = Copies \cup {told}
  <2>1. IsTags(Append(scope, told)) /\ ToSet(Append(scope, told)) = ToSet(scope) \cup {told}
    BY <1>5, <1>6, AppendTags DEF AreCommentTags, Names
  <2>. QED BY <1>3, <1>5, <1>6, <2>1 DEF AreCommentTags
<1>8. CASE author = Null
  BY <1>2, <1>3, <1>5, <1>8 DEF Copies
<1>9. CASE author # Null
  <2>1. CopiedRootScope(parent, root) = Append(scope, told)
    BY <1>2, <1>9
  <2>. QED BY <1>7, <2>1 DEF Copies, told
<1>. QED BY <1>8, <1>9

LEMMA CommentScopes ==
  ASSUME NEW parent, IsEvent(parent), NEW hint \in Hints
  PROVE  AreCommentTags(CommentRootScope(parent, hint), ROOT_SCOPE_TAG_NAMES)
<1>1. AreCommentTags(EventScopeTags(parent, hint), ROOT_SCOPE_TAG_NAMES)
  BY OpenedScopes DEF AreCommentTags, Names, ROOT_SCOPE_TAG_NAMES
<1>2. \A root : AreCommentTags(CopiedRootScope(parent, root), ROOT_SCOPE_TAG_NAMES)
  BY CopiedScopes
<1>. QED BY <1>1, <1>2 DEF CommentRootScope

(* The tags that name the parent of a comment.                             *)
ParentTag(parent, hint) == <<"e", parent.id, hint, parent.pubkey>>

LEMMA ParentItems ==
  ASSUME NEW parent, IsEvent(parent), NEW hint \in Hints
  PROVE  LET ref   == ReplyTargetRef(parent)
             event == ParentTag(parent, hint)
             kind  == <<"k", DecimalText[parent.kind]>>
             told  == WithHint(<<"p", parent.pubkey>>, hint)
         IN  /\ AreCommentTags(ParentItemTags(parent, hint), {"a", "e", "k", "p"})
             /\ Names(told, {"p"})
             /\ ToSet(ParentItemTags(parent, hint)) =
                  (IF ref.type = "address" THEN {<<"a", FormatRef(ref), hint>>} ELSE {}) \cup {event, kind, told}
<1>. DEFINE ref   == ReplyTargetRef(parent)
            place == <<"a", FormatRef(ref), hint>>
            first == IF ref.type = "address" THEN << place >> ELSE <<>>
            event == ParentTag(parent, hint)
            kind  == <<"k", DecimalText[parent.kind]>>
            told  == WithHint(<<"p", parent.pubkey>>, hint)
            All   == {"a", "e", "k", "p"}
<1>1. ParentItemTags(parent, hint) = first \o << event, kind, told >>
  BY DEF ParentItemTags, ParentTag
<1>2. Names(place, {"a"}) /\ Names(kind, {"k"}) /\ Names(told, {"p"})
  BY NamedTuples, HintedNames
<1>3. IsSequence(event) /\ event[1] = "e" /\ At(event, 1) = "e" /\ Checked(event, TRUE)
  <2>1. IsSequence(event) /\ Checked(event, TRUE)
    BY HintsAssumption, WrittenEventTags DEF IsEvent, ParentTag
  <2>2. event[1] = "e" /\ At(event, 1) = "e"
    BY DEF At, ParentTag
  <2>. QED BY <2>1, <2>2
<1>. HIDE DEF place, event, kind, told
<1>4. \A tag \in {place, event, kind, told} : Names(tag, All) /\ Checked(tag, TRUE)
  <2>1. Names(place, All) /\ Names(event, All) /\ Names(kind, All) /\ Names(told, All)
    BY <1>2, <1>3 DEF Names
  <2>2. Checked(place, TRUE) /\ Checked(kind, TRUE) /\ Checked(told, TRUE)
    BY <1>2, CheckedNames DEF Names
  <2>. QED BY <1>3, <2>1, <2>2
<1>. HIDE DEF All
<1>5. IsTags(<< event, kind, told >>) /\ ToSet(<< event, kind, told >>) = {event, kind, told}
  BY <1>4, ThreeTags DEF Names
<1>6. IsTags(first) /\ ToSet(first) = IF ref.type = "address" THEN {place} ELSE {}
  <2>1. IsTags(<< place >>) /\ ToSet(<< place >>) = {place}
    BY <1>4, OneTag DEF Names
  <2>. QED BY <2>1, NoTags
<1>. DEFINE last == << event, kind, told >>
<1>. HIDE DEF first, last
<1>7. IsTags(first \o last) /\ ToSet(first \o last) = ToSet(first) \cup ToSet(last)
  BY <1>5, <1>6, ConcatTags DEF last
<1>8. AreCommentTags(first \o last, All)
  BY <1>4, <1>5, <1>6, <1>7 DEF AreCommentTags, last
<1>. QED BY <1>1, <1>2, <1>5, <1>6, <1>7, <1>8 DEF event, kind, told, place, All, last

(* The tags of a comment on external content.                              *)
LEMMA ExternalScopes ==
  ASSUME NEW content, IsExternal(content), IsNamed(content)
  PROVE  LET hint  == content.hint ?? ""
             I == WithHint(<<"I", content.id>>, hint)
             i == WithHint(<<"i", content.id>>, hint)
             K == <<"K", content.kind>>
             k == <<"k", content.kind>>
         IN  /\ AreCommentTags(ExternalScopeTags(content), {"I", "K", "i", "k"})
             /\ ToSet(ExternalScopeTags(content)) = {I, K, i, k}
             /\ Names(I, {"I"}) /\ Names(i, {"i"}) /\ At(I, 2) = content.id /\ At(i, 2) = content.id
<1>. DEFINE hint == content.hint ?? ""
            I == WithHint(<<"I", content.id>>, hint)
            i == WithHint(<<"i", content.id>>, hint)
            K == <<"K", content.kind>>
            k == <<"k", content.kind>>
            All == {"I", "K", "i", "k"}
<1>1. ExternalScopeTags(content) = << I, K, i, k >>
  BY DEF ExternalScopeTags
<1>2. Names(I, {"I"}) /\ Names(i, {"i"}) /\ Names(K, {"K"}) /\ Names(k, {"k"})
  BY NamedTuples, HintedNames
<1>3. hint = "" \/ hint \in WebUrls
  <2>1. content.hint = Null \/ ParseWebUrl(content.hint) # Null
    BY DEF IsNamed
  <2>. QED BY <2>1 DEF ParseWebUrl, ??
<1>. HIDE DEF hint
<1>4. ASSUME NEW name
      PROVE  /\ At(WithHint(<<name, content.id>>, hint), 2) = content.id
             /\ At(WithHint(<<name, content.id>>, hint), 3) \in {Null} \cup WebUrls
  <2>. DEFINE tag == WithHint(<<name, content.id>>, hint)
  <2>1. tag = IF hint = "" THEN <<name, content.id>> ELSE <<name, content.id, hint>>
    BY HintedTags
  <2>. HIDE DEF tag
  <2>2. ASSUME hint = "" PROVE At(tag, 2) = content.id /\ At(tag, 3) = Null
    <3>1. tag = <<name, content.id>>
      BY <2>1, <2>2
    <3>. QED BY <3>1 DEF At
  <2>3. ASSUME hint # "" PROVE At(tag, 2) = content.id /\ At(tag, 3) = hint
    <3>1. tag = <<name, content.id, hint>>
      BY <2>1, <2>3
    <3>. QED BY <3>1 DEF At
  <2>4. At(tag, 2) = content.id /\ At(tag, 3) \in {Null} \cup WebUrls
    BY <1>3, <2>2, <2>3
  <2>. QED BY <2>4 DEF tag
<1>5. At(I, 2) = content.id /\ At(i, 2) = content.id /\ At(I, 3) \in {Null} \cup WebUrls
  BY <1>4
<1>. HIDE DEF I, K, i, k
<1>6. \A tag \in {I, K, i, k} : Names(tag, All) /\ Checked(tag, TRUE)
  <2>1. Checked(I, TRUE)
    BY <1>2, <1>5 DEF Checked, Names
  <2>2. Checked(K, TRUE) /\ Checked(i, TRUE) /\ Checked(k, TRUE)
    BY <1>2, CheckedNames DEF Names
  <2>. QED BY <1>2, <2>1, <2>2 DEF Names
<1>. HIDE DEF All
<1>7. IsTags(<< I, K, i, k >>) /\ ToSet(<< I, K, i, k >>) = {I, K, i, k}
  BY <1>6, FourTags DEF Names
<1>8. AreCommentTags(<< I, K, i, k >>, All)
  BY <1>6, <1>7 DEF AreCommentTags
<1>. QED BY <1>1, <1>2, <1>5, <1>7, <1>8 DEF I, K, i, k, hint, All

-----------------------------------------------------------------------------
(* What buildReply answers, and the tags it answers with.                  *)
LEMMA Parents ==
  /\ \A parent : IsEvent(parent) => ~IsExternalContent(parent)
  /\ \A parent : IsExternal(parent) => IsExternalContent(parent)
<1>1. ASSUME NEW parent, IsEvent(parent) PROVE ~IsExternalContent(parent)
  <2>1. parent = [kind |-> parent.kind, id |-> parent.id, pubkey |-> parent.pubkey, tags |-> parent.tags]
    BY <1>1 DEF IsEvent
  <2>2. DOMAIN [kind |-> parent.kind, id |-> parent.id, pubkey |-> parent.pubkey, tags |-> parent.tags]
          = {"kind", "id", "pubkey", "tags"}
    OBVIOUS
  <2>3. DOMAIN parent = {"kind", "id", "pubkey", "tags"}
    BY <2>1, <2>2
  <2>. QED BY <2>3 DEF IsExternalContent
<1>2. ASSUME NEW parent, IsExternal(parent) PROVE IsExternalContent(parent)
  <2>1. parent = [type |-> "external", id |-> parent.id, kind |-> parent.kind, hint |-> parent.hint]
    BY <1>2 DEF IsExternal
  <2>2. DOMAIN [type |-> "external", id |-> parent.id, kind |-> parent.kind, hint |-> parent.hint]
          = {"type", "id", "kind", "hint"}
    OBVIOUS
  <2>3. DOMAIN parent = {"type", "id", "kind", "hint"}
    BY <2>1, <2>2
  <2>. QED BY <2>3 DEF IsExternalContent
<1>. QED BY <1>1, <1>2

AreChecked(tags, commenting) == IsTags(tags) /\ \A tag \in ToSet(tags) : Checked(tag, commenting)

LEMMA CheckedTogether ==
  ASSUME NEW a, NEW b, NEW commenting, AreChecked(a, commenting), AreChecked(b, commenting)
  PROVE  AreChecked(a \o b, commenting)
BY ConcatTags DEF AreChecked

LEMMA OneChecked ==
  ASSUME NEW tag, NEW commenting, IsSequence(tag), Checked(tag, commenting)
  PROVE  AreChecked(<< tag >>, commenting)
BY OneTag DEF AreChecked

LEMMA TwoChecked ==
  ASSUME NEW x, NEW y, NEW commenting, IsSequence(x), Checked(x, commenting), IsSequence(y), Checked(y, commenting)
  PROVE  AreChecked(<< x, y >>, commenting)
<1>. DEFINE two == << x, y >>
<1>1. IsTags(two) /\ ToSet(two) = {x, y}
  BY TwoTags
<1>. HIDE DEF two
<1>2. AreChecked(two, commenting)
  BY <1>1 DEF AreChecked
<1>. QED BY <1>2 DEF two

LEMMA EachInItsOwnKind ==
  ASSUME NEW parent, NEW hint
  PROVE  /\ parent.kind = KIND_TEXT_NOTE => OwnKindReplyTags(parent, hint) = NoteReplyTags(parent, hint)
         /\ parent.kind = KIND_CHAT_MESSAGE =>
              OwnKindReplyTags(parent, hint) = << <<"q", parent.id, hint, parent.pubkey>> >>
         /\ parent.kind = KIND_CHANNEL_MESSAGE => OwnKindReplyTags(parent, hint) = ChannelReplyTags(parent, hint)
         /\ parent.kind = KIND_LIVE_CHAT_MESSAGE =>
              OwnKindReplyTags(parent, hint) = LiveActivityTags(parent) \o << <<"e", parent.id, hint, parent.pubkey>> >>
BY DEF OwnKindReplyTags, KIND_CHAT_MESSAGE, KIND_TEXT_NOTE, KIND_CHANNEL_MESSAGE, KIND_LIVE_CHAT_MESSAGE

LEMMA TellingIsChecked ==
  ASSUME NEW tags, IsTags(tags), \A tag \in ToSet(tags) : tag[1] \in {"p", "q", "t"}
  PROVE  \A commenting : AreChecked(tags, commenting)
BY CheckedNames DEF AreChecked

LEMMA OwnKindReplies ==
  ASSUME NEW parent, IsEvent(parent), parent.kind \in OwnKinds, NEW hint \in Hints
  PROVE  AreChecked(OwnKindReplyTags(parent, hint), FALSE)
<1>1. CASE parent.kind = KIND_TEXT_NOTE
  <2>. DEFINE notes == NoteThreadTags(parent, hint, InheritedRootTag(parent))
              who   == Participants(parent, InheritedRootTag(parent))
              told  == PubkeyTags(who)
  <2>1. /\ NoteReplyTags(parent, hint) = notes \o told
        /\ IsTags(notes) /\ \A tag \in ToSet(notes) : Checked(tag, FALSE)
        /\ IsTags(told) /\ ToSet(told) = {<<"p", pubkey>> : pubkey \in who}
    BY NoteReplies
  <2>2. \A pubkey : <<"p", pubkey>>[1] = "p"
    OBVIOUS
  <2>. HIDE DEF notes, told, who
  <2>3. AreChecked(told, FALSE)
    BY <2>1, <2>2, TellingIsChecked
  <2>4. AreChecked(notes \o told, FALSE)
    BY <2>1, <2>3, CheckedTogether DEF AreChecked
  <2>. QED BY <1>1, <2>1, <2>4, EachInItsOwnKind
<1>2. CASE parent.kind = KIND_CHAT_MESSAGE
  <2>. DEFINE quote == <<"q", parent.id, hint, parent.pubkey>>
  <2>1. OwnKindReplyTags(parent, hint) = << quote >>
    BY <1>2, EachInItsOwnKind
  <2>2. Names(quote, {"q"})
    BY NamedTuples
  <2>. HIDE DEF quote
  <2>. QED BY <2>1, <2>2, CheckedNames, OneChecked DEF Names
<1>3. CASE parent.kind = KIND_CHANNEL_MESSAGE
  <2>. DEFINE channel == IF Channel(parent) = Null THEN <<>> ELSE << Channel(parent) >>
              reply   == <<"e", parent.id, hint, "reply", parent.pubkey>>
              told    == WithHint(<<"p", parent.pubkey>>, hint)
  <2>1. /\ ChannelReplyTags(parent, hint) = channel \o << reply, told >>
        /\ AreChecked(channel, FALSE)
        /\ IsSequence(reply) /\ Checked(reply, FALSE) /\ IsSequence(told) /\ Checked(told, FALSE)
    BY ChannelReplies DEF AreChecked
  <2>. HIDE DEF channel, reply, told
  <2>2. AreChecked(<< reply, told >>, FALSE)
    BY <2>1, TwoChecked
  <2>3. AreChecked(channel \o << reply, told >>, FALSE)
    BY <2>1, <2>2, CheckedTogether
  <2>4. OwnKindReplyTags(parent, hint) = ChannelReplyTags(parent, hint)
    BY <1>3, EachInItsOwnKind
  <2>. QED BY <2>1, <2>3, <2>4
<1>4. CASE parent.kind = KIND_LIVE_CHAT_MESSAGE
  <2>. DEFINE live  == LiveActivityTags(parent)
              event == <<"e", parent.id, hint, parent.pubkey>>
  <2>1. OwnKindReplyTags(parent, hint) = live \o << event >>
    BY <1>4, EachInItsOwnKind
  <2>2. AreChecked(live, FALSE) /\ IsSequence(event) /\ Checked(event, FALSE)
    BY LiveReplies DEF AreChecked
  <2>. HIDE DEF live, event
  <2>. QED BY <2>1, <2>2, OneChecked, CheckedTogether
<1>. QED BY <1>1, <1>2, <1>3, <1>4 DEF OwnKinds

LEMMA CommentReplies ==
  ASSUME NEW parent, IsEvent(parent), NEW hint \in Hints
  PROVE  AreChecked(CommentRootScope(parent, hint) \o ParentItemTags(parent, hint), TRUE)
<1>1. AreChecked(CommentRootScope(parent, hint), TRUE)
  BY CommentScopes DEF AreCommentTags, AreChecked
<1>2. AreChecked(ParentItemTags(parent, hint), TRUE)
  BY ParentItems DEF AreCommentTags, AreChecked
<1>. QED BY <1>1, <1>2, CheckedTogether

(* What is asked of an entry before it is answered.                        *)
MayAnswer(parent, hint) ==
  /\ IsEvent(parent) \/ IsExternal(parent)
  /\ hint \in Hints
  /\ IsExternalContent(parent) => hint = "" /\ IsNamed(parent)

LEMMA RepliesAreChecked ==
  ASSUME NEW parent, NEW hint, MayAnswer(parent, hint)
  PROVE  /\ ReplyKind(parent) \in OwnKinds \cup {KIND_COMMENT}
         /\ AreChecked(ReplyTags(parent, hint), ReplyKind(parent) = KIND_COMMENT)
<1>1. CASE IsExternal(parent)
  <2>1. IsExternalContent(parent) /\ IsNamed(parent)
    BY <1>1, Parents DEF MayAnswer
  <2>2. ReplyTags(parent, hint) = ExternalScopeTags(parent) /\ ReplyKind(parent) = KIND_COMMENT
    BY <2>1 DEF ReplyTags, ReplyKind
  <2>3. AreCommentTags(ExternalScopeTags(parent), {"I", "K", "i", "k"})
    BY <1>1, <2>1, ExternalScopes
  <2>4. AreChecked(ExternalScopeTags(parent), TRUE)
    BY <2>3 DEF AreCommentTags, AreChecked
  <2>. QED BY <2>2, <2>4
<1>2. CASE IsEvent(parent) /\ parent.kind \in OwnKinds
  <2>1. /\ ReplyTags(parent, hint) = OwnKindReplyTags(parent, hint) /\ ReplyKind(parent) = parent.kind
        /\ parent.kind # KIND_COMMENT
    BY <1>2, Parents DEF ReplyTags, ReplyKind, OwnKinds, KIND_COMMENT,
         KIND_CHAT_MESSAGE, KIND_TEXT_NOTE, KIND_CHANNEL_MESSAGE, KIND_LIVE_CHAT_MESSAGE
  <2>2. AreChecked(OwnKindReplyTags(parent, hint), FALSE)
    BY <1>2, OwnKindReplies DEF MayAnswer
  <2>. QED BY <1>2, <2>1, <2>2
<1>3. CASE IsEvent(parent) /\ parent.kind \notin OwnKinds
  <2>1. /\ ReplyTags(parent, hint) = CommentRootScope(parent, hint) \o ParentItemTags(parent, hint)
        /\ ReplyKind(parent) = KIND_COMMENT
    BY <1>3, Parents DEF ReplyTags, ReplyKind
  <2>2. AreChecked(CommentRootScope(parent, hint) \o ParentItemTags(parent, hint), TRUE)
    BY <1>3, CommentReplies DEF MayAnswer
  <2>. QED BY <2>1, <2>2
<1>. QED BY <1>1, <1>2, <1>3 DEF MayAnswer

LEMMA BuiltTags ==
  ASSUME NEW parent, NEW hint, MayAnswer(parent, hint), NEW content \in Contents
  PROVE  LET tags   == ReplyTags(parent, hint)
             beside == ContentTagsBeside(tags, content)
             built  == WithContentTags(tags, content)
         IN  /\ built = tags \o beside /\ AreMentions(beside) /\ IsTags(tags)
             /\ AreChecked(built, ReplyKind(parent) = KIND_COMMENT)
             /\ ToSet(built) = ToSet(tags) \cup ToSet(beside)
<1>. DEFINE tags       == ReplyTags(parent, hint)
            beside     == ContentTagsBeside(tags, content)
            commenting == ReplyKind(parent) = KIND_COMMENT
<1>1. WithContentTags(tags, content) = tags \o beside
  BY DEF WithContentTags
<1>2. AreMentions(beside)
  BY ContentsAssumption, BesideMentions
<1>3. AreChecked(tags, commenting)
  BY RepliesAreChecked
<1>. HIDE DEF tags, beside, commenting
<1>4. AreChecked(beside, commenting)
  BY <1>2, TellingIsChecked DEF AreMentions, IsMention
<1>5. AreChecked(tags \o beside, commenting)
  BY <1>3, <1>4, CheckedTogether
<1>6. ToSet(tags \o beside) = ToSet(tags) \cup ToSet(beside)
  BY <1>3, <1>4, ConcatTags DEF AreChecked
<1>. QED BY <1>1, <1>2, <1>3, <1>5, <1>6 DEF tags, beside, commenting, AreChecked

-----------------------------------------------------------------------------
(* What the tags of a comment point at.                                    *)
IsRef(ref) ==
  \/ \E id \in EventIds : ref = EventRef(id)
  \/ \E text \in DOMAIN Addresses : ref = AddressRef(Addresses[text])
  \/ IsExternal(ref)

LEMMA RefTypes == \A ref : IsRef(ref) => ref.type \in {"event", "address", "external"}
<1>1. /\ \A id : EventRef(id).type = "event"
      /\ \A address : AddressRef(address).type = "address"
      /\ \A id, kind, hint : [type |-> "external", id |-> id, kind |-> kind, hint |-> hint].type = "external"
  BY DEF EventRef, AddressRef
<1>. QED BY <1>1 DEF IsRef, IsExternal

LEMMA TagsPoint == \A tag : RefFromTag(tag) = Null \/ IsRef(RefFromTag(tag))
<1>. SUFFICES ASSUME NEW tag PROVE RefFromTag(tag) = Null \/ IsRef(RefFromTag(tag))
  OBVIOUS
<1>1. At(tag, 2) \in EventIds => tag[2] \in EventIds
  BY NothingAssumption DEF At
<1>2. At(tag, 2) \in DOMAIN Addresses => tag[2] \in DOMAIN Addresses
  BY NothingAssumption DEF At
<1>. QED BY <1>1, <1>2 DEF RefFromTag, IsRef

LEMMA SoleRefs ==
  ASSUME NEW tags
  PROVE  /\ SoleRef(tags) = Null \/ \E tag \in ToSet(tags) : SoleRef(tags) = RefFromTag(tag)
         /\ SoleRef(tags) = Null \/ IsRef(SoleRef(tags))
<1>. DEFINE refs == {RefFromTag(tag) : tag \in ToSet(tags)} \ {Null}
<1>1. SoleRef(tags) = Null \/ SoleRef(tags) \in refs
  BY DEF SoleRef, SoleValue
<1>. QED BY <1>1, TagsPoint

LEMMA CommentsPoint ==
  ASSUME NEW tags
  PROVE  /\ CommentPointers(tags).root = Null \/ IsRef(CommentPointers(tags).root)
         /\ CommentPointers(tags).replyTo = Null \/ IsRef(CommentPointers(tags).replyTo)
<1>1. \A name : SoleRefTagged(tags, name) = Null \/ IsRef(SoleRefTagged(tags, name))
  BY SoleRefs DEF SoleRefTagged
<1>2. ASSUME NEW idTag, NEW kindTag
      PROVE  ExternalContent(tags, idTag, kindTag) = Null \/ IsRef(ExternalContent(tags, idTag, kindTag))
  <2>. DEFINE id   == SoleNonEmptyValue(tags, idTag)
              kind == SoleNonEmptyValue(tags, kindTag)
              ext  == [type |-> "external", id |-> id, kind |-> kind, hint |-> SoleWebUrlHint(tags, idTag)]
  <2>1. ExternalContent(tags, idTag, kindTag) = IF Null \in {id, kind} THEN Null ELSE ext
    BY DEF ExternalContent
  <2>. HIDE DEF id, kind
  <2>2. Null \notin {id, kind} => IsExternal(ext)
    BY DEF IsExternal
  <2>. HIDE DEF ext
  <2>. QED BY <2>1, <2>2 DEF IsRef
<1>. QED BY <1>1, <1>2 DEF CommentPointers, ??

LEMMA PlainCategory ==
  ASSUME NEW k, k \in {1, 9, 42, 1111, 1244, 1311}
  PROVE  KindCategory(k) = "regular"
<1>1. k \in Nat /\ k < 10000 /\ ~(k \in {0, 3})
  OBVIOUS
<1>2. ASSUME k \in 10000..19999 PROVE FALSE
  <2>1. k >= 10000
    BY <1>2
  <2>. QED BY <1>1, <2>1
<1>3. ASSUME k \in 20000..29999 PROVE FALSE
  <2>1. k >= 20000
    BY <1>3
  <2>. QED BY <1>1, <2>1
<1>4. ASSUME k \in 30000..39999 PROVE FALSE
  <2>1. k >= 30000
    BY <1>4
  <2>. QED BY <1>1, <2>1
<1>5. ~(k \in {0, 3} \/ k \in 10000..19999) /\ ~(k \in 20000..29999) /\ ~(k \in 30000..39999)
  BY <1>1, <1>2, <1>3, <1>4
<1>6. KindCategory(k) = IF k \in {0, 3} \/ k \in 10000..19999 THEN "replaceable"
                        ELSE IF k \in 20000..29999 THEN "ephemeral"
                        ELSE IF k \in 30000..39999 THEN "addressable"
                        ELSE "regular"
  BY DEF KindCategory
<1>. HIDE DEF KindCategory
<1>. QED BY <1>5, <1>6

LEMMA PlainKinds ==
  ASSUME NEW event, event.kind \in ThreadingKinds
  PROVE  ReplyTargetRef(event) = EventRef(event.id)
<1>1. event.kind \in {1, 9, 42, 1111, 1244, 1311}
  BY DEF ThreadingKinds, COMMENT_KINDS, KIND_TEXT_NOTE, KIND_CHAT_MESSAGE, KIND_CHANNEL_MESSAGE, KIND_COMMENT,
         KIND_VOICE_MESSAGE_COMMENT, KIND_LIVE_CHAT_MESSAGE
<1>2. KindCategory(event.kind) = "regular"
  BY <1>1, PlainCategory
<1>3. CoordinateIdentifier(event) = Null
  BY <1>2 DEF CoordinateIdentifier
<1>. QED BY <1>3 DEF ReplyTargetRef

LEMMA Targets ==
  ASSUME NEW event, IsEvent(event), HasText(ReplyTargetRef(event))
  PROVE  /\ IsRef(ReplyTargetRef(event)) /\ ~IsExternal(ReplyTargetRef(event))
         /\ ReplyTargetRef(event).type \in {"event", "address"}
         /\ ReplyTargetRef(event).type = "event" => ReplyTargetRef(event) = EventRef(event.id)
<1>. DEFINE ref     == ReplyTargetRef(event)
            address == [kind |-> event.kind, pubkey |-> event.pubkey, dTag |-> CoordinateIdentifier(event)]
<1>1. ref = EventRef(event.id) \/ ref = AddressRef(address)
  BY DEF ReplyTargetRef
<1>. HIDE DEF ref, address
<1>2. CASE ref = EventRef(event.id)
  BY <1>2 DEF EventRef, IsRef, IsEvent, IsExternal, ref
<1>3. CASE ref = AddressRef(address)
  <2>1. ref.type = "address" /\ ref.address = address
    BY <1>3 DEF AddressRef
  <2>2. PICK text \in DOMAIN Addresses : Addresses[text] = ref.address
    BY <2>1 DEF HasText, ref
  <2>3. ref = AddressRef(Addresses[text])
    BY <1>3, <2>1, <2>2
  <2>4. IsRef(ref)
    BY <2>3 DEF IsRef
  <2>5. ~IsExternal(ref)
    <3>1. \A id, kind, hint : [type |-> "external", id |-> id, kind |-> kind, hint |-> hint].type = "external"
      OBVIOUS
    <3>. QED BY <2>1, <3>1 DEF IsExternal
  <2>. QED BY <2>1, <2>4, <2>5 DEF ref
<1>. QED BY <1>1, <1>2, <1>3

(* What an event other programs comment on opens, and what they answer.    *)
LEMMA Opened ==
  ASSUME NEW parent, \/ IsExternal(parent)
                     \/ IsEvent(parent) /\ HasText(ReplyTargetRef(parent)) /\ parent.kind \notin OwnKinds
  PROVE  IsRef(Opens(parent)) /\ IsRef(TargetOf(parent))
<1>1. CASE IsExternal(parent)
  BY <1>1, Parents DEF Opens, TargetOf, IsRef
<1>2. CASE IsEvent(parent) /\ HasText(ReplyTargetRef(parent)) /\ parent.kind \notin OwnKinds
  <2>1. Opens(parent) = ThreadOf(parent) /\ TargetOf(parent) = ReplyTargetRef(parent)
    BY <1>2, Parents DEF Opens, TargetOf
  <2>2. IsRef(ReplyTargetRef(parent))
    BY <1>2, Targets
  <2>3. ThreadOf(parent) = IF ThreadsAsComment(parent.kind) THEN ScopedRoot(parent) ?? ReplyTargetRef(parent)
                           ELSE ReplyTargetRef(parent)
    BY <1>2 DEF ThreadOf, OwnKinds
  <2>4. CASE ThreadsAsComment(parent.kind)
    <3>1. Refs(parent).root = CommentPointers(parent.tags).root
      <4>1. Pointers(parent) = CommentPointers(parent.tags)
        BY <1>2, <2>4 DEF Pointers, OwnKinds
      <4>. QED BY <4>1 DEF Refs
    <3>2. ScopedRoot(parent) = Null \/ IsRef(ScopedRoot(parent))
      BY <3>1, CommentsPoint DEF ScopedRoot
    <3>. QED BY <2>1, <2>2, <2>3, <2>4, <3>2 DEF ??
  <2>5. CASE ~ThreadsAsComment(parent.kind)
    BY <2>1, <2>2, <2>3, <2>5
  <2>. QED BY <2>4, <2>5
<1>. QED BY <1>1, <1>2

-----------------------------------------------------------------------------
(* What other programs answer with is well-formed too.                     *)
LEMMA ForeignTags ==
  ASSUME NEW parent
  PROVE  /\ IsTags(PositionalTags(parent)) /\ IsTags(MarkedTags(parent))
         /\ IsRef(Opens(parent)) /\ IsRef(TargetOf(parent)) => IsTags(BareCommentTags(parent))
<1>1. IsTags(PositionalTags(parent))
  <2>. DEFINE first == <<"e", Opens(parent).id, RawHint>>
              list  == IF Opens(parent).id = parent.id THEN <<>> ELSE << first >>
              last  == <<"e", parent.id>>
  <2>1. IsSequence(first) /\ IsSequence(last)
    BY Tuples
  <2>2. PositionalTags(parent) = list \o << last >>
    BY DEF PositionalTags
  <2>. HIDE DEF first, last
  <2>3. IsTags(list) /\ IsTags(<< last >>)
    BY <2>1, NoTags, OneTag
  <2>. HIDE DEF list
  <2>. QED BY <2>2, <2>3, ConcatTags
<1>2. IsTags(MarkedTags(parent))
  <2>. DEFINE root  == Opens(parent)
              named == <<"e", root.id, RawHint, "root">>
              reply == <<"e", parent.id, "", "reply">>
              told  == <<"p", parent.pubkey>>
              a     == IF root = Null THEN <<>> ELSE << named >>
              b     == IF root # Null /\ root.id = parent.id THEN <<>> ELSE << reply >>
  <2>1. IsSequence(named) /\ IsSequence(reply) /\ IsSequence(told)
    BY Tuples
  <2>2. MarkedTags(parent) = a \o b \o << told >>
    BY DEF MarkedTags
  <2>. HIDE DEF named, reply, told
  <2>3. IsTags(a) /\ IsTags(b) /\ IsTags(<< told >>)
    BY <2>1, NoTags, OneTag
  <2>. HIDE DEF a, b
  <2>4. IsTags(a \o b)
    BY <2>3, ConcatTags
  <2>. QED BY <2>2, <2>3, <2>4, ConcatTags
<1>3. ASSUME IsRef(Opens(parent)), IsRef(TargetOf(parent)) PROVE IsTags(BareCommentTags(parent))
  <2>. DEFINE up   == PointerTag(Opens(parent), "E", "A", "I")
              K    == <<"K", RootKindText(parent)>>
              down == PointerTag(TargetOf(parent), "e", "a", "i")
              k    == <<"k", ParentKindText(parent)>>
  <2>1. BareCommentTags(parent) = << up, K, down, k >>
    BY DEF BareCommentTags
  <2>2. IsSequence(up) /\ IsSequence(down) /\ IsSequence(K) /\ IsSequence(k)
    <3>1. ASSUME NEW ref, IsRef(ref), NEW event, NEW address, NEW external
          PROVE  IsSequence(PointerTag(ref, event, address, external))
      <4>1. PointerTag(ref, event, address, external)
              \in {<<event, ref.id, RawHint>>, <<address, FormatRef(ref), RawHint>>, <<external, ref.id, RawHint>>}
        BY <3>1, RefTypes DEF PointerTag
      <4>2. \A a, b, c : IsSequence(<<a, b, c>>)
        BY Tuples
      <4>. QED BY <4>1, <4>2
    <3>2. IsSequence(K) /\ IsSequence(k)
      BY Tuples
    <3>. QED BY <1>3, <3>1, <3>2
  <2>. HIDE DEF up, K, down, k
  <2>. QED BY <2>1, <2>2, FourTags
<1>. QED BY <1>1, <1>2, <1>3

-----------------------------------------------------------------------------
(* How an entry of a path came about: what it is built from, and what of   *)
(* its parent.  Each entry answers the one before it, so what a property   *)
(* says of an entry is decided by the two.                                 *)
WellFormed(parent) ==
  \/ IsExternal(parent)
  \/ IsEvent(parent) /\ HasText(ReplyTargetRef(parent))

Opening(entry) ==
  \/ \E event \in OpeningEvents : entry = Entry("opening", event, NoText)
  \/ \E content \in OpeningContents : entry = Entry("opening", content, NoText)

EventOf(kind, id, author, tags) == [kind |-> kind, id |-> id, pubkey |-> author, tags |-> tags]

BuiltOn(entry, parent, id) ==
  \E author \in Authors, hint \in Hints, content \in Contents :
    /\ MayAnswer(parent, hint)
    /\ entry = Entry("buildReply",
                     EventOf(ReplyKind(parent), id, author, WithContentTags(ReplyTags(parent, hint), content)), content)

ForeignOn(entry, parent, id) ==
  \E author \in Authors :
    \/ /\ IsExternalContent(parent) \/ parent.kind \notin OwnKinds
       /\ IsReferable(parent)
       /\ \E kind \in COMMENT_KINDS :
            entry = Entry("bare", EventOf(kind, id, author, BareCommentTags(parent)), NoText)
    \/ /\ ~IsExternalContent(parent) /\ parent.kind = KIND_TEXT_NOTE
       /\ entry = Entry("positional", EventOf(KIND_TEXT_NOTE, id, author, PositionalTags(parent)), NoText)
    \/ /\ ~IsExternalContent(parent) /\ parent.kind \in {KIND_TEXT_NOTE, KIND_CHANNEL_MESSAGE}
       /\ entry = Entry("marked", EventOf(parent.kind, id, author, MarkedTags(parent)), NoText)

Path ==
  /\ IsSequence(thread) /\ Len(thread) \in 1..MaxLength
  /\ Opening(thread[1])
  /\ \A i \in 1..Len(thread) : WellFormed(EventAt(i))
  /\ \A i \in 2..Len(thread) : \/ BuiltOn(thread[i], EventAt(i - 1), Ids[i])
                               \/ ForeignOn(thread[i], EventAt(i - 1), Ids[i])

LEMMA Entries ==
  ASSUME NEW by, NEW event, NEW content
  PROVE  /\ Entry(by, event, content).by = by
         /\ Entry(by, event, content).event = event
         /\ Entry(by, event, content).content = content
BY DEF Entry

LEMMA OpeningsAreWellFormed ==
  ASSUME NEW entry, Opening(entry)
  PROVE  WellFormed(entry.event) /\ entry.by = "opening"
BY Entries, OpeningsAssumption DEF Opening, WellFormed

LEMMA EventsOf ==
  ASSUME NEW kind \in ThreadingKinds, NEW id \in EventIds, NEW author \in Authors, NEW tags, IsTags(tags)
  PROVE  WellFormed(EventOf(kind, id, author, tags))
<1>. DEFINE event == EventOf(kind, id, author, tags)
<1>1. event.kind = kind /\ event.id = id /\ event.pubkey = author /\ event.tags = tags
  BY DEF EventOf
<1>2. event = [kind |-> event.kind, id |-> event.id, pubkey |-> event.pubkey, tags |-> event.tags]
  BY <1>1 DEF EventOf
<1>. HIDE DEF event
<1>3. kind \in DOMAIN DecimalText
  BY KindTextsAssumption
<1>4. IsEvent(event)
  BY <1>1, <1>2, <1>3, AuthorsAssumption DEF IsEvent
<1>5. ReplyTargetRef(event) = EventRef(event.id)
  BY <1>1, PlainKinds
<1>6. HasText(ReplyTargetRef(event))
  BY <1>5 DEF HasText, EventRef
<1>. QED BY <1>4, <1>6 DEF WellFormed, event

LEMMA AnswersAreWellFormed ==
  ASSUME NEW entry, NEW parent, WellFormed(parent), NEW id \in EventIds,
         BuiltOn(entry, parent, id) \/ ForeignOn(entry, parent, id)
  PROVE  WellFormed(entry.event)
<1>1. CASE BuiltOn(entry, parent, id)
  <2>1. PICK author \in Authors, hint \in Hints, content \in Contents :
          /\ MayAnswer(parent, hint)
          /\ entry = Entry("buildReply",
                           EventOf(ReplyKind(parent), id, author, WithContentTags(ReplyTags(parent, hint), content)),
                           content)
    BY <1>1 DEF BuiltOn
  <2>2. AreChecked(WithContentTags(ReplyTags(parent, hint), content), ReplyKind(parent) = KIND_COMMENT)
    BY <2>1, BuiltTags
  <2>3. ReplyKind(parent) \in ThreadingKinds
    BY <2>1, RepliesAreChecked DEF OwnKinds, ThreadingKinds, COMMENT_KINDS
  <2>. QED BY <2>1, <2>2, <2>3, Entries, EventsOf DEF AreChecked
<1>2. CASE ForeignOn(entry, parent, id)
  <2>1. PICK author \in Authors :
          \/ /\ IsExternalContent(parent) \/ parent.kind \notin OwnKinds
             /\ \E kind \in COMMENT_KINDS :
                  entry = Entry("bare", EventOf(kind, id, author, BareCommentTags(parent)), NoText)
          \/ entry = Entry("positional", EventOf(KIND_TEXT_NOTE, id, author, PositionalTags(parent)), NoText)
          \/ /\ parent.kind \in {KIND_TEXT_NOTE, KIND_CHANNEL_MESSAGE}
             /\ entry = Entry("marked", EventOf(parent.kind, id, author, MarkedTags(parent)), NoText)
    BY <1>2 DEF ForeignOn
  <2>2. COMMENT_KINDS \cup {KIND_TEXT_NOTE, KIND_CHANNEL_MESSAGE} \subseteq ThreadingKinds
    BY DEF ThreadingKinds
  <2>3. IsTags(PositionalTags(parent)) /\ IsTags(MarkedTags(parent))
    BY ForeignTags
  <2>4. IsExternalContent(parent) \/ parent.kind \notin OwnKinds => IsTags(BareCommentTags(parent))
    <3>1. IsExternalContent(parent) => IsExternal(parent)
      BY Parents DEF WellFormed
    <3>. QED BY <3>1, Opened, ForeignTags DEF WellFormed
  <2>. QED BY <2>1, <2>2, <2>3, <2>4, Entries, EventsOf
<1>. QED BY <1>1, <1>2

LEMMA Grown ==
  ASSUME NEW s, IsSequence(s), NEW e
  PROVE  /\ IsSequence(Append(s, e)) /\ Len(s) \in Nat /\ Len(Append(s, e)) = Len(s) + 1
         /\ Append(s, e)[Len(s) + 1] = e /\ \A i \in 1..Len(s) : Append(s, e)[i] = s[i]
<1>. DEFINE T == ToSet(s) \cup {e}
            t == Append(s, e)
<1>1. s \in Seq(T) /\ e \in T
  BY Wider DEF IsSequence
<1>. HIDE DEF T
<1>2. t \in Seq(T) /\ Len(s) \in Nat /\ Len(t) = Len(s) + 1 /\ t[Len(s) + 1] = e /\ \A i \in 1..Len(s) : t[i] = s[i]
  BY <1>1
<1>3. IsSequence(t)
  BY <1>2, TypedSequence
<1>. QED BY <1>2, <1>3

LEMMA Started ==
  ASSUME NEW e
  PROVE  IsSequence(<< e >>) /\ Len(<< e >>) = 1 /\ << e >>[1] = e
BY Tuples

LEMMA PathStarts ==
  ASSUME NEW e, Opening(e), NEW s, s = << e >>
  PROVE  /\ IsSequence(s) /\ Len(s) \in 1..MaxLength /\ Opening(s[1])
         /\ \A i \in 1..Len(s) : WellFormed(s[i].event)
         /\ \A i \in 2..Len(s) : FALSE
<1>1. IsSequence(s) /\ Len(s) = 1 /\ s[1] = e
  BY Started
<1>2. MaxLength \in Nat /\ MaxLength >= 1
  BY IdsAssumption DEF MaxLength
<1>3. WellFormed(e.event)
  BY OpeningsAreWellFormed
<1>. QED BY <1>1, <1>2, <1>3

LEMMA Answers ==
  ASSUME Path, Len(thread) < MaxLength, NEW entry,
         \/ BuiltOn(entry, Answered, Ids[Len(thread) + 1])
         \/ ForeignOn(entry, Answered, Ids[Len(thread) + 1]),
         thread' = Append(thread, entry)
  PROVE  Path'
<1>. DEFINE n == Len(thread)
<1>1. IsSequence(thread) /\ n \in Nat /\ n >= 1
  BY Grown DEF Path
<1>a. IsSequence(thread')
  BY <1>1, Grown
<1>b. Len(thread') = Len(thread) + 1
  BY <1>1, Grown
<1>c. thread'[Len(thread) + 1] = entry
  BY <1>1, Grown
<1>d. \A i \in 1..Len(thread) : thread'[i] = thread[i]
  BY <1>1, Grown
<1>2. /\ IsSequence(thread') /\ Len(thread') = n + 1 /\ thread'[n + 1] = entry
      /\ \A i \in 1..n : thread'[i] = thread[i]
  BY <1>a, <1>b, <1>c, <1>d
<1>3. MaxLength \in Nat /\ Ids[n + 1] \in EventIds
  BY <1>1, IdsAssumption DEF MaxLength
<1>4. Answered = EventAt(n) /\ WellFormed(Answered)
  BY <1>1 DEF Answered, EventAt, Path
<1>5. WellFormed(entry.event)
  BY <1>3, <1>4, AnswersAreWellFormed
<1>. HIDE DEF n
<1>6. Len(thread') \in 1..MaxLength
  BY <1>1, <1>2, <1>3 DEF n
<1>7. Opening(thread'[1])
  BY <1>1, <1>2 DEF Path
<1>8. ASSUME NEW i \in 1..Len(thread') PROVE WellFormed(thread'[i].event)
  <2>1. CASE i \in 1..n
    BY <1>2, <2>1 DEF Path, EventAt, n
  <2>2. CASE i = n + 1
    BY <1>2, <1>5, <2>2
  <2>. QED BY <1>1, <1>2, <2>1, <2>2
<1>9. ASSUME NEW i \in 2..Len(thread')
      PROVE  \/ BuiltOn(thread'[i], thread'[i - 1].event, Ids[i])
             \/ ForeignOn(thread'[i], thread'[i - 1].event, Ids[i])
  <2>1. CASE i \in 2..n
    <3>1. thread'[i] = thread[i] /\ thread'[i - 1] = thread[i - 1]
      BY <1>1, <1>2, <2>1
    <3>. QED BY <2>1, <3>1 DEF Path, EventAt, n
  <2>2. CASE i = n + 1
    <3>1. thread'[i] = entry /\ thread'[i - 1] = thread[n]
      BY <1>1, <1>2, <2>2
    <3>. QED BY <1>4, <2>2, <3>1 DEF EventAt, n
  <2>. QED BY <1>1, <1>2, <2>1, <2>2
<1>. QED BY <1>2, <1>6, <1>7, <1>8, <1>9 DEF Path, EventAt

LEMMA PathInit == Init => Path
<1>. SUFFICES ASSUME Init PROVE Path
  OBVIOUS
<1>1. PICK entry : Opening(entry) /\ thread = << entry >>
  BY DEF Init, Opening
<1>. QED BY <1>1, PathStarts DEF Path, EventAt

LEMMA PathNext == Path /\ [Next]_vars => Path'
<1>. SUFFICES ASSUME Path, [Next]_vars PROVE Path'
  OBVIOUS
<1>0. WellFormed(Answered)
  <2>1. Len(thread) \in 1..Len(thread)
    BY Grown DEF Path
  <2>. QED BY <2>1 DEF Path, EventAt, Answered
<1>1. ASSUME NEW author \in Authors, NEW hint \in Hints, NEW content \in Contents, BuildReply(author, hint, content)
      PROVE  Path'
  <2>. DEFINE id    == Ids[Len(thread) + 1]
              entry == Entry("buildReply", EventOf(ReplyKind(Answered), id, author,
                                                   WithContentTags(ReplyTags(Answered, hint), content)), content)
  <2>1. Len(thread) < MaxLength /\ thread' = Append(thread, entry)
    BY <1>1 DEF BuildReply, Answer, EventOf
  <2>2. MayAnswer(Answered, hint)
    BY <1>0, <1>1 DEF BuildReply, MayAnswer, WellFormed
  <2>3. BuiltOn(entry, Answered, id)
    BY <2>2 DEF BuiltOn
  <2>. QED BY <2>1, <2>3, Answers
<1>2. ASSUME NEW author \in Authors, ForeignReply(author) PROVE Path'
  <2>. DEFINE id == Ids[Len(thread) + 1]
  <2>1. ASSUME NEW kind \in COMMENT_KINDS, IsExternalContent(Answered) \/ Answered.kind \notin OwnKinds,
               IsReferable(Answered),
               Answer("bare", author, kind, BareCommentTags(Answered), NoText)
        PROVE  Path'
    <3>. DEFINE entry == Entry("bare", EventOf(kind, id, author, BareCommentTags(Answered)), NoText)
    <3>1. Len(thread) < MaxLength /\ thread' = Append(thread, entry)
      BY <2>1 DEF Answer, EventOf
    <3>2. ForeignOn(entry, Answered, id)
      BY <2>1 DEF ForeignOn
    <3>. QED BY <3>1, <3>2, Answers
  <2>2. ASSUME ~IsExternalContent(Answered), Answered.kind = KIND_TEXT_NOTE,
               Answer("positional", author, KIND_TEXT_NOTE, PositionalTags(Answered), NoText)
        PROVE  Path'
    <3>. DEFINE entry == Entry("positional", EventOf(KIND_TEXT_NOTE, id, author, PositionalTags(Answered)), NoText)
    <3>1. Len(thread) < MaxLength /\ thread' = Append(thread, entry)
      BY <2>2 DEF Answer, EventOf
    <3>2. ForeignOn(entry, Answered, id)
      BY <2>2 DEF ForeignOn
    <3>. QED BY <3>1, <3>2, Answers
  <2>3. ASSUME ~IsExternalContent(Answered), Answered.kind \in {KIND_TEXT_NOTE, KIND_CHANNEL_MESSAGE},
               Answer("marked", author, Answered.kind, MarkedTags(Answered), NoText)
        PROVE  Path'
    <3>. DEFINE entry == Entry("marked", EventOf(Answered.kind, id, author, MarkedTags(Answered)), NoText)
    <3>1. Len(thread) < MaxLength /\ thread' = Append(thread, entry)
      BY <2>3 DEF Answer, EventOf
    <3>2. ForeignOn(entry, Answered, id)
      BY <2>3 DEF ForeignOn
    <3>. QED BY <3>1, <3>2, Answers
  <2>. QED BY <1>2, <2>1, <2>2, <2>3 DEF ForeignReply
<1>3. ASSUME OpenThread PROVE Path'
  <2>1. PICK entry : Opening(entry) /\ thread' = << entry >>
    BY <1>3 DEF OpenThread, Opening
  <2>. QED BY <2>1, PathStarts DEF Path, EventAt
<1>4. ASSUME UNCHANGED vars PROVE Path'
  BY <1>4 DEF Path, EventAt, vars
<1>. QED BY <1>1, <1>2, <1>3, <1>4 DEF Next

(* Every entry of a path answers the one before it, as buildReply does or  *)
(* as another program does.                                                *)
THEOREM PathInvariant == Spec => []Path
<1>. QED BY PathInit, PathNext, PTL DEF Spec

LEMMA ForeignEntries ==
  ASSUME NEW entry, NEW parent, NEW id, ForeignOn(entry, parent, id)
  PROVE  entry.by # "buildReply"
<1>1. PICK by \in {"bare", "positional", "marked"} : \E event : entry = Entry(by, event, NoText)
  <2>1. PICK author \in Authors :
          \/ \E kind \in COMMENT_KINDS :
               entry = Entry("bare", EventOf(kind, id, author, BareCommentTags(parent)), NoText)
          \/ entry = Entry("positional", EventOf(KIND_TEXT_NOTE, id, author, PositionalTags(parent)), NoText)
          \/ entry = Entry("marked", EventOf(parent.kind, id, author, MarkedTags(parent)), NoText)
    BY DEF ForeignOn
  <2>. QED BY <2>1
<1>. QED BY <1>1, Entries

LEMMA BuiltEntries ==
  ASSUME Path, NEW i \in Built
  PROVE  \E author \in Authors, hint \in Hints, content \in Contents :
           /\ MayAnswer(EventAt(i - 1), hint) /\ WellFormed(EventAt(i - 1)) /\ thread[i].content = content
           /\ EventAt(i) = EventOf(ReplyKind(EventAt(i - 1)), Ids[i], author,
                                   WithContentTags(ReplyTags(EventAt(i - 1), hint), content))
<1>1. i \in 2..Len(thread) /\ thread[i].by = "buildReply" /\ Len(thread) \in Nat
  BY DEF Built, Path
<1>2. WellFormed(EventAt(i - 1))
  BY <1>1 DEF Path
<1>3. BuiltOn(thread[i], EventAt(i - 1), Ids[i])
  <2>1. ~ForeignOn(thread[i], EventAt(i - 1), Ids[i])
    BY <1>1, ForeignEntries
  <2>. QED BY <1>1, <2>1 DEF Path
<1>. QED BY <1>2, <1>3, Entries DEF BuiltOn, EventAt

(* What a reply copies from a parent it was not the author of is parsed    *)
(* first, whatever tags the parent, its content and the caller hold.       *)
THEOREM RepliesCopyWhatParses == Spec => []CopiesAreChecked
<1>1. Path => CopiesAreChecked
  <2>. SUFFICES ASSUME Path, NEW i \in Built, NEW tag \in ToSet(EventAt(i).tags)
                PROVE  Checked(tag, EventAt(i).kind = KIND_COMMENT)
    BY DEF CopiesAreChecked, Checked
  <2>1. PICK author \in Authors, hint \in Hints, content \in Contents :
           /\ MayAnswer(EventAt(i - 1), hint)
           /\ EventAt(i) = EventOf(ReplyKind(EventAt(i - 1)), Ids[i], author,
                                   WithContentTags(ReplyTags(EventAt(i - 1), hint), content))
    BY BuiltEntries
  <2>2. EventAt(i).kind = ReplyKind(EventAt(i - 1))
        /\ EventAt(i).tags = WithContentTags(ReplyTags(EventAt(i - 1), hint), content)
    BY <2>1 DEF EventOf
  <2>3. AreChecked(WithContentTags(ReplyTags(EventAt(i - 1), hint), content), ReplyKind(EventAt(i - 1)) = KIND_COMMENT)
    BY <2>1, BuiltTags
  <2>. QED BY <2>2, <2>3 DEF AreChecked
<1>. QED BY <1>1, PathInvariant, PTL

-----------------------------------------------------------------------------
(* What is read back of a list of e tags, whatever follows it.             *)
LEMMA MentionNames ==
  ASSUME NEW tags, AreMentions(tags)
  PROVE  IsTags(tags) /\ \A tag \in ToSet(tags) : At(tag, 1) \in {"p", "q", "t"}
BY DEF AreMentions, IsMention, At

LEMMA EventTagsAmong ==
  ASSUME NEW a, NEW b, IsTags(a), IsTags(b),
         \A tag \in ToSet(a) : IsEventTag(tag), \A tag \in ToSet(b) : At(tag, 1) # "e"
  PROVE  EventTagsOf(a \o b) = a
<1>. DEFINE both == a \o b
            S    == {tag \in ToSet(both) : At(tag, 1) = "e" /\ RefFromTag(tag) # Null}
<1>1. ToSet(both) = ToSet(a) \cup ToSet(b) /\ \A R : Among(both, R) = Among(a, R) \o Among(b, R)
  BY ConcatTags
<1>. HIDE DEF both
<1>2. \A tag \in ToSet(a) : At(tag, 1) = "e" /\ RefFromTag(tag) # Null
  BY EventTags DEF IsEventTag
<1>3. a \in Seq(ToSet(a)) /\ b \in Seq(ToSet(b))
  BY DEF IsTags, IsSequence
<1>4. Among(a, S) = a
  BY <1>1, <1>2, <1>3, AmongAll
<1>5. Among(b, S) = <<>>
  BY <1>3, AmongNone
<1>6. EventTagsOf(both) = Among(both, S)
  BY DEF EventTagsOf
<1>. HIDE DEF S
<1>7. a \o <<>> = a
  BY <1>3, ConcatEmptySeq
<1>. QED BY <1>1, <1>4, <1>5, <1>6, <1>7 DEF both

LEMMA SoleTags ==
  /\ SoleTag(<<>>) = Null
  /\ \A tag : IsEventTag(tag) => SoleTag(<< tag >>) = tag
<1>1. SoleTag(<<>>) = Null
  <2>1. {RefFromTag(tag) : tag \in ToSet(<<>>)} \ {Null} = {}
    BY NoTags
  <2>. QED BY <2>1 DEF SoleTag, SoleRef, SoleValue
<1>2. ASSUME NEW tag, IsEventTag(tag) PROVE SoleTag(<< tag >>) = tag
  <2>1. ToSet(<< tag >>) = {tag} /\ RefFromTag(tag) # Null
    BY <1>2, OneTag, EventTags DEF IsEventTag
  <2>2. {RefFromTag(x) : x \in {tag}} \ {Null} = {RefFromTag(tag)}
    BY <2>1
  <2>3. SoleRef(<< tag >>) = RefFromTag(tag)
    BY <2>1, <2>2 DEF SoleRef, SoleValue
  <2>. QED BY <2>1, <2>3 DEF SoleTag
<1>. QED BY <1>1, <1>2

Marked(tag, marker) == IsEventTag(tag) /\ Nip10Marker(tag) = marker

(* A root alone, a parent alone, and both.                                 *)
LEMMA MarkedTogether ==
  /\ \A x : Marked(x, "root")  => MarkedThreadTags(<< x >>) = [root |-> x, parent |-> Null]
  /\ \A x : Marked(x, "reply") => MarkedThreadTags(<< x >>) = [root |-> Null, parent |-> x]
  /\ \A x, y : Marked(x, "root") /\ Marked(y, "reply") => MarkedThreadTags(<< x, y >>) = [root |-> x, parent |-> y]
<1>. DEFINE With(tags, marker) == {tag \in ToSet(tags) : Nip10Marker(tag) = marker}
<1>0. \A tags : MarkedThreadTags(tags) = [root   |-> SoleTag(Among(tags, With(tags, "root"))),
                                          parent |-> SoleTag(Among(tags, With(tags, "reply")))]
  BY DEF MarkedThreadTags
<1>1. ASSUME NEW x, IsEventTag(x) PROVE
        /\ Nip10Marker(x) = "root" => MarkedThreadTags(<< x >>) = [root |-> x, parent |-> Null]
        /\ Nip10Marker(x) = "reply" => MarkedThreadTags(<< x >>) = [root |-> Null, parent |-> x]
  <2>. DEFINE one == << x >>
  <2>1. ToSet(one) = {x} /\ \A S : Among(one, S) = IF x \in S THEN << x >> ELSE <<>>
    BY <1>1, OneTag DEF IsEventTag
  <2>2. SoleTag(<< x >>) = x /\ SoleTag(<<>>) = Null
    BY <1>1, SoleTags
  <2>3. x \in With(one, Nip10Marker(x)) /\ \A marker : x \in With(one, marker) => Nip10Marker(x) = marker
    BY <2>1
  <2>. HIDE DEF one, With
  <2>4. /\ Nip10Marker(x) = "root"  => SoleTag(Among(one, With(one, "root"))) = x /\ SoleTag(Among(one, With(one, "reply"))) = Null
        /\ Nip10Marker(x) = "reply" => SoleTag(Among(one, With(one, "root"))) = Null /\ SoleTag(Among(one, With(one, "reply"))) = x
    BY <2>1, <2>2, <2>3
  <2>. QED BY <1>0, <2>4 DEF one
<1>2. ASSUME NEW x, NEW y, Marked(x, "root"), Marked(y, "reply")
      PROVE  MarkedThreadTags(<< x, y >>) = [root |-> x, parent |-> y]
  <2>. DEFINE two == << x, y >>
  <2>1. /\ ToSet(two) = {x, y}
        /\ \A S : Among(two, S) = IF x \in S THEN IF y \in S THEN << x, y >> ELSE << x >>
                                  ELSE IF y \in S THEN << y >> ELSE <<>>
    BY <1>2, TwoTags DEF Marked, IsEventTag
  <2>2. SoleTag(<< x >>) = x /\ SoleTag(<< y >>) = y
    BY <1>2, SoleTags DEF Marked
  <2>3. /\ x \in With(two, "root") /\ y \notin With(two, "root")
        /\ y \in With(two, "reply") /\ x \notin With(two, "reply")
    BY <1>2, <2>1 DEF Marked
  <2>. HIDE DEF two, With
  <2>4. SoleTag(Among(two, With(two, "root"))) = x /\ SoleTag(Among(two, With(two, "reply"))) = y
    BY <2>1, <2>2, <2>3
  <2>. QED BY <1>0, <2>4 DEF two
<1>. QED BY <1>1, <1>2 DEF Marked

LEMMA ReadByMarker ==
  ASSUME NEW a, NEW b, IsTags(a), IsTags(b), a # <<>>,
         \A tag \in ToSet(a) : Marked(tag, "root") \/ Marked(tag, "reply"),
         \A tag \in ToSet(b) : At(tag, 1) # "e"
  PROVE  /\ ShortNoteThreadTags(a \o b) = MarkedThreadTags(a)
         /\ ChannelMessageThreadTags(a \o b) = MarkedThreadTags(a)
<1>1. EventTagsOf(a \o b) = a
  BY EventTagsAmong DEF Marked
<1>2. PICK tag \in ToSet(a) : TRUE
  BY FirstAndLast DEF IsTags
<1>3. Nip10Marker(tag) # Null
  BY <1>2, NothingAssumption DEF Marked, NIP10_MARKERS
<1>. QED BY <1>1, <1>2, <1>3 DEF ShortNoteThreadTags, ChannelMessageThreadTags

LEMMA MarkedTuples ==
  ASSUME NEW id \in EventIds, NEW relay, NEW marker \in {"root", "reply"}
  PROVE  /\ Marked(<<"e", id, relay, marker>>, marker)
         /\ \A pubkey : Marked(<<"e", id, relay, marker, pubkey>>, marker)
         /\ \A pubkey : Marked(RootTagOf(id, relay, pubkey), "root")
<1>1. \A tag : IsSequence(tag) /\ At(tag, 1) = "e" /\ At(tag, 2) = id /\ At(tag, 4) = marker => Marked(tag, marker)
  BY DEF Marked, IsEventTag, Nip10Marker, NIP10_MARKERS
<1>2. Marked(<<"e", id, relay, marker>>, marker)
  <2>. DEFINE tag == <<"e", id, relay, marker>>
  <2>1. IsSequence(tag) /\ At(tag, 1) = "e" /\ At(tag, 2) = id /\ At(tag, 4) = marker
    BY Tuples, Slots
  <2>. HIDE DEF tag
  <2>. QED BY <1>1, <2>1 DEF tag
<1>3. ASSUME NEW pubkey PROVE Marked(<<"e", id, relay, marker, pubkey>>, marker)
  <2>. DEFINE tag == <<"e", id, relay, marker, pubkey>>
  <2>1. IsSequence(tag) /\ At(tag, 1) = "e" /\ At(tag, 2) = id /\ At(tag, 4) = marker
    BY Tuples, Slots
  <2>. HIDE DEF tag
  <2>. QED BY <1>1, <2>1 DEF tag
<1>4. ASSUME NEW pubkey PROVE Marked(RootTagOf(id, relay, pubkey), "root")
  <2>. DEFINE tag == RootTagOf(id, relay, pubkey)
  <2>1. IsSequence(tag) /\ At(tag, 1) = "e" /\ At(tag, 2) = id /\ At(tag, 4) = "root"
    BY RootTags
  <2>. HIDE DEF tag
  <2>. QED BY <2>1 DEF tag, Marked, IsEventTag, Nip10Marker, NIP10_MARKERS
<1>. QED BY <1>2, <1>3, <1>4

(* A root tag, a reply tag and no other points at what it names.           *)
LEMMA PointersOfTags ==
  ASSUME NEW threadTags, threadTags.root = Null \/ IsEventTag(threadTags.root),
         threadTags.parent = Null \/ IsEventTag(threadTags.parent)
  PROVE  PointersOf(threadTags) =
           [root    |-> IF threadTags.root = Null THEN Null ELSE EventRef(threadTags.root[2]),
            replyTo |-> IF threadTags.parent = Null THEN Null ELSE EventRef(threadTags.parent[2])]
BY EventTags DEF PointersOf

LEMMA Regrouped ==
  ASSUME NEW a, NEW b, NEW c, IsTags(a), IsTags(b), IsTags(c)
  PROVE  (a \o b) \o c = a \o (b \o c)
<1>. DEFINE T == ToSet(a) \cup ToSet(b) \cup ToSet(c)
<1>1. a \in Seq(T) /\ b \in Seq(T) /\ c \in Seq(T)
  BY Wider DEF IsTags, IsSequence
<1>. QED BY <1>1, ConcatAssociative

(* What the notes buildReply builds are read back as.                      *)
LEMMA NotesReadBack ==
  ASSUME NEW parent, IsEvent(parent), NEW hint \in Hints, NEW beside, AreMentions(beside)
  PROVE  PointersOf(ShortNoteThreadTags(NoteReplyTags(parent, hint) \o beside)) =
           IF InheritedRootTag(parent) = Null THEN [root |-> EventRef(parent.id), replyTo |-> Null]
           ELSE [root |-> EventRef(Source(parent)[2]), replyTo |-> EventRef(parent.id)]
<1>. DEFINE rootTag == InheritedRootTag(parent)
            notes   == NoteThreadTags(parent, hint, rootTag)
            who     == Participants(parent, rootTag)
            told    == PubkeyTags(who)
            opening == <<"e", parent.id, hint, "root", parent.pubkey>>
            reply   == <<"e", parent.id, hint, "reply", parent.pubkey>>
<1>1. /\ NoteReplyTags(parent, hint) = notes \o told /\ IsTags(notes) /\ IsTags(told)
      /\ \A tag \in ToSet(told) : At(tag, 1) = "p"
  <2>1. \A pubkey : At(<<"p", pubkey>>, 1) = "p"
    BY Slots
  <2>2. /\ NoteReplyTags(parent, hint) = notes \o told /\ IsTags(notes) /\ IsTags(told)
        /\ ToSet(told) = {<<"p", pubkey>> : pubkey \in who}
    BY NoteReplies
  <2>. HIDE DEF notes, told, who
  <2>. QED BY <2>1, <2>2
<1>2. parent.id \in EventIds /\ IsTags(beside) /\ \A tag \in ToSet(beside) : At(tag, 1) \in {"p", "q", "t"}
  BY MentionNames DEF IsEvent
<1>3. Marked(opening, "root") /\ Marked(reply, "reply") /\ opening[2] = parent.id /\ reply[2] = parent.id
  <2>1. Marked(opening, "root") /\ Marked(reply, "reply")
    BY <1>2, MarkedTuples
  <2>2. opening[2] = parent.id /\ reply[2] = parent.id
    BY Slots
  <2>. QED BY <2>1, <2>2
<1>4. notes = IF rootTag = Null THEN << opening >> ELSE << rootTag, reply >>
  BY DEF NoteThreadTags
<1>5. ASSUME rootTag # Null PROVE Marked(rootTag, "root") /\ rootTag[2] = Source(parent)[2]
  <2>1. PICK relay \in RelayHints, pubkey \in {Null} \cup Pubkeys :
          rootTag = RootTagOf(Source(parent)[2], relay, pubkey) /\ Source(parent)[2] \in EventIds
    BY <1>5, InheritedTags
  <2>2. RootTagOf(Source(parent)[2], relay, pubkey)[2] = Source(parent)[2]
    BY RootTags
  <2>. HIDE DEF rootTag
  <2>. QED BY <2>1, <2>2, MarkedTuples
<1>. HIDE DEF rootTag, notes, who, told, opening, reply
<1>6. IsTags(told \o beside) /\ \A tag \in ToSet(told \o beside) : At(tag, 1) # "e"
  BY <1>1, <1>2, ConcatTags
<1>7. (notes \o told) \o beside = notes \o (told \o beside)
  BY <1>1, <1>2, Regrouped
<1>8. notes # <<>> /\ \A tag \in ToSet(notes) : Marked(tag, "root") \/ Marked(tag, "reply")
  <2>1. CASE rootTag = Null
    <3>1. << opening >> # <<>> /\ ToSet(<< opening >>) = {opening}
      BY <1>3, OneTag DEF Marked, IsEventTag
    <3>. QED BY <1>3, <1>4, <2>1, <3>1
  <2>2. CASE rootTag # Null
    <3>1. << rootTag, reply >> # <<>> /\ ToSet(<< rootTag, reply >>) = {rootTag, reply}
      BY <1>3, <1>5, <2>2, TwoTags DEF Marked, IsEventTag
    <3>. QED BY <1>3, <1>4, <1>5, <2>2, <3>1
  <2>. QED BY <2>1, <2>2
<1>9. ShortNoteThreadTags(NoteReplyTags(parent, hint) \o beside) = MarkedThreadTags(notes)
  <2>1. ShortNoteThreadTags(notes \o (told \o beside)) = MarkedThreadTags(notes)
    BY <1>1, <1>6, <1>8, ReadByMarker
  <2>. QED BY <1>1, <1>7, <2>1
<1>10. CASE rootTag = Null
  <2>1. MarkedThreadTags(notes) = [root |-> opening, parent |-> Null]
    BY <1>3, <1>4, <1>10, MarkedTogether
  <2>2. IsEventTag(opening) /\ opening # Null
    BY <1>3, <1>10, NothingAssumption, HintsAssumption DEF Marked, opening, RelayHints, IsEvent
  <2>3. PointersOf([root |-> opening, parent |-> Null]) = [root |-> EventRef(opening[2]), replyTo |-> Null]
    BY <2>2, PointersOfTags
  <2>. QED BY <1>3, <1>9, <1>10, <2>1, <2>3 DEF rootTag
<1>11. CASE rootTag # Null
  <2>1. MarkedThreadTags(notes) = [root |-> rootTag, parent |-> reply]
    BY <1>3, <1>4, <1>5, <1>11, MarkedTogether
  <2>2. IsEventTag(rootTag) /\ IsEventTag(reply) /\ reply # Null
    BY <1>3, <1>5, <1>11, NothingAssumption, HintsAssumption DEF Marked, reply, RelayHints, IsEvent
  <2>3. PointersOf([root |-> rootTag, parent |-> reply]) =
          [root |-> EventRef(rootTag[2]), replyTo |-> EventRef(reply[2])]
    BY <1>11, <2>2, PointersOfTags
  <2>. QED BY <1>3, <1>5, <1>9, <1>11, <2>1, <2>3 DEF rootTag
<1>. QED BY <1>10, <1>11

LEMMA Splits == \A x, y : << x >> \o << y >> = << x, y >>
<1>. SUFFICES ASSUME NEW x, NEW y PROVE << x >> \o << y >> = << x, y >>
  OBVIOUS
<1>. DEFINE one == << x >>
            T   == {x, y}
<1>1. << x, y >> = Append(one, y)
  OBVIOUS
<1>2. one \in Seq(T) /\ y \in T
  OBVIOUS
<1>. HIDE DEF one, T
<1>3. Append(one, y) = one \o << y >>
  BY <1>2, AppendIsConcat
<1>. QED BY <1>1, <1>3 DEF one

(* What the messages of a channel are read back as.                        *)
LEMMA ChannelsReadBack ==
  ASSUME NEW parent, IsEvent(parent), NEW hint \in Hints, NEW beside, AreMentions(beside),
         NEW source, source = ChannelMessageThreadTags(parent.tags).root
  PROVE  PointersOf(ChannelMessageThreadTags(ChannelReplyTags(parent, hint) \o beside)) =
           [root |-> IF source = Null THEN Null ELSE EventRef(source[2]), replyTo |-> EventRef(parent.id)]
<1>. DEFINE copied  == Channel(parent)
            channel == IF copied = Null THEN <<>> ELSE << copied >>
            reply   == <<"e", parent.id, hint, "reply", parent.pubkey>>
            told    == WithHint(<<"p", parent.pubkey>>, hint)
            first   == channel \o << reply >>
            after   == << told >> \o beside
<1>1. /\ ChannelReplyTags(parent, hint) = channel \o << reply, told >>
      /\ IsTags(channel) /\ IsSequence(reply) /\ IsSequence(told) /\ At(told, 1) = "p"
  BY ChannelReplies
<1>2. parent.id \in EventIds /\ IsTags(beside) /\ \A tag \in ToSet(beside) : At(tag, 1) \in {"p", "q", "t"}
  BY MentionNames DEF IsEvent
<1>3. Marked(reply, "reply") /\ reply[2] = parent.id
  <2>1. Marked(reply, "reply")
    BY <1>2, MarkedTuples
  <2>2. reply[2] = parent.id
    BY Slots
  <2>. QED BY <2>1, <2>2
<1>4. (source = Null <=> copied = Null) /\ (copied # Null => Marked(copied, "root") /\ copied[2] = source[2])
  <2>1. CASE source = Null
    BY <2>1, CopiedChannels
  <2>2. CASE source # Null
    <3>1. PICK relay \in RelayHints, pubkey \in {Null} \cup Pubkeys :
            copied = RootTagOf(source[2], relay, pubkey) /\ source[2] \in EventIds /\ copied # Null
      BY <2>2, CopiedChannels
    <3>2. RootTagOf(source[2], relay, pubkey)[2] = source[2]
      BY RootTags
    <3>3. Marked(RootTagOf(source[2], relay, pubkey), "root")
      BY <3>1, MarkedTuples
    <3>. HIDE DEF copied
    <3>. QED BY <2>2, <3>1, <3>2, <3>3
  <2>. QED BY <2>1, <2>2
<1>. HIDE DEF copied, reply, told
<1>5. IsTags(<< reply >>) /\ IsTags(<< told >>) /\ ToSet(<< told >>) = {told} /\ << reply, told >> = << reply >> \o << told >>
  BY <1>1, OneTag, Splits
<1>6. IsTags(after) /\ \A tag \in ToSet(after) : At(tag, 1) # "e"
  <2>1. IsTags(after) /\ ToSet(after) = {told} \cup ToSet(beside)
    BY <1>2, <1>5, ConcatTags
  <2>. HIDE DEF after
  <2>. QED BY <1>1, <1>2, <2>1
<1>7. IsTags(first) /\ (channel \o << reply, told >>) \o beside = first \o after
  <2>1. IsTags(first)
    BY <1>1, <1>5, ConcatTags
  <2>2. channel \o << reply, told >> = first \o << told >>
    BY <1>1, <1>5, Regrouped
  <2>3. (first \o << told >>) \o beside = first \o after
    BY <1>2, <1>5, <2>1, Regrouped
  <2>. QED BY <2>1, <2>2, <2>3
<1>8. first = IF copied = Null THEN << reply >> ELSE << copied, reply >>
  <2>1. <<>> \o << reply >> = << reply >>
    OBVIOUS
  <2>. QED BY <2>1, Splits
<1>. HIDE DEF first, after, channel
<1>9. first # <<>> /\ \A tag \in ToSet(first) : Marked(tag, "root") \/ Marked(tag, "reply")
  <2>1. CASE copied = Null
    <3>1. << reply >> # <<>> /\ ToSet(<< reply >>) = {reply}
      BY <1>1, OneTag
    <3>. QED BY <1>3, <1>8, <2>1, <3>1
  <2>2. CASE copied # Null
    <3>1. << copied, reply >> # <<>> /\ ToSet(<< copied, reply >>) = {copied, reply}
      BY <1>1, <1>4, <2>2, TwoTags DEF Marked, IsEventTag
    <3>. QED BY <1>3, <1>4, <1>8, <2>2, <3>1
  <2>. QED BY <2>1, <2>2
<1>10. ChannelMessageThreadTags(ChannelReplyTags(parent, hint) \o beside) = MarkedThreadTags(first)
  <2>1. ChannelMessageThreadTags(first \o after) = MarkedThreadTags(first)
    BY <1>6, <1>7, <1>9, ReadByMarker
  <2>. QED BY <1>1, <1>7, <2>1
<1>11. reply # Null
  BY NothingAssumption, HintsAssumption DEF reply, RelayHints, IsEvent
<1>12. CASE copied = Null
  <2>1. MarkedThreadTags(first) = [root |-> Null, parent |-> reply]
    BY <1>3, <1>8, <1>12, MarkedTogether
  <2>2. PointersOf([root |-> Null, parent |-> reply]) = [root |-> Null, replyTo |-> EventRef(reply[2])]
    BY <1>3, <1>11, PointersOfTags DEF Marked
  <2>. QED BY <1>3, <1>4, <1>10, <1>12, <2>1, <2>2
<1>13. CASE copied # Null
  <2>1. MarkedThreadTags(first) = [root |-> copied, parent |-> reply]
    BY <1>3, <1>4, <1>8, <1>13, MarkedTogether
  <2>2. PointersOf([root |-> copied, parent |-> reply]) = [root |-> EventRef(copied[2]), replyTo |-> EventRef(reply[2])]
    BY <1>3, <1>4, <1>11, <1>13, PointersOfTags DEF Marked
  <2>. QED BY <1>3, <1>4, <1>10, <1>13, <2>1, <2>2
<1>. QED BY <1>12, <1>13

-----------------------------------------------------------------------------
(* What a set of tags says under a name.                                   *)
Under(tags, name)    == {tag \in tags : At(tag, 1) = name}
PointedAt(tags, name) == SoleValue({RefFromTag(tag) : tag \in Under(tags, name)} \ {Null})
ValuesIn(tags, name) == {At(tag, 2) : tag \in Under(tags, name)} \ {Null}

LEMMA ReadAsSets ==
  ASSUME NEW tags, IsTags(tags), NEW name
  PROVE  /\ SoleRefTagged(tags, name) = PointedAt(ToSet(tags), name)
         /\ ExtractTagValues(tags, name) = ValuesIn(ToSet(tags), name)
<1>1. ToSet(Tagged(tags, name)) = Under(ToSet(tags), name)
  BY SomeTags DEF Tagged, Under
<1>. QED BY <1>1 DEF SoleRefTagged, SoleRef, PointedAt, ExtractTagValues, ValuesIn

LEMMA OneValue == /\ \A x : SoleValue({x}) = x
                  /\ SoleValue({}) = Null
BY DEF SoleValue

LEMMA PointsAt ==
  ASSUME NEW tag, At(tag, 2) # Null
  PROVE  /\ At(tag, 1) \in {"e", "E"} /\ At(tag, 2) \in EventIds => RefFromTag(tag) = EventRef(At(tag, 2))
         /\ At(tag, 1) \in {"a", "A"} /\ At(tag, 2) \in DOMAIN Addresses => RefFromTag(tag) = AddressRef(Addresses[At(tag, 2)])
<1>1. tag[2] = At(tag, 2)
  BY DEF At
<1>2. "a" # "e" /\ "A" # "e" /\ "a" # "E" /\ "A" # "E"
  OBVIOUS
<1>. QED BY <1>1, <1>2 DEF RefFromTag

LEMMA OneUnder ==
  ASSUME NEW tags, NEW name, NEW tag, Under(tags, name) = {tag}
  PROVE  PointedAt(tags, name) = RefFromTag(tag)
<1>1. CASE RefFromTag(tag) = Null
  <2>1. {RefFromTag(t) : t \in Under(tags, name)} \ {Null} = {}
    BY <1>1
  <2>. QED BY <1>1, <2>1, OneValue DEF PointedAt
<1>2. CASE RefFromTag(tag) # Null
  <2>1. {RefFromTag(t) : t \in Under(tags, name)} \ {Null} = {RefFromTag(tag)}
    BY <1>2
  <2>. QED BY <2>1, OneValue DEF PointedAt
<1>. QED BY <1>1, <1>2

LEMMA NoneUnder ==
  ASSUME NEW tags, NEW name, Under(tags, name) = {}
  PROVE  PointedAt(tags, name) = Null /\ ValuesIn(tags, name) = {}
<1>1. {RefFromTag(t) : t \in Under(tags, name)} \ {Null} = {}
  OBVIOUS
<1>. QED BY <1>1, OneValue DEF PointedAt, ValuesIn

(* The text of a coordinate names it.                                      *)
LEMMA TextsName ==
  ASSUME NEW ref, ref.type = "address", HasText(ref)
  PROVE  /\ FormatRef(ref) \in DOMAIN Addresses /\ Addresses[FormatRef(ref)] = ref.address
         /\ FormatRef(ref) # Null
<1>1. \E text \in DOMAIN Addresses : Addresses[text] = ref.address
  BY DEF HasText
<1>2. FormatRef(ref) = CHOOSE text \in DOMAIN Addresses : Addresses[text] = ref.address
  BY DEF FormatRef, FormatAddressableRef
<1>. QED BY <1>1, <1>2, NothingAssumption

LEMMA ConcatHead ==
  ASSUME NEW T, NEW s \in Seq(T), NEW t \in Seq(T), s # <<>>
  PROVE  s \o t # <<>> /\ Head(s \o t) = Head(s)
<1>1. Len(s) \in Nat /\ Len(s) # 0 /\ Len(t) \in Nat
  OBVIOUS
<1>2. s \o t \in Seq(T) /\ Len(s \o t) = Len(s) + Len(t) /\ (s \o t)[1] = s[1]
  BY <1>1
<1>. DEFINE u == s \o t
<1>. HIDE DEF u
<1>3. u # <<>> /\ Head(u) = u[1]
  BY <1>1, <1>2 DEF u
<1>. QED BY <1>2, <1>3 DEF u

(* A chat message answers the first event it quotes.                       *)
LEMMA ChatsReadBack ==
  ASSUME NEW id \in EventIds, NEW hint, NEW author, NEW beside, AreMentions(beside)
  PROVE  ChatPointers(<< <<"q", id, hint, author>> >> \o beside) = [root |-> Null, replyTo |-> EventRef(id)]
<1>. DEFINE q   == <<"q", id, hint, author>>
            one == << q >>
            all == one \o beside
            S   == {tag \in ToSet(all) : At(tag, 1) = "q" /\ At(tag, 2) \in EventIds}
            X   == Among(beside, S)
<1>1. IsSequence(q) /\ At(q, 1) = "q" /\ At(q, 2) = id /\ q[2] = id
  BY Tuples, Slots
<1>2. IsTags(beside)
  BY DEF AreMentions
<1>. HIDE DEF q
<1>3. IsTags(one) /\ ToSet(one) = {q} /\ (\A R : q \in R => Among(one, R) = one) /\ one # <<>> /\ Head(one) = q
  BY <1>1, OneTag
<1>. HIDE DEF one
<1>4. ToSet(all) = {q} \cup ToSet(beside) /\ \A R : Among(all, R) = Among(one, R) \o Among(beside, R)
  BY <1>2, <1>3, ConcatTags
<1>. HIDE DEF all
<1>5. q \in S
  BY <1>1, <1>4
<1>6. ChatPointers(all) = [root |-> Null, replyTo |-> IF Among(all, S) = <<>> THEN Null ELSE EventRef(Head(Among(all, S))[2])]
  BY DEF ChatPointers
<1>7. IsTags(X)
  BY <1>2, SomeTags
<1>. HIDE DEF S
<1>8. Among(all, S) = one \o X
  BY <1>3, <1>4, <1>5
<1>. HIDE DEF X
<1>. DEFINE T == ToSet(one) \cup ToSet(X)
<1>9. X \in Seq(T) /\ one \in Seq(T)
  BY <1>3, <1>7, Wider DEF IsTags, IsSequence
<1>. HIDE DEF T
<1>10. one \o X # <<>> /\ Head(one \o X) = q
  BY <1>3, <1>9, ConcatHead
<1>11. ChatPointers(all) = [root |-> Null, replyTo |-> EventRef(id)]
  BY <1>1, <1>6, <1>8, <1>10
<1>. QED BY <1>11 DEF all, one, q

LiveTags(parent, hint, beside) ==
  (LiveActivityTags(parent) \o << <<"e", parent.id, hint, parent.pubkey>> >>) \o beside

(* A live chat message answers the event it names, in the activity its     *)
(* parent is in.                                                           *)
LEMMA LivesReadBack ==
  ASSUME NEW parent, IsEvent(parent), NEW hint \in Hints, NEW beside, AreMentions(beside)
  PROVE  /\ SoleRefTagged(LiveTags(parent, hint, beside), "e") = EventRef(parent.id)
         /\ SoleRefTagged(LiveTags(parent, hint, beside), "a") = SoleRefTagged(parent.tags, "a")
<1>. DEFINE tags    == LiveTags(parent, hint, beside)
            live    == LiveActivityTags(parent)
            event   == <<"e", parent.id, hint, parent.pubkey>>
            stating == Among(parent.tags, {tag \in ToSet(parent.tags) : At(tag, 1) = "a" /\ RefFromTag(tag) # Null})
            stated  == {RefFromTag(tag) : tag \in Under(ToSet(parent.tags), "a")} \ {Null}
<1>1. IsTags(live) /\ (\A tag \in ToSet(live) : At(tag, 1) = "a") /\ IsSequence(event)
  BY LiveReplies
<1>2. IsTags(beside) /\ \A tag \in ToSet(beside) : At(tag, 1) \in {"p", "q", "t"}
  BY MentionNames
<1>3. At(event, 1) = "e" /\ At(event, 2) = parent.id /\ parent.id \in EventIds
  BY Slots DEF IsEvent
<1>4. live = IF SoleRef(stating) = Null THEN <<>> ELSE << Head(stating) >>
  BY DEF LiveActivityTags
<1>5. IsTags(stating) /\ ToSet(stating) = {tag \in ToSet(parent.tags) : At(tag, 1) = "a" /\ RefFromTag(tag) # Null}
  BY SomeTags DEF IsEvent
<1>a. tags = (live \o << event >>) \o beside
  BY DEF LiveTags
<1>. HIDE DEF live, event, stating, tags
<1>6. IsTags(<< event >>) /\ ToSet(<< event >>) = {event}
  BY <1>1, OneTag
<1>7. IsTags(tags) /\ ToSet(tags) = ToSet(live) \cup {event} \cup ToSet(beside)
  <2>1. IsTags(live \o << event >>) /\ ToSet(live \o << event >>) = ToSet(live) \cup {event}
    BY <1>1, <1>6, ConcatTags
  <2>. QED BY <1>2, <1>a, <2>1, ConcatTags
<1>8. Under(ToSet(tags), "e") = {event} /\ Under(ToSet(tags), "a") = ToSet(live)
  BY <1>1, <1>2, <1>3, <1>7 DEF Under
<1>9. SoleRefTagged(tags, "e") = EventRef(parent.id)
  <2>1. RefFromTag(event) = EventRef(parent.id)
    BY <1>3, NothingAssumption, PointsAt
  <2>2. PointedAt(ToSet(tags), "e") = RefFromTag(event)
    BY <1>8, OneUnder
  <2>3. SoleRefTagged(tags, "e") = PointedAt(ToSet(tags), "e")
    BY <1>7, ReadAsSets
  <2>. QED BY <2>1, <2>2, <2>3
<1>10. SoleRefTagged(parent.tags, "a") = SoleValue(stated)
  BY ReadAsSets DEF PointedAt, IsEvent
<1>11. {RefFromTag(tag) : tag \in ToSet(stating)} \ {Null} = stated
  BY <1>5 DEF Under
<1>12. SoleRef(stating) = SoleValue(stated)
  BY <1>11 DEF SoleRef
<1>13. CASE SoleValue(stated) = Null
  <2>1. ToSet(live) = {}
    BY <1>4, <1>12, <1>13, NoTags
  <2>2. PointedAt(ToSet(tags), "a") = Null
    BY <1>8, <2>1, NoneUnder
  <2>3. SoleRefTagged(tags, "a") = PointedAt(ToSet(tags), "a")
    BY <1>7, ReadAsSets
  <2>. QED BY <1>9, <1>10, <1>13, <2>2, <2>3 DEF tags
<1>14. CASE SoleValue(stated) # Null
  <2>1. PICK v \in stated : stated = {v}
    BY <1>14 DEF SoleValue
  <2>2. SoleValue(stated) = v
    BY <2>1, OneValue
  <2>3. stating # <<>>
    BY <1>11, <2>1, NoTags
  <2>4. Head(stating) \in ToSet(stating)
    BY <1>5, <2>3, FirstAndLast DEF IsTags
  <2>5. RefFromTag(Head(stating)) = v /\ IsSequence(Head(stating))
    BY <1>5, <1>11, <2>1, <2>4 DEF IsTags
  <2>6. ToSet(live) = {Head(stating)}
    BY <1>4, <1>12, <1>14, <2>5, OneTag
  <2>. DEFINE first == Head(stating)
  <2>. HIDE DEF first
  <2>7. Under(ToSet(tags), "a") = {first} /\ RefFromTag(first) = v
    BY <1>8, <2>5, <2>6 DEF first
  <2>8. PointedAt(ToSet(tags), "a") = v
    BY <2>7, OneUnder
  <2>9. SoleRefTagged(tags, "a") = PointedAt(ToSet(tags), "a")
    BY <1>7, ReadAsSets
  <2>. QED BY <1>9, <1>10, <2>2, <2>8, <2>9 DEF tags
<1>. QED BY <1>13, <1>14 DEF tags

-----------------------------------------------------------------------------
(* What comments are read back as.                                         *)
LEMMA SoleNames ==
  ASSUME NEW tags, IsTags(tags), NEW name, NEW value, value \notin {"", Null}, ValuesIn(ToSet(tags), name) = {value}
  PROVE  SoleNonEmptyValue(tags, name) = value
<1>1. ExtractTagValues(tags, name) = {value}
  BY ReadAsSets
<1>2. SoleTagValue(tags, name) = value
  BY <1>1, OneValue DEF SoleTagValue
<1>. QED BY <1>2 DEF SoleNonEmptyValue

LEMMA OneValueUnder ==
  ASSUME NEW tags, NEW name, NEW tag, Under(tags, name) = {tag}, At(tag, 2) # Null
  PROVE  ValuesIn(tags, name) = {At(tag, 2)}
BY DEF ValuesIn

CommentTags(parent, hint, beside) == (CommentRootScope(parent, hint) \o ParentItemTags(parent, hint)) \o beside
ExternalTags(content, beside)     == ExternalScopeTags(content) \o beside

LEMMA CommentSets ==
  ASSUME NEW parent, IsEvent(parent), NEW hint \in Hints, NEW beside, AreMentions(beside)
  PROVE  /\ IsTags(CommentTags(parent, hint, beside))
         /\ \A name \in {"a", "e", "i", "k"} :
              Under(ToSet(CommentTags(parent, hint, beside)), name) = Under(ToSet(ParentItemTags(parent, hint)), name)
         /\ \A name \in {"A", "E", "I", "K"} :
              Under(ToSet(CommentTags(parent, hint, beside)), name) = Under(ToSet(CommentRootScope(parent, hint)), name)
<1>. DEFINE tags  == CommentTags(parent, hint, beside)
            scope == CommentRootScope(parent, hint)
            items == ParentItemTags(parent, hint)
<1>1. IsTags(scope) /\ \A tag \in ToSet(scope) : At(tag, 1) \in {"A", "E", "I", "K", "P"}
  BY CommentScopes DEF AreCommentTags, Names, ROOT_SCOPE_TAG_NAMES
<1>2. IsTags(items) /\ \A tag \in ToSet(items) : At(tag, 1) \in {"a", "e", "k", "p"}
  BY ParentItems DEF AreCommentTags, Names
<1>3. IsTags(beside) /\ \A tag \in ToSet(beside) : At(tag, 1) \in {"p", "q", "t"}
  BY MentionNames
<1>4. tags = (scope \o items) \o beside
  BY DEF CommentTags
<1>. HIDE DEF scope, items, tags
<1>5. IsTags(tags) /\ ToSet(tags) = ToSet(scope) \cup ToSet(items) \cup ToSet(beside)
  BY <1>1, <1>2, <1>3, <1>4, ConcatTags
<1>6. ASSUME NEW name \in {"a", "e", "i", "k"} PROVE Under(ToSet(tags), name) = Under(ToSet(items), name)
  BY <1>1, <1>2, <1>3, <1>5 DEF Under
<1>7. ASSUME NEW name \in {"A", "E", "I", "K"} PROVE Under(ToSet(tags), name) = Under(ToSet(scope), name)
  BY <1>1, <1>2, <1>3, <1>5 DEF Under
<1>. QED BY <1>5, <1>6, <1>7 DEF scope, items, tags

(* A comment answers what it was built to answer.                          *)
LEMMA CommentsAnswer ==
  ASSUME NEW parent, IsEvent(parent), HasText(ReplyTargetRef(parent)), NEW hint \in Hints,
         NEW beside, AreMentions(beside)
  PROVE  /\ CommentPointers(CommentTags(parent, hint, beside)).replyTo = ReplyTargetRef(parent)
         /\ ReplyTargetRef(parent) # Null
<1>. DEFINE tags  == CommentTags(parent, hint, beside)
            ref   == ReplyTargetRef(parent)
            place == <<"a", FormatRef(ref), hint>>
            event == ParentTag(parent, hint)
            kind  == <<"k", DecimalText[parent.kind]>>
            told  == WithHint(<<"p", parent.pubkey>>, hint)
            items == ToSet(ParentItemTags(parent, hint))
<1>1. items = (IF ref.type = "address" THEN {place} ELSE {}) \cup {event, kind, told} /\ Names(told, {"p"})
  BY ParentItems
<1>2. /\ IsTags(tags)
      /\ Under(ToSet(tags), "a") = Under(items, "a") /\ Under(ToSet(tags), "e") = Under(items, "e")
  <2>1. IsTags(tags) /\ \A name \in {"a", "e", "i", "k"} : Under(ToSet(tags), name) = Under(items, name)
    BY CommentSets
  <2>. HIDE DEF items
  <2>. QED BY <2>1
<1>3. At(place, 1) = "a" /\ At(place, 2) = FormatRef(ref) /\ At(kind, 1) = "k"
  BY Slots
<1>4. At(event, 1) = "e" /\ At(event, 2) = parent.id /\ parent.id \in EventIds
  BY Slots DEF ParentTag, IsEvent
<1>5. /\ ref.type \in {"event", "address"} /\ IsRef(ref)
      /\ ref.type = "event" => ref = EventRef(parent.id)
  BY Targets
<1>6. ref # Null
  <2>1. ref.type = "address" => \E text \in DOMAIN Addresses : ref = AddressRef(Addresses[text])
    BY <1>5 DEF IsRef, EventRef, IsExternal
  <2>. QED BY <1>4, <1>5, <2>1, NothingAssumption
<1>. HIDE DEF tags, ref, place, event, kind, told, items
<1>7. CASE ref.type = "address"
  <2>1. Under(ToSet(tags), "a") = {place}
    BY <1>1, <1>2, <1>3, <1>4, <1>7 DEF Under, Names
  <2>2. RefFromTag(place) = ref
    <3>1. FormatRef(ref) \in DOMAIN Addresses /\ Addresses[FormatRef(ref)] = ref.address /\ FormatRef(ref) # Null
      BY <1>7, TextsName DEF ref
    <3>2. RefFromTag(place) = AddressRef(Addresses[FormatRef(ref)])
      BY <1>3, <3>1, PointsAt
    <3>3. ref = AddressRef(ref.address)
      BY <1>5, <1>7 DEF IsRef, AddressRef, EventRef, IsExternal
    <3>. QED BY <3>1, <3>2, <3>3
  <2>3. SoleRefTagged(tags, "a") = ref
    BY <1>2, <2>1, <2>2, OneUnder, ReadAsSets
  <2>. QED BY <1>6, <2>3 DEF CommentPointers, ??, ref, tags
<1>8. CASE ref.type = "event"
  <2>1. Under(ToSet(tags), "a") = {} /\ Under(ToSet(tags), "e") = {event}
    BY <1>1, <1>2, <1>3, <1>4, <1>8 DEF Under, Names
  <2>2. RefFromTag(event) = ref
    BY <1>4, <1>5, <1>8, NothingAssumption, PointsAt
  <2>3. SoleRefTagged(tags, "a") = Null
    BY <1>2, <2>1, NoneUnder, ReadAsSets
  <2>4. SoleRefTagged(tags, "e") = ref
    BY <1>2, <2>1, <2>2, OneUnder, ReadAsSets
  <2>. QED BY <1>6, <2>3, <2>4 DEF CommentPointers, ??, ref, tags
<1>. QED BY <1>5, <1>6, <1>7, <1>8 DEF ref, tags

(* What a tag of external content points at: its id and kind, and a page.  *)
ExternalRef(id, kind, hint) == [type |-> "external", id |-> id, kind |-> kind, hint |-> hint]

(* A comment on external content names it, as its root and its parent.     *)
LEMMA ExternalsReadBack ==
  ASSUME NEW content, IsExternal(content), IsNamed(content), NEW beside, AreMentions(beside)
  PROVE  /\ \E hint : CommentPointers(ExternalTags(content, beside)).root = ExternalRef(content.id, content.kind, hint)
         /\ \E hint : CommentPointers(ExternalTags(content, beside)).replyTo = ExternalRef(content.id, content.kind, hint)
         /\ SoleNonEmptyValue(ExternalTags(content, beside), "K") = content.kind
<1>. DEFINE tags == ExternalTags(content, beside)
            hint == content.hint ?? ""
            I == WithHint(<<"I", content.id>>, hint)
            i == WithHint(<<"i", content.id>>, hint)
            K == <<"K", content.kind>>
            k == <<"k", content.kind>>
            scope == ExternalScopeTags(content)
<1>1. /\ IsTags(scope) /\ ToSet(scope) = {I, K, i, k}
      /\ Names(I, {"I"}) /\ Names(i, {"i"}) /\ At(I, 2) = content.id /\ At(i, 2) = content.id
  BY ExternalScopes DEF AreCommentTags
<1>2. At(K, 1) = "K" /\ At(K, 2) = content.kind /\ At(k, 1) = "k" /\ At(k, 2) = content.kind
  BY Slots
<1>3. IsTags(beside) /\ \A tag \in ToSet(beside) : At(tag, 1) \in {"p", "q", "t"}
  BY MentionNames
<1>4. content.id \notin {"", Null} /\ content.kind \notin {"", Null}
  BY DEF IsExternal, IsNamed
<1>4a. tags = scope \o beside
  BY DEF ExternalTags
<1>. HIDE DEF I, i, K, k, scope, tags
<1>5. IsTags(tags) /\ ToSet(tags) = {I, K, i, k} \cup ToSet(beside)
  BY <1>1, <1>3, <1>4a, ConcatTags
<1>a. At(I, 1) = "I" /\ At(i, 1) = "i"
  BY <1>1 DEF Names
<1>b. \A tag \in ToSet(tags) : tag \in {I, K, i, k} \/ At(tag, 1) \in {"p", "q", "t"}
  BY <1>3, <1>5
<1>c. {I, K, i, k} \subseteq ToSet(tags)
  BY <1>5
<1>6. /\ \A name \in {"a", "e", "A", "E"} : Under(ToSet(tags), name) = {}
      /\ Under(ToSet(tags), "I") = {I} /\ Under(ToSet(tags), "i") = {i}
      /\ Under(ToSet(tags), "K") = {K} /\ Under(ToSet(tags), "k") = {k}
  <2>1. ASSUME NEW name \in {"a", "e", "A", "E"} PROVE Under(ToSet(tags), name) = {}
    BY <1>a, <1>2, <1>b DEF Under
  <2>2. Under(ToSet(tags), "I") = {I}
    BY <1>a, <1>2, <1>b, <1>c DEF Under
  <2>3. Under(ToSet(tags), "i") = {i}
    BY <1>a, <1>2, <1>b, <1>c DEF Under
  <2>4. Under(ToSet(tags), "K") = {K}
    BY <1>a, <1>2, <1>b, <1>c DEF Under
  <2>5. Under(ToSet(tags), "k") = {k}
    BY <1>a, <1>2, <1>b, <1>c DEF Under
  <2>. QED BY <2>1, <2>2, <2>3, <2>4, <2>5
<1>7. \A name \in {"a", "e", "A", "E"} : SoleRefTagged(tags, name) = Null
  BY <1>5, <1>6, NoneUnder, ReadAsSets
<1>8. /\ SoleNonEmptyValue(tags, "I") = content.id /\ SoleNonEmptyValue(tags, "i") = content.id
      /\ SoleNonEmptyValue(tags, "K") = content.kind /\ SoleNonEmptyValue(tags, "k") = content.kind
  <2>a. ASSUME NEW name, NEW tag, NEW value, Under(ToSet(tags), name) = {tag}, At(tag, 2) = value, value # Null
        PROVE  ValuesIn(ToSet(tags), name) = {value}
    BY <2>a, OneValueUnder
  <2>b. content.id # Null /\ content.kind # Null
    BY <1>4
  <2>1. ValuesIn(ToSet(tags), "I") = {content.id}
    <3>1. Under(ToSet(tags), "I") = {I}
      BY <1>6
    <3>2. At(I, 2) = content.id
      BY <1>1
    <3>3. content.id # Null
      BY <2>b
    <3>. QED BY <2>a, <3>1, <3>2, <3>3, Zenon
  <2>2. ValuesIn(ToSet(tags), "i") = {content.id}
    <3>1. Under(ToSet(tags), "i") = {i}
      BY <1>6
    <3>2. At(i, 2) = content.id
      BY <1>1
    <3>3. content.id # Null
      BY <2>b
    <3>. QED BY <2>a, <3>1, <3>2, <3>3, Zenon
  <2>3. ValuesIn(ToSet(tags), "K") = {content.kind}
    <3>1. Under(ToSet(tags), "K") = {K}
      BY <1>6
    <3>2. At(K, 2) = content.kind
      BY <1>2
    <3>3. content.kind # Null
      BY <2>b
    <3>. QED BY <2>a, <3>1, <3>2, <3>3, Zenon
  <2>4. ValuesIn(ToSet(tags), "k") = {content.kind}
    <3>1. Under(ToSet(tags), "k") = {k}
      BY <1>6
    <3>2. At(k, 2) = content.kind
      BY <1>2
    <3>3. content.kind # Null
      BY <2>b
    <3>. QED BY <2>a, <3>1, <3>2, <3>3, Zenon
  <2>. QED BY <1>4, <1>5, <2>1, <2>2, <2>3, <2>4, SoleNames
<1>9. \A idTag, kindTag :
        SoleNonEmptyValue(tags, idTag) = content.id /\ SoleNonEmptyValue(tags, kindTag) = content.kind =>
          ExternalContent(tags, idTag, kindTag) =
            [type |-> "external", id |-> content.id, kind |-> content.kind, hint |-> SoleWebUrlHint(tags, idTag)]
  BY <1>4 DEF ExternalContent
<1>10. /\ CommentPointers(tags).root = [type |-> "external", id |-> content.id, kind |-> content.kind, hint |-> SoleWebUrlHint(tags, "I")]
       /\ CommentPointers(tags).replyTo = [type |-> "external", id |-> content.id, kind |-> content.kind, hint |-> SoleWebUrlHint(tags, "i")]
  BY <1>7, <1>8, <1>9 DEF CommentPointers, ??
<1>. QED BY <1>8, <1>10 DEF tags, ExternalRef

-----------------------------------------------------------------------------
(* Null is no record of external content.                                  *)
NullIsNoContent == \A id, kind, hint : ExternalRef(id, kind, hint) # Null

LEMMA PointersByKind ==
  ASSUME NEW event
  PROVE  /\ event.kind = KIND_TEXT_NOTE         => Pointers(event) = PointersOf(ShortNoteThreadTags(event.tags))
         /\ event.kind = KIND_CHAT_MESSAGE      => Pointers(event) = ChatPointers(event.tags)
         /\ event.kind = KIND_CHANNEL_MESSAGE   => Pointers(event) = PointersOf(ChannelMessageThreadTags(event.tags))
         /\ event.kind = KIND_LIVE_CHAT_MESSAGE => Pointers(event) = LiveChatPointers(event.tags)
         /\ event.kind \in COMMENT_KINDS        => Pointers(event) = CommentPointers(event.tags)
BY DEF Pointers, ThreadsAsComment, COMMENT_KINDS, KIND_TEXT_NOTE, KIND_CHAT_MESSAGE, KIND_CHANNEL_MESSAGE,
       KIND_LIVE_CHAT_MESSAGE, KIND_COMMENT, KIND_VOICE_MESSAGE_COMMENT

LEMMA IsAReply ==
  ASSUME NEW event, event.kind \in ThreadingKinds, NEW target, target # Null,
         \/ Pointers(event).replyTo = target
         \/ /\ event.kind # KIND_CHANNEL_MESSAGE
            /\ Pointers(event).replyTo = Null /\ Pointers(event).root = target
  PROVE  Refs(event).isReply /\ Refs(event).replyTo ?? Refs(event).root = target
BY DEF Refs, ??

LEMMA SameAsItself == \A target : SameTarget(target, target)
BY DEF SameTarget

LEMMA EventTargets ==
  ASSUME NEW id \in EventIds
  PROVE  EventRef(id) # Null
BY NothingAssumption

(* A reply in its parent's own kind is read back as one to it.             *)
LEMMA OwnKindsAnswer ==
  ASSUME NEW parent, IsEvent(parent), parent.kind \in OwnKinds, NEW hint \in Hints,
         NEW beside, AreMentions(beside),
         NEW event, event.kind = parent.kind, event.tags = OwnKindReplyTags(parent, hint) \o beside
  PROVE  Refs(event).isReply /\ Refs(event).replyTo ?? Refs(event).root = EventRef(parent.id)
<1>1. parent.id \in EventIds /\ EventRef(parent.id) # Null
  BY EventTargets DEF IsEvent
<1>2. event.kind \in ThreadingKinds
  BY DEF OwnKinds, ThreadingKinds
<1>3. CASE parent.kind = KIND_TEXT_NOTE
  <2>1. event.tags = NoteReplyTags(parent, hint) \o beside
    BY <1>3, EachInItsOwnKind
  <2>2. Pointers(event) = PointersOf(ShortNoteThreadTags(NoteReplyTags(parent, hint) \o beside))
    BY <1>3, <2>1, PointersByKind
  <2>3. \/ Pointers(event) = [root |-> EventRef(parent.id), replyTo |-> Null]
        \/ Pointers(event) = [root |-> EventRef(Source(parent)[2]), replyTo |-> EventRef(parent.id)]
    BY <2>2, NotesReadBack
  <2>4. KIND_TEXT_NOTE # KIND_CHANNEL_MESSAGE
    BY DEF KIND_TEXT_NOTE, KIND_CHANNEL_MESSAGE
  <2>. QED BY <1>1, <1>2, <1>3, <2>3, <2>4, IsAReply
<1>4. CASE parent.kind = KIND_CHAT_MESSAGE
  <2>1. event.tags = << <<"q", parent.id, hint, parent.pubkey>> >> \o beside
    BY <1>4, EachInItsOwnKind
  <2>2. Pointers(event) = ChatPointers(<< <<"q", parent.id, hint, parent.pubkey>> >> \o beside)
    BY <1>4, <2>1, PointersByKind
  <2>3. ChatPointers(<< <<"q", parent.id, hint, parent.pubkey>> >> \o beside) = [root |-> Null, replyTo |-> EventRef(parent.id)]
    BY <1>1, ChatsReadBack
  <2>4. Pointers(event).replyTo = EventRef(parent.id)
    BY <2>2, <2>3
  <2>. QED BY <1>1, <1>2, <2>4, IsAReply
<1>5. CASE parent.kind = KIND_CHANNEL_MESSAGE
  <2>1. event.tags = ChannelReplyTags(parent, hint) \o beside
    BY <1>5, EachInItsOwnKind
  <2>2. Pointers(event) = PointersOf(ChannelMessageThreadTags(ChannelReplyTags(parent, hint) \o beside))
    BY <1>5, <2>1, PointersByKind
  <2>3. Pointers(event).replyTo = EventRef(parent.id)
    BY <2>2, ChannelsReadBack
  <2>. QED BY <1>1, <1>2, <2>3, IsAReply
<1>6. CASE parent.kind = KIND_LIVE_CHAT_MESSAGE
  <2>1. event.tags = LiveTags(parent, hint, beside)
    BY <1>6, EachInItsOwnKind DEF LiveTags
  <2>2. Pointers(event).replyTo = SoleRefTagged(LiveTags(parent, hint, beside), "e")
    BY <1>6, <2>1, PointersByKind DEF LiveChatPointers
  <2>3. Pointers(event).replyTo = EventRef(parent.id)
    BY <2>2, LivesReadBack
  <2>. QED BY <1>1, <1>2, <2>3, IsAReply
<1>. QED BY <1>3, <1>4, <1>5, <1>6 DEF OwnKinds

(* Whatever it answers, a reply is read back as one to it.                 *)
LEMMA RepliesAnswer ==
  ASSUME NullIsNoContent, NEW parent, WellFormed(parent), NEW hint, MayAnswer(parent, hint),
         NEW content \in Contents,
         NEW event, event.kind = ReplyKind(parent),
         event.tags = WithContentTags(ReplyTags(parent, hint), content)
  PROVE  Refs(event).isReply /\ SameTarget(Refs(event).replyTo ?? Refs(event).root, TargetOf(parent))
<1>. DEFINE beside == ContentTagsBeside(ReplyTags(parent, hint), content)
<1>1. event.tags = ReplyTags(parent, hint) \o beside /\ AreMentions(beside) /\ hint \in Hints
  BY BuiltTags DEF MayAnswer
<1>2. event.kind \in ThreadingKinds
  BY RepliesAreChecked DEF OwnKinds, ThreadingKinds, COMMENT_KINDS
<1>. HIDE DEF beside
<1>3. CASE IsExternal(parent)
  <2>1. IsExternalContent(parent) /\ IsNamed(parent)
    BY <1>3, Parents DEF MayAnswer
  <2>2. event.kind = KIND_COMMENT /\ event.tags = ExternalTags(parent, beside) /\ TargetOf(parent) = parent
    BY <1>1, <2>1 DEF ReplyKind, ReplyTags, ExternalTags, TargetOf
  <2>3. Pointers(event) = CommentPointers(ExternalTags(parent, beside))
    BY <2>2, PointersByKind DEF COMMENT_KINDS
  <2>4. PICK h : CommentPointers(ExternalTags(parent, beside)).replyTo = ExternalRef(parent.id, parent.kind, h)
    BY <1>1, <1>3, <2>1, ExternalsReadBack
  <2>. DEFINE target == ExternalRef(parent.id, parent.kind, h)
  <2>5. target # Null /\ target.type = "external" /\ target.id = parent.id
    BY DEF NullIsNoContent, ExternalRef
  <2>6. Pointers(event).replyTo = target
    BY <2>3, <2>4
  <2>7. parent # Null /\ parent.type = "external"
    <3>1. parent = [type |-> "external", id |-> parent.id, kind |-> parent.kind, hint |-> parent.hint]
      BY <1>3 DEF IsExternal
    <3>2. [type |-> "external", id |-> parent.id, kind |-> parent.kind, hint |-> parent.hint] # Null
      BY DEF NullIsNoContent, ExternalRef
    <3>3. [type |-> "external", id |-> parent.id, kind |-> parent.kind, hint |-> parent.hint].type = "external"
      OBVIOUS
    <3>. QED BY <3>1, <3>2, <3>3
  <2>. HIDE DEF target
  <2>8. Refs(event).isReply /\ Refs(event).replyTo ?? Refs(event).root = target
    BY <1>2, <2>5, <2>6, IsAReply
  <2>9. SameTarget(target, parent)
    BY <2>5, <2>7 DEF SameTarget, FormatThreadRef
  <2>. QED BY <2>2, <2>8, <2>9
<1>4. ASSUME IsEvent(parent), HasText(ReplyTargetRef(parent)), parent.kind \in OwnKinds
      PROVE  Refs(event).isReply /\ SameTarget(Refs(event).replyTo ?? Refs(event).root, TargetOf(parent))
  <2>1. event.kind = parent.kind /\ event.tags = OwnKindReplyTags(parent, hint) \o beside
    BY <1>1, <1>4, Parents DEF ReplyKind, ReplyTags
  <2>2. TargetOf(parent) = EventRef(parent.id)
    BY <1>4, Parents, PlainKinds DEF TargetOf, OwnKinds, ThreadingKinds
  <2>3. Refs(event).isReply /\ Refs(event).replyTo ?? Refs(event).root = EventRef(parent.id)
    BY <1>1, <1>4, <2>1, OwnKindsAnswer
  <2>. QED BY <2>2, <2>3, SameAsItself
<1>5. ASSUME IsEvent(parent), HasText(ReplyTargetRef(parent)), parent.kind \notin OwnKinds
      PROVE  Refs(event).isReply /\ SameTarget(Refs(event).replyTo ?? Refs(event).root, TargetOf(parent))
  <2>1. event.kind = KIND_COMMENT /\ event.tags = CommentTags(parent, hint, beside)
    BY <1>1, <1>5, Parents DEF ReplyKind, ReplyTags, CommentTags
  <2>2. TargetOf(parent) = ReplyTargetRef(parent)
    BY <1>5, Parents DEF TargetOf
  <2>3. Pointers(event) = CommentPointers(CommentTags(parent, hint, beside))
    BY <2>1, PointersByKind DEF COMMENT_KINDS
  <2>4. Pointers(event).replyTo = ReplyTargetRef(parent) /\ ReplyTargetRef(parent) # Null
    BY <1>1, <1>5, <2>3, CommentsAnswer
  <2>5. Refs(event).isReply /\ Refs(event).replyTo ?? Refs(event).root = ReplyTargetRef(parent)
    BY <1>2, <2>4, IsAReply
  <2>. QED BY <2>2, <2>5, SameAsItself
<1>. QED BY <1>3, <1>4, <1>5 DEF WellFormed

(* Whatever an entry's own tags and whatever its content mentions, what    *)
(* buildReply builds is read back as a reply to the entry it was given.    *)
THEOREM RepliesAnswerTheirParent == ASSUME NullIsNoContent PROVE Spec => []AnswersItsParent
<1>1. Path => AnswersItsParent
  <2>. SUFFICES ASSUME Path, NEW i \in Built
                PROVE  /\ Refs(EventAt(i)).isReply
                       /\ SameTarget(Refs(EventAt(i)).replyTo ?? Refs(EventAt(i)).root, TargetOf(EventAt(i - 1)))
    BY DEF AnswersItsParent
  <2>1. PICK author \in Authors, hint \in Hints, content \in Contents :
           /\ MayAnswer(EventAt(i - 1), hint) /\ WellFormed(EventAt(i - 1))
           /\ EventAt(i) = EventOf(ReplyKind(EventAt(i - 1)), Ids[i], author,
                                   WithContentTags(ReplyTags(EventAt(i - 1), hint), content))
    BY BuiltEntries
  <2>2. EventAt(i).kind = ReplyKind(EventAt(i - 1))
        /\ EventAt(i).tags = WithContentTags(ReplyTags(EventAt(i - 1), hint), content)
    BY <2>1 DEF EventOf
  <2>. QED BY <2>1, <2>2, RepliesAnswer
<1>. QED BY <1>1, PathInvariant, PTL

-----------------------------------------------------------------------------
(* The thread an event belongs to, by its kind.                            *)
LEMMA ThreadsByKind ==
  ASSUME NEW event
  PROVE  /\ event.kind = KIND_TEXT_NOTE =>
              ThreadOf(event) = (Pointers(event).root ?? Pointers(event).replyTo) ?? EventRef(event.id)
         /\ event.kind = KIND_CHAT_MESSAGE      => ThreadOf(event) = Null
         /\ event.kind = KIND_CHANNEL_MESSAGE   => ThreadOf(event) = Pointers(event).root
         /\ event.kind = KIND_LIVE_CHAT_MESSAGE => ThreadOf(event) = SoleRefTagged(event.tags, "a")
         /\ event.kind \in COMMENT_KINDS        => ThreadOf(event) = ScopedRoot(event) ?? ReplyTargetRef(event)
         /\ event.kind \notin OwnKinds \cup COMMENT_KINDS => ThreadOf(event) = ReplyTargetRef(event)
<1>1. Refs(event).root = Pointers(event).root /\ Refs(event).replyTo = Pointers(event).replyTo
  BY DEF Refs
<1>. QED BY <1>1 DEF ThreadOf, ThreadsAsComment, OwnKinds, COMMENT_KINDS, KIND_TEXT_NOTE, KIND_CHAT_MESSAGE,
       KIND_CHANNEL_MESSAGE, KIND_LIVE_CHAT_MESSAGE, KIND_COMMENT, KIND_VOICE_MESSAGE_COMMENT

(* A note belongs to the thread its source names, or opens one.            *)
LEMMA NoteThreads ==
  ASSUME NEW note, note.kind = KIND_TEXT_NOTE, IsTags(note.tags), note.id \in EventIds
  PROVE  /\ ThreadOf(note) = EventRef(IF Source(note) = Null THEN note.id ELSE Source(note)[2])
         /\ Source(note) # Null => Source(note)[2] \in EventIds
<1>. DEFINE threadTags == ShortNoteThreadTags(note.tags)
<1>1. /\ threadTags.root # Null => IsEventTag(threadTags.root)
      /\ threadTags.parent # Null => IsEventTag(threadTags.parent)
  BY ThreadTagsPoint DEF AreThreadTags
<1>2. Source(note) = IF threadTags.root # Null THEN threadTags.root ELSE threadTags.parent
  BY DEF Source, ??
<1>3. Pointers(note) = PointersOf(threadTags)
  BY PointersByKind
<1>. HIDE DEF threadTags
<1>4. Pointers(note) = [root    |-> IF threadTags.root = Null THEN Null ELSE EventRef(threadTags.root[2]),
                        replyTo |-> IF threadTags.parent = Null THEN Null ELSE EventRef(threadTags.parent[2])]
  BY <1>1, <1>3, PointersOfTags
<1>5. /\ threadTags.root # Null => EventRef(threadTags.root[2]) # Null /\ threadTags.root[2] \in EventIds
      /\ threadTags.parent # Null => EventRef(threadTags.parent[2]) # Null /\ threadTags.parent[2] \in EventIds
  BY <1>1, EventTags DEF IsEventTag
<1>6. ThreadOf(note) = (Pointers(note).root ?? Pointers(note).replyTo) ?? EventRef(note.id)
  BY ThreadsByKind
<1>7. CASE threadTags.root # Null
  <2>1. Pointers(note).root = EventRef(threadTags.root[2])
    BY <1>4, <1>7
  <2>. QED BY <1>2, <1>5, <1>6, <1>7, <2>1 DEF ??
<1>8. CASE threadTags.root = Null /\ threadTags.parent # Null
  <2>1. Pointers(note).root = Null /\ Pointers(note).replyTo = EventRef(threadTags.parent[2])
    BY <1>4, <1>8
  <2>. QED BY <1>2, <1>5, <1>6, <1>8, <2>1 DEF ??
<1>9. CASE threadTags.root = Null /\ threadTags.parent = Null
  <2>1. Pointers(note).root = Null /\ Pointers(note).replyTo = Null
    BY <1>4, <1>9
  <2>. QED BY <1>2, <1>6, <1>9, <2>1 DEF ??
<1>. QED BY <1>7, <1>8, <1>9

(* A channel message belongs to the channel its root tag names.            *)
LEMMA ChannelThreads ==
  ASSUME NEW message, message.kind = KIND_CHANNEL_MESSAGE, IsTags(message.tags)
  PROVE  LET source == ChannelMessageThreadTags(message.tags).root
         IN  /\ ThreadOf(message) = IF source = Null THEN Null ELSE EventRef(source[2])
             /\ source # Null => source[2] \in EventIds
<1>. DEFINE threadTags == ChannelMessageThreadTags(message.tags)
<1>1. /\ threadTags.root # Null => IsEventTag(threadTags.root)
      /\ threadTags.parent # Null => IsEventTag(threadTags.parent)
  BY ThreadTagsPoint DEF AreThreadTags
<1>2. ThreadOf(message) = PointersOf(threadTags).root
  BY PointersByKind, ThreadsByKind
<1>. HIDE DEF threadTags
<1>3. PointersOf(threadTags).root = IF threadTags.root = Null THEN Null ELSE EventRef(threadTags.root[2])
  BY <1>1, PointersOfTags
<1>4. threadTags.root # Null => threadTags.root[2] \in EventIds
  BY <1>1, EventTags DEF IsEventTag
<1>. QED BY <1>2, <1>3, <1>4 DEF threadTags

(* A reply in its parent's own kind stays in its parent's thread.          *)
LEMMA OwnKindsStay ==
  ASSUME NEW parent, IsEvent(parent), parent.kind \in OwnKinds, NEW hint \in Hints,
         NEW beside, AreMentions(beside),
         NEW event, event.kind = parent.kind, event.tags = OwnKindReplyTags(parent, hint) \o beside
  PROVE  ThreadOf(event) = ThreadOf(parent)
<1>1. parent.id \in EventIds /\ IsTags(parent.tags) /\ EventRef(parent.id) # Null
  BY EventTargets DEF IsEvent
<1>3. CASE parent.kind = KIND_TEXT_NOTE
  <2>1. event.tags = NoteReplyTags(parent, hint) \o beside
    BY <1>3, EachInItsOwnKind
  <2>2. Pointers(event) = PointersOf(ShortNoteThreadTags(NoteReplyTags(parent, hint) \o beside))
    BY <1>3, <2>1, PointersByKind
  <2>3. ThreadOf(parent) = EventRef(IF Source(parent) = Null THEN parent.id ELSE Source(parent)[2])
        /\ (Source(parent) # Null => Source(parent)[2] \in EventIds)
    BY <1>1, <1>3, NoteThreads
  <2>4. InheritedRootTag(parent) = Null => Source(parent) = Null \/ Source(parent)[2] = parent.id
    BY InheritedRoots, CopiedRoots
  <2>5. InheritedRootTag(parent) # Null => Source(parent) # Null
    BY InheritedTags
  <2>6. Pointers(event).root = IF InheritedRootTag(parent) = Null THEN EventRef(parent.id) ELSE EventRef(Source(parent)[2])
    BY <2>2, NotesReadBack
  <2>7. Pointers(event).root = ThreadOf(parent) /\ ThreadOf(parent) # Null
    BY <1>1, <2>3, <2>4, <2>5, <2>6, EventTargets
  <2>8. ThreadOf(event) = (Pointers(event).root ?? Pointers(event).replyTo) ?? EventRef(event.id)
    BY <1>3, ThreadsByKind
  <2>. QED BY <2>7, <2>8 DEF ??
<1>4. CASE parent.kind = KIND_CHAT_MESSAGE
  BY <1>4, ThreadsByKind
<1>5. CASE parent.kind = KIND_CHANNEL_MESSAGE
  <2>. DEFINE source == ChannelMessageThreadTags(parent.tags).root
  <2>1. event.tags = ChannelReplyTags(parent, hint) \o beside
    BY <1>5, EachInItsOwnKind
  <2>2. ThreadOf(event) = PointersOf(ChannelMessageThreadTags(ChannelReplyTags(parent, hint) \o beside)).root
    BY <1>5, <2>1, PointersByKind, ThreadsByKind
  <2>3. PointersOf(ChannelMessageThreadTags(ChannelReplyTags(parent, hint) \o beside)) =
          [root |-> IF source = Null THEN Null ELSE EventRef(source[2]), replyTo |-> EventRef(parent.id)]
    BY ChannelsReadBack
  <2>4. ThreadOf(parent) = IF source = Null THEN Null ELSE EventRef(source[2])
    BY <1>1, <1>5, ChannelThreads
  <2>. QED BY <2>2, <2>3, <2>4
<1>6. CASE parent.kind = KIND_LIVE_CHAT_MESSAGE
  <2>1. event.tags = LiveTags(parent, hint, beside)
    BY <1>6, EachInItsOwnKind DEF LiveTags
  <2>2. ThreadOf(event) = SoleRefTagged(LiveTags(parent, hint, beside), "a")
    BY <1>6, <2>1, ThreadsByKind
  <2>3. ThreadOf(parent) = SoleRefTagged(parent.tags, "a")
    BY <1>6, ThreadsByKind
  <2>. QED BY <2>2, <2>3, LivesReadBack
<1>. QED BY <1>3, <1>4, <1>5, <1>6 DEF OwnKinds

(* Tags other programs write to point at events, without an author.        *)
LEMMA ForeignEventTags ==
  ASSUME NEW id \in EventIds
  PROVE  /\ IsEventTag(<<"e", id>>) /\ IsEventTag(<<"e", id, RawHint>>)
         /\ Nip10Marker(<<"e", id>>) = Null /\ Nip10Marker(<<"e", id, RawHint>>) = Null
         /\ <<"e", id>> # Null /\ <<"e", id, RawHint>> # Null
         /\ <<"e", id>>[2] = id /\ <<"e", id, RawHint>>[2] = id
<1>. DEFINE pair   == <<"e", id>>
            triple == <<"e", id, RawHint>>
<1>1. IsSequence(pair) /\ IsSequence(triple)
  BY Tuples
<1>2. /\ At(pair, 1) = "e" /\ At(pair, 2) = id /\ At(pair, 4) = Null /\ pair[2] = id
      /\ At(triple, 1) = "e" /\ At(triple, 2) = id /\ At(triple, 4) = Null /\ triple[2] = id
  BY Slots
<1>3. pair # Null /\ triple # Null
  BY NothingAssumption
<1>. HIDE DEF pair, triple
<1>4. IsEventTag(pair) /\ IsEventTag(triple) /\ Nip10Marker(pair) = Null /\ Nip10Marker(triple) = Null
  BY <1>1, <1>2 DEF IsEventTag, Nip10Marker
<1>. QED BY <1>2, <1>3, <1>4 DEF pair, triple

LEMMA AllEventTags ==
  ASSUME NEW tags, IsTags(tags), \A tag \in ToSet(tags) : IsEventTag(tag)
  PROVE  EventTagsOf(tags) = tags
<1>1. \A tag \in ToSet(tags) : At(tag, 1) = "e" /\ RefFromTag(tag) # Null
  BY EventTags DEF IsEventTag
<1>2. tags \in Seq(ToSet(tags))
  BY DEF IsTags, IsSequence
<1>. DEFINE S == {tag \in ToSet(tags) : At(tag, 1) = "e" /\ RefFromTag(tag) # Null}
<1>3. \A tag \in ToSet(tags) : tag \in S
  BY <1>1
<1>. HIDE DEF S
<1>4. Among(tags, S) = tags
  BY <1>2, <1>3, AmongAll
<1>. QED BY <1>4 DEF EventTagsOf, S

(* What names no marker is read by position.                               *)
LEMMA ReadByPosition ==
  /\ \A x : IsEventTag(x) /\ Nip10Marker(x) = Null => ShortNoteThreadTags(<< x >>) = [root |-> Null, parent |-> x]
  /\ \A x, y : IsEventTag(x) /\ Nip10Marker(x) = Null /\ IsEventTag(y) /\ Nip10Marker(y) = Null =>
       ShortNoteThreadTags(<< x, y >>) = [root |-> x, parent |-> y]
<1>1. ASSUME NEW x, IsEventTag(x), Nip10Marker(x) = Null
      PROVE  ShortNoteThreadTags(<< x >>) = [root |-> Null, parent |-> x]
  <2>. DEFINE one == << x >>
  <2>1. IsTags(one) /\ ToSet(one) = {x}
    BY <1>1, OneTag DEF IsEventTag
  <2>2. Len(one) = 1 /\ one # <<>> /\ Last(one) = x
    BY DEF Last
  <2>. HIDE DEF one
  <2>3. EventTagsOf(one) = one
    BY <1>1, <2>1, AllEventTags
  <2>3a. ~(Len(one) > 1) /\ ~\E tag \in ToSet(one) : Nip10Marker(tag) # Null
    BY <1>1, <2>1, <2>2
  <2>4. ShortNoteThreadTags(one) = [root |-> Null, parent |-> x]
    BY <2>2, <2>3, <2>3a DEF ShortNoteThreadTags
  <2>. QED BY <2>4 DEF one
<1>2. ASSUME NEW x, NEW y, IsEventTag(x), Nip10Marker(x) = Null, IsEventTag(y), Nip10Marker(y) = Null
      PROVE  ShortNoteThreadTags(<< x, y >>) = [root |-> x, parent |-> y]
  <2>. DEFINE two == << x, y >>
  <2>1. IsTags(two) /\ ToSet(two) = {x, y}
    BY <1>2, TwoTags DEF IsEventTag
  <2>2. Len(two) = 2 /\ two # <<>> /\ Last(two) = y /\ Head(two) = x
    BY DEF Last
  <2>. HIDE DEF two
  <2>3. EventTagsOf(two) = two
    BY <1>2, <2>1, AllEventTags
  <2>3a. Len(two) > 1 /\ ~\E tag \in ToSet(two) : Nip10Marker(tag) # Null
    BY <1>2, <2>1, <2>2
  <2>4. ShortNoteThreadTags(two) = [root |-> x, parent |-> y]
    BY <2>2, <2>3, <2>3a DEF ShortNoteThreadTags
  <2>. QED BY <2>4 DEF two
<1>. QED BY <1>1, <1>2

(* A note written by position stays in the thread of its parent.           *)
LEMMA PositionalsStay ==
  ASSUME NEW parent, IsEvent(parent), parent.kind = KIND_TEXT_NOTE,
         NEW event, event.kind = KIND_TEXT_NOTE, event.id \in EventIds, event.tags = PositionalTags(parent)
  PROVE  ThreadOf(event) = ThreadOf(parent)
<1>. DEFINE root  == IF Source(parent) = Null THEN parent.id ELSE Source(parent)[2]
            first == <<"e", root, RawHint>>
            last  == <<"e", parent.id>>
<1>1. ThreadOf(parent) = EventRef(root) /\ root \in EventIds /\ parent.id \in EventIds
  BY NoteThreads DEF IsEvent
<1>2. Opens(parent) = EventRef(root) /\ Opens(parent).id = root
  BY <1>1, Parents DEF Opens, EventRef
<1>. HIDE DEF root
<1>3. /\ IsEventTag(first) /\ Nip10Marker(first) = Null /\ first # Null /\ first[2] = root
      /\ IsEventTag(last) /\ Nip10Marker(last) = Null /\ last # Null /\ last[2] = parent.id
  BY <1>1, ForeignEventTags
<1>4. event.tags = (IF root = parent.id THEN <<>> ELSE << first >>) \o << last >>
  BY <1>2 DEF PositionalTags
<1>. HIDE DEF first, last
<1>5. Source(event) = ShortNoteThreadTags(event.tags).root ?? ShortNoteThreadTags(event.tags).parent
  BY DEF Source
<1>6. IsTags(event.tags) /\ Source(event) # Null /\ Source(event)[2] = root
  <2>1. CASE root = parent.id
    <3>1. <<>> \o << last >> = << last >>
      OBVIOUS
    <3>2. event.tags = << last >>
      BY <1>4, <2>1, <3>1
    <3>3. ShortNoteThreadTags(event.tags) = [root |-> Null, parent |-> last]
      BY <1>3, <3>2, ReadByPosition
    <3>4. Source(event) = last
      BY <1>5, <3>3 DEF ??
    <3>. QED BY <1>3, <2>1, <3>2, <3>4, OneTag DEF IsEventTag
  <2>2. CASE root # parent.id
    <3>1. << first >> \o << last >> = << first, last >>
      BY Splits
    <3>2. event.tags = << first, last >>
      BY <1>4, <2>2, <3>1
    <3>3. ShortNoteThreadTags(event.tags) = [root |-> first, parent |-> last]
      BY <1>3, <3>2, ReadByPosition
    <3>4. Source(event) = first
      BY <1>3, <1>5, <3>3 DEF ??
    <3>5. IsTags(<< first, last >>)
      BY <1>3, TwoTags DEF IsEventTag
    <3>. QED BY <1>3, <3>2, <3>4, <3>5
  <2>. QED BY <2>1, <2>2
<1>7. ThreadOf(event) = EventRef(root)
  BY <1>6, NoteThreads
<1>. QED BY <1>1, <1>7

(* A note or message written with markers stays where its parent is.       *)
LEMMA MarkedStay ==
  ASSUME NEW parent, IsEvent(parent), parent.kind \in {KIND_TEXT_NOTE, KIND_CHANNEL_MESSAGE},
         NEW event, event.kind = parent.kind, event.id \in EventIds, event.tags = MarkedTags(parent)
  PROVE  ThreadOf(event) = ThreadOf(parent)
<1>. DEFINE root  == Opens(parent)
            named == <<"e", root.id, RawHint, "root">>
            reply == <<"e", parent.id, "", "reply">>
            told  == <<"p", parent.pubkey>>
            a     == IF root = Null THEN <<>> ELSE << named >>
            b     == IF root # Null /\ root.id = parent.id THEN <<>> ELSE << reply >>
            first == a \o b
            threadTags == MarkedThreadTags(first)
<1>1. parent.id \in EventIds /\ IsTags(parent.tags) /\ root = ThreadOf(parent)
  BY Parents DEF IsEvent, Opens
<1>2. root = Null \/ \E id \in EventIds : root = EventRef(id) /\ root.id = id
  <2>1. parent.kind = KIND_TEXT_NOTE => \E id \in EventIds : root = EventRef(id)
    BY <1>1, NoteThreads
  <2>2. parent.kind = KIND_CHANNEL_MESSAGE => root = Null \/ \E id \in EventIds : root = EventRef(id)
    BY <1>1, ChannelThreads
  <2>. QED BY <2>1, <2>2 DEF EventRef
<1>3. root = Null => parent.kind = KIND_CHANNEL_MESSAGE
  <2>1. parent.kind = KIND_TEXT_NOTE => \E id \in EventIds : root = EventRef(id)
    BY <1>1, NoteThreads
  <2>. QED BY <2>1, NothingAssumption
<1>. HIDE DEF root
<1>4. root # Null => root = EventRef(root.id) /\ root.id \in EventIds /\ Marked(named, "root") /\ named # Null /\ named[2] = root.id
  <2>1. root # Null => root = EventRef(root.id) /\ root.id \in EventIds
    BY <1>2
  <2>2. root # Null => Marked(named, "root")
    BY <2>1, MarkedTuples
  <2>3. root # Null => named # Null
    BY <2>1, NothingAssumption
  <2>4. named[2] = root.id
    BY Slots
  <2>. QED BY <2>1, <2>2, <2>3, <2>4
<1>5. Marked(reply, "reply")
  BY <1>1, MarkedTuples
<1>6. IsSequence(told) /\ At(told, 1) = "p"
  BY Tuples, Slots
<1>7. event.tags = first \o << told >>
  BY DEF MarkedTags, root
<1>. HIDE DEF named, reply, told, first
<1>8. IsTags(<< told >>) /\ \A tag \in ToSet(<< told >>) : At(tag, 1) # "e"
  BY <1>6, OneTag
<1>9. /\ root = Null => first = << reply >>
      /\ root # Null /\ root.id = parent.id => first = << named >>
      /\ root # Null /\ root.id # parent.id => first = << named, reply >>
  <2>1. <<>> \o << reply >> = << reply >> /\ << named >> \o <<>> = << named >>
    OBVIOUS
  <2>2. << named >> \o << reply >> = << named, reply >>
    BY Splits
  <2>. QED BY <2>1, <2>2 DEF first
<1>10. /\ IsTags(first) /\ first # <<>>
       /\ \A tag \in ToSet(first) : Marked(tag, "root") \/ Marked(tag, "reply")
       /\ threadTags.root = IF root = Null THEN Null ELSE named
  <2>1. CASE root = Null
    <3>1. first = << reply >>
      BY <1>9, <2>1
    <3>2. MarkedThreadTags(<< reply >>) = [root |-> Null, parent |-> reply]
      BY <1>5, MarkedTogether
    <3>3. IsTags(<< reply >>) /\ ToSet(<< reply >>) = {reply}
      BY <1>5, OneTag DEF Marked, IsEventTag
    <3>. QED BY <1>5, <2>1, <3>1, <3>2, <3>3
  <2>2. CASE root # Null /\ root.id = parent.id
    <3>1. first = << named >>
      BY <1>9, <2>2
    <3>2. MarkedThreadTags(<< named >>) = [root |-> named, parent |-> Null]
      BY <1>4, <2>2, MarkedTogether
    <3>3. IsTags(<< named >>) /\ ToSet(<< named >>) = {named}
      BY <1>4, <2>2, OneTag DEF Marked, IsEventTag
    <3>. QED BY <1>4, <2>2, <3>1, <3>2, <3>3
  <2>3. CASE root # Null /\ root.id # parent.id
    <3>1. first = << named, reply >>
      BY <1>9, <2>3
    <3>2. MarkedThreadTags(<< named, reply >>) = [root |-> named, parent |-> reply]
      BY <1>4, <1>5, <2>3, MarkedTogether
    <3>3. IsTags(<< named, reply >>) /\ ToSet(<< named, reply >>) = {named, reply}
      BY <1>4, <1>5, <2>3, TwoTags DEF Marked, IsEventTag
    <3>. QED BY <1>4, <1>5, <2>3, <3>1, <3>2, <3>3
  <2>. QED BY <2>1, <2>2, <2>3
<1>11. /\ ShortNoteThreadTags(event.tags) = threadTags
       /\ ChannelMessageThreadTags(event.tags) = threadTags
  BY <1>7, <1>8, <1>10, ReadByMarker
<1>12. IsTags(event.tags)
  BY ForeignTags
<1>. HIDE DEF threadTags
<1>13. CASE event.kind = KIND_TEXT_NOTE
  <2>1. root # Null
    BY <1>3, <1>13 DEF KIND_TEXT_NOTE, KIND_CHANNEL_MESSAGE
  <2>2. Source(event) = named
    BY <1>4, <1>10, <1>11, <2>1 DEF Source, ??
  <2>3. ThreadOf(event) = EventRef(named[2])
    BY <1>4, <1>12, <1>13, <2>1, <2>2, NoteThreads
  <2>. QED BY <1>1, <1>4, <2>1, <2>3
<1>14. CASE event.kind = KIND_CHANNEL_MESSAGE
  <2>1. ThreadOf(event) = IF root = Null THEN Null ELSE EventRef(named[2])
    BY <1>4, <1>10, <1>11, <1>12, <1>14, ChannelThreads
  <2>. QED BY <1>1, <1>4, <2>1
<1>. QED BY <1>13, <1>14

-----------------------------------------------------------------------------
(* The root the scope tags of a comment name.                              *)
ScopeOf(tags) == IF SoleNonEmptyValue(tags, "K") = Null THEN Null ELSE CommentPointers(tags).root

LEMMA ScopedRoots ==
  ASSUME NEW comment, comment.kind \in COMMENT_KINDS
  PROVE  ScopedRoot(comment) = ScopeOf(comment.tags)
<1>1. Refs(comment).root = CommentPointers(comment.tags).root
  BY PointersByKind DEF Refs
<1>. QED BY <1>1 DEF ScopedRoot, ScopeOf

LEMMA ExternalContents ==
  ASSUME NEW tags, NEW idTag, NEW kindTag, NullIsNoContent
  PROVE  LET id   == SoleNonEmptyValue(tags, idTag)
             kind == SoleNonEmptyValue(tags, kindTag)
         IN  /\ ExternalContent(tags, idTag, kindTag) = Null <=> id = Null \/ kind = Null
             /\ ExternalContent(tags, idTag, kindTag) # Null =>
                  /\ ExternalContent(tags, idTag, kindTag).type = "external"
                  /\ ExternalContent(tags, idTag, kindTag).id = id
                  /\ id \notin {"", Null}
<1>. DEFINE id   == SoleNonEmptyValue(tags, idTag)
            kind == SoleNonEmptyValue(tags, kindTag)
            ref  == ExternalRef(id, kind, SoleWebUrlHint(tags, idTag))
<1>1. ExternalContent(tags, idTag, kindTag) = IF Null \in {id, kind} THEN Null ELSE ref
  BY DEF ExternalContent, ExternalRef
<1>2. ref # Null /\ ref.type = "external" /\ ref.id = id
  BY DEF NullIsNoContent, ExternalRef
<1>3. id # ""
  BY NothingAssumption DEF SoleNonEmptyValue
<1>. HIDE DEF id, kind, ref
<1>. QED BY <1>1, <1>2, <1>3 DEF id, kind

(* Tags that say the same of a root name the same root.                    *)
LEMMA RootsAlike ==
  ASSUME NullIsNoContent, NEW a, NEW b,
         SoleRefTagged(a, "A") = SoleRefTagged(b, "A"), SoleRefTagged(a, "E") = SoleRefTagged(b, "E"),
         ExtractTagValues(a, "I") = ExtractTagValues(b, "I"), ExtractTagValues(a, "K") = ExtractTagValues(b, "K")
  PROVE  SameTarget(ScopeOf(a), ScopeOf(b)) /\ (ScopeOf(a) = Null <=> ScopeOf(b) = Null)
<1>1. SoleNonEmptyValue(a, "I") = SoleNonEmptyValue(b, "I") /\ SoleNonEmptyValue(a, "K") = SoleNonEmptyValue(b, "K")
  BY DEF SoleNonEmptyValue, SoleTagValue
<1>. DEFINE ref  == SoleRefTagged(a, "A") ?? SoleRefTagged(a, "E")
            of(tags) == ExternalContent(tags, "I", "K")
<1>2. /\ CommentPointers(a).root = ref ?? of(a)
      /\ CommentPointers(b).root = ref ?? of(b)
  BY DEF CommentPointers
<1>3. of(a) = Null <=> of(b) = Null
  <2>1. \A tags : of(tags) = Null <=> SoleNonEmptyValue(tags, "I") = Null \/ SoleNonEmptyValue(tags, "K") = Null
    BY ExternalContents
  <2>. QED BY <1>1, <2>1
<1>4. SameTarget(of(a), of(b))
  <2>1. CASE of(a) = Null
    BY <1>3, <2>1, SameAsItself
  <2>2. CASE of(a) # Null
    <3>1. of(a).type = "external" /\ of(a).id = SoleNonEmptyValue(a, "I")
      BY <2>2, ExternalContents
    <3>2. of(b) # Null /\ of(b).type = "external" /\ of(b).id = SoleNonEmptyValue(b, "I")
      BY <1>3, <2>2, ExternalContents
    <3>. HIDE DEF of
    <3>. QED BY <1>1, <2>2, <3>1, <3>2 DEF SameTarget, FormatThreadRef
  <2>. QED BY <2>1, <2>2
<1>. HIDE DEF ref, of
<1>5. SameTarget(ref ?? of(a), ref ?? of(b)) /\ (ref ?? of(a) = Null <=> ref ?? of(b) = Null)
  BY <1>3, <1>4, SameAsItself DEF ??
<1>. QED BY <1>1, <1>2, <1>5, SameAsItself DEF ScopeOf

(* A comment on an event that is in no comment's scope opens its own.      *)
LEMMA OpenedScopesReadBack ==
  ASSUME NEW parent, IsEvent(parent), HasText(ReplyTargetRef(parent)), NEW hint \in Hints,
         NEW beside, AreMentions(beside), CommentRootScope(parent, hint) = EventScopeTags(parent, hint)
  PROVE  ScopeOf(CommentTags(parent, hint, beside)) = ReplyTargetRef(parent)
<1>. DEFINE tags  == CommentTags(parent, hint, beside)
            ref   == ReplyTargetRef(parent)
            place == <<"A", FormatRef(ref), hint>>
            event == <<"E", parent.id, hint, parent.pubkey>>
            scope == IF ref.type = "address" THEN place ELSE event
            kind  == <<"K", DecimalText[parent.kind]>>
            told  == WithHint(<<"P", parent.pubkey>>, hint)
            items == ToSet(CommentRootScope(parent, hint))
<1>1. EventScopeTags(parent, hint) = << scope, kind, told >>
  BY DEF EventScopeTags
<1>2. Names(told, {"P"}) /\ IsSequence(scope) /\ IsSequence(kind)
  BY HintedNames, Tuples
<1>3. At(place, 1) = "A" /\ At(place, 2) = FormatRef(ref) /\ At(kind, 1) = "K" /\ At(kind, 2) = DecimalText[parent.kind]
  BY Slots
<1>4. At(event, 1) = "E" /\ At(event, 2) = parent.id /\ parent.id \in EventIds
  BY Slots DEF IsEvent
<1>5. /\ ref.type \in {"event", "address"} /\ IsRef(ref) /\ ref # Null
      /\ ref.type = "event" => ref = EventRef(parent.id)
  BY Targets, CommentsAnswer
<1>6. DecimalText[parent.kind] \notin {"", Null}
  BY KindTextsAssumption DEF IsEvent
<1>7. /\ IsTags(tags)
      /\ \A name \in {"A", "E", "I", "K"} : Under(ToSet(tags), name) = Under(items, name)
  BY CommentSets
<1>8. items = ToSet(<< scope, kind, told >>)
  BY <1>1
<1>. HIDE DEF tags, ref, place, event, kind, told, items, scope
<1>9. items = {scope, kind, told}
  BY <1>2, <1>8, ThreeTags DEF Names
<1>10. SoleNonEmptyValue(tags, "K") # Null
  <2>a. ASSUME NEW name, NEW tag, NEW value, Under(ToSet(tags), name) = {tag}, At(tag, 2) = value, value # Null
        PROVE  ValuesIn(ToSet(tags), name) = {value}
    BY <2>a, OneValueUnder
  <2>1. Under(ToSet(tags), "K") = {kind}
    <3>1. Under(items, "K") = {kind}
      BY <1>2, <1>3, <1>4, <1>9 DEF Under, Names, scope
    <3>. QED BY <1>7, <3>1
  <2>2. ValuesIn(ToSet(tags), "K") = {DecimalText[parent.kind]}
    <3>1. DecimalText[parent.kind] # Null
      BY <1>6
    <3>2. At(kind, 2) = DecimalText[parent.kind]
      BY <1>3
    <3>. QED BY <2>a, <2>1, <3>1, <3>2, Zenon
  <2>3. SoleNonEmptyValue(tags, "K") = DecimalText[parent.kind]
    BY <1>6, <1>7, <2>2, SoleNames
  <2>. QED BY <1>6, <2>3
<1>11. CASE ref.type = "address"
  <2>1. Under(ToSet(tags), "A") = {place}
    <3>1. Under(items, "A") = {place}
      BY <1>2, <1>3, <1>9, <1>11 DEF Under, Names, scope
    <3>. QED BY <1>7, <3>1
  <2>2. RefFromTag(place) = ref
    <3>1. FormatRef(ref) \in DOMAIN Addresses /\ Addresses[FormatRef(ref)] = ref.address /\ FormatRef(ref) # Null
      BY <1>11, TextsName DEF ref
    <3>2. RefFromTag(place) = AddressRef(Addresses[FormatRef(ref)])
      BY <1>3, <3>1, PointsAt
    <3>3. ref = AddressRef(ref.address)
      BY <1>5, <1>11 DEF IsRef, AddressRef, EventRef, IsExternal
    <3>. QED BY <3>1, <3>2, <3>3
  <2>3. SoleRefTagged(tags, "A") = ref
    BY <1>7, <2>1, <2>2, OneUnder, ReadAsSets
  <2>. QED BY <1>5, <1>10, <2>3 DEF ScopeOf, CommentPointers, ??, ref, tags
<1>12. CASE ref.type = "event"
  <2>1. Under(ToSet(tags), "A") = {} /\ Under(ToSet(tags), "E") = {event}
    <3>1. Under(items, "A") = {} /\ Under(items, "E") = {event}
      BY <1>2, <1>3, <1>4, <1>9, <1>12 DEF Under, Names, scope
    <3>. QED BY <1>7, <3>1
  <2>2. RefFromTag(event) = ref
    BY <1>4, <1>5, <1>12, NothingAssumption, PointsAt
  <2>3. SoleRefTagged(tags, "A") = Null
    BY <1>7, <2>1, NoneUnder, ReadAsSets
  <2>4. SoleRefTagged(tags, "E") = ref
    BY <1>7, <2>1, <2>2, OneUnder, ReadAsSets
  <2>. QED BY <1>5, <1>10, <2>3, <2>4 DEF ScopeOf, CommentPointers, ??, ref, tags
<1>. QED BY <1>5, <1>11, <1>12 DEF ref, tags

(* Every I tag has a value, be it empty.                                   *)
ScopesAreFull(tags) == \A tag \in ToSet(tags) : At(tag, 1) = "I" => At(tag, 2) # Null

LEMMA CopiesOfTags ==
  ASSUME NEW tag, IsSequence(tag), At(tag, 1) \in ROOT_SCOPE_TAG_NAMES
  PROVE  /\ At(CopiedScopeTag(tag), 1) = At(tag, 1)
         /\ At(tag, 1) # "I" => CopiedScopeTag(tag) = tag
         /\ At(CopiedScopeTag(tag), 2) = IF At(tag, 1) # "I" THEN At(tag, 2) ELSE At(tag, 2) ?? ""
<1>1. /\ At(CopiedScopeTag(tag), 1) = At(tag, 1) /\ tag[1] = At(tag, 1)
  BY CopiedTags DEF Names
<1>2. At(tag, 1) # "I" => CopiedScopeTag(tag) = tag
  BY <1>1 DEF CopiedScopeTag
<1>3. ASSUME At(tag, 1) = "I" PROVE At(CopiedScopeTag(tag), 2) = At(tag, 2) ?? ""
  <2>. DEFINE value == At(tag, 2) ?? ""
              page  == tag[3]
              pair  == <<"I", value>>
  <2>1. CopiedScopeTag(tag) = pair \o <<>> \/ CopiedScopeTag(tag) = pair \o << page >>
    BY <1>1, <1>3 DEF CopiedScopeTag
  <2>. HIDE DEF value, page
  <2>2. pair \in Seq({"I", value}) /\ pair \in Seq({"I", value, page}) /\ page \in {"I", value, page}
    OBVIOUS
  <2>. HIDE DEF pair
  <2>3. pair \o <<>> = pair /\ pair \o << page >> = Append(pair, page)
    BY <2>2, ConcatEmptySeq, AppendIsConcat
  <2>4. Append(pair, page) = <<"I", value, page>>
    BY AppendedPair DEF pair
  <2>5. At(pair, 2) = value /\ At(<<"I", value, page>>, 2) = value
    BY Slots DEF pair
  <2>6. At(CopiedScopeTag(tag), 2) = value
    BY <2>1, <2>3, <2>4, <2>5
  <2>. QED BY <2>6 DEF value
<1>. QED BY <1>1, <1>2, <1>3

(* What a copied scope says of each name but P.                            *)
LEMMA CopiedUnder ==
  ASSUME NEW parent, IsEvent(parent), NEW root, NEW name \in {"A", "E", "I", "K"}
  PROVE  Under(ToSet(CopiedRootScope(parent, root)), name) =
           {CopiedScopeTag(tag) : tag \in Under(ToSet(parent.tags), name)}
<1>. DEFINE Copies == {CopiedScopeTag(tag) : tag \in ScopeTags(parent.tags)}
            items  == ToSet(CopiedRootScope(parent, root))
<1>1. PICK author : items \in {Copies, Copies \cup {<<"P", author>>}}
  BY CopiedScopes
<1>2. At(<<"P", author>>, 1) = "P"
  BY Slots
<1>3. Under(items, name) = Under(Copies, name)
  BY <1>1, <1>2 DEF Under
<1>4. \A tag \in ToSet(parent.tags) : IsSequence(tag)
  BY DEF IsEvent, IsTags
<1>5. \A tag \in ScopeTags(parent.tags) : At(CopiedScopeTag(tag), 1) = At(tag, 1)
  BY <1>4, CopiesOfTags DEF ScopeTags
<1>6. \A tag \in ToSet(parent.tags) : At(tag, 1) = name => tag \in ScopeTags(parent.tags)
  BY DEF ScopeTags, ROOT_SCOPE_TAG_NAMES
<1>7. Under(Copies, name) = {CopiedScopeTag(tag) : tag \in Under(ToSet(parent.tags), name)}
  BY <1>5, <1>6 DEF Under, ScopeTags
<1>. QED BY <1>3, <1>7

(* A comment in a comment's scope names the same root.                     *)
LEMMA CopiedScopesReadBack ==
  ASSUME NullIsNoContent, NEW parent, IsEvent(parent), ScopesAreFull(parent.tags), NEW hint \in Hints,
         NEW beside, AreMentions(beside),
         NEW root, CommentRootScope(parent, hint) = CopiedRootScope(parent, root)
  PROVE  /\ SameTarget(ScopeOf(CommentTags(parent, hint, beside)), ScopeOf(parent.tags))
         /\ ScopeOf(CommentTags(parent, hint, beside)) = Null <=> ScopeOf(parent.tags) = Null
<1>. DEFINE tags  == CommentTags(parent, hint, beside)
            items == ToSet(CommentRootScope(parent, hint))
            given == ToSet(parent.tags)
<1>1. /\ IsTags(tags)
      /\ \A name \in {"A", "E", "I", "K"} : Under(ToSet(tags), name) = Under(items, name)
  BY CommentSets
<1>2. \A name \in {"A", "E", "I", "K"} : Under(items, name) = {CopiedScopeTag(tag) : tag \in Under(given, name)}
  BY CopiedUnder
<1>3. IsTags(parent.tags) /\ \A tag \in given : IsSequence(tag)
  BY DEF IsEvent, IsTags
<1>4. \A tag \in given : At(tag, 1) = "I" => At(tag, 2) # Null
  BY DEF ScopesAreFull
<1>. HIDE DEF tags, items, given
<1>5. ASSUME NEW name \in {"A", "E", "K"} PROVE Under(ToSet(tags), name) = Under(given, name)
  <2>1. \A tag \in Under(given, name) : CopiedScopeTag(tag) = tag
    BY <1>3, CopiesOfTags DEF Under, ROOT_SCOPE_TAG_NAMES
  <2>2. {CopiedScopeTag(tag) : tag \in Under(given, name)} = Under(given, name)
    BY <2>1
  <2>. QED BY <1>1, <1>2, <2>2
<1>6. ValuesIn(ToSet(tags), "I") = ValuesIn(given, "I")
  <2>. DEFINE Is == Under(given, "I")
  <2>1. \A tag \in Is : At(CopiedScopeTag(tag), 2) = At(tag, 2)
    BY <1>3, <1>4, CopiesOfTags DEF Under, ROOT_SCOPE_TAG_NAMES, ??
  <2>. HIDE DEF Is
  <2>2. Under(ToSet(tags), "I") = {CopiedScopeTag(tag) : tag \in Is}
    BY <1>1, <1>2 DEF Is
  <2>3. {At(copy, 2) : copy \in {CopiedScopeTag(tag) : tag \in Is}} = {At(tag, 2) : tag \in Is}
    BY <2>1
  <2>. QED BY <2>2, <2>3 DEF ValuesIn, Is
<1>7. /\ SoleRefTagged(tags, "A") = SoleRefTagged(parent.tags, "A")
      /\ SoleRefTagged(tags, "E") = SoleRefTagged(parent.tags, "E")
  BY <1>1, <1>3, <1>5, ReadAsSets DEF PointedAt, given
<1>8. /\ ExtractTagValues(tags, "I") = ExtractTagValues(parent.tags, "I")
      /\ ExtractTagValues(tags, "K") = ExtractTagValues(parent.tags, "K")
  <2>1. ValuesIn(ToSet(tags), "K") = ValuesIn(given, "K")
    BY <1>5 DEF ValuesIn
  <2>. QED BY <1>1, <1>3, <1>6, <2>1, ReadAsSets DEF given
<1>9. SameTarget(ScopeOf(tags), ScopeOf(parent.tags)) /\ (ScopeOf(tags) = Null <=> ScopeOf(parent.tags) = Null)
  BY <1>7, <1>8, RootsAlike
<1>. QED BY <1>9 DEF tags

(* A comment buildReply builds stays in the thread of what it answers.     *)
LEMMA CommentsStay ==
  ASSUME NullIsNoContent, NEW parent, IsEvent(parent), HasText(ReplyTargetRef(parent)), parent.kind \notin OwnKinds,
         parent.kind \in COMMENT_KINDS => ScopesAreFull(parent.tags),
         NEW hint \in Hints, NEW beside, AreMentions(beside),
         NEW event, event.kind = KIND_COMMENT, event.tags = CommentTags(parent, hint, beside)
  PROVE  SameTarget(ThreadOf(event), ThreadOf(parent))
<1>1. ReplyTargetRef(parent) # Null
  BY CommentsAnswer
<1>2. ThreadOf(event) = ScopeOf(event.tags) ?? ReplyTargetRef(event)
  BY ScopedRoots, ThreadsByKind DEF COMMENT_KINDS
<1>3. CASE parent.kind \in COMMENT_KINDS /\ ScopedRoot(parent) # Null
  <2>1. CommentRootScope(parent, hint) = CopiedRootScope(parent, ScopedRoot(parent))
    BY <1>3 DEF CommentRootScope, ThreadsAsComment
  <2>2. /\ SameTarget(ScopeOf(event.tags), ScopeOf(parent.tags))
        /\ ScopeOf(event.tags) = Null <=> ScopeOf(parent.tags) = Null
    BY <1>3, <2>1, CopiedScopesReadBack
  <2>3. ScopedRoot(parent) = ScopeOf(parent.tags)
    BY <1>3, ScopedRoots
  <2>4. ThreadOf(parent) = ScopedRoot(parent) ?? ReplyTargetRef(parent)
    BY <1>3, ThreadsByKind
  <2>. QED BY <1>2, <1>3, <2>2, <2>3, <2>4 DEF ??
<1>4. CASE ~(parent.kind \in COMMENT_KINDS /\ ScopedRoot(parent) # Null)
  <2>1. CommentRootScope(parent, hint) = EventScopeTags(parent, hint)
    BY <1>4 DEF CommentRootScope, ThreadsAsComment
  <2>2. ScopeOf(event.tags) = ReplyTargetRef(parent)
    BY <2>1, OpenedScopesReadBack
  <2>3. ThreadOf(parent) = ReplyTargetRef(parent)
    BY <1>4, ThreadsByKind DEF ??
  <2>. QED BY <1>1, <1>2, <2>2, <2>3, SameAsItself DEF ??
<1>. QED BY <1>3, <1>4

-----------------------------------------------------------------------------
(* What other programs comment on names itself, and its kind.              *)
Commentable(parent) ==
  \/ IsExternal(parent) /\ "" \notin {parent.id, parent.kind}
  \/ IsEvent(parent) /\ HasText(ReplyTargetRef(parent)) /\ parent.kind \notin OwnKinds

LEMMA RefsAreSome == ASSUME NullIsNoContent, NEW ref, IsRef(ref) PROVE ref # Null
<1>1. IsExternal(ref) => ref = ExternalRef(ref.id, ref.kind, ref.hint)
  BY DEF IsExternal, ExternalRef
<1>. QED BY <1>1, NothingAssumption DEF IsRef, NullIsNoContent

LEMMA TaggedRefs ==
  ASSUME NEW tags, NEW name, SoleRefTagged(tags, name) # Null
  PROVE  SoleRefTagged(tags, name).type \in {"event", "address"}
<1>1. PICK tag : SoleRefTagged(tags, name) = RefFromTag(tag)
  BY SoleRefs DEF SoleRefTagged
<1>2. \A id : EventRef(id).type = "event"
  BY DEF EventRef
<1>3. \A address : AddressRef(address).type = "address"
  BY DEF AddressRef
<1>. QED BY <1>1, <1>2, <1>3 DEF RefFromTag

LEMMA OpensWhole ==
  ASSUME NullIsNoContent, NEW parent, Commentable(parent)
  PROVE  /\ IsRef(Opens(parent)) /\ Opens(parent) # Null
         /\ Opens(parent).type = "external" => Opens(parent).id \notin {"", Null}
         /\ RootKindText(parent) \notin {"", Null}
<1>1. IsRef(Opens(parent)) /\ Opens(parent) # Null
  BY Opened, RefsAreSome DEF Commentable
<1>2. CASE IsExternal(parent) /\ "" \notin {parent.id, parent.kind}
  <2>1. Opens(parent) = parent /\ RootKindText(parent) = parent.kind
    BY <1>2, Parents DEF Opens, RootKindText, ParentKindText
  <2>. QED BY <1>1, <1>2, <2>1 DEF IsExternal
<1>3. CASE IsEvent(parent) /\ HasText(ReplyTargetRef(parent)) /\ parent.kind \notin OwnKinds
  <2>1. ~IsExternalContent(parent) /\ Opens(parent) = ThreadOf(parent)
    BY <1>3, Parents DEF Opens
  <2>2. ReplyTargetRef(parent).type \in {"event", "address"}
    BY <1>3, Targets
  <2>3. DecimalText[parent.kind] \notin {"", Null}
    BY <1>3, KindTextsAssumption DEF IsEvent
  <2>4. CASE parent.kind \in COMMENT_KINDS /\ ScopedRoot(parent) # Null
    <3>. DEFINE tags == parent.tags
    <3>1. ScopedRoot(parent) = ScopeOf(tags) /\ ThreadOf(parent) = ScopeOf(tags)
      BY <2>4, ScopedRoots, ThreadsByKind DEF ??
    <3>2. /\ SoleNonEmptyValue(tags, "K") # Null
          /\ ScopeOf(tags) = (SoleRefTagged(tags, "A") ?? SoleRefTagged(tags, "E")) ?? ExternalContent(tags, "I", "K")
      BY <2>4, <3>1 DEF ScopeOf, CommentPointers
    <3>3. RootKindText(parent) = SoleTagValue(tags, "K")
      BY <2>1, <2>4 DEF RootKindText, ThreadsAsComment
    <3>4. SoleTagValue(tags, "K") \notin {"", Null}
      BY <3>2 DEF SoleNonEmptyValue
    <3>5. \/ ScopeOf(tags).type \in {"event", "address"}
          \/ ScopeOf(tags) = ExternalContent(tags, "I", "K")
      BY <3>2, TaggedRefs DEF ??
    <3>6. ScopeOf(tags) = ExternalContent(tags, "I", "K") => ScopeOf(tags).id \notin {"", Null}
      <4>. DEFINE content == ExternalContent(tags, "I", "K")
      <4>1. content # Null => content.id = SoleNonEmptyValue(tags, "I") /\ SoleNonEmptyValue(tags, "I") \notin {"", Null}
        BY ExternalContents
      <4>2. ScopeOf(tags) # Null
        BY <2>4, <3>1
      <4>. HIDE DEF content
      <4>. QED BY <4>1, <4>2 DEF content
    <3>. QED BY <1>1, <2>1, <3>1, <3>3, <3>4, <3>5, <3>6
  <2>5. CASE ~(parent.kind \in COMMENT_KINDS /\ ScopedRoot(parent) # Null)
    <3>1. ThreadOf(parent) = ReplyTargetRef(parent)
      BY <1>3, <2>5, ThreadsByKind DEF ??
    <3>2. RootKindText(parent) = DecimalText[parent.kind]
      BY <2>1, <2>5 DEF RootKindText, ParentKindText, ThreadsAsComment
    <3>. QED BY <1>1, <2>1, <2>2, <2>3, <3>1, <3>2
  <2>. QED BY <2>4, <2>5
<1>. QED BY <1>2, <1>3 DEF Commentable

(* What one tag of a root points at.                                       *)
PointsTo(tag, ref, event, address, external) ==
  /\ IsSequence(tag)
  /\ ref.type = "event" => At(tag, 1) = event /\ At(tag, 2) = ref.id /\ ref.id \in EventIds /\ ref = EventRef(ref.id)
  /\ ref.type = "address" =>
       At(tag, 1) = address /\ At(tag, 2) \in DOMAIN Addresses /\ ref = AddressRef(Addresses[At(tag, 2)])
  /\ ref.type = "external" => At(tag, 1) = external /\ At(tag, 2) = ref.id

LEMMA PointersPoint ==
  ASSUME NEW ref, IsRef(ref), NEW event, NEW address, NEW external
  PROVE  PointsTo(PointerTag(ref, event, address, external), ref, event, address, external)
<1>. DEFINE tag  == PointerTag(ref, event, address, external)
<1>1. CASE ref.type = "event"
  <2>1. tag = <<event, ref.id, RawHint>>
    BY <1>1 DEF PointerTag
  <2>2. \E id \in EventIds : ref = EventRef(id)
    BY <1>1 DEF IsRef, EventRef, AddressRef, IsExternal
  <2>3. ref.id \in EventIds /\ ref = EventRef(ref.id)
    BY <2>2 DEF EventRef
  <2>. HIDE DEF tag
  <2>. QED BY <1>1, <2>1, <2>3, Slots, Tuples DEF tag, PointsTo
<1>2. CASE ref.type = "address"
  <2>1. tag = <<address, FormatRef(ref), RawHint>>
    BY <1>2 DEF PointerTag
  <2>2. PICK text \in DOMAIN Addresses : ref = AddressRef(Addresses[text])
    BY <1>2 DEF IsRef, EventRef, AddressRef, IsExternal
  <2>3. ref.address = Addresses[text] /\ HasText(ref)
    BY <2>2 DEF AddressRef, HasText
  <2>4. FormatRef(ref) \in DOMAIN Addresses /\ Addresses[FormatRef(ref)] = ref.address
    BY <1>2, <2>3, TextsName
  <2>5. ref = AddressRef(Addresses[FormatRef(ref)])
    BY <2>2, <2>3, <2>4
  <2>. HIDE DEF tag
  <2>. QED BY <1>2, <2>1, <2>4, <2>5, Slots, Tuples DEF tag, PointsTo
<1>3. CASE ref.type = "external"
  <2>1. tag = <<external, ref.id, RawHint>>
    BY <1>3 DEF PointerTag
  <2>. HIDE DEF tag
  <2>. QED BY <1>3, <2>1, Slots, Tuples DEF tag, PointsTo
<1>. QED BY <1>1, <1>2, <1>3, RefTypes

(* A comment that names its root and its parent stays in the thread.       *)
LEMMA BareScopesReadBack ==
  ASSUME NullIsNoContent, NEW parent, Commentable(parent)
  PROVE  /\ SameTarget(ScopeOf(BareCommentTags(parent)), Opens(parent)) /\ ScopeOf(BareCommentTags(parent)) # Null
         /\ ScopesAreFull(BareCommentTags(parent))
<1>. DEFINE tags == BareCommentTags(parent)
            ref  == Opens(parent)
            up   == PointerTag(ref, "E", "A", "I")
            K    == <<"K", RootKindText(parent)>>
            down == PointerTag(TargetOf(parent), "e", "a", "i")
            k    == <<"k", ParentKindText(parent)>>
<1>1. tags = << up, K, down, k >>
  BY DEF BareCommentTags
<1>2. /\ IsRef(ref) /\ ref # Null
      /\ ref.type = "external" => ref.id \notin {"", Null}
      /\ RootKindText(parent) \notin {"", Null}
  BY OpensWhole
<1>3. IsRef(TargetOf(parent))
  BY Opened DEF Commentable
<1>4. At(K, 1) = "K" /\ At(K, 2) = RootKindText(parent) /\ At(k, 1) = "k" /\ IsSequence(K) /\ IsSequence(k)
  BY Slots, Tuples
<1>5. IsSequence(down) /\ At(down, 1) \in {"e", "a", "i"}
  <2>1. PointsTo(down, TargetOf(parent), "e", "a", "i")
    BY <1>3, PointersPoint
  <2>. QED BY <1>3, <2>1, RefTypes DEF PointsTo
<1>6. /\ IsSequence(up)
      /\ ref.type = "event" => At(up, 1) = "E" /\ At(up, 2) = ref.id /\ ref.id \in EventIds /\ ref = EventRef(ref.id)
      /\ ref.type = "address" => At(up, 1) = "A" /\ At(up, 2) \in DOMAIN Addresses /\ ref = AddressRef(Addresses[At(up, 2)])
      /\ ref.type = "external" => At(up, 1) = "I" /\ At(up, 2) = ref.id
  <2>1. PointsTo(up, ref, "E", "A", "I")
    BY <1>2, PointersPoint
  <2>. HIDE DEF up, ref
  <2>. QED BY <2>1 DEF PointsTo
<1>7. ref.type \in {"event", "address", "external"}
  BY <1>2, RefTypes
<1>. HIDE DEF up, K, down, k, ref
<1>8. IsTags(<< up, K, down, k >>) /\ ToSet(<< up, K, down, k >>) = {up, K, down, k}
  BY <1>4, <1>5, <1>6, FourTags
<1>9. IsTags(tags) /\ ToSet(tags) = {up, K, down, k}
  BY <1>1, <1>8
<1>. HIDE DEF tags
<1>a. ASSUME NEW name, NEW tag, NEW value, Under(ToSet(tags), name) = {tag}, At(tag, 2) = value, value # Null
      PROVE  ValuesIn(ToSet(tags), name) = {value}
  BY <1>a, OneValueUnder
<1>10. SoleNonEmptyValue(tags, "K") = RootKindText(parent)
  <2>1. Under(ToSet(tags), "K") = {K}
    BY <1>4, <1>5, <1>6, <1>7, <1>9 DEF Under
  <2>2. RootKindText(parent) # Null
    BY <1>2
  <2>3. At(K, 2) = RootKindText(parent)
    BY <1>4
  <2>4. ValuesIn(ToSet(tags), "K") = {RootKindText(parent)}
    BY <1>a, <2>1, <2>2, <2>3, Zenon
  <2>. QED BY <1>2, <1>9, <2>4, SoleNames
<1>11. ScopeOf(tags) = (SoleRefTagged(tags, "A") ?? SoleRefTagged(tags, "E")) ?? ExternalContent(tags, "I", "K")
  BY <1>2, <1>10 DEF ScopeOf, CommentPointers
<1>12. ScopesAreFull(tags)
  BY <1>2, <1>4, <1>5, <1>6, <1>7, <1>9 DEF ScopesAreFull
<1>13. CASE ref.type = "address"
  <2>1. Under(ToSet(tags), "A") = {up}
    BY <1>4, <1>5, <1>6, <1>9, <1>13 DEF Under
  <2>2. At(up, 2) # Null
    BY <1>6, <1>13, NothingAssumption
  <2>3. RefFromTag(up) = ref
    BY <1>6, <1>13, <2>2, PointsAt
  <2>4. SoleRefTagged(tags, "A") = ref
    BY <1>9, <2>1, <2>3, OneUnder, ReadAsSets
  <2>. QED BY <1>2, <1>11, <1>12, <2>4, SameAsItself DEF ??, ref, tags
<1>14. CASE ref.type = "event"
  <2>1. Under(ToSet(tags), "A") = {} /\ Under(ToSet(tags), "E") = {up}
    BY <1>4, <1>5, <1>6, <1>9, <1>14 DEF Under
  <2>2. RefFromTag(up) = ref
    BY <1>6, <1>14, NothingAssumption, PointsAt
  <2>3. SoleRefTagged(tags, "A") = Null
    BY <1>9, <2>1, NoneUnder, ReadAsSets
  <2>4. SoleRefTagged(tags, "E") = ref
    BY <1>9, <2>1, <2>2, OneUnder, ReadAsSets
  <2>. QED BY <1>2, <1>11, <1>12, <2>3, <2>4, SameAsItself DEF ??, ref, tags
<1>15. CASE ref.type = "external"
  <2>1. Under(ToSet(tags), "A") = {} /\ Under(ToSet(tags), "E") = {} /\ Under(ToSet(tags), "I") = {up}
    BY <1>4, <1>5, <1>6, <1>9, <1>15 DEF Under
  <2>2. SoleRefTagged(tags, "A") = Null /\ SoleRefTagged(tags, "E") = Null
    BY <1>9, <2>1, NoneUnder, ReadAsSets
  <2>3. ref.id # Null /\ At(up, 2) = ref.id
    BY <1>2, <1>6, <1>15
  <2>4. ValuesIn(ToSet(tags), "I") = {ref.id}
    BY <1>a, <2>1, <2>3, Zenon
  <2>5. SoleNonEmptyValue(tags, "I") = ref.id
    BY <1>2, <1>9, <1>15, <2>4, SoleNames
  <2>6. ScopeOf(tags) = ExternalContent(tags, "I", "K")
    BY <1>11, <2>2 DEF ??
  <2>7. ExternalContent(tags, "I", "K") # Null
    BY <1>2, <1>10, <1>15, <2>5, ExternalContents
  <2>8. ExternalContent(tags, "I", "K").type = "external" /\ ExternalContent(tags, "I", "K").id = ref.id
    BY <2>5, <2>7, ExternalContents
  <2>9. SameTarget(ExternalContent(tags, "I", "K"), ref)
    BY <1>2, <1>15, <2>7, <2>8 DEF SameTarget, FormatThreadRef
  <2>. QED BY <1>12, <2>6, <2>7, <2>9 DEF ref, tags
<1>. QED BY <1>7, <1>13, <1>14, <1>15

-----------------------------------------------------------------------------
(* Comments of other programs, beside those of a path, give every I tag a  *)
(* value.  Where one does not, its reply gives that tag an empty one       *)
(* (reply.ts, copiedScopeTag), which disagrees with the scope's own.       *)
NoBareScopes == \A event \in OpeningEvents : ScopesAreFull(event.tags)

LEMMA BuiltScopesAreFull ==
  ASSUME NEW parent, WellFormed(parent), IsExternal(parent) \/ parent.kind \notin OwnKinds,
         NEW hint, MayAnswer(parent, hint), NEW content \in Contents
  PROVE  ScopesAreFull(WithContentTags(ReplyTags(parent, hint), content))
<1>. DEFINE beside == ContentTagsBeside(ReplyTags(parent, hint), content)
            tags   == WithContentTags(ReplyTags(parent, hint), content)
<1>0. hint \in Hints
  BY DEF MayAnswer
<1>1. tags = ReplyTags(parent, hint) \o beside /\ AreMentions(beside) /\ hint \in Hints
      /\ IsTags(ReplyTags(parent, hint)) /\ ToSet(tags) = ToSet(ReplyTags(parent, hint)) \cup ToSet(beside)
  BY <1>0, BuiltTags
<1>. HIDE DEF beside, tags
<1>2. \A tag \in ToSet(beside) : At(tag, 1) \in {"p", "q", "t"}
  BY <1>1, MentionNames
<1>3. CASE IsExternal(parent)
  <2>. DEFINE I == WithHint(<<"I", parent.id>>, parent.hint ?? "")
              i == WithHint(<<"i", parent.id>>, parent.hint ?? "")
              K == <<"K", parent.kind>>
              k == <<"k", parent.kind>>
  <2>1. ReplyTags(parent, hint) = ExternalScopeTags(parent) /\ IsNamed(parent)
    BY <1>3, Parents DEF ReplyTags, MayAnswer
  <2>2. ToSet(ExternalScopeTags(parent)) = {I, K, i, k} /\ Names(i, {"i"}) /\ At(I, 2) = parent.id
    BY <1>3, <2>1, ExternalScopes
  <2>3. At(K, 1) = "K" /\ At(k, 1) = "k" /\ parent.id # Null
    BY <1>3, Slots DEF IsExternal
  <2>. HIDE DEF I, i, K, k
  <2>4. \A tag \in ToSet(tags) : tag \in {I, K, i, k} \/ At(tag, 1) \in {"p", "q", "t"}
    BY <1>1, <1>2, <2>1, <2>2
  <2>5. ScopesAreFull(tags)
    BY <2>2, <2>3, <2>4 DEF ScopesAreFull, Names
  <2>. QED BY <2>5 DEF tags
<1>4. CASE IsEvent(parent) /\ HasText(ReplyTargetRef(parent)) /\ parent.kind \notin OwnKinds
  <2>1. tags = CommentTags(parent, hint, beside)
    BY <1>1, <1>4, Parents DEF ReplyTags, CommentTags
  <2>2. Under(ToSet(tags), "I") = Under(ToSet(CommentRootScope(parent, hint)), "I")
    BY <1>1, <1>4, <2>1, CommentSets
  <2>3. \A tag \in Under(ToSet(CommentRootScope(parent, hint)), "I") : At(tag, 2) # Null
    <3>1. CASE CommentRootScope(parent, hint) = EventScopeTags(parent, hint)
      <4>1. \A tag \in ToSet(EventScopeTags(parent, hint)) : At(tag, 1) \in {"A", "E", "K", "P"}
        BY <1>1, <1>4, OpenedScopes DEF AreCommentTags, Names
      <4>. QED BY <3>1, <4>1 DEF Under
    <3>2. ASSUME NEW root, CommentRootScope(parent, hint) = CopiedRootScope(parent, root)
          PROVE  \A tag \in Under(ToSet(CommentRootScope(parent, hint)), "I") : At(tag, 2) # Null
      <4>1. Under(ToSet(CommentRootScope(parent, hint)), "I") =
              {CopiedScopeTag(tag) : tag \in Under(ToSet(parent.tags), "I")}
        BY <1>4, <3>2, CopiedUnder
      <4>2. \A tag \in Under(ToSet(parent.tags), "I") : IsSequence(tag) /\ At(tag, 1) = "I"
        BY <1>4 DEF Under, IsEvent, IsTags
      <4>3. \A tag \in Under(ToSet(parent.tags), "I") : At(CopiedScopeTag(tag), 2) = At(tag, 2) ?? ""
        BY <4>2, CopiesOfTags DEF ROOT_SCOPE_TAG_NAMES
      <4>4. \A value : value ?? "" # Null
        BY NothingAssumption DEF ??
      <4>. QED BY <4>1, <4>3, <4>4
    <3>. QED BY <3>1, <3>2 DEF CommentRootScope
  <2>4. ScopesAreFull(tags)
    BY <2>2, <2>3 DEF ScopesAreFull, Under
  <2>. QED BY <2>4 DEF tags
<1>. QED BY <1>3, <1>4, Parents DEF WellFormed

LEMMA KindsApart ==
  /\ \A kind \in OwnKinds : kind \notin COMMENT_KINDS
  /\ KIND_COMMENT \in COMMENT_KINDS /\ KIND_TEXT_NOTE \in OwnKinds /\ KIND_CHANNEL_MESSAGE \in OwnKinds
BY DEF OwnKinds, COMMENT_KINDS, KIND_TEXT_NOTE, KIND_CHAT_MESSAGE, KIND_CHANNEL_MESSAGE, KIND_LIVE_CHAT_MESSAGE,
       KIND_COMMENT, KIND_VOICE_MESSAGE_COMMENT

LEMMA EntriesAreFull ==
  ASSUME NullIsNoContent, NoBareScopes, Path, NEW i \in 1..Len(thread),
         IsEvent(EventAt(i)), EventAt(i).kind \in COMMENT_KINDS
  PROVE  ScopesAreFull(EventAt(i).tags)
<1>0. Len(thread) \in Nat
  BY DEF Path
<1>1. CASE i = 1
  <2>1. Opening(thread[1])
    BY DEF Path
  <2>2. EventAt(1) \in OpeningEvents \/ EventAt(1) \in OpeningContents
    BY <2>1, Entries DEF Opening, EventAt
  <2>3. EventAt(1) \notin OpeningContents
    BY <1>1, OpeningsAssumption, Parents
  <2>. QED BY <1>1, <2>2, <2>3 DEF NoBareScopes
<1>2. CASE i \in 2..Len(thread)
  <2>. DEFINE parent == EventAt(i - 1)
  <2>1. WellFormed(parent) /\ (BuiltOn(thread[i], parent, Ids[i]) \/ ForeignOn(thread[i], parent, Ids[i]))
    BY <1>0, <1>2 DEF Path
  <2>. HIDE DEF parent
  <2>2. CASE BuiltOn(thread[i], parent, Ids[i])
    <3>1. PICK author \in Authors, hint \in Hints, content \in Contents :
            /\ MayAnswer(parent, hint)
            /\ thread[i] = Entry("buildReply",
                             EventOf(ReplyKind(parent), Ids[i], author, WithContentTags(ReplyTags(parent, hint), content)),
                             content)
      BY <2>2 DEF BuiltOn
    <3>2. EventAt(i).kind = ReplyKind(parent) /\ EventAt(i).tags = WithContentTags(ReplyTags(parent, hint), content)
      BY <3>1, Entries DEF EventAt, EventOf
    <3>3. IsExternal(parent) \/ parent.kind \notin OwnKinds
      BY <2>1, <3>2, KindsApart, Parents DEF ReplyKind, WellFormed
    <3>. QED BY <2>1, <3>1, <3>2, <3>3, BuiltScopesAreFull
  <2>3. CASE ForeignOn(thread[i], parent, Ids[i])
    <3>1. PICK author \in Authors :
            \/ /\ IsExternalContent(parent) \/ parent.kind \notin OwnKinds
               /\ IsReferable(parent)
               /\ \E kind \in COMMENT_KINDS :
                    thread[i] = Entry("bare", EventOf(kind, Ids[i], author, BareCommentTags(parent)), NoText)
            \/ thread[i] = Entry("positional", EventOf(KIND_TEXT_NOTE, Ids[i], author, PositionalTags(parent)), NoText)
            \/ /\ parent.kind \in {KIND_TEXT_NOTE, KIND_CHANNEL_MESSAGE}
               /\ thread[i] = Entry("marked", EventOf(parent.kind, Ids[i], author, MarkedTags(parent)), NoText)
      BY <2>3 DEF ForeignOn
    <3>2. \A by, kind, id, who, tags : Entry(by, EventOf(kind, id, who, tags), NoText).event.kind = kind
                                          /\ Entry(by, EventOf(kind, id, who, tags), NoText).event.tags = tags
      BY Entries DEF EventOf
    <3>a. \A by, kind, who, tags : thread[i] = Entry(by, EventOf(kind, Ids[i], who, tags), NoText) =>
                                   EventAt(i).kind = kind /\ EventAt(i).tags = tags
      BY <3>2 DEF EventAt
    <3>b. KIND_TEXT_NOTE \notin COMMENT_KINDS /\ KIND_CHANNEL_MESSAGE \notin COMMENT_KINDS
      BY KindsApart
    <3>c. thread[i] # Entry("positional", EventOf(KIND_TEXT_NOTE, Ids[i], author, PositionalTags(parent)), NoText)
      BY <3>a, <3>b
    <3>d. ~(/\ parent.kind \in {KIND_TEXT_NOTE, KIND_CHANNEL_MESSAGE}
            /\ thread[i] = Entry("marked", EventOf(parent.kind, Ids[i], author, MarkedTags(parent)), NoText))
      BY <3>a, <3>b
    <3>3. /\ IsExternalContent(parent) \/ parent.kind \notin OwnKinds
          /\ IsReferable(parent)
          /\ EventAt(i).tags = BareCommentTags(parent)
      BY <3>1, <3>a, <3>c, <3>d
    <3>4. Commentable(parent)
      BY <2>1, <3>3, Parents DEF WellFormed, Commentable, IsReferable
    <3>. QED BY <3>3, <3>4, BareScopesReadBack
  <2>. QED BY <2>1, <2>2, <2>3
<1>. QED BY <1>0, <1>1, <1>2

LEMMA BuiltStay ==
  ASSUME NullIsNoContent, NEW parent, WellFormed(parent),
         IsEvent(parent) /\ parent.kind \in COMMENT_KINDS => ScopesAreFull(parent.tags),
         NEW hint, MayAnswer(parent, hint), NEW content \in Contents,
         NEW event, event.kind = ReplyKind(parent),
         event.tags = WithContentTags(ReplyTags(parent, hint), content)
  PROVE  SameTarget(ThreadOf(event), Opens(parent))
<1>. DEFINE beside == ContentTagsBeside(ReplyTags(parent, hint), content)
<1>1. event.tags = ReplyTags(parent, hint) \o beside /\ AreMentions(beside) /\ hint \in Hints
  BY BuiltTags DEF MayAnswer
<1>. HIDE DEF beside
<1>3. CASE IsExternal(parent)
  <2>1. IsExternalContent(parent) /\ IsNamed(parent)
    BY <1>3, Parents DEF MayAnswer
  <2>2. event.kind = KIND_COMMENT /\ event.tags = ExternalTags(parent, beside) /\ Opens(parent) = parent
    BY <1>1, <2>1 DEF ReplyKind, ReplyTags, ExternalTags, Opens
  <2>3. ThreadOf(event) = ScopeOf(event.tags) ?? ReplyTargetRef(event)
    BY <2>2, ScopedRoots, ThreadsByKind, KindsApart
  <2>4. SoleNonEmptyValue(event.tags, "K") = parent.kind /\ parent.kind # Null
    BY <1>1, <1>3, <2>1, <2>2, ExternalsReadBack DEF IsExternal
  <2>5. PICK h : CommentPointers(ExternalTags(parent, beside)).root = ExternalRef(parent.id, parent.kind, h)
    BY <1>1, <1>3, <2>1, ExternalsReadBack
  <2>6. ScopeOf(event.tags) = ExternalRef(parent.id, parent.kind, h)
    BY <2>2, <2>4, <2>5 DEF ScopeOf
  <2>. DEFINE root == ExternalRef(parent.id, parent.kind, h)
  <2>7. root # Null /\ root.type = "external" /\ root.id = parent.id
    BY DEF NullIsNoContent, ExternalRef
  <2>8. parent # Null /\ parent.type = "external"
    <3>1. parent = ExternalRef(parent.id, parent.kind, parent.hint)
      BY <1>3 DEF IsExternal, ExternalRef
    <3>2. ExternalRef(parent.id, parent.kind, parent.hint).type = "external"
      BY DEF ExternalRef
    <3>3. ExternalRef(parent.id, parent.kind, parent.hint) # Null
      BY DEF NullIsNoContent
    <3>. QED BY <3>1, <3>2, <3>3
  <2>9. ThreadOf(event) = root
    BY <2>3, <2>6, <2>7 DEF ??
  <2>. HIDE DEF root
  <2>10. SameTarget(root, parent)
    BY <2>7, <2>8 DEF SameTarget, FormatThreadRef
  <2>. QED BY <2>2, <2>9, <2>10
<1>4. ASSUME IsEvent(parent), HasText(ReplyTargetRef(parent)), parent.kind \in OwnKinds
      PROVE  SameTarget(ThreadOf(event), Opens(parent))
  <2>1. event.kind = parent.kind /\ event.tags = OwnKindReplyTags(parent, hint) \o beside /\ Opens(parent) = ThreadOf(parent)
    BY <1>1, <1>4, Parents DEF ReplyKind, ReplyTags, Opens
  <2>2. ThreadOf(event) = ThreadOf(parent)
    BY <1>1, <1>4, <2>1, OwnKindsStay
  <2>. QED BY <2>1, <2>2, SameAsItself
<1>5. ASSUME IsEvent(parent), HasText(ReplyTargetRef(parent)), parent.kind \notin OwnKinds
      PROVE  SameTarget(ThreadOf(event), Opens(parent))
  <2>1. event.kind = KIND_COMMENT /\ event.tags = CommentTags(parent, hint, beside) /\ Opens(parent) = ThreadOf(parent)
    BY <1>1, <1>5, Parents DEF ReplyKind, ReplyTags, CommentTags, Opens
  <2>2. SameTarget(ThreadOf(event), ThreadOf(parent))
    BY <1>1, <1>5, <2>1, CommentsStay
  <2>. QED BY <2>1, <2>2
<1>. QED BY <1>3, <1>4, <1>5 DEF WellFormed

LEMMA ForeignStay ==
  ASSUME NullIsNoContent, NEW parent, WellFormed(parent), NEW id \in EventIds,
         NEW entry, ForeignOn(entry, parent, id)
  PROVE  SameTarget(ThreadOf(entry.event), Opens(parent))
<1>. DEFINE event == entry.event
<1>1. PICK author \in Authors :
         \/ /\ IsExternalContent(parent) \/ parent.kind \notin OwnKinds
            /\ IsReferable(parent)
            /\ \E kind \in COMMENT_KINDS :
                 entry = Entry("bare", EventOf(kind, id, author, BareCommentTags(parent)), NoText)
         \/ /\ ~IsExternalContent(parent) /\ parent.kind = KIND_TEXT_NOTE
            /\ entry = Entry("positional", EventOf(KIND_TEXT_NOTE, id, author, PositionalTags(parent)), NoText)
         \/ /\ ~IsExternalContent(parent) /\ parent.kind \in {KIND_TEXT_NOTE, KIND_CHANNEL_MESSAGE}
            /\ entry = Entry("marked", EventOf(parent.kind, id, author, MarkedTags(parent)), NoText)
  BY DEF ForeignOn
<1>2. \A by, kind, tags : LET answer == Entry(by, EventOf(kind, id, author, tags), NoText).event
                          IN  answer.kind = kind /\ answer.id = id /\ answer.tags = tags
  BY Entries DEF EventOf
<1>3. ~IsExternalContent(parent) => IsEvent(parent) /\ Opens(parent) = ThreadOf(parent)
  BY Parents DEF WellFormed, Opens
<1>4. ASSUME IsExternalContent(parent) \/ parent.kind \notin OwnKinds,
             IsReferable(parent),
             NEW kind \in COMMENT_KINDS,
             entry = Entry("bare", EventOf(kind, id, author, BareCommentTags(parent)), NoText)
      PROVE  SameTarget(ThreadOf(event), Opens(parent))
  <2>0. event.kind = kind /\ event.tags = BareCommentTags(parent)
    BY <1>2, <1>4
  <2>1. event.kind \in COMMENT_KINDS /\ event.tags = BareCommentTags(parent)
    BY <1>4, <2>0
  <2>2. Commentable(parent)
    BY <1>4, Parents DEF WellFormed, Commentable, IsReferable
  <2>. HIDE DEF event
  <2>3. ThreadOf(event) = ScopeOf(event.tags) ?? ReplyTargetRef(event)
    BY <2>1, ScopedRoots, ThreadsByKind
  <2>4. SameTarget(ScopeOf(event.tags), Opens(parent)) /\ ScopeOf(event.tags) # Null
    BY <2>1, <2>2, BareScopesReadBack
  <2>. QED BY <2>3, <2>4 DEF ??
<1>5. ASSUME ~IsExternalContent(parent), parent.kind = KIND_TEXT_NOTE,
             entry = Entry("positional", EventOf(KIND_TEXT_NOTE, id, author, PositionalTags(parent)), NoText)
      PROVE  SameTarget(ThreadOf(event), Opens(parent))
  <2>1. event.kind = KIND_TEXT_NOTE /\ event.id = id /\ event.tags = PositionalTags(parent)
    BY <1>2, <1>5
  <2>. HIDE DEF event
  <2>2. ThreadOf(event) = ThreadOf(parent)
    BY <1>3, <1>5, <2>1, PositionalsStay
  <2>. QED BY <1>3, <1>5, <2>2, SameAsItself
<1>6. ASSUME ~IsExternalContent(parent), parent.kind \in {KIND_TEXT_NOTE, KIND_CHANNEL_MESSAGE},
             entry = Entry("marked", EventOf(parent.kind, id, author, MarkedTags(parent)), NoText)
      PROVE  SameTarget(ThreadOf(event), Opens(parent))
  <2>1. event.kind = parent.kind /\ event.id = id /\ event.tags = MarkedTags(parent)
    BY <1>2, <1>6
  <2>. HIDE DEF event
  <2>2. ThreadOf(event) = ThreadOf(parent)
    BY <1>3, <1>6, <2>1, MarkedStay
  <2>. QED BY <1>3, <1>6, <2>2, SameAsItself
<1>. QED BY <1>1, <1>4, <1>5, <1>6

(* A reply stays in the thread of what it answers, whichever programs      *)
(* wrote the path and whatever it starts from, as long as no comment it    *)
(* starts from has an I tag without a value.                               *)
THEOREM PathsStayInOneThread == ASSUME NullIsNoContent, NoBareScopes PROVE Spec => []OneThread
<1>1. Path => OneThread
  <2>. SUFFICES ASSUME Path, NEW i \in 2..Len(thread)
                PROVE  SameTarget(ThreadOf(EventAt(i)), Opens(EventAt(i - 1)))
    BY DEF OneThread
  <2>. DEFINE parent == EventAt(i - 1)
  <2>1. Len(thread) \in Nat /\ i - 1 \in 1..Len(thread)
    BY DEF Path
  <2>2. WellFormed(parent) /\ (BuiltOn(thread[i], parent, Ids[i]) \/ ForeignOn(thread[i], parent, Ids[i]))
    BY <2>1 DEF Path
  <2>3. IsEvent(parent) /\ parent.kind \in COMMENT_KINDS => ScopesAreFull(parent.tags)
    BY <2>1, EntriesAreFull
  <2>4. Ids[i] \in EventIds
    BY <2>1, IdsAssumption DEF Path, MaxLength
  <2>. HIDE DEF parent
  <2>5. CASE BuiltOn(thread[i], parent, Ids[i])
    <3>1. PICK author \in Authors, hint \in Hints, content \in Contents :
            /\ MayAnswer(parent, hint)
            /\ thread[i] = Entry("buildReply",
                             EventOf(ReplyKind(parent), Ids[i], author, WithContentTags(ReplyTags(parent, hint), content)),
                             content)
      BY <2>5 DEF BuiltOn
    <3>2. EventAt(i).kind = ReplyKind(parent) /\ EventAt(i).tags = WithContentTags(ReplyTags(parent, hint), content)
      BY <3>1, Entries DEF EventAt, EventOf
    <3>3. SameTarget(ThreadOf(EventAt(i)), Opens(parent))
      BY <2>2, <2>3, <3>1, <3>2, BuiltStay
    <3>. QED BY <3>3 DEF parent
  <2>6. CASE ForeignOn(thread[i], parent, Ids[i])
    <3>1. SameTarget(ThreadOf(thread[i].event), Opens(parent))
      BY <2>2, <2>4, <2>6, ForeignStay
    <3>. QED BY <3>1 DEF parent, EventAt
  <2>. QED BY <2>2, <2>5, <2>6
<1>. QED BY <1>1, PathInvariant, PTL

-----------------------------------------------------------------------------

(* What a note names as the author of its root stands in one of its e tags.*)
LEMMA RootAuthors ==
  ASSUME NEW note, IsTags(note.tags), NEW S,
         \A tag \in ToSet(note.tags) : At(tag, 1) = "e" => EventTagAuthor(tag) \in {Null} \cup S
  PROVE  /\ NamedRootAuthor(note) = IF Source(note) = Null THEN {} ELSE {EventTagAuthor(Source(note))} \ {Null}
         /\ NamedRootAuthor(note) \subseteq S
<1>. DEFINE threadTags == ShortNoteThreadTags(note.tags)
<1>1. /\ threadTags.root # Null => threadTags.root \in ToSet(note.tags) /\ IsEventTag(threadTags.root)
      /\ threadTags.parent # Null => threadTags.parent \in ToSet(note.tags) /\ IsEventTag(threadTags.parent)
  BY ThreadTagsPoint DEF AreThreadTags
<1>2. Source(note) = IF threadTags.root = Null THEN threadTags.parent ELSE threadTags.root
  BY DEF Source, ??
<1>3. NamedRootAuthor(note) = IF Source(note) = Null THEN {} ELSE {EventTagAuthor(Source(note))} \ {Null}
  BY DEF NamedRootAuthor, Source
<1>. HIDE DEF threadTags
<1>4. Source(note) # Null => Source(note) \in ToSet(note.tags) /\ At(Source(note), 1) = "e"
  BY <1>1, <1>2 DEF IsEventTag
<1>. QED BY <1>3, <1>4

(* The author an e tag with a marker names.                                *)
LEMMA MarkedAuthors ==
  ASSUME NEW id, NEW relay
  PROVE  /\ EventTagAuthor(<<"e", id>>) = Null
         /\ EventTagAuthor(<<"e", id, relay>>) = Null
         /\ \A marker \in {"root", "reply"} :
              /\ EventTagAuthor(<<"e", id, relay, marker>>) = Null
              /\ \A pubkey \in Pubkeys : EventTagAuthor(<<"e", id, relay, marker, pubkey>>) = pubkey
         /\ \A pubkey \in {Null} \cup Pubkeys : EventTagAuthor(RootTagOf(id, relay, pubkey)) = pubkey
<1>1. Null \notin Pubkeys /\ "root" \notin Pubkeys /\ "reply" \notin Pubkeys
  BY NothingAssumption, MarkersAssumption DEF NIP10_MARKERS
<1>2. EventTagAuthor(<<"e", id>>) = Null
  BY <1>1, Slots DEF EventTagAuthor
<1>3. EventTagAuthor(<<"e", id, relay>>) = Null
  BY <1>1, Slots DEF EventTagAuthor
<1>4. ASSUME NEW marker \in {"root", "reply"}
      PROVE  /\ EventTagAuthor(<<"e", id, relay, marker>>) = Null
             /\ \A pubkey \in Pubkeys : EventTagAuthor(<<"e", id, relay, marker, pubkey>>) = pubkey
  <2>1. EventTagAuthor(<<"e", id, relay, marker>>) = Null
    BY <1>1, Slots DEF EventTagAuthor
  <2>2. ASSUME NEW pubkey \in Pubkeys PROVE EventTagAuthor(<<"e", id, relay, marker, pubkey>>) = pubkey
    BY Slots DEF EventTagAuthor
  <2>. QED BY <2>1, <2>2
<1>5. ASSUME NEW pubkey \in {Null} \cup Pubkeys PROVE EventTagAuthor(RootTagOf(id, relay, pubkey)) = pubkey
  <2>1. RootTagOf(id, relay, pubkey) =
          IF pubkey = Null THEN <<"e", id, relay, "root">> ELSE <<"e", id, relay, "root", pubkey>>
    BY RootTags
  <2>. QED BY <1>4, <2>1
<1>. QED BY <1>2, <1>3, <1>4, <1>5

LEMMA PubkeysRead ==
  ASSUME NEW tags, IsTags(tags)
  PROVE  ExtractPubkeys(tags) = {At(tag, 2) : tag \in Under(ToSet(tags), "p")} \cap Pubkeys
<1>1. ExtractTagValues(tags, "p") = {At(tag, 2) : tag \in Under(ToSet(tags), "p")} \ {Null}
  BY ReadAsSets DEF ValuesIn
<1>. QED BY <1>1, NothingAssumption DEF ExtractPubkeys

NoteTags(parent, hint, beside) == NoteReplyTags(parent, hint) \o beside

(* A note tells its participants, and names as its root's author one of    *)
(* them.                                                                   *)
LEMMA NotesTell ==
  ASSUME NEW parent, IsEvent(parent), NEW hint \in Hints, NEW beside, AreMentions(beside),
         NEW note, note.tags = NoteTags(parent, hint, beside)
  PROVE  /\ Participants(parent, InheritedRootTag(parent)) \subseteq ExtractPubkeys(note.tags)
         /\ NamedRootAuthor(note) \subseteq ExtractPubkeys(note.tags)
<1>. DEFINE rootTag == InheritedRootTag(parent)
            notes   == NoteThreadTags(parent, hint, rootTag)
            who     == Participants(parent, rootTag)
            told    == PubkeyTags(who)
            opening == <<"e", parent.id, hint, "root", parent.pubkey>>
            reply   == <<"e", parent.id, hint, "reply", parent.pubkey>>
            tags    == NoteTags(parent, hint, beside)
<1>1. /\ NoteReplyTags(parent, hint) = notes \o told /\ IsTags(notes) /\ IsTags(told)
      /\ ToSet(told) = {<<"p", pubkey>> : pubkey \in who}
  BY NoteReplies
<1>2. parent.id \in EventIds /\ parent.pubkey \in Pubkeys /\ IsTags(beside) /\ \A tag \in ToSet(beside) : At(tag, 1) # "e"
  BY MentionNames DEF IsEvent
<1>3. rootTag # Null => \E pubkey \in {Null} \cup Pubkeys :
        /\ EventTagAuthor(rootTag) = pubkey /\ IsSequence(rootTag)
        /\ pubkey # Null => pubkey \in who
        /\ (Len(rootTag) > 4 => rootTag[5] = pubkey /\ pubkey # Null)
  <2>1. SUFFICES ASSUME rootTag # Null
                 PROVE  \E pubkey \in {Null} \cup Pubkeys :
                          /\ EventTagAuthor(rootTag) = pubkey /\ IsSequence(rootTag)
                          /\ pubkey # Null => pubkey \in who
                          /\ (Len(rootTag) > 4 => rootTag[5] = pubkey /\ pubkey # Null)
    OBVIOUS
  <2>2. PICK relay \in RelayHints, pubkey \in {Null} \cup Pubkeys :
          rootTag = RootTagOf(Source(parent)[2], relay, pubkey)
    BY <2>1, InheritedTags
  <2>. HIDE DEF rootTag
  <2>3. EventTagAuthor(rootTag) = pubkey
    BY <2>2, MarkedAuthors
  <2>4. /\ rootTag = IF pubkey = Null THEN <<"e", Source(parent)[2], relay, "root">>
                     ELSE <<"e", Source(parent)[2], relay, "root", pubkey>>
        /\ IsSequence(rootTag) /\ Len(rootTag) = IF pubkey = Null THEN 4 ELSE 5
    <3>. DEFINE id == Source(parent)[2]
    <3>1. rootTag = RootTagOf(id, relay, pubkey)
      BY <2>2
    <3>. HIDE DEF id
    <3>2. /\ rootTag = IF pubkey = Null THEN <<"e", id, relay, "root">> ELSE <<"e", id, relay, "root", pubkey>>
          /\ IsSequence(rootTag) /\ Len(rootTag) = IF pubkey = Null THEN 4 ELSE 5
      BY <3>1, RootTags
    <3>. QED BY <3>2 DEF id
  <2>5. pubkey # Null => Len(rootTag) > 4 /\ rootTag[5] = pubkey
    BY <2>4, Slots
  <2>6. pubkey = Null => ~(Len(rootTag) > 4)
    BY <2>4
  <2>7. pubkey # Null => pubkey \in who
    BY <2>1, <2>5 DEF Participants
  <2>. QED BY <2>3, <2>4, <2>5, <2>6, <2>7
<1>4. who \subseteq Pubkeys /\ parent.pubkey \in who
  BY <1>2, <1>3 DEF Participants, ExtractPubkeys
<1>5. notes = IF rootTag = Null THEN << opening >> ELSE << rootTag, reply >>
  BY DEF NoteThreadTags
<1>6. EventTagAuthor(opening) = parent.pubkey /\ EventTagAuthor(reply) = parent.pubkey
      /\ IsSequence(opening) /\ IsSequence(reply)
  BY <1>2, MarkedAuthors, Tuples
<1>7. tags = (notes \o told) \o beside
  BY <1>1 DEF NoteTags
<1>8. \A pubkey : At(<<"p", pubkey>>, 1) = "p" /\ At(<<"p", pubkey>>, 2) = pubkey
  BY Slots
<1>. HIDE DEF rootTag, notes, who, told, opening, reply, tags
<1>9. IsTags(tags) /\ ToSet(tags) = ToSet(notes) \cup ToSet(told) \cup ToSet(beside)
  BY <1>1, <1>2, <1>7, ConcatTags
<1>10. ToSet(notes) = IF rootTag = Null THEN {opening} ELSE {rootTag, reply}
  <2>1. ToSet(<< opening >>) = {opening}
    BY <1>6, OneTag
  <2>2. rootTag # Null => ToSet(<< rootTag, reply >>) = {rootTag, reply}
    BY <1>3, <1>6, TwoTags
  <2>. QED BY <1>5, <2>1, <2>2
<1>11. who \subseteq ExtractPubkeys(tags)
  <2>1. \A pubkey \in who : <<"p", pubkey>> \in Under(ToSet(tags), "p") /\ At(<<"p", pubkey>>, 2) = pubkey
    BY <1>1, <1>8, <1>9 DEF Under
  <2>2. ExtractPubkeys(tags) = {At(tag, 2) : tag \in Under(ToSet(tags), "p")} \cap Pubkeys
    BY <1>9, PubkeysRead
  <2>. QED BY <1>4, <2>1, <2>2
<1>12. \A tag \in ToSet(tags) : At(tag, 1) = "e" => EventTagAuthor(tag) \in {Null} \cup who
  <2>1. \A tag \in ToSet(told) : At(tag, 1) = "p"
    BY <1>1, <1>8
  <2>2. \A tag \in ToSet(notes) : EventTagAuthor(tag) \in {Null} \cup who
    BY <1>3, <1>4, <1>6, <1>10
  <2>. QED BY <1>2, <1>9, <2>1, <2>2
<1>13. note.tags = tags
  BY DEF tags
<1>14. NamedRootAuthor(note) \subseteq who
  BY <1>9, <1>12, <1>13, RootAuthors
<1>. QED BY <1>11, <1>13, <1>14 DEF who, rootTag

(* What the answer to a note owes its readers.                             *)
Owed(note) == {note.pubkey} \cup ExtractPubkeys(note.tags) \cup NamedRootAuthor(note)

NamesAnother(note) ==
  \/ NamedRootAuthor(note) \subseteq ExtractPubkeys(note.tags)
  \/ Source(note) = Null
  \/ Source(note)[2] # note.id

(* Everyone who is owed takes part, in an answer to a note that does not   *)
(* name itself as its root.                                                *)
LEMMA AnswersTell ==
  ASSUME NEW parent, IsEvent(parent), NamesAnother(parent)
  PROVE  Owed(parent) \subseteq Participants(parent, InheritedRootTag(parent))
<1>. DEFINE rootTag == InheritedRootTag(parent)
<1>1. NamedRootAuthor(parent) = IF Source(parent) = Null THEN {} ELSE {EventTagAuthor(Source(parent))} \ {Null}
  BY DEF NamedRootAuthor, Source
<1>2. CASE NamedRootAuthor(parent) \subseteq ExtractPubkeys(parent.tags)
  BY <1>2 DEF Owed, Participants
<1>3. CASE Source(parent) = Null
  BY <1>1, <1>3 DEF Owed, Participants
<1>4. CASE Source(parent) # Null /\ Source(parent)[2] # parent.id
  <2>1. IsEventTag(Source(parent)) /\ rootTag = CopiedRootTag(Source(parent))
    BY <1>4, InheritedRoots
  <2>2. rootTag # Null
    BY <1>4, <2>1, CopiedRoots
  <2>3. PICK relay \in RelayHints, pubkey \in {Null} \cup Pubkeys :
          rootTag = RootTagOf(Source(parent)[2], relay, pubkey) /\ pubkey = EventTagAuthor(Source(parent))
    BY <2>2, InheritedTags
  <2>. HIDE DEF rootTag
  <2>4. pubkey # Null => Len(rootTag) > 4 /\ rootTag[5] = pubkey
    <3>. DEFINE id == Source(parent)[2]
    <3>1. rootTag = RootTagOf(id, relay, pubkey)
      BY <2>3
    <3>. HIDE DEF id
    <3>2. /\ rootTag = IF pubkey = Null THEN <<"e", id, relay, "root">> ELSE <<"e", id, relay, "root", pubkey>>
          /\ Len(rootTag) = IF pubkey = Null THEN 4 ELSE 5
      BY <3>1, RootTags
    <3>. QED BY <3>2, Slots
  <2>5. NamedRootAuthor(parent) \subseteq IF rootTag # Null /\ Len(rootTag) > 4 THEN {rootTag[5]} ELSE {}
    BY <1>1, <1>4, <2>2, <2>3, <2>4
  <2>. QED BY <2>5 DEF Owed, Participants, rootTag
<1>. QED BY <1>2, <1>3, <1>4 DEF NamesAnother

(* A reply in the kind of a note answers a note.                           *)
LEMMA BuiltNotes ==
  ASSUME Path, NEW i \in Built, EventAt(i).kind = KIND_TEXT_NOTE
  PROVE  /\ IsEvent(EventAt(i - 1)) /\ EventAt(i - 1).kind = KIND_TEXT_NOTE
         /\ \E hint, beside :
              hint \in Hints /\ AreMentions(beside) /\ EventAt(i).tags = NoteTags(EventAt(i - 1), hint, beside)
<1>. DEFINE parent == EventAt(i - 1)
<1>1. PICK author \in Authors, hint \in Hints, content \in Contents :
           /\ MayAnswer(parent, hint) /\ WellFormed(parent)
           /\ EventAt(i) = EventOf(ReplyKind(parent), Ids[i], author, WithContentTags(ReplyTags(parent, hint), content))
  BY BuiltEntries
<1>2. EventAt(i).kind = ReplyKind(parent) /\ EventAt(i).tags = WithContentTags(ReplyTags(parent, hint), content)
  BY <1>1 DEF EventOf
<1>. HIDE DEF parent
<1>3. KIND_COMMENT # KIND_TEXT_NOTE
  BY DEF KIND_COMMENT, KIND_TEXT_NOTE
<1>4. ~IsExternalContent(parent) /\ parent.kind \in OwnKinds /\ parent.kind = KIND_TEXT_NOTE
  BY <1>2, <1>3 DEF ReplyKind
<1>5. IsEvent(parent)
  BY <1>1, <1>4, Parents DEF WellFormed
<1>6. ReplyTags(parent, hint) = NoteReplyTags(parent, hint)
  BY <1>4, EachInItsOwnKind DEF ReplyTags
<1>. DEFINE beside == ContentTagsBeside(ReplyTags(parent, hint), content)
<1>7. WithContentTags(ReplyTags(parent, hint), content) = ReplyTags(parent, hint) \o beside /\ AreMentions(beside)
  BY <1>1, BuiltTags
<1>8. EventAt(i).tags = NoteTags(parent, hint, beside)
  BY <1>2, <1>6, <1>7 DEF NoteTags
<1>. QED BY <1>4, <1>5, <1>7, <1>8 DEF parent

(* Nobody else's note names the author of its root.                        *)
LEMMA ForeignNotes ==
  ASSUME NEW parent,
         NEW note, note.tags \in {PositionalTags(parent), MarkedTags(parent)}
  PROVE  NamedRootAuthor(note) = {}
<1>. DEFINE root  == Opens(parent)
            first == <<"e", root.id, RawHint>>
            last  == <<"e", parent.id>>
            named == <<"e", root.id, RawHint, "root">>
            reply == <<"e", parent.id, "", "reply">>
            told  == <<"p", parent.pubkey>>
<1>1. /\ EventTagAuthor(first) = Null /\ EventTagAuthor(last) = Null
      /\ EventTagAuthor(named) = Null /\ EventTagAuthor(reply) = Null
      /\ At(told, 1) = "p"
  BY MarkedAuthors, Slots
<1>2. IsSequence(first) /\ IsSequence(last) /\ IsSequence(named) /\ IsSequence(reply) /\ IsSequence(told)
  BY Tuples
<1>3. /\ PositionalTags(parent) = (IF root.id = parent.id THEN <<>> ELSE << first >>) \o << last >>
      /\ MarkedTags(parent) = ((IF root = Null THEN <<>> ELSE << named >>)
                                 \o (IF root # Null /\ root.id = parent.id THEN <<>> ELSE << reply >>)) \o << told >>
  BY DEF PositionalTags, MarkedTags
<1>. HIDE DEF first, last, named, reply, told, root
<1>4. /\ IsTags(<< first >>) /\ ToSet(<< first >>) = {first} /\ IsTags(<< last >>) /\ ToSet(<< last >>) = {last}
      /\ IsTags(<< named >>) /\ ToSet(<< named >>) = {named} /\ IsTags(<< reply >>) /\ ToSet(<< reply >>) = {reply}
      /\ IsTags(<< told >>) /\ ToSet(<< told >>) = {told}
  BY <1>2, OneTag
<1>5. IsTags(PositionalTags(parent)) /\ ToSet(PositionalTags(parent)) \subseteq {first, last}
  <2>. DEFINE a == IF root.id = parent.id THEN <<>> ELSE << first >>
  <2>1. IsTags(a) /\ ToSet(a) \subseteq {first} /\ PositionalTags(parent) = a \o << last >>
    BY <1>3, <1>4, NoTags
  <2>. HIDE DEF a
  <2>. QED BY <1>4, <2>1, ConcatTags
<1>6. IsTags(MarkedTags(parent)) /\ ToSet(MarkedTags(parent)) \subseteq {named, reply, told}
  <2>. DEFINE a == IF root = Null THEN <<>> ELSE << named >>
              b == IF root # Null /\ root.id = parent.id THEN <<>> ELSE << reply >>
  <2>1. IsTags(a) /\ ToSet(a) \subseteq {named} /\ IsTags(b) /\ ToSet(b) \subseteq {reply}
    BY <1>4, NoTags
  <2>2. MarkedTags(parent) = (a \o b) \o << told >>
    BY <1>3
  <2>. HIDE DEF a, b
  <2>3. IsTags(a \o b) /\ ToSet(a \o b) \subseteq {named, reply}
    BY <2>1, ConcatTags
  <2>. QED BY <1>4, <2>2, <2>3, ConcatTags
<1>7. IsTags(note.tags) /\ \A tag \in ToSet(note.tags) : At(tag, 1) = "e" => EventTagAuthor(tag) \in {Null} \cup {}
  BY <1>1, <1>5, <1>6
<1>. QED BY <1>7, RootAuthors

(* A note of a path does not name itself as its root; one buildReply built *)
(* would tell that root's author.                                          *)
LEMMA PathNotes ==
  ASSUME Path, NEW i \in 1..Len(thread), EventAt(i).kind = KIND_TEXT_NOTE, IsEvent(EventAt(i))
  PROVE  NamesAnother(EventAt(i))
<1>1. Len(thread) \in Nat
  BY DEF Path
<1>2. CASE i = 1
  <2>1. EventAt(1) \in OpeningEvents \/ EventAt(1) \in OpeningContents
    BY Entries DEF Opening, EventAt, Path
  <2>2. EventAt(1) \in OpeningEvents
    BY <1>2, <2>1, OpeningsAssumption, Parents
  <2>3. EventAt(1).id \in ToSet(Ids)
    <3>1. Ids # <<>> /\ Ids \in Seq(EventIds)
      BY IdsAssumption
    <3>2. 1 \in DOMAIN Ids
      BY <3>1
    <3>. QED BY <2>2, <3>2, HashesAssumption DEF ToSet
  <2>4. Source(EventAt(1)) # Null => IsEventTag(Source(EventAt(1))) /\ Source(EventAt(1)) \in ToSet(EventAt(1).tags)
    BY <1>2, InheritedRoots
  <2>5. Source(EventAt(1)) # Null => Source(EventAt(1))[2] \notin ToSet(Ids)
    BY <2>2, <2>4, EventTags, HashesAssumption DEF IsEventTag
  <2>. QED BY <1>2, <2>3, <2>5 DEF NamesAnother
<1>3. CASE i \in 2..Len(thread) /\ thread[i].by = "buildReply"
  <2>1. i \in Built
    BY <1>3 DEF Built
  <2>2. PICK hint, beside :
          hint \in Hints /\ AreMentions(beside) /\ EventAt(i).tags = NoteTags(EventAt(i - 1), hint, beside)
    BY <2>1, BuiltNotes
  <2>3. IsEvent(EventAt(i - 1))
    BY <2>1, BuiltNotes
  <2>. QED BY <2>2, <2>3, NotesTell DEF NamesAnother
<1>4. CASE i \in 2..Len(thread) /\ thread[i].by # "buildReply"
  <2>. DEFINE parent == EventAt(i - 1)
  <2>1. ForeignOn(thread[i], parent, Ids[i])
    <3>1. ~BuiltOn(thread[i], parent, Ids[i])
      BY <1>4, Entries DEF BuiltOn
    <3>. QED BY <1>1, <1>4, <3>1 DEF Path
  <2>. HIDE DEF parent
  <2>2. \A by, kind, id, author, tags : thread[i] = Entry(by, EventOf(kind, id, author, tags), NoText) =>
                                           EventAt(i).kind = kind /\ EventAt(i).tags = tags
    BY Entries DEF EventAt, EventOf
  <2>3. KIND_TEXT_NOTE \notin COMMENT_KINDS
    BY KindsApart
  <2>4. EventAt(i).tags \in {PositionalTags(parent), MarkedTags(parent)}
    BY <2>1, <2>2, <2>3 DEF ForeignOn
  <2>5. NamedRootAuthor(EventAt(i)) = {}
    BY <2>4, ForeignNotes
  <2>. QED BY <2>5 DEF NamesAnother
<1>. QED BY <1>1, <1>2, <1>3, <1>4

(* A note buildReply built tells everyone who is owed by what it answers.  *)
LEMMA NoteTellsOwed ==
  ASSUME Path, NEW k \in Built, EventAt(k).kind = KIND_TEXT_NOTE
  PROVE  /\ Owed(EventAt(k - 1)) \subseteq ExtractPubkeys(EventAt(k).tags)
         /\ EventAt(k - 1).kind = KIND_TEXT_NOTE
<1>1. PICK hint, beside :
        hint \in Hints /\ AreMentions(beside) /\ EventAt(k).tags = NoteTags(EventAt(k - 1), hint, beside)
  BY BuiltNotes
<1>2. IsEvent(EventAt(k - 1)) /\ EventAt(k - 1).kind = KIND_TEXT_NOTE
  BY BuiltNotes
<1>3. k - 1 \in 1..Len(thread)
  BY DEF Path, Built
<1>4. NamesAnother(EventAt(k - 1))
  BY <1>2, <1>3, PathNotes
<1>5. Owed(EventAt(k - 1)) \subseteq Participants(EventAt(k - 1), InheritedRootTag(EventAt(k - 1)))
  BY <1>2, <1>4, AnswersTell
<1>6. Participants(EventAt(k - 1), InheritedRootTag(EventAt(k - 1))) \subseteq ExtractPubkeys(EventAt(k).tags)
  BY <1>1, <1>2, NotesTell
<1>. QED BY <1>2, <1>5, <1>6

(* Nobody drops out along notes.                                           *)
LEMMA NotesTellEveryone ==
  ASSUME Path, NEW j \in Built, EventAt(j).kind = KIND_TEXT_NOTE,
         NEW i \in 1..(j - 1), (i + 1)..j \subseteq Built
  PROVE  Owed(EventAt(i)) \subseteq ExtractPubkeys(EventAt(j).tags)
<1>1. j \in Nat /\ i \in Nat /\ i < j /\ j - i \in Nat
  BY DEF Path, Built
<1>. DEFINE Notes == {d \in Nat : d <= j - i => EventAt(j - d).kind = KIND_TEXT_NOTE}
            Told  == {d \in Nat : d \in 1..(j - i) => Owed(EventAt(i)) \subseteq ExtractPubkeys(EventAt(i + d).tags)}
<1>2. 0..(j - i) \subseteq Notes
  <2>1. 0 \in Notes
    <3>1. j - 0 = j
      BY <1>1
    <3>. QED BY <3>1
  <2>2. ASSUME NEW d \in 1..(j - i), d - 1 \in Notes PROVE d \in Notes
    <3>1. d \in Nat /\ d - 1 \in Nat /\ d - 1 <= j - i /\ j - (d - 1) \in (i + 1)..j /\ (j - (d - 1)) - 1 = j - d
      BY <1>1
    <3>2. EventAt(j - (d - 1)).kind = KIND_TEXT_NOTE /\ j - (d - 1) \in Built
      BY <2>2, <3>1
    <3>3. EventAt((j - (d - 1)) - 1).kind = KIND_TEXT_NOTE
      BY <3>2, NoteTellsOwed
    <3>4. EventAt(j - d).kind = KIND_TEXT_NOTE
      BY <3>1, <3>3
    <3>. QED BY <3>1, <3>4
  <2>. HIDE DEF Notes
  <2>. QED BY <1>1, <2>1, <2>2, AllIndices
<1>3. ASSUME NEW k \in (i + 1)..j PROVE EventAt(k).kind = KIND_TEXT_NOTE /\ k \in Built
  <2>1. j - k \in 0..(j - i) /\ j - k <= j - i /\ j - (j - k) = k
    BY <1>1
  <2>2. j - k \in Notes
    BY <1>2, <2>1
  <2>3. EventAt(j - (j - k)).kind = KIND_TEXT_NOTE
    BY <2>1, <2>2
  <2>. QED BY <2>1, <2>3
<1>4. 0..(j - i) \subseteq Told
  <2>1. 0 \in Told
    OBVIOUS
  <2>2. ASSUME NEW d \in 1..(j - i), d - 1 \in Told PROVE d \in Told
    <3>1. d \in Nat /\ d - 1 \in Nat /\ i + d \in (i + 1)..j /\ (i + d) - 1 = i + (d - 1)
      BY <1>1
    <3>2. Owed(EventAt(i + (d - 1))) \subseteq ExtractPubkeys(EventAt(i + d).tags)
      <4>1. Owed(EventAt((i + d) - 1)) \subseteq ExtractPubkeys(EventAt(i + d).tags)
        BY <1>3, <3>1, NoteTellsOwed
      <4>. QED BY <3>1, <4>1
    <3>3. CASE d = 1
      <4>1. i + (d - 1) = i
        BY <1>1, <3>3
      <4>2. Owed(EventAt(i)) \subseteq ExtractPubkeys(EventAt(i + d).tags)
        BY <3>2, <4>1
      <4>. QED BY <3>1, <4>2
    <3>4. CASE d # 1
      <4>1. d - 1 \in 1..(j - i)
        BY <1>1, <3>1, <3>4
      <4>2. Owed(EventAt(i)) \subseteq ExtractPubkeys(EventAt(i + (d - 1)).tags)
        BY <2>2, <4>1
      <4>3. ExtractPubkeys(EventAt(i + (d - 1)).tags) \subseteq Owed(EventAt(i + (d - 1)))
        BY DEF Owed
      <4>4. Owed(EventAt(i)) \subseteq ExtractPubkeys(EventAt(i + d).tags)
        BY <3>2, <4>2, <4>3
      <4>. QED BY <3>1, <4>4
    <3>. QED BY <3>3, <3>4
  <2>. HIDE DEF Told
  <2>. QED BY <1>1, <2>1, <2>2, AllIndices
<1>5. j - i \in 0..(j - i) /\ j - i \in 1..(j - i) /\ i + (j - i) = j
  BY <1>1
<1>6. j - i \in Told
  BY <1>4, <1>5
<1>7. Owed(EventAt(i)) \subseteq ExtractPubkeys(EventAt(i + (j - i)).tags)
  BY <1>5, <1>6
<1>. QED BY <1>5, <1>7

-----------------------------------------------------------------------------
(* A comment is opened on what it answers, or in the scope of a comment.   *)
IsOpened(parent, hint) == CommentRootScope(parent, hint) = EventScopeTags(parent, hint)
IsCopied(parent, hint) ==
  /\ parent.kind \in COMMENT_KINDS /\ ScopedRoot(parent) # Null
  /\ CommentRootScope(parent, hint) = CopiedRootScope(parent, ScopedRoot(parent))

LEMMA OpenedOrCopied == \A parent, hint : IsOpened(parent, hint) \/ IsCopied(parent, hint)
BY DEF IsOpened, IsCopied, CommentRootScope, ThreadsAsComment

(* A reply that is a comment answers external content or no own kind.      *)
CommentOn(event, parent) ==
  /\ IsEvent(parent) /\ HasText(ReplyTargetRef(parent)) /\ parent.kind \notin OwnKinds
  /\ \E hint, beside : hint \in Hints /\ AreMentions(beside) /\ event.tags = CommentTags(parent, hint, beside)

LEMMA BuiltComments ==
  ASSUME Path, NEW i \in Built, EventAt(i).kind = KIND_COMMENT
  PROVE  \/ CommentOn(EventAt(i), EventAt(i - 1))
         \/ /\ IsExternal(EventAt(i - 1)) /\ IsNamed(EventAt(i - 1))
            /\ \E beside : AreMentions(beside) /\ EventAt(i).tags = ExternalTags(EventAt(i - 1), beside)
<1>. DEFINE parent == EventAt(i - 1)
<1>1. PICK author \in Authors, hint \in Hints, content \in Contents :
           /\ MayAnswer(parent, hint) /\ WellFormed(parent)
           /\ EventAt(i) = EventOf(ReplyKind(parent), Ids[i], author, WithContentTags(ReplyTags(parent, hint), content))
  BY BuiltEntries
<1>2. EventAt(i).kind = ReplyKind(parent) /\ EventAt(i).tags = WithContentTags(ReplyTags(parent, hint), content)
  BY <1>1 DEF EventOf
<1>. HIDE DEF parent
<1>. DEFINE beside == ContentTagsBeside(ReplyTags(parent, hint), content)
<1>3. EventAt(i).tags = ReplyTags(parent, hint) \o beside /\ AreMentions(beside)
  BY <1>1, <1>2, BuiltTags
<1>4. KIND_COMMENT \notin OwnKinds
  BY KindsApart
<1>. HIDE DEF beside
<1>5. CASE IsExternal(parent)
  <2>1. IsExternalContent(parent)
    BY <1>5, Parents
  <2>2. IsNamed(parent) /\ ReplyTags(parent, hint) = ExternalScopeTags(parent)
    BY <1>1, <2>1 DEF MayAnswer, ReplyTags
  <2>. QED BY <1>3, <1>5, <2>2 DEF ExternalTags, parent
<1>6. CASE IsEvent(parent) /\ HasText(ReplyTargetRef(parent))
  <2>1. ~IsExternalContent(parent) /\ parent.kind \notin OwnKinds
    BY <1>2, <1>4, <1>6, Parents DEF ReplyKind
  <2>2. ReplyTags(parent, hint) = CommentRootScope(parent, hint) \o ParentItemTags(parent, hint)
    BY <2>1 DEF ReplyTags
  <2>3. EventAt(i).tags = CommentTags(parent, hint, beside)
    BY <1>3, <2>2 DEF CommentTags
  <2>4. CommentOn(EventAt(i), parent)
    BY <1>3, <1>6, <2>1, <2>3 DEF CommentOn
  <2>. QED BY <2>4 DEF parent
<1>. QED BY <1>1, <1>5, <1>6 DEF WellFormed

LEMMA HintedSlots ==
  ASSUME NEW name, NEW value, NEW hint
  PROVE  At(WithHint(<<name, value>>, hint), 1) = name /\ At(WithHint(<<name, value>>, hint), 2) = value
<1>1. At(<<name, value>>, 1) = name /\ At(<<name, value>>, 2) = value
  BY Slots
<1>2. At(<<name, value, hint>>, 1) = name /\ At(<<name, value, hint>>, 2) = value
  BY Slots
<1>3. WithHint(<<name, value>>, hint) = <<name, value>> \/ WithHint(<<name, value>>, hint) = <<name, value, hint>>
  BY HintedTags
<1>. QED BY <1>1, <1>2, <1>3

(* A comment has the tags of its scope and tells whom it answers.          *)
LEMMA CommentsTell ==
  ASSUME NEW parent, IsEvent(parent), NEW hint \in Hints, NEW beside, AreMentions(beside)
  PROVE  /\ ToSet(CommentRootScope(parent, hint)) \subseteq ToSet(CommentTags(parent, hint, beside))
         /\ parent.pubkey \in ExtractPubkeys(CommentTags(parent, hint, beside))
<1>. DEFINE tags  == CommentTags(parent, hint, beside)
            scope == CommentRootScope(parent, hint)
            items == ParentItemTags(parent, hint)
            told  == WithHint(<<"p", parent.pubkey>>, hint)
<1>1. IsTags(scope)
  BY CommentScopes DEF AreCommentTags
<1>2. IsTags(items) /\ told \in ToSet(items)
  BY ParentItems DEF AreCommentTags
<1>3. IsTags(beside)
  BY MentionNames
<1>4. tags = (scope \o items) \o beside
  BY DEF CommentTags
<1>5. At(told, 1) = "p" /\ At(told, 2) = parent.pubkey
  BY HintedSlots
<1>. HIDE DEF scope, items, tags, told
<1>6. IsTags(tags) /\ ToSet(tags) = ToSet(scope) \cup ToSet(items) \cup ToSet(beside)
  BY <1>1, <1>2, <1>3, <1>4, ConcatTags
<1>7. parent.pubkey \in ExtractPubkeys(tags)
  <2>1. told \in Under(ToSet(tags), "p") /\ parent.pubkey \in Pubkeys
    BY <1>2, <1>5, <1>6 DEF Under, IsEvent
  <2>2. ExtractPubkeys(tags) = {At(tag, 2) : tag \in Under(ToSet(tags), "p")} \cap Pubkeys
    BY <1>6, PubkeysRead
  <2>. QED BY <1>5, <2>1, <2>2
<1>. QED BY <1>6, <1>7 DEF scope, tags

(* A comment that opens a scope names the author of what it is about.      *)
LEMMA OpenedNameAuthors ==
  ASSUME NEW parent, IsEvent(parent), NEW hint \in Hints, NEW beside, AreMentions(beside), IsOpened(parent, hint)
  PROVE  HasTag(CommentTags(parent, hint, beside), "P", parent.pubkey)
<1>. DEFINE ref   == ReplyTargetRef(parent)
            place == <<"A", FormatRef(ref), hint>>
            event == <<"E", parent.id, hint, parent.pubkey>>
            scope == IF ref.type = "address" THEN place ELSE event
            kind  == <<"K", DecimalText[parent.kind]>>
            told  == WithHint(<<"P", parent.pubkey>>, hint)
<1>1. CommentRootScope(parent, hint) = << scope, kind, told >>
  BY DEF EventScopeTags, IsOpened
<1>2. IsSequence(scope) /\ IsSequence(kind) /\ IsSequence(told)
  BY HintedNames, Tuples DEF Names
<1>3. At(told, 1) = "P" /\ At(told, 2) = parent.pubkey
  BY HintedSlots
<1>4. ToSet(CommentRootScope(parent, hint)) \subseteq ToSet(CommentTags(parent, hint, beside))
  BY CommentsTell
<1>. HIDE DEF scope, kind, told
<1>5. told \in ToSet(CommentRootScope(parent, hint))
  BY <1>1, <1>2, ThreeTags
<1>. QED BY <1>3, <1>4, <1>5 DEF HasTag

(* A scope in which an article is answered names its author.               *)
LEMMA CopiedNameAuthors ==
  ASSUME NEW parent, IsEvent(parent), NEW root, root.type = "address", root.address.pubkey \in Pubkeys
  PROVE  \E tag \in ToSet(CopiedRootScope(parent, root)) : At(tag, 1) = "P" /\ At(tag, 2) \in Pubkeys
<1>. DEFINE copied == Among(parent.tags, ScopeTags(parent.tags))
            scope  == [i \in DOMAIN copied |-> CopiedScopeTag(copied[i])]
            named  == \E tag \in ToSet(scope) : tag[1] = "P" /\ At(tag, 2) \in Pubkeys
            author == IF named THEN Null ELSE KnownRootAuthor(parent, root)
            told   == <<"P", author>>
<1>1. IsTags(copied) /\ ToSet(copied) = ScopeTags(parent.tags)
  BY SomeTags DEF IsEvent, ScopeTags
<1>2. CopiedRootScope(parent, root) = IF author = Null THEN scope ELSE Append(scope, told)
  BY DEF CopiedRootScope, ScopeTags
<1>3. KnownRootAuthor(parent, root) = root.address.pubkey
  BY DEF KnownRootAuthor
<1>4. named => author = Null
  OBVIOUS
<1>5. ~named => author \in Pubkeys /\ author # Null
  BY <1>3, NothingAssumption
<1>6. At(told, 1) = "P" /\ At(told, 2) = author
  BY Slots
<1>. HIDE DEF copied
<1>7. scope \in Seq(ToSet(scope)) /\ ToSet(scope) = {CopiedScopeTag(tag) : tag \in ScopeTags(parent.tags)}
  BY <1>1, MappedTags
<1>8. ASSUME NEW copy \in ToSet(scope), copy[1] = "P" PROVE At(copy, 1) = "P"
  <2>1. PICK tag \in ScopeTags(parent.tags) : copy = CopiedScopeTag(tag)
    BY <1>7
  <2>2. IsSequence(tag) /\ At(tag, 1) \in ROOT_SCOPE_TAG_NAMES
    BY DEF ScopeTags, IsEvent, IsTags
  <2>3. Names(copy, {tag[1]})
    BY <2>1, <2>2, CopiedTags
  <2>. QED BY <1>8, <2>3 DEF Names
<1>9. CASE named
  <2>1. CopiedRootScope(parent, root) = scope
    BY <1>2, <1>4, <1>9
  <2>2. PICK tag \in ToSet(scope) : tag[1] = "P" /\ At(tag, 2) \in Pubkeys
    BY <1>9
  <2>. QED BY <1>8, <2>1, <2>2
<1>10. CASE ~named
  <2>1. CopiedRootScope(parent, root) = Append(scope, told)
    BY <1>2, <1>5, <1>10
  <2>. HIDE DEF scope, told, author, named
  <2>2. told \in ToSet(Append(scope, told))
    <3>. DEFINE T == ToSet(scope) \cup {told}
    <3>1. scope \in Seq(T) /\ told \in T
      BY <1>7, Wider
    <3>. HIDE DEF T
    <3>. QED BY <3>1, AppendSet
  <2>. QED BY <1>5, <1>6, <1>10, <2>1, <2>2
<1>. QED BY <1>9, <1>10

(* What a comment in a comment's scope has in common with it.              *)
LEMMA CopiedKeep ==
  ASSUME NEW parent, IsEvent(parent), NEW hint \in Hints, NEW beside, AreMentions(beside), IsCopied(parent, hint)
  PROVE  LET tags == CommentTags(parent, hint, beside) IN
         /\ SoleRefTagged(tags, "A") = SoleRefTagged(parent.tags, "A")
         /\ SoleRefTagged(tags, "E") = SoleRefTagged(parent.tags, "E")
         /\ Under(ToSet(tags), "E") = Under(ToSet(parent.tags), "E")
         /\ \A author : HasTag(parent.tags, "P", author) => HasTag(tags, "P", author)
<1>. DEFINE tags  == CommentTags(parent, hint, beside)
            root  == ScopedRoot(parent)
            items == ToSet(CommentRootScope(parent, hint))
            given == ToSet(parent.tags)
<1>1. /\ IsTags(tags)
      /\ \A name \in {"A", "E", "I", "K"} : Under(ToSet(tags), name) = Under(items, name)
  BY CommentSets
<1>2. CommentRootScope(parent, hint) = CopiedRootScope(parent, root)
  BY DEF IsCopied
<1>3. \A name \in {"A", "E", "I", "K"} : Under(items, name) = {CopiedScopeTag(tag) : tag \in Under(given, name)}
  BY <1>2, CopiedUnder
<1>4. IsTags(parent.tags) /\ \A tag \in given : IsSequence(tag)
  BY DEF IsEvent, IsTags
<1>5. items \subseteq ToSet(tags)
  BY CommentsTell
<1>6. {CopiedScopeTag(tag) : tag \in ScopeTags(parent.tags)} \subseteq items
  BY <1>2, CopiedScopes
<1>. HIDE DEF tags, items, given
<1>7. ASSUME NEW name \in {"A", "E"} PROVE Under(ToSet(tags), name) = Under(given, name)
  <2>1. \A tag \in Under(given, name) : CopiedScopeTag(tag) = tag
    BY <1>4, CopiesOfTags DEF Under, ROOT_SCOPE_TAG_NAMES
  <2>2. {CopiedScopeTag(tag) : tag \in Under(given, name)} = Under(given, name)
    BY <2>1
  <2>. QED BY <1>1, <1>3, <2>2
<1>8. /\ SoleRefTagged(tags, "A") = SoleRefTagged(parent.tags, "A")
      /\ SoleRefTagged(tags, "E") = SoleRefTagged(parent.tags, "E")
  BY <1>1, <1>4, <1>7, ReadAsSets DEF PointedAt, given
<1>9. ASSUME NEW author, HasTag(parent.tags, "P", author) PROVE HasTag(tags, "P", author)
  <2>1. PICK tag \in given : At(tag, 1) = "P" /\ At(tag, 2) = author
    BY <1>9 DEF HasTag, given
  <2>2. CopiedScopeTag(tag) = tag /\ tag \in ScopeTags(parent.tags)
    BY <1>4, <2>1, CopiesOfTags DEF ScopeTags, ROOT_SCOPE_TAG_NAMES, given
  <2>3. tag \in ToSet(tags)
    BY <1>5, <1>6, <2>2
  <2>. QED BY <2>1, <2>3 DEF HasTag
<1>. QED BY <1>7, <1>8, <1>9 DEF tags, given

(* What a comment that opens a scope names as its root.                    *)
LEMMA OpenedUnder ==
  ASSUME NEW parent, IsEvent(parent), NEW hint \in Hints, NEW beside, AreMentions(beside), IsOpened(parent, hint)
  PROVE  \A tag \in Under(ToSet(CommentTags(parent, hint, beside)), "E") : At(tag, 2) = parent.id
<1>. DEFINE tags  == CommentTags(parent, hint, beside)
            ref   == ReplyTargetRef(parent)
            place == <<"A", FormatRef(ref), hint>>
            event == <<"E", parent.id, hint, parent.pubkey>>
            scope == IF ref.type = "address" THEN place ELSE event
            kind  == <<"K", DecimalText[parent.kind]>>
            told  == WithHint(<<"P", parent.pubkey>>, hint)
            items == ToSet(CommentRootScope(parent, hint))
<1>1. CommentRootScope(parent, hint) = << scope, kind, told >>
  BY DEF EventScopeTags, IsOpened
<1>2. IsSequence(scope) /\ IsSequence(kind) /\ IsSequence(told)
  BY HintedNames, Tuples DEF Names
<1>3. At(told, 1) = "P" /\ At(kind, 1) = "K" /\ At(place, 1) = "A" /\ At(event, 2) = parent.id
  BY HintedSlots, Slots
<1>4. \A name \in {"A", "E", "I", "K"} : Under(ToSet(tags), name) = Under(items, name)
  BY CommentSets
<1>. HIDE DEF place, event, kind, told, tags
<1>5. items = {scope, kind, told}
  BY <1>1, <1>2, ThreeTags
<1>. HIDE DEF items
<1>6. \A tag \in Under(items, "E") : tag = event
  BY <1>3, <1>5 DEF Under
<1>. QED BY <1>3, <1>4, <1>6 DEF tags

-----------------------------------------------------------------------------
(* The events a set of E tags names.                                       *)
NamedEvents(tags) == {At(tag, 2) : tag \in Under(ToSet(tags), "E")}

LEMMA RefsUnder ==
  ASSUME NEW tags, IsTags(tags)
  PROVE  /\ SoleRefTagged(tags, "A") # Null =>
              \E text \in DOMAIN Addresses : SoleRefTagged(tags, "A") = AddressRef(Addresses[text])
         /\ SoleRefTagged(tags, "E") # Null =>
              \E id \in NamedEvents(tags) : id \in EventIds /\ SoleRefTagged(tags, "E") = EventRef(id)
<1>1. \A name : ToSet(Tagged(tags, name)) = Under(ToSet(tags), name)
  BY SomeTags DEF Tagged, Under
<1>2. \A name : SoleRefTagged(tags, name) = Null
                 \/ \E tag \in Under(ToSet(tags), name) : SoleRefTagged(tags, name) = RefFromTag(tag)
  BY <1>1, SoleRefs DEF SoleRefTagged
<1>3. \A tag \in ToSet(tags) : IsSequence(tag)
  BY DEF IsTags
<1>4. ASSUME SoleRefTagged(tags, "A") # Null
      PROVE  \E text \in DOMAIN Addresses : SoleRefTagged(tags, "A") = AddressRef(Addresses[text])
  <2>1. PICK tag \in Under(ToSet(tags), "A") : SoleRefTagged(tags, "A") = RefFromTag(tag)
    BY <1>2, <1>4
  <2>2. At(tag, 1) = "A" /\ IsSequence(tag) /\ RefFromTag(tag) # Null
    BY <1>3, <1>4, <2>1 DEF Under
  <2>3. At(tag, 2) \in DOMAIN Addresses /\ RefFromTag(tag) = AddressRef(Addresses[tag[2]])
    BY <2>2 DEF RefFromTag
  <2>4. At(tag, 2) # Null
    BY <2>3, NothingAssumption
  <2>5. tag[2] = At(tag, 2)
    BY <2>2, <2>4, NamedTags
  <2>. QED BY <2>1, <2>3, <2>5
<1>5. ASSUME SoleRefTagged(tags, "E") # Null
      PROVE  \E id \in NamedEvents(tags) : id \in EventIds /\ SoleRefTagged(tags, "E") = EventRef(id)
  <2>1. PICK tag \in Under(ToSet(tags), "E") : SoleRefTagged(tags, "E") = RefFromTag(tag)
    BY <1>2, <1>5
  <2>2. At(tag, 1) = "E" /\ IsSequence(tag) /\ RefFromTag(tag) # Null
    BY <1>3, <1>5, <2>1 DEF Under
  <2>3. At(tag, 2) \in EventIds /\ RefFromTag(tag) = EventRef(tag[2])
    BY <2>2 DEF RefFromTag
  <2>4. At(tag, 2) # Null
    BY <2>3, NothingAssumption
  <2>5. tag[2] = At(tag, 2)
    BY <2>2, <2>4, NamedTags
  <2>. QED BY <2>1, <2>3, <2>5 DEF NamedEvents
<1>. QED BY <1>4, <1>5

(* What kind of root the tags of a comment name.                           *)
LEMMA RootsByType ==
  ASSUME NullIsNoContent, NEW tags, IsTags(tags), NEW root, root = CommentPointers(tags).root, root # Null
  PROVE  /\ root.type \in {"event", "address", "external"}
         /\ root.type = "address" =>
              /\ root = SoleRefTagged(tags, "A")
              /\ \E text \in DOMAIN Addresses : root = AddressRef(Addresses[text])
         /\ root.type = "event" =>
              /\ SoleRefTagged(tags, "A") = Null /\ root = SoleRefTagged(tags, "E")
              /\ \E id \in NamedEvents(tags) : id \in EventIds /\ root = EventRef(id)
<1>1. /\ \A id : EventRef(id).type = "event"
      /\ \A address : AddressRef(address).type = "address"
  BY DEF EventRef, AddressRef
<1>2. root = (SoleRefTagged(tags, "A") ?? SoleRefTagged(tags, "E")) ?? ExternalContent(tags, "I", "K")
  BY DEF CommentPointers
<1>3. ExternalContent(tags, "I", "K") # Null => ExternalContent(tags, "I", "K").type = "external"
  BY ExternalContents
<1>4. CASE SoleRefTagged(tags, "A") # Null
  <2>1. root = SoleRefTagged(tags, "A")
    BY <1>2, <1>4 DEF ??
  <2>2. \E text \in DOMAIN Addresses : root = AddressRef(Addresses[text])
    BY <1>4, <2>1, RefsUnder
  <2>. QED BY <1>1, <2>1, <2>2
<1>5. CASE SoleRefTagged(tags, "A") = Null /\ SoleRefTagged(tags, "E") # Null
  <2>1. root = SoleRefTagged(tags, "E")
    BY <1>2, <1>5 DEF ??
  <2>2. \E id \in NamedEvents(tags) : id \in EventIds /\ root = EventRef(id)
    BY <1>5, <2>1, RefsUnder
  <2>. QED BY <1>1, <1>5, <2>1, <2>2
<1>6. CASE SoleRefTagged(tags, "A") = Null /\ SoleRefTagged(tags, "E") = Null
  <2>1. root = ExternalContent(tags, "I", "K")
    BY <1>2, <1>6 DEF ??
  <2>. QED BY <1>3, <2>1
<1>. QED BY <1>4, <1>5, <1>6

(* The references of a comment are those of its tags.                      *)
LEMMA CommentRoots ==
  ASSUME NEW event, event.kind \in COMMENT_KINDS
  PROVE  /\ Refs(event).root = CommentPointers(event.tags).root
         /\ ScopedRoot(event) # Null => ScopedRoot(event) = CommentPointers(event.tags).root
BY PointersByKind, ScopedRoots DEF Refs, ScopeOf

LEMMA SameRoots ==
  ASSUME NEW a, NEW b, a # Null, b # Null, SameTarget(a, b)
  PROVE  /\ a.type = b.type
         /\ a.type = "event" => a.id = b.id
BY DEF SameTarget, FormatThreadRef, FormatRef

-----------------------------------------------------------------------------
(* What a foreign comment names.                                           *)
LEMMA BareNames ==
  ASSUME NullIsNoContent, NEW parent, Commentable(parent)
  PROVE  /\ IsExternal(parent) => NamedEvents(BareCommentTags(parent)) = {}
         /\ IsEvent(parent) =>
              NamedEvents(BareCommentTags(parent)) \subseteq
                {parent.id} \cup IF parent.kind \in COMMENT_KINDS THEN NamedEvents(parent.tags) ELSE {}
<1>. DEFINE tags == BareCommentTags(parent)
            ref  == Opens(parent)
            up   == PointerTag(ref, "E", "A", "I")
            K    == <<"K", RootKindText(parent)>>
            down == PointerTag(TargetOf(parent), "e", "a", "i")
            k    == <<"k", ParentKindText(parent)>>
<1>1. tags = << up, K, down, k >>
  BY DEF BareCommentTags
<1>2. IsRef(ref) /\ ref # Null
  BY OpensWhole
<1>3. IsRef(TargetOf(parent))
  BY Opened DEF Commentable
<1>4. At(K, 1) = "K" /\ At(k, 1) = "k" /\ IsSequence(K) /\ IsSequence(k)
  BY Slots, Tuples
<1>5. IsSequence(down) /\ At(down, 1) \in {"e", "a", "i"}
  <2>1. PointsTo(down, TargetOf(parent), "e", "a", "i")
    BY <1>3, PointersPoint
  <2>. QED BY <1>3, <2>1, RefTypes DEF PointsTo
<1>6. /\ IsSequence(up)
      /\ ref.type = "event" => At(up, 1) = "E" /\ At(up, 2) = ref.id
      /\ ref.type = "address" => At(up, 1) = "A"
      /\ ref.type = "external" => At(up, 1) = "I"
  <2>1. PointsTo(up, ref, "E", "A", "I")
    BY <1>2, PointersPoint
  <2>. HIDE DEF up, ref
  <2>. QED BY <2>1 DEF PointsTo
<1>7. ref.type \in {"event", "address", "external"}
  BY <1>2, RefTypes
<1>. HIDE DEF up, K, down, k, ref
<1>8. ToSet(<< up, K, down, k >>) = {up, K, down, k}
  BY <1>4, <1>5, <1>6, FourTags
<1>9. ToSet(tags) = {up, K, down, k}
  BY <1>1, <1>8
<1>. HIDE DEF tags
<1>10. NamedEvents(tags) \subseteq IF ref.type = "event" THEN {ref.id} ELSE {}
  BY <1>4, <1>5, <1>6, <1>7, <1>9 DEF NamedEvents, Under
<1>11. CASE IsExternal(parent)
  <2>1. ref = parent /\ ref.type = "external"
    BY <1>11, Parents DEF ref, Opens, IsExternal
  <2>2. ~IsEvent(parent)
    BY <1>11, Parents
  <2>. QED BY <1>10, <2>1, <2>2 DEF tags
<1>12. CASE IsEvent(parent) /\ HasText(ReplyTargetRef(parent)) /\ parent.kind \notin OwnKinds
  <2>1. ref = ThreadOf(parent) /\ ~IsExternal(parent)
    BY <1>12, Parents DEF ref, Opens
  <2>2. ReplyTargetRef(parent).type = "event" => ReplyTargetRef(parent).id = parent.id
    BY <1>12, Targets DEF EventRef
  <2>3. CASE parent.kind \in COMMENT_KINDS /\ ScopedRoot(parent) # Null
    <3>1. ref = ScopedRoot(parent) /\ ref = CommentPointers(parent.tags).root
      BY <2>1, <2>3, ThreadsByKind, CommentRoots DEF ??
    <3>2. ref.type = "event" => ref.id \in NamedEvents(parent.tags)
      <4>1. IsTags(parent.tags)
        BY <1>12 DEF IsEvent
      <4>2. ref.type = "event" => \E id \in NamedEvents(parent.tags) : ref = EventRef(id)
        BY <1>2, <3>1, <4>1, RootsByType
      <4>. QED BY <4>2 DEF EventRef
    <3>. QED BY <1>10, <2>1, <2>3, <3>2 DEF tags
  <2>4. CASE parent.kind \notin COMMENT_KINDS \/ ScopedRoot(parent) = Null
    <3>1. ref = ReplyTargetRef(parent)
      BY <1>12, <2>1, <2>4, ThreadsByKind DEF ??
    <3>. QED BY <1>10, <2>1, <2>2, <3>1 DEF tags
  <2>. QED BY <2>3, <2>4
<1>. QED BY <1>11, <1>12 DEF Commentable

LEMMA ExternalNames ==
  ASSUME NEW content, IsExternal(content), IsNamed(content), NEW beside, AreMentions(beside)
  PROVE  NamedEvents(ExternalTags(content, beside)) = {}
<1>1. AreCommentTags(ExternalScopeTags(content), {"I", "K", "i", "k"})
  BY ExternalScopes
<1>2. IsTags(beside) /\ \A tag \in ToSet(beside) : At(tag, 1) \in {"p", "q", "t"}
  BY MentionNames
<1>3. ToSet(ExternalTags(content, beside)) = ToSet(ExternalScopeTags(content)) \cup ToSet(beside)
  BY <1>1, <1>2, ConcatTags DEF ExternalTags, AreCommentTags
<1>4. \A tag \in ToSet(ExternalScopeTags(content)) : At(tag, 1) \in {"I", "K", "i", "k"}
  BY <1>1 DEF AreCommentTags, Names
<1>. QED BY <1>2, <1>3, <1>4 DEF NamedEvents, Under

(* A comment names the event it answers, or what that one names.           *)
NamesOn(event, parent) ==
  NamedEvents(event.tags) \subseteq
    IF IsEvent(parent) THEN {parent.id} \cup IF parent.kind \in COMMENT_KINDS THEN NamedEvents(parent.tags) ELSE {}
    ELSE {}

LEMMA CommentsName ==
  ASSUME NullIsNoContent, Path, NEW i \in 2..Len(thread), EventAt(i).kind \in COMMENT_KINDS
  PROVE  NamesOn(EventAt(i), EventAt(i - 1))
<1>. DEFINE parent == EventAt(i - 1)
<1>1. Len(thread) \in Nat
  BY DEF Path
<1>2. WellFormed(parent) /\ (BuiltOn(thread[i], parent, Ids[i]) \/ ForeignOn(thread[i], parent, Ids[i]))
  BY <1>1 DEF Path
<1>3. CASE thread[i].by = "buildReply"
  <2>1. i \in Built
    BY <1>3 DEF Built
  <2>2. EventAt(i).kind = KIND_COMMENT
    <3>1. PICK author \in Authors, hint \in Hints, content \in Contents :
            EventAt(i) = EventOf(ReplyKind(parent), Ids[i], author, WithContentTags(ReplyTags(parent, hint), content))
      BY <2>1, BuiltEntries
    <3>2. EventAt(i).kind = ReplyKind(parent)
      BY <3>1 DEF EventOf
    <3>. QED BY <3>2, KindsApart DEF ReplyKind
  <2>3. CASE CommentOn(EventAt(i), parent)
    <3>1. PICK hint, beside : hint \in Hints /\ AreMentions(beside) /\ EventAt(i).tags = CommentTags(parent, hint, beside)
      BY <2>3 DEF CommentOn
    <3>2. IsEvent(parent)
      BY <2>3 DEF CommentOn
    <3>. HIDE DEF parent
    <3>3. CASE IsOpened(parent, hint)
      <4>1. NamedEvents(CommentTags(parent, hint, beside)) \subseteq {parent.id}
        BY <3>1, <3>2, <3>3, OpenedUnder DEF NamedEvents
      <4>. QED BY <3>1, <3>2, <4>1 DEF NamesOn, parent
    <3>4. CASE IsCopied(parent, hint)
      <4>1. Under(ToSet(CommentTags(parent, hint, beside)), "E") = Under(ToSet(parent.tags), "E")
        BY <3>1, <3>2, <3>4, CopiedKeep
      <4>2. NamedEvents(CommentTags(parent, hint, beside)) = NamedEvents(parent.tags)
        BY <4>1 DEF NamedEvents
      <4>. QED BY <3>1, <3>2, <3>4, <4>2 DEF NamesOn, IsCopied, parent
    <3>. QED BY <3>3, <3>4, OpenedOrCopied
  <2>4. CASE /\ IsExternal(parent) /\ IsNamed(parent)
             /\ \E beside : AreMentions(beside) /\ EventAt(i).tags = ExternalTags(parent, beside)
    <3>1. NamedEvents(EventAt(i).tags) = {}
      BY <2>4, ExternalNames
    <3>. QED BY <3>1 DEF NamesOn
  <2>. QED BY <2>1, <2>2, <2>3, <2>4, BuiltComments
<1>4. CASE thread[i].by # "buildReply"
  <2>1. ForeignOn(thread[i], parent, Ids[i])
    <3>1. ~BuiltOn(thread[i], parent, Ids[i])
      BY <1>4, Entries DEF BuiltOn
    <3>. QED BY <1>2, <3>1
  <2>. HIDE DEF parent
  <2>2. \A by, kind, id, author, tags : thread[i] = Entry(by, EventOf(kind, id, author, tags), NoText) =>
                                           EventAt(i).kind = kind /\ EventAt(i).tags = tags
    BY Entries DEF EventAt, EventOf
  <2>3. KIND_TEXT_NOTE \notin COMMENT_KINDS /\ KIND_CHANNEL_MESSAGE \notin COMMENT_KINDS
    BY KindsApart
  <2>4. PICK author \in Authors :
            \/ /\ IsExternalContent(parent) \/ parent.kind \notin OwnKinds
               /\ IsReferable(parent)
               /\ \E kind \in COMMENT_KINDS :
                    thread[i] = Entry("bare", EventOf(kind, Ids[i], author, BareCommentTags(parent)), NoText)
            \/ thread[i] = Entry("positional", EventOf(KIND_TEXT_NOTE, Ids[i], author, PositionalTags(parent)), NoText)
            \/ /\ parent.kind \in {KIND_TEXT_NOTE, KIND_CHANNEL_MESSAGE}
               /\ thread[i] = Entry("marked", EventOf(parent.kind, Ids[i], author, MarkedTags(parent)), NoText)
    BY <2>1 DEF ForeignOn
  <2>5. thread[i] # Entry("positional", EventOf(KIND_TEXT_NOTE, Ids[i], author, PositionalTags(parent)), NoText)
    BY <2>2, <2>3
  <2>6. ~(/\ parent.kind \in {KIND_TEXT_NOTE, KIND_CHANNEL_MESSAGE}
          /\ thread[i] = Entry("marked", EventOf(parent.kind, Ids[i], author, MarkedTags(parent)), NoText))
    BY <2>2, <2>3
  <2>7. /\ IsExternalContent(parent) \/ parent.kind \notin OwnKinds
        /\ IsReferable(parent) /\ EventAt(i).tags = BareCommentTags(parent)
    BY <2>2, <2>4, <2>5, <2>6
  <2>8. Commentable(parent)
    BY <1>2, <2>7, Parents DEF WellFormed, Commentable, IsReferable
  <2>9. NamesOn(EventAt(i), parent)
    BY <2>7, <2>8, BareNames DEF NamesOn, Commentable
  <2>. QED BY <2>9 DEF parent
<1>. QED BY <1>3, <1>4

(* The ids of a path are its own, in order.                                *)
LEMMA PathIds ==
  ASSUME Path, NEW i \in 1..Len(thread), IsEvent(EventAt(i))
  PROVE  EventAt(i).id = Ids[i] /\ i \in DOMAIN Ids /\ Len(thread) \in Nat
<1>1. Len(thread) \in Nat /\ i \in DOMAIN Ids
  BY IdsAssumption DEF Path, MaxLength
<1>2. CASE i = 1
  <2>1. EventAt(1) \in OpeningEvents \/ EventAt(1) \in OpeningContents
    BY Entries DEF Opening, EventAt, Path
  <2>2. EventAt(1) \in OpeningEvents
    BY <1>2, <2>1, OpeningsAssumption, Parents
  <2>. QED BY <1>1, <1>2, <2>2, HashesAssumption
<1>3. CASE i \in 2..Len(thread)
  <2>1. BuiltOn(thread[i], EventAt(i - 1), Ids[i]) \/ ForeignOn(thread[i], EventAt(i - 1), Ids[i])
    BY <1>3 DEF Path
  <2>2. \A by, kind, id, author, tags, content : Entry(by, EventOf(kind, id, author, tags), content).event.id = id
    BY Entries DEF EventOf
  <2>3. EventAt(i).id = Ids[i]
    BY <2>1, <2>2 DEF BuiltOn, ForeignOn, EventAt
  <2>. QED BY <1>1, <2>3
<1>. QED BY <1>1, <1>2, <1>3

(* No comment names itself, or an event that comes after it.               *)
Fresh(k) ==
  IsEvent(EventAt(k)) /\ EventAt(k).kind \in COMMENT_KINDS =>
    \A m \in k..MaxLength : Ids[m] \notin NamedEvents(EventAt(k).tags)

LEMMA NamesAreEarlier ==
  ASSUME NullIsNoContent, Path
  PROVE  \A k \in 1..Len(thread) : Fresh(k)
<1>1. Len(thread) \in Nat /\ MaxLength \in Nat /\ DOMAIN Ids = 1..MaxLength
  BY IdsAssumption DEF Path, MaxLength
<1>. DEFINE Done == {k \in Nat : k \in 1..Len(thread) => Fresh(k)}
<1>2. 0 \in Done
  OBVIOUS
<1>3. ASSUME NEW k \in 1..Len(thread), k - 1 \in Done PROVE k \in Done
  <2>. SUFFICES ASSUME IsEvent(EventAt(k)), EventAt(k).kind \in COMMENT_KINDS, NEW m \in k..MaxLength
                PROVE  Ids[m] \notin NamedEvents(EventAt(k).tags)
    BY DEF Fresh
  <2>1. k \in Nat /\ m \in Nat /\ m \in DOMAIN Ids
    BY <1>1
  <2>2. CASE k = 1
    <3>1. EventAt(1) \in OpeningEvents \/ EventAt(1) \in OpeningContents
      BY Entries DEF Opening, EventAt, Path
    <3>2. EventAt(1) \in OpeningEvents
      BY <2>2, <3>1, OpeningsAssumption, Parents
    <3>3. Ids[m] \in ToSet(Ids)
      BY <2>1 DEF ToSet
    <3>. QED BY <2>2, <3>2, <3>3, HashesAssumption DEF NamedEvents, Under
  <2>3. CASE k \in 2..Len(thread)
    <3>. DEFINE parent == EventAt(k - 1)
    <3>1. NamesOn(EventAt(k), parent)
      BY <2>3, CommentsName
    <3>2. k - 1 \in 1..Len(thread) /\ m \in (k - 1)..MaxLength /\ m # k - 1
      BY <1>1, <2>1, <2>3
    <3>3. IsEvent(parent) => parent.id = Ids[k - 1] /\ k - 1 \in DOMAIN Ids
      BY <3>2, PathIds
    <3>4. IsEvent(parent) => parent.id # Ids[m]
      BY <2>1, <3>2, <3>3, IdsAssumption
    <3>5. Fresh(k - 1)
      BY <1>3, <3>2
    <3>6. IsEvent(parent) /\ parent.kind \in COMMENT_KINDS => Ids[m] \notin NamedEvents(parent.tags)
      BY <3>2, <3>5 DEF Fresh
    <3>. HIDE DEF parent
    <3>. QED BY <3>1, <3>4, <3>6 DEF NamesOn
  <2>. QED BY <1>1, <2>1, <2>2, <2>3
<1>. HIDE DEF Done
<1>4. 0..Len(thread) \subseteq Done
  BY <1>1, <1>2, <1>3, AllIndices
<1>5. ASSUME NEW k \in 1..Len(thread) PROVE Fresh(k)
  <2>1. k \in Done
    BY <1>1, <1>4
  <2>. QED BY <2>1 DEF Done
<1>. QED BY <1>5

-----------------------------------------------------------------------------
RootOf(event) == CommentPointers(event.tags).root

(* A comment that opens a scope has what it answers as its root.           *)
LEMMA OpenedRoots ==
  ASSUME NEW parent, IsEvent(parent), HasText(ReplyTargetRef(parent)), NEW hint \in Hints,
         NEW beside, AreMentions(beside), IsOpened(parent, hint),
         NEW event, event.tags = CommentTags(parent, hint, beside)
  PROVE  RootOf(event) = ReplyTargetRef(parent) /\ RootOf(event) # Null
<1>1. ScopeOf(event.tags) = ReplyTargetRef(parent)
  BY OpenedScopesReadBack DEF IsOpened
<1>2. ReplyTargetRef(parent) # Null
  BY CommentsAnswer
<1>. QED BY <1>1, <1>2 DEF ScopeOf, RootOf

(* An event or an article that is the root of a comment in a comment's     *)
(* scope is the root of that comment.                                      *)
LEMMA CopiedRootsKept ==
  ASSUME NullIsNoContent, NEW parent, IsEvent(parent), NEW hint \in Hints, NEW beside, AreMentions(beside),
         IsCopied(parent, hint), NEW event, event.tags = CommentTags(parent, hint, beside),
         RootOf(event) # Null, RootOf(event).type \in {"event", "address"}
  PROVE  /\ RootOf(parent) = RootOf(event)
         /\ ScopedRoot(parent) = RootOf(event)
<1>. DEFINE root  == RootOf(event)
            tags  == event.tags
            given == parent.tags
<1>1. /\ SoleRefTagged(tags, "A") = SoleRefTagged(given, "A")
      /\ SoleRefTagged(tags, "E") = SoleRefTagged(given, "E")
  BY CopiedKeep
<1>2. IsTags(tags)
  BY CommentSets
<1>3. root = CommentPointers(tags).root /\ root # Null /\ root.type \in {"event", "address"}
  BY DEF RootOf
<1>4. RootOf(parent) = (SoleRefTagged(given, "A") ?? SoleRefTagged(given, "E")) ?? ExternalContent(given, "I", "K")
  BY DEF RootOf, CommentPointers
<1>. HIDE DEF root, tags, given
<1>5. root.type = "address" => root = SoleRefTagged(tags, "A")
  BY <1>2, <1>3, RootsByType
<1>6. root.type = "event" => SoleRefTagged(tags, "A") = Null /\ root = SoleRefTagged(tags, "E")
  BY <1>2, <1>3, RootsByType
<1>7. RootOf(parent) = root
  BY <1>1, <1>3, <1>4, <1>5, <1>6 DEF ??
<1>8. ScopedRoot(parent) = RootOf(parent)
  BY CommentRoots DEF IsCopied, RootOf
<1>. QED BY <1>7, <1>8 DEF root

(* Whoever wrote the article a comment is about is named in its scope.     *)
LEMMA AuthorsNamed ==
  ASSUME NEW tags, IsTags(tags), NEW tag \in ToSet(tags), At(tag, 1) = "P", At(tag, 2) \in Pubkeys
  PROVE  ExtractTagValues(tags, "P") \cap Pubkeys # {}
<1>1. ExtractTagValues(tags, "P") = {At(t, 2) : t \in Under(ToSet(tags), "P")} \ {Null}
  BY ReadAsSets DEF ValuesIn
<1>2. tag \in Under(ToSet(tags), "P") /\ At(tag, 2) # Null
  BY NothingAssumption DEF Under
<1>. QED BY <1>1, <1>2

(* The root of a comment buildReply built, and the author it names.        *)
LEMMA CommentsHaveRoots ==
  ASSUME NullIsNoContent, NEW parent, NEW event, CommentOn(event, parent),
         parent.kind \in COMMENT_KINDS => ScopesAreFull(parent.tags)
  PROVE  /\ RootOf(event) # Null
         /\ parent.pubkey \in ExtractPubkeys(event.tags)
         /\ RootOf(event).type = "address" => ExtractTagValues(event.tags, "P") \cap Pubkeys # {}
<1>1. IsEvent(parent) /\ HasText(ReplyTargetRef(parent)) /\ parent.pubkey \in Pubkeys
  BY DEF CommentOn, IsEvent
<1>2. PICK hint, beside : hint \in Hints /\ AreMentions(beside) /\ event.tags = CommentTags(parent, hint, beside)
  BY DEF CommentOn
<1>3. parent.pubkey \in ExtractPubkeys(event.tags)
  BY <1>1, <1>2, CommentsTell
<1>4. IsTags(event.tags)
  BY <1>1, <1>2, CommentSets
<1>5. CASE IsOpened(parent, hint)
  <2>1. RootOf(event) # Null
    BY <1>1, <1>2, <1>5, OpenedRoots
  <2>2. HasTag(event.tags, "P", parent.pubkey)
    BY <1>1, <1>2, <1>5, OpenedNameAuthors
  <2>3. ExtractTagValues(event.tags, "P") \cap Pubkeys # {}
    BY <1>1, <1>4, <2>2, AuthorsNamed DEF HasTag
  <2>. QED BY <1>3, <2>1, <2>3
<1>6. CASE IsCopied(parent, hint)
  <2>. DEFINE root == ScopedRoot(parent)
  <2>1. root # Null /\ root = ScopeOf(parent.tags) /\ CommentRootScope(parent, hint) = CopiedRootScope(parent, root)
        /\ ScopesAreFull(parent.tags)
    BY <1>6, ScopedRoots DEF IsCopied
  <2>2. RootOf(event) # Null
    <3>. HIDE DEF root
    <3>1. ScopeOf(CommentTags(parent, hint, beside)) # Null
      BY <1>1, <1>2, <2>1, CopiedScopesReadBack
    <3>. QED BY <1>2, <3>1 DEF ScopeOf, RootOf
  <2>3. ASSUME RootOf(event).type = "address" PROVE ExtractTagValues(event.tags, "P") \cap Pubkeys # {}
    <3>1. root = RootOf(event)
      BY <1>1, <1>2, <1>6, <2>2, <2>3, CopiedRootsKept
    <3>2. PICK text \in DOMAIN Addresses : RootOf(event) = AddressRef(Addresses[text])
      BY <1>4, <2>2, <2>3, RootsByType DEF RootOf
    <3>3. AddressRef(Addresses[text]).type = "address" /\ AddressRef(Addresses[text]).address = Addresses[text]
      BY DEF AddressRef
    <3>4. Addresses[text].pubkey \in Pubkeys
      BY AddressKindsAssumption
    <3>5. root.type = "address" /\ root.address.pubkey \in Pubkeys
      BY <3>1, <3>2, <3>3, <3>4
    <3>. HIDE DEF root
    <3>6. PICK tag \in ToSet(CopiedRootScope(parent, root)) : At(tag, 1) = "P" /\ At(tag, 2) \in Pubkeys
      BY <1>1, <3>5, CopiedNameAuthors
    <3>7. tag \in ToSet(event.tags)
      BY <1>1, <1>2, <2>1, <3>6, CommentsTell
    <3>. QED BY <1>4, <3>6, <3>7, AuthorsNamed
  <2>. QED BY <1>3, <2>2, <2>3
<1>. QED BY <1>5, <1>6, OpenedOrCopied

(* A comment on an event names that event's author, when the event is its  *)
(* root.                                                                   *)
LEMMA FirstNamesItsAuthor ==
  ASSUME NullIsNoContent, Path, NEW k \in Built, CommentOn(EventAt(k), EventAt(k - 1)),
         SameTarget(RootOf(EventAt(k)), ReplyTargetRef(EventAt(k - 1)))
  PROVE  HasTag(EventAt(k).tags, "P", EventAt(k - 1).pubkey)
<1>. DEFINE event  == EventAt(k)
            parent == EventAt(k - 1)
<1>1. IsEvent(parent) /\ HasText(ReplyTargetRef(parent))
  BY DEF CommentOn
<1>2. PICK hint, beside : hint \in Hints /\ AreMentions(beside) /\ event.tags = CommentTags(parent, hint, beside)
  BY DEF CommentOn
<1>3. k - 1 \in 1..Len(thread) /\ k - 1 \in (k - 1)..MaxLength
  BY IdsAssumption DEF Path, Built, MaxLength
<1>4. Fresh(k - 1) /\ parent.id = Ids[k - 1]
  BY <1>1, <1>3, NamesAreEarlier, PathIds
<1>5. SameTarget(RootOf(event), ReplyTargetRef(parent))
  OBVIOUS
<1>6. parent.kind \in COMMENT_KINDS => Ids[k - 1] \notin NamedEvents(parent.tags)
  BY <1>1, <1>3, <1>4 DEF Fresh
<1>. HIDE DEF event, parent
<1>7. CASE IsOpened(parent, hint)
  <2>1. HasTag(event.tags, "P", parent.pubkey)
    BY <1>1, <1>2, <1>7, OpenedNameAuthors
  <2>. QED BY <2>1 DEF event, parent
<1>8. CASE IsCopied(parent, hint)
  <2>1. parent.kind \in COMMENT_KINDS
    BY <1>8 DEF IsCopied
  <2>2. ReplyTargetRef(parent) = EventRef(parent.id)
    BY <2>1, PlainKinds DEF ThreadingKinds
  <2>3. EventRef(parent.id).type = "event" /\ EventRef(parent.id).id = parent.id /\ EventRef(parent.id) # Null
    BY <1>1, NothingAssumption DEF EventRef, IsEvent
  <2>4. RootOf(event) # Null
    BY <1>5, <2>2, <2>3 DEF SameTarget
  <2>5. RootOf(event).type = "event" /\ RootOf(event).id = parent.id
    BY <1>5, <2>2, <2>3, <2>4, SameRoots
  <2>6. RootOf(parent) = RootOf(event)
    BY <1>1, <1>2, <1>8, <2>4, <2>5, CopiedRootsKept
  <2>7. PICK id \in NamedEvents(parent.tags) : RootOf(event) = EventRef(id)
    BY <1>1, <2>4, <2>5, <2>6, RootsByType DEF RootOf, IsEvent
  <2>8. id = parent.id
    BY <2>5, <2>7 DEF EventRef
  <2>. QED BY <1>4, <1>6, <2>1, <2>7, <2>8
<1>. QED BY <1>7, <1>8, OpenedOrCopied

(* A comment on a comment names whom that one names, when they have the    *)
(* same root, an event before both.                                        *)
LEMMA NextNamesItsAuthor ==
  ASSUME NullIsNoContent, Path, NEW k \in Built, CommentOn(EventAt(k), EventAt(k - 1)),
         EventAt(k - 1).kind = KIND_COMMENT,
         NEW i \in 1..(k - 2), IsEvent(EventAt(i)), HasText(ReplyTargetRef(EventAt(i))),
         SameTarget(RootOf(EventAt(k)), ReplyTargetRef(EventAt(i))),
         NEW author,
         SameTarget(RootOf(EventAt(k - 1)), ReplyTargetRef(EventAt(i))) => HasTag(EventAt(k - 1).tags, "P", author)
  PROVE  HasTag(EventAt(k).tags, "P", author)
<1>. DEFINE event  == EventAt(k)
            parent == EventAt(k - 1)
            about  == EventAt(i)
            target == ReplyTargetRef(about)
<1>1. IsEvent(parent) /\ HasText(ReplyTargetRef(parent)) /\ parent.kind \in COMMENT_KINDS
  BY KindsApart DEF CommentOn
<1>2. PICK hint, beside : hint \in Hints /\ AreMentions(beside) /\ event.tags = CommentTags(parent, hint, beside)
  BY DEF CommentOn
<1>3. k - 1 \in 1..Len(thread) /\ i \in 1..Len(thread) /\ i # k - 1
  BY DEF Path, Built
<1>4. parent.id = Ids[k - 1] /\ about.id = Ids[i] /\ k - 1 \in DOMAIN Ids /\ i \in DOMAIN Ids
  BY <1>1, <1>3, PathIds
<1>5. parent.id # about.id
  BY <1>3, <1>4, IdsAssumption
<1>6. /\ target # Null /\ target.type \in {"event", "address"}
      /\ target.type = "event" => target = EventRef(about.id)
  BY Targets, RefsAreSome
<1>7. /\ SameTarget(RootOf(event), target)
      /\ SameTarget(RootOf(parent), target) => HasTag(parent.tags, "P", author)
  OBVIOUS
<1>. HIDE DEF event, parent, about, target
<1>8. RootOf(event) # Null
  BY <1>6, <1>7 DEF SameTarget
<1>9. RootOf(event).type = target.type /\ (target.type = "event" => RootOf(event).id = target.id)
  BY <1>6, <1>7, <1>8, SameRoots
<1>10. ~IsOpened(parent, hint)
  <2>1. SUFFICES ASSUME IsOpened(parent, hint) PROVE FALSE
    OBVIOUS
  <2>2. RootOf(event) = ReplyTargetRef(parent)
    BY <1>1, <1>2, <2>1, OpenedRoots
  <2>3. ReplyTargetRef(parent) = EventRef(parent.id)
    BY <1>1, PlainKinds DEF ThreadingKinds
  <2>4. \A id : EventRef(id).type = "event" /\ EventRef(id).id = id
    BY DEF EventRef
  <2>5. target.type = "event" /\ target.id = about.id
    BY <1>6, <1>9, <2>2, <2>3, <2>4
  <2>. QED BY <1>5, <1>9, <2>2, <2>3, <2>4, <2>5
<1>11. IsCopied(parent, hint)
  BY <1>10, OpenedOrCopied
<1>12. RootOf(parent) = RootOf(event)
  BY <1>1, <1>2, <1>6, <1>8, <1>9, <1>11, CopiedRootsKept
<1>13. HasTag(parent.tags, "P", author)
  BY <1>7, <1>12
<1>14. HasTag(event.tags, "P", author)
  BY <1>1, <1>2, <1>11, <1>13, CopiedKeep
<1>. QED BY <1>14 DEF event

(* A comment on what buildReply built answers a comment.                   *)
LEMMA CommentsAnswerComments ==
  ASSUME Path, NEW k \in Built, EventAt(k).kind = KIND_COMMENT, k - 1 \in Built
  PROVE  CommentOn(EventAt(k), EventAt(k - 1)) /\ EventAt(k - 1).kind = KIND_COMMENT
<1>1. PICK author \in Authors, hint \in Hints, content \in Contents :
        EventAt(k - 1) = EventOf(ReplyKind(EventAt((k - 1) - 1)), Ids[k - 1], author,
                                 WithContentTags(ReplyTags(EventAt((k - 1) - 1), hint), content))
  BY BuiltEntries
<1>2. EventAt(k - 1).kind \in OwnKinds \cup {KIND_COMMENT}
  BY <1>1 DEF EventOf, ReplyKind
<1>3. "type" \notin DOMAIN EventAt(k - 1)
  BY <1>1 DEF EventOf
<1>4. ~IsExternal(EventAt(k - 1))
  BY <1>3, Parents DEF IsExternalContent
<1>5. CommentOn(EventAt(k), EventAt(k - 1))
  BY <1>4, BuiltComments
<1>. QED BY <1>2, <1>5 DEF CommentOn

(* Nobody who wrote what a comment is about drops out of its scope.        *)
LEMMA CommentsNameEveryone ==
  ASSUME NullIsNoContent, Path, NEW j \in Built, EventAt(j).kind = KIND_COMMENT,
         NEW i \in 1..(j - 1), (i + 1)..j \subseteq Built, IsEvent(EventAt(i)),
         SameTarget(RootOf(EventAt(j)), ReplyTargetRef(EventAt(i)))
  PROVE  HasTag(EventAt(j).tags, "P", EventAt(i).pubkey)
<1>1. j \in Nat /\ i \in Nat /\ i < j /\ j - i \in Nat /\ i \in 1..Len(thread)
  BY DEF Path, Built
<1>. DEFINE author    == EventAt(i).pubkey
            target    == ReplyTargetRef(EventAt(i))
            Comments  == {d \in Nat : d < j - i => EventAt(j - d).kind = KIND_COMMENT}
            About(k)  == SameTarget(RootOf(EventAt(k)), target)
            NamesThem(k) == HasTag(EventAt(k).tags, "P", author)
            Named     == {d \in Nat : d \in 1..(j - i) /\ About(i + d) => NamesThem(i + d)}
<1>2. 0..(j - i) \subseteq Comments
  <2>1. 0 \in Comments
    <3>1. j - 0 = j
      BY <1>1
    <3>. QED BY <3>1
  <2>2. ASSUME NEW d \in 1..(j - i), d - 1 \in Comments PROVE d \in Comments
    <3>0. SUFFICES ASSUME d < j - i PROVE EventAt(j - d).kind = KIND_COMMENT
      BY <1>1
    <3>1. d \in Nat /\ d - 1 \in Nat /\ d - 1 < j - i /\ (j - (d - 1)) - 1 = j - d
      BY <1>1
    <3>2. j - (d - 1) \in (i + 1)..j /\ j - d \in (i + 1)..j
      BY <1>1, <3>0
    <3>3. EventAt(j - (d - 1)).kind = KIND_COMMENT /\ j - (d - 1) \in Built /\ (j - (d - 1)) - 1 \in Built
      BY <2>2, <3>1, <3>2
    <3>4. EventAt((j - (d - 1)) - 1).kind = KIND_COMMENT
      BY <3>3, CommentsAnswerComments
    <3>. QED BY <3>1, <3>4
  <2>. HIDE DEF Comments
  <2>. QED BY <1>1, <2>1, <2>2, AllIndices
<1>3. ASSUME NEW k \in (i + 1)..j PROVE EventAt(k).kind = KIND_COMMENT /\ k \in Built
  <2>1. j - k \in 0..(j - i) /\ j - k < j - i /\ j - (j - k) = k
    BY <1>1
  <2>2. j - k \in Comments
    BY <1>2, <2>1
  <2>3. EventAt(j - (j - k)).kind = KIND_COMMENT
    BY <2>1, <2>2
  <2>. QED BY <2>1, <2>3
<1>4. IsEvent(EventAt(i)) /\ HasText(target)
  <2>1. ~IsExternal(EventAt(i))
    BY Parents
  <2>. QED BY <1>1, <2>1 DEF Path, WellFormed
<1>5. 0..(j - i) \subseteq Named
  <2>1. 0 \in Named
    OBVIOUS
  <2>2. ASSUME NEW d \in 1..(j - i), d - 1 \in Named PROVE d \in Named
    <3>0. SUFFICES ASSUME About(i + d) PROVE NamesThem(i + d)
      BY <1>1
    <3>. DEFINE k == i + d
    <3>1. k \in (i + 1)..j /\ k - 1 = i + (d - 1) /\ d - 1 \in Nat
      BY <1>1
    <3>2. EventAt(k).kind = KIND_COMMENT /\ k \in Built
      BY <1>3, <3>1
    <3>3. CASE d = 1
      <4>1. k - 1 = i
        BY <1>1, <3>3
      <4>2. ~IsExternal(EventAt(k - 1))
        BY <4>1, Parents
      <4>3. CommentOn(EventAt(k), EventAt(k - 1))
        BY <3>2, <4>2, BuiltComments
      <4>4. SameTarget(RootOf(EventAt(k)), ReplyTargetRef(EventAt(k - 1)))
        BY <3>0, <4>1
      <4>. HIDE DEF k
      <4>5. HasTag(EventAt(k).tags, "P", EventAt(k - 1).pubkey)
        BY <3>2, <4>3, <4>4, FirstNamesItsAuthor
      <4>. QED BY <4>1, <4>5 DEF k
    <3>4. CASE d # 1
      <4>1. d - 1 \in 1..(j - i) /\ i \in 1..(k - 2) /\ k - 1 \in (i + 1)..j
        BY <1>1, <3>4
      <4>2. k - 1 \in Built
        BY <1>3, <4>1
      <4>3. About(k - 1) => NamesThem(k - 1)
        <5>1. About(i + (d - 1)) => NamesThem(i + (d - 1))
          BY <2>2, <4>1
        <5>. QED BY <3>1, <5>1
      <4>4. About(k)
        BY <3>0
      <4>. HIDE DEF k
      <4>5. CommentOn(EventAt(k), EventAt(k - 1)) /\ EventAt(k - 1).kind = KIND_COMMENT
        BY <3>2, <4>2, CommentsAnswerComments
      <4>. HIDE DEF author
      <4>6. HasTag(EventAt(k).tags, "P", author)
        BY <1>4, <3>2, <4>1, <4>3, <4>4, <4>5, NextNamesItsAuthor
      <4>. QED BY <4>6 DEF k
    <3>. QED BY <3>3, <3>4
  <2>. HIDE DEF Named
  <2>. QED BY <1>1, <2>1, <2>2, AllIndices
<1>6. j - i \in 0..(j - i) /\ j - i \in 1..(j - i) /\ i + (j - i) = j
  BY <1>1
<1>7. j - i \in Named
  BY <1>5, <1>6
<1>8. About(i + (j - i)) => NamesThem(i + (j - i))
  BY <1>6, <1>7
<1>. QED BY <1>6, <1>8

(* Along notes buildReply built, nobody who wrote, was told or is named as *)
(* the root's author drops out; a comment it built tells whom it answers   *)
(* and keeps naming the author of its root, as long as any tag it copies   *)
(* names them and no comment a path starts from has an I tag without a     *)
(* value.                                                                  *)
THEOREM RepliesTellEveryone == ASSUME NullIsNoContent, NoBareScopes PROVE Spec => []EveryoneIsTold
<1>1. Path => EveryoneIsTold
  <2>. SUFFICES ASSUME Path, NEW j \in Built
                PROVE  /\ EventAt(j).kind = KIND_TEXT_NOTE =>
                            \A i \in 1..(j - 1) : (i + 1)..j \subseteq Built =>
                              Owed(EventAt(i)) \subseteq ExtractPubkeys(EventAt(j).tags)
                       /\ EventAt(j).kind = KIND_COMMENT =>
                            /\ \/ IsExternalContent(EventAt(j - 1))
                               \/ EventAt(j - 1).pubkey \in ExtractPubkeys(EventAt(j).tags)
                            /\ Refs(EventAt(j)).root.type = "address" =>
                                 ExtractTagValues(EventAt(j).tags, "P") \cap Pubkeys # {}
                            /\ \A i \in 1..(j - 1) :
                                 (i + 1)..j \subseteq Built /\ SameTarget(Refs(EventAt(j)).root, TargetOf(EventAt(i))) =>
                                   \/ IsExternalContent(EventAt(i))
                                   \/ HasTag(EventAt(j).tags, "P", EventAt(i).pubkey)
    BY DEF EveryoneIsTold, Owed
  <2>1. j - 1 \in 1..Len(thread) /\ \A i \in 1..(j - 1) : i \in 1..Len(thread)
    BY DEF Path, Built
  <2>2. ASSUME EventAt(j).kind = KIND_TEXT_NOTE, NEW i \in 1..(j - 1), (i + 1)..j \subseteq Built
        PROVE  Owed(EventAt(i)) \subseteq ExtractPubkeys(EventAt(j).tags)
    BY <2>2, NotesTellEveryone
  <2>3. ASSUME EventAt(j).kind = KIND_COMMENT
        PROVE  /\ \/ IsExternalContent(EventAt(j - 1))
                  \/ EventAt(j - 1).pubkey \in ExtractPubkeys(EventAt(j).tags)
               /\ Refs(EventAt(j)).root.type = "address" => ExtractTagValues(EventAt(j).tags, "P") \cap Pubkeys # {}
    <3>1. Refs(EventAt(j)).root = RootOf(EventAt(j))
      BY <2>3, CommentRoots, KindsApart DEF RootOf
    <3>2. CASE CommentOn(EventAt(j), EventAt(j - 1))
      <4>1. EventAt(j - 1).kind \in COMMENT_KINDS => ScopesAreFull(EventAt(j - 1).tags)
        BY <2>1, <3>2, EntriesAreFull DEF CommentOn
      <4>. QED BY <3>1, <3>2, <4>1, CommentsHaveRoots
    <3>3. CASE /\ IsExternal(EventAt(j - 1)) /\ IsNamed(EventAt(j - 1))
               /\ \E beside : AreMentions(beside) /\ EventAt(j).tags = ExternalTags(EventAt(j - 1), beside)
      <4>1. PICK hint : RootOf(EventAt(j)) = ExternalRef(EventAt(j - 1).id, EventAt(j - 1).kind, hint)
        BY <3>3, ExternalsReadBack DEF RootOf
      <4>2. RootOf(EventAt(j)).type = "external"
        BY <4>1 DEF ExternalRef
      <4>. QED BY <3>1, <3>3, <4>2, Parents
    <3>. QED BY <2>3, <3>2, <3>3, BuiltComments
  <2>4. ASSUME EventAt(j).kind = KIND_COMMENT, NEW i \in 1..(j - 1), (i + 1)..j \subseteq Built,
               SameTarget(Refs(EventAt(j)).root, TargetOf(EventAt(i))), ~IsExternalContent(EventAt(i))
        PROVE  HasTag(EventAt(j).tags, "P", EventAt(i).pubkey)
    <3>1. Refs(EventAt(j)).root = RootOf(EventAt(j)) /\ TargetOf(EventAt(i)) = ReplyTargetRef(EventAt(i))
      BY <2>4, CommentRoots, KindsApart DEF RootOf, TargetOf
    <3>2. IsEvent(EventAt(i))
      BY <2>1, <2>4, Parents DEF Path, WellFormed
    <3>. QED BY <2>4, <3>1, <3>2, CommentsNameEveryone
  <2>. QED BY <2>2, <2>3, <2>4
<1>. QED BY <1>1, PathInvariant, PTL

-----------------------------------------------------------------------------
(* Tags by what they name and the value they name.                         *)
IsNaming(tag, name, value) == At(tag, 1) = name /\ At(tag, 2) = value

On(tags, name, value) == Among(tags, {tag \in ToSet(tags) : At(tag, 1) = name /\ At(tag, 2) = value})

LEMMA OnAsSet ==
  ASSUME NEW tags, IsTags(tags), NEW name, NEW value, NEW S,
         \A tag \in ToSet(tags) : tag \in S <=> IsNaming(tag, name, value)
  PROVE  On(tags, name, value) = Among(tags, S)
<1>. DEFINE R == {tag \in ToSet(tags) : At(tag, 1) = name /\ At(tag, 2) = value}
<1>1. tags \in Seq(ToSet(tags))
  BY DEF IsTags, IsSequence
<1>2. \A tag \in ToSet(tags) : tag \in R <=> tag \in S
  BY DEF IsNaming
<1>. HIDE DEF R
<1>3. Among(tags, R) = Among(tags, S)
  BY <1>1, <1>2, AmongAgrees
<1>. QED BY <1>3 DEF On, R

LEMMA OnAppend ==
  ASSUME NEW tags, NEW tag, IsTags(tags), IsSequence(tag), NEW name, NEW value
  PROVE  On(Append(tags, tag), name, value) =
           IF IsNaming(tag, name, value) THEN Append(On(tags, name, value), tag) ELSE On(tags, name, value)
<1>. DEFINE more == Append(tags, tag)
            S    == {x \in ToSet(more) : IsNaming(x, name, value)}
<1>1. /\ IsTags(more) /\ ToSet(more) = ToSet(tags) \cup {tag}
      /\ \A R : Among(more, R) = IF tag \in R THEN Append(Among(tags, R), tag) ELSE Among(tags, R)
  BY AppendTags
<1>. HIDE DEF more
<1>2. /\ tag \in S <=> IsNaming(tag, name, value)
      /\ \A x \in ToSet(tags) : x \in S <=> IsNaming(x, name, value)
      /\ \A x \in ToSet(more) : x \in S <=> IsNaming(x, name, value)
  BY <1>1
<1>. HIDE DEF S
<1>3. On(tags, name, value) = Among(tags, S) /\ On(more, name, value) = Among(more, S)
  BY <1>1, <1>2, OnAsSet
<1>4. Among(more, S) = IF tag \in S THEN Append(Among(tags, S), tag) ELSE Among(tags, S)
  BY <1>1
<1>. QED BY <1>2, <1>3, <1>4 DEF more

LEMMA OnConcat ==
  ASSUME NEW a, NEW b, IsTags(a), IsTags(b), NEW name, NEW value
  PROVE  On(a \o b, name, value) = On(a, name, value) \o On(b, name, value)
<1>. DEFINE both == a \o b
            S    == {x \in ToSet(both) : IsNaming(x, name, value)}
<1>1. /\ IsTags(both) /\ ToSet(both) = ToSet(a) \cup ToSet(b)
      /\ \A R : Among(both, R) = Among(a, R) \o Among(b, R)
  BY ConcatTags
<1>. HIDE DEF both
<1>2. /\ \A x \in ToSet(a) : x \in S <=> IsNaming(x, name, value)
      /\ \A x \in ToSet(b) : x \in S <=> IsNaming(x, name, value)
      /\ \A x \in ToSet(both) : x \in S <=> IsNaming(x, name, value)
  BY <1>1
<1>. HIDE DEF S
<1>3. /\ On(a, name, value) = Among(a, S) /\ On(b, name, value) = Among(b, S)
      /\ On(both, name, value) = Among(both, S)
  BY <1>1, <1>2, OnAsSet
<1>. QED BY <1>1, <1>3 DEF both

LEMMA OnAmong ==
  ASSUME NEW tags, IsTags(tags), NEW name, NEW value, NEW S
  PROVE  /\ (\A tag \in ToSet(tags) : IsNaming(tag, name, value) => tag \in S) =>
              On(Among(tags, S), name, value) = On(tags, name, value)
         /\ (\A tag \in ToSet(tags) : IsNaming(tag, name, value) => tag \notin S) =>
              On(Among(tags, S), name, value) = <<>>
<1>. DEFINE some == Among(tags, S)
            R    == {x \in ToSet(tags) : IsNaming(x, name, value)}
<1>1. IsTags(some) /\ ToSet(some) = {tag \in ToSet(tags) : tag \in S}
  BY SomeTags
<1>2. tags \in Seq(ToSet(tags))
  BY DEF IsTags, IsSequence
<1>3. Among(some, R) = Among(tags, S \cap R)
  <2>. HIDE DEF R
  <2>. QED BY <1>2, AmongTwice
<1>. HIDE DEF some
<1>4. /\ \A x \in ToSet(tags) : x \in R <=> IsNaming(x, name, value)
      /\ \A x \in ToSet(some) : x \in R <=> IsNaming(x, name, value)
  BY <1>1
<1>. HIDE DEF R
<1>5. On(tags, name, value) = Among(tags, R) /\ On(some, name, value) = Among(some, R)
  BY <1>1, <1>4, OnAsSet
<1>6. ASSUME \A tag \in ToSet(tags) : IsNaming(tag, name, value) => tag \in S
      PROVE  Among(tags, S \cap R) = Among(tags, R)
  <2>1. \A x \in ToSet(tags) : x \in S \cap R <=> x \in R
    BY <1>4, <1>6
  <2>. QED BY <1>2, <2>1, AmongAgrees
<1>7. ASSUME \A tag \in ToSet(tags) : IsNaming(tag, name, value) => tag \notin S
      PROVE  Among(tags, S \cap R) = <<>>
  <2>1. \A x \in ToSet(tags) : x \notin S \cap R
    BY <1>4, <1>7
  <2>. QED BY <1>2, <2>1, AmongNone
<1>. QED BY <1>3, <1>5, <1>6, <1>7 DEF some

LEMMA OnMembers ==
  ASSUME NEW tags, IsTags(tags), NEW name, NEW value
  PROVE  /\ IsTags(On(tags, name, value))
         /\ ToSet(On(tags, name, value)) = {tag \in ToSet(tags) : IsNaming(tag, name, value)}
         /\ On(tags, name, value) = <<>> <=> ~HasTag(tags, name, value)
<1>. DEFINE R  == {tag \in ToSet(tags) : At(tag, 1) = name /\ At(tag, 2) = value}
            on == On(tags, name, value)
<1>1. IsTags(on) /\ ToSet(on) = {tag \in ToSet(tags) : tag \in R}
  BY SomeTags DEF On
<1>. HIDE DEF on
<1>2. ToSet(on) = {tag \in ToSet(tags) : IsNaming(tag, name, value)}
  BY <1>1 DEF IsNaming
<1>3. on = <<>> => ToSet(on) = {}
  BY NoTags
<1>4. on # <<>> => ToSet(on) # {}
  BY <1>1, FirstAndLast DEF IsTags
<1>5. HasTag(tags, name, value) <=> ToSet(on) # {}
  BY <1>2 DEF HasTag, IsNaming
<1>. QED BY <1>1, <1>2, <1>3, <1>4, <1>5 DEF on

-----------------------------------------------------------------------------
(* What a tag holds in a slot, the empty string when it has none.          *)
Slot(tag, slot) == At(tag, slot) ?? ""

LEMMA MentionsName ==
  ASSUME NEW tag, IsMention(tag)
  PROVE  /\ At(tag, 1) = tag[1] /\ At(tag, 2) = tag[2] /\ Len(tag) \in Nat
         /\ \A name, value : IsNaming(tag, name, value) <=> tag[1] = name /\ tag[2] = value
<1>1. Len(tag) \in Nat /\ Len(tag) >= 2
  BY TypedSequence DEF IsMention, IsSequence
<1>2. At(tag, 1) = tag[1] /\ At(tag, 2) = tag[2]
  BY <1>1 DEF At
<1>. QED BY <1>1, <1>2 DEF IsNaming

LEMMA FilledSlots ==
  ASSUME NEW tag, NEW slot
  PROVE  /\ Slot(tag, slot) # Null
         /\ Slot(tag, slot) # "" => slot <= Len(tag) /\ tag[slot] = Slot(tag, slot)
BY NothingAssumption DEF Slot, At, ??

Fills(kept, earlier, later, slot) ==
  Slot(kept, slot) = IF Slot(earlier, slot) # "" THEN Slot(earlier, slot) ELSE Slot(later, slot)

LEMMA KeptSlots ==
  ASSUME NEW earlier, NEW later, IsMention(earlier), IsMention(later), NEW slot \in {3, 4}
  PROVE  Fills(KeepingEarlierHints(earlier, later), earlier, later, slot)
<1>. DEFINE n       == Max({Len(earlier), Len(later)})
            kept    == KeepingEarlierHints(earlier, later)
            held(i) == IF Slot(earlier, i) # "" THEN earlier[i] ELSE Slot(later, i)
            at(i)   == IF i <= 2 THEN later[i] ELSE held(i)
<1>1. Len(earlier) \in Nat /\ Len(later) \in Nat
  BY TypedSequence DEF IsMention, IsSequence
<1>2. n \in Nat /\ n >= Len(earlier) /\ n >= Len(later) /\ (n = Len(earlier) \/ n = Len(later))
  <2>1. \E x \in {Len(earlier), Len(later)} : \A y \in {Len(earlier), Len(later)} : x >= y
    BY <1>1
  <2>2. n \in {Len(earlier), Len(later)} /\ n >= Len(earlier) /\ n >= Len(later)
    BY <2>1 DEF Max
  <2>. QED BY <1>1, <2>2
<1>3. kept = [i \in 1..n |-> at(i)]
  BY DEF KeepingEarlierHints, Slot
<1>. HIDE DEF n
<1>4. Len(kept) = n /\ (slot <= n => kept[slot] = held(slot))
  <2>1. ~(slot <= 2) /\ (slot <= n => slot \in 1..n)
    BY <1>2
  <2>. DEFINE V == {at(i) : i \in 1..n}
  <2>2. kept \in [1..n -> V]
    <3>. HIDE DEF at, kept
    <3>. QED BY <1>3
  <2>. HIDE DEF V
  <2>3. kept \in Seq(V) /\ Len(kept) = n
    <3>. HIDE DEF kept, at
    <3>. QED BY <1>2, <2>2, SeqDef
  <2>4. slot <= n => kept[slot] = at(slot)
    <3>. HIDE DEF kept, at
    <3>. QED BY <1>3, <2>1
  <2>5. at(slot) = held(slot)
    <3>. HIDE DEF held
    <3>. QED BY <2>1
  <2>. HIDE DEF kept, at, held
  <2>. QED BY <2>3, <2>4, <2>5
<1>5. held(slot) = IF Slot(earlier, slot) # "" THEN Slot(earlier, slot) ELSE Slot(later, slot)
  BY FilledSlots
<1>6. held(slot) # Null
  BY <1>5, FilledSlots
<1>. HIDE DEF kept, held
<1>7. CASE slot <= n
  <2>1. At(kept, slot) = held(slot)
    BY <1>4, <1>7 DEF At
  <2>2. Slot(kept, slot) = held(slot)
    BY <1>6, <2>1 DEF Slot, ??
  <2>. QED BY <1>5, <2>2 DEF kept, Fills
<1>8. CASE ~(slot <= n)
  <2>1. ~(slot <= Len(earlier)) /\ ~(slot <= Len(later)) /\ ~(slot <= Len(kept))
    BY <1>1, <1>2, <1>4, <1>8
  <2>2. Slot(earlier, slot) = "" /\ Slot(later, slot) = "" /\ Slot(kept, slot) = ""
    BY <2>1 DEF Slot, At, ??
  <2>. QED BY <2>2 DEF kept, Fills
<1>. QED BY <1>7, <1>8

(* One more mention takes the place of those of its name and value.        *)
LEMMA OnWithMention ==
  ASSUME NEW tags, NEW mention, AreMentions(tags), IsMention(mention), NEW name, NEW value
  PROVE  On(WithMention(tags, mention), name, value) =
           IF ~IsNaming(mention, name, value) THEN On(tags, name, value)
           ELSE IF On(tags, name, value) = <<>> THEN << mention >>
           ELSE << KeepingEarlierHints(Head(On(tags, name, value)), mention) >>
<1>. DEFINE earlier == Among(tags, {tag \in ToSet(tags) : tag[1] = mention[1] /\ tag[2] = mention[2]})
            Others  == {tag \in ToSet(tags) : ~(At(tag, 1) = mention[1] /\ At(tag, 2) = mention[2])}
            rest    == Among(tags, Others)
            last    == IF earlier = <<>> THEN mention ELSE KeepingEarlierHints(Head(earlier), mention)
            E       == {tag \in ToSet(tags) : tag[1] = mention[1] /\ tag[2] = mention[2]}
<1>1. IsTags(tags) /\ \A tag \in ToSet(tags) : IsMention(tag)
  BY DEF AreMentions
<1>2. earlier = On(tags, mention[1], mention[2])
  <2>1. \A tag \in ToSet(tags) : tag \in E <=> IsNaming(tag, mention[1], mention[2])
    BY <1>1, MentionsName
  <2>. HIDE DEF E
  <2>2. On(tags, mention[1], mention[2]) = Among(tags, E)
    BY <1>1, <2>1, OnAsSet
  <2>. QED BY <2>2 DEF E
<1>3. \A tag \in ToSet(tags) : tag \in Others <=> ~IsNaming(tag, mention[1], mention[2])
  BY DEF IsNaming
<1>4. IsTags(rest)
  BY <1>1, SomeTags
<1>5. WithMention(tags, mention) = Append(rest, last)
  BY DEF WithMention, RemoveTag
<1>. HIDE DEF earlier, Others
<1>6. ASSUME earlier # <<>> PROVE IsMention(Head(earlier))
  <2>1. IsTags(earlier) /\ ToSet(earlier) \subseteq ToSet(tags)
    BY <1>1, <1>2, OnMembers
  <2>2. Head(earlier) \in ToSet(earlier)
    BY <1>6, <2>1, FirstAndLast DEF IsTags
  <2>. QED BY <1>1, <2>1, <2>2
<1>7. IsMention(last) /\ last[1] = mention[1] /\ last[2] = mention[2]
  BY <1>6, HintsAreKept
<1>8. IsNaming(mention, name, value) <=> mention[1] = name /\ mention[2] = value
  BY MentionsName
<1>9. IsNaming(last, name, value) <=> mention[1] = name /\ mention[2] = value
  <2>. HIDE DEF last
  <2>. QED BY <1>7, MentionsName
<1>. HIDE DEF rest
<1>10. On(Append(rest, last), name, value) =
         IF IsNaming(last, name, value) THEN Append(On(rest, name, value), last) ELSE On(rest, name, value)
  <2>. HIDE DEF last
  <2>. QED BY <1>4, <1>7, OnAppend DEF IsMention
<1>11. CASE IsNaming(mention, name, value)
  <2>1. On(rest, name, value) = <<>>
    <3>1. \A tag \in ToSet(tags) : IsNaming(tag, name, value) => tag \notin Others
      BY <1>3, <1>8, <1>11
    <3>. QED BY <1>1, <3>1, OnAmong DEF rest
  <2>2. On(Append(rest, last), name, value) = Append(<<>>, last)
    BY <1>8, <1>9, <1>10, <1>11, <2>1
  <2>3. Append(<<>>, last) = << last >>
    OBVIOUS
  <2>4. earlier = On(tags, name, value)
    BY <1>2, <1>8, <1>11
  <2>. QED BY <1>5, <1>11, <2>2, <2>3, <2>4
<1>12. CASE ~IsNaming(mention, name, value)
  <2>1. On(rest, name, value) = On(tags, name, value)
    <3>1. \A tag \in ToSet(tags) : IsNaming(tag, name, value) => tag \in Others
      BY <1>3, <1>8, <1>12 DEF IsNaming
    <3>. QED BY <1>1, <3>1, OnAmong DEF rest
  <2>. HIDE DEF last
  <2>. QED BY <1>5, <1>8, <1>9, <1>10, <1>12, <2>1
<1>. QED BY <1>11, <1>12

(* The first hint of the mentions and one more.                            *)
LEMMA FirstHints ==
  ASSUME NEW mentions, NEW mention, IsTags(mentions), IsSequence(mention), NEW name, NEW value, NEW slot
  PROVE  FirstHint(Append(mentions, mention), name, value, slot) =
           IF FirstHint(mentions, name, value, slot) # "" THEN FirstHint(mentions, name, value, slot)
           ELSE IF IsNaming(mention, name, value) THEN Slot(mention, slot) ELSE ""
<1>. DEFINE Gives(tag)   == At(tag, 1) = name /\ At(tag, 2) = value /\ (At(tag, slot) ?? "") # ""
            giving(tags) == Among(tags, {tag \in ToSet(tags) : Gives(tag)})
            more         == Append(mentions, mention)
            S            == {tag \in ToSet(more) : Gives(tag)}
<1>1. /\ IsTags(more) /\ ToSet(more) = ToSet(mentions) \cup {mention}
      /\ \A R : Among(more, R) = IF mention \in R THEN Append(Among(mentions, R), mention) ELSE Among(mentions, R)
  BY AppendTags
<1>2. /\ FirstHint(mentions, name, value, slot) =
            IF giving(mentions) = <<>> THEN "" ELSE Head(giving(mentions))[slot]
      /\ FirstHint(more, name, value, slot) = IF giving(more) = <<>> THEN "" ELSE Head(giving(more))[slot]
  BY DEF FirstHint
<1>3. giving(mentions) = Among(mentions, S)
  <2>. DEFINE R == {tag \in ToSet(mentions) : Gives(tag)}
  <2>1. mentions \in Seq(ToSet(mentions))
    BY DEF IsTags, IsSequence
  <2>2. \A tag \in ToSet(mentions) : tag \in R <=> tag \in S
    <3>. HIDE DEF Gives, more
    <3>. QED BY <1>1
  <2>. HIDE DEF R, S
  <2>3. Among(mentions, R) = Among(mentions, S)
    BY <2>1, <2>2, AmongAgrees
  <2>. QED BY <2>3 DEF R
<1>4. giving(more) = Among(more, S)
  OBVIOUS
<1>5. mention \in S <=> Gives(mention)
  <2>. HIDE DEF Gives, more
  <2>. QED BY <1>1
<1>. DEFINE a == Among(mentions, S)
<1>6. IsTags(a) /\ \A tag \in ToSet(a) : tag \in S
  <2>. HIDE DEF S
  <2>. QED BY SomeTags
<1>7. \A tag \in S : Slot(tag, slot) # "" /\ tag[slot] = Slot(tag, slot)
  <2>. HIDE DEF more
  <2>1. \A tag \in S : Slot(tag, slot) # ""
    BY DEF Slot
  <2>. HIDE DEF S
  <2>. QED BY <2>1, FilledSlots
<1>8. Gives(mention) <=> IsNaming(mention, name, value) /\ Slot(mention, slot) # ""
  BY DEF IsNaming, Slot
<1>. HIDE DEF Gives, S, more, giving
<1>9. giving(mentions) = a /\ giving(more) = IF mention \in S THEN Append(a, mention) ELSE a
  BY <1>1, <1>3, <1>4
<1>. HIDE DEF a
<1>10. CASE a # <<>>
  <2>1. Head(a) \in ToSet(a) /\ Head(a) \in S
    BY <1>6, <1>10, FirstAndLast DEF IsTags
  <2>2. Append(a, mention) # <<>> /\ Head(Append(a, mention)) = Head(a)
    <3>. DEFINE T == ToSet(a) \cup {mention}
    <3>1. a \in Seq(T) /\ mention \in T
      BY <1>6, Wider DEF IsTags, IsSequence
    <3>. HIDE DEF T
    <3>. QED BY <1>10, <3>1
  <2>3. giving(more) # <<>> /\ Head(giving(more)) = Head(a)
    BY <1>9, <1>10, <2>2
  <2>4. FirstHint(mentions, name, value, slot) = Slot(Head(a), slot) /\ Slot(Head(a), slot) # ""
    BY <1>2, <1>7, <1>9, <1>10, <2>1
  <2>5. FirstHint(more, name, value, slot) = Slot(Head(a), slot)
    BY <1>2, <1>7, <2>1, <2>3
  <2>. QED BY <2>4, <2>5 DEF more
<1>11. CASE a = <<>>
  <2>1. FirstHint(mentions, name, value, slot) = ""
    BY <1>2, <1>9, <1>11
  <2>2. Append(<<>>, mention) = << mention >> /\ << mention >> # <<>> /\ Head(<< mention >>) = mention
    OBVIOUS
  <2>3. CASE mention \in S
    <3>1. giving(more) = << mention >>
      BY <1>9, <1>11, <2>2, <2>3
    <3>2. FirstHint(more, name, value, slot) = mention[slot]
      BY <1>2, <2>2, <3>1
    <3>. QED BY <1>5, <1>7, <1>8, <2>1, <2>3, <3>2 DEF more
  <2>4. CASE mention \notin S
    <3>1. FirstHint(more, name, value, slot) = ""
      BY <1>2, <1>9, <1>11, <2>4
    <3>. QED BY <1>5, <1>8, <2>1, <2>4, <3>1 DEF more
  <2>. QED BY <2>3, <2>4
<1>. QED BY <1>10, <1>11

LEMMA GatheredAppend ==
  ASSUME NEW T, NEW s \in Seq(T), NEW x \in T
  PROVE  Gathered(Append(s, x)) = WithMention(Gathered(s), x)
<1>. DEFINE t == Append(s, x)
<1>1. /\ Len(s) \in Nat /\ t \in Seq(T) /\ Len(t) = Len(s) + 1
      /\ \A i \in 1..Len(s) : t[i] = s[i]
      /\ t[Len(t)] = x
  OBVIOUS
<1>2. PICK f : Gathered(s) = f[Len(s)] /\ f[0] = <<>> /\ \A i \in 1..Len(s) : f[i] = WithMention(f[i - 1], s[i])
  BY GatheredSoFar
<1>3. PICK g : Gathered(t) = g[Len(t)] /\ g[0] = <<>> /\ \A i \in 1..Len(t) : g[i] = WithMention(g[i - 1], t[i])
  BY <1>1, GatheredSoFar
<1>. HIDE DEF t
<1>. DEFINE Same == {i \in 0..Len(s) : f[i] = g[i]}
<1>4. 0 \in Same
  BY <1>1, <1>2, <1>3
<1>5. ASSUME NEW i \in 1..Len(s), i - 1 \in Same PROVE i \in Same
  <2>1. i \in 1..Len(t)
    BY <1>1
  <2>2. f[i] = WithMention(f[i - 1], s[i]) /\ g[i] = WithMention(g[i - 1], t[i])
    BY <1>2, <1>3, <2>1
  <2>3. f[i - 1] = g[i - 1] /\ t[i] = s[i] /\ i \in 0..Len(s)
    BY <1>1, <1>5
  <2>. QED BY <2>2, <2>3
<1>6. f[Len(s)] = g[Len(s)]
  <2>. HIDE DEF Same
  <2>1. 0..Len(s) \subseteq Same
    BY <1>1, <1>4, <1>5, AllIndices, Zenon
  <2>. QED BY <1>1, <2>1 DEF Same
<1>7. g[Len(t)] = WithMention(g[Len(s)], x)
  <2>1. Len(t) \in 1..Len(t) /\ Len(t) - 1 = Len(s)
    BY <1>1
  <2>. QED BY <1>1, <1>3, <2>1
<1>. QED BY <1>2, <1>3, <1>6, <1>7 DEF t

LEMMA NothingGathered == Gathered(<<>>) = <<>>
<1>1. <<>> \in Seq({}) /\ Len(<<>>) = 0
  OBVIOUS
<1>2. PICK f : Gathered(<<>>) = f[0] /\ f[0] = <<>>
  BY <1>1, GatheredSoFar, Zenon
<1>. QED BY <1>2

(* One tag, with the first hint in each slot, for what is mentioned.       *)
Represents(on, mentions, name, value) ==
  /\ ~HasTag(mentions, name, value) => on = <<>>
  /\ HasTag(mentions, name, value) =>
       \E tag : /\ on = << tag >> /\ IsMention(tag)
                /\ \A slot \in {3, 4} : Slot(tag, slot) = FirstHint(mentions, name, value, slot)

IsGathered(mentions) ==
  /\ AreMentions(Gathered(mentions))
  /\ \A name, value : Represents(On(Gathered(mentions), name, value), mentions, name, value)

LEMMA NoHints ==
  ASSUME NEW mentions, IsTags(mentions), NEW name, NEW value, ~HasTag(mentions, name, value), NEW slot
  PROVE  FirstHint(mentions, name, value, slot) = ""
<1>. DEFINE R == {tag \in ToSet(mentions) : At(tag, 1) = name /\ At(tag, 2) = value /\ (At(tag, slot) ?? "") # ""}
<1>1. R = {}
  BY DEF HasTag
<1>2. Among(mentions, R) = <<>>
  <2>1. mentions \in Seq(ToSet(mentions))
    BY DEF IsTags, IsSequence
  <2>. HIDE DEF R
  <2>. QED BY <1>1, <2>1, AmongNone
<1>. QED BY <1>2 DEF FirstHint

LEMMA OneMore ==
  ASSUME NEW mentions, NEW mention, AreMentions(mentions), IsMention(mention), IsGathered(mentions),
         Gathered(Append(mentions, mention)) = WithMention(Gathered(mentions), mention)
  PROVE  IsGathered(Append(mentions, mention))
<1>. DEFINE more == Append(mentions, mention)
            tags == Gathered(mentions)
<1>1. AreMentions(tags) /\ \A name, value : Represents(On(tags, name, value), mentions, name, value)
  BY DEF IsGathered
<1>2. Gathered(more) = WithMention(tags, mention)
  OBVIOUS
<1>. HIDE DEF tags
<1>3. AreMentions(Gathered(more))
  BY <1>1, <1>2, MentionsAddUp
<1>4. IsTags(mentions) /\ IsSequence(mention) /\ ToSet(more) = ToSet(mentions) \cup {mention}
  BY AppendTags DEF AreMentions, IsMention
<1>. SUFFICES ASSUME NEW name, NEW value PROVE Represents(On(Gathered(more), name, value), more, name, value)
  BY <1>3 DEF IsGathered
<1>. DEFINE on == On(tags, name, value)
<1>5. Represents(on, mentions, name, value)
  BY <1>1
<1>6. On(Gathered(more), name, value) =
        IF ~IsNaming(mention, name, value) THEN on
        ELSE IF on = <<>> THEN << mention >> ELSE << KeepingEarlierHints(Head(on), mention) >>
  BY <1>1, <1>2, OnWithMention
<1>7. HasTag(more, name, value) <=> HasTag(mentions, name, value) \/ IsNaming(mention, name, value)
  BY <1>4 DEF HasTag, IsNaming
<1>8. \A slot : FirstHint(more, name, value, slot) =
           IF FirstHint(mentions, name, value, slot) # "" THEN FirstHint(mentions, name, value, slot)
           ELSE IF IsNaming(mention, name, value) THEN Slot(mention, slot) ELSE ""
  BY <1>4, FirstHints
<1>. HIDE DEF on, more
<1>9. CASE ~IsNaming(mention, name, value)
  <2>1. \A slot : FirstHint(more, name, value, slot) = FirstHint(mentions, name, value, slot)
    BY <1>8, <1>9
  <2>. QED BY <1>5, <1>6, <1>7, <1>9, <2>1 DEF Represents
<1>10. CASE IsNaming(mention, name, value) /\ ~HasTag(mentions, name, value)
  <2>1. on = <<>> /\ On(Gathered(more), name, value) = << mention >>
    BY <1>5, <1>6, <1>10 DEF Represents
  <2>2. \A slot : FirstHint(more, name, value, slot) = Slot(mention, slot)
    BY <1>4, <1>8, <1>10, NoHints
  <2>. QED BY <1>7, <1>10, <2>1, <2>2 DEF Represents
<1>11. CASE IsNaming(mention, name, value) /\ HasTag(mentions, name, value)
  <2>1. PICK tag : /\ on = << tag >> /\ IsMention(tag)
                   /\ \A slot \in {3, 4} : Slot(tag, slot) = FirstHint(mentions, name, value, slot)
    BY <1>5, <1>11 DEF Represents
  <2>. DEFINE kept == KeepingEarlierHints(tag, mention)
  <2>2. on # <<>> /\ Head(on) = tag
    BY <2>1
  <2>3. On(Gathered(more), name, value) = << kept >>
    BY <1>6, <1>11, <2>2
  <2>4. IsMention(kept)
    BY <2>1, HintsAreKept
  <2>5. \A slot \in {3, 4} : Fills(kept, tag, mention, slot)
    BY <2>1, KeptSlots
  <2>. HIDE DEF kept
  <2>6. ASSUME NEW slot \in {3, 4} PROVE Slot(kept, slot) = FirstHint(more, name, value, slot)
    <3>1. Slot(kept, slot) = IF Slot(tag, slot) # "" THEN Slot(tag, slot) ELSE Slot(mention, slot)
      BY <2>5 DEF Fills
    <3>2. Slot(tag, slot) = FirstHint(mentions, name, value, slot)
      BY <2>1
    <3>3. FirstHint(more, name, value, slot) =
            IF FirstHint(mentions, name, value, slot) # "" THEN FirstHint(mentions, name, value, slot)
            ELSE Slot(mention, slot)
      BY <1>8, <1>11
    <3>. QED BY <3>1, <3>2, <3>3, Zenon
  <2>. QED BY <1>7, <1>11, <2>3, <2>4, <2>6 DEF Represents
<1>. QED BY <1>9, <1>10, <1>11

LEMMA AllGathered ==
  ASSUME NEW mentions, AreMentions(mentions)
  PROVE  IsGathered(mentions)
<1>. DEFINE T    == ToSet(mentions)
            Done == {p \in Seq(T) : AreMentions(p) /\ IsGathered(p)}
<1>1. mentions \in Seq(T) /\ \A x \in T : IsMention(x)
  BY DEF AreMentions, IsTags, IsSequence
<1>. HIDE DEF T
<1>2. <<>> \in Done
  <2>1. AreMentions(<<>>) /\ \A name, value : ~HasTag(<<>>, name, value)
    BY NoTags DEF AreMentions, HasTag
  <2>2. \A name, value : On(<<>>, name, value) = <<>>
    BY NoTags DEF On
  <2>3. IsGathered(<<>>)
    BY <2>1, <2>2, NothingGathered DEF IsGathered, Represents
  <2>. QED BY <2>1, <2>3
<1>3. ASSUME NEW p \in Seq(T), NEW x \in T, p \in Done PROVE Append(p, x) \in Done
  <2>1. AreMentions(p) /\ IsGathered(p) /\ IsMention(x)
    BY <1>1, <1>3
  <2>2. Gathered(Append(p, x)) = WithMention(Gathered(p), x)
    BY GatheredAppend
  <2>3. IsGathered(Append(p, x))
    BY <2>1, <2>2, OneMore
  <2>4. AreMentions(Append(p, x))
    BY <2>1, AppendTags DEF AreMentions, IsMention
  <2>5. Append(p, x) \in Seq(T)
    OBVIOUS
  <2>. QED BY <2>3, <2>4, <2>5
<1>4. mentions \in Done
  <2>. HIDE DEF Done
  <2>. QED BY <1>1, <1>2, <1>3, EverySequence, Zenon
<1>. QED BY <1>4

-----------------------------------------------------------------------------
(* The tags of a thread tell nobody twice, and but for a chat message's    *)
(* quote nothing.                                                          *)
MENTION_NAMES == {"p", "q", "t"}

AtMostOne(s) == s = <<>> \/ \E x : s = << x >>

IsOnce(tags) == \A name \in MENTION_NAMES : \A value : AtMostOne(On(tags, name, value))

Apart(tags) == IsTags(tags) /\ \A tag \in ToSet(tags) : At(tag, 1) \notin MENTION_NAMES
Tells(tags) == IsTags(tags) /\ IsOnce(tags) /\ \A tag \in ToSet(tags) : At(tag, 1) # "q"

LEMMA NoneApart ==
  ASSUME NEW tags, Apart(tags), NEW name \in MENTION_NAMES, NEW value
  PROVE  On(tags, name, value) = <<>>
<1>1. IsTags(tags) /\ ~HasTag(tags, name, value)
  BY DEF Apart, HasTag
<1>. QED BY <1>1, OnMembers

LEMMA TellsApart ==
  ASSUME NEW a, NEW b, Apart(a), Tells(b)
  PROVE  Tells(a \o b)
<1>1. IsTags(a \o b) /\ ToSet(a \o b) = ToSet(a) \cup ToSet(b)
  BY ConcatTags DEF Apart, Tells
<1>2. \A tag \in ToSet(a \o b) : At(tag, 1) # "q"
  BY <1>1 DEF Apart, Tells, MENTION_NAMES
<1>3. ASSUME NEW name \in MENTION_NAMES, NEW value PROVE AtMostOne(On(a \o b, name, value))
  <2>1. On(a, name, value) = <<>>
    BY NoneApart
  <2>2. On(a \o b, name, value) = On(a, name, value) \o On(b, name, value)
    BY OnConcat DEF Apart, Tells
  <2>3. On(b, name, value) \in Seq(ToSet(On(b, name, value)))
    BY OnMembers DEF Tells, IsTags, IsSequence
  <2>4. <<>> \o On(b, name, value) = On(b, name, value)
    BY <2>3, ConcatEmptySeq
  <2>. QED BY <2>1, <2>2, <2>4 DEF Tells, IsOnce
<1>. QED BY <1>1, <1>2, <1>3 DEF Tells, IsOnce

LEMMA ApartTells == ASSUME NEW tags, Apart(tags) PROVE Tells(tags)
<1>1. IsOnce(tags)
  BY NoneApart DEF IsOnce, AtMostOne
<1>. QED BY <1>1 DEF Apart, Tells, MENTION_NAMES

LEMMA ApartTogether ==
  ASSUME NEW a, NEW b, Apart(a), Apart(b)
  PROVE  Apart(a \o b)
BY ConcatTags DEF Apart

LEMMA OneIsOnce == ASSUME NEW tag, IsSequence(tag) PROVE IsTags(<< tag >>) /\ IsOnce(<< tag >>)
<1>. DEFINE one == << tag >>
<1>1. IsTags(one) /\ \A S : Among(one, S) = IF tag \in S THEN one ELSE <<>>
  BY OneTag
<1>2. \A name, value : AtMostOne(On(one, name, value))
  <2>1. AtMostOne(one) /\ AtMostOne(<<>>)
    BY DEF AtMostOne
  <2>. HIDE DEF one
  <2>. QED BY <1>1, <2>1 DEF On
<1>. QED BY <1>1, <1>2 DEF IsOnce

LEMMA OneTells ==
  ASSUME NEW tag, IsSequence(tag), At(tag, 1) # "q"
  PROVE  Tells(<< tag >>)
<1>1. ToSet(<< tag >>) = {tag}
  BY OneTag
<1>. QED BY <1>1, OneIsOnce DEF Tells

LEMMA OneApart ==
  ASSUME NEW tag, IsSequence(tag), At(tag, 1) \notin MENTION_NAMES
  PROVE  Apart(<< tag >>)
<1>1. IsTags(<< tag >>) /\ ToSet(<< tag >>) = {tag}
  BY OneTag
<1>. QED BY <1>1 DEF Apart

(* Tags that differ in name or value are each told once.                   *)
Differ(tags) ==
  \A i, j \in 1..Len(tags) : At(tags[i], 1) = At(tags[j], 1) /\ At(tags[i], 2) = At(tags[j], 2) => i = j

LEMMA DifferOnce ==
  ASSUME NEW tags, IsTags(tags), Differ(tags), NEW name, NEW value
  PROVE  AtMostOne(On(tags, name, value))
<1>. DEFINE T    == ToSet(tags)
            Done == {p \in Seq(T) : IsTags(p) /\ (Differ(p) => AtMostOne(On(p, name, value)))}
<1>1. tags \in Seq(T) /\ \A x \in T : IsSequence(x)
  BY DEF IsTags, IsSequence
<1>. HIDE DEF T
<1>2. <<>> \in Done
  <2>1. IsTags(<<>>) /\ On(<<>>, name, value) = <<>>
    BY NoTags DEF On
  <2>. QED BY <2>1 DEF AtMostOne
<1>3. ASSUME NEW p \in Seq(T), NEW x \in T, p \in Done PROVE Append(p, x) \in Done
  <2>. DEFINE more == Append(p, x)
  <2>1. IsTags(p) /\ IsSequence(x) /\ IsTags(more)
    BY <1>1, <1>3, AppendTags
  <2>2. /\ Len(p) \in Nat /\ more \in Seq(T) /\ Len(more) = Len(p) + 1 /\ more[Len(p) + 1] = x
        /\ \A i \in 1..Len(p) : more[i] = p[i]
        /\ ToSet(p) = {p[i] : i \in 1..Len(p)}
    BY TypedSequence
  <2>3. On(more, name, value) =
          IF IsNaming(x, name, value) THEN Append(On(p, name, value), x) ELSE On(p, name, value)
    BY <2>1, OnAppend
  <2>. HIDE DEF more
  <2>4. ASSUME Differ(more) PROVE AtMostOne(On(more, name, value))
    <3>1. Differ(p)
      <4>1. \A i \in 1..Len(p) : i \in 1..Len(more) /\ more[i] = p[i]
        BY <2>2
      <4>. QED BY <2>4, <4>1 DEF Differ
    <3>2. ASSUME IsNaming(x, name, value) PROVE On(p, name, value) = <<>>
      <4>1. ASSUME NEW i \in 1..Len(p), At(p[i], 1) = name, At(p[i], 2) = value PROVE FALSE
        <5>1. i \in 1..Len(more) /\ Len(p) + 1 \in 1..Len(more) /\ i # Len(p) + 1
          BY <2>2
        <5>2. At(more[i], 1) = At(more[Len(p) + 1], 1) /\ At(more[i], 2) = At(more[Len(p) + 1], 2)
          BY <2>2, <3>2, <4>1 DEF IsNaming
        <5>. QED BY <2>4, <5>1, <5>2 DEF Differ
      <4>2. ~HasTag(p, name, value)
        BY <2>2, <4>1 DEF HasTag
      <4>. QED BY <2>1, <4>2, OnMembers
    <3>3. CASE IsNaming(x, name, value)
      <4>1. On(more, name, value) = Append(<<>>, x)
        BY <2>3, <3>2, <3>3
      <4>2. Append(<<>>, x) = << x >>
        OBVIOUS
      <4>. QED BY <4>1, <4>2 DEF AtMostOne
    <3>4. CASE ~IsNaming(x, name, value)
      BY <1>3, <2>3, <3>1, <3>4
    <3>. QED BY <3>3, <3>4
  <2>5. more \in Seq(T)
    BY <2>2
  <2>. QED BY <2>1, <2>4, <2>5 DEF more
<1>4. tags \in Done
  <2>. HIDE DEF Done
  <2>. QED BY <1>1, <1>2, <1>3, EverySequence, Zenon
<1>. QED BY <1>4

LEMMA PubkeysTell ==
  ASSUME NEW pubkeys, IsFiniteSet(pubkeys)
  PROVE  Tells(PubkeyTags(pubkeys))
<1>. DEFINE n       == Cardinality(pubkeys)
            inOrder == SetToSeq(pubkeys)
            written == PubkeyTags(pubkeys)
<1>1. n \in Nat /\ \E f \in [1..n -> pubkeys] : IsInjective(f)
  <2>1. n \in Nat /\ ExistsBijection(1..n, pubkeys)
    BY FS_CardinalityType
  <2>. HIDE DEF n
  <2>. QED BY <2>1 DEF ExistsBijection, Bijection, Injection, IsInjective
<1>2. inOrder \in [1..n -> pubkeys] /\ IsInjective(inOrder)
  BY <1>1 DEF SetToSeq
<1>3. written = [i \in DOMAIN inOrder |-> <<"p", inOrder[i]>>]
  BY DEF PubkeyTags
<1>. HIDE DEF n, inOrder, written
<1>4. \A i \in 1..n : written[i] = <<"p", inOrder[i]>> /\ At(written[i], 1) = "p" /\ At(written[i], 2) = inOrder[i]
  <2>. SUFFICES ASSUME NEW i \in 1..n
                PROVE  written[i] = <<"p", inOrder[i]>> /\ At(written[i], 1) = "p" /\ At(written[i], 2) = inOrder[i]
    OBVIOUS
  <2>1. written[i] = <<"p", inOrder[i]>>
    BY <1>2, <1>3
  <2>. QED BY <2>1, Slots
<1>5. DOMAIN written = 1..n
  BY <1>2, <1>3
<1>6. IsTags(written) /\ ToSet(written) = {<<"p", pubkey>> : pubkey \in pubkeys}
  BY EachToldOnce DEF written
<1>7. Len(written) = n
  <2>1. DOMAIN written = 1..Len(written) /\ Len(written) \in Nat
    BY <1>6, TypedSequence DEF IsTags, IsSequence
  <2>. QED BY <1>1, <1>5, <2>1
<1>8. Differ(written)
  BY <1>2, <1>4, <1>7 DEF Differ, IsInjective
<1>9. \A tag \in ToSet(written) : At(tag, 1) # "q"
  BY <1>6, Slots
<1>. QED BY <1>6, <1>8, <1>9, DifferOnce DEF Tells, IsOnce, written

LEMMA NotesTellOnce ==
  ASSUME NEW parent, IsEvent(parent), NEW hint \in Hints
  PROVE  Tells(NoteReplyTags(parent, hint))
<1>. DEFINE rootTag == InheritedRootTag(parent)
            notes   == NoteThreadTags(parent, hint, rootTag)
            who     == Participants(parent, rootTag)
            opening == <<"e", parent.id, hint, "root", parent.pubkey>>
            reply   == <<"e", parent.id, hint, "reply", parent.pubkey>>
<1>1. NoteReplyTags(parent, hint) = notes \o PubkeyTags(who)
  BY NoteReplies
<1>2. Tells(PubkeyTags(who))
  <2>1. IsFiniteSet(ExtractPubkeys(parent.tags))
    BY ToldAreFinite DEF IsEvent
  <2>2. /\ IsFiniteSet({parent.pubkey})
        /\ IsFiniteSet(IF rootTag # Null /\ Len(rootTag) > 4 THEN {rootTag[5]} ELSE {})
    BY FS_Singleton, FS_EmptySet
  <2>3. IsFiniteSet(who)
    <3>. HIDE DEF rootTag
    <3>. QED BY <2>1, <2>2, FS_Union DEF Participants
  <2>. HIDE DEF who
  <2>. QED BY <2>3, PubkeysTell
<1>3. Apart(notes)
  <2>1. IsSequence(opening) /\ At(opening, 1) = "e" /\ IsSequence(reply) /\ At(reply, 1) = "e"
    BY Tuples, Slots
  <2>2. rootTag # Null => IsSequence(rootTag) /\ At(rootTag, 1) = "e"
    <3>1. SUFFICES ASSUME rootTag # Null PROVE IsSequence(rootTag) /\ At(rootTag, 1) = "e"
      OBVIOUS
    <3>2. PICK id, relay, pubkey : rootTag = RootTagOf(id, relay, pubkey)
      BY <3>1, InheritedTags
    <3>. HIDE DEF rootTag
    <3>. QED BY <3>2, RootTags
  <2>3. notes = IF rootTag = Null THEN << opening >> ELSE << rootTag, reply >>
    BY DEF NoteThreadTags
  <2>4. "e" \notin MENTION_NAMES
    BY DEF MENTION_NAMES
  <2>. HIDE DEF rootTag, opening, reply, notes
  <2>5. CASE rootTag = Null
    BY <2>1, <2>3, <2>4, <2>5, OneApart
  <2>6. CASE rootTag # Null
    <3>1. IsTags(<< rootTag, reply >>) /\ ToSet(<< rootTag, reply >>) = {rootTag, reply}
      BY <2>1, <2>2, <2>6, TwoTags
    <3>2. notes = << rootTag, reply >>
      BY <2>3, <2>6
    <3>. QED BY <2>1, <2>2, <2>4, <2>6, <3>1, <3>2 DEF Apart
  <2>. QED BY <2>5, <2>6
<1>. HIDE DEF notes, who
<1>. QED BY <1>1, <1>2, <1>3, TellsApart

LEMMA ChannelsTellOnce ==
  ASSUME NEW parent, IsEvent(parent), NEW hint \in Hints
  PROVE  Tells(ChannelReplyTags(parent, hint))
<1>. DEFINE channel == IF Channel(parent) = Null THEN <<>> ELSE << Channel(parent) >>
            reply   == <<"e", parent.id, hint, "reply", parent.pubkey>>
            told    == WithHint(<<"p", parent.pubkey>>, hint)
<1>1. /\ ChannelReplyTags(parent, hint) = channel \o << reply, told >>
      /\ IsSequence(told) /\ At(told, 1) = "p"
  BY ChannelReplies
<1>2. IsSequence(reply) /\ At(reply, 1) = "e"
  BY Tuples, Slots
<1>3. "e" \notin MENTION_NAMES
  BY DEF MENTION_NAMES
<1>4. Apart(channel)
  <2>1. CASE Channel(parent) = Null
    BY <2>1, NoTags DEF Apart
  <2>2. CASE Channel(parent) # Null
    <3>1. PICK id, relay, pubkey : Channel(parent) = RootTagOf(id, relay, pubkey)
      BY <2>2, CopiedChannels
    <3>2. IsSequence(Channel(parent)) /\ At(Channel(parent), 1) = "e"
      BY <3>1, RootTags
    <3>3. channel = << Channel(parent) >>
      BY <2>2
    <3>. HIDE DEF channel
    <3>. QED BY <1>3, <3>2, <3>3, OneApart
  <2>. QED BY <2>1, <2>2
<1>. HIDE DEF channel, reply, told
<1>5. << reply, told >> = << reply >> \o << told >>
  BY Splits
<1>6. Tells(<< reply >> \o << told >>)
  <2>1. Apart(<< reply >>) /\ Tells(<< told >>)
    BY <1>1, <1>2, <1>3, OneApart, OneTells
  <2>. QED BY <2>1, TellsApart
<1>7. Tells(<< reply, told >>)
  BY <1>5, <1>6
<1>8. Tells(channel \o << reply, told >>)
  BY <1>4, <1>7, TellsApart
<1>. QED BY <1>1, <1>8

LEMMA LivesTellNobody ==
  ASSUME NEW parent, IsEvent(parent), NEW hint \in Hints
  PROVE  Apart(LiveActivityTags(parent) \o << <<"e", parent.id, hint, parent.pubkey>> >>)
<1>. DEFINE event == <<"e", parent.id, hint, parent.pubkey>>
            live  == LiveActivityTags(parent)
<1>1. IsSequence(event) /\ At(event, 1) = "e"
  BY Tuples, Slots
<1>2. {"a", "e"} \cap MENTION_NAMES = {}
  BY DEF MENTION_NAMES
<1>3. Apart(live)
  BY <1>2, LiveReplies DEF Apart
<1>. HIDE DEF event, live
<1>4. Apart(<< event >>)
  BY <1>1, <1>2, OneApart
<1>5. Apart(live \o << event >>)
  BY <1>3, <1>4, ApartTogether
<1>. QED BY <1>5 DEF event, live

LEMMA SplitsLast == ASSUME NEW x, NEW y, NEW z PROVE << x, y, z >> = << x, y >> \o << z >>
<1>. DEFINE two == << x, y >>
            T   == {x, y, z}
<1>1. << x, y, z >> = Append(two, z)
  OBVIOUS
<1>2. two \in Seq(T) /\ z \in T
  OBVIOUS
<1>. HIDE DEF two, T
<1>3. Append(two, z) = two \o << z >>
  BY <1>2, AppendIsConcat
<1>. QED BY <1>1, <1>3 DEF two

LEMMA CommentsTellOnce ==
  ASSUME NEW parent, IsEvent(parent), NEW hint \in Hints
  PROVE  Tells(CommentRootScope(parent, hint) \o ParentItemTags(parent, hint))
<1>. DEFINE ref   == ReplyTargetRef(parent)
            place == <<"a", FormatRef(ref), hint>>
            first == IF ref.type = "address" THEN << place >> ELSE <<>>
            event == <<"e", parent.id, hint, parent.pubkey>>
            kind  == <<"k", DecimalText[parent.kind]>>
            told  == WithHint(<<"p", parent.pubkey>>, hint)
            scope == CommentRootScope(parent, hint)
<1>1. ParentItemTags(parent, hint) = first \o << event, kind, told >>
  BY DEF ParentItemTags
<1>2. IsSequence(place) /\ At(place, 1) = "a" /\ IsSequence(event) /\ At(event, 1) = "e"
      /\ IsSequence(kind) /\ At(kind, 1) = "k"
  BY Tuples, Slots
<1>3. IsSequence(told) /\ At(told, 1) = "p"
  BY HintedNames DEF Names
<1>4. Apart(scope)
  <2>1. AreCommentTags(scope, ROOT_SCOPE_TAG_NAMES)
    BY CommentScopes
  <2>2. ROOT_SCOPE_TAG_NAMES \cap MENTION_NAMES = {}
    BY DEF ROOT_SCOPE_TAG_NAMES, MENTION_NAMES
  <2>. HIDE DEF scope
  <2>. QED BY <2>1, <2>2 DEF AreCommentTags, Names, Apart
<1>5. {"a", "e", "k"} \cap MENTION_NAMES = {}
  BY DEF MENTION_NAMES
<1>. HIDE DEF place, event, kind, told, scope
<1>6. Apart(first)
  <2>1. Apart(<< place >>)
    BY <1>2, <1>5, OneApart
  <2>2. Apart(<<>>)
    BY NoTags DEF Apart
  <2>. QED BY <2>1, <2>2
<1>. HIDE DEF first
<1>7. << event, kind, told >> = << event, kind >> \o << told >>
  BY SplitsLast
<1>8. IsTags(<< event, kind >>) /\ ToSet(<< event, kind >>) = {event, kind}
  BY <1>2, TwoTags
<1>9. Apart(<< event, kind >>)
  BY <1>2, <1>5, <1>8 DEF Apart
<1>10. Tells(<< told >>)
  BY <1>3, OneTells
<1>11. Tells(<< event, kind, told >>)
  <2>1. Tells(<< event, kind >> \o << told >>)
    BY <1>9, <1>10, TellsApart
  <2>. QED BY <1>7, <2>1
<1>12. Tells(first \o << event, kind, told >>)
  BY <1>6, <1>11, TellsApart
<1>13. Tells(ParentItemTags(parent, hint))
  BY <1>1, <1>12
<1>14. Tells(scope \o ParentItemTags(parent, hint))
  BY <1>4, <1>13, TellsApart
<1>. QED BY <1>14 DEF scope

LEMMA RepliesTellOnce ==
  ASSUME NEW parent, NEW hint, MayAnswer(parent, hint)
  PROVE  /\ IsTags(ReplyTags(parent, hint)) /\ IsOnce(ReplyTags(parent, hint))
         /\ ReplyKind(parent) # KIND_CHAT_MESSAGE => Tells(ReplyTags(parent, hint))
<1>1. CASE IsExternalContent(parent)
  <2>1. IsExternal(parent) /\ IsNamed(parent)
    BY <1>1, Parents DEF MayAnswer
  <2>2. ReplyTags(parent, hint) = ExternalScopeTags(parent)
    BY <1>1 DEF ReplyTags
  <2>3. AreCommentTags(ExternalScopeTags(parent), {"I", "K", "i", "k"})
    BY <2>1, ExternalScopes
  <2>4. {"I", "K", "i", "k"} \cap MENTION_NAMES = {}
    BY DEF MENTION_NAMES
  <2>5. Apart(ExternalScopeTags(parent))
    BY <2>3, <2>4 DEF AreCommentTags, Names, Apart
  <2>. QED BY <2>2, <2>5, ApartTells DEF Tells
<1>2. CASE ~IsExternalContent(parent)
  <2>1. IsEvent(parent) /\ hint \in Hints
    BY <1>2, Parents DEF MayAnswer
  <2>2. CASE parent.kind \notin OwnKinds
    <3>1. ReplyTags(parent, hint) = CommentRootScope(parent, hint) \o ParentItemTags(parent, hint)
      BY <1>2, <2>2 DEF ReplyTags
    <3>. QED BY <2>1, <3>1, CommentsTellOnce DEF Tells
  <2>3. CASE parent.kind = KIND_CHAT_MESSAGE
    <3>. DEFINE quote == <<"q", parent.id, hint, parent.pubkey>>
    <3>1. ReplyTags(parent, hint) = << quote >>
      BY <1>2, <2>3, EachInItsOwnKind DEF ReplyTags, OwnKinds
    <3>2. IsSequence(quote)
      BY Tuples
    <3>3. ReplyKind(parent) = KIND_CHAT_MESSAGE
      BY <1>2, <2>3 DEF ReplyKind, OwnKinds
    <3>. HIDE DEF quote
    <3>. QED BY <3>1, <3>2, <3>3, OneIsOnce
  <2>4. CASE parent.kind \in OwnKinds \ {KIND_CHAT_MESSAGE}
    <3>1. ReplyTags(parent, hint) = OwnKindReplyTags(parent, hint)
      BY <1>2, <2>4 DEF ReplyTags
    <3>2. CASE parent.kind = KIND_TEXT_NOTE
      BY <2>1, <3>1, <3>2, EachInItsOwnKind, NotesTellOnce DEF Tells
    <3>3. CASE parent.kind = KIND_CHANNEL_MESSAGE
      BY <2>1, <3>1, <3>3, EachInItsOwnKind, ChannelsTellOnce DEF Tells
    <3>4. CASE parent.kind = KIND_LIVE_CHAT_MESSAGE
      <4>1. Apart(OwnKindReplyTags(parent, hint))
        BY <2>1, <3>4, EachInItsOwnKind, LivesTellNobody
      <4>. QED BY <3>1, <4>1, ApartTells DEF Tells
    <3>. QED BY <2>4, <3>2, <3>3, <3>4 DEF OwnKinds
  <2>. QED BY <2>2, <2>3, <2>4
<1>. QED BY <1>1, <1>2

-----------------------------------------------------------------------------
(* What the content mentions is tagged once beside the thread's tags.      *)
LEMMA OnBeside ==
  ASSUME NEW content \in Contents, NEW tags, IsTags(tags), NEW name, NEW value
  PROVE  LET beside   == ContentTagsBeside(tags, content)
             mentions == Mentions(content)
         IN  IF HasTag(tags, name, value) THEN On(beside, name, value) = <<>>
             ELSE Represents(On(beside, name, value), mentions, name, value)
<1>. DEFINE mentions == Mentions(content)
            gathered == Gathered(mentions)
            New      == {tag \in ToSet(gathered) : ~HasTag(tags, tag[1], tag[2])}
            beside   == ContentTagsBeside(tags, content)
<1>1. beside = Among(gathered, New)
  BY DEF ContentTagsBeside
<1>2. IsGathered(mentions)
  BY ContentsAssumption, ContentsMention, AllGathered
<1>. HIDE DEF mentions
<1>3. /\ AreMentions(gathered) /\ IsTags(gathered)
      /\ Represents(On(gathered, name, value), mentions, name, value)
  BY <1>2 DEF IsGathered, AreMentions
<1>. HIDE DEF gathered, beside
<1>4. \A tag \in ToSet(gathered) : IsNaming(tag, name, value) => tag[1] = name /\ tag[2] = value
  BY <1>3, MentionsName DEF AreMentions
<1>5. CASE HasTag(tags, name, value)
  <2>1. \A tag \in ToSet(gathered) : IsNaming(tag, name, value) => tag \notin New
    BY <1>4, <1>5
  <2>. HIDE DEF New
  <2>2. On(beside, name, value) = <<>>
    BY <1>1, <1>3, <2>1, OnAmong
  <2>. QED BY <1>5, <2>2 DEF beside
<1>6. CASE ~HasTag(tags, name, value)
  <2>1. \A tag \in ToSet(gathered) : IsNaming(tag, name, value) => tag \in New
    BY <1>4, <1>6
  <2>. HIDE DEF New
  <2>2. On(beside, name, value) = On(gathered, name, value)
    BY <1>1, <1>3, <2>1, OnAmong
  <2>. QED BY <1>3, <1>6, <2>2 DEF beside, mentions
<1>. QED BY <1>5, <1>6

LEMMA ValuesTagged ==
  ASSUME NEW tags, NEW name, NEW value, IsTags(tags)
  PROVE  value \in ExtractTagValues(tags, name) <=> value # Null /\ HasTag(tags, name, value)
<1>1. ExtractTagValues(tags, name) = ValuesIn(ToSet(tags), name)
  BY ReadAsSets
<1>. QED BY <1>1 DEF ValuesIn, Under, HasTag

LEMMA MentionsAreTagged ==
  ASSUME NEW parent, NEW hint, MayAnswer(parent, hint), NEW content \in Contents,
         NEW built, built = WithContentTags(ReplyTags(parent, hint), content),
         NEW mention \in ToSet(Mentions(content))
  PROVE  LET named == On(built, mention[1], mention[2]) IN
         /\ Len(named) = 1
         /\ mention[1] = "q" /\ ReplyKind(parent) # KIND_CHAT_MESSAGE =>
              \A slot \in {3, 4} : Slot(named[1], slot) = FirstHint(Mentions(content), "q", mention[2], slot)
<1>. DEFINE tags     == ReplyTags(parent, hint)
            mentions == Mentions(content)
            beside   == ContentTagsBeside(tags, content)
            name     == mention[1]
            value    == mention[2]
            named    == On(built, name, value)
<1>1. IsTags(tags) /\ IsTags(beside) /\ built = tags \o beside
  BY BuiltTags DEF AreMentions
<1>2. /\ IsOnce(tags)
      /\ ReplyKind(parent) # KIND_CHAT_MESSAGE => Tells(tags)
  BY RepliesTellOnce
<1>3. IsMention(mention) /\ name \in MENTION_NAMES /\ HasTag(mentions, name, value)
  <2>1. IsMention(mention)
    BY ContentsAssumption, ContentsMention DEF AreMentions
  <2>2. At(mention, 1) = name /\ At(mention, 2) = value
    BY <2>1, MentionsName
  <2>3. HasTag(mentions, name, value)
    <3>. HIDE DEF mentions, name, value
    <3>1. mention \in ToSet(mentions)
      BY DEF mentions
    <3>. QED BY <2>2, <3>1 DEF HasTag
  <2>. QED BY <2>1, <2>3 DEF IsMention, MENTION_NAMES
<1>4. IF HasTag(tags, name, value) THEN On(beside, name, value) = <<>>
      ELSE Represents(On(beside, name, value), mentions, name, value)
  <2>. HIDE DEF tags, name, value
  <2>. QED BY <1>1, OnBeside
<1>. HIDE DEF tags, mentions, beside, name, value
<1>5. named = On(tags, name, value) \o On(beside, name, value)
  BY <1>1, OnConcat
<1>6. CASE HasTag(tags, name, value)
  <2>1. On(tags, name, value) # <<>>
    BY <1>1, <1>6, OnMembers
  <2>2. AtMostOne(On(tags, name, value))
    BY <1>2, <1>3 DEF IsOnce
  <2>3. PICK x : On(tags, name, value) = << x >>
    BY <2>1, <2>2 DEF AtMostOne
  <2>4. On(tags, name, value) \o <<>> = On(tags, name, value)
    <3>1. << x >> \in Seq({x})
      OBVIOUS
    <3>. QED BY <2>3, <3>1, ConcatEmptySeq
  <2>5. named = << x >>
    BY <1>4, <1>5, <1>6, <2>3, <2>4
  <2>. HIDE DEF named
  <2>6. name = "q" => ReplyKind(parent) = KIND_CHAT_MESSAGE
    BY <1>2, <1>6 DEF Tells, HasTag
  <2>. QED BY <2>5, <2>6 DEF named, name, value
<1>7. CASE ~HasTag(tags, name, value)
  <2>1. On(tags, name, value) = <<>>
    BY <1>1, <1>7, OnMembers
  <2>2. PICK tag : /\ On(beside, name, value) = << tag >> /\ IsMention(tag)
                   /\ \A slot \in {3, 4} : Slot(tag, slot) = FirstHint(mentions, name, value, slot)
    BY <1>3, <1>4, <1>7 DEF Represents
  <2>3. <<>> \o << tag >> = << tag >>
    <3>1. << tag >> \in Seq({tag})
      OBVIOUS
    <3>. QED BY <3>1, ConcatEmptySeq
  <2>4. named = << tag >>
    BY <1>5, <2>1, <2>2, <2>3
  <2>. HIDE DEF named
  <2>5. Len(named) = 1 /\ named[1] = tag
    BY <2>4
  <2>. QED BY <2>2, <2>5 DEF named, name, value, mentions
<1>. QED BY <1>6, <1>7

LEMMA QuotesAreMentions ==
  ASSUME NEW parent, NEW hint, MayAnswer(parent, hint), NEW content \in Contents,
         ReplyKind(parent) # KIND_CHAT_MESSAGE
  PROVE  ExtractTagValues(WithContentTags(ReplyTags(parent, hint), content), "q")
           = ExtractTagValues(Mentions(content), "q")
<1>. DEFINE tags     == ReplyTags(parent, hint)
            mentions == Mentions(content)
            beside   == ContentTagsBeside(tags, content)
            built    == WithContentTags(tags, content)
<1>1. IsTags(tags) /\ IsTags(beside) /\ built = tags \o beside
  BY BuiltTags DEF AreMentions
<1>2. Tells(tags)
  BY RepliesTellOnce
<1>3. IsTags(mentions)
  BY ContentsAssumption, ContentsMention DEF AreMentions
<1>4. ASSUME NEW value
      PROVE  IF HasTag(tags, "q", value) THEN On(beside, "q", value) = <<>>
             ELSE Represents(On(beside, "q", value), mentions, "q", value)
  <2>. HIDE DEF tags
  <2>. QED BY <1>1, OnBeside
<1>. HIDE DEF tags, mentions, beside, built
<1>5. IsTags(built) /\ ToSet(built) = ToSet(tags) \cup ToSet(beside)
  BY <1>1, ConcatTags
<1>6. ASSUME NEW value PROVE HasTag(built, "q", value) <=> HasTag(mentions, "q", value)
  <2>1. ~HasTag(tags, "q", value)
    BY <1>2 DEF Tells, HasTag
  <2>2. HasTag(built, "q", value) <=> HasTag(beside, "q", value)
    BY <1>5, <2>1 DEF HasTag
  <2>3. Represents(On(beside, "q", value), mentions, "q", value)
    BY <1>4, <2>1
  <2>4. On(beside, "q", value) = <<>> <=> ~HasTag(mentions, "q", value)
    BY <2>3 DEF Represents
  <2>. QED BY <1>1, <2>2, <2>4, OnMembers
<1>7. ASSUME NEW value PROVE value \in ExtractTagValues(built, "q") <=> value \in ExtractTagValues(mentions, "q")
  BY <1>3, <1>5, <1>6, ValuesTagged
<1>. QED BY <1>7 DEF built, tags, mentions

-----------------------------------------------------------------------------
(* Sequences of any elements, joined.                                      *)
LEMMA Joined ==
  ASSUME NEW a, NEW b, IsSequence(a), IsSequence(b)
  PROVE  /\ IsSequence(a \o b) /\ ToSet(a \o b) = ToSet(a) \cup ToSet(b)
         /\ \A S : Among(a \o b, S) = Among(a, S) \o Among(b, S)
<1>. DEFINE T == ToSet(a) \cup ToSet(b)
<1>1. a \in Seq(T) /\ b \in Seq(T)
  BY Wider DEF IsSequence
<1>. HIDE DEF T
<1>2. a \o b \in Seq(T) /\ ToSet(a \o b) = ToSet(a) \cup ToSet(b)
  BY <1>1, ConcatSet
<1>3. IsSequence(a \o b)
  BY <1>2, TypedSequence
<1>4. \A S : Among(a \o b, S) = Among(a, S) \o Among(b, S)
  BY <1>1, AmongConcat
<1>. QED BY <1>2, <1>3, <1>4

LEMMA Alone ==
  /\ IsSequence(<<>>) /\ ToSet(<<>>) = {}
  /\ \A x : IsSequence(<< x >>) /\ ToSet(<< x >>) = {x}
<1>1. ASSUME NEW x PROVE IsSequence(<< x >>) /\ ToSet(<< x >>) = {x}
  <2>. DEFINE one == << x >>
  <2>1. one = Append(<<>>, x) /\ <<>> \in Seq({x})
    OBVIOUS
  <2>2. one \in Seq({x})
    OBVIOUS
  <2>. HIDE DEF one
  <2>3. ToSet(one) = ToSet(<<>>) \cup {x}
    BY <2>1, AppendSet
  <2>. QED BY <2>2, <2>3, NoTags, TypedSequence DEF one
<1>. QED BY <1>1, NoTags DEF IsTags

(* Once, value by value.                                                   *)
LEMMA OnceExists ==
  ASSUME NEW T, NEW s \in Seq(T)
  PROVE  \E f : /\ Once(s) = f[Len(s)] /\ f[0] = <<>>
                /\ \A i \in 1..Len(s) :
                     f[i] = IF s[i] \in ToSet(f[i - 1]) THEN f[i - 1] ELSE Append(f[i - 1], s[i])
<1>. DEFINE Add(seen, x) == IF x \in ToSet(seen) THEN seen ELSE Append(seen, x)
            Step(f, i)   == IF i = 0 THEN <<>> ELSE Add(f[i - 1], s[i])
            IsUpTo(f, n) == f = [i \in 0..n |-> Step(f, i)]
            upTo         == CHOOSE f : IsUpTo(f, Len(s))
            Good         == {n \in 0..Len(s) : \E f : IsUpTo(f, n)}
<1>1. Len(s) \in Nat /\ DOMAIN s = 1..Len(s) /\ \A i \in 1..Len(s) : s[i] \in T
  OBVIOUS
<1>0. Once(s) = upTo[Len(s)]
  BY DEF Once
<1>. HIDE DEF Add
<1>2. 0 \in Good
  <2>. DEFINE f == [i \in 0..0 |-> <<>>]
  <2>1. IsUpTo(f, 0)
    OBVIOUS
  <2>. HIDE DEF IsUpTo, f
  <2>. QED BY <1>1, <2>1
<1>3. ASSUME NEW n \in 1..Len(s), n - 1 \in Good PROVE n \in Good
  <2>1. PICK f : IsUpTo(f, n - 1)
    <3>. HIDE DEF IsUpTo
    <3>. QED BY <1>3
  <2>. DEFINE g == [i \in 0..n |-> IF i < n THEN f[i] ELSE Step(f, n)]
  <2>2. n \in Nat /\ \A i \in 0..(n - 1) : g[i] = f[i] /\ f[i] = Step(f, i)
    <3>1. n \in Nat
      BY <1>1
    <3>2. \A i \in 0..(n - 1) : g[i] = f[i]
      BY <3>1
    <3>3. \A i \in 0..(n - 1) : f[i] = Step(f, i)
      <4>. HIDE DEF Step
      <4>. QED BY <2>1
    <3>. QED BY <3>1, <3>2, <3>3
  <2>3. \A i \in 0..n : g[i] = Step(f, i)
    <3>1. g[n] = Step(f, n)
      <4>. HIDE DEF Step
      <4>. QED BY <2>2
    <3>2. \A i \in 0..n : i = n \/ i \in 0..(n - 1)
      BY <2>2
    <3>. HIDE DEF Step, g
    <3>. QED BY <2>2, <3>1, <3>2
  <2>4. \A i \in 0..n : Step(g, i) = Step(f, i)
    BY <1>1, <2>2
  <2>5. IsUpTo(g, n)
    BY <2>3, <2>4
  <2>. HIDE DEF g, IsUpTo
  <2>. QED BY <1>1, <2>5
<1>4. IsUpTo(upTo, Len(s))
  <2>1. Len(s) \in Good
    <3>. HIDE DEF Good
    <3>1. 0..Len(s) \subseteq Good
      BY <1>1, <1>2, <1>3, AllIndices, Zenon
    <3>. QED BY <1>1, <3>1
  <2>. HIDE DEF IsUpTo
  <2>. QED BY <2>1
<1>. HIDE DEF upTo
<1>6. \A i \in 0..Len(s) : upTo[i] = Step(upTo, i)
  BY <1>4
<1>7. upTo[0] = <<>> /\ \A i \in 1..Len(s) : upTo[i] = Add(upTo[i - 1], s[i])
  BY <1>1, <1>6
<1>. QED BY <1>0, <1>7 DEF Add

LEMMA OnceAppend ==
  ASSUME NEW T, NEW s \in Seq(T), NEW x \in T
  PROVE  Once(Append(s, x)) = IF x \in ToSet(Once(s)) THEN Once(s) ELSE Append(Once(s), x)
<1>. DEFINE t            == Append(s, x)
            Add(seen, y) == IF y \in ToSet(seen) THEN seen ELSE Append(seen, y)
<1>1. /\ Len(s) \in Nat /\ t \in Seq(T) /\ Len(t) = Len(s) + 1
      /\ \A i \in 1..Len(s) : t[i] = s[i]
      /\ t[Len(t)] = x
  OBVIOUS
<1>2. PICK f : Once(s) = f[Len(s)] /\ f[0] = <<>> /\ \A i \in 1..Len(s) : f[i] = Add(f[i - 1], s[i])
  BY OnceExists
<1>. HIDE DEF t
<1>3. PICK g : Once(t) = g[Len(t)] /\ g[0] = <<>> /\ \A i \in 1..Len(t) : g[i] = Add(g[i - 1], t[i])
  BY <1>1, OnceExists
<1>. DEFINE Same == {i \in 0..Len(s) : f[i] = g[i]}
<1>. HIDE DEF Add
<1>4. 0 \in Same
  BY <1>1, <1>2, <1>3
<1>5. ASSUME NEW i \in 1..Len(s), i - 1 \in Same PROVE i \in Same
  <2>1. i \in 1..Len(t)
    BY <1>1
  <2>2. f[i] = Add(f[i - 1], s[i]) /\ g[i] = Add(g[i - 1], t[i])
    BY <1>2, <1>3, <2>1
  <2>3. f[i - 1] = g[i - 1] /\ t[i] = s[i] /\ i \in 0..Len(s)
    BY <1>1, <1>5
  <2>. QED BY <2>2, <2>3
<1>6. f[Len(s)] = g[Len(s)]
  <2>. HIDE DEF Same
  <2>1. 0..Len(s) \subseteq Same
    BY <1>1, <1>4, <1>5, AllIndices, Zenon
  <2>. QED BY <1>1, <2>1 DEF Same
<1>7. g[Len(t)] = Add(g[Len(s)], x)
  <2>1. Len(t) \in 1..Len(t) /\ Len(t) - 1 = Len(s)
    BY <1>1
  <2>. QED BY <1>1, <1>3, <2>1
<1>8. Once(t) = Add(Once(s), x)
  BY <1>2, <1>3, <1>6, <1>7
<1>. QED BY <1>8 DEF Add, t

LEMMA OnceOfNothing == Once(<<>>) = <<>>
<1>1. <<>> \in Seq({}) /\ Len(<<>>) = 0
  OBVIOUS
<1>2. PICK f : Once(<<>>) = f[0] /\ f[0] = <<>>
  BY <1>1, OnceExists, Zenon
<1>. QED BY <1>2

LEMMA OnceTwice ==
  ASSUME NEW T, NEW s \in Seq(T)
  PROVE  Once(s) \in Seq(T) /\ Once(Once(s)) = Once(s)
<1>. DEFINE Done == {p \in Seq(T) : Once(p) \in Seq(T) /\ Once(Once(p)) = Once(p)}
<1>1. <<>> \in Done
  <2>1. <<>> \in Seq(T)
    OBVIOUS
  <2>2. Once(<<>>) \in Seq(T) /\ Once(Once(<<>>)) = Once(<<>>)
    BY <2>1, OnceOfNothing, Zenon
  <2>. QED BY <2>1, <2>2, Zenon
<1>2. ASSUME NEW p \in Seq(T), NEW x \in T, p \in Done PROVE Append(p, x) \in Done
  <2>1. Append(p, x) \in Seq(T)
    OBVIOUS
  <2>2. Once(p) \in Seq(T) /\ Once(Once(p)) = Once(p)
    BY <1>2
  <2>3. CASE x \in ToSet(Once(p))
    <3>1. Once(Append(p, x)) = Once(p)
      BY <2>3, OnceAppend
    <3>. QED BY <2>1, <2>2, <3>1
  <2>4. CASE x \notin ToSet(Once(p))
    <3>. DEFINE o == Once(p)
    <3>1. Once(Append(p, x)) = Append(o, x)
      BY <2>4, OnceAppend
    <3>2. o \in Seq(T) /\ Once(o) = o /\ x \notin ToSet(o)
      BY <2>2, <2>4
    <3>. HIDE DEF o
    <3>3. Once(Append(o, x)) = Append(o, x)
      BY <3>2, OnceAppend
    <3>4. Append(o, x) \in Seq(T)
      BY <3>2
    <3>. QED BY <2>1, <3>1, <3>3, <3>4
  <2>. QED BY <2>3, <2>4
<1>3. s \in Done
  <2>. HIDE DEF Done
  <2>. QED BY <1>1, <1>2, EverySequence, Zenon
<1>. QED BY <1>3

-----------------------------------------------------------------------------
(* What the encoders write is what the decoder reads.                      *)

(* Null is no kind, no sequence and no record.                             *)
NullIsNothing ==
  /\ \A kind : IsValidKind(kind) => kind # Null
  /\ \A f : f = [x \in DOMAIN f |-> f[x]] => f # Null

CanonicalRelays == {url \in DOMAIN RelayUrlOf : RelayUrlOf[url] = url}

LEMMA CanonicalRelaysParse == \A url \in CanonicalRelays : ParseRelayUrl(url) = url /\ url # Null
BY NothingAssumption DEF CanonicalRelays, ParseRelayUrl

LEMMA NullValues ==
  ASSUME NullIsNothing
  PROVE  /\ \A value : [value |-> value] # Null
         /\ \A s : IsSequence(s) => s # Null
         /\ \A pubkey : [type |-> "npub", pubkey |-> pubkey] # Null
         /\ \A id, pubkey : [type |-> "note", eventId |-> id, pubkey |-> pubkey] # Null
         /\ \A pubkey, relays : [type |-> "nprofile", pubkey |-> pubkey, relays |-> relays] # Null
         /\ \A id, relays, pubkey, kind :
              [type |-> "nevent", eventId |-> id, relays |-> relays, pubkey |-> pubkey, kind |-> kind] # Null
         /\ \A address, pubkey, relays :
              [type |-> "naddr", address |-> address, pubkey |-> pubkey, relays |-> relays] # Null
<1>1. \A f : f = [x \in DOMAIN f |-> f[x]] => f # Null
  BY DEF NullIsNothing
<1>2. ASSUME NEW value PROVE [value |-> value] # Null
  <2>. DEFINE f == [value |-> value]
  <2>1. f = [x \in DOMAIN f |-> f[x]]
    OBVIOUS
  <2>. HIDE DEF f
  <2>. QED BY <1>1, <2>1 DEF f
<1>3. ASSUME NEW s, IsSequence(s) PROVE s # Null
  <2>1. s = [x \in DOMAIN s |-> s[x]]
    BY <1>3 DEF IsSequence
  <2>. QED BY <1>1, <2>1
<1>4. ASSUME NEW pubkey PROVE [type |-> "npub", pubkey |-> pubkey] # Null
  <2>. DEFINE f == [type |-> "npub", pubkey |-> pubkey]
  <2>1. f = [x \in DOMAIN f |-> f[x]]
    OBVIOUS
  <2>. HIDE DEF f
  <2>. QED BY <1>1, <2>1 DEF f
<1>5. ASSUME NEW id, NEW pubkey PROVE [type |-> "note", eventId |-> id, pubkey |-> pubkey] # Null
  <2>. DEFINE f == [type |-> "note", eventId |-> id, pubkey |-> pubkey]
  <2>1. f = [x \in DOMAIN f |-> f[x]]
    OBVIOUS
  <2>. HIDE DEF f
  <2>. QED BY <1>1, <2>1 DEF f
<1>6. ASSUME NEW pubkey, NEW relays PROVE [type |-> "nprofile", pubkey |-> pubkey, relays |-> relays] # Null
  <2>. DEFINE f == [type |-> "nprofile", pubkey |-> pubkey, relays |-> relays]
  <2>1. f = [x \in DOMAIN f |-> f[x]]
    OBVIOUS
  <2>. HIDE DEF f
  <2>. QED BY <1>1, <2>1 DEF f
<1>7. ASSUME NEW id, NEW relays, NEW pubkey, NEW kind
      PROVE  [type |-> "nevent", eventId |-> id, relays |-> relays, pubkey |-> pubkey, kind |-> kind] # Null
  <2>. DEFINE f == [type |-> "nevent", eventId |-> id, relays |-> relays, pubkey |-> pubkey, kind |-> kind]
  <2>1. f = [x \in DOMAIN f |-> f[x]]
    OBVIOUS
  <2>. HIDE DEF f
  <2>. QED BY <1>1, <2>1 DEF f
<1>8. ASSUME NEW address, NEW pubkey, NEW relays
      PROVE  [type |-> "naddr", address |-> address, pubkey |-> pubkey, relays |-> relays] # Null
  <2>. DEFINE f == [type |-> "naddr", address |-> address, pubkey |-> pubkey, relays |-> relays]
  <2>1. f = [x \in DOMAIN f |-> f[x]]
    OBVIOUS
  <2>. HIDE DEF f
  <2>. QED BY <1>1, <2>1 DEF f
<1>. QED BY <1>2, <1>3, <1>4, <1>5, <1>6, <1>7, <1>8

(* The relay records of an entity, and what is read of them.               *)
LEMMA RelayRecordsTyped ==
  ASSUME NEW relays \in Seq(CanonicalRelays)
  PROVE  /\ IsSequence(RelayRecords(relays)) /\ DOMAIN RelayRecords(relays) = DOMAIN Once(relays)
         /\ \A i \in DOMAIN Once(relays) : RelayRecords(relays)[i].value.is = Once(relays)[i]
         /\ \A r \in ToSet(RelayRecords(relays)) :
              r.type = TLV_RELAY /\ ParseRelayUrl(DecodeUtf8(r.value)) # Null
<1>. DEFINE once    == Once(relays)
            records == [i \in DOMAIN once |-> TlvRecord(TLV_RELAY, TextValue(once[i]))]
<1>1. once \in Seq(CanonicalRelays)
  BY OnceTwice
<1>2. RelayRecords(relays) = records
  BY DEF RelayRecords
<1>. HIDE DEF once
<1>3. Len(once) \in Nat /\ DOMAIN once = 1..Len(once) /\ \A i \in 1..Len(once) : once[i] \in CanonicalRelays
  BY <1>1
<1>4. \A i \in 1..Len(once) :
        /\ records[i].type = TLV_RELAY /\ records[i].value.is = once[i]
        /\ ParseRelayUrl(DecodeUtf8(records[i].value)) # Null
  BY <1>3, CanonicalRelaysParse DEF TlvRecord, TextValue, DecodeUtf8
<1>. DEFINE All == {records[i] : i \in 1..Len(once)}
<1>5. records \in [1..Len(once) -> All]
  BY <1>3
<1>6. \A r \in All : r.type = TLV_RELAY /\ ParseRelayUrl(DecodeUtf8(r.value)) # Null
  <2>. HIDE DEF records
  <2>. QED BY <1>4
<1>. HIDE DEF All, records
<1>7. records \in Seq(All)
  BY <1>3, <1>5, SeqDef
<1>8. IsSequence(records) /\ ToSet(records) \subseteq All /\ DOMAIN records = DOMAIN once
  BY <1>3, <1>5, <1>7, TypedSequence
<1>. QED BY <1>2, <1>3, <1>4, <1>6, <1>8 DEF once

ValuesAmong(records, type) == {r.value : r \in {x \in records : x.type = type}}

EntityRecords(special, relays, rest) == (<< special >> \o RelayRecords(relays)) \o rest

NoRelays(special, rest) ==
  special.type # TLV_RELAY /\ IsSequence(rest) /\ \A r \in ToSet(rest) : r.type # TLV_RELAY

LEMMA RelaysReadBack ==
  ASSUME NEW relays \in Seq(CanonicalRelays), NEW special, NEW rest, NoRelays(special, rest),
         NEW records, records = EntityRecords(special, relays, rest)
  PROVE  /\ TlvExtractRelays(records) = Once(relays) /\ IsSequence(records)
         /\ \A type : type # TLV_RELAY =>
              ValuesOf(records, type) = ValuesAmong({special} \cup ToSet(rest), type)
<1>1. special.type # TLV_RELAY /\ IsSequence(rest) /\ \A r \in ToSet(rest) : r.type # TLV_RELAY
  BY DEF NoRelays
<1>. DEFINE once   == Once(relays)
            hinted == RelayRecords(relays)
            one    == << special >>
            stated == {r \in ToSet(records) : r.type = TLV_RELAY /\ ParseRelayUrl(DecodeUtf8(r.value)) # Null}
            hints  == Among(records, stated)
<1>2. /\ IsSequence(hinted) /\ DOMAIN hinted = DOMAIN once
      /\ \A i \in DOMAIN once : hinted[i].value.is = once[i]
      /\ \A r \in ToSet(hinted) : r.type = TLV_RELAY /\ ParseRelayUrl(DecodeUtf8(r.value)) # Null
  BY RelayRecordsTyped
<1>3. once \in Seq(CanonicalRelays) /\ Once(once) = once
  BY OnceTwice
<1>4. IsSequence(one) /\ ToSet(one) = {special}
  BY Alone
<1>. HIDE DEF hinted, one, once
<1>5. /\ IsSequence(one \o hinted) /\ ToSet(one \o hinted) = ToSet(one) \cup ToSet(hinted)
      /\ \A S : Among(one \o hinted, S) = Among(one, S) \o Among(hinted, S)
  BY <1>2, <1>4, Joined
<1>6. records = (one \o hinted) \o rest
  BY DEF one, hinted, EntityRecords
<1>. DEFINE front == one \o hinted
<1>. HIDE DEF front
<1>7. /\ IsSequence(front \o rest) /\ ToSet(front \o rest) = ToSet(front) \cup ToSet(rest)
      /\ \A S : Among(front \o rest, S) = Among(front, S) \o Among(rest, S)
  BY <1>1, <1>5, Joined DEF front
<1>8. ToSet(records) = {special} \cup ToSet(hinted) \cup ToSet(rest) /\ IsSequence(records)
  BY <1>4, <1>5, <1>6, <1>7 DEF front
<1>9. hints = (Among(one, stated) \o Among(hinted, stated)) \o Among(rest, stated)
  <2>. HIDE DEF stated
  <2>. QED BY <1>5, <1>6, <1>7 DEF front
<1>10. Among(one, stated) = <<>> /\ Among(hinted, stated) = hinted /\ Among(rest, stated) = <<>>
  <2>1. \A x \in ToSet(one) : x \notin stated
    BY <1>1, <1>4
  <2>2. \A x \in ToSet(rest) : x \notin stated
    BY <1>1
  <2>3. ToSet(hinted) \subseteq stated
    BY <1>2, <1>8
  <2>. HIDE DEF stated
  <2>4. one \in Seq(ToSet(one)) /\ hinted \in Seq(ToSet(hinted)) /\ rest \in Seq(ToSet(rest))
    BY <1>1, <1>2, <1>4 DEF IsSequence
  <2>. QED BY <2>1, <2>2, <2>3, <2>4, AmongNone, AmongAll
<1>11. hints = hinted
  <2>1. hinted \in Seq(ToSet(hinted))
    BY <1>2 DEF IsSequence
  <2>2. <<>> \o hinted = hinted /\ hinted \o <<>> = hinted
    BY <2>1, ConcatEmptySeq
  <2>. HIDE DEF hints
  <2>. QED BY <1>9, <1>10, <2>2
<1>12. [i \in DOMAIN hinted |-> ParseRelayUrl(hinted[i].value.is)] = once
  <2>1. \A i \in DOMAIN once : ParseRelayUrl(hinted[i].value.is) = once[i]
    BY <1>2, <1>3, CanonicalRelaysParse
  <2>2. once = [i \in DOMAIN once |-> once[i]]
    BY <1>3
  <2>. QED BY <1>2, <2>1, <2>2
<1>13. TlvExtractRelays(records) = Once([i \in DOMAIN hints |-> ParseRelayUrl(hints[i].value.is)])
  BY DEF TlvExtractRelays
<1>14. TlvExtractRelays(records) = once
  <2>. HIDE DEF hints
  <2>. QED BY <1>3, <1>11, <1>12, <1>13
<1>15. ASSUME NEW type, type # TLV_RELAY
       PROVE  ValuesOf(records, type) = ValuesAmong({special} \cup ToSet(rest), type)
  <2>1. {x \in ToSet(records) : x.type = type} = {x \in {special} \cup ToSet(rest) : x.type = type}
    BY <1>1, <1>2, <1>8, <1>15
  <2>. QED BY <2>1 DEF ValuesOf, ValuesAmong
<1>. QED BY <1>8, <1>14, <1>15 DEF once

(* What a record of one value claims.                                      *)
LEMMA KeysRead ==
  /\ \A pubkey \in Pubkeys : PubkeyOf(KeyValue(pubkey)) = pubkey /\ pubkey # Null
  /\ \A id \in EventIds : EventIdOf(KeyValue(id)) = id /\ id # Null
  /\ \A kind : IsValidKind(kind) => ReadKind(KindValue(kind)) = kind
  /\ \A text : DecodeUtf8(TextValue(text)) = text
<1>1. \A key : KeyValue(key).length = KEY_BYTES /\ KeyValue(key).is = key
  BY DEF KeyValue
<1>2. \A kind : KindValue(kind).length = KIND_BYTES /\ KindValue(kind).is = kind
  BY DEF KindValue
<1>3. \A text : DecodeUtf8(TextValue(text)) = text
  BY DEF DecodeUtf8, TextValue
<1>. QED BY <1>1, <1>2, <1>3, NothingAssumption DEF PubkeyOf, EventIdOf, ReadKind

LEMMA SoleRecords ==
  ASSUME NullIsNothing
  PROVE  /\ \A x : x # Null =>
              SoleRecord({x}) # Null /\ SoleRecord({x}).value = x /\ ClaimOf(SoleRecord({x})) = x
         /\ SoleRecord({}) # Null /\ SoleRecord({}).value = Null
<1>1. \A x : x # Null => SoleRecord({x}) = [value |-> x]
  BY OneValue DEF SoleRecord
<1>2. SoleRecord({}) = [value |-> Null]
  BY OneValue DEF SoleRecord
<1>3. \A x : [value |-> x] # Null /\ [value |-> x].value = x
  BY NullValues
<1>. QED BY <1>1, <1>2, <1>3 DEF ClaimOf

(* What an encoder did not refuse is read as TLV records.                  *)
LEMMA TlvRead ==
  ASSUME NullIsNothing, NEW hrp \in {"nprofile", "nevent", "naddr"}, NEW records, IsSequence(records),
         NEW text, text = EncodeTlvEntity(hrp, records), text # Null
  PROVE  DecodeNostrEntity(text) = CASE hrp = "nprofile" -> DecodeNprofile(records)
                                     [] hrp = "nevent"   -> DecodeNevent(records)
                                     [] hrp = "naddr"    -> DecodeNaddr(records)
<1>1. /\ text = [hrp |-> hrp, bytes |-> [records |-> records, cut |-> FALSE]]
      /\ ~(EntityLength(hrp, StreamLength(records)) > MAX_ENTITY_LENGTH)
  BY DEF EncodeTlvEntity
<1>2. text.hrp = hrp /\ text.bytes.records = records /\ text.bytes.cut = FALSE
  BY <1>1
<1>3. DecodeBech32(text) = text
  BY <1>1, <1>2 DEF DecodeBech32
<1>4. ParseTlv(text.bytes) = records /\ records # Null
  BY <1>2, NullValues DEF ParseTlv
<1>5. DecodeNostrEntity(text) = DecodeTlvEntity(hrp, text.bytes)
  <2>1. hrp # "note" /\ hrp # "npub"
    OBVIOUS
  <2>. QED BY <1>2, <1>3, <2>1 DEF DecodeNostrEntity
<1>. QED BY <1>4, <1>5 DEF DecodeTlvEntity

LEMMA NpubsReadBack ==
  ASSUME NEW pubkey \in Pubkeys, EncodePubkeyToNpub(pubkey) # Null
  PROVE  DecodeNostrEntity(EncodePubkeyToNpub(pubkey)) = [type |-> "npub", pubkey |-> pubkey]
<1>. DEFINE text == EncodePubkeyToNpub(pubkey)
<1>1. text.hrp = "npub" /\ text.bytes = KeyValue(pubkey)
  BY DEF EncodePubkeyToNpub
<1>. HIDE DEF text
<1>2. EntityLength("npub", KEY_BYTES) = 63
  BY DEF EntityLength, KEY_BYTES, CHECKSUM_LENGTH
<1>3. DecodeBech32(text) = text
  BY <1>1, <1>2 DEF DecodeBech32, MAX_ENTITY_LENGTH, KeyValue
<1>4. DecodeNostrEntity(text) = DecodeNpub(KeyValue(pubkey))
  BY <1>1, <1>3 DEF DecodeNostrEntity, text
<1>. QED BY <1>4, KeysRead DEF DecodeNpub, text

LEMMA NotesReadAsWritten ==
  ASSUME NEW id \in EventIds, EncodeEventIdToNote(id) # Null
  PROVE  DecodeNostrEntity(EncodeEventIdToNote(id)) = [type |-> "note", eventId |-> id, pubkey |-> Null]
<1>. DEFINE text == EncodeEventIdToNote(id)
<1>1. text.hrp = "note" /\ text.bytes = KeyValue(id)
  BY DEF EncodeEventIdToNote
<1>. HIDE DEF text
<1>2. EntityLength("note", KEY_BYTES) = 63
  BY DEF EntityLength, KEY_BYTES, CHECKSUM_LENGTH
<1>3. DecodeBech32(text) = text
  BY <1>1, <1>2 DEF DecodeBech32, MAX_ENTITY_LENGTH, KeyValue
<1>4. DecodeNostrEntity(text) = DecodeNote(KeyValue(id))
  BY <1>1, <1>3 DEF DecodeNostrEntity, text
<1>. QED BY <1>4, KeysRead DEF DecodeNote, text

(* An entity's records are its own value, its relays and what else it says. *)
SaysMore(special, rest) ==
  special.type = TLV_SPECIAL /\ IsSequence(rest) /\ \A r \in ToSet(rest) : r.type \in {TLV_AUTHOR, TLV_KIND}

ReadAs(records, special, relays, rest) ==
  /\ TlvExtractRelays(records) = Once(relays) /\ IsSequence(records)
  /\ ValuesOf(records, TLV_SPECIAL) = {special.value}
  /\ \A type \in {TLV_AUTHOR, TLV_KIND} : ValuesOf(records, type) = ValuesAmong(ToSet(rest), type)

LEMMA ReadTogether ==
  ASSUME NEW relays \in Seq(CanonicalRelays), NEW special, NEW rest, SaysMore(special, rest),
         NEW records, records = EntityRecords(special, relays, rest)
  PROVE  ReadAs(records, special, relays, rest)
<1>1. special.type = TLV_SPECIAL /\ IsSequence(rest) /\ \A r \in ToSet(rest) : r.type \in {TLV_AUTHOR, TLV_KIND}
  BY DEF SaysMore
<1>2. TLV_SPECIAL = 0 /\ TLV_RELAY = 1 /\ TLV_AUTHOR = 2 /\ TLV_KIND = 3
  BY DEF TLV_SPECIAL, TLV_RELAY, TLV_AUTHOR, TLV_KIND
<1>3. NoRelays(special, rest)
  BY <1>1, <1>2 DEF NoRelays
<1>4. /\ TlvExtractRelays(records) = Once(relays) /\ IsSequence(records)
      /\ \A type : type # TLV_RELAY =>
           ValuesOf(records, type) = ValuesAmong({special} \cup ToSet(rest), type)
  BY <1>3, RelaysReadBack
<1>5. ValuesOf(records, TLV_SPECIAL) = {special.value}
  <2>1. {x \in {special} \cup ToSet(rest) : x.type = TLV_SPECIAL} = {special}
    BY <1>1, <1>2
  <2>2. TLV_SPECIAL # TLV_RELAY
    BY <1>2
  <2>3. ValuesAmong({special} \cup ToSet(rest), TLV_SPECIAL) = {special.value}
    BY <2>1 DEF ValuesAmong
  <2>. QED BY <1>4, <2>2, <2>3
<1>6. ASSUME NEW type \in {TLV_AUTHOR, TLV_KIND}
      PROVE  ValuesOf(records, type) = ValuesAmong(ToSet(rest), type)
  <2>1. {x \in {special} \cup ToSet(rest) : x.type = type} = {x \in ToSet(rest) : x.type = type}
    BY <1>1, <1>2
  <2>2. type # TLV_RELAY
    BY <1>2
  <2>3. ValuesAmong({special} \cup ToSet(rest), type) = ValuesAmong(ToSet(rest), type)
    BY <2>1 DEF ValuesAmong
  <2>. QED BY <1>4, <2>2, <2>3
<1>. QED BY <1>4, <1>5, <1>6 DEF ReadAs

LEMMA NprofilesReadBack ==
  ASSUME NullIsNothing, NEW pubkey \in Pubkeys, NEW relays \in Seq(CanonicalRelays),
         EncodeNprofile(pubkey, relays) # Null
  PROVE  DecodeNostrEntity(EncodeNprofile(pubkey, relays)) =
           [type |-> "nprofile", pubkey |-> pubkey, relays |-> Once(relays)]
<1>. DEFINE special == TlvRecord(TLV_SPECIAL, KeyValue(pubkey))
            records == << special >> \o RelayRecords(relays)
            rest    == <<>>
<1>1. special.type = TLV_SPECIAL /\ special.value = KeyValue(pubkey)
  BY DEF TlvRecord
<1>2. EncodeNprofile(pubkey, relays) = EncodeTlvEntity("nprofile", records)
  BY DEF EncodeNprofile
<1>. HIDE DEF special
<1>3. IsSequence(records) /\ records \o rest = records
  <2>1. IsSequence(<< special >>) /\ IsSequence(RelayRecords(relays))
    BY Alone, RelayRecordsTyped
  <2>2. IsSequence(records)
    BY <2>1, Joined
  <2>. HIDE DEF records
  <2>3. records \in Seq(ToSet(records))
    BY <2>2 DEF IsSequence
  <2>. QED BY <2>2, <2>3, ConcatEmptySeq
<1>4. IsSequence(rest) /\ \A r \in ToSet(rest) : r.type \in {TLV_AUTHOR, TLV_KIND}
  BY Alone
<1>5. records = EntityRecords(special, relays, rest)
  BY <1>3 DEF EntityRecords
<1>. HIDE DEF records, rest
<1>6. TlvExtractRelays(records) = Once(relays) /\ ValuesOf(records, TLV_SPECIAL) = {KeyValue(pubkey)}
  <2>1. SaysMore(special, rest)
    BY <1>1, <1>4 DEF SaysMore
  <2>2. ReadAs(records, special, relays, rest)
    BY <1>5, <2>1, ReadTogether DEF EntityRecords
  <2>. QED BY <1>1, <2>2 DEF ReadAs
<1>7. DecodeNostrEntity(EncodeNprofile(pubkey, relays)) = DecodeNprofile(records)
  BY <1>2, <1>3, TlvRead
<1>8. {PubkeyOf(v) : v \in ValuesOf(records, TLV_SPECIAL)} = {pubkey}
  BY <1>6, KeysRead
<1>9. ClaimOf(SoleRecord({pubkey})) = pubkey /\ pubkey # Null
  BY KeysRead, SoleRecords
<1>. QED BY <1>6, <1>7, <1>8, <1>9 DEF DecodeNprofile

(* What is stated once, or not at all.                                     *)
Stated(type, x, value) == IF x = Null THEN <<>> ELSE << TlvRecord(type, value) >>

LEMMA StatedOnce ==
  ASSUME NEW type, NEW x, NEW value
  PROVE  /\ IsSequence(Stated(type, x, value))
         /\ ToSet(Stated(type, x, value)) = IF x = Null THEN {} ELSE {[type |-> type, value |-> value]}
BY Alone DEF Stated, TlvRecord

StatedIn(type, x, value) == IF x = Null THEN {} ELSE {[type |-> type, value |-> value]}

OneOf(x, value) == IF x = Null THEN {} ELSE {value}

LEMMA StatedApart ==
  ASSUME NEW type, NEW x, NEW value, NEW other, NEW y, NEW beside, type # other
  PROVE  ValuesAmong(StatedIn(type, x, value) \cup StatedIn(other, y, beside), type) = OneOf(x, value)
<1>. DEFINE a   == [type |-> type, value |-> value]
            b   == [type |-> other, value |-> beside]
            all == StatedIn(type, x, value) \cup StatedIn(other, y, beside)
<1>1. a.type = type /\ a.value = value /\ b.type = other
  OBVIOUS
<1>2. all = (IF x = Null THEN {} ELSE {a}) \cup (IF y = Null THEN {} ELSE {b})
  BY DEF StatedIn
<1>. HIDE DEF a, b, all
<1>3. {r \in all : r.type = type} = IF x = Null THEN {} ELSE {a}
  <2>1. CASE x = Null
    BY <1>1, <1>2, <2>1
  <2>2. CASE x # Null
    BY <1>1, <1>2, <2>2
  <2>. QED BY <2>1, <2>2
<1>4. {r.value : r \in {s \in all : s.type = type}} = IF x = Null THEN {} ELSE {value}
  <2>1. CASE x = Null
    BY <1>3, <2>1
  <2>2. CASE x # Null
    BY <1>1, <1>3, <2>2
  <2>. QED BY <2>1, <2>2
<1>. QED BY <1>4 DEF ValuesAmong, OneOf, all

LEMMA NeventsReadBack ==
  ASSUME NullIsNothing, NEW id \in EventIds, NEW relays \in Seq(CanonicalRelays),
         NEW pubkey \in Pubkeys \cup {Null}, NEW kind, EncodeNevent(id, relays, pubkey, kind) # Null
  PROVE  DecodeNostrEntity(EncodeNevent(id, relays, pubkey, kind)) =
           [type |-> "nevent", eventId |-> id, relays |-> Once(relays), pubkey |-> pubkey, kind |-> kind]
<1>. DEFINE special == TlvRecord(TLV_SPECIAL, KeyValue(id))
            authors == Stated(TLV_AUTHOR, pubkey, KeyValue(pubkey))
            kinds   == Stated(TLV_KIND, kind, KindValue(kind))
            front   == << special >> \o RelayRecords(relays)
            rest    == authors \o kinds
            records == (front \o authors) \o kinds
            text    == EncodeNevent(id, relays, pubkey, kind)
<1>1. TLV_AUTHOR # TLV_KIND /\ TLV_KIND # TLV_AUTHOR
  BY DEF TLV_AUTHOR, TLV_KIND
<1>2. special.type = TLV_SPECIAL /\ special.value = KeyValue(id)
  BY DEF TlvRecord
<1>3. (kind = Null \/ IsValidKind(kind)) /\ text = EncodeTlvEntity("nevent", records)
  BY DEF EncodeNevent, Stated
<1>. HIDE DEF special, text
<1>4. /\ IsSequence(authors)
      /\ ToSet(authors) = IF pubkey = Null THEN {} ELSE {[type |-> TLV_AUTHOR, value |-> KeyValue(pubkey)]}
  BY StatedOnce
<1>5. /\ IsSequence(kinds)
      /\ ToSet(kinds) = IF kind = Null THEN {} ELSE {[type |-> TLV_KIND, value |-> KindValue(kind)]}
  BY StatedOnce
<1>. HIDE DEF authors, kinds
<1>6. IsSequence(rest) /\ ToSet(rest) = ToSet(authors) \cup ToSet(kinds)
  BY <1>4, <1>5, Joined
<1>. HIDE DEF rest
<1>7. \A r \in ToSet(rest) : r.type \in {TLV_AUTHOR, TLV_KIND}
  BY <1>4, <1>5, <1>6
<1>8. records = EntityRecords(special, relays, rest)
  <2>1. IsSequence(<< special >>) /\ IsSequence(RelayRecords(relays))
    BY Alone, RelayRecordsTyped
  <2>2. IsSequence(front)
    BY <2>1, Joined
  <2>. HIDE DEF front
  <2>. DEFINE T == ToSet(front) \cup ToSet(authors) \cup ToSet(kinds)
  <2>3. front \in Seq(T) /\ authors \in Seq(T) /\ kinds \in Seq(T)
    BY <1>4, <1>5, <2>2, Wider DEF IsSequence
  <2>. HIDE DEF T
  <2>4. (front \o authors) \o kinds = front \o (authors \o kinds)
    BY <2>3, ConcatAssociative
  <2>. QED BY <2>4 DEF EntityRecords, front, rest
<1>. HIDE DEF records
<1>9. ReadAs(records, special, relays, rest)
  <2>1. SaysMore(special, rest)
    BY <1>2, <1>6, <1>7 DEF SaysMore
  <2>. QED BY <1>8, <2>1, ReadTogether
<1>10. TlvExtractRelays(records) = Once(relays) /\ IsSequence(records)
  BY <1>2, <1>9 DEF ReadAs
<1>11. ValuesOf(records, TLV_SPECIAL) = {KeyValue(id)}
  BY <1>2, <1>9 DEF ReadAs
<1>12. \A type \in {TLV_AUTHOR, TLV_KIND} : ValuesOf(records, type) = ValuesAmong(ToSet(rest), type)
  BY <1>2, <1>9 DEF ReadAs
<1>13. ValuesAmong(ToSet(rest), TLV_AUTHOR) = IF pubkey = Null THEN {} ELSE {KeyValue(pubkey)}
  <2>1. ToSet(rest) = StatedIn(TLV_AUTHOR, pubkey, KeyValue(pubkey)) \cup StatedIn(TLV_KIND, kind, KindValue(kind))
    BY <1>4, <1>5, <1>6 DEF StatedIn
  <2>. DEFINE stating == StatedIn(TLV_AUTHOR, pubkey, KeyValue(pubkey)) \cup StatedIn(TLV_KIND, kind, KindValue(kind))
  <2>2. \A x, value, y, beside :
          ValuesAmong(StatedIn(TLV_AUTHOR, x, value) \cup StatedIn(TLV_KIND, y, beside), TLV_AUTHOR) = OneOf(x, value)
    BY <1>1, StatedApart
  <2>3. ValuesAmong(stating, TLV_AUTHOR) = OneOf(pubkey, KeyValue(pubkey))
    BY <2>2
  <2>. QED BY <2>1, <2>3 DEF OneOf
<1>14. ValuesAmong(ToSet(rest), TLV_KIND) = IF kind = Null THEN {} ELSE {KindValue(kind)}
  <2>1. ToSet(rest) = StatedIn(TLV_KIND, kind, KindValue(kind)) \cup StatedIn(TLV_AUTHOR, pubkey, KeyValue(pubkey))
    BY <1>4, <1>5, <1>6 DEF StatedIn
  <2>2. ValuesAmong(StatedIn(TLV_KIND, kind, KindValue(kind)) \cup StatedIn(TLV_AUTHOR, pubkey, KeyValue(pubkey)),
                    TLV_KIND) = OneOf(kind, KindValue(kind))
    BY <1>1, StatedApart
  <2>. QED BY <2>1, <2>2 DEF OneOf
<1>15. ClaimOf(SoleRecord({EventIdOf(v) : v \in ValuesOf(records, TLV_SPECIAL)})) = id /\ id # Null
  <2>1. {EventIdOf(v) : v \in ValuesOf(records, TLV_SPECIAL)} = {id}
    BY <1>11, KeysRead
  <2>. QED BY <2>1, KeysRead, SoleRecords
<1>. DEFINE author == SoleRecord({PubkeyOf(v) : v \in ValuesOf(records, TLV_AUTHOR)})
            stated == SoleRecord({ReadKind(v) : v \in ValuesOf(records, TLV_KIND)})
<1>16. author # Null /\ author.value = pubkey
  <2>1. {PubkeyOf(v) : v \in ValuesOf(records, TLV_AUTHOR)} = IF pubkey = Null THEN {} ELSE {pubkey}
    BY <1>12, <1>13, KeysRead
  <2>. QED BY <2>1, SoleRecords
<1>17. stated # Null /\ stated.value = kind
  <2>1. {ReadKind(v) : v \in ValuesOf(records, TLV_KIND)} = IF kind = Null THEN {} ELSE {kind}
    BY <1>3, <1>12, <1>14, KeysRead
  <2>. QED BY <2>1, SoleRecords
<1>18. DecodeNostrEntity(text) = DecodeNevent(records)
  <2>1. text # Null
    BY DEF text
  <2>. QED BY <1>3, <1>10, <2>1, TlvRead
<1>19. DecodeNevent(records) =
         [type |-> "nevent", eventId |-> id, relays |-> Once(relays), pubkey |-> pubkey, kind |-> kind]
  BY <1>10, <1>15, <1>16, <1>17 DEF DecodeNevent
<1>. QED BY <1>18, <1>19 DEF text

LEMMA NaddrsReadBack ==
  ASSUME NullIsNothing, NEW address, address = [kind |-> address.kind, pubkey |-> address.pubkey, dTag |-> address.dTag],
         address.pubkey \in Pubkeys, address.dTag # Null, NEW relays \in Seq(CanonicalRelays),
         EncodeNaddr(address, relays) # Null
  PROVE  DecodeNostrEntity(EncodeNaddr(address, relays)) =
           [type |-> "naddr", address |-> address, pubkey |-> address.pubkey, relays |-> Once(relays)]
<1>. DEFINE special == TlvRecord(TLV_SPECIAL, TextValue(address.dTag))
            author  == TlvRecord(TLV_AUTHOR, KeyValue(address.pubkey))
            kind    == TlvRecord(TLV_KIND, KindValue(address.kind))
            rest    == << author, kind >>
            records == EntityRecords(special, relays, rest)
            text    == EncodeNaddr(address, relays)
<1>1. /\ special.type = TLV_SPECIAL /\ special.value = TextValue(address.dTag)
      /\ author.type = TLV_AUTHOR /\ author.value = KeyValue(address.pubkey)
      /\ kind.type = TLV_KIND /\ kind.value = KindValue(address.kind)
  BY DEF TlvRecord
<1>2. IsValidKind(address.kind) /\ IsAddress(address) /\ text = EncodeTlvEntity("naddr", records)
  BY DEF EncodeNaddr, EntityRecords
<1>. HIDE DEF special, text, author, kind
<1>3. IsSequence(rest) /\ ToSet(rest) = {author, kind}
  <2>1. << author, kind >> = Append(<< author >>, kind) /\ << author >> \in Seq({author, kind})
    OBVIOUS
  <2>2. ToSet(<< author >>) = {author}
    BY Alone
  <2>. DEFINE one == << author >>
  <2>3. rest = Append(one, kind) /\ one \in Seq({author, kind}) /\ ToSet(one) = {author}
    BY <2>1, <2>2
  <2>. HIDE DEF one, rest
  <2>4. ToSet(rest) = {author, kind} /\ rest \in Seq({author, kind})
    BY <2>3, AppendSet
  <2>. QED BY <2>4, TypedSequence
<1>. HIDE DEF rest
<1>4. \A r \in ToSet(rest) : r.type \in {TLV_AUTHOR, TLV_KIND}
  BY <1>1, <1>3
<1>5. records = EntityRecords(special, relays, rest)
  OBVIOUS
<1>. HIDE DEF records
<1>6. ReadAs(records, special, relays, rest)
  <2>1. SaysMore(special, rest)
    BY <1>1, <1>3, <1>4 DEF SaysMore
  <2>. QED BY <1>5, <2>1, ReadTogether
<1>7. TlvExtractRelays(records) = Once(relays) /\ IsSequence(records)
  BY <1>1, <1>6 DEF ReadAs
<1>8. ValuesOf(records, TLV_SPECIAL) = {TextValue(address.dTag)}
  BY <1>1, <1>6 DEF ReadAs
<1>9. \A type \in {TLV_AUTHOR, TLV_KIND} : ValuesOf(records, type) = ValuesAmong(ToSet(rest), type)
  BY <1>1, <1>6 DEF ReadAs
<1>10. /\ ValuesAmong(ToSet(rest), TLV_AUTHOR) = {KeyValue(address.pubkey)}
      /\ ValuesAmong(ToSet(rest), TLV_KIND) = {KindValue(address.kind)}
  BY <1>1, <1>3 DEF ValuesAmong, TLV_AUTHOR, TLV_KIND
<1>11. ClaimOf(SoleRecord({DecodeUtf8(v) : v \in ValuesOf(records, TLV_SPECIAL)})) = address.dTag
  <2>1. {DecodeUtf8(v) : v \in ValuesOf(records, TLV_SPECIAL)} = {address.dTag}
    BY <1>8, KeysRead
  <2>. QED BY <2>1, SoleRecords
<1>12. ClaimOf(SoleRecord({PubkeyOf(v) : v \in ValuesOf(records, TLV_AUTHOR)})) = address.pubkey /\ address.pubkey # Null
  <2>1. {PubkeyOf(v) : v \in ValuesOf(records, TLV_AUTHOR)} = {address.pubkey}
    BY <1>9, <1>10, KeysRead
  <2>. QED BY <2>1, KeysRead, SoleRecords
<1>13. ClaimOf(SoleRecord({ReadKind(v) : v \in ValuesOf(records, TLV_KIND)})) = address.kind /\ address.kind # Null
  <2>1. {ReadKind(v) : v \in ValuesOf(records, TLV_KIND)} = {address.kind}
    BY <1>2, <1>9, <1>10, KeysRead
  <2>2. address.kind # Null
    BY <1>2 DEF NullIsNothing
  <2>. QED BY <2>1, <2>2, SoleRecords
<1>14. DecodeNostrEntity(text) = DecodeNaddr(records)
  <2>1. text # Null
    BY DEF text
  <2>. QED BY <1>2, <1>7, <2>1, TlvRead
<1>15. DecodeNaddr(records) =
         [type |-> "naddr", address |-> address, pubkey |-> address.pubkey, relays |-> Once(relays)]
  BY <1>2, <1>7, <1>11, <1>12, <1>13 DEF DecodeNaddr
<1>. QED BY <1>14, <1>15 DEF text

-----------------------------------------------------------------------------
(* What a reference should be taken for: nothing where its encoder refused *)
(* or it is part of a link, and otherwise the entity.                      *)
IsMeantAs(reference, entity) ==
  reference.names = IF reference.text = Null \/ IsBareInsideAWebUrl(reference) THEN Null ELSE entity

IsWrittenAs(reference, text, entity) == reference.text = text /\ IsMeantAs(reference, entity)

(* An encoder wrote the reference, and it names what the encoder was given, *)
(* each relay once.                                                        *)
IsEncoded(reference) ==
  \/ \E pubkey \in Pubkeys :
       IsWrittenAs(reference, EncodePubkeyToNpub(pubkey), [type |-> "npub", pubkey |-> pubkey])
  \/ \E id \in EventIds :
       IsWrittenAs(reference, EncodeEventIdToNote(id), [type |-> "note", eventId |-> id, pubkey |-> Null])
  \/ \E pubkey \in Pubkeys, relays \in Seq(CanonicalRelays) :
       IsWrittenAs(reference, EncodeNprofile(pubkey, relays),
                   [type |-> "nprofile", pubkey |-> pubkey, relays |-> Once(relays)])
  \/ \E id \in EventIds, relays \in Seq(CanonicalRelays), pubkey \in Pubkeys \cup {Null} : \E kind :
       IsWrittenAs(reference, EncodeNevent(id, relays, pubkey, kind),
                   [type |-> "nevent", eventId |-> id, relays |-> Once(relays), pubkey |-> pubkey, kind |-> kind])
  \/ \E pubkey \in Pubkeys, relays \in Seq(CanonicalRelays) : \E kind, dTag :
       LET address == [kind |-> kind, pubkey |-> pubkey, dTag |-> dTag] IN
       /\ dTag # Null
       /\ IsWrittenAs(reference, EncodeNaddr(address, relays),
                      [type |-> "naddr", address |-> address, pubkey |-> pubkey, relays |-> Once(relays)])

(* What is meant by a reference another program wrote is what the decoder  *)
(* says; by one an encoder wrote, what the encoder was given.              *)
ContentsAreMeant ==
  \A content \in Contents : \A reference \in ToSet(content.references) :
    IF reference.encoded THEN IsEncoded(reference)
    ELSE IsMeantAs(reference, DecodeNostrEntity(reference.text))

(* Whatever keys, kind, address and relays the encoders are given, a text  *)
(* they do not refuse to write is read as just that, each relay once       *)
(* (bech32.ts).                                                            *)
THEOREM EncodedReadBack ==
  ASSUME NullIsNothing, NEW reference, IsEncoded(reference), reference.text # Null
  PROVE  IsMeantAs(reference, DecodeNostrEntity(reference.text)) /\ DecodeNostrEntity(reference.text) # Null
<1>1. ASSUME NEW pubkey \in Pubkeys,
             IsWrittenAs(reference, EncodePubkeyToNpub(pubkey), [type |-> "npub", pubkey |-> pubkey])
      PROVE  IsMeantAs(reference, DecodeNostrEntity(reference.text)) /\ DecodeNostrEntity(reference.text) # Null
  <2>1. DecodeNostrEntity(reference.text) = [type |-> "npub", pubkey |-> pubkey]
    BY <1>1, NpubsReadBack DEF IsWrittenAs
  <2>. QED BY <1>1, <2>1, NullValues DEF IsWrittenAs
<1>2. ASSUME NEW id \in EventIds,
             IsWrittenAs(reference, EncodeEventIdToNote(id), [type |-> "note", eventId |-> id, pubkey |-> Null])
      PROVE  IsMeantAs(reference, DecodeNostrEntity(reference.text)) /\ DecodeNostrEntity(reference.text) # Null
  <2>1. DecodeNostrEntity(reference.text) = [type |-> "note", eventId |-> id, pubkey |-> Null]
    BY <1>2, NotesReadAsWritten DEF IsWrittenAs
  <2>. QED BY <1>2, <2>1, NullValues DEF IsWrittenAs
<1>3. ASSUME NEW pubkey \in Pubkeys, NEW relays \in Seq(CanonicalRelays),
             IsWrittenAs(reference, EncodeNprofile(pubkey, relays),
                         [type |-> "nprofile", pubkey |-> pubkey, relays |-> Once(relays)])
      PROVE  IsMeantAs(reference, DecodeNostrEntity(reference.text)) /\ DecodeNostrEntity(reference.text) # Null
  <2>1. DecodeNostrEntity(reference.text) = [type |-> "nprofile", pubkey |-> pubkey, relays |-> Once(relays)]
    BY <1>3, NprofilesReadBack DEF IsWrittenAs
  <2>. QED BY <1>3, <2>1, NullValues DEF IsWrittenAs
<1>4. ASSUME NEW id \in EventIds, NEW relays \in Seq(CanonicalRelays), NEW pubkey \in Pubkeys \cup {Null}, NEW kind,
             IsWrittenAs(reference, EncodeNevent(id, relays, pubkey, kind),
               [type |-> "nevent", eventId |-> id, relays |-> Once(relays), pubkey |-> pubkey, kind |-> kind])
      PROVE  IsMeantAs(reference, DecodeNostrEntity(reference.text)) /\ DecodeNostrEntity(reference.text) # Null
  <2>1. DecodeNostrEntity(reference.text) =
          [type |-> "nevent", eventId |-> id, relays |-> Once(relays), pubkey |-> pubkey, kind |-> kind]
    BY <1>4, NeventsReadBack DEF IsWrittenAs
  <2>. QED BY <1>4, <2>1, NullValues DEF IsWrittenAs
<1>5. ASSUME NEW pubkey \in Pubkeys, NEW relays \in Seq(CanonicalRelays), NEW kind, NEW dTag, NEW address,
             address = [kind |-> kind, pubkey |-> pubkey, dTag |-> dTag], dTag # Null,
             IsWrittenAs(reference, EncodeNaddr(address, relays),
               [type |-> "naddr", address |-> address, pubkey |-> pubkey, relays |-> Once(relays)])
      PROVE  IsMeantAs(reference, DecodeNostrEntity(reference.text)) /\ DecodeNostrEntity(reference.text) # Null
  <2>1. address.pubkey = pubkey /\ address.dTag = dTag /\ address.kind = kind
    BY <1>5
  <2>2. reference.text = EncodeNaddr(address, relays)
    BY <1>5 DEF IsWrittenAs
  <2>3. DecodeNostrEntity(reference.text) =
          [type |-> "naddr", address |-> address, pubkey |-> pubkey, relays |-> Once(relays)]
    BY <1>5, <2>1, <2>2, NaddrsReadBack
  <2>. QED BY <1>5, <2>3, NullValues DEF IsWrittenAs
<1>. QED BY <1>1, <1>2, <1>3, <1>4, <1>5 DEF IsEncoded

(* The two ways to read references, reference by reference.                *)
IsReadAsMeant(reference) ==
  reference.names = IF reference.text # Null /\ ~IsBareInsideAWebUrl(reference)
                    THEN DecodeNostrEntity(reference.text) ELSE Null

DecodedOf(found) == [i \in DOMAIN found |-> DecodeNostrEntity(found[i].text)]
NamesOf(found)   == [i \in DOMAIN found |-> found[i].names]

LEMMA DecodedAppend ==
  ASSUME NEW T, NEW s \in Seq(T), NEW x \in T
  PROVE  /\ DecodedOf(s) \in Seq({DecodeNostrEntity(r.text) : r \in T})
         /\ DecodedOf(Append(s, x)) = Append(DecodedOf(s), DecodeNostrEntity(x.text))
BY DEF DecodedOf

LEMMA NamesAppend ==
  ASSUME NEW T, NEW s \in Seq(T), NEW x \in T
  PROVE  NamesOf(Append(s, x)) = Append(NamesOf(s), x.names)
BY DEF NamesOf

LEMMA ReferencesReadAsMeant ==
  ASSUME NEW T, NEW found \in Seq(T), \A reference \in T : IsReadAsMeant(reference),
         NEW R, \A x \in T : x \in R <=> x.text # Null /\ ~IsBareInsideAWebUrl(x),
         NEW N, \A x \in T : x \in N <=> x.names # Null,
         NEW V, \A x \in T : x.names \in V <=> x.names # Null
  PROVE  Among(DecodedOf(Among(found, R)), V) = NamesOf(Among(found, N))
<1>. DEFINE Done == {p \in Seq(T) : Among(DecodedOf(Among(p, R)), V) = NamesOf(Among(p, N))}
<1>1. <<>> \in Done
  <2>1. Among(<<>>, R) = <<>> /\ Among(<<>>, N) = <<>> /\ Among(<<>>, V) = <<>>
    BY AmongEmpty
  <2>2. DecodedOf(<<>>) = <<>> /\ NamesOf(<<>>) = <<>>
    BY DEF DecodedOf, NamesOf
  <2>3. <<>> \in Seq(T)
    OBVIOUS
  <2>. QED BY <2>1, <2>2, <2>3, Zenon
<1>2. ASSUME NEW p \in Seq(T), NEW x \in T, p \in Done PROVE Append(p, x) \in Done
  <2>. DEFINE more    == Append(p, x)
              read    == Among(p, R)
              naming  == Among(p, N)
              decoded == DecodedOf(read)
              d       == DecodeNostrEntity(x.text)
  <2>1. more \in Seq(T)
    OBVIOUS
  <2>2. read \in Seq(T) /\ naming \in Seq(T)
    BY AmongSelects
  <2>3. /\ Among(more, R) = IF x \in R THEN Append(read, x) ELSE read
        /\ Among(more, N) = IF x \in N THEN Append(naming, x) ELSE naming
    BY AmongAppend
  <2>4. Among(decoded, V) = NamesOf(naming)
    BY <1>2
  <2>. HIDE DEF more, read, naming
  <2>. DEFINE U == {DecodeNostrEntity(r.text) : r \in T}
  <2>5. /\ decoded \in Seq(U) /\ d \in U
        /\ DecodedOf(Append(read, x)) = Append(decoded, d)
    BY <2>2, DecodedAppend
  <2>6. NamesOf(Append(naming, x)) = Append(NamesOf(naming), x.names)
    BY <2>2, NamesAppend
  <2>. HIDE DEF d, decoded, U
  <2>7. Among(Append(decoded, d), V) = IF d \in V THEN Append(Among(decoded, V), d) ELSE Among(decoded, V)
    BY <2>5, AmongAppend
  <2>8. /\ x \in R => x.names = d
        /\ x \notin R => x.names = Null
        /\ x \in N <=> x.names # Null
        /\ x.names \in V <=> x.names # Null
    BY DEF IsReadAsMeant, d
  <2>9. Among(DecodedOf(Among(more, R)), V) = NamesOf(Among(more, N))
    <3>1. CASE x \in R /\ x \in N
      BY <2>3, <2>4, <2>5, <2>6, <2>7, <2>8, <3>1
    <3>2. CASE x \in R /\ x \notin N
      BY <2>3, <2>4, <2>5, <2>7, <2>8, <3>2
    <3>3. CASE x \notin R
      BY <2>3, <2>4, <2>8, <3>3 DEF decoded
    <3>. QED BY <3>1, <3>2, <3>3
  <2>. QED BY <2>1, <2>9 DEF more
<1>3. found \in Done
  <2>. HIDE DEF Done
  <2>. QED BY <1>1, <1>2, EverySequence, Zenon
<1>. QED BY <1>3

LEMMA ContentsReadAsMeant ==
  ASSUME NullIsNothing, ContentsAreMeant, NEW content \in Contents
  PROVE  Meant(content) = ExtractContentReferences(content)
<1>. DEFINE found   == content.references
            T       == ToSet(found)
            R       == {entity \in T : entity.text # Null /\ ~IsBareInsideAWebUrl(entity)}
            N       == {reference \in T : reference.names # Null}
            V       == {reference.names : reference \in N}
            read    == Among(found, R)
            decoded == DecodedOf(read)
<1>1. found \in Seq(T)
  BY ContentsAssumption DEF IsContent, IsSequence
<1>2. \A reference \in T : IsReadAsMeant(reference)
  <2>. SUFFICES ASSUME NEW reference \in T PROVE IsReadAsMeant(reference)
    OBVIOUS
  <2>1. IF reference.encoded THEN IsEncoded(reference)
        ELSE IsMeantAs(reference, DecodeNostrEntity(reference.text))
    BY DEF ContentsAreMeant
  <2>2. CASE reference.encoded /\ reference.text # Null
    BY <2>1, <2>2, EncodedReadBack DEF IsMeantAs, IsReadAsMeant
  <2>3. CASE reference.encoded /\ reference.text = Null
    BY <2>1, <2>3 DEF IsEncoded, IsWrittenAs, IsMeantAs, IsReadAsMeant
  <2>4. CASE ~reference.encoded
    BY <2>1, <2>4 DEF IsMeantAs, IsReadAsMeant
  <2>. QED BY <2>2, <2>3, <2>4
<1>3. Meant(content) = NamesOf(Among(found, N))
  BY DEF Meant, NamesOf
<1>4. ExtractContentReferences(content) = Among(decoded, ToSet(decoded) \ {Null})
  BY DEF ExtractContentReferences, DecodedOf
<1>. HIDE DEF found
<1>5. \A x \in T : /\ x \in R <=> x.text # Null /\ ~IsBareInsideAWebUrl(x)
                   /\ x \in N <=> x.names # Null
                   /\ x.names \in V <=> x.names # Null
  OBVIOUS
<1>. HIDE DEF T, R, N, V
<1>6. Among(DecodedOf(Among(found, R)), V) = NamesOf(Among(found, N))
  BY <1>1, <1>2, <1>5, ReferencesReadAsMeant
<1>7. read \in Seq(T) /\ \A x \in ToSet(read) : x \in T /\ x \in R
  BY <1>1, AmongSelects, TypedSequence
<1>8. \A d \in ToSet(decoded) : d \in V <=> d \in ToSet(decoded) \ {Null}
  <2>. SUFFICES ASSUME NEW d \in ToSet(decoded) PROVE d \in V <=> d # Null
    OBVIOUS
  <2>1. DOMAIN decoded = DOMAIN read /\ \A i \in DOMAIN read : decoded[i] = DecodeNostrEntity(read[i].text)
    BY DEF DecodedOf
  <2>2. PICK i \in DOMAIN read : d = DecodeNostrEntity(read[i].text)
    <3>. HIDE DEF decoded
    <3>. QED BY <2>1 DEF ToSet
  <2>3. read[i] \in T /\ read[i] \in R
    BY <1>7 DEF ToSet
  <2>4. d = read[i].names
    BY <1>2, <1>5, <2>2, <2>3 DEF IsReadAsMeant
  <2>. QED BY <1>5, <2>3, <2>4
<1>9. Among(decoded, V) = Among(decoded, ToSet(decoded) \ {Null})
  <2>1. PICK U : decoded \in Seq(U)
    <3>1. decoded \in Seq({DecodeNostrEntity(r.text) : r \in T})
      <4>1. [i \in DOMAIN read |-> DecodeNostrEntity(read[i].text)] \in Seq({DecodeNostrEntity(r.text) : r \in T})
        BY <1>7
      <4>. QED BY <4>1 DEF DecodedOf
    <3>. QED BY <3>1
  <2>. HIDE DEF decoded
  <2>. QED BY <1>8, <2>1, AmongAgrees
<1>. QED BY <1>3, <1>4, <1>6, <1>9

(* What a reply states of a target is what its content's mentions state.   *)
LEMMA MentionedInBuilt ==
  ASSUME NullIsNothing, ContentsAreMeant, NEW parent, NEW hint, MayAnswer(parent, hint),
         NEW content \in Contents, NEW tags, tags = WithContentTags(ReplyTags(parent, hint), content)
  PROVE  LET mentions == MentionsOf(Meant(content), content)
             quotes   == ReplyKind(parent) # KIND_CHAT_MESSAGE
         IN  /\ \A mention \in ToSet(mentions) :
                  LET named == On(tags, mention[1], mention[2]) IN
                  /\ Len(named) = 1
                  /\ mention[1] = "q" /\ quotes =>
                       \A slot \in {3, 4} : Slot(named[1], slot) = FirstHint(mentions, "q", mention[2], slot)
             /\ quotes => ExtractTagValues(tags, "q") = ExtractTagValues(mentions, "q")
<1>1. MentionsOf(Meant(content), content) = Mentions(content)
  BY ContentsReadAsMeant DEF Mentions
<1>2. ReplyKind(parent) # KIND_CHAT_MESSAGE => ExtractTagValues(tags, "q") = ExtractTagValues(Mentions(content), "q")
  BY QuotesAreMentions
<1>3. ASSUME NEW mention \in ToSet(Mentions(content))
      PROVE  LET named == On(tags, mention[1], mention[2]) IN
             /\ Len(named) = 1
             /\ mention[1] = "q" /\ ReplyKind(parent) # KIND_CHAT_MESSAGE =>
                  \A slot \in {3, 4} : Slot(named[1], slot) = FirstHint(Mentions(content), "q", mention[2], slot)
  BY MentionsAreTagged
<1>. QED BY <1>1, <1>2, <1>3

(* A reply has one tag for every target its content names, the first hint  *)
(* of any mention in each slot, and quotes nothing else, whatever the      *)
(* parent's tags; and every text the encoders write is read as what they   *)
(* were given.                                                             *)
THEOREM RepliesMentionOnce == ASSUME NullIsNothing, ContentsAreMeant PROVE Spec => []MentionedOnce
<1>1. Path => MentionedOnce
  <2>. SUFFICES ASSUME Path, NEW i \in Built
                PROVE  LET mentions == MentionsOf(Meant(thread[i].content), thread[i].content)
                           quotes   == EventAt(i).kind # KIND_CHAT_MESSAGE
                       IN  /\ \A mention \in ToSet(mentions) :
                                LET named == On(EventAt(i).tags, mention[1], mention[2])
                                IN  /\ Len(named) = 1
                                    /\ mention[1] = "q" /\ quotes =>
                                         \A slot \in 3..4 :
                                           Slot(named[1], slot) = FirstHint(mentions, "q", mention[2], slot)
                           /\ \A reference \in ToSet(thread[i].content.references) :
                                reference.encoded /\ reference.text # Null => DecodeNostrEntity(reference.text) # Null
                           /\ quotes => ExtractTagValues(EventAt(i).tags, "q") = ExtractTagValues(mentions, "q")
    BY DEF MentionedOnce, On, Slot
  <2>1. PICK author \in Authors, hint \in Hints, content \in Contents :
           /\ MayAnswer(EventAt(i - 1), hint) /\ thread[i].content = content
           /\ EventAt(i) = EventOf(ReplyKind(EventAt(i - 1)), Ids[i], author,
                                   WithContentTags(ReplyTags(EventAt(i - 1), hint), content))
    BY BuiltEntries
  <2>2. /\ EventAt(i).kind = ReplyKind(EventAt(i - 1))
        /\ EventAt(i).tags = WithContentTags(ReplyTags(EventAt(i - 1), hint), content)
    BY <2>1 DEF EventOf
  <2>. DEFINE tags     == EventAt(i).tags
              mentions == MentionsOf(Meant(content), content)
              quotes   == EventAt(i).kind # KIND_CHAT_MESSAGE
  <2>3. /\ \A mention \in ToSet(mentions) :
             LET named == On(tags, mention[1], mention[2]) IN
             /\ Len(named) = 1
             /\ mention[1] = "q" /\ quotes =>
                  \A slot \in {3, 4} : Slot(named[1], slot) = FirstHint(mentions, "q", mention[2], slot)
        /\ quotes => ExtractTagValues(tags, "q") = ExtractTagValues(mentions, "q")
    BY <2>1, <2>2, MentionedInBuilt
  <2>4. \A reference \in ToSet(content.references) :
          reference.encoded /\ reference.text # Null => DecodeNostrEntity(reference.text) # Null
    BY EncodedReadBack DEF ContentsAreMeant
  <2>5. 3..4 = {3, 4}
    OBVIOUS
  <2>. QED BY <2>1, <2>3, <2>4, <2>5
<1>. QED BY <1>1, PathInvariant, PTL
=============================================================================
