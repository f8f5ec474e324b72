-------------------------- MODULE AnnotationsProofs --------------------------
(***************************************************************************)
(* What is published about an event stays in the room or the group of that *)
(* event, and is read back as being about it; a zap receipt that verifies  *)
(* is of a payment, and a nutzap that verifies is worth its proof texts;   *)
(* an article or a file is read as it was written.                         *)
(*                                                                         *)
(* First what readers find in tags known only as a set; then, for every    *)
(* builder, which tags it writes, what names a group among them, who is    *)
(* told by them and what analyseEvent reads from them; then one lemma for  *)
(* each action, and the invariant.  Then receipts: the arithmetic of       *)
(* invoices, what verification decides, and again each action.  Then what  *)
(* is published on its own, field by field.  Last, nutzaps: sums along a   *)
(* sequence and over a set, what is read, and what verification decides.   *)
(***************************************************************************)
EXTENDS Annotations, TagsProofs

(* Null is none of the strings the code writes.                            *)
LEMMA NullIsNoText ==
  /\ Null \notin EventIds /\ Null \notin Pubkeys /\ Null \notin GroupIds
  /\ Null \notin DOMAIN Addresses /\ Null \notin DOMAIN RelayUrlOf /\ Null \notin DOMAIN HttpUrlOf
  /\ Null # "" /\ Null # "comment" /\ Null # "source" /\ Null # "mention"
BY NothingAssumption

-----------------------------------------------------------------------------
(* Reading tags by what they are, whatever their order.                    *)
LEMMA TagsNamed ==
  ASSUME NEW tags, IsTags(tags), NEW name
  PROVE  /\ IsTags(Tagged(tags, name))
         /\ ToSet(Tagged(tags, name)) = {tag \in ToSet(tags) : At(tag, 1) = name}
BY SomeTags DEF Tagged

LEMMA NothingIsSole == SoleValue({}) = Null
BY DEF SoleValue

LEMMA OneIsSole == ASSUME NEW x PROVE SoleValue({x}) = x
BY DEF SoleValue

(* A reference the tags of a name agree on.                                *)
LEMMA AgreedRef ==
  ASSUME NEW tags, IsTags(tags), NEW name, NEW ref, ref # Null,
         \E tag \in ToSet(tags) : At(tag, 1) = name /\ RefFromTag(tag) = ref,
         \A tag \in ToSet(tags) : At(tag, 1) = name => RefFromTag(tag) \in {Null, ref}
  PROVE  SoleRefTagged(tags, name) = ref
<1>. DEFINE named == Tagged(tags, name)
<1>1. ToSet(named) = {tag \in ToSet(tags) : At(tag, 1) = name}
  BY TagsNamed
<1>. HIDE DEF named
<1>2. {RefFromTag(tag) : tag \in ToSet(named)} \ {Null} = {ref}
  BY <1>1
<1>. QED BY <1>2, OneIsSole DEF SoleRefTagged, SoleRef, named

LEMMA NoRef ==
  ASSUME NEW tags, IsTags(tags), NEW name,
         \A tag \in ToSet(tags) : At(tag, 1) = name => RefFromTag(tag) = Null
  PROVE  SoleRefTagged(tags, name) = Null
<1>. DEFINE named == Tagged(tags, name)
<1>1. ToSet(named) = {tag \in ToSet(tags) : At(tag, 1) = name}
  BY TagsNamed
<1>. HIDE DEF named
<1>2. {RefFromTag(tag) : tag \in ToSet(named)} \ {Null} = {}
  BY <1>1
<1>. QED BY <1>2, NothingIsSole DEF SoleRefTagged, SoleRef, named

(* The values of a name.                                                   *)
LEMMA ValuesNamed ==
  ASSUME NEW tags, IsTags(tags), NEW name
  PROVE  ExtractTagValues(tags, name) = {At(tag, 2) : tag \in {t \in ToSet(tags) : At(t, 1) = name}} \ {Null}
BY TagsNamed DEF ExtractTagValues

(* The last of the tags of a name that are references.                     *)
LEMMA LastRef ==
  ASSUME NEW tags, IsTags(tags), NEW name, NEW ref, ref # Null,
         \E tag \in ToSet(tags) : At(tag, 1) = name /\ RefFromTag(tag) = ref,
         \A tag \in ToSet(tags) : At(tag, 1) = name => RefFromTag(tag) \in {Null, ref}
  PROVE  LastRefTagged(tags, name) = ref
<1>. DEFINE S    == {tag \in ToSet(tags) : At(tag, 1) = name /\ RefFromTag(tag) # Null}
            refs == Among(tags, S)
<1>1. IsTags(refs) /\ ToSet(refs) = {tag \in ToSet(tags) : tag \in S}
  BY SomeTags
<1>2. LastRefTagged(tags, name) = IF refs = <<>> THEN Null ELSE RefFromTag(Last(refs))
  BY DEF LastRefTagged
<1>. HIDE DEF refs
<1>3. ToSet(refs) # {} /\ \A tag \in ToSet(refs) : RefFromTag(tag) = ref
  BY <1>1
<1>4. refs # <<>>
  BY <1>3, NoTags
<1>5. Last(refs) \in ToSet(refs)
  BY <1>1, <1>4, FirstAndLast DEF IsTags
<1>. QED BY <1>2, <1>3, <1>4, <1>5

-----------------------------------------------------------------------------
(* References as they are written.                                         *)
LEMMA WrittenRefs ==
  /\ \A tag : At(tag, 1) = "e" /\ At(tag, 2) \in EventIds => RefFromTag(tag) = EventRef(At(tag, 2)) /\ RefFromTag(tag) # Null
  /\ \A tag : At(tag, 1) = "a" /\ At(tag, 2) \in DOMAIN Addresses =>
                RefFromTag(tag) = AddressRef(Addresses[At(tag, 2)]) /\ RefFromTag(tag) # Null
<1>1. ASSUME NEW tag, At(tag, 1) = "e", At(tag, 2) \in EventIds
      PROVE  RefFromTag(tag) = EventRef(At(tag, 2)) /\ RefFromTag(tag) # Null
  <2>1. tag[2] = At(tag, 2)
    BY <1>1, NullIsNoText DEF At
  <2>2. RefFromTag(tag) = EventRef(tag[2])
    BY <1>1 DEF RefFromTag
  <2>. QED BY <1>1, <2>1, <2>2, NothingAssumption
<1>2. ASSUME NEW tag, At(tag, 1) = "a", At(tag, 2) \in DOMAIN Addresses
      PROVE  RefFromTag(tag) = AddressRef(Addresses[At(tag, 2)]) /\ RefFromTag(tag) # Null
  <2>1. tag[2] = At(tag, 2)
    BY <1>2, NullIsNoText DEF At
  <2>2. RefFromTag(tag) = AddressRef(Addresses[tag[2]])
    BY <1>2 DEF RefFromTag
  <2>. QED BY <1>2, <2>1, <2>2, NothingAssumption
<1>. QED BY <1>1, <1>2

-----------------------------------------------------------------------------
(* An event of a path.  Its coordinate has a text, and each of its h tags  *)
(* that names a group names one that something is posted to.               *)
IsWellFormed(event) ==
  /\ event.id \in EventIds /\ event.pubkey \in Pubkeys
  /\ "tags" \in DOMAIN event /\ IsTags(event.tags)
  /\ IsNameable(event.kind, event.pubkey, event.tags)
  /\ \A tag \in ToSet(NamingGroupTags(event)) : tag[2] \in GroupIds

(* What a coordinate in an a tag is read back as.                          *)
LEMMA Coordinates ==
  ASSUME NEW event, IsWellFormed(event)
  PROVE  LET ref == ReplyTargetRef(event) IN
         IF ref.type = "address"
         THEN CoordinateOf(event) \in DOMAIN Addresses /\ AddressRef(Addresses[CoordinateOf(event)]) = ref
         ELSE ref = EventRef(event.id) /\ CoordinateOf(event) = Null
<1>. DEFINE dTag    == CoordinateIdentifier(event)
            address == [kind |-> event.kind, pubkey |-> event.pubkey, dTag |-> dTag]
<1>1. dTag = CoordinateIdentifier([kind |-> event.kind, tags |-> event.tags])
  BY DEF CoordinateIdentifier
<1>2. ReplyTargetRef(event) = IF dTag = Null THEN EventRef(event.id) ELSE AddressRef(address)
  BY DEF ReplyTargetRef
<1>3. dTag # Null => \E text \in DOMAIN Addresses : Addresses[text] = address
  BY <1>1 DEF IsWellFormed, IsNameable
<1>. HIDE DEF dTag, address
<1>4. CASE dTag = Null
  BY <1>2, <1>4 DEF EventRef, CoordinateOf
<1>5. CASE dTag # Null
  <2>1. ReplyTargetRef(event) = AddressRef(address) /\ AddressRef(address).type = "address"
    BY <1>2, <1>5 DEF AddressRef
  <2>2. CoordinateOf(event) = FormatAddressableRef(address)
    BY <2>1 DEF CoordinateOf, AddressRef
  <2>3. FormatAddressableRef(address) \in DOMAIN Addresses /\ Addresses[FormatAddressableRef(address)] = address
    BY <1>3, <1>5 DEF FormatAddressableRef
  <2>. QED BY <2>1, <2>2, <2>3
<1>. QED BY <1>4, <1>5

-----------------------------------------------------------------------------
(* The group tags of a list of tags.                                       *)
Naming(tags) == Among(tags, {tag \in ToSet(tags) : At(tag, 1) = "h" /\ At(tag, 2) \notin {"", Null}})

NamesNoGroup(tags) == \A tag \in ToSet(tags) : At(tag, 1) # "h"

LEMMA NamingIn ==
  ASSUME NEW tags, IsTags(tags)
  PROVE  /\ IsTags(Naming(tags))
         /\ ToSet(Naming(tags)) = {tag \in ToSet(tags) : At(tag, 1) = "h" /\ At(tag, 2) \notin {"", Null}}
<1>. DEFINE S == {tag \in ToSet(tags) : At(tag, 1) = "h" /\ At(tag, 2) \notin {"", Null}}
<1>1. IsTags(Among(tags, S)) /\ ToSet(Among(tags, S)) = {tag \in ToSet(tags) : tag \in S}
  <2>. HIDE DEF S
  <2>. QED BY SomeTags
<1>2. {tag \in ToSet(tags) : tag \in S} = S
  OBVIOUS
<1>. HIDE DEF S
<1>3. IsTags(Among(tags, S)) /\ ToSet(Among(tags, S)) = S
  BY <1>1, <1>2
<1>. QED BY <1>3 DEF Naming, S

LEMMA NamingNone ==
  ASSUME NEW tags, IsTags(tags), NamesNoGroup(tags) PROVE Naming(tags) = <<>>
<1>1. tags \in Seq(ToSet(tags))
  BY DEF IsTags, IsSequence
<1>. QED BY <1>1, AmongNone DEF Naming, NamesNoGroup

LEMMA NamingAfter ==
  ASSUME NEW a, NEW b, IsTags(a), IsTags(b), NamesNoGroup(a) PROVE Naming(a \o b) = Naming(b)
<1>. DEFINE S == {tag \in ToSet(a \o b) : At(tag, 1) = "h" /\ At(tag, 2) \notin {"", Null}}
            R == {tag \in ToSet(b) : At(tag, 1) = "h" /\ At(tag, 2) \notin {"", Null}}
<1>1. ToSet(a \o b) = ToSet(a) \cup ToSet(b) /\ Among(a \o b, S) = Among(a, S) \o Among(b, S)
  <2>. HIDE DEF S
  <2>. QED BY ConcatTags
<1>2. a \in Seq(ToSet(a)) /\ b \in Seq(ToSet(b))
  BY DEF IsTags, IsSequence
<1>3. Among(a, S) = <<>>
  BY <1>2, AmongNone DEF NamesNoGroup
<1>4. Among(b, S) = Among(b, R)
  <2>1. \A tag \in ToSet(b) : tag \in S <=> tag \in R
    BY <1>1
  <2>. HIDE DEF S, R
  <2>. QED BY <1>2, <2>1, AmongAgrees
<1>5. Among(b, R) \in Seq(ToSet(b))
  BY <1>2, AmongSelects
<1>. HIDE DEF S, R
<1>6. Among(a \o b, S) = Among(b, R)
  BY <1>1, <1>3, <1>4, <1>5, ConcatEmptySeq
<1>. QED BY <1>6 DEF Naming, S, R

LEMMA NamingAgain ==
  ASSUME NEW tags, IsTags(tags) PROVE Naming(Naming(tags)) = Naming(tags)
<1>. DEFINE naming == Naming(tags)
<1>1. naming \in Seq(ToSet(naming)) /\ \A tag \in ToSet(naming) : At(tag, 1) = "h" /\ At(tag, 2) \notin {"", Null}
  BY NamingIn DEF IsTags, IsSequence
<1>. HIDE DEF naming
<1>2. Among(naming, {tag \in ToSet(naming) : At(tag, 1) = "h" /\ At(tag, 2) \notin {"", Null}}) = naming
  BY <1>1, AmongAll
<1>. QED BY <1>2 DEF Naming, naming

(* One group tag, as GroupTag writes it, is read back as its group.        *)
Canonical == {Null} \cup Range(RelayUrlOf)

LEMMA CanonicalHints == \A hint \in Canonical : ParseRelayUrl(hint) = hint
BY RelaysAssumption, NullIsNoText DEF Canonical, ParseRelayUrl, Range

LEMMA ParsedIsCanonical == \A text : ParseRelayUrl(text) \in Canonical
BY DEF Canonical, ParseRelayUrl, Range

LEMMA HintsAreCanonical == ParseRelayUrl(Null) = Null /\ \A hint \in Hints : hint \in Canonical
<1>1. ParseRelayUrl(Null) = Null
  BY NullIsNoText DEF ParseRelayUrl
<1>2. ASSUME NEW hint \in Hints PROVE hint \in Canonical
  BY HintsAssumption, ParsedIsCanonical DEF Canonical
<1>. QED BY <1>1, <1>2

PointerOf(naming) ==
  LET id    == SoleValue({tag[2] : tag \in ToSet(naming)})
      hints == {ParseRelayUrl(At(tag, 3)) : tag \in ToSet(naming)} \ {Null}
  IN  IF id = Null THEN Null ELSE [id |-> id, relayHint |-> SoleValue(hints)]

LEMMA PointersByNaming ==
  ASSUME NEW event PROVE NamingGroupTags(event) = Naming(event.tags) /\ GroupPointerOf(event) = PointerOf(Naming(event.tags))
BY DEF NamingGroupTags, GroupPointerOf, Naming, PointerOf

NamedGroups == GroupIds \ {""}

LEMMA GroupTagSlots ==
  ASSUME NEW id, NEW hint, NEW one,
         \/ hint = Null /\ one = <<"h", id>>
         \/ hint # Null /\ one = <<"h", id, hint>>
  PROVE  /\ IsSequence(one)
         /\ At(one, 1) = "h" /\ At(one, 2) = id /\ one[2] = id /\ At(one, 3) = hint
<1>1. CASE hint = Null
  <2>1. one = <<"h", id>>
    BY <1>1
  <2>2. At(one, 1) = "h" /\ At(one, 2) = id /\ one[2] = id /\ At(one, 3) = Null
    BY <2>1, Slots
  <2>. QED BY <1>1, <2>1, <2>2, Tuples
<1>2. CASE hint # Null
  <2>1. one = <<"h", id, hint>>
    BY <1>2
  <2>2. At(one, 1) = "h" /\ At(one, 2) = id /\ one[2] = id /\ At(one, 3) = hint
    BY <2>1, Slots
  <2>. QED BY <2>1, <2>2, Tuples
<1>. QED BY <1>1, <1>2

LEMMA OneGroupTag ==
  ASSUME NEW id \in NamedGroups, NEW hint \in Canonical
  PROVE  LET tags == << GroupTag(id, hint) >>
         IN  /\ IsTags(tags) /\ ToSet(tags) = {GroupTag(id, hint)}
             /\ At(GroupTag(id, hint), 1) = "h" /\ At(GroupTag(id, hint), 2) = id
             /\ Naming(tags) = tags
             /\ PointerOf(tags) = [id |-> id, relayHint |-> hint]
             /\ PointerOf(tags) # Null
<1>. DEFINE one  == GroupTag(id, hint)
            tags == << one >>
<1>1. \/ hint = Null /\ one = <<"h", id>>
      \/ hint # Null /\ one = <<"h", id, hint>>
  BY DEF GroupTag, NamedGroups
<1>. HIDE DEF one
<1>2. IsSequence(one) /\ At(one, 1) = "h" /\ At(one, 2) = id /\ one[2] = id /\ At(one, 3) = hint
  BY <1>1, GroupTagSlots
<1>3. id \in GroupIds /\ id \notin {"", Null}
  BY NullIsNoText DEF NamedGroups
<1>4. id # Null
  BY <1>3
<1>5. IsTags(tags) /\ ToSet(tags) = {one}
  BY <1>2, OneTag
<1>. HIDE DEF tags
<1>6. Among(tags, {x \in ToSet(tags) : At(x, 1) = "h" /\ At(x, 2) \notin {"", Null}}) = tags
  <2>1. tags \in Seq(ToSet(tags)) /\ \A x \in ToSet(tags) : At(x, 1) = "h" /\ At(x, 2) \notin {"", Null}
    BY <1>2, <1>3, <1>5 DEF IsTags, IsSequence
  <2>. QED BY <2>1, AmongAll
<1>7. {x[2] : x \in ToSet(tags)} = {id} /\ {ParseRelayUrl(At(x, 3)) : x \in ToSet(tags)} = {hint}
  <2>1. ParseRelayUrl(At(one, 3)) = hint
    BY <1>2, CanonicalHints
  <2>. QED BY <1>2, <1>5, <2>1
<1>8. SoleValue({x[2] : x \in ToSet(tags)}) = id
  BY <1>7, OneIsSole
<1>9. SoleValue({ParseRelayUrl(At(x, 3)) : x \in ToSet(tags)} \ {Null}) = hint
  <2>1. CASE hint = Null
    BY <1>7, <2>1, NothingIsSole
  <2>2. CASE hint # Null
    BY <1>7, <2>2, OneIsSole
  <2>. QED BY <2>1, <2>2
<1>10. PointerOf(tags) = [id |-> id, relayHint |-> hint]
  BY <1>4, <1>8, <1>9 DEF PointerOf
<1>11. [id |-> id, relayHint |-> hint] # Null
  BY <1>3, NothingAssumption DEF Canonical
<1>. QED BY <1>2, <1>5, <1>6, <1>10, <1>11 DEF Naming, tags, one

-----------------------------------------------------------------------------
(* Tags that name no group, and how they are put together.                 *)
IsPlainTag(tag) == IsSequence(tag) /\ At(tag, 1) # "h"

IsPlain(tags) == IsTags(tags) /\ NamesNoGroup(tags)

LEMMA Written ==
  /\ \A name, a : LET tag == <<name, a>> IN
       IsSequence(tag) /\ At(tag, 1) = name /\ At(tag, 2) = a /\ At(tag, 3) = Null
  /\ \A name, a, b : LET tag == <<name, a, b>> IN
       IsSequence(tag) /\ At(tag, 1) = name /\ At(tag, 2) = a /\ At(tag, 3) = b
  /\ \A name, a, b, c : LET tag == <<name, a, b, c>> IN
       IsSequence(tag) /\ At(tag, 1) = name /\ At(tag, 2) = a /\ At(tag, 3) = b
BY Slots, Tuples

LEMMA PlainWritten ==
  ASSUME NEW name, name # "h"
  PROVE  /\ \A a : IsPlainTag(<<name, a>>)
         /\ \A a, b : IsPlainTag(<<name, a, b>>)
         /\ \A a, b, c : IsPlainTag(<<name, a, b, c>>)
BY Written DEF IsPlainTag

LEMMA PlainNames ==
  \A name \in {"e", "p", "k", "a", "r", "d", "t", "relay", "challenge", "comment", "lnurl", "amount", "title",
               "summary", "image", "published_at", "fallback", "proof", "u", "unit", "bolt11", "description"} :
    /\ \A a : IsPlainTag(<<name, a>>)
    /\ \A a, b : IsPlainTag(<<name, a, b>>)
    /\ \A a, b, c : IsPlainTag(<<name, a, b, c>>)
BY PlainWritten

LEMMA PlainNone == IsPlain(<<>>) /\ ToSet(<<>>) = {}
BY NoTags DEF IsPlain, NamesNoGroup

LEMMA PlainOne ==
  \A tag : IsPlainTag(tag) => IsPlain(<< tag >>) /\ ToSet(<< tag >>) = {tag}
BY OneTag DEF IsPlain, IsPlainTag, NamesNoGroup

LEMMA PlainTwo ==
  \A x, y : IsPlainTag(x) /\ IsPlainTag(y) => IsPlain(<< x, y >>) /\ ToSet(<< x, y >>) = {x, y}
<1>. SUFFICES ASSUME NEW x, NEW y, IsPlainTag(x), IsPlainTag(y)
              PROVE  IsPlain(<< x, y >>) /\ ToSet(<< x, y >>) = {x, y}
  OBVIOUS
<1>. DEFINE two == << x, y >>
<1>1. IsTags(two) /\ ToSet(two) = {x, y}
  BY TwoTags DEF IsPlainTag
<1>. HIDE DEF two
<1>2. NamesNoGroup(two)
  BY <1>1 DEF NamesNoGroup, IsPlainTag
<1>. QED BY <1>1, <1>2 DEF IsPlain, two

LEMMA PlainThree ==
  \A x, y, z : IsPlainTag(x) /\ IsPlainTag(y) /\ IsPlainTag(z) =>
    IsPlain(<< x, y, z >>) /\ ToSet(<< x, y, z >>) = {x, y, z}
<1>. SUFFICES ASSUME NEW x, NEW y, NEW z, IsPlainTag(x), IsPlainTag(y), IsPlainTag(z)
              PROVE  IsPlain(<< x, y, z >>) /\ ToSet(<< x, y, z >>) = {x, y, z}
  OBVIOUS
<1>. DEFINE three == << x, y, z >>
<1>1. IsTags(three) /\ ToSet(three) = {x, y, z}
  BY ThreeTags DEF IsPlainTag
<1>. HIDE DEF three
<1>2. NamesNoGroup(three)
  BY <1>1 DEF NamesNoGroup, IsPlainTag
<1>. QED BY <1>1, <1>2 DEF IsPlain, three

LEMMA PlainBoth ==
  ASSUME NEW a, NEW b, IsPlain(a), IsPlain(b)
  PROVE  IsPlain(a \o b) /\ ToSet(a \o b) = ToSet(a) \cup ToSet(b)
<1>1. IsTags(a \o b) /\ ToSet(a \o b) = ToSet(a) \cup ToSet(b)
  BY ConcatTags DEF IsPlain
<1>. QED BY <1>1 DEF IsPlain, NamesNoGroup

LEMMA PlainSome ==
  ASSUME NEW a, IsPlain(a), NEW S
  PROVE  IsPlain(Among(a, S)) /\ ToSet(Among(a, S)) = {tag \in ToSet(a) : tag \in S}
<1>1. IsTags(Among(a, S)) /\ ToSet(Among(a, S)) = {tag \in ToSet(a) : tag \in S}
  BY SomeTags DEF IsPlain
<1>. QED BY <1>1 DEF IsPlain, NamesNoGroup

LEMMA PlainField ==
  ASSUME NEW name, name # "h", NEW value
  PROVE  IsPlain(TagOf(name, value)) /\ ToSet(TagOf(name, value)) = IF value = Null THEN {} ELSE {<<name, value>>}
<1>1. IsPlainTag(<<name, value>>)
  BY PlainWritten
<1>. QED BY <1>1, PlainNone, PlainOne DEF TagOf

LEMMA PlainEach ==
  ASSUME NEW name, name # "h", NEW s, IsSequence(s)
  PROVE  LET written == [i \in DOMAIN s |-> <<name, s[i]>>]
         IN  IsPlain(written) /\ ToSet(written) = {<<name, x>> : x \in ToSet(s)}
<1>. DEFINE written == [i \in DOMAIN s |-> <<name, s[i]>>]
<1>1. IsTags(written) /\ ToSet(written) = {<<name, x>> : x \in ToSet(s)}
  BY NamedEach
<1>. HIDE DEF written
<1>2. NamesNoGroup(written)
  BY <1>1, PlainWritten DEF NamesNoGroup, IsPlainTag
<1>. QED BY <1>1, <1>2 DEF IsPlain, written

-----------------------------------------------------------------------------
(* What each builder of an annotation writes.                              *)
LEMMA RepostTags ==
  ASSUME NEW target, NEW relay
  PROVE  LET repost     == BuildRepost(target, relay)
             coordinate == CoordinateOf(target)
         IN  /\ IsPlain(repost.tags)
             /\ ToSet(repost.tags) =
                  {<<"e", target.id, relay>>, <<"p", target.pubkey>>}
                    \cup (IF target.kind = KIND_TEXT_NOTE THEN {} ELSE {<<"k", DecimalText[target.kind]>>})
                    \cup (IF coordinate = Null THEN {} ELSE {<<"a", coordinate, relay>>})
<1>. DEFINE e          == <<"e", target.id, relay>>
            p          == <<"p", target.pubkey>>
            k          == <<"k", DecimalText[target.kind]>>
            coordinate == CoordinateOf(target)
            a          == <<"a", coordinate, relay>>
            ep         == << e, p >>
            ks         == IF target.kind = KIND_TEXT_NOTE THEN <<>> ELSE << k >>
            as         == IF coordinate = Null THEN <<>> ELSE << a >>
<1>1. IsPlainTag(e) /\ IsPlainTag(p) /\ IsPlainTag(k) /\ IsPlainTag(a)
  BY PlainNames
<1>2. BuildRepost(target, relay).tags = (ep \o ks) \o as
  BY DEF BuildRepost, Template
<1>. HIDE DEF e, p, k, a, coordinate
<1>3. IsPlain(ep) /\ ToSet(ep) = {e, p}
  BY <1>1, PlainTwo
<1>4. IsPlain(ks) /\ ToSet(ks) = IF target.kind = KIND_TEXT_NOTE THEN {} ELSE {k}
  BY <1>1, PlainNone, PlainOne
<1>5. IsPlain(as) /\ ToSet(as) = IF coordinate = Null THEN {} ELSE {a}
  BY <1>1, PlainNone, PlainOne
<1>. HIDE DEF ep, ks, as
<1>6. IsPlain(ep \o ks) /\ ToSet(ep \o ks) = ToSet(ep) \cup ToSet(ks)
  BY <1>3, <1>4, PlainBoth
<1>7. IsPlain((ep \o ks) \o as) /\ ToSet((ep \o ks) \o as) = ToSet(ep \o ks) \cup ToSet(as)
  BY <1>5, <1>6, PlainBoth
<1>. QED BY <1>2, <1>3, <1>4, <1>5, <1>6, <1>7 DEF e, p, k, a, coordinate

LEMMA ReactionTags ==
  ASSUME NEW target, NEW reaction, NEW relay
  PROVE  LET tags       == BuildReaction(target, reaction, relay).tags
             hint       == relay ?? ""
             coordinate == AddressableCoordinateOf(target)
         IN  /\ IsPlain(tags)
             /\ ToSet(tags) =
                  {<<"e", target.id, hint, target.pubkey>>,
                   IF hint = "" THEN <<"p", target.pubkey>> ELSE <<"p", target.pubkey, hint>>,
                   <<"k", DecimalText[target.kind]>>}
                    \cup (IF coordinate = Null THEN {} ELSE {<<"a", coordinate, hint, target.pubkey>>})
<1>. DEFINE hint       == relay ?? ""
            e          == <<"e", target.id, hint, target.pubkey>>
            p          == IF hint = "" THEN <<"p", target.pubkey>> ELSE <<"p", target.pubkey, hint>>
            k          == <<"k", DecimalText[target.kind]>>
            coordinate == AddressableCoordinateOf(target)
            a          == <<"a", coordinate, hint, target.pubkey>>
            epk        == << e, p, k >>
            as         == IF coordinate = Null THEN <<>> ELSE << a >>
<1>. HIDE DEF hint
<1>1. IsPlainTag(e) /\ IsPlainTag(p) /\ IsPlainTag(k) /\ IsPlainTag(a)
  BY PlainNames
<1>2. BuildReaction(target, reaction, relay).tags = epk \o as
  BY DEF BuildReaction, Template, hint
<1>. HIDE DEF e, p, k, a, coordinate
<1>3. IsPlain(epk) /\ ToSet(epk) = {e, p, k}
  BY <1>1, PlainThree
<1>4. IsPlain(as) /\ ToSet(as) = IF coordinate = Null THEN {} ELSE {a}
  BY <1>1, PlainNone, PlainOne
<1>. HIDE DEF epk, as
<1>5. IsPlain(epk \o as) /\ ToSet(epk \o as) = ToSet(epk) \cup ToSet(as)
  BY <1>3, <1>4, PlainBoth
<1>. QED BY <1>2, <1>3, <1>4, <1>5 DEF hint, e, p, k, a, coordinate

LEMMA DeletionTags ==
  ASSUME NEW author, NEW target
  PROVE  LET tags == (<< <<"e", target.id>> >> \o TagOf("a", CoordinateOf(target)))
                        \o << <<"k", DecimalText[target.kind]>> >>
         IN  /\ IsPlain(tags)
             /\ ToSet(tags) = {<<"e", target.id>>, <<"k", DecimalText[target.kind]>>}
                                \cup (IF CoordinateOf(target) = Null THEN {} ELSE {<<"a", CoordinateOf(target)>>})
<1>. DEFINE e          == <<"e", target.id>>
            k          == <<"k", DecimalText[target.kind]>>
            coordinate == CoordinateOf(target)
            as         == TagOf("a", coordinate)
            es         == << e >>
            ks         == << k >>
<1>1. IsPlain(es) /\ ToSet(es) = {e} /\ IsPlain(ks) /\ ToSet(ks) = {k}
  BY PlainNames, PlainOne
<1>2. IsPlain(as) /\ ToSet(as) = IF coordinate = Null THEN {} ELSE {<<"a", coordinate>>}
  BY PlainField
<1>. HIDE DEF e, k, as, es, ks, coordinate
<1>3. IsPlain(es \o as) /\ ToSet(es \o as) = ToSet(es) \cup ToSet(as)
  BY <1>1, <1>2, PlainBoth
<1>4. IsPlain((es \o as) \o ks) /\ ToSet((es \o as) \o ks) = ToSet(es \o as) \cup ToSet(ks)
  BY <1>1, <1>3, PlainBoth
<1>. QED BY <1>1, <1>2, <1>3, <1>4 DEF e, k, as, es, ks, coordinate

LEMMA HighlightTags ==
  ASSUME NEW source
  PROVE  LET tags == TagOf("a", CoordinateOf(source)) \o << <<"e", source.id>>, <<"p", source.pubkey>> >>
         IN  /\ IsPlain(tags)
             /\ ToSet(tags) = {<<"e", source.id>>, <<"p", source.pubkey>>}
                                \cup (IF CoordinateOf(source) = Null THEN {} ELSE {<<"a", CoordinateOf(source)>>})
<1>. DEFINE e          == <<"e", source.id>>
            p          == <<"p", source.pubkey>>
            coordinate == CoordinateOf(source)
            as         == TagOf("a", coordinate)
            ep         == << e, p >>
<1>1. IsPlain(ep) /\ ToSet(ep) = {e, p}
  BY PlainNames, PlainTwo
<1>2. IsPlain(as) /\ ToSet(as) = IF coordinate = Null THEN {} ELSE {<<"a", coordinate>>}
  BY PlainField
<1>. HIDE DEF e, p, as, ep, coordinate
<1>3. IsPlain(as \o ep) /\ ToSet(as \o ep) = ToSet(as) \cup ToSet(ep)
  BY <1>1, <1>2, PlainBoth
<1>. QED BY <1>1, <1>2, <1>3 DEF e, p, as, ep, coordinate

LEMMA PageHighlightTags ==
  ASSUME NEW page, NEW comment
  PROVE  LET tags == << <<"r", page, "source">> >> \o TagOf("comment", comment)
         IN  /\ IsPlain(tags)
             /\ ToSet(tags) = {<<"r", page, "source">>} \cup (IF comment = Null THEN {} ELSE {<<"comment", comment>>})
<1>. DEFINE r  == <<"r", page, "source">>
            rs == << r >>
            cs == TagOf("comment", comment)
<1>1. IsPlain(rs) /\ ToSet(rs) = {r}
  BY PlainNames, PlainOne
<1>2. IsPlain(cs) /\ ToSet(cs) = IF comment = Null THEN {} ELSE {<<"comment", comment>>}
  BY PlainField
<1>. HIDE DEF r, rs, cs
<1>3. IsPlain(rs \o cs) /\ ToSet(rs \o cs) = ToSet(rs) \cup ToSet(cs)
  BY <1>1, <1>2, PlainBoth
<1>. QED BY <1>1, <1>2, <1>3 DEF r, rs, cs

LEMMA OtherReactionTags ==
  ASSUME NEW target, IsTags(target.tags)
  PROVE  LET named == Among(target.tags, {tag \in ToSet(target.tags) : At(tag, 1) \in {"e", "p"}})
             last  == << <<"e", target.id>>, <<"p", target.pubkey>> >>
         IN  /\ IsPlain(named) /\ ToSet(named) = {tag \in ToSet(target.tags) : At(tag, 1) \in {"e", "p"}}
             /\ IsPlain(last) /\ ToSet(last) = {<<"e", target.id>>, <<"p", target.pubkey>>}
             /\ IsPlain(named \o last)
<1>. DEFINE S     == {tag \in ToSet(target.tags) : At(tag, 1) \in {"e", "p"}}
            named == Among(target.tags, S)
            last  == << <<"e", target.id>>, <<"p", target.pubkey>> >>
<1>1. \A tag \in S : tag \in ToSet(target.tags) /\ At(tag, 1) \in {"e", "p"}
  OBVIOUS
<1>2. IsTags(named) /\ ToSet(named) = {tag \in ToSet(target.tags) : tag \in S}
  <2>. HIDE DEF S
  <2>. QED BY SomeTags
<1>3. ToSet(named) = S
  BY <1>2
<1>. HIDE DEF S, named
<1>4. IsPlain(named)
  BY <1>1, <1>2, <1>3 DEF IsPlain, NamesNoGroup
<1>5. IsPlain(last) /\ ToSet(last) = {<<"e", target.id>>, <<"p", target.pubkey>>}
  BY PlainNames, PlainTwo
<1>. HIDE DEF last
<1>6. IsPlain(named \o last)
  BY <1>4, <1>5, PlainBoth
<1>. QED BY <1>3, <1>4, <1>5, <1>6 DEF named, last, S

LEMMA OtherHighlightTags ==
  ASSUME NEW mentioned, NEW page
  PROVE  LET tags == << <<"r", "a text">>, <<"r", mentioned, "mention">>, <<"r", page>> >>
         IN  IsPlain(tags) /\ ToSet(tags) = {<<"r", "a text">>, <<"r", mentioned, "mention">>, <<"r", page>>}
BY PlainNames, PlainThree

LEMMA StartsWith ==
  ASSUME NEW T, NEW s \in Seq(T), NEW t \in Seq(T), Len(s) = 1
  PROVE  (s \o t)[1] = s[1] /\ Len(s \o t) >= 1
<1>1. Len(s) \in Nat /\ Len(t) \in Nat /\ 1 \in 1..(Len(s) + Len(t)) /\ 1 <= Len(s)
  BY TypedSequence
<1>2. Len(s \o t) = Len(s) + Len(t)
  BY ConcatProperties
<1>3. (s \o t)[1] = IF 1 <= Len(s) THEN s[1] ELSE t[1 - Len(s)]
  BY <1>1, ConcatProperties
<1>. QED BY <1>1, <1>2, <1>3

LEMMA NamedList ==
  ASSUME NEW name, NEW s, IsSequence(s)
  PROVE  IsSequence(<<name>> \o s) /\ At(<<name>> \o s, 1) = name
<1>. DEFINE T   == ToSet(s) \cup {name}
            one == <<name>>
<1>1. s \in Seq(T)
  BY Wider DEF IsSequence
<1>2. one \in Seq(T) /\ Len(one) = 1 /\ one[1] = name
  OBVIOUS
<1>. HIDE DEF one, T
<1>3. one \o s \in Seq(T)
  BY <1>1, <1>2, ConcatSet
<1>4. (one \o s)[1] = name /\ Len(one \o s) >= 1
  BY <1>1, <1>2, StartsWith
<1>5. At(one \o s, 1) = name
  BY <1>3, <1>4 DEF At
<1>6. IsSequence(one \o s)
  BY <1>3, TypedSequence
<1>. QED BY <1>5, <1>6 DEF one

LEMMA ZapRequestTags ==
  ASSUME NEW input, IsSequence(input.relayUrls), BuildZapRequest(input) # Null
  PROVE  /\ BuildZapRequest(input).kind = KIND_ZAP_REQUEST
         /\ IsPlain(BuildZapRequest(input).tags)
         /\ <<"p", input.recipientPubkey>> \in ToSet(BuildZapRequest(input).tags)
<1>. DEFINE target == input.target
            relays == <<"relays">> \o input.relayUrls
            amount == <<"amount", DecimalText[input.amountMillisats]>>
            ra     == << relays, amount >>
            ls     == TagOf("lnurl", input.lnurl)
            p      == <<"p", input.recipientPubkey>>
            ps     == << p >>
            ek     == << <<"e", target.id>>, <<"k", DecimalText[target.kind]>> >>
            as     == TagOf("a", AddressableCoordinateOf(target))
            about  == IF target = Null THEN <<>> ELSE ek \o as
<1>1. /\ BuildZapRequest(input).kind = KIND_ZAP_REQUEST
      /\ BuildZapRequest(input).tags = ((ra \o ls) \o ps) \o about
  BY DEF BuildZapRequest, Template
<1>2. IsPlainTag(relays)
  BY NamedList DEF IsPlainTag
<1>3. IsPlainTag(amount) /\ IsPlainTag(p) /\ IsPlainTag(<<"e", target.id>>) /\ IsPlainTag(<<"k", DecimalText[target.kind]>>)
  BY PlainNames
<1>. HIDE DEF relays, amount, p
<1>4. IsPlain(ra) /\ IsPlain(ps) /\ ToSet(ps) = {p} /\ IsPlain(ek)
  BY <1>2, <1>3, PlainOne, PlainTwo
<1>5. IsPlain(ls) /\ IsPlain(as)
  BY PlainField
<1>. HIDE DEF ra, ls, ps, ek, as
<1>6. IsPlain(about)
  BY <1>4, <1>5, PlainNone, PlainBoth
<1>7. IsPlain(ra \o ls)
  BY <1>4, <1>5, PlainBoth
<1>8. IsPlain((ra \o ls) \o ps) /\ p \in ToSet((ra \o ls) \o ps)
  BY <1>4, <1>7, PlainBoth
<1>. HIDE DEF about
<1>9. IsPlain(((ra \o ls) \o ps) \o about) /\ p \in ToSet(((ra \o ls) \o ps) \o about)
  BY <1>6, <1>8, PlainBoth
<1>. QED BY <1>1, <1>9 DEF p

LEMMA ReceiptTags ==
  ASSUME NEW invoices, IsSequence(invoices), NEW description
  PROVE  /\ Receipt(invoices, description).kind = KIND_ZAP_RECEIPT
         /\ IsPlain(Receipt(invoices, description).tags)
<1>. DEFINE bolts == [i \in DOMAIN invoices |-> <<"bolt11", invoices[i]>>]
            ds    == << <<"description", description>> >>
<1>1. IsPlain(bolts)
  BY PlainEach
<1>2. IsPlain(ds)
  BY PlainNames, PlainOne
<1>3. /\ Receipt(invoices, description).tags = bolts \o ds
      /\ Receipt(invoices, description).kind = KIND_ZAP_RECEIPT
  BY DEF Receipt, Template
<1>. HIDE DEF bolts, ds
<1>. QED BY <1>1, <1>2, <1>3, PlainBoth

LEMMA NutzapTags ==
  ASSUME NEW proofs \in Proofs, NEW unit, NEW recipient, NEW mint
  PROVE  IsPlain(([i \in DOMAIN proofs |-> <<"proof", proofs[i]>>] \o TagOf("unit", unit))
                   \o << <<"p", recipient>>, <<"u", mint>> >>)
<1>. DEFINE ps == [i \in DOMAIN proofs |-> <<"proof", proofs[i]>>]
            us == TagOf("unit", unit)
            pu == << <<"p", recipient>>, <<"u", mint>> >>
<1>1. IsPlain(ps)
  BY ProofsAssumption, PlainEach
<1>2. IsPlain(us)
  BY PlainField
<1>3. IsPlain(pu)
  BY PlainNames, PlainTwo
<1>. HIDE DEF ps, us, pu
<1>4. IsPlain(ps \o us)
  BY <1>1, <1>2, PlainBoth
<1>5. IsPlain((ps \o us) \o pu)
  BY <1>3, <1>4, PlainBoth
<1>. QED BY <1>5 DEF ps, us, pu

-----------------------------------------------------------------------------
(* Tags whose group tags name groups that something is posted to.          *)
IsPosted(tags) == IsTags(tags) /\ \A tag \in ToSet(Naming(tags)) : tag[2] \in GroupIds

LEMMA PlainPosted == ASSUME NEW tags, IsPlain(tags) PROVE IsPosted(tags)
BY NamingNone, NoTags DEF IsPlain, IsPosted

LEMMA RegularIsNameable ==
  ASSUME NEW kind, NEW pubkey, NEW tags, KindCategory(kind) = "regular" PROVE IsNameable(kind, pubkey, tags)
BY DEF IsNameable, CoordinateIdentifier

LEMMA NamingBefore ==
  ASSUME NEW a, NEW b, IsTags(a), IsTags(b), NamesNoGroup(b) PROVE Naming(a \o b) = Naming(a)
<1>. DEFINE S == {tag \in ToSet(a \o b) : At(tag, 1) = "h" /\ At(tag, 2) \notin {"", Null}}
            R == {tag \in ToSet(a) : At(tag, 1) = "h" /\ At(tag, 2) \notin {"", Null}}
<1>1. ToSet(a \o b) = ToSet(a) \cup ToSet(b) /\ Among(a \o b, S) = Among(a, S) \o Among(b, S)
  <2>. HIDE DEF S
  <2>. QED BY ConcatTags
<1>2. a \in Seq(ToSet(a)) /\ b \in Seq(ToSet(b))
  BY DEF IsTags, IsSequence
<1>3. Among(b, S) = <<>>
  BY <1>2, AmongNone DEF NamesNoGroup
<1>4. Among(a, S) = Among(a, R)
  <2>1. \A tag \in ToSet(a) : tag \in S <=> tag \in R
    BY <1>1
  <2>. HIDE DEF S, R
  <2>. QED BY <1>2, <2>1, AmongAgrees
<1>5. Among(a, R) \in Seq(ToSet(a))
  BY <1>2, AmongSelects
<1>. HIDE DEF S, R
<1>6. Among(a \o b, S) = Among(a, R)
  BY <1>1, <1>3, <1>4, <1>5, ConcatEmptySeq
<1>. QED BY <1>6 DEF Naming, S, R

LEMMA MentionsArePlain ==
  ASSUME NEW tags, AreMentions(tags) PROVE IsPlain(tags)
<1>1. ASSUME NEW tag \in ToSet(tags) PROVE At(tag, 1) # "h"
  <2>1. Len(tag) \in Nat /\ Len(tag) >= 2 /\ tag[1] \in {"p", "q", "t"}
    BY TypedSequence DEF AreMentions, IsMention, IsSequence
  <2>2. At(tag, 1) = tag[1]
    BY <2>1 DEF At
  <2>. QED BY <2>1, <2>2
<1>. QED BY <1>1 DEF IsPlain, NamesNoGroup, AreMentions

(* The group a chosen pointer is made of.                                  *)
LEMMA ReadGroup ==
  ASSUME NEW tags, IsPosted(tags), PointerOf(Naming(tags)) # Null
  PROVE  LET pointer == PointerOf(Naming(tags))
         IN  /\ pointer.id \in NamedGroups /\ pointer.relayHint \in Canonical
             /\ Naming(tags) # <<>>
<1>. DEFINE naming  == Naming(tags)
            ids     == {tag[2] : tag \in ToSet(naming)}
            hints   == {ParseRelayUrl(At(tag, 3)) : tag \in ToSet(naming)} \ {Null}
<1>1. \A tag \in ToSet(naming) : tag[2] \in GroupIds /\ At(tag, 2) \notin {"", Null}
  BY NamingIn DEF IsPosted
<1>. HIDE DEF naming
<1>2. \A tag \in ToSet(naming) : tag[2] = At(tag, 2)
  BY <1>1 DEF At
<1>3. ids \subseteq NamedGroups
  BY <1>1, <1>2 DEF NamedGroups
<1>4. hints \subseteq Canonical
  BY ParsedIsCanonical
<1>5. /\ SoleValue(ids) # Null
      /\ PointerOf(naming) = [id |-> SoleValue(ids), relayHint |-> SoleValue(hints)]
  BY DEF PointerOf, naming
<1>. HIDE DEF ids, hints
<1>6. SoleValue(ids) \in ids
  BY <1>5 DEF SoleValue
<1>7. SoleValue(hints) \in Canonical
  BY <1>4 DEF SoleValue, Canonical
<1>8. naming # <<>>
  <2>1. ids # {}
    BY <1>6
  <2>. QED BY <2>1, NoTags DEF ids
<1>. QED BY <1>3, <1>5, <1>6, <1>7, <1>8 DEF naming

LEMMA Holds == ASSUME NEW x PROVE x \in ToSet(<< x >>)
<1>1. DOMAIN << x >> = 1..1 /\ << x >>[1] = x
  OBVIOUS
<1>. QED BY <1>1 DEF ToSet

-----------------------------------------------------------------------------
(* The group an annotation is given, and what its tags then name.          *)
KeepsGroup(choice, relay, tags, about) ==
  LET pointer == PointerOf(Naming(tags))
      named   == PointerOf(Naming(about.tags))
  IN  /\ choice.type = "target" =>
           /\ Naming(tags) = <<>> <=> Naming(about.tags) = <<>>
           /\ pointer = Null <=> named = Null
           /\ pointer # Null => pointer.id = named.id /\ pointer.relayHint = relay ?? named.relayHint
      /\ choice.type = "known" => pointer = [id |-> choice.id, relayHint |-> relay]

AreGroupTags(tags) == IsTags(tags) /\ \A tag \in ToSet(tags) : At(tag, 1) = "h"

LEMMA GroupsChosen ==
  ASSUME IsWellFormed(Target), NEW choice \in GroupChoices, NEW relay \in Hints,
         NEW groupTags,
         groupTags = (IF DOMAIN Chosen(choice) = {} THEN <<>> ELSE GroupTagsFor(Chosen(choice), relay)),
         Null \notin ToSet(groupTags)
  PROVE  /\ AreGroupTags(groupTags)
         /\ \A tag \in ToSet(Naming(groupTags)) : tag[2] \in GroupIds
         /\ KeepsGroup(choice, relay, groupTags, Target)
<1>. DEFINE group == Chosen(choice)
<1>1. IsPosted(Target.tags) /\ "tags" \in DOMAIN Target
  BY PointersByNaming DEF IsWellFormed, IsPosted
<1>2. relay \in Canonical
  BY HintsAreCanonical
<1>3. ASSUME NEW id \in NamedGroups, NEW hint \in Canonical, groupTags = << GroupTag(id, hint) >>
      PROVE  /\ AreGroupTags(groupTags) /\ Naming(groupTags) = groupTags /\ groupTags # <<>>
             /\ \A tag \in ToSet(Naming(groupTags)) : tag[2] \in GroupIds
             /\ PointerOf(Naming(groupTags)) = [id |-> id, relayHint |-> hint]
             /\ PointerOf(Naming(groupTags)) # Null
  <2>. DEFINE one == GroupTag(id, hint)
  <2>1. /\ IsTags(groupTags) /\ ToSet(groupTags) = {one}
        /\ At(one, 1) = "h" /\ At(one, 2) = id
        /\ Naming(groupTags) = groupTags
        /\ PointerOf(groupTags) = [id |-> id, relayHint |-> hint]
        /\ PointerOf(groupTags) # Null
    BY <1>3, OneGroupTag
  <2>. HIDE DEF one
  <2>2. id \in GroupIds /\ id # Null
    BY NullIsNoText DEF NamedGroups
  <2>3. one[2] = id
    BY <2>1, <2>2 DEF At
  <2>4. groupTags # <<>>
    BY <2>1, NoTags
  <2>. QED BY <2>1, <2>2, <2>3, <2>4 DEF AreGroupTags
<1>4. CASE choice.type = "none"
  <2>1. groupTags = <<>>
    BY <1>4 DEF Chosen, NoGroup
  <2>2. Naming(<<>>) = <<>>
    BY NoTags DEF Naming
  <2>. QED BY <1>4, <2>1, <2>2, NoTags DEF AreGroupTags, KeepsGroup
<1>5. CASE choice.type = "target"
  <2>1. group = Target
    BY <1>5 DEF Chosen
  <2>2. GroupPointerOf(Target) = PointerOf(Naming(Target.tags)) /\ NamingGroupTags(Target) = Naming(Target.tags)
    BY PointersByNaming
  <2>. DEFINE naming == Naming(Target.tags)
              named  == PointerOf(naming)
  <2>3. groupTags = IF named = Null THEN naming ELSE << GroupTag(named.id, relay ?? named.relayHint) >>
    BY <1>1, <2>1, <2>2 DEF GroupTagsFor
  <2>4. CASE named = Null
    <3>1. groupTags = naming
      BY <2>3, <2>4
    <3>2. Naming(naming) = naming
      BY <1>1, NamingAgain DEF IsPosted
    <3>3. AreGroupTags(naming) /\ \A tag \in ToSet(naming) : tag[2] \in GroupIds
      BY <1>1, NamingIn DEF AreGroupTags, IsPosted
    <3>. HIDE DEF naming
    <3>4. KeepsGroup(choice, relay, naming, Target)
      BY <1>5, <2>4, <3>2 DEF KeepsGroup, naming
    <3>. QED BY <3>1, <3>2, <3>3, <3>4
  <2>5. CASE named # Null
    <3>1. named.id \in NamedGroups /\ named.relayHint \in Canonical /\ naming # <<>>
      BY <1>1, <2>5, ReadGroup
    <3>. HIDE DEF naming
    <3>. DEFINE id   == named.id
                hint == relay ?? named.relayHint
    <3>2. hint \in Canonical
      BY <1>2, <3>1 DEF ??
    <3>3. groupTags = << GroupTag(id, hint) >>
      BY <2>3, <2>5
    <3>4. id \in NamedGroups
      BY <3>1
    <3>. HIDE DEF named, id, hint
    <3>5. /\ AreGroupTags(groupTags) /\ Naming(groupTags) = groupTags /\ groupTags # <<>>
          /\ \A tag \in ToSet(Naming(groupTags)) : tag[2] \in GroupIds
          /\ PointerOf(Naming(groupTags)) = [id |-> id, relayHint |-> hint]
          /\ PointerOf(Naming(groupTags)) # Null
      BY <1>3, <3>2, <3>3, <3>4
    <3>6. KeepsGroup(choice, relay, groupTags, Target)
      BY <1>5, <2>5, <3>1, <3>5 DEF KeepsGroup, naming, named, id, hint
    <3>. QED BY <3>5, <3>6
  <2>. QED BY <2>4, <2>5
<1>6. CASE choice.type = "known"
  <2>1. group = [id |-> choice.id] /\ choice.id \in Groups
    BY <1>6 DEF Chosen, GroupChoices
  <2>2. groupTags = << GroupTag(choice.id, relay) >>
    BY <2>1 DEF GroupTagsFor
  <2>3. choice.id \in NamedGroups
    <3>1. choice.id \in GroupIds
      BY <2>1 DEF GroupIds
    <3>2. GroupTag(choice.id, relay) # Null
      BY <2>2, Holds
    <3>3. choice.id # ""
      BY <3>2 DEF GroupTag
    <3>. QED BY <3>1, <3>3 DEF NamedGroups
  <2>. DEFINE id == choice.id
  <2>. HIDE DEF id
  <2>4. /\ AreGroupTags(groupTags)
        /\ \A tag \in ToSet(Naming(groupTags)) : tag[2] \in GroupIds
        /\ PointerOf(Naming(groupTags)) = [id |-> id, relayHint |-> relay]
    BY <1>2, <1>3, <2>2, <2>3 DEF id
  <2>. QED BY <1>6, <2>4 DEF KeepsGroup, id
<1>7. choice.type \in {"none", "target", "known"}
  BY DEF GroupChoices
<1>. QED BY <1>4, <1>5, <1>6, <1>7

LEMMA Grouped ==
  ASSUME IsWellFormed(Target), NEW choice \in GroupChoices, NEW relay \in Hints,
         NEW kind, NEW tags, NEW content, IsPlain(tags),
         WithGroupTag(Template(kind, tags, content), Chosen(choice), relay) # Null
  PROVE  \E groupTags :
           /\ AreGroupTags(groupTags)
           /\ WithGroupTag(Template(kind, tags, content), Chosen(choice), relay) = Template(kind, tags \o groupTags, content)
           /\ ToSet(tags \o groupTags) = ToSet(tags) \cup ToSet(groupTags)
           /\ IsPosted(tags \o groupTags)
           /\ KeepsGroup(choice, relay, tags \o groupTags, Target)
<1>. DEFINE groupTags == IF DOMAIN Chosen(choice) = {} THEN <<>> ELSE GroupTagsFor(Chosen(choice), relay)
            template  == Template(kind, tags, content)
<1>1. WithGroupTag(template, Chosen(choice), relay) =
        IF Null \in ToSet(groupTags) THEN Null ELSE [template EXCEPT !.tags = @ \o groupTags]
  BY DEF WithGroupTag
<1>. HIDE DEF groupTags
<1>2. [template EXCEPT !.tags = @ \o groupTags] = Template(kind, tags \o groupTags, content)
  <2>. DEFINE all == tags \o groupTags
  <2>1. template = [kind |-> kind, tags |-> tags, content |-> content] /\ template.tags = tags
    BY DEF Template
  <2>. HIDE DEF template, all
  <2>2. [template EXCEPT !.tags = all] = [kind |-> kind, tags |-> all, content |-> content]
    BY <2>1
  <2>. QED BY <2>1, <2>2 DEF Template, all
<1>3. Null \notin ToSet(groupTags)
  BY <1>1
<1>4. /\ AreGroupTags(groupTags)
      /\ \A tag \in ToSet(Naming(groupTags)) : tag[2] \in GroupIds
      /\ KeepsGroup(choice, relay, groupTags, Target)
  BY <1>3, GroupsChosen DEF groupTags
<1>5. Naming(tags \o groupTags) = Naming(groupTags)
  BY <1>4, NamingAfter DEF IsPlain, AreGroupTags
<1>6. IsTags(tags \o groupTags) /\ ToSet(tags \o groupTags) = ToSet(tags) \cup ToSet(groupTags)
  BY <1>4, ConcatTags DEF IsPlain, AreGroupTags
<1>7. IsPosted(tags \o groupTags)
  BY <1>4, <1>5, <1>6 DEF IsPosted
<1>8. KeepsGroup(choice, relay, tags \o groupTags, Target)
  BY <1>4, <1>5 DEF KeepsGroup
<1>9. WithGroupTag(template, Chosen(choice), relay) = Template(kind, tags \o groupTags, content)
  BY <1>1, <1>2, <1>3
<1>. HIDE DEF template
<1>10. \E g : /\ AreGroupTags(g)
              /\ WithGroupTag(template, Chosen(choice), relay) = Template(kind, tags \o g, content)
              /\ ToSet(tags \o g) = ToSet(tags) \cup ToSet(g)
              /\ IsPosted(tags \o g)
              /\ KeepsGroup(choice, relay, tags \o g, Target)
  BY <1>4, <1>6, <1>7, <1>8, <1>9
<1>. QED BY <1>10 DEF template

-----------------------------------------------------------------------------
(* Who a rumour tells.                                                     *)
LEMMA FiniteElements ==
  ASSUME NEW s, IsSequence(s) PROVE IsFiniteSet(ToSet(s))
<1>1. Len(s) \in Nat /\ DOMAIN s = 1..Len(s) /\ ToSet(s) = {s[i] : i \in 1..Len(s)}
  BY TypedSequence DEF IsSequence
<1>2. IsFiniteSet(1..Len(s))
  <2>1. Len(s) \in Nat
    BY <1>1
  <2>. QED BY <2>1, FS_Interval
<1>. DEFINE f == [i \in 1..Len(s) |-> s[i]]
<1>3. f \in Surjection(1..Len(s), ToSet(s))
  BY <1>1 DEF Surjection
<1>. HIDE DEF f
<1>. QED BY <1>2, <1>3, FS_Surjection DEF ExistsSurjection

Others(room) ==
  IF ToSet(room.receivers) \ {room.sender} = {} THEN {room.sender} ELSE ToSet(room.receivers) \ {room.sender}

LEMMA RoomsTell ==
  ASSUME NEW room \in Rooms
  PROVE  /\ IsPlain(RoomTags(room)) /\ ToSet(RoomTags(room)) = {<<"p", x>> : x \in Others(room)}
         /\ room.sender \in Pubkeys /\ Others(room) \subseteq Pubkeys /\ Others(room) # {}
         /\ {room.sender} \cup Others(room) = {room.sender} \cup ToSet(room.receivers)
<1>. DEFINE rest   == ToSet(room.receivers) \ {room.sender}
            others == SetToSeq(rest)
            each   == [i \in DOMAIN others |-> <<"p", others[i]>>]
            self   == << <<"p", room.sender>> >>
<1>1. room.sender \in Pubkeys /\ room.receivers \in Seq(Pubkeys)
  BY RoomsAssumption
<1>2. IsSequence(room.receivers) /\ ToSet(room.receivers) \subseteq Pubkeys
  BY <1>1, TypedSequence
<1>3. IsFiniteSet(rest)
  BY <1>2, FiniteElements, FS_Subset
<1>4. /\ room.sender \in Pubkeys /\ Others(room) \subseteq Pubkeys /\ Others(room) # {}
      /\ {room.sender} \cup Others(room) = {room.sender} \cup ToSet(room.receivers)
  BY <1>1, <1>2 DEF Others
<1>5. RoomTags(room) = IF others = <<>> THEN self ELSE each
  BY DEF RoomTags
<1>6. Others(room) = IF rest = {} THEN {room.sender} ELSE rest
  BY DEF Others
<1>. HIDE DEF rest
<1>7. IsSequence(others) /\ ToSet(others) = rest
  BY <1>3, EachListed
<1>. HIDE DEF others
<1>8. others = <<>> <=> rest = {}
  <2>1. others = <<>> => rest = {}
    BY <1>7, NoTags
  <2>2. others # <<>> => rest # {}
    BY <1>7, FirstAndLast
  <2>. QED BY <2>1, <2>2
<1>9. IsPlain(self) /\ ToSet(self) = {<<"p", room.sender>>}
  BY PlainNames, PlainOne
<1>10. IsPlain(each) /\ ToSet(each) = {<<"p", x>> : x \in rest}
  BY <1>7, PlainEach
<1>. HIDE DEF each, self
<1>11. IsPlain(RoomTags(room)) /\ ToSet(RoomTags(room)) = {<<"p", x>> : x \in Others(room)}
  BY <1>5, <1>6, <1>8, <1>9, <1>10
<1>. QED BY <1>4, <1>11

LEMMA Told ==
  ASSUME NEW tags, IsTags(tags), NEW S, S \subseteq Pubkeys,
         \A x \in S : <<"p", x>> \in ToSet(tags),
         \A tag \in ToSet(tags) : At(tag, 1) = "p" => \E x \in S : tag = <<"p", x>>
  PROVE  ExtractPubkeys(tags) = S
<1>. DEFINE values == {At(tag, 2) : tag \in {t \in ToSet(tags) : At(t, 1) = "p"}} \ {Null}
<1>1. ExtractPubkeys(tags) = values \cap Pubkeys
  BY ValuesNamed DEF ExtractPubkeys
<1>2. \A x \in S : At(<<"p", x>>, 1) = "p" /\ At(<<"p", x>>, 2) = x /\ x # Null
  BY Written, NullIsNoText
<1>3. S \subseteq values
  BY <1>2
<1>4. values \subseteq S
  BY <1>2
<1>. HIDE DEF values
<1>. QED BY <1>1, <1>3, <1>4

LEMMA EndsWith ==
  ASSUME NEW T, NEW s \in Seq(T), NEW x \in T PROVE Last(s \o << x >>) = x
<1>. DEFINE one == << x >>
<1>1. one \in Seq(T) /\ Len(one) = 1 /\ one[1] = x
  OBVIOUS
<1>. HIDE DEF one
<1>2. Len(s) \in Nat /\ Len(s) + 1 \in 1..(Len(s) + Len(one)) /\ ~(Len(s) + 1 <= Len(s)) /\ (Len(s) + 1) - Len(s) = 1
  BY <1>1, TypedSequence
<1>3. Len(s \o one) = Len(s) + 1
  BY <1>1, ConcatProperties
<1>4. (s \o one)[Len(s) + 1] = IF Len(s) + 1 <= Len(s) THEN s[Len(s) + 1] ELSE one[(Len(s) + 1) - Len(s)]
  BY <1>1, <1>2, ConcatProperties
<1>5. (s \o one)[Len(s \o one)] = x
  BY <1>1, <1>2, <1>3, <1>4
<1>. QED BY <1>5 DEF Last, one

LEMMA MessageTells ==
  ASSUME NEW room \in Rooms, NEW answered, answered = <<>> \/ \E id : answered = << <<"e", id>> >>
  PROVE  LET tags == RoomTags(room) \o answered
         IN  IsPlain(tags) /\ ExtractPubkeys(tags) = Others(room)
<1>. DEFINE tags == RoomTags(room) \o answered
<1>1. /\ IsPlain(RoomTags(room)) /\ ToSet(RoomTags(room)) = {<<"p", x>> : x \in Others(room)}
      /\ Others(room) \subseteq Pubkeys
  BY RoomsTell
<1>2. IsPlain(answered) /\ \A tag \in ToSet(answered) : At(tag, 1) # "p"
  <2>1. CASE answered = <<>>
    BY <2>1, PlainNone
  <2>2. CASE \E id : answered = << <<"e", id>> >>
    <3>1. PICK id : answered = << <<"e", id>> >>
      BY <2>2
    <3>. DEFINE e == <<"e", id>>
    <3>2. IsPlainTag(e) /\ At(e, 1) = "e"
      BY Written, PlainNames
    <3>. HIDE DEF e
    <3>3. IsPlain(answered) /\ ToSet(answered) = {e}
      BY <3>1, <3>2, PlainOne DEF e
    <3>. QED BY <3>2, <3>3
  <2>. QED BY <2>1, <2>2
<1>3. IsPlain(tags) /\ ToSet(tags) = ToSet(RoomTags(room)) \cup ToSet(answered)
  BY <1>1, <1>2, PlainBoth
<1>. HIDE DEF tags
<1>4. /\ \A x \in Others(room) : <<"p", x>> \in ToSet(tags)
      /\ \A tag \in ToSet(tags) : At(tag, 1) = "p" => \E x \in Others(room) : tag = <<"p", x>>
  BY <1>1, <1>2, <1>3
<1>5. IsTags(tags)
  BY <1>3 DEF IsPlain
<1>6. ExtractPubkeys(tags) = Others(room)
  BY <1>1, <1>4, <1>5, Told
<1>. QED BY <1>3, <1>6 DEF tags

LEMMA PrivateReactionTells ==
  ASSUME NEW room \in Rooms, NEW target, target.pubkey \in {room.sender} \cup ToSet(room.receivers), NEW k,
         IsPlainTag(k), At(k, 1) = "k"
  PROVE  LET e    == <<"e", target.id, "", target.pubkey>>
             p    == <<"p", target.pubkey>>
             tags == (<< e >> \o RemoveTag(RoomTags(room), "p", target.pubkey)) \o << p, k >>
         IN  /\ IsPlain(tags)
             /\ ExtractPubkeys(tags) = Others(room) \cup {target.pubkey}
             /\ Last(Tagged(tags, "p")) = p
<1>. DEFINE e     == <<"e", target.id, "", target.pubkey>>
            t     == target.pubkey
            p     == <<"p", t>>
            told  == RoomTags(room)
            kept  == {tag \in ToSet(told) : ~(At(tag, 1) = "p" /\ At(tag, 2) = t)}
            rest  == RemoveTag(told, "p", t)
            first == << e >>
            last  == << p, k >>
            front == first \o rest
            tags  == front \o last
            S     == Others(room) \cup {t}
            P     == {tag \in ToSet(tags) : At(tag, 1) = "p"}
<1>1. /\ IsPlain(told) /\ ToSet(told) = {<<"p", x>> : x \in Others(room)}
      /\ Others(room) \subseteq Pubkeys /\ room.sender \in Pubkeys
      /\ {room.sender} \cup Others(room) = {room.sender} \cup ToSet(room.receivers)
  BY RoomsTell
<1>2. S \subseteq Pubkeys
  BY <1>1
<1>3. /\ \A x : IsPlainTag(<<"p", x>>) /\ At(<<"p", x>>, 1) = "p" /\ At(<<"p", x>>, 2) = x
      /\ IsPlainTag(e) /\ At(e, 1) = "e"
  <2>1. \A x : IsPlainTag(<<"p", x>>)
    BY PlainNames
  <2>2. \A x : At(<<"p", x>>, 1) = "p" /\ At(<<"p", x>>, 2) = x
    BY Written
  <2>3. IsPlainTag(e)
    BY PlainNames
  <2>4. At(e, 1) = "e"
    <3>1. \A a, b, c : At(<<"e", a, b, c>>, 1) = "e"
      BY Written
    <3>. QED BY <3>1, Zenon
  <2>. QED BY <2>1, <2>2, <2>3, <2>4
<1>. HIDE DEF told, e
<1>4. IsPlain(rest) /\ ToSet(rest) = {tag \in ToSet(told) : tag \in kept}
  <2>. HIDE DEF kept
  <2>1. IsPlain(Among(told, kept)) /\ ToSet(Among(told, kept)) = {tag \in ToSet(told) : tag \in kept}
    BY <1>1, PlainSome
  <2>. QED BY <2>1 DEF RemoveTag, kept
<1>5. ToSet(rest) = {<<"p", x>> : x \in Others(room) \ {t}}
  BY <1>1, <1>3, <1>4
<1>6. IsPlain(first) /\ ToSet(first) = {e}
  BY <1>3, PlainOne
<1>7. IsPlain(last) /\ ToSet(last) = {p, k}
  BY <1>3, PlainTwo
<1>. HIDE DEF rest, first, kept
<1>8. IsPlain(front) /\ ToSet(front) = ToSet(first) \cup ToSet(rest)
  BY <1>4, <1>6, PlainBoth
<1>. HIDE DEF front
<1>9. IsPlain(tags) /\ ToSet(tags) = ToSet(front) \cup ToSet(last)
  <2>. HIDE DEF last
  <2>. QED BY <1>7, <1>8, PlainBoth
<1>10. /\ \A x \in S : <<"p", x>> \in ToSet(tags)
       /\ \A tag \in ToSet(tags) : At(tag, 1) = "p" => \E x \in S : tag = <<"p", x>>
  <2>1. ToSet(tags) = {e, p, k} \cup {<<"p", x>> : x \in Others(room) \ {t}}
    BY <1>5, <1>6, <1>7, <1>8, <1>9
  <2>. HIDE DEF tags
  <2>. QED BY <1>3, <2>1
<1>11. ExtractPubkeys(tags) = S
  <2>. HIDE DEF tags, S
  <2>. QED BY <1>2, <1>9, <1>10, Told DEF IsPlain
<1>12. Last(Tagged(tags, "p")) = p
  <2>1. p \in P /\ k \notin P
    BY <1>3, <1>7, <1>9
  <2>2. Among(tags, P) = Among(front, P) \o Among(last, P)
    <3>. HIDE DEF P, last
    <3>. QED BY <1>7, <1>8, ConcatTags DEF IsPlain
  <2>3. Among(last, P) = << p >>
    <3>1. IsSequence(p) /\ IsSequence(k)
      BY <1>3 DEF IsPlainTag
    <3>. HIDE DEF P, p
    <3>2. \A R : Among(<< p, k >>, R) = IF p \in R THEN IF k \in R THEN << p, k >> ELSE << p >>
                                        ELSE IF k \in R THEN << k >> ELSE <<>>
      BY <3>1, TwoTags
    <3>. QED BY <2>1, <3>2
  <2>. DEFINE T    == ToSet(front) \cup {p}
              some == Among(front, P)
  <2>4. some \in Seq(T)
    <3>1. front \in Seq(ToSet(front))
      BY <1>8 DEF IsPlain, IsTags, IsSequence
    <3>. HIDE DEF P, p
    <3>2. some \in Seq(ToSet(front))
      BY <3>1, AmongSelects
    <3>. HIDE DEF some
    <3>. QED BY <3>2, Wider
  <2>5. Tagged(tags, "p") = some \o << p >>
    BY <2>2, <2>3 DEF Tagged
  <2>6. p \in T
    OBVIOUS
  <2>. HIDE DEF some, T, p
  <2>7. Last(some \o << p >>) = p
    BY <2>4, <2>6, EndsWith
  <2>. QED BY <2>5, <2>7
<1>. QED BY <1>9, <1>11, <1>12 DEF told, e, rest, first, front

-----------------------------------------------------------------------------
(* What is published on its own names no group, unless it is posted to one *)
(* or its tags are what the caller gives.                                  *)
LEMMA PlainListed ==
  ASSUME NEW n \in Nat, NEW f, f = [i \in 1..n |-> f[i]], \A i \in 1..n : IsPlainTag(f[i])
  PROVE  IsPlain(f)
<1>. DEFINE V == {f[i] : i \in 1..n}
<1>1. f \in [1..n -> V]
  OBVIOUS
<1>2. \A tag \in V : IsPlainTag(tag)
  OBVIOUS
<1>. HIDE DEF V
<1>3. f \in Seq(V)
  BY <1>1, SeqDef
<1>4. IsSequence(f) /\ ToSet(f) \subseteq V
  BY <1>3, TypedSequence
<1>. QED BY <1>2, <1>4 DEF IsPlain, IsTags, IsPlainTag, NamesNoGroup

LEMMA TopicsArePlain ==
  ASSUME NEW topics, IsSequence(topics) PROVE IsPlain(TopicTags(topics))
<1>. DEFINE normalised == [i \in DOMAIN topics |-> NormaliseHashtag(topics[i])]
            first      == {i \in DOMAIN topics : \A j \in 1..(i - 1) : normalised[j] # normalised[i]}
            indices    == [i \in DOMAIN topics |-> i]
            chosen     == {i \in first : normalised[i] # Null}
            named      == Among(indices, chosen)
            written    == [i \in DOMAIN named |-> <<"t", normalised[named[i]]>>]
<1>1. TopicTags(topics) = written
  BY DEF TopicTags
<1>2. Len(topics) \in Nat /\ DOMAIN topics = 1..Len(topics)
  BY TypedSequence DEF IsSequence
<1>3. indices \in Seq(Nat)
  <2>1. indices \in [1..Len(topics) -> Nat]
    BY <1>2
  <2>. HIDE DEF indices
  <2>. QED BY <1>2, <2>1, SeqDef
<1>. HIDE DEF indices, chosen, normalised, first
<1>4. named \in Seq(Nat)
  BY <1>3, AmongSelects
<1>. HIDE DEF named
<1>5. Len(named) \in Nat /\ DOMAIN named = 1..Len(named)
  BY <1>4, TypedSequence
<1>6. \A x : IsPlainTag(<<"t", x>>)
  BY PlainNames
<1>7. written = [i \in 1..Len(named) |-> written[i]] /\ \A i \in 1..Len(named) : IsPlainTag(written[i])
  BY <1>5, <1>6
<1>. HIDE DEF written
<1>8. IsPlain(written)
  BY <1>5, <1>7, PlainListed
<1>. QED BY <1>1, <1>8

LEMMA LongformIsPlain ==
  ASSUME NEW input, IsSequence(input.topics), BuildLongform(input) # Null
  PROVE  IsPlain(BuildLongform(input).tags)
<1>. DEFINE d == << <<"d", input.dTag>> >>
            t == TagOf("title", input.title)
            s == TagOf("summary", input.summary)
            i == TagOf("image", input.image)
            p == IF input.publishedAt = Null THEN <<>> ELSE << <<"published_at", DecimalText[input.publishedAt]>> >>
            o == TopicTags(input.topics)
<1>1. BuildLongform(input).tags = ((((d \o t) \o s) \o i) \o p) \o o
  BY DEF BuildLongform, Template
<1>2. IsPlain(d) /\ IsPlain(p)
  BY PlainNames, PlainOne, PlainNone
<1>3. IsPlain(t) /\ IsPlain(s) /\ IsPlain(i)
  BY PlainField
<1>4. IsPlain(o)
  BY TopicsArePlain
<1>. HIDE DEF d, t, s, i, p, o
<1>5. IsPlain(d \o t)
  BY <1>2, <1>3, PlainBoth
<1>6. IsPlain((d \o t) \o s)
  BY <1>3, <1>5, PlainBoth
<1>7. IsPlain(((d \o t) \o s) \o i)
  BY <1>3, <1>6, PlainBoth
<1>8. IsPlain((((d \o t) \o s) \o i) \o p)
  BY <1>2, <1>7, PlainBoth
<1>9. IsPlain(((((d \o t) \o s) \o i) \o p) \o o)
  BY <1>4, <1>8, PlainBoth
<1>. QED BY <1>1, <1>9

LEMMA FieldNames ==
  /\ \E F : Fields \in Seq(F)
  /\ \A field \in ToSet(Fields) : field[2] # "h"
<1>1. DOMAIN Fields = 1..11 /\ Len(Fields) = 11
  BY DEF Fields
<1>2. \A i \in 1..11 : Fields[i][2] # "h"
  BY DEF Fields
<1>3. Fields = [i \in 1..11 |-> Fields[i]]
  BY DEF Fields
<1>. DEFINE F == {Fields[i] : i \in 1..11}
<1>4. Fields \in [1..11 -> F]
  BY <1>3
<1>. HIDE DEF F
<1>5. Fields \in Seq(F)
  BY <1>4, SeqDef
<1>6. \A field \in ToSet(Fields) : field[2] # "h"
  BY <1>1, <1>2 DEF ToSet
<1>. QED BY <1>5, <1>6

LEMMA FieldsArePlain ==
  ASSUME NEW metadata, "fallbacks" \in DOMAIN metadata => IsSequence(metadata["fallbacks"])
  PROVE  IsPlain(ToFields(metadata))
<1>. DEFINE S         == {field \in ToSet(Fields) : field[1] \in DOMAIN metadata}
            stated    == Among(Fields, S)
            fallbacks == IF "fallbacks" \in DOMAIN metadata THEN metadata["fallbacks"] ELSE <<>>
            written   == [i \in DOMAIN stated |-> <<stated[i][2], FieldText(metadata, stated[i][1])>>]
            more      == [i \in DOMAIN fallbacks |-> <<"fallback", fallbacks[i]>>]
<1>1. ToFields(metadata) = written \o more
  BY DEF ToFields
<1>2. IsSequence(fallbacks)
  BY NoTags DEF IsTags
<1>. HIDE DEF S, fallbacks
<1>3. IsPlain(more)
  BY <1>2, PlainEach
<1>4. PICK F : Fields \in Seq(F)
  BY FieldNames
<1>5. stated \in Seq(F) /\ ToSet(stated) = {x \in ToSet(Fields) : x \in S}
  BY <1>4, AmongSelects
<1>. HIDE DEF stated
<1>6. Len(stated) \in Nat /\ DOMAIN stated = 1..Len(stated) /\ \A i \in 1..Len(stated) : stated[i] \in ToSet(stated)
  BY <1>5, TypedSequence
<1>7. \A i \in 1..Len(stated) : stated[i][2] # "h"
  BY <1>5, <1>6, FieldNames
<1>8. \A i \in 1..Len(stated) : IsPlainTag(<<stated[i][2], FieldText(metadata, stated[i][1])>>)
  BY <1>7, PlainWritten
<1>9. written = [i \in 1..Len(stated) |-> written[i]] /\ \A i \in 1..Len(stated) : IsPlainTag(written[i])
  BY <1>6, <1>8
<1>. HIDE DEF written, more
<1>10. IsPlain(written)
  BY <1>6, <1>9, PlainListed
<1>. QED BY <1>1, <1>3, <1>10, PlainBoth

LEMMA GivenArePosted ==
  ASSUME NEW tags \in GivenTags, IsTags(tags) PROVE IsPosted(tags)
<1>1. NamingGroupTags([tags |-> tags]) = Naming(tags)
  BY DEF NamingGroupTags, Naming
<1>2. \A tag \in ToSet(NamingGroupTags([tags |-> tags])) : tag[2] \in GroupIds
  BY DEF GroupIds
<1>. QED BY <1>1, <1>2 DEF IsPosted

LEMMA MessageInGroup ==
  ASSUME NEW id \in NamedGroups, NEW hint \in Canonical, NEW content, IsContent(content)
  PROVE  LET tags == WithContentTags(<< GroupTag(id, hint) >>, content)
         IN  IsPosted(tags) /\ PointerOf(Naming(tags)) = [id |-> id, relayHint |-> hint]
<1>. DEFINE one    == GroupTag(id, hint)
            h      == << one >>
            beside == ContentTagsBeside(h, content)
<1>1. /\ IsTags(h) /\ ToSet(h) = {one} /\ At(one, 2) = id
      /\ Naming(h) = h /\ PointerOf(h) = [id |-> id, relayHint |-> hint]
  BY OneGroupTag
<1>2. id \in GroupIds /\ id # Null
  BY NullIsNoText DEF NamedGroups
<1>. HIDE DEF one
<1>3. one[2] = id
  BY <1>1, <1>2 DEF At
<1>. HIDE DEF h
<1>4. IsPlain(beside)
  BY BesideMentions, MentionsArePlain
<1>5. WithContentTags(h, content) = h \o beside
  BY DEF WithContentTags
<1>. HIDE DEF beside
<1>6. IsTags(h \o beside) /\ Naming(h \o beside) = h
  BY <1>1, <1>4, NamingBefore, ConcatTags DEF IsPlain
<1>. QED BY <1>1, <1>2, <1>3, <1>5, <1>6 DEF IsPosted, h, one

(* What is built on its own is posted to the group it is given, if any.    *)
LEMMA BuiltArePosted ==
  ASSUME NEW publication \in Publications, Built(publication) # Null
  PROVE  /\ IsPosted(Built(publication).tags)
         /\ publication.by = "groupChat" =>
              PointerOf(Naming(Built(publication).tags))
                = [id |-> publication.given.id, relayHint |-> publication.given.relayHint]
<1>. DEFINE by == publication.by
            given == publication.given
            tags  == Built(publication).tags
<1>1. CASE by = "note"
  <2>1. Built(publication).tags = <<>> \o ContentTagsBeside(<<>>, given)
    BY <1>1 DEF Built, BuildTextNote, Template, WithContentTags
  <2>2. IsContent(given)
    BY <1>1, PublicationsAssumption
  <2>3. IsPlain(ContentTagsBeside(<<>>, given))
    BY <2>2, BesideMentions, MentionsArePlain
  <2>4. IsPlain(tags)
    BY <2>1, <2>3, PlainNone, PlainBoth
  <2>. QED BY <1>1, <2>4, PlainPosted
<1>2. CASE by = "longform"
  <2>1. Built(publication) = BuildLongform(given)
    BY <1>2 DEF Built
  <2>2. IsSequence(given.topics)
    BY <1>2, PublicationsAssumption
  <2>. QED BY <1>2, <2>1, <2>2, LongformIsPlain, PlainPosted
<1>3. CASE by = "draftWrap"
  <2>1. Built(publication).tags = << <<"d", given.dTag>>, <<"k", DecimalText[given.draftKind]>> >>
    BY <1>3 DEF Built, BuildDraftWrap, Template
  <2>2. IsPlain(tags)
    BY <2>1, PlainNames, PlainTwo
  <2>. QED BY <1>3, <2>2, PlainPosted
<1>4. CASE by = "appSettings"
  <2>1. Built(publication).tags = << <<"d", given>> >>
    BY <1>4 DEF Built, BuildAppSettings, Template
  <2>2. IsPlain(tags)
    BY <2>1, PlainNames, PlainOne
  <2>. QED BY <1>4, <2>2, PlainPosted
<1>5. CASE by = "metadata"
  <2>1. Built(publication).tags = <<>>
    BY <1>5 DEF Built, BuildMetadata, Template
  <2>. QED BY <1>5, <2>1, PlainNone, PlainPosted
<1>6. CASE by = "relayList"
  <2>1. Built(publication).tags = given
    BY <1>6 DEF Built, BuildRelayList, Template
  <2>2. IsTags(given) /\ given \in GivenTags
    BY <1>6, PublicationsAssumption DEF GivenTags
  <2>. QED BY <1>6, <2>1, <2>2, GivenArePosted
<1>7. CASE by = "clientAuth"
  <2>1. Built(publication).tags = << <<"relay", given.relay>>, <<"challenge", given.challenge>> >>
    BY <1>7 DEF Built, BuildClientAuth, Template
  <2>2. IsPlain(tags)
    BY <2>1, PlainNames, PlainTwo
  <2>. QED BY <1>7, <2>2, PlainPosted
<1>8. CASE by = "file"
  <2>1. Built(publication) = BuildFileMetadataEvent(given, "")
    BY <1>8 DEF Built
  <2>2. Built(publication).tags = ToFields(given)
    <3>. DEFINE caption == ""
    <3>1. Built(publication) = [kind |-> KIND_FILE_METADATA, tags |-> ToFields(given), content |-> caption]
      BY <2>1, Zenon DEF BuildFileMetadataEvent
    <3>. HIDE DEF caption
    <3>. QED BY <3>1
  <2>3. "fallbacks" \in DOMAIN given => IsSequence(given["fallbacks"])
    BY <1>8, PublicationsAssumption DEF IsFileMetadata
  <2>. QED BY <1>8, <2>2, <2>3, FieldsArePlain, PlainPosted
<1>9. CASE by = "imeta"
  <2>1. Built(publication) =
          IF BuildImetaTag(given) = Null THEN Null ELSE Template(KIND_TEXT_NOTE, << BuildImetaTag(given) >>, "")
    BY <1>9 DEF Built
  <2>2. tags = << BuildImetaTag(given) >> /\ BuildImetaTag(given) # Null
    <3>1. BuildImetaTag(given) # Null
      BY <2>1
    <3>. DEFINE content == ""
    <3>2. Built(publication) = [kind |-> KIND_TEXT_NOTE, tags |-> << BuildImetaTag(given) >>, content |-> content]
      BY <2>1, <3>1, Zenon DEF Template
    <3>. HIDE DEF content
    <3>. QED BY <3>1, <3>2
  <2>3. "fallbacks" \in DOMAIN given => IsSequence(given["fallbacks"])
    BY <1>9, PublicationsAssumption DEF IsFileMetadata
  <2>4. BuildImetaTag(given) = <<"imeta">> \o ToFields(given)
    BY <2>2 DEF BuildImetaTag
  <2>5. IsSequence(ToFields(given))
    BY <2>3, FieldsArePlain DEF IsPlain, IsTags
  <2>6. IsPlainTag(<<"imeta">> \o ToFields(given))
    BY <2>5, NamedList DEF IsPlainTag
  <2>7. IsPlain(tags)
    BY <2>2, <2>4, <2>6, PlainOne
  <2>. QED BY <1>9, <2>7, PlainPosted
<1>10. CASE by = "groupChat"
  <2>1. Built(publication) = BuildGroupChatMessage(given.id, given.relayHint, given.content)
    BY <1>10 DEF Built
  <2>2. IsContent(given.content) /\ given.relayHint \in Canonical
    <3>1. IsContent(given.content) /\ ParseRelayUrl(given.relayHint) = given.relayHint
      BY <1>10, PublicationsAssumption
    <3>. QED BY <3>1, ParsedIsCanonical
  <2>3. given.id \in NamedGroups
    <3>1. given.id \in GroupIds
      BY <1>10 DEF GroupIds
    <3>2. given.id # ""
      BY <2>1 DEF BuildGroupChatMessage
    <3>. QED BY <3>1, <3>2 DEF NamedGroups
  <2>4. given.id # ""
    BY <2>3 DEF NamedGroups
  <2>5. tags = WithContentTags(<< GroupTag(given.id, given.relayHint) >>, given.content)
    <3>1. Built(publication) =
            [kind    |-> KIND_CHAT_MESSAGE,
             tags    |-> WithContentTags(<< GroupTag(given.id, given.relayHint) >>, given.content),
             content |-> given.content]
      BY <2>1, <2>4, Zenon DEF BuildGroupChatMessage
    <3>. QED BY <3>1
  <2>. QED BY <2>2, <2>3, <2>5, MessageInGroup
<1>11. by \in {"note", "longform", "draftWrap", "appSettings", "metadata", "relayList", "clientAuth",
               "file", "imeta", "groupChat"}
  BY PublicationsAssumption
<1>. QED BY <1>1, <1>2, <1>3, <1>4, <1>5, <1>6, <1>7, <1>8, <1>9, <1>10, <1>11

-----------------------------------------------------------------------------
(* What an event is read back as being about.                              *)
LEMMA EventNamed ==
  ASSUME NEW tags, IsTags(tags), NEW target, IsWellFormed(target),
         NEW e \in ToSet(tags), At(e, 1) = "e", At(e, 2) = target.id,
         \A tag \in ToSet(tags) : At(tag, 1) = "e" => tag = e
  PROVE  /\ SoleRefTagged(tags, "e") = EventRef(target.id)
         /\ LastRefTagged(tags, "e") = EventRef(target.id)
         /\ EventRef(target.id) # Null
<1>. DEFINE ref == EventRef(target.id)
<1>1. RefFromTag(e) = ref /\ ref # Null
  BY WrittenRefs DEF IsWellFormed
<1>. HIDE DEF ref
<1>2. /\ \E tag \in ToSet(tags) : At(tag, 1) = "e" /\ RefFromTag(tag) = ref
      /\ \A tag \in ToSet(tags) : At(tag, 1) = "e" => RefFromTag(tag) \in {Null, ref}
  BY <1>1
<1>. QED BY <1>1, <1>2, AgreedRef, LastRef DEF ref

LEMMA AuthorNamed ==
  ASSUME NEW tags, IsTags(tags), NEW target, IsWellFormed(target),
         NEW p \in ToSet(tags), At(p, 1) = "p", At(p, 2) = target.pubkey
  PROVE  target.pubkey \in ExtractPubkeys(tags)
<1>1. target.pubkey \in Pubkeys /\ target.pubkey # Null
  BY NullIsNoText DEF IsWellFormed
<1>. QED BY <1>1, ValuesNamed DEF ExtractPubkeys

LEMMA CoordinateNamed ==
  ASSUME NEW tags, IsTags(tags), NEW target, IsWellFormed(target),
         CoordinateOf(target) = Null => \A tag \in ToSet(tags) : At(tag, 1) # "a",
         CoordinateOf(target) # Null =>
           /\ \E tag \in ToSet(tags) : At(tag, 1) = "a"
           /\ \A tag \in ToSet(tags) : At(tag, 1) = "a" => At(tag, 2) = CoordinateOf(target)
  PROVE  \/ SoleRefTagged(tags, "a") = ReplyTargetRef(target) /\ ReplyTargetRef(target) # Null
         \/ SoleRefTagged(tags, "a") = Null /\ ReplyTargetRef(target) = EventRef(target.id)
<1>. DEFINE ref        == ReplyTargetRef(target)
            coordinate == CoordinateOf(target)
<1>1. IF ref.type = "address" THEN coordinate \in DOMAIN Addresses /\ AddressRef(Addresses[coordinate]) = ref
      ELSE ref = EventRef(target.id) /\ coordinate = Null
  BY Coordinates
<1>. HIDE DEF ref, coordinate
<1>2. CASE coordinate = Null
  <2>1. ref = EventRef(target.id)
    BY <1>1, <1>2, NullIsNoText
  <2>2. \A tag \in ToSet(tags) : At(tag, 1) = "a" => RefFromTag(tag) = Null
    BY <1>2 DEF coordinate
  <2>3. SoleRefTagged(tags, "a") = Null
    BY <2>2, NoRef
  <2>. QED BY <2>1, <2>3 DEF ref
<1>3. CASE coordinate # Null
  <2>1. coordinate \in DOMAIN Addresses /\ AddressRef(Addresses[coordinate]) = ref
    BY <1>1, <1>3
  <2>2. ref # Null
    BY <2>1, NothingAssumption
  <2>3. \A tag \in ToSet(tags) : At(tag, 1) = "a" => RefFromTag(tag) = ref
    BY <1>3, <2>1, WrittenRefs DEF coordinate
  <2>4. \E tag \in ToSet(tags) : At(tag, 1) = "a" /\ RefFromTag(tag) = ref
    BY <1>3, <2>3 DEF coordinate
  <2>5. SoleRefTagged(tags, "a") = ref
    BY <2>2, <2>3, <2>4, AgreedRef
  <2>. QED BY <2>2, <2>5 DEF ref
<1>. QED BY <1>2, <1>3

(* The group tags of an annotation change nothing of what it is about.     *)
LEMMA RepostRead ==
  ASSUME NEW target, IsWellFormed(target), NEW relay, NEW tags, IsTags(tags), NEW groupTags, AreGroupTags(groupTags),
         ToSet(tags) = ToSet(BuildRepost(target, relay).tags) \cup ToSet(groupTags)
  PROVE  /\ SoleRefTagged(tags, "e") = EventRef(target.id) /\ EventRef(target.id) # Null
         /\ target.pubkey \in ExtractPubkeys(tags)
<1>. DEFINE e == <<"e", target.id, relay>>
            p == <<"p", target.pubkey>>
            k == <<"k", DecimalText[target.kind]>>
            a == <<"a", CoordinateOf(target), relay>>
<1>1. /\ At(e, 1) = "e" /\ At(e, 2) = target.id
      /\ At(p, 1) = "p" /\ At(p, 2) = target.pubkey
      /\ At(k, 1) = "k" /\ At(a, 1) = "a"
  BY Written
<1>2. ToSet(BuildRepost(target, relay).tags) =
        {e, p} \cup (IF target.kind = KIND_TEXT_NOTE THEN {} ELSE {k})
               \cup (IF CoordinateOf(target) = Null THEN {} ELSE {a})
  BY RepostTags
<1>. HIDE DEF e, p, k, a
<1>3. \A tag \in ToSet(groupTags) : At(tag, 1) = "h"
  BY DEF AreGroupTags
<1>4. e \in ToSet(tags) /\ p \in ToSet(tags) /\ \A tag \in ToSet(tags) : At(tag, 1) = "e" => tag = e
  BY <1>1, <1>2, <1>3
<1>. QED BY <1>1, <1>4, EventNamed, AuthorNamed

LEMMA ReactionRead ==
  ASSUME NEW target, IsWellFormed(target), NEW reaction, NEW relay,
         NEW tags, IsTags(tags), NEW groupTags, AreGroupTags(groupTags),
         ToSet(tags) = ToSet(BuildReaction(target, reaction, relay).tags) \cup ToSet(groupTags)
  PROVE  /\ LastRefTagged(tags, "e") = EventRef(target.id) /\ EventRef(target.id) # Null
         /\ target.pubkey \in ExtractPubkeys(tags)
<1>. DEFINE hint == relay ?? ""
            e    == <<"e", target.id, hint, target.pubkey>>
            p    == IF hint = "" THEN <<"p", target.pubkey>> ELSE <<"p", target.pubkey, hint>>
            k    == <<"k", DecimalText[target.kind]>>
            a    == <<"a", AddressableCoordinateOf(target), hint, target.pubkey>>
<1>1. ToSet(BuildReaction(target, reaction, relay).tags) =
        {e, p, k} \cup (IF AddressableCoordinateOf(target) = Null THEN {} ELSE {a})
  BY ReactionTags
<1>. HIDE DEF hint
<1>2. /\ At(e, 1) = "e" /\ At(e, 2) = target.id
      /\ At(k, 1) = "k" /\ At(a, 1) = "a"
  BY Written
<1>3. At(p, 1) = "p" /\ At(p, 2) = target.pubkey
  <2>1. \A x, y : /\ At(<<"p", x>>, 1) = "p" /\ At(<<"p", x>>, 2) = x
                  /\ At(<<"p", x, y>>, 1) = "p" /\ At(<<"p", x, y>>, 2) = x
    BY Written
  <2>2. CASE hint = ""
    <3>1. p = <<"p", target.pubkey>>
      BY <2>2
    <3>. HIDE DEF p
    <3>. QED BY <2>1, <3>1, Zenon
  <2>3. CASE hint # ""
    <3>1. p = <<"p", target.pubkey, hint>>
      BY <2>3
    <3>. HIDE DEF p
    <3>. QED BY <2>1, <3>1, Zenon
  <2>. QED BY <2>2, <2>3
<1>. HIDE DEF e, p, k, a
<1>4. \A tag \in ToSet(groupTags) : At(tag, 1) = "h"
  BY DEF AreGroupTags
<1>5. e \in ToSet(tags) /\ p \in ToSet(tags) /\ \A tag \in ToSet(tags) : At(tag, 1) = "e" => tag = e
  BY <1>1, <1>2, <1>3, <1>4
<1>. QED BY <1>2, <1>3, <1>5, EventNamed, AuthorNamed

LEMMA DeletionRead ==
  ASSUME NEW target, IsWellFormed(target), NEW tags, IsTags(tags),
         ToSet(tags) = {<<"e", target.id>>, <<"k", DecimalText[target.kind]>>}
                         \cup (IF CoordinateOf(target) = Null THEN {} ELSE {<<"a", CoordinateOf(target)>>})
  PROVE  /\ SoleRefTagged(tags, "e") = EventRef(target.id)
         /\ ReplyTargetRef(target) \in {SoleRefTagged(tags, "a"), EventRef(target.id)}
<1>. DEFINE e == <<"e", target.id>>
            k == <<"k", DecimalText[target.kind]>>
            a == <<"a", CoordinateOf(target)>>
<1>1. /\ At(e, 1) = "e" /\ At(e, 2) = target.id /\ At(k, 1) = "k"
      /\ At(a, 1) = "a" /\ At(a, 2) = CoordinateOf(target)
  BY Written
<1>. HIDE DEF e, k, a
<1>2. ToSet(tags) = {e, k} \cup (IF CoordinateOf(target) = Null THEN {} ELSE {a})
  BY DEF e, k, a
<1>3. e \in ToSet(tags) /\ \A tag \in ToSet(tags) : At(tag, 1) = "e" => tag = e
  BY <1>1, <1>2
<1>4. SoleRefTagged(tags, "e") = EventRef(target.id)
  BY <1>1, <1>3, EventNamed
<1>5. /\ CoordinateOf(target) = Null => \A tag \in ToSet(tags) : At(tag, 1) # "a"
      /\ CoordinateOf(target) # Null => \E tag \in ToSet(tags) : At(tag, 1) = "a"
      /\ CoordinateOf(target) # Null => \A tag \in ToSet(tags) : At(tag, 1) = "a" => At(tag, 2) = CoordinateOf(target)
  BY <1>1, <1>2
<1>6. \/ SoleRefTagged(tags, "a") = ReplyTargetRef(target)
      \/ ReplyTargetRef(target) = EventRef(target.id)
  BY <1>5, CoordinateNamed
<1>. QED BY <1>4, <1>6

LEMMA OtherReactionRead ==
  ASSUME NEW target, IsWellFormed(target)
  PROVE  LET named == Among(target.tags, {tag \in ToSet(target.tags) : At(tag, 1) \in {"e", "p"}})
             tags  == named \o << <<"e", target.id>>, <<"p", target.pubkey>> >>
         IN  LastRefTagged(tags, "e") = EventRef(target.id) /\ EventRef(target.id) # Null
<1>. DEFINE named == Among(target.tags, {tag \in ToSet(target.tags) : At(tag, 1) \in {"e", "p"}})
            e     == <<"e", target.id>>
            p     == <<"p", target.pubkey>>
            last  == << e, p >>
            tags  == named \o last
            S     == {tag \in ToSet(tags) : At(tag, 1) = "e" /\ RefFromTag(tag) # Null}
            some  == Among(named, S)
            T     == ToSet(named) \cup {e}
<1>1. IsPlain(named) /\ IsPlain(last) /\ ToSet(last) = {e, p}
  BY OtherReactionTags DEF IsWellFormed
<1>2. At(e, 1) = "e" /\ At(e, 2) = target.id /\ At(p, 1) = "p" /\ IsSequence(e) /\ IsSequence(p)
  BY Written
<1>. HIDE DEF named
<1>3. RefFromTag(e) = EventRef(target.id) /\ EventRef(target.id) # Null
  <2>. HIDE DEF e
  <2>. QED BY <1>2, WrittenRefs DEF IsWellFormed
<1>. HIDE DEF e, p
<1>4. ToSet(tags) = ToSet(named) \cup ToSet(last) /\ Among(tags, S) = Among(named, S) \o Among(last, S)
  <2>. HIDE DEF S, last
  <2>. QED BY <1>1, ConcatTags DEF IsPlain
<1>5. e \in S /\ p \notin S
  <2>. HIDE DEF tags
  <2>. QED BY <1>1, <1>2, <1>3, <1>4
<1>6. Among(last, S) = << e >>
  <2>. HIDE DEF S
  <2>1. \A R : Among(<< e, p >>, R) = IF e \in R THEN IF p \in R THEN << e, p >> ELSE << e >>
                                      ELSE IF p \in R THEN << p >> ELSE <<>>
    BY <1>2, TwoTags
  <2>. QED BY <1>5, <2>1
<1>7. some \in Seq(T)
  <2>1. named \in Seq(ToSet(named))
    BY <1>1 DEF IsPlain, IsTags, IsSequence
  <2>. HIDE DEF S
  <2>2. some \in Seq(ToSet(named))
    BY <2>1, AmongSelects
  <2>. HIDE DEF some
  <2>. QED BY <2>2, Wider
<1>8. e \in T
  OBVIOUS
<1>9. LastRefTagged(tags, "e") = IF Among(tags, S) = <<>> THEN Null ELSE RefFromTag(Last(Among(tags, S)))
  BY DEF LastRefTagged
<1>. HIDE DEF S, T, some, tags
<1>10. Last(some \o << e >>) = e /\ ToSet(some \o << e >>) = ToSet(some) \cup {e}
  <2>1. << e >> \in Seq(T) /\ ToSet(<< e >>) = {e}
    BY <1>2, <1>8, OneTag
  <2>2. ToSet(some \o << e >>) = ToSet(some) \cup ToSet(<< e >>)
    BY <1>7, <2>1, ConcatSet
  <2>3. Last(some \o << e >>) = e
    BY <1>7, <1>8, EndsWith
  <2>. QED BY <2>1, <2>2, <2>3
<1>11. some \o << e >> # <<>>
  BY <1>10, NoTags
<1>12. Among(tags, S) = some \o << e >>
  BY <1>4, <1>6 DEF some
<1>13. LastRefTagged(tags, "e") = RefFromTag(e)
  BY <1>9, <1>10, <1>11, <1>12
<1>. QED BY <1>3, <1>13 DEF tags, last, e, p, named

(* The page of a highlight.                                                *)
LEMMA NoPage ==
  ASSUME NEW tags, IsTags(tags), \A tag \in ToSet(tags) : At(tag, 1) # "r"
  PROVE  HighlightSourceUrl(tags) = Null
<1>. DEFINE webPages == {tag \in ToSet(Tagged(tags, "r")) : ParseHttpUrl(At(tag, 2)) # Null}
            marked   == {tag \in webPages : At(tag, 3) = "source"}
            read     == IF marked # {} THEN marked ELSE {tag \in webPages : At(tag, 3) # "mention"}
<1>1. ToSet(Tagged(tags, "r")) = {}
  BY TagsNamed
<1>2. {ParseHttpUrl(tag[2]) : tag \in read} = {}
  BY <1>1
<1>3. HighlightSourceUrl(tags) = SoleValue({ParseHttpUrl(tag[2]) : tag \in read})
  BY DEF HighlightSourceUrl
<1>. QED BY <1>2, <1>3, NothingIsSole

LEMMA OnePage ==
  ASSUME NEW tags, IsTags(tags), NEW page \in Pages, NEW r \in ToSet(tags), At(r, 1) = "r", At(r, 2) = page,
         \/ At(r, 3) = "source" /\ \A tag \in ToSet(tags) : At(tag, 1) = "r" => tag = r
         \/ /\ At(r, 3) # "mention"
            /\ \A tag \in ToSet(tags) : At(tag, 1) = "r" =>
                 At(tag, 3) # "source" /\ (tag = r \/ At(tag, 3) = "mention" \/ At(tag, 2) \notin DOMAIN HttpUrlOf)
  PROVE  HighlightSourceUrl(tags) = page /\ page # Null
<1>. DEFINE webPages == {tag \in ToSet(Tagged(tags, "r")) : ParseHttpUrl(At(tag, 2)) # Null}
            marked   == {tag \in webPages : At(tag, 3) = "source"}
            read     == IF marked # {} THEN marked ELSE {tag \in webPages : At(tag, 3) # "mention"}
<1>1. page # Null /\ ParseHttpUrl(page) = page
  BY PagesAssumption, NullIsNoText DEF ParseHttpUrl
<1>2. ToSet(Tagged(tags, "r")) = {tag \in ToSet(tags) : At(tag, 1) = "r"}
  BY TagsNamed
<1>3. \A tag \in webPages : tag \in ToSet(tags) /\ At(tag, 1) = "r" /\ At(tag, 2) \in DOMAIN HttpUrlOf
  BY <1>2 DEF ParseHttpUrl
<1>4. r \in webPages
  BY <1>1, <1>2
<1>5. r[2] = page
  BY <1>1 DEF At
<1>6. HighlightSourceUrl(tags) = SoleValue({ParseHttpUrl(tag[2]) : tag \in read})
  BY DEF HighlightSourceUrl
<1>. HIDE DEF webPages
<1>7. read = {r}
  BY <1>3, <1>4
<1>. HIDE DEF read
<1>8. {ParseHttpUrl(tag[2]) : tag \in read} = {page}
  BY <1>1, <1>5, <1>7
<1>. QED BY <1>1, <1>6, <1>8, OneIsSole

LEMMA HighlightRead ==
  ASSUME NEW target, IsWellFormed(target), NEW tags, IsTags(tags),
         ToSet(tags) = {<<"e", target.id>>, <<"p", target.pubkey>>}
                         \cup (IF CoordinateOf(target) = Null THEN {} ELSE {<<"a", CoordinateOf(target)>>})
  PROVE  /\ HighlightSourceUrl(tags) = Null
         /\ (SoleRefTagged(tags, "a") ?? SoleRefTagged(tags, "e")) = ReplyTargetRef(target)
         /\ target.pubkey \in ExtractPubkeys(tags)
<1>. DEFINE e == <<"e", target.id>>
            p == <<"p", target.pubkey>>
            a == <<"a", CoordinateOf(target)>>
<1>1. /\ At(e, 1) = "e" /\ At(e, 2) = target.id
      /\ At(p, 1) = "p" /\ At(p, 2) = target.pubkey
      /\ At(a, 1) = "a" /\ At(a, 2) = CoordinateOf(target)
  BY Written
<1>. HIDE DEF e, p, a
<1>2. ToSet(tags) = {e, p} \cup (IF CoordinateOf(target) = Null THEN {} ELSE {a})
  BY DEF e, p, a
<1>3. /\ e \in ToSet(tags) /\ \A tag \in ToSet(tags) : At(tag, 1) = "e" => tag = e
      /\ p \in ToSet(tags)
      /\ \A tag \in ToSet(tags) : At(tag, 1) # "r"
  BY <1>1, <1>2
<1>4. SoleRefTagged(tags, "e") = EventRef(target.id) /\ target.pubkey \in ExtractPubkeys(tags)
  BY <1>1, <1>3, EventNamed, AuthorNamed
<1>5. /\ CoordinateOf(target) = Null => \A tag \in ToSet(tags) : At(tag, 1) # "a"
      /\ CoordinateOf(target) # Null => \E tag \in ToSet(tags) : At(tag, 1) = "a"
      /\ CoordinateOf(target) # Null => \A tag \in ToSet(tags) : At(tag, 1) = "a" => At(tag, 2) = CoordinateOf(target)
  BY <1>1, <1>2
<1>6. \/ SoleRefTagged(tags, "a") = ReplyTargetRef(target) /\ ReplyTargetRef(target) # Null
      \/ SoleRefTagged(tags, "a") = Null /\ ReplyTargetRef(target) = EventRef(target.id)
  BY <1>5, CoordinateNamed
<1>7. (SoleRefTagged(tags, "a") ?? SoleRefTagged(tags, "e")) = ReplyTargetRef(target)
  BY <1>4, <1>6 DEF ??
<1>. QED BY <1>3, <1>4, <1>7, NoPage

LEMMA SlotsWritten ==
  /\ \A x, y : At(<<x, y>>, 1) = x /\ At(<<x, y>>, 2) = y /\ At(<<x, y>>, 3) = Null
  /\ \A x, y, z : At(<<x, y, z>>, 1) = x /\ At(<<x, y, z>>, 2) = y /\ At(<<x, y, z>>, 3) = z
BY Written

LEMMA PageRead ==
  ASSUME NEW page \in Pages, NEW comment \in {Null, "comment"}, NEW tags, IsTags(tags),
         ToSet(tags) = {<<"r", page, "source">>} \cup (IF comment = Null THEN {} ELSE {<<"comment", comment>>})
  PROVE  /\ HighlightSourceUrl(tags) = page /\ page # Null
         /\ SoleTagValue(tags, "comment") = comment
<1>. DEFINE r == <<"r", page, "source">>
            c == <<"comment", comment>>
<1>1. /\ At(r, 1) = "r" /\ At(r, 2) = page /\ At(r, 3) = "source"
      /\ At(c, 1) = "comment" /\ At(c, 2) = comment
  <2>1. /\ At(<<"r", page, "source">>, 1) = "r" /\ At(<<"r", page, "source">>, 2) = page
        /\ At(<<"r", page, "source">>, 3) = "source"
    BY ONLY SlotsWritten, SMT
  <2>2. At(<<"comment", comment>>, 1) = "comment" /\ At(<<"comment", comment>>, 2) = comment
    BY ONLY SlotsWritten, Zenon
  <2>. QED BY ONLY <2>1, <2>2, Zenon DEF r, c
<1>. HIDE DEF r, c
<1>2. ToSet(tags) = {r} \cup (IF comment = Null THEN {} ELSE {c})
  BY DEF r, c
<1>3. HighlightSourceUrl(tags) = page /\ page # Null
  <2>1. r \in ToSet(tags) /\ \A tag \in ToSet(tags) : At(tag, 1) = "r" => tag = r
    BY <1>1, <1>2
  <2>. QED BY <1>1, <2>1, OnePage
<1>4. ExtractTagValues(tags, "comment")
        = {At(tag, 2) : tag \in {t \in ToSet(tags) : At(t, 1) = "comment"}} \ {Null}
  BY ValuesNamed
<1>5. CASE comment = Null
  <2>1. ExtractTagValues(tags, "comment") = {}
    BY <1>1, <1>2, <1>4, <1>5
  <2>. QED BY <1>3, <1>5, <2>1, NothingIsSole DEF SoleTagValue
<1>6. CASE comment # Null
  <2>1. {t \in ToSet(tags) : At(t, 1) = "comment"} = {c}
    BY <1>1, <1>2, <1>6
  <2>2. ExtractTagValues(tags, "comment") = {comment}
    BY <1>1, <1>4, <1>6, <2>1
  <2>. QED BY <1>3, <2>2, OneIsSole DEF SoleTagValue
<1>. QED BY <1>5, <1>6

LEMMA OtherPageRead ==
  ASSUME NEW mentioned, NEW page \in Pages, NEW tags, IsTags(tags),
         ToSet(tags) = {<<"r", "a text">>, <<"r", mentioned, "mention">>, <<"r", page>>}
  PROVE  /\ HighlightSourceUrl(tags) = page /\ page # Null
         /\ SoleTagValue(tags, "comment") = Null
<1>. DEFINE t == <<"r", "a text">>
            m == <<"r", mentioned, "mention">>
            r == <<"r", page>>
<1>1. /\ At(r, 1) = "r" /\ At(r, 2) = page /\ At(r, 3) = Null
      /\ At(t, 1) = "r" /\ At(t, 2) = "a text" /\ At(t, 3) = Null
      /\ At(m, 1) = "r" /\ At(m, 3) = "mention"
  <2>1. At(<<"r", page>>, 1) = "r" /\ At(<<"r", page>>, 2) = page /\ At(<<"r", page>>, 3) = Null
    BY ONLY SlotsWritten, Zenon
  <2>2. /\ At(<<"r", "a text">>, 1) = "r" /\ At(<<"r", "a text">>, 2) = "a text" /\ At(<<"r", "a text">>, 3) = Null
    BY ONLY SlotsWritten, Zenon
  <2>3. At(<<"r", mentioned, "mention">>, 1) = "r" /\ At(<<"r", mentioned, "mention">>, 3) = "mention"
    BY ONLY SlotsWritten, SMT
  <2>. QED BY ONLY <2>1, <2>2, <2>3, Zenon DEF t, m, r
<1>. HIDE DEF t, m, r
<1>2. ToSet(tags) = {t, m, r}
  BY DEF t, m, r
<1>3. "a text" \notin DOMAIN HttpUrlOf /\ Null \notin {"source", "mention"}
  BY PagesAssumption, NullIsNoText
<1>4. HighlightSourceUrl(tags) = page /\ page # Null
  <2>1. /\ r \in ToSet(tags) /\ At(r, 3) # "mention"
        /\ \A tag \in ToSet(tags) :
             At(tag, 3) # "source" /\ (tag = r \/ At(tag, 3) = "mention" \/ At(tag, 2) \notin DOMAIN HttpUrlOf)
    BY <1>1, <1>2, <1>3
  <2>. QED BY <1>1, <2>1, OnePage
<1>5. ExtractTagValues(tags, "comment") = {}
  <2>1. {x \in ToSet(tags) : At(x, 1) = "comment"} = {}
    BY <1>1, <1>2
  <2>2. ExtractTagValues(tags, "comment")
          = {At(tag, 2) : tag \in {x \in ToSet(tags) : At(x, 1) = "comment"}} \ {Null}
    BY ValuesNamed
  <2>. QED BY <2>1, <2>2
<1>. QED BY <1>4, <1>5, NothingIsSole DEF SoleTagValue

-----------------------------------------------------------------------------
(* What analyseEvent says of each kind of annotation.                      *)
LEMMA AnnotationKinds ==
  \A kind \in {KIND_EVENT_DELETION, KIND_REPOST, KIND_REACTION, KIND_PRIVATE_MESSAGE, KIND_GENERIC_REPOST,
               KIND_NUTZAP, KIND_ZAP_REQUEST, KIND_ZAP_RECEIPT, KIND_HIGHLIGHT} :
    KindCategory(kind) = "regular" /\ kind \notin ThreadingKinds
<1>1. \A kind \in {5, 6, 7, 14, 16, 9321, 9734, 9735, 9802} : KindCategory(kind) = "regular"
  <2>1. KindCategory(5) = "regular" /\ KindCategory(6) = "regular" /\ KindCategory(7) = "regular"
    BY DEF KindCategory
  <2>2. KindCategory(14) = "regular" /\ KindCategory(16) = "regular" /\ KindCategory(9321) = "regular"
    BY DEF KindCategory
  <2>3. KindCategory(9734) = "regular" /\ KindCategory(9735) = "regular" /\ KindCategory(9802) = "regular"
    BY DEF KindCategory
  <2>. QED BY <2>1, <2>2, <2>3
<1>2. ThreadingKinds = {1, 9, 42, 1111, 1244, 1311}
  BY DEF ThreadingKinds, COMMENT_KINDS, KIND_COMMENT, KIND_VOICE_MESSAGE_COMMENT, KIND_TEXT_NOTE,
         KIND_CHAT_MESSAGE, KIND_CHANNEL_MESSAGE, KIND_LIVE_CHAT_MESSAGE
<1>3. \A kind \in {5, 6, 7, 14, 16, 9321, 9734, 9735, 9802} : kind \notin {1, 9, 42, 1111, 1244, 1311}
  BY SMT
<1>. QED BY <1>1, <1>2, <1>3 DEF KIND_EVENT_DELETION, KIND_REPOST, KIND_REACTION, KIND_PRIVATE_MESSAGE, KIND_GENERIC_REPOST,
                    KIND_NUTZAP, KIND_ZAP_REQUEST, KIND_ZAP_RECEIPT, KIND_HIGHLIGHT

LEMMA NoReply == ASSUME NEW event, event.kind \notin ThreadingKinds PROVE ~Refs(event).isReply
BY DEF Refs

LEMMA DataByKind ==
  ASSUME NEW event
  PROVE  LET data == AnalyseEvent(event).kindData IN
         /\ event.kind \in {KIND_REPOST, KIND_GENERIC_REPOST} => data = RepostMetadata(event)
         /\ event.kind = KIND_REACTION => data = ReactionMetadata(event)
         /\ event.kind = KIND_HIGHLIGHT => data = HighlightMetadata(event)
<1>1. AnalyseEvent(event).kindData = KindMetadata(event)
  BY DEF AnalyseEvent
<1>2. /\ event.kind \in {KIND_REPOST, KIND_GENERIC_REPOST} => KindMetadata(event) = RepostMetadata(event)
      /\ event.kind = KIND_REACTION => KindMetadata(event) = ReactionMetadata(event)
      /\ event.kind = KIND_HIGHLIGHT => KindMetadata(event) = HighlightMetadata(event)
  <2>1. /\ event.kind = KIND_REACTION => KindMetadata(event) = ReactionMetadata(event)
        /\ event.kind = KIND_HIGHLIGHT => KindMetadata(event) = HighlightMetadata(event)
    BY DEF KindMetadata, IsRepostKind, KIND_REPOST, KIND_GENERIC_REPOST, KIND_REACTION, KIND_HIGHLIGHT,
           KIND_LONGFORM_CONTENT
  <2>2. IsRepostKind(event.kind) => KindMetadata(event) = RepostMetadata(event)
    BY DEF KindMetadata, IsRepostKind, KIND_REPOST, KIND_GENERIC_REPOST, KIND_REACTION, KIND_HIGHLIGHT,
           KIND_LONGFORM_CONTENT
  <2>. QED BY <2>1, <2>2 DEF IsRepostKind
<1>. QED BY <1>1, <1>2

LEMMA Protection ==
  ASSUME NEW target, IsWellFormed(target) PROVE IsProtected(target) <=> HasProtection(target)
<1>. DEFINE dash == Tagged(target.tags, "-")
<1>1. IsTags(dash) /\ ToSet(dash) = {tag \in ToSet(target.tags) : At(tag, 1) = "-"}
  BY TagsNamed DEF IsWellFormed
<1>2. dash = <<>> <=> ToSet(dash) = {}
  <2>1. dash \in Seq(ToSet(dash))
    BY <1>1 DEF IsTags, IsSequence
  <2>2. CASE dash = <<>>
    BY <2>2, NoTags
  <2>3. CASE dash # <<>>
    <3>. HIDE DEF dash
    <3>1. Len(dash) \in Nat \ {0} /\ DOMAIN dash = 1..Len(dash)
      BY <2>1, <2>3
    <3>2. 1 \in DOMAIN dash
      BY <3>1
    <3>. QED BY <2>1, <2>3, <3>2
  <2>. QED BY <2>2, <2>3
<1>. HIDE DEF dash
<1>3. IsProtected(target) <=> dash # <<>>
  BY DEF IsProtected, dash
<1>4. HasProtection(target) <=> ToSet(dash) # {}
  BY <1>1 DEF HasProtection
<1>. QED BY <1>2, <1>3, <1>4

LEMMA RepostSpeaks ==
  ASSUME NEW target, IsWellFormed(target), NEW relay, NEW groupTags, AreGroupTags(groupTags),
         NEW entry, entry.by = "repost", IsTags(entry.event.tags),
         ToSet(entry.event.tags) = ToSet(BuildRepost(target, relay).tags) \cup ToSet(groupTags),
         entry.event.kind = BuildRepost(target, relay).kind,
         entry.event.content = BuildRepost(target, relay).content
  PROVE  SpeaksOf(entry, target)
<1>. DEFINE event == entry.event
<1>1. /\ event.kind \in {KIND_REPOST, KIND_GENERIC_REPOST}
      /\ event.content = IF IsProtected(target) THEN <<>> ELSE << target >>
  BY DEF BuildRepost, Template
<1>2. event.content = <<>> <=> HasProtection(target)
  BY <1>1, Protection
<1>3. /\ SoleRefTagged(event.tags, "e") = EventRef(target.id) /\ EventRef(target.id) # Null
      /\ target.pubkey \in ExtractPubkeys(event.tags)
  BY RepostRead
<1>4. AnalyseEvent(event).kindData = RepostMetadata(event)
  BY <1>1, DataByKind
<1>5. RepostMetadata(event).original = EventRef(target.id)
  BY <1>3 DEF RepostMetadata, ??
<1>6. ~Refs(event).isReply
  BY <1>1, AnnotationKinds, NoReply
<1>. HIDE DEF event
<1>7. entry.event = event
  BY DEF event
<1>. QED BY <1>2, <1>3, <1>4, <1>5, <1>6, <1>7 DEF SpeaksOf

LEMMA ReactionSpeaks ==
  ASSUME NEW target, NEW entry, entry.by = "reaction" \/ entry.by = "otherReaction",
         entry.event.kind = KIND_REACTION, entry.event.content \in {"", entry.given.reaction},
         LastRefTagged(entry.event.tags, "e") = EventRef(target.id), EventRef(target.id) # Null,
         entry.by = "reaction" => target.pubkey \in ExtractPubkeys(entry.event.tags)
  PROVE  SpeaksOf(entry, target)
<1>. DEFINE event == entry.event
<1>1. AnalyseEvent(event).kindData = ReactionMetadata(event)
  BY DataByKind
<1>2. ReactionMetadata(event).target = EventRef(target.id)
  <2>1. (LastRefTagged(event.tags, "e") ?? LastRefTagged(event.tags, "a")) = EventRef(target.id)
    BY DEF ??
  <2>. QED BY <2>1 DEF ReactionMetadata
<1>3. ReactionMetadata(event).content \in {"+", entry.given.reaction} \ {""}
  <2>1. ReactionMetadata(event).content = IF event.content = "" THEN "+" ELSE event.content
    BY DEF ReactionMetadata, DEFAULT_REACTION
  <2>. QED BY <2>1
<1>4. ~Refs(event).isReply
  BY AnnotationKinds, NoReply
<1>. QED BY <1>1, <1>2, <1>3, <1>4 DEF SpeaksOf

LEMMA HighlightSpeaks ==
  ASSUME NEW target, NEW entry, entry.event.kind = KIND_HIGHLIGHT,
         \/ /\ entry.by = "highlight" /\ HighlightSourceUrl(entry.event.tags) = Null
            /\ (SoleRefTagged(entry.event.tags, "a") ?? SoleRefTagged(entry.event.tags, "e")) = ReplyTargetRef(target)
            /\ target.pubkey \in ExtractPubkeys(entry.event.tags)
         \/ /\ entry.by = "pageHighlight" \/ entry.by = "otherHighlight"
            /\ HighlightSourceUrl(entry.event.tags) = entry.given.page /\ entry.given.page # Null
            /\ SoleTagValue(entry.event.tags, "comment") = entry.given.comment
  PROVE  SpeaksOf(entry, target)
<1>. DEFINE event == entry.event
<1>1. AnalyseEvent(event).kindData = HighlightMetadata(event)
  BY DataByKind
<1>2. /\ HighlightMetadata(event).sourceUrl = HighlightSourceUrl(event.tags)
      /\ HighlightMetadata(event).comment = SoleTagValue(event.tags, "comment")
      /\ HighlightMetadata(event).source = IF HighlightSourceUrl(event.tags) # Null THEN Null
                                           ELSE SoleRefTagged(event.tags, "a") ?? SoleRefTagged(event.tags, "e")
  BY DEF HighlightMetadata
<1>3. ~Refs(event).isReply
  BY AnnotationKinds, NoReply
<1>. HIDE DEF event
<1>4. entry.event = event
  BY DEF event
<1>. QED BY <1>1, <1>2, <1>3, <1>4 DEF SpeaksOf

LEMMA OthersSpeak ==
  ASSUME NEW target, NEW entry, entry.event.kind \notin ThreadingKinds,
         entry.by \in {"message", "privateReaction", "zapRequest", "receipt", "nutzap"},
         entry.by = "zapRequest" => target.pubkey \in ExtractPubkeys(entry.event.tags)
  PROVE  SpeaksOf(entry, target)
BY NoReply DEF SpeaksOf

LEMMA DeletionSpeaks ==
  ASSUME NEW target, NEW entry, entry.event.kind = KIND_EVENT_DELETION, entry.by = "deletion",
         target.pubkey = entry.event.pubkey, target.kind # KIND_EVENT_DELETION,
         SoleRefTagged(entry.event.tags, "e") = EventRef(target.id),
         ReplyTargetRef(target) \in {SoleRefTagged(entry.event.tags, "a"), EventRef(target.id)}
  PROVE  SpeaksOf(entry, target)
<1>1. ~Refs(entry.event).isReply
  BY AnnotationKinds, NoReply
<1>. QED BY <1>1 DEF SpeaksOf

-----------------------------------------------------------------------------
(* An entry joins the path.                                                *)
MayGrow == IsSequence(path) /\ (path = <<>> \/ Len(path) < Len(Ids))

Joins(entry, by, given, author, template) ==
  /\ path' = Append(path, entry)
  /\ entry.by = by /\ entry.given = given
  /\ IsWellFormed(entry.event) /\ entry.event.pubkey = author
  /\ entry.event.kind = template.kind /\ entry.event.tags = template.tags
  /\ entry.event.content = template.content

LEMMA Joined ==
  ASSUME MayGrow, NEW by, NEW given, NEW author \in Pubkeys, NEW genuine, NEW template,
         Add(by, given, author, genuine, template), IsPosted(template.tags),
         IsNameable(template.kind, author, template.tags)
  PROVE  \E entry : Joins(entry, by, given, author, template)
<1>. DEFINE event == Event(author, genuine, template)
            entry == [by |-> by, given |-> given, event |-> event]
<1>1. Ids[Len(path) + 1] \in EventIds
  <2>1. Ids \in Seq(EventIds) /\ Ids # <<>>
    BY IdsAssumption
  <2>2. Len(path) \in Nat /\ (path = <<>> => Len(path) = 0)
    BY TypedSequence DEF MayGrow, IsSequence
  <2>3. Len(Ids) \in Nat \ {0} /\ DOMAIN Ids = 1..Len(Ids)
    BY <2>1
  <2>4. Len(path) < Len(Ids)
    BY <2>2, <2>3 DEF MayGrow
  <2>5. Len(path) + 1 \in 1..Len(Ids)
    BY <2>2, <2>3, <2>4
  <2>. QED BY <2>1, <2>3, <2>5
<1>2. /\ event.id = Ids[Len(path) + 1] /\ event.pubkey = author /\ event.kind = template.kind
      /\ event.tags = template.tags /\ event.content = template.content /\ "tags" \in DOMAIN event
  BY DEF Event
<1>3. path' = Append(path, entry)
  BY DEF Add
<1>4. entry.by = by /\ entry.given = given /\ entry.event = event
  OBVIOUS
<1>. HIDE DEF event, entry
<1>5. NamingGroupTags(event) = Naming(template.tags)
  BY <1>2, PointersByNaming
<1>6. IsWellFormed(event)
  BY <1>1, <1>2, <1>5 DEF IsWellFormed, IsPosted
<1>7. Joins(entry, by, given, author, template)
  BY <1>2, <1>3, <1>4, <1>6 DEF Joins
<1>. QED BY <1>7

LEMMA NotRoomed ==
  ASSUME NEW entry, NEW target, entry.by \notin {"message", "privateReaction", "repost", "reaction", "groupChat"}
  PROVE  KeepsToItsRoom(entry, target)
BY DEF KeepsToItsRoom, IsPrivate

LEMMA GroupKept ==
  ASSUME NEW entry, NEW target, entry.by \in {"repost", "reaction"},
         KeepsGroup(entry.given.group, entry.given.groupRelay, entry.event.tags, target)
  PROVE  KeepsToItsRoom(entry, target)
<1>1. /\ NamingGroupTags(entry.event) = Naming(entry.event.tags) /\ NamingGroupTags(target) = Naming(target.tags)
      /\ GroupPointerOf(entry.event) = PointerOf(Naming(entry.event.tags))
      /\ GroupPointerOf(target) = PointerOf(Naming(target.tags))
  BY PointersByNaming
<1>. QED BY <1>1 DEF KeepsToItsRoom, KeepsGroup, IsPrivate

LEMMA Regular ==
  ASSUME NEW kind, NEW pubkey, NEW tags,
         kind \in {KIND_EVENT_DELETION, KIND_REPOST, KIND_REACTION, KIND_PRIVATE_MESSAGE, KIND_GENERIC_REPOST,
                   KIND_NUTZAP, KIND_ZAP_REQUEST, KIND_ZAP_RECEIPT, KIND_HIGHLIGHT}
  PROVE  IsNameable(kind, pubkey, tags)
BY AnnotationKinds, RegularIsNameable

(* An annotation joins the path, with the tags of the group it is given.   *)
JoinsInGroup(entry, groupTags, by, reaction, kind, tags, content) ==
  /\ AreGroupTags(groupTags)
  /\ path' = Append(path, entry) /\ IsWellFormed(entry.event)
  /\ entry.by = by /\ entry.given.reaction = reaction
  /\ entry.event.kind = kind /\ entry.event.content = content
  /\ IsTags(entry.event.tags) /\ ToSet(entry.event.tags) = ToSet(tags) \cup ToSet(groupTags)
  /\ KeepsToItsRoom(entry, Target)

LEMMA GroupedJoins ==
  ASSUME MayGrow, IsWellFormed(Target), NEW by \in {"repost", "reaction"}, NEW reaction, NEW author \in Pubkeys,
         NEW kind \in {KIND_REPOST, KIND_GENERIC_REPOST, KIND_REACTION}, NEW tags, NEW content, IsPlain(tags),
         AddGrouped(by, reaction, author, Template(kind, tags, content))
  PROVE  \E entry, groupTags : JoinsInGroup(entry, groupTags, by, reaction, kind, tags, content)
<1>1. PICK choice \in GroupChoices, relay \in Hints :
        Add(by, [group |-> choice, groupRelay |-> relay, reaction |-> reaction], author, TRUE,
            WithGroupTag(Template(kind, tags, content), Chosen(choice), relay))
  BY DEF AddGrouped
<1>. DEFINE given == [group |-> choice, groupRelay |-> relay, reaction |-> reaction]
            grouped == WithGroupTag(Template(kind, tags, content), Chosen(choice), relay)
<1>2. Add(by, given, author, TRUE, grouped) /\ grouped # Null
  BY <1>1 DEF Add
<1>3. PICK groupTags :
        /\ AreGroupTags(groupTags)
        /\ grouped = Template(kind, tags \o groupTags, content)
        /\ ToSet(tags \o groupTags) = ToSet(tags) \cup ToSet(groupTags)
        /\ IsPosted(tags \o groupTags)
        /\ KeepsGroup(choice, relay, tags \o groupTags, Target)
  BY <1>2, Grouped
<1>4. given.group = choice /\ given.groupRelay = relay /\ given.reaction = reaction
  OBVIOUS
<1>. HIDE DEF given, grouped
<1>. DEFINE all == tags \o groupTags
<1>5. grouped.kind = kind /\ grouped.tags = all /\ grouped.content = content
  BY <1>3 DEF Template
<1>. HIDE DEF all
<1>6. IsPosted(all) /\ ToSet(all) = ToSet(tags) \cup ToSet(groupTags) /\ KeepsGroup(choice, relay, all, Target)
  BY <1>3 DEF all
<1>7. IsNameable(kind, author, all)
  BY Regular
<1>8. PICK entry : Joins(entry, by, given, author, grouped)
  BY <1>2, <1>5, <1>6, <1>7, Joined
<1>9. KeepsToItsRoom(entry, Target)
  BY <1>4, <1>5, <1>6, <1>8, GroupKept DEF Joins
<1>10. IsTags(all)
  BY <1>6 DEF IsPosted
<1>11. JoinsInGroup(entry, groupTags, by, reaction, kind, tags, content)
  BY <1>3, <1>4, <1>5, <1>6, <1>8, <1>9, <1>10 DEF Joins, JoinsInGroup
<1>. QED BY <1>11

-----------------------------------------------------------------------------
(* Each action adds an entry that keeps to its room and, after the first,  *)
(* speaks of the entry before it.  The first is about no other entry.      *)
CanBeFirst(entry) == entry.by \notin {"privateReaction", "repost", "reaction"}

Continues ==
  \E entry :
    /\ path' = Append(path, entry) /\ IsWellFormed(entry.event)
    /\ KeepsToItsRoom(entry, Target)
    /\ IF path = <<>> THEN CanBeFirst(entry) ELSE SpeaksOf(entry, Target)

LEMMA RepostStep ==
  ASSUME MayGrow, path # <<>>, IsWellFormed(Target), NEW author \in Pubkeys, Repost(author) PROVE Continues
<1>1. PICK relay \in Hints \ {Null} : AddGrouped("repost", Null, author, BuildRepost(Target, relay))
  BY DEF Repost
<1>. DEFINE repost == BuildRepost(Target, relay)
            kind == repost.kind
            tags == repost.tags
            content == repost.content
<1>2. repost = Template(kind, tags, content) /\ kind \in {KIND_REPOST, KIND_GENERIC_REPOST, KIND_REACTION}
  BY DEF BuildRepost, Template
<1>3. IsPlain(tags)
  BY RepostTags
<1>4. AddGrouped("repost", Null, author, Template(kind, tags, content))
  BY <1>1, <1>2
<1>. HIDE DEF kind, tags, content
<1>. DEFINE by == "repost"
            none == Null
<1>a. by \in {"repost", "reaction"} /\ by = "repost" /\ AddGrouped(by, none, author, Template(kind, tags, content))
  BY <1>4
<1>. HIDE DEF by, none
<1>5. PICK entry, groupTags : JoinsInGroup(entry, groupTags, by, none, kind, tags, content)
  BY <1>2, <1>3, <1>a, GroupedJoins
<1>6. SpeaksOf(entry, Target)
  <2>1. /\ ToSet(entry.event.tags) = ToSet(BuildRepost(Target, relay).tags) \cup ToSet(groupTags)
        /\ entry.event.kind = BuildRepost(Target, relay).kind
        /\ entry.event.content = BuildRepost(Target, relay).content
    BY <1>5 DEF JoinsInGroup, kind, tags, content
  <2>. QED BY <1>5, <1>a, <2>1, RepostSpeaks DEF JoinsInGroup
<1>. QED BY <1>5, <1>6 DEF JoinsInGroup, Continues

LEMMA ReactStep ==
  ASSUME MayGrow, path # <<>>, IsWellFormed(Target), NEW author \in Pubkeys, React(author) PROVE Continues
<1>1. PICK reaction \in {"", "-"}, relay \in Hints :
        AddGrouped("reaction", reaction, author, BuildReaction(Target, reaction, relay))
  BY DEF React
<1>. DEFINE built == BuildReaction(Target, reaction, relay)
            tags == built.tags
<1>2. built = Template(KIND_REACTION, tags, reaction)
  BY DEF BuildReaction, Template
<1>3. IsPlain(tags)
  BY ReactionTags
<1>4. AddGrouped("reaction", reaction, author, Template(KIND_REACTION, tags, reaction))
  BY <1>1, <1>2
<1>. HIDE DEF tags
<1>. DEFINE by == "reaction"
            kind == KIND_REACTION
<1>a. /\ by \in {"repost", "reaction"} /\ by = "reaction"
      /\ kind \in {KIND_REPOST, KIND_GENERIC_REPOST, KIND_REACTION} /\ kind = KIND_REACTION
      /\ AddGrouped(by, reaction, author, Template(kind, tags, reaction))
  BY <1>4
<1>. HIDE DEF by, kind
<1>5. PICK entry, groupTags : JoinsInGroup(entry, groupTags, by, reaction, kind, tags, reaction)
  BY <1>3, <1>a, GroupedJoins
<1>6. /\ LastRefTagged(entry.event.tags, "e") = EventRef(Target.id) /\ EventRef(Target.id) # Null
      /\ Target.pubkey \in ExtractPubkeys(entry.event.tags)
  <2>1. ToSet(entry.event.tags) = ToSet(BuildReaction(Target, reaction, relay).tags) \cup ToSet(groupTags)
    BY <1>5 DEF JoinsInGroup, tags
  <2>. QED BY <1>5, <2>1, ReactionRead DEF JoinsInGroup
<1>7. SpeaksOf(entry, Target)
  <2>1. /\ entry.by = "reaction" /\ entry.event.kind = KIND_REACTION
        /\ entry.event.content = entry.given.reaction
    BY <1>5, <1>a DEF JoinsInGroup
  <2>. QED BY <1>6, <2>1, ReactionSpeaks
<1>. QED BY <1>5, <1>7 DEF JoinsInGroup, Continues

(* An annotation that no room or group is given for.                       *)
IsOpen(by) == by \notin {"message", "privateReaction", "repost", "reaction", "groupChat"}

JoinsOpenly(entry, by, given, author, kind, tags, content) ==
  /\ path' = Append(path, entry) /\ IsWellFormed(entry.event)
  /\ entry.by = by /\ entry.given = given /\ entry.event.pubkey = author
  /\ entry.event.kind = kind /\ entry.event.tags = tags /\ entry.event.content = content
  /\ IsTags(tags) /\ KeepsToItsRoom(entry, Target)

LEMMA OpenlyJoins ==
  ASSUME MayGrow, NEW by, IsOpen(by), NEW given, NEW author \in Pubkeys, NEW genuine,
         NEW kind, kind \in {KIND_EVENT_DELETION, KIND_REPOST, KIND_REACTION, KIND_PRIVATE_MESSAGE, KIND_GENERIC_REPOST,
                   KIND_NUTZAP, KIND_ZAP_REQUEST, KIND_ZAP_RECEIPT, KIND_HIGHLIGHT},
         NEW tags, IsPlain(tags), NEW content,
         Add(by, given, author, genuine, Template(kind, tags, content))
  PROVE  \E entry : JoinsOpenly(entry, by, given, author, kind, tags, content)
<1>. DEFINE template == Template(kind, tags, content)
<1>1. template.kind = kind /\ template.tags = tags /\ template.content = content
  BY DEF Template
<1>2. Add(by, given, author, genuine, template)
  OBVIOUS
<1>. HIDE DEF template
<1>3. IsNameable(kind, author, tags)
  BY Regular
<1>4. PICK entry : Joins(entry, by, given, author, template)
  BY <1>1, <1>2, <1>3, PlainPosted, Joined
<1>5. KeepsToItsRoom(entry, Target)
  BY <1>4, NotRoomed DEF Joins, IsOpen
<1>6. JoinsOpenly(entry, by, given, author, kind, tags, content)
  BY <1>1, <1>4, <1>5 DEF Joins, JoinsOpenly, IsPlain
<1>. QED BY <1>6

LEMMA DeleteStep ==
  ASSUME MayGrow, path # <<>>, IsWellFormed(Target), NEW author \in Pubkeys, Delete(author) PROVE Continues
<1>. DEFINE tags == (<< <<"e", Target.id>> >> \o TagOf("a", CoordinateOf(Target)))
                       \o << <<"k", DecimalText[Target.kind]>> >>
            kind == KIND_EVENT_DELETION
            by == "deletion"
            given == Null
            content == ""
<1>1. Add("deletion", Null, author, TRUE, BuildDeletion(author, Target)) /\ BuildDeletion(author, Target) # Null
  BY DEF Delete, Add
<1>2. /\ Target.pubkey = author /\ Target.kind # KIND_EVENT_DELETION
      /\ BuildDeletion(author, Target) = Template(kind, tags, content)
  BY <1>1 DEF BuildDeletion
<1>3. Add(by, given, author, TRUE, Template(kind, tags, content))
  BY <1>1, <1>2
<1>4. IsPlain(tags)
  BY DeletionTags
<1>5. IsOpen(by) /\ by = "deletion"
  BY DEF IsOpen
<1>6. kind \in {KIND_EVENT_DELETION, KIND_REPOST, KIND_REACTION, KIND_PRIVATE_MESSAGE, KIND_GENERIC_REPOST,
                   KIND_NUTZAP, KIND_ZAP_REQUEST, KIND_ZAP_RECEIPT, KIND_HIGHLIGHT} /\ kind = KIND_EVENT_DELETION
  OBVIOUS
<1>. HIDE DEF tags, kind, by, given, content
<1>7. PICK entry : JoinsOpenly(entry, by, given, author, kind, tags, content)
  BY <1>3, <1>4, <1>5, <1>6, OpenlyJoins
<1>8. /\ SoleRefTagged(tags, "e") = EventRef(Target.id)
      /\ ReplyTargetRef(Target) \in {SoleRefTagged(tags, "a"), EventRef(Target.id)}
  <2>1. ToSet(tags) = {<<"e", Target.id>>, <<"k", DecimalText[Target.kind]>>}
                        \cup (IF CoordinateOf(Target) = Null THEN {} ELSE {<<"a", CoordinateOf(Target)>>})
    BY DeletionTags DEF tags
  <2>. QED BY <1>4, <2>1, DeletionRead DEF IsPlain
<1>9. SpeaksOf(entry, Target)
  BY <1>2, <1>5, <1>6, <1>7, <1>8, DeletionSpeaks DEF JoinsOpenly
<1>. QED BY <1>7, <1>9 DEF JoinsOpenly, Continues

LEMMA HighlightStep ==
  ASSUME MayGrow, path # <<>>, IsWellFormed(Target), NEW author \in Pubkeys, Highlight(author) PROVE Continues
<1>. DEFINE kind == KIND_HIGHLIGHT
            content == "text"
<1>1. kind \in {KIND_EVENT_DELETION, KIND_REPOST, KIND_REACTION, KIND_PRIVATE_MESSAGE, KIND_GENERIC_REPOST,
                   KIND_NUTZAP, KIND_ZAP_REQUEST, KIND_ZAP_RECEIPT, KIND_HIGHLIGHT} /\ kind = KIND_HIGHLIGHT
  OBVIOUS
<1>2. CASE Add("highlight", Null, author, TRUE, BuildHighlightFromEvent("text", Target))
  <2>. DEFINE tags == TagOf("a", CoordinateOf(Target)) \o << <<"e", Target.id>>, <<"p", Target.pubkey>> >>
              by == "highlight"
              given == Null
  <2>1. BuildHighlightFromEvent("text", Target) = Template(kind, tags, content)
    BY DEF BuildHighlightFromEvent
  <2>2. Add(by, given, author, TRUE, Template(kind, tags, content))
    BY <1>2, <2>1
  <2>3. IsPlain(tags)
    BY HighlightTags
  <2>4. IsOpen(by) /\ by = "highlight"
    BY DEF IsOpen
  <2>. HIDE DEF tags, kind, by, given, content
  <2>5. PICK entry : JoinsOpenly(entry, by, given, author, kind, tags, content)
    BY <1>1, <2>2, <2>3, <2>4, OpenlyJoins
  <2>6. /\ HighlightSourceUrl(tags) = Null
        /\ (SoleRefTagged(tags, "a") ?? SoleRefTagged(tags, "e")) = ReplyTargetRef(Target)
        /\ Target.pubkey \in ExtractPubkeys(tags)
    <3>1. ToSet(tags) = {<<"e", Target.id>>, <<"p", Target.pubkey>>}
                          \cup (IF CoordinateOf(Target) = Null THEN {} ELSE {<<"a", CoordinateOf(Target)>>})
      BY HighlightTags DEF tags
    <3>. QED BY <2>3, <3>1, HighlightRead DEF IsPlain
  <2>7. SpeaksOf(entry, Target)
    BY <1>1, <2>4, <2>5, <2>6, HighlightSpeaks DEF JoinsOpenly
  <2>. QED BY <2>5, <2>7 DEF JoinsOpenly, Continues
<1>3. ASSUME NEW page \in Pages, NEW comment \in {Null, "comment"},
             Add("pageHighlight", [page |-> page, comment |-> comment], author, TRUE,
                 BuildHighlightFromUrl("text", page, comment))
      PROVE  Continues
  <2>. DEFINE tags == << <<"r", page, "source">> >> \o TagOf("comment", comment)
              by == "pageHighlight"
              given == [page |-> page, comment |-> comment]
  <2>1. BuildHighlightFromUrl("text", page, comment) = Template(kind, tags, content)
    BY DEF BuildHighlightFromUrl
  <2>2. Add(by, given, author, TRUE, Template(kind, tags, content))
    BY <1>3, <2>1
  <2>3. IsPlain(tags)
    BY PageHighlightTags
  <2>4. IsOpen(by) /\ by = "pageHighlight" /\ given.page = page /\ given.comment = comment
    BY DEF IsOpen
  <2>. HIDE DEF tags, kind, by, given, content
  <2>5. PICK entry : JoinsOpenly(entry, by, given, author, kind, tags, content)
    BY <1>1, <2>2, <2>3, <2>4, OpenlyJoins
  <2>6. HighlightSourceUrl(tags) = page /\ page # Null /\ SoleTagValue(tags, "comment") = comment
    <3>1. ToSet(tags) = {<<"r", page, "source">>} \cup (IF comment = Null THEN {} ELSE {<<"comment", comment>>})
      BY PageHighlightTags DEF tags
    <3>. QED BY <2>3, <3>1, PageRead DEF IsPlain
  <2>7. SpeaksOf(entry, Target)
    BY <1>1, <2>4, <2>5, <2>6, HighlightSpeaks DEF JoinsOpenly
  <2>. QED BY <2>5, <2>7 DEF JoinsOpenly, Continues
<1>. QED BY <1>2, <1>3 DEF Highlight

LEMMA AnnotateElsewhereStep ==
  ASSUME MayGrow, path # <<>>, IsWellFormed(Target), NEW author \in Pubkeys, AnnotateElsewhere(author) PROVE Continues
<1>1. CASE Add("otherReaction", [reaction |-> "+"], author, TRUE,
               Template(KIND_REACTION,
                        Among(Target.tags, {tag \in ToSet(Target.tags) : At(tag, 1) \in {"e", "p"}})
                          \o << <<"e", Target.id>>, <<"p", Target.pubkey>> >>, ""))
  <2>. DEFINE tags == Among(Target.tags, {tag \in ToSet(Target.tags) : At(tag, 1) \in {"e", "p"}})
                        \o << <<"e", Target.id>>, <<"p", Target.pubkey>> >>
              kind == KIND_REACTION
              by == "otherReaction"
              given == [reaction |-> "+"]
              content == ""
  <2>1. Add(by, given, author, TRUE, Template(kind, tags, content))
    BY <1>1
  <2>2. IsPlain(tags)
    BY OtherReactionTags DEF IsWellFormed
  <2>3. IsOpen(by) /\ by = "otherReaction" /\ content = ""
    BY DEF IsOpen
  <2>4. kind \in {KIND_EVENT_DELETION, KIND_REPOST, KIND_REACTION, KIND_PRIVATE_MESSAGE, KIND_GENERIC_REPOST,
                   KIND_NUTZAP, KIND_ZAP_REQUEST, KIND_ZAP_RECEIPT, KIND_HIGHLIGHT} /\ kind = KIND_REACTION
    OBVIOUS
  <2>5. LastRefTagged(tags, "e") = EventRef(Target.id) /\ EventRef(Target.id) # Null
    BY OtherReactionRead
  <2>. HIDE DEF tags, kind, by, given, content
  <2>6. PICK entry : JoinsOpenly(entry, by, given, author, kind, tags, content)
    BY <2>1, <2>2, <2>3, <2>4, OpenlyJoins
  <2>7. SpeaksOf(entry, Target)
    <3>1. /\ entry.by = "otherReaction" /\ entry.event.kind = KIND_REACTION /\ entry.event.content = ""
          /\ LastRefTagged(entry.event.tags, "e") = EventRef(Target.id)
      BY <2>3, <2>4, <2>5, <2>6 DEF JoinsOpenly
    <3>. QED BY <2>5, <3>1, ReactionSpeaks
  <2>. QED BY <2>6, <2>7 DEF JoinsOpenly, Continues
<1>2. ASSUME NEW page \in Pages, NEW mentioned \in Pages,
             Add("otherHighlight", [page |-> page, comment |-> Null], author, TRUE,
                 Template(KIND_HIGHLIGHT, << <<"r", "a text">>, <<"r", mentioned, "mention">>, <<"r", page>> >>, "text"))
      PROVE  Continues
  <2>. DEFINE tags == << <<"r", "a text">>, <<"r", mentioned, "mention">>, <<"r", page>> >>
              kind == KIND_HIGHLIGHT
              by == "otherHighlight"
              given == [page |-> page, comment |-> Null]
              content == "text"
  <2>1. Add(by, given, author, TRUE, Template(kind, tags, content))
    BY <1>2
  <2>2. IsPlain(tags)
    BY OtherHighlightTags
  <2>3. IsOpen(by) /\ by = "otherHighlight" /\ given.page = page /\ given.comment = Null
    BY DEF IsOpen
  <2>4. kind \in {KIND_EVENT_DELETION, KIND_REPOST, KIND_REACTION, KIND_PRIVATE_MESSAGE, KIND_GENERIC_REPOST,
                   KIND_NUTZAP, KIND_ZAP_REQUEST, KIND_ZAP_RECEIPT, KIND_HIGHLIGHT} /\ kind = KIND_HIGHLIGHT
    OBVIOUS
  <2>. HIDE DEF tags, kind, by, given, content
  <2>5. HighlightSourceUrl(tags) = page /\ page # Null /\ SoleTagValue(tags, "comment") = Null
    <3>1. ToSet(tags) = {<<"r", "a text">>, <<"r", mentioned, "mention">>, <<"r", page>>}
      BY OtherHighlightTags DEF tags
    <3>. QED BY <2>2, <3>1, OtherPageRead DEF IsPlain
  <2>6. PICK entry : JoinsOpenly(entry, by, given, author, kind, tags, content)
    BY <2>1, <2>2, <2>3, <2>4, OpenlyJoins
  <2>7. SpeaksOf(entry, Target)
    BY <2>3, <2>4, <2>5, <2>6, HighlightSpeaks DEF JoinsOpenly
  <2>. QED BY <2>6, <2>7 DEF JoinsOpenly, Continues
<1>. QED BY <1>1, <1>2 DEF AnnotateElsewhere

(* What is neither an annotation nor a message speaks of nothing but a zap *)
(* request, which names the author of its target.                          *)
LEMMA OtherStep ==
  ASSUME MayGrow, path # <<>>, NEW by, by = "zapRequest" \/ by = "receipt" \/ by = "nutzap", NEW given,
         NEW author \in Pubkeys, NEW genuine,
         NEW kind, kind = KIND_ZAP_REQUEST \/ kind = KIND_ZAP_RECEIPT \/ kind = KIND_NUTZAP,
         NEW tags, IsPlain(tags), NEW content, by = "zapRequest" => Target.pubkey \in ExtractPubkeys(tags),
         Add(by, given, author, genuine, Template(kind, tags, content))
  PROVE  Continues
<1>1. IsOpen(by)
  BY DEF IsOpen
<1>2. /\ kind \in {KIND_EVENT_DELETION, KIND_REPOST, KIND_REACTION, KIND_PRIVATE_MESSAGE, KIND_GENERIC_REPOST,
                   KIND_NUTZAP, KIND_ZAP_REQUEST, KIND_ZAP_RECEIPT, KIND_HIGHLIGHT}
      /\ kind \notin ThreadingKinds
  BY AnnotationKinds
<1>3. PICK entry : JoinsOpenly(entry, by, given, author, kind, tags, content)
  BY <1>1, <1>2, OpenlyJoins
<1>4. SpeaksOf(entry, Target)
  BY <1>2, <1>3, OthersSpeak DEF JoinsOpenly
<1>. QED BY <1>3, <1>4 DEF JoinsOpenly, Continues

LEMMA RequestZapStep ==
  ASSUME MayGrow, path # <<>>, IsWellFormed(Target), NEW author \in Pubkeys, RequestZap(author) PROVE Continues
<1>1. PICK amount \in Amounts, lnurl \in Lnurls \cup {Null} :
        Add("zapRequest", [amount |-> amount, lnurl |-> lnurl], author, TRUE, BuildZapRequest(ZapInput(amount, lnurl)))
  BY DEF RequestZap
<1>. DEFINE input == ZapInput(amount, lnurl)
            request == BuildZapRequest(input)
            tags == request.tags
            content == request.content
            by == "zapRequest"
            given == [amount |-> amount, lnurl |-> lnurl]
<1>2. request # Null /\ Add(by, given, author, TRUE, request)
  BY <1>1 DEF Add
<1>3. IsSequence(input.relayUrls) /\ input.recipientPubkey = Target.pubkey
  <2>1. IsFiniteSet(Hints \ {Null})
    BY HintsAssumption, FS_Difference
  <2>2. IsSequence(SetToSeq(Hints \ {Null}))
    BY <2>1, EachListed
  <2>. QED BY <2>2 DEF ZapInput
<1>4. /\ request.kind = KIND_ZAP_REQUEST /\ IsPlain(tags)
      /\ <<"p", input.recipientPubkey>> \in ToSet(tags)
  <2>. HIDE DEF input
  <2>. QED BY <1>2, <1>3, ZapRequestTags
<1>5. request = Template(KIND_ZAP_REQUEST, tags, content)
  BY <1>2 DEF BuildZapRequest, Template
<1>6. Target.pubkey \in ExtractPubkeys(tags)
  <2>. DEFINE p == <<"p", Target.pubkey>>
  <2>1. At(p, 1) = "p" /\ At(p, 2) = Target.pubkey
    BY ONLY SlotsWritten, SMT
  <2>2. p \in ToSet(tags)
    BY <1>3, <1>4
  <2>. HIDE DEF p, tags
  <2>. QED BY <1>4, <2>1, <2>2, AuthorNamed DEF IsPlain
<1>7. by = "zapRequest" \/ by = "receipt" \/ by = "nutzap"
  OBVIOUS
<1>8. Add(by, given, author, TRUE, Template(KIND_ZAP_REQUEST, tags, content))
  BY <1>2, <1>5
<1>. HIDE DEF tags, content, by, given
<1>. QED BY <1>4, <1>6, <1>7, <1>8, OtherStep

LEMMA ReceiptStep ==
  ASSUME MayGrow, path # <<>>, NEW given, NEW author \in Pubkeys, NEW genuine, NEW invoices, IsSequence(invoices), NEW description,
         Add("receipt", given, author, genuine, Receipt(invoices, description))
  PROVE  Continues
<1>. DEFINE receipt == Receipt(invoices, description)
            tags == receipt.tags
            content == receipt.content
            by == "receipt"
<1>1. receipt.kind = KIND_ZAP_RECEIPT /\ IsPlain(tags)
  BY ReceiptTags
<1>2. receipt = Template(KIND_ZAP_RECEIPT, tags, content)
  BY DEF Receipt, Template
<1>3. Add(by, given, author, genuine, Template(KIND_ZAP_RECEIPT, tags, content))
  BY <1>2
<1>4. by = "receipt" /\ by # "zapRequest"
  OBVIOUS
<1>. HIDE DEF tags, content, by
<1>. QED BY <1>1, <1>3, <1>4, OtherStep

LEMMA IssueReceiptStep == ASSUME MayGrow, path # <<>>, IssueReceipt PROVE Continues
<1>1. PICK invoice \in Invoices, author \in Authors :
        LET description == Impersonated(Target, author) IN
        \/ Add("receipt", [by |-> Provider, invoice |-> invoice], Provider, TRUE, Receipt(<< invoice >>, description))
        \/ \E name \in {Provider, author}, other \in {invoice, SomeInvoice} :
             Add("receipt", [by |-> author, invoice |-> invoice], name, name = author,
                 Receipt(<< invoice, other >>, description))
        \/ Add("receipt", [by |-> Provider, invoice |-> invoice], Provider, TRUE, Receipt(<< invoice >>, NotJson))
  BY DEF IssueReceipt
<1>2. IsSequence(<< invoice >>) /\ \A other : IsSequence(<< invoice, other >>)
  BY Tuples
<1>3. Provider \in Pubkeys /\ author \in Pubkeys
  BY AuthorsAssumption
<1>. DEFINE description == Impersonated(Target, author)
<1>. HIDE DEF description
<1>4. CASE Add("receipt", [by |-> Provider, invoice |-> invoice], Provider, TRUE, Receipt(<< invoice >>, description))
  BY <1>2, <1>3, <1>4, ReceiptStep, Zenon
<1>5. ASSUME NEW name \in {Provider, author}, NEW other \in {invoice, SomeInvoice},
             Add("receipt", [by |-> author, invoice |-> invoice], name, name = author,
                 Receipt(<< invoice, other >>, description))
      PROVE  Continues
  <2>1. name \in Pubkeys
    BY <1>3
  <2>. QED BY <1>2, <1>5, <2>1, ReceiptStep, Zenon
<1>6. CASE Add("receipt", [by |-> Provider, invoice |-> invoice], Provider, TRUE, Receipt(<< invoice >>, NotJson))
  BY <1>2, <1>3, <1>6, ReceiptStep, Zenon
<1>. QED BY <1>1, <1>4, <1>5, <1>6, Zenon DEF description

LEMMA SendNutzapStep == ASSUME MayGrow, path # <<>>, NEW author \in Pubkeys, SendNutzap(author) PROVE Continues
<1>1. PICK proofs \in Proofs, unit \in Units, recipient \in Authors, mint \in WebUrls :
        Add("nutzap", proofs, author, TRUE,
            Template(KIND_NUTZAP,
                     [i \in DOMAIN proofs |-> <<"proof", proofs[i]>>] \o TagOf("unit", unit)
                       \o << <<"p", recipient>>, <<"u", mint>> >>, ""))
  BY DEF SendNutzap
<1>. DEFINE tags == ([i \in DOMAIN proofs |-> <<"proof", proofs[i]>>] \o TagOf("unit", unit))
                       \o << <<"p", recipient>>, <<"u", mint>> >>
            by == "nutzap"
            content == ""
<1>2. IsPlain(tags)
  BY NutzapTags
<1>3. Add(by, proofs, author, TRUE, Template(KIND_NUTZAP, tags, content))
  BY <1>1
<1>4. by = "nutzap" /\ by # "zapRequest"
  OBVIOUS
<1>. HIDE DEF tags, content, by
<1>. QED BY <1>2, <1>3, <1>4, OtherStep

(* A rumour joins the path: its readers are the room's.                    *)
JoinsAsRumour(entry, by, kind, tags) ==
  /\ path' = Append(path, entry) /\ IsWellFormed(entry.event)
  /\ entry.by = by /\ entry.event.kind = kind /\ entry.event.tags = tags
  /\ ChatRoomMembers(entry.event) = {entry.given.sender} \cup ToSet(entry.given.receivers)
  /\ ExtractPubkeys(entry.event.tags) # {}

LEMMA RumourJoins ==
  ASSUME MayGrow, NEW by, NEW room \in Rooms,
         NEW kind, kind \in {KIND_EVENT_DELETION, KIND_REPOST, KIND_REACTION, KIND_PRIVATE_MESSAGE, KIND_GENERIC_REPOST,
                   KIND_NUTZAP, KIND_ZAP_REQUEST, KIND_ZAP_RECEIPT, KIND_HIGHLIGHT},
         NEW tags, IsPlain(tags), NEW content,
         Others(room) \subseteq ExtractPubkeys(tags),
         ExtractPubkeys(tags) \subseteq {room.sender} \cup Others(room),
         Add(by, room, room.sender, FALSE, Rumour(room.sender, kind, tags, content))
  PROVE  \E entry : JoinsAsRumour(entry, by, kind, tags)
<1>. DEFINE rumour == Rumour(room.sender, kind, tags, content)
<1>1. rumour.kind = kind /\ rumour.tags = tags
  BY DEF Rumour
<1>. HIDE DEF rumour
<1>2. IsNameable(kind, room.sender, tags)
  BY Regular
<1>3. room.sender \in Pubkeys /\ Others(room) # {}
      /\ {room.sender} \cup Others(room) = {room.sender} \cup ToSet(room.receivers)
  BY RoomsTell
<1>4. Add(by, room, room.sender, FALSE, rumour)
  BY DEF rumour
<1>5. IsPosted(rumour.tags) /\ IsNameable(rumour.kind, room.sender, rumour.tags)
  BY <1>1, <1>2, PlainPosted
<1>6. PICK entry : Joins(entry, by, room, room.sender, rumour)
  BY <1>3, <1>4, <1>5, Joined
<1>7. /\ entry.event.kind = kind /\ entry.event.tags = tags
      /\ entry.event.pubkey = room.sender /\ entry.given = room
  BY <1>1, <1>6 DEF Joins
<1>8. ChatRoomMembers(entry.event) = {room.sender} \cup ExtractPubkeys(tags)
  BY <1>7 DEF ChatRoomMembers
<1>9. {room.sender} \cup ExtractPubkeys(tags) = {room.sender} \cup ToSet(room.receivers)
  BY <1>3
<1>10. ExtractPubkeys(entry.event.tags) # {}
  BY <1>3, <1>7
<1>11. ChatRoomMembers(entry.event) = {entry.given.sender} \cup ToSet(entry.given.receivers)
  BY <1>7, <1>8, <1>9
<1>12. JoinsAsRumour(entry, by, kind, tags)
  BY <1>6, <1>7, <1>10, <1>11 DEF Joins, JoinsAsRumour
<1>. QED BY <1>12

LEMMA MessageKept ==
  ASSUME NEW entry, NEW target, entry.by = "message" \/ entry.by = "privateReaction",
         ChatRoomMembers(entry.event) = {entry.given.sender} \cup ToSet(entry.given.receivers),
         ExtractPubkeys(entry.event.tags) # {},
         entry.by = "privateReaction" => Last(Tagged(entry.event.tags, "p")) = <<"p", target.pubkey>>
  PROVE  KeepsToItsRoom(entry, target)
<1>. DEFINE p == <<"p", target.pubkey>>
            lastRead == Last(Tagged(entry.event.tags, "p"))
            members == {entry.given.sender} \cup ToSet(entry.given.receivers)
<1>1. entry.by = "privateReaction" => lastRead = p
  OBVIOUS
<1>2. ChatRoomMembers(entry.event) = members
  OBVIOUS
<1>. HIDE DEF p, lastRead, members
<1>3. /\ entry.by \notin {"repost", "reaction"} /\ entry.by # "groupChat"
  OBVIOUS
<1>4. /\ IsPrivate(entry) => ChatRoomMembers(entry.event) = members /\ ExtractPubkeys(entry.event.tags) # {}
      /\ entry.by = "privateReaction" => lastRead = p
  BY <1>1, <1>2
<1>. QED BY <1>3, <1>4 DEF KeepsToItsRoom, p, lastRead, members

LEMMA SendStep ==
  ASSUME MayGrow, path # <<>> => IsWellFormed(Target), NEW room \in Rooms, SendPrivately(room) PROVE Continues
<1>. DEFINE answered == IF (IF path = <<>> THEN Null ELSE Target) = Null THEN <<>>
                        ELSE << <<"e", (IF path = <<>> THEN Null ELSE Target).id>> >>
<1>1. CASE Add("message", room, room.sender, FALSE,
               BuildPrivateMessage(room, "text", IF path = <<>> THEN Null ELSE Target))
  <2>. DEFINE tags == RoomTags(room) \o answered
              by == "message"
              content == "text"
              kind == KIND_PRIVATE_MESSAGE
  <2>1. BuildPrivateMessage(room, "text", IF path = <<>> THEN Null ELSE Target)
          = Rumour(room.sender, kind, tags, content)
    BY DEF BuildPrivateMessage
  <2>2. Add(by, room, room.sender, FALSE, Rumour(room.sender, kind, tags, content))
    BY <1>1, <2>1
  <2>3. answered = <<>> \/ \E id : answered = << <<"e", id>> >>
    OBVIOUS
  <2>4. IsPlain(tags) /\ ExtractPubkeys(tags) = Others(room)
    <3>. HIDE DEF answered
    <3>. QED BY <2>3, MessageTells
  <2>5. /\ kind \in {KIND_EVENT_DELETION, KIND_REPOST, KIND_REACTION, KIND_PRIVATE_MESSAGE, KIND_GENERIC_REPOST,
                   KIND_NUTZAP, KIND_ZAP_REQUEST, KIND_ZAP_RECEIPT, KIND_HIGHLIGHT}
        /\ kind \notin ThreadingKinds
    BY AnnotationKinds
  <2>6. by = "message"
    OBVIOUS
  <2>. HIDE DEF tags, by, content, kind
  <2>7. PICK entry : JoinsAsRumour(entry, by, kind, tags)
    <3>1. Others(room) \subseteq ExtractPubkeys(tags) /\ ExtractPubkeys(tags) \subseteq {room.sender} \cup Others(room)
      BY <2>4
    <3>. QED BY <2>2, <2>4, <2>5, <3>1, RumourJoins
  <2>8. path' = Append(path, entry) /\ IsWellFormed(entry.event) /\ entry.by = "message"
    BY <2>6, <2>7 DEF JoinsAsRumour
  <2>9. KeepsToItsRoom(entry, Target)
    BY <2>7, <2>8, MessageKept DEF JoinsAsRumour
  <2>10. SpeaksOf(entry, Target)
    BY <2>5, <2>7, <2>8, OthersSpeak DEF JoinsAsRumour
  <2>. QED BY <2>8, <2>9, <2>10 DEF Continues, CanBeFirst
<1>2. ASSUME path # <<>>, Add("privateReaction", room, room.sender, FALSE, BuildPrivateReaction(room, Target, "+"))
      PROVE  Continues
  <2>. DEFINE k == <<"k", DecimalText[Target.kind]>>
              p == <<"p", Target.pubkey>>
              e == <<"e", Target.id, "", Target.pubkey>>
              tags == (<< e >> \o RemoveTag(RoomTags(room), "p", Target.pubkey)) \o << p, k >>
              by == "privateReaction"
              content == "+"
              kind == KIND_REACTION
  <2>1. BuildPrivateReaction(room, Target, "+") # Null
    BY <1>2 DEF Add
  <2>2. /\ Target.pubkey \in {room.sender} \cup ToSet(room.receivers)
        /\ BuildPrivateReaction(room, Target, "+") = Rumour(room.sender, kind, tags, content)
    BY <2>1 DEF BuildPrivateReaction
  <2>3. Add(by, room, room.sender, FALSE, Rumour(room.sender, kind, tags, content))
    BY <1>2, <2>2
  <2>4. IsPlainTag(k) /\ At(k, 1) = "k"
    BY Written, PlainNames
  <2>5. IsPlain(tags) /\ ExtractPubkeys(tags) = Others(room) \cup {Target.pubkey} /\ Last(Tagged(tags, "p")) = p
    <3>. HIDE DEF k
    <3>. QED BY <2>2, <2>4, PrivateReactionTells
  <2>6. /\ kind \in {KIND_EVENT_DELETION, KIND_REPOST, KIND_REACTION, KIND_PRIVATE_MESSAGE, KIND_GENERIC_REPOST,
                   KIND_NUTZAP, KIND_ZAP_REQUEST, KIND_ZAP_RECEIPT, KIND_HIGHLIGHT}
        /\ kind \notin ThreadingKinds
    BY AnnotationKinds
  <2>7. by = "privateReaction"
    OBVIOUS
  <2>. HIDE DEF k, p, e, tags, by, content, kind
  <2>8. PICK entry : JoinsAsRumour(entry, by, kind, tags)
    <3>1. {room.sender} \cup Others(room) = {room.sender} \cup ToSet(room.receivers)
      BY RoomsTell
    <3>2. Others(room) \subseteq ExtractPubkeys(tags) /\ ExtractPubkeys(tags) \subseteq {room.sender} \cup Others(room)
      BY <2>2, <2>5, <3>1
    <3>3. IsPlain(tags)
      BY <2>5
    <3>. HIDE DEF answered
    <3>. QED BY <2>3, <2>6, <3>2, <3>3, RumourJoins
  <2>9. path' = Append(path, entry) /\ IsWellFormed(entry.event) /\ entry.by = "privateReaction"
    BY <2>7, <2>8 DEF JoinsAsRumour
  <2>10. Last(Tagged(entry.event.tags, "p")) = p
    BY <2>5, <2>8 DEF JoinsAsRumour
  <2>11. KeepsToItsRoom(entry, Target)
    BY <2>8, <2>9, <2>10, MessageKept DEF p, JoinsAsRumour
  <2>12. SpeaksOf(entry, Target)
    BY <2>6, <2>8, <2>9, OthersSpeak DEF JoinsAsRumour
  <2>. QED BY <1>2, <2>9, <2>11, <2>12 DEF Continues
<1>. QED BY <1>1, <1>2 DEF SendPrivately, Annotates

LEMMA OpenStep == ASSUME MayGrow, Open PROVE Continues
<1>1. path = <<>> /\ \E event \in OpeningEvents : Add("opening", Null, event.pubkey, TRUE, event)
  BY DEF Open
<1>. DEFINE by == "opening"
            given == Null
<1>2. PICK event \in OpeningEvents : Add(by, given, event.pubkey, TRUE, event)
  BY <1>1
<1>3. by = "opening"
  OBVIOUS
<1>. HIDE DEF by, given
<1>4. event.pubkey \in Pubkeys /\ IsTags(event.tags) /\ IsNameable(event.kind, event.pubkey, event.tags)
  BY OpeningsAssumption
<1>5. event.tags \in GivenTags
  BY DEF GivenTags
<1>6. IsPosted(event.tags)
  BY <1>4, <1>5, GivenArePosted
<1>7. PICK entry : Joins(entry, by, given, event.pubkey, event)
  BY <1>2, <1>4, <1>6, Joined
<1>8. path' = Append(path, entry) /\ IsWellFormed(entry.event) /\ entry.by = "opening"
  BY <1>3, <1>7 DEF Joins
<1>9. KeepsToItsRoom(entry, Target)
  BY <1>8, NotRoomed
<1>. QED BY <1>1, <1>8, <1>9 DEF Continues, CanBeFirst

LEMMA PublishedBy ==
  ASSUME NEW publication \in Publications
  PROVE  publication.by \notin {"message", "privateReaction", "repost", "reaction"}
<1>1. publication.by \in {"note", "longform", "draftWrap", "appSettings", "metadata", "relayList", "clientAuth",
                          "file", "imeta", "groupChat"}
  BY PublicationsAssumption
<1>. QED BY <1>1

LEMMA GroupChatKept ==
  ASSUME NEW entry, NEW target, entry.by = "groupChat",
         PointerOf(Naming(entry.event.tags)) = [id |-> entry.given.id, relayHint |-> entry.given.relayHint]
  PROVE  KeepsToItsRoom(entry, target)
<1>1. GroupPointerOf(entry.event) = [id |-> entry.given.id, relayHint |-> entry.given.relayHint]
  BY PointersByNaming
<1>. QED BY <1>1 DEF KeepsToItsRoom, IsPrivate

LEMMA PublishStep == ASSUME MayGrow, Publish PROVE Continues
<1>1. PICK author \in Authors, publication \in Publications :
        path = <<>> /\ Add(publication.by, publication.given, author, TRUE, Built(publication))
  BY DEF Publish
<1>2. Built(publication) # Null
  BY <1>1 DEF Add
<1>3. author \in Pubkeys /\ IsNameable(Built(publication).kind, author, Built(publication).tags)
  BY <1>2, AuthorsAssumption, BuiltAssumption
<1>4. /\ IsPosted(Built(publication).tags)
      /\ publication.by = "groupChat" =>
           PointerOf(Naming(Built(publication).tags))
             = [id |-> publication.given.id, relayHint |-> publication.given.relayHint]
  BY <1>2, BuiltArePosted
<1>5. PICK entry : Joins(entry, publication.by, publication.given, author, Built(publication))
  BY <1>1, <1>3, <1>4, Joined
<1>6. /\ path' = Append(path, entry) /\ IsWellFormed(entry.event)
      /\ entry.by = publication.by /\ entry.given = publication.given
      /\ entry.event.tags = Built(publication).tags
  BY <1>5 DEF Joins
<1>7. entry.by \notin {"message", "privateReaction", "repost", "reaction"}
  BY <1>6, PublishedBy
<1>8. KeepsToItsRoom(entry, Target)
  <2>1. CASE entry.by = "groupChat"
    BY <1>4, <1>6, <2>1, GroupChatKept
  <2>2. CASE entry.by # "groupChat"
    BY <1>7, <2>2, NotRoomed
  <2>. QED BY <2>1, <2>2
<1>. QED BY <1>1, <1>6, <1>7, <1>8 DEF Continues, CanBeFirst

-----------------------------------------------------------------------------
(* The invariant the two proofs rest on: every event of the path is        *)
(* well-formed, so that its coordinate and its group are read back from    *)
(* the tags a later builder writes.                                        *)
IInv ==
  /\ IsSequence(path)
  /\ \A i \in DOMAIN path : IsWellFormed(path[i].event)
  /\ path # <<>> => CanBeFirst(path[1])
  /\ StaysInItsRoom
  /\ AnnotatesItsTarget

LEMMA Lengths ==
  ASSUME IsSequence(path)
  PROVE  /\ Len(path) \in Nat /\ DOMAIN path = 1..Len(path)
         /\ path # <<>> => Len(path) \in DOMAIN path /\ Target = path[Len(path)].event
<1>1. Len(path) \in Nat /\ DOMAIN path = 1..Len(path) /\ path \in Seq(ToSet(path))
  BY TypedSequence DEF IsSequence
<1>2. path # <<>> => Len(path) > 0
  BY <1>1
<1>3. Last(path) = path[Len(path)]
  BY DEF Last
<1>. QED BY <1>1, <1>2, <1>3 DEF Target

LEMMA EveryStep == ASSUME IInv, Next PROVE Continues
<1>1. /\ Len(path) \in Nat /\ DOMAIN path = 1..Len(path)
      /\ path # <<>> => Len(path) \in DOMAIN path /\ Target = path[Len(path)].event
  BY Lengths DEF IInv
<1>2. path # <<>> => IsWellFormed(Target)
  BY <1>1 DEF IInv
<1>3. path = <<>> => MayGrow
  BY DEF IInv, MayGrow
<1>4. Annotates => MayGrow /\ path # <<>>
  BY DEF IInv, MayGrow, Annotates
<1>5. OnPublicEvent => MayGrow /\ path # <<>> /\ IsWellFormed(Target)
  BY <1>2, <1>4 DEF OnPublicEvent
<1>6. Authors \subseteq Pubkeys
  BY AuthorsAssumption
<1>7. CASE Open
  BY <1>3, <1>7, OpenStep DEF Open
<1>8. CASE Publish
  BY <1>3, <1>8, PublishStep DEF Publish
<1>9. ASSUME NEW room \in Rooms, SendPrivately(room) PROVE Continues
  <2>1. MayGrow
    BY <1>3, <1>4, <1>9 DEF SendPrivately
  <2>. QED BY <1>2, <1>9, <2>1, SendStep
<1>10. ASSUME OnPublicEvent, NEW author \in Authors,
              Repost(author) \/ React(author) \/ Delete(author) \/ Highlight(author) \/ AnnotateElsewhere(author)
       PROVE  Continues
  <2>1. MayGrow /\ path # <<>> /\ IsWellFormed(Target) /\ author \in Pubkeys
    BY <1>5, <1>6, <1>10
  <2>. QED BY <1>10, <2>1, RepostStep, ReactStep, DeleteStep, HighlightStep, AnnotateElsewhereStep
<1>11. ASSUME OnPublicEvent, NEW author \in Authors, RequestZap(author) PROVE Continues
  BY <1>5, <1>6, <1>11, RequestZapStep
<1>12. CASE OnPublicEvent /\ IssueReceipt
  BY <1>5, <1>12, IssueReceiptStep
<1>13. ASSUME OnPublicEvent, NEW author \in Authors, SendNutzap(author) PROVE Continues
  BY <1>5, <1>6, <1>13, SendNutzapStep
<1>. QED BY <1>7, <1>8, <1>9, <1>10, <1>11, <1>12, <1>13 DEF Next

LEMMA FirstKept ==
  ASSUME NEW entry, CanBeFirst(entry), NEW target, KeepsToItsRoom(entry, target), NEW other
  PROVE  KeepsToItsRoom(entry, other)
BY DEF CanBeFirst, KeepsToItsRoom

LEMMA PathGrows == ASSUME IInv, Continues PROVE IInv'
<1>1. PICK entry :
        /\ path' = Append(path, entry) /\ IsWellFormed(entry.event)
        /\ KeepsToItsRoom(entry, Target)
        /\ IF path = <<>> THEN CanBeFirst(entry) ELSE SpeaksOf(entry, Target)
  BY DEF Continues
<1>. DEFINE n == Len(path)
            T == ToSet(path) \cup {entry}
<1>2. /\ n \in Nat /\ DOMAIN path = 1..n
      /\ path # <<>> => n \in DOMAIN path /\ Target = path[n].event
  BY Lengths DEF IInv
<1>3. path \in Seq(T) /\ entry \in T
  <2>1. path \in Seq(ToSet(path))
    BY DEF IInv, IsSequence
  <2>. QED BY <2>1
<1>4. /\ path' \in Seq(T) /\ DOMAIN path' = 1..(n + 1)
      /\ \A i \in 1..n : path'[i] = path[i]
      /\ path'[n + 1] = entry
  <2>. HIDE DEF T
  <2>. QED BY <1>1, <1>3
<1>5. path = <<>> <=> n = 0
  BY <1>3
<1>. HIDE DEF n, T
<1>6. IsSequence(path')
  BY <1>4, TypedSequence
<1>7. \A i \in DOMAIN path' : IsWellFormed(path'[i].event)
  BY <1>1, <1>2, <1>4 DEF IInv
<1>8. CanBeFirst(path'[1])
  BY <1>1, <1>2, <1>4, <1>5 DEF IInv
<1>9. \A i \in DOMAIN path' : i # 1 => path'[i - 1] = path[i - 1]
  BY <1>2, <1>4
<1>10. ASSUME NEW i \in DOMAIN path' PROVE KeepsToItsRoom(path'[i], path'[i - 1].event)
  <2>1. CASE i = n + 1 /\ n # 0
    <3>1. Target = path'[i - 1].event
      <4>1. i - 1 = n /\ i # 1
        BY <1>2, <2>1
      <4>2. path'[i - 1] = path[n] /\ path # <<>>
        BY <1>5, <1>9, <2>1, <4>1
      <4>. QED BY <1>2, <4>2
    <3>. QED BY <1>1, <1>4, <2>1, <3>1
  <2>2. CASE i = n + 1 /\ n = 0
    BY <1>1, <1>4, <1>5, <2>2, FirstKept
  <2>3. CASE i # n + 1 /\ i # 1
    <3>1. i \in DOMAIN path /\ path'[i] = path[i] /\ path'[i - 1] = path[i - 1]
      BY <1>2, <1>4, <1>9, <2>3
    <3>2. KeepsToItsRoom(path[i], path[i - 1].event)
      BY <3>1 DEF IInv, StaysInItsRoom, About
    <3>. QED BY <3>1, <3>2
  <2>4. CASE i # n + 1 /\ i = 1
    <3>1. 1 \in DOMAIN path /\ path'[1] = path[1] /\ path # <<>>
      BY <1>2, <1>4, <1>5, <2>4
    <3>2. KeepsToItsRoom(path[1], About(1)) /\ CanBeFirst(path[1])
      BY <3>1 DEF IInv, StaysInItsRoom
    <3>. QED BY <2>4, <3>1, <3>2, FirstKept
  <2>. QED BY <2>1, <2>2, <2>3, <2>4
<1>11. ASSUME NEW i \in DOMAIN path' \ {1} PROVE SpeaksOf(path'[i], path'[i - 1].event)
  <2>1. CASE i = n + 1
    <3>1. n # 0
      BY <2>1
    <3>2. Target = path'[i - 1].event
      <4>1. i - 1 = n
        BY <1>2, <2>1
      <4>2. path'[i - 1] = path[n] /\ path # <<>>
        BY <1>5, <1>9, <3>1, <4>1
      <4>. QED BY <1>2, <4>2
    <3>. QED BY <1>1, <1>4, <1>5, <2>1, <3>1, <3>2
  <2>2. CASE i # n + 1
    <3>1. i \in DOMAIN path \ {1} /\ path'[i] = path[i] /\ path'[i - 1] = path[i - 1]
      BY <1>2, <1>4, <1>9, <2>2
    <3>2. SpeaksOf(path[i], path[i - 1].event)
      BY <3>1 DEF IInv, AnnotatesItsTarget, About
    <3>. QED BY <3>1, <3>2
  <2>. QED BY <2>1, <2>2
<1>. QED BY <1>6, <1>7, <1>8, <1>10, <1>11 DEF IInv, StaysInItsRoom, AnnotatesItsTarget, About

(* The path of events and annotations satisfies the invariant above in     *)
(* every state (Annotations, for builder.ts and group-chat.ts).            *)
THEOREM AnnotationsInductive == Spec => []IInv
<1>1. Init => IInv
  <2>1. Init => path = <<>> /\ DOMAIN path = {} /\ IsSequence(path)
    BY NoTags DEF Init, IsTags
  <2>. QED BY <2>1 DEF IInv, StaysInItsRoom, AnnotatesItsTarget
<1>2. IInv /\ [Next]_vars => IInv'
  <2>1. IInv /\ Next => IInv'
    BY EveryStep, PathGrows
  <2>2. IInv /\ UNCHANGED vars => IInv'
    BY DEF vars, IInv, StaysInItsRoom, AnnotatesItsTarget, About
  <2>. QED BY <2>1, <2>2
<1>. QED BY <1>1, <1>2, PTL DEF Spec

(* A rumour is read by the members of the room its sender addressed and by *)
(* nobody else, and an annotation made in a group names that group, or the *)
(* disagreeing ones of its target: whatever the room, the hints and the    *)
(* tags other programs write (buildPrivateMessage, buildPrivateReaction,   *)
(* withGroupTag, buildGroupChatMessage).                                   *)
THEOREM RoomsAreKept == Spec => []StaysInItsRoom
BY AnnotationsInductive, PTL DEF IInv

(* analyseEvent reads a repost, a reaction, a highlight or a deletion back *)
(* as being about the event its builder was given, whatever that event and *)
(* its tags are, and takes none of them for a reply (builder.ts,           *)
(* event-analysis.ts).                                                     *)
THEOREM TargetsAreAnnotated == Spec => []AnnotatesItsTarget
BY AnnotationsInductive, PTL DEF IInv
-----------------------------------------------------------------------------
(* Ten pico-bitcoins are a millisat, and every other unit is millisats.    *)
LEMMA Quotients ==
  ASSUME NEW x \in Nat, NEW m \in Nat \ {0}, NEW n \in Nat
  PROVE  n <= x \div m <=> n * m <= x
<1>. DEFINE q == x \div m
            r == x % m
<1>1. q \in Nat /\ r \in Nat /\ r < m /\ x = m * q + r
  BY SMT
<1>. HIDE DEF q, r
<1>2. CASE n <= q
  <2>1. PICK k \in Nat : q = n + k
    <3>1. q - n \in Nat /\ q = n + (q - n)
      BY <1>1, <1>2
    <3>. QED BY <3>1
  <2>2. x = n * m + k * m + r
    BY <1>1, <2>1
  <2>3. k * m \in Nat /\ n * m \in Nat
    BY <2>1
  <2>. QED BY <1>1, <1>2, <2>2, <2>3 DEF q
<1>3. CASE q < n
  <2>1. PICK k \in Nat : n = q + 1 + k
    <3>1. n - q - 1 \in Nat /\ n = q + 1 + (n - q - 1)
      BY <1>1, <1>3
    <3>. QED BY <3>1
  <2>2. n * m = q * m + m + k * m
    BY <1>1, <2>1
  <2>3. k * m \in Nat /\ q * m \in Nat /\ m * q = q * m
    BY <1>1, <2>1
  <2>. QED BY <1>1, <1>3, <2>2, <2>3 DEF q
<1>. QED BY <1>1, <1>2, <1>3

LEMMA UnitsAgree ==
  /\ \A unit \in {"", "m", "u", "n"} : MSATS_PER_UNIT[unit] \in Nat \ {0} /\ PICOS[unit] = 10 * MSATS_PER_UNIT[unit]
  /\ PICOS["p"] = 1
<1>. DEFINE nano == Thousand \div 10
            T    == Thousand
<1>1. nano \in Nat \ {0} /\ T = 10 * nano /\ T \in Nat \ {0}
  BY ThousandAssumption
<1>2. /\ MSATS_PER_UNIT[""] = nano * T * T * T /\ MSATS_PER_UNIT["m"] = nano * T * T
      /\ MSATS_PER_UNIT["u"] = nano * T /\ MSATS_PER_UNIT["n"] = nano
  BY DEF MSATS_PER_UNIT
<1>3. /\ PICOS[""] = T * T * T * T /\ PICOS["m"] = T * T * T /\ PICOS["u"] = T * T /\ PICOS["n"] = T /\ PICOS["p"] = 1
  BY DEF PICOS
<1>. HIDE DEF nano, T
<1>4. /\ T * T = 10 * (nano * T) /\ T * T * T = 10 * (nano * T * T) /\ T * T * T * T = 10 * (nano * T * T * T)
      /\ nano * T \in Nat \ {0}
  BY <1>1
<1>5. nano * T * T \in Nat \ {0}
  BY <1>1, <1>4
<1>6. nano * T * T * T \in Nat \ {0}
  BY <1>1, <1>5
<1>. QED BY <1>1, <1>2, <1>3, <1>4, <1>5, <1>6

LEMMA AmountsRead ==
  ASSUME NEW n \in Amounts, n \in Nat
  PROVE  DecimalText[n] # Null /\ ParseDecimalInteger(DecimalText[n]) = n
<1>1. n \in DOMAIN DecimalText /\ DecimalText[n] \in Range(DecimalText)
  BY AmountsAssumption DEF Range
<1>2. \A m \in DOMAIN DecimalText : DecimalText[m] = DecimalText[n] <=> m = n
  BY <1>1, AmountsAssumption
<1>3. (CHOOSE m \in DOMAIN DecimalText : DecimalText[m] = DecimalText[n]) = n
  BY <1>1, <1>2
<1>4. n >= 0
  OBVIOUS
<1>5. ParseDecimalInteger(DecimalText[n]) = CHOOSE m \in DOMAIN DecimalText : DecimalText[m] = DecimalText[n]
  BY <1>1, <1>4 DEF ParseDecimalInteger
<1>. QED BY <1>1, <1>3, <1>5, AmountsAssumption

(* The amount of an invoice is read from it, and is what its digits write. *)
IsPaid(invoice, amount) == invoice.digits # Null /\ invoice.digits * PICOS[invoice.unit] = 10 * amount

LEMMA InvoicesRead ==
  ASSUME NEW invoice \in Invoices, NEW amount \in Nat \ {0}
  PROVE  /\ ParseBolt11Msats(invoice) = amount => IsPaid(invoice, amount)
         /\ IsPaid(invoice, amount) /\ amount <= MAX_ZAP_MSATS
              /\ invoice.network \in BITCOIN_NETWORKS /\ ~invoice.mixedCase => ParseBolt11Msats(invoice) = amount
<1>. DEFINE digits == invoice.digits
            unit   == invoice.unit
            read   == ParseBolt11Msats(invoice)
            size   == MSATS_PER_UNIT[unit]
            legal  == invoice.network \in BITCOIN_NETWORKS /\ ~invoice.mixedCase
<1>1. digits \in Nat \cup {Null} /\ unit \in {"", "m", "u", "n", "p"} /\ Null \notin Nat
  BY InvoicesAssumption, AmountsAssumption
<1>2. read = IF ~legal \/ digits \in {Null, 0} THEN Null
             ELSE IF unit = "p"
                  THEN IF digits % 10 = 0 /\ digits \div 10 <= MAX_ZAP_MSATS THEN digits \div 10 ELSE Null
             ELSE IF digits <= MAX_ZAP_MSATS \div size THEN digits * size
             ELSE Null
  BY <1>1 DEF ParseBolt11Msats
<1>3. IsPaid(invoice, amount) <=> digits # Null /\ digits * PICOS[unit] = 10 * amount
  BY DEF IsPaid
<1>4. MAX_ZAP_MSATS \in Nat
  BY UnitsAgree DEF MAX_ZAP_MSATS
<1>5. amount # Null
  BY <1>1, Zenon
<1>. HIDE DEF digits, unit, read, size, legal
<1>6. CASE digits = Null
  BY <1>2, <1>3, <1>5, <1>6 DEF read
<1>7. CASE digits \in Nat /\ unit = "p"
  <2>1. digits # Null
    BY <1>1, <1>7, Zenon
  <2>2. PICOS[unit] = 1
    BY <1>7, UnitsAgree
  <2>3. digits * PICOS[unit] = digits
    BY <1>7, <2>2
  <2>4. IsPaid(invoice, amount) <=> digits = 10 * amount
    BY <1>3, <2>1, <2>3, Zenon
  <2>5. digits % 10 = 0 /\ digits \div 10 = amount <=> digits = 10 * amount
    BY <1>7
  <2>6. digits = 10 * amount => digits # 0
    OBVIOUS
  <2>. QED BY <1>2, <1>5, <1>7, <2>1, <2>4, <2>5, <2>6 DEF legal, read
<1>8. CASE digits \in Nat /\ unit # "p"
  <2>1. size \in Nat \ {0} /\ PICOS[unit] = 10 * size
    BY <1>1, <1>8, UnitsAgree DEF size
  <2>2. digits * PICOS[unit] = 10 * (digits * size) /\ digits * size \in Nat
    BY <1>8, <2>1
  <2>3. digits # Null
    BY <1>1, <1>8, Zenon
  <2>4. IsPaid(invoice, amount) <=> digits * size = amount
    BY <1>3, <2>2, <2>3
  <2>5. digits <= MAX_ZAP_MSATS \div size <=> digits * size <= MAX_ZAP_MSATS
    BY <1>4, <1>8, <2>1, Quotients
  <2>6. digits = 0 => digits * size = 0
    BY <2>1
  <2>. QED BY <1>2, <1>5, <1>8, <2>3, <2>4, <2>5, <2>6 DEF legal, read
<1>. QED BY <1>1, <1>6, <1>7, <1>8 DEF legal, read

-----------------------------------------------------------------------------
(* Null and NotJson, a text, are no functions.                             *)
NoRecordIsNothing == \A f : f = [x \in DOMAIN f |-> f[x]] => f # Null /\ f # NotJson

(* The entry of a zap request: it asks for what its maker was given.       *)
IsRequest(entry) ==
  LET event == entry.event IN
  /\ entry.given.amount \in Amounts /\ entry.given.amount \in Nat \ {0}
  /\ entry.given.lnurl \in Lnurls \cup {Null}
  /\ event = [id |-> event.id, pubkey |-> event.pubkey, genuine |-> TRUE,
              kind |-> KIND_ZAP_REQUEST, tags |-> event.tags, content |-> event.content]
  /\ ExtractTagValues(event.tags, "amount") = {DecimalText[entry.given.amount]}
  /\ ExtractTagValues(event.tags, "lnurl") = {entry.given.lnurl} \ {Null}

(* The entry of a receipt: the provider's, signed, for a payment and with  *)
(* the request it was handed, or anybody's, signed by the author alone.    *)
IsReceipt(entry, request) ==
  LET event == entry.event IN
  /\ entry.given.invoice \in Invoices /\ event.kind = KIND_ZAP_RECEIPT
  /\ \E author \in Authors :
       \/ /\ entry.given.by = Provider /\ event.pubkey = Provider /\ event.genuine
          /\ SoleTagValue(event.tags, "bolt11") = entry.given.invoice
          /\ SoleTagValue(event.tags, "description") \in {Impersonated(request, author), NotJson}
       \/ /\ entry.given.by = author
          /\ event.genuine => event.pubkey = author

LEMMA ReceiptParsed ==
  ASSUME NEW event, event.kind = KIND_ZAP_RECEIPT
  PROVE  LET description == SoleTagValue(event.tags, "description")
             bolt11      == SoleTagValue(event.tags, "bolt11")
             amount      == ParseBolt11Msats(bolt11)
             receipt     == [receipt |-> event, zapRequest |-> description, amountMillisats |-> amount,
                             amountSats |-> amount \div MSATS_PER_SAT,
                             pubkey |-> description.pubkey, message |-> description.content]
             reads       == /\ description \notin {Null, NotJson} /\ description.kind = KIND_ZAP_REQUEST
                            /\ bolt11 # Null /\ amount # Null /\ RequestedAmountsMatch(description, amount)
         IN  ParseZapReceipt(event) = IF reads THEN receipt ELSE Null
<1>. DEFINE description == SoleTagValue(event.tags, "description")
            bolt11      == SoleTagValue(event.tags, "bolt11")
<1>1. CASE description = Null
  BY <1>1 DEF ParseZapReceipt
<1>2. CASE description # Null /\ ParseZapRequest(description) = Null
  BY <1>2 DEF ParseZapReceipt, ParseZapRequest
<1>3. CASE description # Null /\ ParseZapRequest(description) # Null
  <2>1. ParseZapRequest(description) = description /\ description # NotJson /\ description.kind = KIND_ZAP_REQUEST
    BY <1>3 DEF ParseZapRequest
  <2>. QED BY <1>3, <2>1 DEF ParseZapReceipt
<1>. QED BY <1>1, <1>2, <1>3

(* What a reader makes of a receipt.                                       *)
Verdict(event) ==
  LET receipt == ParseZapReceipt(event)
  IN  IF receipt = Null THEN "unread" ELSE VerifyZapReceipt(receipt, Provider, ProviderLnurl)

LEMMA ReceiptVerified ==
  ASSUME NEW event, event.kind = KIND_ZAP_RECEIPT, Verdict(event) = "ok"
  PROVE  LET receipt     == ParseZapReceipt(event)
             description == SoleTagValue(event.tags, "description")
             amount      == ParseBolt11Msats(SoleTagValue(event.tags, "bolt11"))
         IN  /\ event.pubkey = Provider /\ event.genuine
             /\ description # NotJson /\ description.genuine /\ LnurlMatches(description, ProviderLnurl)
             /\ amount # Null /\ RequestedAmountsMatch(description, amount)
             /\ receipt.amountMillisats = amount /\ receipt.pubkey = description.pubkey
<1>. DEFINE receipt     == ParseZapReceipt(event)
            description == SoleTagValue(event.tags, "description")
            amount      == ParseBolt11Msats(SoleTagValue(event.tags, "bolt11"))
<1>1. receipt # Null /\ VerifyZapReceipt(receipt, Provider, ProviderLnurl) = "ok"
  BY DEF Verdict
<1>2. /\ receipt = [receipt |-> event, zapRequest |-> description, amountMillisats |-> amount,
                    amountSats |-> amount \div MSATS_PER_SAT,
                    pubkey |-> description.pubkey, message |-> description.content]
      /\ description # NotJson /\ amount # Null /\ RequestedAmountsMatch(description, amount)
  <2>. HIDE DEF description, amount, receipt
  <2>. QED BY <1>1, ReceiptParsed DEF description, amount, receipt
<1>. HIDE DEF description, amount, receipt
<1>3. /\ receipt.receipt = event /\ receipt.zapRequest = description
      /\ receipt.amountMillisats = amount /\ receipt.pubkey = description.pubkey
  BY <1>2
<1>4. /\ event.pubkey = Provider /\ LnurlMatches(description, ProviderLnurl)
      /\ event.genuine /\ description.genuine
  BY <1>1, <1>3 DEF VerifyZapReceipt
<1>. QED BY <1>2, <1>3, <1>4 DEF description, amount, receipt

LEMMA HonestReceipt ==
  ASSUME NEW entry, NEW before, IsRequest(before), IsReceipt(entry, before.event), Verdict(entry.event) = "ok"
  PROVE  LET asked   == before.given
             receipt == ParseZapReceipt(entry.event)
         IN  /\ entry.given.by = Provider /\ IsPaid(entry.given.invoice, asked.amount)
             /\ receipt.amountMillisats = asked.amount /\ receipt.pubkey = before.event.pubkey
             /\ asked.lnurl \in {Null} \cup {lnurl \in Lnurls : ToLowerCase(lnurl) = ProviderLnurl}
<1>. DEFINE event       == entry.event
            request     == before.event
            asked       == before.given
            invoice     == entry.given.invoice
            description == SoleTagValue(event.tags, "description")
            amount      == ParseBolt11Msats(SoleTagValue(event.tags, "bolt11"))
            receipt     == ParseZapReceipt(event)
<1>1. event.kind = KIND_ZAP_RECEIPT /\ invoice \in Invoices
  BY DEF IsReceipt
<1>2. /\ event.pubkey = Provider /\ event.genuine
      /\ description # NotJson /\ description.genuine /\ LnurlMatches(description, ProviderLnurl)
      /\ amount # Null /\ RequestedAmountsMatch(description, amount)
      /\ receipt.amountMillisats = amount /\ receipt.pubkey = description.pubkey
  BY <1>1, ReceiptVerified
<1>3. PICK author \in Authors :
        \/ /\ entry.given.by = Provider
           /\ SoleTagValue(event.tags, "bolt11") = invoice
           /\ description \in {Impersonated(request, author), NotJson}
        \/ event.pubkey = author
  BY <1>2 DEF IsReceipt
<1>4. /\ entry.given.by = Provider /\ amount = ParseBolt11Msats(invoice)
      /\ description = Impersonated(request, author)
  BY <1>2, <1>3, ProviderAssumption
<1>5. /\ asked.amount \in Amounts /\ asked.amount \in Nat \ {0} /\ asked.lnurl \in Lnurls \cup {Null}
      /\ request = [id |-> request.id, pubkey |-> request.pubkey, genuine |-> TRUE,
                    kind |-> KIND_ZAP_REQUEST, tags |-> request.tags, content |-> request.content]
      /\ ExtractTagValues(request.tags, "amount") = {DecimalText[asked.amount]}
      /\ ExtractTagValues(request.tags, "lnurl") = {asked.lnurl} \ {Null}
  BY DEF IsRequest
<1>6. /\ description.tags = request.tags /\ description.pubkey = author
      /\ description.genuine => author = request.pubkey
  <2>. DEFINE r == [id |-> request.id, pubkey |-> request.pubkey, genuine |-> TRUE,
                    kind |-> KIND_ZAP_REQUEST, tags |-> request.tags, content |-> request.content]
  <2>1. description = [r EXCEPT !.pubkey = author, !.genuine = (author = request.pubkey)]
    BY <1>4, <1>5 DEF Impersonated
  <2>. QED BY <2>1
<1>. HIDE DEF event, request, asked, invoice, description, amount, receipt
<1>7. amount = asked.amount
  <2>1. ParseDecimalInteger(DecimalText[asked.amount]) = amount
    BY <1>2, <1>5, <1>6 DEF RequestedAmountsMatch
  <2>. QED BY <1>5, <2>1, AmountsRead
<1>8. IsPaid(invoice, asked.amount)
  BY <1>1, <1>4, <1>5, <1>7, InvoicesRead
<1>9. asked.lnurl # Null => asked.lnurl \in Lnurls /\ ToLowerCase(asked.lnurl) = ProviderLnurl
  BY <1>2, <1>5, <1>6, ProviderAssumption DEF LnurlMatches
<1>. QED BY <1>2, <1>4, <1>6, <1>7, <1>8, <1>9 DEF event, request, asked, invoice, description, receipt

LEMMA PaidReceipt ==
  ASSUME NoRecordIsNothing, NEW entry, NEW before, IsRequest(before), IsReceipt(entry, before.event),
         entry.given.by = Provider, IsPaid(entry.given.invoice, before.given.amount),
         before.given.amount <= MAX_ZAP_MSATS,
         entry.given.invoice.network \in BITCOIN_NETWORKS, ~entry.given.invoice.mixedCase,
         before.given.lnurl \in {Null, ProviderLnurl},
         SoleTagValue(entry.event.tags, "description") = before.event
  PROVE  /\ Verdict(entry.event) = "ok"
         /\ ParseZapReceipt(entry.event).amountSats = before.given.amount \div MSATS_PER_SAT
<1>. DEFINE event   == entry.event
            request == before.event
            asked   == before.given
            invoice == entry.given.invoice
            amount  == ParseBolt11Msats(invoice)
            receipt == [receipt |-> event, zapRequest |-> request, amountMillisats |-> amount,
                        amountSats |-> amount \div MSATS_PER_SAT,
                        pubkey |-> request.pubkey, message |-> request.content]
<1>1. event.kind = KIND_ZAP_RECEIPT /\ invoice \in Invoices /\ invoice # Null
  BY InvoicesAssumption DEF IsReceipt
<1>2. /\ event.pubkey = Provider /\ event.genuine
      /\ SoleTagValue(event.tags, "bolt11") = invoice
  BY ProviderAssumption DEF IsReceipt
<1>3. /\ asked.amount \in Amounts /\ asked.amount \in Nat \ {0}
      /\ request = [id |-> request.id, pubkey |-> request.pubkey, genuine |-> TRUE,
                    kind |-> KIND_ZAP_REQUEST, tags |-> request.tags, content |-> request.content]
      /\ ExtractTagValues(request.tags, "amount") = {DecimalText[asked.amount]}
      /\ ExtractTagValues(request.tags, "lnurl") = {asked.lnurl} \ {Null}
  BY DEF IsRequest
<1>4. request.kind = KIND_ZAP_REQUEST /\ request.genuine
  BY <1>3
<1>5. request # Null /\ request # NotJson
  <2>. DEFINE r == [id |-> request.id, pubkey |-> request.pubkey, genuine |-> TRUE,
                    kind |-> KIND_ZAP_REQUEST, tags |-> request.tags, content |-> request.content]
  <2>1. r = [x \in DOMAIN r |-> r[x]]
    OBVIOUS
  <2>2. r # Null /\ r # NotJson
    BY <2>1, Zenon DEF NoRecordIsNothing
  <2>. QED BY <1>3, <2>2
<1>6. receipt # Null
  <2>1. receipt = [x \in DOMAIN receipt |-> receipt[x]]
    OBVIOUS
  <2>. QED BY <2>1, Zenon DEF NoRecordIsNothing
<1>7. amount = asked.amount
  BY <1>1, <1>3, InvoicesRead
<1>8. amount # Null
  BY <1>3, <1>7, AmountsAssumption, Zenon
<1>9. RequestedAmountsMatch(request, amount)
  BY <1>3, <1>7, AmountsRead DEF RequestedAmountsMatch
<1>10. LnurlMatches(request, ProviderLnurl)
  BY <1>3, ProviderAssumption DEF LnurlMatches
<1>11. SoleTagValue(event.tags, "description") = request
  OBVIOUS
<1>12. ParseZapReceipt(event) = receipt
  <2>. HIDE DEF event, request, invoice
  <2>. QED BY <1>1, <1>2, <1>4, <1>5, <1>8, <1>9, <1>11, ReceiptParsed
<1>13. receipt.receipt = event /\ receipt.zapRequest = request /\ receipt.amountSats = amount \div MSATS_PER_SAT
  OBVIOUS
<1>. HIDE DEF receipt, amount, event, request, asked
<1>14. VerifyZapReceipt(receipt, Provider, ProviderLnurl) = "ok"
  BY <1>2, <1>4, <1>10, <1>13 DEF VerifyZapReceipt
<1>15. Verdict(event) = "ok"
  BY <1>6, <1>12, <1>14 DEF Verdict
<1>. QED BY <1>7, <1>12, <1>13, <1>15 DEF event, asked

LEMMA ReceiptEarned ==
  ASSUME NoRecordIsNothing, NEW entry, NEW before, IsRequest(before), IsReceipt(entry, before.event)
  PROVE  IsEarned(entry, before)
<1>1. Verdict(entry.event) = "ok" =>
        LET asked   == before.given
            receipt == ParseZapReceipt(entry.event)
        IN  /\ entry.given.by = Provider /\ IsPaid(entry.given.invoice, asked.amount)
            /\ receipt.amountMillisats = asked.amount /\ receipt.pubkey = before.event.pubkey
            /\ asked.lnurl \in {Null} \cup {lnurl \in Lnurls : ToLowerCase(lnurl) = ProviderLnurl}
  BY HonestReceipt
<1>2. /\ entry.given.by = Provider /\ IsPaid(entry.given.invoice, before.given.amount)
      /\ before.given.amount <= MAX_ZAP_MSATS
      /\ entry.given.invoice.network \in BITCOIN_NETWORKS /\ ~entry.given.invoice.mixedCase
      /\ before.given.lnurl \in {Null, ProviderLnurl}
      /\ SoleTagValue(entry.event.tags, "description") = before.event
      => /\ Verdict(entry.event) = "ok"
         /\ ParseZapReceipt(entry.event).amountSats = before.given.amount \div MSATS_PER_SAT
  BY PaidReceipt
<1>3. Verdict(entry.event) = IF ParseZapReceipt(entry.event) = Null THEN "unread"
                             ELSE VerifyZapReceipt(ParseZapReceipt(entry.event), Provider, ProviderLnurl)
  BY DEF Verdict
<1>. QED BY <1>1, <1>2, <1>3, Zenon DEF IsEarned, IsPaid

-----------------------------------------------------------------------------
(* What a reader finds in the tags of a zap request, and of a receipt.     *)
LEMMA RequestAsks ==
  ASSUME NEW input, IsSequence(input.relayUrls), BuildZapRequest(input) # Null,
         DecimalText[input.amountMillisats] # Null
  PROVE  LET request == BuildZapRequest(input)
         IN  /\ input.amountMillisats \in Nat \ {0} /\ request.kind = KIND_ZAP_REQUEST
             /\ ExtractTagValues(request.tags, "amount") = {DecimalText[input.amountMillisats]}
             /\ ExtractTagValues(request.tags, "lnurl") = {input.lnurl} \ {Null}
<1>. DEFINE target == input.target
            text   == DecimalText[input.amountMillisats]
            relays == <<"relays">> \o input.relayUrls
            amount == <<"amount", text>>
            lnurl  == <<"lnurl", input.lnurl>>
            ra     == << relays, amount >>
            ls     == TagOf("lnurl", input.lnurl)
            p      == <<"p", input.recipientPubkey>>
            ps     == << p >>
            e      == <<"e", target.id>>
            k      == <<"k", DecimalText[target.kind]>>
            a      == <<"a", AddressableCoordinateOf(target)>>
            ek     == << e, k >>
            as     == TagOf("a", AddressableCoordinateOf(target))
            about  == IF target = Null THEN <<>> ELSE ek \o as
            tags   == ((ra \o ls) \o ps) \o about
<1>1. /\ input.amountMillisats \in Nat \ {0}
      /\ BuildZapRequest(input).kind = KIND_ZAP_REQUEST /\ BuildZapRequest(input).tags = tags
  BY DEF BuildZapRequest, Template
<1>2. IsSequence(relays) /\ At(relays, 1) = "relays"
  BY NamedList
<1>3. /\ IsSequence(amount) /\ At(amount, 1) = "amount" /\ At(amount, 2) = text
      /\ IsSequence(lnurl) /\ At(lnurl, 1) = "lnurl" /\ At(lnurl, 2) = input.lnurl
      /\ IsSequence(p) /\ At(p, 1) = "p" /\ IsSequence(e) /\ At(e, 1) = "e"
      /\ IsSequence(k) /\ At(k, 1) = "k" /\ IsSequence(a) /\ At(a, 1) = "a"
  BY Written
<1>. HIDE DEF relays, amount, lnurl, p, e, k, a, text
<1>4. IsTags(ra) /\ ToSet(ra) = {relays, amount} /\ IsTags(ps) /\ ToSet(ps) = {p}
      /\ IsTags(ek) /\ ToSet(ek) = {e, k}
  BY <1>2, <1>3, OneTag, TwoTags
<1>5. IsTags(ls) /\ ToSet(ls) = IF input.lnurl = Null THEN {} ELSE {lnurl}
  BY <1>3, NoTags, OneTag DEF TagOf, lnurl
<1>6. IsTags(as) /\ ToSet(as) \subseteq {a}
  BY <1>3, NoTags, OneTag DEF TagOf, a
<1>. HIDE DEF ra, ls, ps, ek, as
<1>7. IsTags(about) /\ ToSet(about) \subseteq {e, k, a}
  <2>1. IsTags(ek \o as) /\ ToSet(ek \o as) = ToSet(ek) \cup ToSet(as)
    BY <1>4, <1>6, ConcatTags
  <2>2. CASE target = Null
    BY <2>2, NoTags
  <2>3. CASE target # Null
    BY <1>4, <1>6, <2>1, <2>3
  <2>. QED BY <2>2, <2>3
<1>. HIDE DEF about
<1>8. IsTags(ra \o ls) /\ ToSet(ra \o ls) = ToSet(ra) \cup ToSet(ls)
  BY <1>4, <1>5, ConcatTags
<1>9. IsTags((ra \o ls) \o ps) /\ ToSet((ra \o ls) \o ps) = ToSet(ra \o ls) \cup {p}
  BY <1>4, <1>8, ConcatTags
<1>10. IsTags(tags) /\ ToSet(tags) = ToSet((ra \o ls) \o ps) \cup ToSet(about)
  BY <1>7, <1>9, ConcatTags
<1>11. /\ {relays, amount} \subseteq ToSet(tags) /\ ToSet(ls) \subseteq ToSet(tags)
       /\ ToSet(tags) \subseteq {relays, amount, p, e, k, a} \cup ToSet(ls)
  BY <1>4, <1>7, <1>8, <1>9, <1>10
<1>. HIDE DEF tags
<1>12. {t \in ToSet(tags) : At(t, 1) = "amount"} = {amount}
  BY <1>2, <1>3, <1>5, <1>11
<1>13. {t \in ToSet(tags) : At(t, 1) = "lnurl"} = ToSet(ls)
  BY <1>2, <1>3, <1>5, <1>11
<1>14. text # Null
  BY DEF text
<1>15. ExtractTagValues(tags, "amount") = {text}
  BY <1>3, <1>10, <1>12, <1>14, ValuesNamed
<1>16. ExtractTagValues(tags, "lnurl") = {input.lnurl} \ {Null}
  BY <1>3, <1>5, <1>10, <1>13, ValuesNamed
<1>. QED BY <1>1, <1>15, <1>16 DEF text

LEMMA ReceiptSays ==
  ASSUME NEW invoice, NEW description
  PROVE  LET tags == Receipt(<< invoice >>, description).tags
         IN  SoleTagValue(tags, "bolt11") = invoice /\ SoleTagValue(tags, "description") = description
<1>. DEFINE b     == <<"bolt11", invoice>>
            d     == <<"description", description>>
            bolts == [i \in DOMAIN << invoice >> |-> <<"bolt11", << invoice >>[i]>>]
            tags  == bolts \o << d >>
<1>1. /\ IsSequence(b) /\ At(b, 1) = "bolt11" /\ At(b, 2) = invoice
      /\ IsSequence(d) /\ At(d, 1) = "description" /\ At(d, 2) = description
  BY Written
<1>2. Receipt(<< invoice >>, description).tags = tags
  BY DEF Receipt, Template
<1>3. IsTags(bolts) /\ ToSet(bolts) = {b}
  <2>1. IsPlain(bolts) /\ ToSet(bolts) = {<<"bolt11", x>> : x \in ToSet(<< invoice >>)}
    BY Tuples, PlainEach
  <2>2. ToSet(<< invoice >>) = {invoice}
    BY DEF ToSet
  <2>. HIDE DEF bolts
  <2>. QED BY <2>1, <2>2 DEF IsPlain
<1>. HIDE DEF b, d, bolts
<1>4. IsTags(<< d >>) /\ ToSet(<< d >>) = {d}
  BY <1>1, OneTag
<1>5. IsTags(tags) /\ ToSet(tags) = {b, d}
  BY <1>3, <1>4, ConcatTags
<1>. HIDE DEF tags
<1>6. {t \in ToSet(tags) : At(t, 1) = "bolt11"} = {b} /\ {t \in ToSet(tags) : At(t, 1) = "description"} = {d}
  BY <1>1, <1>5
<1>7. ExtractTagValues(tags, "bolt11") = {invoice} \ {Null} /\ ExtractTagValues(tags, "description") = {description} \ {Null}
  BY <1>1, <1>5, <1>6, ValuesNamed
<1>8. \A x : SoleValue({x} \ {Null}) = x
  <2>. SUFFICES ASSUME NEW x PROVE SoleValue({x} \ {Null}) = x
    OBVIOUS
  <2>1. CASE x = Null
    <3>1. {x} \ {Null} = {}
      BY <2>1
    <3>. QED BY <2>1, <3>1, NothingIsSole
  <2>2. CASE x # Null
    <3>1. {x} \ {Null} = {x}
      BY <2>2
    <3>. QED BY <3>1, OneIsSole
  <2>. QED BY <2>1, <2>2
<1>. QED BY <1>2, <1>7, <1>8 DEF SoleTagValue

-----------------------------------------------------------------------------
(* The event of a nutzap holds its proofs, and is for one recipient at one *)
(* mint.                                                                   *)
IsNutzap(entry, unit, recipient, mint) ==
  /\ entry.given \in Proofs /\ entry.event.kind = KIND_NUTZAP
  /\ entry.event.tags = [i \in DOMAIN entry.given |-> <<"proof", entry.given[i]>>]
                          \o TagOf("unit", unit) \o << <<"p", recipient>>, <<"u", mint>> >>

Pays(entry) == \E unit \in Units, recipient \in Authors, mint \in WebUrls : IsNutzap(entry, unit, recipient, mint)

(* Each action adds a request that asks for what it was given, a receipt   *)
(* of the request before it, a nutzap of its proofs, or none of them.      *)
Earns ==
  \E entry :
    /\ path' = Append(path, entry)
    /\ entry.by = "zapRequest" => IsRequest(entry)
    /\ entry.by = "receipt" => path # <<>> /\ Last(path).by = "zapRequest" /\ IsReceipt(entry, Target)
    /\ entry.by = "nutzap" => Pays(entry)

LEMMA Added ==
  ASSUME NEW by, NEW given, NEW author, NEW genuine, NEW template, Add(by, given, author, genuine, template)
  PROVE  LET entry == [by |-> by, given |-> given, event |-> Event(author, genuine, template)]
         IN  path' = Append(path, entry) /\ template # Null
BY DEF Add

LEMMA AddsNeither ==
  ASSUME NEW by, by # "zapRequest", by # "receipt", by # "nutzap",
         NEW given, NEW author, NEW genuine, NEW template, Add(by, given, author, genuine, template)
  PROVE  Earns
<1>. DEFINE entry == [by |-> by, given |-> given, event |-> Event(author, genuine, template)]
<1>1. path' = Append(path, entry) /\ entry.by = by
  BY Added
<1>. HIDE DEF entry
<1>. QED BY <1>1 DEF Earns

LEMMA RequestEarns == ASSUME NEW author \in Pubkeys, RequestZap(author) PROVE Earns
<1>1. PICK amount \in Amounts, lnurl \in Lnurls \cup {Null} :
        Add("zapRequest", [amount |-> amount, lnurl |-> lnurl], author, TRUE, BuildZapRequest(ZapInput(amount, lnurl)))
  BY DEF RequestZap
<1>. DEFINE input   == ZapInput(amount, lnurl)
            request == BuildZapRequest(input)
            given   == [amount |-> amount, lnurl |-> lnurl]
            event   == Event(author, TRUE, request)
            entry   == [by |-> "zapRequest", given |-> given, event |-> event]
<1>2. path' = Append(path, entry) /\ request # Null
  BY <1>1, Added
<1>3. input.amountMillisats = amount /\ input.lnurl = lnurl /\ input.relayUrls = SetToSeq(Hints \ {Null})
  BY DEF ZapInput
<1>4. IsSequence(input.relayUrls)
  <2>1. IsFiniteSet(Hints \ {Null})
    BY HintsAssumption, FS_Difference
  <2>. QED BY <1>3, <2>1, EachListed
<1>. HIDE DEF input
<1>5. amount \in Nat \ {0}
  BY <1>2, <1>3 DEF BuildZapRequest
<1>6. DecimalText[input.amountMillisats] # Null
  BY <1>3, <1>5, AmountsRead
<1>7. /\ request.kind = KIND_ZAP_REQUEST
      /\ ExtractTagValues(request.tags, "amount") = {DecimalText[amount]}
      /\ ExtractTagValues(request.tags, "lnurl") = {lnurl} \ {Null}
  BY <1>2, <1>3, <1>4, <1>6, RequestAsks
<1>8. /\ event = [id |-> event.id, pubkey |-> event.pubkey, genuine |-> TRUE,
                  kind |-> KIND_ZAP_REQUEST, tags |-> event.tags, content |-> event.content]
      /\ event.tags = request.tags
  BY <1>7 DEF Event
<1>9. entry.by = "zapRequest" /\ entry.given.amount = amount /\ entry.given.lnurl = lnurl /\ entry.event = event
  OBVIOUS
<1>. HIDE DEF entry, event, request
<1>10. IsRequest(entry)
  BY <1>5, <1>7, <1>8, <1>9 DEF IsRequest
<1>. QED BY <1>2, <1>9, <1>10 DEF Earns

LEMMA ReceiptEarns ==
  ASSUME path # <<>>, Last(path).by = "zapRequest", IssueReceipt PROVE Earns
<1>1. PICK invoice \in Invoices, author \in Authors :
        LET description == Impersonated(Target, author) IN
        \/ Add("receipt", [by |-> Provider, invoice |-> invoice], Provider, TRUE, Receipt(<< invoice >>, description))
        \/ \E name \in {Provider, author}, other \in {invoice, SomeInvoice} :
             Add("receipt", [by |-> author, invoice |-> invoice], name, name = author,
                 Receipt(<< invoice, other >>, description))
        \/ Add("receipt", [by |-> Provider, invoice |-> invoice], Provider, TRUE, Receipt(<< invoice >>, NotJson))
  BY DEF IssueReceipt
<1>2. ASSUME NEW description \in {Impersonated(Target, author), NotJson},
             Add("receipt", [by |-> Provider, invoice |-> invoice], Provider, TRUE, Receipt(<< invoice >>, description))
      PROVE  Earns
  <2>. DEFINE given == [by |-> Provider, invoice |-> invoice]
              receipt == Receipt(<< invoice >>, description)
              entry == [by |-> "receipt", given |-> given, event |-> Event(Provider, TRUE, receipt)]
              event == entry.event
  <2>1. path' = Append(path, entry)
    BY <1>2, Added
  <2>2. receipt.kind = KIND_ZAP_RECEIPT
    BY DEF Receipt, Template
  <2>3. SoleTagValue(receipt.tags, "bolt11") = invoice /\ SoleTagValue(receipt.tags, "description") = description
    BY ReceiptSays
  <2>. HIDE DEF receipt
  <2>4. /\ event.kind = KIND_ZAP_RECEIPT /\ event.pubkey = Provider /\ event.genuine /\ event.tags = receipt.tags
        /\ entry.given.invoice = invoice /\ entry.given.by = Provider /\ entry.by = "receipt" /\ entry.event = event
    BY <2>2 DEF Event
  <2>. HIDE DEF entry, event
  <2>5. IsReceipt(entry, Target)
    BY <1>2, <2>3, <2>4 DEF IsReceipt
  <2>. QED BY <2>1, <2>4, <2>5 DEF Earns
<1>3. ASSUME NEW name \in {Provider, author}, NEW other,
             Add("receipt", [by |-> author, invoice |-> invoice], name, name = author,
                 Receipt(<< invoice, other >>, Impersonated(Target, author)))
      PROVE  Earns
  <2>. DEFINE given == [by |-> author, invoice |-> invoice]
              receipt == Receipt(<< invoice, other >>, Impersonated(Target, author))
              entry == [by |-> "receipt", given |-> given, event |-> Event(name, name = author, receipt)]
              event == entry.event
  <2>1. path' = Append(path, entry)
    BY <1>3, Added
  <2>2. receipt.kind = KIND_ZAP_RECEIPT
    BY DEF Receipt, Template
  <2>. HIDE DEF receipt
  <2>3. /\ event.kind = KIND_ZAP_RECEIPT /\ event.pubkey = name /\ event.genuine = (name = author)
        /\ entry.given.invoice = invoice /\ entry.given.by = author /\ entry.by = "receipt" /\ entry.event = event
    BY <2>2 DEF Event
  <2>. HIDE DEF entry, event
  <2>4. IsReceipt(entry, Target)
    BY <2>3 DEF IsReceipt
  <2>. QED BY <2>1, <2>3, <2>4 DEF Earns
<1>. QED BY <1>1, <1>2, <1>3, Zenon

Adds(by) == \E given, author, genuine, template : Add(by, given, author, genuine, template)

LEMMA AddsOther == ASSUME NEW by, Adds(by), by # "zapRequest", by # "receipt", by # "nutzap" PROVE Earns
BY AddsNeither DEF Adds

LEMMA PublishedByOthers ==
  ASSUME NEW publication \in Publications
  PROVE  publication.by # "zapRequest" /\ publication.by # "receipt" /\ publication.by # "nutzap"
<1>1. publication.by \in {"note", "longform", "draftWrap", "appSettings", "metadata", "relayList", "clientAuth",
                          "file", "imeta", "groupChat"}
  BY PublicationsAssumption
<1>. QED BY <1>1

LEMMA NutzapEarns == ASSUME NEW author, SendNutzap(author) PROVE Earns
<1>1. PICK proofs \in Proofs, unit \in Units, recipient \in Authors, mint \in WebUrls :
        Add("nutzap", proofs, author, TRUE,
            Template(KIND_NUTZAP,
                     [i \in DOMAIN proofs |-> <<"proof", proofs[i]>>] \o TagOf("unit", unit)
                       \o << <<"p", recipient>>, <<"u", mint>> >>, ""))
  BY DEF SendNutzap
<1>. DEFINE tags     == [i \in DOMAIN proofs |-> <<"proof", proofs[i]>>] \o TagOf("unit", unit)
                          \o << <<"p", recipient>>, <<"u", mint>> >>
            template == Template(KIND_NUTZAP, tags, "")
            event    == Event(author, TRUE, template)
            entry    == [by |-> "nutzap", given |-> proofs, event |-> event]
<1>2. path' = Append(path, entry)
  BY <1>1, Added
<1>3. template.kind = KIND_NUTZAP /\ template.tags = tags
  <2>. HIDE DEF tags
  <2>. QED BY DEF Template
<1>. HIDE DEF template
<1>4. event.kind = KIND_NUTZAP /\ event.tags = tags
  BY <1>3 DEF Event
<1>. HIDE DEF event
<1>5. entry.by = "nutzap" /\ entry.given = proofs /\ entry.event = event
  OBVIOUS
<1>. HIDE DEF entry
<1>6. IsNutzap(entry, unit, recipient, mint)
  BY <1>4, <1>5 DEF IsNutzap
<1>7. Pays(entry)
  BY <1>6 DEF Pays
<1>. QED BY <1>2, <1>5, <1>7 DEF Earns

LEMMA EveryStepEarns == ASSUME Next PROVE Earns
<1>1. CASE Open
  <2>1. Adds("opening")
    BY <1>1, Zenon DEF Open, Adds
  <2>. QED BY <2>1, AddsOther
<1>2. CASE Publish
  <2>1. PICK publication \in Publications : Adds(publication.by)
    BY <1>2, Zenon DEF Publish, Adds
  <2>. QED BY <2>1, AddsOther, PublishedByOthers
<1>3. ASSUME NEW room \in Rooms, SendPrivately(room) PROVE Earns
  <2>1. Adds("message") \/ Adds("privateReaction")
    BY <1>3, Zenon DEF SendPrivately, Adds
  <2>. QED BY <2>1, AddsOther
<1>4. ASSUME NEW author \in Authors,
             Repost(author) \/ React(author) \/ Delete(author) \/ Highlight(author) \/ AnnotateElsewhere(author)
      PROVE  Earns
  <2>1. CASE Repost(author) \/ React(author)
    <3>1. Adds("repost") \/ Adds("reaction")
      BY <2>1, Zenon DEF Repost, React, AddGrouped, Adds
    <3>. QED BY <3>1, AddsOther
  <2>2. CASE Delete(author) \/ Highlight(author)
    <3>1. Adds("deletion") \/ Adds("highlight") \/ Adds("pageHighlight")
      BY <2>2, Zenon DEF Delete, Highlight, Adds
    <3>. QED BY <3>1, AddsOther
  <2>3. CASE AnnotateElsewhere(author)
    <3>1. Adds("otherReaction") \/ Adds("otherHighlight")
      BY <2>3, Zenon DEF AnnotateElsewhere, Adds
    <3>. QED BY <3>1, AddsOther
  <2>. QED BY <1>4, <2>1, <2>2, <2>3
<1>5. ASSUME NEW author \in Authors, RequestZap(author) PROVE Earns
  BY <1>5, AuthorsAssumption, RequestEarns
<1>6. CASE OnPublicEvent /\ Last(path).by = "zapRequest" /\ IssueReceipt
  BY <1>6, ReceiptEarns DEF OnPublicEvent, Annotates
<1>7. ASSUME NEW author \in Authors, SendNutzap(author) PROVE Earns
  BY <1>7, NutzapEarns
<1>. QED BY <1>1, <1>2, <1>3, <1>4, <1>5, <1>6, <1>7 DEF Next

(* Requests ask for what they were given, and a receipt follows a request. *)
RequestsAsk == \A i \in DOMAIN path : path[i].by = "zapRequest" => IsRequest(path[i])
ReceiptsFollow ==
  \A i \in DOMAIN path : path[i].by = "receipt" =>
    i # 1 /\ path[i - 1].by = "zapRequest" /\ IsReceipt(path[i], path[i - 1].event)

LEMMA EarningGrows == ASSUME IInv, RequestsAsk, ReceiptsFollow, Earns PROVE RequestsAsk' /\ ReceiptsFollow'
<1>1. PICK entry :
        /\ path' = Append(path, entry)
        /\ entry.by = "zapRequest" => IsRequest(entry)
        /\ entry.by = "receipt" => path # <<>> /\ Last(path).by = "zapRequest" /\ IsReceipt(entry, Target)
  BY DEF Earns
<1>. DEFINE n == Len(path)
            T == ToSet(path) \cup {entry}
<1>2. /\ n \in Nat /\ DOMAIN path = 1..n
      /\ path # <<>> => n \in DOMAIN path /\ Target = path[n].event
  BY Lengths DEF IInv
<1>3. path \in Seq(T) /\ entry \in T /\ Last(path) = path[n]
  <2>1. path \in Seq(ToSet(path))
    BY DEF IInv, IsSequence
  <2>. QED BY <2>1 DEF Last
<1>4. /\ DOMAIN path' = 1..(n + 1)
      /\ \A i \in 1..n : path'[i] = path[i]
      /\ path'[n + 1] = entry
  <2>. HIDE DEF T
  <2>. QED BY <1>1, <1>3
<1>. HIDE DEF n, T
<1>5. ASSUME NEW i \in DOMAIN path', path'[i].by = "zapRequest" PROVE IsRequest(path'[i])
  <2>1. CASE i = n + 1
    BY <1>1, <1>4, <1>5, <2>1
  <2>2. CASE i # n + 1
    <3>1. i \in DOMAIN path /\ path'[i] = path[i]
      BY <1>2, <1>4, <2>2
    <3>. QED BY <1>5, <3>1 DEF RequestsAsk
  <2>. QED BY <2>1, <2>2
<1>6. ASSUME NEW i \in DOMAIN path', path'[i].by = "receipt"
      PROVE  i # 1 /\ path'[i - 1].by = "zapRequest" /\ IsReceipt(path'[i], path'[i - 1].event)
  <2>1. CASE i = n + 1
    <3>1. path # <<>> /\ Last(path).by = "zapRequest" /\ IsReceipt(entry, Target) /\ path'[i] = entry
      BY <1>1, <1>4, <1>6, <2>1
    <3>2. n \in 1..n /\ Last(path) = path[n] /\ Target = path[n].event
      BY <1>2, <1>3, <3>1
    <3>3. i - 1 = n /\ i # 1
      BY <1>2, <2>1, <3>2
    <3>4. path'[i - 1] = path[n]
      BY <1>4, <3>2, <3>3
    <3>. QED BY <3>1, <3>2, <3>3, <3>4
  <2>2. CASE i # n + 1
    <3>1. i \in DOMAIN path /\ path'[i] = path[i]
      BY <1>2, <1>4, <2>2
    <3>2. i # 1 /\ path[i - 1].by = "zapRequest" /\ IsReceipt(path[i], path[i - 1].event)
      BY <1>6, <3>1 DEF ReceiptsFollow
    <3>3. i - 1 \in 1..n
      BY <1>2, <3>1, <3>2
    <3>4. path'[i - 1] = path[i - 1]
      BY <1>4, <3>3
    <3>. QED BY <3>1, <3>2, <3>4
  <2>. QED BY <2>1, <2>2
<1>. QED BY <1>5, <1>6 DEF RequestsAsk, ReceiptsFollow

(* A receipt that verifies was written by the provider for a payment of    *)
(* the amount its request asks for, and is read as its author's; and every *)
(* payment of a request that buildZapRequest wrote, up to 1 BTC, has such  *)
(* a receipt, for any invoices, providers and amounts (zap-parser.ts).     *)
THEOREM ReceiptsAreHonest == ASSUME NoRecordIsNothing PROVE Spec => []ReceiptsAreEarned
<1>1. Init => RequestsAsk /\ ReceiptsFollow
  <2>1. Init => DOMAIN path = {}
    BY DEF Init
  <2>. QED BY <2>1 DEF RequestsAsk, ReceiptsFollow
<1>2. IInv /\ RequestsAsk /\ ReceiptsFollow /\ [Next]_vars => RequestsAsk' /\ ReceiptsFollow'
  <2>1. IInv /\ RequestsAsk /\ ReceiptsFollow /\ Next => RequestsAsk' /\ ReceiptsFollow'
    BY EveryStepEarns, EarningGrows
  <2>2. RequestsAsk /\ ReceiptsFollow /\ UNCHANGED vars => RequestsAsk' /\ ReceiptsFollow'
    BY DEF vars, RequestsAsk, ReceiptsFollow
  <2>. QED BY <2>1, <2>2
<1>3. IInv /\ RequestsAsk /\ ReceiptsFollow => ReceiptsAreEarned
  <2>. SUFFICES ASSUME IInv, RequestsAsk, ReceiptsFollow, NEW i \in DOMAIN path, path[i].by = "receipt"
                PROVE  IsEarned(path[i], path[i - 1])
    BY DEF ReceiptsAreEarned
  <2>1. i # 1 /\ path[i - 1].by = "zapRequest" /\ IsReceipt(path[i], path[i - 1].event)
    BY DEF ReceiptsFollow
  <2>2. i - 1 \in DOMAIN path
    BY <2>1, Lengths DEF IInv
  <2>3. IsRequest(path[i - 1])
    BY <2>1, <2>2 DEF RequestsAsk
  <2>. QED BY <2>1, <2>3, ReceiptEarned
<1>. QED BY <1>1, <1>2, <1>3, AnnotationsInductive, PTL DEF Spec

-----------------------------------------------------------------------------
(* A name whose tags all have one value.                                   *)
Writes(tags, name, value) ==
  /\ \A tag \in tags : At(tag, 1) = name => At(tag, 2) = value
  /\ value # Null => \E tag \in tags : At(tag, 1) = name

LEMMA ValueWritten ==
  ASSUME NEW tags, IsTags(tags), NEW name, NEW value, Writes(ToSet(tags), name, value)
  PROVE  ExtractTagValues(tags, name) = {value} \ {Null} /\ SoleTagValue(tags, name) = value
<1>1. ExtractTagValues(tags, name) = {At(tag, 2) : tag \in {t \in ToSet(tags) : At(t, 1) = name}} \ {Null}
  BY ValuesNamed
<1>2. ExtractTagValues(tags, name) = {value} \ {Null}
  BY <1>1 DEF Writes
<1>3. CASE value = Null
  <2>1. ExtractTagValues(tags, name) = {}
    BY <1>2, <1>3
  <2>. QED BY <1>2, <1>3, <2>1, NothingIsSole DEF SoleTagValue
<1>4. CASE value # Null
  <2>1. ExtractTagValues(tags, name) = {value}
    BY <1>2, <1>4
  <2>. QED BY <1>2, <2>1, OneIsSole DEF SoleTagValue
<1>. QED BY <1>3, <1>4

(* A note that names no event in an e tag answers nothing.                 *)
LEMMA NoteAnswersNothing ==
  ASSUME NEW event, event.kind = KIND_TEXT_NOTE, IsTags(event.tags),
         \A tag \in ToSet(event.tags) : At(tag, 1) # "e"
  PROVE  ~Refs(event).isReply
<1>. DEFINE S == {tag \in ToSet(event.tags) : At(tag, 1) = "e" /\ RefFromTag(tag) # Null}
<1>1. EventTagsOf(event.tags) = <<>>
  <2>1. event.tags \in Seq(ToSet(event.tags)) /\ \A tag \in ToSet(event.tags) : tag \notin S
    BY DEF IsTags, IsSequence
  <2>2. EventTagsOf(event.tags) = Among(event.tags, S)
    BY DEF EventTagsOf
  <2>. HIDE DEF S
  <2>. QED BY <2>1, <2>2, AmongNone
<1>2. ToSet(<<>>) = {} /\ Len(<<>>) = 0
  BY NoTags
<1>3. ShortNoteThreadTags(event.tags) = [root |-> Null, parent |-> Null]
  BY <1>1, <1>2 DEF ShortNoteThreadTags
<1>4. PointersOf([root |-> Null, parent |-> Null]) = [root |-> Null, replyTo |-> Null]
  BY DEF PointersOf
<1>5. Pointers(event) = [root |-> Null, replyTo |-> Null]
  BY <1>3, <1>4 DEF Pointers, KIND_TEXT_NOTE, KIND_CHAT_MESSAGE, KIND_CHANNEL_MESSAGE, KIND_LIVE_CHAT_MESSAGE,
     ThreadsAsComment, COMMENT_KINDS, KIND_COMMENT, KIND_VOICE_MESSAGE_COMMENT
<1>. QED BY <1>5 DEF Refs

(* An addressable event is answered by its coordinate.                     *)
LEMMA AnsweredByCoordinate ==
  ASSUME NEW event, KindCategory(event.kind) = "addressable",
         NEW dTag, ExtractTagValues(event.tags, "d") = {dTag}, dTag # Null
  PROVE  ReplyTargetRef(event) = AddressRef([kind |-> event.kind, pubkey |-> event.pubkey, dTag |-> dTag])
<1>1. GetDTag([d |-> {dTag}]) = dTag
  BY DEF GetDTag, SoleTagState
<1>2. CoordinateIdentifier(event) = dTag
  BY <1>1 DEF CoordinateIdentifier
<1>. QED BY <1>2 DEF ReplyTargetRef

(* The topics an article states are those it is given, normalised.         *)
LEMMA TopicsWritten ==
  ASSUME NEW topics, IsSequence(topics)
  PROVE  ToSet(TopicTags(topics)) = {<<"t", x>> : x \in {NormaliseHashtag(topic) : topic \in ToSet(topics)} \ {Null}}
<1>. DEFINE normalised == [i \in DOMAIN topics |-> NormaliseHashtag(topics[i])]
            first      == {i \in DOMAIN topics : \A j \in 1..(i - 1) : normalised[j] # normalised[i]}
            indices    == [i \in DOMAIN topics |-> i]
            chosen     == {i \in first : normalised[i] # Null}
            named      == Among(indices, chosen)
            written    == [i \in DOMAIN named |-> <<"t", normalised[named[i]]>>]
<1>1. TopicTags(topics) = written
  BY DEF TopicTags
<1>2. Len(topics) \in Nat /\ DOMAIN topics = 1..Len(topics) /\ ToSet(topics) = {topics[i] : i \in 1..Len(topics)}
  BY TypedSequence DEF IsSequence
<1>3. indices \in Seq(Nat) /\ ToSet(indices) = 1..Len(topics)
  <2>1. indices \in [1..Len(topics) -> Nat] /\ DOMAIN indices = 1..Len(topics)
    BY <1>2
  <2>2. ToSet(indices) = 1..Len(topics)
    BY <1>2 DEF ToSet
  <2>. HIDE DEF indices
  <2>. QED BY <1>2, <2>1, <2>2, SeqDef
<1>4. DOMAIN normalised = 1..Len(topics) /\ \A i \in 1..Len(topics) : normalised[i] = NormaliseHashtag(topics[i])
  BY <1>2
<1>5. chosen \subseteq 1..Len(topics)
  BY <1>2
<1>6. \A i \in 1..Len(topics) : \E j \in 1..Len(topics) : j \in first /\ normalised[j] = normalised[i]
  <2>. DEFINE Done == {i \in 0..Len(topics) : i # 0 => \E j \in 1..Len(topics) : j \in first /\ normalised[j] = normalised[i]}
              Below(i) == \A k \in 0..i : k \in Done
              All  == {i \in 0..Len(topics) : Below(i)}
  <2>1. 0 \in All
    BY <1>2
  <2>2. ASSUME NEW i \in 1..Len(topics), i - 1 \in All PROVE i \in All
    <3>1. \A k \in 0..(i - 1) : k \in Done
      BY <2>2
    <3>2. i \in Done
      <4>1. CASE i \in first
        <5>. HIDE DEF first, normalised
        <5>. QED BY <1>2, <4>1
      <4>2. CASE i \notin first
        <5>1. PICK j \in 1..(i - 1) : normalised[j] = normalised[i]
          BY <1>2, <4>2
        <5>2. j \in Done /\ j # 0
          BY <3>1, <5>1
        <5>. HIDE DEF first, normalised
        <5>. QED BY <5>1, <5>2
      <4>. QED BY <4>1, <4>2
    <3>. HIDE DEF Done
    <3>3. \A k \in 0..i : k \in Done
      BY <3>1, <3>2, <1>2
    <3>. QED BY <3>3, <1>2
  <2>3. 0..Len(topics) \subseteq All
    <3>. HIDE DEF All
    <3>. QED BY <1>2, <2>1, <2>2, AllIndices
  <2>4. \A i \in 1..Len(topics) : i \in Done
    <3>. HIDE DEF Done
    <3>. QED BY <1>2, <2>3
  <2>. HIDE DEF first, normalised
  <2>. QED BY <1>2, <2>4
<1>. HIDE DEF indices, first
<1>7. named \in Seq(Nat) /\ ToSet(named) = {i \in 1..Len(topics) : i \in chosen}
  <2>. HIDE DEF chosen
  <2>. QED BY <1>3, AmongSelects
<1>8. ToSet(named) = chosen
  BY <1>5, <1>7
<1>9. DOMAIN written = DOMAIN named /\ ToSet(written) = {<<"t", normalised[i]>> : i \in ToSet(named)}
  <2>. HIDE DEF named, normalised
  <2>. QED BY DEF ToSet
<1>10. {normalised[i] : i \in chosen} = {NormaliseHashtag(topic) : topic \in ToSet(topics)} \ {Null}
  <2>. DEFINE all == {NormaliseHashtag(topic) : topic \in ToSet(topics)}
  <2>1. all = {normalised[i] : i \in 1..Len(topics)}
    BY <1>2, <1>4
  <2>. HIDE DEF all, normalised
  <2>2. \A x \in all \ {Null} : \E i \in chosen : normalised[i] = x
    BY <1>6, <2>1
  <2>3. \A i \in chosen : normalised[i] \in all \ {Null}
    BY <1>5, <2>1
  <2>. QED BY <2>2, <2>3 DEF all
<1>. HIDE DEF written, named, chosen, normalised
<1>. QED BY <1>1, <1>8, <1>9, <1>10

-----------------------------------------------------------------------------
(* The number a text writes.                                               *)
LEMMA NumbersRead ==
  ASSUME NEW n \in DOMAIN DecimalText, n \in Nat
  PROVE  ParseDecimalInteger(DecimalText[n]) = n /\ DecimalText[n] # Null
<1>1. DecimalText[n] \in Range(DecimalText)
  BY DEF Range
<1>2. DecimalText[n] # Null
  BY <1>1, AmountsAssumption
<1>3. \A m \in DOMAIN DecimalText : DecimalText[m] = DecimalText[n] => m = n
  BY AmountsAssumption
<1>4. n >= 0
  OBVIOUS
<1>. QED BY <1>2, <1>3, <1>4 DEF ParseDecimalInteger

(* The tags of an article.                                                 *)
Stated(name, value) == IF value = Null THEN {} ELSE {<<name, value>>}

LEMMA LongformTags ==
  ASSUME NEW input, IsSequence(input.topics), BuildLongform(input) # Null,
         input.publishedAt # Null => input.publishedAt \in DOMAIN DecimalText
  PROVE  LET tags      == BuildLongform(input).tags
             published == IF input.publishedAt = Null THEN Null ELSE DecimalText[input.publishedAt]
             topics    == {NormaliseHashtag(topic) : topic \in ToSet(input.topics)} \ {Null}
         IN  /\ IsTags(tags)
             /\ ToSet(tags) = {<<"d", input.dTag>>} \cup Stated("title", input.title)
                                \cup Stated("summary", input.summary) \cup Stated("image", input.image)
                                \cup Stated("published_at", published) \cup {<<"t", x>> : x \in topics}
             /\ input.publishedAt # Null => input.publishedAt \in Nat
<1>. DEFINE published == IF input.publishedAt = Null THEN Null ELSE DecimalText[input.publishedAt]
            topics == {NormaliseHashtag(topic) : topic \in ToSet(input.topics)} \ {Null}
            d == << <<"d", input.dTag>> >>
            t == TagOf("title", input.title)
            s == TagOf("summary", input.summary)
            i == TagOf("image", input.image)
            p == IF input.publishedAt = Null THEN <<>> ELSE << <<"published_at", DecimalText[input.publishedAt]>> >>
            o == TopicTags(input.topics)
<1>0. input.publishedAt # Null => input.publishedAt \in Nat
  BY DEF BuildLongform, IsNonNegativeInteger
<1>1. BuildLongform(input).tags = ((((d \o t) \o s) \o i) \o p) \o o
  BY DEF BuildLongform, Template
<1>2. IsPlain(d) /\ ToSet(d) = {<<"d", input.dTag>>}
  BY PlainNames, PlainOne
<1>3. /\ IsPlain(t) /\ ToSet(t) = Stated("title", input.title)
      /\ IsPlain(s) /\ ToSet(s) = Stated("summary", input.summary)
      /\ IsPlain(i) /\ ToSet(i) = Stated("image", input.image)
  BY PlainField DEF Stated
<1>4. IsPlain(p) /\ ToSet(p) = Stated("published_at", published)
  <2>1. CASE input.publishedAt = Null
    BY <2>1, PlainNone DEF Stated
  <2>2. CASE input.publishedAt # Null
    <3>1. DecimalText[input.publishedAt] # Null
      BY <1>0, <2>2, NumbersRead
    <3>2. IsPlainTag(<<"published_at", DecimalText[input.publishedAt]>>)
      BY PlainNames
    <3>. QED BY <2>2, <3>1, <3>2, PlainOne DEF Stated
  <2>. QED BY <2>1, <2>2
<1>5. IsPlain(o) /\ ToSet(o) = {<<"t", x>> : x \in topics}
  BY TopicsArePlain, TopicsWritten
<1>. HIDE DEF d, t, s, i, p, o, published, topics
<1>6. IsPlain(d \o t) /\ ToSet(d \o t) = ToSet(d) \cup ToSet(t)
  BY <1>2, <1>3, PlainBoth
<1>7. IsPlain((d \o t) \o s) /\ ToSet((d \o t) \o s) = ToSet(d \o t) \cup ToSet(s)
  BY <1>3, <1>6, PlainBoth
<1>8. IsPlain(((d \o t) \o s) \o i) /\ ToSet(((d \o t) \o s) \o i) = ToSet((d \o t) \o s) \cup ToSet(i)
  BY <1>3, <1>7, PlainBoth
<1>9. /\ IsPlain((((d \o t) \o s) \o i) \o p)
      /\ ToSet((((d \o t) \o s) \o i) \o p) = ToSet(((d \o t) \o s) \o i) \cup ToSet(p)
  BY <1>4, <1>8, PlainBoth
<1>10. /\ IsPlain(((((d \o t) \o s) \o i) \o p) \o o)
       /\ ToSet(((((d \o t) \o s) \o i) \o p) \o o) = ToSet((((d \o t) \o s) \o i) \o p) \cup ToSet(o)
  BY <1>5, <1>9, PlainBoth
<1>11. IsTags(BuildLongform(input).tags)
  BY <1>1, <1>10 DEF IsPlain
<1>12. ToSet(BuildLongform(input).tags)
         = ToSet(d) \cup ToSet(t) \cup ToSet(s) \cup ToSet(i) \cup ToSet(p) \cup ToSet(o)
  BY <1>1, <1>6, <1>7, <1>8, <1>9, <1>10
<1>. QED BY <1>0, <1>2, <1>3, <1>4, <1>5, <1>11, <1>12 DEF published, topics

(* A value states itself under its own name.                               *)
LEMMA StatedTags ==
  ASSUME NEW name, NEW value
  PROVE  /\ \A tag \in Stated(name, value) : At(tag, 1) = name /\ At(tag, 2) = value
         /\ value # Null => \E tag \in Stated(name, value) : At(tag, 1) = name
<1>1. At(<<name, value>>, 1) = name /\ At(<<name, value>>, 2) = value
  BY Written
<1>. QED BY <1>1 DEF Stated

LEMMA TopicsRead ==
  ASSUME NEW topics
  PROVE  LET named == {NormaliseHashtag(topic) : topic \in topics} \ {Null}
         IN  {NormaliseHashtag(topic) : topic \in named} \ {Null} = named
<1>. DEFINE named == {NormaliseHashtag(topic) : topic \in topics} \ {Null}
<1>1. ASSUME NEW x \in named PROVE NormaliseHashtag(x) = x
  <2>1. PICK topic \in topics : x = NormaliseHashtag(topic)
    OBVIOUS
  <2>2. x # Null
    OBVIOUS
  <2>3. topic # "" /\ x = ToLowerCase(topic)
    BY <2>1, <2>2 DEF NormaliseHashtag
  <2>4. x # "" /\ ToLowerCase(x) = x
    BY <2>3, LowerCasesAssumption DEF ToLowerCase
  <2>. QED BY <2>4 DEF NormaliseHashtag
<1>2. Null \notin named
  OBVIOUS
<1>. HIDE DEF named
<1>3. {NormaliseHashtag(topic) : topic \in named} = named
  BY <1>1
<1>4. {NormaliseHashtag(topic) : topic \in named} \ {Null} = named
  BY <1>2, <1>3
<1>. QED BY <1>4 DEF named

(* An article is read back by its metadata and its identifier.             *)
LEMMA LongformRead ==
  ASSUME NEW input, IsSequence(input.topics), input.dTag # Null, input.image \in WebUrls \cup {Null},
         input.publishedAt # Null => input.publishedAt \in DOMAIN DecimalText,
         BuildLongform(input) # Null
  PROVE  LET tags == BuildLongform(input).tags
         IN  /\ ExtractTagValues(tags, "d") = {input.dTag}
             /\ SoleTagValue(tags, "title") = input.title
             /\ SoleTagValue(tags, "summary") = input.summary
             /\ ParseWebUrl(SoleTagValue(tags, "image")) = input.image
             /\ PublishedAtOf(tags) = input.publishedAt
             /\ TopicsOf(tags) = {NormaliseHashtag(topic) : topic \in ToSet(input.topics)} \ {Null}
<1>. DEFINE tags == BuildLongform(input).tags
            published == IF input.publishedAt = Null THEN Null ELSE DecimalText[input.publishedAt]
            topics == {NormaliseHashtag(topic) : topic \in ToSet(input.topics)} \ {Null}
            T == {<<"t", x>> : x \in topics}
            d == <<"d", input.dTag>>
<1>1. /\ IsTags(tags)
      /\ ToSet(tags) = {d} \cup Stated("title", input.title) \cup Stated("summary", input.summary)
                         \cup Stated("image", input.image) \cup Stated("published_at", published) \cup T
      /\ input.publishedAt # Null => input.publishedAt \in Nat
  BY LongformTags
<1>2. At(d, 1) = "d" /\ At(d, 2) = input.dTag
  BY Written
<1>3. \A tag \in T : At(tag, 1) = "t"
  BY Written
<1>4. {At(tag, 2) : tag \in T} = topics
  <2>. HIDE DEF topics
  <2>1. \A x : At(<<"t", x>>, 2) = x
    BY Written
  <2>. QED BY <2>1
<1>5. {NormaliseHashtag(topic) : topic \in topics} \ {Null} = topics
  BY TopicsRead
<1>6. Null \notin topics
  OBVIOUS
<1>. HIDE DEF tags, published, topics, T, d
<1>7. \A name, value : \A tag \in Stated(name, value) : At(tag, 1) = name /\ At(tag, 2) = value
  BY StatedTags
<1>16. \A name, value : value # Null => \E tag \in Stated(name, value) : At(tag, 1) = name
  BY StatedTags
<1>17. IsTags(tags)
  BY <1>1
<1>8. ExtractTagValues(tags, "d") = {input.dTag}
  <2>1. Writes(ToSet(tags), "d", input.dTag)
    BY <1>1, <1>2, <1>3, <1>7 DEF Writes
  <2>2. ExtractTagValues(tags, "d") = {input.dTag} \ {Null}
    BY <1>17, <2>1, ValueWritten
  <2>. QED BY <2>2
<1>9. SoleTagValue(tags, "title") = input.title
  <2>1. \A tag \in ToSet(tags) : At(tag, 1) = "title" => At(tag, 2) = input.title
    BY <1>1, <1>2, <1>3, <1>7
  <2>2. input.title # Null => \E tag \in ToSet(tags) : At(tag, 1) = "title"
    BY <1>1, <1>16
  <2>3. Writes(ToSet(tags), "title", input.title)
    BY <2>1, <2>2 DEF Writes
  <2>. QED BY <1>17, <2>3, ValueWritten
<1>10. SoleTagValue(tags, "summary") = input.summary
  <2>1. \A tag \in ToSet(tags) : At(tag, 1) = "summary" => At(tag, 2) = input.summary
    BY <1>1, <1>2, <1>3, <1>7
  <2>2. input.summary # Null => \E tag \in ToSet(tags) : At(tag, 1) = "summary"
    BY <1>1, <1>16
  <2>3. Writes(ToSet(tags), "summary", input.summary)
    BY <2>1, <2>2 DEF Writes
  <2>. QED BY <1>17, <2>3, ValueWritten
<1>11. SoleTagValue(tags, "image") = input.image
  <2>1. \A tag \in ToSet(tags) : At(tag, 1) = "image" => At(tag, 2) = input.image
    BY <1>1, <1>2, <1>3, <1>7
  <2>2. input.image # Null => \E tag \in ToSet(tags) : At(tag, 1) = "image"
    BY <1>1, <1>16
  <2>3. Writes(ToSet(tags), "image", input.image)
    BY <2>1, <2>2 DEF Writes
  <2>. QED BY <1>17, <2>3, ValueWritten
<1>12. SoleTagValue(tags, "published_at") = published
  <2>1. \A tag \in ToSet(tags) : At(tag, 1) = "published_at" => At(tag, 2) = published
    BY <1>1, <1>2, <1>3, <1>7
  <2>2. published # Null => \E tag \in ToSet(tags) : At(tag, 1) = "published_at"
    BY <1>1, <1>16
  <2>3. Writes(ToSet(tags), "published_at", published)
    BY <2>1, <2>2 DEF Writes
  <2>. QED BY <1>17, <2>3, ValueWritten
<1>13. PublishedAtOf(tags) = input.publishedAt
  <2>1. CASE input.publishedAt = Null
    BY <1>12, <2>1 DEF PublishedAtOf, published
  <2>2. CASE input.publishedAt # Null
    <3>1. published = DecimalText[input.publishedAt] /\ published # Null /\ ParseDecimalInteger(published) = input.publishedAt
      BY <1>1, <2>2, NumbersRead DEF published
    <3>. QED BY <1>12, <3>1 DEF PublishedAtOf
  <2>. QED BY <2>1, <2>2
<1>14. TopicsOf(tags) = topics
  <2>1. {tag \in ToSet(tags) : At(tag, 1) = "t"} = T
    BY <1>1, <1>2, <1>3, <1>7
  <2>2. ExtractTagValues(tags, "t") = {At(tag, 2) : tag \in T} \ {Null}
    BY <1>1, <2>1, ValuesNamed
  <2>3. ExtractTagValues(tags, "t") = topics
    BY <1>4, <1>6, <2>2
  <2>. QED BY <1>5, <2>3 DEF TopicsOf
<1>15. ParseWebUrl(SoleTagValue(tags, "image")) = input.image
  BY <1>11 DEF ParseWebUrl
<1>. QED BY <1>8, <1>9, <1>10, <1>13, <1>14, <1>15 DEF tags, topics

-----------------------------------------------------------------------------
(* Each field has a name and a tag of its own.                             *)
LEMMA FieldsDiffer ==
  /\ \A f, g \in ToSet(Fields) : f[1] = g[1] \/ f[2] = g[2] => f = g
  /\ \A f \in ToSet(Fields) : f[1] # "fallbacks" /\ f[2] # "fallback" /\ f[2] # "e"
  /\ <<"url", "url">> \in ToSet(Fields)
<1>1. DOMAIN Fields = 1..11
  BY DEF Fields
<1>2. ToSet(Fields) = {Fields[i] : i \in 1..11}
  BY <1>1 DEF ToSet
<1>3. \A i \in 1..11 : Fields[i][1] # "fallbacks" /\ Fields[i][2] # "fallback" /\ Fields[i][2] # "e"
  BY DEF Fields
<1>4. \A i, j \in 1..11 : Fields[i][1] = Fields[j][1] \/ Fields[i][2] = Fields[j][2] => i = j
  BY DEF Fields
<1>5. Fields[1] = <<"url", "url">>
  BY DEF Fields
<1>. QED BY <1>2, <1>3, <1>4, <1>5

(* The fallbacks of metadata.                                              *)
FallbacksOf(metadata) == IF "fallbacks" \in DOMAIN metadata THEN metadata["fallbacks"] ELSE <<>>

(* What is written of a file, and what is found of it.                     *)
LEMMA FieldsWritten ==
  ASSUME NEW metadata, IsFileMetadata(metadata)
  PROVE  LET tags   == ToFields(metadata)
             stated == {field \in ToSet(Fields) : field[1] \in DOMAIN metadata}
             more   == FallbacksOf(metadata)
         IN  /\ IsTags(tags) /\ IsSequence(more)
             /\ ToSet(tags) = {<<field[2], FieldText(metadata, field[1])>> : field \in stated}
                                \cup {<<"fallback", x>> : x \in ToSet(more)}
             /\ Among(tags, {tag \in ToSet(tags) : At(tag, 1) = "fallback" /\ Len(tag) > 1})
                  = [i \in DOMAIN more |-> <<"fallback", more[i]>>]
<1>. DEFINE S         == {field \in ToSet(Fields) : field[1] \in DOMAIN metadata}
            stated    == Among(Fields, S)
            fallbacks == FallbacksOf(metadata)
            written   == [i \in DOMAIN stated |-> <<stated[i][2], FieldText(metadata, stated[i][1])>>]
            more      == [i \in DOMAIN fallbacks |-> <<"fallback", fallbacks[i]>>]
            tags      == ToFields(metadata)
            R         == {tag \in ToSet(tags) : At(tag, 1) = "fallback" /\ Len(tag) > 1}
<1>1. tags = written \o more
  BY DEF ToFields, FallbacksOf
<1>2. IsSequence(fallbacks)
  BY NoTags DEF IsTags, FallbacksOf, IsFileMetadata
<1>3. PICK F : Fields \in Seq(F)
  BY FieldNames
<1>4. ToSet(stated) = S /\ stated \in Seq(F)
  <2>1. ToSet(stated) = {x \in ToSet(Fields) : x \in S} /\ stated \in Seq(F)
    <3>. HIDE DEF S
    <3>. QED BY <1>3, AmongSelects
  <2>. QED BY <2>1
<1>5. /\ Len(stated) \in Nat /\ DOMAIN stated = 1..Len(stated) /\ ToSet(stated) = {stated[i] : i \in 1..Len(stated)}
  <2>. HIDE DEF stated
  <2>. QED BY <1>4, TypedSequence
<1>. HIDE DEF S, fallbacks, stated, tags
<1>6. IsTags(more) /\ ToSet(more) = {<<"fallback", x>> : x \in ToSet(fallbacks)}
  BY <1>2, PlainEach DEF IsPlain
<1>7. \A i \in 1..Len(stated) : stated[i][2] # "h"
  BY <1>4, <1>5, FieldNames DEF S
<1>8. \A i \in 1..Len(stated) : IsPlainTag(<<stated[i][2], FieldText(metadata, stated[i][1])>>)
  BY <1>7, PlainWritten
<1>9. /\ written = [i \in 1..Len(stated) |-> written[i]]
      /\ \A i \in 1..Len(stated) : IsPlainTag(written[i])
      /\ DOMAIN written = 1..Len(stated)
      /\ \A i \in 1..Len(stated) : written[i] = <<stated[i][2], FieldText(metadata, stated[i][1])>>
  BY <1>5, <1>8
<1>. HIDE DEF written, more
<1>10. IsTags(written)
  BY <1>5, <1>9, PlainListed DEF IsPlain
<1>11. ToSet(written) = {<<field[2], FieldText(metadata, field[1])>> : field \in S}
  <2>1. ToSet(written) = {written[i] : i \in 1..Len(stated)}
    BY <1>9 DEF ToSet
  <2>2. ToSet(written) = {<<stated[i][2], FieldText(metadata, stated[i][1])>> : i \in 1..Len(stated)}
    BY <1>9, <2>1
  <2>3. ToSet(written) = {<<field[2], FieldText(metadata, field[1])>> : field \in ToSet(stated)}
    BY <1>5, <2>2
  <2>. QED BY <1>4, <2>3
<1>12. IsTags(tags) /\ ToSet(tags) = ToSet(written) \cup ToSet(more)
  BY <1>1, <1>6, <1>10, ConcatTags
<1>13. Among(tags, R) = Among(written, R) \o Among(more, R)
  <2>. HIDE DEF R
  <2>. QED BY <1>1, <1>6, <1>10, ConcatTags
<1>14. \A tag \in ToSet(written) : tag \notin R
  <2>1. \A field \in S : field[2] # "fallback"
    BY FieldsDiffer DEF S
  <2>2. \A tag \in ToSet(written) : At(tag, 1) # "fallback"
    BY <1>11, <2>1, Written
  <2>. QED BY <2>2
<1>15. ToSet(more) \subseteq R
  <2>1. \A x : At(<<"fallback", x>>, 1) = "fallback" /\ Len(<<"fallback", x>>) > 1
    BY Slots
  <2>. QED BY <1>6, <1>12, <2>1
<1>. HIDE DEF R
<1>16. written \in Seq(ToSet(written)) /\ more \in Seq(ToSet(more))
  BY <1>6, <1>10 DEF IsTags, IsSequence
<1>17. Among(written, R) = <<>> /\ Among(more, R) = more
  BY <1>14, <1>15, <1>16, AmongNone, AmongAll
<1>18. Among(tags, R) = more
  BY <1>13, <1>16, <1>17
<1>. QED BY <1>2, <1>6, <1>11, <1>12, <1>18 DEF R, S, more, fallbacks, tags

(* A field is read back as it was stated.                                  *)
LEMMA FieldReadBack ==
  ASSUME NEW metadata, IsFileMetadata(metadata), IsWritable(metadata), NEW field \in ToSet(Fields)
  PROVE  FieldRead(ToFields(metadata), field[1], field[2])
           = IF field[1] \in DOMAIN metadata THEN metadata[field[1]] ELSE Null
<1>. DEFINE tags   == ToFields(metadata)
            stated == {f \in ToSet(Fields) : f[1] \in DOMAIN metadata}
            value  == IF field[1] \in DOMAIN metadata THEN FieldText(metadata, field[1]) ELSE Null
<1>1. /\ IsTags(tags)
      /\ ToSet(tags) = {<<f[2], FieldText(metadata, f[1])>> : f \in stated}
                         \cup {<<"fallback", x>> : x \in ToSet(FallbacksOf(metadata))}
  BY FieldsWritten
<1>2. Writes(ToSet(tags), field[2], value)
  <2>. HIDE DEF tags
  <2>1. \A tag \in ToSet(tags) : At(tag, 1) = field[2] => At(tag, 2) = value
    <3>. SUFFICES ASSUME NEW tag \in ToSet(tags), At(tag, 1) = field[2] PROVE At(tag, 2) = value
      OBVIOUS
    <3>1. At(tag, 1) # "fallback"
      BY FieldsDiffer
    <3>2. PICK f \in stated : tag = <<f[2], FieldText(metadata, f[1])>>
      BY <1>1, <3>1, Written
    <3>3. f[2] = field[2] /\ At(tag, 2) = FieldText(metadata, f[1])
      BY <3>2, Written
    <3>4. f = field
      BY <3>3, FieldsDiffer
    <3>. QED BY <3>3, <3>4
  <2>2. value # Null => \E tag \in ToSet(tags) : At(tag, 1) = field[2]
    <3>1. field[1] \in DOMAIN metadata => <<field[2], FieldText(metadata, field[1])>> \in ToSet(tags)
      BY <1>1
    <3>2. At(<<field[2], FieldText(metadata, field[1])>>, 1) = field[2]
      BY Written
    <3>. QED BY <3>1, <3>2
  <2>. HIDE DEF value
  <2>. QED BY <2>1, <2>2 DEF Writes
<1>3. SoleTagValue(tags, field[2]) = value
  <2>. HIDE DEF tags, value
  <2>. QED BY <1>1, <1>2, ValueWritten
<1>4. CASE field[1] \notin DOMAIN metadata
  BY <1>3, <1>4 DEF FieldRead
<1>5. CASE field[1] \in DOMAIN metadata /\ field[1] = "size"
  <2>1. metadata["size"] \in Nat /\ metadata["size"] \in DOMAIN DecimalText
    BY <1>5 DEF IsWritable, IsFileMetadata
  <2>2. value = DecimalText[metadata["size"]]
    BY <1>5 DEF FieldText
  <2>3. value # Null /\ ParseDecimalInteger(value) = metadata["size"]
    BY <2>1, <2>2, NumbersRead
  <2>. QED BY <1>3, <1>5, <2>3 DEF FieldRead
<1>6. CASE field[1] \in DOMAIN metadata /\ field[1] = "mimeType"
  <2>1. value = metadata["mimeType"] /\ value # Null
    BY <1>6 DEF FieldText, IsFileMetadata
  <2>2. metadata["mimeType"] \in DOMAIN MimeTypeOf /\ MimeTypeOf[metadata["mimeType"]] = metadata["mimeType"]
    BY <1>6 DEF IsWritable
  <2>3. metadata["mimeType"] \notin DOMAIN BeforeParams
    BY <2>2, MimeTypesAssumption
  <2>4. MimeTypeBeforeItsParameters(value) = metadata["mimeType"]
    BY <2>1, <2>2, <2>3 DEF MimeTypeBeforeItsParameters
  <2>. QED BY <1>3, <1>6, <2>1, <2>4 DEF FieldRead
<1>7. CASE field[1] \in DOMAIN metadata /\ field[1] # "mimeType" /\ field[1] # "size"
  <2>1. value = metadata[field[1]] /\ value # Null
    BY <1>7 DEF FieldText, IsFileMetadata
  <2>. QED BY <1>3, <1>7, <2>1 DEF FieldRead
<1>. QED BY <1>4, <1>5, <1>6, <1>7

(* A file is read back by its fields.                                      *)
LEMMA FileReadBack ==
  ASSUME NEW metadata, IsFileMetadata(metadata), IsWritable(metadata)
  PROVE  ParseFileMetadataTags(ToFields(metadata)) = metadata
<1>. DEFINE tags    == ToFields(metadata)
            stating == Among(tags, {tag \in ToSet(tags) : At(tag, 1) = "fallback" /\ Len(tag) > 1})
            more    == FallbacksOf(metadata)
            read    == {<<field[1], FieldRead(tags, field[1], field[2])>> : field \in ToSet(Fields)}
            stated  == {pair \in read : pair[2] # Null}
            names   == {pair[1] : pair \in stated} \cup (IF stating = <<>> THEN {} ELSE {"fallbacks"})
            result  == [name \in names |->
                          IF name = "fallbacks" THEN [i \in DOMAIN stating |-> stating[i][2]]
                          ELSE (CHOOSE pair \in stated : pair[1] = name)[2]]
<1>1. stating = [i \in DOMAIN more |-> <<"fallback", more[i]>>] /\ IsSequence(more)
  BY FieldsWritten
<1>2. \A field \in ToSet(Fields) :
        FieldRead(tags, field[1], field[2]) = IF field[1] \in DOMAIN metadata THEN metadata[field[1]] ELSE Null
  BY FieldReadBack
<1>3. SoleTagValue(tags, "url") = metadata["url"] /\ metadata["url"] \notin {Null, ""}
  <2>1. <<"url", "url">> \in ToSet(Fields) /\ "url" \in DOMAIN metadata /\ metadata["url"] \notin {Null, ""}
    BY FieldsDiffer DEF IsFileMetadata, IsWritable
  <2>2. FieldRead(tags, "url", "url") = metadata["url"]
    <3>. DEFINE url == <<"url", "url">>
    <3>1. url[1] = "url" /\ url[2] = "url"
      OBVIOUS
    <3>2. FieldRead(tags, url[1], url[2]) = metadata[url[1]]
      <4>. HIDE DEF url, tags
      <4>. QED BY <1>2, <2>1, <3>1 DEF url
    <3>. QED BY <3>1, <3>2
  <2>3. FieldRead(tags, "url", "url") = SoleTagValue(tags, "url")
    BY DEF FieldRead
  <2>. QED BY <2>1, <2>2, <2>3
<1>4. ParseFileMetadataTags(tags) = result
  BY <1>3 DEF ParseFileMetadataTags
<1>. HIDE DEF tags, stating, more
<1>5. DOMAIN stating = DOMAIN more /\ \A i \in DOMAIN more : stating[i][2] = more[i]
  BY <1>1
<1>6. [i \in DOMAIN stating |-> stating[i][2]] = more
  <2>1. more = [i \in DOMAIN more |-> more[i]]
    BY <1>1, TypedSequence DEF IsSequence
  <2>. QED BY <1>5, <2>1
<1>7. stating = <<>> <=> "fallbacks" \notin DOMAIN metadata
  <2>1. more = <<>> <=> "fallbacks" \notin DOMAIN metadata
    BY DEF more, FallbacksOf, IsFileMetadata
  <2>2. stating = <<>> <=> more = <<>>
    <3>1. more \in Seq(ToSet(more)) /\ DOMAIN more = 1..Len(more) /\ Len(more) \in Nat
      BY <1>1, TypedSequence DEF IsSequence
    <3>2. CASE more = <<>>
      <4>1. DOMAIN more = {}
        BY <3>2
      <4>. QED BY <1>1, <3>2, <4>1
    <3>3. CASE more # <<>>
      <4>1. 1 \in DOMAIN more
        BY <3>1, <3>3
      <4>2. 1 \in DOMAIN stating
        BY <1>5, <4>1
      <4>. QED BY <3>3, <4>2
    <3>. QED BY <3>2, <3>3
  <2>. QED BY <2>1, <2>2
<1>8. stated = {<<field[1], metadata[field[1]]>> : field \in {f \in ToSet(Fields) : f[1] \in DOMAIN metadata}}
  <2>1. \A name \in DOMAIN metadata : metadata[name] # Null
    BY DEF IsFileMetadata
  <2>2. ASSUME NEW pair \in stated
        PROVE  \E field \in ToSet(Fields) : field[1] \in DOMAIN metadata /\ pair = <<field[1], metadata[field[1]]>>
    BY <1>2
  <2>3. ASSUME NEW field \in ToSet(Fields), field[1] \in DOMAIN metadata
        PROVE  <<field[1], metadata[field[1]]>> \in stated
    BY <1>2, <2>1, <2>3
  <2>. HIDE DEF stated
  <2>. QED BY <2>2, <2>3
<1>9. names = DOMAIN metadata
  <2>1. {pair[1] : pair \in stated} = {field[1] : field \in {f \in ToSet(Fields) : f[1] \in DOMAIN metadata}}
    <3>. DEFINE here    == {f \in ToSet(Fields) : f[1] \in DOMAIN metadata}
                Pair(f) == <<f[1], metadata[f[1]]>>
    <3>1. \A f \in here : Pair(f)[1] = f[1]
      OBVIOUS
    <3>2. stated = {Pair(f) : f \in here}
      BY <1>8
    <3>. HIDE DEF stated, here, Pair
    <3>3. {pair[1] : pair \in stated} = {f[1] : f \in here}
      BY <3>1, <3>2
    <3>. QED BY <3>3 DEF here
  <2>2. DOMAIN metadata \subseteq {field[1] : field \in ToSet(Fields)} \cup {"fallbacks"}
    BY DEF IsFileMetadata
  <2>. HIDE DEF stated
  <2>. QED BY <1>7, <2>1, <2>2
<1>10. ASSUME NEW name \in DOMAIN metadata PROVE result[name] = metadata[name]
  <2>1. CASE name = "fallbacks"
    <3>1. more = metadata["fallbacks"]
      BY <2>1 DEF more, FallbacksOf
    <3>. HIDE DEF names, stated
    <3>. QED BY <1>6, <1>9, <2>1, <3>1
  <2>2. CASE name # "fallbacks"
    <3>1. PICK field \in ToSet(Fields) : field[1] = name
      BY <2>2 DEF IsFileMetadata
    <3>. HIDE DEF names, stated
    <3>2. <<name, metadata[name]>> \in stated
      BY <1>8, <3>1
    <3>3. \A pair \in stated : pair[1] = name => pair[2] = metadata[name]
      BY <1>8
    <3>4. result[name] = (CHOOSE pair \in stated : pair[1] = name)[2]
      BY <1>9, <2>2
    <3>. QED BY <3>2, <3>3, <3>4
  <2>. QED BY <2>1, <2>2
<1>11. result = metadata
  <2>1. metadata = [name \in DOMAIN metadata |-> metadata[name]] /\ DOMAIN result = DOMAIN metadata
    <3>. HIDE DEF names
    <3>. QED BY <1>9 DEF IsFileMetadata
  <2>2. result = [name \in DOMAIN result |-> result[name]]
    OBVIOUS
  <2>. HIDE DEF result
  <2>. QED BY <1>10, <2>1, <2>2
<1>. QED BY <1>4, <1>11 DEF tags

-----------------------------------------------------------------------------
(* An imeta tag is read back by its fields too.                            *)
LEMMA ImetaReadBack ==
  ASSUME NEW metadata, IsFileMetadata(metadata), BuildImetaTag(metadata) # Null
  PROVE  /\ IsSequence(BuildImetaTag(metadata)) /\ At(BuildImetaTag(metadata), 1) = "imeta"
         /\ ParseImetaTag(BuildImetaTag(metadata)) = metadata
<1>. DEFINE fields == ToFields(metadata)
            tag    == <<"imeta">> \o fields
            S      == {entry \in ToSet(fields) : Len(entry) = 2}
<1>1. BuildImetaTag(metadata) = tag /\ IsWritable(metadata) /\ DescribesTheUrl(fields)
  BY DEF BuildImetaTag
<1>2. /\ IsTags(fields)
      /\ ToSet(fields) = {<<f[2], FieldText(metadata, f[1])>> : f \in {g \in ToSet(Fields) : g[1] \in DOMAIN metadata}}
                           \cup {<<"fallback", x>> : x \in ToSet(FallbacksOf(metadata))}
  BY FieldsWritten
<1>3. ParseFileMetadataTags(fields) = metadata
  BY <1>1, FileReadBack
<1>4. \A entry \in ToSet(fields) : Len(entry) = 2
  BY <1>2, Slots
<1>. HIDE DEF fields
<1>5. IsSequence(fields)
  BY <1>2 DEF IsTags
<1>6. IsSequence(tag) /\ At(tag, 1) = "imeta"
  BY <1>5, NamedList
<1>7. tag[1] = "imeta" /\ Tail(tag) = fields
  <2>. DEFINE T == ToSet(fields) \cup {"imeta"}
              one == <<"imeta">>
  <2>1. fields \in Seq(T) /\ one \in Seq(T) /\ Len(one) = 1 /\ one[1] = "imeta"
    BY <1>5 DEF IsSequence
  <2>. HIDE DEF T, one
  <2>7. /\ one \o fields \in Seq(T) /\ Len(one \o fields) = Len(one) + Len(fields)
        /\ \A i \in 1..(Len(one) + Len(fields)) :
             (one \o fields)[i] = IF i <= Len(one) THEN one[i] ELSE fields[i - Len(one)]
    BY <2>1, ConcatProperties
  <2>2. /\ one \o fields \in Seq(T) /\ Len(one \o fields) = 1 + Len(fields) /\ Len(fields) \in Nat
        /\ \A i \in 1..(1 + Len(fields)) : (one \o fields)[i] = IF i <= 1 THEN one[i] ELSE fields[i - 1]
    BY <2>1, <2>7
  <2>3. (one \o fields)[1] = "imeta" /\ one \o fields # <<>>
    BY <2>1, <2>2
  <2>4. /\ Tail(one \o fields) \in Seq(T) /\ Len(Tail(one \o fields)) = Len(fields)
        /\ \A i \in 1..Len(fields) : Tail(one \o fields)[i] = (one \o fields)[i + 1]
    BY <2>2, <2>3, HeadTailProperties
  <2>5. \A i \in 1..Len(fields) : Tail(one \o fields)[i] = fields[i]
    BY <2>2, <2>4
  <2>6. Tail(one \o fields) = fields
    BY <2>1, <2>4, <2>5, SeqEqual
  <2>. QED BY <2>3, <2>6 DEF one
<1>8. Among(fields, S) = fields
  <2>1. fields \in Seq(ToSet(fields)) /\ ToSet(fields) \subseteq S
    BY <1>4, <1>5 DEF IsSequence
  <2>. HIDE DEF S
  <2>. QED BY <2>1, AmongAll
<1>. HIDE DEF tag
<1>9. ParseImetaTag(tag) = ParseFileMetadataTags(fields)
  BY <1>1, <1>7, <1>8 DEF ParseImetaTag
<1>. QED BY <1>1, <1>3, <1>6, <1>9

(* What each builder writes is read back as it was meant.                  *)
LEMMA BuiltReadBack ==
  ASSUME NEW publication \in Publications, Built(publication) # Null,
         NEW entry, entry.by = publication.by, entry.given = publication.given,
         entry.event.kind = Built(publication).kind, entry.event.tags = Built(publication).tags
  PROVE  IsReadBack(entry)
<1>. DEFINE by    == publication.by
            given == publication.given
            event == entry.event
            tags  == Built(publication).tags
<1>1. CASE by = "note"
  <2>1. Built(publication) = [kind |-> KIND_TEXT_NOTE, tags |-> <<>> \o ContentTagsBeside(<<>>, given), content |-> given]
    BY <1>1 DEF Built, BuildTextNote, Template, WithContentTags
  <2>2. IsContent(given)
    BY <1>1, PublicationsAssumption
  <2>3. AreMentions(ContentTagsBeside(<<>>, given)) /\ IsPlain(ContentTagsBeside(<<>>, given))
    BY <2>2, BesideMentions, MentionsArePlain
  <2>4. IsPlain(event.tags) /\ ToSet(event.tags) = ToSet(ContentTagsBeside(<<>>, given))
    <3>. DEFINE beside == ContentTagsBeside(<<>>, given)
    <3>1. IsPlain(<<>> \o beside) /\ ToSet(<<>> \o beside) = ToSet(<<>>) \cup ToSet(beside)
      BY <2>3, PlainNone, PlainBoth
    <3>2. event.tags = <<>> \o beside
      BY <2>1
    <3>. HIDE DEF beside
    <3>. QED BY <3>1, <3>2, PlainNone DEF beside
  <2>5. ASSUME NEW tag \in ToSet(event.tags) PROVE At(tag, 1) # "e"
    <3>1. Len(tag) \in Nat /\ Len(tag) >= 2 /\ tag[1] \in {"p", "q", "t"}
      BY <2>3, <2>4, TypedSequence DEF AreMentions, IsMention, IsSequence
    <3>2. At(tag, 1) = tag[1]
      BY <3>1 DEF At
    <3>. QED BY <3>1, <3>2
  <2>6. ~Refs(event).isReply
    BY <2>1, <2>4, <2>5, NoteAnswersNothing DEF IsPlain
  <2>. QED BY <1>1, <2>6 DEF IsReadBack
<1>2. CASE by = "longform"
  <2>1. Built(publication) = BuildLongform(given)
    BY <1>2 DEF Built
  <2>2. /\ given.kind \in {KIND_LONGFORM_CONTENT, KIND_LONGFORM_CONTENT_DRAFT} /\ given.dTag # Null
        /\ given.image \in WebUrls \cup {Null} /\ IsSequence(given.topics)
        /\ given.publishedAt # Null => given.publishedAt \in DOMAIN DecimalText
    BY <1>2, PublicationsAssumption
  <2>3. event.kind = given.kind
    BY <2>1 DEF BuildLongform, Template
  <2>4. KindCategory(event.kind) = "addressable" /\ event.kind \notin ThreadingKinds
    <3>1. event.kind = 30023 \/ event.kind = 30024
      BY <2>2, <2>3 DEF KIND_LONGFORM_CONTENT, KIND_LONGFORM_CONTENT_DRAFT
    <3>2. KindCategory(30023) = "addressable" /\ KindCategory(30024) = "addressable"
      BY DEF KindCategory
    <3>3. 30023 \notin ThreadingKinds /\ 30024 \notin ThreadingKinds
      BY DEF ThreadingKinds, COMMENT_KINDS, KIND_COMMENT, KIND_VOICE_MESSAGE_COMMENT, KIND_TEXT_NOTE,
         KIND_CHAT_MESSAGE, KIND_CHANNEL_MESSAGE, KIND_LIVE_CHAT_MESSAGE
    <3>. QED BY <3>1, <3>2, <3>3
  <2>5. /\ ExtractTagValues(event.tags, "d") = {given.dTag}
        /\ SoleTagValue(event.tags, "title") = given.title
        /\ SoleTagValue(event.tags, "summary") = given.summary
        /\ ParseWebUrl(SoleTagValue(event.tags, "image")) = given.image
        /\ PublishedAtOf(event.tags) = given.publishedAt
        /\ TopicsOf(event.tags) = {NormaliseHashtag(topic) : topic \in ToSet(given.topics)} \ {Null}
    <3>1. event.tags = BuildLongform(given).tags
      BY <2>1
    <3>. QED BY <2>1, <2>2, <3>1, LongformRead
  <2>6. ~Refs(event).isReply
    BY <2>4, NoReply
  <2>7. ReplyTargetRef(event) = AddressRef([kind |-> event.kind, pubkey |-> event.pubkey, dTag |-> given.dTag])
    BY <2>2, <2>4, <2>5, AnsweredByCoordinate
  <2>8. ASSUME event.kind = KIND_LONGFORM_CONTENT
        PROVE  AnalyseEvent(event).kindData = LongformMetadata(event)
    <3>1. GetDTag([d |-> {given.dTag}]) # Null
      BY <2>2 DEF GetDTag, SoleTagState
    <3>2. KindMetadata(event) = LongformMetadata(event)
      BY <2>5, <2>8, <3>1 DEF KindMetadata, IsRepostKind, KIND_LONGFORM_CONTENT, KIND_REPOST, KIND_GENERIC_REPOST,
         KIND_REACTION, KIND_HIGHLIGHT
    <3>. QED BY <3>2 DEF AnalyseEvent
  <2>9. /\ LongformMetadata(event).title = given.title
        /\ LongformMetadata(event).summary = given.summary
        /\ LongformMetadata(event).image = given.image
        /\ LongformMetadata(event).publishedAt = given.publishedAt
        /\ LongformMetadata(event).topics = {NormaliseHashtag(topic) : topic \in ToSet(given.topics)} \ {Null}
    BY <2>5 DEF LongformMetadata
  <2>. QED BY <1>2, <2>6, <2>7, <2>8, <2>9 DEF IsReadBack
<1>3. CASE by = "draftWrap"
  <2>1. /\ event.kind = KIND_DRAFT_WRAP
        /\ event.tags = << <<"d", given.dTag>>, <<"k", DecimalText[given.draftKind]>> >>
    BY <1>3 DEF Built, BuildDraftWrap, Template
  <2>2. given.dTag # Null
    BY <1>3, PublicationsAssumption
  <2>3. ExtractTagValues(event.tags, "d") = {given.dTag}
    <3>. DEFINE d == <<"d", given.dTag>>
                k == <<"k", DecimalText[given.draftKind]>>
    <3>1. At(d, 1) = "d" /\ At(d, 2) = given.dTag /\ At(k, 1) = "k" /\ IsSequence(d) /\ IsSequence(k)
      BY Written
    <3>2. event.tags = << d, k >>
      BY <2>1
    <3>. HIDE DEF d, k
    <3>6. IsTags(<< d, k >>) /\ ToSet(<< d, k >>) = {d, k}
      BY <3>1, TwoTags
    <3>3. IsTags(event.tags) /\ ToSet(event.tags) = {d, k}
      BY <3>2, <3>6
    <3>4. Writes(ToSet(event.tags), "d", given.dTag)
      BY <3>1, <3>3 DEF Writes
    <3>5. ExtractTagValues(event.tags, "d") = {given.dTag} \ {Null}
      BY <3>3, <3>4, ValueWritten
    <3>. QED BY <2>2, <3>5
  <2>4. KindCategory(event.kind) = "addressable"
    BY <2>1 DEF KindCategory, KIND_DRAFT_WRAP
  <2>5. ReplyTargetRef(event) = AddressRef([kind |-> event.kind, pubkey |-> event.pubkey, dTag |-> given.dTag])
    BY <2>2, <2>3, <2>4, AnsweredByCoordinate
  <2>. QED BY <1>3, <2>5 DEF IsReadBack
<1>4. CASE by = "appSettings"
  <2>1. event.kind = KIND_APPLICATION_SPECIFIC_DATA /\ event.tags = << <<"d", given>> >>
    BY <1>4 DEF Built, BuildAppSettings, Template
  <2>2. given # Null
    BY <1>4, PublicationsAssumption
  <2>3. ExtractTagValues(event.tags, "d") = {given}
    <3>. DEFINE d == <<"d", given>>
    <3>1. At(d, 1) = "d" /\ At(d, 2) = given /\ IsSequence(d)
      BY Written
    <3>2. event.tags = << d >>
      BY <2>1
    <3>. HIDE DEF d
    <3>3. IsTags(event.tags) /\ ToSet(event.tags) = {d}
      BY <3>1, <3>2, OneTag
    <3>4. Writes(ToSet(event.tags), "d", given)
      BY <3>1, <3>3 DEF Writes
    <3>5. ExtractTagValues(event.tags, "d") = {given} \ {Null}
      BY <3>3, <3>4, ValueWritten
    <3>. QED BY <2>2, <3>5
  <2>4. KindCategory(event.kind) = "addressable"
    BY <2>1 DEF KindCategory, KIND_APPLICATION_SPECIFIC_DATA
  <2>5. ReplyTargetRef(event) = AddressRef([kind |-> event.kind, pubkey |-> event.pubkey, dTag |-> given])
    BY <2>2, <2>3, <2>4, AnsweredByCoordinate
  <2>. QED BY <1>4, <2>5 DEF IsReadBack
<1>5. CASE by = "file"
  <2>1. Built(publication) = BuildFileMetadataEvent(given, "") /\ IsFileMetadata(given)
    BY <1>5, PublicationsAssumption DEF Built
  <2>2. IsWritable(given) /\ StatesEventFields(given)
    BY <2>1 DEF BuildFileMetadataEvent
  <2>3. event.kind = KIND_FILE_METADATA /\ event.tags = ToFields(given)
    <3>. DEFINE caption == ""
    <3>1. Built(publication) = [kind |-> KIND_FILE_METADATA, tags |-> ToFields(given), content |-> caption]
      BY <2>1, <2>2, Zenon DEF BuildFileMetadataEvent
    <3>. HIDE DEF caption
    <3>. QED BY <3>1
  <2>4. ParseFileMetadataTags(event.tags) = given
    BY <2>1, <2>2, <2>3, FileReadBack
  <2>5. given # Null
    BY <1>5, PublicationsAssumption
  <2>6. ParseFileMetadataEvent(event) = given
    BY <2>2, <2>3, <2>4, <2>5 DEF ParseFileMetadataEvent
  <2>7. ~Refs(event).isReply
    <3>1. event.kind \notin ThreadingKinds
      BY <2>3 DEF KIND_FILE_METADATA, ThreadingKinds, COMMENT_KINDS, KIND_COMMENT, KIND_VOICE_MESSAGE_COMMENT,
         KIND_TEXT_NOTE, KIND_CHAT_MESSAGE, KIND_CHANNEL_MESSAGE, KIND_LIVE_CHAT_MESSAGE
    <3>. QED BY <3>1, NoReply
  <2>. QED BY <1>5, <2>6, <2>7 DEF IsReadBack
<1>6. CASE by = "imeta"
  <2>. DEFINE tag == BuildImetaTag(given)
  <2>1. Built(publication) = IF tag = Null THEN Null ELSE Template(KIND_TEXT_NOTE, << tag >>, "")
    BY <1>6 DEF Built
  <2>2. tag # Null
    BY <2>1
  <2>3. event.kind = KIND_TEXT_NOTE /\ event.tags = << tag >>
    <3>. DEFINE content == ""
    <3>1. Built(publication) = [kind |-> KIND_TEXT_NOTE, tags |-> << tag >>, content |-> content]
      BY <2>1, <2>2, Zenon DEF Template
    <3>. HIDE DEF content
    <3>. QED BY <3>1
  <2>4. IsSequence(tag) /\ At(tag, 1) = "imeta" /\ ParseImetaTag(tag) = given
    BY <1>6, <2>2, PublicationsAssumption, ImetaReadBack
  <2>. HIDE DEF tag
  <2>5. IsTags(event.tags) /\ ToSet(event.tags) = {tag} /\ event.tags[1] = tag
    BY <2>3, <2>4, OneTag
  <2>6. ~Refs(event).isReply
    BY <2>3, <2>4, <2>5, NoteAnswersNothing
  <2>. QED BY <1>6, <2>4, <2>5, <2>6 DEF IsReadBack
<1>7. CASE by \notin {"note", "longform", "draftWrap", "appSettings", "file", "imeta"}
  BY <1>7 DEF IsReadBack
<1>. QED BY <1>1, <1>2, <1>3, <1>4, <1>5, <1>6, <1>7

(* The first entry of a path is read back as it was meant, and stays first. *)
LEMMA FirstIsReadBack ==
  ASSUME IInv, ReadBackAsMeant, Next
  PROVE  \E entry : path' = Append(path, entry) /\ (path = <<>> => IsReadBack(entry))
<1>1. CASE path # <<>>
  BY <1>1, EveryStepEarns DEF Earns
<1>2. CASE path = <<>> /\ Publish
  <2>1. PICK author \in Authors, publication \in Publications :
          Add(publication.by, publication.given, author, TRUE, Built(publication))
    BY <1>2 DEF Publish
  <2>. DEFINE event == Event(author, TRUE, Built(publication))
              entry == [by |-> publication.by, given |-> publication.given, event |-> event]
  <2>2. path' = Append(path, entry) /\ Built(publication) # Null
    BY <2>1, Added
  <2>3. event.kind = Built(publication).kind /\ event.tags = Built(publication).tags
    BY DEF Event
  <2>4. entry.by = publication.by /\ entry.given = publication.given /\ entry.event = event
    OBVIOUS
  <2>. HIDE DEF entry, event
  <2>5. IsReadBack(entry)
    BY <2>2, <2>3, <2>4, BuiltReadBack
  <2>. QED BY <2>2, <2>5
<1>3. CASE path = <<>> /\ ~Publish
  <2>1. PICK by \in {"opening", "message", "privateReaction"} : Adds(by)
    <3>1. Open \/ \E room \in Rooms : SendPrivately(room)
      BY <1>3 DEF Next, OnPublicEvent, Annotates
    <3>2. Open => Adds("opening")
      BY Zenon DEF Open, Adds
    <3>3. \A room : SendPrivately(room) => Adds("message") \/ Adds("privateReaction")
      BY Zenon DEF SendPrivately, Adds
    <3>. QED BY <3>1, <3>2, <3>3
  <2>2. PICK given, author, genuine, template : Add(by, given, author, genuine, template)
    BY <2>1 DEF Adds
  <2>. DEFINE entry == [by |-> by, given |-> given, event |-> Event(author, genuine, template)]
  <2>3. path' = Append(path, entry) /\ entry.by = by
    BY <2>2, Added
  <2>. HIDE DEF entry
  <2>4. entry.by \notin {"note", "longform", "draftWrap", "appSettings", "file", "imeta"}
    BY <2>1, <2>3
  <2>5. IsReadBack(entry)
    BY <2>4 DEF IsReadBack
  <2>. QED BY <2>3, <2>5
<1>. QED BY <1>1, <1>2, <1>3

(* Whatever is published on its own, an article, a file, a draft, settings *)
(* or a note, is read back by its readers as its builder was given it, for *)
(* any metadata, topics and mentions (buildLongform, buildDraftWrap,       *)
(* buildAppSettings, buildFileMetadataEvent, buildImetaTag, buildTextNote).*)
THEOREM PublicationsAreReadBack == Spec => []ReadBackAsMeant
<1>1. Init => ReadBackAsMeant
  BY DEF Init, ReadBackAsMeant
<1>2. IInv /\ ReadBackAsMeant /\ [Next]_vars => ReadBackAsMeant'
  <2>1. ASSUME IInv, ReadBackAsMeant, Next PROVE ReadBackAsMeant'
    <3>1. PICK entry : path' = Append(path, entry) /\ (path = <<>> => IsReadBack(entry))
      BY <2>1, FirstIsReadBack
    <3>. DEFINE T == ToSet(path) \cup {entry}
    <3>2. path \in Seq(T) /\ entry \in T
      <4>1. path \in Seq(ToSet(path))
        BY <2>1 DEF IInv, IsSequence
      <4>. QED BY <4>1
    <3>. HIDE DEF T
    <3>3. path'[1] = IF path = <<>> THEN entry ELSE path[1]
      BY <3>1, <3>2
    <3>4. IsReadBack(path'[1])
      BY <2>1, <3>1, <3>3 DEF ReadBackAsMeant
    <3>. QED BY <3>4 DEF ReadBackAsMeant
  <2>2. ReadBackAsMeant /\ UNCHANGED vars => ReadBackAsMeant'
    BY DEF vars, ReadBackAsMeant
  <2>. QED BY <2>1, <2>2
<1>. QED BY <1>1, <1>2, AnnotationsInductive, PTL DEF Spec

-----------------------------------------------------------------------------
(* A function from sets of texts to what their amounts come to.            *)
Sums(f, S) ==
  f[{}] = 0 /\ \A s \in SUBSET S : s # {} => \E x \in s : f[s] = x.amount + f[s \ {x}]

LEMMA SubsetSizes ==
  ASSUME NEW S, IsFiniteSet(S)
  PROVE  /\ Cardinality(S) \in Nat
         /\ \A s \in SUBSET S : Cardinality(s) \in Nat /\ Cardinality(s) <= Cardinality(S)
         /\ \A s \in SUBSET S : Cardinality(s) = 0 <=> s = {}
         /\ \A s \in SUBSET S : \A x \in s : Cardinality(s \ {x}) = Cardinality(s) - 1
<1>1. Cardinality(S) \in Nat
  BY FS_CardinalityType
<1>2. \A s \in SUBSET S : IsFiniteSet(s) /\ Cardinality(s) \in Nat /\ Cardinality(s) <= Cardinality(S)
  BY FS_Subset, FS_CardinalityType
<1>3. \A s \in SUBSET S : Cardinality(s) = 0 <=> s = {}
  BY <1>2, FS_EmptySet
<1>4. \A s \in SUBSET S : \A x \in s : Cardinality(s \ {x}) = Cardinality(s) - 1
  BY <1>2, FS_RemoveElement
<1>. QED BY <1>1, <1>2, <1>3, <1>4

LEMMA SumExists ==
  ASSUME NEW S, IsFiniteSet(S)
  PROVE  \E f : SumOf(S) = f[S] /\ Sums(f, S)
<1>. DEFINE Of(s)        == CHOOSE x \in s : TRUE
            Step(f, s)   == IF s = {} THEN 0 ELSE Of(s).amount + f[s \ {Of(s)}]
            Small(n)     == {s \in SUBSET S : Cardinality(s) <= n}
            IsUpTo(f, n) == f = [s \in Small(n) |-> Step(f, s)]
            Good         == {n \in 0..Cardinality(S) : \E f : IsUpTo(f, n)}
            all          == CHOOSE f : f = [s \in SUBSET S |-> Step(f, s)]
<1>1. /\ Cardinality(S) \in Nat
      /\ \A s \in SUBSET S : Cardinality(s) \in Nat /\ Cardinality(s) <= Cardinality(S)
      /\ \A s \in SUBSET S : Cardinality(s) = 0 <=> s = {}
      /\ \A s \in SUBSET S : \A x \in s : Cardinality(s \ {x}) = Cardinality(s) - 1
  BY SubsetSizes
<1>2. \A s \in SUBSET S : s # {} => Of(s) \in s
  OBVIOUS
<1>3. 0 \in Good
  <2>. DEFINE f == [s \in Small(0) |-> 0]
  <2>1. \A s \in Small(0) : s = {}
    BY <1>1
  <2>2. \A s \in Small(0) : Step(f, s) = 0
    BY <2>1
  <2>3. IsUpTo(f, 0)
    <3>. HIDE DEF Step, Small
    <3>. QED BY <2>2
  <2>. HIDE DEF IsUpTo, f
  <2>. QED BY <1>1, <2>3
<1>4. ASSUME NEW n \in 1..Cardinality(S), n - 1 \in Good PROVE n \in Good
  <2>1. PICK f : IsUpTo(f, n - 1)
    <3>. HIDE DEF IsUpTo
    <3>. QED BY <1>4
  <2>. DEFINE g == [s \in Small(n) |-> IF s \in Small(n - 1) THEN f[s] ELSE Step(f, s)]
  <2>2. n \in Nat /\ Small(n - 1) \subseteq Small(n)
    BY <1>1
  <2>3. \A s \in Small(n) : s # {} => s \ {Of(s)} \in Small(n - 1)
    BY <1>1, <1>2, <2>2
  <2>. HIDE DEF Small
  <2>4. \A s \in Small(n - 1) : g[s] = f[s] /\ f[s] = Step(f, s)
    <3>1. \A s \in Small(n - 1) : f[s] = Step(f, s)
      <4>. HIDE DEF Step
      <4>. QED BY <2>1
    <3>2. \A s \in Small(n - 1) : g[s] = f[s]
      <4>. HIDE DEF Step
      <4>. QED BY <2>2
    <3>. HIDE DEF Step, g
    <3>. QED BY <3>1, <3>2
  <2>5. \A s \in Small(n) : g[s] = Step(f, s)
    <3>1. \A s \in Small(n) : g[s] = IF s \in Small(n - 1) THEN f[s] ELSE Step(f, s)
      OBVIOUS
    <3>. HIDE DEF Step, g
    <3>. QED BY <2>4, <3>1
  <2>6. \A s \in Small(n) : Step(g, s) = Step(f, s)
    <3>. HIDE DEF g, Of
    <3>. QED BY <2>3, <2>4
  <2>7. IsUpTo(g, n)
    <3>1. \A s \in Small(n) : g[s] = Step(g, s)
      <4>. HIDE DEF g, Step
      <4>. QED BY <2>5, <2>6
    <3>2. g = [s \in Small(n) |-> g[s]]
      OBVIOUS
    <3>. HIDE DEF g, Step
    <3>. QED BY <3>1, <3>2
  <2>. HIDE DEF g, IsUpTo
  <2>. QED BY <1>1, <2>7
<1>5. all = [s \in SUBSET S |-> Step(all, s)]
  <2>1. Cardinality(S) \in Good
    <3>. HIDE DEF Good
    <3>1. 0..Cardinality(S) \subseteq Good
      BY <1>1, <1>3, <1>4, AllIndices, Zenon
    <3>. QED BY <1>1, <3>1
  <2>2. Small(Cardinality(S)) = SUBSET S
    BY <1>1
  <2>3. PICK f : IsUpTo(f, Cardinality(S))
    <3>. HIDE DEF IsUpTo
    <3>. QED BY <2>1
  <2>. HIDE DEF Step, Small
  <2>. QED BY <2>2, <2>3
<1>6. SumOf(S) = all[S]
  BY DEF SumOf, FoldSet, MapThenFoldSet
<1>. HIDE DEF all
<1>7. \A s \in SUBSET S : all[s] = Step(all, s)
  <2>. HIDE DEF Step
  <2>. QED BY <1>5
<1>8. Sums(all, S)
  BY <1>2, <1>7 DEF Sums
<1>. QED BY <1>6, <1>8

(* The sum is the same in any order.                                       *)
LEMMA SumsAnyOrder ==
  ASSUME NEW S, IsFiniteSet(S), \A p \in S : p.amount \in Nat, NEW f, Sums(f, S)
  PROVE  \A s \in SUBSET S : f[s] \in Nat /\ \A x \in s : f[s] = x.amount + f[s \ {x}]
<1>. DEFINE Fine(s) == f[s] \in Nat /\ \A x \in s : f[s] = x.amount + f[s \ {x}]
            Done    == {n \in 0..Cardinality(S) : \A s \in SUBSET S : Cardinality(s) <= n => Fine(s)}
<1>1. /\ Cardinality(S) \in Nat
      /\ \A s \in SUBSET S : Cardinality(s) \in Nat /\ Cardinality(s) <= Cardinality(S)
      /\ \A s \in SUBSET S : Cardinality(s) = 0 <=> s = {}
      /\ \A s \in SUBSET S : \A x \in s : Cardinality(s \ {x}) = Cardinality(s) - 1
  BY SubsetSizes
<1>2. 0 \in Done
  <2>1. Fine({})
    BY DEF Sums
  <2>2. \A s \in SUBSET S : Cardinality(s) <= 0 => s = {}
    BY <1>1
  <2>. HIDE DEF Fine
  <2>. QED BY <1>1, <2>1, <2>2
<1>3. ASSUME NEW n \in 1..Cardinality(S), n - 1 \in Done PROVE n \in Done
  <2>1. \A s \in SUBSET S : Cardinality(s) <= n - 1 => Fine(s)
    <3>. HIDE DEF Fine
    <3>. QED BY <1>3
  <2>2. ASSUME NEW s \in SUBSET S, Cardinality(s) <= n, s # {} PROVE Fine(s)
    <3>1. PICK c \in s : f[s] = c.amount + f[s \ {c}]
      BY <2>2 DEF Sums
    <3>2. \A x \in s : Fine(s \ {x})
      <4>1. \A x \in s : s \ {x} \in SUBSET S /\ Cardinality(s \ {x}) <= n - 1
        BY <1>1, <2>2
      <4>. HIDE DEF Fine
      <4>. QED BY <2>1, <4>1
    <3>3. c.amount \in Nat /\ f[s \ {c}] \in Nat
      BY <3>1, <3>2
    <3>4. ASSUME NEW x \in s, x # c PROVE f[s] = x.amount + f[s \ {x}]
      <4>. DEFINE rest == s \ {x, c}
      <4>1. /\ x \in s \ {c} /\ (s \ {c}) \ {x} = rest
            /\ c \in s \ {x} /\ (s \ {x}) \ {c} = rest
        BY <3>1, <3>4
      <4>2. f[s \ {c}] = x.amount + f[rest]
        BY <3>1, <3>2, <4>1
      <4>3. f[s \ {x}] = c.amount + f[rest]
        BY <3>2, <4>1
      <4>4. /\ x.amount \in Nat /\ f[(s \ {c}) \ {x}] \in Nat
        <5>1. \A y \in s \ {c} : f[(s \ {c}) \ {y}] \in Nat
          <6>1. ASSUME NEW y \in s \ {c} PROVE Fine((s \ {c}) \ {y})
            <7>1. /\ s \ {c} \in SUBSET S /\ Cardinality(s \ {c}) <= n - 1 /\ n \in Nat
              BY <1>1, <2>2, <3>1
            <7>2. /\ (s \ {c}) \ {y} \in SUBSET S /\ Cardinality((s \ {c}) \ {y}) = Cardinality(s \ {c}) - 1
                  /\ Cardinality(s \ {c}) \in Nat
              BY <1>1, <7>1
            <7>3. Cardinality((s \ {c}) \ {y}) <= n - 1
              BY <7>1, <7>2
            <7>. HIDE DEF Fine
            <7>. QED BY <2>1, <7>2, <7>3
          <6>. QED BY <6>1
        <5>. QED BY <4>1, <5>1
      <4>5. f[rest] \in Nat
        BY <4>1, <4>4
      <4>. HIDE DEF rest
      <4>6. f[s] = c.amount + (x.amount + f[rest])
        BY <3>1, <4>2
      <4>7. x.amount + f[s \ {x}] = x.amount + (c.amount + f[rest])
        BY <4>3
      <4>. QED BY <3>3, <4>4, <4>5, <4>6, <4>7
    <3>5. \A x \in s : f[s] = x.amount + f[s \ {x}]
      BY <3>1, <3>4
    <3>6. f[s] \in Nat
      BY <3>1, <3>3
    <3>. QED BY <3>5, <3>6
  <2>3. Fine({})
    BY DEF Sums
  <2>. HIDE DEF Fine
  <2>4. \A s \in SUBSET S : Cardinality(s) <= n => Fine(s)
    BY <2>2, <2>3
  <2>. QED BY <1>1, <2>4
<1>4. Cardinality(S) \in Done
  <2>. HIDE DEF Done
  <2>1. 0..Cardinality(S) \subseteq Done
    BY <1>1, <1>2, <1>3, AllIndices, Zenon
  <2>. QED BY <1>1, <2>1
<1>. HIDE DEF Fine
<1>5. \A s \in SUBSET S : Fine(s)
  BY <1>1, <1>4
<1>. QED BY <1>5 DEF Fine

-----------------------------------------------------------------------------
(* No element comes twice.                                                 *)
IsOnce(s) == \A i, j \in DOMAIN s : s[i] = s[j] => i = j

LEMMA OnceAppended ==
  ASSUME NEW T, NEW s \in Seq(T), NEW x \in T
  PROVE  IsOnce(Append(s, x)) <=> IsOnce(s) /\ x \notin ToSet(s)
<1>. DEFINE t == Append(s, x)
            n == Len(s)
<1>1. /\ n \in Nat /\ DOMAIN s = 1..n /\ DOMAIN t = 1..(n + 1)
      /\ \A i \in 1..n : t[i] = s[i]
      /\ t[n + 1] = x
  OBVIOUS
<1>2. ToSet(s) = {s[i] : i \in 1..n}
  BY TypedSequence
<1>. HIDE DEF t, n
<1>3. ASSUME IsOnce(t) PROVE IsOnce(s) /\ x \notin ToSet(s)
  <2>1. \A i \in 1..n : i \in 1..(n + 1) /\ i # n + 1
    BY <1>1
  <2>2. n + 1 \in 1..(n + 1)
    BY <1>1
  <2>. QED BY <1>1, <1>2, <1>3, <2>1, <2>2 DEF IsOnce
<1>4. ASSUME IsOnce(s), x \notin ToSet(s) PROVE IsOnce(t)
  <2>1. \A i \in 1..(n + 1) : i \in 1..n \/ i = n + 1
    BY <1>1
  <2>. QED BY <1>1, <1>2, <1>4, <2>1 DEF IsOnce
<1>. QED BY <1>3, <1>4 DEF t

LEMMA AmongOnce ==
  ASSUME NEW T, NEW s \in Seq(T), NEW S, IsOnce(s)
  PROVE  IsOnce(Among(s, S))
<1>. DEFINE Done == {p \in Seq(T) : IsOnce(p) => IsOnce(Among(p, S))}
<1>1. <<>> \in Done
  BY AmongEmpty DEF IsOnce
<1>2. ASSUME NEW p \in Seq(T), NEW x \in T, p \in Done PROVE Append(p, x) \in Done
  <2>. SUFFICES ASSUME IsOnce(Append(p, x)) PROVE IsOnce(Among(Append(p, x), S))
    BY AppendProperties
  <2>1. IsOnce(p) /\ x \notin ToSet(p)
    BY OnceAppended
  <2>2. IsOnce(Among(p, S))
    BY <1>2, <2>1
  <2>3. Among(p, S) \in Seq(T) /\ ToSet(Among(p, S)) = {y \in ToSet(p) : y \in S}
    BY AmongSelects
  <2>4. Among(Append(p, x), S) = IF x \in S THEN Append(Among(p, S), x) ELSE Among(p, S)
    BY AmongAppend
  <2>5. IsOnce(Append(Among(p, S), x))
    BY <2>1, <2>2, <2>3, OnceAppended
  <2>. QED BY <2>2, <2>4, <2>5
<1>. HIDE DEF Done
<1>3. s \in Done
  BY <1>1, <1>2, EverySequence
<1>. QED BY <1>3 DEF Done

(* What is distinct has each value, and once.                              *)
LEMMA DistinctExists ==
  ASSUME NEW T, NEW s \in Seq(T)
  PROVE  \E f : /\ Distinct(s) = f[Len(s)] /\ f[0] = <<>>
                /\ \A i \in 1..Len(s) : f[i] = IF s[i] \in ToSet(f[i - 1]) THEN f[i - 1] ELSE Append(f[i - 1], s[i])
<1>. DEFINE Step(f, i)   == IF i = 0 THEN <<>>
                            ELSE IF s[i] \in ToSet(f[i - 1]) THEN f[i - 1] ELSE Append(f[i - 1], s[i])
            IsUpTo(f, n) == f = [i \in 0..n |-> Step(f, i)]
            upTo         == CHOOSE f : IsUpTo(f, Len(s))
            Good         == {n \in 0..Len(s) : \E f : IsUpTo(f, n)}
<1>1. Len(s) \in Nat /\ DOMAIN s = 1..Len(s) /\ \A i \in 1..Len(s) : s[i] \in T
  OBVIOUS
<1>2. 0 \in Good
  <2>. DEFINE f == [i \in 0..0 |-> <<>>]
  <2>1. IsUpTo(f, 0)
    OBVIOUS
  <2>. HIDE DEF IsUpTo, f
  <2>. QED BY <1>1, <2>1
<1>3. ASSUME NEW n \in 1..Len(s), n - 1 \in Good PROVE n \in Good
  <2>1. PICK f : IsUpTo(f, n - 1)
    <3>. HIDE DEF IsUpTo
    <3>. QED BY <1>3
  <2>. DEFINE g == [i \in 0..n |-> IF i < n THEN f[i] ELSE Step(f, n)]
  <2>2. n \in Nat /\ \A i \in 0..(n - 1) : g[i] = f[i] /\ f[i] = Step(f, i)
    <3>1. n \in Nat
      BY <1>1
    <3>2. \A i \in 0..(n - 1) : g[i] = f[i]
      BY <3>1
    <3>3. \A i \in 0..(n - 1) : f[i] = Step(f, i)
      <4>. HIDE DEF Step
      <4>. QED BY <2>1
    <3>. QED BY <3>1, <3>2, <3>3
  <2>3. \A i \in 0..n : g[i] = Step(f, i)
    <3>1. g[n] = Step(f, n)
      <4>. HIDE DEF Step
      <4>. QED BY <2>2
    <3>2. \A i \in 0..n : i = n \/ i \in 0..(n - 1)
      BY <2>2
    <3>. HIDE DEF Step, g
    <3>. QED BY <2>2, <3>1, <3>2
  <2>4. \A i \in 0..n : Step(g, i) = Step(f, i)
    BY <1>1, <2>2
  <2>5. IsUpTo(g, n)
    BY <2>3, <2>4
  <2>. HIDE DEF g, IsUpTo
  <2>. QED BY <1>1, <2>5
<1>4. IsUpTo(upTo, Len(s))
  <2>1. Len(s) \in Good
    <3>. HIDE DEF Good
    <3>1. 0..Len(s) \subseteq Good
      BY <1>1, <1>2, <1>3, AllIndices, Zenon
    <3>. QED BY <1>1, <3>1
  <2>. HIDE DEF IsUpTo
  <2>. QED BY <2>1
<1>5. Distinct(s) = upTo[Len(s)]
  BY DEF Distinct
<1>. HIDE DEF upTo
<1>6. \A i \in 0..Len(s) : upTo[i] = Step(upTo, i)
  BY <1>4
<1>7. /\ upTo[0] = <<>>
      /\ \A i \in 1..Len(s) :
           upTo[i] = IF s[i] \in ToSet(upTo[i - 1]) THEN upTo[i - 1] ELSE Append(upTo[i - 1], s[i])
  BY <1>1, <1>6
<1>. QED BY <1>5, <1>7

LEMMA DistinctOnce ==
  ASSUME NEW T, NEW s \in Seq(T)
  PROVE  /\ Distinct(s) \in Seq(T) /\ ToSet(Distinct(s)) = ToSet(s)
         /\ IsOnce(Distinct(s))
<1>1. PICK f : /\ Distinct(s) = f[Len(s)] /\ f[0] = <<>>
               /\ \A i \in 1..Len(s) : f[i] = IF s[i] \in ToSet(f[i - 1]) THEN f[i - 1] ELSE Append(f[i - 1], s[i])
  BY DistinctExists
<1>2. /\ Len(s) \in Nat /\ ToSet(s) = {s[i] : i \in 1..Len(s)} /\ \A i \in 1..Len(s) : s[i] \in T
  BY TypedSequence
<1>. DEFINE Fine(n) == f[n] \in Seq(T) /\ ToSet(f[n]) = {s[i] : i \in 1..n} /\ IsOnce(f[n])
            Done    == {n \in 0..Len(s) : Fine(n)}
<1>3. 0 \in Done
  <2>1. <<>> \in Seq(T) /\ IsOnce(<<>>) /\ {s[i] : i \in 1..0} = {}
    BY DEF IsOnce
  <2>2. ToSet(<<>>) = {}
    BY NoTags
  <2>3. Fine(0)
    BY <1>1, <2>1, <2>2
  <2>. HIDE DEF Fine
  <2>. QED BY <1>2, <2>3
<1>4. ASSUME NEW n \in 1..Len(s), n - 1 \in Done PROVE n \in Done
  <2>1. f[n - 1] \in Seq(T) /\ ToSet(f[n - 1]) = {s[i] : i \in 1..(n - 1)} /\ IsOnce(f[n - 1])
    BY <1>4
  <2>2. s[n] \in T /\ n \in 0..Len(s)
    BY <1>2
  <2>3. {s[i] : i \in 1..n} = {s[i] : i \in 1..(n - 1)} \cup {s[n]}
    <3>1. \A i : i \in 1..n <=> i \in 1..(n - 1) \/ i = n
      BY <1>2
    <3>. QED BY <3>1
  <2>4. CASE s[n] \in ToSet(f[n - 1])
    <3>1. f[n] = f[n - 1]
      BY <1>1, <2>4
    <3>. QED BY <2>1, <2>2, <2>3, <2>4, <3>1
  <2>5. CASE s[n] \notin ToSet(f[n - 1])
    <3>1. f[n] = Append(f[n - 1], s[n])
      BY <1>1, <2>5
    <3>2. ToSet(f[n]) = ToSet(f[n - 1]) \cup {s[n]}
      BY <2>1, <2>2, <3>1, AppendSet
    <3>3. IsOnce(f[n]) /\ f[n] \in Seq(T)
      BY <2>1, <2>2, <2>5, <3>1, OnceAppended, AppendProperties
    <3>. QED BY <2>1, <2>2, <2>3, <3>2, <3>3
  <2>. QED BY <2>4, <2>5
<1>5. Len(s) \in Done
  <2>. HIDE DEF Done
  <2>1. 0..Len(s) \subseteq Done
    BY <1>2, <1>3, <1>4, AllIndices, Zenon
  <2>. QED BY <1>2, <2>1
<1>. QED BY <1>1, <1>2, <1>5

-----------------------------------------------------------------------------
(* A sum of amounts, Null once it would leave the safe integers.           *)
LEMMA SafeSumExists ==
  ASSUME NEW T, NEW s \in Seq(T)
  PROVE  \E f : /\ SumWithinTheSafeIntegerRange(s) = f[Len(s)] /\ f[0] = 0
                /\ \A i \in 1..Len(s) : f[i] = IF f[i - 1] = Null THEN Null
                                               ELSE IF s[i] > MaxSafe - f[i - 1] THEN Null ELSE f[i - 1] + s[i]
<1>. DEFINE Step(f, i)   == IF i = 0 THEN 0
                            ELSE IF f[i - 1] = Null THEN Null
                            ELSE IF s[i] > MaxSafe - f[i - 1] THEN Null ELSE f[i - 1] + s[i]
            IsUpTo(f, n) == f = [i \in 0..n |-> Step(f, i)]
            upTo         == CHOOSE f : IsUpTo(f, Len(s))
            Good         == {n \in 0..Len(s) : \E f : IsUpTo(f, n)}
<1>1. Len(s) \in Nat /\ DOMAIN s = 1..Len(s) /\ \A i \in 1..Len(s) : s[i] \in T
  OBVIOUS
<1>2. 0 \in Good
  <2>. DEFINE f == [i \in 0..0 |-> 0]
  <2>1. IsUpTo(f, 0)
    OBVIOUS
  <2>. HIDE DEF IsUpTo, f
  <2>. QED BY <1>1, <2>1
<1>3. ASSUME NEW n \in 1..Len(s), n - 1 \in Good PROVE n \in Good
  <2>1. PICK f : IsUpTo(f, n - 1)
    <3>. HIDE DEF IsUpTo
    <3>. QED BY <1>3
  <2>. DEFINE g == [i \in 0..n |-> IF i < n THEN f[i] ELSE Step(f, n)]
  <2>2. n \in Nat /\ \A i \in 0..(n - 1) : g[i] = f[i] /\ f[i] = Step(f, i)
    <3>1. n \in Nat
      BY <1>1
    <3>2. \A i \in 0..(n - 1) : g[i] = f[i]
      BY <3>1
    <3>3. \A i \in 0..(n - 1) : f[i] = Step(f, i)
      <4>. HIDE DEF Step
      <4>. QED BY <2>1
    <3>. QED BY <3>1, <3>2, <3>3
  <2>3. \A i \in 0..n : g[i] = Step(f, i)
    <3>1. g[n] = Step(f, n)
      <4>. HIDE DEF Step
      <4>. QED BY <2>2
    <3>2. \A i \in 0..n : i = n \/ i \in 0..(n - 1)
      BY <2>2
    <3>. HIDE DEF Step, g
    <3>. QED BY <2>2, <3>1, <3>2
  <2>4. \A i \in 0..n : Step(g, i) = Step(f, i)
    BY <1>1, <2>2
  <2>5. IsUpTo(g, n)
    BY <2>3, <2>4
  <2>. HIDE DEF g, IsUpTo
  <2>. QED BY <1>1, <2>5
<1>4. IsUpTo(upTo, Len(s))
  <2>1. Len(s) \in Good
    <3>. HIDE DEF Good
    <3>1. 0..Len(s) \subseteq Good
      BY <1>1, <1>2, <1>3, AllIndices, Zenon
    <3>. QED BY <1>1, <3>1
  <2>. HIDE DEF IsUpTo
  <2>. QED BY <2>1
<1>5. SumWithinTheSafeIntegerRange(s) = upTo[Len(s)]
  BY DEF SumWithinTheSafeIntegerRange
<1>. HIDE DEF upTo
<1>6. \A i \in 0..Len(s) : upTo[i] = Step(upTo, i)
  BY <1>4
<1>7. /\ upTo[0] = 0
      /\ \A i \in 1..Len(s) :
           upTo[i] = IF upTo[i - 1] = Null THEN Null
                     ELSE IF s[i] > MaxSafe - upTo[i - 1] THEN Null ELSE upTo[i - 1] + s[i]
  BY <1>1, <1>6
<1>. QED BY <1>5, <1>7

LEMMA SafeSum ==
  ASSUME NEW T, NEW e \in Seq(T), IsOnce(e), \A proof \in ToSet(e) : proof.amount \in Nat
  PROVE  LET total == SumOf(ToSet(e)) IN
         /\ total \in Nat
         /\ SumWithinTheSafeIntegerRange([i \in DOMAIN e |-> e[i].amount]) = IF total <= MaxSafe THEN total ELSE Null
<1>. DEFINE S       == ToSet(e)
            n       == Len(e)
            amounts == [i \in DOMAIN e |-> e[i].amount]
            Upto(i) == {e[j] : j \in 1..i}
<1>1. n \in Nat /\ DOMAIN e = 1..n /\ S = Upto(n) /\ MaxSafe \in Nat /\ Null \notin Nat
  BY TypedSequence, MaxSafeAssumption, AmountsAssumption
<1>2. IsFiniteSet(S)
  <2>1. IsFiniteSet(1..n)
    BY <1>1, FS_Interval
  <2>2. [j \in 1..n |-> e[j]] \in Surjection(1..n, S)
    BY <1>1 DEF Surjection
  <2>. QED BY <2>1, <2>2, FS_Surjection DEF ExistsSurjection
<1>3. PICK f : SumOf(S) = f[S] /\ Sums(f, S)
  BY <1>2, SumExists
<1>4. \A s \in SUBSET S : f[s] \in Nat /\ \A x \in s : f[s] = x.amount + f[s \ {x}]
  <2>. HIDE DEF S
  <2>1. \A p \in S : p.amount \in Nat
    BY DEF S
  <2>. QED BY <1>2, <1>3, <2>1, SumsAnyOrder
<1>5. amounts \in Seq(Nat) /\ Len(amounts) = n /\ \A i \in 1..n : amounts[i] = e[i].amount
  <2>1. \A i \in 1..n : e[i] \in S
    BY <1>1
  <2>2. \A i \in 1..n : e[i].amount \in Nat
    BY <2>1
  <2>3. amounts \in [1..n -> Nat]
    BY <1>1, <2>2
  <2>. QED BY <1>1, <2>3, SeqDef
<1>. HIDE DEF amounts
<1>6. PICK g : /\ SumWithinTheSafeIntegerRange(amounts) = g[n] /\ g[0] = 0
               /\ \A i \in 1..n : g[i] = IF g[i - 1] = Null THEN Null
                                         ELSE IF amounts[i] > MaxSafe - g[i - 1] THEN Null ELSE g[i - 1] + amounts[i]
  BY <1>5, SafeSumExists
<1>. DEFINE Fine(i) == g[i] = IF f[Upto(i)] <= MaxSafe THEN f[Upto(i)] ELSE Null
            Done    == {i \in 0..n : Fine(i)}
<1>7. 0 \in Done
  <2>1. Upto(0) = {}
    OBVIOUS
  <2>2. f[{}] = 0
    BY <1>3 DEF Sums
  <2>3. f[Upto(0)] = 0
    BY <2>1, <2>2, Zenon
  <2>4. Fine(0)
    <3>. HIDE DEF Upto
    <3>. QED BY <1>1, <1>6, <2>3
  <2>. HIDE DEF Fine
  <2>. QED BY <1>1, <2>4
<1>8. ASSUME NEW i \in 1..n, i - 1 \in Done PROVE i \in Done
  <2>1. \A j : j \in 1..i <=> j \in 1..(i - 1) \/ j = i
    BY <1>1
  <2>2. e[i] \notin Upto(i - 1)
    BY <1>1 DEF IsOnce
  <2>3. e[i] \in Upto(i) /\ Upto(i) \ {e[i]} = Upto(i - 1)
    BY <2>1, <2>2
  <2>4. Upto(i) \in SUBSET S /\ Upto(i - 1) \in SUBSET S
    BY <1>1
  <2>. HIDE DEF Upto, S
  <2>5. /\ f[Upto(i)] = e[i].amount + f[Upto(i - 1)]
        /\ f[Upto(i)] \in Nat /\ f[Upto(i - 1)] \in Nat
    BY <1>4, <2>3, <2>4
  <2>6. e[i].amount \in Nat /\ amounts[i] = e[i].amount
    BY <1>1, <1>5, <2>3, <2>4 DEF S
  <2>7. g[i - 1] = IF f[Upto(i - 1)] <= MaxSafe THEN f[Upto(i - 1)] ELSE Null
    BY <1>8
  <2>8. CASE f[Upto(i - 1)] <= MaxSafe
    <3>1. g[i - 1] = f[Upto(i - 1)] /\ g[i - 1] # Null
      BY <1>1, <2>5, <2>7, <2>8
    <3>2. g[i] = IF amounts[i] > MaxSafe - g[i - 1] THEN Null ELSE g[i - 1] + amounts[i]
      BY <1>6, <3>1
    <3>3. Fine(i)
      BY <1>1, <2>5, <2>6, <3>1, <3>2
    <3>. HIDE DEF Fine
    <3>. QED BY <1>1, <3>3
  <2>9. CASE ~(f[Upto(i - 1)] <= MaxSafe)
    <3>1. g[i - 1] = Null
      BY <2>7, <2>9
    <3>2. g[i] = Null
      BY <1>6, <3>1
    <3>3. Fine(i)
      BY <1>1, <2>5, <2>6, <2>9, <3>2
    <3>. HIDE DEF Fine
    <3>. QED BY <1>1, <3>3
  <2>. QED BY <2>8, <2>9
<1>9. n \in Done
  <2>. HIDE DEF Done
  <2>1. 0..n \subseteq Done
    BY <1>1, <1>7, <1>8, AllIndices, Zenon
  <2>. QED BY <1>1, <2>1
<1>10. g[n] = IF f[S] <= MaxSafe THEN f[S] ELSE Null
  BY <1>1, <1>9
<1>11. f[S] \in Nat
  BY <1>4
<1>. QED BY <1>3, <1>6, <1>10, <1>11 DEF S, amounts

-----------------------------------------------------------------------------
(* The first of a set of indices.                                          *)
LEMMA LeastIndex ==
  ASSUME NEW n \in Nat, NEW S \in SUBSET (1..n), S # {}
  PROVE  Min(S) \in S /\ \A y \in S : Min(S) <= y
<1>. DEFINE Below == {i \in 0..n : \A y \in S : i <= y}
<1>1. \E x \in S : \A y \in S : x <= y
  <2>. SUFFICES ASSUME \A x \in S : \E y \in S : ~(x <= y) PROVE FALSE
    OBVIOUS
  <2>1. 0 \in Below
    OBVIOUS
  <2>2. ASSUME NEW i \in 1..n, i - 1 \in Below PROVE i \in Below
    <3>1. i - 1 \notin S
      BY <2>2
    <3>2. \A y \in S : y \in Int /\ i - 1 <= y /\ y # i - 1
      BY <2>2, <3>1
    <3>3. \A y \in S : i <= y
      BY <3>2
    <3>. QED BY <3>3
  <2>3. n \in Below
    <3>. HIDE DEF Below
    <3>1. 0..n \subseteq Below
      BY <2>1, <2>2, AllIndices
    <3>. QED BY <3>1
  <2>4. \A y \in S : y \in 1..n /\ n <= y
    BY <2>3
  <2>5. \A y, z \in S : y <= z
    BY <2>4
  <2>. QED BY <2>5
<1>. QED BY <1>1 DEF Min

(* The keyset of a proof is the first with its id.                         *)
IsFirstKeyset(j, id) == Keysets[j].id = id /\ \A k \in 1..(j - 1) : Keysets[k].id # id

LEMMA KeysetFound ==
  ASSUME NEW proof
  PROVE  /\ KeysetOf(proof, Keysets) # Null =>
              \E j \in DOMAIN Keysets : KeysetOf(proof, Keysets) = Keysets[j] /\ IsFirstKeyset(j, proof.keysetId)
         /\ \A j \in DOMAIN Keysets :
              IsFirstKeyset(j, proof.keysetId) => Keysets[j] # Null /\ KeysetOf(proof, Keysets) = Keysets[j]
<1>. DEFINE n     == Len(Keysets)
            named == {i \in DOMAIN Keysets : Keysets[i].id = proof.keysetId}
<1>1. /\ n \in Nat /\ DOMAIN Keysets = 1..n
      /\ \A i \in 1..n : Keysets[i] # Null
  BY KeysetsAssumption, TypedSequence DEF IsSequence
<1>2. KeysetOf(proof, Keysets) = IF named = {} THEN Null ELSE Keysets[Min(named)]
  BY DEF KeysetOf
<1>3. named # {} => Min(named) \in named /\ \A y \in named : Min(named) <= y
  BY <1>1, LeastIndex
<1>4. ASSUME KeysetOf(proof, Keysets) # Null
      PROVE  \E j \in DOMAIN Keysets : KeysetOf(proof, Keysets) = Keysets[j] /\ IsFirstKeyset(j, proof.keysetId)
  <2>1. named # {}
    BY <1>2, <1>4
  <2>. DEFINE m == Min(named)
  <2>2. m \in named /\ \A y \in named : m <= y
    BY <1>3, <2>1
  <2>. HIDE DEF m
  <2>3. m \in DOMAIN Keysets /\ Keysets[m].id = proof.keysetId
    BY <2>2
  <2>4. ASSUME NEW k \in 1..(m - 1) PROVE Keysets[k].id # proof.keysetId
    <3>1. k \in DOMAIN Keysets /\ ~(m <= k)
      BY <1>1, <2>3
    <3>. QED BY <2>2, <3>1
  <2>5. KeysetOf(proof, Keysets) = Keysets[m]
    BY <1>2, <2>1 DEF m
  <2>. QED BY <2>3, <2>4, <2>5 DEF IsFirstKeyset
<1>5. ASSUME NEW j \in DOMAIN Keysets, IsFirstKeyset(j, proof.keysetId)
      PROVE  Keysets[j] # Null /\ KeysetOf(proof, Keysets) = Keysets[j]
  <2>. DEFINE m == Min(named)
  <2>1. j \in named
    BY <1>5 DEF IsFirstKeyset
  <2>2. m \in named /\ m <= j
    BY <1>3, <2>1
  <2>3. KeysetOf(proof, Keysets) = Keysets[m]
    BY <1>2, <2>1
  <2>. HIDE DEF m
  <2>4. m = j
    <3>1. m \notin 1..(j - 1)
      BY <1>5, <2>2 DEF IsFirstKeyset
    <3>. QED BY <1>1, <1>5, <2>2, <3>1
  <2>. QED BY <1>1, <1>5, <2>3, <2>4
<1>. QED BY <1>4, <1>5

-----------------------------------------------------------------------------
(* The values of a tag, each once.                                         *)
LEMMA DistinctTagged ==
  ASSUME NEW tags, IsTags(tags), NEW name
  PROVE  LET values == DistinctValues(tags, name) IN
         /\ IsSequence(values) /\ IsOnce(values)
         /\ ToSet(values) = {tag[2] : tag \in {t \in ToSet(tags) : At(t, 1) = name /\ Len(t) > 1}}
<1>. DEFINE those  == {t \in ToSet(tags) : At(t, 1) = name /\ Len(t) > 1}
            named  == Among(tags, those)
            second == [i \in DOMAIN named |-> named[i][2]]
            T      == ToSet(second)
<1>1. IsTags(named) /\ ToSet(named) = those
  <2>1. IsTags(named) /\ ToSet(named) = {t \in ToSet(tags) : t \in those}
    <3>. HIDE DEF those
    <3>. QED BY SomeTags
  <2>. QED BY <2>1
<1>2. DistinctValues(tags, name) = Distinct(second)
  BY DEF DistinctValues
<1>. HIDE DEF named, those
<1>3. Len(named) \in Nat /\ DOMAIN named = 1..Len(named) /\ ToSet(named) = {named[i] : i \in 1..Len(named)}
  BY <1>1, TypedSequence DEF IsTags, IsSequence
<1>4. T = {tag[2] : tag \in ToSet(named)}
  BY <1>3 DEF ToSet
<1>5. second \in Seq(T)
  <2>1. second \in [1..Len(named) -> T]
    BY <1>3 DEF ToSet
  <2>. HIDE DEF second, T
  <2>. QED BY <1>3, <2>1, SeqDef
<1>. HIDE DEF second
<1>6. Distinct(second) \in Seq(T) /\ ToSet(Distinct(second)) = T /\ IsOnce(Distinct(second))
  BY <1>5, DistinctOnce
<1>7. IsSequence(Distinct(second))
  BY <1>6, TypedSequence
<1>. QED BY <1>1, <1>2, <1>4, <1>6, <1>7 DEF those

(* The proof texts among the tags of a nutzap.                             *)
ProofValues(tags) == {tag[2] : tag \in {t \in ToSet(tags) : At(t, 1) = "proof" /\ Len(t) > 1}}

LEMMA NutzapSays ==
  ASSUME NEW entry, IsSequence(entry.given), NEW unit, NEW recipient, NEW mint, IsNutzap(entry, unit, recipient, mint)
  PROVE  /\ IsTags(entry.event.tags)
         /\ Writes(ToSet(entry.event.tags), "unit", unit)
         /\ Writes(ToSet(entry.event.tags), "p", recipient)
         /\ Writes(ToSet(entry.event.tags), "u", mint)
         /\ ProofValues(entry.event.tags) = ToSet(entry.given)
<1>. DEFINE given  == [i \in DOMAIN entry.given |-> <<"proof", entry.given[i]>>]
            stated == TagOf("unit", unit)
            sent   == << <<"p", recipient>>, <<"u", mint>> >>
<1>1. IsTags(given) /\ ToSet(given) = {<<"proof", x>> : x \in ToSet(entry.given)}
  BY NamedEach
<1>2. IsTags(stated) /\ ToSet(stated) = Stated("unit", unit)
  BY PlainField DEF Stated, IsPlain
<1>3. IsTags(sent) /\ ToSet(sent) = {<<"p", recipient>>, <<"u", mint>>}
  BY Tuples, TwoTags
<1>4. entry.event.tags = (given \o stated) \o sent
  BY DEF IsNutzap
<1>. HIDE DEF given, stated, sent
<1>5. IsTags(given \o stated) /\ ToSet(given \o stated) = ToSet(given) \cup ToSet(stated)
  BY <1>1, <1>2, ConcatTags
<1>6. IsTags(entry.event.tags) /\ ToSet(entry.event.tags) = ToSet(given) \cup ToSet(stated) \cup ToSet(sent)
  BY <1>3, <1>4, <1>5, ConcatTags
<1>7. \A t \in ToSet(entry.event.tags) :
        \/ \E x \in ToSet(entry.given) : t = <<"proof", x>>
        \/ unit # Null /\ t = <<"unit", unit>>
        \/ t = <<"p", recipient>> \/ t = <<"u", mint>>
  BY <1>1, <1>2, <1>3, <1>6 DEF Stated
<1>8. /\ \A x \in ToSet(entry.given) : <<"proof", x>> \in ToSet(entry.event.tags)
      /\ unit # Null => <<"unit", unit>> \in ToSet(entry.event.tags)
      /\ <<"p", recipient>> \in ToSet(entry.event.tags) /\ <<"u", mint>> \in ToSet(entry.event.tags)
  BY <1>1, <1>2, <1>3, <1>6 DEF Stated
<1>9. Writes(ToSet(entry.event.tags), "unit", unit)
  BY <1>7, <1>8, Slots DEF Writes
<1>10. Writes(ToSet(entry.event.tags), "p", recipient)
  BY <1>7, <1>8, Slots DEF Writes
<1>11. Writes(ToSet(entry.event.tags), "u", mint)
  BY <1>7, <1>8, Slots DEF Writes
<1>12. ProofValues(entry.event.tags) = ToSet(entry.given)
  <2>1. \A t \in ToSet(entry.event.tags) : At(t, 1) = "proof" => \E x \in ToSet(entry.given) : t = <<"proof", x>>
    BY <1>7, Slots
  <2>2. \A x : <<"proof", x>>[2] = x /\ At(<<"proof", x>>, 1) = "proof" /\ Len(<<"proof", x>>) > 1
    BY Slots
  <2>3. {t \in ToSet(entry.event.tags) : At(t, 1) = "proof" /\ Len(t) > 1} = {<<"proof", x>> : x \in ToSet(entry.given)}
    BY <1>8, <2>1, <2>2
  <2>4. {tag[2] : tag \in {<<"proof", x>> : x \in ToSet(entry.given)}} = ToSet(entry.given)
    BY <2>2
  <2>. QED BY <2>3, <2>4 DEF ProofValues
<1>. QED BY <1>6, <1>9, <1>10, <1>11, <1>12

-----------------------------------------------------------------------------
(* The texts that count: they state an amount.                             *)
Stating(given) == {proof \in ToSet(given) : StatesAmount(proof)}

LEMMA AmountsStated ==
  ASSUME NEW given \in Proofs, NEW proof \in ToSet(given)
  PROVE  /\ StatesAmount(proof) <=> proof # NotJson /\ proof.amount # Null
         /\ StatesAmount(proof) => proof.amount \in Int
<1>1. proof # NotJson => proof.amount \in -MaxSafe..MaxSafe \cup {Null}
  BY ProofsAssumption
<1>2. Null \notin -MaxSafe..MaxSafe /\ -MaxSafe..MaxSafe \subseteq Int
  BY ProofsAssumption, MaxSafeAssumption
<1>. QED BY <1>1, <1>2 DEF StatesAmount

(* The proofs as ParseNutzap reads them, each text once.                   *)
Counted(tags) == Among(DistinctValues(tags, "proof"), {proof \in ToSet(DistinctValues(tags, "proof")) : StatesAmount(proof)})

ProofsRead(tags) == [i \in DOMAIN Counted(tags) |-> ParseNutzapProof(Counted(tags)[i])]

LEMMA ProofsCounted ==
  ASSUME NEW tags, IsTags(tags), NEW given, ProofValues(tags) = ToSet(given)
  PROVE  LET proofs == ProofsRead(tags)
             stated == Stating(given)
             total  == SumWithinTheSafeIntegerRange([i \in DOMAIN proofs |-> proofs[i].amount])
         IN  /\ ToSet(proofs) = {ParseNutzapProof(proof) : proof \in stated}
             /\ proofs = <<>> <=> stated = {}
             /\ (\A proof \in stated : proof.amount \in Nat) =>
                  SumOf(stated) \in Nat /\ total = IF SumOf(stated) <= MaxSafe THEN SumOf(stated) ELSE Null
<1>. DEFINE tagged == DistinctValues(tags, "proof")
            S      == {proof \in ToSet(tagged) : StatesAmount(proof)}
            e      == Counted(tags)
            proofs == ProofsRead(tags)
            stated == Stating(given)
            T      == ToSet(tagged)
<1>1. IsSequence(tagged) /\ IsOnce(tagged) /\ ToSet(tagged) = ToSet(given)
  BY DistinctTagged DEF ProofValues
<1>2. e = Among(tagged, S) /\ S = stated
  BY <1>1 DEF Counted, Stating
<1>. HIDE DEF tagged, S, e, stated
<1>3. e \in Seq(T) /\ ToSet(e) = {x \in ToSet(tagged) : x \in S} /\ IsOnce(e)
  <2>1. tagged \in Seq(T)
    BY <1>1 DEF IsSequence
  <2>. HIDE DEF T
  <2>. QED BY <1>1, <1>2, <2>1, AmongSelects, AmongOnce
<1>4. ToSet(e) = stated
  BY <1>1, <1>2, <1>3 DEF S
<1>. HIDE DEF T
<1>5. Len(e) \in Nat /\ DOMAIN e = 1..Len(e) /\ ToSet(e) = {e[i] : i \in 1..Len(e)}
  BY <1>3, TypedSequence
<1>6. proofs = [i \in DOMAIN e |-> ParseNutzapProof(e[i])]
  BY DEF ProofsRead, e
<1>. HIDE DEF proofs
<1>7. ToSet(proofs) = {ParseNutzapProof(proof) : proof \in stated}
  <2>1. ToSet(proofs) = {ParseNutzapProof(e[i]) : i \in 1..Len(e)}
    BY <1>5, <1>6 DEF ToSet
  <2>. QED BY <1>4, <1>5, <2>1
<1>8. proofs = <<>> <=> stated = {}
  <2>1. proofs = <<>> => stated = {}
    BY <1>4, <1>5, <1>6
  <2>2. stated = {} => proofs = <<>>
    <3>. SUFFICES ASSUME stated = {} PROVE proofs = <<>>
      OBVIOUS
    <3>1. 1..Len(e) = {}
      BY <1>4, <1>5
    <3>. QED BY <1>5, <1>6, <3>1
  <2>. QED BY <2>1, <2>2
<1>9. [i \in DOMAIN proofs |-> proofs[i].amount] = [i \in DOMAIN e |-> e[i].amount]
  <2>1. DOMAIN proofs = DOMAIN e
    BY <1>6
  <2>2. \A i \in DOMAIN e : proofs[i].amount = e[i].amount
    BY <1>6 DEF ParseNutzapProof
  <2>. QED BY <2>1, <2>2
<1>10. ASSUME \A proof \in stated : proof.amount \in Nat
       PROVE  LET total == SumWithinTheSafeIntegerRange([i \in DOMAIN proofs |-> proofs[i].amount])
              IN  SumOf(stated) \in Nat /\ total = IF SumOf(stated) <= MaxSafe THEN SumOf(stated) ELSE Null
  <2>1. /\ SumOf(ToSet(e)) \in Nat
        /\ SumWithinTheSafeIntegerRange([i \in DOMAIN e |-> e[i].amount])
             = IF SumOf(ToSet(e)) <= MaxSafe THEN SumOf(ToSet(e)) ELSE Null
    BY <1>3, <1>4, <1>10, SafeSum
  <2>. QED BY <1>4, <1>9, <2>1
<1>. QED BY <1>7, <1>8, <1>10 DEF proofs, stated

-----------------------------------------------------------------------------
(* The ceiling of an amount in a unit.                                     *)
LEMMA Ceiling ==
  ASSUME NEW unit, NEW total \in Nat
  PROVE  LET cashu == [amount |-> total, unit |-> unit] IN
         /\ ExceedsTheBitcoinCeiling(cashu) <=> ~(Millisats(unit, total) <= MAX_ZAP_MSATS)
         /\ unit \in {"sat", "msat"} => BitcoinAmountOf(cashu) = Millisats(unit, total) /\ BitcoinAmountOf(cashu) # Null
         /\ unit \notin {"sat", "msat"} => BitcoinAmountOf(cashu) = Null
<1>. DEFINE cashu == [amount |-> total, unit |-> unit]
<1>1. MAX_ZAP_MSATS \in Nat /\ MSATS_PER_SAT \in Nat \ {0}
  <2>1. MSATS_PER_UNIT[""] \in Nat
    BY UnitsAgree
  <2>2. Thousand \in Nat \ {0}
    BY ThousandAssumption
  <2>. QED BY <2>1, <2>2 DEF MAX_ZAP_MSATS, MSATS_PER_SAT
<1>2. /\ DOMAIN MSATS_PER_BITCOIN_UNIT = {"sat", "msat"}
      /\ MSATS_PER_BITCOIN_UNIT["sat"] = MSATS_PER_SAT /\ MSATS_PER_BITCOIN_UNIT["msat"] = 1
  BY DEF MSATS_PER_BITCOIN_UNIT
<1>3. cashu.amount = total /\ cashu.unit = unit
  OBVIOUS
<1>. HIDE DEF cashu
<1>4. CASE unit = "sat"
  <2>1. Millisats(unit, total) = total * MSATS_PER_SAT
    BY <1>4 DEF Millisats
  <2>2. ExceedsTheBitcoinCeiling(cashu) <=> total > MAX_ZAP_MSATS \div MSATS_PER_SAT
    BY <1>2, <1>3, <1>4 DEF ExceedsTheBitcoinCeiling
  <2>3. total <= MAX_ZAP_MSATS \div MSATS_PER_SAT <=> total * MSATS_PER_SAT <= MAX_ZAP_MSATS
    BY <1>1, Quotients
  <2>4. MAX_ZAP_MSATS \div MSATS_PER_SAT \in Int
    BY <1>1
  <2>5. BitcoinAmountOf(cashu) = total * MSATS_PER_SAT
    BY <1>2, <1>3, <1>4 DEF BitcoinAmountOf
  <2>6. total * MSATS_PER_SAT # Null
    BY <1>1, AmountsAssumption
  <2>7. ExceedsTheBitcoinCeiling(cashu) <=> ~(Millisats(unit, total) <= MAX_ZAP_MSATS)
    BY <2>1, <2>2, <2>3, <2>4
  <2>. QED BY <1>4, <2>1, <2>5, <2>6, <2>7 DEF cashu
<1>5. CASE unit = "msat"
  <2>1. Millisats(unit, total) = total
    BY <1>5 DEF Millisats
  <2>2. ExceedsTheBitcoinCeiling(cashu) <=> total > MAX_ZAP_MSATS \div 1
    BY <1>2, <1>3, <1>5 DEF ExceedsTheBitcoinCeiling
  <2>3. MAX_ZAP_MSATS \div 1 = MAX_ZAP_MSATS
    BY <1>1
  <2>4. BitcoinAmountOf(cashu) = total
    BY <1>2, <1>3, <1>5 DEF BitcoinAmountOf
  <2>5. total # Null
    BY AmountsAssumption
  <2>6. ExceedsTheBitcoinCeiling(cashu) <=> ~(Millisats(unit, total) <= MAX_ZAP_MSATS)
    BY <1>1, <2>1, <2>2, <2>3
  <2>. QED BY <1>5, <2>1, <2>4, <2>5, <2>6 DEF cashu
<1>6. CASE unit \notin {"sat", "msat"}
  <2>1. Millisats(unit, total) = 0 /\ 0 <= MAX_ZAP_MSATS
    BY <1>1, <1>6 DEF Millisats
  <2>2. ~ExceedsTheBitcoinCeiling(cashu) /\ BitcoinAmountOf(cashu) = Null
    BY <1>2, <1>3, <1>6 DEF ExceedsTheBitcoinCeiling, BitcoinAmountOf
  <2>. QED BY <1>6, <2>1, <2>2 DEF cashu
<1>. QED BY <1>4, <1>5, <1>6

-----------------------------------------------------------------------------
LEMMA FewUnits == ASSUME NEW value PROVE ~(Cardinality({value} \ {Null}) > 1)
<1>1. Cardinality({}) = 0 /\ Cardinality({value}) = 1
  BY FS_EmptySet, FS_Singleton
<1>2. {value} \ {Null} = {} \/ {value} \ {Null} = {value}
  OBVIOUS
<1>. QED BY <1>1, <1>2

LEMMA ReadsNutzap ==
  ASSUME NEW event, NEW proofs, NEW cashu
  PROVE  LET recipient == SoleTagValue(event.tags, "p")
             msats     == IF cashu = Null THEN Null ELSE BitcoinAmountOf(cashu)
             nutzap    == NutzapOf(event, proofs, cashu)
         IN  /\ nutzap.recipient = IF recipient \in Pubkeys THEN recipient ELSE Null
             /\ nutzap.mint = ParseWebUrl(SoleTagValue(event.tags, "u"))
             /\ nutzap.proofs = proofs /\ nutzap.cashuAmount = cashu
             /\ nutzap.amountMillisats = msats
             /\ nutzap.amountSats = IF msats = Null THEN Null ELSE msats \div MSATS_PER_SAT
             /\ NoRecordIsNothing => nutzap # Null
<1>1. NutzapOf(event, proofs, cashu) = [x \in DOMAIN NutzapOf(event, proofs, cashu) |-> NutzapOf(event, proofs, cashu)[x]]
  BY DEF NutzapOf
<1>2. NoRecordIsNothing => NutzapOf(event, proofs, cashu) # Null
  BY <1>1, Zenon DEF NoRecordIsNothing
<1>. QED BY <1>2 DEF NutzapOf

(* What parseNutzap makes of a nutzap.                                     *)
LEMMA NutzapParsed ==
  ASSUME NoRecordIsNothing, NEW entry, NEW unit, NEW recipient \in Authors, NEW mint \in WebUrls,
         IsNutzap(entry, unit, recipient, mint)
  PROVE  LET nutzap == ParseNutzap(entry.event)
             stated == Stating(entry.given)
             total  == SumOf(stated)
             in     == unit ?? "sat"
         IN  /\ nutzap # Null =>
                  /\ nutzap.recipient = recipient /\ nutzap.mint = mint
                  /\ ToSet(nutzap.proofs) = {ParseNutzapProof(proof) : proof \in stated}
                  /\ nutzap.proofs = <<>> <=> stated = {}
             /\ nutzap # Null /\ stated # {} =>
                  /\ total \in Nat /\ nutzap.cashuAmount = [amount |-> total, unit |-> in]
                  /\ Millisats(in, total) <= MAX_ZAP_MSATS
                  /\ in \in {"sat", "msat"} => /\ nutzap.amountMillisats = Millisats(in, total)
                                               /\ nutzap.amountSats = Millisats(in, total) \div MSATS_PER_SAT
             /\ stated # {} /\ (\A proof \in stated : proof.amount \in Nat)
                  /\ total <= MaxSafe /\ Millisats(in, total) <= MAX_ZAP_MSATS => nutzap # Null
<1>. DEFINE event  == entry.event
            tags   == event.tags
            given  == entry.given
            stated == Stating(given)
            worth  == SumOf(stated)
            in     == unit ?? "sat"
            units  == ExtractTagValues(tags, "unit")
            proofs == ProofsRead(tags)
            total  == SumWithinTheSafeIntegerRange([i \in DOMAIN proofs |-> proofs[i].amount])
            cashu  == [amount |-> total, unit |-> SoleValue(units) ?? "sat"]
            nutzap == ParseNutzap(event)
<1>1. given \in Proofs /\ event.kind = KIND_NUTZAP /\ IsSequence(given)
  BY ProofsAssumption DEF IsNutzap
<1>2. /\ IsTags(tags) /\ Writes(ToSet(tags), "unit", unit) /\ Writes(ToSet(tags), "p", recipient)
      /\ Writes(ToSet(tags), "u", mint) /\ ProofValues(tags) = ToSet(given)
  BY <1>1, NutzapSays
<1>3. /\ units = {unit} \ {Null} /\ SoleValue(units) = unit
      /\ SoleTagValue(tags, "p") = recipient /\ SoleTagValue(tags, "u") = mint
  BY <1>2, ValueWritten DEF SoleTagValue
<1>4. ~(Cardinality(units) > 1) /\ cashu = [amount |-> total, unit |-> in]
  BY <1>3, FewUnits
<1>5. /\ ToSet(proofs) = {ParseNutzapProof(proof) : proof \in stated}
      /\ proofs = <<>> <=> stated = {}
      /\ (\A proof \in stated : proof.amount \in Nat) =>
           worth \in Nat /\ total = IF worth <= MaxSafe THEN worth ELSE Null
  <2>. HIDE DEF tags
  <2>. QED BY <1>2, ProofsCounted
<1>6. nutzap = IF \E proof \in ToSet(proofs) : proof.amount < 0 THEN Null
               ELSE IF proofs = <<>> THEN NutzapOf(event, proofs, Null)
               ELSE IF total = Null THEN Null
               ELSE IF ExceedsTheBitcoinCeiling(cashu) THEN Null ELSE NutzapOf(event, proofs, cashu)
  BY <1>1, <1>4 DEF ParseNutzap, ProofsRead, Counted, DEFAULT_NUTZAP_UNIT
<1>7. \A proof \in stated : proof.amount \in Int /\ ParseNutzapProof(proof).amount = proof.amount
  BY <1>1, AmountsStated DEF Stating, ParseNutzapProof
<1>8. (\E proof \in ToSet(proofs) : proof.amount < 0) <=> ~(\A proof \in stated : proof.amount \in Nat)
  <2>. HIDE DEF stated, proofs
  <2>1. (\E proof \in ToSet(proofs) : proof.amount < 0) <=> \E proof \in stated : proof.amount < 0
    BY <1>5, <1>7
  <2>2. \A proof \in stated : proof.amount < 0 <=> proof.amount \notin Nat
    BY <1>7
  <2>. QED BY <2>1, <2>2
<1>9. cashu # Null
  <2>1. [amount |-> total, unit |-> in] = [x \in DOMAIN [amount |-> total, unit |-> in] |-> [amount |-> total, unit |-> in][x]]
    OBVIOUS
  <2>2. [amount |-> total, unit |-> in] # Null
    BY <2>1, Zenon DEF NoRecordIsNothing
  <2>. QED BY <1>4, <2>2
<1>10. recipient \in Pubkeys /\ ParseWebUrl(mint) = mint
  BY AuthorsAssumption DEF ParseWebUrl
<1>. HIDE DEF units, proofs, total, cashu, nutzap, stated, worth, event
<1>11. ASSUME nutzap # Null
       PROVE  /\ nutzap.recipient = recipient /\ nutzap.mint = mint /\ nutzap.proofs = proofs
              /\ \A proof \in stated : proof.amount \in Nat
              /\ stated # {} => total # Null /\ ~ExceedsTheBitcoinCeiling(cashu) /\ nutzap = NutzapOf(event, proofs, cashu)
  <2>1. \A proof \in stated : proof.amount \in Nat
    BY <1>6, <1>8, <1>11
  <2>2. \E c : nutzap = NutzapOf(event, proofs, c)
    BY <1>6, <1>11
  <2>3. nutzap.recipient = recipient /\ nutzap.mint = mint /\ nutzap.proofs = proofs
    BY <1>3, <1>10, <2>2, ReadsNutzap
  <2>4. stated # {} => total # Null /\ ~ExceedsTheBitcoinCeiling(cashu) /\ nutzap = NutzapOf(event, proofs, cashu)
    BY <1>5, <1>6, <1>11
  <2>. QED BY <2>1, <2>3, <2>4
<1>12. ASSUME nutzap # Null, stated # {}
       PROVE  /\ worth \in Nat /\ nutzap.cashuAmount = [amount |-> worth, unit |-> in]
              /\ Millisats(in, worth) <= MAX_ZAP_MSATS
              /\ in \in {"sat", "msat"} => /\ nutzap.amountMillisats = Millisats(in, worth)
                                           /\ nutzap.amountSats = Millisats(in, worth) \div MSATS_PER_SAT
  <2>. HIDE DEF in
  <2>1. worth \in Nat /\ total = worth
    BY <1>5, <1>11, <1>12
  <2>2. /\ ~ExceedsTheBitcoinCeiling([amount |-> worth, unit |-> in])
        /\ nutzap = NutzapOf(event, proofs, [amount |-> worth, unit |-> in])
        /\ [amount |-> worth, unit |-> in] # Null
    BY <1>4, <1>9, <1>11, <1>12, <2>1
  <2>3. nutzap.cashuAmount = [amount |-> worth, unit |-> in]
    BY <2>2, ReadsNutzap
  <2>4. Millisats(in, worth) <= MAX_ZAP_MSATS
    BY <2>1, <2>2, Ceiling
  <2>5. ASSUME in \in {"sat", "msat"}
        PROVE  nutzap.amountMillisats = Millisats(in, worth) /\ nutzap.amountSats = Millisats(in, worth) \div MSATS_PER_SAT
    <3>1. BitcoinAmountOf([amount |-> worth, unit |-> in]) = Millisats(in, worth) /\ Millisats(in, worth) # Null
      BY <2>1, <2>5, Ceiling
    <3>. QED BY <2>2, <3>1, ReadsNutzap
  <2>. QED BY <2>1, <2>3, <2>4, <2>5
<1>13. ASSUME stated # {}, \A proof \in stated : proof.amount \in Nat, worth <= MaxSafe, Millisats(in, worth) <= MAX_ZAP_MSATS
       PROVE  nutzap # Null
  <2>. HIDE DEF in
  <2>1. worth \in Nat /\ total = worth /\ total # Null
    BY <1>5, <1>13, AmountsAssumption
  <2>2. ~ExceedsTheBitcoinCeiling([amount |-> worth, unit |-> in])
    BY <1>13, <2>1, Ceiling
  <2>3. nutzap = NutzapOf(event, proofs, cashu)
    BY <1>4, <1>5, <1>6, <1>8, <1>13, <2>1, <2>2
  <2>. QED BY <2>3, ReadsNutzap
<1>. QED BY <1>5, <1>11, <1>12, <1>13 DEF nutzap, stated, worth, event

-----------------------------------------------------------------------------
LEMMA LockRead ==
  ASSUME NEW proof, NEW key, key # Null
  PROVE  ParseNutzapProof(proof).lockKey = key <=> IsLocked(proof, key)
<1>1. ParseNutzapProof(proof).lockKey = IF proof.secret = Null THEN Null ELSE ParseP2pkLockKey(proof.secret)
  BY DEF ParseNutzapProof
<1>. QED BY <1>1 DEF ParseP2pkLockKey, ParseCompressedKey, IsLocked, SPENDERS_BESIDE_THE_LOCK

(* What verifyNutzapDleq asks of a proof.                                  *)
IsProven(proof, unit) ==
  LET keyset == KeysetOf(proof, Keysets) IN
  /\ keyset # Null /\ keyset.unit = unit /\ proof.amount \in DOMAIN keyset.keys
  /\ HasValidDleq(proof, keyset.keys[proof.amount])

LEMMA MintRead ==
  ASSUME NEW proof, NEW unit
  PROVE  IsProven(ParseNutzapProof(proof), unit) <=> IsMinted(proof, unit) /\ proof.secret # Null
<1>. DEFINE read   == ParseNutzapProof(proof)
            keyset == KeysetOf(read, Keysets)
<1>1. /\ read.keysetId = proof.id /\ read.amount = proof.amount /\ read.secret = proof.secret
      /\ read.unblindedSignature = proof.C /\ read.dleq = proof.dleq
  BY DEF ParseNutzapProof
<1>. HIDE DEF read
<1>2. /\ keyset # Null => \E j \in DOMAIN Keysets : keyset = Keysets[j] /\ IsFirstKeyset(j, proof.id)
      /\ \A j \in DOMAIN Keysets : IsFirstKeyset(j, proof.id) => Keysets[j] # Null /\ keyset = Keysets[j]
  BY <1>1, KeysetFound
<1>3. IsProven(read, unit) <=>
        /\ keyset # Null /\ keyset.unit = unit /\ proof.amount \in DOMAIN keyset.keys
        /\ proof.secret # Null /\ proof.C # Null /\ proof.dleq = keyset.keys[proof.amount]
  BY <1>1 DEF IsProven, HasValidDleq
<1>4. IsMinted(proof, unit) <=>
        \E j \in DOMAIN Keysets :
          /\ IsFirstKeyset(j, proof.id) /\ Keysets[j].unit = unit /\ proof.amount \in DOMAIN Keysets[j].keys
          /\ proof.C # Null /\ proof.dleq = Keysets[j].keys[proof.amount]
  BY DEF IsMinted, IsFirstKeyset
<1>. HIDE DEF keyset
<1>5. ASSUME IsProven(read, unit) PROVE IsMinted(proof, unit) /\ proof.secret # Null
  BY <1>2, <1>3, <1>4, <1>5
<1>6. ASSUME IsMinted(proof, unit), proof.secret # Null PROVE IsProven(read, unit)
  <2>1. PICK j \in DOMAIN Keysets :
          /\ IsFirstKeyset(j, proof.id) /\ Keysets[j].unit = unit /\ proof.amount \in DOMAIN Keysets[j].keys
          /\ proof.C # Null /\ proof.dleq = Keysets[j].keys[proof.amount]
    BY <1>4, <1>6
  <2>2. keyset = Keysets[j] /\ keyset # Null
    BY <1>2, <2>1
  <2>. QED BY <1>3, <1>6, <2>1, <2>2
<1>. QED BY <1>5, <1>6 DEF read

LEMMA MintedAmounts ==
  ASSUME NEW proof, NEW unit, IsMinted(proof, unit) PROVE proof.amount \in Nat
<1>1. PICK j \in DOMAIN Keysets : proof.amount \in DOMAIN Keysets[j].keys
  BY DEF IsMinted
<1>2. Keysets[j] \in ToSet(Keysets)
  BY DEF ToSet
<1>3. proof.amount \in 0..MaxSafe
  BY <1>1, <1>2, KeysetsAssumption
<1>. QED BY <1>3, MaxSafeAssumption

(* The verdicts.                                                           *)
LEMMA Verified ==
  ASSUME NEW nutzap, NEW info
  PROVE  VerifyNutzap(nutzap, info) = "ok" <=>
           /\ nutzap.recipient = info.pubkey /\ nutzap.mint \in info.mints /\ nutzap.proofs # <<>>
           /\ \A proof \in ToSet(nutzap.proofs) : proof.lockKey = info.p2pkPubkey
BY DEF VerifyNutzap

LEMMA DleqVerified ==
  ASSUME NEW nutzap
  PROVE  VerifyNutzapDleq(nutzap, Keysets) = "ok" <=>
           /\ ToSet(nutzap.proofs) # {}
           /\ \A proof \in ToSet(nutzap.proofs) : IsProven(proof, nutzap.cashuAmount.unit)
<1>. DEFINE proofs     == ToSet(nutzap.proofs)
            unit       == nutzap.cashuAmount.unit
            keyset(p)  == KeysetOf(p, Keysets)
<1>1. VerifyNutzapDleq(nutzap, Keysets) =
        IF proofs = {} THEN "no-proof"
        ELSE IF \E proof \in proofs : keyset(proof) = Null THEN "unknown-keyset"
        ELSE IF \E proof \in proofs : keyset(proof).unit # unit THEN "unit-mismatch"
        ELSE IF \E proof \in proofs : proof.amount \notin DOMAIN keyset(proof).keys THEN "no-mint-key"
        ELSE IF \A proof \in proofs : HasValidDleq(proof, keyset(proof).keys[proof.amount]) THEN "ok"
        ELSE "dleq-invalid"
  BY DEF VerifyNutzapDleq
<1>2. \A proof : IsProven(proof, unit) <=>
        /\ keyset(proof) # Null /\ keyset(proof).unit = unit /\ proof.amount \in DOMAIN keyset(proof).keys
        /\ HasValidDleq(proof, keyset(proof).keys[proof.amount])
  BY DEF IsProven
<1>. HIDE DEF proofs, unit, keyset
<1>3. VerifyNutzapDleq(nutzap, Keysets) = "ok" <=> proofs # {} /\ \A proof \in proofs : IsProven(proof, unit)
  BY <1>1, <1>2
<1>. QED BY <1>3 DEF proofs, unit

LEMMA InfoRead ==
  ASSUME NEW event, ParseNutzapInfo(event) # Null
  PROVE  LET info == ParseNutzapInfo(event) IN
         /\ info.p2pkPubkey # Null /\ info.p2pkPubkey # info.pubkey /\ info.mints \subseteq WebUrls
<1>. DEFINE key == SoleValue({XCoordinateOf(k) : k \in ExtractTagValues(event.tags, "pubkey")} \ {Null})
<1>1. /\ key \notin {Null, event.pubkey}
      /\ ParseNutzapInfo(event) =
           [pubkey |-> event.pubkey, p2pkPubkey |-> key,
            mints  |-> ExtractTagValues(event.tags, "mint") \cap WebUrls,
            relays |-> {ParseRelayUrl(url) : url \in ExtractTagValues(event.tags, "relay")} \ {Null}]
  BY DEF ParseNutzapInfo
<1>. HIDE DEF key
<1>. QED BY <1>1

(* Who and where the tags say a nutzap is for.                             *)
LEMMA NutzapIsFor ==
  ASSUME NEW tags, NEW name, NEW value, value # Null, Writes(tags, name, value), NEW other
  PROVE  (\E tag \in tags : At(tag, 1) = name /\ At(tag, 2) = other) <=> other = value
BY DEF Writes

-----------------------------------------------------------------------------
LEMMA NutzapWorth ==
  ASSUME NoRecordIsNothing, NEW entry, NEW unit, NEW recipient \in Authors, NEW mint \in WebUrls,
         IsNutzap(entry, unit, recipient, mint), NEW about
  PROVE  IsWorth(entry, about)
<1>. DEFINE tags   == entry.event.tags
            info   == ParseNutzapInfo(about)
            nutzap == ParseNutzap(entry.event)
            in     == unit ?? "sat"
            stated == Stating(entry.given)
            total  == SumOf(stated)
            msats  == Millisats(in, total)
            key    == info.p2pkPubkey
            proven == \A proof \in stated : IsMinted(proof, in) /\ IsLocked(proof, key)
            good   == info # Null /\ recipient = info.pubkey /\ mint \in info.mints /\ stated # {} /\ proven
            says   == VerifyNutzap(nutzap, info) = "ok" /\ VerifyNutzapDleq(nutzap, Keysets) = "ok"
<1>1. entry.given \in Proofs /\ IsSequence(entry.given)
  BY ProofsAssumption DEF IsNutzap
<1>2. /\ Writes(ToSet(tags), "p", recipient) /\ Writes(ToSet(tags), "u", mint)
      /\ SoleTagValue(tags, "unit") = unit
  BY <1>1, NutzapSays, ValueWritten
<1>3. {proof \in ToSet(entry.given) \ {NotJson} : proof.amount # Null} = stated
  BY <1>1, AmountsStated DEF Stating
<1>4. /\ \A other : HasTag(tags, "p", other) <=> other = recipient
      /\ \A other : HasTag(tags, "u", other) <=> other = mint
  <2>1. recipient # Null /\ mint # Null
    BY AuthorsAssumption, NothingAssumption
  <2>. QED BY <1>2, <2>1, NutzapIsFor DEF HasTag
<1>5. info # Null => key # Null /\ key # info.pubkey
  BY InfoRead
<1>6. /\ nutzap # Null =>
           /\ nutzap.recipient = recipient /\ nutzap.mint = mint
           /\ ToSet(nutzap.proofs) = {ParseNutzapProof(proof) : proof \in stated}
           /\ nutzap.proofs = <<>> <=> stated = {}
      /\ nutzap # Null /\ stated # {} =>
           /\ total \in Nat /\ nutzap.cashuAmount = [amount |-> total, unit |-> in]
           /\ msats <= MAX_ZAP_MSATS
           /\ in \in {"sat", "msat"} => nutzap.amountMillisats = msats /\ nutzap.amountSats = msats \div MSATS_PER_SAT
      /\ stated # {} /\ (\A proof \in stated : proof.amount \in Nat)
           /\ total <= MaxSafe /\ msats <= MAX_ZAP_MSATS => nutzap # Null
  BY NutzapParsed
<1>. HIDE DEF nutzap, info, stated, total, msats, in
<1>7. ASSUME nutzap # Null, info # Null PROVE says <=> good
  <2>1. VerifyNutzap(nutzap, info) = "ok" <=>
          /\ recipient = info.pubkey /\ mint \in info.mints /\ stated # {}
          /\ \A proof \in stated : IsLocked(proof, key)
    <3>1. VerifyNutzap(nutzap, info) = "ok" <=>
            /\ recipient = info.pubkey /\ mint \in info.mints /\ stated # {}
            /\ \A proof \in stated : ParseNutzapProof(proof).lockKey = key
      <4>1. (\A proof \in ToSet(nutzap.proofs) : proof.lockKey = key)
              <=> \A proof \in stated : ParseNutzapProof(proof).lockKey = key
        BY <1>6, <1>7
      <4>. QED BY <1>6, <1>7, <4>1, Verified
    <3>2. \A proof : ParseNutzapProof(proof).lockKey = key <=> IsLocked(proof, key)
      BY <1>5, <1>7, LockRead
    <3>. QED BY <3>1, <3>2
  <2>2. VerifyNutzapDleq(nutzap, Keysets) = "ok" <=>
          stated # {} /\ \A proof \in stated : IsProven(ParseNutzapProof(proof), nutzap.cashuAmount.unit)
    BY <1>6, <1>7, DleqVerified
  <2>3. stated # {} => nutzap.cashuAmount.unit = in
    BY <1>6, <1>7
  <2>4. \A proof : IsProven(ParseNutzapProof(proof), in) <=> IsMinted(proof, in) /\ proof.secret # Null
    BY MintRead
  <2>5. \A proof : IsLocked(proof, key) => proof.secret # Null
    BY DEF IsLocked
  <2>. QED BY <1>7, <2>1, <2>2, <2>3, <2>4, <2>5
<1>8. ASSUME good, total <= MaxSafe, msats <= MAX_ZAP_MSATS PROVE nutzap # Null
  <2>1. \A proof \in stated : proof.amount \in Nat
    BY <1>8, MintedAmounts
  <2>. QED BY <1>6, <1>8, <2>1
<1>9. good <=> /\ info # Null /\ HasTag(tags, "p", info.pubkey)
               /\ \E u \in info.mints : HasTag(tags, "u", u)
               /\ stated # {} /\ proven
  BY <1>4
<1>. HIDE DEF tags, key, proven, says
<1>10. /\ info # Null /\ nutzap # Null /\ says =>
            good /\ key # info.pubkey /\ nutzap.cashuAmount = [amount |-> total, unit |-> in]
       /\ info # Null /\ nutzap # Null /\ says /\ in \in {"sat", "msat"} =>
            nutzap.amountMillisats = msats /\ nutzap.amountSats = msats \div MSATS_PER_SAT /\ msats <= MAX_ZAP_MSATS
       /\ good /\ total <= MaxSafe /\ msats <= MAX_ZAP_MSATS => info # Null /\ nutzap # Null /\ says
  BY <1>5, <1>6, <1>7, <1>8
<1>. HIDE DEF good
<1>11. SoleTagValue(tags, "unit") ?? "sat" = in
  BY <1>2 DEF in, tags
<1>. QED BY <1>3, <1>9, <1>10, <1>11 DEF IsWorth, tags, key, proven, says, info, nutzap, total, msats

(* Every nutzap of a path is one of its proofs.                            *)
NutzapsSent == \A i \in DOMAIN path : path[i].by = "nutzap" => Pays(path[i])

LEMMA NutzapsGrow == ASSUME IInv, NutzapsSent, Earns PROVE NutzapsSent'
<1>1. PICK entry : path' = Append(path, entry) /\ (entry.by = "nutzap" => Pays(entry))
  BY DEF Earns
<1>. DEFINE T == ToSet(path) \cup {entry}
<1>2. path \in Seq(T) /\ entry \in T
  <2>1. path \in Seq(ToSet(path))
    BY DEF IInv, IsSequence
  <2>. QED BY <2>1
<1>. HIDE DEF T
<1>3. /\ Len(path) \in Nat /\ DOMAIN path = 1..Len(path) /\ DOMAIN path' = 1..(Len(path) + 1)
      /\ \A i \in 1..Len(path) : path'[i] = path[i]
      /\ path'[Len(path) + 1] = entry
  BY <1>1, <1>2
<1>4. ASSUME NEW i \in DOMAIN path', path'[i].by = "nutzap" PROVE Pays(path'[i])
  <2>1. CASE i = Len(path) + 1
    BY <1>1, <1>3, <1>4, <2>1
  <2>2. CASE i # Len(path) + 1
    <3>1. i \in DOMAIN path /\ path'[i] = path[i]
      BY <1>3, <2>2
    <3>. QED BY <1>4, <3>1 DEF NutzapsSent
  <2>. QED BY <2>1, <2>2
<1>. QED BY <1>4 DEF NutzapsSent, Pays, IsNutzap

(* A nutzap that verifies is worth the sum of the proof texts it states an *)
(* amount in, each text counted once, so that a proof in two spellings     *)
(* counts twice; each is of a proof that is the mint's for its amount and  *)
(* unit and for nobody but the recipient's key to spend.  A nutzap of such *)
(* texts verifies while its sum stays in range, for any texts, keysets and *)
(* units (parseNutzap, verifyNutzap, verifyNutzapDleq).                    *)
THEOREM NutzapsAreWorth == ASSUME NoRecordIsNothing PROVE Spec => []NutzapsAreEarned
<1>1. Init => NutzapsSent
  <2>1. Init => DOMAIN path = {}
    BY DEF Init
  <2>. QED BY <2>1 DEF NutzapsSent
<1>2. IInv /\ NutzapsSent /\ [Next]_vars => NutzapsSent'
  <2>1. IInv /\ NutzapsSent /\ Next => NutzapsSent'
    BY EveryStepEarns, NutzapsGrow
  <2>2. NutzapsSent /\ UNCHANGED vars => NutzapsSent'
    BY DEF vars, NutzapsSent, Pays, IsNutzap
  <2>. QED BY <2>1, <2>2
<1>3. NutzapsSent => NutzapsAreEarned
  <2>. SUFFICES ASSUME NutzapsSent, NEW i \in DOMAIN path, path[i].by = "nutzap" PROVE IsWorth(path[i], About(i))
    BY DEF NutzapsAreEarned
  <2>1. PICK unit \in Units, recipient \in Authors, mint \in WebUrls : IsNutzap(path[i], unit, recipient, mint)
    BY DEF NutzapsSent, Pays
  <2>. QED BY <2>1, NutzapWorth
<1>. QED BY <1>1, <1>2, <1>3, AnnotationsInductive, PTL DEF Spec
=============================================================================
