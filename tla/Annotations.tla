----------------------------- MODULE Annotations -----------------------------
(***************************************************************************)
(* What is published about an event, and read back by every client:        *)
(* reposts, reactions, highlights, deletions, zaps and nutzaps, answers in *)
(* a chat room or a group, articles and files.                             *)
(*                                                                         *)
(* The path is a chain of events: its first entry is published on its own, *)
(* and each later one is about the entry before it.  An entry keeps how    *)
(* its event came to be and what its maker meant by it.  An event is       *)
(* genuine when its signature verifies.                                    *)
(***************************************************************************)
EXTENDS Builder, GroupChat, FileMetadata, Zaps

CONSTANTS OpeningEvents, \* what other programs publish, by kind, author and tags
          Publications,  \* what is built on its own, as [by, given]
          Ids,           \* the ids of the events of a path, in order
          Authors, Rooms, Hints, Groups,
          Pages,         \* HttpUrls a highlight is from
          Amounts,       \* what zap requests ask for, in millisats
          Lnurls,
          Provider, ProviderLnurl, \* the recipient's zap provider
          Invoices,      \* what providers are paid by
          Proofs,        \* proof tags a nutzap holds, as sequences of texts
          Units,         \* unit tags a nutzap holds: a unit or Null
          Keysets        \* what the mint serves

ASSUME IdsAssumption == Ids \in Seq(EventIds) /\ Ids # <<>> /\ \A i, j \in DOMAIN Ids : Ids[i] = Ids[j] => i = j
ASSUME AuthorsAssumption == Authors \cup {Provider} \subseteq Pubkeys
ASSUME RoomsAssumption == \A room \in Rooms : room.sender \in Pubkeys /\ room.receivers \in Seq(Pubkeys)
ASSUME HintsAssumption == IsFiniteSet(Hints) /\ \A hint \in Hints \ {Null} : ParseRelayUrl(hint) = hint
ASSUME PagesAssumption ==
  "a text" \notin DOMAIN HttpUrlOf /\ \A page \in Pages : page \in DOMAIN HttpUrlOf /\ HttpUrlOf[page] = page

(* An amount that is no safe integer is none.  A text has its spelling and *)
(* the fields of its proof.  A mint has keys for amounts that are          *)
(* canonical decimal digits.                                               *)
ASSUME ProofsAssumption ==
  /\ Null \notin Int
  /\ \A proofs \in Proofs :
       /\ IsSequence(proofs)
       /\ \A proof \in ToSet(proofs) \ {NotJson} : proof.amount \in -MaxSafe..MaxSafe \cup {Null}
ASSUME KeysetsAssumption ==
  /\ IsSequence(Keysets)
  /\ \A keyset \in ToSet(Keysets) : keyset # Null /\ DOMAIN keyset.keys \subseteq 0..MaxSafe

(* An amount has one text.  A provider is somebody else than the authors,  *)
(* known by its lnurl in lower case, and paid by what an invoice states.   *)
ASSUME AmountsAssumption ==
  /\ Null \notin Nat \cup Range(DecimalText) /\ Amounts \cap Nat \subseteq DOMAIN DecimalText
  /\ \A m, n \in DOMAIN DecimalText : DecimalText[m] = DecimalText[n] => m = n
ASSUME ProviderAssumption ==
  Provider \notin Authors /\ ProviderLnurl # Null /\ Null \notin Lnurls /\ ToLowerCase(ProviderLnurl) = ProviderLnurl
ASSUME InvoicesAssumption ==
  \A invoice \in Invoices :
    invoice # Null /\ invoice.digits \in Nat \cup {Null} /\ invoice.unit \in {"", "m", "u", "n", "p"}

(* The coordinate of an event, when it has one, has a text.                *)
IsNameable(kind, pubkey, tags) ==
  LET dTag == CoordinateIdentifier([kind |-> kind, tags |-> tags]) IN
  dTag # Null => \E text \in DOMAIN Addresses : Addresses[text] = [kind |-> kind, pubkey |-> pubkey, dTag |-> dTag]

(* What other programs publish is well-formed, whatever its tags say.      *)
ASSUME OpeningsAssumption ==
  \A event \in OpeningEvents :
    event.pubkey \in Pubkeys /\ IsTags(event.tags) /\ IsNameable(event.kind, event.pubkey, event.tags)

(* The tags that no builder writes, and the groups anything is posted to.  *)
GivenTags == {event.tags : event \in OpeningEvents}
               \cup {publication.given : publication \in {p \in Publications : p.by = "relayList"}}
GroupIds  == Groups \cup {publication.given.id : publication \in {p \in Publications : p.by = "groupChat"}}
               \cup UNION {{tag[2] : tag \in ToSet(NamingGroupTags([tags |-> tags]))} : tags \in GivenTags}

(* null is no string, no reference and no group.                           *)
ASSUME NothingAssumption ==
  /\ Null \notin {"", "comment", "source", "mention"} \cup EventIds \cup Pubkeys \cup GroupIds
                 \cup DOMAIN Addresses \cup DOMAIN RelayUrlOf \cup DOMAIN HttpUrlOf \cup WebUrls
  /\ \A id \in EventIds : EventRef(id) # Null
  /\ \A text \in DOMAIN Addresses : AddressRef(Addresses[text]) # Null
  /\ \A id \in GroupIds, hint \in {Null} \cup Range(RelayUrlOf) : [id |-> id, relayHint |-> hint] # Null

(* What the builders are given is of the types they state.                 *)
ASSUME PublicationsAssumption ==
  \A publication \in Publications :
    LET given == publication.given IN
    CASE publication.by = "note"              -> IsContent(given)
      [] publication.by = "longform"          ->
           /\ given.kind \in {KIND_LONGFORM_CONTENT, KIND_LONGFORM_CONTENT_DRAFT} /\ given.dTag # Null
           /\ given.image \in WebUrls \cup {Null} /\ IsSequence(given.topics)
           /\ given.publishedAt # Null => given.publishedAt \in DOMAIN DecimalText
      [] publication.by = "draftWrap"         -> given.dTag # Null
      [] publication.by = "appSettings"       -> given # Null
      [] publication.by = "relayList"         -> IsTags(given)
      [] publication.by \in {"file", "imeta"} -> IsFileMetadata(given) /\ given # Null
      [] publication.by = "groupChat"         -> IsContent(given.content) /\ ParseRelayUrl(given.relayHint) = given.relayHint
      [] OTHER -> publication.by \in {"metadata", "clientAuth"}

VARIABLE path

vars == path

Target == Last(path).event

Event(author, genuine, template) ==
  [id |-> Ids[Len(path) + 1], pubkey |-> author, genuine |-> genuine,
   kind |-> template.kind, tags |-> template.tags, content |-> template.content]

(* An entry joins the path, unless its builder threw.                      *)
Add(by, given, author, genuine, template) ==
  /\ template # Null
  /\ path' = Append(path, [by |-> by, given |-> given, event |-> Event(author, genuine, template)])

Annotates == path # <<>> /\ Len(path) < Len(Ids)
IsPrivate(entry) == entry.by \in {"message", "privateReaction"}
OnPublicEvent == Annotates /\ ~IsPrivate(Last(path))

-----------------------------------------------------------------------------
(* An event on its own: another program's, or built from what it states.   *)
Open ==
  /\ path = <<>>
  /\ \E event \in OpeningEvents : Add("opening", Null, event.pubkey, TRUE, event)

Built(publication) ==
  LET given == publication.given IN
  CASE publication.by = "note"        -> BuildTextNote(given)
    [] publication.by = "longform"    -> BuildLongform(given)
    [] publication.by = "draftWrap"   -> BuildDraftWrap(given)
    [] publication.by = "appSettings" -> BuildAppSettings(given, "")
    [] publication.by = "metadata"    -> BuildMetadata(given)
    [] publication.by = "relayList"   -> BuildRelayList(given, "")
    [] publication.by = "clientAuth"  -> BuildClientAuth(given.relay, given.challenge)
    [] publication.by = "file"        -> BuildFileMetadataEvent(given, "")
    [] publication.by = "imeta"       ->
         IF BuildImetaTag(given) = Null THEN Null ELSE Template(KIND_TEXT_NOTE, << BuildImetaTag(given) >>, "")
    [] publication.by = "groupChat"   -> BuildGroupChatMessage(given.id, given.relayHint, given.content)

ASSUME BuiltAssumption ==
  \A author \in Authors, publication \in Publications :
    LET template == Built(publication) IN
    template # Null => IsNameable(template.kind, author, template.tags)

Publish ==
  /\ path = <<>>
  /\ \E author \in Authors, publication \in Publications :
       Add(publication.by, publication.given, author, TRUE, Built(publication))

(* An annotation is tagged with no group, the target's or a known one.     *)
GroupChoices == {[type |-> "none"], [type |-> "target"]} \cup {[type |-> "known", id |-> id] : id \in Groups}

Chosen(choice) ==
  CASE choice.type = "none"   -> NoGroup
    [] choice.type = "target" -> Target
    [] choice.type = "known"  -> [id |-> choice.id]

AddGrouped(by, reaction, author, template) ==
  \E choice \in GroupChoices, groupRelay \in Hints :
    /\ choice.type = "none" => groupRelay = Null
    /\ Add(by, [group |-> choice, groupRelay |-> groupRelay, reaction |-> reaction], author, TRUE,
           WithGroupTag(template, Chosen(choice), groupRelay))

Repost(author) ==
  \E relay \in Hints \ {Null} : AddGrouped("repost", Null, author, BuildRepost(Target, relay))

React(author) ==
  \E reaction \in {"", "-"}, relay \in Hints :
    AddGrouped("reaction", reaction, author, BuildReaction(Target, reaction, relay))

Delete(author) == Add("deletion", Null, author, TRUE, BuildDeletion(author, Target))

Highlight(author) ==
  \/ Add("highlight", Null, author, TRUE, BuildHighlightFromEvent("text", Target))
  \/ \E page \in Pages, comment \in {Null, "comment"} :
       Add("pageHighlight", [page |-> page, comment |-> comment], author, TRUE,
           BuildHighlightFromUrl("text", page, comment))

(* NIP-25 lets a reaction carry the tags of what it reacts to, the         *)
(* target's own last; NIP-84 lets a highlight mention other pages.         *)
AnnotateElsewhere(author) ==
  \/ Add("otherReaction", [reaction |-> "+"], author, TRUE,
         Template(KIND_REACTION,
                  Among(Target.tags, {tag \in ToSet(Target.tags) : At(tag, 1) \in {"e", "p"}})
                    \o << <<"e", Target.id>>, <<"p", Target.pubkey>> >>, ""))
  \/ \E page, mentioned \in Pages :
       Add("otherHighlight", [page |-> page, comment |-> Null], author, TRUE,
           Template(KIND_HIGHLIGHT, << <<"r", "a text">>, <<"r", mentioned, "mention">>, <<"r", page>> >>, "text"))

-----------------------------------------------------------------------------
SendPrivately(room) ==
  \/ /\ IF path = <<>> THEN TRUE ELSE Annotates /\ IsPrivate(Last(path))
     /\ LET message == BuildPrivateMessage(room, "text", IF path = <<>> THEN Null ELSE Target)
        IN  Add("message", room, room.sender, FALSE, message)
  \/ /\ Annotates /\ IsPrivate(Last(path))
     /\ Add("privateReaction", room, room.sender, FALSE, BuildPrivateReaction(room, Target, "+"))

-----------------------------------------------------------------------------
ZapInput(amount, lnurl) ==
  [recipientPubkey |-> Target.pubkey, relayUrls |-> SetToSeq(Hints \ {Null}), amountMillisats |-> amount,
   target |-> Target, lnurl |-> lnurl, comment |-> Null]

RequestZap(author) ==
  \E amount \in Amounts, lnurl \in Lnurls \cup {Null} :
    Add("zapRequest", [amount |-> amount, lnurl |-> lnurl], author, TRUE, BuildZapRequest(ZapInput(amount, lnurl)))

Receipt(invoices, description) ==
  Template(KIND_ZAP_RECEIPT,
           [i \in DOMAIN invoices |-> <<"bolt11", invoices[i]>>] \o << <<"description", description>> >>, "")

(* A payer may hand the provider a request in another's name.              *)
Impersonated(request, author) == [request EXCEPT !.pubkey = author, !.genuine = (author = request.pubkey)]

SomeInvoice == CHOOSE invoice \in Invoices : TRUE

(* The provider writes a receipt for what it was paid, and for nothing     *)
(* else; whatever the request is, it copies it.  Anyone else can write a   *)
(* receipt, in their own name or, without its signature, the provider's.   *)
IssueReceipt ==
  \E invoice \in Invoices, author \in Authors :
    LET description == Impersonated(Target, author) IN
    \/ Add("receipt", [by |-> Provider, invoice |-> invoice], Provider, TRUE, Receipt(<< invoice >>, description))
    \/ \E name \in {Provider, author}, other \in {invoice, SomeInvoice} :
         Add("receipt", [by |-> author, invoice |-> invoice], name, name = author,
             Receipt(<< invoice, other >>, description))
    \/ Add("receipt", [by |-> Provider, invoice |-> invoice], Provider, TRUE, Receipt(<< invoice >>, NotJson))

(* A nutzap to the author of a nutzap info, or in their place another.     *)
SendNutzap(author) ==
  \E proofs \in Proofs, unit \in Units, recipient \in Authors, mint \in WebUrls :
    Add("nutzap", proofs, author, TRUE,
        Template(KIND_NUTZAP,
                 [i \in DOMAIN proofs |-> <<"proof", proofs[i]>>] \o TagOf("unit", unit)
                   \o << <<"p", recipient>>, <<"u", mint>> >>, ""))

-----------------------------------------------------------------------------
Init == path = <<>>

Next ==
  \/ Open
  \/ Publish
  \/ \E room \in Rooms : SendPrivately(room)
  \/ OnPublicEvent /\ \E author \in Authors :
       Repost(author) \/ React(author) \/ Delete(author) \/ Highlight(author) \/ AnnotateElsewhere(author)
  \/ OnPublicEvent /\ Target.kind \in {KIND_TEXT_NOTE, KIND_LONGFORM_CONTENT} /\ \E author \in Authors : RequestZap(author)
  \/ OnPublicEvent /\ Last(path).by = "zapRequest" /\ IssueReceipt
  \/ OnPublicEvent /\ Target.kind = KIND_NUTZAP_MINT_RECOMMENDATION /\ \E author \in Authors : SendNutzap(author)

Spec == Init /\ [][Next]_vars

-----------------------------------------------------------------------------
About(i) == path[i - 1].event

HasProtection(event) == \E tag \in ToSet(event.tags) : At(tag, 1) = "-"

SpeaksOf(entry, target) ==
  LET event == entry.event
      data  == AnalyseEvent(event).kindData
  IN  /\ ~Refs(event).isReply
      /\ entry.by = "repost" => data.original = EventRef(target.id) /\ (event.content = <<>> <=> HasProtection(target))
      /\ entry.by \in {"reaction", "otherReaction"} =>
           data.target = EventRef(target.id) /\ data.content \in {"+", entry.given.reaction} \ {""}
      /\ entry.by = "highlight" => data.source = ReplyTargetRef(target) /\ data.sourceUrl = Null
      /\ entry.by \in {"pageHighlight", "otherHighlight"} =>
           data.sourceUrl = entry.given.page /\ data.comment = entry.given.comment /\ data.source = Null
      /\ entry.by = "deletion" =>
           /\ target.pubkey = event.pubkey /\ target.kind # KIND_EVENT_DELETION
           /\ SoleRefTagged(event.tags, "e") = EventRef(target.id)
           /\ ReplyTargetRef(target) \in {SoleRefTagged(event.tags, "a"), EventRef(target.id)}
      /\ entry.by \in {"repost", "reaction", "highlight", "zapRequest"} =>
           target.pubkey \in ExtractPubkeys(event.tags)

(* Every annotation is read back by analyseEvent as being about the event  *)
(* its builder was given, whatever that event is an annotation of, and is  *)
(* never taken for a reply; a highlighted page is the page (builder.ts).   *)
(* A deletion names its author's own event by id and by coordinate.        *)
AnnotatesItsTarget == \A i \in DOMAIN path \ {1} : SpeaksOf(path[i], About(i))

IsReadBack(entry) ==
  LET event == entry.event
      given == entry.given
  IN  /\ entry.by \in {"note", "imeta", "longform", "file"} => ~Refs(event).isReply
      /\ entry.by = "longform" /\ event.kind = KIND_LONGFORM_CONTENT =>
           LET data == AnalyseEvent(event).kindData IN
           /\ <<data.title, data.summary, data.image, data.publishedAt>>
                = <<given.title, given.summary, given.image, given.publishedAt>>
           /\ data.topics = {NormaliseHashtag(topic) : topic \in ToSet(given.topics)} \ {Null}
      /\ entry.by \in {"longform", "draftWrap"} =>
           ReplyTargetRef(event) = AddressRef([kind |-> event.kind, pubkey |-> event.pubkey, dTag |-> given.dTag])
      /\ entry.by = "appSettings" =>
           ReplyTargetRef(event) = AddressRef([kind |-> event.kind, pubkey |-> event.pubkey, dTag |-> given])
      /\ entry.by = "file" => ParseFileMetadataEvent(event) = given
      /\ entry.by = "imeta" => ParseImetaTag(event.tags[1]) = given

(* What is published on its own is read back as it was meant: an article   *)
(* by its metadata, a file by its fields, a draft or settings under their  *)
(* identifier, and a note that mentions other events as no reply to them.  *)
ReadBackAsMeant == path # <<>> => IsReadBack(path[1])

KeepsToItsRoom(entry, target) ==
  LET event   == entry.event
      pointer == GroupPointerOf(event)
      named   == GroupPointerOf(target)
  IN  /\ IsPrivate(entry) =>
           /\ ChatRoomMembers(event) = {entry.given.sender} \cup ToSet(entry.given.receivers)
           /\ ExtractPubkeys(event.tags) # {}
      /\ entry.by = "privateReaction" => Last(Tagged(event.tags, "p")) = <<"p", target.pubkey>>
      /\ entry.by \in {"repost", "reaction"} /\ entry.given.group.type = "target" =>
           /\ NamingGroupTags(event) = <<>> <=> NamingGroupTags(target) = <<>>
           /\ pointer = Null <=> named = Null
           /\ pointer # Null =>
                pointer.id = named.id /\ pointer.relayHint = entry.given.groupRelay ?? named.relayHint
      /\ entry.by \in {"repost", "reaction"} /\ entry.given.group.type = "known" =>
           pointer = [id |-> entry.given.group.id, relayHint |-> entry.given.groupRelay]
      /\ entry.by = "groupChat" => pointer = [id |-> entry.given.id, relayHint |-> entry.given.relayHint]

(* A rumour is read by the members of the room its sender addressed and by *)
(* nobody else, a reaction to it too; an annotation made in a group stays  *)
(* in it, and one of an event whose h tags disagree still names a group,   *)
(* so it is never routed publicly (builder.ts, group-chat.ts).             *)
StaysInItsRoom == \A i \in DOMAIN path : KeepsToItsRoom(path[i], About(i))

(* The pico-bitcoins an invoice is for.                                    *)
PICOS ==
  [unit \in {"", "m", "u", "n", "p"} |->
     CASE unit = "p" -> 1
       [] unit = "n" -> Thousand
       [] unit = "u" -> Thousand * Thousand
       [] unit = "m" -> Thousand * Thousand * Thousand
       [] unit = ""  -> Thousand * Thousand * Thousand * Thousand]

IsEarned(entry, before) ==
  LET asked    == before.given
      request  == before.event
      invoice  == entry.given.invoice
      receipt  == ParseZapReceipt(entry.event)
      verdict  == IF receipt = Null THEN "unread" ELSE VerifyZapReceipt(receipt, Provider, ProviderLnurl)
      paid     == invoice.digits # Null /\ invoice.digits * PICOS[invoice.unit] = 10 * asked.amount
  IN  /\ verdict = "ok" =>
           /\ entry.given.by = Provider /\ paid
           /\ receipt.amountMillisats = asked.amount /\ receipt.pubkey = request.pubkey
           /\ asked.lnurl \in {Null} \cup {lnurl \in Lnurls : ToLowerCase(lnurl) = ProviderLnurl}
      /\ /\ entry.given.by = Provider /\ paid /\ asked.amount <= MAX_ZAP_MSATS
         /\ invoice.network \in BITCOIN_NETWORKS /\ ~invoice.mixedCase
         /\ asked.lnurl \in {Null, ProviderLnurl}
         /\ SoleTagValue(entry.event.tags, "description") = request
         => verdict = "ok" /\ receipt.amountSats = asked.amount \div MSATS_PER_SAT

(* A receipt that verifies was written by the provider for a payment of    *)
(* that amount, by the author who signed the request and for what it asks, *)
(* and every payment of a request as buildZapRequest writes it, up to 1    *)
(* BTC, has such a receipt (zap-parser.ts).                                *)
ReceiptsAreEarned == \A i \in DOMAIN path : path[i].by = "receipt" => IsEarned(path[i], path[i - 1])

(* What the amounts of a set of texts come to, and what that is in msats.  *)
SumOf(texts) == FoldSet(LAMBDA text, sum : text.amount + sum, 0, texts)

Millisats(unit, total) == CASE unit = "sat" -> total * MSATS_PER_SAT [] unit = "msat" -> total [] OTHER -> 0

(* A text of a proof that the mint made for its amount in a unit, by the   *)
(* first keyset of its id, and of one that a key alone spends.             *)
IsMinted(text, unit) ==
  \E j \in DOMAIN Keysets :
    LET keyset == Keysets[j] IN
    /\ keyset.id = text.id /\ \A k \in 1..(j - 1) : Keysets[k].id # text.id
    /\ keyset.unit = unit /\ text.amount \in DOMAIN keyset.keys
    /\ text.C # Null /\ text.dleq = keyset.keys[text.amount]

IsLocked(text, key) ==
  /\ text.secret \notin {Null, NotJson}
  /\ text.secret.data \in DOMAIN CompressedKeyOf
  /\ CompressedKeyOf[text.secret.data] = key
  /\ text.secret.tags \cap {"pubkeys", "refund", "locktime"} = {}

(* What a nutzap to the author of an event is worth, and whether it is.    *)
IsWorth(entry, about) ==
  LET info     == ParseNutzapInfo(about)
      nutzap   == ParseNutzap(entry.event)
      unit     == SoleTagValue(entry.event.tags, "unit") ?? "sat"
      stated   == {text \in ToSet(entry.given) \ {NotJson} : text.amount # Null}
      total    == SumOf(stated)
      msats    == Millisats(unit, total)
      good     == /\ info # Null
                  /\ HasTag(entry.event.tags, "p", info.pubkey)
                  /\ \E mint \in info.mints : HasTag(entry.event.tags, "u", mint)
                  /\ stated # {} /\ \A text \in stated : IsMinted(text, unit) /\ IsLocked(text, info.p2pkPubkey)
      verified == /\ info # Null /\ nutzap # Null
                  /\ VerifyNutzap(nutzap, info) = "ok" /\ VerifyNutzapDleq(nutzap, Keysets) = "ok"
  IN  /\ verified => good /\ info.p2pkPubkey # info.pubkey /\ nutzap.cashuAmount = [amount |-> total, unit |-> unit]
      /\ verified /\ unit \in {"sat", "msat"} =>
           nutzap.amountMillisats = msats /\ nutzap.amountSats = msats \div MSATS_PER_SAT /\ msats <= MAX_ZAP_MSATS
      /\ good /\ total <= MaxSafe /\ msats <= MAX_ZAP_MSATS => verified

(* A nutzap that verifies is worth what its proof texts state: each text   *)
(* counts once, is of a proof that the mint made for that amount and unit, *)
(* and that nobody but the recipient's P2PK key can spend; and a nutzap of *)
(* such texts verifies while its sum stays in range (zap-parser.ts,        *)
(* nutzap-info.ts).  A proof in two spellings is two texts, and counts     *)
(* twice: the code tells proofs apart by the text of their tags alone.     *)
NutzapsAreEarned == \A i \in DOMAIN path : path[i].by = "nutzap" => IsWorth(path[i], About(i))
=============================================================================
