-------------------------- MODULE ReplaceableList --------------------------
(***************************************************************************)
(* NIP-51 lists edited by several clients of one author, through           *)
(* buildReplaceableListEvent and buildNewListEvent                         *)
(* (src/application/service/replaceable-list.ts), decryptPrivateEntries,   *)
(* the JSON cipher and a signer, and kept by stores that receive the       *)
(* published events in any order, any number of times.                     *)
(*                                                                         *)
(* An edit reads a version of the list from the client's own store, awaits *)
(* the cipher, stamps the template, and awaits the signer: between these,  *)
(* other edits are published and the store moves on.  What modifyTags      *)
(* returns is any value.  Lists of tags are opaque values.                 *)
(***************************************************************************)
EXTENDS Replaceable, FiniteSets

CONSTANTS Clients,        \* clients with a store each
          Pubkeys,        \* authors of published events
          Author,         \* the author whose lists are edited
          Kinds, Identifiers,         \* kinds and d tag values
          Targets,        \* the coordinates the clients name
          Modified,       \* public tags modifyTags returns, or a new list's
          EntryLists, NoEntries,      \* values of the tags other than d tags
          PrivateLists, NoPrivateTags,  \* values of the private entries
          NotAnArray,     \* a plaintext that is JSON but no array
          NoContent,      \* the empty content
          Unreadable,     \* a PrivateEntriesFailure
          Ids,            \* event ids (the bound on signed events)
          MaxTime,        \* the last second of the clock (the bound)
          Pins,           \* values of createdAt a caller pins
          Published,      \* events signed before the clients start
          NoEvent         \* "a new list"

PublicTags == [d : SUBSET Identifiers, entries : EntryLists]
(* A plaintext is an array of tags, junk says with malformed rows or not.  *)
Plaintexts == [tags : PrivateLists, junk : BOOLEAN] \cup {NotAnArray}
Contents   == [scheme : {"nip04", "nip44"}, plaintext : Plaintexts] \cup {NoContent}
Events     == [id : Ids, pubkey : Pubkeys, kind : Kinds, created_at : 0..MaxTime,
               tags : PublicTags, content : Contents]
Templates  == [kind : Kinds, created_at : 0..MaxTime, tags : PublicTags,
               content : Contents]
ListContents == [publicTags : PublicTags, privateTags : PrivateLists,
                 content : Contents]

ASSUME IdsAssumption == Ids \subseteq Nat
ASSUME TimesAssumption == MaxTime \in Nat /\ Pins \subseteq 0..MaxTime
ASSUME ListsAssumption == NoPrivateTags \in PrivateLists /\ NoEntries \in EntryLists
ASSUME AuthorAssumption == Author \in Pubkeys
ASSUME NoIdentifierAssumption == NoIdentifier \notin Identifiers
ASSUME InputsAssumption ==
  Targets \subseteq [kind : Kinds, dTag : Identifiers] /\ Modified \subseteq PublicTags
ASSUME PublishedAssumption ==
  /\ Published \subseteq Events
  /\ \A e, f \in Published : e.id = f.id => e = f

VARIABLES clock,     \* the clients' clock, in seconds
          signed,    \* every event that was signed
          received,  \* received[c]: the events client c's store was handed
          stored,    \* stored[c]: the events it holds
          edits,     \* edits[c]: client c's call of a builder, or NoEdit
          lineage    \* the pairs <<edit, base>> among signed

vars == <<clock, signed, received, stored, edits, lineage>>

NoEdit     == [stage |-> "none"]
Assembling == [stage : {"assembling"}, target : Targets,
               visibility : {"public", "private"}, base : Events \cup {NoEvent},
               next : ListContents]
Signing    == [stage : {"signing"}, target : Targets,
               visibility : {"public", "private"}, base : Events \cup {NoEvent},
               next : ListContents, template : Templates]

TypeOK ==
  /\ clock \in 0..MaxTime
  /\ signed \in SUBSET Events
  /\ received \in [Clients -> SUBSET signed]
  /\ stored \in [Clients -> SUBSET signed]
  /\ edits \in [Clients -> {NoEdit} \cup Assembling \cup Signing]
  /\ lineage \in SUBSET (signed \X signed)

Init ==
  /\ clock = 0
  /\ signed = Published
  /\ received = [c \in Clients |-> {}]
  /\ stored = [c \in Clients |-> {}]
  /\ edits = [c \in Clients |-> NoEdit]
  /\ lineage = {}

-----------------------------------------------------------------------------
(* decryptPrivateEntries, as the results it may have: the signer, a        *)
(* signature that does not verify or a payload that is no JSON fail it;    *)
(* malformed rows are dropped.                                             *)
CipherSchemeOf(content) == content.scheme

DecryptJson(scheme, content) ==
  {Unreadable} \cup IF content.scheme = scheme THEN {content.plaintext} ELSE {}

DecryptPrivateEntries(list) ==
  IF list.content = NoContent THEN {NoPrivateTags, Unreadable}
  ELSE {IF text \in {Unreadable, NotAnArray} THEN Unreadable ELSE text.tags :
          text \in DecryptJson(CipherSchemeOf(list.content), list.content)}

EncryptJson(privateTags) ==
  [scheme |-> "nip44", plaintext |-> [tags |-> privateTags, junk |-> FALSE]]

(* The storage key an event for target has when its d tag is target's.     *)
TargetKey(target) ==
  IF KindCategory(target.kind) = "addressable"
  THEN <<Author, target.kind, target.dTag>> ELSE <<Author, target.kind>>

(* The bound: as many calls in progress as events can still be signed.     *)
FreeIds == Ids \ {e.id : e \in signed}
MayBegin(c) ==
  /\ edits[c] = NoEdit
  /\ Cardinality({d \in Clients : edits[d] # NoEdit}) < Cardinality(FreeIds)

Begin(c, target, visibility, base, next) ==
  /\ edits' = [edits EXCEPT ![c] =
                 [stage |-> "assembling", target |-> target,
                  visibility |-> visibility, base |-> base, next |-> next]]
  /\ UNCHANGED <<clock, signed, received, stored, lineage>>

(* assertListCoordinate, with which both builders begin, throws.           *)
Thrown(c, target) ==
  MayBegin(c) /\ ~IsValidAddressableRef(target.kind, target.dTag) /\ UNCHANGED vars

(* buildReplaceableListEvent up to the await, on the version the client's  *)
(* store holds.  A public edit needs no private entries; one that cannot   *)
(* read them goes on without.                                              *)
EditList(c, target, visibility) ==
  /\ MayBegin(c)
  /\ IsValidAddressableRef(target.kind, target.dTag)
  /\ \E base \in stored[c] :
       /\ ReplaceableStorageKey(base) = TargetKey(target)
       /\ \/ /\ visibility = "public"
             /\ \E read \in DecryptPrivateEntries(base), modified \in Modified :
                  IF modified = base.tags THEN UNCHANGED vars
                  ELSE Begin(c, target, visibility, base,
                             [publicTags  |-> modified,
                              privateTags |-> IF read = Unreadable
                                              THEN NoPrivateTags ELSE read,
                              content     |-> base.content])
          \/ /\ visibility = "private"
             /\ \E read \in DecryptPrivateEntries(base) \ {Unreadable},
                   modified \in PrivateLists :
                  IF modified = read THEN UNCHANGED vars
                  ELSE Begin(c, target, visibility, base,
                             [publicTags  |-> base.tags,
                              privateTags |-> modified,
                              content     |-> base.content])

(* buildNewListEvent up to the await.                                      *)
NewList(c, target, visibility) ==
  /\ MayBegin(c)
  /\ IsValidAddressableRef(target.kind, target.dTag)
  /\ \/ /\ visibility = "public"
        /\ \E entries \in Modified :
             Begin(c, target, visibility, NoEvent,
                   [publicTags |-> entries, privateTags |-> NoPrivateTags,
                    content |-> NoContent])
     \/ /\ visibility = "private"
        /\ \E entries \in PrivateLists :
             Begin(c, target, visibility, NoEvent,
                   [publicTags |-> [d |-> {}, entries |-> NoEntries],
                    privateTags |-> entries, content |-> NoContent])

-----------------------------------------------------------------------------
(* Bugs: a public edit writes the private entries anew, and a d tag of the *)
(* modified tags stays beside the target's.                                *)
ListContentAnew(visibility, contents) == EncryptJson(contents.privateTags)
WithDTagBeside(tags, target) ==
  IF KindCategory(target.kind) = "addressable"
  THEN [tags EXCEPT !.d = @ \cup {target.dTag}] ELSE tags

ListContent(visibility, contents) ==
  IF visibility = "public" THEN contents.content ELSE EncryptJson(contents.privateTags)

WithDTag(tags, target) ==
  IF KindCategory(target.kind) = "addressable"
  THEN [tags EXCEPT !.d = {target.dTag}] ELSE tags

(* assembleList: once the cipher has answered, the template is stamped.    *)
Assemble(c, createdAt) ==
  LET e == edits[c] IN
  /\ e.stage = "assembling"
  /\ edits' = [edits EXCEPT ![c] =
       [stage |-> "signing", target |-> e.target, visibility |-> e.visibility,
        base |-> e.base, next |-> e.next,
        template |-> [kind       |-> e.target.kind,
                      created_at |-> createdAt,
                      tags       |-> WithDTag(e.next.publicTags, e.target),
                      content    |-> ListContent(e.visibility, e.next)]]]
  /\ UNCHANGED <<clock, signed, received, stored, lineage>>

(* The cipher of a private list fails, or the signer declines.             *)
SignerFails(c) ==
  /\ \/ edits[c].stage = "assembling" /\ edits[c].visibility = "private"
     \/ edits[c].stage = "signing"
  /\ edits' = [edits EXCEPT ![c] = NoEdit]
  /\ UNCHANGED <<clock, signed, received, stored, lineage>>

(* buildUnsignedEvent: an addressable event without a d tag gains one.     *)
WithAddressIdentifier(template) ==
  IF KindCategory(template.kind) = "addressable" /\ template.tags.d = {}
  THEN [template EXCEPT !.tags.d = {""}] ELSE template

AsSigned(template, id) ==
  LET t == WithAddressIdentifier(template) IN
  [id |-> id, pubkey |-> Author, kind |-> t.kind, created_at |-> t.created_at,
   tags |-> t.tags, content |-> t.content]

(* The signer signs, under an id no other event has, and it is published.  *)
SignEvent(c, id) ==
  LET event == AsSigned(edits[c].template, id) IN
  /\ edits[c].stage = "signing"
  /\ id \in FreeIds
  /\ signed' = signed \cup {event}
  /\ lineage' = IF edits[c].base = NoEvent THEN lineage
                ELSE lineage \cup {<<event, edits[c].base>>}
  /\ edits' = [edits EXCEPT ![c] = NoEdit]
  /\ UNCHANGED <<clock, received, stored>>

(* A relay hands an event to a store: late, again, or never.               *)
Deliver(c, event) ==
  /\ received' = [received EXCEPT ![c] = @ \cup {event}]
  /\ stored' = [stored EXCEPT ![c] = Keep(@, event)]
  /\ UNCHANGED <<clock, signed, edits, lineage>>

Tick ==
  /\ clock < MaxTime /\ clock' = clock + 1
  /\ UNCHANGED <<signed, received, stored, edits, lineage>>

Next ==
  \/ \E c \in Clients, target \in Targets :
       \/ Thrown(c, target)
       \/ \E visibility \in {"public", "private"} :
            EditList(c, target, visibility) \/ NewList(c, target, visibility)
  \/ \E c \in Clients :
       \/ \E createdAt \in {clock} \cup Pins : Assemble(c, createdAt)
       \/ SignerFails(c)
       \/ \E id \in Ids : SignEvent(c, id)
       \/ \E event \in signed : Deliver(c, event)
  \/ Tick

Spec == Init /\ [][Next]_vars

-----------------------------------------------------------------------------
(* Stores that were handed the same events, in whatever order and however  *)
(* often, hold the same ones: the tie-break leaves nothing to arrival.     *)
Convergence ==
  \A c, d \in Clients : received[c] = received[d] => stored[c] = stored[d]

(* An edit stays on its list: whatever d tags the base or modifyTags held, *)
(* the signed event has the storage key of the target it was built for,    *)
(* so it competes with its base instead of starting a second list.         *)
EditKeepsCoordinate ==
  /\ \A c \in Clients, id \in Ids : edits[c].stage = "signing" =>
       ReplaceableStorageKey(AsSigned(edits[c].template, id)) = TargetKey(edits[c].target)
  /\ \A pair \in lineage :
       ReplaceableStorageKey(pair[1]) = ReplaceableStorageKey(pair[2])

(* A store that has seen an edit does not hold its base, unless the edit   *)
(* is stamped no later: a public edit or a private one, however stale, is  *)
(* lost only to the tie-break of its base's own second or to a pinned time.*)
EditReplacesItsBase ==
  \A pair \in lineage, c \in Clients :
    pair[1] \in received[c] /\ pair[1].created_at > pair[2].created_at
      => pair[2] \notin stored[c]

(* Editing one half of a list leaves the other as it was: a public edit    *)
(* carries the content over, readable or not, malformed rows and NIP-04    *)
(* ciphertext included; a private edit carries the public entries over,    *)
(* and writes exactly the entries asked for, under NIP-44.                 *)
EditKeepsOtherHalf ==
  \A c \in Clients :
    edits[c].stage = "signing" /\ edits[c].base # NoEvent =>
      LET e == edits[c]
          t == e.template
      IN  IF e.visibility = "public"
          THEN t.content = e.base.content /\ t.tags.entries = e.next.publicTags.entries
          ELSE /\ t.tags.entries = e.base.tags.entries
               /\ t.content.scheme = "nip44"
               /\ t.content.plaintext = [tags |-> e.next.privateTags, junk |-> FALSE]
=============================================================================
