----------------------- MODULE ReplaceableListProofs -----------------------
(***************************************************************************)
(* Proofs about ReplaceableList for every set of clients, lists, events    *)
(* and ids: stores converge, an edit stays on its list and replaces its    *)
(* base, and editing one half of a list leaves the other as it was.        *)
(***************************************************************************)
EXTENDS ReplaceableList, TLAPS

Key(event) == ReplaceableStorageKey(event)

(* kept is what a store that has seen the events seen must hold: of every  *)
(* key, the one event that supersedes every other.                         *)
Survives(kept, seen) ==
  /\ kept \subseteq seen
  /\ \A f \in kept : Key(f) # NoKey
  /\ \A f, g \in kept : Key(f) = Key(g) => f = g
  /\ \A e \in seen : Key(e) # NoKey =>
       \E f \in kept : Key(f) = Key(e) /\ (f = e \/ ReplaceableSupersedes(f, e))

HoldsTheSurvivors == \A c \in Clients : Survives(stored[c], received[c])

UniqueIds == \A e, f \in signed : e.id = f.id => e = f

(* What a call carries across its awaits.                                  *)
Addressed(edit, events) ==
  /\ IsValidAddressableRef(edit.target.kind, edit.target.dTag)
  /\ edit.base # NoEvent =>
       edit.base \in events /\ Key(edit.base) = TargetKey(edit.target)

CarriesOver(edit) ==
  edit.base # NoEvent =>
    IF edit.visibility = "public" THEN edit.next.content = edit.base.content
    ELSE edit.next.publicTags = edit.base.tags

Stamped(edit) ==
  /\ edit.template.kind = edit.target.kind
  /\ edit.template.tags = WithDTag(edit.next.publicTags, edit.target)
  /\ edit.template.content = ListContent(edit.visibility, edit.next)

EditShape ==
  \A c \in Clients :
    /\ edits[c].stage \in {"assembling", "signing"} =>
         Addressed(edits[c], signed) /\ CarriesOver(edits[c])
    /\ edits[c].stage = "signing" => Stamped(edits[c])

LineageKeeps == \A pair \in lineage : Key(pair[1]) = Key(pair[2])

IInv ==
  TypeOK /\ UniqueIds /\ HoldsTheSurvivors /\ EditShape /\ LineageKeeps

-----------------------------------------------------------------------------
(* replaceableSupersedes is a strict total order on events of distinct ids.*)
LEMMA Precedence ==
  ASSUME NEW e \in Events, NEW f \in Events, NEW g \in Events
  PROVE  /\ ~(ReplaceableSupersedes(e, f) /\ ReplaceableSupersedes(f, e))
         /\ ReplaceableSupersedes(e, f) /\ ReplaceableSupersedes(f, g)
              => ReplaceableSupersedes(e, g)
         /\ e.id # f.id => ReplaceableSupersedes(e, f) \/ ReplaceableSupersedes(f, e)
<1>1. \A x \in Events : x.id \in Nat /\ x.created_at \in Nat
  <2>. TAKE x \in Events
  <2>1. x.id \in Ids /\ x.created_at \in 0..MaxTime
    BY DEF Events
  <2>2. Ids \subseteq Nat /\ MaxTime \in Nat
    BY IdsAssumption, TimesAssumption
  <2>3. x.id \in Nat
    BY <2>1, <2>2
  <2>4. x.created_at \in Nat
    BY <2>1, <2>2
  <2>. QED BY <2>3, <2>4
<1>. QED BY <1>1 DEF ReplaceableSupersedes

LEMMA KeepHoldsTheSurvivors ==
  ASSUME NEW seen \in SUBSET Events, NEW kept, NEW e \in Events, Survives(kept, seen),
         \A f, g \in seen \cup {e} : f.id = g.id => f = g
  PROVE  Survives(Keep(kept, e), seen \cup {e})
<1>. DEFINE rivals == {held \in kept : Key(held) = Key(e)}
            wins   == Key(e) # NoKey /\ \A held \in rivals : ReplaceableSupersedes(e, held)
            new    == Keep(kept, e)
<1>1. new = IF wins THEN (kept \ rivals) \cup {e} ELSE kept
  BY DEF Keep, Key
<1>2. kept \subseteq seen /\ kept \subseteq Events
  BY DEF Survives
<1>. HIDE DEF new
<1>3. CASE wins
  <2>1. new \subseteq seen \cup {e} /\ \A f \in new : Key(f) # NoKey
    BY <1>1, <1>2, <1>3 DEF Survives
  <2>2. \A f, g \in new : Key(f) = Key(g) => f = g
    BY <1>1, <1>3 DEF Survives
  <2>3. ASSUME NEW x \in seen \cup {e}, Key(x) # NoKey
        PROVE  \E f \in new : Key(f) = Key(x) /\ (f = x \/ ReplaceableSupersedes(f, x))
    <3>1. e \in new
      BY <1>1, <1>3
    <3>2. CASE x = e
      BY <3>1, <3>2
    <3>3. CASE x \in seen
      <4>1. PICK f \in kept : Key(f) = Key(x) /\ (f = x \/ ReplaceableSupersedes(f, x))
        BY <2>3, <3>3 DEF Survives
      <4>2. CASE f \in rivals
        <5>1. ReplaceableSupersedes(e, f) /\ Key(e) = Key(x)
          BY <1>3, <4>1, <4>2
        <5>2. ReplaceableSupersedes(e, x)
          BY <1>2, <3>3, <4>1, <5>1, Precedence
        <5>. QED BY <3>1, <5>1, <5>2
      <4>3. CASE f \notin rivals
        BY <1>1, <1>3, <4>1, <4>3
      <4>. QED BY <4>2, <4>3
    <3>. QED BY <3>2, <3>3
  <2>. QED BY <2>1, <2>2, <2>3 DEF Survives, new
<1>4. CASE ~wins
  <2>1. new = kept
    BY <1>1, <1>4
  <2>2. ASSUME Key(e) # NoKey
        PROVE  \E f \in kept : Key(f) = Key(e) /\ (f = e \/ ReplaceableSupersedes(f, e))
    <3>1. PICK f \in rivals : ~ReplaceableSupersedes(e, f)
      BY <1>4, <2>2
    <3>2. f = e \/ f.id # e.id
      BY <1>2, <3>1
    <3>3. f = e \/ ReplaceableSupersedes(f, e)
      BY <1>2, <3>1, <3>2, Precedence
    <3>. QED BY <3>1, <3>3
  <2>. QED BY <2>1, <2>2 DEF Survives, new
<1>. QED BY <1>3, <1>4

(* Two stores that hold the survivors of the same events hold the same.    *)
LEMMA SurvivorsAreUnique ==
  ASSUME NEW seen \in SUBSET Events, NEW k, NEW l, Survives(k, seen), Survives(l, seen)
  PROVE  k \subseteq l
<1>. SUFFICES ASSUME NEW f \in k PROVE f \in l
  OBVIOUS
<1>1. f \in seen /\ Key(f) # NoKey
  BY DEF Survives
<1>2. PICK g \in l : Key(g) = Key(f) /\ (g = f \/ ReplaceableSupersedes(g, f))
  BY <1>1 DEF Survives
<1>3. g \in seen /\ Key(g) # NoKey
  BY <1>2 DEF Survives
<1>4. PICK h \in k : Key(h) = Key(g) /\ (h = g \/ ReplaceableSupersedes(h, g))
  BY <1>3 DEF Survives
<1>5. h = f
  BY <1>2, <1>4 DEF Survives
<1>. QED BY <1>1, <1>2, <1>3, <1>4, <1>5, Precedence

LEMMA OneDTag ==
  ASSUME NEW tags, NEW v, tags.d = {v}
  PROVE  GetDTag(tags) = v
<1>1. SoleTagState(tags.d) = "one"
  BY DEF SoleTagState
<1>2. (CHOOSE w \in tags.d : TRUE) = v
  OBVIOUS
<1>. QED BY <1>1, <1>2 DEF GetDTag

(* Whatever a template's public tags held, its event has the target's key. *)
LEMMA KeyOfSigned ==
  ASSUME NEW c \in Clients, NEW id \in Ids, IInv, edits[c].stage = "signing"
  PROVE  /\ Key(AsSigned(edits[c].template, id)) = TargetKey(edits[c].target)
         /\ AsSigned(edits[c].template, id) \in Events
         /\ AsSigned(edits[c].template, id).id = id
<1>. DEFINE e == edits[c]
            t == e.template
            s == AsSigned(t, id)
<1>1. e \in Signing /\ Addressed(e, signed) /\ Stamped(e)
  <2>1. e \in {NoEdit} \cup Assembling \cup Signing
    BY DEF IInv, TypeOK
  <2>. QED BY <2>1 DEF IInv, EditShape, NoEdit, Assembling
<1>2. t \in Templates /\ e.target.kind = t.kind /\ e.target.dTag \in Identifiers
      /\ e.next.publicTags \in PublicTags
  BY <1>1, InputsAssumption DEF Signing, Stamped, ListContents
<1>3. KindCategory(t.kind) = "addressable" => t.tags.d = {e.target.dTag}
  BY <1>1, <1>2 DEF Stamped, WithDTag, PublicTags
<1>4. WithAddressIdentifier(t) = t
  BY <1>3 DEF WithAddressIdentifier
<1>5. s = [id |-> id, pubkey |-> Author, kind |-> t.kind, created_at |-> t.created_at,
           tags |-> t.tags, content |-> t.content]
  BY <1>4 DEF AsSigned
<1>6. s \in Events
  BY <1>2, <1>5, AuthorAssumption DEF Events, Templates
<1>7. CASE KindCategory(t.kind) = "addressable"
  <2>1. GetDTag(s.tags) = e.target.dTag
    <3>1. s.tags.d = {e.target.dTag}
      BY <1>3, <1>5, <1>7
    <3>. QED BY <3>1, OneDTag
  <2>. QED BY <1>2, <1>5, <1>6, <1>7, <2>1, NoIdentifierAssumption
       DEF Key, ReplaceableStorageKey, TargetKey
<1>8. CASE KindCategory(t.kind) # "addressable"
  <2>1. KindCategory(t.kind) = "replaceable"
    BY <1>1, <1>2, <1>8 DEF Addressed, IsValidAddressableRef
  <2>. QED BY <1>2, <1>5, <1>6, <1>8, <2>1 DEF Key, ReplaceableStorageKey, TargetKey
<1>. QED BY <1>5, <1>6, <1>7, <1>8

-----------------------------------------------------------------------------
LEMMA InitIsInductive == Init => IInv
<1>. SUFFICES ASSUME Init PROVE IInv
  OBVIOUS
<1>1. TypeOK
  BY PublishedAssumption, TimesAssumption DEF Init, TypeOK
<1>2. UniqueIds /\ LineageKeeps
  BY PublishedAssumption DEF Init, UniqueIds, LineageKeeps
<1>3. HoldsTheSurvivors
  BY DEF Init, HoldsTheSurvivors, Survives
<1>4. EditShape
  BY DEF Init, EditShape, NoEdit
<1>. QED BY <1>1, <1>2, <1>3, <1>4 DEF IInv

(* A step that only moves client c's call on.                              *)
LEMMA EditStepKeeps ==
  ASSUME IInv, UNCHANGED <<clock, signed, received, stored, lineage>>,
         NEW c \in Clients, NEW edit \in {NoEdit} \cup Assembling \cup Signing,
         edits' = [edits EXCEPT ![c] = edit],
         edit.stage \in {"assembling", "signing"} => Addressed(edit, signed) /\ CarriesOver(edit),
         edit.stage = "signing" => Stamped(edit)
  PROVE  IInv'
<1>1. TypeOK'
  BY DEF IInv, TypeOK
<1>2. UniqueIds' /\ LineageKeeps' /\ HoldsTheSurvivors'
  BY DEF IInv, UniqueIds, LineageKeeps, HoldsTheSurvivors
<1>3. EditShape'
  <2>. SUFFICES ASSUME NEW d \in Clients
                PROVE  /\ edits'[d].stage \in {"assembling", "signing"} =>
                            Addressed(edits'[d], signed') /\ CarriesOver(edits'[d])
                       /\ edits'[d].stage = "signing" => Stamped(edits'[d])
    BY DEF EditShape
  <2>1. edits'[d] = IF d = c THEN edit ELSE edits[d]
    BY DEF IInv, TypeOK
  <2>. QED BY <2>1 DEF IInv, EditShape, Addressed
<1>. QED BY <1>1, <1>2, <1>3 DEF IInv

LEMMA NoEditKeeps ==
  ASSUME IInv, UNCHANGED <<clock, signed, received, stored, lineage>>,
         NEW c \in Clients, edits' = [edits EXCEPT ![c] = NoEdit]
  PROVE  IInv'
<1>1. NoEdit.stage = "none"
  BY DEF NoEdit
<1>. QED BY <1>1, EditStepKeeps

LEMMA StutterKeeps == ASSUME IInv, UNCHANGED vars PROVE IInv'
BY DEF vars, IInv, TypeOK, UniqueIds, HoldsTheSurvivors, EditShape, Addressed,
       CarriesOver, Stamped, LineageKeeps, Survives

LEMMA BeginKeeps ==
  ASSUME IInv, NEW c \in Clients, NEW target \in Targets,
         NEW visibility \in {"public", "private"}, NEW base \in Events \cup {NoEvent},
         NEW next \in ListContents, Begin(c, target, visibility, base, next),
         IsValidAddressableRef(target.kind, target.dTag),
         base # NoEvent =>
           /\ base \in signed /\ Key(base) = TargetKey(target)
           /\ IF visibility = "public" THEN next.content = base.content
              ELSE next.publicTags = base.tags
  PROVE  IInv'
<1>. DEFINE edit == [stage |-> "assembling", target |-> target,
                     visibility |-> visibility, base |-> base, next |-> next]
<1>1. edit \in Assembling
  BY DEF Assembling
<1>2. Addressed(edit, signed) /\ CarriesOver(edit)
  BY DEF Addressed, CarriesOver
<1>3. edit.stage = "assembling"
  OBVIOUS
<1>4. /\ edits' = [edits EXCEPT ![c] = edit]
      /\ UNCHANGED <<clock, signed, received, stored, lineage>>
  BY DEF Begin
<1>. QED BY <1>1, <1>2, <1>3, <1>4, EditStepKeeps

(* What decryptPrivateEntries may answer is a list or a failure.           *)
LEMMA ReadTypes ==
  ASSUME NEW list \in Events, NEW read \in DecryptPrivateEntries(list)
  PROVE  read = Unreadable \/ read \in PrivateLists
<1>1. CASE list.content = NoContent
  BY <1>1, ListsAssumption DEF DecryptPrivateEntries
<1>2. CASE list.content # NoContent
  <2>1. list.content.plaintext \in Plaintexts
    BY <1>2 DEF Events, Contents
  <2>2. PICK text \in DecryptJson(CipherSchemeOf(list.content), list.content) :
          read = IF text \in {Unreadable, NotAnArray} THEN Unreadable ELSE text.tags
    BY <1>2 DEF DecryptPrivateEntries
  <2>3. text = Unreadable \/ text = list.content.plaintext
    BY <2>2 DEF DecryptJson
  <2>. QED BY <2>1, <2>2, <2>3 DEF Plaintexts
<1>. QED BY <1>1, <1>2

LEMMA EditListKeeps ==
  ASSUME IInv, NEW c \in Clients, NEW target \in Targets,
         NEW visibility \in {"public", "private"}, EditList(c, target, visibility)
  PROVE  IInv'
<1>1. PICK base \in stored[c] :
       /\ ReplaceableStorageKey(base) = TargetKey(target)
       /\ \/ /\ visibility = "public"
             /\ \E read \in DecryptPrivateEntries(base), modified \in Modified :
                  IF modified = base.tags THEN UNCHANGED vars
                  ELSE Begin(c, target, visibility, base,
                             [publicTags  |-> modified,
                              privateTags |-> IF read = Unreadable
                                              THEN NoPrivateTags ELSE read,
                              content     |-> base.content])
          \/ /\ visibility = "private"
             /\ \E read \in DecryptPrivateEntries(base) \ {Unreadable},
                   modified \in PrivateLists :
                  IF modified = read THEN UNCHANGED vars
                  ELSE Begin(c, target, visibility, base,
                             [publicTags  |-> base.tags,
                              privateTags |-> modified,
                              content     |-> base.content])
  BY DEF EditList
<1>2. base \in signed /\ base \in Events
  BY DEF IInv, TypeOK
<1>3. base.tags \in PublicTags /\ base.content \in Contents
  BY <1>2 DEF Events
<1>4. IsValidAddressableRef(target.kind, target.dTag)
  BY DEF EditList
<1>5. CASE visibility = "public"
  <2>1. PICK read \in DecryptPrivateEntries(base), modified \in Modified :
          IF modified = base.tags THEN UNCHANGED vars
          ELSE Begin(c, target, visibility, base,
                     [publicTags  |-> modified,
                      privateTags |-> IF read = Unreadable THEN NoPrivateTags ELSE read,
                      content     |-> base.content])
    BY <1>1, <1>5
  <2>2. PICK next : next = [publicTags  |-> modified,
                            privateTags |-> IF read = Unreadable
                                            THEN NoPrivateTags ELSE read,
                            content     |-> base.content]
    OBVIOUS
  <2>3. next \in ListContents /\ next.content = base.content
    BY <1>2, <1>3, <2>2, ReadTypes, ListsAssumption, InputsAssumption DEF ListContents
  <2>4. UNCHANGED vars \/ Begin(c, target, visibility, base, next)
    BY <2>1, <2>2
  <2>. QED BY <1>1, <1>2, <1>4, <1>5, <2>3, <2>4, BeginKeeps, StutterKeeps DEF Key
<1>6. CASE visibility = "private"
  <2>1. PICK read \in DecryptPrivateEntries(base) \ {Unreadable},
             modified \in PrivateLists :
          IF modified = read THEN UNCHANGED vars
          ELSE Begin(c, target, visibility, base,
                     [publicTags  |-> base.tags,
                      privateTags |-> modified,
                      content     |-> base.content])
    BY <1>1, <1>6
  <2>2. PICK next : next = [publicTags  |-> base.tags,
                            privateTags |-> modified,
                            content     |-> base.content]
    OBVIOUS
  <2>3. next \in ListContents /\ next.publicTags = base.tags
    BY <1>3, <2>2 DEF ListContents
  <2>4. UNCHANGED vars \/ Begin(c, target, visibility, base, next)
    BY <2>1, <2>2
  <2>. QED BY <1>1, <1>2, <1>4, <1>6, <2>3, <2>4, BeginKeeps, StutterKeeps DEF Key
<1>. QED BY <1>5, <1>6

LEMMA NewListKeeps ==
  ASSUME IInv, NEW c \in Clients, NEW target \in Targets,
         NEW visibility \in {"public", "private"}, NewList(c, target, visibility)
  PROVE  IInv'
<1>1. PICK next \in ListContents : Begin(c, target, visibility, NoEvent, next)
  <2>1. CASE visibility = "public"
    <3>1. PICK entries \in Modified :
            Begin(c, target, visibility, NoEvent,
                  [publicTags |-> entries, privateTags |-> NoPrivateTags,
                   content |-> NoContent])
      BY <2>1 DEF NewList
    <3>2. [publicTags |-> entries, privateTags |-> NoPrivateTags,
           content |-> NoContent] \in ListContents
      BY InputsAssumption, ListsAssumption DEF ListContents, Contents
    <3>. QED BY <3>1, <3>2
  <2>2. CASE visibility = "private"
    <3>1. PICK entries \in PrivateLists :
            Begin(c, target, visibility, NoEvent,
                  [publicTags |-> [d |-> {}, entries |-> NoEntries],
                   privateTags |-> entries, content |-> NoContent])
      BY <2>2 DEF NewList
    <3>2. [publicTags |-> [d |-> {}, entries |-> NoEntries],
           privateTags |-> entries, content |-> NoContent] \in ListContents
      BY ListsAssumption DEF ListContents, Contents, PublicTags
    <3>. QED BY <3>1, <3>2
  <2>. QED BY <2>1, <2>2
<1>2. IsValidAddressableRef(target.kind, target.dTag)
  BY DEF NewList
<1>. QED BY <1>1, <1>2, BeginKeeps

LEMMA AssembleKeeps ==
  ASSUME IInv, NEW c \in Clients, NEW createdAt \in {clock} \cup Pins,
         Assemble(c, createdAt)
  PROVE  IInv'
<1>. DEFINE e == edits[c]
<1>1. e \in Assembling /\ Addressed(e, signed) /\ CarriesOver(e)
  <2>1. e \in {NoEdit} \cup Assembling \cup Signing /\ e.stage = "assembling"
    BY DEF IInv, TypeOK, Assemble
  <2>. QED BY <2>1 DEF IInv, EditShape, NoEdit, Signing
<1>2. PICK template : template =
        [kind |-> e.target.kind, created_at |-> createdAt,
         tags |-> WithDTag(e.next.publicTags, e.target),
         content |-> ListContent(e.visibility, e.next)]
  OBVIOUS
<1>3. PICK edit : edit =
        [stage |-> "signing", target |-> e.target, visibility |-> e.visibility,
         base |-> e.base, next |-> e.next, template |-> template]
  OBVIOUS
<1>4. template \in Templates
  <2>1. e.target.kind \in Kinds /\ e.target.dTag \in Identifiers
    BY <1>1, InputsAssumption DEF Assembling
  <2>2. createdAt \in 0..MaxTime
    BY TimesAssumption DEF IInv, TypeOK
  <2>3. e.next \in ListContents
    BY <1>1 DEF Assembling
  <2>4. WithDTag(e.next.publicTags, e.target) \in PublicTags
    BY <2>1, <2>3 DEF WithDTag, PublicTags, ListContents
  <2>5. ListContent(e.visibility, e.next) \in Contents
    BY <2>3 DEF ListContent, EncryptJson, ListContents, Contents, Plaintexts
  <2>. QED BY <1>2, <2>1, <2>2, <2>4, <2>5 DEF Templates
<1>5. edit \in Signing
  BY <1>1, <1>3, <1>4 DEF Assembling, Signing
<1>6. Addressed(edit, signed) /\ CarriesOver(edit) /\ Stamped(edit)
  BY <1>1, <1>2, <1>3 DEF Addressed, CarriesOver, Stamped
<1>7. /\ edits' = [edits EXCEPT ![c] = edit]
      /\ UNCHANGED <<clock, signed, received, stored, lineage>>
  BY <1>2, <1>3 DEF Assemble
<1>. QED BY <1>5, <1>6, <1>7, EditStepKeeps

LEMMA SignEventKeeps ==
  ASSUME IInv, NEW c \in Clients, NEW id \in Ids, SignEvent(c, id)
  PROVE  IInv'
<1>1. PICK event : event = AsSigned(edits[c].template, id)
  OBVIOUS
<1>2. /\ event \in Events /\ event.id = id
      /\ Key(event) = TargetKey(edits[c].target)
  BY <1>1, KeyOfSigned DEF SignEvent
<1>3. /\ signed' = signed \cup {event} /\ edits' = [edits EXCEPT ![c] = NoEdit]
      /\ lineage' = IF edits[c].base = NoEvent THEN lineage
                    ELSE lineage \cup {<<event, edits[c].base>>}
      /\ UNCHANGED <<clock, received, stored>>
      /\ edits[c].stage = "signing"
      /\ \A e \in signed : e.id # id
  BY <1>1 DEF SignEvent, FreeIds
<1>4. edits[c].base # NoEvent =>
        edits[c].base \in signed /\ Key(edits[c].base) = TargetKey(edits[c].target)
  BY <1>3 DEF IInv, EditShape, Addressed
<1>5. TypeOK'
  <2>1. lineage' \in SUBSET (signed' \X signed')
    BY <1>3, <1>4 DEF IInv, TypeOK
  <2>2. signed' \in SUBSET Events /\ clock' \in 0..MaxTime
    BY <1>2, <1>3 DEF IInv, TypeOK
  <2>3. edits' \in [Clients -> {NoEdit} \cup Assembling \cup Signing]
    BY <1>3 DEF IInv, TypeOK
  <2>4. received' \in [Clients -> SUBSET signed'] /\ stored' \in [Clients -> SUBSET signed']
    BY <1>3 DEF IInv, TypeOK
  <2>. QED BY <2>1, <2>2, <2>3, <2>4 DEF TypeOK
<1>6. UniqueIds' /\ HoldsTheSurvivors'
  BY <1>2, <1>3 DEF IInv, UniqueIds, HoldsTheSurvivors
<1>7. LineageKeeps'
  BY <1>2, <1>3, <1>4 DEF IInv, LineageKeeps
<1>8. EditShape'
  <2>. SUFFICES ASSUME NEW d \in Clients
                PROVE  /\ edits'[d].stage \in {"assembling", "signing"} =>
                            Addressed(edits'[d], signed') /\ CarriesOver(edits'[d])
                       /\ edits'[d].stage = "signing" => Stamped(edits'[d])
    BY DEF EditShape
  <2>1. edits'[d] = IF d = c THEN NoEdit ELSE edits[d]
    BY <1>3 DEF IInv, TypeOK
  <2>2. signed \subseteq signed' /\ NoEdit.stage = "none"
    BY <1>3 DEF NoEdit
  <2>. QED BY <2>1, <2>2 DEF IInv, EditShape, Addressed
<1>. QED BY <1>5, <1>6, <1>7, <1>8 DEF IInv

LEMMA DeliverKeeps ==
  ASSUME IInv, NEW c \in Clients, NEW event \in signed, Deliver(c, event)
  PROVE  IInv'
<1>1. /\ received' = [received EXCEPT ![c] = @ \cup {event}]
      /\ stored' = [stored EXCEPT ![c] = Keep(@, event)]
      /\ UNCHANGED <<clock, signed, edits, lineage>>
  BY DEF Deliver
<1>2. \A d \in Clients :
        /\ received'[d] = IF d = c THEN received[c] \cup {event} ELSE received[d]
        /\ stored'[d] = IF d = c THEN Keep(stored[c], event) ELSE stored[d]
  BY <1>1 DEF IInv, TypeOK
<1>3. received[c] \in SUBSET Events /\ event \in Events
      /\ received[c] \cup {event} \subseteq signed
  BY DEF IInv, TypeOK
<1>4. Survives(Keep(stored[c], event), received[c] \cup {event})
  BY <1>3, KeepHoldsTheSurvivors DEF IInv, HoldsTheSurvivors, UniqueIds
<1>5. HoldsTheSurvivors'
  BY <1>2, <1>4 DEF IInv, HoldsTheSurvivors
<1>6. TypeOK'
  <2>1. Keep(stored[c], event) \subseteq signed
    BY <1>3, <1>4 DEF Survives
  <2>. QED BY <1>1, <1>3, <2>1 DEF IInv, TypeOK
<1>7. UniqueIds' /\ LineageKeeps'
  BY <1>1 DEF IInv, UniqueIds, LineageKeeps
<1>8. EditShape'
  BY <1>1 DEF IInv, EditShape, Addressed, CarriesOver, Stamped
<1>. QED BY <1>5, <1>6, <1>7, <1>8 DEF IInv

LEMMA TickKeeps == ASSUME IInv, Tick PROVE IInv'
<1>1. TypeOK'
  BY TimesAssumption DEF IInv, TypeOK, Tick
<1>2. UniqueIds' /\ LineageKeeps' /\ HoldsTheSurvivors'
  BY DEF IInv, UniqueIds, LineageKeeps, HoldsTheSurvivors, Tick
<1>3. EditShape'
  BY DEF IInv, EditShape, Addressed, CarriesOver, Stamped, Tick
<1>. QED BY <1>1, <1>2, <1>3 DEF IInv

LEMMA Inductive == IInv /\ [Next]_vars => IInv'
<1>. SUFFICES ASSUME IInv, [Next]_vars PROVE IInv'
  OBVIOUS
<1>1. CASE \E c \in Clients, target \in Targets :
             \/ Thrown(c, target)
             \/ \E visibility \in {"public", "private"} :
                  EditList(c, target, visibility) \/ NewList(c, target, visibility)
  BY <1>1, EditListKeeps, NewListKeeps, StutterKeeps DEF Thrown
<1>2. CASE \E c \in Clients, createdAt \in {clock} \cup Pins : Assemble(c, createdAt)
  BY <1>2, AssembleKeeps
<1>3. CASE \E c \in Clients : SignerFails(c)
  BY <1>3, NoEditKeeps DEF SignerFails
<1>4. CASE \E c \in Clients, id \in Ids : SignEvent(c, id)
  BY <1>4, SignEventKeeps
<1>5. CASE \E c \in Clients, event \in signed : Deliver(c, event)
  BY <1>5, DeliverKeeps
<1>6. CASE Tick
  BY <1>6, TickKeeps
<1>7. CASE UNCHANGED vars
  BY <1>7, StutterKeeps
<1>. QED BY <1>1, <1>2, <1>3, <1>4, <1>5, <1>6, <1>7 DEF Next

LEMMA Invariance == Spec => []IInv
  BY InitIsInductive, Inductive, PTL DEF Spec

-----------------------------------------------------------------------------
(* The builders and the stores keep the state well formed.                 *)
THEOREM TypeCorrect == Spec => []TypeOK
<1>1. IInv => TypeOK
  BY DEF IInv
<1>. QED BY <1>1, Invariance, PTL

(* replaceableSupersedes makes stores converge, whatever the order and     *)
(* the repetitions in which events arrive.                                 *)
THEOREM StoresConverge == Spec => []Convergence
<1>1. IInv => Convergence
  <2>. SUFFICES ASSUME IInv, NEW c \in Clients, NEW d \in Clients, received[c] = received[d]
                PROVE  stored[c] = stored[d]
    BY DEF Convergence
  <2>1. received[c] \in SUBSET Events
    BY DEF IInv, TypeOK
  <2>2. Survives(stored[c], received[c]) /\ Survives(stored[d], received[c])
    BY DEF IInv, HoldsTheSurvivors
  <2>. QED BY <2>1, <2>2, SurvivorsAreUnique
<1>. QED BY <1>1, Invariance, PTL

(* withDTag and replaceableStorageKey agree: an edit competes with the     *)
(* version it was made from, whatever d tags either held.                  *)
THEOREM EditStaysOnItsList == Spec => []EditKeepsCoordinate
<1>1. IInv => EditKeepsCoordinate
  BY KeyOfSigned DEF IInv, LineageKeeps, EditKeepsCoordinate, Key
<1>. QED BY <1>1, Invariance, PTL

(* An edit stamped after its base replaces it in every store it reaches.   *)
THEOREM BaseIsReplaced == Spec => []EditReplacesItsBase
<1>1. IInv => EditReplacesItsBase
  <2>. SUFFICES ASSUME IInv, NEW pair \in lineage, NEW c \in Clients,
                       pair[1] \in received[c], pair[1].created_at > pair[2].created_at,
                       pair[2] \in stored[c]
                PROVE  FALSE
    BY DEF EditReplacesItsBase
  <2>1. pair[1] \in Events /\ pair[2] \in Events /\ Key(pair[1]) = Key(pair[2])
    BY DEF IInv, TypeOK, LineageKeeps
  <2>2. Survives(stored[c], received[c])
    BY DEF IInv, HoldsTheSurvivors
  <2>3. Key(pair[2]) # NoKey
    BY <2>2 DEF Survives
  <2>4. PICK f \in stored[c] : /\ Key(f) = Key(pair[1])
                               /\ f = pair[1] \/ ReplaceableSupersedes(f, pair[1])
    BY <2>1, <2>2, <2>3 DEF Survives
  <2>5. f = pair[2]
    BY <2>1, <2>2, <2>4 DEF Survives
  <2>6. ReplaceableSupersedes(pair[1], pair[2])
    BY DEF ReplaceableSupersedes
  <2>. QED BY <2>1, <2>4, <2>5, <2>6, Precedence
<1>. QED BY <1>1, Invariance, PTL

(* listContent and the spread of the current contents keep the half of a   *)
(* list that is not edited.                                                *)
THEOREM OtherHalfIsKept == Spec => []EditKeepsOtherHalf
<1>1. IInv => EditKeepsOtherHalf
  <2>. SUFFICES ASSUME IInv, NEW c \in Clients, edits[c].stage = "signing",
                       edits[c].base # NoEvent
                PROVE  LET e == edits[c]
                           t == e.template
                       IN  IF e.visibility = "public"
                           THEN /\ t.content = e.base.content
                                /\ t.tags.entries = e.next.publicTags.entries
                           ELSE /\ t.tags.entries = e.base.tags.entries
                                /\ t.content.scheme = "nip44"
                                /\ t.content.plaintext =
                                     [tags |-> e.next.privateTags, junk |-> FALSE]
    BY DEF EditKeepsOtherHalf
  <2>1. CarriesOver(edits[c]) /\ Stamped(edits[c])
    BY DEF IInv, EditShape
  <2>2. WithDTag(edits[c].next.publicTags, edits[c].target).entries
          = edits[c].next.publicTags.entries
    <3>1. edits[c].next.publicTags \in PublicTags
      <4>1. edits[c] \in Signing
        BY DEF IInv, TypeOK, NoEdit, Assembling
      <4>. QED BY <4>1 DEF Signing, ListContents
    <3>. QED BY <3>1 DEF WithDTag, PublicTags
  <2>. QED BY <2>1, <2>2 DEF CarriesOver, Stamped, ListContent, EncryptJson
<1>. QED BY <1>1, Invariance, PTL
=============================================================================
