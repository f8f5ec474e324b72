--------------------------- MODULE Subscriptions ---------------------------
(***************************************************************************)
(* Callers that share one connection to a relay.  Filters and messages are *)
(* the code's; the program that keeps the subscriptions, one per digest of *)
(* hashFilters, and the relay are external, modelled from what the docs of *)
(* hashFilters, serialiseReqMessage and RelayMessage say they do.          *)
(*                                                                         *)
(* The relay may read a wire filter in its own way where NIP-01 leaves it  *)
(* open: an empty list, or a # key it does not know, may be no condition.  *)
(***************************************************************************)
EXTENDS RelayMessages

CONSTANTS Callers, FilterSets,
          Stored,      \* the events the relay holds
          GroupIds,
          RelayUrl, RelayKey,  \* the relay, and the key its NIP-11 document names as self
          Posts,       \* [event, accepted, reason]: what is published and the relay's verdict
          Reasons,     \* the reasons a relay closes a subscription with
          Strays,      \* the sequence of other messages a relay sends, malformed ones too
          MaxFrames    \* bounds the messages on their way to the program

(* An object has a key once.  A list and a search are sequences, since and *)
(* until numbers, unless Null or NotAList was forced past the type.        *)
IsFilter(filter) ==
  /\ filter \in Seq(ToSet(filter))
  /\ \A entry, other \in ToSet(filter) : KeyOf(entry) = KeyOf(other) => entry = other
  /\ \A entry \in ToSet(filter) :
       /\ entry.field \in {"since", "until"} => entry.value = Null \/ entry.value \in Nat
       /\ entry.field \in {"ids", "authors", "kinds", "#", "search"} =>
            \/ entry.value = Null
            \/ entry.field = "#" /\ entry.value = NotAList
            \/ entry.value # NotAList /\ entry.value \in Seq(ToSet(entry.value))

ASSUME FilterSetsAssumption ==
  \A filters \in FilterSets :
    filters \in Seq(ToSet(filters)) /\ \A filter \in ToSet(filters) : IsFilter(filter)
(* What the relay holds are well-formed events, of the seven fields.       *)
ASSUME StoredAssumption ==
  \A event \in Stored :
    event.tags \in Seq(ToSet(event.tags)) /\ ParseNostrEvent(Json("object", event)) = event
(* No other message answers a subscription, or refuses anything.           *)
ASSUME StraysAssumption ==
  \A i \in DOMAIN Strays :
    LET message == ParseRelayMessage(Strays[i]) IN
    \/ message = Null \/ message.type \in {"NOTICE", "AUTH", "COUNT"}
    \/ message.type = "OK" /\ message.accepted
    \/ message.type = "EOSE" /\ "finish" \notin message.hints

VARIABLES
  asked,    \* caller -> the filters it asked for, or Null; it asks once
  subOf,    \* caller -> its subscription, or Null
  held,     \* subscription -> [hash, found, end] of the program, or Null
  serving,  \* subscription -> [wire, sent, ended] of the relay, or Null
  frames,   \* the messages on their way to the program
  refusal   \* the refusal read in the last step, [stated, reason], or Null

vars == <<asked, subOf, held, serving, frames, refusal>>

Holdings == [hash : {HashFilters(filters) : filters \in FilterSets}, found : SUBSET Stored,
                  end : {"none", "more", "finish", "closed"}]
Servings == [wire : {WireFilters(filters) : filters \in FilterSets}, sent : SUBSET Stored, ended : BOOLEAN]
Answers  == [type : {"EVENT"}, subscriptionId : SubscriptionIds, event : Stored]
                 \cup [type : {"EOSE"}, subscriptionId : SubscriptionIds, hints : SUBSET {"finish", "more"}]

(* Null is none of what it stands in for, nor is NotAList a list's digest. *)
ASSUME NullAssumption ==
  /\ Null \notin FilterSets /\ Null \notin Stored
  /\ Null \notin SubscriptionIds \cup GroupIds \cup REASON_PREFIXES
  /\ Null \notin Holdings /\ Null \notin Servings /\ Null \notin Answers
  /\ \A filters \in FilterSets :
       /\ Null \notin {"REQ"} \X SubscriptionIds \X {WireFilters(filters)}
       /\ \A filter \in ToSet(filters) : \A entry \in ToSet(filter) :
            IsList(entry) => Counts(entry.value) \notin {Null, NotAList}

Init ==
  /\ asked = [caller \in Callers |-> Null]
  /\ subOf = [caller \in Callers |-> Null]
  /\ held = [sub \in SubscriptionIds |-> Null]
  /\ serving = [sub \in SubscriptionIds |-> Null]
  /\ frames = <<>>
  /\ refusal = Null

-----------------------------------------------------------------------------
(* The program.  A caller whose filters have the digest of an open         *)
(* subscription shares it; where no REQ is sent, nothing is stored.        *)
SharedBy(filters) == {sub \in SubscriptionIds : /\ \E caller \in Callers : subOf[caller] = sub
                                                /\ held[sub].hash = HashFilters(filters)}

Share(caller, filters) ==
  /\ \E sub \in SharedBy(filters) : subOf' = [subOf EXCEPT ![caller] = sub]
  /\ UNCHANGED <<held, serving>>

Open(caller, filters) ==
  LET free == {id \in SubscriptionIds : held[id] = Null}
      sub  == CHOOSE id \in free : TRUE
      req  == SerialiseReqMessage(sub, filters)
  IN  /\ SharedBy(filters) = {} /\ free # {}
      /\ held' = [held EXCEPT ![sub] = [hash |-> HashFilters(filters), found |-> {},
                                        end |-> IF req = Null THEN "finish" ELSE "none"]]
      /\ serving' = [serving EXCEPT ![sub] = IF req = Null THEN Null
                                             ELSE [wire |-> req[3], sent |-> {}, ended |-> FALSE]]
      /\ subOf' = [subOf EXCEPT ![caller] = sub]

Ask(caller, filters) ==
  /\ asked[caller] = Null
  /\ \A i \in DOMAIN filters : ~ThrowsOnNull(filters[i])
  /\ asked' = [asked EXCEPT ![caller] = filters]
  /\ Share(caller, filters) \/ Open(caller, filters)
  /\ refusal' = Null
  /\ UNCHANGED frames

(* The last caller of a subscription closes it at the relay.               *)
Leave(caller) ==
  /\ subOf[caller] # Null
  /\ subOf' = [subOf EXCEPT ![caller] = Null]
  /\ LET close == SerialiseCloseMessage(subOf[caller]) IN
     serving' = IF \E other \in Callers \ {caller} : subOf[other] = subOf[caller] THEN serving
                ELSE [serving EXCEPT ![close[2]] = Null]
  /\ refusal' = Null
  /\ UNCHANGED <<asked, held, frames>>

KIND_CLIENT_AUTH == 22242

Message(event) ==
  IF event.kind = KIND_CLIENT_AUTH THEN SerialiseAuthMessage(event) ELSE SerialiseEventMessage(event)

Send(frame) ==
  /\ Len(frames) < MaxFrames
  /\ frames' = Append(frames, frame)
  /\ refusal' = Null

(* An event reaches the relay, which takes the seven fields and answers.   *)
Publish(post) ==
  /\ Send(<<Json("string", "OK"), Json("string", Message(post.event)[2].id),
            Json("boolean", post.accepted), Json("reason", post.reason)>>)
  /\ UNCHANGED <<asked, subOf, held, serving>>

-----------------------------------------------------------------------------
(* The relay.                                                              *)
Accepts(entry, event) ==
  CASE entry.field = "ids"     -> entry.value = <<>> \/ event.id \in ToSet(entry.value)
    [] entry.field = "authors" -> entry.value = <<>> \/ event.pubkey \in ToSet(entry.value)
    [] entry.field = "kinds"   -> entry.value = <<>> \/ event.kind \in ToSet(entry.value)
    [] entry.field = "#"       -> \/ entry.letter \notin Letters \/ entry.value = <<>>
                                  \/ \E value \in ToSet(entry.value) : HasTag(event.tags, entry.letter, value)
    [] entry.field = "since"   -> ~(event.created_at < entry.value)
    [] entry.field = "until"   -> ~(event.created_at > entry.value)
    [] entry.field = "search"  -> \A term \in ToSet(entry.value) : term \in event.content \cup Extensions
    [] entry.field = "limit"   -> TRUE

Selected(wire) ==
  {event \in Stored : \E filter \in ToSet(wire) : \A entry \in ToSet(filter) : Accepts(entry, event)}

WithOwnField(event) ==
  [field \in NIP01_FIELDS \cup {"seen"} |-> IF field = "seen" THEN "today" ELSE event[field]]

(* A stored event, the newest first, with a field of the relay's own.      *)
Serve(sub, event) ==
  /\ serving[sub] # Null
  /\ LET left == Selected(serving[sub].wire) \ serving[sub].sent IN
     event \in left /\ \A other \in left : other.created_at <= event.created_at
  /\ serving' = [serving EXCEPT ![sub].sent = @ \cup {event}]
  /\ Send(<<Json("string", "EVENT"), Json("string", sub),
            Json("object", WithOwnField(event))>>)
  /\ UNCHANGED <<asked, subOf, held>>

(* A relay that sent all it holds may say so (NIP-67).                     *)
EndOfStored(sub, hints) ==
  /\ serving[sub] # Null /\ ~serving[sub].ended
  /\ Json("string", "finish") \in ToSet(hints) => serving[sub].sent = Selected(serving[sub].wire)
  /\ serving' = [serving EXCEPT ![sub].ended = TRUE]
  /\ Send(<<Json("string", "EOSE"), Json("string", sub), Json("array", hints)>>)
  /\ UNCHANGED <<asked, subOf, held>>

Refuse(sub, reason) ==
  /\ serving[sub] # Null
  /\ serving' = [serving EXCEPT ![sub] = Null]
  /\ Send(<<Json("string", "CLOSED"), Json("string", sub), Json("reason", reason)>>)
  /\ UNCHANGED <<asked, subOf, held>>

Stray(frame) ==
  /\ Send(frame)
  /\ UNCHANGED <<asked, subOf, held, serving>>

-----------------------------------------------------------------------------
(* The program reads the next message, which it drops where it is Null.    *)
After(subscription, message) ==
  CASE message.type = "EVENT"  -> [subscription EXCEPT !.found = @ \cup {message.event}]
    [] message.type = "EOSE"   -> [subscription EXCEPT !.end =
                                     IF EoseHasHint(message, "finish") \/ @ = "finish" THEN "finish" ELSE "more"]
    [] message.type = "CLOSED" -> [subscription EXCEPT !.end = IF @ = "finish" THEN @ ELSE "closed"]
    [] OTHER                   -> subscription

IsForSubscription(message) ==
  message # Null /\ "subscriptionId" \in DOMAIN message /\ held[message.subscriptionId] # Null

IsRefusal(message) ==
  /\ message # Null
  /\ \/ message.type = "CLOSED"
     \/ message.type = "OK" /\ ~message.accepted

Read ==
  /\ frames # <<>>
  /\ frames' = Tail(frames)
  /\ LET message == ParseRelayMessage(Head(frames)) IN
     /\ held' = IF IsForSubscription(message)
                THEN [held EXCEPT ![message.subscriptionId] = After(@, message)] ELSE held
     /\ refusal' = IF IsRefusal(message)
                   THEN [stated |-> Last(Head(frames)).v, reason |-> message.reason] ELSE Null
  /\ UNCHANGED <<asked, subOf, serving>>

Hints == {<<Json("string", "finish")>>, <<Json("string", "more")>>, <<Json("string", "finish"), Json("number", "1")>>}

Next ==
  \/ \E caller \in Callers, filters \in FilterSets : Ask(caller, filters)
  \/ \E caller \in Callers : Leave(caller)
  \/ \E post \in Posts : Publish(post)
  \/ \E sub \in SubscriptionIds, event \in Stored : Serve(sub, event)
  \/ \E sub \in SubscriptionIds, hints \in Hints : EndOfStored(sub, hints)
  \/ \E sub \in SubscriptionIds, reason \in Reasons : Refuse(sub, reason)
  \/ \E i \in DOMAIN Strays : Stray(Strays[i])
  \/ Read

Spec == Init /\ [][Next]_vars

-----------------------------------------------------------------------------
Matching(filters) == {event \in Stored : MatchesSome(filters, event)}

GroupsIn(events) == {ParseGroupMetadata(event, RelayUrl, RelayKey) : event \in events} \ {Null}

FindsWhatWasAsked(caller) ==
  LET sub == held[subOf[caller]] IN
  /\ sub.found \subseteq Matching(asked[caller])
  /\ sub.end = "finish" => sub.found = Matching(asked[caller])
  /\ \A id \in GroupIds : asked[caller] = << GroupMetadataFilter(id) >> =>
       \A group \in GroupsIn(sub.found) : group.id = id

RefusalsSayWhy ==
  refusal # Null =>
    refusal.reason = IF refusal.stated.prefix \in REASON_PREFIXES THEN refusal.stated.prefix ELSE "error"

(* Whatever way the relay reads a wire filter, and whoever shares the      *)
(* subscription, a caller finds nothing but the events compileFilters      *)
(* matches for what it asked, with the seven fields they were stored with; *)
(* once the end the relay calls final was read it found all of them; the   *)
(* groups that a group's filter finds are that group; and a refused        *)
(* subscription or event carries a reason, the relay's own where that is a *)
(* standardised one.                                                       *)
AskedAndAnswered ==
  /\ \A caller \in Callers : subOf[caller] # Null => FindsWhatWasAsked(caller)
  /\ RefusalsSayWhy
=============================================================================
