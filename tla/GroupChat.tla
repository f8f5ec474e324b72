------------------------------ MODULE GroupChat ------------------------------
(***************************************************************************)
(* The NIP-29 group an event is posted to, as its h tags name it, and how  *)
(* an answer keeps it: src/domain/service/group-chat.ts.                   *)
(***************************************************************************)
EXTENDS ContentTags, EventAnalysis

(* The h tag of a group, or Null for the call that throws.                 *)
GroupTag(id, relayHint) ==
  IF id = "" THEN Null ELSE IF relayHint = Null THEN <<"h", id>> ELSE <<"h", id, relayHint>>

NamingGroupTags(event) ==
  Among(event.tags, {tag \in ToSet(event.tags) : At(tag, 1) = "h" /\ At(tag, 2) \notin {"", Null}})

(* The id and the hint are one claim each.                                 *)
GroupPointerOf(event) ==
  LET id    == SoleValue({tag[2] : tag \in ToSet(NamingGroupTags(event))})
      hints == {ParseRelayUrl(At(tag, 3)) : tag \in ToSet(NamingGroupTags(event))} \ {Null}
  IN  IF id = Null THEN Null ELSE [id |-> id, relayHint |-> SoleValue(hints)]

GroupTagOf(event) ==
  LET pointer == GroupPointerOf(event) IN
  IF pointer = Null THEN Null ELSE GroupTag(pointer.id, pointer.relayHint)

GroupRelayHintOf(event) == IF GroupPointerOf(event) = Null THEN Null ELSE GroupPointerOf(event).relayHint

(* A group is NoGroup, the code's null, an id, [id |-> ...], or the event  *)
(* an answer takes it from; a call is given one of the three.  Tags that   *)
(* name no one group are carried as they are written.                      *)
NoGroup == <<>>

GroupTagsFor(group, groupRelay) ==
  IF "tags" \notin DOMAIN group THEN << GroupTag(group.id, groupRelay) >>
  ELSE LET pointer == GroupPointerOf(group) IN
       IF pointer = Null THEN NamingGroupTags(group)
       ELSE << GroupTag(pointer.id, groupRelay ?? pointer.relayHint) >>

(* A bug: an event whose tags disagree gives its answer no group.          *)
WithSoleGroupTag(event, group, groupRelay) ==
  LET groupTags == IF DOMAIN group = {} THEN <<>>
                   ELSE IF "tags" \in DOMAIN group /\ GroupPointerOf(group) = Null THEN <<>>
                   ELSE GroupTagsFor(group, groupRelay)
  IN  IF Null \in ToSet(groupTags) THEN Null ELSE [event EXCEPT !.tags = @ \o groupTags]

(* Null for the empty id, which names no group.                            *)
WithGroupTag(event, group, groupRelay) ==
  LET groupTags == IF DOMAIN group = {} THEN <<>> ELSE GroupTagsFor(group, groupRelay)
  IN  IF Null \in ToSet(groupTags) THEN Null ELSE [event EXCEPT !.tags = @ \o groupTags]

BuildGroupChatMessage(groupId, relayHint, content) ==
  IF groupId = "" THEN Null
  ELSE [kind |-> KIND_CHAT_MESSAGE, tags |-> WithContentTags(<< GroupTag(groupId, relayHint) >>, content), content |-> content]
=============================================================================
