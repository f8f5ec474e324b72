----------------------------- MODULE RelayList -----------------------------
(***************************************************************************)
(* A client edits the r tags of a NIP-65 relay list, call after call:      *)
(* extractRelayEntries, addRelayTag, removeRelayTag and                    *)
(* setRelayEntryUsage of src/domain/service/tags.ts.                       *)
(*                                                                         *)
(* The list it starts from is anybody's: relays spelt in several ways,     *)
(* named twice, marked with words NIP-65 does not define, beside tags that *)
(* are nobody's business here.                                             *)
(***************************************************************************)
EXTENDS Tags

CONSTANTS Texts,       \* the strings tags are made of
          Published,   \* the tags of the lists other programs publish
          MaxTags      \* a bound: the tags of a list

RelayUrls == Range(RelayUrlOf)
Markers   == {"read", "write", "both"}

(* A tag is strings, and null is neither a string nor a boolean.           *)
ASSUME TextsAssumption    == {"r"} \cup Markers \cup DOMAIN RelayUrlOf \subseteq Texts
ASSUME NullTextAssumption == Null \notin Texts /\ Null \notin BOOLEAN
ASSUME PublishedAssumption == Published \subseteq Seq(Seq(Texts))

VARIABLES tags,  \* the list as the client holds it
          call,  \* the edit that gave it, NoCall as published
          fresh  \* that edit gave back another array than the one it was given

listVars == <<tags, call, fresh>>

(* A field of a RelayUsageChange that is absent leaves its direction as is. *)
Changes == [read : BOOLEAN \cup {Null}, write : BOOLEAN \cup {Null}]
Calls   == [op : {"add"}, url : RelayUrls, marker : Markers] \cup [op : {"remove"}, url : RelayUrls]
           \cup [op : {"use"}, url : RelayUrls, change : Changes]
NoCall  == [op |-> "none"]

ListTypeOK ==
  /\ tags \in Seq(Seq(Texts))
  /\ call \in Calls \cup {NoCall}
  /\ fresh \in BOOLEAN

-----------------------------------------------------------------------------
ToRelayMarker(value) == IF value \in {"read", "write"} THEN value ELSE "both"

(* A bug: the last tag of a relay has the last word.                       *)
LastMarker(a, b) == b

UnionMarker(a, b) == IF a = b THEN a ELSE "both"

RelayTagUrl(tag) == IF At(tag, 1) = "r" THEN ParseRelayUrl(At(tag, 2)) ELSE Null

(* One tag more of the map the relays are gathered in.                     *)
WithEntry(entries, tag) ==
  LET url    == RelayTagUrl(tag)
      marker == ToRelayMarker(At(tag, 3))
  IN  IF url = Null THEN entries
      ELSE IF \A entry \in ToSet(entries) : entry.url # url
      THEN Append(entries, [url |-> url, marker |-> marker])
      ELSE [i \in DOMAIN entries |->
              IF entries[i].url = url THEN [url |-> url, marker |-> UnionMarker(entries[i].marker, marker)]
              ELSE entries[i]]

ExtractRelayEntries(list) ==
  LET upTo[n \in 0..Len(list)] == IF n = 0 THEN <<>> ELSE WithEntry(upTo[n - 1], list[n])
  IN  upTo[Len(list)]

IsRelayTagFor(tag, url) == RelayTagUrl(tag) = url

HasRelayEntry(list, url) == \E tag \in ToSet(list) : IsRelayTagFor(tag, url)

(* The tags of a relay, in order, and the tags that are not of it.         *)
RelayTags(list, url) == Among(list, {tag \in ToSet(list) : IsRelayTagFor(tag, url)})
OtherTags(list, url) == Among(list, {tag \in ToSet(list) : ~IsRelayTagFor(tag, url)})

(* Where a relay is first named.                                           *)
FirstTag(list, url) ==
  CHOOSE i \in DOMAIN list : IsRelayTagFor(list[i], url) /\ \A j \in 1..(i - 1) : ~IsRelayTagFor(list[j], url)

RelayMarkerFor(read, write) ==
  CASE read /\ write  -> "both"
    [] read /\ ~write -> "read"
    [] ~read /\ write -> "write"
    [] OTHER          -> Null

GetRelayEntryMarker(list, url) ==
  LET found == {entry \in ToSet(ExtractRelayEntries(list)) : entry.url = url}
  IN  IF found = {} THEN Null ELSE (CHOOSE entry \in found : TRUE).marker

RelayTag(url, marker) == IF marker = "both" THEN <<"r", url>> ELSE <<"r", url, marker>>

AddRelayTag(list, url, marker) ==
  LET first == FirstTag(list, url)
  IN  IF ~HasRelayEntry(list, url) THEN Append(list, RelayTag(url, marker))
      ELSE OtherTags(SubSeq(list, 1, first - 1), url) \o << RelayTag(url, marker) >>
           \o OtherTags(SubSeq(list, first + 1, Len(list)), url)

RemoveRelayTag(list, url) == OtherTags(list, url)

-----------------------------------------------------------------------------
(* setRelayEntryUsage: the marker the change leaves, and the list, which   *)
(* is the very array it was given when nothing changes.                    *)
UsageAfter(marker, change) ==
  RelayMarkerFor(change.read ?? (marker \in {"read", "both"}), change.write ?? (marker \in {"write", "both"}))

IsWritten(list, url, marker) == RelayTags(list, url) = << RelayTag(url, marker) >>

(* A bug: a marker that stays as it was is taken for nothing to do.        *)
SetRelayEntryUsageByMarker(list, url, change) ==
  LET marker == GetRelayEntryMarker(list, url)
      next   == UsageAfter(marker, change)
  IN  [fresh |-> next # marker,
       tags  |-> IF next = marker THEN list
                 ELSE IF next = Null THEN RemoveRelayTag(list, url) ELSE AddRelayTag(list, url, next)]

SetRelayEntryUsage(list, url, change) ==
  LET marker == GetRelayEntryMarker(list, url)
      next   == UsageAfter(marker, change)
      itself == IF next = Null THEN marker = Null ELSE IsWritten(list, url, next)
  IN  [fresh |-> ~itself,
       tags  |-> IF itself THEN list
                 ELSE IF next = Null THEN RemoveRelayTag(list, url) ELSE AddRelayTag(list, url, next)]

Result(edit, list) ==
  CASE edit.op = "add"    -> [fresh |-> TRUE, tags |-> AddRelayTag(list, edit.url, edit.marker)]
    [] edit.op = "remove" -> [fresh |-> TRUE, tags |-> RemoveRelayTag(list, edit.url)]
    [] edit.op = "use"    -> SetRelayEntryUsage(list, edit.url, edit.change)

Edit(edit) ==
  LET result == Result(edit, tags) IN
  /\ Len(result.tags) <= MaxTags
  /\ call'  = edit
  /\ tags'  = result.tags
  /\ fresh' = result.fresh

ListInit == tags \in Published /\ call = NoCall /\ fresh = TRUE

ListNext == \E edit \in Calls : Edit(edit)

ListSpec == ListInit /\ [][ListNext]_listVars

-----------------------------------------------------------------------------
(* What a relay list says, whatever its order: the directions the tags of  *)
(* a relay name between them, a tag with any other word naming both.       *)
TagDirections(tag) == IF At(tag, 3) \in {"read", "write"} THEN {tag[3]} ELSE {"read", "write"}

Directions(list, url) == UNION {TagDirections(tag) : tag \in ToSet(RelayTags(list, url))}

MarkerDirections(marker) == IF marker = "both" THEN {"read", "write"} ELSE {marker}

Asked(edit, before) ==
  CASE edit.op = "add"    -> MarkerDirections(edit.marker)
    [] edit.op = "remove" -> {}
    [] edit.op = "use"    -> {d \in {"read", "write"} : edit.change[d] ?? (d \in before)}

(* An edit changes one relay to exactly what it asks, read over every      *)
(* spelling and repetition of it: one canonical tag is left, in the place  *)
(* of the first, or none, and every other tag stays as and where it was.   *)
(* A usage change that gives back another array has changed something,     *)
(* "so callers can tell a no-op by identity" (tags.ts).                    *)
EditDoesAsAsked ==
  [][call' # NoCall =>
       LET url   == call'.url
           asked == Asked(call', Directions(tags, url))
       IN  /\ Directions(tags', url) = asked
           /\ RelayTags(tags', url) \in
                (IF asked = {} THEN {<<>>} ELSE { << <<"r", url>> >>, << <<"r", url, "read">> >>, << <<"r", url, "write">> >> })
           /\ OtherTags(tags', url) = OtherTags(tags, url)
           /\ asked # {} /\ HasRelayEntry(tags, url) => FirstTag(tags', url) = FirstTag(tags, url)
           /\ call'.op = "use" => (fresh' <=> tags' # tags)]_listVars

(* Readers of a list agree on it: each relay is one entry, in the order    *)
(* first named, used in every direction any of its tags names; "tag order  *)
(* never decides it" (tags.ts, shared ADR-0108).                           *)
EntriesAreTheUnion ==
  LET entries == ExtractRelayEntries(tags) IN
  /\ \A i, j \in DOMAIN entries : i < j => FirstTag(tags, entries[i].url) < FirstTag(tags, entries[j].url)
  /\ \A url \in RelayUrls :
       LET marker == GetRelayEntryMarker(tags, url) IN
       /\ HasRelayEntry(tags, url) <=> marker # Null
       /\ Directions(tags, url) = IF marker = Null THEN {} ELSE MarkerDirections(marker)
=============================================================================
