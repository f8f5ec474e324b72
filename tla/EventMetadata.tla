--------------------------- MODULE EventMetadata ---------------------------
(***************************************************************************)
(* The kind metadata analyseEvent reads from reposts, reactions,           *)
(* highlights and articles: src/domain/service/event-analysis.ts, with     *)
(* parseDecimalInteger and normaliseHashtag.  An event here also has its   *)
(* content.                                                                *)
(***************************************************************************)
EXTENDS EventAnalysis

CONSTANTS HttpUrlOf,   \* the texts parseHttpUrl accepts -> the HttpUrl it gives
          LowerCaseOf  \* the texts toLowerCase changes -> their lower case

(* A canonical URL is its own canonical form.                              *)
ASSUME HttpUrlsAssumption ==
  \A s \in DOMAIN HttpUrlOf : HttpUrlOf[s] \in DOMAIN HttpUrlOf /\ HttpUrlOf[HttpUrlOf[s]] = HttpUrlOf[s]

KIND_REPOST           == 6
KIND_REACTION         == 7
KIND_GENERIC_REPOST   == 16
KIND_ZAP_REQUEST      == 9734
KIND_HIGHLIGHT        == 9802
KIND_LONGFORM_CONTENT == 30023

IsRepostKind(kind) == kind \in {KIND_REPOST, KIND_GENERIC_REPOST}

DEFAULT_REACTION == "+"

ParseHttpUrl(text) == IF text \in DOMAIN HttpUrlOf THEN HttpUrlOf[text] ELSE Null

ToLowerCase(text) == IF text \in DOMAIN LowerCaseOf THEN LowerCaseOf[text] ELSE text

(* A text in lower case stays as it is, and no text is lost.               *)
ASSUME LowerCasesAssumption ==
  \A s \in DOMAIN LowerCaseOf : LowerCaseOf[s] # "" /\ ToLowerCase(LowerCaseOf[s]) = LowerCaseOf[s]

NormaliseHashtag(raw) == IF raw = "" THEN Null ELSE ToLowerCase(raw)

(* The number a canonical decimal text writes.                             *)
ParseDecimalInteger(text) ==
  IF \E n \in DOMAIN DecimalText : n >= 0 /\ DecimalText[n] = text
  THEN CHOOSE n \in DOMAIN DecimalText : DecimalText[n] = text ELSE Null

-----------------------------------------------------------------------------
LastRefTagged(tags, name) ==
  LET refs == Among(tags, {tag \in ToSet(tags) : At(tag, 1) = name /\ RefFromTag(tag) # Null})
  IN  IF refs = <<>> THEN Null ELSE RefFromTag(Last(refs))

RepostMetadata(event) ==
  [type |-> "repost", original |-> SoleRefTagged(event.tags, "e") ?? SoleRefTagged(event.tags, "a")]

ReactionMetadata(event) ==
  [type    |-> "reaction",
   content |-> IF event.content = "" THEN DEFAULT_REACTION ELSE event.content,
   target  |-> LastRefTagged(event.tags, "e") ?? LastRefTagged(event.tags, "a")]

(* The one web page the r tags marked source name, or those not marked     *)
(* mention when none is.                                                   *)
HighlightSourceUrl(tags) ==
  LET webPages == {tag \in ToSet(Tagged(tags, "r")) : ParseHttpUrl(At(tag, 2)) # Null}
      marked   == {tag \in webPages : At(tag, 3) = "source"}
      read     == IF marked # {} THEN marked ELSE {tag \in webPages : At(tag, 3) # "mention"}
  IN  SoleValue({ParseHttpUrl(tag[2]) : tag \in read})

HighlightMetadata(event) ==
  LET sourceUrl == HighlightSourceUrl(event.tags) IN
  [type      |-> "highlight",
   text      |-> event.content,
   context   |-> SoleTagValue(event.tags, "context"),
   comment   |-> SoleTagValue(event.tags, "comment"),
   sourceUrl |-> sourceUrl,
   source    |-> IF sourceUrl # Null THEN Null
                 ELSE SoleRefTagged(event.tags, "a") ?? SoleRefTagged(event.tags, "e")]

PublishedAtOf(tags) ==
  LET value == SoleTagValue(tags, "published_at") IN IF value = Null THEN Null ELSE ParseDecimalInteger(value)

(* The topics, without their order.                                        *)
TopicsOf(tags) == {NormaliseHashtag(topic) : topic \in ExtractTagValues(tags, "t")} \ {Null}

LongformMetadata(event) ==
  [type        |-> "longform",
   title       |-> SoleTagValue(event.tags, "title"),
   summary     |-> SoleTagValue(event.tags, "summary"),
   image       |-> ParseWebUrl(SoleTagValue(event.tags, "image")),
   publishedAt |-> PublishedAtOf(event.tags),
   topics      |-> TopicsOf(event.tags)]

(* An article whose d tags disagree has no metadata.                       *)
KindMetadata(event) ==
  CASE IsRepostKind(event.kind)       -> RepostMetadata(event)
    [] event.kind = KIND_REACTION     -> ReactionMetadata(event)
    [] event.kind = KIND_HIGHLIGHT    -> HighlightMetadata(event)
    [] event.kind = KIND_LONGFORM_CONTENT ->
         IF GetDTag([d |-> ExtractTagValues(event.tags, "d")]) = Null THEN Null
         ELSE LongformMetadata(event)
    [] OTHER -> Null

AnalyseEvent(event) == [raw |-> event, refs |-> Refs(event), kindData |-> KindMetadata(event)]
=============================================================================
