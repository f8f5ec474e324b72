# A verification of nostr-core-ts

nostr-core-ts is a library of Nostr protocol primitives: it builds, parses and
checks events, and offers the few stateful services a client or a server needs
around them.  There is no server process, no connection and no database in it;
what is hard about it is what happens *between* its calls.  JavaScript runs one
callback at a time to completion, so the interleavings that matter are those of
code between two `await`s: another call starts, the host aborts a signal, a
second client publishes, a store or a signer fails.  The models here make each of
those code segments one action, and let everything else happen in between.

- [The system](#the-system)
- [The modules](#the-modules)
- [The runs](#the-runs)
- [Fairness](#fairness)
- [What is proved](#what-is-proved)
- [Assumptions](#assumptions)
- [What is only model-checked, and what is not modelled](#what-is-only-model-checked)
- [Plan](#plan)
- [Running it](#running-it)

Source paths below are relative to the repository root.

## The system

### Components with behaviour over time

| component | state it keeps | operations | talks to | what is hard |
|---|---|---|---|---|
| NIP-05 verifier, `src/application/service/nip05-verifier.ts` | a set of queued pubkeys, a map from a domain to its queue, a set of promises in flight | `verify`, `whenIdle`; the detached `drainQueue` | the resolver (awaited), the host's listener (called synchronously, may call back), an abort signal | claims joining a queue that is being iterated, a fault or an abort with entries left, a promise that settled but whose `catch` has not run, `whenIdle` over a snapshot |
| NIP-98 auth, `src/application/service/nip98-validator.ts`, `src/domain/service/nip98-event-check.ts`, `nip98-builder.ts` | none of its own; the host's replay store and clock | `validate`, `validateAuthHeader`; the client's `buildNip98AuthEvent` | the replay guard (awaited) | copies of one event racing, time moving between check and record, a store that answers late or not at all, windows that are inclusive at both ends |
| Local signer, `src/infrastructure/crypto/local-signer.ts` | the conversation keys of the most recently used peers | `nip44Encrypt`, `nip44Decrypt`, `nip04Encrypt`, `nip04Decrypt`, `signEvent`, `getPublicKey` | the NIP-44 codec | eviction order, calls that fail half way |
| Replaceable events and NIP-51 lists, `src/domain/service/replaceable.ts`, `src/application/service/replaceable-list.ts`, `private-list.ts`, `json-crypto.ts` | none; stores and relays keep the events | `buildReplaceableListEvent`, `buildNewListEvent`, `replaceableSupersedes`, `replaceableStorageKey` | a signer (awaited twice), stores | several clients editing from stale versions, events of one second, delivery in any order, private entries that cannot be read |
| NIP-17 messages, `src/application/service/dm-crypto.ts`, `src/domain/service/rumour.ts` | none | `buildDmGiftWraps`, `unwrapGiftWrap` | a signer (a key, and two awaits for each member), throwaway signers (two more) | one concurrent part for each member of a room, each of which may fail or reject; wraps made by other programs |
| Fetch client, `src/infrastructure/http/fetch-http-client.ts`, `src/application/port/http.ts` | whether a body was consumed, the stream of a response | `request`, `json`, `text`, `blob` | the address policy, `fetch`, streams, a signal | redirects, ceilings, chunks, a signal or a broken stream between any two awaits, two readers |
| NIP-05 resolver, `src/application/service/nip05-resolver.ts`, `json-document.ts` | none | `resolveNip05`, `readJsonDocument` | the fetch client | which failures are an answer of the domain, and which are no answer |
| Replies and threads, `src/domain/service/reply.ts`, `event-analysis.ts`, `content-tags.ts`, `tags.ts` | none; a thread is in the tags of its events | `buildReply`, `analyseEvent` | each other: what one builds, the other reads, and the next reply is built from | long chains in which other programs take part, in every dialect the NIPs allow; content that mentions other events |
| Relay-list edits, `src/domain/service/tags.ts` | none; the list is the tags of one event | `addRelayTag`, `removeRelayTag`, `setRelayEntryUsage`, `extractRelayEntries` | the caller, who publishes the result | a sequence of edits on a list another program wrote: one relay spelt twice, marked with unknown words, named in several tags |
| Filters, messages and subscriptions, `src/domain/service/filter.ts`, `filter-hash.ts`, `client-message.ts`, `relay-message.ts`, `group.ts` | none; the program that uses them keeps subscriptions by digest | `compileFilters`, `hashFilters`, `canFilterMatch`, the parsers and serialisers | a relay, through a connection of the host's | filters that mean the same in two spellings, or look the same and do not; a relay that reads an empty or unknown condition in its own way; duplicate, late and malformed messages |
| Builders, annotations and zaps, `src/domain/service/builder.ts`, `event-analysis.ts`, `group-chat.ts`, `file-metadata.ts`, `zap-parser.ts`, `nutzap-info.ts` | none; what an event is about is in its tags | every builder; `analyseEvent`; `verifyZapReceipt`, `verifyNutzap` | each other, over the network: one program writes, another reads | an annotation of an annotation; privacy and groups that must not be left by answering; receipts and proofs by anybody |

They compose in several places: the verifier awaits the resolver, which awaits one
exchange of the fetch client, which asks the address policy three times; the
validator reads authorization headers; direct messages put one NIP-44 payload in
another; and list editing and gift wrapping await a signer,
of which the local signer is the one shipped.

### Components that are pure functions

The readers of tags and of content, the NIP-19 entities
(`src/domain/service/bech32.ts`), the NIP-44 codec's sizes
(`src/infrastructure/crypto/nip44-v2.ts`), the address policy
(`src/infrastructure/http/private-address.ts`) and the authorization header
(`src/domain/service/auth-header.ts`) keep nothing, and are operators of the models
that use them.  Relay information (NIP-11), the branded values,
results and failures, and the signer and cipher ports are not modelled.
`PROJECT.json` lists each with its files, its status and the reason.

### What makes each component correct

- **Verifier.** A pubkey is marked queued exactly while one claim of it waits; a
  domain is marked busy exactly while a drain works on it; nothing is reported
  after an abort; every claim is reported or dropped and every fault reaches
  `onError`; `whenIdle` answers only when it is so, and does answer.
- **NIP-98.** An event is accepted at most once, racing copies cannot all lose,
  nothing is refused as a replay that was not used, and what the client builds
  passes for the whole window and is read from every header it is put in.
- **Signer.** The cache is exactly the most recently used peers, and a failed call
  leaves it as it was.
- **Lists.** Stores agree whatever the order of delivery; an edit replaces the
  version it was made from, on the same list, and leaves the half it does not edit.
- **Messages.** A call returns a wrap for each member or none; each wrap opens for
  its member alone; the sender of what was opened signed for it.
- **Threads.** A reply is read back as a reply to its parent, whatever its content
  quotes; a path has one root; nobody drops out of it; what is copied parses; a NIP-19
  entity names what its encoder was given, and nothing where its records disagree.
- **Relay lists.** Every reader of a list agrees on it whatever its order; an edit
  changes the relay it names, in all its spellings, and nothing else.
- **Annotations.** What is published about an event names that event, is read back
  as it was meant, and does not carry a private or grouped conversation out of its
  room; a zap counts exactly when it was paid for.
- **Subscriptions.** A caller finds what its filters match and nothing else, also
  when it shares a subscription; a refusal says why.
- **NIP-44 sizes.** A payload is read or refused by the size of its text alone; only
  one payload is read for a text; a rumour is wrapped exactly when its seal fits.
- **Address policy.** A host is refused exactly when it is internal, through every
  way of carrying an IPv4 address in an IPv6 one.
- **Fetch client and resolver.** A refused host is not heard, a public one is
  reached; a body is read
  whole, once, within its ceiling; no stream is left open behind a failure; an
  abort settles everything; a verdict on a name comes from the name's own domain.

`PROJECT.json` lists the hazards behind these, each at its line, with the
properties that cover it or the reason none does.

## The modules

### `Nip05Lookups`, `Nip05Verifier`

`Nip05Lookups` is the promise in the doc comments and ADR-0018, without the data
structures: one line of claims for each domain, of which the head is reported or
the whole is dropped, faults owed to the host, and a `whenIdle` that answers when
nothing waits and nothing is owed.

`Nip05Verifier` is the code.  `queued` and `domainQueues` are the `Set` and the
`Map`; `inFlight` is the set of drains that are not `free`.  A *drain* is one call
of `drainQueue` and the promise it returned, from its start until `.finally` takes
it out of `inFlight`; `pc` says where it is (awaiting a lookup, inside the
listener, settled with its `.catch` or `.finally` still to run).

| code | action |
|---|---|
| `verify` joining a queue, starting one, starting one under an aborted signal | `JoinQueue`, `StartQueue`, `StartAborted` |
| `resolveNip05` settles and the loop resumes; it throws | `LookupSettles`, `LookupThrows` |
| `onVerified` / `onLookupFailed` returns or throws | `ListenerReturns`, `ListenerThrows` |
| `.catch(onError)`, its end, `.finally` | `RunCatch`, `OnErrorEnds`, `RunFinally` |
| `whenIdle`, its loop | `CallWhenIdle`, `ResumeWhenIdle` |
| the host | `Abort`, `Close` |

The array the `for…of` iterates over and the counter `reported` are one sequence,
the part not yet reported: entries are only appended behind the iterator, and the
finally clause uses `queue.slice(reported)` alone.  A listener call is a state
(`call`), because the host's code runs inside it and may call `verify`, `whenIdle`
or abort; nothing else of the verifier moves meanwhile.

### `AuthHeader`, `Nip98Validator`, `Nip98ValidatorProofs`

`Faults` is `checkNip98Event` as a record of the fourteen checks and `FirstFault`
the one the code reports, in `CheckOrder`.  `Validate` runs the check at the
clock's second and either refuses or leaves a call *asked*; `ValidateAuthHeader`
first reads the event from a header, and refuses one it cannot read; `RecordOnce`,
`StoreFails` and `Settle` are the store's atomic step, its failure before or
after that step, and the rest of `validate`.  `BuildNip98AuthEvent` is the client,
`Sent` what Fetch makes of its method.  An event states an id, a content and
whether it is signed, so that forged ids and broken signatures are inputs.

`AuthHeader` has both encoders and both parsers, NIP-98's and Blossom's.  A header
is its length, its scheme, what base64 it is canonical in and what that decodes to;
`PaddedLength` and `UnpaddedLength` are the arithmetic that decides, together with
the ceilings of 4096 and 8000 characters, which events fit.

### `LocalSigner`, `GiftWrap`, `Nip44`, `DirectMessagesProofs`

`LocalSigner`: a method computes synchronously, so a call is one step.  The `Map` is a function
from kept peers to their key and their place in insertion order; `Remember` is
delete, set, evict.  A derivation or a cipher may give a result, fail with the
codec's own error, or throw anything else.

`GiftWrap`: `buildDmGiftWraps` is a call with a part for each member of the room; a part
moves through seal, signature, wrap and signature, and may fail or reject at each.
`Throw` and `Settle` are `Promise.all` and the `find(isFailure)` after it.
`UnwrapGiftWrap` is the reader, check by check in the order of the code; it is run
over the wraps the calls made and over wraps by other programs, each of which
fails one check or none.

`Nip44`: the sizes of a payload from plaintext to wire and back: `CalcPaddedLen`, the
two-byte and the six-byte length prefix, the ceilings of a caller, the base64
lengths the codec refuses by before it decodes, and the checks on what it decoded.
Its state is one payload on the wire, by `nip44Encrypt` or from `buildDmGiftWraps`
(which puts one payload in another), as it was written or altered once: another
version, a broken MAC, another padding or prefix of the same text.

Each of the three has its own specification (`Spec`, `SignerSpec`, `CodecSpec`): they
share no state, and one module holds the proofs about all of them.

### `Replaceable`, `ReplaceableList`, `ReplaceableListProofs`

`Replaceable` holds the pure functions: categories of kinds, the identifier the
`d` tags agree on, the storage key, the precedence, and a store that follows them.
`ReplaceableList` lets several clients of one author edit lists.  A call of a
builder has two stages, one for each await: *assembling* (the private entries are
being encrypted) and *signing* (the stamped template is with the signer).
Between them the clock moves, relays deliver, other edits are published.
`modifyTags` returns any value; a caller may pin `createdAt`; the base may have
been written under NIP-04, hold malformed rows, no JSON, or be unreadable.

### `PrivateAddress`, `FetchHttpClient`, `Nip05Resolver`, `Nip05Proofs`

`PrivateAddress`: `IsPrivateHost` is the code: prefix comparisons on the 32 bits of an IPv4 address and
on the first groups of an IPv6 one, with the forms of IPv6 that carry an IPv4
address.  `IsInternal` is the reference: the ranges as the registries write them.
The fetch client asks `IsPrivateHost`; what it must have asked is stated with
`IsInternal`.

`FetchHttpClient` is one request: `Request`, the answers and refusals of `fetch`, the checks on the
headers in their order (`Receive`), the readers (`Read`), and the stream step by
step (`ChunkArrives`, `BodyEnds`, `ReadRejects`, `CancelResolves`,
`CancelRejects`).  `StreamBreaks` and `SignalFires` may come between any two.
`Nip05Resolver` extends it with what `readJsonDocument` and `resolveNip05` make of
the exchange; they have no state of their own, so they are operators over it.

`Nip05Proofs` has the proofs about the verifier and about the exchange: two
specifications (`Spec`, `ExchangeSpec`) that share no state.

### `Tags`, `TagsProofs`, `Nip19`, `EventAnalysis`, `ContentTags`, `Threads`, `ThreadsProofs`

`Tags` holds the readers of single tags and takes those of replaceable events from
`Replaceable`: a tag is a sequence of strings, and what a
string parses to is a constant (a set of public keys, a table from relay texts to
canonical ones, and so on); `Among` is what `filter()` and `flatMap()` keep of a sequence,
written as a recursive function so that `TagsProofs` can have lemmas about it.
`EventAnalysis` is the reply chain `analyseEvent` reads,
for each kind the way its NIP threads it. `Nip19` has the encoders of entities and
`decodeNostrEntity`, over records with the lengths they are refused by; `ContentTags`
is what the references and hashtags of a content add, each reference an entity as an
encoder or another program wrote it. `Threads` puts them to use over time: its state
is one path down a reply tree, whose first entry is any event or external content and
whose every later one answers the one before it, written by `BuildReply` or by another
program (`ForeignReply`: unmarked notes, marked notes without authors, comments and
voice messages without authors).

### `EventMetadata`, `Builder`, `GroupChat`, `FileMetadata`, `Zaps`, `Annotations`, `AnnotationsProofs`

The first five are operators.  `EventMetadata` is what `analyseEvent` reads besides
the reply chain: what a repost, reaction, highlight or article is about.  `Builder`
has the builders of `builder.ts`; `GroupChat` the group an event is in and the tags
that keep an answer there; `FileMetadata` NIP-94 and NIP-92; `Zaps` the checks of
`verifyZapReceipt` and `verifyNutzap` in the order of the code, with the amount of an
invoice and the state of a nutzap's proofs.  Proofs are told apart, as in the code, by
the text of their tags, and parsed after that.

`Annotations` is the chain in which they meet: its state is a path of events, the
first published on its own, each later one about the entry before it, written by a
builder or by another program (`AnnotateElsewhere`).  An entry keeps what its maker
was given, so that a property can compare it with what a reader makes of the event.

### `Filters`, `RelayMessages`, `Subscriptions`, `RelaysProofs`

`Filters` is `compileFilters` as a predicate, `canFilterMatch` and `hashFilters`: a
filter is the sequence of its entries in the caller's order, and a digest is what it
distinguishes.  `RelayMessages` parses and serialises the messages element by
element.  `Subscriptions` gives them a use: callers that share a subscription when
their filters have one digest, a relay that serves, ends, refuses and sends strays,
and messages read one at a time.  The program that keeps the subscriptions and the
relay are not in this repository; they are modelled from what the doc comments of
`hashFilters`, `serialiseReqMessage` and `RelayMessage` tell their users, and `map`
marks them external.

### `RelayList`, `RelaysProofs`

A client edits a list anybody may have published: `AddRelayTag`, `RemoveRelayTag` and
`SetRelayEntryUsage`, call after call, the result of one the input of the next.  The
array a call gives back is the very one it was given, or a new one (`fresh`).

### MC modules

`MCNip05Verifier`, `MCNip98Validator`, `MCLocalSigner`, `MCReplaceableList`,
`MCGiftWrap`, `MCNip05Resolver`, `MCThreads`, `MCRelayList`, `MCNip44`,
`MCAnnotations` and `MCSubscriptions` give constants their values and state symmetry.
Operators under a comment that begins *A bug* are deliberate mistakes in the
definition that follows them.  They are part of no specification; each shows that
a property notices the mistake (`PROJECT.json`, `mutants`).

## The runs

| run | what it asks | bounds, and why they are enough |
|---|---|---|
| `nip05_verifier` | the queues, abort, `whenIdle`, refinement of `Nip05Lookups`; every claim settles, every fault is reported, shutdown ends | two domains, two pubkeys, two promises: a claim behind a lookup, two domains at once, and a settled promise still in flight while its domain has a new queue. The code treats domains and pubkeys uniformly and relates at most two of each; the safety properties are proved for all sizes, so the run takes `FairSpec` and no symmetry |
| `nip98_validator` | at most one acceptance, no undeserved replay, no mutual refusal, client and server agree | two calls at once (a race has two sides), tolerance 1 and a clock of 0 to 4, so that an event can arrive before its window, be recorded at its first second and asked again at its last; two events that can pass, forged copies of one, and one that fails by every contested tag; headers that are read, too long, and in Blossom's form; built events at both sides of the longest either header takes |
| `local_signer` | the cache | four peers, room for two, seven calls: fill it, use an old peer, push out another, and use the evicted one again |
| `replaceable_list` | convergence, coordinate, base and other half | two clients and stores, two new edits with ids above or below their base's, a clock of two seconds, a pin to the first, so that an edit falls in its base's second or later; an old NIP-04 list with a malformed row, and a stranger's list under the same identifier; targets with and without an identifier and one that names no list |
| `gift_wrap` | rooms, partial failure, forged wraps | three people, rooms of one to three, two signers (one not the author's), two kinds of failure; eighteen foreign wraps, one for each check and one that passes |
| `http_exchange` | refusals, public hosts, bodies, streams, aborts, verdicts | a ceiling of two bytes, an error limit of one, at most four bytes in chunks of one or two: a body below, at and above the limit, crossing it at or inside a chunk; two readers; hosts at both sides of the edges of the address ranges, in each form that carries them, which are asked with a ceiling of no bytes |
| `threads` | parent, thread, participants, copied hints and mentions of every reply | paths of four events: a reply, to a reply, to a reply of an opening, with another program in any of the places; twenty openings over every kind that threads and three that do not, some with tags that disagree, do not parse or name no root, and four external contents; contents with no mention, with one target named three ways, and with coordinates; entities this library wrote up to the last character an entity may have, refused at the next, and entities another program wrote with records cut short, malformed, repeated and disagreeing |
| `threads_bare_scope` | the violation below, *Findings* | paths from one comment with a valueless `I` tag |
| `relay_list` | readers agree; every edit does as asked | lists of up to three tags as read and four as edited, over two relays, one of them in two spellings, beside an invalid one and other tags; every sequence of edits, since the state is the list |
| `nip44` | payloads are read or refused by size; wraps hold what fits | texts and ceilings at both sides of every padding step, prefix size and ceiling, up to 2^30 bytes: the codec decides by comparing sizes, so between two such edges nothing changes |
| `annotations` | what annotations are about, read back, in their room; receipts and nutzaps | paths of three events: an annotation, and one of it; two authors; an invoice unit is ten times the next instead of a thousand, and the largest safe integer is 2000, so that every unit, remainder and overflow occurs; nutzaps of up to two proofs in sats, millisats and another unit, one proof given twice in one text and in two spellings among them, at a mint that serves one keyset id twice |
| `subscriptions` | callers find what they asked for, refusals say why | two callers, alike, who ask once each: share, or take a subscription each, or one after the other; one message on its way, which the relay may follow with any other |

A run that checks liveness (`nip05_verifier`, `nip98_validator`, `gift_wrap`,
`http_exchange`) names `FairSpec`; the others use the plain `Spec`.
`CHECK_DEADLOCK FALSE` is given where the system may stop: the verifier after all
its promises are spent and the host has closed it, the validator when its clock
ends with nothing asked, the exchange when everything has settled, a codec when
its one payload is on the wire and altered, a path at its last event, and
subscriptions when both callers have asked and left.

Symmetry is used in the runs without liveness properties only, over peers, clients and
callers: no definition tells their members apart.

The refinement `KeepsThePromise` maps a domain's line to the unreported part of
its queue, and a fault is owed while its promise is rejected and `onError` has not
run to its end.  A `StartAborted` maps to a stutter: that claim is accepted and
dropped in one step of the code.

## Findings

**A valueless scope tag.**  `threads_bare_scope` expects a violation.  A comment may hold an `I` tag of one element
beside its scope's own, as in `[["I"], ["I", "isbn:1"], ["K", "isbn"], ...]`; its root is
read as `isbn:1`, since a tag without a value states none (`tags.ts`, `soleTagValue`).
`copiedScopeTag` (`reply.ts:118`) copies the first as `["I", ""]`, which does state one,
the empty string; the two disagree, and the reply of `buildReply` has no root.  Its doc
comment says that a reply carries the root scope of a parent comment and that "the
thread's root is read from the parent's own tags" (`reply.ts:215`).  Under every other
opening `OneThread` holds: that no comment has such a tag is the one hypothesis of its
theorem, `NoBareScopes`.

**A refused landing that answers with a redirect.**  The code does not do all its
documentation says here; the property states what holds, and no run shows the rest.  With
`followRedirectTo` given, `fetch` follows a redirect and gives back a 301, 302, 303, 307
or 308 of the landing host as it is when it has no `Location`.  `request` asks
`isRedirect` before `refusedLanding` (`fetch-http-client.ts:237-238`), so where the
landing host is refused, internal or not one the request follows to, the caller reads
`ServerFailure` with the landing's status.  The documentation of `createHttpClient` says
that a landing URL whose host is private "is a `NetworkFailure`", "its answer discarded"
(`fetch-http-client.ts:207-210`), and that one the predicate rejects is (`:207`);
`http.ts:82-86` that the client "must not hand its caller the answer from one a followed
redirect lands on".  `RefusedHostsAreUnread` excepts this outcome by name and states what
does hold, for every instance: the status of such a redirect is all that is told, no
body, error text or `x-reason` of a refused landing is ever read, and every other outcome
is a network failure.

## Fairness

- *Verifier.* A lookup settles, because the resolver gives its signal a deadline
  and a fired signal settles the exchange (`AbortSettles`).  Callbacks of the host
  return or throw.  The job queue runs every settled job.  A job is disabled while
  a listener call runs, again and again if other drains call their listeners, so
  these are strong; a listener's own end is weak.  The host is under no fairness:
  it need not call, abort or close.
- *Validator.* The store answers or fails, and the job queue runs.  Time need not
  pass.
- *Gift wrap.* Signers answer, fail or reject each call; the job queue runs.
- *Exchange.* A fired signal rejects a pending fetch, an errored stream rejects its
  read, a cancel settles.  No server need ever answer: without a signal nothing
  is promised.

## What is proved

TLAPS checks these for every value of the constants (`PROJECT.json`, `theorems`).
Each rests on an inductive invariant `IInv` that is stronger than what the runs
check; the proof has one step for each action, and the facts used in several are
lemmas.

- **`Nip05Proofs`**, in two parts.  *The verifier*: `TypeOK`, `QueuedExactlyOnce`, `BusyDomainIsDrained`,
  `WhenIdleIsIdle`, `NoVerdictAfterAbort`.  `QueuedExactlyOnce` alone is not
  inductive: a listener that returns goes on with *its* queue, so `IInv` adds that
  the listener call in progress belongs to the drain that made it
  (`CallMatchesDrain`) and that a drain awaiting a lookup has the entry it looks up
  (`LookupHasEntry`).  The two action properties follow from it, and so does the
  refinement `KeepsThePromise`: each action's lemma says what it does to the line of
  its domain (`QueueIsLine`, `ForgetDropsLine`) and names the step of `Nip05Lookups` it
  is.

  *The exchange*: `ExchangeTypeOK`, `RefusedHostsAreUnread`,
  `PublicHostsAreReached`, `BodyIsReadWholeOnce`, `StreamIsReleased` and the
  resolver's `VerdictIsTheDomainsAnswer`.  Its invariant says what each stage of a request
  owes the next: a response is one the policy admits (`PolicyIsKept`) and comes with
  its stream (`ResponseHasItsStream`); whatever awaits the stream is `request()`,
  unsettled, or the one reader that took it, and has collected all that was sent
  (`WorkIsDue`); until the consumed flag is up the stream is untouched
  (`FlagIsRaised`), so one reader has it all and the others failed
  (`OneReaderTakesAll`); what was resolved is what the response calls for
  (`OutcomeIsDeserved`).  Behind a refused landing nothing is ever read: its stream is
  only cancelled, and the request settles with a network failure or, if the landing
  answers with a redirect, with that status (`LandingIsUnread`, kept beside the
  invariant: `LandingIsCancelled`, `LandingStaysUnread`).  `PolicyKnowsInternal` takes the step from the code's
  `IsPrivateHost` to the reference `IsInternal`, by the two address theorems of the
  module: `IsPrivateHost` refuses an address exactly when it is internal, for all 2^32
  IPv4 and all 2^128 IPv6 addresses, written with or without `::`.
- **`Nip98ValidatorProofs`**: `TypeOK` and `ReplayIsDeserved` for every delay;
  `AtMostOnce` and `MemoryOutlivesWindow` when a recordOnce call reaches the store
  in the second of its check (`MaxDelay = 0`).  The argument: the record of a spent
  id outlives the last second in which that id can still be asked
  (`MemoryLasts`), because a record is made no earlier than the first second of
  the window, `createdAt - Tolerance`, and lasts `2 * Tolerance + 1` seconds.
  With a longer delay an ask can come after the window's end and the promise is
  not made.  `BuiltEventsPass` needs no invariant beyond types: the fourteen checks are
  taken one by one for what `BuildNip98AuthEvent` writes, and the two header forms by
  the arithmetic of their lengths, for every input and size the constants name.
- **`ReplaceableListProofs`**: `TypeOK`, `Convergence`, `EditKeepsCoordinate`,
  `EditReplacesItsBase`, `EditKeepsOtherHalf`.  A store holds, of every key it has
  seen, the one event that supersedes all others (`Survives`).  The precedence is
  a strict total order on events of distinct ids (`Precedence`), so that set is
  determined by what was received (`SurvivorsAreUnique`), and convergence follows.
- **`DirectMessagesProofs`**, in three parts.  *Gift wraps*: `TypeOK`, `AllOrNothing`,
  `RoomReadsItsWraps`, `SenderSignedForIt`.  Wraps are started by the author's signer
  alone, one for each member, and an answer stands on parts that have settled for good
  (`PartsFollowCall`, `AnswerFollowsParts`).  *The signer*: `SignerTypeOK`,
  `KeptAreMostRecent`, `DerivesOnlyForgotten`.  The key of the argument is that
  insertion order *is* the order of last use (`OrderedByUse`), which is what the delete
  before the set buys; so the first key of the `Map` is the least recently used.
  *Payloads*: `PayloadsAreFaithful` and `GiftWrapsHoldWhatFits`, for texts and ceilings
  of up to `MaxLength` bytes.  The invariant is that the wire is accounted for: it
  carries the payload of the one call made, or an alteration of it.  The rest is
  arithmetic: the padded length grows with the text and never falls below it, so that a
  text that fits never has a longer payload than one that does not, and a length on the
  wire has one reading.
- **`TagsProofs`** holds no theorem of its own, but what `RelaysProofs`, `ThreadsProofs` and
  `AnnotationsProofs` rest on.  A set
  that has the empty sequence and, with a sequence, each one longer by an element has
  all of them (`EverySequence`): that is induction over data without an operator
  parameter, and from it follow the elements and the order of what `Among` selects,
  also from a concatenation or from what was selected before.  With it come lists of tags
  as sets of tags (`SomeTags`, `ConcatTags`, `EachListed`) and the tags a content's mentions add
  (`AreMentions`).
- **`RelaysProofs`**, in two parts.  *Subscriptions*: `AskedAndAnswered`, `FiltersAreSentAsMeant` (what is sent
  selects, at a relay that reads the open points of NIP-01 either way, what the filters
  match) and `EqualDigestsMatchAlike`.  `AskedAndAnswered` is far from inductive: events
  are on their way while a caller waits.  `IInv` adds that a caller's subscription has
  the digest of what it asked (`SharesItsOwn`), that the relay serves a wire filter that
  selects what is wanted and has sent only what was found or is still coming
  (`ServesWhatIsWanted`), that a final end came with everything
  (`FindsWhatIsWanted`), and, of each message on its way, that one which says all was
  sent comes behind the last event it speaks of (`FramesAreInOrder`).
  *Relay lists*: `ListTypeOK`, `EntriesAreTheUnion`, `EditDoesAsAsked`.  The types are
  all the invariant there is, since a published list may be anything; what is hard is the
  fold.  `Reads` says that entries name each relay once, in the order of its first tag,
  with the union of its directions; reading one tag more keeps it (`ReadsOneMore`, one
  case for a tag that names no relay, one for a new relay, one for a known one).  An
  edit is taken apart at the first tag of its relay (`AroundTheFirst`).
- **`ThreadsProofs`**: `CopiesAreChecked`, `AnswersItsParent`, `OneThread`, `EveryoneIsTold`,
  `MentionedOnce`, for paths of any length from any openings, and that every NIP-19
  encoder's text is read back (`EncodedReadBack`).  The invariant is `Path`: every entry but the first is
  what `buildReply` (`BuiltOn`) or another program (`ForeignOn`) makes of the one before
  it, and that one is an event whose target has a text, or external content
  (`WellFormed`).  Given that, a property of two neighbours is a fact about one reply,
  and the work is in what tags are read back as: that what content adds is `p`, `q` and
  `t` tags beside the thread's (`AreMentions`, `BuiltTags`), so that readers of `e`, `a`
  and the scope tags do not see it (`EventTagsAmong`, `CommentSets`); that marked,
  unmarked and scoped tags name root and parent again (`MarkedStay`, `PositionalsStay`,
  `OpenedScopesReadBack`, `CopiedScopesReadBack`, `BareScopesReadBack`,
  `ExternalsReadBack`).  `EveryoneIsTold` is about entries any distance apart.  Along notes,
  what each owes its readers is told by the next (`NoteTellsOwed`): a note names as its
  root's author only somebody it tells (`NotesTell`), and inherits the author its parent
  names, since no note of a path names itself as its root (`PathNotes`).  Along comments, the
  scope's `P` tags are copied as they are (`CopiedKeep`), a comment that opens a scope adds
  its author, and one that joins a scope joins another event's (`NextNamesItsAuthor`): no
  comment names as its root itself or an event after it (`NamesAreEarlier`).
  All but `CopiesAreChecked` assume that `Null` is no record of external content
  (`NullIsNoContent`, over all values, which TLC cannot enumerate); `OneThread`
  and `EveryoneIsTold` also `NoBareScopes`, which the finding shows is needed for the first
  (for the second, it keeps a comment from losing its root).  That hypothesis is about
  openings only: replies and what the model's other programs write keep it
  (`EntriesAreFull`).

  `MentionedOnce` is about one reply.  The tags of one name and value are read as the
  sequence `On(tags, name, value)`, and the folds of `ContentTags` by what they do to it:
  `WithMention` leaves one tag, of the first hint given in each slot (`OnWithMention`,
  `AllGathered`); `ContentTagsBeside` drops it where the thread has one (`OnBeside`); and
  the thread's own tags name nobody twice and quote nothing, under every kind but chat
  (`RepliesTellOnce`).  What the mentions are follows from what entities say: each
  encoder writes records of its own value, of each relay once (`OnceTwice`) and of what
  else it was given, and the decoder finds the same (`ReadTogether`, then one lemma for
  each encoder).  Its hypotheses are `NullIsNothing` (`Null` is no kind and no function,
  over all values) and `ContentsAreMeant`: a reference an encoder wrote is meant as what
  the encoder was given, for any keys, kind, address and canonical relays; one another program wrote,
  as `decodeNostrEntity` reads it.  What the decoder should make of records repeated or
  malformed is stated by the references of `MCThreads`, and only model-checked.
- **`AnnotationsProofs`**: `StaysInItsRoom`, `AnnotatesItsTarget`, `ReceiptsAreEarned`,
  `ReadBackAsMeant` and `NutzapsAreEarned`, for paths of any length from any opening, whatever its tags.  `IInv` adds that every event of the path is
  `IsWellFormed`: its coordinate, if it has one, has a text, and what its `h` tags name is a
  group something is posted to.  It is needed because a reader takes the target of an
  annotation, and its group, from the texts the builder copied, and it is not
  obvious that it lasts: an annotation may carry the `h` tags of a target by another
  program, and be the next target.  For *rooms*, tags are plain (`IsPlain`: none is an `h`
  tag) or group tags, so that what a list names is what its last part names
  (`NamingAfter`, `NamingBefore`); one group tag is read back as its group, with its
  canonical hint (`OneGroupTag`), disagreeing ones as none but as many (`GroupsChosen`),
  and `WithGroupTag` on plain tags keeps what it was asked to (`Grouped`, `KeepsGroup`).  The
  `p` tags of a rumour are the room without its sender, or the sender
  alone (`RoomsTell`), and a reaction moves the author it reacts to last
  (`PrivateReactionTells`).  For *targets*, one lemma for each builder says what
  `analyseEvent` reads from its tags, group tags or not (`RepostRead`, `ReactionRead`,
  `HighlightRead`, `PageRead`, `DeletionRead`, and those of other programs), from what
  agreeing tags are read as (`AgreedRef`, `LastRef`, `CoordinateNamed`).  Each action then
  adds an entry with all three properties (`Continues`), and the path grows by it
  (`PathGrows`).  Nothing is assumed beyond the modules' own `ASSUME`s.

  For *receipts*, the invariant adds that the entry of a request asks for what its maker
  was given (`RequestsAsk`) and that a receipt follows one, as its provider's or signed by
  somebody else (`ReceiptsFollow`).  What is left is what `verifyZapReceipt` decides.
  `HonestReceipt`: a receipt it accepts carries the provider's signature, so the
  provider wrote it, from one payment; the request in it is genuine, so its author is the
  one it names; and the invoice's amount is the one amount requested.  `PaidReceipt`: it
  accepts every receipt of a payment up to 1 BTC.  Both rest on `InvoicesRead`: an amount is
  read from an invoice exactly when its digits and unit write it, whichever of the five units it
  is in.  The theorem assumes `NoRecordIsNothing`, that `Null` and a text that is no JSON are no
  functions, which quantifies over all values; the first half does not need it.

  `ReadBackAsMeant` is inductive by itself, the first entry of a path being there to stay:
  what is left is one publication of each kind (`FirstIsReadBack`).  A builder leaves out
  the tags of what it was not given, so the position of a tag says nothing; that a reader
  finds it again rests on no two fields sharing a tag name (`FieldsDiffer`,
  `LongformTags`), for then the value of a field that is given is the one written
  (`ValueWritten`), and of one that is not, none (`LongformRead`, `FieldReadBack`).  Topics are read as what normalising
  left of those given, repeated or not (`TopicsWritten`, `TopicsRead`), and the entries of
  an `imeta` tag as the tags of a file event are (`ImetaReadBack`, `FileReadBack`).

  For *nutzaps*, the invariant adds only that one on the path holds its proofs, its unit, its
  recipient and its mint (`NutzapsSent`); what is hard is the sum.  `parseNutzap` adds along a
  sequence and stops where the safe integers end, while the worth of a nutzap is a sum over
  the set of its proof texts.  The two agree (`SafeSum`) because every text is read once
  (`DistinctOnce`, `AmongOnce`) and what a set adds up to does not depend on the order
  (`SumsAnyOrder`).  `FoldSet` and the code's folds are recursive functions, so that
  each is first shown to exist, set by set or index by index (`SumExists`, `SafeSumExists`,
  `DistinctExists`), by the induction over `0..n` that needs no operator parameter
  (`AllIndices`).  Then `NutzapParsed` says what is read, `Ceiling` that dividing by the
  unit compares as multiplying does (`Quotients`), `MintRead` that the keyset of a proof
  is the first of its id (`KeysetFound`), and `LockRead` that its key is its only
  spender.  The theorem assumes `NoRecordIsNothing`, too.

Some of these no run checks, as they are steps of a proof or types:
`BusyDomainIsDrained`, `MemoryOutlivesWindow`, `DerivesOnlyForgotten`, `Path`, each
`TypeOK`, `AnnotationsInductive`, `EncodedReadBack`, the two address theorems and the two about filters.  The runs check every other property
named here on their instances.

The theorems assume of the constants what the modules state by `ASSUME`: each is a
fact about inputs the program's types or its callers give (hosts are well-formed
hostnames, a reader's name is not a stage's, events and headers have their fields, a
text has at most three bytes for a UTF-16 unit, the inputs of the NIP-98 builder have a
URL and times that are not negative, filters have the fields of `NostrFilter`, what a
relay holds are events that parse, its other messages answer no subscription, the tags
of a relay list are strings, an opening is an event with a target that has a text or
external content with an id and a kind and does not name its own path's events by their ids,
the public key of a coordinate is one and no marker of NIP-10 is, a decoded entity is of one of the five kinds
`nostr:` references have, a proof states an amount that is a safe integer or none, a mint has keys for
amounts in decimal digits, the builders are given what their types state: relays, pages and hints
that are canonical, rooms of public keys, lists of topics and fallbacks, articles of one of
their two kinds, files with a URL and no list of fallbacks that is empty; a number has one
text, a text in lower case stays as it is, and a MIME type in lower case has no parameters to be cut; a provider of zaps is none of the authors, and is known by an lnurl in lower case; an invoice
has one of the units of BOLT 11), or that `Null` is no value.  That the coordinate of an event of a path has a text (`IsNameable`) is assumed of
openings and of what is built on its own, which is any event: a text there is for every
coordinate, and `Addresses` has those of the instance.

## Assumptions

- A SHA-256 collision does not occur: the id of a content is the content
  (NIP-98), an event's id is its own (lists), and as a hash over the tags it is in none of
  them, nor in those of an event it answers (threads).
- The clock of a host does not go backwards.
- The replay store is the host's.  Its port asks for `recordOnce` to be atomic and
  to remember for the whole ttl; the model gives it that, and lets it fail before
  or after recording.
- Listener callbacks are synchronous functions, as their types say.
- A signer answers, fails with a `SignerFailure`, or rejects; a throwaway key is
  new.
- Ids are numbers: hex strings of one length compare as numbers.  The tags of an
  event are the set of its `d` values and the rest as one value; values a tag name
  carries are a set, because the readers of these tags look at what values agree
  on and not at their order.
- Only a holder of one of the two keys a payload was encrypted between, naming the
  other, decrypts it.  A plaintext that is not JSON is different from every layer.
- A body is how many bytes it has and what it would parse to; a response without a
  body reads like an empty stream; `blob` reads as `text` does.
- A canonical relay URL is its own canonical form, and a coordinate has one text.
  The order of the `p` tags of a note is left open.
- An invoice is the number its digits write and its unit; curve arithmetic (a DLEQ
  proof, a signature) verifies against the key that made it.
- The text of a `proof` tag is the proof it parses to and a spelling: white space, the
  order of keys, keys nobody reads.  `parseNutzap` takes each distinct *text* once
  (`zap-parser.ts:273`), so a proof in two spellings counts twice and still passes
  both verifications; `NutzapsAreEarned` says so, and states worth as the sum over
  texts, not over proofs.  A receipt's `description` has one text.
- A search is the sequence of its lower-cased pieces; a digest of filters
  distinguishes what its text does.
- A header canonical in both base64 alphabets counts as padded base64, which both
  parsers read.
- Left out because no property depends on them: the jitter of gift-wrap
  timestamps, the wording of failures, the text and order of tags other than those
  named.

## What is only model-checked

The liveness properties (`EveryClaimSettles`, `EveryFaultIsReported`,
`ShutdownDrains`, `SomebodyIsGranted`, `EveryCallIsAnswered`, `AbortSettles`) are
outside what the proof system handles.  What `MentionedOnce` asks of malformed entities is
checked on those of `MCThreads`.  Every invariant and every other action property that a
passing run checks is the property of a theorem.

Not modelled, and why:

- *Ciphers and hashes*: ChaCha20, HMAC, ECDH, SHA-256, Schnorr and the DLEQ equation
  are what they decide.  The NIP-04 text is a cipher's output and no more.
- *Encodings of text*: the alphabet and checksum of Bech32, base64, BOLT-11 digits,
  JSON and UTF-8 are modelled by what they parse to; their texts are tested against
  vectors in the repository.  Where in a content a reference, hashtag or emoji begins
  and ends is taken as found.  Texts are well-formed Unicode: a lone surrogate, which
  UTF-8 cannot carry, is in none of them.
- *Documents read field by field*: NIP-11 relay information, a mint's keyset document,
  and the URLs of lightning addresses have no state and no order to get wrong.
- *`template-match.ts`* compares two events field by field.
- *Branded values* are members of small sets that stand for canonical ones.
- *Types, interfaces, failures and exceptions*: the models keep the distinction
  between a returned failure and a rejected promise.

One hazard has no property on purpose.  Two clients that edit one version of a list
each undo the other's change: replaceable events are last-writer-wins, and the code
holds no merge.  An error response that names its reason in a header is answered
without its body being read or cancelled; `StreamIsReleased` states this as its one
exception.

## Plan

Done in this order, most important first: the verifier and its promise; the
NIP-98 validator; the signer's cache; replaceable events and lists; gift wraps;
the fetch client with the resolver; threads; relay lists, addresses and NIP-44 sizes;
annotations and subscriptions; authorization headers; NIP-19 entities; the proofs, annotations
last.

Left, in this order:

1. `RelayList` composed with `ReplaceableList`, as the `modifyTags` of a client that
   edits its NIP-65 list from a stale version.
2. NIP-11 and mint keysets, should their readers come to depend on more than one
   field at a time.

## Running it

```
tlasany M.tla
tlc -workers 2 -config X.cfg M
tlapm MProofs.tla
```

`PROJECT.json` names for each run its module, its config and its properties.
