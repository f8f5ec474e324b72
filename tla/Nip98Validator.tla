--------------------------- MODULE Nip98Validator ---------------------------
(***************************************************************************)
(* NIP-98 HTTP auth: the client's buildNip98AuthEvent, the server's        *)
(* createNip98Validator (src/application/service/nip98-validator.ts) with  *)
(* its event check, and the replay store the host supplies.                *)
(*                                                                         *)
(* validate reads the clock and checks the event synchronously, then       *)
(* awaits replayGuard.recordOnce: between the check and the record, and    *)
(* between the record and the reply, other calls run, the clock moves and  *)
(* the store may fail.                                                     *)
(*                                                                         *)
(* An event is [id, content, signed]: the id it states, what it says, and  *)
(* whether its signature by its pubkey over that id verifies.  The id of a *)
(* content is the content (SHA-256 is taken as injective), and the values  *)
(* a tag name carries are a set.  An event comes parsed, or in an          *)
(* Authorization header.                                                   *)
(***************************************************************************)
EXTENDS AuthHeader, Sequences, FiniteSets

CONSTANTS Contents,       \* contents of the events that are presented
          Events,         \* the events presented, genuine or not
          Headers,        \* Authorization headers that are presented
          Requests,       \* HTTP requests, as [url, method, bodyHash]
          HttpUrlOf,      \* parseHttpUrl: a function from "u" values to URLs
          NoUrl,          \* its null
          EmptyBodyHash,  \* EMPTY_BODY_HASH
          Slots,          \* concurrent validate calls (the bound)
          Tolerance,      \* timestampTolerance
          MaxDelay,       \* seconds until a recordOnce call reaches the store
          MaxTime         \* the last second of the clock (the bound)

ASSUME ToleranceAssumption == Tolerance \in Nat
ASSUME MaxDelayAssumption == MaxDelay \in Nat
ASSUME MaxTimeAssumption == MaxTime \in Nat
ASSUME ContentsAssumption == \A c \in Contents : c.createdAt \in Nat
ASSUME EventsAssumption ==
  Events \subseteq [id : Contents, content : Contents, signed : BOOLEAN]
ASSUME HeadersAssumption ==
  Headers \subseteq [length : Nat, scheme : {"Nostr", "other"}, spelling : Spellings,
                     text : Texts, event : Events]

VARIABLES clock,   \* the host's clock, in seconds
          store,   \* store[id]: until when the replay store remembers id
          calls,   \* calls[s]: the validate call of slot s
          reply,   \* the last promise of validate that settled
          granted, \* granted[id]: how many calls resolved to ok
          lost     \* ids whose first recordOnce promise rejected

vars == <<clock, store, calls, reply, granted, lost>>

(* verifyEventSignature: the id is recomputed before the signature counts. *)
VerifyEventSignature(event) == event.id = event.content /\ event.signed

(* soleTagValue, on the set of values the tags of one name carry.          *)
Absent(values)      == values = {}
Disagreeing(values) == Cardinality(values) > 1

-----------------------------------------------------------------------------
(* checkNip98Event: what is wrong with an event, for a request, as of at.  *)
(* The field u_missing is the failure "u-missing", and so on.              *)
KIND_HTTP_AUTH == 27235

Abs(n) == IF n < 0 THEN -n ELSE n

OutsideWindow(createdAt, at) == Abs(at - createdAt) > Tolerance

Faults(event, request, at) ==
  LET c == event.content IN
  [kind                |-> c.kind # KIND_HTTP_AUTH,
   timestamp           |-> OutsideWindow(c.createdAt, at),
   expired             |-> \E t \in c.expiration : t <= at,
   u_missing           |-> Absent(c.u),
   u_disagreeing       |-> Disagreeing(c.u),
   u_malformed         |-> \E raw \in c.u : HttpUrlOf[raw] = NoUrl,
   u_mismatch          |-> \E raw \in c.u : HttpUrlOf[raw] # request.url,
   method_missing      |-> Absent(c.method),
   method_disagreeing  |-> Disagreeing(c.method),
   method_mismatch     |-> \E m \in c.method : m # request.method,
   payload_disagreeing |-> Disagreeing(c.payload),
   payload_missing     |-> Absent(c.payload) /\ request.bodyHash # EmptyBodyHash,
   payload_mismatch    |-> \E p \in c.payload : p # request.bodyHash,
   signature           |-> ~VerifyEventSignature(event)]

CheckOrder ==
  <<"kind", "timestamp", "expired", "u_missing", "u_disagreeing", "u_malformed",
    "u_mismatch", "method_missing", "method_disagreeing", "method_mismatch",
    "payload_disagreeing", "payload_missing", "payload_mismatch", "signature">>

Passes(event, request, at) ==
  LET faults == Faults(event, request, at)
  IN  \A f \in DOMAIN faults : ~faults[f]

(* The first failing check, in the order of the code, names the failure.   *)
FirstFault(event, request, at) ==
  LET faults == Faults(event, request, at)
  IN  CHOOSE f \in DOMAIN faults :
        \E k \in 1..Len(CheckOrder) :
          /\ CheckOrder[k] = f /\ faults[f]
          /\ \A j \in 1..(k - 1) : ~faults[CheckOrder[j]]

-----------------------------------------------------------------------------
(* A bug: the window is taken to be as long as its distance.               *)
ReplayTtlOfWindow == Tolerance * 2

replayTtl == Tolerance * 2 + 1

Failures == {CheckOrder[k] : k \in 1..Len(CheckOrder)}

(* A validate call after its check: recordOnce is on its way to the store  *)
(* ("asked"), or its promise is about to give TRUE, FALSE or a rejection.  *)
NoCall == [stage |-> "none"]
Calls  == [stage : {"asked", "first", "seen", "failed"}, event : Events,
           checkedAt : 0..MaxTime]

Replies == {"none", "ok", "replay", "thrown"} \cup Failures \cup AuthHeaderDecodeFailures

TypeOK ==
  /\ clock \in 0..MaxTime
  /\ store \in [Contents -> Nat]
  /\ calls \in [Slots -> {NoCall} \cup Calls]
  /\ reply \in Replies
  /\ granted \in [Contents -> Nat]
  /\ lost \in SUBSET Contents

Init ==
  /\ clock = 0
  /\ store = [id \in Contents |-> 0]
  /\ calls = [s \in Slots |-> NoCall]
  /\ reply = "none"
  /\ granted = [id \in Contents |-> 0]
  /\ lost = {}

(* A bug: an event is recorded before it is found to fail.                 *)
RefuseRecorded(event, request) ==
  /\ ~Passes(event, request, clock)
  /\ reply' = FirstFault(event, request, clock)
  /\ store' = [store EXCEPT ![event.id] = clock + replayTtl]
  /\ UNCHANGED <<clock, calls, granted, lost>>

(* validate, up to the await.  An event that fails a check is refused      *)
(* before the store hears of it.                                           *)
Refuse(event, request) ==
  /\ ~Passes(event, request, clock)
  /\ reply' = FirstFault(event, request, clock)
  /\ UNCHANGED <<clock, store, calls, granted, lost>>

AskStore(s, event, request) ==
  /\ Passes(event, request, clock)
  /\ calls[s] = NoCall
  /\ calls' = [calls EXCEPT ![s] =
                 [stage |-> "asked", event |-> event, checkedAt |-> clock]]
  /\ UNCHANGED <<clock, store, reply, granted, lost>>

Validate(event, request) ==
  Refuse(event, request) \/ \E s \in Slots : AskStore(s, event, request)

(* validateAuthHeader: an unreadable header is refused at once, any other  *)
(* is validated as its event.                                              *)
RefuseHeader(header) ==
  /\ ~ParseAuthHeader(header).success
  /\ reply' = ParseAuthHeader(header).failure
  /\ UNCHANGED <<clock, store, calls, granted, lost>>

ValidateAuthHeader(header, request) ==
  \/ RefuseHeader(header)
  \/ ParseAuthHeader(header).success /\ Validate(ParseAuthHeader(header).value, request)

(* The host's store: recordOnce(id, replayTtl) is atomic, answers TRUE on  *)
(* the first sight of the id and FALSE for replayTtl seconds after it.     *)
Remembers(id) == clock < store[id]

RecordOnce(s) ==
  /\ calls[s].stage = "asked"
  /\ LET id == calls[s].event.id IN
     IF Remembers(id)
     THEN calls' = [calls EXCEPT ![s].stage = "seen"] /\ UNCHANGED store
     ELSE /\ calls' = [calls EXCEPT ![s].stage = "first"]
          /\ store' = [store EXCEPT ![id] = clock + replayTtl]
  /\ UNCHANGED <<clock, reply, granted, lost>>

(* The store fails: the call never reached it, or its answer got lost.     *)
StoreFails(s) ==
  /\ calls[s].stage \in {"asked", "first"}
  /\ calls' = [calls EXCEPT ![s].stage = "failed"]
  /\ lost' = IF calls[s].stage = "first" THEN lost \cup {calls[s].event.id} ELSE lost
  /\ UNCHANGED <<clock, store, reply, granted>>

(* A bug: recordOnce is read as "has it been seen".                        *)
SettleInverted(s) ==
  /\ calls[s].stage \in {"first", "seen", "failed"}
  /\ calls' = [calls EXCEPT ![s] = NoCall]
  /\ reply' = IF calls[s].stage = "seen" THEN "ok" ELSE "replay"
  /\ granted' = IF calls[s].stage = "seen"
                THEN [granted EXCEPT ![calls[s].event.id] = @ + 1] ELSE granted
  /\ UNCHANGED <<clock, store, lost>>

(* validate resumes and its promise settles.                               *)
Settle(s) ==
  /\ calls[s].stage \in {"first", "seen", "failed"}
  /\ calls' = [calls EXCEPT ![s] = NoCall]
  /\ reply' = CASE calls[s].stage = "first"  -> "ok"
                [] calls[s].stage = "seen"   -> "replay"
                [] calls[s].stage = "failed" -> "thrown"
  /\ granted' = IF calls[s].stage = "first"
                THEN [granted EXCEPT ![calls[s].event.id] = @ + 1] ELSE granted
  /\ UNCHANGED <<clock, store, lost>>

(* A call reaches the store at most MaxDelay seconds after its check.      *)
Tick ==
  /\ clock < MaxTime
  /\ \A s \in Slots : calls[s].stage = "asked" => clock - calls[s].checkedAt < MaxDelay
  /\ clock' = clock + 1
  /\ UNCHANGED <<store, calls, reply, granted, lost>>

Next ==
  \/ \E event \in Events, request \in Requests : Validate(event, request)
  \/ \E header \in Headers, request \in Requests : ValidateAuthHeader(header, request)
  \/ \E s \in Slots : RecordOnce(s) \/ StoreFails(s) \/ Settle(s)
  \/ Tick

Spec == Init /\ [][Next]_vars

(* A call of the store answers or fails, and the job queue runs.           *)
FairSpec ==
  Spec /\ \A s \in Slots : WF_vars(RecordOnce(s) \/ StoreFails(s)) /\ WF_vars(Settle(s))

-----------------------------------------------------------------------------
(* buildNip98AuthEvent, on a client that sends the request with Fetch: url *)
(* an HttpUrl, method as the caller wrote it, body by its hash, expiresIn  *)
(* a set of at most one number of seconds.                                 *)
CONSTANTS Upper,          \* ASCII upper-casing, as a function on method names
          Builds,         \* inputs: [url, method, bodyHash, expiresIn, createdAt]
          Sizes           \* how many bytes of JSON a built event may be

ASSUME BuildsAssumption ==
  \A input \in Builds :
    HttpUrlOf[input.url] # NoUrl /\ input.createdAt \in Nat /\ input.expiresIn \subseteq Nat
ASSUME SizesAssumption == Sizes \subseteq Nat

FETCH_NORMALISED_METHODS == {"DELETE", "GET", "HEAD", "OPTIONS", "POST", "PUT"}

(* A bug: every method is upper-cased.                                     *)
MethodUpperCased(method) == Upper[method]

MethodAsFetchSendsIt(method) ==
  IF Upper[method] \in FETCH_NORMALISED_METHODS THEN Upper[method] ELSE method

BuildNip98AuthEvent(input) ==
  [kind       |-> KIND_HTTP_AUTH,
   createdAt  |-> input.createdAt,
   u          |-> {input.url},
   method     |-> {MethodAsFetchSendsIt(input.method)},
   payload    |-> {input.bodyHash} \ {EmptyBodyHash},
   expiration |-> {input.createdAt + seconds : seconds \in input.expiresIn}]

(* What the server sees of the built event and of the request it is for.   *)
Signed(content) == [id |-> content, content |-> content, signed |-> TRUE]
Sent(input) ==
  [url      |-> HttpUrlOf[input.url],
   bodyHash |-> input.bodyHash,
   method   |-> IF Upper[input.method] \in {"DELETE", "GET", "HEAD", "OPTIONS", "POST", "PUT"}
                THEN Upper[input.method] ELSE input.method]

-----------------------------------------------------------------------------
(* An event is accepted at most once, however its copies race, when a      *)
(* recordOnce call reaches the store within the second of the check        *)
(* (MaxDelay = 0): the record outlives every second the event can pass in. *)
AtMostOnce == \A id \in Contents : granted[id] <= 1

(* The store still remembers an accepted event in every second in which    *)
(* its timestamp can pass the check: replayTtl is long enough, and it      *)
(* counts from a record that may have been made anywhere in the window.    *)
MemoryOutlivesWindow ==
  \A id \in Contents :
    granted[id] > 0 /\ Abs(clock - id.createdAt) <= Tolerance => Remembers(id)

(* Only an acceptance, one still on its way, or one the store lost makes   *)
(* an event a replay: an event that failed any check, a copy with another  *)
(* event's id included, takes nothing from the genuine one.                *)
ReplayIsDeserved ==
  \A s \in Slots : calls[s].stage = "seen" =>
    LET id == calls[s].event.id IN
    \/ granted[id] > 0 \/ id \in lost
    \/ \E t \in Slots : calls[t].stage = "first" /\ calls[t].event.id = id

(* Of racing calls with one valid event, one is accepted, unless the store *)
(* fails: they cannot all refuse each other.                               *)
SomebodyIsGranted ==
  \A s \in Slots, id \in Contents :
    calls[s].stage = "asked" /\ calls[s].event.id = id
      ~> granted[id] > 0 \/ id \in lost \/ calls[s].stage = "failed"

(* Every event the client builds passes the server's check for the request *)
(* it was built for, in every second of the window before its expiry; and  *)
(* of any size, it is read from the header it is put in, or is put in none *)
(* because no parser would read it, in NIP-98's form and in Blossom's.     *)
BuiltEventsPass ==
  \A input \in Builds, size \in Sizes :
    LET content == BuildNip98AuthEvent(input)
        event   == Signed(content)
        read    == [success |-> TRUE, value |-> event]
    IN
    /\ Abs(clock - input.createdAt) <= Tolerance
    /\ \A seconds \in input.expiresIn : clock < input.createdAt + seconds
    => /\ Passes(event, Sent(input), clock)
       /\ \A header \in EncodeAuthHeader(event, size) :
            ParseAuthHeader(header) = read /\ ParseBlossomAuthHeader(header) = read
       /\ \A header \in EncodeBlossomAuthHeader(event, size) : ParseBlossomAuthHeader(header) = read
       /\ EncodeBlossomAuthHeader(event, size) = {} =>
            \A spelling \in {"base64", "base64url"} :
              ~ParseBlossomAuthHeader(Header(event, spelling, UnpaddedLength(size))).success
       /\ EncodeAuthHeader(event, size) = {} =>
            ~ParseAuthHeader(Header(event, "base64", PaddedLength(size))).success
=============================================================================
