-------------------------- MODULE FetchHttpClient --------------------------
(***************************************************************************)
(* createHttpClient (src/infrastructure/http/fetch-http-client.ts): one    *)
(* request through fetch, its refusals, and the single-shot readers of its *)
(* body.  What resolveNip05 makes of the body is in Nip05Resolver.         *)
(*                                                                         *)
(* fetch and its streams are external: a fetch answers, refuses, faults or *)
(* never settles; a stream gives chunks, ends, breaks or stalls; and the   *)
(* request's signal, when it fires, rejects a pending fetch and errors an  *)
(* open stream.  A URL is its hostname; a body is how many bytes it has.   *)
(***************************************************************************)
EXTENDS PrivateAddress

CONSTANTS Hosts,                \* the hostnames of URLs
          NotFollowed,          \* followRedirectTo left out
          Inputs,               \* requests: [host, followRedirectTo, maxBodyBytes]
          Responses,            \* [host, redirected, status, xReason, contentLength, content]
          ERROR_BODY_BYTE_LIMIT,
          ReadCalls,            \* calls of the body readers
          MaxChunk, MaxSent     \* bounds: bytes in a chunk, bytes a server sends

(* What a whole body is: text that is no UTF-8 JSON, a JSON value that is  *)
(* no object, an object that does not map the name, or one that does.      *)
Contents == {"text", "value", "object", "mapping"}

ASSUME HostsAssumption == \A host \in Hosts : IsHostname(host)
ASSUME CallsAssumption == ReadCalls \cap {"redirect", "landing", "error"} = {}
ASSUME InputsAssumption ==
  Inputs \subseteq [host : Hosts, followRedirectTo : {NotFollowed} \cup SUBSET Hosts,
                    maxBodyBytes : Nat]
ASSUME ResponsesAssumption ==
  Responses \subseteq [host : Hosts, redirected : BOOLEAN, status : Nat, xReason : BOOLEAN,
                       contentLength : Nat, content : Contents]
ASSUME LimitsAssumption == {ERROR_BODY_BYTE_LIMIT, MaxChunk, MaxSent} \subseteq Nat

VARIABLES privateAddresses, \* the client's policy
          input,            \* the request
          signal,           \* "live" or "fired"
          response,         \* what fetch resolved to
          body,             \* the response's stream: [state, sent]
          work,             \* what awaits the stream: [at, purpose, collected]
          outcome,          \* what request() resolved to
          consumed,         \* the response's flag of that name
          results           \* results[c]: what reader call c resolved to

exchangeVars == <<privateAddresses, input, signal, response, body, work, outcome, consumed, results>>

NoResponse == [status |-> "none"]
NoBody     == [state |-> "none", sent |-> 0]
Idle       == [at |-> "idle"]
Fetching   == [at |-> "fetching"]
Unsettled  == [type |-> "unsettled"]
NotCalled  == [type |-> "not called"]

Purposes == {"redirect", "landing", "error"} \cup ReadCalls
Streams  == {NoBody} \cup [state : {"open", "ended", "cancelled", "errored"}, sent : Nat]
Works    == {Idle, Fetching} \cup [at : {"reading", "cancelling"}, purpose : Purposes, collected : Nat]
Outcomes == [type : {"unsettled", "ok", "network", "thrown"}] \cup [type : {"server"}, status : Nat]
Results  ==
  [type : {"not called", "network", "malformed-body"}] \cup [type : {"waiting"}, kind : {"json", "text"}]
  \cup [type : {"ok"}, kind : {"json", "text"}, bytes : Nat]

ExchangeTypeOK ==
  /\ privateAddresses \in {"refuse-private", "allow-private"}
  /\ input \in Inputs
  /\ signal \in {"live", "fired"}
  /\ response \in {NoResponse} \cup Responses
  /\ body \in Streams
  /\ work \in Works
  /\ outcome \in Outcomes
  /\ consumed \in BOOLEAN
  /\ results \in [ReadCalls -> Results]

-----------------------------------------------------------------------------
REDIRECT_STATUSES == {301, 302, 303, 307, 308}
OPAQUE_REDIRECT   == 0     \* the status of a browser's opaque redirect

IsRedirect(resp) == resp.status \in REDIRECT_STATUSES \cup {OPAQUE_REDIRECT}

RefusedTarget(host) == privateAddresses = "refuse-private" /\ IsPrivateHost(host)

(* A bug: an error status is acted on before where the redirect landed.    *)
RefusedLandingOfSuccess(resp) ==
  /\ resp.redirected /\ resp.status < 400
  /\ resp.host \notin input.followRedirectTo \/ RefusedTarget(resp.host)

RefusedLanding(resp) ==
  /\ resp.redirected
  /\ \/ input.followRedirectTo = NotFollowed
     \/ resp.host \notin input.followRedirectTo
     \/ RefusedTarget(resp.host)

LimitOf(purpose) == IF purpose = "error" THEN ERROR_BODY_BYTE_LIMIT ELSE input.maxBodyBytes

Reading(purpose)    == [at |-> "reading", purpose |-> purpose, collected |-> 0]
Cancelling(purpose) == [at |-> "cancelling", purpose |-> purpose, collected |-> 0]

(* stream.cancel() closes an open stream at once.                          *)
Cancelled(b) == IF b.state = "open" THEN [b EXCEPT !.state = "cancelled"] ELSE b

ExchangeInit ==
  /\ privateAddresses \in {"refuse-private", "allow-private"}
  /\ input \in Inputs
  /\ signal = "live" /\ response = NoResponse /\ body = NoBody
  /\ work = Idle /\ outcome = Unsettled /\ consumed = FALSE
  /\ results = [c \in ReadCalls |-> NotCalled]

Settle(result) == work' = Idle /\ outcome' = result

Network     == [type |-> "network"]
Server(resp) == [type |-> "server", status |-> resp.status]

-----------------------------------------------------------------------------
Request ==
  /\ work = Idle /\ outcome = Unsettled
  /\ IF RefusedTarget(input.host)
     THEN Settle(Network)
     ELSE work' = Fetching /\ UNCHANGED outcome
  /\ UNCHANGED <<privateAddresses, input, signal, response, body, consumed, results>>

(* A bug: the request is sent without its signal.                          *)
FetchRefusesUnsignalled ==
  /\ work = Fetching /\ signal = "live" /\ Settle(Network)
  /\ UNCHANGED <<privateAddresses, input, signal, response, body, consumed, results>>

(* fetch rejects with a TypeError, a DOMException or the signal's reason.  *)
FetchRefuses ==
  /\ work = Fetching /\ Settle(Network)
  /\ UNCHANGED <<privateAddresses, input, signal, response, body, consumed, results>>

(* fetch throws anything else.                                             *)
FetchFaults ==
  /\ work = Fetching /\ Settle([type |-> "thrown"])
  /\ UNCHANGED <<privateAddresses, input, signal, response, body, consumed, results>>

(* What fetch may resolve to under the redirect mode it was given.  Where  *)
(* it follows them, a redirect comes back only for want of a Location.     *)
CanAnswer(resp) ==
  /\ input.followRedirectTo = NotFollowed => ~resp.redirected
  /\ ~resp.redirected => resp.host = input.host
  /\ resp.redirected => resp.status # OPAQUE_REDIRECT

(* A bug: a redirect is refused without its body being cancelled.          *)
ReceiveKeepingRedirects(resp) ==
  LET open == [state |-> "open", sent |-> 0] IN
  /\ body' = open
  /\ \/ (IsRedirect(resp) \/ resp.status >= 400) /\ Settle(Server(resp))
     \/ ~IsRedirect(resp) /\ RefusedLanding(resp) /\ Settle(Network)
     \/ ~IsRedirect(resp) /\ ~RefusedLanding(resp) /\ resp.status < 400 /\ Settle([type |-> "ok"])

(* The headers arrive: the checks up to the first await, in their order.   *)
Receive(resp) ==
  LET open == [state |-> "open", sent |-> 0] IN
  \/ /\ IsRedirect(resp)
     /\ work' = Cancelling("redirect") /\ body' = Cancelled(open) /\ UNCHANGED outcome
  \/ /\ ~IsRedirect(resp) /\ RefusedLanding(resp)
     /\ work' = Cancelling("landing") /\ body' = Cancelled(open) /\ UNCHANGED outcome
  \/ /\ ~IsRedirect(resp) /\ ~RefusedLanding(resp) /\ resp.status >= 400 /\ resp.xReason
     /\ Settle(Server(resp)) /\ body' = open
  \/ /\ ~IsRedirect(resp) /\ ~RefusedLanding(resp) /\ resp.status >= 400 /\ ~resp.xReason
     /\ work' = Reading("error") /\ body' = open /\ UNCHANGED outcome
  \/ /\ ~IsRedirect(resp) /\ ~RefusedLanding(resp) /\ resp.status < 400
     /\ Settle([type |-> "ok"]) /\ body' = open

FetchAnswers(resp) ==
  /\ work = Fetching /\ signal = "live" /\ CanAnswer(resp)
  /\ response' = resp
  /\ Receive(resp)
  /\ UNCHANGED <<privateAddresses, input, signal, consumed, results>>

(* A bug: the flag is read and never set.                                  *)
ReadUnflagged(c, kind) ==
  /\ outcome.type = "ok" /\ results[c] = NotCalled /\ ~consumed
  /\ results' = [results EXCEPT ![c] = [type |-> "waiting", kind |-> kind]]
  /\ work' = Reading(c)
  /\ UNCHANGED <<privateAddresses, input, signal, response, body, outcome, consumed>>

(* json(), blob() or text() is called; blob reads as text does.  The flag  *)
(* is set before the first await.                                          *)
Read(c, kind) ==
  /\ outcome.type = "ok" /\ results[c] = NotCalled
  /\ IF consumed
     THEN /\ results' = [results EXCEPT ![c] = Network]
          /\ UNCHANGED <<body, work, consumed>>
     ELSE /\ consumed' = TRUE
          /\ results' = [results EXCEPT ![c] = [type |-> "waiting", kind |-> kind]]
          /\ IF response.contentLength > input.maxBodyBytes
             THEN work' = Cancelling(c) /\ body' = Cancelled(body)
             ELSE work' = Reading(c) /\ UNCHANGED body
  /\ UNCHANGED <<privateAddresses, input, signal, response, outcome>>

-----------------------------------------------------------------------------
(* decodeJson, and the text every body has.                                *)
Decoded(kind, bytes) ==
  IF kind = "json" /\ response.content = "text" THEN [type |-> "malformed-body"]
  ELSE [type |-> "ok", kind |-> kind, bytes |-> bytes]

SettleCall(c, result) ==
  /\ work' = Idle
  /\ results' = [results EXCEPT ![c] = result]
  /\ UNCHANGED outcome

(* A failure of the stream: an error body is then described as unreadable. *)
StepFails ==
  \/ /\ work.purpose \in ReadCalls /\ SettleCall(work.purpose, Network)
  \/ /\ work.purpose = "error" /\ Settle(Server(response)) /\ UNCHANGED results
  \/ /\ work.purpose \in {"redirect", "landing"} /\ Settle(Network) /\ UNCHANGED results

ChunkArrives(n) ==
  /\ work.at = "reading" /\ body.state = "open" /\ body.sent + n <= MaxSent
  /\ LET limit == LimitOf(work.purpose)
         sent  == [body EXCEPT !.sent = @ + n] IN
     IF work.collected + n > limit
     THEN work' = [work EXCEPT !.at = "cancelling", !.collected = limit] /\ body' = Cancelled(sent)
     ELSE work' = [work EXCEPT !.collected = @ + n] /\ body' = sent
  /\ UNCHANGED <<privateAddresses, input, signal, response, outcome, consumed, results>>

BodyEnds ==
  /\ work.at = "reading" /\ body.state \in {"open", "ended"}
  /\ body' = [body EXCEPT !.state = "ended"]
  /\ \/ /\ work.purpose \in ReadCalls
        /\ SettleCall(work.purpose, Decoded(results[work.purpose].kind, work.collected))
     \/ work.purpose = "error" /\ Settle(Server(response)) /\ UNCHANGED results
  /\ UNCHANGED <<privateAddresses, input, signal, response, consumed>>

ReadRejects ==
  /\ work.at = "reading" /\ body.state = "errored"
  /\ StepFails
  /\ UNCHANGED <<privateAddresses, input, signal, response, body, consumed>>

(* A body too large for a reader, a refused landing or a redirect, once    *)
(* its stream is cancelled; an error body is cut at its limit.             *)
CancelResolves ==
  /\ work.at = "cancelling" /\ body.state = "cancelled"
  /\ \/ work.purpose \in ReadCalls /\ SettleCall(work.purpose, Network)
     \/ work.purpose \in {"error", "redirect"} /\ Settle(Server(response)) /\ UNCHANGED results
     \/ work.purpose = "landing" /\ Settle(Network) /\ UNCHANGED results
  /\ UNCHANGED <<privateAddresses, input, signal, response, body, consumed>>

CancelRejects ==
  /\ work.at = "cancelling"
  /\ StepFails
  /\ UNCHANGED <<privateAddresses, input, signal, response, body, consumed>>

-----------------------------------------------------------------------------
(* The stream breaks off, or the signal fires, whatever awaits.            *)
StreamBreaks ==
  /\ body.state = "open" /\ body' = [body EXCEPT !.state = "errored"]
  /\ UNCHANGED <<privateAddresses, input, signal, response, work, outcome, consumed, results>>

SignalFires ==
  /\ signal = "live" /\ signal' = "fired"
  /\ body' = IF body.state = "open" THEN [body EXCEPT !.state = "errored"] ELSE body
  /\ UNCHANGED <<privateAddresses, input, response, work, outcome, consumed, results>>

ExchangeNext ==
  \/ Request \/ FetchRefuses \/ FetchFaults
  \/ \E resp \in Responses : FetchAnswers(resp)
  \/ \E c \in ReadCalls, kind \in {"json", "text"} : Read(c, kind)
  \/ \E n \in 1..MaxChunk : ChunkArrives(n)
  \/ BodyEnds \/ ReadRejects \/ CancelResolves \/ CancelRejects
  \/ StreamBreaks \/ SignalFires

ExchangeSpec == ExchangeInit /\ [][ExchangeNext]_exchangeVars

(* The job queue runs, an aborted fetch rejects, an errored stream rejects *)
(* its read, and a cancel settles.  No server need ever answer.            *)
FairExchangeSpec ==
  /\ ExchangeSpec
  /\ WF_exchangeVars(Request)
  /\ WF_exchangeVars(signal = "fired" /\ FetchRefuses)
  /\ WF_exchangeVars(ReadRejects)
  /\ WF_exchangeVars(CancelResolves \/ CancelRejects)
-----------------------------------------------------------------------------
(* A followed redirect landed where its caller does not follow one to, or  *)
(* on an internal host, and the client refuses those.                      *)
LandedWhereRefused ==
  /\ response # NoResponse /\ response.redirected
  /\ \/ response.host \notin input.followRedirectTo
     \/ privateAddresses = "refuse-private" /\ IsInternal(response.host)

(* An internal target, however its address is written, is never fetched by *)
(* a client that refuses it.  Nothing of what a refused landing answers is *)
(* read, not its error text nor the reason in its header; the caller is    *)
(* told of a network failure, or, where the landing answers with a         *)
(* redirect in its turn, of that status and no more: isRedirect is asked   *)
(* before refusedLanding, where the documentation knows no exception       *)
(* (src/application/port/http.ts, ADR-0026, ADR-0032).                     *)
RefusedHostsAreUnread ==
  /\ privateAddresses = "refuse-private" /\ IsInternal(input.host) => response = NoResponse /\ work # Fetching
  /\ LandedWhereRefused =>
       /\ body.sent = 0 /\ work.at # "reading" /\ ~consumed
       /\ \/ outcome \in {Unsettled, Network}
          \/ IsRedirect(response) /\ outcome = Server(response)

(* And only an internal target is refused: whatever host a request or a    *)
(* redirect the caller follows names, nothing else stops it short.         *)
PublicHostsAreReached ==
  [][/\ Request => work' = Fetching \/ (privateAddresses = "refuse-private" /\ IsInternal(input.host))
     /\ \A resp \in Responses :
          FetchAnswers(resp) /\ resp.status = 200 /\ resp.redirected /\ outcome' = Unsettled =>
            \/ resp.host \notin input.followRedirectTo
            \/ privateAddresses = "refuse-private" /\ IsInternal(resp.host)]_exchangeVars

(* However the readers are called, one at most gets the body, and it gets  *)
(* all of it, within the request's ceiling: never a prefix of what was     *)
(* cut, cancelled or aborted.                                              *)
BodyIsReadWholeOnce ==
  /\ \A c \in ReadCalls : results[c].type = "ok" =>
       /\ results[c].bytes = body.sent /\ body.state = "ended"
       /\ results[c].bytes <= input.maxBodyBytes
       /\ \A d \in ReadCalls : d # c => results[d].type \in {"not called", "network"}
  /\ work.at = "reading" => work.collected <= LimitOf(work.purpose)

(* No stream is left open behind a failure, but for an error that names    *)
(* its reason in a header, nor behind the reader that took it.             *)
StreamIsReleased ==
  body.state = "open" =>
    /\ outcome.type \notin {"network", "thrown"}
    /\ outcome.type = "server" => response.xReason /\ response.status >= 400
    /\ consumed => \E c \in ReadCalls : results[c].type = "waiting"

(* A fired signal settles the request, and every reader that was called,   *)
(* whatever the server does.                                               *)
AbortSettles ==
  /\ (signal = "fired" ~> outcome # Unsettled)
  /\ \A c \in ReadCalls :
       signal = "fired" /\ results[c].type = "waiting" ~> results[c].type # "waiting"
=============================================================================
