--------------------------- MODULE Nip05Resolver ---------------------------
(***************************************************************************)
(* What resolveNip05, fetchRelayInformation and the readJsonDocument they  *)
(* share make of one exchange of FetchHttpClient whose body json() reads.  *)
(* They keep no state: each is what its promise has resolved to.           *)
(***************************************************************************)
EXTENDS FetchHttpClient

Pending == "pending"

(* readJsonDocument with the json() of reader call c.                      *)
RequestFailure == IF outcome.type = "server" /\ outcome.status = 404 THEN "not-found" ELSE "no-answer"

ReadJsonDocument(c) ==
  CASE outcome.type \in {"network", "server"} -> RequestFailure
    [] outcome.type \in {"unsettled", "thrown"} -> Pending
    [] outcome.type = "ok" ->
         CASE results[c].type \in {"not called", "waiting"}     -> Pending
           [] results[c].type \in {"network", "malformed-body"} -> "no-answer"
           [] results[c].type = "ok" ->
                IF response.content = "value" THEN "no-answer" ELSE "document"

(* A bug: any refusal by the server is taken for its answer.               *)
ResolveAnyServerFailure(c) ==
  IF outcome.type = "server" THEN "no pubkey"
  ELSE IF ReadJsonDocument(c) = "document"
  THEN IF response.content = "mapping" THEN "pubkey" ELSE "no pubkey"
  ELSE ReadJsonDocument(c)

ResolveNip05(c) ==
  CASE ReadJsonDocument(c) = "document"  -> IF response.content = "mapping" THEN "pubkey" ELSE "no pubkey"
    [] ReadJsonDocument(c) = "not-found" -> "no pubkey"
    [] ReadJsonDocument(c) \in {"no-answer", Pending} -> ReadJsonDocument(c)

(* The requests the resolver makes: no redirect followed, default ceiling. *)
ByResolver(c) ==
  /\ input.followRedirectTo = NotFollowed
  /\ results[c].type \in {"waiting", "ok"} => results[c].kind = "json"

(* A verdict is the identifier's own domain's: it answered 404, or sent    *)
(* whole the object that does or does not map the name.  A redirect, a     *)
(* refused target, a cut body or an abort is never one (ADR-0015).         *)
VerdictIsTheDomainsAnswer ==
  \A c \in ReadCalls : ByResolver(c) /\ ResolveNip05(c) \in {"pubkey", "no pubkey"} =>
    /\ response # NoResponse /\ response.host = input.host /\ ~response.redirected
    /\ ~RefusedTarget(input.host)
    /\ \/ response.status = 404 /\ ResolveNip05(c) = "no pubkey"
       \/ /\ response.status < 400 /\ body.state = "ended"
          /\ response.content = IF ResolveNip05(c) = "pubkey" THEN "mapping" ELSE "object"

=============================================================================
