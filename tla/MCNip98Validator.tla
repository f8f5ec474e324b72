-------------------------- MODULE MCNip98Validator --------------------------
(* Nip98Validator on a client's own events, an event with contested tags   *)
(* that no request admits, and forged copies, with Tolerance = 1.          *)
EXTENDS Nip98Validator

UrlOf == [url |-> "url", URL |-> "url", ftp |-> NoUrl]
UpperOf == [get |-> "GET", GET |-> "GET", post |-> "POST", patch |-> "PATCH"]

BuildInputs ==
  [url : {"url"}, method : {"post"}, bodyHash : {"hash"}, expiresIn : {{}}, createdAt : {2}]
  \cup
  [url : {"URL"}, method : {"get", "patch"}, bodyHash : {"empty"},
   expiresIn : {{}, {1}}, createdAt : {1}]

Contested ==
  [kind |-> KIND_HTTP_AUTH, createdAt |-> 2, u |-> {"url", "ftp"}, method |-> {},
   payload |-> {"empty", "hash"}, expiration |-> {2, 9}]

(* The requests the two events that can pass were built for.               *)
SentRequests == {[url |-> "url", method |-> "POST", bodyHash |-> "hash"],
                 [url |-> "url", method |-> "patch", bodyHash |-> "empty"]}

PostedContent == [kind |-> KIND_HTTP_AUTH, createdAt |-> 2, u |-> {"url"},
                  method |-> {"POST"}, payload |-> {"hash"}, expiration |-> {}]
PatchContent  == [kind |-> KIND_HTTP_AUTH, createdAt |-> 1, u |-> {"URL"},
                  method |-> {"patch"}, payload |-> {}, expiration |-> {2}]
PresentedContents == {PostedContent, PatchContent, Contested}

PresentedEvents ==
  {Signed(c) : c \in PresentedContents}
  \cup {[id |-> PostedContent, content |-> PostedContent, signed |-> FALSE],
        [id |-> PatchContent, content |-> PostedContent, signed |-> TRUE]}

Presented(event) == [length |-> 300, scheme |-> "Nostr", spelling |-> "base64",
                      text |-> "event", event |-> event]

(* A header that reads as an event, one too long, one in Blossom's form.   *)
PresentedHeaders ==
  LET whole == Presented(Signed(PostedContent)) IN
  {whole, [whole EXCEPT !.length = 4097], [whole EXCEPT !.spelling = "base64url"]}

(* Around the longest event either header takes.                           *)
EventSizes == {300, 3066, 3067, 5995, 5996}
=============================================================================
