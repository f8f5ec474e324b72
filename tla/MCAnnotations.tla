---------------------------- MODULE MCAnnotations ----------------------------
(* Annotations on paths of three events, by two authors, in rooms of up to *)
(* three people.  Units are ten times each other, so that TLC's integers   *)
(* hold a bitcoin.                                                         *)
EXTENDS Annotations

PathIds == <<"n1", "n2", "n3">>
AllIds  == {"n1", "n2", "n3", "elsewhere", "other"}
People  == {"alice", "bob", "carol", "lnd", "lock"}
Relays  == "WSS://Relay/" :> "wss://relay" @@ "wss://relay" :> "wss://relay" @@ "wss://host" :> "wss://host"
WebPages == "https://Page" :> "https://page" @@ "https://page" :> "https://page" @@ "https://other" :> "https://other"

Kinds == {-1, 0, 1, 5, 6, 7, 9, 14, 16, 1063, 9321, 9734, 9735, 9802, 10002, 10019, 22242, 30023, 30024, 30078, 31234}
ZapAmounts == {0, 2, 100, 1000, 1001}
Sums == ZapAmounts \cup {2}
LowerCases == "Topic" :> "topic" @@ "LNURL1A" :> "lnurl1a" @@ "Lock" :> "lock"
Decimals == [n \in Kinds \cup Sums |-> ToString(n)]

Address(kind, pubkey, dTag) == [kind |-> kind, pubkey |-> pubkey, dTag |-> dTag]
Coordinates ==
  LET places == {Address(kind, pubkey, dTag) :
                   kind \in {30023, 30024, 30078, 31234}, pubkey \in {"alice", "bob", "carol"}, dTag \in {"", "post"}}
                \cup {Address(kind, pubkey, "") : kind \in {0, 10002, 10019}, pubkey \in {"alice", "bob", "carol"}}
      text(place) == ToString(place.kind) \o ":" \o place.pubkey \o ":" \o place.dTag
  IN  [name \in {text(place) : place \in places} |-> CHOOSE place \in places : text(place) = name]

Foreign(kind, tags) == [kind |-> kind, pubkey |-> "carol", tags |-> tags, content |-> ""]

Openings ==
  { Foreign(1, << <<"e", "elsewhere", "", "root">>, <<"-">>, <<"p", "bob">> >>),
    Foreign(1, << <<"h", "g1", "WSS://Relay/">>, <<"h", "g1", "nowhere">>, <<"h", "">> >>),
    Foreign(9, << <<"h", "g1">>, <<"h", "g2", "wss://relay">> >>),
    Foreign(5, << <<"e", "other">> >>),
    Foreign(10002, << <<"r", "wss://relay">> >>),
    Foreign(30023, << <<"d", "post">> >>),
    Foreign(30023, << <<"d", "post">>, <<"d", "draft">> >>),
    Foreign(30023, <<>>) } \cup
  { Foreign(10019, << <<"pubkey", key>>, <<"pubkey", "02lock">>, <<"pubkey", "none">>,
                      <<"mint", "https://mint">>, <<"relay", "wss://relay">> >>) :
      key \in {"03lock", "Lock", "02carol"} } \cup
  { Foreign(10019, << <<"pubkey", "carol">>, <<"mint", "https://mint">> >>) }

Mention == [text |-> EncodeNevent("other", <<>>, "bob", 1), encoded |-> TRUE, uri |-> TRUE, inWebUrl |-> FALSE,
            names |-> [type |-> "nevent", eventId |-> "other", pubkey |-> "bob", relays |-> <<>>, kind |-> 1]]
Text == [references |-> << Mention >>, hashtags |-> << "topic" >>]
Lengths == "post" :> 4

Article(kind, title, image, topics, publishedAt) ==
  [kind |-> kind, dTag |-> "post", content |-> "text", title |-> title, summary |-> "",
   image |-> image, topics |-> topics, publishedAt |-> publishedAt]

File(mime, size) ==
  [field \in {"url", "mimeType", "hash", "originalHash", "size", "alt"} |->
     CASE field = "url"          -> "https://file"
       [] field = "mimeType"     -> mime
       [] field = "hash"         -> "abcd"
       [] field = "originalHash" -> "abcd"
       [] field = "size"         -> size
       [] field = "alt"          -> ""]
Fallbacks == [field \in {"fallbacks"} |-> << "https://file", "https://more", "https://more" >>]
Url(url) == [field \in {"url"} |-> url]
Hashless == [field \in DOMAIN File("image/png", 2) \ {"hash"} |-> File("image/png", 2)[field]]

Each(by, givens) == {[by |-> by, given |-> given] : given \in givens}
Publishing ==
  Each("note", {Text}) \cup
  Each("longform", {Article(30023, Null, "https://mint", << "Topic", "topic", "", "b" >>, 2),
                        Article(30023, "", Null, << >>, Null), Article(30024, "title", Null, << "b" >>, 0),
                        Article(30023, "title", Null, << >>, -1)}) \cup
  Each("draftWrap", {[dTag |-> "post", draftKind |-> kind, content |-> "sealed"] : kind \in {30023, -1}}) \cup
  Each("appSettings", {"post"}) \cup
  Each("metadata", {[json |-> "{}", isObject |-> TRUE], [json |-> "[]", isObject |-> FALSE]}) \cup
  Each("relayList", {<< <<"r", "wss://relay">> >>}) \cup
  Each("clientAuth", {[relay |-> "wss://relay", challenge |-> "c"]}) \cup
  Each("file", {File("image/png", 2), File("Image/PNG", 2), File("image/png", -1), Hashless,
                    File("image/png", 100) @@ Fallbacks}) \cup
  Each("imeta", {File("image/png", 0), Url("https://file"), Url(""), Url("https://file") @@ Fallbacks}) \cup
  Each("groupChat", {[id |-> id, relayHint |-> "wss://relay", content |-> Text] : id \in {"g1", ""}})

MimeTypes == "image/png" :> "image/png" @@ "Image/PNG" :> "image/png"
MimeBases == "image/png; q=1" :> "image/png"

RoomsOfThree == [sender : {"alice", "bob"}, receivers : {<<>>, <<"bob", "bob">>, <<"alice", "carol">>, <<"bob", "carol", "alice">>}]

Keys == "02lock" :> "lock" @@ "03lock" :> "lock" @@ "02carol" :> "carol"
Lock(data, tags) == [data |-> data, tags |-> tags]
Proof(id, amount, secret, dleq) ==
  [spelling |-> "compact", id |-> id, amount |-> amount, secret |-> secret, C |-> "C", dleq |-> dleq]
Respelt(proof) == [proof EXCEPT !.spelling = "spaced"]
Good == { Proof("k1", 1, Lock("02lock", {}), "key1"), Proof("k1", 2, Lock("03lock", {"n_sigs"}), "key2"),
          Proof("k2", 4, Lock("02lock", {}), "key4") }
Odd  == { Proof("k1", 1, Lock("02lock", {"refund"}), "key1"), Proof("k1", 2, Lock("02carol", {}), "key2"),
          Proof("k1", 8, Lock("02lock", {}), Null), Proof("k1", -1, Lock("02lock", {}), "key1"),
          Proof("k4", MaxSafe, Lock("02lock", {}), "keyM"), Proof(Null, Null, Null, Null), NotJson }
Lone == { Proof("k1", 2, Lock("02lock", {}), "key1"), Proof("k3", 1, Lock("02lock", {}), "key1"),
          Proof("k1", 9, Lock("02lock", {}), "key1"), Proof("k1", 1, NotJson, "key1"),
          [Proof("k1", 1, Lock("02lock", {}), "key1") EXCEPT !.C = Null],
          Proof("k5", 5, Lock("02lock", {}), "key5"), Proof("k5", MaxSafe, Lock("02lock", {}), "keyM") }
ProofTags == {<<>>} \cup {<<p>> : p \in Good \cup Odd \cup Lone}
             \cup {<<p, q>> : p \in {good \in Good : good.id = "k1"}, q \in Good \cup Odd}
             \cup {<<p, Respelt(p)>> : p \in {good \in Good : good.amount = 1}}
MintKeysets ==
  << [id |-> "k1", unit |-> "sat", keys |-> 1 :> "key1" @@ 2 :> "key2" @@ 8 :> "key8"],
     [id |-> "k2", unit |-> "usd", keys |-> 4 :> "key4"],
     [id |-> "k4", unit |-> "sat", keys |-> MaxSafe :> "keyM"],
     [id |-> "k5", unit |-> "msat", keys |-> 5 :> "key5" @@ MaxSafe :> "keyM"],
     [id |-> "k2", unit |-> "sat", keys |-> 4 :> "key4"] >>

Invoice(network, digits, unit, mixedCase) ==
  [network |-> network, digits |-> digits, unit |-> unit, mixedCase |-> mixedCase]
InvoiceTags ==
  { Invoice("bc", 1, "", FALSE), Invoice("bc", 2, "", FALSE), Invoice("bc", 10, "m", FALSE),
    Invoice("bc", 1, "m", FALSE), Invoice("bc", 10, "u", FALSE), Invoice("tbs", 100, "n", FALSE),
    Invoice("tb", 10000, "p", FALSE), Invoice("bc", 10010, "p", FALSE), Invoice("bc", 1001, "n", FALSE),
    Invoice("bc", 20, "p", FALSE), Invoice("bc", 21, "p", FALSE), Invoice("bc", 2, "n", FALSE),
    Invoice("bcrt", 100, "n", FALSE), Invoice("bc", 20, "p", TRUE),
    Invoice("xx", 2, "n", FALSE), Invoice("bc", Null, "", FALSE), Invoice("bc", 0, "n", FALSE) }
=============================================================================
