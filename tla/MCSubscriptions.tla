-------------------------- MODULE MCSubscriptions --------------------------
(* Two callers of one relay that holds notes, a chat message and the       *)
(* metadata of a group, at the edges of what the filters select.           *)
EXTENDS Subscriptions

AllIds == {"n1", "n2", "c1", "g1", "g2", "own", "auth"}
Decimals == [n \in {30023} |-> ToString(n)]
Coordinates == "30023:bob:post" :> [kind |-> 30023, pubkey |-> "bob", dTag |-> "post"]
Relays == "wss://relay" :> "wss://relay"

Event(id, pubkey, kind, created_at, tags, content) ==
  [id |-> id, pubkey |-> pubkey, kind |-> kind, created_at |-> created_at, tags |-> tags,
   content |-> content, sig |-> "sig"]

Held ==
  { Event("n1", "bob", 1, 2, << <<"e", "n2", "", "root">>, <<"t", "topic">> >>, {"hello", "world"}),
    Event("n2", "eve", 1, 3, << <<"E", "n2">>, <<"t">> >>, {"hello"}),
    Event("c1", "eve", 9, 2, << <<"h", "room">>, <<"d", "room">> >>, {}),
    Event("g1", "relay", 39000, 1, << <<"d", "room">>, <<"name", "Room">>, <<"closed">> >>, {}),
    Event("g2", "relay", 39000, 1, << <<"d", "room">>, <<"d", "hall">> >>, {}) }

Window(since, until) == << Entry("since", since), Entry("until", until) >>

Asked ==
  { << Window(3, 2) >>, << << Entry("kinds", <<1>>), Entry("ids", <<>>) >> >>,
    << << Entry("kinds", <<9, 1>>), TagCondition("e", <<>>) >>, Window(2, 2) >>,
    << Window(2, 2), << TagCondition("e", <<>>), Entry("kinds", <<1, 9>>) >> >>,
    << << Entry("kinds", <<1>>), TagCondition("e", <<"n2">>), Entry("own", <<>>) >> >>,
    << << TagCondition("et", <<"n2">>), Entry("kinds", Null) >>, GroupChatFilter("room") >>,
    << << TagCondition("t", NotAList) >> >>,
    << << Entry("kinds", Null) >> >>,
    << << Entry("search", <<"hello", "lang:en">>), Entry("authors", <<"bob">>) >> >>,
    << GroupMetadataFilter("room") >>, << GroupMetadataFilter(Null) \o Window(2, 3), GroupChatFilter("hall") >>,
    << BuildEventFilter([type |-> "event", id |-> "n2"]),
       BuildEventFilter([type |-> "address", address |-> Coordinates["30023:bob:post"]]) >>,
    <<>> }

Reason(prefix) == [prefix |-> prefix, text |-> "why"]
RelayReasons == {Reason("auth-required"), Reason(Null)}

Post(event, accepted, prefix) == [event |-> event, accepted |-> accepted, reason |-> Reason(prefix)]
Own  == Event("own", "bob", 1, 4, <<>>, {}) @@ "draft" :> TRUE
Auth == Event("auth", "bob", 22242, 4, << <<"relay", "wss://relay">>, <<"challenge", "c">> >>, {})
Published == {Post(Own, TRUE, Null), Post(Own, FALSE, "Blocked"), Post(Auth, FALSE, "restricted")}

CallersAlike == Permutations(Callers)

Text(v) == Json("string", v)
Count(v) == <<Text("COUNT"), Text("s1"), Json("object", v)>>
Others ==
  << <<>>, <<Text("EVENT"), Text("s1")>>, <<Text("EVENT"), Text("s1"), Json("object", "id" :> "n1")>>,
    <<Text("EVENT"), Text("too long"), Json("object", Event("n1", "bob", 1, 2, <<>>, {}))>>,
    <<Text("EVENT"), Text("s1"), Json("object", Event("n1", "bob", 65536, 2, <<>>, {}))>>,
    <<Text("EOSE"), Text("s2"), Json("object", "hint" :> "finish")>>,
    <<Text("OK"), Text("own"), Json("boolean", TRUE)>>, <<Text("CLOSED"), Text("s1")>>,
    <<Text("NOTICE"), Text("")>>, <<Text("NOTICE"), Text("slow down")>>, <<Text("AUTH"), Text("c")>>,
    <<Text("AUTH"), Text("")>>, <<Json("number", "1")>>,
    Count("count" :> -1), Count("count" :> 2 @@ "approximate" :> TRUE),
    Count("count" :> 2 @@ "approximate" :> Null) >>
=============================================================================
