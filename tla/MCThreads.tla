----------------------------- MODULE MCThreads -----------------------------
(* Threads with paths of four events: every kind that threads and three    *)
(* that do not, opened well-formed and with tags that disagree, name no    *)
(* root, or carry hints and authors that do not parse.                     *)
EXTENDS Threads

PathIds == <<"n1", "n2", "n3", "n4">>
AllIds  == {"n1", "n2", "n3", "n4", "elsewhere", "other", "unnamed"}
People  == {"alice", "bob", "carol"}

Coordinates ==
  ( "30023:carol:post" :> [kind |-> 30023, pubkey |-> "carol", dTag |-> "post"] @@
    "10002:carol:"     :> [kind |-> 10002, pubkey |-> "carol", dTag |-> ""]     @@
    "30311:bob:live"   :> [kind |-> 30311, pubkey |-> "bob",   dTag |-> "live"] @@
    "30311:bob:later"  :> [kind |-> 30311, pubkey |-> "bob",   dTag |-> "later"] )

ManyRelays(n) == [i \in 1..n |-> "wss://relay/" \o ToString(i)]
LongRelays == [relay \in ToSet(ManyRelays(16)) |-> relay]
Relays == "WSS://Relay/" :> "wss://relay" @@ "wss://relay" :> "wss://relay" @@
          "wss://edge" :> "wss://edge" @@ LongRelays

Kinds == 1 :> "1" @@ 9 :> "9" @@ 20 :> "20" @@ 42 :> "42" @@ 1111 :> "1111" @@ 1244 :> "1244" @@
         1311 :> "1311" @@ 10002 :> "10002" @@ 30023 :> "30023"

By(kind, tags) == [kind |-> kind, id |-> "n1", pubkey |-> "carol", tags |-> tags]

Notes ==
  { By(1, <<>>),
    By(1, << <<"e", "elsewhere", "WSS://Relay/", "alice">>, <<"p", "bob">>, <<"p", "nobody">> >>),
    By(1, << <<"e", "other", "", "mention">>, <<"e", "elsewhere", "nowhere", "root", "nobody">> >>),
    By(1, << <<"e", "other", "", "root">>, <<"e", "elsewhere", "", "root">>, <<"e", "other", "", "reply">> >>),
    By(1, << <<"e", "elsewhere", "", "mention">> >>),
    By(1, << <<"e", "elsewhere">>, <<"e", "nothing">>, <<"e", "other", "", "", "bob">> >>) }

Messages ==
  { By(9, << <<"q", "30023:carol:post">>, <<"q", "elsewhere">> >>),
    By(42, << <<"e", "elsewhere", "WSS://Relay/", "root", "alice">> >>),
    By(42, << <<"e", "elsewhere">> >>),
    By(1311, << <<"a", "30311:bob:live", "nowhere">>, <<"a", "30311:bob:live">> >>),
    By(1311, << <<"a", "30311:bob:live">>, <<"a", "30311:bob:later">>, <<"e", "other">> >>) }

Others ==
  { By(20, <<>>), By(10002, <<>>),
    By(30023, << <<"d", "post">> >>),
    By(30023, << <<"d", "post">>, <<"d", "draft">> >>) }

Comments ==
  { By(1111, <<>>),
    By(1111, << <<"E", "elsewhere", "", "alice">>, <<"K", "20">>, <<"e", "other">>, <<"k", "1111">> >>),
    By(1244, << <<"A", "30311:bob:live", "nowhere">>, <<"K", "30311">>, <<"P", "nobody">>,
                <<"E", "other">>, <<"a", "30311:bob:live">>, <<"k", "30311">> >>),
    By(1111, << <<"E", "elsewhere">>, <<"K", "20">>, <<"K", "21">> >>),
    By(1111, << <<"I", "isbn:1", "nowhere">>, <<"I", "isbn:1", "https://page">>, <<"K", "isbn">>,
                <<"i", "isbn:1">>, <<"k", "isbn">> >>) }

Openings == Notes \cup Messages \cup Others \cup Comments

(* A comment with an I tag that has no value, beside its scope's own.      *)
BareScopes ==
  { By(1111, << <<"I">>, <<"I", "isbn:1">>, <<"K", "isbn">>, <<"i", "isbn:1">>, <<"k", "isbn">> >>) }

External(id, hint) == [type |-> "external", id |-> id, kind |-> "web", hint |-> hint]
Pages == {External("https://page", "https://page"), External("page", Null),
          External("", Null), External("page", "nowhere")}

(* A relay URL has at most 200 characters; "long" stands for one byte more *)
(* than a record holds.                                                    *)
Lengths == [relay \in DOMAIN LongRelays |-> 200] @@
           ( "wss://relay" :> 11 @@ "wss://edge" :> 10 @@ "post" :> 4 @@ "long" :> 256 @@ "" :> 0 )

(* What the encoders of this library wrote, and what they were given.      *)
Encoded(text, names) ==
  [text |-> text, encoded |-> TRUE, uri |-> TRUE, inWebUrl |-> FALSE, names |-> names]
InWebUrl(reference)  == [reference EXCEPT !.inWebUrl = TRUE]
Bare(reference)      == [reference EXCEPT !.uri = FALSE]

Npub == [type |-> "npub", pubkey |-> "alice"]
Note(id) == [type |-> "note", eventId |-> id, pubkey |-> Null]
Nevent(relays, pubkey, kind) ==
  [type |-> "nevent", eventId |-> "other", pubkey |-> pubkey, relays |-> relays, kind |-> kind]
Naddr(relays) ==
  [type |-> "naddr", address |-> Coordinates["30023:carol:post"], pubkey |-> "carol", relays |-> relays]

EncodedNevent(relays, pubkey, kind) ==
  Encoded(EncodeNevent("other", relays, pubkey, kind), Nevent(relays, pubkey, kind))

(* With fifteen of the longest relay URLs, an author and a kind, one more  *)
(* of ten bytes makes the longest nevent, and one of eleven is too long.   *)
Longest == EncodedNevent(Append(ManyRelays(15), "wss://edge"), "bob", 1)

Refused ==
  << Encoded(EncodeNevent("unnamed", Append(ManyRelays(15), "wss://relay"), "bob", 1), Null),
     Encoded(EncodeNevent("unnamed", <<>>, Null, 65536), Null),
     Encoded(EncodeNaddr([kind |-> 30023, pubkey |-> "bob", dTag |-> "long"], <<>>), Null),
     Encoded(EncodeNaddr([kind |-> 1, pubkey |-> "bob", dTag |-> ""], <<>>), Null) >>

(* What another program wrote.                                             *)
Foreign(hrp, special, others, cut, names) ==
  LET records == Append(others, TlvRecord(TLV_SPECIAL, special)) IN
  [Encoded([hrp |-> hrp, bytes |-> [records |-> records, cut |-> cut]], names) EXCEPT !.encoded = FALSE]

Author(pubkey) == TlvRecord(TLV_AUTHOR, KeyValue(pubkey))
Kind(kind)     == TlvRecord(TLV_KIND, KindValue(kind))
Hint(relay)    == TlvRecord(TLV_RELAY, [is |-> relay, length |-> 11])
Unnamed        == KeyValue("unnamed")

Malformed ==
  << Foreign("nevent", Unnamed, <<>>, TRUE, Null),
     Foreign("nevent", Unnamed, << Author("alice"), Author("nobody") >>, FALSE, Null),
     Foreign("nevent", Unnamed, << Kind(1), TlvRecord(TLV_KIND, [is |-> 1, length |-> 2]) >>, FALSE, Null),
     Foreign("nevent", Unnamed, << Kind(65536) >>, FALSE, Null),
     Foreign("nevent", Unnamed, << TlvRecord(TLV_SPECIAL, KeyValue("other")) >>, FALSE, Null),
     Foreign("nevent", Unnamed, [i \in 1..16 |-> TlvRecord(TLV_RELAY, [is |-> "nowhere", length |-> 200])],
             FALSE, Null),
     Foreign("nprofile", KeyValue("nobody"), <<>>, FALSE, Null),
     Foreign("naddr", [is |-> Null, length |-> 4], << Author("carol"), Kind(30023) >>, FALSE, Null),
     Foreign("naddr", [is |-> "post", length |-> 4], << Author("carol"), Kind(1) >>, FALSE, Null) >>

Repeated ==
  << Foreign("nevent", KeyValue("other"),
             << Hint("nowhere"), Author("bob"), Hint("WSS://Relay/"), Author("alice"), Kind(1), Kind(1),
                TlvRecord(TLV_SPECIAL, KeyValue("other")) >>,
             FALSE, Nevent(<< "wss://relay" >>, Null, 1)) >>

Texts ==
  { NoText,
    [references |-> << EncodedNevent(<<>>, "bob", Null), Bare(Encoded(EncodePubkeyToNpub("alice"), Npub)),
                       InWebUrl(Bare(Encoded(EncodeEventIdToNote("unnamed"), Null))),
                       Longest,
                       Encoded(EncodeEventIdToNote("other"), Note("other")) >> \o Refused,
     hashtags |-> << "topic", "topic" >>],
    [references |-> << Encoded(EncodeNaddr(Naddr(<<>>).address, << "wss://relay", "wss://relay" >>),
                               Naddr(<< "wss://relay" >>)),
                       EncodedNevent(<<>>, "bob", 30023),
                       InWebUrl(Encoded(EncodeEventIdToNote("elsewhere"), Note("elsewhere"))) >>
                    \o Malformed \o Repeated,
     hashtags |-> <<>>] }
=============================================================================
