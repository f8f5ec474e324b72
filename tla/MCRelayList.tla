---------------------------- MODULE MCRelayList ----------------------------
(* Relay lists of up to three tags: two relays, one of them spelt twice,   *)
(* every marker and an unknown one, and a tag that names none.             *)
EXTENDS RelayList

Spellings == "wss://a" :> "wss://a" @@ "WSS://A/" :> "wss://a" @@ "wss://b" :> "wss://b"

(* Relay lists name no address and no kind.                                *)
NoAddresses == <<>>
NoKinds     == <<>>

TheTags == { <<"r", "wss://a", "read">>, <<"r", "wss://a", "write">>,
             <<"r", "WSS://A/", "write">>, <<"r", "wss://a", "read", "more">>, <<"r", "WSS://A/", "odd">>,
             <<"r", "wss://b", "read">>, <<"r">> }

Strings == {"r", "read", "write", "both", "more", "odd"} \cup DOMAIN Spellings

Lists == UNION {[1..n -> TheTags] : n \in 0..3}
=============================================================================
