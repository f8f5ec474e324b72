----------------------------- MODULE MCGiftWrap -----------------------------
(* GiftWrap with rooms of one to three, and wraps by other programs that   *)
(* each fail one check, or none.                                           *)
EXTENDS GiftWrap

Alice == 1
Bob   == 2
Carol == 3

Hello  == [pubkey |-> Alice, p |-> {Bob, Carol}, fits |-> TRUE]
Note   == [pubkey |-> Alice, p |-> {Alice}, fits |-> TRUE]
Reply  == [pubkey |-> Bob, p |-> {Alice}, fits |-> TRUE]
Novel  == [pubkey |-> Alice, p |-> {Bob}, fits |-> FALSE]
TheRumours == {Hello, Note, Reply, Novel}

Foreign(seal) ==
  [kind |-> KIND_EPHEMERAL_GIFT_WRAP, pubkey |-> 10, p |-> Alice, genuine |-> TRUE,
   content |-> Payload(10, Alice, seal)]
BobsSeal == Seal(Reply, Bob, Alice)
Inside(json) == Foreign([BobsSeal EXCEPT !.content.text = json])

TheForeignWraps ==
  {Foreign(BobsSeal), [Foreign(BobsSeal) EXCEPT !.kind = 4],
   [Foreign(BobsSeal) EXCEPT !.genuine = FALSE],
   Foreign(NotJson),
   Foreign([BobsSeal EXCEPT !.wellFormed = FALSE]),
   Foreign([BobsSeal EXCEPT !.tags = {"expiration"}]),
   Foreign([BobsSeal EXCEPT !.tags = {"expiration", "p"}]),
   Foreign([BobsSeal EXCEPT !.kind = 1]),
   Foreign([BobsSeal EXCEPT !.genuine = FALSE]),
   Foreign([BobsSeal EXCEPT !.pubkey = Carol]),
   Foreign(Seal(Reply, Bob, Carol)),
   Inside(NotJson),
   Inside([RumourJson(Reply) EXCEPT !.sig = "present"]),
   Inside([RumourJson(Reply) EXCEPT !.sig = "empty"]),
   Inside([RumourJson(Reply) EXCEPT !.wellFormed = FALSE]),
   Inside([RumourJson(Reply) EXCEPT !.id = "absent"]),
   Inside([RumourJson(Reply) EXCEPT !.id = "other"]),
   Inside(RumourJson(Hello))}
=============================================================================
