------------------------ MODULE DirectMessagesProofs ------------------------
(***************************************************************************)
(* Direct messages, from the room to the wire, for every value of the      *)
(* constants.  First the gift wraps of GiftWrap: a call answers with a     *)
(* wrap for every member of the room or none, each opened by its member    *)
(* alone, and an unwrapped rumour's sender signed for it.  Then the keys   *)
(* of LocalSigner: the cache holds exactly the most recently used peers,   *)
(* and only a forgotten peer's key is derived again.  Last the payloads of *)
(* Nip44: they are read back or refused by the size of their text alone.   *)
(***************************************************************************)
EXTENDS GiftWrap, LocalSigner, Nip44, FiniteSetTheorems, WellFoundedInduction, TLAPS

(* The wrap to m once it is made.                                          *)
Made(m) == GiftWrap(call.rumour, call.signer, m, parts[m].key)

(* The wraps are only started by the author's signer, one per member, and  *)
(* an answer stands on wraps that have settled for good.                   *)
PartsFollowCall ==
  /\ call.stage \in {"none", "key"} => \A m \in Pubkeys : parts[m] = NoPart
  /\ \A m \in Pubkeys : parts[m] # NoPart =>
       m \in Members /\ call.signer = call.rumour.pubkey
  /\ call.stage = "wrapping" =>
       /\ call.signer = call.rumour.pubkey
       /\ \A m \in Members : parts[m] # NoPart

AnswerFollowsParts ==
  /\ call.stage \in {"none", "key", "wrapping"} <=> answer = NoAnswer
  /\ answer.type = "ok" =>
       /\ call.signer = call.rumour.pubkey
       /\ \A m \in Members : parts[m].at = "done" /\ answer.wraps[m] = Made(m)

IInv == TypeOK /\ PartsFollowCall /\ AnswerFollowsParts /\ AllOrNothing

-----------------------------------------------------------------------------
(* A set of numbers has a least member.                                    *)
LEMMA LeastNumber ==
  ASSUME NEW S \in SUBSET Nat, S # {}
  PROVE  \E x \in S : \A y \in S : x <= y
<1>. DEFINE Less == {ss \in Nat \X Nat : ss[1] < ss[2]}
<1>1. IsWellFoundedOn(Less, Nat)
  BY NatLessThanWellFounded DEF OpToRel
<1>2. PICK x \in S : \A y \in S : <<y, x>> \notin Less
  <2>. HIDE DEF Less
  <2>. QED BY <1>1, WFMin
<1>3. ASSUME NEW y \in S PROVE x <= y
  <2>1. x \in Nat /\ y \in Nat /\ <<y, x>> \notin Less
    BY <1>2
  <2>. QED BY <2>1
<1>. QED BY <1>3

(* What wraps.find(isFailure) finds.                                       *)
LEMMA FirstFailedIsFirst ==
  ASSUME TypeOK, call # NoCall, FailedMembers # {}
  PROVE  /\ FirstFailed \in FailedMembers
         /\ \A n \in FailedMembers : FirstFailed <= n
<1>1. call \in Calls
  BY DEF TypeOK
<1>2. FailedMembers \subseteq Nat
  BY <1>1, PubkeysAssumption, RumoursAssumption
  DEF FailedMembers, Members, ChatRoomMembers, Calls
<1>3. \E x \in FailedMembers : \A y \in FailedMembers : x <= y
  BY <1>2, LeastNumber
<1>. QED BY <1>3 DEF FirstFailed

LEMMA MembersArePeople ==
  ASSUME call \in Calls
  PROVE  Members \subseteq Pubkeys
BY RumoursAssumption DEF Calls, Members, ChatRoomMembers

(* Every step of a wrap moves it from a stage before the end to another.   *)
LEMMA PartStepMoves ==
  ASSUME parts \in [Pubkeys -> Parts], NEW m \in Pubkeys, PartStep(m)
  PROVE  /\ parts[m].at \in Pending /\ parts[m] # NoPart
         /\ parts' \in [Pubkeys -> Parts] /\ parts'[m] # NoPart
         /\ \A n \in Pubkeys : n # m => parts'[n] = parts[n]
         /\ UNCHANGED <<call, answer, network, read>>
<1>1. parts[m].at \in Pending
  BY DEF PartStep, SealRumour, SignSeal, WrapSeal, SignWrap, PartFails, PartRejects, Pending
<1>2. parts[m] # NoPart
  BY <1>1 DEF Pending, NoPart
<1>3. \E part \in Parts : part # NoPart /\ MovePart(m, part)
  <2>1. CASE SealRumour(m)
    BY <2>1 DEF SealRumour, Parts, NoPart
  <2>2. CASE SignSeal(m)
    <3>1. PICK key \in Ephemerals : MovePart(m, [at |-> "wrapping", key |-> key])
      BY <2>2 DEF SignSeal
    <3>. QED BY <3>1 DEF Parts, NoPart
  <2>3. CASE WrapSeal(m) \/ SignWrap(m)
    <3>1. parts[m].at \in {"wrapping", "signingWrap"} /\ parts[m] \in Parts
      BY <2>3 DEF WrapSeal, SignWrap
    <3>2. parts[m].key \in Ephemerals
      BY <3>1 DEF Parts, NoPart
    <3>. QED BY <2>3, <3>2 DEF WrapSeal, SignWrap, Parts, NoPart
  <2>4. CASE PartFails(m)
    BY <2>4 DEF PartFails, Parts, NoPart
  <2>5. CASE PartRejects(m)
    BY <2>5 DEF PartRejects, Parts, NoPart
  <2>. QED BY <2>1, <2>2, <2>3, <2>4, <2>5 DEF PartStep
<1>4. PICK part \in Parts : part # NoPart /\ MovePart(m, part)
  BY <1>3
<1>. QED BY <1>1, <1>2, <1>4 DEF MovePart

(* A step that leaves the call, its wraps and its answer alone.            *)
LEMMA NothingMoves ==
  ASSUME IInv, UNCHANGED <<call, parts, answer>>,
         network \subseteq network',
         read' = NoReading \/ (read'.reader \in Pubkeys /\ read'.wrap \in network')
  PROVE  IInv'
<1>1. Members' = Members /\ Wraps(Members)' = Wraps(Members)
  BY DEF Members, Wraps
<1>2. \A m \in Members : Made(m)' = Made(m)
  BY DEF Made
<1>3. TypeOK'
  BY <1>1 DEF IInv, TypeOK
<1>4. PartsFollowCall' /\ AllOrNothing'
  BY <1>1 DEF IInv, PartsFollowCall, AllOrNothing
<1>5. AnswerFollowsParts'
  BY <1>1, <1>2 DEF IInv, AnswerFollowsParts
<1>. QED BY <1>3, <1>4, <1>5 DEF IInv

-----------------------------------------------------------------------------
LEMMA InitEstablishes == Init => IInv
BY DEF Init, IInv, TypeOK, PartsFollowCall, AnswerFollowsParts, AllOrNothing,
       NoCall, NoPart, NoAnswer, NoReading, Parts

LEMMA BuildKeeps ==
  ASSUME IInv, NEW rumour \in Rumours, NEW signer \in SignerKeys,
         BuildDmGiftWraps(rumour, signer)
  PROVE  IInv'
<1>1. call' \in Calls /\ call'.stage = "key" /\ call = NoCall
  BY DEF BuildDmGiftWraps, Calls
<1>2. answer = NoAnswer /\ \A m \in Pubkeys : parts[m] = NoPart
  BY <1>1 DEF IInv, PartsFollowCall, AnswerFollowsParts, NoCall
<1>. QED BY <1>1, <1>2
     DEF IInv, TypeOK, PartsFollowCall, AnswerFollowsParts, AllOrNothing,
         BuildDmGiftWraps, NoAnswer, NoPart

(* A call that ends before anything is encrypted.                          *)
LEMMA EarlyEndKeeps ==
  ASSUME IInv, call.stage = "key", call' = [call EXCEPT !.stage = "settled"],
         UNCHANGED <<parts, network, read>>,
         \/ answer' = [type |-> "thrown"]
         \/ \E why \in SignerFailures : answer' = [type |-> "failed", why |-> why]
  PROVE  IInv'
<1>1. call \in Calls
  BY DEF IInv, TypeOK, NoCall
<1>2. call' \in Calls /\ call'.stage = "settled"
  BY <1>1 DEF Calls
<1>3. \A m \in Pubkeys : parts[m] = NoPart /\ parts'[m] = NoPart
  BY DEF IInv, PartsFollowCall
<1>4. answer' # NoAnswer /\ answer'.type # "ok"
  BY DEF NoAnswer
<1>. QED BY <1>2, <1>3, <1>4
     DEF IInv, TypeOK, PartsFollowCall, AnswerFollowsParts, AllOrNothing

LEMMA KeyKeeps ==
  ASSUME IInv, KeyFails \/ KeyRejects \/ KeyArrives
  PROVE  IInv'
<1>1. CASE KeyFails
  BY <1>1, EarlyEndKeeps DEF KeyFails, Refuse
<1>2. CASE KeyRejects
  BY <1>2, EarlyEndKeeps DEF KeyRejects
<1>3. CASE KeyArrives /\ (Refuse("pubkey-mismatch") \/ Refuse("encrypt-failed"))
  BY <1>3, EarlyEndKeeps, SignerFailuresAssumption DEF KeyArrives, Refuse
<1>4. CASE /\ call.stage = "key" /\ call.signer = call.rumour.pubkey
           /\ call' = [call EXCEPT !.stage = "wrapping"]
           /\ parts' = [m \in Pubkeys |-> IF m \in Members THEN [at |-> "sealing"] ELSE NoPart]
           /\ UNCHANGED <<answer, network, read>>
  <2>1. call \in Calls
    BY <1>4 DEF IInv, TypeOK, NoCall
  <2>2. /\ call' \in Calls /\ call'.stage = "wrapping"
        /\ call'.rumour = call.rumour /\ call'.signer = call.signer
    BY <1>4, <2>1 DEF Calls
  <2>3. Members' = Members /\ Members \subseteq Pubkeys
    BY <2>1, <2>2, MembersArePeople DEF Members
  <2>4. parts' \in [Pubkeys -> Parts]
    BY <1>4 DEF Parts
  <2>5. answer = NoAnswer /\ answer' = NoAnswer
    BY <1>4 DEF IInv, AnswerFollowsParts
  <2>6. PartsFollowCall'
    BY <1>4, <2>2, <2>3 DEF PartsFollowCall, NoPart
  <2>. QED BY <1>4, <2>2, <2>4, <2>5, <2>6
       DEF IInv, TypeOK, AnswerFollowsParts, AllOrNothing, NoAnswer
<1>. QED BY <1>1, <1>2, <1>3, <1>4 DEF KeyArrives

LEMMA PartStepKeeps ==
  ASSUME IInv, NEW m \in Pubkeys, PartStep(m)
  PROVE  IInv'
<1>1. parts \in [Pubkeys -> Parts]
  BY DEF IInv, TypeOK
<1>2. /\ parts[m].at \in Pending /\ parts[m] # NoPart
      /\ parts' \in [Pubkeys -> Parts] /\ parts'[m] # NoPart
      /\ \A n \in Pubkeys : n # m => parts'[n] = parts[n]
      /\ UNCHANGED <<call, answer, network, read>>
  BY <1>1, PartStepMoves
<1>3. m \in Members /\ call.signer = call.rumour.pubkey
  BY <1>2 DEF IInv, PartsFollowCall
<1>4. Members' = Members
  BY <1>2 DEF Members
<1>5. call \in Calls /\ Members \subseteq Pubkeys
  <2>1. call # NoCall
    BY <1>2 DEF IInv, PartsFollowCall, NoCall
  <2>. QED BY <2>1, MembersArePeople DEF IInv, TypeOK
<1>6. TypeOK'
  BY <1>2, <1>4 DEF IInv, TypeOK, Wraps
<1>7. PartsFollowCall'
  BY <1>2, <1>3, <1>4, <1>5 DEF IInv, PartsFollowCall
<1>8. answer.type # "ok"
  BY <1>2, <1>3 DEF IInv, AnswerFollowsParts, Pending
<1>9. AnswerFollowsParts'
  BY <1>2, <1>8 DEF IInv, AnswerFollowsParts
<1>10. AllOrNothing'
  <2>1. SUFFICES ASSUME answer.type = "failed"
                 PROVE  \E p \in Members :
                          /\ parts'[p].at = "failed" /\ parts'[p].why = answer.why
                          /\ \A n \in Members : n < p => parts'[n].at = "done"
    BY <1>2, <1>4, <1>8 DEF AllOrNothing
  <2>2. PICK p \in Members : /\ parts[p].at = "failed" /\ parts[p].why = answer.why
                             /\ \A n \in Members : n < p => parts[n].at = "done"
    BY <1>2, <2>1 DEF IInv, AllOrNothing
  <2>3. p # m /\ \A n \in Members : n < p => n # m
    BY <1>2, <2>2 DEF Pending
  <2>. QED BY <1>2, <1>5, <2>2, <2>3
<1>. QED BY <1>6, <1>7, <1>9, <1>10 DEF IInv

LEMMA EndKeeps ==
  ASSUME IInv, Throw \/ Settle
  PROVE  IInv'
<1>1. call.stage = "wrapping" /\ call' = [call EXCEPT !.stage = "settled"]
  BY DEF Throw, Settle
<1>2. call \in Calls /\ call # NoCall
  BY <1>1 DEF IInv, TypeOK, NoCall
<1>3. /\ call' \in Calls /\ call'.stage = "settled"
      /\ call'.rumour = call.rumour /\ call'.signer = call.signer
  BY <1>1, <1>2 DEF Calls
<1>4. Members' = Members /\ Members \subseteq Pubkeys
  BY <1>2, <1>3, MembersArePeople DEF Members
<1>5. UNCHANGED <<parts, network, read>>
  BY DEF Throw, Settle
<1>6. PartsFollowCall'
  BY <1>1, <1>3, <1>4, <1>5 DEF IInv, PartsFollowCall
<1>7. call.signer = call.rumour.pubkey
  BY <1>1 DEF IInv, PartsFollowCall
<1>8. CASE Throw
  BY <1>3, <1>5, <1>6, <1>8 DEF Throw, IInv, TypeOK, AnswerFollowsParts, AllOrNothing, NoAnswer
<1>9. CASE Settle /\ FailedMembers # {}
  <2>1. /\ FirstFailed \in FailedMembers
        /\ \A n \in FailedMembers : FirstFailed <= n
    BY <1>2, <1>9, FirstFailedIsFirst DEF IInv
  <2>2. FirstFailed \in Members /\ FirstFailed \in Pubkeys /\ parts[FirstFailed].at = "failed"
    BY <1>4, <2>1 DEF FailedMembers
  <2>3. parts[FirstFailed].why \in SignerFailures
    <3>1. parts[FirstFailed] \in Parts
      BY <2>2 DEF IInv, TypeOK
    <3>. QED BY <2>2, <3>1 DEF Parts, NoPart
  <2>4. answer' = [type |-> "failed", why |-> parts[FirstFailed].why]
    BY <1>9 DEF Settle
  <2>5. \A n \in Members : n < FirstFailed => parts[n].at = "done"
    <3>. SUFFICES ASSUME NEW n \in Members, n < FirstFailed PROVE parts[n].at = "done"
      OBVIOUS
    <3>1. n \in Nat /\ FirstFailed \in Nat
      BY <1>4, <2>2, PubkeysAssumption
    <3>2. n \notin FailedMembers
      BY <2>1, <3>1
    <3>. QED BY <1>9, <3>2 DEF Settle, FailedMembers
  <2>6. TypeOK' /\ AnswerFollowsParts'
    BY <1>3, <1>5, <2>3, <2>4 DEF IInv, TypeOK, AnswerFollowsParts, NoAnswer
  <2>7. AllOrNothing'
    BY <1>4, <1>5, <2>2, <2>4, <2>5 DEF AllOrNothing
  <2>. QED BY <1>6, <2>6, <2>7 DEF IInv
<1>10. CASE Settle /\ FailedMembers = {}
  <2>1. \A m \in Members : parts[m].at = "done"
    BY <1>10 DEF Settle, FailedMembers
  <2>2. PICK wraps : wraps = [m \in Members |-> Made(m)]
    OBVIOUS
  <2>3. answer' = [type |-> "ok", wraps |-> wraps]
    BY <1>10, <2>2 DEF Settle, Made
  <2>4. \A m \in Members : parts[m].key \in Ephemerals
    <3>. SUFFICES ASSUME NEW m \in Members PROVE parts[m].key \in Ephemerals
      OBVIOUS
    <3>1. parts[m] \in Parts
      BY <1>4 DEF IInv, TypeOK
    <3>. QED BY <2>1, <3>1 DEF Parts, NoPart
  <2>5. wraps \in Wraps(Members)
    BY <2>2, <2>4 DEF Wraps, Made
  <2>6. Wraps(Members)' = Wraps(Members)
    BY <1>3, <1>4 DEF Wraps
  <2>7. TypeOK'
    <3>1. call' # NoCall
      BY <1>3 DEF NoCall
    <3>. QED BY <1>3, <1>5, <2>3, <2>5, <2>6, <3>1 DEF IInv, TypeOK
  <2>8. \A m \in Members : Made(m)' = Made(m)
    BY <1>3, <1>5 DEF Made
  <2>9. AnswerFollowsParts'
    BY <1>3, <1>4, <1>5, <1>7, <2>1, <2>2, <2>3, <2>8 DEF AnswerFollowsParts, NoAnswer
  <2>10. AllOrNothing'
    <3>1. \A m \in Pubkeys : parts[m].at = "done" => m \in Members
      BY DEF IInv, PartsFollowCall, NoPart
    <3>. QED BY <1>4, <1>5, <2>1, <2>3, <3>1 DEF AllOrNothing
  <2>. QED BY <1>6, <2>7, <2>9, <2>10 DEF IInv
<1>. QED BY <1>8, <1>9, <1>10

LEMMA HostKeeps ==
  ASSUME IInv, \/ \E m \in Pubkeys : Publish(m)
               \/ \E reader \in Pubkeys, wrap \in network, sealUp, rumourUp \in BOOLEAN :
                    Unwrap(reader, wrap, sealUp, rumourUp)
               \/ UNCHANGED vars
  PROVE  IInv'
<1>1. read = NoReading \/ (read.reader \in Pubkeys /\ read.wrap \in network)
  BY DEF IInv, TypeOK
<1>2. CASE \E m \in Pubkeys : Publish(m)
  BY <1>1, <1>2, NothingMoves DEF Publish
<1>3. CASE \E reader \in Pubkeys, wrap \in network, sealUp, rumourUp \in BOOLEAN :
             Unwrap(reader, wrap, sealUp, rumourUp)
  <2>1. UNCHANGED <<call, parts, answer, network>>
    BY <1>3 DEF Unwrap
  <2>2. read' = read \/ (read'.reader \in Pubkeys /\ read'.wrap \in network)
    BY <1>3 DEF Unwrap
  <2>. QED BY <1>1, <2>1, <2>2, NothingMoves
<1>4. CASE UNCHANGED vars
  BY <1>1, <1>4, NothingMoves DEF vars
<1>. QED BY <1>2, <1>3, <1>4

LEMMA NextKeeps == IInv /\ [Next]_vars => IInv'
<1>. SUFFICES ASSUME IInv, [Next]_vars PROVE IInv'
  OBVIOUS
<1>. QED BY BuildKeeps, KeyKeeps, PartStepKeeps, EndKeeps, HostKeeps DEF Next, BuildNext

LEMMA Invariance == Spec => []IInv
BY InitEstablishes, NextKeeps, PTL DEF Spec

-----------------------------------------------------------------------------
(* The state of a call, its wraps and its answer keep their types.         *)
THEOREM TypeCorrect == Spec => []TypeOK
<1>1. IInv => TypeOK
  BY DEF IInv
<1>. QED BY <1>1, Invariance, PTL

(* buildDmGiftWraps answers with a wrap for each member of the room or     *)
(* with none, and the failure it reports is that of the first member.      *)
THEOREM OneEachOrNone == Spec => []AllOrNothing
<1>1. IInv => AllOrNothing
  BY DEF IInv
<1>. QED BY <1>1, Invariance, PTL

(* A wrap to m opens with m's key.                                         *)
LEMMA MemberOpens ==
  ASSUME NEW rumour \in Rumours, NEW m \in Pubkeys, NEW key \in Ephemerals
  PROVE  UnwrapGiftWrap(m, GiftWrap(rumour, rumour.pubkey, m, key), TRUE, TRUE) =
           Opened(rumour, rumour.pubkey)
<1>1. rumour.pubkey \in Pubkeys
  BY RumoursAssumption
<1>2. NotJson # RumourJson(rumour) /\ NotJson # Seal(rumour, rumour.pubkey, m)
  BY <1>1, NotJsonAssumption
<1>3. ReadRumour(RumourJson(rumour), Seal(rumour, rumour.pubkey, m)) = Opened(rumour, rumour.pubkey)
  BY <1>2 DEF ReadRumour, RumourJson, Seal
<1>4. ReadSeal(m, Seal(rumour, rumour.pubkey, m), TRUE) = Opened(rumour, rumour.pubkey)
  <2>1. Decrypts(m, rumour.pubkey, Payload(rumour.pubkey, m, RumourJson(rumour)), TRUE)
    BY DEF Decrypts, Payload
  <2>. QED BY <1>2, <1>3, <2>1 DEF ReadSeal, Seal, Payload
<1>5. Decrypts(m, key, Payload(key, m, Seal(rumour, rumour.pubkey, m)), TRUE)
  BY DEF Decrypts, Payload
<1>. QED BY <1>4, <1>5 DEF UnwrapGiftWrap, GiftWrap, Payload

(* And with no other person's: the throwaway key is nobody's.              *)
LEMMA OthersFail ==
  ASSUME NEW rumour \in Rumours, NEW m \in Pubkeys, NEW key \in Ephemerals,
         NEW reader \in Pubkeys, reader # m
  PROVE  UnwrapGiftWrap(reader, GiftWrap(rumour, rumour.pubkey, m, key), TRUE, TRUE) =
           Failed("seal-decrypt-failed")
<1>1. ~Decrypts(reader, key, Payload(key, m, Seal(rumour, rumour.pubkey, m)), TRUE)
  BY EphemeralsAssumption DEF Decrypts, Payload
<1>. QED BY <1>1 DEF UnwrapGiftWrap, GiftWrap

(* Whatever order the wraps were made in, each member of the room opens    *)
(* its own to the rumour, and nobody opens another's.                      *)
THEOREM TheRoomReads == Spec => []RoomReadsItsWraps
<1>1. IInv => RoomReadsItsWraps
  <2>. SUFFICES ASSUME IInv, answer.type = "ok", NEW m \in Members, NEW reader \in Pubkeys
                PROVE  UnwrapGiftWrap(reader, answer.wraps[m], TRUE, TRUE) =
                         IF reader = m THEN Opened(call.rumour, call.rumour.pubkey)
                         ELSE Failed("seal-decrypt-failed")
    BY DEF RoomReadsItsWraps
  <2>1. call \in Calls
    BY DEF IInv, TypeOK, NoAnswer
  <2>2. call.rumour \in Rumours /\ m \in Pubkeys
    BY <2>1, MembersArePeople DEF Calls
  <2>3. /\ parts[m].at = "done" /\ answer.wraps[m] = Made(m)
        /\ call.signer = call.rumour.pubkey
    BY DEF IInv, AnswerFollowsParts
  <2>4. parts[m].key \in Ephemerals
    <3>1. parts[m] \in Parts
      BY <2>2 DEF IInv, TypeOK
    <3>. QED BY <2>3, <3>1 DEF Parts, NoPart
  <2>5. answer.wraps[m] = GiftWrap(call.rumour, call.rumour.pubkey, m, parts[m].key)
    BY <2>3 DEF Made
  <2>6. PICK rumour \in Rumours, key \in Ephemerals :
               call.rumour = rumour /\ parts[m].key = key
    BY <2>2, <2>4
  <2>7. answer.wraps[m] = GiftWrap(rumour, rumour.pubkey, m, key)
    BY <2>5, <2>6
  <2>8. UnwrapGiftWrap(reader, answer.wraps[m], TRUE, TRUE) =
          UnwrapGiftWrap(reader, GiftWrap(rumour, rumour.pubkey, m, key), TRUE, TRUE)
    BY <2>7, Zenon
  <2>9. CASE reader = m
    <3>1. UnwrapGiftWrap(reader, answer.wraps[m], TRUE, TRUE) = Opened(rumour, rumour.pubkey)
      BY <2>2, <2>8, <2>9, MemberOpens, Zenon
    <3>. QED BY <2>6, <2>9, <3>1, Zenon
  <2>10. CASE reader # m
    BY <2>2, <2>8, <2>10, OthersFail, Zenon
  <2>. QED BY <2>9, <2>10
<1>. QED BY <1>1, Invariance, PTL

(* What a success of unwrapGiftWrap says about a wrap from anywhere.       *)
LEMMA OpenedMeansSigned ==
  ASSUME NEW reader, NEW wrap, NEW sealUp, NEW rumourUp, NEW result,
         result = UnwrapGiftWrap(reader, wrap, sealUp, rumourUp), result.success
  PROVE  LET seal == wrap.content.text
             json == seal.content.text IN
         /\ wrap.genuine /\ wrap.content.between = {reader, wrap.pubkey}
         /\ seal.genuine /\ seal.pubkey = result.sender
         /\ seal.content.between = {reader, result.sender}
         /\ json.rumour = result.rumour /\ json.rumour.pubkey = result.sender
         /\ json.sig # "present"
<1>. DEFINE seal == wrap.content.text
            json == seal.content.text
<1>1. /\ wrap.genuine /\ Decrypts(reader, wrap.pubkey, wrap.content, sealUp)
      /\ result = ReadSeal(reader, seal, rumourUp)
  BY DEF UnwrapGiftWrap, Failed
<1>2. /\ seal.genuine /\ Decrypts(reader, seal.pubkey, seal.content, rumourUp)
      /\ ReadSeal(reader, seal, rumourUp) = ReadRumour(json, seal)
  BY <1>1 DEF ReadSeal, Failed
<1>3. /\ json.sig # "present" /\ json.rumour.pubkey = seal.pubkey
      /\ ReadRumour(json, seal) = Opened(json.rumour, seal.pubkey)
  <2>. HIDE DEF seal, json
  <2>1. ReadRumour(json, seal).success
    BY <1>1, <1>2
  <2>. QED BY <2>1 DEF ReadRumour, Failed
<1>4. result = Opened(json.rumour, seal.pubkey)
  BY <1>1, <1>2, <1>3
<1>5. wrap.content.between = {reader, wrap.pubkey}
  BY <1>1 DEF Decrypts
<1>6. seal.content.between = {reader, seal.pubkey}
  BY <1>2 DEF Decrypts
<1>7. result.sender = seal.pubkey /\ result.rumour = json.rumour
  BY <1>4 DEF Opened
<1>8. wrap.genuine /\ seal.genuine
  BY <1>1, <1>2
<1>9. seal.content.between = {reader, result.sender} /\ json.rumour.pubkey = result.sender
  BY <1>3, <1>6, <1>7, Zenon
<1>. QED BY <1>3, <1>5, <1>7, <1>8, <1>9, Zenon

(* The sender unwrapGiftWrap names is the rumour's author and signed the   *)
(* seal it came in, whatever program made the wrap.                        *)
THEOREM SendersSigned == Spec => []SenderSignedForIt
<1>1. Init => SenderSignedForIt
  BY DEF Init, SenderSignedForIt
<1>2. SenderSignedForIt /\ [Next]_vars => SenderSignedForIt'
  <2>. SUFFICES ASSUME SenderSignedForIt, [Next]_vars PROVE SenderSignedForIt'
    OBVIOUS
  <2>1. CASE UNCHANGED read
    BY <2>1 DEF SenderSignedForIt
  <2>2. CASE \E reader \in Pubkeys, wrap \in network, sealUp, rumourUp \in BOOLEAN :
               Unwrap(reader, wrap, sealUp, rumourUp)
    <3>1. PICK reader \in Pubkeys, wrap \in network, sealUp \in BOOLEAN, rumourUp \in BOOLEAN :
            Unwrap(reader, wrap, sealUp, rumourUp)
      BY <2>2
    <3>2. CASE ~UnwrapGiftWrap(reader, wrap, sealUp, rumourUp).success
      BY <2>1, <3>1, <3>2 DEF Unwrap
    <3>3. CASE UnwrapGiftWrap(reader, wrap, sealUp, rumourUp).success
      <4>1. PICK result : result = UnwrapGiftWrap(reader, wrap, sealUp, rumourUp)
        OBVIOUS
      <4>2. read' = [reader |-> reader, wrap |-> wrap,
                     rumour |-> result.rumour, sender |-> result.sender]
        BY <3>1, <3>3, <4>1 DEF Unwrap
      <4>. QED BY <3>3, <4>1, <4>2, OpenedMeansSigned DEF SenderSignedForIt
    <3>. QED BY <3>2, <3>3
  <2>. QED BY <2>1, <2>2
       DEF Next, BuildNext, BuildDmGiftWraps, KeyFails, KeyRejects, KeyArrives, Refuse,
           PartStep, SealRumour, SignSeal, WrapSeal, SignWrap, PartFails, PartRejects,
           MovePart, Throw, Settle, Publish, vars
<1>. QED BY <1>1, <1>2, PTL DEF Spec

-----------------------------------------------------------------------------
(* LocalSigner.                                                            *)

(* A kept peer's cipher runs over the key derived for that peer.           *)
OwnKey == \A p \in Kept : conversationKeys[p].key = p

(* The insertion order of the Map is the order of last use.                *)
OrderedByUse ==
  /\ \A p \in Peers : lastUse[p] <= calls
  /\ \A p, q \in Used : lastUse[p] = lastUse[q] => p = q
  /\ \A p \in Kept : conversationKeys[p].at = lastUse[p]

SignerInv ==
  /\ SignerTypeOK /\ KeptAreMostRecent /\ OwnKey /\ OrderedByUse
  /\ IsFiniteSet(Kept) /\ IsFiniteSet(Used)

-----------------------------------------------------------------------------
(* A Map that is not empty has a first key.                                *)
LEMMA LeastRecentIsFirst ==
  ASSUME NEW map, DOMAIN map # {}, \A q \in DOMAIN map : map[q].at \in Nat
  PROVE  /\ LeastRecent(map) \in DOMAIN map
         /\ \A r \in DOMAIN map : map[LeastRecent(map)].at <= map[r].at
<1>. DEFINE Less   == {ss \in Nat \X Nat : ss[1] < ss[2]}
            Places == {map[q].at : q \in DOMAIN map}
<1>1. IsWellFoundedOn(Less, Nat)
  BY NatLessThanWellFounded DEF OpToRel
<1>2. Places \subseteq Nat /\ Places # {}
  OBVIOUS
<1>3. PICK x \in Places : \A y \in Places : <<y, x>> \notin Less
  <2>. HIDE DEF Less, Places
  <2>. QED BY <1>1, <1>2, WFMin
<1>4. \A y \in Places : x <= y
  <2>. SUFFICES ASSUME NEW y \in Places PROVE x <= y
    OBVIOUS
  <2>1. x \in Nat /\ y \in Nat /\ <<y, x>> \notin Less
    BY <1>2, <1>3
  <2>. QED BY <2>1
<1>5. \E q \in DOMAIN map : \A r \in DOMAIN map : map[q].at <= map[r].at
  BY <1>3, <1>4
<1>. QED BY <1>5 DEF LeastRecent

(* What Remember leaves in the Map.                                        *)
LEMMA Remembered ==
  ASSUME NEW map, IsFiniteSet(DOMAIN map), Cardinality(DOMAIN map) <= CacheSize,
         NEW p, NEW key, NEW at \in Nat,
         \A q \in DOMAIN map : map[q].at \in Nat /\ map[q].at < at
  PROVE  LET new  == Remember(map, p, key, at)
             gone == DOMAIN map \ DOMAIN new IN
         /\ p \in DOMAIN new /\ DOMAIN new \subseteq DOMAIN map \cup {p}
         /\ \A q \in DOMAIN new :
              new[q] = IF q = p THEN [key |-> key, at |-> at] ELSE map[q]
         /\ IsFiniteSet(DOMAIN new) /\ Cardinality(DOMAIN new) <= CacheSize
         /\ gone # {} => Cardinality(DOMAIN new) = CacheSize /\ p \notin DOMAIN map
         /\ \A g \in gone, q \in DOMAIN map : map[g].at <= map[q].at
         /\ \A g, h \in gone : g = h
<1>. DEFINE M == Set(Delete(map, p), p, key, at)
            new == Remember(map, p, key, at)
<1>1. DOMAIN M = DOMAIN map \cup {p}
  BY DEF Set, Delete
<1>2. \A q \in DOMAIN M : M[q] = IF q = p THEN [key |-> key, at |-> at] ELSE map[q]
  BY DEF Set, Delete
<1>3. /\ IsFiniteSet(DOMAIN M)
      /\ Cardinality(DOMAIN map) \in Nat
      /\ Cardinality(DOMAIN M) = IF p \in DOMAIN map THEN Cardinality(DOMAIN map)
                                 ELSE Cardinality(DOMAIN map) + 1
  BY <1>1, FS_AddElement, FS_CardinalityType
<1>4. new = Evict(M)
  BY DEF Remember
<1>. HIDE DEF M, new
<1>5. CASE Cardinality(DOMAIN M) <= CacheSize
  <2>1. new = M
    BY <1>3, <1>4, <1>5, CacheSizeAssumption DEF Evict
  <2>. QED BY <1>1, <1>2, <1>3, <1>5, <2>1 DEF new
<1>6. CASE Cardinality(DOMAIN M) > CacheSize
  <2>. DEFINE v == LeastRecent(M)
  <2>1. p \notin DOMAIN map /\ Cardinality(DOMAIN map) = CacheSize
        /\ Cardinality(DOMAIN M) = CacheSize + 1
    BY <1>3, <1>6, CacheSizeAssumption
  <2>2. v \in DOMAIN M /\ \A r \in DOMAIN M : M[v].at <= M[r].at
    <3>1. \A q \in DOMAIN M : M[q].at \in Nat
      BY <1>1, <1>2
    <3>. QED BY <1>1, <3>1, LeastRecentIsFirst
  <2>. HIDE DEF v
  <2>3. PICK other : other \in DOMAIN map
    BY <2>1, FS_EmptySet, CacheSizeAssumption
  <2>4. v # p
    <3>1. M[other].at \in Nat /\ M[other].at < at /\ M[p].at = at
      BY <1>1, <1>2, <2>1, <2>3
    <3>2. v = p => M[p].at <= M[other].at
      BY <1>1, <2>2, <2>3
    <3>. QED BY <3>1, <3>2
  <2>5. new = Delete(M, v)
    BY <1>4, <1>6, <2>1 DEF Evict, v
  <2>6. DOMAIN new = DOMAIN M \ {v} /\ \A q \in DOMAIN new : new[q] = M[q]
    BY <2>5 DEF Delete
  <2>7. IsFiniteSet(DOMAIN new) /\ Cardinality(DOMAIN new) = CacheSize
    <3>1. /\ IsFiniteSet(DOMAIN M \ {v})
          /\ Cardinality(DOMAIN M \ {v}) = Cardinality(DOMAIN M) - 1
      BY <1>3, <2>2, FS_RemoveElement
    <3>. QED BY <2>1, <2>6, <3>1, CacheSizeAssumption
  <2>8. \A q \in DOMAIN map : map[v].at <= map[q].at
    BY <1>1, <1>2, <2>1, <2>2, <2>4
  <2>. QED BY <1>1, <1>2, <2>1, <2>2, <2>4, <2>6, <2>7, <2>8, CacheSizeAssumption DEF new
<1>. QED BY <1>3, <1>5, <1>6, CacheSizeAssumption

-----------------------------------------------------------------------------
LEMMA SignerInitKeeps == SignerInit => SignerInv
<1>. SUFFICES ASSUME SignerInit PROVE SignerInv
  OBVIOUS
<1>1. SignerTypeOK
  BY MaxCallsAssumption DEF SignerInit, SignerTypeOK, Kept, Entry, Answers
<1>2. Used = {} /\ Kept = {}
  BY DEF SignerInit, Used, Kept
<1>3. KeptAreMostRecent
  BY <1>2, FS_EmptySet, CacheSizeAssumption DEF KeptAreMostRecent
<1>. QED BY <1>1, <1>2, <1>3, FS_EmptySet, MaxCallsAssumption
     DEF SignerInit, SignerInv, OwnKey, OrderedByUse

LEMMA SignerStutterKeeps == SignerInv /\ UNCHANGED <<conversationKeys, lastUse, calls>>
                        /\ last' \in [derived : BOOLEAN, result : Answers] => SignerInv'
BY DEF SignerInv, SignerTypeOK, Kept, Used, KeptAreMostRecent, OwnKey, OrderedByUse

(* A call whose cipher failed, or that failed before it.                   *)
LEMMA FailedCallKeeps ==
  ASSUME SignerInv, calls < MaxCalls, calls' = calls + 1,
         last' \in [derived : BOOLEAN, result : Answers],
         UNCHANGED <<conversationKeys, lastUse>>
  PROVE  SignerInv'
<1>1. SignerTypeOK' /\ OrderedByUse'
  BY MaxCallsAssumption DEF SignerInv, SignerTypeOK, Kept, Used, OrderedByUse
<1>. QED BY <1>1 DEF SignerInv, Kept, Used, KeptAreMostRecent, OwnKey

(* A call whose cipher succeeded.                                          *)
LEMMA SuccessfulCallKeeps ==
  ASSUME SignerInv, NEW p \in Peers, calls < MaxCalls, calls' = calls + 1,
         last' \in [derived : BOOLEAN, result : Answers],
         conversationKeys' = Remember(conversationKeys, p, p, calls + 1),
         lastUse' = [lastUse EXCEPT ![p] = calls + 1]
  PROVE  SignerInv'
<1>. USE DEF Kept
<1>1. /\ calls \in Nat /\ calls + 1 \in 1..MaxCalls
      /\ \A q \in Peers : lastUse[q] \in Nat /\ lastUse[q] <= calls
      /\ \A q \in Kept : /\ q \in Peers /\ conversationKeys[q] \in Entry
                        /\ conversationKeys[q].at = lastUse[q]
                        /\ conversationKeys[q].at \in Nat
                        /\ conversationKeys[q].at < calls + 1
  BY MaxCallsAssumption DEF SignerInv, SignerTypeOK, OrderedByUse, Entry
<1>. DEFINE new  == conversationKeys'
            gone == Kept \ DOMAIN new
<1>2. /\ p \in DOMAIN new /\ DOMAIN new \subseteq Kept \cup {p}
      /\ \A q \in DOMAIN new :
           new[q] = IF q = p THEN [key |-> p, at |-> calls + 1] ELSE conversationKeys[q]
      /\ IsFiniteSet(DOMAIN new) /\ Cardinality(DOMAIN new) <= CacheSize
      /\ gone # {} => Cardinality(DOMAIN new) = CacheSize /\ p \notin Kept
      /\ \A g \in gone, q \in Kept : conversationKeys[g].at <= conversationKeys[q].at
      /\ \A g, h \in gone : g = h
  <2>1. IsFiniteSet(Kept) /\ Cardinality(Kept) <= CacheSize
    BY DEF SignerInv, KeptAreMostRecent
  <2>2. calls + 1 \in Nat
    BY <1>1
  <2>. QED BY <1>1, <2>1, <2>2, Remembered
<1>3. \A q \in Peers : lastUse'[q] = IF q = p THEN calls + 1 ELSE lastUse[q]
  BY DEF SignerInv, SignerTypeOK
<1>4. Used' = Used \cup {p}
  BY <1>1, <1>3 DEF Used
<1>5. SignerTypeOK'
  <2>1. DOMAIN new \subseteq Peers
    BY <1>1, <1>2
  <2>2. \A q \in DOMAIN new : new[q] \in Entry
    BY <1>1, <1>2 DEF Entry
  <2>3. new \in [DOMAIN new -> Entry]
    <3>1. new = [q \in DOMAIN new |-> new[q]]
      BY DEF Remember, Evict, Set, Delete
    <3>. QED BY <2>2, <3>1
  <2>4. lastUse' \in [Peers -> 0..MaxCalls]
    BY <1>1 DEF SignerInv, SignerTypeOK
  <2>. QED BY <1>1, <2>1, <2>3, <2>4, MaxCallsAssumption DEF SignerTypeOK
<1>6. OwnKey'
  BY <1>2 DEF SignerInv, OwnKey
<1>7. OrderedByUse'
  <2>1. \A q \in Peers : lastUse'[q] <= calls'
    BY <1>1, <1>3
  <2>2. \A q, r \in Used' : lastUse'[q] = lastUse'[r] => q = r
    <3>1. \A q, r \in Used : lastUse[q] = lastUse[r] => q = r
      BY DEF SignerInv, OrderedByUse
    <3>. QED BY <1>1, <1>3, <1>4, <3>1 DEF Used
  <2>3. \A q \in DOMAIN new : new[q].at = lastUse'[q]
    BY <1>1, <1>2, <1>3
  <2>. QED BY <2>1, <2>2, <2>3 DEF OrderedByUse
<1>8. KeptAreMostRecent'
  <2>1. /\ Kept \subseteq Used
        /\ \A q \in Kept, r \in Used \ Kept : lastUse[q] > lastUse[r]
        /\ Kept # Used => Cardinality(Kept) = CacheSize
    BY DEF SignerInv, KeptAreMostRecent
  <2>2. DOMAIN new \subseteq Used'
    BY <1>2, <1>4, <2>1
  <2>3. \A q \in DOMAIN new, r \in Used' \ DOMAIN new : lastUse'[q] > lastUse'[r]
    <3>. SUFFICES ASSUME NEW q \in DOMAIN new, NEW r \in Used' \ DOMAIN new
                  PROVE  lastUse'[q] > lastUse'[r]
      OBVIOUS
    <3>1. /\ r # p /\ r \in Used /\ r \in Peers /\ q \in Peers
          /\ lastUse'[r] = lastUse[r] /\ lastUse[r] \in Nat /\ lastUse[r] <= calls
      BY <1>1, <1>2, <1>3, <1>4 DEF Used
    <3>2. CASE q = p
      BY <1>1, <1>3, <3>1, <3>2
    <3>3. CASE q # p /\ r \notin Kept
      BY <1>2, <1>3, <2>1, <3>1, <3>3
    <3>4. CASE q # p /\ r \in Kept
      <4>1. q \in Kept /\ lastUse'[q] = lastUse[q] /\ lastUse[q] \in Nat
        BY <1>1, <1>2, <1>3, <3>1, <3>4
      <4>2. lastUse[r] <= lastUse[q]
        BY <1>1, <1>2, <3>4, <4>1
      <4>3. lastUse[r] # lastUse[q]
        BY <2>1, <3>1, <4>1 DEF SignerInv, OrderedByUse
      <4>. QED BY <3>1, <4>1, <4>2, <4>3
    <3>. QED BY <3>2, <3>3, <3>4
  <2>4. DOMAIN new # Used' => Cardinality(DOMAIN new) = CacheSize
    <3>. SUFFICES ASSUME DOMAIN new # Used', gone = {}
                  PROVE  Cardinality(DOMAIN new) = CacheSize
      BY <1>2
    <3>1. DOMAIN new = Kept \cup {p}
      BY <1>2
    <3>2. PICK r \in Used : r \notin DOMAIN new
      BY <1>4, <2>2, <1>2
    <3>3. Cardinality(Kept) = CacheSize /\ IsFiniteSet(Kept)
      BY <2>1, <3>1, <3>2 DEF SignerInv
    <3>4. Cardinality(DOMAIN new) = IF p \in Kept THEN CacheSize ELSE CacheSize + 1
      BY <3>1, <3>3, FS_AddElement
    <3>. QED BY <1>2, <3>4, CacheSizeAssumption
  <2>. QED BY <1>2, <2>2, <2>3, <2>4 DEF KeptAreMostRecent
<1>9. IsFiniteSet(Used')
  BY <1>4, FS_AddElement DEF SignerInv
<1>. QED BY <1>2, <1>5, <1>6, <1>7, <1>8, <1>9 DEF SignerInv

LEMMA CallKeeps ==
  ASSUME SignerInv, NEW p \in Peers, NEW derivation \in Answers, NEW cipher \in Answers,
         WithConversationKey(p, derivation, cipher)
  PROVE  SignerInv'
<1>. DEFINE derived == p \notin Kept
            result  == IF derived /\ derivation # "ok" THEN derivation ELSE cipher
<1>1. /\ calls < MaxCalls /\ calls' = calls + 1
      /\ last' = [derived |-> derived, result |-> result]
  BY DEF WithConversationKey
<1>2. last' \in [derived : BOOLEAN, result : Answers]
  BY <1>1
<1>3. CASE result = "ok"
  <2>1. (IF derived THEN p ELSE conversationKeys[p].key) = p
    BY DEF SignerInv, OwnKey
  <2>2. /\ conversationKeys' = Remember(conversationKeys, p, p, calls + 1)
        /\ lastUse' = [lastUse EXCEPT ![p] = calls + 1]
    BY <1>3, <2>1 DEF WithConversationKey
  <2>. QED BY <1>1, <1>2, <2>2, SuccessfulCallKeeps
<1>4. CASE result # "ok"
  <2>1. UNCHANGED <<conversationKeys, lastUse>>
    BY <1>4 DEF WithConversationKey
  <2>. QED BY <1>1, <1>2, <2>1, FailedCallKeeps
<1>. QED BY <1>3, <1>4

LEMMA SignerInductive == SignerInv /\ [SignerNext]_signerVars => SignerInv'
<1>. SUFFICES ASSUME SignerInv, [SignerNext]_signerVars PROVE SignerInv'
  OBVIOUS
<1>1. CASE \E p \in Peers : Nip44(p)
  BY <1>1, CallKeeps DEF Nip44
<1>2. CASE Other
  <2>1. last' \in [derived : BOOLEAN, result : Answers]
    BY <1>2 DEF Other
  <2>. QED BY <1>2, <2>1, SignerStutterKeeps DEF Other
<1>3. CASE UNCHANGED signerVars
  BY <1>3, SignerStutterKeeps DEF signerVars, SignerInv, SignerTypeOK
<1>. QED BY <1>1, <1>2, <1>3 DEF SignerNext

LEMMA SignerInvariance == SignerSpec => []SignerInv
  BY SignerInitKeeps, SignerInductive, PTL DEF SignerSpec

-----------------------------------------------------------------------------
(* withConversationKey keeps the state well formed.                        *)
THEOREM SignerTypeCorrect == SignerSpec => []SignerTypeOK
<1>1. SignerInv => SignerTypeOK
  BY DEF SignerInv
<1>. QED BY <1>1, SignerInvariance, PTL

(* withConversationKey's delete, set and eviction make the Map, for any    *)
(* cache size, exactly the most recently used peers.                       *)
THEOREM MostRecentAreKept == SignerSpec => []KeptAreMostRecent
<1>1. SignerInv => KeptAreMostRecent
  BY DEF SignerInv
<1>. QED BY <1>1, SignerInvariance, PTL

(* A key that withConversationKey derives again was pushed out by          *)
(* CacheSize other peers, whatever payloads failed in between.             *)
THEOREM OnlyForgottenAreDerived == SignerSpec => DerivesOnlyForgotten
<1>1. ASSUME SignerInv, [SignerNext]_signerVars, NEW p \in Peers, calls' # calls,
             last'.derived, last'.result = "ok", lastUse'[p] # lastUse[p], p \in Used
      PROVE  Cardinality(Since(p)) >= CacheSize
  <2>1. PICK q \in Peers, derivation \in Answers, cipher \in Answers :
          WithConversationKey(q, derivation, cipher)
    BY <1>1 DEF SignerNext, Nip44, Other, signerVars
  <2>2. q = p
    BY <1>1, <2>1 DEF WithConversationKey, SignerInv, SignerTypeOK
  <2>3. p \notin Kept
    BY <1>1, <2>1, <2>2 DEF WithConversationKey
  <2>4. Cardinality(Kept) = CacheSize /\ Kept \subseteq Since(p)
    BY <1>1, <2>3 DEF SignerInv, KeptAreMostRecent, Since
  <2>5. IsFiniteSet(Since(p))
    BY <1>1, FS_Subset DEF SignerInv, Since
  <2>6. Cardinality(Kept) <= Cardinality(Since(p))
    BY <2>4, <2>5, FS_Subset
  <2>. QED BY <2>4, <2>5, <2>6, FS_CardinalityType, CacheSizeAssumption
<1>2. SignerInv /\ [SignerNext]_signerVars
        => [\A p \in Peers :
              calls' # calls /\ last'.derived /\ last'.result = "ok"
                /\ lastUse'[p] # lastUse[p] /\ p \in Used
              => Cardinality(Since(p)) >= CacheSize]_signerVars
  BY <1>1
<1>. QED BY <1>2, SignerInvariance, PTL DEF SignerSpec, DerivesOnlyForgotten

-----------------------------------------------------------------------------
(* Nip44.                                                                  *)

(* Every length modelled beyond the first chunk has its power of two.      *)
LEMMA PowersCover ==
  ASSUME NEW len \in Nat, 32 < len, len <= MaxLength
  PROVE  \E p \in PowersOfTwo : len <= p /\ p < 2 * len
<1>1. CASE len <= 8192
  BY <1>1, SMTT(30) DEF PowersOfTwo
<1>2. CASE len > 8192 /\ len <= 2097152
  BY <1>2, SMTT(30) DEF PowersOfTwo
<1>3. CASE len > 2097152
  BY <1>3, SMTT(30) DEF PowersOfTwo, MaxLength
<1> QED BY <1>1, <1>2, <1>3, SMT

(* Different powers of two are at least a factor of two apart.             *)
LEMMA PowersDouble ==
  ASSUME NEW p \in PowersOfTwo, NEW q \in PowersOfTwo, p < q
  PROVE  2 * p <= q
BY SMTT(30) DEF PowersOfTwo

ChunkOf(p) == IF p <= 256 THEN 32 ELSE p \div 8

(* A power of two is a whole number of the chunks it is padded by.         *)
LEMMA ChunksDivide ==
  ASSUME NEW p \in PowersOfTwo
  PROVE  /\ p \in Nat /\ 64 <= p /\ ChunkOf(p) \in Nat /\ 32 <= ChunkOf(p)
         /\ p = 2 * ChunkOf(p) \/ p = 4 * ChunkOf(p) \/ p = 8 * ChunkOf(p)
BY SMTT(30) DEF PowersOfTwo, ChunkOf

(* Rounding up to a whole number of chunks.                                *)
LEMMA RoundUp ==
  ASSUME NEW c \in Nat, c > 0, NEW x \in Nat, x > 0
  PROVE  /\ c * ((x - 1) \div c + 1) \in Nat
         /\ x <= c * ((x - 1) \div c + 1)
         /\ c * ((x - 1) \div c + 1) < x + c
         /\ \A k \in Nat : x <= k * c => c * ((x - 1) \div c + 1) <= k * c
         /\ \A y \in Nat : x <= y => c * ((x - 1) \div c + 1) <= c * ((y - 1) \div c + 1)
<1> DEFINE q == (x - 1) \div c
           r == (x - 1) % c
<1>1. q \in Nat /\ r \in 0..(c - 1) /\ x - 1 = c * q + r
  OBVIOUS
<1> HIDE DEF q, r
<1>2. c * (q + 1) = c * q + c /\ c * q \in Nat
  BY <1>1
<1>3. ASSUME NEW k \in Nat, x <= k * c
      PROVE  c * (q + 1) <= k * c
  <2>1. c * q < k * c
    BY <1>1, <1>2, <1>3
  <2>2. q < k
    BY <2>1, <1>1
  <2>3. q + 1 <= k
    BY <2>2, <1>1
  <2> QED BY <2>3, <1>1
<1>4. c * (q + 1) \in Nat /\ x <= c * (q + 1) /\ c * (q + 1) < x + c
  BY <1>1, <1>2
<1>5. ASSUME NEW y \in Nat, x <= y
      PROVE  c * (q + 1) <= c * ((y - 1) \div c + 1)
  <2> DEFINE t == (y - 1) \div c
             u == (y - 1) % c
  <2>1. t \in Nat /\ u \in 0..(c - 1) /\ y - 1 = c * t + u
    BY <1>5
  <2> HIDE DEF t, u
  <2>2. y <= (t + 1) * c
    <3>1. (t + 1) * c = c * t + c /\ c * t \in Nat
      BY <2>1
    <3>2. y = c * t + u + 1 /\ u + 1 <= c
      BY <1>5, <2>1
    <3> QED BY <2>1, <3>1, <3>2
  <2>3. c * (q + 1) <= (t + 1) * c
    <3>1. t + 1 \in Nat /\ (t + 1) * c \in Nat
      BY <2>1
    <3>2. x <= (t + 1) * c
      BY <1>5, <2>2, <3>1
    <3> QED BY <1>3, <3>1, <3>2, Zenon
  <2> QED BY <2>1, <2>3 DEF t
<1> QED BY <1>3, <1>4, <1>5 DEF q

RoundedUp(x, c) == c * ((x - 1) \div c + 1)

Modelled(len) == len \in Nat /\ 0 < len /\ len <= MaxLength

(* A padded length is the length rounded up to the chunks of a power of    *)
(* two that is not below it and less than twice it.                        *)
LEMMA PaddedByItsPower ==
  ASSUME NEW len, Modelled(len), 32 < len
  PROVE  \E p \in PowersOfTwo : /\ len <= p /\ p < 2 * len
                               /\ CalcPaddedLen(len) = RoundedUp(len, ChunkOf(p))
<1> DEFINE p == CHOOSE p \in PowersOfTwo : len <= p /\ p < 2 * len
<1>1. \E q \in PowersOfTwo : len <= q /\ q < 2 * len
  BY PowersCover, SMT DEF Modelled
<1>2. p \in PowersOfTwo /\ len <= p /\ p < 2 * len
  BY <1>1, Zenon
<1>3. ~(len <= 32)
  BY SMT DEF Modelled
<1>4. CalcPaddedLen(len) = RoundedUp(len, ChunkOf(p))
  BY <1>3, Zenon DEF CalcPaddedLen, RoundedUp, ChunkOf
<1> QED BY <1>2, <1>4, Zenon

(* Padding never shortens, and never reaches beyond the power of two.      *)
LEMMA PaddingBounds ==
  ASSUME NEW len, Modelled(len)
  PROVE  /\ CalcPaddedLen(len) \in Nat /\ 32 <= CalcPaddedLen(len) /\ len <= CalcPaddedLen(len)
         /\ \A p \in PowersOfTwo : len <= p => CalcPaddedLen(len) <= p
<1>1. CASE len <= 32
  <2>1. CalcPaddedLen(len) = 32
    BY <1>1, Zenon DEF CalcPaddedLen
  <2> QED BY <1>1, <2>1, ChunksDivide, SMT DEF Modelled
<1>2. CASE 32 < len
  <2>1. PICK p \in PowersOfTwo : /\ len <= p /\ p < 2 * len
                                 /\ CalcPaddedLen(len) = RoundedUp(len, ChunkOf(p))
    BY <1>2, PaddedByItsPower
  <2> DEFINE c == ChunkOf(p)
  <2>2. /\ p \in Nat /\ 64 <= p /\ c \in Nat /\ 32 <= c
        /\ p = 2 * c \/ p = 4 * c \/ p = 8 * c
    BY ChunksDivide
  <2> HIDE DEF c
  <2>3. len \in Nat /\ 0 < len
    BY DEF Modelled
  <2>4. /\ RoundedUp(len, c) \in Nat /\ len <= RoundedUp(len, c)
        /\ \A k \in Nat : len <= k * c => RoundedUp(len, c) <= k * c
    <3>1. len > 0 /\ c > 0
      BY <2>2, <2>3
    <3> QED BY <2>2, <2>3, <3>1, RoundUp, Zenon DEF RoundedUp
  <2>5. RoundedUp(len, c) <= p
    <3>1. ASSUME NEW k \in Nat, p = k * c
          PROVE  RoundedUp(len, c) <= p
      BY <2>1, <2>4, <3>1
    <3>2. 2 \in Nat /\ 4 \in Nat /\ 8 \in Nat
      OBVIOUS
    <3> QED BY <2>2, <3>1, <3>2, Zenon
  <2>6. ASSUME NEW q \in PowersOfTwo, len <= q
        PROVE  p <= q
    <3>1. q \in Nat
      BY ChunksDivide
    <3>2. q < p => 2 * q <= p
      BY PowersDouble
    <3> QED BY <2>1, <2>2, <2>3, <2>6, <3>1, <3>2
  <2>7. 32 <= RoundedUp(len, c)
    BY <1>2, <2>3, <2>4
  <2>8. \A q \in PowersOfTwo : q \in Nat
    BY ChunksDivide
  <2> QED BY <2>1, <2>2, <2>4, <2>5, <2>6, <2>7, <2>8 DEF c
<1>3. len <= 32 \/ 32 < len
  BY SMT DEF Modelled
<1> QED BY <1>1, <1>2, <1>3, Zenon

(* A longer text is never padded to less.                                  *)
LEMMA PaddingIsMonotone ==
  ASSUME NEW a, Modelled(a), NEW b, Modelled(b), a <= b
  PROVE  CalcPaddedLen(a) <= CalcPaddedLen(b)
<1>0. a \in Nat /\ b \in Nat /\ 0 < a /\ CalcPaddedLen(a) \in Nat /\ CalcPaddedLen(b) \in Nat
  BY PaddingBounds DEF Modelled
<1>1. CASE a <= 32
  <2>1. CalcPaddedLen(a) = 32
    BY <1>1, Zenon DEF CalcPaddedLen
  <2> QED BY <2>1, PaddingBounds
<1>2. CASE 32 < a
  <2>1. PICK p \in PowersOfTwo : /\ a <= p /\ p < 2 * a
                                 /\ CalcPaddedLen(a) = RoundedUp(a, ChunkOf(p))
    BY <1>2, PaddedByItsPower
  <2>2. 32 < b
    BY <1>0, <1>2
  <2>3. PICK q \in PowersOfTwo : /\ b <= q /\ q < 2 * b
                                 /\ CalcPaddedLen(b) = RoundedUp(b, ChunkOf(q))
    BY <2>2, PaddedByItsPower
  <2>4. p \in Nat /\ q \in Nat /\ ChunkOf(p) \in Nat /\ 32 <= ChunkOf(p)
    BY ChunksDivide
  <2>5. CASE p = q
    <3>1. RoundedUp(a, ChunkOf(p)) <= RoundedUp(b, ChunkOf(p))
      <4> DEFINE c == ChunkOf(p)
      <4>1. c \in Nat /\ c > 0
        BY <2>4
      <4> HIDE DEF c
      <4>2. \A y \in Nat : a <= y => c * ((a - 1) \div c + 1) <= c * ((y - 1) \div c + 1)
        BY <1>0, <4>1, RoundUp
      <4> QED BY <1>0, <4>2 DEF RoundedUp, c
    <3> QED BY <2>1, <2>3, <2>5, <3>1
  <2>6. CASE p < q
    <3>1. 2 * p <= q
      BY <2>6, PowersDouble
    <3>2. CalcPaddedLen(a) <= p /\ b <= CalcPaddedLen(b)
      BY <2>1, PaddingBounds
    <3> QED BY <1>0, <2>3, <2>4, <3>1, <3>2
  <2>7. CASE q < p
    <3>1. 2 * q <= p
      BY <2>7, PowersDouble
    <3> QED BY <1>0, <2>1, <2>3, <2>4, <3>1
  <2> QED BY <2>4, <2>5, <2>6, <2>7
<1> QED BY <1>0, <1>1, <1>2

(* The largest rumour is padded to itself, one byte more to the next       *)
(* chunk; the first long prefix comes with a length that is padded to      *)
(* itself.                                                                 *)
LEMMA KnownPaddings ==
  /\ CalcPaddedLen(65536) = 65536
  /\ CalcPaddedLen(163840) = 163840
  /\ CalcPaddedLen(163841) = 196608
<1>1. CalcPaddedLen(65536) = 65536
  <2>1. PICK p \in PowersOfTwo : /\ 65536 <= p /\ p < 2 * 65536
                                 /\ CalcPaddedLen(65536) = RoundedUp(65536, ChunkOf(p))
    BY PaddedByItsPower, SMT DEF Modelled, MaxLength
  <2>2. p = 65536
    BY <2>1, SMT DEF PowersOfTwo
  <2> QED BY <2>1, <2>2, SMT DEF RoundedUp, ChunkOf
<1>2. CalcPaddedLen(163840) = 163840
  <2>1. PICK p \in PowersOfTwo : /\ 163840 <= p /\ p < 2 * 163840
                                 /\ CalcPaddedLen(163840) = RoundedUp(163840, ChunkOf(p))
    BY PaddedByItsPower, SMT DEF Modelled, MaxLength
  <2>2. p = 262144
    BY <2>1, SMT DEF PowersOfTwo
  <2> QED BY <2>1, <2>2, SMT DEF RoundedUp, ChunkOf
<1>3. CalcPaddedLen(163841) = 196608
  <2>1. PICK p \in PowersOfTwo : /\ 163841 <= p /\ p < 2 * 163841
                                 /\ CalcPaddedLen(163841) = RoundedUp(163841, ChunkOf(p))
    BY PaddedByItsPower, SMT DEF Modelled, MaxLength
  <2>2. p = 262144
    BY <2>1, SMT DEF PowersOfTwo
  <2> QED BY <2>1, <2>2, SMT DEF RoundedUp, ChunkOf
<1> QED BY <1>1, <1>2, <1>3, SMT

-----------------------------------------------------------------------------
IsText(plain) ==
  /\ plain = [units |-> plain.units, bytes |-> plain.bytes, utf8 |-> plain.utf8, inner |-> plain.inner]
  /\ plain.units \in Nat /\ plain.bytes \in Nat /\ plain.utf8 \in BOOLEAN
  /\ plain.units <= plain.bytes /\ plain.bytes <= 3 * plain.units

(* A text whose bytes the format can count.                                *)
Fits(plain) == IsText(plain) /\ 0 < plain.bytes /\ plain.bytes <= NIP44_MAX_PLAINTEXT_SIZE

(* What fits has a padded length.                                          *)
LEMMA FittingIsModelled ==
  ASSUME NEW plain, Fits(plain)
  PROVE  Modelled(plain.bytes)
BY SizesAssumption, SMT DEF Fits, IsText, Modelled, MaxLength

(* The two looks at the code units, before the bytes are counted, decide   *)
(* as the bytes do.                                                        *)
LEMMA ExceedsByItsBytes ==
  ASSUME NEW plain, IsText(plain), NEW limit \in Nat
  PROVE  ExceedsUtf8Bytes(plain, limit) <=> plain.bytes > limit
BY DEF IsText, ExceedsUtf8Bytes

(* What u.pad writes, u.unpad reads.                                       *)
LEMMA PadIsUndone ==
  ASSUME NEW plain, Fits(plain), plain.utf8
  PROVE  Unpad(Pad(plain)) = plain
<1> DEFINE padded == Pad(plain)
<1>1. EXTENDED_PREFIX_THRESHOLD \in Nat /\ 0 < EXTENDED_PREFIX_THRESHOLD /\ NIP44_MIN_PLAINTEXT_SIZE = 1
  BY SMT DEF EXTENDED_PREFIX_THRESHOLD, NIP44_MIN_PLAINTEXT_SIZE
<1>2. plain.bytes \in Nat /\ 0 < plain.bytes /\ plain.bytes <= NIP44_MAX_PLAINTEXT_SIZE
      /\ NIP44_MAX_PLAINTEXT_SIZE \in Nat
  BY SizesAssumption, SMT DEF Fits, IsText
<1>3. /\ padded.firstTwo = (IF plain.bytes >= EXTENDED_PREFIX_THRESHOLD THEN 0 ELSE plain.bytes)
      /\ padded.u32 = plain.bytes /\ padded.zeros /\ padded.text = plain
      /\ padded.length = PrefixBytes(plain.bytes) + CalcPaddedLen(plain.bytes)
  BY DEF Pad
<1> HIDE DEF padded
<1>4. CASE plain.bytes >= EXTENDED_PREFIX_THRESHOLD
  <2>1. padded.firstTwo = 0 /\ padded.length = 6 + CalcPaddedLen(plain.bytes)
    BY <1>3, <1>4 DEF PrefixBytes
  <2> QED BY <1>1, <1>2, <1>3, <1>4, <2>1 DEF Unpad, padded
<1>5. CASE ~(plain.bytes >= EXTENDED_PREFIX_THRESHOLD)
  <2>1. padded.firstTwo = plain.bytes /\ padded.firstTwo # 0 /\ padded.length = 2 + CalcPaddedLen(plain.bytes)
    BY <1>2, <1>3, <1>5 DEF PrefixBytes
  <2> QED BY <1>1, <1>2, <1>3, <1>5, <2>1 DEF Unpad, padded
<1> QED BY <1>4, <1>5

(* Base64 does not shorten, and a shortest payload has 132 characters.     *)
LEMMA Base64IsMonotone ==
  ASSUME NEW a \in Nat, NEW b \in Nat, a <= b
  PROVE  /\ Base64Length(a) \in Nat /\ Base64Length(a) <= Base64Length(b)
         /\ 3 * Base64Length(a) <= 4 * (a + 2) /\ 4 * a <= 3 * Base64Length(a)
         /\ 99 <= a => 132 <= Base64Length(a)
BY DEF Base64Length

(* A payload as this library writes them comes down to its padding.        *)
LEMMA PayloadIsDeciphered ==
  ASSUME NEW padded, padded.length \in Nat, 34 <= padded.length
  PROVE  Decipher(WirePayload(padded)) = Unpad(padded)
<1> DEFINE payload == WirePayload(padded)
           size    == 65 + padded.length
<1>1. VERSION_NONCE_AND_MAC_BYTES = 65
  BY DEF VERSION_NONCE_AND_MAC_BYTES
<1>2. /\ payload.flag = FALSE /\ payload.base64 = TRUE /\ payload.version = 2 /\ payload.mac = TRUE
      /\ payload.padded = padded /\ payload.bytes = size /\ payload.length = Base64Length(size)
  BY <1>1 DEF WirePayload
<1>3. size \in Nat /\ 99 <= size
  OBVIOUS
<1> HIDE DEF size
<1>4. Base64Length(size) \in Nat /\ 132 <= Base64Length(size)
  BY <1>3, Base64IsMonotone
<1> HIDE DEF payload
<1>5. Decipher(payload) = Unpad(payload.padded)
  BY <1>2, <1>3, <1>4 DEF Decipher
<1> QED BY <1>2, <1>5 DEF payload

(* A payload is read under every ceiling its text is within, and refused   *)
(* under the others.                                                       *)
LEMMA WrittenIsReadBack ==
  ASSUME NEW plain, Fits(plain), plain.utf8, plain # Null,
         NEW limit \in Nat, 0 < limit, limit <= NIP44_MAX_PLAINTEXT_SIZE
  PROVE  Nip44Decrypt(WirePayload(Pad(plain)), limit) = IF plain.bytes <= limit THEN plain ELSE Null
<1> DEFINE payload == WirePayload(Pad(plain))
           size    == 65 + PrefixBytes(plain.bytes) + CalcPaddedLen(plain.bytes)
           most    == 65 + PrefixBytes(limit) + CalcPaddedLen(limit)
<1>1. /\ Modelled(plain.bytes) /\ Modelled(limit) /\ IsText(plain) /\ plain.bytes \in Nat
      /\ EXTENDED_PREFIX_THRESHOLD \in Nat
  BY FittingIsModelled, SizesAssumption, SMT DEF Modelled, Fits, IsText, EXTENDED_PREFIX_THRESHOLD, MaxLength
<1>2. /\ CalcPaddedLen(plain.bytes) \in Nat /\ 32 <= CalcPaddedLen(plain.bytes)
      /\ CalcPaddedLen(limit) \in Nat
      /\ plain.bytes <= limit => CalcPaddedLen(plain.bytes) <= CalcPaddedLen(limit)
  BY <1>1, PaddingBounds, PaddingIsMonotone
<1>3. /\ PrefixBytes(plain.bytes) \in {2, 6} /\ PrefixBytes(limit) \in {2, 6}
      /\ plain.bytes <= limit => PrefixBytes(plain.bytes) <= PrefixBytes(limit)
  BY <1>1 DEF PrefixBytes
<1>4. size \in Nat /\ most \in Nat /\ (plain.bytes <= limit => size <= most)
  BY <1>2, <1>3
<1>5. /\ payload.length = Base64Length(size) /\ PayloadLengthFor(limit) = Base64Length(most)
      /\ Pad(plain).length = PrefixBytes(plain.bytes) + CalcPaddedLen(plain.bytes)
  <2>1. Pad(plain).length = PrefixBytes(plain.bytes) + CalcPaddedLen(plain.bytes)
    BY DEF Pad
  <2>2. 65 + (PrefixBytes(plain.bytes) + CalcPaddedLen(plain.bytes)) = size
    BY <1>2, <1>3
  <2>3. payload.length = Base64Length(65 + Pad(plain).length)
    BY DEF WirePayload, VERSION_NONCE_AND_MAC_BYTES
  <2> QED BY <2>1, <2>2, <2>3 DEF PayloadLengthFor, VERSION_NONCE_AND_MAC_BYTES
<1> HIDE DEF size, most, payload
<1>6. Decipher(payload) = plain
  <2>1. Pad(plain).length \in Nat /\ 34 <= Pad(plain).length
    BY <1>2, <1>3, <1>5
  <2> QED BY <2>1, PayloadIsDeciphered, PadIsUndone DEF payload
<1>7. ExceedsUtf8Bytes(plain, limit) <=> ~(plain.bytes <= limit)
  BY <1>1, ExceedsByItsBytes
<1>8. plain.bytes <= limit => ~(payload.length > PayloadLengthFor(limit))
  BY <1>4, <1>5, Base64IsMonotone
<1> QED BY <1>6, <1>7, <1>8, Zenon DEF Nip44Decrypt, payload

(* Of all that may come on the wire in its place, nothing is read but the  *)
(* payload this library writes.                                            *)
LEMMA OnlyItsOwnFormIsRead ==
  ASSUME NEW plain, Fits(plain), NEW payload \in Altered(WirePayload(Pad(plain))),
         Decipher(payload) # Null
  PROVE  payload = WirePayload(Pad(plain))
<1> DEFINE own == Pad(plain)
           threshold == EXTENDED_PREFIX_THRESHOLD
<1>0. threshold = 65536
  BY SMT DEF EXTENDED_PREFIX_THRESHOLD
<1>1. /\ plain.bytes \in Nat /\ 0 < plain.bytes /\ Modelled(plain.bytes)
      /\ threshold \in Nat /\ 0 < threshold
  BY <1>0, FittingIsModelled, SMT DEF Fits, IsText
<1>2. /\ CalcPaddedLen(plain.bytes) \in Nat /\ plain.bytes <= CalcPaddedLen(plain.bytes)
      /\ 32 <= CalcPaddedLen(plain.bytes)
  BY <1>1, PaddingBounds
<1>3. own = [firstTwo |-> IF plain.bytes >= threshold THEN 0 ELSE plain.bytes,
             u32      |-> plain.bytes,
             length   |-> PrefixBytes(plain.bytes) + CalcPaddedLen(plain.bytes),
             zeros    |-> TRUE,
             text     |-> plain]
  BY DEF Pad
<1>4. PrefixBytes(plain.bytes) = IF plain.bytes >= threshold THEN 6 ELSE 2
  BY DEF PrefixBytes
<1>5. PICK padded \in OtherPaddings(own) : payload = WirePayload(padded)
  <2>1. WirePayload(own).padded = own
    BY DEF WirePayload
  <2> DEFINE written == WirePayload(own)
  <2>2. /\ [written EXCEPT !.flag = TRUE].flag = TRUE
        /\ [written EXCEPT !.base64 = FALSE].base64 = FALSE
        /\ [written EXCEPT !.version = 1].version # 2
        /\ [written EXCEPT !.mac = FALSE].mac = FALSE
        /\ [written EXCEPT !.length = 131, !.bytes = 98, !.mac = FALSE].mac = FALSE
    BY DEF WirePayload
  <2>3. payload.flag # TRUE /\ payload.base64 # FALSE /\ payload.version = 2 /\ payload.mac # FALSE
    BY DEF Decipher
  <2>4. payload \in {WirePayload(padded) : padded \in OtherPaddings(written.padded)}
    BY <2>2, <2>3 DEF Altered
  <2> QED BY <2>1, <2>4
<1> HIDE DEF own, threshold
<1>6. Unpad(padded) # Null
  BY <1>5 DEF Decipher, WirePayload
<1>7. CASE padded \in {[own EXCEPT !.zeros = FALSE], [own EXCEPT !.text.utf8 = FALSE]}
  <2>1. [plain EXCEPT !.utf8 = FALSE].utf8 = FALSE
    BY DEF Fits, IsText
  <2>2. [own EXCEPT !.text.utf8 = FALSE].text = [plain EXCEPT !.utf8 = FALSE]
    BY <1>3
  <2>3. [own EXCEPT !.zeros = FALSE].zeros = FALSE
    BY <1>3
  <2>4. padded.zeros = FALSE \/ padded.text.utf8 = FALSE
    BY <1>7, <2>1, <2>2, <2>3
  <2> QED BY <1>6, <2>4 DEF Unpad
<1>8. CASE padded \in {[own EXCEPT !.length = @ + 32], [own EXCEPT !.length = @ - 1]}
  <2>1. /\ padded.firstTwo = own.firstTwo /\ padded.u32 = own.u32
        /\ padded.length = own.length + 32 \/ padded.length = own.length - 1
    BY <1>3, <1>8
  <2>2. own.length = (IF own.firstTwo = 0 THEN 6 ELSE 2) + CalcPaddedLen(plain.bytes)
    BY <1>1, <1>3, <1>4
  <2>3. (IF own.firstTwo = 0 THEN own.u32 ELSE own.firstTwo) = plain.bytes
    BY <1>1, <1>3
  <2>4. padded.length = (IF own.firstTwo = 0 THEN 6 ELSE 2) + CalcPaddedLen(plain.bytes)
    BY <1>6, <2>1, <2>3 DEF Unpad
  <2> QED BY <1>2, <2>1, <2>2, <2>4
<1>9. CASE padded = [own EXCEPT !.firstTwo = 0, !.length = CalcPaddedLen(own.u32) + 6]
  <2>1. /\ padded.firstTwo = 0 /\ padded.u32 = plain.bytes
        /\ padded.length = CalcPaddedLen(plain.bytes) + 6
    BY <1>3, <1>9
  <2>2. plain.bytes >= threshold
    BY <1>6, <2>1 DEF Unpad, threshold
  <2>3. own.firstTwo = 0 /\ own.length = CalcPaddedLen(own.u32) + 6 /\ own.u32 = plain.bytes
    BY <1>2, <1>3, <1>4, <2>2
  <2>4. padded = own
    BY <1>3, <1>9, <2>3
  <2> QED BY <1>5, <2>4 DEF own
<1>10. CASE padded = [own EXCEPT !.firstTwo = own.u32 % threshold, !.length = CalcPaddedLen(own.u32) + 2]
  <2>1. /\ padded.firstTwo = plain.bytes % threshold /\ padded.u32 = plain.bytes
        /\ padded.length = CalcPaddedLen(plain.bytes) + 2
    BY <1>3, <1>10
  <2>2. CASE plain.bytes < threshold
    <3>1. plain.bytes % threshold = plain.bytes
      BY <1>0, <1>1, <2>2, SMT
    <3>2. own.firstTwo = plain.bytes /\ own.length = CalcPaddedLen(plain.bytes) + 2 /\ own.u32 = plain.bytes
      BY <1>1, <1>2, <1>3, <1>4, <2>2, SMT
    <3>3. own.u32 % threshold = own.firstTwo /\ CalcPaddedLen(own.u32) + 2 = own.length
      BY <3>1, <3>2, Zenon
    <3>4. padded = [own EXCEPT !.firstTwo = own.firstTwo, !.length = own.length]
      BY <1>10, <3>3, Zenon
    <3>5. padded = own
      BY <1>3, <3>4
    <3> QED BY <1>5, <3>5 DEF own
  <2>3. CASE ~(plain.bytes < threshold)
    <3> DEFINE rest == plain.bytes % threshold
    <3>1. rest \in Nat /\ rest < threshold /\ (rest = 0 \/ threshold < plain.bytes)
      BY <1>0, <1>1, <2>3, SMT
    <3> HIDE DEF rest
    <3>2. CASE rest = 0
      <4>1. padded.length = 6 + CalcPaddedLen(plain.bytes)
        BY <1>6, <2>1, <3>2 DEF Unpad, rest
      <4> QED BY <1>2, <2>1, <4>1
    <3>3. CASE rest # 0
      <4>1. padded.length = 2 + CalcPaddedLen(rest)
        BY <1>6, <2>1, <3>3 DEF Unpad, rest
      <4>2. Modelled(rest) /\ threshold \in PowersOfTwo
        BY <1>0, <3>1, <3>3, SMT DEF Modelled, PowersOfTwo, MaxLength
      <4>3. CalcPaddedLen(rest) \in Nat /\ CalcPaddedLen(rest) <= threshold
        BY <1>0, <3>1, <4>2, PaddingBounds, SMT
      <4> QED BY <1>1, <1>2, <2>1, <3>1, <3>3, <4>1, <4>3, SMT
    <3> QED BY <3>2, <3>3
  <2> QED BY <2>2, <2>3
<1>11. CASE padded = [own EXCEPT !.firstTwo = 0, !.u32 = 0]
  <2>1. padded.firstTwo = 0 /\ padded.u32 = 0
    BY <1>3, <1>11
  <2> QED BY <1>6, <2>1 DEF Unpad, NIP44_MIN_PLAINTEXT_SIZE
<1>12. \/ padded \in {[own EXCEPT !.zeros = FALSE], [own EXCEPT !.text.utf8 = FALSE]}
       \/ padded \in {[own EXCEPT !.length = @ + 32], [own EXCEPT !.length = @ - 1]}
       \/ padded = [own EXCEPT !.firstTwo = 0, !.length = CalcPaddedLen(own.u32) + 6]
       \/ padded = [own EXCEPT !.firstTwo = own.u32 % threshold, !.length = CalcPaddedLen(own.u32) + 2]
       \/ padded = [own EXCEPT !.firstTwo = 0, !.u32 = 0]
  BY <1>5, Zenon DEF OtherPaddings, threshold
<1> QED BY <1>7, <1>8, <1>9, <1>10, <1>11, <1>12, Zenon

-----------------------------------------------------------------------------
(* A text is encrypted when it is UTF-8 of one byte up to the ceiling.     *)
LEMMA EncryptsWhatFits ==
  ASSUME NEW plain, IsText(plain), NEW limit \in Nat
  PROVE  Nip44Encrypt(plain, limit) =
           IF plain.utf8 /\ 0 < plain.bytes /\ plain.bytes <= limit THEN WirePayload(Pad(plain)) ELSE Null
<1>1. plain.units = 0 <=> ~(0 < plain.bytes)
  BY DEF IsText
<1>2. ExceedsUtf8Bytes(plain, limit) <=> ~(plain.bytes <= limit)
  BY ExceedsByItsBytes DEF IsText
<1> QED BY <1>1, <1>2, Zenon DEF Nip44Encrypt

SealFor(rumour) == SealOf(WirePayload(Pad(rumour)))

(* The sizes of the two layers of a gift wrap.                             *)
LEMMA SealSizes ==
  ASSUME NEW rumour, IsText(rumour), 0 < rumour.bytes, rumour.bytes <= MaxLength
  PROVE  /\ IsText(SealFor(rumour)) /\ SealFor(rumour).utf8 /\ 0 < SealFor(rumour).bytes
         /\ rumour.bytes <= GIFT_WRAP_MAX_RUMOUR_SIZE
              <=> SealFor(rumour).bytes <= NIP44_DEFAULT_MAX_PLAINTEXT_SIZE
<1> DEFINE padded == CalcPaddedLen(rumour.bytes)
           prefix == PrefixBytes(rumour.bytes)
           size   == 65 + prefix + padded
<1>1. Modelled(rumour.bytes) /\ Modelled(163840) /\ Modelled(163841) /\ rumour.bytes \in Nat
  BY SMT DEF Modelled, IsText, MaxLength
<1>2. padded \in Nat /\ 32 <= padded
  BY <1>1, PaddingBounds
<1>3. prefix \in {2, 6}
  BY DEF PrefixBytes
<1>4. rumour.bytes <= 163840 => padded <= 163840
  BY <1>1, KnownPaddings, PaddingIsMonotone, SMT
<1>5. 163841 <= rumour.bytes => 196608 <= padded
  BY <1>1, KnownPaddings, PaddingIsMonotone, SMT
<1>6. WirePayload(Pad(rumour)).length = Base64Length(VERSION_NONCE_AND_MAC_BYTES + (prefix + padded))
  BY DEF WirePayload, Pad
<1> HIDE DEF padded, prefix
<1>7. VERSION_NONCE_AND_MAC_BYTES + (prefix + padded) = size /\ size \in Nat
  BY <1>2, <1>3 DEF VERSION_NONCE_AND_MAC_BYTES
<1> DEFINE length == Base64Length(size)
<1>8. length \in Nat /\ 3 * length <= 4 * (size + 2) /\ 4 * size <= 3 * length
  BY <1>7, Base64IsMonotone
<1>9. SealFor(rumour) = [units |-> SealBytes + length, bytes |-> SealBytes + length, utf8 |-> TRUE,
                      inner |-> WirePayload(Pad(rumour))]
  BY <1>6, <1>7 DEF SealFor, SealOf
<1> HIDE DEF length
<1>10. SealBytes \in Nat /\ 300 <= SealBytes /\ SealBytes <= 400
  BY SealAssumption
<1>11. /\ rumour.bytes <= 163840 => SealBytes + length <= 262144
       /\ 163841 <= rumour.bytes => 262144 < SealBytes + length
  BY <1>2, <1>3, <1>4, <1>5, <1>8, <1>10, SMT DEF size
<1>12. rumour.bytes <= GIFT_WRAP_MAX_RUMOUR_SIZE
         <=> SealFor(rumour).bytes <= NIP44_DEFAULT_MAX_PLAINTEXT_SIZE
  BY <1>1, <1>8, <1>9, <1>10, <1>11, SMT DEF GIFT_WRAP_MAX_RUMOUR_SIZE, NIP44_DEFAULT_MAX_PLAINTEXT_SIZE
<1>13. /\ SealFor(rumour) = [units |-> SealFor(rumour).units, bytes |-> SealFor(rumour).bytes,
                          utf8 |-> SealFor(rumour).utf8, inner |-> SealFor(rumour).inner]
  BY <1>9
<1>14. SealFor(rumour).utf8 = TRUE /\ SealFor(rumour).units = SealBytes + length /\ SealFor(rumour).bytes = SealBytes + length
  BY <1>9
<1>15. /\ SealBytes + length \in Nat /\ 0 < SealBytes + length
       /\ SealBytes + length <= SealBytes + length /\ SealBytes + length <= 3 * (SealBytes + length)
  BY <1>8, <1>10
<1> QED
  <2>1. /\ SealFor(rumour).units \in Nat /\ SealFor(rumour).bytes \in Nat /\ SealFor(rumour).utf8 \in BOOLEAN
        /\ SealFor(rumour).units <= SealFor(rumour).bytes /\ SealFor(rumour).bytes <= 3 * SealFor(rumour).units
        /\ 0 < SealFor(rumour).bytes
    BY <1>14, <1>15, Zenon
  <2>2. IsText(SealFor(rumour))
    BY <1>13, <2>1, Zenon DEF IsText
  <2> QED BY <1>12, <1>14, <2>1, <2>2, Zenon

(* A rumour is wrapped when it is UTF-8 of one byte up to the limit.       *)
LEMMA WrapsWhatFits ==
  ASSUME NEW rumour \in Texts
  PROVE  /\ IsText(rumour)
         /\ GiftWrapOf(rumour) =
              IF rumour.utf8 /\ 0 < rumour.bytes /\ rumour.bytes <= GIFT_WRAP_MAX_RUMOUR_SIZE
              THEN WirePayload(Pad(SealFor(rumour))) ELSE Null
<1>1. /\ IsText(rumour) /\ rumour.bytes \in Nat /\ rumour.utf8 \in BOOLEAN
      /\ rumour.bytes <= MaxLength
  <2>1. rumour \in [units : Nat, bytes : Nat, utf8 : BOOLEAN, inner : {Null}]
    BY TextsAssumption, SMT
  <2>2. rumour.bytes \in rumour.units..(3 * rumour.units) /\ rumour.bytes <= MaxLength
    BY TextsAssumption, SMT
  <2> QED BY <2>1, <2>2, SMT DEF IsText
<1>2. /\ GIFT_WRAP_MAX_RUMOUR_SIZE \in Nat /\ NIP44_DEFAULT_MAX_PLAINTEXT_SIZE \in Nat
      /\ GIFT_WRAP_MAX_RUMOUR_SIZE <= NIP44_DEFAULT_MAX_PLAINTEXT_SIZE
  BY SMT DEF GIFT_WRAP_MAX_RUMOUR_SIZE, NIP44_DEFAULT_MAX_PLAINTEXT_SIZE
<1>3. ExceedsUtf8Bytes(rumour, GIFT_WRAP_MAX_RUMOUR_SIZE) <=> ~(rumour.bytes <= GIFT_WRAP_MAX_RUMOUR_SIZE)
  BY <1>1, <1>2, ExceedsByItsBytes
<1> DEFINE seal == Nip44Encrypt(rumour, NIP44_DEFAULT_MAX_PLAINTEXT_SIZE)
<1>4. CASE ~(rumour.bytes <= GIFT_WRAP_MAX_RUMOUR_SIZE)
  BY <1>1, <1>3, <1>4, Zenon DEF GiftWrapOf
<1>5. CASE rumour.bytes <= GIFT_WRAP_MAX_RUMOUR_SIZE /\ ~(rumour.utf8 /\ 0 < rumour.bytes)
  <2>1. seal = Null
    BY <1>1, <1>2, <1>5, EncryptsWhatFits, Zenon
  <2> QED BY <1>1, <1>3, <1>5, <2>1, Zenon DEF GiftWrapOf
<1>6. CASE rumour.bytes <= GIFT_WRAP_MAX_RUMOUR_SIZE /\ rumour.utf8 /\ 0 < rumour.bytes
  <2>1. rumour.bytes <= NIP44_DEFAULT_MAX_PLAINTEXT_SIZE
    BY <1>1, <1>2, <1>6
  <2>2. seal = WirePayload(Pad(rumour))
    BY <1>1, <1>2, <1>6, <2>1, EncryptsWhatFits, Zenon
  <2>3. seal # Null
    BY <2>2, NullAssumption, Zenon
  <2>4. /\ IsText(SealFor(rumour)) /\ SealFor(rumour).utf8 /\ 0 < SealFor(rumour).bytes
        /\ SealFor(rumour).bytes <= NIP44_DEFAULT_MAX_PLAINTEXT_SIZE
    BY <1>1, <1>6, SealSizes
  <2>5. Nip44Encrypt(SealFor(rumour), NIP44_DEFAULT_MAX_PLAINTEXT_SIZE) = WirePayload(Pad(SealFor(rumour)))
    BY <1>2, <2>4, EncryptsWhatFits, Zenon
  <2> QED BY <1>1, <1>3, <1>6, <2>2, <2>3, <2>5, Zenon DEF GiftWrapOf, SealFor
<1> QED BY <1>1, <1>4, <1>5, <1>6, Zenon

-----------------------------------------------------------------------------
(* What was encrypted is on the wire, or something that came in its place. *)
Carries(payload) ==
  IF payload = Null THEN wire = Null /\ genuine = FALSE
  ELSE IF genuine THEN wire = payload ELSE wire \in Altered(payload)

EncryptsHere == /\ by = "nip44Encrypt" /\ text \in Texts /\ ceiling \in Ceilings
                /\ Carries(Nip44Encrypt(text, ceiling))
WrapsHere    == /\ by = "buildDmGiftWraps" /\ text \in Texts
                /\ Carries(GiftWrapOf(text))

(* The wire holds the payload of the one call that was made, as it was     *)
(* written or altered once.                                                *)
CodecInv ==
  /\ genuine \in BOOLEAN
  /\ \/ by = Null /\ wire = Null /\ genuine = FALSE
     \/ EncryptsHere
     \/ WrapsHere

(* The invariant of the codec's runs, for every text and ceiling.          *)
LEMMA WireIsAccountedFor == CodecSpec => []CodecInv
<1>1. CodecInit => CodecInv
  BY DEF CodecInit, CodecInv
<1>2. CodecInv /\ [CodecNext]_codecVars => CodecInv'
  <2> SUFFICES ASSUME CodecInv, [CodecNext]_codecVars PROVE CodecInv'
    OBVIOUS
  <2>1. ASSUME NEW plain \in Texts, NEW limit \in Ceilings, Encrypt(plain, limit)
        PROVE  CodecInv'
    <3>1. /\ by' = "nip44Encrypt" /\ text' = plain /\ ceiling' = limit
          /\ wire' = Nip44Encrypt(plain, limit) /\ genuine' = (Nip44Encrypt(plain, limit) # Null)
      BY <2>1 DEF Encrypt, Send
    <3>2. EncryptsHere'
      BY <3>1, Zenon DEF EncryptsHere, Carries
    <3> QED BY <3>1, <3>2 DEF CodecInv
  <2>2. ASSUME NEW plain \in Texts, WrapRumour(plain)
        PROVE  CodecInv'
    <3>1. /\ by' = "buildDmGiftWraps" /\ text' = plain
          /\ wire' = GiftWrapOf(plain) /\ genuine' = (GiftWrapOf(plain) # Null)
      BY <2>2 DEF WrapRumour, Send
    <3>2. WrapsHere'
      BY <3>1, Zenon DEF WrapsHere, Carries
    <3> QED BY <3>1, <3>2 DEF CodecInv
  <2>3. CASE Alter
    <3>1. /\ genuine /\ wire' \in Altered(wire) /\ genuine' = FALSE
          /\ by' = by /\ text' = text /\ ceiling' = ceiling
      BY <2>3 DEF Alter
    <3>2. EncryptsHere => EncryptsHere'
      BY <3>1, Zenon DEF EncryptsHere, Carries
    <3>3. WrapsHere => WrapsHere'
      BY <3>1, Zenon DEF WrapsHere, Carries
    <3> QED BY <3>1, <3>2, <3>3 DEF CodecInv
  <2>4. CASE UNCHANGED codecVars
    BY <2>4 DEF codecVars, CodecInv, EncryptsHere, WrapsHere, Carries
  <2> QED BY <2>1, <2>2, <2>3, <2>4 DEF CodecNext
<1> QED BY <1>1, <1>2, PTL DEF CodecSpec

(* The payload on the wire, when there is one, and the text inside it.     *)
LEMMA EncryptedCase ==
  ASSUME EncryptsHere
  PROVE  /\ wire # Null <=> text.utf8 /\ text.bytes \in 1..ceiling
         /\ wire # Null => /\ Fits(text) /\ text.utf8 /\ text # Null
                           /\ wire \in {WirePayload(Pad(text))} \cup Altered(WirePayload(Pad(text)))
                           /\ genuine => wire = WirePayload(Pad(text))
<1>1. IsText(text) /\ text.bytes \in Nat /\ text.utf8 \in BOOLEAN
  BY WrapsWhatFits DEF EncryptsHere, IsText
<1>2. ceiling \in Nat /\ ceiling <= NIP44_MAX_PLAINTEXT_SIZE /\ NIP44_MAX_PLAINTEXT_SIZE \in Nat
  BY CeilingsAssumption, SizesAssumption, SMT DEF EncryptsHere
<1>3. text.bytes \in 1..ceiling <=> 0 < text.bytes /\ text.bytes <= ceiling
  BY <1>1, <1>2
<1>4. Null \notin {text, WirePayload(Pad(text))} \cup Altered(WirePayload(Pad(text)))
  BY NullAssumption, Zenon DEF EncryptsHere
<1>5. Nip44Encrypt(text, ceiling) =
        IF text.utf8 /\ 0 < text.bytes /\ text.bytes <= ceiling THEN WirePayload(Pad(text)) ELSE Null
  BY <1>1, <1>2, EncryptsWhatFits
<1>6. CASE text.utf8 /\ 0 < text.bytes /\ text.bytes <= ceiling
  <2>1. IF genuine THEN wire = WirePayload(Pad(text)) ELSE wire \in Altered(WirePayload(Pad(text)))
    BY <1>4, <1>5, <1>6, Zenon DEF EncryptsHere, Carries
  <2>2. Fits(text)
    BY <1>1, <1>2, <1>6 DEF Fits
  <2> QED BY <1>3, <1>4, <1>6, <2>1, <2>2, Zenon
<1>7. CASE ~(text.utf8 /\ 0 < text.bytes /\ text.bytes <= ceiling)
  <2>1. wire = Null
    BY <1>5, <1>7, Zenon DEF EncryptsHere, Carries
  <2> QED BY <1>3, <1>7, <2>1, Zenon
<1> QED BY <1>6, <1>7, Zenon

(* A wrap on the wire is the payload of a seal.                            *)
LEMMA WrappedCase ==
  ASSUME WrapsHere
  PROVE  /\ IsText(text) /\ text # Null /\ WirePayload(Pad(text)) # Null
         /\ wire # Null <=> /\ text.utf8 /\ 0 < text.bytes
                            /\ text.bytes <= GIFT_WRAP_MAX_RUMOUR_SIZE
         /\ wire # Null => /\ Fits(text) /\ Fits(SealFor(text)) /\ SealFor(text).utf8 /\ SealFor(text) # Null
                           /\ SealFor(text).bytes <= NIP44_DEFAULT_MAX_PLAINTEXT_SIZE
                           /\ wire \in {WirePayload(Pad(SealFor(text)))} \cup Altered(WirePayload(Pad(SealFor(text))))
                           /\ genuine => wire = WirePayload(Pad(SealFor(text)))
<1>1. IsText(text) /\ text.bytes \in Nat /\ text.utf8 \in BOOLEAN
  BY WrapsWhatFits DEF WrapsHere, IsText
<1>2. /\ GIFT_WRAP_MAX_RUMOUR_SIZE \in Nat /\ NIP44_DEFAULT_MAX_PLAINTEXT_SIZE \in Nat
      /\ GIFT_WRAP_MAX_RUMOUR_SIZE <= NIP44_DEFAULT_MAX_PLAINTEXT_SIZE
      /\ NIP44_DEFAULT_MAX_PLAINTEXT_SIZE <= NIP44_MAX_PLAINTEXT_SIZE /\ NIP44_MAX_PLAINTEXT_SIZE \in Nat
      /\ NIP44_MAX_PLAINTEXT_SIZE <= MaxLength
  BY SizesAssumption, SMT DEF GIFT_WRAP_MAX_RUMOUR_SIZE, NIP44_DEFAULT_MAX_PLAINTEXT_SIZE
<1>3. Null \notin {text, WirePayload(Pad(text)), SealFor(text), WirePayload(Pad(SealFor(text)))} \cup Altered(WirePayload(Pad(SealFor(text))))
  BY NullAssumption, Zenon DEF WrapsHere, SealFor
<1>4. GiftWrapOf(text) = IF text.utf8 /\ 0 < text.bytes /\ text.bytes <= GIFT_WRAP_MAX_RUMOUR_SIZE
                       THEN WirePayload(Pad(SealFor(text))) ELSE Null
  BY WrapsWhatFits DEF WrapsHere
<1>5. CASE text.utf8 /\ 0 < text.bytes /\ text.bytes <= GIFT_WRAP_MAX_RUMOUR_SIZE
  <2>1. IF genuine THEN wire = WirePayload(Pad(SealFor(text))) ELSE wire \in Altered(WirePayload(Pad(SealFor(text))))
    BY <1>3, <1>4, <1>5, Zenon DEF WrapsHere, Carries
  <2>2. text.bytes <= NIP44_MAX_PLAINTEXT_SIZE /\ text.bytes <= MaxLength
    <3>1. text.bytes <= NIP44_MAX_PLAINTEXT_SIZE
      BY <1>1, <1>2, <1>5
    <3> QED BY <1>1, <1>2, <3>1, SMT DEF MaxLength
  <2>3. /\ IsText(SealFor(text)) /\ SealFor(text).utf8 /\ 0 < SealFor(text).bytes
        /\ SealFor(text).bytes <= NIP44_DEFAULT_MAX_PLAINTEXT_SIZE
    BY <1>1, <1>5, <2>2, SealSizes, Zenon
  <2>4. Fits(text) /\ Fits(SealFor(text))
    <3>1. SealFor(text).bytes \in Nat
      BY <2>3 DEF IsText
    <3>2. SealFor(text).bytes <= NIP44_MAX_PLAINTEXT_SIZE
      BY <1>2, <2>3, <3>1
    <3> QED BY <1>1, <1>5, <2>2, <2>3, <3>2, Zenon DEF Fits
  <2> QED BY <1>1, <1>3, <1>5, <2>1, <2>3, <2>4, Zenon
<1>6. CASE ~(text.utf8 /\ 0 < text.bytes /\ text.bytes <= GIFT_WRAP_MAX_RUMOUR_SIZE)
  <2>1. wire = Null
    BY <1>4, <1>6, Zenon DEF WrapsHere, Carries
  <2> QED BY <1>1, <1>3, <1>6, <2>1, Zenon
<1> QED BY <1>5, <1>6, Zenon

(* A text that is read from the wire is what is written there.             *)
LEMMA WhatIsReadWasWritten ==
  ASSUME NEW inner, Fits(inner), inner.utf8, inner # Null, NEW limit \in Ceilings,
         NEW payload \in {WirePayload(Pad(inner))} \cup Altered(WirePayload(Pad(inner))),
         NEW plain, plain = Nip44Decrypt(payload, limit), plain # Null
  PROVE  plain.bytes \in 1..limit /\ payload = WirePayload(Pad(plain))
<1>1. limit \in Nat /\ 0 < limit /\ limit <= NIP44_MAX_PLAINTEXT_SIZE
  BY CeilingsAssumption, SizesAssumption, SMT
<1>2. Decipher(payload) # Null
  BY Zenon DEF Nip44Decrypt
<1>3. payload = WirePayload(Pad(inner))
  BY <1>2, OnlyItsOwnFormIsRead
<1>4. plain = IF inner.bytes <= limit THEN inner ELSE Null
  BY <1>1, <1>3, WrittenIsReadBack
<1>5. plain = inner /\ inner.bytes <= limit
  BY <1>4, Zenon
<1> QED BY <1>1, <1>3, <1>5 DEF Fits, IsText

(* Encryption and decryption are each other's inverse, under the ceilings  *)
(* of either side, and nothing but this library's own form is read:        *)
(* nip44-codec.ts over nip44-v2.ts.                                        *)
THEOREM Faithful == CodecSpec => []PayloadsAreFaithful
<1>1. CodecInv => PayloadsAreFaithful
  <2> SUFFICES ASSUME CodecInv PROVE PayloadsAreFaithful
    OBVIOUS
  <2>1. EncryptedIsReadBack
    <3> SUFFICES ASSUME by = "nip44Encrypt" PROVE EncryptedIsReadBack
      BY DEF EncryptedIsReadBack
    <3>1. EncryptsHere
      BY NullAssumption DEF CodecInv, WrapsHere, Encryptions
    <3>2. ASSUME genuine, NEW limit \in Ceilings
          PROVE  Nip44Decrypt(wire, limit) = IF text.bytes <= limit THEN text ELSE Null
      <4>1. wire # Null
        BY <3>1, <3>2, Zenon DEF EncryptsHere, Carries
      <4>2. limit \in Nat /\ 0 < limit /\ limit <= NIP44_MAX_PLAINTEXT_SIZE
        BY CeilingsAssumption, SizesAssumption, SMT
      <4> QED BY <3>1, <3>2, <4>1, <4>2, EncryptedCase, WrittenIsReadBack, Zenon
    <3> QED BY <3>1, <3>2, EncryptedCase, Zenon DEF EncryptedIsReadBack
  <2>2. ReadAsWritten
    <3> SUFFICES ASSUME wire # Null, NEW limit \in Ceilings, Nip44Decrypt(wire, limit) # Null
                 PROVE  /\ Nip44Decrypt(wire, limit).bytes \in 1..limit
                        /\ wire = WirePayload(Pad(Nip44Decrypt(wire, limit)))
      BY DEF ReadAsWritten
    <3>1. CASE EncryptsHere
      BY <3>1, EncryptedCase, WhatIsReadWasWritten, ZenonT(40)
    <3>2. CASE WrapsHere
      BY <3>2, WrappedCase, WhatIsReadWasWritten, ZenonT(40)
    <3> QED BY <3>1, <3>2 DEF CodecInv
  <2> QED BY <2>1, <2>2 DEF PayloadsAreFaithful
<1> QED BY <1>1, WireIsAccountedFor, PTL

(* The limit of dm-crypto.ts on a rumour is the seal's ceiling: whatever   *)
(* is wrapped is read through both layers, and whatever is refused would   *)
(* not have fitted.                                                        *)
THEOREM HoldsWhatFits == CodecSpec => []GiftWrapsHoldWhatFits
<1>1. CodecInv => GiftWrapsHoldWhatFits
  <2> SUFFICES ASSUME CodecInv, by = "buildDmGiftWraps", text.utf8, text.bytes > 0
               PROVE  /\ wire = Null <=> SealOf(WirePayload(Pad(text))).bytes > NIP44_DEFAULT_MAX_PLAINTEXT_SIZE
                      /\ genuine =>
                           LET seal == Nip44Decrypt(wire, NIP44_DEFAULT_MAX_PLAINTEXT_SIZE) IN
                           /\ seal # Null
                           /\ Nip44Decrypt(seal.inner, NIP44_DEFAULT_MAX_PLAINTEXT_SIZE) = text
    BY DEF GiftWrapsHoldWhatFits
  <2>1. WrapsHere
    BY NullAssumption DEF CodecInv, EncryptsHere, Encryptions
  <2>2. /\ IsText(text) /\ text.bytes \in Nat /\ 0 < text.bytes /\ text.bytes <= MaxLength
    BY <2>1, WrapsWhatFits, TextsAssumption DEF WrapsHere, IsText
  <2>3. /\ NIP44_DEFAULT_MAX_PLAINTEXT_SIZE \in Nat /\ 0 < NIP44_DEFAULT_MAX_PLAINTEXT_SIZE
        /\ NIP44_DEFAULT_MAX_PLAINTEXT_SIZE <= NIP44_MAX_PLAINTEXT_SIZE
    BY SizesAssumption, SMT DEF NIP44_DEFAULT_MAX_PLAINTEXT_SIZE
  <2>4. wire = Null <=> SealOf(WirePayload(Pad(text))).bytes > NIP44_DEFAULT_MAX_PLAINTEXT_SIZE
    <3>1. SealFor(text).bytes \in Nat
      BY <2>2, SealSizes DEF IsText
    <3>2. SealFor(text).bytes > NIP44_DEFAULT_MAX_PLAINTEXT_SIZE <=> ~(SealFor(text).bytes <= NIP44_DEFAULT_MAX_PLAINTEXT_SIZE)
      BY <2>3, <3>1
    <3>3. wire # Null <=> text.bytes <= GIFT_WRAP_MAX_RUMOUR_SIZE
      BY <2>1, <2>2, WrappedCase, Zenon
    <3> QED BY <2>2, <3>2, <3>3, SealSizes, Zenon DEF SealFor
  <2>5. ASSUME genuine
        PROVE  /\ Nip44Decrypt(wire, NIP44_DEFAULT_MAX_PLAINTEXT_SIZE) = SealFor(text)
               /\ SealFor(text) # Null /\ SealFor(text).inner = WirePayload(Pad(text))
               /\ Nip44Decrypt(WirePayload(Pad(text)), NIP44_DEFAULT_MAX_PLAINTEXT_SIZE) = text
    <3>1. wire # Null
      BY <2>1, <2>5, Zenon DEF WrapsHere, Carries
    <3>2. text.bytes <= GIFT_WRAP_MAX_RUMOUR_SIZE /\ Fits(text) /\ text # Null
          /\ wire = WirePayload(Pad(SealFor(text))) /\ Fits(SealFor(text)) /\ SealFor(text).utf8 /\ SealFor(text) # Null
          /\ SealFor(text).bytes <= NIP44_DEFAULT_MAX_PLAINTEXT_SIZE
      BY <2>1, <2>5, <3>1, WrappedCase, Zenon
    <3>3. text.bytes <= NIP44_DEFAULT_MAX_PLAINTEXT_SIZE
      BY <2>2, <3>2, SMT DEF GIFT_WRAP_MAX_RUMOUR_SIZE, NIP44_DEFAULT_MAX_PLAINTEXT_SIZE
    <3>4. Nip44Decrypt(wire, NIP44_DEFAULT_MAX_PLAINTEXT_SIZE) = SealFor(text)
      BY <2>3, <3>2, WrittenIsReadBack, Zenon
    <3>5. Nip44Decrypt(WirePayload(Pad(text)), NIP44_DEFAULT_MAX_PLAINTEXT_SIZE) = text
      BY <2>3, <3>2, <3>3, WrittenIsReadBack, Zenon
    <3>6. SealFor(text).inner = WirePayload(Pad(text))
      BY DEF SealFor, SealOf
    <3> QED BY <3>2, <3>4, <3>5, <3>6, Zenon
  <2> QED BY <2>4, <2>5, Zenon
<1> QED BY <1>1, WireIsAccountedFor, PTL
=============================================================================
