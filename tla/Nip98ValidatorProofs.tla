------------------------ MODULE Nip98ValidatorProofs ------------------------
(***************************************************************************)
(* Proofs about Nip98Validator for every tolerance, clock, set of events   *)
(* and number of concurrent calls: type correctness, that every refusal as *)
(* a replay is deserved, and, when a recordOnce call reaches the store in  *)
(* the second of its check, that no event is accepted twice; and that what *)
(* the client builds passes, for every input and every size of header.     *)
(***************************************************************************)
EXTENDS Nip98Validator, FiniteSetTheorems, TLAPS

Holds(s, id) == calls[s].stage = "first" /\ calls[s].event.id = id

Spent(id) ==
  granted[id] > 0 \/ id \in lost \/ \E s \in Slots : Holds(s, id)

(* A call on its way to the store passed the check at most MaxDelay        *)
(* seconds ago.                                                            *)
AskedIsValid ==
  \A s \in Slots : calls[s].stage = "asked" =>
    /\ VerifyEventSignature(calls[s].event)
    /\ calls[s].checkedAt - calls[s].event.id.createdAt \in (-Tolerance)..Tolerance
    /\ clock - calls[s].checkedAt \in 0..MaxDelay

(* The record of a spent id outlives the last second it can be asked in.   *)
MemoryLasts ==
  \A id \in Contents : Spent(id) => store[id] > id.createdAt + Tolerance

(* An id has one holder of its acceptance at most, which is not granted    *)
(* yet.                                                                    *)
OneGrant ==
  \A id \in Contents :
    /\ granted[id] \in {0, 1}
    /\ \A s \in Slots : Holds(s, id) => granted[id] = 0
    /\ \A s, t \in Slots : Holds(s, id) /\ Holds(t, id) => s = t

IInv == TypeOK /\ AskedIsValid /\ MemoryLasts /\ OneGrant

-----------------------------------------------------------------------------
LEMMA CallShapes == NoCall \notin Calls /\ NoCall.stage = "none"
  BY DEF NoCall, Calls

(* A failing event has a first failing check.                              *)
LEMMA FirstFaultIsAFailure ==
  ASSUME NEW event, NEW request, NEW at, ~Passes(event, request, at)
  PROVE  FirstFault(event, request, at) \in Failures
<1>. DEFINE F == Faults(event, request, at)
            fails(k) == F[CheckOrder[k]]
<1>1. Len(CheckOrder) = 14
  BY DEF CheckOrder
<1>2. DOMAIN F = Failures
  BY DEF Faults, Failures, CheckOrder
<1>3. \E k \in 1..14 : fails(k)
  BY <1>1, <1>2 DEF Passes, Failures
<1>4. \E k \in 1..14 : fails(k) /\ \A j \in 1..(k - 1) : ~fails(j)
  <2>. HIDE DEF fails
  <2>1. fails(1) \/ fails(2) \/ fails(3) \/ fails(4) \/ fails(5) \/ fails(6)
        \/ fails(7) \/ fails(8) \/ fails(9) \/ fails(10) \/ fails(11)
        \/ fails(12) \/ fails(13) \/ fails(14)
    BY <1>3
  <2>. QED BY <2>1
<1>5. \E f \in DOMAIN F : \E k \in 1..Len(CheckOrder) :
        /\ CheckOrder[k] = f /\ F[f]
        /\ \A j \in 1..(k - 1) : ~F[CheckOrder[j]]
  BY <1>1, <1>2, <1>4 DEF Failures
<1>6. FirstFault(event, request, at) \in DOMAIN F
  <2>. HIDE DEF F
  <2>. QED BY <1>5 DEF FirstFault, F
<1>. QED BY <1>2, <1>6

(* What a passing event is known to satisfy.                               *)
LEMMA PassingEvent ==
  ASSUME NEW event \in Events, NEW request, NEW at \in Int, Passes(event, request, at)
  PROVE  /\ VerifyEventSignature(event)
         /\ at - event.id.createdAt \in (-Tolerance)..Tolerance
<1>. DEFINE F == Faults(event, request, at)
<1>1. ~F.timestamp /\ ~F.signature
  BY DEF Passes, Faults
<1>2. VerifyEventSignature(event)
  BY <1>1 DEF Faults, OutsideWindow
<1>3. event.content = event.id /\ event.content \in Contents
  BY <1>2, EventsAssumption DEF VerifyEventSignature
<1>4. ~(Abs(at - event.content.createdAt) > Tolerance)
  BY <1>1 DEF Faults, OutsideWindow
<1>. QED BY <1>2, <1>3, <1>4, ContentsAssumption, ToleranceAssumption DEF Abs

-----------------------------------------------------------------------------
(* What the steps of one slot's call change.                               *)
LEMMA SlotCall ==
  ASSUME TypeOK, NEW s \in Slots, calls[s].stage # "none"
  PROVE  /\ calls[s] \in Calls /\ calls[s].event \in Events
         /\ calls[s].event.id \in Contents /\ calls[s].checkedAt \in 0..MaxTime
<1>1. calls[s] \in Calls
  BY CallShapes DEF TypeOK
<1>2. calls[s].event \in Events /\ calls[s].checkedAt \in 0..MaxTime
  BY <1>1 DEF Calls
<1>. QED BY <1>1, <1>2, EventsAssumption

LEMMA StageChange ==
  ASSUME TypeOK, NEW s \in Slots, calls[s].stage # "none",
         NEW stage \in {"asked", "first", "seen", "failed"}
  PROVE  /\ [calls[s] EXCEPT !.stage = stage] \in Calls
         /\ [calls[s] EXCEPT !.stage = stage].stage = stage
         /\ [calls[s] EXCEPT !.stage = stage].event = calls[s].event
         /\ [calls[s] EXCEPT !.stage = stage].checkedAt = calls[s].checkedAt
  BY SlotCall DEF Calls

LEMMA RecordedCall ==
  ASSUME TypeOK, NEW s \in Slots, RecordOnce(s)
  PROVE  /\ calls[s].event.id \in Contents
         /\ calls'[s].event = calls[s].event
         /\ calls'[s].stage = IF Remembers(calls[s].event.id) THEN "seen" ELSE "first"
<1>1. calls[s].stage # "none"
  BY DEF RecordOnce
<1>2. CASE Remembers(calls[s].event.id)
  BY <1>1, <1>2, SlotCall, StageChange DEF RecordOnce, TypeOK
<1>3. CASE ~Remembers(calls[s].event.id)
  BY <1>1, <1>3, SlotCall, StageChange DEF RecordOnce, TypeOK
<1>. QED BY <1>2, <1>3

(* A header is refused for a named reason, or its event is validated as    *)
(* one that comes parsed.                                                  *)
LEMMA RefusedHeader ==
  ASSUME NEW header, ~ParseAuthHeader(header).success
  PROVE  ParseAuthHeader(header).failure \in AuthHeaderDecodeFailures
BY DEF ParseAuthHeader, ParseCredentials, Refused, AuthHeaderDecodeFailures

LEMMA ReadHeader ==
  ASSUME NEW header \in Headers, ParseAuthHeader(header).success
  PROVE  ParseAuthHeader(header).value \in Events
<1>1. header.event \in Events
  BY HeadersAssumption
<1>. QED BY <1>1 DEF ParseAuthHeader, ParseCredentials, Refused

LEMMA Steps ==
  ASSUME [Next]_vars
  PROVE  \/ \E event \in Events, request \in Requests : Validate(event, request)
         \/ \E header \in Headers : RefuseHeader(header)
         \/ \E s \in Slots : RecordOnce(s) \/ StoreFails(s) \/ Settle(s)
         \/ Tick
         \/ UNCHANGED vars
BY ReadHeader DEF Next, ValidateAuthHeader

LEMMA TypeStep == TypeOK /\ [Next]_vars => TypeOK'
<1>. SUFFICES ASSUME TypeOK, [Next]_vars PROVE TypeOK'
  OBVIOUS
<1>1. ASSUME NEW event \in Events, NEW request \in Requests, Refuse(event, request)
      PROVE  TypeOK'
  BY <1>1, FirstFaultIsAFailure DEF Refuse, TypeOK, Replies
<1>2. ASSUME NEW event \in Events, NEW request \in Requests, NEW s \in Slots,
             AskStore(s, event, request)
      PROVE  TypeOK'
  <2>1. [stage |-> "asked", event |-> event, checkedAt |-> clock] \in Calls
    BY DEF Calls, TypeOK
  <2>. QED BY <1>2, <2>1 DEF AskStore, TypeOK
<1>3. ASSUME NEW s \in Slots, RecordOnce(s) PROVE TypeOK'
  <2>1. clock + replayTtl \in Nat
    BY ToleranceAssumption, MaxTimeAssumption DEF TypeOK, replayTtl
  <2>2. calls' \in [Slots -> {NoCall} \cup Calls]
    BY <1>3, StageChange DEF RecordOnce, TypeOK
  <2>3. store' \in [Contents -> Nat]
    BY <1>3, <2>1 DEF RecordOnce, TypeOK
  <2>. QED BY <1>3, <2>2, <2>3 DEF RecordOnce, TypeOK
<1>4. ASSUME NEW s \in Slots, StoreFails(s) PROVE TypeOK'
  <2>1. calls' \in [Slots -> {NoCall} \cup Calls]
    BY <1>4, StageChange DEF StoreFails, TypeOK
  <2>2. lost' \in SUBSET Contents
    BY <1>4, SlotCall DEF StoreFails, TypeOK
  <2>. QED BY <1>4, <2>1, <2>2 DEF StoreFails, TypeOK
<1>5. ASSUME NEW s \in Slots, Settle(s) PROVE TypeOK'
  <2>1. reply' \in Replies
    BY <1>5 DEF Settle, Replies
  <2>2. calls[s].event.id \in Contents
    BY <1>5, SlotCall DEF Settle
  <2>3. granted[calls[s].event.id] + 1 \in Nat
    BY <2>2 DEF TypeOK
  <2>4. granted' \in [Contents -> Nat]
    BY <1>5, <2>3 DEF Settle, TypeOK
  <2>5. calls' \in [Slots -> {NoCall} \cup Calls]
    BY <1>5 DEF Settle, TypeOK
  <2>. QED BY <1>5, <2>1, <2>4, <2>5 DEF Settle, TypeOK
<1>6. ASSUME Tick PROVE TypeOK'
  BY <1>6, MaxTimeAssumption DEF Tick, TypeOK
<1>7. ASSUME NEW header \in Headers, RefuseHeader(header) PROVE TypeOK'
  BY <1>7, RefusedHeader DEF RefuseHeader, TypeOK, Replies
<1>8. ASSUME UNCHANGED vars PROVE TypeOK'
  BY <1>8 DEF vars, TypeOK
<1>. QED BY <1>1, <1>2, <1>3, <1>4, <1>5, <1>6, <1>7, <1>8, Steps DEF Validate

LEMMA TypeInit == Init => TypeOK
  BY MaxTimeAssumption DEF Init, TypeOK, Replies

(* Every variable keeps its type, and every refusal is a named failure.    *)
THEOREM TypeCorrect == Spec => []TypeOK
  BY TypeInit, TypeStep, PTL DEF Spec

-----------------------------------------------------------------------------
(* Once spent, an id stays spent: an acceptance on its way is granted, or  *)
(* lost with the store's answer.                                           *)
LEMMA SpentStays ==
  ASSUME TypeOK, [Next]_vars, NEW id \in Contents, Spent(id)
  PROVE  Spent(id)'
<1>1. ASSUME NEW event \in Events, NEW request \in Requests, Validate(event, request)
      PROVE  Spent(id)'
  BY <1>1, CallShapes DEF Validate, Refuse, AskStore, Spent, Holds, TypeOK
<1>2. ASSUME NEW s \in Slots, RecordOnce(s) PROVE Spent(id)'
  BY <1>2 DEF RecordOnce, Spent, Holds, TypeOK
<1>3. ASSUME NEW s \in Slots, StoreFails(s) PROVE Spent(id)'
  BY <1>3 DEF StoreFails, Spent, Holds, TypeOK
<1>4. ASSUME NEW s \in Slots, Settle(s) PROVE Spent(id)'
  <2>1. CASE Holds(s, id)
    BY <1>4, <2>1 DEF Settle, Spent, Holds, TypeOK
  <2>2. CASE ~Holds(s, id)
    <3>1. granted[id] > 0 => granted'[id] > 0
      BY <1>4 DEF Settle, TypeOK
    <3>2. \A t \in Slots : Holds(t, id) => Holds(t, id)'
      BY <1>4, <2>2 DEF Settle, Holds, TypeOK
    <3>. QED BY <1>4, <3>1, <3>2 DEF Spent, Settle
  <2>. QED BY <2>1, <2>2
<1>5. ASSUME Tick \/ UNCHANGED vars \/ \E header \in Headers : RefuseHeader(header)
      PROVE  Spent(id)'
  BY <1>5 DEF RefuseHeader, Tick, vars, Spent, Holds
<1>. QED BY <1>1, <1>2, <1>3, <1>4, <1>5, Steps

(* Whoever the store has heard of, or was told it has seen, is spent.      *)
StoreIsSpent == \A id \in Contents : store[id] # 0 => Spent(id)
SeenIsSpent  == \A s \in Slots : calls[s].stage = "seen" => Spent(calls[s].event.id)

LEMMA SpentStep ==
  TypeOK /\ StoreIsSpent /\ SeenIsSpent /\ [Next]_vars => StoreIsSpent' /\ SeenIsSpent'
<1>. SUFFICES ASSUME TypeOK, StoreIsSpent, SeenIsSpent, [Next]_vars
              PROVE  StoreIsSpent' /\ SeenIsSpent'
  OBVIOUS
<1>1. \A id \in Contents : Spent(id) => Spent(id)'
  BY SpentStays
<1>2. ASSUME NEW id \in Contents, store'[id] # 0 PROVE Spent(id)'
  <2>1. CASE store'[id] = store[id]
    BY <1>1, <1>2, <2>1 DEF StoreIsSpent
  <2>2. CASE store'[id] # store[id]
    <3>1. PICK s \in Slots : RecordOnce(s)
      BY <2>2, Steps
      DEF Validate, Refuse, RefuseHeader, AskStore, StoreFails, Settle, Tick, vars
    <3>2. calls[s].event.id = id /\ calls'[s].stage = "first"
      BY <2>2, <3>1, StageChange DEF RecordOnce, TypeOK
    <3>3. calls'[s].event.id = id
      BY <3>1, <3>2, StageChange DEF RecordOnce, TypeOK
    <3>. QED BY <3>2, <3>3 DEF Spent, Holds
  <2>. QED BY <2>1, <2>2
<1>3. ASSUME NEW s \in Slots, calls'[s].stage = "seen"
      PROVE  \E id \in Contents : id = calls'[s].event.id /\ Spent(id)'
  <2>1. CASE calls'[s] = calls[s]
    <3>1. PICK id \in Contents : id = calls[s].event.id
      BY <1>3, <2>1, SlotCall
    <3>2. Spent(id)
      BY <1>3, <2>1, <3>1 DEF SeenIsSpent
    <3>. QED BY <1>1, <2>1, <3>1, <3>2
  <2>2. CASE calls'[s] # calls[s]
    <3>1. ASSUME NEW event \in Events, NEW request \in Requests, Validate(event, request)
          PROVE  FALSE
      BY <1>3, <2>2, <3>1 DEF Validate, Refuse, AskStore, TypeOK
    <3>2. ASSUME NEW t \in Slots, StoreFails(t) PROVE FALSE
      <4>1. calls'[s].stage = "failed"
        BY <2>2, <3>2, StageChange DEF StoreFails, TypeOK
      <4>. QED BY <1>3, <4>1
    <3>3. ASSUME NEW t \in Slots, Settle(t) PROVE FALSE
      <4>1. calls'[s] = NoCall
        BY <2>2, <3>3 DEF Settle, TypeOK
      <4>. QED BY <1>3, <4>1 DEF NoCall
    <3>4. ~Tick /\ ~UNCHANGED vars /\ \A header \in Headers : ~RefuseHeader(header)
      BY <2>2 DEF RefuseHeader, Tick, vars
    <3>5. PICK t \in Slots : RecordOnce(t)
      BY <3>1, <3>2, <3>3, <3>4, Steps
    <3>6. RecordOnce(s)
      BY <2>2, <3>5 DEF RecordOnce, TypeOK
    <3>7. PICK id \in Contents : id = calls[s].event.id
      BY <3>6, RecordedCall
    <3>8. calls'[s].event.id = id
      BY <3>6, <3>7, RecordedCall
    <3>9. Remembers(id)
      BY <1>3, <3>6, <3>7, RecordedCall
    <3>10. store[id] # 0
      BY <3>9, MaxTimeAssumption DEF Remembers, TypeOK
    <3>11. Spent(id)
      BY <3>10 DEF StoreIsSpent
    <3>. QED BY <1>1, <3>8, <3>11
  <2>. QED BY <2>1, <2>2
<1>4. SeenIsSpent'
  BY <1>3 DEF SeenIsSpent, Spent, Holds
<1>. QED BY <1>2, <1>4 DEF StoreIsSpent

(* A call is refused as a replay only when its event was accepted, is      *)
(* being accepted, or had its acceptance lost by the store.                *)
THEOREM ReplaysAreDeserved == Spec => []ReplayIsDeserved
<1>1. Init => TypeOK /\ StoreIsSpent /\ SeenIsSpent
  BY TypeInit, CallShapes DEF Init, StoreIsSpent, SeenIsSpent
<1>2. SeenIsSpent => ReplayIsDeserved
  BY DEF SeenIsSpent, ReplayIsDeserved, Spent, Holds
<1>. QED BY <1>1, <1>2, TypeStep, SpentStep, PTL DEF Spec

-----------------------------------------------------------------------------
(* With every recordOnce call at the store in the second of its check, the *)
(* invariant is inductive: an asked id is in its window, and the record of *)
(* a spent one outlives the window, so a spent id is never first again.    *)
LEMMA GrantInit == Init => IInv
  BY TypeInit, CallShapes
  DEF Init, IInv, AskedIsValid, MemoryLasts, OneGrant, Spent, Holds

LEMMA GrantStep ==
  ASSUME MaxDelay = 0, IInv, [Next]_vars
  PROVE  IInv'
<1>1. TypeOK'
  BY TypeStep DEF IInv
<1>2. CASE \E event \in Events, request \in Requests : Refuse(event, request)
  BY <1>1, <1>2 DEF Refuse, IInv, AskedIsValid, MemoryLasts, OneGrant, Spent, Holds
<1>3. ASSUME NEW event \in Events, NEW request \in Requests, NEW s \in Slots,
             AskStore(s, event, request)
      PROVE  IInv'
  <2>1. /\ calls'[s] = [stage |-> "asked", event |-> event, checkedAt |-> clock]
        /\ \A t \in Slots \ {s} : calls'[t] = calls[t]
        /\ UNCHANGED <<clock, store, granted, lost>> /\ calls[s] = NoCall
    BY <1>3 DEF AskStore, IInv, TypeOK
  <2>2. AskedIsValid'
    <3>1. clock \in Int /\ clock - clock \in 0..MaxDelay
      BY MaxTimeAssumption, MaxDelayAssumption DEF IInv, TypeOK
    <3>2. /\ VerifyEventSignature(event)
          /\ clock - event.id.createdAt \in (-Tolerance)..Tolerance
      BY <1>3, <3>1, PassingEvent DEF AskStore
    <3>. QED BY <2>1, <3>1, <3>2 DEF IInv, AskedIsValid, VerifyEventSignature
  <2>3. \A t \in Slots, id \in Contents : Holds(t, id)' <=> Holds(t, id)
    BY <2>1, CallShapes DEF Holds
  <2>4. MemoryLasts' /\ OneGrant'
    BY <2>1, <2>3 DEF IInv, MemoryLasts, OneGrant, Spent
  <2>. QED BY <1>1, <2>2, <2>4 DEF IInv
<1>4. ASSUME NEW s \in Slots, RecordOnce(s) PROVE IInv'
  <2>1. /\ calls[s] \in Calls /\ calls[s].event \in Events
        /\ calls[s].event.id \in Contents /\ calls[s].checkedAt \in 0..MaxTime
    BY <1>4, SlotCall DEF RecordOnce, IInv
  <2>2. PICK id \in Contents : id = calls[s].event.id
    BY <2>1
  <2>3. clock \in Nat /\ id.createdAt \in Nat /\ store[id] \in Nat
        /\ clock - id.createdAt \in (-Tolerance)..Tolerance
    <3>1. clock = calls[s].checkedAt
      BY <1>4, <2>1, MaxTimeAssumption DEF RecordOnce, IInv, AskedIsValid, TypeOK
    <3>. QED BY <1>4, <2>1, <2>2, <3>1, ContentsAssumption, MaxTimeAssumption
             DEF RecordOnce, IInv, AskedIsValid, TypeOK
  <2>4. /\ \A t \in Slots \ {s} : calls'[t] = calls[t]
        /\ calls'[s].event = calls[s].event /\ calls[s].stage = "asked"
        /\ calls'[s].stage \in {"first", "seen"}
        /\ UNCHANGED <<clock, granted, lost>>
    BY <1>4, StageChange DEF RecordOnce, IInv, TypeOK
  <2>5. AskedIsValid'
    BY <2>4 DEF IInv, AskedIsValid
  <2>6. CASE Remembers(id)
    <3>1. calls'[s].stage = "seen" /\ store' = store
      BY <1>4, <2>2, <2>6, StageChange DEF RecordOnce, IInv, TypeOK
    <3>2. \A t \in Slots, i \in Contents : Holds(t, i)' <=> Holds(t, i)
      BY <2>4, <3>1 DEF Holds
    <3>3. MemoryLasts' /\ OneGrant'
      BY <2>4, <3>1, <3>2 DEF IInv, MemoryLasts, OneGrant, Spent
    <3>. QED BY <1>1, <2>5, <3>3 DEF IInv
  <2>7. CASE ~Remembers(id)
    <3>1. calls'[s].stage = "first" /\ store' = [store EXCEPT ![id] = clock + replayTtl]
      BY <1>4, <2>2, <2>7, StageChange DEF RecordOnce, IInv, TypeOK
    <3>2. ~Spent(id)
      BY <2>3, <2>7, ToleranceAssumption DEF Remembers, IInv, MemoryLasts
    <3>3. store'[id] > id.createdAt + Tolerance
      BY <2>3, <3>1, ToleranceAssumption DEF replayTtl, IInv, TypeOK
    <3>4. \A i \in Contents \ {id} : store'[i] = store[i]
      BY <3>1 DEF IInv, TypeOK
    <3>5. \A t \in Slots, i \in Contents :
            Holds(t, i)' <=> Holds(t, i) \/ (t = s /\ i = id)
      BY <2>2, <2>4, <3>1 DEF Holds
    <3>6. MemoryLasts'
      BY <2>4, <3>3, <3>4, <3>5 DEF IInv, MemoryLasts, Spent
    <3>7. granted[id] = 0 /\ \A t \in Slots : ~Holds(t, id)
      BY <3>2 DEF Spent, IInv, TypeOK
    <3>8. OneGrant'
      BY <2>4, <3>5, <3>7 DEF IInv, OneGrant
    <3>. QED BY <1>1, <2>5, <3>6, <3>8 DEF IInv
  <2>. QED BY <2>6, <2>7
<1>5. ASSUME NEW s \in Slots, StoreFails(s) PROVE IInv'
  <2>1. /\ calls'[s].stage = "failed"
        /\ \A t \in Slots \ {s} : calls'[t] = calls[t]
        /\ UNCHANGED <<clock, store, granted>>
    BY <1>5, StageChange DEF StoreFails, IInv, TypeOK
  <2>2. \A t \in Slots, i \in Contents : Holds(t, i)' <=> Holds(t, i) /\ t # s
    BY <2>1 DEF Holds
  <2>3. \A i \in Contents : Spent(i)' => Spent(i)
    BY <1>5, <2>1, <2>2 DEF StoreFails, Spent, Holds
  <2>4. AskedIsValid' /\ MemoryLasts' /\ OneGrant'
    BY <2>1, <2>2, <2>3 DEF IInv, AskedIsValid, MemoryLasts, OneGrant
  <2>. QED BY <1>1, <2>4 DEF IInv
<1>6. ASSUME NEW s \in Slots, Settle(s) PROVE IInv'
  <2>1. /\ calls'[s].stage = "none"
        /\ \A t \in Slots \ {s} : calls'[t] = calls[t]
        /\ UNCHANGED <<clock, store, lost>>
    BY <1>6, CallShapes DEF Settle, IInv, TypeOK
  <2>2. \A t \in Slots, i \in Contents : Holds(t, i)' <=> Holds(t, i) /\ t # s
    BY <2>1 DEF Holds
  <2>3. AskedIsValid'
    BY <2>1 DEF IInv, AskedIsValid
  <2>4. \A i \in Contents : granted'[i] = IF Holds(s, i) THEN 1 ELSE granted[i]
    BY <1>6 DEF Settle, Holds, IInv, OneGrant, TypeOK
  <2>5. MemoryLasts'
    BY <2>1, <2>2, <2>4 DEF IInv, MemoryLasts, Spent
  <2>6. OneGrant'
    BY <2>2, <2>4 DEF IInv, OneGrant
  <2>. QED BY <1>1, <2>3, <2>5, <2>6 DEF IInv
<1>7. CASE Tick
  <2>1. \A s \in Slots : calls[s].stage # "asked"
    BY <1>7, SlotCall, MaxTimeAssumption DEF Tick, IInv, AskedIsValid, TypeOK
  <2>. QED BY <1>1, <1>7, <2>1
           DEF Tick, IInv, AskedIsValid, MemoryLasts, OneGrant, Spent, Holds
<1>8. CASE UNCHANGED vars \/ \E header \in Headers : RefuseHeader(header)
  BY <1>1, <1>8
  DEF vars, RefuseHeader, IInv, AskedIsValid, MemoryLasts, OneGrant, Spent, Holds
<1>. QED BY <1>2, <1>3, <1>4, <1>5, <1>6, <1>7, <1>8, Steps DEF Validate

(* No event is accepted twice, whatever copies of it race, when each       *)
(* recordOnce call reaches the store in the second of its check.           *)
THEOREM AcceptedOnce ==
  ASSUME MaxDelay = 0
  PROVE  Spec => []AtMostOnce
<1>1. IInv => AtMostOnce
  BY DEF IInv, OneGrant, AtMostOnce
<1>2. IInv /\ [Next]_vars => IInv'
  BY GrantStep
<1>. QED BY <1>1, <1>2, GrantInit, PTL DEF Spec

(* In every second an accepted event could pass in, the store remembers it.*)
THEOREM MemoryIsLongEnough ==
  ASSUME MaxDelay = 0
  PROVE  Spec => []MemoryOutlivesWindow
<1>1. IInv => MemoryOutlivesWindow
  BY ToleranceAssumption, ContentsAssumption, MaxTimeAssumption
  DEF IInv, MemoryLasts, Spent, MemoryOutlivesWindow, Remembers, Abs, TypeOK
<1>2. IInv /\ [Next]_vars => IInv'
  BY GrantStep
<1>. QED BY <1>1, <1>2, GrantInit, PTL DEF Spec

-----------------------------------------------------------------------------
(* A built event passes the check of the request it was built for: each of *)
(* its tags has one value at most, the one the request asks for.           *)
LEMMA AtMostOneValue ==
  ASSUME NEW values, NEW value, values \subseteq {value}
  PROVE  ~Disagreeing(values)
<1>1. values = {} \/ values = {value}
  OBVIOUS
<1>2. Cardinality({}) = 0 /\ Cardinality({value}) = 1
  BY FS_EmptySet, FS_Singleton
<1>. QED BY <1>1, <1>2 DEF Disagreeing

LEMMA BuiltEventPasses ==
  ASSUME NEW input \in Builds, NEW at \in Nat,
         Abs(at - input.createdAt) <= Tolerance,
         \A seconds \in input.expiresIn : at < input.createdAt + seconds
  PROVE  Passes(Signed(BuildNip98AuthEvent(input)), Sent(input), at)
<1>. DEFINE c       == BuildNip98AuthEvent(input)
            request == Sent(input)
            F       == Faults(Signed(c), request, at)
<1>1. /\ Signed(c).content = c /\ Signed(c).id = c /\ Signed(c).signed
      /\ c.kind = KIND_HTTP_AUTH /\ c.createdAt = input.createdAt
      /\ c.u = {input.url} /\ c.method = {request.method}
      /\ c.payload = {input.bodyHash} \ {EmptyBodyHash}
      /\ c.expiration = {input.createdAt + seconds : seconds \in input.expiresIn}
      /\ request.url = HttpUrlOf[input.url] /\ request.bodyHash = input.bodyHash
  BY DEF Signed, BuildNip98AuthEvent, Sent, MethodAsFetchSendsIt, FETCH_NORMALISED_METHODS
<1>. HIDE DEF c, request
<1>2. ~F.kind /\ ~F.signature
  BY <1>1 DEF Faults, VerifyEventSignature
<1>3. ~F.timestamp /\ ~F.expired
  <2>1. ~OutsideWindow(c.createdAt, at)
    BY <1>1, ToleranceAssumption, BuildsAssumption DEF OutsideWindow, Abs
  <2>2. \A t \in c.expiration : ~(t <= at)
    BY <1>1, BuildsAssumption
  <2>. QED BY <1>1, <2>1, <2>2 DEF Faults
<1>4. ~F.u_missing /\ ~F.u_disagreeing /\ ~F.u_malformed /\ ~F.u_mismatch
  BY <1>1, AtMostOneValue, BuildsAssumption DEF Faults, Absent
<1>5. ~F.method_missing /\ ~F.method_disagreeing /\ ~F.method_mismatch
  BY <1>1, AtMostOneValue DEF Faults, Absent
<1>6. ~F.payload_missing /\ ~F.payload_disagreeing /\ ~F.payload_mismatch
  <2>1. c.payload \subseteq {request.bodyHash}
    BY <1>1
  <2>2. c.payload = {} => request.bodyHash = EmptyBodyHash
    BY <1>1
  <2>. QED BY <1>1, <2>1, <2>2, AtMostOneValue DEF Faults, Absent
<1>7. DOMAIN F = {"kind", "timestamp", "expired", "u_missing", "u_disagreeing",
         "u_malformed", "u_mismatch", "method_missing", "method_disagreeing",
         "method_mismatch", "payload_disagreeing", "payload_missing",
         "payload_mismatch", "signature"}
  BY DEF Faults
<1>8. \A f \in DOMAIN F : ~F[f]
  <2>. HIDE DEF F
  <2>. QED BY <1>2, <1>3, <1>4, <1>5, <1>6, <1>7
<1>. QED BY <1>8 DEF Passes, c, request

(* A header within the length its form allows is read as its event, and    *)
(* one beyond it is refused, so that the encoder gives none.               *)
LEMMA HeaderIsReadIffShort ==
  ASSUME NEW event, NEW spelling \in {"base64", "base64url"}, NEW characters \in Nat
  PROVE  LET header == Header(event, spelling, characters)
             read   == [success |-> TRUE, value |-> event]
         IN  /\ header.length \in Nat
             /\ IF header.length <= MAX_BLOSSOM_AUTH_HEADER_LENGTH
                THEN ParseBlossomAuthHeader(header) = read
                ELSE ~ParseBlossomAuthHeader(header).success
             /\ IF header.length <= MAX_NIP98_AUTH_HEADER_LENGTH /\ spelling = "base64"
                THEN ParseAuthHeader(header) = read
                ELSE ~ParseAuthHeader(header).success
<1>. DEFINE header == Header(event, spelling, characters)
<1>1. /\ header.length = PrefixLength + characters /\ header.length \in Nat
      /\ header.scheme = "Nostr" /\ header.spelling = spelling
      /\ header.text = "event" /\ header.event = event
  BY DEF Header, PrefixLength
<1>. HIDE DEF header
<1>2. /\ MAX_BLOSSOM_AUTH_HEADER_LENGTH \in Nat /\ MAX_NIP98_AUTH_HEADER_LENGTH \in Nat
  BY DEF MAX_BLOSSOM_AUTH_HEADER_LENGTH, MAX_NIP98_AUTH_HEADER_LENGTH
<1>3. IF header.length <= MAX_BLOSSOM_AUTH_HEADER_LENGTH
      THEN ParseBlossomAuthHeader(header) = [success |-> TRUE, value |-> event]
      ELSE ~ParseBlossomAuthHeader(header).success
  BY <1>1, <1>2 DEF ParseBlossomAuthHeader, ParseCredentials, Refused
<1>4. IF header.length <= MAX_NIP98_AUTH_HEADER_LENGTH /\ spelling = "base64"
      THEN ParseAuthHeader(header) = [success |-> TRUE, value |-> event]
      ELSE ~ParseAuthHeader(header).success
  BY <1>1, <1>2 DEF ParseAuthHeader, ParseCredentials, Refused
<1>. QED BY <1>1, <1>3, <1>4 DEF header

(* Every event the client builds passes the check of the request it was    *)
(* built for, throughout its window, and is read from whichever header it  *)
(* is put in; it is put in none only where no parser would read it.        *)
THEOREM BuiltEventsAreAccepted == Spec => []BuiltEventsPass
<1>1. TypeOK => BuiltEventsPass
  <2>. SUFFICES ASSUME TypeOK, NEW input \in Builds, NEW size \in Sizes,
                       Abs(clock - input.createdAt) <= Tolerance,
                       \A seconds \in input.expiresIn : clock < input.createdAt + seconds
       PROVE  LET content == BuildNip98AuthEvent(input)
                  event   == Signed(content)
                  read    == [success |-> TRUE, value |-> event]
              IN  /\ Passes(event, Sent(input), clock)
                  /\ \A header \in EncodeAuthHeader(event, size) :
                       ParseAuthHeader(header) = read /\ ParseBlossomAuthHeader(header) = read
                  /\ \A header \in EncodeBlossomAuthHeader(event, size) :
                       ParseBlossomAuthHeader(header) = read
                  /\ EncodeBlossomAuthHeader(event, size) = {} =>
                       \A spelling \in {"base64", "base64url"} :
                         ~ParseBlossomAuthHeader(Header(event, spelling, UnpaddedLength(size))).success
                  /\ EncodeAuthHeader(event, size) = {} =>
                       ~ParseAuthHeader(Header(event, "base64", PaddedLength(size))).success
    BY DEF BuiltEventsPass
  <2>. DEFINE event == Signed(BuildNip98AuthEvent(input))
              read  == [success |-> TRUE, value |-> event]
              padded   == PaddedLength(size)
              unpadded == UnpaddedLength(size)
  <2>1. Passes(event, Sent(input), clock)
    BY BuiltEventPasses, MaxTimeAssumption DEF TypeOK
  <2>2. padded \in Nat /\ unpadded \in Nat
    BY SizesAssumption DEF PaddedLength, UnpaddedLength
  <2>. HIDE DEF event, padded, unpadded
  <2>3. \A header \in HeaderWithin(Header(event, "base64", padded), MAX_NIP98_AUTH_HEADER_LENGTH) :
          ParseAuthHeader(header) = read /\ ParseBlossomAuthHeader(header) = read
    BY <2>2, HeaderIsReadIffShort
    DEF HeaderWithin, MAX_NIP98_AUTH_HEADER_LENGTH, MAX_BLOSSOM_AUTH_HEADER_LENGTH
  <2>4. \A header \in HeaderWithin(Header(event, "base64url", unpadded), MAX_BLOSSOM_AUTH_HEADER_LENGTH) :
          ParseBlossomAuthHeader(header) = read
    BY <2>2, HeaderIsReadIffShort DEF HeaderWithin
  <2>5. ASSUME HeaderWithin(Header(event, "base64url", unpadded), MAX_BLOSSOM_AUTH_HEADER_LENGTH) = {},
               NEW spelling \in {"base64", "base64url"}
        PROVE  ~ParseBlossomAuthHeader(Header(event, spelling, unpadded)).success
    <3>1. ~(Header(event, "base64url", unpadded).length <= MAX_BLOSSOM_AUTH_HEADER_LENGTH)
      BY <2>5 DEF HeaderWithin
    <3>2. Header(event, spelling, unpadded).length = Header(event, "base64url", unpadded).length
      BY DEF Header
    <3>. QED BY <2>2, <3>1, <3>2, HeaderIsReadIffShort
  <2>6. ASSUME HeaderWithin(Header(event, "base64", padded), MAX_NIP98_AUTH_HEADER_LENGTH) = {}
        PROVE  ~ParseAuthHeader(Header(event, "base64", padded)).success
    <3>1. ~(Header(event, "base64", padded).length <= MAX_NIP98_AUTH_HEADER_LENGTH)
      BY <2>6 DEF HeaderWithin
    <3>. QED BY <2>2, <3>1, HeaderIsReadIffShort
  <2>. QED BY <2>1, <2>3, <2>4, <2>5, <2>6
           DEF EncodeAuthHeader, EncodeBlossomAuthHeader, event, padded, unpadded
<1>. QED BY <1>1, TypeInit, TypeStep, PTL DEF Spec
=============================================================================
