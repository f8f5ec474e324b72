--------------------------- MODULE Nip05Verifier ---------------------------
(***************************************************************************)
(* createNip05Verifier (src/application/service/nip05-verifier.ts): a      *)
(* fire-and-forget verifier that keeps one queue per domain, drained by    *)
(* one detached asynchronous drainQueue call per queue, and reports to a   *)
(* listener supplied by the host.                                          *)
(*                                                                         *)
(* JavaScript runs one callback at a time to completion, so an action is   *)
(* the code between two awaits, and a listener call is a state of its own: *)
(* while it lasts (call # NoCall) the host's code runs inside drainQueue   *)
(* and may call verify, abort the signal or call whenIdle, and nothing     *)
(* else of the verifier moves.  A drain stands for one call of drainQueue  *)
(* and for the promise it returned, from its start until inFlight forgets  *)
(* that promise.                                                           *)
(***************************************************************************)
EXTENDS Sequences, Naturals

CONSTANTS Pubkeys,   \* public keys whose claims are verified
          Names,     \* local parts of NIP-05 identifiers
          Domains,   \* domains of NIP-05 identifiers
          Drains,    \* drainQueue calls whose promise is in flight (the bound)
          NoDrain    \* "the map has no entry for this domain"

ASSUME NoDrainAssumption == NoDrain \notin Drains

VARIABLES queued,        \* the Set of pubkeys waiting for a verdict
          domainQueues,  \* the Map from a domain to its queue, named by the
                         \* drain that iterates over it
          queue,         \* queue[i]: drain i's array after its reported prefix,
                         \* queue.slice(reported)
          home,          \* home[i]: the domain drain i was started for
          pc,            \* pc[i]: where drain i, or its promise, is
          call,          \* the listener call in progress, or NoCall
          aborted,       \* signal.aborted
          idle,          \* "off", or "awaiting" for a pending whenIdle call
          awaiting,      \* promises of whenIdle's snapshot not yet settled
          closing        \* the host has stopped calling verify

vars == <<queued, domainQueues, queue, home, pc, call, aborted, idle, awaiting,
          closing>>
hostVars == <<aborted, idle, closing>>

Nip05Id == [name : Names, domain : Domains]
Claim   == [pubkey : Pubkeys, nip05 : Nip05Id]

NoCall == [on |-> "nothing"]
Verdicts == [on : {"onVerified", "onLookupFailed"}, of : Drains,
             pubkey : Pubkeys, verified : BOOLEAN]
FaultCalls == [on : {"onError"}, of : Drains]

(* The states of a drain.  "lookup": awaiting resolveNip05.  "listener":   *)
(* inside onVerified or onLookupFailed.  "resolved", "rejected": the       *)
(* promise settled and its .catch reaction has not run.  "caught": the     *)
(* .catch reaction ran and .finally has not.  "free": not in inFlight.     *)
States   == {"free", "lookup", "listener", "resolved", "rejected", "caught"}
Draining == {i \in Drains : pc[i] \in {"lookup", "listener"}}
Settled  == {i \in Drains : pc[i] \in {"resolved", "rejected", "caught"}}
InFlight == Draining \cup Settled

PubkeysOf(claims) == {claims[k].pubkey : k \in 1..Len(claims)}

TypeOK ==
  /\ queued \in SUBSET Pubkeys
  /\ domainQueues \in [Domains -> Drains \cup {NoDrain}]
  /\ queue \in [Drains -> Seq(Claim)]
  /\ home \in [Drains -> Domains]
  /\ pc \in [Drains -> States]
  /\ call \in {NoCall} \cup Verdicts \cup FaultCalls
  /\ aborted \in BOOLEAN
  /\ idle \in {"off", "awaiting"}
  /\ awaiting \in SUBSET Drains
  /\ closing \in BOOLEAN

Init ==
  /\ queued = {}
  /\ domainQueues = [d \in Domains |-> NoDrain]
  /\ queue = [i \in Drains |-> <<>>]
  /\ home \in {[i \in Drains |-> d] : d \in Domains}
  /\ pc = [i \in Drains |-> "free"]
  /\ call = NoCall
  /\ aborted = FALSE
  /\ idle = "off"
  /\ awaiting = {}
  /\ closing = FALSE

-----------------------------------------------------------------------------
(* Bugs: the pubkeys after the reported prefix stay queued; the domain's   *)
(* entry stays in the map.                                                 *)
ForgetTheQueueAlone(i, outcome) ==
  /\ domainQueues' = [domainQueues EXCEPT ![home[i]] = NoDrain]
  /\ queue' = [queue EXCEPT ![i] = <<>>]
  /\ pc' = [pc EXCEPT ![i] = outcome]
  /\ awaiting' = awaiting \ {i}
  /\ UNCHANGED <<queued, home>>

ForgetThePubkeysAlone(i, outcome) ==
  /\ queued' = queued \ PubkeysOf(queue[i])
  /\ queue' = [queue EXCEPT ![i] = <<>>]
  /\ pc' = [pc EXCEPT ![i] = outcome]
  /\ awaiting' = awaiting \ {i}
  /\ UNCHANGED <<domainQueues, home>>

(* drainQueue's finally clause, forgetQueue(domain, queue.slice(reported)),*)
(* and the settling of its promise, which whenIdle's allSettled sees.      *)
Forget(i, outcome) ==
  /\ queued' = queued \ PubkeysOf(queue[i])
  /\ domainQueues' = [domainQueues EXCEPT ![home[i]] = NoDrain]
  /\ queue' = [queue EXCEPT ![i] = <<>>]
  /\ pc' = [pc EXCEPT ![i] = outcome]
  /\ awaiting' = awaiting \ {i}
  /\ UNCHANGED home

(* A bug: a pubkey that waits already is queued again.                     *)
MayVerifyAgain(p) == ~closing

(* verify(pubkey, nip05) returns at once for a queued pubkey; otherwise it *)
(* joins its domain's queue, or starts one.                                *)
MayVerify(p) == ~closing /\ p \notin queued

JoinQueue(c) ==
  LET i == domainQueues[c.nip05.domain] IN
  /\ MayVerify(c.pubkey) /\ i # NoDrain
  /\ queued' = queued \cup {c.pubkey}
  /\ queue' = [queue EXCEPT ![i] = Append(@, c)]
  /\ UNCHANGED <<domainQueues, home, pc, call, awaiting, hostVars>>

(* drainQueue runs up to its first await before verify returns.            *)
StartQueue(c, i) ==
  /\ MayVerify(c.pubkey) /\ domainQueues[c.nip05.domain] = NoDrain
  /\ pc[i] = "free" /\ ~aborted
  /\ queued' = queued \cup {c.pubkey}
  /\ domainQueues' = [domainQueues EXCEPT ![c.nip05.domain] = i]
  /\ queue' = [queue EXCEPT ![i] = <<c>>]
  /\ home' = [home EXCEPT ![i] = c.nip05.domain]
  /\ pc' = [pc EXCEPT ![i] = "lookup"]
  /\ UNCHANGED <<call, awaiting, hostVars>>

(* With the signal aborted it runs to its end instead: the pubkey is added *)
(* and forgotten again, and only a settled promise is left.                *)
StartAborted(c, i) ==
  /\ MayVerify(c.pubkey) /\ domainQueues[c.nip05.domain] = NoDrain
  /\ pc[i] = "free" /\ aborted
  /\ home' = [home EXCEPT ![i] = c.nip05.domain]
  /\ pc' = [pc EXCEPT ![i] = "resolved"]
  /\ UNCHANGED <<queued, domainQueues, queue, call, awaiting, hostVars>>

(* A bug: the signal is not looked at after the await.                     *)
TellListenerAnyway(i) ==
  /\ pc[i] = "lookup" /\ call = NoCall
  /\ queued' = queued \ {Head(queue[i]).pubkey}
  /\ queue' = [queue EXCEPT ![i] = Tail(@)]
  /\ pc' = [pc EXCEPT ![i] = "listener"]
  /\ call' = [on |-> "onVerified", of |-> i,
              pubkey |-> Head(queue[i]).pubkey, verified |-> TRUE]
  /\ UNCHANGED <<domainQueues, home, awaiting, hostVars>>

(* resolveNip05 settles and drainQueue resumes.  The verdict is onVerified *)
(* with either answer, or onLookupFailed when the domain gave none; an     *)
(* abort meanwhile ends the drain without a call.                          *)
TellListener(i) ==
  /\ pc[i] = "lookup" /\ call = NoCall /\ ~aborted
  /\ queued' = queued \ {Head(queue[i]).pubkey}
  /\ queue' = [queue EXCEPT ![i] = Tail(@)]
  /\ pc' = [pc EXCEPT ![i] = "listener"]
  /\ call' \in {[on |-> "onVerified", of |-> i,
                 pubkey |-> Head(queue[i]).pubkey, verified |-> verified] :
                   verified \in BOOLEAN}
               \cup {[on |-> "onLookupFailed", of |-> i,
                      pubkey |-> Head(queue[i]).pubkey, verified |-> FALSE]}
  /\ UNCHANGED <<domainQueues, home, awaiting, hostVars>>

StopOnAbort(i) ==
  /\ pc[i] = "lookup" /\ call = NoCall /\ aborted
  /\ Forget(i, "resolved")
  /\ UNCHANGED <<call, hostVars>>

LookupSettles(i) == TellListener(i) \/ StopOnAbort(i)

(* The HTTP client, or anything else resolveNip05 calls, throws.           *)
LookupThrows(i) ==
  /\ pc[i] = "lookup" /\ call = NoCall
  /\ Forget(i, "rejected")
  /\ UNCHANGED <<call, hostVars>>

(* onVerified or onLookupFailed returns and the loop goes on to the next   *)
(* entry, or ends: no entry is left, or the signal aborted.                *)
ListenerReturns(i) ==
  /\ pc[i] = "listener"
  /\ call' = NoCall
  /\ IF queue[i] # <<>> /\ ~aborted
     THEN /\ pc' = [pc EXCEPT ![i] = "lookup"]
          /\ UNCHANGED <<queued, domainQueues, queue, home, awaiting>>
     ELSE Forget(i, "resolved")
  /\ UNCHANGED hostVars

ListenerThrows(i) ==
  /\ pc[i] = "listener"
  /\ call' = NoCall
  /\ Forget(i, "rejected")
  /\ UNCHANGED hostVars

-----------------------------------------------------------------------------
(* promise.catch(listener.onError).finally(() => inFlight.delete(promise)) *)
RunCatch(i) ==
  /\ pc[i] = "rejected" /\ call = NoCall
  /\ call' = [on |-> "onError", of |-> i]
  /\ UNCHANGED <<queued, domainQueues, queue, home, pc, awaiting, hostVars>>

(* onError returns or throws: .finally runs either way.                    *)
OnErrorEnds(i) ==
  /\ call = [on |-> "onError", of |-> i]
  /\ call' = NoCall
  /\ pc' = [pc EXCEPT ![i] = "caught"]
  /\ UNCHANGED <<queued, domainQueues, queue, home, awaiting, hostVars>>

(* A bug: .then in place of .finally.                                      *)
RunThen(i) ==
  /\ pc[i] = "resolved" /\ call = NoCall
  /\ pc' = [pc EXCEPT ![i] = "free"]
  /\ UNCHANGED <<queued, domainQueues, queue, home, call, awaiting, hostVars>>

RunFinally(i) ==
  /\ pc[i] \in {"resolved", "caught"} /\ call = NoCall
  /\ pc' = [pc EXCEPT ![i] = "free"]
  /\ UNCHANGED <<queued, domainQueues, queue, home, call, awaiting, hostVars>>

(* whenIdle: while (inFlight.size > 0) await Promise.allSettled(inFlight). *)
(* A call that finds nothing in flight resolves without waiting.           *)
CallWhenIdle ==
  /\ idle = "off" /\ InFlight # {}
  /\ idle' = "awaiting"
  /\ awaiting' = Draining
  /\ UNCHANGED <<queued, domainQueues, queue, home, pc, call, aborted, closing>>

(* A bug: whenIdle waits once.                                             *)
ResumeWhenIdleOnce ==
  /\ idle = "awaiting" /\ awaiting = {} /\ call = NoCall
  /\ idle' = "off"
  /\ UNCHANGED <<queued, domainQueues, queue, home, pc, call, aborted, awaiting, closing>>

ResumeWhenIdle ==
  /\ idle = "awaiting" /\ awaiting = {} /\ call = NoCall
  /\ IF InFlight = {}
     THEN idle' = "off" /\ UNCHANGED awaiting
     ELSE awaiting' = Draining /\ UNCHANGED idle
  /\ UNCHANGED <<queued, domainQueues, queue, home, pc, call, aborted, closing>>

(* The host aborts the signal, from anywhere, its callbacks included.      *)
Abort ==
  /\ ~aborted /\ aborted' = TRUE
  /\ UNCHANGED <<queued, domainQueues, queue, home, pc, call, idle, awaiting,
                 closing>>

(* The host is shutting down: it calls verify no more.                     *)
Close ==
  /\ ~closing /\ closing' = TRUE
  /\ UNCHANGED <<queued, domainQueues, queue, home, pc, call, aborted, idle,
                 awaiting>>

Verify(c) ==
  JoinQueue(c) \/ (\E i \in Drains : StartQueue(c, i) \/ StartAborted(c, i))

Next ==
  \/ \E c \in Claim : Verify(c)
  \/ \E i \in Drains :
       \/ LookupSettles(i) \/ LookupThrows(i)
       \/ ListenerReturns(i) \/ ListenerThrows(i)
       \/ RunCatch(i) \/ OnErrorEnds(i) \/ RunFinally(i)
  \/ CallWhenIdle \/ ResumeWhenIdle \/ Abort \/ Close

Spec == Init /\ [][Next]_vars

(* Every lookup settles, because its signal has a deadline; callbacks of   *)
(* the host return or throw; and the job queue runs every settled job,     *)
(* which other jobs can only delay: strong fairness for a job that is not  *)
(* enabled while a listener call runs.                                     *)
Fairness ==
  /\ \A i \in Drains :
       /\ SF_vars(LookupSettles(i) \/ LookupThrows(i))
       /\ WF_vars(ListenerReturns(i) \/ ListenerThrows(i))
       /\ SF_vars(RunCatch(i))
       /\ WF_vars(OnErrorEnds(i))
       /\ SF_vars(RunFinally(i))
  /\ SF_vars(ResumeWhenIdle)

FairSpec == Spec /\ Fairness
-----------------------------------------------------------------------------
(* A pubkey is in the queued set exactly while one claim of it waits for   *)
(* its report, in one place of one queue: verify can neither be refused    *)
(* for ever (a pubkey left behind by forgetQueue) nor look one pubkey up   *)
(* twice at once.                                                          *)
QueuedExactlyOnce ==
  /\ queued = UNION {PubkeysOf(queue[i]) : i \in Drains}
  /\ \A i, j \in Drains : \A k \in 1..Len(queue[i]), l \in 1..Len(queue[j]) :
       queue[i][k].pubkey = queue[j][l].pubkey => i = j /\ k = l

(* A domain is marked busy exactly while one drain works on it, and that   *)
(* drain holds only claims on the domain: lookups are serialised per       *)
(* domain, and a fault or an abort never leaves a domain busy with nobody  *)
(* draining it (ADR-0018).                                                 *)
BusyDomainIsDrained ==
  /\ \A d \in Domains : domainQueues[d] # NoDrain =>
       domainQueues[d] \in Draining /\ home[domainQueues[d]] = d
  /\ \A i \in Drains : IF i \in Draining THEN domainQueues[home[i]] = i
                                         ELSE queue[i] = <<>>
  /\ \A i \in Drains : \A k \in 1..Len(queue[i]) :
       queue[i][k].nip05.domain = home[i]

(* No verdict is reported once the signal has aborted, in whatever order   *)
(* the abort and the answer of a lookup in flight arrive.                  *)
NoVerdictAfterAbort ==
  [][aborted /\ call' # call /\ call' # NoCall => call'.on = "onError"]_vars

(* When whenIdle resolves, every claim has been reported or dropped, no    *)
(* domain is busy, and every fault has reached onError.                    *)
WhenIdleIsIdle ==
  [][idle = "awaiting" /\ idle' = "off" =>
       /\ queued = {}
       /\ \A d \in Domains : domainQueues[d] = NoDrain
       /\ \A i \in Drains : pc[i] # "rejected"]_vars

(* Every claim that was accepted is reported or dropped, and every fault   *)
(* of a queued lookup reaches the host's onError.                          *)
EveryClaimSettles ==
  /\ \A p \in Pubkeys : p \in queued ~> p \notin queued
  /\ \A i \in Drains : pc[i] = "rejected" ~> call = [on |-> "onError", of |-> i]

(* A host that stops calling verify gets its whenIdle answered.            *)
ShutdownDrains == (closing /\ idle = "awaiting") ~> idle = "off"

-----------------------------------------------------------------------------
(* The verifier implements the promise of Nip05Lookups: a domain's line is *)
(* the unreported part of its queue, and a fault is owed while its promise *)
(* is rejected and onError has not run to its end.                         *)
toldBar ==
  IF call = NoCall THEN NoCall
  ELSE IF call.on = "onError" THEN [on |-> "onError", fault |-> call.of]
  ELSE [on |-> call.on, pubkey |-> call.pubkey, verified |-> call.verified,
        domain |-> home[call.of]]

linesBar == [d \in Domains |-> IF domainQueues[d] = NoDrain THEN <<>>
                               ELSE queue[domainQueues[d]]]
owedBar == {i \in Drains : pc[i] = "rejected"}
idleBar == idle = "awaiting"

Lookups == INSTANCE Nip05Lookups WITH
  Faults <- Drains, lines <- linesBar, owed <- owedBar, told <- toldBar, idle <- idleBar

(* Every behaviour of the verifier is one its documentation allows.        *)
KeepsThePromise == Lookups!Spec
=============================================================================
