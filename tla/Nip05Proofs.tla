----------------------------- MODULE Nip05Proofs -----------------------------
(***************************************************************************)
(* Proofs about NIP-05, from the queues of claims to the exchange over     *)
(* HTTP that answers one.                                                  *)
(*                                                                         *)
(* Nip05Verifier, for every set of pubkeys, domains and drains: type       *)
(* correctness, the bookkeeping invariants of the queues, and the promises *)
(* that rest on them, NoVerdictAfterAbort, WhenIdleIsIdle and              *)
(* KeepsThePromise.                                                        *)
(*                                                                         *)
(* FetchHttpClient and Nip05Resolver: isPrivateHost refuses every internal *)
(* address and no other, for all 2^32 IPv4 and all 2^128 IPv6 addresses,   *)
(* where the runs try the edges of the ranges; and what holds of every     *)
(* exchange, whatever hosts, responses, ceilings, readers and chunks there *)
(* are, and of what the NIP-05 resolver makes of it.                       *)
(***************************************************************************)
EXTENDS Nip05Verifier, Nip05Resolver, SequenceTheorems, TLAPS

(* The listener call in progress belongs to the drain it was made by.      *)
CallMatchesDrain ==
  /\ \A i \in Drains : pc[i] = "listener" <=> call \in Verdicts /\ call.of = i
  /\ call \in FaultCalls => pc[call.of] = "rejected"

(* A drain that awaits a lookup has the entry it looks up.                 *)
LookupHasEntry == \A i \in Drains : pc[i] = "lookup" => queue[i] # <<>>

(* The inductive invariant: the two bookkeeping invariants need to know    *)
(* which drain a listener call returns to and that a lookup has an entry.  *)
IInv ==
  /\ TypeOK
  /\ QueuedExactlyOnce
  /\ BusyDomainIsDrained
  /\ CallMatchesDrain
  /\ LookupHasEntry

-----------------------------------------------------------------------------
(* Facts about sequences of claims.                                        *)

LEMMA AppendFacts ==
  ASSUME NEW s \in Seq(Claim), NEW c \in Claim
  PROVE  /\ Append(s, c) \in Seq(Claim)
         /\ Append(s, c) # <<>>
         /\ Len(Append(s, c)) = Len(s) + 1
         /\ \A k \in 1..Len(s) : Append(s, c)[k] = s[k]
         /\ Append(s, c)[Len(s) + 1] = c
  OBVIOUS

LEMMA TailFacts ==
  ASSUME NEW s \in Seq(Claim), s # <<>>
  PROVE  /\ Tail(s) \in Seq(Claim)
         /\ Head(s) \in Claim
         /\ Head(s) = s[1]
         /\ Len(s) \in Nat \ {0}
         /\ Len(Tail(s)) = Len(s) - 1
         /\ \A k \in 1..(Len(s) - 1) : Tail(s)[k] = s[k + 1]
  OBVIOUS

LEMMA CallShapes ==
  /\ NoCall \notin Verdicts /\ NoCall \notin FaultCalls
  /\ Verdicts \cap FaultCalls = {}
  BY DEF NoCall, Verdicts, FaultCalls

-----------------------------------------------------------------------------
(* What a pubkey is queued for, when a claim joins, is reported, or when a *)
(* queue is dropped.                                                       *)
NoRepeats(s) == \A k, l \in 1..Len(s) : s[k].pubkey = s[l].pubkey => k = l

LEMMA PubkeysOfEmpty == PubkeysOf(<<>>) = {}
  BY DEF PubkeysOf

LEMMA PubkeysOfOne ==
  ASSUME NEW c \in Claim
  PROVE  PubkeysOf(<<c>>) = {c.pubkey} /\ NoRepeats(<<c>>)
<1>1. Len(<<c>>) = 1 /\ <<c>>[1] = c
  OBVIOUS
<1>. QED BY <1>1 DEF PubkeysOf, NoRepeats

LEMMA PubkeysOfAppend ==
  ASSUME NEW s \in Seq(Claim), NEW c \in Claim
  PROVE  /\ PubkeysOf(Append(s, c)) = PubkeysOf(s) \cup {c.pubkey}
         /\ NoRepeats(s) /\ c.pubkey \notin PubkeysOf(s)
              => NoRepeats(Append(s, c))
<1>. DEFINE t == Append(s, c)
<1>1. /\ Len(s) \in Nat /\ Len(t) = Len(s) + 1 /\ t[Len(s) + 1] = c
      /\ \A k \in 1..Len(s) : t[k] = s[k]
  BY AppendFacts
<1>. HIDE DEF t
<1>2. \A k \in 1..Len(t) : k \in 1..Len(s) \/ k = Len(s) + 1
  BY <1>1
<1>3. PubkeysOf(t) = PubkeysOf(s) \cup {c.pubkey}
  <2>1. PubkeysOf(t) \subseteq PubkeysOf(s) \cup {c.pubkey}
    BY <1>1, <1>2 DEF PubkeysOf
  <2>2. PubkeysOf(s) \subseteq PubkeysOf(t)
    BY <1>1 DEF PubkeysOf
  <2>3. c.pubkey \in PubkeysOf(t)
    BY <1>1 DEF PubkeysOf
  <2>. QED BY <2>1, <2>2, <2>3
<1>4. NoRepeats(s) /\ c.pubkey \notin PubkeysOf(s) => NoRepeats(t)
  BY <1>1, <1>2 DEF PubkeysOf, NoRepeats
<1>. QED BY <1>3, <1>4 DEF t

LEMMA PubkeysOfTail ==
  ASSUME NEW s \in Seq(Claim), s # <<>>
  PROVE  /\ PubkeysOf(s) = PubkeysOf(Tail(s)) \cup {Head(s).pubkey}
         /\ NoRepeats(s) => /\ NoRepeats(Tail(s))
                            /\ Head(s).pubkey \notin PubkeysOf(Tail(s))
<1>. DEFINE t == Tail(s)
            h == Head(s)
<1>1. /\ Len(s) \in Nat \ {0} /\ Len(t) = Len(s) - 1 /\ h = s[1]
      /\ \A k \in 1..Len(t) : t[k] = s[k + 1] /\ k + 1 \in 1..Len(s)
  BY TailFacts
<1>. HIDE DEF t, h
<1>2. \A k \in 1..Len(s) : k = 1 \/ (k - 1 \in 1..Len(t) /\ t[k - 1] = s[k])
  <2>. SUFFICES ASSUME NEW k \in 1..Len(s), k # 1
                PROVE  k - 1 \in 1..Len(t) /\ t[k - 1] = s[k]
    OBVIOUS
  <2>1. k - 1 \in 1..Len(t) /\ (k - 1) + 1 = k
    BY <1>1
  <2>. QED BY <2>1, <1>1
<1>3. PubkeysOf(s) = PubkeysOf(t) \cup {h.pubkey}
  <2>1. PubkeysOf(s) \subseteq PubkeysOf(t) \cup {h.pubkey}
    BY <1>1, <1>2 DEF PubkeysOf
  <2>2. PubkeysOf(t) \subseteq PubkeysOf(s)
    BY <1>1 DEF PubkeysOf
  <2>3. h.pubkey \in PubkeysOf(s)
    BY <1>1 DEF PubkeysOf
  <2>. QED BY <2>1, <2>2, <2>3
<1>4. NoRepeats(s) => NoRepeats(t)
  BY <1>1 DEF NoRepeats
<1>5. NoRepeats(s) => h.pubkey \notin PubkeysOf(t)
  <2>. SUFFICES ASSUME NoRepeats(s), NEW k \in 1..Len(t), h.pubkey = t[k].pubkey
                PROVE  FALSE
    BY DEF PubkeysOf
  <2>1. k + 1 \in 1..Len(s) /\ 1 \in 1..Len(s) /\ s[k + 1].pubkey = s[1].pubkey
    BY <1>1
  <2>2. k + 1 # 1
    OBVIOUS
  <2>. QED BY <2>1, <2>2 DEF NoRepeats
<1>. QED BY <1>3, <1>4, <1>5 DEF t, h

(* The second half of QueuedExactlyOnce, by sets of pubkeys.               *)
Apart == /\ \A i \in Drains : NoRepeats(queue[i])
         /\ \A i, j \in Drains :
              i # j => PubkeysOf(queue[i]) \cap PubkeysOf(queue[j]) = {}

Accounted == queued = UNION {PubkeysOf(queue[i]) : i \in Drains}

LEMMA ApartMeansOnce == QueuedExactlyOnce <=> Accounted /\ Apart
<1>. DEFINE Once == \A i, j \in Drains :
                     \A k \in 1..Len(queue[i]), l \in 1..Len(queue[j]) :
                       queue[i][k].pubkey = queue[j][l].pubkey => i = j /\ k = l
<1>1. ASSUME Once PROVE Apart
  <2>1. \A i \in Drains : NoRepeats(queue[i])
    BY <1>1 DEF NoRepeats
  <2>2. ASSUME NEW i \in Drains, NEW j \in Drains, i # j,
               NEW k \in 1..Len(queue[i]), NEW l \in 1..Len(queue[j])
        PROVE  queue[i][k].pubkey # queue[j][l].pubkey
    BY <1>1, <2>2
  <2>. QED BY <2>1, <2>2 DEF Apart, PubkeysOf
<1>2. ASSUME Apart, NEW i \in Drains, NEW j \in Drains,
             NEW k \in 1..Len(queue[i]), NEW l \in 1..Len(queue[j]),
             queue[i][k].pubkey = queue[j][l].pubkey
      PROVE  i = j /\ k = l
  <2>1. /\ queue[i][k].pubkey \in PubkeysOf(queue[i])
        /\ queue[j][l].pubkey \in PubkeysOf(queue[j])
    BY DEF PubkeysOf
  <2>2. i = j
    BY <1>2, <2>1 DEF Apart
  <2>. QED BY <1>2, <2>2 DEF Apart, NoRepeats
<1>. QED BY <1>1, <1>2 DEF QueuedExactlyOnce, Accounted

LEMMA ApartMeansOnceNext == QueuedExactlyOnce' <=> Accounted' /\ Apart'
  BY ApartMeansOnce, PTL

-----------------------------------------------------------------------------
(* Each action preserves the invariant.                                    *)

LEMMA JoinQueueKeeps ==
  ASSUME IInv, NEW c \in Claim, JoinQueue(c)
  PROVE  IInv'
<1>. DEFINE i == domainQueues[c.nip05.domain]
<1>. USE DEF hostVars
<1>1. c.pubkey \in Pubkeys /\ c.nip05.domain \in Domains
  BY DEF Claim, Nip05Id
<1>2. /\ i \in Draining /\ home[i] = c.nip05.domain
      /\ c.pubkey \notin queued /\ queued' = queued \cup {c.pubkey}
      /\ queue' = [queue EXCEPT ![i] = Append(@, c)]
      /\ UNCHANGED <<domainQueues, home, pc, call, awaiting, aborted, idle, closing>>
  BY <1>1 DEF JoinQueue, MayVerify, IInv, BusyDomainIsDrained
<1>. HIDE DEF i
<1>3. i \in Drains /\ queue[i] \in Seq(Claim)
  BY <1>2 DEF IInv, TypeOK, Draining
<1>4. /\ queue'[i] = Append(queue[i], c)
      /\ \A j \in Drains \ {i} : queue'[j] = queue[j]
      /\ queue' \in [Drains -> Seq(Claim)]
  BY <1>2, <1>3, AppendFacts DEF IInv, TypeOK
<1>5. TypeOK'
  BY <1>1, <1>2, <1>4 DEF IInv, TypeOK
<1>6. QueuedExactlyOnce'
  <2>1. queued = UNION {PubkeysOf(queue[j]) : j \in Drains} /\ Apart
    BY ApartMeansOnce DEF IInv, Accounted
  <2>2. \A j \in Drains : c.pubkey \notin PubkeysOf(queue[j])
    BY <1>2, <2>1
  <2>3. PubkeysOf(queue'[i]) = PubkeysOf(queue[i]) \cup {c.pubkey}
    BY <1>3, <1>4, PubkeysOfAppend
  <2>4. NoRepeats(queue'[i])
    BY <1>3, <1>4, <2>1, <2>2, PubkeysOfAppend DEF Apart
  <2>5. queued' = UNION {PubkeysOf(queue'[j]) : j \in Drains}
    <3>1. ASSUME NEW p \in queued' PROVE \E j \in Drains : p \in PubkeysOf(queue'[j])
      BY <1>2, <1>3, <1>4, <2>1, <2>3
    <3>2. ASSUME NEW j \in Drains, NEW p \in PubkeysOf(queue'[j]) PROVE p \in queued'
      BY <1>2, <1>3, <1>4, <2>1, <2>3
    <3>. QED BY <3>1, <3>2
  <2>6. \A j \in Drains : NoRepeats(queue'[j])
    BY <1>4, <2>1, <2>4 DEF Apart
  <2>7. ASSUME NEW j \in Drains, NEW k \in Drains, j # k,
               NEW p \in PubkeysOf(queue'[j]), p \in PubkeysOf(queue'[k])
        PROVE  FALSE
    <3>1. CASE j # i /\ k # i
      BY <1>4, <2>1, <2>7, <3>1 DEF Apart
    <3>2. CASE j = i
      BY <1>4, <2>1, <2>2, <2>3, <2>7, <3>2 DEF Apart
    <3>3. CASE k = i
      BY <1>4, <2>1, <2>2, <2>3, <2>7, <3>3 DEF Apart
    <3>. QED BY <3>1, <3>2, <3>3
  <2>. QED BY <2>5, <2>6, <2>7, ApartMeansOnceNext DEF Apart, Accounted
<1>7. BusyDomainIsDrained'
  <2>1. Draining' = Draining
    BY <1>2 DEF Draining
  <2>2. ASSUME NEW k \in 1..Len(queue'[i])
        PROVE  queue'[i][k].nip05.domain = home[i]
    <3>1. \A l \in 1..Len(queue[i]) : queue[i][l].nip05.domain = home[i]
      BY <1>3 DEF IInv, BusyDomainIsDrained
    <3>2. /\ Len(queue[i]) \in Nat /\ Len(queue'[i]) = Len(queue[i]) + 1
          /\ \A l \in 1..Len(queue[i]) : queue'[i][l] = queue[i][l]
          /\ queue'[i][Len(queue[i]) + 1] = c
      BY <1>3, <1>4, AppendFacts
    <3>. QED BY <1>2, <3>1, <3>2
  <2>3. \A e \in Domains : domainQueues'[e] # NoDrain =>
          domainQueues'[e] \in Draining' /\ home'[domainQueues'[e]] = e
    BY <1>2, <2>1 DEF IInv, BusyDomainIsDrained
  <2>4. \A j \in Drains : IF j \in Draining' THEN domainQueues'[home'[j]] = j
                                             ELSE queue'[j] = <<>>
    BY <1>2, <1>4, <2>1 DEF IInv, BusyDomainIsDrained
  <2>5. \A j \in Drains : \A k \in 1..Len(queue'[j]) :
          queue'[j][k].nip05.domain = home'[j]
    BY <1>2, <1>4, <2>2 DEF IInv, BusyDomainIsDrained
  <2>. QED BY <2>3, <2>4, <2>5 DEF BusyDomainIsDrained
<1>8. CallMatchesDrain' /\ LookupHasEntry'
  BY <1>2, <1>3, <1>4, AppendFacts DEF IInv, CallMatchesDrain, LookupHasEntry
<1>. QED BY <1>5, <1>6, <1>7, <1>8 DEF IInv

LEMMA StartQueueKeeps ==
  ASSUME IInv, NEW c \in Claim, NEW i \in Drains, StartQueue(c, i)
  PROVE  IInv'
<1>. DEFINE d == c.nip05.domain
<1>. USE DEF hostVars
<1>1. c.pubkey \in Pubkeys /\ d \in Domains /\ <<c>> \in Seq(Claim)
  BY DEF Claim, Nip05Id
<1>2. /\ c.pubkey \notin queued /\ queued' = queued \cup {c.pubkey}
      /\ domainQueues[d] = NoDrain /\ pc[i] = "free" /\ queue[i] = <<>>
      /\ domainQueues' = [domainQueues EXCEPT ![d] = i]
      /\ queue' = [queue EXCEPT ![i] = <<c>>]
      /\ home' = [home EXCEPT ![i] = d]
      /\ pc' = [pc EXCEPT ![i] = "lookup"]
      /\ UNCHANGED <<call, awaiting, aborted, idle, closing>>
  BY DEF StartQueue, MayVerify, IInv, BusyDomainIsDrained, Draining
<1>3. <<c>> # <<>> /\ Len(<<c>>) = 1 /\ <<c>>[1] = c
  OBVIOUS
<1>. HIDE DEF d
<1>4. /\ queue'[i] = <<c>> /\ \A j \in Drains \ {i} : queue'[j] = queue[j]
      /\ home'[i] = d /\ \A j \in Drains \ {i} : home'[j] = home[j]
      /\ pc'[i] = "lookup" /\ \A j \in Drains \ {i} : pc'[j] = pc[j]
      /\ domainQueues'[d] = i
      /\ \A e \in Domains \ {d} : domainQueues'[e] = domainQueues[e]
  BY <1>1, <1>2 DEF IInv, TypeOK
<1>5. TypeOK'
  BY <1>1, <1>2 DEF IInv, TypeOK, States
<1>6. QueuedExactlyOnce'
  <2>1. queued = UNION {PubkeysOf(queue[j]) : j \in Drains} /\ Apart
    BY ApartMeansOnce DEF IInv, Accounted
  <2>2. \A j \in Drains : c.pubkey \notin PubkeysOf(queue[j])
    BY <1>2, <2>1
  <2>3. /\ PubkeysOf(queue'[i]) = {c.pubkey} /\ NoRepeats(queue'[i])
        /\ PubkeysOf(queue[i]) = {}
    BY <1>2, <1>4, PubkeysOfOne, PubkeysOfEmpty
  <2>4. queued' = UNION {PubkeysOf(queue'[j]) : j \in Drains}
    BY <1>2, <1>4, <2>1, <2>3
  <2>5. Apart'
    BY <1>4, <2>1, <2>2, <2>3 DEF Apart
  <2>. QED BY <2>4, <2>5, ApartMeansOnceNext DEF Accounted
<1>7. BusyDomainIsDrained'
  <2>1. Draining' = Draining \cup {i} /\ i \notin Draining
    BY <1>2, <1>4 DEF Draining
  <2>2. \A e \in Domains : domainQueues'[e] # NoDrain =>
          domainQueues'[e] \in Draining' /\ home'[domainQueues'[e]] = e
    BY <1>4, <2>1 DEF IInv, BusyDomainIsDrained, Draining
  <2>3. \A j \in Draining : home[j] # d
    BY <1>2, NoDrainAssumption DEF IInv, BusyDomainIsDrained, Draining
  <2>4. \A j \in Drains : IF j \in Draining' THEN domainQueues'[home'[j]] = j
                                             ELSE queue'[j] = <<>>
    BY <1>4, <2>1, <2>3 DEF IInv, BusyDomainIsDrained, TypeOK
  <2>5. \A j \in Drains : \A k \in 1..Len(queue'[j]) :
          queue'[j][k].nip05.domain = home'[j]
    BY <1>3, <1>4 DEF IInv, BusyDomainIsDrained, d
  <2>. QED BY <2>2, <2>4, <2>5 DEF BusyDomainIsDrained
<1>8. CallMatchesDrain' /\ LookupHasEntry'
  BY <1>2, <1>3, <1>4 DEF IInv, CallMatchesDrain, LookupHasEntry, FaultCalls
<1>. QED BY <1>5, <1>6, <1>7, <1>8 DEF IInv

(* Forget, as drainQueue's finally clause, whatever else its action does.  *)
LEMMA ForgetKeeps ==
  ASSUME IInv, NEW i \in Drains, i \in Draining,
         NEW s \in {"resolved", "rejected"}, Forget(i, s)
  PROVE  /\ queued' \in SUBSET Pubkeys
         /\ domainQueues' \in [Domains -> Drains \cup {NoDrain}]
         /\ queue' \in [Drains -> Seq(Claim)]
         /\ home' \in [Drains -> Domains]
         /\ pc' \in [Drains -> States]
         /\ awaiting' \in SUBSET Drains
         /\ QueuedExactlyOnce' /\ BusyDomainIsDrained' /\ LookupHasEntry'
<1>1. <<>> \in Seq(Claim) /\ Len(<<>>) = 0
  OBVIOUS
<1>2. /\ queue'[i] = <<>> /\ \A j \in Drains \ {i} : queue'[j] = queue[j]
      /\ pc'[i] = s /\ \A j \in Drains \ {i} : pc'[j] = pc[j]
      /\ domainQueues'[home[i]] = NoDrain
      /\ \A e \in Domains \ {home[i]} : domainQueues'[e] = domainQueues[e]
      /\ queued' = queued \ PubkeysOf(queue[i]) /\ home' = home
  BY DEF Forget, IInv, TypeOK
<1>3. QueuedExactlyOnce'
  <2>1. queued = UNION {PubkeysOf(queue[j]) : j \in Drains} /\ Apart
    BY ApartMeansOnce DEF IInv, Accounted
  <2>2. PubkeysOf(queue'[i]) = {} /\ NoRepeats(queue'[i])
    BY <1>1, <1>2, PubkeysOfEmpty DEF NoRepeats
  <2>3. queued' = UNION {PubkeysOf(queue'[j]) : j \in Drains}
    <3>1. ASSUME NEW p \in queued' PROVE \E j \in Drains : p \in PubkeysOf(queue'[j])
      BY <1>2, <2>1
    <3>2. ASSUME NEW j \in Drains, NEW p \in PubkeysOf(queue'[j]) PROVE p \in queued'
      BY <1>2, <2>1, <2>2 DEF Apart
    <3>. QED BY <3>1, <3>2
  <2>4. Apart'
    BY <1>2, <2>1, <2>2 DEF Apart
  <2>. QED BY <2>3, <2>4, ApartMeansOnceNext DEF Accounted
<1>4. BusyDomainIsDrained'
  <2>1. Draining' = Draining \ {i}
    BY <1>2 DEF Draining
  <2>2. domainQueues[home[i]] = i /\ home[i] \in Domains
    BY DEF IInv, BusyDomainIsDrained, TypeOK
  <2>3. \A e \in Domains : domainQueues'[e] # NoDrain =>
          domainQueues'[e] \in Draining' /\ home'[domainQueues'[e]] = e
    BY <1>2, <2>1, <2>2 DEF IInv, BusyDomainIsDrained
  <2>4. \A j \in Drains : IF j \in Draining' THEN domainQueues'[home'[j]] = j
                                             ELSE queue'[j] = <<>>
    BY <1>2, <2>1, <2>2 DEF IInv, BusyDomainIsDrained, TypeOK
  <2>5. \A j \in Drains : \A k \in 1..Len(queue'[j]) :
          queue'[j][k].nip05.domain = home'[j]
    BY <1>1, <1>2 DEF IInv, BusyDomainIsDrained
  <2>. QED BY <2>3, <2>4, <2>5 DEF BusyDomainIsDrained
<1>5. LookupHasEntry'
  BY <1>2 DEF IInv, LookupHasEntry
<1>. QED BY <1>1, <1>3, <1>4, <1>5 DEF Forget, IInv, TypeOK, States

LEMMA TellListenerKeeps ==
  ASSUME IInv, NEW i \in Drains, TellListener(i)
  PROVE  IInv'
<1>. DEFINE h == Head(queue[i]).pubkey
<1>. USE DEF hostVars
<1>1. /\ queue[i] # <<>> /\ queue[i] \in Seq(Claim) /\ i \in Draining
      /\ h \in Pubkeys /\ Tail(queue[i]) \in Seq(Claim)
  <2>1. queue[i] # <<>> /\ queue[i] \in Seq(Claim) /\ i \in Draining
    BY DEF TellListener, IInv, LookupHasEntry, TypeOK, Draining
  <2>. QED BY <2>1, TailFacts DEF Claim
<1>2. /\ queue'[i] = Tail(queue[i]) /\ \A j \in Drains \ {i} : queue'[j] = queue[j]
      /\ pc'[i] = "listener" /\ \A j \in Drains \ {i} : pc'[j] = pc[j]
      /\ queued' = queued \ {h} /\ UNCHANGED <<domainQueues, home>>
  BY DEF TellListener, IInv, TypeOK
<1>3. call' \in Verdicts /\ call'.of = i
  <2>1. CASE \E verified \in BOOLEAN :
               call' = [on |-> "onVerified", of |-> i, pubkey |-> h,
                        verified |-> verified]
    BY <1>1, <2>1 DEF Verdicts
  <2>2. CASE call' = [on |-> "onLookupFailed", of |-> i, pubkey |-> h,
                      verified |-> FALSE]
    BY <1>1, <2>2 DEF Verdicts
  <2>. QED BY <2>1, <2>2 DEF TellListener
<1>. HIDE DEF h
<1>4. TypeOK'
  BY <1>1, <1>2, <1>3 DEF TellListener, IInv, TypeOK, States
<1>5. QueuedExactlyOnce'
  <2>1. queued = UNION {PubkeysOf(queue[j]) : j \in Drains} /\ Apart
    BY ApartMeansOnce DEF IInv, Accounted
  <2>2. /\ PubkeysOf(queue[i]) = PubkeysOf(queue'[i]) \cup {h}
        /\ NoRepeats(queue'[i]) /\ h \notin PubkeysOf(queue'[i])
    BY <1>1, <1>2, <2>1, PubkeysOfTail DEF Apart, h
  <2>3. queued' = UNION {PubkeysOf(queue'[j]) : j \in Drains}
    <3>1. ASSUME NEW p \in queued' PROVE \E j \in Drains : p \in PubkeysOf(queue'[j])
      BY <1>2, <2>1, <2>2
    <3>2. ASSUME NEW j \in Drains, NEW p \in PubkeysOf(queue'[j]) PROVE p \in queued'
      BY <1>2, <2>1, <2>2 DEF Apart
    <3>. QED BY <3>1, <3>2
  <2>4. Apart'
    BY <1>2, <2>1, <2>2 DEF Apart
  <2>. QED BY <2>3, <2>4, ApartMeansOnceNext DEF Accounted
<1>6. BusyDomainIsDrained'
  <2>1. Draining' = Draining
    BY <1>1, <1>2 DEF Draining
  <2>2. \A k \in 1..Len(queue'[i]) : queue'[i][k].nip05.domain = home[i]
    <3>. SUFFICES ASSUME NEW k \in 1..Len(queue'[i])
                  PROVE  queue'[i][k].nip05.domain = home[i]
      OBVIOUS
    <3>1. k + 1 \in 1..Len(queue[i]) /\ queue'[i][k] = queue[i][k + 1]
      BY <1>1, <1>2, TailFacts
    <3>. QED BY <3>1 DEF IInv, BusyDomainIsDrained
  <2>3. \A j \in Drains : IF j \in Draining' THEN domainQueues'[home'[j]] = j
                                             ELSE queue'[j] = <<>>
    BY <1>1, <1>2, <2>1 DEF IInv, BusyDomainIsDrained
  <2>4. ASSUME NEW j \in Drains, NEW k \in 1..Len(queue'[j])
        PROVE  queue'[j][k].nip05.domain = home'[j]
    <3>1. CASE j = i
      BY <1>2, <2>2, <3>1
    <3>2. CASE j # i
      BY <1>2, <3>2 DEF IInv, BusyDomainIsDrained
    <3>. QED BY <3>1, <3>2
  <2>. QED BY <1>2, <2>1, <2>3, <2>4 DEF IInv, BusyDomainIsDrained
<1>7. CallMatchesDrain'
  BY <1>2, <1>3, CallShapes DEF TellListener, IInv, CallMatchesDrain
<1>8. LookupHasEntry'
  BY <1>2 DEF IInv, LookupHasEntry
<1>. QED BY <1>4, <1>5, <1>6, <1>7, <1>8 DEF IInv

LEMMA StartAbortedKeeps ==
  ASSUME IInv, NEW c \in Claim, NEW i \in Drains, StartAborted(c, i)
  PROVE  IInv'
<1>. USE DEF hostVars
<1>1. /\ c.nip05.domain \in Domains /\ pc[i] = "free" /\ queue[i] = <<>>
      /\ pc'[i] = "resolved" /\ \A j \in Drains \ {i} : pc'[j] = pc[j]
      /\ \A j \in Drains \ {i} : home'[j] = home[j]
      /\ UNCHANGED <<queued, domainQueues, queue, call>>
  <2>1. c.nip05.domain \in Domains
    BY DEF Claim, Nip05Id
  <2>2. pc[i] = "free" /\ UNCHANGED <<queued, domainQueues, queue, call>>
    BY DEF StartAborted
  <2>3. queue[i] = <<>>
    BY <2>2 DEF IInv, BusyDomainIsDrained, Draining
  <2>. QED BY <2>1, <2>2, <2>3 DEF StartAborted, IInv, TypeOK
<1>2. TypeOK'
  BY <1>1 DEF StartAborted, IInv, TypeOK, States
<1>3. QueuedExactlyOnce'
  BY <1>1 DEF IInv, QueuedExactlyOnce
<1>4. BusyDomainIsDrained'
  <2>1. Draining' = Draining /\ i \notin Draining
    BY <1>1 DEF Draining
  <2>2. Len(<<>>) = 0
    OBVIOUS
  <2>3. \A d \in Domains : domainQueues'[d] # NoDrain =>
          domainQueues'[d] \in Draining' /\ home'[domainQueues'[d]] = d
    BY <1>1, <2>1 DEF IInv, BusyDomainIsDrained, Draining
  <2>4. \A j \in Drains : IF j \in Draining' THEN domainQueues'[home'[j]] = j
                                             ELSE queue'[j] = <<>>
    BY <1>1, <2>1 DEF IInv, BusyDomainIsDrained
  <2>5. ASSUME NEW j \in Drains, NEW k \in 1..Len(queue'[j])
        PROVE  queue'[j][k].nip05.domain = home'[j]
    <3>1. j # i
      BY <1>1, <2>2, <2>5
    <3>. QED BY <1>1, <3>1 DEF IInv, BusyDomainIsDrained
  <2>. QED BY <2>3, <2>4, <2>5 DEF BusyDomainIsDrained
<1>5. CallMatchesDrain' /\ LookupHasEntry'
  BY <1>1 DEF IInv, CallMatchesDrain, LookupHasEntry, FaultCalls
<1>. QED BY <1>2, <1>3, <1>4, <1>5 DEF IInv

(* The three ways a drain ends: an abort, a fault, the end of its queue.   *)
LEMMA LookupEndsKeeps ==
  ASSUME IInv, NEW i \in Drains, StopOnAbort(i) \/ LookupThrows(i)
  PROVE  IInv'
<1>. USE DEF hostVars
<1>1. PICK s \in {"resolved", "rejected"} : Forget(i, s)
  BY DEF StopOnAbort, LookupThrows
<1>2. /\ pc[i] = "lookup" /\ i \in Draining /\ call = NoCall
      /\ UNCHANGED <<call, aborted, idle, closing>>
  BY DEF StopOnAbort, LookupThrows, Draining
<1>3. CallMatchesDrain'
  BY <1>1, <1>2, CallShapes DEF Forget, IInv, TypeOK, CallMatchesDrain
<1>. QED BY <1>1, <1>2, <1>3, ForgetKeeps DEF IInv, TypeOK

LEMMA ListenerEndsKeeps ==
  ASSUME IInv, NEW i \in Drains, ListenerReturns(i) \/ ListenerThrows(i)
  PROVE  IInv'
<1>. USE DEF hostVars
<1>1. /\ pc[i] = "listener" /\ i \in Draining /\ call \in Verdicts /\ call.of = i
      /\ call' = NoCall /\ UNCHANGED <<aborted, idle, closing>>
  BY DEF ListenerReturns, ListenerThrows, Draining, IInv, CallMatchesDrain
<1>2. \A j \in Drains : pc[j] = "listener" => j = i
  BY <1>1 DEF IInv, CallMatchesDrain
<1>3. CASE \E s \in {"resolved", "rejected"} : Forget(i, s)
  <2>1. PICK s \in {"resolved", "rejected"} : Forget(i, s)
    BY <1>3
  <2>2. CallMatchesDrain'
    BY <1>1, <1>2, <2>1, CallShapes DEF Forget, IInv, TypeOK, CallMatchesDrain
  <2>. QED BY <1>1, <2>1, <2>2, ForgetKeeps DEF IInv, TypeOK
<1>4. CASE /\ queue[i] # <<>> /\ pc' = [pc EXCEPT ![i] = "lookup"]
           /\ UNCHANGED <<queued, domainQueues, queue, home, awaiting>>
  <2>1. pc'[i] = "lookup" /\ \A j \in Drains \ {i} : pc'[j] = pc[j]
    BY <1>4 DEF IInv, TypeOK
  <2>2. TypeOK'
    BY <1>1, <1>4 DEF IInv, TypeOK, States
  <2>3. QueuedExactlyOnce'
    BY <1>4 DEF IInv, QueuedExactlyOnce
  <2>4. Draining' = Draining
    BY <1>1, <2>1 DEF Draining
  <2>5. BusyDomainIsDrained'
    BY <1>4, <2>4 DEF IInv, BusyDomainIsDrained
  <2>6. CallMatchesDrain' /\ LookupHasEntry'
    BY <1>1, <1>2, <1>4, <2>1, CallShapes
    DEF IInv, CallMatchesDrain, LookupHasEntry
  <2>. QED BY <2>2, <2>3, <2>5, <2>6 DEF IInv
<1>. QED BY <1>3, <1>4 DEF ListenerReturns, ListenerThrows

(* The reactions of a settled promise, and the host's own steps.           *)
LEMMA ReactionKeeps ==
  ASSUME IInv, NEW i \in Drains, RunCatch(i) \/ OnErrorEnds(i) \/ RunFinally(i)
  PROVE  IInv'
<1>. USE DEF hostVars
<1>. DEFINE Calls == {NoCall} \cup FaultCalls
<1>1. /\ UNCHANGED <<queued, domainQueues, queue, home, awaiting, aborted, idle, closing>>
      /\ call \in Calls /\ call' \in Calls
      /\ call' \in FaultCalls => pc'[call'.of] = "rejected"
      /\ pc' = pc \/ (\E s \in {"caught", "free"} : pc' = [pc EXCEPT ![i] = s])
      /\ pc[i] \notin {"lookup", "listener"}
  <2>1. CASE RunCatch(i)
    BY <2>1 DEF RunCatch, FaultCalls
  <2>2. CASE OnErrorEnds(i)
    <3>1. call = [on |-> "onError", of |-> i] /\ call \in FaultCalls /\ call.of = i
      BY <2>2 DEF OnErrorEnds, FaultCalls
    <3>2. pc[i] = "rejected"
      BY <3>1 DEF IInv, CallMatchesDrain
    <3>. QED BY <2>2, <3>1, <3>2, CallShapes DEF OnErrorEnds
  <2>3. CASE RunFinally(i)
    BY <2>3, CallShapes DEF RunFinally
  <2>. QED BY <2>1, <2>2, <2>3
<1>2. \A j \in Drains : \/ pc'[j] = pc[j]
                        \/ /\ pc'[j] \notin {"lookup", "listener"}
                           /\ pc[j] \notin {"lookup", "listener"}
  BY <1>1 DEF IInv, TypeOK
<1>3. TypeOK'
  BY <1>1 DEF IInv, TypeOK, States
<1>4. QueuedExactlyOnce'
  BY <1>1 DEF IInv, QueuedExactlyOnce
<1>5. Draining' = Draining
  BY <1>2 DEF Draining
<1>6. BusyDomainIsDrained'
  BY <1>1, <1>5 DEF IInv, BusyDomainIsDrained
<1>7. LookupHasEntry'
  BY <1>1, <1>2 DEF IInv, LookupHasEntry
<1>8. CallMatchesDrain'
  BY <1>1, <1>2, CallShapes DEF IInv, CallMatchesDrain
<1>. QED BY <1>3, <1>4, <1>6, <1>7, <1>8 DEF IInv

LEMMA HostKeeps ==
  ASSUME IInv, CallWhenIdle \/ ResumeWhenIdle \/ Abort \/ Close \/ UNCHANGED vars
  PROVE  IInv'
<1>1. UNCHANGED <<queued, domainQueues, queue, home, pc, call>>
  BY DEF CallWhenIdle, ResumeWhenIdle, Abort, Close, vars
<1>2. TypeOK'
  BY DEF CallWhenIdle, ResumeWhenIdle, Abort, Close, vars, IInv, TypeOK, Draining
<1>3. Draining' = Draining
  BY <1>1 DEF Draining
<1>. QED BY <1>1, <1>2, <1>3 DEF IInv, QueuedExactlyOnce, BusyDomainIsDrained,
                                 CallMatchesDrain, LookupHasEntry

-----------------------------------------------------------------------------
LEMMA InitHolds == Init => IInv
<1>. SUFFICES ASSUME Init PROVE IInv
  OBVIOUS
<1>1. <<>> \in Seq(Claim) /\ Len(<<>>) = 0
  OBVIOUS
<1>2. TypeOK
  BY <1>1 DEF Init, TypeOK, States
<1>3. QueuedExactlyOnce
  BY <1>1, PubkeysOfEmpty DEF Init, QueuedExactlyOnce
<1>4. BusyDomainIsDrained
  BY <1>1 DEF Init, BusyDomainIsDrained, Draining
<1>5. CallMatchesDrain /\ LookupHasEntry
  BY CallShapes DEF Init, CallMatchesDrain, LookupHasEntry
<1>. QED BY <1>2, <1>3, <1>4, <1>5 DEF IInv

LEMMA NextKeeps == IInv /\ [Next]_vars => IInv'
<1>. SUFFICES ASSUME IInv, [Next]_vars PROVE IInv'
  OBVIOUS
<1>1. ASSUME NEW c \in Claim, Verify(c) PROVE IInv'
  BY <1>1, JoinQueueKeeps, StartQueueKeeps, StartAbortedKeeps DEF Verify
<1>2. ASSUME NEW i \in Drains, LookupSettles(i) \/ LookupThrows(i) PROVE IInv'
  BY <1>2, TellListenerKeeps, LookupEndsKeeps DEF LookupSettles
<1>3. ASSUME NEW i \in Drains, ListenerReturns(i) \/ ListenerThrows(i) PROVE IInv'
  BY <1>3, ListenerEndsKeeps
<1>4. ASSUME NEW i \in Drains, RunCatch(i) \/ OnErrorEnds(i) \/ RunFinally(i)
      PROVE  IInv'
  BY <1>4, ReactionKeeps
<1>5. ASSUME CallWhenIdle \/ ResumeWhenIdle \/ Abort \/ Close \/ UNCHANGED vars
      PROVE  IInv'
  BY <1>5, HostKeeps
<1>. QED BY <1>1, <1>2, <1>3, <1>4, <1>5 DEF Next

LEMMA Inductive == Spec => []IInv
  BY InitHolds, NextKeeps, PTL DEF Spec

(* Every variable keeps its type, whatever the interleaving of drains,     *)
(* listener calls and reactions.                                           *)
THEOREM TypeCorrect == Spec => []TypeOK
<1>1. IInv => TypeOK
  BY DEF IInv
<1>. QED BY <1>1, Inductive, PTL

(* verify's idempotence: a pubkey waits in exactly one place of one queue  *)
(* while it is in the queued set, and in none otherwise.                   *)
THEOREM QueuedOnce == Spec => []QueuedExactlyOnce
<1>1. IInv => QueuedExactlyOnce
  BY DEF IInv
<1>. QED BY <1>1, Inductive, PTL

(* One drain per busy domain, and no domain busy without its drain,        *)
(* through every abort and fault of drainQueue.                            *)
THEOREM BusyIsDrained == Spec => []BusyDomainIsDrained
<1>1. IInv => BusyDomainIsDrained
  BY DEF IInv
<1>. QED BY <1>1, Inductive, PTL

(* whenIdle answers only when nothing is queued and no fault is pending.   *)
THEOREM IdleMeansIdle == Spec => WhenIdleIsIdle
<1>1. IInv /\ [Next]_vars /\ idle = "awaiting" /\ idle' = "off" =>
        /\ queued = {}
        /\ \A d \in Domains : domainQueues[d] = NoDrain
        /\ \A i \in Drains : pc[i] # "rejected"
  <2>. SUFFICES ASSUME IInv, [Next]_vars, idle = "awaiting", idle' = "off"
                PROVE  /\ queued = {}
                       /\ \A d \in Domains : domainQueues[d] = NoDrain
                       /\ \A i \in Drains : pc[i] # "rejected"
    OBVIOUS
  <2>1. ResumeWhenIdle /\ InFlight = {}
    <3>. USE DEF hostVars
    <3>1. ASSUME NEW c \in Claim, Verify(c) PROVE FALSE
      BY <3>1 DEF Verify, JoinQueue, StartQueue, StartAborted
    <3>2. ASSUME NEW i \in Drains, LookupSettles(i) \/ LookupThrows(i) PROVE FALSE
      BY <3>2 DEF LookupSettles, LookupThrows, TellListener, StopOnAbort
    <3>3. ASSUME NEW i \in Drains, ListenerReturns(i) \/ ListenerThrows(i) PROVE FALSE
      BY <3>3 DEF ListenerReturns, ListenerThrows
    <3>4. ASSUME NEW i \in Drains, RunCatch(i) \/ OnErrorEnds(i) \/ RunFinally(i)
          PROVE  FALSE
      BY <3>4 DEF RunCatch, OnErrorEnds, RunFinally
    <3>5. ~CallWhenIdle /\ ~Abort /\ ~Close /\ ~UNCHANGED vars
      BY DEF CallWhenIdle, Abort, Close, vars
    <3>6. ResumeWhenIdle
      BY <3>1, <3>2, <3>3, <3>4, <3>5 DEF Next
    <3>. QED BY <3>6 DEF ResumeWhenIdle
  <2>2. \A i \in Drains : i \notin Draining /\ i \notin Settled
    BY <2>1 DEF InFlight
  <2>3. \A i \in Drains : queue[i] = <<>>
    BY <2>2 DEF IInv, BusyDomainIsDrained
  <2>4. queued = {}
    BY <2>3, PubkeysOfEmpty DEF IInv, QueuedExactlyOnce
  <2>5. \A d \in Domains : domainQueues[d] = NoDrain
    BY <2>2 DEF IInv, BusyDomainIsDrained, Draining
  <2>6. \A i \in Drains : pc[i] # "rejected"
    BY <2>2 DEF Settled
  <2>. QED BY <2>4, <2>5, <2>6
<1>. QED BY <1>1, Inductive, PTL DEF Spec, WhenIdleIsIdle

(* A verdict is only ever reported while the signal has not aborted.       *)
THEOREM SilentAfterAbort == Spec => NoVerdictAfterAbort
<1>1. [Next]_vars /\ aborted /\ call' # call /\ call' # NoCall => call'.on = "onError"
  <2>. SUFFICES ASSUME [Next]_vars, aborted, call' # call, call' # NoCall
                PROVE  call'.on = "onError"
    OBVIOUS
  <2>1. ASSUME NEW c \in Claim, Verify(c) PROVE FALSE
    BY <2>1 DEF Verify, JoinQueue, StartQueue, StartAborted
  <2>2. ASSUME NEW i \in Drains, LookupSettles(i) \/ LookupThrows(i) PROVE FALSE
    BY <2>2 DEF LookupSettles, LookupThrows, TellListener, StopOnAbort
  <2>3. ASSUME NEW i \in Drains, ListenerReturns(i) \/ ListenerThrows(i) PROVE FALSE
    BY <2>3 DEF ListenerReturns, ListenerThrows
  <2>4. ASSUME NEW i \in Drains, RunCatch(i) \/ OnErrorEnds(i) \/ RunFinally(i)
        PROVE  call'.on = "onError"
    BY <2>4 DEF RunCatch, OnErrorEnds, RunFinally
  <2>5. ~CallWhenIdle /\ ~ResumeWhenIdle /\ ~Abort /\ ~Close /\ ~UNCHANGED vars
    BY DEF CallWhenIdle, ResumeWhenIdle, Abort, Close, vars
  <2>. QED BY <2>1, <2>2, <2>3, <2>4, <2>5 DEF Next
<1>. QED BY <1>1, PTL DEF Spec, NoVerdictAfterAbort

-----------------------------------------------------------------------------
(* The verifier implements Nip05Lookups.  What its steps do to the lines:  *)
(* a domain's line is the queue of the drain that works on it.             *)
LEMMA LineOfDrain ==
  ASSUME IInv, NEW i \in Draining
  PROVE  /\ i \in Drains /\ home[i] \in Domains /\ domainQueues[home[i]] = i
         /\ linesBar[home[i]] = queue[i]
         /\ \A e \in Domains \ {home[i]} : domainQueues[e] # i
<1>1. i \in Drains /\ home[i] \in Domains /\ domainQueues[home[i]] = i
  BY DEF IInv, TypeOK, BusyDomainIsDrained, Draining
<1>2. i # NoDrain
  BY <1>1, NoDrainAssumption
<1>. QED BY <1>1, <1>2 DEF IInv, BusyDomainIsDrained, linesBar

LEMMA SameLines ==
  ASSUME UNCHANGED <<domainQueues, queue>>
  PROVE  linesBar' = linesBar
  BY DEF linesBar

(* A queue's array changes, and so does the line of its domain.            *)
LEMMA QueueIsLine ==
  ASSUME IInv, NEW i \in Draining, NEW s, queue' = [queue EXCEPT ![i] = s],
         UNCHANGED domainQueues
  PROVE  linesBar' = [linesBar EXCEPT ![home[i]] = s]
<1>1. /\ i \in Drains /\ home[i] \in Domains /\ domainQueues[home[i]] = i
      /\ \A e \in Domains \ {home[i]} : domainQueues[e] # i
  BY LineOfDrain
<1>2. queue'[i] = s /\ \A j \in Drains \ {i} : queue'[j] = queue[j]
  BY <1>1 DEF IInv, TypeOK
<1>3. \A e \in Domains : domainQueues[e] \in Drains \cup {NoDrain}
  BY DEF IInv, TypeOK
<1>. DEFINE line(e) == IF domainQueues[e] = NoDrain THEN <<>> ELSE queue[domainQueues[e]]
<1>4. linesBar = [e \in Domains |-> line(e)]
  BY DEF linesBar
<1>5. linesBar' = [e \in Domains |-> IF e = home[i] THEN s ELSE line(e)]
  BY <1>1, <1>2, <1>3, NoDrainAssumption DEF linesBar
<1>. QED BY <1>4, <1>5

(* A drain that ends takes the line of its domain with it.                 *)
LEMMA ForgetDropsLine ==
  ASSUME IInv, NEW i \in Draining, NEW s, Forget(i, s)
  PROVE  /\ linesBar' = [linesBar EXCEPT ![home[i]] = <<>>]
         /\ pc' = [pc EXCEPT ![i] = s]
<1>1. /\ i \in Drains /\ home[i] \in Domains
      /\ \A e \in Domains \ {home[i]} : domainQueues[e] # i
  BY LineOfDrain
<1>2. /\ queue' = [queue EXCEPT ![i] = <<>>] /\ pc' = [pc EXCEPT ![i] = s]
      /\ domainQueues' = [domainQueues EXCEPT ![home[i]] = NoDrain]
  BY DEF Forget
<1>3. /\ \A j \in Drains \ {i} : queue'[j] = queue[j]
      /\ domainQueues'[home[i]] = NoDrain
      /\ \A e \in Domains \ {home[i]} : domainQueues'[e] = domainQueues[e]
      /\ \A e \in Domains : domainQueues[e] \in Drains \cup {NoDrain}
  BY <1>1, <1>2 DEF IInv, TypeOK
<1>. DEFINE line(e) == IF domainQueues[e] = NoDrain THEN <<>> ELSE queue[domainQueues[e]]
<1>4. linesBar = [e \in Domains |-> line(e)]
  BY DEF linesBar
<1>5. linesBar' = [e \in Domains |-> IF e = home[i] THEN <<>> ELSE line(e)]
  BY <1>1, <1>3 DEF linesBar
<1>. QED BY <1>2, <1>4, <1>5

(* A pubkey that is not queued waits in no line.                           *)
LEMMA NobodyWaits ==
  ASSUME IInv, NEW p, p \notin queued
  PROVE  ~Lookups!Waits(p)
<1>. SUFFICES ASSUME NEW d \in Domains, NEW k \in 1..Len(linesBar[d]),
                     linesBar[d][k].pubkey = p
              PROVE  FALSE
  BY DEF Lookups!Waits
<1>1. linesBar[d] = IF domainQueues[d] = NoDrain THEN <<>> ELSE queue[domainQueues[d]]
  BY DEF linesBar
<1>2. Len(<<>>) = 0
  OBVIOUS
<1>3. domainQueues[d] # NoDrain
  BY <1>1, <1>2
<1>4. domainQueues[d] \in Drains
  BY <1>3 DEF IInv, TypeOK
<1>5. p \in PubkeysOf(queue[domainQueues[d]])
  BY <1>1, <1>3 DEF PubkeysOf
<1>. QED BY <1>4, <1>5 DEF IInv, QueuedExactlyOnce

(* What the host is being told.                                            *)
LEMMA ToldNothing ==
  /\ call = NoCall => toldBar = Lookups!NotTold
  /\ call' = NoCall => toldBar' = Lookups!NotTold
  BY DEF toldBar, NoCall, Lookups!NotTold

LEMMA ToldVerdict ==
  ASSUME IInv, NEW i \in Drains, pc[i] = "listener"
  PROVE  /\ call \in Verdicts /\ call.of = i /\ toldBar # Lookups!NotTold
         /\ toldBar.on # "onError" /\ toldBar.domain = home[i]
<1>1. call \in Verdicts /\ call.of = i
  BY DEF IInv, CallMatchesDrain
<1>2. call # NoCall /\ call.on # "onError" /\ call.on # "nothing"
  BY <1>1 DEF Verdicts, NoCall
<1>3. toldBar = [on |-> call.on, pubkey |-> call.pubkey, verified |-> call.verified,
                 domain |-> home[call.of]]
  BY <1>2 DEF toldBar
<1>. QED BY <1>1, <1>2, <1>3 DEF Lookups!NotTold

(* The call in progress, told of the same domain.                          *)
LEMMA SameTold ==
  ASSUME IInv, UNCHANGED call, \A i \in Drains : pc[i] = "listener" => home'[i] = home[i]
  PROVE  toldBar' = toldBar
<1>1. CASE call \in Verdicts
  <2>1. call.of \in Drains
    BY <1>1 DEF Verdicts
  <2>2. pc[call.of] = "listener"
    BY <1>1, <2>1 DEF IInv, CallMatchesDrain
  <2>. QED BY <2>1, <2>2 DEF toldBar
<1>2. CASE call \in {NoCall} \cup FaultCalls
  BY <1>2 DEF toldBar, FaultCalls
<1>. QED BY <1>1, <1>2 DEF IInv, TypeOK

-----------------------------------------------------------------------------
(* Each step is one of the promise, or none.                               *)

LEMMA JoinQueueAccepts ==
  ASSUME IInv, NEW c \in Claim, JoinQueue(c)
  PROVE  Lookups!Accept(c)
<1>. DEFINE d == c.nip05.domain
            i == domainQueues[d]
<1>1. d \in Domains
  BY DEF Claim, Nip05Id
<1>2. /\ i \in Draining /\ home[i] = d /\ c.pubkey \notin queued
      /\ queue' = [queue EXCEPT ![i] = Append(@, c)]
      /\ UNCHANGED <<domainQueues, home, pc, call, aborted, idle>>
  BY <1>1 DEF JoinQueue, MayVerify, IInv, BusyDomainIsDrained, hostVars
<1>3. linesBar[d] = queue[i]
  BY <1>2, LineOfDrain
<1>4. queue' = [queue EXCEPT ![i] = Append(queue[i], c)]
  BY <1>2
<1>5. linesBar' = [linesBar EXCEPT ![d] = Append(linesBar[d], c)]
  <2>. HIDE DEF i, d
  <2>1. linesBar' = [linesBar EXCEPT ![home[i]] = Append(queue[i], c)]
    BY <1>2, <1>4, QueueIsLine
  <2>. QED BY <1>2, <1>3, <2>1
<1>6. ~Lookups!Waits(c.pubkey)
  BY <1>2, NobodyWaits
<1>7. UNCHANGED <<owedBar, toldBar, aborted, idleBar>>
  BY <1>2, SameTold DEF owedBar, idleBar
<1>. QED BY <1>5, <1>6, <1>7 DEF Lookups!Accept

LEMMA StartQueueAccepts ==
  ASSUME IInv, NEW c \in Claim, NEW i \in Drains, StartQueue(c, i)
  PROVE  Lookups!Accept(c)
<1>. DEFINE d == c.nip05.domain
<1>1. d \in Domains
  BY DEF Claim, Nip05Id
<1>2. /\ c.pubkey \notin queued /\ domainQueues[d] = NoDrain /\ pc[i] = "free"
      /\ domainQueues' = [domainQueues EXCEPT ![d] = i]
      /\ queue' = [queue EXCEPT ![i] = <<c>>]
      /\ home' = [home EXCEPT ![i] = d] /\ pc' = [pc EXCEPT ![i] = "lookup"]
      /\ UNCHANGED <<call, aborted, idle>>
  BY DEF StartQueue, MayVerify, hostVars
<1>. HIDE DEF d
<1>3. /\ queue'[i] = <<c>> /\ \A j \in Drains \ {i} : queue'[j] = queue[j]
      /\ domainQueues'[d] = i
      /\ \A e \in Domains \ {d} : domainQueues'[e] = domainQueues[e]
      /\ \A j \in Drains \ {i} : home'[j] = home[j] /\ pc'[j] = pc[j]
      /\ pc'[i] = "lookup" /\ i # NoDrain
  BY <1>1, <1>2, NoDrainAssumption DEF IInv, TypeOK
<1>4. \A e \in Domains : domainQueues[e] \in (Drains \ {i}) \cup {NoDrain}
  BY <1>2 DEF IInv, TypeOK, BusyDomainIsDrained, Draining
<1>5. linesBar' = [linesBar EXCEPT ![d] = <<c>>]
  <2>. DEFINE line(e) == IF domainQueues[e] = NoDrain THEN <<>> ELSE queue[domainQueues[e]]
  <2>1. linesBar = [e \in Domains |-> line(e)]
    BY DEF linesBar
  <2>2. linesBar' = [e \in Domains |-> IF e = d THEN <<c>> ELSE line(e)]
    BY <1>3, <1>4 DEF linesBar
  <2>. QED BY <2>1, <2>2
<1>6. linesBar[d] = <<>> /\ Append(<<>>, c) = <<c>>
  BY <1>1, <1>2 DEF linesBar
<1>7. linesBar' = [linesBar EXCEPT ![d] = Append(linesBar[d], c)]
  BY <1>5, <1>6
<1>8. ~Lookups!Waits(c.pubkey)
  BY <1>2, NobodyWaits
<1>9. UNCHANGED <<owedBar, toldBar, aborted, idleBar>>
  BY <1>2, <1>3, SameTold DEF owedBar, idleBar
<1>. QED BY <1>7, <1>8, <1>9 DEF Lookups!Accept, d

(* A claim accepted under an aborted signal is dropped in the same step.   *)
LEMMA StartAbortedStutters ==
  ASSUME IInv, NEW c \in Claim, NEW i \in Drains, StartAborted(c, i)
  PROVE  UNCHANGED Lookups!vars
<1>1. /\ pc[i] = "free" /\ pc' = [pc EXCEPT ![i] = "resolved"]
      /\ \A j \in Drains \ {i} : pc'[j] = pc[j] /\ home'[j] = home[j]
      /\ pc'[i] = "resolved"
      /\ UNCHANGED <<domainQueues, queue, call, aborted, idle>>
  BY DEF StartAborted, hostVars, IInv, TypeOK
<1>2. UNCHANGED <<linesBar, owedBar, toldBar, aborted, idleBar>>
  BY <1>1, SameLines, SameTold DEF owedBar, idleBar
<1>. QED BY <1>2 DEF Lookups!vars
LEMMA TellListenerReports ==
  ASSUME IInv, NEW i \in Drains, TellListener(i)
  PROVE  Lookups!Report(home[i])
<1>1. /\ i \in Draining /\ call = NoCall /\ ~aborted /\ queue[i] # <<>>
      /\ queue' = [queue EXCEPT ![i] = Tail(queue[i])]
      /\ pc' = [pc EXCEPT ![i] = "listener"] /\ pc[i] = "lookup"
      /\ UNCHANGED <<domainQueues, home, aborted, idle>>
  BY DEF TellListener, hostVars, Draining, IInv, LookupHasEntry
<1>2. linesBar[home[i]] = queue[i] /\ home[i] \in Domains
  BY <1>1, LineOfDrain
<1>3. linesBar' = [linesBar EXCEPT ![home[i]] = Tail(linesBar[home[i]])]
  BY <1>1, <1>2, QueueIsLine
<1>4. PICK on \in {"onVerified", "onLookupFailed"}, verified \in BOOLEAN :
        call' = [on |-> on, of |-> i, pubkey |-> Head(queue[i]).pubkey, verified |-> verified]
  BY DEF TellListener
<1>5. call' # NoCall /\ call'.on # "onError"
  BY <1>4 DEF NoCall
<1>6. toldBar' = [on |-> on, pubkey |-> Head(linesBar[home[i]]).pubkey,
                  verified |-> verified, domain |-> home[i]]
  BY <1>1, <1>2, <1>4, <1>5 DEF toldBar
<1>7. UNCHANGED <<owedBar, aborted, idleBar>>
  BY <1>1 DEF owedBar, idleBar, IInv, TypeOK
<1>8. toldBar = Lookups!NotTold
  BY <1>1, ToldNothing
<1>. QED BY <1>1, <1>2, <1>3, <1>6, <1>7, <1>8 DEF Lookups!Report

(* A drain that ends while it awaits a lookup drops its line.              *)
LEMMA LookupEndsDrops ==
  ASSUME IInv, NEW i \in Drains, StopOnAbort(i) \/ LookupThrows(i)
  PROVE  Lookups!Drop(home[i])
<1>1. /\ i \in Draining /\ pc[i] = "lookup" /\ queue[i] # <<>>
      /\ call = NoCall /\ UNCHANGED <<call, aborted, idle>>
  BY DEF StopOnAbort, LookupThrows, hostVars, Draining, IInv, LookupHasEntry
<1>2. linesBar[home[i]] # <<>>
  BY <1>1, LineOfDrain
<1>3. toldBar = Lookups!NotTold /\ UNCHANGED <<toldBar, aborted, idleBar>>
  BY <1>1, ToldNothing DEF idleBar
<1>4. CASE StopOnAbort(i)
  <2>1. /\ aborted /\ pc' = [pc EXCEPT ![i] = "resolved"]
        /\ linesBar' = [linesBar EXCEPT ![home[i]] = <<>>]
    BY <1>1, <1>4, ForgetDropsLine DEF StopOnAbort
  <2>2. UNCHANGED owedBar
    BY <1>1, <2>1 DEF owedBar, IInv, TypeOK
  <2>. QED BY <1>2, <1>3, <2>1, <2>2 DEF Lookups!Drop
<1>5. CASE LookupThrows(i)
  <2>1. /\ pc' = [pc EXCEPT ![i] = "rejected"]
        /\ linesBar' = [linesBar EXCEPT ![home[i]] = <<>>]
    BY <1>1, <1>5, ForgetDropsLine DEF LookupThrows
  <2>2. owedBar' = owedBar \cup {i} /\ i \in Drains \ owedBar
    BY <1>1, <2>1 DEF owedBar, IInv, TypeOK
  <2>. QED BY <1>2, <1>3, <2>1, <2>2 DEF Lookups!Drop
<1>. QED BY <1>4, <1>5

LEMMA ListenerEndsReturns ==
  ASSUME IInv, NEW i \in Drains, ListenerReturns(i) \/ ListenerThrows(i)
  PROVE  Lookups!Return(home[i])
<1>1. /\ i \in Draining /\ pc[i] = "listener" /\ call' = NoCall
      /\ UNCHANGED <<aborted, idle>>
  BY DEF ListenerReturns, ListenerThrows, hostVars, Draining
<1>2. /\ toldBar # Lookups!NotTold /\ toldBar.on # "onError"
      /\ toldBar.domain = home[i] /\ toldBar' = Lookups!NotTold
      /\ UNCHANGED <<aborted, idleBar>>
  BY <1>1, ToldVerdict, ToldNothing DEF idleBar
<1>3. ASSUME Forget(i, "resolved"), queue[i] = <<>> \/ aborted
      PROVE  Lookups!Return(home[i])
  <2>1. /\ pc' = [pc EXCEPT ![i] = "resolved"]
        /\ linesBar' = [linesBar EXCEPT ![home[i]] = <<>>]
    BY <1>1, <1>3, ForgetDropsLine
  <2>2. UNCHANGED owedBar
    BY <1>1, <2>1 DEF owedBar, IInv, TypeOK
  <2>3. CASE aborted
    BY <1>2, <2>1, <2>2, <2>3 DEF Lookups!Return
  <2>4. CASE queue[i] = <<>>
    <3>1. linesBar[home[i]] = <<>>
      BY <1>1, <2>4, LineOfDrain
    <3>2. linesBar' = linesBar
      BY <2>1, <3>1 DEF linesBar
    <3>. QED BY <1>2, <2>2, <3>2 DEF Lookups!Return
  <2>. QED BY <1>3, <2>3, <2>4
<1>4. ASSUME Forget(i, "rejected") PROVE Lookups!Return(home[i])
  <2>1. /\ pc' = [pc EXCEPT ![i] = "rejected"]
        /\ linesBar' = [linesBar EXCEPT ![home[i]] = <<>>]
    BY <1>1, <1>4, ForgetDropsLine
  <2>2. owedBar' = owedBar \cup {i} /\ i \in Drains \ owedBar
    BY <1>1, <2>1 DEF owedBar, IInv, TypeOK
  <2>. QED BY <1>2, <2>1, <2>2 DEF Lookups!Return
<1>5. ASSUME pc' = [pc EXCEPT ![i] = "lookup"], UNCHANGED <<domainQueues, queue>>
      PROVE  Lookups!Return(home[i])
  <2>1. UNCHANGED <<linesBar, owedBar>>
    BY <1>1, <1>5, SameLines DEF owedBar, IInv, TypeOK
  <2>. QED BY <1>2, <2>1 DEF Lookups!Return
<1>. QED BY <1>3, <1>4, <1>5 DEF ListenerReturns, ListenerThrows

LEMMA ReactionTellsFaults ==
  ASSUME IInv, NEW i \in Drains, RunCatch(i) \/ OnErrorEnds(i) \/ RunFinally(i)
  PROVE  Lookups!TellFault(i) \/ Lookups!FaultTold(i) \/ UNCHANGED Lookups!vars
<1>1. UNCHANGED <<linesBar, aborted, idleBar>>
  <2>1. UNCHANGED <<domainQueues, queue, aborted, idle>>
    BY DEF RunCatch, OnErrorEnds, RunFinally, hostVars
  <2>. QED BY <2>1, SameLines DEF idleBar
<1>2. CASE RunCatch(i)
  <2>1. /\ pc[i] = "rejected" /\ call = NoCall /\ UNCHANGED pc
        /\ call' = [on |-> "onError", of |-> i]
    BY <1>2 DEF RunCatch
  <2>2. toldBar' = [on |-> "onError", fault |-> i] /\ toldBar = Lookups!NotTold
    BY <2>1, ToldNothing DEF toldBar, NoCall
  <2>3. i \in owedBar /\ UNCHANGED owedBar
    BY <2>1 DEF owedBar
  <2>. QED BY <1>1, <2>2, <2>3 DEF Lookups!TellFault
<1>3. CASE OnErrorEnds(i)
  <2>1. /\ call = [on |-> "onError", of |-> i] /\ call' = NoCall
        /\ pc' = [pc EXCEPT ![i] = "caught"]
    BY <1>3 DEF OnErrorEnds
  <2>2. toldBar = [on |-> "onError", fault |-> i] /\ toldBar' = Lookups!NotTold
    BY <2>1, ToldNothing DEF toldBar, NoCall
  <2>3. owedBar' = owedBar \ {i}
    BY <2>1 DEF owedBar, IInv, TypeOK
  <2>. QED BY <1>1, <2>2, <2>3 DEF Lookups!FaultTold
<1>4. CASE RunFinally(i)
  <2>1. /\ pc[i] \in {"resolved", "caught"} /\ pc' = [pc EXCEPT ![i] = "free"]
        /\ UNCHANGED <<home, call>>
    BY <1>4 DEF RunFinally
  <2>2. UNCHANGED <<owedBar, toldBar>>
    BY <2>1, SameTold DEF owedBar, IInv, TypeOK
  <2>. QED BY <1>1, <2>2 DEF Lookups!vars
<1>. QED BY <1>2, <1>3, <1>4

(* whenIdle is answered when nothing is in flight, and so nothing waits.   *)
LEMMA HostStepIsAbstract ==
  ASSUME IInv, CallWhenIdle \/ ResumeWhenIdle \/ Abort \/ Close \/ UNCHANGED vars
  PROVE  Lookups!AskWhenIdle \/ Lookups!AnswerIdle \/ Lookups!Abort \/ UNCHANGED Lookups!vars
<1>1. UNCHANGED <<linesBar, owedBar, toldBar>>
  <2>1. UNCHANGED <<domainQueues, queue, home, pc, call>>
    BY DEF CallWhenIdle, ResumeWhenIdle, Abort, Close, vars
  <2>. QED BY <2>1, SameLines, SameTold DEF owedBar
<1>2. CASE CallWhenIdle
  BY <1>1, <1>2 DEF CallWhenIdle, idleBar, Lookups!AskWhenIdle
<1>3. CASE ResumeWhenIdle /\ InFlight # {}
  BY <1>1, <1>3 DEF ResumeWhenIdle, idleBar, Lookups!vars
<1>4. CASE ResumeWhenIdle /\ InFlight = {}
  <2>1. \A i \in Drains : i \notin Draining /\ pc[i] # "rejected"
    BY <1>4 DEF InFlight, Settled
  <2>2. \A d \in Domains : domainQueues[d] = NoDrain
    BY <2>1 DEF IInv, BusyDomainIsDrained, Draining
  <2>3. \A d \in Domains : linesBar[d] = <<>>
    BY <2>2 DEF linesBar
  <2>4. owedBar = {} /\ toldBar = Lookups!NotTold
    BY <1>4, <2>1, ToldNothing DEF owedBar, ResumeWhenIdle
  <2>5. idleBar /\ idleBar' = FALSE /\ UNCHANGED aborted
    BY <1>4 DEF ResumeWhenIdle, idleBar
  <2>. QED BY <1>1, <2>3, <2>4, <2>5 DEF Lookups!AnswerIdle
<1>5. CASE Abort
  BY <1>1, <1>5 DEF Abort, idleBar, Lookups!Abort
<1>6. CASE Close \/ UNCHANGED vars
  BY <1>1, <1>6 DEF Close, vars, idleBar, Lookups!vars
<1>. QED BY <1>2, <1>3, <1>4, <1>5, <1>6

LEMMA StepIsAbstract ==
  ASSUME IInv, [Next]_vars
  PROVE  Lookups!Next \/ UNCHANGED Lookups!vars
<1>1. ASSUME NEW c \in Claim, Verify(c) PROVE Lookups!Next \/ UNCHANGED Lookups!vars
  <2>1. Lookups!Accept(c) \/ UNCHANGED Lookups!vars
    BY <1>1, JoinQueueAccepts, StartQueueAccepts, StartAbortedStutters DEF Verify
  <2>2. c \in Lookups!Claim
    BY DEF Claim, Nip05Id, Lookups!Claim, Lookups!Nip05Id
  <2>. QED BY <2>1, <2>2 DEF Lookups!Next
<1>2. ASSUME NEW i \in Drains, \/ LookupSettles(i) \/ LookupThrows(i)
                              \/ ListenerReturns(i) \/ ListenerThrows(i)
      PROVE  Lookups!Next
  <2>1. Lookups!Report(home[i]) \/ Lookups!Drop(home[i]) \/ Lookups!Return(home[i])
    BY <1>2, TellListenerReports, LookupEndsDrops, ListenerEndsReturns DEF LookupSettles
  <2>2. home[i] \in Domains
    BY DEF IInv, TypeOK
  <2>. QED BY <2>1, <2>2 DEF Lookups!Next
<1>3. ASSUME NEW i \in Drains, RunCatch(i) \/ OnErrorEnds(i) \/ RunFinally(i)
      PROVE  Lookups!Next \/ UNCHANGED Lookups!vars
  BY <1>3, ReactionTellsFaults DEF Lookups!Next
<1>4. ASSUME CallWhenIdle \/ ResumeWhenIdle \/ Abort \/ Close \/ UNCHANGED vars
      PROVE  Lookups!Next \/ UNCHANGED Lookups!vars
  BY <1>4, HostStepIsAbstract DEF Lookups!Next
<1>. QED BY <1>1, <1>2, <1>3, <1>4 DEF Next

LEMMA InitIsAbstract == Init => Lookups!Init
  BY DEF Init, Lookups!Init, linesBar, owedBar, toldBar, idleBar, NoCall, Lookups!NotTold

(* The queues, the map, the set and the promises keep what the verifier's  *)
(* documentation promises: every behaviour of createNip05Verifier is one   *)
(* that Nip05Lookups allows, for every number of pubkeys, domains and      *)
(* drains.                                                                 *)
THEOREM PromiseIsKept == Spec => KeepsThePromise
<1>1. IInv /\ [Next]_vars => [Lookups!Next]_(Lookups!vars)
  BY StepIsAbstract
<1>. QED BY <1>1, InitIsAbstract, Inductive, PTL DEF Spec, KeepsThePromise, Lookups!Spec

-----------------------------------------------------------------------------
(* The seven ranges are the seven of the RFCs.                             *)
LEMMA RangesAreTheReserved ==
  ASSUME NEW a \in Octet, NEW b \in Octet
  PROVE  IsPrivateIpv4Value(a * 256 + b) <=> InternalIpv4(a, b)
<1> DEFINE high == a * 256 + b
<1>0. high \in Int
  BY DEF Octet
<1> HIDE DEF high
<1>1. /\ DroppedBits(8) = 256 /\ DroppedBits(10) = 64
      /\ DroppedBits(12) = 16 /\ DroppedBits(16) = 1
  BY DEF DroppedBits
<1>2. IsPrivateIpv4Value(high) <=>
        \/ InRange(high, <<0, 8>>)      \/ InRange(high, <<2560, 8>>)   \/ InRange(high, <<25664, 10>>)
        \/ InRange(high, <<32512, 8>>)  \/ InRange(high, <<43518, 16>>)
        \/ InRange(high, <<44048, 12>>) \/ InRange(high, <<49320, 16>>)
  BY DEF IsPrivateIpv4Value, PRIVATE_IPV4_RANGES
<1>3. /\ InRange(high, <<0, 8>>) <=> high \div 256 = 0
      /\ InRange(high, <<2560, 8>>) <=> high \div 256 = 10
      /\ InRange(high, <<25664, 10>>) <=> high \div 64 = 401
      /\ InRange(high, <<32512, 8>>) <=> high \div 256 = 127
      /\ InRange(high, <<43518, 16>>) <=> high = 43518
      /\ InRange(high, <<44048, 12>>) <=> high \div 16 = 2753
      /\ InRange(high, <<49320, 16>>) <=> high = 49320
  BY <1>0, <1>1 DEF InRange
<1>4. /\ high \div 256 = a
      /\ high \div 64 = 401 <=> a = 100 /\ b \in 64..127
      /\ high = 43518 <=> a = 169 /\ b = 254
      /\ high \div 16 = 2753 <=> a = 172 /\ b \in 16..31
      /\ high = 49320 <=> a = 192 /\ b = 168
  BY DEF Octet, high
<1> QED BY <1>2, <1>3, <1>4 DEF InternalIpv4, Octet, high

(* An IPv4 literal is refused exactly when it is internal.                 *)
THEOREM Ipv4IsRefusedIffInternal ==
  ASSUME NEW octets \in Seq(Octet), Len(octets) = 4
  PROVE  IsPrivateHost([type |-> "ipv4", octets |-> octets])
           <=> IsInternal([type |-> "ipv4", octets |-> octets])
<1>1. 1 \in 1..Len(octets) /\ 2 \in 1..Len(octets)
  OBVIOUS
<1>2. octets[1] \in Octet /\ octets[2] \in Octet
  BY <1>1, ElementOfSeq
<1> QED BY <1>2, RangesAreTheReserved DEF IsPrivateHost, IsInternal, IsPrivateIpv4

(* The half of an IPv4 address that a group holds is tested as an address  *)
(* is.                                                                     *)
LEMMA HalvesAreTheirOctets ==
  ASSUME NEW half \in Group
  PROVE  IsPrivateIpv4Value(half) <=> InternalIpv4(half \div 256, half % 256)
<1>1. half \in Int /\ 0 <= half /\ half <= 65535
  BY DEF Group
<1>2. half \div 256 \in Octet
  BY <1>1 DEF Octet
<1>3. half % 256 \in Octet
  BY <1>1 DEF Octet
<1>4. (half \div 256) * 256 + (half % 256) = half
  BY <1>1
<1> QED
  <2> DEFINE a == half \div 256
             b == half % 256
  <2>1. a \in Octet /\ b \in Octet /\ a * 256 + b = half
    BY <1>2, <1>3, <1>4
  <2> HIDE DEF a, b
  <2>2. IsPrivateIpv4Value(a * 256 + b) <=> InternalIpv4(a, b)
    BY <2>1, RangesAreTheReserved
  <2>3. IsPrivateIpv4Value(half) <=> InternalIpv4(a, b)
    BY <2>1, <2>2
  <2> QED BY <2>3 DEF a, b

(* The masks keep unique local and link local addresses apart from their   *)
(* neighbours.                                                             *)
LEMMA MasksKeepTheirRange ==
  ASSUME NEW group \in Group
  PROVE  /\ group \div 512 = 126 <=> group \in 64512..65023
         /\ group \div 64 = 1018 <=> group \in 65152..65215
<1>1. group \in Int /\ 0 <= group /\ group <= 65535
  BY DEF Group
<1>2. group \div 512 = 126 <=> (64512 <= group /\ group <= 65023)
  BY <1>1
<1>3. group \div 64 = 1018 <=> (65152 <= group /\ group <= 65215)
  BY <1>1
<1> QED BY <1>1, <1>2, <1>3

(* A group elided by a :: is a group like any other.                       *)
LEMMA ZeroIsAGroup == 0 \in Group
  BY DEF Group

(* The address that did not parse is neither a group nor eight of them.    *)
LEMMA NullIsNoAddress == Null \notin Group /\ Null \notin [1..8 -> Group]
<1>1. Group \subseteq Int
  BY DEF Group
<1>2. [1..8 -> Group] \subseteq [1..8 -> Int]
  BY <1>1
<1> QED BY <1>1, <1>2, NullAssumption

(* Eight groups are refused exactly when they are internal: the masks keep *)
(* the two ranges apart from their neighbours, and the first prefix that   *)
(* matches is the only one that can.                                       *)
LEMMA GroupsAreRefusedIffInternal ==
  ASSUME NEW groups \in [1..8 -> Group]
  PROVE  IsPrivateIpv6(groups) <=> InternalIpv6(groups)
<1> DEFINE Carried == \E prefix \in TRAILING_IPV4_PREFIXES : HasPrefix(groups, prefix)
<1>1. \A i \in 1..8 : groups[i] \in Group
  OBVIOUS
<1>2. groups[1] \div 512 = 126 <=> groups[1] \in 64512..65023
  BY <1>1, MasksKeepTheirRange
<1>3. groups[1] \div 64 = 1018 <=> groups[1] \in 65152..65215
  BY <1>1, MasksKeepTheirRange
<1>4. Carried <=> \/ /\ groups[1] = 0 /\ groups[2] = 0 /\ groups[3] = 0
                     /\ groups[4] = 0 /\ groups[5] = 0 /\ groups[6] \in {0, 65535}
                  \/ /\ groups[1] = 100 /\ groups[2] = 65435 /\ groups[3] = 0
                     /\ groups[4] = 0 /\ groups[5] = 0 /\ groups[6] = 0
  <2>1. HasPrefix(groups, <<0, 0, 0, 0, 0, 0>>)
          <=> /\ groups[1] = 0 /\ groups[2] = 0 /\ groups[3] = 0
              /\ groups[4] = 0 /\ groups[5] = 0 /\ groups[6] = 0
    BY DEF HasPrefix
  <2>2. HasPrefix(groups, <<0, 0, 0, 0, 0, 65535>>)
          <=> /\ groups[1] = 0 /\ groups[2] = 0 /\ groups[3] = 0
              /\ groups[4] = 0 /\ groups[5] = 0 /\ groups[6] = 65535
    BY DEF HasPrefix
  <2>3. HasPrefix(groups, <<100, 65435, 0, 0, 0, 0>>)
          <=> /\ groups[1] = 100 /\ groups[2] = 65435 /\ groups[3] = 0
              /\ groups[4] = 0 /\ groups[5] = 0 /\ groups[6] = 0
    BY DEF HasPrefix
  <2> QED BY <2>1, <2>2, <2>3 DEF TRAILING_IPV4_PREFIXES
<1>5. IsPrivateIpv4Value(groups[7]) <=> InternalIpv4(groups[7] \div 256, groups[7] % 256)
  BY <1>1, HalvesAreTheirOctets
<1>6. IsPrivateIpv4Value(groups[2]) <=> InternalIpv4(groups[2] \div 256, groups[2] % 256)
  BY <1>1, HalvesAreTheirOctets
<1>7. Null # groups[7] /\ Null # groups[2]
  BY <1>1, NullIsNoAddress
<1>8. EmbeddedIpv4(groups) = IF Carried THEN groups[7] ELSE IF groups[1] = 8194 THEN groups[2] ELSE Null
  BY DEF EmbeddedIpv4
<1> HIDE DEF Carried
<1>9. /\ EmbeddedIpv4(groups) # Null /\ IsPrivateIpv4Value(EmbeddedIpv4(groups))
      <=> \/ Carried /\ IsPrivateIpv4Value(groups[7])
          \/ ~Carried /\ groups[1] = 8194 /\ IsPrivateIpv4Value(groups[2])
  BY <1>7, <1>8
<1>10. groups[1] = 8194 => ~Carried
  BY <1>4
<1> QED BY <1>2, <1>3, <1>4, <1>5, <1>6, <1>9, <1>10 DEF IsPrivateIpv6, InternalIpv6

(* A literal of eight groups stands for them.                              *)
LEMMA WholeLiteralsAreExpanded ==
  ASSUME NEW head \in Seq(Group), Len(head) = 8
  PROVE  LET host == [type |-> "ipv6", head |-> head, tail |-> Null]
         IN  /\ ParseIpv6Address(head, Null) = Expanded(host)
             /\ Expanded(host) \in [1..8 -> Group]
<1> DEFINE host == [type |-> "ipv6", head |-> head, tail |-> Null]
<1>1. head = [i \in 1..8 |-> head[i]] /\ head \in [1..8 -> Group]
  <2>1. head \in [1..8 -> Group]
    BY LenProperties
  <2> QED BY <2>1
<1>2. \A i \in 1..8 : i <= Len(head)
  OBVIOUS
<1>3. host.head = head /\ host.tail = Null
  OBVIOUS
<1> HIDE DEF host
<1>4. Expanded(host) = [i \in 1..8 |-> head[i]]
  BY <1>2, <1>3 DEF Expanded
<1>5. ParseIpv6Address(head, Null) = head
  BY DEF ParseIpv6Address
<1> QED BY <1>1, <1>4, <1>5 DEF host

(* A :: stands for the zeros that are missing.                             *)
LEMMA ElidedLiteralsAreExpanded ==
  ASSUME NEW head \in Seq(Group), NEW tail \in Seq(Group), tail # Null,
         Len(head) + Len(tail) <= 7
  PROVE  LET host == [type |-> "ipv6", head |-> head, tail |-> tail]
         IN  /\ ParseIpv6Address(head, tail) = Expanded(host)
             /\ Expanded(host) \in [1..8 -> Group]
<1> DEFINE host  == [type |-> "ipv6", head |-> head, tail |-> tail]
           n     == 8 - Len(head) - Len(tail)
           zeros == [i \in 1..n |-> 0]
           whole == head \o zeros \o tail
<1>1. n \in Nat /\ n = 8 - Len(head) - Len(tail) /\ Len(head) \in Nat /\ Len(tail) \in Nat
  OBVIOUS
<1> HIDE DEF n
<1>2. zeros \in [1..n -> Group]
  BY ZeroIsAGroup
<1>3. \A i \in 1..n : zeros[i] = 0
  OBVIOUS
<1> HIDE DEF zeros
<1>4. zeros \in Seq(Group) /\ Len(zeros) = n
  BY <1>1, <1>2
<1>5. whole \in Seq(Group) /\ Len(whole) = 8
  BY <1>1, <1>4
<1>6. \A i \in 1..8 : whole[i] = IF i <= Len(head) THEN head[i]
                                 ELSE IF i > 8 - Len(tail) THEN tail[i - 8 + Len(tail)]
                                 ELSE 0
  BY <1>1, <1>3, <1>4
<1>7. ParseIpv6Address(head, tail) = whole
  BY <1>1 DEF ParseIpv6Address, zeros, n
<1>8. host.head = head /\ host.tail = tail
  OBVIOUS
<1> HIDE DEF whole, host
<1>9. Expanded(host) = [i \in 1..8 |-> whole[i]]
  BY <1>6, <1>8 DEF Expanded
<1>10. whole = [i \in 1..8 |-> whole[i]] /\ whole \in [1..8 -> Group]
  <2>1. whole \in [1..8 -> Group]
    BY <1>5, LenProperties
  <2> QED BY <2>1
<1> QED BY <1>7, <1>9, <1>10 DEF host

(* An IPv6 literal, its eight groups or what is on either side of its ::,  *)
(* is refused exactly when the address it stands for is internal.          *)
THEOREM Ipv6IsRefusedIffInternal ==
  ASSUME NEW head \in Seq(Group), NEW tail,
         \/ tail = Null /\ Len(head) = 8
         \/ tail # Null /\ tail \in Seq(Group) /\ Len(head) + Len(tail) <= 7
  PROVE  IsPrivateHost([type |-> "ipv6", head |-> head, tail |-> tail])
           <=> IsInternal([type |-> "ipv6", head |-> head, tail |-> tail])
<1> DEFINE host == [type |-> "ipv6", head |-> head, tail |-> tail]
<1>1. ParseIpv6Address(head, tail) = Expanded(host) /\ Expanded(host) \in [1..8 -> Group]
  BY WholeLiteralsAreExpanded, ElidedLiteralsAreExpanded
<1>2. Expanded(host) # Null
  BY <1>1, NullIsNoAddress
<1>3. host.type = "ipv6" /\ host.head = head /\ host.tail = tail
  OBVIOUS
<1> HIDE DEF host
<1>4. IsPrivateHost(host) <=> IsPrivateIpv6(Expanded(host))
  BY <1>1, <1>2, <1>3 DEF IsPrivateHost, IsPrivateIpv6Literal
<1>5. IsInternal(host) <=> InternalIpv6(Expanded(host))
  BY <1>3 DEF IsInternal
<1>6. IsPrivateHost(host) <=> IsInternal(host)
  BY <1>1, <1>4, <1>5, GroupsAreRefusedIffInternal
<1> QED BY <1>6 DEF host

-----------------------------------------------------------------------------
(* The policy refuses the internal hostnames and no other: addresses by    *)
(* the lemmas on their ranges, names by their last label.                  *)
LEMMA PolicyKnowsInternal ==
  ASSUME NEW host \in Hosts
  PROVE  IsPrivateHost(host) <=> IsInternal(host)
<1>0. IsHostname(host)
  BY HostsAssumption
<1>1. CASE host \in [type : {"ipv4"}, octets : Seq(Octet)] /\ Len(host.octets) = 4
  <2>1. host = [type |-> "ipv4", octets |-> host.octets] /\ host.octets \in Seq(Octet)
    BY <1>1
  <2>2. IsPrivateHost([type |-> "ipv4", octets |-> host.octets])
          <=> IsInternal([type |-> "ipv4", octets |-> host.octets])
    BY <1>1, <2>1, Ipv4IsRefusedIffInternal
  <2> QED BY <2>1, <2>2
<1>2. CASE /\ host \in [type : {"ipv6"}, head : Seq(Group), tail : Seq(Group) \cup {Null}]
           /\ IF host.tail = Null THEN Len(host.head) = 8 ELSE Len(host.head) + Len(host.tail) <= 7
  <2>1. /\ host = [type |-> "ipv6", head |-> host.head, tail |-> host.tail]
        /\ host.head \in Seq(Group) /\ host.tail \in Seq(Group) \cup {Null}
    BY <1>2
  <2>2. \/ host.tail = Null /\ Len(host.head) = 8
        \/ host.tail # Null /\ host.tail \in Seq(Group) /\ Len(host.head) + Len(host.tail) <= 7
    BY <1>2, <2>1
  <2>3. IsPrivateHost([type |-> "ipv6", head |-> host.head, tail |-> host.tail])
          <=> IsInternal([type |-> "ipv6", head |-> host.head, tail |-> host.tail])
    BY <2>1, <2>2, Ipv6IsRefusedIffInternal
  <2> QED BY <2>1, <2>3
<1>3. CASE host \in [type : {"name"}, labels : Seq(STRING) \ {<<>>}]
  <2> DEFINE labels == host.labels
             count  == Len(labels)
             name   == IF labels[count] = "" THEN SubSeq(labels, 1, count - 1) ELSE labels
  <2>1. host.type = "name" /\ labels \in Seq(STRING) /\ labels # <<>>
    BY <1>3
  <2>2. count \in Nat /\ count >= 1
    BY <2>1
  <2>3. IsPrivateHost(host) <=> name # <<>> /\ name[Len(name)] = "localhost"
    BY <2>1 DEF IsPrivateHost, IsLocalhostName
  <2>4. IsInternal(host) <=>
          \/ count - 1 # 0 /\ labels[count - 1] = "localhost" /\ (count - 1 < count => labels[count] = "")
          \/ count # 0 /\ labels[count] = "localhost" /\ (count < count => labels[count] = "")
    BY <2>1 DEF IsInternal
  <2> HIDE DEF labels
  <2>5. CASE labels[count] = ""
    <3> DEFINE front == SubSeq(labels, 1, count - 1)
    <3>1. \A i \in 1..(count - 1) : labels[i] \in STRING
      BY <2>1, <2>2
    <3>2. /\ front \in Seq(STRING) /\ Len(front) = count - 1
          /\ \A i \in 1..(count - 1) : front[i] = labels[i]
      <4>1. /\ SubSeq(labels, 1, count - 1) \in Seq(STRING)
            /\ Len(SubSeq(labels, 1, count - 1)) = IF 1 <= count - 1 THEN count - 1 - 1 + 1 ELSE 0
            /\ \A i \in 1..(count - 1 - 1 + 1) : SubSeq(labels, 1, count - 1)[i] = labels[1 + i - 1]
        <5>1. 1 \in Int /\ count - 1 \in Int
          BY <2>2
        <5> HIDE DEF count, name
        <5> QED BY <3>1, <5>1, SubSeqProperties
      <4>2. \A i \in 1..(count - 1) : i \in 1..(count - 1 - 1 + 1) /\ 1 + i - 1 = i
        BY <2>2
      <4> HIDE DEF count, name
      <4>3. /\ 1 <= count - 1 => count - 1 - 1 + 1 = count - 1
            /\ ~(1 <= count - 1) => count - 1 = 0
        BY <2>2, SMT
      <4>4. \A i \in 1..(count - 1) : front[i] = labels[i]
        BY <4>1, <4>2
      <4> QED BY <4>1, <4>3, <4>4
    <3>3. name = front
      BY <2>5
    <3> HIDE DEF front, name, count
    <3>4. front # <<>> <=> count - 1 # 0
      BY <2>2, <3>2, EmptySeq
    <3>5. IsPrivateHost(host) <=> count - 1 # 0 /\ labels[count - 1] = "localhost"
      BY <2>2, <2>3, <3>2, <3>3, <3>4
    <3>6. labels[count] # "localhost"
      BY <2>5
    <3>7. count # 0 /\ count - 1 < count
      BY <2>2
    <3>8. IsInternal(host) <=> count - 1 # 0 /\ labels[count - 1] = "localhost"
      BY <2>4, <2>5, <3>6, <3>7
    <3> QED BY <3>5, <3>8
  <2>6. CASE labels[count] # ""
    <3>1. name = labels
      BY <2>6
    <3>2. count # 0 /\ count - 1 < count /\ ~(count < count)
      BY <2>2
    <3>3. IsPrivateHost(host) <=> labels[count] = "localhost"
      BY <2>1, <2>3, <3>1
    <3> HIDE DEF name, count
    <3>4. IsInternal(host) <=> labels[count] = "localhost"
      BY <2>4, <2>6, <3>2
    <3> QED BY <3>3, <3>4
  <2> QED BY <2>5, <2>6
<1> QED BY <1>0, <1>1, <1>2, <1>3 DEF IsHostname

-----------------------------------------------------------------------------
(* A refused target is not even asked, and what fetch resolved to is one   *)
(* of the responses its redirect mode allows.                              *)
PolicyIsKept ==
  /\ RefusedTarget(input.host) => work # Fetching /\ response = NoResponse
  /\ response # NoResponse => CanAnswer(response)

(* A response and its stream come together, while the fetch is awaited and *)
(* not before.                                                             *)
ResponseHasItsStream ==
  /\ response = NoResponse <=> body = NoBody
  /\ work = Fetching => response = NoResponse /\ outcome = Unsettled
  /\ work = Idle /\ outcome = Unsettled => response = NoResponse

(* What awaits the stream is request() itself, still unsettled, or the one *)
(* reader that took it; it has collected all that was sent, and a stream   *)
(* it is cancelling is closed.                                             *)
WorkIsDue ==
  /\ work.at \in {"reading", "cancelling"} =>
       /\ response # NoResponse
       /\ work.purpose \in {"redirect", "landing", "error"} => outcome = Unsettled
       /\ work.purpose \in ReadCalls => outcome.type = "ok" /\ results[work.purpose].type = "waiting"
  /\ work.at = "reading" =>
       /\ work.purpose \notin {"redirect", "landing"}
       /\ body.state \in {"open", "errored"}
       /\ work.collected = body.sent /\ work.collected <= LimitOf(work.purpose)
  /\ work.at = "cancelling" => body.state # "open"

(* The flag is up from the first reader on, and until then the stream is   *)
(* untouched.                                                              *)
FlagIsRaised ==
  /\ outcome.type # "ok" => ~consumed
  /\ ~consumed => \A c \in ReadCalls : results[c] = NotCalled
  /\ outcome.type = "ok" /\ ~consumed => body.state \in {"open", "errored"} /\ body.sent = 0
  /\ consumed /\ body.state = "open" => work.at = "reading" /\ work.purpose \in ReadCalls

(* One reader waits, or has all of the body, or failed on it; every other  *)
(* one failed.                                                             *)
TakesAll(c) ==
  /\ results[c].type = "waiting" => work.at \in {"reading", "cancelling"} /\ work.purpose = c
  /\ results[c].type = "ok" =>
       /\ results[c].bytes = body.sent /\ body.state = "ended"
       /\ results[c].bytes <= input.maxBodyBytes
       /\ results[c].kind = "json" => response.content # "text"
  /\ results[c].type \notin {"not called", "network"} =>
       \A d \in ReadCalls \ {c} : results[d].type \in {"not called", "network"}

OneReaderTakesAll == \A c \in ReadCalls : TakesAll(c)

(* What request() resolved to is what its response calls for.              *)
OutcomeIsDeserved ==
  /\ outcome.type \in {"network", "thrown"} => body.state # "open"
  /\ outcome.type = "server" =>
       /\ response # NoResponse /\ outcome.status = response.status
       /\ body.state = "open" => response.xReason /\ response.status >= 400
  /\ outcome.type = "ok" => response # NoResponse /\ response.status < 400 /\ ~RefusedLanding(response)

ExchangeIInv ==
  /\ ExchangeTypeOK /\ PolicyIsKept /\ ResponseHasItsStream
  /\ WorkIsDue /\ FlagIsRaised /\ OneReaderTakesAll /\ OutcomeIsDeserved

-----------------------------------------------------------------------------
(* The values tell apart what they name.                                   *)
LEMMA Tags ==
  /\ Idle.at = "idle" /\ Fetching.at = "fetching" /\ Idle # Fetching
  /\ Unsettled.type = "unsettled" /\ Network.type = "network" /\ NotCalled.type = "not called"
  /\ NoBody.state = "none" /\ Unsettled # Network
BY DEF Idle, Fetching, Unsettled, Network, NotCalled, NoBody

(* That nothing has been received is not a response.                       *)
LEMMA ResponsesAreReal == NoResponse \notin Responses
<1> SUFFICES ASSUME NoResponse \in Responses PROVE FALSE
  OBVIOUS
<1>1. NoResponse \in [host : Hosts, redirected : BOOLEAN, status : Nat, xReason : BOOLEAN,
                       contentLength : Nat, content : Contents]
  BY ResponsesAssumption
<1>2. "host" \in DOMAIN NoResponse
  BY <1>1
<1> QED BY <1>2 DEF NoResponse

(* A refusal carries the status of its response.                           *)
LEMMA ServerTyped ==
  ASSUME NEW resp \in Responses
  PROVE  /\ Server(resp).type = "server" /\ Server(resp).status = resp.status
         /\ Server(resp) \in Outcomes /\ resp.status \in Nat
<1>1. resp.status \in Nat
  BY ResponsesAssumption
<1>2. Server(resp) \in [type : {"server"}, status : Nat]
  BY <1>1 DEF Server
<1> QED BY <1>1, <1>2 DEF Server, Outcomes

(* The other outcomes are outcomes.                                        *)
LEMMA SimpleOutcomes ==
  /\ Unsettled \in Outcomes /\ Network \in Outcomes
  /\ [type |-> "ok"] \in Outcomes /\ [type |-> "thrown"] \in Outcomes
BY DEF Outcomes, Unsettled, Network

(* What starts to await the stream.                                        *)
LEMMA WorkValues ==
  ASSUME NEW p \in Purposes
  PROVE  /\ Reading(p).at = "reading" /\ Reading(p).purpose = p /\ Reading(p).collected = 0
         /\ Cancelling(p).at = "cancelling" /\ Cancelling(p).purpose = p
         /\ Reading(p) \in Works /\ Cancelling(p) \in Works
BY DEF Reading, Cancelling, Works

(* Where a call is tells all that is known of it.                          *)
LEMMA WorksAre ==
  ASSUME NEW w \in Works
  PROVE  /\ w.at = "idle" => w = Idle
         /\ w.at = "fetching" => w = Fetching
         /\ w.at \in {"reading", "cancelling"} =>
              w \in [at : {"reading", "cancelling"}, purpose : Purposes, collected : Nat]
         /\ w.at \in {"idle", "fetching", "reading", "cancelling"}
BY Tags DEF Works

(* A stream that exists counts its bytes.                                  *)
LEMMA StreamsAre ==
  ASSUME NEW b \in Streams
  PROVE  /\ b.state = "none" => b = NoBody
         /\ b.state # "none" => b \in [state : {"open", "ended", "cancelled", "errored"}, sent : Nat]
         /\ b.state \in {"none", "open", "ended", "cancelled", "errored"}
BY Tags DEF Streams

(* Before an answer the request is asked or settles; there is nothing else *)
(* to go wrong.                                                            *)
LEMMA BeforeTheAnswer ==
  ASSUME ExchangeIInv, outcome = Unsettled, response = NoResponse,
         \/ work' = Fetching /\ outcome' = Unsettled /\ ~RefusedTarget(input.host)
         \/ work' = Idle /\ outcome' \in Outcomes /\ outcome'.type \in {"network", "thrown"},
         UNCHANGED <<privateAddresses, input, signal, response, body, consumed, results>>
  PROVE  ExchangeIInv'
<1>1. /\ body = NoBody /\ NoBody.state # "open" /\ ~consumed
      /\ \A c \in ReadCalls : results[c] = NotCalled
  BY Tags DEF ExchangeIInv, ResponseHasItsStream, FlagIsRaised
<1>2. /\ privateAddresses' = privateAddresses /\ input' = input /\ signal' = signal
      /\ response' = response /\ body' = body /\ consumed' = consumed /\ results' = results
  OBVIOUS
<1>3. /\ work'.at \in {"idle", "fetching"}
      /\ work' = Fetching => outcome' = Unsettled /\ ~RefusedTarget(input.host)
      /\ work' = Idle => outcome' # Unsettled
  BY Tags
<1>4. outcome'.type \notin {"ok", "server"}
  BY Tags
<1>5. ExchangeTypeOK'
  BY <1>2, SimpleOutcomes DEF ExchangeIInv, ExchangeTypeOK, Works
<1>6. PolicyIsKept'
  BY <1>2, <1>3 DEF ExchangeIInv, PolicyIsKept, RefusedTarget
<1>7. ResponseHasItsStream'
  BY <1>1, <1>2, <1>3, Tags DEF ResponseHasItsStream
<1>8. WorkIsDue'
  BY <1>3 DEF WorkIsDue
<1>9. FlagIsRaised'
  BY <1>1, <1>2, <1>4 DEF FlagIsRaised
<1>10. OneReaderTakesAll'
  BY <1>1, <1>2, Tags DEF OneReaderTakesAll, TakesAll
<1>11. OutcomeIsDeserved'
  BY <1>1, <1>2, <1>4 DEF OutcomeIsDeserved
<1> QED BY <1>5, <1>6, <1>7, <1>8, <1>9, <1>10, <1>11 DEF ExchangeIInv

(* A stream that errs is one less open; whoever reads it goes on waiting.  *)
LEMMA StreamErrs ==
  ASSUME ExchangeIInv, signal' \in {"live", "fired"},
         \/ body.state = "open" /\ body' = [body EXCEPT !.state = "errored"]
         \/ body' = body,
         UNCHANGED <<privateAddresses, input, response, work, outcome, consumed, results>>
  PROVE  ExchangeIInv'
<1>1. /\ privateAddresses' = privateAddresses /\ input' = input
      /\ response' = response /\ work' = work /\ outcome' = outcome
      /\ consumed' = consumed /\ results' = results
  OBVIOUS
<1>2. /\ body' \in Streams /\ body'.sent = body.sent
      /\ body' = NoBody <=> body = NoBody
      /\ body'.state = body.state \/ (body.state = "open" /\ body'.state = "errored")
  <2>1. CASE body' = body
    <3>1. body \in Streams
      BY DEF ExchangeIInv, ExchangeTypeOK
    <3> QED BY <2>1, <3>1
  <2>2. CASE body.state = "open" /\ body' = [body EXCEPT !.state = "errored"]
    <3>1. body \in [state : {"open", "ended", "cancelled", "errored"}, sent : Nat]
      BY <2>2, StreamsAre DEF ExchangeIInv, ExchangeTypeOK
    <3>2. /\ body' \in [state : {"open", "ended", "cancelled", "errored"}, sent : Nat]
          /\ body'.state = "errored" /\ body'.sent = body.sent
      BY <2>2, <3>1
    <3> QED BY <2>2, <3>2, Tags DEF Streams
  <2> QED BY <2>1, <2>2
<1>3. ExchangeTypeOK'
  BY <1>1, <1>2 DEF ExchangeIInv, ExchangeTypeOK
<1>4. PolicyIsKept'
  BY <1>1 DEF ExchangeIInv, PolicyIsKept, RefusedTarget, CanAnswer
<1>5. ResponseHasItsStream'
  BY <1>1, <1>2 DEF ExchangeIInv, ResponseHasItsStream
<1>6. WorkIsDue'
  BY <1>1, <1>2 DEF ExchangeIInv, WorkIsDue, LimitOf
<1>7. FlagIsRaised'
  BY <1>1, <1>2 DEF ExchangeIInv, FlagIsRaised
<1>8. OneReaderTakesAll'
  <2> SUFFICES ASSUME NEW c \in ReadCalls PROVE TakesAll(c)'
    BY DEF OneReaderTakesAll
  <2>1. TakesAll(c)
    BY DEF ExchangeIInv, OneReaderTakesAll
  <2> QED BY <1>1, <1>2, <2>1 DEF TakesAll
<1>9. OutcomeIsDeserved'
  BY <1>1, <1>2 DEF ExchangeIInv, OutcomeIsDeserved, RefusedLanding, RefusedTarget
<1> QED BY <1>3, <1>4, <1>5, <1>6, <1>7, <1>8, <1>9 DEF ExchangeIInv

(* request() settles by what it awaited of the stream, which is left       *)
(* closed.                                                                 *)
LEMMA RequestSettles ==
  ASSUME ExchangeIInv, work.at \in {"reading", "cancelling"}, work.purpose \in {"redirect", "landing", "error"},
         work' = Idle, outcome' \in {Network, Server(response)},
         body' \in Streams, body' # NoBody, body'.state # "open",
         UNCHANGED <<privateAddresses, input, signal, response, consumed, results>>
  PROVE  ExchangeIInv'
<1>1. /\ privateAddresses' = privateAddresses /\ input' = input /\ signal' = signal
      /\ response' = response /\ consumed' = consumed /\ results' = results
  OBVIOUS
<1>2. /\ response # NoResponse /\ outcome = Unsettled /\ outcome.type # "ok" /\ ~consumed
      /\ response \in Responses /\ \A c \in ReadCalls : results[c] = NotCalled
  BY Tags DEF ExchangeIInv, ExchangeTypeOK, WorkIsDue, FlagIsRaised
<1>3. /\ outcome' \in Outcomes /\ outcome'.type \in {"network", "server"} /\ outcome' # Unsettled
      /\ outcome'.type = "server" => outcome'.status = response.status
  BY <1>2, ServerTyped, SimpleOutcomes, Tags
<1>4. work'.at = "idle" /\ work' # Fetching
  BY Tags
<1>5. ExchangeTypeOK'
  BY <1>1, <1>3 DEF ExchangeIInv, ExchangeTypeOK, Works
<1>6. PolicyIsKept'
  BY <1>1, <1>2 DEF ExchangeIInv, PolicyIsKept, RefusedTarget, CanAnswer
<1>7. ResponseHasItsStream'
  BY <1>1, <1>2, <1>3, <1>4 DEF ResponseHasItsStream
<1>8. WorkIsDue'
  BY <1>4 DEF WorkIsDue
<1>9. FlagIsRaised'
  BY <1>1, <1>2, <1>3 DEF FlagIsRaised
<1>10. OneReaderTakesAll'
  BY <1>1, <1>2, Tags DEF OneReaderTakesAll, TakesAll
<1>11. OutcomeIsDeserved'
  BY <1>1, <1>2, <1>3 DEF OutcomeIsDeserved
<1> QED BY <1>5, <1>6, <1>7, <1>8, <1>9, <1>10, <1>11 DEF ExchangeIInv

(* The reader that took the body settles, with all of it or a failure.     *)
LEMMA ReaderSettles ==
  ASSUME ExchangeIInv, work.at \in {"reading", "cancelling"}, work.purpose \in ReadCalls,
         NEW result \in Results, result.type # "waiting",
         result.type = "ok" =>
           /\ work.at = "reading" /\ body'.state = "ended" /\ result.bytes = work.collected
           /\ result.kind = "json" => response.content # "text",
         work' = Idle, results' = [results EXCEPT ![work.purpose] = result],
         body' \in Streams, body' # NoBody, body'.state # "open", body'.sent = body.sent,
         UNCHANGED <<privateAddresses, input, signal, response, outcome, consumed>>
  PROVE  ExchangeIInv'
<1> DEFINE reader == work.purpose
<1>1. /\ privateAddresses' = privateAddresses /\ input' = input /\ signal' = signal
      /\ response' = response /\ consumed' = consumed /\ outcome' = outcome
  OBVIOUS
<1>2. /\ reader \in ReadCalls /\ response # NoResponse /\ outcome.type = "ok" /\ outcome # Unsettled
      /\ results[reader].type = "waiting" /\ results \in [ReadCalls -> Results]
  BY Tags DEF ExchangeIInv, ExchangeTypeOK, WorkIsDue
<1>3. consumed
  BY <1>2, Tags DEF ExchangeIInv, FlagIsRaised
<1>4. /\ results' \in [ReadCalls -> Results] /\ results'[reader] = result
      /\ \A c \in ReadCalls \ {reader} : results'[c] = results[c]
  BY <1>2
<1>5. \A c \in ReadCalls \ {reader} : results[c].type \in {"not called", "network"}
  BY <1>2 DEF ExchangeIInv, OneReaderTakesAll, TakesAll
<1>6. result.type = "ok" => result.bytes = body.sent /\ result.bytes <= input.maxBodyBytes
  <2>1. reader # "error"
    BY <1>2, CallsAssumption
  <2> QED BY <2>1 DEF ExchangeIInv, WorkIsDue, LimitOf
<1>7. work'.at = "idle" /\ work' # Fetching
  BY Tags
<1> HIDE DEF reader
<1>8. ExchangeTypeOK'
  BY <1>1, <1>4 DEF ExchangeIInv, ExchangeTypeOK, Works
<1>9. PolicyIsKept'
  BY <1>1, <1>7 DEF ExchangeIInv, PolicyIsKept, RefusedTarget, CanAnswer
<1>10. ResponseHasItsStream'
  BY <1>1, <1>2, <1>7 DEF ResponseHasItsStream
<1>11. WorkIsDue'
  BY <1>7 DEF WorkIsDue
<1>12. FlagIsRaised'
  BY <1>1, <1>2, <1>3 DEF FlagIsRaised
<1>13. OneReaderTakesAll'
  <2> SUFFICES ASSUME NEW c \in ReadCalls
               PROVE  /\ results'[c].type # "waiting"
                      /\ results'[c].type = "ok" =>
                           /\ results'[c].bytes = body'.sent /\ body'.state = "ended"
                           /\ results'[c].bytes <= input.maxBodyBytes
                           /\ results'[c].kind = "json" => response.content # "text"
                      /\ results'[c].type \notin {"not called", "network"} =>
                           \A d \in ReadCalls \ {c} : results'[d].type \in {"not called", "network"}
    BY <1>1 DEF OneReaderTakesAll, TakesAll
  <2>1. CASE c = reader
    BY <1>4, <1>5, <1>6, <2>1
  <2>2. CASE c # reader
    BY <1>4, <1>5, <2>2
  <2> QED BY <2>1, <2>2
<1>14. OutcomeIsDeserved'
  BY <1>1, <1>2 DEF ExchangeIInv, OutcomeIsDeserved, RefusedLanding, RefusedTarget
<1> QED BY <1>8, <1>9, <1>10, <1>11, <1>12, <1>13, <1>14 DEF ExchangeIInv

(* A stream that moves on is a stream.                                     *)
LEMMA StatesChange ==
  ASSUME NEW b \in Streams, b.state # "none", NEW state \in {"open", "ended", "cancelled", "errored"}
  PROVE  /\ [b EXCEPT !.state = state] \in Streams
         /\ [b EXCEPT !.state = state].state = state /\ [b EXCEPT !.state = state].sent = b.sent
<1>1. b \in [state : {"open", "ended", "cancelled", "errored"}, sent : Nat]
  BY StreamsAre
<1> QED BY <1>1 DEF Streams

(* So is one that more bytes come over.                                    *)
LEMMA BytesAreAdded ==
  ASSUME NEW b \in Streams, b.state # "none", NEW n \in Nat
  PROVE  /\ [b EXCEPT !.sent = @ + n] \in Streams /\ b.sent \in Nat
         /\ [b EXCEPT !.sent = @ + n].state = b.state /\ [b EXCEPT !.sent = @ + n].sent = b.sent + n
<1>1. b \in [state : {"open", "ended", "cancelled", "errored"}, sent : Nat]
  BY StreamsAre
<1> QED BY <1>1 DEF Streams

(* A stream that is cancelled is closed, whatever it was.                  *)
LEMMA CancelledStreams ==
  ASSUME NEW b \in Streams, b.state # "none"
  PROVE  /\ Cancelled(b) \in Streams /\ Cancelled(b).sent = b.sent
         /\ Cancelled(b).state = IF b.state = "open" THEN "cancelled" ELSE b.state
<1>1. CASE b.state = "open"
  <2>1. Cancelled(b) = [b EXCEPT !.state = "cancelled"]
    BY <1>1 DEF Cancelled
  <2>2. b \in [state : {"open", "ended", "cancelled", "errored"}, sent : Nat]
    BY StreamsAre
  <2> HIDE DEF Cancelled
  <2> QED BY <1>1, <2>1, <2>2 DEF Streams
<1>2. CASE b.state # "open"
  BY <1>2 DEF Cancelled
<1> QED BY <1>1, <1>2

(* request() starts; a fetch that fails settles it.                        *)
LEMMA AskingKeeps ==
  ASSUME ExchangeIInv, Request \/ FetchRefuses \/ FetchFaults
  PROVE  ExchangeIInv'
<1>1. CASE Request
  <2>1. /\ work = Idle /\ outcome = Unsettled
        /\ UNCHANGED <<privateAddresses, input, signal, response, body, consumed, results>>
        /\ IF RefusedTarget(input.host) THEN work' = Idle /\ outcome' = Network
           ELSE work' = Fetching /\ outcome' = outcome
    BY <1>1 DEF Request, Settle
  <2>2. response = NoResponse
    BY <2>1 DEF ExchangeIInv, ResponseHasItsStream
  <2> QED BY <2>1, <2>2, BeforeTheAnswer, SimpleOutcomes, Tags
<1>2. CASE FetchRefuses \/ FetchFaults
  <2>1. /\ work = Fetching /\ work' = Idle
        /\ outcome' = Network \/ outcome' = [type |-> "thrown"]
        /\ UNCHANGED <<privateAddresses, input, signal, response, body, consumed, results>>
    BY <1>2 DEF FetchRefuses, FetchFaults, Settle
  <2>2. outcome' \in Outcomes /\ outcome'.type \in {"network", "thrown"}
    <3>1. [type |-> "thrown"].type = "thrown"
      OBVIOUS
    <3> QED BY <2>1, <3>1, SimpleOutcomes, Tags
  <2>3. response = NoResponse /\ outcome = Unsettled
    BY <2>1 DEF ExchangeIInv, ResponseHasItsStream
  <2> QED BY <2>1, <2>2, <2>3, BeforeTheAnswer
<1> QED BY <1>1, <1>2

(* A stream breaks off or is aborted.                                      *)
LEMMA BreakingKeeps ==
  ASSUME ExchangeIInv, StreamBreaks \/ SignalFires
  PROVE  ExchangeIInv'
<1>1. signal' \in {"live", "fired"}
  BY DEF ExchangeIInv, ExchangeTypeOK, StreamBreaks, SignalFires
<1>2. /\ \/ body.state = "open" /\ body' = [body EXCEPT !.state = "errored"]
         \/ body' = body
      /\ UNCHANGED <<privateAddresses, input, response, work, outcome, consumed, results>>
  BY DEF StreamBreaks, SignalFires
<1> QED BY <1>1, <1>2, StreamErrs

(* The stream errs or is cancelled, and what awaits it settles.            *)
LEMMA FailingKeeps ==
  ASSUME ExchangeIInv, ReadRejects \/ CancelResolves \/ CancelRejects
  PROVE  ExchangeIInv'
<1>1. /\ work.at \in {"reading", "cancelling"} /\ body.state # "open" /\ body' = body
      /\ UNCHANGED <<privateAddresses, input, signal, response, consumed>>
  <2>1. work.at = "cancelling" => body.state # "open"
    BY DEF ExchangeIInv, WorkIsDue
  <2> QED BY <2>1 DEF ReadRejects, CancelResolves, CancelRejects
<1>2. body \in Streams /\ body # NoBody
  BY <1>1 DEF ExchangeIInv, ExchangeTypeOK, WorkIsDue, ResponseHasItsStream
<1>3. \/ /\ work.purpose \in {"redirect", "landing", "error"} /\ outcome' \in {Network, Server(response)}
         /\ work' = Idle /\ results' = results
      \/ /\ work.purpose \in ReadCalls /\ work' = Idle /\ outcome' = outcome
         /\ results' = [results EXCEPT ![work.purpose] = Network]
  BY DEF ReadRejects, CancelResolves, CancelRejects, StepFails, Settle, SettleCall
<1>4. Network \in Results /\ Network.type = "network"
  BY Tags DEF Network, Results
<1> QED BY <1>1, <1>2, <1>3, <1>4, RequestSettles, ReaderSettles

(* The body has all been read.                                             *)
LEMMA EndingKeeps ==
  ASSUME ExchangeIInv, BodyEnds
  PROVE  ExchangeIInv'
<1>1. /\ work.at = "reading" /\ body.state \in {"open", "ended"}
      /\ body' = [body EXCEPT !.state = "ended"]
      /\ UNCHANGED <<privateAddresses, input, signal, response, consumed>>
  BY DEF BodyEnds
<1>2. body' \in Streams /\ body' # NoBody /\ body'.state = "ended" /\ body'.sent = body.sent
  BY <1>1, StatesChange, Tags DEF ExchangeIInv, ExchangeTypeOK
<1>3. CASE work.purpose = "error" /\ Settle(Server(response)) /\ UNCHANGED results
  BY <1>1, <1>2, <1>3, RequestSettles DEF Settle
<1>4. CASE /\ work.purpose \in ReadCalls
           /\ SettleCall(work.purpose, Decoded(results[work.purpose].kind, work.collected))
  <2> DEFINE kind == results[work.purpose].kind
             result == Decoded(kind, work.collected)
  <2>1. results[work.purpose] \in Results /\ results[work.purpose].type = "waiting" /\ work.collected \in Nat
    <3>1. work \in [at : {"reading", "cancelling"}, purpose : Purposes, collected : Nat]
      BY <1>1, WorksAre DEF ExchangeIInv, ExchangeTypeOK
    <3> QED BY <1>1, <1>4, <3>1 DEF ExchangeIInv, ExchangeTypeOK, WorkIsDue
  <2>2. kind \in {"json", "text"}
    BY <2>1 DEF Results
  <2> HIDE DEF kind
  <2>3. \/ result = [type |-> "malformed-body"]
        \/ /\ result = [type |-> "ok", kind |-> kind, bytes |-> work.collected]
           /\ kind = "json" => response.content # "text"
    BY DEF Decoded
  <2>4. /\ result \in Results /\ result.type # "waiting"
        /\ result.type = "ok" => /\ result.bytes = work.collected
                                 /\ result.kind = "json" => response.content # "text"
    <3>1. [type |-> "malformed-body"] \in Results
      BY DEF Results
    <3>2. [type |-> "ok", kind |-> kind, bytes |-> work.collected] \in Results
      BY <2>1, <2>2 DEF Results
    <3> QED BY <2>3, <3>1, <3>2
  <2>5. work' = Idle /\ outcome' = outcome /\ results' = [results EXCEPT ![work.purpose] = result]
    BY <1>4 DEF SettleCall, kind
  <2> HIDE DEF result
  <2> QED BY <1>1, <1>2, <1>4, <2>4, <2>5, ReaderSettles
<1> QED BY <1>3, <1>4 DEF BodyEnds

(* A chunk comes, and is kept or is one too many.                          *)
LEMMA ChunkKeeps ==
  ASSUME ExchangeIInv, NEW n \in 1..MaxChunk, ChunkArrives(n)
  PROVE  ExchangeIInv'
<1> DEFINE limit == LimitOf(work.purpose)
           sent  == [body EXCEPT !.sent = @ + n]
<1>1. /\ privateAddresses' = privateAddresses /\ input' = input /\ signal' = signal
      /\ response' = response /\ outcome' = outcome /\ consumed' = consumed /\ results' = results
      /\ work.at = "reading" /\ body.state = "open"
  BY DEF ChunkArrives
<1>2. n \in Nat
  BY LimitsAssumption
<1>3. /\ sent \in Streams /\ sent.state = "open" /\ sent.sent = body.sent + n /\ body.sent \in Nat
      /\ Cancelled(sent) \in Streams /\ Cancelled(sent).state = "cancelled"
  <2>1. sent \in Streams /\ sent.state = "open" /\ sent.sent = body.sent + n /\ body.sent \in Nat
    BY <1>1, <1>2, BytesAreAdded DEF ExchangeIInv, ExchangeTypeOK
  <2> HIDE DEF sent
  <2>2. Cancelled(sent) \in Streams /\ Cancelled(sent).state = "cancelled"
    BY <2>1, CancelledStreams
  <2> QED BY <2>1, <2>2
<1>4. /\ work \in [at : {"reading", "cancelling"}, purpose : Purposes, collected : Nat]
      /\ limit \in Nat /\ work.collected \in Nat
  <2>1. work \in [at : {"reading", "cancelling"}, purpose : Purposes, collected : Nat]
    BY <1>1, WorksAre DEF ExchangeIInv, ExchangeTypeOK
  <2>2. input.maxBodyBytes \in Nat /\ ERROR_BODY_BYTE_LIMIT \in Nat
    BY InputsAssumption, LimitsAssumption DEF ExchangeIInv, ExchangeTypeOK
  <2> QED BY <2>1, <2>2 DEF LimitOf
<1>5. \/ /\ work'.at = "cancelling" /\ body'.state = "cancelled"
      \/ /\ work'.at = "reading" /\ body'.state = "open"
         /\ work'.collected = work.collected + n /\ work'.collected <= limit
         /\ body'.sent = body.sent + n
  <2>1. CASE work.collected + n > limit
    <3>1. work' = [work EXCEPT !.at = "cancelling", !.collected = limit] /\ body' = Cancelled(sent)
      BY <2>1 DEF ChunkArrives
    <3> HIDE DEF limit, sent
    <3> QED BY <1>3, <1>4, <3>1
  <2>2. CASE ~(work.collected + n > limit)
    <3>1. work' = [work EXCEPT !.collected = @ + n] /\ body' = sent
      BY <2>2 DEF ChunkArrives
    <3> HIDE DEF limit, sent
    <3> QED BY <1>1, <1>2, <1>3, <1>4, <2>2, <3>1
  <2> QED BY <2>1, <2>2
<1>6. work' \in Works /\ work'.purpose = work.purpose /\ body' \in Streams
  <2>1. \/ work' = [work EXCEPT !.at = "cancelling", !.collected = limit] /\ body' = Cancelled(sent)
        \/ work' = [work EXCEPT !.collected = @ + n] /\ body' = sent
    BY DEF ChunkArrives
  <2> HIDE DEF limit, sent
  <2>2. body' \in Streams
    BY <1>3, <2>1
  <2>3. /\ work' \in [at : {"reading", "cancelling"}, purpose : Purposes, collected : Nat]
        /\ work'.purpose = work.purpose
    <3>1. work.collected + n \in Nat
      BY <1>2, <1>4
    <3> QED BY <1>4, <2>1, <3>1
  <2> QED BY <2>2, <2>3 DEF Works
<1> HIDE DEF limit, sent
<1>7. /\ body # NoBody /\ body' # NoBody
      /\ outcome.type \in {"ok", "unsettled"}
      /\ work.purpose \notin {"redirect", "landing"} /\ work.collected = body.sent
      /\ work.purpose \in ReadCalls => consumed
  <2>1. /\ response # NoResponse /\ work.purpose \in Purposes
        /\ work.purpose \in {"redirect", "landing", "error"} => outcome = Unsettled
        /\ work.purpose \in ReadCalls => outcome.type = "ok" /\ results[work.purpose].type = "waiting"
    BY <1>1, <1>4 DEF ExchangeIInv, WorkIsDue
  <2>2. outcome.type \in {"ok", "unsettled"}
    BY <2>1, Tags DEF Purposes
  <2>3. work.purpose \in ReadCalls => consumed
    BY <2>1, Tags DEF ExchangeIInv, FlagIsRaised
  <2> QED BY <1>1, <1>5, <2>2, <2>3, Tags DEF ExchangeIInv, WorkIsDue
<1>8. /\ work'.at \notin {"idle", "fetching"}
      /\ work' # Idle /\ work' # Fetching /\ work # Idle /\ work # Fetching
  BY <1>1, <1>5, Tags
<1>9. ExchangeTypeOK'
  BY <1>1, <1>6 DEF ExchangeIInv, ExchangeTypeOK
<1>10. PolicyIsKept'
  BY <1>1, <1>8 DEF ExchangeIInv, PolicyIsKept, RefusedTarget, CanAnswer
<1>11. ResponseHasItsStream'
  BY <1>1, <1>7, <1>8 DEF ExchangeIInv, ResponseHasItsStream
<1>12. WorkIsDue'
  BY <1>1, <1>5, <1>6, <1>7 DEF ExchangeIInv, WorkIsDue, LimitOf, limit
<1>13. FlagIsRaised'
  <2>1. outcome.type = "ok" => consumed
    BY <1>1, <1>4, <1>7, Tags DEF ExchangeIInv, WorkIsDue, Purposes
  <2> QED BY <1>1, <1>5, <1>6, <1>7, <2>1 DEF ExchangeIInv, FlagIsRaised
<1>14. OneReaderTakesAll'
  <2>1. \A c \in ReadCalls : results[c].type # "ok"
    BY <1>1 DEF ExchangeIInv, OneReaderTakesAll, TakesAll
  <2> QED BY <1>1, <1>5, <1>6, <2>1 DEF ExchangeIInv, OneReaderTakesAll, TakesAll
<1>15. OutcomeIsDeserved'
  BY <1>1, <1>7 DEF ExchangeIInv, OutcomeIsDeserved, RefusedLanding, RefusedTarget
<1> QED BY <1>9, <1>10, <1>11, <1>12, <1>13, <1>14, <1>15 DEF ExchangeIInv

(* The headers arrive.                                                     *)
LEMMA AnswerKeeps ==
  ASSUME ExchangeIInv, NEW resp \in Responses, FetchAnswers(resp)
  PROVE  ExchangeIInv'
<1> DEFINE open == [state |-> "open", sent |-> 0]
<1>1. /\ privateAddresses' = privateAddresses /\ input' = input /\ signal' = signal
      /\ consumed' = consumed /\ results' = results /\ response' = resp
      /\ work = Fetching /\ CanAnswer(resp)
  BY DEF FetchAnswers
<1>2. /\ response = NoResponse /\ outcome = Unsettled /\ ~RefusedTarget(input.host)
      /\ ~consumed /\ \A c \in ReadCalls : results[c] = NotCalled
  BY <1>1, Tags DEF ExchangeIInv, PolicyIsKept, ResponseHasItsStream, FlagIsRaised
<1>3. /\ open \in Streams /\ open.state = "open" /\ open.sent = 0
      /\ Cancelled(open) \in Streams /\ Cancelled(open).state = "cancelled"
  <2>1. open \in Streams /\ open.state = "open" /\ open.sent = 0
    BY DEF Streams
  <2> HIDE DEF open
  <2> QED BY <2>1, CancelledStreams
<1>4. /\ body' = open \/ (body' = Cancelled(open) /\ work'.at = "cancelling")
      /\ \/ /\ outcome' = outcome /\ work' \in {Cancelling("redirect"), Cancelling("landing")}
            /\ body' = Cancelled(open)
         \/ /\ outcome' = outcome /\ work' = Reading("error") /\ body' = open
         \/ /\ outcome' = Server(resp) /\ work' = Idle /\ body' = open
            /\ resp.xReason /\ resp.status >= 400
         \/ /\ outcome' = [type |-> "ok"] /\ work' = Idle /\ body' = open
            /\ resp.status < 400 /\ ~RefusedLanding(resp)
  <2>1. Cancelling("redirect").at = "cancelling" /\ Cancelling("landing").at = "cancelling"
    BY DEF Cancelling
  <2> HIDE DEF open
  <2> QED BY <2>1 DEF FetchAnswers, Receive, Settle, open
<1> HIDE DEF open
<1>5. /\ body' \in Streams /\ body'.state \in {"open", "cancelled"} /\ body' # NoBody
      /\ body'.state = "open" => body'.sent = 0
  BY <1>3, <1>4, Tags
<1>6. response' \in Responses /\ response' # NoResponse
  BY <1>1, ResponsesAreReal
<1>7. "redirect" \in Purposes /\ "landing" \in Purposes /\ "error" \in Purposes
  BY DEF Purposes
<1>8. /\ work' \in Works /\ work' # Fetching /\ work'.at \in {"idle", "reading", "cancelling"}
      /\ work' # Idle => work'.purpose \in {"redirect", "landing", "error"} /\ outcome' = Unsettled
      /\ work'.at = "reading" => work'.purpose = "error" /\ work'.collected = 0 /\ body' = open
      /\ work'.at = "cancelling" => body'.state # "open"
      /\ work' = Idle => outcome'.type \in {"server", "ok"} /\ body' = open
  <2>1. [type |-> "ok"].type = "ok" /\ Idle \in Works
    BY DEF Works
  <2>2. CASE /\ outcome' = outcome /\ body' = Cancelled(open)
             /\ work' \in {Cancelling("redirect"), Cancelling("landing")}
    <3>1. PICK p \in {"redirect", "landing"} : work' = Cancelling(p)
      BY <2>2
    <3>2. p \in Purposes
      BY <1>7
    <3>3. work' \in Works /\ work'.at = "cancelling" /\ work'.purpose = p
      BY <3>1, <3>2, WorkValues
    <3> QED BY <1>2, <1>3, <2>2, <3>3, Tags
  <2>3. CASE outcome' = outcome /\ work' = Reading("error") /\ body' = open
    BY <1>2, <1>3, <1>7, <2>3, WorkValues, Tags
  <2>4. CASE outcome' = Server(resp) /\ work' = Idle /\ body' = open
    BY <2>1, <2>4, ServerTyped, Tags
  <2>5. CASE outcome' = [type |-> "ok"] /\ work' = Idle /\ body' = open
    BY <2>1, <2>5, Tags
  <2> QED BY <1>4, <2>2, <2>3, <2>4, <2>5
<1>9. /\ outcome' \in Outcomes /\ outcome'.type \in {"unsettled", "ok", "server"}
      /\ outcome'.type = "server" =>
           outcome'.status = resp.status /\ resp.xReason /\ resp.status >= 400
      /\ outcome'.type = "ok" => resp.status < 400 /\ ~RefusedLanding(resp) /\ body' = open
  <2>1. [type |-> "ok"].type = "ok"
    OBVIOUS
  <2> QED BY <1>2, <1>4, <2>1, ServerTyped, SimpleOutcomes, Tags
<1>10. ExchangeTypeOK'
  BY <1>1, <1>5, <1>8, <1>9 DEF ExchangeIInv, ExchangeTypeOK
<1>11. PolicyIsKept'
  BY <1>1, <1>2, <1>6, <1>8 DEF PolicyIsKept, RefusedTarget, CanAnswer
<1>12. ResponseHasItsStream'
  BY <1>5, <1>6, <1>8, Tags DEF ResponseHasItsStream
<1>13. WorkIsDue'
  <2>1. 0 <= ERROR_BODY_BYTE_LIMIT
    BY LimitsAssumption
  <2>2. \A p \in {"redirect", "landing", "error"} : p \notin ReadCalls
    BY CallsAssumption
  <2> QED BY <1>3, <1>5, <1>6, <1>8, <2>1, <2>2, Tags DEF WorkIsDue, LimitOf
<1>14. FlagIsRaised'
  BY <1>1, <1>2, <1>3, <1>5, <1>9 DEF FlagIsRaised
<1>15. OneReaderTakesAll'
  BY <1>1, <1>2, Tags DEF OneReaderTakesAll, TakesAll
<1>16. OutcomeIsDeserved'
  BY <1>1, <1>6, <1>9 DEF OutcomeIsDeserved, RefusedLanding, RefusedTarget
<1> QED BY <1>10, <1>11, <1>12, <1>13, <1>14, <1>15, <1>16 DEF ExchangeIInv

(* A reader is called.                                                     *)
LEMMA ReadKeeps ==
  ASSUME ExchangeIInv, NEW c \in ReadCalls, NEW kind \in {"json", "text"}, Read(c, kind)
  PROVE  ExchangeIInv'
<1>1. /\ privateAddresses' = privateAddresses /\ input' = input /\ signal' = signal
      /\ response' = response /\ outcome' = outcome
      /\ outcome.type = "ok" /\ results[c] = NotCalled /\ results \in [ReadCalls -> Results]
  BY DEF Read, ExchangeIInv, ExchangeTypeOK
<1>2. /\ outcome # Unsettled /\ response # NoResponse /\ response \in Responses
      /\ body # NoBody /\ body \in Streams
  BY <1>1, Tags DEF ExchangeIInv, ExchangeTypeOK, OutcomeIsDeserved, ResponseHasItsStream
<1>3. PolicyIsKept'
  BY <1>1, <1>2 DEF ExchangeIInv, PolicyIsKept, RefusedTarget, CanAnswer
<1>4. CASE consumed
  <2>1. /\ results' = [results EXCEPT ![c] = Network] /\ body' = body /\ work' = work /\ consumed' = consumed
    BY <1>4 DEF Read
  <2>2. /\ results' \in [ReadCalls -> Results] /\ results'[c].type = "network"
        /\ \A d \in ReadCalls \ {c} : results'[d] = results[d]
    <3>1. Network \in Results
      BY DEF Network, Results
    <3> QED BY <1>1, <2>1, <3>1, Tags
  <2>3. results[c].type = "not called"
    BY <1>1, Tags
  <2>4. ExchangeTypeOK'
    BY <1>1, <2>1, <2>2 DEF ExchangeIInv, ExchangeTypeOK
  <2>5. ResponseHasItsStream'
    BY <1>1, <2>1 DEF ExchangeIInv, ResponseHasItsStream
  <2>6. WorkIsDue'
    <3>1. work.at \in {"reading", "cancelling"} /\ work.purpose \in ReadCalls => work.purpose # c
      BY <2>3 DEF ExchangeIInv, WorkIsDue
    <3> QED BY <1>1, <2>1, <2>2, <3>1 DEF ExchangeIInv, WorkIsDue, LimitOf
  <2>7. FlagIsRaised'
    BY <1>1, <1>4, <2>1 DEF ExchangeIInv, FlagIsRaised
  <2>8. OneReaderTakesAll'
    <3> SUFFICES ASSUME NEW d \in ReadCalls PROVE TakesAll(d)'
      BY DEF OneReaderTakesAll
    <3>1. TakesAll(d)
      BY DEF ExchangeIInv, OneReaderTakesAll
    <3>2. CASE d = c
      BY <2>2, <3>2 DEF TakesAll
    <3>3. CASE d # c
      BY <1>1, <2>1, <2>2, <3>1, <3>3 DEF TakesAll
    <3> QED BY <3>2, <3>3
  <2>9. OutcomeIsDeserved'
    BY <1>1, <2>1 DEF ExchangeIInv, OutcomeIsDeserved, RefusedLanding, RefusedTarget
  <2> QED BY <1>3, <2>4, <2>5, <2>6, <2>7, <2>8, <2>9 DEF ExchangeIInv
<1>5. CASE ~consumed
  <2>1. /\ consumed' = TRUE /\ results' = [results EXCEPT ![c] = [type |-> "waiting", kind |-> kind]]
        /\ \/ work' = Cancelling(c) /\ body' = Cancelled(body)
           \/ work' = Reading(c) /\ body' = body
    BY <1>5 DEF Read
  <2>2. body.state \in {"open", "errored"} /\ body.sent = 0
    BY <1>1, <1>5 DEF ExchangeIInv, FlagIsRaised
  <2>3. \A d \in ReadCalls : results[d] = NotCalled
    BY <1>5 DEF ExchangeIInv, FlagIsRaised
  <2>4. /\ results' \in [ReadCalls -> Results] /\ results'[c].type = "waiting"
        /\ \A d \in ReadCalls \ {c} : results'[d].type = "not called"
    <3>1. [type |-> "waiting", kind |-> kind] \in Results
      BY DEF Results
    <3> QED BY <1>1, <2>1, <2>3, <3>1, Tags
  <2>5. c \in Purposes /\ c \notin {"redirect", "landing", "error"}
    BY CallsAssumption DEF Purposes
  <2>6. /\ Cancelled(body) \in Streams /\ Cancelled(body).sent = 0
        /\ Cancelled(body).state \in {"errored", "cancelled"}
    BY <1>2, <2>2, CancelledStreams
  <2>7. /\ body' \in Streams /\ body' # NoBody /\ body'.sent = 0
        /\ body'.state \in {"open", "errored", "cancelled"}
    BY <1>2, <2>1, <2>2, <2>6, Tags
  <2>8. /\ work' \in Works /\ work'.purpose = c /\ work'.at \in {"reading", "cancelling"}
        /\ work' # Idle /\ work' # Fetching
        /\ work'.at = "reading" => work'.collected = 0 /\ body' = body
        /\ work'.at = "cancelling" => body'.state # "open"
    <3>1. Cancelled(body).state # "open"
      BY <2>6
    <3>2. CASE work' = Cancelling(c) /\ body' = Cancelled(body)
      BY <2>5, <3>1, <3>2, WorkValues, Tags
    <3>3. CASE work' = Reading(c) /\ body' = body
      BY <2>5, <3>3, WorkValues, Tags
    <3> QED BY <2>1, <3>2, <3>3
  <2>9. ExchangeTypeOK'
    BY <1>1, <2>1, <2>4, <2>7, <2>8 DEF ExchangeIInv, ExchangeTypeOK
  <2>10. ResponseHasItsStream'
    BY <1>1, <1>2, <2>7, <2>8 DEF ResponseHasItsStream
  <2>11. WorkIsDue'
    <3>1. 0 <= input.maxBodyBytes
      BY InputsAssumption DEF ExchangeIInv, ExchangeTypeOK
    <3> QED BY <1>1, <1>2, <2>2, <2>4, <2>5, <2>7, <2>8, <3>1 DEF WorkIsDue, LimitOf
  <2>12. FlagIsRaised'
    BY <1>1, <2>1, <2>8 DEF FlagIsRaised
  <2>13. OneReaderTakesAll'
    BY <2>4, <2>8 DEF OneReaderTakesAll, TakesAll
  <2>14. OutcomeIsDeserved'
    BY <1>1 DEF ExchangeIInv, OutcomeIsDeserved, RefusedLanding, RefusedTarget
  <2> QED BY <1>3, <2>9, <2>10, <2>11, <2>12, <2>13, <2>14 DEF ExchangeIInv
<1> QED BY <1>4, <1>5

-----------------------------------------------------------------------------
(* The client begins with nothing asked.                                   *)
LEMMA Initially == ExchangeInit => ExchangeIInv
<1> SUFFICES ASSUME ExchangeInit PROVE ExchangeIInv
  OBVIOUS
<1>1. /\ privateAddresses \in {"refuse-private", "allow-private"} /\ input \in Inputs
      /\ signal = "live" /\ response = NoResponse /\ body = NoBody
      /\ work = Idle /\ outcome = Unsettled /\ consumed = FALSE
      /\ results = [c \in ReadCalls |-> NotCalled]
  BY DEF ExchangeInit
<1>2. results \in [ReadCalls -> Results] /\ \A c \in ReadCalls : results[c] = NotCalled
  <2>1. NotCalled \in Results
    BY DEF NotCalled, Results
  <2> QED BY <1>1, <2>1
<1>3. ExchangeTypeOK
  BY <1>1, <1>2, SimpleOutcomes DEF ExchangeTypeOK, Streams, Works
<1>4. PolicyIsKept /\ ResponseHasItsStream
  BY <1>1, Tags DEF PolicyIsKept, ResponseHasItsStream
<1>5. WorkIsDue
  BY <1>1, Tags DEF WorkIsDue
<1>6. FlagIsRaised /\ OneReaderTakesAll
  BY <1>1, <1>2, Tags DEF FlagIsRaised, OneReaderTakesAll, TakesAll
<1>7. OutcomeIsDeserved
  BY <1>1, Tags DEF OutcomeIsDeserved
<1> QED BY <1>3, <1>4, <1>5, <1>6, <1>7 DEF ExchangeIInv

(* What leaves the client alone changes nothing.                           *)
LEMMA StutteringKeeps == ASSUME ExchangeIInv, UNCHANGED exchangeVars PROVE ExchangeIInv'
<1> USE DEF exchangeVars, ExchangeIInv
<1>1. ExchangeTypeOK' /\ PolicyIsKept'
  BY DEF ExchangeTypeOK, PolicyIsKept, RefusedTarget, CanAnswer
<1>2. ResponseHasItsStream' /\ WorkIsDue'
  BY DEF ResponseHasItsStream, WorkIsDue, LimitOf
<1>3. FlagIsRaised' /\ OneReaderTakesAll'
  BY DEF FlagIsRaised, OneReaderTakesAll, TakesAll
<1>4. OutcomeIsDeserved'
  BY DEF OutcomeIsDeserved, RefusedLanding, RefusedTarget
<1> QED BY <1>1, <1>2, <1>3, <1>4

(* Every step keeps the inductive invariant.                               *)
THEOREM ExchangeInductive == ExchangeSpec => []ExchangeIInv
<1>1. ASSUME ExchangeIInv, [ExchangeNext]_exchangeVars
      PROVE  ExchangeIInv'
  <2>1. CASE Request \/ FetchRefuses \/ FetchFaults
    BY <1>1, <2>1, AskingKeeps
  <2>2. CASE \E resp \in Responses : FetchAnswers(resp)
    BY <1>1, <2>2, AnswerKeeps
  <2>3. CASE \E c \in ReadCalls, kind \in {"json", "text"} : Read(c, kind)
    BY <1>1, <2>3, ReadKeeps
  <2>4. CASE \E n \in 1..MaxChunk : ChunkArrives(n)
    BY <1>1, <2>4, ChunkKeeps
  <2>5. CASE BodyEnds
    BY <1>1, <2>5, EndingKeeps
  <2>6. CASE ReadRejects \/ CancelResolves \/ CancelRejects
    BY <1>1, <2>6, FailingKeeps
  <2>7. CASE StreamBreaks \/ SignalFires
    BY <1>1, <2>7, BreakingKeeps
  <2>8. CASE UNCHANGED exchangeVars
    BY <1>1, <2>8, StutteringKeeps
  <2> QED BY <1>1, <2>1, <2>2, <2>3, <2>4, <2>5, <2>6, <2>7, <2>8 DEF ExchangeNext
<1> QED BY <1>1, Initially, PTL DEF ExchangeSpec

(* Every variable keeps its type.                                          *)
THEOREM ExchangeTypeCorrect == ExchangeSpec => []ExchangeTypeOK
<1>1. ExchangeIInv => ExchangeTypeOK
  BY DEF ExchangeIInv
<1> QED BY <1>1, ExchangeInductive, PTL

-----------------------------------------------------------------------------
(* Nothing of a refused landing is read: its stream is only ever           *)
(* cancelled, for the landing or for the redirect it answers with, and     *)
(* request() resolves to no more than that.                                *)
LandingIsUnread ==
  response # NoResponse /\ RefusedLanding(response) =>
    /\ body.sent = 0 /\ work.at # "reading"
    /\ work.at = "cancelling" =>
         work.purpose = "landing" \/ (work.purpose = "redirect" /\ IsRedirect(response))
    /\ \/ outcome \in {Unsettled, Network}
       \/ outcome = Server(response) /\ IsRedirect(response)

(* The headers of a refused landing arrive.                                *)
LEMMA LandingIsCancelled ==
  ASSUME ExchangeIInv, NEW resp \in Responses, FetchAnswers(resp)
  PROVE  LandingIsUnread'
<1> DEFINE open == [state |-> "open", sent |-> 0]
<1>1. /\ response' = resp /\ outcome = Unsettled
      /\ RefusedLanding(response)' <=> RefusedLanding(resp)
  <2>1. work = Fetching
    BY DEF FetchAnswers
  <2>2. outcome = Unsettled
    BY <2>1 DEF ExchangeIInv, ResponseHasItsStream
  <2> QED BY <2>2 DEF FetchAnswers, RefusedLanding, RefusedTarget
<1>2. Cancelled(open).sent = 0
  BY DEF Cancelled
<1> HIDE DEF open
<1>3. ASSUME RefusedLanding(resp)
      PROVE  /\ outcome' = outcome /\ body' = Cancelled(open)
             /\ \/ work' = Cancelling("landing")
                \/ work' = Cancelling("redirect") /\ IsRedirect(resp)
  <2>1. Receive(resp)
    BY DEF FetchAnswers
  <2> QED BY <1>3, <2>1 DEF Receive, open
<1>4. \A p : Cancelling(p).at = "cancelling" /\ Cancelling(p).purpose = p
  BY DEF Cancelling
<1> SUFFICES ASSUME RefusedLanding(resp)
             PROVE  LandingIsUnread'
  BY <1>1 DEF LandingIsUnread
<1>5. work'.at = "cancelling"
  BY <1>3, <1>4
<1>6. work'.purpose = "landing" \/ (work'.purpose = "redirect" /\ IsRedirect(response'))
  BY <1>1, <1>3, <1>4
<1>7. body'.sent = 0 /\ outcome' = Unsettled
  BY <1>1, <1>2, <1>3
<1> QED BY <1>1, <1>5, <1>6, <1>7 DEF LandingIsUnread, IsRedirect

(* Every step leaves a refused landing unread.                             *)
LEMMA LandingStaysUnread ==
  ASSUME ExchangeIInv, LandingIsUnread, [ExchangeNext]_exchangeVars
  PROVE  LandingIsUnread'
<1>1. CASE \E resp \in Responses : FetchAnswers(resp)
  BY <1>1, LandingIsCancelled
<1>2. CASE Request \/ FetchRefuses \/ FetchFaults
  <2>1. response = NoResponse
    BY <1>2 DEF Request, FetchRefuses, FetchFaults, ExchangeIInv, ResponseHasItsStream
  <2>2. response' = response
    BY <1>2 DEF Request, FetchRefuses, FetchFaults
  <2> QED BY <2>1, <2>2 DEF LandingIsUnread
<1>3. ASSUME response' = response, privateAddresses' = privateAddresses, input' = input,
             ~(response # NoResponse /\ RefusedLanding(response))
      PROVE  LandingIsUnread'
  BY <1>3 DEF LandingIsUnread, RefusedLanding, RefusedTarget
<1>4. ASSUME response' = response, privateAddresses' = privateAddresses, input' = input,
             body'.sent = body.sent, work'.at \in {"idle", "fetching"},
             outcome' \in {outcome, Network} \/ (outcome' = Server(response) /\ IsRedirect(response)),
             LandingIsUnread
      PROVE  LandingIsUnread'
  BY <1>4 DEF LandingIsUnread, RefusedLanding, RefusedTarget, Server, IsRedirect
<1>5. CASE \E c \in ReadCalls, kind \in {"json", "text"} : Read(c, kind)
  <2>1. /\ outcome.type = "ok" /\ response' = response
        /\ privateAddresses' = privateAddresses /\ input' = input
    BY <1>5 DEF Read
  <2>2. Server(response).type = "server"
    BY DEF Server
  <2>3. ~(response # NoResponse /\ RefusedLanding(response))
    BY <2>1, <2>2, Tags DEF LandingIsUnread
  <2> QED BY <1>3, <2>1, <2>3
<1>6. CASE (\E n \in 1..MaxChunk : ChunkArrives(n)) \/ BodyEnds \/ ReadRejects
  <2>1. /\ work.at = "reading" /\ response' = response
        /\ privateAddresses' = privateAddresses /\ input' = input
    BY <1>6 DEF ChunkArrives, BodyEnds, ReadRejects
  <2>2. ~(response # NoResponse /\ RefusedLanding(response))
    BY <2>1 DEF LandingIsUnread
  <2> QED BY <1>3, <2>1, <2>2
<1>7. CASE CancelResolves \/ CancelRejects
  <2>1. /\ work.at = "cancelling" /\ response' = response /\ body' = body
        /\ privateAddresses' = privateAddresses /\ input' = input
    BY <1>7 DEF CancelResolves, CancelRejects
  <2>2. CASE response # NoResponse /\ RefusedLanding(response)
    <3>1. work.purpose = "landing" \/ (work.purpose = "redirect" /\ IsRedirect(response))
      BY <2>1, <2>2 DEF LandingIsUnread
    <3>2. work.purpose \notin ReadCalls /\ work.purpose # "error"
      BY <3>1, CallsAssumption
    <3>3. /\ work' = Idle
          /\ outcome' = Network \/ (outcome' = Server(response) /\ IsRedirect(response))
      BY <1>7, <3>1, <3>2 DEF CancelResolves, CancelRejects, StepFails, Settle
    <3> QED BY <1>4, <2>1, <3>3, Tags
  <2> QED BY <1>3, <2>1, <2>2
<1>8. CASE StreamBreaks \/ SignalFires
  <2>1. /\ response' = response /\ privateAddresses' = privateAddresses /\ input' = input
        /\ work' = work /\ outcome' = outcome
    BY <1>8 DEF StreamBreaks, SignalFires
  <2>2. body'.sent = body.sent
    <3>1. body' = body \/ body' = [body EXCEPT !.state = "errored"]
      BY <1>8 DEF StreamBreaks, SignalFires
    <3>2. body \in Streams
      BY DEF ExchangeIInv, ExchangeTypeOK
    <3> QED BY <3>1, <3>2 DEF Streams, NoBody
  <2> QED BY <2>1, <2>2 DEF LandingIsUnread, RefusedLanding, RefusedTarget, Server, IsRedirect
<1>9. CASE UNCHANGED exchangeVars
  BY <1>9 DEF exchangeVars, LandingIsUnread, RefusedLanding, RefusedTarget, Server, IsRedirect
<1> QED BY <1>1, <1>2, <1>5, <1>6, <1>7, <1>8, <1>9 DEF ExchangeNext

(* A client that refuses private addresses fetches no internal host, in    *)
(* whatever form its address is written.  Where a followed redirect lands  *)
(* on one, or on a host its caller does not follow one to, nothing of the  *)
(* body is read, and request() resolves to a network failure or, where     *)
(* the landing answers with a redirect, to that status: no success, and no *)
(* other server failure.                                                   *)
THEOREM RefusedStayUnread == ExchangeSpec => []RefusedHostsAreUnread
<1>1. ExchangeIInv /\ LandingIsUnread => RefusedHostsAreUnread
  <2> SUFFICES ASSUME ExchangeIInv, LandingIsUnread PROVE RefusedHostsAreUnread
    OBVIOUS
  <2>1. input.host \in Hosts /\ (IsPrivateHost(input.host) <=> IsInternal(input.host))
    <3>1. input.host \in Hosts
      BY InputsAssumption DEF ExchangeIInv, ExchangeTypeOK
    <3> QED BY <3>1, PolicyKnowsInternal
  <2>2. privateAddresses = "refuse-private" /\ IsInternal(input.host) => response = NoResponse /\ work # Fetching
    BY <2>1 DEF ExchangeIInv, PolicyIsKept, RefusedTarget
  <2>3. ASSUME LandedWhereRefused
        PROVE  /\ body.sent = 0 /\ work.at # "reading" /\ ~consumed
               /\ \/ outcome \in {Unsettled, Network}
                  \/ IsRedirect(response) /\ outcome = Server(response)
    <3>1. response # NoResponse /\ response.host \in Hosts /\ response.redirected
      BY <2>3, ResponsesAssumption DEF ExchangeIInv, ExchangeTypeOK, LandedWhereRefused
    <3>2. IsPrivateHost(response.host) <=> IsInternal(response.host)
      BY <3>1, PolicyKnowsInternal
    <3>3. RefusedLanding(response)
      BY <2>3, <3>1, <3>2 DEF LandedWhereRefused, RefusedLanding, RefusedTarget
    <3>4. /\ body.sent = 0 /\ work.at # "reading"
          /\ \/ outcome \in {Unsettled, Network}
             \/ IsRedirect(response) /\ outcome = Server(response)
      BY <3>1, <3>3 DEF LandingIsUnread
    <3>5. outcome.type # "ok"
      <4>1. Server(response).type = "server"
        BY DEF Server
      <4> QED BY <3>4, <4>1, Tags
    <3>6. ~consumed
      BY <3>5 DEF ExchangeIInv, FlagIsRaised
    <3> QED BY <3>4, <3>6
  <2> QED BY <2>2, <2>3 DEF RefusedHostsAreUnread
<1>2. ExchangeInit => LandingIsUnread
  BY DEF ExchangeInit, LandingIsUnread
<1> QED BY <1>1, <1>2, LandingStaysUnread, ExchangeInductive, PTL DEF ExchangeSpec

(* It refuses internal hosts alone.                                        *)
THEOREM PublicAreReached == ExchangeSpec => PublicHostsAreReached
<1>1. ASSUME ExchangeIInv, [ExchangeNext]_exchangeVars
      PROVE  [/\ Request => work' = Fetching \/ (privateAddresses = "refuse-private" /\ IsInternal(input.host))
              /\ \A resp \in Responses :
                   FetchAnswers(resp) /\ resp.status = 200 /\ resp.redirected /\ outcome' = Unsettled =>
                     \/ resp.host \notin input.followRedirectTo
                     \/ privateAddresses = "refuse-private" /\ IsInternal(resp.host)]_exchangeVars
  <2>1. input.host \in Hosts /\ \A resp \in Responses : resp.host \in Hosts
    BY <1>1, InputsAssumption, ResponsesAssumption DEF ExchangeIInv, ExchangeTypeOK
  <2>2. Request => work' = Fetching \/ (privateAddresses = "refuse-private" /\ IsInternal(input.host))
    BY <2>1, PolicyKnowsInternal DEF Request, RefusedTarget
  <2>3. ASSUME NEW resp \in Responses, FetchAnswers(resp), resp.status = 200, resp.redirected,
               outcome' = Unsettled
        PROVE  \/ resp.host \notin input.followRedirectTo
               \/ privateAddresses = "refuse-private" /\ IsInternal(resp.host)
    <3>1. ~IsRedirect(resp) /\ ~(resp.status >= 400)
      BY <2>3 DEF IsRedirect, REDIRECT_STATUSES, OPAQUE_REDIRECT
    <3>2. [type |-> "ok"] # Unsettled
      BY DEF Unsettled
    <3>3. CanAnswer(resp) /\ RefusedLanding(resp)
      BY <2>3, <3>1, <3>2 DEF FetchAnswers, Receive, Settle
    <3> QED BY <2>1, <2>3, <3>3, PolicyKnowsInternal DEF CanAnswer, RefusedLanding, RefusedTarget
  <2> QED BY <2>2, <2>3
<1> QED BY <1>1, ExchangeInductive, PTL DEF ExchangeSpec, PublicHostsAreReached

(* One reader at most gets the body, whole and within the ceiling,         *)
(* whatever the chunks, the readers and the order in which things fail.    *)
THEOREM ReadWholeOnce == ExchangeSpec => []BodyIsReadWholeOnce
<1>1. ExchangeIInv => BodyIsReadWholeOnce
  BY DEF ExchangeIInv, WorkIsDue, OneReaderTakesAll, TakesAll, BodyIsReadWholeOnce
<1> QED BY <1>1, ExchangeInductive, PTL

(* No failure leaves a stream open, but an error that names its reason in  *)
(* a header.                                                               *)
THEOREM NoStreamIsLeft == ExchangeSpec => []StreamIsReleased
<1>1. ExchangeIInv => StreamIsReleased
  BY DEF ExchangeIInv, WorkIsDue, FlagIsRaised, OutcomeIsDeserved, StreamIsReleased
<1> QED BY <1>1, ExchangeInductive, PTL

(* A document was read whole; a 404 is the one refusal that says so.       *)
LEMMA WhatIsRead ==
  ASSUME ExchangeTypeOK, NEW c \in ReadCalls
  PROVE  /\ ReadJsonDocument(c) \in {"document", "not-found", "no-answer", "pending"}
         /\ ReadJsonDocument(c) = "document" =>
              outcome.type = "ok" /\ results[c].type = "ok" /\ response.content # "value"
         /\ ReadJsonDocument(c) = "not-found" => outcome.type = "server" /\ outcome.status = 404
<1>1. outcome.type \in {"unsettled", "ok", "network", "thrown", "server"}
  BY DEF ExchangeTypeOK, Outcomes
<1>2. results[c].type \in {"not called", "waiting", "network", "malformed-body", "ok"}
  <2>1. results[c] \in Results
    BY DEF ExchangeTypeOK
  <2> QED BY <2>1 DEF Results
<1>3. CASE outcome.type \in {"network", "server"}
  <2>1. ReadJsonDocument(c) = RequestFailure
    BY <1>3 DEF ReadJsonDocument
  <2> QED BY <2>1 DEF RequestFailure
<1>4. CASE outcome.type \in {"unsettled", "thrown"}
  <2>1. ReadJsonDocument(c) = Pending
    BY <1>4 DEF ReadJsonDocument
  <2> QED BY <2>1 DEF Pending
<1>5. CASE outcome.type = "ok"
  <2>1. CASE results[c].type \in {"not called", "waiting"}
    BY <1>5, <2>1 DEF ReadJsonDocument, Pending
  <2>2. CASE results[c].type \in {"network", "malformed-body"}
    BY <1>5, <2>2 DEF ReadJsonDocument
  <2>3. CASE results[c].type = "ok"
    BY <1>5, <2>3 DEF ReadJsonDocument
  <2> QED BY <1>2, <2>1, <2>2, <2>3
<1> QED BY <1>1, <1>3, <1>4, <1>5

(* resolveNip05 reports a verdict only from a whole answer of the          *)
(* identifier's own domain.                                                *)
THEOREM VerdictsAreTheirs == ExchangeSpec => []VerdictIsTheDomainsAnswer
<1>1. ExchangeIInv => VerdictIsTheDomainsAnswer
  <2> SUFFICES ASSUME ExchangeIInv, NEW c \in ReadCalls, ByResolver(c), ResolveNip05(c) \in {"pubkey", "no pubkey"}
               PROVE  /\ response # NoResponse /\ response.host = input.host /\ ~response.redirected
                      /\ ~RefusedTarget(input.host)
                      /\ \/ response.status = 404 /\ ResolveNip05(c) = "no pubkey"
                         \/ /\ response.status < 400 /\ body.state = "ended"
                            /\ response.content = IF ResolveNip05(c) = "pubkey" THEN "mapping" ELSE "object"
    BY DEF VerdictIsTheDomainsAnswer
  <2>1. outcome \in Outcomes /\ results[c] \in Results /\ response \in {NoResponse} \cup Responses
    BY DEF ExchangeIInv, ExchangeTypeOK
  <2>2. ReadJsonDocument(c) \in {"document", "not-found", "no-answer", "pending"}
    BY WhatIsRead DEF ExchangeIInv
  <2>3. ReadJsonDocument(c) \in {"document", "not-found"}
    BY <2>2 DEF ResolveNip05, Pending
  <2>4. response # NoResponse =>
          response.host = input.host /\ ~response.redirected /\ ~RefusedTarget(input.host)
    BY DEF ExchangeIInv, PolicyIsKept, CanAnswer, ByResolver
  <2>5. CASE ReadJsonDocument(c) = "document"
    <3>1. outcome.type = "ok" /\ results[c].type = "ok" /\ response.content # "value"
      BY <2>5, WhatIsRead DEF ExchangeIInv
    <3>2. response # NoResponse /\ response \in Responses /\ response.status < 400
      BY <2>1, <3>1 DEF ExchangeIInv, OutcomeIsDeserved
    <3>3. results[c].kind = "json" /\ body.state = "ended" /\ response.content # "text"
      BY <3>1 DEF ExchangeIInv, OneReaderTakesAll, TakesAll, ByResolver
    <3>4. response.content \in {"object", "mapping"}
      BY <3>1, <3>2, <3>3, ResponsesAssumption DEF Contents
    <3>5. response.content = IF ResolveNip05(c) = "pubkey" THEN "mapping" ELSE "object"
      BY <2>5, <3>4 DEF ResolveNip05
    <3> QED BY <2>4, <3>2, <3>3, <3>5
  <2>6. CASE ReadJsonDocument(c) = "not-found"
    <3>1. outcome.type = "server" /\ outcome.status = 404
      BY <2>6, WhatIsRead DEF ExchangeIInv
    <3>2. response # NoResponse /\ response.status = 404
      <4>1. outcome.type = "server" => response # NoResponse /\ outcome.status = response.status
        BY DEF ExchangeIInv, OutcomeIsDeserved
      <4> QED BY <3>1, <4>1
    <3>3. ResolveNip05(c) = "no pubkey"
      BY <2>6 DEF ResolveNip05
    <3> QED BY <2>4, <3>2, <3>3
  <2> QED BY <2>3, <2>5, <2>6
<1> QED BY <1>1, ExchangeInductive, PTL

=============================================================================
