---------------------------- MODULE LocalSigner ----------------------------
(***************************************************************************)
(* createLocalSigner (src/infrastructure/crypto/local-signer.ts): a signer *)
(* over a key in memory, which keeps the NIP-44 conversation keys of its   *)
(* most recently used peers.                                               *)
(*                                                                         *)
(* Every method computes synchronously inside the promise it returns, so   *)
(* a call is one step.  The conversationKeys Map is a function from the    *)
(* kept peers to their key and the place they took in the Map's insertion  *)
(* order; a key is named by the peer it was derived for.  The history      *)
(* variable lastUse is what the code does not keep: for every peer, the    *)
(* last call whose cipher succeeded.                                       *)
(***************************************************************************)
EXTENDS Naturals, FiniteSets

CONSTANTS Peers,      \* public keys of peers
          CacheSize,  \* CONVERSATION_KEY_CACHE_SIZE
          MaxCalls    \* calls of a cipher method (the bound)

ASSUME CacheSizeAssumption == CacheSize \in Nat \ {0}
ASSUME MaxCallsAssumption == MaxCalls \in Nat

VARIABLES conversationKeys,  \* the Map: [kept peers -> [key, at]]
          lastUse,           \* lastUse[p]: p's last successful call, or 0
          calls,             \* how many NIP-44 calls were made
          last               \* the last promise: [derived, result]

signerVars == <<conversationKeys, lastUse, calls, last>>

Entry == [key : Peers, at : 1..MaxCalls]
Kept  == DOMAIN conversationKeys
Used  == {p \in Peers : lastUse[p] > 0}

(* What a tool may do: give a result, throw the codec's own error, which   *)
(* becomes a failure, or throw anything else, which rejects the promise.   *)
Answers == {"ok", "failed", "rejected"}

SignerTypeOK ==
  /\ Kept \subseteq Peers
  /\ conversationKeys \in [Kept -> Entry]
  /\ lastUse \in [Peers -> 0..MaxCalls]
  /\ calls \in 0..MaxCalls
  /\ last \in [derived : BOOLEAN, result : Answers]

SignerInit ==
  /\ conversationKeys = [p \in {} |-> 0]
  /\ lastUse = [p \in Peers |-> 0]
  /\ calls = 0
  /\ last = [derived |-> FALSE, result |-> "ok"]

-----------------------------------------------------------------------------
(* Map.delete of one key.                                                  *)
Delete(map, p) == [q \in DOMAIN map \ {p} |-> map[q]]

(* Map.set: a key that is in the Map keeps its place in the order, a new   *)
(* one goes last.                                                          *)
Set(map, p, key, at) ==
  [q \in DOMAIN map \cup {p} |->
     IF q # p THEN map[q]
     ELSE [key |-> key, at |-> IF p \in DOMAIN map THEN map[p].at ELSE at]]

(* The first key in insertion order goes when there is one too many.       *)
LeastRecent(map) ==
  CHOOSE q \in DOMAIN map : \A r \in DOMAIN map : map[q].at <= map[r].at

Evict(map) ==
  IF Cardinality(DOMAIN map) > CacheSize THEN Delete(map, LeastRecent(map)) ELSE map

(* A bug: the key is set without being deleted first.                      *)
RememberInPlace(map, p, key, at) == Evict(Set(map, p, key, at))

Remember(map, p, key, at) == Evict(Set(Delete(map, p), p, key, at))

(* withConversationKey: derive the key unless it is kept, run the cipher,  *)
(* and keep the key as the most recent one only if the cipher succeeded.   *)
WithConversationKey(p, derivation, cipher) ==
  LET derived == p \notin Kept
      key     == IF derived THEN p ELSE conversationKeys[p].key
      result  == IF derived /\ derivation # "ok" THEN derivation ELSE cipher
  IN
  /\ calls < MaxCalls
  /\ calls' = calls + 1
  /\ last' = [derived |-> derived, result |-> result]
  /\ IF result = "ok"
     THEN /\ conversationKeys' = Remember(conversationKeys, p, key, calls + 1)
          /\ lastUse' = [lastUse EXCEPT ![p] = calls + 1]
     ELSE UNCHANGED <<conversationKeys, lastUse>>

(* nip44Encrypt and nip44Decrypt.                                          *)
Nip44(p) ==
  \E derivation, cipher \in Answers : WithConversationKey(p, derivation, cipher)

(* getPublicKey, signEvent, nip04Encrypt and nip04Decrypt: no conversation *)
(* key is read or kept.  getPublicKey cannot fail, signEvent is never a    *)
(* failure but can reject: a template buildRumour refuses, a tool's fault. *)
Other ==
  /\ last' \in [derived : {FALSE}, result : Answers]
  /\ UNCHANGED <<conversationKeys, lastUse, calls>>

SignerNext == (\E p \in Peers : Nip44(p)) \/ Other

SignerSpec == SignerInit /\ [][SignerNext]_signerVars

-----------------------------------------------------------------------------
(* The cache holds exactly the CacheSize most recently used peers: those   *)
(* with a successful call, none of them older than a forgotten one, and    *)
(* none forgotten before the cache is full.  A payload that fails to       *)
(* decrypt, from however many throwaway keys, moves nothing.               *)
KeptAreMostRecent ==
  /\ Kept \subseteq Used
  /\ \A p \in Kept, q \in Used \ Kept : lastUse[p] > lastUse[q]
  /\ Cardinality(Kept) <= CacheSize
  /\ Kept # Used => Cardinality(Kept) = CacheSize

(* A peer's key is derived again only after CacheSize other peers have     *)
(* been used since its own last use.                                       *)
Since(p) == {q \in Used : lastUse[q] > lastUse[p]}

DerivesOnlyForgotten ==
  [][\A p \in Peers :
       calls' # calls /\ last'.derived /\ last'.result = "ok"
         /\ lastUse'[p] # lastUse[p] /\ p \in Used
       => Cardinality(Since(p)) >= CacheSize]_signerVars

=============================================================================
