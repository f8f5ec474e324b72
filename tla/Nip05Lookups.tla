---------------------------- MODULE Nip05Lookups ----------------------------
(***************************************************************************)
(* What the NIP-05 verifier promises its host, without the data structures *)
(* that keep the promise (src/application/service/nip05-verifier.ts, the   *)
(* doc comments of Nip05VerifierListener and Nip05Verifier, and ADR-0018). *)
(*                                                                         *)
(* Every domain has one line of claims.  A pubkey waits in at most one     *)
(* place of one line.  The head of a line leaves it by being reported to   *)
(* the listener; a whole line leaves by being dropped, which needs an      *)
(* aborted signal or a fault, and a fault is owed to the host's onError.   *)
(* The listener is told one thing at a time, and whenIdle answers only     *)
(* when no claim waits and no fault is owed.                               *)
(***************************************************************************)
EXTENDS Sequences, Naturals

CONSTANTS Pubkeys,   \* public keys whose claims are verified
          Names,     \* local parts of NIP-05 identifiers
          Domains,   \* domains of NIP-05 identifiers
          Faults     \* names for faults that are on their way to onError

VARIABLES lines,     \* lines[d]: the claims waiting on domain d, oldest first
          owed,      \* faults not yet handed to onError
          told,      \* the listener call in progress, or NotTold
          aborted,   \* the host's signal
          idle       \* whether a whenIdle call waits for its answer

vars == <<lines, owed, told, aborted, idle>>

Nip05Id == [name : Names, domain : Domains]
Claim   == [pubkey : Pubkeys, nip05 : Nip05Id]

NotTold == [on |-> "nothing"]
Verdicts == [on : {"onVerified", "onLookupFailed"}, pubkey : Pubkeys,
             verified : BOOLEAN, domain : Domains]
FaultCalls == [on : {"onError"}, fault : Faults]

Waits(p) == \E d \in Domains : \E k \in 1..Len(lines[d]) : lines[d][k].pubkey = p

Init ==
  /\ lines = [d \in Domains |-> <<>>]
  /\ owed = {}
  /\ told = NotTold
  /\ aborted = FALSE
  /\ idle = FALSE

(* The host claims: accepted at the end of the domain's line.              *)
Accept(c) ==
  /\ ~Waits(c.pubkey)
  /\ lines' = [lines EXCEPT ![c.nip05.domain] = Append(@, c)]
  /\ UNCHANGED <<owed, told, aborted, idle>>

(* The oldest claim of a domain is reported, never after an abort.         *)
Report(d) ==
  /\ told = NotTold /\ ~aborted /\ lines[d] # <<>>
  /\ \E on \in {"onVerified", "onLookupFailed"}, verified \in BOOLEAN :
       told' = [on |-> on, pubkey |-> Head(lines[d]).pubkey,
                verified |-> verified, domain |-> d]
  /\ lines' = [lines EXCEPT ![d] = Tail(@)]
  /\ UNCHANGED <<owed, aborted, idle>>

(* The listener is done with a verdict: it returned, or it threw and cost  *)
(* the rest of the line, or it returned after an abort.                    *)
Return(d) ==
  /\ told # NotTold /\ told.on # "onError" /\ told.domain = d
  /\ told' = NotTold
  /\ \/ UNCHANGED <<lines, owed>>
     \/ aborted /\ lines' = [lines EXCEPT ![d] = <<>>] /\ UNCHANGED owed
     \/ /\ lines' = [lines EXCEPT ![d] = <<>>]
        /\ \E f \in Faults \ owed : owed' = owed \cup {f}
  /\ UNCHANGED <<aborted, idle>>

(* A line is dropped without a verdict: the signal aborted, or its lookup  *)
(* broke and the fault is owed to the host.                                *)
Drop(d) ==
  /\ told = NotTold /\ lines[d] # <<>>
  /\ lines' = [lines EXCEPT ![d] = <<>>]
  /\ \/ aborted /\ UNCHANGED owed
     \/ \E f \in Faults \ owed : owed' = owed \cup {f}
  /\ UNCHANGED <<told, aborted, idle>>

TellFault(f) ==
  /\ told = NotTold /\ f \in owed
  /\ told' = [on |-> "onError", fault |-> f]
  /\ UNCHANGED <<lines, owed, aborted, idle>>

FaultTold(f) ==
  /\ told = [on |-> "onError", fault |-> f]
  /\ told' = NotTold
  /\ owed' = owed \ {f}
  /\ UNCHANGED <<lines, aborted, idle>>

Abort ==
  /\ ~aborted /\ aborted' = TRUE
  /\ UNCHANGED <<lines, owed, told, idle>>

AskWhenIdle ==
  /\ ~idle /\ idle' = TRUE
  /\ UNCHANGED <<lines, owed, told, aborted>>

(* whenIdle answers: nothing waits, nothing is owed, nobody is being told. *)
AnswerIdle ==
  /\ idle /\ told = NotTold /\ owed = {}
  /\ \A d \in Domains : lines[d] = <<>>
  /\ idle' = FALSE
  /\ UNCHANGED <<lines, owed, told, aborted>>

Next ==
  \/ \E c \in Claim : Accept(c)
  \/ \E d \in Domains : Report(d) \/ Return(d) \/ Drop(d)
  \/ \E f \in Faults : TellFault(f) \/ FaultTold(f)
  \/ Abort \/ AskWhenIdle \/ AnswerIdle

Spec == Init /\ [][Next]_vars
=============================================================================
