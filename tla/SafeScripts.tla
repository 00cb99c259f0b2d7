---------------------------- MODULE SafeScripts ----------------------------
(***************************************************************************)
(* Scripts that have the owners of a Gnosis Safe sign a transaction, and   *)
(* execute it or hand the signatures over: scripts/gnosis.ts.              *)
(*                                                                         *)
(* A script reads the owners and the nonce of the Safe, signs, and sends.  *)
(* Others run meanwhile, its process may die and be started again, what it *)
(* sent is executed some time later, and signatures that were handed over  *)
(* may be submitted by anyone, any number of times.                        *)
(***************************************************************************)
EXTENDS Integers, Sequences, FiniteSets, SequencesExt, TLC

CONSTANTS
  Owners,      \* addresses of the owners, as numbers, in the order of the Safe
  Threshold,   \* signatures the Safe asks for
  MaxReruns    \* bound: scripts that are run again

(* What a Safe is set up with: owners that differ, and a threshold they can *)
(* reach.                                                                  *)
ASSUME OwnersAssumption ==
  Owners \in Seq(Nat) /\ IsInjective(Owners) /\ Threshold \in 0 .. Len(Owners)

VARIABLES
  safe,        \* the contract: nonce, what it executed, whether calls succeed
  sent,        \* executions sent but not mined
  signings,    \* by process, its script
  reruns

safeVars == <<safe, sent, signings, reruns>>

NotGiven == 0   \* a nonce left out, or one that is 0: tx.nonce || ...

(* What is asked of a script: the call, its nonce and the signers, both    *)
(* perhaps not given, and what to do with the signatures.                  *)
Request(by, call, nonce, signers) ==
  [by |-> by, call |-> call, nonce |-> nonce, signers |-> signers]

-----------------------------------------------------------------------------
(* The scripts' helpers.                                                   *)

(* Deviation: the nonce is not among the fields that are signed.           *)
EIP712_SAFE_TX_TYPE_NoNonce(call, nonce) == <<call>>

EIP712_SAFE_TX_TYPE(call, nonce) == <<call, nonce>>

(* Deviation: the signatures stay in the order of the signers.             *)
buildSignatureBytes_Unsorted(signers) == signers

(* The signatures, each told by its signer, in the order of the addresses. *)
Reordered(signers) ==
  {[i \in DOMAIN signers |-> signers[p[i]]] : p \in Bijection(DOMAIN signers, DOMAIN signers)}

buildSignatureBytes(signers) ==
  CHOOSE bytes \in Reordered(signers) : \A i, j \in DOMAIN bytes : i < j => bytes[i] <= bytes[j]

(* Every signer signs the same digest.                                     *)
safeSignTypedData(call, nonce, signers) ==
  [ digest |-> EIP712_SAFE_TX_TYPE(call, nonce), signers |-> buildSignatureBytes(signers) ]

-----------------------------------------------------------------------------
(* The Safe: the first signatures, as many as the threshold, are those of  *)
(* different owners in ascending order, over the call with the Safe's own  *)
(* nonce; a call that fails undoes everything.                             *)

Accepts(call, bytes) ==
  /\ bytes.digest = EIP712_SAFE_TX_TYPE(call, safe.nonce)
  /\ Len(bytes.signers) >= Threshold
  /\ \A i \in 1 .. Threshold :
       /\ bytes.signers[i] \in Range(Owners)
       /\ i > 1 => bytes.signers[i - 1] < bytes.signers[i]
  /\ call = "guarded" => safe.ready

Executed(tx) ==
  [safe EXCEPT !.nonce = @ + 1,
               !.executed = Append(@, [by |-> tx.by, turn |-> tx.turn,
                                       signed |-> tx.nonce, asked |-> tx.asked])]

-----------------------------------------------------------------------------

Unsigned == [digest |-> <<>>, signers |-> <<>>]

Fresh(request) ==
  [request |-> request, at |-> "idle", turn |-> 0, signers |-> <<>>, nonce |-> 0,
   read |-> 0, refused |-> 0, bytes |-> Unsigned]

SafeInit(requests) ==
  /\ safe = [nonce |-> 0, ready |-> FALSE, executed |-> <<>>]
  /\ sent = {}
  /\ signings = [p \in DOMAIN requests |-> Fresh(requests[p])]
  /\ reruns = 0

Signing(p, phase) == signings[p].at = phase
Continues(p, s, phase) == signings' = [signings EXCEPT ![p] = [s EXCEPT !.at = phase]]

(* getSafeExecTxArgs has no signers of its own.                            *)
TakeSigners(p) ==
  LET s == signings[p]
      read == s.request.signers = <<>> /\ s.request.by # "getSafeExecTxArgs"
  IN /\ Signing(p, "signers")
     /\ Continues(p, [s EXCEPT !.signers = IF read THEN Owners ELSE s.request.signers], "nonce")
     /\ UNCHANGED <<safe, sent, reruns>>

TakeNonce(p) ==
  LET s == signings[p]  given == s.request.nonce
  IN /\ Signing(p, "nonce")
     /\ Continues(p, [s EXCEPT !.nonce = IF given # NotGiven THEN given ELSE safe.nonce,
                               !.read = Len(safe.executed)], "sign")
     /\ UNCHANGED <<safe, sent, reruns>>

Sign(p) ==
  LET s == signings[p]
  IN /\ Signing(p, "sign")
     /\ Continues(p, [s EXCEPT !.bytes = safeSignTypedData(s.request.call, s.nonce, s.signers)],
                  IF s.request.by = "execSafeTx" THEN "send" ELSE "handed")
     /\ UNCHANGED <<safe, sent, reruns>>

Execution(p) ==
  LET s == signings[p]
  IN [by |-> p, turn |-> s.turn, call |-> s.request.call, nonce |-> s.nonce,
      asked |-> s.request.nonce, bytes |-> s.bytes]

(* The gas is estimated first: what would revert is not sent.              *)
execSafeTx(p) ==
  LET s == signings[p]
  IN /\ Signing(p, "send")
     /\ IF Accepts(s.request.call, s.bytes)
        THEN Continues(p, s, "done") /\ sent' = sent \cup {Execution(p)}
        ELSE Continues(p, [s EXCEPT !.refused = Len(safe.executed)], "refused") /\ UNCHANGED sent
     /\ UNCHANGED <<safe, reruns>>

MineExecution(tx) ==
  /\ sent' = sent \ {tx}
  /\ safe' = IF Accepts(tx.call, tx.bytes) THEN Executed(tx) ELSE safe
  /\ UNCHANGED <<signings, reruns>>

(* Signatures that were handed over are submitted.                         *)
Submit(p) ==
  /\ Signing(p, "handed")
  /\ Accepts(signings[p].request.call, signings[p].bytes)
  /\ safe' = Executed(Execution(p))
  /\ UNCHANGED <<sent, signings, reruns>>

(* What a guarded call waits for comes about, or its time is over.         *)
TurnReady ==
  /\ \E p \in DOMAIN signings : signings[p].request.call = "guarded"
  /\ safe' = [safe EXCEPT !.ready = ~@]
  /\ UNCHANGED <<sent, signings, reruns>>

StartSigning(p) ==
  /\ Signing(p, "idle")
  /\ Continues(p, signings[p], "signers")
  /\ UNCHANGED <<safe, sent, reruns>>

(* A script that failed, died or whose outcome was not seen is run again.  *)
SignAgain(p) ==
  /\ ~Signing(p, "idle") /\ reruns < MaxReruns
  /\ Continues(p, [Fresh(signings[p].request) EXCEPT !.turn = signings[p].turn + 1], "signers")
  /\ reruns' = reruns + 1
  /\ UNCHANGED <<safe, sent>>

SafeNext ==
  \/ \E p \in DOMAIN signings :
       \/ StartSigning(p) \/ TakeSigners(p) \/ TakeNonce(p) \/ Sign(p)
       \/ execSafeTx(p) \/ Submit(p) \/ SignAgain(p)
  \/ \E tx \in sent : MineExecution(tx)
  \/ TurnReady

-----------------------------------------------------------------------------

SafeTypeOK ==
  /\ safe.nonce = Len(safe.executed) /\ safe.ready \in BOOLEAN
  /\ \A p \in DOMAIN signings :
       /\ Range(signings[p].signers) \subseteq Range(Owners)
       /\ signings[p].nonce \in Nat /\ signings[p].turn \in 0 .. reruns

(* Whoever submits what was signed, whenever and however often, it is      *)
(* executed at most once and at the nonce it was signed for; and a script  *)
(* that was given a nonce, other than 0, has its call executed at most     *)
(* once even if it is run again.                                           *)
SafeExecutesOnce ==
  /\ SafeTypeOK
  /\ \A i, j \in DOMAIN safe.executed :
       LET a == safe.executed[i]  b == safe.executed[j]
       IN /\ a.signed = i - 1
          /\ i # j /\ a.by = b.by => a.turn # b.turn /\ a.asked = NotGiven

(* A script that is left to find the owners and the nonce is refused only  *)
(* if another transaction was executed since it read the nonce, or if the  *)
(* call fails.                                                             *)
QuietRunSucceeds ==
  \A p \in DOMAIN signings :
    LET s == signings[p]
    IN Signing(p, "refused") /\ s.request.nonce = NotGiven /\ s.request.signers = <<>>
         => s.refused > s.read \/ s.request.call = "guarded"
=============================================================================
