-------------------------- MODULE DetectionEscrow --------------------------
(***************************************************************************)
(* The escrow of a protocol detection: the operator asks for a payment,    *)
(* the protocol's admin approves it, operator and Venn get their parts.    *)
(* ProtocolRegistry creates the escrow and keeps Venn's fee.               *)
(*                                                                         *)
(* Each payment hands control to its recipient, whose code may have any of *)
(* the roles and call any function again, or revert.  Escrows share        *)
(* nothing but the registry's fee: one is modelled.                        *)
(***************************************************************************)
EXTENDS Naturals, Sequences, Sums, Constants

CONSTANTS
  MaxFee,         \* MAX_VENN_DETECTION_FEE
  DetectionFees,  \* fees the registry's admin may try to set
  EscrowAmounts,  \* amounts requested, deposited and withdrawn
  MaxDeposited,   \* bound: ether deposited in all
  MaxRequested,   \* bound: payments requested in all
  MaxPayments     \* bound: payments inside each other

VARIABLES
  escrow,     \* what a revert undoes
  payments    \* payments whose recipient is in control

escrowVars == <<escrow, payments>>

ASSUME EscrowAssumption ==
  /\ FeeScale \in Nat \ {0} /\ MaxFee \in 0 .. FeeScale
  /\ DetectionFees \subseteq Nat /\ EscrowAmounts \subseteq Nat
  /\ {MaxDeposited, MaxRequested, MaxPayments} \subseteq Nat

EscrowWorlds ==
  [ vennDetectionFee : 0 .. MaxFee,      \* ProtocolRegistry
    exists     : BOOLEAN,                \* the detection and its escrow
    vennFee    : 0 .. MaxFee,            \* recorded with the detection
    isApproved : BOOLEAN,
    balance    : Nat,
    pendingOperatorPayment : Nat,
    \* history
    deposited  : Nat,
    requested  : Nat,
    approved   : Nat,
    operatorGot : Nat, vennGot : Nat, adminGot : Nat ]

Payments ==
  [ to    : {"operator", "venn", "admin"},
    owed  : Nat,                         \* still to be paid to Venn
    saved : EscrowWorlds ]

EscrowInit ==
  /\ escrow \in [ vennDetectionFee : DetectionFees \cap (0 .. MaxFee), exists : {FALSE},
                 vennFee : {0}, isApproved : {FALSE},
                 balance : {0}, pendingOperatorPayment : {0}, deposited : {0},
                 requested : {0}, approved : {0},
                 operatorGot : {0}, vennGot : {0}, adminGot : {0} ]
  /\ payments = <<>>

TopPayment == payments[Len(payments)]
PaymentsBelow == SubSeq(payments, 1, Len(payments) - 1)
CanPay == Len(payments) < MaxPayments
Paying(to, owed) == Append(payments, [to |-> to, owed |-> owed, saved |-> escrow])

-----------------------------------------------------------------------------
(* ProtocolRegistry *)

CreateAndRegisterProtocolDetection ==
  /\ ~escrow.exists
  /\ escrow' = [escrow EXCEPT !.exists = TRUE, !.vennFee = escrow.vennDetectionFee]
  /\ UNCHANGED payments

ApproveProtocolDetectionAsOperator ==
  /\ escrow.exists
  /\ escrow' = [escrow EXCEPT !.isApproved = TRUE]
  /\ UNCHANGED payments

SetVennDetectionFee(fee) ==
  /\ fee <= MaxFee
  /\ escrow' = [escrow EXCEPT !.vennDetectionFee = fee]
  /\ UNCHANGED payments

-----------------------------------------------------------------------------
(* DetectionEscrow *)

Receive(v) ==
  /\ escrow.exists /\ escrow.deposited + v <= MaxDeposited
  /\ escrow' = [escrow EXCEPT !.balance = @ + v, !.deposited = @ + v]
  /\ UNCHANGED payments

\* A new request replaces one that is not paid.
InitializeClaimPayment(v) ==
  /\ escrow.exists /\ escrow.requested + v <= MaxRequested
  /\ escrow' = [escrow EXCEPT !.pendingOperatorPayment = v, !.requested = @ + v]
  /\ UNCHANGED payments

VennAmount(v) == (v * escrow.vennDetectionFee) \div FeeScale

\* Deviation: both parts are rounded down.
OperatorAmount_Rounded(v) == (v * (FeeScale - escrow.vennDetectionFee)) \div FeeScale
OperatorAmount(v) == v - VennAmount(v)

\* Deviation: the request stays pending.
ApproveClaimPayment_StillPending(v) ==
  /\ escrow.exists /\ CanPay
  /\ escrow.pendingOperatorPayment = v /\ v > 0 /\ escrow.balance >= v
  /\ escrow' = [escrow EXCEPT !.balance = @ - OperatorAmount(v),
                            !.operatorGot = @ + OperatorAmount(v), !.approved = @ + v]
  /\ payments' = Paying("operator", VennAmount(v))

\* The fee is computed and the request reset before the operator is paid.
ApproveClaimPayment(v) ==
  /\ escrow.exists /\ CanPay
  /\ escrow.pendingOperatorPayment = v /\ v > 0 /\ escrow.balance >= v
  /\ escrow' = [escrow EXCEPT !.pendingOperatorPayment = 0,
                            !.balance = @ - OperatorAmount(v),
                            !.operatorGot = @ + OperatorAmount(v), !.approved = @ + v]
  /\ payments' = Paying("operator", VennAmount(v))

\* The operator accepts its part; Venn is paid what was computed before, if
\* the escrow still has it.
PayVenn ==
  /\ payments # <<>> /\ TopPayment.to = "operator"
  /\ escrow.balance >= TopPayment.owed
  /\ escrow' = [escrow EXCEPT !.balance = @ - TopPayment.owed, !.vennGot = @ + TopPayment.owed]
  /\ payments' = [payments EXCEPT ![Len(payments)] = [@ EXCEPT !.to = "venn", !.owed = 0]]

WithdrawFunds(v) ==
  /\ escrow.exists /\ CanPay /\ escrow.balance >= v
  /\ escrow' = [escrow EXCEPT !.balance = @ - v, !.adminGot = @ + v]
  /\ payments' = Paying("admin", 0)

\* Venn or the admin accepts; that ends the call.
PaymentEnds ==
  /\ payments # <<>> /\ TopPayment.to # "operator"
  /\ payments' = PaymentsBelow
  /\ UNCHANGED escrow

\* A recipient reverts, or the escrow lacks Venn's part.
RevertFrame ==
  /\ payments # <<>>
  /\ escrow' = TopPayment.saved
  /\ payments' = PaymentsBelow

-----------------------------------------------------------------------------
Registry ==
  \/ CreateAndRegisterProtocolDetection \/ ApproveProtocolDetectionAsOperator
  \/ \E fee \in DetectionFees : SetVennDetectionFee(fee)

Escrow ==
  \/ \E v \in EscrowAmounts : \/ Receive(v) \/ InitializeClaimPayment(v)
                        \/ ApproveClaimPayment(v) \/ WithdrawFunds(v)
  \/ PayVenn \/ PaymentEnds \/ RevertFrame

EscrowNext == Registry \/ Escrow

EscrowSpec == EscrowInit /\ [][EscrowNext]_escrowVars

-----------------------------------------------------------------------------
(* Properties *)

\* Types: no amount or balance of the escrow underflows.
EscrowTypes == escrow \in EscrowWorlds /\ payments \in Seq(Payments)

Owed == SumOver([i \in DOMAIN payments |-> payments[i].owed], DOMAIN payments)

\* MAX_VENN_DETECTION_FEE bounds what Venn takes off all payments together, the
\* parts still owed included, however often the fee changes.
OperatorKeepsItsPart ==
  escrow.operatorGot * FeeScale >= escrow.approved * (FeeScale - MaxFee)

\* Every unit an admin approves goes to the operator or to Venn, except what
\* an approval under way still owes; and all ether deposited is in the escrow
\* or with one of the three: rounding and reentrant payments lose nothing.
\* However it is split, the operator keeps its part, and nothing underflows.
ApprovedIsPaid ==
  /\ EscrowTypes /\ OperatorKeepsItsPart
  /\ escrow.approved = escrow.operatorGot + escrow.vennGot + Owed
  /\ escrow.deposited = escrow.balance + escrow.operatorGot + escrow.vennGot + escrow.adminGot

\* No request is paid twice: even if the recipient of a payment approves or
\* requests again before the payment is complete, what was approved and what
\* is pending never exceeds what the operator asked for.
RequestsArePaidOnce ==
  escrow.approved + escrow.pendingOperatorPayment <= escrow.requested
=============================================================================
