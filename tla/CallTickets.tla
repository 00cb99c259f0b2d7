----------------------------- MODULE CallTickets -----------------------------
(***************************************************************************)
(* What an approved-calls policy promises, without slots, hooks, firewalls *)
(* or roles.  An approval issues one ticket per entry to the origin of the *)
(* transaction it is made in.  Only the tickets of the newest approval of  *)
(* the running transaction can be used, from the last entry to the first,  *)
(* each once and only for the call it names.  A scope that is rolled back  *)
(* (an EVM frame that reverts) leaves no ticket issued or used.            *)
(***************************************************************************)
EXTENDS Naturals, Sequences

CONSTANTS Policies, Origins, Calls, Lists, NoOrigin

VARIABLES
  issued,   \* per policy and origin: the approvals, oldest first
  used,     \* the tickets used
  live,     \* policies with an approval made in the running transaction
  origin,   \* origin of the running transaction
  stack     \* what each open scope goes back to when it is rolled back

vars == <<issued, used, live, origin, stack>>

State == [issued |-> issued, used |-> used, live |-> live]

\* Entries of the newest approval that have no used ticket.
Unused(p) ==
  LET n == Len(issued[p][origin])
  IN  {i \in DOMAIN issued[p][origin][n] :
         \A t \in used : ~(/\ t.policy = p /\ t.origin = origin
                           /\ t.nonce = n - 1 /\ t.index = i)}

Init ==
  /\ issued = [p \in Policies |-> [o \in Origins |-> <<>>]]
  /\ used = {}
  /\ live = {}
  /\ origin = NoOrigin
  /\ stack = <<>>

Begin(o) ==
  /\ stack = <<>>
  /\ origin' = o
  /\ stack' = <<State>>
  /\ UNCHANGED <<issued, used, live>>

Open ==
  /\ stack # <<>>
  /\ stack' = Append(stack, State)
  /\ UNCHANGED <<issued, used, live, origin>>

Issue(p, list) ==
  /\ stack # <<>>
  /\ list # <<>>
  /\ issued' = [issued EXCEPT ![p][origin] = Append(@, list)]
  /\ live' = live \cup {p}
  /\ UNCHANGED <<used, origin, stack>>

Use(p, call) ==
  /\ p \in live
  /\ \E i \in Unused(p) :
       /\ \A j \in Unused(p) : j <= i
       /\ issued[p][origin][Len(issued[p][origin])][i] = call
       /\ used' = used \cup {[policy |-> p, origin |-> origin,
                              nonce |-> Len(issued[p][origin]) - 1,
                              index |-> i, call |-> call]}
  /\ UNCHANGED <<issued, live, origin, stack>>

\* The end of the outermost scope ends the transaction.
Pop ==
  /\ stack' = SubSeq(stack, 1, Len(stack) - 1)
  /\ origin' = IF Len(stack) = 1 THEN NoOrigin ELSE origin

Close ==
  /\ stack # <<>>
  /\ Pop
  /\ live' = IF Len(stack) = 1 THEN {} ELSE live
  /\ UNCHANGED <<issued, used>>

Rollback ==
  /\ stack # <<>>
  /\ Pop
  /\ issued' = stack[Len(stack)].issued
  /\ used' = stack[Len(stack)].used
  /\ live' = stack[Len(stack)].live

Next ==
  \/ \E o \in Origins : Begin(o)
  \/ Open
  \/ \E p \in Policies, l \in Lists : Issue(p, l)
  \/ \E p \in Policies, c \in Calls : Use(p, c)
  \/ Close
  \/ Rollback

Spec == Init /\ [][Next]_vars
=============================================================================
