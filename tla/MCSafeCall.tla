----------------------------- MODULE MCSafeCall -----------------------------
(***************************************************************************)
(* A small instance of SafeCall for TLC.                                   *)
(***************************************************************************)
EXTENDS SafeCall, TLC

CONSTANTS p1, user, wallet

\* What the user sends, with or without the fee taken off.
Approvable == [sender : {user}, value : {1, 2}]
OneCall == {<<c>> : c \in Approvable}

\* Scope: any registry while nobody calls the consumer; calls are made on one
\* in which one subnet has required operators and one has none.
Settled ==
  /\ protocols = {p1} /\ subnets[p1] = {0, 1}
  /\ required[p1] = (0 :> <<1, 3>> @@ 1 :> <<>>)
  /\ active = Operators /\ \A s \in TaskDefinitions : restricted[s] = <<>>

\* Fees are allowed only where there is somebody to pay.  Restrictions of task
\* definition 0, which is exempt, are never looked at.
Scope ==
  /\ restricted'[0] = <<>>
  /\ txs' > 0 \/ world' # Deployed => Settled /\ UNCHANGED registryVars
  /\ world'.allowNonZeroUserNativeFee => world'.attestationCenterProxy
=============================================================================
