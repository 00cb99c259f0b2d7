------------------------ MODULE ProtectedCallsProofs ------------------------
(***************************************************************************)
(* Type correctness and the safety of approvals, for every number of       *)
(* origins, contracts, policies, frames and approvals.                     *)
(*                                                                         *)
(* The inductive invariant speaks of every world a revert may go back to,  *)
(* not only of the current one, and orders the tokens of the call stack:   *)
(* what a frame consumed was unspent when it was entered and is spent in   *)
(* every world saved above it.                                             *)
(***************************************************************************)
EXTENDS ProtectedCalls, SequenceTheorems, TLAPS

\* Approvals in force are numbered 0, 1, 2, ... as the nonce counts them.
HistoryOK(w) ==
  \A p \in CallPolicies, o \in Origins :
    /\ Len(w.log[p][o]) = w.nonces[p][o]
    /\ \A n \in 1 .. Len(w.log[p][o]) : w.log[p][o][n].nonce = n - 1

\* A token was taken from an entry of an approval in force, for its call.
TokensOK(w) ==
  \A t \in w.spent :
    /\ t.nonce < Len(w.log[t.policy][t.origin])
    /\ t.index \in 1 .. Len(GrantOf(w, t).hashes)
    /\ GrantOf(w, t).hashes[t.index] = t.call

\* The slots up to the length hold the newest approval of the origin, and
\* none of them was consumed.
SlotsOK(w, o) ==
  \A p \in CallPolicies :
    w.len[p] > 0 =>
      LET n == w.nonces[p][o] IN
      /\ n > 0
      /\ w.len[p] <= Len(w.log[p][o][n].hashes)
      /\ \A i \in 1 .. w.len[p] : w.slots[p][i] = w.log[p][o][n].hashes[i]
      /\ \A t \in w.spent :
           t.policy = p /\ t.origin = o /\ t.nonce = n - 1 => t.index > w.len[p]

Quiet(w) == \A p \in CallPolicies : w.len[p] = 0

WorldOK(w, o) == HistoryOK(w) /\ TokensOK(w) /\ SlotsOK(w, o)

\* What a frame records about its own hooks.
FrameOK(f) ==
  /\ ~f.hooked => f.phase = "body" /\ f.paid = <<>>
  /\ f.hooked => f.call.consumer \in Consumers
  /\ f.phase = "pre" => Len(f.paid) = f.next - 1 /\ Len(f.paid) <= Len(f.listed)
  /\ f.hooked /\ f.phase = "body" => Len(f.paid) = Len(f.listed)
  /\ \A k \in DOMAIN f.paid :
       f.paid[k] # NoToken => f.paid[k].call = f.call /\ f.paid[k] \notin f.saved.spent
  /\ f.phase \in {"pre", "body"} =>
       \A k \in DOMAIN f.paid :
         /\ f.paid[k] # NoToken => f.paid[k].policy = f.listed[k]
         /\ ~f.dry /\ f.listed[k] \in CallPolicies => f.paid[k] # NoToken
  /\ \A k, l \in DOMAIN f.paid :
       k # l /\ f.paid[k] # NoToken => f.paid[k] # f.paid[l]

\* The tokens spent before and by a frame are among S.
SpentWithin(f, S) ==
  /\ f.saved.spent \subseteq S
  /\ \A k \in DOMAIN f.paid : f.paid[k] # NoToken => f.paid[k] \in S

StackOK ==
  /\ \A i \in DOMAIN frames :
       /\ frames[i].call.origin = TxOrigin
       /\ FrameOK(frames[i])
       /\ WorldOK(frames[i].saved, TxOrigin)
       /\ SpentWithin(frames[i], world.spent)
  /\ \A i, j \in DOMAIN frames :
       i < j => SpentWithin(frames[i], frames[j].saved.spent)

IInv ==
  /\ TypeOK
  /\ StackOK
  /\ frames # <<>> => WorldOK(world, TxOrigin) /\ Quiet(frames[1].saved)
  /\ frames = <<>> => HistoryOK(world) /\ TokensOK(world) /\ Quiet(world)
-----------------------------------------------------------------------------
(* What the operators on worlds return *)

\* A grant is a sequence of approved calls with a length and a nonce.
LEMMA GrantTypes ==
  ASSUME NEW g \in Grants
  PROVE  g.hashes \in Seq(Calls) /\ Len(g.hashes) \in 0 .. MaxSlots /\ g.nonce \in Nat
BY ConstantsAssumption DEF Grants

\* The components of a world have the types its fields declare.
LEMMA WorldTypes ==
  ASSUME NEW w \in Worlds
  PROVE  /\ \A p \in CallPolicies :
              /\ w.len[p] \in 0 .. MaxSlots
              /\ w.len[p] \in Nat
              /\ \A o \in Origins : w.nonces[p][o] \in Nat /\ w.log[p][o] \in Seq(Grants)
         /\ \A t \in w.spent :
              /\ t.policy \in CallPolicies /\ t.origin \in Origins
              /\ t.nonce \in Nat /\ t.index \in Nat /\ t.call \in Calls
<1>1. ASSUME NEW p \in CallPolicies
      PROVE  w.len[p] \in 0 .. MaxSlots /\ w.len[p] \in Nat
  <2>1. w.len \in [CallPolicies -> 0 .. MaxSlots]
    BY DEF Worlds
  <2> QED BY <2>1, ConstantsAssumption
<1>2. ASSUME NEW p \in CallPolicies, NEW o \in Origins
      PROVE  w.nonces[p][o] \in Nat /\ w.log[p][o] \in Seq(Grants)
  <2>1. w.nonces \in [CallPolicies -> [Origins -> Nat]]
    BY DEF Worlds
  <2>2. w.log \in [CallPolicies -> [Origins -> Seq(Grants)]]
    BY DEF Worlds
  <2>3. w.nonces[p][o] \in Nat
    BY <2>1
  <2>4. w.log[p][o] \in Seq(Grants)
    BY Zenon, <2>2
  <2> QED BY <2>3, <2>4
<1>3. ASSUME NEW t \in w.spent
      PROVE  /\ t.policy \in CallPolicies /\ t.origin \in Origins
             /\ t.nonce \in Nat /\ t.index \in Nat /\ t.call \in Calls
  <2>1. t \in Tokens
    BY DEF Worlds
  <2> QED BY <2>1, ConstantsAssumption DEF Tokens
<1> QED BY <1>1, <1>2, <1>3

\* The fields of the worlds that approvals are kept in are functions.
LEMMA WorldFunctions ==
  ASSUME NEW w \in Worlds
  PROVE  /\ w.nonces \in [CallPolicies -> [Origins -> Nat]]
         /\ w.log \in [CallPolicies -> [Origins -> Seq(Grants)]]
         /\ w.len \in [CallPolicies -> 0 .. MaxSlots]
         /\ w.slots \in [CallPolicies -> [1 .. MaxSlots -> Calls \cup {ZeroHash}]]
         /\ w.spent \subseteq Tokens
BY DEF Worlds

\* approveCalls leaves a world of the right type.
LEMMA GrantedType ==
  ASSUME NEW w \in Worlds, NEW p \in CallPolicies, NEW l \in ApprovalLists,
         NEW o \in Origins, NEW n \in Nat
  PROVE  Granted(w, p, l, o, n) \in Worlds
<1>1. l \in Seq(Calls) /\ Len(l) \in 0 .. MaxSlots
  BY ConstantsAssumption
<1>2. Stored(w.slots[p], l) \in [1 .. MaxSlots -> Calls \cup {ZeroHash}]
  BY <1>1, ConstantsAssumption DEF Stored, Worlds
<1>3. Append(w.log[p][o], [hashes |-> l, nonce |-> n]) \in Seq(Grants)
  <2>1. w.log[p][o] \in Seq(Grants)
    BY DEF Worlds
  <2>2. [hashes |-> l, nonce |-> n] \in Grants
    BY DEF Grants
  <2> QED BY <2>1, <2>2
<1>4. [w.len EXCEPT ![p] = Len(l)] \in [CallPolicies -> 0 .. MaxSlots]
  BY <1>1 DEF Worlds
<1>5. [w.slots EXCEPT ![p] = Stored(w.slots[p], l)]
        \in [CallPolicies -> [1 .. MaxSlots -> Calls \cup {ZeroHash}]]
  BY <1>2 DEF Worlds
<1>6. [w.nonces EXCEPT ![p][o] = n + 1] \in [CallPolicies -> [Origins -> Nat]]
  BY DEF Worlds
<1>7. [w.log EXCEPT ![p][o] = Append(w.log[p][o], [hashes |-> l, nonce |-> n])]
        \in [CallPolicies -> [Origins -> Seq(Grants)]]
  BY <1>3 DEF Worlds
<1>8. Granted(w, p, l, o, n) =
        [w EXCEPT !.len = [w.len EXCEPT ![p] = Len(l)],
                  !.slots = [w.slots EXCEPT ![p] = Stored(w.slots[p], l)],
                  !.nonces = [w.nonces EXCEPT ![p][o] = n + 1],
                  !.log = [w.log EXCEPT ![p][o] =
                             Append(w.log[p][o], [hashes |-> l, nonce |-> n])]]
  BY Zenon DEF Granted
<1> QED BY <1>4, <1>5, <1>6, <1>7, <1>8 DEF Worlds

\* approveCalls writes fresh slots that agree with the grant it records, and
\* uses up its nonce.
LEMMA GrantedOK ==
  ASSUME NEW w \in Worlds, NEW p \in CallPolicies, NEW l \in ApprovalLists,
         NEW o \in Origins, WorldOK(w, o)
  PROVE  WorldOK(Granted(w, p, l, o, w.nonces[p][o]), o)
<1> DEFINE n == w.nonces[p][o]
           g == Granted(w, p, l, o, n)
           e == [hashes |-> l, nonce |-> n]
<1>1. /\ g.nonces = [w.nonces EXCEPT ![p][o] = n + 1]
      /\ g.log = [w.log EXCEPT ![p][o] = Append(w.log[p][o], e)]
      /\ g.len = [w.len EXCEPT ![p] = Len(l)]
      /\ g.slots = [w.slots EXCEPT ![p] = Stored(w.slots[p], l)]
      /\ g.spent = w.spent
  BY DEF Granted, Worlds
<1>2. n \in Nat /\ w.log[p][o] \in Seq(Grants) /\ e \in Grants
  BY WorldTypes DEF Grants
<1>0. e.hashes = l /\ e.nonce = n
  OBVIOUS
<1> HIDE DEF g, e
<1>3. /\ Len(w.log[p][o]) = n
      /\ Len(g.log[p][o]) = n + 1
      /\ g.log[p][o][n + 1] = e
      /\ \A i \in 1 .. n : g.log[p][o][i] = w.log[p][o][i]
  BY <1>1, <1>2 DEF WorldOK, HistoryOK, Worlds
<1>4. \A q \in CallPolicies, r \in Origins :
        q # p \/ r # o => g.log[q][r] = w.log[q][r] /\ g.nonces[q][r] = w.nonces[q][r]
  BY <1>1, WorldFunctions
<1>5. HistoryOK(g)
  <2> SUFFICES ASSUME NEW q \in CallPolicies, NEW r \in Origins
               PROVE  /\ Len(g.log[q][r]) = g.nonces[q][r]
                      /\ \A i \in 1 .. Len(g.log[q][r]) : g.log[q][r][i].nonce = i - 1
    BY DEF HistoryOK
  <2>1. /\ Len(w.log[q][r]) = w.nonces[q][r]
        /\ \A i \in 1 .. Len(w.log[q][r]) : w.log[q][r][i].nonce = i - 1
    BY DEF WorldOK, HistoryOK
  <2>2. CASE q = p /\ r = o
    <3>1. g.nonces[q][r] = n + 1
      BY <2>2, <1>1, WorldFunctions
    <3>2. \A i \in 1 .. n + 1 : i \in 1 .. n \/ i = n + 1
      BY <1>2
    <3>3. \A i \in 1 .. n : g.log[q][r][i].nonce = i - 1
      BY <2>1, <2>2, <1>3
    <3>4. g.log[q][r][n + 1].nonce = (n + 1) - 1
      BY <2>2, <1>0, <1>2, <1>3
    <3>5. Len(g.log[q][r]) = n + 1
      BY <2>2, <1>3
    <3> QED BY <3>1, <3>2, <3>3, <3>4, <3>5
  <2>3. CASE q # p \/ r # o
    BY <2>1, <2>3, <1>4
  <2> QED BY <2>2, <2>3
<1>6. TokensOK(g)
  <2> SUFFICES ASSUME NEW t \in w.spent
               PROVE  /\ t.nonce < Len(g.log[t.policy][t.origin])
                      /\ GrantOf(g, t) = GrantOf(w, t)
    BY <1>1 DEF WorldOK, TokensOK
  <2>1. /\ t.policy \in CallPolicies /\ t.origin \in Origins /\ t.nonce \in Nat
        /\ t.nonce < Len(w.log[t.policy][t.origin])
    BY WorldTypes DEF WorldOK, TokensOK
  <2>2. CASE t.policy = p /\ t.origin = o
    <3>1. t.nonce + 1 \in 1 .. n
      BY <2>1, <2>2, <1>2, <1>3
    <3>2. g.log[p][o][t.nonce + 1] = w.log[p][o][t.nonce + 1]
      BY <3>1, <1>3
    <3>3. t.nonce < Len(g.log[p][o])
      BY <2>1, <2>2, <1>2, <1>3
    <3> QED BY <3>2, <3>3, <2>2 DEF GrantOf
  <2>3. CASE t.policy # p \/ t.origin # o
    BY <2>1, <2>3, <1>4 DEF GrantOf
  <2> QED BY <2>2, <2>3
<1>7. SlotsOK(g, o)
  <2> SUFFICES ASSUME NEW q \in CallPolicies, g.len[q] > 0
               PROVE  LET m == g.nonces[q][o] IN
                      /\ m > 0
                      /\ g.len[q] <= Len(g.log[q][o][m].hashes)
                      /\ \A i \in 1 .. g.len[q] : g.slots[q][i] = g.log[q][o][m].hashes[i]
                      /\ \A t \in g.spent :
                           t.policy = q /\ t.origin = o /\ t.nonce = m - 1 => t.index > g.len[q]
    BY DEF SlotsOK
  <2>1. CASE q = p
    <3>1. g.nonces[q][o] = n + 1 /\ g.len[q] = Len(l) /\ g.slots[q] = Stored(w.slots[p], l)
      BY <2>1, <1>1, WorldFunctions
    <3>2. g.log[q][o][n + 1].hashes = l
      BY <2>1, <1>3, <1>0
    <3>3. \A i \in 1 .. Len(l) : Stored(w.slots[p], l)[i] = l[i]
      BY ConstantsAssumption DEF Stored
    <3>4. \A t \in w.spent : t.policy = p /\ t.origin = o => t.nonce < n
      BY <1>3 DEF WorldOK, TokensOK
    <3>5. \A t \in w.spent : ~(t.policy = p /\ t.origin = o /\ t.nonce = n)
      BY <3>4, <1>2
    <3>6. Len(l) \in Nat
      BY ConstantsAssumption
    <3>7. (n + 1) - 1 = n /\ n + 1 > 0
      BY <1>2
    <3> QED BY <3>1, <3>2, <3>3, <3>5, <3>6, <3>7, <2>1, <1>1
  <2>2. CASE q # p
    <3>1. /\ g.nonces[q][o] = w.nonces[q][o] /\ g.log[q][o] = w.log[q][o]
          /\ g.len[q] = w.len[q] /\ g.slots[q] = w.slots[q] /\ g.spent = w.spent
      BY <2>2, <1>1, <1>4, WorldFunctions
    <3> QED BY <3>1 DEF WorldOK, SlotsOK
  <2> QED BY <2>1, <2>2
<1> QED BY <1>5, <1>6, <1>7 DEF WorldOK, g

\* The consumption of the accepted entry keeps slots, grants and the record of
\* spent entries in agreement, and spends an entry not spent before.
LEMMA PoppedOK ==
  ASSUME NEW w \in Worlds, NEW p \in CallPolicies, NEW call \in Calls,
         WorldOK(w, call.origin), CallAccepted(w, p, call)
  PROVE  /\ Popped(w, p, call) \in Worlds
         /\ WorldOK(Popped(w, p, call), call.origin)
         /\ Popped(w, p, call).spent = w.spent \cup {TokenOf(w, p, call)}
         /\ TokenOf(w, p, call) \in Tokens
         /\ TokenOf(w, p, call) \notin w.spent
<1> DEFINE o == call.origin
           n == w.nonces[p][o]
           g == Popped(w, p, call)
           t == TokenOf(w, p, call)
<1>1. /\ g.nonces = w.nonces
      /\ g.log = w.log
      /\ g.len = [w.len EXCEPT ![p] = w.len[p] - 1]
      /\ g.slots = w.slots
      /\ g.spent = w.spent \cup {t}
  BY DEF Popped, Worlds
<1>2. o \in Origins /\ n \in Nat /\ w.len[p] \in 1 .. MaxSlots
  <2>1. o \in Origins
    BY DEF Calls
  <2> QED BY <2>1, WorldTypes, ConstantsAssumption DEF CallAccepted
<1>4. /\ t.policy = p /\ t.origin = o /\ t.nonce = n - 1
      /\ t.index = w.len[p] /\ t.call = call
  BY DEF TokenOf
<1>11. WorldOK(w, o) /\ w.len[p] > 0 /\ w.slots[p][w.len[p]] = call
  BY DEF CallAccepted
<1>14. t = [policy |-> p, origin |-> o, nonce |-> n - 1, index |-> w.len[p], call |-> call]
  BY DEF TokenOf
<1> HIDE DEF n, o, g, t
<1>12. n = w.nonces[p][o]
  BY DEF n
<1>3. /\ n > 0
      /\ Len(w.log[p][o]) = n
      /\ w.len[p] <= Len(w.log[p][o][n].hashes)
      /\ w.log[p][o][n].hashes[w.len[p]] = call
      /\ \A s \in w.spent :
           s.policy = p /\ s.origin = o /\ s.nonce = n - 1 => s.index > w.len[p]
  <2>1. /\ n > 0
        /\ w.len[p] <= Len(w.log[p][o][n].hashes)
        /\ \A i \in 1 .. w.len[p] : w.slots[p][i] = w.log[p][o][n].hashes[i]
        /\ \A s \in w.spent :
             s.policy = p /\ s.origin = o /\ s.nonce = n - 1 => s.index > w.len[p]
    BY <1>11, <1>12 DEF WorldOK, SlotsOK
  <2>2. w.len[p] \in 1 .. w.len[p]
    BY <1>2
  <2> QED BY <2>1, <2>2, <1>11, <1>2, <1>12 DEF WorldOK, HistoryOK
<1>13. w.log[p][o][n] \in Grants
  BY <1>2, <1>3, WorldTypes
<1>5. t \in Tokens
  BY <1>2, <1>3, <1>14 DEF Tokens
<1>6. t \notin w.spent
  BY <1>2, <1>3, <1>4
<1>7. g \in Worlds
  <2>1. [w.len EXCEPT ![p] = w.len[p] - 1] \in [CallPolicies -> 0 .. MaxSlots]
    BY <1>2, ConstantsAssumption, WorldFunctions
  <2>2. w.spent \cup {t} \in SUBSET Tokens
    BY <1>5 DEF Worlds
  <2>3. g = [w EXCEPT !.len = [w.len EXCEPT ![p] = w.len[p] - 1], !.spent = w.spent \cup {t}]
    BY Zenon DEF Popped, g, t
  <2> QED BY <2>1, <2>2, <2>3 DEF Worlds
<1>8. HistoryOK(g)
  BY <1>1, <1>11 DEF WorldOK, HistoryOK
<1>9. TokensOK(g)
  <2> SUFFICES ASSUME NEW s \in g.spent
               PROVE  /\ s.nonce < Len(w.log[s.policy][s.origin])
                      /\ s.index \in 1 .. Len(GrantOf(w, s).hashes)
                      /\ GrantOf(w, s).hashes[s.index] = s.call
    BY <1>1 DEF TokensOK, GrantOf
  <2>1. CASE s \in w.spent
    BY <2>1, <1>11 DEF WorldOK, TokensOK
  <2>2. CASE s = t
    <3>1. s.nonce + 1 = n
      BY <2>2, <1>2, <1>4
    <3>2. GrantOf(w, s) = w.log[p][o][n]
      BY <2>2, <3>1, <1>4 DEF GrantOf
    <3>3. w.log[p][o][n].hashes \in Seq(Calls)
      BY <1>13, GrantTypes
    <3>4. w.len[p] \in 1 .. Len(w.log[p][o][n].hashes)
      BY <1>2, <1>3, <3>3
    <3>5. n - 1 < n
      BY <1>2
    <3> QED BY <2>2, <3>2, <3>4, <3>5, <1>3, <1>4
  <2> QED BY <2>1, <2>2, <1>1
<1>10. SlotsOK(g, o)
  <2> SUFFICES ASSUME NEW q \in CallPolicies, g.len[q] > 0
               PROVE  LET m == g.nonces[q][o] IN
                      /\ m > 0
                      /\ g.len[q] <= Len(g.log[q][o][m].hashes)
                      /\ \A i \in 1 .. g.len[q] : g.slots[q][i] = g.log[q][o][m].hashes[i]
                      /\ \A s \in g.spent :
                           s.policy = q /\ s.origin = o /\ s.nonce = m - 1 => s.index > g.len[q]
    BY DEF SlotsOK
  <2>1. w.len[q] \in Nat /\ g.len[q] \in Nat /\ g.len[q] <= w.len[q] /\ w.len[q] > 0
    BY <1>1, <1>2, WorldTypes, WorldFunctions
  <2>2. \A s \in w.spent : s.index \in Nat
    BY WorldTypes
  <2> DEFINE m == w.nonces[q][o]
  <2>3. /\ m > 0
        /\ w.len[q] <= Len(w.log[q][o][m].hashes)
        /\ \A i \in 1 .. w.len[q] : w.slots[q][i] = w.log[q][o][m].hashes[i]
        /\ \A s \in w.spent :
             s.policy = q /\ s.origin = o /\ s.nonce = m - 1 => s.index > w.len[q]
    BY <2>1, <1>11 DEF WorldOK, SlotsOK
  <2>4. Len(w.log[q][o][m].hashes) \in Nat
    <3>1. m = Len(w.log[q][o]) /\ m \in Nat
      BY <1>2, <1>11, WorldTypes DEF WorldOK, HistoryOK
    <3>2. w.log[q][o][m] \in Grants
      BY <2>3, <3>1, <1>2, WorldTypes
    <3> QED BY <3>2, GrantTypes
  <2>5. t.policy = q => t.index > g.len[q]
    BY <1>1, <1>2, <1>4, WorldFunctions
  <2> HIDE DEF m
  <2>6. g.len[q] <= Len(w.log[q][o][m].hashes)
    BY <2>1, <2>3, <2>4
  <2>7. \A s \in g.spent :
          s.policy = q /\ s.origin = o /\ s.nonce = m - 1 => s.index > g.len[q]
    BY <2>1, <2>2, <2>3, <2>5, <1>1
  <2>8. \A i \in 1 .. g.len[q] : w.slots[q][i] = w.log[q][o][m].hashes[i]
    BY <2>1, <2>3
  <2>9. g.nonces[q][o] = m /\ g.log = w.log /\ g.slots = w.slots
    BY <1>1 DEF m
  <2> QED BY <2>3, <2>6, <2>7, <2>8, <2>9
<1> QED BY <1>1, <1>5, <1>6, <1>7, <1>8, <1>9, <1>10 DEF WorldOK, g, t, o

\* Configuration does not touch what WorldOK speaks of.
LEMMA SameApprovals ==
  ASSUME NEW w, NEW v, NEW o, WorldOK(w, o),
         v.nonces = w.nonces, v.log = w.log, v.len = w.len,
         v.slots = w.slots, v.spent = w.spent
  PROVE  WorldOK(v, o)
<1>1. HistoryOK(v)
  BY DEF WorldOK, HistoryOK
<1>2. TokensOK(v)
  BY DEF WorldOK, TokensOK, GrantOf
<1>3. SlotsOK(v, o)
  BY DEF WorldOK, SlotsOK
<1> QED BY <1>1, <1>2, <1>3 DEF WorldOK

\* The end of a transaction empties the slots and disturbs nothing else.
LEMMA DiscardedOK ==
  ASSUME NEW w \in Worlds, HistoryOK(w), TokensOK(w)
  PROVE  /\ Discarded(w) \in Worlds
         /\ HistoryOK(Discarded(w)) /\ TokensOK(Discarded(w)) /\ Quiet(Discarded(w))
<1>1. [p \in CallPolicies |-> 0] \in [CallPolicies -> 0 .. MaxSlots]
  BY ConstantsAssumption
<1>2. [p \in CallPolicies |-> [i \in 1 .. MaxSlots |-> ZeroHash]]
        \in [CallPolicies -> [1 .. MaxSlots -> Calls \cup {ZeroHash}]]
  OBVIOUS
<1>3. Discarded(w) \in Worlds
  BY <1>1, <1>2 DEF Discarded, Worlds
<1>4. /\ Discarded(w).nonces = w.nonces /\ Discarded(w).log = w.log
      /\ Discarded(w).spent = w.spent /\ Discarded(w).len = [p \in CallPolicies |-> 0]
  BY DEF Discarded, Worlds
<1>5. HistoryOK(Discarded(w))
  BY <1>4 DEF HistoryOK
<1>6. TokensOK(Discarded(w))
  BY <1>4 DEF TokensOK, GrantOf
<1>7. Quiet(Discarded(w))
  BY <1>4 DEF Quiet
<1> QED BY <1>3, <1>5, <1>6, <1>7

\* A world with empty slots agrees with every origin.
LEMMA QuietSlots ==
  ASSUME NEW w, NEW o, Quiet(w), HistoryOK(w), TokensOK(w)
  PROVE  WorldOK(w, o)
BY DEF Quiet, WorldOK, SlotsOK

-----------------------------------------------------------------------------
(* The four ways in which a step changes the stack *)

\* The components of a frame have the types its fields declare.
LEMMA FrameTypes ==
  ASSUME NEW f \in Frames
  PROVE  /\ f.call \in Calls /\ f.saved \in Worlds
         /\ f.phase \in {"pre", "body", "post"}
         /\ f.hooked \in BOOLEAN /\ f.dry \in BOOLEAN
         /\ f.listed \in Seq(Policies) /\ f.next \in Nat \ {0}
         /\ f.paid \in Seq(Tokens \cup {NoToken})
BY DEF Frames

\* A stack that is not empty has a first and a last frame.
LEMMA StackTypes ==
  ASSUME TypeOK, frames # <<>>
  PROVE  /\ Len(frames) \in Nat \ {0}
         /\ DOMAIN frames = 1 .. Len(frames)
         /\ 1 \in DOMAIN frames /\ Len(frames) \in DOMAIN frames
         /\ \A i \in DOMAIN frames : frames[i] \in Frames
         /\ Top \in Frames
         /\ TxOrigin \in Origins
<1>1. frames \in Seq(Frames)
  BY DEF TypeOK
<1>2. Len(frames) \in Nat \ {0} /\ DOMAIN frames = 1 .. Len(frames)
  BY <1>1
<1>3. \A i \in DOMAIN frames : frames[i] \in Frames
  BY <1>1
<1>4. frames[1].call \in Calls
  BY <1>2, <1>3, FrameTypes
<1> QED BY <1>2, <1>3, <1>4 DEF Top, TxOrigin, Calls

\* A contract changes the world; the stack stays.
LEMMA ChangeWorld ==
  ASSUME IInv, frames # <<>>, UNCHANGED <<now, signed, frames>>,
         world' \in Worlds, WorldOK(world', TxOrigin), world.spent \subseteq world'.spent
  PROVE  IInv'
<1>1. TypeOK'
  BY DEF IInv, TypeOK
<1>2. TxOrigin' = TxOrigin
  BY DEF TxOrigin
<1>3. StackOK'
  BY <1>2 DEF IInv, StackOK, SpentWithin
<1> QED BY <1>1, <1>2, <1>3 DEF IInv

\* A frame is pushed.
LEMMA PushFrame ==
  ASSUME IInv, frames # <<>>, NEW f \in Frames, f.saved = world,
         f.call.origin = TxOrigin, FrameOK(f), f.paid = <<>>,
         frames' = Append(frames, f), UNCHANGED <<now, signed, world>>
  PROVE  IInv'
<1>1. TypeOK'
  BY DEF IInv, TypeOK
<1>2. /\ Len(frames) \in Nat \ {0}
      /\ DOMAIN frames = 1 .. Len(frames)
      /\ DOMAIN frames' = 1 .. Len(frames) + 1
      /\ \A i \in 1 .. Len(frames) : frames'[i] = frames[i]
      /\ frames'[Len(frames) + 1] = f
      /\ frames' # <<>>
  BY StackTypes DEF IInv, TypeOK
<1>3. TxOrigin' = TxOrigin /\ frames'[1] = frames[1]
  BY <1>2 DEF TxOrigin
<1>4. SpentWithin(f, world.spent)
  BY DEF SpentWithin
<1>5. StackOK'
  <2>1. ASSUME NEW i \in DOMAIN frames'
        PROVE  /\ frames'[i].call.origin = TxOrigin
               /\ FrameOK(frames'[i])
               /\ WorldOK(frames'[i].saved, TxOrigin)
               /\ SpentWithin(frames'[i], world.spent)
    <3>1. CASE i \in 1 .. Len(frames)
      BY <3>1, <1>2 DEF IInv, StackOK
    <3>2. CASE i = Len(frames) + 1
      BY <3>2, <1>2, <1>4 DEF IInv
    <3> QED BY <3>1, <3>2, <1>2
  <2>2. ASSUME NEW i \in DOMAIN frames', NEW j \in DOMAIN frames', i < j
        PROVE  SpentWithin(frames'[i], frames'[j].saved.spent)
    <3>1. i \in 1 .. Len(frames)
      BY <2>2, <1>2
    <3>2. CASE j \in 1 .. Len(frames)
      BY <3>1, <3>2, <2>2, <1>2 DEF IInv, StackOK
    <3>3. CASE j = Len(frames) + 1
      BY <3>1, <3>3, <1>2 DEF IInv, StackOK
    <3> QED BY <3>2, <3>3, <1>2
  <2> QED BY <2>1, <2>2, <1>3 DEF StackOK
<1> QED BY <1>1, <1>2, <1>3, <1>5 DEF IInv

\* The top frame takes a step of its hooks.
LEMMA ReplaceTop ==
  ASSUME IInv, frames # <<>>, NEW f \in Frames, f.saved = Top.saved,
         f.call = Top.call, FrameOK(f),
         frames' = [frames EXCEPT ![Len(frames)] = f], UNCHANGED <<now, signed>>,
         world' \in Worlds, WorldOK(world', TxOrigin), world.spent \subseteq world'.spent,
         \A k \in DOMAIN f.paid : f.paid[k] # NoToken => f.paid[k] \in world'.spent
  PROVE  IInv'
<1>1. /\ Len(frames) \in Nat \ {0}
      /\ DOMAIN frames = 1 .. Len(frames)
      /\ Len(frames) \in DOMAIN frames
      /\ DOMAIN frames' = DOMAIN frames
      /\ \A i \in DOMAIN frames : i # Len(frames) => frames'[i] = frames[i]
      /\ frames'[Len(frames)] = f
      /\ frames' # <<>>
  BY StackTypes DEF IInv, TypeOK
<1>2. TypeOK'
  BY DEF IInv, TypeOK
<1>3. \A i \in DOMAIN frames :
        frames'[i].saved = frames[i].saved /\ frames'[i].call = frames[i].call
  BY <1>1 DEF Top
<1>4. TxOrigin' = TxOrigin /\ frames'[1].saved = frames[1].saved
  BY <1>1, <1>3 DEF TxOrigin
<1>5. ASSUME NEW i \in DOMAIN frames
      PROVE  /\ frames'[i].call.origin = TxOrigin
             /\ FrameOK(frames'[i])
             /\ WorldOK(frames'[i].saved, TxOrigin)
             /\ SpentWithin(frames'[i], world'.spent)
  <2>1. CASE i = Len(frames)
    <3>1. Top.saved.spent \subseteq world'.spent
      BY <1>1 DEF IInv, StackOK, SpentWithin, Top
    <3> QED BY <2>1, <3>1, <1>1, <1>3 DEF IInv, StackOK, SpentWithin, Top
  <2>2. CASE i # Len(frames)
    BY <2>2, <1>1 DEF IInv, StackOK, SpentWithin
  <2> QED BY <2>1, <2>2
<1>6. ASSUME NEW i \in DOMAIN frames, NEW j \in DOMAIN frames, i < j
      PROVE  SpentWithin(frames'[i], frames'[j].saved.spent)
  <2>1. i # Len(frames)
    BY <1>6, <1>1
  <2> QED BY <2>1, <1>1, <1>3, <1>6 DEF IInv, StackOK
<1>7. StackOK'
  BY <1>1, <1>4, <1>5, <1>6 DEF StackOK
<1> QED BY <1>1, <1>2, <1>4, <1>7 DEF IInv

\* The top frame reverts or returns.
LEMMA PopFrame ==
  ASSUME IInv, frames # <<>>, frames' = Below, UNCHANGED <<now, signed>>,
         \/ world' = Top.saved
         \/ world' = IF Len(frames) = 1 THEN Discarded(world) ELSE world
  PROVE  IInv'
<1>1. /\ Len(frames) \in Nat \ {0}
      /\ DOMAIN frames = 1 .. Len(frames)
      /\ frames \in Seq(Frames)
      /\ Top \in Frames
  BY StackTypes DEF IInv, TypeOK
<1>2. /\ frames' \in Seq(Frames)
      /\ DOMAIN frames' = 1 .. Len(frames) - 1
      /\ \A i \in 1 .. Len(frames) - 1 : frames'[i] = frames[i]
      /\ frames' = <<>> <=> Len(frames) = 1
  <2>1. frames' = SubSeq(frames, 1, Len(frames) - 1)
    BY DEF Below
  <2>2. frames' \in Seq(Frames) /\ Len(frames') = Len(frames) - 1
    BY <1>1, <2>1
  <2>3. \A i \in 1 .. Len(frames) - 1 : frames'[i] = frames[i]
    BY <1>1, <2>1
  <2>4. DOMAIN frames' = 1 .. Len(frames) - 1
    BY <2>2
  <2>5. frames' = <<>> <=> Len(frames) = 1
    <3>1. frames' = <<>> => Len(frames') = 0
      OBVIOUS
    <3>2. frames' # <<>> => Len(frames') # 0
      BY <2>2, EmptySeq
    <3> QED BY <3>1, <3>2, <1>1, <2>2
  <2> QED BY <2>2, <2>3, <2>4, <2>5
<1>3. /\ world \in Worlds /\ HistoryOK(world) /\ TokensOK(world)
      /\ WorldOK(world, TxOrigin)
      /\ Top.saved \in Worlds /\ WorldOK(Top.saved, TxOrigin)
  <2>1. Top.saved \in Worlds
    BY <1>1, FrameTypes
  <2> QED BY <2>1, <1>1 DEF IInv, TypeOK, StackOK, Top, WorldOK
<1>4. CASE Len(frames) = 1
  <2>1. world' \in Worlds /\ HistoryOK(world') /\ TokensOK(world') /\ Quiet(world')
    <3>1. CASE world' = Top.saved
      BY <3>1, <1>3, <1>4 DEF IInv, Top, WorldOK
    <3>2. CASE world' = Discarded(world)
      BY <3>2, <1>3, DiscardedOK
    <3> QED BY <3>1, <3>2, <1>4
  <2>2. frames' = <<>> /\ DOMAIN frames' = {}
    BY <1>2, <1>4
  <2>3. TypeOK'
    BY <2>1, <1>2 DEF IInv, TypeOK
  <2>4. StackOK'
    BY <2>2 DEF StackOK
  <2> QED BY <2>1, <2>2, <2>3, <2>4 DEF IInv
<1>5. CASE Len(frames) # 1
  <2>1. frames' # <<>> /\ 1 \in DOMAIN frames' /\ frames'[1] = frames[1] /\ TxOrigin' = TxOrigin
    BY <1>1, <1>2, <1>5 DEF TxOrigin
  <2>2. world' \in Worlds /\ WorldOK(world', TxOrigin)
    BY <1>3, <1>5
  <2>3. TypeOK'
    BY <2>2, <1>2 DEF IInv, TypeOK
  <2>4. ASSUME NEW i \in DOMAIN frames'
        PROVE  /\ frames'[i].call.origin = TxOrigin
               /\ FrameOK(frames'[i])
               /\ WorldOK(frames'[i].saved, TxOrigin)
               /\ SpentWithin(frames'[i], world'.spent)
    <3>1. i \in DOMAIN frames /\ Len(frames) \in DOMAIN frames /\ i < Len(frames)
      BY <1>1, <1>2
    <3>2. SpentWithin(frames[i], world.spent) /\ SpentWithin(frames[i], Top.saved.spent)
      BY <3>1 DEF IInv, StackOK, Top
    <3> QED BY <3>1, <3>2, <1>2, <1>5 DEF IInv, StackOK
  <2>5. \A i, j \in DOMAIN frames' : i < j => SpentWithin(frames'[i], frames'[j].saved.spent)
    BY <1>1, <1>2, SMTT(20) DEF IInv, StackOK
  <2>6. StackOK'
    BY <2>1, <2>4, <2>5 DEF StackOK
  <2> QED BY <2>1, <2>2, <2>3, <2>6 DEF IInv
<1> QED BY <1>4, <1>5

-----------------------------------------------------------------------------
(* Every step keeps the invariant *)

\* The worlds that the contracts may start from satisfy the invariant.
LEMMA InitIInv ==
  ASSUME Init
  PROVE  IInv
<1>1. TypeOK /\ frames = <<>>
  BY InitialWorldsAssumption, ConstantsAssumption DEF Init, TypeOK
<1>2. /\ world.nonces = [p \in CallPolicies |-> [o \in Origins |-> 0]]
      /\ world.log = [p \in CallPolicies |-> [o \in Origins |-> <<>>]]
      /\ world.len = [p \in CallPolicies |-> 0]
      /\ world.spent = {}
  BY InitialWorldsAssumption DEF Init
<1>3. HistoryOK(world) /\ TokensOK(world) /\ Quiet(world)
  BY <1>2 DEF HistoryOK, TokensOK, Quiet
<1>4. StackOK
  BY <1>1 DEF StackOK
<1> QED BY <1>1, <1>3, <1>4 DEF IInv

\* Steps of the code that approves calls.
LEMMA ApproveStep ==
  ASSUME IInv, Approve
  PROVE  IInv'
<1>1. ASSUME NEW p \in CallPolicies, NEW l \in ApprovalLists, NEW o \in Origins,
             NEW e, NEW n, InBody, ValidApproval(p, l, e, o, n),
             CallEndsIn(Granted(world, p, l, o, n))
      PROVE  IInv'
  <2>1. world \in Worlds /\ frames # <<>> /\ o = TxOrigin /\ n = world.nonces[p][o]
    BY <1>1 DEF IInv, TypeOK, InBody, ValidApproval
  <2>2. n \in Nat
    BY <2>1, WorldTypes
  <2>3. world' = Granted(world, p, l, o, n) /\ UNCHANGED <<now, signed, frames>>
    BY <1>1 DEF CallEndsIn
  <2>4. world' \in Worlds
    BY <2>1, <2>2, <2>3, GrantedType
  <2>5. WorldOK(world, o)
    BY <2>1 DEF IInv
  <2>6. WorldOK(world', TxOrigin)
    BY <2>1, <2>3, <2>5, GrantedOK
  <2>7. world'.spent = world.spent
    BY <2>1, <2>3 DEF Granted, Worlds
  <2> QED BY <2>1, <2>3, <2>4, <2>6, <2>7, ChangeWorld
<1>2. ASSUME NEW p \in CallPolicies, NEW l \in ApprovalLists, NEW e, NEW o \in Origins,
             NEW n, ApproveCalls(p, l, e, o, n)
      PROVE  IInv'
  BY <1>1, <1>2 DEF ApproveCalls
<1>3. ASSUME NEW m \in signed, ApproveCallsViaSignature(m)
      PROVE  IInv'
  <2>1. m.policy \in CallPolicies /\ m.hashes \in ApprovalLists /\ m.origin \in Origins
    BY DEF IInv, TypeOK, Messages
  <2> QED BY <1>1, <1>3, <2>1 DEF ApproveCallsViaSignature
<1> QED BY <1>2, <1>3 DEF Approve

\* Removal from an array keeps the type of its elements (_removePolicyFromArray).
LEMMA SwapRemoveType ==
  ASSUME NEW S, NEW s \in Seq(S), NEW x, PolicyFound(s, x)
  PROVE  SwapRemove(s, x) \in Seq(S)
<1>1. Len(s) \in Nat \ {0} /\ DOMAIN s = 1 .. Len(s)
  BY DEF PolicyFound
<1>2. SwapRemove(s, x) \in [1 .. Len(s) - 1 -> S]
  BY <1>1 DEF SwapRemove
<1> QED BY <1>1, <1>2

\* Steps that configure the contracts leave approvals alone.
LEMMA ConfigureStep ==
  ASSUME IInv, Configure
  PROVE  IInv'
<1>1. /\ InBody /\ UNCHANGED <<now, signed, frames>>
      /\ world' \in Worlds
      /\ world'.nonces = world.nonces /\ world'.log = world.log /\ world'.len = world.len
      /\ world'.slots = world.slots /\ world'.spent = world.spent
  <2> DEFINE Kept == /\ InBody /\ UNCHANGED <<now, signed, frames>>
                     /\ world' \in Worlds
                     /\ world'.nonces = world.nonces /\ world'.log = world.log
                     /\ world'.len = world.len
                     /\ world'.slots = world.slots /\ world'.spent = world.spent
  <2>0. world \in Worlds
    BY DEF IInv, TypeOK
  <2>1. ASSUME NEW p \in CallPolicies, NEW b \in BOOLEAN, SetExecutorStatus(p, b)
        PROVE  Kept
    BY <2>0, <2>1 DEF SetExecutorStatus, CallEndsIn, Worlds
  <2>2. ASSUME NEW p \in CallPolicies, NEW cs \in SUBSET Consumers, NEW as \in SUBSET cs,
               SetConsumersStatuses(p, cs, as)
        PROVE  Kept
    BY <2>0, <2>2 DEF SetConsumersStatuses, CallEndsIn, Worlds
  <2>3. ASSUME NEW p \in CallPolicies, NEW a \in SignerKeys, NEW b \in BOOLEAN,
               SetSigner(p, a, b)
        PROVE  Kept
    BY <2>0, <2>3, ConstantsAssumption DEF SetSigner, CallEndsIn, Worlds
  <2>4. ASSUME NEW p \in Policies, NEW b \in BOOLEAN, SetPolicyStatus(p, b)
        PROVE  Kept
    BY <2>0, <2>4 DEF SetPolicyStatus, CallEndsIn, Worlds
  <2>5. ASSUME NEW c \in Consumers, NEW b \in BOOLEAN,
               SetConsumerDryrunStatus(c, b) \/ SetFirewall(c, b)
        PROVE  Kept
    <3>1. CASE SetConsumerDryrunStatus(c, b)
      BY <2>0, <3>1 DEF SetConsumerDryrunStatus, CallEndsIn, Worlds
    <3>2. CASE SetFirewall(c, b)
      BY <2>0, <3>2 DEF SetFirewall, CallEndsIn, Worlds
    <3> QED BY <2>5, <3>1, <3>2
  <2>6. ASSUME NEW c \in Consumers, NEW m \in Methods, NEW p \in Policies,
               AddPolicy(c, m, p) \/ RemovePolicy(c, m, p)
        PROVE  Kept
    <3>1. world.byMethod[c][m] \in Seq(Policies)
      BY <2>0 DEF Worlds
    <3>2. CASE AddPolicy(c, m, p)
      <4>1. Append(world.byMethod[c][m], p) \in Seq(Policies)
        BY <3>1
      <4> QED BY <2>0, <3>2, <4>1 DEF AddPolicy, CallEndsIn, Worlds
    <3>3. CASE RemovePolicy(c, m, p)
      <4>1. SwapRemove(world.byMethod[c][m], p) \in Seq(Policies)
        BY <3>1, <3>3, SwapRemoveType DEF RemovePolicy
      <4> QED BY <2>0, <3>3, <4>1 DEF RemovePolicy, CallEndsIn, Worlds
    <3> QED BY <2>6, <3>2, <3>3
  <2>7. ASSUME NEW c \in Consumers, NEW p \in Policies,
               AddGlobalPolicy(c, p) \/ RemoveGlobalPolicy(c, p)
        PROVE  Kept
    <3>1. world.global[c] \in Seq(Policies)
      BY <2>0 DEF Worlds
    <3>2. CASE AddGlobalPolicy(c, p)
      <4>1. Append(world.global[c], p) \in Seq(Policies)
        BY <3>1
      <4> QED BY <2>0, <3>2, <4>1 DEF AddGlobalPolicy, CallEndsIn, Worlds
    <3>3. CASE RemoveGlobalPolicy(c, p)
      <4>1. SwapRemove(world.global[c], p) \in Seq(Policies)
        BY <3>1, <3>3, SwapRemoveType DEF RemoveGlobalPolicy
      <4> QED BY <2>0, <3>3, <4>1 DEF RemoveGlobalPolicy, CallEndsIn, Worlds
    <3> QED BY <2>7, <3>2, <3>3
  <2> QED BY <2>1, <2>2, <2>3, <2>4, <2>5, <2>6, <2>7 DEF Configure
<1>2. frames # <<>> /\ WorldOK(world, TxOrigin)
  BY <1>1 DEF IInv, InBody
<1>3. WorldOK(world', TxOrigin)
  BY <1>1, <1>2, SameApprovals
<1> QED BY <1>1, <1>2, <1>3, ChangeWorld

\* One more policy of the list has run its preExecution.
LEMMA ExtendPaid ==
  ASSUME NEW f \in Frames, FrameOK(f), f.phase = "pre", f.next <= Len(f.listed),
         NEW t \in Tokens \cup {NoToken},
         t # NoToken => /\ t.call = f.call /\ t \notin f.saved.spent
                        /\ t.policy = f.listed[f.next]
                        /\ \A k \in DOMAIN f.paid : f.paid[k] # t,
         ~f.dry /\ f.listed[f.next] \in CallPolicies => t # NoToken
  PROVE  LET g == [f EXCEPT !.next = @ + 1, !.paid = Append(@, t)] IN
         /\ g \in Frames /\ FrameOK(g)
         /\ g.saved = f.saved /\ g.call = f.call
         /\ \A k \in DOMAIN g.paid :
              g.paid[k] = t \/ (k \in DOMAIN f.paid /\ g.paid[k] = f.paid[k])
<1> DEFINE g == [f EXCEPT !.next = @ + 1, !.paid = Append(@, t)]
<1>1. /\ g.call = f.call /\ g.saved = f.saved /\ g.phase = f.phase /\ g.hooked = f.hooked
      /\ g.dry = f.dry /\ g.listed = f.listed
      /\ g.next = f.next + 1 /\ g.paid = Append(f.paid, t)
  BY DEF Frames
<1>2. f.paid \in Seq(Tokens \cup {NoToken}) /\ f.next \in Nat \ {0} /\ Len(f.paid) = f.next - 1
  BY FrameTypes DEF FrameOK
<1>3. /\ g.paid \in Seq(Tokens \cup {NoToken})
      /\ DOMAIN f.paid = 1 .. f.next - 1
      /\ DOMAIN g.paid = 1 .. f.next
      /\ Len(g.paid) = f.next
      /\ g.paid[f.next] = t
      /\ \A k \in 1 .. f.next - 1 : g.paid[k] = f.paid[k]
  BY <1>1, <1>2
<1>4. g \in Frames
  <2>1. f.next + 1 \in Nat \ {0}
    BY <1>2
  <2>2. Append(f.paid, t) \in Seq(Tokens \cup {NoToken})
    BY <1>1, <1>3
  <2> QED BY <2>1, <2>2 DEF Frames
<1> HIDE DEF g
<1>5. \A k \in DOMAIN g.paid : k = f.next \/ k \in DOMAIN f.paid
  BY <1>2, <1>3
<1>6. f.hooked
  BY DEF FrameOK
<1>7. \A k \in DOMAIN g.paid :
        g.paid[k] # NoToken => g.paid[k].call = g.call /\ g.paid[k] \notin g.saved.spent
  BY <1>1, <1>3, <1>5 DEF FrameOK
<1>8. \A k \in DOMAIN g.paid :
        /\ g.paid[k] # NoToken => g.paid[k].policy = g.listed[k]
        /\ ~g.dry /\ g.listed[k] \in CallPolicies => g.paid[k] # NoToken
  BY <1>1, <1>3, <1>5 DEF FrameOK
<1>9. \A k, l \in DOMAIN g.paid :
        k # l /\ g.paid[k] # NoToken => g.paid[k] # g.paid[l]
  <2> SUFFICES ASSUME NEW k \in DOMAIN g.paid, NEW l \in DOMAIN g.paid,
                      k # l, g.paid[k] # NoToken
               PROVE  g.paid[k] # g.paid[l]
    OBVIOUS
  <2>1. CASE k = f.next
    BY <2>1, <1>3, <1>5
  <2>2. CASE l = f.next
    BY <2>2, <1>3, <1>5
  <2>3. CASE k # f.next /\ l # f.next
    BY <2>3, <1>3, <1>5 DEF FrameOK
  <2> QED BY <2>1, <2>2, <2>3
<1>10. FrameOK(g)
  BY <1>1, <1>2, <1>3, <1>6, <1>7, <1>8, <1>9 DEF FrameOK
<1>11. \A k \in DOMAIN g.paid :
         g.paid[k] = t \/ (k \in DOMAIN f.paid /\ g.paid[k] = f.paid[k])
  BY <1>3, <1>5
<1> QED BY <1>1, <1>4, <1>10, <1>11 DEF g

\* Calls, hooks and returns.
LEMMA TransactionStep ==
  ASSUME IInv, Transaction
  PROVE  IInv'
<1>0. world \in Worlds /\ frames \in Seq(Frames) /\ MethodOf \in [Data -> Methods]
  BY ConstantsAssumption DEF IInv, TypeOK
<1>1. ASSUME NEW o \in Origins, NEW d \in Data, BeginTx(o, d)
      PROVE  IInv'
  <2> DEFINE call == [consumer |-> o, sender |-> o, origin |-> o, data |-> d]
             f == PlainFrame(call)
  <2>1. frames = <<>> /\ frames' = <<f>> /\ UNCHANGED <<now, signed, world>>
    BY <1>1 DEF BeginTx
  <2>2. call \in Calls
    BY DEF Calls, Accounts
  <2>3. f \in Frames
    BY <1>0, <2>2 DEF PlainFrame, Frames
  <2>4. f.saved = world /\ f.call = call /\ f.paid = <<>> /\ FrameOK(f)
    BY DEF PlainFrame, FrameOK
  <2> HIDE DEF f
  <2>5. /\ DOMAIN frames' = {1} /\ frames'[1] = f /\ frames' # <<>>
        /\ frames' \in Seq(Frames)
    BY <2>1, <2>3
  <2>6. TxOrigin' = o
    BY <2>4, <2>5 DEF TxOrigin
  <2>7. WorldOK(world, o) /\ Quiet(world)
    BY <2>1, QuietSlots DEF IInv
  <2>8. SpentWithin(f, world.spent)
    BY <2>4 DEF SpentWithin
  <2>9. TypeOK'
    BY <2>1, <2>5 DEF IInv, TypeOK
  <2>10. StackOK'
    BY <2>1, <2>4, <2>5, <2>6, <2>7, <2>8 DEF StackOK
  <2> QED BY <2>1, <2>4, <2>5, <2>6, <2>7, <2>9, <2>10 DEF IInv
<1>2. ASSUME NEW t \in Routers \cup Consumers, NEW d \in Data, Call(t, d)
      PROVE  IInv'
  <2> DEFINE call == [consumer |-> t, sender |-> Self, origin |-> TxOrigin, data |-> d]
  <2>1. frames # <<>> /\ UNCHANGED <<now, signed, world>>
    BY <1>2 DEF Call, InBody
  <2>2. Top \in Frames /\ TxOrigin \in Origins
    BY <2>1, StackTypes DEF IInv
  <2>3. call \in Calls
    <3>1. Top.call \in Calls
      BY <2>2, FrameTypes
    <3>2. Self \in Accounts
      BY <3>1 DEF Self, Calls
    <3> QED BY <2>2, <3>2 DEF Calls, Accounts
  <2>4. CASE t \in Consumers /\ world.firewall[t]
    <3>1. frames' = Append(frames, ProtectedFrame(call))
      BY <1>2, <2>4 DEF Call
    <3>2. PolicyList(world, call) \in Seq(Policies)
      <4>1. MethodOf[call.data] \in Methods /\ call.consumer = t
        BY <1>0
      <4>2. /\ world.byMethod[t][MethodOf[call.data]] \in Seq(Policies)
            /\ world.global[t] \in Seq(Policies)
        BY <1>0, <2>4, <4>1 DEF Worlds
      <4> QED BY <4>1, <4>2 DEF PolicyList
    <3>3. world.dryrun[t] \in BOOLEAN
      BY <1>0, <2>4 DEF Worlds
    <3>4. ProtectedFrame(call) \in Frames
      BY <1>0, <2>3, <3>2, <3>3 DEF ProtectedFrame, Frames
    <3>5. /\ ProtectedFrame(call).saved = world /\ ProtectedFrame(call).call = call
          /\ ProtectedFrame(call).paid = <<>> /\ FrameOK(ProtectedFrame(call))
      BY <2>4, <3>2 DEF ProtectedFrame, FrameOK
    <3> QED BY <2>1, <3>1, <3>4, <3>5, PushFrame
  <2>5. CASE ~(t \in Consumers /\ world.firewall[t])
    <3>1. frames' = Append(frames, PlainFrame(call))
      BY <1>2, <2>5 DEF Call
    <3>2. PlainFrame(call) \in Frames
      BY <1>0, <2>3 DEF PlainFrame, Frames
    <3>3. /\ PlainFrame(call).saved = world /\ PlainFrame(call).call = call
          /\ PlainFrame(call).paid = <<>> /\ FrameOK(PlainFrame(call))
      BY DEF PlainFrame, FrameOK
    <3> QED BY <2>1, <3>1, <3>2, <3>3, PushFrame
  <2> QED BY <2>4, <2>5
<1> DEFINE TopFacts == /\ Top \in Frames /\ FrameOK(Top) /\ WorldOK(world, TxOrigin)
                       /\ Top.call.origin = TxOrigin /\ SpentWithin(Top, world.spent)
                       /\ Top.saved.spent \subseteq world.spent
<1>3. ASSUME frames # <<>>
      PROVE  TopFacts
  BY <1>3, StackTypes DEF IInv, StackOK, Top, SpentWithin
<1>4. CASE PolicyConsumes
  <2> DEFINE t == TokenOf(world, Policy, Top.call)
             g == [Top EXCEPT !.next = @ + 1, !.paid = Append(@, t)]
  <2>1. /\ frames # <<>> /\ Top.phase = "pre" /\ Top.next <= Len(Top.listed)
        /\ Policy \in CallPolicies /\ CallAccepted(world, Policy, Top.call)
        /\ world' = Popped(world, Policy, Top.call)
        /\ frames' = [frames EXCEPT ![Len(frames)] = g]
        /\ UNCHANGED <<now, signed>>
    BY <1>4 DEF PolicyConsumes, InHook, SetTop
  <2>2. TopFacts /\ Top.call \in Calls
    BY <2>1, <1>3, FrameTypes
  <2>3. /\ world' \in Worlds /\ WorldOK(world', TxOrigin)
        /\ world'.spent = world.spent \cup {t}
        /\ t \in Tokens /\ t \notin world.spent
    BY <1>0, <2>1, <2>2, PoppedOK
  <2>4. t # NoToken /\ t.call = Top.call /\ t.policy = Policy
    BY <2>3, ConstantsAssumption DEF TokenOf
  <2>5. t \notin Top.saved.spent
    BY <2>2, <2>3
  <2>6. \A k \in DOMAIN Top.paid : Top.paid[k] # t
    BY <2>2, <2>3, <2>4 DEF SpentWithin
  <2>7. Policy = Top.listed[Top.next]
    BY DEF Policy
  <2> HIDE DEF t
  <2>8. /\ g \in Frames /\ FrameOK(g)
        /\ g.saved = Top.saved /\ g.call = Top.call
        /\ \A k \in DOMAIN g.paid :
             g.paid[k] = t \/ (k \in DOMAIN Top.paid /\ g.paid[k] = Top.paid[k])
    <3>1. Top \in Frames /\ FrameOK(Top) /\ t \in Tokens \cup {NoToken}
      BY <2>2, <2>3
    <3>2. t # NoToken => /\ t.call = Top.call /\ t \notin Top.saved.spent
                         /\ t.policy = Top.listed[Top.next]
                         /\ \A k \in DOMAIN Top.paid : Top.paid[k] # t
      BY <2>4, <2>5, <2>6, <2>7
    <3> HIDE DEF TopFacts
    <3> QED BY <2>1, <2>4, <3>1, <3>2, ExtendPaid, ZenonT(30)
  <2> HIDE DEF g
  <2>9. \A k \in DOMAIN g.paid : g.paid[k] # NoToken => g.paid[k] \in world'.spent
    BY <2>2, <2>3, <2>8 DEF SpentWithin
  <2> QED BY <2>1, <2>3, <2>8, <2>9, ReplaceTop
<1>5. ASSUME InHook, SkipPolicy,
             Top.phase = "pre" => Top.dry \/ Policy \in OtherPolicies
      PROVE  IInv'
  <2>1. frames # <<>> /\ Top.next <= Len(Top.listed) /\ Top.phase \in {"pre", "post"}
    BY <1>5 DEF InHook
  <2>2. TopFacts
    BY <2>1, <1>3
  <2>3. UNCHANGED <<now, signed, world>>
    BY <1>5 DEF SkipPolicy
  <2>4. CASE Top.phase = "pre"
    <3> DEFINE g == [Top EXCEPT !.next = @ + 1, !.paid = Append(@, NoToken)]
    <3>1. frames' = [frames EXCEPT ![Len(frames)] = g]
      BY <1>5, <2>4 DEF SkipPolicy, SetTop
    <3>2. ~Top.dry => Top.listed[Top.next] \notin CallPolicies
      BY <1>5, <2>4, ConstantsAssumption DEF Policy
    <3>3. NoToken \in Tokens \cup {NoToken}
      OBVIOUS
    <3>4. /\ g \in Frames /\ FrameOK(g)
          /\ g.saved = Top.saved /\ g.call = Top.call
          /\ \A k \in DOMAIN g.paid :
               g.paid[k] = NoToken \/ (k \in DOMAIN Top.paid /\ g.paid[k] = Top.paid[k])
      BY <2>1, <2>2, <2>4, <3>2, <3>3, ExtendPaid, ZenonT(30)
    <3> HIDE DEF g
    <3>5. \A k \in DOMAIN g.paid : g.paid[k] # NoToken => g.paid[k] \in world'.spent
      BY <2>2, <2>3, <3>4 DEF SpentWithin
    <3> QED BY <1>0, <2>1, <2>2, <2>3, <3>1, <3>4, <3>5, ReplaceTop
  <2>5. CASE Top.phase = "post"
    <3> DEFINE g == [Top EXCEPT !.next = @ + 1, !.paid = @]
    <3>1. frames' = [frames EXCEPT ![Len(frames)] = g]
      BY <1>5, <2>5 DEF SkipPolicy, SetTop
    <3>5. Top.next + 1 \in Nat \ {0}
      BY <2>2, FrameTypes
    <3>2. /\ g.call = Top.call /\ g.saved = Top.saved /\ g.phase = "post"
          /\ g.hooked = Top.hooked /\ g.paid = Top.paid /\ g.listed = Top.listed
          /\ g \in Frames
      BY <2>2, <2>5, <3>5 DEF Frames
    <3> HIDE DEF g
    <3>3. FrameOK(g)
      BY <2>2, <2>5, <3>2 DEF FrameOK
    <3>4. \A k \in DOMAIN g.paid : g.paid[k] # NoToken => g.paid[k] \in world'.spent
      BY <2>2, <2>3, <3>2 DEF SpentWithin
    <3> QED BY <1>0, <2>1, <2>2, <2>3, <3>1, <3>2, <3>3, <3>4, ReplaceTop
  <2> QED BY <2>1, <2>4, <2>5
<1>6. CASE PolicyPasses
  BY <1>5, <1>6 DEF PolicyPasses, InHook
<1>7. CASE PolicyReverts
  <2>1. CASE Top.dry /\ SkipPolicy
    BY <1>5, <1>7, <2>1 DEF PolicyReverts
  <2>2. CASE RevertTop /\ UNCHANGED <<now, signed>>
    BY <1>7, <2>2, PopFrame DEF PolicyReverts, InHook, RevertTop
  <2> QED BY <1>7, <2>1, <2>2 DEF PolicyReverts
<1>8. CASE HookEnds
  <2>1. frames # <<>> /\ UNCHANGED <<now, signed>>
    BY <1>8 DEF HookEnds
  <2>2. CASE Top.phase = "pre" /\ SetTop([Top EXCEPT !.phase = "body"]) /\ UNCHANGED world
    <3> DEFINE g == [Top EXCEPT !.phase = "body"]
    <3>1. frames' = [frames EXCEPT ![Len(frames)] = g]
      BY <2>2 DEF SetTop
    <3>2. TopFacts /\ Top.next > Len(Top.listed)
      BY <2>1, <1>3, <1>8 DEF HookEnds
    <3>3. /\ g.call = Top.call /\ g.saved = Top.saved /\ g.phase = "body" /\ g.dry = Top.dry
          /\ g.hooked = Top.hooked /\ g.paid = Top.paid /\ g.listed = Top.listed
          /\ g \in Frames
      BY <3>2 DEF Frames
    <3> HIDE DEF g
    <3>4. /\ Top.next \in Nat \ {0} /\ Top.listed \in Seq(Policies)
          /\ Len(Top.paid) = Top.next - 1 /\ Len(Top.paid) <= Len(Top.listed)
      BY <2>2, <3>2, FrameTypes DEF FrameOK
    <3>5. Len(Top.paid) = Len(Top.listed)
      BY <3>2, <3>4
    <3>6. FrameOK(g)
      BY <2>2, <3>2, <3>3, <3>5 DEF FrameOK
    <3>7. \A k \in DOMAIN g.paid : g.paid[k] # NoToken => g.paid[k] \in world'.spent
      BY <2>2, <3>2, <3>3 DEF SpentWithin
    <3> QED BY <1>0, <2>1, <2>2, <3>1, <3>2, <3>3, <3>6, <3>7, ReplaceTop
  <2>3. CASE ReturnTop
    BY <2>1, <2>3, PopFrame DEF ReturnTop
  <2> QED BY <1>8, <2>2, <2>3 DEF HookEnds
<1>9. CASE BodyReturns
  <2>1. frames # <<>> /\ Top.phase = "body" /\ UNCHANGED <<now, signed>>
    BY <1>9 DEF BodyReturns, InBody
  <2>2. CASE ReturnTop
    BY <2>1, <2>2, PopFrame DEF ReturnTop
  <2> DEFINE g == [Top EXCEPT !.phase = "post", !.next = 1,
                              !.dry = world.dryrun[Self],
                              !.listed = PolicyList(world, Top.call)]
  <2>3. CASE Top.hooked /\ SetTop(g) /\ UNCHANGED world
    <3>1. frames' = [frames EXCEPT ![Len(frames)] = g]
      BY <2>3 DEF SetTop
    <3>2. TopFacts
      BY <2>1, <1>3
    <3>3. world.dryrun[Self] \in BOOLEAN /\ PolicyList(world, Top.call) \in Seq(Policies)
      <4>1. Top.call.consumer \in Consumers /\ Top.call.data \in Data
        BY <2>3, <3>2, FrameTypes DEF FrameOK, Calls
      <4>2. /\ world.byMethod[Top.call.consumer][MethodOf[Top.call.data]] \in Seq(Policies)
            /\ world.global[Top.call.consumer] \in Seq(Policies)
        BY <1>0, <4>1 DEF Worlds
      <4>3. world.dryrun[Top.call.consumer] \in BOOLEAN
        BY <1>0, <4>1 DEF Worlds
      <4> QED BY <4>2, <4>3 DEF PolicyList, Self
    <3>4. /\ g.call = Top.call /\ g.saved = Top.saved /\ g.phase = "post"
          /\ g.hooked = Top.hooked /\ g.paid = Top.paid
          /\ g \in Frames
      <4>1. 1 \in Nat \ {0} /\ "post" \in {"pre", "body", "post"}
        OBVIOUS
      <4> QED BY <3>2, <3>3, <4>1 DEF Frames
    <3> HIDE DEF g
    <3>5. FrameOK(g)
      BY <2>3, <3>2, <3>4 DEF FrameOK
    <3>6. \A k \in DOMAIN g.paid : g.paid[k] # NoToken => g.paid[k] \in world'.spent
      BY <2>3, <3>2, <3>4 DEF SpentWithin
    <3> QED BY <1>0, <2>1, <2>3, <3>1, <3>2, <3>4, <3>5, <3>6, ReplaceTop
  <2> QED BY <1>9, <2>2, <2>3 DEF BodyReturns
<1>10. CASE BodyReverts
  BY <1>10, PopFrame DEF BodyReverts, InBody, RevertTop
<1>11. CASE BodyExits
  BY <1>11, PopFrame DEF BodyExits, InBody, ReturnTop
<1> QED BY <1>1, <1>2, <1>4, <1>6, <1>7, <1>8, <1>9, <1>10, <1>11 DEF Transaction

\* Signing and the passing of time keep the invariant.
LEMMA OffChainStep ==
  ASSUME IInv, OffChain
  PROVE  IInv'
<1>1. ASSUME NEW p \in CallPolicies, NEW a \in SignerKeys, NEW l \in ApprovalLists,
             NEW e \in 0 .. MaxTime + 1, NEW o \in Origins, NEW n \in 0 .. MaxNonce,
             Sign([policy |-> p, signer |-> a, hashes |-> l, expiration |-> e,
                   origin |-> o, nonce |-> n])
      PROVE  UNCHANGED <<now, world, frames>> /\ signed' \in SUBSET Messages
  <2>1. a \in Accounts /\ e \in Nat /\ n \in Nat
    BY ConstantsAssumption
  <2>2. [policy |-> p, signer |-> a, hashes |-> l, expiration |-> e,
         origin |-> o, nonce |-> n] \in Messages
    BY <2>1 DEF Messages
  <2>3. signed \in SUBSET Messages
    BY DEF IInv, TypeOK
  <2> QED BY <1>1, <2>2, <2>3 DEF Sign
<1>2. CASE Tick
  <2>1. now' \in 0 .. MaxTime /\ UNCHANGED <<signed, world, frames>>
    BY <1>2, ConstantsAssumption DEF Tick, IInv, TypeOK
  <2> QED BY <2>1 DEF IInv, TypeOK, StackOK, TxOrigin
<1>3. CASE UNCHANGED <<now, world, frames>> /\ signed' \in SUBSET Messages
  BY <1>3 DEF IInv, TypeOK, StackOK, TxOrigin
<1> QED BY <1>1, <1>2, <1>3 DEF OffChain

\* The inductive invariant holds in every reachable state.
LEMMA Invariance == Spec => []IInv
<1>1. Init => IInv
  BY InitIInv
<1>2. IInv /\ [Next]_vars => IInv'
  <2> SUFFICES ASSUME IInv, [Next]_vars
               PROVE  IInv'
    OBVIOUS
  <2>1. CASE UNCHANGED vars
    BY <2>1 DEF vars, IInv, TypeOK, StackOK, TxOrigin
  <2> QED BY <2>1, TransactionStep, ApproveStep, ConfigureStep, OffChainStep DEF Next
<1> QED BY <1>1, <1>2, PTL DEF Spec

-----------------------------------------------------------------------------
(* The theorems *)

\* Every variable keeps its type; in particular the length in slot 0 never
\* leaves its range and a token is always a well-formed entry of an approval
\* (storage of TransientApprovedCallsPolicy, call stack of the firewall).
THEOREM TypeCorrect == Spec => []TypeOK
<1>1. IInv => TypeOK
  BY DEF IInv
<1> QED BY <1>1, Invariance, PTL

\* Under an enforced firewall the body of a protected function runs only if
\* every approved-calls policy listed for it consumed an entry approved for
\* that very call (firewallProtected with preExecution of both contracts).
THEOREM OnlyApprovedCallsRun == Spec => []RunningCallsAreApproved
<1>1. IInv => RunningCallsAreApproved
  <2> SUFFICES ASSUME IInv, NEW i \in DOMAIN frames,
                      frames[i].hooked, frames[i].phase = "body", ~frames[i].dry,
                      NEW k \in DOMAIN frames[i].listed,
                      frames[i].listed[k] \in CallPolicies
               PROVE  LET t == frames[i].paid[k] IN
                      /\ t \in world.spent
                      /\ t.policy = frames[i].listed[k]
                      /\ t.nonce < Len(world.log[t.policy][t.origin])
                      /\ t.index \in DOMAIN GrantOf(world, t).hashes
                      /\ GrantOf(world, t).hashes[t.index] = frames[i].call
    BY DEF RunningCallsAreApproved
  <2> DEFINE f == frames[i]
             t == f.paid[k]
  <2>1. f \in Frames /\ FrameOK(f) /\ SpentWithin(f, world.spent) /\ frames # <<>>
    BY StackTypes DEF IInv, StackOK
  <2>2. k \in DOMAIN f.paid
    BY <2>1, FrameTypes DEF FrameOK
  <2>3. t # NoToken /\ t.policy = f.listed[k] /\ t.call = f.call /\ t \in world.spent
    BY <2>1, <2>2 DEF FrameOK, SpentWithin
  <2>4. world \in Worlds /\ TokensOK(world)
    BY <2>1 DEF IInv, TypeOK, WorldOK
  <2> HIDE DEF t
  <2>5. /\ t.policy \in CallPolicies /\ t.origin \in Origins /\ t.nonce \in Nat
        /\ t.nonce < Len(world.log[t.policy][t.origin])
        /\ t.index \in 1 .. Len(GrantOf(world, t).hashes)
        /\ GrantOf(world, t).hashes[t.index] = t.call
    BY <2>3, <2>4, WorldTypes DEF TokensOK
  <2>6. GrantOf(world, t) \in Grants
    <3>1. world.log[t.policy][t.origin] \in Seq(Grants)
      BY <2>4, <2>5, WorldTypes
    <3>2. t.nonce + 1 \in 1 .. Len(world.log[t.policy][t.origin])
      BY <2>5, <3>1, SMTT(20)
    <3> QED BY <3>1, <3>2 DEF GrantOf
  <2>7. DOMAIN GrantOf(world, t).hashes = 1 .. Len(GrantOf(world, t).hashes)
    BY <2>6, GrantTypes
  <2> QED BY <2>3, <2>5, <2>7 DEF t
<1> QED BY <1>1, Invariance, PTL

\* No two calls of the stack, and no two positions of one call, share an
\* entry of an approval (_popLatestCallHash under nesting and reverts).
THEOREM ApprovalsAreNotShared == Spec => []EachCallHasItsOwnApproval
<1>1. IInv => EachCallHasItsOwnApproval
  <2> SUFFICES ASSUME IInv, NEW i \in DOMAIN frames, NEW j \in DOMAIN frames,
                      NEW k \in DOMAIN frames[i].paid, NEW l \in DOMAIN frames[j].paid,
                      <<i, k>> # <<j, l>>, frames[i].paid[k] # NoToken
               PROVE  frames[i].paid[k] # frames[j].paid[l]
    BY DEF EachCallHasItsOwnApproval
  <2>1. frames # <<>> /\ i \in Nat /\ j \in Nat
    <3>1. frames \in Seq(Frames)
      BY DEF IInv, TypeOK
    <3> QED BY <3>1
  <2>2. CASE i = j
    BY <2>2 DEF IInv, StackOK, FrameOK
  <2>3. CASE i < j
    BY <2>3 DEF IInv, StackOK, FrameOK, SpentWithin
  <2>4. CASE j < i
    BY <2>4 DEF IInv, StackOK, FrameOK, SpentWithin
  <2> QED BY <2>1, <2>2, <2>3, <2>4
<1> QED BY <1>1, Invariance, PTL

\* An entry of an approval is consumed at most once, in one transaction or
\* over many, unless its consumption was rolled back (nonces of the policy).
THEOREM EntriesAreSpentOnce == Spec => SpentOnce
<1>1. IInv /\ PolicyConsumes => TokenOf(world, Policy, Top.call) \notin world.spent
  <2> SUFFICES ASSUME IInv, PolicyConsumes
               PROVE  TokenOf(world, Policy, Top.call) \notin world.spent
    OBVIOUS
  <2>1. /\ frames # <<>> /\ Policy \in CallPolicies
        /\ CallAccepted(world, Policy, Top.call)
    BY DEF PolicyConsumes, InHook
  <2>2. Top.call \in Calls /\ Top.call.origin = TxOrigin
    BY <2>1, StackTypes, FrameTypes DEF IInv, StackOK, Top
  <2>3. world \in Worlds /\ WorldOK(world, Top.call.origin)
    BY <2>1, <2>2 DEF IInv, TypeOK
  <2> QED BY <2>1, <2>2, <2>3, PoppedOK
<1>2. IInv /\ [Next]_vars =>
        [PolicyConsumes => TokenOf(world, Policy, Top.call) \notin world.spent]_vars
  BY <1>1
<1> QED BY <1>2, Invariance, PTL DEF Spec, SpentOnce

\* The approvals in force of one origin all have different nonces: a signed
\* approval takes effect at most once (_validateApprovedCalls).
THEOREM NoReplay == Spec => []ApprovalsNotReplayed
<1>1. IInv => ApprovalsNotReplayed
  <2> SUFFICES ASSUME IInv, NEW p \in CallPolicies, NEW o \in Origins,
                      NEW i \in DOMAIN world.log[p][o], NEW j \in DOMAIN world.log[p][o],
                      i # j
               PROVE  world.log[p][o][i].nonce # world.log[p][o][j].nonce
    BY DEF ApprovalsNotReplayed
  <2>1. world \in Worlds /\ HistoryOK(world)
    BY DEF IInv, TypeOK, WorldOK
  <2>2. world.log[p][o] \in Seq(Grants)
    BY <2>1, WorldTypes
  <2>3. i \in 1 .. Len(world.log[p][o]) /\ j \in 1 .. Len(world.log[p][o])
    BY <2>2
  <2>4. world.log[p][o][i].nonce = i - 1 /\ world.log[p][o][j].nonce = j - 1
    BY <2>1, <2>3 DEF HistoryOK
  <2> QED BY <2>3, <2>4
<1> QED BY <1>1, Invariance, PTL

\* A protected call gives up control with its effects kept only when its post
\* hooks have run to the last policy, whatever is configured in the middle of
\* it, or when its function leaves by an inline assembly return; every other
\* way out restores the world it was entered with (firewallProtected).
THEOREM ReturnsPassHooks == Spec => EffectsPassPostHooks
<1> DEFINE Passed ==
      /\ frames # <<>> /\ Top.hooked /\ Len(frames') < Len(frames)
      /\ MethodOf[Top.call.data] \notin AssemblyReturns
      => \/ Top.phase = "post" /\ Top.next > Len(Top.listed)
         \/ world' = Top.saved
<1>1. ASSUME TypeOK, Next
      PROVE  Passed
  <2> SUFFICES ASSUME frames # <<>>, Top.hooked, Len(frames') < Len(frames),
                      MethodOf[Top.call.data] \notin AssemblyReturns
               PROVE  (Top.phase = "post" /\ Top.next > Len(Top.listed)) \/ world' = Top.saved
    OBVIOUS
  <2>1. frames \in Seq(Frames) /\ Len(frames) \in Nat
    BY <1>1 DEF TypeOK
  <2>2. ~UNCHANGED frames
    BY <2>1
  <2>3. ASSUME NEW f, SetTop(f)
        PROVE  FALSE
    <3>1. frames' = [frames EXCEPT ![Len(frames)] = f]
      BY <2>3 DEF SetTop
    <3>2. Len(frames') = Len(frames)
      BY <2>1, <3>1
    <3> QED BY <2>1, <3>2
  <2>4. ASSUME NEW f, frames' = Append(frames, f)
        PROVE  FALSE
    <3>1. Len(frames') = Len(frames) + 1
      BY <2>1, <2>4
    <3> QED BY <2>1, <3>1
  <2>5. CASE Approve \/ Configure
    BY <2>2, <2>5 DEF Approve, Configure, ApproveCalls, ApproveCallsViaSignature,
       SetExecutorStatus, SetConsumersStatuses, SetSigner, SetPolicyStatus,
       SetConsumerDryrunStatus, SetFirewall, AddPolicy, RemovePolicy,
       AddGlobalPolicy, RemoveGlobalPolicy, CallEndsIn
  <2>6. CASE OffChain
    BY <2>2, <2>6 DEF OffChain, Sign, Tick
  <2>7. CASE Transaction
    <3>1. ~\E o \in Origins, d \in Data : BeginTx(o, d)
      BY DEF BeginTx
    <3>2. ~\E t \in Routers \cup Consumers, d \in Data : Call(t, d)
      BY <2>4 DEF Call
    <3>3. ~PolicyConsumes /\ ~SkipPolicy
      BY <2>3 DEF PolicyConsumes, SkipPolicy
    <3>4. CASE PolicyReverts
      BY <3>3, <3>4 DEF PolicyReverts, RevertTop
    <3>5. CASE HookEnds
      BY <2>3, <3>5 DEF HookEnds
    <3>6. CASE BodyReturns
      BY <2>3, <3>6 DEF BodyReturns
    <3>7. CASE BodyReverts
      BY <3>7 DEF BodyReverts, RevertTop
    <3>8. ~BodyExits
      BY DEF BodyExits
    <3> QED BY <2>7, <3>1, <3>2, <3>3, <3>4, <3>5, <3>6, <3>7, <3>8 DEF Transaction, PolicyPasses
  <2> QED BY <1>1, <2>5, <2>6, <2>7 DEF Next
<1>2. TypeOK /\ [Next]_vars => [Passed]_vars
  BY <1>1
<1> QED BY <1>2, TypeCorrect, PTL DEF Spec, EffectsPassPostHooks
-----------------------------------------------------------------------------
(* Protected calls implement CallTickets: approvals are consumed from the  *)
(* last entry to the first without gaps, and every step issues, uses,      *)
(* opens, closes or rolls back as the abstract specification allows.       *)
(* Every step has one of six shapes; both results are proved by shape.     *)

\* What was consumed of the n-th approval of policy p for origin o.
Indices(w, p, o, n) ==
  {t.index : t \in {s \in w.spent : s.policy = p /\ s.origin = o /\ s.nonce = n - 1}}

\* World w, reached in a transaction that began in world b: what was consumed
\* of the newest approval is what lies above the length.
OrderedOK(w, o, b) ==
  \A p \in CallPolicies :
    /\ w.nonces[p][o] >= b.nonces[p][o]
    /\ w.nonces[p][o] > b.nonces[p][o] =>
         Indices(w, p, o, w.nonces[p][o])
           = w.len[p] + 1 .. Len(w.log[p][o][w.nonces[p][o]].hashes)
    /\ w.nonces[p][o] = b.nonces[p][o] => w.len[p] = 0

OrderInv ==
  frames # <<>> =>
    /\ OrderedOK(world, TxOrigin, frames[1].saved)
    /\ \A i \in DOMAIN frames : OrderedOK(frames[i].saved, TxOrigin, frames[1].saved)
-----------------------------------------------------------------------------
(* The shapes of a step *)

\* Two worlds with the same approvals, used to the same point.
SameTickets(w, v) ==
  v.nonces = w.nonces /\ v.log = w.log /\ v.len = w.len /\ v.spent = w.spent

\* The stack keeps its calls and the worlds it may restore.
SavedSame ==
  /\ Len(frames') = Len(frames) /\ DOMAIN frames' = DOMAIN frames
  /\ \A i \in DOMAIN frames :
       frames'[i].saved = frames[i].saved /\ frames'[i].call = frames[i].call

Begins ==
  /\ frames = <<>> /\ world' = world
  /\ \E f \in Frames : /\ frames' = <<f>>
                       /\ f.saved = world /\ f.call.origin \in Origins

Pushes ==
  /\ frames # <<>> /\ world' = world
  /\ \E f \in Frames : frames' = Append(frames, f) /\ f.saved = world

Keeps == SavedSame /\ SameTickets(world, world')

Issues ==
  /\ frames # <<>> /\ frames' = frames
  /\ \E p \in CallPolicies, l \in ApprovalLists :
       /\ l # <<>>
       /\ world' = Granted(world, p, l, TxOrigin, world.nonces[p][TxOrigin])

Consumes ==
  /\ frames # <<>> /\ SavedSame
  /\ \E p \in CallPolicies :
       /\ CallAccepted(world, p, Top.call)
       /\ world' = Popped(world, p, Top.call)

Pops ==
  /\ frames # <<>> /\ frames' = Below
  /\ \/ world' = Top.saved
     \/ world' = IF Len(frames) = 1 THEN Discarded(world) ELSE world

\* Replacing the top frame by one for the same call keeps what is saved.
LEMMA SetTopShape ==
  ASSUME TypeOK, frames # <<>>, NEW f, SetTop(f), f.saved = Top.saved, f.call = Top.call
  PROVE  SavedSame
<1>1. frames \in Seq(Frames) /\ Len(frames) \in DOMAIN frames
  BY StackTypes DEF TypeOK
<1>2. frames' = [frames EXCEPT ![Len(frames)] = f]
  BY DEF SetTop
<1>3. /\ Len(frames') = Len(frames) /\ DOMAIN frames' = DOMAIN frames
      /\ frames'[Len(frames)] = f
      /\ \A i \in DOMAIN frames : i # Len(frames) => frames'[i] = frames[i]
  BY <1>1, <1>2
<1> QED BY <1>3 DEF SavedSame, Top

\* Configuration changes nothing about approvals (all of Configure).
LEMMA ConfigureShape ==
  ASSUME TypeOK, Configure
  PROVE  Keeps
<1>1. world \in Worlds
  BY DEF TypeOK
<1>2. frames' = frames /\ \E w : world' = w
  BY DEF Configure, CallEndsIn, SetExecutorStatus, SetConsumersStatuses, SetSigner,
     SetPolicyStatus, SetConsumerDryrunStatus, SetFirewall, AddPolicy, RemovePolicy,
     AddGlobalPolicy, RemoveGlobalPolicy
<1>3. SavedSame
  BY <1>2 DEF SavedSame
<1>4. SameTickets(world, world')
  <2>1. ASSUME NEW p \in CallPolicies, NEW b \in BOOLEAN, SetExecutorStatus(p, b)
        PROVE  SameTickets(world, world')
    BY <1>1, <2>1 DEF SetExecutorStatus, CallEndsIn, SameTickets, Worlds
  <2>2. ASSUME NEW p \in CallPolicies, NEW cs \in SUBSET Consumers, NEW as \in SUBSET cs,
               SetConsumersStatuses(p, cs, as)
        PROVE  SameTickets(world, world')
    BY <1>1, <2>2 DEF SetConsumersStatuses, CallEndsIn, SameTickets, Worlds
  <2>3. ASSUME NEW p \in CallPolicies, NEW a \in SignerKeys, NEW b \in BOOLEAN,
               SetSigner(p, a, b)
        PROVE  SameTickets(world, world')
    BY <1>1, <2>3 DEF SetSigner, CallEndsIn, SameTickets, Worlds
  <2>4. ASSUME NEW p \in Policies, NEW b \in BOOLEAN, SetPolicyStatus(p, b)
        PROVE  SameTickets(world, world')
    BY <1>1, <2>4 DEF SetPolicyStatus, CallEndsIn, SameTickets, Worlds
  <2>5. ASSUME NEW c \in Consumers, NEW b \in BOOLEAN,
               SetConsumerDryrunStatus(c, b) \/ SetFirewall(c, b)
        PROVE  SameTickets(world, world')
    BY <1>1, <2>5 DEF SetConsumerDryrunStatus, SetFirewall, CallEndsIn, SameTickets, Worlds
  <2>6. ASSUME NEW c \in Consumers, NEW m \in Methods, NEW p \in Policies,
               AddPolicy(c, m, p) \/ RemovePolicy(c, m, p)
        PROVE  SameTickets(world, world')
    BY <1>1, <2>6 DEF AddPolicy, RemovePolicy, CallEndsIn, SameTickets, Worlds
  <2>7. ASSUME NEW c \in Consumers, NEW p \in Policies,
               AddGlobalPolicy(c, p) \/ RemoveGlobalPolicy(c, p)
        PROVE  SameTickets(world, world')
    BY <1>1, <2>7 DEF AddGlobalPolicy, RemoveGlobalPolicy, CallEndsIn, SameTickets, Worlds
  <2> QED BY <2>1, <2>2, <2>3, <2>4, <2>5, <2>6, <2>7 DEF Configure
<1> QED BY <1>3, <1>4 DEF Keeps

\* Every step of the specification has one of the six shapes.
LEMMA Shapes ==
  ASSUME IInv, Next
  PROVE  Begins \/ Pushes \/ Keeps \/ Issues \/ Consumes \/ Pops
<1>1. TypeOK /\ world \in Worlds /\ frames \in Seq(Frames)
  BY DEF IInv, TypeOK
<1>2. CASE Configure
  BY <1>1, <1>2, ConfigureShape
<1>3. ASSUME UNCHANGED <<world, frames>>
      PROVE  Keeps
  BY <1>3 DEF Keeps, SavedSame, SameTickets
<1>4. CASE OffChain
  BY <1>3, <1>4 DEF OffChain, Sign, Tick
<1>5. CASE Approve
  <2>1. ASSUME NEW p \in CallPolicies, NEW l \in ApprovalLists, NEW o, NEW e, NEW n,
               InBody, ValidApproval(p, l, e, o, n), CallEndsIn(Granted(world, p, l, o, n))
        PROVE  Issues
    <3>1. frames # <<>> /\ o = TxOrigin /\ n = world.nonces[p][o] /\ Len(l) > 0
      BY <2>1 DEF InBody, ValidApproval
    <3>2. world' = Granted(world, p, l, o, n) /\ frames' = frames
      BY <2>1 DEF CallEndsIn
    <3>3. l # <<>>
      BY <3>1
    <3> QED BY <3>1, <3>2, <3>3 DEF Issues
  <2>2. \A m \in signed : m.policy \in CallPolicies /\ m.hashes \in ApprovalLists
    BY <1>1 DEF TypeOK, Messages
  <2> QED BY <1>5, <2>1, <2>2 DEF Approve, ApproveCalls, ApproveCallsViaSignature
<1>6. CASE Transaction
  <2>1. ASSUME NEW o \in Origins, NEW d \in Data, BeginTx(o, d)
        PROVE  Begins
    <3> DEFINE call == [consumer |-> o, sender |-> o, origin |-> o, data |-> d]
    <3>1. frames = <<>> /\ frames' = <<PlainFrame(call)>> /\ world' = world
      BY <2>1 DEF BeginTx
    <3>2. call \in Calls
      BY DEF Calls, Accounts
    <3>3. PlainFrame(call) \in Frames
      BY <1>1, <3>2 DEF PlainFrame, Frames
    <3>4. PlainFrame(call).saved = world /\ PlainFrame(call).call.origin = o
      BY DEF PlainFrame
    <3> QED BY <3>1, <3>3, <3>4 DEF Begins
  <2>2. ASSUME NEW t \in Routers \cup Consumers, NEW d \in Data, Call(t, d)
        PROVE  Pushes
    <3> DEFINE call == [consumer |-> t, sender |-> Self, origin |-> TxOrigin, data |-> d]
               f == IF t \in Consumers /\ world.firewall[t]
                    THEN ProtectedFrame(call) ELSE PlainFrame(call)
    <3>1. frames # <<>> /\ frames' = Append(frames, f) /\ world' = world
      BY <2>2 DEF Call, InBody
    <3>2. f.saved = world
      BY DEF ProtectedFrame, PlainFrame
    <3>3. f \in Frames
      <4>1. frames' \in Seq(Frames)
        <5>1. IInv'
          BY <1>6, TransactionStep
        <5> QED BY <5>1 DEF IInv, TypeOK
      <4>2. Len(frames) \in Nat /\ Len(frames') = Len(frames) + 1 /\ frames'[Len(frames) + 1] = f
        BY <1>1, <3>1
      <4> QED BY <4>1, <4>2
    <3> QED BY <3>1, <3>2, <3>3 DEF Pushes
  <2>3. ASSUME frames # <<>>
        PROVE  Top \in Frames
    BY <1>1, <2>3, StackTypes
  <2>4. CASE PolicyConsumes
    <3> DEFINE f == [Top EXCEPT !.next = @ + 1,
                                !.paid = Append(@, TokenOf(world, Policy, Top.call))]
    <3>1. /\ frames # <<>> /\ Policy \in CallPolicies /\ CallAccepted(world, Policy, Top.call)
          /\ world' = Popped(world, Policy, Top.call) /\ SetTop(f)
      BY <2>4 DEF PolicyConsumes, InHook
    <3>2. f.saved = Top.saved /\ f.call = Top.call
      BY <2>3, <3>1 DEF Frames
    <3>3. SavedSame
      BY <1>1, <3>1, <3>2, SetTopShape
    <3> QED BY <3>1, <3>3 DEF Consumes
  <2>5. ASSUME frames # <<>>, SkipPolicy
        PROVE  Keeps
    <3> DEFINE f == [Top EXCEPT !.next = @ + 1,
                                !.paid = IF Top.phase = "pre" THEN Append(@, NoToken) ELSE @]
    <3>1. SetTop(f) /\ world' = world
      BY <2>5 DEF SkipPolicy
    <3>2. f.saved = Top.saved /\ f.call = Top.call
      BY <2>3, <2>5 DEF Frames
    <3>3. SavedSame
      BY <1>1, <2>5, <3>1, <3>2, SetTopShape
    <3> QED BY <3>1, <3>3 DEF Keeps, SameTickets
  <2>6. CASE PolicyPasses
    BY <2>5, <2>6 DEF PolicyPasses, InHook
  <2>7. ASSUME frames # <<>>, RevertTop \/ ReturnTop
        PROVE  Pops
    BY <2>7 DEF Pops, RevertTop, ReturnTop
  <2>8. CASE PolicyReverts
    BY <2>5, <2>7, <2>8 DEF PolicyReverts, InHook
  <2>9. CASE HookEnds
    <3>1. frames # <<>>
      BY <2>9 DEF HookEnds
    <3>2. CASE SetTop([Top EXCEPT !.phase = "body"]) /\ UNCHANGED world
      <4>1. /\ [Top EXCEPT !.phase = "body"].saved = Top.saved
            /\ [Top EXCEPT !.phase = "body"].call = Top.call
        BY <2>3, <3>1 DEF Frames
      <4>2. SavedSame
        BY <1>1, <3>1, <3>2, <4>1, SetTopShape
      <4> QED BY <3>2, <4>2 DEF Keeps, SameTickets
    <3> QED BY <2>7, <2>9, <3>1, <3>2 DEF HookEnds
  <2>10. CASE BodyReturns
    <3> DEFINE f == [Top EXCEPT !.phase = "post", !.next = 1,
                                !.dry = world.dryrun[Self],
                                !.listed = PolicyList(world, Top.call)]
    <3>1. frames # <<>>
      BY <2>10 DEF BodyReturns, InBody
    <3>2. CASE SetTop(f) /\ UNCHANGED world
      <4>1. f.saved = Top.saved /\ f.call = Top.call
        BY <2>3, <3>1 DEF Frames
      <4>2. SavedSame
        BY <1>1, <3>1, <3>2, <4>1, SetTopShape
      <4> QED BY <3>2, <4>2 DEF Keeps, SameTickets
    <3> QED BY <2>7, <2>10, <3>1, <3>2 DEF BodyReturns
  <2>11. CASE BodyReverts
    BY <2>7, <2>11 DEF BodyReverts, InBody
  <2>12. CASE BodyExits
    BY <2>7, <2>12 DEF BodyExits, InBody
  <2> QED BY <1>6, <2>1, <2>2, <2>4, <2>6, <2>8, <2>9, <2>10, <2>11, <2>12 DEF Transaction
<1> QED BY <1>2, <1>4, <1>5, <1>6 DEF Next

-----------------------------------------------------------------------------
(* The order of consumption *)

\* OrderedOK speaks of tickets only.
LEMMA SameOrder ==
  ASSUME NEW w, NEW v, NEW o, NEW b, OrderedOK(w, o, b), SameTickets(w, v)
  PROVE  OrderedOK(v, o, b)
<1>1. v.nonces = w.nonces /\ v.log = w.log /\ v.len = w.len /\ v.spent = w.spent
  BY DEF SameTickets
<1>2. \A p, x, n : Indices(v, p, x, n) = Indices(w, p, x, n)
  BY <1>1 DEF Indices
<1> QED BY <1>1, <1>2 DEF OrderedOK

\* A world without consumable entries, at the beginning of a transaction.
LEMMA QuietOrder ==
  ASSUME NEW w \in Worlds, NEW o \in Origins, Quiet(w)
  PROVE  OrderedOK(w, o, w)
BY WorldTypes DEF OrderedOK, Quiet

\* Nothing of a fresh approval was consumed.
LEMMA GrantedOrder ==
  ASSUME NEW w \in Worlds, NEW b \in Worlds, NEW p \in CallPolicies,
         NEW l \in ApprovalLists, NEW o \in Origins, WorldOK(w, o), OrderedOK(w, o, b)
  PROVE  OrderedOK(Granted(w, p, l, o, w.nonces[p][o]), o, b)
<1> DEFINE n == w.nonces[p][o]
           g == Granted(w, p, l, o, n)
           e == [hashes |-> l, nonce |-> n]
<1>1. /\ g.nonces = [w.nonces EXCEPT ![p][o] = n + 1]
      /\ g.log = [w.log EXCEPT ![p][o] = Append(w.log[p][o], e)]
      /\ g.len = [w.len EXCEPT ![p] = Len(l)]
      /\ g.spent = w.spent
  BY DEF Granted, Worlds
<1>2. n \in Nat /\ b.nonces[p][o] \in Nat /\ w.log[p][o] \in Seq(Grants) /\ e \in Grants
  BY WorldTypes DEF Grants
<1>0. e.hashes = l
  OBVIOUS
<1> HIDE DEF g, e
<1>3. Len(w.log[p][o]) = n
  BY DEF WorldOK, HistoryOK
<1>4. g.log[p][o][n + 1] = e /\ g.nonces[p][o] = n + 1 /\ g.len[p] = Len(l)
  BY <1>1, <1>2, <1>3, WorldFunctions
<1>5. n >= b.nonces[p][o]
  BY DEF OrderedOK
<1>6. Indices(g, p, o, n + 1) = {}
  <2>1. \A t \in w.spent : t.policy = p /\ t.origin = o => t.nonce < n /\ t.nonce \in Nat
    BY <1>3, WorldTypes DEF WorldOK, TokensOK
  <2>2. \A t \in w.spent : ~(t.policy = p /\ t.origin = o /\ t.nonce = (n + 1) - 1)
    BY <2>1, <1>2
  <2> QED BY <2>2, <1>1 DEF Indices
<1>7. ASSUME NEW q \in CallPolicies
      PROVE  /\ g.nonces[q][o] >= b.nonces[q][o]
             /\ g.nonces[q][o] > b.nonces[q][o] =>
                  Indices(g, q, o, g.nonces[q][o])
                    = g.len[q] + 1 .. Len(g.log[q][o][g.nonces[q][o]].hashes)
             /\ g.nonces[q][o] = b.nonces[q][o] => g.len[q] = 0
  <2>1. CASE q = p
    <3>1. n + 1 >= b.nonces[p][o] /\ n + 1 # b.nonces[p][o]
      BY <1>2, <1>5
    <3>2. Len(l) + 1 .. Len(l) = {}
      BY ConstantsAssumption
    <3> QED BY <2>1, <3>1, <3>2, <1>0, <1>4, <1>6
  <2>2. CASE q # p
    <3>1. /\ g.nonces[q][o] = w.nonces[q][o] /\ g.log[q][o] = w.log[q][o]
          /\ g.len[q] = w.len[q] /\ g.spent = w.spent
      BY <2>2, <1>1, WorldFunctions
    <3>2. Indices(g, q, o, g.nonces[q][o]) = Indices(w, q, o, w.nonces[q][o])
      BY <3>1 DEF Indices
    <3> QED BY <3>1, <3>2 DEF OrderedOK
  <2> QED BY <2>1, <2>2
<1> QED BY <1>7 DEF OrderedOK, g

\* An interval grows at its lower end.
LEMMA IntervalBelow ==
  ASSUME NEW k \in Nat, NEW h \in Nat, k <= h
  PROVE  (k + 1 .. h) \cup {k} = k .. h
OBVIOUS

\* Popping consumes the entry just below those already consumed.
LEMMA PoppedOrder ==
  ASSUME NEW w \in Worlds, NEW b \in Worlds, NEW p \in CallPolicies, NEW call \in Calls,
         WorldOK(w, call.origin), CallAccepted(w, p, call), OrderedOK(w, call.origin, b)
  PROVE  OrderedOK(Popped(w, p, call), call.origin, b)
<1> DEFINE o == call.origin
           n == w.nonces[p][o]
           g == Popped(w, p, call)
           t == TokenOf(w, p, call)
<1>1. /\ g.nonces = w.nonces
      /\ g.log = w.log
      /\ g.len = [w.len EXCEPT ![p] = w.len[p] - 1]
      /\ g.spent = w.spent \cup {t}
  BY DEF Popped, Worlds
<1>2. o \in Origins /\ n \in Nat /\ w.len[p] \in Nat /\ w.len[p] > 0
  <2>1. o \in Origins
    BY DEF Calls
  <2> QED BY <2>1, WorldTypes, ConstantsAssumption DEF CallAccepted
<1>3. t.policy = p /\ t.origin = o /\ t.nonce = n - 1 /\ t.index = w.len[p]
  BY DEF TokenOf
<1>4. /\ n > 0 /\ w.len[p] <= Len(w.log[p][o][n].hashes)
      /\ Len(w.log[p][o][n].hashes) \in Nat
  <2>1. n > 0 /\ w.len[p] <= Len(w.log[p][o][n].hashes)
    BY <1>2 DEF WorldOK, SlotsOK
  <2>2. Len(w.log[p][o]) = n /\ w.log[p][o] \in Seq(Grants)
    BY <1>2, WorldTypes DEF WorldOK, HistoryOK
  <2>3. w.log[p][o][n] \in Grants
    BY <1>2, <2>1, <2>2
  <2>4. w.log[p][o][n].hashes \in Seq(Calls)
    BY <2>3, GrantTypes
  <2>5. Len(w.log[p][o][n].hashes) \in Nat
    BY <2>4, LenProperties, Zenon
  <2> QED BY <2>1, <2>5
<1> HIDE DEF g, t
<1>5. n > b.nonces[p][o]
  <2>1. b.nonces[p][o] \in Nat
    BY <1>2, WorldTypes
  <2>2. n >= b.nonces[p][o] /\ n # b.nonces[p][o]
    BY <1>2 DEF OrderedOK
  <2> QED BY <1>2, <2>1, <2>2
<1>6. Indices(w, p, o, n) = w.len[p] + 1 .. Len(w.log[p][o][n].hashes)
  BY <1>5 DEF OrderedOK
<1>7. Indices(g, p, o, n) = Indices(w, p, o, n) \cup {w.len[p]}
  BY <1>1, <1>3 DEF Indices
<1>8. Indices(g, p, o, n) = w.len[p] .. Len(w.log[p][o][n].hashes)
  BY <1>2, <1>4, <1>6, <1>7, IntervalBelow
<1>9. ASSUME NEW q \in CallPolicies
      PROVE  /\ g.nonces[q][o] >= b.nonces[q][o]
             /\ g.nonces[q][o] > b.nonces[q][o] =>
                  Indices(g, q, o, g.nonces[q][o])
                    = g.len[q] + 1 .. Len(g.log[q][o][g.nonces[q][o]].hashes)
             /\ g.nonces[q][o] = b.nonces[q][o] => g.len[q] = 0
  <2>1. CASE q = p
    <3>1. g.len[q] = w.len[p] - 1 /\ g.nonces[q][o] = n
      BY <2>1, <1>1, WorldFunctions
    <3>2. g.len[q] + 1 = w.len[p]
      BY <3>1, <1>2
    <3>3. n >= b.nonces[p][o] /\ n # b.nonces[p][o]
      <4>1. b.nonces[p][o] \in Nat
        BY <1>2, WorldTypes
      <4> QED BY <4>1, <1>2, <1>5
    <3> QED BY <2>1, <3>1, <3>2, <3>3, <1>1, <1>8
  <2>2. CASE q # p
    <3>1. /\ g.nonces[q][o] = w.nonces[q][o] /\ g.log = w.log /\ g.len[q] = w.len[q]
      BY <2>2, <1>1, WorldFunctions
    <3>2. Indices(g, q, o, g.nonces[q][o]) = Indices(w, q, o, w.nonces[q][o])
      BY <2>2, <3>1, <1>1, <1>3 DEF Indices
    <3> QED BY <3>1, <3>2 DEF OrderedOK
  <2> QED BY <2>1, <2>2
<1> QED BY <1>9 DEF OrderedOK, g

\* Every step keeps the order of consumption, in the present world and in
\* every world a frame may restore.
LEMMA OrderStep ==
  ASSUME IInv, OrderInv, Next
  PROVE  OrderInv'
<1>1. world \in Worlds /\ frames \in Seq(Frames)
  BY DEF IInv, TypeOK
<1>2. ASSUME frames # <<>>
      PROVE  /\ 1 \in DOMAIN frames /\ Len(frames) \in DOMAIN frames
             /\ Len(frames) \in Nat \ {0} /\ DOMAIN frames = 1 .. Len(frames)
             /\ TxOrigin \in Origins /\ Top \in Frames /\ Top.call \in Calls
             /\ Top.call.origin = TxOrigin
             /\ frames[1].saved \in Worlds /\ WorldOK(world, TxOrigin)
             /\ OrderedOK(world, TxOrigin, frames[1].saved)
             /\ \A i \in DOMAIN frames : OrderedOK(frames[i].saved, TxOrigin, frames[1].saved)
  <2>1. /\ 1 \in DOMAIN frames /\ Len(frames) \in DOMAIN frames
        /\ Len(frames) \in Nat \ {0} /\ DOMAIN frames = 1 .. Len(frames)
        /\ TxOrigin \in Origins /\ Top \in Frames /\ frames[1] \in Frames
    BY <1>2, StackTypes DEF IInv
  <2>2. Top.call \in Calls /\ frames[1].saved \in Worlds
    BY <2>1, FrameTypes
  <2>3. Top.call.origin = TxOrigin
    BY <2>1 DEF IInv, StackOK, Top
  <2> QED BY <1>2, <2>1, <2>2, <2>3 DEF IInv, OrderInv
<1>3. CASE Begins
  <2>1. PICK f \in Frames : frames' = <<f>> /\ f.saved = world /\ f.call.origin \in Origins
    BY <1>3 DEF Begins
  <2>2. /\ frames = <<>> /\ world' = world /\ TxOrigin' = f.call.origin
        /\ DOMAIN frames' = {1} /\ frames'[1].saved = world
    BY <1>3, <2>1 DEF Begins, TxOrigin
  <2>3. OrderedOK(world, f.call.origin, world)
    BY <1>1, <2>1, <2>2, QuietOrder DEF IInv
  <2> QED BY <2>2, <2>3 DEF OrderInv
<1>4. CASE Pushes
  <2>1. PICK f \in Frames : frames' = Append(frames, f) /\ f.saved = world
    BY <1>4 DEF Pushes
  <2>2. frames # <<>> /\ world' = world
    BY <1>4 DEF Pushes
  <2>3. /\ DOMAIN frames' = 1 .. Len(frames) + 1
        /\ \A i \in 1 .. Len(frames) : frames'[i] = frames[i]
        /\ frames'[Len(frames) + 1] = f
    BY <1>1, <2>1
  <2>4. TxOrigin' = TxOrigin /\ frames'[1] = frames[1]
    BY <1>2, <2>2, <2>3 DEF TxOrigin
  <2>5. ASSUME NEW i \in DOMAIN frames'
        PROVE  OrderedOK(frames'[i].saved, TxOrigin, frames[1].saved)
    <3>1. CASE i \in 1 .. Len(frames)
      BY <1>2, <2>2, <2>3, <3>1
    <3>2. CASE i = Len(frames) + 1
      BY <1>2, <2>1, <2>2, <2>3, <3>2
    <3> QED BY <2>3, <3>1, <3>2, <1>2, <2>2
  <2> QED BY <1>2, <2>2, <2>4, <2>5 DEF OrderInv
<1>5. ASSUME frames # <<>>, SavedSame, OrderedOK(world', TxOrigin, frames[1].saved)
      PROVE  OrderInv'
  <2>1. TxOrigin' = TxOrigin /\ frames'[1].saved = frames[1].saved
    BY <1>2, <1>5 DEF SavedSame, TxOrigin
  <2> QED BY <1>2, <1>5, <2>1 DEF SavedSame, OrderInv
<1>6. CASE Keeps
  <2>1. CASE frames = <<>>
    <3>1. frames' \in Seq(Frames) /\ Len(frames') = 0
      <4>1. IInv'
        BY TransactionStep, ApproveStep, ConfigureStep, OffChainStep DEF Next
      <4> QED BY <1>6, <2>1, <4>1 DEF Keeps, SavedSame, IInv, TypeOK
    <3>2. frames' = <<>>
      BY <3>1, EmptySeq
    <3> QED BY <3>2 DEF OrderInv
  <2>2. CASE frames # <<>>
    <3>1. OrderedOK(world', TxOrigin, frames[1].saved)
      BY <1>2, <1>6, <2>2, SameOrder DEF Keeps
    <3> QED BY <1>5, <1>6, <2>2, <3>1 DEF Keeps
  <2> QED BY <2>1, <2>2
<1>7. CASE Issues
  <2>1. PICK p \in CallPolicies, l \in ApprovalLists :
          world' = Granted(world, p, l, TxOrigin, world.nonces[p][TxOrigin])
    BY <1>7 DEF Issues
  <2>2. frames # <<>> /\ frames' = frames
    BY <1>7 DEF Issues
  <2>3. OrderedOK(world', TxOrigin, frames[1].saved)
    BY <1>1, <1>2, <2>1, <2>2, GrantedOrder
  <2>4. SavedSame
    BY <2>2 DEF SavedSame
  <2> QED BY <1>5, <2>2, <2>3, <2>4
<1>8. CASE Consumes
  <2>1. PICK p \in CallPolicies : /\ CallAccepted(world, p, Top.call)
                                  /\ world' = Popped(world, p, Top.call)
    BY <1>8 DEF Consumes
  <2>2. frames # <<>> /\ SavedSame
    BY <1>8 DEF Consumes
  <2>3. WorldOK(world, Top.call.origin) /\ OrderedOK(world, Top.call.origin, frames[1].saved)
    BY <1>2, <2>2
  <2>4. OrderedOK(world', Top.call.origin, frames[1].saved)
    BY <1>1, <1>2, <2>1, <2>2, <2>3, PoppedOrder
  <2> QED BY <1>2, <1>5, <2>2, <2>4
<1>9. CASE Pops
  <2>1. frames # <<>> /\ frames' = SubSeq(frames, 1, Len(frames) - 1)
    BY <1>9 DEF Pops, Below
  <2>2. /\ frames' \in Seq(Frames) /\ Len(frames') = Len(frames) - 1
        /\ DOMAIN frames' = 1 .. Len(frames) - 1
        /\ \A i \in 1 .. Len(frames) - 1 : frames'[i] = frames[i]
    BY <1>1, <1>2, <2>1
  <2>3. CASE frames' = <<>>
    BY <2>3 DEF OrderInv
  <2>4. CASE frames' # <<>>
    <3>1. Len(frames) # 1 /\ 1 \in DOMAIN frames'
      BY <1>2, <2>1, <2>2, <2>4, EmptySeq
    <3>2. frames'[1] = frames[1] /\ TxOrigin' = TxOrigin
      BY <2>2, <3>1 DEF TxOrigin
    <3>3. world' = Top.saved \/ world' = world
      BY <1>9, <3>1 DEF Pops
    <3>4. OrderedOK(world', TxOrigin, frames[1].saved)
      BY <1>2, <2>1, <3>3 DEF Top
    <3>5. \A i \in DOMAIN frames' : OrderedOK(frames'[i].saved, TxOrigin, frames[1].saved)
      BY <1>2, <2>1, <2>2
    <3> QED BY <3>2, <3>4, <3>5 DEF OrderInv
  <2> QED BY <2>3, <2>4
<1> QED BY <1>3, <1>4, <1>6, <1>7, <1>8, <1>9, Shapes

\* Both invariants hold in every reachable state.
LEMMA OrderHolds == Spec => [](IInv /\ OrderInv)
<1>1. Init => OrderInv
  BY DEF Init, OrderInv
<1>2. IInv /\ OrderInv /\ [Next]_vars => OrderInv'
  <2> SUFFICES ASSUME IInv, OrderInv, [Next]_vars
               PROVE  OrderInv'
    OBVIOUS
  <2>1. CASE UNCHANGED vars
    BY <2>1 DEF vars, OrderInv, TxOrigin
  <2> QED BY <2>1, OrderStep
<1> QED BY <1>1, <1>2, Invariance, PTL DEF Spec

\* The entries consumed of an approval are a suffix of it, in the present and
\* in every state a revert may go back to, and nothing can be consumed that
\* was not approved in the running transaction (_popLatestCallHash).
THEOREM ConsumptionIsOrdered == Spec => []ConsumedInOrder
<1>1. IInv /\ OrderInv => ConsumedInOrder
  <2> SUFFICES ASSUME IInv, OrderInv,
                      NEW w \in {world} \cup {frames[i].saved : i \in DOMAIN frames},
                      NEW p \in CallPolicies
               PROVE  IF p \in Live(w)
                      THEN Indices(w, p, TxOrigin, w.nonces[p][TxOrigin])
                             = w.len[p] + 1 ..
                                 Len(w.log[p][TxOrigin][w.nonces[p][TxOrigin]].hashes)
                      ELSE w.len[p] = 0
    BY DEF ConsumedInOrder, Indices
  <2>1. CASE frames = <<>>
    <3>1. w = world /\ Live(w) = {}
      BY <2>1 DEF Live
    <3> QED BY <2>1, <3>1 DEF IInv, Quiet
  <2>2. CASE frames # <<>>
    <3>1. OrderedOK(w, TxOrigin, frames[1].saved)
      BY <2>2 DEF OrderInv
    <3>2. /\ TxOrigin \in Origins /\ frames[1] \in Frames
          /\ \A i \in DOMAIN frames : frames[i] \in Frames
      BY <2>2, StackTypes DEF IInv
    <3>3. w \in Worlds /\ frames[1].saved \in Worlds
      BY <3>2, FrameTypes DEF IInv, TypeOK
    <3>4. w.nonces[p][TxOrigin] \in Nat /\ frames[1].saved.nonces[p][TxOrigin] \in Nat
      BY <3>2, <3>3, WorldTypes
    <3>5. p \in Live(w) <=> w.nonces[p][TxOrigin] > frames[1].saved.nonces[p][TxOrigin]
      BY <2>2 DEF Live
    <3>6. p \notin Live(w) => w.nonces[p][TxOrigin] = frames[1].saved.nonces[p][TxOrigin]
      BY <3>1, <3>4, <3>5 DEF OrderedOK
    <3> QED BY <3>1, <3>5, <3>6 DEF OrderedOK
  <2> QED BY <2>1, <2>2
<1> QED BY <1>1, OrderHolds, PTL

-----------------------------------------------------------------------------
(* The refinement *)

\* Policies with an approval made since world b, and what CallTickets keeps of
\* a world and of a call stack.
LiveSince(w, o, b) == {p \in CallPolicies : w.nonces[p][o] > b.nonces[p][o]}

StateOf(w, o, b) ==
  [issued |-> IssuedIn(w), used |-> w.spent, live |-> LiveSince(w, o, b)]

StackOf(fs) ==
  [i \in 1 .. Len(fs) |-> StateOf(fs[i].saved, fs[1].call.origin, fs[1].saved)]

LiveOf(w, fs) ==
  IF fs = <<>> THEN {} ELSE LiveSince(w, fs[1].call.origin, fs[1].saved)

OriginOf(fs) == IF fs = <<>> THEN NoToken ELSE fs[1].call.origin

\* The mapping of the stack, as ProtectedCalls states it.
MappedStack ==
  [i \in 1 .. Len(frames) |-> [issued |-> IssuedIn(frames[i].saved),
                               used   |-> frames[i].saved.spent,
                               live   |-> Live(frames[i].saved)]]
MappedOrigin == IF frames = <<>> THEN NoToken ELSE TxOrigin

\* The refinement mapping in these terms, before and after a step.
LEMMA Mapping ==
  /\ Live(world) = LiveOf(world, frames)
  /\ Live(world)' = LiveOf(world', frames')
  /\ MappedStack = StackOf(frames) /\ MappedStack' = StackOf(frames')
  /\ MappedOrigin = OriginOf(frames) /\ MappedOrigin' = OriginOf(frames')
  /\ IssuedIn(world)' = IssuedIn(world')
<1>1. ASSUME frames = <<>>
      PROVE  1 .. Len(frames) = {}
  BY <1>1
<1>2. ASSUME frames' = <<>>
      PROVE  1 .. Len(frames') = {}
  BY <1>2
<1> QED BY <1>1, <1>2 DEF Live, LiveOf, LiveSince, StackOf, StateOf, TxOrigin, IssuedIn,
           MappedStack, MappedOrigin, OriginOf

\* A stack is mapped frame by frame.
LEMMA StackShape ==
  ASSUME NEW fs \in Seq(Frames)
  PROVE  /\ Len(StackOf(fs)) = Len(fs) /\ (StackOf(fs) = <<>> <=> fs = <<>>)
         /\ \A i \in 1 .. Len(fs) :
              StackOf(fs)[i] = StateOf(fs[i].saved, fs[1].call.origin, fs[1].saved)
<1>1. Len(fs) \in Nat /\ (fs = <<>> <=> Len(fs) = 0)
  BY EmptySeq
<1>2. StackOf(fs) = <<>> <=> Len(fs) = 0
  BY <1>1 DEF StackOf
<1> QED BY <1>1, <1>2 DEF StackOf

\* A step that keeps tickets, scopes and origin is a stutter.
LEMMA TicketsStutter ==
  ASSUME IInv, Keeps, frames' \in Seq(Frames)
  PROVE  UNCHANGED Tickets!vars
<1>1. /\ frames' = <<>> <=> frames = <<>>
      /\ frames \in Seq(Frames)
      /\ frames # <<>> => 1 \in DOMAIN frames
  BY EmptySeq, StackTypes DEF Keeps, SavedSame, IInv, TypeOK
<1>2. \A i \in 1 .. Len(frames) :
        frames'[i].saved = frames[i].saved /\ frames'[i].call = frames[i].call
  BY <1>1 DEF Keeps, SavedSame
<1>3. StackOf(frames') = StackOf(frames)
  <2>1. CASE frames = <<>>
    BY <1>1, <2>1
  <2>2. CASE frames # <<>>
    BY <1>1, <1>2, <2>2 DEF StackOf, Keeps, SavedSame
  <2> QED BY <2>1, <2>2
<1>4. OriginOf(frames') = OriginOf(frames) /\ LiveOf(world', frames') = LiveOf(world, frames)
  BY <1>1, <1>2 DEF OriginOf, LiveOf, LiveSince, Keeps, SameTickets, SavedSame
<1>5. IssuedIn(world') = IssuedIn(world) /\ world'.spent = world.spent
  BY DEF IssuedIn, Keeps, SameTickets
<1> QED BY <1>3, <1>4, <1>5, Mapping DEF Tickets!vars, MappedStack, MappedOrigin

\* A transaction begins.
LEMMA TicketsBegin ==
  ASSUME IInv, Begins
  PROVE  \E o \in Origins : Tickets!Begin(o)
<1>1. PICK f \in Frames : frames' = <<f>> /\ f.saved = world /\ f.call.origin \in Origins
  BY DEF Begins
<1>2. frames = <<>> /\ world' = world /\ world \in Worlds
  BY DEF Begins, IInv, TypeOK
<1>3. Len(frames') = 1 /\ frames'[1] = f /\ frames' # <<>>
  BY <1>1
<1>4. LiveSince(world, f.call.origin, world) = {}
  BY <1>1, <1>2, WorldTypes DEF LiveSince
<1>5. StackOf(frames) = <<>> /\ LiveOf(world, frames) = {}
  BY <1>2 DEF StackOf, LiveOf
<1>6. StackOf(frames') = <<[issued |-> IssuedIn(world), used |-> world.spent, live |-> {}]>>
  BY <1>1, <1>3, <1>4 DEF StackOf, StateOf
<1>7. OriginOf(frames') = f.call.origin /\ LiveOf(world', frames') = {}
  BY <1>1, <1>2, <1>3, <1>4 DEF OriginOf, LiveOf
<1> QED BY <1>1, <1>2, <1>5, <1>6, <1>7, Mapping
        DEF Tickets!Begin, Tickets!State, MappedStack, MappedOrigin

\* A call opens a scope.
LEMMA TicketsOpen ==
  ASSUME IInv, Pushes
  PROVE  Tickets!Open
<1>1. PICK f \in Frames : frames' = Append(frames, f) /\ f.saved = world
  BY DEF Pushes
<1>2. frames # <<>> /\ world' = world /\ frames \in Seq(Frames)
  BY DEF Pushes, IInv, TypeOK
<1>3. /\ Len(frames) \in Nat \ {0} /\ Len(frames') = Len(frames) + 1
      /\ \A i \in 1 .. Len(frames) : frames'[i] = frames[i]
      /\ frames'[Len(frames) + 1] = f
      /\ frames' \in Seq(Frames) /\ frames' # <<>>
  BY <1>1, <1>2, StackTypes DEF IInv
<1>4. frames'[1] = frames[1]
  BY <1>3
<1>5. /\ OriginOf(frames') = OriginOf(frames)
      /\ LiveOf(world', frames') = LiveOf(world, frames)
  BY <1>2, <1>3, <1>4 DEF OriginOf, LiveOf
<1> DEFINE st == [issued |-> IssuedIn(world), used |-> world.spent,
                  live |-> LiveOf(world, frames)]
<1>6. st = StateOf(world, frames[1].call.origin, frames[1].saved)
  BY <1>2 DEF StateOf, LiveOf
<1>7. StackOf(frames') = Append(StackOf(frames), st)
  <2> DEFINE o == frames[1].call.origin
             b == frames[1].saved
  <2>1. StackOf(frames) = [i \in 1 .. Len(frames) |-> StateOf(frames[i].saved, o, b)]
    BY DEF StackOf
  <2>2. StackOf(frames') = [i \in 1 .. Len(frames') |-> StateOf(frames'[i].saved, o, b)]
    BY <1>4 DEF StackOf
  <2> HIDE DEF o, b
  <2>3. [i \in 1 .. Len(Append(frames, f)) |-> StateOf(Append(frames, f)[i].saved, o, b)]
          = Append([i \in 1 .. Len(frames) |-> StateOf(frames[i].saved, o, b)],
                   StateOf(f.saved, o, b))
    BY <1>2
  <2>4. st = StateOf(f.saved, o, b)
    BY <1>1, <1>6 DEF o, b
  <2> HIDE DEF st
  <2> QED BY <1>1, <2>1, <2>2, <2>3, <2>4
<1>8. StackOf(frames) # <<>>
  BY <1>2, StackShape
<1> QED BY <1>2, <1>5, <1>7, <1>8, Mapping
        DEF Tickets!Open, Tickets!State, MappedStack, MappedOrigin

\* An approval issues tickets.
LEMMA TicketsIssue ==
  ASSUME IInv, OrderInv, Issues
  PROVE  \E p \in CallPolicies, l \in ApprovalLists : Tickets!Issue(p, l)
<1>1. PICK p \in CallPolicies, l \in ApprovalLists :
        /\ l # <<>>
        /\ world' = Granted(world, p, l, TxOrigin, world.nonces[p][TxOrigin])
  BY DEF Issues
<1>2. /\ frames # <<>> /\ frames' = frames /\ world \in Worlds /\ frames \in Seq(Frames)
      /\ TxOrigin \in Origins /\ frames[1] \in Frames
  BY StackTypes DEF Issues, IInv, TypeOK
<1> DEFINE o == TxOrigin
           n == world.nonces[p][o]
           b == frames[1].saved
           e == [hashes |-> l, nonce |-> n]
<1>3. /\ world'.nonces = [world.nonces EXCEPT ![p][o] = n + 1]
      /\ world'.log = [world.log EXCEPT ![p][o] = Append(world.log[p][o], e)]
      /\ world'.spent = world.spent
  BY <1>1, <1>2 DEF Granted, Worlds
<1>4. e.hashes = l /\ e \in Grants
  BY <1>2, WorldTypes DEF Grants
<1>5. n \in Nat /\ b.nonces[p][o] \in Nat /\ n >= b.nonces[p][o]
  <2>1. b \in Worlds
    BY <1>2, FrameTypes
  <2>2. n >= b.nonces[p][o]
    BY <1>2 DEF OrderInv, OrderedOK
  <2> QED BY <1>2, <2>1, <2>2, WorldTypes
<1> HIDE DEF e
<1>6. IssuedIn(world') = [IssuedIn(world) EXCEPT ![p][o] = Append(@, l)]
  <2>1. world.log[p][o] \in Seq(Grants)
    BY <1>2, WorldTypes
  <2>2. [k \in 1 .. Len(Append(world.log[p][o], e)) |-> Append(world.log[p][o], e)[k].hashes]
          = Append([k \in 1 .. Len(world.log[p][o]) |-> world.log[p][o][k].hashes], l)
    BY <1>4, <2>1, SMTT(20)
  <2>3. ASSUME NEW q \in CallPolicies, NEW r \in Origins
        PROVE  /\ q = p /\ r = o => world'.log[q][r] = Append(world.log[p][o], e)
               /\ q # p \/ r # o => world'.log[q][r] = world.log[q][r]
    BY <1>2, <1>3, WorldFunctions
  <2> DEFINE H(s) == [k \in 1 .. Len(s) |-> s[k].hashes]
  <2>4. /\ IssuedIn(world) = [q \in CallPolicies |-> [r \in Origins |-> H(world.log[q][r])]]
        /\ IssuedIn(world') = [q \in CallPolicies |-> [r \in Origins |-> H(world'.log[q][r])]]
    BY Zenon DEF IssuedIn
  <2>5. H(Append(world.log[p][o], e)) = Append(H(world.log[p][o]), l)
    BY <2>2
  <2> HIDE DEF H
  <2>6. \A q \in CallPolicies, r \in Origins :
          H(world'.log[q][r]) = IF q = p /\ r = o THEN Append(H(world.log[p][o]), l)
                                ELSE H(world.log[q][r])
    BY <2>3, <2>5
  <2> DEFINE J == IssuedIn(world)
             h == Append(H(world.log[p][o]), l)
  <2>7. J[p][o] = H(world.log[p][o])
    BY <1>2, <2>4
  <2>8. \A q \in CallPolicies, r \in Origins :
          IssuedIn(world')[q][r] = IF q = p /\ r = o THEN h ELSE J[q][r]
    BY <2>4, <2>6
  <2>9. /\ IssuedIn(world') = [q \in CallPolicies |-> [r \in Origins |-> IssuedIn(world')[q][r]]]
        /\ J = [q \in CallPolicies |-> [r \in Origins |-> J[q][r]]]
    BY <2>4
  <2> HIDE DEF J, h
  <2>10. IssuedIn(world') = [J EXCEPT ![p][o] = h]
    <3> DEFINE K == IssuedIn(world')
    <3>1. /\ DOMAIN J = CallPolicies /\ DOMAIN K = CallPolicies
          /\ \A q \in CallPolicies : K[q] = [r \in Origins |-> K[q][r]]
          /\ \A q \in CallPolicies : J[q] = [r \in Origins |-> J[q][r]]
          /\ \A q \in CallPolicies, r \in Origins :
               K[q][r] = IF q = p /\ r = o THEN h ELSE J[q][r]
          /\ K = [q \in CallPolicies |-> K[q]] /\ J = [q \in CallPolicies |-> J[q]]
      BY <2>8, <2>9
    <3> HIDE DEF K
    <3>2. K[p] = [J[p] EXCEPT ![o] = h]
      BY <1>2, <3>1
    <3>3. \A q \in CallPolicies : q # p => K[q] = J[q]
      <4> SUFFICES ASSUME NEW q \in CallPolicies, q # p
                   PROVE  K[q] = J[q]
        OBVIOUS
      <4>1. [r \in Origins |-> K[q][r]] = [r \in Origins |-> J[q][r]]
        BY <3>1
      <4> QED BY <3>1, <4>1
    <3>4. K = [J EXCEPT ![p] = [J[p] EXCEPT ![o] = h]]
      BY <3>1, <3>2, <3>3
    <3> QED BY <3>4 DEF K
  <2> QED BY <2>7, <2>10 DEF J, h
<1>7. LiveOf(world', frames') = LiveOf(world, frames) \cup {p}
  <2>1. world'.nonces[p][o] = n + 1
    BY <1>2, <1>3, WorldFunctions
  <2>2. \A q \in CallPolicies : q # p => world'.nonces[q][o] = world.nonces[q][o]
    BY <1>2, <1>3, WorldFunctions
  <2>3. n + 1 > b.nonces[p][o]
    BY <1>5
  <2> QED BY <1>2, <2>1, <2>2, <2>3 DEF LiveOf, LiveSince, TxOrigin
<1>8. StackOf(frames) # <<>> /\ OriginOf(frames) = o
  BY <1>2, StackShape DEF OriginOf, TxOrigin
<1> QED BY <1>1, <1>2, <1>3, <1>6, <1>7, <1>8, Mapping
        DEF Tickets!Issue, MappedStack, MappedOrigin

\* A policy that pops its array uses the last unused ticket.
LEMMA TicketsUse ==
  ASSUME IInv, OrderInv, Consumes, frames' \in Seq(Frames)
  PROVE  \E p \in CallPolicies, c \in Calls : Tickets!Use(p, c)
<1>1. PICK p \in CallPolicies : /\ CallAccepted(world, p, Top.call)
                                /\ world' = Popped(world, p, Top.call)
  BY DEF Consumes
<1>2. /\ frames # <<>> /\ SavedSame /\ world \in Worlds /\ frames \in Seq(Frames)
      /\ TxOrigin \in Origins /\ frames[1] \in Frames /\ Top \in Frames
      /\ 1 \in DOMAIN frames /\ Len(frames) \in DOMAIN frames /\ WorldOK(world, TxOrigin)
      /\ OrderedOK(world, TxOrigin, frames[1].saved)
  BY StackTypes DEF Consumes, IInv, TypeOK, OrderInv
<1>3. Top.call.origin = TxOrigin /\ Top.call \in Calls
  BY <1>2, FrameTypes DEF IInv, StackOK, Top
<1> DEFINE o == TxOrigin
           n == world.nonces[p][o]
           k == world.len[p]
           hashes == world.log[p][o][n].hashes
           I == IssuedIn(world)
           t == [policy |-> p, origin |-> o, nonce |-> n - 1, index |-> k, call |-> Top.call]
<1>0. /\ n = world.nonces[p][o] /\ k = world.len[p]
      /\ hashes = world.log[p][o][n].hashes /\ I = IssuedIn(world)
  OBVIOUS
<1>20. t = [policy |-> p, origin |-> o, nonce |-> n - 1, index |-> k, call |-> Top.call]
  OBVIOUS
<1> HIDE DEF n, k, hashes, I, t
<1>4. k \in Nat /\ k > 0 /\ world.slots[p][k] = Top.call /\ n \in Nat
  BY <1>0, <1>1, <1>2, WorldTypes DEF CallAccepted
<1>5. /\ n > 0 /\ k <= Len(hashes) /\ hashes[k] = Top.call
      /\ hashes \in Seq(Calls) /\ Len(hashes) \in Nat
  <2>1. /\ n > 0 /\ k <= Len(hashes)
        /\ \A i \in 1 .. k : world.slots[p][i] = hashes[i]
    BY <1>0, <1>2, <1>4 DEF WorldOK, SlotsOK
  <2>2. Len(world.log[p][o]) = n /\ world.log[p][o] \in Seq(Grants)
    BY <1>0, <1>2, WorldTypes DEF WorldOK, HistoryOK
  <2>3. world.log[p][o][n] \in Grants
    BY <1>4, <2>1, <2>2
  <2>6. hashes \in Seq(Calls)
    BY <1>0, <2>3, GrantTypes
  <2>4. hashes \in Seq(Calls) /\ Len(hashes) \in Nat
    BY <2>6
  <2>5. k \in 1 .. k
    BY <1>4
  <2> QED BY <1>4, <2>1, <2>4, <2>5
<1>6. Len(I[p][o]) = n /\ I[p][o][n] = hashes /\ DOMAIN I[p][o][n] = 1 .. Len(hashes)
  <2>1. Len(world.log[p][o]) = n
    BY <1>0, <1>2 DEF WorldOK, HistoryOK
  <2>2. I[p][o] = [m \in 1 .. n |-> world.log[p][o][m].hashes]
    BY <1>0, <1>2, <2>1 DEF IssuedIn
  <2>3. Len(I[p][o]) = n /\ I[p][o][n] = hashes
    <3> DEFINE L == world.log[p][o]
               F == [m \in 1 .. n |-> L[m].hashes]
    <3>1. I[p][o] = F /\ hashes = L[n].hashes
      BY <1>0, <2>2
    <3> HIDE DEF L
    <3>2. Len(F) = n /\ F[n] = L[n].hashes
      BY <1>4, <1>5
    <3> QED BY <3>1, <3>2
  <2> QED BY <1>5, <2>3
<1>7. n > frames[1].saved.nonces[p][o]
  <2>1. frames[1].saved.nonces[p][o] \in Nat
    BY <1>2, FrameTypes, WorldTypes
  <2>2. n >= frames[1].saved.nonces[p][o] /\ n # frames[1].saved.nonces[p][o]
    BY <1>0, <1>2, <1>4 DEF OrderedOK
  <2> QED BY <1>4, <2>1, <2>2
<1>8. \A i \in 1 .. Len(hashes) :
        (\A s \in world.spent :
           ~(s.policy = p /\ s.origin = o /\ s.nonce = n - 1 /\ s.index = i)) <=> i <= k
  <2>1. Indices(world, p, o, n) = k + 1 .. Len(hashes)
    BY <1>0, <1>2, <1>7 DEF OrderedOK
  <2>2. \A i : i \in Indices(world, p, o, n) <=>
                 \E s \in world.spent :
                   s.policy = p /\ s.origin = o /\ s.nonce = n - 1 /\ s.index = i
    BY DEF Indices
  <2>3. \A i \in 1 .. Len(hashes) : i \in k + 1 .. Len(hashes) <=> ~(i <= k)
    BY <1>4, <1>5
  <2> QED BY <2>1, <2>2, <2>3
<1>9. /\ world'.spent = world.spent \cup {t}
      /\ world'.nonces = world.nonces /\ world'.log = world.log
  BY <1>0, <1>1, <1>2, <1>3, <1>20 DEF Popped, TokenOf, Worlds
<1>10. /\ frames' # <<>> /\ frames'[1].saved = frames[1].saved
       /\ frames'[1].call = frames[1].call
       /\ \A i \in 1 .. Len(frames) : frames'[i].saved = frames[i].saved
  <2>1. frames' # <<>>
    BY <1>2, EmptySeq DEF SavedSame
  <2> QED BY <1>2, <2>1 DEF SavedSame
<1>11. StackOf(frames') = StackOf(frames) /\ OriginOf(frames') = OriginOf(frames)
  BY <1>2, <1>10 DEF StackOf, OriginOf, SavedSame
<1>12. IssuedIn(world') = I /\ LiveOf(world', frames') = LiveOf(world, frames)
  BY <1>0, <1>2, <1>9, <1>10 DEF IssuedIn, LiveOf, LiveSince
<1>13. p \in LiveOf(world, frames) /\ OriginOf(frames) = o
  BY <1>0, <1>2, <1>7 DEF LiveOf, LiveSince, OriginOf, TxOrigin
<1> DEFINE U == {i \in DOMAIN I[p][o][n] :
                   \A s \in world.spent : ~(/\ s.policy = p /\ s.origin = o
                                            /\ s.nonce = n - 1 /\ s.index = i)}
<1>14. k \in U /\ \A j \in U : j <= k
  BY <1>4, <1>5, <1>6, <1>8
<1>15. Tickets!Unused(p) = U
  <2>1. MappedOrigin = o
    BY <1>13, Mapping
  <2> QED BY <1>0, <1>6, <2>1 DEF Tickets!Unused, MappedOrigin
<1> HIDE DEF U
<1>16. I[p][o][Len(I[p][o])][k] = Top.call
  BY <1>5, <1>6
<1>17. t = [policy |-> p, origin |-> o, nonce |-> Len(I[p][o]) - 1, index |-> k,
            call |-> Top.call]
  BY <1>6, <1>20
<1>18. Tickets!Use(p, Top.call)
  BY <1>0, <1>9, <1>11, <1>12, <1>13, <1>14, <1>15, <1>16, <1>17, Mapping
  DEF Tickets!Use, MappedStack, MappedOrigin
<1> QED BY <1>3, <1>18

\* A stack without its last frame.
LEMMA ShorterStack ==
  ASSUME NEW s \in Seq(Frames), Len(s) \in Nat \ {0}
  PROVE  /\ SubSeq(s, 1, Len(s) - 1) \in Seq(Frames)
         /\ Len(SubSeq(s, 1, Len(s) - 1)) = Len(s) - 1
<1> DEFINE n == Len(s) - 1
<1>1. n \in Int /\ 1 \in Int /\ \A i \in 1 .. n : s[i] \in Frames
  OBVIOUS
<1>0. n \in Nat
  OBVIOUS
<1> HIDE DEF n
<1>2. (IF 1 <= n THEN n - 1 + 1 ELSE 0) = n
  BY <1>0
<1>3. SubSeq(s, 1, n) \in Seq(Frames) /\ Len(SubSeq(s, 1, n)) = n
  BY <1>1, <1>2, SubSeqProperties
<1> QED BY <1>3 DEF n

\* A frame that returns closes its scope, one that reverts rolls it back.
LEMMA TicketsPop ==
  ASSUME IInv, Pops
  PROVE  Tickets!Close \/ Tickets!Rollback
<1>1. /\ frames # <<>> /\ frames \in Seq(Frames) /\ world \in Worlds
      /\ Len(frames) \in Nat \ {0} /\ frames' = SubSeq(frames, 1, Len(frames) - 1)
      /\ Top = frames[Len(frames)]
  BY StackTypes DEF IInv, TypeOK, Pops, Below, Top
<1> DEFINE m == Len(frames) - 1
           o == frames[1].call.origin
           b == frames[1].saved
<1>2. /\ frames' \in Seq(Frames) /\ Len(frames') = m /\ m \in Nat
      /\ \A i \in 1 .. m : frames'[i] = frames[i]
      /\ frames' = <<>> <=> Len(frames) = 1
  <2>0. m \in Nat /\ m <= Len(frames)
    BY <1>1
  <2>1. frames' \in Seq(Frames) /\ Len(frames') = m /\ m \in Nat
    <3>1. /\ Len(frames) \in Nat \ {0} /\ frames \in Seq(Frames)
          /\ frames' = SubSeq(frames, 1, Len(frames) - 1)
      BY <1>1
    <3>2. frames' \in Seq(Frames) /\ Len(frames') = Len(frames) - 1
      BY <3>1, ShorterStack
    <3> QED BY <2>0, <3>2
  <2>2. \A i \in 1 .. m : frames'[i] = frames[i]
    BY <1>1
  <2>3. frames' = <<>> <=> m = 0
    BY <2>1, EmptySeq
  <2> QED BY <1>1, <2>1, <2>2, <2>3
<1>3. Len(frames) # 1 => frames'[1] = frames[1]
  BY <1>1, <1>2
<1>4. StackOf(frames') = SubSeq(StackOf(frames), 1, m)
  <2>1. StackOf(frames') = [i \in 1 .. m |-> StateOf(frames[i].saved, o, b)]
    BY <1>2, <1>3 DEF StackOf
  <2>2. StackOf(frames) = [i \in 1 .. Len(frames) |-> StateOf(frames[i].saved, o, b)]
    BY DEF StackOf
  <2> HIDE DEF o, b
  <2>3. SubSeq([i \in 1 .. Len(frames) |-> StateOf(frames[i].saved, o, b)], 1, m)
          = [i \in 1 .. m |-> StateOf(frames[i].saved, o, b)]
    BY <1>1, <1>2
  <2> QED BY <2>1, <2>2, <2>3
<1>5. /\ Len(StackOf(frames)) = Len(frames) /\ StackOf(frames) # <<>>
      /\ StackOf(frames)[Len(frames)] = StateOf(Top.saved, o, b)
  BY <1>1, StackShape
<1>6. OriginOf(frames') = IF Len(frames) = 1 THEN NoToken ELSE OriginOf(frames)
  BY <1>1, <1>2, <1>3 DEF OriginOf
<1> DEFINE Popped1 == /\ MappedStack # <<>>
                      /\ MappedStack' = SubSeq(MappedStack, 1, Len(MappedStack) - 1)
                      /\ MappedOrigin' = IF Len(MappedStack) = 1 THEN NoToken
                                         ELSE MappedOrigin
<1>7. Popped1
  BY <1>4, <1>5, <1>6, Mapping
<1>8. CASE world' = Top.saved
  <2>1. LiveOf(world', frames') = LiveSince(Top.saved, o, b)
    <3>1. CASE Len(frames) = 1
      <4>1. Top.saved = b /\ LiveOf(world', frames') = {}
        BY <1>1, <1>2, <3>1 DEF LiveOf
      <4>2. LiveSince(b, o, b) = {}
        <5>1. b \in Worlds /\ o \in Origins
          BY <1>1, FrameTypes, StackTypes DEF IInv, TxOrigin
        <5> QED BY <5>1, WorldTypes DEF LiveSince
      <4> QED BY <4>1, <4>2
    <3>2. CASE Len(frames) # 1
      BY <1>2, <1>3, <1>8, <3>2 DEF LiveOf
    <3> QED BY <3>1, <3>2
  <2>2. /\ IssuedIn(world') = StackOf(frames)[Len(frames)].issued
        /\ world'.spent = StackOf(frames)[Len(frames)].used
        /\ LiveOf(world', frames') = StackOf(frames)[Len(frames)].live
    BY <1>5, <1>8, <2>1 DEF StateOf
  <2>3. /\ IssuedIn(world)' = MappedStack[Len(MappedStack)].issued
        /\ world'.spent = MappedStack[Len(MappedStack)].used
        /\ Live(world)' = MappedStack[Len(MappedStack)].live
    BY <1>5, <2>2, Mapping
  <2> QED BY <1>7, <2>3 DEF Tickets!Rollback, Tickets!Pop, MappedStack, MappedOrigin
<1>9. CASE world' = IF Len(frames) = 1 THEN Discarded(world) ELSE world
  <2>1. /\ world'.log = world.log /\ world'.spent = world.spent
        /\ world'.nonces = world.nonces
    BY <1>1, <1>9 DEF Discarded, Worlds
  <2>2. IssuedIn(world') = IssuedIn(world)
    BY <2>1 DEF IssuedIn
  <2>3. LiveOf(world', frames') = IF Len(frames) = 1 THEN {} ELSE LiveOf(world, frames)
    BY <1>1, <1>2, <1>3, <2>1 DEF LiveOf, LiveSince
  <2>4. /\ IssuedIn(world)' = IssuedIn(world)
        /\ Live(world)' = IF Len(MappedStack) = 1 THEN {} ELSE Live(world)
    BY <1>5, <2>2, <2>3, Mapping
  <2> QED BY <1>7, <2>1, <2>4 DEF Tickets!Close, Tickets!Pop, MappedStack, MappedOrigin
<1> QED BY <1>8, <1>9 DEF Pops

\* Slots, hooks, frames and roles implement tickets that are issued and used
\* in order, by scopes that open, close and roll back (the whole module).
THEOREM TicketsRefinement == Spec => ImplementsTickets
<1>1. Init => Tickets!Init
  <2> SUFFICES ASSUME Init
               PROVE  Tickets!Init
    OBVIOUS
  <2>1. /\ frames = <<>> /\ world.spent = {}
        /\ world.log = [p \in CallPolicies |-> [o \in Origins |-> <<>>]]
    BY InitialWorldsAssumption DEF Init
  <2>2. IssuedIn(world) = [p \in CallPolicies |-> [o \in Origins |-> <<>>]]
    BY <2>1 DEF IssuedIn
  <2>3. Live(world) = {} /\ MappedOrigin = NoToken /\ MappedStack = <<>>
    BY <2>1 DEF Live, MappedOrigin, MappedStack
  <2> QED BY <2>1, <2>2, <2>3 DEF Tickets!Init, MappedOrigin, MappedStack
<1>2. IInv /\ OrderInv /\ [Next]_vars => [Tickets!Next]_(Tickets!vars)
  <2> SUFFICES ASSUME IInv, OrderInv, [Next]_vars
               PROVE  [Tickets!Next]_(Tickets!vars)
    OBVIOUS
  <2>1. frames' \in Seq(Frames)
    <3>1. CASE Next
      <4>1. IInv'
        BY <3>1, TransactionStep, ApproveStep, ConfigureStep, OffChainStep DEF Next
      <4> QED BY <4>1 DEF IInv, TypeOK
    <3>2. CASE UNCHANGED vars
      BY <3>2 DEF vars, IInv, TypeOK
    <3> QED BY <3>1, <3>2
  <2>2. CASE UNCHANGED vars
    <3>1. Keeps
      BY <2>2 DEF vars, Keeps, SavedSame, SameTickets
    <3> QED BY <2>1, <3>1, TicketsStutter
  <2>3. CASE Next
    BY <2>1, <2>3, Shapes, TicketsStutter, TicketsBegin, TicketsOpen, TicketsIssue,
       TicketsUse, TicketsPop DEF Tickets!Next
  <2> QED BY <2>2, <2>3
<1> QED BY <1>1, <1>2, OrderHolds, PTL DEF Spec, ImplementsTickets, Tickets!Spec
=============================================================================
