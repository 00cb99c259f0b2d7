------------------------- MODULE NetworkSetupProofs -------------------------
(***************************************************************************)
(* What the runs of NetworkSetup show of a few operators, blocks, owners   *)
(* and processes, for any number of them and of crashes: the scan misses   *)
(* no event, lists metadata that were current and, if nothing is mined     *)
(* meanwhile, what there is; subnets and the sample policy are completely  *)
(* set up, whichever scripts stop or run side by side; the Safe executes   *)
(* what was signed at most once and a script that nobody disturbs          *)
(* succeeds; operators are registered with a stake, and vote with no more  *)
(* than they have.                                                         *)
(***************************************************************************)
EXTENDS NetworkSetup, SequenceTheorems, FiniteSetTheorems, FunctionTheorems,
        NaturalsInduction, WellFoundedInduction, TLAPS

-----------------------------------------------------------------------------
(* The scan's pages                                                        *)

\* Blocks are numbered; a transaction adds one, and its event to the log.
ChainOK(n) ==
  /\ {"height", "log"} \subseteq DOMAIN n /\ n.height \in Nat
  /\ \A v \in n.log : v.block \in 1 .. n.height

Grows(n, m) ==
  /\ ChainOK(m)
  /\ m.height \in {n.height, n.height + 1}
  /\ n.log \subseteq m.log
  /\ \A v \in m.log \ n.log : v.block = n.height + 1

\* A reader: what it read lies before its next block, which does not lie
\* beyond the block after the latest one it knows of.
ReaderOK(r) ==
  /\ DOMAIN r = {"from", "latest", "events", "failed"}
  /\ r.from \in Nat /\ StartBlock <= r.from
  /\ r.latest = Unread \/ r.latest \in 0 .. net.height
  /\ r.from = StartBlock \/ r.from <= net.height + 1
  /\ \A b \in r.failed : b \in Nat /\ b < r.from

ReadersOK ==
  /\ ChainOK(net)
  /\ "readers" \in DOMAIN scan /\ DOMAIN scan.readers = EventNames
  /\ \A e \in EventNames : ReaderOK(scan.readers[e])

PageInv == ReadersOK /\ PagedExactly

Fields == {"height", "log", "multisig", "restricted", "fees", "center",
           "registry", "policies", "sample", "setUp", "metadata", "subnets"}

\* The fields of a chain, one by one.
LEMMA ChainFields ==
  ASSUME NEW n, ChainTypeOK(n)
  PROVE  /\ DOMAIN n = Fields
         /\ n = [f \in Fields |-> n[f]]
         /\ n.height \in Nat /\ n.log \subseteq Events
         /\ n.multisig \in {"deployer", "successor"}
         /\ n.restricted \in Seq(SUBSET Nat) /\ n.fees \in [Ids -> SUBSET FeeSettings]
         /\ n.center \in Seq(Operators) /\ n.registry \in [DOMAIN n.registry -> Nat]
         /\ n.policies \in 0 .. MaxPolicies /\ n.sample \in 0 .. n.policies
         /\ n.setUp \in [Policies -> SUBSET SetUpItems]
         /\ n.metadata \in [Policies -> MetadataURIs \cup {Original, Unregistered}]
         /\ n.subnets \in [Policies -> Range(n.subnets)]
         /\ DOMAIN n.subnets = Policies
BY DEF ChainTypeOK, Fields

\* A transaction adds a block and, by itself, no event.
LEMMA MinedGrows ==
  ASSUME NEW n, ChainOK(n) PROVE Grows(n, Mined(n)) /\ Mined(n).log = n.log
BY DEF ChainOK, Grows, Mined

\* A transaction with an event adds a block, and the event in that block.
LEMMA EmittedGrows ==
  ASSUME NEW n, ChainOK(n), NEW name, NEW policy, NEW metadata
  PROVE  Grows(n, Emitted(n, name, policy, metadata))
BY DEF ChainOK, Grows, Mined, Emitted

\* A transaction that leaves no event.
LEMMA QuietGrows ==
  ASSUME NEW n, ChainOK(n), NEW m, DOMAIN m = DOMAIN n,
         m.height = n.height + 1, m.log = n.log
  PROVE  Grows(n, m)
BY DEF ChainOK, Grows

\* A chain that stays as it is has lost nothing.
LEMMA StaysGrows == ASSUME NEW n, ChainOK(n) PROVE Grows(n, n)
BY DEF ChainOK, Grows

\* Nothing that a call does to the chain takes an event back.
LEMMA EffectGrows ==
  ASSUME NEW n, ChainOK(n), NEW s, NEW v, NEW o \in Effect(s, n, v)
  PROVE  Grows(n, o[1])
<1>1. CASE s[1] = "predict"
  BY <1>1, StaysGrows DEF Effect, Predict, Sent
<1>2. CASE s[1] = "createDefinition"
  <2>. DEFINE m == [Mined(n) EXCEPT !.restricted = Append(@, restrictedOperatorIndexes)]
  <2>1. o[1] = m
    BY <1>2 DEF Effect, CreateDefinition, Sent
  <2>2. DOMAIN m = DOMAIN n /\ m.height = n.height + 1 /\ m.log = n.log
    BY DEF Mined, ChainOK
  <2>. QED
    BY <2>1, <2>2, QuietGrows
<1>3. CASE s[1] = "setFee"
  <2>. DEFINE m == [Mined(n) EXCEPT !.fees[v.id] = @ \cup {s[2]}]
  <2>1. o[1] = m
    BY <1>3 DEF Effect, SetFee, Sent
  <2>2. DOMAIN m = DOMAIN n /\ m.height = n.height + 1 /\ m.log = n.log
    BY DEF Mined, ChainOK
  <2>. QED
    BY <2>1, <2>2, QuietGrows
<1>4. CASE s[1] = "restrict"
  <2>. DEFINE m == [Mined(n) EXCEPT !.restricted[s[2]] = restrictedAttesters]
  <2>1. o[1] = m
    BY <1>4 DEF Effect, SetRestricted, Sent
  <2>2. DOMAIN m = DOMAIN n /\ m.height = n.height + 1 /\ m.log = n.log
    BY DEF Mined, ChainOK
  <2>. QED
    BY <2>1, <2>2, QuietGrows
<1>5. CASE s[1] = "transferMultisig"
  <2>. DEFINE m == [Mined(n) EXCEPT !.multisig = "successor"]
  <2>1. o[1] = m
    BY <1>5 DEF Effect, TransferMultisig, Sent
  <2>2. DOMAIN m = DOMAIN n /\ m.height = n.height + 1 /\ m.log = n.log
    BY DEF Mined, ChainOK
  <2>. QED
    BY <2>1, <2>2, QuietGrows
<1>6. CASE s[1] = "takeSample"
  BY <1>6, StaysGrows DEF Effect, TakeSample, Sent
<1>7. CASE s[1] = "getProtocol"
  BY <1>7, StaysGrows DEF Effect, GetProtocol, Sent
<1>8. CASE s[1] = "registerIfUnknown"
  BY <1>8, StaysGrows, EmittedGrows DEF Effect, RegisterIfUnknown, Register, Sent
<1>9. CASE s[1] = "register"
  BY <1>9, EmittedGrows DEF Effect, Register, Sent
<1>10. CASE s[1] = "subscribe"
  <2>. DEFINE m == [Mined(n) EXCEPT !.subnets[v.policy] = Written(@, s[2], v.required)]
  <2>1. o[1] = m
    BY <1>10 DEF Effect, Subscribe, Sent
  <2>2. DOMAIN m = DOMAIN n /\ m.height = n.height + 1 /\ m.log = n.log
    BY DEF Mined, ChainOK
  <2>. QED
    BY <2>1, <2>2, QuietGrows
<1>11. CASE s[1] = "subscribeAny"
  <2>. DEFINE m == [Mined(n) EXCEPT !.subnets[v.policy] = Written(@, s[2], {})]
  <2>1. o[1] = m
    BY <1>11 DEF Effect, Subscribe, Sent
  <2>2. DOMAIN m = DOMAIN n /\ m.height = n.height + 1 /\ m.log = n.log
    BY DEF Mined, ChainOK
  <2>. QED
    BY <2>1, <2>2, QuietGrows
<1>12. CASE s[1] = "unsubscribe"
  <2>. DEFINE m == [Mined(n) EXCEPT !.subnets[v.policy] = [i \in DOMAIN @ \ {s[2]} |-> @[i]]]
  <2>1. o[1] = m
    BY <1>12 DEF Effect, Unsubscribe, Sent
  <2>2. DOMAIN m = DOMAIN n /\ m.height = n.height + 1 /\ m.log = n.log
    BY DEF Mined, ChainOK
  <2>. QED
    BY <2>1, <2>2, QuietGrows
<1>13. CASE s[1] = "deployPolicy"
  <2>. DEFINE m == [Mined(n) EXCEPT !.policies = @ + 1]
  <2>1. o[1] = m
    BY <1>13 DEF Effect, DeployPolicy, Sent
  <2>2. DOMAIN m = DOMAIN n /\ m.height = n.height + 1 /\ m.log = n.log
    BY DEF Mined, ChainOK
  <2>. QED
    BY <2>1, <2>2, QuietGrows
<1>14. CASE s[1] = "setUp"
  <2>. DEFINE m == [Mined(n) EXCEPT !.setUp[v.policy] = @ \cup {s[2]}]
  <2>1. o[1] = m
    BY <1>14 DEF Effect, SetUp, Sent
  <2>2. DOMAIN m = DOMAIN n /\ m.height = n.height + 1 /\ m.log = n.log
    BY DEF Mined, ChainOK
  <2>. QED
    BY <2>1, <2>2, QuietGrows
<1>15. CASE s[1] = "publishSample"
  BY <1>15 DEF Effect, PublishSample, Sent, Grows, ChainOK
<1>16. CASE s[1] = "registerOperator"
  <2>. DEFINE m == [Mined(n) EXCEPT !.registry = Written(@, v.operator, OperatorId(n, v.operator))]
  <2>1. o[1] = m
    BY <1>16 DEF Effect, RegisterOperator, Sent
  <2>2. DOMAIN m = DOMAIN n /\ m.height = n.height + 1 /\ m.log = n.log
    BY DEF Mined, ChainOK
  <2>. QED
    BY <2>1, <2>2, QuietGrows
<1>17. CASE s[1] = "subscribeOperators"
  BY <1>17, MinedGrows DEF Effect, SubscribeOperators, Sent
<1>. QED
  BY <1>1, <1>2, <1>3, <1>4, <1>5, <1>6, <1>7, <1>8, <1>9, <1>10, <1>11,
     <1>12, <1>13, <1>14, <1>15, <1>16, <1>17 DEF Effect

\* A scan that has not begun has read nothing.
LEMMA PageInvInit == ASSUME NetworkInit PROVE PageInv
<1>1. PICK s \in Scenarios :
        net = s.net /\ scan = (IF s.scans THEN NotBegun ELSE NeverBegins)
  BY DEF NetworkInit, FlowInit
<1>2. ChainOK(net)
  BY <1>1, ScenariosAssumption, ChainFields DEF ChainOK, Fields
<1>3. "readers" \in DOMAIN scan /\ scan.readers = [e \in EventNames |-> Reader(StartBlock, Unread, {}, {})]
  BY <1>1 DEF NotBegun, NeverBegins
<1>4. \A e \in EventNames : scan.readers[e] = Reader(StartBlock, Unread, {}, {})
  BY <1>3
<1>5. ReadersOK
  BY <1>2, <1>3, <1>4, TopologyAssumption DEF ReadersOK, ReaderOK, Reader, ChainOK
<1>6. PagedExactly
  BY <1>2, <1>4, TopologyAssumption DEF PagedExactly, Reader, ChainOK
<1>. QED
  BY <1>5, <1>6 DEF PageInv

\* When the chain grows, the events added are beyond every reader.
LEMMA GrowthKeepsPages ==
  ASSUME PageInv, Grows(net, net'), scan' = scan
  PROVE  PageInv'
<1>1. ReadersOK'
  BY DEF PageInv, ReadersOK, ReaderOK, Grows, ChainOK
<1>2. ASSUME NEW e \in EventNames
      PROVE  {v \in net'.log : /\ v.name = e /\ StartBlock <= v.block
                               /\ v.block < scan.readers[e].from /\ v.block \notin scan.readers[e].failed}
             = {v \in net.log : /\ v.name = e /\ StartBlock <= v.block
                              /\ v.block < scan.readers[e].from /\ v.block \notin scan.readers[e].failed}
  <2>1. ASSUME NEW v \in net'.log \ net.log, StartBlock <= v.block
        PROVE  ~(v.block < scan.readers[e].from)
    BY <1>2, <2>1, TopologyAssumption DEF PageInv, ReadersOK, ReaderOK, Grows, ChainOK
  <2>. QED
    BY <2>1 DEF Grows
<1>3. PagedExactly'
  BY <1>2 DEF PageInv, PagedExactly
<1>. QED
  BY <1>1, <1>3 DEF PageInv

\* Scripts and admins only add events to new blocks, which no reader has passed.
LEMMA ScriptsKeepPages ==
  ASSUME PageInv, ScriptNext \/ (\E o \in Operators : ReceiveOperator(o)), scan' = scan
  PROVE  PageInv'
<1>0. ChainOK(net)
  BY DEF PageInv, ReadersOK
<1>1. Grows(net, net')
  <2>1. CASE \E p \in DOMAIN processes : Start(p) \/ Throw(p) \/ Die(p) \/ Restart(p)
    BY <2>1, <1>0, StaysGrows DEF Start, Throw, Die, Restart
  <2>2. CASE \E p \in DOMAIN processes : Execute(p)
    BY <2>2, <1>0, EffectGrows DEF Execute, Outcomes
  <2>3. CASE \E policy \in Policies, m \in MetadataURIs : UpdateProtocol(policy, m)
    BY <2>3, <1>0, EmittedGrows DEF UpdateProtocol
  <2>4. CASE \E o \in Operators : ReceiveOperator(o)
    <3>1. PICK o \in Operators : net' = [Mined(net) EXCEPT !.center = Append(@, o)]
      BY <2>4 DEF ReceiveOperator
    <3>. DEFINE m == [Mined(net) EXCEPT !.center = Append(@, o)]
    <3>2. DOMAIN m = DOMAIN net /\ m.height = net.height + 1 /\ m.log = net.log
      BY <1>0 DEF Mined, ChainOK
    <3>. QED
      BY <3>1, <3>2, <1>0, QuietGrows
  <2>. QED
    BY <2>1, <2>2, <2>3, <2>4 DEF ScriptNext
<1>. QED
  BY <1>1, GrowthKeepsPages

\* A page that is read or skipped.
LEMMA PageKeepsPages ==
  ASSUME PageInv, NEW e \in EventNames, ReadPage(e) \/ SkipPage(e)
  PROVE  PageInv'
<1>. DEFINE r == scan.readers[e]
            q == scan'.readers[e]
<1>1. /\ net' = net /\ ReaderOK(r) /\ ChainOK(net) /\ r.latest \in 0 .. net.height
      /\ r.from <= r.latest
  BY DEF PageInv, ReadersOK, ReaderOK, ReadPage, SkipPage, Keep, PageLeft
<1>2. /\ ToBlock(r) \in Nat /\ r.from <= ToBlock(r) /\ ToBlock(r) <= r.latest
  BY <1>1, TopologyAssumption DEF ToBlock, Minimum, ReaderOK
<1>3. /\ "readers" \in DOMAIN scan' /\ DOMAIN scan'.readers = EventNames
      /\ \A d \in EventNames \ {e} : scan'.readers[d] = scan.readers[d]
  BY DEF PageInv, ReadersOK, ReadPage, SkipPage
<1>4. \/ q = Reader(ToBlock(r) + 1, r.latest,
                    r.events \cup {v \in net.log : v.name = e /\ InPage(r, v.block)}, r.failed)
      \/ q = Reader(ToBlock(r) + 1, r.latest, r.events, r.failed \cup (r.from .. ToBlock(r)))
  BY DEF PageInv, ReadersOK, ReadPage, SkipPage, NextBlock
<1>5. ReaderOK(q)
  <2>1. /\ DOMAIN q = {"from", "latest", "events", "failed"}
        /\ q.from = ToBlock(r) + 1 /\ q.latest = r.latest
        /\ q.failed = r.failed \/ q.failed = r.failed \cup (r.from .. ToBlock(r))
    BY <1>4 DEF Reader
  <2>2. \A b \in q.failed : b \in Nat /\ b < ToBlock(r) + 1
    BY <1>1, <1>2, <2>1 DEF ReaderOK
  <2>. HIDE DEF r, q
  <2>. QED
    BY <1>1, <1>2, <2>1, <2>2, TopologyAssumption DEF ReaderOK, ChainOK
<1>6. r.events = {v \in net.log : /\ v.name = e /\ StartBlock <= v.block
                                 /\ v.block < r.from /\ v.block \notin r.failed}
  BY DEF PageInv, PagedExactly
<1>7. q.events = {v \in net.log : /\ v.name = e /\ StartBlock <= v.block
                                 /\ v.block < q.from /\ v.block \notin q.failed}
  <2>1. CASE q = Reader(ToBlock(r) + 1, r.latest,
                        r.events \cup {v \in net.log : v.name = e /\ InPage(r, v.block)}, r.failed)
    BY <1>1, <1>2, <1>6, <2>1, TopologyAssumption DEF Reader, InPage, ReaderOK, ChainOK
  <2>2. CASE q = Reader(ToBlock(r) + 1, r.latest, r.events, r.failed \cup (r.from .. ToBlock(r)))
    BY <1>1, <1>2, <1>6, <2>2, TopologyAssumption DEF Reader, ReaderOK, ChainOK
  <2>. QED
    BY <1>4, <2>1, <2>2
<1>8. ReadersOK'
  BY <1>1, <1>3, <1>5 DEF PageInv, ReadersOK, ReaderOK
<1>9. PagedExactly'
  BY <1>1, <1>3, <1>7 DEF PageInv, PagedExactly
<1>. QED
  BY <1>8, <1>9 DEF PageInv

\* The scan pushes the events of the page it moves past.
LEMMA ScanKeepsPages == ASSUME PageInv, ScanNext PROVE PageInv'
<1>1. CASE \E e \in EventNames : ReadPage(e) \/ SkipPage(e)
  BY <1>1, PageKeepsPages
<1>2. ASSUME NEW e \in EventNames, ReadLatestBlock(e) PROVE PageInv'
  BY <1>2 DEF PageInv, ReadersOK, ReaderOK, PagedExactly, ChainOK, ReadLatestBlock, Keep
<1>3. ASSUME \/ Begin \/ getAllOthenticOperators \/ CountSubnets \/ getAllOthenticSubnets
             \/ extendVennOperators \/ MergeEvents \/ WriteTopology
             \/ \E p \in DOMAIN scan.protocols : ReadTaskDefinitionIds(p)
             \/ \E p \in DOMAIN scan.ids : \E id \in scan.ids[p] : ReadRequiredOperatorIds(p, id)
      PROVE  PageInv'
  <2>1. net' = net /\ DOMAIN scan' = DOMAIN scan /\ scan'.readers = scan.readers
    BY <1>3 DEF PageInv, ReadersOK, Keep, To, Begin, getAllOthenticOperators, CountSubnets,
       getAllOthenticSubnets, extendVennOperators, MergeEvents, WriteTopology,
       ReadTaskDefinitionIds, ReadRequiredOperatorIds
  <2>. QED
    BY <2>1 DEF PageInv, ReadersOK, ReaderOK, PagedExactly
<1>. QED
  BY <1>1, <1>2, <1>3 DEF ScanNext

\* What the loops read is all there was, in every state.
LEMMA PageInvHolds == NetworkSpec => []PageInv
<1>1. NetworkInit => PageInv
  BY PageInvInit
<1>2. PageInv /\ [NetworkNext]_networkVars => PageInv'
  <2>. SUFFICES ASSUME PageInv, [NetworkNext]_networkVars PROVE PageInv'
    OBVIOUS
  <2>1. CASE ScriptNext /\ UNCHANGED scan
    BY <2>1, ScriptsKeepPages
  <2>2. CASE ScanNext
    BY <2>2, ScanKeepsPages
  <2>3. CASE \E o \in Operators : Deliver(o) /\ UNCHANGED scan
    BY <2>3, ScriptsKeepPages DEF Deliver
  <2>4. CASE UNCHANGED <<net, scan>>
    BY <2>4 DEF PageInv, ReadersOK, ReaderOK, PagedExactly
  <2>. QED
    BY <2>1, <2>2, <2>3, <2>4 DEF NetworkNext, networkVars, flowVars
<1>. QED
  BY <1>1, <1>2, PTL DEF NetworkSpec

\* Every event the pages went over is found exactly once and no other, for
\* every page size and start block, whatever is registered meanwhile.
THEOREM ScanMissesNothing == NetworkSpec => []PagedExactly
<1>1. PageInv => PagedExactly
  BY DEF PageInv
<1>. QED
  BY <1>1, PageInvHolds, PTL

-----------------------------------------------------------------------------
(* The signatures of the Safe                                              *)

Phases == {"idle", "signers", "nonce", "sign", "send", "handed", "done", "refused"}

Entries == [by : DOMAIN signings, turn : Nat, signed : Nat, asked : Nat]

SigningOK(s, turns) ==
  /\ DOMAIN s = {"request", "at", "turn", "signers", "nonce", "read", "refused", "bytes"}
  /\ s.at \in Phases
  /\ s.request.nonce \in Nat /\ Range(s.request.signers) \subseteq Range(Owners)
  /\ Range(s.signers) \subseteq Range(Owners)
  /\ s.nonce \in Nat /\ s.turn \in 0 .. turns
  /\ s.at \in {"sign", "send", "handed", "done", "refused"} /\ s.request.nonce # NotGiven
       => s.nonce = s.request.nonce
  /\ s.at \in {"send", "handed", "done", "refused"}
       => s.bytes.digest = EIP712_SAFE_TX_TYPE(s.request.call, s.nonce)

\* What a turn of a script signed, whether executed or sent, is for the nonce
\* that turn took, and for the one it was given if it was given one.
SignedOK(by, turn, nonce, asked) ==
  /\ by \in DOMAIN signings /\ turn \in 0 .. signings[by].turn /\ nonce \in Nat
  /\ asked = signings[by].request.nonce
  /\ asked # NotGiven => nonce = asked
  /\ turn = signings[by].turn
       => nonce = signings[by].nonce /\ signings[by].at \in {"handed", "done"}

SentOK(tx) ==
  /\ DOMAIN tx = {"by", "turn", "call", "nonce", "asked", "bytes"}
  /\ SignedOK(tx.by, tx.turn, tx.nonce, tx.asked)
  /\ tx.bytes.digest = EIP712_SAFE_TX_TYPE(tx.call, tx.nonce)

EntryOK(e, i) == SignedOK(e.by, e.turn, e.signed, e.asked) /\ e.signed = i - 1

SafeShape ==
  /\ reruns \in Nat
  /\ DOMAIN safe = {"nonce", "ready", "executed"} /\ safe.ready \in BOOLEAN
  /\ safe.executed \in Seq(Entries) /\ safe.nonce = Len(safe.executed)
  /\ \A p \in DOMAIN signings : SigningOK(signings[p], reruns)

\* One nonce for each turn.
OneNonce ==
  /\ \A tx, ty \in sent : tx.by = ty.by /\ tx.turn = ty.turn => tx.nonce = ty.nonce
  /\ \A tx \in sent, i \in DOMAIN safe.executed :
       tx.by = safe.executed[i].by /\ tx.turn = safe.executed[i].turn
         => tx.nonce = safe.executed[i].signed
  /\ \A i, j \in DOMAIN safe.executed :
       safe.executed[i].by = safe.executed[j].by /\ safe.executed[i].turn = safe.executed[j].turn
         => safe.executed[i].signed = safe.executed[j].signed

SafeInv ==
  /\ SafeShape /\ OneNonce
  /\ \A tx \in sent : SentOK(tx)
  /\ \A i \in DOMAIN safe.executed : EntryOK(safe.executed[i], i)

\* Nothing is signed or sent at first.
LEMMA SafeInvInit == ASSUME NetworkInit PROVE SafeInv
<1>1. PICK s \in Scenarios : SafeInit(s.requests)
  BY DEF NetworkInit
<1>2. \A p \in DOMAIN signings : signings[p] = Fresh(s.requests[p])
  BY <1>1 DEF SafeInit
<1>3. safe = [nonce |-> 0, ready |-> FALSE, executed |-> <<>>] /\ sent = {} /\ reruns = 0
  BY <1>1 DEF SafeInit
<1>4. \A p \in DOMAIN signings : SigningOK(signings[p], reruns)
  <2>1. \A p \in DOMAIN s.requests : /\ s.requests[p].nonce \in Nat
                                     /\ Range(s.requests[p].signers) \subseteq Range(Owners)
    BY ScenariosAssumption
  <2>2. DOMAIN signings = DOMAIN s.requests
    BY <1>1 DEF SafeInit
  <2>3. Range(<<>>) = {}
    BY DEF Range
  <2>4. ASSUME NEW r, r.nonce \in Nat, Range(r.signers) \subseteq Range(Owners)
        PROVE  SigningOK(Fresh(r), 0)
    BY <2>3, <2>4 DEF SigningOK, Fresh, Phases
  <2>. QED
    BY <1>2, <1>3, <2>1, <2>2, <2>4
<1>. QED
  BY <1>3, <1>4 DEF SafeInv, SafeShape, OneNonce

\* A script moves on before it has handed over or sent what it signs, or is
\* run again.
LEMMA MoveKeepsSafe ==
  ASSUME SafeInv, NEW p \in DOMAIN signings, NEW t,
         signings' = [signings EXCEPT ![p] = t], safe' = safe, sent' = sent,
         reruns' \in {reruns, reruns + 1}, SigningOK(t, reruns'),
         t.request = signings[p].request,
         \/ t.turn = signings[p].turn /\ signings[p].at \notin {"handed", "done"}
         \/ t.turn = signings[p].turn + 1
  PROVE  SafeInv'
<1>1. /\ DOMAIN signings' = DOMAIN signings /\ signings'[p] = t
      /\ \A q \in DOMAIN signings \ {p} : signings'[q] = signings[q]
  OBVIOUS
<1>2. reruns' \in Nat /\ \A q \in DOMAIN signings : SigningOK(signings'[q], reruns')
  BY <1>1 DEF SafeInv, SafeShape, SigningOK
<1>3. SafeShape'
  BY <1>1, <1>2 DEF SafeInv, SafeShape, Entries
<1>4. OneNonce'
  BY DEF SafeInv, OneNonce
<1>5. ASSUME NEW by, NEW turn, NEW nonce, NEW asked, SignedOK(by, turn, nonce, asked)
      PROVE  SignedOK(by, turn, nonce, asked)'
  BY <1>1, <1>5 DEF SignedOK, SafeInv, SafeShape, SigningOK
<1>6. \A tx \in sent' : SentOK(tx)'
  BY <1>5 DEF SafeInv, SentOK
<1>7. (\A i \in DOMAIN safe.executed : EntryOK(safe.executed[i], i))'
  BY <1>5 DEF SafeInv, EntryOK
<1>. QED
  BY <1>3, <1>4, <1>6, <1>7 DEF SafeInv

\* A script that signs puts the nonce it read, or was given, into the signatures.
LEMMA SigningKeepsSafe ==
  ASSUME SafeInv, NEW p \in DOMAIN signings,
         StartSigning(p) \/ TakeSigners(p) \/ TakeNonce(p) \/ Sign(p) \/ SignAgain(p)
  PROVE  SafeInv'
<1>. DEFINE s == signings[p]
<1>1. SigningOK(s, reruns) /\ reruns \in Nat /\ safe.nonce \in Nat
  BY DEF SafeInv, SafeShape
<1>2. CASE StartSigning(p)
  <2>. DEFINE t == [s EXCEPT !.at = "signers"]
  <2>1. SigningOK(t, reruns) /\ t.request = s.request /\ t.turn = s.turn
    BY <1>1 DEF SigningOK, Phases
  <2>. QED
    BY <1>1, <1>2, <2>1, MoveKeepsSafe DEF StartSigning, Signing, Continues
<1>3. CASE TakeSigners(p)
  <2>1. PICK signers : /\ Range(signers) \subseteq Range(Owners)
                       /\ signings' = [signings EXCEPT ![p] =
                            [[s EXCEPT !.signers = signers] EXCEPT !.at = "nonce"]]
    BY <1>1, <1>3 DEF TakeSigners, Continues, SigningOK
  <2>. DEFINE t == [[s EXCEPT !.signers = signers] EXCEPT !.at = "nonce"]
  <2>2. SigningOK(t, reruns) /\ t.request = s.request /\ t.turn = s.turn
    BY <1>1, <2>1 DEF SigningOK, Phases
  <2>. QED
    BY <1>1, <1>3, <2>1, <2>2, MoveKeepsSafe DEF TakeSigners, Signing
<1>4. CASE TakeNonce(p)
  <2>. DEFINE given == s.request.nonce
              t == [[s EXCEPT !.nonce = IF given # NotGiven THEN given ELSE safe.nonce,
                              !.read = Len(safe.executed)] EXCEPT !.at = "sign"]
  <2>1. SigningOK(t, reruns) /\ t.request = s.request /\ t.turn = s.turn
    BY <1>1 DEF SigningOK, Phases
  <2>. QED
    BY <1>1, <1>4, <2>1, MoveKeepsSafe DEF TakeNonce, Signing, Continues
<1>5. CASE Sign(p)
  <2>1. PICK phase \in {"send", "handed"} :
          signings' = [signings EXCEPT ![p] =
            [[s EXCEPT !.bytes = safeSignTypedData(s.request.call, s.nonce, s.signers)]
               EXCEPT !.at = phase]]
    BY <1>5 DEF Sign, Continues
  <2>. DEFINE t == [[s EXCEPT !.bytes = safeSignTypedData(s.request.call, s.nonce, s.signers)]
                      EXCEPT !.at = phase]
  <2>2. SigningOK(t, reruns) /\ t.request = s.request /\ t.turn = s.turn
    <3>1. s.at = "sign"
      BY <1>5 DEF Sign, Signing
    <3>. QED
      BY <1>1, <2>1, <3>1 DEF SigningOK, Phases, safeSignTypedData
  <2>. QED
    BY <1>1, <1>5, <2>1, <2>2, MoveKeepsSafe DEF Sign, Signing
<1>6. CASE SignAgain(p)
  <2>. DEFINE t == [[Fresh(s.request) EXCEPT !.turn = s.turn + 1] EXCEPT !.at = "signers"]
  <2>1. Range(<<>>) = {}
    BY DEF Range
  <2>2. SigningOK(t, reruns + 1) /\ t.request = s.request /\ t.turn = s.turn + 1
    BY <1>1, <2>1 DEF SigningOK, Phases, Fresh
  <2>. QED
    BY <1>1, <1>6, <2>2, MoveKeepsSafe DEF SignAgain, Continues
<1>. QED
  BY <1>2, <1>3, <1>4, <1>5, <1>6

\* An execution is sent, or refused.
LEMMA ExecKeepsSafe ==
  ASSUME SafeInv, NEW p \in DOMAIN signings, execSafeTx(p) PROVE SafeInv'
<1>. DEFINE s == signings[p]
            tx == Execution(p)
<1>1. SigningOK(s, reruns) /\ s.at = "send"
  BY DEF SafeInv, SafeShape, execSafeTx, Signing
<1>2. ASSUME signings' = [signings EXCEPT ![p] = [s EXCEPT !.at = "done"]],
             sent' = sent \cup {tx}, safe' = safe, reruns' = reruns
      PROVE  SafeInv'
  <2>. DEFINE t == [s EXCEPT !.at = "done"]
  <2>1. SigningOK(t, reruns) /\ t.request = s.request /\ t.turn = s.turn /\ t.nonce = s.nonce
        /\ t.at = "done"
    BY <1>1 DEF SigningOK, Phases
  <2>2. /\ DOMAIN signings' = DOMAIN signings /\ signings'[p] = t
        /\ \A q \in DOMAIN signings \ {p} : signings'[q] = signings[q]
    BY <1>2
  <2>3. SafeShape'
    BY <1>2, <2>1, <2>2 DEF SafeInv, SafeShape, Entries
  <2>4. ASSUME NEW by, NEW turn, NEW nonce, NEW asked, SignedOK(by, turn, nonce, asked)
        PROVE  SignedOK(by, turn, nonce, asked)' /\ (by = p => turn # s.turn)
    BY <1>1, <2>1, <2>2, <2>4 DEF SignedOK
  <2>5. ASSUME NEW ty, ty = tx PROVE SentOK(ty)'
    BY <1>1, <2>1, <2>2, <2>5 DEF SentOK, SignedOK, Execution, SigningOK
  <2>6. tx.by = p /\ tx.turn = s.turn
    BY DEF Execution
  <2>7. OneNonce'
    BY <1>2, <2>4, <2>6 DEF SafeInv, OneNonce, SentOK, EntryOK
  <2>8. \A ty \in sent' : SentOK(ty)'
    <3>1. \A ty \in sent : SentOK(ty)'
      BY <2>4 DEF SafeInv, SentOK
    <3>. QED
      BY <1>2, <2>5, <3>1
  <2>9. (\A i \in DOMAIN safe.executed : EntryOK(safe.executed[i], i))'
    BY <1>2, <2>4 DEF SafeInv, EntryOK
  <2>. QED
    BY <2>3, <2>7, <2>8, <2>9 DEF SafeInv
<1>3. ASSUME signings' = [signings EXCEPT ![p] =
               [[s EXCEPT !.refused = Len(safe.executed)] EXCEPT !.at = "refused"]],
             sent' = sent, safe' = safe, reruns' = reruns
      PROVE  SafeInv'
  <2>. DEFINE t == [[s EXCEPT !.refused = Len(safe.executed)] EXCEPT !.at = "refused"]
  <2>1. SigningOK(t, reruns) /\ t.request = s.request /\ t.turn = s.turn
    BY <1>1 DEF SigningOK, Phases
  <2>. QED
    BY <1>1, <1>3, <2>1, MoveKeepsSafe
<1>. QED
  BY <1>2, <1>3 DEF execSafeTx, Continues

\* What the Safe executes was signed for its nonce.
LEMMA ExecutedKeepsSafe ==
  ASSUME SafeInv, NEW tx, SentOK(tx), Accepts(tx.call, tx.bytes),
         \A ty \in sent : tx.by = ty.by /\ tx.turn = ty.turn => tx.nonce = ty.nonce,
         \A i \in DOMAIN safe.executed :
           tx.by = safe.executed[i].by /\ tx.turn = safe.executed[i].turn
             => tx.nonce = safe.executed[i].signed,
         safe' = Executed(tx), sent' \subseteq sent, signings' = signings, reruns' = reruns
  PROVE  SafeInv'
<1>. DEFINE e == [by |-> tx.by, turn |-> tx.turn, signed |-> tx.nonce, asked |-> tx.asked]
            n == Len(safe.executed)
<1>1. safe.executed \in Seq(Entries) /\ n \in Nat /\ safe.nonce = n
  BY DEF SafeInv, SafeShape
<1>2. tx.nonce = n
  BY <1>1 DEF SentOK, Accepts, EIP712_SAFE_TX_TYPE
<1>3. e \in Entries
  BY DEF SentOK, SignedOK, EntryOK, Entries, SafeInv, SafeShape, SigningOK
<1>4. DOMAIN safe' = DOMAIN safe /\ safe'.ready = safe.ready /\ safe'.nonce = n + 1
      /\ safe'.executed = Append(safe.executed, e)
  BY <1>1 DEF SafeInv, SafeShape, Executed
<1>5. /\ safe'.executed \in Seq(Entries) /\ Len(safe'.executed) = n + 1
      /\ DOMAIN safe'.executed = 1 .. n + 1 /\ DOMAIN safe.executed = 1 .. n
      /\ safe'.executed[n + 1] = e
      /\ \A i \in 1 .. n : safe'.executed[i] = safe.executed[i]
  BY <1>1, <1>3, <1>4
<1>6. SafeShape'
  BY <1>4, <1>5 DEF SafeInv, SafeShape, Entries
<1>7. OneNonce'
  <2>1. \A i \in 1 .. n : e.by = safe.executed[i].by /\ e.turn = safe.executed[i].turn
                            => e.signed = safe.executed[i].signed
    BY <1>5
  <2>2. ASSUME NEW i \in 1 .. n + 1, NEW j \in 1 .. n + 1,
               safe'.executed[i].by = safe'.executed[j].by,
               safe'.executed[i].turn = safe'.executed[j].turn
        PROVE  safe'.executed[i].signed = safe'.executed[j].signed
    <3>. HIDE DEF e, n
    <3>1. CASE i = n + 1
      BY <1>1, <1>5, <2>1, <2>2, <3>1
    <3>2. CASE j = n + 1
      BY <1>1, <1>5, <2>1, <2>2, <3>2
    <3>3. CASE i \in 1 .. n /\ j \in 1 .. n
      <4>1. safe'.executed[i] = safe.executed[i] /\ safe'.executed[j] = safe.executed[j]
        BY <1>5, <3>3
      <4>. QED
        BY <1>5, <2>2, <3>3, <4>1 DEF SafeInv, OneNonce
    <3>. QED
      BY <1>1, <2>2, <3>1, <3>2, <3>3
  <2>3. ASSUME NEW ty \in sent', NEW i \in 1 .. n + 1,
               ty.by = safe'.executed[i].by, ty.turn = safe'.executed[i].turn
        PROVE  ty.nonce = safe'.executed[i].signed
    <3>1. CASE i = n + 1
      BY <1>5, <2>3, <3>1
    <3>2. CASE i \in 1 .. n
      <4>. HIDE DEF e, n
      <4>1. safe'.executed[i] = safe.executed[i] /\ ty \in sent
        BY <1>5, <2>3, <3>2
      <4>. QED
        BY <1>5, <2>3, <3>2, <4>1 DEF SafeInv, OneNonce
    <3>. QED
      BY <1>1, <2>3, <3>1, <3>2
  <2>4. \A tx1, ty \in sent' : tx1.by = ty.by /\ tx1.turn = ty.turn => tx1.nonce = ty.nonce
    BY DEF SafeInv, OneNonce
  <2>5. DOMAIN safe'.executed = 1 .. n + 1
    BY <1>5
  <2>6. \A i, j \in DOMAIN safe'.executed :
           safe'.executed[i].by = safe'.executed[j].by
             /\ safe'.executed[i].turn = safe'.executed[j].turn
           => safe'.executed[i].signed = safe'.executed[j].signed
    <3>. HIDE DEF e, n
    <3>. QED
      BY <2>2, <2>5
  <2>7. \A ty \in sent', i \in DOMAIN safe'.executed :
           ty.by = safe'.executed[i].by /\ ty.turn = safe'.executed[i].turn
           => ty.nonce = safe'.executed[i].signed
    <3>. HIDE DEF e, n
    <3>. QED
      BY <2>3, <2>5
  <2>. QED
    <3>. HIDE DEF e, n
    <3>. QED
      BY <2>4, <2>6, <2>7 DEF OneNonce
<1>8. \A ty \in sent' : SentOK(ty)'
  BY DEF SafeInv, SentOK, SignedOK
<1>9. ASSUME NEW i \in DOMAIN safe'.executed
      PROVE  EntryOK(safe.executed[i], i)'
  <2>1. CASE i = n + 1
    <3>1. SignedOK(e.by, e.turn, e.signed, e.asked)
      BY DEF SentOK
    <3>2. e.signed = n
      BY <1>2
    <3> HIDE DEF e, n
    <3>3. safe'.executed[i] = e /\ n \in Nat
      BY <1>1, <1>5, <2>1
    <3>4. SignedOK(e.by, e.turn, e.signed, e.asked)'
      BY <3>1 DEF SignedOK, e
    <3>5. i - 1 = n
      BY <2>1, <3>3
    <3> QED BY <3>2, <3>3, <3>4, <3>5 DEF EntryOK, SignedOK
  <2>2. CASE i \in 1 .. n
    BY <1>5, <2>2, SMTT(20) DEF SafeInv, EntryOK, SignedOK
  <2>. QED
    BY <1>5, <2>1, <2>2
<1>. QED
  BY <1>6, <1>7, <1>8, <1>9 DEF SafeInv

\* Executions and further runs keep one nonce for each given one, and executed entries in place.
LEMMA SafeInvNext == ASSUME SafeInv, SafeNext PROVE SafeInv'
<1>1. ASSUME NEW p \in DOMAIN signings, Submit(p) PROVE SafeInv'
  <2>1. SigningOK(signings[p], reruns) /\ signings[p].at = "handed"
    BY <1>1 DEF SafeInv, SafeShape, Submit, Signing
  <2>2. SentOK(Execution(p))
    BY <2>1 DEF SigningOK, SentOK, SignedOK, Execution
  <2>3. \A by, turn, nonce, asked :
          SignedOK(by, turn, nonce, asked) /\ by = p /\ turn = signings[p].turn
            => nonce = signings[p].nonce
    BY DEF SignedOK
  <2>4. /\ \A ty \in sent : p = ty.by /\ signings[p].turn = ty.turn => signings[p].nonce = ty.nonce
        /\ \A i \in DOMAIN safe.executed :
             p = safe.executed[i].by /\ signings[p].turn = safe.executed[i].turn
               => signings[p].nonce = safe.executed[i].signed
    BY <2>3 DEF SafeInv, SentOK, EntryOK
  <2>. QED
    BY <1>1, <2>2, <2>4, ExecutedKeepsSafe DEF Submit, Execution
<1>2. ASSUME NEW tx \in sent, MineExecution(tx) PROVE SafeInv'
  <2>1. CASE Accepts(tx.call, tx.bytes)
    BY <1>2, <2>1, ExecutedKeepsSafe DEF SafeInv, OneNonce, MineExecution
  <2>2. CASE ~Accepts(tx.call, tx.bytes)
    BY <1>2, <2>2 DEF SafeInv, SafeShape, OneNonce, SentOK, SignedOK, EntryOK, Entries, MineExecution
  <2>. QED
    BY <2>1, <2>2
<1>3. CASE TurnReady
  BY <1>3 DEF SafeInv, SafeShape, OneNonce, SentOK, SignedOK, EntryOK, Entries, TurnReady
<1>. QED
  BY <1>1, <1>2, <1>3, SigningKeepsSafe, ExecKeepsSafe DEF SafeNext

\* So the Safe's invariant holds in every reachable state.
LEMMA SafeInvHolds == NetworkSpec => []SafeInv
<1>1. NetworkInit => SafeInv
  BY SafeInvInit
<1>2. SafeInv /\ [NetworkNext]_networkVars => SafeInv'
  <2>. SUFFICES ASSUME SafeInv, [NetworkNext]_networkVars PROVE SafeInv'
    OBVIOUS
  <2>1. CASE SafeNext
    BY <2>1, SafeInvNext
  <2>2. CASE UNCHANGED safeVars
    BY <2>2 DEF safeVars, SafeInv, SafeShape, OneNonce, SentOK, SignedOK, EntryOK, Entries
  <2>. QED
    BY <2>1, <2>2 DEF NetworkNext, networkVars, safeVars
<1>. QED
  BY <1>1, <1>2, PTL DEF NetworkSpec

\* Signatures are executed at most once, at the nonce they are for, and a
\* request with a nonce at most once however often it is run again: for any
\* number of scripts, owners and reruns, and any requests.
THEOREM SafeExecutesAtMostOnce == NetworkSpec => []SafeExecutesOnce
<1>1. SafeInv => SafeExecutesOnce
  <2>. SUFFICES ASSUME SafeInv PROVE SafeExecutesOnce
    OBVIOUS
  <2>1. SafeTypeOK
    BY DEF SafeInv, SafeShape, SigningOK, SafeTypeOK
  <2>2. ASSUME NEW i \in DOMAIN safe.executed, NEW j \in DOMAIN safe.executed, i # j,
               safe.executed[i].by = safe.executed[j].by
        PROVE  safe.executed[i].turn # safe.executed[j].turn /\ safe.executed[i].asked = NotGiven
    <3>1. i \in Nat /\ j \in Nat
      BY DEF SafeInv, SafeShape
    <3>2. safe.executed[i].signed # safe.executed[j].signed
      BY <2>2, <3>1 DEF SafeInv, EntryOK
    <3>. QED
      BY <2>2, <3>2 DEF SafeInv, OneNonce, EntryOK, SignedOK
  <2>. QED
    BY <2>1, <2>2 DEF SafeExecutesOnce, SafeInv, EntryOK
<1>. QED
  BY <1>1, SafeInvHolds, PTL

-----------------------------------------------------------------------------
(* Scripts that are left to find owners and nonce *)

\* Owners in the order of their addresses: each one's place is the number of
\* owners up to it.
LEMMA OwnersSorted ==
  /\ buildSignatureBytes(Owners) \in Reordered(Owners)
  /\ \A i, j \in DOMAIN buildSignatureBytes(Owners) :
       i < j => buildSignatureBytes(Owners)[i] <= buildSignatureBytes(Owners)[j]
<1> DEFINE D == DOMAIN Owners
           UpTo(k) == {j \in D : Owners[j] <= Owners[k]}
           rank == [k \in D |-> Cardinality(UpTo(k))]
<1>1. /\ D = 1 .. Len(Owners) /\ Len(Owners) \in Nat /\ \A k \in D : Owners[k] \in Nat
      /\ \A j, k \in D : Owners[j] = Owners[k] => j = k
  BY OwnersAssumption DEF IsInjective
<1>2. IsFiniteSet(D) /\ Cardinality(D) = Len(Owners)
  BY <1>1, FS_Interval
<1>3. ASSUME NEW k \in D
      PROVE  IsFiniteSet(UpTo(k)) /\ Cardinality(UpTo(k)) \in D
  <2>1. UpTo(k) \in SUBSET D /\ k \in UpTo(k)
    BY <1>1
  <2>2. /\ IsFiniteSet(UpTo(k)) /\ Cardinality(UpTo(k)) <= Cardinality(D)
        /\ Cardinality(UpTo(k)) \in Nat /\ Cardinality(UpTo(k)) # 0
    <3> HIDE DEF UpTo, D
    <3>1. IsFiniteSet(UpTo(k)) /\ Cardinality(UpTo(k)) <= Cardinality(D)
      BY <1>2, <2>1, FS_Subset
    <3>2. Cardinality(UpTo(k)) \in Nat
      BY <3>1, FS_CardinalityType
    <3>3. UpTo(k) # {}
      BY <2>1
    <3>4. Cardinality(UpTo(k)) # 0
      BY <3>1, <3>3, FS_EmptySet
    <3> QED BY <3>1, <3>2, <3>4
  <2> HIDE DEF UpTo
  <2> QED BY <1>1, <1>2, <2>2
<1>4. ASSUME NEW j \in D, NEW k \in D, Owners[j] < Owners[k]
      PROVE  rank[j] < rank[k]
  <2>1. UpTo(j) \in SUBSET UpTo(k) /\ k \in UpTo(k) /\ k \notin UpTo(j)
    BY <1>1, <1>4
  <2>2. Cardinality(UpTo(j)) <= Cardinality(UpTo(k)) /\ Cardinality(UpTo(j)) # Cardinality(UpTo(k))
    <3> HIDE DEF UpTo, D
    <3> QED BY <1>3, <2>1, FS_Subset
  <2>3. Cardinality(UpTo(j)) \in Nat /\ Cardinality(UpTo(k)) \in Nat
    <3> HIDE DEF UpTo
    <3> QED BY <1>1, <1>3
  <2> HIDE DEF UpTo
  <2> QED BY <2>2, <2>3
<1>5. rank \in [D -> D]
  <2> HIDE DEF UpTo, D
  <2> QED BY <1>3
<1>6. rank \in Injection(D, D)
  <2>1. ASSUME NEW j \in D, NEW k \in D, rank[j] = rank[k]
        PROVE  j = k
    <3>1. rank[j] \in Nat /\ rank[k] \in Nat /\ Owners[j] \in Nat /\ Owners[k] \in Nat
      <4> HIDE DEF rank
      <4> QED BY <1>1, <1>5
    <3>2. ~(Owners[j] < Owners[k]) /\ ~(Owners[k] < Owners[j])
      <4> HIDE DEF rank, D
      <4> QED BY <1>4, <2>1, <3>1
    <3>3. Owners[j] = Owners[k]
      BY <3>1, <3>2
    <3> QED BY <1>1, <3>3
  <2> HIDE DEF rank, D
  <2> QED BY <1>5, <2>1, Fun_IsInj
<1>7. rank \in Surjection(D, D)
  <2> HIDE DEF rank, D
  <2> QED BY <1>2, <1>6, FS_Injection
<1> DEFINE p == Inverse(rank, D, D)
<1>8. p \in Bijection(D, D) /\ \A i \in D : p[i] \in D /\ rank[p[i]] = i
  <2> HIDE DEF rank, D
  <2>1. rank \in Bijection(D, D)
    BY <1>6, <1>7, Fun_IsBij
  <2>2. p \in Bijection(D, D) /\ Inverse(p, D, D) = rank /\ \A s \in D : p[rank[s]] = s
    BY <2>1, Fun_BijInverse
  <2>3. p \in [D -> D]
    BY <2>2, Fun_BijectionProperties
  <2>4. \A s \in D : Inverse(p, D, D)[p[s]] = s
    <3> HIDE DEF p
    <3> QED BY <2>2, Fun_BijInverse
  <2> HIDE DEF p
  <2> QED BY <2>2, <2>3, <2>4
<1> DEFINE sorted == [i \in D |-> Owners[p[i]]]
<1>9. sorted \in Reordered(Owners)
  <2> HIDE DEF p
  <2> QED BY <1>8 DEF Reordered
<1>10. \A i, j \in DOMAIN sorted : i < j => sorted[i] <= sorted[j]
  <2> SUFFICES ASSUME NEW i \in D, NEW j \in D, i < j
               PROVE  Owners[p[i]] <= Owners[p[j]]
    OBVIOUS
  <2>1. p[i] \in D /\ p[j] \in D /\ rank[p[i]] = i /\ rank[p[j]] = j
    BY <1>8
  <2>2. i \in Nat /\ j \in Nat /\ Owners[p[i]] \in Nat /\ Owners[p[j]] \in Nat
    BY <1>1, <2>1
  <2>3. ~(Owners[p[j]] < Owners[p[i]])
    <3> SUFFICES ASSUME Owners[p[j]] < Owners[p[i]] PROVE FALSE
      OBVIOUS
    <3> HIDE DEF rank, D, p
    <3>1. rank[p[j]] < rank[p[i]]
      BY <1>4, <2>1
    <3> QED BY <2>1, <2>2, <3>1
  <2> QED BY <2>2, <2>3
<1> HIDE DEF sorted
<1> QED BY <1>9, <1>10 DEF buildSignatureBytes

\* So the signatures of all owners are those the Safe asks for.
LEMMA OwnersAccepted ==
  LET bytes == buildSignatureBytes(Owners) IN
    /\ Len(bytes) >= Threshold
    /\ \A i \in 1 .. Threshold : /\ bytes[i] \in Range(Owners)
                                 /\ i > 1 => bytes[i - 1] < bytes[i]
<1> DEFINE bytes == buildSignatureBytes(Owners)
           D == DOMAIN Owners
<1>1. /\ D = 1 .. Len(Owners) /\ Len(Owners) \in Nat /\ Threshold \in 0 .. Len(Owners)
      /\ \A k \in D : Owners[k] \in Nat /\ Owners[k] \in Range(Owners)
      /\ \A j, k \in D : Owners[j] = Owners[k] => j = k
  BY OwnersAssumption DEF IsInjective, Range
<1>2. PICK p \in Bijection(D, D) : bytes = [i \in D |-> Owners[p[i]]]
  BY OwnersSorted DEF Reordered
<1>3. p \in [D -> D] /\ \A i, j \in D : p[i] = p[j] => i = j
  BY Fun_BijectionProperties
<1>4. \A i, j \in D : i < j => bytes[i] <= bytes[j]
  BY <1>2, OwnersSorted
<1> HIDE DEF bytes
<1>5. Len(bytes) = Len(Owners)
  <2>1. bytes \in [1 .. Len(Owners) -> Nat]
    BY <1>1, <1>2, <1>3
  <2> QED BY <1>1, <2>1
<1>6. ASSUME NEW i \in 1 .. Threshold
      PROVE  bytes[i] \in Range(Owners) /\ (i > 1 => bytes[i - 1] < bytes[i])
  <2>1. i \in D /\ i \in Nat /\ (i > 1 => i - 1 \in D /\ i - 1 < i)
    BY <1>1
  <2>2. bytes[i] \in Range(Owners) /\ bytes[i] \in Nat
    BY <1>1, <1>2, <1>3, <2>1
  <2>3. ASSUME i > 1 PROVE bytes[i - 1] < bytes[i]
    <3> DEFINE h == i - 1
    <3>1. h \in D /\ h < i /\ h # i
      BY <2>1, <2>3
    <3> HIDE DEF h
    <3>2. bytes[h] <= bytes[i] /\ bytes[h] # bytes[i] /\ bytes[h] \in Nat
      BY <1>1, <1>2, <1>3, <1>4, <2>1, <3>1
    <3> QED BY <2>2, <3>2 DEF h
  <2> QED BY <2>2, <2>3
<1> QED BY <1>1, <1>5, <1>6 DEF bytes

\* What such a script read is what it signs, and the nonce it read tells how
\* much the Safe had executed.
QuietOK(s) ==
  s.request.nonce = NotGiven /\ s.request.signers = <<>> =>
    /\ s.at \in {"nonce", "sign"} /\ s.request.by # "getSafeExecTxArgs" => s.signers = Owners
    /\ s.read \in 0 .. Len(safe.executed)
    /\ s.at \in {"sign", "send"} => s.nonce = s.read
    /\ s.at = "send" => s.bytes = safeSignTypedData(s.request.call, s.nonce, Owners)
    /\ s.at = "refused" => s.refused > s.read \/ s.request.call = "guarded"

QuietInv == SafeInv /\ \A p \in DOMAIN signings : QuietOK(signings[p])

\* Every step keeps it.
LEMMA QuietNext == ASSUME QuietInv, SafeInv', SafeNext PROVE QuietInv'
<1>1. /\ safe.executed \in Seq(Entries) /\ Len(safe.executed) \in Nat
      /\ safe.nonce = Len(safe.executed)
      /\ \A p \in DOMAIN signings : SigningOK(signings[p], reruns) /\ QuietOK(signings[p])
  BY DEF QuietInv, SafeInv, SafeShape
<1>2. ASSUME NEW p \in DOMAIN signings, NEW t, signings' = [signings EXCEPT ![p] = t],
             safe' = safe, QuietOK(t)
      PROVE  QuietInv'
  <2>1. ASSUME NEW q \in DOMAIN signings
        PROVE  QuietOK(signings[q])'
    <3>1. QuietOK(signings'[q])
      BY <1>1, <1>2
    <3> QED BY <1>2, <3>1 DEF QuietOK
  <2> QED BY <1>2, <2>1 DEF QuietInv
<1>3. ASSUME signings' = signings, Len(safe'.executed) >= Len(safe.executed)
      PROVE  QuietInv'
  <2>1. ASSUME NEW q \in DOMAIN signings PROVE QuietOK(signings[q])'
    <3>1. QuietOK(signings[q])
      BY <1>1
    <3>2. Len(safe.executed) \in Nat /\ Len(safe'.executed) \in Nat
      BY DEF SafeInv, SafeShape
    <3> QED BY <1>3, <3>1, <3>2 DEF QuietOK
  <2> QED BY <1>3, <2>1 DEF QuietInv
<1>4. ASSUME NEW p \in DOMAIN signings, StartSigning(p) PROVE QuietInv'
  <2> DEFINE s == signings[p]  t == [s EXCEPT !.at = "signers"]
  <2>1. signings' = [signings EXCEPT ![p] = t] /\ safe' = safe
    BY <1>4 DEF StartSigning, Continues
  <2>2. QuietOK(t)
    BY <1>1 DEF QuietOK, SigningOK
  <2> HIDE DEF t
  <2> QED BY <1>2, <2>1, <2>2
<1>5. ASSUME NEW p \in DOMAIN signings, TakeSigners(p) PROVE QuietInv'
  <2> DEFINE s == signings[p]
             read == s.request.signers = <<>> /\ s.request.by # "getSafeExecTxArgs"
             t == [[s EXCEPT !.signers = IF read THEN Owners ELSE s.request.signers]
                     EXCEPT !.at = "nonce"]
  <2>1. signings' = [signings EXCEPT ![p] = t] /\ safe' = safe
    BY <1>5 DEF TakeSigners, Continues
  <2>2. QuietOK(t)
    BY <1>1 DEF QuietOK, SigningOK
  <2> HIDE DEF t
  <2> QED BY <1>2, <2>1, <2>2
<1>6. ASSUME NEW p \in DOMAIN signings, TakeNonce(p) PROVE QuietInv'
  <2> DEFINE s == signings[p]
             given == s.request.nonce
             t == [[s EXCEPT !.nonce = IF given # NotGiven THEN given ELSE safe.nonce,
                             !.read = Len(safe.executed)] EXCEPT !.at = "sign"]
  <2>1. signings' = [signings EXCEPT ![p] = t] /\ safe' = safe /\ s.at = "nonce"
    BY <1>6 DEF TakeNonce, Continues, Signing
  <2>2. QuietOK(t)
    BY <1>1, <2>1 DEF QuietOK, SigningOK
  <2> HIDE DEF t
  <2> QED BY <1>2, <2>1, <2>2
<1>7. ASSUME NEW p \in DOMAIN signings, Sign(p) PROVE QuietInv'
  <2> DEFINE s == signings[p]
             phase == IF s.request.by = "execSafeTx" THEN "send" ELSE "handed"
             t == [[s EXCEPT !.bytes = safeSignTypedData(s.request.call, s.nonce, s.signers)]
                     EXCEPT !.at = phase]
  <2>1. signings' = [signings EXCEPT ![p] = t] /\ safe' = safe /\ s.at = "sign"
    BY <1>7 DEF Sign, Continues, Signing
  <2>2. QuietOK(t)
    BY <1>1, <2>1 DEF QuietOK, SigningOK
  <2> HIDE DEF t
  <2> QED BY <1>2, <2>1, <2>2
<1>8. ASSUME NEW p \in DOMAIN signings, execSafeTx(p) PROVE QuietInv'
  <2> DEFINE s == signings[p]
  <2>1. SigningOK(s, reruns) /\ QuietOK(s) /\ s.at = "send" /\ safe' = safe
    BY <1>1, <1>8 DEF execSafeTx, Signing
  <2>2. CASE Accepts(s.request.call, s.bytes)
    <3> DEFINE t == [s EXCEPT !.at = "done"]
    <3>1. signings' = [signings EXCEPT ![p] = t]
      BY <1>8, <2>2 DEF execSafeTx, Continues
    <3>2. QuietOK(t)
      BY <2>1 DEF QuietOK, SigningOK
    <3> HIDE DEF t
    <3> QED BY <1>2, <2>1, <3>1, <3>2
  <2>3. CASE ~Accepts(s.request.call, s.bytes)
    <3> DEFINE t == [[s EXCEPT !.refused = Len(safe.executed)] EXCEPT !.at = "refused"]
    <3>1. signings' = [signings EXCEPT ![p] = t]
      BY <1>8, <2>3 DEF execSafeTx, Continues
    <3>2. ASSUME s.request.nonce = NotGiven, s.request.signers = <<>>,
                 s.read = Len(safe.executed), s.request.call # "guarded"
          PROVE  FALSE
      <4>1. s.bytes = safeSignTypedData(s.request.call, safe.nonce, Owners)
        BY <1>1, <2>1, <3>2 DEF QuietOK
      <4>2. /\ s.bytes.digest = EIP712_SAFE_TX_TYPE(s.request.call, safe.nonce)
            /\ s.bytes.signers = buildSignatureBytes(Owners)
        BY <4>1 DEF safeSignTypedData
      <4> QED BY <2>3, <3>2, <4>2, OwnersAccepted DEF Accepts
    <3>3. QuietOK(t)
      BY <1>1, <2>1, <3>2 DEF QuietOK, SigningOK
    <3> HIDE DEF t
    <3> QED BY <1>2, <2>1, <3>1, <3>3
  <2> QED BY <2>2, <2>3
<1>9. ASSUME NEW p \in DOMAIN signings, SignAgain(p) PROVE QuietInv'
  <2> DEFINE s == signings[p]
             t == [[Fresh(s.request) EXCEPT !.turn = s.turn + 1] EXCEPT !.at = "signers"]
  <2>1. signings' = [signings EXCEPT ![p] = t] /\ safe' = safe
    BY <1>9 DEF SignAgain, Continues
  <2>2. QuietOK(t)
    BY <1>1 DEF QuietOK, Fresh
  <2> HIDE DEF t
  <2> QED BY <1>2, <2>1, <2>2
<1>10. \A tx : Len(Executed(tx).executed) >= Len(safe.executed)
  <2> SUFFICES ASSUME NEW tx PROVE Len(Executed(tx).executed) >= Len(safe.executed)
    OBVIOUS
  <2> DEFINE e == [by |-> tx.by, turn |-> tx.turn, signed |-> tx.nonce, asked |-> tx.asked]
  <2>1. Executed(tx).executed = Append(safe.executed, e)
    BY DEF Executed, QuietInv, SafeInv, SafeShape
  <2> HIDE DEF e
  <2>2. Len(Append(safe.executed, e)) = Len(safe.executed) + 1
    BY <1>1
  <2> QED BY <1>1, <2>1, <2>2
<1>11. ASSUME NEW p \in DOMAIN signings, Submit(p) PROVE QuietInv'
  BY <1>3, <1>10, <1>11 DEF Submit
<1>12. ASSUME NEW tx \in sent, MineExecution(tx) PROVE QuietInv'
  BY <1>1, <1>3, <1>10, <1>12 DEF MineExecution
<1>13. ASSUME TurnReady PROVE QuietInv'
  <2>1. signings' = signings /\ safe'.executed = safe.executed
    BY <1>13 DEF TurnReady, QuietInv, SafeInv, SafeShape
  <2> QED BY <1>1, <1>3, <2>1
<1> QED
  BY <1>4, <1>5, <1>6, <1>7, <1>8, <1>9, <1>11, <1>12, <1>13 DEF SafeNext

\* A script that is left to find owners and nonce fails only if others execute
\* meanwhile, or if the call itself fails: for any owners and any threshold.
THEOREM QuietRuns == NetworkSpec => []QuietRunSucceeds
<1>1. ASSUME NetworkInit PROVE QuietInv
  <2>1. SafeInv
    BY <1>1, SafeInvInit
  <2>2. PICK s \in Scenarios : SafeInit(s.requests)
    BY <1>1 DEF NetworkInit
  <2>3. \A p \in DOMAIN signings : signings[p] = Fresh(s.requests[p])
    BY <2>2 DEF SafeInit
  <2>4. 0 \in 0 .. Len(safe.executed)
    BY <2>1 DEF SafeInv, SafeShape
  <2> QED BY <2>1, <2>3, <2>4 DEF QuietInv, QuietOK, Fresh
<1>2. ASSUME QuietInv, SafeInv', [NetworkNext]_networkVars PROVE QuietInv'
  <2>1. CASE SafeNext
    BY <1>2, <2>1, QuietNext
  <2>2. CASE UNCHANGED safeVars
    BY <1>2, <2>2 DEF safeVars, QuietInv, QuietOK
  <2> QED BY <1>2, <2>1, <2>2 DEF NetworkNext, networkVars, safeVars
<1>3. QuietInv => QuietRunSucceeds
  BY DEF QuietInv, QuietOK, QuietRunSucceeds, Signing
<1> QED BY <1>1, <1>2, <1>3, SafeInvHolds, PTL DEF NetworkSpec

-----------------------------------------------------------------------------
(* The onboarding of operators                                             *)

Transactions == {"transfer", "registerEigenLayer", "connect", "approve", "deposit", "registerAvs"}

SentTransactions == [what : Transactions, operator : Operators, awaited : BOOLEAN]

\* An operator that may register with the AVS.
Settled(c, o) == o \in c.connected /\ c.stake[o] >= Amount

L1OK(c) ==
  /\ DOMAIN c = {"chainId", "tokens", "allowance", "stake", "eigenLayer", "connected",
                 "registered", "messages"}
  /\ c.tokens \in [Operators \cup {Deployer} -> Nat]
  /\ c.allowance \in [Operators -> {0, Amount}] /\ c.stake \in [Operators -> Nat]
  /\ c.eigenLayer \subseteq Operators /\ c.connected \subseteq c.eigenLayer
  /\ c.registered \subseteq Operators /\ c.messages \subseteq Operators
  /\ \A o \in c.registered : Settled(c, o)

\* How far a process is, and what that says of the chain: past the lines that
\* connect the operator and deposit its stake, it is connected and has one.
ProcessOK(x, o, c) ==
  /\ DOMAIN x = {"state", "at", "waits", "read"}
  /\ x.state \in {"never", "stopped", "running", "ended"}
  /\ x.at \in 1 .. 16 /\ x.waits \in BOOLEAN /\ DOMAIN x.read = Facts
  /\ x.at > 8 => /\ x.read["isConnected"] \in BOOLEAN
                 /\ x.read["isConnected"] = TRUE => o \in c.connected
  /\ x.at > 10 => o \in c.connected
  /\ x.at > 13 => c.stake[o] >= Amount

\* The process that waits for a transaction is at the line that sent it.
TransactionOK(tx) ==
  /\ tx.what = "registerAvs" => Settled(l1, tx.operator)
  /\ tx.awaited => LET x == onboarding[tx.operator]
                   IN x.state = "running" /\ x.waits /\ main[x.at] = <<"send", tx.what>>

AwaitedOnce ==
  \A s, t \in DOMAIN pool : \A i \in DOMAIN pool[s], j \in DOMAIN pool[t] :
    pool[s][i].awaited /\ pool[t][j].awaited /\ pool[s][i].operator = pool[t][j].operator
      => s = t /\ i = j

OnboardingInv ==
  /\ L1OK(l1) /\ DOMAIN onboarding = Operators /\ DOMAIN pool = Operators \cup {Deployer}
  /\ \A o \in Operators : ProcessOK(onboarding[o], o, l1)
  /\ \A s \in DOMAIN pool : /\ pool[s] \in Seq(SentTransactions)
                            /\ \A i \in DOMAIN pool[s] : TransactionOK(pool[s][i])
  /\ AwaitedOnce

\* Three sequences put together, element by element.
LEMMA ThreeParts ==
  ASSUME NEW S, NEW a \in Seq(S), NEW b \in Seq(S), NEW d \in Seq(S),
         Len(a) = 10, Len(b) = 2, Len(d) = 4
  PROVE  /\ \A i \in 1 .. 10 : ((a \o b) \o d)[i] = a[i]
         /\ \A i \in 1 .. 2 : ((a \o b) \o d)[10 + i] = b[i]
         /\ \A i \in 1 .. 4 : ((a \o b) \o d)[12 + i] = d[i]
         /\ Len((a \o b) \o d) = 16
<1>. DEFINE ab == a \o b
<1>1. /\ ab \in Seq(S) /\ Len(ab) = Len(a) + Len(b)
      /\ \A i \in 1 .. Len(a) + Len(b) : ab[i] = IF i <= Len(a) THEN a[i] ELSE b[i - Len(a)]
  BY ConcatProperties, Zenon
<1>. HIDE DEF ab
<1>. DEFINE abd == ab \o d
<1>2. /\ Len(abd) = Len(ab) + Len(d)
      /\ \A i \in 1 .. Len(ab) + Len(d) : abd[i] = IF i <= Len(ab) THEN ab[i] ELSE d[i - Len(ab)]
  <2>1. ab \in Seq(S)
    BY <1>1
  <2>. QED
    BY <2>1, ConcatProperties, Zenon
<1>. HIDE DEF abd
<1>3. Len(ab) = 12 /\ Len(abd) = 16
  BY <1>1, <1>2
<1>4. /\ \A i \in 1 .. 12 : ab[i] = IF i <= 10 THEN a[i] ELSE b[i - 10]
      /\ \A i \in 1 .. 16 : abd[i] = IF i <= 12 THEN ab[i] ELSE d[i - 12]
  BY <1>1, <1>2, <1>3
<1>5. /\ \A i \in 1 .. 10 : abd[i] = a[i]
      /\ \A i \in 1 .. 2 : abd[10 + i] = b[i]
      /\ \A i \in 1 .. 4 : abd[12 + i] = d[i]
  BY <1>4, SMTT(20)
<1>. QED
  BY <1>3, <1>5 DEF ab, abd

\* Where each statement of the script stands.
LEMMA MainLines ==
  /\ Len(main) = 16
  /\ main[1] = <<"needs", l2Configs>> /\ main[2] = <<"read", "deployerBalance">>
  /\ main[3] = <<"read", "operatorBalance">> /\ main[4] = <<"send", "transfer">>
  /\ main[5] = <<"needs", eigenLayerContracts>> /\ main[6] = <<"read", "isOperator">>
  /\ main[7] = <<"send", "registerEigenLayer">> /\ main[8] = <<"read", "isConnected">>
  /\ main[9] = <<"needs", ADDRESSES>> /\ main[10] = <<"send", "connect">>
  /\ main[11] = <<"read", "allowance">> /\ main[12] = <<"send", "approve">>
  /\ main[13] = <<"send", "deposit">> /\ main[14] = <<"read", "isRegistered">>
  /\ main[15] = <<"needs", ADDRESSES>> /\ main[16] = <<"send", "registerAvs">>
<1>. DEFINE a == << Needs(l2Configs), Read("deployerBalance"), Read("operatorBalance"),
                   Send("transfer"), Needs(eigenLayerContracts), Read("isOperator"),
                   Send("registerEigenLayer"), Read("isConnected"), Needs(ADDRESSES),
                   Send("connect") >>
            b == << Read("allowance"), Send("approve") >>
            d == << Send("deposit"), Read("isRegistered"), Needs(ADDRESSES),
                    Send("registerAvs") >>
            S == {Needs(l2Configs), Needs(eigenLayerContracts), Needs(ADDRESSES)}
                 \cup {Read(x) : x \in Facts} \cup {Send(x) : x \in Transactions}
<1>1. a \in Seq(S) /\ b \in Seq(S) /\ d \in Seq(S)
  BY DEF Facts, Transactions
<1>2. Len(a) = 10 /\ Len(b) = 2 /\ Len(d) = 4
  OBVIOUS
<1>3. main = (a \o b) \o d
  BY DEF main, increaseAllowanceIfNeeded
<1>4. /\ \A i \in 1 .. 10 : main[i] = a[i]
      /\ \A i \in 1 .. 2 : main[10 + i] = b[i]
      /\ \A i \in 1 .. 4 : main[12 + i] = d[i]
      /\ Len(main) = 16
  BY <1>1, <1>2, <1>3, ThreeParts
<1>5. main[11] = b[1] /\ main[12] = b[2]
  <2>. HIDE DEF a, b, d
  <2>. QED
    BY <1>4
<1>6. main[13] = d[1] /\ main[14] = d[2] /\ main[15] = d[3] /\ main[16] = d[4]
  <2>. HIDE DEF a, b, d
  <2>. QED
    BY <1>4
<1>. QED
  BY <1>4, <1>5, <1>6 DEF Needs, Read, Send

\* A mined transaction keeps the chain: registration follows connection and stake.
LEMMA MinesKeepsL1 ==
  ASSUME NEW c, L1OK(c), NEW o \in Operators, NEW what \in Transactions,
         NEW d \in Mines(what, o, c), what = "registerAvs" => Settled(c, o)
  PROVE  /\ L1OK(d)
         /\ c.connected \subseteq d.connected
         /\ \A p \in Operators : c.stake[p] <= d.stake[p]
         /\ what = "connect" => o \in d.connected
         /\ what = "deposit" => d.stake[o] >= Amount
<1>1. CASE what = "transfer"
  <2>1. /\ c.tokens[Deployer] >= 1
        /\ d = [c EXCEPT !.tokens[Deployer] = @ - 1, !.tokens[o] = @ + 1]
    BY <1>1 DEF Mines, If, Amount
  <2>2. /\ DOMAIN d = DOMAIN c /\ d.allowance = c.allowance /\ d.stake = c.stake
        /\ d.eigenLayer = c.eigenLayer /\ d.connected = c.connected
        /\ d.registered = c.registered /\ d.messages = c.messages
        /\ d.tokens = [[c.tokens EXCEPT ![Deployer] = @ - 1] EXCEPT ![o] = @ + 1]
    BY <2>1 DEF L1OK
  <2>3. d.tokens \in [Operators \cup {Deployer} -> Nat]
    BY <2>1, <2>2 DEF L1OK
  <2>. QED
    BY <1>1, <2>2, <2>3 DEF L1OK, Settled
<1>2. CASE what = "registerEigenLayer"
  BY <1>2 DEF Mines, If, L1OK, Settled, Amount
<1>3. CASE what = "connect"
  BY <1>3 DEF Mines, If, L1OK, Settled, Amount
<1>4. CASE what = "approve"
  BY <1>4 DEF Mines, L1OK, Settled, Amount
<1>5. CASE what = "deposit"
  <2>1. /\ c.tokens[o] >= 1 /\ c.allowance[o] >= 1
        /\ d = [c EXCEPT !.tokens[o] = @ - 1, !.allowance[o] = @ - 1, !.stake[o] = @ + 1]
    BY <1>5 DEF Mines, If, Amount
  <2>2. /\ DOMAIN d = DOMAIN c /\ d.eigenLayer = c.eigenLayer /\ d.connected = c.connected
        /\ d.registered = c.registered /\ d.messages = c.messages
        /\ d.tokens = [c.tokens EXCEPT ![o] = @ - 1]
        /\ d.allowance = [c.allowance EXCEPT ![o] = @ - 1]
        /\ d.stake = [c.stake EXCEPT ![o] = @ + 1]
    BY <2>1 DEF L1OK
  <2>3. /\ d.tokens \in [Operators \cup {Deployer} -> Nat]
        /\ d.allowance \in [Operators -> {0, Amount}]
    BY <2>1, <2>2 DEF L1OK, Amount
  <2>4. /\ d.stake \in [Operators -> Nat] /\ d.stake[o] >= Amount
        /\ \A p \in Operators : c.stake[p] <= d.stake[p]
    BY <2>1, <2>2 DEF L1OK, Amount
  <2>5. \A p \in d.registered : Settled(d, p)
    BY <2>2, <2>4 DEF L1OK, Settled, Amount
  <2>. QED
    BY <1>5, <2>2, <2>3, <2>4, <2>5 DEF L1OK
<1>6. CASE what = "registerAvs"
  <2>1. d = [c EXCEPT !.registered = @ \cup {o}, !.messages = @ \cup {o}]
    BY <1>6 DEF Mines, If
  <2>2. /\ DOMAIN d = DOMAIN c /\ d.tokens = c.tokens /\ d.allowance = c.allowance
        /\ d.stake = c.stake /\ d.eigenLayer = c.eigenLayer /\ d.connected = c.connected
        /\ d.registered = c.registered \cup {o} /\ d.messages = c.messages \cup {o}
    BY <2>1 DEF L1OK
  <2>. QED
    BY <1>6, <2>2 DEF L1OK, Settled
<1>. QED
  BY <1>1, <1>2, <1>3, <1>4, <1>5, <1>6 DEF Transactions

\* Nothing is registered or sent at first.
LEMMA OnboardingInvInit == ASSUME NetworkInit PROVE OnboardingInv
<1>1. PICK s \in Scenarios : OnboardingInit(s)
  BY DEF NetworkInit
<1>2. s.supply \in Nat /\ s.messages \subseteq Operators
  BY ScenariosAssumption
<1>4. L1OK(l1)
  BY <1>1, <1>2 DEF OnboardingInit, L1OK, Amount
<1>5. \A o \in Operators : ProcessOK(onboarding[o], o, l1)
  <2>1. ASSUME NEW o \in Operators, NEW state \in {"never", "stopped"}
        PROVE  ProcessOK(Idle(state), o, l1)
    BY DEF ProcessOK, Idle
  <2>2. \A o \in Operators : onboarding[o] \in {Idle("never"), Idle("stopped")}
    BY <1>1 DEF OnboardingInit
  <2>. QED
    BY <2>1, <2>2
<1>6. DOMAIN onboarding = Operators /\ pool = [t \in Operators \cup {Deployer} |-> <<>>]
  BY <1>1 DEF OnboardingInit
<1>7. \A t \in DOMAIN pool : pool[t] \in Seq(SentTransactions) /\ DOMAIN pool[t] = {}
  BY <1>6
<1>. QED
  BY <1>4, <1>5, <1>6, <1>7 DEF OnboardingInv, AwaitedOnce

\* What a process knows stays true while connections and stakes only grow.
LEMMA ProcessStaysOK ==
  ASSUME NEW x, NEW o \in Operators, NEW c, NEW d, L1OK(c), L1OK(d), ProcessOK(x, o, c),
         c.connected \subseteq d.connected, c.stake[o] <= d.stake[o]
  PROVE  ProcessOK(x, o, d)
<1>1. c.stake[o] \in Nat /\ d.stake[o] \in Nat
  BY DEF L1OK
<1>. QED
  BY <1>1 DEF ProcessOK, Amount

\* A process that is not running promises nothing.
LEMMA IdleOK ==
  ASSUME NEW state \in {"stopped", "running", "ended"}, NEW o, NEW c
  PROVE  ProcessOK(Idle(state), o, c)
BY DEF ProcessOK, Idle

\* The next line, if what the one before has to bring about holds.
LEMMA AdvancedOK ==
  ASSUME NEW x, NEW o, NEW c, ProcessOK(x, o, c),
         x.at = 8 => /\ x.read["isConnected"] \in BOOLEAN
                     /\ x.read["isConnected"] = TRUE => o \in c.connected,
         x.at = 10 => o \in c.connected,
         x.at = 13 => c.stake[o] >= Amount
  PROVE  ProcessOK(Advanced(x), o, c)
<1>1. CASE x.at = 16
  BY <1>1, IdleOK, MainLines DEF Advanced
<1>2. CASE x.at # 16
  <2>. DEFINE y == [x EXCEPT !.at = @ + 1, !.waits = FALSE]
  <2>1. Advanced(x) = y
    BY <1>2, MainLines DEF Advanced
  <2>2. /\ DOMAIN y = {"state", "at", "waits", "read"} /\ y.state = x.state
        /\ y.at = x.at + 1 /\ y.waits \in BOOLEAN /\ y.read = x.read
    BY DEF ProcessOK
  <2>3. y.at \in 2 .. 16
    BY <1>2, <2>2 DEF ProcessOK
  <2>. HIDE DEF y
  <2>4. x.at \in 1 .. 15
    BY <1>2 DEF ProcessOK
  <2>5. y.at > 8 => /\ y.read["isConnected"] \in BOOLEAN
                    /\ y.read["isConnected"] = TRUE => o \in c.connected
    BY <2>2, <2>4 DEF ProcessOK
  <2>6. (y.at > 10 => o \in c.connected) /\ (y.at > 13 => c.stake[o] >= Amount)
    BY <2>2, <2>4 DEF ProcessOK
  <2>7. ProcessOK(y, o, c)
    BY <2>2, <2>3, <2>5, <2>6 DEF ProcessOK
  <2>. QED
    BY <2>1, <2>7
<1>. QED
  BY <1>1, <1>2

\* A process for which no transaction is awaited goes on.
LEMMA GoKeepsOnboarding ==
  ASSUME OnboardingInv, NEW o \in Operators, NEW y, ProcessOK(y, o, l1),
         ~(onboarding[o].state = "running" /\ onboarding[o].waits),
         Goes(o, y), l1' = l1, pool' = pool
  PROVE  OnboardingInv'
<1>1. /\ DOMAIN onboarding' = Operators /\ onboarding'[o] = y
      /\ \A p \in Operators \ {o} : onboarding'[p] = onboarding[p]
  BY DEF OnboardingInv, Goes
<1>2. \A p \in Operators : ProcessOK(onboarding'[p], p, l1)
  BY <1>1 DEF OnboardingInv
<1>3. ASSUME NEW tx \in SentTransactions, TransactionOK(tx) PROVE TransactionOK(tx)'
  BY <1>1, <1>3 DEF TransactionOK, SentTransactions
<1>4. \A s \in DOMAIN pool : \A i \in DOMAIN pool[s] : pool[s][i] \in SentTransactions
  BY DEF OnboardingInv
<1>5. (\A s \in DOMAIN pool : /\ pool[s] \in Seq(SentTransactions)
                             /\ \A i \in DOMAIN pool[s] : TransactionOK(pool[s][i]))'
  BY <1>3, <1>4 DEF OnboardingInv
<1>. QED
  BY <1>1, <1>2, <1>5 DEF OnboardingInv, AwaitedOnce

\* The lines, by what they do.
LEMMA LineAt ==
  ASSUME NEW at \in 1 .. 16
  PROVE  /\ main[at][1] = "read" => at \in {2, 3, 6, 8, 11, 14} /\ main[at][2] \in Facts
         /\ main[at][1] = "needs" => at \in {1, 5, 9, 15}
         /\ main[at][1] = "send" => /\ at \in {4, 7, 10, 12, 13, 16}
                                    /\ main[at][2] \in Transactions
                                    /\ main[at] = <<"send", main[at][2]>>
         /\ at = 8 => main[at][2] = "isConnected"
         /\ at = 10 <=> main[at] = <<"send", "connect">>
         /\ at = 13 <=> main[at] = <<"send", "deposit">>
         /\ at = 16 <=> main[at] = <<"send", "registerAvs">>
<1>1. at \in {1, 2, 3, 4, 5, 6, 7, 8, 9, 10, 11, 12, 13, 14, 15, 16}
  OBVIOUS
<1>. QED
  BY <1>1, MainLines DEF Facts, Transactions

\* A read learns what holds from then on.
LEMMA ReadKeepsOnboarding ==
  ASSUME OnboardingInv, NEW o \in Operators, ReadChain(o) PROVE OnboardingInv'
<1>. DEFINE x == onboarding[o]
            what == main[x.at][2]
            y == [x EXCEPT !.read[what] = Answer(what, o)]
<1>1. ProcessOK(x, o, l1) /\ ~x.waits /\ main[x.at][1] = "read"
  BY DEF OnboardingInv, ReadChain, MayDo, Line
<1>2. x.at \in {2, 3, 6, 8, 11, 14} /\ what \in Facts /\ (x.at = 8 => what = "isConnected")
  BY <1>1, LineAt DEF ProcessOK
<1>3. /\ DOMAIN y = {"state", "at", "waits", "read"} /\ y.state = x.state
      /\ y.at = x.at /\ y.waits = x.waits /\ DOMAIN y.read = Facts
      /\ y.read[what] = Answer(what, o)
      /\ \A f \in Facts \ {what} : y.read[f] = x.read[f]
  BY <1>1, <1>2 DEF ProcessOK
<1>4. Answer("isConnected", o) \in BOOLEAN
      /\ (Answer("isConnected", o) = TRUE => o \in l1.connected)
  BY DEF Answer
<1>5. ProcessOK(y, o, l1)
  <2>. HIDE DEF y
  <2>1. "isConnected" \in Facts
    BY DEF Facts
  <2>2. y.at > 8 => y.read["isConnected"] \in BOOLEAN
                    /\ (y.read["isConnected"] = TRUE => o \in l1.connected)
    <3>1. CASE what = "isConnected"
      BY <1>3, <1>4, <3>1
    <3>2. CASE what # "isConnected"
      BY <1>1, <1>3, <2>1, <3>2 DEF ProcessOK
    <3>. QED
      BY <3>1, <3>2
  <2>. QED
    BY <1>1, <1>3, <2>2 DEF ProcessOK
<1>6. ProcessOK(Advanced(y), o, l1)
  <2>. HIDE DEF y
  <2>1. y.at # 10 /\ y.at # 13
    BY <1>2, <1>3
  <2>2. y.at = 8 => y.read["isConnected"] \in BOOLEAN
                    /\ (y.read["isConnected"] = TRUE => o \in l1.connected)
    BY <1>2, <1>3, <1>4
  <2>. QED
    BY <1>5, <2>1, <2>2, AdvancedOK
<1>. QED
  BY <1>1, <1>6, GoKeepsOnboarding DEF ReadChain, Line

\* A check of the configuration changes neither chain nor pool.
LEMMA CheckKeepsOnboarding ==
  ASSUME OnboardingInv, NEW o \in Operators, CheckChainId(o) PROVE OnboardingInv'
<1>. DEFINE x == onboarding[o]
<1>1. ProcessOK(x, o, l1) /\ main[x.at][1] = "needs"
  BY DEF OnboardingInv, CheckChainId, MayDo, Line
<1>2. x.at \in {1, 5, 9, 15}
  BY <1>1, LineAt DEF ProcessOK
<1>3. ProcessOK(Advanced(x), o, l1)
  <2>. HIDE DEF x
  <2>1. x.at # 8 /\ x.at # 10 /\ x.at # 13
    BY <1>2
  <2>2. ProcessOK(x, o, l1)
    BY <1>1
  <2>. QED
    BY <2>1, <2>2, AdvancedOK
<1>4. ~x.waits
  BY DEF CheckChainId, MayDo
<1>. QED
  BY <1>3, <1>4, IdleOK, GoKeepsOnboarding DEF CheckChainId

\* The deposit does not depend on what was read.
LEMMA DepositIsWanted == ASSUME NEW read PROVE Wanted("deposit", read)
BY DEF Wanted, Amount

\* The transaction that a process sends and waits for is the last of its sender.
LEMMA SentKeepsOnboarding ==
  ASSUME OnboardingInv, NEW o \in Operators, NEW tx \in SentTransactions, NEW s \in DOMAIN pool,
         tx.operator = o, tx.what = "registerAvs" => Settled(l1, o),
         onboarding[o].state = "running", ~onboarding[o].waits,
         main[onboarding[o].at] = <<"send", tx.what>>,
         Goes(o, [onboarding[o] EXCEPT !.waits = TRUE]),
         pool' = [pool EXCEPT ![s] = Append(@, tx)], l1' = l1
  PROVE  OnboardingInv'
<1>. DEFINE x == onboarding[o]
            y == [x EXCEPT !.waits = TRUE]
            n == Len(pool[s])
<1>1. ProcessOK(x, o, l1)
  BY DEF OnboardingInv
<1>2. /\ DOMAIN y = DOMAIN x /\ y.state = x.state /\ y.at = x.at /\ y.waits = TRUE
      /\ y.read = x.read
  BY <1>1 DEF ProcessOK
<1>3. ProcessOK(y, o, l1)
  <2>. HIDE DEF x, y
  <2>. QED
    BY <1>1, <1>2 DEF ProcessOK
<1>4. /\ DOMAIN onboarding' = Operators /\ onboarding'[o] = y
      /\ \A p \in Operators \ {o} : onboarding'[p] = onboarding[p]
  BY DEF OnboardingInv, Goes
<1>5. \A p \in Operators : ProcessOK(onboarding'[p], p, l1)
  BY <1>3, <1>4 DEF OnboardingInv
<1>6. /\ pool[s] \in Seq(SentTransactions) /\ DOMAIN pool' = DOMAIN pool
      /\ pool'[s] = Append(pool[s], tx)
      /\ \A r \in DOMAIN pool \ {s} : pool'[r] = pool[r]
  BY DEF OnboardingInv
<1>7. /\ n \in Nat /\ DOMAIN pool[s] = 1 .. n /\ DOMAIN pool'[s] = 1 .. n + 1
      /\ pool'[s] \in Seq(SentTransactions) /\ pool'[s][n + 1] = tx
      /\ \A i \in 1 .. n : pool'[s][i] = pool[s][i]
  BY <1>6, AppendProperties
<1>8. ASSUME NEW r \in DOMAIN pool, NEW i \in DOMAIN pool'[r], ~(r = s /\ i = n + 1)
      PROVE  i \in DOMAIN pool[r] /\ pool'[r][i] = pool[r][i]
  BY <1>6, <1>7, <1>8
<1>9. ASSUME NEW r \in DOMAIN pool, NEW i \in DOMAIN pool[r], NEW t, t = pool[r][i]
      PROVE  TransactionOK(t)' /\ (t.awaited => t.operator # o)
  <2>1. t \in SentTransactions /\ TransactionOK(t)
    BY <1>9 DEF OnboardingInv
  <2>. QED
    BY <1>4, <2>1 DEF TransactionOK, SentTransactions
<1>10. ASSUME NEW t, t = tx PROVE TransactionOK(t)'
  BY <1>2, <1>4, <1>10 DEF TransactionOK
<1>11. ASSUME NEW r \in DOMAIN pool', NEW i \in DOMAIN pool'[r], NEW t, t = pool'[r][i]
       PROVE  TransactionOK(t)'
  BY <1>6, <1>7, <1>8, <1>9, <1>10, <1>11
<1>12. AwaitedOnce'
  <2>1. SUFFICES ASSUME NEW q \in DOMAIN pool', NEW r \in DOMAIN pool',
                        NEW i \in DOMAIN pool'[q], NEW j \in DOMAIN pool'[r],
                        pool'[q][i].awaited, pool'[r][j].awaited,
                        pool'[q][i].operator = pool'[r][j].operator
                 PROVE  q = r /\ i = j
    BY DEF AwaitedOnce
  <2>2. CASE (q = s /\ i = n + 1) /\ ~(r = s /\ j = n + 1)
    BY <1>6, <1>7, <1>8, <1>9, <2>1, <2>2
  <2>3. CASE ~(q = s /\ i = n + 1) /\ (r = s /\ j = n + 1)
    BY <1>6, <1>7, <1>8, <1>9, <2>1, <2>3
  <2>4. CASE ~(q = s /\ i = n + 1) /\ ~(r = s /\ j = n + 1)
    <3>1. /\ i \in DOMAIN pool[q] /\ pool'[q][i] = pool[q][i]
          /\ j \in DOMAIN pool[r] /\ pool'[r][j] = pool[r][j]
      BY <1>6, <1>8, <2>4
    <3>. QED
      BY <1>6, <2>1, <3>1 DEF OnboardingInv, AwaitedOnce
  <2>. QED
    BY <2>2, <2>3, <2>4
<1>13. \A r \in DOMAIN pool' : pool'[r] \in Seq(SentTransactions)
  BY <1>6, <1>7 DEF OnboardingInv
<1>14. (\A r \in DOMAIN pool : /\ pool[r] \in Seq(SentTransactions)
                              /\ \A i \in DOMAIN pool[r] : TransactionOK(pool[r][i]))'
  BY <1>11, <1>13
<1>. QED
  BY <1>4, <1>5, <1>6, <1>12, <1>14 DEF OnboardingInv

\* A transaction is sent, is not called for, or would revert.
LEMMA SendKeepsOnboarding ==
  ASSUME OnboardingInv, NEW o \in Operators, SendTransaction(o) PROVE OnboardingInv'
<1>. DEFINE x == onboarding[o]
            what == main[x.at][2]
            tx == [what |-> what, operator |-> o, awaited |-> TRUE]
<1>1. ProcessOK(x, o, l1) /\ x.state = "running" /\ main[x.at][1] = "send"
  BY DEF OnboardingInv, SendTransaction, MayDo, OnboardingRuns, Line
<1>2. ~x.waits /\ l1' = l1
  BY DEF SendTransaction, MayDo
<1>3. /\ x.at \in {4, 7, 10, 12, 13, 16} /\ what \in Transactions
      /\ main[x.at] = <<"send", what>>
      /\ (x.at = 10 => what = "connect") /\ (x.at = 13 => what = "deposit")
      /\ (what = "registerAvs" => x.at = 16)
  BY <1>1, LineAt DEF ProcessOK
<1>4. ASSUME ~Wanted(what, x.read), Goes(o, Advanced(x)), pool' = pool PROVE OnboardingInv'
  <2>1. x.at = 10 => o \in l1.connected
    <3>1. CASE x.at = 10
      <4>1. x.read["isConnected"]
        BY <1>3, <1>4, <3>1 DEF Wanted
      <4>2. x.read["isConnected"] = TRUE => o \in l1.connected
        BY <1>1, <3>1 DEF ProcessOK
      <4>3. x.read["isConnected"] \in BOOLEAN
        BY <1>1, <3>1 DEF ProcessOK
      <4>. QED
        BY <4>1, <4>2, <4>3
    <3>. QED
      BY <3>1
  <2>2. x.at # 13
    BY <1>3, <1>4, DepositIsWanted
  <2>3. ProcessOK(Advanced(x), o, l1)
    <3>. HIDE DEF x
    <3>1. x.at # 8
      BY <1>3
    <3>2. ProcessOK(x, o, l1)
      BY <1>1
    <3>. QED
      BY <2>1, <2>2, <3>1, <3>2, AdvancedOK
  <2>. QED
    BY <1>2, <1>4, <2>3, GoKeepsOnboarding
<1>5. ASSUME Goes(o, [x EXCEPT !.waits = TRUE]),
             pool' = [pool EXCEPT ![Sender(what, o)] = Append(@, tx)]
      PROVE  OnboardingInv'
  <2>1. Sender(what, o) \in DOMAIN pool
    BY DEF OnboardingInv, Sender
  <2>2. tx \in SentTransactions /\ tx.operator = o /\ tx.what = what
    BY <1>3 DEF SentTransactions
  <2>3. what = "registerAvs" => Settled(l1, o)
    BY <1>1, <1>3 DEF ProcessOK, Settled
  <2>. HIDE DEF tx, what
  <2>. QED
    BY <1>1, <1>2, <1>3, <1>5, <2>1, <2>2, <2>3, SentKeepsOnboarding
<1>. QED
  BY <1>2, <1>4, <1>5, IdleOK, GoKeepsOnboarding DEF SendTransaction, Line

\* What the chain becomes when a transaction is mined.
LEMMA MinedL1 ==
  ASSUME OnboardingInv, NEW tx \in SentTransactions, TransactionOK(tx),
         NEW d, d = IF Mines(tx.what, tx.operator, l1) = {} THEN l1
                    ELSE CHOOSE c \in Mines(tx.what, tx.operator, l1) : TRUE
  PROVE  /\ L1OK(d) /\ l1.connected \subseteq d.connected
         /\ \A p \in Operators : l1.stake[p] <= d.stake[p]
         /\ Mines(tx.what, tx.operator, l1) # {} =>
              /\ tx.what = "connect" => tx.operator \in d.connected
              /\ tx.what = "deposit" => d.stake[tx.operator] >= Amount
<1>1. tx.what \in Transactions /\ tx.operator \in Operators /\ L1OK(l1)
      /\ (tx.what = "registerAvs" => Settled(l1, tx.operator))
  BY DEF SentTransactions, TransactionOK, OnboardingInv
<1>2. CASE Mines(tx.what, tx.operator, l1) = {}
  BY <1>1, <1>2 DEF L1OK
<1>3. CASE Mines(tx.what, tx.operator, l1) # {}
  <2>1. d \in Mines(tx.what, tx.operator, l1)
    BY <1>3
  <2>. QED
    BY <1>1, <1>3, <2>1, MinesKeepsL1
<1>. QED
  BY <1>2, <1>3

\* What the chain has settled stays settled when something is mined.
LEMMA SettledStays ==
  ASSUME NEW c, NEW d, L1OK(c), L1OK(d), c.connected \subseteq d.connected,
         NEW o \in Operators, c.stake[o] <= d.stake[o], Settled(c, o)
  PROVE  Settled(d, o)
<1>1. c.stake[o] \in Nat /\ d.stake[o] \in Nat
  BY DEF L1OK
<1>. QED
  BY <1>1 DEF Settled, Amount

\* Mining the oldest transaction of a sender keeps the invariant.
LEMMA MineKeepsOnboarding ==
  ASSUME OnboardingInv, NEW s \in Operators \cup {Deployer}, Mine(s) PROVE OnboardingInv'
<1>. DEFINE tx == pool[s][1]
            o == tx.operator
            n == Len(pool[s])
            K(r, i) == IF r = s THEN i + 1 ELSE i
<1>1. /\ s \in DOMAIN pool /\ pool[s] \in Seq(SentTransactions) /\ pool[s] # <<>>
      /\ n \in Nat /\ n >= 1 /\ DOMAIN pool[s] = 1 .. n /\ Head(pool[s]) = tx
  BY DEF OnboardingInv, Mine
<1>2. tx \in SentTransactions /\ TransactionOK(tx)
  BY <1>1 DEF OnboardingInv
<1>3. o \in Operators
  BY <1>2 DEF SentTransactions
<1>4. l1' = IF Mines(tx.what, o, l1) = {} THEN l1
            ELSE CHOOSE c \in Mines(tx.what, o, l1) : TRUE
  BY <1>1 DEF Mine
<1>5. /\ L1OK(l1) /\ L1OK(l1') /\ l1.connected \subseteq l1'.connected
      /\ \A p \in Operators : l1.stake[p] <= l1'.stake[p]
      /\ Mines(tx.what, o, l1) # {} =>
           /\ tx.what = "connect" => o \in l1'.connected
           /\ tx.what = "deposit" => l1'.stake[o] >= Amount
  <2>1. PICK d : d = l1'
    OBVIOUS
  <2>. HIDE DEF tx
  <2>. QED
    BY <1>2, <1>4, <2>1, MinedL1 DEF OnboardingInv
<1>6. \A p \in Operators : ProcessOK(onboarding[p], p, l1')
  BY <1>5, ProcessStaysOK DEF OnboardingInv
<1>7. DOMAIN pool' = DOMAIN pool /\ pool'[s] = Tail(pool[s])
      /\ \A r \in DOMAIN pool \ {s} : pool'[r] = pool[r]
  BY <1>1 DEF Mine
<1>8. /\ pool'[s] \in Seq(SentTransactions) /\ DOMAIN pool'[s] = 1 .. n - 1
      /\ \A i \in 1 .. n - 1 : pool'[s][i] = pool[s][i + 1]
  BY <1>1, <1>7, HeadTailProperties
<1>9. ASSUME NEW r \in DOMAIN pool, NEW i \in DOMAIN pool'[r]
      PROVE  /\ K(r, i) \in DOMAIN pool[r] /\ pool'[r][i] = pool[r][K(r, i)]
             /\ ~(r = s /\ K(r, i) = 1)
  BY <1>1, <1>7, <1>8
<1>10. /\ DOMAIN onboarding = Operators /\ DOMAIN onboarding' = Operators
       /\ ~tx.awaited => onboarding' = onboarding
       /\ tx.awaited => onboarding' = [onboarding EXCEPT ![o] =
                          IF Mines(tx.what, o, l1) = {} THEN Idle("stopped")
                          ELSE Advanced(onboarding[o])]
  BY <1>1 DEF OnboardingInv, Mine, Goes
<1>11. ASSUME tx.awaited, Mines(tx.what, o, l1) # {}
       PROVE  ProcessOK(Advanced(onboarding[o]), o, l1')
  <2>. DEFINE x == onboarding[o]
  <2>1. main[x.at] = <<"send", tx.what>> /\ ProcessOK(x, o, l1')
    BY <1>2, <1>3, <1>6, <1>11 DEF TransactionOK
  <2>2. /\ x.at = 8 => main[x.at] = <<"read", "isConnected">>
        /\ x.at = 10 => main[x.at] = <<"send", "connect">>
        /\ x.at = 13 => main[x.at] = <<"send", "deposit">>
    BY MainLines
  <2>3. ProcessOK(Advanced(x), o, l1')
    <3>. HIDE DEF x, tx
    <3>1. x.at # 8 /\ (x.at = 10 => tx.what = "connect") /\ (x.at = 13 => tx.what = "deposit")
      BY <2>1, <2>2
    <3>. QED
      BY <1>5, <1>11, <2>1, <3>1, AdvancedOK
  <2>. QED
    BY <2>3
<1>12. \A p \in Operators : ProcessOK(onboarding'[p], p, l1')
  <2>1. CASE ~tx.awaited
    BY <1>6, <1>10, <2>1
  <2>2. CASE tx.awaited /\ Mines(tx.what, o, l1) = {}
    BY <1>3, <1>6, <1>10, <2>2, IdleOK
  <2>3. CASE tx.awaited /\ Mines(tx.what, o, l1) # {}
    BY <1>3, <1>6, <1>10, <1>11, <2>3
  <2>. QED
    BY <2>1, <2>2, <2>3
<1>13. ASSUME NEW r \in DOMAIN pool, NEW k \in DOMAIN pool[r], ~(r = s /\ k = 1),
              NEW t, t = pool[r][k]
       PROVE  TransactionOK(t)'
  <2>1. t \in SentTransactions /\ TransactionOK(t)
    BY <1>13 DEF OnboardingInv
  <2>2. t.operator \in Operators
    BY <2>1 DEF SentTransactions
  <2>3. t.what = "registerAvs" => Settled(l1', t.operator)
    BY <1>5, <2>1, <2>2, SettledStays DEF TransactionOK
  <2>4. t.awaited => onboarding'[t.operator] = onboarding[t.operator]
    <3>1. t.awaited /\ tx.awaited => t.operator # o
      BY <1>1, <1>13 DEF OnboardingInv, AwaitedOnce
    <3>. QED
      BY <1>3, <1>10, <2>2, <3>1
  <2>. QED
    BY <2>1, <2>3, <2>4 DEF TransactionOK
<1>14. ASSUME NEW r \in DOMAIN pool', NEW i \in DOMAIN pool'[r], NEW t, t = pool'[r][i]
       PROVE  TransactionOK(t)'
  <2>. HIDE DEF K
  <2>. QED
    BY <1>7, <1>9, <1>13, <1>14
<1>15. AwaitedOnce'
  <2>1. SUFFICES ASSUME NEW q \in DOMAIN pool', NEW r \in DOMAIN pool',
                        NEW i \in DOMAIN pool'[q], NEW j \in DOMAIN pool'[r],
                        pool'[q][i].awaited, pool'[r][j].awaited,
                        pool'[q][i].operator = pool'[r][j].operator
                 PROVE  q = r /\ i = j
    BY DEF AwaitedOnce
  <2>2. q = r /\ K(q, i) = K(r, j)
    <3>1. /\ K(q, i) \in DOMAIN pool[q] /\ pool'[q][i] = pool[q][K(q, i)]
          /\ K(r, j) \in DOMAIN pool[r] /\ pool'[r][j] = pool[r][K(r, j)]
      BY <1>7, <1>9
    <3>. HIDE DEF K
    <3>. QED
      BY <1>7, <2>1, <3>1 DEF OnboardingInv, AwaitedOnce
  <2>3. i \in Int /\ j \in Int
    <3>1. pool'[q] \in Seq(SentTransactions) /\ pool'[r] \in Seq(SentTransactions)
      BY <1>7, <1>8 DEF OnboardingInv
    <3>. QED
      BY <3>1
  <2>. QED
    BY <2>2, <2>3
<1>16. \A r \in DOMAIN pool' : pool'[r] \in Seq(SentTransactions)
  BY <1>7, <1>8 DEF OnboardingInv
<1>17. DOMAIN pool' = Operators \cup {Deployer}
  BY <1>7 DEF OnboardingInv
<1>18. (\A r \in DOMAIN pool : /\ pool[r] \in Seq(SentTransactions)
                              /\ \A i \in DOMAIN pool[r] : TransactionOK(pool[r][i]))'
  BY <1>14, <1>16
<1>. QED
  BY <1>5, <1>10, <1>12, <1>15, <1>17, <1>18 DEF OnboardingInv

\* Nobody waits any longer for what a dead process sent.
LEMMA CrashKeepsOnboarding ==
  ASSUME OnboardingInv, NEW o \in Operators, CrashOnboarding(o) PROVE OnboardingInv'
<1>1. /\ DOMAIN pool' = DOMAIN pool /\ l1' = l1
      /\ \A s \in DOMAIN pool : pool'[s] = Unawaited(pool[s], o)
  BY DEF CrashOnboarding
<1>2. ASSUME NEW s \in DOMAIN pool, NEW i \in DOMAIN pool[s]
      PROVE  /\ pool[s][i] \in SentTransactions /\ TransactionOK(pool[s][i])
             /\ pool'[s][i] = [pool[s][i] EXCEPT !.awaited = @ /\ pool[s][i].operator # o]
  <2>1. pool[s][i] \in SentTransactions /\ TransactionOK(pool[s][i])
    BY DEF OnboardingInv
  <2>2. pool'[s] = [k \in DOMAIN pool[s] |->
                      [pool[s][k] EXCEPT !.awaited = @ /\ pool[s][k].operator # o]]
    BY <1>1 DEF Unawaited
  <2>. QED
    BY <2>1, <2>2, Zenon
<1>3. ASSUME NEW t \in SentTransactions, NEW u,
             u = [t EXCEPT !.awaited = @ /\ t.operator # o]
      PROVE  /\ u \in SentTransactions /\ u.what = t.what /\ u.operator = t.operator
             /\ u.awaited => t.awaited /\ t.operator # o
  BY <1>3 DEF SentTransactions
<1>4. ASSUME NEW s \in DOMAIN pool
      PROVE  /\ DOMAIN pool'[s] = DOMAIN pool[s] /\ pool'[s] \in Seq(SentTransactions)
  <2>1. pool'[s] = [i \in DOMAIN pool[s] |->
                      [pool[s][i] EXCEPT !.awaited = @ /\ pool[s][i].operator # o]]
    BY <1>1 DEF Unawaited
  <2>2. DOMAIN pool[s] = 1 .. Len(pool[s]) /\ Len(pool[s]) \in Nat
    BY DEF OnboardingInv
  <2>3. \A i \in DOMAIN pool[s] :
          [pool[s][i] EXCEPT !.awaited = @ /\ pool[s][i].operator # o] \in SentTransactions
    BY <1>2, <1>3
  <2>. QED
    BY <2>1, <2>2, <2>3, IsASeq
<1>5. /\ DOMAIN onboarding' = Operators /\ onboarding'[o] = Idle("stopped")
      /\ \A p \in Operators \ {o} : onboarding'[p] = onboarding[p]
  BY DEF CrashOnboarding, Goes, OnboardingInv
<1>6. \A p \in Operators : ProcessOK(onboarding'[p], p, l1)
  BY <1>5, IdleOK DEF OnboardingInv
<1>7. ASSUME NEW s \in DOMAIN pool', NEW i \in DOMAIN pool'[s], NEW u, u = pool'[s][i]
      PROVE  TransactionOK(u)'
  <2>1. PICK t : t = pool[s][i]
    OBVIOUS
  <2>3. i \in DOMAIN pool[s] /\ t \in SentTransactions /\ TransactionOK(t)
        /\ u = [t EXCEPT !.awaited = @ /\ t.operator # o]
    BY <1>1, <1>2, <1>4, <1>7, <2>1
  <2>4. t.operator \in Operators /\ u.what = t.what /\ u.operator = t.operator
        /\ (u.awaited => t.awaited /\ t.operator # o)
    BY <1>3, <2>3 DEF SentTransactions
  <2>. QED
    BY <1>1, <1>5, <2>3, <2>4 DEF TransactionOK
<1>8. AwaitedOnce'
  <2>1. SUFFICES ASSUME NEW q \in DOMAIN pool', NEW r \in DOMAIN pool',
                        NEW i \in DOMAIN pool'[q], NEW j \in DOMAIN pool'[r],
                        pool'[q][i].awaited, pool'[r][j].awaited,
                        pool'[q][i].operator = pool'[r][j].operator
                 PROVE  q = r /\ i = j
    BY DEF AwaitedOnce
  <2>2. ASSUME NEW s \in DOMAIN pool, NEW k \in DOMAIN pool'[s]
        PROVE  /\ k \in DOMAIN pool[s] /\ pool'[s][k].operator = pool[s][k].operator
               /\ pool'[s][k].awaited => pool[s][k].awaited
    <3>1. PICK t : t = pool[s][k]
      OBVIOUS
    <3>2. PICK u : u = pool'[s][k]
      OBVIOUS
    <3>3. k \in DOMAIN pool[s] /\ t \in SentTransactions
          /\ u = [t EXCEPT !.awaited = @ /\ t.operator # o]
      BY <1>2, <1>4, <3>1, <3>2
    <3>4. u.operator = t.operator /\ (u.awaited => t.awaited)
      BY <1>3, <3>3
    <3>. QED
      BY <3>1, <3>2, <3>3, <3>4, Zenon
  <2>3. q \in DOMAIN pool /\ r \in DOMAIN pool /\ AwaitedOnce
    BY <1>1 DEF OnboardingInv
  <2>4. /\ i \in DOMAIN pool[q] /\ pool[q][i].awaited
        /\ j \in DOMAIN pool[r] /\ pool[r][j].awaited
        /\ pool[q][i].operator = pool[r][j].operator
    BY <2>1, <2>2, <2>3
  <2>. QED
    BY <2>3, <2>4 DEF AwaitedOnce
<1>9. (\A s \in DOMAIN pool : /\ pool[s] \in Seq(SentTransactions)
                             /\ \A i \in DOMAIN pool[s] : TransactionOK(pool[s][i]))'
  BY <1>1, <1>4, <1>7
<1>. QED
  BY <1>1, <1>5, <1>6, <1>8, <1>9 DEF OnboardingInv

\* A message taken from L1 to L2 keeps the invariant.
LEMMA DeliverKeepsOnboarding ==
  ASSUME OnboardingInv, NEW o \in Operators, Deliver(o) PROVE OnboardingInv'
<1>1. l1' = [l1 EXCEPT !.messages = @ \ {o}] /\ pool' = pool /\ onboarding' = onboarding
  BY DEF Deliver
<1>2. /\ DOMAIN l1' = DOMAIN l1 /\ l1'.tokens = l1.tokens /\ l1'.allowance = l1.allowance
      /\ l1'.stake = l1.stake /\ l1'.eigenLayer = l1.eigenLayer
      /\ l1'.connected = l1.connected /\ l1'.registered = l1.registered
      /\ l1'.messages = l1.messages \ {o}
  BY <1>1 DEF OnboardingInv, L1OK
<1>3. L1OK(l1')
  BY <1>2 DEF OnboardingInv, L1OK, Settled
<1>4. \A p \in Operators : ProcessOK(onboarding[p], p, l1')
  BY <1>2 DEF OnboardingInv, ProcessOK
<1>5. ASSUME NEW t, TransactionOK(t) PROVE TransactionOK(t)'
  BY <1>1, <1>2, <1>5 DEF TransactionOK, Settled
<1>6. (\A s \in DOMAIN pool : /\ pool[s] \in Seq(SentTransactions)
                             /\ \A i \in DOMAIN pool[s] : TransactionOK(pool[s][i]))'
  BY <1>1, <1>5 DEF OnboardingInv
<1>7. AwaitedOnce'
  BY <1>1 DEF OnboardingInv, AwaitedOnce
<1>8. DOMAIN onboarding' = Operators /\ DOMAIN pool' = Operators \cup {Deployer}
  BY <1>1 DEF OnboardingInv
<1>9. (\A p \in Operators : ProcessOK(onboarding[p], p, l1))'
  BY <1>1, <1>4
<1>. QED
  BY <1>3, <1>6, <1>7, <1>8, <1>9 DEF OnboardingInv

\* Other scripts leave L1 and what is sent to it alone.
LEMMA OthersKeepOnboarding ==
  ASSUME OnboardingInv, UNCHANGED onboardingVars PROVE OnboardingInv'
<1>1. l1' = l1 /\ pool' = pool /\ onboarding' = onboarding
  BY DEF onboardingVars
<1>2. ASSUME NEW t, TransactionOK(t) PROVE TransactionOK(t)'
  BY <1>1, <1>2 DEF TransactionOK
<1>3. (\A s \in DOMAIN pool : /\ pool[s] \in Seq(SentTransactions)
                             /\ \A i \in DOMAIN pool[s] : TransactionOK(pool[s][i]))'
  BY <1>1, <1>2 DEF OnboardingInv
<1>. QED
  BY <1>1, <1>3 DEF OnboardingInv, AwaitedOnce

\* Every step of the onboarding keeps the invariant.
LEMMA OnboardingInvNext ==
  ASSUME OnboardingInv, [NetworkNext]_networkVars PROVE OnboardingInv'
<1>1. ASSUME NEW o \in Operators, StartOnboarding(o) PROVE OnboardingInv'
  BY <1>1, IdleOK, GoKeepsOnboarding DEF StartOnboarding
<1>2. ASSUME OnboardingNext PROVE OnboardingInv'
  BY <1>1, <1>2, ReadKeepsOnboarding, CheckKeepsOnboarding, SendKeepsOnboarding,
     CrashKeepsOnboarding, MineKeepsOnboarding DEF OnboardingNext, OnboardingStep
<1>3. ASSUME UNCHANGED networkVars PROVE UNCHANGED onboardingVars
  BY <1>3 DEF networkVars, onboardingVars
<1>. QED
  BY <1>2, <1>3, OthersKeepOnboarding, DeliverKeepsOnboarding DEF NetworkNext, OnL2

(* Operators known to the AVS are connected to it and have a stake: every  *)
(* registration in flight, also one whose process has died, was sent by a  *)
(* process that was past its deposit, and neither is ever undone.          *)
THEOREM RegisteredOperatorsHaveStake == NetworkSpec => []RegisteredHaveStake
<1>1. NetworkInit => OnboardingInv
  BY OnboardingInvInit
<1>2. OnboardingInv /\ [NetworkNext]_networkVars => OnboardingInv'
  BY OnboardingInvNext
<1>3. OnboardingInv => RegisteredHaveStake
  <2>1. Len(main) = 16
    BY MainLines
  <2>. QED
    BY <2>1 DEF OnboardingInv, L1OK, ProcessOK, Settled, RegisteredHaveStake, OnboardingTypeOK
<1>. QED
  BY <1>1, <1>2, <1>3, PTL DEF NetworkSpec

-----------------------------------------------------------------------------
(* The voting power of operators                                           *)

ReportOK(r) ==
  /\ r.block \in 0 .. l1Block.number /\ DOMAIN r.power \subseteq Operators
  /\ \A o \in DOMAIN r.power : r.power[o] \in Nat /\ r.power[o] <= l1.stake[o]

\* What an operator votes with is the newest accepted report on it.
NewestCounts(o) ==
  /\ votingPower[o] <= l1.stake[o]
  /\ \A r \in accepted : o \in DOMAIN r.power =>
       \/ votingPower[o] = r.power[o]
       \/ \E n \in accepted : o \in DOMAIN n.power /\ n.block > r.block

SyncInv ==
  /\ votingPower \in [Operators -> Nat] /\ l1.stake \in [Operators -> Nat]
  /\ vps \in [syncer : Syncers, lastSyncedL1BlockNumber : Nat]
  /\ l1Block.number \in Nat /\ vps.lastSyncedL1BlockNumber <= l1Block.number
  /\ accepted \subseteq reports /\ elsewhere \subseteq Operators
  /\ \A r \in reports : ReportOK(r)
  /\ \A r \in accepted : r.block <= vps.lastSyncedL1BlockNumber
  /\ \A o \in Operators \ elsewhere : NewestCounts(o)

\* No power and no report at first.
LEMMA SyncInvInit == ASSUME NetworkInit PROVE SyncInv
<1>1. PICK s \in Scenarios : OnboardingInit(s) /\ SyncInit(s)
  BY DEF NetworkInit
<1>2. l1.stake = [o \in Operators |-> 0]
  BY <1>1 DEF OnboardingInit
<1>3. FirstSyncer \in Syncers
  BY SyncersAssumption DEF FirstSyncer
<1>. QED
  BY <1>1, <1>2, <1>3 DEF SyncInit, SyncInv, NewestCounts

\* Nothing takes stake away.
LEMMA StakeGrows ==
  ASSUME OnboardingInv, OnboardingNext \/ \E o \in Operators : Deliver(o)
  PROVE  \A p \in Operators : l1.stake[p] <= l1'.stake[p]
<1>1. ASSUME NEW s \in Operators \cup {Deployer}, Mine(s)
      PROVE  \A p \in Operators : l1.stake[p] <= l1'.stake[p]
  <2>. DEFINE tx == Head(pool[s])
  <2>1. s \in DOMAIN pool /\ pool[s] \in Seq(SentTransactions) /\ pool[s] # <<>>
    BY <1>1 DEF OnboardingInv, Mine
  <2>2. tx \in SentTransactions /\ TransactionOK(tx)
    BY <2>1 DEF OnboardingInv
  <2>3. l1' = IF Mines(tx.what, tx.operator, l1) = {} THEN l1
              ELSE CHOOSE c \in Mines(tx.what, tx.operator, l1) : TRUE
    BY <1>1 DEF Mine
  <2>4. PICK d : d = l1'
    OBVIOUS
  <2>. HIDE DEF tx
  <2>. QED
    BY <2>2, <2>3, <2>4, MinedL1
<1>2. ASSUME l1' = l1 PROVE \A p \in Operators : l1.stake[p] <= l1'.stake[p]
  BY <1>2 DEF OnboardingInv, L1OK
<1>3. ASSUME NEW o \in Operators, Deliver(o)
      PROVE  \A p \in Operators : l1.stake[p] <= l1'.stake[p]
  <2>1. l1'.stake = l1.stake
    BY <1>3 DEF Deliver, OnboardingInv, L1OK
  <2>. QED
    BY <2>1 DEF OnboardingInv, L1OK
<1>. QED
  BY <1>1, <1>2, <1>3 DEF OnboardingNext, OnboardingStep, ReadChain, CheckChainId,
     SendTransaction, CrashOnboarding, StartOnboarding

\* A stake that grows keeps what was reported below it.
LEMMA GrowthKeepsSync ==
  ASSUME SyncInv, UNCHANGED syncVars, l1'.stake \in [Operators -> Nat],
         \A p \in Operators : l1.stake[p] <= l1'.stake[p]
  PROVE  SyncInv'
<1>1. /\ votingPower' = votingPower /\ vps' = vps /\ reports' = reports
      /\ accepted' = accepted /\ l1Block' = l1Block /\ elsewhere' = elsewhere
  BY DEF syncVars
<1>2. ASSUME NEW r, ReportOK(r) PROVE ReportOK(r)'
  BY <1>1, <1>2 DEF ReportOK, SyncInv
<1>3. ASSUME NEW o \in Operators, NewestCounts(o) PROVE NewestCounts(o)'
  BY <1>1, <1>3 DEF NewestCounts, SyncInv
<1>. QED
  BY <1>1, <1>2, <1>3 DEF SyncInv

\* A block that is read now reports the stakes of now.
LEMMA ReadKeepsSync ==
  ASSUME SyncInv, NEW operators \in (SUBSET Operators) \ {{}}, ReadStake(operators), l1' = l1
  PROVE  SyncInv'
<1>1. PICK n \in {l1Block.number, l1Block.number + 1} :
        /\ l1Block' = [number |-> n, stake |-> l1.stake]
        /\ reports' = reports \cup
             {[by |-> vps.syncer, block |-> n, power |-> [o \in operators |-> l1.stake[o]]]}
  BY DEF ReadStake
<1>2. /\ votingPower' = votingPower /\ vps' = vps /\ accepted' = accepted
      /\ elsewhere' = elsewhere
  BY DEF ReadStake
<1>3. n \in Nat /\ l1Block'.number = n /\ l1Block.number <= n
  BY <1>1 DEF SyncInv
<1>4. ASSUME NEW r, ReportOK(r) PROVE ReportOK(r)'
  BY <1>3, <1>4 DEF ReportOK, SyncInv
<1>5. ASSUME NEW r, r = [by |-> vps.syncer, block |-> n,
                         power |-> [o \in operators |-> l1.stake[o]]]
      PROVE  ReportOK(r)'
  BY <1>3, <1>5 DEF ReportOK, SyncInv
<1>6. ASSUME NEW o \in Operators, NewestCounts(o) PROVE NewestCounts(o)'
  BY <1>2, <1>6 DEF NewestCounts
<1>7. (\A r \in reports : ReportOK(r))'
  BY <1>1, <1>4, <1>5 DEF SyncInv
<1>. QED
  BY <1>1, <1>2, <1>3, <1>6, <1>7 DEF SyncInv

\* Increasing or decreasing a power to a reported one ends at that one.
LEMMA SetIsExact ==
  ASSUME NEW o, NEW power \in Nat, votingPower[o] \in Nat
  PROVE  setOperatorVotingPower(o, power) = power
BY DEF setOperatorVotingPower, increaseOperatorVotingPower, decreaseOperatorVotingPower

\* An accepted report is the newest of all that were accepted.
LEMMA AcceptKeepsSync ==
  ASSUME SyncInv, NEW report \in reports, setBatchOperatorVotingPower(report), l1' = l1
  PROVE  SyncInv'
<1>1. /\ vps.lastSyncedL1BlockNumber < report.block /\ vps'.lastSyncedL1BlockNumber = report.block
      /\ vps' = [vps EXCEPT !.lastSyncedL1BlockNumber = report.block]
      /\ accepted' = accepted \cup {report} /\ elsewhere' = elsewhere \ DOMAIN report.power
      /\ reports' = reports /\ l1Block' = l1Block
  BY DEF setBatchOperatorVotingPower, updateLastSyncedL1BlockNumber, SyncInv
<1>2. ReportOK(report)
  BY DEF SyncInv
<1>3. \A o \in DOMAIN report.power : setOperatorVotingPower(o, report.power[o]) = report.power[o]
  BY <1>2, SetIsExact DEF ReportOK, SyncInv
<1>4. /\ \A o \in DOMAIN report.power : votingPower'[o] = report.power[o]
      /\ \A o \in Operators \ DOMAIN report.power : votingPower'[o] = votingPower[o]
      /\ votingPower' \in [Operators -> Nat]
  BY <1>2, <1>3 DEF setBatchOperatorVotingPower, ReportOK, SyncInv
<1>5. ASSUME NEW r, ReportOK(r) PROVE ReportOK(r)'
  BY <1>1, <1>5 DEF ReportOK
<1>6. ASSUME NEW r \in accepted' PROVE r.block <= report.block
  BY <1>1, <1>2, <1>6 DEF SyncInv, ReportOK
<1>7. ASSUME NEW o \in Operators \ elsewhere' PROVE NewestCounts(o)'
  <2>1. CASE o \in DOMAIN report.power
    <3>1. votingPower'[o] <= l1'.stake[o]
      BY <1>2, <1>4, <2>1 DEF ReportOK
    <3>2. ASSUME NEW r \in accepted
          PROVE  \E n \in accepted' : o \in DOMAIN n.power /\ n.block > r.block
      BY <1>1, <1>2, <2>1, <3>2 DEF SyncInv, ReportOK
    <3>. QED
      BY <1>1, <1>4, <2>1, <3>1, <3>2 DEF NewestCounts
  <2>2. CASE o \notin DOMAIN report.power
    BY <1>1, <1>4, <1>7, <2>2 DEF NewestCounts, SyncInv
  <2>. QED
    BY <2>1, <2>2
<1>8. (\A r \in reports : ReportOK(r))'
  BY <1>1, <1>5 DEF SyncInv
<1>9. (\A o \in Operators \ elsewhere : NewestCounts(o))'
  BY <1>7
<1>10. vps' \in [syncer : Syncers, lastSyncedL1BlockNumber : Nat] /\ report.block <= l1Block.number
  BY <1>1, <1>2 DEF SyncInv, ReportOK
<1>. QED
  BY <1>1, <1>4, <1>6, <1>8, <1>9, <1>10 DEF SyncInv

\* Every step of the service and of the syncer keeps the invariant.
LEMMA SyncNextKeepsSync == ASSUME SyncInv, SyncNext, l1' = l1 PROVE SyncInv'
<1>1. ASSUME NEW s \in Syncers, setSyncer(s) PROVE SyncInv'
  <2>1. /\ vps' \in [syncer : Syncers, lastSyncedL1BlockNumber : Nat]
        /\ vps'.lastSyncedL1BlockNumber = vps.lastSyncedL1BlockNumber
        /\ UNCHANGED <<votingPower, reports, accepted, l1Block, elsewhere>>
    BY <1>1 DEF setSyncer, SyncInv
  <2>. QED
    BY <2>1 DEF SyncInv, ReportOK, NewestCounts
<1>2. ASSUME NEW o \in Operators, NEW power \in {0, Amount}, ChangeElsewhere(o, power)
      PROVE  SyncInv'
  <2>1. /\ votingPower' \in [Operators -> Nat] /\ elsewhere' = elsewhere \cup {o}
        /\ \A p \in Operators \ {o} : votingPower'[p] = votingPower[p]
        /\ UNCHANGED <<vps, reports, accepted, l1Block>>
    BY <1>2 DEF ChangeElsewhere, SyncInv, Amount
  <2>2. (\A p \in Operators \ elsewhere : NewestCounts(p))'
    BY <2>1 DEF SyncInv, NewestCounts
  <2>3. (\A r \in reports : ReportOK(r))'
    BY <2>1 DEF SyncInv, ReportOK
  <2>. QED
    BY <2>1, <2>2, <2>3 DEF SyncInv
<1>. QED
  BY <1>1, <1>2, ReadKeepsSync, AcceptKeepsSync DEF SyncNext

(* Operators vote with what the newest accepted report on them says, and   *)
(* with no more than their stake: a report was true of an earlier L1,      *)
(* stakes only grow, and a block is only followed by newer ones.           *)
THEOREM PowerFollows == NetworkSpec => []PowerFollowsStake
<1>. DEFINE IInv == OnboardingInv /\ SyncInv
<1>1. NetworkInit => IInv
  BY OnboardingInvInit, SyncInvInit
<1>2. IInv /\ [NetworkNext]_networkVars => IInv'
  <2>. SUFFICES ASSUME IInv, [NetworkNext]_networkVars PROVE IInv'
    OBVIOUS
  <2>1. OnboardingInv'
    BY OnboardingInvNext
  <2>2. l1'.stake \in [Operators -> Nat]
    BY <2>1 DEF OnboardingInv, L1OK
  <2>3. ASSUME SyncNext, UNCHANGED onboardingVars PROVE SyncInv'
    BY <2>3, SyncNextKeepsSync DEF onboardingVars
  <2>4. ASSUME UNCHANGED syncVars, OnboardingNext \/ \E o \in Operators : Deliver(o)
        PROVE  SyncInv'
    BY <2>2, <2>4, StakeGrows, GrowthKeepsSync
  <2>5. ASSUME UNCHANGED syncVars, UNCHANGED onboardingVars PROVE SyncInv'
    <3>1. \A p \in Operators : l1.stake[p] <= l1'.stake[p]
      BY <2>5 DEF onboardingVars, OnboardingInv, L1OK
    <3>. QED
      BY <2>2, <2>5, <3>1, GrowthKeepsSync
  <2>6. SyncInv'
    BY <2>3, <2>4, <2>5 DEF NetworkNext, OnL2, networkVars, syncVars, onboardingVars
  <2>. QED
    BY <2>1, <2>6
<1>3. IInv => PowerFollowsStake
  BY DEF SyncInv, ReportOK, NewestCounts, PowerFollowsStake, SyncTypeOK
<1>. QED
  BY <1>1, <1>2, <1>3, PTL DEF NetworkSpec

-----------------------------------------------------------------------------
(* The scripts' statements                                                 *)

\* Statements are pairs: what is called and, for some calls, on what.
StatementOK(x, s) ==
  /\ s[1] \in {"predict", "createDefinition", "setFee"} => x = "createSubnet"
  /\ s[1] = "setFee" => s[2] \in FeeSettings
  /\ s[1] = "setUp" => s[2] \in SetUpItems
  /\ s[1] \in {"subscribe", "subscribeAny"} => s[2] = 1
  /\ s[1] = "restrict" => s[2] = 1
  /\ s[1] = "registerOperator" => x = "registerOperator"
  /\ s[1] = "publishSample" => x = "mockTestProtocols"

\* The items, by the statement that sets them up.
LEMMA ItemsInOrder ==
  /\ \A i \in 1 .. 3 : SampleItems[i] \in SetUpItems
  /\ \A i \in 1 .. 4 : ConsumerItems[i] \in SetUpItems
  /\ {"admin", "signer", "funded"} \subseteq SetUpItems
  /\ Range(SampleItems) = {SampleItems[i] : i \in 1 .. 3}
  /\ Range(ConsumerItems) = {ConsumerItems[i] : i \in 1 .. 4}
<1>1. DOMAIN SampleItems = 1 .. 3 /\ DOMAIN ConsumerItems = 1 .. 4
  BY DEF SampleItems, ConsumerItems
<1>2. SampleItems[1] = "admin" /\ SampleItems[2] = "signer"
  BY DEF SampleItems
<1>3. /\ Range(SampleItems) = {SampleItems[i] : i \in 1 .. 3}
      /\ Range(ConsumerItems) = {ConsumerItems[i] : i \in 1 .. 4}
  BY <1>1 DEF Range
<1>. QED
  BY <1>2, <1>3 DEF SetUpItems

\* The statements of the migration that deploys a sample policy.
LEMMA SampleLines ==
  /\ Len(mockTestProtocols) = 10
  /\ mockTestProtocols[1] = <<"deployPolicy", 0>>
  /\ \A i \in 2 .. 4 : mockTestProtocols[i] = <<"setUp", SampleItems[i - 1]>>
  /\ \A i \in 5 .. 8 : mockTestProtocols[i] = <<"setUp", ConsumerItems[i - 4]>>
  /\ mockTestProtocols[9] = <<"register", 0>>
  /\ mockTestProtocols[10] = <<"publishSample", 0>>
<1>. DEFINE S == {<<"deployPolicy", 0>>, <<"register", 0>>, <<"publishSample", 0>>}
                 \cup {<<"setUp", item>> : item \in SetUpItems}
            a == <<Call("deployPolicy")>>
            b == [i \in 1 .. 3 |-> On("setUp", SampleItems[i])]
            c == [i \in 1 .. 4 |-> On("setUp", ConsumerItems[i])]
            d == <<Call("register"), Call("publishSample")>>
<1>1. /\ a \in Seq(S) /\ Len(a) = 1 /\ a[1] = <<"deployPolicy", 0>>
      /\ d \in Seq(S) /\ Len(d) = 2 /\ d[1] = <<"register", 0>> /\ d[2] = <<"publishSample", 0>>
  BY DEF Call
<1>3. /\ b \in Seq(S) /\ Len(b) = 3 /\ \A i \in 1 .. 3 : b[i] = <<"setUp", SampleItems[i]>>
      /\ c \in Seq(S) /\ Len(c) = 4 /\ \A i \in 1 .. 4 : c[i] = <<"setUp", ConsumerItems[i]>>
  BY ItemsInOrder DEF On
<1>4. mockTestProtocols = ((a \o b) \o c) \o d
  BY DEF mockTestProtocols
<1>. HIDE DEF a, b, c, d, S
<1>. DEFINE e == a \o b
            f == e \o c
            g == f \o d
<1>. HIDE DEF e, f, g
<1>5. /\ e \in Seq(S) /\ Len(e) = 4 /\ e[1] = a[1]
      /\ \A i \in 2 .. 4 : e[i] = b[i - 1]
  <2>1. /\ e \in Seq(S) /\ Len(e) = Len(a) + Len(b)
        /\ \A i \in 1 .. Len(a) + Len(b) : e[i] = IF i <= Len(a) THEN a[i] ELSE b[i - Len(a)]
    <3>0. /\ a \o b \in Seq(S) /\ Len(a \o b) = Len(a) + Len(b)
          /\ \A i \in 1 .. Len(a) + Len(b) :
               (a \o b)[i] = IF i <= Len(a) THEN a[i] ELSE b[i - Len(a)]
      <4>1. a \in Seq(S) /\ b \in Seq(S)
        BY <1>1, <1>3
      <4>. QED
        BY <4>1, ConcatProperties, Zenon
    <3>1. e = a \o b
      BY DEF e
    <3>. QED
      BY <3>0, <3>1, Zenon
  <2>. QED
    BY <1>1, <1>3, <2>1
<1>6. /\ f \in Seq(S) /\ Len(f) = 8
      /\ \A i \in 1 .. 4 : f[i] = e[i]
      /\ \A i \in 5 .. 8 : f[i] = c[i - 4]
  <2>1. /\ f \in Seq(S) /\ Len(f) = Len(e) + Len(c)
        /\ \A i \in 1 .. Len(e) + Len(c) : f[i] = IF i <= Len(e) THEN e[i] ELSE c[i - Len(e)]
    <3>0. /\ e \o c \in Seq(S) /\ Len(e \o c) = Len(e) + Len(c)
          /\ \A i \in 1 .. Len(e) + Len(c) :
               (e \o c)[i] = IF i <= Len(e) THEN e[i] ELSE c[i - Len(e)]
      <4>1. e \in Seq(S) /\ c \in Seq(S)
        BY <1>3, <1>5
      <4>. QED
        BY <4>1, ConcatProperties, Zenon
    <3>1. f = e \o c
      BY DEF f
    <3>. QED
      BY <3>0, <3>1, Zenon
  <2>. QED
    BY <1>3, <1>5, <2>1
<1>7. /\ Len(g) = 10
      /\ \A i \in 1 .. 8 : g[i] = f[i]
      /\ g[9] = d[1] /\ g[10] = d[2]
  <2>1. /\ g \in Seq(S) /\ Len(g) = Len(f) + Len(d)
        /\ \A i \in 1 .. Len(f) + Len(d) : g[i] = IF i <= Len(f) THEN f[i] ELSE d[i - Len(f)]
    <3>0. /\ f \o d \in Seq(S) /\ Len(f \o d) = Len(f) + Len(d)
          /\ \A i \in 1 .. Len(f) + Len(d) :
               (f \o d)[i] = IF i <= Len(f) THEN f[i] ELSE d[i - Len(f)]
      <4>1. f \in Seq(S) /\ d \in Seq(S)
        BY <1>1, <1>6
      <4>. QED
        BY <4>1, ConcatProperties, Zenon
    <3>1. g = f \o d
      BY DEF g
    <3>. QED
      BY <3>0, <3>1, Zenon
  <2>. QED
    BY <1>1, <1>6, <2>1
<1>8. mockTestProtocols = g
  BY <1>4 DEF e, f, g
<1>. QED
  BY <1>1, <1>3, <1>5, <1>6, <1>7, <1>8

\* Those of the migration that deploys a guard.
LEMMA GuardLines ==
  /\ Len(vennGuard) \in 5 .. 6
  /\ vennGuard[1] = <<"deployPolicy", 0>> /\ vennGuard[2] = <<"setUp", "admin">>
  /\ vennGuard[3] = <<"setUp", "signer">> /\ vennGuard[4] = <<"register", 0>>
  /\ vennGuard[5] = <<"subscribeAny", 1>>
  /\ 6 \in 1 .. Len(vennGuard) => vennGuard[6] = <<"setUp", "funded">>
<1>. DEFINE a == << Call("deployPolicy"), On("setUp", "admin"), On("setUp", "signer"),
                    Call("register"), On("subscribeAny", 1) >>
            b == << On("setUp", "funded") >>
            S == {a[i] : i \in 1 .. 5} \cup {b[1]}
<1>1. a \in Seq(S) /\ Len(a) = 5 /\ b \in Seq(S) /\ Len(b) = 1 /\ << >> \in Seq(S) /\ Len(<< >>) = 0
  <2>1. \A i \in 1 .. 5 : a[i] \in S
    OBVIOUS
  <2>2. Len(a) = 5 /\ a = [i \in 1 .. 5 |-> a[i]]
    OBVIOUS
  <2>3. b[1] \in S /\ Len(b) = 1 /\ b = [i \in 1 .. 1 |-> b[i]]
    OBVIOUS
  <2>. HIDE DEF a, b, S
  <2>. QED
    BY <2>1, <2>2, <2>3
<1>2. vennGuard = a \o (IF Prepaid THEN b ELSE << >>)
  BY DEF vennGuard
<1>3. /\ a[1] = <<"deployPolicy", 0>> /\ a[2] = <<"setUp", "admin">>
      /\ a[3] = <<"setUp", "signer">> /\ a[4] = <<"register", 0>>
      /\ a[5] = <<"subscribeAny", 1>> /\ b[1] = <<"setUp", "funded">>
  BY DEF Call, On
<1>. HIDE DEF a, b, S
<1>4. CASE Prepaid
  <2>1. vennGuard = a \o b
    BY <1>2, <1>4
  <2>. DEFINE e == a \o b
  <2>. HIDE DEF e
  <2>2. /\ e \in Seq(S) /\ Len(e) = Len(a) + Len(b)
        /\ \A i \in 1 .. Len(a) + Len(b) : e[i] = IF i <= Len(a) THEN a[i] ELSE b[i - Len(a)]
    <3>0. /\ a \o b \in Seq(S) /\ Len(a \o b) = Len(a) + Len(b)
          /\ \A i \in 1 .. Len(a) + Len(b) :
               (a \o b)[i] = IF i <= Len(a) THEN a[i] ELSE b[i - Len(a)]
      <4>1. a \in Seq(S) /\ b \in Seq(S)
        BY <1>1
      <4>. QED
        BY <4>1, ConcatProperties, Zenon
    <3>1. e = a \o b
      BY DEF e
    <3>. QED
      BY <3>0, <3>1, Zenon
  <2>3. Len(e) = 6 /\ e[6] = b[1] /\ \A i \in 1 .. 5 : e[i] = a[i]
    BY <1>1, <2>2
  <2>4. vennGuard = e
    BY <2>1 DEF e
  <2>. QED
    BY <1>3, <2>3, <2>4
<1>5. CASE ~Prepaid
  <2>1. vennGuard = a
    BY <1>1, <1>2, <1>5, ConcatEmptySeq
  <2>2. Len(vennGuard) = 5
    BY <1>1, <2>1, Zenon
  <2>3. Len(vennGuard) \in 5 .. 6
    BY <2>2
  <2>4. 6 \notin 1 .. Len(vennGuard)
    BY <2>2
  <2>. QED
    BY <1>3, <2>1, <2>3, <2>4, Zenon
<1>. QED
  BY <1>4, <1>5, Zenon

\* What the statements of each script are about.
LEMMA ScriptLines ==
  ASSUME NEW x \in DOMAIN Script, NEW i \in 1 .. Len(Script[x])
  PROVE  StatementOK(x, Script[x][i])
<1>1. CASE x = "createSubnet"
  <2>1. Script[x] = createSubnet
    BY <1>1 DEF Script
  <2>2. Len(createSubnet) = 5
    BY DEF createSubnet
  <2>. QED
    BY <1>1, <2>1, <2>2 DEF createSubnet, StatementOK, Call, On, FeeSettings
<1>2. CASE x = "registerProtocol"
  <2>1. Script[x] = registerProtocol /\ Len(registerProtocol) = 4
    BY <1>2 DEF Script, registerProtocol
  <2>. QED
    BY <1>2, <2>1 DEF registerProtocol, StatementOK, Call, On
<1>3. CASE x = "subscribeProtocol"
  <2>1. Script[x] = subscribeProtocol /\ Len(subscribeProtocol) = 1
    BY <1>3 DEF Script, subscribeProtocol
  <2>. QED
    BY <1>3, <2>1 DEF subscribeProtocol, StatementOK, Call, On
<1>4. CASE x = "unsubscribeProtocol"
  <2>1. Script[x] = unsubscribeProtocol /\ Len(unsubscribeProtocol) = 2
    BY <1>4 DEF Script, unsubscribeProtocol
  <2>. QED
    BY <1>4, <2>1 DEF unsubscribeProtocol, StatementOK, Call, On
<1>5. CASE x = "setTaskDefinitionRestrictedAttesters"
  <2>1. Script[x] = setTaskDefinitionRestrictedAttesters /\ Len(setTaskDefinitionRestrictedAttesters) = 1
    BY <1>5 DEF Script, setTaskDefinitionRestrictedAttesters
  <2>. QED
    BY <1>5, <2>1 DEF setTaskDefinitionRestrictedAttesters, StatementOK, Call, On
<1>6. CASE x = "transferAttestationCenterAdmin"
  <2>1. Script[x] = transferAttestationCenterAdmin /\ Len(transferAttestationCenterAdmin) = 1
    BY <1>6 DEF Script, transferAttestationCenterAdmin
  <2>. QED
    BY <1>6, <2>1 DEF transferAttestationCenterAdmin, StatementOK, Call, On
<1>7. CASE x = "registerOperator"
  <2>1. Script[x] = registerOperator /\ Len(registerOperator) = 2
    BY <1>7 DEF Script, registerOperator
  <2>. QED
    BY <1>7, <2>1 DEF registerOperator, StatementOK, Call, On
<1>8. CASE x = "mockTestProtocols"
  <2>1. Script[x] = mockTestProtocols
    BY <1>8 DEF Script
  <2>2. CASE i \in 2 .. 4
    <3>1. mockTestProtocols[i] = <<"setUp", SampleItems[i - 1]>> /\ SampleItems[i - 1] \in SetUpItems
      BY <2>2, SampleLines, ItemsInOrder
    <3>. QED
      BY <1>8, <2>1, <3>1 DEF StatementOK
  <2>3. CASE i \in 5 .. 8
    <3>1. mockTestProtocols[i] = <<"setUp", ConsumerItems[i - 4]>> /\ ConsumerItems[i - 4] \in SetUpItems
      BY <2>3, SampleLines, ItemsInOrder
    <3>. QED
      BY <1>8, <2>1, <3>1 DEF StatementOK
  <2>4. CASE i \in {1, 9, 10}
    BY <1>8, <2>1, <2>4, SampleLines DEF StatementOK
  <2>. QED
    BY <2>1, <2>2, <2>3, <2>4, SampleLines
<1>9. CASE x = "vennGuard"
  <2>1. Script[x] = vennGuard
    BY <1>9 DEF Script
  <2>2. Len(vennGuard) \in 5 .. 6 /\ i \in 1 .. Len(vennGuard)
    BY <2>1, GuardLines
  <2>3. \A n \in 5 .. 6 : \A j \in 1 .. n : j \in 1 .. 6
    OBVIOUS
  <2>4. i \in 1 .. 6
    BY <2>2, <2>3, Zenon
  <2>5. \/ Script[x][i][1] \in {"deployPolicy", "register"}
        \/ Script[x][i][1] = "setUp" /\ Script[x][i][2] \in SetUpItems
        \/ Script[x][i][1] = "subscribeAny" /\ Script[x][i][2] = 1
    BY <2>1, <2>4, ItemsInOrder, GuardLines
  <2>. QED
    BY <2>5 DEF StatementOK
<1>. QED
  BY <1>1, <1>2, <1>3, <1>4, <1>5, <1>6, <1>7, <1>8, <1>9 DEF Script

-----------------------------------------------------------------------------
(* What the calls do to the chain                                          *)

\* What is kept about operators, policies and definitions.
LEMMA ChainBooks ==
  ASSUME NEW n, ChainTypeOK(n)
  PROVE  /\ IsInjective(n.center) /\ DOMAIN n.registry \subseteq Operators
         /\ Len(n.restricted) \in Nat /\ Len(n.restricted) <= MaxDefinitions
         /\ \A policy \in Policies :
              /\ IsKnown(n, policy) => policy <= n.policies
              /\ DOMAIN n.subnets[policy] \subseteq 0 .. Len(n.restricted)
              /\ n.subnets[policy] \in [DOMAIN n.subnets[policy] -> SUBSET Nat]
BY DEF ChainTypeOK

\* And put together again.
LEMMA ChainOfFields ==
  ASSUME NEW n, DOMAIN n = Fields, n = [f \in Fields |-> n[f]],
         n.height \in Nat, n.log \subseteq Events,
         n.multisig \in {"deployer", "successor"},
         n.restricted \in Seq(SUBSET Nat), n.fees \in [Ids -> SUBSET FeeSettings],
         n.center \in Seq(Operators), n.registry \in [DOMAIN n.registry -> Nat],
         n.policies \in 0 .. MaxPolicies, n.sample \in 0 .. n.policies,
         n.setUp \in [Policies -> SUBSET SetUpItems],
         n.metadata \in [Policies -> MetadataURIs \cup {Original, Unregistered}],
         n.subnets \in [Policies -> Range(n.subnets)],
         Len(n.restricted) <= MaxDefinitions, IsInjective(n.center),
         DOMAIN n.registry \subseteq Operators,
         \A policy \in Policies :
           /\ IsKnown(n, policy) => policy <= n.policies
           /\ DOMAIN n.subnets[policy] \subseteq 0 .. Len(n.restricted)
           /\ n.subnets[policy] \in [DOMAIN n.subnets[policy] -> SUBSET Nat]
  PROVE ChainTypeOK(n)
BY DEF ChainTypeOK, Fields

\* A field that stays is of its type still.
LEMMA SameFields ==
  ASSUME NEW n, ChainTypeOK(n), NEW m
  PROVE  /\ m.height = n.height => m.height \in Nat
         /\ m.log = n.log => m.log \subseteq Events
         /\ m.multisig = n.multisig => m.multisig \in {"deployer", "successor"}
         /\ m.restricted = n.restricted =>
              m.restricted \in Seq(SUBSET Nat) /\ Len(m.restricted) <= MaxDefinitions
         /\ m.fees = n.fees => m.fees \in [Ids -> SUBSET FeeSettings]
         /\ m.center = n.center => m.center \in Seq(Operators) /\ IsInjective(m.center)
         /\ m.registry = n.registry =>
              m.registry \in [DOMAIN m.registry -> Nat] /\ DOMAIN m.registry \subseteq Operators
         /\ m.policies = n.policies => m.policies \in 0 .. MaxPolicies
         /\ m.sample = n.sample /\ m.policies = n.policies =>
              m.sample \in 0 .. m.policies
         /\ m.setUp = n.setUp => m.setUp \in [Policies -> SUBSET SetUpItems]
         /\ m.metadata = n.metadata =>
              m.metadata \in [Policies -> MetadataURIs \cup {Original, Unregistered}]
         /\ m.subnets = n.subnets => m.subnets \in [Policies -> Range(m.subnets)]
         /\ m.subnets = n.subnets /\ Len(n.restricted) <= Len(m.restricted)
                /\ Len(m.restricted) \in Nat /\ Len(n.restricted) \in Nat =>
              \A policy \in Policies :
                /\ DOMAIN m.subnets[policy] \subseteq 0 .. Len(m.restricted)
                /\ m.subnets[policy] \in [DOMAIN m.subnets[policy] -> SUBSET Nat]
BY FlowAssumption, ChainFields DEF ChainTypeOK

\* What a call may do: nothing that was set up, registered or paid for goes
\* away; without a transaction all but the deployments file stays; and a
\* transaction has one event at most, a registration if the policy is new.
Improves(n, m) ==
  /\ m.height \in {n.height, n.height + 1}
  /\ m.height = n.height => \A f \in Fields \ {"sample"} : m[f] = n[f]
  /\ n.policies <= m.policies /\ Len(n.restricted) <= Len(m.restricted)
  /\ \A policy \in Policies : /\ n.setUp[policy] \subseteq m.setUp[policy]
                              /\ IsKnown(n, policy) => IsKnown(m, policy)
  /\ \A id \in Ids : n.fees[id] \subseteq m.fees[id]
  /\ \/ m.log = n.log /\ m.metadata = n.metadata
     \/ \E v \in Events :
          /\ m.log = n.log \cup {v} /\ v.block = m.height /\ m.height = n.height + 1
          /\ m.metadata = [n.metadata EXCEPT ![v.policy] = v.metadata]
          /\ v.name = "ProtocolRegistered" <=> ~IsKnown(n, v.policy)

\* A definition is created, or its attesters are changed.
LEMMA RestrictedChanges ==
  ASSUME NEW n, ChainTypeOK(n), NEW value \in Seq(SUBSET Nat),
         Len(n.restricted) <= Len(value), Len(value) <= MaxDefinitions,
         NEW m, m = [Mined(n) EXCEPT !.restricted = value]
  PROVE  ChainTypeOK(m) /\ Improves(n, m)
<1>1. /\ DOMAIN m = Fields /\ m = [f \in Fields |-> m[f]]
      /\ m.height = n.height + 1 /\ m.restricted = value
      /\ \A f \in Fields \ {"height", "restricted"} : m[f] = n[f]
  BY ChainFields DEF Mined, Fields
<1>2. /\ m.log = n.log /\ m.multisig = n.multisig /\ m.fees = n.fees
      /\ m.center = n.center /\ m.registry = n.registry
      /\ m.policies = n.policies /\ m.sample = n.sample /\ m.setUp = n.setUp
      /\ m.metadata = n.metadata /\ m.subnets = n.subnets
  BY <1>1 DEF Fields
<1>3. n.height \in Nat /\ Len(n.restricted) \in Nat
  BY ChainFields
<1>4. Len(m.restricted) \in Nat
      /\ m.restricted \in Seq(SUBSET Nat)
  BY <1>1, ChainFields
<1>5. /\ IsInjective(m.center) /\ DOMAIN m.registry \subseteq Operators
      /\ Len(m.restricted) \in Nat /\ Len(m.restricted) <= MaxDefinitions
      /\ \A p \in Policies :
           /\ IsKnown(m, p) => p <= m.policies
           /\ DOMAIN m.subnets[p] \subseteq 0 .. Len(m.restricted)
           /\ m.subnets[p] \in [DOMAIN m.subnets[p] -> SUBSET Nat]
  BY <1>1, <1>2, <1>3, <1>4, ChainBooks DEF IsKnown
<1>6. ChainTypeOK(m)
  <2>1. m.height \in Nat
    BY ONLY <1>1, <1>3
  <2>2. /\ m.log \subseteq Events /\ m.multisig \in {"deployer", "successor"}
        /\ m.fees \in [Ids -> SUBSET FeeSettings] /\ m.center \in Seq(Operators)
        /\ m.registry \in [DOMAIN m.registry -> Nat]
        /\ m.policies \in 0 .. MaxPolicies /\ m.sample \in 0 .. m.policies
        /\ m.setUp \in [Policies -> SUBSET SetUpItems]
        /\ m.metadata \in [Policies -> MetadataURIs \cup {Original, Unregistered}]
        /\ m.subnets \in [Policies -> Range(m.subnets)]
    BY <1>2, SameFields
  <2>. QED
    BY <1>1, <2>1, <2>2, <1>3, <1>4, <1>5, ChainOfFields
<1>7. Improves(n, m)
  BY <1>1, <1>2, <1>3, ChainFields DEF Improves, IsKnown
<1>. QED
  BY <1>6, <1>7

\* A fee of a definition is set.
LEMMA FeesChange ==
  ASSUME NEW n, ChainTypeOK(n), NEW value \in [Ids -> SUBSET FeeSettings],
         \A id \in Ids : n.fees[id] \subseteq value[id],
         NEW m, m = [Mined(n) EXCEPT !.fees = value]
  PROVE  ChainTypeOK(m) /\ Improves(n, m)
<1>1. /\ DOMAIN m = Fields /\ m = [f \in Fields |-> m[f]]
      /\ m.height = n.height + 1 /\ m.fees = value
      /\ \A f \in Fields \ {"height", "fees"} : m[f] = n[f]
  BY ChainFields DEF Mined, Fields
<1>2. /\ m.log = n.log /\ m.multisig = n.multisig /\ m.restricted = n.restricted
      /\ m.center = n.center /\ m.registry = n.registry
      /\ m.policies = n.policies /\ m.sample = n.sample /\ m.setUp = n.setUp
      /\ m.metadata = n.metadata /\ m.subnets = n.subnets
  BY <1>1 DEF Fields
<1>3. n.height \in Nat /\ Len(n.restricted) \in Nat
  BY ChainFields
<1>4. m.fees \in [Ids -> SUBSET FeeSettings]
  BY <1>1, ChainFields
<1>5. /\ IsInjective(m.center) /\ DOMAIN m.registry \subseteq Operators
      /\ Len(m.restricted) \in Nat /\ Len(m.restricted) <= MaxDefinitions
      /\ \A p \in Policies :
           /\ IsKnown(m, p) => p <= m.policies
           /\ DOMAIN m.subnets[p] \subseteq 0 .. Len(m.restricted)
           /\ m.subnets[p] \in [DOMAIN m.subnets[p] -> SUBSET Nat]
  BY <1>1, <1>2, ChainBooks DEF IsKnown
<1>6. ChainTypeOK(m)
  <2>1. m.height \in Nat
    BY ONLY <1>1, <1>3
  <2>2. /\ m.log \subseteq Events /\ m.multisig \in {"deployer", "successor"}
        /\ m.restricted \in Seq(SUBSET Nat) /\ m.center \in Seq(Operators)
        /\ m.registry \in [DOMAIN m.registry -> Nat]
        /\ m.policies \in 0 .. MaxPolicies /\ m.sample \in 0 .. m.policies
        /\ m.setUp \in [Policies -> SUBSET SetUpItems]
        /\ m.metadata \in [Policies -> MetadataURIs \cup {Original, Unregistered}]
        /\ m.subnets \in [Policies -> Range(m.subnets)]
    BY <1>2, SameFields
  <2>. QED
    BY <1>1, <2>1, <2>2, <1>3, <1>4, <1>5, ChainOfFields
<1>7. Improves(n, m)
  BY <1>1, <1>2, <1>3, ChainFields DEF Improves, IsKnown
<1>. QED
  BY <1>6, <1>7

\* The multisig is handed over.
LEMMA MultisigChanges ==
  ASSUME NEW n, ChainTypeOK(n), NEW m, m = [Mined(n) EXCEPT !.multisig = "successor"]
  PROVE  ChainTypeOK(m) /\ Improves(n, m)
<1>1. /\ DOMAIN m = Fields /\ m = [f \in Fields |-> m[f]]
      /\ m.height = n.height + 1 /\ m.multisig = "successor"
      /\ \A f \in Fields \ {"height", "multisig"} : m[f] = n[f]
  BY ChainFields DEF Mined, Fields
<1>2. /\ m.log = n.log /\ m.restricted = n.restricted /\ m.fees = n.fees
      /\ m.center = n.center /\ m.registry = n.registry
      /\ m.policies = n.policies /\ m.sample = n.sample /\ m.setUp = n.setUp
      /\ m.metadata = n.metadata /\ m.subnets = n.subnets
  BY <1>1 DEF Fields
<1>3. n.height \in Nat /\ Len(n.restricted) \in Nat
  BY ChainFields
<1>4. m.multisig \in {"deployer", "successor"}
  BY <1>1, ChainFields
<1>5. /\ IsInjective(m.center) /\ DOMAIN m.registry \subseteq Operators
      /\ Len(m.restricted) \in Nat /\ Len(m.restricted) <= MaxDefinitions
      /\ \A p \in Policies :
           /\ IsKnown(m, p) => p <= m.policies
           /\ DOMAIN m.subnets[p] \subseteq 0 .. Len(m.restricted)
           /\ m.subnets[p] \in [DOMAIN m.subnets[p] -> SUBSET Nat]
  BY <1>1, <1>2, ChainBooks DEF IsKnown
<1>6. ChainTypeOK(m)
  <2>1. m.height \in Nat
    BY ONLY <1>1, <1>3
  <2>2. /\ m.log \subseteq Events /\ m.restricted \in Seq(SUBSET Nat)
        /\ m.fees \in [Ids -> SUBSET FeeSettings] /\ m.center \in Seq(Operators)
        /\ m.registry \in [DOMAIN m.registry -> Nat]
        /\ m.policies \in 0 .. MaxPolicies /\ m.sample \in 0 .. m.policies
        /\ m.setUp \in [Policies -> SUBSET SetUpItems]
        /\ m.metadata \in [Policies -> MetadataURIs \cup {Original, Unregistered}]
        /\ m.subnets \in [Policies -> Range(m.subnets)]
    BY <1>2, SameFields
  <2>. QED
    BY <1>1, <2>1, <2>2, <1>3, <1>4, <1>5, ChainOfFields
<1>7. Improves(n, m)
  BY <1>1, <1>2, <1>3, ChainFields DEF Improves, IsKnown
<1>. QED
  BY <1>6, <1>7

\* The subscriptions of a policy change.
LEMMA SubnetsChange ==
  ASSUME NEW n, ChainTypeOK(n), NEW policy \in Policies, NEW value,
         DOMAIN value \subseteq 0 .. Len(n.restricted), value \in [DOMAIN value -> SUBSET Nat],
         NEW m, m = [Mined(n) EXCEPT !.subnets[policy] = value]
  PROVE  ChainTypeOK(m) /\ Improves(n, m)
<1>1. /\ DOMAIN m = Fields /\ m = [f \in Fields |-> m[f]]
      /\ m.height = n.height + 1 /\ m.subnets = [n.subnets EXCEPT ![policy] = value]
      /\ \A f \in Fields \ {"height", "subnets"} : m[f] = n[f]
  BY ChainFields DEF Mined, Fields
<1>2. /\ m.log = n.log /\ m.multisig = n.multisig /\ m.restricted = n.restricted
      /\ m.fees = n.fees /\ m.center = n.center /\ m.registry = n.registry
      /\ m.policies = n.policies /\ m.sample = n.sample /\ m.setUp = n.setUp
      /\ m.metadata = n.metadata
  BY <1>1 DEF Fields
<1>3. n.height \in Nat /\ Len(n.restricted) \in Nat
  BY ChainFields
<1>4. m.subnets \in [Policies -> Range(m.subnets)]
  <2>1. DOMAIN m.subnets = Policies /\ m.subnets = [p \in Policies |-> m.subnets[p]]
    BY <1>1, ChainFields
  <2>2. \A p \in Policies : m.subnets[p] \in Range(m.subnets)
    BY <2>1 DEF Range
  <2>. QED
    BY <2>1, <2>2
<1>5. /\ IsInjective(m.center) /\ DOMAIN m.registry \subseteq Operators
      /\ Len(m.restricted) \in Nat /\ Len(m.restricted) <= MaxDefinitions
      /\ \A p \in Policies :
           /\ IsKnown(m, p) => p <= m.policies
           /\ DOMAIN m.subnets[p] \subseteq 0 .. Len(m.restricted)
           /\ m.subnets[p] \in [DOMAIN m.subnets[p] -> SUBSET Nat]
  <2>1. \A p \in Policies : m.subnets[p] = IF p = policy THEN value ELSE n.subnets[p]
    BY <1>1, ChainFields
  <2>2. \A p \in Policies : /\ DOMAIN m.subnets[p] \subseteq 0 .. Len(n.restricted)
                            /\ m.subnets[p] \in [DOMAIN m.subnets[p] -> SUBSET Nat]
    BY <2>1, ChainBooks
  <2>. QED
    BY <1>2, <2>2, ChainBooks DEF IsKnown
<1>6. ChainTypeOK(m)
  <2>1. m.height \in Nat
    BY ONLY <1>1, <1>3
  <2>2. /\ m.log \subseteq Events /\ m.multisig \in {"deployer", "successor"}
        /\ m.restricted \in Seq(SUBSET Nat)
        /\ m.fees \in [Ids -> SUBSET FeeSettings] /\ m.center \in Seq(Operators)
        /\ m.registry \in [DOMAIN m.registry -> Nat]
        /\ m.policies \in 0 .. MaxPolicies /\ m.sample \in 0 .. m.policies
        /\ m.setUp \in [Policies -> SUBSET SetUpItems]
        /\ m.metadata \in [Policies -> MetadataURIs \cup {Original, Unregistered}]
    BY <1>2, SameFields
  <2>. QED
    BY <1>1, <2>1, <2>2, <1>3, <1>4, <1>5, ChainOfFields
<1>7. Improves(n, m)
  BY <1>1, <1>2, <1>3, ChainFields DEF Improves, IsKnown
<1>. QED
  BY <1>6, <1>7

\* A policy is deployed.
LEMMA PoliciesGrow ==
  ASSUME NEW n, ChainTypeOK(n), n.policies + 1 <= MaxPolicies,
         NEW m, m = [Mined(n) EXCEPT !.policies = n.policies + 1]
  PROVE  ChainTypeOK(m) /\ Improves(n, m)
<1>1. /\ DOMAIN m = Fields /\ m = [f \in Fields |-> m[f]]
      /\ m.height = n.height + 1 /\ m.policies = n.policies + 1 /\ m.sample = n.sample
      /\ \A f \in Fields \ {"height", "policies", "sample"} : m[f] = n[f]
  BY ChainFields DEF Mined, Fields
<1>2. /\ m.log = n.log /\ m.multisig = n.multisig /\ m.restricted = n.restricted
      /\ m.fees = n.fees /\ m.center = n.center /\ m.registry = n.registry
      /\ m.setUp = n.setUp /\ m.metadata = n.metadata /\ m.subnets = n.subnets
  BY <1>1 DEF Fields
<1>3. n.height \in Nat /\ Len(n.restricted) \in Nat
  BY ChainFields
<1>4. m.policies \in 0 .. MaxPolicies /\ m.sample \in 0 .. m.policies /\ n.policies <= m.policies
  BY <1>1, ChainFields, FlowAssumption
<1>5. /\ IsInjective(m.center) /\ DOMAIN m.registry \subseteq Operators
      /\ Len(m.restricted) \in Nat /\ Len(m.restricted) <= MaxDefinitions
      /\ \A p \in Policies :
           /\ IsKnown(m, p) => p <= m.policies
           /\ DOMAIN m.subnets[p] \subseteq 0 .. Len(m.restricted)
           /\ m.subnets[p] \in [DOMAIN m.subnets[p] -> SUBSET Nat]
  <2>1. n.policies \in Nat /\ m.policies = n.policies + 1
    BY <1>1, ChainFields
  <2>2. \A p \in Policies : IsKnown(m, p) => p <= m.policies
    <3>1. \A p \in Policies : p \in Nat /\ (IsKnown(m, p) => p <= n.policies)
      BY <1>2, ChainBooks DEF IsKnown, Policies
    <3>. QED
      BY <2>1, <3>1
  <2>. QED
    BY <1>2, <2>2, ChainBooks
<1>6. ChainTypeOK(m)
  <2>1. m.height \in Nat
    BY ONLY <1>1, <1>3
  <2>2. /\ m.log \subseteq Events /\ m.multisig \in {"deployer", "successor"}
        /\ m.restricted \in Seq(SUBSET Nat)
        /\ m.fees \in [Ids -> SUBSET FeeSettings] /\ m.center \in Seq(Operators)
        /\ m.registry \in [DOMAIN m.registry -> Nat]
        /\ m.setUp \in [Policies -> SUBSET SetUpItems]
        /\ m.metadata \in [Policies -> MetadataURIs \cup {Original, Unregistered}]
        /\ m.subnets \in [Policies -> Range(m.subnets)]
    BY <1>2, SameFields
  <2>. QED
    BY <1>1, <2>1, <2>2, <1>3, <1>4, <1>5, ChainOfFields
<1>7. Improves(n, m)
  BY <1>1, <1>2, <1>3, ChainFields DEF Improves, IsKnown
<1>. QED
  BY <1>6, <1>7

\* An item of a policy is set up.
LEMMA SetUpGrows ==
  ASSUME NEW n, ChainTypeOK(n), NEW value \in [Policies -> SUBSET SetUpItems],
         \A policy \in Policies : n.setUp[policy] \subseteq value[policy],
         NEW m, m = [Mined(n) EXCEPT !.setUp = value]
  PROVE  ChainTypeOK(m) /\ Improves(n, m)
<1>1. /\ DOMAIN m = Fields /\ m = [f \in Fields |-> m[f]]
      /\ m.height = n.height + 1 /\ m.setUp = value
      /\ \A f \in Fields \ {"height", "setUp"} : m[f] = n[f]
  BY ChainFields DEF Mined, Fields
<1>2. /\ m.log = n.log /\ m.multisig = n.multisig /\ m.restricted = n.restricted
      /\ m.fees = n.fees /\ m.center = n.center /\ m.registry = n.registry
      /\ m.policies = n.policies /\ m.sample = n.sample
      /\ m.metadata = n.metadata /\ m.subnets = n.subnets
  BY <1>1 DEF Fields
<1>3. n.height \in Nat /\ Len(n.restricted) \in Nat
  BY ChainFields
<1>4. m.setUp \in [Policies -> SUBSET SetUpItems]
  BY <1>1
<1>5. /\ IsInjective(m.center) /\ DOMAIN m.registry \subseteq Operators
      /\ Len(m.restricted) \in Nat /\ Len(m.restricted) <= MaxDefinitions
      /\ \A p \in Policies :
           /\ IsKnown(m, p) => p <= m.policies
           /\ DOMAIN m.subnets[p] \subseteq 0 .. Len(m.restricted)
           /\ m.subnets[p] \in [DOMAIN m.subnets[p] -> SUBSET Nat]
  BY <1>1, <1>2, ChainBooks DEF IsKnown
<1>6. ChainTypeOK(m)
  <2>1. m.height \in Nat
    BY ONLY <1>1, <1>3
  <2>2. /\ m.log \subseteq Events /\ m.multisig \in {"deployer", "successor"}
        /\ m.restricted \in Seq(SUBSET Nat)
        /\ m.fees \in [Ids -> SUBSET FeeSettings] /\ m.center \in Seq(Operators)
        /\ m.registry \in [DOMAIN m.registry -> Nat]
        /\ m.policies \in 0 .. MaxPolicies /\ m.sample \in 0 .. m.policies
        /\ m.metadata \in [Policies -> MetadataURIs \cup {Original, Unregistered}]
        /\ m.subnets \in [Policies -> Range(m.subnets)]
    BY <1>2, SameFields
  <2>. QED
    BY <1>1, <2>1, <2>2, <1>3, <1>4, <1>5, ChainOfFields
<1>7. Improves(n, m)
  BY <1>1, <1>2, <1>3, ChainFields DEF Improves, IsKnown
<1>. QED
  BY <1>6, <1>7

\* The sample policy is put into the deployments file.
LEMMA SampleChanges ==
  ASSUME NEW n, ChainTypeOK(n), NEW policy \in 0 .. n.policies,
         NEW m, m = [n EXCEPT !.sample = policy]
  PROVE  ChainTypeOK(m) /\ Improves(n, m)
<1>1. /\ DOMAIN m = Fields /\ m = [f \in Fields |-> m[f]]
      /\ m.height = n.height /\ m.sample = policy
      /\ \A f \in Fields \ {"sample"} : m[f] = n[f]
  BY ChainFields DEF Mined, Fields
<1>2. /\ m.log = n.log /\ m.multisig = n.multisig /\ m.restricted = n.restricted
      /\ m.fees = n.fees /\ m.center = n.center /\ m.registry = n.registry
      /\ m.policies = n.policies /\ m.setUp = n.setUp /\ m.metadata = n.metadata
      /\ m.subnets = n.subnets
  BY <1>1 DEF Fields
<1>3. n.height \in Nat /\ Len(n.restricted) \in Nat
  BY ChainFields
<1>4. m.sample \in 0 .. m.policies
  BY <1>1, <1>2, ChainFields
<1>5. /\ IsInjective(m.center) /\ DOMAIN m.registry \subseteq Operators
      /\ Len(m.restricted) \in Nat /\ Len(m.restricted) <= MaxDefinitions
      /\ \A p \in Policies :
           /\ IsKnown(m, p) => p <= m.policies
           /\ DOMAIN m.subnets[p] \subseteq 0 .. Len(m.restricted)
           /\ m.subnets[p] \in [DOMAIN m.subnets[p] -> SUBSET Nat]
  BY <1>1, <1>2, ChainBooks DEF IsKnown
<1>6. ChainTypeOK(m)
  <2>1. m.height \in Nat
    BY ONLY <1>1, <1>3
  <2>2. /\ m.log \subseteq Events /\ m.multisig \in {"deployer", "successor"}
        /\ m.restricted \in Seq(SUBSET Nat)
        /\ m.fees \in [Ids -> SUBSET FeeSettings] /\ m.center \in Seq(Operators)
        /\ m.registry \in [DOMAIN m.registry -> Nat]
        /\ m.policies \in 0 .. MaxPolicies
        /\ m.setUp \in [Policies -> SUBSET SetUpItems]
        /\ m.metadata \in [Policies -> MetadataURIs \cup {Original, Unregistered}]
        /\ m.subnets \in [Policies -> Range(m.subnets)]
    BY <1>2, SameFields
  <2>. QED
    BY <1>1, <2>1, <2>2, <1>3, <1>4, <1>5, ChainOfFields
<1>7. Improves(n, m)
  BY <1>1, <1>2, <1>3, ChainFields DEF Improves, IsKnown
<1>. QED
  BY <1>6, <1>7

\* An operator is registered.
LEMMA RegistryChanges ==
  ASSUME NEW n, ChainTypeOK(n), NEW value, value \in [DOMAIN value -> Nat],
         DOMAIN value \subseteq Operators,
         NEW m, m = [Mined(n) EXCEPT !.registry = value]
  PROVE  ChainTypeOK(m) /\ Improves(n, m)
<1>1. /\ DOMAIN m = Fields /\ m = [f \in Fields |-> m[f]]
      /\ m.height = n.height + 1 /\ m.registry = value
      /\ \A f \in Fields \ {"height", "registry"} : m[f] = n[f]
  BY ChainFields DEF Mined, Fields
<1>2. /\ m.log = n.log /\ m.multisig = n.multisig /\ m.restricted = n.restricted
      /\ m.fees = n.fees /\ m.center = n.center /\ m.policies = n.policies
      /\ m.sample = n.sample /\ m.setUp = n.setUp /\ m.metadata = n.metadata
      /\ m.subnets = n.subnets
  BY <1>1 DEF Fields
<1>3. n.height \in Nat /\ Len(n.restricted) \in Nat
  BY ChainFields
<1>4. m.registry \in [DOMAIN m.registry -> Nat]
  BY <1>1, ChainFields
<1>5. /\ IsInjective(m.center) /\ DOMAIN m.registry \subseteq Operators
      /\ Len(m.restricted) \in Nat /\ Len(m.restricted) <= MaxDefinitions
      /\ \A p \in Policies :
           /\ IsKnown(m, p) => p <= m.policies
           /\ DOMAIN m.subnets[p] \subseteq 0 .. Len(m.restricted)
           /\ m.subnets[p] \in [DOMAIN m.subnets[p] -> SUBSET Nat]
  BY <1>1, <1>2, ChainBooks DEF IsKnown
<1>6. ChainTypeOK(m)
  <2>1. m.height \in Nat
    BY ONLY <1>1, <1>3
  <2>2. /\ m.log \subseteq Events /\ m.multisig \in {"deployer", "successor"}
        /\ m.restricted \in Seq(SUBSET Nat)
        /\ m.fees \in [Ids -> SUBSET FeeSettings] /\ m.center \in Seq(Operators)
        /\ m.policies \in 0 .. MaxPolicies /\ m.sample \in 0 .. m.policies
        /\ m.setUp \in [Policies -> SUBSET SetUpItems]
        /\ m.metadata \in [Policies -> MetadataURIs \cup {Original, Unregistered}]
        /\ m.subnets \in [Policies -> Range(m.subnets)]
    BY <1>2, SameFields
  <2>. QED
    BY <1>1, <2>1, <2>2, <1>3, <1>4, <1>5, ChainOfFields
<1>7. Improves(n, m)
  BY <1>1, <1>2, <1>3, ChainFields DEF Improves, IsKnown
<1>. QED
  BY <1>6, <1>7

\* A transaction is mined.
LEMMA HeightGrows ==
  ASSUME NEW n, ChainTypeOK(n), NEW m, m = Mined(n)
  PROVE  ChainTypeOK(m) /\ Improves(n, m)
<1>1. /\ DOMAIN m = Fields /\ m = [f \in Fields |-> m[f]]
      /\ m.height = n.height + 1
      /\ \A f \in Fields \ {"height"} : m[f] = n[f]
  BY ChainFields DEF Mined, Fields
<1>2. /\ m.log = n.log /\ m.multisig = n.multisig /\ m.restricted = n.restricted
      /\ m.fees = n.fees /\ m.center = n.center /\ m.registry = n.registry
      /\ m.policies = n.policies /\ m.sample = n.sample /\ m.setUp = n.setUp
      /\ m.metadata = n.metadata /\ m.subnets = n.subnets
  BY <1>1 DEF Fields
<1>3. n.height \in Nat /\ Len(n.restricted) \in Nat
  BY ChainFields
<1>4. /\ IsInjective(m.center) /\ DOMAIN m.registry \subseteq Operators
      /\ Len(m.restricted) \in Nat /\ Len(m.restricted) <= MaxDefinitions
      /\ \A p \in Policies :
           /\ IsKnown(m, p) => p <= m.policies
           /\ DOMAIN m.subnets[p] \subseteq 0 .. Len(m.restricted)
           /\ m.subnets[p] \in [DOMAIN m.subnets[p] -> SUBSET Nat]
  BY <1>1, <1>2, ChainBooks DEF IsKnown
<1>5. ChainTypeOK(m)
  <2>1. m.height \in Nat
    BY ONLY <1>1, <1>3
  <2>2. /\ m.log \subseteq Events /\ m.multisig \in {"deployer", "successor"}
        /\ m.restricted \in Seq(SUBSET Nat)
        /\ m.fees \in [Ids -> SUBSET FeeSettings] /\ m.center \in Seq(Operators)
        /\ m.registry \in [DOMAIN m.registry -> Nat]
        /\ m.policies \in 0 .. MaxPolicies /\ m.sample \in 0 .. m.policies
        /\ m.setUp \in [Policies -> SUBSET SetUpItems]
        /\ m.metadata \in [Policies -> MetadataURIs \cup {Original, Unregistered}]
        /\ m.subnets \in [Policies -> Range(m.subnets)]
    BY <1>2, SameFields
  <2>. QED
    BY <1>1, <2>1, <2>2, <1>3, <1>4, ChainOfFields
<1>6. Improves(n, m)
  <2>1. /\ m.height = n.height + 1 /\ m.height # n.height /\ n.policies <= m.policies
        /\ Len(n.restricted) <= Len(m.restricted)
    BY <1>1, <1>2, <1>3, ChainFields
  <2>. QED
    BY <1>2, <2>1 DEF Improves, IsKnown
<1>. QED
  BY <1>5, <1>6

\* The center learns of an operator.
LEMMA CenterGrows ==
  ASSUME NEW n, ChainTypeOK(n), NEW operator \in Operators, operator \notin Range(n.center),
         NEW m, m = [Mined(n) EXCEPT !.center = Append(@, operator)]
  PROVE  ChainTypeOK(m) /\ Improves(n, m)
<1>1. /\ DOMAIN m = Fields /\ m = [f \in Fields |-> m[f]]
      /\ m.height = n.height + 1 /\ m.center = Append(n.center, operator)
      /\ \A f \in Fields \ {"height", "center"} : m[f] = n[f]
  BY ChainFields DEF Mined, Fields
<1>2. /\ m.log = n.log /\ m.multisig = n.multisig /\ m.restricted = n.restricted
      /\ m.fees = n.fees /\ m.registry = n.registry /\ m.policies = n.policies
      /\ m.sample = n.sample /\ m.setUp = n.setUp /\ m.metadata = n.metadata
      /\ m.subnets = n.subnets
  BY <1>1 DEF Fields
<1>3. n.height \in Nat /\ Len(n.restricted) \in Nat
  BY ChainFields
<1>4. m.center \in Seq(Operators)
  <2>1. n.center \in Seq(Operators)
    BY ChainFields
  <2>2. Append(n.center, operator) \in Seq(Operators)
    BY <2>1
  <2>. QED
    BY <1>1, <2>2
<1>5. IsInjective(m.center)
  <2>1. n.center \in Seq(Operators) /\ IsInjective(n.center)
    BY ChainFields DEF ChainTypeOK
  <2>2. IsInjective(Append(n.center, operator))
    BY <2>1 DEF IsInjective, Range
  <2>. QED
    BY <1>1, <2>2
<1>6. /\ IsInjective(m.center) /\ DOMAIN m.registry \subseteq Operators
      /\ Len(m.restricted) \in Nat /\ Len(m.restricted) <= MaxDefinitions
      /\ \A p \in Policies :
           /\ IsKnown(m, p) => p <= m.policies
           /\ DOMAIN m.subnets[p] \subseteq 0 .. Len(m.restricted)
           /\ m.subnets[p] \in [DOMAIN m.subnets[p] -> SUBSET Nat]
  BY <1>1, <1>2, <1>5, ChainBooks DEF IsKnown
<1>7. ChainTypeOK(m)
  <2>1. m.height \in Nat
    BY ONLY <1>1, <1>3
  <2>2. /\ m.log \subseteq Events /\ m.multisig \in {"deployer", "successor"}
        /\ m.restricted \in Seq(SUBSET Nat)
        /\ m.fees \in [Ids -> SUBSET FeeSettings]
        /\ m.registry \in [DOMAIN m.registry -> Nat]
        /\ m.policies \in 0 .. MaxPolicies /\ m.sample \in 0 .. m.policies
        /\ m.setUp \in [Policies -> SUBSET SetUpItems]
        /\ m.metadata \in [Policies -> MetadataURIs \cup {Original, Unregistered}]
        /\ m.subnets \in [Policies -> Range(m.subnets)]
    BY <1>2, SameFields
  <2>. QED
    BY <1>1, <2>1, <2>2, <1>3, <1>4, <1>5, <1>6, ChainOfFields
<1>8. Improves(n, m)
  BY <1>1, <1>2, <1>3, ChainFields DEF Improves, IsKnown
<1>. QED
  BY <1>7, <1>8

\* A policy is registered or its metadata updated.
LEMMA LogGrows ==
  ASSUME NEW n, ChainTypeOK(n), NEW name \in EventNames, NEW policy \in 1 .. n.policies,
         NEW metadata \in MetadataURIs \cup {Original},
         name = "ProtocolRegistered" <=> ~IsKnown(n, policy),
         NEW m, m = Emitted(n, name, policy, metadata)
  PROVE  ChainTypeOK(m) /\ Improves(n, m)
<1>1. /\ DOMAIN m = Fields /\ m = [f \in Fields |-> m[f]]
      /\ m.height = n.height + 1 /\ m.metadata = [n.metadata EXCEPT ![policy] = metadata]
      /\ \A f \in Fields \ {"height", "log", "metadata"} : m[f] = n[f]
  BY ChainFields DEF Emitted, Mined, Fields
<1>2. /\ m.multisig = n.multisig /\ m.restricted = n.restricted
      /\ m.fees = n.fees /\ m.center = n.center /\ m.registry = n.registry
      /\ m.policies = n.policies /\ m.sample = n.sample /\ m.setUp = n.setUp
      /\ m.subnets = n.subnets
  BY <1>1 DEF Fields
<1>3. n.height \in Nat /\ Len(n.restricted) \in Nat
  BY ChainFields
<1>4. m.log = n.log \cup {[ name |-> name, policy |-> policy, metadata |-> metadata,
                             block |-> n.height + 1 ]}
  BY ChainFields DEF Emitted, Mined, Fields
<1>5. policy \in Policies /\ policy <= n.policies
  BY ChainFields, FlowAssumption DEF Policies
<1>6. [ name |-> name, policy |-> policy, metadata |-> metadata, block |-> n.height + 1 ] \in Events
  BY <1>3, <1>5 DEF Events, EventNames
<1>7. m.log \subseteq Events
  BY <1>4, <1>6, ChainFields
<1>8. m.metadata \in [Policies -> MetadataURIs \cup {Original, Unregistered}]
  <2>1. n.metadata \in [Policies -> MetadataURIs \cup {Original, Unregistered}]
    BY ChainFields
  <2>2. [n.metadata EXCEPT ![policy] = metadata]
          \in [Policies -> MetadataURIs \cup {Original, Unregistered}]
    BY <2>1
  <2>. QED
    BY <1>1, <2>2
<1>9. /\ IsInjective(m.center) /\ DOMAIN m.registry \subseteq Operators
      /\ Len(m.restricted) \in Nat /\ Len(m.restricted) <= MaxDefinitions
      /\ \A p \in Policies :
           /\ IsKnown(m, p) => p <= m.policies
           /\ DOMAIN m.subnets[p] \subseteq 0 .. Len(m.restricted)
           /\ m.subnets[p] \in [DOMAIN m.subnets[p] -> SUBSET Nat]
  <2>1. \A p \in Policies : IsKnown(m, p) => IsKnown(n, p) \/ p = policy
    BY <1>1, ChainFields DEF IsKnown
  <2>. QED
    BY <1>2, <1>5, <2>1, ChainBooks
<1>10. ChainTypeOK(m)
  <2>1. m.height \in Nat
    BY ONLY <1>1, <1>3
  <2>2. /\ m.multisig \in {"deployer", "successor"}
        /\ m.restricted \in Seq(SUBSET Nat)
        /\ m.fees \in [Ids -> SUBSET FeeSettings] /\ m.center \in Seq(Operators)
        /\ m.registry \in [DOMAIN m.registry -> Nat]
        /\ m.policies \in 0 .. MaxPolicies /\ m.sample \in 0 .. m.policies
        /\ m.setUp \in [Policies -> SUBSET SetUpItems]
        /\ m.subnets \in [Policies -> Range(m.subnets)]
    BY <1>2, SameFields
  <2>3. DOMAIN m = Fields /\ m = [f \in Fields |-> m[f]]
    BY ONLY <1>1
  <2>. QED
    BY <1>7, <1>8, <1>9, <2>1, <2>2, <2>3, ChainOfFields
<1>11. Improves(n, m)
  <2>. DEFINE v == [ name |-> name, policy |-> policy, metadata |-> metadata,
                    block |-> n.height + 1 ]
  <2>1. /\ v \in Events /\ v.block = m.height /\ m.height = n.height + 1
        /\ m.log = n.log \cup {v} /\ m.metadata = [n.metadata EXCEPT ![v.policy] = v.metadata]
        /\ v.name = "ProtocolRegistered" <=> ~IsKnown(n, v.policy)
    BY <1>1, <1>4, <1>6
  <2>2. \A p \in Policies : IsKnown(n, p) => IsKnown(m, p)
    BY <1>1, ChainFields, FlowAssumption DEF IsKnown, Unregistered, Original
  <2>3. /\ m.height # n.height /\ n.policies <= m.policies
        /\ Len(n.restricted) <= Len(m.restricted)
    BY <1>1, <1>2, <1>3, ChainFields
  <2>. HIDE DEF v
  <2>. QED
    BY <1>2, <2>1, <2>2, <2>3 DEF Improves
<1>. QED
  BY <1>10, <1>11

\* A process, and what was put into its script.
CallerFields ==
  {"script", "at", "failed", "id", "made", "policy", "known", "required", "operator"}

CallerOK(n, q) ==
  /\ DOMAIN q = CallerFields /\ q.script \in DOMAIN Script
  /\ q.at \in Nat /\ q.id \in Nat /\ q.policy \in 0 .. n.policies /\ q.required \subseteq Nat
  /\ q.script = "registerOperator" /\ q.at # 0 => q.operator \in Operators

\* A subscription written into a policy's list of subnets.
LEMMA SubscribeTyped ==
  ASSUME NEW n, ChainTypeOK(n), NEW v, v.policy \in 0 .. n.policies, NEW required, required \subseteq Nat,
         NEW o \in Subscribe(1, required, n, v)
  PROVE  ChainTypeOK(o[1]) /\ Improves(n, o[1]) /\ o[2] = v
<1>. DEFINE value == Written(n.subnets[v.policy], 1, required)
            m == [Mined(n) EXCEPT !.subnets[v.policy] = value]
<1>1. /\ v.policy # 0 /\ 1 <= Len(n.restricted) /\ o[2] = v
      /\ o[1] = [Mined(n) EXCEPT !.subnets[v.policy] = Written(@, 1, required)]
  BY DEF Subscribe, Sent, IsAdmin, Nobody
<1>2. v.policy \in Policies
  BY <1>1, ChainFields, FlowAssumption DEF Policies
<1>3. o[1] = m
  BY <1>1, ChainFields DEF Mined, Fields
<1>4. DOMAIN value \subseteq 0 .. Len(n.restricted) /\ value \in [DOMAIN value -> SUBSET Nat]
  <2>1. /\ DOMAIN n.subnets[v.policy] \subseteq 0 .. Len(n.restricted)
        /\ n.subnets[v.policy] \in [DOMAIN n.subnets[v.policy] -> SUBSET Nat]
        /\ Len(n.restricted) \in Nat
    BY <1>2, ChainBooks
  <2>. QED
    BY <1>1, <2>1 DEF Written
<1>5. m = [Mined(n) EXCEPT !.subnets[v.policy] = value]
  OBVIOUS
<1>. HIDE DEF value, m
<1>. QED
  BY <1>1, <1>2, <1>3, <1>4, <1>5, SubnetsChange

\* Whatever a call does, the chain is as a chain should be, has lost nothing,
\* and the caller has kept what was put into its script.
LEMMA EffectTyped ==
  ASSUME NEW n, ChainTypeOK(n), NEW v, CallerOK(n, v), v.at \in 1 .. Len(Script[v.script]),
         NEW o \in Effect(Script[v.script][v.at], n, v), WithinBounds(o[1])
  PROVE  /\ ChainTypeOK(o[1]) /\ Improves(n, o[1]) /\ CallerOK(o[1], o[2])
         /\ o[2].script = v.script /\ o[2].at = v.at
<1>. DEFINE s == Script[v.script][v.at]
<1>0. /\ StatementOK(v.script, s) /\ n.policies \in Nat /\ MaxPolicies \in Nat
      /\ v.policy \in 0 .. n.policies /\ n.policies <= MaxPolicies
  BY ScriptLines, ChainFields, FlowAssumption DEF CallerOK
<1>a. ChainTypeOK(n) /\ Improves(n, n)
  BY ChainFields, ChainBooks DEF Improves
<1>b. ASSUME o[2] = v, n.policies <= o[1].policies, o[1].policies \in Nat
      PROVE  CallerOK(o[1], o[2]) /\ o[2].script = v.script /\ o[2].at = v.at
  BY <1>0, <1>b DEF CallerOK
<1>c. ASSUME o[2] = v, ChainTypeOK(o[1]), Improves(n, o[1])
      PROVE  /\ CallerOK(o[1], o[2]) /\ o[2].script = v.script /\ o[2].at = v.at
             /\ ChainTypeOK(o[1]) /\ Improves(n, o[1])
  <2>1. o[1].policies \in Nat
    BY <1>0, <1>c, ChainFields
  <2>2. n.policies <= o[1].policies
    BY <1>c DEF Improves
  <2>. QED
    BY <1>b, <1>c, <2>1, <2>2
<1>. HIDE DEF s
<1>1. CASE s[1] = "predict"
  <2>1. o[1] = n /\ o[2] = [v EXCEPT !.id = Len(n.restricted) + 1]
    BY <1>1 DEF s, Effect, Predict, Sent
  <2>. QED
    BY <2>1, <1>0, <1>a, ChainBooks DEF CallerOK, CallerFields
<1>2. CASE s[1] = "createDefinition"
  <2>. DEFINE value == Append(n.restricted, restrictedOperatorIndexes)
  <2>1. /\ o[1] = [Mined(n) EXCEPT !.restricted = value]
        /\ o[2] = [v EXCEPT !.made = @ \cup {Len(n.restricted) + 1}]
    <3>0. o \in CreateDefinition(n, v)
      BY <1>2 DEF s, Effect
    <3>1. /\ o[1] = [Mined(n) EXCEPT !.restricted = Append(@, restrictedOperatorIndexes)]
          /\ o[2] = [v EXCEPT !.made = @ \cup {Len(n.restricted) + 1}]
      <4>. DEFINE c == [Mined(n) EXCEPT !.restricted = Append(@, restrictedOperatorIndexes)]
                  w == [v EXCEPT !.made = @ \cup {Len(n.restricted) + 1}]
      <4>1. o = <<c, w>>
        BY <3>0, Zenon DEF CreateDefinition, Sent
      <4>. HIDE DEF c, w
      <4>2. o[1] = c /\ o[2] = w
        BY <4>1
      <4>. QED
        BY <4>2 DEF c, w
    <3>2. Mined(n).restricted = n.restricted
      BY ChainFields DEF Mined, Fields
    <3>. QED
      BY <3>1, <3>2, Zenon
  <2>2. value \in Seq(SUBSET Nat) /\ Len(n.restricted) <= Len(value)
    <3>1. n.restricted \in Seq(SUBSET Nat) /\ restrictedOperatorIndexes \in SUBSET Nat
      BY ChainFields DEF restrictedOperatorIndexes
    <3>. QED
      BY <3>1
  <2>3. o[1].restricted = value /\ o[1].policies = n.policies
    BY <2>1, ChainFields DEF Mined, Fields
  <2>. HIDE DEF value
  <2>4. ChainTypeOK(o[1]) /\ Improves(n, o[1])
    BY <2>1, <2>2, <2>3, RestrictedChanges DEF WithinBounds
  <2>. QED
    BY <2>1, <2>3, <2>4, <1>0 DEF CallerOK, CallerFields
<1>3. CASE s[1] = "setFee"
  <2>. DEFINE value == [n.fees EXCEPT ![v.id] = @ \cup {s[2]}]
  <2>1. o[1] = [Mined(n) EXCEPT !.fees = value] /\ o[2] = v
    BY <1>3, ChainFields DEF s, Effect, SetFee, Sent, Mined, Fields
  <2>2. value \in [Ids -> SUBSET FeeSettings] /\ \A id \in Ids : n.fees[id] \subseteq value[id]
    <3>1. n.fees \in [Ids -> SUBSET FeeSettings] /\ s[2] \in FeeSettings
      BY <1>0, <1>3, ChainFields DEF StatementOK
    <3>. QED
      BY <3>1
  <2>. HIDE DEF value
  <2>. QED
    BY <2>1, <2>2, <1>c, FeesChange
<1>4. CASE s[1] = "restrict"
  <2>. DEFINE value == [n.restricted EXCEPT ![1] = restrictedAttesters]
  <2>1. /\ o[1] = [Mined(n) EXCEPT !.restricted = value] /\ o[2] = v
        /\ 1 <= Len(n.restricted)
    <3>1. /\ o[1] = [Mined(n) EXCEPT !.restricted[1] = restrictedAttesters] /\ o[2] = v
          /\ 1 <= Len(n.restricted)
      BY <1>0, <1>4 DEF s, Effect, SetRestricted, Sent, StatementOK
    <3>2. Mined(n).restricted = n.restricted
      BY ChainFields DEF Mined, Fields
    <3>. QED
      BY <3>1, <3>2, Zenon
  <2>2. value \in Seq(SUBSET Nat) /\ Len(value) = Len(n.restricted)
    <3>1. /\ n.restricted \in Seq(SUBSET Nat) /\ restrictedAttesters \in SUBSET Nat
          /\ 1 \in 1 .. Len(n.restricted)
      BY <2>1, ChainFields DEF restrictedAttesters
    <3>. QED
      BY <3>1, ExceptSeq
  <2>. HIDE DEF value
  <2>3. Len(n.restricted) <= Len(value) /\ Len(value) <= MaxDefinitions
    BY <2>2, ChainBooks
  <2>. QED
    BY <2>1, <2>2, <2>3, <1>c, RestrictedChanges
<1>5. CASE s[1] = "transferMultisig"
  <2>1. o[1] = [Mined(n) EXCEPT !.multisig = "successor"] /\ o[2] = v
    BY <1>5 DEF s, Effect, TransferMultisig, Sent
  <2>. QED
    BY <2>1, <1>c, MultisigChanges
<1>6. CASE s[1] = "takeSample"
  <2>1. o[1] = n /\ o[2] = [v EXCEPT !.policy = n.sample]
    BY <1>6 DEF s, Effect, TakeSample, Sent
  <2>. QED
    BY <2>1, <1>0, <1>a, ChainFields DEF CallerOK, CallerFields
<1>7. CASE s[1] = "getProtocol"
  <2>1. o[1] = n /\ o[2] = [v EXCEPT !.known = IsKnown(n, v.policy)]
    BY <1>7 DEF s, Effect, GetProtocol, Sent
  <2>. QED
    BY <2>1, <1>0, <1>a DEF CallerOK, CallerFields
<1>8. ASSUME o \in Register(n, v)
      PROVE  /\ ChainTypeOK(o[1]) /\ Improves(n, o[1]) /\ CallerOK(o[1], o[2])
             /\ o[2].script = v.script /\ o[2].at = v.at
  <2>1. /\ o[1] = Emitted(n, "ProtocolRegistered", v.policy, Original) /\ o[2] = v
        /\ v.policy # 0 /\ ~IsKnown(n, v.policy)
    BY <1>8 DEF Register, Sent, IsAdmin, Nobody
  <2>2. v.policy \in 1 .. n.policies
    BY <1>0, <2>1
  <2>3. ChainTypeOK(o[1]) /\ Improves(n, o[1])
    BY <2>1, <2>2, LogGrows DEF EventNames
  <2>. QED
    BY <2>1, <2>3, <1>c
<1>9. CASE s[1] = "registerIfUnknown"
  <2>1. CASE v.known
    <3>1. o[1] = n /\ o[2] = v
      BY <1>9, <2>1 DEF s, Effect, RegisterIfUnknown, Sent
    <3>. QED
      BY <3>1, <1>a, <1>c
  <2>2. CASE ~v.known
    BY <1>8, <1>9, <2>2 DEF s, Effect, RegisterIfUnknown
  <2>. QED
    BY <2>1, <2>2
<1>10. CASE s[1] = "register"
  BY <1>8, <1>10 DEF s, Effect
<1>11. CASE s[1] = "subscribe"
  <2>1. o \in Subscribe(1, v.required, n, v) /\ v.required \subseteq Nat
    BY <1>0, <1>11 DEF s, Effect, StatementOK, CallerOK
  <2>. QED
    BY <2>1, <1>0, <1>c, SubscribeTyped
<1>12. CASE s[1] = "subscribeAny"
  <2>1. o \in Subscribe(1, {}, n, v)
    BY <1>0, <1>12 DEF s, Effect, StatementOK
  <2>. QED
    BY <2>1, <1>0, <1>c, SubscribeTyped
<1>13. CASE s[1] = "unsubscribe"
  <2>. DEFINE value == [i \in DOMAIN n.subnets[v.policy] \ {s[2]} |-> n.subnets[v.policy][i]]
  <2>1. /\ o[1] = [Mined(n) EXCEPT !.subnets[v.policy] = value] /\ o[2] = v /\ v.policy # 0
    BY <1>13, ChainFields DEF s, Effect, Unsubscribe, Sent, Mined, Fields, IsAdmin, Nobody
  <2>2. v.policy \in Policies
    BY <1>0, <2>1 DEF Policies
  <2>3. DOMAIN value \subseteq 0 .. Len(n.restricted) /\ value \in [DOMAIN value -> SUBSET Nat]
    <3>1. /\ DOMAIN n.subnets[v.policy] \subseteq 0 .. Len(n.restricted)
          /\ n.subnets[v.policy] \in [DOMAIN n.subnets[v.policy] -> SUBSET Nat]
      BY <2>2, ChainBooks
    <3>. QED
      BY <3>1
  <2>. HIDE DEF value
  <2>. QED
    BY <2>1, <2>2, <2>3, <1>c, SubnetsChange
<1>14. CASE s[1] = "deployPolicy"
  <2>1. /\ o[1] = [Mined(n) EXCEPT !.policies = n.policies + 1]
        /\ o[2] = [v EXCEPT !.policy = n.policies + 1]
    BY <1>14, ChainFields DEF s, Effect, DeployPolicy, Sent, Mined, Fields
  <2>2. o[1].policies = n.policies + 1
    BY <2>1, ChainFields DEF Mined, Fields
  <2>3. ChainTypeOK(o[1]) /\ Improves(n, o[1])
    BY <2>1, <2>2, PoliciesGrow DEF WithinBounds
  <2>. QED
    BY <2>1, <2>2, <2>3, <1>0 DEF CallerOK, CallerFields
<1>15. CASE s[1] = "setUp"
  <2>. DEFINE value == [n.setUp EXCEPT ![v.policy] = @ \cup {s[2]}]
  <2>1. o[1] = [Mined(n) EXCEPT !.setUp = value] /\ o[2] = v
    BY <1>15, ChainFields DEF s, Effect, SetUp, Sent, Mined, Fields
  <2>2. /\ value \in [Policies -> SUBSET SetUpItems]
        /\ \A policy \in Policies : n.setUp[policy] \subseteq value[policy]
    <3>1. n.setUp \in [Policies -> SUBSET SetUpItems] /\ s[2] \in SetUpItems
      BY <1>0, <1>15, ChainFields DEF StatementOK
    <3>. QED
      BY <3>1
  <2>. HIDE DEF value
  <2>. QED
    BY <2>1, <2>2, <1>c, SetUpGrows
<1>16. CASE s[1] = "publishSample"
  <2>1. o[1] = [n EXCEPT !.sample = v.policy] /\ o[2] = v
    BY <1>16 DEF s, Effect, PublishSample, Sent
  <2>. QED
    BY <2>1, <1>0, <1>c, SampleChanges
<1>17. CASE s[1] = "registerOperator"
  <2>. DEFINE value == Written(n.registry, v.operator, OperatorId(n, v.operator))
  <2>1. o[1] = [Mined(n) EXCEPT !.registry = value] /\ o[2] = v
    BY <1>17, ChainFields DEF s, Effect, RegisterOperator, Sent, Mined, Fields
  <2>2. v.operator \in Operators
    BY <1>0, <1>17 DEF StatementOK, CallerOK
  <2>3. OperatorId(n, v.operator) \in Nat
    <3>1. n.center \in Seq(Operators)
      BY ChainFields
    <3>. QED
      BY <3>1 DEF OperatorId, Range
  <2>4. DOMAIN value \subseteq Operators /\ value \in [DOMAIN value -> Nat]
    <3>1. n.registry \in [DOMAIN n.registry -> Nat] /\ DOMAIN n.registry \subseteq Operators
      BY ChainFields, ChainBooks
    <3>. QED
      BY <2>2, <2>3, <3>1 DEF Written
  <2>. HIDE DEF value
  <2>. QED
    BY <2>1, <2>4, <1>c, RegistryChanges
<1>18. CASE s[1] = "subscribeOperators"
  <2>1. o[1] = Mined(n) /\ o[2] = v
    BY <1>18 DEF s, Effect, SubscribeOperators, Sent
  <2>. QED
    BY <2>1, <1>c, HeightGrows
<1>. QED
  BY <1>1, <1>2, <1>3, <1>4, <1>5, <1>6, <1>7, <1>9, <1>10, <1>11, <1>12, <1>13, <1>14,
     <1>15, <1>16, <1>17, <1>18 DEF s, Effect

\* The sample policy of a migration that runs: what its statements did so far.
SampleProgress(n, q) ==
  q.script = "mockTestProtocols" /\ q.at > 1 =>
    /\ q.policy \in 1 .. n.policies
    /\ \A i \in 2 .. 4 : i < q.at => SampleItems[i - 1] \in n.setUp[q.policy]
    /\ \A i \in 5 .. 8 : i < q.at => ConsumerItems[i - 4] \in n.setUp[q.policy]
    /\ q.at > 9 => IsKnown(n, q.policy)

FlowInv ==
  /\ ChainTypeOK(net) /\ SampleSetUp(net)
  /\ \A p \in DOMAIN processes :
       CallerOK(net, processes[p]) /\ SampleProgress(net, processes[p])

\* What was set up stays set up, for whoever waits for a turn.
LEMMA ImprovedForOthers ==
  ASSUME NEW n, ChainTypeOK(n), NEW m, ChainTypeOK(m), Improves(n, m),
         NEW q, CallerOK(n, q), SampleProgress(n, q)
  PROVE  CallerOK(m, q) /\ SampleProgress(m, q)
<1>1. n.policies \in Nat /\ m.policies \in Nat /\ n.policies <= m.policies /\ n.policies <= MaxPolicies
  BY ChainFields, FlowAssumption DEF Improves
<1>2. CallerOK(m, q)
  BY <1>1 DEF CallerOK
<1>3. q.policy \in 1 .. n.policies => q.policy \in Policies /\ q.policy \in 1 .. m.policies
  BY <1>1, FlowAssumption DEF Policies
<1>4. SampleProgress(m, q)
  BY <1>3 DEF SampleProgress, Improves
<1>. QED
  BY <1>2, <1>4

\* As long as the file is not written, the sample policy in it is set up.
LEMMA SampleStays ==
  ASSUME NEW n, ChainTypeOK(n), NEW m, Improves(n, m), m.sample = n.sample, SampleSetUp(n)
  PROVE  SampleSetUp(m)
<1>1. n.sample # Nobody => n.sample \in Policies
  BY ChainFields, FlowAssumption DEF Policies, Nobody
<1>. QED
  BY <1>1 DEF SampleSetUp, Improves

\* Only one statement writes the file.
LEMMA FileIsKept ==
  ASSUME NEW n, ChainTypeOK(n), NEW s, s[1] # "publishSample", NEW v, NEW o \in Effect(s, n, v)
  PROVE  o[1].sample = n.sample
<1>0. /\ Mined(n).sample = n.sample /\ "sample" \in DOMAIN Mined(n)
      /\ \A name, policy, metadata : Emitted(n, name, policy, metadata).sample = n.sample
  BY ChainFields DEF Mined, Emitted, Fields
<1>1. CASE s[1] \in {"predict", "takeSample", "getProtocol"}
  BY <1>1 DEF Effect, Predict, TakeSample, GetProtocol, Sent
<1>2. CASE s[1] = "createDefinition"
  BY <1>0, <1>2 DEF Effect, CreateDefinition, Sent
<1>3. CASE s[1] = "setFee"
  BY <1>0, <1>3 DEF Effect, SetFee, Sent
<1>4. CASE s[1] = "restrict"
  BY <1>0, <1>4 DEF Effect, SetRestricted, Sent
<1>5. CASE s[1] = "transferMultisig"
  BY <1>0, <1>5 DEF Effect, TransferMultisig, Sent
<1>6. CASE s[1] \in {"register", "registerIfUnknown"}
  BY <1>0, <1>6 DEF Effect, Register, RegisterIfUnknown, Sent
<1>7. CASE s[1] \in {"subscribe", "subscribeAny"}
  BY <1>0, <1>7 DEF Effect, Subscribe, Sent
<1>8. CASE s[1] = "unsubscribe"
  BY <1>0, <1>8 DEF Effect, Unsubscribe, Sent
<1>9. CASE s[1] = "deployPolicy"
  BY <1>0, <1>9 DEF Effect, DeployPolicy, Sent
<1>10. CASE s[1] = "setUp"
  BY <1>0, <1>10 DEF Effect, SetUp, Sent
<1>11. CASE s[1] = "registerOperator"
  BY <1>0, <1>11 DEF Effect, RegisterOperator, Sent
<1>12. CASE s[1] = "subscribeOperators"
  BY <1>0, <1>12 DEF Effect, SubscribeOperators, Sent
<1>. QED
  BY <1>1, <1>2, <1>3, <1>4, <1>5, <1>6, <1>7, <1>8, <1>9, <1>10, <1>11, <1>12 DEF Effect

\* A statement of the migration does its part of what the sample needs.
LEMMA SampleAdvances ==
  ASSUME NEW n, ChainTypeOK(n), NEW v, CallerOK(n, v), SampleProgress(n, v),
         v.at \in 1 .. Len(Script[v.script]),
         NEW o \in Effect(Script[v.script][v.at], n, v), WithinBounds(o[1])
  PROVE  SampleProgress(o[1], [o[2] EXCEPT !.at = @ + 1])
<1>. DEFINE m == o[1]
            q == [o[2] EXCEPT !.at = @ + 1]
<1>1. /\ ChainTypeOK(m) /\ Improves(n, m) /\ CallerOK(m, o[2])
      /\ o[2].script = v.script /\ o[2].at = v.at
  BY EffectTyped
<1>2. q.script = v.script /\ q.at = v.at + 1 /\ q.policy = o[2].policy /\ v.at \in Nat
  BY <1>1 DEF CallerOK, CallerFields
<1>. HIDE DEF q
<1>3. SUFFICES ASSUME v.script = "mockTestProtocols" PROVE SampleProgress(m, q)
  <2>1. v.script # "mockTestProtocols" => SampleProgress(m, q)
    BY <1>2 DEF SampleProgress
  <2>. QED
    BY <1>3, <2>1 DEF q
<1>4. v.at \in 1 .. 10 /\ Script[v.script] = mockTestProtocols
  <2>1. Script["mockTestProtocols"] = mockTestProtocols
    BY DEF Script
  <2>. QED
    BY <1>3, <2>1, SampleLines
<1>5. /\ n.policies \in Nat /\ m.policies \in Nat /\ n.policies <= m.policies
      /\ n.policies <= MaxPolicies /\ MaxPolicies \in Nat
  BY <1>1, ChainFields, FlowAssumption DEF Improves
<1>6. CASE v.at = 1
  <2>1. o \in DeployPolicy(n, v)
    BY <1>4, <1>6, SampleLines DEF Effect
  <2>2. m.policies = n.policies + 1 /\ o[2].policy = n.policies + 1
    <3>1. o[1] = [Mined(n) EXCEPT !.policies = @ + 1] /\ o[2] = [v EXCEPT !.policy = n.policies + 1]
      BY <2>1 DEF DeployPolicy, Sent
    <3>. QED
      BY <3>1, ChainFields DEF Mined, Fields, CallerOK, CallerFields
  <2>. QED
    BY <1>2, <1>5, <1>6, <2>2 DEF SampleProgress
<1>7. ASSUME v.at > 1
      PROVE  /\ v.policy \in Policies /\ v.policy \in 1 .. m.policies
             /\ \A i \in 2 .. 4 : i < v.at => SampleItems[i - 1] \in m.setUp[v.policy]
             /\ \A i \in 5 .. 8 : i < v.at => ConsumerItems[i - 4] \in m.setUp[v.policy]
             /\ v.at > 9 => IsKnown(m, v.policy)
  <2>1. CallerOK(m, v) /\ SampleProgress(m, v) /\ v.policy \in 1 .. n.policies
    BY <1>1, <1>3, <1>7, ImprovedForOthers DEF SampleProgress
  <2>. QED
    BY <1>3, <1>5, <1>7, <2>1 DEF SampleProgress, Policies
<1>8. CASE v.at \in 2 .. 8
  <2>. DEFINE item == IF v.at <= 4 THEN SampleItems[v.at - 1] ELSE ConsumerItems[v.at - 4]
  <2>1. o \in SetUp(item, n, v)
    <3>1. mockTestProtocols[v.at] = <<"setUp", item>>
      BY <1>8, SampleLines
    <3>. HIDE DEF item
    <3>. QED
      BY <1>4, <3>1 DEF Effect
  <2>. HIDE DEF item
  <2>2. o[1] = [Mined(n) EXCEPT !.setUp[v.policy] = @ \cup {item}] /\ o[2] = v
    BY <2>1 DEF SetUp, Sent
  <2>3. item \in m.setUp[v.policy]
    <3>1. Mined(n).setUp = n.setUp /\ "setUp" \in DOMAIN Mined(n) /\ DOMAIN n.setUp = Policies
      BY ChainFields DEF Mined, Fields
    <3>2. v.policy \in Policies
      BY <1>7, <1>8
    <3>. QED
      BY <2>2, <3>1, <3>2
  <2>4. /\ \A i \in 2 .. 4 : i = v.at => SampleItems[i - 1] \in m.setUp[v.policy]
        /\ \A i \in 5 .. 8 : i = v.at => ConsumerItems[i - 4] \in m.setUp[v.policy]
    BY <1>8, <2>3 DEF item
  <2>5. q.policy = v.policy /\ q.at = v.at + 1 /\ ~(q.at > 9) /\ v.at > 1
    BY <1>2, <1>8, <2>2
  <2>. QED
    BY <1>7, <1>8, <2>4, <2>5 DEF SampleProgress
<1>9. CASE v.at = 9
  <2>1. o \in Register(n, v)
    BY <1>4, <1>9, SampleLines DEF Effect
  <2>2. o[1] = Emitted(n, "ProtocolRegistered", v.policy, Original) /\ o[2] = v
    BY <2>1 DEF Register, Sent
  <2>3. IsKnown(m, v.policy)
    <3>1. m.metadata = [n.metadata EXCEPT ![v.policy] = Original]
      BY <2>2, ChainFields DEF Emitted, Mined, Fields
    <3>. QED
      BY <1>7, <1>9, <3>1, ChainFields DEF IsKnown, Original, Unregistered
  <2>. QED
    BY <1>2, <1>7, <1>9, <2>2, <2>3 DEF SampleProgress
<1>10. CASE v.at = 10
  <2>1. o \in PublishSample(n, v)
    BY <1>4, <1>10, SampleLines DEF Effect
  <2>2. o[2] = v
    BY <2>1 DEF PublishSample, Sent
  <2>. QED
    BY <1>2, <1>7, <1>10, <2>2 DEF SampleProgress
<1>. QED
  BY <1>4, <1>6, <1>8, <1>9, <1>10

\* When the file is written, all of it is there.
LEMMA SamplePublished ==
  ASSUME NEW n, ChainTypeOK(n), NEW v, CallerOK(n, v), SampleProgress(n, v), SampleSetUp(n),
         v.at \in 1 .. Len(Script[v.script]),
         NEW o \in Effect(Script[v.script][v.at], n, v), WithinBounds(o[1])
  PROVE  SampleSetUp(o[1])
<1>. DEFINE s == Script[v.script][v.at]
<1>1. CASE s[1] # "publishSample"
  BY <1>1, EffectTyped, FileIsKept, SampleStays
<1>2. CASE s[1] = "publishSample"
  <2>1. v.script = "mockTestProtocols" /\ v.at \in 1 .. 10
    BY <1>2, ScriptLines, SampleLines DEF StatementOK, CallerOK, Script
  <2>2. v.at = 10
    <3>1. Script[v.script] = mockTestProtocols
      BY <2>1 DEF Script
    <3>. QED
      BY <1>2, <2>1, <3>1, SampleLines
  <2>3. /\ \A i \in 2 .. 4 : SampleItems[i - 1] \in n.setUp[v.policy]
        /\ \A i \in 5 .. 8 : ConsumerItems[i - 4] \in n.setUp[v.policy]
        /\ IsKnown(n, v.policy)
    BY <2>1, <2>2 DEF SampleProgress
  <2>4. Range(SampleItems) \cup Range(ConsumerItems) \subseteq n.setUp[v.policy]
    <3>1. \A i \in 1 .. 3 : SampleItems[i] \in n.setUp[v.policy]
      <4>1. ASSUME NEW i \in 1 .. 3 PROVE SampleItems[i] \in n.setUp[v.policy]
        <5>1. i + 1 \in 2 .. 4 /\ (i + 1) - 1 = i
          OBVIOUS
        <5>. QED
          BY <2>3, <5>1
      <4>. QED
        BY <4>1
    <3>2. \A i \in 1 .. 4 : ConsumerItems[i] \in n.setUp[v.policy]
      <4>1. ASSUME NEW i \in 1 .. 4 PROVE ConsumerItems[i] \in n.setUp[v.policy]
        <5>1. i + 4 \in 5 .. 8 /\ (i + 4) - 4 = i
          OBVIOUS
        <5>. QED
          BY <2>3, <5>1
      <4>. QED
        BY <4>1
    <3>. QED
      BY <3>1, <3>2, ItemsInOrder
  <2>5. o[1] = [n EXCEPT !.sample = v.policy]
    BY <1>2 DEF Effect, PublishSample, Sent
  <2>6. o[1].sample = v.policy /\ o[1].setUp = n.setUp /\ o[1].metadata = n.metadata
    BY <2>5, ChainFields DEF Fields
  <2>. QED
    BY <2>3, <2>4, <2>6 DEF SampleSetUp, IsKnown
<1>. QED
  BY <1>1, <1>2

\* A script that is started anew keeps nothing but what is put into it.
LEMMA StartedTyped ==
  ASSUME FlowInv, NEW p \in DOMAIN processes, NEW q \in Started(p)
  PROVE  /\ CallerOK(net, q) /\ SampleProgress(net, q) /\ q.at = 1
         /\ q.script = processes[p].script /\ q.made = processes[p].made /\ q.id = 0
<1>1. /\ processes[p].script \in DOMAIN Script /\ net.policies \in Nat
      /\ \A list \in RequiredLists : list \subseteq Nat
  BY ChainFields, FlowAssumption DEF FlowInv, CallerOK
<1>2. PICK i \in Inputs(processes[p].script) :
        q = [ Ready(processes[p].script) EXCEPT !.at = 1, !.made = processes[p].made,
                !.policy = i.policy, !.required = i.required, !.operator = i.operator ]
  BY DEF Started
<1>4. /\ i.policy \in 0 .. net.policies /\ i.required \subseteq Nat
      /\ processes[p].script = "registerOperator" => i.operator \in Operators
  BY <1>1 DEF Inputs, Nobody
<1>3. /\ DOMAIN q = CallerFields /\ q.script = processes[p].script /\ q.at = 1 /\ q.id = 0
      /\ q.policy = i.policy /\ q.required = i.required
      /\ q.operator = i.operator /\ q.made = processes[p].made
  BY <1>2 DEF Ready, CallerFields
<1>. QED
  BY <1>1, <1>3, <1>4 DEF CallerOK, SampleProgress

\* A process that stops has nothing left to do.
LEMMA StoppedTyped ==
  ASSUME NEW n, NEW v, CallerOK(n, v)
  PROVE  LET q == [v EXCEPT !.at = 0, !.failed = TRUE]
         IN CallerOK(n, q) /\ SampleProgress(n, q)
BY DEF CallerOK, CallerFields, SampleProgress

\* The chain and the scripts after a transaction of one of them.
LEMMA ExecuteKeepsFlow ==
  ASSUME FlowInv, NEW p \in DOMAIN processes, Execute(p)
  PROVE  FlowInv' /\ Improves(net, net')
<1>. DEFINE v == processes[p]
<1>1. v.at \in 1 .. Len(Script[v.script]) /\ CallerOK(net, v) /\ SampleProgress(net, v)
  BY DEF Execute, Running, Length, FlowInv
<1>2. PICK o \in Effect(Script[v.script][v.at], net, v) :
        /\ WithinBounds(o[1]) /\ net' = o[1]
        /\ processes' = [processes EXCEPT ![p] = [o[2] EXCEPT !.at = @ + 1]]
  BY DEF Execute, Outcomes, Statement
<1>. DEFINE q == [o[2] EXCEPT !.at = @ + 1]
<1>3. ChainTypeOK(net) /\ SampleSetUp(net)
  BY DEF FlowInv
<1>4. ChainTypeOK(net') /\ Improves(net, net') /\ CallerOK(net', o[2])
  BY <1>1, <1>2, <1>3, EffectTyped
<1>5. SampleSetUp(net') /\ SampleProgress(net', q)
  BY <1>1, <1>2, <1>3, SamplePublished, SampleAdvances
<1>6. CallerOK(net', q)
  <2>. DEFINE w == o[2]
  <2>. HIDE DEF w
  <2>1. ASSUME CallerOK(net', w), w.at # 0 PROVE CallerOK(net', [w EXCEPT !.at = @ + 1])
    BY <2>1 DEF CallerOK, CallerFields
  <2>2. w.at # 0
    BY <1>1, <1>2, <1>3, EffectTyped DEF w
  <2>. QED
    BY <1>4, <2>1, <2>2 DEF w
<1>7. \A r \in DOMAIN processes :
        CallerOK(net', processes[r]) /\ SampleProgress(net', processes[r])
  BY <1>3, <1>4, ImprovedForOthers DEF FlowInv
<1>8. DOMAIN processes' = DOMAIN processes
      /\ \A r \in DOMAIN processes : processes'[r] = IF r = p THEN q ELSE processes[r]
  BY <1>2
<1>. HIDE DEF q
<1>9. \A r \in DOMAIN processes' :
        CallerOK(net', processes'[r]) /\ SampleProgress(net', processes'[r])
  BY <1>5, <1>6, <1>7, <1>8
<1>. QED
  BY <1>4, <1>5, <1>9 DEF FlowInv

\* A chain that stays, or grows by what is no script's transaction.
LEMMA ChainKeepsFlow ==
  ASSUME FlowInv, UNCHANGED processes, ChainTypeOK(net'), Improves(net, net'),
         net'.sample = net.sample
  PROVE  FlowInv'
<1>1. SampleSetUp(net')
  BY SampleStays DEF FlowInv
<1>2. \A r \in DOMAIN processes :
        CallerOK(net', processes[r]) /\ SampleProgress(net', processes[r])
  BY ImprovedForOthers DEF FlowInv
<1>. QED
  BY <1>1, <1>2 DEF FlowInv

\* A chain that stays has improved as far as it should.
LEMMA StaysImproved ==
  ASSUME NEW n, ChainTypeOK(n) PROVE Improves(n, n)
BY ChainFields, ChainBooks DEF Improves

\* The scan reads only.
LEMMA ScanKeepsNet == ASSUME ScanNext PROVE Keep
BY DEF ScanNext, Begin, getAllOthenticOperators, CountSubnets, getAllOthenticSubnets,
       extendVennOperators, ReadLatestBlock, ReadPage, SkipPage, MergeEvents,
       ReadTaskDefinitionIds, ReadRequiredOperatorIds, WriteTopology

\* Every step keeps the chain and the scripts as they should be, and takes
\* nothing back.
LEMMA FlowInvNext ==
  ASSUME FlowInv, [NetworkNext]_networkVars
  PROVE  FlowInv' /\ Improves(net, net')
<1>0. ChainTypeOK(net) /\ Improves(net, net)
  BY StaysImproved DEF FlowInv
<1>1. CASE UNCHANGED <<net, processes>>
  BY <1>0, <1>1 DEF FlowInv
<1>2. ASSUME NEW p \in DOMAIN processes, Start(p) \/ Restart(p)
      PROVE  FlowInv' /\ Improves(net, net')
  <2>1. net' = net
    BY <1>2 DEF Start, Restart
  <2>2. PICK q \in Started(p) : processes' = [processes EXCEPT ![p] = q]
    BY <1>2 DEF Start, Restart
  <2>3. CallerOK(net, q) /\ SampleProgress(net, q)
    BY StartedTyped
  <2>. QED
    BY <1>0, <2>1, <2>2, <2>3 DEF FlowInv
<1>3. ASSUME NEW p \in DOMAIN processes, Throw(p) \/ Die(p)
      PROVE  FlowInv' /\ Improves(net, net')
  <2>. DEFINE q == [processes[p] EXCEPT !.at = 0, !.failed = TRUE]
  <2>1. net' = net /\ processes' = [processes EXCEPT ![p] = q]
    BY <1>3 DEF Throw, Die, Stopped
  <2>2. CallerOK(net, q) /\ SampleProgress(net, q)
    BY StoppedTyped DEF FlowInv
  <2>. HIDE DEF q
  <2>. QED
    BY <1>0, <2>1, <2>2 DEF FlowInv
<1>4. ASSUME NEW policy \in Policies, NEW m \in MetadataURIs, UpdateProtocol(policy, m)
      PROVE  FlowInv' /\ Improves(net, net')
  <2>1. /\ net' = Emitted(net, "ProtocolUpdated", policy, m) /\ IsKnown(net, policy)
        /\ UNCHANGED processes
    BY <1>4 DEF UpdateProtocol
  <2>2. policy \in 1 .. net.policies
    BY <1>0, <2>1, ChainBooks, ChainFields DEF Policies
  <2>3. ChainTypeOK(net') /\ Improves(net, net')
    BY <1>0, <2>1, <2>2, LogGrows DEF EventNames
  <2>4. net'.sample = net.sample
    BY <1>0, <2>1, ChainFields DEF Emitted, Mined, Fields
  <2>. QED
    BY <2>1, <2>3, <2>4, ChainKeepsFlow
<1>5. ASSUME NEW o \in Operators, ReceiveOperator(o)
      PROVE  FlowInv' /\ Improves(net, net')
  <2>1. /\ net' = [Mined(net) EXCEPT !.center = Append(@, o)] /\ o \notin Range(net.center)
        /\ UNCHANGED processes
    BY <1>5 DEF ReceiveOperator
  <2>2. ChainTypeOK(net') /\ Improves(net, net')
    BY <1>0, <2>1, CenterGrows
  <2>3. net'.sample = net.sample
    BY <1>0, <2>1, ChainFields DEF Mined, Fields
  <2>. QED
    BY <2>1, <2>2, <2>3, ChainKeepsFlow
<1>6. CASE ScriptNext
  BY <1>2, <1>3, <1>4, <1>6, ExecuteKeepsFlow DEF ScriptNext
<1>7. CASE \E o \in Operators : Deliver(o)
  BY <1>5, <1>7 DEF Deliver
<1>8. CASE ScanNext
  <2>1. Keep
    BY <1>8, ScanKeepsNet
  <2>. QED
    BY <1>1, <2>1 DEF Keep
<1>9. CASE UNCHANGED flowVars
  BY <1>1, <1>9 DEF flowVars
<1>. QED
  BY <1>6, <1>7, <1>8, <1>9 DEF NetworkNext, networkVars, flowVars

\* A chain to begin with, and scripts that have not begun.
LEMMA FlowInvInit == ASSUME NetworkInit PROVE FlowInv
<1>1. PICK s \in Scenarios :
        net = s.net /\ processes = [p \in DOMAIN s.plan |-> Ready(s.plan[p])]
  BY DEF NetworkInit, FlowInit
<1>2. /\ ChainTypeOK(net) /\ SampleSetUp(net)
      /\ \A p \in DOMAIN s.plan : s.plan[p] \in DOMAIN Script
  BY <1>1, ScenariosAssumption
<1>3. net.policies \in Nat
  BY <1>2, ChainFields
<1>4. ASSUME NEW x \in DOMAIN Script
      PROVE  CallerOK(net, Ready(x)) /\ SampleProgress(net, Ready(x))
  BY <1>3 DEF CallerOK, SampleProgress, Ready, CallerFields, Nobody
<1>. QED
  BY <1>1, <1>2, <1>4 DEF FlowInv

\* In every state the chain is as a chain should be.
LEMMA FlowInvHolds == NetworkSpec => []FlowInv
<1>1. NetworkInit => FlowInv
  BY FlowInvInit
<1>2. FlowInv /\ [NetworkNext]_networkVars => FlowInv'
  BY FlowInvNext
<1>. QED
  BY <1>1, <1>2, PTL DEF NetworkSpec

\* The sample policy that the other scripts take from the deployments file is
\* set up, connected to its consumer and registered, wherever a migration
\* stopped or whichever others ran beside it.
THEOREM SampleComplete == NetworkSpec => []SampleIsComplete
<1>1. FlowInv => SampleIsComplete
  BY DEF FlowInv, SampleIsComplete, FlowTypeOK, CallerOK
<1>. QED
  BY <1>1, FlowInvHolds, PTL

-----------------------------------------------------------------------------
(* Subnets and their fees                                                  *)

\* A run of createSubnet: the id it predicted, and the fees set so far.
SubnetProgress(n, q) ==
  q.script = "createSubnet" =>
    /\ q.at > 1 => q.id \in 1 .. Len(n.restricted) + 1
    /\ q.at > 2 => q.id <= Len(n.restricted)
    /\ q.at > 3 => "fee" \in n.fees[q.id]
    /\ q.at > 4 => "recipients" \in n.fees[q.id]
    /\ q.at > 5 => "operatorFees" \in n.fees[q.id]

\* Every definition since a run predicted its id was made by some run.
MadeByRuns ==
  \A p \in DOMAIN processes :
    processes[p].script = "createSubnet" /\ processes[p].at > 1 =>
      \A k \in processes[p].id .. Len(net.restricted) :
        \E q \in DOMAIN processes : k \in processes[q].made

SubnetInv ==
  /\ FlowInv /\ FeesSetUp(net) /\ MadeByRuns
  /\ \A p \in DOMAIN processes : SubnetProgress(net, processes[p])

\* What was paid for is kept for whoever waits for a turn.
LEMMA PaidForOthers ==
  ASSUME NEW n, ChainTypeOK(n), NEW m, ChainTypeOK(m), Improves(n, m),
         NEW q, CallerOK(n, q), SubnetProgress(n, q)
  PROVE  SubnetProgress(m, q)
<1>1. /\ Len(n.restricted) \in Nat /\ Len(m.restricted) \in Nat /\ MaxDefinitions \in Nat
      /\ Len(n.restricted) <= Len(m.restricted) /\ Len(n.restricted) <= MaxDefinitions
      /\ q.at \in Nat /\ q.id \in Nat
  BY ChainBooks, FlowAssumption DEF Improves, CallerOK
<1>2. q.id \in 1 .. Len(n.restricted) => q.id \in Ids
  BY <1>1 DEF Ids
<1>3. q.id \in Ids => n.fees[q.id] \subseteq m.fees[q.id]
  BY DEF Improves
<1>. QED
  BY <1>1, <1>2, <1>3 DEF SubnetProgress

\* Calls of other scripts create no definition and set no fee.
LEMMA OtherStatements ==
  ASSUME NEW n, ChainTypeOK(n), NEW v, CallerOK(n, v), NEW s, StatementOK(v.script, s),
         s[1] \notin {"predict", "createDefinition", "setFee"}, NEW o \in Effect(s, n, v)
  PROVE  /\ Len(o[1].restricted) = Len(n.restricted) /\ o[1].fees = n.fees
         /\ o[2].made = v.made /\ o[2].id = v.id
<1>0. /\ Mined(n).restricted = n.restricted /\ Mined(n).fees = n.fees
      /\ {"restricted", "fees"} \subseteq DOMAIN Mined(n)
      /\ \A name, policy, metadata :
           /\ Emitted(n, name, policy, metadata).restricted = n.restricted
           /\ Emitted(n, name, policy, metadata).fees = n.fees
      /\ {"restricted", "fees"} \subseteq DOMAIN n
  BY ChainFields DEF Mined, Emitted, Fields
<1>1. CASE s[1] \in {"takeSample", "getProtocol"}
  BY <1>1 DEF Effect, TakeSample, GetProtocol, Sent, CallerOK, CallerFields
<1>4. CASE s[1] = "restrict"
  <2>1. o[1] = [Mined(n) EXCEPT !.restricted[s[2]] = restrictedAttesters] /\ o[2] = v
    BY <1>4 DEF Effect, SetRestricted, Sent
  <2>2. o[1].restricted = [n.restricted EXCEPT ![s[2]] = restrictedAttesters] /\ o[1].fees = n.fees
    BY <1>0, <2>1
  <2>3. s[2] = 1
    BY <1>4 DEF StatementOK
  <2>4. 1 <= Len(n.restricted)
    BY <1>4, <2>3 DEF Effect, SetRestricted, Sent
  <2>5. Len([n.restricted EXCEPT ![1] = restrictedAttesters]) = Len(n.restricted)
    <3>1. /\ n.restricted \in Seq(SUBSET Nat) /\ restrictedAttesters \in SUBSET Nat
          /\ 1 \in 1 .. Len(n.restricted)
      BY <2>4, ChainFields DEF restrictedAttesters
    <3>. QED
      BY <3>1, ExceptSeq
  <2>. QED
    BY <2>1, <2>2, <2>3, <2>5
<1>5. CASE s[1] = "transferMultisig"
  BY <1>0, <1>5 DEF Effect, TransferMultisig, Sent
<1>6. CASE s[1] \in {"register", "registerIfUnknown"}
  BY <1>0, <1>6 DEF Effect, Register, RegisterIfUnknown, Sent
<1>7. CASE s[1] \in {"subscribe", "subscribeAny"}
  BY <1>0, <1>7 DEF Effect, Subscribe, Sent
<1>8. CASE s[1] = "unsubscribe"
  BY <1>0, <1>8 DEF Effect, Unsubscribe, Sent
<1>9. CASE s[1] = "deployPolicy"
  BY <1>0, <1>9 DEF Effect, DeployPolicy, Sent, CallerOK, CallerFields
<1>10. CASE s[1] = "setUp"
  BY <1>0, <1>10 DEF Effect, SetUp, Sent
<1>11. CASE s[1] = "registerOperator"
  BY <1>0, <1>11 DEF Effect, RegisterOperator, Sent
<1>12. CASE s[1] = "subscribeOperators"
  BY <1>0, <1>12 DEF Effect, SubscribeOperators, Sent
<1>13. CASE s[1] = "publishSample"
  BY <1>0, <1>13 DEF Effect, PublishSample, Sent
<1>. QED
  BY <1>1, <1>4, <1>5, <1>6, <1>7, <1>8, <1>9, <1>10, <1>11, <1>12, <1>13 DEF Effect

\* The statements of createSubnet.
LEMMA SubnetLines ==
  /\ Script["createSubnet"] = createSubnet /\ Len(createSubnet) = 5
  /\ createSubnet[1] = <<"predict", 0>> /\ createSubnet[2] = <<"createDefinition", 0>>
  /\ createSubnet[3] = <<"setFee", "fee">> /\ createSubnet[4] = <<"setFee", "recipients">>
  /\ createSubnet[5] = <<"setFee", "operatorFees">>
<1>1. Script["createSubnet"] = createSubnet
  BY DEF Script
<1>2. /\ Len(createSubnet) = 5
      /\ createSubnet[1] = <<"predict", 0>> /\ createSubnet[2] = <<"createDefinition", 0>>
      /\ createSubnet[3] = <<"setFee", "fee">> /\ createSubnet[4] = <<"setFee", "recipients">>
      /\ createSubnet[5] = <<"setFee", "operatorFees">>
  BY DEF createSubnet, Call, On
<1>. QED
  BY <1>1, <1>2

\* A statement of createSubnet: the number of definitions, their fees and
\* what is known of the caller afterwards.
LEMMA SubnetAdvances ==
  ASSUME NEW n, ChainTypeOK(n), NEW v, CallerOK(n, v), v.script = "createSubnet",
         SubnetProgress(n, v), FeesSetUp(n), v.at \in 1 .. Len(Script[v.script]),
         NEW o \in Effect(Script[v.script][v.at], n, v), WithinBounds(o[1])
  PROVE  /\ SubnetProgress(o[1], [o[2] EXCEPT !.at = @ + 1]) /\ FeesSetUp(o[1])
         /\ \/ Len(o[1].restricted) = Len(n.restricted) /\ o[2].made = v.made
            \/ /\ Len(o[1].restricted) = Len(n.restricted) + 1
               /\ o[2].made = v.made \cup {Len(n.restricted) + 1}
         /\ o[2].id = IF v.at = 1 THEN Len(n.restricted) + 1 ELSE v.id
<1>. DEFINE m == o[1]
            q == [o[2] EXCEPT !.at = @ + 1]
<1>1. /\ ChainTypeOK(m) /\ Improves(n, m) /\ CallerOK(m, o[2])
      /\ o[2].script = v.script /\ o[2].at = v.at
  BY EffectTyped
<1>2. q.script = v.script /\ q.at = v.at + 1 /\ q.id = o[2].id /\ v.at \in 1 .. 5
  BY <1>1, SubnetLines DEF CallerOK, CallerFields
<1>3. /\ Len(n.restricted) \in Nat /\ Len(m.restricted) \in Nat
      /\ Len(m.restricted) <= MaxDefinitions /\ MaxDefinitions \in Nat
      /\ n.fees \in [Ids -> SUBSET FeeSettings]
  BY <1>1, ChainBooks, ChainFields, FlowAssumption
<1>. HIDE DEF q
<1>4. CASE v.at = 1
  <2>1. o \in Predict(n, v)
    BY <1>4, SubnetLines DEF Effect
  <2>2. o[1] = n /\ o[2] = [v EXCEPT !.id = Len(n.restricted) + 1]
    BY <2>1 DEF Predict, Sent
  <2>3. o[2].id = Len(n.restricted) + 1 /\ o[2].made = v.made
    BY <2>2 DEF CallerOK, CallerFields
  <2>4. SubnetProgress(m, q)
    BY <1>2, <1>3, <1>4, <2>2, <2>3 DEF SubnetProgress
  <2>. QED
    BY <1>4, <2>2, <2>3, <2>4 DEF q
<1>5. CASE v.at = 2
  <2>1. o \in CreateDefinition(n, v)
    BY <1>5, SubnetLines DEF Effect
  <2>. DEFINE c == [Mined(n) EXCEPT !.restricted = Append(@, restrictedOperatorIndexes)]
              w == [v EXCEPT !.made = @ \cup {Len(n.restricted) + 1}]
  <2>2. o = <<c, w>>
    BY <2>1, Zenon DEF CreateDefinition, Sent
  <2>3. c.restricted = Append(n.restricted, restrictedOperatorIndexes) /\ c.fees = n.fees
    <3>1. Mined(n).restricted = n.restricted /\ Mined(n).fees = n.fees
          /\ {"restricted", "fees"} \subseteq DOMAIN Mined(n)
      BY ChainFields DEF Mined, Fields
    <3>. QED
      BY <3>1
  <2>4. w.id = v.id /\ w.made = v.made \cup {Len(n.restricted) + 1}
    BY DEF CallerOK, CallerFields
  <2>. HIDE DEF c, w
  <2>5. o[1] = c /\ o[2] = w
    BY <2>2
  <2>6. Len(m.restricted) = Len(n.restricted) + 1 /\ m.fees = n.fees
    <3>1. n.restricted \in Seq(SUBSET Nat) /\ restrictedOperatorIndexes \in SUBSET Nat
      BY ChainFields DEF restrictedOperatorIndexes
    <3>2. Len(Append(n.restricted, restrictedOperatorIndexes)) = Len(n.restricted) + 1
      BY <3>1
    <3>. QED
      BY <2>3, <2>5, <3>2
  <2>7. FeesSetUp(m)
    BY <2>6 DEF FeesSetUp
  <2>8. SubnetProgress(m, q)
    BY <1>2, <1>3, <1>5, <2>4, <2>5, <2>6 DEF SubnetProgress
  <2>. QED
    BY <1>5, <2>4, <2>5, <2>6, <2>7, <2>8 DEF q
<1>6. CASE v.at \in 3 .. 5
  <2>. DEFINE fee == IF v.at = 3 THEN "fee" ELSE IF v.at = 4 THEN "recipients" ELSE "operatorFees"
  <2>1. o \in SetFee(fee, n, v)
    <3>1. Script[v.script][v.at] = <<"setFee", fee>>
      BY <1>6, SubnetLines
    <3>. HIDE DEF fee
    <3>. QED
      BY <3>1 DEF Effect
  <2>2. fee \in FeeSettings
    BY DEF FeeSettings
  <2>3. v.id \in Ids /\ v.id <= Len(n.restricted) /\ v.id \in Nat
    BY <1>3, <1>6, ChainBooks DEF SubnetProgress, Ids, CallerOK
  <2>4. o[1] = [Mined(n) EXCEPT !.fees[v.id] = @ \cup {fee}] /\ o[2] = v
    <3>. HIDE DEF fee
    <3>. QED
      BY <2>1 DEF SetFee, Sent
  <2>5. m.fees = [n.fees EXCEPT ![v.id] = @ \cup {fee}] /\ m.restricted = n.restricted
    <3>. HIDE DEF fee
    <3>1. /\ Mined(n).fees = n.fees /\ Mined(n).restricted = n.restricted
          /\ {"restricted", "fees"} \subseteq DOMAIN Mined(n)
      BY ChainFields DEF Mined, Fields
    <3>. QED
      BY <2>4, <3>1
  <2>6. \A id \in Ids : m.fees[id] = IF id = v.id THEN n.fees[id] \cup {fee} ELSE n.fees[id]
    <3>. HIDE DEF fee
    <3>. QED
      BY <1>3, <2>5
  <2>7. /\ v.at > 3 => "fee" \in n.fees[v.id]
        /\ v.at > 4 => "recipients" \in n.fees[v.id]
    BY DEF SubnetProgress
  <2>8. FeesSetUp(m)
    <3>0. fee = "operatorFees" <=> v.at = 5
      BY <1>6
    <3>. HIDE DEF fee
    <3>1. ASSUME NEW id \in Ids, "operatorFees" \in m.fees[id] PROVE m.fees[id] = FeeSettings
      <4>1. CASE id # v.id
        BY <2>6, <3>1, <4>1 DEF FeesSetUp
      <4>2. CASE id = v.id /\ "operatorFees" \in n.fees[id]
        BY <2>2, <2>6, <4>2 DEF FeesSetUp
      <4>3. CASE id = v.id /\ "operatorFees" \notin n.fees[id]
        <5>1. v.at = 5
          BY <3>0, <2>6, <3>1, <4>3
        <5>2. m.fees[id] = n.fees[id] \cup {"operatorFees"} /\ n.fees[id] \subseteq FeeSettings
          BY <1>3, <3>0, <2>6, <4>3, <5>1
        <5>. QED
          BY <2>7, <4>3, <5>1, <5>2 DEF FeeSettings
      <4>. QED
        BY <4>1, <4>2, <4>3
    <3>. QED
      BY <3>1 DEF FeesSetUp
  <2>9. SubnetProgress(m, q)
    BY <1>2, <1>3, <1>6, <2>3, <2>4, <2>5, <2>6, <2>7 DEF SubnetProgress
  <2>. QED
    BY <1>6, <2>4, <2>5, <2>8, <2>9 DEF q
<1>. QED
  BY <1>2, <1>4, <1>5, <1>6

\* The same after a step of a script: the fees, the runs' progress and the
\* definitions they made.
LEMMA ExecuteKeepsSubnets ==
  ASSUME SubnetInv, NEW p \in DOMAIN processes, Execute(p)
  PROVE  SubnetInv'
<1>. DEFINE v == processes[p]
<1>1. /\ v.at \in 1 .. Len(Script[v.script]) /\ CallerOK(net, v) /\ SubnetProgress(net, v)
      /\ ChainTypeOK(net) /\ FeesSetUp(net)
  BY DEF Execute, Running, Length, SubnetInv, FlowInv
<1>2. PICK o \in Effect(Script[v.script][v.at], net, v) :
        /\ WithinBounds(o[1]) /\ net' = o[1]
        /\ processes' = [processes EXCEPT ![p] = [o[2] EXCEPT !.at = @ + 1]]
  BY DEF Execute, Outcomes, Statement
<1>. DEFINE q == [o[2] EXCEPT !.at = @ + 1]
<1>3. FlowInv' /\ Improves(net, net') /\ ChainTypeOK(net')
  BY ExecuteKeepsFlow DEF SubnetInv, FlowInv
<1>4. /\ o[2].script = v.script /\ o[2].at = v.at /\ CallerOK(net', o[2])
  BY <1>1, <1>2, EffectTyped
<1>5. /\ q.script = v.script /\ q.at = v.at + 1 /\ q.id = o[2].id /\ q.made = o[2].made
  BY <1>4 DEF CallerOK, CallerFields
<1>. DEFINE len == Len(net.restricted)
<1>6. /\ SubnetProgress(net', q) /\ FeesSetUp(net')
      /\ \/ Len(net'.restricted) = len /\ o[2].made = v.made
         \/ /\ Len(net'.restricted) = len + 1
            /\ o[2].made = v.made \cup {len + 1}
      /\ v.script = "createSubnet" => o[2].id = IF v.at = 1 THEN len + 1 ELSE v.id
  <2>1. CASE v.script = "createSubnet"
    BY <1>1, <1>2, <2>1, SubnetAdvances
  <2>2. CASE v.script # "createSubnet"
    <3>1. /\ StatementOK(v.script, Script[v.script][v.at])
      BY <1>1, ScriptLines DEF CallerOK
    <3>2. Script[v.script][v.at][1] \notin {"predict", "createDefinition", "setFee"}
      BY <2>2, <3>1 DEF StatementOK
    <3>3. /\ Len(net'.restricted) = len /\ net'.fees = net.fees /\ o[2].made = v.made
      BY <1>1, <1>2, <3>1, <3>2, OtherStatements
    <3>4. FeesSetUp(net')
      BY <1>1, <3>3 DEF FeesSetUp
    <3>5. SubnetProgress(net', q)
      BY <1>5, <2>2 DEF SubnetProgress
    <3>. QED
      BY <2>2, <3>3, <3>4, <3>5
  <2>. QED
    BY <2>1, <2>2
<1>. HIDE DEF q
<1>7. /\ DOMAIN processes' = DOMAIN processes
      /\ \A r \in DOMAIN processes : processes'[r] = IF r = p THEN q ELSE processes[r]
  BY <1>2 DEF q
<1>8. \A r \in DOMAIN processes : SubnetProgress(net', processes[r])
  BY <1>3, PaidForOthers DEF SubnetInv, FlowInv
<1>9. \A r \in DOMAIN processes' : SubnetProgress(net', processes'[r])
  BY <1>6, <1>7, <1>8
<1>10. ASSUME NEW r \in DOMAIN processes', processes'[r].script = "createSubnet",
              processes'[r].at > 1, NEW k \in processes'[r].id .. Len(net'.restricted)
       PROVE  \E s \in DOMAIN processes' : k \in processes'[s].made
  <2>1. /\ len \in Nat /\ len' \in Nat /\ v.at \in Nat /\ v.id \in Nat /\ k \in Int
        /\ processes[r].at \in Nat /\ processes[r].id \in Nat /\ processes'[r].id \in Nat
        /\ processes[r].id \in Nat
    BY <1>1, <1>3, <1>7, <1>10, ChainBooks DEF SubnetInv, FlowInv, CallerOK
  <2>2. CASE k = len + 1
    BY <1>5, <1>6, <1>7, <2>1, <2>2
  <2>3. CASE k # len + 1
    <3>1. k <= len
      BY <1>6, <2>1, <2>3
    <3>2. processes[r].script = "createSubnet" /\ processes[r].at > 1 /\ processes[r].id <= k
      <4>1. CASE r # p
        BY <1>7, <1>10, <2>1, <4>1
      <4>2. CASE r = p
        <5>1. v.script = "createSubnet" /\ v.at # 1
          BY <1>5, <1>6, <1>7, <1>10, <2>1, <3>1, <4>2
        <5>2. v.id <= k
          BY <1>5, <1>6, <1>7, <1>10, <2>1, <4>2, <5>1
        <5>. QED
          BY <1>1, <4>2, <5>1, <5>2
      <4>. QED
        BY <4>1, <4>2
    <3>3. PICK s \in DOMAIN processes : k \in processes[s].made
      BY <1>7, <2>1, <3>1, <3>2 DEF SubnetInv, MadeByRuns
    <3>4. processes[s].made \subseteq processes'[s].made
      BY <1>5, <1>6, <1>7
    <3>. QED
      BY <1>7, <3>3, <3>4
  <2>. QED
    BY <2>2, <2>3
<1>. QED
  BY <1>3, <1>6, <1>9, <1>10 DEF SubnetInv, MadeByRuns

\* Steps that start or stop a run, or change no definition and no fee.
LEMMA ChainKeepsSubnets ==
  ASSUME SubnetInv, FlowInv', Improves(net, net'), net'.fees = net.fees,
         Len(net'.restricted) = Len(net.restricted), DOMAIN processes' = DOMAIN processes,
         \A p \in DOMAIN processes :
           /\ processes'[p].made = processes[p].made
           /\ processes'[p] = processes[p] \/ processes'[p].at \in {0, 1}
  PROVE  SubnetInv'
<1>1. FeesSetUp(net')
  BY DEF SubnetInv, FeesSetUp
<1>2. \A p \in DOMAIN processes' : SubnetProgress(net', processes'[p])
  <2>1. \A p \in DOMAIN processes : SubnetProgress(net', processes[p])
    BY PaidForOthers DEF SubnetInv, FlowInv
  <2>. QED
    BY <2>1 DEF SubnetProgress
<1>3. MadeByRuns'
  BY DEF SubnetInv, MadeByRuns
<1>. QED
  BY <1>1, <1>2, <1>3 DEF SubnetInv

\* Every step keeps them.
LEMMA SubnetInvNext ==
  ASSUME SubnetInv, [NetworkNext]_networkVars PROVE SubnetInv'
<1>0. FlowInv /\ FlowInv' /\ Improves(net, net') /\ ChainTypeOK(net)
  BY FlowInvNext DEF SubnetInv, FlowInv
<1>1. CASE UNCHANGED <<net, processes>>
  BY <1>0, <1>1, ChainKeepsSubnets
<1>2. ASSUME NEW p \in DOMAIN processes, Start(p) \/ Restart(p) PROVE SubnetInv'
  <2>1. net' = net
    BY <1>2 DEF Start, Restart
  <2>2. PICK q \in Started(p) : processes' = [processes EXCEPT ![p] = q]
    BY <1>2 DEF Start, Restart
  <2>3. q.at = 1 /\ q.made = processes[p].made
    BY <1>0, StartedTyped
  <2>. QED
    BY <1>0, <2>1, <2>2, <2>3, ChainKeepsSubnets
<1>3. ASSUME NEW p \in DOMAIN processes, Throw(p) \/ Die(p) PROVE SubnetInv'
  <2>. DEFINE q == [processes[p] EXCEPT !.at = 0, !.failed = TRUE]
  <2>1. net' = net /\ processes' = [processes EXCEPT ![p] = q]
    BY <1>3 DEF Throw, Die, Stopped
  <2>2. q.at = 0 /\ q.made = processes[p].made
    BY <1>0 DEF FlowInv, CallerOK, CallerFields
  <2>. HIDE DEF q
  <2>. QED
    BY <1>0, <2>1, <2>2, ChainKeepsSubnets
<1>4. ASSUME NEW policy \in Policies, NEW m \in MetadataURIs, UpdateProtocol(policy, m)
      PROVE  SubnetInv'
  <2>1. net' = Emitted(net, "ProtocolUpdated", policy, m) /\ UNCHANGED processes
    BY <1>4 DEF UpdateProtocol
  <2>2. net'.fees = net.fees /\ net'.restricted = net.restricted
    BY <1>0, <2>1, ChainFields DEF Emitted, Mined, Fields
  <2>. QED
    BY <1>0, <2>1, <2>2, ChainKeepsSubnets
<1>5. ASSUME NEW o \in Operators, ReceiveOperator(o) PROVE SubnetInv'
  <2>1. net' = [Mined(net) EXCEPT !.center = Append(@, o)] /\ UNCHANGED processes
    BY <1>5 DEF ReceiveOperator
  <2>2. net'.fees = net.fees /\ net'.restricted = net.restricted
    BY <1>0, <2>1, ChainFields DEF Mined, Fields
  <2>. QED
    BY <1>0, <2>1, <2>2, ChainKeepsSubnets
<1>6. CASE ScriptNext
  BY <1>2, <1>3, <1>4, <1>6, ExecuteKeepsSubnets DEF ScriptNext
<1>7. CASE \E o \in Operators : Deliver(o)
  BY <1>5, <1>7 DEF Deliver
<1>8. CASE ScanNext
  <2>1. Keep
    BY <1>8, ScanKeepsNet
  <2>. QED
    BY <1>1, <2>1 DEF Keep
<1>9. CASE UNCHANGED flowVars
  BY <1>1, <1>9 DEF flowVars
<1>. QED
  BY <1>6, <1>7, <1>8, <1>9 DEF NetworkNext, networkVars, flowVars

(* A subnet that has operator fees has all its fees, whichever runs set    *)
(* them and wherever they stopped; and a completed run of createSubnet has *)
(* configured a definition that a run made, if not this one then another.  *)
THEOREM SubnetsComplete == NetworkSpec => []SubnetsAreComplete
<1>1. NetworkInit => SubnetInv
  <2>. SUFFICES ASSUME NetworkInit PROVE SubnetInv
    OBVIOUS
  <2>1. PICK s \in Scenarios :
          net = s.net /\ processes = [p \in DOMAIN s.plan |-> Ready(s.plan[p])]
    BY DEF NetworkInit, FlowInit
  <2>2. FeesSetUp(net)
    BY <2>1, ScenariosAssumption
  <2>3. \A p \in DOMAIN processes : processes[p].at = 0
    BY <2>1 DEF Ready
  <2>. QED
    BY <2>2, <2>3, FlowInvInit DEF SubnetInv, MadeByRuns, SubnetProgress
<1>2. SubnetInv /\ [NetworkNext]_networkVars => SubnetInv'
  BY SubnetInvNext
<1>3. SubnetInv => SubnetsAreComplete
  <2>. SUFFICES ASSUME SubnetInv, NEW p \in DOMAIN processes,
                       processes[p].script = "createSubnet", Completed(p)
                PROVE  /\ processes[p].id \in {id \in Ids : net.fees[id] = FeeSettings}
                       /\ \/ processes[p].id \in processes[p].made
                          \/ \E q \in DOMAIN processes \ {p} :
                               processes[p].id \in processes[q].made
    BY DEF SubnetsAreComplete, SubnetInv
  <2>1. processes[p].at > 5 /\ processes[p].at \in Nat /\ processes[p].id \in Nat
    BY SubnetLines DEF Completed, Length, SubnetInv, FlowInv, CallerOK
  <2>2. /\ Len(net.restricted) \in Nat /\ Len(net.restricted) <= MaxDefinitions
        /\ MaxDefinitions \in Nat
    BY ChainBooks, FlowAssumption DEF SubnetInv, FlowInv
  <2>3. /\ processes[p].id \in 1 .. Len(net.restricted)
        /\ "operatorFees" \in net.fees[processes[p].id]
    BY <2>1, <2>2 DEF SubnetInv, SubnetProgress
  <2>4. processes[p].id \in Ids
    BY <2>2, <2>3 DEF Ids
  <2>5. net.fees[processes[p].id] = FeeSettings
    BY <2>3, <2>4 DEF SubnetInv, FeesSetUp
  <2>6. \E q \in DOMAIN processes : processes[p].id \in processes[q].made
    BY <2>1, <2>2, <2>3 DEF SubnetInv, MadeByRuns
  <2>. QED
    BY <2>4, <2>5, <2>6
<1>. QED
  BY <1>1, <1>2, <1>3, PTL DEF NetworkSpec

-----------------------------------------------------------------------------
(* The log                                                                 *)

\* The blocks of a chain's events.
BlocksOK(n) ==
  /\ n.height \in Nat /\ StartBlock <= n.height
  /\ \A v \in n.log : v.block \in 1 .. n.height /\ StartBlock <= v.block

\* The events of a policy up to a block.
Before(n, p, block) == {v \in n.log : v.policy = p /\ v.block <= block}

\* The metadata of the latest of some events.
Newest(S) ==
  IF S = {} THEN Unregistered
  ELSE (CHOOSE v \in S : \A w \in S : w.block <= v.block).metadata

\* The metadata at a block are those of the latest event before it.
LEMMA MetadataNewest ==
  ASSUME NEW n, NEW p, NEW b PROVE MetadataAt(n, p, b) = Newest(Before(n, p, b))
BY DEF MetadataAt, Newest, Before

\* Among events up to some block there is a latest one.
LEMMA LatestEvent ==
  ASSUME NEW S, S # {}, NEW h \in Nat, \A v \in S : v.block \in Nat /\ v.block <= h
  PROVE  \E v \in S : \A w \in S : w.block <= v.block
<1>. DEFINE T == {h - v.block : v \in S}
            R == {ss \in Nat \X Nat : ss[1] < ss[2]}
<1>1. IsWellFoundedOn(R, Nat)
  BY NatLessThanWellFounded DEF OpToRel
<1>2. T \subseteq Nat /\ T # {}
  OBVIOUS
<1>. HIDE DEF R
<1>3. PICK x \in T : \A y \in T : ~ <<y, x>> \in R
  BY <1>1, <1>2, WFMin
<1>4. \A y \in T : ~ y < x
  BY <1>2, <1>3 DEF R
<1>5. PICK v \in S : x = h - v.block
  OBVIOUS
<1>6. \A w \in S : h - w.block \in T
  OBVIOUS
<1>. HIDE DEF T
<1>7. \A w \in S : w.block <= v.block
  BY <1>4, <1>5, <1>6
<1>. QED
  BY <1>7

\* The metadata at a block are those of the latest event up to it.
LEMMA MetadataOf ==
  ASSUME NEW n, BlocksOK(n), \A x, y \in n.log : x.block = y.block => x = y,
         NEW p, NEW b \in Nat, NEW v \in Before(n, p, b),
         \A w \in Before(n, p, b) : w.block <= v.block
  PROVE  MetadataAt(n, p, b) = v.metadata
<1>. DEFINE S == Before(n, p, b)
            c == CHOOSE x \in S : \A w \in S : w.block <= x.block
<1>1. c \in S /\ \A w \in S : w.block <= c.block
  OBVIOUS
<1>2. c \in n.log /\ v \in n.log
  BY <1>1 DEF Before
<1>3. c.block \in Nat /\ v.block \in Nat
  BY <1>2 DEF BlocksOK
<1>4. c.block = v.block
  BY <1>1, <1>3
<1>5. c = v
  BY <1>2, <1>4
<1>6. MetadataAt(n, p, b) = c.metadata
  BY DEF MetadataAt, Before
<1>. QED
  BY <1>5, <1>6

\* A policy has metadata at a block if there is an event up to it.
LEMMA MetadataGiven ==
  ASSUME NEW n, ChainTypeOK(n), LogOK(n), BlocksOK(n), NEW p, NEW b \in Nat
  PROVE  MetadataAt(n, p, b) # Unregistered <=> Before(n, p, b) # {}
<1>1. CASE Before(n, p, b) = {}
  BY <1>1 DEF MetadataAt, Before
<1>2. CASE Before(n, p, b) # {}
  <2>1. \A v \in Before(n, p, b) : v.block \in Nat /\ v.block <= b
    BY DEF Before, BlocksOK
  <2>2. PICK v \in Before(n, p, b) : \A w \in Before(n, p, b) : w.block <= v.block
    BY <1>2, <2>1, LatestEvent
  <2>3. MetadataAt(n, p, b) = v.metadata
    BY <2>2, MetadataOf DEF LogOK
  <2>4. v \in Events
    BY <2>2, ChainFields DEF Before
  <2>5. v.metadata # Unregistered
    BY <2>4, FlowAssumption DEF Events, Original, Unregistered
  <2>. QED
    BY <1>2, <2>3, <2>5
<1>. QED
  BY <1>1, <1>2

\* What was at a block stays so.
LEMMA MetadataStays ==
  ASSUME NEW n, BlocksOK(n), NEW m, Improves(n, m), NEW p, NEW b, b <= n.height, b \in Nat
  PROVE  MetadataAt(m, p, b) = MetadataAt(n, p, b) /\ Before(m, p, b) = Before(n, p, b)
<1>1. \A v \in m.log \ n.log : ~ v.block <= b
  <2>1. \A v \in m.log \ n.log : v.block = n.height + 1
    BY DEF Improves
  <2>. QED
    BY <2>1 DEF BlocksOK
<1>2. n.log \subseteq m.log
  BY DEF Improves
<1>3. Before(m, p, b) = Before(n, p, b)
  BY <1>1, <1>2 DEF Before
<1>. QED
  BY <1>3, MetadataNewest, Zenon

\* The log stays in order.
LEMMA LogStaysOK ==
  ASSUME NEW n, ChainTypeOK(n), LogOK(n), BlocksOK(n), NEW m, Improves(n, m)
  PROVE  LogOK(m) /\ BlocksOK(m)
<1>1. n.metadata \in [Policies -> MetadataURIs \cup {Original, Unregistered}] /\ n.height \in Nat
  BY ChainFields
<1>2. m.height \in Nat /\ n.height <= m.height /\ StartBlock <= m.height
  BY <1>1, TopologyAssumption DEF Improves, BlocksOK
<1>3. CASE m.log = n.log /\ m.metadata = n.metadata
  <2>1. \A p \in Policies : MetadataAt(m, p, m.height) = MetadataAt(n, p, n.height)
    <3>1. \A p \in Policies : Before(m, p, m.height) = Before(n, p, n.height)
      BY <1>2, <1>3 DEF Before, BlocksOK
    <3>. QED
      BY <3>1, MetadataNewest
  <2>2. BlocksOK(m)
    BY <1>2, <1>3 DEF BlocksOK
  <2>. QED
    BY <1>3, <2>1, <2>2 DEF LogOK
<1>4. CASE \E v \in Events :
          /\ m.log = n.log \cup {v} /\ v.block = m.height /\ m.height = n.height + 1
          /\ m.metadata = [n.metadata EXCEPT ![v.policy] = v.metadata]
          /\ v.name = "ProtocolRegistered" <=> ~IsKnown(n, v.policy)
  <2>1. PICK v \in Events :
          /\ m.log = n.log \cup {v} /\ v.block = m.height /\ m.height = n.height + 1
          /\ m.metadata = [n.metadata EXCEPT ![v.policy] = v.metadata]
          /\ v.name = "ProtocolRegistered" <=> ~IsKnown(n, v.policy)
    BY <1>4
  <2>2. v.policy \in Policies
    BY DEF Events
  <2>3. \A w \in n.log : w.block \in Nat /\ w.block <= n.height /\ w.block < v.block
    BY <1>1, <2>1 DEF BlocksOK
  <2>4. BlocksOK(m)
    BY <1>1, <1>2, <2>1 DEF BlocksOK
  <2>5. IsKnown(n, v.policy) <=> Before(n, v.policy, n.height) # {}
    BY <1>1, <2>2, MetadataGiven DEF LogOK, IsKnown
  <2>6. Before(n, v.policy, n.height) = {w \in n.log : w.policy = v.policy}
    BY <2>3 DEF Before
  <2>7. \A x, y \in m.log : x.block = y.block => x = y
    BY <2>1, <2>3 DEF LogOK
  <2>8. \A x, y \in m.log :
          x.name = "ProtocolRegistered" /\ y.name = "ProtocolRegistered" /\ x.policy = y.policy
            => x = y
    BY <2>1, <2>5, <2>6 DEF LogOK
  <2>9. \A x \in m.log : \E y \in m.log :
          y.name = "ProtocolRegistered" /\ y.policy = x.policy /\ y.block <= x.block
    <3>1. CASE v.name = "ProtocolRegistered"
      BY <1>2, <2>1, <3>1 DEF LogOK
    <3>2. CASE v.name # "ProtocolRegistered"
      <4>1. PICK w \in n.log : w.policy = v.policy
        BY <2>1, <2>5, <2>6, <3>2
      <4>2. PICK y \in n.log :
              y.name = "ProtocolRegistered" /\ y.policy = v.policy /\ y.block <= w.block
        BY <4>1 DEF LogOK
      <4>3. y \in m.log /\ y.block <= v.block
        BY <1>1, <2>1, <2>3, <4>1, <4>2 DEF BlocksOK
      <4>. QED
        BY <2>1, <4>2, <4>3 DEF LogOK
    <3>. QED
      BY <3>1, <3>2
  <2>10. ASSUME NEW p \in Policies PROVE m.metadata[p] = MetadataAt(m, p, m.height)
    <3>1. CASE p = v.policy
      <4>1. v \in Before(m, p, m.height)
        BY <1>2, <2>1, <3>1 DEF Before
      <4>2. \A w \in Before(m, p, m.height) : w.block <= v.block
        BY <2>1 DEF Before
      <4>3. MetadataAt(m, p, m.height) = v.metadata
        BY <1>2, <2>4, <2>7, <4>1, <4>2, MetadataOf
      <4>. QED
        BY <1>1, <2>1, <2>2, <3>1, <4>3
    <3>2. CASE p # v.policy
      <4>1. Before(m, p, m.height) = Before(n, p, n.height)
        BY <1>2, <2>1, <2>3, <3>2 DEF Before
      <4>2. MetadataAt(m, p, m.height) = MetadataAt(n, p, n.height)
        BY <4>1, MetadataNewest
      <4>3. m.metadata[p] = n.metadata[p]
        BY <1>1, <2>1, <3>2
      <4>. QED
        BY <4>2, <4>3 DEF LogOK
    <3>. QED
      BY <3>1, <3>2
  <2>. QED
    BY <2>4, <2>7, <2>8, <2>9, <2>10 DEF LogOK
<1>. QED
  BY <1>3, <1>4 DEF Improves

-----------------------------------------------------------------------------
(* What the scan has read                                                  *)

ScanFields == {"at", "began", "total", "operators", "definitions", "subnets",
               "registered", "readers", "protocols", "ids", "toRead"}

Listing(s) == s.at \in {"protocols", "done"}
HasBegun(s) == s.at \notin {"idle", "never"}
Complete(s) == \A e \in EventNames : s.readers[e].failed = {}

\* A scan, on a chain that has not gone below where it began.
ScanShape(s, n) ==
  /\ DOMAIN s = ScanFields /\ s = [f \in ScanFields |-> s[f]]
  /\ s.at \in {"idle", "never", "operators", "count", "subnets", "extend", "events",
               "protocols", "done"}
  /\ ~ HasBegun(s) => s = [NotBegun EXCEPT !.at = s.at]
  /\ HasBegun(s) => s.began \in 0 .. n.height
  /\ DOMAIN s.readers = EventNames
  /\ \A e \in EventNames :
       /\ DOMAIN s.readers[e] = {"from", "latest", "events", "failed"}
       /\ s.readers[e].latest # Unread => s.began <= s.readers[e].latest
       /\ \A v \in s.readers[e].events : v.block <= s.readers[e].latest

\* The protocols listed, if no page failed: none is missing that there was,
\* and each one's metadata were current at a block of the scan.
Listed(s, n) ==
  Listing(s) /\ Complete(s) =>
    /\ \A p \in Policies :
         MetadataAt(n, p, s.began) # Unregistered => p \in DOMAIN s.protocols
    /\ \A p \in DOMAIN s.protocols :
         /\ p \in Policies /\ s.protocols[p].metadata # Unregistered
         /\ \E b \in s.began .. n.height : MetadataAt(n, p, b) = s.protocols[p].metadata

\* The lists of subnets, and those still to be read.
ListsOK(s) ==
  /\ ~ Listing(s) => DOMAIN s.ids = {}
  /\ Listing(s) =>
       /\ DOMAIN s.protocols = DOMAIN s.ids \cup s.toRead /\ DOMAIN s.ids \cap s.toRead = {}
       /\ \A p \in DOMAIN s.protocols :
            s.protocols[p] =
              [metadata |-> s.protocols[p].metadata, subnets |-> s.protocols[p].subnets]
       /\ \A p \in s.toRead : s.protocols[p].subnets = <<>>
       /\ s.at = "done" => s.toRead = {} /\ \A p \in DOMAIN s.ids : s.ids[p] = {}

\* As long as nothing was mined, what was read is what there is.
AllRead(s, center, registry, restricted, subnets) ==
  /\ s.total = Len(center)
  /\ s.at # "operators" => s.operators = center
  /\ \A o \in DOMAIN s.registered : s.registered[o] = (o \in DOMAIN registry)
  /\ s.at \in {"events", "protocols", "done"} => Range(s.operators) \subseteq DOMAIN s.registered
  /\ s.at \notin {"operators", "count"} => s.definitions = Len(restricted)
  /\ s.subnets \in Seq(SUBSET Nat) /\ Len(s.subnets) <= Len(restricted)
  /\ \A i \in 1 .. Len(s.subnets) : s.subnets[i] = restricted[i]
  /\ s.at \notin {"operators", "count", "subnets"} => Len(s.subnets) = Len(restricted)
  /\ Listing(s) => \A p \in DOMAIN s.ids :
       /\ s.ids[p] \subseteq DOMAIN subnets[p]
       /\ s.protocols[p].subnets = [id \in DOMAIN subnets[p] \ s.ids[p] |-> subnets[p][id]]

Exact(s, n) ==
  HasBegun(s) /\ s.began = n.height =>
    AllRead(s, n.center, n.registry, n.restricted, n.subnets)

ScanOK(s, n) == ScanShape(s, n) /\ Listed(s, n) /\ ListsOK(s) /\ Exact(s, n)

ScanInv ==
  FlowInv /\ PageInv /\ LogOK(net) /\ BlocksOK(net) /\ ScanOK(scan, net)

\* What was read stays what it is when the chain grows.
LEMMA ChainKeepsScan ==
  ASSUME NEW s, NEW n, ScanOK(s, n), ChainTypeOK(n), BlocksOK(n), NEW m, Improves(n, m)
  PROVE  ScanOK(s, m)
<1>1. n.height \in Nat /\ m.height \in Nat /\ n.height <= m.height
  BY DEF Improves, BlocksOK
<1>2. ScanShape(s, m)
  BY <1>1 DEF ScanOK, ScanShape
<1>3. ASSUME Listing(s), Complete(s) PROVE Listed(s, m)
  <2>1. s.began \in Nat /\ s.began <= n.height
    BY <1>1, <1>3 DEF ScanOK, ScanShape, Listing, HasBegun
  <2>2. \A p \in Policies :
          MetadataAt(m, p, s.began) # Unregistered => p \in DOMAIN s.protocols
    BY <1>3, <2>1, MetadataStays DEF ScanOK, Listed
  <2>3. ASSUME NEW p \in DOMAIN s.protocols
        PROVE  /\ p \in Policies /\ s.protocols[p].metadata # Unregistered
               /\ \E b \in s.began .. m.height : MetadataAt(m, p, b) = s.protocols[p].metadata
    <3>1. /\ p \in Policies /\ s.protocols[p].metadata # Unregistered
          /\ \E b \in s.began .. n.height : MetadataAt(n, p, b) = s.protocols[p].metadata
      BY <1>3 DEF ScanOK, Listed
    <3>2. PICK b \in s.began .. n.height : MetadataAt(n, p, b) = s.protocols[p].metadata
      BY <3>1
    <3>3. b \in Nat /\ b <= n.height /\ b \in s.began .. m.height
      BY <1>1, <2>1
    <3>. QED
      BY <3>1, <3>2, <3>3, MetadataStays
  <2>. QED
    BY <2>2, <2>3 DEF Listed
<1>4. ASSUME HasBegun(s), s.began = m.height PROVE Exact(s, m)
  <2>1. n.height = m.height
    BY <1>1, <1>4 DEF ScanOK, ScanShape
  <2>2. m.center = n.center /\ m.registry = n.registry /\ m.restricted = n.restricted
        /\ m.subnets = n.subnets
    BY <2>1 DEF Improves, Fields
  <2>. QED
    BY <1>4, <2>1, <2>2 DEF ScanOK, Exact
<1>. QED
  BY <1>2, <1>3, <1>4 DEF ScanOK, Listed, Exact

\* A step before the protocols are listed that reads no events.
LEMMA EarlyStep ==
  ASSUME NEW s, NEW n, ScanShape(s, n), HasBegun(s), ~ Listing(s), ListsOK(s), NEW t,
         DOMAIN t = ScanFields, t = [f \in ScanFields |-> t[f]],
         t.at \in {"operators", "count", "subnets", "extend", "events"},
         t.began = s.began, t.readers = s.readers, t.ids = s.ids
  PROVE  ScanShape(t, n) /\ Listed(t, n) /\ ListsOK(t)
BY DEF ScanShape, HasBegun, Listed, ListsOK, Listing

\* The scan begins.
LEMMA BeginReads == ASSUME ScanInv, Begin PROVE ScanOK(scan', net)
<1>. DEFINE s == scan  t == scan'
<1>1. /\ s.at = "idle" /\ s = [NotBegun EXCEPT !.at = s.at]
      /\ t = [s EXCEPT !.began = net.height, !.total = Len(net.center), !.at = "operators"]
  BY DEF ScanInv, ScanOK, ScanShape, HasBegun, Begin, At, To
<1>2. /\ DOMAIN t = ScanFields /\ t = [f \in ScanFields |-> t[f]] /\ t.at = "operators"
      /\ t.began = net.height /\ t.total = Len(net.center) /\ t.readers = s.readers
      /\ t.registered = <<>> /\ t.subnets = <<>> /\ t.ids = <<>>
  BY <1>1 DEF NotBegun, ScanFields
<1>3. \A e \in EventNames : s.readers[e].latest = Unread /\ s.readers[e].events = {}
                            /\ DOMAIN s.readers[e] = {"from", "latest", "events", "failed"}
  BY <1>1 DEF NotBegun, Reader
<1>4. DOMAIN t.readers = EventNames
  BY <1>1, <1>2 DEF NotBegun
<1>5. net.height \in Nat /\ net.restricted \in Seq(SUBSET Nat) /\ Len(net.restricted) \in Nat
  BY ChainFields, ChainBooks DEF ScanInv, FlowInv
<1>. HIDE DEF s, t
<1>6. ScanShape(t, net)
  BY <1>2, <1>3, <1>4, <1>5 DEF ScanShape, HasBegun
<1>7. Listed(t, net) /\ ListsOK(t)
  <2>1. DOMAIN <<>> = {}
    OBVIOUS
  <2>. QED
    BY <1>2, <2>1 DEF Listed, ListsOK, Listing
<1>8. Exact(t, net)
  <2>1. t.subnets \in Seq(SUBSET Nat) /\ Len(t.subnets) = 0 /\ DOMAIN t.registered = {}
    <3>1. <<>> \in Seq(SUBSET Nat) /\ Len(<<>>) = 0 /\ DOMAIN <<>> = {}
      OBVIOUS
    <3>. QED
      BY <1>2, <3>1, Zenon
  <2>. QED
    BY <1>2, <1>5, <2>1 DEF Exact, AllRead, Listing
<1>. QED
  BY <1>6, <1>7, <1>8 DEF ScanOK, t

\* The operators are read.
LEMMA OperatorsRead == ASSUME ScanInv, getAllOthenticOperators PROVE ScanOK(scan', net)
<1>. DEFINE s == scan  t == scan'
<1>1. /\ s.at = "operators" /\ ScanOK(s, net)
      /\ t = [s EXCEPT !.operators = SubSeq(net.center, 1, s.total), !.at = "count"]
  BY DEF ScanInv, getAllOthenticOperators, At, To
<1>2. /\ DOMAIN t = ScanFields /\ t = [f \in ScanFields |-> t[f]] /\ t.at = "count"
      /\ t.operators = SubSeq(net.center, 1, s.total)
      /\ \A f \in ScanFields \ {"operators", "at"} : t[f] = s[f]
  BY <1>1 DEF ScanOK, ScanShape, ScanFields
<1>3. HasBegun(s)
  BY <1>1 DEF HasBegun
<1>4. SubSeq(net.center, 1, Len(net.center)) = net.center
  <2>1. net.center \in Seq(Operators)
    BY ChainFields DEF ScanInv, FlowInv
  <2>. DEFINE c == net.center
  <2>. HIDE DEF c
  <2>2. ASSUME c \in Seq(Operators) PROVE SubSeq(c, 1, Len(c)) = c
    BY <2>2
  <2>. QED
    BY <2>1, <2>2 DEF c
<1>. HIDE DEF s, t
<1>5. /\ t.began = s.began /\ t.readers = s.readers /\ t.ids = s.ids /\ t.total = s.total
      /\ t.registered = s.registered /\ t.subnets = s.subnets
  BY <1>2 DEF ScanFields
<1>6. ScanShape(t, net) /\ Listed(t, net) /\ ListsOK(t)
  <2>1. ScanShape(s, net) /\ ListsOK(s) /\ ~ Listing(s)
    BY <1>1 DEF ScanOK, Listing
  <2>2. t.at \in {"operators", "count", "subnets", "extend", "events"}
    BY <1>2
  <2>. QED
    BY <1>2, <1>3, <1>5, <2>1, <2>2, EarlyStep
<1>7. Exact(t, net)
  BY <1>1, <1>2, <1>3, <1>4, <1>5 DEF ScanOK, Exact, AllRead, Listing, HasBegun
<1>. QED
  BY <1>6, <1>7 DEF ScanOK, t

\* The subnets are counted.
LEMMA SubnetsCounted == ASSUME ScanInv, CountSubnets PROVE ScanOK(scan', net)
<1>. DEFINE s == scan  t == scan'
<1>1. /\ s.at = "count" /\ ScanOK(s, net)
      /\ t = [s EXCEPT !.definitions = Len(net.restricted), !.at = "subnets"]
  BY DEF ScanInv, CountSubnets, At, To
<1>2. /\ DOMAIN t = ScanFields /\ t = [f \in ScanFields |-> t[f]] /\ t.at = "subnets"
      /\ t.definitions = Len(net.restricted)
      /\ \A f \in ScanFields \ {"definitions", "at"} : t[f] = s[f]
  BY <1>1 DEF ScanOK, ScanShape, ScanFields
<1>3. HasBegun(s)
  BY <1>1 DEF HasBegun
<1>. HIDE DEF s, t
<1>5. /\ t.began = s.began /\ t.readers = s.readers /\ t.ids = s.ids /\ t.total = s.total
      /\ t.registered = s.registered /\ t.subnets = s.subnets /\ t.operators = s.operators
  BY <1>2 DEF ScanFields
<1>6. ScanShape(t, net) /\ Listed(t, net) /\ ListsOK(t)
  <2>1. ScanShape(s, net) /\ ListsOK(s) /\ ~ Listing(s)
    BY <1>1 DEF ScanOK, Listing
  <2>2. t.at \in {"operators", "count", "subnets", "extend", "events"}
    BY <1>2
  <2>. QED
    BY <1>2, <1>3, <1>5, <2>1, <2>2, EarlyStep
<1>7. Exact(t, net)
  BY <1>1, <1>2, <1>3, <1>5 DEF ScanOK, Exact, AllRead, Listing, HasBegun
<1>. QED
  BY <1>6, <1>7 DEF ScanOK, t

\* The attesters of the next subnet are read, or there is none.
LEMMA SubnetsAreRead == ASSUME ScanInv, getAllOthenticSubnets PROVE ScanOK(scan', net)
<1>. DEFINE s == scan  t == scan'
            i == Len(s.subnets) + 1
<1>1. /\ s.at = "subnets" /\ ScanOK(s, net)
      /\ \/ i > s.definitions /\ t = [s EXCEPT !.at = "extend"]
         \/ ~ i > s.definitions
            /\ t = [s EXCEPT !.subnets = Append(s.subnets, net.restricted[i])]
  BY DEF ScanInv, getAllOthenticSubnets, At, To
<1>2. /\ DOMAIN t = ScanFields /\ t = [f \in ScanFields |-> t[f]]
      /\ t.at \in {"subnets", "extend"}
      /\ \A f \in ScanFields \ {"subnets", "at"} : t[f] = s[f]
      /\ \/ i > s.definitions /\ t.at = "extend" /\ t.subnets = s.subnets
         \/ /\ ~ i > s.definitions /\ t.at = "subnets"
            /\ t.subnets = Append(s.subnets, net.restricted[i])
  BY <1>1 DEF ScanOK, ScanShape, ScanFields
<1>3. HasBegun(s)
  BY <1>1 DEF HasBegun
<1>4. net.restricted \in Seq(SUBSET Nat) /\ Len(net.restricted) \in Nat
  BY ChainFields, ChainBooks DEF ScanInv, FlowInv
<1>. HIDE DEF s, t
<1>5. /\ t.began = s.began /\ t.readers = s.readers /\ t.ids = s.ids /\ t.total = s.total
      /\ t.registered = s.registered /\ t.operators = s.operators
      /\ t.definitions = s.definitions
  BY <1>2 DEF ScanFields
<1>6. ScanShape(t, net) /\ Listed(t, net) /\ ListsOK(t)
  <2>1. ScanShape(s, net) /\ ListsOK(s) /\ ~ Listing(s)
    BY <1>1 DEF ScanOK, Listing
  <2>2. t.at \in {"operators", "count", "subnets", "extend", "events"}
    BY <1>2
  <2>. QED
    BY <1>2, <1>3, <1>5, <2>1, <2>2, EarlyStep
<1>7. ASSUME t.began = net.height PROVE Exact(t, net)
  <2>1. /\ s.definitions = Len(net.restricted)
        /\ s.subnets \in Seq(SUBSET Nat) /\ Len(s.subnets) <= Len(net.restricted)
        /\ \A j \in 1 .. Len(s.subnets) : s.subnets[j] = net.restricted[j]
        /\ s.total = Len(net.center) /\ s.operators = net.center
        /\ \A o \in DOMAIN s.registered : s.registered[o] = (o \in DOMAIN net.registry)
    BY <1>1, <1>3, <1>5, <1>7 DEF ScanOK, Exact, AllRead
  <2>2. /\ t.subnets \in Seq(SUBSET Nat) /\ Len(t.subnets) <= Len(net.restricted)
        /\ \A j \in 1 .. Len(t.subnets) : t.subnets[j] = net.restricted[j]
        /\ t.at = "extend" => Len(t.subnets) = Len(net.restricted)
    <3>1. CASE t.at = "extend"
      <4>1. t.subnets = s.subnets /\ Len(s.subnets) + 1 > Len(net.restricted)
        BY <1>2, <2>1, <3>1
      <4>. QED
        BY <1>4, <2>1, <4>1
    <3>2. CASE t.at = "subnets"
      <4>. DEFINE next == net.restricted[Len(s.subnets) + 1]
      <4>0. Len(s.subnets) \in Nat /\ ~ Len(s.subnets) + 1 > s.definitions
        BY <1>2, <2>1, <3>2
      <4>1. t.subnets = Append(s.subnets, next) /\ Len(s.subnets) + 1 <= Len(net.restricted)
        <5>1. t.subnets = Append(s.subnets, next)
          BY <1>2, <3>2, Zenon
        <5>2. Len(s.subnets) + 1 <= Len(net.restricted)
          BY <1>4, <2>1, <4>0
        <5>. QED
          BY <5>1, <5>2
      <4>2. next \in SUBSET Nat /\ Len(s.subnets) \in Nat
        BY <1>4, <2>1, <4>1
      <4>3. /\ t.subnets \in Seq(SUBSET Nat) /\ Len(t.subnets) = Len(s.subnets) + 1
            /\ \A j \in 1 .. Len(s.subnets) : t.subnets[j] = s.subnets[j]
            /\ t.subnets[Len(s.subnets) + 1] = next
        <5>. HIDE DEF next
        <5>. QED
          BY <2>1, <4>1, <4>2
      <4>. QED
        BY <2>1, <3>2, <4>1, <4>2, <4>3
    <3>. QED
      BY <1>2, <3>1, <3>2
  <2>. QED
    BY <1>2, <1>5, <2>1, <2>2 DEF Exact, AllRead, Listing
<1>. QED
  BY <1>6, <1>7 DEF ScanOK, t, Exact

\* An operator is looked up in the registry, or all were.
LEMMA OperatorsExtended == ASSUME ScanInv, extendVennOperators PROVE ScanOK(scan', net)
<1>. DEFINE s == scan  t == scan'
<1>1. /\ s.at = "extend" /\ ScanOK(s, net)
      /\ \/ Range(s.operators) \ DOMAIN s.registered = {} /\ t = [s EXCEPT !.at = "events"]
         \/ \E o \in Range(s.operators) \ DOMAIN s.registered :
              t = [s EXCEPT !.registered = Written(s.registered, o, o \in DOMAIN net.registry)]
  BY DEF ScanInv, extendVennOperators, At, To
<1>2. /\ DOMAIN t = ScanFields /\ t = [f \in ScanFields |-> t[f]]
      /\ t.at \in {"extend", "events"}
      /\ \A f \in ScanFields \ {"registered", "at"} : t[f] = s[f]
      /\ \/ /\ Range(s.operators) \ DOMAIN s.registered = {}
            /\ t.at = "events" /\ t.registered = s.registered
         \/ /\ t.at = "extend"
            /\ \E o \in Range(s.operators) :
                 t.registered = Written(s.registered, o, o \in DOMAIN net.registry)
  BY <1>1 DEF ScanOK, ScanShape, ScanFields
<1>3. HasBegun(s)
  BY <1>1 DEF HasBegun
<1>. HIDE DEF s, t
<1>5. /\ t.began = s.began /\ t.readers = s.readers /\ t.ids = s.ids /\ t.total = s.total
      /\ t.subnets = s.subnets /\ t.operators = s.operators
      /\ t.definitions = s.definitions
  BY <1>2 DEF ScanFields
<1>6. ScanShape(t, net) /\ Listed(t, net) /\ ListsOK(t)
  <2>1. ScanShape(s, net) /\ ListsOK(s) /\ ~ Listing(s)
    BY <1>1 DEF ScanOK, Listing
  <2>2. t.at \in {"operators", "count", "subnets", "extend", "events"}
    BY <1>2
  <2>. QED
    BY <1>2, <1>3, <1>5, <2>1, <2>2, EarlyStep
<1>7. ASSUME t.began = net.height PROVE Exact(t, net)
  <2>1. \A o \in DOMAIN s.registered : s.registered[o] = (o \in DOMAIN net.registry)
    BY <1>1, <1>3, <1>5, <1>7 DEF ScanOK, Exact, AllRead
  <2>2. \A o \in DOMAIN t.registered : t.registered[o] = (o \in DOMAIN net.registry)
    <3>1. ASSUME NEW k, t.registered = Written(s.registered, k, k \in DOMAIN net.registry),
                 NEW o \in DOMAIN t.registered
          PROVE  t.registered[o] = (o \in DOMAIN net.registry)
      <4>1. o \in DOMAIN s.registered \cup {k}
        BY <3>1, Zenon DEF Written
      <4>2. t.registered[o] = IF o = k THEN k \in DOMAIN net.registry ELSE s.registered[o]
        BY <3>1, <4>1, Zenon DEF Written
      <4>. QED
        BY <2>1, <4>1, <4>2, Zenon
    <3>. QED
      BY <1>2, <2>1, <3>1, Zenon
  <2>3. t.at = "events" => Range(t.operators) \subseteq DOMAIN t.registered
    BY <1>2, <1>5
  <2>. QED
    BY <1>1, <1>2, <1>3, <1>5, <1>7, <2>2, <2>3 DEF ScanOK, Exact, AllRead, Listing
<1>. QED
  BY <1>6, <1>7 DEF ScanOK, t, Exact

\* A loop of events moves on.
LEMMA ReaderStep ==
  ASSUME ScanInv, scan.at = "events", NEW e \in EventNames, NEW q,
         DOMAIN q = {"from", "latest", "events", "failed"},
         q.latest # Unread => scan.began <= q.latest,
         \A v \in q.events : v.block <= q.latest,
         scan' = [scan EXCEPT !.readers[e] = q]
  PROVE  ScanOK(scan', net)
<1>. DEFINE s == scan  t == scan'
<1>1. s.at = "events" /\ ScanOK(s, net) /\ t = [s EXCEPT !.readers[e] = q]
  BY DEF ScanInv
<1>2. /\ DOMAIN t = ScanFields /\ t = [f \in ScanFields |-> t[f]]
      /\ t.readers = [s.readers EXCEPT ![e] = q]
      /\ \A f \in ScanFields \ {"readers"} : t[f] = s[f]
  BY <1>1 DEF ScanOK, ScanShape, ScanFields
<1>. HIDE DEF s, t
<1>3. /\ t.at = "events" /\ t.began = s.began /\ t.total = s.total /\ t.ids = s.ids
      /\ t.registered = s.registered /\ t.operators = s.operators
      /\ t.definitions = s.definitions /\ t.subnets = s.subnets
  BY <1>1, <1>2 DEF ScanFields
<1>4. ScanShape(t, net)
  <2>1. /\ DOMAIN s.readers = EventNames /\ s.began \in 0 .. net.height
        /\ \A d \in EventNames :
             /\ DOMAIN s.readers[d] = {"from", "latest", "events", "failed"}
             /\ s.readers[d].latest # Unread => s.began <= s.readers[d].latest
             /\ \A v \in s.readers[d].events : v.block <= s.readers[d].latest
    BY <1>1 DEF ScanOK, ScanShape, HasBegun
  <2>2. DOMAIN t.readers = EventNames
        /\ \A d \in EventNames : t.readers[d] = IF d = e THEN q ELSE s.readers[d]
    BY <1>2, <2>1
  <2>3. \A d \in EventNames :
             /\ DOMAIN t.readers[d] = {"from", "latest", "events", "failed"}
             /\ t.readers[d].latest # Unread => s.began <= t.readers[d].latest
             /\ \A v \in t.readers[d].events : v.block <= t.readers[d].latest
    BY <2>1, <2>2, s = scan, Zenon DEF s
  <2>. QED
    BY <1>2, <1>3, <2>1, <2>2, <2>3 DEF ScanShape, HasBegun
<1>5. Listed(t, net) /\ ListsOK(t)
  BY <1>1, <1>3 DEF ScanOK, Listed, ListsOK, Listing
<1>6. Exact(t, net)
  BY <1>1, <1>3 DEF ScanOK, Exact, AllRead, Listing, HasBegun
<1>. QED
  BY <1>4, <1>5, <1>6 DEF ScanOK, t

\* The latest block is read before the events are.
LEMMA LatestIsRead ==
  ASSUME ScanInv, NEW e \in EventNames, ReadLatestBlock(e) PROVE ScanOK(scan', net)
<1>. DEFINE r == scan.readers[e]
            q == [r EXCEPT !.latest = net.height]
<1>1. scan.at = "events" /\ r.latest = Unread /\ scan' = [scan EXCEPT !.readers[e] = q]
  BY DEF ReadLatestBlock, At
<1>2. /\ DOMAIN r = {"from", "latest", "events", "failed"}
      /\ \A v \in r.events : v.block <= r.latest
      /\ scan.began <= net.height
  BY <1>1 DEF ScanInv, ScanOK, ScanShape, HasBegun
<1>3. \A v \in r.events : v.block \in Nat
  BY DEF ScanInv, PageInv, PagedExactly, BlocksOK
<1>4. net.height \in Nat
  BY DEF ScanInv, BlocksOK
<1>5. \A v \in r.events : v.block <= net.height
  BY <1>1, <1>2, <1>3, <1>4 DEF Unread
<1>6. DOMAIN q = {"from", "latest", "events", "failed"} /\ q.latest = net.height
      /\ q.events = r.events
  BY <1>2
<1>. HIDE DEF q, r
<1>. QED
  BY <1>1, <1>2, <1>5, <1>6, ReaderStep

\* A page is read or left out.
LEMMA PageIsRead ==
  ASSUME ScanInv, NEW e \in EventNames, ReadPage(e) \/ SkipPage(e) PROVE ScanOK(scan', net)
<1>. DEFINE r == scan.readers[e]
            a == Reader(NextBlock(r), r.latest,
                        r.events \cup {v \in net.log : v.name = e /\ InPage(r, v.block)}, r.failed)
            b == Reader(NextBlock(r), r.latest, r.events, r.failed \cup (r.from .. ToBlock(r)))
<1>1. /\ scan.at = "events" /\ r.latest # Unread /\ r.from <= r.latest
      /\ scan' = [scan EXCEPT !.readers[e] = a] \/ scan' = [scan EXCEPT !.readers[e] = b]
  BY DEF ReadPage, SkipPage, At, PageLeft
<1>2. /\ r.latest # Unread => scan.began <= r.latest
      /\ \A v \in r.events : v.block <= r.latest
  BY DEF ScanInv, ScanOK, ScanShape
<1>3. r.latest \in Nat /\ r.from \in Nat
  BY <1>1 DEF ScanInv, PageInv, ReadersOK, ReaderOK, ChainOK
<1>4. ToBlock(r) \in Int /\ ToBlock(r) <= r.latest
  BY <1>3, TopologyAssumption DEF ToBlock, Minimum
<1>5. \A v \in net.log : v.block \in Nat
  BY DEF ScanInv, BlocksOK
<1>6. \A v \in net.log : InPage(r, v.block) => v.block <= r.latest
  BY <1>3, <1>4, <1>5 DEF InPage
<1>7. /\ DOMAIN a = {"from", "latest", "events", "failed"} /\ a.latest = r.latest
      /\ a.events = r.events \cup {v \in net.log : v.name = e /\ InPage(r, v.block)}
      /\ DOMAIN b = {"from", "latest", "events", "failed"} /\ b.latest = r.latest
      /\ b.events = r.events
  BY DEF Reader
<1>8. \A v \in a.events : v.block <= a.latest
  BY <1>2, <1>6, <1>7
<1>. HIDE DEF a, b
<1>. QED
  BY <1>1, <1>2, <1>7, <1>8, ReaderStep

\* When no page is left and none failed, a loop has found the events of its
\* name up to the latest block it knows of.
LEMMA EventsFound ==
  ASSUME ScanInv, Complete(scan), HasBegun(scan), NEW e \in EventNames,
         scan.readers[e].latest # Unread, ~PageLeft(e)
  PROVE  /\ scan.readers[e].latest \in scan.began .. net.height
         /\ scan.began \in Nat /\ scan.readers[e].latest \in Nat
         /\ scan.readers[e].events =
              {v \in net.log : v.name = e /\ v.block <= scan.readers[e].latest}
<1>. DEFINE r == scan.readers[e]
<1>1. r.latest \in 0 .. net.height /\ r.from \in Nat /\ net.height \in Nat
  BY DEF ScanInv, PageInv, ReadersOK, ReaderOK, BlocksOK
<1>2. scan.began \in 0 .. net.height /\ scan.began <= r.latest
      /\ \A v \in r.events : v.block <= r.latest
  BY DEF ScanInv, ScanOK, ScanShape
<1>3. r.events = {v \in net.log : v.name = e /\ StartBlock <= v.block /\ v.block < r.from}
  BY DEF ScanInv, PageInv, PagedExactly, Complete
<1>4. \A v \in net.log : StartBlock <= v.block /\ v.block \in Nat
  BY DEF ScanInv, BlocksOK
<1>5. ~ r.from <= r.latest
  BY DEF PageLeft
<1>. HIDE DEF r
<1>6. r.events = {v \in net.log : v.name = e /\ v.block <= r.latest}
  BY <1>1, <1>2, <1>3, <1>4, <1>5
<1>7. r.latest \in scan.began .. net.height /\ scan.began \in Nat /\ r.latest \in Nat
  BY <1>1, <1>2
<1>. QED
  BY <1>6, <1>7 DEF r

\* A protocol that there was when the scan began is found.
LEMMA KnownAreFound ==
  ASSUME ScanInv, Complete(scan), HasBegun(scan),
         \A e \in EventNames : scan.readers[e].latest # Unread /\ ~PageLeft(e),
         NEW p \in Policies, MetadataAt(net, p, scan.began) # Unregistered
  PROVE  p \in {v.policy : v \in Registrations}
<1>. DEFINE e == "ProtocolRegistered"
            r == scan.readers[e]
<1>1. /\ r.latest \in scan.began .. net.height /\ scan.began \in Nat /\ r.latest \in Nat
      /\ Registrations = {v \in net.log : v.name = e /\ v.block <= r.latest}
  BY EventsFound DEF EventNames, Registrations
<1>2. PICK v \in net.log : v.policy = p /\ v.block <= scan.began
  BY <1>1, MetadataGiven DEF ScanInv, FlowInv, Before
<1>3. PICK w \in net.log : w.name = e /\ w.policy = v.policy /\ w.block <= v.block
  BY DEF ScanInv, LogOK
<1>4. v.block \in Nat /\ w.block \in Nat
  BY DEF ScanInv, BlocksOK
<1>5. w.block <= r.latest
  BY <1>1, <1>2, <1>3, <1>4
<1>. QED
  BY <1>1, <1>2, <1>3, <1>5

\* The metadata that is listed for a protocol was its own at a block not
\* before the scan began: the latest one of the loop of updates, or the block
\* of its registration if it is registered after that and not updated.
LEMMA FoundWasCurrent ==
  ASSUME ScanInv, Complete(scan), HasBegun(scan),
         \A e \in EventNames : scan.readers[e].latest # Unread /\ ~PageLeft(e),
         NEW p \in {v.policy : v \in Registrations}
  PROVE  /\ p \in Policies /\ MetadataFrom(p) # Unregistered
         /\ \E b \in scan.began .. net.height : MetadataAt(net, p, b) = MetadataFrom(p)
<1>. DEFINE h == scan.readers["ProtocolUpdated"].latest
            g == scan.readers["ProtocolRegistered"].latest
            updates == {v \in Updates : v.policy = p}
            all == IF updates # {} THEN updates ELSE {v \in Registrations : v.policy = p}
            c == CHOOSE v \in all : \A w \in all : w.block <= v.block
<1>1. /\ h \in scan.began .. net.height /\ h \in Nat /\ scan.began \in Nat /\ g \in Nat
      /\ g <= net.height
      /\ Updates = {v \in net.log : v.name = "ProtocolUpdated" /\ v.block <= h}
      /\ Registrations = {v \in net.log : v.name = "ProtocolRegistered" /\ v.block <= g}
  BY EventsFound DEF EventNames, Registrations, Updates
<1>2. MetadataFrom(p) = c.metadata
  BY DEF MetadataFrom
<1>3. PICK r \in net.log : r.name = "ProtocolRegistered" /\ r.policy = p /\ r.block <= g
  BY <1>1
<1>4. /\ \A v \in net.log : v \in Events /\ v.block \in Nat /\ v.block <= net.height
      /\ net.height \in Nat
  BY ChainFields DEF ScanInv, FlowInv, BlocksOK
<1>5. \A v \in net.log : v.policy = p => r.block <= v.block
  <2>. SUFFICES ASSUME NEW v \in net.log, v.policy = p PROVE r.block <= v.block
    OBVIOUS
  <2>1. PICK w \in net.log : w.name = "ProtocolRegistered" /\ w.policy = p /\ w.block <= v.block
    BY DEF ScanInv, LogOK
  <2>2. w = r
    BY <1>3, <2>1 DEF ScanInv, LogOK
  <2>. QED
    BY <2>1, <2>2
<1>6. \A v \in net.log : v.policy = p /\ v.name = "ProtocolRegistered" => v = r
  BY <1>3 DEF ScanInv, LogOK
<1>7. \A v \in net.log : v.name \in {"ProtocolRegistered", "ProtocolUpdated"}
  BY <1>4 DEF Events
<1>8. all # {} /\ all \subseteq net.log /\ r \in Registrations
  BY <1>1, <1>3
<1>9. c \in all /\ \A w \in all : w.block <= c.block
  <2>1. \A v \in all : v.block \in Nat /\ v.block <= net.height
    BY <1>4, <1>8
  <2>. HIDE DEF all
  <2>2. \E v \in all : \A w \in all : w.block <= v.block
    BY <1>4, <1>8, <2>1, LatestEvent
  <2>. QED
    BY <2>2
<1>10. c \in net.log /\ c.policy = p /\ c.metadata # Unregistered /\ p \in Policies
  <2>1. c \in net.log
    BY <1>8, <1>9
  <2>2. c.policy = p
    BY <1>9
  <2>3. c \in Events
    BY <1>4, <2>1
  <2>. HIDE DEF c
  <2>. QED
    BY <2>1, <2>2, <2>3, FlowAssumption DEF Events, Original, Unregistered
<1>11. ASSUME NEW b \in Nat, c.block <= b, \A w \in Before(net, p, b) : w.block <= c.block
       PROVE  MetadataAt(net, p, b) = MetadataFrom(p)
  <2>1. c \in Before(net, p, b)
    BY <1>10, <1>11 DEF Before
  <2>2. BlocksOK(net) /\ \A x, y \in net.log : x.block = y.block => x = y
    BY DEF ScanInv, LogOK
  <2>. HIDE DEF c
  <2>. QED
    BY <1>2, <1>11, <2>1, <2>2, MetadataOf
<1>. HIDE DEF c
<1>12. CASE updates # {}
  <2>1. c \in net.log /\ c.block <= h
    BY <1>1, <1>9, <1>12
  <2>2. ASSUME NEW w \in Before(net, p, h) PROVE w.block <= c.block
    <3>1. w \in net.log /\ w.policy = p /\ w.block <= h
      BY DEF Before
    <3>2. CASE w.name = "ProtocolUpdated"
      BY <1>1, <1>9, <1>12, <3>1, <3>2
    <3>3. CASE w = r
      BY <1>5, <1>10, <3>3
    <3>. QED
      BY <1>6, <1>7, <3>1, <3>2, <3>3
  <2>. QED
    BY <1>1, <1>2, <1>10, <1>11, <2>1, <2>2
<1>13. CASE updates = {}
  <2>1. c = r
    BY <1>1, <1>6, <1>9, <1>10, <1>13
  <2>2. CASE r.block <= h
    <3>1. ASSUME NEW w \in Before(net, p, h) PROVE w = r
      <4>1. w \in net.log /\ w.policy = p /\ w.block <= h
        BY DEF Before
      <4>2. w.name # "ProtocolUpdated"
        BY <1>1, <1>13, <4>1
      <4>. QED
        BY <1>6, <1>7, <4>1, <4>2
    <3>. QED
      <4>1. \A w \in Before(net, p, h) : w.block <= c.block
        BY <1>4, <2>1, <3>1
      <4>. QED
        BY <1>1, <1>2, <1>10, <1>11, <2>1, <2>2, <4>1
  <2>3. CASE ~ r.block <= h
    <3>1. r.block \in Nat /\ r.block <= net.height /\ r.block \in scan.began .. net.height
      BY <1>1, <1>4, <2>3
    <3>2. \A w \in Before(net, p, r.block) : w.block <= c.block
      BY <2>1 DEF Before
    <3>. QED
      <4>1. c.block <= r.block
        BY <2>1, <3>1
      <4>. QED
        BY <1>2, <1>10, <1>11, <3>1, <3>2, <4>1
  <2>. QED
    BY <2>2, <2>3
<1>. QED
  BY <1>12, <1>13

\* The protocols are put together from the events.
LEMMA EventsMerged == ASSUME ScanInv, MergeEvents PROVE ScanOK(scan', net)
<1>. DEFINE s == scan  t == scan'
            known == {v.policy : v \in Registrations}
            listed == [p \in known |-> [metadata |-> MetadataFrom(p), subnets |-> <<>>]]
<1>1. /\ s.at = "events" /\ ScanOK(s, net) /\ HasBegun(s)
      /\ \A e \in EventNames : scan.readers[e].latest # Unread /\ ~PageLeft(e)
      /\ t = [s EXCEPT !.protocols = listed, !.toRead = known, !.at = "protocols"]
  BY DEF ScanInv, MergeEvents, At, To, HasBegun
<1>2. /\ DOMAIN t = ScanFields /\ t = [f \in ScanFields |-> t[f]]
      /\ t.at = "protocols" /\ t.protocols = listed /\ t.toRead = known
      /\ \A f \in ScanFields \ {"protocols", "toRead", "at"} : t[f] = s[f]
  BY <1>1 DEF ScanOK, ScanShape, ScanFields
<1>3. /\ t.began = s.began /\ t.readers = s.readers /\ t.total = s.total
      /\ t.registered = s.registered /\ t.operators = s.operators
      /\ t.definitions = s.definitions /\ t.subnets = s.subnets /\ t.ids = s.ids
  BY <1>2 DEF ScanFields
<1>4. ASSUME Complete(s)
      PROVE  /\ \A p \in Policies : MetadataAt(net, p, s.began) # Unregistered => p \in known
             /\ \A p \in known :
                  /\ p \in Policies /\ MetadataFrom(p) # Unregistered
                  /\ \E b \in s.began .. net.height : MetadataAt(net, p, b) = MetadataFrom(p)
  BY <1>1, <1>4, KnownAreFound, FoundWasCurrent
<1>5. /\ DOMAIN listed = known
      /\ \A p \in known : /\ listed[p] = [metadata |-> MetadataFrom(p), subnets |-> <<>>]
                          /\ listed[p].metadata = MetadataFrom(p) /\ listed[p].subnets = <<>>
  OBVIOUS
<1>. HIDE DEF s, t, known, listed
<1>6. ScanShape(t, net)
  BY <1>1, <1>2, <1>3 DEF ScanOK, ScanShape, HasBegun
<1>7. Listed(t, net)
  <2>1. Complete(t) <=> Complete(s)
    BY <1>3 DEF Complete
  <2>2. ASSUME Complete(s), NEW p \in known
        PROVE  /\ p \in Policies /\ t.protocols[p].metadata # Unregistered
               /\ \E b \in t.began .. net.height :
                    MetadataAt(net, p, b) = t.protocols[p].metadata
    <3>1. t.protocols[p].metadata = MetadataFrom(p)
      BY <1>2, <1>5
    <3>. QED
      BY <1>3, <1>4, <2>2, <3>1
  <2>. QED
    BY <1>2, <1>3, <1>4, <1>5, <2>1, <2>2 DEF Listed
<1>8. ListsOK(t)
  <2>1. DOMAIN t.ids = {}
    BY <1>1, <1>3 DEF ScanOK, ListsOK, Listing
  <2>2. \A p \in DOMAIN t.protocols :
          t.protocols[p] = [metadata |-> t.protocols[p].metadata, subnets |-> t.protocols[p].subnets]
    BY <1>2, <1>5
  <2>. QED
    BY <1>2, <1>5, <2>1, <2>2 DEF ListsOK, Listing
<1>9. Exact(t, net)
  <2>1. DOMAIN t.ids = {}
    BY <1>1, <1>3 DEF ScanOK, ListsOK, Listing
  <2>. QED
    BY <1>1, <1>2, <1>3, <2>1 DEF ScanOK, Exact, AllRead, HasBegun
<1>. QED
  BY <1>6, <1>7, <1>8, <1>9 DEF ScanOK, t

\* What was read before the protocols, as long as nothing was mined.
EarlierRead(s, n) ==
  /\ s.total = Len(n.center) /\ s.operators = n.center
  /\ \A o \in DOMAIN s.registered : s.registered[o] = (o \in DOMAIN n.registry)
  /\ Range(s.operators) \subseteq DOMAIN s.registered
  /\ s.definitions = Len(n.restricted)
  /\ s.subnets \in Seq(SUBSET Nat) /\ Len(s.subnets) = Len(n.restricted)
  /\ Len(s.subnets) <= Len(n.restricted)
  /\ \A i \in 1 .. Len(s.subnets) : s.subnets[i] = n.restricted[i]

\* A step among the protocols that changes no more than the lists of subnets.
LEMMA ListStep ==
  ASSUME NEW s, NEW n, ScanOK(s, n), s.at = "protocols", NEW t,
         DOMAIN t = ScanFields, t = [f \in ScanFields |-> t[f]],
         t.at \in {"protocols", "done"},
         \A f \in ScanFields \ {"at", "ids", "toRead", "protocols"} : t[f] = s[f],
         DOMAIN t.protocols = DOMAIN s.protocols,
         \A p \in DOMAIN s.protocols : t.protocols[p].metadata = s.protocols[p].metadata
  PROVE  /\ ScanShape(t, n) /\ Listed(t, n)
         /\ t.began = s.began
         /\ HasBegun(s) /\ s.began = n.height => EarlierRead(t, n)
<1>1. /\ t.began = s.began /\ t.readers = s.readers /\ t.total = s.total
      /\ t.registered = s.registered /\ t.operators = s.operators
      /\ t.definitions = s.definitions /\ t.subnets = s.subnets
  BY DEF ScanFields
<1>2. ScanShape(t, n)
  BY <1>1 DEF ScanOK, ScanShape, HasBegun
<1>3. Listed(t, n)
  BY <1>1 DEF ScanOK, Listed, Listing, Complete
<1>4. HasBegun(s) /\ s.began = n.height =>
        AllRead(s, n.center, n.registry, n.restricted, n.subnets)
  BY DEF ScanOK, Exact
<1>. QED
  BY <1>1, <1>2, <1>3, <1>4 DEF AllRead, EarlierRead

\* The ids of the subnets of a protocol are read.
LEMMA IdsAreRead ==
  ASSUME ScanInv, NEW p \in DOMAIN scan.protocols, ReadTaskDefinitionIds(p)
  PROVE  ScanOK(scan', net)
<1>. DEFINE s == scan  t == scan'
            all == DOMAIN net.subnets[p]
<1>1. /\ s.at = "protocols" /\ ScanOK(s, net) /\ p \in s.toRead
      /\ t = [s EXCEPT !.toRead = s.toRead \ {p}, !.ids = Written(s.ids, p, all)]
  BY DEF ScanInv, ReadTaskDefinitionIds, At
<1>2. /\ DOMAIN t = ScanFields /\ t = [f \in ScanFields |-> t[f]]
      /\ t.at = "protocols" /\ t.toRead = s.toRead \ {p}
      /\ t.ids = Written(s.ids, p, all) /\ t.protocols = s.protocols
      /\ \A f \in ScanFields \ {"toRead", "ids"} : t[f] = s[f]
  BY <1>1 DEF ScanOK, ScanShape, ScanFields
<1>3. /\ DOMAIN t.ids = DOMAIN s.ids \cup {p} /\ t.ids[p] = all
      /\ \A q \in DOMAIN s.ids \ {p} : t.ids[q] = s.ids[q]
  BY <1>2 DEF Written
<1>. HIDE DEF s, t, all
<1>4. /\ ScanShape(t, net) /\ Listed(t, net) /\ t.began = s.began
      /\ HasBegun(s) /\ s.began = net.height => EarlierRead(t, net)
  <2>1. \A f \in ScanFields \ {"at", "ids", "toRead", "protocols"} : t[f] = s[f]
    BY <1>2
  <2>2. /\ DOMAIN t.protocols = DOMAIN s.protocols
        /\ \A q \in DOMAIN s.protocols : t.protocols[q].metadata = s.protocols[q].metadata
    BY <1>2
  <2>3. t.at \in {"protocols", "done"}
    BY <1>2
  <2>4. ScanOK(s, net) /\ s.at = "protocols"
    BY <1>1
  <2>5. DOMAIN t = ScanFields /\ t = [f \in ScanFields |-> t[f]]
    BY <1>2
  <2>. QED
    BY <2>1, <2>2, <2>3, <2>4, <2>5, ListStep, Zenon
<1>5. /\ DOMAIN s.protocols = DOMAIN s.ids \cup s.toRead /\ DOMAIN s.ids \cap s.toRead = {}
      /\ \A q \in DOMAIN s.protocols :
            s.protocols[q] =
              [metadata |-> s.protocols[q].metadata, subnets |-> s.protocols[q].subnets]
      /\ \A q \in s.toRead : s.protocols[q].subnets = <<>>
  BY <1>1 DEF ScanOK, ListsOK, Listing
<1>6. ListsOK(t)
  BY <1>1, <1>2, <1>3, <1>5 DEF ListsOK, Listing
<1>7. ASSUME t.began = net.height, NEW q \in DOMAIN t.ids
      PROVE  /\ t.ids[q] \subseteq DOMAIN net.subnets[q]
             /\ t.protocols[q].subnets =
                  [id \in DOMAIN net.subnets[q] \ t.ids[q] |-> net.subnets[q][id]]
  <2>1. CASE q = p
    <3>1. DOMAIN net.subnets[q] \ t.ids[q] = {} /\ t.protocols[q].subnets = <<>>
      BY <1>1, <1>2, <1>3, <1>5, <2>1 DEF all
    <3>2. \A e : <<>> = [id \in {} |-> e[id]]
      OBVIOUS
    <3>. QED
      BY <1>3, <2>1, <3>1, <3>2, Zenon DEF all
  <2>2. CASE q # p
    <3>1. q \in DOMAIN s.ids /\ t.ids[q] = s.ids[q]
      BY <1>3, <1>7, <2>2
    <3>2. /\ s.ids[q] \subseteq DOMAIN net.subnets[q]
          /\ s.protocols[q].subnets =
                  [id \in DOMAIN net.subnets[q] \ s.ids[q] |-> net.subnets[q][id]]
      BY <1>1, <1>4, <1>7, <3>1 DEF ScanOK, Exact, AllRead, Listing, HasBegun
    <3>. QED
      BY <1>2, <3>1, <3>2, Zenon
  <2>. QED
    BY <2>1, <2>2
<1>8. Exact(t, net)
  <2>1. HasBegun(s)
    BY <1>1 DEF HasBegun
  <2>. QED
    BY <1>2, <1>4, <1>7, <2>1 DEF Exact, AllRead, EarlierRead
<1>. QED
  BY <1>4, <1>6, <1>8 DEF ScanOK, t

\* The operators that a protocol requires in one of its subnets are read.
LEMMA RequiredAreRead ==
  ASSUME ScanInv, NEW p \in DOMAIN scan.ids, NEW id \in scan.ids[p],
         ReadRequiredOperatorIds(p, id)
  PROVE  ScanOK(scan', net)
<1>. DEFINE s == scan  t == scan'
            new == Written(s.protocols[p].subnets, id, RequiredOf(net, p, id))
            rest == s.ids[p] \ {id}
<1>1. /\ s.at = "protocols" /\ ScanOK(s, net) /\ p \in DOMAIN s.ids /\ id \in s.ids[p]
      /\ t = [s EXCEPT !.ids[p] = rest, !.protocols[p].subnets = new]
  BY DEF ScanInv, ReadRequiredOperatorIds, At
<1>2. /\ DOMAIN t = ScanFields /\ t = [f \in ScanFields |-> t[f]]
      /\ t.at = "protocols" /\ t.toRead = s.toRead
      /\ t.ids = [s.ids EXCEPT ![p] = rest]
      /\ t.protocols = [s.protocols EXCEPT ![p].subnets = new]
      /\ \A f \in ScanFields \ {"protocols", "ids"} : t[f] = s[f]
  BY <1>1 DEF ScanOK, ScanShape, ScanFields
<1>3. /\ DOMAIN s.protocols = DOMAIN s.ids \cup s.toRead /\ DOMAIN s.ids \cap s.toRead = {}
      /\ \A q \in DOMAIN s.protocols :
            s.protocols[q] =
              [metadata |-> s.protocols[q].metadata, subnets |-> s.protocols[q].subnets]
      /\ \A q \in s.toRead : s.protocols[q].subnets = <<>>
  BY <1>1 DEF ScanOK, ListsOK, Listing
<1>. HIDE DEF s, t, new, rest
<1>4. /\ DOMAIN t.ids = DOMAIN s.ids /\ t.ids[p] = rest
      /\ \A q \in DOMAIN s.ids \ {p} : t.ids[q] = s.ids[q]
  BY <1>1, <1>2
<1>5. /\ DOMAIN t.protocols = DOMAIN s.protocols /\ p \in DOMAIN s.protocols
      /\ \A q \in DOMAIN s.protocols \ {p} : t.protocols[q] = s.protocols[q]
      /\ t.protocols[p] = [metadata |-> s.protocols[p].metadata, subnets |-> new]
  <2>1. p \in DOMAIN s.protocols
    BY <1>1, <1>3
  <2>2. s.protocols[p] = [metadata |-> s.protocols[p].metadata, subnets |-> s.protocols[p].subnets]
    BY <1>3, <2>1
  <2>. QED
    BY <1>2, <2>1, <2>2
<1>6. \A q \in DOMAIN s.protocols : t.protocols[q].metadata = s.protocols[q].metadata
  BY <1>5
<1>7. /\ ScanShape(t, net) /\ Listed(t, net) /\ t.began = s.began
      /\ HasBegun(s) /\ s.began = net.height => EarlierRead(t, net)
  <2>1. \A f \in ScanFields \ {"at", "ids", "toRead", "protocols"} : t[f] = s[f]
    BY <1>2
  <2>2. /\ DOMAIN t.protocols = DOMAIN s.protocols
        /\ \A q \in DOMAIN s.protocols : t.protocols[q].metadata = s.protocols[q].metadata
    BY <1>2, <1>5, <1>6
  <2>3. t.at \in {"protocols", "done"}
    BY <1>2
  <2>4. ScanOK(s, net) /\ s.at = "protocols"
    BY <1>1
  <2>5. DOMAIN t = ScanFields /\ t = [f \in ScanFields |-> t[f]]
    BY <1>2
  <2>. QED
    BY <2>1, <2>2, <2>3, <2>4, <2>5, ListStep, Zenon
<1>8. ListsOK(t)
  <2>1. \A q \in DOMAIN t.protocols :
            t.protocols[q] =
              [metadata |-> t.protocols[q].metadata, subnets |-> t.protocols[q].subnets]
    BY <1>3, <1>5
  <2>2. p \notin s.toRead
    BY <1>1, <1>3
  <2>3. \A q \in t.toRead : t.protocols[q].subnets = <<>>
    BY <1>2, <1>3, <1>5, <2>2
  <2>. QED
    BY <1>2, <1>3, <1>4, <1>5, <2>1, <2>3 DEF ListsOK, Listing
<1>9. ASSUME t.began = net.height, NEW q \in DOMAIN t.ids
      PROVE  /\ t.ids[q] \subseteq DOMAIN net.subnets[q]
             /\ t.protocols[q].subnets =
                  [k \in DOMAIN net.subnets[q] \ t.ids[q] |-> net.subnets[q][k]]
  <2>0. /\ s.ids[q] \subseteq DOMAIN net.subnets[q]
        /\ s.protocols[q].subnets =
                  [k \in DOMAIN net.subnets[q] \ s.ids[q] |-> net.subnets[q][k]]
    BY <1>1, <1>4, <1>7, <1>9 DEF ScanOK, Exact, AllRead, Listing, HasBegun
  <2>1. CASE q = p
    <3>1. t.protocols[q].subnets = new
      BY <1>5, <2>1
    <3>2. RequiredOf(net, p, id) = net.subnets[p][id] /\ id \in DOMAIN net.subnets[p]
      BY <1>1, <2>0, <2>1 DEF RequiredOf
    <3>. DEFINE f == net.subnets[p]
                D == DOMAIN net.subnets[p]
                old == s.protocols[p].subnets
    <3>3. old = [k \in D \ s.ids[p] |-> f[k]]
      BY <2>0, <2>1
    <3>4. new = Written(old, id, f[id])
      BY <3>2 DEF new
    <3>5. id \in D /\ id \in s.ids[p] /\ s.ids[p] \subseteq D
      BY <1>1, <2>0, <2>1, <3>2
    <3>. HIDE DEF f, D, old
    <3>6. new = [k \in D \ rest |-> f[k]]
      BY <3>3, <3>4, <3>5 DEF Written, rest
    <3>7. rest \subseteq D
      BY <3>5 DEF rest
    <3>. QED
      BY <1>4, <2>1, <3>1, <3>6, <3>7 DEF f, D
  <2>2. CASE q # p
    <3>1. q \in DOMAIN s.protocols /\ q \in DOMAIN s.ids
      BY <1>3, <1>4, <1>9
    <3>2. t.ids[q] = s.ids[q] /\ t.protocols[q] = s.protocols[q]
      BY <1>4, <1>5, <2>2, <3>1
    <3>. QED
      BY <2>0, <3>2, Zenon
  <2>. QED
    BY <2>1, <2>2
<1>10. Exact(t, net)
  <2>1. HasBegun(s)
    BY <1>1 DEF HasBegun
  <2>. QED
    BY <1>2, <1>7, <1>9, <2>1 DEF Exact, AllRead, EarlierRead
<1>. QED
  BY <1>7, <1>8, <1>10 DEF ScanOK, t

\* The topology is written when nothing is left to read.
LEMMA TopologyIsWritten == ASSUME ScanInv, WriteTopology PROVE ScanOK(scan', net)
<1>. DEFINE s == scan  t == scan'
<1>1. /\ s.at = "protocols" /\ ScanOK(s, net) /\ t = [s EXCEPT !.at = "done"]
      /\ s.toRead = {} /\ \A p \in DOMAIN s.ids : s.ids[p] = {}
  BY DEF ScanInv, WriteTopology, At, To
<1>2. /\ DOMAIN t = ScanFields /\ t = [f \in ScanFields |-> t[f]] /\ t.at = "done"
      /\ \A f \in ScanFields \ {"at"} : t[f] = s[f]
      /\ t.toRead = s.toRead /\ t.ids = s.ids /\ t.protocols = s.protocols
      /\ t.began = s.began
  BY <1>1 DEF ScanOK, ScanShape, ScanFields
<1>. HIDE DEF s, t
<1>3. /\ ScanShape(t, net) /\ Listed(t, net)
      /\ HasBegun(s) /\ s.began = net.height => EarlierRead(t, net)
  <2>1. \A f \in ScanFields \ {"at", "ids", "toRead", "protocols"} : t[f] = s[f]
    BY <1>2
  <2>2. /\ DOMAIN t.protocols = DOMAIN s.protocols
        /\ \A q \in DOMAIN s.protocols : t.protocols[q].metadata = s.protocols[q].metadata
    BY <1>2
  <2>3. t.at \in {"protocols", "done"}
    BY <1>2
  <2>4. ScanOK(s, net) /\ s.at = "protocols"
    BY <1>1
  <2>5. DOMAIN t = ScanFields /\ t = [f \in ScanFields |-> t[f]]
    BY <1>2
  <2>. QED
    BY <2>1, <2>2, <2>3, <2>4, <2>5, ListStep, Zenon
<1>4. ListsOK(t)
  BY <1>1, <1>2 DEF ScanOK, ListsOK, Listing
<1>5. Exact(t, net)
  <2>1. HasBegun(s) /\ Listing(s)
    BY <1>1 DEF HasBegun, Listing
  <2>2. s.began = net.height => \A p \in DOMAIN s.ids :
         /\ s.ids[p] \subseteq DOMAIN net.subnets[p]
         /\ s.protocols[p].subnets =
              [id \in DOMAIN net.subnets[p] \ s.ids[p] |-> net.subnets[p][id]]
    BY <1>1, <2>1 DEF ScanOK, Exact, AllRead
  <2>3. s.began = net.height => AllRead(t, net.center, net.registry, net.restricted, net.subnets)
    <3>1. s.began = net.height => \A p \in DOMAIN t.ids :
           /\ t.ids[p] \subseteq DOMAIN net.subnets[p]
           /\ t.protocols[p].subnets =
                [id \in DOMAIN net.subnets[p] \ t.ids[p] |-> net.subnets[p][id]]
      BY <1>2, <2>2, Zenon
    <3>. QED
      BY <1>2, <1>3, <2>1, <3>1 DEF AllRead, EarlierRead
  <2>. QED
    BY <1>2, <2>3 DEF Exact
<1>. QED
  BY <1>3, <1>4, <1>5 DEF ScanOK, t

\* Every step of the scan leaves it as it should be.
LEMMA ScanNextKeepsScan == ASSUME ScanInv, ScanNext PROVE ScanOK(scan', net)
BY BeginReads, OperatorsRead, SubnetsCounted, SubnetsAreRead, OperatorsExtended,
   LatestIsRead, PageIsRead, EventsMerged, IdsAreRead, RequiredAreRead, TopologyIsWritten
   DEF ScanNext

\* Only the scan reads.
LEMMA OthersKeepScan ==
  ASSUME [NetworkNext]_networkVars, ~ ScanNext PROVE scan' = scan
BY DEF NetworkNext, networkVars, flowVars, Deliver

\* Scan, chain and log stay as they should be.
LEMMA ScanInvNext == ASSUME ScanInv, PageInv', [NetworkNext]_networkVars PROVE ScanInv'
<1>1. FlowInv' /\ Improves(net, net')
  BY FlowInvNext DEF ScanInv
<1>2. ChainTypeOK(net) /\ LogOK(net) /\ BlocksOK(net) /\ ScanOK(scan, net)
  BY DEF ScanInv, FlowInv
<1>3. LogOK(net') /\ BlocksOK(net')
  BY <1>1, <1>2, LogStaysOK
<1>4. ScanOK(scan', net')
  <2>1. CASE ScanNext
    <3>1. net' = net
      BY <2>1, ScanKeepsNet DEF Keep
    <3>. QED
      BY <2>1, <3>1, ScanNextKeepsScan
  <2>2. CASE ~ ScanNext
    BY <1>1, <1>2, <2>2, OthersKeepScan, ChainKeepsScan
  <2>. QED
    BY <2>1, <2>2
<1>5. LogOK(net)' /\ BlocksOK(net)' /\ ScanOK(scan, net)'
  BY <1>3, <1>4
<1>. QED
  BY <1>1, <1>5 DEF ScanInv

\* A scan that has not begun.
LEMMA ScanInvInit == ASSUME NetworkInit PROVE ScanInv
<1>1. PICK s \in Scenarios :
        net = s.net /\ scan = (IF s.scans THEN NotBegun ELSE NeverBegins)
  BY DEF NetworkInit, FlowInit
<1>2. FlowInv /\ PageInv /\ LogOK(net) /\ BlocksOK(net)
  BY <1>1, FlowInvInit, PageInvInit, ScenariosAssumption, ChainFields DEF BlocksOK
<1>3. /\ DOMAIN scan = ScanFields /\ scan = [f \in ScanFields |-> scan[f]]
      /\ scan.at \in {"idle", "never"} /\ scan = [NotBegun EXCEPT !.at = scan.at]
      /\ scan.readers = [e \in EventNames |-> Reader(StartBlock, Unread, {}, {})]
      /\ scan.ids = <<>>
  BY <1>1 DEF NotBegun, NeverBegins, ScanFields
<1>4. /\ DOMAIN scan.readers = EventNames
      /\ \A e \in EventNames : scan.readers[e] = Reader(StartBlock, Unread, {}, {})
  BY <1>3
<1>5. ScanShape(scan, net)
  BY <1>3, <1>4 DEF ScanShape, HasBegun, Reader
<1>6. DOMAIN scan.ids = {}
  BY <1>3
<1>7. Listed(scan, net) /\ ListsOK(scan) /\ Exact(scan, net)
  BY <1>3, <1>6 DEF Listed, ListsOK, Exact, Listing, HasBegun
<1>. QED
  BY <1>2, <1>5, <1>7 DEF ScanInv, ScanOK

\* What the scan read is in every state as it should be.
LEMMA ScanInvHolds == NetworkSpec => []ScanInv
<1>1. NetworkInit => ScanInv
  BY ScanInvInit
<1>2. ScanInv /\ PageInv' /\ [NetworkNext]_networkVars => ScanInv'
  BY ScanInvNext
<1>. QED
  BY <1>1, <1>2, PageInvHolds, PTL DEF NetworkSpec

\* Whatever is registered or updated while the scan goes over the pages, if
\* none failed every protocol there was when it began is listed, and all with
\* metadata that were current at a block of the scan.
THEOREM ScanIsCurrent == NetworkSpec => []ProtocolsWereCurrent
<1>1. ScanInv => ProtocolsWereCurrent
  BY DEF ScanInv, ScanOK, Listed, Listing, Complete, ProtocolsWereCurrent, NoFailure, At
<1>. QED
  BY <1>1, ScanInvHolds, PTL

\* If nothing was mined while it ran and no page failed, the topology it
\* wrote is the chain's: operators, subnets, protocols and all their lists.
THEOREM ScanIsExact == NetworkSpec => []QuietScanIsExact
<1>1. ScanInv => QuietScanIsExact
  <2>. SUFFICES ASSUME ScanInv, At("done"), NoFailure, scan.began = net.height
                PROVE  /\ scan.operators = net.center /\ scan.subnets = net.restricted
                       /\ \A o \in Range(net.center) : scan.registered[o] = (o \in DOMAIN net.registry)
                       /\ DOMAIN scan.protocols = {p \in Policies : IsKnown(net, p)}
                       /\ \A p \in DOMAIN scan.protocols :
                            scan.protocols[p] = [metadata |-> net.metadata[p], subnets |-> net.subnets[p]]
    BY DEF QuietScanIsExact
  <2>1. /\ scan.at = "done" /\ Listing(scan) /\ HasBegun(scan) /\ Complete(scan)
        /\ AllRead(scan, net.center, net.registry, net.restricted, net.subnets)
        /\ ChainTypeOK(net) /\ net.height \in Nat
    BY DEF At, Listing, HasBegun, Complete, NoFailure, ScanInv, ScanOK, Exact, FlowInv, BlocksOK
  <2>2. scan.operators = net.center
        /\ \A o \in Range(net.center) : scan.registered[o] = (o \in DOMAIN net.registry)
    BY <2>1 DEF AllRead
  <2>3. scan.subnets = net.restricted
    <3>1. /\ scan.subnets \in Seq(SUBSET Nat) /\ net.restricted \in Seq(SUBSET Nat)
          /\ Len(scan.subnets) = Len(net.restricted)
          /\ \A i \in 1 .. Len(scan.subnets) : scan.subnets[i] = net.restricted[i]
      BY <2>1, ChainFields DEF AllRead
    <3>. QED
      BY <3>1, SeqEqual
  <2>4. \A p \in Policies : MetadataAt(net, p, net.height) = net.metadata[p]
    BY DEF ScanInv, LogOK
  <2>5. ASSUME NEW p \in DOMAIN scan.protocols
        PROVE  p \in Policies /\ scan.protocols[p].metadata = net.metadata[p] /\ IsKnown(net, p)
    <3>1. /\ p \in Policies /\ scan.protocols[p].metadata # Unregistered
          /\ \E b \in scan.began .. net.height :
               MetadataAt(net, p, b) = scan.protocols[p].metadata
      BY <2>1 DEF ScanInv, ScanOK, Listed
    <3>2. \A b \in scan.began .. net.height : b = net.height
      BY <2>1
    <3>. QED
      BY <2>4, <3>1, <3>2 DEF IsKnown
  <2>6. DOMAIN scan.protocols = {p \in Policies : IsKnown(net, p)}
    <3>1. \A p \in Policies :
            MetadataAt(net, p, scan.began) # Unregistered => p \in DOMAIN scan.protocols
      BY <2>1 DEF ScanInv, ScanOK, Listed
    <3>. QED
      BY <2>4, <2>5, <3>1 DEF IsKnown
  <2>7. ASSUME NEW p \in DOMAIN scan.protocols
        PROVE  scan.protocols[p] = [metadata |-> net.metadata[p], subnets |-> net.subnets[p]]
    <3>1. /\ p \in DOMAIN scan.ids /\ scan.ids[p] = {}
          /\ scan.protocols[p] =
               [metadata |-> scan.protocols[p].metadata, subnets |-> scan.protocols[p].subnets]
      BY <2>1 DEF ScanInv, ScanOK, ListsOK
    <3>2. scan.protocols[p].subnets =
            [id \in DOMAIN net.subnets[p] \ {} |-> net.subnets[p][id]]
      BY <2>1, <3>1, Zenon DEF AllRead
    <3>3. net.subnets[p] \in [DOMAIN net.subnets[p] -> SUBSET Nat]
      BY <2>1, <2>5, ChainBooks
    <3>4. scan.protocols[p].subnets = net.subnets[p]
      <4>. DEFINE f == net.subnets[p]
                  g == scan.protocols[p].subnets
      <4>1. g = [id \in DOMAIN f \ {} |-> f[id]] /\ f \in [DOMAIN f -> SUBSET Nat]
        BY <3>2, <3>3, Zenon
      <4>. HIDE DEF f, g
      <4>2. g = f
        BY <4>1
      <4>. QED
        BY <4>2 DEF f, g
    <3>. QED
      BY <2>5, <3>1, <3>4, Zenon
  <2>. QED
    BY <2>2, <2>3, <2>6, <2>7
<1>. QED
  BY <1>1, ScanInvHolds, PTL
===============================================================================
