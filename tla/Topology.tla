------------------------------ MODULE Topology ------------------------------
(***************************************************************************)
(* The script parseTopology: it reads operators, subnets and protocols     *)
(* from the chain, call by call, while the scripts of SubnetFlows and the  *)
(* admins of the policies change it, and writes topology.json.             *)
(*                                                                         *)
(* Calls that run in parallel on different items come in any order; those  *)
(* whose answers do not change are one step.                               *)
(***************************************************************************)
EXTENDS SubnetFlows

CONSTANTS
  StartBlock,   \* the entry of the deployments file
  BLOCK_RANGE,  \* blocks in a page
  MaxFailures   \* bound: kinds of events with a failed page before the next fails

ASSUME TopologyAssumption == StartBlock \in Nat /\ BLOCK_RANGE \in Nat \ {0}

VARIABLE
  scan  \* the running scan, and what it has read

scanVars == <<scan>>
vars == <<net, processes, restarts, scan>>

EventNames == {"ProtocolRegistered", "ProtocolUpdated"}
Unread == -1

(* A loop of getAllEvents: its next block, the last block, what it pushed, *)
(* and the blocks of the pages that failed.                                *)
Reader(from, latest, events, failed) ==
  [from |-> from, latest |-> latest, events |-> events, failed |-> failed]

NotBegun ==
  [ at |-> "idle", began |-> 0, total |-> 0, operators |-> <<>>,
    definitions |-> 0, subnets |-> <<>>, registered |-> <<>>,
    readers |-> [e \in EventNames |-> Reader(StartBlock, Unread, {}, {})],
    protocols |-> <<>>, ids |-> <<>>, toRead |-> {} ]

NeverBegins == [NotBegun EXCEPT !.at = "never"]

Init == \E s \in Scenarios :
  /\ FlowInit(s)
  /\ scan = IF s.scans THEN NotBegun ELSE NeverBegins

At(phase) == scan.at = phase
Keep == UNCHANGED <<net, processes, restarts>>
To(phase, s) == scan' = [s EXCEPT !.at = phase]

-----------------------------------------------------------------------------
(* Operators and subnets.                                                  *)

Begin ==
  /\ At("idle")
  /\ To("operators", [scan EXCEPT !.began = net.height, !.total = Len(net.center)])
  /\ Keep

(* An operator's address never changes: the calls may be one step.         *)
getAllOthenticOperators ==
  /\ At("operators")
  /\ To("count", [scan EXCEPT !.operators = SubSeq(net.center, 1, scan.total)])
  /\ Keep

CountSubnets ==
  /\ At("count")
  /\ To("subnets", [scan EXCEPT !.definitions = Len(net.restricted)])
  /\ Keep

(* Subnet 0 has no restricted attesters to read.                           *)
getAllOthenticSubnets ==
  /\ At("subnets")
  /\ LET i == Len(scan.subnets) + 1
     IN IF i > scan.definitions THEN To("extend", scan)
        ELSE scan' = [scan EXCEPT !.subnets = Append(@, net.restricted[i])]
  /\ Keep

extendVennOperators ==
  /\ At("extend")
  /\ LET todo == Range(scan.operators) \ DOMAIN scan.registered
     IN \/ todo = {} /\ To("events", scan)
        \/ \E o \in todo :
             scan' = [scan EXCEPT !.registered = Written(@, o, o \in DOMAIN net.registry)]
  /\ Keep

-----------------------------------------------------------------------------
(* Protocols: two loops over pages of events, then the subnets of each.    *)

ReadLatestBlock(e) ==
  /\ At("events") /\ scan.readers[e].latest = Unread
  /\ scan' = [scan EXCEPT !.readers[e].latest = net.height]
  /\ Keep

Minimum(a, b) == IF a <= b THEN a ELSE b

ToBlock(r) == Minimum(r.from + BLOCK_RANGE - 1, r.latest)

InPage(r, block) == r.from <= block /\ block <= ToBlock(r)

PageLeft(e) == scan.readers[e].latest # Unread /\ scan.readers[e].from <= scan.readers[e].latest

(* Deviation: the next page begins at the block the last one ended with.   *)
NextBlock_Overlap(r) == ToBlock(r)

NextBlock(r) == ToBlock(r) + 1

ReadPage(e) ==
  /\ At("events") /\ PageLeft(e)
  /\ LET r == scan.readers[e]
     IN scan' = [scan EXCEPT !.readers[e] =
          Reader(NextBlock(r), r.latest,
                 r.events \cup {v \in net.log : v.name = e /\ InPage(r, v.block)},
                 r.failed)]
  /\ Keep

(* A page that cannot be fetched is left out with a warning.               *)
SkipPage(e) ==
  /\ At("events") /\ PageLeft(e)
  /\ LET r == scan.readers[e]
     IN scan' = [scan EXCEPT !.readers[e] =
          Reader(NextBlock(r), r.latest, r.events,
                 r.failed \cup (r.from .. ToBlock(r)))]
  /\ Cardinality({d \in EventNames : scan.readers[d].failed # {}}) < MaxFailures
  /\ Keep

Registrations == scan.readers["ProtocolRegistered"].events
Updates == scan.readers["ProtocolUpdated"].events

(* Deviation: a protocol keeps the metadata it was registered with.        *)
MetadataFrom_Registration(policy) ==
  (CHOOSE v \in Registrations : v.policy = policy).metadata

(* The last update wins; updates of unknown protocols are ignored.         *)
MetadataFrom(policy) ==
  LET updates == {v \in Updates : v.policy = policy}
      all == IF updates # {} THEN updates
             ELSE {v \in Registrations : v.policy = policy}
  IN (CHOOSE v \in all : \A w \in all : w.block <= v.block).metadata

MergeEvents ==
  /\ At("events")
  /\ \A e \in EventNames : scan.readers[e].latest # Unread /\ ~PageLeft(e)
  /\ LET known == {v.policy : v \in Registrations}
     IN To("protocols", [scan EXCEPT
          !.protocols = [p \in known |-> [metadata |-> MetadataFrom(p), subnets |-> <<>>]],
          !.toRead = known])
  /\ Keep

ReadTaskDefinitionIds(p) ==
  /\ At("protocols") /\ p \in scan.toRead
  /\ scan' = [scan EXCEPT !.toRead = @ \ {p},
                          !.ids = Written(@, p, DOMAIN net.subnets[p])]
  /\ Keep

(* Deviation: the required operators are not asked for.                    *)
RequiredOf_Unrequired(n, p, id) == {}

RequiredOf(n, p, id) == IF id \in DOMAIN n.subnets[p] THEN n.subnets[p][id] ELSE {}

ReadRequiredOperatorIds(p, id) ==
  /\ At("protocols") /\ id \in scan.ids[p]
  /\ scan' = [scan EXCEPT
       !.ids[p] = @ \ {id},
       !.protocols[p].subnets = Written(@, id, RequiredOf(net, p, id))]
  /\ Keep

WriteTopology ==
  /\ At("protocols") /\ scan.toRead = {}
  /\ \A p \in DOMAIN scan.ids : scan.ids[p] = {}
  /\ To("done", scan)
  /\ Keep

ScanNext ==
  \/ Begin \/ getAllOthenticOperators \/ CountSubnets \/ getAllOthenticSubnets
  \/ extendVennOperators \/ MergeEvents \/ WriteTopology
  \/ \E e \in EventNames : ReadLatestBlock(e) \/ ReadPage(e) \/ SkipPage(e)
  \/ \E p \in DOMAIN scan.protocols : ReadTaskDefinitionIds(p)
  \/ \E p \in DOMAIN scan.ids : \E id \in scan.ids[p] : ReadRequiredOperatorIds(p, id)

Next == ScanNext \/ (FlowNext /\ UNCHANGED scan)

Spec == Init /\ [][Next]_vars

-----------------------------------------------------------------------------

(* Whatever is registered meanwhile, the pages read so far hold exactly    *)
(* the events of the blocks before the next one, save the failed pages:    *)
(* none is lost between two pages and none belongs to a later block.       *)
PagedExactly ==
  \A e \in EventNames :
    LET r == scan.readers[e]
    IN r.events = {v \in net.log : /\ v.name = e /\ StartBlock <= v.block
                                   /\ v.block < r.from /\ v.block \notin r.failed}

NoFailure == \A e \in EventNames : scan.readers[e].failed = {}

(* The metadata of a protocol at a block.                                  *)
MetadataAt(n, p, block) ==
  LET before == {v \in n.log : v.policy = p /\ v.block <= block}
  IN IF before = {} THEN Unregistered
     ELSE (CHOOSE v \in before : \A w \in before : w.block <= v.block).metadata

(* If no page failed, the protocols registered when the scan began are     *)
(* listed, and the metadata listed was current at a block during it.       *)
ProtocolsWereCurrent ==
  At("done") /\ NoFailure =>
    /\ \A p \in Policies :
         MetadataAt(net, p, scan.began) # Unregistered => p \in DOMAIN scan.protocols
    /\ \A p \in DOMAIN scan.protocols : \E b \in scan.began .. net.height :
         MetadataAt(net, p, b) = scan.protocols[p].metadata

(* If nothing was mined during the scan and no page failed, the topology   *)
(* is the chain's.                                                         *)
QuietScanIsExact ==
  At("done") /\ NoFailure /\ scan.began = net.height =>
    /\ scan.operators = net.center /\ scan.subnets = net.restricted
    /\ \A o \in Range(net.center) : scan.registered[o] = (o \in DOMAIN net.registry)
    /\ DOMAIN scan.protocols = {p \in Policies : IsKnown(net, p)}
    /\ \A p \in DOMAIN scan.protocols :
         scan.protocols[p] = [metadata |-> net.metadata[p], subnets |-> net.subnets[p]]
=============================================================================
