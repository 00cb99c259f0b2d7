---------------------------- MODULE VotingPower ----------------------------
(***************************************************************************)
(* The voting power that operators have on L2 follows the stake they have  *)
(* on L1: a service reads the stake of some operators at a block and       *)
(* reports it to the VotingPowerSyncer, which passes it on to OBLS.        *)
(*                                                                         *)
(* Reports arrive in any order, late, more than once or never, and the     *)
(* service they come from may have been replaced meanwhile.  OBLS has      *)
(* other writers as well.                                                  *)
(***************************************************************************)
EXTENDS OperatorOnboarding

CONSTANTS Syncers

ASSUME SyncersAssumption == Syncers # {}

VARIABLES
  votingPower,  \* OBLS
  vps,          \* the VotingPowerSyncer
  reports,      \* signed by a syncer
  accepted,     \* history: those of them that took effect
  l1Block,      \* the block read last: its number and the stakes in it
  elsewhere,    \* history: operators whose power came from other writers
  upkeep        \* bound: reports, syncers and powers that are still to change

syncVars == <<votingPower, vps, reports, accepted, l1Block, elsewhere, upkeep>>

FirstSyncer == CHOOSE s \in Syncers : TRUE

SyncInit(scenario) ==
  /\ votingPower = [o \in Operators |-> 0]
  /\ vps = [syncer |-> FirstSyncer, lastSyncedL1BlockNumber |-> 0]
  /\ reports = {} /\ accepted = {}
  /\ l1Block = [number |-> 1, stake |-> l1.stake]
  /\ elsewhere = {}
  /\ upkeep = scenario.upkeep

Upkeep == upkeep > 0 /\ upkeep' = upkeep - 1

(* The service reads a block: another one at least if stakes have changed. *)
ReadStake(operators) ==
  /\ Upkeep
  /\ \E n \in {l1Block.number, l1Block.number + 1} :
       /\ n = l1Block.number => l1.stake = l1Block.stake
       /\ l1Block' = [number |-> n, stake |-> l1.stake]
       /\ reports' = reports \cup
            {[by |-> vps.syncer, block |-> n, power |-> [o \in operators |-> l1.stake[o]]]}
  /\ UNCHANGED <<votingPower, vps, accepted, elsewhere>>

-----------------------------------------------------------------------------

increaseOperatorVotingPower(o, by) == votingPower[o] + by
decreaseOperatorVotingPower(o, by) == votingPower[o] - by

setOperatorVotingPower(o, power) ==
  IF power > votingPower[o] THEN increaseOperatorVotingPower(o, power - votingPower[o])
  ELSE IF power < votingPower[o] THEN decreaseOperatorVotingPower(o, votingPower[o] - power)
  ELSE votingPower[o]

(* Deviation: only the very block that was synced last is refused.         *)
updateLastSyncedL1BlockNumber_Unordered(block) ==
  /\ vps.lastSyncedL1BlockNumber # block
  /\ vps' = [vps EXCEPT !.lastSyncedL1BlockNumber = block]

updateLastSyncedL1BlockNumber(block) ==
  /\ vps.lastSyncedL1BlockNumber < block
  /\ vps' = [vps EXCEPT !.lastSyncedL1BlockNumber = block]

(* One operator, or a batch of them.                                       *)
setBatchOperatorVotingPower(report) ==
  /\ report.by = vps.syncer
  /\ updateLastSyncedL1BlockNumber(report.block)
  /\ votingPower' = [o \in Operators |->
       IF o \in DOMAIN report.power THEN setOperatorVotingPower(o, report.power[o])
       ELSE votingPower[o]]
  /\ accepted' = accepted \cup {report}
  /\ elsewhere' = elsewhere \ DOMAIN report.power
  /\ UNCHANGED <<reports, l1Block, upkeep>>

setSyncer(s) ==
  /\ Upkeep
  /\ s # vps.syncer /\ vps' = [vps EXCEPT !.syncer = s]
  /\ UNCHANGED <<votingPower, reports, accepted, l1Block, elsewhere>>

(* The attestation center and its administrators write to OBLS too.        *)
ChangeElsewhere(o, power) ==
  /\ Upkeep
  /\ power # votingPower[o] /\ votingPower' = [votingPower EXCEPT ![o] = power]
  /\ elsewhere' = elsewhere \cup {o}
  /\ UNCHANGED <<vps, reports, accepted, l1Block>>

SyncNext ==
  \/ \E operators \in (SUBSET Operators) \ {{}} : ReadStake(operators)
  \/ \E report \in reports : setBatchOperatorVotingPower(report)
  \/ \E s \in Syncers : setSyncer(s)
  \/ \E o \in Operators, power \in {0, Amount} : ChangeElsewhere(o, power)

-----------------------------------------------------------------------------

SyncTypeOK ==
  /\ votingPower \in [Operators -> Nat]
  /\ vps.syncer \in Syncers /\ vps.lastSyncedL1BlockNumber \in 0 .. l1Block.number
  /\ accepted \subseteq reports /\ elsewhere \subseteq Operators

(* However reports are delayed, reordered or repeated, and whoever is the  *)
(* syncer: what an operator votes with, unless others wrote it, is what    *)
(* the newest of the accepted reports on it says, and never more than the  *)
(* stake it has on L1.                                                     *)
PowerFollowsStake ==
  /\ SyncTypeOK
  /\ \A o \in Operators \ elsewhere :
       /\ votingPower[o] <= l1.stake[o]
       /\ \A r \in accepted : o \in DOMAIN r.power =>
            \/ votingPower[o] = r.power[o]
            \/ \E n \in accepted : o \in DOMAIN n.power /\ n.block > r.block
=============================================================================
