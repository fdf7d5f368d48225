----------------------------- MODULE NcnRewards -----------------------------
(***************************************************************************)
(* The two programs together: rewards states whose Merkle root is External *)
(* are claimed against what the bytes of the ballot box hold at the time.  *)
(* dephy-rewards knows nothing of dephy-ncn: it reads 32 bytes at an       *)
(* offset of an account, and the ballot box is that account.  So the slots *)
(* of Rewards are the two root fields of the ballot box, and its trees are *)
(* the roots that operators vote for; the zero root is the empty tree.     *)
(***************************************************************************)
EXTENDS DephyNcn

CONSTANTS States, Owners, Keys, NoKey, Wallet, Amounts, TokenSupply

VARIABLES admin, authority, merkleRoot, claimed, balance, outside,
          received, deposited, everLive,
          agreed,       \* history: roots that two thirds of a vault voted for
          grown         \* history: every first vote started from the published root

\* Where the roots lie in the account data of the ballot box: after the
\* discriminator, the config and five u64, at offsets 80 and 112.
RewardsRootSlot == "rewards_root"
ProposedRootSlot == "proposed_rewards_root"
Slots == {RewardsRootSlot, ProposedRootSlot}

\* Mistake: the offset of the proposal for that of the root.
SlotsSwapped ==
    [slot \in Slots |-> IF slot = RewardsRootSlot THEN ballotBox.proposedRewardsRoot
                                                  ELSE ballotBox.rewardsRoot]

BallotSlots ==
    [slot \in Slots |-> IF slot = RewardsRootSlot THEN ballotBox.rewardsRoot
                                                  ELSE ballotBox.proposedRewardsRoot]

R == INSTANCE Rewards WITH Trees <- Roots, slotData <- BallotSlots

ASSUME SystemAssumption ==
    /\ ZeroRoot = {}
    /\ Roots \subseteq SUBSET (Owners \X Nat)
    /\ IsFiniteSet(Owners)
    /\ NoKey \notin Keys
    /\ Wallet \notin States
    /\ TokenSupply \in Nat
    /\ Amounts \subseteq Nat

accountVars == <<admin, authority, merkleRoot, claimed, balance, outside, received, deposited>>
systemVars == <<vars, accountVars, everLive, agreed, grown>>

SystemTypeOK == TypeOK /\ R!RewardsTypeOK /\ agreed \subseteq Roots /\ grown \in BOOLEAN

-----------------------------------------------------------------------------

\* What the operators agree on, by their votes alone: the roots that those who
\* voted for them in this epoch, one of them in this step, give two thirds of
\* the supply of the vault of the vote.
VotersFor(root) == {o \in Operators : votes[o].epoch = epoch /\ votes[o].root = root}

NewlyAgreed ==
    {root \in Roots :
        /\ VotersFor(root)' # {}
        /\ \E o \in Operators :
              /\ votes'[o] # votes[o]
              /\ TwoThirds(Weight(VotersFor(root))', vrtSupply[votes'[o].vault])}

ObserveAgreement == agreed' = agreed \cup NewlyAgreed

\* Operators whose rewards only accumulate: the first to vote in an epoch, whose
\* root becomes the proposal, starts from the published root.  What the others
\* vote for in the epoch does not matter.
FirstVoteGrows ==
    ballotBox'.epoch > ballotBox.epoch =>
        \A o \in Operators :
            votes'[o] # votes[o] => R!Dominates(votes'[o].root, ballotBox.rewardsRoot)

ObserveGrowth == grown' = (grown /\ FirstVoteGrows)

SystemInit == Init /\ R!RewardsInit /\ agreed = {} /\ grown = TRUE

NcnStep ==
    /\ Next
    /\ UNCHANGED accountVars
    /\ R!ObserveLive
    /\ ObserveAgreement
    /\ ObserveGrowth

RewardsStep ==
    /\ UNCHANGED <<vars, agreed, grown>>
    /\ R!Instructions \/ R!Funding
    /\ R!ObserveLive

SystemNext == NcnStep \/ RewardsStep

SystemSpec == SystemInit /\ [][SystemNext]_systemVars

\* The way rewards_cli.ts sets up a rewards state that follows the network: its
\* authority points it to the root of the ballot box, and to nothing else.
FollowsConsensus ==
    \A s \in States :
        merkleRoot'[s] # merkleRoot[s] => merkleRoot'[s] = R!External(RewardsRootSlot)

FollowingSpec == SystemInit /\ [][SystemNext /\ FollowsConsensus]_systemVars

-----------------------------------------------------------------------------
(* Properties *)

\* Where every rewards state follows the network, an owner is paid only what a
\* root promises that operators with two thirds of a vault voted for: through
\* the tallies, the published root, the slot it is read from and the claims
\* under earlier roots (vote.rs:86-115, dephy-rewards lib.rs:54-100).
PaidOnlyWhatWasAgreed ==
    \A s \in States, o \in Owners :
        received[s][o] > 0 =>
            \E root \in agreed : \E leaf \in root : leaf[1] = o /\ leaf[2] >= received[s][o]

\* What was claimable under a state that follows the network was agreed on: an
\* epoch that fails, and a proposal that is never approved, pay nobody.
ClaimableWasAgreed ==
    \A s \in States : \A leaf \in everLive[s] : \E root \in agreed : leaf \in root

\* For as long as the first voter of every epoch starts from the published root, no
\* owner is locked out, whatever the other operators vote for (vote.rs:86-115,
\* dephy-rewards lib.rs:77).
NoOwnerLockedOut == grown => R!NeverLockedOut

=============================================================================
