------------------------------ MODULE DephyNcn ------------------------------
(***************************************************************************)
(* The dephy-ncn program: one NCN, its ballot box and its voters, with the *)
(* accounts of the Jito restaking and vault programs that it reads or      *)
(* creates.  Each instruction is one action: a transaction is atomic, and  *)
(* an instruction that fails changes nothing, so a failing one is a        *)
(* disabled one.  A PDA (an account found by its seeds) is an entry of a   *)
(* set or a function, keyed by what the seeds name.                        *)
(*                                                                         *)
(* Integer arithmetic is u64 with overflow checks on: an instruction whose *)
(* sum or product exceeds U64Max aborts.                                   *)
(***************************************************************************)
EXTENDS Sums

CONSTANTS
    Operators,      \* Jito operators
    Vaults,         \* Jito vaults
    NoVault,        \* "has not voted through any vault"
    Roots,          \* the Merkle roots that can be proposed
    ZeroRoot,       \* 32 zero bytes: a root field of a new account
    Signers,        \* keys that can sign a transaction
    OperatorAdmin,  \* the admin key recorded in each operator account
    StakeAmounts,   \* amounts the environment may set a delegation to
    SupplyAmounts,  \* amounts the environment may set a VRT supply to
    U64Max,         \* the largest value of a u64
    MaxEpoch        \* bound: the clock stops at this epoch

ASSUME ConstantsAssumption ==
    /\ IsFiniteSet(Operators)
    /\ NoVault \notin Vaults
    /\ ZeroRoot \in Roots
    /\ OperatorAdmin \in [Operators -> Signers]
    /\ U64Max \in Nat
    /\ MaxEpoch \in Nat
    /\ StakeAmounts \subseteq 0..U64Max
    /\ SupplyAmounts \subseteq 0..U64Max

VARIABLES
    epoch,              \* Clock::get()?.epoch
    ncnInitialized,     \* the Config and BallotBox accounts exist
    ballotBox,          \* the BallotBox account
    voterAccounts,      \* operators whose VoterState account exists
    lastVotedEpoch,     \* VoterState.last_voted_epoch
    ncnOperatorState,   \* Jito: the NCN's state of each operator
    ncnVaultTicket,     \* Jito: the NCN's ticket for each vault
    operatorVaultTicket,\* Jito: operator-vault tickets that exist
    staked,             \* Jito: staked_amount of each vault-operator delegation
    vrtSupply,          \* Jito: vrt_supply of each vault
    votes               \* history: what each operator voted last

jitoVars == <<operatorVaultTicket, staked, vrtSupply>>
ticketVars == <<ncnOperatorState, ncnVaultTicket>>
voterVars == <<voterAccounts, lastVotedEpoch>>
vars == <<epoch, ncnInitialized, ballotBox, voterVars, ticketVars, jitoVars, votes>>

-----------------------------------------------------------------------------
(* Types *)

U64 == 0..U64Max
Epochs == 0..MaxEpoch

\* A slot toggle of Jito: "fresh" is one created in the current slot, which
\* cannot be warmed up before the next.
ToggleStates == {"absent", "fresh", "inactive", "warm"}

BallotBoxes ==
    [epoch : Epochs, lastConsensusEpoch : Epochs,
     operatorsVoted : U64, approvedVotes : U64, totalVotes : U64,
     rewardsRoot : Roots, proposedRewardsRoot : Roots]

Ballots == [epoch : Epochs, vault : Vaults \cup {NoVault}, root : Roots, amount : U64]

TypeOK ==
    /\ epoch \in Epochs
    /\ ncnInitialized \in BOOLEAN
    /\ ballotBox \in BallotBoxes
    /\ voterAccounts \subseteq Operators
    /\ lastVotedEpoch \in [Operators -> Epochs]
    /\ ncnOperatorState \in [Operators -> ToggleStates]
    /\ ncnVaultTicket \in [Vaults -> ToggleStates]
    /\ operatorVaultTicket \subseteq Operators \X Vaults
    /\ staked \in [Vaults -> [Operators -> U64]]
    /\ vrtSupply \in [Vaults -> U64]
    /\ votes \in [Operators -> Ballots]

-----------------------------------------------------------------------------
(* Initial state: no account of the program exists.  Account space is      *)
(* zeroed when it is allocated.                                            *)

EmptyBallotBox ==
    [epoch |-> 0, lastConsensusEpoch |-> 0,
     operatorsVoted |-> 0, approvedVotes |-> 0, totalVotes |-> 0,
     rewardsRoot |-> ZeroRoot, proposedRewardsRoot |-> ZeroRoot]

NoBallot == [epoch |-> 0, vault |-> NoVault, root |-> ZeroRoot, amount |-> 0]

Init ==
    /\ epoch = 0
    /\ ncnInitialized = FALSE
    /\ ballotBox = EmptyBallotBox
    /\ voterAccounts = {}
    /\ lastVotedEpoch = [o \in Operators |-> 0]
    /\ ncnOperatorState = [o \in Operators |-> "absent"]
    /\ ncnVaultTicket = [v \in Vaults |-> "absent"]
    /\ operatorVaultTicket = {}
    /\ staked = [v \in Vaults |-> [o \in Operators |-> 0]]
    /\ vrtSupply \in [Vaults -> SupplyAmounts]
    /\ votes = [o \in Operators |-> NoBallot]

-----------------------------------------------------------------------------
(* Mistakes the handlers could have made.  Nothing uses these operators: each *)
(* can stand for the definition it precedes, to show which property notices.  *)

\* Without anchor's init constraint the instruction could run again.
ReinitializableNcn ==
    /\ ncnInitialized' = TRUE
    /\ ballotBox' = EmptyBallotBox
    /\ UNCHANGED <<epoch, voterVars, ticketVars, jitoVars, votes>>

\* init_if_needed in place of init, without the CPI's own check.
ReinitializableOperator(o) ==
    /\ ncnInitialized
    /\ ncnOperatorState' = [ncnOperatorState EXCEPT ![o] = "fresh"]
    /\ voterAccounts' = voterAccounts \cup {o}
    /\ lastVotedEpoch' = [lastVotedEpoch EXCEPT ![o] = 0]
    /\ UNCHANGED <<epoch, ncnInitialized, ballotBox, ncnVaultTicket, jitoVars, votes>>

\* The voter account without the registration at Jito.
UnregisteredOperator(o) ==
    /\ ncnInitialized
    /\ o \notin voterAccounts
    /\ voterAccounts' = voterAccounts \cup {o}
    /\ lastVotedEpoch' = [lastVotedEpoch EXCEPT ![o] = 0]
    /\ UNCHANGED <<epoch, ncnInitialized, ballotBox, ticketVars, jitoVars, votes>>

\* The proposal of the epoch before stays.
KeepsOldProposal(root) ==
    IF epoch > ballotBox.epoch
    THEN [ballotBox EXCEPT !.epoch = epoch, !.operatorsVoted = 0,
                           !.approvedVotes = 0, !.totalVotes = 0]
    ELSE ballotBox

\* Every vote replaces the proposal.
EachVoteProposes(root) ==
    IF epoch > ballotBox.epoch
    THEN [ballotBox EXCEPT !.epoch = epoch, !.operatorsVoted = 0, !.approvedVotes = 0,
                           !.totalVotes = 0, !.proposedRewardsRoot = root]
    ELSE [ballotBox EXCEPT !.proposedRewardsRoot = root]

\* The ballot box is opened again until there is consensus.
ReopensUntilConsensus(root) ==
    IF epoch > ballotBox.lastConsensusEpoch
    THEN [ballotBox EXCEPT !.epoch = epoch, !.operatorsVoted = 0, !.approvedVotes = 0,
                           !.totalVotes = 0, !.proposedRewardsRoot = root]
    ELSE ballotBox

\* The total counts only the votes that approve.
CountsApprovalsOnly(b, root, amount) ==
    IF root = b.proposedRewardsRoot
    THEN [b EXCEPT !.operatorsVoted = @ + 1, !.approvedVotes = @ + amount, !.totalVotes = @ + amount]
    ELSE [b EXCEPT !.operatorsVoted = @ + 1]

\* All votes count towards consensus, those for another root too.
SettlesOnTotal(b, supply) ==
    IF b.epoch > b.lastConsensusEpoch /\ b.totalVotes >= (supply * 2) \div 3
    THEN [b EXCEPT !.lastConsensusEpoch = b.epoch, !.rewardsRoot = b.proposedRewardsRoot]
    ELSE b

\* More than two thirds, in place of at least.
SettlesAboveThreshold(b, supply) ==
    IF b.epoch > b.lastConsensusEpoch /\ b.approvedVotes > (supply * 2) \div 3
    THEN [b EXCEPT !.lastConsensusEpoch = b.epoch, !.rewardsRoot = b.proposedRewardsRoot]
    ELSE b

\* Sums are not checked for overflow.
ChecksProductOnly(b, supply) == b.epoch > b.lastConsensusEpoch => supply * 2 \in U64

\* The check of the last voted epoch is missing.
EligibleAgain(signer, o, v) ==
    /\ ncnInitialized
    /\ o \in voterAccounts
    /\ signer = OperatorAdmin[o]
    /\ <<o, v>> \in operatorVaultTicket
    /\ staked[v][o] > 0

-----------------------------------------------------------------------------
(* Setting the network up *)

\* initialize_ncn: creates the NCN at Jito, the Config and the BallotBox.
InitializeNcn ==
    /\ ~ncnInitialized
    /\ ncnInitialized' = TRUE
    /\ ballotBox' = EmptyBallotBox
    /\ UNCHANGED <<epoch, voterVars, ticketVars, jitoVars, votes>>

\* initialize_vault: the NCN's side of the NCN-vault relation.
InitializeVault(v) ==
    /\ ncnInitialized
    /\ ncnVaultTicket[v] = "absent"
    /\ ncnVaultTicket' = [ncnVaultTicket EXCEPT ![v] = "fresh"]
    /\ UNCHANGED <<epoch, ncnInitialized, ballotBox, voterVars, ncnOperatorState, jitoVars, votes>>

\* warmup_vault
WarmupVault(v) ==
    /\ ncnInitialized
    /\ ncnVaultTicket[v] = "inactive"
    /\ ncnVaultTicket' = [ncnVaultTicket EXCEPT ![v] = "warm"]
    /\ UNCHANGED <<epoch, ncnInitialized, ballotBox, voterVars, ncnOperatorState, jitoVars, votes>>

\* initialize_operator: the NCN's state of the operator, and its VoterState.
InitializeOperator(o) ==
    /\ ncnInitialized
    /\ ncnOperatorState[o] = "absent"
    /\ o \notin voterAccounts
    /\ ncnOperatorState' = [ncnOperatorState EXCEPT ![o] = "fresh"]
    /\ voterAccounts' = voterAccounts \cup {o}
    /\ lastVotedEpoch' = [lastVotedEpoch EXCEPT ![o] = 0]
    /\ UNCHANGED <<epoch, ncnInitialized, ballotBox, ncnVaultTicket, jitoVars, votes>>

\* warmup_operator
WarmupOperator(o) ==
    /\ ncnInitialized
    /\ ncnOperatorState[o] = "inactive"
    /\ ncnOperatorState' = [ncnOperatorState EXCEPT ![o] = "warm"]
    /\ UNCHANGED <<epoch, ncnInitialized, ballotBox, voterVars, ncnVaultTicket, jitoVars, votes>>

-----------------------------------------------------------------------------
(* Voting *)

\* The first vote of an epoch empties the ballot box and fixes the proposal.
OpenedBallot(root) ==
    IF epoch > ballotBox.epoch
    THEN [ballotBox EXCEPT !.epoch = epoch,
                           !.operatorsVoted = 0,
                           !.approvedVotes = 0,
                           !.totalVotes = 0,
                           !.proposedRewardsRoot = root]
    ELSE ballotBox

\* Ballot box b with one more vote in it.
CountedBallot(b, root, amount) ==
    [b EXCEPT !.operatorsVoted = @ + 1,
              !.approvedVotes = IF root = b.proposedRewardsRoot THEN @ + amount ELSE @,
              !.totalVotes = @ + amount]

\* Two thirds of a supply, rounded down.
Threshold(supply) == (supply * 2) \div 3

\* Ballot box b after the consensus check against the supply of a vault.
SettledBallot(b, supply) ==
    IF b.epoch > b.lastConsensusEpoch /\ b.approvedVotes >= Threshold(supply)
    THEN [b EXCEPT !.lastConsensusEpoch = b.epoch, !.rewardsRoot = b.proposedRewardsRoot]
    ELSE b

\* The additions to b, and the product of the threshold where it is computed,
\* fit in a u64.
FitsU64(b, supply) ==
    /\ {b.operatorsVoted, b.approvedVotes, b.totalVotes} \subseteq U64
    /\ b.epoch > b.lastConsensusEpoch => supply * 2 \in U64

\* The accounts exist, the operator has not voted in this epoch, its admin
\* signs, and it has stake in the vault.
Eligible(signer, o, v) ==
    /\ ncnInitialized
    /\ o \in voterAccounts
    /\ epoch > lastVotedEpoch[o]
    /\ signer = OperatorAdmin[o]
    /\ <<o, v>> \in operatorVaultTicket
    /\ staked[v][o] > 0

\* vote
Vote(signer, o, v, root) ==
    LET opened  == OpenedBallot(root)
        counted == CountedBallot(opened, root, staked[v][o])
    IN  /\ Eligible(signer, o, v)
        /\ epoch = opened.epoch
        /\ FitsU64(counted, vrtSupply[v])
        /\ ballotBox' = SettledBallot(counted, vrtSupply[v])
        /\ lastVotedEpoch' = [lastVotedEpoch EXCEPT ![o] = epoch]
        /\ votes' = [votes EXCEPT ![o] =
                        [epoch |-> epoch, vault |-> v, root |-> root, amount |-> staked[v][o]]]
        /\ UNCHANGED <<epoch, ncnInitialized, voterAccounts, ticketVars, jitoVars>>

-----------------------------------------------------------------------------
(* The environment: Solana's clock, and the accounts of the Jito programs, *)
(* which their owners change without dephy-ncn.                            *)

AdvanceEpoch ==
    /\ epoch < MaxEpoch
    /\ epoch' = epoch + 1
    /\ UNCHANGED <<ncnInitialized, ballotBox, voterVars, ticketVars, jitoVars, votes>>

Aged(toggle) == IF toggle = "fresh" THEN "inactive" ELSE toggle

NextSlot ==
    /\ ncnOperatorState' = [o \in Operators |-> Aged(ncnOperatorState[o])]
    /\ ncnVaultTicket' = [v \in Vaults |-> Aged(ncnVaultTicket[v])]
    /\ UNCHANGED <<epoch, ncnInitialized, ballotBox, voterVars, jitoVars, votes>>

InitializeOperatorVaultTicket(o, v) ==
    /\ operatorVaultTicket' = operatorVaultTicket \cup {<<o, v>>}
    /\ UNCHANGED <<epoch, ncnInitialized, ballotBox, voterVars, ticketVars, staked, vrtSupply, votes>>

\* A delegation is added to, cooled down or moved.
SetDelegation(v, o, amount) ==
    /\ <<o, v>> \in operatorVaultTicket
    /\ staked' = [staked EXCEPT ![v][o] = amount]
    /\ UNCHANGED <<epoch, ncnInitialized, ballotBox, voterVars, ticketVars,
                   operatorVaultTicket, vrtSupply, votes>>

\* VRT is minted to depositors or burned on withdrawal.
SetSupply(v, amount) ==
    /\ vrtSupply' = [vrtSupply EXCEPT ![v] = amount]
    /\ UNCHANGED <<epoch, ncnInitialized, ballotBox, voterVars, ticketVars,
                   operatorVaultTicket, staked, votes>>

-----------------------------------------------------------------------------

Setup ==
    \/ InitializeNcn
    \/ \E v \in Vaults : InitializeVault(v) \/ WarmupVault(v)
    \/ \E o \in Operators : InitializeOperator(o) \/ WarmupOperator(o)

Voting ==
    \E signer \in Signers, o \in Operators, v \in Vaults, root \in Roots :
        Vote(signer, o, v, root)

Environment ==
    \/ AdvanceEpoch
    \/ NextSlot
    \/ \E o \in Operators, v \in Vaults : InitializeOperatorVaultTicket(o, v)
    \/ \E v \in Vaults, o \in Operators, amount \in StakeAmounts : SetDelegation(v, o, amount)
    \/ \E v \in Vaults, amount \in SupplyAmounts : SetSupply(v, amount)

Next == Setup \/ Voting \/ Environment

Spec == Init /\ [][Next]_vars

-----------------------------------------------------------------------------
(* Properties *)

\* The operators whose vote is in the ballot box, and those among them who
\* voted for the proposal.
Counted == {o \in Operators : votes[o].epoch > 0 /\ votes[o].epoch = ballotBox.epoch}
Approving == {o \in Counted : votes[o].root = ballotBox.proposedRewardsRoot}

\* The stake that the votes of the operators in S carried.
VotedAmount == [o \in Operators |-> votes[o].amount]
Weight(S) == SumOver(S, VotedAmount)

\* The tallies of the ballot box are those of the votes cast in its epoch, each
\* operator once and with the stake it had when it voted (vote.rs:86-103,
\* initialize_operator.rs:58-61).
TallyMatchesVotes ==
    /\ ballotBox.operatorsVoted = Cardinality(Counted)
    /\ ballotBox.approvedVotes = Weight(Approving)
    /\ ballotBox.totalVotes = Weight(Counted)

\* The proposal of a ballot box in use is one that an operator counted in it
\* voted for, and a root published in the epoch of the ballot box is that
\* proposal (vote.rs:86-115).
PublishedRootIsVoted ==
    ballotBox.epoch > 0 =>
        /\ Approving # {}
        /\ ballotBox.lastConsensusEpoch = ballotBox.epoch =>
               ballotBox.rewardsRoot = ballotBox.proposedRewardsRoot

\* Epochs recorded in accounts are ordered as they were reached: an operator
\* never voted, and consensus was never reached, later than the epoch of the
\* ballot box, nor that later than the clock; before a first consensus the root
\* is the zero root (vote.rs:48-52, 86-87, 103, 112).
EpochOrder ==
    /\ ballotBox.epoch <= epoch
    /\ ballotBox.lastConsensusEpoch <= ballotBox.epoch
    /\ ballotBox.lastConsensusEpoch = 0 => ballotBox.rewardsRoot = ZeroRoot
    /\ \A o \in Operators :
           /\ lastVotedEpoch[o] = votes[o].epoch
           /\ lastVotedEpoch[o] <= ballotBox.epoch
           /\ o \notin voterAccounts => lastVotedEpoch[o] = 0

\* The Jito accounts that only the NCN's admin PDA can create, and the voter
\* accounts, exist only after initialize_ncn; an operator has a voter account
\* exactly when it is registered at Jito, because one transaction creates both
\* (initialize_operator.rs:39-64).
SetupOrder ==
    /\ \A o \in Operators : o \in voterAccounts <=> ncnOperatorState[o] # "absent"
    /\ ~ncnInitialized =>
           /\ voterAccounts = {}
           /\ \A v \in Vaults : ncnVaultTicket[v] = "absent"
           /\ ballotBox = EmptyBallotBox

\* w is two thirds of a supply, or short of it by less than one unit.
TwoThirds(w, supply) == 3 * w + 2 >= 2 * supply

\* What readers see (the root and its epoch) changes only in a step in which an
\* operator votes, in an epoch that had no consensus, and then to the proposal,
\* whose approving votes weigh two thirds of the supply of the vault that the
\* operator voted through (vote.rs:106-115).
ConsensusIsBacked ==
    [][\/ /\ ballotBox'.lastConsensusEpoch = ballotBox.lastConsensusEpoch
          /\ ballotBox'.rewardsRoot = ballotBox.rewardsRoot
       \/ /\ ballotBox.lastConsensusEpoch < epoch
          /\ ballotBox'.lastConsensusEpoch = epoch
          /\ ballotBox'.rewardsRoot = ballotBox'.proposedRewardsRoot
          /\ \E o \in Counted' :
                /\ votes'[o] # votes[o]
                /\ TwoThirds(Weight(Approving)', vrtSupply[votes'[o].vault])]_vars

\* Consensus is not missed: a vote after which the approving votes weigh two
\* thirds of the supply of its vault leaves the ballot box settled for the
\* epoch, whichever operator cast it and whatever it voted for (vote.rs:106-115).
ConsensusIsNotMissed ==
    [][\A o \in Operators :
          (/\ votes'[o] # votes[o]
           /\ TwoThirds(Weight(Approving)', vrtSupply[votes'[o].vault]))
          => ballotBox'.lastConsensusEpoch = epoch]_vars

\* Within an epoch the proposal stays what the first voter made it and no tally
\* shrinks, and the ballot box never returns to an earlier epoch (vote.rs:86-101).
BallotOnlyGrows ==
    [][\/ ballotBox'.epoch > ballotBox.epoch
       \/ /\ ballotBox'.epoch = ballotBox.epoch
          /\ ballotBox'.proposedRewardsRoot = ballotBox.proposedRewardsRoot
          /\ ballotBox'.operatorsVoted >= ballotBox.operatorsVoted
          /\ ballotBox'.approvedVotes >= ballotBox.approvedVotes
          /\ ballotBox'.totalVotes >= ballotBox.totalVotes]_vars

\* The ballot box implements EpochConsensus: one cast per operator and epoch, at
\* most one published root per epoch, and that one cast in the epoch.
Abstract == INSTANCE EpochConsensus WITH
    now <- epoch,
    cast <- [o \in Operators |-> [epoch |-> votes[o].epoch, root |-> votes[o].root]],
    published <- [epoch |-> ballotBox.lastConsensusEpoch, root |-> ballotBox.rewardsRoot]

ImplementsEpochConsensus == Abstract!Spec

=============================================================================
