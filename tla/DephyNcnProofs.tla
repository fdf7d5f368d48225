--------------------------- MODULE DephyNcnProofs ---------------------------
(* Proofs about DephyNcn, for every value of its constants. *)
EXTENDS DephyNcn, SumsProofs

USE DEF Epochs, U64

-----------------------------------------------------------------------------
(* The stages a ballot box passes through in a vote                        *)

\* Opening a ballot box leaves a ballot box (vote.rs:86-92).
LEMMA OpenedBallotType ==
    ASSUME TypeOK, NEW root \in Roots
    PROVE  OpenedBallot(root) \in BallotBoxes
<1>1. ballotBox \in BallotBoxes /\ epoch \in Epochs /\ 0 \in U64
  BY ConstantsAssumption DEF TypeOK
<1>2. CASE epoch > ballotBox.epoch
  BY <1>1, <1>2 DEF OpenedBallot, BallotBoxes
<1>3. CASE ~(epoch > ballotBox.epoch)
  BY <1>1, <1>3 DEF OpenedBallot
<1> QED
  BY <1>2, <1>3

\* Counting a vote leaves a ballot box, when the sums fit (vote.rs:96-101).
LEMMA CountedBallotType ==
    ASSUME NEW b \in BallotBoxes, NEW root \in Roots, NEW amount \in U64, NEW supply \in U64,
           FitsU64(CountedBallot(b, root, amount), supply)
    PROVE  CountedBallot(b, root, amount) \in BallotBoxes
BY ConstantsAssumption DEF CountedBallot, FitsU64, BallotBoxes

\* The consensus check leaves a ballot box (vote.rs:106-115).
LEMMA SettledBallotType ==
    ASSUME NEW b \in BallotBoxes, NEW supply \in U64
    PROVE  SettledBallot(b, supply) \in BallotBoxes
BY DEF SettledBallot, BallotBoxes

-----------------------------------------------------------------------------
(* Type correctness                                                        *)

LEMMA TypeInit == Init => TypeOK
<1> SUFFICES ASSUME Init PROVE TypeOK
  OBVIOUS
<1>1. EmptyBallotBox \in BallotBoxes
  BY ConstantsAssumption DEF EmptyBallotBox, BallotBoxes
<1>2. NoBallot \in Ballots
  BY ConstantsAssumption DEF NoBallot, Ballots
<1>3. epoch \in Epochs /\ lastVotedEpoch \in [Operators -> Epochs]
  BY ConstantsAssumption DEF Init
<1>4. staked \in [Vaults -> [Operators -> U64]]
  BY ConstantsAssumption DEF Init
<1>5. vrtSupply \in [Vaults -> U64]
  <2>1. vrtSupply \in [Vaults -> SupplyAmounts] /\ SupplyAmounts \subseteq U64
    BY ConstantsAssumption DEF Init
  <2> QED
    BY <2>1
<1> QED
  BY <1>1, <1>2, <1>3, <1>4, <1>5 DEF Init, TypeOK, ToggleStates

LEMMA TypeSetup == TypeOK /\ Setup => TypeOK'
<1> SUFFICES ASSUME TypeOK, Setup PROVE TypeOK'
  OBVIOUS
<1> USE DEF TypeOK, voterVars, ticketVars, jitoVars, ToggleStates
<1>1. CASE InitializeNcn
  <2>1. EmptyBallotBox \in BallotBoxes
    BY ConstantsAssumption DEF EmptyBallotBox, BallotBoxes
  <2> QED
    BY <1>1, <2>1 DEF InitializeNcn
<1>2. ASSUME NEW v \in Vaults, InitializeVault(v) PROVE TypeOK'
  BY <1>2 DEF InitializeVault
<1>3. ASSUME NEW v \in Vaults, WarmupVault(v) PROVE TypeOK'
  BY <1>3 DEF WarmupVault
<1>4. ASSUME NEW o \in Operators, InitializeOperator(o) PROVE TypeOK'
  BY <1>4, ConstantsAssumption DEF InitializeOperator
<1>5. ASSUME NEW o \in Operators, WarmupOperator(o) PROVE TypeOK'
  BY <1>5 DEF WarmupOperator
<1> QED
  BY <1>1, <1>2, <1>3, <1>4, <1>5 DEF Setup

LEMMA TypeVoting == TypeOK /\ Voting => TypeOK'
<1> SUFFICES ASSUME TypeOK,
                    NEW signer \in Signers, NEW o \in Operators, NEW v \in Vaults, NEW root \in Roots,
                    Vote(signer, o, v, root)
             PROVE  TypeOK'
  BY DEF Voting
<1> DEFINE opened == OpenedBallot(root)
           counted == CountedBallot(opened, root, staked[v][o])
<1>1. staked[v][o] \in U64 /\ vrtSupply[v] \in U64
  BY DEF TypeOK
<1>2. opened \in BallotBoxes
  BY OpenedBallotType
<1>3. counted \in BallotBoxes
  BY <1>1, <1>2, CountedBallotType DEF Vote
<1>4. ballotBox' \in BallotBoxes
  BY <1>1, <1>3, SettledBallotType DEF Vote
<1>5. votes' \in [Operators -> Ballots]
  BY <1>1 DEF Vote, TypeOK, Ballots
<1> QED
  BY <1>4, <1>5 DEF Vote, TypeOK, ticketVars, jitoVars

LEMMA TypeEnvironment == TypeOK /\ Environment => TypeOK'
<1> SUFFICES ASSUME TypeOK, Environment PROVE TypeOK'
  OBVIOUS
<1> USE DEF TypeOK, voterVars, ticketVars, jitoVars
<1>1. CASE AdvanceEpoch
  BY <1>1, ConstantsAssumption DEF AdvanceEpoch
<1>2. CASE NextSlot
  BY <1>2 DEF NextSlot, Aged, ToggleStates
<1>3. ASSUME NEW o \in Operators, NEW v \in Vaults, InitializeOperatorVaultTicket(o, v) PROVE TypeOK'
  BY <1>3 DEF InitializeOperatorVaultTicket
<1>4. ASSUME NEW v \in Vaults, NEW o \in Operators, NEW amount \in StakeAmounts, SetDelegation(v, o, amount)
      PROVE TypeOK'
  BY <1>4, ConstantsAssumption DEF SetDelegation
<1>5. ASSUME NEW v \in Vaults, NEW amount \in SupplyAmounts, SetSupply(v, amount) PROVE TypeOK'
  BY <1>5, ConstantsAssumption DEF SetSupply
<1> QED
  BY <1>1, <1>2, <1>3, <1>4, <1>5 DEF Environment

LEMMA TypeStep == TypeOK /\ [Next]_vars => TypeOK'
<1>1. TypeOK /\ UNCHANGED vars => TypeOK'
  BY DEF TypeOK, vars, voterVars, ticketVars, jitoVars
<1> QED
  BY <1>1, TypeSetup, TypeVoting, TypeEnvironment DEF Next

\* Every reachable state is well typed; in particular every tally the program
\* stores fits in a u64.
THEOREM TypeCorrect == Spec => []TypeOK
<1> QED
  BY TypeInit, TypeStep, PTL DEF Spec

-----------------------------------------------------------------------------
(* What a vote does to the accounts                                        *)

\* The fields of the ballot box after a vote in terms of those before it.
LEMMA VoteEffect ==
    ASSUME TypeOK, EpochOrder,
           NEW signer \in Signers, NEW o \in Operators, NEW v \in Vaults, NEW root \in Roots,
           Vote(signer, o, v, root)
    PROVE  LET fresh == epoch > ballotBox.epoch
               amount == staked[v][o]
               proposal == IF fresh THEN root ELSE ballotBox.proposedRewardsRoot
               approved == (IF fresh THEN 0 ELSE ballotBox.approvedVotes)
                              + (IF root = proposal THEN amount ELSE 0)
               settles == /\ epoch > ballotBox.lastConsensusEpoch
                          /\ approved >= Threshold(vrtSupply[v])
           IN  /\ epoch > 0
               /\ fresh \/ epoch = ballotBox.epoch
               /\ ballotBox'.epoch = epoch
               /\ ballotBox'.proposedRewardsRoot = proposal
               /\ ballotBox'.operatorsVoted = (IF fresh THEN 0 ELSE ballotBox.operatorsVoted) + 1
               /\ ballotBox'.approvedVotes = approved
               /\ ballotBox'.totalVotes = (IF fresh THEN 0 ELSE ballotBox.totalVotes) + amount
               /\ ballotBox'.lastConsensusEpoch
                      = IF settles THEN epoch ELSE ballotBox.lastConsensusEpoch
               /\ ballotBox'.rewardsRoot = IF settles THEN proposal ELSE ballotBox.rewardsRoot
<1> DEFINE opened == OpenedBallot(root)
           counted == CountedBallot(opened, root, staked[v][o])
<1>0. /\ epoch \in Nat /\ ballotBox.epoch \in Nat /\ ballotBox.lastConsensusEpoch \in Nat
      /\ lastVotedEpoch[o] \in Nat
  BY ConstantsAssumption DEF TypeOK, BallotBoxes
<1>1. /\ opened \in BallotBoxes
      /\ opened.epoch = epoch
      /\ opened.proposedRewardsRoot = IF epoch > ballotBox.epoch THEN root ELSE ballotBox.proposedRewardsRoot
      /\ opened.operatorsVoted = IF epoch > ballotBox.epoch THEN 0 ELSE ballotBox.operatorsVoted
      /\ opened.approvedVotes = IF epoch > ballotBox.epoch THEN 0 ELSE ballotBox.approvedVotes
      /\ opened.totalVotes = IF epoch > ballotBox.epoch THEN 0 ELSE ballotBox.totalVotes
      /\ opened.lastConsensusEpoch = ballotBox.lastConsensusEpoch
      /\ opened.rewardsRoot = ballotBox.rewardsRoot
  BY <1>0, OpenedBallotType DEF OpenedBallot, TypeOK, BallotBoxes, Vote
<1>2. /\ counted \in BallotBoxes
      /\ counted.epoch = epoch
      /\ counted.proposedRewardsRoot = opened.proposedRewardsRoot
      /\ counted.operatorsVoted = opened.operatorsVoted + 1
      /\ counted.approvedVotes = opened.approvedVotes
             + (IF root = opened.proposedRewardsRoot THEN staked[v][o] ELSE 0)
      /\ counted.totalVotes = opened.totalVotes + staked[v][o]
      /\ counted.lastConsensusEpoch = opened.lastConsensusEpoch
      /\ counted.rewardsRoot = opened.rewardsRoot
  <2>1. staked[v][o] \in U64 /\ vrtSupply[v] \in U64
    BY DEF TypeOK
  <2>2. counted \in BallotBoxes
    BY <1>1, <2>1, CountedBallotType DEF Vote
  <2> HIDE DEF opened
  <2> QED
    BY <1>1, <2>1, <2>2 DEF CountedBallot, BallotBoxes
<1>3. /\ ballotBox' = SettledBallot(counted, vrtSupply[v])
      /\ epoch > lastVotedEpoch[o]
  BY DEF Vote, Eligible
<1>4. epoch > 0 /\ (epoch > ballotBox.epoch \/ epoch = ballotBox.epoch)
  BY <1>0, <1>3 DEF EpochOrder
<1> HIDE DEF counted
<1>5. /\ ballotBox'.epoch = epoch
      /\ ballotBox'.proposedRewardsRoot = counted.proposedRewardsRoot
      /\ ballotBox'.operatorsVoted = counted.operatorsVoted
      /\ ballotBox'.approvedVotes = counted.approvedVotes
      /\ ballotBox'.totalVotes = counted.totalVotes
      /\ ballotBox'.lastConsensusEpoch =
             IF epoch > counted.lastConsensusEpoch /\ counted.approvedVotes >= Threshold(vrtSupply[v])
             THEN epoch ELSE counted.lastConsensusEpoch
      /\ ballotBox'.rewardsRoot =
             IF epoch > counted.lastConsensusEpoch /\ counted.approvedVotes >= Threshold(vrtSupply[v])
             THEN counted.proposedRewardsRoot ELSE counted.rewardsRoot
  BY <1>2, <1>3 DEF SettledBallot, BallotBoxes
<1> HIDE DEF opened
<1> QED
  BY <1>1, <1>2, <1>4, <1>5

-----------------------------------------------------------------------------
(* The inductive invariant                                                 *)

Inv == TypeOK /\ SetupOrder /\ EpochOrder /\ PublishedRootIsVoted /\ TallyMatchesVotes

\* A step that leaves the ballot box, the votes and the record of who voted when
\* as they are.
Quiet ==
    /\ ballotBox' = ballotBox
    /\ votes' = votes
    /\ lastVotedEpoch' = lastVotedEpoch
    /\ epoch' = epoch \/ epoch' = epoch + 1
    /\ voterAccounts \subseteq voterAccounts'

\* Every step is quiet, except vote.
LEMMA QuietStep ==
    ASSUME TypeOK, SetupOrder, EpochOrder, Setup \/ Environment \/ UNCHANGED vars
    PROVE  Quiet
<1> USE DEF voterVars, ticketVars, jitoVars, Quiet
<1> epoch \in Nat
  BY ConstantsAssumption DEF TypeOK
<1>1. CASE InitializeNcn
  BY <1>1 DEF InitializeNcn, SetupOrder
<1>2. ASSUME NEW v \in Vaults, InitializeVault(v) \/ WarmupVault(v) PROVE Quiet
  BY <1>2 DEF InitializeVault, WarmupVault
<1>3. ASSUME NEW o \in Operators, InitializeOperator(o) PROVE Quiet
  <2>1. lastVotedEpoch[o] = 0 /\ lastVotedEpoch \in [Operators -> Epochs]
    BY <1>3 DEF InitializeOperator, EpochOrder, TypeOK
  <2> QED
    BY <1>3, <2>1 DEF InitializeOperator
<1>4. ASSUME NEW o \in Operators, WarmupOperator(o) PROVE Quiet
  BY <1>4 DEF WarmupOperator
<1>5. CASE Environment
  <2>1. CASE AdvanceEpoch
    BY <2>1 DEF AdvanceEpoch
  <2>2. CASE NextSlot
    BY <2>2 DEF NextSlot
  <2>3. ASSUME NEW o \in Operators, NEW v \in Vaults, InitializeOperatorVaultTicket(o, v) PROVE Quiet
    BY <2>3 DEF InitializeOperatorVaultTicket
  <2>4. ASSUME NEW v \in Vaults, NEW o \in Operators, NEW amount \in StakeAmounts, SetDelegation(v, o, amount)
        PROVE Quiet
    BY <2>4 DEF SetDelegation
  <2>5. ASSUME NEW v \in Vaults, NEW amount \in SupplyAmounts, SetSupply(v, amount) PROVE Quiet
    BY <2>5 DEF SetSupply
  <2> QED
    BY <1>5, <2>1, <2>2, <2>3, <2>4, <2>5 DEF Environment
<1>6. CASE UNCHANGED vars
  BY <1>6 DEF vars
<1> QED
  BY <1>1, <1>2, <1>3, <1>4, <1>5, <1>6 DEF Setup

-----------------------------------------------------------------------------
(* The conjuncts of the invariant, outside vote                            *)

LEMMA SetupOrderStep == TypeOK /\ SetupOrder /\ [Next]_vars => SetupOrder'
<1> SUFFICES ASSUME TypeOK, SetupOrder, [Next]_vars PROVE SetupOrder'
  OBVIOUS
<1> USE DEF SetupOrder, voterVars, ticketVars, jitoVars
<1>1. CASE InitializeNcn
  BY <1>1 DEF InitializeNcn
<1>2. ASSUME NEW v \in Vaults, InitializeVault(v) \/ WarmupVault(v) PROVE SetupOrder'
  BY <1>2 DEF InitializeVault, WarmupVault
<1>3. ASSUME NEW o \in Operators, InitializeOperator(o) PROVE SetupOrder'
  BY <1>3 DEF InitializeOperator, TypeOK
<1>4. ASSUME NEW o \in Operators, WarmupOperator(o) PROVE SetupOrder'
  BY <1>4 DEF WarmupOperator, TypeOK
<1>5. CASE Voting
  BY <1>5 DEF Voting, Vote, Eligible
<1>6. CASE AdvanceEpoch
  BY <1>6 DEF AdvanceEpoch
<1>7. CASE NextSlot
  BY <1>7 DEF NextSlot, Aged, TypeOK, ToggleStates
<1>8. ASSUME NEW o \in Operators, NEW v \in Vaults, InitializeOperatorVaultTicket(o, v) PROVE SetupOrder'
  BY <1>8 DEF InitializeOperatorVaultTicket
<1>9. ASSUME NEW v \in Vaults, NEW o \in Operators, NEW amount \in StakeAmounts, SetDelegation(v, o, amount)
      PROVE SetupOrder'
  BY <1>9 DEF SetDelegation
<1>10. ASSUME NEW v \in Vaults, NEW amount \in SupplyAmounts, SetSupply(v, amount) PROVE SetupOrder'
  BY <1>10 DEF SetSupply
<1>11. CASE UNCHANGED vars
  BY <1>11 DEF vars
<1> QED
  BY <1>1, <1>2, <1>3, <1>4, <1>5, <1>6, <1>7, <1>8, <1>9, <1>10, <1>11 DEF Next, Setup, Environment

LEMMA QuietPreserves ==
    ASSUME TypeOK, TypeOK', EpochOrder, PublishedRootIsVoted, TallyMatchesVotes, Quiet
    PROVE  EpochOrder' /\ PublishedRootIsVoted' /\ TallyMatchesVotes'
<1>1. /\ epoch \in Nat /\ epoch' \in Nat /\ ballotBox.epoch \in Nat
  BY ConstantsAssumption DEF TypeOK, BallotBoxes
<1>2. EpochOrder'
  BY <1>1 DEF EpochOrder, Quiet
<1>3. Counted' = Counted /\ Approving' = Approving
  BY DEF Counted, Approving, Quiet
<1>4. PublishedRootIsVoted'
  BY <1>3 DEF PublishedRootIsVoted, Quiet
<1>5. TallyMatchesVotes'
  BY <1>3 DEF TallyMatchesVotes, Weight, VotedAmount, Quiet
<1> QED
  BY <1>2, <1>4, <1>5

-----------------------------------------------------------------------------
(* The conjuncts of the invariant, in vote                                 *)

\* Who is counted, and who approves, after a vote.
LEMMA VoteCounted ==
    ASSUME TypeOK, EpochOrder,
           NEW signer \in Signers, NEW o \in Operators, NEW v \in Vaults, NEW root \in Roots,
           Vote(signer, o, v, root)
    PROVE  LET before(S) == IF epoch > ballotBox.epoch THEN {} ELSE S
           IN  /\ o \notin before(Counted)
               /\ Counted' = before(Counted) \cup {o}
               /\ Approving' = before(Approving)
                      \cup (IF root = ballotBox'.proposedRewardsRoot THEN {o} ELSE {})
               /\ \A p \in Operators \ {o} : votes'[p] = votes[p]
               /\ votes'[o] = [epoch |-> epoch, vault |-> v, root |-> root, amount |-> staked[v][o]]
<1>1. /\ epoch \in Nat /\ ballotBox.epoch \in Nat
      /\ \A p \in Operators : votes[p].epoch \in Nat
  BY ConstantsAssumption DEF TypeOK, BallotBoxes, Ballots
<1>2. /\ epoch > 0
      /\ epoch > ballotBox.epoch \/ epoch = ballotBox.epoch
      /\ ballotBox'.epoch = epoch
      /\ ballotBox'.proposedRewardsRoot = IF epoch > ballotBox.epoch THEN root ELSE ballotBox.proposedRewardsRoot
  BY VoteEffect
<1>3. /\ \A p \in Operators \ {o} : votes'[p] = votes[p]
      /\ votes'[o] = [epoch |-> epoch, vault |-> v, root |-> root, amount |-> staked[v][o]]
  BY DEF Vote, TypeOK
<1>4. votes[o].epoch < epoch
  BY <1>1 DEF Vote, Eligible, EpochOrder
<1>5. \A p \in Operators : votes[p].epoch <= ballotBox.epoch
  BY DEF EpochOrder
<1>6. Counted' = (IF epoch > ballotBox.epoch THEN {} ELSE Counted) \cup {o}
  BY <1>1, <1>2, <1>3, <1>4, <1>5 DEF Counted
<1>7. o \notin (IF epoch > ballotBox.epoch THEN {} ELSE Counted)
  BY <1>1, <1>2, <1>4 DEF Counted
<1>8. Approving' = (IF epoch > ballotBox.epoch THEN {} ELSE Approving)
                      \cup (IF root = ballotBox'.proposedRewardsRoot THEN {o} ELSE {})
  <2>1. CASE epoch > ballotBox.epoch
    BY <1>2, <1>3, <1>6, <2>1 DEF Approving
  <2>2. CASE ~(epoch > ballotBox.epoch)
    <3>1. \A p \in Counted : votes'[p] = votes[p] /\ p # o
      BY <1>3, <1>7, <2>2 DEF Counted
    <3> QED
      BY <1>2, <1>3, <1>6, <2>2, <3>1 DEF Approving
  <2> QED
    BY <2>1, <2>2
<1> QED
  BY <1>3, <1>6, <1>7, <1>8

LEMMA VoteEpochOrder ==
    ASSUME TypeOK, EpochOrder,
           NEW signer \in Signers, NEW o \in Operators, NEW v \in Vaults, NEW root \in Roots,
           Vote(signer, o, v, root)
    PROVE  EpochOrder'
<1>1. /\ epoch \in Nat /\ ballotBox.epoch \in Nat /\ ballotBox.lastConsensusEpoch \in Nat
      /\ \A p \in Operators : lastVotedEpoch[p] \in Nat
  BY ConstantsAssumption DEF TypeOK, BallotBoxes
<1>2. /\ epoch' = epoch /\ voterAccounts' = voterAccounts /\ o \in voterAccounts
      /\ lastVotedEpoch' = [lastVotedEpoch EXCEPT ![o] = epoch]
      /\ lastVotedEpoch \in [Operators -> Epochs]
  BY DEF Vote, Eligible, TypeOK
<1>3. /\ epoch > 0
      /\ epoch >= ballotBox.epoch
      /\ ballotBox'.epoch = epoch
      /\ \/ ballotBox'.lastConsensusEpoch = epoch
         \/ /\ ballotBox'.lastConsensusEpoch = ballotBox.lastConsensusEpoch
            /\ ballotBox'.rewardsRoot = ballotBox.rewardsRoot
  BY <1>1, VoteEffect
<1>4. /\ votes'[o].epoch = epoch
      /\ \A p \in Operators \ {o} : votes'[p] = votes[p]
  BY DEF Vote, TypeOK
<1>5. \A p \in Operators :
        /\ lastVotedEpoch'[p] = votes'[p].epoch
        /\ lastVotedEpoch'[p] <= ballotBox'.epoch
        /\ p \notin voterAccounts' => lastVotedEpoch'[p] = 0
  BY <1>1, <1>2, <1>3, <1>4 DEF EpochOrder
<1> QED
  BY <1>1, <1>2, <1>3, <1>5 DEF EpochOrder

LEMMA VotePublished ==
    ASSUME TypeOK, EpochOrder, PublishedRootIsVoted,
           NEW signer \in Signers, NEW o \in Operators, NEW v \in Vaults, NEW root \in Roots,
           Vote(signer, o, v, root)
    PROVE  PublishedRootIsVoted'
<1>1. /\ epoch \in Nat /\ ballotBox.epoch \in Nat /\ ballotBox.lastConsensusEpoch \in Nat
  BY ConstantsAssumption DEF TypeOK, BallotBoxes
<1>2. /\ epoch > 0
      /\ epoch > ballotBox.epoch \/ epoch = ballotBox.epoch
      /\ ballotBox'.epoch = epoch
      /\ ballotBox'.proposedRewardsRoot = IF epoch > ballotBox.epoch THEN root ELSE ballotBox.proposedRewardsRoot
      /\ \/ /\ ballotBox'.lastConsensusEpoch = epoch
            /\ ballotBox'.rewardsRoot = ballotBox'.proposedRewardsRoot
         \/ /\ ballotBox'.lastConsensusEpoch = ballotBox.lastConsensusEpoch
            /\ ballotBox'.rewardsRoot = ballotBox.rewardsRoot
  BY VoteEffect
<1>3. Approving' = (IF epoch > ballotBox.epoch THEN {} ELSE Approving)
                      \cup (IF root = ballotBox'.proposedRewardsRoot THEN {o} ELSE {})
  BY VoteCounted
<1>4. Approving' # {}
  BY <1>1, <1>2, <1>3 DEF PublishedRootIsVoted
<1> QED
  BY <1>1, <1>2, <1>4 DEF PublishedRootIsVoted, EpochOrder

LEMMA VoteTally ==
    ASSUME TypeOK, TypeOK', EpochOrder, TallyMatchesVotes,
           NEW signer \in Signers, NEW o \in Operators, NEW v \in Vaults, NEW root \in Roots,
           Vote(signer, o, v, root)
    PROVE  TallyMatchesVotes'
<1> DEFINE before(S) == IF epoch > ballotBox.epoch THEN {} ELSE S
           approves == root = ballotBox'.proposedRewardsRoot
           amount == staked[v][o]
<1>1. /\ ballotBox'.operatorsVoted = (IF epoch > ballotBox.epoch THEN 0 ELSE ballotBox.operatorsVoted) + 1
      /\ ballotBox'.approvedVotes = (IF epoch > ballotBox.epoch THEN 0 ELSE ballotBox.approvedVotes)
                                        + (IF approves THEN amount ELSE 0)
      /\ ballotBox'.totalVotes = (IF epoch > ballotBox.epoch THEN 0 ELSE ballotBox.totalVotes) + amount
  BY VoteEffect
<1>2. /\ o \notin before(Counted)
      /\ Counted' = before(Counted) \cup {o}
      /\ Approving' = before(Approving) \cup (IF approves THEN {o} ELSE {})
      /\ \A p \in Operators \ {o} : votes'[p] = votes[p]
      /\ votes'[o].amount = amount
  <2>1. votes'[o] = [epoch |-> epoch, vault |-> v, root |-> root, amount |-> amount]
    BY DEF Vote, TypeOK
  <2>2. votes'[o].amount = amount
    BY <2>1
  <2>3. /\ o \notin before(Counted)
        /\ Counted' = before(Counted) \cup {o}
        /\ Approving' = before(Approving) \cup (IF approves THEN {o} ELSE {})
        /\ \A p \in Operators \ {o} : votes'[p] = votes[p]
    BY VoteCounted
  <2> QED
    BY <2>2, <2>3
<1>3. /\ before(Counted) \in SUBSET Operators /\ before(Approving) \in SUBSET Operators
      /\ before(Approving) \subseteq before(Counted)
      /\ \A p \in before(Counted) : votes'[p] = votes[p]
  BY <1>2 DEF Counted, Approving
<1>4. /\ \A p \in Operators : VotedAmount[p] \in Nat /\ VotedAmount'[p] \in Nat
      /\ VotedAmount'[o] = amount
      /\ \A p \in before(Counted) : VotedAmount'[p] = VotedAmount[p]
      /\ amount \in Nat
      /\ ballotBox.operatorsVoted \in Nat /\ ballotBox.approvedVotes \in Nat
      /\ ballotBox.totalVotes \in Nat
  BY <1>2, <1>3, ConstantsAssumption DEF TypeOK, BallotBoxes, Ballots, VotedAmount
<1>5. /\ Cardinality(before(Counted)) = IF epoch > ballotBox.epoch THEN 0 ELSE ballotBox.operatorsVoted
      /\ Weight(before(Counted)) = IF epoch > ballotBox.epoch THEN 0 ELSE ballotBox.totalVotes
      /\ Weight(before(Approving)) = IF epoch > ballotBox.epoch THEN 0 ELSE ballotBox.approvedVotes
  BY FS_EmptySet, SumEmpty DEF TallyMatchesVotes, Weight
<1> HIDE DEF before, approves, amount
<1>6. IsFiniteSet(before(Counted)) /\ IsFiniteSet(before(Approving))
  BY <1>3, ConstantsAssumption, FS_Subset
<1>7. ASSUME NEW S \in SUBSET before(Counted), IsFiniteSet(S)
      PROVE  /\ SumOver(S, VotedAmount') = Weight(S)
             /\ SumOver(S \cup {o}, VotedAmount') = Weight(S) + amount
  <2>1. \A p \in S : VotedAmount'[p] = VotedAmount[p] /\ VotedAmount'[p] \in Nat
    BY <1>3, <1>4, <1>7
  <2>2. SumOver(S, VotedAmount') = SumOver(S, VotedAmount)
    BY <2>1, SumSame
  <2>3. o \notin S /\ VotedAmount'[o] \in Nat
    BY <1>2, <1>4, <1>7
  <2>4. SumOver(S \cup {o}, VotedAmount') = SumOver(S, VotedAmount') + VotedAmount'[o]
    BY <1>7, <2>1, <2>3, SumAdd
  <2> QED
    BY <1>4, <2>2, <2>4 DEF Weight
<1>8. ballotBox'.operatorsVoted = Cardinality(Counted')
  <2>1. Cardinality(Counted') = Cardinality(before(Counted)) + 1
    BY <1>2, <1>6, FS_AddElement
  <2> QED
    BY <1>1, <1>5, <2>1
<1>9. ballotBox'.totalVotes = SumOver(Counted', VotedAmount')
  BY <1>1, <1>2, <1>5, <1>6, <1>7
<1>10. ballotBox'.approvedVotes = SumOver(Approving', VotedAmount')
  <2>1. CASE approves
    BY <1>1, <1>2, <1>3, <1>5, <1>6, <1>7, <2>1
  <2>2. CASE ~approves
    <3>1. Approving' = before(Approving)
      BY <1>2, <2>2
    <3>2. SumOver(Approving', VotedAmount') = Weight(before(Approving))
      BY <1>3, <1>6, <1>7, <3>1
    <3> QED
      BY <1>1, <1>4, <1>5, <2>2, <3>2
  <2> QED
    BY <2>1, <2>2
<1> QED
  BY <1>8, <1>9, <1>10 DEF TallyMatchesVotes, Weight

-----------------------------------------------------------------------------
(* The theorems                                                            *)

LEMMA InvInit == Init => Inv
<1> SUFFICES ASSUME Init PROVE Inv
  OBVIOUS
<1>1. TypeOK
  BY TypeInit
<1>2. SetupOrder /\ EpochOrder /\ PublishedRootIsVoted
  BY DEF Init, SetupOrder, EpochOrder, PublishedRootIsVoted, EmptyBallotBox, NoBallot
<1>3. Counted = {} /\ Approving = {}
  BY DEF Init, Counted, Approving, NoBallot
<1>4. TallyMatchesVotes
  BY <1>3, FS_EmptySet, SumEmpty DEF Init, TallyMatchesVotes, Weight, EmptyBallotBox
<1> QED
  BY <1>1, <1>2, <1>4 DEF Inv

LEMMA InvStep == Inv /\ [Next]_vars => Inv'
<1> SUFFICES ASSUME Inv, [Next]_vars PROVE Inv'
  OBVIOUS
<1>1. TypeOK' /\ SetupOrder'
  BY TypeStep, SetupOrderStep DEF Inv
<1>2. CASE Setup \/ Environment \/ UNCHANGED vars
  BY <1>1, <1>2, QuietStep, QuietPreserves DEF Inv
<1>3. CASE Voting
  <2>1. PICK signer \in Signers, o \in Operators, v \in Vaults, root \in Roots : Vote(signer, o, v, root)
    BY <1>3 DEF Voting
  <2> QED
    BY <1>1, <2>1, VoteEpochOrder, VotePublished, VoteTally DEF Inv
<1> QED
  BY <1>2, <1>3 DEF Next

THEOREM InvCorrect == Spec => []Inv
<1> QED
  BY InvInit, InvStep, PTL DEF Spec

\* However instructions interleave, the tallies of the ballot box are those of
\* the distinct operators that voted in its epoch, each counted once.
THEOREM TallyCorrect == Spec => []TallyMatchesVotes
<1>1. Inv => TallyMatchesVotes
  BY DEF Inv
<1> QED
  BY <1>1, InvCorrect, PTL

\* The root that readers see is always one that was voted for.
THEOREM PublishedCorrect == Spec => []PublishedRootIsVoted
<1>1. Inv => PublishedRootIsVoted
  BY DEF Inv
<1> QED
  BY <1>1, InvCorrect, PTL

\* An operator never votes, nor is consensus reached, later than the epoch of
\* the ballot box; the records of both never run ahead of the clock.
THEOREM EpochOrderCorrect == Spec => []EpochOrder
<1>1. Inv => EpochOrder
  BY DEF Inv
<1> QED
  BY <1>1, InvCorrect, PTL

\* Accounts appear in the order that the instructions impose, and those that one
\* transaction creates appear together.
THEOREM SetupOrderCorrect == Spec => []SetupOrder
<1>1. Inv => SetupOrder
  BY DEF Inv
<1> QED
  BY <1>1, InvCorrect, PTL

-----------------------------------------------------------------------------
(* What a step may never do                                                *)

\* Two thirds of a supply rounded down, as the program computes it.
LEMMA ThresholdIsTwoThirds ==
    ASSUME NEW w \in Nat, NEW supply \in Nat
    PROVE  w >= Threshold(supply) <=> TwoThirds(w, supply)
BY DEF Threshold, TwoThirds

\* A step that is not quiet is a vote.
LEMMA QuietOrVote ==
    ASSUME Inv, [Next]_vars
    PROVE  \/ Quiet
           \/ \E signer \in Signers, o \in Operators, v \in Vaults, root \in Roots : Vote(signer, o, v, root)
<1>1. CASE Setup \/ Environment \/ UNCHANGED vars
  BY <1>1, QuietStep DEF Inv
<1>2. CASE Voting
  BY <1>2 DEF Voting
<1> QED
  BY <1>1, <1>2 DEF Next

\* What a vote settles, in terms of the votes cast.
LEMMA VoteSettles ==
    ASSUME Inv, Inv',
           NEW signer \in Signers, NEW o \in Operators, NEW v \in Vaults, NEW root \in Roots,
           Vote(signer, o, v, root)
    PROVE  LET settles == /\ epoch > ballotBox.lastConsensusEpoch
                          /\ TwoThirds(Weight(Approving)', vrtSupply[v])
           IN  /\ o \in Counted'
               /\ votes'[o] # votes[o] /\ votes'[o].vault = v
               /\ \A p \in Operators \ {o} : votes'[p] = votes[p]
               /\ ballotBox.lastConsensusEpoch <= epoch
               /\ ballotBox'.lastConsensusEpoch
                      = IF settles THEN epoch ELSE ballotBox.lastConsensusEpoch
               /\ ballotBox'.rewardsRoot
                      = IF settles THEN ballotBox'.proposedRewardsRoot ELSE ballotBox.rewardsRoot
<1>1. /\ epoch \in Nat /\ vrtSupply[v] \in Nat /\ ballotBox'.approvedVotes \in Nat
      /\ ballotBox.epoch \in Nat /\ ballotBox.lastConsensusEpoch \in Nat
      /\ lastVotedEpoch[o] \in Nat
  BY ConstantsAssumption DEF Inv, TypeOK, BallotBoxes
<1>2. Weight(Approving)' = ballotBox'.approvedVotes
  BY DEF Inv, TallyMatchesVotes
<1>3. ballotBox'.approvedVotes >= Threshold(vrtSupply[v]) <=> TwoThirds(Weight(Approving)', vrtSupply[v])
  BY <1>1, <1>2, ThresholdIsTwoThirds
<1>4. /\ o \in Counted'
      /\ votes'[o] = [epoch |-> epoch, vault |-> v, root |-> root, amount |-> staked[v][o]]
      /\ \A p \in Operators \ {o} : votes'[p] = votes[p]
  BY VoteCounted DEF Inv
<1>5. votes'[o] # votes[o] /\ votes'[o].vault = v
  BY <1>1, <1>4 DEF Inv, EpochOrder, Vote, Eligible
<1>6. LET settles == /\ epoch > ballotBox.lastConsensusEpoch
                     /\ ballotBox'.approvedVotes >= Threshold(vrtSupply[v])
      IN  /\ ballotBox'.lastConsensusEpoch
                 = IF settles THEN epoch ELSE ballotBox.lastConsensusEpoch
          /\ ballotBox'.rewardsRoot
                 = IF settles THEN ballotBox'.proposedRewardsRoot ELSE ballotBox.rewardsRoot
  BY VoteEffect DEF Inv
<1>7. ballotBox.lastConsensusEpoch <= epoch
  BY <1>1 DEF Inv, EpochOrder
<1> QED
  BY <1>3, <1>4, <1>5, <1>6, <1>7

\* What readers see stays, or is the proposal that two thirds approve.
Backed ==
    \/ /\ ballotBox'.lastConsensusEpoch = ballotBox.lastConsensusEpoch
       /\ ballotBox'.rewardsRoot = ballotBox.rewardsRoot
    \/ /\ ballotBox.lastConsensusEpoch < epoch
       /\ ballotBox'.lastConsensusEpoch = epoch
       /\ ballotBox'.rewardsRoot = ballotBox'.proposedRewardsRoot
       /\ \E o \in Counted' :
             /\ votes'[o] # votes[o]
             /\ TwoThirds(Weight(Approving)', vrtSupply[votes'[o].vault])

LEMMA BackedStep ==
    ASSUME Inv, Inv', [Next]_vars PROVE Backed
<1>1. CASE Quiet
  BY <1>1 DEF Quiet, Backed
<1>2. ASSUME NEW signer \in Signers, NEW o \in Operators, NEW v \in Vaults, NEW root \in Roots,
             Vote(signer, o, v, root)
      PROVE  Backed
  <2>1. /\ epoch \in Nat /\ ballotBox.lastConsensusEpoch \in Nat
    BY ConstantsAssumption DEF Inv, TypeOK, BallotBoxes
  <2> QED
    BY <1>2, <2>1, VoteSettles DEF Backed
<1> QED
  BY <1>1, <1>2, QuietOrVote

\* The root and its epoch change only when an operator votes in an epoch without
\* consensus, and two thirds of its vault's supply approve.
THEOREM BackedCorrect == Spec => ConsensusIsBacked
<1>1. Inv /\ Inv' /\ [Next]_vars => [Backed]_vars
  BY BackedStep
<1> QED
  BY <1>1, InvCorrect, PTL DEF Spec, ConsensusIsBacked, Backed

\* A vote that brings the approving votes to two thirds of its vault's supply
\* leaves the epoch settled.
THEOREM NotMissedCorrect == Spec => ConsensusIsNotMissed
<1> DEFINE NotMissed ==
      \A o \in Operators :
          (/\ votes'[o] # votes[o]
           /\ TwoThirds(Weight(Approving)', vrtSupply[votes'[o].vault]))
          => ballotBox'.lastConsensusEpoch = epoch
<1>1. ASSUME Inv, Inv', [Next]_vars PROVE NotMissed
  <2>1. CASE Quiet
    BY <2>1 DEF Quiet
  <2>2. ASSUME NEW signer \in Signers, NEW o \in Operators, NEW v \in Vaults, NEW root \in Roots,
               Vote(signer, o, v, root)
        PROVE  NotMissed
    <3>1. /\ epoch \in Nat /\ ballotBox.lastConsensusEpoch \in Nat
      BY ConstantsAssumption, <1>1 DEF Inv, TypeOK, BallotBoxes
    <3> QED
      BY <1>1, <2>2, <3>1, VoteSettles
  <2> QED
    BY <1>1, <2>1, <2>2, QuietOrVote
<1>2. Inv /\ Inv' /\ [Next]_vars => [NotMissed]_vars
  BY <1>1
<1> QED
  BY <1>2, InvCorrect, PTL DEF Spec, ConsensusIsNotMissed

\* Within an epoch the proposal is fixed and the tallies only grow.
THEOREM GrowsCorrect == Spec => BallotOnlyGrows
<1> DEFINE Grows ==
      \/ ballotBox'.epoch > ballotBox.epoch
      \/ /\ ballotBox'.epoch = ballotBox.epoch
         /\ ballotBox'.proposedRewardsRoot = ballotBox.proposedRewardsRoot
         /\ ballotBox'.operatorsVoted >= ballotBox.operatorsVoted
         /\ ballotBox'.approvedVotes >= ballotBox.approvedVotes
         /\ ballotBox'.totalVotes >= ballotBox.totalVotes
<1>1. ASSUME Inv, [Next]_vars PROVE Grows
  <2>1. /\ ballotBox.operatorsVoted \in Nat /\ ballotBox.approvedVotes \in Nat
        /\ ballotBox.totalVotes \in Nat
    BY ConstantsAssumption, <1>1 DEF Inv, TypeOK, BallotBoxes
  <2>2. CASE Quiet
    BY <2>1, <2>2 DEF Quiet
  <2>3. ASSUME NEW signer \in Signers, NEW o \in Operators, NEW v \in Vaults, NEW root \in Roots,
               Vote(signer, o, v, root)
        PROVE  Grows
    <3>1. staked[v][o] \in Nat
      BY ConstantsAssumption, <1>1 DEF Inv, TypeOK
    <3> QED
      BY <1>1, <2>1, <2>3, <3>1, VoteEffect DEF Inv
  <2> QED
    BY <1>1, <2>2, <2>3, QuietOrVote
<1>2. Inv /\ [Next]_vars => [Grows]_vars
  BY <1>1
<1> QED
  BY <1>2, InvCorrect, PTL DEF Spec, BallotOnlyGrows

-----------------------------------------------------------------------------
(* Refinement: the ballot box implements EpochConsensus                    *)

AbstractCast == [o \in Operators |-> [epoch |-> votes[o].epoch, root |-> votes[o].root]]
AbstractPublished == [epoch |-> ballotBox.lastConsensusEpoch, root |-> ballotBox.rewardsRoot]

LEMMA RefinementInit == Init => Abstract!Init
BY DEF Init, Abstract!Init, NoBallot, EmptyBallotBox

LEMMA RefinementQuiet ==
    ASSUME Quiet PROVE [Abstract!Next]_(Abstract!vars)
<1>1. AbstractCast' = AbstractCast /\ AbstractPublished' = AbstractPublished
  BY DEF Quiet, AbstractCast, AbstractPublished
<1>2. CASE epoch' = epoch
  BY <1>1, <1>2 DEF Abstract!vars, AbstractCast, AbstractPublished
<1>3. CASE epoch' = epoch + 1
  BY <1>1, <1>3 DEF Abstract!Next, Abstract!NewEpoch, AbstractCast, AbstractPublished
<1> QED
  BY <1>2, <1>3 DEF Quiet

LEMMA RefinementVote ==
    ASSUME Inv, Inv',
           NEW signer \in Signers, NEW o \in Operators, NEW v \in Vaults, NEW root \in Roots,
           Vote(signer, o, v, root)
    PROVE  Abstract!Cast(o, root)
<1>1. /\ epoch \in Nat /\ ballotBox.lastConsensusEpoch \in Nat /\ lastVotedEpoch[o] \in Nat
  BY ConstantsAssumption DEF Inv, TypeOK, BallotBoxes
<1>2. epoch' = epoch /\ AbstractCast[o].epoch < epoch
  BY <1>1 DEF Vote, Eligible, Inv, EpochOrder, AbstractCast
<1>3. AbstractCast' = [AbstractCast EXCEPT ![o] = [epoch |-> epoch, root |-> root]]
  <2>1. votes' = [votes EXCEPT ![o] =
                    [epoch |-> epoch, vault |-> v, root |-> root, amount |-> staked[v][o]]]
        /\ votes \in [Operators -> Ballots]
    BY DEF Vote, Inv, TypeOK
  <2> QED
    BY <2>1 DEF AbstractCast
<1>4. CASE /\ epoch > ballotBox.lastConsensusEpoch
           /\ TwoThirds(Weight(Approving)', vrtSupply[v])
  <2>1. AbstractPublished.epoch < epoch
    BY <1>1, <1>4 DEF AbstractPublished
  <2>2. AbstractPublished' = [epoch |-> epoch, root |-> ballotBox'.proposedRewardsRoot]
    BY <1>4, VoteSettles DEF AbstractPublished
  <2>3. ballotBox'.epoch = epoch /\ epoch > 0
    BY VoteEffect DEF Inv
  <2>4. PICK p \in Approving' : TRUE
    BY <2>3 DEF Inv, PublishedRootIsVoted
  <2>5. /\ p \in Operators
        /\ AbstractCast'[p].epoch = epoch
        /\ AbstractCast'[p].root = ballotBox'.proposedRewardsRoot
    BY <2>3, <2>4 DEF Approving, Counted, AbstractCast
  <2> QED
    BY <1>2, <1>3, <2>1, <2>2, <2>5
    DEF Abstract!Cast, Abstract!Publish, Abstract!RootsCastNow, AbstractCast, AbstractPublished
<1>5. CASE ~(/\ epoch > ballotBox.lastConsensusEpoch
             /\ TwoThirds(Weight(Approving)', vrtSupply[v]))
  <2>1. AbstractPublished' = AbstractPublished
    BY <1>5, VoteSettles DEF AbstractPublished
  <2> QED
    BY <1>2, <1>3, <2>1 DEF Abstract!Cast, AbstractCast, AbstractPublished
<1> QED
  BY <1>4, <1>5

\* Every behaviour of the program is one of the abstract ballot box: one cast per
\* operator and epoch, one published root per epoch, and that one was cast in it.
THEOREM RefinementCorrect == Spec => ImplementsEpochConsensus
<1>1. Inv /\ Inv' /\ [Next]_vars => [Abstract!Next]_(Abstract!vars)
  BY QuietOrVote, RefinementQuiet, RefinementVote DEF Abstract!Next
<1> QED
  BY <1>1, RefinementInit, InvCorrect, PTL DEF Spec, ImplementsEpochConsensus, Abstract!Spec

=============================================================================
