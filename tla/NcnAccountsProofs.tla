--------------------------- MODULE NcnAccountsProofs ---------------------------
(* Proofs about NcnAccounts, for every value of its constants. *)
EXTENDS NcnAccounts, TLAPS

-----------------------------------------------------------------------------
(* Accounts that appear                                                    *)

\* Accounts stay in place when others appear.
LEMMA OthersStayInPlace ==
    ASSUME NcnAccountsTypeOK,
           DOMAIN accountData \subseteq DOMAIN accountData',
           \A a \in DOMAIN accountData : accountData'[a] = accountData[a],
           DOMAIN ncnAccounts \subseteq DOMAIN ncnAccounts'
    PROVE  /\ \A a \in DOMAIN accountData : InPlace(a, accountData[a])'
           /\ \A a : Holds(a, "Config") => Holds(a, "Config")'
<1>1. \A a : Holds(a, "Config") => Holds(a, "Config")'
  BY DEF Holds
<1>2. ASSUME NEW a \in DOMAIN accountData PROVE InPlace(a, accountData[a])'
  <2>1. InPlace(a, accountData[a])
    BY DEF NcnAccountsTypeOK
  <2> QED
    BY <1>1, <2>1 DEF InPlace
<1> QED
  BY <1>1, <1>2

\* Addresses of different kinds are different.
LEMMA KindsOfAddresses ==
    ASSUME NEW ncn, NEW config, NEW other, NEW o
    PROVE  /\ ConfigOf(ncn) # BallotBoxOf(config)
           /\ ConfigOf(ncn) # VoterStateOf(config, o)
           /\ BallotBoxOf(other) # VoterStateOf(config, o)
BY DEF ConfigOf, BallotBoxOf, VoterStateOf, Pda

LEMMA TypeInit == Init => NcnAccountsTypeOK
BY NcnAccountsAssumption DEF Init, NcnAccountsTypeOK, Ballots

-----------------------------------------------------------------------------
(* The instructions                                                        *)

LEMMA InitializeNcnType ==
    ASSUME NcnAccountsTypeOK, NEW ctx \in InitializeNcnContexts, InitializeNcn(ctx)
    PROVE  NcnAccountsTypeOK'
<1> DEFINE config == [type |-> "Config", ncn |-> ctx.ncn]
           box == EmptyBallotBox(ctx.config)
           one == With(accountData, ctx.config, config)
<1>1. /\ ctx.ncn \in Ncns /\ ctx.config = ConfigOf(ctx.ncn) /\ ctx.config \in Configs
      /\ ctx.ballot_box = BallotBoxOf(ctx.config) /\ ctx.ncn_admin = NcnAdminOf(ctx.ncn)
      /\ ctx.config \notin DOMAIN accountData /\ ctx.ballot_box \notin DOMAIN accountData
      /\ ctx.ncn \notin DOMAIN ncnAccounts
  BY DEF InitializeNcn, InitializeNcnAccepted, InitializeNcnContexts
<1>2. /\ ncnAccounts' = With(ncnAccounts, ctx.ncn, ctx.ncn_admin)
      /\ accountData' = With(one, ctx.ballot_box, box)
      /\ UNCHANGED <<epoch, delegations, vrtSupply, votes>>
  BY DEF InitializeNcn, jitoVars
<1>3. ctx.config # ctx.ballot_box
  BY <1>1, KindsOfAddresses
<1>4. /\ DOMAIN accountData' = DOMAIN accountData \cup {ctx.config, ctx.ballot_box}
      /\ accountData'[ctx.config] = config
      /\ accountData'[ctx.ballot_box] = box
      /\ \A a \in DOMAIN accountData : accountData'[a] = accountData[a]
  <2>1. /\ DOMAIN one = DOMAIN accountData \cup {ctx.config}
        /\ one[ctx.config] = config
        /\ \A a \in DOMAIN accountData : a # ctx.config => one[a] = accountData[a]
    BY DEF With
  <2> HIDE DEF one, config, box
  <2>2. /\ DOMAIN accountData' = DOMAIN one \cup {ctx.ballot_box}
        /\ accountData'[ctx.ballot_box] = box
        /\ \A a \in DOMAIN one : a # ctx.ballot_box => accountData'[a] = one[a]
    BY <1>2 DEF With
  <2> QED
    BY <1>1, <1>3, <2>1, <2>2
<1>5. /\ DOMAIN ncnAccounts' = DOMAIN ncnAccounts \cup {ctx.ncn}
      /\ ncnAccounts'[ctx.ncn] = ctx.ncn_admin
      /\ \A ncn \in DOMAIN ncnAccounts : ncnAccounts'[ncn] = ncnAccounts[ncn]
  BY <1>1, <1>2 DEF With
<1>6. Holds(ctx.config, "Config")'
  BY <1>4 DEF Holds
<1>7. InPlace(ctx.config, accountData[ctx.config])' /\ InPlace(ctx.ballot_box, accountData[ctx.ballot_box])'
  <2>1. config \in ConfigAccounts /\ config.ncn = ctx.ncn
    BY <1>1 DEF ConfigAccounts
  <2>2. box \in BallotBoxAccounts /\ box.config = ctx.config
    BY <1>1, NcnAccountsAssumption DEF BallotBoxAccounts, EmptyBallotBox
  <2> HIDE DEF config, box
  <2> QED
    BY <1>1, <1>4, <1>5, <1>6, <2>1, <2>2 DEF InPlace
<1>8. /\ \A a \in DOMAIN accountData : InPlace(a, accountData[a])'
      /\ \A a : Holds(a, "Config") => Holds(a, "Config")'
  BY <1>4, <1>5, OthersStayInPlace
<1> HIDE DEF config, box
<1> QED
  BY <1>1, <1>2, <1>4, <1>5, <1>6, <1>7, <1>8 DEF NcnAccountsTypeOK

LEMMA InitializeOperatorType ==
    ASSUME NcnAccountsTypeOK, NEW ctx \in InitializeOperatorContexts, InitializeOperator(ctx)
    PROVE  NcnAccountsTypeOK'
<1> DEFINE voter == NewVoterState(ctx)
<1>1. /\ Holds(ctx.config, "Config") /\ ctx.config \in Configs /\ ctx.operator \in Operators
      /\ ctx.voter_state = VoterStateOf(ctx.config, ctx.operator)
      /\ ctx.voter_state \notin DOMAIN accountData
      /\ accountData' = With(accountData, ctx.voter_state, voter)
      /\ UNCHANGED <<epoch, ncnAccounts, delegations, vrtSupply, votes>>
  BY DEF InitializeOperator, InitializeOperatorAccepted, InitializeOperatorContexts, ActsForNcn, jitoVars
<1>2. voter \in VoterStateAccounts /\ voter.config = ctx.config /\ voter.operator = ctx.operator
  BY <1>1 DEF NewVoterState, VoterStateAccounts
<1> HIDE DEF voter
<1>3. /\ DOMAIN accountData' = DOMAIN accountData \cup {ctx.voter_state}
      /\ accountData'[ctx.voter_state] = voter
      /\ \A a \in DOMAIN accountData : accountData'[a] = accountData[a]
  BY <1>1 DEF With
<1>4. /\ \A a \in DOMAIN accountData : InPlace(a, accountData[a])'
      /\ \A a : Holds(a, "Config") => Holds(a, "Config")'
  BY <1>1, <1>3, OthersStayInPlace
<1>5. InPlace(ctx.voter_state, accountData[ctx.voter_state])'
  BY <1>1, <1>2, <1>3, <1>4 DEF InPlace
<1> QED
  BY <1>1, <1>3, <1>4, <1>5 DEF NcnAccountsTypeOK

\* What the type of an account says of it.
LEMMA TypesOfAccounts ==
    ASSUME NcnAccountsTypeOK, NEW a
    PROVE  /\ Holds(a, "Config") =>
                  /\ accountData[a] \in ConfigAccounts
                  /\ a = ConfigOf(accountData[a].ncn)
                  /\ accountData[a].ncn \in DOMAIN ncnAccounts
           /\ Holds(a, "BallotBox") =>
                  /\ accountData[a] \in BallotBoxAccounts
                  /\ a = BallotBoxOf(accountData[a].config)
                  /\ Holds(accountData[a].config, "Config")
           /\ Holds(a, "VoterState") =>
                  /\ accountData[a] \in VoterStateAccounts
                  /\ a = VoterStateOf(accountData[a].config, accountData[a].operator)
                  /\ Holds(accountData[a].config, "Config")
<1>1. CASE a \in DOMAIN accountData
  <2>1. InPlace(a, accountData[a])
    BY <1>1 DEF NcnAccountsTypeOK
  <2>2. \A account : /\ account \in ConfigAccounts => account.type = "Config"
                     /\ account \in BallotBoxAccounts => account.type = "BallotBox"
                     /\ account \in VoterStateAccounts => account.type = "VoterState"
    BY DEF ConfigAccounts, BallotBoxAccounts, VoterStateAccounts
  <2> QED
    BY <2>1, <2>2 DEF InPlace, Holds
<1> QED
  BY <1>1 DEF Holds

LEMMA CountedType ==
    ASSUME NEW box \in BallotBoxAccounts, NEW root \in Roots, NEW amount \in Nat, epoch \in Nat
    PROVE  /\ Counted(box, root, amount) \in BallotBoxAccounts
           /\ Counted(box, root, amount).config = box.config
<1> DEFINE new == [EmptyBallotBox(box.config) EXCEPT
                      !.epoch = epoch, !.proposedRewardsRoot = root,
                      !.lastConsensusEpoch = box.lastConsensusEpoch, !.rewardsRoot = box.rewardsRoot]
           opened == IF epoch > box.epoch THEN new ELSE box
           result(b) == [b EXCEPT !.operatorsVoted = @ + 1,
                                  !.totalVotes = @ + amount,
                                  !.approvedVotes = @ + IF root = b.proposedRewardsRoot THEN amount ELSE 0]
<1>1. new \in BallotBoxAccounts /\ new.config = box.config
  BY NcnAccountsAssumption DEF EmptyBallotBox, BallotBoxAccounts
<1>2. opened \in BallotBoxAccounts /\ opened.config = box.config
  BY <1>1
<1>3. ASSUME NEW b \in BallotBoxAccounts
      PROVE  result(b) \in BallotBoxAccounts /\ result(b).config = b.config
  <2> DEFINE approval == IF root = b.proposedRewardsRoot THEN amount ELSE 0
  <2>1. approval \in Nat
    OBVIOUS
  <2>2. result(b) = [b EXCEPT !.operatorsVoted = @ + 1,
                              !.totalVotes = @ + amount,
                              !.approvedVotes = @ + approval]
    OBVIOUS
  <2> HIDE DEF approval, result
  <2>3. /\ b.operatorsVoted + 1 \in Nat /\ b.totalVotes + amount \in Nat
        /\ b.approvedVotes + approval \in Nat
    BY <2>1 DEF BallotBoxAccounts
  <2> QED
    BY <2>2, <2>3 DEF BallotBoxAccounts
<1>4. Counted(box, root, amount) = result(opened)
  BY DEF Counted
<1> HIDE DEF opened, result
<1> QED
  BY <1>2, <1>3, <1>4

LEMMA SettledType ==
    ASSUME NEW box \in BallotBoxAccounts, NEW supply
    PROVE  Settled(box, supply) \in BallotBoxAccounts /\ Settled(box, supply).config = box.config
BY DEF Settled, BallotBoxAccounts

\* A vote writes to one ballot box and one voter account, and leaves whose they are.
LEMMA VoteEffect ==
    ASSUME NcnAccountsTypeOK, NEW ctx \in VoteContexts, NEW root \in Roots, Vote(ctx, root)
    PROVE  /\ Holds(ctx.ballot_box, "BallotBox") /\ Holds(ctx.voter_state, "VoterState")
           /\ DOMAIN accountData' = DOMAIN accountData
           /\ accountData'[ctx.ballot_box] \in BallotBoxAccounts
           /\ accountData'[ctx.ballot_box].config = accountData[ctx.ballot_box].config
           /\ accountData'[ctx.voter_state] \in VoterStateAccounts
           /\ accountData'[ctx.voter_state].config = accountData[ctx.voter_state].config
           /\ accountData'[ctx.voter_state].operator = accountData[ctx.voter_state].operator
           /\ \A a \in DOMAIN accountData :
                 a # ctx.ballot_box /\ a # ctx.voter_state => accountData'[a] = accountData[a]
<1> DEFINE amount == delegations[ctx.vault_operator_delegation]
           box == Settled(Counted(accountData[ctx.ballot_box], root, amount), vrtSupply[ctx.vault])
           voter == [accountData[ctx.voter_state] EXCEPT !.lastVotedEpoch = epoch]
<1>1. /\ Holds(ctx.ballot_box, "BallotBox") /\ Holds(ctx.voter_state, "VoterState")
      /\ amount \in Nat /\ epoch \in Nat
  <2>1. VoteAccounts(ctx) /\ ctx.vault_operator_delegation \in DOMAIN delegations
    BY DEF Vote, VoteAccepted
  <2>2. amount \in Nat /\ epoch \in Nat
    BY <2>1, NcnAccountsAssumption DEF NcnAccountsTypeOK
  <2> QED
    BY <2>1, <2>2 DEF VoteAccounts
<1>2. ctx.ballot_box # ctx.voter_state
  BY <1>1 DEF Holds
<1>3. accountData' = [accountData EXCEPT
                         ![ctx.ballot_box] = box, ![ctx.voter_state].lastVotedEpoch = epoch]
  BY DEF Vote
<1>4. /\ box \in BallotBoxAccounts /\ box.config = accountData[ctx.ballot_box].config
      /\ ctx.ballot_box = BallotBoxOf(box.config)
  BY <1>1, TypesOfAccounts, CountedType, SettledType, SMTT(30)
<1>5. /\ voter \in VoterStateAccounts
      /\ voter.config = accountData[ctx.voter_state].config
      /\ voter.operator = accountData[ctx.voter_state].operator
  BY <1>1, TypesOfAccounts DEF VoterStateAccounts
<1>6. /\ DOMAIN accountData' = DOMAIN accountData
      /\ accountData'[ctx.ballot_box] = box
      /\ accountData'[ctx.voter_state] = voter
      /\ \A a \in DOMAIN accountData :
            a # ctx.ballot_box /\ a # ctx.voter_state => accountData'[a] = accountData[a]
  <2> HIDE DEF box
  <2> QED
    BY <1>1, <1>2, <1>3 DEF Holds
<1> HIDE DEF box, voter
<1> QED
  BY <1>1, <1>4, <1>5, <1>6

\* An account keeps its kind when it is voted with.
LEMMA VoteKeepsKinds ==
    ASSUME NcnAccountsTypeOK, NEW ctx \in VoteContexts, NEW root \in Roots, Vote(ctx, root),
           NEW a, NEW type
    PROVE  Holds(a, type)' <=> Holds(a, type)
<1>1. CASE a = ctx.ballot_box \/ a = ctx.voter_state
  BY <1>1, VoteEffect DEF Holds, BallotBoxAccounts, VoterStateAccounts
<1>2. CASE a # ctx.ballot_box /\ a # ctx.voter_state
  BY <1>2, VoteEffect DEF Holds
<1> QED
  BY <1>1, <1>2

LEMMA VoteType ==
    ASSUME NcnAccountsTypeOK, NEW ctx \in VoteContexts, NEW root \in Roots, Vote(ctx, root)
    PROVE  NcnAccountsTypeOK'
<1>1. UNCHANGED <<epoch, ncnAccounts, delegations, vrtSupply>>
  BY DEF Vote, ncnJitoVars, jitoVars
<1>2. \A a : Holds(a, "Config") => Holds(a, "Config")'
  BY VoteKeepsKinds
<1>3. ASSUME NEW a \in DOMAIN accountData PROVE InPlace(a, accountData[a])'
  <2>1. CASE a = ctx.ballot_box
    BY <1>2, <2>1, TypesOfAccounts, VoteEffect DEF InPlace
  <2>2. CASE a = ctx.voter_state
    BY <1>2, <2>2, TypesOfAccounts, VoteEffect DEF InPlace
  <2>3. CASE a # ctx.ballot_box /\ a # ctx.voter_state
    BY <1>1, <1>2, <2>3, VoteEffect DEF InPlace, NcnAccountsTypeOK
  <2> QED
    BY <2>1, <2>2, <2>3
<1>4. votes' \in [Configs -> [Operators -> Ballots]]
  <2> DEFINE amount == delegations[ctx.vault_operator_delegation]
             ballot == [epoch |-> epoch, vault |-> ctx.vault, root |-> root, amount |-> amount]
  <2>1. ctx.vault_operator_delegation \in DOMAIN delegations
    BY DEF Vote, VoteAccepted
  <2>2. amount \in Nat /\ epoch \in Nat
    BY <2>1, NcnAccountsAssumption DEF NcnAccountsTypeOK
  <2>3. ballot \in Ballots
    BY <2>2 DEF VoteContexts, Ballots
  <2>4. votes' = [votes EXCEPT ![ctx.config][ctx.operator] = ballot]
    BY DEF Vote
  <2> HIDE DEF ballot
  <2> QED
    BY <2>3, <2>4 DEF NcnAccountsTypeOK
<1>5. DOMAIN accountData' = DOMAIN accountData
  BY VoteEffect
<1> QED
  BY <1>1, <1>2, <1>3, <1>4, <1>5 DEF NcnAccountsTypeOK

-----------------------------------------------------------------------------
(* Steps that leave the accounts of dephy-ncn alone.                       *)

LEMMA QuietType ==
    ASSUME NcnAccountsTypeOK, UNCHANGED <<accountData, ncnAccounts>>,
           epoch' \in 0..MaxEpoch,
           \A a \in DOMAIN delegations' : delegations'[a] \in StakeAmounts,
           vrtSupply' \in [Vaults -> SupplyAmounts],
           votes' = votes
    PROVE  NcnAccountsTypeOK'
BY DEF NcnAccountsTypeOK, InPlace, Holds

LEMMA EnvironmentType == ASSUME NcnAccountsTypeOK, Environment PROVE NcnAccountsTypeOK'
<1>1. /\ epoch \in 0..MaxEpoch
      /\ \A a \in DOMAIN delegations : delegations[a] \in StakeAmounts
      /\ vrtSupply \in [Vaults -> SupplyAmounts]
  BY DEF NcnAccountsTypeOK
<1>2. CASE AdvanceEpoch
  BY <1>1, <1>2, QuietType, NcnAccountsAssumption DEF AdvanceEpoch, ncnJitoVars, jitoVars
<1>3. CASE NextSlot
  BY <1>1, <1>3, QuietType DEF NextSlot, jitoVars
<1>4. ASSUME NEW o \in Operators, NEW v \in Vaults, InitializeOperatorVaultTicket(o, v)
      PROVE  NcnAccountsTypeOK'
  BY <1>1, <1>4, QuietType DEF InitializeOperatorVaultTicket, ncnJitoVars
<1>5. ASSUME NEW v \in Vaults, NEW o \in Operators, NEW amount \in StakeAmounts,
             SetDelegation(v, o, amount)
      PROVE  NcnAccountsTypeOK'
  <2>1. \A a \in DOMAIN delegations' : delegations'[a] \in StakeAmounts
    BY <1>1, <1>5 DEF SetDelegation, With
  <2> QED
    BY <1>1, <1>5, <2>1, QuietType DEF SetDelegation, ncnJitoVars
<1>6. ASSUME NEW v \in Vaults, NEW amount \in SupplyAmounts, SetSupply(v, amount)
      PROVE  NcnAccountsTypeOK'
  BY <1>1, <1>6, QuietType DEF SetSupply, ncnJitoVars
<1> QED
  BY <1>2, <1>3, <1>4, <1>5, <1>6 DEF Environment

LEMMA TypeStep == NcnAccountsTypeOK /\ [Next]_vars => NcnAccountsTypeOK'
<1> SUFFICES ASSUME NcnAccountsTypeOK, [Next]_vars PROVE NcnAccountsTypeOK'
  OBVIOUS
<1>1. /\ epoch \in 0..MaxEpoch
      /\ \A a \in DOMAIN delegations : delegations[a] \in StakeAmounts
      /\ vrtSupply \in [Vaults -> SupplyAmounts]
  BY DEF NcnAccountsTypeOK
<1>2. CASE UNCHANGED vars
  BY <1>1, <1>2, QuietType DEF vars, ncnJitoVars, jitoVars
<1>3. CASE Environment
  BY <1>3, EnvironmentType
<1>4. ASSUME NEW ctx \in VaultContexts, InitializeVault(ctx) \/ WarmupVault(ctx)
      PROVE  NcnAccountsTypeOK'
  BY <1>1, <1>4, QuietType DEF InitializeVault, WarmupVault, jitoVars
<1>5. ASSUME NEW ctx \in WarmupOperatorContexts, WarmupOperator(ctx)
      PROVE  NcnAccountsTypeOK'
  BY <1>1, <1>5, QuietType DEF WarmupOperator, jitoVars
<1> QED
  BY <1>2, <1>3, <1>4, <1>5, InitializeNcnType, InitializeOperatorType, VoteType
    DEF Next, Instructions

\* Every account is at the address of its fields, whatever accounts callers combine.
THEOREM NcnAccountsTypeCorrect == Spec => []NcnAccountsTypeOK
BY TypeInit, TypeStep, PTL DEF Spec

-----------------------------------------------------------------------------
(* Each NCN is an execution of DephyNcn                                    *)

\* An address tells what it is derived from.
LEMMA AddressesDetermine ==
    ASSUME NEW a, NEW b, NEW c, NEW d
    PROVE  /\ NcnOf(a) = NcnOf(b) => a = b
           /\ ConfigOf(a) = ConfigOf(b) => a = b
           /\ ConfigFor(a) = ConfigFor(b) => a = b
           /\ BallotBoxOf(a) = BallotBoxOf(b) => a = b
           /\ VoterStateOf(a, b) = VoterStateOf(c, d) => a = c /\ b = d
           /\ NcnOperatorStateOf(a, b) = NcnOperatorStateOf(c, d) => a = c /\ b = d
           /\ NcnVaultTicketOf(a, b) = NcnVaultTicketOf(c, d) => a = c /\ b = d
           /\ OperatorVaultTicketOf(a, b) = OperatorVaultTicketOf(c, d) => a = c /\ b = d
           /\ DelegationOf(a, b) = DelegationOf(c, d) => a = c /\ b = d
BY DEF NcnOf, ConfigOf, ConfigFor, BallotBoxOf, VoterStateOf, NcnOperatorStateOf,
       NcnVaultTicketOf, OperatorVaultTicketOf, DelegationOf, Pda, JitoPda

LEMMA GetOfWith ==
    ASSUME NEW f, NEW k, NEW value, NEW key, NEW default
    PROVE  Get(With(f, k, value), key, default) = IF key = k THEN value ELSE Get(f, key, default)
BY DEF Get, With

\* The account at an address stays as it is, or absent.
SameAccount(a) ==
    /\ a \in DOMAIN accountData' <=> a \in DOMAIN accountData
    /\ a \in DOMAIN accountData => accountData'[a] = accountData[a]

SameVoters(config) == \A o \in Operators : SameAccount(VoterStateOf(config, o))

LEMMA SameConfig ==
    ASSUME NEW base, SameAccount(ConfigFor(base)) PROVE UNCHANGED Initialized(base)
BY DEF SameAccount, Initialized, Holds

LEMMA SameBallotBox ==
    ASSUME NEW base, SameAccount(BallotBoxOf(ConfigFor(base))) PROVE UNCHANGED BallotBox(base)
BY DEF SameAccount, BallotBox, Get

LEMMA SameVoterVars ==
    ASSUME NEW base, SameVoters(ConfigFor(base)) PROVE UNCHANGED Ncn(base)!voterVars
<1>1. Registered(base)' = Registered(base)
  BY DEF SameVoters, SameAccount, Registered, Holds
<1>2. \A o \in Registered(base) :
         /\ VoterStateOf(ConfigFor(base), o) \in DOMAIN accountData
         /\ SameAccount(VoterStateOf(ConfigFor(base), o))
  BY DEF SameVoters, Registered, Holds
<1>3. LastVotedEpoch(base)' = LastVotedEpoch(base)
  BY <1>1, <1>2 DEF SameAccount, LastVotedEpoch
<1> QED
  BY <1>1, <1>3 DEF Ncn!voterVars

LEMMA SameData ==
    ASSUME NEW base, UNCHANGED accountData
    PROVE  UNCHANGED <<Initialized(base), BallotBox(base), Ncn(base)!voterVars>>
<1>1. \A a : SameAccount(a)
  BY DEF SameAccount
<1> QED
  BY <1>1, SameConfig, SameBallotBox, SameVoterVars DEF SameVoters

LEMMA SameOperatorToggles ==
    ASSUME NEW base, UNCHANGED ncnOperatorStates PROVE UNCHANGED OperatorToggles(base)
BY DEF OperatorToggles

LEMMA SameVaultToggles ==
    ASSUME NEW base, UNCHANGED ncnVaultTickets PROVE UNCHANGED VaultToggles(base)
BY DEF VaultToggles

LEMMA SameTickets ==
    ASSUME NEW base, UNCHANGED <<ncnOperatorStates, ncnVaultTickets>>
    PROVE  UNCHANGED Ncn(base)!ticketVars
BY SameOperatorToggles, SameVaultToggles DEF Ncn!ticketVars

LEMMA SameJito ==
    ASSUME NEW base, UNCHANGED jitoVars PROVE UNCHANGED Ncn(base)!jitoVars
BY DEF jitoVars, Ncn!jitoVars, OperatorVaultPairs, Staked

\* The fields that DephyNcn knows of.
Part(box) == [field \in BoxFields |-> box[field]]

LEMMA NamesOfFields ==
    BoxFields = {"epoch", "lastConsensusEpoch", "operatorsVoted", "approvedVotes",
                 "totalVotes", "rewardsRoot", "proposedRewardsRoot"}
BY DEF BoxFields, EmptyBallotBox

\* Two ballot boxes with the same values in these fields.
LEMMA PartIs ==
    ASSUME NEW box, NEW other, other = [field \in BoxFields |-> other[field]],
           other.epoch = box.epoch, other.lastConsensusEpoch = box.lastConsensusEpoch,
           other.operatorsVoted = box.operatorsVoted, other.approvedVotes = box.approvedVotes,
           other.totalVotes = box.totalVotes, other.rewardsRoot = box.rewardsRoot,
           other.proposedRewardsRoot = box.proposedRewardsRoot
    PROVE  Part(box) = other
BY NamesOfFields DEF Part

LEMMA PartFields ==
    ASSUME NEW box
    PROVE  Part(box) = [epoch |-> box.epoch, lastConsensusEpoch |-> box.lastConsensusEpoch,
                        operatorsVoted |-> box.operatorsVoted, approvedVotes |-> box.approvedVotes,
                        totalVotes |-> box.totalVotes, rewardsRoot |-> box.rewardsRoot,
                        proposedRewardsRoot |-> box.proposedRewardsRoot]
<1>1. BoxFields = {"epoch", "lastConsensusEpoch", "operatorsVoted", "approvedVotes",
                   "totalVotes", "rewardsRoot", "proposedRewardsRoot"}
  BY DEF BoxFields, EmptyBallotBox
<1> QED
  BY <1>1 DEF Part

LEMMA PartOfEmpty ==
    ASSUME NEW base, NEW config PROVE Part(EmptyBallotBox(config)) = Ncn(base)!EmptyBallotBox
BY PartFields DEF EmptyBallotBox, Ncn!EmptyBallotBox

LEMMA PartOfSettled ==
    ASSUME NEW base, NEW box \in BallotBoxAccounts, NEW supply
    PROVE  Part(Settled(box, supply)) = Ncn(base)!SettledBallot(Part(box), supply)
BY PartFields DEF Settled, Ncn!SettledBallot, Ncn!Threshold, BallotBoxAccounts

LEMMA PartOfCounted ==
    ASSUME NEW base, NEW box \in BallotBoxAccounts, BallotBox(base) = Part(box),
           NEW root \in Roots, NEW amount \in Nat, epoch \in Nat
    PROVE  Part(Counted(box, root, amount))
               = Ncn(base)!CountedBallot(Ncn(base)!OpenedBallot(root), root, amount)
<1> DEFINE new == [EmptyBallotBox(box.config) EXCEPT
                      !.epoch = epoch, !.proposedRewardsRoot = root,
                      !.lastConsensusEpoch = box.lastConsensusEpoch, !.rewardsRoot = box.rewardsRoot]
           opened == IF epoch > box.epoch THEN new ELSE box
           result(b) == [b EXCEPT !.operatorsVoted = @ + 1,
                                  !.totalVotes = @ + amount,
                                  !.approvedVotes = @ + IF root = b.proposedRewardsRoot THEN amount ELSE 0]
<1>1. new \in BallotBoxAccounts
  BY NcnAccountsAssumption DEF EmptyBallotBox, BallotBoxAccounts
<1>2. opened \in BallotBoxAccounts
  BY <1>1
<1>3. Part(opened) = Ncn(base)!OpenedBallot(root)
  <2> DEFINE open == [Part(box) EXCEPT !.epoch = epoch, !.operatorsVoted = 0, !.approvedVotes = 0,
                                       !.totalVotes = 0, !.proposedRewardsRoot = root]
  <2>1. Part(new) = open
    <3>1. open = [field \in BoxFields |-> open[field]]
      BY DEF Part
    <3>2. /\ open.epoch = epoch /\ open.lastConsensusEpoch = box.lastConsensusEpoch
          /\ open.operatorsVoted = 0 /\ open.approvedVotes = 0 /\ open.totalVotes = 0
          /\ open.rewardsRoot = box.rewardsRoot /\ open.proposedRewardsRoot = root
      BY NamesOfFields DEF Part
    <3>3. /\ new.epoch = epoch /\ new.lastConsensusEpoch = box.lastConsensusEpoch
          /\ new.operatorsVoted = 0 /\ new.approvedVotes = 0 /\ new.totalVotes = 0
          /\ new.rewardsRoot = box.rewardsRoot /\ new.proposedRewardsRoot = root
      BY DEF EmptyBallotBox
    <3> HIDE DEF new, open
    <3> QED
      BY <3>1, <3>2, <3>3, PartIs
  <2>2. Part(box).epoch = box.epoch
    BY PartFields
  <2> HIDE DEF new
  <2> QED
    BY <2>1, <2>2 DEF Ncn!OpenedBallot
<1>4. ASSUME NEW b \in BallotBoxAccounts
      PROVE  Part(result(b)) = Ncn(base)!CountedBallot(Part(b), root, amount)
  <2> DEFINE approved == IF root = b.proposedRewardsRoot THEN b.approvedVotes + amount ELSE b.approvedVotes
  <2>1. result(b) = [b EXCEPT !.operatorsVoted = b.operatorsVoted + 1,
                              !.totalVotes = b.totalVotes + amount,
                              !.approvedVotes = approved]
    <3>1. approved = b.approvedVotes + IF root = b.proposedRewardsRoot THEN amount ELSE 0
      BY DEF BallotBoxAccounts
    <3> HIDE DEF approved
    <3> QED
      BY <3>1 DEF BallotBoxAccounts
  <2> DEFINE count == [Part(b) EXCEPT !.operatorsVoted = b.operatorsVoted + 1,
                                      !.totalVotes = b.totalVotes + amount,
                                      !.approvedVotes = approved]
  <2>2. Ncn(base)!CountedBallot(Part(b), root, amount) = count
    BY PartFields DEF Ncn!CountedBallot
  <2> HIDE DEF result, approved
  <2>3. count = [field \in BoxFields |-> count[field]]
    BY DEF Part
  <2>4. /\ count.epoch = b.epoch /\ count.lastConsensusEpoch = b.lastConsensusEpoch
        /\ count.operatorsVoted = b.operatorsVoted + 1 /\ count.approvedVotes = approved
        /\ count.totalVotes = b.totalVotes + amount
        /\ count.rewardsRoot = b.rewardsRoot /\ count.proposedRewardsRoot = b.proposedRewardsRoot
    BY NamesOfFields DEF Part
  <2>5. /\ result(b).epoch = b.epoch /\ result(b).lastConsensusEpoch = b.lastConsensusEpoch
        /\ result(b).operatorsVoted = b.operatorsVoted + 1 /\ result(b).approvedVotes = approved
        /\ result(b).totalVotes = b.totalVotes + amount
        /\ result(b).rewardsRoot = b.rewardsRoot /\ result(b).proposedRewardsRoot = b.proposedRewardsRoot
    BY <2>1 DEF BallotBoxAccounts
  <2> HIDE DEF count
  <2> QED
    BY <2>2, <2>3, <2>4, <2>5, PartIs
<1>5. Counted(box, root, amount) = result(opened)
  BY DEF Counted
<1> HIDE DEF opened, result
<1> QED
  BY <1>2, <1>3, <1>4, <1>5

\* A step of DephyNcn at one NCN, or none.
Maps(base) == Ncn(base)!Next \/ UNCHANGED Ncn(base)!vars

LEMMA InitMaps == ASSUME Init, NEW base \in Bases PROVE Ncn(base)!Init
<1>1. accountData = << >> /\ DOMAIN accountData = {}
  BY DEF Init
<1>2. ~Initialized(base) /\ Registered(base) = {}
  BY <1>1 DEF Initialized, Registered, Holds
<1>3. BallotBox(base) = Ncn(base)!EmptyBallotBox
  BY <1>1, PartOfEmpty DEF BallotBox, Part, Get
<1>4. LastVotedEpoch(base) = [o \in Operators |-> 0]
  BY <1>2 DEF LastVotedEpoch
<1>5. /\ OperatorToggles(base) = [o \in Operators |-> "absent"]
      /\ VaultToggles(base) = [v \in Vaults |-> "absent"]
  BY DEF Init, OperatorToggles, VaultToggles, Get
<1>6. /\ OperatorVaultPairs = {}
      /\ Staked = [v \in Vaults |-> [o \in Operators |-> 0]]
  BY DEF Init, OperatorVaultPairs, Staked, Get
<1>7. votes[ConfigFor(base)] = [o \in Operators |-> Ncn(base)!NoBallot]
  BY DEF Init, ConfigFor, Configs, Ncns, Ncn!NoBallot
<1> QED
  BY <1>2, <1>3, <1>4, <1>5, <1>6, <1>7 DEF Init, Ncn!Init

LEMMA InitializeNcnMaps ==
    ASSUME NcnAccountsTypeOK, NEW ctx \in InitializeNcnContexts, InitializeNcn(ctx),
           NEW base \in Bases
    PROVE  Maps(base)
<1>1. /\ ctx.ncn = NcnOf(ctx.base) /\ ctx.config = ConfigFor(ctx.base)
      /\ ctx.ballot_box = BallotBoxOf(ctx.config) /\ ctx.config # ctx.ballot_box
      /\ ctx.config \notin DOMAIN accountData
      /\ UNCHANGED <<epoch, ncnOperatorStates, ncnVaultTickets, jitoVars, votes>>
  BY KindsOfAddresses DEF InitializeNcn, InitializeNcnAccepted, ConfigFor
<1>2. accountData' = With(With(accountData, ctx.config, [type |-> "Config", ncn |-> ctx.ncn]),
                          ctx.ballot_box, EmptyBallotBox(ctx.config))
  BY DEF InitializeNcn
<1>3. \A a : a # ctx.config /\ a # ctx.ballot_box => SameAccount(a)
  BY <1>2 DEF With, SameAccount
<1>4. /\ UNCHANGED <<Ncn(base)!voterVars, Ncn(base)!ticketVars, Ncn(base)!jitoVars>>
      /\ votes[ConfigFor(base)]' = votes[ConfigFor(base)]
  <2>1. SameVoters(ConfigFor(base))
    BY <1>1, <1>3, KindsOfAddresses DEF SameVoters, ConfigFor
  <2> QED
    BY <1>1, <2>1, SameVoterVars, SameTickets, SameJito
<1>5. CASE base = ctx.base
  <2>1. ~Initialized(base)
    BY <1>1, <1>5 DEF Initialized, Holds
  <2>2. Initialized(base)' = TRUE
    BY <1>1, <1>2, <1>5 DEF Initialized, Holds, With
  <2>3. BallotBox(base)' = Ncn(base)!EmptyBallotBox
    <3>1. Get(accountData, ctx.ballot_box, EmptyBallotBox(NoVault))' = EmptyBallotBox(ctx.config)
      BY <1>2 DEF With, Get
    <3> QED
      BY <1>1, <1>5, <3>1, PartOfEmpty DEF BallotBox, Part
  <2>4. Ncn(base)!InitializeNcn
    BY <1>1, <1>4, <2>1, <2>2, <2>3 DEF Ncn!InitializeNcn
  <2> QED
    BY <2>4 DEF Maps, Ncn!Next, Ncn!Setup
<1>6. CASE base # ctx.base
  <2>1. /\ ConfigFor(base) # ctx.config /\ ConfigFor(base) # ctx.ballot_box
        /\ BallotBoxOf(ConfigFor(base)) # ctx.config /\ BallotBoxOf(ConfigFor(base)) # ctx.ballot_box
    BY <1>1, <1>6, AddressesDetermine, KindsOfAddresses DEF ConfigFor
  <2>2. UNCHANGED <<Initialized(base), BallotBox(base)>>
    BY <1>3, <2>1, SameConfig, SameBallotBox
  <2> QED
    BY <1>1, <1>4, <2>2 DEF Maps, Ncn!vars
<1> QED
  BY <1>5, <1>6

\* What the PDA ncn_admin signs for is done at an NCN that exists.
LEMMA NcnActedFor ==
    ASSUME NcnAccountsTypeOK, NEW ctx, ActsForNcn(ctx), ctx.config \in Configs
    PROVE  \E actor \in Bases :
              ctx.ncn = NcnOf(actor) /\ ctx.config = ConfigFor(actor) /\ Initialized(actor)
<1>1. /\ Holds(ctx.config, "Config") /\ ctx.ncn = accountData[ctx.config].ncn
  BY DEF ActsForNcn
<1>2. ctx.config = ConfigOf(ctx.ncn)
  BY <1>1, TypesOfAccounts
<1>3. PICK actor \in Bases : ctx.config = ConfigOf(NcnOf(actor))
  BY DEF Configs, Ncns
<1> QED
  BY <1>1, <1>2, <1>3, AddressesDetermine DEF ConfigFor, Initialized

LEMMA VaultMaps ==
    ASSUME NcnAccountsTypeOK, NEW ctx \in VaultContexts, NEW base \in Bases,
           InitializeVault(ctx) \/ WarmupVault(ctx)
    PROVE  Maps(base)
<1>1. /\ ActsForNcn(ctx) /\ ctx.config \in Configs /\ ctx.vault \in Vaults
      /\ ctx.ncn_vault_ticket = NcnVaultTicketOf(ctx.ncn, ctx.vault)
      /\ UNCHANGED <<epoch, accountData, ncnOperatorStates, jitoVars, votes>>
  BY DEF VaultContexts, InitializeVault, InitializeVaultAccepted, WarmupVault, WarmupVaultAccepted
<1>2. PICK actor \in Bases : ctx.ncn = NcnOf(actor) /\ Initialized(actor)
  BY <1>1, NcnActedFor
<1>3. /\ UNCHANGED <<Initialized(base), BallotBox(base), Ncn(base)!voterVars,
                     OperatorToggles(base), Ncn(base)!jitoVars>>
      /\ votes[ConfigFor(base)]' = votes[ConfigFor(base)]
  BY <1>1, SameData, SameOperatorToggles, SameJito
<1>4. ASSUME NEW value, ncnVaultTickets' = With(ncnVaultTickets, ctx.ncn_vault_ticket, value)
      PROVE  VaultToggles(base)' = IF base = actor
                                   THEN [VaultToggles(base) EXCEPT ![ctx.vault] = value]
                                   ELSE VaultToggles(base)
  <2>1. \A v \in Vaults : VaultToggles(base)'[v] =
            IF base = actor /\ v = ctx.vault THEN value ELSE VaultToggles(base)[v]
    <3> SUFFICES ASSUME NEW v \in Vaults
                 PROVE  VaultToggles(base)'[v] =
                            IF base = actor /\ v = ctx.vault THEN value ELSE VaultToggles(base)[v]
      OBVIOUS
    <3>1. NcnVaultTicketOf(NcnOf(base), v) = ctx.ncn_vault_ticket <=> base = actor /\ v = ctx.vault
      BY <1>1, <1>2, AddressesDetermine
    <3> QED
      BY <1>4, <3>1, GetOfWith DEF VaultToggles
  <2> QED
    BY <1>1, <2>1 DEF VaultToggles
<1>5. CASE base # actor
  <2>1. UNCHANGED VaultToggles(base)
    BY <1>4, <1>5 DEF InitializeVault, WarmupVault
  <2> QED
    BY <1>1, <1>3, <2>1 DEF Maps, Ncn!vars, Ncn!ticketVars
<1>6. CASE base = actor /\ InitializeVault(ctx)
  <2>1. VaultToggles(base)[ctx.vault] = "absent"
    BY <1>1, <1>2, <1>6 DEF InitializeVault, InitializeVaultAccepted, VaultToggles, Get
  <2>2. Ncn(base)!InitializeVault(ctx.vault)
    BY <1>1, <1>2, <1>3, <1>4, <1>6, <2>1 DEF InitializeVault, Ncn!InitializeVault
  <2> QED
    BY <1>1, <2>2 DEF Maps, Ncn!Next, Ncn!Setup
<1>7. CASE base = actor /\ WarmupVault(ctx)
  <2>1. VaultToggles(base)[ctx.vault] = "inactive"
    BY <1>1, <1>2, <1>7 DEF WarmupVault, WarmupVaultAccepted, Inactive, VaultToggles, Get
  <2>2. Ncn(base)!WarmupVault(ctx.vault)
    BY <1>1, <1>2, <1>3, <1>4, <1>7, <2>1 DEF WarmupVault, Ncn!WarmupVault
  <2> QED
    BY <1>1, <2>2 DEF Maps, Ncn!Next, Ncn!Setup
<1> QED
  BY <1>5, <1>6, <1>7

LEMMA OperatorTogglesWith ==
    ASSUME NEW base, NEW actor, NEW operator \in Operators, NEW value,
           ncnOperatorStates' =
               With(ncnOperatorStates, NcnOperatorStateOf(NcnOf(actor), operator), value)
    PROVE  OperatorToggles(base)' = IF base = actor
                                    THEN [OperatorToggles(base) EXCEPT ![operator] = value]
                                    ELSE OperatorToggles(base)
<1>1. ASSUME NEW o \in Operators
      PROVE  OperatorToggles(base)'[o] =
                 IF base = actor /\ o = operator THEN value ELSE OperatorToggles(base)[o]
  <2>1. NcnOperatorStateOf(NcnOf(base), o) = NcnOperatorStateOf(NcnOf(actor), operator)
            <=> base = actor /\ o = operator
    BY AddressesDetermine
  <2> QED
    BY <2>1, GetOfWith DEF OperatorToggles
<1> QED
  BY <1>1 DEF OperatorToggles

LEMMA InitializeOperatorMaps ==
    ASSUME NcnAccountsTypeOK, NEW ctx \in InitializeOperatorContexts, InitializeOperator(ctx),
           NEW base \in Bases
    PROVE  Maps(base)
<1>1. /\ ActsForNcn(ctx) /\ ctx.config \in Configs /\ ctx.operator \in Operators
      /\ ctx.ncn_operator_state = NcnOperatorStateOf(ctx.ncn, ctx.operator)
      /\ ctx.ncn_operator_state \notin DOMAIN ncnOperatorStates
      /\ ctx.voter_state = VoterStateOf(ctx.config, ctx.operator)
      /\ ctx.voter_state \notin DOMAIN accountData
      /\ UNCHANGED <<epoch, ncnVaultTickets, jitoVars, votes>>
  BY DEF InitializeOperatorContexts, InitializeOperator, InitializeOperatorAccepted
<1>2. PICK actor \in Bases :
          ctx.ncn = NcnOf(actor) /\ ctx.config = ConfigFor(actor) /\ Initialized(actor)
  BY <1>1, NcnActedFor
<1>3. /\ accountData' = With(accountData, ctx.voter_state, NewVoterState(ctx))
      /\ ncnOperatorStates' = With(ncnOperatorStates, ctx.ncn_operator_state, "fresh")
  BY DEF InitializeOperator
<1>4. /\ \A a : a # ctx.voter_state => SameAccount(a)
      /\ ctx.voter_state \in DOMAIN accountData'
      /\ accountData'[ctx.voter_state] = NewVoterState(ctx)
  BY <1>3 DEF With, SameAccount
<1>5. /\ UNCHANGED <<Initialized(base), BallotBox(base), VaultToggles(base), Ncn(base)!jitoVars>>
      /\ votes[ConfigFor(base)]' = votes[ConfigFor(base)]
  <2>1. ConfigFor(base) # ctx.voter_state /\ BallotBoxOf(ConfigFor(base)) # ctx.voter_state
    BY <1>1, KindsOfAddresses DEF ConfigFor
  <2> QED
    BY <1>1, <1>4, <2>1, SameConfig, SameBallotBox, SameVaultToggles, SameJito
<1>6. OperatorToggles(base)' = IF base = actor
                               THEN [OperatorToggles(base) EXCEPT ![ctx.operator] = "fresh"]
                               ELSE OperatorToggles(base)
  BY <1>1, <1>2, <1>3, OperatorTogglesWith
<1>7. CASE base # actor
  <2>1. SameVoters(ConfigFor(base))
    BY <1>1, <1>2, <1>4, <1>7, AddressesDetermine, SMTT(30) DEF SameVoters
  <2> QED
    BY <1>1, <1>5, <1>6, <1>7, <2>1, SameVoterVars DEF Maps, Ncn!vars, Ncn!ticketVars
<1>8. CASE base = actor
  <2>1. \A o \in Operators : o # ctx.operator => SameAccount(VoterStateOf(ConfigFor(base), o))
    BY <1>1, <1>4, AddressesDetermine
  <2>2. ctx.operator \notin Registered(base)
    BY <1>1, <1>2, <1>8 DEF Registered, Holds
  <2>3. Registered(base)' = Registered(base) \cup {ctx.operator}
    BY <1>1, <1>2, <1>4, <1>8, <2>1 DEF Registered, Holds, SameAccount, NewVoterState
  <2>4. LastVotedEpoch(base)' = [LastVotedEpoch(base) EXCEPT ![ctx.operator] = 0]
    <3>1. ASSUME NEW o \in Operators
          PROVE  LastVotedEpoch(base)'[o] = IF o = ctx.operator THEN 0 ELSE LastVotedEpoch(base)[o]
      <4>1. CASE o = ctx.operator
        BY <1>1, <1>2, <1>4, <1>8, <2>3, <4>1 DEF LastVotedEpoch, NewVoterState
      <4>2. CASE o # ctx.operator
        BY <2>1, <2>3, <4>2 DEF LastVotedEpoch, SameAccount, Registered, Holds
      <4> QED
        BY <4>1, <4>2
    <3> QED
      BY <1>1, <3>1 DEF LastVotedEpoch
  <2>5. OperatorToggles(base)[ctx.operator] = "absent"
    BY <1>1, <1>2, <1>8 DEF OperatorToggles, Get
  <2>6. Ncn(base)!InitializeOperator(ctx.operator)
    BY <1>1, <1>2, <1>5, <1>6, <1>8, <2>2, <2>3, <2>4, <2>5 DEF Ncn!InitializeOperator
  <2> QED
    BY <1>1, <2>6 DEF Maps, Ncn!Next, Ncn!Setup
<1> QED
  BY <1>7, <1>8

LEMMA WarmupOperatorMaps ==
    ASSUME NcnAccountsTypeOK, NEW ctx \in WarmupOperatorContexts, WarmupOperator(ctx),
           NEW base \in Bases
    PROVE  Maps(base)
<1>1. /\ ActsForNcn(ctx) /\ ctx.config \in Configs /\ ctx.operator \in Operators
      /\ ctx.ncn_operator_state = NcnOperatorStateOf(ctx.ncn, ctx.operator)
      /\ Inactive(ncnOperatorStates, ctx.ncn_operator_state)
      /\ ncnOperatorStates' = With(ncnOperatorStates, ctx.ncn_operator_state, "warm")
      /\ UNCHANGED <<epoch, accountData, ncnVaultTickets, jitoVars, votes>>
  BY DEF WarmupOperatorContexts, WarmupOperator, WarmupOperatorAccepted
<1>2. PICK actor \in Bases : ctx.ncn = NcnOf(actor) /\ Initialized(actor)
  BY <1>1, NcnActedFor
<1>3. /\ UNCHANGED <<Initialized(base), BallotBox(base), Ncn(base)!voterVars,
                     VaultToggles(base), Ncn(base)!jitoVars>>
      /\ votes[ConfigFor(base)]' = votes[ConfigFor(base)]
  BY <1>1, SameData, SameVaultToggles, SameJito
<1>4. OperatorToggles(base)' = IF base = actor
                               THEN [OperatorToggles(base) EXCEPT ![ctx.operator] = "warm"]
                               ELSE OperatorToggles(base)
  BY <1>1, <1>2, OperatorTogglesWith
<1>5. CASE base # actor
  BY <1>1, <1>3, <1>4, <1>5 DEF Maps, Ncn!vars, Ncn!ticketVars
<1>6. CASE base = actor
  <2>1. OperatorToggles(base)[ctx.operator] = "inactive"
    BY <1>1, <1>2, <1>6 DEF Inactive, OperatorToggles, Get
  <2>2. Ncn(base)!WarmupOperator(ctx.operator)
    BY <1>1, <1>2, <1>3, <1>4, <1>6, <2>1 DEF Ncn!WarmupOperator
  <2> QED
    BY <1>1, <2>2 DEF Maps, Ncn!Next, Ncn!Setup
<1> QED
  BY <1>5, <1>6

LEMMA VoteMaps ==
    ASSUME NcnAccountsTypeOK, NEW ctx \in VoteContexts, NEW root \in Roots, Vote(ctx, root),
           NEW base \in Bases
    PROVE  Maps(base)
<1> DEFINE amount == delegations[ctx.vault_operator_delegation]
           supply == vrtSupply[ctx.vault]
           box == accountData[ctx.ballot_box]
           counted == Counted(box, root, amount)
           settled == Settled(counted, supply)
           voter == [accountData[ctx.voter_state] EXCEPT !.lastVotedEpoch = epoch]
           ballot == [epoch |-> epoch, vault |-> ctx.vault, root |-> root, amount |-> amount]
<1>1. /\ ctx.config \in Configs /\ ctx.operator \in Operators /\ ctx.vault \in Vaults
      /\ ctx.operator_admin \in Keys
      /\ Holds(ctx.config, "Config")
      /\ ctx.ballot_box = BallotBoxOf(ctx.config) /\ Holds(ctx.ballot_box, "BallotBox")
      /\ ctx.voter_state = VoterStateOf(ctx.config, ctx.operator) /\ Holds(ctx.voter_state, "VoterState")
      /\ ctx.operator_vault_ticket = OperatorVaultTicketOf(ctx.operator, ctx.vault)
      /\ ctx.vault_operator_delegation = DelegationOf(ctx.vault, ctx.operator)
      /\ UNCHANGED <<epoch, ncnOperatorStates, ncnVaultTickets, jitoVars>>
  BY DEF VoteContexts, Vote, VoteAccepted, VoteAccounts, ncnJitoVars
<1>2. /\ epoch > accountData[ctx.voter_state].lastVotedEpoch
      /\ OperatorAdmin[ctx.operator] = ctx.operator_admin
      /\ ctx.operator_vault_ticket \in DOMAIN operatorVaultTickets
      /\ ctx.vault_operator_delegation \in DOMAIN delegations
      /\ amount > 0 /\ counted.epoch = epoch
      /\ {counted.operatorsVoted, counted.approvedVotes, counted.totalVotes} \subseteq 0..U64Max
      /\ counted.epoch > counted.lastConsensusEpoch => supply * 2 <= U64Max
  BY DEF Vote, VoteAccepted
<1>3. /\ amount \in Nat /\ supply \in Nat /\ epoch \in Nat /\ U64Max \in Nat
      /\ box \in BallotBoxAccounts /\ DOMAIN votes = Configs
  BY <1>1, <1>2, NcnAccountsAssumption, TypesOfAccounts DEF NcnAccountsTypeOK
<1>4. PICK actor \in Bases : ctx.config = ConfigFor(actor)
  BY <1>1 DEF Configs, Ncns, ConfigFor
<1>5. ctx.ballot_box # ctx.voter_state
  BY <1>1, KindsOfAddresses
<1>6. /\ accountData' = [accountData EXCEPT
                            ![ctx.ballot_box] = settled, ![ctx.voter_state].lastVotedEpoch = epoch]
      /\ votes' = [votes EXCEPT ![ctx.config][ctx.operator] = ballot]
  BY DEF Vote
<1>7. /\ DOMAIN accountData' = DOMAIN accountData
      /\ accountData'[ctx.ballot_box] = settled
      /\ accountData'[ctx.voter_state] = voter
      /\ \A a \in DOMAIN accountData :
            a # ctx.ballot_box /\ a # ctx.voter_state => accountData'[a] = accountData[a]
  <2> HIDE DEF settled, ballot
  <2> QED
    BY <1>1, <1>5, <1>6 DEF Holds
<1>8. \A a : a # ctx.ballot_box /\ a # ctx.voter_state => SameAccount(a)
  BY <1>7 DEF SameAccount
<1>9. UNCHANGED <<Initialized(base), Ncn(base)!ticketVars, Ncn(base)!jitoVars>>
  <2>1. SameAccount(ConfigFor(base))
    BY <1>1, <1>8, KindsOfAddresses DEF ConfigFor
  <2> QED
    BY <1>1, <2>1, SameConfig, SameTickets, SameJito
<1>10. CASE base # actor
  <2>1. ConfigFor(base) # ctx.config
    BY <1>4, <1>10, AddressesDetermine
  <2>2. SameAccount(BallotBoxOf(ConfigFor(base))) /\ SameVoters(ConfigFor(base))
    BY <1>1, <1>8, <2>1, AddressesDetermine, KindsOfAddresses DEF SameVoters
  <2>3. votes[ConfigFor(base)]' = votes[ConfigFor(base)]
    <3>1. ConfigFor(base) \in DOMAIN votes
      BY <1>3 DEF ConfigFor, Configs, Ncns
    <3> HIDE DEF ballot
    <3> QED
      BY <1>6, <2>1, <3>1 DEF ConfigFor
  <2> QED
    BY <1>1, <1>9, <2>2, <2>3, SameBallotBox, SameVoterVars DEF Maps, Ncn!vars
<1>11. CASE base = actor
  <2>1. /\ BallotBox(base) = Part(box) /\ BallotBox(base)' = Part(settled)
    BY <1>1, <1>4, <1>7, <1>11 DEF BallotBox, Part, Get, Holds
  <2>2. Staked[ctx.vault][ctx.operator] = amount
    BY <1>1, <1>2 DEF Staked, Get
  <2>3. Part(counted) = Ncn(base)!CountedBallot(Ncn(base)!OpenedBallot(root), root, amount)
    BY <1>3, <2>1, PartOfCounted
  <2>4. Part(settled) = Ncn(base)!SettledBallot(Part(counted), supply)
    BY <1>3, CountedType, PartOfSettled
  <2>5. epoch = Ncn(base)!OpenedBallot(root).epoch
    <3>1. Part(counted).epoch = Ncn(base)!OpenedBallot(root).epoch
      BY <2>3 DEF Ncn!CountedBallot
    <3> HIDE DEF counted
    <3> QED
      BY <1>2, <3>1, PartFields
  <2>6. Ncn(base)!FitsU64(Part(counted), supply)
    <3> HIDE DEF counted, supply
    <3> QED
      BY <1>2, <1>3, PartFields DEF Ncn!FitsU64, Ncn!U64
  <2>7. /\ ctx.operator \in Registered(base)
        /\ LastVotedEpoch(base)[ctx.operator] = accountData[ctx.voter_state].lastVotedEpoch
    BY <1>1, <1>4, <1>11 DEF Registered, LastVotedEpoch
  <2>8. Ncn(base)!Eligible(ctx.operator_admin, ctx.operator, ctx.vault)
    <3>1. <<ctx.operator, ctx.vault>> \in OperatorVaultPairs
      BY <1>1, <1>2 DEF OperatorVaultPairs
    <3> HIDE DEF amount
    <3> QED
      BY <1>1, <1>2, <1>4, <1>11, <2>2, <2>7, <3>1 DEF Ncn!Eligible, Initialized
  <2>9. /\ Registered(base)' = Registered(base)
        /\ LastVotedEpoch(base)' = [LastVotedEpoch(base) EXCEPT ![ctx.operator] = epoch]
    <3>1. \A o \in Operators : o # ctx.operator => SameAccount(VoterStateOf(ConfigFor(base), o))
      BY <1>1, <1>8, AddressesDetermine, KindsOfAddresses
    <3>2. voter.type = accountData[ctx.voter_state].type /\ voter.lastVotedEpoch = epoch
      BY <1>1, TypesOfAccounts DEF VoterStateAccounts
    <3> HIDE DEF voter
    <3>3. Registered(base)' = Registered(base)
      BY <1>1, <1>4, <1>7, <1>11, <3>1, <3>2 DEF Registered, Holds, SameAccount
    <3>4. ASSUME NEW o \in Operators
          PROVE  LastVotedEpoch(base)'[o] = IF o = ctx.operator THEN epoch ELSE LastVotedEpoch(base)[o]
      <4>1. CASE o = ctx.operator
        BY <1>1, <1>4, <1>7, <1>11, <2>7, <3>2, <3>3, <4>1 DEF LastVotedEpoch
      <4>2. CASE o # ctx.operator
        BY <3>1, <3>3, <4>2 DEF LastVotedEpoch, SameAccount, Registered, Holds
      <4> QED
        BY <4>1, <4>2
    <3> QED
      BY <3>3, <3>4 DEF LastVotedEpoch
  <2>10. votes[ConfigFor(base)]' = [votes[ConfigFor(base)] EXCEPT ![ctx.operator] = ballot]
    <3> HIDE DEF ballot
    <3> QED
      BY <1>1, <1>3, <1>4, <1>6, <1>11
  <2>11. Ncn(base)!Vote(ctx.operator_admin, ctx.operator, ctx.vault, root)
    <3> HIDE DEF counted, settled
    <3> QED
      BY <1>1, <1>9, <2>1, <2>2, <2>3, <2>4, <2>5, <2>6, <2>8, <2>9, <2>10 DEF Ncn!Vote
  <2> QED
    BY <1>1, <2>11 DEF Maps, Ncn!Next, Ncn!Voting
<1> QED
  BY <1>10, <1>11

LEMMA EnvironmentMaps ==
    ASSUME NcnAccountsTypeOK, Environment, NEW base \in Bases PROVE Maps(base)
<1>1. CASE AdvanceEpoch
  <2>1. /\ UNCHANGED <<accountData, ncnOperatorStates, ncnVaultTickets, jitoVars, votes>>
        /\ epoch < MaxEpoch /\ epoch' = epoch + 1
    BY <1>1 DEF AdvanceEpoch, ncnJitoVars
  <2>2. Ncn(base)!AdvanceEpoch
    BY <2>1, SameData, SameTickets, SameJito DEF Ncn!AdvanceEpoch
  <2> QED
    BY <2>2 DEF Maps, Ncn!Next, Ncn!Environment
<1>2. CASE NextSlot
  <2>1. /\ UNCHANGED <<epoch, accountData, jitoVars, votes>>
        /\ ncnOperatorStates' = Aged(ncnOperatorStates)
        /\ ncnVaultTickets' = Aged(ncnVaultTickets)
    BY <1>2 DEF NextSlot
  <2>2. ASSUME NEW f, NEW key
        PROVE  Get(Aged(f), key, "absent") = Ncn(base)!Aged(Get(f, key, "absent"))
    BY DEF Get, Aged, Ncn!Aged
  <2>3. OperatorToggles(base)' = [o \in Operators |-> Ncn(base)!Aged(OperatorToggles(base)[o])]
    BY <2>1, <2>2 DEF OperatorToggles
  <2>4. VaultToggles(base)' = [v \in Vaults |-> Ncn(base)!Aged(VaultToggles(base)[v])]
    BY <2>1, <2>2 DEF VaultToggles
  <2>5. Ncn(base)!NextSlot
    BY <2>1, <2>3, <2>4, SameData, SameJito DEF Ncn!NextSlot
  <2> QED
    BY <2>5 DEF Maps, Ncn!Next, Ncn!Environment
<1>3. ASSUME NEW o \in Operators, NEW v \in Vaults, InitializeOperatorVaultTicket(o, v)
      PROVE  Maps(base)
  <2>1. /\ UNCHANGED <<epoch, accountData, ncnOperatorStates, ncnVaultTickets, delegations, vrtSupply, votes>>
        /\ operatorVaultTickets' = With(operatorVaultTickets, OperatorVaultTicketOf(o, v), o)
    BY <1>3 DEF InitializeOperatorVaultTicket, ncnJitoVars
  <2>2. OperatorVaultPairs' = OperatorVaultPairs \cup {<<o, v>>}
    <3>1. DOMAIN operatorVaultTickets' = DOMAIN operatorVaultTickets \cup {OperatorVaultTicketOf(o, v)}
      BY <2>1 DEF With
    <3>2. ASSUME NEW pair \in Operators \X Vaults
          PROVE  OperatorVaultTicketOf(pair[1], pair[2]) = OperatorVaultTicketOf(o, v) <=> pair = <<o, v>>
      BY AddressesDetermine
    <3> QED
      BY <3>1, <3>2 DEF OperatorVaultPairs
  <2>3. Staked' = Staked
    BY <2>1 DEF Staked
  <2>4. Ncn(base)!InitializeOperatorVaultTicket(o, v)
    BY <2>1, <2>2, <2>3, SameData, SameTickets DEF Ncn!InitializeOperatorVaultTicket
  <2> QED
    BY <2>4 DEF Maps, Ncn!Next, Ncn!Environment
<1>4. ASSUME NEW v \in Vaults, NEW o \in Operators, NEW amount \in StakeAmounts,
             SetDelegation(v, o, amount)
      PROVE  Maps(base)
  <2>1. /\ UNCHANGED <<epoch, accountData, ncnOperatorStates, ncnVaultTickets,
                       operatorVaultTickets, vrtSupply, votes>>
        /\ OperatorVaultTicketOf(o, v) \in DOMAIN operatorVaultTickets
        /\ delegations' = With(delegations, DelegationOf(v, o), amount)
    BY <1>4 DEF SetDelegation, ncnJitoVars
  <2>2. Staked' = [Staked EXCEPT ![v][o] = amount]
    <3>1. ASSUME NEW w \in Vaults, NEW p \in Operators
          PROVE  Get(delegations', DelegationOf(w, p), 0) =
                     IF w = v /\ p = o THEN amount ELSE Get(delegations, DelegationOf(w, p), 0)
      BY <2>1, AddressesDetermine, GetOfWith
    <3> QED
      BY <3>1 DEF Staked
  <2>3. <<o, v>> \in OperatorVaultPairs /\ OperatorVaultPairs' = OperatorVaultPairs
    BY <2>1 DEF OperatorVaultPairs
  <2>4. Ncn(base)!SetDelegation(v, o, amount)
    BY <2>1, <2>2, <2>3, SameData, SameTickets DEF Ncn!SetDelegation
  <2> QED
    BY <2>4 DEF Maps, Ncn!Next, Ncn!Environment
<1>5. ASSUME NEW v \in Vaults, NEW amount \in SupplyAmounts, SetSupply(v, amount)
      PROVE  Maps(base)
  <2>1. /\ UNCHANGED <<epoch, accountData, ncnOperatorStates, ncnVaultTickets,
                       operatorVaultTickets, delegations, votes>>
        /\ vrtSupply' = [vrtSupply EXCEPT ![v] = amount]
    BY <1>5 DEF SetSupply, ncnJitoVars
  <2>2. OperatorVaultPairs' = OperatorVaultPairs /\ Staked' = Staked
    BY <2>1 DEF OperatorVaultPairs, Staked
  <2>3. Ncn(base)!SetSupply(v, amount)
    BY <2>1, <2>2, SameData, SameTickets DEF Ncn!SetSupply
  <2> QED
    BY <2>3 DEF Maps, Ncn!Next, Ncn!Environment
<1> QED
  BY <1>1, <1>2, <1>3, <1>4, <1>5 DEF Environment

LEMMA StepMaps == ASSUME NcnAccountsTypeOK, [Next]_vars, NEW base \in Bases PROVE Maps(base)
<1>1. CASE UNCHANGED vars
  <2>1. UNCHANGED <<epoch, accountData, ncnOperatorStates, ncnVaultTickets, jitoVars, votes>>
    BY <1>1 DEF vars, ncnJitoVars
  <2> QED
    BY <2>1, SameData, SameTickets, SameJito DEF Maps, Ncn!vars
<1>2. CASE Next
  BY <1>2, InitializeNcnMaps, VaultMaps, InitializeOperatorMaps, WarmupOperatorMaps, VoteMaps,
     EnvironmentMaps DEF Next, Instructions
<1> QED
  BY <1>1, <1>2

\* Whatever accounts callers combine, every NCN is an execution of DephyNcn.
THEOREM NcnAccountsImplementsDephyNcn == Spec => ImplementsDephyNcn
<1>1. Init => \A base \in Bases : Ncn(base)!Init
  BY InitMaps
<1>2. NcnAccountsTypeOK /\ [Next]_vars =>
          [\A base \in Bases : UNCHANGED Ncn(base)!vars \/ Ncn(base)!Next]_vars
  BY StepMaps DEF Maps
<1> QED
  BY <1>1, <1>2, NcnAccountsTypeCorrect, PTL DEF Spec, ImplementsDephyNcn

-----------------------------------------------------------------------------
(* The commands of the tool                                                *)

\* initialize_ncn and initialize_operator create their accounts together, and a
\* ticket of an operator is that of the operator it is derived from.
CreatedTogether ==
    /\ \A base \in Bases :
          /\ Initialized(base) => Holds(BallotBoxOf(ConfigFor(base)), "BallotBox")
          /\ \A o \in Operators :
                o \in Registered(base) <=> NcnOperatorStateOf(NcnOf(base), o) \in DOMAIN ncnOperatorStates
    /\ \A a \in DOMAIN ncnOperatorStates : ncnOperatorStates[a] # "absent"
    /\ \A a \in DOMAIN ncnVaultTickets : ncnVaultTickets[a] # "absent"
    /\ \A o \in Operators, v \in Vaults :
          OperatorVaultTicketOf(o, v) \in DOMAIN operatorVaultTickets =>
              operatorVaultTickets[OperatorVaultTicketOf(o, v)] = o

LEMMA TogetherInit == Init => CreatedTogether
BY DEF Init, CreatedTogether, Initialized, Registered, Holds

LEMMA TogetherStep == NcnAccountsTypeOK /\ CreatedTogether /\ [Next]_vars => CreatedTogether'
<1> SUFFICES ASSUME NcnAccountsTypeOK, CreatedTogether, [Next]_vars PROVE CreatedTogether'
  OBVIOUS
<1>1. ASSUME UNCHANGED <<accountData, ncnOperatorStates, operatorVaultTickets>>,
             \A a \in DOMAIN ncnVaultTickets' : ncnVaultTickets'[a] # "absent"
      PROVE  CreatedTogether'
  BY <1>1 DEF CreatedTogether, Initialized, Registered, Holds
<1>2. ASSUME NEW ctx \in InitializeNcnContexts, InitializeNcn(ctx) PROVE CreatedTogether'
  <2>1. /\ ctx.ncn = NcnOf(ctx.base) /\ ctx.config = ConfigFor(ctx.base)
        /\ ctx.ballot_box = BallotBoxOf(ctx.config) /\ ctx.config # ctx.ballot_box
        /\ ctx.config \notin DOMAIN accountData /\ ctx.ballot_box \notin DOMAIN accountData
        /\ UNCHANGED <<ncnOperatorStates, ncnVaultTickets, operatorVaultTickets>>
    BY <1>2, KindsOfAddresses DEF InitializeNcn, InitializeNcnAccepted, ConfigFor, jitoVars
  <2>2. accountData' = With(With(accountData, ctx.config, [type |-> "Config", ncn |-> ctx.ncn]),
                            ctx.ballot_box, EmptyBallotBox(ctx.config))
    BY <1>2 DEF InitializeNcn
  <2>3. \A a : a # ctx.config /\ a # ctx.ballot_box => SameAccount(a)
    BY <2>2 DEF With, SameAccount
  <2>4. Holds(ctx.ballot_box, "BallotBox")'
    BY <2>2 DEF With, Holds, EmptyBallotBox
  <2>5. ASSUME NEW base \in Bases PROVE Registered(base)' = Registered(base)
    <3>1. SameVoters(ConfigFor(base))
      BY <2>1, <2>3, KindsOfAddresses DEF SameVoters, ConfigFor
    <3> QED
      BY <3>1 DEF SameVoters, SameAccount, Registered, Holds
  <2>6. ASSUME NEW base \in Bases, Initialized(base)'
        PROVE  Holds(BallotBoxOf(ConfigFor(base)), "BallotBox")'
    <3>1. CASE base = ctx.base
      BY <2>1, <2>4, <3>1
    <3>2. CASE base # ctx.base
      <4>1. /\ ConfigFor(base) # ctx.config /\ ConfigFor(base) # ctx.ballot_box
            /\ BallotBoxOf(ConfigFor(base)) # ctx.config /\ BallotBoxOf(ConfigFor(base)) # ctx.ballot_box
        BY <2>1, <3>2, AddressesDetermine, KindsOfAddresses, SMTT(30) DEF ConfigFor
      <4>2. Initialized(base)
        BY <2>3, <2>6, <4>1, SameConfig
      <4> QED
        BY <2>3, <4>1, <4>2 DEF CreatedTogether, SameAccount, Holds
    <3> QED
      BY <3>1, <3>2
  <2> QED
    BY <2>1, <2>5, <2>6 DEF CreatedTogether
<1>3. ASSUME NEW ctx \in VaultContexts, InitializeVault(ctx) \/ WarmupVault(ctx)
      PROVE  CreatedTogether'
  <2>1. UNCHANGED <<accountData, ncnOperatorStates, operatorVaultTickets>>
    BY <1>3 DEF InitializeVault, WarmupVault, jitoVars
  <2>2. \A a \in DOMAIN ncnVaultTickets' : ncnVaultTickets'[a] # "absent"
    BY <1>3 DEF InitializeVault, WarmupVault, With, CreatedTogether
  <2> QED
    BY <1>1, <2>1, <2>2
<1>4. ASSUME NEW ctx \in InitializeOperatorContexts, InitializeOperator(ctx) PROVE CreatedTogether'
  <2>1. /\ ActsForNcn(ctx) /\ ctx.config \in Configs /\ ctx.operator \in Operators
        /\ ctx.ncn_operator_state = NcnOperatorStateOf(ctx.ncn, ctx.operator)
        /\ ctx.voter_state = VoterStateOf(ctx.config, ctx.operator)
        /\ UNCHANGED <<ncnVaultTickets, operatorVaultTickets>>
    BY <1>4 DEF InitializeOperatorContexts, InitializeOperator, InitializeOperatorAccepted, jitoVars
  <2>2. PICK actor \in Bases : ctx.ncn = NcnOf(actor) /\ ctx.config = ConfigFor(actor)
    BY <2>1, NcnActedFor
  <2>3. /\ accountData' = With(accountData, ctx.voter_state, NewVoterState(ctx))
        /\ ncnOperatorStates' = With(ncnOperatorStates, ctx.ncn_operator_state, "fresh")
    BY <1>4 DEF InitializeOperator
  <2>4. /\ \A a : a # ctx.voter_state => SameAccount(a)
        /\ Holds(ctx.voter_state, "VoterState")'
    BY <2>3 DEF With, SameAccount, Holds, NewVoterState
  <2>5. ASSUME NEW base \in Bases, Initialized(base)'
        PROVE  Holds(BallotBoxOf(ConfigFor(base)), "BallotBox")'
    <3>1. ConfigFor(base) # ctx.voter_state /\ BallotBoxOf(ConfigFor(base)) # ctx.voter_state
      BY <2>1, KindsOfAddresses DEF ConfigFor
    <3>2. Initialized(base)
      BY <2>4, <2>5, <3>1, SameConfig
    <3> QED
      BY <2>4, <3>1, <3>2 DEF CreatedTogether, SameAccount, Holds
  <2>6. ASSUME NEW base \in Bases, NEW o \in Operators
        PROVE  (o \in Registered(base) <=> NcnOperatorStateOf(NcnOf(base), o) \in DOMAIN ncnOperatorStates)'
    <3>1. DOMAIN ncnOperatorStates' = DOMAIN ncnOperatorStates \cup {ctx.ncn_operator_state}
      BY <2>3 DEF With
    <3>2. CASE base = actor /\ o = ctx.operator
      BY <2>1, <2>2, <2>4, <3>1, <3>2 DEF Registered
    <3>3. CASE ~(base = actor /\ o = ctx.operator)
      <4>1. /\ VoterStateOf(ConfigFor(base), o) # ctx.voter_state
            /\ NcnOperatorStateOf(NcnOf(base), o) # ctx.ncn_operator_state
        BY <2>1, <2>2, <3>3, AddressesDetermine, SMTT(30)
      <4>2. o \in Registered(base)' <=> o \in Registered(base)
        BY <2>4, <4>1 DEF Registered, SameAccount, Holds
      <4> QED
        BY <3>1, <4>1, <4>2 DEF CreatedTogether
    <3> QED
      BY <3>2, <3>3
  <2>7. \A a \in DOMAIN ncnOperatorStates' : ncnOperatorStates'[a] # "absent"
    BY <2>3 DEF With, CreatedTogether
  <2> QED
    BY <2>1, <2>5, <2>6, <2>7 DEF CreatedTogether
<1>5. ASSUME UNCHANGED <<accountData, operatorVaultTickets>>,
             DOMAIN ncnOperatorStates' = DOMAIN ncnOperatorStates,
             \A a \in DOMAIN ncnOperatorStates' : ncnOperatorStates'[a] # "absent",
             \A a \in DOMAIN ncnVaultTickets' : ncnVaultTickets'[a] # "absent"
      PROVE  CreatedTogether'
  BY <1>5 DEF CreatedTogether, Initialized, Registered, Holds
<1>6. ASSUME NEW ctx \in WarmupOperatorContexts, WarmupOperator(ctx) PROVE CreatedTogether'
  <2>1. /\ UNCHANGED <<accountData, operatorVaultTickets, ncnVaultTickets>>
        /\ ctx.ncn_operator_state \in DOMAIN ncnOperatorStates
        /\ ncnOperatorStates' = With(ncnOperatorStates, ctx.ncn_operator_state, "warm")
    BY <1>6 DEF WarmupOperator, WarmupOperatorAccepted, Inactive, jitoVars
  <2> QED
    BY <1>5, <2>1 DEF With, CreatedTogether
<1>7. ASSUME NEW ctx \in VoteContexts, NEW root \in Roots, Vote(ctx, root) PROVE CreatedTogether'
  <2>1. UNCHANGED <<ncnOperatorStates, ncnVaultTickets, operatorVaultTickets>>
    BY <1>7 DEF Vote, ncnJitoVars, jitoVars
  <2>2. \A a, type : Holds(a, type)' <=> Holds(a, type)
    BY <1>7, VoteKeepsKinds
  <2>3. \A base \in Bases : Initialized(base)' <=> Initialized(base)
    BY <2>2 DEF Initialized
  <2>4. \A base \in Bases : Registered(base)' = Registered(base)
    BY <2>2 DEF Registered
  <2> QED
    BY <2>1, <2>2, <2>3, <2>4 DEF CreatedTogether
<1>8. CASE Environment
  <2>1. CASE AdvanceEpoch
    BY <1>5, <2>1 DEF AdvanceEpoch, ncnJitoVars, jitoVars, CreatedTogether
  <2>2. CASE NextSlot
    BY <1>5, <2>2 DEF NextSlot, Aged, jitoVars, CreatedTogether
  <2>3. ASSUME NEW o \in Operators, NEW v \in Vaults, InitializeOperatorVaultTicket(o, v)
        PROVE  CreatedTogether'
    <3>1. /\ UNCHANGED <<accountData, ncnOperatorStates, ncnVaultTickets>>
          /\ operatorVaultTickets' = With(operatorVaultTickets, OperatorVaultTicketOf(o, v), o)
      BY <2>3 DEF InitializeOperatorVaultTicket, ncnJitoVars
    <3>2. ASSUME NEW p \in Operators, NEW w \in Vaults,
                 OperatorVaultTicketOf(p, w) \in DOMAIN operatorVaultTickets'
          PROVE  operatorVaultTickets'[OperatorVaultTicketOf(p, w)] = p
      BY <3>1, <3>2, AddressesDetermine DEF With, CreatedTogether
    <3>3. \A base \in Bases : Initialized(base)' = Initialized(base) /\ Registered(base)' = Registered(base)
      BY <3>1 DEF Initialized, Registered, Holds
    <3> QED
      BY <3>1, <3>2, <3>3 DEF CreatedTogether, Holds
  <2>4. ASSUME NEW v \in Vaults, NEW o \in Operators, NEW amount \in StakeAmounts,
               SetDelegation(v, o, amount)
        PROVE  CreatedTogether'
    BY <1>5, <2>4 DEF SetDelegation, ncnJitoVars, CreatedTogether
  <2>5. ASSUME NEW v \in Vaults, NEW amount \in SupplyAmounts, SetSupply(v, amount)
        PROVE  CreatedTogether'
    BY <1>5, <2>5 DEF SetSupply, ncnJitoVars, CreatedTogether
  <2> QED
    BY <1>8, <2>1, <2>2, <2>3, <2>4, <2>5 DEF Environment
<1>9. CASE UNCHANGED vars
  BY <1>5, <1>9 DEF vars, ncnJitoVars, jitoVars, CreatedTogether
<1> QED
  BY <1>2, <1>3, <1>4, <1>6, <1>7, <1>8, <1>9 DEF Next, Instructions

\* No ballot box is ahead of the clock.
NoneAhead == \A a : Holds(a, "BallotBox") => accountData[a].epoch <= epoch

LEMMA AheadInit == Init => NoneAhead
BY DEF Init, NoneAhead, Holds

LEMMA AheadStep == NcnAccountsTypeOK /\ NoneAhead /\ [Next]_vars => NoneAhead'
<1> SUFFICES ASSUME NcnAccountsTypeOK, NoneAhead, [Next]_vars, NEW a, Holds(a, "BallotBox")'
             PROVE  accountData'[a].epoch <= epoch'
  BY DEF NoneAhead
<1>1. epoch \in Nat /\ epoch' \in Nat /\ epoch <= epoch'
  <2>1. epoch \in Nat
    BY NcnAccountsAssumption DEF NcnAccountsTypeOK
  <2>2. epoch' = epoch \/ epoch' = epoch + 1
    BY DEF Next, Instructions, Environment, InitializeNcn, InitializeVault, WarmupVault,
           InitializeOperator, WarmupOperator, Vote, AdvanceEpoch, NextSlot,
           InitializeOperatorVaultTicket, SetDelegation, SetSupply, vars
  <2> QED
    BY <2>1, <2>2
<1>2. ASSUME Holds(a, "BallotBox"), accountData'[a] = accountData[a]
      PROVE  accountData'[a].epoch <= epoch'
  <2>1. accountData[a].epoch \in Nat
    BY <1>2, TypesOfAccounts DEF BallotBoxAccounts
  <2> QED
    BY <1>1, <1>2, <2>1 DEF NoneAhead
<1>3. ASSUME UNCHANGED accountData PROVE accountData'[a].epoch <= epoch'
  BY <1>2, <1>3 DEF Holds
<1>4. ASSUME NEW ctx \in InitializeNcnContexts, InitializeNcn(ctx)
      PROVE  accountData'[a].epoch <= epoch'
  <2>1. accountData' = With(With(accountData, ctx.config, [type |-> "Config", ncn |-> ctx.ncn]),
                            ctx.ballot_box, EmptyBallotBox(ctx.config))
    BY <1>4 DEF InitializeNcn
  <2>2. CASE a = ctx.ballot_box
    BY <1>1, <2>1, <2>2 DEF With, EmptyBallotBox
  <2>3. CASE a # ctx.ballot_box
    <3>1. Holds(a, "BallotBox") /\ accountData'[a] = accountData[a]
      BY <2>1, <2>3 DEF With, Holds
    <3> QED
      BY <1>2, <3>1
  <2> QED
    BY <2>2, <2>3
<1>5. ASSUME NEW ctx \in InitializeOperatorContexts, InitializeOperator(ctx)
      PROVE  accountData'[a].epoch <= epoch'
  <2>1. accountData' = With(accountData, ctx.voter_state, NewVoterState(ctx))
    BY <1>5 DEF InitializeOperator
  <2>2. Holds(a, "BallotBox") /\ accountData'[a] = accountData[a]
    BY <2>1 DEF With, Holds, NewVoterState
  <2> QED
    BY <1>2, <2>2
<1>6. ASSUME NEW ctx \in VoteContexts, NEW root \in Roots, Vote(ctx, root)
      PROVE  accountData'[a].epoch <= epoch'
  <2> DEFINE counted == Counted(accountData[ctx.ballot_box], root, delegations[ctx.vault_operator_delegation])
             box == Settled(counted, vrtSupply[ctx.vault])
  <2>1. counted.epoch = epoch
    BY <1>6 DEF Vote, VoteAccepted
  <2>2. Holds(a, "BallotBox") /\ ctx.ballot_box # ctx.voter_state
    BY <1>6, VoteKeepsKinds, VoteEffect DEF Holds
  <2>3. CASE a = ctx.ballot_box
    <3>1. accountData' = [accountData EXCEPT ![ctx.ballot_box] = box,
                                             ![ctx.voter_state].lastVotedEpoch = epoch]
      BY <1>6 DEF Vote
    <3>2. counted \in BallotBoxAccounts
      <4>1. /\ delegations[ctx.vault_operator_delegation] \in Nat
            /\ accountData[ctx.ballot_box] \in BallotBoxAccounts
        BY <1>6, <2>2, <2>3, TypesOfAccounts, NcnAccountsAssumption
          DEF Vote, VoteAccepted, NcnAccountsTypeOK
      <4> QED
        BY <1>1, <1>6, <4>1, CountedType
    <3>3. box.epoch = epoch
      <4> HIDE DEF counted
      <4> QED
        BY <2>1, <3>2 DEF Settled, BallotBoxAccounts
    <3> HIDE DEF box
    <3>4. accountData'[a] = box
      BY <2>2, <2>3, <3>1 DEF Holds
    <3> QED
      BY <1>1, <3>3, <3>4
  <2>4. CASE a # ctx.ballot_box
    <3>1. a # ctx.voter_state /\ a \in DOMAIN accountData
      BY <1>6, <2>2, VoteEffect DEF Holds
    <3> QED
      BY <1>2, <1>6, <2>2, <2>4, <3>1, VoteEffect
  <2> QED
    BY <2>3, <2>4
<1>7. CASE UNCHANGED vars
  BY <1>3, <1>7 DEF vars
<1>8. CASE Environment
  BY <1>3, <1>8 DEF Environment, AdvanceEpoch, NextSlot, InitializeOperatorVaultTicket,
                    SetDelegation, SetSupply
<1>9. ASSUME NEW ctx, InitializeVault(ctx) \/ WarmupVault(ctx) \/ WarmupOperator(ctx)
      PROVE  accountData'[a].epoch <= epoch'
  BY <1>3, <1>9 DEF InitializeVault, WarmupVault, WarmupOperator
<1> QED
  BY <1>4, <1>5, <1>6, <1>7, <1>8, <1>9 DEF Next, Instructions

\* The accounts that the PDA of an NCN that exists signs for.
LEMMA InitializedActs ==
    ASSUME NcnAccountsTypeOK, NEW base \in Bases, Initialized(base)
    PROVE  /\ accountData[ConfigFor(base)].ncn = NcnOf(base)
           /\ \A ctx : /\ ctx.config = ConfigFor(base)
                       /\ ctx.ncn = NcnOf(base)
                       /\ ctx.ncn_admin = NcnAdminOf(NcnOf(base))
                       => ActsForNcn(ctx)
<1>1. accountData[ConfigFor(base)].ncn = NcnOf(base) /\ NcnOf(base) \in DOMAIN ncnAccounts
  <2>1. /\ ConfigFor(base) = ConfigOf(accountData[ConfigFor(base)].ncn)
        /\ accountData[ConfigFor(base)].ncn \in DOMAIN ncnAccounts
    BY TypesOfAccounts DEF Initialized
  <2> QED
    BY <2>1, AddressesDetermine DEF ConfigFor
<1>2. ncnAccounts[NcnOf(base)] = NcnAdminOf(NcnOf(base))
  BY <1>1 DEF NcnAccountsTypeOK
<1> QED
  BY <1>1, <1>2 DEF ActsForNcn, Initialized

LEMMA InitializeNcnCallSuffices ==
    ASSUME NcnAccountsTypeOK, NEW base \in Bases, ~Initialized(base)
    PROVE  InitializeNcnAccepted(InitializeNcnCall(base))
<1>1. NcnOf(base) \notin DOMAIN ncnAccounts
  BY DEF NcnAccountsTypeOK, Initialized, ConfigFor
<1>2. ConfigFor(base) \notin DOMAIN accountData
  <2> SUFFICES ASSUME ConfigFor(base) \in DOMAIN accountData PROVE FALSE
    OBVIOUS
  <2>1. InPlace(ConfigFor(base), accountData[ConfigFor(base)])
    BY DEF NcnAccountsTypeOK
  <2> QED
    BY <2>1, KindsOfAddresses DEF InPlace, ConfigFor, ConfigAccounts, Initialized, Holds
<1>3. BallotBoxOf(ConfigFor(base)) \notin DOMAIN accountData
  <2> SUFFICES ASSUME BallotBoxOf(ConfigFor(base)) \in DOMAIN accountData PROVE FALSE
    OBVIOUS
  <2>1. InPlace(BallotBoxOf(ConfigFor(base)), accountData[BallotBoxOf(ConfigFor(base))])
    BY DEF NcnAccountsTypeOK
  <2> QED
    BY <1>2, <2>1, AddressesDetermine, KindsOfAddresses DEF InPlace, Holds
<1> QED
  BY <1>1, <1>2, <1>3 DEF InitializeNcnAccepted, InitializeNcnCall, ConfigFor

LEMMA VaultCallSuffices ==
    ASSUME NcnAccountsTypeOK, CreatedTogether, NEW base \in Bases, Initialized(base), NEW v \in Vaults
    PROVE  /\ VaultToggles(base)[v] = "absent" <=>
                  InitializeVaultAccepted(VaultCall(ConfigFor(base), v))
           /\ VaultToggles(base)[v] = "inactive" <=>
                  WarmupVaultAccepted(VaultCall(ConfigFor(base), v))
<1> DEFINE ctx == VaultCall(ConfigFor(base), v)
           ticket == NcnVaultTicketOf(NcnOf(base), v)
<1>1. /\ ActsForNcn(ctx) /\ ctx.vault = v /\ ctx.ncn = NcnOf(base) /\ ctx.ncn_vault_ticket = ticket
  BY InitializedActs DEF VaultCall
<1>2. VaultToggles(base)[v] = Get(ncnVaultTickets, ticket, "absent")
  BY DEF VaultToggles
<1> HIDE DEF ctx, ticket
<1>3. /\ VaultToggles(base)[v] = "absent" <=> ticket \notin DOMAIN ncnVaultTickets
      /\ VaultToggles(base)[v] = "inactive" <=> Inactive(ncnVaultTickets, ticket)
  BY <1>2 DEF Get, Inactive, CreatedTogether
<1>4. /\ InitializeVaultAccepted(ctx) <=> ticket \notin DOMAIN ncnVaultTickets
      /\ WarmupVaultAccepted(ctx) <=> Inactive(ncnVaultTickets, ticket)
  BY <1>1, InitializedActs DEF InitializeVaultAccepted, WarmupVaultAccepted, ticket
<1> QED
  BY <1>3, <1>4 DEF ctx

LEMMA OperatorCallsSuffice ==
    ASSUME NcnAccountsTypeOK, CreatedTogether, NEW base \in Bases, Initialized(base), NEW o \in Operators
    PROVE  /\ o \notin Registered(base) <=>
                  InitializeOperatorAccepted(InitializeOperatorCall(ConfigFor(base), o))
           /\ OperatorToggles(base)[o] = "inactive" <=>
                  WarmupOperatorAccepted(WarmupOperatorCall(ConfigFor(base), o))
<1> DEFINE init == InitializeOperatorCall(ConfigFor(base), o)
           warm == WarmupOperatorCall(ConfigFor(base), o)
           state == NcnOperatorStateOf(NcnOf(base), o)
           voter == VoterStateOf(ConfigFor(base), o)
<1>1. /\ ActsForNcn(init) /\ init.operator = o /\ init.ncn_operator_state = state
      /\ init.voter_state = voter /\ init.ncn = NcnOf(base) /\ init.config = ConfigFor(base)
      /\ ActsForNcn(warm) /\ warm.operator = o /\ warm.ncn_operator_state = state
      /\ warm.ncn = NcnOf(base)
  BY InitializedActs DEF InitializeOperatorCall, WarmupOperatorCall
<1>2. o \in Registered(base) <=> state \in DOMAIN ncnOperatorStates
  BY DEF CreatedTogether
<1>3. voter \in DOMAIN accountData => o \in Registered(base)
  <2> SUFFICES ASSUME voter \in DOMAIN accountData PROVE o \in Registered(base)
    OBVIOUS
  <2>1. InPlace(voter, accountData[voter])
    BY DEF NcnAccountsTypeOK
  <2>2. accountData[voter] \in VoterStateAccounts
    BY <2>1, KindsOfAddresses DEF InPlace
  <2> QED
    BY <2>2 DEF VoterStateAccounts, Registered, Holds
<1>4. OperatorToggles(base)[o] = "inactive" <=> Inactive(ncnOperatorStates, state)
  BY DEF OperatorToggles, Get, Inactive
<1>5. voter \in DOMAIN accountData <=> o \in Registered(base)
  BY <1>3 DEF Registered, Holds
<1> HIDE DEF init, warm
<1>6. InitializeOperatorAccepted(init) <=> o \notin Registered(base)
  BY <1>1, <1>2, <1>5 DEF InitializeOperatorAccepted
<1>7. WarmupOperatorAccepted(warm) <=> Inactive(ncnOperatorStates, state)
  BY <1>1 DEF WarmupOperatorAccepted
<1> QED
  BY <1>4, <1>6, <1>7 DEF init, warm

LEMMA VoteCallSuffices ==
    ASSUME NcnAccountsTypeOK, CreatedTogether, NoneAhead, NEW base \in Bases, Initialized(base),
           NEW o \in Operators, NEW v \in Vaults, NEW key \in Keys, NEW root \in Roots
    PROVE  VotePossible(base, key, o, v, root) <=> VoteAccepted(VoteCall(ConfigFor(base), o, v, key), root)
<1> DEFINE config == ConfigFor(base)
           ctx == VoteCall(config, o, v, key)
           box == accountData[BallotBoxOf(config)]
           voter == VoterStateOf(config, o)
           ticket == OperatorVaultTicketOf(o, v)
           delegation == DelegationOf(v, o)
           amount == Get(delegations, delegation, 0)
           counted == Counted(box, root, amount)
           supply == vrtSupply[v]
           Fits == Ncn(base)!FitsU64(
                      Ncn(base)!CountedBallot(Ncn(base)!OpenedBallot(root), root, amount), supply)
           Accepted == /\ counted.epoch = epoch
                       /\ {counted.operatorsVoted, counted.approvedVotes, counted.totalVotes} \subseteq 0..U64Max
                       /\ counted.epoch > counted.lastConsensusEpoch => supply * 2 <= U64Max
<1>1. /\ ctx.config = config /\ ctx.ballot_box = BallotBoxOf(config) /\ ctx.voter_state = voter
      /\ ctx.operator_admin = key /\ ctx.vault = v /\ ctx.operator = o
      /\ ctx.operator_vault_ticket = ticket /\ ctx.vault_operator_delegation = delegation
  BY DEF VoteCall
<1>2. /\ Holds(config, "Config") /\ Holds(BallotBoxOf(config), "BallotBox")
      /\ box \in BallotBoxAccounts /\ box.epoch <= epoch /\ epoch \in Nat /\ U64Max \in Nat
      /\ supply \in Nat
  BY NcnAccountsAssumption, TypesOfAccounts
    DEF CreatedTogether, NoneAhead, Initialized, NcnAccountsTypeOK
<1>3. amount \in Nat
  BY NcnAccountsAssumption DEF Get, NcnAccountsTypeOK
<1>4. BallotBox(base) = Part(box)
  BY <1>2 DEF BallotBox, Part, Get, Holds
<1>5. counted \in BallotBoxAccounts /\ counted.epoch = epoch
  <2>1. counted \in BallotBoxAccounts
    BY <1>2, <1>3, CountedType
  <2>2. (IF epoch > box.epoch THEN epoch ELSE box.epoch) = epoch
    BY <1>2 DEF BallotBoxAccounts
  <2>3. counted.epoch = IF epoch > box.epoch THEN epoch ELSE box.epoch
    <3> HIDE DEF box, amount
    <3> QED
      BY <1>2 DEF Counted, EmptyBallotBox, BallotBoxAccounts
  <2> QED
    BY <2>1, <2>2, <2>3
<1>6. Fits <=> Accepted
  <2>1. Ncn(base)!CountedBallot(Ncn(base)!OpenedBallot(root), root, amount) = Part(counted)
    BY <1>2, <1>3, <1>4, PartOfCounted
  <2> HIDE DEF counted, supply
  <2> QED
    BY <1>2, <1>5, <2>1, PartFields DEF Ncn!FitsU64, Ncn!U64
<1> HIDE DEF Fits, Accepted
<1>7. VotePossible(base, key, o, v, root) <=> Ncn(base)!Eligible(key, o, v) /\ Fits
  BY DEF VotePossible, Fits
<1>8. Ncn(base)!Eligible(key, o, v) <=>
          /\ Holds(voter, "VoterState")
          /\ epoch > accountData[voter].lastVotedEpoch
          /\ key = OperatorAdmin[o]
          /\ ticket \in DOMAIN operatorVaultTickets
          /\ amount > 0
  <2>1. <<o, v>> \in OperatorVaultPairs <=> ticket \in DOMAIN operatorVaultTickets
    BY DEF OperatorVaultPairs
  <2>2. Staked[v][o] = amount
    BY DEF Staked
  <2>3. o \in Registered(base) <=> Holds(voter, "VoterState")
    BY DEF Registered
  <2>4. o \in Registered(base) => LastVotedEpoch(base)[o] = accountData[voter].lastVotedEpoch
    BY DEF LastVotedEpoch
  <2> HIDE DEF amount, voter, ticket
  <2> QED
    BY <2>1, <2>2, <2>3, <2>4 DEF Ncn!Eligible
<1>9. Holds(voter, "VoterState") => accountData[voter].operator = o
  <2>1. Holds(voter, "VoterState") =>
            voter = VoterStateOf(accountData[voter].config, accountData[voter].operator)
    BY TypesOfAccounts
  <2> QED
    BY <2>1, AddressesDetermine
<1>10. ticket \in DOMAIN operatorVaultTickets => operatorVaultTickets[ticket] = o
  BY DEF CreatedTogether
<1>11. /\ amount > 0 <=> delegation \in DOMAIN delegations /\ delegations[delegation] > 0
       /\ delegation \in DOMAIN delegations => amount = delegations[delegation]
  BY DEF Get
<1>12. VoteAccepted(ctx, root) <=>
          /\ Holds(voter, "VoterState")
          /\ epoch > accountData[voter].lastVotedEpoch
          /\ key = OperatorAdmin[o]
          /\ ticket \in DOMAIN operatorVaultTickets
          /\ amount > 0
          /\ Accepted
  <2> HIDE DEF ctx, amount
  <2>1. VoteAccounts(ctx) <=> Holds(voter, "VoterState")
    BY <1>1, <1>2, <1>9 DEF VoteAccounts
  <2>2. ASSUME delegation \in DOMAIN delegations
        PROVE  Accepted <=>
                 LET c == Counted(accountData[ctx.ballot_box], root, delegations[ctx.vault_operator_delegation])
                 IN /\ c.epoch = epoch
                    /\ {c.operatorsVoted, c.approvedVotes, c.totalVotes} \subseteq 0..U64Max
                    /\ c.epoch > c.lastConsensusEpoch => vrtSupply[ctx.vault] * 2 <= U64Max
    BY <1>1, <1>11, <2>2 DEF Accepted
  <2> QED
    BY <1>1, <1>10, <1>11, <2>1, <2>2 DEF VoteAccepted
<1> QED
  BY <1>6, <1>7, <1>8, <1>12

\* What the tool makes of the names on its command line is all that an instruction needs.
THEOREM CommandsAlwaysSuffice == Spec => []CommandsSuffice
<1>1. Init => CreatedTogether /\ NoneAhead
  BY TogetherInit, AheadInit
<1>2. NcnAccountsTypeOK /\ CreatedTogether /\ NoneAhead /\ [Next]_vars => (CreatedTogether /\ NoneAhead)'
  BY TogetherStep, AheadStep
<1>3. NcnAccountsTypeOK /\ CreatedTogether /\ NoneAhead => CommandsSuffice
  BY InitializeNcnCallSuffices, VaultCallSuffices, OperatorCallsSuffice, VoteCallSuffices
    DEF CommandsSuffice
<1> QED
  BY <1>1, <1>2, <1>3, NcnAccountsTypeCorrect, PTL DEF Spec

=============================================================================
