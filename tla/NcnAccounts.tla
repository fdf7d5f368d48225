----------------------------- MODULE NcnAccounts -----------------------------
(***************************************************************************)
(* The dephy-ncn program at the level of accounts, with several NCNs, and  *)
(* the command line tool that calls it (scripts/cli.ts, scripts/actions.ts).*)
(* Module DephyNcn has one NCN, and an instruction finds the accounts it   *)
(* is about; here a caller gives them by their names, each of them may be  *)
(* that of another NCN, operator or vault, and is checked as               *)
(* #[derive(Accounts)] and the handlers say.                               *)
(*                                                                         *)
(* The Jito accounts are in the functions that are named for them.  What   *)
(* Jito checks of what it is called with is external.  An instruction that *)
(* fails changes nothing, and is no step.  The authority of a Config and   *)
(* the ticket and delegation of a VoterState are left out: unused.         *)
(***************************************************************************)
EXTENDS Integers, FiniteSets

CONSTANTS
    Bases,          \* keys that the tool generates, one for every NCN
    Operators,      \* addresses of Jito operators
    Vaults,         \* addresses of Jito vaults
    NoVault,        \* "has not voted through any vault"
    Keys,           \* keys that sign
    OperatorAdmin,  \* the admin key recorded in each operator account
    Roots,          \* roots to propose
    ZeroRoot,       \* 32 zero bytes
    StakeAmounts,   \* amounts that a delegation may have
    SupplyAmounts,  \* amounts that the VRT supply of a vault may have
    U64Max,         \* the largest value of a u64
    MaxEpoch,       \* bound: the clock stops at this epoch
    MaxVoters       \* bound: voter accounts of all NCNs together

ASSUME NcnAccountsAssumption ==
    /\ MaxEpoch \in Nat
    /\ OperatorAdmin \in [Operators -> Keys]
    /\ ZeroRoot \in Roots
    /\ StakeAmounts \cup SupplyAmounts \subseteq Nat
    /\ U64Max \in Nat

VARIABLES
    epoch,              \* Clock::get()?.epoch
    accountData,        \* the data of the accounts of dephy-ncn
    ncnAccounts,        \* Jito: the admin of each NCN
    ncnOperatorStates,  \* Jito: the slot toggle of each NcnOperatorState
    ncnVaultTickets,    \* Jito: the slot toggle of each NcnVaultTicket
    operatorVaultTickets,\* Jito: the operator of each OperatorVaultTicket
    delegations,        \* Jito: the staked amount of each VaultOperatorDelegation
    vrtSupply,          \* Jito: of each vault
    votes               \* history: what was voted last, by Config and operator

ncnJitoVars == <<ncnAccounts, ncnOperatorStates, ncnVaultTickets>>
jitoVars == <<operatorVaultTickets, delegations, vrtSupply>>
vars == <<epoch, accountData, ncnJitoVars, jitoVars, votes>>

-----------------------------------------------------------------------------
(* Addresses *)

Pda(tag, seeds) == [program |-> "dephy_ncn", tag |-> tag, seeds |-> seeds]
JitoPda(tag, seeds) == [program |-> "jito", tag |-> tag, seeds |-> seeds]

NcnOf(base) == JitoPda("ncn", <<base>>)
ConfigOf(ncn) == Pda("dephy_ncn", <<ncn>>)
BallotBoxOf(config) == Pda("ballot_box", <<config>>)
VoterStateOf(config, operator) == Pda("voter_state", <<config, operator>>)
NcnAdminOf(ncn) == Pda("ncn_admin", <<ncn>>)
NcnOperatorStateOf(ncn, operator) == JitoPda("ncn_operator_state", <<ncn, operator>>)
NcnVaultTicketOf(ncn, vault) == JitoPda("ncn_vault_ticket", <<ncn, vault>>)
OperatorVaultTicketOf(operator, vault) == JitoPda("operator_vault_ticket", <<operator, vault>>)
DelegationOf(vault, operator) == JitoPda("vault_operator_delegation", <<vault, operator>>)

Ncns == {NcnOf(base) : base \in Bases}
Configs == {ConfigOf(ncn) : ncn \in Ncns}

\* f with a value for one more key.
With(f, key, value) == [k \in DOMAIN f \cup {key} |-> IF k = key THEN value ELSE f[k]]

Holds(address, type) == address \in DOMAIN accountData /\ accountData[address].type = type

Init ==
    /\ epoch = 0
    /\ accountData = << >>
    /\ ncnAccounts = << >>
    /\ ncnOperatorStates = << >>
    /\ ncnVaultTickets = << >>
    /\ operatorVaultTickets = << >>
    /\ delegations = << >>
    /\ vrtSupply \in [Vaults -> SupplyAmounts]
    /\ votes = [config \in Configs |->
                   [o \in Operators |-> [epoch |-> 0, vault |-> NoVault, root |-> ZeroRoot, amount |-> 0]]]

-----------------------------------------------------------------------------
(* Mistakes; nothing uses these operators.                                 *)

\* The account ncn is not compared with the one of the config.
ActsForAnyNcn(ctx) ==
    /\ Holds(ctx.config, "Config")
    /\ ctx.ncn_admin = NcnAdminOf(ctx.ncn)
    /\ ctx.ncn \in DOMAIN ncnAccounts
    /\ ncnAccounts[ctx.ncn] = ctx.ncn_admin

\* The voter account remembers no operator.
WithoutOperator(ctx) ==
    [type |-> "VoterState", config |-> ctx.config, operator |-> ctx.ncn, lastVotedEpoch |-> 0]

\* The tool derives the ballot box from the NCN in place of the config.
BallotBoxOfTheNcn(config, operator, vault, key) ==
    [config |-> config, ballot_box |-> BallotBoxOf(accountData[config].ncn),
     voter_state |-> VoterStateOf(config, operator), operator_admin |-> key, vault |-> vault,
     operator |-> operator, operator_vault_ticket |-> OperatorVaultTicketOf(operator, vault),
     vault_operator_delegation |-> DelegationOf(vault, operator)]

-----------------------------------------------------------------------------
(* initialize_ncn                                                          *)

\* The address of the config is derived from the ncn, and that of the ballot box from
\* the config.  None of them exists: a base key is good for one NCN.
InitializeNcnAccepted(ctx) ==
    /\ ctx.ncn = NcnOf(ctx.base)
    /\ ctx.ncn \notin DOMAIN ncnAccounts
    /\ ctx.config = ConfigOf(ctx.ncn)
    /\ ctx.ballot_box = BallotBoxOf(ctx.config)
    /\ {ctx.config, ctx.ballot_box} \cap DOMAIN accountData = {}
    /\ ctx.ncn_admin = NcnAdminOf(ctx.ncn)

EmptyBallotBox(config) ==
    [type |-> "BallotBox", config |-> config, epoch |-> 0, lastConsensusEpoch |-> 0,
     operatorsVoted |-> 0, approvedVotes |-> 0, totalVotes |-> 0,
     rewardsRoot |-> ZeroRoot, proposedRewardsRoot |-> ZeroRoot]

InitializeNcn(ctx) ==
    /\ InitializeNcnAccepted(ctx)
    /\ ncnAccounts' = With(ncnAccounts, ctx.ncn, ctx.ncn_admin)
    /\ accountData' = With(With(accountData,
                                ctx.config, [type |-> "Config", ncn |-> ctx.ncn]),
                           ctx.ballot_box, EmptyBallotBox(ctx.config))
    /\ UNCHANGED <<epoch, ncnOperatorStates, ncnVaultTickets, jitoVars, votes>>

-----------------------------------------------------------------------------
(* The instructions that the PDA ncn_admin signs for.                      *)

\* The ncn is that of the config, and Jito finds the admin of the ncn to be the PDA
\* that is derived from it.
ActsForNcn(ctx) ==
    /\ Holds(ctx.config, "Config")
    /\ ctx.ncn = accountData[ctx.config].ncn
    /\ ctx.ncn_admin = NcnAdminOf(ctx.ncn)
    /\ ctx.ncn \in DOMAIN ncnAccounts
    /\ ncnAccounts[ctx.ncn] = ctx.ncn_admin

InitializeVaultAccepted(ctx) ==
    /\ ActsForNcn(ctx)
    /\ ctx.vault \in Vaults
    /\ ctx.ncn_vault_ticket = NcnVaultTicketOf(ctx.ncn, ctx.vault)
    /\ ctx.ncn_vault_ticket \notin DOMAIN ncnVaultTickets

InitializeVault(ctx) ==
    /\ InitializeVaultAccepted(ctx)
    /\ ncnVaultTickets' = With(ncnVaultTickets, ctx.ncn_vault_ticket, "fresh")
    /\ UNCHANGED <<epoch, accountData, ncnAccounts, ncnOperatorStates, jitoVars, votes>>

\* A toggle that was added in this slot cannot be activated yet.
Inactive(toggles, address) == address \in DOMAIN toggles /\ toggles[address] = "inactive"

WarmupVaultAccepted(ctx) ==
    /\ ActsForNcn(ctx)
    /\ ctx.ncn_vault_ticket = NcnVaultTicketOf(ctx.ncn, ctx.vault)
    /\ Inactive(ncnVaultTickets, ctx.ncn_vault_ticket)

WarmupVault(ctx) ==
    /\ WarmupVaultAccepted(ctx)
    /\ ncnVaultTickets' = With(ncnVaultTickets, ctx.ncn_vault_ticket, "warm")
    /\ UNCHANGED <<epoch, accountData, ncnAccounts, ncnOperatorStates, jitoVars, votes>>

InitializeOperatorAccepted(ctx) ==
    /\ ActsForNcn(ctx)
    /\ ctx.operator \in Operators
    /\ ctx.ncn_operator_state = NcnOperatorStateOf(ctx.ncn, ctx.operator)
    /\ ctx.ncn_operator_state \notin DOMAIN ncnOperatorStates
    /\ ctx.voter_state = VoterStateOf(ctx.config, ctx.operator)
    /\ ctx.voter_state \notin DOMAIN accountData

NewVoterState(ctx) ==
    [type |-> "VoterState", config |-> ctx.config, operator |-> ctx.operator, lastVotedEpoch |-> 0]

InitializeOperator(ctx) ==
    /\ InitializeOperatorAccepted(ctx)
    /\ ncnOperatorStates' = With(ncnOperatorStates, ctx.ncn_operator_state, "fresh")
    /\ accountData' = With(accountData, ctx.voter_state, NewVoterState(ctx))
    /\ UNCHANGED <<epoch, ncnAccounts, ncnVaultTickets, jitoVars, votes>>

WarmupOperatorAccepted(ctx) ==
    /\ ActsForNcn(ctx)
    /\ ctx.ncn_operator_state = NcnOperatorStateOf(ctx.ncn, ctx.operator)
    /\ Inactive(ncnOperatorStates, ctx.ncn_operator_state)

WarmupOperator(ctx) ==
    /\ WarmupOperatorAccepted(ctx)
    /\ ncnOperatorStates' = With(ncnOperatorStates, ctx.ncn_operator_state, "warm")
    /\ UNCHANGED <<epoch, accountData, ncnAccounts, ncnVaultTickets, jitoVars, votes>>

-----------------------------------------------------------------------------
(* vote                                                                    *)

\* The ballot box and the voter account are those of the config, the ticket and the
\* delegation those of the operator and the vault; the operator is the voter's.
VoteAccounts(ctx) ==
    /\ Holds(ctx.config, "Config")
    /\ ctx.ballot_box = BallotBoxOf(ctx.config)
    /\ Holds(ctx.ballot_box, "BallotBox")
    /\ ctx.voter_state = VoterStateOf(ctx.config, ctx.operator)
    /\ Holds(ctx.voter_state, "VoterState")
    /\ ctx.operator = accountData[ctx.voter_state].operator
    /\ ctx.operator_vault_ticket = OperatorVaultTicketOf(ctx.operator, ctx.vault)
    /\ ctx.vault_operator_delegation = DelegationOf(ctx.vault, ctx.operator)

\* The ballot box with one more vote in it.
Counted(box, root, amount) ==
    LET opened == IF epoch > box.epoch
                  THEN [EmptyBallotBox(box.config) EXCEPT
                           !.epoch = epoch, !.proposedRewardsRoot = root,
                           !.lastConsensusEpoch = box.lastConsensusEpoch, !.rewardsRoot = box.rewardsRoot]
                  ELSE box
    IN [opened EXCEPT !.operatorsVoted = @ + 1,
                      !.totalVotes = @ + amount,
                      !.approvedVotes = @ + IF root = opened.proposedRewardsRoot THEN amount ELSE 0]

Settled(box, supply) ==
    IF box.epoch > box.lastConsensusEpoch /\ box.approvedVotes >= (supply * 2) \div 3
    THEN [box EXCEPT !.lastConsensusEpoch = box.epoch, !.rewardsRoot = box.proposedRewardsRoot]
    ELSE box

VoteAccepted(ctx, root) ==
    /\ VoteAccounts(ctx)
    /\ epoch > accountData[ctx.voter_state].lastVotedEpoch
    /\ OperatorAdmin[ctx.operator] = ctx.operator_admin
    /\ ctx.operator_vault_ticket \in DOMAIN operatorVaultTickets
    /\ operatorVaultTickets[ctx.operator_vault_ticket] = ctx.operator
    /\ ctx.vault_operator_delegation \in DOMAIN delegations
    /\ delegations[ctx.vault_operator_delegation] > 0
    /\ LET counted == Counted(accountData[ctx.ballot_box], root, delegations[ctx.vault_operator_delegation])
       IN /\ counted.epoch = epoch
          /\ {counted.operatorsVoted, counted.approvedVotes, counted.totalVotes} \subseteq 0..U64Max
          /\ counted.epoch > counted.lastConsensusEpoch => vrtSupply[ctx.vault] * 2 <= U64Max

Vote(ctx, root) ==
    LET amount == delegations[ctx.vault_operator_delegation]
    IN /\ VoteAccepted(ctx, root)
       /\ accountData' =
              [accountData EXCEPT
                  ![ctx.ballot_box] = Settled(Counted(@, root, amount), vrtSupply[ctx.vault]),
                  ![ctx.voter_state].lastVotedEpoch = epoch]
       /\ votes' = [votes EXCEPT ![ctx.config][ctx.operator] =
                       [epoch |-> epoch, vault |-> ctx.vault, root |-> root, amount |-> amount]]
       /\ UNCHANGED <<epoch, ncnJitoVars, jitoVars>>

-----------------------------------------------------------------------------
(* The environment: the clock, and what the owners of Jito accounts do.    *)

AdvanceEpoch ==
    /\ epoch < MaxEpoch
    /\ epoch' = epoch + 1
    /\ UNCHANGED <<accountData, ncnJitoVars, jitoVars, votes>>

Aged(toggles) == [a \in DOMAIN toggles |-> IF toggles[a] = "fresh" THEN "inactive" ELSE toggles[a]]

NextSlot ==
    /\ ncnOperatorStates' = Aged(ncnOperatorStates)
    /\ ncnVaultTickets' = Aged(ncnVaultTickets)
    /\ UNCHANGED <<epoch, accountData, ncnAccounts, jitoVars, votes>>

InitializeOperatorVaultTicket(operator, vault) ==
    /\ operatorVaultTickets' =
           With(operatorVaultTickets, OperatorVaultTicketOf(operator, vault), operator)
    /\ UNCHANGED <<epoch, accountData, ncnJitoVars, delegations, vrtSupply, votes>>

SetDelegation(vault, operator, amount) ==
    /\ OperatorVaultTicketOf(operator, vault) \in DOMAIN operatorVaultTickets
    /\ delegations' = With(delegations, DelegationOf(vault, operator), amount)
    /\ UNCHANGED <<epoch, accountData, ncnJitoVars, operatorVaultTickets, vrtSupply, votes>>

SetSupply(vault, amount) ==
    /\ vrtSupply' = [vrtSupply EXCEPT ![vault] = amount]
    /\ UNCHANGED <<epoch, accountData, ncnJitoVars, operatorVaultTickets, delegations, votes>>

-----------------------------------------------------------------------------
(* Callers give any account of the right kind for each name.               *)

NcnAdmins == {NcnAdminOf(ncn) : ncn \in Ncns}
BallotBoxes == {BallotBoxOf(config) : config \in Configs}
VoterStates == {VoterStateOf(config, o) : config \in Configs, o \in Operators}
NcnVaultTickets == {NcnVaultTicketOf(ncn, v) : ncn \in Ncns, v \in Vaults}
NcnOperatorStates == {NcnOperatorStateOf(ncn, o) : ncn \in Ncns, o \in Operators}
OperatorVaultTickets == {OperatorVaultTicketOf(o, v) : o \in Operators, v \in Vaults}
Delegations == {DelegationOf(v, o) : v \in Vaults, o \in Operators}

InitializeNcnContexts ==
    [base : Bases, ncn : Ncns, config : Configs, ballot_box : BallotBoxes, ncn_admin : NcnAdmins]
VaultContexts ==
    [config : Configs, ncn : Ncns, vault : Vaults, ncn_vault_ticket : NcnVaultTickets,
     ncn_admin : NcnAdmins]
InitializeOperatorContexts ==
    [config : Configs, ncn : Ncns, operator : Operators, ncn_operator_state : NcnOperatorStates,
     voter_state : VoterStates, ncn_admin : NcnAdmins]
WarmupOperatorContexts ==
    [config : Configs, ncn : Ncns, operator : Operators, ncn_operator_state : NcnOperatorStates,
     ncn_admin : NcnAdmins]
VoteContexts ==
    [config : Configs, ballot_box : BallotBoxes, voter_state : VoterStates, operator_admin : Keys,
     vault : Vaults, operator : Operators, operator_vault_ticket : OperatorVaultTickets,
     vault_operator_delegation : Delegations]

RoomForVoter == Cardinality({a \in DOMAIN accountData : Holds(a, "VoterState")}) < MaxVoters

Instructions ==
    \/ \E ctx \in InitializeNcnContexts : InitializeNcn(ctx)
    \/ \E ctx \in VaultContexts : InitializeVault(ctx) \/ WarmupVault(ctx)
    \/ RoomForVoter /\ \E ctx \in InitializeOperatorContexts : InitializeOperator(ctx)
    \/ \E ctx \in WarmupOperatorContexts : WarmupOperator(ctx)
    \/ \E ctx \in VoteContexts, root \in Roots : Vote(ctx, root)

Environment ==
    \/ AdvanceEpoch
    \/ NextSlot
    \/ \E o \in Operators, v \in Vaults : InitializeOperatorVaultTicket(o, v)
    \/ \E v \in Vaults, o \in Operators, amount \in StakeAmounts : SetDelegation(v, o, amount)
    \/ \E v \in Vaults, amount \in SupplyAmounts : SetSupply(v, amount)

Next == Instructions \/ Environment

Spec == Init /\ [][Next]_vars

-----------------------------------------------------------------------------
(* The accounts that the commands of the tool name, completed by anchor    *)
(* with the addresses that the program derives.                            *)

InitializeNcnCall(base) ==
    LET ncn == NcnOf(base)
    IN [base |-> base, ncn |-> ncn, config |-> ConfigOf(ncn),
        ballot_box |-> BallotBoxOf(ConfigOf(ncn)), ncn_admin |-> NcnAdminOf(ncn)]

\* initialize-vault and warmup-vault; the ncn is read from the config.
VaultCall(config, vault) ==
    LET ncn == accountData[config].ncn
    IN [config |-> config, ncn |-> ncn, vault |-> vault,
        ncn_vault_ticket |-> NcnVaultTicketOf(ncn, vault), ncn_admin |-> NcnAdminOf(ncn)]

WarmupOperatorCall(config, operator) ==
    LET ncn == accountData[config].ncn
    IN [config |-> config, ncn |-> ncn, operator |-> operator,
        ncn_operator_state |-> NcnOperatorStateOf(ncn, operator), ncn_admin |-> NcnAdminOf(ncn)]

InitializeOperatorCall(config, operator) ==
    LET ncn == accountData[config].ncn
    IN [config |-> config, ncn |-> ncn, operator |-> operator,
        ncn_operator_state |-> NcnOperatorStateOf(ncn, operator),
        voter_state |-> VoterStateOf(config, operator), ncn_admin |-> NcnAdminOf(ncn)]

VoteCall(config, operator, vault, key) ==
    [config |-> config, ballot_box |-> BallotBoxOf(config),
     voter_state |-> VoterStateOf(config, operator), operator_admin |-> key, vault |-> vault,
     operator |-> operator, operator_vault_ticket |-> OperatorVaultTicketOf(operator, vault),
     vault_operator_delegation |-> DelegationOf(vault, operator)]

-----------------------------------------------------------------------------
(* Each NCN as module DephyNcn describes it.                               *)

ConfigFor(base) == ConfigOf(NcnOf(base))
Initialized(base) == Holds(ConfigFor(base), "Config")
Registered(base) == {o \in Operators : Holds(VoterStateOf(ConfigFor(base), o), "VoterState")}

Get(f, key, default) == IF key \in DOMAIN f THEN f[key] ELSE default

LastVotedEpoch(base) ==
    [o \in Operators |-> IF o \in Registered(base)
                         THEN accountData[VoterStateOf(ConfigFor(base), o)].lastVotedEpoch
                         ELSE 0]
OperatorToggles(base) ==
    [o \in Operators |-> Get(ncnOperatorStates, NcnOperatorStateOf(NcnOf(base), o), "absent")]
VaultToggles(base) ==
    [v \in Vaults |-> Get(ncnVaultTickets, NcnVaultTicketOf(NcnOf(base), v), "absent")]

OperatorVaultPairs ==
    {pair \in Operators \X Vaults :
        OperatorVaultTicketOf(pair[1], pair[2]) \in DOMAIN operatorVaultTickets}
Staked == [v \in Vaults |-> [o \in Operators |-> Get(delegations, DelegationOf(v, o), 0)]]

\* The ballot box of an NCN, without the fields that say whose it is.
BoxFields == DOMAIN EmptyBallotBox(NoVault) \ {"type", "config"}
BallotBox(base) ==
    LET address == BallotBoxOf(ConfigFor(base))
        box == Get(accountData, address, EmptyBallotBox(NoVault))
    IN [field \in BoxFields |-> box[field]]

Ncn(base) == INSTANCE DephyNcn WITH
    Signers <- Keys,
    ncnInitialized <- Initialized(base),
    ballotBox <- BallotBox(base),
    voterAccounts <- Registered(base),
    lastVotedEpoch <- LastVotedEpoch(base),
    ncnOperatorState <- OperatorToggles(base),
    ncnVaultTicket <- VaultToggles(base),
    operatorVaultTicket <- OperatorVaultPairs,
    staked <- Staked,
    votes <- votes[ConfigFor(base)]

\* The vote that DephyNcn allows: the sums fit, as far as the counting goes.
VotePossible(base, key, o, v, root) ==
    LET box == Ncn(base)!CountedBallot(Ncn(base)!OpenedBallot(root), root, Get(delegations, DelegationOf(v, o), 0))
    IN Ncn(base)!Eligible(key, o, v) /\ Ncn(base)!FitsU64(box, vrtSupply[v])

-----------------------------------------------------------------------------
(* Properties *)

ConfigAccounts == [type : {"Config"}, ncn : Ncns]
BallotBoxAccounts ==
    [type : {"BallotBox"}, config : Configs, epoch : Nat, lastConsensusEpoch : Nat,
     operatorsVoted : Nat, approvedVotes : Nat, totalVotes : Nat,
     rewardsRoot : Roots, proposedRewardsRoot : Roots]
VoterStateAccounts ==
    [type : {"VoterState"}, config : Configs, operator : Operators, lastVotedEpoch : Nat]

Ballots == [epoch : Nat, vault : Vaults \cup {NoVault}, root : Roots, amount : Nat]

\* The account is at the address that its own fields derive, and what it belongs to exists.
InPlace(address, account) ==
    \/ /\ account \in ConfigAccounts
       /\ address = ConfigOf(account.ncn)
       /\ account.ncn \in DOMAIN ncnAccounts
    \/ /\ account \in BallotBoxAccounts
       /\ address = BallotBoxOf(account.config)
       /\ Holds(account.config, "Config")
    \/ /\ account \in VoterStateAccounts
       /\ address = VoterStateOf(account.config, account.operator)
       /\ Holds(account.config, "Config")

\* Every account of the program is well typed and at the address that its own fields
\* derive, and belongs to an NCN that exists; the PDA that signs for the NCN is its
\* admin at Jito (initialize_ncn.rs:65-71, initialize_operator.rs:58-61).
NcnAccountsTypeOK ==
    /\ epoch \in 0..MaxEpoch
    /\ \A ncn \in DOMAIN ncnAccounts :
          /\ ncn \in Ncns
          /\ ncnAccounts[ncn] = NcnAdminOf(ncn)
          /\ Holds(ConfigOf(ncn), "Config")
    /\ \A address \in DOMAIN delegations : delegations[address] \in StakeAmounts
    /\ vrtSupply \in [Vaults -> SupplyAmounts]
    /\ votes \in [Configs -> [Operators -> Ballots]]
    /\ \A address \in DOMAIN accountData : InPlace(address, accountData[address])

\* Whatever accounts callers combine, each NCN behaves as if it were the only one
\* and each instruction found the accounts it is about by itself: the constraints
\* let no instruction act for an NCN, an operator or a vault with the accounts of
\* another (vote.rs:22-42 and the other #[derive(Accounts)]).
ImplementsDephyNcn ==
    /\ \A base \in Bases : Ncn(base)!Init
    /\ [][\A base \in Bases : UNCHANGED Ncn(base)!vars \/ Ncn(base)!Next]_vars

\* What the tool makes of the config, operator and vault on its command line is what
\* the program needs: a command fails only if what it asks for is not possible at
\* that NCN, because it was done before, or not yet (actions.ts).
CommandsSuffice ==
    \A base \in Bases :
        LET config == ConfigFor(base)
        IN IF ~Initialized(base)
           THEN InitializeNcnAccepted(InitializeNcnCall(base))
           ELSE /\ \A v \in Vaults :
                       /\ VaultToggles(base)[v] = "absent" <=> InitializeVaultAccepted(VaultCall(config, v))
                       /\ VaultToggles(base)[v] = "inactive" <=> WarmupVaultAccepted(VaultCall(config, v))
                /\ \A o \in Operators :
                       /\ o \notin Registered(base) <=>
                              InitializeOperatorAccepted(InitializeOperatorCall(config, o))
                       /\ OperatorToggles(base)[o] = "inactive" <=>
                              WarmupOperatorAccepted(WarmupOperatorCall(config, o))
                /\ \A o \in Operators, v \in Vaults, key \in Keys, root \in Roots :
                       VotePossible(base, key, o, v, root) <=>
                           VoteAccepted(VoteCall(config, o, v, key), root)

=============================================================================
