--------------------------- MODULE RewardsAccounts ---------------------------
(***************************************************************************)
(* The dephy-rewards program at the level of accounts, called by the       *)
(* generated client.  Module Rewards takes for granted that an instruction *)
(* finds the accounts it is about; here they come in a list that a caller  *)
(* made, and are checked one by one, as #[derive(Accounts)] says.          *)
(*                                                                         *)
(* An instruction that fails changes nothing, and is no step.              *)
(***************************************************************************)
EXTENDS RewardsClient, Sums

CONSTANTS
    StateKeys,      \* addresses of rewards states, keys of their own
    Users,          \* keys that sign
    Mint,           \* the mint of the rewards
    TokenProgram,   \* the token program that owns it
    Trees,          \* the leaves <<owner, total>> of each root, in order
    Places,         \* the number of leaves that each tree is padded to
    Laps,           \* bound: how often an index goes round its tree
    RootAccount,    \* an account that external roots are read from
    RootsAt,        \* what its bytes are the root of, by offset
    Roots,          \* bound: the Merkle roots an authority may set
    MaxU64,         \* the largest u64, and usize
    Supply          \* the supply of the mint, none of it in an account at first

VARIABLES
    accountData,    \* the data of the accounts the program owns
    tokens,         \* the amount in each token account
    paid,           \* history: what each claim state was paid, not counting
                    \* payments into the vault they are from
    sent            \* history: the instruction of the last step, if it was one

vars == <<accountData, tokens, paid, sent>>

ZeroHash == Bytes32("0")
NotARoot == Bytes32("no root")

PROGRAM_ID == Bytes32("BEQB5zna")

AssociatedTokenAddress(owner) ==
    ProgramDerivedAddress(ASSOCIATED_TOKEN_PROGRAM_ADDRESS, "", <<owner, TokenProgram, Mint>>)
TokenOwner(address) == address.seeds[1]

WalletOf(user) == AssociatedTokenAddress(user)
Wallets == {WalletOf(user) : user \in Users}

Pda(tag, seeds) == ProgramDerivedAddress(PROGRAM_ID, tag, seeds)

VaultOf(state) == Pda("rewards_vault", <<state>>)
TokenAccount(state) == AssociatedTokenAddress(VaultOf(state))
ClaimStateOf(state, user) == Pda("claim_state", <<state, user>>)

Vaults == {VaultOf(state) : state \in StateKeys}
TokenAccounts == {TokenAccount(state) : state \in StateKeys}
ClaimStates == {ClaimStateOf(state, user) : state \in StateKeys, user \in Users}
DerivedAddresses == {Pda("global_config", << >>)} \cup Vaults \cup ClaimStates

\* A root that an authority sets is one that is known, or names an account to be passed.
IsRoot(root) ==
    IF IsMerkleRoot("Inplace", root)
    THEN root = Inplace(root.hash) /\ root.hash # NotARoot
    ELSE /\ root = External(root.pubkey, root.offset)
         /\ root.pubkey \notin {NoAddress, PROGRAM_ID} /\ root.offset \in 0..MaxU64

NoInstruction == [programAddress |-> NoAddress, accounts |-> << >>, data |-> <<0>>]

\* Nobody has the key of a derived address, or of the address that stands for none.
ASSUME AccountsAssumption ==
    /\ Supply \in Nat
    /\ IsFiniteSet(StateKeys) /\ IsFiniteSet(Users) /\ Users # {}
    /\ StateKeys \cap Users = {}
    /\ (StateKeys \cup Users) \cap DerivedAddresses = {}
    /\ NoAddress \notin StateKeys \cup Users \cup {Mint, TokenProgram}
    /\ \A hash \in DOMAIN Trees :
          /\ hash \notin {ZeroHash, NotARoot}
          /\ Trees[hash] \in Seq(Users \X Nat)
          /\ Places[hash] \in Nat \ {0} /\ Len(Trees[hash]) <= Places[hash]
    /\ Laps \subseteq Nat
    /\ MaxU64 \in Nat
    /\ \A root \in Roots : IsRoot(root)
    /\ \A offset \in DOMAIN RootsAt :
          offset \in Nat /\ offset + 32 <= MaxU64 /\ RootsAt[offset] # NotARoot

Init ==
    /\ accountData = << >>
    /\ tokens = [wallet \in Wallets |-> 0]
    /\ paid = [claimState \in ClaimStates |-> 0]
    /\ sent = NoInstruction

-----------------------------------------------------------------------------
(* The accounts of an instruction, in the order of the structs of lib.rs,  *)
(* with what is required of the flags.                                     *)

Account(name) == [name |-> name, mut |-> FALSE, signer |-> FALSE]
Mut(name) == [Account(name) EXCEPT !.mut = TRUE]
Signer(name) == [Account(name) EXCEPT !.signer = TRUE]
MutSigner(name) == [Mut(name) EXCEPT !.signer = TRUE]

FlagsAsRequired(struct, instruction) ==
    /\ Len(instruction.accounts) >= Len(struct)
    /\ \A i \in DOMAIN struct :
          /\ struct[i].mut => instruction.accounts[i].isWritable
          /\ struct[i].signer => instruction.accounts[i].isSigner

\* The addresses by name.
Context(struct, instruction) ==
    [name \in {struct[i].name : i \in DOMAIN struct} |->
        instruction.accounts[CHOOSE i \in DOMAIN struct : struct[i].name = name].address]

Holds(address, discriminator) == address \in DOMAIN accountData /\ accountData[address][1] = discriminator

Calls(instruction, discriminator) ==
    /\ instruction.programAddress = PROGRAM_ID
    /\ instruction.data[1] = discriminator

\* What an instruction comes to: nothing wrong, an error of the program's own, or
\* any other one: a constraint of Anchor, the token program, a panic.
Ok == 0
InvalidProof == 6001
AlreadyClaimed == 6002
Other == 2000

\* Written over the account: what is behind the new value stays.
Write(address, value) ==
    LET old == IF address \in DOMAIN accountData THEN accountData[address] ELSE << >>
    IN [a \in DOMAIN accountData \cup {address} |->
           IF a = address THEN value \o SubSeq(old, Len(value) + 1, Len(old)) ELSE accountData[a]]

-----------------------------------------------------------------------------
(* Instructions *)

Initialize == << Mut("global_config"), Signer("admin"), MutSigner("payer"), Account("system_program") >>

ProcessInitialize(instruction) ==
    LET ctx == Context(Initialize, instruction)
    IN /\ Calls(instruction, 175)
       /\ FlagsAsRequired(Initialize, instruction)
       /\ ctx.global_config = Pda("global_config", << >>)
       /\ ctx.global_config \notin DOMAIN accountData
       /\ ctx.system_program = SYSTEM_PROGRAM_ADDRESS
       /\ accountData' = Write(ctx.global_config, <<149, ctx.admin>>)
       /\ UNCHANGED <<tokens, paid>>

InitializeRewardsState ==
    << MutSigner("rewards_state"), Signer("authority"), Account("rewards_vault"), Account("rewards_mint"),
       Mut("rewards_token_account"), MutSigner("payer"), Account("rewards_token_program"),
       Account("associated_token_program"), Account("system_program") >>

\* The account of the state is zeroed: the root is Inplace, with 32 zero bytes,
\* and eight more bytes are allocated that only an External root needs.
ProcessInitializeRewardsState(instruction) ==
    LET ctx == Context(InitializeRewardsState, instruction)
    IN /\ Calls(instruction, 185)
       /\ FlagsAsRequired(InitializeRewardsState, instruction)
       /\ ctx.rewards_state \notin DOMAIN accountData
       /\ ctx.rewards_vault = Pda("rewards_vault", <<ctx.rewards_state>>)
       /\ ctx.rewards_mint = Mint
       /\ ctx.rewards_token_account = AssociatedTokenAddress(ctx.rewards_vault)
       /\ ctx.rewards_token_account \notin DOMAIN tokens
       /\ ctx.rewards_token_program = TokenProgram
       /\ ctx.associated_token_program = ASSOCIATED_TOKEN_PROGRAM_ADDRESS
       /\ ctx.system_program = SYSTEM_PROGRAM_ADDRESS
       /\ accountData' = Write(ctx.rewards_state, <<155, ctx.authority, ctx.rewards_mint,
                                              ctx.rewards_token_account, 0, ZeroHash, 0>>)
       /\ tokens' = [a \in DOMAIN tokens \cup {ctx.rewards_token_account} |->
                        IF a \in DOMAIN tokens THEN tokens[a] ELSE 0]
       /\ UNCHANGED paid

UpdateMerkleRoot == << Mut("rewards_state"), Signer("authority") >>

\* The fields before the root are written as they were.
ProcessUpdateMerkleRoot(instruction) ==
    LET ctx == Context(UpdateMerkleRoot, instruction)
    IN /\ Calls(instruction, 195)
       /\ FlagsAsRequired(UpdateMerkleRoot, instruction)
       /\ Holds(ctx.rewards_state, 155)
       /\ ctx.authority = accountData[ctx.rewards_state][2]
       /\ accountData' = Write(ctx.rewards_state,
                        SubSeq(accountData[ctx.rewards_state], 1, 4) \o Tail(instruction.data))
       /\ UNCHANGED <<tokens, paid>>

UpdateAuthority ==
    << Account("global_config"), Signer("authority"), Mut("rewards_state"), Account("new_authority") >>

\* (Mistake: anybody who signs may set it.)
UpdateAuthorityByAnyone(instruction) ==
    LET ctx == Context(UpdateAuthority, instruction)
    IN /\ Calls(instruction, 32)
       /\ FlagsAsRequired(UpdateAuthority, instruction)
       /\ ctx.global_config = Pda("global_config", << >>)
       /\ Holds(ctx.global_config, 149)
       /\ Holds(ctx.rewards_state, 155)
       /\ accountData' = [accountData EXCEPT ![ctx.rewards_state][2] = ctx.new_authority]
       /\ UNCHANGED <<tokens, paid>>

ProcessUpdateAuthority(instruction) ==
    LET ctx == Context(UpdateAuthority, instruction)
    IN /\ Calls(instruction, 32)
       /\ FlagsAsRequired(UpdateAuthority, instruction)
       /\ ctx.global_config = Pda("global_config", << >>)
       /\ Holds(ctx.global_config, 149)
       /\ Holds(ctx.rewards_state, 155)
       /\ ctx.authority \in {accountData[ctx.global_config][2], accountData[ctx.rewards_state][2]}
       /\ accountData' = [accountData EXCEPT ![ctx.rewards_state][2] = ctx.new_authority]
       /\ UNCHANGED <<tokens, paid>>

ClaimRewards ==
    << Account("rewards_state"), Account("rewards_vault"), Account("rewards_mint"),
       Mut("rewards_token_account"), Signer("owner"), Mut("claim_state"),
       Mut("beneficiary_token_account"), Account("maybe_merkle_root_account"), MutSigner("payer"),
       Account("rewards_token_program"), Account("system_program") >>

\* struct ClaimRewardsArgs
ClaimRewardsArgs(instruction) ==
    [index |-> instruction.data[2], total_rewards |-> instruction.data[3], proof |-> instruction.data[4]]

\* (Mistakes: the claim state of any owner, or of any rewards state, will do.)
ClaimStateOfAnyOwner(ctx) == \E user \in Users : ctx.claim_state = ClaimStateOf(ctx.rewards_state, user)
ClaimStateOfAnyState(ctx) == \E state \in StateKeys : ctx.claim_state = ClaimStateOf(state, ctx.owner)

\* The claim state is the one of this owner under this state.
IsOwnClaimState(ctx) == ctx.claim_state = Pda("claim_state", <<ctx.rewards_state, ctx.owner>>)

ClaimAccountsAccepted(instruction) ==
    LET ctx == Context(ClaimRewards, instruction)
    IN /\ Calls(instruction, 4)
       /\ FlagsAsRequired(ClaimRewards, instruction)
       /\ Holds(ctx.rewards_state, 155)
       /\ ctx.rewards_vault = Pda("rewards_vault", <<ctx.rewards_state>>)
       /\ ctx.rewards_mint = Mint
       /\ ctx.rewards_token_account = accountData[ctx.rewards_state][4]
       /\ IsOwnClaimState(ctx)
       /\ ctx.claim_state \in DOMAIN accountData => Holds(ctx.claim_state, 71)
       /\ ctx.beneficiary_token_account \in DOMAIN tokens
       /\ ctx.rewards_token_program = TokenProgram
       /\ ctx.system_program = SYSTEM_PROGRAM_ADDRESS

\* The bits of an index beyond the length of the proof are not looked at.
IsLeafAt(hash, index, leaf) ==
    LET place == (index % Places[hash]) + 1
    IN place \in DOMAIN Trees[hash] /\ Trees[hash][place] = leaf

\* recompute_root: the proof of the leaf at this index of a tree leads to its
\* root, and anything else to no root (module MerkleTree).
RecomputeRoot(owner, args) ==
    IF IsLeafAt(args.proof, args.index, <<owner, args.total_rewards>>) THEN args.proof ELSE NotARoot

\* The root of the state, or that at the place it names, if there is one.
RootIsAt(root, address, hash) ==
    IF root[1] = 0 THEN root[2] = hash
    ELSE /\ address = root[2]
         /\ address = RootAccount
         /\ root[3] \in DOMAIN RootsAt
         /\ RootsAt[root[3]] = hash

\* An account that was left out is the program; the code unwraps it.
UnwrapsNone(root, address) == root[1] = 1 /\ address = PROGRAM_ID

\* The end of the slice is computed with overflow checks (Cargo.toml:9).
OffsetOverflows(root, address) == root[1] = 1 /\ address = root[2] /\ root[3] + 32 > MaxU64

ClaimedRewards(address) == IF address \in DOMAIN accountData THEN accountData[address][3] ELSE 0

\* transfer_checked of the token program, with the vault as the authority.
CanTransfer(ctx, amount) ==
    /\ TokenOwner(ctx.rewards_token_account) = ctx.rewards_vault
    /\ tokens[ctx.rewards_token_account] >= amount

Moved(from, to, amount) ==
    [a \in DOMAIN tokens |->
        IF from = to THEN tokens[a]
        ELSE IF a = from THEN tokens[a] - amount
        ELSE IF a = to THEN tokens[a] + amount ELSE tokens[a]]

\* (Mistake: what was claimed is looked at before the proof.)
ProofComesLast(instruction) ==
    LET ctx == Context(ClaimRewards, instruction)
        args == ClaimRewardsArgs(instruction)
        root == SubSeq(accountData[ctx.rewards_state], 5, 7)
        claimed == ClaimedRewards(ctx.claim_state)
    IN IF ~ClaimAccountsAccepted(instruction) THEN Other
       ELSE IF UnwrapsNone(root, ctx.maybe_merkle_root_account) THEN Other
       ELSE IF OffsetOverflows(root, ctx.maybe_merkle_root_account) THEN Other
       ELSE IF args.total_rewards = claimed THEN AlreadyClaimed
       ELSE IF args.total_rewards < claimed THEN Other
       ELSE IF ~RootIsAt(root, ctx.maybe_merkle_root_account, RecomputeRoot(ctx.owner, args))
            THEN InvalidProof
       ELSE IF ~CanTransfer(ctx, args.total_rewards - claimed) THEN Other ELSE Ok

ClaimOutcome(instruction) ==
    LET ctx == Context(ClaimRewards, instruction)
        args == ClaimRewardsArgs(instruction)
        root == SubSeq(accountData[ctx.rewards_state], 5, 7)
        claimed == ClaimedRewards(ctx.claim_state)
    IN IF ~ClaimAccountsAccepted(instruction) THEN Other
       ELSE IF UnwrapsNone(root, ctx.maybe_merkle_root_account) THEN Other
       ELSE IF OffsetOverflows(root, ctx.maybe_merkle_root_account) THEN Other
       ELSE IF ~RootIsAt(root, ctx.maybe_merkle_root_account, RecomputeRoot(ctx.owner, args))
            THEN InvalidProof
       ELSE IF args.total_rewards < claimed THEN Other
       ELSE IF args.total_rewards = claimed THEN AlreadyClaimed
       ELSE IF ~CanTransfer(ctx, args.total_rewards - claimed) THEN Other ELSE Ok

ProcessClaimRewards(instruction) ==
    LET ctx == Context(ClaimRewards, instruction)
        args == ClaimRewardsArgs(instruction)
    IN /\ ClaimOutcome(instruction) = Ok
       /\ tokens' = Moved(ctx.rewards_token_account, ctx.beneficiary_token_account,
                          args.total_rewards - ClaimedRewards(ctx.claim_state))
       /\ accountData' = Write(ctx.claim_state, <<71, ctx.owner, args.total_rewards>>)
       /\ paid' = [paid EXCEPT ![ctx.claim_state] =
                      @ + tokens[ctx.rewards_token_account] - tokens'[ctx.rewards_token_account]]

-----------------------------------------------------------------------------
(* Callers.  They sign, and leave to the client what it can derive; at     *)
(* most one of the accounts is one of another state, or of another owner.  *)

Plains(addresses) == {Plain(address) : address \in addresses}
Signing == {TransactionSigner(user) : user \in Users}
Payer == TransactionSigner(CHOOSE user \in Users : TRUE)

AtMostOneMixedUp(input, others) ==
    {input} \cup UNION {{[input EXCEPT ![name] = Plain(address)] : address \in others[name]}
                           : name \in DOMAIN others}

InitializeAsyncInput ==
    LET input == [globalConfig |-> Null, admin |-> Payer, payer |-> Payer, systemProgram |-> Null]
    IN AtMostOneMixedUp(input, [globalConfig |-> {Pda("global_config", << >>), VaultOf(Mint)}])

InitializeRewardsStateAsyncInput ==
    LET input(state, authority) ==
            [rewardsState |-> TransactionSigner(state), authority |-> authority, rewardsVault |-> Null,
             rewardsMint |-> Plain(Mint), rewardsTokenAccount |-> Null, payer |-> Payer,
             rewardsTokenProgram |-> Plain(TokenProgram), associatedTokenProgram |-> Null,
             systemProgram |-> Null]
    IN UNION {AtMostOneMixedUp(input(state, authority),
                               [rewardsVault |-> Vaults, rewardsTokenAccount |-> TokenAccounts])
                 : state \in StateKeys, authority \in Signing}

UpdateMerkleRootInput == [rewardsState : Plains(StateKeys), authority : Signing]

UpdateAuthorityAsyncInput ==
    [globalConfig : {Null, Plain(Pda("global_config", << >>))}, authority : Signing,
     rewardsState : Plains(StateKeys), newAuthority : Plains(Users)]

\* What the client cannot derive; a claimer finds the token account in the state.
ClaimRewardsInput(state, owner, beneficiary, rootAccount) ==
    [rewardsState |-> Plain(state), rewardsVault |-> Null, rewardsMint |-> Plain(Mint),
     rewardsTokenAccount |-> Plain(TokenAccount(state)), owner |-> TransactionSigner(owner),
     claimState |-> Null, beneficiaryTokenAccount |-> Plain(beneficiary),
     maybeMerkleRootAccount |-> rootAccount, payer |-> Payer,
     rewardsTokenProgram |-> Plain(TokenProgram), systemProgram |-> Null]

ClaimRewardsAsyncInput ==
    UNION {UNION {AtMostOneMixedUp(ClaimRewardsInput(state, owner, beneficiary, rootAccount),
                            [rewardsVault |-> Vaults, rewardsTokenAccount |-> TokenAccounts,
                             claimState |-> ClaimStates])
                     : beneficiary \in {WalletOf(owner)} \cup TokenAccounts,
                       rootAccount \in {Null, Plain(RootAccount)}}
              : state \in StateKeys, owner \in Users}

ClaimArgs ==
    UNION {{[index |-> i - 1 + lap * Places[hash], totalRewards |-> Trees[hash][i][2], proof |-> hash]
               : i \in DOMAIN Trees[hash], lap \in Laps}
              : hash \in DOMAIN Trees}

-----------------------------------------------------------------------------

\* The instructions they send.
InitializeCalls ==
    {GetInitializeInstructionAsync(input, NoAddress) : input \in InitializeAsyncInput}
InitializeRewardsStateCalls ==
    {GetInitializeRewardsStateInstructionAsync(input, NoAddress) : input \in InitializeRewardsStateAsyncInput}
UpdateMerkleRootCalls ==
    {GetUpdateMerkleRootInstruction(input, [merkleRoot |-> root], NoAddress)
        : input \in UpdateMerkleRootInput, root \in Roots}
UpdateAuthorityCalls ==
    {GetUpdateAuthorityInstructionAsync(input, NoAddress) : input \in UpdateAuthorityAsyncInput}
ClaimRewardsCalls ==
    {GetClaimRewardsInstructionAsync(input, args, NoAddress)
        : input \in ClaimRewardsAsyncInput, args \in ClaimArgs}

CallInitialize ==
    \E call \in InitializeCalls : ProcessInitialize(call) /\ sent' = call
CallInitializeRewardsState ==
    \E call \in InitializeRewardsStateCalls : ProcessInitializeRewardsState(call) /\ sent' = call
CallUpdateMerkleRoot ==
    \E call \in UpdateMerkleRootCalls : ProcessUpdateMerkleRoot(call) /\ sent' = call
CallUpdateAuthority ==
    \E call \in UpdateAuthorityCalls : ProcessUpdateAuthority(call) /\ sent' = call
CallClaimRewards ==
    \E call \in ClaimRewardsCalls : ProcessClaimRewards(call) /\ sent' = call

\* Tokens are minted, or transferred, into the token account of a vault.
Fund ==
    \E account \in DOMAIN tokens \ Wallets :
        /\ SumOver(DOMAIN tokens, tokens) < Supply
        /\ tokens' = [tokens EXCEPT ![account] = @ + 1]
        /\ sent' = NoInstruction
        /\ UNCHANGED <<accountData, paid>>

Next ==
    \/ CallInitialize
    \/ CallInitializeRewardsState
    \/ CallUpdateMerkleRoot
    \/ CallUpdateAuthority
    \/ CallClaimRewards
    \/ Fund

Spec == Init /\ [][Next]_vars

-----------------------------------------------------------------------------
(* The program of module Rewards, where an instruction finds the accounts  *)
(* it is about.                                                            *)

AddressesOfRoots ==
    {<<root.pubkey, root.offset>> : root \in {r \in Roots : ~IsMerkleRoot("Inplace", r)}}
RootAtAddress(address) ==
    IF address[1] = RootAccount /\ address[2] \in DOMAIN RootsAt THEN RootsAt[address[2]] ELSE NotARoot
LeavesOf(hash) == IF hash \in DOMAIN Trees THEN {Trees[hash][i] : i \in DOMAIN Trees[hash]} ELSE {}
TreesAsSets == {{}} \cup {LeavesOf(hash) : hash \in DOMAIN Trees}
VaultBalance(state) == IF TokenAccount(state) \in DOMAIN tokens THEN tokens[TokenAccount(state)] ELSE 0
PaidBy(state) == [user \in Users |-> paid[ClaimStateOf(state, user)]]
RootOf(state) == SubSeq(accountData[state], 5, 7)

AdminOfConfig ==
    IF Pda("global_config", << >>) \in DOMAIN accountData
    THEN accountData[Pda("global_config", << >>)][2] ELSE NoAddress
Authorities ==
    [state \in StateKeys |-> IF state \in DOMAIN accountData THEN accountData[state][2] ELSE NoAddress]
MerkleRootsOfStates ==
    [state \in StateKeys |->
        IF state \notin DOMAIN accountData THEN [type |-> "Inplace", hash |-> {}]
        ELSE IF RootOf(state)[1] = 0 THEN [type |-> "Inplace", hash |-> LeavesOf(RootOf(state)[2])]
        ELSE [type |-> "External", slot |-> Tail(RootOf(state))]]
Claims == [state \in StateKeys |-> [user \in Users |-> ClaimedRewards(ClaimStateOf(state, user))]]
VaultBalances == [state \in StateKeys |-> VaultBalance(state)]
Payouts == [state \in StateKeys |-> PaidBy(state)]
Deposits == [state \in StateKeys |-> VaultBalance(state) + SumOver(Users, PaidBy(state))]

Books == INSTANCE Rewards WITH
    States <- StateKeys,
    Owners <- Users,
    Keys <- Users,
    NoKey <- NoAddress,
    Trees <- TreesAsSets,
    Slots <- AddressesOfRoots,
    Wallet <- NoAddress,
    Amounts <- {1},
    TokenSupply <- Supply,
    admin <- AdminOfConfig,
    authority <- Authorities,
    merkleRoot <- MerkleRootsOfStates,
    claimed <- Claims,
    balance <- VaultBalances,
    outside <- Supply - SumOver(StateKeys, VaultBalances),
    received <- Payouts,
    deposited <- Deposits,
    everLive <- [state \in StateKeys |-> {}],
    slotData <- [address \in AddressesOfRoots |-> LeavesOf(RootAtAddress(address))]

-----------------------------------------------------------------------------
(* Properties *)

\* Every account is where its kind and its fields say it is: the seeds of a claim
\* state are its owner and an existing rewards state, and the token account that a
\* rewards state names is that of its vault (lib.rs:107-195).
AccountsTypeOK ==
    /\ tokens \in [DOMAIN tokens -> 0..Supply]
    /\ \A address \in DOMAIN accountData :
          LET kind == IdentifyAccount(accountData[address])
          IN \/ /\ kind = "GlobalConfig"
                /\ address = Pda("global_config", << >>)
                /\ DecodeGlobalConfig(accountData[address]).admin \in Users
             \/ /\ kind = "RewardsState"
                /\ address \in StateKeys
                /\ DecodeRewardsState(accountData[address]).authority \in Users
                /\ DecodeRewardsState(accountData[address]).rewardsTokenAccount = TokenAccount(address)
                /\ TokenAccount(address) \in DOMAIN tokens
             \/ /\ kind = "ClaimState"
                /\ \E state \in StateKeys \cap DOMAIN accountData :
                      address = ClaimStateOf(state, DecodeClaimState(accountData[address]).owner)

\* Whatever accounts callers mix up, the accounts of the program change only as a
\* rewards program does that cannot mix them up, with the books of Rewards; what
\* was ever live is not followed (lib.rs:12-103, 107-195).
ImplementsRewards == Books!RewardsInit /\ [][Books!Instructions \/ Books!Funding]_(Books!rewardsVars)

\* A claim as a claimer makes it: all it knows is the rewards state, which it fetches,
\* the leaf and its proof, and its wallet (rewards_cli.ts:264-345).
ClaimOf(state, user, args) ==
    LET fetched == FetchMaybeRewardsState(accountData, state).data
        rootAccount == IF IsMerkleRoot("External", fetched.merkleRoot)
                       THEN Plain(fetched.merkleRoot.pubkey) ELSE Null
        input == [ClaimRewardsInput(state, user, WalletOf(user), rootAccount)
                     EXCEPT !.rewardsTokenAccount = Plain(fetched.rewardsTokenAccount)]
    IN GetClaimRewardsInstructionAsync(input, args, NoAddress)

ExistingStates == StateKeys \cap DOMAIN accountData

IsLeaf(user, args) == IsLeafAt(args.proof, args.index, <<user, args.totalRewards>>)

IsLive(state, args) ==
    IF RootOf(state)[1] = 0 THEN RootOf(state)[2] = args.proof
    ELSE RootAtAddress(Tail(RootOf(state))) = args.proof

\* Whoever has a leaf of the live tree with something left to claim, and a vault
\* that can pay it, is served with what the client derives and decodes by itself,
\* in every state the program can get to (claimRewards.ts:193-341, lib.rs:49-103).
EntitledIsServed ==
    \A state \in ExistingStates, user \in Users, args \in ClaimArgs :
        /\ IsLeaf(user, args)
        /\ IsLive(state, args)
        /\ args.totalRewards > ClaimedRewards(ClaimStateOf(state, user))
        /\ VaultBalance(state) >= args.totalRewards - ClaimedRewards(ClaimStateOf(state, user))
        => ClaimOutcome(ClaimOf(state, user, args)) = Ok

\* The end of the place that the rewards state names for its root is a u64.
OffsetFits(state) == RootOf(state)[1] = 0 \/ RootOf(state)[3] + 32 <= MaxU64

\* A claimer that tries again, or comes with a proof of another root, learns from the
\* client's error constants which it was: "already claimed" just when the claim state
\* it can fetch has the total of its live leaf, or neither is more than zero, and
\* "invalid proof" just when the leaf is not live, unless the offset of the root is so
\* large that the program panics (errors/dephyRewards.ts:17-64, lib.rs:54-79).
RefusalsAreTold ==
    \A state \in ExistingStates, user \in Users, args \in ClaimArgs :
        IsLeaf(user, args) =>
        LET call == ClaimOf(state, user, args)
            told(code) == IsDephyRewardsError(ClaimOutcome(call), call, code)
            claim == FetchMaybeClaimState(accountData, FindClaimStatePda(state, user, NoAddress))
            claimed == IF claim.exists THEN claim.data.claimedRewards ELSE 0
        IN /\ told(DEPHY_REWARDS_ERROR__INVALID_PROOF) <=> ~IsLive(state, args) /\ OffsetFits(state)
           /\ told(DEPHY_REWARDS_ERROR__ALREADY_CLAIMED) <=>
                 IsLive(state, args) /\ claimed = args.totalRewards

\* What the client fetches changes only as the instruction that was sent says, read
\* with the client's parsers, and only if those signed it whom the program is to obey
\* (dephyRewards.ts:27-164, the parsers, and the decoders of accounts/):
WasSent(name) ==
    /\ sent'.programAddress = DEPHY_REWARDS_PROGRAM_ADDRESS
    /\ IdentifyInstruction(sent'.data) = name

\* the configuration appears with the admin that signed initialize,
ConfigIsExplained ==
    LET address == Pda("global_config", << >>)
        fetched == FetchMaybeGlobalConfig(accountData, address)
        read == ParseInitialize(sent')
    IN fetched' # fetched =>
          /\ WasSent("Initialize")
          /\ ~fetched.exists
          /\ read.accounts.globalConfig.address = address
          /\ read.accounts.admin.isSigner
          /\ fetched'.data.admin = read.accounts.admin.address

\* a rewards state appears with the token account of its vault and a root of zeros,
StateIsMade(state) ==
    LET read == ParseInitializeRewardsState(sent')
    IN /\ WasSent("InitializeRewardsState")
       /\ read.accounts.rewardsState.address = state /\ read.accounts.rewardsState.isSigner
       /\ read.accounts.rewardsVault.address = FindRewardsVaultPda(state, NoAddress)
       /\ read.accounts.authority.isSigner
       /\ FetchMaybeRewardsState(accountData, state)'.data =
             [authority |-> read.accounts.authority.address,
              rewardsMint |-> read.accounts.rewardsMint.address,
              rewardsTokenAccount |-> read.accounts.rewardsTokenAccount.address,
              merkleRoot |-> Inplace(ZeroHash)]

\* its root becomes what its authority signed, and its authority what the authority, or
\* the admin of the configuration, signed,
RootIsSet(state) ==
    LET fetched == FetchMaybeRewardsState(accountData, state).data
        read == ParseUpdateMerkleRoot(sent')
    IN /\ WasSent("UpdateMerkleRoot")
       /\ read.accounts.rewardsState.address = state
       /\ read.accounts.authority.isSigner
       /\ read.accounts.authority.address = fetched.authority
       /\ fetched' = [fetched EXCEPT !.merkleRoot = read.data.merkleRoot]

AuthorityIsSet(state) ==
    LET fetched == FetchMaybeRewardsState(accountData, state).data
        config == FetchMaybeGlobalConfig(accountData, Pda("global_config", << >>))
        read == ParseUpdateAuthority(sent')
    IN /\ WasSent("UpdateAuthority")
       /\ read.accounts.rewardsState.address = state
       /\ read.accounts.authority.isSigner
       /\ \/ read.accounts.authority.address = fetched.authority
          \/ config.exists /\ read.accounts.authority.address = config.data.admin
       /\ fetched' = [fetched EXCEPT !.authority = read.accounts.newAuthority.address]

StateIsExplained(state) ==
    LET fetched == FetchMaybeRewardsState(accountData, state)
    IN fetched' # fetched =>
          IF fetched.exists THEN RootIsSet(state) \/ AuthorityIsSet(state) ELSE StateIsMade(state)

\* and a claim state rises to the total of the claim that its owner signed, a leaf of the
\* live tree, read from the account that the rewards state names if it names one.
ClaimIsExplained(address) ==
    LET fetched == FetchMaybeClaimState(accountData, address)
        read == ParseClaimRewards(sent')
        state == read.accounts.rewardsState.address
        owner == read.accounts.owner.address
        root == FetchMaybeRewardsState(accountData, state).data.merkleRoot
    IN fetched' # fetched =>
          /\ WasSent("ClaimRewards")
          /\ read.accounts.claimState.address = address
          /\ address = FindClaimStatePda(state, owner, NoAddress)
          /\ read.accounts.owner.isSigner
          /\ fetched'.data = [owner |-> owner, claimedRewards |-> read.data.totalRewards]
          /\ fetched.exists => fetched.data.claimedRewards < read.data.totalRewards
          /\ IsLeaf(owner, read.data) /\ IsLive(state, read.data)
          /\ IsMerkleRoot("External", root) => read.accounts.maybeMerkleRootAccount = root.pubkey

\* A reader of the chain who parses what was sent with the generated client can account
\* for every change of what it fetches, of the configuration, of each rewards state and
\* of each claim state: no instruction has an effect that it does not name, and none has
\* one without the signature of whom the program is to obey (lib.rs:12-103, 36-42).
ChangesAreExplained ==
    [][/\ ConfigIsExplained
       /\ \A state \in StateKeys : StateIsExplained(state)
       /\ \A address \in ClaimStates : ClaimIsExplained(address)]_vars

\* Once the configuration is initialized, the client finds it at the address that it
\* derives for it (tests/dephy-rewards-kit.test.ts:109-121).
GlobalConfigIsFound ==
    Pda("global_config", << >>) \in DOMAIN accountData
        => FetchMaybeGlobalConfig(accountData, FindGlobalConfigPda(NoAddress)).exists

=============================================================================
