---------------------------- MODULE RewardsClient ----------------------------
(***************************************************************************)
(* The generated TypeScript client of dephy-rewards                        *)
(* (clients/dephy-rewards/js/src/generated): how it derives addresses,     *)
(* builds, recognizes and parses instructions, and decodes accounts.  All  *)
(* of it is pure; module RewardsAccounts has the program it talks to.      *)
(*                                                                         *)
(* Encoded data is the sequence of its fields.  The eight bytes of a       *)
(* discriminator are written as the first one, which tells them apart.     *)
(* 32 bytes, be they a key, a hash or an address, are one kind of value;   *)
(* derived addresses never collide with each other or with keys.           *)
(***************************************************************************)
EXTENDS Naturals, Sequences

Bytes32(name) == [program |-> "", tag |-> name, seeds |-> <<>>]

\* getProgramDerivedAddress: a program, a constant seed and 32-byte seeds.
ProgramDerivedAddress(program, tag, seeds) ==
    [program |-> program.tag, tag |-> tag, seeds |-> seeds]

DEPHY_REWARDS_PROGRAM_ADDRESS == Bytes32("BEQB5zna")
SYSTEM_PROGRAM_ADDRESS == Bytes32("11111111")
ASSOCIATED_TOKEN_PROGRAM_ADDRESS == Bytes32("ATokenGP")

\* "programAddress" of a config that the caller leaves out
NoAddress == Bytes32("undefined")
Given(programAddress, default) == IF programAddress = NoAddress THEN default ELSE programAddress

-----------------------------------------------------------------------------
(* shared/index.ts: what a caller gives for an account is an address, a    *)
(* transaction signer, or nothing.                                         *)

Plain(address) == [address |-> address, signer |-> FALSE]
TransactionSigner(address) == [address |-> address, signer |-> TRUE]
Null == Plain(NoAddress)

IsTransactionSigner(value) == value.signer
ExpectAddress(value) == value.address

\* getAccountMetaFactory(programAddress, 'programId'): an account that is left
\* out is given as the address of the program.
AccountMeta(programAddress, account) ==
    IF account.value = Null
    THEN [address |-> programAddress, isWritable |-> FALSE, isSigner |-> FALSE]
    ELSE [address |-> ExpectAddress(account.value),
          isWritable |-> account.isWritable,
          isSigner |-> IsTransactionSigner(account.value)]

ReadonlyAccount(name) == [name |-> name, isWritable |-> FALSE]
WritableAccount(name) == [name |-> name, isWritable |-> TRUE]

\* What all builders share: an account meta for each account of the layout.
Instruction(programAddress, layout, values, data) ==
    [programAddress |-> programAddress,
     accounts |-> [i \in DOMAIN layout |->
                      AccountMeta(programAddress, [value |-> values[layout[i].name],
                                                   isWritable |-> layout[i].isWritable])],
     data |-> data]

\* Resolve default values.
Default(values, name, address) ==
    [values EXCEPT ![name] = IF @ = Null THEN Plain(address) ELSE @]

\* What all parsers share: the accounts by name.  (Too few of them throw; what a
\* builder makes has all of them.)
NamedAccounts(layout, instruction) ==
    [name \in {layout[i].name : i \in DOMAIN layout} |->
        instruction.accounts[CHOOSE i \in DOMAIN layout : layout[i].name = name]]

-----------------------------------------------------------------------------
(* pdas *)

FindRewardsVaultPda(rewardsState, programAddress) ==
    ProgramDerivedAddress(Given(programAddress, Bytes32("BEQB5zna")), "rewards_vault", <<rewardsState>>)

FindClaimStatePda(rewardsState, user, programAddress) ==
    ProgramDerivedAddress(Given(programAddress, Bytes32("BEQB5zna")), "claim_state", <<rewardsState, user>>)

FindGlobalConfigPda(programAddress) ==
    ProgramDerivedAddress(Given(programAddress, Bytes32("PHYRvUPm")), "global_config", <<>>)

-----------------------------------------------------------------------------
(* types/merkleRoot.ts: a byte for the kind, and the fields of that kind.  *)

Inplace(hash) == [kind |-> "Inplace", hash |-> hash]
External(pubkey, offset) == [kind |-> "External", pubkey |-> pubkey, offset |-> offset]
IsMerkleRoot(kind, root) == root.kind = kind

EncodeMerkleRoot(root) ==
    IF IsMerkleRoot("Inplace", root) THEN <<0, root.hash>> ELSE <<1, root.pubkey, root.offset>>

DecodeMerkleRoot(data) == IF data[1] = 0 THEN Inplace(data[2]) ELSE External(data[2], data[3])

-----------------------------------------------------------------------------
(* accounts: decoders read a prefix of the data, and take any discriminator. *)

DecodeGlobalConfig(data) == [admin |-> data[2]]

DecodeRewardsState(data) ==
    [authority |-> data[2], rewardsMint |-> data[3], rewardsTokenAccount |-> data[4],
     merkleRoot |-> DecodeMerkleRoot(SubSeq(data, 5, Len(data)))]

DecodeClaimState(data) == [owner |-> data[2], claimedRewards |-> data[3]]

\* fetchMaybe...: rpc gives the data of the accounts that exist.
FetchMaybe(rpc, address, Decode(_)) ==
    IF address \in DOMAIN rpc THEN [exists |-> TRUE, data |-> Decode(rpc[address])]
                              ELSE [exists |-> FALSE]

FetchMaybeGlobalConfig(rpc, address) == FetchMaybe(rpc, address, DecodeGlobalConfig)
FetchMaybeRewardsState(rpc, address) == FetchMaybe(rpc, address, DecodeRewardsState)
FetchMaybeClaimState(rpc, address) == FetchMaybe(rpc, address, DecodeClaimState)

\* identifyDephyRewardsAccount: "" is the error it throws.
IdentifyAccount(data) ==
    CASE data[1] = 71 -> "ClaimState"
      [] data[1] = 149 -> "GlobalConfig"
      [] data[1] = 155 -> "RewardsState"
      [] OTHER -> ""

-----------------------------------------------------------------------------
(* instructions/initialize.ts *)

INITIALIZE_DISCRIMINATOR == 175

InitializeInstruction ==
    << WritableAccount("globalConfig"), ReadonlyAccount("admin"), WritableAccount("payer"),
       ReadonlyAccount("systemProgram") >>

EncodeInitialize == <<INITIALIZE_DISCRIMINATOR>>

GetInitializeInstruction(input, config) ==
    Instruction(Given(config, DEPHY_REWARDS_PROGRAM_ADDRESS), InitializeInstruction,
                Default(input, "systemProgram", SYSTEM_PROGRAM_ADDRESS), EncodeInitialize)

\* The defaults of the Async builder, before those of the other one.
GetInitializeInstructionAsync(input, config) ==
    LET program == Given(config, DEPHY_REWARDS_PROGRAM_ADDRESS)
    IN GetInitializeInstruction(
           Default(input, "globalConfig", ProgramDerivedAddress(program, "global_config", <<>>)), config)

ParseInitialize(instruction) == [accounts |-> NamedAccounts(InitializeInstruction, instruction)]

-----------------------------------------------------------------------------
(* instructions/initializeRewardsState.ts *)

INITIALIZE_REWARDS_STATE_DISCRIMINATOR == 185

InitializeRewardsStateInstruction ==
    << WritableAccount("rewardsState"), ReadonlyAccount("authority"), ReadonlyAccount("rewardsVault"),
       ReadonlyAccount("rewardsMint"), WritableAccount("rewardsTokenAccount"), WritableAccount("payer"),
       ReadonlyAccount("rewardsTokenProgram"), ReadonlyAccount("associatedTokenProgram"),
       ReadonlyAccount("systemProgram") >>

EncodeInitializeRewardsState == <<INITIALIZE_REWARDS_STATE_DISCRIMINATOR>>

GetInitializeRewardsStateInstruction(input, config) ==
    Instruction(Given(config, DEPHY_REWARDS_PROGRAM_ADDRESS), InitializeRewardsStateInstruction,
                Default(Default(input, "associatedTokenProgram", ASSOCIATED_TOKEN_PROGRAM_ADDRESS),
                        "systemProgram", SYSTEM_PROGRAM_ADDRESS),
                EncodeInitializeRewardsState)

\* The token account is derived from the vault as it was given or resolved.
GetInitializeRewardsStateInstructionAsync(input, config) ==
    LET program == Given(config, DEPHY_REWARDS_PROGRAM_ADDRESS)
        vaulted == Default(input, "rewardsVault",
                           ProgramDerivedAddress(program, "rewards_vault",
                                                 <<ExpectAddress(input.rewardsState)>>))
    IN GetInitializeRewardsStateInstruction(
           Default(vaulted, "rewardsTokenAccount",
                   ProgramDerivedAddress(ASSOCIATED_TOKEN_PROGRAM_ADDRESS, "",
                                         <<ExpectAddress(vaulted.rewardsVault),
                                           ExpectAddress(vaulted.rewardsTokenProgram),
                                           ExpectAddress(vaulted.rewardsMint)>>)),
           config)

ParseInitializeRewardsState(instruction) ==
    [accounts |-> NamedAccounts(InitializeRewardsStateInstruction, instruction)]

-----------------------------------------------------------------------------
(* instructions/updateMerkleRoot.ts *)

UPDATE_MERKLE_ROOT_DISCRIMINATOR == 195

UpdateMerkleRootInstruction == << WritableAccount("rewardsState"), ReadonlyAccount("authority") >>

EncodeUpdateMerkleRoot(args) == <<UPDATE_MERKLE_ROOT_DISCRIMINATOR>> \o EncodeMerkleRoot(args.merkleRoot)
DecodeUpdateMerkleRoot(data) == [merkleRoot |-> DecodeMerkleRoot(Tail(data))]

GetUpdateMerkleRootInstruction(input, args, config) ==
    Instruction(Given(config, DEPHY_REWARDS_PROGRAM_ADDRESS), UpdateMerkleRootInstruction,
                input, EncodeUpdateMerkleRoot(args))

ParseUpdateMerkleRoot(instruction) ==
    [accounts |-> NamedAccounts(UpdateMerkleRootInstruction, instruction),
     data |-> DecodeUpdateMerkleRoot(instruction.data)]

-----------------------------------------------------------------------------
(* instructions/updateAuthority.ts *)

UPDATE_AUTHORITY_DISCRIMINATOR == 32

UpdateAuthorityInstruction ==
    << ReadonlyAccount("globalConfig"), ReadonlyAccount("authority"), WritableAccount("rewardsState"),
       ReadonlyAccount("newAuthority") >>

EncodeUpdateAuthority == <<UPDATE_AUTHORITY_DISCRIMINATOR>>

GetUpdateAuthorityInstruction(input, config) ==
    Instruction(Given(config, DEPHY_REWARDS_PROGRAM_ADDRESS), UpdateAuthorityInstruction,
                input, EncodeUpdateAuthority)

GetUpdateAuthorityInstructionAsync(input, config) ==
    LET program == Given(config, DEPHY_REWARDS_PROGRAM_ADDRESS)
    IN GetUpdateAuthorityInstruction(
           Default(input, "globalConfig", ProgramDerivedAddress(program, "global_config", <<>>)), config)

ParseUpdateAuthority(instruction) == [accounts |-> NamedAccounts(UpdateAuthorityInstruction, instruction)]

-----------------------------------------------------------------------------
(* instructions/claimRewards.ts *)

CLAIM_REWARDS_DISCRIMINATOR == 4

ClaimRewardsInstruction ==
    << ReadonlyAccount("rewardsState"), ReadonlyAccount("rewardsVault"), ReadonlyAccount("rewardsMint"),
       WritableAccount("rewardsTokenAccount"), ReadonlyAccount("owner"), WritableAccount("claimState"),
       WritableAccount("beneficiaryTokenAccount"), ReadonlyAccount("maybeMerkleRootAccount"),
       WritableAccount("payer"), ReadonlyAccount("rewardsTokenProgram"), ReadonlyAccount("systemProgram") >>

EncodeClaimRewards(args) == <<CLAIM_REWARDS_DISCRIMINATOR, args.index, args.totalRewards, args.proof>>

DecodeClaimRewards(data) == [index |-> data[2], totalRewards |-> data[3], proof |-> data[4]]

GetClaimRewardsInstruction(input, args, config) ==
    Instruction(Given(config, DEPHY_REWARDS_PROGRAM_ADDRESS), ClaimRewardsInstruction,
                Default(input, "systemProgram", SYSTEM_PROGRAM_ADDRESS), EncodeClaimRewards(args))

\* (Mistake: the claim state is derived for the payer.)
DerivesForThePayer(input, args, config) ==
    LET program == Given(config, DEPHY_REWARDS_PROGRAM_ADDRESS)
        state == ExpectAddress(input.rewardsState)
        vaulted == Default(input, "rewardsVault", ProgramDerivedAddress(program, "rewards_vault", <<state>>))
    IN GetClaimRewardsInstruction(
           Default(vaulted, "claimState",
                   ProgramDerivedAddress(program, "claim_state", <<state, ExpectAddress(input.payer)>>)),
           args, config)

GetClaimRewardsInstructionAsync(input, args, config) ==
    LET program == Given(config, DEPHY_REWARDS_PROGRAM_ADDRESS)
        state == ExpectAddress(input.rewardsState)
        vaulted == Default(input, "rewardsVault", ProgramDerivedAddress(program, "rewards_vault", <<state>>))
    IN GetClaimRewardsInstruction(
           Default(vaulted, "claimState",
                   ProgramDerivedAddress(program, "claim_state", <<state, ExpectAddress(input.owner)>>)),
           args, config)

\* An account that is the default program stands for none.
ParseClaimRewards(instruction) ==
    LET named == NamedAccounts(ClaimRewardsInstruction, instruction)
    IN [accounts |-> [named EXCEPT !.maybeMerkleRootAccount =
                         IF @.address = DEPHY_REWARDS_PROGRAM_ADDRESS THEN NoAddress ELSE @.address],
        data |-> DecodeClaimRewards(instruction.data)]

-----------------------------------------------------------------------------
(* programs/dephyRewards.ts and errors/dephyRewards.ts *)

\* identifyDephyRewardsInstruction: "" is the error it throws.
IdentifyInstruction(data) ==
    CASE data[1] = 4 -> "ClaimRewards"
      [] data[1] = 175 -> "Initialize"
      [] data[1] = 185 -> "InitializeRewardsState"
      [] data[1] = 32 -> "UpdateAuthority"
      [] data[1] = 195 -> "UpdateMerkleRoot"
      [] OTHER -> ""

DEPHY_REWARDS_ERROR__INVALID_PROOF == 6001
DEPHY_REWARDS_ERROR__ALREADY_CLAIMED == 6002

IsDephyRewardsError(error, instruction, code) ==
    /\ instruction.programAddress = DEPHY_REWARDS_PROGRAM_ADDRESS
    /\ error = code

=============================================================================
