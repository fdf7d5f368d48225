------------------------ MODULE RewardsAccountsProofs ------------------------
(***************************************************************************)
(* Proofs about RewardsAccounts, for every value of its constants.         *)
(*                                                                         *)
(* The accounts that a caller passes are a sequence, which the client      *)
(* builds by one layout and the program reads by the struct of the         *)
(* instruction. The first part shows that the two agree place by place, so *)
(* that what the program finds is what the client was given or derived.    *)
(* The second is the invariant: which data an account can hold follows     *)
(* from where it is. It makes the effect of every accepted call one of     *)
(* five writes (ConfigMade ... RewardsClaimed), and the rest is proved     *)
(* about these: they keep the invariant, they are the steps of Rewards,    *)
(* and what was sent, and by whom, explains them. That a claim of one     *)
(* entitled is accepted is shown from the first part and the invariant.    *)
(***************************************************************************)
EXTENDS RewardsAccounts, SumsProofs, SequenceTheorems

-----------------------------------------------------------------------------
(* Sequences *)

\* A slice is the sequence that has its length and its elements.
LEMMA SliceIs ==
    ASSUME NEW S, NEW s \in Seq(S), NEW m \in 1..Len(s), NEW n \in m..Len(s), NEW t \in Seq(S),
           Len(t) = n - m + 1, \A i \in 1..(n - m + 1) : t[i] = s[m + i - 1]
    PROVE  SubSeq(s, m, n) = t
<1>1. Len(s) \in Nat /\ m \in Int /\ n \in Int
  BY LenProperties
<1>2. \A i \in m..n : s[i] \in S
  BY <1>1, ElementOfSeq
<1>3. /\ SubSeq(s, m, n) \in Seq(S) /\ Len(SubSeq(s, m, n)) = n - m + 1
      /\ \A i \in 1..(n - m + 1) : SubSeq(s, m, n)[i] = s[m + i - 1]
  BY <1>1, <1>2, SubSeqProperties
<1>4. Len(SubSeq(s, m, n)) = Len(t) /\ \A i \in 1..Len(SubSeq(s, m, n)) : SubSeq(s, m, n)[i] = t[i]
  BY <1>3
<1> QED
  BY <1>3, <1>4, SeqEqual

\* A concatenation is the sequence that has its length and its elements.
LEMMA ConcatenationIs ==
    ASSUME NEW S, NEW s1 \in Seq(S), NEW s2 \in Seq(S), NEW t \in Seq(S),
           Len(t) = Len(s1) + Len(s2),
           \A i \in 1..Len(s1) : t[i] = s1[i],
           \A i \in 1..Len(s2) : t[Len(s1) + i] = s2[i]
    PROVE  s1 \o s2 = t
<1>1. Len(s1) \in Nat /\ Len(s2) \in Nat
  BY LenProperties
<1>2. /\ s1 \o s2 \in Seq(S) /\ Len(s1 \o s2) = Len(t)
      /\ \A i \in 1..Len(t) : (s1 \o s2)[i] = IF i <= Len(s1) THEN s1[i] ELSE s2[i - Len(s1)]
  BY ConcatProperties
<1>3. ASSUME NEW i \in 1..Len(t) PROVE (s1 \o s2)[i] = t[i]
  <2>1. CASE i <= Len(s1)
    BY <1>1, <1>2, <2>1
  <2>2. CASE ~(i <= Len(s1))
    <3>1. i - Len(s1) \in 1..Len(s2) /\ Len(s1) + (i - Len(s1)) = i
      BY <1>1, <2>2
    <3> QED
      BY <1>2, <2>2, <3>1
  <2> QED
    BY <2>1, <2>2
<1> QED
  BY <1>2, <1>3, SeqEqual

\* The fields of the data of a rewards state.
LEMMA FieldsOfState ==
    ASSUME NEW a, NEW b, NEW c, NEW d, NEW x, NEW y, NEW z
    PROVE  /\ SubSeq(<<a, b, c, d, x, y, z>>, 1, 4) = <<a, b, c, d>>
           /\ SubSeq(<<a, b, c, d, x, y, z>>, 5, 7) = <<x, y, z>>
           /\ SubSeq(<<a, b, c, d, x, y, z>>, 7, 7) = <<z>>
           /\ SubSeq(<<a, b, c, d, x, y, z>>, 8, 7) = << >>
<1> DEFINE S == {a, b, c, d, x, y, z}
           s == <<a, b, c, d, x, y, z>>
<1>1. s \in Seq(S) /\ Len(s) = 7
  OBVIOUS
<1>2. SubSeq(s, 1, 4) = <<a, b, c, d>>
  <2> DEFINE t == <<a, b, c, d>>
  <2>1. t \in Seq(S) /\ Len(t) = 4 /\ \A i \in 1..4 : t[i] = s[1 + i - 1]
    OBVIOUS
  <2> HIDE DEF s, S, t
  <2>2. SubSeq(s, 1, 4) = t
    BY <1>1, <2>1, SliceIs
  <2> QED
    BY <2>2 DEF t
<1>3. SubSeq(s, 5, 7) = <<x, y, z>>
  <2> DEFINE t == <<x, y, z>>
  <2>1. t \in Seq(S) /\ Len(t) = 3 /\ \A i \in 1..3 : t[i] = s[5 + i - 1]
    OBVIOUS
  <2> HIDE DEF s, S, t
  <2>2. SubSeq(s, 5, 7) = t
    BY <1>1, <2>1, SliceIs
  <2> QED
    BY <2>2 DEF t
<1>4. SubSeq(s, 7, 7) = <<z>>
  <2> DEFINE t == <<z>>
  <2>1. t \in Seq(S) /\ Len(t) = 1 /\ \A i \in 1..1 : t[i] = s[7 + i - 1]
    OBVIOUS
  <2> HIDE DEF s, S, t
  <2>2. SubSeq(s, 7, 7) = t
    BY <1>1, <2>1, SliceIs
  <2> QED
    BY <2>2 DEF t
<1>5. SubSeq(s, 8, 7) = << >>
  BY SubSeqEmpty
<1> QED
  BY <1>2, <1>3, <1>4, <1>5

\* The concatenations of discriminators, fields and arguments that occur.
LEMMA OneAndTwo ==
    ASSUME NEW a, NEW x, NEW y
    PROVE  <<a>> \o <<x, y>> = <<a, x, y>>
<1> DEFINE S == {a, x, y}
           s1 == <<a>>
           s2 == <<x, y>>
           t == <<a, x, y>>
<1>1. /\ s1 \in Seq(S) /\ s2 \in Seq(S) /\ t \in Seq(S)
      /\ Len(t) = Len(s1) + Len(s2)
      /\ \A i \in 1..Len(s1) : t[i] = s1[i]
      /\ \A i \in 1..Len(s2) : t[Len(s1) + i] = s2[i]
  OBVIOUS
<1> HIDE DEF S, s1, s2, t
<1>2. s1 \o s2 = t
  BY <1>1, ConcatenationIs
<1> QED
  BY <1>2 DEF s1, s2, t

LEMMA OneAndThree ==
    ASSUME NEW a, NEW x, NEW y, NEW z
    PROVE  <<a>> \o <<x, y, z>> = <<a, x, y, z>>
<1> DEFINE S == {a, x, y, z}
           s1 == <<a>>
           s2 == <<x, y, z>>
           t == <<a, x, y, z>>
<1>1. /\ s1 \in Seq(S) /\ s2 \in Seq(S) /\ t \in Seq(S)
      /\ Len(t) = Len(s1) + Len(s2)
      /\ \A i \in 1..Len(s1) : t[i] = s1[i]
      /\ \A i \in 1..Len(s2) : t[Len(s1) + i] = s2[i]
  OBVIOUS
<1> HIDE DEF S, s1, s2, t
<1>2. s1 \o s2 = t
  BY <1>1, ConcatenationIs
<1> QED
  BY <1>2 DEF s1, s2, t

LEMMA FourAndTwo ==
    ASSUME NEW a, NEW b, NEW c, NEW d, NEW x, NEW y
    PROVE  <<a, b, c, d>> \o <<x, y>> = <<a, b, c, d, x, y>>
<1> DEFINE S == {a, b, c, d, x, y}
           s1 == <<a, b, c, d>>
           s2 == <<x, y>>
           t == <<a, b, c, d, x, y>>
<1>1. /\ s1 \in Seq(S) /\ s2 \in Seq(S) /\ t \in Seq(S)
      /\ Len(t) = Len(s1) + Len(s2)
      /\ \A i \in 1..Len(s1) : t[i] = s1[i]
      /\ \A i \in 1..Len(s2) : t[Len(s1) + i] = s2[i]
  OBVIOUS
<1> HIDE DEF S, s1, s2, t
<1>2. s1 \o s2 = t
  BY <1>1, ConcatenationIs
<1> QED
  BY <1>2 DEF s1, s2, t

LEMMA FourAndThree ==
    ASSUME NEW a, NEW b, NEW c, NEW d, NEW x, NEW y, NEW z
    PROVE  <<a, b, c, d>> \o <<x, y, z>> = <<a, b, c, d, x, y, z>>
<1> DEFINE S == {a, b, c, d, x, y, z}
           s1 == <<a, b, c, d>>
           s2 == <<x, y, z>>
           t == <<a, b, c, d, x, y, z>>
<1>1. /\ s1 \in Seq(S) /\ s2 \in Seq(S) /\ t \in Seq(S)
      /\ Len(t) = Len(s1) + Len(s2)
      /\ \A i \in 1..Len(s1) : t[i] = s1[i]
      /\ \A i \in 1..Len(s2) : t[Len(s1) + i] = s2[i]
  OBVIOUS
<1> HIDE DEF S, s1, s2, t
<1>2. s1 \o s2 = t
  BY <1>1, ConcatenationIs
<1> QED
  BY <1>2 DEF s1, s2, t

LEMMA SixAndOne ==
    ASSUME NEW a, NEW b, NEW c, NEW d, NEW x, NEW y, NEW z
    PROVE  <<a, b, c, d, x, y>> \o <<z>> = <<a, b, c, d, x, y, z>>
<1> DEFINE S == {a, b, c, d, x, y, z}
           s1 == <<a, b, c, d, x, y>>
           s2 == <<z>>
           t == <<a, b, c, d, x, y, z>>
<1>1. /\ s1 \in Seq(S) /\ s2 \in Seq(S) /\ t \in Seq(S)
      /\ Len(t) = Len(s1) + Len(s2)
      /\ \A i \in 1..Len(s1) : t[i] = s1[i]
      /\ \A i \in 1..Len(s2) : t[Len(s1) + i] = s2[i]
  OBVIOUS
<1> HIDE DEF S, s1, s2, t
<1>2. s1 \o s2 = t
  BY <1>1, ConcatenationIs
<1> QED
  BY <1>2 DEF s1, s2, t

-----------------------------------------------------------------------------
(* What the client passes and what the program finds *)

\* The names of the accounts of a claim (claimRewards.ts:243-265).
ClaimNames == {"rewardsState", "rewardsVault", "rewardsMint", "rewardsTokenAccount", "owner", "claimState",
    "beneficiaryTokenAccount", "maybeMerkleRootAccount", "payer", "rewardsTokenProgram", "systemProgram"}

\* The address that a builder gives for a value.
AddressGiven(value) == IF value = Null THEN PROGRAM_ID ELSE value.address

\* The program that the client calls when none is given is the one that runs.
LEMMA Programs == /\ Given(NoAddress, DEPHY_REWARDS_PROGRAM_ADDRESS) = PROGRAM_ID
                  /\ DEPHY_REWARDS_PROGRAM_ADDRESS = PROGRAM_ID
BY DEF Given, DEPHY_REWARDS_PROGRAM_ADDRESS, PROGRAM_ID

\* A builder sets a value that is left out, and no other.
LEMMA DefaultIs ==
    ASSUME NEW values, NEW name \in DOMAIN values, NEW address
    PROVE  /\ DOMAIN Default(values, name, address) = DOMAIN values
           /\ Default(values, name, address)[name] =
                 IF values[name] = Null THEN Plain(address) ELSE values[name]
           /\ \A other \in DOMAIN values : other # name => Default(values, name, address)[other] = values[other]
BY DEF Default

\* What a builder puts in the instruction for the account at each place
\* (shared/index.ts:119-149).
LEMMA Built ==
    ASSUME NEW layout, NEW values, NEW data, NEW i \in DOMAIN layout
    PROVE  /\ Instruction(PROGRAM_ID, layout, values, data).accounts[i].address =
                 AddressGiven(values[layout[i].name])
           /\ Instruction(PROGRAM_ID, layout, values, data).accounts[i].isSigner =>
                 values[layout[i].name].signer
           /\ Instruction(PROGRAM_ID, layout, values, data).data = data
BY DEF Instruction, AccountMeta, AddressGiven, ExpectAddress, IsTransactionSigner

\* The entries of the structs.
LEMMA NamesInStructs ==
    ASSUME NEW name
    PROVE  /\ Account(name).name = name /\ ~Account(name).mut /\ ~Account(name).signer
           /\ Mut(name).name = name /\ Mut(name).mut /\ ~Mut(name).signer
           /\ Signer(name).name = name /\ ~Signer(name).mut /\ Signer(name).signer
           /\ MutSigner(name).name = name /\ MutSigner(name).mut /\ MutSigner(name).signer
BY DEF Account, Mut, Signer, MutSigner

\* The names of a struct and of a layout, one for one.
Matches(struct, layout) ==
    /\ DOMAIN struct = DOMAIN layout
    /\ \A i, j \in DOMAIN struct : struct[j].name = struct[i].name => j = i
    /\ \A i, j \in DOMAIN layout : layout[j].name = layout[i].name => j = i

\* What the program finds under a name is what the builder was given for the account
\* of the layout at the place of that name in the struct.
LEMMA FoundByPlace ==
    ASSUME NEW struct, NEW layout, Matches(struct, layout), NEW values, NEW data, NEW i \in DOMAIN struct
    PROVE  Context(struct, Instruction(PROGRAM_ID, layout, values, data))[struct[i].name] =
              AddressGiven(values[layout[i].name])
<1> DEFINE call == Instruction(PROGRAM_ID, layout, values, data)
<1>1. (CHOOSE j \in DOMAIN struct : struct[j].name = struct[i].name) = i
  BY DEF Matches
<1>2. Context(struct, call)[struct[i].name] = call.accounts[i].address
  <2> HIDE DEF call
  <2> QED
    BY <1>1 DEF Context
<1>3. i \in DOMAIN layout
  BY DEF Matches
<1> QED
  BY <1>2, <1>3, Built

\* What a parser reads under the name of the layout at the same place.
LEMMA ReadByPlace ==
    ASSUME NEW struct, NEW layout, Matches(struct, layout), NEW call, NEW i \in DOMAIN struct
    PROVE  NamedAccounts(layout, call)[layout[i].name].address = Context(struct, call)[struct[i].name]
<1>1. i \in DOMAIN layout
  BY DEF Matches
<1>2. /\ (CHOOSE j \in DOMAIN struct : struct[j].name = struct[i].name) = i
      /\ (CHOOSE j \in DOMAIN layout : layout[j].name = layout[i].name) = i
  BY <1>1 DEF Matches
<1>3. Context(struct, call)[struct[i].name] = call.accounts[i].address
  BY <1>2 DEF Context
<1>4. NamedAccounts(layout, call)[layout[i].name] = call.accounts[i]
  BY <1>1, <1>2 DEF NamedAccounts
<1> QED
  BY <1>3, <1>4

\* An account that has to sign does, as a parser reads it.
LEMMA SignedByPlace ==
    ASSUME NEW struct, NEW layout, Matches(struct, layout), NEW call, FlagsAsRequired(struct, call),
           NEW i \in DOMAIN struct, struct[i].signer
    PROVE  NamedAccounts(layout, call)[layout[i].name].isSigner
<1>1. i \in DOMAIN layout
  BY DEF Matches
<1>2. (CHOOSE j \in DOMAIN layout : layout[j].name = layout[i].name) = i
  BY <1>1 DEF Matches
<1>3. NamedAccounts(layout, call)[layout[i].name] = call.accounts[i]
  BY <1>1, <1>2 DEF NamedAccounts
<1>4. call.accounts[i].isSigner
  BY DEF FlagsAsRequired
<1> QED
  BY <1>3, <1>4

\* The struct of each instruction and the layout of its builder agree.
LEMMA InitializeNames ==
    /\ Matches(Initialize, InitializeInstruction) /\ DOMAIN Initialize = 1..4
    /\ Initialize[1].name = "global_config" /\ InitializeInstruction[1].name = "globalConfig"
    /\ Initialize[2].name = "admin" /\ InitializeInstruction[2].name = "admin"
    /\ Initialize[3].name = "payer" /\ InitializeInstruction[3].name = "payer"
    /\ Initialize[4].name = "system_program" /\ InitializeInstruction[4].name = "systemProgram"
<1>1. /\ DOMAIN Initialize = 1..4
      /\ Initialize[1].name = "global_config"
      /\ Initialize[2].name = "admin"
      /\ Initialize[3].name = "payer"
      /\ Initialize[4].name = "system_program"
  BY NamesInStructs DEF Initialize
<1>2. /\ DOMAIN InitializeInstruction = 1..4
      /\ InitializeInstruction[1].name = "globalConfig"
      /\ InitializeInstruction[2].name = "admin"
      /\ InitializeInstruction[3].name = "payer"
      /\ InitializeInstruction[4].name = "systemProgram"
  BY DEF InitializeInstruction, ReadonlyAccount, WritableAccount
<1>3. \A i, j \in 1..4 : Initialize[j].name = Initialize[i].name => j = i
  BY <1>1
<1>4. \A i, j \in 1..4 : InitializeInstruction[j].name = InitializeInstruction[i].name => j = i
  BY <1>2
<1> QED
  BY <1>1, <1>2, <1>3, <1>4 DEF Matches

LEMMA InitializeRewardsStateNames ==
    /\ Matches(InitializeRewardsState, InitializeRewardsStateInstruction) /\ DOMAIN InitializeRewardsState = 1..9
    /\ InitializeRewardsState[1].name = "rewards_state"
    /\ InitializeRewardsStateInstruction[1].name = "rewardsState"
    /\ InitializeRewardsState[2].name = "authority" /\ InitializeRewardsStateInstruction[2].name = "authority"
    /\ InitializeRewardsState[3].name = "rewards_vault"
    /\ InitializeRewardsStateInstruction[3].name = "rewardsVault"
    /\ InitializeRewardsState[4].name = "rewards_mint"
    /\ InitializeRewardsStateInstruction[4].name = "rewardsMint"
    /\ InitializeRewardsState[5].name = "rewards_token_account"
    /\ InitializeRewardsStateInstruction[5].name = "rewardsTokenAccount"
    /\ InitializeRewardsState[6].name = "payer" /\ InitializeRewardsStateInstruction[6].name = "payer"
    /\ InitializeRewardsState[7].name = "rewards_token_program"
    /\ InitializeRewardsStateInstruction[7].name = "rewardsTokenProgram"
    /\ InitializeRewardsState[8].name = "associated_token_program"
    /\ InitializeRewardsStateInstruction[8].name = "associatedTokenProgram"
    /\ InitializeRewardsState[9].name = "system_program"
    /\ InitializeRewardsStateInstruction[9].name = "systemProgram"
<1>1. /\ DOMAIN InitializeRewardsState = 1..9
      /\ InitializeRewardsState[1].name = "rewards_state"
      /\ InitializeRewardsState[2].name = "authority"
      /\ InitializeRewardsState[3].name = "rewards_vault"
      /\ InitializeRewardsState[4].name = "rewards_mint"
      /\ InitializeRewardsState[5].name = "rewards_token_account"
      /\ InitializeRewardsState[6].name = "payer"
      /\ InitializeRewardsState[7].name = "rewards_token_program"
      /\ InitializeRewardsState[8].name = "associated_token_program"
      /\ InitializeRewardsState[9].name = "system_program"
  BY NamesInStructs DEF InitializeRewardsState
<1>2. /\ DOMAIN InitializeRewardsStateInstruction = 1..9
      /\ InitializeRewardsStateInstruction[1].name = "rewardsState"
      /\ InitializeRewardsStateInstruction[2].name = "authority"
      /\ InitializeRewardsStateInstruction[3].name = "rewardsVault"
      /\ InitializeRewardsStateInstruction[4].name = "rewardsMint"
      /\ InitializeRewardsStateInstruction[5].name = "rewardsTokenAccount"
      /\ InitializeRewardsStateInstruction[6].name = "payer"
      /\ InitializeRewardsStateInstruction[7].name = "rewardsTokenProgram"
      /\ InitializeRewardsStateInstruction[8].name = "associatedTokenProgram"
      /\ InitializeRewardsStateInstruction[9].name = "systemProgram"
  BY DEF InitializeRewardsStateInstruction, ReadonlyAccount, WritableAccount
<1>3. \A i, j \in 1..9 : InitializeRewardsState[j].name = InitializeRewardsState[i].name => j = i
  BY <1>1
<1>4. \A i, j \in 1..9 :
         InitializeRewardsStateInstruction[j].name = InitializeRewardsStateInstruction[i].name => j = i
  BY <1>2
<1> QED
  BY <1>1, <1>2, <1>3, <1>4 DEF Matches

LEMMA UpdateMerkleRootNames ==
    /\ Matches(UpdateMerkleRoot, UpdateMerkleRootInstruction) /\ DOMAIN UpdateMerkleRoot = 1..2
    /\ UpdateMerkleRoot[1].name = "rewards_state" /\ UpdateMerkleRootInstruction[1].name = "rewardsState"
    /\ UpdateMerkleRoot[2].name = "authority" /\ UpdateMerkleRootInstruction[2].name = "authority"
<1>1. /\ DOMAIN UpdateMerkleRoot = 1..2
      /\ UpdateMerkleRoot[1].name = "rewards_state"
      /\ UpdateMerkleRoot[2].name = "authority"
  BY NamesInStructs DEF UpdateMerkleRoot
<1>2. /\ DOMAIN UpdateMerkleRootInstruction = 1..2
      /\ UpdateMerkleRootInstruction[1].name = "rewardsState"
      /\ UpdateMerkleRootInstruction[2].name = "authority"
  BY DEF UpdateMerkleRootInstruction, ReadonlyAccount, WritableAccount
<1>3. \A i, j \in 1..2 : UpdateMerkleRoot[j].name = UpdateMerkleRoot[i].name => j = i
  BY <1>1
<1>4. \A i, j \in 1..2 : UpdateMerkleRootInstruction[j].name = UpdateMerkleRootInstruction[i].name => j = i
  BY <1>2
<1> QED
  BY <1>1, <1>2, <1>3, <1>4 DEF Matches

LEMMA UpdateAuthorityNames ==
    /\ Matches(UpdateAuthority, UpdateAuthorityInstruction) /\ DOMAIN UpdateAuthority = 1..4
    /\ UpdateAuthority[1].name = "global_config" /\ UpdateAuthorityInstruction[1].name = "globalConfig"
    /\ UpdateAuthority[2].name = "authority" /\ UpdateAuthorityInstruction[2].name = "authority"
    /\ UpdateAuthority[3].name = "rewards_state" /\ UpdateAuthorityInstruction[3].name = "rewardsState"
    /\ UpdateAuthority[4].name = "new_authority" /\ UpdateAuthorityInstruction[4].name = "newAuthority"
<1>1. /\ DOMAIN UpdateAuthority = 1..4
      /\ UpdateAuthority[1].name = "global_config"
      /\ UpdateAuthority[2].name = "authority"
      /\ UpdateAuthority[3].name = "rewards_state"
      /\ UpdateAuthority[4].name = "new_authority"
  BY NamesInStructs DEF UpdateAuthority
<1>2. /\ DOMAIN UpdateAuthorityInstruction = 1..4
      /\ UpdateAuthorityInstruction[1].name = "globalConfig"
      /\ UpdateAuthorityInstruction[2].name = "authority"
      /\ UpdateAuthorityInstruction[3].name = "rewardsState"
      /\ UpdateAuthorityInstruction[4].name = "newAuthority"
  BY DEF UpdateAuthorityInstruction, ReadonlyAccount, WritableAccount
<1>3. \A i, j \in 1..4 : UpdateAuthority[j].name = UpdateAuthority[i].name => j = i
  BY <1>1
<1>4. \A i, j \in 1..4 : UpdateAuthorityInstruction[j].name = UpdateAuthorityInstruction[i].name => j = i
  BY <1>2
<1> QED
  BY <1>1, <1>2, <1>3, <1>4 DEF Matches

LEMMA ClaimRewardsNames ==
    /\ Matches(ClaimRewards, ClaimRewardsInstruction) /\ DOMAIN ClaimRewards = 1..11
    /\ ClaimRewards[1].name = "rewards_state" /\ ClaimRewardsInstruction[1].name = "rewardsState"
    /\ ClaimRewards[2].name = "rewards_vault" /\ ClaimRewardsInstruction[2].name = "rewardsVault"
    /\ ClaimRewards[3].name = "rewards_mint" /\ ClaimRewardsInstruction[3].name = "rewardsMint"
    /\ ClaimRewards[4].name = "rewards_token_account" /\ ClaimRewardsInstruction[4].name = "rewardsTokenAccount"
    /\ ClaimRewards[5].name = "owner" /\ ClaimRewardsInstruction[5].name = "owner"
    /\ ClaimRewards[6].name = "claim_state" /\ ClaimRewardsInstruction[6].name = "claimState"
    /\ ClaimRewards[7].name = "beneficiary_token_account"
    /\ ClaimRewardsInstruction[7].name = "beneficiaryTokenAccount"
    /\ ClaimRewards[8].name = "maybe_merkle_root_account"
    /\ ClaimRewardsInstruction[8].name = "maybeMerkleRootAccount"
    /\ ClaimRewards[9].name = "payer" /\ ClaimRewardsInstruction[9].name = "payer"
    /\ ClaimRewards[10].name = "rewards_token_program"
    /\ ClaimRewardsInstruction[10].name = "rewardsTokenProgram"
    /\ ClaimRewards[11].name = "system_program" /\ ClaimRewardsInstruction[11].name = "systemProgram"
<1>1. /\ DOMAIN ClaimRewards = 1..11
      /\ ClaimRewards[1].name = "rewards_state"
      /\ ClaimRewards[2].name = "rewards_vault"
      /\ ClaimRewards[3].name = "rewards_mint"
      /\ ClaimRewards[4].name = "rewards_token_account"
      /\ ClaimRewards[5].name = "owner"
      /\ ClaimRewards[6].name = "claim_state"
      /\ ClaimRewards[7].name = "beneficiary_token_account"
      /\ ClaimRewards[8].name = "maybe_merkle_root_account"
      /\ ClaimRewards[9].name = "payer"
      /\ ClaimRewards[10].name = "rewards_token_program"
      /\ ClaimRewards[11].name = "system_program"
  BY NamesInStructs DEF ClaimRewards
<1>2. /\ DOMAIN ClaimRewardsInstruction = 1..11
      /\ ClaimRewardsInstruction[1].name = "rewardsState"
      /\ ClaimRewardsInstruction[2].name = "rewardsVault"
      /\ ClaimRewardsInstruction[3].name = "rewardsMint"
      /\ ClaimRewardsInstruction[4].name = "rewardsTokenAccount"
      /\ ClaimRewardsInstruction[5].name = "owner"
      /\ ClaimRewardsInstruction[6].name = "claimState"
      /\ ClaimRewardsInstruction[7].name = "beneficiaryTokenAccount"
      /\ ClaimRewardsInstruction[8].name = "maybeMerkleRootAccount"
      /\ ClaimRewardsInstruction[9].name = "payer"
      /\ ClaimRewardsInstruction[10].name = "rewardsTokenProgram"
      /\ ClaimRewardsInstruction[11].name = "systemProgram"
  BY DEF ClaimRewardsInstruction, ReadonlyAccount, WritableAccount
<1>3. \A i, j \in 1..11 : ClaimRewards[j].name = ClaimRewards[i].name => j = i
  BY <1>1
<1>4. \A i, j \in 1..11 : ClaimRewardsInstruction[j].name = ClaimRewardsInstruction[i].name => j = i
  BY <1>2
<1> QED
  BY <1>1, <1>2, <1>3, <1>4, SMTT(30) DEF Matches

\* The program finds the accounts where the client puts them.
LEMMA InitializeContext ==
    ASSUME NEW values, NEW data
    PROVE  LET ctx == Context(Initialize, Instruction(PROGRAM_ID, InitializeInstruction, values, data))
           IN  /\ ctx.global_config = AddressGiven(values["globalConfig"])
               /\ ctx.admin = AddressGiven(values["admin"])
               /\ ctx.payer = AddressGiven(values["payer"])
               /\ ctx.system_program = AddressGiven(values["systemProgram"])
<1> DEFINE ctx == Context(Initialize, Instruction(PROGRAM_ID, InitializeInstruction, values, data))
<1>1. \A i \in 1..4 : ctx[Initialize[i].name] = AddressGiven(values[InitializeInstruction[i].name])
  BY InitializeNames, FoundByPlace
<1> HIDE DEF ctx
<1>2. /\ ctx["global_config"] = AddressGiven(values["globalConfig"])
      /\ ctx["admin"] = AddressGiven(values["admin"])
      /\ ctx["payer"] = AddressGiven(values["payer"])
      /\ ctx["system_program"] = AddressGiven(values["systemProgram"])
  BY <1>1, InitializeNames
<1> QED
  BY <1>2 DEF ctx

LEMMA InitializeRewardsStateContext ==
    ASSUME NEW values, NEW data
    PROVE  LET ctx == Context(InitializeRewardsState,
                              Instruction(PROGRAM_ID, InitializeRewardsStateInstruction, values, data))
           IN  /\ ctx.rewards_state = AddressGiven(values["rewardsState"])
               /\ ctx.authority = AddressGiven(values["authority"])
               /\ ctx.rewards_vault = AddressGiven(values["rewardsVault"])
               /\ ctx.rewards_mint = AddressGiven(values["rewardsMint"])
               /\ ctx.rewards_token_account = AddressGiven(values["rewardsTokenAccount"])
               /\ ctx.payer = AddressGiven(values["payer"])
               /\ ctx.rewards_token_program = AddressGiven(values["rewardsTokenProgram"])
               /\ ctx.associated_token_program = AddressGiven(values["associatedTokenProgram"])
               /\ ctx.system_program = AddressGiven(values["systemProgram"])
<1> DEFINE ctx == Context(InitializeRewardsState,
                          Instruction(PROGRAM_ID, InitializeRewardsStateInstruction, values, data))
<1>1. \A i \in 1..9 :
         ctx[InitializeRewardsState[i].name] = AddressGiven(values[InitializeRewardsStateInstruction[i].name])
  BY InitializeRewardsStateNames, FoundByPlace
<1> HIDE DEF ctx
<1>2. /\ ctx["rewards_state"] = AddressGiven(values["rewardsState"])
      /\ ctx["authority"] = AddressGiven(values["authority"])
      /\ ctx["rewards_vault"] = AddressGiven(values["rewardsVault"])
      /\ ctx["rewards_mint"] = AddressGiven(values["rewardsMint"])
      /\ ctx["rewards_token_account"] = AddressGiven(values["rewardsTokenAccount"])
      /\ ctx["payer"] = AddressGiven(values["payer"])
      /\ ctx["rewards_token_program"] = AddressGiven(values["rewardsTokenProgram"])
      /\ ctx["associated_token_program"] = AddressGiven(values["associatedTokenProgram"])
      /\ ctx["system_program"] = AddressGiven(values["systemProgram"])
  BY <1>1, InitializeRewardsStateNames
<1> QED
  BY <1>2 DEF ctx

LEMMA UpdateMerkleRootContext ==
    ASSUME NEW values, NEW data
    PROVE  LET ctx == Context(UpdateMerkleRoot, Instruction(PROGRAM_ID, UpdateMerkleRootInstruction, values, data))
           IN  /\ ctx.rewards_state = AddressGiven(values["rewardsState"])
               /\ ctx.authority = AddressGiven(values["authority"])
<1> DEFINE ctx == Context(UpdateMerkleRoot, Instruction(PROGRAM_ID, UpdateMerkleRootInstruction, values, data))
<1>1. \A i \in 1..2 : ctx[UpdateMerkleRoot[i].name] = AddressGiven(values[UpdateMerkleRootInstruction[i].name])
  BY UpdateMerkleRootNames, FoundByPlace
<1> HIDE DEF ctx
<1>2. /\ ctx["rewards_state"] = AddressGiven(values["rewardsState"])
      /\ ctx["authority"] = AddressGiven(values["authority"])
  BY <1>1, UpdateMerkleRootNames
<1> QED
  BY <1>2 DEF ctx

LEMMA UpdateAuthorityContext ==
    ASSUME NEW values, NEW data
    PROVE  LET ctx == Context(UpdateAuthority, Instruction(PROGRAM_ID, UpdateAuthorityInstruction, values, data))
           IN  /\ ctx.global_config = AddressGiven(values["globalConfig"])
               /\ ctx.authority = AddressGiven(values["authority"])
               /\ ctx.rewards_state = AddressGiven(values["rewardsState"])
               /\ ctx.new_authority = AddressGiven(values["newAuthority"])
<1> DEFINE ctx == Context(UpdateAuthority, Instruction(PROGRAM_ID, UpdateAuthorityInstruction, values, data))
<1>1. \A i \in 1..4 : ctx[UpdateAuthority[i].name] = AddressGiven(values[UpdateAuthorityInstruction[i].name])
  BY UpdateAuthorityNames, FoundByPlace
<1> HIDE DEF ctx
<1>2. /\ ctx["global_config"] = AddressGiven(values["globalConfig"])
      /\ ctx["authority"] = AddressGiven(values["authority"])
      /\ ctx["rewards_state"] = AddressGiven(values["rewardsState"])
      /\ ctx["new_authority"] = AddressGiven(values["newAuthority"])
  BY <1>1, UpdateAuthorityNames
<1> QED
  BY <1>2 DEF ctx

LEMMA ClaimRewardsContext ==
    ASSUME NEW values, NEW data
    PROVE  LET ctx == Context(ClaimRewards, Instruction(PROGRAM_ID, ClaimRewardsInstruction, values, data))
           IN  /\ ctx.rewards_state = AddressGiven(values["rewardsState"])
               /\ ctx.rewards_vault = AddressGiven(values["rewardsVault"])
               /\ ctx.rewards_mint = AddressGiven(values["rewardsMint"])
               /\ ctx.rewards_token_account = AddressGiven(values["rewardsTokenAccount"])
               /\ ctx.owner = AddressGiven(values["owner"])
               /\ ctx.claim_state = AddressGiven(values["claimState"])
               /\ ctx.beneficiary_token_account = AddressGiven(values["beneficiaryTokenAccount"])
               /\ ctx.maybe_merkle_root_account = AddressGiven(values["maybeMerkleRootAccount"])
               /\ ctx.payer = AddressGiven(values["payer"])
               /\ ctx.rewards_token_program = AddressGiven(values["rewardsTokenProgram"])
               /\ ctx.system_program = AddressGiven(values["systemProgram"])
<1> DEFINE ctx == Context(ClaimRewards, Instruction(PROGRAM_ID, ClaimRewardsInstruction, values, data))
<1>1. \A i \in 1..11 : ctx[ClaimRewards[i].name] = AddressGiven(values[ClaimRewardsInstruction[i].name])
  BY ClaimRewardsNames, FoundByPlace
<1> HIDE DEF ctx
<1>2. /\ ctx["rewards_state"] = AddressGiven(values["rewardsState"])
      /\ ctx["rewards_vault"] = AddressGiven(values["rewardsVault"])
      /\ ctx["rewards_mint"] = AddressGiven(values["rewardsMint"])
      /\ ctx["rewards_token_account"] = AddressGiven(values["rewardsTokenAccount"])
      /\ ctx["owner"] = AddressGiven(values["owner"])
      /\ ctx["claim_state"] = AddressGiven(values["claimState"])
      /\ ctx["beneficiary_token_account"] = AddressGiven(values["beneficiaryTokenAccount"])
      /\ ctx["maybe_merkle_root_account"] = AddressGiven(values["maybeMerkleRootAccount"])
      /\ ctx["payer"] = AddressGiven(values["payer"])
      /\ ctx["rewards_token_program"] = AddressGiven(values["rewardsTokenProgram"])
      /\ ctx["system_program"] = AddressGiven(values["systemProgram"])
  BY <1>1, ClaimRewardsNames
<1> QED
  BY <1>2 DEF ctx

\* A parser reads the accounts that the program finds.
LEMMA InitializeRead ==
    ASSUME NEW call
    PROVE  LET ctx == Context(Initialize, call)
               named == NamedAccounts(InitializeInstruction, call)
           IN  /\ named.globalConfig.address = ctx.global_config
               /\ named.admin.address = ctx.admin
<1> DEFINE ctx == Context(Initialize, call)
           named == NamedAccounts(InitializeInstruction, call)
<1>1. \A i \in 1..4 : named[InitializeInstruction[i].name].address = ctx[Initialize[i].name]
  BY InitializeNames, ReadByPlace
<1> HIDE DEF ctx, named
<1>2. /\ named["globalConfig"].address = ctx["global_config"]
      /\ named["admin"].address = ctx["admin"]
  BY <1>1, InitializeNames
<1> QED
  BY <1>2 DEF ctx, named

LEMMA InitializeRewardsStateRead ==
    ASSUME NEW call
    PROVE  LET ctx == Context(InitializeRewardsState, call)
               named == NamedAccounts(InitializeRewardsStateInstruction, call)
           IN  /\ named.rewardsState.address = ctx.rewards_state
               /\ named.authority.address = ctx.authority
               /\ named.rewardsVault.address = ctx.rewards_vault
               /\ named.rewardsMint.address = ctx.rewards_mint
               /\ named.rewardsTokenAccount.address = ctx.rewards_token_account
<1> DEFINE ctx == Context(InitializeRewardsState, call)
           named == NamedAccounts(InitializeRewardsStateInstruction, call)
<1>1. \A i \in 1..9 : named[InitializeRewardsStateInstruction[i].name].address = ctx[InitializeRewardsState[i].name]
  BY InitializeRewardsStateNames, ReadByPlace
<1> HIDE DEF ctx, named
<1>2. /\ named["rewardsState"].address = ctx["rewards_state"]
      /\ named["authority"].address = ctx["authority"]
      /\ named["rewardsVault"].address = ctx["rewards_vault"]
      /\ named["rewardsMint"].address = ctx["rewards_mint"]
      /\ named["rewardsTokenAccount"].address = ctx["rewards_token_account"]
  BY <1>1, InitializeRewardsStateNames
<1> QED
  BY <1>2 DEF ctx, named

LEMMA UpdateMerkleRootRead ==
    ASSUME NEW call
    PROVE  LET ctx == Context(UpdateMerkleRoot, call)
               named == NamedAccounts(UpdateMerkleRootInstruction, call)
           IN  /\ named.rewardsState.address = ctx.rewards_state
               /\ named.authority.address = ctx.authority
<1> DEFINE ctx == Context(UpdateMerkleRoot, call)
           named == NamedAccounts(UpdateMerkleRootInstruction, call)
<1>1. \A i \in 1..2 : named[UpdateMerkleRootInstruction[i].name].address = ctx[UpdateMerkleRoot[i].name]
  BY UpdateMerkleRootNames, ReadByPlace
<1> HIDE DEF ctx, named
<1>2. /\ named["rewardsState"].address = ctx["rewards_state"]
      /\ named["authority"].address = ctx["authority"]
  BY <1>1, UpdateMerkleRootNames
<1> QED
  BY <1>2 DEF ctx, named

LEMMA UpdateAuthorityRead ==
    ASSUME NEW call
    PROVE  LET ctx == Context(UpdateAuthority, call)
               named == NamedAccounts(UpdateAuthorityInstruction, call)
           IN  /\ named.authority.address = ctx.authority
               /\ named.rewardsState.address = ctx.rewards_state
               /\ named.newAuthority.address = ctx.new_authority
<1> DEFINE ctx == Context(UpdateAuthority, call)
           named == NamedAccounts(UpdateAuthorityInstruction, call)
<1>1. \A i \in 1..4 : named[UpdateAuthorityInstruction[i].name].address = ctx[UpdateAuthority[i].name]
  BY UpdateAuthorityNames, ReadByPlace
<1> HIDE DEF ctx, named
<1>2. /\ named["authority"].address = ctx["authority"]
      /\ named["rewardsState"].address = ctx["rewards_state"]
      /\ named["newAuthority"].address = ctx["new_authority"]
  BY <1>1, UpdateAuthorityNames
<1> QED
  BY <1>2 DEF ctx, named

LEMMA ClaimRewardsRead ==
    ASSUME NEW call
    PROVE  LET ctx == Context(ClaimRewards, call)
               named == NamedAccounts(ClaimRewardsInstruction, call)
           IN  /\ named.rewardsState.address = ctx.rewards_state
               /\ named.owner.address = ctx.owner
               /\ named.claimState.address = ctx.claim_state
               /\ named.maybeMerkleRootAccount.address = ctx.maybe_merkle_root_account
<1> DEFINE ctx == Context(ClaimRewards, call)
           named == NamedAccounts(ClaimRewardsInstruction, call)
<1>1. \A i \in 1..11 : named[ClaimRewardsInstruction[i].name].address = ctx[ClaimRewards[i].name]
  BY ClaimRewardsNames, ReadByPlace
<1> HIDE DEF ctx, named
<1>2. /\ named["rewardsState"].address = ctx["rewards_state"]
      /\ named["owner"].address = ctx["owner"]
      /\ named["claimState"].address = ctx["claim_state"]
      /\ named["maybeMerkleRootAccount"].address = ctx["maybe_merkle_root_account"]
  BY <1>1, ClaimRewardsNames
<1> QED
  BY <1>2 DEF ctx, named

\* A parser reads the signature of whom the program requires to sign (lib.rs:107-195).
LEMMA Signed ==
    ASSUME NEW call
    PROVE  /\ FlagsAsRequired(Initialize, call) =>
                 NamedAccounts(InitializeInstruction, call).admin.isSigner
           /\ FlagsAsRequired(InitializeRewardsState, call) =>
                 /\ NamedAccounts(InitializeRewardsStateInstruction, call).rewardsState.isSigner
                 /\ NamedAccounts(InitializeRewardsStateInstruction, call).authority.isSigner
           /\ FlagsAsRequired(UpdateMerkleRoot, call) =>
                 NamedAccounts(UpdateMerkleRootInstruction, call).authority.isSigner
           /\ FlagsAsRequired(UpdateAuthority, call) =>
                 NamedAccounts(UpdateAuthorityInstruction, call).authority.isSigner
           /\ FlagsAsRequired(ClaimRewards, call) =>
                 NamedAccounts(ClaimRewardsInstruction, call).owner.isSigner
<1>1. ASSUME FlagsAsRequired(Initialize, call)
      PROVE  NamedAccounts(InitializeInstruction, call).admin.isSigner
  <2>1. Initialize[2].signer
    BY NamesInStructs DEF Initialize
  <2> QED
    BY <1>1, <2>1, InitializeNames, SignedByPlace
<1>2. ASSUME FlagsAsRequired(InitializeRewardsState, call)
      PROVE  /\ NamedAccounts(InitializeRewardsStateInstruction, call).rewardsState.isSigner
             /\ NamedAccounts(InitializeRewardsStateInstruction, call).authority.isSigner
  <2>1. InitializeRewardsState[1].signer /\ InitializeRewardsState[2].signer
    BY NamesInStructs DEF InitializeRewardsState
  <2>2. /\ Matches(InitializeRewardsState, InitializeRewardsStateInstruction)
        /\ 1 \in DOMAIN InitializeRewardsState /\ 2 \in DOMAIN InitializeRewardsState
        /\ InitializeRewardsStateInstruction[1].name = "rewardsState"
        /\ InitializeRewardsStateInstruction[2].name = "authority"
    BY InitializeRewardsStateNames
  <2> QED
    BY <1>2, <2>1, <2>2, SignedByPlace
<1>3. ASSUME FlagsAsRequired(UpdateMerkleRoot, call)
      PROVE  NamedAccounts(UpdateMerkleRootInstruction, call).authority.isSigner
  <2>1. UpdateMerkleRoot[2].signer
    BY NamesInStructs DEF UpdateMerkleRoot
  <2> QED
    BY <1>3, <2>1, UpdateMerkleRootNames, SignedByPlace
<1>4. ASSUME FlagsAsRequired(UpdateAuthority, call)
      PROVE  NamedAccounts(UpdateAuthorityInstruction, call).authority.isSigner
  <2>1. UpdateAuthority[2].signer
    BY NamesInStructs DEF UpdateAuthority
  <2> QED
    BY <1>4, <2>1, UpdateAuthorityNames, SignedByPlace
<1>5. ASSUME FlagsAsRequired(ClaimRewards, call)
      PROVE  NamedAccounts(ClaimRewardsInstruction, call).owner.isSigner
  <2>1. ClaimRewards[5].signer
    BY NamesInStructs DEF ClaimRewards
  <2>2. /\ Matches(ClaimRewards, ClaimRewardsInstruction) /\ 5 \in DOMAIN ClaimRewards
        /\ ClaimRewardsInstruction[5].name = "owner"
    BY ClaimRewardsNames
  <2> QED
    BY <1>5, <2>1, <2>2, SignedByPlace
<1> QED
  BY <1>1, <1>2, <1>3, <1>4, <1>5

\* What a claimer calls the program with.
Resolved(input) ==
    Default(Default(Default(input, "rewardsVault", Pda("rewards_vault", <<input.rewardsState.address>>)),
                    "claimState", Pda("claim_state", <<input.rewardsState.address, input.owner.address>>)),
            "systemProgram", SYSTEM_PROGRAM_ADDRESS)

\* The instruction of a claim is built from the values so resolved.
LEMMA ClaimRewardsBuilt ==
    ASSUME NEW input, NEW args
    PROVE  GetClaimRewardsInstructionAsync(input, args, NoAddress) =
              Instruction(PROGRAM_ID, ClaimRewardsInstruction, Resolved(input),
                          <<4, args.index, args.totalRewards, args.proof>>)
BY Programs DEF GetClaimRewardsInstructionAsync, GetClaimRewardsInstruction, Resolved, ExpectAddress, Pda,
     EncodeClaimRewards, CLAIM_REWARDS_DISCRIMINATOR

\* What is given is kept, and what is left out is derived (claimRewards.ts:274-305).
LEMMA ResolvedIs ==
    ASSUME NEW input, DOMAIN input = ClaimNames
    PROVE  /\ \A name \in ClaimNames \ {"rewardsVault", "claimState", "systemProgram"} :
                 Resolved(input)[name] = input[name]
           /\ Resolved(input)["rewardsVault"] =
                 IF input.rewardsVault = Null THEN Plain(Pda("rewards_vault", <<input.rewardsState.address>>))
                                              ELSE input.rewardsVault
           /\ Resolved(input)["claimState"] =
                 IF input.claimState = Null
                 THEN Plain(Pda("claim_state", <<input.rewardsState.address, input.owner.address>>))
                 ELSE input.claimState
           /\ Resolved(input)["systemProgram"] =
                 IF input.systemProgram = Null THEN Plain(SYSTEM_PROGRAM_ADDRESS) ELSE input.systemProgram
<1> DEFINE vault == Pda("rewards_vault", <<input.rewardsState.address>>)
           claim == Pda("claim_state", <<input.rewardsState.address, input.owner.address>>)
           one == Default(input, "rewardsVault", vault)
           two == Default(one, "claimState", claim)
           three == Default(two, "systemProgram", SYSTEM_PROGRAM_ADDRESS)
<1>1. Resolved(input) = three
  BY DEF Resolved
<1> HIDE DEF vault, claim
<1>2. /\ DOMAIN one = ClaimNames
      /\ one["rewardsVault"] = IF input["rewardsVault"] = Null THEN Plain(vault) ELSE input["rewardsVault"]
      /\ \A name \in ClaimNames \ {"rewardsVault"} : one[name] = input[name]
  BY DefaultIs DEF ClaimNames
<1> HIDE DEF one
<1>3. /\ DOMAIN two = ClaimNames
      /\ two["claimState"] = IF one["claimState"] = Null THEN Plain(claim) ELSE one["claimState"]
      /\ \A name \in ClaimNames \ {"claimState"} : two[name] = one[name]
  BY <1>2, DefaultIs, SMTT(30) DEF ClaimNames
<1> HIDE DEF two
<1>4. /\ three["systemProgram"] =
            IF two["systemProgram"] = Null THEN Plain(SYSTEM_PROGRAM_ADDRESS) ELSE two["systemProgram"]
      /\ \A name \in ClaimNames \ {"systemProgram"} : three[name] = two[name]
  BY <1>3, DefaultIs, SMTT(30) DEF ClaimNames
<1> HIDE DEF three
<1> QED
  BY <1>1, <1>2, <1>3, <1>4 DEF ClaimNames, vault, claim

\* At most one account is mixed up, and only one of those that may be.
LEMMA MixedUp ==
    ASSUME NEW base, NEW others, NEW input \in AtMostOneMixedUp(base, others)
    PROVE  /\ DOMAIN input = DOMAIN base
           /\ \A name \in DOMAIN base \ DOMAIN others : input[name] = base[name]
BY DEF AtMostOneMixedUp

\* Whatever a claimer mixes up, the state, the owner, the beneficiary and the account of
\* the root are what it meant.
LEMMA ClaimInputs ==
    ASSUME NEW input \in ClaimRewardsAsyncInput
    PROVE  \E state \in StateKeys, owner \in Users :
              \E beneficiary \in {WalletOf(owner)} \cup TokenAccounts, rootAccount \in {Null, Plain(RootAccount)} :
                 /\ DOMAIN input = ClaimNames
                 /\ input["rewardsState"] = Plain(state)
                 /\ input["owner"] = TransactionSigner(owner)
                 /\ input["beneficiaryTokenAccount"] = Plain(beneficiary)
                 /\ input["maybeMerkleRootAccount"] = rootAccount
<1>1. PICK state \in StateKeys, owner \in Users :
         \E beneficiary \in {WalletOf(owner)} \cup TokenAccounts, rootAccount \in {Null, Plain(RootAccount)} :
           input \in AtMostOneMixedUp(ClaimRewardsInput(state, owner, beneficiary, rootAccount),
                            [rewardsVault |-> Vaults, rewardsTokenAccount |-> TokenAccounts,
                             claimState |-> ClaimStates])
  BY DEF ClaimRewardsAsyncInput
<1>2. PICK beneficiary \in {WalletOf(owner)} \cup TokenAccounts, rootAccount \in {Null, Plain(RootAccount)} :
           input \in AtMostOneMixedUp(ClaimRewardsInput(state, owner, beneficiary, rootAccount),
                            [rewardsVault |-> Vaults, rewardsTokenAccount |-> TokenAccounts,
                             claimState |-> ClaimStates])
  BY <1>1
<1> DEFINE base == ClaimRewardsInput(state, owner, beneficiary, rootAccount)
           others == [rewardsVault |-> Vaults, rewardsTokenAccount |-> TokenAccounts, claimState |-> ClaimStates]
<1>3. DOMAIN base = ClaimNames /\ DOMAIN others = {"rewardsVault", "rewardsTokenAccount", "claimState"}
  BY DEF ClaimRewardsInput, ClaimNames
<1>4. /\ base["rewardsState"] = Plain(state)
      /\ base["owner"] = TransactionSigner(owner)
      /\ base["beneficiaryTokenAccount"] = Plain(beneficiary)
      /\ base["maybeMerkleRootAccount"] = rootAccount
  BY DEF ClaimRewardsInput
<1> HIDE DEF base, others
<1>5. DOMAIN input = DOMAIN base /\ \A name \in DOMAIN base \ DOMAIN others : input[name] = base[name]
  BY <1>2, MixedUp DEF base, others
<1>6. input["rewardsState"] = base["rewardsState"] /\ input["owner"] = base["owner"]
      /\ input["beneficiaryTokenAccount"] = base["beneficiaryTokenAccount"]
      /\ input["maybeMerkleRootAccount"] = base["maybeMerkleRootAccount"]
  BY <1>3, <1>5 DEF ClaimNames
<1> QED
  BY <1>2, <1>3, <1>4, <1>5, <1>6

\* One of the users pays for everything.
LEMMA PayerIs == \E user \in Users : Payer = TransactionSigner(user)
BY AccountsAssumption DEF Payer

\* A key that is given is what the program gets.
LEMMA KeysGiven ==
    /\ \A state \in StateKeys : AddressGiven(Plain(state)) = state
    /\ \A user \in Users : AddressGiven(Plain(user)) = user /\ AddressGiven(TransactionSigner(user)) = user
    /\ \A key \in StateKeys : AddressGiven(TransactionSigner(key)) = key
BY AccountsAssumption DEF AddressGiven, Plain, TransactionSigner, Null

\* An administrator is a user who signs.
LEMMA InitializeCall ==
    ASSUME NEW call \in InitializeCalls
    PROVE  Context(Initialize, call).admin \in Users
<1>1. PICK input \in InitializeAsyncInput : call = GetInitializeInstructionAsync(input, NoAddress)
  BY DEF InitializeCalls
<1> DEFINE one == Default(input, "globalConfig", Pda("global_config", << >>))
           two == Default(one, "systemProgram", SYSTEM_PROGRAM_ADDRESS)
           base == [globalConfig |-> Null, admin |-> Payer, payer |-> Payer, systemProgram |-> Null]
           others == [globalConfig |-> {Pda("global_config", << >>), VaultOf(Mint)}]
<1>2. call = Instruction(PROGRAM_ID, InitializeInstruction, two, EncodeInitialize)
  BY <1>1, Programs DEF GetInitializeInstructionAsync, GetInitializeInstruction, Pda
<1>3. input \in AtMostOneMixedUp(base, others)
  BY DEF InitializeAsyncInput
<1>4. /\ DOMAIN base = {"globalConfig", "admin", "payer", "systemProgram"} /\ DOMAIN others = {"globalConfig"}
      /\ base["admin"] = Payer
  OBVIOUS
<1> HIDE DEF base, others
<1>5. DOMAIN input = {"globalConfig", "admin", "payer", "systemProgram"} /\ input["admin"] = Payer
  BY <1>3, <1>4, MixedUp
<1>6. two["admin"] = Payer
  BY <1>5, DefaultIs
<1> HIDE DEF two
<1>7. Context(Initialize, call).admin = AddressGiven(Payer)
  BY <1>2, <1>6, InitializeContext
<1> QED
  BY <1>7, PayerIs, KeysGiven

\* A rewards state is made at a key that signs, for an authority that signs.
LEMMA InitializeRewardsStateCall ==
    ASSUME NEW call \in InitializeRewardsStateCalls
    PROVE  /\ Context(InitializeRewardsState, call).rewards_state \in StateKeys
           /\ Context(InitializeRewardsState, call).authority \in Users
<1> DEFINE program == PROGRAM_ID
           base(state, authority) ==
            [rewardsState |-> TransactionSigner(state), authority |-> authority, rewardsVault |-> Null,
             rewardsMint |-> Plain(Mint), rewardsTokenAccount |-> Null, payer |-> Payer,
             rewardsTokenProgram |-> Plain(TokenProgram), associatedTokenProgram |-> Null,
             systemProgram |-> Null]
           others == [rewardsVault |-> Vaults, rewardsTokenAccount |-> TokenAccounts]
           names == {"rewardsState", "authority", "rewardsVault", "rewardsMint", "rewardsTokenAccount",
                     "payer", "rewardsTokenProgram", "associatedTokenProgram", "systemProgram"}
<1>1. PICK input \in InitializeRewardsStateAsyncInput :
         call = GetInitializeRewardsStateInstructionAsync(input, NoAddress)
  BY DEF InitializeRewardsStateCalls
<1>2. PICK state \in StateKeys, authority \in Signing : input \in AtMostOneMixedUp(base(state, authority), others)
  BY SMTT(30) DEF InitializeRewardsStateAsyncInput
<1>3. /\ DOMAIN base(state, authority) = names /\ DOMAIN others = {"rewardsVault", "rewardsTokenAccount"}
      /\ base(state, authority)["rewardsState"] = TransactionSigner(state)
      /\ base(state, authority)["authority"] = authority
  OBVIOUS
<1> HIDE DEF base, others
<1>4. /\ DOMAIN input = names /\ input["rewardsState"] = TransactionSigner(state)
      /\ input["authority"] = authority
  BY <1>2, <1>3, MixedUp
<1> DEFINE vault == ProgramDerivedAddress(PROGRAM_ID, "rewards_vault", <<ExpectAddress(input.rewardsState)>>)
           one == Default(input, "rewardsVault", vault)
           token == ProgramDerivedAddress(ASSOCIATED_TOKEN_PROGRAM_ADDRESS, "",
                                         <<ExpectAddress(one.rewardsVault),
                                           ExpectAddress(one.rewardsTokenProgram),
                                           ExpectAddress(one.rewardsMint)>>)
           two == Default(one, "rewardsTokenAccount", token)
           three == Default(two, "associatedTokenProgram", ASSOCIATED_TOKEN_PROGRAM_ADDRESS)
           four == Default(three, "systemProgram", SYSTEM_PROGRAM_ADDRESS)
<1>5. call = Instruction(PROGRAM_ID, InitializeRewardsStateInstruction, four, EncodeInitializeRewardsState)
  BY <1>1, Programs DEF GetInitializeRewardsStateInstructionAsync, GetInitializeRewardsStateInstruction
<1>6. /\ {"rewardsState", "authority", "rewardsVault", "rewardsTokenAccount", "associatedTokenProgram",
          "systemProgram"} \subseteq names
  OBVIOUS
<1> HIDE DEF vault, token, names
<1>7. four["rewardsState"] = TransactionSigner(state) /\ four["authority"] = authority
  <2>1. DOMAIN one = names /\ one["rewardsState"] = TransactionSigner(state) /\ one["authority"] = authority
    BY <1>4, <1>6, DefaultIs
  <2> HIDE DEF one
  <2>2. DOMAIN two = names /\ two["rewardsState"] = TransactionSigner(state) /\ two["authority"] = authority
    BY <2>1, <1>6, DefaultIs
  <2> HIDE DEF two
  <2>3. DOMAIN three = names /\ three["rewardsState"] = TransactionSigner(state) /\ three["authority"] = authority
    BY <2>2, <1>6, DefaultIs
  <2> HIDE DEF three
  <2> QED
    BY <2>3, <1>6, DefaultIs
<1> HIDE DEF four
<1>8. /\ Context(InitializeRewardsState, call).rewards_state = AddressGiven(TransactionSigner(state))
      /\ Context(InitializeRewardsState, call).authority = AddressGiven(authority)
  BY <1>5, <1>7, InitializeRewardsStateContext
<1> QED
  BY <1>8, KeysGiven DEF Signing

\* A root comes from a user that signs as the authority.
LEMMA UpdateMerkleRootCall ==
    ASSUME NEW call \in UpdateMerkleRootCalls
    PROVE  /\ Context(UpdateMerkleRoot, call).rewards_state \in StateKeys
           /\ Context(UpdateMerkleRoot, call).authority \in Users
           /\ \E root \in Roots : call.data = <<195>> \o EncodeMerkleRoot(root)
<1>1. PICK input \in UpdateMerkleRootInput, root \in Roots :
         call = GetUpdateMerkleRootInstruction(input, [merkleRoot |-> root], NoAddress)
  BY DEF UpdateMerkleRootCalls
<1>2. call = Instruction(PROGRAM_ID, UpdateMerkleRootInstruction, input, <<195>> \o EncodeMerkleRoot(root))
  BY <1>1, Programs DEF GetUpdateMerkleRootInstruction, EncodeUpdateMerkleRoot, UPDATE_MERKLE_ROOT_DISCRIMINATOR
<1>3. /\ Context(UpdateMerkleRoot, call).rewards_state = AddressGiven(input["rewardsState"])
      /\ Context(UpdateMerkleRoot, call).authority = AddressGiven(input["authority"])
  BY <1>2, UpdateMerkleRootContext
<1>4. input["rewardsState"] \in Plains(StateKeys) /\ input["authority"] \in Signing
  BY DEF UpdateMerkleRootInput
<1>5. call.data = <<195>> \o EncodeMerkleRoot(root)
  BY <1>2 DEF Instruction
<1> QED
  BY <1>3, <1>4, <1>5, KeysGiven DEF Plains, Signing

\* A new authority comes from a user that signs.
LEMMA UpdateAuthorityCall ==
    ASSUME NEW call \in UpdateAuthorityCalls
    PROVE  /\ Context(UpdateAuthority, call).rewards_state \in StateKeys
           /\ Context(UpdateAuthority, call).authority \in Users
           /\ Context(UpdateAuthority, call).new_authority \in Users
<1>1. PICK input \in UpdateAuthorityAsyncInput : call = GetUpdateAuthorityInstructionAsync(input, NoAddress)
  BY DEF UpdateAuthorityCalls
<1> DEFINE config == Pda("global_config", << >>)
           one == Default(input, "globalConfig", config)
<1>2. call = Instruction(PROGRAM_ID, UpdateAuthorityInstruction, one, EncodeUpdateAuthority)
  BY <1>1, Programs DEF GetUpdateAuthorityInstructionAsync, GetUpdateAuthorityInstruction, Pda
<1>3. /\ DOMAIN input = {"globalConfig", "authority", "rewardsState", "newAuthority"}
      /\ input["authority"] \in Signing /\ input["rewardsState"] \in Plains(StateKeys)
      /\ input["newAuthority"] \in Plains(Users)
  <2> DEFINE configs == {Null, Plain(Pda("global_config", << >>))}
  <2>1. input \in [globalConfig : configs, authority : Signing, rewardsState : Plains(StateKeys),
                   newAuthority : Plains(Users)]
    BY DEF UpdateAuthorityAsyncInput
  <2> HIDE DEF configs
  <2> QED
    BY <2>1
<1> HIDE DEF config
<1>4. /\ one["authority"] = input["authority"] /\ one["rewardsState"] = input["rewardsState"]
      /\ one["newAuthority"] = input["newAuthority"]
  <2>1. DOMAIN input = {"globalConfig", "authority", "rewardsState", "newAuthority"}
    BY <1>3
  <2>2. \A name \in DOMAIN input : name # "globalConfig" => one[name] = input[name]
    <3>1. "globalConfig" \in DOMAIN input
      BY <2>1
    <3>2. \A other \in DOMAIN input :
             other # "globalConfig" => Default(input, "globalConfig", config)[other] = input[other]
      BY <3>1, DefaultIs, Zenon
    <3> QED
      BY <3>2
  <2> HIDE DEF one
  <2> QED
    BY <2>1, <2>2
<1> HIDE DEF one
<1>5. /\ Context(UpdateAuthority, call).rewards_state = AddressGiven(input["rewardsState"])
      /\ Context(UpdateAuthority, call).authority = AddressGiven(input["authority"])
      /\ Context(UpdateAuthority, call).new_authority = AddressGiven(input["newAuthority"])
  BY <1>2, <1>4, UpdateAuthorityContext
<1> QED
  BY <1>3, <1>5, KeysGiven DEF Plains, Signing

\* A token account that is given is what the program gets.
LEMMA WalletsGiven ==
    /\ \A user \in Users : AddressGiven(Plain(WalletOf(user))) = WalletOf(user)
    /\ \A state : AddressGiven(Plain(TokenAccount(state))) = TokenAccount(state)
BY DEF AddressGiven, Plain, Null, NoAddress, WalletOf, TokenAccount, AssociatedTokenAddress,
       ProgramDerivedAddress, ASSOCIATED_TOKEN_PROGRAM_ADDRESS, Bytes32

\* A claim is of an owner that signs, for the wallet of the owner or a token account of
\* the program.
LEMMA ClaimRewardsCall ==
    ASSUME NEW call \in ClaimRewardsCalls
    PROVE  /\ Context(ClaimRewards, call).rewards_state \in StateKeys
           /\ Context(ClaimRewards, call).owner \in Users
           /\ Context(ClaimRewards, call).beneficiary_token_account \in
                 {WalletOf(Context(ClaimRewards, call).owner)} \cup TokenAccounts
           /\ \E args \in ClaimArgs : call.data = <<4, args.index, args.totalRewards, args.proof>>
<1>1. PICK input \in ClaimRewardsAsyncInput, args \in ClaimArgs :
         call = GetClaimRewardsInstructionAsync(input, args, NoAddress)
  BY DEF ClaimRewardsCalls
<1>2. call = Instruction(PROGRAM_ID, ClaimRewardsInstruction, Resolved(input),
                          <<4, args.index, args.totalRewards, args.proof>>)
  BY <1>1, ClaimRewardsBuilt
<1>3. PICK state \in StateKeys, owner \in Users :
              \E beneficiary \in {WalletOf(owner)} \cup TokenAccounts, rootAccount \in {Null, Plain(RootAccount)} :
                 /\ DOMAIN input = ClaimNames
                 /\ input["rewardsState"] = Plain(state)
                 /\ input["owner"] = TransactionSigner(owner)
                 /\ input["beneficiaryTokenAccount"] = Plain(beneficiary)
                 /\ input["maybeMerkleRootAccount"] = rootAccount
  BY ClaimInputs
<1>4. PICK beneficiary \in {WalletOf(owner)} \cup TokenAccounts :
                 /\ DOMAIN input = ClaimNames
                 /\ input["rewardsState"] = Plain(state)
                 /\ input["owner"] = TransactionSigner(owner)
                 /\ input["beneficiaryTokenAccount"] = Plain(beneficiary)
  BY <1>3
<1>5. /\ Resolved(input)["rewardsState"] = Plain(state)
      /\ Resolved(input)["owner"] = TransactionSigner(owner)
      /\ Resolved(input)["beneficiaryTokenAccount"] = Plain(beneficiary)
  BY <1>4, ResolvedIs, ZenonT(30) DEF ClaimNames
<1>6. /\ Context(ClaimRewards, call).rewards_state = AddressGiven(Plain(state))
      /\ Context(ClaimRewards, call).owner = AddressGiven(TransactionSigner(owner))
      /\ Context(ClaimRewards, call).beneficiary_token_account = AddressGiven(Plain(beneficiary))
  BY <1>2, <1>5, ClaimRewardsContext
<1>7. call.data = <<4, args.index, args.totalRewards, args.proof>>
  BY <1>2 DEF Instruction
<1>8. AddressGiven(Plain(beneficiary)) = beneficiary
  BY WalletsGiven DEF TokenAccounts
<1> QED
  BY <1>6, <1>7, <1>8, KeysGiven

-----------------------------------------------------------------------------
(* The invariant *)

\* Where the configuration is.
ConfigAddress == Pda("global_config", << >>)

\* The fields of a root: inplace, with a hash, or external, in an account that is passed.
StoredRoot(x, y, z) ==
    \/ x = 0 /\ y # NotARoot
    \/ x = 1 /\ y \notin {NoAddress, PROGRAM_ID} /\ <<y, z>> \in AddressesOfRoots

\* The configuration, at its one address, names a user.
IsConfig(a, d) == a = ConfigAddress /\ d = <<149, d[2]>> /\ d[2] \in Users

\* A rewards state, at a key, names the token account of its vault, a user and a root.
IsState(a, d) ==
    /\ a \in StateKeys
    /\ d = <<155, d[2], Mint, TokenAccount(a), d[5], d[6], d[7]>>
    /\ d[2] \in Users
    /\ StoredRoot(d[5], d[6], d[7])

\* A claim state is at the address of its owner and an existing rewards state.
IsClaim(a, d) ==
    /\ d = <<71, d[2], d[3]>>
    /\ d[2] \in Users /\ d[3] \in Nat
    /\ \E state \in ExistingStates : a = ClaimStateOf(state, d[2])

\* Every account of the program is one of the three kinds.
DataOK == \A a \in DOMAIN accountData :
    IsConfig(a, accountData[a]) \/ IsState(a, accountData[a]) \/ IsClaim(a, accountData[a])

\* Every wallet and every existing rewards state has a token account, and together they
\* hold no more than there is.
TokensOK ==
    /\ tokens \in [Wallets \cup {TokenAccount(s) : s \in ExistingStates} -> Nat]
    /\ SumOver(DOMAIN tokens, tokens) <= Supply

\* What every step keeps.
AccountsInv == DataOK /\ TokensOK /\ paid \in [ClaimStates -> Nat]

\* Derived addresses tell what they are derived from.
LEMMA ClaimStateDetermines ==
    ASSUME NEW s, NEW u, NEW t, NEW v, ClaimStateOf(s, u) = ClaimStateOf(t, v)
    PROVE  s = t /\ u = v
BY DEF ClaimStateOf, Pda, ProgramDerivedAddress

\* Addresses derived from different keys differ.
LEMMA AddressesDetermine ==
    /\ \A s, u, t, v : ClaimStateOf(s, u) = ClaimStateOf(t, v) => s = t /\ u = v
    /\ \A s, t : TokenAccount(s) = TokenAccount(t) => s = t
    /\ \A u, v : WalletOf(u) = WalletOf(v) => u = v
    /\ \A s, u : ConfigAddress # ClaimStateOf(s, u)
<1>1. \A s, u, t, v : ClaimStateOf(s, u) = ClaimStateOf(t, v) => s = t /\ u = v
  BY DEF ClaimStateOf, Pda, ProgramDerivedAddress
<1>2. \A s, t : VaultOf(s) = VaultOf(t) => s = t
  BY DEF VaultOf, Pda, ProgramDerivedAddress
<1>3. \A u, v : AssociatedTokenAddress(u) = AssociatedTokenAddress(v) => u = v
  BY DEF AssociatedTokenAddress, ProgramDerivedAddress
<1>4. \A s, u : ConfigAddress # ClaimStateOf(s, u)
  BY DEF ClaimStateOf, ConfigAddress, Pda, ProgramDerivedAddress
<1> QED
  BY <1>1, <1>2, <1>3, <1>4 DEF TokenAccount, WalletOf

\* A key that somebody holds is no derived address, and a wallet is no token account of
\* a vault.
LEMMA KeysAreNotDerived ==
    /\ ConfigAddress \notin StateKeys
    /\ \A s \in StateKeys, u \in Users : ClaimStateOf(s, u) \notin StateKeys
    /\ \A s \in StateKeys, u \in Users : WalletOf(u) # TokenAccount(s)
<1>1. /\ ConfigAddress \in DerivedAddresses
      /\ \A s \in StateKeys, u \in Users : ClaimStateOf(s, u) \in DerivedAddresses
      /\ \A s \in StateKeys : VaultOf(s) \in DerivedAddresses
  BY DEF DerivedAddresses, ConfigAddress, Vaults, ClaimStates
<1>2. \A u, v : AssociatedTokenAddress(u) = AssociatedTokenAddress(v) => u = v
  BY DEF AssociatedTokenAddress, ProgramDerivedAddress
<1>3. \A address \in DerivedAddresses : address \notin StateKeys /\ address \notin Users
  BY AccountsAssumption
<1> QED
  BY <1>1, <1>2, <1>3 DEF TokenAccount, WalletOf

\* What an account is follows from where it is, or from its discriminator.
LEMMA KindsOfAccounts ==
    ASSUME DataOK, NEW a \in DOMAIN accountData
    PROVE  /\ a \in StateKeys => IsState(a, accountData[a])
           /\ accountData[a][1] = 155 => IsState(a, accountData[a])
           /\ a = ConfigAddress => IsConfig(a, accountData[a])
           /\ \A s \in StateKeys, u \in Users : a = ClaimStateOf(s, u) =>
                 IsClaim(a, accountData[a]) /\ accountData[a][2] = u /\ s \in ExistingStates
<1> DEFINE d == accountData[a]
<1>1. IsConfig(a, d) \/ IsState(a, d) \/ IsClaim(a, d)
  BY DEF DataOK
<1>2. \A s \in ExistingStates : s \in StateKeys
  BY DEF ExistingStates
<1> HIDE DEF d
<1>3. CASE IsConfig(a, d)
  <2>1. d[1] = 149 /\ a = ConfigAddress
    BY <1>3 DEF IsConfig
  <2> QED
    BY <1>3, <2>1, KeysAreNotDerived, AddressesDetermine DEF d
<1>4. CASE IsState(a, d)
  <2>1. a \in StateKeys
    BY <1>4 DEF IsState
  <2> QED
    BY <1>4, <2>1, KeysAreNotDerived DEF d
<1>5. CASE IsClaim(a, d)
  <2>1. d[1] = 71 /\ d[2] \in Users
    BY <1>5 DEF IsClaim
  <2>2. PICK state \in ExistingStates : a = ClaimStateOf(state, d[2])
    BY <1>5 DEF IsClaim
  <2>3. a \notin StateKeys /\ a # ConfigAddress
    BY <1>2, <2>1, <2>2, KeysAreNotDerived, AddressesDetermine
  <2>4. ASSUME NEW s, NEW u, a = ClaimStateOf(s, u) PROVE s = state /\ u = d[2]
    <3>1. ClaimStateOf(s, u) = ClaimStateOf(state, d[2])
      BY <2>2, <2>4
    <3> QED
      BY <3>1, ClaimStateDetermines
  <2> QED
    BY <1>5, <2>1, <2>3, <2>4 DEF d
<1> QED
  BY <1>1, <1>3, <1>4, <1>5

-----------------------------------------------------------------------------
(* What an instruction does, once its accounts are accepted *)

\* One account is written, and holds d.
Put(address, d) ==
    /\ DOMAIN accountData' = DOMAIN accountData \cup {address}
    /\ accountData'[address] = d
    /\ \A a \in DOMAIN accountData : a # address => accountData'[a] = accountData[a]

\* Borsh writes a value over what is there (Write).
LEMMA WritePuts ==
    ASSUME NEW address, NEW value, NEW d, accountData' = Write(address, value),
           address \notin DOMAIN accountData => value \o SubSeq(<< >>, Len(value) + 1, 0) = d,
           address \in DOMAIN accountData =>
              value \o SubSeq(accountData[address], Len(value) + 1, Len(accountData[address])) = d
    PROVE  Put(address, d)
<1>1. Len(<< >>) = 0
  OBVIOUS
<1> DEFINE old == IF address \in DOMAIN accountData THEN accountData[address] ELSE << >>
<1>2. accountData' = [a \in DOMAIN accountData \cup {address} |->
           IF a = address THEN value \o SubSeq(old, Len(value) + 1, Len(old)) ELSE accountData[a]]
  BY DEF Write
<1>3. value \o SubSeq(old, Len(value) + 1, Len(old)) = d
  BY <1>1
<1> HIDE DEF old
<1> QED
  BY <1>2, <1>3 DEF Put

\* Data that is no shorter than what was there.
LEMMA WriteWhole ==
    ASSUME NEW address, NEW S, NEW value \in Seq(S), accountData' = Write(address, value),
           address \in DOMAIN accountData => Len(accountData[address]) \in 0..Len(value)
    PROVE  Put(address, value)
<1>1. Len(value) \in Nat /\ Len(<< >>) = 0
  BY LenProperties
<1>2. SubSeq(<< >>, Len(value) + 1, 0) = << >>
  BY <1>1, SubSeqEmpty
<1>3. address \in DOMAIN accountData =>
         SubSeq(accountData[address], Len(value) + 1, Len(accountData[address])) = << >>
  BY <1>1, SubSeqEmpty
<1>4. value \o << >> = value
  BY ConcatEmptySeq
<1> QED
  BY <1>2, <1>3, <1>4, WritePuts

\* The configuration is made, and names its administrator.
ConfigMade(admin) ==
    /\ ConfigAddress \notin DOMAIN accountData
    /\ Put(ConfigAddress, <<149, admin>>)
    /\ UNCHANGED <<tokens, paid>>

\* A rewards state is made with the token account of its vault, which is empty.
StateMade(state, authority) ==
    /\ state \notin DOMAIN accountData
    /\ Put(state, <<155, authority, Mint, TokenAccount(state), 0, ZeroHash, 0>>)
    /\ TokenAccount(state) \notin DOMAIN tokens
    /\ tokens' = [a \in DOMAIN tokens \cup {TokenAccount(state)} |-> IF a \in DOMAIN tokens THEN tokens[a] ELSE 0]
    /\ UNCHANGED paid

\* The authority sets a root: a hash is shorter than an address with an offset, and leaves
\* the offset that was there.
RootSet(state, authority, root) ==
    /\ state \in ExistingStates
    /\ authority = accountData[state][2]
    /\ IF IsMerkleRoot("Inplace", root)
       THEN Put(state, <<155, authority, Mint, TokenAccount(state), 0, root.hash, accountData[state][7]>>)
       ELSE Put(state, <<155, authority, Mint, TokenAccount(state), 1, root.pubkey, root.offset>>)
    /\ UNCHANGED <<tokens, paid>>

\* The administrator or the authority sets the authority.
AuthoritySet(state, signer, key) ==
    /\ state \in ExistingStates
    /\ ConfigAddress \in DOMAIN accountData
    /\ signer \in {accountData[ConfigAddress][2], accountData[state][2]}
    /\ Put(state, <<155, key, Mint, TokenAccount(state), accountData[state][5], accountData[state][6],
                    accountData[state][7]>>)
    /\ UNCHANGED <<tokens, paid>>

\* The hash that a proof must lead to.
LiveHash(state) ==
    IF accountData[state][5] = 0 THEN accountData[state][6]
    ELSE RootAtAddress(<<accountData[state][6], accountData[state][7]>>)

\* An owner claims what its leaf of the live tree says beyond what it claimed before.
RewardsClaimed(state, owner, total, to) ==
    LET claimState == ClaimStateOf(state, owner)
        amount == total - ClaimedRewards(claimState)
    IN /\ state \in ExistingStates
       /\ <<owner, total>> \in LeavesOf(LiveHash(state))
       /\ total > ClaimedRewards(claimState)
       /\ to \in DOMAIN tokens
       /\ tokens[TokenAccount(state)] >= amount
       /\ tokens' = Moved(TokenAccount(state), to, amount)
       /\ Put(claimState, <<71, owner, total>>)
       /\ paid' = [paid EXCEPT ![claimState] = @ + tokens[TokenAccount(state)] - tokens'[TokenAccount(state)]]

\* initialize makes the configuration (lib.rs:12-16).
LEMMA InitializeEffect ==
    ASSUME NEW call \in InitializeCalls, ProcessInitialize(call)
    PROVE  LET ctx == Context(Initialize, call)
           IN  /\ ctx.admin \in Users
               /\ ctx.global_config = ConfigAddress
               /\ ConfigMade(ctx.admin)
<1> DEFINE ctx == Context(Initialize, call)
<1>2. ctx.admin \in Users
  BY InitializeCall
<1>3. /\ ctx.global_config = ConfigAddress
      /\ ctx.global_config \notin DOMAIN accountData
      /\ accountData' = Write(ctx.global_config, <<149, ctx.admin>>)
      /\ UNCHANGED <<tokens, paid>>
  BY DEF ProcessInitialize, ConfigAddress
<1> HIDE DEF ctx
<1>4. <<149, ctx.admin>> \in Seq({149, ctx.admin})
  OBVIOUS
<1>5. Put(ConfigAddress, <<149, ctx.admin>>)
  BY <1>3, <1>4, WriteWhole
<1>6. ConfigMade(ctx.admin)
  BY <1>3, <1>5 DEF ConfigMade
<1> QED
  BY <1>2, <1>3, <1>6 DEF ctx

\* initialize_rewards_state makes a rewards state and its token account (lib.rs:18-25).
LEMMA InitializeRewardsStateEffect ==
    ASSUME NEW call \in InitializeRewardsStateCalls, ProcessInitializeRewardsState(call)
    PROVE  LET ctx == Context(InitializeRewardsState, call)
           IN  /\ ctx.rewards_state \in StateKeys /\ ctx.authority \in Users
               /\ ctx.rewards_vault = VaultOf(ctx.rewards_state)
               /\ ctx.rewards_mint = Mint
               /\ ctx.rewards_token_account = TokenAccount(ctx.rewards_state)
               /\ StateMade(ctx.rewards_state, ctx.authority)
<1> DEFINE ctx == Context(InitializeRewardsState, call)
           state == ctx.rewards_state
           data == <<155, ctx.authority, Mint, TokenAccount(state), 0, ZeroHash, 0>>
<1>2. state \in StateKeys /\ ctx.authority \in Users
  BY InitializeRewardsStateCall
<1>3. /\ state \notin DOMAIN accountData
      /\ ctx.rewards_vault = VaultOf(state)
      /\ ctx.rewards_token_account = TokenAccount(state)
      /\ ctx.rewards_mint = Mint
      /\ ctx.rewards_token_account \notin DOMAIN tokens
      /\ accountData' = Write(state, <<155, ctx.authority, ctx.rewards_mint, ctx.rewards_token_account,
                                      0, ZeroHash, 0>>)
      /\ tokens' = [a \in DOMAIN tokens \cup {ctx.rewards_token_account} |->
                        IF a \in DOMAIN tokens THEN tokens[a] ELSE 0]
      /\ UNCHANGED paid
  BY DEF ProcessInitializeRewardsState, TokenAccount, VaultOf
<1>4. accountData' = Write(state, data)
  BY <1>3
<1>5. data \in Seq({155, ctx.authority, Mint, TokenAccount(state), 0, ZeroHash})
  OBVIOUS
<1>6. Put(state, data)
  <2> HIDE DEF ctx, data
  <2> QED
    BY <1>3, <1>4, <1>5, WriteWhole, SMTT(30)
<1> HIDE DEF ctx
<1>7. StateMade(state, ctx.authority)
  BY <1>3, <1>6 DEF StateMade
<1> QED
  BY <1>2, <1>3, <1>7 DEF ctx

\* update_merkle_root sets the root of an existing state for its authority (lib.rs:27-35).
LEMMA UpdateMerkleRootEffect ==
    ASSUME DataOK, NEW call \in UpdateMerkleRootCalls, ProcessUpdateMerkleRoot(call)
    PROVE  LET ctx == Context(UpdateMerkleRoot, call)
           IN  /\ ctx.rewards_state \in StateKeys /\ ctx.authority \in Users
               /\ \E root \in Roots : /\ Tail(call.data) = EncodeMerkleRoot(root)
                                      /\ RootSet(ctx.rewards_state, ctx.authority, root)
<1> DEFINE ctx == Context(UpdateMerkleRoot, call)
           state == ctx.rewards_state
           d == accountData[state]
<1>2. PICK root \in Roots : call.data = <<195>> \o EncodeMerkleRoot(root)
  BY UpdateMerkleRootCall
<1>3. state \in StateKeys /\ ctx.authority \in Users
  BY UpdateMerkleRootCall
<1>4. /\ Holds(state, 155)
      /\ ctx.authority = d[2]
      /\ accountData' = Write(state, SubSeq(d, 1, 4) \o Tail(call.data))
      /\ UNCHANGED <<tokens, paid>>
  BY DEF ProcessUpdateMerkleRoot
<1>5. state \in ExistingStates /\ IsState(state, d)
  BY <1>3, <1>4, KindsOfAccounts DEF Holds, ExistingStates
<1> HIDE DEF ctx
<1>6. d = <<155, d[2], Mint, TokenAccount(state), d[5], d[6], d[7]>> /\ Len(d) = 7
  <2>1. d = <<155, d[2], Mint, TokenAccount(state), d[5], d[6], d[7]>>
    BY <1>5 DEF IsState
  <2>2. \A p, q, r, s, t, u, v : Len(<<p, q, r, s, t, u, v>>) = 7
    OBVIOUS
  <2> HIDE DEF d
  <2> QED
    BY <2>1, <2>2
<1>7. SubSeq(d, 1, 4) = <<155, d[2], Mint, TokenAccount(state)>>
  <2> HIDE DEF d, state
  <2> QED
    BY <1>6, FieldsOfState
<1>8. SubSeq(d, 7, 7) = <<d[7]>> /\ SubSeq(d, 8, 7) = << >>
  <2> HIDE DEF d, state
  <2> QED
    BY <1>6, FieldsOfState
<1>9. CASE IsMerkleRoot("Inplace", root)
  <2> DEFINE value == <<155, d[2], Mint, TokenAccount(state), 0, root.hash>>
  <2>1. call.data = <<195, 0, root.hash>>
    <3>1. call.data = <<195>> \o <<0, root.hash>>
      BY <1>2, <1>9 DEF EncodeMerkleRoot
    <3> QED
      BY <3>1, OneAndTwo
  <2>2. Tail(call.data) = <<0, root.hash>>
    BY <2>1
  <2>3. SubSeq(d, 1, 4) \o Tail(call.data) = value
    <3> HIDE DEF d, state
    <3>1. <<155, d[2], Mint, TokenAccount(state)>> \o <<0, root.hash>> = value
      BY FourAndTwo
    <3> QED
      BY <1>7, <2>2, <3>1
  <2>4. Len(value) = 6
    OBVIOUS
  <2>5. value \o <<d[7]>> = <<155, d[2], Mint, TokenAccount(state), 0, root.hash, d[7]>>
    <3> HIDE DEF d, state
    <3> QED
      BY SixAndOne
  <2> HIDE DEF value
  <2>6. accountData' = Write(state, value) /\ state \in DOMAIN accountData
    BY <1>4, <1>5, <2>3 DEF ExistingStates
  <2>7. value \o SubSeq(d, Len(value) + 1, Len(d)) = <<155, d[2], Mint, TokenAccount(state), 0, root.hash, d[7]>>
    <3>1. SubSeq(d, Len(value) + 1, Len(d)) = <<d[7]>>
      <4> HIDE DEF d
      <4> QED
        BY <1>6, <1>8, <2>4
    <3> QED
      BY <2>5, <3>1
  <2>8. Put(state, <<155, d[2], Mint, TokenAccount(state), 0, root.hash, d[7]>>)
    <3> DEFINE new == <<155, d[2], Mint, TokenAccount(state), 0, root.hash, d[7]>>
    <3>1. value \o SubSeq(d, Len(value) + 1, Len(d)) = new
      BY <2>7
    <3> HIDE DEF new
    <3>2. Put(state, new)
      BY <2>6, <3>1, WritePuts
    <3> QED
      BY <3>2 DEF new
  <2>9. Tail(call.data) = EncodeMerkleRoot(root)
    BY <1>9, <2>2 DEF EncodeMerkleRoot
  <2>10. RootSet(state, ctx.authority, root)
    BY <1>4, <1>5, <1>9, <2>8 DEF RootSet
  <2> QED
    BY <1>3, <2>9, <2>10 DEF ctx
<1>10. CASE ~IsMerkleRoot("Inplace", root)
  <2> DEFINE value == <<155, d[2], Mint, TokenAccount(state), 1, root.pubkey, root.offset>>
  <2>1. call.data = <<195, 1, root.pubkey, root.offset>>
    <3>1. call.data = <<195>> \o <<1, root.pubkey, root.offset>>
      BY <1>2, <1>10 DEF EncodeMerkleRoot
    <3> QED
      BY <3>1, OneAndThree
  <2>2. Tail(call.data) = <<1, root.pubkey, root.offset>>
    BY <2>1
  <2>3. SubSeq(d, 1, 4) \o Tail(call.data) = value
    <3> HIDE DEF d, state
    <3>1. <<155, d[2], Mint, TokenAccount(state)>> \o <<1, root.pubkey, root.offset>> = value
      BY FourAndThree
    <3> QED
      BY <1>7, <2>2, <3>1
  <2>4. Len(value) = 7 /\ value \in Seq({155, d[2], Mint, TokenAccount(state), 1, root.pubkey, root.offset})
    OBVIOUS
  <2>5. Put(state, value)
    <3> HIDE DEF value
    <3>1. accountData' = Write(state, value)
      BY <1>4, <2>3
    <3>2. Len(accountData[state]) \in 0..Len(value)
      <4>1. Len(accountData[state]) = 7
        BY <1>6
      <4> QED
        BY <2>4, <4>1
    <3> QED
      BY <2>4, <3>1, <3>2, WriteWhole
  <2>6. Tail(call.data) = EncodeMerkleRoot(root)
    BY <1>10, <2>2 DEF EncodeMerkleRoot
  <2>7. RootSet(state, ctx.authority, root)
    BY <1>4, <1>5, <1>10, <2>5 DEF RootSet
  <2> QED
    BY <1>3, <2>6, <2>7 DEF ctx
<1> QED
  BY <1>9, <1>10

\* update_authority sets the authority of an existing state, for the administrator or the
\* authority itself (lib.rs:37-47).
LEMMA UpdateAuthorityEffect ==
    ASSUME DataOK, NEW call \in UpdateAuthorityCalls, ProcessUpdateAuthority(call)
    PROVE  LET ctx == Context(UpdateAuthority, call)
           IN  /\ ctx.rewards_state \in StateKeys /\ ctx.authority \in Users /\ ctx.new_authority \in Users
               /\ AuthoritySet(ctx.rewards_state, ctx.authority, ctx.new_authority)
<1> DEFINE ctx == Context(UpdateAuthority, call)
           state == ctx.rewards_state
           key == ctx.new_authority
           d == accountData[state]
<1>2. state \in StateKeys /\ ctx.authority \in Users /\ key \in Users
  BY UpdateAuthorityCall
<1>3. /\ ConfigAddress \in DOMAIN accountData
      /\ Holds(state, 155)
      /\ ctx.authority \in {accountData[ConfigAddress][2], d[2]}
      /\ accountData' = [accountData EXCEPT ![state][2] = key]
      /\ UNCHANGED <<tokens, paid>>
  BY DEF ProcessUpdateAuthority, Holds, ConfigAddress
<1>4. state \in ExistingStates /\ IsState(state, d) /\ state \in DOMAIN accountData
  BY <1>2, <1>3, KindsOfAccounts DEF Holds, ExistingStates
<1> HIDE DEF ctx
<1>5. [d EXCEPT ![2] = key] = <<155, key, Mint, TokenAccount(state), d[5], d[6], d[7]>>
  <2>1. d = <<155, d[2], Mint, TokenAccount(state), d[5], d[6], d[7]>>
    BY <1>4 DEF IsState
  <2>2. \A p, q, r, s, t, u, v : [<<p, q, r, s, t, u, v>> EXCEPT ![2] = key] = <<p, key, r, s, t, u, v>>
    OBVIOUS
  <2> HIDE DEF d
  <2> QED
    BY <2>1, <2>2
<1>6. Put(state, [d EXCEPT ![2] = key])
  BY <1>3, <1>4 DEF Put
<1>7. AuthoritySet(state, ctx.authority, key)
  BY <1>3, <1>4, <1>5, <1>6 DEF AuthoritySet
<1> QED
  BY <1>2, <1>7 DEF ctx

\* What a claim state holds is a number.
LEMMA ClaimedIsNat ==
    ASSUME DataOK, NEW state \in StateKeys, NEW owner \in Users
    PROVE  ClaimedRewards(ClaimStateOf(state, owner)) \in Nat
<1> DEFINE a == ClaimStateOf(state, owner)
<1>1. CASE a \in DOMAIN accountData
  <2>1. IsClaim(a, accountData[a])
    BY <1>1, KindsOfAccounts
  <2> QED
    BY <1>1, <2>1 DEF IsClaim, ClaimedRewards
<1>2. CASE a \notin DOMAIN accountData
  BY <1>2 DEF ClaimedRewards
<1> QED
  BY <1>1, <1>2

\* The arguments of a claim name a tree and a total.
LEMMA ArgsOfClaims ==
    ASSUME NEW args \in ClaimArgs
    PROVE  args.proof \in DOMAIN Trees /\ args.totalRewards \in Nat
<1>1. PICK hash \in DOMAIN Trees :
         args \in {[index |-> i - 1 + lap * Places[hash], totalRewards |-> Trees[hash][i][2], proof |-> hash]
                      : i \in DOMAIN Trees[hash], lap \in Laps}
  BY DEF ClaimArgs
<1>2. PICK i \in DOMAIN Trees[hash], lap \in Laps :
         args = [index |-> i - 1 + lap * Places[hash], totalRewards |-> Trees[hash][i][2], proof |-> hash]
  BY <1>1
<1>3. Trees[hash] \in Seq(Users \X Nat)
  BY AccountsAssumption
<1>4. Trees[hash][i] \in Users \X Nat
  BY <1>3, LenProperties, ElementOfSeq
<1>5. args.proof = hash /\ args.totalRewards = Trees[hash][i][2]
  BY <1>2
<1> QED
  BY <1>4, <1>5

\* The root is in the last fields of a rewards state.
LEMMA RootOfState ==
    ASSUME NEW state, NEW d, IsState(state, d)
    PROVE  SubSeq(d, 5, 7) = <<d[5], d[6], d[7]>>
<1>1. d = <<155, d[2], Mint, TokenAccount(state), d[5], d[6], d[7]>>
  BY DEF IsState
<1>2. SubSeq(<<155, d[2], Mint, TokenAccount(state), d[5], d[6], d[7]>>, 5, 7) = <<d[5], d[6], d[7]>>
  BY FieldsOfState
<1> QED
  BY <1>1, <1>2

\* Only a leaf of the live tree leads to the live root.
LEMMA ProvedIsLive ==
    ASSUME DataOK, NEW state \in ExistingStates, NEW owner, NEW address,
           NEW args, args.proof \in DOMAIN Trees,
           RootIsAt(SubSeq(accountData[state], 5, 7), address, RecomputeRoot(owner, args))
    PROVE  /\ <<owner, args.total_rewards>> \in LeavesOf(LiveHash(state))
           /\ LiveHash(state) = args.proof
           /\ IsLeafAt(args.proof, args.index, <<owner, args.total_rewards>>)
           /\ accountData[state][5] # 0 => address = accountData[state][6]
<1> DEFINE d == accountData[state]
           hash == RecomputeRoot(owner, args)
<1>1. IsState(state, d)
  BY KindsOfAccounts DEF ExistingStates
<1>2. SubSeq(d, 5, 7) = <<d[5], d[6], d[7]>> /\ StoredRoot(d[5], d[6], d[7])
  BY <1>1, RootOfState DEF IsState
<1>3. RootIsAt(<<d[5], d[6], d[7]>>, address, hash)
  BY <1>2
<1> HIDE DEF hash
<1>4. hash = LiveHash(state) /\ hash # NotARoot
  <2>1. CASE d[5] = 0
    BY <1>2, <1>3, <2>1 DEF RootIsAt, StoredRoot, LiveHash
  <2>2. CASE d[5] # 0
    <3>1. d[6] = RootAccount /\ d[7] \in DOMAIN RootsAt /\ RootsAt[d[7]] = hash
      BY <1>3, <2>2 DEF RootIsAt
    <3>2. LiveHash(state) = RootAtAddress(<<d[6], d[7]>>)
      BY <2>2 DEF LiveHash
    <3>3. RootAtAddress(<<d[6], d[7]>>) = hash
      BY <3>1 DEF RootAtAddress
    <3> QED
      BY <3>1, <3>2, <3>3, AccountsAssumption
  <2> QED
    BY <2>1, <2>2
<1>5. hash = args.proof /\ IsLeafAt(args.proof, args.index, <<owner, args.total_rewards>>)
  BY <1>4 DEF hash, RecomputeRoot
<1>6. d[5] # 0 => address = d[6]
  BY <1>3 DEF RootIsAt
<1>7. <<owner, args.total_rewards>> \in LeavesOf(args.proof)
  BY <1>5 DEF LeavesOf, IsLeafAt
<1> QED
  BY <1>4, <1>5, <1>6, <1>7

\* claim_rewards pays what a leaf of the live tree has left to claim (lib.rs:49-103).
LEMMA ClaimRewardsEffect ==
    ASSUME DataOK, NEW call \in ClaimRewardsCalls, ProcessClaimRewards(call)
    PROVE  LET ctx == Context(ClaimRewards, call)
               args == ClaimRewardsArgs(call)
           IN  /\ ctx.rewards_state \in StateKeys /\ ctx.owner \in Users /\ args.total_rewards \in Nat
               /\ ctx.beneficiary_token_account \in {WalletOf(ctx.owner)} \cup TokenAccounts
               /\ ctx.claim_state = ClaimStateOf(ctx.rewards_state, ctx.owner)
               /\ LiveHash(ctx.rewards_state) = args.proof
               /\ IsLeafAt(args.proof, args.index, <<ctx.owner, args.total_rewards>>)
               /\ accountData[ctx.rewards_state][5] # 0 =>
                     ctx.maybe_merkle_root_account = accountData[ctx.rewards_state][6]
               /\ RewardsClaimed(ctx.rewards_state, ctx.owner, args.total_rewards, ctx.beneficiary_token_account)
<1> DEFINE ctx == Context(ClaimRewards, call)
           args == ClaimRewardsArgs(call)
           state == ctx.rewards_state
           owner == ctx.owner
           total == args.total_rewards
           to == ctx.beneficiary_token_account
           d == accountData[state]
           claimState == ClaimStateOf(state, owner)
<1>2. state \in StateKeys /\ owner \in Users /\ to \in {WalletOf(owner)} \cup TokenAccounts
  BY ClaimRewardsCall
<1>3. args.proof \in DOMAIN Trees /\ total \in Nat
  <2>1. PICK given \in ClaimArgs : call.data = <<4, given.index, given.totalRewards, given.proof>>
    BY ClaimRewardsCall
  <2>2. args.proof = given.proof /\ total = given.totalRewards
    BY <2>1 DEF ClaimRewardsArgs
  <2> QED
    BY <2>2, ArgsOfClaims
<1>4. /\ ClaimOutcome(call) = Ok
      /\ tokens' = Moved(ctx.rewards_token_account, to, total - ClaimedRewards(ctx.claim_state))
      /\ accountData' = Write(ctx.claim_state, <<71, owner, total>>)
      /\ paid' = [paid EXCEPT ![ctx.claim_state] =
                      @ + tokens[ctx.rewards_token_account] - tokens'[ctx.rewards_token_account]]
  BY DEF ProcessClaimRewards
<1>5. /\ ClaimAccountsAccepted(call)
      /\ RootIsAt(SubSeq(d, 5, 7), ctx.maybe_merkle_root_account, RecomputeRoot(owner, args))
      /\ ~(total < ClaimedRewards(ctx.claim_state))
      /\ total # ClaimedRewards(ctx.claim_state)
      /\ CanTransfer(ctx, total - ClaimedRewards(ctx.claim_state))
  BY <1>4 DEF ClaimOutcome, Ok, Other, InvalidProof, AlreadyClaimed
<1>6. /\ Holds(state, 155)
      /\ ctx.rewards_token_account = d[4]
      /\ ctx.claim_state = claimState
      /\ ctx.claim_state \in DOMAIN accountData => Holds(ctx.claim_state, 71)
      /\ to \in DOMAIN tokens
  BY <1>5 DEF ClaimAccountsAccepted, IsOwnClaimState, ClaimStateOf
<1>7. state \in ExistingStates /\ IsState(state, d) /\ d[4] = TokenAccount(state)
  <2>1. state \in ExistingStates /\ IsState(state, d)
    BY <1>2, <1>6, KindsOfAccounts DEF Holds, ExistingStates
  <2>2. d = <<155, d[2], Mint, TokenAccount(state), d[5], d[6], d[7]>>
    BY <2>1 DEF IsState
  <2> QED
    BY <2>1, <2>2
<1>8. /\ <<owner, total>> \in LeavesOf(LiveHash(state))
      /\ LiveHash(state) = args.proof
      /\ IsLeafAt(args.proof, args.index, <<owner, total>>)
      /\ d[5] # 0 => ctx.maybe_merkle_root_account = d[6]
  BY <1>3, <1>5, <1>7, ProvedIsLive
<1>9. total > ClaimedRewards(claimState)
  BY <1>2, <1>3, <1>5, <1>6, ClaimedIsNat
<1>10. tokens[TokenAccount(state)] >= total - ClaimedRewards(claimState)
  BY <1>5, <1>6, <1>7 DEF CanTransfer
<1>11. Put(claimState, <<71, owner, total>>)
  <2> DEFINE value == <<71, owner, total>>
  <2>1. value \in Seq({71, owner, total}) /\ Len(value) = 3
    OBVIOUS
  <2>2. ASSUME claimState \in DOMAIN accountData PROVE Len(accountData[claimState]) \in 0..3
    <3>1. IsClaim(claimState, accountData[claimState])
      BY <1>2, <2>2, KindsOfAccounts
    <3> DEFINE c == accountData[claimState]
    <3>2. c = <<71, c[2], c[3]>>
      BY <3>1 DEF IsClaim
    <3>3. \A p, q, r : Len(<<p, q, r>>) = 3
      OBVIOUS
    <3> HIDE DEF c
    <3>4. Len(c) = 3
      BY <3>2, <3>3
    <3> QED
      BY <3>4 DEF c
  <2>3. accountData' = Write(claimState, value)
    BY <1>4, <1>6
  <2> HIDE DEF value, claimState
  <2>4. Put(claimState, value)
    BY <2>1, <2>2, <2>3, WriteWhole
  <2> QED
    BY <2>4 DEF value
<1>12. /\ tokens' = Moved(TokenAccount(state), to, total - ClaimedRewards(claimState))
       /\ paid' = [paid EXCEPT ![claimState] = @ + tokens[TokenAccount(state)] - tokens'[TokenAccount(state)]]
  BY <1>4, <1>6, <1>7
<1> HIDE DEF ctx, args
<1>13. RewardsClaimed(state, owner, total, to)
  BY <1>6, <1>7, <1>8, <1>9, <1>10, <1>11, <1>12 DEF RewardsClaimed
<1> QED
  BY <1>2, <1>3, <1>6, <1>8, <1>13 DEF ctx, args

\* What a step does, but for which instruction did it.
LEMMA StepEffect ==
    ASSUME DataOK, Next
    PROVE  \/ \E admin \in Users : ConfigMade(admin)
           \/ \E state \in StateKeys, authority \in Users : StateMade(state, authority)
           \/ \E state \in StateKeys, authority \in Users, root \in Roots : RootSet(state, authority, root)
           \/ \E state \in StateKeys, signer \in Users, key \in Users : AuthoritySet(state, signer, key)
           \/ \E state \in StateKeys, owner \in Users, total \in Nat :
                 \E to \in {WalletOf(owner)} \cup TokenAccounts : RewardsClaimed(state, owner, total, to)
           \/ Fund
<1>1. CASE CallInitialize
  BY <1>1, InitializeEffect DEF CallInitialize
<1>2. CASE CallInitializeRewardsState
  BY <1>2, InitializeRewardsStateEffect DEF CallInitializeRewardsState
<1>3. CASE CallUpdateMerkleRoot
  BY <1>3, UpdateMerkleRootEffect DEF CallUpdateMerkleRoot
<1>4. CASE CallUpdateAuthority
  BY <1>4, UpdateAuthorityEffect DEF CallUpdateAuthority
<1>5. CASE CallClaimRewards
  BY <1>5, ClaimRewardsEffect DEF CallClaimRewards
<1> QED
  BY <1>1, <1>2, <1>3, <1>4, <1>5 DEF Next

-----------------------------------------------------------------------------
(* The invariant is inductive *)

\* An account of a known kind, written where it belongs, keeps the data as it should be.
LEMMA PutKeepsData ==
    ASSUME DataOK, NEW address, NEW d, Put(address, d),
           IsConfig(address, d) \/ IsState(address, d) \/ IsClaim(address, d)
    PROVE  DataOK' /\ ExistingStates' = ExistingStates \cup ({address} \cap StateKeys)
<1>1. ExistingStates' = ExistingStates \cup ({address} \cap StateKeys)
  BY DEF ExistingStates, Put
<1>2. \A a, e : IsClaim(a, e) => IsClaim(a, e)'
  BY <1>1 DEF IsClaim
<1>3. \A a, e : (IsConfig(a, e) => IsConfig(a, e)') /\ (IsState(a, e) => IsState(a, e)')
  BY DEF IsConfig, IsState
<1>4. ASSUME NEW a \in DOMAIN accountData'
      PROVE  (IsConfig(a, accountData[a]) \/ IsState(a, accountData[a]) \/ IsClaim(a, accountData[a]))'
  <2>1. CASE a = address
    <3>1. accountData'[a] = d
      BY <2>1 DEF Put
    <3> QED
      BY <1>2, <1>3, <2>1, <3>1
  <2>2. CASE a # address
    <3>1. a \in DOMAIN accountData /\ accountData'[a] = accountData[a]
      BY <1>4, <2>2 DEF Put
    <3>2. IsConfig(a, accountData[a]) \/ IsState(a, accountData[a]) \/ IsClaim(a, accountData[a])
      BY <3>1 DEF DataOK
    <3> QED
      BY <1>2, <1>3, <3>1, <3>2
  <2> QED
    BY <2>1, <2>2
<1> QED
  BY <1>1, <1>4 DEF DataOK

\* Sums over token accounts, states and users are of finite sets.
LEMMA FiniteTokens ==
    ASSUME TokensOK
    PROVE  IsFiniteSet(DOMAIN tokens) /\ IsFiniteSet(StateKeys) /\ IsFiniteSet(Users)
<1> DEFINE walletOf == [user \in Users |-> WalletOf(user)]
           accountOf == [state \in ExistingStates |-> TokenAccount(state)]
           accounts == {TokenAccount(s) : s \in ExistingStates}
<1>1. walletOf \in Surjection(Users, Wallets) /\ accountOf \in Surjection(ExistingStates, accounts)
  BY DEF Surjection, Wallets
<1> HIDE DEF walletOf, accountOf, accounts
<1>2. IsFiniteSet(StateKeys) /\ IsFiniteSet(Users)
  BY AccountsAssumption
<1>3. IsFiniteSet(Wallets)
  BY <1>1, <1>2, FS_Surjection
<1>4. IsFiniteSet(ExistingStates)
  BY <1>2, FS_Subset DEF ExistingStates
<1>5. IsFiniteSet(accounts)
  BY <1>1, <1>4, FS_Surjection
<1>6. IsFiniteSet(Wallets \cup accounts)
  BY <1>3, <1>5, FS_Union
<1> QED
  BY <1>2, <1>6 DEF TokensOK, accounts

\* Steps that move no tokens.
LEMMA QuietTokens ==
    ASSUME TokensOK, ExistingStates' = ExistingStates, tokens' = tokens
    PROVE  TokensOK'
BY DEF TokensOK

\* A transfer leaves the sum as it is.
LEMMA MovedKeepsSum ==
    ASSUME TokensOK, NEW from \in DOMAIN tokens, NEW to \in DOMAIN tokens, NEW amount \in Nat,
           tokens[from] >= amount, tokens' = Moved(from, to, amount)
    PROVE  /\ DOMAIN tokens' = DOMAIN tokens
           /\ \A a \in DOMAIN tokens : tokens'[a] \in Nat
           /\ SumOver(DOMAIN tokens', tokens') = SumOver(DOMAIN tokens, tokens)
<1> DEFINE S == DOMAIN tokens
<1>1. IsFiniteSet(S) /\ \A a \in S : tokens[a] \in Nat
  BY FiniteTokens DEF TokensOK
<1>2. tokens' = [a \in S |-> IF from = to THEN tokens[a]
                             ELSE IF a = from THEN tokens[a] - amount
                             ELSE IF a = to THEN tokens[a] + amount ELSE tokens[a]]
  BY DEF Moved
<1>3. CASE from = to
  <2>1. DOMAIN tokens' = S /\ \A a \in S : tokens'[a] = tokens[a]
    BY <1>2, <1>3
  <2> QED
    BY <1>1, <2>1, SumSame
<1>4. CASE from # to
  <2>1. /\ DOMAIN tokens' = S
        /\ tokens'[from] = tokens[from] - amount
        /\ tokens'[to] = tokens[to] + amount
        /\ \A a \in S \ {from, to} : tokens'[a] = tokens[a]
    BY <1>2, <1>4
  <2>3. tokens[from] - amount \in Nat /\ tokens[to] + amount \in Nat
    BY <1>1
  <2> HIDE DEF S
  <2>4. \A a \in S : tokens'[a] \in Nat
    BY <1>1, <2>1, <2>3
  <2>5. from \in S /\ to \in S \ {from}
    BY <1>4 DEF S
  <2>6. SumOver(S, tokens') = SumOver(S, tokens)
    BY <1>1, <2>1, <2>4, <2>5, SumMoves
  <2> QED
    BY <2>1, <2>4, <2>6 DEF S
<1> QED
  BY <1>3, <1>4

\* At the start there are wallets, and no accounts of the program.
LEMMA InvInit == Init => AccountsInv
<1> SUFFICES ASSUME Init PROVE AccountsInv
  OBVIOUS
<1>1. DataOK /\ ExistingStates = {}
  BY DEF Init, DataOK, ExistingStates
<1>2. tokens \in [Wallets \cup {TokenAccount(s) : s \in ExistingStates} -> Nat]
  BY <1>1 DEF Init
<1>3. SumOver(DOMAIN tokens, tokens) = 0
  <2>1. Units(DOMAIN tokens, tokens) = {}
    BY DEF Units, Init
  <2> QED
    BY <2>1, FS_EmptySet DEF SumOver
<1>4. paid \in [ClaimStates -> Nat]
  BY DEF Init
<1> QED
  BY <1>1, <1>2, <1>3, <1>4, AccountsAssumption DEF AccountsInv, TokensOK

\* Each effect keeps the invariant.
LEMMA ConfigMadeKeepsInv ==
    ASSUME AccountsInv, NEW admin \in Users, ConfigMade(admin)
    PROVE  AccountsInv'
<1>1. IsConfig(ConfigAddress, <<149, admin>>)
  BY DEF IsConfig
<1>2. DataOK' /\ ExistingStates' = ExistingStates
  BY <1>1, PutKeepsData, KeysAreNotDerived DEF ConfigMade, AccountsInv
<1> QED
  BY <1>2, QuietTokens DEF ConfigMade, AccountsInv

LEMMA StateMadeKeepsInv ==
    ASSUME AccountsInv, NEW state \in StateKeys, NEW authority \in Users, StateMade(state, authority)
    PROVE  AccountsInv'
<1> DEFINE d == <<155, authority, Mint, TokenAccount(state), 0, ZeroHash, 0>>
           account == TokenAccount(state)
           S == DOMAIN tokens
<1>1. IsState(state, d)
  <2>1. ZeroHash # NotARoot
    BY DEF ZeroHash, NotARoot, Bytes32
  <2> QED
    BY <2>1 DEF IsState, StoredRoot
<1>2. Put(state, d)
  BY DEF StateMade
<1> HIDE DEF d
<1>3. DataOK' /\ ExistingStates' = ExistingStates \cup {state}
  BY <1>1, <1>2, PutKeepsData DEF AccountsInv
<1>4. /\ account \notin S /\ paid' = paid
      /\ tokens' = [a \in S \cup {account} |-> IF a \in S THEN tokens[a] ELSE 0]
  BY DEF StateMade
<1>5. tokens \in [Wallets \cup {TokenAccount(s) : s \in ExistingStates} -> Nat]
  BY DEF AccountsInv, TokensOK
<1>6. tokens' \in [S \cup {account} -> Nat]
  BY <1>4, <1>5
<1>7. S \cup {account} = Wallets \cup {TokenAccount(s) : s \in ExistingStates'}
  BY <1>3, <1>5
<1>8. SumOver(DOMAIN tokens', tokens') = SumOver(S, tokens)
  <2>1. IsFiniteSet(S)
    BY FiniteTokens DEF AccountsInv
  <2>2. tokens'[account] = 0 /\ \A a \in S : tokens'[a] = tokens[a] /\ tokens[a] \in Nat
    BY <1>4, <1>5
  <2> HIDE DEF S, account
  <2>3. SumOver(S \cup {account}, tokens') = SumOver(S, tokens') + tokens'[account]
    BY <1>4, <2>1, <2>2, SumAdd
  <2>4. SumOver(S, tokens') = SumOver(S, tokens) /\ SumOver(S, tokens) \in Nat
    BY <2>1, <2>2, SumSame, SumType
  <2>5. DOMAIN tokens' = S \cup {account}
    BY <1>4
  <2> QED
    BY <2>2, <2>3, <2>4, <2>5
<1> QED
  BY <1>3, <1>4, <1>6, <1>7, <1>8 DEF AccountsInv, TokensOK

\* What a root is stored as.
LEMMA RootsAreStored ==
    ASSUME NEW root \in Roots
    PROVE  /\ IsMerkleRoot("Inplace", root) => \A z : StoredRoot(0, root.hash, z)
           /\ ~IsMerkleRoot("Inplace", root) => StoredRoot(1, root.pubkey, root.offset)
<1>1. IsRoot(root)
  BY AccountsAssumption
<1>2. ~IsMerkleRoot("Inplace", root) => <<root.pubkey, root.offset>> \in AddressesOfRoots
  BY DEF AddressesOfRoots
<1> QED
  BY <1>1, <1>2 DEF IsRoot, StoredRoot

LEMMA RootSetKeepsInv ==
    ASSUME AccountsInv, NEW state \in StateKeys, NEW authority \in Users, NEW root \in Roots,
           RootSet(state, authority, root)
    PROVE  AccountsInv'
<1>1. state \in ExistingStates
  BY DEF RootSet
<1>2. PICK x, y, z : /\ StoredRoot(x, y, z)
                     /\ Put(state, <<155, authority, Mint, TokenAccount(state), x, y, z>>)
  BY RootsAreStored, ZenonT(30) DEF RootSet
<1>3. IsState(state, <<155, authority, Mint, TokenAccount(state), x, y, z>>)
  BY <1>2 DEF IsState
<1>4. DataOK' /\ ExistingStates' = ExistingStates
  <2> DEFINE d == <<155, authority, Mint, TokenAccount(state), x, y, z>>
  <2>1. IsState(state, d) /\ Put(state, d)
    BY <1>2, <1>3
  <2> HIDE DEF d
  <2> QED
    BY <1>1, <2>1, PutKeepsData DEF AccountsInv
<1> QED
  BY <1>4, QuietTokens DEF RootSet, AccountsInv

LEMMA AuthoritySetKeepsInv ==
    ASSUME AccountsInv, NEW state \in StateKeys, NEW signer, NEW key \in Users, AuthoritySet(state, signer, key)
    PROVE  AccountsInv'
<1> DEFINE old == accountData[state]
           d == <<155, key, Mint, TokenAccount(state), old[5], old[6], old[7]>>
<1>1. state \in ExistingStates /\ Put(state, d)
  BY DEF AuthoritySet
<1>2. StoredRoot(old[5], old[6], old[7])
  BY <1>1, KindsOfAccounts DEF AccountsInv, IsState, ExistingStates
<1>3. IsState(state, d)
  <2> HIDE DEF old
  <2> QED
    BY <1>2 DEF IsState
<1> HIDE DEF d
<1>4. DataOK' /\ ExistingStates' = ExistingStates
  BY <1>1, <1>3, PutKeepsData DEF AccountsInv
<1> QED
  BY <1>4, QuietTokens DEF AuthoritySet, AccountsInv

LEMMA RewardsClaimedKeepsInv ==
    ASSUME AccountsInv, NEW state \in StateKeys, NEW owner \in Users, NEW total \in Nat, NEW to,
           RewardsClaimed(state, owner, total, to)
    PROVE  AccountsInv'
<1> DEFINE claimState == ClaimStateOf(state, owner)
           amount == total - ClaimedRewards(claimState)
           from == TokenAccount(state)
<1>1. /\ state \in ExistingStates /\ to \in DOMAIN tokens
      /\ total > ClaimedRewards(claimState)
      /\ tokens[from] >= amount
      /\ tokens' = Moved(from, to, amount)
      /\ Put(claimState, <<71, owner, total>>)
      /\ paid' = [paid EXCEPT ![claimState] = @ + tokens[from] - tokens'[from]]
  BY DEF RewardsClaimed
<1>2. IsClaim(claimState, <<71, owner, total>>)
  BY <1>1 DEF IsClaim
<1>3. claimState \in ClaimStates /\ claimState \notin StateKeys
  BY KeysAreNotDerived DEF ClaimStates
<1>4. DataOK' /\ ExistingStates' = ExistingStates
  <2> DEFINE d == <<71, owner, total>>
  <2>1. IsClaim(claimState, d) /\ Put(claimState, d)
    BY <1>1, <1>2
  <2> HIDE DEF d, claimState
  <2> QED
    BY <1>3, <2>1, PutKeepsData DEF AccountsInv
<1>5. amount \in Nat
  BY <1>1, ClaimedIsNat DEF AccountsInv
<1>6. from \in DOMAIN tokens /\ \A a \in DOMAIN tokens : tokens[a] \in Nat
  BY <1>1 DEF AccountsInv, TokensOK
<1> HIDE DEF amount, from, claimState
<1>7. /\ DOMAIN tokens' = DOMAIN tokens
      /\ \A a \in DOMAIN tokens : tokens'[a] \in Nat
      /\ SumOver(DOMAIN tokens', tokens') = SumOver(DOMAIN tokens, tokens)
  BY <1>1, <1>5, <1>6, MovedKeepsSum DEF AccountsInv
<1>8. tokens' = [a \in DOMAIN tokens |-> tokens'[a]]
  BY <1>1 DEF Moved
<1>9. TokensOK'
  BY <1>4, <1>7, <1>8 DEF AccountsInv, TokensOK
<1>10. tokens[from] - tokens'[from] \in Nat
  <2>1. tokens'[from] = IF from = to THEN tokens[from] ELSE tokens[from] - amount
    BY <1>1, <1>6 DEF Moved
  <2> QED
    BY <1>5, <1>6, <1>1, <2>1
<1>11. paid' \in [ClaimStates -> Nat]
  <2>1. paid \in [ClaimStates -> Nat] /\ paid[claimState] \in Nat
    BY <1>3 DEF AccountsInv
  <2>2. paid[claimState] + tokens[from] - tokens'[from] \in Nat
    BY <1>6, <1>7, <1>10, <2>1
  <2> QED
    BY <1>1, <2>1, <2>2
<1> QED
  BY <1>4, <1>9, <1>11 DEF AccountsInv

LEMMA FundKeepsInv == ASSUME AccountsInv, Fund PROVE AccountsInv'
<1>1. PICK account \in DOMAIN tokens \ Wallets :
         /\ SumOver(DOMAIN tokens, tokens) < Supply
         /\ tokens' = [tokens EXCEPT ![account] = @ + 1]
         /\ UNCHANGED <<accountData, paid>>
  BY DEF Fund
<1> DEFINE S == DOMAIN tokens
<1>2. IsFiniteSet(S) /\ \A a \in S : tokens[a] \in Nat
  BY FiniteTokens DEF AccountsInv, TokensOK
<1>3. /\ DOMAIN tokens' = S /\ account \in S
      /\ tokens'[account] = tokens[account] + 1
      /\ \A a \in S \ {account} : tokens[a] = tokens'[a]
  BY <1>1
<1>4. \A a \in S : tokens[a] \in Nat /\ tokens'[a] \in Nat
  BY <1>2, <1>3
<1> HIDE DEF S
<1>5. SumOver(S, tokens') = SumOver(S, tokens) - tokens[account] + tokens'[account]
  BY <1>2, <1>3, <1>4, SumUpdate
<1>6. SumOver(S, tokens) \in Nat
  BY <1>2, SumType
<1>7. SumOver(S, tokens') = SumOver(S, tokens) + 1
  BY <1>3, <1>4, <1>5, <1>6
<1>8. SumOver(S, tokens') <= Supply
  BY <1>1, <1>6, <1>7, AccountsAssumption DEF S
<1>9. ExistingStates' = ExistingStates /\ DataOK'
  BY <1>1 DEF ExistingStates, AccountsInv, DataOK, IsConfig, IsState, IsClaim
<1>10. tokens' \in [Wallets \cup {TokenAccount(s) : s \in ExistingStates} -> Nat]
  BY <1>1, <1>4 DEF AccountsInv, TokensOK, S
<1> QED
  BY <1>1, <1>3, <1>8, <1>9, <1>10 DEF AccountsInv, TokensOK

\* Every step keeps the invariant.
LEMMA InvStep == AccountsInv /\ [Next]_vars => AccountsInv'
<1> SUFFICES ASSUME AccountsInv, [Next]_vars PROVE AccountsInv'
  OBVIOUS
<1>1. CASE Next
  BY <1>1, StepEffect, ConfigMadeKeepsInv, StateMadeKeepsInv, RootSetKeepsInv, AuthoritySetKeepsInv,
     RewardsClaimedKeepsInv, FundKeepsInv DEF AccountsInv
<1>2. CASE UNCHANGED vars
  BY <1>2 DEF vars, AccountsInv, DataOK, TokensOK, ExistingStates, IsConfig, IsState, IsClaim
<1> QED
  BY <1>1, <1>2

\* The program's accounts are always what AccountsInv says: a configuration at the one
\* address derived for it, rewards states at keys with the token account of their own
\* vault, claim states at the address derived from an existing rewards state and their
\* owner, and no more tokens than there were at the start (lib.rs:12-103, 107-195).
THEOREM AccountsInvCorrect == Spec => []AccountsInv
<1>1. Init => AccountsInv
  BY InvInit
<1>2. AccountsInv /\ [Next]_vars => AccountsInv'
  BY InvStep
<1> QED
  BY <1>1, <1>2, PTL DEF Spec

\* No account has more tokens than there are.
LEMMA TokensBounded ==
    ASSUME TokensOK, NEW account \in DOMAIN tokens
    PROVE  tokens[account] \in 0..Supply
<1>1. IsFiniteSet(DOMAIN tokens) /\ \A a \in DOMAIN tokens : tokens[a] \in Nat
  BY FiniteTokens DEF TokensOK
<1>2. tokens[account] <= SumOver(DOMAIN tokens, tokens)
  BY <1>1, SumBounds
<1>3. SumOver(DOMAIN tokens, tokens) \in Nat /\ tokens[account] \in Nat
  BY <1>1, SumType
<1> QED
  BY <1>2, <1>3, AccountsAssumption DEF TokensOK

\* The invariant says what the client decodes of every account.
LEMMA InvGivesType == AccountsInv => AccountsTypeOK
<1> SUFFICES ASSUME AccountsInv PROVE AccountsTypeOK
  OBVIOUS
<1>1. tokens \in [DOMAIN tokens -> 0..Supply]
  BY TokensBounded DEF AccountsInv, TokensOK
<1>2. ASSUME NEW address \in DOMAIN accountData
      PROVE  LET kind == IdentifyAccount(accountData[address])
             IN \/ /\ kind = "GlobalConfig"
                   /\ address = Pda("global_config", << >>)
                   /\ DecodeGlobalConfig(accountData[address]).admin \in Users
                \/ /\ kind = "RewardsState"
                   /\ address \in StateKeys
                   /\ DecodeRewardsState(accountData[address]).authority \in Users
                   /\ DecodeRewardsState(accountData[address]).rewardsTokenAccount = TokenAccount(address)
                   /\ TokenAccount(address) \in DOMAIN tokens
                \/ /\ kind = "ClaimState"
                   /\ \E state \in StateKeys \cap DOMAIN accountData :
                         address = ClaimStateOf(state, DecodeClaimState(accountData[address]).owner)
  <2> DEFINE d == accountData[address]
  <2>1. IsConfig(address, d) \/ IsState(address, d) \/ IsClaim(address, d)
    BY <1>2 DEF AccountsInv, DataOK
  <2>2. address \in StateKeys => TokenAccount(address) \in DOMAIN tokens
    BY <1>2 DEF AccountsInv, TokensOK, ExistingStates
  <2> HIDE DEF d
  <2>3. CASE IsConfig(address, d)
    <3>1. d[1] = 149 /\ d[2] \in Users /\ address = Pda("global_config", << >>)
      BY <2>3 DEF IsConfig, ConfigAddress
    <3> QED
      BY <3>1 DEF IdentifyAccount, DecodeGlobalConfig, d
  <2>4. CASE IsState(address, d)
    <3>1. d[1] = 155 /\ d[2] \in Users /\ d[4] = TokenAccount(address) /\ address \in StateKeys
      BY <2>4 DEF IsState
    <3> QED
      BY <2>2, <3>1 DEF IdentifyAccount, DecodeRewardsState, d
  <2>5. CASE IsClaim(address, d)
    <3>1. d[1] = 71 /\ \E state \in ExistingStates : address = ClaimStateOf(state, d[2])
      BY <2>5 DEF IsClaim
    <3> QED
      BY <3>1 DEF IdentifyAccount, DecodeClaimState, ExistingStates, d
  <2> QED
    BY <2>1, <2>3, <2>4, <2>5
<1> QED
  BY <1>1, <1>2 DEF AccountsTypeOK

\* Every account that the client can fetch is where its kind and its fields say it is,
\* whatever accounts the callers mixed up (lib.rs:107-195).
THEOREM AccountsTypeCorrect == Spec => []AccountsTypeOK
BY AccountsInvCorrect, InvGivesType, PTL

-----------------------------------------------------------------------------
(* The refinement of Rewards *)

\* What the data of a rewards state says of its root.
RootMeant(d) ==
    IF d[5] = 0 THEN [type |-> "Inplace", hash |-> LeavesOf(d[6])]
                ELSE [type |-> "External", slot |-> <<d[6], d[7]>>]

\* The books have the root and the authority that the data of a rewards state says.
LEMMA RootsAreMeant ==
    ASSUME DataOK, NEW s \in ExistingStates
    PROVE  /\ MerkleRootsOfStates[s] = RootMeant(accountData[s])
           /\ Authorities[s] = accountData[s][2]
           /\ IsState(s, accountData[s])
           /\ RootOf(s) = <<accountData[s][5], accountData[s][6], accountData[s][7]>>
<1> DEFINE d == accountData[s]
<1>1. s \in StateKeys /\ s \in DOMAIN accountData
  BY DEF ExistingStates
<1>2. IsState(s, d)
  BY <1>1, KindsOfAccounts
<1>3. RootOf(s) = <<d[5], d[6], d[7]>>
  BY <1>2, RootOfState DEF RootOf
<1>4. Authorities[s] = d[2]
  BY <1>1 DEF Authorities
<1>5. MerkleRootsOfStates[s] =
         IF RootOf(s)[1] = 0 THEN [type |-> "Inplace", hash |-> LeavesOf(RootOf(s)[2])]
         ELSE [type |-> "External", slot |-> Tail(RootOf(s))]
  BY <1>1 DEF MerkleRootsOfStates
<1> HIDE DEF d
<1>6. \A x, y, z : Tail(<<x, y, z>>) = <<y, z>>
  OBVIOUS
<1>7. Tail(RootOf(s)) = <<d[6], d[7]>> /\ RootOf(s)[1] = d[5] /\ RootOf(s)[2] = d[6]
  BY <1>3, <1>6
<1>8. MerkleRootsOfStates[s] = RootMeant(d)
  BY <1>5, <1>7 DEF RootMeant
<1> QED
  BY <1>2, <1>3, <1>4, <1>8 DEF d

\* The books have zeroes for a rewards state that does not exist.
LEMMA RootsAreZeroed ==
    ASSUME NEW s \in StateKeys \ ExistingStates
    PROVE  MerkleRootsOfStates[s] = [type |-> "Inplace", hash |-> {}] /\ Authorities[s] = NoAddress
BY DEF MerkleRootsOfStates, Authorities, ExistingStates

\* A rewards state exists for the books just when its account does.
LEMMA BooksExist ==
    ASSUME DataOK, NEW s \in StateKeys
    PROVE  Books!Exists(s) <=> s \in ExistingStates
<1>1. CASE s \in ExistingStates
  <2>1. Authorities[s] \in Users
    BY <1>1, RootsAreMeant DEF IsState
  <2> QED
    BY <1>1, <2>1, AccountsAssumption DEF Books!Exists
<1>2. CASE s \notin ExistingStates
  BY <1>2, RootsAreZeroed DEF Books!Exists
<1> QED
  BY <1>1, <1>2

\* The live tree of the books is that of the hash a proof must lead to.
LEMMA BooksLive ==
    ASSUME DataOK, NEW s \in ExistingStates
    PROVE  Books!LiveTree(s) = LeavesOf(LiveHash(s))
<1> DEFINE d == accountData[s]
<1>1. MerkleRootsOfStates[s] = RootMeant(d) /\ StoredRoot(d[5], d[6], d[7])
  BY RootsAreMeant DEF IsState
<1>2. CASE d[5] = 0
  <2>1. MerkleRootsOfStates[s].type = "Inplace" /\ MerkleRootsOfStates[s].hash = LeavesOf(d[6])
    BY <1>1, <1>2 DEF RootMeant
  <2> QED
    BY <1>2, <2>1 DEF Books!LiveTree, LiveHash
<1>3. CASE d[5] # 0
  <2>1. <<d[6], d[7]>> \in AddressesOfRoots
    BY <1>1, <1>3 DEF StoredRoot
  <2>2. MerkleRootsOfStates[s].type = "External" /\ MerkleRootsOfStates[s].slot = <<d[6], d[7]>>
    BY <1>1, <1>3 DEF RootMeant
  <2>3. LiveHash(s) = RootAtAddress(<<d[6], d[7]>>)
    BY <1>3 DEF LiveHash
  <2> QED
    BY <2>1, <2>2, <2>3 DEF Books!LiveTree
<1> QED
  BY <1>2, <1>3

\* What the books make of a root that an authority sets.
LEMMA BooksRoots ==
    ASSUME NEW x, NEW y, NEW z, StoredRoot(x, y, z), NEW d, d[5] = x, d[6] = y, d[7] = z
    PROVE  RootMeant(d) \in Books!MerkleRoots
<1>1. CASE x = 0
  <2>1. LeavesOf(y) \in TreesAsSets
    BY DEF TreesAsSets, LeavesOf
  <2> QED
    BY <1>1, <2>1 DEF RootMeant, Books!MerkleRoots, Books!Inplace
<1>2. CASE x # 0
  <2>1. <<y, z>> \in AddressesOfRoots
    BY <1>2 DEF StoredRoot
  <2> QED
    BY <1>2, <2>1 DEF RootMeant, Books!MerkleRoots, Books!External
<1> QED
  BY <1>1, <1>2

\* Vaults hold what their token accounts hold, and none of them is a wallet.
LEMMA VaultsHold ==
    ASSUME TokensOK, NEW s \in StateKeys
    PROVE  /\ VaultBalances[s] = VaultBalance(s) /\ VaultBalance(s) \in Nat
           /\ s \in ExistingStates =>
                 TokenAccount(s) \in DOMAIN tokens /\ VaultBalance(s) = tokens[TokenAccount(s)]
           /\ s \notin ExistingStates => TokenAccount(s) \notin DOMAIN tokens /\ VaultBalance(s) = 0
<1>1. TokenAccount(s) \in DOMAIN tokens <=> s \in ExistingStates
  <2>1. \A t \in ExistingStates : TokenAccount(t) = TokenAccount(s) => t = s
    BY AddressesDetermine
  <2>2. TokenAccount(s) \notin Wallets
    BY KeysAreNotDerived DEF Wallets
  <2> QED
    BY <2>1, <2>2 DEF TokensOK
<1> QED
  BY <1>1 DEF TokensOK, VaultBalance, VaultBalances

\* The vaults together hold no more than all token accounts.
LEMMA VaultsSum ==
    ASSUME TokensOK
    PROVE  /\ SumOver(StateKeys, VaultBalances) \in Nat
           /\ SumOver(StateKeys, VaultBalances) <= SumOver(DOMAIN tokens, tokens)
<1> DEFINE accountOf == [s \in StateKeys |-> TokenAccount(s)]
<1>1. IsFiniteSet(DOMAIN tokens) /\ IsFiniteSet(StateKeys)
  BY FiniteTokens
<1>2. \A y \in DOMAIN tokens : tokens[y] \in Nat
  BY DEF TokensOK
<1>3. \A s \in StateKeys : VaultBalances[s] \in Nat
  BY VaultsHold
<1>4. \A s \in StateKeys : VaultBalances[s] > 0 =>
         accountOf[s] \in DOMAIN tokens /\ VaultBalances[s] <= tokens[accountOf[s]]
  <2> TAKE s \in StateKeys
  <2>1. CASE s \in ExistingStates
    BY <1>3, <2>1, VaultsHold
  <2>2. CASE s \notin ExistingStates
    BY <2>2, VaultsHold
  <2> QED
    BY <2>1, <2>2
<1>5. \A s, t \in StateKeys : accountOf[s] = accountOf[t] => s = t
  BY AddressesDetermine
<1> HIDE DEF accountOf
<1>6. SumOver(StateKeys, VaultBalances) <= SumOver(DOMAIN tokens, tokens)
  BY <1>1, <1>2, <1>3, <1>4, <1>5, SumInjects
<1> QED
  BY <1>1, <1>3, <1>6, SumType

\* The books at the start.
LEMMA BooksInit == Init => Books!RewardsInit
<1> SUFFICES ASSUME Init PROVE Books!RewardsInit
  OBVIOUS
<1>1. AccountsInv /\ ExistingStates = {}
  BY InvInit DEF Init, ExistingStates
<1>2. AdminOfConfig = NoAddress
  BY DEF Init, AdminOfConfig
<1>3. /\ Authorities = [s \in StateKeys |-> NoAddress]
      /\ MerkleRootsOfStates = [s \in StateKeys |-> Books!Inplace({})]
  BY DEF Init, Authorities, MerkleRootsOfStates, Books!Inplace
<1>4. Claims = [s \in StateKeys |-> [o \in Users |-> 0]]
  BY DEF Init, Claims, ClaimedRewards
<1>5. VaultBalances = [s \in StateKeys |-> 0]
  <2>1. \A s \in StateKeys : VaultBalance(s) = 0
    BY <1>1, VaultsHold DEF AccountsInv
  <2> QED
    BY <2>1 DEF VaultBalances
<1>6. ASSUME NEW S, NEW f, \A x \in S : f[x] = 0 PROVE SumOver(S, f) = 0
  <2>1. Units(S, f) = {}
    BY <1>6 DEF Units
  <2> QED
    BY <2>1, FS_EmptySet DEF SumOver
<1>7. Supply - SumOver(StateKeys, VaultBalances) = Supply
  <2>1. \A s \in StateKeys : VaultBalances[s] = 0
    BY <1>5
  <2> HIDE DEF VaultBalances
  <2>2. SumOver(StateKeys, VaultBalances) = 0
    BY <1>6, <2>1
  <2> QED
    BY <2>2, AccountsAssumption
<1>8. \A s \in StateKeys : PaidBy(s) = [o \in Users |-> 0]
  BY DEF Init, PaidBy, ClaimStates
<1>9. Payouts = [s \in StateKeys |-> [o \in Users |-> 0]]
  BY <1>8 DEF Payouts
<1>10. Deposits = [s \in StateKeys |-> 0]
  <2>1. ASSUME NEW s \in StateKeys PROVE VaultBalance(s) + SumOver(Users, PaidBy(s)) = 0
    <3>1. \A o \in Users : PaidBy(s)[o] = 0
      BY <1>8
    <3>2. SumOver(Users, PaidBy(s)) = 0
      BY <1>6, <3>1
    <3>3. VaultBalance(s) = 0
      BY <1>1, VaultsHold DEF AccountsInv
    <3> QED
      BY <3>2, <3>3
  <2> QED
    BY <2>1 DEF Deposits
<1> QED
  BY <1>2, <1>3, <1>4, <1>5, <1>7, <1>9, <1>10 DEF Books!RewardsInit

-----------------------------------------------------------------------------
(* What a step leaves as it is *)

\* Without a transfer the balances and payouts of the books stay.
LEMMA NoTokensMove ==
    ASSUME UNCHANGED <<tokens, paid>>
    PROVE  UNCHANGED <<VaultBalances, Payouts, Deposits>>
<1>1. \A s : VaultBalance(s)' = VaultBalance(s) /\ PaidBy(s)' = PaidBy(s)
  BY DEF VaultBalance, PaidBy
<1> QED
  BY <1>1 DEF VaultBalances, Payouts, Deposits

\* Without a write to the configuration the administrator stays.
LEMMA ConfigStays ==
    ASSUME NEW address, NEW d, Put(address, d), address # ConfigAddress
    PROVE  AdminOfConfig' = AdminOfConfig
BY DEF Put, AdminOfConfig, ConfigAddress

\* Without a write to a rewards state the authorities and the roots stay.
LEMMA StatesStay ==
    ASSUME NEW address, NEW d, Put(address, d), address \notin StateKeys
    PROVE  UNCHANGED <<Authorities, MerkleRootsOfStates>>
<1>1. ASSUME NEW s \in StateKeys
      PROVE  /\ s \in DOMAIN accountData' <=> s \in DOMAIN accountData
             /\ s \in DOMAIN accountData => accountData'[s] = accountData[s]
  BY DEF Put
<1>2. ASSUME NEW s \in StateKeys, s \in DOMAIN accountData PROVE RootOf(s)' = RootOf(s)
  BY <1>1, <1>2 DEF RootOf
<1> QED
  BY <1>1, <1>2 DEF Authorities, MerkleRootsOfStates

\* Without a write to a claim state what was claimed stays.
LEMMA ClaimsStay ==
    ASSUME NEW address, NEW d, Put(address, d),
           \A s \in StateKeys, o \in Users : address # ClaimStateOf(s, o)
    PROVE  Claims' = Claims
<1>1. \A s \in StateKeys, o \in Users : ClaimedRewards(ClaimStateOf(s, o))' = ClaimedRewards(ClaimStateOf(s, o))
  BY DEF Put, ClaimedRewards
<1> QED
  BY <1>1 DEF Claims

\* The account of one rewards state is written.
LEMMA StateWritten ==
    ASSUME NEW s \in StateKeys, NEW d, IsState(s, d), Put(s, d)
    PROVE  /\ Authorities' = [Authorities EXCEPT ![s] = d[2]]
           /\ MerkleRootsOfStates' = [MerkleRootsOfStates EXCEPT ![s] = RootMeant(d)]
           /\ UNCHANGED <<AdminOfConfig, Claims>>
<1>1. s \in DOMAIN accountData' /\ accountData'[s] = d
  BY DEF Put
<1>2. RootOf(s)' = <<d[5], d[6], d[7]>>
  BY <1>1, RootOfState DEF RootOf
<1>3. \A x, y, z : Tail(<<x, y, z>>) = <<y, z>>
  OBVIOUS
<1>4. Tail(RootOf(s)') = <<d[6], d[7]>> /\ RootOf(s)'[1] = d[5] /\ RootOf(s)'[2] = d[6]
  BY <1>2, <1>3
<1>5. ASSUME NEW t \in StateKeys, t # s
      PROVE  /\ t \in DOMAIN accountData' <=> t \in DOMAIN accountData
             /\ t \in DOMAIN accountData => accountData'[t] = accountData[t] /\ RootOf(t)' = RootOf(t)
  BY <1>5 DEF Put, RootOf
<1>6. Authorities' = [Authorities EXCEPT ![s] = d[2]]
  BY <1>1, <1>5 DEF Authorities
<1>7. MerkleRootsOfStates' = [MerkleRootsOfStates EXCEPT ![s] = RootMeant(d)]
  <2> DEFINE meant(t) == IF t \notin DOMAIN accountData THEN [type |-> "Inplace", hash |-> {}]
                         ELSE IF RootOf(t)[1] = 0 THEN [type |-> "Inplace", hash |-> LeavesOf(RootOf(t)[2])]
                         ELSE [type |-> "External", slot |-> Tail(RootOf(t))]
  <2>1. meant(s)' = RootMeant(d)
    BY <1>1, <1>4 DEF RootMeant
  <2>2. \A t \in StateKeys \ {s} : meant(t)' = meant(t)
    BY <1>5
  <2>3. MerkleRootsOfStates = [t \in StateKeys |-> meant(t)]
    BY DEF MerkleRootsOfStates
  <2>4. MerkleRootsOfStates' = [t \in StateKeys |-> meant(t)']
    BY DEF MerkleRootsOfStates
  <2> HIDE DEF meant
  <2> QED
    BY <2>1, <2>2, <2>3, <2>4
<1>8. s # ConfigAddress /\ \A t \in StateKeys, o \in Users : s # ClaimStateOf(t, o)
  BY KeysAreNotDerived
<1>9. AdminOfConfig' = AdminOfConfig
  BY <1>8, ConfigStays
<1>10. Claims' = Claims
  BY <1>8, ClaimsStay
<1> QED
  BY <1>6, <1>7, <1>9, <1>10

-----------------------------------------------------------------------------
(* Each effect is an instruction of Rewards *)

\* The steps that move no tokens.
BooksUnmoved == UNCHANGED <<VaultBalances, Payouts, Deposits>>

\* The configuration is made: the books are initialized.
LEMMA ConfigMadeMaps ==
    ASSUME NEW admin \in Users, ConfigMade(admin)
    PROVE  Books!Instructions
<1>1. Put(ConfigAddress, <<149, admin>>) /\ ConfigAddress \notin DOMAIN accountData /\ UNCHANGED <<tokens, paid>>
  BY DEF ConfigMade
<1>2. AdminOfConfig = NoAddress
  BY <1>1 DEF AdminOfConfig, ConfigAddress
<1>3. AdminOfConfig' = admin
  BY <1>1 DEF Put, AdminOfConfig, ConfigAddress
<1>4. UNCHANGED <<Authorities, MerkleRootsOfStates, Claims>>
  BY <1>1, StatesStay, ClaimsStay, KeysAreNotDerived, AddressesDetermine
<1>5. BooksUnmoved
  BY <1>1, NoTokensMove DEF BooksUnmoved
<1>6. Books!Initialize(admin)
  BY <1>2, <1>3, <1>4, <1>5
     DEF Books!Initialize, BooksUnmoved, Books!tokenVars, Books!historyVars
<1> QED
  BY <1>6 DEF Books!Instructions

\* A rewards state is made: so it is in the books.
LEMMA StateMadeMaps ==
    ASSUME AccountsInv, AccountsInv', NEW s \in StateKeys, NEW key \in Users, StateMade(s, key)
    PROVE  Books!Instructions
<1> DEFINE d == <<155, key, Mint, TokenAccount(s), 0, ZeroHash, 0>>
<1>1. s \notin ExistingStates /\ Put(s, d) /\ UNCHANGED paid
  BY DEF StateMade, ExistingStates
<1>2. IsState(s, d) /\ d[2] = key /\ d[5] = 0 /\ d[6] = ZeroHash
  BY DEF IsState, StoredRoot, ZeroHash, NotARoot, Bytes32
<1> HIDE DEF d
<1>3. RootMeant(d) = Books!Inplace({})
  <2>1. LeavesOf(ZeroHash) = {}
    BY AccountsAssumption DEF LeavesOf
  <2> QED
    BY <1>2, <2>1 DEF RootMeant, Books!Inplace
<1>4. /\ Authorities' = [Authorities EXCEPT ![s] = key]
      /\ MerkleRootsOfStates' = [MerkleRootsOfStates EXCEPT ![s] = Books!Inplace({})]
      /\ UNCHANGED <<AdminOfConfig, Claims>>
  BY <1>1, <1>2, <1>3, StateWritten
<1>5. \A t \in StateKeys : VaultBalance(t)' = VaultBalance(t) /\ PaidBy(t)' = PaidBy(t)
  <2>1. DOMAIN tokens' = DOMAIN tokens \cup {TokenAccount(s)} /\ TokenAccount(s) \notin DOMAIN tokens
    BY DEF StateMade
  <2>2. \A a \in DOMAIN tokens' : tokens'[a] = IF a \in DOMAIN tokens THEN tokens[a] ELSE 0
    BY DEF StateMade
  <2> QED
    BY <1>1, <2>1, <2>2 DEF VaultBalance, PaidBy
<1>6. BooksUnmoved
  BY <1>5 DEF BooksUnmoved, VaultBalances, Payouts, Deposits
<1>7. ~Books!Exists(s)
  BY <1>1, BooksExist DEF AccountsInv
<1>8. Books!InitializeRewardsState(s, key)
  BY <1>4, <1>6, <1>7
     DEF Books!InitializeRewardsState, BooksUnmoved, Books!tokenVars, Books!historyVars
<1> QED
  BY <1>8 DEF Books!Instructions

\* A root is set: the books have the tree with that root.
LEMMA RootSetMaps ==
    ASSUME AccountsInv, NEW s \in StateKeys, NEW key \in Users, NEW root \in Roots,
           RootSet(s, key, root)
    PROVE  Books!Instructions
<1>1. PICK x, y, z : /\ StoredRoot(x, y, z)
                     /\ Put(s, <<155, key, Mint, TokenAccount(s), x, y, z>>)
  BY RootsAreStored, ZenonT(30) DEF RootSet
<1>2. s \in ExistingStates /\ key = accountData[s][2] /\ UNCHANGED <<tokens, paid>>
  BY DEF RootSet
<1> DEFINE d == <<155, key, Mint, TokenAccount(s), x, y, z>>
<1>3. IsState(s, d) /\ Put(s, d) /\ d[2] = key /\ d[5] = x /\ d[6] = y /\ d[7] = z
  BY <1>1 DEF IsState
<1> HIDE DEF d
<1>4. RootMeant(d) \in Books!MerkleRoots
  BY <1>1, <1>3, BooksRoots
<1>5. /\ Authorities' = [Authorities EXCEPT ![s] = key]
      /\ MerkleRootsOfStates' = [MerkleRootsOfStates EXCEPT ![s] = RootMeant(d)]
      /\ UNCHANGED <<AdminOfConfig, Claims>>
  BY <1>3, StateWritten
<1>6. key = Authorities[s] /\ Books!Exists(s)
  BY <1>2, RootsAreMeant, BooksExist DEF AccountsInv
<1>7. Authorities' = Authorities
  BY <1>5, <1>6 DEF Authorities
<1>8. BooksUnmoved
  BY <1>2, NoTokensMove DEF BooksUnmoved
<1>9. Books!UpdateMerkleRoot(s, key, RootMeant(d))
  BY <1>5, <1>6, <1>7, <1>8
     DEF Books!UpdateMerkleRoot, BooksUnmoved, Books!configVars, Books!tokenVars, Books!historyVars
<1> QED
  BY <1>4, <1>9 DEF Books!Instructions

\* An authority is set: so it is in the books.
LEMMA AuthoritySetMaps ==
    ASSUME AccountsInv, NEW s \in StateKeys, NEW signer \in Users, NEW key \in Users,
           AuthoritySet(s, signer, key)
    PROVE  Books!Instructions
<1> DEFINE old == accountData[s]
           d == <<155, key, Mint, TokenAccount(s), old[5], old[6], old[7]>>
<1>1. /\ s \in ExistingStates /\ ConfigAddress \in DOMAIN accountData
      /\ signer \in {accountData[ConfigAddress][2], old[2]}
      /\ Put(s, d)
      /\ UNCHANGED <<tokens, paid>>
  BY DEF AuthoritySet
<1>2. /\ IsState(s, old) /\ Authorities[s] = old[2] /\ MerkleRootsOfStates[s] = RootMeant(old)
  BY <1>1, RootsAreMeant DEF AccountsInv
<1>3. AdminOfConfig = accountData[ConfigAddress][2] /\ AdminOfConfig # NoAddress
  <2>1. IsConfig(ConfigAddress, accountData[ConfigAddress])
    BY <1>1, KindsOfAccounts DEF AccountsInv
  <2>2. AdminOfConfig = accountData[ConfigAddress][2]
    BY <1>1 DEF AdminOfConfig, ConfigAddress
  <2> QED
    BY <2>1, <2>2, AccountsAssumption DEF IsConfig
<1> HIDE DEF old
<1>4. IsState(s, d) /\ d[2] = key /\ RootMeant(d) = RootMeant(old)
  <2>1. d[2] = key /\ d[5] = old[5] /\ d[6] = old[6] /\ d[7] = old[7]
    OBVIOUS
  <2>2. IsState(s, d)
    BY <1>2 DEF IsState
  <2> HIDE DEF d
  <2> QED
    BY <2>1, <2>2 DEF RootMeant
<1> HIDE DEF d
<1>5. /\ Authorities' = [Authorities EXCEPT ![s] = key]
      /\ MerkleRootsOfStates' = [MerkleRootsOfStates EXCEPT ![s] = RootMeant(d)]
      /\ UNCHANGED <<AdminOfConfig, Claims>>
  BY <1>1, <1>4, StateWritten
<1>6. MerkleRootsOfStates' = MerkleRootsOfStates
  BY <1>2, <1>4, <1>5 DEF MerkleRootsOfStates
<1>7. BooksUnmoved
  BY <1>1, NoTokensMove DEF BooksUnmoved
<1>8. Books!Exists(s)
  BY <1>1, BooksExist DEF AccountsInv
<1>9. Books!UpdateAuthority(s, signer, key)
  BY <1>1, <1>2, <1>3, <1>5, <1>6, <1>7, <1>8
     DEF Books!UpdateAuthority, BooksUnmoved, Books!tokenVars, Books!historyVars
<1> QED
  BY <1>9 DEF Books!Instructions

\* A claim writes one claim state, and no other account.
LEMMA ClaimWritten ==
    ASSUME NEW s \in StateKeys, NEW owner \in Users, NEW total, Put(ClaimStateOf(s, owner), <<71, owner, total>>)
    PROVE  /\ Claims' = [Claims EXCEPT ![s][owner] = total]
           /\ UNCHANGED <<AdminOfConfig, Authorities, MerkleRootsOfStates>>
<1> DEFINE a == ClaimStateOf(s, owner)
           d == <<71, owner, total>>
<1>1. a \notin StateKeys /\ a # ConfigAddress
  BY KeysAreNotDerived, AddressesDetermine
<1>2. d[3] = total
  OBVIOUS
<1>3. Put(a, d)
  OBVIOUS
<1> HIDE DEF a, d
<1>4. UNCHANGED <<AdminOfConfig, Authorities, MerkleRootsOfStates>>
  BY <1>1, <1>3, ConfigStays, StatesStay
<1>5. ClaimedRewards(a)' = total
  BY <1>2, <1>3 DEF Put, ClaimedRewards
<1>6. ASSUME NEW t \in StateKeys, NEW o \in Users, t # s \/ o # owner
      PROVE  ClaimedRewards(ClaimStateOf(t, o))' = ClaimedRewards(ClaimStateOf(t, o))
  <2>1. ClaimStateOf(t, o) # a
    BY <1>6, AddressesDetermine DEF a
  <2> QED
    BY <1>3, <2>1 DEF Put, ClaimedRewards
<1> DEFINE c(t, o) == ClaimedRewards(ClaimStateOf(t, o))
<1>7. /\ Claims = [t \in StateKeys |-> [o \in Users |-> c(t, o)]]
      /\ Claims' = [t \in StateKeys |-> [o \in Users |-> c(t, o)']]
  BY DEF Claims
<1>8. c(s, owner)' = total /\ \A t \in StateKeys, o \in Users : t # s \/ o # owner => c(t, o)' = c(t, o)
  BY <1>5, <1>6 DEF a
<1> HIDE DEF c
<1>9. Claims' = [Claims EXCEPT ![s][owner] = total]
  BY <1>7, <1>8
<1> QED
  BY <1>4, <1>9

\* What is paid is added to what the owner was paid out of that vault.
LEMMA PaidOut ==
    ASSUME AccountsInv, AccountsInv', NEW s \in StateKeys, NEW owner \in Users, NEW amount \in Nat,
           paid' = [paid EXCEPT ![ClaimStateOf(s, owner)] = @ + amount]
    PROVE  /\ Payouts' = [Payouts EXCEPT ![s][owner] = @ + amount]
           /\ SumOver(Users, PaidBy(s)') = SumOver(Users, PaidBy(s)) + amount
           /\ SumOver(Users, PaidBy(s)) \in Nat
           /\ \A t \in StateKeys \ {s} : PaidBy(t)' = PaidBy(t)
<1> DEFINE p(t, o) == paid[ClaimStateOf(t, o)]
<1>1. \A t \in StateKeys, o \in Users : ClaimStateOf(t, o) \in ClaimStates /\ p(t, o) \in Nat /\ p(t, o)' \in Nat
  BY DEF AccountsInv, ClaimStates
<1>2. p(s, owner)' = p(s, owner) + amount
  BY <1>1 DEF AccountsInv
<1>3. \A t \in StateKeys, o \in Users : t # s \/ o # owner => p(t, o)' = p(t, o)
  <2> TAKE t \in StateKeys, o \in Users
  <2>1. t # s \/ o # owner => ClaimStateOf(t, o) # ClaimStateOf(s, owner)
    BY AddressesDetermine
  <2> QED
    BY <1>1, <2>1 DEF AccountsInv
<1>4. \A t \in StateKeys : PaidBy(t) = [o \in Users |-> p(t, o)] /\ PaidBy(t)' = [o \in Users |-> p(t, o)']
  BY DEF PaidBy
<1> HIDE DEF p
<1>5. \A t \in StateKeys \ {s} : PaidBy(t)' = PaidBy(t)
  BY <1>3, <1>4
<1>6. PaidBy(s)' = [PaidBy(s) EXCEPT ![owner] = @ + amount]
  BY <1>2, <1>3, <1>4
<1>7. Payouts' = [Payouts EXCEPT ![s][owner] = @ + amount]
  <2>1. Payouts = [t \in StateKeys |-> PaidBy(t)] /\ Payouts' = [t \in StateKeys |-> PaidBy(t)']
    BY DEF Payouts
  <2> QED
    BY <1>5, <1>6, <2>1
<1>8. /\ \A o \in Users : PaidBy(s)[o] \in Nat /\ PaidBy(s)'[o] \in Nat
      /\ \A o \in Users \ {owner} : PaidBy(s)[o] = PaidBy(s)'[o]
      /\ PaidBy(s)'[owner] = PaidBy(s)[owner] + amount
  BY <1>1, <1>2, <1>3, <1>4
<1>9. IsFiniteSet(Users)
  BY AccountsAssumption
<1>10. SumOver(Users, PaidBy(s)') = SumOver(Users, PaidBy(s)) - PaidBy(s)[owner] + PaidBy(s)'[owner]
  BY <1>8, <1>9, SumUpdate
<1>11. SumOver(Users, PaidBy(s)) \in Nat
  BY <1>8, <1>9, SumType
<1> QED
  BY <1>5, <1>7, <1>8, <1>10, <1>11

\* The balance of one vault changes, and the tokens outside make up for it.
LEMMA OneVaultChanges ==
    ASSUME AccountsInv, AccountsInv', NEW s \in StateKeys,
           \A t \in StateKeys \ {s} : VaultBalance(t)' = VaultBalance(t)
    PROVE  /\ VaultBalances' = [VaultBalances EXCEPT ![s] = VaultBalance(s)']
           /\ Supply - SumOver(StateKeys, VaultBalances') =
                 Supply - SumOver(StateKeys, VaultBalances) + VaultBalance(s) - VaultBalance(s)'
           /\ VaultBalance(s) \in Nat /\ VaultBalance(s)' \in Nat
           /\ SumOver(StateKeys, VaultBalances) \in Nat
<1>1. VaultBalances' = [VaultBalances EXCEPT ![s] = VaultBalance(s)']
  BY DEF VaultBalances
<1>2. \A t \in StateKeys : VaultBalances[t] = VaultBalance(t) /\ VaultBalance(t) \in Nat
  BY VaultsHold DEF AccountsInv
<1>3. VaultBalance(s)' \in Nat
  BY DEF AccountsInv, TokensOK, VaultBalance
<1>4. /\ \A t \in StateKeys : VaultBalances[t] \in Nat /\ VaultBalances'[t] \in Nat
      /\ \A t \in StateKeys \ {s} : VaultBalances[t] = VaultBalances'[t]
      /\ VaultBalances[s] = VaultBalance(s) /\ VaultBalances'[s] = VaultBalance(s)'
  <2>1. \A t \in StateKeys : VaultBalances'[t] = VaultBalance(t)'
    BY DEF VaultBalances
  <2> QED
    BY <1>2, <1>3, <2>1
<1>5. IsFiniteSet(StateKeys)
  BY AccountsAssumption
<1>6. SumOver(StateKeys, VaultBalances') =
         SumOver(StateKeys, VaultBalances) - VaultBalances[s] + VaultBalances'[s]
  BY <1>4, <1>5, SumUpdate
<1>7. SumOver(StateKeys, VaultBalances) \in Nat
  BY <1>4, <1>5, SumType
<1> QED
  BY <1>1, <1>2, <1>3, <1>4, <1>6, <1>7, AccountsAssumption

\* A transfer into a vault is a deposit of the books.
LEMMA FundMaps == ASSUME AccountsInv, AccountsInv', Fund PROVE Books!Funding
<1>1. PICK account \in DOMAIN tokens \ Wallets :
         /\ SumOver(DOMAIN tokens, tokens) < Supply
         /\ tokens' = [tokens EXCEPT ![account] = @ + 1]
         /\ UNCHANGED <<accountData, paid>>
  BY DEF Fund
<1>2. PICK s \in ExistingStates : account = TokenAccount(s)
  BY <1>1 DEF AccountsInv, TokensOK
<1>3. s \in StateKeys
  BY DEF ExistingStates
<1>4. UNCHANGED <<AdminOfConfig, Authorities, MerkleRootsOfStates, Claims>>
  BY <1>1 DEF AdminOfConfig, Authorities, MerkleRootsOfStates, RootOf, Claims, ClaimedRewards
<1>5. \A t \in StateKeys : PaidBy(t)' = PaidBy(t)
  BY <1>1 DEF PaidBy
<1>6. Payouts' = Payouts
  BY <1>5 DEF Payouts
<1>7. \A t \in StateKeys \ {s} : VaultBalance(t)' = VaultBalance(t)
  <2> TAKE t \in StateKeys \ {s}
  <2>1. TokenAccount(t) # account
    BY <1>2, AddressesDetermine
  <2>2. /\ DOMAIN tokens' = DOMAIN tokens
        /\ TokenAccount(t) \in DOMAIN tokens => tokens'[TokenAccount(t)] = tokens[TokenAccount(t)]
    BY <1>1, <2>1
  <2> QED
    BY <2>2 DEF VaultBalance
<1>8. VaultBalance(s)' = VaultBalance(s) + 1
  <2>1. TokenAccount(s) \in DOMAIN tokens /\ TokenAccount(s) \in DOMAIN tokens'
    BY <1>1, <1>2
  <2>2. tokens'[TokenAccount(s)] = tokens[TokenAccount(s)] + 1
    BY <1>1, <1>2
  <2> QED
    BY <2>1, <2>2 DEF VaultBalance
<1>9. /\ VaultBalances' = [VaultBalances EXCEPT ![s] = VaultBalance(s)']
      /\ Supply - SumOver(StateKeys, VaultBalances') =
            Supply - SumOver(StateKeys, VaultBalances) + VaultBalance(s) - VaultBalance(s)'
      /\ VaultBalance(s) \in Nat /\ VaultBalance(s)' \in Nat
      /\ SumOver(StateKeys, VaultBalances) \in Nat
  BY <1>3, <1>7, OneVaultChanges
<1>10. VaultBalances' = [VaultBalances EXCEPT ![s] = @ + 1]
  <2>1. VaultBalances[s] = VaultBalance(s)
    BY <1>3 DEF VaultBalances
  <2> QED
    BY <1>8, <1>9, <2>1
<1>11. 1 <= Supply - SumOver(StateKeys, VaultBalances)
  <2>1. SumOver(StateKeys, VaultBalances) <= SumOver(DOMAIN tokens, tokens)
    BY VaultsSum DEF AccountsInv
  <2>2. SumOver(DOMAIN tokens, tokens) \in Nat
    BY FiniteTokens, SumType DEF AccountsInv, TokensOK
  <2> QED
    BY <1>1, <1>9, <2>1, <2>2, AccountsAssumption
<1>12. Supply - SumOver(StateKeys, VaultBalances') = Supply - SumOver(StateKeys, VaultBalances) - 1
  BY <1>8, <1>9, AccountsAssumption
<1>13. Deposits' = [Deposits EXCEPT ![s] = @ + 1]
  <2> DEFINE sum(t) == SumOver(Users, PaidBy(t))
  <2>1. \A t \in StateKeys : sum(t)' = sum(t)
    BY <1>5
  <2>2. sum(s) \in Nat
    <3>1. IsFiniteSet(Users) /\ \A o \in Users : PaidBy(s)[o] \in Nat
      BY <1>3, AccountsAssumption DEF PaidBy, AccountsInv, ClaimStates
    <3> QED
      BY <3>1, SumType
  <2>3. /\ Deposits = [t \in StateKeys |-> VaultBalance(t) + sum(t)]
        /\ Deposits' = [t \in StateKeys |-> VaultBalance(t)' + sum(t)']
    BY DEF Deposits
  <2> HIDE DEF sum
  <2>4. VaultBalance(s)' + sum(s)' = VaultBalance(s) + sum(s) + 1
    BY <1>3, <1>8, <1>9, <2>1, <2>2
  <2>5. \A t \in StateKeys \ {s} : VaultBalance(t)' + sum(t)' = VaultBalance(t) + sum(t)
    BY <1>7, <2>1
  <2> QED
    BY <1>3, <2>3, <2>4, <2>5
<1>14. Books!Exists(s)
  BY <1>3, BooksExist DEF AccountsInv
<1>15. Books!Fund(s, 1)
  BY <1>4, <1>6, <1>10, <1>11, <1>12, <1>13, <1>14 DEF Books!Fund, Books!configVars
<1> QED
  BY <1>3, <1>15 DEF Books!Funding

\* A transfer out of a vault, as the balances of the vaults see it.
LEMMA MovedBalances ==
    ASSUME AccountsInv, NEW s \in ExistingStates, NEW to \in DOMAIN tokens, NEW amount \in Nat,
           tokens' = Moved(TokenAccount(s), to, amount)
    PROVE  /\ to = TokenAccount(s) => tokens' = tokens
           /\ \A t \in StateKeys \ {s} : VaultBalance(t)' =
                 IF to = TokenAccount(t) THEN VaultBalance(t) + amount ELSE VaultBalance(t)
           /\ to # TokenAccount(s) => /\ VaultBalance(s)' = VaultBalance(s) - amount
                                      /\ tokens[TokenAccount(s)] - tokens'[TokenAccount(s)] = amount
<1> DEFINE from == TokenAccount(s)
<1>1. s \in StateKeys /\ from \in DOMAIN tokens /\ tokens[from] = VaultBalance(s) /\ VaultBalance(s) \in Nat
  BY VaultsHold DEF AccountsInv, ExistingStates
<1>2. /\ DOMAIN tokens' = DOMAIN tokens
      /\ \A a \in DOMAIN tokens : tokens'[a] =
            IF from = to THEN tokens[a] ELSE IF a = from THEN tokens[a] - amount
            ELSE IF a = to THEN tokens[a] + amount ELSE tokens[a]
  BY DEF Moved
<1>3. to = from => tokens' = tokens
  <2> SUFFICES ASSUME to = from PROVE tokens' = tokens
    OBVIOUS
  <2>1. tokens' = [a \in DOMAIN tokens |-> tokens[a]]
    BY DEF Moved
  <2>2. tokens = [a \in DOMAIN tokens |-> tokens[a]]
    BY DEF AccountsInv, TokensOK
  <2> QED
    BY <2>1, <2>2
<1>4. ASSUME NEW t \in StateKeys, t # s
      PROVE  VaultBalance(t)' = IF to = TokenAccount(t) THEN VaultBalance(t) + amount ELSE VaultBalance(t)
  <2>1. TokenAccount(t) # from
    BY <1>4, AddressesDetermine
  <2>2. VaultBalance(t) \in Nat
    BY VaultsHold DEF AccountsInv
  <2> QED
    BY <1>2, <2>1, <2>2 DEF VaultBalance
<1>5. ASSUME to # from PROVE VaultBalance(s)' = VaultBalance(s) - amount /\ tokens[from] - tokens'[from] = amount
  <2>1. tokens'[from] = tokens[from] - amount /\ from \in DOMAIN tokens'
    BY <1>1, <1>2, <1>5
  <2>2. VaultBalance(s)' = tokens'[from]
    BY <2>1 DEF VaultBalance
  <2> QED
    BY <1>1, <2>1, <2>2
<1> QED
  BY <1>3, <1>4, <1>5

\* A claim pays out of its vault: what arrives in another vault is deposited there, and
\* what is sent to its own vault stays in it.
LEMMA RewardsClaimedMaps ==
    ASSUME AccountsInv, AccountsInv', NEW s \in StateKeys, NEW owner \in Users, NEW total \in Nat,
           NEW to \in {WalletOf(owner)} \cup TokenAccounts, RewardsClaimed(s, owner, total, to)
    PROVE  Books!Instructions
<1> DEFINE claimState == ClaimStateOf(s, owner)
           claimed == ClaimedRewards(claimState)
           amount == total - claimed
           from == TokenAccount(s)
<1>1. /\ s \in ExistingStates
      /\ <<owner, total>> \in LeavesOf(LiveHash(s))
      /\ total > claimed
      /\ to \in DOMAIN tokens
      /\ tokens[from] >= amount
      /\ tokens' = Moved(from, to, amount)
      /\ Put(claimState, <<71, owner, total>>)
      /\ paid' = [paid EXCEPT ![claimState] = @ + tokens[from] - tokens'[from]]
  BY DEF RewardsClaimed
<1>2. claimed \in Nat /\ amount \in Nat
  BY <1>1, ClaimedIsNat DEF AccountsInv
<1>3. /\ Claims' = [Claims EXCEPT ![s][owner] = total]
      /\ UNCHANGED <<AdminOfConfig, Authorities, MerkleRootsOfStates>>
  BY <1>1, ClaimWritten
<1>4. Claims[s][owner] = claimed
  BY DEF Claims
<1> HIDE DEF claimed
<1>5. Books!Claimable(s, owner, total)
  BY <1>1, <1>2, <1>4, BooksExist, BooksLive DEF AccountsInv, Books!Claimable
<1>6. /\ VaultBalances[s] = VaultBalance(s) /\ VaultBalance(s) \in Nat /\ VaultBalance(s) = tokens[from]
      /\ from \in DOMAIN tokens
  BY <1>1, VaultsHold DEF AccountsInv
<1>7. amount <= VaultBalances[s]
  BY <1>1, <1>2, <1>6
<1>8. Books!Unclaimed(s, owner, total) = amount /\ Books!Recorded(s, owner, total) = total
  BY <1>4 DEF Books!Unclaimed, Books!Recorded
<1>9. /\ to = from => tokens' = tokens
      /\ \A t \in StateKeys \ {s} : VaultBalance(t)' =
            IF to = TokenAccount(t) THEN VaultBalance(t) + amount ELSE VaultBalance(t)
      /\ to # from => VaultBalance(s)' = VaultBalance(s) - amount /\ tokens[from] - tokens'[from] = amount
  <2> HIDE DEF amount
  <2> QED
    BY <1>1, <1>2, MovedBalances
<1> HIDE DEF amount
<1>10. \E beneficiary \in StateKeys \cup {NoAddress} :
         /\ beneficiary \in StateKeys => Books!Exists(beneficiary)
         /\ Books!Transfer(s, beneficiary, amount)
         /\ Payouts' = IF beneficiary = s THEN Payouts ELSE [Payouts EXCEPT ![s][owner] = @ + amount]
  <2>1. CASE to = from
    <3>1. tokens' = tokens
      BY <1>9, <2>1
    <3>2. paid' = paid
      <4>1. claimState \in ClaimStates /\ paid \in [ClaimStates -> Nat]
        BY DEF ClaimStates, AccountsInv
      <4>2. paid[claimState] + tokens[from] - tokens'[from] = paid[claimState]
        BY <1>6, <3>1, <4>1
      <4> QED
        BY <1>1, <4>1, <4>2
    <3>3. BooksUnmoved
      BY <3>1, <3>2, NoTokensMove DEF BooksUnmoved
    <3>4. Books!Transfer(s, s, amount)
      BY <1>7, <3>3 DEF Books!Transfer, BooksUnmoved
    <3>5. Books!Exists(s)
      BY <1>5 DEF Books!Claimable
    <3> WITNESS s \in StateKeys \cup {NoAddress}
    <3> QED
      BY <3>3, <3>4, <3>5 DEF BooksUnmoved
  <2>2. CASE to # from
    <3>1. VaultBalance(s)' = VaultBalance(s) - amount /\ tokens[from] - tokens'[from] = amount
      BY <1>9, <2>2
    <3>2. paid' = [paid EXCEPT ![claimState] = @ + amount]
      <4>1. claimState \in ClaimStates /\ paid \in [ClaimStates -> Nat] /\ tokens'[from] \in Nat
        <5>1. from \in DOMAIN tokens'
          BY <1>1, <1>6 DEF Moved
        <5> QED
          BY <5>1 DEF ClaimStates, AccountsInv, TokensOK
      <4>2. paid[claimState] + tokens[from] - tokens'[from] = paid[claimState] + amount
        BY <1>2, <1>6, <3>1, <4>1
      <4> QED
        BY <1>1, <4>1, <4>2
    <3>3. /\ Payouts' = [Payouts EXCEPT ![s][owner] = @ + amount]
          /\ SumOver(Users, PaidBy(s)') = SumOver(Users, PaidBy(s)) + amount
          /\ SumOver(Users, PaidBy(s)) \in Nat
          /\ \A t \in StateKeys \ {s} : PaidBy(t)' = PaidBy(t)
      BY <1>2, <3>2, PaidOut
    <3>4. VaultBalance(s)' + SumOver(Users, PaidBy(s)') = VaultBalance(s) + SumOver(Users, PaidBy(s))
      BY <1>2, <1>6, <3>1, <3>3
    <3> DEFINE sum(t) == SumOver(Users, PaidBy(t))
    <3>5. /\ Deposits = [t \in StateKeys |-> VaultBalance(t) + sum(t)]
          /\ Deposits' = [t \in StateKeys |-> VaultBalance(t)' + sum(t)']
      BY DEF Deposits
    <3>6. \A t \in StateKeys \ {s} : sum(t)' = sum(t)
      BY <3>3
    <3>7. \A t \in StateKeys : sum(t) \in Nat
      <4> TAKE t \in StateKeys
      <4>1. IsFiniteSet(Users) /\ \A o \in Users : PaidBy(t)[o] \in Nat
        BY AccountsAssumption DEF PaidBy, AccountsInv, ClaimStates
      <4> QED
        BY <4>1, SumType
    <3>8. VaultBalance(s)' + sum(s)' = VaultBalance(s) + sum(s)
      BY <3>4
    <3> HIDE DEF sum
    <3>9. \A t \in StateKeys : VaultBalance(t) \in Nat /\ VaultBalances[t] = VaultBalance(t)
      BY VaultsHold DEF AccountsInv
    <3>10. CASE \E t \in StateKeys : to = TokenAccount(t)
      <4>1. PICK t \in StateKeys : to = TokenAccount(t)
        BY <3>10
      <4>2. t # s /\ t \in ExistingStates
        BY <1>1, <2>2, <4>1, VaultsHold DEF AccountsInv
      <4>3. /\ VaultBalance(t)' = VaultBalance(t) + amount
            /\ \A r \in StateKeys \ {s, t} : VaultBalance(r)' = VaultBalance(r)
        <5>1. \A r \in StateKeys \ {t} : TokenAccount(r) # to
          BY <4>1, AddressesDetermine
        <5> QED
          BY <1>9, <4>1, <4>2, <5>1
      <4>4. VaultBalances' = [VaultBalances EXCEPT ![s] = @ - amount, ![t] = @ + amount]
        BY <3>1, <4>2, <4>3 DEF VaultBalances
      <4>5. SumOver(StateKeys, VaultBalances') = SumOver(StateKeys, VaultBalances)
        <5>1. \A r \in StateKeys : VaultBalances'[r] = VaultBalance(r)' /\ VaultBalance(r)' \in Nat
          BY DEF VaultBalances, VaultBalance, AccountsInv, TokensOK
        <5>2. IsFiniteSet(StateKeys)
          BY AccountsAssumption
        <5> HIDE DEF VaultBalances
        <5>3. /\ \A r \in StateKeys : VaultBalances[r] \in Nat /\ VaultBalances'[r] \in Nat
              /\ VaultBalances'[s] = VaultBalances[s] - amount
              /\ VaultBalances'[t] = VaultBalances[t] + amount
              /\ \A r \in StateKeys \ {s, t} : VaultBalances[r] = VaultBalances'[r]
          BY <3>1, <3>9, <4>3, <5>1
        <5> QED
          BY <1>2, <4>2, <5>2, <5>3, SumMoves
      <4>6. Deposits' = [Deposits EXCEPT ![t] = @ + amount]
        <5>1. VaultBalance(t)' + sum(t)' = VaultBalance(t) + sum(t) + amount
          BY <1>2, <3>6, <3>7, <3>9, <4>2, <4>3
        <5>2. \A r \in StateKeys \ {t} : VaultBalance(r)' + sum(r)' = VaultBalance(r) + sum(r)
          BY <3>6, <3>8, <4>3
        <5> QED
          BY <3>5, <5>1, <5>2
      <4>7. Books!Transfer(s, t, amount) /\ Books!Exists(t)
        BY <1>7, <4>2, <4>4, <4>5, <4>6, BooksExist DEF Books!Transfer, AccountsInv
      <4> WITNESS t \in StateKeys \cup {NoAddress}
      <4> QED
        BY <3>3, <4>2, <4>7
    <3>11. CASE \A t \in StateKeys : to # TokenAccount(t)
      <4>1. \A t \in StateKeys \ {s} : VaultBalance(t)' = VaultBalance(t)
        BY <1>9, <3>11
      <4>2. /\ VaultBalances' = [VaultBalances EXCEPT ![s] = VaultBalance(s)']
            /\ Supply - SumOver(StateKeys, VaultBalances') =
                  Supply - SumOver(StateKeys, VaultBalances) + VaultBalance(s) - VaultBalance(s)'
            /\ SumOver(StateKeys, VaultBalances) \in Nat
        BY <4>1, OneVaultChanges
      <4>3. VaultBalances' = [VaultBalances EXCEPT ![s] = @ - amount]
        BY <1>6, <3>1, <4>2
      <4>4. Supply - SumOver(StateKeys, VaultBalances') = Supply - SumOver(StateKeys, VaultBalances) + amount
        BY <1>2, <1>6, <3>1, <4>2, AccountsAssumption
      <4>5. Deposits' = Deposits
        BY <3>5, <3>6, <3>8, <4>1
      <4>6. NoAddress \notin StateKeys
        BY AccountsAssumption
      <4>7. Books!Transfer(s, NoAddress, amount)
        BY <1>7, <4>3, <4>4, <4>5 DEF Books!Transfer
      <4> WITNESS NoAddress \in StateKeys \cup {NoAddress}
      <4> QED
        BY <3>3, <4>6, <4>7
    <3> QED
      BY <3>10, <3>11
  <2> QED
    BY <2>1, <2>2
<1>11. PICK beneficiary \in StateKeys \cup {NoAddress} :
         /\ beneficiary \in StateKeys => Books!Exists(beneficiary)
         /\ Books!Transfer(s, beneficiary, amount)
         /\ Payouts' = IF beneficiary = s THEN Payouts ELSE [Payouts EXCEPT ![s][owner] = @ + amount]
  BY <1>10
<1>12. Books!ClaimRewards(s, owner, total, beneficiary)
  BY <1>3, <1>5, <1>8, <1>11 DEF Books!ClaimRewards, Books!configVars
<1>13. <<owner, total>> \in Books!LiveTree(s)
  BY <1>1, BooksLive DEF AccountsInv
<1>14. \E leaf \in Books!LiveTree(s) : Books!ClaimRewards(s, leaf[1], leaf[2], beneficiary)
  <2> WITNESS <<owner, total>> \in Books!LiveTree(s)
  <2> QED
    BY <1>12
<1> QED
  BY <1>14 DEF Books!Instructions

\* Every step is one of the books, or leaves them as they are.
LEMMA BooksStep ==
    AccountsInv /\ AccountsInv' /\ [Next]_vars => [Books!Instructions \/ Books!Funding]_(Books!rewardsVars)
<1> SUFFICES ASSUME AccountsInv, AccountsInv', [Next]_vars
             PROVE  [Books!Instructions \/ Books!Funding]_(Books!rewardsVars)
  OBVIOUS
<1>1. CASE Next
  <2>1. DataOK
    BY DEF AccountsInv
  <2> QED
    BY <1>1, <2>1, StepEffect, ConfigMadeMaps, StateMadeMaps, RootSetMaps, AuthoritySetMaps,
       RewardsClaimedMaps, FundMaps
<1>2. CASE UNCHANGED vars
  <2>1. UNCHANGED <<AdminOfConfig, Authorities, MerkleRootsOfStates, Claims, VaultBalances, Payouts, Deposits>>
    BY <1>2, NoTokensMove
       DEF vars, AdminOfConfig, Authorities, MerkleRootsOfStates, RootOf, Claims, ClaimedRewards
  <2> QED
    BY <2>1 DEF Books!rewardsVars, Books!configVars, Books!tokenVars, Books!historyVars
<1> QED
  BY <1>1, <1>2

\* With accounts that callers pass and may mix up, the program does nothing that Rewards,
\* which has no accounts to mix up, does not do with its books (lib.rs:12-103, 107-195).
THEOREM AccountsImplementRewards == Spec => ImplementsRewards
<1>1. Init => Books!RewardsInit
  BY BooksInit
<1>2. AccountsInv /\ AccountsInv' /\ [Next]_vars => [Books!Instructions \/ Books!Funding]_(Books!rewardsVars)
  BY BooksStep
<1> QED
  BY <1>1, <1>2, AccountsInvCorrect, PTL DEF Spec, ImplementsRewards

-----------------------------------------------------------------------------
(* A claim made with what the client fetches and derives *)

\* An account that is given has the flags of the layout and of the signer.
LEMMA FlagsBuilt ==
    ASSUME NEW layout, NEW values, NEW data, NEW i \in DOMAIN layout, values[layout[i].name] # Null
    PROVE  /\ Instruction(PROGRAM_ID, layout, values, data).accounts[i].isWritable = layout[i].isWritable
           /\ Instruction(PROGRAM_ID, layout, values, data).accounts[i].isSigner = values[layout[i].name].signer
BY DEF Instruction, AccountMeta, IsTransactionSigner

\* What the client decodes of a rewards state.
LEMMA StateDecoded ==
    ASSUME NEW s, NEW d, IsState(s, d)
    PROVE  DecodeRewardsState(d) =
              [authority |-> d[2], rewardsMint |-> Mint, rewardsTokenAccount |-> TokenAccount(s),
               merkleRoot |-> IF d[5] = 0 THEN Inplace(d[6]) ELSE External(d[6], d[7])]
<1>1. Len(d) = 7 /\ d[3] = Mint /\ d[4] = TokenAccount(s)
  <2>1. d = <<155, d[2], Mint, TokenAccount(s), d[5], d[6], d[7]>>
    BY DEF IsState
  <2>2. \A p, q, r, x, t, u, v : Len(<<p, q, r, x, t, u, v>>) = 7
    OBVIOUS
  <2> QED
    BY <2>1, <2>2
<1>2. SubSeq(d, 5, Len(d)) = <<d[5], d[6], d[7]>>
  BY <1>1, RootOfState
<1>3. DecodeMerkleRoot(SubSeq(d, 5, Len(d))) = IF d[5] = 0 THEN Inplace(d[6]) ELSE External(d[6], d[7])
  BY <1>2, SMTT(30) DEF DecodeMerkleRoot
<1> QED
  BY <1>1, <1>3 DEF DecodeRewardsState

\* What is fetched of a rewards state.
LEMMA StateFetched ==
    ASSUME DataOK, NEW state \in ExistingStates
    PROVE  LET fetched == FetchMaybeRewardsState(accountData, state).data
           IN  /\ fetched.rewardsTokenAccount = TokenAccount(state)
               /\ fetched.merkleRoot = IF RootOf(state)[1] = 0 THEN Inplace(RootOf(state)[2])
                                       ELSE External(RootOf(state)[2], RootOf(state)[3])
<1> DEFINE d == accountData[state]
<1>1. IsState(state, d) /\ RootOf(state) = <<d[5], d[6], d[7]>>
  BY RootsAreMeant
<1>2. FetchMaybeRewardsState(accountData, state).data = DecodeRewardsState(d)
  BY DEF FetchMaybeRewardsState, FetchMaybe, ExistingStates
<1> HIDE DEF d
<1> QED
  BY <1>1, <1>2, StateDecoded

\* The account that a claimer passes for the root.
RootAccountOf(state) == IF RootOf(state)[1] = 0 THEN Null ELSE Plain(RootOf(state)[2])

\* The claim as it is built from what is fetched.
LEMMA ClaimOfIs ==
    ASSUME DataOK, NEW state \in ExistingStates, NEW user \in Users, NEW args
    PROVE  ClaimOf(state, user, args) =
              Instruction(PROGRAM_ID, ClaimRewardsInstruction,
                          Resolved(ClaimRewardsInput(state, user, WalletOf(user), RootAccountOf(state))),
                          <<4, args.index, args.totalRewards, args.proof>>)
<1> DEFINE fetched == FetchMaybeRewardsState(accountData, state).data
           rootAccount == IF IsMerkleRoot("External", fetched.merkleRoot)
                          THEN Plain(fetched.merkleRoot.pubkey) ELSE Null
           plain == ClaimRewardsInput(state, user, WalletOf(user), rootAccount)
           input == [plain EXCEPT !.rewardsTokenAccount = Plain(fetched.rewardsTokenAccount)]
<1>1. ClaimOf(state, user, args) = GetClaimRewardsInstructionAsync(input, args, NoAddress)
  BY DEF ClaimOf
<1>2. /\ fetched.rewardsTokenAccount = TokenAccount(state)
      /\ fetched.merkleRoot = IF RootOf(state)[1] = 0 THEN Inplace(RootOf(state)[2])
                              ELSE External(RootOf(state)[2], RootOf(state)[3])
  BY StateFetched
<1> HIDE DEF fetched
<1>3. rootAccount = RootAccountOf(state)
  BY <1>2 DEF RootAccountOf, IsMerkleRoot, Inplace, External
<1> HIDE DEF rootAccount
<1>4. input = plain
  BY <1>2 DEF ClaimRewardsInput
<1> HIDE DEF plain, input
<1>5. input = ClaimRewardsInput(state, user, WalletOf(user), RootAccountOf(state))
  BY <1>3, <1>4 DEF plain
<1> QED
  BY <1>1, <1>5, ClaimRewardsBuilt

\* What the values of such a claim are.
LEMMA ClaimValues ==
    ASSUME NEW state \in StateKeys, NEW user \in Users, NEW rootAccount
    PROVE  LET values == Resolved(ClaimRewardsInput(state, user, WalletOf(user), rootAccount))
           IN  /\ values["rewardsState"] = Plain(state)
               /\ values["rewardsVault"] = Plain(VaultOf(state))
               /\ values["rewardsMint"] = Plain(Mint)
               /\ values["rewardsTokenAccount"] = Plain(TokenAccount(state))
               /\ values["owner"] = TransactionSigner(user)
               /\ values["claimState"] = Plain(ClaimStateOf(state, user))
               /\ values["beneficiaryTokenAccount"] = Plain(WalletOf(user))
               /\ values["maybeMerkleRootAccount"] = rootAccount
               /\ values["payer"] = Payer
               /\ values["rewardsTokenProgram"] = Plain(TokenProgram)
               /\ values["systemProgram"] = Plain(SYSTEM_PROGRAM_ADDRESS)
<1> DEFINE input == ClaimRewardsInput(state, user, WalletOf(user), rootAccount)
<1>1. /\ DOMAIN input = ClaimNames
      /\ input["rewardsState"] = Plain(state)
      /\ input["rewardsVault"] = Null
      /\ input["rewardsMint"] = Plain(Mint)
      /\ input["rewardsTokenAccount"] = Plain(TokenAccount(state))
      /\ input["owner"] = TransactionSigner(user)
      /\ input["claimState"] = Null
      /\ input["beneficiaryTokenAccount"] = Plain(WalletOf(user))
      /\ input["maybeMerkleRootAccount"] = rootAccount
      /\ input["payer"] = Payer
      /\ input["rewardsTokenProgram"] = Plain(TokenProgram)
      /\ input["systemProgram"] = Null
  BY DEF ClaimRewardsInput, ClaimNames
<1>2. input.rewardsState.address = state /\ input.owner.address = user
  BY <1>1 DEF Plain, TransactionSigner
<1> HIDE DEF input
<1>3. /\ Resolved(input)["rewardsVault"] = Plain(VaultOf(state))
      /\ Resolved(input)["claimState"] = Plain(ClaimStateOf(state, user))
      /\ Resolved(input)["systemProgram"] = Plain(SYSTEM_PROGRAM_ADDRESS)
  BY <1>1, <1>2, ResolvedIs DEF VaultOf, ClaimStateOf
<1>4. \A name \in ClaimNames \ {"rewardsVault", "claimState", "systemProgram"} :
         Resolved(input)[name] = input[name]
  BY <1>1, ResolvedIs
<1>5. /\ Resolved(input)["rewardsState"] = input["rewardsState"]
      /\ Resolved(input)["rewardsMint"] = input["rewardsMint"]
      /\ Resolved(input)["rewardsTokenAccount"] = input["rewardsTokenAccount"]
      /\ Resolved(input)["owner"] = input["owner"]
      /\ Resolved(input)["beneficiaryTokenAccount"] = input["beneficiaryTokenAccount"]
      /\ Resolved(input)["maybeMerkleRootAccount"] = input["maybeMerkleRootAccount"]
      /\ Resolved(input)["payer"] = input["payer"]
      /\ Resolved(input)["rewardsTokenProgram"] = input["rewardsTokenProgram"]
  BY <1>4 DEF ClaimNames
<1>6. /\ Resolved(input)["rewardsState"] = Plain(state)
      /\ Resolved(input)["rewardsMint"] = Plain(Mint)
      /\ Resolved(input)["rewardsTokenAccount"] = Plain(TokenAccount(state))
      /\ Resolved(input)["owner"] = TransactionSigner(user)
      /\ Resolved(input)["beneficiaryTokenAccount"] = Plain(WalletOf(user))
      /\ Resolved(input)["maybeMerkleRootAccount"] = rootAccount
      /\ Resolved(input)["payer"] = Payer
      /\ Resolved(input)["rewardsTokenProgram"] = Plain(TokenProgram)
  BY <1>1, <1>5
<1> QED
  BY <1>3, <1>6 DEF input

\* None of the addresses stands for an account that is left out.
LEMMA AddressesGiven ==
    ASSUME NEW state \in StateKeys, NEW user \in Users
    PROVE  /\ Plain(VaultOf(state)) # Null /\ Plain(TokenAccount(state)) # Null
           /\ Plain(ClaimStateOf(state, user)) # Null /\ Plain(WalletOf(user)) # Null
           /\ Plain(state) # Null /\ Plain(Mint) # Null /\ Plain(TokenProgram) # Null
           /\ Plain(SYSTEM_PROGRAM_ADDRESS) # Null
           /\ \A key : TransactionSigner(key) # Null
<1>1. \A address : Plain(address) = Null => address = NoAddress
  BY DEF Plain, Null
<1>2. VaultOf(state) # NoAddress /\ ClaimStateOf(state, user) # NoAddress
  BY DEF VaultOf, ClaimStateOf, Pda, ProgramDerivedAddress, NoAddress, Bytes32
<1>3. \A owner : AssociatedTokenAddress(owner) # NoAddress
  <2>1. NoAddress.program = "" /\ ASSOCIATED_TOKEN_PROGRAM_ADDRESS.tag = "ATokenGP"
    BY DEF NoAddress, Bytes32, ASSOCIATED_TOKEN_PROGRAM_ADDRESS
  <2>2. \A owner : AssociatedTokenAddress(owner).program = "ATokenGP"
    BY <2>1 DEF AssociatedTokenAddress, ProgramDerivedAddress
  <2> QED
    BY <2>1, <2>2
<1>4. SYSTEM_PROGRAM_ADDRESS # NoAddress
  BY DEF SYSTEM_PROGRAM_ADDRESS, NoAddress, Bytes32
<1>5. \A key : TransactionSigner(key) # Null
  BY DEF TransactionSigner, Null, Plain
<1> QED
  BY <1>1, <1>2, <1>3, <1>4, <1>5, AccountsAssumption DEF TokenAccount, WalletOf

\* The program finds what it requires.
LEMMA ClaimOfContext ==
    ASSUME DataOK, NEW state \in ExistingStates, NEW user \in Users, NEW args
    PROVE  LET call == ClaimOf(state, user, args)
               ctx == Context(ClaimRewards, call)
           IN  /\ Calls(call, 4)
               /\ ClaimRewardsArgs(call) =
                     [index |-> args.index, total_rewards |-> args.totalRewards, proof |-> args.proof]
               /\ ctx.rewards_state = state
               /\ ctx.rewards_vault = VaultOf(state)
               /\ ctx.rewards_mint = Mint
               /\ ctx.rewards_token_account = TokenAccount(state)
               /\ ctx.owner = user
               /\ ctx.claim_state = ClaimStateOf(state, user)
               /\ ctx.beneficiary_token_account = WalletOf(user)
               /\ ctx.maybe_merkle_root_account = AddressGiven(RootAccountOf(state))
               /\ ctx.rewards_token_program = TokenProgram
               /\ ctx.system_program = SYSTEM_PROGRAM_ADDRESS
<1> DEFINE values == Resolved(ClaimRewardsInput(state, user, WalletOf(user), RootAccountOf(state)))
           data == <<4, args.index, args.totalRewards, args.proof>>
           call == Instruction(PROGRAM_ID, ClaimRewardsInstruction, values, data)
           ctx == Context(ClaimRewards, call)
<1>1. ClaimOf(state, user, args) = call
  BY ClaimOfIs
<1>2. state \in StateKeys
  BY DEF ExistingStates
<1>3. /\ values["rewardsState"] = Plain(state)
      /\ values["rewardsVault"] = Plain(VaultOf(state))
      /\ values["rewardsMint"] = Plain(Mint)
      /\ values["rewardsTokenAccount"] = Plain(TokenAccount(state))
      /\ values["owner"] = TransactionSigner(user)
      /\ values["claimState"] = Plain(ClaimStateOf(state, user))
      /\ values["beneficiaryTokenAccount"] = Plain(WalletOf(user))
      /\ values["maybeMerkleRootAccount"] = RootAccountOf(state)
      /\ values["rewardsTokenProgram"] = Plain(TokenProgram)
      /\ values["systemProgram"] = Plain(SYSTEM_PROGRAM_ADDRESS)
  BY <1>2, ClaimValues
<1> HIDE DEF values
<1>4. /\ ctx.rewards_state = AddressGiven(values["rewardsState"])
      /\ ctx.rewards_vault = AddressGiven(values["rewardsVault"])
      /\ ctx.rewards_mint = AddressGiven(values["rewardsMint"])
      /\ ctx.rewards_token_account = AddressGiven(values["rewardsTokenAccount"])
      /\ ctx.owner = AddressGiven(values["owner"])
      /\ ctx.claim_state = AddressGiven(values["claimState"])
      /\ ctx.beneficiary_token_account = AddressGiven(values["beneficiaryTokenAccount"])
      /\ ctx.maybe_merkle_root_account = AddressGiven(values["maybeMerkleRootAccount"])
      /\ ctx.rewards_token_program = AddressGiven(values["rewardsTokenProgram"])
      /\ ctx.system_program = AddressGiven(values["systemProgram"])
  BY ClaimRewardsContext
<1>5. \A address : Plain(address) # Null => AddressGiven(Plain(address)) = address
  BY DEF AddressGiven, Plain
<1>6. AddressGiven(TransactionSigner(user)) = user
  BY KeysGiven
<1> HIDE DEF ctx
<1>7. /\ ctx.rewards_state = state
      /\ ctx.rewards_vault = VaultOf(state)
      /\ ctx.rewards_mint = Mint
      /\ ctx.rewards_token_account = TokenAccount(state)
      /\ ctx.owner = user
      /\ ctx.claim_state = ClaimStateOf(state, user)
      /\ ctx.beneficiary_token_account = WalletOf(user)
      /\ ctx.maybe_merkle_root_account = AddressGiven(RootAccountOf(state))
      /\ ctx.rewards_token_program = TokenProgram
      /\ ctx.system_program = SYSTEM_PROGRAM_ADDRESS
  BY <1>2, <1>3, <1>4, <1>5, <1>6, AddressesGiven
<1>8. /\ call.programAddress = PROGRAM_ID /\ call.data = data
  BY DEF Instruction
<1>9. Calls(call, 4) /\ ClaimRewardsArgs(call) =
         [index |-> args.index, total_rewards |-> args.totalRewards, proof |-> args.proof]
  <2>1. data[1] = 4 /\ data[2] = args.index /\ data[3] = args.totalRewards /\ data[4] = args.proof
    OBVIOUS
  <2> HIDE DEF data, call
  <2> QED
    BY <1>8, <2>1 DEF Calls, ClaimRewardsArgs
<1> QED
  BY <1>1, <1>7, <1>9 DEF ctx

\* Every account is passed with the flags that the program requires (claimRewards.ts:243-269,
\* lib.rs:166-195).
LEMMA ClaimOfFlags ==
    ASSUME DataOK, NEW state \in ExistingStates, NEW user \in Users, NEW args
    PROVE  FlagsAsRequired(ClaimRewards, ClaimOf(state, user, args))
<1> DEFINE values == Resolved(ClaimRewardsInput(state, user, WalletOf(user), RootAccountOf(state)))
           data == <<4, args.index, args.totalRewards, args.proof>>
           call == Instruction(PROGRAM_ID, ClaimRewardsInstruction, values, data)
<1>1. ClaimOf(state, user, args) = call
  BY ClaimOfIs
<1>2. state \in StateKeys
  BY DEF ExistingStates
<1>3. /\ values["rewardsTokenAccount"] = Plain(TokenAccount(state))
      /\ values["owner"] = TransactionSigner(user)
      /\ values["claimState"] = Plain(ClaimStateOf(state, user))
      /\ values["beneficiaryTokenAccount"] = Plain(WalletOf(user))
      /\ values["payer"] = Payer
  BY <1>2, ClaimValues
<1> HIDE DEF values, data
<1>4. PICK payer \in Users : Payer = TransactionSigner(payer)
  BY PayerIs
<1>5. \A key : TransactionSigner(key).signer
  BY DEF TransactionSigner
<1>6. /\ values["rewardsTokenAccount"] # Null /\ values["claimState"] # Null
      /\ values["beneficiaryTokenAccount"] # Null
      /\ values["owner"] # Null /\ values["owner"].signer
      /\ values["payer"] # Null /\ values["payer"].signer
  BY <1>2, <1>3, <1>4, <1>5, AddressesGiven
<1>7. /\ DOMAIN ClaimRewardsInstruction = 1..11
      /\ ClaimRewardsInstruction[4] = WritableAccount("rewardsTokenAccount")
      /\ ClaimRewardsInstruction[5] = ReadonlyAccount("owner")
      /\ ClaimRewardsInstruction[6] = WritableAccount("claimState")
      /\ ClaimRewardsInstruction[7] = WritableAccount("beneficiaryTokenAccount")
      /\ ClaimRewardsInstruction[9] = WritableAccount("payer")
  BY DEF ClaimRewardsInstruction
<1>8. \A name : /\ WritableAccount(name).name = name /\ WritableAccount(name).isWritable
                /\ ReadonlyAccount(name).name = name
  BY DEF WritableAccount, ReadonlyAccount
<1>9. /\ call.accounts[4].isWritable /\ call.accounts[6].isWritable
      /\ call.accounts[7].isWritable /\ call.accounts[9].isWritable
      /\ call.accounts[5].isSigner /\ call.accounts[9].isSigner
  <2> HIDE DEF call
  <2>1. \A i \in 1..11 : values[ClaimRewardsInstruction[i].name] # Null =>
           /\ call.accounts[i].isWritable = ClaimRewardsInstruction[i].isWritable
           /\ call.accounts[i].isSigner = values[ClaimRewardsInstruction[i].name].signer
    BY <1>7, FlagsBuilt DEF call
  <2>2. /\ values[ClaimRewardsInstruction[4].name] # Null
        /\ values[ClaimRewardsInstruction[5].name] # Null
        /\ values[ClaimRewardsInstruction[6].name] # Null
        /\ values[ClaimRewardsInstruction[7].name] # Null
        /\ values[ClaimRewardsInstruction[9].name] # Null
    BY <1>6, <1>7, <1>8
  <2>3. /\ call.accounts[4].isWritable = ClaimRewardsInstruction[4].isWritable
        /\ call.accounts[6].isWritable = ClaimRewardsInstruction[6].isWritable
        /\ call.accounts[7].isWritable = ClaimRewardsInstruction[7].isWritable
        /\ call.accounts[9].isWritable = ClaimRewardsInstruction[9].isWritable
        /\ call.accounts[5].isSigner = values[ClaimRewardsInstruction[5].name].signer
        /\ call.accounts[9].isSigner = values[ClaimRewardsInstruction[9].name].signer
    BY <2>1, <2>2
  <2> QED
    BY <1>6, <1>7, <1>8, <2>3
<1>10. /\ DOMAIN ClaimRewards = 1..11 /\ Len(ClaimRewards) = 11
       /\ \A i \in {1, 2, 3, 8, 10, 11} : ~ClaimRewards[i].mut /\ ~ClaimRewards[i].signer
       /\ \A i \in {4, 6, 7} : ~ClaimRewards[i].signer
       /\ ~ClaimRewards[5].mut
  BY NamesInStructs DEF ClaimRewards
<1>11. Len(call.accounts) = 11
  <2>1. call.accounts = [i \in 1..11 |-> call.accounts[i]]
    BY <1>7 DEF Instruction
  <2> HIDE DEF call
  <2> QED
    BY <2>1
<1> HIDE DEF call
<1>12. \A i \in 1..11 : /\ ClaimRewards[i].mut => call.accounts[i].isWritable
                        /\ ClaimRewards[i].signer => call.accounts[i].isSigner
  BY <1>9, <1>10
<1> QED
  BY <1>1, <1>10, <1>11, <1>12 DEF FlagsAsRequired

\* Its accounts are accepted.
LEMMA ClaimOfAccepted ==
    ASSUME AccountsInv, NEW state \in ExistingStates, NEW user \in Users, NEW args
    PROVE  ClaimAccountsAccepted(ClaimOf(state, user, args))
<1> DEFINE call == ClaimOf(state, user, args)
           ctx == Context(ClaimRewards, call)
           d == accountData[state]
<1>1. DataOK /\ state \in StateKeys /\ state \in DOMAIN accountData
  BY DEF AccountsInv, ExistingStates
<1>2. /\ Calls(call, 4)
      /\ ctx.rewards_state = state
      /\ ctx.rewards_vault = VaultOf(state)
      /\ ctx.rewards_mint = Mint
      /\ ctx.rewards_token_account = TokenAccount(state)
      /\ ctx.owner = user
      /\ ctx.claim_state = ClaimStateOf(state, user)
      /\ ctx.beneficiary_token_account = WalletOf(user)
      /\ ctx.rewards_token_program = TokenProgram
      /\ ctx.system_program = SYSTEM_PROGRAM_ADDRESS
  BY <1>1, ClaimOfContext, SMTT(30)
<1>3. FlagsAsRequired(ClaimRewards, call)
  BY <1>1, ClaimOfFlags
<1> HIDE DEF ctx, call
<1>4. d[1] = 155 /\ d[4] = TokenAccount(state)
  <2>1. IsState(state, d)
    BY <1>1, KindsOfAccounts
  <2> HIDE DEF d
  <2> QED
    BY <2>1 DEF IsState
<1>5. ASSUME ClaimStateOf(state, user) \in DOMAIN accountData PROVE Holds(ClaimStateOf(state, user), 71)
  <2> DEFINE c == accountData[ClaimStateOf(state, user)]
  <2>1. IsClaim(ClaimStateOf(state, user), c)
    BY <1>1, <1>5, KindsOfAccounts
  <2> HIDE DEF c
  <2>2. c[1] = 71
    BY <2>1 DEF IsClaim
  <2> QED
    BY <1>5, <2>2 DEF Holds, c
<1>6. WalletOf(user) \in DOMAIN tokens
  BY DEF AccountsInv, TokensOK, Wallets
<1> QED
  BY <1>1, <1>2, <1>3, <1>4, <1>5, <1>6
     DEF ClaimAccountsAccepted, Holds, IsOwnClaimState, VaultOf, ClaimStateOf, ctx, call

\* The offset of a root that is stored is a number.
LEMMA OffsetsAreNat ==
    ASSUME NEW y, NEW z, <<y, z>> \in AddressesOfRoots
    PROVE  z \in Nat
<1>1. PICK root \in Roots : ~IsMerkleRoot("Inplace", root) /\ <<y, z>> = <<root.pubkey, root.offset>>
  BY DEF AddressesOfRoots
<1>2. z = root.offset
  BY <1>1
<1>3. root.offset \in 0..MaxU64 /\ MaxU64 \in Nat
  BY <1>1, AccountsAssumption DEF IsRoot
<1> QED
  BY <1>2, <1>3

\* A root that is live is at an offset that fits.
LEMMA LiveFits ==
    ASSUME NEW state, NEW args, IsLive(state, args), args.proof # NotARoot, NEW x, NEW y, NEW z,
           RootOf(state) = <<x, y, z>>
    PROVE  OffsetFits(state)
<1>1. RootOf(state)[1] = x /\ RootOf(state)[3] = z /\ Tail(RootOf(state)) = <<y, z>>
  OBVIOUS
<1>2. CASE x = 0
  BY <1>1, <1>2 DEF OffsetFits
<1>3. CASE x # 0
  <2>1. RootAtAddress(<<y, z>>) = args.proof
    BY <1>1, <1>3 DEF IsLive
  <2>2. z \in DOMAIN RootsAt
    BY <2>1 DEF RootAtAddress
  <2> QED
    BY <1>1, <2>2, AccountsAssumption DEF OffsetFits
<1> QED
  BY <1>2, <1>3

\* What comes of a claim of a leaf.
LEMMA ClaimOfOutcome ==
    ASSUME AccountsInv, NEW state \in ExistingStates, NEW user \in Users, NEW args \in ClaimArgs,
           IsLeaf(user, args)
    PROVE  LET claimed == ClaimedRewards(ClaimStateOf(state, user))
           IN  ClaimOutcome(ClaimOf(state, user, args)) =
                  IF ~OffsetFits(state) THEN Other
                  ELSE IF ~IsLive(state, args) THEN InvalidProof
                  ELSE IF args.totalRewards < claimed THEN Other
                  ELSE IF args.totalRewards = claimed THEN AlreadyClaimed
                  ELSE IF VaultBalance(state) >= args.totalRewards - claimed THEN Ok ELSE Other
<1> DEFINE call == ClaimOf(state, user, args)
           ctx == Context(ClaimRewards, call)
           given == ClaimRewardsArgs(call)
           root == RootOf(state)
           claimed == ClaimedRewards(ClaimStateOf(state, user))
<1>1. DataOK /\ state \in StateKeys
  BY DEF AccountsInv, ExistingStates
<1>2. ClaimAccountsAccepted(call)
  BY ClaimOfAccepted
<1>3. /\ given = [index |-> args.index, total_rewards |-> args.totalRewards, proof |-> args.proof]
      /\ ctx.rewards_state = state
      /\ ctx.rewards_vault = VaultOf(state)
      /\ ctx.rewards_token_account = TokenAccount(state)
      /\ ctx.owner = user
      /\ ctx.claim_state = ClaimStateOf(state, user)
      /\ ctx.maybe_merkle_root_account = AddressGiven(RootAccountOf(state))
  BY <1>1, ClaimOfContext
<1>4. args.proof \in DOMAIN Trees /\ args.proof # NotARoot
  BY ArgsOfClaims, AccountsAssumption
<1> HIDE DEF ctx, call, given
<1>5. RecomputeRoot(user, given) = args.proof
  <2>1. given.index = args.index /\ given.total_rewards = args.totalRewards /\ given.proof = args.proof
    BY <1>3
  <2> QED
    BY <2>1 DEF RecomputeRoot, IsLeaf
<1>6. PICK x, y, z : root = <<x, y, z>> /\ StoredRoot(x, y, z)
  BY <1>1, RootsAreMeant DEF IsState
<1> HIDE DEF root
<1>7. root[1] = x /\ root[2] = y /\ root[3] = z /\ Tail(root) = <<y, z>>
  BY <1>6
<1>8. AddressGiven(RootAccountOf(state)) = IF x = 0 THEN PROGRAM_ID ELSE y
  <2>1. RootAccountOf(state) = IF x = 0 THEN Null ELSE Plain(y)
    BY <1>7 DEF RootAccountOf, root
  <2>2. x # 0 => Plain(y) # Null /\ Plain(y).address = y
    BY <1>6 DEF StoredRoot, Plain, Null
  <2> QED
    BY <2>1, <2>2 DEF AddressGiven
<1>9. ~UnwrapsNone(root, ctx.maybe_merkle_root_account)
  BY <1>3, <1>6, <1>7, <1>8 DEF UnwrapsNone, StoredRoot
<1>10. OffsetOverflows(root, ctx.maybe_merkle_root_account) <=> ~OffsetFits(state)
  <2>1. OffsetFits(state) <=> x = 0 \/ z + 32 <= MaxU64
    BY <1>7 DEF OffsetFits, root
  <2>2. CASE x = 0
    BY <1>7, <2>1, <2>2 DEF OffsetOverflows
  <2>3. CASE x # 0
    <3>1. x = 1 /\ z \in Nat
      BY <1>6, <2>3, OffsetsAreNat DEF StoredRoot
    <3>2. ctx.maybe_merkle_root_account = y
      BY <1>3, <1>8, <2>3
    <3> QED
      BY <1>7, <2>1, <3>1, <3>2, AccountsAssumption DEF OffsetOverflows
  <2> QED
    BY <2>2, <2>3
<1>11. RootIsAt(root, ctx.maybe_merkle_root_account, args.proof) <=> IsLive(state, args)
  <2>1. CASE x = 0
    BY <1>7, <2>1 DEF RootIsAt, IsLive, root
  <2>2. CASE x # 0
    <3>1. IsLive(state, args) <=> RootAtAddress(<<y, z>>) = args.proof
      BY <1>7, <2>2 DEF IsLive, root
    <3>2. RootIsAt(root, y, args.proof) <=> y = RootAccount /\ z \in DOMAIN RootsAt /\ RootsAt[z] = args.proof
      BY <1>7, <2>2 DEF RootIsAt
    <3>3. RootAtAddress(<<y, z>>) = IF y = RootAccount /\ z \in DOMAIN RootsAt THEN RootsAt[z] ELSE NotARoot
      BY DEF RootAtAddress
    <3>4. ctx.maybe_merkle_root_account = y
      BY <1>3, <1>8, <2>2
    <3> QED
      BY <1>4, <3>1, <3>2, <3>3, <3>4
  <2> QED
    BY <2>1, <2>2
<1>12. claimed \in Nat /\ args.totalRewards \in Nat
  BY <1>1, ClaimedIsNat, ArgsOfClaims
<1>13. CanTransfer(ctx, args.totalRewards - claimed) <=> VaultBalance(state) >= args.totalRewards - claimed
  <2>1. TokenOwner(TokenAccount(state)) = VaultOf(state)
    BY DEF TokenOwner, TokenAccount, AssociatedTokenAddress, ProgramDerivedAddress
  <2>2. tokens[TokenAccount(state)] = VaultBalance(state)
    BY <1>1, VaultsHold DEF AccountsInv
  <2> QED
    BY <1>3, <2>1, <2>2 DEF CanTransfer
<1>14. /\ SubSeq(accountData[ctx.rewards_state], 5, 7) = root
       /\ RecomputeRoot(ctx.owner, given) = args.proof
       /\ ClaimedRewards(ctx.claim_state) = claimed
       /\ given.total_rewards = args.totalRewards
  BY <1>3, <1>5 DEF root, RootOf
<1> HIDE DEF claimed
<1>15. ClaimOutcome(call) =
         IF ~ClaimAccountsAccepted(call) THEN Other
         ELSE IF UnwrapsNone(root, ctx.maybe_merkle_root_account) THEN Other
         ELSE IF OffsetOverflows(root, ctx.maybe_merkle_root_account) THEN Other
         ELSE IF ~RootIsAt(root, ctx.maybe_merkle_root_account, args.proof) THEN InvalidProof
         ELSE IF args.totalRewards < claimed THEN Other
         ELSE IF args.totalRewards = claimed THEN AlreadyClaimed
         ELSE IF ~CanTransfer(ctx, args.totalRewards - claimed) THEN Other ELSE Ok
  BY <1>14 DEF ClaimOutcome, ctx, given
<1> QED
  BY <1>2, <1>9, <1>10, <1>11, <1>13, <1>15 DEF call, claimed

LEMMA LiveOfInvFits ==
    ASSUME AccountsInv, NEW state \in ExistingStates, NEW args \in ClaimArgs, IsLive(state, args)
    PROVE  OffsetFits(state)
<1>1. PICK x, y, z : RootOf(state) = <<x, y, z>>
  BY RootsAreMeant DEF AccountsInv
<1>2. args.proof # NotARoot
  BY ArgsOfClaims, AccountsAssumption
<1> QED
  BY <1>1, <1>2, LiveFits

\* The invariant makes the claim of whoever is entitled one that succeeds.
LEMMA InvServes == AccountsInv => EntitledIsServed
<1> SUFFICES ASSUME AccountsInv, NEW state \in ExistingStates, NEW user \in Users, NEW args \in ClaimArgs,
                    IsLeaf(user, args), IsLive(state, args),
                    args.totalRewards > ClaimedRewards(ClaimStateOf(state, user)),
                    VaultBalance(state) >= args.totalRewards - ClaimedRewards(ClaimStateOf(state, user))
             PROVE  ClaimOutcome(ClaimOf(state, user, args)) = Ok
  BY DEF EntitledIsServed
<1> DEFINE claimed == ClaimedRewards(ClaimStateOf(state, user))
<1>1. claimed \in Nat /\ args.totalRewards \in Nat
  BY ClaimedIsNat, ArgsOfClaims DEF AccountsInv, ExistingStates
<1>2. ClaimOutcome(ClaimOf(state, user, args)) =
         IF ~OffsetFits(state) THEN Other
         ELSE IF ~IsLive(state, args) THEN InvalidProof
         ELSE IF args.totalRewards < claimed THEN Other
         ELSE IF args.totalRewards = claimed THEN AlreadyClaimed
         ELSE IF VaultBalance(state) >= args.totalRewards - claimed THEN Ok ELSE Other
  BY ClaimOfOutcome
<1>3. args.totalRewards > claimed /\ VaultBalance(state) >= args.totalRewards - claimed
  OBVIOUS
<1>4. OffsetFits(state)
  BY LiveOfInvFits
<1> HIDE DEF claimed
<1> QED
  BY <1>1, <1>2, <1>3, <1>4

\* The invariant makes every refusal one of the two that are told.
LEMMA InvTells == AccountsInv => RefusalsAreTold
<1> SUFFICES ASSUME AccountsInv, NEW state \in ExistingStates, NEW user \in Users, NEW args \in ClaimArgs,
                    IsLeaf(user, args)
             PROVE  LET call == ClaimOf(state, user, args)
                        told(code) == IsDephyRewardsError(ClaimOutcome(call), call, code)
                        claim == FetchMaybeClaimState(accountData, FindClaimStatePda(state, user, NoAddress))
                        claimed == IF claim.exists THEN claim.data.claimedRewards ELSE 0
                    IN /\ told(DEPHY_REWARDS_ERROR__INVALID_PROOF) <=> ~IsLive(state, args) /\ OffsetFits(state)
                       /\ told(DEPHY_REWARDS_ERROR__ALREADY_CLAIMED) <=>
                             IsLive(state, args) /\ claimed = args.totalRewards
  BY DEF RefusalsAreTold
<1> DEFINE call == ClaimOf(state, user, args)
           claim == FetchMaybeClaimState(accountData, FindClaimStatePda(state, user, NoAddress))
           claimed == IF claim.exists THEN claim.data.claimedRewards ELSE 0
           stored == ClaimedRewards(ClaimStateOf(state, user))
<1>1. claimed = stored
  <2>1. FindClaimStatePda(state, user, NoAddress) = ClaimStateOf(state, user)
    BY DEF FindClaimStatePda, ClaimStateOf, Pda, Given, PROGRAM_ID
  <2> QED
    BY <2>1 DEF FetchMaybeClaimState, FetchMaybe, DecodeClaimState, ClaimedRewards
<1>2. stored \in Nat /\ args.totalRewards \in Nat
  BY ClaimedIsNat, ArgsOfClaims DEF AccountsInv, ExistingStates
<1>3. ClaimOutcome(call) =
         IF ~OffsetFits(state) THEN Other
         ELSE IF ~IsLive(state, args) THEN InvalidProof
         ELSE IF args.totalRewards < stored THEN Other
         ELSE IF args.totalRewards = stored THEN AlreadyClaimed
         ELSE IF VaultBalance(state) >= args.totalRewards - stored THEN Ok ELSE Other
  BY ClaimOfOutcome
<1>4. call.programAddress = DEPHY_REWARDS_PROGRAM_ADDRESS
  BY ClaimOfContext, Programs DEF AccountsInv, Calls
<1>5. IsLive(state, args) => OffsetFits(state)
  BY LiveOfInvFits
<1> HIDE DEF call, claimed, stored
<1>6. /\ ClaimOutcome(call) = 6001 <=> ~IsLive(state, args) /\ OffsetFits(state)
      /\ ClaimOutcome(call) = 6002 <=> IsLive(state, args) /\ stored = args.totalRewards
  BY <1>2, <1>3, <1>5 DEF InvalidProof, Other, AlreadyClaimed, Ok
<1>7. /\ IsDephyRewardsError(ClaimOutcome(call), call, DEPHY_REWARDS_ERROR__INVALID_PROOF) <=>
            ~IsLive(state, args) /\ OffsetFits(state)
      /\ IsDephyRewardsError(ClaimOutcome(call), call, DEPHY_REWARDS_ERROR__ALREADY_CLAIMED) <=>
            IsLive(state, args) /\ claimed = args.totalRewards
  BY <1>1, <1>4, <1>6
     DEF IsDephyRewardsError, DEPHY_REWARDS_ERROR__INVALID_PROOF, DEPHY_REWARDS_ERROR__ALREADY_CLAIMED
<1> QED
  BY <1>7 DEF call, claimed

\* In every state that can be reached, a claim that the client builds from what it
\* fetches and derives succeeds for whoever has a leaf of the live tree with something
\* left to claim and a vault that can pay it (claimRewards.ts:193-341, lib.rs:49-103).
THEOREM EntitledCorrect == Spec => []EntitledIsServed
BY AccountsInvCorrect, InvServes, PTL

\* In every state that can be reached, a claimer is told "invalid proof" just when the
\* leaf is not live and the offset of the root, if it has one, leaves room for 32 bytes
\* below 2^64, and "already claimed" just when the leaf is live and the claim state has
\* its total (errors/dephyRewards.ts:17-64, lib.rs:54-79).
THEOREM RefusalsCorrect == Spec => []RefusalsAreTold
BY AccountsInvCorrect, InvTells, PTL

-----------------------------------------------------------------------------
(* What a reader of the chain makes of the changes *)

\* What ChangesAreExplained says of a step.
Explained ==
    /\ ConfigIsExplained
    /\ \A state \in StateKeys : StateIsExplained(state)
    /\ \A address \in ClaimStates : ClaimIsExplained(address)

\* What is fetched of the accounts that are not written is what was fetched before.
LEMMA FetchStays ==
    ASSUME NEW address, NEW d, Put(address, d), NEW a, a # address
    PROVE  /\ FetchMaybeGlobalConfig(accountData, a)' = FetchMaybeGlobalConfig(accountData, a)
           /\ FetchMaybeRewardsState(accountData, a)' = FetchMaybeRewardsState(accountData, a)
           /\ FetchMaybeClaimState(accountData, a)' = FetchMaybeClaimState(accountData, a)
<1>1. /\ a \in DOMAIN accountData' <=> a \in DOMAIN accountData
      /\ a \in DOMAIN accountData => accountData'[a] = accountData[a]
  BY DEF Put
<1> QED
  BY <1>1 DEF FetchMaybeGlobalConfig, FetchMaybeRewardsState, FetchMaybeClaimState, FetchMaybe

\* So only the account that is written needs an explanation.
LEMMA OnlyConfigWritten ==
    ASSUME NEW d, Put(ConfigAddress, d), ConfigIsExplained
    PROVE  Explained
<1>1. \A state \in StateKeys : StateIsExplained(state)
  BY FetchStays, KeysAreNotDerived DEF StateIsExplained
<1>2. \A address \in ClaimStates : ClaimIsExplained(address)
  <2>1. \A address \in ClaimStates : address # ConfigAddress
    BY AddressesDetermine DEF ClaimStates
  <2> QED
    BY <2>1, FetchStays DEF ClaimIsExplained
<1> QED
  BY <1>1, <1>2 DEF Explained

LEMMA OnlyStateWritten ==
    ASSUME NEW s \in StateKeys, NEW d, Put(s, d), StateIsExplained(s)
    PROVE  Explained
<1>1. ConfigIsExplained
  BY FetchStays, KeysAreNotDerived DEF ConfigIsExplained, ConfigAddress
<1>2. \A state \in StateKeys \ {s} : StateIsExplained(state)
  BY FetchStays DEF StateIsExplained
<1>3. \A address \in ClaimStates : ClaimIsExplained(address)
  <2>1. \A address \in ClaimStates : address # s
    BY KeysAreNotDerived DEF ClaimStates
  <2> QED
    BY <2>1, FetchStays DEF ClaimIsExplained
<1> QED
  BY <1>1, <1>2, <1>3 DEF Explained

LEMMA OnlyClaimWritten ==
    ASSUME NEW c \in ClaimStates, NEW d, Put(c, d), ClaimIsExplained(c)
    PROVE  Explained
<1>1. c # ConfigAddress /\ c \notin StateKeys
  BY KeysAreNotDerived, AddressesDetermine DEF ClaimStates
<1>2. ConfigIsExplained
  BY <1>1, FetchStays DEF ConfigIsExplained, ConfigAddress
<1>3. \A state \in StateKeys : StateIsExplained(state)
  BY <1>1, FetchStays DEF StateIsExplained
<1>4. \A address \in ClaimStates \ {c} : ClaimIsExplained(address)
  BY FetchStays DEF ClaimIsExplained
<1> QED
  BY <1>2, <1>3, <1>4 DEF Explained

\* The client identifies the instructions that the program takes.
LEMMA Identified ==
    ASSUME NEW call
    PROVE  /\ Calls(call, 175) => IdentifyInstruction(call.data) = "Initialize"
           /\ Calls(call, 185) => IdentifyInstruction(call.data) = "InitializeRewardsState"
           /\ Calls(call, 195) => IdentifyInstruction(call.data) = "UpdateMerkleRoot"
           /\ Calls(call, 32) => IdentifyInstruction(call.data) = "UpdateAuthority"
           /\ Calls(call, 4) => IdentifyInstruction(call.data) = "ClaimRewards"
BY DEF Calls, IdentifyInstruction

\* An instruction that the program took, and that was the last one.
LEMMA SentIs ==
    ASSUME NEW call, sent' = call
    PROVE  /\ Calls(call, 175) => WasSent("Initialize")
           /\ Calls(call, 185) => WasSent("InitializeRewardsState")
           /\ Calls(call, 195) => WasSent("UpdateMerkleRoot")
           /\ Calls(call, 32) => WasSent("UpdateAuthority")
           /\ Calls(call, 4) => WasSent("ClaimRewards")
<1>1. \A n : Calls(call, n) => sent'.programAddress = DEPHY_REWARDS_PROGRAM_ADDRESS
  BY Programs DEF Calls
<1> QED
  BY <1>1, Identified DEF WasSent

\* A tree is live when its hash is the one that a proof must lead to.
LEMMA LiveIs ==
    ASSUME DataOK, NEW s \in ExistingStates, NEW args
    PROVE  IsLive(s, args) <=> LiveHash(s) = args.proof
<1> DEFINE d == accountData[s]
<1>1. RootOf(s) = <<d[5], d[6], d[7]>>
  BY RootsAreMeant
<1> HIDE DEF d
<1>2. RootOf(s)[1] = d[5] /\ RootOf(s)[2] = d[6] /\ Tail(RootOf(s)) = <<d[6], d[7]>>
  BY <1>1
<1> QED
  BY <1>2 DEF IsLive, LiveHash, d

\* What is fetched of a rewards state whose account was written.
LEMMA WrittenFetched ==
    ASSUME NEW s \in StateKeys, NEW d, IsState(s, d), Put(s, d)
    PROVE  FetchMaybeRewardsState(accountData, s)'.data = DecodeRewardsState(d)
BY DEF Put, FetchMaybeRewardsState, FetchMaybe

\* The new configuration is explained by the call that made it.
LEMMA InitializeExplained ==
    ASSUME NEW call \in InitializeCalls, ProcessInitialize(call), sent' = call
    PROVE  Explained
<1> DEFINE ctx == Context(Initialize, call)
           read == ParseInitialize(call)
<1>1. ctx.global_config = ConfigAddress /\ ConfigMade(ctx.admin)
  BY InitializeEffect
<1>2. WasSent("Initialize") /\ ParseInitialize(sent') = read
  BY SentIs DEF ProcessInitialize
<1>3. /\ read.accounts.globalConfig.address = ctx.global_config
      /\ read.accounts.admin.address = ctx.admin
      /\ read.accounts.admin.isSigner
  BY InitializeRead, Signed DEF ProcessInitialize, ParseInitialize
<1> HIDE DEF ctx, read
<1>4. ConfigAddress \notin DOMAIN accountData /\ Put(ConfigAddress, <<149, ctx.admin>>)
  BY <1>1 DEF ConfigMade
<1>5. /\ ~FetchMaybeGlobalConfig(accountData, ConfigAddress).exists
      /\ FetchMaybeGlobalConfig(accountData, ConfigAddress)'.data.admin = ctx.admin
  BY <1>4 DEF Put, FetchMaybeGlobalConfig, FetchMaybe, DecodeGlobalConfig
<1>6. ConfigIsExplained
  BY <1>1, <1>2, <1>3, <1>5 DEF ConfigIsExplained, ConfigAddress
<1> QED
  BY <1>4, <1>6, OnlyConfigWritten

\* The new rewards state is explained by the call that made it.
LEMMA InitializeRewardsStateExplained ==
    ASSUME NEW call \in InitializeRewardsStateCalls, ProcessInitializeRewardsState(call), sent' = call
    PROVE  Explained
<1> DEFINE ctx == Context(InitializeRewardsState, call)
           read == ParseInitializeRewardsState(call)
           s == ctx.rewards_state
           d == <<155, ctx.authority, Mint, TokenAccount(s), 0, ZeroHash, 0>>
<1>1. /\ s \in StateKeys /\ ctx.authority \in Users
      /\ ctx.rewards_vault = VaultOf(s)
      /\ ctx.rewards_mint = Mint
      /\ ctx.rewards_token_account = TokenAccount(s)
      /\ s \notin DOMAIN accountData /\ Put(s, d)
  BY InitializeRewardsStateEffect DEF StateMade
<1>2. WasSent("InitializeRewardsState") /\ ParseInitializeRewardsState(sent') = read
  BY SentIs DEF ProcessInitializeRewardsState
<1>3. /\ read.accounts.rewardsState.address = s
      /\ read.accounts.authority.address = ctx.authority
      /\ read.accounts.rewardsVault.address = ctx.rewards_vault
      /\ read.accounts.rewardsMint.address = ctx.rewards_mint
      /\ read.accounts.rewardsTokenAccount.address = ctx.rewards_token_account
  BY InitializeRewardsStateRead DEF ParseInitializeRewardsState
<1>4. read.accounts.rewardsState.isSigner /\ read.accounts.authority.isSigner
  BY Signed DEF ProcessInitializeRewardsState, ParseInitializeRewardsState
<1> HIDE DEF ctx, read
<1>5. IsState(s, d)
  BY <1>1 DEF IsState, StoredRoot, ZeroHash, NotARoot, Bytes32
<1>6. d[2] = ctx.authority /\ d[5] = 0 /\ d[6] = ZeroHash
  OBVIOUS
<1> HIDE DEF d
<1>7. FetchMaybeRewardsState(accountData, s)'.data =
         [authority |-> ctx.authority, rewardsMint |-> Mint, rewardsTokenAccount |-> TokenAccount(s),
          merkleRoot |-> Inplace(ZeroHash)]
  BY <1>1, <1>5, <1>6, WrittenFetched, StateDecoded
<1>8. FindRewardsVaultPda(s, NoAddress) = VaultOf(s)
  BY DEF FindRewardsVaultPda, VaultOf, Pda, Given, PROGRAM_ID
<1>9. StateIsMade(s)
  BY <1>1, <1>2, <1>3, <1>4, <1>7, <1>8 DEF StateIsMade
<1>10. ~FetchMaybeRewardsState(accountData, s).exists
  BY <1>1 DEF FetchMaybeRewardsState, FetchMaybe
<1>11. StateIsExplained(s)
  BY <1>9, <1>10 DEF StateIsExplained
<1> QED
  BY <1>1, <1>11, OnlyStateWritten

\* What is fetched of a rewards state that exists.
LEMMA ExistingFetched ==
    ASSUME DataOK, NEW s \in ExistingStates
    PROVE  /\ FetchMaybeRewardsState(accountData, s).exists
           /\ FetchMaybeRewardsState(accountData, s).data = DecodeRewardsState(accountData[s])
           /\ IsState(s, accountData[s])
BY RootsAreMeant DEF FetchMaybeRewardsState, FetchMaybe, ExistingStates

\* The new root is explained by the call that set it.
LEMMA UpdateMerkleRootExplained ==
    ASSUME DataOK, NEW call \in UpdateMerkleRootCalls, ProcessUpdateMerkleRoot(call), sent' = call
    PROVE  Explained
<1> DEFINE ctx == Context(UpdateMerkleRoot, call)
           read == ParseUpdateMerkleRoot(call)
           s == ctx.rewards_state
           old == accountData[s]
<1>1. s \in StateKeys /\ ctx.authority \in Users
  BY UpdateMerkleRootEffect
<1>2. PICK root \in Roots : Tail(call.data) = EncodeMerkleRoot(root) /\ RootSet(s, ctx.authority, root)
  BY UpdateMerkleRootEffect
<1>3. WasSent("UpdateMerkleRoot") /\ ParseUpdateMerkleRoot(sent') = read
  BY SentIs DEF ProcessUpdateMerkleRoot
<1>4. /\ read.accounts.rewardsState.address = s
      /\ read.accounts.authority.address = ctx.authority
      /\ read.accounts.authority.isSigner
  BY UpdateMerkleRootRead, Signed DEF ProcessUpdateMerkleRoot, ParseUpdateMerkleRoot
<1>5. read.data.merkleRoot = root
  <2>1. read.data.merkleRoot = DecodeMerkleRoot(EncodeMerkleRoot(root))
    BY <1>2 DEF ParseUpdateMerkleRoot, DecodeUpdateMerkleRoot
  <2>2. IsRoot(root)
    BY AccountsAssumption
  <2> QED
    BY <2>1, <2>2 DEF IsRoot, EncodeMerkleRoot, DecodeMerkleRoot
<1> HIDE DEF ctx, read
<1>6. s \in ExistingStates /\ ctx.authority = old[2]
  BY <1>2 DEF RootSet
<1>7. \E d : /\ IsState(s, d) /\ Put(s, d)
             /\ d[2] = ctx.authority
             /\ (IF d[5] = 0 THEN Inplace(d[6]) ELSE External(d[6], d[7])) = root
  <2>1. IsRoot(root)
    BY AccountsAssumption
  <2>2. CASE IsMerkleRoot("Inplace", root)
    <3> DEFINE d == <<155, ctx.authority, Mint, TokenAccount(s), 0, root.hash, accountData[s][7]>>
    <3>1. Put(s, d)
      BY <1>2, <2>2 DEF RootSet
    <3>2. IsState(s, d)
      BY <1>1, <2>2, RootsAreStored DEF IsState
    <3>3. d[2] = ctx.authority /\ d[5] = 0 /\ d[6] = root.hash
      OBVIOUS
    <3> HIDE DEF d
    <3> QED
      BY <2>1, <2>2, <3>1, <3>2, <3>3 DEF IsRoot
  <2>3. CASE ~IsMerkleRoot("Inplace", root)
    <3> DEFINE d == <<155, ctx.authority, Mint, TokenAccount(s), 1, root.pubkey, root.offset>>
    <3>1. Put(s, d)
      BY <1>2, <2>3 DEF RootSet
    <3>2. IsState(s, d)
      BY <1>1, <2>3, RootsAreStored DEF IsState
    <3>3. d[2] = ctx.authority /\ d[5] = 1 /\ d[6] = root.pubkey /\ d[7] = root.offset
      OBVIOUS
    <3> HIDE DEF d
    <3> QED
      BY <2>1, <2>3, <3>1, <3>2, <3>3 DEF IsRoot
  <2> QED
    BY <2>2, <2>3
<1>8. PICK d : /\ IsState(s, d) /\ Put(s, d)
               /\ d[2] = ctx.authority
               /\ (IF d[5] = 0 THEN Inplace(d[6]) ELSE External(d[6], d[7])) = root
  BY <1>7
<1> DEFINE fetched == FetchMaybeRewardsState(accountData, s)
<1>9. /\ fetched.exists /\ IsState(s, old)
      /\ fetched.data = DecodeRewardsState(old)
      /\ fetched.data' = DecodeRewardsState(d)
  BY <1>1, <1>6, <1>8, ExistingFetched, WrittenFetched
<1> HIDE DEF s, old
<1>10. /\ fetched.data.authority = ctx.authority
       /\ fetched.data' = [fetched.data EXCEPT !.merkleRoot = root]
  <2>1. fetched.data = [authority |-> ctx.authority, rewardsMint |-> Mint, rewardsTokenAccount |-> TokenAccount(s),
                        merkleRoot |-> IF old[5] = 0 THEN Inplace(old[6]) ELSE External(old[6], old[7])]
    BY <1>6, <1>9, StateDecoded
  <2>2. fetched.data' = [authority |-> ctx.authority, rewardsMint |-> Mint, rewardsTokenAccount |-> TokenAccount(s),
                         merkleRoot |-> root]
    BY <1>8, <1>9, StateDecoded
  <2> HIDE DEF fetched
  <2> QED
    BY <2>1, <2>2
<1>11. RootIsSet(s)
  BY <1>3, <1>4, <1>5, <1>10 DEF RootIsSet, s
<1>12. StateIsExplained(s)
  BY <1>9, <1>11 DEF StateIsExplained
<1> QED
  BY <1>1, <1>8, <1>12, OnlyStateWritten DEF s

\* The new authority is explained by the call that set it.
LEMMA UpdateAuthorityExplained ==
    ASSUME DataOK, NEW call \in UpdateAuthorityCalls, ProcessUpdateAuthority(call), sent' = call
    PROVE  Explained
<1> DEFINE ctx == Context(UpdateAuthority, call)
           read == ParseUpdateAuthority(call)
           s == ctx.rewards_state
           old == accountData[s]
           d == <<155, ctx.new_authority, Mint, TokenAccount(s), old[5], old[6], old[7]>>
<1>1. s \in StateKeys /\ ctx.new_authority \in Users /\ AuthoritySet(s, ctx.authority, ctx.new_authority)
  BY UpdateAuthorityEffect
<1>2. WasSent("UpdateAuthority") /\ ParseUpdateAuthority(sent') = read
  BY SentIs DEF ProcessUpdateAuthority
<1>3. /\ read.accounts.rewardsState.address = s
      /\ read.accounts.authority.address = ctx.authority
      /\ read.accounts.newAuthority.address = ctx.new_authority
      /\ read.accounts.authority.isSigner
  BY UpdateAuthorityRead, Signed DEF ProcessUpdateAuthority, ParseUpdateAuthority
<1> HIDE DEF ctx, read
<1>4. /\ s \in ExistingStates /\ ConfigAddress \in DOMAIN accountData /\ Put(s, d)
      /\ ctx.authority \in {accountData[ConfigAddress][2], old[2]}
  BY <1>1 DEF AuthoritySet
<1> DEFINE fetched == FetchMaybeRewardsState(accountData, s)
           config == FetchMaybeGlobalConfig(accountData, Pda("global_config", << >>))
<1>5. /\ fetched.exists /\ IsState(s, old)
      /\ fetched.data = DecodeRewardsState(old)
  BY <1>4, ExistingFetched
<1>6. config.exists /\ config.data.admin = accountData[ConfigAddress][2]
  BY <1>4 DEF FetchMaybeGlobalConfig, FetchMaybe, DecodeGlobalConfig, ConfigAddress
<1> HIDE DEF s, old
<1>7. IsState(s, d)
  BY <1>1, <1>5 DEF IsState
<1>8. d[2] = ctx.new_authority /\ d[5] = old[5] /\ d[6] = old[6] /\ d[7] = old[7]
  OBVIOUS
<1> HIDE DEF d
<1>9. fetched.data' = DecodeRewardsState(d)
  BY <1>1, <1>4, <1>7, WrittenFetched
<1>10. /\ fetched.data.authority = old[2]
       /\ fetched.data' = [fetched.data EXCEPT !.authority = ctx.new_authority]
  <2> DEFINE root == IF old[5] = 0 THEN Inplace(old[6]) ELSE External(old[6], old[7])
  <2>1. fetched.data = [authority |-> old[2], rewardsMint |-> Mint, rewardsTokenAccount |-> TokenAccount(s),
                        merkleRoot |-> root]
    BY <1>5, StateDecoded
  <2>2. fetched.data' = [authority |-> ctx.new_authority, rewardsMint |-> Mint,
                         rewardsTokenAccount |-> TokenAccount(s), merkleRoot |-> root]
    BY <1>7, <1>8, <1>9, StateDecoded
  <2> HIDE DEF fetched, root
  <2> QED
    BY <2>1, <2>2
<1>11. AuthorityIsSet(s)
  <2>1. \/ ctx.authority = fetched.data.authority
        \/ config.exists /\ ctx.authority = config.data.admin
    BY <1>4, <1>6, <1>10
  <2> QED
    BY <1>2, <1>3, <1>10, <2>1 DEF AuthorityIsSet, s
<1>12. StateIsExplained(s)
  BY <1>5, <1>11 DEF StateIsExplained
<1> QED
  BY <1>1, <1>4, <1>12, OnlyStateWritten

\* The new total of a claim state is explained by the call that claimed it.
LEMMA ClaimRewardsExplained ==
    ASSUME DataOK, NEW call \in ClaimRewardsCalls, ProcessClaimRewards(call), sent' = call
    PROVE  Explained
<1> DEFINE ctx == Context(ClaimRewards, call)
           args == ClaimRewardsArgs(call)
           read == ParseClaimRewards(call)
           s == ctx.rewards_state
           c == ctx.claim_state
           d == <<71, ctx.owner, args.total_rewards>>
<1>1. /\ s \in StateKeys /\ ctx.owner \in Users
      /\ c = ClaimStateOf(s, ctx.owner)
      /\ LiveHash(s) = args.proof
      /\ IsLeafAt(args.proof, args.index, <<ctx.owner, args.total_rewards>>)
      /\ accountData[s][5] # 0 => ctx.maybe_merkle_root_account = accountData[s][6]
      /\ RewardsClaimed(s, ctx.owner, args.total_rewards, ctx.beneficiary_token_account)
  BY ClaimRewardsEffect
<1>2. Calls(call, 4) /\ FlagsAsRequired(ClaimRewards, call)
  BY DEF ProcessClaimRewards, ClaimOutcome, ClaimAccountsAccepted, Ok, Other
<1>3. WasSent("ClaimRewards") /\ ParseClaimRewards(sent') = read
  BY <1>2, SentIs
<1>4. /\ read.accounts.rewardsState.address = s
      /\ read.accounts.owner.address = ctx.owner /\ read.accounts.owner.isSigner
      /\ read.accounts.claimState.address = c
      /\ read.accounts.maybeMerkleRootAccount =
            IF ctx.maybe_merkle_root_account = PROGRAM_ID THEN NoAddress ELSE ctx.maybe_merkle_root_account
      /\ read.data = DecodeClaimRewards(call.data)
  <2> DEFINE named == NamedAccounts(ClaimRewardsInstruction, call)
  <2>1. /\ named.rewardsState.address = ctx.rewards_state
        /\ named.owner.address = ctx.owner
        /\ named.claimState.address = ctx.claim_state
        /\ named.maybeMerkleRootAccount.address = ctx.maybe_merkle_root_account
        /\ named.owner.isSigner
    BY <1>2, ClaimRewardsRead, Signed
  <2>2. DOMAIN named = {ClaimRewardsInstruction[i].name : i \in DOMAIN ClaimRewardsInstruction}
    BY DEF NamedAccounts
  <2>3. "maybeMerkleRootAccount" \in DOMAIN named
    BY <2>2, ClaimRewardsNames DEF Matches
  <2> HIDE DEF named, ctx
  <2>4. read.accounts = [named EXCEPT !.maybeMerkleRootAccount =
                            IF @.address = DEPHY_REWARDS_PROGRAM_ADDRESS THEN NoAddress ELSE @.address]
    BY DEF ParseClaimRewards, named
  <2>5. read.data = DecodeClaimRewards(call.data)
    BY DEF ParseClaimRewards
  <2> HIDE DEF read
  <2> QED
    BY <2>1, <2>3, <2>4, <2>5, Programs
<1>5. read.data.index = args.index /\ read.data.totalRewards = args.total_rewards /\ read.data.proof = args.proof
  BY <1>4 DEF DecodeClaimRewards, ClaimRewardsArgs
<1>6. args.total_rewards \in Nat
  BY ClaimRewardsEffect
<1> HIDE DEF ctx, args, read
<1>7. /\ s \in ExistingStates /\ Put(c, d)
      /\ args.total_rewards > ClaimedRewards(c)
  BY <1>1 DEF RewardsClaimed
<1>8. d[2] = ctx.owner /\ d[3] = args.total_rewards
  OBVIOUS
<1> HIDE DEF d
<1> DEFINE fetched == FetchMaybeClaimState(accountData, c)
           root == FetchMaybeRewardsState(accountData, s).data.merkleRoot
<1>9. fetched.data' = [owner |-> ctx.owner, claimedRewards |-> args.total_rewards]
  BY <1>7, <1>8 DEF Put, FetchMaybeClaimState, FetchMaybe, DecodeClaimState
<1>10. IsMerkleRoot("External", root) => read.accounts.maybeMerkleRootAccount = root.pubkey
  <2> DEFINE old == accountData[s]
  <2>1. IsState(s, old) /\ root = DecodeRewardsState(old).merkleRoot
    BY <1>7, ExistingFetched
  <2>2. old[5] # 0 => ctx.maybe_merkle_root_account = old[6]
    BY <1>1
  <2> HIDE DEF old, s, root
  <2>3. root = IF old[5] = 0 THEN Inplace(old[6]) ELSE External(old[6], old[7])
    BY <2>1, StateDecoded
  <2>4. old[5] # 0 => old[6] # PROGRAM_ID
    BY <2>1 DEF IsState, StoredRoot
  <2> QED
    BY <1>4, <2>2, <2>3, <2>4 DEF IsMerkleRoot, Inplace, External
<1>11. fetched.exists => fetched.data.claimedRewards < args.total_rewards
  <2>1. fetched.exists => fetched.data.claimedRewards = ClaimedRewards(c)
    BY DEF FetchMaybeClaimState, FetchMaybe, DecodeClaimState, ClaimedRewards
  <2>2. ClaimedRewards(c) \in Nat /\ args.total_rewards \in Nat
    BY <1>1, <1>6, ClaimedIsNat
  <2> QED
    BY <1>7, <2>1, <2>2
<1>12. c = FindClaimStatePda(s, ctx.owner, NoAddress)
  BY <1>1 DEF FindClaimStatePda, ClaimStateOf, Pda, Given, PROGRAM_ID
<1>13. IsLeaf(ctx.owner, read.data) /\ IsLive(s, read.data)
  BY <1>1, <1>5, <1>7, LiveIs DEF IsLeaf
<1>14. ClaimIsExplained(c)
  <2> HIDE DEF fetched, root, s, c
  <2>1. /\ WasSent("ClaimRewards")
        /\ read.accounts.claimState.address = c
        /\ c = FindClaimStatePda(s, ctx.owner, NoAddress)
        /\ read.accounts.owner.isSigner
        /\ fetched.data' = [owner |-> ctx.owner, claimedRewards |-> read.data.totalRewards]
        /\ fetched.exists => fetched.data.claimedRewards < read.data.totalRewards
        /\ IsLeaf(ctx.owner, read.data) /\ IsLive(s, read.data)
        /\ IsMerkleRoot("External", root) => read.accounts.maybeMerkleRootAccount = root.pubkey
    BY <1>3, <1>4, <1>5, <1>9, <1>10, <1>11, <1>12, <1>13
  <2>2. ParseClaimRewards(sent') = read
    BY <1>3
  <2>3. s = read.accounts.rewardsState.address /\ ctx.owner = read.accounts.owner.address
    BY <1>4
  <2> QED
    BY <2>1, <2>2, <2>3 DEF ClaimIsExplained, fetched, root
<1>15. c \in ClaimStates
  BY <1>1 DEF ClaimStates
<1> QED
  BY <1>7, <1>14, <1>15, OnlyClaimWritten

\* Every change is explained.
LEMMA StepExplained == AccountsInv /\ [Next]_vars => [Explained]_vars
<1> SUFFICES ASSUME DataOK, Next, vars' # vars PROVE Explained
  BY DEF AccountsInv
<1>1. CASE CallInitialize
  BY <1>1, InitializeExplained DEF CallInitialize
<1>2. CASE CallInitializeRewardsState
  BY <1>2, InitializeRewardsStateExplained DEF CallInitializeRewardsState
<1>3. CASE CallUpdateMerkleRoot
  BY <1>3, UpdateMerkleRootExplained DEF CallUpdateMerkleRoot
<1>4. CASE CallUpdateAuthority
  BY <1>4, UpdateAuthorityExplained DEF CallUpdateAuthority
<1>5. CASE CallClaimRewards
  BY <1>5, ClaimRewardsExplained DEF CallClaimRewards
<1>6. CASE Fund
  <2>1. accountData' = accountData
    BY <1>6 DEF Fund
  <2> QED
    BY <2>1 DEF Explained, ConfigIsExplained, StateIsExplained, ClaimIsExplained, FetchMaybeGlobalConfig,
                FetchMaybeRewardsState, FetchMaybeClaimState, FetchMaybe
<1> QED
  BY <1>1, <1>2, <1>3, <1>4, <1>5, <1>6 DEF Next

\* Every change of the configuration, of a rewards state or of a claim state is what the
\* instruction that was sent says, as the generated client identifies and parses it, and
\* was signed by whom the program is to obey: the owner of the claim, the authority, or
\* for a new authority the administrator (lib.rs:12-103, 36-42).
THEOREM ChangesAreExplainedCorrect == Spec => ChangesAreExplained
<1>1. AccountsInv /\ [Next]_vars => [Explained]_vars
  BY StepExplained
<1>2. Spec => [][Explained]_vars
  BY <1>1, AccountsInvCorrect, PTL DEF Spec
<1> QED
  BY <1>2 DEF ChangesAreExplained, Explained

=============================================================================
