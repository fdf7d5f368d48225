------------------------------- MODULE Rewards -------------------------------
(***************************************************************************)
(* The dephy-rewards program: rewards states, each with a token vault and  *)
(* a Merkle root, and what each owner has claimed under each of them.      *)
(*                                                                         *)
(* A root stands for the set of its leaves <<owner, total>>: a proof that  *)
(* recompute_root takes to the root exists for the leaves of the tree and  *)
(* for no others (module MerkleTree checks this of the trees the clients   *)
(* build).  The zero root, and bytes that are no root, have no leaves.     *)
(* An owner may have several leaves: the index is the claimer's choice.    *)
(***************************************************************************)
EXTENDS Sums

CONSTANTS
    States,         \* rewards states
    Owners,         \* those who can be named in a leaf
    Keys,           \* keys that can be the admin or an authority
    NoKey,          \* "the account does not exist"
    Trees,          \* sets of leaves that have been given a root
    Slots,          \* places <<account, offset>> a root can be read from
    Wallet,         \* any token account that is no rewards vault
    Amounts,        \* amounts a vault may be funded with in one transfer
    TokenSupply     \* the supply of the rewards mint

Leaves == Owners \X Nat

ASSUME RewardsAssumption ==
    /\ IsFiniteSet(Owners)
    /\ NoKey \notin Keys
    /\ Wallet \notin States
    /\ {} \in Trees
    /\ Trees \subseteq SUBSET Leaves
    /\ TokenSupply \in Nat
    /\ Amounts \subseteq Nat

VARIABLES
    admin,          \* GlobalConfig.admin
    authority,      \* RewardsState.authority of each state
    merkleRoot,     \* RewardsState.merkle_root of each state
    claimed,        \* ClaimState.claimed_rewards of each state and owner
    balance,        \* tokens in the rewards token account of each state
    outside,        \* tokens in all other accounts
    slotData,       \* what the bytes at each slot are the root of
    received,       \* history: tokens that left a vault for an owner's claims
    deposited,      \* history: tokens that entered a vault
    everLive        \* history: leaves that were claimable at some time

configVars == <<admin, authority>>
tokenVars == <<balance, outside>>
historyVars == <<received, deposited>>
rewardsVars == <<configVars, merkleRoot, claimed, tokenVars, historyVars, everLive>>
allVars == <<rewardsVars, slotData>>

-----------------------------------------------------------------------------

\* MerkleRoot::Inplace and MerkleRoot::External
Inplace(tree) == [type |-> "Inplace", hash |-> tree]
External(slot) == [type |-> "External", slot |-> slot]
MerkleRoots == {Inplace(tree) : tree \in Trees} \cup {External(slot) : slot \in Slots}

RewardsTypeOK ==
    /\ admin \in Keys \cup {NoKey}
    /\ authority \in [States -> Keys \cup {NoKey}]
    /\ merkleRoot \in [States -> MerkleRoots]
    /\ claimed \in [States -> [Owners -> Nat]]
    /\ balance \in [States -> Nat]
    /\ outside \in Nat
    /\ slotData \in [Slots -> Trees]
    /\ received \in [States -> [Owners -> Nat]]
    /\ deposited \in [States -> Nat]
    /\ everLive \in [States -> SUBSET Leaves]

RewardsInit ==
    /\ admin = NoKey
    /\ authority = [s \in States |-> NoKey]
    /\ merkleRoot = [s \in States |-> Inplace({})]
    /\ claimed = [s \in States |-> [o \in Owners |-> 0]]
    /\ balance = [s \in States |-> 0]
    /\ outside = TokenSupply
    /\ received = [s \in States |-> [o \in Owners |-> 0]]
    /\ deposited = [s \in States |-> 0]
    /\ everLive = [s \in States |-> {}]

Exists(s) == authority[s] # NoKey

\* The leaves a claim under state s can be proved with.
LiveTree(s) ==
    IF merkleRoot[s].type = "Inplace" THEN merkleRoot[s].hash ELSE slotData[merkleRoot[s].slot]

\* The history of what was claimable, kept by every step.
ObserveLive == everLive' = [s \in States |-> everLive[s] \cup LiveTree(s)']

-----------------------------------------------------------------------------
(* Mistakes the program could have made; nothing uses these operators.     *)

\* Totals are taken for the rewards of one epoch and added up.
TotalAdded(s, o, total) == claimed[s][o] + total

\* The leaf is paid in full, whatever was claimed before.
PaysTotal(s, o, total) == total

\* The balance of the vault is not looked at.
Overdraw(from, to, amount) ==
    /\ balance' = [balance EXCEPT ![from] = @ - amount]
    /\ outside' = outside + amount
    /\ UNCHANGED deposited

\* A vault that is short of the amount gives what it has, and all is paid.
TransferWhatIsThere(from, to, amount) ==
    IF to \in States
    THEN /\ balance' = [balance EXCEPT ![from] = IF @ < amount THEN 0 ELSE @ - amount,
                                       ![to] = @ + amount]
         /\ deposited' = [deposited EXCEPT ![to] = @ + amount]
         /\ UNCHANGED outside
    ELSE /\ balance' = [balance EXCEPT ![from] = IF @ < amount THEN 0 ELSE @ - amount]
         /\ outside' = outside + amount
         /\ UNCHANGED deposited

-----------------------------------------------------------------------------
(* Instructions                                                            *)

\* initialize
Initialize(key) ==
    /\ admin = NoKey
    /\ admin' = key
    /\ UNCHANGED <<authority, merkleRoot, claimed, tokenVars, historyVars, slotData>>

\* initialize_rewards_state: the zeroed root is Inplace with 32 zero bytes.
InitializeRewardsState(s, key) ==
    /\ ~Exists(s)
    /\ authority' = [authority EXCEPT ![s] = key]
    /\ merkleRoot' = [merkleRoot EXCEPT ![s] = Inplace({})]
    /\ UNCHANGED <<admin, claimed, tokenVars, historyVars, slotData>>

\* update_merkle_root
UpdateMerkleRoot(s, signer, root) ==
    /\ Exists(s)
    /\ signer = authority[s]
    /\ merkleRoot' = [merkleRoot EXCEPT ![s] = root]
    /\ UNCHANGED <<configVars, claimed, tokenVars, historyVars, slotData>>

\* update_authority: by the admin or the present authority.
UpdateAuthority(s, signer, key) ==
    /\ admin # NoKey
    /\ Exists(s)
    /\ signer \in {admin, authority[s]}
    /\ authority' = [authority EXCEPT ![s] = key]
    /\ UNCHANGED <<admin, merkleRoot, claimed, tokenVars, historyVars, slotData>>

\* transfer_checked of the token program, out of the vault of a state.  The
\* destination may be a vault, the paying one too: that moves nothing.
Transfer(from, to, amount) ==
    /\ amount <= balance[from]
    /\ \/ /\ to = from
          /\ UNCHANGED <<balance, outside, deposited>>
       \/ /\ to \in States \ {from}
          /\ balance' = [balance EXCEPT ![from] = @ - amount, ![to] = @ + amount]
          /\ deposited' = [deposited EXCEPT ![to] = @ + amount]
          /\ UNCHANGED outside
       \/ /\ to = Wallet
          /\ balance' = [balance EXCEPT ![from] = @ - amount]
          /\ outside' = outside + amount
          /\ UNCHANGED deposited

\* The proof is for a leaf of the live root, and something is left to claim.
\* (A total below what was claimed makes the subtraction overflow.)
Claimable(s, o, total) ==
    /\ Exists(s)
    /\ <<o, total>> \in LiveTree(s)
    /\ total > claimed[s][o]

\* What a claim transfers, and what it records.
Unclaimed(s, o, total) == total - claimed[s][o]
Recorded(s, o, total) == total

\* claim_rewards
ClaimRewards(s, o, total, beneficiary) ==
    /\ Claimable(s, o, total)
    /\ beneficiary \in States => Exists(beneficiary)
    /\ Transfer(s, beneficiary, Unclaimed(s, o, total))
    /\ claimed' = [claimed EXCEPT ![s][o] = Recorded(s, o, total)]
    /\ received' = IF beneficiary = s
                   THEN received
                   ELSE [received EXCEPT ![s][o] = @ + Unclaimed(s, o, total)]
    /\ UNCHANGED <<configVars, merkleRoot, slotData>>

-----------------------------------------------------------------------------
(* The environment *)

\* Anybody transfers tokens into a vault.
Fund(s, amount) ==
    /\ Exists(s)
    /\ amount <= outside
    /\ balance' = [balance EXCEPT ![s] = @ + amount]
    /\ deposited' = [deposited EXCEPT ![s] = @ + amount]
    /\ outside' = outside - amount
    /\ UNCHANGED <<configVars, merkleRoot, claimed, received, slotData>>

\* The programs that own the accounts write to them.
WriteSlots(data) ==
    /\ slotData' = data
    /\ UNCHANGED <<configVars, merkleRoot, claimed, tokenVars, historyVars>>

-----------------------------------------------------------------------------

Instructions ==
    \/ \E key \in Keys : Initialize(key)
    \/ \E s \in States, key \in Keys : InitializeRewardsState(s, key)
    \/ \E s \in States, signer \in Keys, root \in MerkleRoots : UpdateMerkleRoot(s, signer, root)
    \/ \E s \in States, signer \in Keys, key \in Keys : UpdateAuthority(s, signer, key)
    \/ \E s \in States, beneficiary \in States \cup {Wallet} :
           \E leaf \in LiveTree(s) : ClaimRewards(s, leaf[1], leaf[2], beneficiary)

Funding == \E s \in States, amount \in Amounts : Fund(s, amount)

RewardsNext ==
    /\ \/ Instructions
       \/ Funding
       \/ \E data \in [Slots -> Trees] : WriteSlots(data)
    /\ ObserveLive

\* At the start the accounts roots can be read from hold anything.
RewardsStart == RewardsInit /\ slotData \in [Slots -> Trees]

RewardsSpec ==
    /\ RewardsStart
    /\ [][RewardsNext]_allVars

\* Cumulative publishing: an owner has one leaf in a tree, and whenever a live
\* tree changes, in place or in the slot it is read from, it promises every owner
\* at least as much as before.
OneLeafEach == \A tree \in Trees : \A leaf, other \in tree : leaf[1] = other[1] => leaf = other

Dominates(new, old) == \A leaf \in old : \E other \in new : other[1] = leaf[1] /\ other[2] >= leaf[2]

RootsGrow == \A s \in States : Dominates(LiveTree(s)', LiveTree(s))

CumulativeSpec ==
    /\ RewardsStart
    /\ [][RewardsNext /\ RootsGrow]_allVars

-----------------------------------------------------------------------------
(* Properties *)

\* The books of every vault balance, whoever claims in whatever order and into
\* whichever account, another vault and the paying one included (lib.rs:80-100).
VaultBalances ==
    \A s \in States : balance[s] + SumOver(Owners, received[s]) = deposited[s]

\* An owner never draws more from a vault than one leaf that was claimable there
\* promised it in total: leaves of successive roots do not add up (lib.rs:54-100).
NoOverpayment ==
    \A s \in States, o \in Owners :
        /\ received[s][o] <= claimed[s][o]
        /\ claimed[s][o] > 0 => <<o, claimed[s][o]>> \in everLive[s]

\* A vault is debited only for the claim of one owner, by as much as its claimed
\* rewards rise, to a total that a leaf of the root live before the step names;
\* and claimed rewards change in no other way (lib.rs:49-103).
PayoutIsBacked ==
    [][\A s \in States :
          /\ \A o \in Owners : claimed'[s][o] # claimed[s][o] =>
                /\ claimed'[s][o] > claimed[s][o]
                /\ <<o, claimed'[s][o]>> \in LiveTree(s)
          /\ balance'[s] < balance[s] => \E o \in Owners :
                claimed'[s] = [claimed[s] EXCEPT ![o] = @ + (balance[s] - balance'[s])]]_allVars

\* Under cumulative publishing no owner is locked out: what it claimed never
\* exceeds a leaf it has, so that the subtraction in claim_rewards cannot
\* overflow (lib.rs:77).
NeverLockedOut ==
    \A s \in States : \A leaf \in LiveTree(s) : claimed[s][leaf[1]] <= leaf[2]

=============================================================================
