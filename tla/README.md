# Verification of dephy-ncn-v2

TLA+ modules, TLC runs and TLAPS proofs kept beside the code of dephy-ncn-v2. `PROJECT.json` lists the components,
the runs, the code lines each definition stands for, the mutants that show each property can fail, the hazards, and
the theorems.

## The system

dephy-ncn-v2 is a Jito node consensus network (NCN). Once per Solana epoch its operators agree on the Merkle root of
the rewards, and a second program pays those rewards out.

| part | source | state it keeps | operations |
|---|---|---|---|
| **dephy-ncn program** | `programs/dephy-ncn/src` | `Config`, `BallotBox`, one `VoterState` per operator | `initialize_ncn`, `initialize_vault`, `warmup_vault`, `initialize_operator`, `warmup_operator`, `vote` |
| **dephy-rewards program** | `programs/dephy-rewards/src` | `GlobalConfig` (admin), `RewardsState` (authority, mint, root), one `ClaimState` per owner and rewards state, token vaults | `initialize`, `initialize_rewards_state`, `update_merkle_root`, `update_authority`, `claim_rewards` |
| **rewards trees** | `clients/dephy-rewards/js/src` (copies under `tests/`, which `rewards_cli.ts` uses) | a Merkle tree over the rewards of an epoch | build, `getProof`, `updateLeaf`, `hashProof`, `verify` |
| **mock operator** | `scripts/mock_operator.ts` | its last voted epoch | poll the epoch, vote, retry |
| **dephy-rewards tool** | `scripts/rewards_cli.ts` | none; transactions on their way | set a rewards state up, publish roots, fund it, claim |
| **dephy-ncn tool** | `scripts/cli.ts`, `actions.ts` | none | set a network up, vote |
| **kit client** | `clients/dephy-rewards/js/src/generated` | none | build, parse and identify instructions, derive addresses, decode accounts, read errors |
| Jito restaking and vault programs | external (`deps/` holds clients only) | tickets, slot toggles, delegations, VRT supply | called by CPI, or by their owners |

How they interact:

- dephy-ncn calls the Jito restaking program when the network is set up, and *reads* Jito accounts (operator,
  ticket, delegation, vault) when an operator votes. The owners of those accounts change them at any time.
- dephy-rewards never calls dephy-ncn. A rewards state whose root is `External` reads 32 bytes at an offset of an
  account when a claim is made; that account may be the ballot box, which is still being voted on.
- An operator process reads the epoch and sends a vote. Nothing in the vote names the epoch it was meant for.
- Owners build the tree from the published rewards, make a proof, and claim some time later.
- Whoever calls a program names the accounts; anchor and the kit client derive those that are left out. The programs
  check what they are given against the addresses they derive.
- A command sends one transaction and waits for it. A command that is repeated does not know whether the transaction
  of the run before was executed, or still will be.

What is hard: the first vote of an epoch fixes the proposal; stake and supply change between the votes of one tally;
the threshold is that of the deciding vote's vault; consensus is only ever checked by a vote; u64 sums and products
overflow; roots are replaced between a proof and its claim, by a later root that may promise less; a vote, a claim
or a new root is confirmed late, lands late, or lands after its process crashed and another one was sent; a call
names the account of another network, state or owner. `PROJECT.json` lists these hazards at their lines, with the
properties that cover them, or the reason that none does.

## Modules

```
EpochConsensus      what a reader of rewards_root is promised (abstract)
   ^ implemented by
DephyNcn            the dephy-ncn program         Sums      sums over finite sets, without recursion
   ^                                                ^
   |- NcnAccounts    several NCNs, as accounts;     |
   |                 each implements DephyNcn       |
   |- MockOperators  processes, network; extends  Rewards   the dephy-rewards program
   |- NcnRewards     both programs; extends, INSTANCEs^ ^
RewardsClient       the kit client (pure)             |- RewardsCli  the tool and the network; extends it
   ^ extended by                                      |
RewardsAccounts     the program as accounts, called by the client; implements it
MerkleTree          the trees of the clients and recompute_root
ConnectedNcn, MC*   instances for TLC             *Proofs   theorems
```

**DephyNcn.** A transaction is atomic and a failing instruction changes nothing, so that every instruction is one
action and a failing one is disabled. An account found by its seeds is an entry of a set or a function. `Vote`
follows `handle_vote` in its order: `Eligible` (the accounts and the `require!`s), `OpenedBallot` (the first voter),
`CountedBallot`, `SettledBallot` with `Threshold`, and `FitsU64` for the checked arithmetic (`overflow-checks =
true` in `Cargo.toml`). The program keeps sums only; the history variable `votes`, what each operator voted last, is
what the properties compare them with. `SetDelegation`, `SetSupply`, `InitializeOperatorVaultTicket`, `NextSlot` and
`AdvanceEpoch` are the environment; stakes and supplies change at will, unrelated to each other. As in the code, a
vote needs neither of the NCN's tickets.

**EpochConsensus.** No stakes, vaults or accounts: an operator casts at most one root per epoch, at most one root is
published per epoch, and it is one that was cast in it.

**Rewards.** A root is the set of its leaves `<<owner, total>>`. That is justified by MerkleTree, where the program
accepts a proof for the leaves of a tree and for nothing else; the zero root, and bytes that are no root, have no
leaves. `slotData` is what the bytes are that external roots are read from, and anybody may write it. Totals need no
width: a total is an argument, never a sum, and the balances are bounded by the token supply. The histories
`received`, `deposited` and `everLive` are what the books, and what was promised, are checked against. A failed
subtraction (`total < claimed`) and `AlreadyClaimed` both disable the claim.

**NcnRewards.** Both programs in one state. The slots of Rewards are the two root fields of the ballot box (offsets
80 and 112), its trees are the roots operators vote for, the zero root is the empty tree. `agreed` is a history of
the votes alone: roots that, after a vote, two thirds of the supply of its vault had voted for. `FollowsConsensus`
is what `update-merkle-root-external` is for: the authority points a rewards state to the root of the ballot box and
nothing else. `grown` is a history too: every first vote of an epoch so far started from the published root
(`FirstVoteGrows`), which the code does not enforce and `NoOwnerLockedOut` speaks of.

**NcnAccounts.** The same program as a map from addresses to account data, with several NCNs. Every instruction gets
a record of addresses, chosen from the product of all accounts of each kind, and `...Accepted` is what
`#[derive(Accounts)]` and the handler demand of them: PDAs by their seeds, `config.ncn`, `voter_state.operator`, and
accounts that must not exist yet. `Ncn(base)` reads the accounts of one NCN as a state of DephyNcn;
`ImplementsDephyNcn` says that whatever accounts are combined, each NCN takes a step of DephyNcn or none. `...Call`
are the accounts that the tool names (`actions.ts`) with those that anchor derives; `CommandsSuffice` compares them
with what is possible. Jito is external, a toggle, an operator or an amount by address. `Config.authority` and the
ticket and delegation of a `VoterState` are left out, nothing reads them.

**RewardsClient, RewardsAccounts.** RewardsClient is the kit client: one operator per builder (the plain one, and
the async one that derives addresses), encoder, decoder, parser, PDA function and error test. Encoded data is the
sequence of its fields, with the first byte of a discriminator; `AccountMeta` is the resolution of optional accounts
to the program's address. RewardsAccounts is the program at the level below Rewards: a call is an instruction, a
list of metas and data, identified and decoded, and its accounts are checked one by one in the order of anchor, with
the error that each check raises, so that `RefusalsAreTold` can speak of error codes. As in the program, the bits of
an index beyond the height of the tree are not looked at (`IsLeafAt` takes it modulo the number of `Places`), and an
external root so far out that the end of its 32 bytes exceeds a u64 is a panic (`OffsetOverflows`), not an invalid
proof. `Call...` are the callers: what the client builds, with at most one account exchanged for that of another
state or owner. Accounts keep their bytes as the handlers write them: a root in place is shorter than the external
one it replaces. The history variable `sent` is the instruction of the last step: `ChangesAreExplained` compares
each change with that instruction, as the client parses it, and with who signed it. `Books` reads the accounts as a
state of Rewards, of any roots that authorities set (`AddressesOfRoots`).

**RewardsCli.** A run of `claim-rewards` in the steps between its awaits: fetch the state and build the claim,
create the token account, send, wait. `plan` is what was fetched and may be out of date when it is sent. A rewards
file is a sequence, its tree the set of its leaves: the root depends on their order too, so that no two files differ
in nothing but the order (`CliAssumption`), and a set of leaves stands for one root. The
administrator's commands send one transaction each. A transaction that is waited for is executed (`Land`), and the
run learns of it (`Confirm`) or not (`GiveUp`, with or without execution); what nobody waits for is in `strays`, and
is executed or dropped at any later time. `Abort` is a run killed between two steps. `Careful` is an administrator
who publishes nothing while an earlier root of its own may still land, and never less than is live; the tool does
not enforce it.

**MockOperators.** One process per operator: `pc`, the locals `lastVotedEpoch` (`known`) and `epoch` (`seen`), and
the transaction it waits for. What a process polls is the epoch of its endpoint (`served`), which may lag behind the
chain until it catches up (`CatchUp`), and the `VoterState` it starts from may be an older one. A transaction given
up, or left by a crash, is a stray that lands or drops at any later time. `GiveUp` is the catch of the loop, `Crash`
the poll outside of the try, or the end of the process. Nothing binds a vote to its epoch (`state.rs:12`), so that
it may land in a later one; the history variable `late` keeps which epoch's root was voted for in which other epoch.

**MerkleTree.** The client's queue algorithm step by step on nodes with ids (`Combine`), `updateLeaf`, `getProof`,
and the program's `recompute_root`. Hashes are symbolic and injective: the hash of two nodes is the pair. Loops are
recursive functions, of which a lemma can say what they compute: the ancestors of a leaf (`Path`), their new hashes
(`Rehashed`), what the program computes from a proof (`Recomputed`), and `2 ** n` and `index >> n` (`pow2`,
`Shifted`). An index may be any number, as for the program, which reads only as many of its bits as the proof is
long. The reference is a definition from above, level by level (`ReferenceNodes`). Proofs in circulation are
kept, so that old ones meet a changed tree.

In every module a section of *mistakes* holds definitions the specification does not use: each is a plausible bug
that can stand for the definition it names, and the property listed with it in `PROJECT.json` is violated then.

## Runs

| run | instance | what it shows |
|---|---|---|
| `ncn_setup` | 2 operators, 1 vault, 2 epochs, from no account at all | accounts appear in order; tallies are those of the votes and fit in a u64 (`U64Max` 6, stakes up to 4: sums overflow) |
| `ncn_votes` | 3 operators, 2 vaults, one small and steady and one whose stakes and supply change, 3 epochs, `U64Max` 11 | a published root is a voted one; consensus is backed and not missed; the ballot box only grows; refinement of EpochConsensus (supply 6 overflows when doubled; a supply of 1 has threshold 0) |
| `ncn_accounts` | 2 NCNs, 2 operators and a vault they share, one voting epoch, every combination of accounts | each NCN is an execution of DephyNcn; the tool's commands succeed whenever they can |
| `rewards_books` | 2 rewards states of one mint, 2 owners, 3 trees, one owner with two leaves; roots in place or external | no overpayment, books balance, each payout is backed, also of claims into the other vault or back into the paying one |
| `client_calls` | 2 rewards states of one mint, 2 users, 2 trees with a total of zero among them, one root in place and one external | every call is a step of Rewards or refused; every change is what the instruction sent says, and signed by whom it is up to |
| `client_refusals` | 1 rewards state, the same users and trees, a third root at an offset beyond the last, indices up to twice the size of the tree | the entitled are served; errors tell the reason, or the program panics |
| `client_config` | as `client_calls` | **violated**: `findGlobalConfigPda` does not find the configuration (see *Findings*) |
| `cli_claims` | 1 claimant, a careful administrator, 1 rewards state, 2 growing files, a transaction left behind, fair | nothing is paid twice; roots grow; nobody is locked out; whoever is entitled is paid |
| `ncn_rewards` | 2 operators, 2 epochs, 1 rewards state that follows the ballot box, 2 owners, 3 roots | what is claimable, and what is paid, was agreed on; nobody is locked out while first votes grow, whatever the other operator votes for |
| `mock_late` | 1 process, 3 epochs, 2 strays per epoch, fair | a process never believes to have voted when it did not, and votes in every epoch that lasts |
| `mock_settles` | 2 processes, both of whose votes a consensus takes, 2 epochs, 1 stray per epoch, fair | a root is that of its epoch, or of a vote that landed late in it; an epoch that lasts settles on its root, unless a late vote lands in it |
| `merkle_trees` | 1 to 5 claims, filled up or not, updates; up to 4 leaves with a proof in circulation; indices up to 7 | the root is that of the complete tree; every leaf verifies and nothing else; proofs go stale exactly with the leaves |

Why the bounds are enough. Two epochs are one reset of the ballot box, and a third one (`ncn_votes`, `mock_late`) is
an epoch that fails between two others. Two operators can disagree; a third one can decide between them. Stakes are
chosen on both sides of the threshold and supplies on both sides of the overflow; `ncn_votes` runs in a u64 wide
enough not to hide the thresholds. Two NCNs, like two rewards states, are the least whose accounts can be mixed up,
and one epoch of votes is enough to see whose ballot box they go to (`MaxEpoch` 1; several are in the other runs);
in `ncn_accounts` two voter accounts may exist in all (`MaxVoters`), both in one NCN or one in each. One
transaction left behind (`MaxStrays`) is enough for one that lands after another that was sent later, of the same
sender or of the other. Two leaves of an owner, two owners and two states are the least with which claims interfere;
vaults are funded with less than the trees promise, so that they run dry. In the client runs an
index goes round a tree of two `Places` at most once more (`Laps`), and a u64 ends at 255 (`MaxU64`), with one root
inside of it at 80 and one at 230, whose end is outside; their `VIEW` leaves the history `sent` out, which no action
reads and TLC's check of a step sees all the same. `mock_settles` has a threshold of four and stakes of two: no vote
settles an epoch alone. With `MaxIndex` 7 an index has one bit more than a tree of four leaves has levels. Five
claims make a tree with one odd level
below another one (5, 3, 2, 1), and updates replace any leaf by any other and by an empty one. All safety properties
that the passing runs check are also proved, for all values of the constants.

The runs about votes start from `ConnectedNcn`, the network that `deploy_steps.md` sets up; `ncn_setup` and
`ncn_accounts` start from nothing. The runs of MockOperators and NcnRewards keep stakes and supplies as they were
first chosen (`SteadyNetwork`), every choice being an initial state; the theorems do without. No run disables the
deadlock check.

## Fairness

MockOperators and RewardsCli state fairness. In MockOperators, for each operator:

- `WF(Start)`: a process that ended is started again, as its supervisor would.
- `SF(Poll)`, `SF(Send)`, `SF(Land)`: the RPC endpoint answers, and the network executes a transaction, if it is
  tried again and again. Strong, because each attempt may end otherwise (`FailToSend`, `Drop`, `GiveUp`, `Crash`).
  The loop retries without limit, which is what makes attempts recur. Nothing is assumed of *when* a vote lands, and
  nothing of strays. `EpochSettles` is therefore discharged by a late vote in the epoch: it may propose an old root,
  against which the votes for the root of the epoch cannot prevail.
- `WF(Confirm \/ GiveUp)`: a confirmation comes or times out. `WF(Drop)`: a transaction expires with its blockhash.
- `WF(CatchUp)`: an endpoint that lags behind learns of the current epoch at last. Without it the process would vote
  in no epoch.

In RewardsCli, for each claimant and nobody else:

- `SF(BuildClaim)` and `SF(SendClaim)` of each state and file: the claimant keeps running the command for what it
  can claim, and not every run is killed before it sends. Strong, as a run for another file or a killed one may come
  between.
- `SF(CreateWallet)`, `SF(Land)`: the network executes what is sent again and again.
- `WF(Confirm \/ GiveUp)`: `sendAndConfirmTransaction` returns or throws. Nothing is assumed of the administrator or
  of strays. `EntitledGetsPaid` is discharged when the live root, or the balance of the vault, changes so that there
  is nothing to claim.

Nothing makes the clock advance, and a property about an epoch is discharged when it is over: what is claimed holds
of an epoch that lasts long enough. The programs themselves promise nothing about when somebody calls them.

## Proofs

All theorems are proved by TLAPS for every value of the constants that the named assumptions allow.

- **SumsProofs.** `SumOver(S, f)` counts units, so that facts about sums (one more element, one changed value,
  bounds by subset, values that move from one element to another, sums over what another set is mapped to) follow
  from facts about the cardinality of finite sets.
- **DephyNcnProofs.** The inductive invariant is `Inv == TypeOK /\ SetupOrder /\ EpochOrder /\ PublishedRootIsVoted
  /\ TallyMatchesVotes`. The parts need each other: that a vote is counted *once* needs `EpochOrder` (who has not
  voted in this epoch is not in the tally), which needs `SetupOrder` (a voter account is not created anew).
  `QuietStep` says that all actions but `Vote` leave the ballot box alone; `VoteEffect` and `VoteCounted` describe a
  vote in the words of the properties, and each property follows from them. From `Inv` follow the action properties
  `ConsensusIsBacked` (`BackedStep`), `ConsensusIsNotMissed`, `BallotOnlyGrows`, and the refinement: every step maps
  to a step of EpochConsensus or a stutter. *TwoThirds* is an inequality without division; `ThresholdIsTwoThirds`
  links it to the division rounded down.
- **RewardsProofs.** `RewardsInv == RewardsTypeOK /\ VaultBalances /\ NoOverpayment`. Every step is a claim or
  changes no claim (`ClaimOrNoClaim`). `NeverLockedOut` is not inductive: what is claimed has to be *covered* by a
  live leaf (`ClaimedIsCovered`), which growing roots preserve, and with one leaf per owner (`OneLeafEach`, an
  assumption of that theorem, as an owner with several leaves may claim the largest first) that leaf is the owner's.
- **CompositionsProofs**, about NcnRewards. The composition implements each of its parts (`SystemImplementsNcn`,
  `SystemImplementsRewards`), so that their theorems carry over, those of Rewards through an instance of its proofs.
  `FollowInv`: a following state reads the published root or nothing, and the published root was agreed on (from
  `BackedStep`), hence `ClaimableWasAgreed`; with `NoOverpayment` hence `PaidOnlyWhatWasAgreed`. `ProposalGrows`,
  that the proposal of the epoch under vote dominates the published root, carries `FirstVoteGrows` from the first
  vote to the one that settles the epoch, so that while `grown` holds what was claimed stays covered (`GrowInv`).
- **CompositionsProofs**, about MockOperators. Whatever processes and network do is an execution of DephyNcn.
  `BelieveInv` adds that an epoch served or seen is past or present (`SeenIsPast`, which an endpoint that lags
  behind keeps) and that only a waiting process has a transaction (`SentIsAwaited`). `LateInv` adds that what is on
  its way was computed for an epoch that the clock has reached (`SentWasSeen`, `StraysArePast`), so that a vote is
  cast in its own epoch or gets into `late` by the same step. Hence `RootCorrect`, for any votes, late ones
  included.
- **RewardsCliProofs.** Whatever the tool and the network do is an execution of Rewards (`CliImplementsRewards`),
  and what a run prints as claimed was paid, once (`ConfirmedCorrect`). For a careful administrator the inductive
  invariant is `InFlightGrows`: a root that can still land is the only one of its state and gives no less than what
  is live, so that executing it, however late, lets the roots grow (`ExecutionStep`), and sending a new one when
  none is on its way keeps that (`RunStep`). Hence `CliImplementsCumulative`, and with the theorem of Rewards about
  growing roots `CliNeverLocksOut`.
- **NcnAccountsProofs.** However callers combine accounts, each account of dephy-ncn stays at the address of its own
  fields and belongs to an NCN that exists (`NcnAccountsTypeCorrect`); this invariant is inductive as it stands,
  since a vote writes to one ballot box and one voter account and leaves whose they are (`VoteEffect`). An address
  determines what it is derived from (`AddressesDetermine`), so that a step changes the accounts of one NCN only
  (`SameAccount`), and there it is a step of DephyNcn (`...Maps`, one lemma per instruction; `PartOfCounted` and
  `PartOfSettled` for the ballot box): `NcnAccountsImplementsDephyNcn`. With it what is proved of DephyNcn holds of
  each of any number of NCNs, given what DephyNcn assumes of its constants. `CommandsAlwaysSuffice` needs two more
  invariants: accounts that one instruction creates exist together (`CreatedTogether`), and no ballot box is ahead
  of the clock (`NoneAhead`), so that the second check of the epoch in `vote.rs:94` refuses nobody.
- **RewardsAccountsProofs.** The accounts of a call are a sequence, laid out by the client and read by the program;
  the first part shows place by place that what the program finds under a name is what the client was given or
  derived for it. The inductive invariant `AccountsInv` says what each account of the program can be, by its
  address: a configuration at the one derived for it, a rewards state at a key with the token account of its own
  vault, a claim state at the address of an existing rewards state and an owner (`DataOK`); and that every rewards
  state has its token account and there are no more tokens than the supply (`TokensOK`). `AccountsTypeOK` is what a
  client can fetch of it. With it every accepted call has one of five effects (`ConfigMade`, `StateMade`, `RootSet`,
  `AuthoritySet`, `RewardsClaimed`), and the rest is about these. `AccountsImplementRewards`: each is a step of
  Rewards on the books; the balances of vaults are part of the token accounts (`SumInjects`), so that what is
  outside of the vaults never gets negative, and a payout into another vault, or back into its own, is the transfer
  that Rewards makes (`SumMoves`). `EntitledCorrect` and `RefusalsCorrect` compute the outcome of the claim that the
  client builds from what it fetched, check by check in the order of the program; a root whose offset does not fit
  (`OffsetFits`) is neither live nor refused with an error of the program. `ChangesAreExplainedCorrect` parses the
  instruction of the step (`SentIs`) and shows that whoever a change is up to has signed it.
- **MerkleTreeProofs.** For any number of claims, updates and proofs in circulation. The inductive invariant
  `MerkleInv` gives every node a place in the complete tree of the leaves, its level and a position `at` (`Placed`):
  leaves are at their index, a parent at half the position of its children, and the fillers beside the last node of
  a level of odd width at positions beyond the leaves, where the complete tree has empty subtrees. `Queued` says
  that the queue is the rest of one level and after it the parents made of that level so far; this is what makes two
  neighbours in the queue siblings in the tree. `CombineJoins` puts the two cases of a round of the constructor's
  loop into one form. In a finished tree every node has the hash of its place (`NodesAreReference`), the walk from
  leaf `i` to the top is `i` shifted (`PathFacts`), and a proof is the siblings along it. `OnlyLeavesLead` is more
  than the run can check: *no* sequence of hashes of a length up to the height, known or not, makes the program
  accept a claim that is not the leaf at that place; and the place is the index modulo the number of places of the
  tree, whatever the index (`ShiftedLow`, `RecomputedLow`). `SameRoot`, that trees with one root have the same
  leaves, makes proofs stale. The facts about levels, powers of two and shifts are inductions: the induction
  theorems of the library are about an operator, which no prover here instantiates, so `Induction` states it about a
  set of numbers, from `Least`, and each recursive function is shown to be what its definition says (`PathIs` ...
  `ReferenceIs`).

Assumptions on constants. Of `AccountsAssumption`: nobody has the key of an address that the program derives (such
addresses are off the curve), or of the default address that stands for no authority; no tree has the zero root, or
the hash that stands for bytes that are no root, or more leaves than places; roots that can be read end within a
u64, while those that are set may be at any u64. It leaves out one mistake of an authority that the code does not
refuse: an external root in the account of the program itself, or at the default address. Nobody could be paid by
it, as the client and the program take an account at the program's address for one that is left out
(`claimRewards.ts:193-341`, `lib.rs:61`), which the two properties about claims would have to except. MerkleTree
assumes that hashes do not collide, by how it represents them.

Assumptions that are not enforced by the code, and are named where they are used: `FollowsConsensus` (the authority
is trusted), `FirstVoteGrows` (in `grown`), `RootsGrow` and `OneLeafEach` (totals accumulate), `Careful` (the
administrator waits for its own transactions). Without them the property in question does not hold, and the
specifications without them are what the other theorems are about.

Only model-checked: the liveness properties (`EveryoneVotes`, `EpochSettles`, `EntitledGetsPaid`), as liveness under
fairness, with the ENABLED in it, is out of reach of the provers; and that the mutants and the finding are
violations. TLC checks the refinements (`ImplementsEpochConsensus`, `ImplementsDephyNcn`, `ImplementsRewards`,
`ImplementsCumulative`) and the properties of MerkleTree on instances too; there the proofs are the stronger result.

## Findings

`pdas/globalConfig.ts:20` derives the address of the configuration under a default program that no other part of the
repository names. `tests/dephy-rewards-kit.test.ts:109-121` initializes the configuration and then fetches it at
that address. The run `client_config` shows what happens: after `initialize` there is no account there
(`GlobalConfigIsFound` is violated in the first step). The builders derive the right address by themselves, so that
`client_calls` passes.

## Not modelled

- Cooling down and slashing at Jito, beyond a delegation that changes at will; fees of Token-2022 transfers; rent.
- What Jito checks by itself (`deps/` holds generated clients and compiled programs): an environment in DephyNcn,
  and in NcnAccounts the admin of an NCN, toggles and duplicates, as the code depends on them.
- Transactions that are rolled back with a fork after they were seen; clock time, such as the length of
  `--interval`.
- Proofs of more than 32 nodes, on which `recompute_root` aborts, shifting an index by 32 bits;
  `minimizeProofHeight`; an empty list of rewards; collisions of hashes.
- The commands that only read (`get-rewards-state`, `all-rewards-states`, `check-proof-data`), key files, formatting
  and output. The `fetchAll...` functions and the sizes of the kit client repeat the single ones.
- Tests and `deploy_steps.md` beyond the state they set up (ConnectedNcn), the script that generates the kit client
  (`codama/`), and the dead file `initialize_rewards.rs`, which no module names.

## Plan

Done, in this order: EpochConsensus, DephyNcn, its runs and proofs; Rewards; NcnRewards; MockOperators; MerkleTree;
RewardsClient and RewardsAccounts; RewardsCli with its proofs; endpoints that lag behind; NcnAccounts with its
proofs; the proofs of RewardsAccounts and of MerkleTree.

Next:

1. A Jito vault discipline: supply minted and burned, stake delegated within it, cooled down over epochs. Question:
   how much stake can be counted twice in one epoch by moving it between votes, as a bound against the supply.
2. MockOperators, NcnRewards and RewardsCli composed: operators that compute cumulative roots, and owners that are
   eventually paid from an external root.
3. A vote that is rolled back with its fork: what `BelievedIsVoted` becomes.
4. Rewards over the trees of MerkleTree, in place of sets of leaves: what `OnlyLeavesLead` says, as a refinement.
