------------------------------ MODULE RewardsCli ------------------------------
(***************************************************************************)
(* The command line tool of dephy-rewards (scripts/rewards_cli.ts) and the *)
(* network between it and the program.  An owner runs claim-rewards again  *)
(* and again, an administrator runs the other commands.  A run sends one   *)
(* transaction and waits; when it gives up or is killed, the transaction   *)
(* stays behind and may be executed at any later time, after others that   *)
(* were sent later.                                                        *)
(***************************************************************************)
EXTENDS Rewards, Sequences

CONSTANTS
    Files,          \* rewards files: lists of entries <<user, amount>>
    Claimants,      \* owners who run claim-rewards
    Admin,          \* the administrator
    CliKey,         \* the keypair that the administrator runs with
    NoAccount,      \* "null", no account of a root
    Nothing,        \* no transaction
    MaxStrays       \* bound: transactions nobody waits for

VARIABLES
    plan,           \* of each claimant's run: the claim it is about to send
    sent,           \* the transaction that each of them waits for
    landed,         \* those whose transaction was executed
    strays,         \* transactions that nobody waits for
    wallets         \* claimants whose token account exists

runVars == <<plan, sent, landed, strays, wallets>>
cliVars == <<allVars, runVars>>

Processes == Claimants \cup {Admin}

\* calc-rewards-root: the leaves of the tree are the entries of the file.  Their order
\* matters to the root: one set of leaves stands for one order of them, and no two files
\* differ only in theirs (CliAssumption).
TreeOf(file) == {file[i] : i \in DOMAIN file}

Listed(file, o) == \E i \in DOMAIN file : file[i][1] = o

ASSUME CliAssumption ==
    /\ Files \subseteq Seq(Leaves)
    /\ \A file \in Files : TreeOf(file) \in Trees
    /\ \A file, other \in Files : TreeOf(file) = TreeOf(other) => file = other
    /\ Claimants \subseteq Owners
    /\ Admin \notin Claimants
    /\ CliKey \in Keys
    /\ MaxStrays \in Nat

\* findIndex: the first entry of the user.
FirstIndex(file, o) ==
    CHOOSE i \in DOMAIN file : file[i][1] = o /\ \A j \in 1..(i - 1) : file[j][1] # o

Amount(file, o) == file[FirstIndex(file, o)][2]

\* (Mistake: no account is given, whatever the kind of the root.)
LeavesAccountOut(s) == NoAccount

\* maybeMerkleRootAccount, as fetched
MerkleRootAccount(s) ==
    IF merkleRoot[s].type = "External" THEN merkleRoot[s].slot[1] ELSE NoAccount

InFlight(c) == c \in strays \/ \E p \in Processes : sent[p] = c

-----------------------------------------------------------------------------
(* What a transaction does when it is executed.                            *)

\* (Mistake: a claim that comes late is paid in full, whatever was claimed before.)
ExecutePaysAgain(c) ==
    /\ c.command = "claim-rewards"
    /\ LiveTree(c.state) = TreeOf(c.file)
    /\ Transfer(c.state, Wallet, Amount(c.file, c.owner))
    /\ claimed' = [claimed EXCEPT ![c.state][c.owner] = Amount(c.file, c.owner)]
    /\ received' = [received EXCEPT ![c.state][c.owner] = @ + Amount(c.file, c.owner)]
    /\ UNCHANGED <<configVars, merkleRoot, slotData>>

ExecuteClaim(c) ==
    /\ c.command = "claim-rewards"
    /\ LiveTree(c.state) = TreeOf(c.file)
    /\ merkleRoot[c.state].type = "External" => c.account = merkleRoot[c.state].slot[1]
    /\ c.owner \in wallets
    /\ ClaimRewards(c.state, c.owner, Amount(c.file, c.owner), Wallet)

Execute(c) ==
    /\ \/ ExecuteClaim(c)
       \/ c.command = "initialize-global-config" /\ Initialize(CliKey)
       \/ c.command = "initialize-rewards-state" /\ InitializeRewardsState(c.state, CliKey)
       \/ c.command = "update-authority" /\ UpdateAuthority(c.state, CliKey, c.newAuthority)
       \/ c.command = "update-merkle-root" /\ UpdateMerkleRoot(c.state, CliKey, c.root)
       \/ c.command = "fund-rewards" /\ Fund(c.state, c.amount)
    /\ ObserveLive

-----------------------------------------------------------------------------
(* claim-rewards                                                           *)

\* Read the file, make a proof, and fetch the rewards state.
BuildClaim(o, s, file) ==
    /\ plan[o] = Nothing
    /\ sent[o] = Nothing
    /\ Listed(file, o)
    /\ Exists(s)
    /\ plan' = [plan EXCEPT ![o] = [command |-> "claim-rewards", owner |-> o, state |-> s,
                                    file |-> file, account |-> MerkleRootAccount(s)]]
    /\ UNCHANGED <<allVars, sent, landed, strays, wallets>>

\* createAssociatedTokenAccountIdempotent, if there is no token account.
CreateWallet(o) ==
    /\ plan[o] # Nothing
    /\ o \notin wallets
    /\ wallets' = wallets \cup {o}
    /\ UNCHANGED <<allVars, plan, sent, landed, strays>>

SendClaim(o) ==
    /\ plan[o] # Nothing
    /\ o \in wallets
    /\ sent' = [sent EXCEPT ![o] = plan[o]]
    /\ plan' = [plan EXCEPT ![o] = Nothing]
    /\ UNCHANGED <<allVars, landed, strays, wallets>>

\* A call fails before the claim is sent, or the run is killed.  The token
\* account may be created all the same.
Abort(o) ==
    /\ plan[o] # Nothing
    /\ plan' = [plan EXCEPT ![o] = Nothing]
    /\ wallets' \in {wallets, wallets \cup {o}}
    /\ UNCHANGED <<allVars, sent, landed, strays>>

-----------------------------------------------------------------------------
(* The commands of the administrator.                                      *)

Run(c) ==
    /\ sent[Admin] = Nothing
    /\ sent' = [sent EXCEPT ![Admin] = c]
    /\ UNCHANGED <<allVars, plan, landed, strays, wallets>>

RunInitializeGlobalConfig == Run([command |-> "initialize-global-config"])

\* A run generates the key of a new state, also after a run that was given up.
RunInitializeRewardsState ==
    \E s \in States :
        LET c == [command |-> "initialize-rewards-state", state |-> s]
        IN ~Exists(s) /\ ~InFlight(c) /\ Run(c)

RunUpdateAuthority ==
    \E s \in States, key \in Keys :
        Run([command |-> "update-authority", state |-> s, newAuthority |-> key])

\* The root is one that calc-rewards-root printed.
RunUpdateMerkleRoot ==
    \E s \in States, file \in Files :
        Run([command |-> "update-merkle-root", state |-> s, root |-> Inplace(TreeOf(file))])

RunUpdateMerkleRootExternal ==
    \E s \in States, slot \in Slots :
        Run([command |-> "update-merkle-root", state |-> s, root |-> External(slot)])

\* The state is fetched for its mint and its token account.
RunFundRewards ==
    \E s \in States, amount \in Amounts :
        Exists(s) /\ Run([command |-> "fund-rewards", state |-> s, amount |-> amount])

-----------------------------------------------------------------------------
(* The network, and what a run makes of it.                                *)

\* (Mistake: a transaction that failed is taken for one that succeeded.)
LandsFailed(p) ==
    /\ sent[p] # Nothing
    /\ p \notin landed
    /\ Execute(sent[p]) \/ UNCHANGED allVars
    /\ landed' = landed \cup {p}
    /\ UNCHANGED <<plan, sent, strays, wallets>>

Land(p) ==
    /\ sent[p] # Nothing
    /\ p \notin landed
    /\ Execute(sent[p])
    /\ landed' = landed \cup {p}
    /\ UNCHANGED <<plan, sent, strays, wallets>>

\* The run prints that it succeeded.
Confirm(p) ==
    /\ p \in landed
    /\ sent' = [sent EXCEPT ![p] = Nothing]
    /\ landed' = landed \ {p}
    /\ UNCHANGED <<allVars, plan, strays, wallets>>

\* (Mistake: a run that gives up leaves its mark behind.)
GivesUpHalfway(p) ==
    /\ sent[p] # Nothing
    /\ sent' = [sent EXCEPT ![p] = Nothing]
    /\ strays' = strays
    /\ UNCHANGED <<allVars, plan, landed, wallets>>

\* The transaction fails, or is not confirmed in time, or the run is killed.  A
\* transaction that was not executed is lost, or stays behind.
GiveUp(p) ==
    /\ sent[p] # Nothing
    /\ sent' = [sent EXCEPT ![p] = Nothing]
    /\ landed' = landed \ {p}
    /\ strays' \in {strays} \cup (IF p \in landed \/ Cardinality(strays) = MaxStrays THEN {}
                                 ELSE {strays \cup {sent[p]}})
    /\ UNCHANGED <<allVars, plan, wallets>>

LandStray ==
    \E c \in strays :
        /\ Execute(c)
        /\ strays' = strays \ {c}
        /\ UNCHANGED <<plan, sent, landed, wallets>>

DropStray ==
    \E c \in strays :
        /\ strays' = strays \ {c}
        /\ UNCHANGED <<allVars, plan, sent, landed, wallets>>

-----------------------------------------------------------------------------

CliInit ==
    /\ RewardsStart
    /\ plan = [o \in Claimants |-> Nothing]
    /\ sent = [p \in Processes |-> Nothing]
    /\ landed = {}
    /\ strays = {}
    /\ wallets = {}

Claiming(o) ==
    \/ \E s \in States, file \in Files : BuildClaim(o, s, file)
    \/ CreateWallet(o)
    \/ SendClaim(o)
    \/ Abort(o)

Administration ==
    \/ RunInitializeGlobalConfig
    \/ RunInitializeRewardsState
    \/ RunUpdateAuthority
    \/ RunUpdateMerkleRoot
    \/ RunUpdateMerkleRootExternal
    \/ RunFundRewards

Network ==
    \/ \E p \in Processes : Land(p) \/ Confirm(p) \/ GiveUp(p)
    \/ LandStray
    \/ DropStray

\* Other programs write the accounts that external roots are read from.
Writes == \E data \in [Slots -> Trees] : WriteSlots(data) /\ ObserveLive /\ UNCHANGED runVars

CliNext ==
    \/ \E o \in Claimants : Claiming(o)
    \/ Administration
    \/ Network
    \/ Writes

CliSpec == CliInit /\ [][CliNext]_cliVars

-----------------------------------------------------------------------------
(* A careful administrator publishes a root only when no other one of its  *)
(* own is on its way, never less than what is live, and leaves an external *)
(* root as it is; what that is read from grows.                            *)

TreeAt(root) == IF root.type = "Inplace" THEN root.hash ELSE slotData[root.slot]

Publishes(c, s) == c.command = "update-merkle-root" /\ c.state = s

CarefulRoot(c) ==
    /\ ~\E stray \in strays : Publishes(stray, c.state)
    /\ merkleRoot[c.state].type = "Inplace"
    /\ Dominates(TreeAt(c.root), LiveTree(c.state))

Careful ==
    /\ \A c \in {sent'[Admin]} \ {sent[Admin], Nothing} :
          c.command = "update-merkle-root" => CarefulRoot(c)
    /\ \A slot \in Slots : Dominates(slotData'[slot], slotData[slot])

Fairness ==
    /\ \A o \in Claimants :
          /\ \A s \in States, file \in Files :
                /\ SF_cliVars(BuildClaim(o, s, file))
                /\ SF_cliVars(SendClaim(o) /\ plan[o].state = s /\ plan[o].file = file)
          /\ SF_cliVars(CreateWallet(o))
          /\ SF_cliVars(Land(o))
          /\ WF_cliVars(Confirm(o) \/ GiveUp(o))

CarefulSpec == CliInit /\ [][CliNext /\ Careful]_cliVars /\ Fairness

-----------------------------------------------------------------------------
(* Properties *)

Claims ==
    [command : {"claim-rewards"}, owner : Claimants, state : States, file : Files,
     account : {NoAccount} \cup {slot[1] : slot \in Slots}]

Commands ==
    [command : {"initialize-global-config"}]
        \cup [command : {"initialize-rewards-state"}, state : States]
        \cup [command : {"update-authority"}, state : States, newAuthority : Keys]
        \cup [command : {"update-merkle-root"}, state : States, root : MerkleRoots]
        \cup [command : {"fund-rewards"}, state : States, amount : Amounts]

\* Type correctness: a claim is planned and waited for by its owner only, who has a
\* token account by then, and what is on its way is a claim or a command that
\* somebody sent (rewards_cli.ts:44-345).
CliTypeOK ==
    /\ plan \in [Claimants -> Claims \cup {Nothing}]
    /\ sent \in [Processes -> Claims \cup Commands \cup {Nothing}]
    /\ sent[Admin] \in Commands \cup {Nothing}
    /\ \A o \in Claimants :
          /\ plan[o] # Nothing => plan[o].owner = o /\ sent[o] = Nothing
          /\ sent[o] # Nothing => sent[o] \in Claims /\ sent[o].owner = o /\ o \in wallets
    /\ \A p \in landed : p \in Processes /\ sent[p] # Nothing
    /\ strays \subseteq Claims \cup Commands
    /\ wallets \subseteq Claimants

\* What a run can print as claimed was paid out in full, the total of its entry, by
\* this run and the ones before it together; and however many runs were given up and
\* landed all the same, nothing was paid more than once (rewards_cli.ts:322-344).
ConfirmedIsPaid ==
    /\ \A o \in landed \cap Claimants :
          received[sent[o].state][o] >= Amount(sent[o].file, o)
    /\ \A s \in States, o \in Owners : received[s][o] = claimed[s][o]

\* An owner that is listed in the file of the live tree, and whose vault can pay it,
\* does not stay unpaid forever while it repeats the command (rewards_cli.ts:264-345).
Entitled(o, s, file) ==
    /\ Exists(s)
    /\ LiveTree(s) = TreeOf(file)
    /\ Listed(file, o)
    /\ Amount(file, o) > claimed[s][o]
    /\ balance[s] >= Amount(file, o) - claimed[s][o]

EntitledGetsPaid ==
    \A o \in Claimants, s \in States, file \in Files : []<>~Entitled(o, s, file)

\* With a careful administrator whatever runs, retries and late transactions do is a
\* history of the program in which roots grow (rewards_cli.ts:152-216, 264-345).
ImplementsCumulative == CumulativeSpec

=============================================================================
