--------------------------- MODULE RewardsCliProofs ---------------------------
(* Proofs about RewardsCli, for every value of its constants. *)
EXTENDS RewardsCli, RewardsProofs

Requests == Claims \cup Commands

-----------------------------------------------------------------------------
(* The tool runs the program                                               *)

\* The fields of what is on its way.
LEMMA RequestFields ==
    ASSUME NEW c \in Requests
    PROVE  /\ c.command = "claim-rewards" =>
                  c \in Claims /\ c.state \in States /\ c.owner \in Owners /\ c.file \in Files
           /\ c.command = "initialize-rewards-state" => c.state \in States
           /\ c.command = "update-authority" => c.state \in States /\ c.newAuthority \in Keys
           /\ c.command = "update-merkle-root" => c.state \in States /\ c.root \in MerkleRoots
           /\ c.command = "fund-rewards" => c.state \in States /\ c.amount \in Amounts
<1>1. CASE c \in Claims
  BY <1>1, CliAssumption DEF Claims
<1>2. CASE c \in Commands
  BY <1>2 DEF Commands
<1> QED
  BY <1>1, <1>2 DEF Requests

\* A claim that is executed is a claim of a live leaf, paid into a wallet.
LEMMA ExecuteClaimPays ==
    ASSUME RewardsTypeOK, NEW c \in Requests, ExecuteClaim(c)
    PROVE  /\ c \in Claims /\ c.state \in States /\ c.owner \in Owners
           /\ Amount(c.file, c.owner) \in Nat
           /\ <<c.owner, Amount(c.file, c.owner)>> \in LiveTree(c.state)
           /\ ClaimRewards(c.state, c.owner, Amount(c.file, c.owner), Wallet)
<1>1. c \in Claims /\ c.state \in States /\ c.owner \in Owners
  BY RequestFields DEF ExecuteClaim
<1>2. ClaimRewards(c.state, c.owner, Amount(c.file, c.owner), Wallet)
  BY DEF ExecuteClaim
<1>3. <<c.owner, Amount(c.file, c.owner)>> \in LiveTree(c.state)
  BY <1>2 DEF ClaimRewards, Claimable
<1>4. LiveTree(c.state) \subseteq Leaves
  BY <1>1, LiveTreeType
<1>5. Amount(c.file, c.owner) \in Nat
  BY <1>3, <1>4 DEF Leaves
<1> QED
  BY <1>1, <1>2, <1>3, <1>5

LEMMA ExecuteIsAnInstruction ==
    ASSUME RewardsTypeOK, NEW c \in Requests, Execute(c)
    PROVE  RewardsNext
<1>1. ObserveLive
  BY DEF Execute
<1>2. CASE ExecuteClaim(c)
  <2> DEFINE total == Amount(c.file, c.owner)
  <2>1. /\ c.state \in States /\ <<c.owner, total>> \in LiveTree(c.state)
        /\ ClaimRewards(c.state, c.owner, total, Wallet)
    BY <1>2, ExecuteClaimPays
  <2>2. \E leaf \in LiveTree(c.state) : ClaimRewards(c.state, leaf[1], leaf[2], Wallet)
    <3>1. <<c.owner, total>>[1] = c.owner /\ <<c.owner, total>>[2] = total
      OBVIOUS
    <3> HIDE DEF total
    <3> QED
      BY <2>1, <3>1
  <2>3. Instructions
    BY <2>1, <2>2 DEF Instructions
  <2> QED
    BY <1>1, <2>3 DEF RewardsNext
<1>3. CASE c.command = "initialize-global-config" /\ Initialize(CliKey)
  BY <1>1, <1>3, CliAssumption DEF RewardsNext, Instructions
<1>4. CASE c.command = "initialize-rewards-state" /\ InitializeRewardsState(c.state, CliKey)
  BY <1>1, <1>4, RequestFields, CliAssumption DEF RewardsNext, Instructions
<1>5. CASE c.command = "update-authority" /\ UpdateAuthority(c.state, CliKey, c.newAuthority)
  BY <1>1, <1>5, RequestFields, CliAssumption DEF RewardsNext, Instructions
<1>6. CASE c.command = "update-merkle-root" /\ UpdateMerkleRoot(c.state, CliKey, c.root)
  BY <1>1, <1>6, RequestFields, CliAssumption DEF RewardsNext, Instructions
<1>7. CASE c.command = "fund-rewards" /\ Fund(c.state, c.amount)
  BY <1>1, <1>7, RequestFields DEF RewardsNext, Funding
<1> QED
  BY <1>2, <1>3, <1>4, <1>5, <1>6, <1>7 DEF Execute

-----------------------------------------------------------------------------
(* Type correctness *)

CliInv == RewardsTypeOK /\ CliTypeOK

LEMMA CliInvInit == CliInit => CliInv
<1> SUFFICES ASSUME CliInit PROVE CliInv
  OBVIOUS
<1>1. RewardsTypeOK
  BY RewardsTypeInit DEF CliInit
<1>2. CliTypeOK
  BY DEF CliInit, CliTypeOK, Processes
<1> QED
  BY <1>1, <1>2 DEF CliInv

\* A request whose execution is waited for is one.
LEMMA SentIsARequest ==
    ASSUME CliTypeOK, NEW p \in Processes, sent[p] # Nothing
    PROVE  sent[p] \in Requests
BY DEF CliTypeOK, Requests

\* The account that a claim is given is one that a root can be read from.
LEMMA BuiltClaimType ==
    ASSUME RewardsTypeOK, NEW o \in Claimants, NEW s \in States, NEW file \in Files
    PROVE  [command |-> "claim-rewards", owner |-> o, state |-> s, file |-> file,
            account |-> MerkleRootAccount(s)] \in Claims
<1>1. \/ \E tree \in Trees : merkleRoot[s] = [type |-> "Inplace", hash |-> tree]
      \/ \E slot \in Slots : merkleRoot[s] = [type |-> "External", slot |-> slot]
  BY DEF RewardsTypeOK, MerkleRoots, Inplace, External
<1>2. MerkleRootAccount(s) \in {NoAccount} \cup {slot[1] : slot \in Slots}
  <2>1. ASSUME NEW slot \in Slots, merkleRoot[s] = [type |-> "External", slot |-> slot]
        PROVE  MerkleRootAccount(s) = slot[1]
    BY <2>1 DEF MerkleRootAccount
  <2>2. ASSUME NEW tree \in Trees, merkleRoot[s] = [type |-> "Inplace", hash |-> tree]
        PROVE  MerkleRootAccount(s) = NoAccount
    BY <2>2 DEF MerkleRootAccount
  <2> QED
    BY <1>1, <2>1, <2>2
<1> DEFINE accounts == {NoAccount} \cup {slot[1] : slot \in Slots}
           account == MerkleRootAccount(s)
<1>3. account \in accounts /\ Claims = [command : {"claim-rewards"}, owner : Claimants,
                                       state : States, file : Files, account : accounts]
  BY <1>2 DEF Claims
<1> HIDE DEF accounts, account
<1>4. [command |-> "claim-rewards", owner |-> o, state |-> s, file |-> file,
       account |-> account] \in Claims
  BY <1>3
<1> QED
  BY <1>4 DEF account

LEMMA ClaimingType ==
    ASSUME RewardsTypeOK, CliTypeOK, NEW o \in Claimants, Claiming(o)
    PROVE  CliTypeOK'
<1> USE DEF CliTypeOK, Processes
<1>1. o # Admin
  BY CliAssumption
<1>2. ASSUME NEW s \in States, NEW file \in Files, BuildClaim(o, s, file) PROVE CliTypeOK'
  <2> DEFINE c == [command |-> "claim-rewards", owner |-> o, state |-> s, file |-> file,
                   account |-> MerkleRootAccount(s)]
  <2>1. c \in Claims
    BY BuiltClaimType
  <2>2. c.owner = o
    OBVIOUS
  <2>3. plan' = [plan EXCEPT ![o] = c] /\ sent[o] = Nothing
        /\ UNCHANGED <<sent, landed, strays, wallets>>
    BY <1>2 DEF BuildClaim
  <2> HIDE DEF c
  <2> QED
    BY <2>1, <2>2, <2>3
<1>3. ASSUME CreateWallet(o) PROVE CliTypeOK'
  BY <1>3 DEF CreateWallet
<1>4. ASSUME SendClaim(o) PROVE CliTypeOK'
  <2>1. plan[o] \in Claims /\ plan[o].owner = o /\ plan[o] # Nothing /\ o \in wallets
    BY <1>4 DEF SendClaim
  <2>2. sent' = [sent EXCEPT ![o] = plan[o]] /\ plan' = [plan EXCEPT ![o] = Nothing]
        /\ UNCHANGED <<landed, strays, wallets>>
    BY <1>4 DEF SendClaim
  <2> QED
    BY <1>1, <2>1, <2>2
<1>5. ASSUME Abort(o) PROVE CliTypeOK'
  BY <1>5 DEF Abort
<1> QED
  BY <1>2, <1>3, <1>4, <1>5 DEF Claiming

LEMMA AdministrationRuns ==
    ASSUME Administration
    PROVE  \E c \in Commands : Run(c)
<1>1. CASE RunInitializeGlobalConfig
  BY <1>1 DEF RunInitializeGlobalConfig, Commands
<1>2. CASE RunInitializeRewardsState
  BY <1>2 DEF RunInitializeRewardsState, Commands
<1>3. CASE RunUpdateAuthority
  BY <1>3 DEF RunUpdateAuthority, Commands
<1>4. CASE RunUpdateMerkleRoot
  <2>1. PICK s \in States, file \in Files :
            Run([command |-> "update-merkle-root", state |-> s, root |-> Inplace(TreeOf(file))])
    BY <1>4 DEF RunUpdateMerkleRoot
  <2>2. Inplace(TreeOf(file)) \in MerkleRoots
    BY CliAssumption DEF MerkleRoots
  <2> QED
    BY <2>1, <2>2 DEF Commands
<1>5. CASE RunUpdateMerkleRootExternal
  BY <1>5 DEF RunUpdateMerkleRootExternal, MerkleRoots, Commands
<1>6. CASE RunFundRewards
  BY <1>6 DEF RunFundRewards, Commands
<1> QED
  BY <1>1, <1>2, <1>3, <1>4, <1>5, <1>6 DEF Administration

LEMMA AdministrationType == ASSUME CliTypeOK, Administration PROVE CliTypeOK'
<1>1. PICK c \in Commands : Run(c)
  BY AdministrationRuns
<1>2. /\ sent[Admin] = Nothing /\ sent' = [sent EXCEPT ![Admin] = c]
      /\ UNCHANGED <<plan, landed, strays, wallets>>
  BY <1>1 DEF Run
<1>3. Admin \notin Claimants
  BY CliAssumption
<1> QED
  BY <1>2, <1>3 DEF CliTypeOK, Processes

LEMMA NetworkType == ASSUME CliTypeOK, Network PROVE CliTypeOK'
<1> USE DEF CliTypeOK, Processes
<1>1. ASSUME NEW p \in Processes, Land(p) PROVE CliTypeOK'
  BY <1>1 DEF Land
<1>2. ASSUME NEW p \in Processes, Confirm(p) PROVE CliTypeOK'
  BY <1>2 DEF Confirm
<1>3. ASSUME NEW p \in Processes, GiveUp(p) PROVE CliTypeOK'
  <2>1. /\ sent[p] \in Claims \cup Commands
        /\ sent' = [sent EXCEPT ![p] = Nothing] /\ landed' = landed \ {p}
        /\ strays' \in {strays, strays \cup {sent[p]}}
        /\ UNCHANGED <<plan, wallets>>
    BY <1>3 DEF GiveUp
  <2> QED
    BY <2>1
<1>4. ASSUME LandStray PROVE CliTypeOK'
  BY <1>4 DEF LandStray
<1>5. ASSUME DropStray PROVE CliTypeOK'
  BY <1>5 DEF DropStray
<1> QED
  BY <1>1, <1>2, <1>3, <1>4, <1>5 DEF Network

LEMMA CliTypeStep ==
    ASSUME CliInv, [CliNext]_cliVars
    PROVE  CliTypeOK'
<1>1. RewardsTypeOK /\ CliTypeOK
  BY DEF CliInv
<1>2. CASE UNCHANGED runVars
  BY <1>1, <1>2 DEF runVars, CliTypeOK
<1>3. CASE CliNext
  BY <1>1, <1>2, <1>3, ClaimingType, AdministrationType, NetworkType DEF CliNext, Writes
<1> QED
  BY <1>2, <1>3 DEF cliVars

-----------------------------------------------------------------------------
(* Every step of the tool is one of the program, or leaves it alone        *)

LEMMA CliStepIsARewardsStep ==
    ASSUME CliInv, [CliNext]_cliVars
    PROVE  [RewardsNext]_allVars
<1>1. RewardsTypeOK /\ CliTypeOK
  BY DEF CliInv
<1>2. CASE UNCHANGED cliVars
  BY <1>2 DEF cliVars
<1>3. ASSUME NEW o \in Claimants, Claiming(o) PROVE UNCHANGED allVars
  BY <1>3 DEF Claiming, BuildClaim, CreateWallet, SendClaim, Abort
<1>4. CASE Administration
  BY <1>4, AdministrationRuns DEF Run
<1>5. CASE Network
  <2>1. ASSUME NEW p \in Processes, Land(p) PROVE RewardsNext
    <3>1. sent[p] \in Requests /\ Execute(sent[p])
      BY <1>1, <2>1, SentIsARequest DEF Land
    <3> QED
      BY <1>1, <3>1, ExecuteIsAnInstruction
  <2>2. ASSUME NEW p \in Processes, Confirm(p) \/ GiveUp(p) PROVE UNCHANGED allVars
    BY <2>2 DEF Confirm, GiveUp
  <2>3. CASE LandStray
    <3>1. PICK c \in strays : Execute(c)
      BY <2>3 DEF LandStray
    <3>2. c \in Requests
      BY <1>1 DEF CliTypeOK, Requests
    <3> QED
      BY <1>1, <3>1, <3>2, ExecuteIsAnInstruction
  <2>4. CASE DropStray
    BY <2>4 DEF DropStray
  <2> QED
    BY <1>5, <2>1, <2>2, <2>3, <2>4 DEF Network
<1>6. CASE Writes
  BY <1>6 DEF Writes, RewardsNext
<1> QED
  BY <1>2, <1>3, <1>4, <1>5, <1>6 DEF CliNext

LEMMA CliInvStep == CliInv /\ [CliNext]_cliVars => CliInv'
<1> SUFFICES ASSUME CliInv, [CliNext]_cliVars PROVE CliInv'
  OBVIOUS
<1>1. [RewardsNext]_allVars
  BY CliStepIsARewardsStep
<1>2. RewardsTypeOK'
  BY <1>1, RewardsTypeStep DEF CliInv
<1> QED
  BY <1>2, CliTypeStep DEF CliInv

THEOREM CliInvCorrect == CliSpec => []CliInv
<1> QED
  BY CliInvInit, CliInvStep, PTL DEF CliSpec

\* What is planned, sent and on its way is what its owner or the administrator made.
THEOREM CliTypeCorrect == CliSpec => []CliTypeOK
<1>1. CliInv => CliTypeOK
  BY DEF CliInv
<1> QED
  BY <1>1, CliInvCorrect, PTL

\* Retries, late and lost transactions add nothing to what the program can do.
THEOREM CliImplementsRewards == CliSpec => RewardsSpec
<1>1. CliInit => RewardsStart
  BY DEF CliInit
<1>2. CliInv /\ [CliNext]_cliVars => [RewardsNext]_allVars
  BY CliStepIsARewardsStep
<1> QED
  BY <1>1, <1>2, CliInvCorrect, PTL DEF CliSpec, RewardsSpec

-----------------------------------------------------------------------------
(* What a run can print as claimed was paid                                *)

\* What was executed named an amount of a leaf.
ConfirmedInv ==
    /\ ConfirmedIsPaid
    /\ \A o \in landed \cap Claimants : Amount(sent[o].file, o) \in Nat

LEMMA ConfirmedInit == CliInit => ConfirmedInv
BY DEF CliInit, RewardsStart, RewardsInit, ConfirmedIsPaid, ConfirmedInv

\* What the execution of a request does to the books of the owners.
LEMMA ExecuteKeepsBooks ==
    ASSUME RewardsTypeOK, ConfirmedIsPaid, NEW c \in Requests, Execute(c)
    PROVE  /\ \A s \in States, o \in Owners :
                 received'[s][o] = claimed'[s][o] /\ received'[s][o] >= received[s][o]
           /\ c \in Claims => /\ received'[c.state][c.owner] = Amount(c.file, c.owner)
                              /\ Amount(c.file, c.owner) \in Nat
<1> USE DEF RewardsTypeOK
<1>1. \A s \in States, o \in Owners :
          received[s][o] = claimed[s][o] /\ received[s][o] \in Nat /\ claimed[s][o] \in Nat
  BY DEF ConfirmedIsPaid
<1>2. CASE ExecuteClaim(c)
  <2> DEFINE s == c.state
             o == c.owner
             total == Amount(c.file, c.owner)
  <2>1. c \in Claims /\ s \in States /\ o \in Owners /\ total \in Nat
        /\ ClaimRewards(s, o, total, Wallet)
    BY <1>2, ExecuteClaimPays
  <2> HIDE DEF s, o, total
  <2>2. /\ total > claimed[s][o]
        /\ claimed' = [claimed EXCEPT ![s][o] = total]
        /\ received' = [received EXCEPT ![s][o] = @ + (total - claimed[s][o])]
    BY <2>1, RewardsAssumption DEF ClaimRewards, Claimable, Recorded, Unclaimed
  <2>3. claimed'[s][o] = total /\ received'[s][o] = total
    BY <1>1, <2>1, <2>2
  <2>4. \A q \in States, p \in Owners : q # s \/ p # o =>
            received'[q][p] = received[q][p] /\ claimed'[q][p] = claimed[q][p]
    BY <2>1, <2>2
  <2>5. \A q \in States, p \in Owners :
            received'[q][p] = claimed'[q][p] /\ received'[q][p] >= received[q][p]
    BY <1>1, <2>1, <2>2, <2>3, <2>4
  <2> QED
    BY <2>1, <2>3, <2>5 DEF s, o, total
<1>3. CASE ~ExecuteClaim(c)
  <2>1. claimed' = claimed /\ received' = received
    BY <1>3 DEF Execute, Initialize, InitializeRewardsState, UpdateAuthority, UpdateMerkleRoot,
                Fund, historyVars
  <2>2. c \notin Claims
    BY <1>3 DEF Execute, Claims
  <2> QED
    BY <1>1, <2>1, <2>2
<1> QED
  BY <1>2, <1>3

LEMMA ConfirmedStep ==
    ASSUME CliInv, ConfirmedInv, [CliNext]_cliVars
    PROVE  ConfirmedInv'
<1>1. RewardsTypeOK /\ CliTypeOK
  BY DEF CliInv
<1> USE DEF ConfirmedIsPaid, ConfirmedInv
<1>2. CASE UNCHANGED cliVars
  BY <1>2 DEF cliVars, runVars, allVars, rewardsVars, historyVars
<1>3. ASSUME UNCHANGED allVars, landed' \subseteq landed,
             \A o \in landed' \cap Claimants : sent'[o] = sent[o]
      PROVE  ConfirmedInv'
  BY <1>3 DEF allVars, rewardsVars, historyVars
<1>4. ASSUME NEW o \in Claimants, Claiming(o) PROVE ConfirmedInv'
  <2>1. landed' = landed /\ UNCHANGED allVars
    BY <1>4 DEF Claiming, BuildClaim, CreateWallet, SendClaim, Abort
  <2>2. \A p \in landed \cap Claimants : sent'[p] = sent[p]
    <3>1. CASE SendClaim(o)
      BY <1>1, <3>1 DEF SendClaim, CliTypeOK, Processes
    <3>2. CASE sent' = sent
      BY <3>2
    <3> QED
      BY <1>4, <3>1, <3>2 DEF Claiming, BuildClaim, CreateWallet, Abort
  <2> QED
    BY <1>3, <2>1, <2>2
<1>5. CASE Administration
  <2>1. PICK c \in Commands : Run(c)
    BY <1>5, AdministrationRuns
  <2> QED
    BY <1>1, <1>3, <2>1, CliAssumption DEF Run, CliTypeOK, Processes
<1>6. ASSUME NEW p \in Processes, Land(p) PROVE ConfirmedInv'
  <2>1. sent[p] \in Requests /\ Execute(sent[p]) /\ sent' = sent /\ landed' = landed \cup {p}
    BY <1>1, <1>6, SentIsARequest DEF Land
  <2>2. \A s \in States, o \in Owners :
            received'[s][o] = claimed'[s][o] /\ received'[s][o] >= received[s][o]
    BY <1>1, <2>1, ExecuteKeepsBooks
  <2>3. ASSUME NEW o \in landed' \cap Claimants
        PROVE  /\ received'[sent[o].state][o] >= Amount(sent[o].file, o)
               /\ Amount(sent[o].file, o) \in Nat
    <3>1. sent[o] \in Claims /\ sent[o].owner = o
      BY <1>1, <1>6, <2>1 DEF CliTypeOK, Land
    <3>2. sent[o].state \in States /\ o \in Owners
      BY <3>1, CliAssumption DEF Claims
    <3>3. CASE o = p
      <4>1. received'[sent[o].state][o] = Amount(sent[o].file, o) /\ Amount(sent[o].file, o) \in Nat
        BY <1>1, <2>1, <3>1, <3>3, ExecuteKeepsBooks
      <4> QED
        BY <4>1
    <3>4. CASE o \in landed
      <4> DEFINE before == received[sent[o].state][o]
                 after == received'[sent[o].state][o]
                 amount == Amount(sent[o].file, o)
      <4>1. before >= amount /\ after >= before /\ amount \in Nat
        BY <2>2, <3>2, <3>4
      <4>2. before \in Nat /\ after \in Nat
        <5>1. RewardsTypeOK'
          BY <1>1, <2>1, ExecuteIsAnInstruction, RewardsTypeStep
        <5> QED
          BY <1>1, <3>2, <5>1 DEF RewardsTypeOK
      <4> HIDE DEF before, after, amount
      <4>3. after >= amount
        BY <4>1, <4>2
      <4> QED
        BY <4>1, <4>3 DEF after, amount
    <3> QED
      BY <2>1, <3>3, <3>4
  <2>4. \A o \in landed' \cap Claimants :
            /\ received'[sent'[o].state][o] >= Amount(sent'[o].file, o)
            /\ Amount(sent'[o].file, o) \in Nat
    BY <2>1, <2>3
  <2> QED
    BY <2>2, <2>4
<1>7. ASSUME NEW p \in Processes, Confirm(p) \/ GiveUp(p) PROVE ConfirmedInv'
  BY <1>1, <1>3, <1>7 DEF Confirm, GiveUp, CliTypeOK
<1>8. CASE LandStray
  <2>1. PICK c \in strays : Execute(c)
    BY <1>8 DEF LandStray
  <2>2. c \in Requests
    BY <1>1 DEF CliTypeOK, Requests
  <2>3. \A s \in States, o \in Owners :
            received'[s][o] = claimed'[s][o] /\ received'[s][o] >= received[s][o]
    BY <1>1, <2>1, <2>2, ExecuteKeepsBooks
  <2>4. ASSUME NEW o \in landed \cap Claimants
        PROVE  received'[sent[o].state][o] >= Amount(sent[o].file, o)
    <3>1. sent[o].state \in States /\ o \in Owners
      BY <1>1, CliAssumption DEF CliTypeOK, Claims
    <3>2. received[sent[o].state][o] \in Nat /\ received'[sent[o].state][o] \in Nat
      <4>1. RewardsTypeOK'
        BY <1>1, <2>1, <2>2, ExecuteIsAnInstruction, RewardsTypeStep
      <4> QED
        BY <1>1, <3>1, <4>1 DEF RewardsTypeOK
    <3> QED
      BY <2>3, <3>1, <3>2
  <2> QED
    BY <1>8, <2>3, <2>4 DEF LandStray
<1>9. CASE DropStray
  BY <1>3, <1>9 DEF DropStray
<1>10. CASE Writes
  BY <1>10 DEF Writes, WriteSlots, historyVars, runVars
<1> QED
  BY <1>2, <1>4, <1>5, <1>6, <1>7, <1>8, <1>9, <1>10 DEF CliNext, Network

\* A claim that was executed was paid in full, and nothing was paid twice.
THEOREM ConfirmedCorrect == CliSpec => []ConfirmedIsPaid
<1>1. CliInv /\ ConfirmedInv /\ [CliNext]_cliVars => ConfirmedInv'
  BY ConfirmedStep
<1>2. ConfirmedInv => ConfirmedIsPaid
  BY DEF ConfirmedInv
<1> QED
  BY <1>1, <1>2, ConfirmedInit, CliInvCorrect, PTL DEF CliSpec

-----------------------------------------------------------------------------
(* A careful administrator                                                 *)

\* The request that the administrator waits for, and those that can still be executed.
Waiting == {sent[Admin]} \ {Nothing}
ToCome == strays \cup (IF Admin \in landed THEN {} ELSE Waiting)

\* A root that is on its way gives no less than what is live, and is the only one of
\* its state; a state that does not exist yet has the root that a new one gets.
InFlightGrows ==
    /\ \A s \in States : ~Exists(s) => merkleRoot[s] = Inplace({})
    /\ \A s \in States, c \in ToCome : Publishes(c, s) =>
          merkleRoot[s].type = "Inplace" /\ Dominates(TreeAt(c.root), LiveTree(s))
    /\ \A s \in States, c \in strays, d \in strays : Publishes(c, s) /\ Publishes(d, s) => c = d
    /\ \A s \in States, c \in strays, d \in Waiting : ~(Publishes(c, s) /\ Publishes(d, s))

LEMMA DominatesReflexive ==
    ASSUME NEW tree, tree \subseteq Leaves
    PROVE  Dominates(tree, tree)
BY DEF Dominates, Leaves

LEMMA DominatesTransitive ==
    ASSUME NEW new, NEW middle, NEW old,
           new \subseteq Leaves, middle \subseteq Leaves, old \subseteq Leaves,
           Dominates(new, middle), Dominates(middle, old)
    PROVE  Dominates(new, old)
<1> SUFFICES ASSUME NEW leaf \in old
             PROVE  \E other \in new : other[1] = leaf[1] /\ other[2] >= leaf[2]
  BY DEF Dominates
<1>1. PICK between \in middle : between[1] = leaf[1] /\ between[2] >= leaf[2]
  BY DEF Dominates
<1>2. PICK other \in new : other[1] = between[1] /\ other[2] >= between[2]
  BY DEF Dominates
<1>3. leaf[2] \in Nat /\ between[2] \in Nat /\ other[2] \in Nat
  BY DEF Leaves
<1> QED
  BY <1>1, <1>2, <1>3

LEMMA TreeAtType ==
    ASSUME RewardsTypeOK, NEW root \in MerkleRoots
    PROVE  TreeAt(root) \subseteq Leaves
<1>1. \/ \E tree \in Trees : root = [type |-> "Inplace", hash |-> tree]
      \/ \E slot \in Slots : root = [type |-> "External", slot |-> slot]
  BY DEF MerkleRoots, Inplace, External
<1>2. TreeAt(root) \in Trees
  BY <1>1 DEF TreeAt, RewardsTypeOK
<1> QED
  BY <1>2, RewardsAssumption

LEMMA LiveTreeIsAtTheRoot == \A s \in States : LiveTree(s) = TreeAt(merkleRoot[s])
BY DEF LiveTree, TreeAt

\* What executing a request does to the roots.
LEMMA ExecuteGrows ==
    ASSUME RewardsTypeOK, CliTypeOK, InFlightGrows,
           NEW c \in Requests, c \in ToCome \/ c \in Claims, Execute(c)
    PROVE  /\ \A s \in States : Dominates(LiveTree(s)', LiveTree(s))
           /\ \A s \in States : ~Exists(s)' => merkleRoot'[s] = Inplace({})
           /\ \A s \in States : ~Publishes(c, s) => merkleRoot'[s] = merkleRoot[s]
           /\ slotData' = slotData
<1> USE DEF RewardsTypeOK, InFlightGrows
<1>1. \A s \in States : LiveTree(s) \subseteq Leaves
  BY LiveTreeType
<1>2. CASE merkleRoot' = merkleRoot /\ slotData' = slotData
           /\ \A s \in States : Exists(s) => Exists(s)'
  <2>1. \A s \in States : LiveTree(s)' = LiveTree(s)
    BY <1>2 DEF LiveTree
  <2> QED
    BY <1>1, <1>2, <2>1, DominatesReflexive
<1>3. CASE c.command = "initialize-rewards-state" /\ InitializeRewardsState(c.state, CliKey)
  <2>1. merkleRoot[c.state] = Inplace({})
    BY <1>3, RequestFields DEF InitializeRewardsState
  <2>2. merkleRoot' = merkleRoot /\ slotData' = slotData
    BY <1>3, <2>1 DEF InitializeRewardsState
  <2>3. \A s \in States : Exists(s) => Exists(s)'
    BY <1>3, CliAssumption, RewardsAssumption DEF InitializeRewardsState, Exists
  <2> QED
    BY <1>2, <2>2, <2>3
<1>4. CASE c.command = "update-merkle-root" /\ UpdateMerkleRoot(c.state, CliKey, c.root)
  <2>1. c.state \in States /\ c.root \in MerkleRoots
    BY <1>4, RequestFields
  <2>2. /\ Exists(c.state) /\ authority' = authority /\ slotData' = slotData
        /\ merkleRoot' = [merkleRoot EXCEPT ![c.state] = c.root]
    BY <1>4 DEF UpdateMerkleRoot, configVars
  <2>3. c \in ToCome
    BY <1>4 DEF Claims
  <2>4. Dominates(TreeAt(c.root), LiveTree(c.state))
    BY <1>4, <2>1, <2>3 DEF Publishes
  <2>5. LiveTree(c.state)' = TreeAt(c.root)
    BY <2>1, <2>2 DEF LiveTree, TreeAt
  <2>6. \A s \in States \ {c.state} : merkleRoot'[s] = merkleRoot[s] /\ LiveTree(s)' = LiveTree(s)
    BY <2>2 DEF LiveTree
  <2>7. ASSUME NEW s \in States PROVE Dominates(LiveTree(s)', LiveTree(s))
    BY <1>1, <2>4, <2>5, <2>6, DominatesReflexive
  <2>8. \A s \in States : Exists(s)' <=> Exists(s)
    BY <2>2 DEF Exists
  <2> QED
    BY <1>4, <2>2, <2>6, <2>7, <2>8 DEF Publishes
<1>5. CASE c.command = "update-authority" /\ UpdateAuthority(c.state, CliKey, c.newAuthority)
  <2>1. \A s \in States : Exists(s) => Exists(s)'
    BY <1>5, RequestFields, RewardsAssumption DEF UpdateAuthority, Exists
  <2> QED
    BY <1>2, <1>5, <2>1 DEF UpdateAuthority
<1>6. CASE ExecuteClaim(c)
  BY <1>2, <1>6 DEF ExecuteClaim, ClaimRewards, Exists, configVars
<1>7. CASE c.command = "initialize-global-config" /\ Initialize(CliKey)
  BY <1>2, <1>7 DEF Initialize, Exists
<1>8. CASE c.command = "fund-rewards" /\ Fund(c.state, c.amount)
  BY <1>2, <1>8 DEF Fund, Exists, configVars
<1> QED
  BY <1>3, <1>4, <1>5, <1>6, <1>7, <1>8 DEF Execute

\* Who executes a request leaves the ones to come as they are.
LEMMA ExecutionStep ==
    ASSUME RewardsTypeOK, CliTypeOK, InFlightGrows,
           NEW c \in Requests, c \in ToCome \/ c \in Claims, Execute(c),
           strays' \subseteq strays, ToCome' \subseteq ToCome, Waiting' = Waiting,
           \A s \in States, d \in ToCome' : ~(Publishes(c, s) /\ Publishes(d, s))
    PROVE  InFlightGrows' /\ RootsGrow
<1>1. /\ \A s \in States : Dominates(LiveTree(s)', LiveTree(s))
      /\ \A s \in States : ~Exists(s)' => merkleRoot'[s] = Inplace({})
      /\ \A s \in States : ~Publishes(c, s) => merkleRoot'[s] = merkleRoot[s]
      /\ slotData' = slotData
  BY ExecuteGrows
<1>2. ASSUME NEW s \in States, NEW d \in ToCome', Publishes(d, s)
      PROVE  merkleRoot'[s].type = "Inplace" /\ Dominates(TreeAt(d.root)', LiveTree(s)')
  <2>1. merkleRoot'[s] = merkleRoot[s]
    BY <1>1, <1>2
  <2>2. TreeAt(d.root)' = TreeAt(d.root) /\ LiveTree(s)' = LiveTree(s)
    BY <1>1, <2>1 DEF TreeAt, LiveTree
  <2> QED
    BY <1>2, <2>1, <2>2 DEF InFlightGrows
<1>3. /\ \A s \in States, d \in strays', e \in strays' : Publishes(d, s) /\ Publishes(e, s) => d = e
      /\ \A s \in States, d \in strays', e \in Waiting' : ~(Publishes(d, s) /\ Publishes(e, s))
  BY DEF InFlightGrows
<1> QED
  BY <1>1, <1>2, <1>3 DEF InFlightGrows, Publishes, RootsGrow

\* A step that executes nothing and sends nothing new.
LEMMA QuietStep ==
    ASSUME RewardsTypeOK, InFlightGrows, UNCHANGED allVars,
           \A c \in ToCome' \ ToCome, s \in States : ~Publishes(c, s),
           Waiting' \subseteq Waiting,
           \A c \in strays' \ strays : \A s \in States :
               Publishes(c, s) => c \in Waiting /\ Waiting' = {}
    PROVE  InFlightGrows' /\ RootsGrow
<1>1. \A s \in States : LiveTree(s)' = LiveTree(s) /\ (Exists(s)' <=> Exists(s))
  BY DEF allVars, rewardsVars, configVars, LiveTree, Exists
<1>2. /\ \A s \in States : merkleRoot'[s] = merkleRoot[s]
      /\ \A c : TreeAt(c.root)' = TreeAt(c.root)
  BY DEF allVars, rewardsVars, TreeAt
<1>3. RootsGrow
  BY <1>1, LiveTreeType, DominatesReflexive DEF RootsGrow
<1>4. ASSUME NEW s \in States, NEW c \in strays', NEW d \in strays', Publishes(c, s), Publishes(d, s)
      PROVE  c = d
  BY <1>4 DEF InFlightGrows, Waiting
<1>5. ASSUME NEW s \in States, NEW c \in strays', NEW d \in Waiting', Publishes(c, s), Publishes(d, s)
      PROVE  FALSE
  BY <1>5 DEF InFlightGrows
<1>6. \A s \in States, c \in ToCome' : Publishes(c, s) =>
          merkleRoot'[s].type = "Inplace" /\ Dominates(TreeAt(c.root)', LiveTree(s)')
  BY <1>1, <1>2 DEF InFlightGrows
<1> QED
  BY <1>1, <1>2, <1>3, <1>4, <1>5, <1>6 DEF InFlightGrows, Publishes

\* A new root is sent only when no other is on its way.
LEMMA RunStep ==
    ASSUME RewardsTypeOK, InFlightGrows, CliTypeOK, NEW c \in Commands, Run(c), Careful
    PROVE  InFlightGrows' /\ RootsGrow
<1>1. /\ sent[Admin] = Nothing /\ sent'[Admin] = c /\ UNCHANGED <<allVars, landed, strays>>
      /\ Waiting' \subseteq {c} /\ ToCome' \subseteq strays \cup {c}
  BY DEF Run, CliTypeOK, Processes, Waiting, ToCome
<1>2. CASE c = Nothing
  BY <1>1, <1>2, QuietStep DEF Waiting, ToCome
<1>3. CASE c # Nothing
  <2>1. c.command = "update-merkle-root" => CarefulRoot(c)
    BY <1>1, <1>3 DEF Careful
  <2>2. \A s \in States : LiveTree(s)' = LiveTree(s) /\ (Exists(s)' <=> Exists(s))
    BY <1>1 DEF allVars, rewardsVars, configVars, LiveTree, Exists
  <2>3. /\ \A s \in States : merkleRoot'[s] = merkleRoot[s]
        /\ \A d : TreeAt(d.root)' = TreeAt(d.root)
    BY <1>1 DEF allVars, rewardsVars, TreeAt
  <2>4. RootsGrow
    BY <2>2, LiveTreeType, DominatesReflexive DEF RootsGrow
  <2>5. ASSUME NEW s \in States, NEW d \in ToCome', Publishes(d, s)
        PROVE  merkleRoot'[s].type = "Inplace" /\ Dominates(TreeAt(d.root)', LiveTree(s)')
    <3>1. CASE d \in strays
      BY <2>2, <2>3, <2>5, <3>1 DEF InFlightGrows, ToCome
    <3>2. CASE d = c
      BY <2>1, <2>2, <2>3, <2>5, <3>2 DEF CarefulRoot, Publishes
    <3> QED
      BY <1>1, <3>1, <3>2
  <2>6. \A s \in States, d \in strays', e \in strays' : Publishes(d, s) /\ Publishes(e, s) => d = e
    BY <1>1 DEF InFlightGrows
  <2>7. \A s \in States, d \in strays', e \in Waiting' : ~(Publishes(d, s) /\ Publishes(e, s))
    BY <1>1, <2>1 DEF CarefulRoot, Publishes
  <2> QED
    BY <2>2, <2>3, <2>4, <2>5, <2>6, <2>7 DEF InFlightGrows, Publishes
<1> QED
  BY <1>2, <1>3

\* What external roots are read from grows.
LEMMA WritesStep ==
    ASSUME RewardsTypeOK, RewardsTypeOK', CliTypeOK, InFlightGrows, Writes, Careful
    PROVE  InFlightGrows' /\ RootsGrow
<1>1. /\ \A slot \in Slots : Dominates(slotData'[slot], slotData[slot])
      /\ authority' = authority /\ merkleRoot' = merkleRoot
      /\ UNCHANGED <<sent, landed, strays>>
  BY DEF Careful, Writes, WriteSlots, configVars, runVars
<1>2. ASSUME NEW root \in MerkleRoots PROVE Dominates(TreeAt(root)', TreeAt(root))
  <2>1. \/ \E tree \in Trees : root = [type |-> "Inplace", hash |-> tree]
        \/ \E slot \in Slots : root = [type |-> "External", slot |-> slot]
    BY DEF MerkleRoots, Inplace, External
  <2>2. TreeAt(root) \subseteq Leaves
    BY TreeAtType
  <2>3. CASE root.type = "Inplace"
    <3>1. TreeAt(root)' = TreeAt(root)
      BY <2>3 DEF TreeAt
    <3> QED
      BY <2>2, <3>1, DominatesReflexive
  <2>4. ASSUME NEW slot \in Slots, root = [type |-> "External", slot |-> slot]
        PROVE  Dominates(TreeAt(root)', TreeAt(root))
    BY <1>1, <2>4 DEF TreeAt
  <2> QED
    BY <2>1, <2>3, <2>4
<1>3. RootsGrow
  <2> SUFFICES ASSUME NEW s \in States PROVE Dominates(LiveTree(s)', LiveTree(s))
    BY DEF RootsGrow
  <2>1. LiveTree(s) = TreeAt(merkleRoot[s]) /\ LiveTree(s)' = TreeAt(merkleRoot[s])'
    BY <1>1 DEF LiveTree, TreeAt
  <2>2. merkleRoot[s] \in MerkleRoots
    BY DEF RewardsTypeOK
  <2>3. ASSUME NEW root \in MerkleRoots, root = merkleRoot[s]
        PROVE  Dominates(LiveTree(s)', LiveTree(s))
    <3>1. LiveTree(s)' = TreeAt(root)' /\ LiveTree(s) = TreeAt(root)
      BY <1>1, <2>3 DEF LiveTree, TreeAt
    <3> QED
      BY <1>2, <3>1
  <2> QED
    BY <2>2, <2>3
<1>4. ToCome' = ToCome /\ Waiting' = Waiting
  BY <1>1 DEF ToCome, Waiting
<1>5. ASSUME NEW s \in States, NEW c \in ToCome, Publishes(c, s)
      PROVE  merkleRoot'[s].type = "Inplace" /\ Dominates(TreeAt(c.root)', LiveTree(s)')
  <2>1. merkleRoot[s].type = "Inplace" /\ Dominates(TreeAt(c.root), LiveTree(s))
    BY <1>5 DEF InFlightGrows
  <2>2. LiveTree(s)' = LiveTree(s)
    BY <1>1, <2>1 DEF LiveTree
  <2>3. c \in Requests
    BY <1>5 DEF ToCome, Waiting, CliTypeOK, Requests
  <2>4. c.root \in MerkleRoots
    BY <1>5, <2>3, RequestFields DEF Publishes
  <2>5. /\ TreeAt(c.root) \subseteq Leaves /\ LiveTree(s) \subseteq Leaves
        /\ TreeAt(c.root)' \subseteq Leaves
    <3>1. ASSUME NEW root \in MerkleRoots PROVE TreeAt(root)' \subseteq Leaves
      <4>1. \/ \E tree \in Trees : root = [type |-> "Inplace", hash |-> tree]
            \/ \E slot \in Slots : root = [type |-> "External", slot |-> slot]
        BY DEF MerkleRoots, Inplace, External
      <4>2. TreeAt(root)' \in Trees
        BY <4>1 DEF TreeAt, RewardsTypeOK
      <4> QED
        BY <4>2, RewardsAssumption
    <3> QED
      BY <2>4, <3>1, TreeAtType, LiveTreeType
  <2>6. Dominates(TreeAt(c.root)', TreeAt(c.root))
    BY <1>2, <2>4
  <2>7. Dominates(TreeAt(c.root)', LiveTree(s))
    BY <2>1, <2>5, <2>6, DominatesTransitive
  <2> QED
    BY <1>1, <2>1, <2>2, <2>7
<1> QED
  BY <1>1, <1>3, <1>4, <1>5 DEF InFlightGrows, Publishes, Exists

LEMMA NetworkStep ==
    ASSUME RewardsTypeOK, CliTypeOK, InFlightGrows, Network
    PROVE  InFlightGrows' /\ RootsGrow
<1> USE DEF ToCome, Waiting, Processes
<1>1. Admin \notin Claimants
  BY CliAssumption
<1>2. ASSUME NEW p \in Processes, Land(p) PROVE InFlightGrows' /\ RootsGrow
  <2>1. /\ sent[p] \in Requests /\ Execute(sent[p]) /\ p \notin landed /\ sent[p] # Nothing
        /\ sent' = sent /\ strays' = strays /\ landed' = landed \cup {p}
    BY <1>2, SentIsARequest DEF Land
  <2>2. sent[p] \in ToCome \/ sent[p] \in Claims
    BY <2>1 DEF CliTypeOK
  <2>3. strays' \subseteq strays /\ ToCome' \subseteq ToCome /\ Waiting' = Waiting
    BY <2>1
  <2>4. \A s \in States, d \in ToCome' : ~(Publishes(sent[p], s) /\ Publishes(d, s))
    <3>1. CASE p = Admin
      <4>1. ToCome' = strays /\ sent[p] \in Waiting
        BY <2>1, <3>1
      <4> QED
        BY <4>1 DEF InFlightGrows
    <3>2. CASE p \in Claimants
      BY <2>1, <3>2 DEF CliTypeOK, Claims, Publishes
    <3> QED
      BY <3>1, <3>2
  <2> HIDE DEF ToCome, Waiting
  <2> QED
    BY <2>1, <2>2, <2>3, <2>4, ExecutionStep
<1>3. CASE LandStray
  <2>1. PICK c \in strays : Execute(c) /\ strays' = strays \ {c} /\ sent' = sent /\ landed' = landed
    BY <1>3 DEF LandStray
  <2>2. c \in Requests /\ c \in ToCome
    BY DEF CliTypeOK, Requests
  <2>3. strays' \subseteq strays /\ ToCome' \subseteq ToCome /\ Waiting' = Waiting
    BY <2>1
  <2>4. \A s \in States, d \in ToCome' : ~(Publishes(c, s) /\ Publishes(d, s))
    <3>1. ASSUME NEW s \in States, NEW d \in ToCome', Publishes(c, s), Publishes(d, s) PROVE FALSE
      <4>1. CASE d \in strays \ {c}
        BY <3>1, <4>1 DEF InFlightGrows
      <4>2. CASE d \in Waiting
        BY <3>1, <4>2 DEF InFlightGrows
      <4> QED
        BY <2>1, <3>1, <4>1, <4>2
    <3> QED
      BY <3>1
  <2> HIDE DEF ToCome, Waiting
  <2> QED
    BY <2>1, <2>2, <2>3, <2>4, ExecutionStep
<1>4. CASE DropStray
  <2>1. UNCHANGED <<allVars, sent, landed>> /\ strays' \subseteq strays
    BY <1>4 DEF DropStray
  <2> QED
    BY <2>1, QuietStep
<1>5. ASSUME NEW p \in Processes, Confirm(p) PROVE InFlightGrows' /\ RootsGrow
  <2>1. /\ UNCHANGED <<allVars, strays>> /\ p \in landed
        /\ sent' = [sent EXCEPT ![p] = Nothing] /\ landed' = landed \ {p}
    BY <1>5 DEF Confirm
  <2>2. ToCome' \subseteq ToCome /\ Waiting' \subseteq Waiting
    BY <2>1 DEF CliTypeOK
  <2> QED
    BY <2>1, <2>2, QuietStep
<1>6. ASSUME NEW p \in Processes, GiveUp(p) PROVE InFlightGrows' /\ RootsGrow
  <2>1. /\ UNCHANGED allVars /\ sent[p] # Nothing
        /\ sent' = [sent EXCEPT ![p] = Nothing] /\ landed' = landed \ {p}
        /\ strays' \in {strays} \cup (IF p \in landed \/ Cardinality(strays) = MaxStrays THEN {}
                                     ELSE {strays \cup {sent[p]}})
    BY <1>6 DEF GiveUp
  <2>2. p \in landed => strays' = strays
    BY <2>1
  <2>3. p \notin landed => strays' \subseteq strays \cup {sent[p]}
    BY <2>1
  <2>4. CASE p = Admin
    <3>1. Waiting' = {} /\ ToCome' \subseteq ToCome
      BY <2>1, <2>2, <2>3, <2>4 DEF CliTypeOK
    <3>2. \A c \in strays' \ strays : c \in Waiting
      BY <2>1, <2>2, <2>3, <2>4
    <3> QED
      BY <2>1, <3>1, <3>2, QuietStep
  <2>5. CASE p \in Claimants
    <3>1. sent[p] \in Claims /\ Waiting' = Waiting
      BY <1>1, <2>1, <2>5 DEF CliTypeOK
    <3>2. \A s \in States : ~Publishes(sent[p], s)
      BY <3>1 DEF Claims, Publishes
    <3>3. ToCome' \subseteq ToCome \cup {sent[p]}
      BY <1>1, <2>1, <2>2, <2>3, <2>5 DEF CliTypeOK
    <3> QED
      BY <2>1, <2>2, <2>3, <3>1, <3>2, <3>3, QuietStep
  <2> QED
    BY <2>4, <2>5
<1> QED
  BY <1>2, <1>3, <1>4, <1>5, <1>6 DEF Network

LEMMA CarefulStep ==
    ASSUME CliInv, InFlightGrows, [CliNext /\ Careful]_cliVars
    PROVE  InFlightGrows' /\ [RewardsNext /\ RootsGrow]_allVars
<1>1. RewardsTypeOK /\ CliTypeOK /\ RewardsTypeOK' /\ [RewardsNext]_allVars
  BY CliInvStep, CliStepIsARewardsStep DEF CliInv
<1>2. CASE UNCHANGED cliVars
  BY <1>2 DEF cliVars, runVars, allVars, rewardsVars, configVars, InFlightGrows, ToCome, Waiting,
              Exists, TreeAt, LiveTree, Publishes
<1>3. ASSUME NEW o \in Claimants, Claiming(o) PROVE InFlightGrows' /\ RootsGrow
  <2>1. UNCHANGED <<allVars, strays, landed>>
    BY <1>3 DEF Claiming, BuildClaim, CreateWallet, SendClaim, Abort
  <2>2. sent'[Admin] = sent[Admin]
    BY <1>1, <1>3, CliAssumption
      DEF Claiming, BuildClaim, CreateWallet, SendClaim, Abort, CliTypeOK, Processes
  <2> QED
    BY <1>1, <2>1, <2>2, QuietStep DEF ToCome, Waiting
<1>4. CASE Administration /\ Careful
  BY <1>1, <1>4, AdministrationRuns, RunStep
<1>5. CASE Writes /\ Careful
  BY <1>1, <1>5, WritesStep
<1>6. CASE Network
  BY <1>1, <1>6, NetworkStep
<1> QED
  BY <1>1, <1>2, <1>3, <1>4, <1>5, <1>6 DEF CliNext

LEMMA InFlightGrowsInit == CliInit => InFlightGrows
BY DEF CliInit, RewardsStart, RewardsInit, InFlightGrows, ToCome, Waiting, Processes

\* Whatever runs, retries and late transactions do, the roots that a careful
\* administrator publishes only grow.
THEOREM CliImplementsCumulative == CarefulSpec => ImplementsCumulative
<1>1. CliInit => RewardsStart
  BY DEF CliInit
<1>2. [CliNext /\ Careful]_cliVars => [CliNext]_cliVars
  OBVIOUS
<1>3. CliInv /\ InFlightGrows /\ [CliNext /\ Careful]_cliVars
          => InFlightGrows' /\ [RewardsNext /\ RootsGrow]_allVars
  BY CarefulStep
<1> QED
  BY <1>1, <1>2, <1>3, CliInvInit, CliInvStep, InFlightGrowsInit, PTL
    DEF CarefulSpec, ImplementsCumulative, CumulativeSpec

\* No owner is locked out by what the tool sends late, or sends again.
THEOREM CliNeverLocksOut ==
    ASSUME OneLeafEach PROVE CarefulSpec => []NeverLockedOut
BY CliImplementsCumulative, NeverLockedOutCorrect, PTL DEF ImplementsCumulative

=============================================================================
