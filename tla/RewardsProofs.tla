---------------------------- MODULE RewardsProofs ----------------------------
(* Proofs about Rewards, for every value of its constants. *)
EXTENDS Rewards, SumsProofs

USE DEF configVars, tokenVars, historyVars, Leaves

RewardsInv == RewardsTypeOK /\ VaultBalances /\ NoOverpayment

-----------------------------------------------------------------------------
(* Type correctness *)

LEMMA LiveTreeType ==
    ASSUME RewardsTypeOK, NEW s \in States
    PROVE  LiveTree(s) \in Trees /\ LiveTree(s) \subseteq Leaves
<1>1. \/ \E tree \in Trees : merkleRoot[s] = [type |-> "Inplace", hash |-> tree]
      \/ \E slot \in Slots : merkleRoot[s] = [type |-> "External", slot |-> slot]
  BY DEF RewardsTypeOK, MerkleRoots, Inplace, External
<1>2. LiveTree(s) \in Trees
  BY <1>1 DEF LiveTree, RewardsTypeOK
<1> QED
  BY <1>2, RewardsAssumption

\* The parts of the type invariant that no history depends on.
CoreTypeOK ==
    /\ admin \in Keys \cup {NoKey}
    /\ authority \in [States -> Keys \cup {NoKey}]
    /\ merkleRoot \in [States -> MerkleRoots]
    /\ claimed \in [States -> [Owners -> Nat]]
    /\ balance \in [States -> Nat]
    /\ outside \in Nat
    /\ slotData \in [Slots -> Trees]
    /\ received \in [States -> [Owners -> Nat]]
    /\ deposited \in [States -> Nat]

\* A transfer moves natural amounts.
LEMMA TransferType ==
    ASSUME RewardsTypeOK, NEW from \in States, NEW to \in States \cup {Wallet}, NEW amount \in Nat,
           Transfer(from, to, amount)
    PROVE  /\ balance' \in [States -> Nat] /\ outside' \in Nat /\ deposited' \in [States -> Nat]
<1> USE DEF RewardsTypeOK
<1>1. balance[from] \in Nat /\ amount <= balance[from]
  BY DEF Transfer
<1>2. CASE to = from
  BY <1>2, RewardsAssumption DEF Transfer
<1>3. CASE to \in States \ {from}
  <2>1. /\ balance' = [balance EXCEPT ![from] = @ - amount, ![to] = @ + amount]
        /\ deposited' = [deposited EXCEPT ![to] = @ + amount]
        /\ outside' = outside
    BY <1>3, RewardsAssumption DEF Transfer
  <2>2. balance[from] - amount \in Nat /\ balance[to] + amount \in Nat /\ deposited[to] + amount \in Nat
    BY <1>1, <1>3
  <2> QED
    BY <1>3, <2>1, <2>2
<1>4. CASE to = Wallet
  <2>1. /\ balance' = [balance EXCEPT ![from] = @ - amount]
        /\ outside' = outside + amount
        /\ deposited' = deposited
    BY <1>4, RewardsAssumption DEF Transfer
  <2>2. balance[from] - amount \in Nat /\ outside + amount \in Nat
    BY <1>1
  <2> QED
    BY <2>1, <2>2
<1> QED
  BY <1>2, <1>3, <1>4

\* What a step does that matters to the claims: a claim, a deposit, or nothing.
LEMMA InstructionsType == RewardsTypeOK /\ Instructions => CoreTypeOK'
<1> SUFFICES ASSUME RewardsTypeOK, Instructions PROVE CoreTypeOK'
  OBVIOUS
<1> USE DEF RewardsTypeOK, CoreTypeOK
<1>1. ASSUME NEW key \in Keys, Initialize(key) PROVE CoreTypeOK'
  BY <1>1 DEF Initialize
<1>2. ASSUME NEW s \in States, NEW key \in Keys, InitializeRewardsState(s, key) PROVE CoreTypeOK'
  <2>1. Inplace({}) \in MerkleRoots
    BY RewardsAssumption DEF MerkleRoots
  <2> QED
    BY <1>2, <2>1 DEF InitializeRewardsState
<1>3. ASSUME NEW s \in States, NEW signer \in Keys, NEW root \in MerkleRoots,
             UpdateMerkleRoot(s, signer, root)
      PROVE  CoreTypeOK'
  BY <1>3 DEF UpdateMerkleRoot
<1>4. ASSUME NEW s \in States, NEW signer \in Keys, NEW key \in Keys, UpdateAuthority(s, signer, key)
      PROVE  CoreTypeOK'
  BY <1>4 DEF UpdateAuthority
<1>5. ASSUME NEW s \in States, NEW beneficiary \in States \cup {Wallet}, NEW leaf \in LiveTree(s),
             ClaimRewards(s, leaf[1], leaf[2], beneficiary)
      PROVE  CoreTypeOK'
  <2>1. leaf[1] \in Owners /\ leaf[2] \in Nat
    BY LiveTreeType
  <2>2. claimed[s][leaf[1]] \in Nat /\ Unclaimed(s, leaf[1], leaf[2]) \in Nat
    BY <1>5, <2>1 DEF ClaimRewards, Claimable, Unclaimed
  <2>3. /\ balance' \in [States -> Nat] /\ outside' \in Nat /\ deposited' \in [States -> Nat]
    BY <1>5, <2>2, TransferType DEF ClaimRewards
  <2>4. claimed' \in [States -> [Owners -> Nat]]
    BY <1>5, <2>1 DEF ClaimRewards, Recorded
  <2>5. received' \in [States -> [Owners -> Nat]]
    BY <1>5, <2>1, <2>2 DEF ClaimRewards
  <2> QED
    BY <1>5, <2>3, <2>4, <2>5 DEF ClaimRewards
<1> QED
  BY <1>1, <1>2, <1>3, <1>4, <1>5 DEF Instructions

LEMMA FundingType == RewardsTypeOK /\ Funding => CoreTypeOK'
<1> SUFFICES ASSUME RewardsTypeOK, NEW s \in States, NEW amount \in Amounts, Fund(s, amount)
             PROVE  CoreTypeOK'
  BY DEF Funding
<1>1. amount \in Nat /\ outside - amount \in Nat
  BY RewardsAssumption DEF Fund, RewardsTypeOK
<1> QED
  BY <1>1 DEF Fund, RewardsTypeOK, CoreTypeOK

LEMMA WriteSlotsType ==
    ASSUME RewardsTypeOK, NEW data \in [Slots -> Trees], WriteSlots(data)
    PROVE  CoreTypeOK'
BY DEF WriteSlots, RewardsTypeOK, CoreTypeOK

LEMMA LiveTreeTypeAfter ==
    ASSUME CoreTypeOK', NEW s \in States
    PROVE  LiveTree(s)' \in Trees /\ LiveTree(s)' \subseteq Leaves
<1>1. \/ \E tree \in Trees : merkleRoot'[s] = [type |-> "Inplace", hash |-> tree]
      \/ \E slot \in Slots : merkleRoot'[s] = [type |-> "External", slot |-> slot]
  BY DEF CoreTypeOK, MerkleRoots, Inplace, External
<1>2. LiveTree(s)' \in Trees
  BY <1>1 DEF LiveTree, CoreTypeOK
<1> QED
  BY <1>2, RewardsAssumption

\* Keeping the history keeps its type.
LEMMA ObserveLiveType ==
    ASSUME RewardsTypeOK, CoreTypeOK', ObserveLive
    PROVE  RewardsTypeOK'
<1>1. \A s \in States : LiveTree(s)' \subseteq Leaves
  BY LiveTreeTypeAfter
<1>2. everLive' \in [States -> SUBSET Leaves]
  BY <1>1 DEF ObserveLive, RewardsTypeOK
<1> QED
  BY <1>2 DEF CoreTypeOK, RewardsTypeOK

LEMMA RewardsTypeStep == RewardsTypeOK /\ [RewardsNext]_allVars => RewardsTypeOK'
<1> SUFFICES ASSUME RewardsTypeOK, [RewardsNext]_allVars PROVE RewardsTypeOK'
  OBVIOUS
<1>1. CASE UNCHANGED allVars
  BY <1>1 DEF allVars, rewardsVars, RewardsTypeOK
<1>2. CASE RewardsNext
  <2>1. CoreTypeOK'
    BY <1>2, InstructionsType, FundingType, WriteSlotsType DEF RewardsNext
  <2> QED
    BY <1>2, <2>1, ObserveLiveType DEF RewardsNext
<1> QED
  BY <1>1, <1>2

LEMMA RewardsTypeInit == RewardsStart => RewardsTypeOK
<1>1. Inplace({}) \in MerkleRoots
  BY RewardsAssumption DEF MerkleRoots
<1> QED
  BY <1>1, RewardsAssumption DEF RewardsStart, RewardsInit, RewardsTypeOK

THEOREM RewardsTypeCorrect == RewardsSpec => []RewardsTypeOK
<1> QED
  BY RewardsTypeInit, RewardsTypeStep, PTL DEF RewardsSpec

-----------------------------------------------------------------------------
(* What steps do to the vaults and the claims                              *)

\* A step that pays no claim: at most a vault receives tokens.
NoClaim ==
    /\ claimed' = claimed
    /\ received' = received
    /\ \/ balance' = balance /\ deposited' = deposited
       \/ \E s \in States, amount \in Nat :
             /\ balance' = [balance EXCEPT ![s] = @ + amount]
             /\ deposited' = [deposited EXCEPT ![s] = @ + amount]

\* The vault of s pays u for a claim of o: into itself, into another vault, or
\* into an account that is no vault.
PaidIntoItself == balance' = balance /\ deposited' = deposited /\ received' = received

PaidOut(s, o, u) ==
    /\ received' = [received EXCEPT ![s][o] = @ + u]
    /\ balance' = [balance EXCEPT ![s] = @ - u]
    /\ deposited' = deposited

PaidAcross(s, t, o, u) ==
    /\ received' = [received EXCEPT ![s][o] = @ + u]
    /\ balance' = [balance EXCEPT ![s] = @ - u, ![t] = @ + u]
    /\ deposited' = [deposited EXCEPT ![t] = @ + u]

\* A claim of owner o under state s, of an amount u.
PaidClaim(s, o, u) ==
    /\ u > 0
    /\ claimed' = [claimed EXCEPT ![s][o] = @ + u]
    /\ <<o, claimed[s][o] + u>> \in LiveTree(s)
    /\ LiveTree(s)' = LiveTree(s)
    /\ PaidIntoItself \/ PaidOut(s, o, u) \/ \E t \in States \ {s} : PaidAcross(s, t, o, u)

LEMMA ClaimRewardsPays ==
    ASSUME RewardsTypeOK,
           NEW s \in States, NEW beneficiary \in States \cup {Wallet},
           NEW o \in Owners, NEW total \in Nat,
           ClaimRewards(s, o, total, beneficiary)
    PROVE  PaidClaim(s, o, Unclaimed(s, o, total))
<1> DEFINE u == Unclaimed(s, o, total)
<1>1. /\ claimed[s][o] \in Nat /\ total > claimed[s][o] /\ u \in Nat /\ u > 0
      /\ claimed[s][o] + u = total
      /\ <<o, total>> \in LiveTree(s)
  BY DEF ClaimRewards, Claimable, Unclaimed, RewardsTypeOK
<1>2. claimed' = [claimed EXCEPT ![s][o] = @ + u]
  BY <1>1 DEF ClaimRewards, Recorded, RewardsTypeOK
<1>3. LiveTree(s)' = LiveTree(s)
  BY DEF ClaimRewards, LiveTree
<1>4. /\ Transfer(s, beneficiary, u)
      /\ received' = IF beneficiary = s THEN received ELSE [received EXCEPT ![s][o] = @ + u]
  BY DEF ClaimRewards
<1> HIDE DEF u
<1>5. PaidIntoItself \/ PaidOut(s, o, u) \/ \E t \in States \ {s} : PaidAcross(s, t, o, u)
  <2>1. CASE beneficiary = s
    BY <1>4, <2>1, RewardsAssumption DEF Transfer, PaidIntoItself
  <2>2. CASE beneficiary \in States \ {s}
    <3>1. PaidAcross(s, beneficiary, o, u)
      BY <1>4, <2>2, RewardsAssumption DEF Transfer, PaidAcross
    <3> QED
      BY <2>2, <3>1
  <2>3. CASE beneficiary = Wallet
    BY <1>4, <2>3, RewardsAssumption DEF Transfer, PaidOut
  <2> QED
    BY <2>1, <2>2, <2>3
<1>6. <<o, claimed[s][o] + u>> \in LiveTree(s)
  BY <1>1
<1> QED
  BY <1>1, <1>2, <1>3, <1>5, <1>6 DEF PaidClaim, u

LEMMA ClaimOrNoClaim ==
    ASSUME RewardsTypeOK, [RewardsNext]_allVars
    PROVE  \/ NoClaim
           \/ \E s \in States, o \in Owners, u \in Nat : PaidClaim(s, o, u)
<1>1. CASE UNCHANGED allVars
  BY <1>1 DEF allVars, rewardsVars, NoClaim
<1>2. CASE \/ \E key \in Keys : Initialize(key)
           \/ \E s \in States, key \in Keys : InitializeRewardsState(s, key)
           \/ \E s \in States, signer \in Keys, root \in MerkleRoots : UpdateMerkleRoot(s, signer, root)
           \/ \E s \in States, signer \in Keys, key \in Keys : UpdateAuthority(s, signer, key)
           \/ \E data \in [Slots -> Trees] : WriteSlots(data)
  BY <1>2 DEF Initialize, InitializeRewardsState, UpdateMerkleRoot, UpdateAuthority, WriteSlots, NoClaim
<1>3. ASSUME NEW s \in States, NEW beneficiary \in States \cup {Wallet}, NEW leaf \in LiveTree(s),
             ClaimRewards(s, leaf[1], leaf[2], beneficiary)
      PROVE  \E o \in Owners, u \in Nat : PaidClaim(s, o, u)
  <2>1. leaf[1] \in Owners /\ leaf[2] \in Nat
    BY LiveTreeType
  <2>2. Unclaimed(s, leaf[1], leaf[2]) \in Nat
    BY <1>3, <2>1 DEF ClaimRewards, Claimable, Unclaimed, RewardsTypeOK
  <2>3. PaidClaim(s, leaf[1], Unclaimed(s, leaf[1], leaf[2]))
    BY <1>3, <2>1, ClaimRewardsPays
  <2> QED
    BY <2>1, <2>2, <2>3
<1>4. CASE Funding
  BY <1>4, RewardsAssumption DEF Funding, Fund, NoClaim
<1> QED
  BY <1>1, <1>2, <1>3, <1>4 DEF RewardsNext, Instructions

-----------------------------------------------------------------------------
(* The invariants *)

LEMMA NoClaimPreserves ==
    ASSUME RewardsTypeOK, RewardsTypeOK', VaultBalances, NoOverpayment, NoClaim,
           \A s \in States : everLive[s] \subseteq everLive'[s]
    PROVE  VaultBalances' /\ NoOverpayment'
<1>1. VaultBalances'
  <2> SUFFICES ASSUME NEW q \in States
               PROVE  balance'[q] + SumOver(Owners, received'[q]) = deposited'[q]
    BY DEF VaultBalances
  <2>1. /\ balance[q] + SumOver(Owners, received[q]) = deposited[q]
        /\ received'[q] = received[q]
    BY DEF VaultBalances, NoClaim
  <2>2. /\ balance[q] \in Nat /\ deposited[q] \in Nat
        /\ SumOver(Owners, received[q]) \in Nat
    <3>1. \A o \in Owners : received[q][o] \in Nat
      BY DEF RewardsTypeOK
    <3> QED
      BY <3>1, SumType, RewardsAssumption DEF RewardsTypeOK
  <2>3. \/ balance'[q] = balance[q] /\ deposited'[q] = deposited[q]
        \/ \E amount \in Nat : balance'[q] = balance[q] + amount /\ deposited'[q] = deposited[q] + amount
    BY DEF NoClaim, RewardsTypeOK
  <2> QED
    BY <2>1, <2>2, <2>3
<1>2. NoOverpayment'
  BY DEF NoOverpayment, NoClaim
<1> QED
  BY <1>1, <1>2

LEMMA PaidClaimPreserves ==
    ASSUME RewardsTypeOK, RewardsTypeOK', VaultBalances, NoOverpayment, ObserveLive,
           NEW s \in States, NEW o \in Owners, NEW u \in Nat, PaidClaim(s, o, u)
    PROVE  VaultBalances' /\ NoOverpayment'
<1>1. /\ \A q \in States : balance[q] \in Nat /\ deposited[q] \in Nat
      /\ \A q \in States, p \in Owners :
             /\ received[q][p] \in Nat /\ claimed[q][p] \in Nat
             /\ received'[q][p] \in Nat /\ claimed'[q][p] \in Nat
  BY DEF RewardsTypeOK
<1>2. \A q \in States : SumOver(Owners, received[q]) \in Nat
  BY <1>1, SumType, RewardsAssumption
<1>3. /\ claimed'[s][o] = claimed[s][o] + u
      /\ \A q \in States, p \in Owners : q # s \/ p # o => claimed'[q][p] = claimed[q][p]
  BY DEF PaidClaim, RewardsTypeOK
<1>4. \/ PaidIntoItself
      \/ received' = [received EXCEPT ![s][o] = @ + u]
  BY DEF PaidClaim, PaidOut, PaidAcross
<1>5. /\ \A q \in States, p \in Owners : q # s \/ p # o => received'[q][p] = received[q][p]
      /\ received'[s][o] = received[s][o] \/ received'[s][o] = received[s][o] + u
  BY <1>4 DEF RewardsTypeOK, PaidIntoItself
<1>6. NoOverpayment'
  <2> SUFFICES ASSUME NEW q \in States, NEW p \in Owners
               PROVE  /\ received'[q][p] <= claimed'[q][p]
                      /\ claimed'[q][p] > 0 => <<p, claimed'[q][p]>> \in everLive'[q]
    BY DEF NoOverpayment
  <2>1. /\ received[q][p] <= claimed[q][p]
        /\ claimed[q][p] > 0 => <<p, claimed[q][p]>> \in everLive[q]
    BY DEF NoOverpayment
  <2>2. everLive'[q] = everLive[q] \cup LiveTree(q)'
    BY DEF ObserveLive
  <2>3. CASE q = s /\ p = o
    <3>1. received'[s][o] <= claimed'[s][o]
      BY <1>1, <1>3, <1>5, <2>1, <2>3
    <3>2. <<o, claimed'[s][o]>> \in LiveTree(s)'
      BY <1>3 DEF PaidClaim
    <3> QED
      BY <2>2, <2>3, <3>1, <3>2
  <2>4. CASE q # s \/ p # o
    BY <1>3, <1>5, <2>1, <2>2, <2>4
  <2> QED
    BY <2>3, <2>4
<1>7. CASE PaidIntoItself
  <2>1. VaultBalances'
    BY <1>7 DEF VaultBalances, PaidIntoItself
  <2> QED
    BY <1>6, <2>1
<1>8. CASE received' = [received EXCEPT ![s][o] = @ + u]
  <2>1. SumOver(Owners, received'[s]) = SumOver(Owners, received[s]) + u
    <3>1. \A p \in Owners \ {o} : received[s][p] = received'[s][p]
      BY <1>5
    <3>2. received'[s][o] = received[s][o] + u
      BY <1>8 DEF RewardsTypeOK
    <3>3. IsFiniteSet(Owners) /\ \A p \in Owners : received[s][p] \in Nat /\ received'[s][p] \in Nat
      BY <1>1, RewardsAssumption
    <3>4. SumOver(Owners, received'[s]) = SumOver(Owners, received[s]) - received[s][o] + received'[s][o]
      BY <3>1, <3>3, SumUpdate
    <3> QED
      BY <1>1, <1>2, <3>2, <3>4
  <2>2. \A q \in States \ {s} : SumOver(Owners, received'[q]) = SumOver(Owners, received[q])
    BY <1>8 DEF RewardsTypeOK
  <2>3. CASE PaidOut(s, o, u)
    <3>1. /\ balance'[s] = balance[s] - u /\ deposited' = deposited
          /\ \A q \in States \ {s} : balance'[q] = balance[q]
      BY <2>3 DEF PaidOut, RewardsTypeOK
    <3>2. VaultBalances'
      BY <1>1, <1>2, <2>1, <2>2, <3>1 DEF VaultBalances
    <3> QED
      BY <1>6, <3>2
  <2>4. ASSUME NEW t \in States \ {s}, PaidAcross(s, t, o, u) PROVE VaultBalances' /\ NoOverpayment'
    <3>1. /\ balance'[s] = balance[s] - u /\ deposited'[s] = deposited[s]
          /\ balance'[t] = balance[t] + u /\ deposited'[t] = deposited[t] + u
          /\ \A q \in States \ {s, t} : balance'[q] = balance[q] /\ deposited'[q] = deposited[q]
      BY <2>4 DEF PaidAcross, RewardsTypeOK
    <3>2. ASSUME NEW q \in States
          PROVE  balance'[q] + SumOver(Owners, received'[q]) = deposited'[q]
      <4>1. balance[q] + SumOver(Owners, received[q]) = deposited[q]
        BY DEF VaultBalances
      <4>2. CASE q = s
        BY <1>1, <1>2, <2>1, <3>1, <4>1, <4>2
      <4>3. CASE q = t
        BY <1>1, <1>2, <2>2, <3>1, <4>1, <4>3
      <4>4. CASE q \in States \ {s, t}
        BY <2>2, <3>1, <4>1, <4>4
      <4> QED
        BY <4>2, <4>3, <4>4
    <3>3. VaultBalances'
      BY <3>2 DEF VaultBalances
    <3> QED
      BY <1>6, <3>3
  <2>5. CASE PaidIntoItself
    BY <1>7, <2>5
  <2> QED
    BY <2>3, <2>4, <2>5 DEF PaidClaim
<1> QED
  BY <1>4, <1>7, <1>8

-----------------------------------------------------------------------------
(* The theorems *)

LEMMA RewardsInvInit == RewardsStart => RewardsInv
<1> SUFFICES ASSUME RewardsStart, RewardsInit PROVE RewardsInv
  BY DEF RewardsStart
<1>1. RewardsTypeOK
  BY RewardsTypeInit
<1>2. NoOverpayment
  BY DEF RewardsInit, NoOverpayment
<1>3. \A s \in States : SumOver(Owners, received[s]) = 0
  <2>1. ASSUME NEW s \in States PROVE Units(Owners, received[s]) = {}
    BY DEF Units, RewardsInit
  <2> QED
    BY <2>1, FS_EmptySet DEF SumOver
<1>4. VaultBalances
  BY <1>3 DEF RewardsInit, VaultBalances
<1> QED
  BY <1>1, <1>2, <1>4 DEF RewardsInv

LEMMA RewardsInvStep == RewardsInv /\ [RewardsNext]_allVars => RewardsInv'
<1> SUFFICES ASSUME RewardsInv, [RewardsNext]_allVars PROVE RewardsInv'
  OBVIOUS
<1>1. RewardsTypeOK'
  BY RewardsTypeStep DEF RewardsInv
<1>2. \A s \in States : everLive[s] \subseteq everLive'[s]
  BY DEF RewardsNext, ObserveLive, allVars, rewardsVars
<1>3. CASE UNCHANGED allVars
  <2>1. NoClaim
    BY <1>3 DEF allVars, rewardsVars, NoClaim
  <2> QED
    BY <1>1, <1>2, <2>1, NoClaimPreserves DEF RewardsInv
<1>4. CASE RewardsNext
  <2>1. RewardsTypeOK /\ VaultBalances /\ NoOverpayment /\ ObserveLive
    BY <1>4 DEF RewardsInv, RewardsNext
  <2>2. CASE NoClaim
    BY <1>1, <1>2, <2>1, <2>2, NoClaimPreserves DEF RewardsInv
  <2>3. ASSUME NEW s \in States, NEW o \in Owners, NEW u \in Nat, PaidClaim(s, o, u)
        PROVE  RewardsInv'
    BY <1>1, <2>1, <2>3, PaidClaimPreserves DEF RewardsInv
  <2> QED
    BY <1>4, <2>1, <2>2, <2>3, ClaimOrNoClaim
<1> QED
  BY <1>3, <1>4

THEOREM RewardsInvCorrect == RewardsSpec => []RewardsInv
<1> QED
  BY RewardsInvInit, RewardsInvStep, PTL DEF RewardsSpec

\* What a vault holds and what was drawn from it make up what was deposited.
THEOREM VaultBalancesCorrect == RewardsSpec => []VaultBalances
<1>1. RewardsInv => VaultBalances
  BY DEF RewardsInv
<1> QED
  BY <1>1, RewardsInvCorrect, PTL

\* No owner draws more from a vault than one leaf promised it in total.
THEOREM NoOverpaymentCorrect == RewardsSpec => []NoOverpayment
<1>1. RewardsInv => NoOverpayment
  BY DEF RewardsInv
<1> QED
  BY <1>1, RewardsInvCorrect, PTL

\* A vault is debited only for one owner's claim, backed by a live leaf.
THEOREM PayoutIsBackedCorrect == RewardsSpec => PayoutIsBacked
<1> DEFINE Backed ==
      \A s \in States :
          /\ \A o \in Owners : claimed'[s][o] # claimed[s][o] =>
                /\ claimed'[s][o] > claimed[s][o]
                /\ <<o, claimed'[s][o]>> \in LiveTree(s)
          /\ balance'[s] < balance[s] => \E o \in Owners :
                claimed'[s] = [claimed[s] EXCEPT ![o] = @ + (balance[s] - balance'[s])]
<1>1. ASSUME RewardsInv, [RewardsNext]_allVars PROVE Backed
  <2>1. /\ \A q \in States : balance[q] \in Nat /\ balance'[q] \in Nat
        /\ \A q \in States, p \in Owners : claimed[q][p] \in Nat
        /\ balance \in [States -> Nat]
        /\ claimed \in [States -> [Owners -> Nat]]
    <3>1. RewardsTypeOK /\ RewardsTypeOK'
      BY <1>1, RewardsTypeStep DEF RewardsInv
    <3> QED
      BY <3>1 DEF RewardsTypeOK
  <2>2. CASE NoClaim
    <3>1. ASSUME NEW q \in States PROVE ~(balance'[q] < balance[q])
      <4>1. CASE balance' = balance
        BY <2>1, <4>1
      <4>2. ASSUME NEW t \in States, NEW amount \in Nat, balance' = [balance EXCEPT ![t] = @ + amount]
            PROVE  ~(balance'[q] < balance[q])
        BY <2>1, <4>2
      <4> QED
        BY <2>2, <4>1, <4>2 DEF NoClaim
    <3> QED
      BY <2>2, <3>1 DEF NoClaim
  <2>3. ASSUME NEW q \in States, NEW p \in Owners, NEW u \in Nat, PaidClaim(q, p, u) PROVE Backed
    <3>1. /\ claimed'[q] = [claimed[q] EXCEPT ![p] = @ + u]
          /\ claimed'[q][p] = claimed[q][p] + u
          /\ \A s \in States, o \in Owners : s # q \/ o # p => claimed'[s][o] = claimed[s][o]
      BY <2>1, <2>3 DEF PaidClaim
    <3>2. /\ balance'[q] = balance[q] \/ balance'[q] = balance[q] - u
          /\ \A s \in States \ {q} : ~(balance'[s] < balance[s])
      <4>1. CASE PaidIntoItself
        BY <2>1, <4>1 DEF PaidIntoItself
      <4>2. CASE PaidOut(q, p, u)
        BY <2>1, <4>2 DEF PaidOut
      <4>3. ASSUME NEW t \in States \ {q}, PaidAcross(q, t, p, u)
            PROVE  /\ balance'[q] = balance[q] \/ balance'[q] = balance[q] - u
                   /\ \A s \in States \ {q} : ~(balance'[s] < balance[s])
        BY <2>1, <4>3 DEF PaidAcross
      <4> QED
        BY <2>3, <4>1, <4>2, <4>3 DEF PaidClaim
    <3>3. u > 0 /\ <<p, claimed[q][p] + u>> \in LiveTree(q)
      BY <2>3 DEF PaidClaim
    <3>4. ASSUME NEW s \in States, NEW o \in Owners, claimed'[s][o] # claimed[s][o]
          PROVE  claimed'[s][o] > claimed[s][o] /\ <<o, claimed'[s][o]>> \in LiveTree(s)
      <4>1. s = q /\ o = p
        BY <3>1, <3>4
      <4>2. claimed'[q][p] > claimed[q][p]
        BY <2>1, <3>1, <3>3
      <4>3. <<p, claimed'[q][p]>> \in LiveTree(q)
        BY <3>1, <3>3
      <4> QED
        BY <4>1, <4>2, <4>3
    <3>5. ASSUME NEW s \in States, balance'[s] < balance[s]
          PROVE  \E o \in Owners : claimed'[s] = [claimed[s] EXCEPT ![o] = @ + (balance[s] - balance'[s])]
      <4>1. s = q
        BY <3>2, <3>5
      <4>2. balance[s] - balance'[s] = u
        BY <2>1, <3>2, <3>5, <4>1
      <4> QED
        BY <3>1, <4>1, <4>2
    <3> QED
      BY <3>4, <3>5
  <2> QED
    BY <1>1, <2>2, <2>3, ClaimOrNoClaim DEF RewardsInv
<1>2. RewardsInv /\ [RewardsNext]_allVars => [Backed]_allVars
  BY <1>1
<1> QED
  BY <1>2, RewardsInvCorrect, PTL DEF RewardsSpec, PayoutIsBacked

-----------------------------------------------------------------------------
(* Cumulative publishing                                                   *)

\* Every owner that claimed has a live leaf for at least what it claimed: an owner
\* with no leaf would be locked out by the next tree that gives it a small one.
ClaimedIsCovered ==
    \A s \in States, o \in Owners :
        claimed[s][o] > 0 =>
            \E leaf \in LiveTree(s) : leaf[1] = o /\ leaf[2] >= claimed[s][o]

LEMMA ClaimedIsCoveredInit == RewardsInit => ClaimedIsCovered
BY DEF RewardsInit, ClaimedIsCovered

LEMMA ClaimedIsCoveredStep ==
    ASSUME RewardsTypeOK, RewardsTypeOK', ClaimedIsCovered, [RewardsNext /\ RootsGrow]_allVars
    PROVE  ClaimedIsCovered'
<1> SUFFICES ASSUME NEW s \in States, NEW o \in Owners, claimed'[s][o] > 0
             PROVE  \E leaf \in LiveTree(s)' : leaf[1] = o /\ leaf[2] >= claimed'[s][o]
  BY DEF ClaimedIsCovered
<1>1. /\ claimed[s][o] \in Nat /\ claimed'[s][o] \in Nat
      /\ \A leaf \in LiveTree(s) : leaf[2] \in Nat
      /\ \A leaf \in LiveTree(s)' : leaf[2] \in Nat
  <2>1. LiveTree(s)' \subseteq Leaves
    <3>1. CoreTypeOK'
      BY DEF RewardsTypeOK, CoreTypeOK
    <3> QED
      BY <3>1, LiveTreeTypeAfter
  <2> QED
    BY <2>1, LiveTreeType DEF RewardsTypeOK
<1>2. Dominates(LiveTree(s)', LiveTree(s))
  <2>1. CASE RootsGrow
    BY <2>1 DEF RootsGrow
  <2>2. CASE UNCHANGED allVars
    <3>1. LiveTree(s)' = LiveTree(s)
      BY <2>2 DEF allVars, rewardsVars, LiveTree
    <3> QED
      BY <1>1, <3>1 DEF Dominates
  <2> QED
    BY <2>1, <2>2
<1>3. CASE claimed'[s][o] = claimed[s][o]
  <2>1. PICK leaf \in LiveTree(s) : leaf[1] = o /\ leaf[2] >= claimed[s][o]
    BY <1>3 DEF ClaimedIsCovered
  <2>2. PICK other \in LiveTree(s)' : other[1] = o /\ other[2] >= leaf[2]
    BY <1>2, <2>1 DEF Dominates
  <2> QED
    BY <1>1, <1>3, <2>1, <2>2
<1>4. CASE claimed'[s][o] # claimed[s][o]
  <2>1. PICK q \in States, p \in Owners, u \in Nat : PaidClaim(q, p, u)
    BY <1>4, ClaimOrNoClaim DEF NoClaim
  <2>2. q = s /\ p = o /\ claimed'[s][o] = claimed[s][o] + u
    BY <1>4, <2>1 DEF PaidClaim, RewardsTypeOK
  <2>3. <<o, claimed'[s][o]>> \in LiveTree(s)'
    BY <2>1, <2>2 DEF PaidClaim
  <2> QED
    BY <1>1, <2>3
<1> QED
  BY <1>3, <1>4

LEMMA CoveredIsNotLockedOut ==
    ASSUME OneLeafEach, RewardsTypeOK, ClaimedIsCovered PROVE NeverLockedOut
<1> SUFFICES ASSUME NEW s \in States, NEW leaf \in LiveTree(s)
             PROVE  claimed[s][leaf[1]] <= leaf[2]
  BY DEF NeverLockedOut
<1>1. leaf[1] \in Owners /\ leaf[2] \in Nat /\ claimed[s][leaf[1]] \in Nat
  BY LiveTreeType DEF RewardsTypeOK
<1>2. \A other \in LiveTree(s) : other[1] = leaf[1] => other = leaf
  BY LiveTreeType DEF OneLeafEach
<1> QED
  BY <1>1, <1>2 DEF ClaimedIsCovered

\* Where every owner has one leaf and live trees only grow, no claim can meet a
\* total below what was claimed.
THEOREM NeverLockedOutCorrect ==
    ASSUME OneLeafEach PROVE CumulativeSpec => []NeverLockedOut
<1>1. RewardsTypeOK /\ ClaimedIsCovered => NeverLockedOut
  BY CoveredIsNotLockedOut
<1>2. CumulativeSpec => []RewardsTypeOK
  BY RewardsTypeInit, RewardsTypeStep, PTL DEF CumulativeSpec
<1>3. RewardsTypeOK /\ RewardsTypeOK' /\ ClaimedIsCovered /\ [RewardsNext /\ RootsGrow]_allVars
          => ClaimedIsCovered'
  BY ClaimedIsCoveredStep
<1> QED
  BY <1>1, <1>2, <1>3, ClaimedIsCoveredInit, PTL DEF CumulativeSpec, RewardsStart

=============================================================================
