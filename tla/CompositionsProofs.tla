------------------------- MODULE CompositionsProofs -------------------------
(***************************************************************************)
(* Proofs about what DephyNcn is composed with, for every value of the     *)
(* constants: the processes that vote by themselves (MockOperators), and   *)
(* the program that pays by the published roots (NcnRewards).  The two     *)
(* share DephyNcn and nothing else; there is a part about each.            *)
(***************************************************************************)
EXTENDS MockOperators, NcnRewards, DephyNcnProofs

-----------------------------------------------------------------------------
(* Steps of the processes                                                  *)

\* What a step does that is no vote: the program's state is as before, or changes
\* as the network is set up or the environment goes on.
LEMMA MockStepCases ==
    ASSUME MockTypeOK, [MockNext]_mockVars
    PROVE  \/ UNCHANGED vars
           \/ Setup \/ Environment
           \/ \E o \in Operators, e \in Epochs :
                  Vote(OperatorAdmin[o], o, VaultOf[o], MockedRoot[e])
<1>1. CASE UNCHANGED mockVars
  BY <1>1 DEF mockVars
<1>2. ASSUME NEW o \in Operators, Client(o) PROVE UNCHANGED vars
  BY <1>2 DEF Client, Start, Poll, Send, FailToSend, Confirm, GiveUp, Crash
<1>3. ASSUME NEW o \in Operators, Network(o)
      PROVE  \/ UNCHANGED vars
             \/ \E e \in Epochs : Vote(OperatorAdmin[o], o, VaultOf[o], MockedRoot[e])
  <2>1. seen[o] \in Epochs
    BY DEF MockTypeOK
  <2> QED
    BY <1>3, <2>1 DEF Network, CatchUp, Land, Drop, LandStray, DropStray
<1> QED
  BY <1>1, <1>2, <1>3 DEF MockNext

LEMMA MockStepIsNcnStep == MockTypeOK /\ [MockNext]_mockVars => [Next]_vars
<1> SUFFICES ASSUME MockTypeOK, [MockNext]_mockVars PROVE [Next]_vars
  OBVIOUS
<1>1. ASSUME NEW o \in Operators, NEW e \in Epochs,
             Vote(OperatorAdmin[o], o, VaultOf[o], MockedRoot[e])
      PROVE  Voting
  <2>1. OperatorAdmin[o] \in Signers /\ VaultOf[o] \in Vaults /\ MockedRoot[e] \in Roots
    BY ConstantsAssumption, OperatorsAssumption
  <2> QED
    BY <1>1, <2>1 DEF Voting
<1> QED
  BY <1>1, MockStepCases DEF Next

\* The transactions astray stay within their bound.
LEMMA StrayedType ==
    ASSUME MockTypeOK, NEW o \in Operators, strays' = Strayed(o), strays'[o][seen[o]] <= MaxStrays
    PROVE  strays' \in [Operators -> [Epochs -> 0..MaxStrays]]
<1>1. /\ seen[o] \in Epochs /\ strays[o][seen[o]] \in Nat /\ MaxStrays \in Nat
      /\ strays \in [Operators -> [Epochs -> 0..MaxStrays]]
  BY OperatorsAssumption DEF MockTypeOK
<1>2. CASE strays' = strays
  BY <1>1, <1>2
<1>3. CASE strays' = [strays EXCEPT ![o][seen[o]] = @ + 1]
  <2>1. strays'[o][seen[o]] = strays[o][seen[o]] + 1
    BY <1>1, <1>3
  <2>2. strays[o][seen[o]] + 1 \in 0..MaxStrays
    BY <1>1, <2>1
  <2> QED
    BY <1>1, <1>3, <2>2
<1> QED
  BY <1>2, <1>3 DEF Strayed

\* What is late stays pairs of epochs.
LEMMA LateType ==
    ASSUME TypeOK, MockTypeOK, NEW e \in Epochs PROVE LateWith(e) \subseteq Epochs \X Epochs
<1>1. <<epoch, e>> \in Epochs \X Epochs
  BY DEF TypeOK
<1> QED
  BY <1>1 DEF MockTypeOK, LateWith

LEMMA MockTypeStep == TypeOK /\ MockTypeOK /\ [MockNext]_mockVars => MockTypeOK'
<1> SUFFICES ASSUME TypeOK, MockTypeOK, [MockNext]_mockVars PROVE MockTypeOK'
  OBVIOUS
<1>1. CASE UNCHANGED clientVars
  BY <1>1 DEF clientVars, MockTypeOK
<1>2. ASSUME NEW o \in Operators, Client(o) PROVE MockTypeOK'
  <2>1. CASE Start(o)
    BY <2>1 DEF Start, MockTypeOK, TypeOK
  <2>2. CASE Poll(o)
    BY <2>2 DEF Poll, MockTypeOK, TypeOK
  <2>0. 0 \in Epochs
    BY ConstantsAssumption DEF Epochs
  <2>3. CASE Send(o) \/ FailToSend(o)
    <3>1. CASE Send(o)
      BY <3>1 DEF Send, MockTypeOK
    <3>2. CASE FailToSend(o)
      BY <2>0, <3>2 DEF FailToSend, MockTypeOK
    <3> QED
      BY <2>3, <3>1, <3>2
  <2>4. CASE Confirm(o)
    BY <2>0, <2>4 DEF Confirm, MockTypeOK
  <2>5. CASE GiveUp(o)
    <3>1. strays' \in [Operators -> [Epochs -> 0..MaxStrays]]
      BY <2>5, StrayedType DEF GiveUp
    <3> QED
      BY <2>0, <2>5, <3>1 DEF GiveUp, MockTypeOK
  <2>6. CASE Crash(o)
    <3>1. strays' \in [Operators -> [Epochs -> 0..MaxStrays]]
      BY <2>6, StrayedType DEF Crash
    <3> QED
      BY <2>0, <2>6, <3>1 DEF Crash, MockTypeOK
  <2> QED
    BY <1>2, <2>1, <2>2, <2>3, <2>4, <2>5, <2>6 DEF Client
<1>3. ASSUME NEW o \in Operators, Network(o) PROVE MockTypeOK'
  <2>1. CASE CatchUp(o) \/ Drop(o)
    BY <2>1 DEF CatchUp, Drop, MockTypeOK
  <2>3. CASE Land(o)
    <3>1. late' \subseteq Epochs \X Epochs
      BY <2>3, LateType DEF Land, MockTypeOK
    <3> QED
      BY <2>3, <3>1 DEF Land, MockTypeOK
  <2>2. ASSUME NEW e \in Epochs, LandStray(o, e) \/ DropStray(o, e) PROVE MockTypeOK'
    <3>1. strays[o][e] \in 0..MaxStrays /\ strays[o][e] > 0 /\ MaxStrays \in Nat
      BY <2>2, OperatorsAssumption DEF LandStray, DropStray, MockTypeOK
    <3>2. strays[o][e] - 1 \in 0..MaxStrays
      BY <3>1
    <3>3. /\ strays' = [strays EXCEPT ![o][e] = @ - 1]
          /\ pc' = pc /\ known' = known /\ seen' = seen /\ sent' = sent /\ served' = served
      BY <2>2 DEF LandStray, DropStray
    <3>4. strays' \in [Operators -> [Epochs -> 0..MaxStrays]]
      BY <3>2, <3>3 DEF MockTypeOK
    <3>5. late' \subseteq Epochs \X Epochs
      BY <2>2, LateType DEF LandStray, DropStray, MockTypeOK
    <3> QED
      BY <3>3, <3>4, <3>5 DEF MockTypeOK
  <2> QED
    BY <1>3, <2>1, <2>2, <2>3 DEF Network
<1> QED
  BY <1>1, <1>2, <1>3 DEF MockNext, mockVars

LEMMA MockTypeInit == MockInit => MockTypeOK
<1>1. 0 \in Epochs /\ 0 \in 0..MaxStrays
  BY ConstantsAssumption, OperatorsAssumption DEF Epochs
<1> QED
  BY <1>1 DEF MockInit, MockTypeOK

\* The processes and the network only ever do to the program what it allows; what
\* is proved of it holds here.
THEOREM MockImplementsNcn == MockSpec => Spec /\ []MockTypeOK
<1>1. MockInit => Init
  BY DEF MockInit
<1>2. MockSpec => [](TypeOK /\ MockTypeOK)
  <2>1. MockInit => TypeOK /\ MockTypeOK
    BY <1>1, TypeInit, MockTypeInit
  <2>2. TypeOK /\ MockTypeOK /\ [MockNext]_mockVars => (TypeOK /\ MockTypeOK)'
    BY TypeStep, MockTypeStep, MockStepIsNcnStep
  <2> QED
    BY <2>1, <2>2, PTL DEF MockSpec
<1> QED
  BY <1>1, <1>2, MockStepIsNcnStep, PTL DEF MockSpec, Spec

-----------------------------------------------------------------------------
(* What a process believes                                                 *)

\* An epoch that a process has seen, or can see, has come.
SeenIsPast == \A o \in Operators : seen[o] <= epoch /\ served[o] <= epoch

\* A process has a transaction of its own only while it waits for it.
SentIsAwaited == \A o \in Operators : sent[o] # "none" => pc[o] = "confirm"

BelieveInv == MockTypeOK /\ SeenIsPast /\ SentIsAwaited /\ BelievedIsVoted

LEMMA BelieveInit == MockInit => BelieveInv
<1>1. MockInit => SeenIsPast /\ SentIsAwaited /\ BelievedIsVoted
  BY DEF MockInit, Init, SeenIsPast, SentIsAwaited, BelievedIsVoted
<1> QED
  BY <1>1, MockTypeInit DEF BelieveInv

\* The program's records, as far as the processes rely on them, only advance.
LEMMA RecordsAdvance ==
    ASSUME Inv, [Next]_vars
    PROVE  /\ epoch' >= epoch
           /\ \A o \in Operators : lastVotedEpoch'[o] >= lastVotedEpoch[o]
<1>1. epoch \in Nat /\ \A o \in Operators : lastVotedEpoch[o] \in Nat
  BY ConstantsAssumption DEF Inv, TypeOK, Epochs
<1>2. CASE Quiet
  BY <1>1, <1>2 DEF Quiet
<1>3. ASSUME NEW signer \in Signers, NEW o \in Operators, NEW v \in Vaults, NEW root \in Roots,
             Vote(signer, o, v, root)
      PROVE  /\ epoch' >= epoch
             /\ \A p \in Operators : lastVotedEpoch'[p] >= lastVotedEpoch[p]
  BY <1>1, <1>3 DEF Vote, Eligible, Inv, TypeOK
<1> QED
  BY <1>2, <1>3, QuietOrVote

LEMMA BelieveStep ==
    ASSUME Inv, Inv', BelieveInv, [MockNext]_mockVars
    PROVE  BelieveInv'
<1>1. MockTypeOK'
  BY MockTypeStep DEF BelieveInv, Inv
<1>2. /\ epoch' >= epoch
      /\ \A o \in Operators : lastVotedEpoch'[o] >= lastVotedEpoch[o]
  BY RecordsAdvance, MockStepIsNcnStep DEF BelieveInv
<1>3. /\ epoch \in Nat /\ epoch' \in Nat
      /\ \A o \in Operators : /\ lastVotedEpoch[o] \in Nat /\ lastVotedEpoch'[o] \in Nat
                              /\ known[o] \in Nat /\ seen[o] \in Nat /\ served[o] \in Nat
  BY ConstantsAssumption DEF Inv, TypeOK, BelieveInv, MockTypeOK, Epochs
<1>4. SentIsAwaited'
  BY DEF BelieveInv, MockTypeOK, SentIsAwaited, MockNext, mockVars, clientVars, Client, Network,
         Start, Poll, Send, FailToSend, Confirm, GiveUp, Crash,
         CatchUp, Land, Drop, LandStray, DropStray
<1> USE DEF BelieveInv, MockTypeOK, SeenIsPast, SentIsAwaited, BelievedIsVoted
<1>5. CASE UNCHANGED clientVars
  BY <1>1, <1>2, <1>3, <1>5 DEF clientVars
<1>6. ASSUME NEW p \in Operators, Client(p) PROVE SeenIsPast' /\ BelievedIsVoted'
  <2>1. CASE Start(p)
    <3>1. /\ sent' = sent /\ seen' = seen /\ served' = served
          /\ known'[p] <= lastVotedEpoch[p] /\ known'[p] \in Nat
          /\ \A o \in Operators \ {p} : known'[o] = known[o]
      BY <2>1 DEF Start, Epochs
    <3>2. ASSUME NEW o \in Operators PROVE known'[o] <= lastVotedEpoch'[o]
      BY <1>2, <1>3, <3>1
    <3> QED
      BY <1>2, <1>3, <3>1, <3>2
  <2>2. CASE Poll(p)
    <3>1. /\ sent' = sent /\ known' = known /\ served' = served
          /\ sent[p] # "landed" /\ seen'[p] = served[p]
          /\ \A o \in Operators \ {p} : seen'[o] = seen[o]
      BY <2>2 DEF Poll
    <3>2. ASSUME NEW o \in Operators
          PROVE  /\ seen'[o] <= epoch' /\ served[o] <= epoch'
                 /\ known[o] <= lastVotedEpoch'[o]
                 /\ sent[o] = "landed" => seen'[o] <= lastVotedEpoch'[o]
      <4>1. CASE o = p
        BY <1>2, <1>3, <3>1, <4>1
      <4>2. CASE o # p
        BY <1>2, <1>3, <3>1, <4>2
      <4> QED
        BY <4>1, <4>2
    <3> QED
      BY <3>1, <3>2
  <2>3. CASE Send(p) \/ FailToSend(p)
    <3>1. /\ known' = known /\ served' = served
          /\ \A o \in Operators : /\ seen'[o] \in {seen[o], 0}
                                  /\ sent'[o] = "landed" => sent[o] = "landed"
      BY <2>3 DEF Send, FailToSend
    <3>2. ASSUME NEW o \in Operators
          PROVE  /\ seen'[o] <= epoch' /\ served[o] <= epoch' /\ known[o] <= lastVotedEpoch'[o]
                 /\ sent'[o] = "landed" => seen'[o] <= lastVotedEpoch'[o]
      <4>1. seen'[o] \in {seen[o], 0} /\ (sent'[o] = "landed" => sent[o] = "landed")
        BY <3>1
      <4> QED
        BY <1>2, <1>3, <4>1
    <3> QED
      BY <3>1, <3>2
  <2>4. CASE Confirm(p)
    BY <1>2, <1>3, <2>4 DEF Confirm
  <2>5. CASE GiveUp(p)
    BY <1>2, <1>3, <2>5 DEF GiveUp
  <2>6. CASE Crash(p)
    BY <1>2, <1>3, <2>6, SMTT(30) DEF Crash
  <2> QED
    BY <1>6, <2>1, <2>2, <2>3, <2>4, <2>5, <2>6 DEF Client
<1>7. ASSUME NEW p \in Operators, Network(p) PROVE SeenIsPast' /\ BelievedIsVoted'
  <2>1. CASE Land(p)
    <3>1. seen[p] <= epoch /\ lastVotedEpoch'[p] = epoch
      BY <2>1 DEF Land, Vote, Inv, TypeOK
    <3>2. /\ known' = known /\ seen' = seen /\ served' = served
          /\ \A o \in Operators \ {p} : sent'[o] = sent[o]
      BY <2>1 DEF Land
    <3>3. ASSUME NEW o \in Operators
          PROVE  /\ seen[o] <= epoch' /\ served[o] <= epoch'
                 /\ known[o] <= lastVotedEpoch'[o]
                 /\ sent'[o] = "landed" => seen[o] <= lastVotedEpoch'[o]
      <4>1. CASE o = p
        BY <1>2, <1>3, <3>1, <4>1
      <4>2. CASE o # p
        BY <1>2, <1>3, <3>2, <4>2
      <4> QED
        BY <4>1, <4>2
    <3> QED
      BY <3>2, <3>3
  <2>2. CASE Drop(p)
    <3>1. /\ seen' = seen /\ known' = known /\ served' = served
          /\ \A o \in Operators : sent'[o] = "landed" => sent[o] = "landed"
      BY <2>2 DEF Drop
    <3> QED
      BY <1>2, <1>3, <3>1
  <2>3. ASSUME NEW e \in Epochs, LandStray(p, e) \/ DropStray(p, e)
        PROVE  SeenIsPast' /\ BelievedIsVoted'
    <3>1. known' = known /\ seen' = seen /\ sent' = sent /\ served' = served
      BY <2>3 DEF LandStray, DropStray
    <3> QED
      BY <1>2, <1>3, <3>1
  <2>4. CASE CatchUp(p)
    <3>1. known' = known /\ seen' = seen /\ sent' = sent /\ epoch' = epoch
      BY <2>4 DEF CatchUp, vars
    <3>2. ASSUME NEW o \in Operators PROVE served'[o] <= epoch
      BY <1>3, <2>4 DEF CatchUp
    <3> QED
      BY <1>2, <1>3, <3>1, <3>2
  <2> QED
    BY <1>7, <2>1, <2>2, <2>3, <2>4 DEF Network
<1> QED
  BY <1>1, <1>4, <1>5, <1>6, <1>7 DEF MockNext, mockVars

\* However votes are lost, delayed, repeated or confirmed too late, and whenever a
\* process crashes, it never takes an epoch for voted in that it has still to vote in.
THEOREM BelievedCorrect == MockSpec => []BelievedIsVoted
<1>1. BelieveInv => BelievedIsVoted
  BY DEF BelieveInv
<1>2. Inv /\ Inv' /\ BelieveInv /\ [MockNext]_mockVars => BelieveInv'
  BY BelieveStep
<1> QED
  BY <1>1, <1>2, BelieveInit, MockImplementsNcn, InvCorrect, PTL DEF MockSpec

-----------------------------------------------------------------------------
(* What is published, when votes may land late                            *)

\* A process that waits for its vote has seen the epoch it is for.
SentWasSeen == \A o \in Operators : pc[o] \in {"vote", "confirm"} => seen[o] > 0

\* A transaction astray is for an epoch that has come, and so is a late vote, which was
\* cast in a later one.
StraysArePast ==
    /\ \A o \in Operators, e \in Epochs : strays[o][e] > 0 => e > 0 /\ e <= epoch
    /\ \A pair \in late : pair[2] > 0 /\ pair[2] < pair[1] /\ pair[1] <= epoch

LateInv == BelieveInv /\ SentWasSeen /\ StraysArePast

LEMMA LateInit == MockInit => LateInv
<1>1. MockInit => SentWasSeen /\ StraysArePast
  BY DEF MockInit, SentWasSeen, StraysArePast
<1> QED
  BY <1>1, BelieveInit DEF LateInv

\* A vote for the root of an epoch that has come is at most late.
LEMMA LateGrows ==
    ASSUME Inv, LateInv, NEW e \in Epochs, e > 0, e <= epoch
    PROVE  \A pair \in LateWith(e) : pair[2] > 0 /\ pair[2] < pair[1] /\ pair[1] <= epoch
<1>1. epoch \in Nat /\ e \in Nat
  BY ConstantsAssumption DEF Inv, TypeOK, Epochs
<1>2. \A pair \in late : pair[2] > 0 /\ pair[2] < pair[1] /\ pair[1] <= epoch
  BY DEF LateInv, StraysArePast
<1>3. CASE e = epoch
  BY <1>2, <1>3 DEF LateWith
<1>4. CASE e # epoch
  <2>1. e < epoch
    BY <1>1, <1>4
  <2>2. LateWith(e) = late \cup {<<epoch, e>>}
    BY <1>4 DEF LateWith
  <2> QED
    BY <1>1, <1>2, <2>1, <2>2
<1> QED
  BY <1>3, <1>4

LEMMA LateStep ==
    ASSUME Inv, Inv', LateInv, [MockNext]_mockVars
    PROVE  LateInv'
<1>1. BelieveInv' /\ MockTypeOK /\ MockTypeOK'
  BY BelieveStep DEF LateInv, BelieveInv
<1>2. epoch' >= epoch
  BY RecordsAdvance, MockStepIsNcnStep, <1>1
<1>3. /\ epoch \in Nat /\ epoch' \in Nat
      /\ \A o \in Operators : known[o] \in Nat /\ seen[o] \in Nat /\ served[o] \in Nat
      /\ \A o \in Operators, e \in Epochs : strays[o][e] \in Nat
      /\ \A e \in Epochs : e \in Nat
      /\ \A pair \in late : pair[1] \in Nat /\ pair[2] \in Nat
  BY <1>1, ConstantsAssumption, OperatorsAssumption DEF Inv, TypeOK, MockTypeOK, Epochs
<1>4. SeenIsPast /\ SentWasSeen /\ SentIsAwaited /\ StraysArePast
  BY DEF LateInv, BelieveInv
<1>5. ASSUME late' = late, \A o \in Operators, e \in Epochs : strays'[o][e] > 0 => e > 0 /\ e <= epoch
      PROVE  StraysArePast'
  BY <1>2, <1>3, <1>4, <1>5 DEF StraysArePast
<1>6. ASSUME NEW p \in Operators, strays' = Strayed(p), late' = late
      PROVE  StraysArePast'
  <2>1. CASE strays' = strays
    BY <1>4, <1>5, <1>6, <2>1 DEF StraysArePast
  <2>2. CASE sent[p] = "flying" /\ strays' = [strays EXCEPT ![p][seen[p]] = @ + 1]
    <3>1. seen[p] > 0 /\ seen[p] <= epoch
      BY <1>4, <2>2 DEF SeenIsPast, SentWasSeen, SentIsAwaited
    <3>2. ASSUME NEW o \in Operators, NEW e \in Epochs, strays'[o][e] > 0
          PROVE  e > 0 /\ e <= epoch
      <4>1. CASE o = p /\ e = seen[p]
        BY <3>1, <4>1
      <4>2. CASE ~(o = p /\ e = seen[p])
        <5>1. strays'[o][e] = strays[o][e]
          BY <1>1, <2>2, <4>2 DEF MockTypeOK
        <5> QED
          BY <1>4, <3>2, <5>1 DEF StraysArePast
      <4> QED
        BY <4>1, <4>2
    <3> QED
      BY <1>5, <1>6, <3>2
  <2> QED
    BY <1>6, <2>1, <2>2 DEF Strayed
<1>7. CASE UNCHANGED clientVars
  <2>1. SentWasSeen'
    BY <1>4, <1>7 DEF clientVars, SentWasSeen
  <2>2. StraysArePast'
    BY <1>4, <1>5, <1>7 DEF clientVars, StraysArePast
  <2> QED
    BY <1>1, <2>1, <2>2 DEF LateInv
<1>8. ASSUME NEW p \in Operators, Client(p) PROVE SentWasSeen' /\ StraysArePast'
  <2>1. CASE Start(p) \/ Confirm(p) \/ FailToSend(p)
    <3>1. SentWasSeen'
      BY <1>1, <1>4, <2>1 DEF Start, Confirm, FailToSend, SentWasSeen, MockTypeOK
    <3>2. StraysArePast'
      BY <1>4, <1>5, <2>1 DEF Start, Confirm, FailToSend, StraysArePast
    <3> QED
      BY <3>1, <3>2
  <2>2. CASE Poll(p)
    <3>1. served[p] > 0
      BY <1>3, <2>2 DEF Poll
    <3>2. SentWasSeen'
      BY <1>1, <1>4, <2>2, <3>1 DEF Poll, SentWasSeen, MockTypeOK
    <3>3. StraysArePast'
      BY <1>4, <1>5, <2>2 DEF Poll, StraysArePast
    <3> QED
      BY <3>2, <3>3
  <2>3. CASE Send(p)
    <3>1. SentWasSeen'
      BY <1>1, <1>4, <2>3 DEF Send, SentWasSeen, MockTypeOK
    <3>2. StraysArePast'
      BY <1>4, <1>5, <2>3 DEF Send, StraysArePast
    <3> QED
      BY <3>1, <3>2
  <2>4. CASE GiveUp(p) \/ Crash(p)
    <3>1. SentWasSeen'
      BY <1>1, <1>4, <2>4 DEF GiveUp, Crash, SentWasSeen, MockTypeOK
    <3>2. StraysArePast'
      BY <1>6, <2>4 DEF GiveUp, Crash
    <3> QED
      BY <3>1, <3>2
  <2> QED
    BY <1>8, <2>1, <2>2, <2>3, <2>4 DEF Client
<1>9. ASSUME NEW p \in Operators, Network(p) PROVE SentWasSeen' /\ StraysArePast'
  <2>1. SentWasSeen'
    <3>1. pc' = pc /\ seen' = seen
      BY <1>9 DEF Network, CatchUp, Land, Drop, LandStray, DropStray
    <3> QED
      BY <1>4, <3>1 DEF SentWasSeen
  <2>2. CASE CatchUp(p) \/ Drop(p)
    <3>1. strays' = strays /\ late' = late
      BY <2>2 DEF CatchUp, Drop
    <3> QED
      BY <1>2, <1>3, <1>4, <2>1, <3>1 DEF StraysArePast
  <2>3. CASE Land(p)
    <3>1. /\ seen[p] \in Epochs /\ seen[p] > 0 /\ seen[p] <= epoch
          /\ strays' = strays /\ late' = LateWith(seen[p]) /\ epoch' = epoch
      BY <1>1, <1>4, <2>3 DEF Land, Vote, MockTypeOK, SeenIsPast, SentWasSeen, SentIsAwaited
    <3>2. \A pair \in late' : pair[2] > 0 /\ pair[2] < pair[1] /\ pair[1] <= epoch
      BY <3>1, LateGrows
    <3> QED
      BY <1>4, <2>1, <3>1, <3>2 DEF StraysArePast
  <2>4. ASSUME NEW e \in Epochs, LandStray(p, e) \/ DropStray(p, e) PROVE StraysArePast'
    <3>1. strays[p][e] > 0 /\ e > 0 /\ e <= epoch
      BY <1>4, <2>4 DEF LandStray, DropStray, StraysArePast
    <3>2. ASSUME NEW o \in Operators, NEW f \in Epochs, strays'[o][f] > 0
          PROVE  f > 0 /\ f <= epoch
      <4>1. CASE o = p /\ f = e
        BY <3>1, <4>1
      <4>2. CASE ~(o = p /\ f = e)
        <5>1. strays'[o][f] = strays[o][f]
          BY <1>1, <2>4, <4>2 DEF LandStray, DropStray, MockTypeOK
        <5> QED
          BY <1>4, <3>2, <5>1 DEF StraysArePast
      <4> QED
        BY <4>1, <4>2
    <3>3. CASE LandStray(p, e)
      <4>1. late' = LateWith(e) /\ epoch' = epoch
        BY <3>3 DEF LandStray, Vote
      <4>2. \A pair \in late' : pair[2] > 0 /\ pair[2] < pair[1] /\ pair[1] <= epoch
        BY <3>1, <4>1, LateGrows
      <4> QED
        BY <3>2, <4>1, <4>2 DEF StraysArePast
    <3>4. CASE DropStray(p, e)
      BY <1>5, <3>2, <3>4 DEF DropStray
    <3> QED
      BY <2>4, <3>3, <3>4
  <2> QED
    BY <1>9, <2>1, <2>2, <2>3, <2>4 DEF Network
<1> QED
  BY <1>1, <1>7, <1>8, <1>9 DEF LateInv, MockNext, mockVars

\* A step that is no vote leaves the ballot box as it is, and forgets nothing late; a
\* vote is for the root of an epoch that has come, and late if that is not this one.
LEMMA LateStepCases ==
    ASSUME Inv, LateInv, [MockNext]_mockVars
    PROVE  /\ late \subseteq late'
           /\ \/ ballotBox' = ballotBox
              \/ \E o \in Operators, e \in Epochs :
                    /\ e > 0 /\ e <= epoch
                    /\ Vote(OperatorAdmin[o], o, VaultOf[o], MockedRoot[e])
                    /\ late' = LateWith(e)
<1>0. \A e \in Epochs : late \subseteq LateWith(e)
  BY DEF LateWith
<1>1. CASE UNCHANGED mockVars
  BY <1>1 DEF mockVars, vars, clientVars
<1>2. ASSUME Setup \/ Environment, UNCHANGED clientVars PROVE late \subseteq late' /\ ballotBox' = ballotBox
  BY <1>2, QuietStep DEF Quiet, Inv, clientVars
<1>3. ASSUME NEW o \in Operators, Client(o) PROVE late \subseteq late' /\ ballotBox' = ballotBox
  BY <1>3 DEF Client, Start, Poll, Send, FailToSend, Confirm, GiveUp, Crash, vars
<1>4. ASSUME NEW o \in Operators, CatchUp(o) \/ Drop(o) PROVE late \subseteq late' /\ ballotBox' = ballotBox
  BY <1>4 DEF CatchUp, Drop, vars
<1>5. ASSUME NEW o \in Operators, Land(o)
      PROVE  /\ seen[o] \in Epochs /\ seen[o] > 0 /\ seen[o] <= epoch
             /\ Vote(OperatorAdmin[o], o, VaultOf[o], MockedRoot[seen[o]]) /\ late' = LateWith(seen[o])
  BY <1>5 DEF Land, LateInv, BelieveInv, MockTypeOK, SeenIsPast, SentWasSeen, SentIsAwaited
<1>6. ASSUME NEW o \in Operators, NEW e \in Epochs, LandStray(o, e)
      PROVE  /\ e > 0 /\ e <= epoch
             /\ Vote(OperatorAdmin[o], o, VaultOf[o], MockedRoot[e]) /\ late' = LateWith(e)
  BY <1>6 DEF LandStray, LateInv, StraysArePast
<1>7. ASSUME NEW o \in Operators, NEW e \in Epochs, DropStray(o, e)
      PROVE  late \subseteq late' /\ ballotBox' = ballotBox
  BY <1>7 DEF DropStray, vars
<1>8. ASSUME NEW o \in Operators, Network(o)
      PROVE  \/ late \subseteq late' /\ ballotBox' = ballotBox
             \/ \E e \in Epochs : /\ e > 0 /\ e <= epoch
                                  /\ Vote(OperatorAdmin[o], o, VaultOf[o], MockedRoot[e])
                                  /\ late' = LateWith(e)
  BY <1>4, <1>5, <1>6, <1>7, <1>8 DEF Network
<1> QED
  BY <1>0, <1>1, <1>2, <1>3, <1>8 DEF MockNext

\* A root of epoch e, or of an earlier one with which e is among these pairs.
RootIn(pairs, e, root) ==
    \/ root = MockedRoot[e]
    \/ \E earlier \in 1..(e - 1) : <<e, earlier>> \in pairs /\ root = MockedRoot[earlier]

LEMMA RootIsIn ==
    /\ RootIsOfItsEpoch <=>
          /\ ballotBox.epoch > 0 => RootIn(late, ballotBox.epoch, ballotBox.proposedRewardsRoot)
          /\ ballotBox.lastConsensusEpoch > 0 =>
                 RootIn(late, ballotBox.lastConsensusEpoch, ballotBox.rewardsRoot)
    /\ RootIsOfItsEpoch' <=>
          /\ ballotBox'.epoch > 0 => RootIn(late', ballotBox'.epoch, ballotBox'.proposedRewardsRoot)
          /\ ballotBox'.lastConsensusEpoch > 0 =>
                 RootIn(late', ballotBox'.lastConsensusEpoch, ballotBox'.rewardsRoot)
BY DEF RootIsOfItsEpoch, IsRootOf, RootIn

\* What was the root of an epoch remains so: nothing late is forgotten.
LEMMA RootStaysIn ==
    ASSUME NEW pairs, NEW more, pairs \subseteq more, NEW e, NEW root, RootIn(pairs, e, root)
    PROVE  RootIn(more, e, root)
BY DEF RootIn

LEMMA RootStep ==
    ASSUME Inv, LateInv, RootIsOfItsEpoch, [MockNext]_mockVars
    PROVE  RootIsOfItsEpoch'
<1>1. late \subseteq late'
  BY LateStepCases
<1>2. CASE ballotBox' = ballotBox
  BY <1>1, <1>2, RootStaysIn, RootIsIn
<1>3. ASSUME NEW o \in Operators, NEW e \in Epochs, e > 0, e <= epoch,
             Vote(OperatorAdmin[o], o, VaultOf[o], MockedRoot[e]), late' = LateWith(e)
      PROVE  RootIsOfItsEpoch'
  <2>1. /\ epoch \in Nat /\ e \in Nat /\ ballotBox.epoch \in Nat /\ ballotBox.lastConsensusEpoch \in Nat
        /\ OperatorAdmin[o] \in Signers /\ VaultOf[o] \in Vaults /\ MockedRoot[e] \in Roots
    BY ConstantsAssumption, OperatorsAssumption DEF Inv, TypeOK, BallotBoxes, Epochs
  <2>2. /\ ballotBox'.epoch = epoch
        /\ epoch > ballotBox.epoch \/ epoch = ballotBox.epoch
        /\ ballotBox'.proposedRewardsRoot
               = IF epoch > ballotBox.epoch THEN MockedRoot[e] ELSE ballotBox.proposedRewardsRoot
        /\ \/ /\ ballotBox'.lastConsensusEpoch = epoch
              /\ ballotBox'.rewardsRoot = ballotBox'.proposedRewardsRoot
           \/ /\ ballotBox'.lastConsensusEpoch = ballotBox.lastConsensusEpoch
              /\ ballotBox'.rewardsRoot = ballotBox.rewardsRoot
        /\ epoch > 0
    BY <1>3, <2>1, VoteEffect DEF Inv
  <2>3. RootIn(late', epoch, MockedRoot[e])
    <3>1. CASE e = epoch
      BY <3>1 DEF RootIn
    <3>2. CASE e # epoch
      <4>1. e \in 1..(epoch - 1) /\ <<epoch, e>> \in late'
        BY <1>3, <2>1, <3>2 DEF LateWith
      <4> QED
        BY <4>1 DEF RootIn
    <3> QED
      BY <3>1, <3>2
  <2>4. RootIn(late', epoch, ballotBox'.proposedRewardsRoot)
    <3>1. CASE epoch > ballotBox.epoch
      BY <2>2, <2>3, <3>1
    <3>2. CASE epoch = ballotBox.epoch
      <4>1. RootIn(late, epoch, ballotBox.proposedRewardsRoot)
        BY <2>2, <3>2, RootIsIn
      <4>2. ballotBox'.proposedRewardsRoot = ballotBox.proposedRewardsRoot
        BY <2>1, <2>2, <3>2
      <4> QED
        BY <1>1, <4>1, <4>2, RootStaysIn
    <3> QED
      BY <2>2, <3>1, <3>2
  <2>5. ballotBox'.lastConsensusEpoch > 0 =>
           RootIn(late', ballotBox'.lastConsensusEpoch, ballotBox'.rewardsRoot)
    <3>1. ballotBox.lastConsensusEpoch > 0 =>
             RootIn(late', ballotBox.lastConsensusEpoch, ballotBox.rewardsRoot)
      BY <1>1, RootStaysIn, RootIsIn
    <3> QED
      BY <2>2, <2>4, <3>1
  <2> QED
    BY <2>2, <2>4, <2>5, RootIsIn
<1> QED
  BY <1>2, <1>3, LateStepCases

\* What an epoch proposes and publishes is its own root, or that of an earlier epoch of
\* which a vote landed late in it, whatever is lost, delayed or repeated and whenever
\* processes crash (mock_operator.ts:63, vote.rs:86-115).
THEOREM RootCorrect == MockSpec => []RootIsOfItsEpoch
<1>1. MockInit => RootIsOfItsEpoch
  BY DEF MockInit, Init, EmptyBallotBox, RootIsOfItsEpoch
<1>2. Inv /\ Inv' /\ LateInv /\ [MockNext]_mockVars => LateInv'
  BY LateStep
<1>3. Inv /\ LateInv /\ RootIsOfItsEpoch /\ [MockNext]_mockVars => RootIsOfItsEpoch'
  BY RootStep
<1> QED
  BY <1>1, <1>2, <1>3, LateInit, MockImplementsNcn, InvCorrect, PTL DEF MockSpec

-----------------------------------------------------------------------------
(* The system implements each of the two programs                          *)

\* What is proved of Rewards holds of its instance in the system.
RP == INSTANCE RewardsProofs WITH Trees <- Roots, slotData <- BallotSlots

\* The operators cast and the ballot box publishes as they do without rewards.
THEOREM SystemImplementsNcn == SystemSpec => Spec
<1>1. SystemInit => Init
  BY DEF SystemInit
<1>2. [SystemNext]_systemVars => [Next]_vars
  BY DEF SystemNext, NcnStep, RewardsStep, systemVars
<1> QED
  BY <1>1, <1>2, PTL DEF SystemSpec, Spec

\* R and RP name the same definitions.
LEMMA SameInit == R!RewardsInit <=> RP!RewardsInit
BY DEF R!RewardsInit, RP!RewardsInit, R!Inplace, RP!Inplace

LEMMA SameLiveTree ==
    ASSUME NEW s PROVE R!LiveTree(s) = RP!LiveTree(s) /\ R!LiveTree(s)' = RP!LiveTree(s)'
BY DEF R!LiveTree, RP!LiveTree

LEMMA SameObserveLive == R!ObserveLive <=> RP!ObserveLive
BY DEF R!ObserveLive, RP!ObserveLive, R!LiveTree, RP!LiveTree

LEMMA SameFunding == R!Funding <=> RP!Funding
BY DEF R!Funding, RP!Funding, R!Fund, RP!Fund, R!Exists, RP!Exists,
       R!configVars, RP!configVars

LEMMA SameInstructions == R!Instructions <=> RP!Instructions
<1> USE DEF R!Exists, RP!Exists, R!Inplace, RP!Inplace, R!External, RP!External,
            R!configVars, RP!configVars, R!tokenVars, RP!tokenVars, R!historyVars, RP!historyVars
<1> QED
  BY DEF R!Instructions, RP!Instructions, R!Initialize, RP!Initialize,
         R!InitializeRewardsState, RP!InitializeRewardsState,
         R!UpdateMerkleRoot, RP!UpdateMerkleRoot, R!MerkleRoots, RP!MerkleRoots,
         R!UpdateAuthority, RP!UpdateAuthority,
         R!ClaimRewards, RP!ClaimRewards, R!Claimable, RP!Claimable, R!Transfer, RP!Transfer,
         R!Unclaimed, RP!Unclaimed, R!Recorded, RP!Recorded, R!LiveTree, RP!LiveTree

\* The roots in the ballot box are trees, so its two slots are legal slots.
LEMMA BallotSlotsType == TypeOK => BallotSlots \in [Slots -> Roots]
BY DEF TypeOK, BallotBoxes, BallotSlots

\* A step of the system is one of the rewards program, or its ballot box writes.
LEMMA RewardsRefinementStep ==
    ASSUME TypeOK', [SystemNext]_systemVars PROVE [RP!RewardsNext]_(RP!allVars)
<1>1. CASE UNCHANGED systemVars
  BY <1>1 DEF systemVars, accountVars, vars, BallotSlots, RP!allVars, RP!rewardsVars,
              RP!configVars, RP!tokenVars, RP!historyVars
<1>2. CASE NcnStep
  <2>1. RP!WriteSlots(BallotSlots')
    BY <1>2 DEF NcnStep, accountVars, RP!WriteSlots, RP!configVars, RP!tokenVars, RP!historyVars
  <2>2. BallotSlots' \in [Slots -> Roots]
    BY BallotSlotsType DEF TypeOK, BallotBoxes, BallotSlots
  <2>3. RP!ObserveLive
    BY <1>2, SameObserveLive DEF NcnStep
  <2> QED
    BY <2>1, <2>2, <2>3 DEF RP!RewardsNext
<1>3. CASE RewardsStep
  BY <1>3, SameInstructions, SameFunding, SameObserveLive DEF RewardsStep, RP!RewardsNext
<1> QED
  BY <1>1, <1>2, <1>3 DEF SystemNext

\* Claims, vaults and authorities behave as Rewards says, with the ballot box in
\* the place of arbitrary accounts.
THEOREM SystemImplementsRewards == SystemSpec => RP!RewardsSpec
<1>1. SystemInit => RP!RewardsInit /\ BallotSlots \in [Slots -> Roots]
  <2>1. SystemInit => TypeOK
    BY TypeInit DEF SystemInit
  <2> QED
    BY <2>1, SameInit, BallotSlotsType DEF SystemInit
<1>2. TypeOK' /\ [SystemNext]_systemVars => [RP!RewardsNext]_(RP!allVars)
  BY RewardsRefinementStep
<1> QED
  BY <1>1, <1>2, SystemImplementsNcn, TypeCorrect, PTL DEF SystemSpec, RP!RewardsSpec, RP!RewardsStart

-----------------------------------------------------------------------------
(* What is claimable was agreed on                                         *)

\* Where rewards states follow the network, a live tree is the root of the ballot
\* box or empty, and that root was agreed on.
FollowInv ==
    /\ \A s \in States : merkleRoot[s] \in {R!Inplace({}), R!External(RewardsRootSlot)}
    /\ ballotBox.rewardsRoot \in agreed \cup {{}}
    /\ ClaimableWasAgreed

LEMMA FollowingLiveTree ==
    ASSUME FollowInv, NEW s \in States
    PROVE  R!LiveTree(s) \in {{}, ballotBox.rewardsRoot}
BY DEF FollowInv, R!LiveTree, R!Inplace, R!External, BallotSlots, Slots, RewardsRootSlot

\* A root that a vote publishes is one that the voters agreed on in that step.
LEMMA PublishedIsAgreed ==
    ASSUME Inv, Inv', [Next]_vars
    PROVE  ballotBox'.rewardsRoot \in NewlyAgreed \cup {ballotBox.rewardsRoot}
<1>1. CASE ballotBox'.rewardsRoot = ballotBox.rewardsRoot
  BY <1>1
<1>2. CASE ballotBox'.rewardsRoot # ballotBox.rewardsRoot
  <2>0. PICK root \in Roots : root = ballotBox'.proposedRewardsRoot
    BY DEF Inv, TypeOK, BallotBoxes
  <2>1. /\ ballotBox.lastConsensusEpoch < epoch
        /\ ballotBox'.lastConsensusEpoch = epoch
        /\ ballotBox'.rewardsRoot = root
    BY <1>2, <2>0, BackedStep DEF Backed
  <2>2. PICK o \in Counted' : /\ votes'[o] # votes[o]
                              /\ TwoThirds(Weight(Approving)', vrtSupply[votes'[o].vault])
    BY <1>2, BackedStep DEF Backed
  <2>3. o \in Operators
    BY <2>2 DEF Counted
  <2>4. epoch' = epoch /\ epoch \in Nat /\ epoch > 0 /\ ballotBox'.epoch = epoch
    <3>1. PICK signer \in Signers, p \in Operators, v \in Vaults, r \in Roots : Vote(signer, p, v, r)
      BY <2>2, <2>3, QuietOrVote DEF Quiet
    <3>2. epoch' = epoch /\ epoch \in Nat
      BY <3>1, ConstantsAssumption DEF Vote, Inv, TypeOK, Epochs
    <3>3. epoch > 0 /\ ballotBox'.epoch = epoch
      BY <3>1, VoteEffect DEF Inv
    <3> QED
      BY <3>2, <3>3
  <2>5. VotersFor(root)' = Approving'
    BY <2>0, <2>4 DEF VotersFor, Approving, Counted
  <2>6. VotersFor(root)' # {}
    BY <2>4, <2>5 DEF Inv, PublishedRootIsVoted
  <2>7. TwoThirds(Weight(VotersFor(root))', vrtSupply[votes'[o].vault])
    BY <2>2, <2>5 DEF Weight, VotedAmount
  <2> QED
    BY <2>1, <2>2, <2>3, <2>6, <2>7 DEF NewlyAgreed
<1> QED
  BY <1>1, <1>2

LEMMA FollowInit == SystemInit => FollowInv
BY SystemAssumption DEF SystemInit, Init, EmptyBallotBox, R!RewardsInit, FollowInv, ClaimableWasAgreed

LEMMA FollowStep ==
    ASSUME FollowInv, Inv, Inv', [SystemNext /\ FollowsConsensus]_systemVars
    PROVE  FollowInv'
<1>1. CASE UNCHANGED systemVars
  BY <1>1 DEF systemVars, accountVars, vars, FollowInv, ClaimableWasAgreed
<1>2. CASE SystemNext /\ FollowsConsensus
  <2>1. \A s \in States : merkleRoot'[s] \in {R!Inplace({}), R!External(RewardsRootSlot)}
    BY <1>2 DEF FollowInv, FollowsConsensus
  <2>2. agreed \subseteq agreed'
    BY <1>2 DEF SystemNext, NcnStep, RewardsStep, ObserveAgreement
  <2>3. ballotBox'.rewardsRoot \in agreed' \cup {{}}
    <3>1. CASE NcnStep
      <4>1. ballotBox'.rewardsRoot \in NewlyAgreed \cup {ballotBox.rewardsRoot}
        BY <3>1, PublishedIsAgreed DEF NcnStep
      <4> QED
        BY <3>1, <4>1 DEF NcnStep, ObserveAgreement, FollowInv
    <3>2. CASE RewardsStep
      BY <3>2 DEF RewardsStep, vars, FollowInv
    <3> QED
      BY <1>2, <3>1, <3>2 DEF SystemNext
  <2>4. ASSUME NEW s \in States PROVE R!LiveTree(s)' \in {{}, ballotBox'.rewardsRoot}
    BY <2>1 DEF R!LiveTree, R!Inplace, R!External, BallotSlots, Slots, RewardsRootSlot
  <2>5. everLive' = [s \in States |-> everLive[s] \cup R!LiveTree(s)']
    BY <1>2 DEF SystemNext, NcnStep, RewardsStep, R!ObserveLive
  <2>6. ClaimableWasAgreed'
    <3> SUFFICES ASSUME NEW s \in States, NEW leaf \in everLive'[s]
                 PROVE  \E root \in agreed' : leaf \in root
      BY DEF ClaimableWasAgreed
    <3>1. CASE leaf \in everLive[s]
      BY <2>2, <3>1 DEF FollowInv, ClaimableWasAgreed
    <3>2. CASE leaf \in R!LiveTree(s)'
      BY <2>3, <2>4, <3>2
    <3> QED
      BY <2>5, <3>1, <3>2
  <2> QED
    BY <2>1, <2>3, <2>6 DEF FollowInv
<1> QED
  BY <1>1, <1>2

LEMMA FollowingIsSystem == FollowingSpec => SystemSpec
<1>1. [SystemNext /\ FollowsConsensus]_systemVars => [SystemNext]_systemVars
  OBVIOUS
<1> QED
  BY <1>1, PTL DEF FollowingSpec, SystemSpec

\* Whatever becomes claimable under a state that follows the ballot box was agreed
\* on by operators with two thirds of a vault, in one epoch.
THEOREM ClaimableCorrect == FollowingSpec => []ClaimableWasAgreed
<1>1. FollowInv => ClaimableWasAgreed
  BY DEF FollowInv
<1>2. FollowInv /\ Inv /\ Inv' /\ [SystemNext /\ FollowsConsensus]_systemVars => FollowInv'
  BY FollowStep
<1> QED
  BY <1>1, <1>2, FollowInit, FollowingIsSystem, SystemImplementsNcn, InvCorrect, PTL DEF FollowingSpec

\* What Rewards assumes of its constants.
LEMMA RewardsConstants ==
    /\ RP!IsFiniteSet(Owners)
    /\ NoKey \notin Keys
    /\ Wallet \notin States
    /\ {} \in Roots
    /\ Roots \subseteq SUBSET RP!Leaves
    /\ TokenSupply \in Nat
    /\ Amounts \subseteq Nat
BY SystemAssumption, ConstantsAssumption DEF RP!IsFiniteSet, IsFiniteSet, RP!Leaves

\* So no owner is ever paid more than a root promised it that was agreed on.
THEOREM PaidCorrect == FollowingSpec => []PaidOnlyWhatWasAgreed
<1>1. RP!RewardsSpec => []RP!RewardsInv
  BY RewardsConstants, RP!RewardsInvCorrect, PTL
<1>2. ClaimableWasAgreed /\ RP!RewardsInv => PaidOnlyWhatWasAgreed
  <2> SUFFICES ASSUME ClaimableWasAgreed, RP!RewardsInv,
                      NEW s \in States, NEW o \in Owners, received[s][o] > 0
               PROVE  \E root \in agreed : \E leaf \in root :
                          leaf[1] = o /\ leaf[2] >= received[s][o]
    BY DEF PaidOnlyWhatWasAgreed
  <2>1. received[s][o] \in Nat /\ claimed[s][o] \in Nat
    BY DEF RP!RewardsInv, RP!RewardsTypeOK
  <2>2. received[s][o] <= claimed[s][o] /\ <<o, claimed[s][o]>> \in everLive[s]
    BY <2>1 DEF RP!RewardsInv, RP!NoOverpayment
  <2>3. PICK root \in agreed : <<o, claimed[s][o]>> \in root
    BY <2>2 DEF ClaimableWasAgreed
  <2> QED
    BY <2>1, <2>2, <2>3
<1> QED
  BY <1>1, <1>2, ClaimableCorrect, FollowingIsSystem, SystemImplementsRewards, PTL

-----------------------------------------------------------------------------
(* Nobody is locked out while the first voters' roots grow                 *)

\* A proposal that can still be published promises at least what is published.
ProposalGrows ==
    ballotBox.epoch > ballotBox.lastConsensusEpoch =>
        R!Dominates(ballotBox.proposedRewardsRoot, ballotBox.rewardsRoot)

LEMMA DominatesItself ==
    ASSUME NEW root \in Roots PROVE R!Dominates(root, root)
<1>1. \A leaf \in root : leaf[2] \in Nat
  BY SystemAssumption
<1> QED
  BY <1>1 DEF R!Dominates

LEMMA VoteGrows ==
    ASSUME Inv, Inv', ProposalGrows, FirstVoteGrows,
           NEW signer \in Signers, NEW o \in Operators, NEW v \in Vaults, NEW root \in Roots,
           Vote(signer, o, v, root)
    PROVE  /\ ProposalGrows'
           /\ R!Dominates(ballotBox'.rewardsRoot, ballotBox.rewardsRoot)
<1>1. /\ epoch \in Nat /\ ballotBox.epoch \in Nat /\ ballotBox.lastConsensusEpoch \in Nat
      /\ ballotBox.rewardsRoot \in Roots
  BY ConstantsAssumption DEF Inv, TypeOK, BallotBoxes, Epochs
<1>2. /\ ballotBox'.epoch = epoch
      /\ epoch > ballotBox.epoch \/ epoch = ballotBox.epoch
      /\ ballotBox'.proposedRewardsRoot
             = IF epoch > ballotBox.epoch THEN root ELSE ballotBox.proposedRewardsRoot
  BY VoteEffect DEF Inv
<1>3. \/ /\ epoch > ballotBox.lastConsensusEpoch
         /\ ballotBox'.lastConsensusEpoch = epoch
         /\ ballotBox'.rewardsRoot = ballotBox'.proposedRewardsRoot
      \/ /\ ballotBox'.lastConsensusEpoch = ballotBox.lastConsensusEpoch
         /\ ballotBox'.rewardsRoot = ballotBox.rewardsRoot
  BY VoteSettles
<1>4. epoch > ballotBox.lastConsensusEpoch =>
          R!Dominates(ballotBox'.proposedRewardsRoot, ballotBox.rewardsRoot)
  <2>1. CASE epoch > ballotBox.epoch
    <3>1. votes'[o] # votes[o]
      BY VoteSettles
    <3>2. votes'[o].root = root
      <4>1. votes'[o] = [epoch |-> epoch, vault |-> v, root |-> root, amount |-> staked[v][o]]
        BY VoteCounted DEF Inv
      <4> QED
        BY <4>1
    <3> QED
      BY <1>2, <2>1, <3>1, <3>2 DEF FirstVoteGrows
  <2>2. CASE epoch = ballotBox.epoch
    BY <1>1, <1>2, <2>2 DEF ProposalGrows
  <2> QED
    BY <1>2, <2>1, <2>2
<1>5. ProposalGrows'
  BY <1>1, <1>2, <1>3, <1>4 DEF ProposalGrows
<1>6. R!Dominates(ballotBox'.rewardsRoot, ballotBox.rewardsRoot)
  BY <1>1, <1>3, <1>4, DominatesItself
<1> QED
  BY <1>5, <1>6

LEMMA NcnGrows ==
    ASSUME Inv, Inv', ProposalGrows, FirstVoteGrows, [Next]_vars
    PROVE  /\ ProposalGrows'
           /\ R!Dominates(ballotBox'.rewardsRoot, ballotBox.rewardsRoot)
<1>1. CASE Quiet
  <2>1. ballotBox.rewardsRoot \in Roots
    BY DEF Inv, TypeOK, BallotBoxes
  <2> QED
    BY <1>1, <2>1, DominatesItself DEF Quiet, ProposalGrows
<1> QED
  BY <1>1, QuietOrVote, VoteGrows

\* What holds while the first votes grow: what was claimed is covered.
GrowInv ==
    /\ FollowInv
    /\ grown \in BOOLEAN
    /\ grown => ProposalGrows /\ RP!ClaimedIsCovered

LEMMA GrowInit == SystemInit => GrowInv
<1>1. SystemInit => ProposalGrows
  BY DEF SystemInit, Init, EmptyBallotBox, ProposalGrows
<1>2. SystemInit => RP!ClaimedIsCovered
  BY SameInit, RewardsConstants, RP!ClaimedIsCoveredInit DEF SystemInit
<1>3. SystemInit => grown \in BOOLEAN
  BY DEF SystemInit
<1> QED
  BY <1>1, <1>2, <1>3, FollowInit DEF GrowInv

\* While they grow, every live tree promises at least what it did.
LEMMA RootsGrowStep ==
    ASSUME FollowInv, ProposalGrows, Inv, Inv', SystemNext, FollowsConsensus, FirstVoteGrows
    PROVE  ProposalGrows' /\ RP!RootsGrow
<1>1. /\ ProposalGrows'
      /\ R!Dominates(ballotBox'.rewardsRoot, ballotBox.rewardsRoot)
  <2>1. [Next]_vars
    BY DEF SystemNext, NcnStep, RewardsStep
  <2> QED
    BY <2>1, NcnGrows
<1>2. RP!RootsGrow
  <2> SUFFICES ASSUME NEW s \in States PROVE R!Dominates(R!LiveTree(s)', R!LiveTree(s))
    BY DEF RP!RootsGrow, RP!Dominates, R!Dominates, RP!LiveTree, R!LiveTree
  <2>1. CASE merkleRoot[s] = R!Inplace({})
    BY <2>1 DEF R!Dominates, R!LiveTree, R!Inplace
  <2>2. CASE merkleRoot[s] = R!External(RewardsRootSlot)
    <3>1. merkleRoot'[s] = R!External(RewardsRootSlot)
      BY <2>2 DEF FollowsConsensus
    <3>2. R!LiveTree(s) = ballotBox.rewardsRoot /\ R!LiveTree(s)' = ballotBox'.rewardsRoot
      BY <2>2, <3>1 DEF R!LiveTree, R!External, BallotSlots, Slots, RewardsRootSlot
    <3> QED
      BY <1>1, <3>2
  <2> QED
    BY <2>1, <2>2 DEF FollowInv
<1> QED
  BY <1>1, <1>2

LEMMA GrowStep ==
    ASSUME GrowInv, Inv, Inv', RP!RewardsTypeOK, RP!RewardsTypeOK',
           [SystemNext /\ FollowsConsensus]_systemVars
    PROVE  GrowInv'
<1>1. FollowInv'
  BY FollowStep DEF GrowInv
<1>2. [RP!RewardsNext]_(RP!allVars)
  BY RewardsRefinementStep DEF Inv
<1>3. CASE UNCHANGED systemVars
  <2>1. ProposalGrows' <=> ProposalGrows
    BY <1>3 DEF systemVars, vars, ProposalGrows
  <2>2. RP!ClaimedIsCovered' <=> RP!ClaimedIsCovered
    BY <1>3 DEF systemVars, accountVars, vars, RP!ClaimedIsCovered, RP!LiveTree, BallotSlots
  <2>3. grown' = grown
    BY <1>3 DEF systemVars
  <2> QED
    BY <1>1, <2>1, <2>2, <2>3 DEF GrowInv
<1>4. CASE SystemNext /\ FollowsConsensus
  <2>1. grown' \in BOOLEAN
    BY <1>4 DEF SystemNext, NcnStep, RewardsStep, ObserveGrowth, GrowInv
  <2>2. ASSUME grown' PROVE ProposalGrows' /\ RP!ClaimedIsCovered'
    <3>1. grown
      BY <1>4, <2>2 DEF SystemNext, NcnStep, RewardsStep, ObserveGrowth, GrowInv
    <3>2. FirstVoteGrows
      <4>1. CASE NcnStep
        BY <2>2, <4>1 DEF NcnStep, ObserveGrowth
      <4>2. CASE RewardsStep
        <5>1. ballotBox' = ballotBox /\ ballotBox.epoch \in Nat
          BY <4>2, ConstantsAssumption DEF RewardsStep, vars, Inv, TypeOK, BallotBoxes, Epochs
        <5> QED
          BY <5>1 DEF FirstVoteGrows
      <4> QED
        BY <1>4, <4>1, <4>2 DEF SystemNext
    <3>3. FollowInv /\ ProposalGrows /\ RP!ClaimedIsCovered
      BY <3>1 DEF GrowInv
    <3>4. ProposalGrows' /\ RP!RootsGrow
      BY <1>4, <3>2, <3>3, RootsGrowStep
    <3>5. [RP!RewardsNext /\ RP!RootsGrow]_(RP!allVars)
      BY <1>2, <3>4
    <3>6. RP!ClaimedIsCovered'
      BY <3>3, <3>5, RewardsConstants, RP!ClaimedIsCoveredStep
    <3> QED
      BY <3>4, <3>6
  <2> QED
    BY <1>1, <2>1, <2>2 DEF GrowInv
<1> QED
  BY <1>3, <1>4

\* Whatever the later voters of an epoch do, what an owner claimed never exceeds
\* the leaf it has in the published root, for as long as first votes grow
\* (vote.rs:86-115, dephy-rewards lib.rs:77).
THEOREM NoOwnerLockedOutCorrect ==
    ASSUME RP!OneLeafEach PROVE FollowingSpec => []NoOwnerLockedOut
<1>1. RP!RewardsSpec => []RP!RewardsInv
  BY RewardsConstants, RP!RewardsInvCorrect, PTL
<1>2. RP!RewardsInv => RP!RewardsTypeOK
  BY DEF RP!RewardsInv
<1>3. RP!RewardsTypeOK /\ GrowInv => NoOwnerLockedOut
  <2>1. RP!RewardsTypeOK /\ RP!ClaimedIsCovered => RP!NeverLockedOut
    BY RewardsConstants, RP!CoveredIsNotLockedOut
  <2>2. RP!NeverLockedOut => R!NeverLockedOut
    BY DEF RP!NeverLockedOut, R!NeverLockedOut, RP!LiveTree, R!LiveTree
  <2> QED
    BY <2>1, <2>2 DEF GrowInv, NoOwnerLockedOut
<1>4. GrowInv /\ Inv /\ Inv' /\ RP!RewardsTypeOK /\ RP!RewardsTypeOK'
          /\ [SystemNext /\ FollowsConsensus]_systemVars => GrowInv'
  BY GrowStep
<1> QED
  BY <1>1, <1>2, <1>3, <1>4, GrowInit, FollowingIsSystem, SystemImplementsNcn,
     SystemImplementsRewards, InvCorrect, PTL DEF FollowingSpec

=============================================================================
