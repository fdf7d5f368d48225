---------------------------- MODULE MockOperators ----------------------------
(***************************************************************************)
(* Operator processes (scripts/mock_operator.ts) and the network between   *)
(* them and dephy-ncn.  A process polls the epoch and votes, once it sees  *)
(* a new one, for a root it computes from the epoch.  Its transaction may  *)
(* land late, never, or after the process gave up or crashed, and nothing  *)
(* in a transaction binds it to the epoch it was meant for.  The endpoint  *)
(* that a process asks may be behind the network.                          *)
(***************************************************************************)
EXTENDS DephyNcn

CONSTANTS
    VaultOf,        \* the --vault option of each operator
    MockedRoot,     \* calcMockedRoot: the root of each epoch
    MaxStrays       \* bound: transactions of an operator and epoch that are astray

ASSUME OperatorsAssumption ==
    /\ VaultOf \in [Operators -> Vaults]
    /\ MockedRoot \in [Epochs -> Roots]
    /\ MaxStrays \in Nat

VARIABLES
    pc,         \* where each process is
    known,      \* lastVotedEpoch, the local variable
    seen,       \* epoch, the variable of a round, 0 between two rounds
    sent,       \* the transaction a process waits for
    served,     \* the epoch that the RPC endpoint of a process is in
    strays,     \* transactions nobody waits for any more, by operator and epoch
    late        \* history: votes cast in another epoch than the one their root was
                \* computed for, as pairs of the two

clientVars == <<pc, known, seen, sent, served, strays, late>>
mockVars == <<vars, clientVars>>

\* "down": not running; "idle": between two polls; "vote": has seen a new epoch;
\* "confirm": waits for its transaction to be confirmed.
MockTypeOK ==
    /\ pc \in [Operators -> {"down", "idle", "vote", "confirm"}]
    /\ known \in [Operators -> Epochs]
    /\ seen \in [Operators -> Epochs]
    /\ sent \in [Operators -> {"none", "flying", "landed", "dropped"}]
    /\ served \in [Operators -> Epochs]
    /\ strays \in [Operators -> [Epochs -> 0..MaxStrays]]
    /\ late \subseteq Epochs \X Epochs

MockInit ==
    /\ Init
    /\ pc = [o \in Operators |-> "down"]
    /\ known = [o \in Operators |-> 0]
    /\ seen = [o \in Operators |-> 0]
    /\ sent = [o \in Operators |-> "none"]
    /\ served = [o \in Operators |-> 0]
    /\ strays = [o \in Operators |-> [e \in Epochs |-> 0]]
    /\ late = {}

\* What is late after a vote for the root of epoch e.
LateWith(e) == IF e = epoch THEN late ELSE late \cup {<<epoch, e>>}

-----------------------------------------------------------------------------
(* Mistakes the script could have made; nothing uses these operators.      *)

\* lastVotedEpoch is assigned before the vote is awaited.
MarksBeforeSending(o) ==
    /\ pc[o] = "vote"
    /\ pc' = [pc EXCEPT ![o] = "confirm"]
    /\ sent' = [sent EXCEPT ![o] = "flying"]
    /\ known' = [known EXCEPT ![o] = seen[o]]
    /\ UNCHANGED <<vars, seen, strays, served, late>>

\* It records the epoch to vote in next.
MarksNextEpoch(o) ==
    /\ pc[o] = "confirm"
    /\ sent[o] = "landed"
    /\ pc' = [pc EXCEPT ![o] = "idle"]
    /\ sent' = [sent EXCEPT ![o] = "none"]
    /\ known' = [known EXCEPT ![o] = seen[o] + 1]
    /\ seen' = [seen EXCEPT ![o] = 0]
    /\ UNCHANGED <<vars, strays, served, late>>

\* An epoch seen is not tried again.
SeesEpochOnce(o) ==
    /\ pc[o] = "idle"
    /\ served[o] > known[o]
    /\ pc' = [pc EXCEPT ![o] = "vote"]
    /\ seen' = [seen EXCEPT ![o] = served[o]]
    /\ known' = [known EXCEPT ![o] = served[o]]
    /\ UNCHANGED <<vars, sent, strays, served, late>>

\* The root of the epoch after the last vote, in place of that of the epoch seen.
RootAfterLastVote(o) ==
    /\ sent[o] = "flying"
    /\ Vote(OperatorAdmin[o], o, VaultOf[o], MockedRoot[known[o] + 1])
    /\ late' = LateWith(seen[o])
    /\ sent' = [sent EXCEPT ![o] = "landed"]
    /\ UNCHANGED <<pc, known, seen, strays, served>>

-----------------------------------------------------------------------------
(* A process *)

\* What becomes of the transaction of a process that stops waiting for it.
Strayed(o) ==
    IF sent[o] = "flying" THEN [strays EXCEPT ![o][seen[o]] = @ + 1] ELSE strays

\* It starts, or is started again, and fetches its VoterState, of which the
\* endpoint may not have the last vote yet.
Start(o) ==
    /\ pc[o] = "down"
    /\ o \in voterAccounts
    /\ pc' = [pc EXCEPT ![o] = "idle"]
    /\ \E e \in Epochs :
          /\ e <= lastVotedEpoch[o]
          /\ known' = [known EXCEPT ![o] = e]
    /\ UNCHANGED <<vars, seen, sent, strays, served, late>>

\* The interval is over and it polls an epoch it has not voted in.
Poll(o) ==
    /\ pc[o] = "idle"
    /\ served[o] > known[o]
    /\ pc' = [pc EXCEPT ![o] = "vote"]
    /\ seen' = [seen EXCEPT ![o] = served[o]]
    /\ UNCHANGED <<vars, known, sent, strays, served, late>>

\* It sends its vote.
Send(o) ==
    /\ pc[o] = "vote"
    /\ pc' = [pc EXCEPT ![o] = "confirm"]
    /\ sent' = [sent EXCEPT ![o] = "flying"]
    /\ UNCHANGED <<vars, known, seen, strays, served, late>>

\* Fetching the ballot box, or the preflight, fails: "Vote failed".
FailToSend(o) ==
    /\ pc[o] = "vote"
    /\ pc' = [pc EXCEPT ![o] = "idle"]
    /\ seen' = [seen EXCEPT ![o] = 0]
    /\ UNCHANGED <<vars, known, sent, strays, served, late>>

\* The confirmation arrives.
Confirm(o) ==
    /\ pc[o] = "confirm"
    /\ sent[o] = "landed"
    /\ pc' = [pc EXCEPT ![o] = "idle"]
    /\ sent' = [sent EXCEPT ![o] = "none"]
    /\ known' = [known EXCEPT ![o] = seen[o]]
    /\ seen' = [seen EXCEPT ![o] = 0]
    /\ UNCHANGED <<vars, strays, served, late>>

\* It hears of an error, or of nothing in time; the vote may have landed, and may
\* land yet.  The next poll tries again.
GiveUp(o) ==
    /\ pc[o] = "confirm"
    /\ pc' = [pc EXCEPT ![o] = "idle"]
    /\ sent' = [sent EXCEPT ![o] = "none"]
    /\ strays' = Strayed(o)
    /\ strays'[o][seen[o]] <= MaxStrays
    /\ seen' = [seen EXCEPT ![o] = 0]
    /\ UNCHANGED <<vars, known, served, late>>

\* The process ends: nothing catches an error while it polls.
Crash(o) ==
    /\ pc[o] # "down"
    /\ pc' = [pc EXCEPT ![o] = "down"]
    /\ known' = [known EXCEPT ![o] = 0]
    /\ seen' = [seen EXCEPT ![o] = 0]
    /\ sent' = [sent EXCEPT ![o] = "none"]
    /\ strays' = Strayed(o)
    /\ strays'[o][seen[o]] <= MaxStrays
    /\ UNCHANGED <<vars, served, late>>

-----------------------------------------------------------------------------
(* The network *)

\* The endpoint comes to a later epoch that the network has reached.
CatchUp(o) ==
    /\ \E e \in Epochs :
          /\ served[o] < e /\ e <= epoch
          /\ served' = [served EXCEPT ![o] = e]
    /\ UNCHANGED <<vars, pc, known, seen, sent, strays, late>>

\* The transaction of a waiting process is executed.
Land(o) ==
    /\ sent[o] = "flying"
    /\ Vote(OperatorAdmin[o], o, VaultOf[o], MockedRoot[seen[o]])
    /\ late' = LateWith(seen[o])
    /\ sent' = [sent EXCEPT ![o] = "landed"]
    /\ UNCHANGED <<pc, known, seen, strays, served>>

\* It fails when it is executed, or expires before.
Drop(o) ==
    /\ sent[o] = "flying"
    /\ sent' = [sent EXCEPT ![o] = "dropped"]
    /\ UNCHANGED <<vars, pc, known, seen, strays, served, late>>

LandStray(o, e) ==
    /\ strays[o][e] > 0
    /\ Vote(OperatorAdmin[o], o, VaultOf[o], MockedRoot[e])
    /\ late' = LateWith(e)
    /\ strays' = [strays EXCEPT ![o][e] = @ - 1]
    /\ UNCHANGED <<pc, known, seen, sent, served>>

DropStray(o, e) ==
    /\ strays[o][e] > 0
    /\ strays' = [strays EXCEPT ![o][e] = @ - 1]
    /\ UNCHANGED <<vars, pc, known, seen, sent, served, late>>

-----------------------------------------------------------------------------

Client(o) ==
    \/ Start(o) \/ Poll(o) \/ Send(o) \/ FailToSend(o)
    \/ Confirm(o) \/ GiveUp(o) \/ Crash(o)

Network(o) ==
    \/ CatchUp(o)
    \/ Land(o) \/ Drop(o)
    \/ \E e \in Epochs : LandStray(o, e) \/ DropStray(o, e)

MockNext ==
    \/ \E o \in Operators : Client(o) \/ Network(o)
    \/ (Setup \/ Environment) /\ UNCHANGED clientVars

MockSpec == MockInit /\ [][MockNext]_mockVars

\* The RPC endpoint answers and catches up, and the network executes a transaction,
\* if they are tried again and again; a process that crashes is started again; a transaction
\* expires, and no process waits for a confirmation for ever.
Fairness ==
    \A o \in Operators :
        /\ WF_mockVars(Start(o))
        /\ WF_mockVars(CatchUp(o))
        /\ SF_mockVars(Poll(o))
        /\ SF_mockVars(Send(o))
        /\ WF_mockVars(Confirm(o) \/ GiveUp(o))
        /\ WF_mockVars(Drop(o))
        /\ SF_mockVars(Land(o))

-----------------------------------------------------------------------------
(* Properties *)

\* A process never believes to have voted in an epoch later than the last one it
\* voted in, so that it skips none, whatever is lost, late, repeated or read from an
\* endpoint that is behind, and however often it crashes (mock_operator.ts:54-88).
BelievedIsVoted ==
    \A o \in Operators :
        /\ known[o] <= lastVotedEpoch[o]
        /\ sent[o] = "landed" => seen[o] <= lastVotedEpoch[o]

\* The root that an epoch proposes, and the one it publishes, is its own, or that of an
\* earlier epoch of which a vote landed late, in that very epoch: no other root, and no
\* late vote of another epoch, gets there (mock_operator.ts:63, vote.rs:86-115).
IsRootOf(e, root) ==
    \/ root = MockedRoot[e]
    \/ \E earlier \in 1..(e - 1) : <<e, earlier>> \in late /\ root = MockedRoot[earlier]

RootIsOfItsEpoch ==
    /\ ballotBox.epoch > 0 => IsRootOf(ballotBox.epoch, ballotBox.proposedRewardsRoot)
    /\ ballotBox.lastConsensusEpoch > 0 => IsRootOf(ballotBox.lastConsensusEpoch, ballotBox.rewardsRoot)

\* In an epoch that lasts long enough every operator gets to vote
\* (mock_operator.ts:58-90).
EveryoneVotes ==
    \A e \in Epochs : \A o \in Operators :
        (epoch = e /\ e > 0) ~> (epoch > e \/ lastVotedEpoch[o] = e)

\* An epoch that lasts long enough ends in consensus on its root, unless a late vote
\* lands in it (mock_operator.ts:58-90, vote.rs:105-115).
EpochSettles ==
    \A e \in 1..MaxEpoch :
        epoch = e ~>
            \/ epoch > e
            \/ ballotBox.lastConsensusEpoch = e /\ ballotBox.rewardsRoot = MockedRoot[e]
            \/ \E earlier \in Epochs : <<e, earlier>> \in late

=============================================================================
