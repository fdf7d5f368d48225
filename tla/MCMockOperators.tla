--------------------------- MODULE MCMockOperators ---------------------------
(* Instances of MockOperators for TLC, from a network that is set up. *)
EXTENDS MockOperators, ConnectedNcn

CONSTANTS v1, r0, r1, r2

MCOperatorAdmin == [o \in Operators |-> CHOOSE k \in Signers : TRUE]
MCVaultOf == [o \in Operators |-> v1]
MCMockedRoot == [e \in Epochs |-> CASE e = 0 -> r0 [] e = 1 -> r1 [] OTHER -> r2]

ConnectedInit ==
    /\ Connected
    /\ pc = [o \in Operators |-> "down"]
    /\ known = [o \in Operators |-> 0]
    /\ seen = [o \in Operators |-> 0]
    /\ sent = [o \in Operators |-> "none"]
    /\ served = [o \in Operators |-> 0]
    /\ strays = [o \in Operators |-> [e \in Epochs |-> 0]]
    /\ late = {}

MCSpec == ConnectedInit /\ [][MockNext /\ SteadyNetwork]_mockVars

MCFairSpec == MCSpec /\ Fairness

=============================================================================
