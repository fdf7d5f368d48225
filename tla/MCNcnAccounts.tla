--------------------------- MODULE MCNcnAccounts ---------------------------
(***************************************************************************)
(* A small instance of NcnAccounts.  The key of an operator is the         *)
(* operator itself, so that operators can be permuted.                     *)
(***************************************************************************)
EXTENDS NcnAccounts, TLC

MCOperatorAdmin == [o \in Operators |-> o]

Symmetric == Permutations(Bases) \cup Permutations(Operators)

=============================================================================
