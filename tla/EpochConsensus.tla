--------------------------- MODULE EpochConsensus ---------------------------
(***************************************************************************)
(* What the ballot box of dephy-ncn promises to a reader of its            *)
(* rewards_root, without stakes, vaults or accounts: an operator casts at  *)
(* most one root per epoch, at most one root is published per epoch, and   *)
(* what is published is a root that some operator cast in that very epoch. *)
(* The root published last stays readable until a later epoch replaces it. *)
(***************************************************************************)
EXTENDS Naturals

CONSTANTS
    Operators,      \* those who may cast a root
    Roots,          \* the roots that can be cast
    ZeroRoot        \* what is readable before anything was published

VARIABLES
    now,            \* the current epoch
    cast,           \* the latest cast of each operator: its epoch and root
    published       \* the epoch and the root that readers see

vars == <<now, cast, published>>

-----------------------------------------------------------------------------

Init ==
    /\ now = 0
    /\ cast = [o \in Operators |-> [epoch |-> 0, root |-> ZeroRoot]]
    /\ published = [epoch |-> 0, root |-> ZeroRoot]

NewEpoch ==
    /\ now' = now + 1
    /\ UNCHANGED <<cast, published>>

\* The roots that have been cast in the current epoch, this step's included.
RootsCastNow == {cast'[o].root : o \in {p \in Operators : cast'[p].epoch = now}}

Publish ==
    /\ published.epoch < now
    /\ \E root \in RootsCastNow : published' = [epoch |-> now, root |-> root]

\* An operator casts a root; the cast may be the one that completes a quorum.
Cast(o, root) ==
    /\ cast[o].epoch < now
    /\ cast' = [cast EXCEPT ![o] = [epoch |-> now, root |-> root]]
    /\ Publish \/ UNCHANGED published
    /\ UNCHANGED now

Next ==
    \/ NewEpoch
    \/ \E o \in Operators, root \in Roots : Cast(o, root)

Spec == Init /\ [][Next]_vars

=============================================================================
