----------------------------- MODULE MCErasure -----------------------------
(* Instances of Erasure for TLC.                                           *)
EXTENDS Erasure, TLC

CONSTANTS ann, bob, g, d, e, r1, r2, n1, n2

\* Nothing tells two people, two conversations, two requests or two nodes apart.
Alike == Permutations(Users) \cup Permutations(Directs)
         \cup Permutations(Requests) \cup Permutations(Nodes)

\* Two requests beside each other, or one beside the erasures: more at a time are
\* more than TLC gets through.
TwoOrErasures == accounts = Users \/ \E r \in Requests : req[r] = NoRequest
=============================================================================
