----------------------------- MODULE MCTransfer -----------------------------
(* Instances of Transfer for TLC. *)
EXTENDS Transfer, TLC

\* Every client is logged in as the same user.
OneUser == [c \in Clients |-> CHOOSE u \in Users : TRUE]

\* No limit.
NoLimit == -1

\* Credits and limits of the users.
Rich == [u \in Users |-> 2]
NewUser == [u \in Users |-> NoEntry]
OneTransfer == [u \in Users |-> 1]
Unlimited == [u \in Users |-> -1]

ClientSymmetry == Permutations(Clients)
=============================================================================
