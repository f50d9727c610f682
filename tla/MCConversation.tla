--------------------------- MODULE MCConversation ---------------------------
(***************************************************************************)
(* A small instance of Conversation: two accounts, one project.            *)
(***************************************************************************)
EXTENDS Conversation, TLC

CONSTANTS u1, u2, p1

AllAsks == {AccountTo(r, b) : r \in Roles, b \in BOOLEAN}
             \cup {MembershipTo(p1, b) : b \in BOOLEAN} \cup {Reset}

UserSymmetry == Permutations(Users)
=============================================================================
