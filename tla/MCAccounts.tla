----------------------------- MODULE MCAccounts -----------------------------
(* A small instance of Accounts for TLC: the founder of the workspace, an     *)
(* administrator, and somebody who has no membership.                         *)
EXTENDS Accounts, TLC

CONSTANTS request1, request2, founder, staff, guest

Requests == {request1, request2}
People == {founder, staff, guest}
PeopleRoles == [u \in People |->
                   CASE u = founder -> "owner" [] u = staff -> "admin" [] OTHER -> NotAMember]
AnyRequest == Permutations(Requests)

=============================================================================
