------------------------------ MODULE Accounts ------------------------------
(***************************************************************************)
(* Accounts and the members of one workspace                               *)
(* (backend/services/auth_service.py, email_service.py,                    *)
(* permission_service.py and the routes of auth_routes.py,                 *)
(* workspace_routes.py and admin_routes.py that change them).              *)
(*                                                                         *)
(* A request reads in its first step and commits in later ones; other      *)
(* requests commit in between, and the server may stop between two commits *)
(* of one request (Crash).  A person is named by the address; status       *)
(* "active" stands for a verified address as well, since the two are       *)
(* written together.  Passwords are numbers.                               *)
(*                                                                         *)
(* An e-mail that could not be delivered leaves a token nobody knows, so   *)
(* only delivered ones are kept, and an expired token or invite is one     *)
(* that is not used.  Access tokens carry their own expiry and leave no    *)
(* row; the workspaces people own besides this one and the audit record,   *)
(* which is part of the commit it belongs to, are left out.                *)
(***************************************************************************)
EXTENDS Permissions, FiniteSets, Sequences

CONSTANTS Clients,      \* requests that can be under way at the same time
          Users,        \* addresses
          Founder,      \* the owner of the workspace
          FirstMembers, \* the roles the others have at first
          Offered,      \* roles named in requests
          Origins,      \* the addresses requests say they come from
          MaxAttempts,  \* MAX_LOGIN_ATTEMPTS
          MaxCalls      \* bound on the number of requests

ASSUME AccountsAssumption ==
    /\ IsFiniteSet(Clients)
    /\ Founder \in Users
    /\ FirstMembers \in [Users -> Roles \cup {NotAMember}]
    /\ \A u \in Users : FirstMembers[u] = "owner" <=> u = Founder
    /\ Offered \subseteq Roles
    /\ "unknown" \in Origins
    /\ MaxAttempts \in Nat \ {0} /\ MaxCalls \in Nat

VARIABLES user,      \* users: status and password
          member,    \* memberships of the workspace
          invites,   \* workspace_invites
          mails,     \* e-mail verification and password reset tokens
          tokens,    \* refresh_tokens
          failures,  \* failed login_attempts of the last LOGIN_LOCKOUT_MINUTES,
                     \* for an account and an origin
          session,   \* what the requests under way have read
          cut,       \* whose password reset was cut off before its last commit
          calls

vars == <<user, member, invites, mails, tokens, failures, session, cut, calls>>

Account == [status: {"none", "inactive", "active"}, password: Nat]
Invite == [user: Users, role: Roles, accepted: BOOLEAN,
           admitted: Nat,      \* how many memberships it made
           raced: BOOLEAN]     \* it was accepted while it was being accepted
Mail == [kind: {"verify", "reset"}, user: Users, used: BOOLEAN]
Token == [user: Users, password: Nat,  \* the password of the login it is from
          late: BOOLEAN,               \* which was not the password any more
          revoked: BOOLEAN]

Ops == {"register", "verify", "reset", "login", "accept", "role", "status", "remove"}
Session == [op: Ops \cup {"idle"}, pc: {"idle", "commit", "use", "finish", "last"},
            user: Users, origin: Origins, item: Nat, read: Membership, role: Roles,
            flag: BOOLEAN, password: Nat, no: Nat]

\* A request that has read the account and the membership of u.
Call(op, pc, u) ==
    [op |-> op, pc |-> pc, user |-> u, origin |-> "unknown", item |-> 0,
     read |-> member[u], role |-> "viewer",
     flag |-> FALSE, password |-> user[u].password, no |-> calls + 1]

NoCall == [op |-> "idle", pc |-> "idle", user |-> Founder, origin |-> "unknown", item |-> 0,
           read |-> NoMembership, role |-> "viewer", flag |-> FALSE, password |-> 0, no |-> 0]

Begin(c, s) ==
    /\ calls < MaxCalls /\ session[c] = NoCall
    /\ session' = [session EXCEPT ![c] = s]
    /\ calls' = calls + 1
    /\ UNCHANGED <<user, member, invites, mails, tokens, failures, cut>>

\* A request whose reads and single commit are one step.
AtOnce(c) == calls < MaxCalls /\ session[c] = NoCall /\ calls' = calls + 1

At(c, op, pc) == session[c].op = op /\ session[c].pc = pc
GoTo(c, pc) == session' = [session EXCEPT ![c].pc = pc]
Finish(c) == session' = [session EXCEPT ![c] = NoCall]

Active(u) == user[u].status = "active"

-----------------------------------------------------------------------------
(* Accounts. *)

NewMail(kind, u) == Append(mails, [kind |-> kind, user |-> u, used |-> FALSE])

BeginRegister(c) ==
    \E u \in Users : user[u].status = "none" /\ Begin(c, Call("register", "commit", u))

\* send_verification_email commits the account along with its token, before it
\* sends the mail; the unique address turns the second of two registrations down.
CommitRegister(c) ==
    LET u == session[c].user
    IN  /\ At(c, "register", "commit")
        /\ \/ user[u].status # "none" /\ UNCHANGED <<user, mails>>
           \/ /\ user[u].status = "none"
              /\ user' = [user EXCEPT ![u] = [status |-> "inactive", password |-> session[c].no]]
              /\ mails' \in {mails, NewMail("verify", u)}
        /\ Finish(c)
        /\ UNCHANGED <<member, invites, tokens, failures, cut, calls>>

\* resend_verification_email and forgot_password
SendMail(c) ==
    /\ AtOnce(c)
    /\ \E u \in Users : \/ user[u].status = "inactive" /\ mails' = NewMail("verify", u)
                        \/ user[u].status # "none" /\ mails' = NewMail("reset", u)
    /\ UNCHANGED <<user, member, invites, tokens, failures, session, cut>>

\* verify_email_token and verify_password_reset_token select an unused token...
BeginMail(c) ==
    \E m \in DOMAIN mails :
        /\ ~mails[m].used
        /\ Begin(c, [Call(mails[m].kind, "use", mails[m].user) EXCEPT !.item = m])

\* ... and commit its use.
UseMail(c) ==
    /\ session[c].pc = "use"
    /\ mails' = [mails EXCEPT ![session[c].item].used = TRUE]
    /\ GoTo(c, "finish")
    /\ UNCHANGED <<user, member, invites, tokens, failures, cut, calls>>

\* activate_user
FinishVerify(c) ==
    /\ At(c, "verify", "finish")
    /\ user' = [user EXCEPT ![session[c].user].status = "active"]
    /\ Finish(c)
    /\ UNCHANGED <<member, invites, mails, tokens, failures, cut, calls>>

Revoked(u) == [t \in DOMAIN tokens |->
                  IF tokens[t].user = u THEN [tokens[t] EXCEPT !.revoked = TRUE] ELSE tokens[t]]

\* A reset that revokes first and sets the password afterwards.
RevokeFirst(c) ==
    /\ At(c, "reset", "finish")
    /\ tokens' = Revoked(session[c].user)
    /\ GoTo(c, "last")
    /\ UNCHANGED <<user, member, invites, mails, failures, cut, calls>>

PasswordLast(c) ==
    /\ At(c, "reset", "last")
    /\ user' = [user EXCEPT ![session[c].user].password = session[c].no]
    /\ Finish(c)
    /\ UNCHANGED <<member, invites, mails, tokens, failures, cut, calls>>

ResetBackwards(c) == RevokeFirst(c) \/ PasswordLast(c)

\* reset_password commits the new password...
NewPassword(c) ==
    /\ At(c, "reset", "finish")
    /\ user' = [user EXCEPT ![session[c].user].password = session[c].no]
    /\ GoTo(c, "last")
    /\ UNCHANGED <<member, invites, mails, tokens, failures, cut, calls>>

\* ... and then revoke_all_user_tokens the rest.
RevokeAll(c) ==
    /\ At(c, "reset", "last")
    /\ tokens' = Revoked(session[c].user)
    /\ Finish(c)
    /\ UNCHANGED <<user, member, invites, mails, failures, cut, calls>>

FinishReset(c) == NewPassword(c) \/ RevokeAll(c)

\* _check_login_lockout that lets one more attempt through.
LockedLate(u, o) == failures[u][o] > MaxAttempts

\* _check_login_lockout counts the failures of the account from one origin.
Locked(u, o) == failures[u][o] >= MaxAttempts

\* authenticate_user reads: the lock, the account, the password.  The origin is
\* get_client_ip: what the client says in X-Forwarded-For, if it says anything.  `flag` tells
\* that the password is right; only a failure is counted for its origin.
BeginLogin(c) ==
    \E u \in Users, o \in Origins :
        /\ ~Locked(u, o)
        /\ \/ Begin(c, [Call("login", "commit", u) EXCEPT !.origin = o])
           \/ user[u].status # "none" /\ Begin(c, [Call("login", "commit", u) EXCEPT !.flag = TRUE])

\* _record_login_attempt; an address that is not verified ends the login.
RecordLogin(c) ==
    LET s == session[c]
    IN  /\ At(c, "login", "commit")
        /\ \/ ~s.flag /\ failures' = [failures EXCEPT ![s.user][s.origin] = @ + 1] /\ Finish(c)
           \/ s.flag /\ ~Active(s.user) /\ Finish(c) /\ UNCHANGED failures
           \/ s.flag /\ Active(s.user) /\ GoTo(c, "last") /\ UNCHANGED failures
        /\ UNCHANGED <<user, member, invites, mails, tokens, cut, calls>>

\* create_refresh_token_record
IssueToken(c) ==
    LET s == session[c]
    IN  /\ At(c, "login", "last")
        /\ tokens' = Append(tokens, [user |-> s.user, password |-> s.password,
                                     late |-> s.password # user[s.user].password,
                                     revoked |-> FALSE])
        /\ Finish(c)
        /\ UNCHANGED <<user, member, invites, mails, failures, cut, calls>>

\* validate_refresh_token finds the token.
Live(t) == ~tokens[t].revoked

\* logout
Logout(c) ==
    /\ AtOnce(c)
    /\ \E t \in DOMAIN tokens : tokens' = [tokens EXCEPT ![t].revoked = TRUE]
    /\ UNCHANGED <<user, member, invites, mails, failures, session, cut>>

\* An attempt that leaves the window whatever there is.
ForgetAny(u, o) ==
    /\ failures' = [failures EXCEPT ![u][o] = @ - 1]
    /\ UNCHANGED <<user, member, invites, mails, tokens, session, cut, calls>>

\* Time passes: the oldest failed attempt leaves the window.
ForgetAttempt(u, o) ==
    /\ failures[u][o] > 0
    /\ failures' = [failures EXCEPT ![u][o] = @ - 1]
    /\ UNCHANGED <<user, member, invites, mails, tokens, session, cut, calls>>

\* The server stops, or the connection is lost, between two steps.
Crash(c) ==
    /\ session[c] # NoCall
    /\ cut' = [cut EXCEPT ![session[c].user] = @ \/ At(c, "reset", "last")]
    /\ Finish(c)
    /\ UNCHANGED <<user, member, invites, mails, tokens, failures, calls>>

-----------------------------------------------------------------------------
(* Members. *)

\* get_current_user and require_permission
MayManage(u) == Active(u) /\ MayRequest(member[u], "member", "manage")

IsMember(u) == member[u] # NoMembership

\* invite_member
InviteMember(c) ==
    /\ AtOnce(c)
    /\ \E a, u \in Users, role \in Offered :
          /\ MayManage(a) /\ role # "owner" /\ ~IsMember(u)
          /\ invites' = Append(invites, [user |-> u, role |-> role, accepted |-> FALSE,
                                         admitted |-> 0, raced |-> FALSE])
    /\ UNCHANGED <<user, member, mails, tokens, failures, session, cut>>

\* accept_invite reads the invite and the membership; `flag` tells that it is
\* going to add one.
BeginAcceptAgain(c) ==
    \E i \in DOMAIN invites :
        LET u == invites[i].user
        IN  /\ Active(u) /\ invites[i].role # "owner"
            /\ Begin(c, [Call("accept", "commit", u) EXCEPT
                            !.item = i, !.role = invites[i].role, !.flag = ~IsMember(u)])

BeginAccept(c) ==
    \E i \in DOMAIN invites :
        LET u == invites[i].user
        IN  /\ Active(u) /\ invites[i].role # "owner"
            /\ ~invites[i].accepted      \* a member gets an answer, and nothing changes
            /\ Begin(c, [Call("accept", "commit", u) EXCEPT
                            !.item = i, !.role = invites[i].role, !.flag = ~IsMember(u)])

\* The unique constraint on memberships rolls the second of two acceptances back.
CommitAccept(c) ==
    LET s == session[c]
        others == \E d \in Clients \ {c} : At(d, "accept", "commit") /\ session[d].item = s.item
    IN  /\ At(c, "accept", "commit")
        /\ \/ ~s.flag /\ invites' = [invites EXCEPT ![s.item].accepted = TRUE] /\ UNCHANGED member
           \/ s.flag /\ IsMember(s.user) /\ UNCHANGED <<member, invites>>
           \/ /\ s.flag /\ ~IsMember(s.user)
              /\ member' = [member EXCEPT ![s.user] =
                               [role |-> s.role, suspended |-> FALSE, id |-> s.no]]
              /\ invites' = [invites EXCEPT ![s.item].accepted = TRUE,
                                            ![s.item].admitted = @ + 1,
                                            ![s.item].raced = @ \/ others]
        /\ Finish(c)
        /\ UNCHANGED <<user, mails, tokens, failures, cut, calls>>

\* A role change that checks the role of the target only.
BeginRoleUnchecked(c) ==
    \E a, u \in Users, role \in Offered :
        /\ MayManage(a) /\ IsMember(u) /\ member[u].role # "owner" /\ u # a
        /\ Begin(c, [Call("role", "commit", u) EXCEPT !.role = role])

\* update_member_role
BeginRole(c) ==
    \E a, u \in Users, role \in Offered :
        /\ MayManage(a) /\ IsMember(u) /\ member[u].role # "owner" /\ u # a
        /\ role # "owner"
        /\ Begin(c, [Call("role", "commit", u) EXCEPT !.role = role])

\* update_user_status; a request that changes nothing ends here.
BeginStatus(c) ==
    \E a, u \in Users, suspend \in BOOLEAN :
        /\ MayManage(a) /\ IsMember(u) /\ member[u].role # "owner" /\ u # a
        /\ suspend # member[u].suspended
        /\ Begin(c, [Call("status", "commit", u) EXCEPT !.flag = suspend])

\* remove_member; everybody but the owner may leave.
BeginRemove(c) ==
    \E a, u \in Users :
        /\ Active(a) /\ IsMember(u) /\ member[u].role # "owner"
        /\ u = a \/ MayManage(a)
        /\ Begin(c, Call("remove", "commit", u))

\* The row that was read is still there.
SameRow(s) == member[s.user].id = s.read.id

\* A role written without the mark of the suspension.
NewRoleActive(s) == [s.read EXCEPT !.role = s.role, !.suspended = FALSE]

\* serialize_membership_role of the new role and the suspension that was read
NewRole(s) == [s.read EXCEPT !.role = s.role]

NewStatus(s) == [s.read EXCEPT !.suspended = s.flag]

\* A commit writes the value only when it differs from the one that was read,
\* and fails when the row is gone.
WriteMember(s, new) ==
    member' = IF new # s.read /\ SameRow(s) THEN [member EXCEPT ![s.user] = new] ELSE member

CommitMember(c) ==
    LET s == session[c]
    IN  /\ s.pc = "commit"
        /\ \/ s.op = "role" /\ WriteMember(s, NewRole(s))
           \/ s.op = "status" /\ WriteMember(s, NewStatus(s))
           \/ /\ s.op = "remove"
              /\ member' = IF SameRow(s) THEN [member EXCEPT ![s.user] = NoMembership] ELSE member
        /\ Finish(c)
        /\ UNCHANGED <<user, invites, mails, tokens, failures, cut, calls>>

-----------------------------------------------------------------------------
\* Everybody who is a member is active; the others have no account, or an
\* account and a pending invite.
Init ==
    /\ member = [u \in Users |->
                    IF FirstMembers[u] = NotAMember THEN NoMembership
                    ELSE [role |-> FirstMembers[u], suspended |-> FALSE, id |-> MaxCalls + 1]]
    /\ \E guests \in SUBSET {u \in Users : FirstMembers[u] = NotAMember} :
          /\ user = [u \in Users |->
                        IF FirstMembers[u] = NotAMember /\ u \notin guests
                        THEN [status |-> "none", password |-> 0]
                        ELSE [status |-> "active", password |-> 0]]
          /\ \/ invites = << >>
             \/ \E u \in guests, role \in Roles \ {"owner"} :
                   invites = <<[user |-> u, role |-> role, accepted |-> FALSE,
                                admitted |-> 0, raced |-> FALSE]>>
    /\ mails = << >> /\ tokens = << >>
    /\ failures = [u \in Users |-> [o \in Origins |-> 0]]
    /\ session = [c \in Clients |-> NoCall]
    /\ cut = [u \in Users |-> FALSE]
    /\ calls = 0

Next ==
    \/ \E c \in Clients :
        \/ BeginRegister(c) \/ CommitRegister(c) \/ SendMail(c)
        \/ BeginMail(c) \/ UseMail(c) \/ FinishVerify(c) \/ FinishReset(c)
        \/ BeginLogin(c) \/ RecordLogin(c) \/ IssueToken(c) \/ Logout(c)
        \/ InviteMember(c) \/ BeginAccept(c) \/ CommitAccept(c)
        \/ BeginRole(c) \/ BeginStatus(c) \/ BeginRemove(c) \/ CommitMember(c)
        \/ Crash(c)
    \/ \E u \in Users, o \in Origins : ForgetAttempt(u, o)

Spec == Init /\ [][Next]_vars

-----------------------------------------------------------------------------
(* Properties. *)

AccountsTypeOK ==
    /\ user \in [Users -> Account]
    /\ member \in [Users -> Membership]
    /\ invites \in Seq(Invite) /\ mails \in Seq(Mail) /\ tokens \in Seq(Token)
    /\ failures \in [Users -> [Origins -> Nat]]
    /\ session \in [Clients -> Session]
    /\ cut \in [Users -> BOOLEAN]
    /\ calls \in Nat

\* Through every order of invitations, role changes, suspensions and removals
\* the workspace keeps one owner, its founder, who can always get in.
OneOwner ==
    /\ \A u \in Users : member[u].role = "owner" <=> u = Founder
    /\ ~member[Founder].suspended

\* reset_password logs everybody out: a refresh token of a login with an older
\* password is live only while the reset is under way, after the reset was cut
\* off, or if the login was itself under way when the password changed.
ResetEndsSessions ==
    \A t \in DOMAIN tokens :
        LET token == tokens[t]
        IN  Live(t) /\ ~token.late =>
                \/ token.password = user[token.user].password
                \/ cut[token.user]
                \/ \E c \in Clients : At(c, "reset", "last") /\ session[c].user = token.user

\* The lock is checked in one session step and the failure recorded in a later
\* one, so requests of one origin at the same time exceed the limit, but by no
\* more than there are requests.  The limit is one of the account and the origin:
\* what an account fails from all origins together is not bounded.
LockoutBounded ==
    \A u \in Users, o \in Origins :
        failures[u][o] <= MaxAttempts - 1 + Cardinality(Clients)

\* Somebody who was removed does not come back on the same invite, unless it was
\* being accepted twice at the same time.
InviteAdmitsOnce == \A i \in DOMAIN invites : invites[i].raced \/ invites[i].admitted <= 1

\* Only a request to end it ends a suspension, or a role change that had read
\* the membership before it was suspended.
SuspensionSticks ==
    [][\A u \in Users :
          member[u].suspended /\ member'[u].id = member[u].id /\ IsMember(u)'
          /\ ~member'[u].suspended =>
              \E c \in Clients : /\ session'[c] = NoCall /\ session[c].user = u
                                 /\ \/ At(c, "status", "commit")
                                    \/ At(c, "role", "commit") /\ ~session[c].read.suspended]_vars

=============================================================================
