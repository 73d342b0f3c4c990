--------------------------- MODULE Accounts_proofs ---------------------------
(* What holds of accounts and members for any number of users and of requests    *)
(* under way, whatever order their commits come in and wherever the server stops. *)
EXTENDS Accounts, FiniteSetTheorems, SequenceTheorems, TLAPS

\* The invite or the mail a request has read is there; rows are only added.
ItemsKnown ==
    \A c \in Clients :
        /\ At(c, "accept", "commit") => session[c].item \in DOMAIN invites
        /\ session[c].pc = "use" => session[c].item \in DOMAIN mails

TypeInv == AccountsTypeOK /\ ItemsKnown

-----------------------------------------------------------------------------
(* Rows and requests. *)

LEMMA NewRow ==
    ASSUME NEW S, NEW s \in Seq(S), NEW x \in S
    PROVE  /\ Append(s, x) \in Seq(S)
           /\ DOMAIN Append(s, x) = DOMAIN s \cup {Len(s) + 1}
           /\ Len(s) + 1 \notin DOMAIN s
           /\ Append(s, x)[Len(s) + 1] = x
           /\ \A i \in DOMAIN s : Append(s, x)[i] = s[i]
  <1>1. DOMAIN s = 1..Len(s) /\ Len(s) \in Nat
    BY LenProperties
  <1>2. /\ Append(s, x) \in Seq(S) /\ Len(Append(s, x)) = Len(s) + 1
        /\ \A i \in 1..Len(s) : Append(s, x)[i] = s[i]
        /\ Append(s, x)[Len(s) + 1] = x
    BY AppendProperties
  <1>3. DOMAIN Append(s, x) = 1..(Len(s) + 1)
    BY <1>2, LenProperties
  <1>4. QED
    BY <1>1, <1>2, <1>3

LEMMA ChangedRows ==
    ASSUME NEW S, NEW s \in Seq(S), NEW f \in [DOMAIN s -> S]
    PROVE  f \in Seq(S) /\ DOMAIN f = DOMAIN s
  <1>1. DOMAIN s = 1..Len(s) /\ Len(s) \in Nat
    BY LenProperties
  <1>2. QED
    BY <1>1, SeqDef

LEMMA RowTypes ==
    ASSUME AccountsTypeOK
    PROVE  /\ \A i \in DOMAIN invites : invites[i] \in Invite
           /\ \A m \in DOMAIN mails : mails[m] \in Mail
           /\ \A t \in DOMAIN tokens : tokens[t] \in Token
           /\ DOMAIN invites \subseteq Nat /\ DOMAIN mails \subseteq Nat
           /\ invites \in [DOMAIN invites -> Invite]
  <1>1. /\ DOMAIN invites = 1..Len(invites) /\ DOMAIN mails = 1..Len(mails)
        /\ DOMAIN tokens = 1..Len(tokens)
        /\ Len(invites) \in Nat /\ Len(mails) \in Nat /\ Len(tokens) \in Nat
        /\ invites \in [1..Len(invites) -> Invite]
    BY LenProperties DEF AccountsTypeOK
  <1>2. QED
    BY <1>1, ElementOfSeq DEF AccountsTypeOK

LEMMA CallType ==
    ASSUME AccountsTypeOK, NEW op \in Ops, NEW u \in Users,
           NEW pc \in {"commit", "use", "finish", "last"}
    PROVE  /\ Call(op, pc, u) \in Session
           /\ Call(op, pc, u).op = op /\ Call(op, pc, u).pc = pc /\ Call(op, pc, u).user = u
           /\ Call(op, pc, u).read = member[u]
  <1>1. member[u] \in Membership /\ user[u].password \in Nat /\ calls + 1 \in Nat /\ "unknown" \in Origins
    BY AccountsAssumption DEF AccountsTypeOK, Account
  <1>2. QED
    BY <1>1 DEF Call, Session, Roles

LEMMA NoCallType ==
    NoCall \in Session /\ NoCall.op = "idle" /\ NoCall.pc = "idle" /\ NoCall.user \in Users
  BY AccountsAssumption DEF NoCall, Session, NoMembership, Membership, Roles, NotAMember

\* A request begins, goes on or ends, and no row is taken away.
LEMMA SessionMoves ==
    ASSUME TypeInv, NEW c \in Clients, NEW s \in Session, session' = [session EXCEPT ![c] = s],
           DOMAIN invites \subseteq DOMAIN invites', DOMAIN mails \subseteq DOMAIN mails',
           s.op = "accept" /\ s.pc = "commit" => s.item \in DOMAIN invites,
           s.pc = "use" => s.item \in DOMAIN mails
    PROVE  session' \in [Clients -> Session] /\ ItemsKnown'
  BY DEF TypeInv, AccountsTypeOK, ItemsKnown, At

LEMMA SessionStays ==
    ASSUME TypeInv, session' = session,
           DOMAIN invites \subseteq DOMAIN invites', DOMAIN mails \subseteq DOMAIN mails'
    PROVE  session' \in [Clients -> Session] /\ ItemsKnown'
  BY DEF TypeInv, AccountsTypeOK, ItemsKnown, At

LEMMA Ends ==
    ASSUME TypeInv, NEW c \in Clients, Finish(c),
           DOMAIN invites \subseteq DOMAIN invites', DOMAIN mails \subseteq DOMAIN mails'
    PROVE  session' \in [Clients -> Session] /\ ItemsKnown'
  BY NoCallType, SessionMoves DEF Finish

LEMMA GoesOn ==
    ASSUME TypeInv, NEW c \in Clients, NEW pc \in {"finish", "last"}, GoTo(c, pc),
           DOMAIN invites \subseteq DOMAIN invites', DOMAIN mails \subseteq DOMAIN mails'
    PROVE  session' \in [Clients -> Session] /\ ItemsKnown'
  <1>. DEFINE s == [session[c] EXCEPT !.pc = pc]
  <1>1. s \in Session /\ s.pc = pc
    BY ZenonT(90) DEF TypeInv, AccountsTypeOK, Session
  <1>. HIDE DEF s
  <1>2. session' = [session EXCEPT ![c] = s]
    BY DEF GoTo, s
  <1>3. QED
    BY <1>1, <1>2, SessionMoves

LEMMA Begins ==
    ASSUME TypeInv, NEW c \in Clients, NEW s \in Session, Begin(c, s),
           s.op = "accept" /\ s.pc = "commit" => s.item \in DOMAIN invites,
           s.pc = "use" => s.item \in DOMAIN mails
    PROVE  TypeInv'
  <1>1. session' \in [Clients -> Session] /\ ItemsKnown'
    BY SessionMoves DEF Begin
  <1>2. QED
    BY <1>1 DEF Begin, TypeInv, AccountsTypeOK

-----------------------------------------------------------------------------
(* Types. *)

\* The frame of a step that changes sessions and the rows of one table.
LEMMA AccountsFrame ==
    ASSUME AccountsTypeOK, session' \in [Clients -> Session],
           user' \in [Users -> Account], member' \in [Users -> Membership],
           invites' \in Seq(Invite), mails' \in Seq(Mail), tokens' \in Seq(Token),
           failures' \in [Users -> [Origins -> Nat]], cut' \in [Users -> BOOLEAN], calls' \in Nat
    PROVE  AccountsTypeOK'
  BY DEF AccountsTypeOK

LEMMA NewMailType ==
    ASSUME AccountsTypeOK, NEW kind \in {"verify", "reset"}, NEW u \in Users
    PROVE  NewMail(kind, u) \in Seq(Mail) /\ DOMAIN mails \subseteq DOMAIN NewMail(kind, u)
  <1>1. [kind |-> kind, user |-> u, used |-> FALSE] \in Mail
    BY DEF Mail
  <1>2. QED
    BY <1>1, NewRow DEF NewMail, AccountsTypeOK

LEMMA RevokedType ==
    ASSUME AccountsTypeOK, NEW u \in Users
    PROVE  /\ Revoked(u) \in Seq(Token) /\ DOMAIN Revoked(u) = DOMAIN tokens
           /\ \A t \in DOMAIN tokens :
                 /\ Revoked(u)[t].user = tokens[t].user
                 /\ Revoked(u)[t].password = tokens[t].password
                 /\ Revoked(u)[t].late = tokens[t].late
                 /\ Revoked(u)[t].revoked = (tokens[t].revoked \/ tokens[t].user = u)
  <1>1. \A t \in DOMAIN tokens : /\ tokens[t] \in Token
                                 /\ [tokens[t] EXCEPT !.revoked = TRUE] \in Token
    BY RowTypes DEF Token
  <1>2. Revoked(u) \in [DOMAIN tokens -> Token]
    BY <1>1 DEF Revoked
  <1>3. QED
    BY <1>1, <1>2, ChangedRows DEF Revoked, AccountsTypeOK, Token

LEMMA TypeOfMail ==
    ASSUME TypeInv, NEW c \in Clients,
           CommitRegister(c) \/ SendMail(c) \/ BeginRegister(c) \/ BeginMail(c) \/ UseMail(c)
    PROVE  TypeInv'
  <1>. USE DEF TypeInv
  <1>1. CASE BeginRegister(c)
    <2>1. PICK u \in Users : Begin(c, Call("register", "commit", u))
      BY <1>1 DEF BeginRegister
    <2>2. QED
      BY <2>1, CallType, Begins DEF Ops
  <1>2. CASE CommitRegister(c)
    <2>1. session[c].user \in Users /\ session[c].no \in Nat
      BY DEF AccountsTypeOK, Session
    <2>2. mails' \in Seq(Mail) /\ DOMAIN mails \subseteq DOMAIN mails'
      BY <1>2, <2>1, NewMailType DEF CommitRegister, AccountsTypeOK
    <2>3. user' \in [Users -> Account]
      <3>1. [status |-> "inactive", password |-> session[c].no] \in Account
        BY <2>1 DEF Account
      <3>2. user' = user \/ user' = [user EXCEPT ![session[c].user] =
                                        [status |-> "inactive", password |-> session[c].no]]
        BY <1>2 DEF CommitRegister
      <3>3. QED
        BY <2>1, <3>1, <3>2 DEF AccountsTypeOK
    <2>4. Finish(c) /\ UNCHANGED <<member, invites, tokens, failures, cut, calls>>
      BY <1>2 DEF CommitRegister
    <2>5. session' \in [Clients -> Session] /\ ItemsKnown'
      BY <2>2, <2>4, Ends
    <2>6. QED
      BY <2>2, <2>3, <2>4, <2>5 DEF AccountsTypeOK
  <1>3. CASE SendMail(c)
    <2>1. mails' \in Seq(Mail) /\ DOMAIN mails \subseteq DOMAIN mails'
      BY <1>3, NewMailType DEF SendMail
    <2>2. UNCHANGED <<user, member, invites, tokens, failures, session, cut>> /\ calls' = calls + 1
      BY <1>3 DEF SendMail, AtOnce
    <2>3. QED
      BY <2>1, <2>2, SessionStays DEF AccountsTypeOK
  <1>4. CASE BeginMail(c)
    <2>1. PICK m \in DOMAIN mails :
             Begin(c, [Call(mails[m].kind, "use", mails[m].user) EXCEPT !.item = m])
      BY <1>4 DEF BeginMail
    <2>. DEFINE call == Call(mails[m].kind, "use", mails[m].user)
                s == [call EXCEPT !.item = m]
    <2>2. mails[m] \in Mail /\ m \in Nat
      BY RowTypes
    <2>3. mails[m].kind \in Ops /\ mails[m].user \in Users
      BY <2>2 DEF Mail, Ops
    <2>4. call \in Session /\ call.pc = "use"
      BY <2>3, CallType
    <2>. HIDE DEF call
    <2>5. s \in Session /\ s.pc = "use" /\ s.item = m
      BY <2>2, <2>4 DEF Session
    <2>6. Begin(c, s)
      BY <2>1 DEF call
    <2>. HIDE DEF s
    <2>7. QED
      BY <2>5, <2>6, Begins
  <1>5. CASE UseMail(c)
    <2>1. session[c].item \in DOMAIN mails
      BY <1>5 DEF UseMail, ItemsKnown
    <2>2. mails' \in [DOMAIN mails -> Mail]
      <3>1. \A m \in DOMAIN mails : mails[m] \in Mail /\ [mails[m] EXCEPT !.used = TRUE] \in Mail
        BY RowTypes DEF Mail
      <3>2. QED
        BY <1>5, <2>1, <3>1 DEF UseMail
    <2>3. mails' \in Seq(Mail) /\ DOMAIN mails' = DOMAIN mails
      BY <2>2, ChangedRows DEF AccountsTypeOK
    <2>4. GoTo(c, "finish") /\ UNCHANGED <<user, member, invites, tokens, failures, cut, calls>>
      BY <1>5 DEF UseMail
    <2>5. session' \in [Clients -> Session] /\ ItemsKnown'
      BY <2>3, <2>4, GoesOn
    <2>6. QED
      BY <2>3, <2>4, <2>5 DEF AccountsTypeOK
  <1>6. QED
    BY <1>1, <1>2, <1>3, <1>4, <1>5

LEMMA TypeOfLogin ==
    ASSUME TypeInv, NEW c \in Clients,
           \/ FinishVerify(c) \/ FinishReset(c) \/ BeginLogin(c) \/ RecordLogin(c)
           \/ IssueToken(c) \/ Logout(c) \/ Crash(c)
    PROVE  TypeInv'
  <1>. USE DEF TypeInv
  <1>0. session[c].user \in Users /\ session[c].no \in Nat /\ session[c].password \in Nat
    BY DEF AccountsTypeOK, Session
  <1>1. CASE FinishVerify(c)
    <2>1. user' \in [Users -> Account]
      BY <1>0, <1>1 DEF FinishVerify, AccountsTypeOK, Account
    <2>2. Finish(c) /\ UNCHANGED <<member, invites, mails, tokens, failures, cut, calls>>
      BY <1>1 DEF FinishVerify
    <2>3. QED
      BY <2>1, <2>2, Ends DEF AccountsTypeOK
  <1>2. CASE NewPassword(c)
    <2>1. user' \in [Users -> Account]
      BY <1>0, <1>2 DEF NewPassword, AccountsTypeOK, Account
    <2>2. GoTo(c, "last") /\ UNCHANGED <<member, invites, mails, tokens, failures, cut, calls>>
      BY <1>2 DEF NewPassword
    <2>3. QED
      BY <2>1, <2>2, GoesOn DEF AccountsTypeOK
  <1>3. CASE RevokeAll(c)
    <2>1. tokens' \in Seq(Token)
      BY <1>0, <1>3, RevokedType DEF RevokeAll
    <2>2. Finish(c) /\ UNCHANGED <<user, member, invites, mails, failures, cut, calls>>
      BY <1>3 DEF RevokeAll
    <2>3. QED
      BY <2>1, <2>2, Ends DEF AccountsTypeOK
  <1>4. CASE BeginLogin(c)
    <2>1. PICK u \in Users, o \in Origins :
             \/ Begin(c, [Call("login", "commit", u) EXCEPT !.origin = o])
             \/ Begin(c, [Call("login", "commit", u) EXCEPT !.flag = TRUE])
      BY <1>4 DEF BeginLogin
    <2>. DEFINE call == Call("login", "commit", u)
    <2>2. call \in Session /\ call.op = "login" /\ call.pc = "commit"
      BY CallType DEF Ops
    <2>. HIDE DEF call
    <2>3. PICK s \in Session : s.op = "login" /\ s.pc = "commit" /\ Begin(c, s)
      <3>1. /\ [call EXCEPT !.origin = o] \in Session /\ [call EXCEPT !.flag = TRUE] \in Session
            /\ [call EXCEPT !.origin = o].op = "login" /\ [call EXCEPT !.flag = TRUE].op = "login"
            /\ [call EXCEPT !.origin = o].pc = "commit" /\ [call EXCEPT !.flag = TRUE].pc = "commit"
        BY <2>2 DEF Session
      <3>2. QED
        BY <2>1, <3>1 DEF call
    <2>4. QED
      BY <2>3, Begins
  <1>5. CASE RecordLogin(c)
    <2>0. session[c].user \in Users /\ session[c].origin \in Origins
      BY DEF TypeInv, AccountsTypeOK, Session
    <2>. DEFINE f == failures[session[c].user]
                g == [f EXCEPT ![session[c].origin] = @ + 1]
    <2>1. failures' \in [Users -> [Origins -> Nat]]
      <3>0. failures \in [Users -> [Origins -> Nat]]
        BY DEF TypeInv, AccountsTypeOK
      <3>1. g \in [Origins -> Nat]
        BY <2>0, <3>0
      <3>2. failures' = failures \/ failures' = [failures EXCEPT ![session[c].user] = g]
        BY <1>5, Zenon DEF RecordLogin
      <3>. HIDE DEF g
      <3>3. QED
        BY <2>0, <3>0, <3>1, <3>2
    <2>2. UNCHANGED <<user, member, invites, mails, tokens, cut, calls>> /\ (Finish(c) \/ GoTo(c, "last"))
      BY <1>5 DEF RecordLogin
    <2>3. QED
      BY <2>1, <2>2, Ends, GoesOn DEF AccountsTypeOK
  <1>6. CASE IssueToken(c)
    <2>. DEFINE x == [user |-> session[c].user, password |-> session[c].password,
                      late |-> session[c].password # user[session[c].user].password,
                      revoked |-> FALSE]
    <2>1. x \in Token
      BY <1>0 DEF Token
    <2>2. tokens' = Append(tokens, x) /\ Finish(c)
          /\ UNCHANGED <<user, member, invites, mails, failures, cut, calls>>
      BY <1>6 DEF IssueToken
    <2>. HIDE DEF x
    <2>3. tokens' \in Seq(Token)
      BY <2>1, <2>2, NewRow DEF AccountsTypeOK
    <2>4. QED
      BY <2>2, <2>3, Ends DEF AccountsTypeOK
  <1>7. CASE Logout(c)
    <2>1. PICK t \in DOMAIN tokens : tokens' = [tokens EXCEPT ![t].revoked = TRUE]
      BY <1>7 DEF Logout
    <2>2. tokens' \in [DOMAIN tokens -> Token]
      BY <2>1, RowTypes DEF Token
    <2>3. tokens' \in Seq(Token)
      BY <2>2, ChangedRows DEF AccountsTypeOK
    <2>4. UNCHANGED <<user, member, invites, mails, failures, session, cut>> /\ calls' = calls + 1
      BY <1>7 DEF Logout, AtOnce
    <2>5. QED
      BY <2>3, <2>4, SessionStays DEF AccountsTypeOK
  <1>8. CASE Crash(c)
    <2>1. cut' \in [Users -> BOOLEAN]
      BY <1>0, <1>8 DEF Crash, AccountsTypeOK, At
    <2>2. Finish(c) /\ UNCHANGED <<user, member, invites, mails, tokens, failures, calls>>
      BY <1>8 DEF Crash
    <2>3. QED
      BY <2>1, <2>2, Ends DEF AccountsTypeOK
  <1>9. QED
    BY <1>1, <1>2, <1>3, <1>4, <1>5, <1>6, <1>7, <1>8 DEF FinishReset

\* What is written to the memberships.
LEMMA MemberWritten ==
    ASSUME TypeInv, NEW c \in Clients, CommitMember(c)
    PROVE  \E m \in Membership :
              /\ member' = member \/ member' = [member EXCEPT ![session[c].user] = m]
              /\ \/ m = NoMembership
                 \/ At(c, "role", "commit") /\ m = NewRole(session[c])
                 \/ At(c, "status", "commit") /\ m = NewStatus(session[c])
  <1>1. /\ session[c].read \in Membership /\ session[c].role \in Roles
        /\ session[c].flag \in BOOLEAN
    BY DEF TypeInv, AccountsTypeOK, Session
  <1>2. /\ NewRole(session[c]) \in Membership /\ NewStatus(session[c]) \in Membership
        /\ NoMembership \in Membership
    BY <1>1 DEF NewRole, NewStatus, Membership, NoMembership
  <1>3. CASE session[c].op = "role" /\ WriteMember(session[c], NewRole(session[c]))
    BY <1>2, <1>3 DEF CommitMember, WriteMember, At
  <1>4. CASE session[c].op = "status" /\ WriteMember(session[c], NewStatus(session[c]))
    BY <1>2, <1>4 DEF CommitMember, WriteMember, At
  <1>5. CASE member' \in {member, [member EXCEPT ![session[c].user] = NoMembership]}
    BY <1>2, <1>5
  <1>6. QED
    BY <1>3, <1>4, <1>5 DEF CommitMember

\* What an acceptance writes.
LEMMA InviteAccepted ==
    ASSUME TypeInv, NEW c \in Clients, CommitAccept(c)
    PROVE  /\ session[c].item \in DOMAIN invites
           /\ invites' \in Seq(Invite) /\ DOMAIN invites' = DOMAIN invites
           /\ \A i \in DOMAIN invites :
                 /\ invites'[i].role = invites[i].role
                 /\ i # session[c].item => invites'[i] = invites[i]
           /\ \/ UNCHANGED <<member, invites>>
              \/ /\ UNCHANGED member
                 /\ invites' = [invites EXCEPT ![session[c].item].accepted = TRUE]
              \/ /\ session[c].flag /\ ~IsMember(session[c].user)
                 /\ member' = [member EXCEPT ![session[c].user] =
                                  [role |-> session[c].role, suspended |-> FALSE,
                                   id |-> session[c].no]]
                 /\ invites' = [invites EXCEPT ![session[c].item].accepted = TRUE,
                                   ![session[c].item].admitted = @ + 1,
                                   ![session[c].item].raced = @ \/ \E d \in Clients \ {c} :
                                       At(d, "accept", "commit") /\ session[d].item = session[c].item]
  <1>. DEFINE i == session[c].item
              others == \E d \in Clients \ {c} : At(d, "accept", "commit") /\ session[d].item = i
  <1>1. i \in DOMAIN invites
    BY SMTT(60) DEF CommitAccept, TypeInv, ItemsKnown
  <1>2. /\ invites[i] \in Invite
        /\ [invites[i] EXCEPT !.accepted = TRUE] \in Invite
        /\ \A b \in BOOLEAN :
              [invites[i] EXCEPT !.accepted = TRUE, !.admitted = @ + 1, !.raced = @ \/ b] \in Invite
    <2>1. invites[i] \in Invite
      BY <1>1, RowTypes DEF TypeInv
    <2>2. ASSUME NEW b \in BOOLEAN
          PROVE  [invites[i] EXCEPT !.accepted = TRUE, !.admitted = @ + 1, !.raced = @ \/ b] \in Invite
      <3>1. (invites[i].raced \/ b) \in BOOLEAN /\ invites[i].admitted + 1 \in Nat
        BY <2>1 DEF Invite
      <3>2. QED
        BY <2>1, <3>1 DEF Invite
    <2>3. QED
      BY <2>1, <2>2 DEF Invite
  <1>3. \/ UNCHANGED <<member, invites>>
        \/ /\ UNCHANGED member
           /\ invites' = [invites EXCEPT ![i].accepted = TRUE]
        \/ /\ session[c].flag /\ ~IsMember(session[c].user)
           /\ member' = [member EXCEPT ![session[c].user] =
                            [role |-> session[c].role, suspended |-> FALSE, id |-> session[c].no]]
           /\ invites' = [invites EXCEPT ![i].accepted = TRUE, ![i].admitted = @ + 1,
                                         ![i].raced = @ \/ others]
    BY DEF CommitAccept
  <1>4. \E x \in Invite : /\ invites' = invites \/ invites' = [invites EXCEPT ![i] = x]
                          /\ x.role = invites[i].role
    <2>1. others \in BOOLEAN
      BY SMTT(60)
    <2>. HIDE DEF others
    <2>2. CASE invites' = [invites EXCEPT ![i].accepted = TRUE]
      BY <1>1, <1>2, <2>2, ZenonT(90) DEF Invite
    <2>3. CASE invites' = [invites EXCEPT ![i].accepted = TRUE, ![i].admitted = @ + 1,
                                          ![i].raced = @ \/ others]
      <3>. DEFINE x == [invites[i] EXCEPT !.accepted = TRUE, !.admitted = @ + 1, !.raced = @ \/ others]
      <3>1. x \in Invite /\ x.role = invites[i].role
        BY <1>2, <2>1 DEF Invite
      <3>2. invites' = [invites EXCEPT ![i] = x]
        BY <2>3
      <3>. HIDE DEF x
      <3>3. QED
        BY <3>1, <3>2
    <2>4. QED
      BY <1>2, <1>3, <2>2, <2>3
  <1>5. PICK x \in Invite : /\ invites' = invites \/ invites' = [invites EXCEPT ![i] = x]
                            /\ x.role = invites[i].role
    BY <1>4
  <1>6. invites' \in [DOMAIN invites -> Invite]
    BY <1>1, <1>5, RowTypes DEF TypeInv
  <1>7. invites' \in Seq(Invite) /\ DOMAIN invites' = DOMAIN invites
    BY <1>6, ChangedRows DEF TypeInv, AccountsTypeOK
  <1>8. \A j \in DOMAIN invites : /\ invites'[j].role = invites[j].role
                                  /\ j # i => invites'[j] = invites[j]
    BY <1>1, <1>5, RowTypes DEF TypeInv
  <1>9. QED
    BY <1>1, <1>3, <1>7, <1>8, SMTT(60)

LEMMA TypeOfMember ==
    ASSUME TypeInv, NEW c \in Clients,
           \/ InviteMember(c) \/ BeginAccept(c) \/ CommitAccept(c)
           \/ BeginRole(c) \/ BeginStatus(c) \/ BeginRemove(c) \/ CommitMember(c)
    PROVE  TypeInv'
  <1>. USE DEF TypeInv
  <1>0. session[c] \in Session
    BY DEF AccountsTypeOK
  <1>1. CASE InviteMember(c)
    <2>1. PICK u \in Users, role \in Offered :
             invites' = Append(invites, [user |-> u, role |-> role, accepted |-> FALSE,
                                         admitted |-> 0, raced |-> FALSE])
      BY <1>1 DEF InviteMember
    <2>2. [user |-> u, role |-> role, accepted |-> FALSE, admitted |-> 0, raced |-> FALSE] \in Invite
      BY AccountsAssumption DEF Invite
    <2>3. invites' \in Seq(Invite) /\ DOMAIN invites \subseteq DOMAIN invites'
      BY <2>1, <2>2, NewRow DEF AccountsTypeOK
    <2>4. UNCHANGED <<user, member, mails, tokens, failures, session, cut>> /\ calls' = calls + 1
      BY <1>1 DEF InviteMember, AtOnce
    <2>5. QED
      BY <2>3, <2>4, SessionStays DEF AccountsTypeOK
  <1>2. CASE BeginAccept(c)
    <2>1. PICK i \in DOMAIN invites :
             Begin(c, [Call("accept", "commit", invites[i].user) EXCEPT
                          !.item = i, !.role = invites[i].role, !.flag = ~IsMember(invites[i].user)])
      BY <1>2 DEF BeginAccept
    <2>. DEFINE call == Call("accept", "commit", invites[i].user)
                b == ~IsMember(invites[i].user)
                s == [call EXCEPT !.item = i, !.role = invites[i].role, !.flag = b]
    <2>2. invites[i].user \in Users /\ invites[i].role \in Roles /\ i \in Nat /\ b \in BOOLEAN
      BY RowTypes DEF Invite
    <2>3. call \in Session
      BY <2>2, CallType DEF Ops
    <2>. HIDE DEF call, b
    <2>4. s \in Session /\ s.item = i /\ s.pc = call.pc
      BY <2>2, <2>3 DEF Session
    <2>5. call.pc = "commit"
      BY <2>2, CallType DEF call, Ops
    <2>6. Begin(c, s)
      BY <2>1 DEF call, b
    <2>. HIDE DEF s
    <2>7. QED
      BY <2>4, <2>5, <2>6, Begins
  <1>3. CASE CommitAccept(c)
    <2>1. invites' \in Seq(Invite) /\ DOMAIN invites' = DOMAIN invites
      BY <1>3, InviteAccepted
    <2>2. [role |-> session[c].role, suspended |-> FALSE, id |-> session[c].no] \in Membership
      BY <1>0 DEF Session, Membership
    <2>3. member' \in [Users -> Membership]
      <3>. DEFINE m == [role |-> session[c].role, suspended |-> FALSE, id |-> session[c].no]
      <3>1. member' = member \/ member' = [member EXCEPT ![session[c].user] = m]
        BY <1>3, InviteAccepted
      <3>2. m \in Membership
        BY <2>2, SMTT(60)
      <3>. HIDE DEF m
      <3>3. QED
        BY <3>1, <3>2 DEF AccountsTypeOK
    <2>4. Finish(c) /\ UNCHANGED <<user, mails, tokens, failures, cut, calls>>
      BY <1>3 DEF CommitAccept
    <2>5. QED
      BY <2>1, <2>3, <2>4, Ends, SMTT(60) DEF AccountsTypeOK
  <1>4. CASE BeginRole(c)
    <2>1. PICK u \in Users, role \in Offered :
             Begin(c, [Call("role", "commit", u) EXCEPT !.role = role])
      BY <1>4 DEF BeginRole
    <2>. DEFINE call == Call("role", "commit", u)
                s == [call EXCEPT !.role = role]
    <2>2. call \in Session /\ call.op = "role" /\ call.pc = "commit"
      BY CallType DEF Ops
    <2>. HIDE DEF call
    <2>3. s \in Session /\ s.op = "role" /\ s.pc = "commit"
      BY <2>2, AccountsAssumption DEF Session
    <2>4. Begin(c, s)
      BY <2>1 DEF call
    <2>. HIDE DEF s
    <2>5. QED
      BY <2>3, <2>4, Begins
  <1>5. CASE BeginStatus(c)
    <2>1. PICK u \in Users, suspend \in BOOLEAN :
             Begin(c, [Call("status", "commit", u) EXCEPT !.flag = suspend])
      BY <1>5 DEF BeginStatus
    <2>. DEFINE call == Call("status", "commit", u)
                s == [call EXCEPT !.flag = suspend]
    <2>2. call \in Session /\ call.op = "status" /\ call.pc = "commit"
      BY CallType DEF Ops
    <2>. HIDE DEF call
    <2>3. s \in Session /\ s.op = "status" /\ s.pc = "commit"
      BY <2>2 DEF Session
    <2>4. Begin(c, s)
      BY <2>1 DEF call
    <2>. HIDE DEF s
    <2>5. QED
      BY <2>3, <2>4, Begins
  <1>6. CASE BeginRemove(c)
    <2>1. PICK u \in Users : Begin(c, Call("remove", "commit", u))
      BY <1>6 DEF BeginRemove
    <2>2. QED
      BY <2>1, CallType, Begins DEF Ops
  <1>7. CASE CommitMember(c)
    <2>1. member' \in [Users -> Membership]
      BY <1>7, MemberWritten DEF AccountsTypeOK
    <2>2. Finish(c) /\ UNCHANGED <<user, invites, mails, tokens, failures, cut, calls>>
      BY <1>7 DEF CommitMember
    <2>3. QED
      BY <2>1, <2>2, Ends DEF AccountsTypeOK
  <1>8. QED
    BY <1>1, <1>2, <1>3, <1>4, <1>5, <1>6, <1>7

LEMMA TypeOfInit == Init => TypeInv
  <1>. SUFFICES ASSUME Init PROVE TypeInv
    OBVIOUS
  <1>1. member \in [Users -> Membership]
    <2>1. \A u \in Users : FirstMembers[u] # NotAMember =>
             [role |-> FirstMembers[u], suspended |-> FALSE, id |-> MaxCalls + 1] \in Membership
      BY AccountsAssumption DEF Membership
    <2>2. NoMembership \in Membership
      BY DEF NoMembership, Membership
    <2>3. QED
      BY <2>1, <2>2 DEF Init
  <1>2. user \in [Users -> Account]
    BY DEF Init, Account
  <1>3. invites \in Seq(Invite)
    <2>1. CASE invites = << >>
      BY <2>1, EmptySeq
    <2>2. ASSUME NEW u \in Users, NEW role \in Roles,
                 invites = <<[user |-> u, role |-> role, accepted |-> FALSE,
                              admitted |-> 0, raced |-> FALSE]>>
          PROVE  invites \in Seq(Invite)
      <3>1. [user |-> u, role |-> role, accepted |-> FALSE, admitted |-> 0, raced |-> FALSE] \in Invite
        BY DEF Invite
      <3>2. QED
        BY <2>2, <3>1
    <2>3. QED
      BY <2>1, <2>2 DEF Init
  <1>4. mails \in Seq(Mail) /\ tokens \in Seq(Token)
    BY EmptySeq DEF Init
  <1>5. session \in [Clients -> Session] /\ ItemsKnown
    BY NoCallType DEF Init, ItemsKnown, At
  <1>6. QED
    BY <1>1, <1>2, <1>3, <1>4, <1>5 DEF Init, TypeInv, AccountsTypeOK

LEMMA TypeStep == TypeInv /\ [Next]_vars => TypeInv'
  <1>. SUFFICES ASSUME TypeInv, [Next]_vars PROVE TypeInv'
    OBVIOUS
  <1>1. ASSUME NEW u \in Users, NEW o \in Origins, ForgetAttempt(u, o) PROVE TypeInv'
    <2>1. failures' \in [Users -> [Origins -> Nat]]
      BY <1>1 DEF ForgetAttempt, TypeInv, AccountsTypeOK
    <2>2. UNCHANGED <<user, member, invites, mails, tokens, session, cut, calls>>
      BY <1>1 DEF ForgetAttempt
    <2>3. QED
      BY <2>1, <2>2, SessionStays DEF TypeInv, AccountsTypeOK
  <1>2. CASE UNCHANGED vars
    BY <1>2 DEF vars, TypeInv, AccountsTypeOK, ItemsKnown, At
  <1>3. QED
    BY <1>1, <1>2, TypeOfMail, TypeOfLogin, TypeOfMember DEF Next

\* Users, members, invites, mails, tokens and requests are well formed, and what a
\* request under way has read is still there to be written, for any number of users
\* and requests.
THEOREM AccountsWellFormed == Spec => []AccountsTypeOK
  <1>1. TypeInv => AccountsTypeOK
    BY DEF TypeInv
  <1>2. QED
    BY <1>1, TypeOfInit, TypeStep, PTL DEF Spec

-----------------------------------------------------------------------------
(* One owner. *)

\* A role that is going to be written is not that of the owner, and a row that is
\* going to be changed or removed is not the owner's.
Guarded(s) ==
    /\ s.op \in {"role", "accept"} => s.role # "owner"
    /\ s.op \in {"role", "status", "remove"} => s.user # Founder /\ s.read.role # "owner"

OwnerInv ==
    /\ OneOwner
    /\ \A i \in DOMAIN invites : invites[i].role # "owner"
    /\ \A c \in Clients : Guarded(session[c])

LEMMA OwnerBegins ==
    ASSUME TypeInv, OwnerInv, NEW c \in Clients, NEW s \in Session, Begin(c, s), Guarded(s)
    PROVE  OwnerInv'
  <1>1. UNCHANGED <<member, invites>> /\ session' = [session EXCEPT ![c] = s]
    BY DEF Begin
  <1>2. \A d \in Clients : Guarded(session'[d])
    BY <1>1 DEF OwnerInv, TypeInv, AccountsTypeOK
  <1>3. QED
    BY <1>1, <1>2 DEF OwnerInv, OneOwner, Guarded

\* Ending a request, or its next step, leaves the others guarded and itself too.
LEMMA GuardsStay ==
    ASSUME TypeInv, OwnerInv,
           \/ UNCHANGED session
           \/ \E c \in Clients : Finish(c) \/ \E pc \in {"finish", "last"} : GoTo(c, pc)
    PROVE  \A c \in Clients : Guarded(session'[c])
  <1>1. CASE UNCHANGED session
    BY <1>1 DEF OwnerInv
  <1>2. ASSUME NEW c \in Clients, Finish(c) PROVE \A d \in Clients : Guarded(session'[d])
    <2>1. Guarded(NoCall)
      BY NoCallType DEF Guarded
    <2>2. QED
      BY <1>2, <2>1 DEF Finish, OwnerInv, TypeInv, AccountsTypeOK
  <1>3. ASSUME NEW c \in Clients, NEW pc \in {"finish", "last"}, GoTo(c, pc)
        PROVE  \A d \in Clients : Guarded(session'[d])
    <2>. DEFINE s == [session[c] EXCEPT !.pc = pc]
    <2>1. s.op = session[c].op /\ s.role = session[c].role /\ s.user = session[c].user
          /\ s.read = session[c].read
      BY DEF TypeInv, AccountsTypeOK, Session
    <2>2. session' = [session EXCEPT ![c] = s]
      BY <1>3 DEF GoTo
    <2>. HIDE DEF s
    <2>3. Guarded(s)
      BY <2>1 DEF OwnerInv, Guarded
    <2>4. QED
      BY <2>2, <2>3 DEF OwnerInv, TypeInv, AccountsTypeOK
  <1>4. QED
    BY <1>1, <1>2, <1>3

LEMMA OwnerStays ==
    ASSUME TypeInv, OwnerInv, UNCHANGED <<member, invites>>,
           \A c \in Clients : Guarded(session'[c])
    PROVE  OwnerInv'
  BY DEF OwnerInv, OneOwner, Guarded

\* The steps that neither touch a membership nor begin a request about one.
LEMMA OwnerOfOthers ==
    ASSUME TypeInv, OwnerInv, NEW c \in Clients,
           \/ BeginRegister(c) \/ CommitRegister(c) \/ SendMail(c) \/ BeginMail(c)
           \/ UseMail(c) \/ FinishVerify(c) \/ FinishReset(c) \/ BeginLogin(c)
           \/ RecordLogin(c) \/ IssueToken(c) \/ Logout(c) \/ Crash(c)
    PROVE  OwnerInv'
  <1>1. CASE BeginRegister(c)
    <2>1. PICK u \in Users : Begin(c, Call("register", "commit", u))
      BY <1>1 DEF BeginRegister
    <2>2. Call("register", "commit", u) \in Session /\ Call("register", "commit", u).op = "register"
      BY CallType DEF Ops, TypeInv
    <2>3. QED
      BY <2>1, <2>2, OwnerBegins DEF Guarded
  <1>2. CASE BeginMail(c)
    <2>1. PICK m \in DOMAIN mails :
             Begin(c, [Call(mails[m].kind, "use", mails[m].user) EXCEPT !.item = m])
      BY <1>2 DEF BeginMail
    <2>. DEFINE call == Call(mails[m].kind, "use", mails[m].user)
                s == [call EXCEPT !.item = m]
    <2>2. mails[m] \in Mail /\ m \in Nat
      BY RowTypes DEF TypeInv
    <2>3. mails[m].kind \in {"verify", "reset"} /\ mails[m].kind \in Ops /\ mails[m].user \in Users
      BY <2>2 DEF Mail, Ops
    <2>4. call \in Session /\ call.op = mails[m].kind
      BY <2>3, CallType DEF TypeInv
    <2>. HIDE DEF call
    <2>5. s \in Session /\ s.op \in {"verify", "reset"}
      BY <2>2, <2>3, <2>4 DEF Session
    <2>6. Begin(c, s)
      BY <2>1 DEF call
    <2>. HIDE DEF s
    <2>7. QED
      BY <2>5, <2>6, OwnerBegins DEF Guarded
  <1>3. CASE BeginLogin(c)
    <2>1. PICK u \in Users, o \in Origins :
             \/ Begin(c, [Call("login", "commit", u) EXCEPT !.origin = o])
             \/ Begin(c, [Call("login", "commit", u) EXCEPT !.flag = TRUE])
      BY <1>3 DEF BeginLogin
    <2>. DEFINE call == Call("login", "commit", u)
    <2>2. call \in Session /\ call.op = "login" /\ call.pc = "commit"
      BY CallType DEF Ops, TypeInv
    <2>. HIDE DEF call
    <2>3. PICK s \in Session : s.op = "login" /\ Begin(c, s)
      <3>1. /\ [call EXCEPT !.origin = o] \in Session /\ [call EXCEPT !.flag = TRUE] \in Session
            /\ [call EXCEPT !.origin = o].op = "login" /\ [call EXCEPT !.flag = TRUE].op = "login"
        BY <2>2 DEF Session
      <3>2. QED
        BY <2>1, <3>1 DEF call
    <2>4. QED
      BY <2>3, OwnerBegins DEF Guarded
  <1>4. CASE \/ CommitRegister(c) \/ SendMail(c) \/ UseMail(c) \/ FinishVerify(c)
             \/ FinishReset(c) \/ RecordLogin(c) \/ IssueToken(c) \/ Logout(c) \/ Crash(c)
    <2>1. UNCHANGED <<member, invites>>
      BY <1>4, SMTT(60) DEF CommitRegister, SendMail, UseMail, FinishVerify, FinishReset, NewPassword,
                  RevokeAll, RecordLogin, IssueToken, Logout, Crash
    <2>2. UNCHANGED session \/ Finish(c) \/ GoTo(c, "finish") \/ GoTo(c, "last")
      BY <1>4 DEF CommitRegister, SendMail, UseMail, FinishVerify, FinishReset, NewPassword,
                  RevokeAll, RecordLogin, IssueToken, Logout, Crash
    <2>3. QED
      BY <2>1, <2>2, GuardsStay, OwnerStays
  <1>5. QED
    BY <1>1, <1>2, <1>3, <1>4

LEMMA OwnerOfMembers ==
    ASSUME TypeInv, OwnerInv, NEW c \in Clients,
           \/ InviteMember(c) \/ BeginAccept(c) \/ CommitAccept(c)
           \/ BeginRole(c) \/ BeginStatus(c) \/ BeginRemove(c) \/ CommitMember(c)
    PROVE  OwnerInv'
  <1>0. /\ session[c] \in Session /\ session[c].user \in Users /\ session[c].read \in Membership
        /\ Guarded(session[c])
    BY DEF TypeInv, AccountsTypeOK, Session, OwnerInv
  <1>1. CASE InviteMember(c)
    <2>1. PICK u \in Users, role \in Offered :
             /\ role # "owner"
             /\ invites' = Append(invites, [user |-> u, role |-> role, accepted |-> FALSE,
                                            admitted |-> 0, raced |-> FALSE])
      BY <1>1 DEF InviteMember
    <2>. DEFINE x == [user |-> u, role |-> role, accepted |-> FALSE,
                      admitted |-> 0, raced |-> FALSE]
    <2>2. x \in Invite /\ x.role # "owner" /\ invites' = Append(invites, x)
      BY <2>1, AccountsAssumption DEF Invite
    <2>. HIDE DEF x
    <2>3. \A i \in DOMAIN invites' : invites'[i].role # "owner"
      BY <2>2, NewRow DEF OwnerInv, TypeInv, AccountsTypeOK
    <2>4. UNCHANGED <<member, session>>
      BY <1>1 DEF InviteMember, AtOnce
    <2>5. QED
      BY <2>3, <2>4 DEF OwnerInv, OneOwner, Guarded
  <1>2. CASE BeginAccept(c)
    <2>1. PICK i \in DOMAIN invites :
             /\ invites[i].role # "owner"
             /\ Begin(c, [Call("accept", "commit", invites[i].user) EXCEPT
                          !.item = i, !.role = invites[i].role, !.flag = ~IsMember(invites[i].user)])
      BY <1>2 DEF BeginAccept
    <2>. DEFINE call == Call("accept", "commit", invites[i].user)
                b == ~IsMember(invites[i].user)
                s == [call EXCEPT !.item = i, !.role = invites[i].role, !.flag = b]
    <2>2. invites[i].user \in Users /\ invites[i].role \in Roles /\ i \in Nat /\ b \in BOOLEAN
      BY RowTypes DEF Invite, TypeInv
    <2>3. call \in Session /\ call.op = "accept"
      BY <2>2, CallType DEF Ops, TypeInv
    <2>. HIDE DEF call, b
    <2>4. s \in Session /\ s.op = "accept" /\ s.role = invites[i].role
      BY <2>2, <2>3 DEF Session
    <2>5. Begin(c, s)
      BY <2>1 DEF call, b
    <2>. HIDE DEF s
    <2>6. QED
      BY <2>1, <2>4, <2>5, OwnerBegins, SMTT(60) DEF Guarded
  <1>3. CASE CommitAccept(c)
    <2>1. Finish(c) /\ session[c].op = "accept"
      BY <1>3 DEF CommitAccept, At
    <2>2. \A d \in Clients : Guarded(session'[d])
      BY <2>1, GuardsStay, SMTT(60)
    <2>3. \A i \in DOMAIN invites' : invites'[i].role # "owner"
      BY <1>3, InviteAccepted DEF OwnerInv
    <2>4. OneOwner'
      <3>. DEFINE m == [role |-> session[c].role, suspended |-> FALSE, id |-> session[c].no]
      <3>1. \/ member' = member
            \/ ~IsMember(session[c].user) /\ member' = [member EXCEPT ![session[c].user] = m]
        BY <1>3, InviteAccepted
      <3>2. m.role # "owner"
        BY <1>0, <2>1 DEF Guarded
      <3>. HIDE DEF m
      <3>3. IsMember(Founder) /\ Founder \in Users
        BY AccountsAssumption DEF OwnerInv, OneOwner, IsMember, NoMembership, NotAMember
      <3>4. QED
        BY <1>0, <3>1, <3>2, <3>3 DEF OwnerInv, OneOwner, TypeInv, AccountsTypeOK
    <2>5. QED
      BY <2>2, <2>3, <2>4 DEF OwnerInv
  <1>4. CASE BeginRole(c)
    <2>1. PICK u \in Users, role \in Offered :
             /\ member[u].role # "owner" /\ role # "owner"
             /\ Begin(c, [Call("role", "commit", u) EXCEPT !.role = role])
      BY <1>4 DEF BeginRole
    <2>. DEFINE call == Call("role", "commit", u)
                s == [call EXCEPT !.role = role]
    <2>2. call \in Session /\ call.op = "role" /\ call.user = u /\ call.read = member[u]
      BY CallType DEF Ops, TypeInv
    <2>. HIDE DEF call
    <2>3. s \in Session /\ s.op = "role" /\ s.user = u /\ s.read = member[u] /\ s.role = role
      BY <2>2, AccountsAssumption DEF Session
    <2>4. Begin(c, s)
      BY <2>1 DEF call
    <2>. HIDE DEF s
    <2>5. u # Founder
      BY <2>1 DEF OwnerInv, OneOwner
    <2>6. QED
      BY <2>1, <2>3, <2>4, <2>5, OwnerBegins DEF Guarded
  <1>5. CASE BeginStatus(c)
    <2>1. PICK u \in Users, suspend \in BOOLEAN :
             /\ member[u].role # "owner"
             /\ Begin(c, [Call("status", "commit", u) EXCEPT !.flag = suspend])
      BY <1>5 DEF BeginStatus
    <2>. DEFINE call == Call("status", "commit", u)
                s == [call EXCEPT !.flag = suspend]
    <2>2. call \in Session /\ call.op = "status" /\ call.user = u /\ call.read = member[u]
      BY CallType DEF Ops, TypeInv
    <2>. HIDE DEF call
    <2>3. s \in Session /\ s.op = "status" /\ s.user = u /\ s.read = member[u]
      BY <2>2 DEF Session
    <2>4. Begin(c, s)
      BY <2>1 DEF call
    <2>. HIDE DEF s
    <2>5. u # Founder
      BY <2>1 DEF OwnerInv, OneOwner
    <2>6. QED
      BY <2>1, <2>3, <2>4, <2>5, OwnerBegins DEF Guarded
  <1>6. CASE BeginRemove(c)
    <2>1. PICK u \in Users : member[u].role # "owner" /\ Begin(c, Call("remove", "commit", u))
      BY <1>6 DEF BeginRemove
    <2>. DEFINE s == Call("remove", "commit", u)
    <2>2. s \in Session /\ s.op = "remove" /\ s.user = u /\ s.read = member[u]
      BY CallType DEF Ops, TypeInv
    <2>. HIDE DEF s
    <2>3. Begin(c, s)
      BY <2>1 DEF s
    <2>4. u # Founder
      BY <2>1 DEF OwnerInv, OneOwner
    <2>5. QED
      BY <2>1, <2>2, <2>3, <2>4, OwnerBegins DEF Guarded
  <1>7. CASE CommitMember(c)
    <2>1. Finish(c) /\ UNCHANGED invites /\ session[c].op \in {"role", "status", "remove"}
      BY <1>7 DEF CommitMember
    <2>2. \A d \in Clients : Guarded(session'[d])
      BY <2>1, GuardsStay
    <2>3. PICK m \in Membership :
             /\ member' = member \/ member' = [member EXCEPT ![session[c].user] = m]
             /\ \/ m = NoMembership
                \/ At(c, "role", "commit") /\ m = NewRole(session[c])
                \/ At(c, "status", "commit") /\ m = NewStatus(session[c])
      BY <1>7, MemberWritten
    <2>4. m.role # "owner"
      <3>1. CASE m = NoMembership
        BY <3>1 DEF NoMembership, NotAMember
      <3>2. CASE At(c, "role", "commit") /\ m = NewRole(session[c])
        BY <1>0, <3>2 DEF At, NewRole, Guarded, Membership
      <3>3. CASE At(c, "status", "commit") /\ m = NewStatus(session[c])
        BY <1>0, <3>3 DEF At, NewStatus, Guarded, Membership
      <3>4. QED
        BY <2>3, <3>1, <3>2, <3>3
    <2>5. session[c].user # Founder
      BY <1>0, <2>1 DEF Guarded
    <2>6. OneOwner'
      BY <1>0, <2>3, <2>4, <2>5, AccountsAssumption DEF OwnerInv, OneOwner, TypeInv, AccountsTypeOK
    <2>7. QED
      BY <2>1, <2>2, <2>6 DEF OwnerInv
  <1>8. QED
    BY <1>1, <1>2, <1>3, <1>4, <1>5, <1>6, <1>7

\* Any number of administrators who invite, change roles, suspend and remove at the
\* same time leave the workspace with one owner, its founder, who is not suspended.
THEOREM AlwaysOneOwner == Spec => []OneOwner
  <1>1. Init => TypeInv /\ OwnerInv
    <2>. SUFFICES ASSUME Init PROVE OwnerInv
      BY TypeOfInit
    <2>1. OneOwner
      BY AccountsAssumption DEF Init, OneOwner, NoMembership, NotAMember, Roles
    <2>2. \A i \in DOMAIN invites : invites[i].role # "owner"
      <3>1. CASE invites = << >>
        BY <3>1
      <3>2. ASSUME NEW u, NEW role \in Roles \ {"owner"},
                   invites = <<[user |-> u, role |-> role, accepted |-> FALSE,
                                admitted |-> 0, raced |-> FALSE]>>
            PROVE  \A i \in DOMAIN invites : invites[i].role # "owner"
        BY <3>2
      <3>3. QED
        BY <3>1, <3>2 DEF Init
    <2>3. \A c \in Clients : Guarded(session[c])
      BY NoCallType DEF Init, Guarded
    <2>4. QED
      BY <2>1, <2>2, <2>3 DEF OwnerInv
  <1>2. TypeInv /\ OwnerInv /\ [Next]_vars => TypeInv' /\ OwnerInv'
    <2>. SUFFICES ASSUME TypeInv, OwnerInv, [Next]_vars PROVE OwnerInv'
      BY TypeStep
    <2>1. ASSUME NEW u \in Users, NEW o \in Origins, ForgetAttempt(u, o) PROVE OwnerInv'
      BY <2>1, GuardsStay, OwnerStays DEF ForgetAttempt
    <2>2. CASE UNCHANGED vars
      BY <2>2, GuardsStay, OwnerStays DEF vars
    <2>3. QED
      BY <2>1, <2>2, OwnerOfOthers, OwnerOfMembers DEF Next
  <1>3. OwnerInv => OneOwner
    BY DEF OwnerInv
  <1>4. QED
    BY <1>1, <1>2, <1>3, PTL DEF Spec

-----------------------------------------------------------------------------
(* How requests move. *)

\* What a request has read when it begins.
Opens(c, s) ==
    /\ Begin(c, s)
    /\ \/ s.op = "register" /\ s.pc = "commit"
       \/ s.op \in {"verify", "reset"} /\ s.pc = "use"
       \/ /\ s.op = "login" /\ s.pc = "commit" /\ BeginLogin(c)
          /\ s.user \in Users /\ (s.flag \/ ~Locked(s.user, s.origin))
       \/ /\ s.op = "accept" /\ s.pc = "commit"
          /\ s.item \in DOMAIN invites /\ ~invites[s.item].accepted
       \/ s.op \in {"role", "status", "remove"} /\ s.pc = "commit"

LEMMA RequestOpens ==
    ASSUME TypeInv, NEW c \in Clients,
           \/ BeginRegister(c) \/ BeginMail(c) \/ BeginLogin(c) \/ BeginAccept(c)
           \/ BeginRole(c) \/ BeginStatus(c) \/ BeginRemove(c)
    PROVE  \E s \in Session : Opens(c, s)
  <1>1. CASE BeginRegister(c)
    <2>1. PICK u \in Users : Begin(c, Call("register", "commit", u))
      BY <1>1 DEF BeginRegister
    <2>2. /\ Call("register", "commit", u) \in Session
          /\ Call("register", "commit", u).op = "register"
          /\ Call("register", "commit", u).pc = "commit"
      BY CallType DEF Ops, TypeInv
    <2>3. QED
      BY <2>1, <2>2 DEF Opens
  <1>2. CASE BeginMail(c)
    <2>1. PICK m \in DOMAIN mails :
             Begin(c, [Call(mails[m].kind, "use", mails[m].user) EXCEPT !.item = m])
      BY <1>2 DEF BeginMail
    <2>. DEFINE call == Call(mails[m].kind, "use", mails[m].user)
                s == [call EXCEPT !.item = m]
    <2>2. mails[m] \in Mail /\ m \in Nat
      BY RowTypes DEF TypeInv
    <2>3. mails[m].kind \in {"verify", "reset"} /\ mails[m].kind \in Ops /\ mails[m].user \in Users
      BY <2>2 DEF Mail, Ops
    <2>4. call \in Session /\ call.op = mails[m].kind /\ call.pc = "use"
      BY <2>3, CallType DEF TypeInv
    <2>. HIDE DEF call
    <2>5. s \in Session /\ s.op \in {"verify", "reset"} /\ s.pc = "use"
      BY <2>2, <2>3, <2>4 DEF Session
    <2>6. Begin(c, s)
      BY <2>1 DEF call
    <2>. HIDE DEF s
    <2>7. QED
      BY <2>5, <2>6 DEF Opens
  <1>3. CASE BeginLogin(c)
    <2>1. PICK u \in Users, o \in Origins :
             /\ ~Locked(u, o)
             /\ \/ Begin(c, [Call("login", "commit", u) EXCEPT !.origin = o])
                \/ Begin(c, [Call("login", "commit", u) EXCEPT !.flag = TRUE])
      BY <1>3 DEF BeginLogin
    <2>. DEFINE call == Call("login", "commit", u)
    <2>2. call \in Session /\ call.op = "login" /\ call.pc = "commit" /\ call.user = u
      BY CallType DEF Ops, TypeInv
    <2>. HIDE DEF call
    <2>3. CASE Begin(c, [Call("login", "commit", u) EXCEPT !.origin = o])
      <3>. DEFINE s == [call EXCEPT !.origin = o]
      <3>1. s \in Session /\ s.op = "login" /\ s.pc = "commit" /\ s.user = u /\ s.origin = o
        BY <2>2 DEF Session
      <3>2. Begin(c, s)
        BY <2>3 DEF call
      <3>. HIDE DEF s
      <3>3. QED
        BY <1>3, <2>1, <3>1, <3>2 DEF Opens
    <2>4. CASE Begin(c, [Call("login", "commit", u) EXCEPT !.flag = TRUE])
      <3>. DEFINE s == [call EXCEPT !.flag = TRUE]
      <3>1. s \in Session /\ s.op = "login" /\ s.pc = "commit" /\ s.user = u /\ s.flag
        BY <2>2 DEF Session
      <3>2. Begin(c, s)
        BY <2>4 DEF call
      <3>. HIDE DEF s
      <3>3. QED
        BY <1>3, <3>1, <3>2 DEF Opens
    <2>5. QED
      BY <2>1, <2>3, <2>4
  <1>4. CASE BeginAccept(c)
    <2>1. PICK i \in DOMAIN invites :
             /\ ~invites[i].accepted
             /\ Begin(c, [Call("accept", "commit", invites[i].user) EXCEPT
                          !.item = i, !.role = invites[i].role, !.flag = ~IsMember(invites[i].user)])
      BY <1>4 DEF BeginAccept
    <2>. DEFINE call == Call("accept", "commit", invites[i].user)
                b == ~IsMember(invites[i].user)
                s == [call EXCEPT !.item = i, !.role = invites[i].role, !.flag = b]
    <2>2. invites[i].user \in Users /\ invites[i].role \in Roles /\ i \in Nat /\ b \in BOOLEAN
      BY RowTypes DEF Invite, TypeInv
    <2>3. call \in Session /\ call.op = "accept" /\ call.pc = "commit"
      BY <2>2, CallType DEF Ops, TypeInv
    <2>. HIDE DEF call, b
    <2>4. s \in Session /\ s.op = "accept" /\ s.pc = "commit" /\ s.item = i
      BY <2>2, <2>3 DEF Session
    <2>5. Begin(c, s)
      BY <2>1 DEF call, b
    <2>. HIDE DEF s
    <2>6. QED
      BY <2>1, <2>4, <2>5 DEF Opens
  <1>5. CASE BeginRole(c)
    <2>1. PICK u \in Users, role \in Offered :
             Begin(c, [Call("role", "commit", u) EXCEPT !.role = role])
      BY <1>5 DEF BeginRole
    <2>. DEFINE call == Call("role", "commit", u)
                s == [call EXCEPT !.role = role]
    <2>2. call \in Session /\ call.op = "role" /\ call.pc = "commit"
      BY CallType DEF Ops, TypeInv
    <2>. HIDE DEF call
    <2>3. s \in Session /\ s.op = "role" /\ s.pc = "commit"
      BY <2>2, AccountsAssumption DEF Session
    <2>4. Begin(c, s)
      BY <2>1 DEF call
    <2>. HIDE DEF s
    <2>5. QED
      BY <2>3, <2>4 DEF Opens
  <1>6. CASE BeginStatus(c)
    <2>1. PICK u \in Users, suspend \in BOOLEAN :
             Begin(c, [Call("status", "commit", u) EXCEPT !.flag = suspend])
      BY <1>6 DEF BeginStatus
    <2>. DEFINE call == Call("status", "commit", u)
                s == [call EXCEPT !.flag = suspend]
    <2>2. call \in Session /\ call.op = "status" /\ call.pc = "commit"
      BY CallType DEF Ops, TypeInv
    <2>. HIDE DEF call
    <2>3. s \in Session /\ s.op = "status" /\ s.pc = "commit"
      BY <2>2 DEF Session
    <2>4. Begin(c, s)
      BY <2>1 DEF call
    <2>. HIDE DEF s
    <2>5. QED
      BY <2>3, <2>4 DEF Opens
  <1>7. CASE BeginRemove(c)
    <2>1. PICK u \in Users : Begin(c, Call("remove", "commit", u))
      BY <1>7 DEF BeginRemove
    <2>2. /\ Call("remove", "commit", u) \in Session
          /\ Call("remove", "commit", u).op = "remove"
          /\ Call("remove", "commit", u).pc = "commit"
      BY CallType DEF Ops, TypeInv
    <2>3. QED
      BY <2>1, <2>2 DEF Opens
  <1>8. QED
    BY <1>1, <1>2, <1>3, <1>4, <1>5, <1>6, <1>7

\* A request stays where it is in its operation, or it has just begun.
LEMMA RequestsKept ==
    ASSUME TypeInv, NEW c \in Clients,
           \/ UNCHANGED session \/ Finish(c) \/ GoTo(c, "finish") \/ GoTo(c, "last")
           \/ \E s \in Session : Opens(c, s)
    PROVE  \A d \in Clients :
              \/ session'[d] = session[d]
              \/ d = c /\ session'[d] = NoCall
              \/ d = c /\ session'[d].pc \in {"finish", "last"} /\ session'[d].op = session[d].op
                       /\ session'[d].user = session[d].user
              \/ d = c /\ Opens(c, session'[d])
  <1>1. CASE UNCHANGED session
    BY <1>1
  <1>2. CASE Finish(c)
    BY <1>2 DEF Finish, TypeInv, AccountsTypeOK
  <1>3. ASSUME NEW pc \in {"finish", "last"}, GoTo(c, pc)
        PROVE  \A d \in Clients :
                  \/ session'[d] = session[d]
                  \/ d = c /\ session'[d].pc \in {"finish", "last"} /\ session'[d].op = session[d].op
                           /\ session'[d].user = session[d].user
    <2>. DEFINE s == [session[c] EXCEPT !.pc = pc]
    <2>1. s.pc = pc /\ s.op = session[c].op /\ s.user = session[c].user
      BY DEF TypeInv, AccountsTypeOK, Session
    <2>2. session' = [session EXCEPT ![c] = s]
      BY <1>3 DEF GoTo
    <2>. HIDE DEF s
    <2>3. QED
      BY <2>1, <2>2 DEF TypeInv, AccountsTypeOK
  <1>4. ASSUME NEW s \in Session, Opens(c, s)
        PROVE  \A d \in Clients : \/ session'[d] = session[d]
                                  \/ d = c /\ Opens(c, session'[d])
    BY <1>4 DEF Opens, Begin, TypeInv, AccountsTypeOK
  <1>5. QED
    BY <1>1, <1>2, <1>3, <1>4

-----------------------------------------------------------------------------
(* Suspensions. *)

SuspensionKept ==
    \A u \in Users :
        member[u].suspended /\ member'[u].id = member[u].id /\ IsMember(u)' /\ ~member'[u].suspended =>
            \E c \in Clients : /\ session'[c] = NoCall /\ session[c].user = u
                               /\ \/ At(c, "status", "commit")
                                  \/ At(c, "role", "commit") /\ ~session[c].read.suspended

LEMMA SuspensionStep ==
    ASSUME TypeInv, NEW c \in Clients, CommitMember(c) \/ CommitAccept(c)
    PROVE  SuspensionKept
  <1>. SUFFICES ASSUME NEW u \in Users,
                       member[u].suspended, IsMember(u)', ~member'[u].suspended
                PROVE  /\ session'[c] = NoCall /\ session[c].user = u
                       /\ \/ At(c, "status", "commit")
                          \/ At(c, "role", "commit") /\ ~session[c].read.suspended
    BY DEF SuspensionKept
  <1>0. /\ session[c] \in Session /\ session[c].user \in Users
        /\ member \in [Users -> Membership]
    BY SMTT(60) DEF TypeInv, AccountsTypeOK, Session
  <1>1. CASE CommitAccept(c)
    <2>. DEFINE m == [role |-> session[c].role, suspended |-> FALSE, id |-> session[c].no]
    <2>1. \/ member' = member
          \/ ~IsMember(session[c].user) /\ member' = [member EXCEPT ![session[c].user] = m]
      BY <1>1, InviteAccepted
    <2>. HIDE DEF m
    <2>2. member'[u] = member[u]
      BY <1>0, <2>1 DEF IsMember, NoMembership
    <2>3. QED
      BY <2>2, SMTT(60)
  <1>2. CASE CommitMember(c)
    <2>1. PICK m \in Membership :
             /\ member' = member \/ member' = [member EXCEPT ![session[c].user] = m]
             /\ \/ m = NoMembership
                \/ At(c, "role", "commit") /\ m = NewRole(session[c])
                \/ At(c, "status", "commit") /\ m = NewStatus(session[c])
      BY <1>2, MemberWritten
    <2>2. session[c].user = u /\ member'[u] = m
      BY <1>0, <2>1
    <2>3. m # NoMembership /\ ~m.suspended
      BY <2>2 DEF IsMember
    <2>4. At(c, "role", "commit") => ~session[c].read.suspended
      <3>1. session[c].read \in Membership
        BY <1>0 DEF Session
      <3>2. NewRole(session[c]).suspended = session[c].read.suspended
        BY <3>1 DEF NewRole, Membership
      <3>3. ~At(c, "role", "commit") \/ m = NewRole(session[c])
        BY <2>1, <2>3 DEF At
      <3>4. QED
        BY <2>3, <3>2, <3>3
    <2>5. session'[c] = NoCall
      BY <1>2 DEF CommitMember, Finish, TypeInv, AccountsTypeOK
    <2>6. QED
      BY <2>1, <2>2, <2>3, <2>4, <2>5
  <1>3. QED
    BY <1>1, <1>2

\* A suspension is lifted by a request to lift it, or by a role change that had read
\* the membership before, whoever else writes to it.
THEOREM SuspensionsStick == Spec => SuspensionSticks
  <1>1. TypeInv /\ [Next]_vars => [SuspensionKept]_vars
    <2>. SUFFICES ASSUME TypeInv, Next PROVE SuspensionKept
      OBVIOUS
    <2>1. CASE UNCHANGED member
      BY <2>1 DEF SuspensionKept
    <2>2. CASE \E c \in Clients : CommitMember(c) \/ CommitAccept(c)
      BY <2>2, SuspensionStep, SMTT(60)
    <2>3. UNCHANGED member \/ \E c \in Clients : CommitMember(c) \/ CommitAccept(c)
      BY ZenonT(90) DEF Next, BeginRegister, CommitRegister, SendMail, BeginMail, UseMail, FinishVerify,
             FinishReset, NewPassword, RevokeAll, BeginLogin, RecordLogin, IssueToken, Logout,
             InviteMember, BeginAccept, BeginRole, BeginStatus, BeginRemove, Crash,
             ForgetAttempt, Begin
    <2>4. QED
      BY <2>1, <2>2, <2>3
  <1>2. QED
    BY <1>1, TypeOfInit, TypeStep, PTL DEF Spec, SuspensionSticks, SuspensionKept

-----------------------------------------------------------------------------
(* The login lock. *)

\* Failed logins that have passed the lock and are not recorded yet.
Pending(u, o) ==
    {c \in Clients : /\ At(c, "login", "commit") /\ session[c].user = u
                     /\ session[c].origin = o /\ ~session[c].flag}

LockInv ==
    \A u \in Users, o \in Origins :
        failures[u][o] + Cardinality(Pending(u, o)) <= MaxAttempts - 1 + Cardinality(Clients)

LEMMA PendingFinite ==
    \A u \in Users, o \in Origins :
                     /\ IsFiniteSet(Pending(u, o)) /\ Cardinality(Pending(u, o)) \in Nat
                     /\ Cardinality(Pending(u, o)) <= Cardinality(Clients)
                     /\ Cardinality(Clients) \in Nat
  <1>. SUFFICES ASSUME NEW u \in Users, NEW o \in Origins
                PROVE  /\ IsFiniteSet(Pending(u, o)) /\ Cardinality(Pending(u, o)) \in Nat
                       /\ Cardinality(Pending(u, o)) <= Cardinality(Clients)
                       /\ Cardinality(Clients) \in Nat
    OBVIOUS
  <1>1. IsFiniteSet(Clients) /\ Pending(u, o) \subseteq Clients
    BY AccountsAssumption DEF Pending
  <1>2. QED
    BY <1>1, FS_Subset, FS_CardinalityType

LEMMA LockStep ==
    ASSUME TypeInv, LockInv, NEW u \in Users, NEW o \in Origins,
           \/ failures'[u][o] <= failures[u][o] /\ Pending(u, o)' \subseteq Pending(u, o)
           \/ failures'[u][o] <= MaxAttempts - 1
           \/ /\ failures'[u][o] = failures[u][o] + 1
              /\ \E c \in Pending(u, o) : Pending(u, o)' = Pending(u, o) \ {c},
           failures'[u][o] \in Nat
    PROVE  failures'[u][o] + Cardinality(Pending(u, o)') <= MaxAttempts - 1 + Cardinality(Clients)
  <1>0. /\ failures[u][o] \in Nat /\ MaxAttempts \in Nat \ {0}
        /\ failures[u][o] + Cardinality(Pending(u, o)) <= MaxAttempts - 1 + Cardinality(Clients)
        /\ IsFiniteSet(Pending(u, o)) /\ Cardinality(Pending(u, o)) \in Nat
        /\ Cardinality(Clients) \in Nat
    BY PendingFinite, AccountsAssumption DEF TypeInv, AccountsTypeOK, LockInv
  <1>1. CASE failures'[u][o] <= failures[u][o] /\ Pending(u, o)' \subseteq Pending(u, o)
    <2>1. Cardinality(Pending(u, o)') <= Cardinality(Pending(u, o)) /\ Cardinality(Pending(u, o)') \in Nat
      BY <1>0, <1>1, FS_Subset, FS_CardinalityType
    <2>2. QED
      BY <1>0, <1>1, <2>1
  <1>2. CASE failures'[u][o] <= MaxAttempts - 1
    <2>1. Cardinality(Pending(u, o)') <= Cardinality(Clients) /\ Cardinality(Pending(u, o)') \in Nat
      <3>1. IsFiniteSet(Clients) /\ Pending(u, o)' \subseteq Clients
        BY AccountsAssumption DEF Pending
      <3>2. QED
        BY <3>1, FS_Subset, FS_CardinalityType
    <2>2. QED
      BY <1>0, <1>2, <2>1
  <1>3. CASE /\ failures'[u][o] = failures[u][o] + 1
             /\ \E c \in Pending(u, o) : Pending(u, o)' = Pending(u, o) \ {c}
    <2>1. Cardinality(Pending(u, o)') = Cardinality(Pending(u, o)) - 1
      BY <1>0, <1>3, FS_RemoveElement, ZenonT(90)
    <2>2. QED
      BY <1>0, <1>3, <2>1
  <1>4. QED
    BY <1>1, <1>2, <1>3

LEMMA LockOfSteps ==
    ASSUME TypeInv, TypeInv', LockInv, Next
    PROVE  LockInv'
  <1>. SUFFICES ASSUME NEW u \in Users, NEW o \in Origins
                PROVE  \/ failures'[u][o] <= failures[u][o] /\ Pending(u, o)' \subseteq Pending(u, o)
                       \/ failures'[u][o] <= MaxAttempts - 1
                       \/ /\ failures'[u][o] = failures[u][o] + 1
                          /\ \E c \in Pending(u, o) : Pending(u, o)' = Pending(u, o) \ {c}
    <2>1. \A v \in Users, q \in Origins : failures'[v][q] \in Nat
      BY DEF TypeInv, AccountsTypeOK
    <2>2. QED
      BY <2>1, LockStep DEF LockInv
  <1>0. failures \in [Users -> [Origins -> Nat]] /\ session \in [Clients -> Session] /\ MaxAttempts \in Nat
    BY AccountsAssumption DEF TypeInv, AccountsTypeOK
  <1>1. ASSUME NEW v \in Users, NEW q \in Origins, ForgetAttempt(v, q)
        PROVE  failures'[u][o] <= failures[u][o] /\ Pending(u, o)' \subseteq Pending(u, o)
    <2>1. failures'[u][o] <= failures[u][o]
      BY <1>0, <1>1 DEF ForgetAttempt
    <2>2. UNCHANGED session
      BY <1>1 DEF ForgetAttempt
    <2>3. QED
      BY <2>1, <2>2 DEF Pending, At
  <1>2. ASSUME NEW c \in Clients, RecordLogin(c)
        PROVE  \/ failures'[u][o] <= failures[u][o] /\ Pending(u, o)' \subseteq Pending(u, o)
               \/ /\ failures'[u][o] = failures[u][o] + 1
                  /\ \E d \in Pending(u, o) : Pending(u, o)' = Pending(u, o) \ {d}
    <2>1. At(c, "login", "commit") /\ (Finish(c) \/ GoTo(c, "last"))
      BY <1>2 DEF RecordLogin
    <2>2. \A d \in Clients \ {c} : session'[d] = session[d]
      BY <1>0, <2>1 DEF Finish, GoTo
    <2>3. session'[c].pc # "commit"
      <3>1. CASE Finish(c)
        BY <1>0, <3>1, NoCallType DEF Finish
      <3>2. CASE GoTo(c, "last")
        BY <1>0, <3>2 DEF GoTo, Session
      <3>3. QED
        BY <2>1, <3>1, <3>2
    <2>4. Pending(u, o)' = Pending(u, o) \ {c}
      BY <2>2, <2>3 DEF Pending, At
    <2>5. CASE UNCHANGED failures
      BY <1>0, <2>4, <2>5
    <2>6. CASE ~session[c].flag /\ failures' = [failures EXCEPT ![session[c].user][session[c].origin] = @ + 1]
      <3>1. CASE session[c].user = u /\ session[c].origin = o
        <4>1. c \in Pending(u, o)
          BY <2>1, <2>6, <3>1 DEF Pending
        <4>2. failures'[u][o] = failures[u][o] + 1
          BY <1>0, <2>6, <3>1
        <4>3. QED
          BY <2>4, <4>1, <4>2
      <3>2. CASE ~(session[c].user = u /\ session[c].origin = o)
        BY <1>0, <2>4, <2>6, <3>2
      <3>3. QED
        BY <3>1, <3>2
    <2>7. QED
      BY <1>2, <2>5, <2>6 DEF RecordLogin
  <1>3. ASSUME NEW c \in Clients, NEW s \in Session, Opens(c, s)
        PROVE  \/ failures'[u][o] <= failures[u][o] /\ Pending(u, o)' \subseteq Pending(u, o)
               \/ failures'[u][o] <= MaxAttempts - 1
    <2>1. UNCHANGED failures /\ session' = [session EXCEPT ![c] = s]
      BY <1>3 DEF Opens, Begin
    <2>2. CASE s.op = "login" /\ s.pc = "commit" /\ s.user = u /\ s.origin = o /\ ~s.flag
      <3>1. ~Locked(u, o)
        BY <1>3, <2>2 DEF Opens
      <3>2. QED
        BY <1>0, <2>1, <3>1 DEF Locked
    <2>3. CASE ~(s.op = "login" /\ s.pc = "commit" /\ s.user = u /\ s.origin = o /\ ~s.flag)
      BY <1>0, <2>1, <2>3 DEF Pending, At
    <2>4. QED
      BY <2>2, <2>3
  <1>4. ASSUME NEW c \in Clients, UNCHANGED failures,
               UNCHANGED session \/ Finish(c) \/ GoTo(c, "finish") \/ GoTo(c, "last")
        PROVE  failures'[u][o] <= failures[u][o] /\ Pending(u, o)' \subseteq Pending(u, o)
    <2>1. \A d \in Clients : \/ session'[d] = session[d]
                             \/ session'[d] = NoCall
                             \/ session'[d].pc \in {"finish", "last"}
      BY <1>0, <1>4 DEF Finish, GoTo, Session
    <2>2. Pending(u, o)' \subseteq Pending(u, o)
      BY <2>1, NoCallType, SMTT(60) DEF Pending, At
    <2>3. QED
      BY <1>0, <1>4, <2>2
  <1>5. ASSUME NEW c \in Clients,
               \/ CommitRegister(c) \/ SendMail(c) \/ UseMail(c) \/ FinishVerify(c)
               \/ FinishReset(c) \/ IssueToken(c) \/ Logout(c) \/ Crash(c)
               \/ InviteMember(c) \/ CommitAccept(c) \/ CommitMember(c)
        PROVE  /\ UNCHANGED failures
               /\ UNCHANGED session \/ Finish(c) \/ GoTo(c, "finish") \/ GoTo(c, "last")
    BY <1>5 DEF CommitRegister, SendMail, UseMail, FinishVerify, FinishReset, NewPassword,
                RevokeAll, IssueToken, Logout, Crash, InviteMember, CommitAccept, CommitMember
  <1>6. QED
    BY <1>1, <1>2, <1>3, <1>4, <1>5, RequestOpens DEF Next

\* However many logins of one account and origin are under way, failed attempts pass the lock
\* by no more than there are requests.
THEOREM LockoutHolds == Spec => []LockoutBounded
  <1>1. Init => LockInv
    <2>. SUFFICES ASSUME Init, NEW u \in Users, NEW o \in Origins
                  PROVE  failures[u][o] + Cardinality(Pending(u, o)) <= MaxAttempts - 1 + Cardinality(Clients)
      BY DEF LockInv
    <2>1. failures[u][o] = 0 /\ MaxAttempts \in Nat \ {0}
      BY AccountsAssumption DEF Init
    <2>2. QED
      BY <2>1, PendingFinite
  <1>2. TypeInv /\ LockInv /\ [Next]_vars => LockInv'
    <2>. SUFFICES ASSUME TypeInv, LockInv, [Next]_vars PROVE LockInv'
      OBVIOUS
    <2>1. CASE Next
      BY <2>1, TypeStep, LockOfSteps
    <2>2. CASE UNCHANGED vars
      BY <2>2 DEF vars, LockInv, Pending, At
    <2>3. QED
      BY <2>1, <2>2
  <1>3. TypeInv /\ LockInv => LockoutBounded
    <2>. SUFFICES ASSUME TypeInv, LockInv, NEW u \in Users, NEW o \in Origins
                  PROVE  failures[u][o] <= MaxAttempts - 1 + Cardinality(Clients)
      BY DEF LockoutBounded
    <2>1. /\ failures[u][o] \in Nat /\ MaxAttempts \in Nat
          /\ failures[u][o] + Cardinality(Pending(u, o)) <= MaxAttempts - 1 + Cardinality(Clients)
      BY AccountsAssumption DEF TypeInv, AccountsTypeOK, LockInv
    <2>2. QED
      BY <2>1, PendingFinite
  <1>4. QED
    BY <1>1, <1>2, <1>3, TypeOfInit, TypeStep, PTL DEF Spec

-----------------------------------------------------------------------------
(* Invites. *)

\* An invite that has made a member, and was not accepted twice at the same time,
\* is used up: it is marked, and nobody is about to accept it.
UsedUp(i) ==
    /\ invites[i].admitted <= 1
    /\ invites[i].admitted = 1 =>
          /\ invites[i].accepted
          /\ \A c \in Clients : ~(At(c, "accept", "commit") /\ session[c].item = i)

AdmitInv == \A i \in DOMAIN invites : invites[i].raced \/ UsedUp(i)

\* The requests that accept an invite are the ones that did before.
LEMMA AdmitStays ==
    ASSUME TypeInv, AdmitInv, UNCHANGED invites, NEW c \in Clients,
           \A d \in Clients :
              \/ session'[d] = session[d]
              \/ session'[d] = NoCall
              \/ session'[d].pc \in {"finish", "last"}
              \/ Opens(c, session'[d])
    PROVE  AdmitInv'
  <1>. SUFFICES ASSUME NEW i \in DOMAIN invites, ~invites[i].raced PROVE UsedUp(i)'
    BY DEF AdmitInv
  <1>1. UsedUp(i)
    BY DEF AdmitInv
  <1>2. ASSUME NEW d \in Clients, invites[i].admitted = 1,
               At(d, "accept", "commit")', session'[d].item = i
        PROVE  FALSE
    <2>1. CASE session'[d] = session[d]
      BY <1>1, <1>2, <2>1 DEF UsedUp, At
    <2>2. CASE session'[d] = NoCall \/ session'[d].pc \in {"finish", "last"}
      BY <1>2, <2>2, NoCallType DEF At
    <2>3. CASE Opens(c, session'[d])
      BY <1>1, <1>2, <2>3 DEF UsedUp, Opens, At
    <2>4. QED
      BY <2>1, <2>2, <2>3
  <1>3. QED
    BY <1>1, <1>2 DEF UsedUp

LEMMA AdmitAccept ==
    ASSUME TypeInv, AdmitInv, NEW c \in Clients, CommitAccept(c)
    PROVE  AdmitInv'
  <1>j. PICK j \in DOMAIN invites : j = session[c].item
    BY InviteAccepted, ZenonT(90)
  <1>. DEFINE others == \E d \in Clients \ {c} : At(d, "accept", "commit") /\ session[d].item = j
  <1>0. /\ At(c, "accept", "commit") /\ Finish(c) /\ session[c].item = j
        /\ DOMAIN invites' = DOMAIN invites
        /\ \A i \in DOMAIN invites : i # j => invites'[i] = invites[i]
        /\ session \in [Clients -> Session]
    BY <1>j, InviteAccepted DEF CommitAccept, TypeInv, AccountsTypeOK
  <1>1. \A d \in Clients : IF d = c THEN session'[d] = NoCall ELSE session'[d] = session[d]
    BY <1>0 DEF Finish
  <1>2. invites[j] \in Invite
    BY <1>0, RowTypes DEF TypeInv
  <1>3. \A i \in DOMAIN invites : i # j => invites'[i].raced \/ UsedUp(i)'
    BY <1>0, <1>1, NoCallType DEF AdmitInv, UsedUp, At
  <1>4. invites'[j].raced \/ UsedUp(j)'
    <2>1. CASE UNCHANGED invites
      BY <1>0, <1>1, <2>1, NoCallType DEF AdmitInv, UsedUp, At
    <2>2. CASE invites' = [invites EXCEPT ![j].accepted = TRUE]
      <3>1. /\ invites'[j].raced = invites[j].raced /\ invites'[j].admitted = invites[j].admitted
            /\ invites'[j].accepted
        BY <1>0, <1>2, <2>2 DEF Invite
      <3>2. QED
        BY <1>0, <1>1, <3>1, NoCallType DEF AdmitInv, UsedUp, At
    <2>3. CASE invites' = [invites EXCEPT ![j].accepted = TRUE, ![j].admitted = @ + 1,
                                          ![j].raced = @ \/ others]
      <3>1. others \in BOOLEAN
        OBVIOUS
      <3>2. /\ invites'[j].admitted = invites[j].admitted + 1 /\ invites'[j].accepted
            /\ (invites[j].raced \/ others) => invites'[j].raced
        <4>. HIDE DEF others
        <4>. DEFINE x == [invites[j] EXCEPT !.accepted = TRUE, !.admitted = @ + 1,
                                            !.raced = @ \/ others]
        <4>1. /\ x.admitted = invites[j].admitted + 1 /\ x.accepted
              /\ (invites[j].raced \/ others) => x.raced
          BY <1>2, <3>1 DEF Invite
        <4>2. invites'[j] = x
          BY <1>0, <2>3
        <4>. HIDE DEF x
        <4>3. QED
          BY <4>1, <4>2
      <3>3. CASE invites[j].raced \/ others
        BY <3>2, <3>3
      <3>4. CASE ~invites[j].raced /\ ~others
        <4>1. UsedUp(j) /\ invites[j].admitted \in Nat
          BY <1>0, <1>2, <3>4 DEF AdmitInv, Invite
        <4>2. invites[j].admitted = 0
          BY <1>0, <4>1 DEF UsedUp
        <4>3. \A d \in Clients : ~(At(d, "accept", "commit") /\ session[d].item = j)'
          BY <1>0, <1>1, <3>4, NoCallType DEF At
        <4>4. QED
          BY <3>2, <4>2, <4>3 DEF UsedUp
      <3>5. QED
        BY <3>3, <3>4
    <2>4. \/ UNCHANGED invites
          \/ invites' = [invites EXCEPT ![j].accepted = TRUE]
          \/ invites' = [invites EXCEPT ![j].accepted = TRUE, ![j].admitted = @ + 1,
                                        ![j].raced = @ \/ others]
      BY <1>j DEF CommitAccept
    <2>5. QED
      BY <2>1, <2>2, <2>3, <2>4
  <1>5. QED
    BY <1>0, <1>3, <1>4, SMTT(60) DEF AdmitInv

LEMMA AdmitOfSteps ==
    ASSUME TypeInv, AdmitInv, Next
    PROVE  AdmitInv'
  <1>1. ASSUME NEW c \in Clients,
               \/ CommitRegister(c) \/ SendMail(c) \/ UseMail(c) \/ FinishVerify(c)
               \/ FinishReset(c) \/ RecordLogin(c) \/ IssueToken(c) \/ Logout(c) \/ Crash(c)
               \/ CommitMember(c)
        PROVE  AdmitInv'
    <2>1. /\ UNCHANGED invites
          /\ UNCHANGED session \/ Finish(c) \/ GoTo(c, "finish") \/ GoTo(c, "last")
      BY <1>1 DEF CommitRegister, SendMail, UseMail, FinishVerify, FinishReset, NewPassword,
                  RevokeAll, RecordLogin, IssueToken, Logout, Crash, CommitMember
    <2>2. QED
      BY <2>1, RequestsKept, AdmitStays
  <1>2. ASSUME NEW c \in Clients,
               \/ BeginRegister(c) \/ BeginMail(c) \/ BeginLogin(c) \/ BeginAccept(c)
               \/ BeginRole(c) \/ BeginStatus(c) \/ BeginRemove(c)
        PROVE  AdmitInv'
    <2>1. PICK s \in Session : Opens(c, s)
      BY <1>2, RequestOpens
    <2>2. UNCHANGED invites
      BY <2>1 DEF Opens, Begin
    <2>3. QED
      BY <2>1, <2>2, RequestsKept, AdmitStays
  <1>3. ASSUME NEW c \in Clients, InviteMember(c) PROVE AdmitInv'
    <2>1. PICK u \in Users, role \in Offered :
             invites' = Append(invites, [user |-> u, role |-> role, accepted |-> FALSE,
                                         admitted |-> 0, raced |-> FALSE])
      BY <1>3 DEF InviteMember
    <2>. DEFINE x == [user |-> u, role |-> role, accepted |-> FALSE,
                      admitted |-> 0, raced |-> FALSE]
    <2>2. x \in Invite /\ x.admitted = 0 /\ invites' = Append(invites, x)
      BY <2>1, AccountsAssumption DEF Invite
    <2>. HIDE DEF x
    <2>3. \A i \in DOMAIN invites' :
             (i \in DOMAIN invites /\ invites'[i] = invites[i]) \/ invites'[i].admitted = 0
      BY <2>2, NewRow DEF TypeInv, AccountsTypeOK
    <2>4. UNCHANGED session
      BY <1>3 DEF InviteMember
    <2>5. QED
      BY <2>3, <2>4 DEF AdmitInv, UsedUp, At
  <1>4. ASSUME NEW u \in Users, NEW o \in Origins, ForgetAttempt(u, o) PROVE AdmitInv'
    BY <1>4 DEF ForgetAttempt, AdmitInv, UsedUp, At
  <1>5. QED
    BY <1>1, <1>2, <1>3, <1>4, AdmitAccept DEF Next

\* An invite makes one member, unless it was accepted twice at the same time.
THEOREM InvitesAdmitOnce == Spec => []InviteAdmitsOnce
  <1>1. Init => AdmitInv
    <2>. SUFFICES ASSUME Init PROVE \A i \in DOMAIN invites : invites[i].admitted = 0
      BY DEF AdmitInv, UsedUp
    <2>1. CASE invites = << >>
      BY <2>1
    <2>2. ASSUME NEW u, NEW role,
                 invites = <<[user |-> u, role |-> role, accepted |-> FALSE,
                              admitted |-> 0, raced |-> FALSE]>>
          PROVE  \A i \in DOMAIN invites : invites[i].admitted = 0
      BY <2>2
    <2>3. QED
      BY <2>1, <2>2 DEF Init
  <1>2. TypeInv /\ AdmitInv /\ [Next]_vars => AdmitInv'
    <2>1. UNCHANGED vars /\ AdmitInv => AdmitInv'
      BY DEF vars, AdmitInv, UsedUp, At
    <2>2. QED
      BY <2>1, AdmitOfSteps
  <1>3. AdmitInv => InviteAdmitsOnce
    BY DEF AdmitInv, UsedUp, InviteAdmitsOnce
  <1>4. QED
    BY <1>1, <1>2, <1>3, TypeOfInit, TypeStep, PTL DEF Spec

-----------------------------------------------------------------------------
(* Logins and password resets. *)

\* Who has a token, or is about to get one, has an account, whose password nothing
\* but a reset changes.
TokensKnown ==
    /\ \A t \in DOMAIN tokens : user[tokens[t].user].status # "none"
    /\ \A c \in Clients : At(c, "login", "last") => user[session[c].user].status # "none"

TokensInv == TokensKnown /\ ResetEndsSessions

Ending(u) == cut[u] \/ \E c \in Clients : At(c, "reset", "last") /\ session[c].user = u

\* Tokens and passwords are as they were, and whose reset was under way or cut off
\* still is.
LEMMA TokensStay ==
    ASSUME TypeInv, TypeInv', TokensInv,
           DOMAIN tokens' = DOMAIN tokens,
           \A t \in DOMAIN tokens : /\ tokens'[t].user = tokens[t].user
                                    /\ tokens'[t].password = tokens[t].password
                                    /\ tokens'[t].late = tokens[t].late
                                    /\ tokens[t].revoked => tokens'[t].revoked,
           \A u \in Users : user[u].status # "none" =>
               /\ user'[u].status # "none"
               /\ user'[u].password = user[u].password \/ Ending(u)'
               /\ \/ Ending(u) => Ending(u)'
                  \/ \A t \in DOMAIN tokens : tokens[t].user = u => tokens'[t].revoked,
           \A c \in Clients : At(c, "login", "last")' =>
               user[session'[c].user].status # "none" /\ session'[c].user \in Users
    PROVE  TokensInv'
  <1>1. \A t \in DOMAIN tokens : tokens[t].user \in Users
    BY RowTypes DEF TypeInv, Token
  <1>2. TokensKnown'
    BY <1>1 DEF TokensInv, TokensKnown
  <1>3. ASSUME NEW t \in DOMAIN tokens, ~tokens'[t].revoked, ~tokens'[t].late,
               NEW u \in Users, u = tokens[t].user
        PROVE  tokens'[t].password = user'[u].password \/ Ending(u)'
    <2>1. tokens[t].password = user[u].password \/ Ending(u)
      BY <1>3 DEF TokensInv, ResetEndsSessions, Live, Ending
    <2>2. user[u].status # "none"
      BY <1>3 DEF TokensInv, TokensKnown
    <2>3. ~\A x \in DOMAIN tokens : tokens[x].user = u => tokens'[x].revoked
      BY <1>3
    <2>4. QED
      BY <1>3, <2>1, <2>2, <2>3
  <1>4. ResetEndsSessions'
    <2>1. \A t \in DOMAIN tokens : tokens'[t].user \in Users /\ tokens'[t].user = tokens[t].user
      BY <1>1
    <2>2. QED
      BY <1>3, <2>1 DEF ResetEndsSessions, Live, Ending
  <1>5. QED
    BY <1>2, <1>4 DEF TokensInv

\* The steps that leave accounts, tokens and cut-off resets alone.
LEMMA TokensOfOthers ==
    ASSUME TypeInv, TypeInv', TokensInv, NEW c \in Clients, UNCHANGED <<user, tokens, cut>>,
           \A d \in Clients :
              \/ session'[d] = session[d]
              \/ d = c /\ session'[d] = NoCall /\ ~At(d, "reset", "last")
              \/ d = c /\ session'[d].pc = "finish" /\ ~At(d, "reset", "last")
              \/ d = c /\ Opens(c, session'[d])
    PROVE  TokensInv'
  <1>1. \A d \in Clients : At(d, "reset", "last") => session'[d] = session[d]
    BY NoCallType DEF Opens, Begin, At
  <1>2. \A u \in Users : Ending(u) => Ending(u)'
    BY <1>1 DEF Ending, At
  <1>3. \A d \in Clients : At(d, "login", "last")' => session'[d] = session[d]
    BY NoCallType DEF Opens, At
  <1>4. \A d \in Clients : At(d, "login", "last")' =>
            user[session'[d].user].status # "none" /\ session'[d].user \in Users
    BY <1>3 DEF TokensInv, TokensKnown, TypeInv, AccountsTypeOK, Session, At
  <1>5. QED
    BY <1>2, <1>4, TokensStay

LEMMA TokensOfLogins ==
    ASSUME TypeInv, TypeInv', TokensInv, NEW c \in Clients, RecordLogin(c) \/ IssueToken(c)
    PROVE  TokensInv'
  <1>0. session[c].user \in Users /\ session \in [Clients -> Session]
    BY DEF TypeInv, AccountsTypeOK, Session
  <1>1. CASE RecordLogin(c)
    <2>1. /\ At(c, "login", "commit") /\ UNCHANGED <<user, tokens, cut>>
          /\ Finish(c) \/ (GoTo(c, "last") /\ Active(session[c].user))
      BY <1>1 DEF RecordLogin, Active
    <2>2. \A d \in Clients \ {c} : session'[d] = session[d]
      BY <1>0, <2>1 DEF Finish, GoTo
    <2>3. At(c, "login", "last")' => Active(session[c].user) /\ session'[c].user = session[c].user
      <3>1. CASE Finish(c)
        BY <1>0, <3>1, NoCallType DEF Finish, At
      <3>2. CASE GoTo(c, "last") /\ Active(session[c].user)
        BY <1>0, <3>2 DEF GoTo, Session
      <3>3. QED
        BY <2>1, <3>1, <3>2
    <2>4. \A d \in Clients : At(d, "login", "last")' =>
              user[session'[d].user].status # "none" /\ session'[d].user \in Users
      <3>1. ASSUME NEW d \in Clients \ {c}, At(d, "login", "last")'
            PROVE  user[session'[d].user].status # "none" /\ session'[d].user \in Users
        BY <1>0, <2>2, <3>1 DEF TokensInv, TokensKnown, At, Session
      <3>2. QED
        BY <1>0, <2>3, <3>1 DEF Active
    <2>5. \A u \in Users : Ending(u) => Ending(u)'
      BY <2>1, <2>2 DEF Ending, At
    <2>6. QED
      BY <2>1, <2>4, <2>5, TokensStay
  <1>2. CASE IssueToken(c)
    <2>. DEFINE x == [user |-> session[c].user, password |-> session[c].password,
                      late |-> session[c].password # user[session[c].user].password,
                      revoked |-> FALSE]
    <2>1. /\ At(c, "login", "last") /\ Finish(c) /\ UNCHANGED <<user, cut>>
          /\ tokens' = Append(tokens, x)
      BY <1>2 DEF IssueToken
    <2>2. x \in Token
      BY <1>0 DEF Token, TypeInv, AccountsTypeOK, Session
    <2>3. x.user = session[c].user /\ (~x.late => x.password = user[session[c].user].password)
      OBVIOUS
    <2>. HIDE DEF x
    <2>4. \A t \in DOMAIN tokens' : \/ t \in DOMAIN tokens /\ tokens'[t] = tokens[t]
                                    \/ tokens'[t] = x
      BY <2>1, <2>2, NewRow DEF TypeInv, AccountsTypeOK
    <2>5. \A d \in Clients : IF d = c THEN session'[d] = NoCall ELSE session'[d] = session[d]
      BY <1>0, <2>1 DEF Finish
    <2>6. TokensKnown'
      BY <2>1, <2>3, <2>4, <2>5, NoCallType DEF TokensInv, TokensKnown, At
    <2>7. \A u \in Users : Ending(u) => Ending(u)'
      BY <2>1, <2>5 DEF Ending, At
    <2>8. ASSUME NEW t \in DOMAIN tokens', ~tokens'[t].revoked, ~tokens'[t].late,
                 NEW u \in Users, u = tokens'[t].user
          PROVE  tokens'[t].password = user'[u].password \/ Ending(u)'
      <3>1. CASE t \in DOMAIN tokens /\ tokens'[t] = tokens[t]
        <4>1. tokens[t].password = user[u].password \/ Ending(u)
          BY <2>8, <3>1 DEF TokensInv, ResetEndsSessions, Live, Ending
        <4>2. QED
          BY <2>1, <2>7, <3>1, <4>1
      <3>2. CASE tokens'[t] = x
        BY <2>1, <2>3, <2>8, <3>2
      <3>3. QED
        BY <2>4, <3>1, <3>2
    <2>9. ResetEndsSessions'
      <3>1. \A t \in DOMAIN tokens' : tokens'[t].user \in Users
        BY <2>2, <2>4, RowTypes DEF TypeInv, Token
      <3>2. QED
        BY <2>8, <3>1 DEF ResetEndsSessions, Live, Ending
    <2>10. QED
      BY <2>6, <2>9 DEF TokensInv
  <1>3. QED
    BY <1>1, <1>2

LEMMA TokensOfAccounts ==
    ASSUME TypeInv, TypeInv', TokensInv, NEW c \in Clients,
           \/ CommitRegister(c) \/ FinishVerify(c) \/ NewPassword(c) \/ RevokeAll(c)
           \/ Crash(c) \/ Logout(c)
    PROVE  TokensInv'
  <1>0. /\ session[c].user \in Users /\ session[c].no \in Nat /\ session \in [Clients -> Session]
        /\ user \in [Users -> Account] /\ cut \in [Users -> BOOLEAN]
    BY DEF TypeInv, AccountsTypeOK, Session
  <1>1. CASE CommitRegister(c)
    <2>1. /\ At(c, "register", "commit") /\ Finish(c) /\ UNCHANGED <<tokens, cut>>
          /\ \/ UNCHANGED user
             \/ /\ user[session[c].user].status = "none"
                /\ user' = [user EXCEPT ![session[c].user] =
                               [status |-> "inactive", password |-> session[c].no]]
      BY <1>1 DEF CommitRegister
    <2>2. \A d \in Clients : IF d = c THEN session'[d] = NoCall ELSE session'[d] = session[d]
      BY <1>0, <2>1 DEF Finish
    <2>3. \A u \in Users : user[u].status # "none" => user'[u] = user[u]
      BY <1>0, <2>1
    <2>4. \A u \in Users : Ending(u) => Ending(u)'
      BY <2>1, <2>2 DEF Ending, At
    <2>5. \A d \in Clients : At(d, "login", "last")' =>
              user[session'[d].user].status # "none" /\ session'[d].user \in Users
      BY <1>0, <2>2, NoCallType DEF TokensInv, TokensKnown, At, Session
    <2>6. QED
      BY <2>1, <2>3, <2>4, <2>5, TokensStay
  <1>2. CASE FinishVerify(c)
    <2>1. /\ At(c, "verify", "finish") /\ Finish(c) /\ UNCHANGED <<tokens, cut>>
          /\ user' = [user EXCEPT ![session[c].user].status = "active"]
      BY <1>2 DEF FinishVerify
    <2>2. \A d \in Clients : IF d = c THEN session'[d] = NoCall ELSE session'[d] = session[d]
      BY <1>0, <2>1 DEF Finish
    <2>3. \A u \in Users : user[u].status # "none" =>
              user'[u].status # "none" /\ user'[u].password = user[u].password
      BY <1>0, <2>1 DEF Account
    <2>4. \A u \in Users : Ending(u) => Ending(u)'
      BY <2>1, <2>2 DEF Ending, At
    <2>5. \A d \in Clients : At(d, "login", "last")' =>
              user[session'[d].user].status # "none" /\ session'[d].user \in Users
      BY <1>0, <2>2, NoCallType DEF TokensInv, TokensKnown, At, Session
    <2>6. QED
      BY <2>1, <2>3, <2>4, <2>5, TokensStay
  <1>3. CASE NewPassword(c)
    <2>1. /\ At(c, "reset", "finish") /\ GoTo(c, "last") /\ UNCHANGED <<tokens, cut>>
          /\ user' = [user EXCEPT ![session[c].user].password = session[c].no]
      BY <1>3 DEF NewPassword
    <2>2. \A d \in Clients \ {c} : session'[d] = session[d]
      BY <1>0, <2>1 DEF GoTo
    <2>3. At(c, "reset", "last")' /\ session'[c].user = session[c].user
      BY <1>0, <2>1 DEF GoTo, At, Session
    <2>5. \A u \in Users : /\ user'[u].status = user[u].status
                           /\ u # session[c].user => user'[u].password = user[u].password
      BY <1>0, <2>1 DEF Account
    <2>6. \A u \in Users : u = session[c].user => Ending(u)'
      BY <2>3 DEF Ending
    <2>7. \A u \in Users : Ending(u) => Ending(u)'
      BY <2>1, <2>2, <2>3 DEF Ending, At
    <2>8. \A d \in Clients : At(d, "login", "last")' =>
              user[session'[d].user].status # "none" /\ session'[d].user \in Users
      BY <1>0, <2>2, <2>3, SMTT(60) DEF TokensInv, TokensKnown, At, Session
    <2>9. QED
      BY <2>1, <2>5, <2>6, <2>7, <2>8, TokensStay
  <1>4. CASE RevokeAll(c)
    <2>1. /\ At(c, "reset", "last") /\ Finish(c) /\ UNCHANGED <<user, cut>>
          /\ tokens' = Revoked(session[c].user)
      BY <1>4 DEF RevokeAll
    <2>2. \A d \in Clients : IF d = c THEN session'[d] = NoCall ELSE session'[d] = session[d]
      BY <1>0, <2>1 DEF Finish
    <2>3. /\ DOMAIN tokens' = DOMAIN tokens
          /\ \A t \in DOMAIN tokens :
                /\ tokens'[t].user = tokens[t].user
                /\ tokens'[t].password = tokens[t].password
                /\ tokens'[t].late = tokens[t].late
                /\ tokens'[t].revoked = (tokens[t].revoked \/ tokens[t].user = session[c].user)
      BY <1>0, <2>1, RevokedType DEF TypeInv
    <2>4. \A u \in Users : u # session[c].user => (Ending(u) => Ending(u)')
      BY <2>1, <2>2 DEF Ending, At
    <2>5. \A t \in DOMAIN tokens : tokens[t].user = session[c].user => tokens'[t].revoked
      BY <2>3
    <2>6. \A d \in Clients : At(d, "login", "last")' =>
              user[session'[d].user].status # "none" /\ session'[d].user \in Users
      BY <1>0, <2>2, NoCallType DEF TokensInv, TokensKnown, At, Session
    <2>7. QED
      BY <2>1, <2>3, <2>4, <2>5, <2>6, TokensStay
  <1>5. CASE Crash(c)
    <2>1. /\ Finish(c) /\ UNCHANGED <<user, tokens>>
          /\ cut' = [cut EXCEPT ![session[c].user] = @ \/ At(c, "reset", "last")]
      BY <1>5 DEF Crash
    <2>2. \A d \in Clients : IF d = c THEN session'[d] = NoCall ELSE session'[d] = session[d]
      BY <1>0, <2>1 DEF Finish
    <2>3. /\ \A u \in Users : cut[u] => cut'[u]
          /\ At(c, "reset", "last") => cut'[session[c].user]
      BY <1>0, <2>1 DEF At
    <2>4. \A u \in Users : Ending(u) => Ending(u)'
      BY <2>2, <2>3 DEF Ending, At
    <2>5. \A d \in Clients : At(d, "login", "last")' =>
              user[session'[d].user].status # "none" /\ session'[d].user \in Users
      BY <1>0, <2>2, NoCallType DEF TokensInv, TokensKnown, At, Session
    <2>6. QED
      BY <2>1, <2>4, <2>5, TokensStay
  <1>6. CASE Logout(c)
    <2>1. UNCHANGED <<user, cut, session>>
      BY <1>6 DEF Logout
    <2>2. PICK t \in DOMAIN tokens : tokens' = [tokens EXCEPT ![t].revoked = TRUE]
      BY <1>6 DEF Logout
    <2>3. \A x \in DOMAIN tokens : tokens[x] \in Token
      BY RowTypes DEF TypeInv
    <2>4. DOMAIN tokens' = DOMAIN tokens
      BY <2>2
    <2>5. \A x \in DOMAIN tokens : /\ tokens'[x].user = tokens[x].user
                                   /\ tokens'[x].password = tokens[x].password
                                   /\ tokens'[x].late = tokens[x].late
                                   /\ tokens[x].revoked => tokens'[x].revoked
      BY <2>2, <2>3 DEF Token
    <2>6. \A u \in Users : Ending(u) => Ending(u)'
      BY <2>1 DEF Ending, At
    <2>7. \A d \in Clients : At(d, "login", "last")' =>
              user[session'[d].user].status # "none" /\ session'[d].user \in Users
      BY <1>0, <2>1 DEF TokensInv, TokensKnown, At, Session
    <2>8. QED
      BY <2>1, <2>4, <2>5, <2>6, <2>7, TokensStay
  <1>7. QED
    BY <1>1, <1>2, <1>3, <1>4, <1>5, <1>6

\* A reset ends the logins with the older password, except while it is under way, when
\* it was cut off, and for a login that was under way when the password changed.
THEOREM ResetsEndSessions == Spec => []ResetEndsSessions
  <1>1. Init => TokensInv
    BY NoCallType DEF Init, TokensInv, TokensKnown, ResetEndsSessions, At
  <1>2. TypeInv /\ TypeInv' /\ TokensInv /\ [Next]_vars => TokensInv'
    <2>. SUFFICES ASSUME TypeInv, TypeInv', TokensInv, [Next]_vars PROVE TokensInv'
      OBVIOUS
    <2>1. CASE UNCHANGED vars
      <3>1. \A u \in Users : Ending(u) => Ending(u)'
        BY <2>1 DEF vars, Ending, At
      <3>2. \A d \in Clients : At(d, "login", "last")' =>
                user[session'[d].user].status # "none" /\ session'[d].user \in Users
        BY <2>1 DEF vars, TokensInv, TokensKnown, TypeInv, AccountsTypeOK, Session, At
      <3>3. QED
        BY <2>1, <3>1, <3>2, TokensStay DEF vars
    <2>2. ASSUME NEW u \in Users, NEW o \in Origins, ForgetAttempt(u, o) PROVE TokensInv'
      BY <2>2 DEF ForgetAttempt, TokensInv, TokensKnown, ResetEndsSessions, Live, At
    <2>3. ASSUME NEW c \in Clients,
                 \/ BeginRegister(c) \/ BeginMail(c) \/ BeginLogin(c) \/ BeginAccept(c)
                 \/ BeginRole(c) \/ BeginStatus(c) \/ BeginRemove(c)
          PROVE  TokensInv'
      <3>1. PICK s \in Session : Opens(c, s)
        BY <2>3, RequestOpens
      <3>2. UNCHANGED <<user, tokens, cut>> /\ session' = [session EXCEPT ![c] = s]
        BY <3>1 DEF Opens, Begin
      <3>3. \A d \in Clients : session'[d] = session[d] \/ (d = c /\ Opens(c, session'[d]))
        BY <3>1, <3>2 DEF TypeInv, AccountsTypeOK
      <3>4. QED
        BY <3>2, <3>3, TokensOfOthers
    <2>4. ASSUME NEW c \in Clients,
                 SendMail(c) \/ UseMail(c) \/ InviteMember(c) \/ CommitAccept(c) \/ CommitMember(c)
          PROVE  TokensInv'
      <3>1. /\ UNCHANGED <<user, tokens, cut>>
            /\ \/ UNCHANGED session
               \/ GoTo(c, "finish") /\ session[c].pc = "use"
               \/ Finish(c) /\ session[c].pc = "commit"
        BY <2>4 DEF SendMail, UseMail, InviteMember, CommitAccept, CommitMember, At
      <3>2. session \in [Clients -> Session]
        BY DEF TypeInv, AccountsTypeOK
      <3>3. \A d \in Clients :
               \/ session'[d] = session[d]
               \/ d = c /\ session'[d] = NoCall /\ ~At(d, "reset", "last")
               \/ d = c /\ session'[d].pc = "finish" /\ ~At(d, "reset", "last")
        <4>1. CASE UNCHANGED session
          BY <4>1
        <4>2. CASE GoTo(c, "finish") /\ session[c].pc = "use"
          BY <3>2, <4>2 DEF GoTo, At, Session
        <4>3. CASE Finish(c) /\ session[c].pc = "commit"
          BY <3>2, <4>3 DEF Finish, At
        <4>4. QED
          BY <3>1, <4>1, <4>2, <4>3
      <3>4. QED
        BY <3>1, <3>3, TokensOfOthers, SMTT(60)
    <2>5. QED
      BY <2>1, <2>2, <2>3, <2>4, TokensOfLogins, TokensOfAccounts DEF Next, FinishReset
  <1>3. TokensInv => ResetEndsSessions
    BY DEF TokensInv
  <1>4. QED
    BY <1>1, <1>2, <1>3, TypeOfInit, TypeStep, PTL DEF Spec

=============================================================================
