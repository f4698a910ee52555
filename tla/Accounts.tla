-------------------------------- MODULE Accounts --------------------------------
(* The identity service: users, invitations, sessions (a row of refresh_tokens *)
(* and the access token made with it) and password-reset links.  An expired    *)
(* token, link or invitation is refused like an unknown one and is left out;   *)
(* the six-digit code of an invitation changes with its token and stands for   *)
(* it.  An invitation's token is numbered, and renewed at most MaxTokens times. *)
EXTENDS Integers, FiniteSets, Handlers
CONSTANTS Users, Mails, Phones, Invites, Sessions, Links, MaxResends, MaxTokens, NoMail

UserRow == [mail : Mails \cup {NoMail}, password : BOOLEAN, active : BOOLEAN]
InviteRow == [contact : Mails \cup Phones, user : Users, token : 0..MaxTokens,
              resends : 0..MaxResends, accepted : BOOLEAN, by : 0..MaxTokens]
SessionRow == [user : Users, live : BOOLEAN, from : Sessions \cup {NoRow}, ended : BOOLEAN]
LinkRow == [user : Users, used : BOOLEAN]

ASSUME AccountsAssumption ==
    /\ MaxResends \in Nat /\ MaxTokens \in Nat
    /\ NoMail \notin Mails
    /\ NoRow \notin Sessions \cup UserRow \cup InviteRow \cup SessionRow \cup LinkRow

VARIABLES user,               \* users; e-mail and school are unique together
          invite, accepts,    \* invitations; history: how often each was accepted
          session, blacklist, \* sessions; those whose access token was logged out
          link, redeemed      \* reset links; history: how often each was redeemed
invitations == <<invite, accepts>>
sessions == <<session, blacklist>>
links == <<link, redeemed>>
accounts == <<user, invitations, sessions, links>>

AccountsInit ==
    /\ user = [u \in Users |-> NoRow]
    /\ invite = [i \in Invites |-> NoRow] /\ accepts = [i \in Invites |-> 0]
    /\ session = [t \in Sessions |-> NoRow] /\ blacklist = {}
    /\ link = [r \in Links |-> NoRow] /\ redeemed = [r \in Links |-> 0]

------------------------------------------------------------------------------
\* Users.

\* Slip: the e-mail is not asked for.
AnyMail(mail) == TRUE
MailFree(mail) == \A u \in Created(user) : user[u].mail # mail

CreateUser(u, mail) ==
    /\ user[u] = NoRow /\ MailFree(mail)
    /\ user' = [user EXCEPT ![u] = [mail |-> mail, password |-> TRUE, active |-> TRUE]]
    /\ UNCHANGED <<invitations, sessions, links, callers>>
UpdateUser(u, mail, active) ==
    /\ user[u] # NoRow /\ (mail = user[u].mail \/ MailFree(mail))
    /\ user' = [user EXCEPT ![u].mail = mail, ![u].active = active]
    /\ UNCHANGED <<invitations, sessions, links, callers>>

------------------------------------------------------------------------------
\* Invitations.  A contact is an e-mail address or a telephone number.

InvitesTo(k) == {i \in Created(invite) : invite[i].contact = k}

\* A contact that was invited before gets a new token for the same invitation.
ReadForInvite(c, k) ==
    /\ \/ /\ InvitesTo(k) = {}
          /\ Reads(c, [op |-> "stage", on |-> {<<"contact", k>>}, contact |-> k])
       \/ \E i \in InvitesTo(k) :
             /\ ~invite[i].accepted
             /\ Reads(c, [op |-> "renew", on |-> {<<"contact", k>>}, invite |-> i, resend |-> 0])
    /\ UNCHANGED accounts
\* The invited person is a user without a password from now on.
StageInvite(c, u, i) ==
    /\ request[c].op = "stage" /\ user[u] = NoRow /\ invite[i] = NoRow
    /\ LET k == request[c].contact
       IN /\ k \in Mails => MailFree(k)
          /\ user' = [user EXCEPT ![u] = [mail |-> IF k \in Mails THEN k ELSE NoMail,
                                          password |-> FALSE, active |-> TRUE]]
          /\ invite' = [invite EXCEPT ![i] = [contact |-> k, user |-> u, token |-> 0, resends |-> 0,
                                              accepted |-> FALSE, by |-> 0]]
    /\ Ends(c) /\ UNCHANGED <<accepts, sessions, links>>

ReadForResend(c, i) ==
    /\ invite[i] # NoRow /\ ~invite[i].accepted /\ invite[i].resends < MaxResends
    /\ Reads(c, [op |-> "renew", on |-> {<<"contact", invite[i].contact>>}, invite |-> i,
                  resend |-> invite[i].resends + 1])
    /\ UNCHANGED accounts
\* A renewal that is no resend leaves their number alone.
RenewInvite(c) ==
    /\ request[c].op = "renew"
    /\ LET i == request[c].invite
       IN /\ invite[i].token < MaxTokens
          /\ invite' = [invite EXCEPT ![i].token = @ + 1,
                          ![i].resends = IF request[c].resend = 0 THEN @ ELSE request[c].resend]
    /\ Ends(c) /\ UNCHANGED <<user, accepts, sessions, links>>

\* Slip: an invitation that was accepted is taken again.
AnyInvite(i) == invite[i] # NoRow
Acceptable(i) == invite[i] # NoRow /\ ~invite[i].accepted
\* By the token, or by the telephone number and the code.
ReadForAccept(c, i) ==
    /\ Acceptable(i)
    /\ Reads(c, [op |-> "accept", on |-> {<<"contact", invite[i].contact>>}, invite |-> i,
                  token |-> invite[i].token])
    /\ UNCHANGED accounts
AcceptInvite(c) ==
    /\ request[c].op = "accept"
    /\ LET i == request[c].invite
       IN /\ invite' = [invite EXCEPT ![i].accepted = TRUE, ![i].by = request[c].token]
          /\ user' = [user EXCEPT ![invite[i].user].password = TRUE]
          /\ accepts' = [accepts EXCEPT ![i] = @ + 1]
    /\ Ends(c) /\ UNCHANGED <<sessions, links>>

------------------------------------------------------------------------------
\* Sessions.  A login or a refresh overlaps a logout or a reset, not another login.

Opens(u, c) == {<<"opens", u, c>>}
Closes(u) == {<<"opens", u, c>> : c \in Callers}
LiveOf(u) == {t \in Created(session) : session[t].user = u /\ session[t].live}

ReadForLogin(c, u) ==
    /\ user[u] # NoRow /\ user[u].mail # NoMail /\ user[u].password /\ user[u].active
    /\ Reads(c, [op |-> "open", on |-> Opens(u, c), user |-> u, from |-> NoRow])
    /\ UNCHANGED accounts

\* Slip: a refresh token that was revoked is exchanged.
AnyToken(t) == session[t] # NoRow
Refreshable(t) == session[t] # NoRow /\ session[t].live
ReadForRefresh(c, t) ==
    /\ Refreshable(t) /\ user[session[t].user].active
    /\ Reads(c, [op |-> "open", on |-> Opens(session[t].user, c) \cup {<<"token", t>>},
                  user |-> session[t].user, from |-> t])
    /\ UNCHANGED accounts
\* The old token is revoked in the commit that stores the new one.
OpenSession(c, t) ==
    /\ request[c].op = "open" /\ session[t] = NoRow
    /\ LET r == request[c]
       IN session' = [s \in Sessions |->
            CASE s = t      -> [user |-> r.user, live |-> TRUE, from |-> r.from, ended |-> FALSE]
              [] s = r.from -> [session[s] EXCEPT !.live = FALSE]
              [] OTHER      -> session[s]]
    /\ Ends(c) /\ UNCHANGED <<user, invitations, blacklist, links>>

ReadForLogout(c, t) ==
    /\ session[t] # NoRow /\ t \notin blacklist
    /\ Reads(c, [op |-> "end", on |-> Closes(session[t].user), user |-> session[t].user, by |-> t])
    /\ UNCHANGED accounts
ReadForReset(c, u) ==
    /\ user[u] # NoRow
    /\ Reads(c, [op |-> "end", on |-> Closes(u), user |-> u, by |-> NoRow])
    /\ UNCHANGED accounts
\* The UPDATE of the tokens finds the rows committed so far.
FindLive(c) ==
    /\ request[c].op = "end"
    /\ request' = [request EXCEPT ![c] = [op |-> "revoke", on |-> @.on, user |-> @.user, by |-> @.by,
                                          found |-> LiveOf(@.user)]]
    /\ UNCHANGED <<accounts, raced>>
\* Slip: only the session that logs out is ended.
EndsOwn(c) == IF request[c].by = NoRow THEN request[c].found ELSE {request[c].by}
Revoked(c) == request[c].found
\* The identifier of an access token is listed once; an administrator's reset sets a password.
EndSessions(c) ==
    /\ request[c].op = "revoke" /\ request[c].by \notin blacklist
    /\ LET r == request[c]
       IN /\ session' = [s \in Sessions |->
                IF s \in Created(session) /\ session[s].user = r.user
                THEN [session[s] EXCEPT !.live = @ /\ s \notin Revoked(c), !.ended = TRUE]
                ELSE session[s]]
          /\ IF r.by = NoRow
             THEN user' = [user EXCEPT ![r.user].password = TRUE] /\ UNCHANGED blacklist
             ELSE blacklist' = blacklist \cup {r.by} /\ UNCHANGED user
    /\ Ends(c) /\ UNCHANGED <<invitations, links>>

------------------------------------------------------------------------------
\* Password-reset links.

UnusedOf(u) == {r \in Created(link) : link[r].user = u /\ ~link[r].used}

ReadForForgot(c, u) ==
    /\ user[u] # NoRow /\ user[u].mail # NoMail /\ user[u].active
    /\ Reads(c, [op |-> "forgot", on |-> {<<"link", u>>}, user |-> u])
    /\ UNCHANGED accounts
FindLinks(c) ==
    /\ request[c].op = "forgot"
    /\ request' = [request EXCEPT ![c] = [op |-> "mail", on |-> @.on, user |-> @.user,
                                          found |-> UnusedOf(@.user)]]
    /\ UNCHANGED <<accounts, raced>>
MailLink(c, r) ==
    /\ request[c].op = "mail" /\ link[r] = NoRow
    /\ link' = [s \in Links |->
          CASE s = r                 -> [user |-> request[c].user, used |-> FALSE]
            [] s \in request[c].found -> [link[s] EXCEPT !.used = TRUE]
            [] OTHER                 -> link[s]]
    /\ Ends(c) /\ UNCHANGED <<user, invitations, sessions, redeemed>>
ReadForRedeem(c, r) ==
    /\ link[r] # NoRow /\ ~link[r].used
    /\ Reads(c, [op |-> "redeem", on |-> {<<"link", link[r].user>>}, link |-> r])
    /\ UNCHANGED accounts
\* No session ends here, unlike at an administrator's reset.
RedeemLink(c) ==
    /\ request[c].op = "redeem"
    /\ LET r == request[c].link
       IN /\ link' = [link EXCEPT ![r].used = TRUE]
          /\ user' = [user EXCEPT ![link[r].user].password = TRUE]
          /\ redeemed' = [redeemed EXCEPT ![r] = @ + 1]
    /\ Ends(c) /\ UNCHANGED <<invitations, sessions>>

------------------------------------------------------------------------------
UsersNext ==
    \E u \in Users, mail \in Mails :
        CreateUser(u, mail) \/ \E active \in BOOLEAN : UpdateUser(u, mail, active)
InvitationsNext ==
    \E c \in Callers :
        \/ \E k \in Mails \cup Phones : ReadForInvite(c, k)
        \/ \E i \in Invites : ReadForResend(c, i) \/ ReadForAccept(c, i)
        \/ \E u \in Users, i \in Invites : StageInvite(c, u, i)
        \/ RenewInvite(c) \/ AcceptInvite(c)
SessionsNext ==
    \E c \in Callers :
        \/ \E u \in Users : ReadForLogin(c, u) \/ ReadForReset(c, u)
        \/ \E t \in Sessions : ReadForRefresh(c, t) \/ OpenSession(c, t) \/ ReadForLogout(c, t)
        \/ FindLive(c) \/ EndSessions(c)
LinksNext ==
    \E c \in Callers :
        \/ \E u \in Users : ReadForForgot(c, u)
        \/ \E r \in Links : MailLink(c, r) \/ ReadForRedeem(c, r)
        \/ FindLinks(c) \/ RedeemLink(c)
AccountsNext ==
    \/ UsersNext \/ InvitationsNext \/ SessionsNext \/ LinksNext
    \/ \E c \in Callers : GivesUp(c) /\ UNCHANGED accounts
AccountsSpec == AccountsInit /\ HandlersInit /\ [][AccountsNext]_<<accounts, callers>>

------------------------------------------------------------------------------
AccountsTypeOK ==
    /\ user \in [Users -> UserRow \cup {NoRow}]
    /\ invite \in [Invites -> InviteRow \cup {NoRow}]
    /\ session \in [Sessions -> SessionRow \cup {NoRow}]
    /\ link \in [Links -> LinkRow \cup {NoRow}]
    /\ accepts \in [Invites -> Nat] /\ redeemed \in [Links -> Nat] /\ blacklist \subseteq Sessions

\* An e-mail address is one user's, however users are created, invited and renamed at once.
\* A contact has one invitation, accepted once and with the last token made for it, unless
\* two requests worked on it at once; who accepted has a password.
InvitationsAgree ==
    /\ \A mail \in Mails : Cardinality({u \in Created(user) : user[u].mail = mail}) <= 1
    /\ \A k \in Mails \cup Phones : <<"contact", k>> \in raced \/ Cardinality(InvitesTo(k)) <= 1
    /\ \A i \in Created(invite) :
          /\ invite[i].accepted => user[invite[i].user].password
          /\ \/ <<"contact", invite[i].contact>> \in raced
             \/ /\ accepts[i] = IF invite[i].accepted THEN 1 ELSE 0
                /\ invite[i].accepted => invite[i].by = invite[i].token
\* A refresh token is exchanged once unless two exchanges overlapped, and never lives on;
\* after a logout or an administrator's reset no older session of the user is live, unless
\* one was opened while it ran.
SessionsAgree ==
    \A t \in Created(session) :
        /\ session[t].from # NoRow => ~session[session[t].from].live
        /\ \/ <<"token", t>> \in raced
           \/ Cardinality({n \in Created(session) : session[n].from = t}) <= 1
        /\ session[t].live /\ session[t].ended => Closes(session[t].user) \cap raced # {}
\* A user has one link that works, and it works once, unless two requests overlapped.
LinksAgree ==
    /\ \A u \in Users : <<"link", u>> \in raced \/ Cardinality(UnusedOf(u)) <= 1
    /\ \A r \in Created(link) : <<"link", link[r].user>> \in raced \/ redeemed[r] <= 1
\* Accounts agree with what was answered, and every row keeps its type.
AccountsAgree == AccountsTypeOK /\ InvitationsAgree /\ SessionsAgree /\ LinksAgree
===============================================================================
