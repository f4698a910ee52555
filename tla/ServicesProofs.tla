----------------------------- MODULE ServicesProofs -----------------------------
(***************************************************************************)
(* Proofs about the services of MCServices, without its bounds and for     *)
(* every value of their constants.                                         *)
(*                                                                         *)
(* Nothing is locked, so each invariant says what a request in flight      *)
(* knows about the rows it read: that is still so when it commits, or the  *)
(* thing it works on is in raced, because a request that works on it too   *)
(* was in flight with it.                                                  *)
(***************************************************************************)
EXTENDS MCServices, TLAPS, FiniteSetTheorems

-----------------------------------------------------------------------------
\* The identity service.

\* Requests that work on the same thing at once have it in raced.
OneAtATime ==
    \A a, b \in Callers : a # b => request[a].on \cap request[b].on \subseteq raced

Contact(i) == <<"contact", invite[i].contact>>
\* What a request about an invitation knows: a contact that is to be invited has no
\* invitation, and one that is renewed or accepted waits with the token that was read.
InviteKnows(g) ==
    /\ g.op = "stage" =>
          /\ g.contact \in Mails \cup Phones /\ <<"contact", g.contact>> \in g.on
          /\ \/ <<"contact", g.contact>> \in raced
             \/ \A i \in Created(invite) : invite[i].contact # g.contact
    /\ g.op \in {"renew", "accept"} =>
          /\ g.invite \in Created(invite) /\ Contact(g.invite) \in g.on
          /\ Contact(g.invite) \in raced \/ ~invite[g.invite].accepted
    /\ g.op = "renew" => g.resend \in 0..MaxResends
    /\ g.op = "accept" =>
          /\ g.token \in 0..MaxTokens
          /\ Contact(g.invite) \in raced \/ g.token = invite[g.invite].token

\* One that opens a session, in exchange for a token, has a token that still lives; and one
\* that ends the sessions of a user has found all that live.
SessionKnows(g, c) ==
    /\ g.op = "open" =>
          /\ g.user \in Created(user) /\ <<"opens", g.user, c>> \in g.on
          /\ g.from # NoRow =>
                /\ g.from \in Created(session) /\ <<"token", g.from>> \in g.on
                /\ \/ <<"token", g.from>> \in raced
                   \/ \A n \in Created(session) : session[n].from # g.from
    /\ g.op \in {"end", "revoke"} =>
          /\ g.user \in Created(user) /\ g.by \in Sessions \cup {NoRow}
          /\ Closes(g.user) \subseteq g.on
    /\ g.op = "revoke" =>
          \/ Closes(g.user) \cap raced # {}
          \/ \A t \in Created(session) :
                 session[t].user = g.user /\ session[t].live => t \in g.found

\* One that mails a link has found the links that work; one that redeems a link read one that
\* works.
LinkKnows(g) ==
    /\ g.op \in {"forgot", "mail"} => g.user \in Created(user) /\ <<"link", g.user>> \in g.on
    /\ g.op = "mail" =>
          /\ \A r \in g.found : r \in Created(link) /\ link[r].user = g.user
          /\ \/ <<"link", g.user>> \in raced
             \/ \A r \in Created(link) : link[r].user = g.user /\ ~link[r].used => r \in g.found
    /\ g.op = "redeem" =>
          /\ g.link \in Created(link) /\ <<"link", link[g.link].user>> \in g.on
          /\ <<"link", link[g.link].user>> \in raced \/ ~link[g.link].used
RequestKnows(g, c) == InviteKnows(g) /\ SessionKnows(g, c) /\ LinkKnows(g)

AccountRequests ==
    /\ request = [c \in Callers |-> request[c]]
    /\ OneAtATime /\ \A c \in Callers : RequestKnows(request[c], c)

\* Rows, as InvitationsAgree, SessionsAgree and LinksAgree say, without counting.
MailsOnce ==
    \A u, v \in Created(user) : user[u].mail = user[v].mail /\ user[u].mail \in Mails => u = v
InviteWell(i) ==
    /\ invite[i].user \in Created(user)
    /\ invite[i].accepted => user[invite[i].user].password
    /\ \/ Contact(i) \in raced
       \/ /\ \A j \in Created(invite) : invite[j].contact = invite[i].contact => j = i
          /\ accepts[i] = IF invite[i].accepted THEN 1 ELSE 0
          /\ invite[i].accepted => invite[i].by = invite[i].token
InvitesInv ==
    \A i \in Invites : IF invite[i] = NoRow THEN accepts[i] = 0 ELSE InviteWell(i)
SessionWell(t) ==
    /\ session[t].user \in Created(user)
    /\ session[t].from # NoRow =>
          /\ session[t].from \in Created(session) /\ ~session[session[t].from].live
          /\ \/ <<"token", session[t].from>> \in raced
             \/ \A n \in Created(session) : session[n].from = session[t].from => n = t
    /\ session[t].live /\ session[t].ended => Closes(session[t].user) \cap raced # {}
SessionsInv == \A t \in Created(session) : SessionWell(t)
LinkWell(r) ==
    /\ link[r].user \in Created(user)
    /\ \/ <<"link", link[r].user>> \in raced
       \/ /\ redeemed[r] <= 1 /\ (~link[r].used => redeemed[r] = 0)
          /\ ~link[r].used =>
                \A s \in Created(link) : link[s].user = link[r].user /\ ~link[s].used => s = r
LinksInv == \A r \in Links : IF link[r] = NoRow THEN redeemed[r] = 0 ELSE LinkWell(r)

AccountsInv ==
    AccountsTypeOK /\ AccountRequests /\ MailsOnce /\ InvitesInv /\ SessionsInv /\ LinksInv

\* Whoever reads has what another works on in raced, and everybody else's request stays.
LEMMA ReadsOnce ==
  ASSUME request = [d \in Callers |-> request[d]], OneAtATime, NEW c \in Callers, NEW req,
         Reads(c, req)
  PROVE  /\ request' = [d \in Callers |-> request'[d]] /\ OneAtATime' /\ raced \subseteq raced'
         /\ request'[c] = req /\ \A d \in Callers : d # c => request'[d] = request[d]
         /\ \A d \in Callers, x \in req.on : d # c /\ x \in request[d].on => x \in raced'
<1>1. /\ request' = [request EXCEPT ![c] = req]
      /\ raced' = raced \cup (req.on \cap UNION {request[d].on : d \in Callers})
  BY DEF Reads
<1>2. request'[c] = req /\ \A d \in Callers : d # c => request'[d] = request[d]  BY <1>1
<1>3. \A d \in Callers, x \in req.on : d # c /\ x \in request[d].on => x \in raced'
  BY <1>1
<1>4. request' = [d \in Callers |-> request'[d]]  BY <1>1
<1>5. OneAtATime'
  <2> SUFFICES ASSUME NEW a \in Callers, NEW b \in Callers, a # b,
                      NEW x \in request'[a].on \cap request'[b].on
               PROVE  x \in raced'
    BY DEF OneAtATime
  <2>1. CASE a # c /\ b # c  BY <2>1, <1>1, <1>2 DEF OneAtATime
  <2>2. CASE a = c  BY <2>2, <1>2, <1>3
  <2>3. CASE b = c  BY <2>3, <1>2, <1>3
  <2> QED  BY <2>1, <2>2, <2>3
<1> QED  BY <1>1, <1>2, <1>3, <1>4, <1>5

\* A request that ends leaves the others alone.
LEMMA EndsOnce ==
  ASSUME request = [d \in Callers |-> request[d]], OneAtATime, NEW c \in Callers, Ends(c)
  PROVE  /\ request' = [d \in Callers |-> request'[d]] /\ OneAtATime' /\ raced' = raced
         /\ request'[c] = Idle /\ \A d \in Callers : d # c => request'[d] = request[d]
<1>1. request' = [request EXCEPT ![c] = Idle] /\ raced' = raced  BY DEF Ends
<1>2. request'[c] = Idle /\ \A d \in Callers : d # c => request'[d] = request[d]  BY <1>1
<1>3. OneAtATime'
  <2> SUFFICES ASSUME NEW a \in Callers, NEW b \in Callers, a # b
               PROVE  request'[a].on \cap request'[b].on \subseteq raced
    BY <1>1 DEF OneAtATime
  <2>1. Idle.on = {}  BY DEF Idle
  <2> QED  BY <2>1, <1>2 DEF OneAtATime
<1> QED  BY <1>1, <1>2, <1>3

\* A request that goes on about the same things leaves the others alone.
LEMMA GoesOnOnce ==
  ASSUME request = [d \in Callers |-> request[d]], OneAtATime, NEW c \in Callers, NEW req,
         request' = [request EXCEPT ![c] = req], raced' = raced, req.on = request[c].on
  PROVE  /\ request' = [d \in Callers |-> request'[d]] /\ OneAtATime'
         /\ request'[c] = req /\ \A d \in Callers : d # c => request'[d] = request[d]
<1>1. request'[c] = req /\ \A d \in Callers : d # c => request'[d] = request[d]  OBVIOUS
<1>2. \A d \in Callers : request'[d].on = request[d].on  BY <1>1
<1> QED  BY <1>1, <1>2 DEF OneAtATime

\* A request that is nothing knows nothing.
LEMMA IdleKnows ==
  ASSUME NEW c PROVE RequestKnows(Idle, c)
BY DEF Idle, RequestKnows, InviteKnows, SessionKnows, LinkKnows

\* What a request knows, and what rows promise, outlives a race.
LEMMA OutlivesRaces ==
  ASSUME UNCHANGED accounts, raced \subseteq raced'
  PROVE  /\ \A g, c : RequestKnows(g, c) => RequestKnows(g, c)'
         /\ AccountsTypeOK => AccountsTypeOK'
         /\ MailsOnce => MailsOnce'
         /\ InvitesInv => InvitesInv'
         /\ SessionsInv => SessionsInv'
         /\ LinksInv => LinksInv'
<1>1. UNCHANGED <<user, invite, accepts, session, blacklist, link, redeemed>>
  BY DEF accounts, invitations, sessions, links
<1>2. ASSUME NEW g, NEW c, RequestKnows(g, c) PROVE RequestKnows(g, c)'
  <2>1. InviteKnows(g)'  BY <1>1, <1>2 DEF RequestKnows, InviteKnows, Contact, Created
  <2>2. SessionKnows(g, c)'
    BY <1>1, <1>2 DEF RequestKnows, SessionKnows, Closes, Created
  <2>3. LinkKnows(g)'  BY <1>1, <1>2 DEF RequestKnows, LinkKnows, Created
  <2> QED  BY <2>1, <2>2, <2>3 DEF RequestKnows
<1>3. AccountsTypeOK => AccountsTypeOK'  BY <1>1 DEF AccountsTypeOK
<1>4. MailsOnce => MailsOnce'  BY <1>1 DEF MailsOnce, Created
<1>5. InvitesInv => InvitesInv'  BY <1>1 DEF InvitesInv, InviteWell, Created, Contact
<1>6. SessionsInv => SessionsInv'
  BY <1>1 DEF SessionsInv, SessionWell, Created, Closes
<1>7. LinksInv => LinksInv'  BY <1>1 DEF LinksInv, LinkWell, Created
<1> QED  BY <1>2, <1>3, <1>4, <1>5, <1>6, <1>7

\* So a request that reads has only to know what it read.
LEMMA ReadingKeeps ==
  ASSUME AccountsInv, NEW c \in Callers, NEW req, Reads(c, req), UNCHANGED accounts,
         RequestKnows(req, c)'
  PROVE  AccountsInv'
<1> USE DEF AccountsInv, AccountRequests
<1>1. /\ request' = [d \in Callers |-> request'[d]] /\ OneAtATime' /\ raced \subseteq raced'
      /\ request'[c] = req /\ \A d \in Callers : d # c => request'[d] = request[d]
  BY ReadsOnce
<1>2. ASSUME NEW d \in Callers PROVE RequestKnows(request[d], d)'
  <2>1. PICK g : g = request'[d]  OBVIOUS
  <2>2. RequestKnows(g, d)'
    <3>1. CASE d = c  BY <3>1, <2>1, <1>1
    <3>2. CASE d # c
      <4>1. RequestKnows(g, d)  BY <3>2, <2>1, <1>1
      <4> QED  BY <4>1, <1>1, OutlivesRaces
    <3> QED  BY <3>1, <3>2
  <2> QED  BY <2>1, <2>2
<1>3. AccountRequests'  BY <1>1, <1>2
<1>4. AccountsTypeOK' /\ MailsOnce' /\ InvitesInv' /\ SessionsInv' /\ LinksInv'
  BY <1>1, OutlivesRaces
<1> QED  BY <1>3, <1>4

\* Requests that read: each knows what it read.
LEMMA InviteReadsKeep ==
  ASSUME AccountsInv, NEW c \in Callers,
         \/ \E k \in Mails \cup Phones : ReadForInvite(c, k)
         \/ \E i \in Invites : ReadForResend(c, i) \/ ReadForAccept(c, i)
  PROVE  AccountsInv'
<1> USE DEF AccountsInv, AccountRequests
<1>1. ASSUME NEW k \in Mails \cup Phones, ReadForInvite(c, k) PROVE AccountsInv'
  <2>1. UNCHANGED accounts /\ UNCHANGED invite
    BY <1>1 DEF ReadForInvite, accounts, invitations
  <2>2. CASE InvitesTo(k) = {}
                /\ Reads(c, [op |-> "stage", on |-> {<<"contact", k>>}, contact |-> k])
    <3> DEFINE req == [op |-> "stage", on |-> {<<"contact", k>>}, contact |-> k]
    <3>1. RequestKnows(req, c)'
      BY <2>1, <2>2 DEF RequestKnows, InviteKnows, SessionKnows, LinkKnows, InvitesTo, Created
    <3> HIDE DEF req
    <3> QED  BY <2>1, <2>2, <3>1, ReadingKeeps DEF req
  <2>3. ASSUME NEW i \in InvitesTo(k), ~invite[i].accepted,
               Reads(c, [op |-> "renew", on |-> {<<"contact", k>>}, invite |-> i, resend |-> 0])
        PROVE  AccountsInv'
    <3> DEFINE req == [op |-> "renew", on |-> {<<"contact", k>>}, invite |-> i, resend |-> 0]
    <3>1. i \in Created(invite) /\ invite[i].contact = k  BY <2>3 DEF InvitesTo
    <3>2. 0 \in 0..MaxResends  BY AccountsAssumption
    <3>3. RequestKnows(req, c)'
      BY <2>1, <2>3, <3>1, <3>2
         DEF RequestKnows, InviteKnows, SessionKnows, LinkKnows, Contact, Created
    <3> HIDE DEF req
    <3> QED  BY <2>1, <2>3, <3>3, ReadingKeeps DEF req
  <2> QED  BY <1>1, <2>2, <2>3 DEF ReadForInvite
<1>2. ASSUME NEW i \in Invites, ReadForResend(c, i) PROVE AccountsInv'
  <2> PICK req : req = [op |-> "renew", on |-> {<<"contact", invite[i].contact>>}, invite |-> i,
                      resend |-> invite[i].resends + 1]
    OBVIOUS
  <2>1. UNCHANGED accounts /\ UNCHANGED invite /\ Reads(c, req) /\ i \in Created(invite)
        /\ ~invite[i].accepted /\ invite[i].resends < MaxResends
    BY <1>2 DEF ReadForResend, accounts, invitations, Created, AccountsTypeOK
  <2>2. invite[i].resends + 1 \in 0..MaxResends
    BY <2>1, AccountsAssumption DEF AccountsTypeOK, Created, InviteRow
  <2>3. RequestKnows(req, c)'
    BY <2>1, <2>2 DEF RequestKnows, InviteKnows, SessionKnows, LinkKnows, Contact, Created
  <2> QED  BY <2>1, <2>3, ReadingKeeps
<1>3. ASSUME NEW i \in Invites, ReadForAccept(c, i) PROVE AccountsInv'
  <2> PICK req : req = [op |-> "accept", on |-> {<<"contact", invite[i].contact>>}, invite |-> i,
                      token |-> invite[i].token]
    OBVIOUS
  <2>1. UNCHANGED accounts /\ UNCHANGED invite /\ Reads(c, req) /\ i \in Created(invite)
        /\ ~invite[i].accepted
    BY <1>3 DEF ReadForAccept, Acceptable, accounts, invitations, Created, AccountsTypeOK
  <2>2. invite[i].token \in 0..MaxTokens  BY <2>1 DEF AccountsTypeOK, Created, InviteRow
  <2>3. RequestKnows(req, c)'
    BY <2>1, <2>2 DEF RequestKnows, InviteKnows, SessionKnows, LinkKnows, Contact, Created
  <2> QED  BY <2>1, <2>3, ReadingKeeps
<1> QED  BY <1>1, <1>2, <1>3

LEMMA SessionReadsKeep ==
  ASSUME AccountsInv, NEW c \in Callers,
         \/ \E u \in Users : ReadForLogin(c, u) \/ ReadForReset(c, u)
         \/ \E t \in Sessions : ReadForRefresh(c, t) \/ ReadForLogout(c, t)
  PROVE  AccountsInv'
<1> USE DEF AccountsInv, AccountRequests
<1>1. ASSUME NEW u \in Users, ReadForLogin(c, u) PROVE AccountsInv'
  <2> DEFINE req == [op |-> "open", on |-> Opens(u, c), user |-> u, from |-> NoRow]
  <2>1. UNCHANGED accounts /\ UNCHANGED user /\ Reads(c, req) /\ u \in Created(user)
    BY <1>1 DEF ReadForLogin, accounts, Created, AccountsTypeOK
  <2>2. RequestKnows(req, c)'
    BY <2>1 DEF RequestKnows, InviteKnows, SessionKnows, LinkKnows, Opens, Created
  <2> HIDE DEF req
  <2> QED  BY <2>1, <2>2, ReadingKeeps
<1>2. ASSUME NEW u \in Users, ReadForReset(c, u) PROVE AccountsInv'
  <2> DEFINE req == [op |-> "end", on |-> Closes(u), user |-> u, by |-> NoRow]
  <2>1. UNCHANGED accounts /\ UNCHANGED user /\ Reads(c, req) /\ u \in Created(user)
    BY <1>2 DEF ReadForReset, accounts, Created, AccountsTypeOK
  <2>2. RequestKnows(req, c)'
    BY <2>1 DEF RequestKnows, InviteKnows, SessionKnows, LinkKnows, Created, Closes
  <2> HIDE DEF req
  <2> QED  BY <2>1, <2>2, ReadingKeeps
<1>3. ASSUME NEW t \in Sessions, ReadForRefresh(c, t) PROVE AccountsInv'
  <2> PICK req : req = [op |-> "open", on |-> Opens(session[t].user, c) \cup {<<"token", t>>},
                      user |-> session[t].user, from |-> t]
    OBVIOUS
  <2>1. UNCHANGED accounts /\ UNCHANGED <<user, session>> /\ Reads(c, req)
        /\ t \in Created(session) /\ session[t].live
    BY <1>3 DEF ReadForRefresh, Refreshable, accounts, sessions, Created, AccountsTypeOK
  <2>2. session[t].user \in Created(user)  BY <2>1 DEF SessionsInv, SessionWell
  <2>3. \A n \in Created(session) : session[n].from # t
    <3>1. t # NoRow  BY AccountsAssumption
    <3> QED  BY <2>1, <3>1 DEF SessionsInv, SessionWell
  <2>4. RequestKnows(req, c)'
    BY <2>1, <2>2, <2>3 DEF RequestKnows, InviteKnows, SessionKnows, LinkKnows, Opens, Created
  <2> QED  BY <2>1, <2>4, ReadingKeeps
<1>4. ASSUME NEW t \in Sessions, ReadForLogout(c, t) PROVE AccountsInv'
  <2> PICK req : req = [op |-> "end", on |-> Closes(session[t].user), user |-> session[t].user,
                      by |-> t]
    OBVIOUS
  <2>1. UNCHANGED accounts /\ UNCHANGED user /\ Reads(c, req) /\ t \in Created(session)
    BY <1>4 DEF ReadForLogout, accounts, Created, AccountsTypeOK
  <2>2. session[t].user \in Created(user)  BY <2>1 DEF SessionsInv, SessionWell
  <2>3. RequestKnows(req, c)'
    BY <2>1, <2>2 DEF RequestKnows, InviteKnows, SessionKnows, LinkKnows, Created, Closes
  <2> QED  BY <2>1, <2>3, ReadingKeeps
<1> QED  BY <1>1, <1>2, <1>3, <1>4

LEMMA LinkReadsKeep ==
  ASSUME AccountsInv, NEW c \in Callers,
         \/ \E u \in Users : ReadForForgot(c, u)
         \/ \E r \in Links : ReadForRedeem(c, r)
  PROVE  AccountsInv'
<1> USE DEF AccountsInv, AccountRequests
<1>1. ASSUME NEW u \in Users, ReadForForgot(c, u) PROVE AccountsInv'
  <2> DEFINE req == [op |-> "forgot", on |-> {<<"link", u>>}, user |-> u]
  <2>1. UNCHANGED accounts /\ UNCHANGED user /\ Reads(c, req) /\ u \in Created(user)
    BY <1>1 DEF ReadForForgot, accounts, Created, AccountsTypeOK
  <2>2. RequestKnows(req, c)'
    BY <2>1 DEF RequestKnows, InviteKnows, SessionKnows, LinkKnows, Created
  <2> HIDE DEF req
  <2> QED  BY <2>1, <2>2, ReadingKeeps
<1>2. ASSUME NEW r \in Links, ReadForRedeem(c, r) PROVE AccountsInv'
  <2> PICK req : req = [op |-> "redeem", on |-> {<<"link", link[r].user>>}, link |-> r]
    OBVIOUS
  <2>1. UNCHANGED accounts /\ UNCHANGED link /\ Reads(c, req) /\ r \in Created(link)
        /\ ~link[r].used
    BY <1>2 DEF ReadForRedeem, accounts, links, Created, AccountsTypeOK
  <2>2. RequestKnows(req, c)'
    BY <2>1 DEF RequestKnows, InviteKnows, SessionKnows, LinkKnows, Created
  <2> QED  BY <2>1, <2>2, ReadingKeeps
<1> QED  BY <1>1, <1>2

\* The missing row is no row.
LEMMA NoRowIsNone ==
  NoRow \notin Sessions \cup UserRow \cup InviteRow \cup SessionRow \cup LinkRow
  /\ NoMail \notin Mails
BY AccountsAssumption

\* Users come, never go, and keep the password they have.
UsersStay ==
    \A u \in Created(user) :
        u \in Created(user)' /\ (user[u].password => user'[u].password)

\* What changes users alone leaves what requests know, and every other row.
LEMMA UsersChange ==
  ASSUME AccountsInv, UsersStay, UNCHANGED <<invitations, sessions, links>>, raced' = raced,
         user' \in [Users -> UserRow \cup {NoRow}]
  PROVE  /\ \A g, c : RequestKnows(g, c) => RequestKnows(g, c)'
         /\ AccountsTypeOK' /\ InvitesInv' /\ SessionsInv' /\ LinksInv'
<1> USE DEF AccountsInv
<1>1. UNCHANGED <<invite, accepts, session, blacklist, link, redeemed>> /\ raced' = raced
  BY DEF invitations, sessions, links
<1>2. \A u \in Created(user) : u \in Created(user)' /\ (user[u].password => user'[u].password)
  BY DEF UsersStay
<1>3. /\ Created(invite)' = Created(invite) /\ Created(session)' = Created(session)
      /\ Created(link)' = Created(link) /\ \A i : Contact(i)' = Contact(i)
      /\ \A u : Closes(u)' = Closes(u)
  BY <1>1 DEF Created, Contact, Closes
<1>4. ASSUME NEW g, NEW c, RequestKnows(g, c) PROVE RequestKnows(g, c)'
  BY <1>1, <1>2, <1>3, <1>4 DEF RequestKnows, InviteKnows, SessionKnows, LinkKnows
<1>5. AccountsTypeOK'  BY <1>1 DEF AccountsTypeOK
<1>6. InvitesInv'  BY <1>1, <1>2, <1>3 DEF InvitesInv, InviteWell
<1>7. SessionsInv'  BY <1>1, <1>2, <1>3 DEF SessionsInv, SessionWell
<1>8. LinksInv'  BY <1>1, <1>2, <1>3 DEF LinksInv, LinkWell
<1> QED  BY <1>4, <1>5, <1>6, <1>7, <1>8

\* One user is created or changed.
LEMMA UsersKeep ==
  ASSUME AccountsInv, UsersNext PROVE AccountsInv'
<1> USE DEF AccountsInv, AccountRequests
<1>1. PICK u \in Users, mail \in Mails :
          \/ CreateUser(u, mail)
          \/ \E active \in BOOLEAN : UpdateUser(u, mail, active)
  BY DEF UsersNext
<1>2. UNCHANGED <<invitations, sessions, links, callers>>  BY <1>1 DEF CreateUser, UpdateUser
<1>3. PICK new : user' = [user EXCEPT ![u] = new]
                /\ new \in UserRow /\ new.mail = mail
                /\ (user[u] # NoRow /\ user[u].password => new.password)
                /\ ((user[u] # NoRow /\ mail = user[u].mail) \/ MailFree(mail))
  <2>1. CASE CreateUser(u, mail)
    <3> DEFINE new == [mail |-> mail, password |-> TRUE, active |-> TRUE]
    <3>1. user' = [user EXCEPT ![u] = new] /\ MailFree(mail)  BY <2>1 DEF CreateUser
    <3>2. new \in UserRow /\ new.mail = mail /\ new.password = TRUE  BY DEF UserRow
    <3> HIDE DEF new
    <3> QED  BY <3>1, <3>2
  <2>2. ASSUME NEW active \in BOOLEAN, UpdateUser(u, mail, active)
        PROVE  \E new : user' = [user EXCEPT ![u] = new]
                   /\ new \in UserRow /\ new.mail = mail
                   /\ (user[u] # NoRow /\ user[u].password => new.password)
                   /\ ((user[u] # NoRow /\ mail = user[u].mail) \/ MailFree(mail))
    <3> DEFINE new == [[user[u] EXCEPT !.mail = mail] EXCEPT !.active = active]
    <3>1. user[u] \in UserRow /\ user[u] # NoRow  BY <2>2 DEF UpdateUser, AccountsTypeOK
    <3>2. user' = [user EXCEPT ![u] = new]  BY <2>2, <3>1 DEF UpdateUser, AccountsTypeOK
    <3>3. new \in UserRow /\ new.mail = mail /\ new.password = user[u].password
      BY <3>1 DEF UserRow
    <3>4. mail = user[u].mail \/ MailFree(mail)  BY <2>2 DEF UpdateUser
    <3> HIDE DEF new
    <3> QED  BY <3>1, <3>2, <3>3, <3>4
  <2> QED  BY <1>1, <2>1, <2>2
<1>4. /\ user'[u] = new /\ new # NoRow /\ \A v \in Users \ {u} : user'[v] = user[v]
      /\ user' \in [Users -> UserRow \cup {NoRow}] /\ DOMAIN user' = Users /\ DOMAIN user = Users
  BY <1>3, NoRowIsNone DEF AccountsTypeOK
<1>5. UsersStay  BY <1>3, <1>4 DEF UsersStay, Created
<1>6. MailsOnce'
  <2> SUFFICES ASSUME NEW v \in Users, NEW w \in Users, user'[v] # NoRow, user'[w] # NoRow,
                      user'[v].mail = user'[w].mail, user'[v].mail \in Mails
               PROVE  v = w
    BY <1>4 DEF MailsOnce, Created
  <2>1. \A x \in Users \ {u} : user[x] # NoRow /\ user[x].mail = mail
                                  => user[u] # NoRow /\ user[u].mail = mail
    BY <1>3, <1>4 DEF MailFree, Created
  <2> QED  BY <2>1, <1>3, <1>4 DEF MailsOnce, Created
<1>7. raced' = raced /\ request' = request  BY <1>2 DEF callers
<1>8. /\ \A g, c : RequestKnows(g, c) => RequestKnows(g, c)'
      /\ AccountsTypeOK' /\ InvitesInv' /\ SessionsInv' /\ LinksInv'
  BY <1>2, <1>4, <1>5, <1>7, UsersChange
<1>9. AccountRequests'
  <2>1. ASSUME NEW c \in Callers PROVE RequestKnows(request[c], c)'
    <3>1. PICK g : g = request[c]  OBVIOUS
    <3>2. RequestKnows(g, c)'  BY <3>1, <1>8
    <3> QED  BY <3>1, <3>2, <1>7
  <2> QED  BY <2>1, <1>7 DEF OneAtATime
<1> QED  BY <1>6, <1>8, <1>9

\* A request that commits leaves the others their knowledge, and its own is gone.
LEMMA OthersKnow ==
  ASSUME AccountRequests, NEW c \in Callers, Ends(c),
         \A d \in Callers : \A g : d # c /\ g = request[d] => RequestKnows(g, d)'
  PROVE  AccountRequests'
<1> USE DEF AccountRequests
<1>1. /\ request' = [d \in Callers |-> request'[d]] /\ OneAtATime' /\ raced' = raced
      /\ request'[c] = Idle /\ \A d \in Callers : d # c => request'[d] = request[d]
  BY EndsOnce
<1>2. ASSUME NEW d \in Callers PROVE RequestKnows(request[d], d)'
  <2>1. PICK g : g = request'[d]  OBVIOUS
  <2>2. RequestKnows(g, d)'
    <3>1. CASE d = c
      <4>1. g = Idle  BY <3>1, <2>1, <1>1
      <4>2. RequestKnows(Idle, d)'
        BY DEF Idle, RequestKnows, InviteKnows, SessionKnows, LinkKnows
      <4> QED  BY <4>1, <4>2
    <3>2. CASE d # c  BY <3>2, <2>1, <1>1
    <3> QED  BY <3>1, <3>2
  <2> QED  BY <2>1, <2>2
<1> QED  BY <1>1, <1>2

\* What two requests work on is in raced.
LEMMA Together ==
  ASSUME AccountRequests, NEW c \in Callers, NEW d \in Callers, d # c, NEW x,
         x \in request[c].on, x \in request[d].on
  PROVE  x \in raced
BY DEF AccountRequests, OneAtATime

\* What changes invitations leaves what sessions and links are about.
LEMMA InvitesChange ==
  ASSUME AccountsInv, UsersStay, UNCHANGED <<sessions, links>>, raced' = raced
  PROVE  /\ \A g, c : SessionKnows(g, c) => SessionKnows(g, c)'
         /\ \A g : LinkKnows(g) => LinkKnows(g)'
         /\ SessionsInv' /\ LinksInv'
<1> USE DEF AccountsInv
<1>1. UNCHANGED <<session, blacklist, link, redeemed>> /\ raced' = raced
  BY DEF sessions, links
<1>2. \A u \in Created(user) : u \in Created(user)'  BY DEF UsersStay
<1>3. /\ Created(session)' = Created(session) /\ Created(link)' = Created(link)
      /\ \A u : Closes(u)' = Closes(u)
  BY <1>1 DEF Created, Closes
<1>4. \A g, c : SessionKnows(g, c) => SessionKnows(g, c)'
  BY <1>1, <1>2, <1>3 DEF SessionKnows
<1>5. \A g : LinkKnows(g) => LinkKnows(g)'  BY <1>1, <1>2, <1>3 DEF LinkKnows
<1>6. SessionsInv'  BY <1>1, <1>2, <1>3 DEF SessionsInv, SessionWell
<1>7. LinksInv'  BY <1>1, <1>2, <1>3 DEF LinksInv, LinkWell
<1> QED  BY <1>4, <1>5, <1>6, <1>7

\* A contact is invited: it had no invitation, unless raced.
LEMMA StageKeeps ==
  ASSUME AccountsInv, NEW c \in Callers, NEW u \in Users, NEW i \in Invites, StageInvite(c, u, i)
  PROVE  AccountsInv'
<1> USE DEF AccountsInv
<1>1. PICK k, r : k = request[c].contact /\ r = request[c]  OBVIOUS
<1> DEFINE newUser == [mail |-> IF k \in Mails THEN k ELSE NoMail, password |-> FALSE,
                       active |-> TRUE]
           newInvite == [contact |-> k, user |-> u, token |-> 0, resends |-> 0,
                         accepted |-> FALSE, by |-> 0]
<1>2. /\ r.op = "stage" /\ user[u] = NoRow /\ invite[i] = NoRow /\ (k \in Mails => MailFree(k))
      /\ user' = [user EXCEPT ![u] = newUser] /\ invite' = [invite EXCEPT ![i] = newInvite]
      /\ Ends(c) /\ UNCHANGED <<accepts, sessions, links>> /\ raced' = raced
  BY <1>1 DEF StageInvite, Ends
<1>3. /\ k \in Mails \cup Phones /\ <<"contact", k>> \in r.on
      /\ \/ <<"contact", k>> \in raced
         \/ \A j \in Created(invite) : invite[j].contact # k
  BY <1>1, <1>2 DEF AccountRequests, RequestKnows, InviteKnows
<1>4. newUser \in UserRow /\ newUser.mail = (IF k \in Mails THEN k ELSE NoMail)
      /\ newUser # NoRow
  <2>1. (IF k \in Mails THEN k ELSE NoMail) \in Mails \cup {NoMail}  OBVIOUS
  <2>2. newUser \in UserRow  BY <2>1 DEF UserRow
  <2> QED  BY <2>2, NoRowIsNone
<1>5. newInvite \in InviteRow /\ newInvite # NoRow /\ newInvite.contact = k
      /\ newInvite.user = u /\ newInvite.token = 0 /\ newInvite.accepted = FALSE
      /\ newInvite.by = 0
  <2>1. 0 \in 0..MaxTokens /\ 0 \in 0..MaxResends  BY AccountsAssumption
  <2>2. newInvite \in InviteRow  BY <2>1, <1>3 DEF InviteRow
  <2> QED  BY <2>2, NoRowIsNone
<1> HIDE DEF newUser, newInvite
<1>6. /\ user'[u] = newUser /\ \A v \in Users \ {u} : user'[v] = user[v]
      /\ user' \in [Users -> UserRow \cup {NoRow}] /\ DOMAIN user' = Users /\ DOMAIN user = Users
  BY <1>2, <1>4 DEF AccountsTypeOK
<1>7. /\ invite'[i] = newInvite /\ \A j \in Invites \ {i} : invite'[j] = invite[j]
      /\ invite' \in [Invites -> InviteRow \cup {NoRow}]
      /\ DOMAIN invite' = Invites /\ DOMAIN invite = Invites
  BY <1>2, <1>5 DEF AccountsTypeOK
<1>8. UsersStay  BY <1>2, <1>6 DEF UsersStay, Created
<1>9. \A x \in Users : u # x /\ user[x] # NoRow /\ k \in Mails => user[x].mail # k
  BY <1>2, <1>6 DEF MailFree, Created
<1>10. MailsOnce'
  <2> SUFFICES ASSUME NEW v \in Users, NEW w \in Users, user'[v] # NoRow, user'[w] # NoRow,
                      user'[v].mail = user'[w].mail, user'[v].mail \in Mails
               PROVE  v = w
    BY <1>6 DEF MailsOnce, Created
  <2>1. user'[u].mail \in Mails => user'[u].mail = k /\ k \in Mails
    BY <1>4, <1>6, NoRowIsNone
  <2> QED  BY <2>1, <1>6, <1>9 DEF MailsOnce, Created
<1>11. /\ \A g, d : SessionKnows(g, d) => SessionKnows(g, d)'
       /\ \A g : LinkKnows(g) => LinkKnows(g)'
       /\ SessionsInv' /\ LinksInv'
  BY <1>2, <1>8, InvitesChange
<1>12. AccountsTypeOK'  BY <1>2, <1>6, <1>7 DEF AccountsTypeOK, sessions, links
<1>13. /\ \A j \in Created(invite) : j # i /\ invite'[j] = invite[j] /\ j \in Created(invite)'
                                       /\ Contact(j)' = Contact(j)
       /\ \A j \in Created(invite)' : j = i \/ j \in Created(invite)
       /\ i \in Created(invite)' /\ i \notin Created(invite)
  BY <1>2, <1>5, <1>7 DEF Created, Contact
<1>14. InvitesInv'
  <2> SUFFICES ASSUME NEW j \in Invites
               PROVE  IF invite'[j] = NoRow THEN accepts'[j] = 0 ELSE InviteWell(j)'
    BY DEF InvitesInv
  <2>1. CASE j = i
    <3>1. accepts'[i] = 0  BY <1>2 DEF InvitesInv
    <3>2. u \in Created(user)'  BY <1>4, <1>6 DEF Created
    <3>3. \/ <<"contact", k>> \in raced
          \/ \A n \in Created(invite)' : invite'[n].contact = k => n = i
      BY <1>3, <1>13
    <3> QED  BY <2>1, <3>1, <3>2, <3>3, <1>2, <1>5, <1>7 DEF InviteWell, Contact
  <2>2. CASE j # i /\ invite[j] # NoRow
    <3>1. invite'[j] = invite[j] /\ InviteWell(j) /\ j \in Created(invite)
      BY <2>2, <1>7 DEF InvitesInv, Created
    <3>2. invite[j].user \in Created(user)'
          /\ (invite[j].accepted => user'[invite[j].user].password)
      BY <3>1, <1>8 DEF InviteWell, UsersStay
    <3>3. Contact(j) \in raced \/ \A n \in Created(invite)' :
                                      invite'[n].contact = invite[j].contact => n = j
      BY <3>1, <1>3, <1>5, <1>7, <1>13 DEF InviteWell, Contact
    <3>4. accepts' = accepts /\ Contact(j)' = Contact(j)  BY <3>1, <1>2, <1>13
    <3>5. InviteWell(j)'
      BY <3>1, <3>2, <3>3, <3>4, <1>2 DEF InviteWell
    <3> QED  BY <2>2, <3>1, <3>5
  <2>3. CASE j # i /\ invite[j] = NoRow
    BY <2>3, <1>2, <1>7 DEF InvitesInv
  <2> QED  BY <2>1, <2>2, <2>3
<1>15. ASSUME NEW d \in Callers, NEW g, d # c, g = request[d] PROVE RequestKnows(g, d)'
  <2>1. RequestKnows(g, d)  BY <1>15 DEF AccountRequests
  <2>2. <<"contact", k>> \in g.on => <<"contact", k>> \in raced
    BY <1>1, <1>3, <1>15, Together
  <2>3. InviteKnows(g)'
    <3>1. InviteKnows(g)  BY <2>1 DEF RequestKnows
    <3>2. CASE g.op = "stage"
      <4>1. g.contact = k => <<"contact", k>> \in raced  BY <3>1, <3>2, <2>2 DEF InviteKnows
      <4>2. \A n \in Created(invite)' :
                \/ invite'[n].contact = k
                \/ n \in Created(invite) /\ invite'[n] = invite[n]
        BY <1>5, <1>7, <1>13
      <4> QED  BY <3>1, <3>2, <4>1, <4>2, <1>2 DEF InviteKnows
    <3>3. CASE g.op \in {"renew", "accept"}
      <4>1. /\ g.invite \in Created(invite)' /\ invite'[g.invite] = invite[g.invite]
            /\ Contact(g.invite)' = Contact(g.invite)
        BY <3>1, <3>3, <1>13 DEF InviteKnows
      <4> QED  BY <3>1, <3>3, <4>1, <1>2 DEF InviteKnows
    <3>4. CASE g.op \notin {"stage", "renew", "accept"}  BY <3>4 DEF InviteKnows
    <3> QED  BY <3>2, <3>3, <3>4
  <2> QED  BY <2>1, <2>3, <1>11 DEF RequestKnows
<1>16. AccountRequests'  BY <1>2, <1>15, OthersKnow
<1> QED  BY <1>10, <1>11, <1>12, <1>14, <1>16

\* An invitation changes in place: its contact and its user stay.
InvitePlaced(i) ==
    /\ i \in Created(invite) /\ i \in Created(invite)' /\ invite'[i].contact = invite[i].contact
    /\ invite'[i].user = invite[i].user
    /\ \A j \in Invites \ {i} : invite'[j] = invite[j] /\ accepts'[j] = accepts[j]

\* Others than the one that changes an invitation know what they knew.
LEMMA InviteChangeKnown ==
  ASSUME AccountsInv, NEW c \in Callers, NEW i, InvitePlaced(i), Contact(i) \in request[c].on,
         UsersStay, UNCHANGED <<sessions, links>>, Ends(c),
         invite' \in [Invites -> InviteRow \cup {NoRow}]
  PROVE  AccountRequests' /\ SessionsInv' /\ LinksInv'
<1> USE DEF AccountsInv
<1>1. raced' = raced  BY DEF Ends
<1>2. /\ \A g, d : SessionKnows(g, d) => SessionKnows(g, d)'
      /\ \A g : LinkKnows(g) => LinkKnows(g)'
      /\ SessionsInv' /\ LinksInv'
  BY <1>1, InvitesChange
<1>3. /\ Created(invite)' = Created(invite)
      /\ \A j \in Created(invite) : invite'[j].contact = invite[j].contact
      /\ \A j \in Created(invite) : Contact(j)' = Contact(j)
  BY DEF InvitePlaced, Created, Contact, AccountsTypeOK
<1>4. ASSUME NEW d \in Callers, NEW g, d # c, g = request[d] PROVE RequestKnows(g, d)'
  <2>1. RequestKnows(g, d)  BY <1>4 DEF AccountRequests
  <2>2. Contact(i) \in g.on => Contact(i) \in raced  BY <1>4, Together
  <2>3. InviteKnows(g)'
    <3>1. InviteKnows(g)  BY <2>1 DEF RequestKnows
    <3>2. CASE g.op = "stage"  BY <3>1, <3>2, <1>1, <1>3 DEF InviteKnows
    <3>3. CASE g.op \in {"renew", "accept"}
      <4>1. g.invite \in Created(invite) /\ Contact(g.invite)' = Contact(g.invite)
        BY <3>1, <3>3, <1>3 DEF InviteKnows
      <4>2. g.invite # i => invite'[g.invite] = invite[g.invite]
        BY <4>1 DEF InvitePlaced, Created, AccountsTypeOK
      <4>3. g.invite = i => Contact(g.invite) \in raced  BY <2>2, <3>1, <3>3 DEF InviteKnows
      <4> QED  BY <3>1, <3>3, <4>1, <4>2, <4>3, <1>1, <1>3 DEF InviteKnows
    <3>4. CASE g.op \notin {"stage", "renew", "accept"}  BY <3>4 DEF InviteKnows
    <3> QED  BY <3>2, <3>3, <3>4
  <2> QED  BY <2>1, <2>3, <1>2 DEF RequestKnows
<1>5. AccountRequests'  BY <1>4, OthersKnow
<1> QED  BY <1>2, <1>5

\* The other invitations keep their promises.
LEMMA InviteChangeKept ==
  ASSUME AccountsInv, NEW i, InvitePlaced(i), UsersStay, raced' = raced, InviteWell(i)',
         invite' \in [Invites -> InviteRow \cup {NoRow}]
  PROVE  InvitesInv'
<1> USE DEF AccountsInv
<1>1. /\ Created(invite)' = Created(invite)
      /\ \A j \in Created(invite) : invite'[j].contact = invite[j].contact
      /\ \A j \in Created(invite) : Contact(j)' = Contact(j)
  BY DEF InvitePlaced, Created, Contact, AccountsTypeOK
<1> SUFFICES ASSUME NEW j \in Invites
             PROVE  IF invite'[j] = NoRow THEN accepts'[j] = 0 ELSE InviteWell(j)'
  BY DEF InvitesInv
<1>2. CASE j = i  BY <1>2 DEF InvitePlaced, Created
<1>3. CASE j # i /\ invite[j] = NoRow  BY <1>3 DEF InvitePlaced, InvitesInv
<1>4. CASE j # i /\ invite[j] # NoRow
  <2>1. invite'[j] = invite[j] /\ accepts'[j] = accepts[j] /\ InviteWell(j)
        /\ j \in Created(invite)
    BY <1>4 DEF InvitePlaced, InvitesInv, Created, AccountsTypeOK
  <2>2. invite[j].user \in Created(user)'
        /\ (invite[j].accepted => user'[invite[j].user].password)
    BY <2>1 DEF InviteWell, UsersStay
  <2>3. InviteWell(j)'  BY <2>1, <2>2, <1>1 DEF InviteWell
  <2> QED  BY <2>1, <2>3, <1>4
<1> QED  BY <1>2, <1>3, <1>4

\* A new token goes to an invitation that waits, unless raced.
LEMMA RenewKeeps ==
  ASSUME AccountsInv, NEW c \in Callers, RenewInvite(c)
  PROVE  AccountsInv'
<1> USE DEF AccountsInv
<1>1. PICK i, r : i = request[c].invite /\ r = request[c]  OBVIOUS
<1>2. /\ r.op = "renew" /\ invite[i].token < MaxTokens /\ Ends(c) /\ raced' = raced
      /\ UNCHANGED <<user, accepts, sessions, links>>
      /\ invite' = [invite EXCEPT ![i].token = @ + 1,
                                  ![i].resends = IF r.resend = 0 THEN @ ELSE r.resend]
  BY <1>1 DEF RenewInvite, Ends
<1>3. /\ i \in Created(invite) /\ Contact(i) \in r.on
      /\ Contact(i) \in raced \/ ~invite[i].accepted
      /\ r.resend \in 0..MaxResends
  BY <1>1, <1>2 DEF AccountRequests, RequestKnows, InviteKnows
<1>4. i \in Invites /\ invite[i] \in InviteRow /\ invite[i] # NoRow
  BY <1>3 DEF Created, AccountsTypeOK
<1> DEFINE new == [[invite[i] EXCEPT !.token = @ + 1] EXCEPT
                       !.resends = IF r.resend = 0 THEN @ ELSE r.resend]
<1>5. invite' = [invite EXCEPT ![i] = new]  BY <1>2, <1>4 DEF AccountsTypeOK
<1>6. invite[i].token + 1 \in 0..MaxTokens
  BY <1>2, <1>4, AccountsAssumption DEF InviteRow
<1>7. new \in InviteRow /\ new.contact = invite[i].contact /\ new.user = invite[i].user
      /\ new.accepted = invite[i].accepted
  BY <1>3, <1>4, <1>6 DEF InviteRow
<1> HIDE DEF new
<1>8. /\ invite'[i] = new /\ new # NoRow /\ \A j \in Invites \ {i} : invite'[j] = invite[j]
      /\ invite' \in [Invites -> InviteRow \cup {NoRow}]
  BY <1>4, <1>5, <1>7, NoRowIsNone DEF AccountsTypeOK
<1>9. InvitePlaced(i)
  BY <1>2, <1>3, <1>4, <1>7, <1>8 DEF InvitePlaced, Created, AccountsTypeOK
<1>10. UsersStay  BY <1>2 DEF UsersStay, Created
<1>11. AccountRequests' /\ SessionsInv' /\ LinksInv'
  BY <1>1, <1>2, <1>3, <1>8, <1>9, <1>10, InviteChangeKnown
<1>12. InviteWell(i)'
  <2>1. InviteWell(i)  BY <1>4 DEF InvitesInv
  <2>2. Created(invite)' = Created(invite) /\ Contact(i)' = Contact(i)
        /\ \A j \in Created(invite) : invite'[j].contact = invite[j].contact
    BY <1>9, <1>8 DEF InvitePlaced, Created, Contact, AccountsTypeOK
  <2> QED  BY <2>1, <2>2, <1>2, <1>3, <1>7, <1>8 DEF InviteWell, Created
<1>13. InvitesInv'  BY <1>2, <1>8, <1>9, <1>10, <1>12, InviteChangeKept
<1>14. AccountsTypeOK'  BY <1>2, <1>8 DEF AccountsTypeOK, sessions, links
<1>15. MailsOnce'  BY <1>2 DEF MailsOnce, Created
<1> QED  BY <1>11, <1>13, <1>14, <1>15

\* An invitation is accepted with the token that was read, and its user has a password.
LEMMA AcceptKeeps ==
  ASSUME AccountsInv, NEW c \in Callers, AcceptInvite(c)
  PROVE  AccountsInv'
<1> USE DEF AccountsInv
<1>1. PICK i, r, u : i = request[c].invite /\ r = request[c] /\ u = invite[i].user  OBVIOUS
<1>2. /\ r.op = "accept" /\ Ends(c) /\ raced' = raced /\ UNCHANGED <<sessions, links>>
      /\ invite' = [invite EXCEPT ![i].accepted = TRUE, ![i].by = r.token]
      /\ user' = [user EXCEPT ![u].password = TRUE]
      /\ accepts' = [accepts EXCEPT ![i] = @ + 1]
  BY <1>1 DEF AcceptInvite, Ends
<1>3. /\ i \in Created(invite) /\ Contact(i) \in r.on /\ r.token \in 0..MaxTokens
      /\ Contact(i) \in raced \/ (~invite[i].accepted /\ r.token = invite[i].token)
  BY <1>1, <1>2 DEF AccountRequests, RequestKnows, InviteKnows
<1>4. /\ i \in Invites /\ invite[i] \in InviteRow /\ invite[i] # NoRow /\ InviteWell(i)
  BY <1>3 DEF Created, AccountsTypeOK, InvitesInv
<1>5. u \in Created(user) /\ u \in Users /\ user[u] \in UserRow /\ user[u] # NoRow
  BY <1>1, <1>4 DEF InviteWell, Created, AccountsTypeOK
<1> DEFINE new == [[invite[i] EXCEPT !.accepted = TRUE] EXCEPT !.by = r.token]
           newUser == [user[u] EXCEPT !.password = TRUE]
<1>6. invite' = [invite EXCEPT ![i] = new]  BY <1>2, <1>4 DEF AccountsTypeOK
<1>7. new \in InviteRow /\ new.contact = invite[i].contact /\ new.user = u
      /\ new.accepted = TRUE /\ new.by = r.token /\ new.token = invite[i].token
  BY <1>1, <1>3, <1>4 DEF InviteRow
<1>8. user' = [user EXCEPT ![u] = newUser] /\ newUser \in UserRow
      /\ newUser.password = TRUE /\ newUser.mail = user[u].mail
  BY <1>2, <1>5 DEF UserRow, AccountsTypeOK
<1> HIDE DEF new, newUser
<1>9. /\ invite'[i] = new /\ new # NoRow /\ \A j \in Invites \ {i} : invite'[j] = invite[j]
      /\ invite' \in [Invites -> InviteRow \cup {NoRow}]
  BY <1>4, <1>6, <1>7, NoRowIsNone DEF AccountsTypeOK
<1>10. /\ user'[u] = newUser /\ newUser # NoRow /\ \A v \in Users \ {u} : user'[v] = user[v]
       /\ user' \in [Users -> UserRow \cup {NoRow}]
  BY <1>5, <1>8, NoRowIsNone DEF AccountsTypeOK
<1>11. /\ accepts' \in [Invites -> Nat] /\ accepts'[i] = accepts[i] + 1
       /\ \A j \in Invites \ {i} : accepts'[j] = accepts[j]
  BY <1>2, <1>4 DEF AccountsTypeOK
<1>12. InvitePlaced(i)
  BY <1>1, <1>3, <1>4, <1>7, <1>9, <1>11 DEF InvitePlaced, Created, AccountsTypeOK
<1>13. UsersStay  BY <1>5, <1>8, <1>10 DEF UsersStay, Created, AccountsTypeOK
<1>14. AccountRequests' /\ SessionsInv' /\ LinksInv'
  BY <1>1, <1>2, <1>3, <1>9, <1>12, <1>13, InviteChangeKnown
<1>15. InviteWell(i)'
  <2>1. Created(invite)' = Created(invite) /\ Contact(i)' = Contact(i)
        /\ \A j \in Created(invite) : invite'[j].contact = invite[j].contact
    BY <1>12, <1>9 DEF InvitePlaced, Created, Contact, AccountsTypeOK
  <2>2. u \in Created(user)'  BY <1>5, <1>10 DEF Created, AccountsTypeOK
  <2>3. /\ invite'[i].user \in Created(user)'
        /\ user'[invite'[i].user].password
    BY <2>2, <1>7, <1>8, <1>9, <1>10
  <2>4. Contact(i) \in raced \/
            /\ \A j \in Created(invite) : invite[j].contact = invite[i].contact => j = i
            /\ accepts[i] = 0 /\ r.token = invite[i].token
    BY <1>3, <1>4 DEF InviteWell
  <2>5. Contact(i) \notin raced =>
            /\ \A j \in Created(invite)' : invite'[j].contact = invite'[i].contact => j = i
            /\ accepts'[i] = 1 /\ invite'[i].by = invite'[i].token
    BY <2>1, <2>4, <1>7, <1>9, <1>11
  <2> QED  BY <2>1, <2>3, <2>5, <1>2, <1>7, <1>9 DEF InviteWell
<1>16. InvitesInv'  BY <1>2, <1>9, <1>12, <1>13, <1>15, InviteChangeKept
<1>17. AccountsTypeOK'  BY <1>2, <1>9, <1>10, <1>11 DEF AccountsTypeOK, sessions, links
<1>18. MailsOnce'
  <2>1. Created(user)' = Created(user) /\ \A v \in Created(user) : user'[v].mail = user[v].mail
    BY <1>5, <1>8, <1>10 DEF Created, AccountsTypeOK
  <2> QED  BY <2>1 DEF MailsOnce
<1> QED  BY <1>14, <1>16, <1>17, <1>18

\* What changes sessions leaves what invitations and links are about.
LEMMA SessionsChange ==
  ASSUME AccountsInv, UsersStay, UNCHANGED <<invitations, links>>, raced' = raced
  PROVE  /\ \A g : InviteKnows(g) => InviteKnows(g)'
         /\ \A g : LinkKnows(g) => LinkKnows(g)'
         /\ InvitesInv' /\ LinksInv'
<1> USE DEF AccountsInv
<1>1. UNCHANGED <<invite, accepts, link, redeemed>> /\ raced' = raced
  BY DEF invitations, links
<1>2. \A u \in Created(user) : u \in Created(user)' /\ (user[u].password => user'[u].password)
  BY DEF UsersStay
<1>3. /\ Created(invite)' = Created(invite) /\ Created(link)' = Created(link)
      /\ \A i : Contact(i)' = Contact(i)
  BY <1>1 DEF Created, Contact
<1>4. \A g : InviteKnows(g) => InviteKnows(g)'  BY <1>1, <1>3 DEF InviteKnows
<1>5. \A g : LinkKnows(g) => LinkKnows(g)'  BY <1>1, <1>2, <1>3 DEF LinkKnows
<1>6. InvitesInv'  BY <1>1, <1>2, <1>3 DEF InvitesInv, InviteWell
<1>7. LinksInv'  BY <1>1, <1>2, <1>3 DEF LinksInv, LinkWell
<1> QED  BY <1>4, <1>5, <1>6, <1>7

\* A session is opened for a caller, and the token it was exchanged for no longer lives.
LEMMA OpenKeeps ==
  ASSUME AccountsInv, NEW c \in Callers, NEW t \in Sessions, OpenSession(c, t)
  PROVE  AccountsInv'
<1> USE DEF AccountsInv
<1>1. PICK r : r = request[c]  OBVIOUS
<1> DEFINE new == [user |-> r.user, live |-> TRUE, from |-> r.from, ended |-> FALSE]
           old == [session[r.from] EXCEPT !.live = FALSE]
<1>2. /\ r.op = "open" /\ session[t] = NoRow /\ Ends(c) /\ raced' = raced
      /\ UNCHANGED <<user, invitations, blacklist, links>>
  BY <1>1 DEF OpenSession, Ends
<1>3. /\ r.user \in Created(user) /\ <<"opens", r.user, c>> \in r.on
      /\ r.from # NoRow =>
            /\ r.from \in Created(session) /\ <<"token", r.from>> \in r.on
            /\ \/ <<"token", r.from>> \in raced
               \/ \A n \in Created(session) : session[n].from # r.from
  BY <1>1, <1>2 DEF AccountRequests, RequestKnows, SessionKnows
<1>4. \A s \in Created(session) : s \in Sessions /\ session[s] \in SessionRow /\ session[s] # NoRow
                                      /\ s # t
  BY <1>2 DEF Created, AccountsTypeOK
<1>5. r.from \in Sessions \cup {NoRow} /\ r.from # t
  BY <1>3, <1>4, NoRowIsNone
<1>6. r.user \in Users  BY <1>3 DEF Created, AccountsTypeOK
<1>7. new \in SessionRow /\ new # NoRow
  <2>1. new \in SessionRow  BY <1>5, <1>6 DEF SessionRow
  <2> QED  BY <2>1, NoRowIsNone
<1>8. r.from # NoRow => /\ old \in SessionRow /\ old # NoRow /\ old.user = session[r.from].user
                        /\ old.from = session[r.from].from /\ old.ended = session[r.from].ended
                        /\ old.live = FALSE
  <2> SUFFICES ASSUME r.from # NoRow
               PROVE  /\ old \in SessionRow /\ old.user = session[r.from].user
                      /\ old.from = session[r.from].from /\ old.ended = session[r.from].ended
                      /\ old.live = FALSE
    BY NoRowIsNone
  <2>1. session[r.from] \in SessionRow  BY <1>3, <1>4
  <2> QED  BY <2>1 DEF SessionRow
<1>9. session' = [s \in Sessions |-> IF s = t THEN new ELSE IF s = r.from THEN old ELSE session[s]]
  <2>1. session' = [s \in Sessions |->
            CASE s = t -> new [] s = r.from -> [session[s] EXCEPT !.live = FALSE]
              [] OTHER -> session[s]]
    BY <1>1 DEF OpenSession
  <2>2. \A s \in Sessions :
            (CASE s = t -> new [] s = r.from -> [session[s] EXCEPT !.live = FALSE]
              [] OTHER -> session[s])
            = IF s = t THEN new ELSE IF s = r.from THEN old ELSE session[s]
    BY <1>5
  <2> QED  BY <2>1, <2>2
<1> HIDE DEF new, old
<1>10. /\ session'[t] = new
       /\ r.from # NoRow => session'[r.from] = old
       /\ \A s \in Sessions : s # t /\ s # r.from => session'[s] = session[s]
  BY <1>5, <1>9
<1>11. session' \in [Sessions -> SessionRow \cup {NoRow}]
  <2> SUFFICES ASSUME NEW s \in Sessions PROVE session'[s] \in SessionRow \cup {NoRow}
    BY <1>9
  <2>1. s = r.from => r.from # NoRow  BY NoRowIsNone
  <2> QED  BY <2>1, <1>7, <1>8, <1>10 DEF AccountsTypeOK
<1>12. \A s \in Created(session) :
           /\ s \in Created(session)' /\ session'[s].user = session[s].user
           /\ session'[s].from = session[s].from /\ session'[s].ended = session[s].ended
           /\ session'[s].live => session[s].live
  <2> SUFFICES ASSUME NEW s \in Created(session)
      PROVE  /\ s \in Created(session)' /\ session'[s].user = session[s].user
             /\ session'[s].from = session[s].from /\ session'[s].ended = session[s].ended
             /\ session'[s].live => session[s].live
    OBVIOUS
  <2>1. CASE s = r.from
    <3>1. session'[s] = old /\ r.from # NoRow  BY <2>1, <1>4, <1>10, NoRowIsNone
    <3> QED  BY <2>1, <3>1, <1>4, <1>8, <1>11 DEF Created
  <2>2. CASE s # r.from
    <3>1. session'[s] = session[s]  BY <2>2, <1>4, <1>10
    <3> QED  BY <3>1, <1>4, <1>11 DEF Created
  <2> QED  BY <2>1, <2>2
<1>13. Created(session)' = Created(session) \cup {t}
  <2>1. t \in Created(session)'  BY <1>7, <1>10, <1>11 DEF Created
  <2>2. ASSUME NEW s \in Created(session)', s # t PROVE s \in Created(session)
    <3>1. s \in Sessions /\ session'[s] # NoRow  BY <2>2, <1>11 DEF Created
    <3>2. CASE s = r.from  BY <3>2, <3>1, <1>3, NoRowIsNone
    <3>3. CASE s # r.from  BY <3>1, <3>3, <2>2, <1>10 DEF Created, AccountsTypeOK
    <3> QED  BY <3>2, <3>3
  <2> QED  BY <2>1, <2>2, <1>12
<1>14. /\ session'[t].user = r.user /\ session'[t].from = r.from /\ session'[t].live
       /\ session'[t].ended = FALSE
  BY <1>10 DEF new
<1>15. r.from # NoRow => ~session'[r.from].live  BY <1>8, <1>10
<1>16. UsersStay /\ Created(user)' = Created(user)  BY <1>2 DEF UsersStay, Created
<1>17. /\ \A g : InviteKnows(g) => InviteKnows(g)'
       /\ \A g : LinkKnows(g) => LinkKnows(g)'
       /\ InvitesInv' /\ LinksInv'
  BY <1>2, <1>16, SessionsChange
<1>18. AccountsTypeOK'  BY <1>2, <1>11 DEF AccountsTypeOK, invitations, links
<1>19. MailsOnce'  BY <1>2 DEF MailsOnce, Created
<1>20. \A u : Closes(u)' = Closes(u)  BY DEF Closes
<1>21. SessionsInv'
  <2> SUFFICES ASSUME NEW s \in Created(session)' PROVE SessionWell(s)'  BY DEF SessionsInv
  <2>1. CASE s = t
    <3>1. r.from # NoRow =>
              /\ r.from \in Created(session)'
              /\ <<"token", r.from>> \in raced
                 \/ \A n \in Created(session)' : session'[n].from = r.from => n = t
      BY <1>3, <1>12, <1>13
    <3> QED  BY <2>1, <3>1, <1>2, <1>3, <1>14, <1>15, <1>16 DEF SessionWell
  <2>2. CASE s \in Created(session)
    <3>1. SessionWell(s)  BY <2>2 DEF SessionsInv
    <3>2. PICK from : from = session[s].from  OBVIOUS
    <3>3. session'[s].user \in Created(user)'  BY <3>1, <2>2, <1>12, <1>16 DEF SessionWell
    <3>4. from # NoRow => /\ from \in Created(session)' /\ ~session'[from].live
      BY <3>1, <3>2, <1>12 DEF SessionWell
    <3>5. from # NoRow =>
              <<"token", from>> \in raced
              \/ \A n \in Created(session)' : session'[n].from = from => n = s
      <4> SUFFICES ASSUME from # NoRow, <<"token", from>> \notin raced,
                          NEW n \in Created(session)', session'[n].from = from
                   PROVE  n = s
        OBVIOUS
      <4>1. CASE n = t  BY <4>1, <3>2, <2>2, <1>3, <1>14
      <4>2. CASE n \in Created(session)  BY <4>2, <3>1, <3>2, <1>12 DEF SessionWell
      <4> QED  BY <4>1, <4>2, <1>13
    <3>6. session'[s].live /\ session'[s].ended => Closes(session'[s].user) \cap raced # {}
      BY <3>1, <2>2, <1>12 DEF SessionWell
    <3>7. session'[s].from = from  BY <3>2, <2>2, <1>12
    <3> QED  BY <3>3, <3>4, <3>5, <3>6, <3>7, <1>2, <1>20 DEF SessionWell
  <2> QED  BY <2>1, <2>2, <1>13
<1>22. ASSUME NEW d \in Callers, NEW g, d # c, g = request[d] PROVE RequestKnows(g, d)'
  <2>1. RequestKnows(g, d) /\ SessionKnows(g, d)  BY <1>22 DEF AccountRequests, RequestKnows
  <2>2. \A x : x \in r.on /\ x \in g.on => x \in raced  BY <1>1, <1>22, Together
  <2>3. SessionKnows(g, d)'
    <3>1. CASE g.op = "open"
      <4>1. g.from # NoRow =>
                \/ <<"token", g.from>> \in raced
                \/ \A n \in Created(session)' : session'[n].from # g.from
        <5> SUFFICES ASSUME g.from # NoRow, <<"token", g.from>> \notin raced,
                            NEW n \in Created(session)'
                     PROVE  session'[n].from # g.from
          OBVIOUS
        <5>1. CASE n = t  BY <5>1, <3>1, <2>1, <2>2, <1>3, <1>14 DEF SessionKnows
        <5>2. CASE n \in Created(session)  BY <5>2, <3>1, <2>1, <1>12 DEF SessionKnows
        <5> QED  BY <5>1, <5>2, <1>13
      <4>2. g.from # NoRow => g.from \in Created(session)'
        BY <3>1, <2>1, <1>13 DEF SessionKnows
      <4> QED  BY <3>1, <2>1, <4>1, <4>2, <1>2, <1>16 DEF SessionKnows
    <3>2. CASE g.op = "revoke"
      <4>1. \/ Closes(g.user) \cap raced # {}
            \/ \A n \in Created(session)' :
                   session'[n].user = g.user /\ session'[n].live => n \in g.found
        <5> SUFFICES ASSUME Closes(g.user) \cap raced = {}, NEW n \in Created(session)',
                            session'[n].user = g.user, session'[n].live
                     PROVE  n \in g.found
          OBVIOUS
        <5>1. CASE n = t
          <6>1. <<"opens", g.user, c>> \in Closes(g.user)  BY DEF Closes
          <6>2. <<"opens", g.user, c>> \in g.on  BY <6>1, <3>2, <2>1 DEF SessionKnows
          <6> QED  BY <6>1, <6>2, <5>1, <2>2, <1>3, <1>14
        <5>2. CASE n \in Created(session)  BY <5>2, <3>2, <2>1, <1>12 DEF SessionKnows
        <5> QED  BY <5>1, <5>2, <1>13
      <4> QED  BY <3>2, <2>1, <4>1, <1>2, <1>16, <1>20 DEF SessionKnows
    <3>3. CASE g.op = "end"  BY <3>3, <2>1, <1>16, <1>20 DEF SessionKnows
    <3>4. CASE g.op \notin {"open", "end", "revoke"}  BY <3>4 DEF SessionKnows
    <3> QED  BY <3>1, <3>2, <3>3, <3>4
  <2> QED  BY <2>1, <2>3, <1>17 DEF RequestKnows
<1>23. AccountRequests'  BY <1>2, <1>22, OthersKnow
<1> QED  BY <1>17, <1>18, <1>19, <1>21, <1>23

\* A request that goes on has to know what it found.
LEMMA FindingKeeps ==
  ASSUME AccountsInv, NEW c \in Callers, NEW req, UNCHANGED accounts, raced' = raced,
         request' = [request EXCEPT ![c] = req], req.on = request[c].on, RequestKnows(req, c)'
  PROVE  AccountsInv'
<1> USE DEF AccountsInv, AccountRequests
<1>1. /\ request' = [d \in Callers |-> request'[d]] /\ OneAtATime'
      /\ request'[c] = req /\ \A d \in Callers : d # c => request'[d] = request[d]
  BY GoesOnOnce
<1>2. ASSUME NEW d \in Callers PROVE RequestKnows(request[d], d)'
  <2>1. PICK g : g = request'[d]  OBVIOUS
  <2>2. RequestKnows(g, d)'
    <3>1. CASE d = c  BY <3>1, <2>1, <1>1
    <3>2. CASE d # c
      <4>1. RequestKnows(g, d)  BY <3>2, <2>1, <1>1
      <4> QED  BY <4>1, OutlivesRaces
    <3> QED  BY <3>1, <3>2
  <2> QED  BY <2>1, <2>2
<1>3. AccountRequests'  BY <1>1, <1>2
<1>4. AccountsTypeOK' /\ MailsOnce' /\ InvitesInv' /\ SessionsInv' /\ LinksInv'
  BY OutlivesRaces
<1> QED  BY <1>3, <1>4

LEMMA FindLiveKeeps ==
  ASSUME AccountsInv, NEW c \in Callers, FindLive(c)
  PROVE  AccountsInv'
<1>1. PICK r, req : r = request[c] /\ req = [op |-> "revoke", on |-> r.on, user |-> r.user,
                                            by |-> r.by, found |-> LiveOf(r.user)]
  OBVIOUS
<1>2. /\ UNCHANGED accounts /\ UNCHANGED <<user, session>> /\ raced' = raced /\ r.op = "end"
      /\ request' = [request EXCEPT ![c] = req]
  BY <1>1 DEF FindLive, accounts, sessions, AccountsInv, AccountRequests
<1>3. SessionKnows(r, c)  BY <1>1 DEF AccountsInv, AccountRequests, RequestKnows
<1>4. \A t \in Created(session) : session[t].user = r.user /\ session[t].live => t \in req.found
  BY <1>1 DEF LiveOf
<1>5. RequestKnows(req, c)'
  <2>1. SessionKnows(req, c)'
    <3>1. /\ req.op = "revoke" /\ req.user = r.user /\ req.by = r.by /\ req.on = r.on  BY <1>1
    <3> QED  BY <3>1, <1>2, <1>3, <1>4 DEF SessionKnows, Created, Closes
  <2> QED  BY <2>1, <1>1 DEF RequestKnows, InviteKnows, LinkKnows
<1> QED  BY <1>1, <1>2, <1>5, FindingKeeps

\* All sessions found are ended; one that was opened meanwhile has the user in raced.
LEMMA EndSessionsKeep ==
  ASSUME AccountsInv, NEW c \in Callers, EndSessions(c)
  PROVE  AccountsInv'
<1> USE DEF AccountsInv
<1>1. PICK r : r = request[c]  OBVIOUS
<1> DEFINE ofUser(s) == s \in Created(session) /\ session[s].user = r.user
           end(s) == [[session[s] EXCEPT !.live = @ /\ s \notin r.found] EXCEPT !.ended = TRUE]
<1>2. /\ r.op = "revoke" /\ Ends(c) /\ raced' = raced /\ UNCHANGED <<invitations, links>>
      /\ session' = [s \in Sessions |-> IF ofUser(s) THEN end(s) ELSE session[s]]
      /\ \/ r.by = NoRow /\ user' = [user EXCEPT ![r.user].password = TRUE] /\ UNCHANGED blacklist
         \/ r.by # NoRow /\ blacklist' = blacklist \cup {r.by} /\ UNCHANGED user
  BY <1>1 DEF EndSessions, Ends, Revoked
<1>3. /\ r.user \in Created(user) /\ r.by \in Sessions \cup {NoRow} /\ Closes(r.user) \subseteq r.on
      /\ \/ Closes(r.user) \cap raced # {}
         \/ \A t \in Created(session) : session[t].user = r.user /\ session[t].live => t \in r.found
  BY <1>1, <1>2 DEF AccountRequests, RequestKnows, SessionKnows
<1>4. \A s \in Created(session) : s \in Sessions /\ session[s] \in SessionRow
  BY DEF Created, AccountsTypeOK
<1>5. ASSUME NEW s \in Created(session)
      PROVE  /\ end(s) \in SessionRow /\ end(s).user = session[s].user
             /\ end(s).from = session[s].from /\ end(s).ended = TRUE
             /\ end(s).live => session[s].live /\ s \notin r.found
  <2>1. session[s] \in SessionRow  BY <1>4
  <2> QED  BY <2>1 DEF SessionRow
<1> HIDE DEF end
<1>6. session' \in [Sessions -> SessionRow \cup {NoRow}]
  BY <1>2, <1>5 DEF AccountsTypeOK
<1>7. ASSUME NEW s \in Created(session)
      PROVE  /\ s \in Created(session)' /\ session'[s].user = session[s].user
             /\ session'[s].from = session[s].from
             /\ session'[s].live => session[s].live
             /\ session'[s].live /\ session'[s].ended =>
                    \/ session[s].live /\ session[s].ended
                    \/ session[s].user = r.user /\ session[s].live /\ s \notin r.found
  <2>1. CASE session[s].user = r.user
    <3>1. session'[s] = end(s) /\ end(s) # NoRow  BY <2>1, <1>2, <1>4, <1>5, NoRowIsNone
    <3> QED  BY <3>1, <2>1, <1>4, <1>5, <1>6 DEF Created
  <2>2. CASE session[s].user # r.user
    <3>1. session'[s] = session[s]  BY <2>2, <1>2, <1>4
    <3> QED  BY <3>1, <1>4, <1>6 DEF Created
  <2> QED  BY <2>1, <2>2
<1>8. Created(session)' = Created(session)
  <2>1. ASSUME NEW s \in Created(session)' PROVE s \in Created(session)
    BY <2>1, <1>2, <1>6 DEF Created, AccountsTypeOK
  <2> QED  BY <2>1, <1>7
<1>9. user' \in [Users -> UserRow \cup {NoRow}] /\ UsersStay /\ MailsOnce'
  <2>1. CASE UNCHANGED user  BY <2>1 DEF UsersStay, Created, MailsOnce, AccountsTypeOK
  <2>2. CASE user' = [user EXCEPT ![r.user].password = TRUE]
    <3>1. r.user \in Users /\ user[r.user] \in UserRow  BY <1>3 DEF Created, AccountsTypeOK
    <3> DEFINE new == [user[r.user] EXCEPT !.password = TRUE]
    <3>2. new \in UserRow /\ new.password = TRUE /\ new.mail = user[r.user].mail
      BY <3>1 DEF UserRow
    <3>3. user' = [user EXCEPT ![r.user] = new]  BY <2>2
    <3> HIDE DEF new
    <3>4. /\ user'[r.user] = new /\ new # NoRow
          /\ \A v \in Users \ {r.user} : user'[v] = user[v]
          /\ user' \in [Users -> UserRow \cup {NoRow}]
      BY <3>1, <3>2, <3>3, NoRowIsNone DEF AccountsTypeOK
    <3>5. Created(user)' = Created(user)
          /\ \A v \in Created(user) : user'[v].mail = user[v].mail
      BY <3>1, <3>2, <3>4, <1>3 DEF Created, AccountsTypeOK
    <3>6. UsersStay  BY <3>1, <3>2, <3>4, <3>5 DEF UsersStay, Created, AccountsTypeOK
    <3>7. MailsOnce'  BY <3>5 DEF MailsOnce
    <3> QED  BY <3>4, <3>6, <3>7
  <2> QED  BY <1>2, <2>1, <2>2
<1>10. /\ \A g : InviteKnows(g) => InviteKnows(g)'
       /\ \A g : LinkKnows(g) => LinkKnows(g)'
       /\ InvitesInv' /\ LinksInv'
  BY <1>2, <1>9, SessionsChange
<1>11. blacklist' \subseteq Sessions  BY <1>2, <1>3 DEF AccountsTypeOK
<1>12. AccountsTypeOK'
  BY <1>2, <1>6, <1>9, <1>11 DEF AccountsTypeOK, invitations, links
<1>13. \A u \in Created(user) : u \in Created(user)'  BY <1>9 DEF UsersStay
<1>14. \A u : Closes(u)' = Closes(u)  BY DEF Closes
<1>15. SessionsInv'
  <2> SUFFICES ASSUME NEW s \in Created(session) PROVE SessionWell(s)'
    BY <1>8 DEF SessionsInv
  <2>1. SessionWell(s)  BY DEF SessionsInv
  <2>2. session'[s].user \in Created(user)'  BY <2>1, <1>7, <1>13 DEF SessionWell
  <2>3. session'[s].from # NoRow =>
          /\ session'[s].from \in Created(session)' /\ ~session'[session'[s].from].live
          /\ \/ <<"token", session'[s].from>> \in raced
             \/ \A n \in Created(session)' : session'[n].from = session'[s].from => n = s
    BY <2>1, <1>7, <1>8 DEF SessionWell
  <2>4. session'[s].live /\ session'[s].ended => Closes(session'[s].user) \cap raced # {}
    BY <2>1, <1>3, <1>7 DEF SessionWell
  <2> QED  BY <2>2, <2>3, <2>4, <1>2, <1>14 DEF SessionWell
<1>16. ASSUME NEW d \in Callers, NEW g, d # c, g = request[d] PROVE RequestKnows(g, d)'
  <2>1. RequestKnows(g, d) /\ SessionKnows(g, d)  BY <1>16 DEF AccountRequests, RequestKnows
  <2>2. SessionKnows(g, d)'
    <3>1. CASE g.op = "open"  BY <3>1, <2>1, <1>2, <1>7, <1>8, <1>13 DEF SessionKnows
    <3>2. CASE g.op \in {"end", "revoke"}
      BY <3>2, <2>1, <1>2, <1>7, <1>8, <1>13, <1>14 DEF SessionKnows
    <3>3. CASE g.op \notin {"open", "end", "revoke"}  BY <3>3 DEF SessionKnows
    <3> QED  BY <3>1, <3>2, <3>3
  <2> QED  BY <2>1, <2>2, <1>10 DEF RequestKnows
<1>17. AccountRequests'  BY <1>2, <1>16, OthersKnow
<1> QED  BY <1>9, <1>10, <1>12, <1>15, <1>17

\* A row that is written stands where it was written, and the others stay.
LEMMA RowWritten ==
  ASSUME NEW Keys, NEW Targets, NEW f \in [Keys -> Targets], NEW k \in Keys, NEW row \in Targets,
         NEW g, g = [f EXCEPT ![k] = row]
  PROVE  g \in [Keys -> Targets] /\ g[k] = row /\ \A x \in Keys \ {k} : g[x] = f[x]
OBVIOUS

\* A password is set, and nothing else of a user changes.
LEMMA PasswordSet ==
  ASSUME AccountsTypeOK, MailsOnce, NEW u \in Created(user),
         user' = [user EXCEPT ![u].password = TRUE]
  PROVE  user' \in [Users -> UserRow \cup {NoRow}] /\ UsersStay /\ MailsOnce'
<1>1. u \in Users /\ user[u] \in UserRow  BY DEF Created, AccountsTypeOK
<1> DEFINE new == [user[u] EXCEPT !.password = TRUE]
<1>2. new \in UserRow /\ new.password = TRUE /\ new.mail = user[u].mail  BY <1>1 DEF UserRow
<1>3. user' = [user EXCEPT ![u] = new]  OBVIOUS
<1> HIDE DEF new
<1>4. new # NoRow  BY <1>2, NoRowIsNone
<1>8. /\ user'[u] = new /\ \A v \in Users \ {u} : user'[v] = user[v]
      /\ user' \in [Users -> UserRow \cup {NoRow}]
  <2>1. user \in [Users -> UserRow \cup {NoRow}]  BY DEF AccountsTypeOK
  <2>2. PICK g, Targets : g = user' /\ Targets = UserRow \cup {NoRow}  OBVIOUS
  <2>3. user \in [Users -> Targets] /\ new \in Targets /\ g = [user EXCEPT ![u] = new]
    BY <2>1, <2>2, <1>2, <1>3
  <2>4. g \in [Users -> Targets] /\ g[u] = new /\ \A v \in Users \ {u} : g[v] = user[v]
    BY <2>3, <1>1, RowWritten
  <2> QED  BY <2>2, <2>4
<1>5. Created(user)' = Created(user) /\ \A v \in Created(user) : user'[v].mail = user[v].mail
  BY <1>1, <1>2, <1>4, <1>8 DEF Created, AccountsTypeOK
<1>6. UsersStay  BY <1>1, <1>2, <1>4, <1>5, <1>8 DEF UsersStay, Created, AccountsTypeOK
<1>7. MailsOnce'  BY <1>5 DEF MailsOnce
<1> QED  BY <1>6, <1>7, <1>8

\* What changes links leaves what invitations and sessions are about.
LEMMA LinksChange ==
  ASSUME AccountsInv, UsersStay, UNCHANGED <<invitations, sessions>>, raced' = raced
  PROVE  /\ \A g : InviteKnows(g) => InviteKnows(g)'
         /\ \A g, c : SessionKnows(g, c) => SessionKnows(g, c)'
         /\ InvitesInv' /\ SessionsInv'
<1> USE DEF AccountsInv
<1>1. UNCHANGED <<invite, accepts, session, blacklist>> /\ raced' = raced
  BY DEF invitations, sessions
<1>2. \A u \in Created(user) : u \in Created(user)' /\ (user[u].password => user'[u].password)
  BY DEF UsersStay
<1>3. /\ Created(invite)' = Created(invite) /\ Created(session)' = Created(session)
      /\ \A i : Contact(i)' = Contact(i) /\ \A u : Closes(u)' = Closes(u)
  BY <1>1 DEF Created, Contact, Closes
<1>4. \A g : InviteKnows(g) => InviteKnows(g)'  BY <1>1, <1>3 DEF InviteKnows
<1>5. \A g, c : SessionKnows(g, c) => SessionKnows(g, c)'
  BY <1>1, <1>2, <1>3 DEF SessionKnows
<1>6. InvitesInv'  BY <1>1, <1>2, <1>3 DEF InvitesInv, InviteWell
<1>7. SessionsInv'  BY <1>1, <1>2, <1>3 DEF SessionsInv, SessionWell
<1> QED  BY <1>4, <1>5, <1>6, <1>7

LEMMA FindLinksKeeps ==
  ASSUME AccountsInv, NEW c \in Callers, FindLinks(c)
  PROVE  AccountsInv'
<1>1. PICK r, req : r = request[c] /\ req = [op |-> "mail", on |-> r.on, user |-> r.user,
                                            found |-> UnusedOf(r.user)]
  OBVIOUS
<1>2. /\ UNCHANGED accounts /\ UNCHANGED link /\ raced' = raced /\ r.op = "forgot"
      /\ request' = [request EXCEPT ![c] = req]
  BY <1>1 DEF FindLinks, accounts, links, AccountsInv, AccountRequests
<1>3. LinkKnows(r)  BY <1>1 DEF AccountsInv, AccountRequests, RequestKnows
<1>4. \A s : s \in req.found <=> s \in Created(link) /\ link[s].user = r.user /\ ~link[s].used
  BY <1>1 DEF UnusedOf
<1>5. RequestKnows(req, c)'
  <2>1. LinkKnows(req)'
    <3>1. req.op = "mail" /\ req.user = r.user /\ req.on = r.on  BY <1>1
    <3>2. Created(user)' = Created(user) /\ Created(link)' = Created(link)
      BY <1>2 DEF Created, accounts
    <3> QED  BY <3>1, <3>2, <1>2, <1>3, <1>4 DEF LinkKnows
  <2> QED  BY <2>1, <1>1 DEF RequestKnows, InviteKnows, SessionKnows
<1> QED  BY <1>1, <1>2, <1>5, FindingKeeps

\* A link is mailed, and the links found no longer work.
LEMMA MailKeeps ==
  ASSUME AccountsInv, NEW c \in Callers, NEW n \in Links, MailLink(c, n)
  PROVE  AccountsInv'
<1> USE DEF AccountsInv
<1>1. PICK r : r = request[c]  OBVIOUS
<1> DEFINE new == [user |-> r.user, used |-> FALSE]
           old(s) == [link[s] EXCEPT !.used = TRUE]
<1>2. /\ r.op = "mail" /\ link[n] = NoRow /\ Ends(c) /\ raced' = raced
      /\ UNCHANGED <<user, invitations, sessions, redeemed>>
      /\ link' = [s \in Links |-> CASE s = n -> new [] s \in r.found -> old(s) [] OTHER -> link[s]]
  BY <1>1 DEF MailLink, Ends
<1>3. /\ r.user \in Created(user) /\ <<"link", r.user>> \in r.on
      /\ \/ <<"link", r.user>> \in raced
         \/ \A s \in Created(link) : link[s].user = r.user /\ ~link[s].used => s \in r.found
      /\ \A s \in r.found : s \in Created(link) /\ link[s].user = r.user
  BY <1>1, <1>2 DEF AccountRequests, RequestKnows, LinkKnows
<1>4. \A s \in Created(link) : s \in Links /\ link[s] \in LinkRow /\ link[s] # NoRow /\ s # n
  BY <1>2 DEF Created, AccountsTypeOK
<1>5. new \in LinkRow /\ new # NoRow
  <2>1. new \in LinkRow  BY <1>3 DEF LinkRow, Created, AccountsTypeOK
  <2> QED  BY <2>1, NoRowIsNone
<1>6. ASSUME NEW s \in Created(link)
      PROVE  /\ old(s) \in LinkRow /\ old(s) # NoRow
             /\ old(s).user = link[s].user /\ old(s).used = TRUE
  <2>1. link[s] \in LinkRow  BY <1>4
  <2>2. old(s) \in LinkRow /\ old(s).user = link[s].user /\ old(s).used = TRUE
    BY <2>1 DEF LinkRow
  <2> QED  BY <2>2, NoRowIsNone
<1>7. /\ link'[n] = new /\ new.user = r.user /\ new.used = FALSE
      /\ \A s \in r.found : link'[s] = old(s)
      /\ \A s \in Links : s # n /\ s \notin r.found => link'[s] = link[s]
  <2>1. n \notin r.found  BY <1>3, <1>4
  <2>2. \A s \in Links : link'[s] = IF s = n THEN new ELSE IF s \in r.found THEN old(s) ELSE link[s]
    BY <1>2, <2>1
  <2> QED  BY <2>1, <2>2, <1>3, <1>4
<1>8. DOMAIN link' = Links  BY <1>2
<1> HIDE DEF new, old
<1>9. link' \in [Links -> LinkRow \cup {NoRow}]
  <2>1. ASSUME NEW s \in Links PROVE link'[s] \in LinkRow \cup {NoRow}
    <3>1. CASE s \in r.found  BY <3>1, <1>3, <1>6, <1>7
    <3>2. CASE s = n  BY <3>2, <1>5, <1>7
    <3>3. CASE s # n /\ s \notin r.found  BY <3>3, <1>7 DEF AccountsTypeOK
    <3> QED  BY <3>1, <3>2, <3>3
  <2>2. link' = [s \in Links |-> link'[s]]  BY <1>2
  <2> QED  BY <2>1, <2>2
<1>10. \A s \in Created(link) :
           /\ s \in Created(link)' /\ link'[s].user = link[s].user
           /\ ~link'[s].used => ~link[s].used /\ s \notin r.found
  <2> SUFFICES ASSUME NEW s \in Created(link)
               PROVE  /\ s \in Created(link)' /\ link'[s].user = link[s].user
                      /\ ~link'[s].used => ~link[s].used /\ s \notin r.found
    OBVIOUS
  <2>1. CASE s \in r.found  BY <2>1, <1>4, <1>6, <1>7, <1>8 DEF Created
  <2>2. CASE s \notin r.found  BY <2>2, <1>4, <1>7, <1>8 DEF Created
  <2> QED  BY <2>1, <2>2
<1>11. Created(link)' = Created(link) \cup {n}
  <2>1. n \in Created(link)'  BY <1>5, <1>7, <1>8 DEF Created
  <2>2. ASSUME NEW s \in Created(link)', s # n PROVE s \in Created(link)
    BY <2>2, <1>3, <1>7, <1>8 DEF Created, AccountsTypeOK
  <2> QED  BY <2>1, <2>2, <1>10
<1>12. UsersStay /\ Created(user)' = Created(user)  BY <1>2 DEF UsersStay, Created
<1>13. /\ \A g : InviteKnows(g) => InviteKnows(g)'
       /\ \A g, d : SessionKnows(g, d) => SessionKnows(g, d)'
       /\ InvitesInv' /\ SessionsInv'
  BY <1>2, <1>12, LinksChange
<1>14. AccountsTypeOK'  BY <1>2, <1>9 DEF AccountsTypeOK, invitations, sessions
<1>15. MailsOnce'  BY <1>2 DEF MailsOnce, Created
<1>16. \A s \in Created(link)' : <<"link", r.user>> \notin raced /\ link'[s].user = r.user
                                       /\ ~link'[s].used => s = n
  BY <1>3, <1>10, <1>11
<1>17. LinksInv'
  <2> SUFFICES ASSUME NEW s \in Links
               PROVE  IF link'[s] = NoRow THEN redeemed'[s] = 0 ELSE LinkWell(s)'
    BY DEF LinksInv
  <2>1. CASE s = n
    <3>1. redeemed'[n] = 0  BY <1>2 DEF LinksInv
    <3> QED  BY <2>1, <3>1, <1>2, <1>3, <1>7, <1>12, <1>16 DEF LinkWell
  <2>2. CASE s \in Created(link)
    <3>1. LinkWell(s) /\ redeemed'[s] = redeemed[s]  BY <2>2, <1>2 DEF LinksInv, Created
    <3>2. PICK u : u = link[s].user  OBVIOUS
    <3>3. u \in Created(user)' /\ link'[s].user = u
      BY <2>2, <3>1, <3>2, <1>10, <1>12 DEF LinkWell
    <3>4. \/ <<"link", u>> \in raced
          \/ /\ redeemed'[s] <= 1
             /\ ~link'[s].used => redeemed'[s] = 0
             /\ ~link'[s].used =>
                   \A x \in Created(link)' : link'[x].user = u /\ ~link'[x].used => x = s
      <4>1. \/ <<"link", u>> \in raced
            \/ /\ redeemed'[s] <= 1
               /\ ~link'[s].used => redeemed'[s] = 0
        BY <2>2, <3>1, <3>2, <1>10 DEF LinkWell
      <4>2. ASSUME <<"link", u>> \notin raced, ~link'[s].used, NEW x \in Created(link)',
                   link'[x].user = u, ~link'[x].used
            PROVE  x = s
        <5>1. CASE x = n
          <6>1. u = r.user  BY <4>2, <5>1, <1>7
          <6> QED  BY <6>1, <4>2, <2>2, <3>2, <1>3, <1>10
        <5>2. CASE x \in Created(link)
          BY <4>2, <5>2, <2>2, <3>1, <3>2, <1>10 DEF LinkWell
        <5> QED  BY <5>1, <5>2, <1>11
      <4> QED  BY <4>1, <4>2
    <3>5. LinkWell(s)'  BY <3>3, <3>4, <1>2 DEF LinkWell
    <3> QED  BY <2>2, <3>5, <1>10 DEF Created
  <2>3. CASE s # n /\ s \notin Created(link)
    <3>1. link'[s] = NoRow /\ link[s] = NoRow
      BY <2>3, <1>8, <1>11 DEF Created, AccountsTypeOK
    <3> QED  BY <3>1, <1>2 DEF LinksInv
  <2> QED  BY <2>1, <2>2, <2>3
<1>18. ASSUME NEW d \in Callers, NEW g, d # c, g = request[d] PROVE RequestKnows(g, d)'
  <2>1. RequestKnows(g, d) /\ LinkKnows(g)  BY <1>18 DEF AccountRequests, RequestKnows
  <2>2. \A x : x \in r.on /\ x \in g.on => x \in raced  BY <1>1, <1>18, Together
  <2>3. LinkKnows(g)'
    <3>1. CASE g.op = "forgot"  BY <3>1, <2>1, <1>12 DEF LinkKnows
    <3>2. CASE g.op = "mail"
      <4>1. /\ g.user \in Created(user)' /\ <<"link", g.user>> \in g.on
            /\ \A s \in g.found : s \in Created(link)' /\ link'[s].user = g.user
        BY <3>2, <2>1, <1>10, <1>12 DEF LinkKnows
      <4>2. \/ <<"link", g.user>> \in raced
            \/ \A s \in Created(link)' : link'[s].user = g.user /\ ~link'[s].used => s \in g.found
        <5> SUFFICES ASSUME <<"link", g.user>> \notin raced, NEW s \in Created(link)',
                            link'[s].user = g.user, ~link'[s].used
                     PROVE  s \in g.found
          OBVIOUS
        <5>1. CASE s = n  BY <5>1, <4>1, <2>2, <1>3, <1>7
        <5>2. CASE s \in Created(link)  BY <5>2, <3>2, <2>1, <1>10 DEF LinkKnows
        <5> QED  BY <5>1, <5>2, <1>11
      <4> QED  BY <3>2, <4>1, <4>2, <1>2 DEF LinkKnows
    <3>3. CASE g.op = "redeem"
      <4>1. PICK x, u : x = g.link /\ u = link[x].user  OBVIOUS
      <4>2. /\ x \in Created(link) /\ <<"link", u>> \in g.on
            /\ <<"link", u>> \in raced \/ ~link[x].used
        BY <3>3, <2>1, <4>1 DEF LinkKnows
      <4>3. x \in Created(link)' /\ link'[x].user = u  BY <4>1, <4>2, <1>10
      <4>4. <<"link", u>> \in raced \/ ~link'[x].used
        <5>1. CASE x \in r.found
          <6>1. u = r.user  BY <5>1, <4>1, <1>3
          <6> QED  BY <6>1, <4>2, <2>2, <1>3
        <5>2. CASE x \notin r.found  BY <5>2, <4>2, <1>4, <1>7
        <5> QED  BY <5>1, <5>2
      <4> QED  BY <3>3, <4>1, <4>2, <4>3, <4>4, <1>2 DEF LinkKnows
    <3>4. CASE g.op \notin {"forgot", "mail", "redeem"}  BY <3>4 DEF LinkKnows
    <3> QED  BY <3>1, <3>2, <3>3, <3>4
  <2> QED  BY <2>1, <2>3, <1>13 DEF RequestKnows
<1>19. AccountRequests'  BY <1>2, <1>18, OthersKnow
<1> QED  BY <1>13, <1>14, <1>15, <1>17, <1>19

\* A link is redeemed: it worked, unless raced, and works no more.
LEMMA RedeemKeeps ==
  ASSUME AccountsInv, NEW c \in Callers, RedeemLink(c)
  PROVE  AccountsInv'
<1> USE DEF AccountsInv
<1>1. PICK r, x, u : r = request[c] /\ x = r.link /\ u = link[x].user  OBVIOUS
<1>2. /\ r.op = "redeem" /\ Ends(c) /\ raced' = raced /\ UNCHANGED <<invitations, sessions>>
      /\ link' = [link EXCEPT ![x].used = TRUE] /\ user' = [user EXCEPT ![u].password = TRUE]
      /\ redeemed' = [redeemed EXCEPT ![x] = @ + 1]
  BY <1>1 DEF RedeemLink, Ends
<1>3. x \in Created(link) /\ <<"link", u>> \in r.on /\ (<<"link", u>> \in raced \/ ~link[x].used)
  BY <1>1, <1>2 DEF AccountRequests, RequestKnows, LinkKnows
<1>4. x \in Links /\ link[x] \in LinkRow /\ LinkWell(x) /\ u \in Created(user)
  BY <1>1, <1>3 DEF Created, AccountsTypeOK, LinksInv, LinkWell
<1> DEFINE new == [link[x] EXCEPT !.used = TRUE]
<1>5. new \in LinkRow /\ new # NoRow /\ new.user = u /\ new.used = TRUE
  <2>1. new \in LinkRow /\ new.user = u /\ new.used = TRUE  BY <1>1, <1>4 DEF LinkRow
  <2> QED  BY <2>1, NoRowIsNone
<1>6. link' = [link EXCEPT ![x] = new]  BY <1>2
<1> HIDE DEF new
<1>7. /\ link'[x] = new /\ \A s \in Links \ {x} : link'[s] = link[s]
      /\ link' \in [Links -> LinkRow \cup {NoRow}]
  BY <1>4, <1>5, <1>6 DEF AccountsTypeOK
<1>8. /\ redeemed' \in [Links -> Nat] /\ redeemed'[x] = redeemed[x] + 1
      /\ \A s \in Links \ {x} : redeemed'[s] = redeemed[s]
  BY <1>2, <1>4 DEF AccountsTypeOK
<1>9. Created(link)' = Created(link)  BY <1>3, <1>4, <1>5, <1>7 DEF Created, AccountsTypeOK
<1>10. \A s \in Created(link) :
           link'[s].user = link[s].user /\ (~link'[s].used => ~link[s].used)
  BY <1>1, <1>5, <1>7 DEF Created, AccountsTypeOK
<1>11. user' \in [Users -> UserRow \cup {NoRow}] /\ UsersStay /\ MailsOnce'
  BY <1>2, <1>4, PasswordSet
<1>12. /\ \A g : InviteKnows(g) => InviteKnows(g)'
       /\ \A g, d : SessionKnows(g, d) => SessionKnows(g, d)'
       /\ InvitesInv' /\ SessionsInv'
  BY <1>2, <1>11, LinksChange
<1>13. AccountsTypeOK'  BY <1>2, <1>7, <1>8, <1>11 DEF AccountsTypeOK, invitations, sessions
<1>14. \A v \in Created(user) : v \in Created(user)'  BY <1>11 DEF UsersStay
<1>15. LinksInv'
  <2> SUFFICES ASSUME NEW s \in Links
               PROVE  IF link'[s] = NoRow THEN redeemed'[s] = 0 ELSE LinkWell(s)'
    BY DEF LinksInv
  <2>1. CASE s = x
    <3>1. redeemed[x] \in Nat  BY <1>4 DEF AccountsTypeOK
    <3>2. <<"link", u>> \in raced \/ redeemed[x] = 0  BY <1>1, <1>3, <1>4 DEF LinkWell
    <3>3. <<"link", u>> \in raced \/ redeemed'[x] <= 1  BY <3>2, <1>8
    <3> QED  BY <2>1, <3>3, <1>2, <1>4, <1>5, <1>7, <1>14 DEF LinkWell
  <2>2. CASE s # x /\ s \in Created(link)
    <3>1. LinkWell(s) /\ redeemed'[s] = redeemed[s] /\ link'[s] = link[s]
      BY <2>2, <1>7, <1>8 DEF LinksInv, Created
    <3>2. PICK v : v = link[s].user  OBVIOUS
    <3>3. link'[s].user = v /\ v \in Created(user)'  BY <3>1, <3>2, <1>14 DEF LinkWell
    <3>4. \/ <<"link", v>> \in raced
          \/ /\ redeemed'[s] <= 1
             /\ ~link'[s].used => redeemed'[s] = 0
             /\ ~link'[s].used =>
                   \A y \in Created(link)' : link'[y].user = v /\ ~link'[y].used => y = s
      BY <3>1, <3>2, <1>9, <1>10 DEF LinkWell
    <3>5. LinkWell(s)'  BY <3>3, <3>4, <1>2 DEF LinkWell
    <3> QED  BY <2>2, <3>1, <3>5 DEF Created
  <2>3. CASE s # x /\ s \notin Created(link)
    <3>1. link'[s] = NoRow /\ link[s] = NoRow  BY <2>3, <1>7 DEF Created, AccountsTypeOK
    <3> QED  BY <2>3, <3>1, <1>8 DEF LinksInv
  <2> QED  BY <2>1, <2>2, <2>3
<1>16. ASSUME NEW d \in Callers, NEW g, d # c, g = request[d] PROVE RequestKnows(g, d)'
  <2>1. RequestKnows(g, d) /\ LinkKnows(g)  BY <1>16 DEF AccountRequests, RequestKnows
  <2>2. \A y : y \in r.on /\ y \in g.on => y \in raced  BY <1>1, <1>16, Together
  <2>3. LinkKnows(g)'
    <3>1. CASE g.op = "forgot"  BY <3>1, <2>1, <1>14 DEF LinkKnows
    <3>2. CASE g.op = "mail"  BY <3>2, <2>1, <1>2, <1>9, <1>10, <1>14 DEF LinkKnows
    <3>3. CASE g.op = "redeem"
      <4>1. PICK y, v : y = g.link /\ v = link[y].user  OBVIOUS
      <4>2. /\ y \in Created(link) /\ <<"link", v>> \in g.on
            /\ <<"link", v>> \in raced \/ ~link[y].used
        BY <3>3, <2>1, <4>1 DEF LinkKnows
      <4>3. link'[y].user = v  BY <4>1, <4>2, <1>10
      <4>4. <<"link", v>> \in raced \/ ~link'[y].used
        <5>1. CASE y = x  BY <5>1, <4>1, <4>2, <2>2, <1>1, <1>3
        <5>2. CASE y # x
          <6>1. y \in Links  BY <4>2 DEF Created, AccountsTypeOK
          <6> QED  BY <6>1, <5>2, <4>2, <1>7
        <5> QED  BY <5>1, <5>2
      <4> QED  BY <3>3, <4>1, <4>2, <4>3, <4>4, <1>2, <1>9 DEF LinkKnows
    <3>4. CASE g.op \notin {"forgot", "mail", "redeem"}  BY <3>4 DEF LinkKnows
    <3> QED  BY <3>1, <3>2, <3>3, <3>4
  <2> QED  BY <2>1, <2>3, <1>12 DEF RequestKnows
<1>17. AccountRequests'  BY <1>2, <1>16, OthersKnow
<1> QED  BY <1>11, <1>12, <1>13, <1>15, <1>17

\* One that gives up leaves every row.
LEMMA GivingUpKeeps ==
  ASSUME AccountsInv, NEW c \in Callers, GivesUp(c), UNCHANGED accounts
  PROVE  AccountsInv'
<1> USE DEF AccountsInv
<1>1. Ends(c) /\ raced' = raced  BY DEF GivesUp, Ends
<1>2. ASSUME NEW d \in Callers, NEW g, d # c, g = request[d] PROVE RequestKnows(g, d)'
  <2>1. RequestKnows(g, d)  BY <1>2 DEF AccountRequests
  <2> QED  BY <2>1, <1>1, OutlivesRaces
<1>3. AccountRequests'  BY <1>1, <1>2, OthersKnow
<1> QED  BY <1>1, <1>3, OutlivesRaces

LEMMA AccountsStart ==
  ASSUME AccountsInit, HandlersInit PROVE AccountsInv
<1> USE DEF AccountsInit, HandlersInit
<1>1. AccountsTypeOK  BY DEF AccountsTypeOK
<1>2. AccountRequests
  <2>1. \A c \in Callers : request[c] = Idle  OBVIOUS
  <2>2. request = [c \in Callers |-> request[c]]  OBVIOUS
  <2>3. OneAtATime  BY <2>1 DEF OneAtATime, Idle
  <2> QED  BY <2>1, <2>2, <2>3, IdleKnows DEF AccountRequests
<1>3. MailsOnce  BY DEF MailsOnce, Created
<1>4. InvitesInv  BY DEF InvitesInv
<1>5. SessionsInv  BY DEF SessionsInv, Created
<1>6. LinksInv  BY DEF LinksInv
<1> QED  BY <1>1, <1>2, <1>3, <1>4, <1>5, <1>6 DEF AccountsInv

LEMMA AccountsStep ==
  ASSUME AccountsInv, [AccountsNext]_<<accounts, callers>> PROVE AccountsInv'
<1>1. ASSUME UsersNext PROVE AccountsInv'  BY <1>1, UsersKeep
<1>2. ASSUME InvitationsNext PROVE AccountsInv'
  BY <1>2, InviteReadsKeep, StageKeeps, RenewKeeps, AcceptKeeps DEF InvitationsNext
<1>3. ASSUME SessionsNext PROVE AccountsInv'
  BY <1>3, SessionReadsKeep, OpenKeeps, FindLiveKeeps, EndSessionsKeep DEF SessionsNext
<1>4. ASSUME LinksNext PROVE AccountsInv'
  BY <1>4, LinkReadsKeep, FindLinksKeeps, MailKeeps, RedeemKeeps DEF LinksNext
<1>5. ASSUME NEW c \in Callers, GivesUp(c), UNCHANGED accounts PROVE AccountsInv'
  BY <1>5, GivingUpKeeps
<1>6. ASSUME UNCHANGED <<accounts, callers>> PROVE AccountsInv'
  <2>1. request' = request /\ raced' = raced /\ UNCHANGED accounts  BY <1>6 DEF callers
  <2>2. \A g, c : RequestKnows(g, c) => RequestKnows(g, c)'  BY <2>1, OutlivesRaces
  <2>3. ASSUME NEW c \in Callers PROVE RequestKnows(request[c], c)'
    <3>1. PICK g : g = request[c]  OBVIOUS
    <3>2. RequestKnows(g, c)'  BY <3>1, <2>2 DEF AccountsInv, AccountRequests
    <3> QED  BY <3>1, <3>2, <2>1
  <2>4. AccountRequests'
    BY <2>1, <2>3 DEF AccountsInv, AccountRequests, OneAtATime
  <2> QED  BY <2>1, <2>4, OutlivesRaces DEF AccountsInv
<1> QED  BY <1>1, <1>2, <1>3, <1>4, <1>5, <1>6 DEF AccountsNext

\* A set without two elements has one at most.
LEMMA AtMostOne ==
  ASSUME NEW S, \A x, y \in S : x = y
  PROVE  Cardinality(S) <= 1
<1>1. CASE S = {}  BY <1>1, FS_EmptySet
<1>2. ASSUME NEW x \in S PROVE Cardinality(S) <= 1
  <2>1. S = {x}  BY <1>2
  <2> QED  BY <2>1, FS_Singleton
<1> QED  BY <1>1, <1>2

LEMMA AccountsKept ==
  ASSUME AccountsInv PROVE AccountsAgree
<1> USE DEF AccountsInv
<1>1. InvitationsAgree
  <2>1. ASSUME NEW mail \in Mails
        PROVE  Cardinality({u \in Created(user) : user[u].mail = mail}) <= 1
    BY AtMostOne DEF MailsOnce
  <2>2. ASSUME NEW k \in Mails \cup Phones
        PROVE  <<"contact", k>> \in raced \/ Cardinality(InvitesTo(k)) <= 1
    <3> SUFFICES ASSUME <<"contact", k>> \notin raced PROVE Cardinality(InvitesTo(k)) <= 1
      OBVIOUS
    <3>1. ASSUME NEW i \in InvitesTo(k), NEW j \in InvitesTo(k) PROVE i = j
      <4>1. i \in Invites /\ invite[i] # NoRow /\ invite[i].contact = k /\ j \in Created(invite)
            /\ invite[j].contact = k
        BY DEF InvitesTo, Created, AccountsTypeOK
      <4>2. InviteWell(i)  BY <4>1 DEF InvitesInv
      <4> QED  BY <4>1, <4>2 DEF InviteWell, Contact
    <3> QED  BY <3>1, AtMostOne
  <2>3. ASSUME NEW i \in Created(invite)
        PROVE  /\ invite[i].accepted => user[invite[i].user].password
               /\ \/ <<"contact", invite[i].contact>> \in raced
                  \/ /\ accepts[i] = IF invite[i].accepted THEN 1 ELSE 0
                     /\ invite[i].accepted => invite[i].by = invite[i].token
    <3>1. InviteWell(i)  BY DEF InvitesInv, Created, AccountsTypeOK
    <3> QED  BY <3>1 DEF InviteWell, Contact
  <2> QED  BY <2>1, <2>2, <2>3 DEF InvitationsAgree
<1>2. SessionsAgree
  <2> SUFFICES ASSUME NEW t \in Created(session)
               PROVE  /\ session[t].from # NoRow => ~session[session[t].from].live
                      /\ \/ <<"token", t>> \in raced
                         \/ Cardinality({n \in Created(session) : session[n].from = t}) <= 1
                      /\ session[t].live /\ session[t].ended =>
                            Closes(session[t].user) \cap raced # {}
    BY DEF SessionsAgree
  <2>1. SessionWell(t)  BY DEF SessionsInv
  <2>2. ASSUME <<"token", t>> \notin raced
        PROVE  Cardinality({n \in Created(session) : session[n].from = t}) <= 1
    <3>1. t # NoRow  BY NoRowIsNone DEF Created, AccountsTypeOK
    <3>2. ASSUME NEW m \in Created(session), NEW n \in Created(session),
                 session[m].from = t, session[n].from = t
          PROVE  m = n
      BY <3>1, <3>2, <2>2 DEF SessionsInv, SessionWell
    <3> QED  BY <3>2, AtMostOne
  <2> QED  BY <2>1, <2>2 DEF SessionWell
<1>3. LinksAgree
  <2>1. ASSUME NEW u \in Users PROVE <<"link", u>> \in raced \/ Cardinality(UnusedOf(u)) <= 1
    <3> SUFFICES ASSUME <<"link", u>> \notin raced PROVE Cardinality(UnusedOf(u)) <= 1
      OBVIOUS
    <3>1. ASSUME NEW r \in UnusedOf(u), NEW s \in UnusedOf(u) PROVE r = s
      <4>1. LinkWell(r)  BY DEF UnusedOf, LinksInv, Created, AccountsTypeOK
      <4> QED  BY <4>1 DEF LinkWell, UnusedOf
    <3> QED  BY <3>1, AtMostOne
  <2>2. ASSUME NEW r \in Created(link) PROVE <<"link", link[r].user>> \in raced \/ redeemed[r] <= 1
    <3>1. LinkWell(r)  BY DEF LinksInv, Created, AccountsTypeOK
    <3> QED  BY <3>1 DEF LinkWell
  <2> QED  BY <2>1, <2>2 DEF LinksAgree
<1> QED  BY <1>1, <1>2, <1>3 DEF AccountsAgree

\* Whatever requests of the identity service overlap (auth, staff and invitation routes of
\* identity), an e-mail address is one user's; an invitation is accepted once and with its
\* last token, a refresh token is exchanged once, a reset link works once, and a logout leaves
\* no older session alive, unless two requests that worked on it at once raced.
THEOREM AccountsStayExact == AccountsSpec => []AccountsAgree
<1>1. AccountsSpec => []AccountsInv
  BY AccountsStart, AccountsStep, PTL DEF AccountsSpec
<1> QED  BY <1>1, AccountsKept, PTL


-----------------------------------------------------------------------------
\* Homework.

\* What a request knows: a copy is not adopted twice because rows say so; what is uploaded has
\* its bytes and no row yet, and what is deleted has a row.
AdoptKnows(g) == g.op = "adopt" => g.national \in Nationals
FileKnows(g) ==
    /\ g.op = "upload" => g.at \in Templates \X Files /\ attached[g.at] = "none" /\ g.at \in bytes
    /\ g.op \in {"unlink", "delete"} => g.at \in Owners \X Files /\ attached[g.at] # "none"
\* An instance that is being made is not there yet, and its clone is of its template.
CloneKnows(g) ==
    g.op = "clone" =>
        /\ g.template \in Templates /\ g.instance \in Homeworks
        /\ homework[g.instance] = NoRow /\ g.instance \notin broken
        /\ cloning[g.instance] # NoRow => cloning[g.instance].template = g.template
\* What a submission or a grade has read is still there, unless raced.
PaperKnows(g) ==
    /\ g.op \in {"submit", "grade"} =>
          /\ g.paper \in Papers /\ g.new \in Values /\ g.seen \in Values \cup {NoRow}
    /\ g.op = "submit" => /\ <<"body", g.paper>> \in g.on
                          /\ <<"body", g.paper>> \in raced \/ g.seen = body[g.paper]
    /\ g.op = "grade" => /\ <<"grade", g.paper>> \in g.on
                         /\ <<"grade", g.paper>> \in raced \/ g.seen = grade[g.paper]
WorkKnows(g) == AdoptKnows(g) /\ FileKnows(g) /\ CloneKnows(g) /\ PaperKnows(g)

\* Two uploads never write one file, and two requests never make one instance.
Apart(g, h) ==
    /\ g.op = "upload" /\ h.op = "upload" => g.at # h.at
    /\ g.op = "clone" /\ h.op = "clone" => g.instance # h.instance
WorkRequests ==
    /\ request = [c \in Callers |-> request[c]] /\ OneAtATime
    /\ \A c \in Callers : WorkKnows(request[c])
    /\ \A c, d \in Callers : c # d => Apart(request[c], request[d])

CopiesInv ==
    \A n \in Nationals :
        adopted[n] \subseteq CopiesOf(n) /\ \A s, t \in CopiesOf(n) : s = t
\* A delete or a clone is at work.
Deleting(a) == \E c \in Callers : request[c].op = "delete" /\ request[c].at = a
Making(h) == \E c \in Callers : request[c].op = "clone" /\ request[c].instance = h
\* A file found had a row, so no bytes come to it later; what was copied has a row.
CloneWell(h) ==
    /\ \A f \in cloning[h].found : attached[<<cloning[h].template, f>>] # "none"
    /\ cloning[h].done =>
          /\ \A f \in cloning[h].found :
                <<cloning[h].template, f>> \in bytes => f \in cloning[h].made
          /\ \A f \in cloning[h].made : attached[<<h, f>>] # "none"
ClonesInv ==
    \A h \in Homeworks :
        /\ cloning[h] # NoRow => CloneWell(h)
        /\ homework[h] # NoRow /\ ~homework[h].error =>
              /\ cloning[h] # NoRow /\ cloning[h].done /\ homework[h].template = cloning[h].template
              /\ homework[h].cloned = Cardinality(cloning[h].made)
        /\ homework[h] = NoRow /\ cloning[h] # NoRow => h \in broken \/ Making(h)
HomeworkInv ==
    HomeworkTypeOK /\ WorkRequests /\ CopiesInv /\ FilesAgree /\ ClonesInv /\ SubmissionsAgree

\* What a request knows is about rows, so a step that leaves them leaves it.
LEMMA FilesKnown ==
  ASSUME UNCHANGED <<attached, bytes>> PROVE \A g : FileKnows(g) => FileKnows(g)'
BY DEF FileKnows
LEMMA ClonesKnown ==
  ASSUME UNCHANGED instances PROVE \A g : CloneKnows(g) => CloneKnows(g)'
BY DEF CloneKnows, instances
LEMMA PapersKnown ==
  ASSUME UNCHANGED <<body, grade>>, raced \subseteq raced'
  PROVE  \A g : PaperKnows(g) => PaperKnows(g)'
BY DEF PaperKnows
LEMMA AdoptsKnown == \A g : AdoptKnows(g) => AdoptKnows(g)'
BY DEF AdoptKnows

\* A request that reads joins the others, and nobody's work is lost.
LEMMA WorkReads ==
  ASSUME WorkRequests, NEW c \in Callers, NEW req, Reads(c, req), WorkKnows(req)',
         \A d \in Callers : \A g :
             d # c /\ g = request[d] => WorkKnows(g)' /\ Apart(req, g) /\ Apart(g, req)
  PROVE  /\ WorkRequests' /\ raced \subseteq raced'
         /\ \A a : Deleting(a) => Deleting(a)'
         /\ \A h : Making(h) => Making(h)'
<1> USE DEF WorkRequests
<1>1. /\ request' = [d \in Callers |-> request'[d]] /\ OneAtATime' /\ raced \subseteq raced'
      /\ request'[c] = req /\ \A d \in Callers : d # c => request'[d] = request[d]
  BY ReadsOnce
<1>2. ASSUME NEW d \in Callers PROVE WorkKnows(request[d])'
  <2>1. PICK g : g = request'[d]  OBVIOUS
  <2>2. WorkKnows(g)'
    <3>1. CASE d = c  BY <3>1, <2>1, <1>1
    <3>2. CASE d # c  BY <3>2, <2>1, <1>1
    <3> QED  BY <3>1, <3>2
  <2> QED  BY <2>1, <2>2
<1>3. ASSUME NEW a \in Callers, NEW b \in Callers, a # b PROVE Apart(request'[a], request'[b])
  <2>1. CASE a = c  BY <2>1, <1>1, <1>3
  <2>2. CASE b = c  BY <2>2, <1>1, <1>3
  <2>3. CASE a # c /\ b # c  BY <2>3, <1>1, <1>3
  <2> QED  BY <2>1, <2>2, <2>3
<1>4. \A x, y : Apart(x, y)' <=> Apart(x, y)  BY DEF Apart
<1>5. WorkRequests'  BY <1>1, <1>2, <1>3, <1>4
<1>6. request[c].op = "none"  BY DEF Reads, Idle
<1>7. \A a : Deleting(a) => Deleting(a)'  BY <1>1, <1>6 DEF Deleting
<1>8. \A h : Making(h) => Making(h)'  BY <1>1, <1>6 DEF Making
<1> QED  BY <1>1, <1>5, <1>7, <1>8

\* One that ends leaves the others at work.
LEMMA WorkEnds ==
  ASSUME WorkRequests, NEW c \in Callers, Ends(c),
         \A d \in Callers : \A g : d # c /\ g = request[d] => WorkKnows(g)'
  PROVE  /\ WorkRequests' /\ raced' = raced
         /\ \A a : Deleting(a) => Deleting(a)' \/ (request[c].op = "delete" /\ request[c].at = a)
         /\ \A h : Making(h) => Making(h)' \/ (request[c].op = "clone" /\ request[c].instance = h)
<1> USE DEF WorkRequests
<1>1. /\ request' = [d \in Callers |-> request'[d]] /\ OneAtATime' /\ raced' = raced
      /\ request'[c] = Idle /\ \A d \in Callers : d # c => request'[d] = request[d]
  BY EndsOnce
<1>2. ASSUME NEW d \in Callers PROVE WorkKnows(request[d])'
  <2>1. PICK g : g = request'[d]  OBVIOUS
  <2>2. WorkKnows(g)'
    <3>1. CASE d = c
      <4>1. g = Idle  BY <3>1, <2>1, <1>1
      <4>2. WorkKnows(Idle)'
        BY DEF Idle, WorkKnows, AdoptKnows, FileKnows, CloneKnows, PaperKnows
      <4> QED  BY <4>1, <4>2
    <3>2. CASE d # c  BY <3>2, <2>1, <1>1
    <3> QED  BY <3>1, <3>2
  <2> QED  BY <2>1, <2>2
<1>3. ASSUME NEW a \in Callers, NEW b \in Callers, a # b PROVE Apart(request'[a], request'[b])
  <2>1. CASE a = c \/ b = c  BY <2>1, <1>1, <1>3 DEF Apart, Idle
  <2>2. CASE a # c /\ b # c  BY <2>2, <1>1, <1>3
  <2> QED  BY <2>1, <2>2
<1>4. \A x, y : Apart(x, y)' <=> Apart(x, y)  BY DEF Apart
<1>5. WorkRequests'  BY <1>1, <1>2, <1>3, <1>4
<1>6. \A a : Deleting(a) => Deleting(a)' \/ (request[c].op = "delete" /\ request[c].at = a)
  BY <1>1 DEF Deleting
<1>7. \A h : Making(h) => Making(h)' \/ (request[c].op = "clone" /\ request[c].instance = h)
  BY <1>1 DEF Making
<1> QED  BY <1>1, <1>5, <1>6, <1>7

\* Nobody asks.
LEMMA WorkRests ==
  ASSUME WorkRequests, UNCHANGED callers, \A g : WorkKnows(g) => WorkKnows(g)'
  PROVE  /\ WorkRequests' /\ raced' = raced
         /\ \A a : Deleting(a) => Deleting(a)'
         /\ \A h : Making(h) => Making(h)'
<1>1. request' = request /\ raced' = raced  BY DEF callers
<1>2. ASSUME NEW d \in Callers PROVE WorkKnows(request[d])'
  <2>1. PICK g : g = request[d]  OBVIOUS
  <2>2. WorkKnows(g)'  BY <2>1 DEF WorkRequests
  <2> QED  BY <2>1, <2>2, <1>1
<1>3. \A x, y : Apart(x, y)' <=> Apart(x, y)  BY DEF Apart
<1> QED  BY <1>1, <1>2, <1>3 DEF WorkRequests, OneAtATime, Deleting, Making

\* A step that leaves rows leaves what they promise.
LEMMA FilesFrame ==
  ASSUME FilesAgree, UNCHANGED disk, \A a : Deleting(a) => Deleting(a)'
  PROVE  FilesAgree'
BY DEF FilesAgree, disk, Deleting, Owners
LEMMA ClonesFrame ==
  ASSUME ClonesInv, UNCHANGED <<instances, disk>>, \A h : Making(h) => Making(h)'
  PROVE  ClonesInv'
<1>1. UNCHANGED <<homework, broken, cloning, attached, bytes>>  BY DEF instances, disk
<1>2. \A h : CloneWell(h)' = CloneWell(h)  BY <1>1 DEF CloneWell
<1> QED  BY <1>1, <1>2 DEF ClonesInv
LEMMA PapersFrame ==
  ASSUME SubmissionsAgree, UNCHANGED submissions, raced \subseteq raced'
  PROVE  SubmissionsAgree'
BY DEF SubmissionsAgree, submissions, Papers

LEMMA LibraryRows ==
  /\ NoRow \notin Nationals /\ NoRow \notin Values
  /\ NoRow \notin TemplateRow /\ NoRow \notin HomeworkRow /\ NoRow \notin CloneRow
  /\ Templates \cap Homeworks = {} /\ IsFiniteSet(Files)
BY LibraryAssumption

\* Templates: what is answered is a copy, and there is one.
LEMMA AdoptionsKeep ==
  ASSUME HomeworkInv, AdoptionsNext PROVE HomeworkInv'
<1> USE DEF HomeworkInv
<1>1. UNCHANGED <<instances, disk, submissions>>  BY DEF AdoptionsNext
<1>2. \A g : WorkKnows(g) /\ raced \subseteq raced' => WorkKnows(g)'
  <2>1. UNCHANGED <<attached, bytes, body, grade>>  BY <1>1 DEF disk, submissions
  <2> QED  BY <1>1, <2>1, AdoptsKnown, FilesKnown, ClonesKnown, PapersKnown DEF WorkKnows
<1>3. ASSUME national' \in [Nationals -> NationalRow \cup {NoRow}],
             template' \in [Templates -> TemplateRow \cup {NoRow}],
             adopted' \in [Nationals -> SUBSET Templates]
      PROVE  HomeworkTypeOK'
  BY <1>1, <1>3 DEF HomeworkTypeOK, instances, disk, submissions, Owners, Papers
<1>4. ASSUME UNCHANGED callers \/ \E c \in Callers : request[c].op = "adopt" /\ Ends(c)
      PROVE  WorkRequests' /\ FilesAgree' /\ ClonesInv' /\ SubmissionsAgree'
  <2>1. CASE UNCHANGED callers
    <3>1. raced \subseteq raced'  BY <2>1 DEF callers
    <3>2. /\ WorkRequests' /\ raced' = raced
          /\ \A a : Deleting(a) => Deleting(a)'
          /\ \A h : Making(h) => Making(h)'
      BY <2>1, <1>2, <3>1, WorkRests
    <3> QED  BY <3>2, <3>1, <1>1, FilesFrame, ClonesFrame, PapersFrame
  <2>2. ASSUME NEW c \in Callers, request[c].op = "adopt", Ends(c)
        PROVE  WorkRequests' /\ FilesAgree' /\ ClonesInv' /\ SubmissionsAgree'
    <3>1. raced \subseteq raced'  BY <2>2 DEF Ends
    <3>2. \A d \in Callers : \A g : d # c /\ g = request[d] => WorkKnows(g)'
      BY <1>2, <3>1 DEF WorkRequests
    <3>3. /\ WorkRequests'
          /\ \A a : Deleting(a) => Deleting(a)'
          /\ \A h : Making(h) => Making(h)'
      BY <2>2, <3>2, WorkEnds
    <3> QED  BY <3>1, <3>3, <1>1, FilesFrame, ClonesFrame, PapersFrame
  <2> QED  BY <1>4, <2>1, <2>2
<1>5. ASSUME UNCHANGED template, \A n \in Nationals : adopted'[n] \subseteq CopiesOf(n)
      PROVE  CopiesInv'
  BY <1>5 DEF CopiesInv, CopiesOf
<1>6. ASSUME NEW n \in Nationals, DraftNational(n) \/ PublishNational(n) \/ ArchiveNational(n)
      PROVE  HomeworkInv'
  <2>1. UNCHANGED <<template, adopted, callers>>
    BY <1>6 DEF DraftNational, PublishNational, ArchiveNational
  <2>2. national' \in [Nationals -> NationalRow \cup {NoRow}]
    <3>1. PICK row : national' = [national EXCEPT ![n] = row] /\ row \in NationalRow
      <4>1. CASE DraftNational(n)
        <5>1. [published |-> FALSE, archived |-> FALSE] \in NationalRow  BY DEF NationalRow
        <5> QED  BY <4>1, <5>1 DEF DraftNational
      <4>2. CASE PublishNational(n)
        <5>1. national[n] \in NationalRow  BY <4>2 DEF PublishNational, HomeworkTypeOK
        <5>2. [national[n] EXCEPT !.published = TRUE] \in NationalRow  BY <5>1 DEF NationalRow
        <5> QED  BY <4>2, <5>2 DEF PublishNational
      <4>3. CASE ArchiveNational(n)
        <5>1. national[n] \in NationalRow  BY <4>3 DEF ArchiveNational, HomeworkTypeOK
        <5>2. [national[n] EXCEPT !.archived = TRUE] \in NationalRow  BY <5>1 DEF NationalRow
        <5> QED  BY <4>3, <5>2 DEF ArchiveNational
      <4> QED  BY <1>6, <4>1, <4>2, <4>3
    <3> QED  BY <3>1 DEF HomeworkTypeOK
  <2>3. CopiesInv'  BY <2>1 DEF CopiesInv, CopiesOf
  <2> QED  BY <2>1, <2>2, <2>3, <1>3, <1>4 DEF HomeworkTypeOK
<1>7. ASSUME NEW n \in Nationals, NEW c \in Callers, ReadForAdopt(c, n) PROVE HomeworkInv'
  <2> DEFINE req == [op |-> "adopt", on |-> {}, national |-> n]
  <2>1. Reads(c, req) /\ UNCHANGED <<national, template, adopted>>
    BY <1>7 DEF ReadForAdopt, adoptions
  <2>2. raced \subseteq raced'  BY <2>1 DEF Reads
  <2>3. \A g : req.op = "adopt" /\ Apart(req, g) /\ Apart(g, req)  BY DEF Apart
  <2>4. WorkKnows(req)'
    BY DEF WorkKnows, AdoptKnows, FileKnows, CloneKnows, PaperKnows
  <2> HIDE DEF req
  <2>5. \A d \in Callers : \A g :
            d # c /\ g = request[d] => WorkKnows(g)' /\ Apart(req, g) /\ Apart(g, req)
    BY <1>2, <2>2, <2>3 DEF WorkRequests
  <2>6. /\ WorkRequests'
        /\ \A a : Deleting(a) => Deleting(a)'
        /\ \A h : Making(h) => Making(h)'
    BY <2>1, <2>4, <2>5, WorkReads
  <2>7. FilesAgree' /\ ClonesInv' /\ SubmissionsAgree'
    BY <1>1, <2>2, <2>6, FilesFrame, ClonesFrame, PapersFrame
  <2>8. CopiesInv'  BY <2>1 DEF CopiesInv, CopiesOf
  <2>9. HomeworkTypeOK'  BY <2>1, <1>3 DEF HomeworkTypeOK
  <2> QED  BY <2>6, <2>7, <2>8, <2>9
\* A copy is answered.
<1>8. ASSUME NEW n \in Nationals, NEW t \in CopiesOf(n), AnswersCopy(n, t),
             UNCHANGED <<national, template>>
      PROVE  HomeworkTypeOK' /\ CopiesInv'
  <2>1. t \in Templates  BY DEF CopiesOf
  <2>2. /\ adopted'[n] = adopted[n] \cup {t}
        /\ \A m \in Nationals \ {n} : adopted'[m] = adopted[m]
        /\ adopted' \in [Nationals -> SUBSET Templates]
    BY <1>8, <2>1 DEF AnswersCopy, HomeworkTypeOK
  <2>3. \A m \in Nationals : adopted'[m] \subseteq CopiesOf(m)  BY <2>2 DEF CopiesInv
  <2> QED  BY <1>3, <1>5, <1>8, <2>2, <2>3 DEF HomeworkTypeOK
<1>9. ASSUME NEW n \in Nationals, AdoptAgain(n) PROVE HomeworkInv'
  BY <1>4, <1>8, <1>9 DEF AdoptAgain
<1>10. ASSUME NEW c \in Callers, AdoptLoses(c) PROVE HomeworkInv'
  <2>1. request[c].national \in Nationals /\ request[c].op = "adopt"
    BY <1>10 DEF AdoptLoses, WorkRequests, WorkKnows, AdoptKnows
  <2> QED  BY <1>4, <1>8, <1>10, <2>1 DEF AdoptLoses
<1>11. ASSUME NEW t \in Templates, NEW source \in Nationals \cup {NoRow}, template[t] = NoRow,
              template' = [template EXCEPT ![t] = [source |-> source]], UNCHANGED national,
              \/ source = NoRow /\ UNCHANGED adopted
              \/ source \in Nationals /\ CopiesOf(source) = {} /\ AnswersCopy(source, t)
       PROVE  HomeworkTypeOK' /\ CopiesInv'
  <2>1. PICK row : row = [source |-> source]  OBVIOUS
  <2>2. row \in TemplateRow /\ row.source = source  BY <2>1 DEF TemplateRow
  <2>3. row # NoRow  BY <2>2, LibraryRows
  <2>4. /\ template'[t] = row /\ \A s \in Templates \ {t} : template'[s] = template[s]
        /\ template' \in [Templates -> TemplateRow \cup {NoRow}]
    BY <1>11, <2>1, <2>2 DEF HomeworkTypeOK
  <2>5. \A n \in Nationals : CopiesOf(n)' = IF n = source THEN CopiesOf(n) \cup {t} ELSE CopiesOf(n)
    BY <1>11, <2>2, <2>3, <2>4 DEF CopiesOf
  <2>6. CASE source = NoRow /\ UNCHANGED adopted
    <3>1. \A n \in Nationals : CopiesOf(n)' = CopiesOf(n)  BY <2>5, <2>6, LibraryRows
    <3>2. CopiesInv'  BY <2>6, <3>1 DEF CopiesInv
    <3> QED  BY <3>2, <2>4, <2>6, <1>3, <1>11 DEF HomeworkTypeOK
  <2>7. CASE source \in Nationals /\ CopiesOf(source) = {} /\ AnswersCopy(source, t)
    <3>1. /\ adopted'[source] = adopted[source] \cup {t}
          /\ \A m \in Nationals \ {source} : adopted'[m] = adopted[m]
          /\ adopted' \in [Nationals -> SUBSET Templates]
      BY <2>7 DEF AnswersCopy, HomeworkTypeOK
    <3>2. CopiesInv'
      <4> SUFFICES ASSUME NEW n \in Nationals
                   PROVE  /\ adopted'[n] \subseteq CopiesOf(n)'
                          /\ \A a, b \in CopiesOf(n)' : a = b
        BY DEF CopiesInv
      <4>1. CASE n = source  BY <4>1, <2>5, <2>7, <3>1 DEF CopiesInv
      <4>2. CASE n # source  BY <4>2, <2>5, <3>1 DEF CopiesInv
      <4> QED  BY <4>1, <4>2
    <3> QED  BY <3>1, <3>2, <2>4, <1>3, <1>11 DEF HomeworkTypeOK
  <2> QED  BY <1>11, <2>6, <2>7
<1>12. ASSUME NEW t \in Templates, CreateTemplate(t) PROVE HomeworkInv'
  BY <1>4, <1>11, <1>12 DEF CreateTemplate
<1>13. ASSUME NEW t \in Templates, NEW c \in Callers, Adopt(c, t) PROVE HomeworkInv'
  <2>1. PICK n : n = request[c].national  OBVIOUS
  <2>2. /\ request[c].op = "adopt" /\ template[t] = NoRow /\ CopiesOf(n) = {}
        /\ template' = [template EXCEPT ![t] = [source |-> n]] /\ AnswersCopy(n, t)
        /\ Ends(c) /\ UNCHANGED national
    BY <1>13, <2>1 DEF Adopt, Uncopied
  <2>3. n \in Nationals  BY <2>1, <2>2 DEF WorkRequests, WorkKnows, AdoptKnows
  <2>4. HomeworkTypeOK' /\ CopiesInv'  BY <2>2, <2>3, <1>11
  <2> QED  BY <2>2, <2>4, <1>4
<1> QED  BY <1>6, <1>7, <1>9, <1>10, <1>12, <1>13 DEF AdoptionsNext

\* Submissions and grades: what was read is written over, unless raced.
LEMMA SubmissionsKeep ==
  ASSUME HomeworkInv, SubmissionsNext PROVE HomeworkInv'
<1> USE DEF HomeworkInv
<1>1. UNCHANGED <<adoptions, instances, disk>>  BY DEF SubmissionsNext
<1>2. \A g : AdoptKnows(g) /\ FileKnows(g) /\ CloneKnows(g)
                => AdoptKnows(g)' /\ FileKnows(g)' /\ CloneKnows(g)'
  <2>1. UNCHANGED <<attached, bytes>>  BY <1>1 DEF disk
  <2> QED  BY <1>1, <2>1, AdoptsKnown, FilesKnown, ClonesKnown
<1>3. CopiesInv'  BY <1>1 DEF CopiesInv, CopiesOf, adoptions
<1>4. ASSUME body' \in [Papers -> Values \cup {NoRow}], grade' \in [Papers -> Values \cup {NoRow}],
             given' \in [body : [Papers -> Values \cup {NoRow}],
                         grade : [Papers -> Values \cup {NoRow}]]
      PROVE  HomeworkTypeOK'
  BY <1>1, <1>4 DEF HomeworkTypeOK, instances, disk, adoptions, Owners, Papers
<1>5. ASSUME NEW c \in Callers, NEW req, Reads(c, req), UNCHANGED submissions, PaperKnows(req)',
             req.op \in {"submit", "grade"}
      PROVE  HomeworkInv'
  <2>1. UNCHANGED <<body, grade, given>> /\ raced \subseteq raced'
    BY <1>5 DEF Reads, submissions
  <2>2. WorkKnows(req)'  BY <1>5 DEF WorkKnows, AdoptKnows, FileKnows, CloneKnows
  <2>3. \A g : Apart(req, g) /\ Apart(g, req)  BY <1>5 DEF Apart
  <2>4. \A d \in Callers : \A g :
            d # c /\ g = request[d] => WorkKnows(g)' /\ Apart(req, g) /\ Apart(g, req)
    BY <1>2, <2>1, <2>3, PapersKnown DEF WorkRequests, WorkKnows
  <2>5. /\ WorkRequests'
        /\ \A a : Deleting(a) => Deleting(a)'
        /\ \A h : Making(h) => Making(h)'
    BY <1>5, <2>2, <2>4, WorkReads
  <2>6. FilesAgree' /\ ClonesInv' /\ SubmissionsAgree'
    BY <1>1, <1>5, <2>1, <2>5, FilesFrame, ClonesFrame, PapersFrame
  <2>7. HomeworkTypeOK'  BY <2>1, <1>4 DEF HomeworkTypeOK
  <2> QED  BY <1>3, <2>5, <2>6, <2>7
<1>6. ASSUME NEW c \in Callers, NEW p \in Papers, NEW v \in Values, ReadForSubmit(c, p, v)
      PROVE  HomeworkInv'
  <2>1. PICK req : req = [op |-> "submit", on |-> {<<"body", p>>}, paper |-> p, seen |-> body[p],
                        new |-> v]
    OBVIOUS
  <2>2. Reads(c, req) /\ UNCHANGED submissions /\ body' = body
    BY <1>6, <2>1 DEF ReadForSubmit, submissions
  <2>3. PaperKnows(req)'  BY <2>1, <2>2 DEF PaperKnows, HomeworkTypeOK
  <2> QED  BY <1>5, <2>1, <2>2, <2>3
<1>7. ASSUME NEW c \in Callers, NEW p \in Papers, NEW v \in Values, ReadForGrade(c, p, v)
      PROVE  HomeworkInv'
  <2>1. PICK req : req = [op |-> "grade", on |-> {<<"grade", p>>}, paper |-> p, seen |-> grade[p],
                        new |-> v]
    OBVIOUS
  <2>2. Reads(c, req) /\ UNCHANGED submissions /\ grade' = grade
    BY <1>7, <2>1 DEF ReadForGrade, submissions
  <2>3. PaperKnows(req)'  BY <2>1, <2>2 DEF PaperKnows, HomeworkTypeOK
  <2> QED  BY <1>5, <2>1, <2>2, <2>3
<1>8. ASSUME NEW c \in Callers, Ends(c), request[c].op \in {"submit", "grade"},
             \A d \in Callers : \A g : d # c /\ g = request[d] => PaperKnows(g)'
      PROVE  WorkRequests' /\ FilesAgree' /\ ClonesInv'
  <2>1. \A d \in Callers : \A g : d # c /\ g = request[d] => WorkKnows(g)'
    BY <1>2, <1>8 DEF WorkRequests, WorkKnows
  <2>2. /\ WorkRequests'
        /\ \A a : Deleting(a) => Deleting(a)'
        /\ \A h : Making(h) => Making(h)'
    BY <1>8, <2>1, WorkEnds
  <2> QED  BY <1>1, <2>2, FilesFrame, ClonesFrame
<1>9. ASSUME NEW c \in Callers, Submit(c) PROVE HomeworkInv'
  <2>1. PICK r, p : r = request[c] /\ p = r.paper  OBVIOUS
  <2>2. /\ r.op = "submit" /\ Ends(c) /\ raced' = raced /\ UNCHANGED grade
        /\ body' = [body EXCEPT ![p] = Written(body[p], r.seen, r.new)]
        /\ given' = [given EXCEPT !.body[p] = r.new]
    BY <1>9, <2>1 DEF Submit, Ends, Written, WorkRequests, HomeworkTypeOK
  <2>3. PaperKnows(r)  BY <2>1 DEF WorkRequests, WorkKnows
  <2>4. p \in Papers /\ r.new \in Values /\ <<"body", p>> \in r.on
        /\ (<<"body", p>> \in raced \/ r.seen = body[p])
    BY <2>1, <2>2, <2>3 DEF PaperKnows
  <2>5. /\ body' \in [Papers -> Values \cup {NoRow}]
        /\ \A q \in Papers \ {p} : body'[q] = body[q]
        /\ <<"body", p>> \in raced \/ body'[p] = r.new
    BY <2>2, <2>4 DEF HomeworkTypeOK, Written
  <2>6. /\ given' \in [body : [Papers -> Values \cup {NoRow}],
                       grade : [Papers -> Values \cup {NoRow}]]
        /\ given'.body[p] = r.new /\ \A q \in Papers \ {p} : given'.body[q] = given.body[q]
        /\ given'.grade = given.grade
    BY <2>2, <2>4 DEF HomeworkTypeOK
  <2>7. SubmissionsAgree'  BY <2>2, <2>4, <2>5, <2>6 DEF SubmissionsAgree
  <2>8. HomeworkTypeOK'  BY <1>4, <2>2, <2>5, <2>6 DEF HomeworkTypeOK
  <2>9. ASSUME NEW d \in Callers, NEW g, d # c, g = request[d] PROVE PaperKnows(g)'
    <3>1. PaperKnows(g)  BY <2>9 DEF WorkRequests, WorkKnows
    <3>2. \A x : x \in r.on /\ x \in g.on => x \in raced
      BY <2>1, <2>9 DEF WorkRequests, OneAtATime
    <3>3. CASE g.op = "submit"  BY <3>1, <3>2, <3>3, <2>2, <2>4, <2>5 DEF PaperKnows
    <3>4. CASE g.op # "submit"  BY <3>1, <3>4, <2>2 DEF PaperKnows
    <3> QED  BY <3>3, <3>4
  <2> QED  BY <1>3, <1>8, <2>1, <2>2, <2>7, <2>8, <2>9
<1>10. ASSUME NEW c \in Callers, GradePaper(c) PROVE HomeworkInv'
  <2>1. PICK r, p : r = request[c] /\ p = r.paper  OBVIOUS
  <2>2. /\ r.op = "grade" /\ Ends(c) /\ raced' = raced /\ UNCHANGED body
        /\ grade' = [grade EXCEPT ![p] = Written(grade[p], r.seen, r.new)]
        /\ given' = [given EXCEPT !.grade[p] = r.new]
    BY <1>10, <2>1 DEF GradePaper, Ends, Written, WorkRequests, HomeworkTypeOK
  <2>3. PaperKnows(r)  BY <2>1 DEF WorkRequests, WorkKnows
  <2>4. p \in Papers /\ r.new \in Values /\ <<"grade", p>> \in r.on
        /\ (<<"grade", p>> \in raced \/ r.seen = grade[p])
    BY <2>1, <2>2, <2>3 DEF PaperKnows
  <2>5. /\ grade' \in [Papers -> Values \cup {NoRow}]
        /\ \A q \in Papers \ {p} : grade'[q] = grade[q]
        /\ <<"grade", p>> \in raced \/ grade'[p] = r.new
    BY <2>2, <2>4 DEF HomeworkTypeOK, Written
  <2>6. /\ given' \in [body : [Papers -> Values \cup {NoRow}],
                       grade : [Papers -> Values \cup {NoRow}]]
        /\ given'.grade[p] = r.new /\ \A q \in Papers \ {p} : given'.grade[q] = given.grade[q]
        /\ given'.body = given.body
    BY <2>2, <2>4 DEF HomeworkTypeOK
  <2>7. SubmissionsAgree'  BY <2>2, <2>4, <2>5, <2>6 DEF SubmissionsAgree
  <2>8. HomeworkTypeOK'  BY <1>4, <2>2, <2>5, <2>6 DEF HomeworkTypeOK
  <2>9. ASSUME NEW d \in Callers, NEW g, d # c, g = request[d] PROVE PaperKnows(g)'
    <3>1. PaperKnows(g)  BY <2>9 DEF WorkRequests, WorkKnows
    <3>2. \A x : x \in r.on /\ x \in g.on => x \in raced
      BY <2>1, <2>9 DEF WorkRequests, OneAtATime
    <3>3. CASE g.op = "grade"  BY <3>1, <3>2, <3>3, <2>2, <2>4, <2>5 DEF PaperKnows
    <3>4. CASE g.op # "grade"  BY <3>1, <3>4, <2>2 DEF PaperKnows
    <3> QED  BY <3>3, <3>4
  <2> QED  BY <1>3, <1>8, <2>1, <2>2, <2>7, <2>8, <2>9
<1> QED  BY <1>6, <1>7, <1>9, <1>10 DEF SubmissionsNext

\* Bytes that come to a file without a row, and rows that stay, leave what clones promise.
LEMMA ClonesStand ==
  ASSUME HomeworkTypeOK, ClonesInv, UNCHANGED instances,
         \A a \in Owners \X Files : attached[a] # "none" => attached'[a] # "none",
         \A a \in bytes' : a \in bytes \/ attached[a] = "none",
         \A h : Making(h) => Making(h)'
  PROVE  ClonesInv'
<1>1. UNCHANGED <<homework, broken, cloning>>  BY DEF instances
<1>2. ASSUME NEW h \in Homeworks, cloning[h] # NoRow PROVE CloneWell(h)'
  <2>1. PICK k : k = cloning[h]  OBVIOUS
  <2>2. k \in CloneRow /\ CloneWell(h) /\ cloning' = cloning
    BY <1>1, <1>2, <2>1 DEF HomeworkTypeOK, ClonesInv
  <2>3. \A f \in Files : <<h, f>> \in Owners \X Files /\ <<k.template, f>> \in Owners \X Files
    BY <2>2 DEF CloneRow, Owners
  <2>4. k.found \subseteq Files /\ k.made \subseteq Files  BY <2>2 DEF CloneRow
  <2>5. \A f \in k.found : attached[<<k.template, f>>] # "none" /\ attached'[<<k.template, f>>] # "none"
    BY <2>1, <2>2, <2>3, <2>4 DEF CloneWell
  <2>6. k.done => \A f \in k.made : attached'[<<h, f>>] # "none"
    BY <2>1, <2>2, <2>3, <2>4 DEF CloneWell
  <2>7. k.done => \A f \in k.found : <<k.template, f>> \in bytes' => f \in k.made
    BY <2>1, <2>2, <2>5 DEF CloneWell
  <2> QED  BY <2>1, <2>2, <2>5, <2>6, <2>7 DEF CloneWell
<1> QED  BY <1>1, <1>2 DEF ClonesInv

\* Attachments: bytes come before the row and go before it.
LEMMA DiskKeeps ==
  ASSUME HomeworkInv, DiskNext PROVE HomeworkInv'
<1> USE DEF HomeworkInv
<1>1. UNCHANGED <<adoptions, instances, submissions>>  BY DEF DiskNext
<1>2. \A g : AdoptKnows(g) /\ CloneKnows(g) => AdoptKnows(g)' /\ CloneKnows(g)'
  BY <1>1, AdoptsKnown, ClonesKnown
<1>3. raced \subseteq raced' => \A g : PaperKnows(g) => PaperKnows(g)'
  BY <1>1, PapersKnown DEF submissions
<1>4. CopiesInv'  BY <1>1 DEF CopiesInv, CopiesOf, adoptions
<1>5. ASSUME attached' \in [Owners \X Files -> {"none", "live", "deleted"}],
             bytes' \subseteq Owners \X Files, UNCHANGED halved
      PROVE  HomeworkTypeOK'
  BY <1>1, <1>5 DEF HomeworkTypeOK, instances, submissions, adoptions, Owners, Papers
<1>6. \A t \in Templates, f \in Files : <<t, f>> \in Owners \X Files /\ <<t, f>> \in Templates \X Files
  BY DEF Owners
<1>7. \A a \in Templates \X Files : a \in Owners \X Files  BY DEF Owners
<1>8. ASSUME NEW c \in Callers, NEW t \in Templates, NEW f \in Files, SaveBytes(c, t, f)
      PROVE  HomeworkInv'
  <2>1. PICK a : a = <<t, f>>  OBVIOUS
  <2>2. PICK req : req = [op |-> "upload", on |-> {}, at |-> a]  OBVIOUS
  <2>3. /\ attached[a] = "none" /\ a \notin bytes /\ Reads(c, req) /\ bytes' = bytes \cup {a}
        /\ UNCHANGED <<attached, halved>> /\ a \in Owners \X Files /\ a \in Templates \X Files
    BY <1>6, <1>8, <2>1, <2>2 DEF SaveBytes
  <2>4. raced \subseteq raced'  BY <2>3 DEF Reads
  <2>5. WorkKnows(req)'
    BY <2>2, <2>3 DEF WorkKnows, AdoptKnows, FileKnows, CloneKnows, PaperKnows
  <2>6. ASSUME NEW d \in Callers, NEW g, d # c, g = request[d]
        PROVE  WorkKnows(g)' /\ Apart(req, g) /\ Apart(g, req)
    <3>1. WorkKnows(g)  BY <2>6 DEF WorkRequests
    <3>2. FileKnows(g)'  BY <3>1, <2>3 DEF WorkKnows, FileKnows
    <3>3. Apart(req, g) /\ Apart(g, req)  BY <3>1, <2>2, <2>3 DEF WorkKnows, FileKnows, Apart
    <3> QED  BY <3>1, <3>2, <3>3, <2>4, <1>2, <1>3 DEF WorkKnows
  <2>7. /\ WorkRequests'
        /\ \A x : Deleting(x) => Deleting(x)'
        /\ \A h : Making(h) => Making(h)'
    BY <2>3, <2>5, <2>6, WorkReads
  <2>8. HomeworkTypeOK'  BY <1>5, <2>3 DEF HomeworkTypeOK
  <2>9. FilesAgree'  BY <2>3, <2>7 DEF FilesAgree, Deleting, Owners
  <2>10. ClonesInv'  BY <1>1, <2>3, <2>7, ClonesStand
  <2>11. SubmissionsAgree'  BY <1>1, <2>4, PapersFrame
  <2> QED  BY <1>4, <2>7, <2>8, <2>9, <2>10, <2>11
<1>9. ASSUME NEW c \in Callers, NEW o \in Owners, NEW f \in Files, ReadForDelete(c, o, f)
      PROVE  HomeworkInv'
  <2>1. PICK a : a = <<o, f>>  OBVIOUS
  <2>2. PICK req : req = [op |-> "unlink", on |-> {}, at |-> a]  OBVIOUS
  <2>3. attached[a] = "live" /\ Reads(c, req) /\ UNCHANGED disk /\ UNCHANGED <<attached, bytes, halved>>
        /\ a \in Owners \X Files
    BY <1>9, <2>1, <2>2 DEF ReadForDelete, disk
  <2>4. raced \subseteq raced'  BY <2>3 DEF Reads
  <2>5. WorkKnows(req)'
    BY <2>2, <2>3 DEF WorkKnows, AdoptKnows, FileKnows, CloneKnows, PaperKnows
  <2>6. ASSUME NEW d \in Callers, NEW g, d # c, g = request[d]
        PROVE  WorkKnows(g)' /\ Apart(req, g) /\ Apart(g, req)
    <3>1. WorkKnows(g)  BY <2>6 DEF WorkRequests
    <3>2. Apart(req, g) /\ Apart(g, req)  BY <2>2 DEF Apart
    <3> QED  BY <3>1, <3>2, <2>3, <2>4, <1>2, <1>3, FilesKnown DEF WorkKnows
  <2>7. /\ WorkRequests'
        /\ \A x : Deleting(x) => Deleting(x)'
        /\ \A h : Making(h) => Making(h)'
    BY <2>3, <2>5, <2>6, WorkReads
  <2>8. HomeworkTypeOK'  BY <1>5, <2>3 DEF HomeworkTypeOK
  <2>9. FilesAgree' /\ ClonesInv' /\ SubmissionsAgree'
    BY <1>1, <2>3, <2>4, <2>7, FilesFrame, ClonesFrame, PapersFrame
  <2> QED  BY <1>4, <2>7, <2>8, <2>9
\* A row is written: the one of this request.
<1>10. ASSUME NEW c \in Callers, NEW a, a = request[c].at, request[c].op \in {"upload", "delete"},
              NEW row \in {"live", "deleted"}, Ends(c), UNCHANGED <<bytes, halved>>,
              attached' = [attached EXCEPT ![a] = row],
              request[c].op = "upload" <=> row = "live"
       PROVE  HomeworkInv'
  <2>1. PICK r : r = request[c]  OBVIOUS
  <2>2. FileKnows(r) /\ r.at = a /\ r.op \in {"upload", "delete"}
    BY <1>10, <2>1 DEF WorkRequests, WorkKnows
  <2>3. a \in Owners \X Files /\ (r.op = "upload" => a \in bytes)
    BY <2>2, <1>7 DEF FileKnows
  <2>4. /\ attached'[a] = row /\ \A b \in (Owners \X Files) \ {a} : attached'[b] = attached[b]
        /\ attached' \in [Owners \X Files -> {"none", "live", "deleted"}]
    BY <1>10, <2>3 DEF HomeworkTypeOK
  <2>5. raced' = raced  BY <1>10 DEF Ends
  <2>6. ASSUME NEW d \in Callers, NEW g, d # c, g = request[d] PROVE WorkKnows(g)'
    <3>1. WorkKnows(g) /\ FileKnows(g)  BY <2>6 DEF WorkRequests, WorkKnows
    <3>2. g.op = "upload" => g.at # a
      <4>1. CASE r.op = "upload"  BY <4>1, <2>1, <2>2, <2>6 DEF WorkRequests, Apart
      <4>2. CASE r.op = "delete"  BY <4>2, <2>2, <3>1 DEF FileKnows
      <4> QED  BY <4>1, <4>2, <2>2
    <3>3. FileKnows(g)'
      <4>1. CASE g.op = "upload"
        BY <4>1, <3>1, <3>2, <1>7, <1>10, <2>4 DEF FileKnows
      <4>2. CASE g.op # "upload"
        <5>1. row # "none"  BY <1>10
        <5> QED  BY <4>2, <5>1, <3>1, <2>4 DEF FileKnows
      <4> QED  BY <4>1, <4>2
    <3> QED  BY <3>1, <3>3, <2>5, <1>2, <1>3 DEF WorkKnows
  <2>7. /\ WorkRequests'
        /\ \A x : Deleting(x) => Deleting(x)' \/ (request[c].op = "delete" /\ request[c].at = x)
        /\ \A h : Making(h) => Making(h)' \/ (request[c].op = "clone" /\ request[c].instance = h)
    BY <1>10, <2>6, WorkEnds
  <2>8. \A h : Making(h) => Making(h)'  BY <2>7, <2>1, <2>2
  <2>9. HomeworkTypeOK'  BY <1>5, <1>10, <2>4 DEF HomeworkTypeOK
  <2>10. FilesAgree'
    <3> SUFFICES ASSUME NEW x \in Owners \X Files, attached'[x] = "live"
                 PROVE  x \in bytes' \cup halved' \/ Deleting(x)'
      BY DEF FilesAgree, Deleting, Owners
    <3>1. CASE x = a  BY <3>1, <2>1, <2>3, <2>4, <1>10
    <3>2. CASE x # a
      <4>1. attached[x] = "live"  BY <3>2, <2>4
      <4>2. x \in bytes \cup halved \/ Deleting(x)  BY <4>1 DEF FilesAgree, Deleting
      <4> QED  BY <3>2, <4>2, <2>7, <1>10
    <3> QED  BY <3>1, <3>2
  <2>11. ClonesInv'
    <3>1. \A b \in Owners \X Files : attached[b] # "none" => attached'[b] # "none"  BY <2>4
    <3>2. bytes' = bytes  BY <1>10
    <3> QED  BY <1>1, <2>8, <3>1, <3>2, ClonesStand
  <2>12. SubmissionsAgree'  BY <1>1, <2>5, PapersFrame
  <2> QED  BY <1>4, <2>7, <2>9, <2>10, <2>11, <2>12
<1>11. ASSUME NEW c \in Callers, CommitUpload(c) PROVE HomeworkInv'
  BY <1>10, <1>11 DEF CommitUpload
<1>12. ASSUME NEW c \in Callers, CommitDelete(c) PROVE HomeworkInv'
  BY <1>10, <1>12 DEF CommitDelete
<1>13. ASSUME NEW c \in Callers, RemoveBytes(c) PROVE HomeworkInv'
  <2>1. PICK r, a : r = request[c] /\ a = r.at  OBVIOUS
  <2>2. PICK req : req = [op |-> "delete", on |-> r.on, at |-> a]  OBVIOUS
  <2>3. /\ r.op = "unlink" /\ bytes' = bytes \ {a} /\ request' = [request EXCEPT ![c] = req]
        /\ UNCHANGED <<attached, halved>> /\ raced' = raced
    BY <1>13, <2>1, <2>2 DEF RemoveBytes, WorkRequests
  <2>4. FileKnows(r)  BY <2>1 DEF WorkRequests, WorkKnows
  <2>5. a \in Owners \X Files /\ attached[a] # "none"  BY <2>1, <2>3, <2>4 DEF FileKnows
  <2>6. /\ request' = [d \in Callers |-> request'[d]] /\ OneAtATime'
        /\ request'[c] = req /\ \A d \in Callers : d # c => request'[d] = request[d]
    <3>1. req.on = request[c].on  BY <2>1, <2>2
    <3> QED  BY <2>3, <3>1, GoesOnOnce DEF WorkRequests
  <2>7. WorkKnows(req)'
    BY <2>2, <2>3, <2>5 DEF WorkKnows, AdoptKnows, FileKnows, CloneKnows, PaperKnows
  <2>8. ASSUME NEW d \in Callers, NEW g, d # c, g = request[d] PROVE WorkKnows(g)'
    <3>1. WorkKnows(g) /\ FileKnows(g)  BY <2>8 DEF WorkRequests, WorkKnows
    <3>2. FileKnows(g)'  BY <3>1, <2>3, <2>5 DEF FileKnows
    <3> QED  BY <3>1, <3>2, <2>3, <1>2, <1>3 DEF WorkKnows
  <2>9. WorkRequests'
    <3>1. ASSUME NEW d \in Callers PROVE WorkKnows(request[d])'
      <4>1. PICK g : g = request'[d]  OBVIOUS
      <4>2. WorkKnows(g)'
        <5>1. CASE d = c  BY <5>1, <4>1, <2>6, <2>7
        <5>2. CASE d # c  BY <5>2, <4>1, <2>6, <2>8
        <5> QED  BY <5>1, <5>2
      <4> QED  BY <4>1, <4>2
    <3>2. ASSUME NEW d \in Callers, NEW e \in Callers, d # e PROVE Apart(request'[d], request'[e])
      BY <3>2, <2>2, <2>6 DEF WorkRequests, Apart
    <3>3. \A x, y : Apart(x, y)' <=> Apart(x, y)  BY DEF Apart
    <3> QED  BY <3>1, <3>2, <3>3, <2>6 DEF WorkRequests
  <2>10. \A x : Deleting(x) => Deleting(x)'  BY <2>1, <2>3, <2>6 DEF Deleting
  <2>11. \A h : Making(h) => Making(h)'  BY <2>1, <2>3, <2>6 DEF Making
  <2>12. HomeworkTypeOK'  BY <1>5, <2>3 DEF HomeworkTypeOK
  <2>13. Deleting(a)'  BY <2>2, <2>6 DEF Deleting
  <2>14. FilesAgree'
    <3> SUFFICES ASSUME NEW x \in Owners \X Files, attached'[x] = "live"
                 PROVE  x \in bytes' \cup halved' \/ Deleting(x)'
      BY DEF FilesAgree, Deleting, Owners
    <3>1. x \in bytes \cup halved \/ Deleting(x)  BY <2>3 DEF FilesAgree, Deleting
    <3> QED  BY <3>1, <2>3, <2>10, <2>13
  <2>15. ClonesInv'
    <3>1. \A b \in Owners \X Files : attached[b] # "none" => attached'[b] # "none"  BY <2>3
    <3>2. \A b \in bytes' : b \in bytes  BY <2>3
    <3> QED  BY <1>1, <2>11, <3>1, <3>2, ClonesStand
  <2>16. SubmissionsAgree'  BY <1>1, <2>3, PapersFrame
  <2> QED  BY <1>4, <2>9, <2>12, <2>14, <2>15, <2>16
<1> QED  BY <1>8, <1>9, <1>11, <1>12, <1>13 DEF DiskNext

\* Instances: a clone copies what it found and can read, and is counted when it is done.
LEMMA InstancesKeep ==
  ASSUME HomeworkInv, InstancesNext PROVE HomeworkInv'
<1> USE DEF HomeworkInv
<1>1. UNCHANGED <<adoptions, submissions>>  BY DEF InstancesNext
<1>2. raced \subseteq raced' =>
          \A g : AdoptKnows(g) /\ PaperKnows(g) => AdoptKnows(g)' /\ PaperKnows(g)'
  BY <1>1, AdoptsKnown, PapersKnown DEF submissions
<1>3. CopiesInv'  BY <1>1 DEF CopiesInv, CopiesOf, adoptions
<1>4. ASSUME homework' \in [Homeworks -> HomeworkRow \cup {NoRow}],
             cloning' \in [Homeworks -> CloneRow \cup {NoRow}],
             attached' \in [Owners \X Files -> {"none", "live", "deleted"}],
             bytes' \subseteq Owners \X Files, UNCHANGED <<broken, halved>>
      PROVE  HomeworkTypeOK'
  BY <1>1, <1>4 DEF HomeworkTypeOK, submissions, adoptions, Owners, Papers
<1>5. ASSUME NEW c \in Callers, NEW t \in Templates, NEW h \in Homeworks, ReadForInstance(c, t, h)
      PROVE  HomeworkInv'
  <2>1. PICK req : req = [op |-> "clone", on |-> {}, template |-> t, instance |-> h]  OBVIOUS
  <2>2. /\ homework[h] = NoRow /\ h \notin broken /\ Reads(c, req) /\ UNCHANGED <<instances, disk>>
        /\ UNCHANGED <<homework, broken, cloning, attached, bytes, halved>> /\ ~Making(h)
    BY <1>5, <2>1 DEF ReadForInstance, instances, disk, Making
  <2>3. cloning[h] = NoRow  BY <2>2 DEF ClonesInv
  <2>4. raced \subseteq raced'  BY <2>2 DEF Reads
  <2>5. WorkKnows(req)'
    BY <2>1, <2>2, <2>3 DEF WorkKnows, AdoptKnows, FileKnows, CloneKnows, PaperKnows
  <2>6. ASSUME NEW d \in Callers, NEW g, d # c, g = request[d]
        PROVE  WorkKnows(g)' /\ Apart(req, g) /\ Apart(g, req)
    <3>1. WorkKnows(g)  BY <2>6 DEF WorkRequests
    <3>2. Apart(req, g) /\ Apart(g, req)  BY <2>1, <2>2, <2>6 DEF Apart, Making
    <3> QED  BY <3>1, <3>2, <2>2, <2>4, <1>2, FilesKnown, ClonesKnown DEF WorkKnows
  <2>7. /\ WorkRequests'
        /\ \A x : Deleting(x) => Deleting(x)'
        /\ \A k : Making(k) => Making(k)'
    BY <2>2, <2>5, <2>6, WorkReads
  <2>8. HomeworkTypeOK'  BY <1>4, <2>2 DEF HomeworkTypeOK
  <2>9. FilesAgree' /\ ClonesInv' /\ SubmissionsAgree'
    BY <1>1, <2>2, <2>4, <2>7, FilesFrame, ClonesFrame, PapersFrame
  <2> QED  BY <1>3, <2>7, <2>8, <2>9
<1>6. ASSUME NEW c \in Callers, StartClone(c) PROVE HomeworkInv'
  <2>1. PICK r, h, t : r = request[c] /\ h = r.instance /\ t = r.template  OBVIOUS
  <2>2. PICK new : new = [template |-> t, found |-> LiveAt(t), made |-> {}, done |-> FALSE]
    OBVIOUS
  <2>3. /\ r.op = "clone" /\ cloning[h] = NoRow /\ cloning' = [cloning EXCEPT ![h] = new]
        /\ UNCHANGED <<homework, broken, disk, callers>> /\ UNCHANGED <<attached, bytes, halved>>
        /\ raced \subseteq raced'
    BY <1>6, <2>1, <2>2 DEF StartClone, disk, callers
  <2>4. t \in Templates /\ h \in Homeworks /\ homework[h] = NoRow
    BY <2>1, <2>3 DEF WorkRequests, WorkKnows, CloneKnows
  <2>5. new \in CloneRow /\ new.template = t /\ new.found = LiveAt(t) /\ new.done = FALSE
    BY <2>2, <2>4 DEF CloneRow, LiveAt
  <2>6. /\ cloning'[h] = new /\ \A k \in Homeworks \ {h} : cloning'[k] = cloning[k]
        /\ cloning' \in [Homeworks -> CloneRow \cup {NoRow}]
    BY <2>3, <2>4, <2>5 DEF HomeworkTypeOK
  <2>7. ASSUME NEW d \in Callers PROVE WorkKnows(request[d])'
    <3>1. PICK g : g = request[d]  OBVIOUS
    <3>2. WorkKnows(g) /\ CloneKnows(g)  BY <3>1 DEF WorkRequests, WorkKnows
    <3>3. CloneKnows(g)'
      <4>1. CASE d = c  BY <4>1, <3>1, <3>2, <2>1, <2>3, <2>4, <2>5, <2>6 DEF CloneKnows
      <4>2. CASE d # c
        <5>1. g.op = "clone" => g.instance # h
          BY <4>2, <3>1, <2>1, <2>3 DEF WorkRequests, Apart
        <5> QED  BY <5>1, <3>2, <2>3, <2>6 DEF CloneKnows
      <4> QED  BY <4>1, <4>2
    <3>4. WorkKnows(g)'  BY <3>2, <3>3, <2>3, <1>2, FilesKnown DEF WorkKnows
    <3> QED  BY <3>1, <3>4, <2>3 DEF callers
  <2>8. WorkRequests'
    <3>1. \A x, y : Apart(x, y)' <=> Apart(x, y)  BY DEF Apart
    <3> QED  BY <3>1, <2>3, <2>7 DEF WorkRequests, OneAtATime, callers
  <2>9. /\ \A x : Deleting(x) => Deleting(x)'
        /\ \A k : Making(k) => Making(k)'
    BY <2>3 DEF Deleting, Making, callers
  <2>10. HomeworkTypeOK'  BY <1>4, <2>3, <2>6 DEF HomeworkTypeOK
  <2>11. FilesAgree' /\ SubmissionsAgree'
    BY <1>1, <2>3, <2>9, FilesFrame, PapersFrame
  <2>12. ClonesInv'
    <3> SUFFICES ASSUME NEW k \in Homeworks
        PROVE /\ cloning'[k] # NoRow => CloneWell(k)'
              /\ homework'[k] # NoRow /\ ~homework'[k].error =>
                    /\ cloning'[k] # NoRow /\ cloning'[k].done
                    /\ homework'[k].template = cloning'[k].template
                    /\ homework'[k].cloned = Cardinality(cloning'[k].made)
              /\ homework'[k] = NoRow /\ cloning'[k] # NoRow => k \in broken' \/ Making(k)'
      BY DEF ClonesInv
    <3>1. CASE k = h
      <4>1. Making(h)  BY <2>1, <2>3 DEF Making
      <4>2. CloneWell(h)'
        <5>1. \A f \in LiveAt(t) : attached[<<t, f>>] # "none"  BY DEF LiveAt
        <5> QED  BY <5>1, <2>3, <2>5, <2>6 DEF CloneWell
      <4> QED  BY <3>1, <4>1, <4>2, <2>3, <2>4, <2>9
    <3>2. CASE k # h
      <4>1. cloning'[k] = cloning[k]  BY <3>2, <2>6
      <4>2. CloneWell(k)' = CloneWell(k)  BY <4>1, <2>3 DEF CloneWell
      <4> QED  BY <4>1, <4>2, <2>3, <2>9 DEF ClonesInv
    <3> QED  BY <3>1, <3>2
  <2> QED  BY <1>3, <2>8, <2>10, <2>11, <2>12
<1>7. ASSUME NEW h \in Homeworks, NEW made \in SUBSET Files, CommitClone(h, made)
      PROVE  HomeworkInv'
  <2>1. PICK k : k = cloning[h]  OBVIOUS
  <2>2. /\ k # NoRow /\ ~k.done /\ made \subseteq k.found
        /\ \A f \in k.found : <<k.template, f>> \in bytes => f \in made
        /\ cloning' = [cloning EXCEPT ![h].done = TRUE, ![h].made = made]
        /\ attached' = [a \in Owners \X Files |-> IF a \in {h} \X made THEN "live" ELSE attached[a]]
        /\ bytes' = bytes \cup {h} \X made
        /\ UNCHANGED <<homework, broken, halved, callers>> /\ raced \subseteq raced'
    BY <1>7, <2>1 DEF CommitClone, Copied, callers
  <2>3. k \in CloneRow  BY <2>1, <2>2 DEF HomeworkTypeOK
  <2> DEFINE new == [[k EXCEPT !.done = TRUE] EXCEPT !.made = made]
  <2>4. new \in CloneRow /\ new.template = k.template /\ new.found = k.found
        /\ new.made = made /\ new.done = TRUE
    BY <2>3 DEF CloneRow
  <2>5. cloning' = [cloning EXCEPT ![h] = new]  BY <2>1, <2>2 DEF HomeworkTypeOK
  <2> HIDE DEF new
  <2>6. /\ cloning'[h] = new /\ \A j \in Homeworks \ {h} : cloning'[j] = cloning[j]
        /\ cloning' \in [Homeworks -> CloneRow \cup {NoRow}]
    BY <2>4, <2>5 DEF HomeworkTypeOK
  <2>7. \A a \in {h} \X made : a \in Owners \X Files /\ a \notin Templates \X Files
    BY LibraryRows DEF Owners
  <2>8. /\ attached' \in [Owners \X Files -> {"none", "live", "deleted"}]
        /\ bytes' \subseteq Owners \X Files
    BY <2>2, <2>7 DEF HomeworkTypeOK
  <2>9. \A a \in Owners \X Files : attached[a] # "none" => attached'[a] # "none"
    BY <2>2
  <2>10. \A a \in Templates \X Files :
             /\ attached'[a] = attached[a]
             /\ a \in bytes' <=> a \in bytes
    BY <2>2, <2>7 DEF Owners
  <2>11. ASSUME NEW d \in Callers PROVE WorkKnows(request[d])'
    <3>1. PICK g : g = request[d]  OBVIOUS
    <3>2. WorkKnows(g) /\ CloneKnows(g) /\ FileKnows(g)  BY <3>1 DEF WorkRequests, WorkKnows
    <3>3. CloneKnows(g)'
      <4>1. CASE g.op = "clone" /\ g.instance = h
        BY <4>1, <3>2, <2>1, <2>2, <2>4, <2>6 DEF CloneKnows
      <4>2. CASE g.op = "clone" /\ g.instance # h  BY <4>2, <3>2, <2>2, <2>6 DEF CloneKnows
      <4>3. CASE g.op # "clone"  BY <4>3 DEF CloneKnows
      <4> QED  BY <4>1, <4>2, <4>3
    <3>4. FileKnows(g)'  BY <3>2, <2>9, <2>10 DEF FileKnows
    <3>5. WorkKnows(g)'  BY <3>2, <3>3, <3>4, <2>2, <1>2 DEF WorkKnows
    <3> QED  BY <3>1, <3>5, <2>2 DEF callers
  <2>12. WorkRequests'
    <3>1. \A x, y : Apart(x, y)' <=> Apart(x, y)  BY DEF Apart
    <3> QED  BY <3>1, <2>2, <2>11 DEF WorkRequests, OneAtATime, callers
  <2>13. /\ \A x : Deleting(x) => Deleting(x)'
         /\ \A j : Making(j) => Making(j)'
    BY <2>2 DEF Deleting, Making, callers
  <2>14. HomeworkTypeOK'  BY <1>4, <2>2, <2>6, <2>8 DEF HomeworkTypeOK
  <2>15. FilesAgree'
    <3> SUFFICES ASSUME NEW x \in Owners \X Files, attached'[x] = "live"
                 PROVE  x \in bytes' \cup halved' \/ Deleting(x)'
      BY DEF FilesAgree, Deleting, Owners
    <3>1. CASE x \in {h} \X made  BY <3>1, <2>2
    <3>2. CASE x \notin {h} \X made
      <4>1. attached[x] = "live"  BY <3>2, <2>2
      <4>2. x \in bytes \cup halved \/ Deleting(x)  BY <4>1 DEF FilesAgree, Deleting
      <4> QED  BY <4>2, <2>2, <2>13
    <3> QED  BY <3>1, <3>2
  <2>16. SubmissionsAgree'  BY <1>1, <2>2, PapersFrame
  <2>17. ClonesInv'
    <3> SUFFICES ASSUME NEW j \in Homeworks
        PROVE /\ cloning'[j] # NoRow => CloneWell(j)'
              /\ homework'[j] # NoRow /\ ~homework'[j].error =>
                    /\ cloning'[j] # NoRow /\ cloning'[j].done
                    /\ homework'[j].template = cloning'[j].template
                    /\ homework'[j].cloned = Cardinality(cloning'[j].made)
              /\ homework'[j] = NoRow /\ cloning'[j] # NoRow => j \in broken' \/ Making(j)'
      BY DEF ClonesInv
    <3>1. ASSUME cloning[j] # NoRow
          PROVE  \A f \in cloning[j].found :
                     /\ <<cloning[j].template, f>> \in Templates \X Files
                     /\ attached'[<<cloning[j].template, f>>] # "none"
      <4>1. CloneWell(j) /\ cloning[j] \in CloneRow  BY <3>1 DEF ClonesInv, HomeworkTypeOK
      <4>2. \A f \in cloning[j].found : <<cloning[j].template, f>> \in Templates \X Files
        BY <4>1 DEF CloneRow
      <4> QED  BY <4>1, <4>2, <2>10 DEF CloneWell
    <3>2. CASE j = h
      <4>1. CloneWell(h)'
        <5>1. \A f \in made : attached'[<<h, f>>] # "none"
          <6>1. \A f \in made : <<h, f>> \in {h} \X made  OBVIOUS
          <6> QED  BY <6>1, <2>2, <2>7
        <5>2. \A f \in k.found : <<k.template, f>> \in bytes' => f \in made
          BY <3>1, <3>2, <2>1, <2>2, <2>10
        <5>3. \A f \in k.found : attached'[<<k.template, f>>] # "none"
          BY <3>1, <3>2, <2>1, <2>2
        <5> QED  BY <5>1, <5>2, <5>3, <2>4, <2>6 DEF CloneWell
      <4>2. ~(homework[h] # NoRow /\ ~homework[h].error)  BY <2>1, <2>2 DEF ClonesInv
      <4>3. homework[h] = NoRow => h \in broken \/ Making(h)  BY <2>1, <2>2 DEF ClonesInv
      <4> QED  BY <3>2, <4>1, <4>2, <4>3, <2>2, <2>13
    <3>3. CASE j # h
      <4>1. cloning'[j] = cloning[j]  BY <3>3, <2>6
      <4>2. cloning[j] # NoRow => CloneWell(j)'
        <5> SUFFICES ASSUME cloning[j] # NoRow PROVE CloneWell(j)'  OBVIOUS
        <5>1. CloneWell(j) /\ cloning[j] \in CloneRow  BY DEF ClonesInv, HomeworkTypeOK
        <5>2. \A f \in cloning[j].made : <<j, f>> \in Owners \X Files
          BY <5>1 DEF CloneRow, Owners
        <5>3. cloning[j].done => \A f \in cloning[j].made : attached'[<<j, f>>] # "none"
          BY <5>1, <5>2, <2>9 DEF CloneWell
        <5>4. cloning[j].done => \A f \in cloning[j].found :
                  <<cloning[j].template, f>> \in bytes' => f \in cloning[j].made
          BY <5>1, <3>1, <2>10 DEF CloneWell
        <5> QED  BY <5>3, <5>4, <4>1, <3>1 DEF CloneWell
      <4> QED  BY <4>1, <4>2, <2>2, <2>13 DEF ClonesInv
    <3> QED  BY <3>2, <3>3
  <2> QED  BY <1>3, <2>12, <2>14, <2>15, <2>16, <2>17
\* An instance is there once its clone answered, or did not.
<1>8. ASSUME NEW c \in Callers, NEW row \in HomeworkRow, request[c].op = "clone", Commits(c, row),
             ~row.error =>
                 LET k == cloning[request[c].instance]
                 IN  /\ k # NoRow /\ k.done /\ row.template = request[c].template
                     /\ row.cloned = Cardinality(k.made)
      PROVE  HomeworkInv'
  <2>1. PICK r, h, k : r = request[c] /\ h = r.instance /\ k = cloning[h]  OBVIOUS
  <2>2. /\ homework' = [homework EXCEPT ![h] = row] /\ Ends(c) /\ raced' = raced
        /\ UNCHANGED <<broken, cloning, disk>> /\ UNCHANGED <<attached, bytes, halved>>
    BY <1>8, <2>1 DEF Commits, Ends, disk
  <2>3. CloneKnows(r) /\ r.op = "clone"  BY <1>8, <2>1 DEF WorkRequests, WorkKnows
  <2>4. h \in Homeworks /\ row # NoRow  BY <2>1, <2>3, LibraryRows DEF CloneKnows
  <2>5. /\ homework'[h] = row /\ \A j \in Homeworks \ {h} : homework'[j] = homework[j]
        /\ homework' \in [Homeworks -> HomeworkRow \cup {NoRow}]
    BY <2>2, <2>4 DEF HomeworkTypeOK
  <2>6. ASSUME NEW d \in Callers, NEW g, d # c, g = request[d] PROVE WorkKnows(g)'
    <3>1. WorkKnows(g) /\ CloneKnows(g)  BY <2>6 DEF WorkRequests, WorkKnows
    <3>2. g.op = "clone" => g.instance # h  BY <2>1, <2>3, <2>6 DEF WorkRequests, Apart
    <3>3. CloneKnows(g)'  BY <3>1, <3>2, <2>2, <2>5 DEF CloneKnows
    <3> QED  BY <3>1, <3>3, <2>2, <1>2, FilesKnown DEF WorkKnows
  <2>7. /\ WorkRequests'
        /\ \A x : Deleting(x) => Deleting(x)' \/ (request[c].op = "delete" /\ request[c].at = x)
        /\ \A j : Making(j) => Making(j)' \/ (request[c].op = "clone" /\ request[c].instance = j)
    BY <2>2, <2>6, WorkEnds
  <2>8. \A x : Deleting(x) => Deleting(x)'  BY <2>7, <1>8
  <2>9. HomeworkTypeOK'  BY <1>4, <2>2, <2>5 DEF HomeworkTypeOK
  <2>10. FilesAgree' /\ SubmissionsAgree'
    BY <1>1, <2>2, <2>8, FilesFrame, PapersFrame
  <2>11. ClonesInv'
    <3> SUFFICES ASSUME NEW j \in Homeworks
        PROVE /\ cloning'[j] # NoRow => CloneWell(j)'
              /\ homework'[j] # NoRow /\ ~homework'[j].error =>
                    /\ cloning'[j] # NoRow /\ cloning'[j].done
                    /\ homework'[j].template = cloning'[j].template
                    /\ homework'[j].cloned = Cardinality(cloning'[j].made)
              /\ homework'[j] = NoRow /\ cloning'[j] # NoRow => j \in broken' \/ Making(j)'
      BY DEF ClonesInv
    <3>1. CloneWell(j)' = CloneWell(j)  BY <2>2 DEF CloneWell
    <3>2. CASE j = h
      <4>1. k # NoRow => k.template = r.template  BY <2>1, <2>3 DEF CloneKnows
      <4>2. ~row.error => /\ k # NoRow /\ k.done /\ row.template = r.template
                          /\ row.cloned = Cardinality(k.made)
        BY <1>8, <2>1
      <4> QED  BY <3>1, <3>2, <4>1, <4>2, <2>1, <2>2, <2>4, <2>5 DEF ClonesInv
    <3>3. CASE j # h
      <4>1. Making(j) => Making(j)'  BY <3>3, <2>1, <2>7
      <4> QED  BY <3>1, <3>3, <4>1, <2>2, <2>5 DEF ClonesInv
    <3> QED  BY <3>2, <3>3
  <2> QED  BY <1>3, <2>7, <2>9, <2>10, <2>11
<1>9. ASSUME NEW c \in Callers, CommitInstance(c) PROVE HomeworkInv'
  <2>1. PICK r, k : r = request[c] /\ k = cloning[r.instance]  OBVIOUS
  <2>2. PICK row : row = [template |-> r.template, error |-> FALSE, cloned |-> Cardinality(k.made)]
    OBVIOUS
  <2>3. request[c].op = "clone" /\ k # NoRow /\ k.done /\ Commits(c, row)
    BY <1>9, <2>1, <2>2 DEF CommitInstance
  <2>4. r.template \in Templates /\ r.instance \in Homeworks
    BY <2>1, <2>3 DEF WorkRequests, WorkKnows, CloneKnows
  <2>5. Cardinality(k.made) \in Nat
    <3>1. k.made \subseteq Files  BY <2>1, <2>3, <2>4 DEF HomeworkTypeOK, CloneRow
    <3> QED  BY <3>1, LibraryRows, FS_Subset, FS_CardinalityType
  <2>6. row \in HomeworkRow  BY <2>2, <2>4, <2>5 DEF HomeworkRow
  <2> QED  BY <2>1, <2>2, <2>3, <2>6, <1>8
<1>10. ASSUME NEW c \in Callers, CommitWithError(c) PROVE HomeworkInv'
  <2>1. PICK row : row = [template |-> request[c].template, error |-> TRUE, cloned |-> 0]  OBVIOUS
  <2>2. request[c].op = "clone" /\ Commits(c, row)  BY <1>10, <2>1 DEF CommitWithError
  <2>3. request[c].template \in Templates  BY <2>2 DEF WorkRequests, WorkKnows, CloneKnows
  <2>4. row \in HomeworkRow /\ row.error = TRUE  BY <2>1, <2>3 DEF HomeworkRow
  <2> QED  BY <2>2, <2>4, <1>8
<1> QED  BY <1>5, <1>6, <1>7, <1>9, <1>10 DEF InstancesNext

\* A request that breaks leaves half of what it did, and is remembered.
LEMMA BreaksKeep ==
  ASSUME HomeworkInv, BreaksNext PROVE HomeworkInv'
<1> USE DEF HomeworkInv
<1>1. PICK c \in Callers : Breaks(c)  BY DEF BreaksNext
<1>2. PICK r : r = request[c]  OBVIOUS
<1>3. /\ Ends(c) /\ raced' = raced
      /\ broken' = IF r.op = "clone" THEN broken \cup {r.instance} ELSE broken
      /\ halved' = IF r.op = "delete" THEN halved \cup {r.at} ELSE halved
      /\ UNCHANGED <<adoptions, homework, cloning, attached, bytes, submissions>>
  BY <1>1, <1>2 DEF Breaks, GivesUp, Ends
<1>4. WorkKnows(r)  BY <1>2 DEF WorkRequests
<1>5. ASSUME NEW d \in Callers, NEW g, d # c, g = request[d] PROVE WorkKnows(g)'
  <2>1. WorkKnows(g)  BY <1>5 DEF WorkRequests
  <2>2. g.op = "clone" /\ r.op = "clone" => g.instance # r.instance
    BY <1>2, <1>5 DEF WorkRequests, Apart
  <2>3. CloneKnows(g)'  BY <2>1, <2>2, <1>3 DEF WorkKnows, CloneKnows
  <2>4. UNCHANGED <<body, grade>>  BY <1>3 DEF submissions
  <2> QED  BY <2>1, <2>3, <2>4, <1>3, AdoptsKnown, FilesKnown, PapersKnown DEF WorkKnows
<1>6. /\ WorkRequests'
      /\ \A x : Deleting(x) => Deleting(x)' \/ (request[c].op = "delete" /\ request[c].at = x)
      /\ \A j : Making(j) => Making(j)' \/ (request[c].op = "clone" /\ request[c].instance = j)
  BY <1>3, <1>5, WorkEnds
<1>7. HomeworkTypeOK'
  <2>1. broken' \subseteq Homeworks
    BY <1>3, <1>4 DEF WorkKnows, CloneKnows, HomeworkTypeOK
  <2>2. halved' \subseteq Owners \X Files
    BY <1>3, <1>4 DEF WorkKnows, FileKnows, HomeworkTypeOK
  <2> QED  BY <2>1, <2>2, <1>3 DEF HomeworkTypeOK, adoptions, submissions, Owners, Papers
<1>8. CopiesInv'  BY <1>3 DEF CopiesInv, CopiesOf, adoptions
<1>9. FilesAgree'
  <2> SUFFICES ASSUME NEW x \in Owners \X Files, attached'[x] = "live"
               PROVE  x \in bytes' \cup halved' \/ Deleting(x)'
    BY DEF FilesAgree, Deleting, Owners
  <2>1. x \in bytes \cup halved \/ Deleting(x)  BY <1>3 DEF FilesAgree, Deleting
  <2> QED  BY <2>1, <1>2, <1>3, <1>6
<1>10. ClonesInv'
  <2>1. \A j : CloneWell(j)' = CloneWell(j)  BY <1>3 DEF CloneWell
  <2>2. \A j : j \in broken \/ Making(j) => j \in broken' \/ Making(j)'
    BY <1>2, <1>3, <1>6
  <2> QED  BY <2>1, <2>2, <1>3 DEF ClonesInv
<1>11. SubmissionsAgree'  BY <1>3, PapersFrame
<1> QED  BY <1>6, <1>7, <1>8, <1>9, <1>10, <1>11

LEMMA HomeworkStarts ==
  ASSUME HomeworkInit, HandlersInit PROVE HomeworkInv
<1> USE DEF HomeworkInit, HandlersInit
<1>1. HomeworkTypeOK  BY DEF HomeworkTypeOK
<1>2. WorkRequests
  <2>1. \A c \in Callers : request[c] = Idle  OBVIOUS
  <2>2. request = [c \in Callers |-> request[c]]  OBVIOUS
  <2>3. OneAtATime  BY <2>1 DEF OneAtATime, Idle
  <2>4. WorkKnows(Idle) /\ Apart(Idle, Idle)
    BY DEF Idle, WorkKnows, AdoptKnows, FileKnows, CloneKnows, PaperKnows, Apart
  <2> QED  BY <2>1, <2>2, <2>3, <2>4 DEF WorkRequests
<1>3. CopiesInv  BY DEF CopiesInv, CopiesOf
<1>4. FilesAgree  BY DEF FilesAgree
<1>5. ClonesInv  BY DEF ClonesInv
<1>6. SubmissionsAgree  BY DEF SubmissionsAgree
<1> QED  BY <1>1, <1>2, <1>3, <1>4, <1>5, <1>6 DEF HomeworkInv

LEMMA HomeworkStep ==
  ASSUME HomeworkInv, [HomeworkNext]_<<homeworkVars, callers>> PROVE HomeworkInv'
<1>1. ASSUME UNCHANGED <<homeworkVars, callers>> PROVE HomeworkInv'
  <2> USE DEF HomeworkInv
  <2>1. UNCHANGED <<adoptions, instances, disk, submissions, callers>>
    BY <1>1 DEF homeworkVars
  <2>2. UNCHANGED <<attached, bytes, body, grade>> /\ raced \subseteq raced'
    BY <2>1 DEF disk, submissions, callers
  <2>3. \A g : WorkKnows(g) => WorkKnows(g)'
    BY <2>1, <2>2, AdoptsKnown, FilesKnown, ClonesKnown, PapersKnown DEF WorkKnows
  <2>4. /\ WorkRequests'
        /\ \A a : Deleting(a) => Deleting(a)'
        /\ \A h : Making(h) => Making(h)'
    BY <2>1, <2>3, WorkRests
  <2>5. FilesAgree' /\ ClonesInv' /\ SubmissionsAgree'
    BY <2>1, <2>2, <2>4, FilesFrame, ClonesFrame, PapersFrame
  <2>6. CopiesInv'  BY <2>1 DEF CopiesInv, CopiesOf, adoptions
  <2>7. HomeworkTypeOK'
    BY <2>1 DEF HomeworkTypeOK, adoptions, instances, disk, submissions, Owners, Papers
  <2> QED  BY <2>4, <2>5, <2>6, <2>7
<1> QED
  BY <1>1, AdoptionsKeep, DiskKeeps, InstancesKeep, SubmissionsKeep, BreaksKeep DEF HomeworkNext

LEMMA HomeworkKept ==
  ASSUME HomeworkInv PROVE HomeworkAgrees
<1> USE DEF HomeworkInv
<1>1. AdoptionsAgree
  <2> SUFFICES ASSUME NEW n \in Nationals
               PROVE  Cardinality(CopiesOf(n)) <= 1 /\ adopted[n] \subseteq CopiesOf(n)
    BY DEF AdoptionsAgree
  <2> QED  BY AtMostOne DEF CopiesInv
<1>2. InstancesAgree
  <2> SUFFICES ASSUME NEW h \in Homeworks
      PROVE /\ homework[h] # NoRow /\ ~homework[h].error =>
                  /\ \A f \in cloning[h].found :
                        <<homework[h].template, f>> \in bytes => attached[<<h, f>>] # "none"
                  /\ homework[h].cloned = Cardinality(cloning[h].made)
            /\ homework[h] = NoRow /\ cloning[h] # NoRow => h \in broken \/ Making(h)
    BY DEF InstancesAgree, Making
  <2> QED  BY DEF ClonesInv, CloneWell
<1> QED  BY <1>1, <1>2 DEF HomeworkAgrees

\* However adoptions, uploads, deletes, clones, submissions and grades overlap (homework
\* routes of academics, attachments of communications), a school has one copy of a national
\* template, a live attachment has its bytes unless a delete is at work on it or broke, an
\* instance made without an error has and counts its files, and a submission and its grade are
\* the last ones answered unless raced.
THEOREM HomeworkStaysExact == HomeworkSpec => []HomeworkAgrees
<1>1. HomeworkSpec => []HomeworkInv
  BY HomeworkStarts, HomeworkStep, PTL DEF HomeworkSpec
<1> QED  BY <1>1, HomeworkKept, PTL


-----------------------------------------------------------------------------
\* Idempotency keys.

KeyOps == {"announce", "persist", "call", "store"}
KeyRequest(op, k) == [op |-> op, on |-> {<<"key", k>>}, key |-> k]
\* A key on which requests overlapped, or were cut off between work and key, promises nothing.
Disturbed(k) == <<"key", k>> \in raced \/ k \in torn
\* A request knows that the work of its key is not done, or that it did it.
KeyKnows(g) ==
    g = Idle \/ \E k \in WorkKeys, op \in KeyOps :
        /\ g = KeyRequest(op, k)
        /\ op # "store" => Disturbed(k) \/ done[k] = 0
        /\ op = "store" => done[k] >= 1
KeyRequests ==
    /\ request = [c \in Callers |-> request[c]] /\ OneAtATime
    /\ \A c \in Callers : KeyKnows(request[c])
\* Work that is done once has its key stored, or the request that is about to store it.
Storing(k) == \E c \in Callers : request[c].op = "store" /\ request[c].key = k
KeyWell(k) ==
    /\ k \in stored => done[k] >= 1
    /\ \/ Disturbed(k)
       \/ done[k] = 0
       \/ done[k] = 1 /\ (k \in stored \/ Storing(k))
OnceInv ==
    /\ KeyRequests /\ stored \subseteq WorkKeys /\ done \in [WorkKeys -> Nat]
    /\ \A k \in WorkKeys : KeyWell(k)

LEMMA KeyRequestHas ==
  ASSUME NEW op, NEW k
  PROVE  /\ KeyRequest(op, k).op = op /\ KeyRequest(op, k).key = k
         /\ KeyRequest(op, k).on = {<<"key", k>>}
BY DEF KeyRequest
LEMMA KeyRequestGoesOn ==
  ASSUME NEW op, NEW k, NEW new
  PROVE  [KeyRequest(op, k) EXCEPT !.op = new] = KeyRequest(new, k)
BY DEF KeyRequest

\* What a request at work on a key is.
LEMMA KeyOf ==
  ASSUME OnceInv, NEW c \in Callers, request[c].op # "none"
  PROVE  /\ request[c].key \in WorkKeys /\ request[c].op \in KeyOps
         /\ request[c] = KeyRequest(request[c].op, request[c].key)
         /\ request[c].on = {<<"key", request[c].key>>}
         /\ request[c].op # "store" => Disturbed(request[c].key) \/ done[request[c].key] = 0
         /\ request[c].op = "store" => done[request[c].key] >= 1
<1>1. request[c] # Idle  BY DEF Idle
<1>2. PICK k \in WorkKeys, op \in KeyOps :
        /\ request[c] = KeyRequest(op, k)
        /\ op # "store" => Disturbed(k) \/ done[k] = 0
        /\ op = "store" => done[k] >= 1
  BY <1>1 DEF OnceInv, KeyRequests, KeyKnows
<1> QED  BY <1>2, KeyRequestHas

\* Two requests at work on a key have it in raced.
LEMMA KeysApart ==
  ASSUME OnceInv, NEW c \in Callers, NEW d \in Callers, c # d, request[c].op # "none",
         request[d].op # "none", request[c].key = request[d].key
  PROVE  <<"key", request[c].key>> \in raced
<1>1. request[c].on = {<<"key", request[c].key>>} /\ request[d].on = {<<"key", request[d].key>>}
  BY KeyOf
<1> QED  BY <1>1 DEF OnceInv, KeyRequests, OneAtATime

\* What a request knows that another leaves alone.
LEMMA KeyKnowledgeStays ==
  ASSUME NEW g, KeyKnows(g), raced \subseteq raced', torn \subseteq torn',
         \A k \in WorkKeys : done'[k] = done[k] \/ (done'[k] >= 1 /\ g.key # k)
                             \/ (done'[k] >= 1 /\ Disturbed(k))
  PROVE  KeyKnows(g)'
<1>1. CASE g = Idle  BY <1>1 DEF KeyKnows
<1>2. ASSUME NEW k \in WorkKeys, NEW op \in KeyOps, g = KeyRequest(op, k),
             op # "store" => Disturbed(k) \/ done[k] = 0,
             op = "store" => done[k] >= 1
      PROVE  KeyKnows(g)'
  <2>1. g.key = k  BY <1>2, KeyRequestHas
  <2>2. Disturbed(k) => Disturbed(k)'  BY DEF Disturbed
  <2>3. op # "store" => Disturbed(k)' \/ done'[k] = 0  BY <1>2, <2>1, <2>2
  <2>4. op = "store" => done'[k] >= 1  BY <1>2, <2>1
  <2> QED  BY <1>2, <2>3, <2>4 DEF KeyKnows
<1> QED  BY <1>1, <1>2 DEF KeyKnows

LEMMA LookingUpKeeps ==
  ASSUME OnceInv, NEW c \in Callers, NEW k \in WorkKeys, LooksUp(c, k) PROVE OnceInv'
<1> PICK op : op = IF k \in Initiates THEN "persist" ELSE "announce"  OBVIOUS
<1> PICK req : req = KeyRequest(op, k)  OBVIOUS
<1>1. Reads(c, req) /\ k \notin stored /\ UNCHANGED <<stored, done, torn>>
  BY DEF LooksUp, KeyFree, onceVars, KeyRequest
<1>2. /\ request' = [d \in Callers |-> request'[d]] /\ OneAtATime' /\ raced \subseteq raced'
      /\ request'[c] = req /\ \A d \in Callers : d # c => request'[d] = request[d]
      /\ \A d \in Callers, x \in req.on : d # c /\ x \in request[d].on => x \in raced'
  BY <1>1, ReadsOnce DEF OnceInv, KeyRequests
<1>3. request[c] = Idle  BY <1>1 DEF Reads
<1>4. \A d \in Callers : request[d].op = "store" => d # c  BY <1>3 DEF Idle
<1>5. Disturbed(k)' \/ done[k] = 0
  <2>1. Storing(k) => <<"key", k>> \in raced'
    <3> SUFFICES ASSUME NEW d \in Callers, request[d].op = "store", request[d].key = k
                 PROVE  <<"key", k>> \in raced'
      BY DEF Storing
    <3>1. request[d].on = {<<"key", k>>}  BY KeyOf
    <3> QED  BY <3>1, <1>2, <1>4, KeyRequestHas
  <2> QED  BY <2>1, <1>1, <1>2 DEF OnceInv, KeyWell, Disturbed
<1>6. \A j \in WorkKeys : Disturbed(j) => Disturbed(j)'  BY <1>1, <1>2 DEF Disturbed
<1>7. ASSUME NEW d \in Callers PROVE KeyKnows(request[d])'
  <2>1. CASE d = c
    <3>1. op \in KeyOps /\ op # "store"  BY DEF KeyOps
    <3> QED  BY <2>1, <1>1, <1>2, <1>5, <3>1 DEF KeyKnows
  <2>2. CASE d # c
    <3>1. PICK g : g = request[d]  OBVIOUS
    <3>2. KeyKnows(g)'
      BY <3>1, <1>1, <1>2, KeyKnowledgeStays DEF OnceInv, KeyRequests
    <3> QED  BY <3>1, <3>2, <2>2, <1>2
  <2> QED  BY <2>1, <2>2
<1>8. ASSUME NEW j \in WorkKeys PROVE KeyWell(j)'
  <2>1. Storing(j) => Storing(j)'  BY <1>2, <1>4 DEF Storing
  <2> QED  BY <2>1, <1>1, <1>6 DEF OnceInv, KeyWell
<1> QED  BY <1>1, <1>2, <1>7, <1>8 DEF OnceInv, KeyRequests

\* A request goes on from one commit to the next.
LEMMA GoingOnKeeps ==
  ASSUME OnceInv, NEW c \in Callers, NEW op \in KeyOps, request[c].op # "none",
         GoesOn(c, op)
  PROVE  /\ request' = [d \in Callers |-> request'[d]] /\ OneAtATime' /\ raced' = raced
         /\ request'[c] = KeyRequest(op, request[c].key)
         /\ \A d \in Callers : d # c => request'[d] = request[d]
<1> PICK req : req = KeyRequest(op, request[c].key)  OBVIOUS
<1>1. [request[c] EXCEPT !.op = op] = req
  <2>1. PICK was, k : k = request[c].key /\ request[c] = KeyRequest(was, k)  BY KeyOf
  <2>2. [KeyRequest(was, k) EXCEPT !.op = op] = KeyRequest(op, k)  BY KeyRequestGoesOn
  <2> QED  BY <2>1, <2>2
<1>2. request' = [request EXCEPT ![c] = req] /\ raced' = raced
  BY <1>1 DEF GoesOn
<1>3. req.on = request[c].on
  <2>1. request[c].on = {<<"key", request[c].key>>}  BY KeyOf
  <2>2. req.on = {<<"key", request[c].key>>}  BY KeyRequestHas
  <2> QED  BY <2>1, <2>2
<1> QED  BY <1>2, <1>3, GoesOnOnce DEF OnceInv, KeyRequests

LEMMA WorkKeeps ==
  ASSUME OnceInv, NEW c \in Callers, Announces(c) \/ GatewaySaysOk(c) PROVE OnceInv'
<1> PICK k : k = request[c].key  OBVIOUS
<1>1. /\ request[c].op # "none" /\ request[c].op # "store" /\ GoesOn(c, "store")
      /\ done' = [done EXCEPT ![k] = @ + 1] /\ stored' = stored /\ torn' = torn
  BY DEF Announces, GatewaySaysOk
<1>2. k \in WorkKeys /\ (Disturbed(k) \/ done[k] = 0) /\ done \in [WorkKeys -> Nat]
  BY <1>1, KeyOf DEF OnceInv
<1>3. /\ request' = [d \in Callers |-> request'[d]] /\ OneAtATime' /\ raced' = raced
      /\ request'[c] = KeyRequest("store", k)
      /\ \A d \in Callers : d # c => request'[d] = request[d]
  BY <1>1, GoingOnKeeps DEF KeyOps
<1>4. done' \in [WorkKeys -> Nat] /\ done'[k] = done[k] + 1
      /\ \A j \in WorkKeys : j # k => done'[j] = done[j]
  BY <1>1, <1>2
<1>5. \A j \in WorkKeys : Disturbed(j)' <=> Disturbed(j)  BY <1>1, <1>3 DEF Disturbed
<1>6. ASSUME NEW d \in Callers PROVE KeyKnows(request[d])'
  <2>1. CASE d = c
    <3>1. done'[k] >= 1  BY <1>2, <1>4
    <3> QED  BY <2>1, <1>2, <1>3, <3>1 DEF KeyKnows, KeyOps
  <2>2. CASE d # c
    <3>1. PICK g : g = request[d]  OBVIOUS
    <3>2. KeyKnows(g)  BY <3>1 DEF OnceInv, KeyRequests
    <3>3. CASE g = Idle  BY <3>3, <3>1, <2>2, <1>3 DEF KeyKnows
    <3>4. CASE g # Idle
      <4>1. g.op # "none"  BY <3>2, <3>4, KeyRequestHas DEF KeyKnows, KeyOps
      <4>2. g.key = k => Disturbed(k)  BY <4>1, <3>1, <2>2, <1>1, KeysApart DEF Disturbed
      <4>3. KeyKnows(g)'
        BY <3>2, <4>2, <1>1, <1>2, <1>3, <1>4, KeyKnowledgeStays
      <4> QED  BY <3>1, <4>3, <2>2, <1>3
    <3> QED  BY <3>3, <3>4
  <2> QED  BY <2>1, <2>2
<1>7. ASSUME NEW j \in WorkKeys PROVE KeyWell(j)'
  <2>1. Storing(j) => Storing(j)'
    <3> SUFFICES ASSUME NEW d \in Callers, request[d].op = "store", request[d].key = j
                 PROVE  Storing(j)'
      BY DEF Storing
    <3> QED  BY <1>1, <1>3 DEF Storing
  <2>2. Storing(k)'  BY <1>3, KeyRequestHas DEF Storing
  <2>3. CASE j # k
    <3>1. KeyWell(j) /\ done'[j] = done[j]  BY <2>3, <1>4 DEF OnceInv
    <3> QED  BY <3>1, <2>1, <1>1, <1>5 DEF KeyWell
  <2>4. CASE j = k  BY <2>2, <2>4, <1>1, <1>2, <1>4, <1>5 DEF KeyWell
  <2> QED  BY <2>3, <2>4
<1> QED  BY <1>1, <1>3, <1>4, <1>6, <1>7 DEF OnceInv, KeyRequests

LEMMA PersistKeeps ==
  ASSUME OnceInv, NEW c \in Callers, Persists(c) PROVE OnceInv'
<1> PICK k : k = request[c].key  OBVIOUS
<1>1. request[c].op = "persist" /\ GoesOn(c, "call") /\ UNCHANGED <<stored, done, torn>>
  BY DEF Persists, onceVars
<1>2. k \in WorkKeys /\ (Disturbed(k) \/ done[k] = 0)  BY <1>1, KeyOf
<1>3. /\ request' = [d \in Callers |-> request'[d]] /\ OneAtATime' /\ raced' = raced
      /\ request'[c] = KeyRequest("call", k)
      /\ \A d \in Callers : d # c => request'[d] = request[d]
  BY <1>1, GoingOnKeeps DEF KeyOps
<1>4. \A j \in WorkKeys : Disturbed(j)' <=> Disturbed(j)  BY <1>1, <1>3 DEF Disturbed
<1>5. ASSUME NEW d \in Callers PROVE KeyKnows(request[d])'
  <2>1. CASE d = c  BY <2>1, <1>1, <1>2, <1>3, <1>4 DEF KeyKnows, KeyOps
  <2>2. CASE d # c
    <3>1. PICK g : g = request[d]  OBVIOUS
    <3>2. KeyKnows(g)'
      BY <3>1, <1>1, <1>3, KeyKnowledgeStays DEF OnceInv, KeyRequests
    <3> QED  BY <3>1, <3>2, <2>2, <1>3
  <2> QED  BY <2>1, <2>2
<1>6. ASSUME NEW j \in WorkKeys PROVE KeyWell(j)'
  <2>1. Storing(j) => Storing(j)'  BY <1>1, <1>3 DEF Storing
  <2> QED  BY <2>1, <1>1, <1>4 DEF OnceInv, KeyWell
<1> QED  BY <1>1, <1>3, <1>5, <1>6 DEF OnceInv, KeyRequests

\* A request ends: with its key stored, or cut off.
LEMMA EndingKeeps ==
  ASSUME OnceInv, NEW c \in Callers, GatewayFails(c) \/ Stores(c) \/ Dies(c) PROVE OnceInv'
<1> PICK k : k = request[c].key  OBVIOUS
<1>1. Ends(c) /\ done' = done /\ stored \subseteq stored' /\ torn \subseteq torn'
  BY DEF GatewayFails, Stores, Dies, GivesUp, onceVars
<1>2. /\ request' = [d \in Callers |-> request'[d]] /\ OneAtATime' /\ raced' = raced
      /\ request'[c] = Idle /\ \A d \in Callers : d # c => request'[d] = request[d]
  BY <1>1, EndsOnce DEF OnceInv, KeyRequests
<1>3. \A j \in WorkKeys : Disturbed(j) => Disturbed(j)'  BY <1>1, <1>2 DEF Disturbed
<1>4. ASSUME NEW d \in Callers PROVE KeyKnows(request[d])'
  <2>1. CASE d = c  BY <2>1, <1>2 DEF KeyKnows
  <2>2. CASE d # c
    <3>1. PICK g : g = request[d]  OBVIOUS
    <3>2. KeyKnows(g)'
      BY <3>1, <1>1, <1>2, KeyKnowledgeStays DEF OnceInv, KeyRequests
    <3> QED  BY <3>1, <3>2, <2>2, <1>2
  <2> QED  BY <2>1, <2>2
<1>5. \A j : j \in stored' => j \in stored \/ (j = k /\ request[c].op = "store")
  BY DEF GatewayFails, Stores, Dies, onceVars
<1>6. request[c].op = "store" => k \in stored' \/ k \in torn'
  BY DEF GatewayFails, Stores, Dies
<1>7. ASSUME NEW j \in WorkKeys PROVE KeyWell(j)'
  <2>1. j \in stored' => done'[j] >= 1
    <3>1. CASE j \in stored  BY <3>1, <1>1 DEF OnceInv, KeyWell
    <3>2. CASE j = k /\ request[c].op = "store"  BY <3>2, <1>1, KeyOf
    <3> QED  BY <3>1, <3>2, <1>5
  <2>2. Storing(j) => Storing(j)' \/ j \in stored' \/ j \in torn'
    <3> SUFFICES ASSUME NEW d \in Callers, request[d].op = "store", request[d].key = j
                 PROVE  Storing(j)' \/ j \in stored' \/ j \in torn'
      BY DEF Storing
    <3>1. CASE d = c  BY <3>1, <1>6
    <3>2. CASE d # c  BY <3>2, <1>2 DEF Storing
    <3> QED  BY <3>1, <3>2
  <2> QED  BY <2>1, <2>2, <1>1, <1>3 DEF OnceInv, KeyWell, Disturbed
<1>8. stored' \subseteq WorkKeys  BY <1>5, KeyOf DEF OnceInv
<1> QED  BY <1>1, <1>2, <1>4, <1>7, <1>8 DEF OnceInv, KeyRequests

LEMMA OnceStep == ASSUME OnceInv, OnceNext PROVE OnceInv'
BY LookingUpKeeps, WorkKeeps, PersistKeeps, EndingKeeps DEF OnceNext

LEMMA OnceStarts == ASSUME OnceInit, HandlersInit PROVE OnceInv
<1> USE DEF OnceInit, HandlersInit
<1>1. \A c \in Callers : request[c] = Idle  OBVIOUS
<1>2. KeyRequests
  <2>1. request = [c \in Callers |-> request[c]]  OBVIOUS
  <2>2. OneAtATime  BY <1>1 DEF OneAtATime, Idle
  <2> QED  BY <1>1, <2>1, <2>2 DEF KeyRequests, KeyKnows
<1> QED  BY <1>2 DEF OnceInv, KeyWell

LEMMA OnceRests == ASSUME OnceInv, UNCHANGED <<onceVars, callers>> PROVE OnceInv'
<1>1. UNCHANGED <<stored, done, torn, request, raced>>  BY DEF onceVars, callers
<1>2. ASSUME NEW g, KeyKnows(g) PROVE KeyKnows(g)'
  BY <1>1, <1>2 DEF KeyKnows, Disturbed
<1>3. ASSUME NEW c \in Callers PROVE KeyKnows(request[c])'
  <2>1. PICK g : g = request[c]  OBVIOUS
  <2> QED  BY <2>1, <1>1, <1>2 DEF OnceInv, KeyRequests
<1>4. KeyRequests'  BY <1>1, <1>3 DEF OnceInv, KeyRequests, OneAtATime
<1> QED  BY <1>1, <1>4 DEF OnceInv, KeyWell, Disturbed, Storing

LEMMA KeysKept == ASSUME OnceInv PROVE KeysAgree
<1>1. ASSUME NEW k \in stored PROVE done[k] >= 1
  BY DEF OnceInv, KeyWell
<1>2. ASSUME NEW k \in WorkKeys PROVE Disturbed(k) \/ done[k] <= 1
  <2>1. KeyWell(k)  BY DEF OnceInv
  <2>2. Disturbed(k) \/ done[k] = 0 \/ done[k] = 1  BY <2>1 DEF KeyWell
  <2> QED  BY <2>2
<1> QED  BY <1>1, <1>2 DEF KeysAgree, Disturbed

-----------------------------------------------------------------------------
\* Invoices.

\* A request that bills knows a total the structure has had.
BillRequest(p, s, k, n) ==
    [op |-> "invoice", on |-> {}, pupil |-> p, structure |-> s, key |-> k, total |-> n]
BillKnows(g) ==
    g = Idle \/ \E p \in Payers, s \in Structures, k \in InvoiceKeys \cup {NoInvoiceKey}, n \in Nat :
        g = BillRequest(p, s, k, n) /\ n > 0 /\ n \in priced[s]
BillRequests == request = [c \in Callers |-> request[c]] /\ \A c \in Callers : BillKnows(request[c])

PricesInv ==
    /\ price = [s \in Structures |-> price[s]] /\ priced = [s \in Structures |-> priced[s]]
    /\ \A s \in Structures : price[s] # NoRow => price[s] \in Nat /\ price[s] \in priced[s]
\* Two invoices are told apart by student and structure, and by key.
BilledOnce ==
    \A v, w \in Created(invoice) :
        \/ v = w
        \/ /\ invoice[v].pupil # invoice[w].pupil \/ invoice[v].structure # invoice[w].structure
           /\ invoice[v].key # invoice[w].key \/ invoice[v].key = NoInvoiceKey
InvoiceRows ==
    /\ invoice = [v \in Invoices |-> invoice[v]]
    /\ \A v \in Created(invoice) :
          /\ invoice[v] \in InvoiceRow
          /\ invoice[v].total > 0 /\ invoice[v].total \in priced[invoice[v].structure]
AnswersInv ==
    /\ answers = [k \in InvoiceKeys |-> answers[k]]
    /\ \A k \in InvoiceKeys : answers[k] \subseteq Under(k)
BillingInv == BillRequests /\ PricesInv /\ InvoiceRows /\ BilledOnce /\ AnswersInv

\* What was a price stays one.
LEMMA PricesStay ==
  ASSUME BillRequests, InvoiceRows, UNCHANGED <<invoice, request>>,
         \A s \in Structures : priced[s] \subseteq priced'[s]
  PROVE  BillRequests' /\ InvoiceRows'
<1>1. ASSUME NEW c \in Callers PROVE BillKnows(request[c])'
  <2>1. PICK g : g = request[c]  OBVIOUS
  <2>2. BillKnows(g)'  BY <2>1 DEF BillRequests, BillKnows
  <2> QED  BY <2>1, <2>2
<1>2. InvoiceRows'
  <2> SUFFICES ASSUME NEW v \in Created(invoice)
               PROVE  invoice[v].total \in priced'[invoice[v].structure]
    BY DEF InvoiceRows, Created
  <2>1. invoice[v].structure \in Structures  BY DEF InvoiceRows, InvoiceRow
  <2> QED  BY <2>1 DEF InvoiceRows
<1> QED  BY <1>1, <1>2 DEF BillRequests

LEMMA ImportKeeps ==
  ASSUME BillingInv, NEW s \in Structures, NEW n \in 0..MaxPrice, ImportStructure(s, n)
  PROVE  BillingInv'
<1>1. /\ price' = [price EXCEPT ![s] = n] /\ priced' = [priced EXCEPT ![s] = @ \cup {n}]
      /\ UNCHANGED <<invoice, answers, request, raced>>
  BY DEF ImportStructure, callers
<1>2. n \in Nat  BY FeeDeskAssumption
<1>3. \A t \in Structures : priced[t] \subseteq priced'[t]  BY <1>1 DEF BillingInv, PricesInv
<1>4. PricesInv'
  <2>1. price' = [t \in Structures |-> price'[t]] /\ priced' = [t \in Structures |-> priced'[t]]
    BY <1>1 DEF BillingInv, PricesInv
  <2>2. ASSUME NEW t \in Structures, price'[t] # NoRow
        PROVE  price'[t] \in Nat /\ price'[t] \in priced'[t]
    <3>1. CASE t = s  BY <3>1, <1>1, <1>2 DEF BillingInv, PricesInv
    <3>2. CASE t # s  BY <3>2, <2>2, <1>1 DEF BillingInv, PricesInv
    <3> QED  BY <3>1, <3>2
  <2> QED  BY <2>1, <2>2 DEF PricesInv
<1>5. BillRequests' /\ InvoiceRows'  BY <1>1, <1>3, PricesStay DEF BillingInv
<1>6. BilledOnce' /\ AnswersInv'
  BY <1>1 DEF BillingInv, BilledOnce, AnswersInv, Created, Under
<1> QED  BY <1>4, <1>5, <1>6 DEF BillingInv

LEMMA ReplayKeeps ==
  ASSUME BillingInv, NEW k \in InvoiceKeys, NEW v \in Invoices, ReplayInvoice(k, v)
  PROVE  BillingInv'
<1>1. /\ v \in Under(k) /\ answers' = [answers EXCEPT ![k] = @ \cup {v}]
      /\ UNCHANGED <<price, priced, invoice, request, raced>>
  BY FeeDeskAssumption DEF ReplayInvoice, Answered, callers
<1>2. AnswersInv'
  <2>1. answers' = [j \in InvoiceKeys |-> answers'[j]]  BY <1>1 DEF BillingInv, AnswersInv
  <2>2. ASSUME NEW j \in InvoiceKeys PROVE answers'[j] \subseteq Under(j)
    BY <1>1 DEF BillingInv, AnswersInv
  <2>3. \A j : Under(j)' = Under(j)  BY <1>1 DEF Under, Created
  <2> QED  BY <2>1, <2>2, <2>3 DEF AnswersInv
<1>3. BillRequests' /\ InvoiceRows'  BY <1>1, PricesStay DEF BillingInv
<1>4. PricesInv' /\ BilledOnce'  BY <1>1 DEF BillingInv, PricesInv, BilledOnce, Created
<1> QED  BY <1>2, <1>3, <1>4 DEF BillingInv

\* A request reads, or ends: only the request changes.
LEMMA BillsRest ==
  ASSUME BillingInv, UNCHANGED billing, NEW c \in Callers, NEW g,
         BillKnows(g), request' = [request EXCEPT ![c] = g]
  PROVE  BillingInv'
<1>1. UNCHANGED <<price, priced, invoice, answers>>  BY DEF billing
<1>2. BillRequests'
  <2>1. request' = [d \in Callers |-> request'[d]]  BY DEF BillingInv, BillRequests
  <2>2. ASSUME NEW d \in Callers PROVE BillKnows(request[d])'
    <3>1. PICK h : h = request'[d]  OBVIOUS
    <3>2. BillKnows(h)  BY <3>1 DEF BillingInv, BillRequests
    <3>3. BillKnows(h)'  BY <3>2, <1>1 DEF BillKnows
    <3> QED  BY <3>1, <3>3
  <2> QED  BY <2>1, <2>2 DEF BillRequests
<1>3. PricesInv' /\ BilledOnce' /\ InvoiceRows' /\ AnswersInv'
  BY <1>1 DEF BillingInv, PricesInv, BilledOnce, InvoiceRows, AnswersInv, Created, Under
<1> QED  BY <1>2, <1>3 DEF BillingInv

LEMMA BillReadsKeep ==
  ASSUME BillingInv, NEW c \in Callers, NEW p \in Payers, NEW s \in Structures,
         NEW k \in InvoiceKeys \cup {NoInvoiceKey}, ReadForInvoice(c, p, s, k)
  PROVE  BillingInv'
<1> PICK g : g = BillRequest(p, s, k, price[s])  OBVIOUS
<1>1. /\ price[s] # NoRow /\ price[s] > 0 /\ UNCHANGED billing
      /\ request' = [request EXCEPT ![c] = g]
  BY DEF ReadForInvoice, Reads, BillRequest
<1>2. price[s] \in Nat /\ price[s] \in priced[s]  BY <1>1 DEF BillingInv, PricesInv
<1>3. BillKnows(g)  BY <1>1, <1>2 DEF BillKnows
<1> QED  BY <1>1, <1>3, BillsRest

LEMMA BillEndsKeep ==
  ASSUME BillingInv, NEW c \in Callers, GivesUp(c), UNCHANGED billing PROVE BillingInv'
<1>1. request' = [request EXCEPT ![c] = Idle]  BY DEF GivesUp, Ends
<1>2. BillKnows(Idle)  BY DEF BillKnows
<1> QED  BY <1>1, <1>2, BillsRest

LEMMA BillKeeps ==
  ASSUME BillingInv, NEW c \in Callers, NEW v \in Invoices, CreateInvoice(c, v)
  PROVE  BillingInv'
<1>1. request[c] # Idle  BY DEF CreateInvoice, Idle
<1>2. PICK p \in Payers, s \in Structures, k \in InvoiceKeys \cup {NoInvoiceKey}, n \in Nat :
        request[c] = BillRequest(p, s, k, n) /\ n > 0 /\ n \in priced[s]
  BY <1>1 DEF BillingInv, BillRequests, BillKnows
<1> PICK row : row = [pupil |-> p, structure |-> s, key |-> k, total |-> n]  OBVIOUS
<1>3. /\ row.pupil = p /\ row.structure = s /\ row.key = k /\ row.total = n
      /\ row \in InvoiceRow /\ row # NoRow
  BY FeeDeskAssumption DEF InvoiceRow
<1>4. /\ invoice[v] = NoRow /\ BilledFor(p, s) = {} /\ Under(k) = {}
      /\ invoice' = [invoice EXCEPT ![v] = row] /\ answers' = Answered(k, v)
      /\ UNCHANGED <<price, priced>> /\ Ends(c)
  <2>1. /\ request[c].pupil = p /\ request[c].structure = s /\ request[c].key = k
        /\ request[c].total = n
    BY <1>2 DEF BillRequest
  <2> QED  BY <2>1 DEF CreateInvoice, Unbilled
<1>5. /\ invoice' = [w \in Invoices |-> invoice'[w]] /\ invoice'[v] = row
      /\ \A w \in Invoices : w # v => invoice'[w] = invoice[w]
      /\ Created(invoice) \subseteq Invoices /\ v \notin Created(invoice)
      /\ Created(invoice') = Created(invoice) \cup {v}
  BY <1>3, <1>4 DEF BillingInv, InvoiceRows, Created
<1>6. InvoiceRows'
  <2> SUFFICES ASSUME NEW w \in Created(invoice')
               PROVE  /\ invoice'[w] \in InvoiceRow
                      /\ invoice'[w].total > 0 /\ invoice'[w].total \in priced[invoice'[w].structure]
    BY <1>4, <1>5 DEF InvoiceRows
  <2>1. CASE w = v  BY <2>1, <1>2, <1>3, <1>5
  <2>2. CASE w # v  BY <2>2, <1>5 DEF BillingInv, InvoiceRows
  <2> QED  BY <2>1, <2>2
<1>7. ASSUME NEW w \in Created(invoice)
      PROVE  /\ invoice[w].pupil # p \/ invoice[w].structure # s
             /\ invoice[w].key # k \/ k = NoInvoiceKey
  BY <1>4 DEF BilledFor, Under
<1>8. BilledOnce'
  <2> SUFFICES ASSUME NEW x \in Created(invoice'), NEW y \in Created(invoice'), x # y
               PROVE  /\ \/ invoice'[x].pupil # invoice'[y].pupil
                         \/ invoice'[x].structure # invoice'[y].structure
                      /\ invoice'[x].key # invoice'[y].key \/ invoice'[x].key = NoInvoiceKey
    BY DEF BilledOnce
  <2>1. CASE x # v /\ y # v  BY <2>1, <1>5 DEF BillingInv, BilledOnce
  <2>2. CASE x = v  BY <2>2, <1>3, <1>5, <1>7
  <2>3. CASE y = v  BY <2>3, <1>3, <1>5, <1>7
  <2> QED  BY <2>1, <2>2, <2>3
<1>9. AnswersInv'
  <2>1. \A j \in InvoiceKeys : Under(j) \subseteq Under(j)'  BY <1>5 DEF Under
  <2>2. k # NoInvoiceKey => v \in Under(k)'  BY <1>3, <1>5 DEF Under
  <2>3. CASE k = NoInvoiceKey
    BY <2>1, <2>3, <1>4 DEF BillingInv, AnswersInv, Answered
  <2>4. CASE k # NoInvoiceKey
    <3>1. answers' = [answers EXCEPT ![k] = @ \cup {v}]  BY <2>4, <1>4 DEF Answered
    <3> QED  BY <2>1, <2>2, <2>4, <3>1 DEF BillingInv, AnswersInv
  <2> QED  BY <2>3, <2>4
<1>10. BillRequests'
  <2>1. request' = [request EXCEPT ![c] = Idle]  BY <1>4 DEF Ends
  <2>2. request' = [d \in Callers |-> request'[d]]  BY <2>1 DEF BillingInv, BillRequests
  <2>3. ASSUME NEW d \in Callers PROVE BillKnows(request[d])'
    <3>1. PICK h : h = request'[d]  OBVIOUS
    <3>2. BillKnows(h)  BY <3>1, <2>1 DEF BillingInv, BillRequests, BillKnows
    <3>3. BillKnows(h)'  BY <3>2, <1>4 DEF BillKnows
    <3> QED  BY <3>1, <3>3
  <2> QED  BY <2>2, <2>3 DEF BillRequests
<1>11. PricesInv'  BY <1>4 DEF BillingInv, PricesInv
<1> QED  BY <1>6, <1>8, <1>9, <1>10, <1>11 DEF BillingInv

LEMMA BillingStep == ASSUME BillingInv, FeeDeskNext PROVE BillingInv'
BY ImportKeeps, ReplayKeeps, BillReadsKeep, BillKeeps, BillEndsKeep DEF FeeDeskNext

LEMMA BillingStarts == ASSUME FeeDeskInit, HandlersInit PROVE BillingInv
<1> USE DEF FeeDeskInit, HandlersInit
<1>1. BillRequests  BY DEF BillRequests, BillKnows
<1>2. PricesInv  BY DEF PricesInv
<1>3. InvoiceRows /\ BilledOnce  BY DEF InvoiceRows, BilledOnce, Created
<1>4. AnswersInv  BY DEF AnswersInv
<1> QED  BY <1>1, <1>2, <1>3, <1>4 DEF BillingInv

LEMMA InvoicesKept ==
  ASSUME PricesInv, InvoiceRows, BilledOnce, AnswersInv PROVE InvoicesAgree
<1>1. ASSUME NEW p \in Payers, NEW s \in Structures PROVE Cardinality(BilledFor(p, s)) <= 1
  <2>1. \A v, w \in BilledFor(p, s) : v = w  BY DEF BilledFor, BilledOnce
  <2> QED  BY <2>1, AtMostOne
<1>2. ASSUME NEW k \in InvoiceKeys
      PROVE  Cardinality(answers[k]) <= 1 /\ answers[k] \subseteq Under(k)
  <2>1. answers[k] \subseteq Under(k)  BY DEF AnswersInv
  <2>2. \A v, w \in Under(k) : v = w  BY DEF Under, BilledOnce
  <2> QED  BY <2>1, <2>2, AtMostOne
<1> QED  BY <1>1, <1>2 DEF InvoicesAgree, InvoiceRows

-----------------------------------------------------------------------------
\* Messages and sent invitations.

MessagesTypeOK ==
    /\ thread \in [Pairs -> ThreadRow \cup {NoRow}]
    /\ message \in [Messages -> MessageRow \cup {NoRow}] /\ IsFiniteSet(Created(message))
    /\ notice \in [Notices -> NoticeRow \cup {NoRow}]
    /\ resends \in [Notices -> Nat] /\ wasSent \subseteq Created(notice)

\* A request knows the unread count it read, and one that is about to mark messages has found
\* those that are not read.
OnThread(g) == g.op \in {"send", "mark", "zero"}
CountedSide(g) == IF g.op = "send" THEN Other(g.side) ELSE g.side
ThreadKnows(g) ==
    OnThread(g) =>
        /\ g.pair \in Pairs /\ g.side \in Sides /\ g.seen \in Nat
        /\ thread[g.pair] # NoRow /\ <<"thread", g.pair>> \in g.on
        /\ g.op = "zero" =>
              \A m \in g.found : /\ m \in Created(message)
                                 /\ message[m].pair = g.pair /\ message[m].from # g.side
        /\ \/ <<"thread", g.pair>> \in raced
           \/ /\ g.seen = thread[g.pair][CountedSide(g)]
              /\ g.op = "zero" => Unread(g.pair, g.side) \subseteq g.found
\* What a notice is until it is sent.
Waits(channel) == IF channel = "manual" THEN "manual_pending" ELSE "queued"
NoticeKnows(g) ==
    g.op = "requeue" =>
        /\ g.notice \in Created(notice) /\ <<"notice", g.notice>> \in g.on
        /\ g.seen \in NoticeRow /\ g.seen.status = Waits(g.seen.channel)
        /\ g.seen.retries <= resends[g.notice]
        /\ <<"notice", g.notice>> \in raced \/ g.seen.retries = notice[g.notice].retries
MessageRequests ==
    /\ request = [c \in Callers |-> request[c]] /\ OneAtATime
    /\ \A c \in Callers : ThreadKnows(request[c]) /\ NoticeKnows(request[c])

\* Counts are exact unless raced, and nobody wrote in a thread that is not open.
Exact(p) == \A s \in Sides : thread[p][s] = Cardinality(Unread(p, s))
ThreadsInv ==
    /\ \A m \in Created(message) : thread[message[m].pair] # NoRow
    /\ \A p \in Pairs : thread[p] # NoRow => <<"thread", p>> \in raced \/ Exact(p)
NoticeWell(o) ==
    /\ notice[o].status \in {"sent", Waits(notice[o].channel)}
    /\ o \in wasSent => notice[o].status = "sent"
    /\ notice[o].retries <= resends[o]
    /\ <<"notice", o>> \in raced \/ notice[o].retries = resends[o]
NoticesInv ==
    \A o \in Notices : IF notice[o] = NoRow THEN resends[o] = 0 ELSE NoticeWell(o)
MessagesInv == MessagesTypeOK /\ MessageRequests /\ ThreadsInv /\ NoticesInv

LEMMA TheOther ==
  /\ Other("teacher") = "parent" /\ Other("parent") = "teacher"
  /\ \A s \in Sides : Other(s) \in Sides /\ Other(s) # s
  /\ \A s, t \in Sides : t # s => t = Other(s)
<1>1. \E s \in Sides : s # "teacher"  BY DEF Sides
<1>2. \E s \in Sides : s # "parent"  BY DEF Sides
<1>3. Other("teacher") = "parent"  BY <1>1 DEF Other, Sides
<1>4. Other("parent") = "teacher"  BY <1>2 DEF Other, Sides
<1> QED  BY <1>3, <1>4 DEF Sides

\* What a request knows, while threads only open and messages are only added.
LEMMA ThreadKnowledgeStays ==
  ASSUME NEW g, ThreadKnows(g), raced \subseteq raced',
         \A q \in Pairs : thread[q] # NoRow => thread'[q] # NoRow,
         \A m \in Created(message) : /\ m \in Created(message')
                                     /\ message'[m].pair = message[m].pair
                                     /\ message'[m].from = message[m].from,
         OnThread(g) =>
             \/ <<"thread", g.pair>> \in raced'
             \/ /\ thread'[g.pair] = thread[g.pair]
                /\ g.op = "zero" => Unread(g.pair, g.side)' \subseteq Unread(g.pair, g.side)
  PROVE  ThreadKnows(g)'
<1> SUFFICES ASSUME OnThread(g) PROVE ThreadKnows(g)'  BY DEF ThreadKnows, OnThread
<1>1. /\ g.pair \in Pairs /\ g.side \in Sides /\ g.seen \in Nat
      /\ thread'[g.pair] # NoRow /\ <<"thread", g.pair>> \in g.on
  BY DEF ThreadKnows
<1>2. g.op = "zero" =>
          \A m \in g.found : /\ m \in Created(message')
                             /\ message'[m].pair = g.pair /\ message'[m].from # g.side
  BY DEF ThreadKnows
<1>3. CASE <<"thread", g.pair>> \in raced'  BY <1>1, <1>2, <1>3 DEF ThreadKnows
<1>4. CASE <<"thread", g.pair>> \notin raced'
  <2>1. g.seen = thread[g.pair][CountedSide(g)] /\ thread'[g.pair] = thread[g.pair]
    BY <1>4 DEF ThreadKnows
  <2>2. g.op = "zero" => Unread(g.pair, g.side)' \subseteq g.found  BY <1>4 DEF ThreadKnows
  <2>3. g.seen = thread'[g.pair][CountedSide(g)] /\ CountedSide(g)' = CountedSide(g)
    BY <2>1 DEF CountedSide
  <2> QED  BY <1>1, <1>2, <2>2, <2>3 DEF ThreadKnows
<1> QED  BY <1>3, <1>4

LEMMA ThreadsRest ==
  ASSUME UNCHANGED messaging, raced \subseteq raced'
  PROVE  /\ \A g : ThreadKnows(g) => ThreadKnows(g)'
         /\ ThreadsInv => ThreadsInv'
<1>1. UNCHANGED <<thread, message>>  BY DEF messaging
<1>2. \A p, s : Unread(p, s)' = Unread(p, s)  BY <1>1 DEF Unread, Created
<1>3. ASSUME NEW g, ThreadKnows(g) PROVE ThreadKnows(g)'
  BY <1>1, <1>2, <1>3 DEF ThreadKnows, CountedSide, OnThread, Created
<1>4. ThreadsInv => ThreadsInv'  BY <1>1, <1>2 DEF ThreadsInv, Exact, Created
<1> QED  BY <1>3, <1>4

LEMMA NoticesRest ==
  ASSUME UNCHANGED invitationOutbox, raced \subseteq raced'
  PROVE  /\ \A g : NoticeKnows(g) => NoticeKnows(g)'
         /\ NoticesInv => NoticesInv'
<1>1. UNCHANGED <<notice, resends, wasSent>>  BY DEF invitationOutbox
<1>2. ASSUME NEW g, NoticeKnows(g) PROVE NoticeKnows(g)'  BY <1>1, <1>2 DEF NoticeKnows, Created
<1>3. NoticesInv => NoticesInv'  BY <1>1 DEF NoticesInv, NoticeWell, Created
<1> QED  BY <1>2, <1>3

LEMMA MessageRowsRest ==
  ASSUME MessagesTypeOK, UNCHANGED <<messaging, invitationOutbox>> PROVE MessagesTypeOK'
<1>1. UNCHANGED <<thread, message, notice, resends, wasSent>>
  BY DEF messaging, invitationOutbox
<1> QED  BY <1>1 DEF MessagesTypeOK, Created

\* A request that only reads, goes on, or ends has to know what it then says.
LEMMA MessageReadsKeep ==
  ASSUME MessagesInv, NEW c \in Callers, UNCHANGED <<messaging, invitationOutbox>>,
         raced \subseteq raced', OneAtATime', request' = [d \in Callers |-> request'[d]],
         \A d \in Callers : d # c => request'[d] = request[d],
         ThreadKnows(request[c])', NoticeKnows(request[c])'
  PROVE  MessagesInv'
<1>1. UNCHANGED messaging /\ UNCHANGED invitationOutbox  OBVIOUS
<1>2. ASSUME NEW d \in Callers PROVE ThreadKnows(request[d])' /\ NoticeKnows(request[d])'
  <2>1. CASE d = c  BY <2>1
  <2>2. CASE d # c
    <3>1. PICK g : g = request[d]  OBVIOUS
    <3>2. ThreadKnows(g) /\ NoticeKnows(g)  BY <3>1 DEF MessagesInv, MessageRequests
    <3>3. ThreadKnows(g)' /\ NoticeKnows(g)'  BY <3>2, <1>1, ThreadsRest, NoticesRest
    <3> QED  BY <3>1, <3>3, <2>2
  <2> QED  BY <2>1, <2>2
<1> QED
  BY <1>1, <1>2, ThreadsRest, NoticesRest, MessageRowsRest DEF MessagesInv, MessageRequests

LEMMA NothingKnown ==
  ASSUME NEW g, g.op \notin {"send", "mark", "zero"}, g.op # "requeue"
  PROVE  ThreadKnows(g) /\ NoticeKnows(g)
BY DEF ThreadKnows, NoticeKnows, OnThread

LEMMA MessageGivingUpKeeps ==
  ASSUME MessagesInv, NEW c \in Callers, GivesUp(c), UNCHANGED <<messaging, invitationOutbox>>
  PROVE  MessagesInv'
<1>1. /\ request' = [d \in Callers |-> request'[d]] /\ OneAtATime' /\ raced' = raced
      /\ request'[c] = Idle /\ \A d \in Callers : d # c => request'[d] = request[d]
  BY EndsOnce DEF MessagesInv, MessageRequests, GivesUp
<1>2. ThreadKnows(request[c])' /\ NoticeKnows(request[c])'
  BY <1>1 DEF ThreadKnows, NoticeKnows, OnThread, Idle
<1> QED  BY <1>1, <1>2, MessageReadsKeep

LEMMA ReadingAThreadKeeps ==
  ASSUME MessagesInv, NEW c \in Callers, NEW p \in Pairs, NEW s \in Sides,
         ReadForSend(c, p, s) \/ ReadForMark(c, p, s), UNCHANGED invitationOutbox
  PROVE  MessagesInv'
<1> PICK op \in {"send", "mark"}, t \in Sides :
        /\ t = IF op = "send" THEN Other(s) ELSE s
        /\ Reads(c, [op |-> op, on |-> {<<"thread", p>>}, pair |-> p, side |-> s,
                     seen |-> thread[p][t]])
        /\ thread[p] # NoRow /\ UNCHANGED messaging
  BY TheOther DEF ReadForSend, ReadForMark
<1> PICK req : req = [op |-> op, on |-> {<<"thread", p>>}, pair |-> p, side |-> s,
                      seen |-> thread[p][t]]
  OBVIOUS
<1>1. /\ request' = [d \in Callers |-> request'[d]] /\ OneAtATime' /\ raced \subseteq raced'
      /\ request'[c] = req /\ \A d \in Callers : d # c => request'[d] = request[d]
  BY ReadsOnce DEF MessagesInv, MessageRequests
<1>2. /\ req.op = op /\ req.on = {<<"thread", p>>} /\ req.pair = p /\ req.side = s
      /\ req.seen = thread[p][t] /\ CountedSide(req) = t
  BY DEF CountedSide
<1>3. thread[p][t] \in Nat  BY DEF MessagesInv, MessagesTypeOK, ThreadRow
<1>4. UNCHANGED <<thread, message>>  BY DEF messaging
<1>5. ThreadKnows(req)
  BY <1>2, <1>3 DEF ThreadKnows, OnThread
<1>6. ThreadKnows(req)'  BY <1>1, <1>5, ThreadsRest
<1>7. NoticeKnows(req)'  BY <1>2 DEF NoticeKnows
<1> QED  BY <1>1, <1>6, <1>7, MessageReadsKeep

LEMMA FindingUnreadKeeps ==
  ASSUME MessagesInv, NEW c \in Callers, FindUnread(c), UNCHANGED invitationOutbox
  PROVE  MessagesInv'
<1> PICK g : g = request[c]  OBVIOUS
<1> PICK req : req = [op |-> "zero", on |-> g.on, pair |-> g.pair, side |-> g.side,
                      seen |-> g.seen, found |-> Unread(g.pair, g.side)]
  OBVIOUS
<1>1. g.op = "mark" /\ request' = [request EXCEPT ![c] = req] /\ raced' = raced
      /\ UNCHANGED messaging
  BY DEF FindUnread
<1>2. /\ req.op = "zero" /\ req.on = g.on /\ req.pair = g.pair /\ req.side = g.side
      /\ req.seen = g.seen /\ req.found = Unread(g.pair, g.side)
  OBVIOUS
<1>3. /\ request' = [d \in Callers |-> request'[d]] /\ OneAtATime'
      /\ request'[c] = req /\ \A d \in Callers : d # c => request'[d] = request[d]
  BY <1>1, <1>2, GoesOnOnce DEF MessagesInv, MessageRequests
<1>4. ThreadKnows(g)  BY DEF MessagesInv, MessageRequests
<1>5. ThreadKnows(req)
  <2>1. CountedSide(req) = CountedSide(g)  BY <1>1, <1>2 DEF CountedSide
  <2>2. \A m \in req.found : /\ m \in Created(message)
                             /\ message[m].pair = req.pair /\ message[m].from # req.side
    BY <1>2 DEF Unread
  <2> QED  BY <1>1, <1>2, <1>4, <2>1, <2>2 DEF ThreadKnows, OnThread
<1>6. ThreadKnows(req)'  BY <1>1, <1>5, ThreadsRest
<1>7. NoticeKnows(req)'  BY <1>2 DEF NoticeKnows
<1> QED  BY <1>1, <1>3, <1>6, <1>7, MessageReadsKeep

LEMMA OpeningKeeps ==
  ASSUME MessagesInv, NEW p \in Pairs, OpenThread(p), UNCHANGED invitationOutbox
  PROVE  MessagesInv'
<1> PICK row : row = [s \in Sides |-> 0]  OBVIOUS
<1>1. /\ thread[p] = NoRow /\ thread' = [thread EXCEPT ![p] = row]
      /\ UNCHANGED <<message, request, raced>>
  BY DEF OpenThread, callers
<1>2. row \in ThreadRow /\ row # NoRow  BY MessageDeskAssumption DEF ThreadRow
<1>3. MessagesTypeOK'
  BY <1>1, <1>2 DEF MessagesInv, MessagesTypeOK, Created, invitationOutbox
<1>4. \A q, s : Unread(q, s)' = Unread(q, s)  BY <1>1 DEF Unread, Created
<1>5. /\ thread'[p] = row /\ \A q \in Pairs : q # p => thread'[q] = thread[q]
      /\ Created(message') = Created(message)
  BY <1>1 DEF MessagesInv, MessagesTypeOK
<1>6. ASSUME NEW c \in Callers PROVE ThreadKnows(request[c])' /\ NoticeKnows(request[c])'
  <2>1. PICK g : g = request[c]  OBVIOUS
  <2>2. ThreadKnows(g) /\ NoticeKnows(g)  BY <2>1 DEF MessagesInv, MessageRequests
  <2>3. OnThread(g) => g.pair # p /\ g.pair \in Pairs  BY <2>2, <1>1 DEF ThreadKnows
  <2>4. OnThread(g) => thread'[g.pair] = thread[g.pair]  BY <2>3, <1>5
  <2>5. \A q \in Pairs : thread[q] # NoRow => thread'[q] # NoRow  BY <1>1, <1>5
  <2>6. ThreadKnows(g)'
    BY <2>2, <2>4, <2>5, <1>1, <1>4, <1>5, ThreadKnowledgeStays
  <2>7. NoticeKnows(g)'  BY <2>2, <1>1, NoticesRest
  <2> QED  BY <2>1, <2>6, <2>7, <1>1
<1>7. MessageRequests'
  BY <1>1, <1>6 DEF MessagesInv, MessageRequests, OneAtATime
<1>8. ThreadsInv'
  <2>1. \A m \in Created(message') : thread'[message'[m].pair] # NoRow
    <3> SUFFICES ASSUME NEW m \in Created(message) PROVE thread'[message[m].pair] # NoRow
      BY <1>1, <1>5
    <3>1. message[m].pair \in Pairs
      BY DEF MessagesInv, MessagesTypeOK, MessageRow, Created
    <3> QED  BY <3>1, <1>1, <1>5 DEF MessagesInv, ThreadsInv
  <2>2. ASSUME NEW q \in Pairs, thread'[q] # NoRow
        PROVE  <<"thread", q>> \in raced' \/ Exact(q)'
    <3>1. CASE q = p
      <4>1. \A s : Unread(p, s) = {}  BY <1>1 DEF Unread, MessagesInv, ThreadsInv
      <4>2. \A s \in Sides : thread'[p][s] = 0  BY <1>5
      <4>3. \A s \in Sides : Cardinality(Unread(p, s)') = 0  BY <4>1, <1>4, FS_EmptySet
      <4> QED  BY <3>1, <4>2, <4>3 DEF Exact
    <3>2. CASE q # p
      BY <3>2, <2>2, <1>1, <1>4, <1>5 DEF MessagesInv, ThreadsInv, Exact
    <3> QED  BY <3>1, <3>2
  <2> QED  BY <2>1, <2>2 DEF ThreadsInv
<1>9. NoticesInv'  BY <1>1, NoticesRest DEF MessagesInv
<1> QED  BY <1>3, <1>7, <1>8, <1>9 DEF MessagesInv

\* Two requests on a thread have it in raced.
LEMMA ThreadsApart ==
  ASSUME MessagesInv, NEW c \in Callers, NEW d \in Callers, c # d,
         OnThread(request[c]), OnThread(request[d]), request[c].pair = request[d].pair
  PROVE  <<"thread", request[c].pair>> \in raced
<1>1. \A e \in Callers : OnThread(request[e]) => <<"thread", request[e].pair>> \in request[e].on
  BY DEF MessagesInv, MessageRequests, ThreadKnows
<1> QED  BY <1>1 DEF MessagesInv, MessageRequests, OneAtATime

\* A request that writes to its thread ends, and nobody else is misled.
LEMMA ThreadWritersEnd ==
  ASSUME MessagesInv, NEW c \in Callers, OnThread(request[c]), Ends(c),
         UNCHANGED invitationOutbox,
         \A q \in Pairs : thread[q] # NoRow => thread'[q] # NoRow,
         \A q \in Pairs : q # request[c].pair => thread'[q] = thread[q],
         \A m \in Created(message) : /\ m \in Created(message')
                                     /\ message'[m].pair = message[m].pair
                                     /\ message'[m].from = message[m].from,
         \A q \in Pairs : q # request[c].pair => \A s \in Sides : Unread(q, s)' = Unread(q, s)
  PROVE  MessageRequests' /\ NoticesInv' /\ raced' = raced
<1>1. /\ request' = [d \in Callers |-> request'[d]] /\ OneAtATime' /\ raced' = raced
      /\ request'[c] = Idle /\ \A d \in Callers : d # c => request'[d] = request[d]
  BY EndsOnce DEF MessagesInv, MessageRequests
<1>2. ASSUME NEW d \in Callers PROVE ThreadKnows(request[d])' /\ NoticeKnows(request[d])'
  <2>1. CASE d = c
    BY <2>1, <1>1 DEF ThreadKnows, NoticeKnows, OnThread, Idle
  <2>2. CASE d # c
    <3>1. PICK g : g = request[d]  OBVIOUS
    <3>2. ThreadKnows(g) /\ NoticeKnows(g)  BY <3>1 DEF MessagesInv, MessageRequests
    <3>3. OnThread(g) /\ g.pair = request[c].pair => <<"thread", g.pair>> \in raced
      BY <3>1, <2>2, ThreadsApart
    <3>4. OnThread(g) => g.pair \in Pairs /\ g.side \in Sides  BY <3>2 DEF ThreadKnows
    <3>5. OnThread(g) =>
             \/ <<"thread", g.pair>> \in raced'
             \/ /\ thread'[g.pair] = thread[g.pair]
                /\ g.op = "zero" => Unread(g.pair, g.side)' \subseteq Unread(g.pair, g.side)
      BY <3>3, <3>4, <1>1
    <3>6. ThreadKnows(g)'  BY <3>2, <3>5, <1>1, ThreadKnowledgeStays
    <3>7. NoticeKnows(g)'  BY <3>2, <1>1, NoticesRest
    <3> QED  BY <3>1, <3>6, <3>7, <2>2, <1>1
  <2> QED  BY <2>1, <2>2
<1>3. MessageRequests'  BY <1>1, <1>2 DEF MessageRequests
<1> QED  BY <1>1, <1>3, NoticesRest DEF MessagesInv
LEMMA SendingKeeps ==
  ASSUME MessagesInv, NEW c \in Callers, NEW m \in Messages, SendMessage(c, m),
         UNCHANGED invitationOutbox
  PROVE  MessagesInv'
<1> PICK g : g = request[c]  OBVIOUS
<1> PICK p, s, t : p = g.pair /\ s = g.side /\ t = Other(g.side)  OBVIOUS
<1> PICK row : row = [pair |-> p, from |-> s, read |-> FALSE]  OBVIOUS
<1>1. /\ g.op = "send" /\ message[m] = NoRow /\ Ends(c)
      /\ message' = [message EXCEPT ![m] = row]
      /\ thread' = [thread EXCEPT ![p][t] = g.seen + 1]
  BY DEF SendMessage
<1>2. /\ p \in Pairs /\ s \in Sides /\ g.seen \in Nat /\ thread[p] # NoRow
      /\ <<"thread", p>> \in raced \/ g.seen = thread[p][t]
  BY <1>1 DEF MessagesInv, MessageRequests, ThreadKnows, OnThread, CountedSide
<1>3. t \in Sides /\ t # s /\ \A x \in Sides : x # s => x = t  BY <1>2, TheOther
<1>4. row \in MessageRow /\ row # NoRow /\ row.pair = p /\ row.from = s /\ ~row.read
  <2>1. row.pair = p /\ row.from = s /\ ~row.read  OBVIOUS
  <2>2. row \in MessageRow  BY <1>2 DEF MessageRow
  <2> QED  BY <2>1, <2>2, MessageDeskAssumption
<1>5. /\ message' \in [Messages -> MessageRow \cup {NoRow}]
      /\ message'[m] = row /\ \A n \in Messages : n # m => message'[n] = message[n]
      /\ Created(message') = Created(message) \cup {m} /\ m \notin Created(message)
      /\ Created(message) \subseteq Messages /\ IsFiniteSet(Created(message))
  BY <1>1, <1>4 DEF MessagesInv, MessagesTypeOK, Created
<1>6. /\ thread[p] \in ThreadRow /\ thread'[p] = [thread[p] EXCEPT ![t] = g.seen + 1]
      /\ thread' = [q \in Pairs |-> thread'[q]]
      /\ \A q \in Pairs : q # p => thread'[q] = thread[q]
  BY <1>1, <1>2 DEF MessagesInv, MessagesTypeOK
<1>7. /\ thread'[p] \in ThreadRow /\ thread'[p] # NoRow /\ thread'[p][t] = g.seen + 1
      /\ thread'[p][s] = thread[p][s]
  BY <1>2, <1>3, <1>6, MessageDeskAssumption DEF ThreadRow
<1>8. MessagesTypeOK'
  <2>1. thread' \in [Pairs -> ThreadRow \cup {NoRow}]
    <3>1. \A q \in Pairs : thread'[q] \in ThreadRow \cup {NoRow}
      BY <1>6, <1>7 DEF MessagesInv, MessagesTypeOK
    <3> QED  BY <3>1, <1>6
  <2>2. IsFiniteSet(Created(message'))  BY <1>5, FS_AddElement
  <2> QED
    BY <2>1, <2>2, <1>5 DEF MessagesInv, MessagesTypeOK, Created, invitationOutbox
<1>9. \A q \in Pairs, x \in Sides :
          Unread(q, x)' = IF q = p /\ x = t THEN Unread(q, x) \cup {m} ELSE Unread(q, x)
  BY <1>3, <1>4, <1>5 DEF Unread
<1>10. MessageRequests' /\ NoticesInv' /\ raced' = raced
  <2>1. OnThread(request[c]) /\ request[c].pair = p  BY <1>1 DEF OnThread
  <2>2. \A n \in Created(message) : /\ n \in Created(message')
                                    /\ message'[n].pair = message[n].pair
                                    /\ message'[n].from = message[n].from
    BY <1>5
  <2>3. \A q \in Pairs : thread[q] # NoRow => thread'[q] # NoRow  BY <1>6, <1>7
  <2>4. \A q \in Pairs : q # p => \A x \in Sides : Unread(q, x)' = Unread(q, x)  BY <1>9
  <2> QED  BY <2>1, <2>2, <2>3, <2>4, <1>1, <1>6, ThreadWritersEnd
<1>11. ThreadsInv'
  <2>1. \A n \in Created(message') : thread'[message'[n].pair] # NoRow
    <3>1. \A n \in Created(message) : message[n].pair \in Pairs
      BY DEF MessagesInv, MessagesTypeOK, MessageRow, Created
    <3> QED  BY <3>1, <1>4, <1>5, <1>6, <1>7 DEF MessagesInv, ThreadsInv
  <2>2. ASSUME NEW q \in Pairs, thread'[q] # NoRow, <<"thread", q>> \notin raced'
        PROVE  Exact(q)'
    <3>1. thread[q] # NoRow  BY <2>2, <1>2, <1>6
    <3>2. Exact(q)  BY <2>2, <3>1, <1>10 DEF MessagesInv, ThreadsInv
    <3>3. CASE q # p  BY <3>2, <3>3, <1>6, <1>9 DEF Exact
    <3>4. CASE q = p
      <4>1. g.seen = thread[p][t]  BY <2>2, <3>4, <1>2, <1>10
      <4>2. IsFiniteSet(Unread(p, t)) /\ m \notin Unread(p, t)
        BY <1>5, FS_Subset DEF Unread
      <4>3. Cardinality(Unread(p, t) \cup {m}) = Cardinality(Unread(p, t)) + 1
        BY <4>2, FS_AddElement
      <4>4. Cardinality(Unread(p, t)') = Cardinality(Unread(p, t)) + 1
        BY <4>3, <1>2, <1>3, <1>9
      <4>5. thread'[p][t] = Cardinality(Unread(p, t)')
        BY <4>1, <4>4, <3>2, <3>4, <1>3, <1>7 DEF Exact
      <4>6. thread'[p][s] = Cardinality(Unread(p, s)')
        BY <3>2, <3>4, <1>2, <1>3, <1>7, <1>9 DEF Exact
      <4> QED  BY <3>4, <4>5, <4>6, <1>3 DEF Exact
    <3> QED  BY <3>3, <3>4
  <2> QED  BY <2>1, <2>2 DEF ThreadsInv
<1> QED  BY <1>8, <1>10, <1>11 DEF MessagesInv

LEMMA MarkingKeeps ==
  ASSUME MessagesInv, NEW c \in Callers, MarkRead(c), UNCHANGED invitationOutbox
  PROVE  MessagesInv'
<1> PICK g : g = request[c]  OBVIOUS
<1> PICK p, s, F : p = g.pair /\ s = g.side /\ F = g.found  OBVIOUS
<1>1. /\ g.op = "zero" /\ Ends(c)
      /\ message' = [n \in Messages |-> IF n \in F THEN [message[n] EXCEPT !.read = TRUE]
                                        ELSE message[n]]
      /\ thread' = [thread EXCEPT ![p][s] = Written(@, g.seen, 0)]
  BY DEF MarkRead, Zeroes
<1>2. /\ p \in Pairs /\ s \in Sides /\ g.seen \in Nat /\ thread[p] # NoRow
      /\ \A n \in F : n \in Created(message) /\ message[n].pair = p /\ message[n].from # s
      /\ \/ <<"thread", p>> \in raced
         \/ g.seen = thread[p][s] /\ Unread(p, s) \subseteq F
  BY <1>1 DEF MessagesInv, MessageRequests, ThreadKnows, OnThread, CountedSide
<1>3. Created(message) \subseteq Messages /\ IsFiniteSet(Created(message))
      /\ \A n \in Created(message) : message[n] \in MessageRow
  BY DEF MessagesInv, MessagesTypeOK, Created
<1>4. ASSUME NEW n \in F
      PROVE  /\ message'[n] \in MessageRow /\ message'[n].pair = message[n].pair
             /\ message'[n].from = message[n].from /\ message'[n].read = TRUE
  <2>1. n \in Messages /\ message[n] \in MessageRow  BY <1>2, <1>3
  <2>2. message'[n] = [message[n] EXCEPT !.read = TRUE]  BY <2>1, <1>1
  <2> QED  BY <2>1, <2>2 DEF MessageRow
<1>5. \A n \in Messages : n \notin F => message'[n] = message[n]  BY <1>1
<1>6. /\ message' \in [Messages -> MessageRow \cup {NoRow}]
      /\ Created(message') = Created(message)
  <2>1. \A n \in Messages : message'[n] \in MessageRow \cup {NoRow}
    BY <1>4, <1>5 DEF MessagesInv, MessagesTypeOK
  <2>2. message' \in [Messages -> MessageRow \cup {NoRow}]  BY <2>1, <1>1
  <2>3. \A n \in Messages : message'[n] # NoRow <=> message[n] # NoRow
    BY <1>2, <1>4, <1>5, MessageDeskAssumption DEF Created
  <2> QED  BY <2>2, <2>3 DEF Created, MessagesInv, MessagesTypeOK
<1>7. /\ thread[p] \in ThreadRow
      /\ thread'[p] = [thread[p] EXCEPT ![s] = Written(thread[p][s], g.seen, 0)]
      /\ thread' = [q \in Pairs |-> thread'[q]]
      /\ \A q \in Pairs : q # p => thread'[q] = thread[q]
  BY <1>1, <1>2 DEF MessagesInv, MessagesTypeOK
<1>8. /\ thread'[p] \in ThreadRow /\ thread'[p] # NoRow
      /\ thread'[p][s] = Written(thread[p][s], g.seen, 0)
      /\ \A x \in Sides : x # s => thread'[p][x] = thread[p][x]
  <2>1. Written(thread[p][s], g.seen, 0) \in Nat  BY <1>2, <1>7 DEF Written, ThreadRow
  <2> QED  BY <2>1, <1>2, <1>7, MessageDeskAssumption DEF ThreadRow
<1>9. MessagesTypeOK'
  <2>1. thread' \in [Pairs -> ThreadRow \cup {NoRow}]
    <3>1. \A q \in Pairs : thread'[q] \in ThreadRow \cup {NoRow}
      BY <1>7, <1>8 DEF MessagesInv, MessagesTypeOK
    <3> QED  BY <3>1, <1>7
  <2> QED
    BY <2>1, <1>6 DEF MessagesInv, MessagesTypeOK, Created, invitationOutbox
<1>10. \A n \in Created(message) : /\ message'[n].pair = message[n].pair
                                   /\ message'[n].from = message[n].from
  BY <1>3, <1>4, <1>5
<1>11. \A q \in Pairs, x \in Sides : q # p \/ x # s => Unread(q, x)' = Unread(q, x)
  <2> SUFFICES ASSUME NEW q \in Pairs, NEW x \in Sides, q # p \/ x # s, NEW n
               PROVE  n \in Unread(q, x)' <=> n \in Unread(q, x)
    OBVIOUS
  <2>1. CASE n \in F
    <3>1. message[n].pair = p /\ message[n].from \in Sides /\ message[n].from # s
      BY <2>1, <1>2, <1>3 DEF MessageRow
    <3>2. ~(message[n].pair = q /\ message[n].from # x)  BY <3>1, TheOther, <1>2
    <3> QED  BY <3>2, <2>1, <1>2, <1>4, <1>6, <1>10 DEF Unread
  <2>2. CASE n \notin F  BY <2>2, <1>3, <1>5, <1>6 DEF Unread
  <2> QED  BY <2>1, <2>2
<1>12. Unread(p, s) \subseteq F => Unread(p, s)' = {}
  <2> SUFFICES ASSUME Unread(p, s) \subseteq F, NEW n \in Unread(p, s)' PROVE FALSE
    OBVIOUS
  <2>1. n \in Created(message) /\ message'[n].pair = p /\ message'[n].from # s
        /\ ~message'[n].read
    BY <1>6 DEF Unread
  <2>2. n \notin F  BY <2>1, <1>4
  <2>3. n \in Unread(p, s)  BY <2>1, <2>2, <1>3, <1>5 DEF Unread
  <2> QED  BY <2>2, <2>3
<1>13. MessageRequests' /\ NoticesInv' /\ raced' = raced
  <2>1. OnThread(request[c]) /\ request[c].pair = p  BY <1>1 DEF OnThread
  <2>2. \A q \in Pairs : thread[q] # NoRow => thread'[q] # NoRow  BY <1>7, <1>8
  <2>3. \A q \in Pairs : q # p => \A x \in Sides : Unread(q, x)' = Unread(q, x)  BY <1>11
  <2> QED  BY <2>1, <2>2, <2>3, <1>1, <1>6, <1>7, <1>10, ThreadWritersEnd
<1>14. ThreadsInv'
  <2>1. \A n \in Created(message') : thread'[message'[n].pair] # NoRow
    <3>1. \A n \in Created(message) : message[n].pair \in Pairs
      BY <1>3 DEF MessageRow
    <3> QED  BY <3>1, <1>6, <1>7, <1>8, <1>10 DEF MessagesInv, ThreadsInv
  <2>2. ASSUME NEW q \in Pairs, thread'[q] # NoRow, <<"thread", q>> \notin raced'
        PROVE  Exact(q)'
    <3>1. thread[q] # NoRow  BY <2>2, <1>2, <1>7
    <3>2. Exact(q)  BY <2>2, <3>1, <1>13 DEF MessagesInv, ThreadsInv
    <3>3. CASE q # p  BY <3>2, <3>3, <1>7, <1>11 DEF Exact
    <3>4. CASE q = p
      <4>1. g.seen = thread[p][s] /\ Unread(p, s)' = {}  BY <2>2, <3>4, <1>2, <1>12, <1>13
      <4>2. thread'[p][s] = 0  BY <4>1, <1>8 DEF Written
      <4>3. Cardinality(Unread(p, s)') = 0  BY <4>1, FS_EmptySet
      <4>4. \A x \in Sides : x # s => thread'[p][x] = Cardinality(Unread(p, x)')
        BY <3>2, <3>4, <1>2, <1>8, <1>11 DEF Exact
      <4> QED  BY <3>4, <4>2, <4>3, <4>4 DEF Exact
    <3> QED  BY <3>3, <3>4
  <2> QED  BY <2>1, <2>2 DEF ThreadsInv
<1> QED  BY <1>9, <1>13, <1>14 DEF MessagesInv
LEMMA ReadingANoticeKeeps ==
  ASSUME MessagesInv, NEW c \in Callers, NEW o \in Notices, ReadForRequeue(c, o),
         UNCHANGED messaging
  PROVE  MessagesInv'
<1> PICK req : req = [op |-> "requeue", on |-> {<<"notice", o>>}, notice |-> o,
                      seen |-> notice[o]]
  OBVIOUS
<1>1. /\ notice[o] # NoRow /\ notice[o].status # "sent" /\ Reads(c, req)
      /\ UNCHANGED invitationOutbox
  BY DEF ReadForRequeue, Resendable
<1>2. /\ request' = [d \in Callers |-> request'[d]] /\ OneAtATime' /\ raced \subseteq raced'
      /\ request'[c] = req /\ \A d \in Callers : d # c => request'[d] = request[d]
  BY <1>1, ReadsOnce DEF MessagesInv, MessageRequests
<1>3. NoticeWell(o) /\ notice[o] \in NoticeRow /\ o \in Created(notice)
  BY <1>1 DEF MessagesInv, NoticesInv, MessagesTypeOK, Created
<1>4. <<"notice", o>> \notin raced' => <<"notice", o>> \notin raced  BY <1>2
<1>5. NoticeKnows(req)
  BY <1>1, <1>3 DEF NoticeWell, NoticeKnows
<1>6. NoticeKnows(req)'  BY <1>1, <1>2, <1>5, NoticesRest
<1>7. ThreadKnows(req)'  BY DEF ThreadKnows, OnThread
<1> QED  BY <1>1, <1>2, <1>6, <1>7, MessageReadsKeep

\* A notice that is there changes, its row stays a row, and its channel what it was.
LEMMA NoticesChange ==
  ASSUME MessagesInv, NEW o \in Notices, NEW row \in NoticeRow,
         notice' = [notice EXCEPT ![o] = row]
  PROVE  /\ notice' \in [Notices -> NoticeRow \cup {NoRow}]
         /\ notice'[o] = row /\ row # NoRow
         /\ \A n \in Notices : n # o => notice'[n] = notice[n]
         /\ Created(notice') = Created(notice) \cup {o}
BY MessageDeskAssumption DEF MessagesInv, MessagesTypeOK, Created

LEMMA NoticeKnowledgeStays ==
  ASSUME MessagesInv, NEW o \in Notices, NEW row \in NoticeRow, raced' = raced,
         notice' = [notice EXCEPT ![o] = row],
         \A n \in Notices : resends'[n] \in Nat /\ resends[n] <= resends'[n],
         NEW g, NoticeKnows(g),
         g.op = "requeue" /\ g.notice = o =>
             <<"notice", o>> \in raced \/ row.retries = notice[o].retries
  PROVE  NoticeKnows(g)'
<1> SUFFICES ASSUME g.op = "requeue" PROVE NoticeKnows(g)'  BY DEF NoticeKnows
<1>1. /\ g.notice \in Created(notice) /\ <<"notice", g.notice>> \in g.on
      /\ g.seen \in NoticeRow /\ g.seen.status = Waits(g.seen.channel)
      /\ g.seen.retries <= resends[g.notice]
      /\ <<"notice", g.notice>> \in raced \/ g.seen.retries = notice[g.notice].retries
  BY DEF NoticeKnows
<1>2. g.notice \in Notices /\ resends[g.notice] \in Nat
  BY <1>1 DEF Created, MessagesInv, MessagesTypeOK
<1>3. g.notice \in Created(notice')  BY <1>1, NoticesChange
<1>4. g.seen.retries <= resends'[g.notice]
  BY <1>1, <1>2 DEF NoticeRow
<1>5. <<"notice", g.notice>> \in raced \/ g.seen.retries = notice'[g.notice].retries
  BY <1>1, <1>2, NoticesChange
<1> QED  BY <1>1, <1>3, <1>4, <1>5 DEF NoticeKnows

LEMMA RequeueingKeeps ==
  ASSUME MessagesInv, NEW c \in Callers, Requeue(c), UNCHANGED messaging PROVE MessagesInv'
<1> PICK g : g = request[c]  OBVIOUS
<1> PICK o : o = g.notice  OBVIOUS
<1> PICK new : new = Waits(g.seen.channel)  OBVIOUS
<1> PICK row : row = [notice[o] EXCEPT !.status = Written(@, g.seen.status, new),
                                       !.retries = g.seen.retries + 1]
  OBVIOUS
<1>1. /\ g.op = "requeue" /\ Ends(c)
      /\ notice' = [notice EXCEPT ![o].status = Written(@, g.seen.status, new),
                                  ![o].retries = g.seen.retries + 1]
      /\ resends' = [resends EXCEPT ![o] = @ + 1] /\ wasSent' = wasSent
  BY DEF Requeue, Waits
<1>2. /\ o \in Created(notice) /\ o \in Notices /\ <<"notice", o>> \in g.on
      /\ g.seen \in NoticeRow /\ g.seen.status = new /\ g.seen.retries <= resends[o]
      /\ <<"notice", o>> \in raced \/ g.seen.retries = notice[o].retries
      /\ resends[o] \in Nat /\ notice[o] \in NoticeRow /\ NoticeWell(o)
  BY <1>1 DEF MessagesInv, MessageRequests, NoticeKnows, MessagesTypeOK, NoticesInv, Created
<1>3. /\ row \in NoticeRow /\ row.status = notice[o].status
      /\ row.channel = notice[o].channel /\ row.retries = g.seen.retries + 1
  <2>1. Written(notice[o].status, g.seen.status, new) = notice[o].status
    BY <1>2 DEF Written
  <2>2. PICK n \in Nat : n = g.seen.retries + 1  BY <1>2 DEF NoticeRow
  <2>3. row = [notice[o] EXCEPT !.status = notice[o].status, !.retries = n]
    BY <2>1, <2>2
  <2> QED  BY <2>2, <2>3, <1>2 DEF NoticeRow
<1>4. notice' = [notice EXCEPT ![o] = row]  BY <1>1
<1>5. /\ request' = [d \in Callers |-> request'[d]] /\ OneAtATime' /\ raced' = raced
      /\ request'[c] = Idle /\ \A d \in Callers : d # c => request'[d] = request[d]
  BY <1>1, EndsOnce DEF MessagesInv, MessageRequests
<1>6. /\ resends' \in [Notices -> Nat] /\ resends'[o] = resends[o] + 1
      /\ \A n \in Notices : n # o => resends'[n] = resends[n]
  BY <1>1, <1>2 DEF MessagesInv, MessagesTypeOK
<1>7. /\ notice' \in [Notices -> NoticeRow \cup {NoRow}] /\ notice'[o] = row /\ row # NoRow
      /\ \A n \in Notices : n # o => notice'[n] = notice[n]
      /\ Created(notice') = Created(notice)
  <2>1. o \in Notices /\ row \in NoticeRow /\ o \in Created(notice)  BY <1>2, <1>3
  <2>2. Created(notice') = Created(notice) \cup {o}  BY <2>1, <1>4, NoticesChange
  <2>3. /\ notice' \in [Notices -> NoticeRow \cup {NoRow}] /\ notice'[o] = row /\ row # NoRow
        /\ \A n \in Notices : n # o => notice'[n] = notice[n]
    BY <2>1, <1>4, NoticesChange
  <2> QED  BY <2>1, <2>2, <2>3
<1>8. ASSUME NEW d \in Callers PROVE ThreadKnows(request[d])' /\ NoticeKnows(request[d])'
  <2>1. CASE d = c
    BY <2>1, <1>5 DEF ThreadKnows, NoticeKnows, OnThread, Idle
  <2>2. CASE d # c
    <3>1. PICK h : h = request[d]  OBVIOUS
    <3>2. ThreadKnows(h) /\ NoticeKnows(h)  BY <3>1 DEF MessagesInv, MessageRequests
    <3>3. h.op = "requeue" /\ h.notice = o => <<"notice", o>> \in raced
      <4>1. h.op = "requeue" => <<"notice", h.notice>> \in h.on  BY <3>2 DEF NoticeKnows
      <4> QED  BY <4>1, <3>1, <2>2, <1>2 DEF MessagesInv, MessageRequests, OneAtATime
    <3>4. \A n \in Notices : resends'[n] \in Nat /\ resends[n] <= resends'[n]
      <4> SUFFICES ASSUME NEW n \in Notices
                   PROVE  resends'[n] \in Nat /\ resends[n] <= resends'[n]
        OBVIOUS
      <4>1. resends[n] \in Nat  BY DEF MessagesInv, MessagesTypeOK
      <4> QED  BY <4>1, <1>2, <1>6
    <3>5. NoticeKnows(h)'  BY <3>2, <3>3, <3>4, <1>2, <1>3, <1>4, <1>5, NoticeKnowledgeStays
    <3>6. ThreadKnows(h)'  BY <3>2, <1>5, ThreadsRest
    <3> QED  BY <3>1, <3>5, <3>6, <2>2, <1>5
  <2> QED  BY <2>1, <2>2
<1>9. MessageRequests'  BY <1>5, <1>8 DEF MessageRequests
<1>10. MessagesTypeOK'
  <2>1. UNCHANGED <<thread, message>>  BY DEF messaging
  <2> QED  BY <2>1, <1>1, <1>6, <1>7 DEF MessagesInv, MessagesTypeOK, Created
<1>11. NoticesInv'
  <2> SUFFICES ASSUME NEW n \in Notices
               PROVE  IF notice'[n] = NoRow THEN resends'[n] = 0 ELSE NoticeWell(n)'
    BY DEF NoticesInv
  <2>1. CASE n # o  BY <2>1, <1>1, <1>5, <1>6, <1>7 DEF MessagesInv, NoticesInv, NoticeWell
  <2>2. CASE n = o
    <3>1. row.retries <= resends'[o]  BY <1>2, <1>3, <1>6 DEF NoticeRow
    <3>2. <<"notice", o>> \in raced \/ row.retries = resends'[o]
      BY <1>2, <1>3, <1>6 DEF NoticeWell
    <3> QED
      BY <2>2, <3>1, <3>2, <1>1, <1>2, <1>3, <1>5, <1>7 DEF NoticeWell
  <2> QED  BY <2>1, <2>2
<1> QED  BY <1>5, <1>9, <1>10, <1>11, ThreadsRest DEF MessagesInv

\* What is not about a request: a notice is marked sent, or there is a new one.
LEMMA NoticeStepsKeep ==
  ASSUME MessagesInv, NEW o \in Notices, NEW row \in NoticeRow,
         notice' = [notice EXCEPT ![o] = row], UNCHANGED <<resends, callers, messaging>>,
         notice[o] # NoRow => row.retries = notice[o].retries,
         notice[o] = NoRow => row.retries = 0,
         row.status \in {"sent", Waits(row.channel)},
         wasSent' \subseteq wasSent \cup {o}, o \in wasSent' => row.status = "sent",
         wasSent \subseteq wasSent'
  PROVE  MessagesInv'
<1>1. request' = request /\ raced' = raced /\ resends' = resends  BY DEF callers
<1>2. /\ notice' \in [Notices -> NoticeRow \cup {NoRow}] /\ notice'[o] = row /\ row # NoRow
      /\ \A n \in Notices : n # o => notice'[n] = notice[n]
      /\ Created(notice') = Created(notice) \cup {o}
  BY NoticesChange
<1>3. ASSUME NEW d \in Callers PROVE ThreadKnows(request[d])' /\ NoticeKnows(request[d])'
  <2>1. PICK h : h = request[d]  OBVIOUS
  <2>2. ThreadKnows(h) /\ NoticeKnows(h)  BY <2>1 DEF MessagesInv, MessageRequests
  <2>3. h.op = "requeue" /\ h.notice = o => row.retries = notice[o].retries
    BY <2>2 DEF NoticeKnows, Created
  <2>4. \A n \in Notices : resends'[n] \in Nat /\ resends[n] <= resends'[n]
    <3> SUFFICES ASSUME NEW n \in Notices PROVE resends[n] \in Nat /\ resends[n] <= resends[n]
      BY <1>1
    <3>1. resends[n] \in Nat  BY DEF MessagesInv, MessagesTypeOK
    <3> QED  BY <3>1
  <2>5. NoticeKnows(h)'  BY <2>2, <2>3, <2>4, <1>1, NoticeKnowledgeStays
  <2>6. ThreadKnows(h)'  BY <2>2, <1>1, ThreadsRest
  <2> QED  BY <2>1, <2>5, <2>6, <1>1
<1>4. MessageRequests'
  BY <1>1, <1>3 DEF MessagesInv, MessageRequests, OneAtATime
<1>5. MessagesTypeOK'
  <2>1. UNCHANGED <<thread, message>>  BY DEF messaging
  <2> QED  BY <2>1, <1>1, <1>2 DEF MessagesInv, MessagesTypeOK, Created
<1>6. NoticesInv'
  <2> SUFFICES ASSUME NEW n \in Notices
               PROVE  IF notice'[n] = NoRow THEN resends'[n] = 0 ELSE NoticeWell(n)'
    BY DEF NoticesInv
  <2>1. CASE n # o  BY <2>1, <1>1, <1>2 DEF MessagesInv, NoticesInv, NoticeWell
  <2>2. CASE n = o
    <3>1. resends[o] \in Nat  BY DEF MessagesInv, MessagesTypeOK
    <3>2. row.retries <= resends[o] /\ (<<"notice", o>> \in raced \/ row.retries = resends[o])
      BY <3>1 DEF MessagesInv, NoticesInv, NoticeWell
    <3> QED  BY <2>2, <3>2, <1>1, <1>2 DEF NoticeWell
  <2> QED  BY <2>1, <2>2
<1>7. ThreadsInv'  BY <1>1, ThreadsRest DEF MessagesInv
<1> QED  BY <1>4, <1>5, <1>6, <1>7 DEF MessagesInv

LEMMA SendingANoticeKeeps ==
  ASSUME MessagesInv, NEW o \in Notices, MarkSent(o), UNCHANGED messaging PROVE MessagesInv'
<1> PICK row : row = [notice[o] EXCEPT !.status = "sent"]  OBVIOUS
<1>1. /\ notice[o] # NoRow /\ notice' = [notice EXCEPT ![o] = row]
      /\ wasSent' = wasSent \cup {o} /\ UNCHANGED <<resends, callers>>
  BY DEF MarkSent
<1>2. notice[o] \in NoticeRow  BY <1>1 DEF MessagesInv, MessagesTypeOK
<1>3. row \in NoticeRow /\ row.status = "sent" /\ row.retries = notice[o].retries
  <2> PICK old \in NoticeRow : old = notice[o]  BY <1>2
  <2> QED  BY DEF NoticeRow
<1> QED  BY <1>1, <1>3, NoticeStepsKeep

LEMMA DispatchKeeps ==
  ASSUME MessagesInv, NEW o \in Notices, NEW ch \in {"sms", "manual"}, DispatchInvite(o, ch),
         UNCHANGED messaging
  PROVE  MessagesInv'
<1> PICK row : row = [channel |-> ch, retries |-> 0, status |-> Waits(ch)]  OBVIOUS
<1>1. /\ notice[o] = NoRow /\ notice' = [notice EXCEPT ![o] = row]
      /\ UNCHANGED <<resends, wasSent, callers>>
  BY DEF DispatchInvite, Waits
<1>2. row \in NoticeRow /\ row.status = Waits(row.channel) /\ row.retries = 0
  BY DEF NoticeRow, Waits
<1>3. o \notin wasSent  BY <1>1 DEF MessagesInv, MessagesTypeOK, Created
<1> QED  BY <1>1, <1>2, <1>3, NoticeStepsKeep

LEMMA ThreadsStep == ASSUME MessagesInv, ThreadsNext PROVE MessagesInv'
BY OpeningKeeps, ReadingAThreadKeeps, SendingKeeps, FindingUnreadKeeps, MarkingKeeps
   DEF ThreadsNext
LEMMA NoticesStep == ASSUME MessagesInv, NoticesNext PROVE MessagesInv'
BY SendingANoticeKeeps, DispatchKeeps, ReadingANoticeKeeps, RequeueingKeeps DEF NoticesNext

LEMMA MessagesStart == ASSUME MessagesInit, HandlersInit PROVE MessagesInv
<1> USE DEF MessagesInit, HandlersInit
<1>1. Created(message) = {} /\ Created(notice) = {}  BY DEF Created
<1>2. MessagesTypeOK  BY <1>1, FS_EmptySet DEF MessagesTypeOK
<1>3. MessageRequests
  <2>1. \A c \in Callers : request[c] = Idle  OBVIOUS
  <2>2. \A c \in Callers : ThreadKnows(request[c]) /\ NoticeKnows(request[c])
    BY <2>1 DEF ThreadKnows, NoticeKnows, OnThread, Idle
  <2>3. OneAtATime  BY <2>1 DEF OneAtATime, Idle
  <2> QED  BY <2>2, <2>3 DEF MessageRequests
<1>4. ThreadsInv  BY <1>1 DEF ThreadsInv
<1>5. NoticesInv  BY DEF NoticesInv
<1> QED  BY <1>2, <1>3, <1>4, <1>5 DEF MessagesInv

LEMMA MessagesKept ==
  ASSUME MessagesTypeOK, ThreadsInv, NoticesInv PROVE MessagesAgree
<1>1. ASSUME NEW p \in Pairs, thread[p] # NoRow
      PROVE  <<"thread", p>> \in raced \/ \A s \in Sides : thread[p][s] = Cardinality(Unread(p, s))
  BY <1>1 DEF ThreadsInv, Exact
<1>2. \A o \in Created(notice) : o \in Notices /\ NoticeWell(o)
  BY DEF NoticesInv, MessagesTypeOK, Created
<1>3. \A o \in wasSent : notice[o].status = "sent"
  BY <1>2 DEF NoticeWell, MessagesTypeOK
<1>4. \A o \in Created(notice) : /\ notice[o].retries <= resends[o]
                                 /\ <<"notice", o>> \in raced \/ notice[o].retries = resends[o]
  BY <1>2 DEF NoticeWell
<1> QED  BY <1>1, <1>3, <1>4 DEF MessagesAgree

-----------------------------------------------------------------------------
\* Forms.

FilingTypeOK ==
    /\ filed \in [Rows -> PaperRow \cup {NoRow}]
    /\ trail = [r \in Rows |-> trail[r]] /\ outside \in [Contents -> Nat]
    /\ told \subseteq Created(filed)

\* A request knows its paper, and that what it hangs on is there; one that is to write the
\* audit row knows a row that it stored and nobody was told of.
PaperRequest(op, p) == [op |-> op, on |-> {p}, paper |-> p]
FormKnows(g, c) ==
    /\ g.op \in {"call", "store"} =>
          /\ g.paper \in Contents /\ g = PaperRequest(g.op, g.paper)
          /\ form.needs => parent
    /\ g.op = "audit" =>
          /\ g.row \in Created(filed) /\ filed[g.row].author = c /\ g.row \notin told
          /\ form.audit = "later"
FormRequests ==
    request = [c \in Callers |-> request[c]] /\ \A c \in Callers : FormKnows(request[c], c)

Named(c) == IF form.named THEN c ELSE NoRow
RowWell(r) ==
    IF filed[r] = NoRow THEN trail[r] = << >>
    ELSE /\ form.audit = "same" => trail[r] = <<Named(filed[r].author)>>
         /\ form.audit = "later" => trail[r] = IF r \in told THEN <<filed[r].author>> ELSE << >>
         /\ form.needs => parent
HeldOnce ==
    form.unique => \A r, s \in Created(filed) : filed[r].paper = filed[s].paper => r = s
\* Calls were made for what is stored, and for what is about to be.
Pending(p) == {c \in Callers : request[c].op = "store" /\ request[c].paper = p}
CallsCover ==
    form.calls =>
        \A p \in Contents :
            /\ IsFiniteSet(Holding(p)) /\ IsFiniteSet(Pending(p))
            /\ outside[p] >= Cardinality(Holding(p)) + Cardinality(Pending(p))
FilingInv ==
    /\ FilingTypeOK /\ FormRequests /\ \A r \in Rows : RowWell(r)
    /\ HeldOnce /\ CallsCover

\* Only a request changes: it reads, or gives up.
LEMMA FormRequestChanges ==
  ASSUME FilingInv, UNCHANGED filing, NEW c \in Callers, NEW g,
         request' = [request EXCEPT ![c] = g], FormKnows(g, c), g.op = "store" => ~form.calls
  PROVE  FilingInv'
<1>1. UNCHANGED <<form, parent, filed, trail, outside, told>>  BY DEF filing
<1>2. /\ request' = [d \in Callers |-> request'[d]] /\ request'[c] = g
      /\ \A d \in Callers : d # c => request'[d] = request[d]
  BY DEF FilingInv, FormRequests
<1>3. ASSUME NEW d \in Callers PROVE FormKnows(request[d], d)'
  <2>1. PICK h : h = request'[d]  OBVIOUS
  <2>2. FormKnows(h, d)
    BY <2>1, <1>2 DEF FilingInv, FormRequests
  <2>3. FormKnows(h, d)'  BY <2>2, <1>1 DEF FormKnows, Created
  <2> QED  BY <2>1, <2>3
<1>4. CallsCover'
  <2> SUFFICES ASSUME form.calls, NEW p \in Contents
               PROVE  /\ IsFiniteSet(Holding(p)') /\ IsFiniteSet(Pending(p)')
                      /\ outside[p] >= Cardinality(Holding(p)') + Cardinality(Pending(p)')
    BY <1>1 DEF CallsCover
  <2>1. Holding(p)' = Holding(p)  BY <1>1 DEF Holding, Created
  <2>2. /\ IsFiniteSet(Holding(p)) /\ IsFiniteSet(Pending(p))
        /\ outside[p] >= Cardinality(Holding(p)) + Cardinality(Pending(p))
    BY DEF FilingInv, CallsCover
  <2>3. Pending(p)' \subseteq Pending(p)  BY <1>2 DEF Pending
  <2>4. /\ IsFiniteSet(Pending(p)') /\ Cardinality(Pending(p)') <= Cardinality(Pending(p))
    BY <2>2, <2>3, FS_Subset
  <2>5. /\ Cardinality(Holding(p)) \in Nat /\ Cardinality(Pending(p)) \in Nat
        /\ Cardinality(Pending(p)') \in Nat /\ outside[p] \in Nat
    BY <2>2, <2>4, FS_CardinalityType DEF FilingInv, FilingTypeOK
  <2> QED  BY <2>1, <2>2, <2>4, <2>5
<1>5. FilingTypeOK' /\ HeldOnce' /\ \A r \in Rows : RowWell(r)'
  BY <1>1 DEF FilingInv, FilingTypeOK, HeldOnce, RowWell, Named, Created
<1> QED  BY <1>2, <1>3, <1>4, <1>5 DEF FilingInv, FormRequests

LEMMA HandingInKeeps ==
  ASSUME FilingInv, NEW c \in Callers, NEW p \in Contents, HandIn(c, p) PROVE FilingInv'
<1> PICK op : op = IF form.calls THEN "call" ELSE "store"  OBVIOUS
<1> PICK g : g = PaperRequest(op, p)  OBVIOUS
<1>1. /\ request' = [request EXCEPT ![c] = g] /\ UNCHANGED filing /\ (form.needs => parent)
  BY DEF HandIn, Reads, PaperRequest
<1>2. g.op = op /\ g.paper = p  BY DEF PaperRequest
<1>3. FormKnows(g, c)  BY <1>1, <1>2 DEF FormKnows
<1>4. g.op = "store" => ~form.calls  BY <1>2
<1> QED  BY <1>1, <1>3, <1>4, FormRequestChanges

LEMMA LeavingKeeps ==
  ASSUME FilingInv, NEW c \in Callers, GivesUp(c), UNCHANGED filing PROVE FilingInv'
<1>1. request' = [request EXCEPT ![c] = Idle]  BY DEF GivesUp, Ends
<1>2. FormKnows(Idle, c) /\ Idle.op = "none"  BY DEF FormKnows, Idle
<1> QED  BY <1>1, <1>2, FormRequestChanges

LEMMA CallingOutKeeps ==
  ASSUME FilingInv, NEW c \in Callers, CallOut(c) PROVE FilingInv'
<1> PICK p : p = request[c].paper  OBVIOUS
<1> PICK g : g = PaperRequest("store", p)  OBVIOUS
<1>1. /\ request[c].op = "call" /\ outside' = [outside EXCEPT ![p] = @ + 1]
      /\ UNCHANGED <<form, parent, filed, trail, told>>
  BY DEF CallOut
<1>2. /\ p \in Contents /\ request[c] = PaperRequest("call", p)
      /\ form.needs => parent
  BY <1>1 DEF FilingInv, FormRequests, FormKnows
<1>3. request' = [request EXCEPT ![c] = g]
  <2>1. [PaperRequest("call", p) EXCEPT !.op = "store"] = PaperRequest("store", p)
    BY DEF PaperRequest
  <2>2. [request[c] EXCEPT !.op = "store"] = g  BY <2>1, <1>2
  <2> QED  BY <2>2 DEF CallOut
<1>4. /\ request' = [d \in Callers |-> request'[d]] /\ request'[c] = g
      /\ \A d \in Callers : d # c => request'[d] = request[d]
  BY <1>3 DEF FilingInv, FormRequests
<1>5. g.op = "store" /\ g.paper = p /\ FormKnows(g, c)'
  <2>1. g.op = "store" /\ g.paper = p  BY DEF PaperRequest
  <2> QED  BY <2>1, <1>1, <1>2 DEF FormKnows
<1>6. ASSUME NEW d \in Callers PROVE FormKnows(request[d], d)'
  <2>1. CASE d = c  BY <2>1, <1>4, <1>5
  <2>2. CASE d # c
    <3>1. PICK h : h = request[d]  OBVIOUS
    <3>2. FormKnows(h, d)  BY <3>1 DEF FilingInv, FormRequests
    <3>3. FormKnows(h, d)'  BY <3>2, <1>1 DEF FormKnows, Created
    <3> QED  BY <3>1, <3>3, <2>2, <1>4
  <2> QED  BY <2>1, <2>2
<1>7. /\ outside' \in [Contents -> Nat] /\ outside'[p] = outside[p] + 1
      /\ \A q \in Contents : q # p => outside'[q] = outside[q]
  BY <1>1, <1>2 DEF FilingInv, FilingTypeOK
<1>8. CallsCover'
  <2> SUFFICES ASSUME form.calls, NEW q \in Contents
               PROVE  /\ IsFiniteSet(Holding(q)') /\ IsFiniteSet(Pending(q)')
                      /\ outside'[q] >= Cardinality(Holding(q)') + Cardinality(Pending(q)')
    BY <1>1 DEF CallsCover
  <2>1. Holding(q)' = Holding(q)  BY <1>1 DEF Holding, Created
  <2>2. /\ IsFiniteSet(Holding(q)) /\ IsFiniteSet(Pending(q))
        /\ outside[q] >= Cardinality(Holding(q)) + Cardinality(Pending(q))
    BY DEF FilingInv, CallsCover
  <2>3. CASE q # p
    <3>1. Pending(q)' = Pending(q)
      <4>1. c \notin Pending(q) /\ c \notin Pending(q)'  BY <2>3, <1>1, <1>4, <1>5 DEF Pending
      <4> QED  BY <4>1, <1>4 DEF Pending
    <3> QED  BY <3>1, <2>1, <2>2, <2>3, <1>7
  <2>4. CASE q = p
    <3>1. c \notin Pending(p) /\ c \in Pending(p)'  BY <1>1, <1>4, <1>5 DEF Pending
    <3>2. Pending(p)' = Pending(p) \cup {c}  BY <3>1, <1>4 DEF Pending
    <3>3. /\ IsFiniteSet(Pending(p)')
          /\ Cardinality(Pending(p)') = Cardinality(Pending(p)) + 1
      BY <3>1, <3>2, <2>2, <2>4, FS_AddElement
    <3>4. /\ Cardinality(Holding(p)) \in Nat /\ Cardinality(Pending(p)) \in Nat
          /\ outside[p] \in Nat
      BY <1>2, <2>2, <2>4, FS_CardinalityType DEF FilingInv, FilingTypeOK
    <3> QED  BY <3>3, <3>4, <2>1, <2>2, <2>4, <1>7
  <2> QED  BY <2>3, <2>4
<1>9. FilingTypeOK' /\ HeldOnce' /\ \A r \in Rows : RowWell(r)'
  BY <1>1, <1>7 DEF FilingInv, FilingTypeOK, HeldOnce, RowWell, Named, Created
<1> QED  BY <1>4, <1>6, <1>8, <1>9 DEF FilingInv, FormRequests

LEMMA StoringKeeps ==
  ASSUME FilingInv, NEW c \in Callers, NEW r \in Rows, Store(c, r) PROVE FilingInv'
<1> PICK p : p = request[c].paper  OBVIOUS
<1> PICK row : row = [paper |-> p, author |-> c]  OBVIOUS
<1>1. /\ request[c].op = "store" /\ filed[r] = NoRow /\ TableAdmits(p)
      /\ filed' = [filed EXCEPT ![r] = row] /\ trail' = TrailWith(r, c)
      /\ UNCHANGED <<form, parent, outside>>
  BY DEF Store
<1>2. p \in Contents /\ (form.needs => parent)
  BY <1>1 DEF FilingInv, FormRequests, FormKnows
<1>3. PICK g :
        /\ request' = [request EXCEPT ![c] = g] /\ g.op \in {"audit", "none"}
        /\ g.op = "audit" => g.row = r /\ form.audit = "later" /\ told' = told
        /\ g.op = "none" => form.audit # "later" /\ told' = told \cup {r}
  <2>1. CASE form.audit = "later"
    <3> PICK g : g = [op |-> "audit", on |-> request[c].on, row |-> r]  OBVIOUS
    <3>1. request' = [request EXCEPT ![c] = g] /\ told' = told  BY <2>1 DEF Store
    <3>2. g.op = "audit" /\ g.row = r  OBVIOUS
    <3> QED  BY <2>1, <3>1, <3>2
  <2>2. CASE form.audit # "later"
    <3>1. request' = [request EXCEPT ![c] = Idle] /\ told' = told \cup {r}
      BY <2>2 DEF Store, Ends
    <3>2. Idle.op = "none"  BY DEF Idle
    <3> QED  BY <2>2, <3>1, <3>2
  <2> QED  BY <2>1, <2>2
<1>4. /\ request' = [d \in Callers |-> request'[d]] /\ request'[c] = g
      /\ \A d \in Callers : d # c => request'[d] = request[d]
  BY <1>3 DEF FilingInv, FormRequests
<1>5. row \in PaperRow /\ row # NoRow /\ row.paper = p /\ row.author = c
  <2>1. row \in PaperRow /\ row.paper = p /\ row.author = c  BY <1>2 DEF PaperRow
  <2> QED  BY <2>1, FilingAssumption
<1>6. /\ filed' \in [Rows -> PaperRow \cup {NoRow}] /\ filed'[r] = row
      /\ \A s \in Rows : s # r => filed'[s] = filed[s]
      /\ Created(filed') = Created(filed) \cup {r} /\ r \notin Created(filed)
      /\ Created(filed) \subseteq Rows /\ told \subseteq Created(filed)
  BY <1>1, <1>5 DEF FilingInv, FilingTypeOK, Created
<1>7. told' \subseteq Created(filed') /\ \A s \in Rows : s # r => (s \in told' <=> s \in told)
  BY <1>3, <1>6
<1>8. /\ trail' = [s \in Rows |-> trail'[s]]
      /\ \A s \in Rows : s # r => trail'[s] = trail[s]
      /\ trail[r] = << >>
      /\ form.audit = "same" => trail'[r] = <<Named(c)>>
      /\ form.audit # "same" => trail'[r] = << >>
  <2>1. trail[r] = << >> /\ trail = [s \in Rows |-> trail[s]]
    BY <1>1 DEF FilingInv, RowWell, FilingTypeOK
  <2>2. CASE form.audit = "same"
    <3>1. trail' = [trail EXCEPT ![r] = Append(@, Named(c))]
      BY <2>2, <1>1 DEF TrailWith, Named
    <3>2. PICK x : x = Named(c)  OBVIOUS
    <3>3. Append(<< >>, x) = <<x>>  OBVIOUS
    <3> QED  BY <2>1, <2>2, <3>1, <3>2, <3>3
  <2>3. CASE form.audit # "same"
    <3>1. trail' = trail  BY <2>3, <1>1 DEF TrailWith
    <3> QED  BY <2>1, <2>3, <3>1
  <2> QED  BY <2>2, <2>3
<1>9. FilingTypeOK'
  BY <1>1, <1>6, <1>7, <1>8 DEF FilingInv, FilingTypeOK
<1>10. ASSUME NEW d \in Callers PROVE FormKnows(request[d], d)'
  <2>1. CASE d = c
    <3>1. g.op = "audit" => /\ r \in Created(filed') /\ filed'[r].author = c /\ r \notin told'
                            /\ form.audit = "later"
      BY <1>3, <1>5, <1>6
    <3>2. FormKnows(g, c)'  BY <3>1, <1>1, <1>3 DEF FormKnows
    <3> QED  BY <2>1, <3>2, <1>4
  <2>2. CASE d # c
    <3>1. PICK h : h = request[d]  OBVIOUS
    <3>2. FormKnows(h, d)  BY <3>1 DEF FilingInv, FormRequests
    <3>3. h.op = "audit" => /\ h.row \in Created(filed') /\ filed'[h.row].author = d
                            /\ h.row \notin told'
      BY <3>2, <1>6, <1>7 DEF FormKnows
    <3>4. FormKnows(h, d)'  BY <3>2, <3>3, <1>1 DEF FormKnows
    <3> QED  BY <3>1, <3>4, <2>2, <1>4
  <2> QED  BY <2>1, <2>2
<1>11. ASSUME NEW s \in Rows PROVE RowWell(s)'
  <2>1. CASE s # r
    <3>1. /\ filed'[s] = filed[s] /\ trail'[s] = trail[s] /\ (s \in told' <=> s \in told)
          /\ RowWell(s)
      BY <2>1, <1>6, <1>7, <1>8 DEF FilingInv
    <3> QED  BY <3>1, <1>1 DEF RowWell, Named
  <2>2. CASE s = r
    <3>1. form.audit = "same" => trail'[r] = <<Named(filed'[r].author)>>
      BY <1>5, <1>6, <1>8
    <3>2. form.audit = "later" => r \notin told' /\ trail'[r] = << >>
      BY <1>3, <1>6, <1>8
    <3>3. filed'[r] # NoRow  BY <1>5, <1>6
    <3> QED  BY <2>2, <3>1, <3>2, <3>3, <1>1, <1>2 DEF RowWell, Named
  <2> QED  BY <2>1, <2>2
<1>12. HeldOnce'
  <2> SUFFICES ASSUME form.unique, NEW s \in Created(filed'), NEW t \in Created(filed'),
                      filed'[s].paper = filed'[t].paper
               PROVE  s = t
    BY <1>1 DEF HeldOnce
  <2>1. \A x \in Created(filed) : filed[x].paper # p
    BY <1>1 DEF TableAdmits, Holding
  <2>2. CASE s # r /\ t # r  BY <2>2, <1>6 DEF FilingInv, HeldOnce
  <2>3. CASE s = r /\ t # r  BY <2>1, <2>3, <1>5, <1>6
  <2>4. CASE s # r /\ t = r  BY <2>1, <2>4, <1>5, <1>6
  <2> QED  BY <2>2, <2>3, <2>4
<1>13. CallsCover'
  <2> SUFFICES ASSUME form.calls, NEW q \in Contents
               PROVE  /\ IsFiniteSet(Holding(q)') /\ IsFiniteSet(Pending(q)')
                      /\ outside[q] >= Cardinality(Holding(q)') + Cardinality(Pending(q)')
    BY <1>1 DEF CallsCover
  <2>1. /\ IsFiniteSet(Holding(q)) /\ IsFiniteSet(Pending(q))
        /\ outside[q] >= Cardinality(Holding(q)) + Cardinality(Pending(q))
    BY DEF FilingInv, CallsCover
  <2>2. c \notin Pending(q)'  BY <1>3, <1>4 DEF Pending
  <2>3. CASE q # p
    <3>1. Pending(q)' = Pending(q)
      <4>1. c \notin Pending(q)  BY <2>3 DEF Pending
      <4> QED  BY <4>1, <2>2, <1>4 DEF Pending
    <3>2. Holding(q)' = Holding(q)  BY <2>3, <1>5, <1>6 DEF Holding
    <3> QED  BY <3>1, <3>2, <2>1
  <2>4. CASE q = p
    <3>1. c \in Pending(p)  BY <1>1 DEF Pending
    <3>2. Pending(p)' = Pending(p) \ {c}  BY <2>2, <2>4, <1>4 DEF Pending
    <3>3. /\ IsFiniteSet(Pending(p)')
          /\ Cardinality(Pending(p)') = Cardinality(Pending(p)) - 1
      BY <3>1, <3>2, <2>1, <2>4, FS_RemoveElement
    <3>4. r \notin Holding(p) /\ Holding(p)' = Holding(p) \cup {r}
      BY <1>5, <1>6 DEF Holding
    <3>5. /\ IsFiniteSet(Holding(p)')
          /\ Cardinality(Holding(p)') = Cardinality(Holding(p)) + 1
      BY <3>4, <2>1, <2>4, FS_AddElement
    <3>6. /\ Cardinality(Holding(p)) \in Nat /\ Cardinality(Pending(p)) \in Nat
          /\ outside[p] \in Nat
      BY <1>2, <2>1, <2>4, FS_CardinalityType DEF FilingInv, FilingTypeOK
    <3> QED  BY <3>3, <3>5, <3>6, <2>1, <2>4
  <2> QED  BY <2>3, <2>4
<1> QED  BY <1>4, <1>9, <1>10, <1>11, <1>12, <1>13 DEF FilingInv, FormRequests

LEMMA AuditingKeeps ==
  ASSUME FilingInv, NEW c \in Callers, AuditAfter(c) PROVE FilingInv'
<1> PICK r : r = request[c].row  OBVIOUS
<1>1. /\ request[c].op = "audit" /\ trail' = [trail EXCEPT ![r] = Append(@, c)]
      /\ told' = told \cup {r} /\ request' = [request EXCEPT ![c] = Idle]
      /\ UNCHANGED <<form, parent, filed, outside>>
  BY DEF AuditAfter, Ends
<1>2. /\ r \in Created(filed) /\ r \in Rows /\ filed[r].author = c /\ r \notin told
      /\ form.audit = "later" /\ RowWell(r) /\ filed[r] # NoRow
  BY <1>1 DEF FilingInv, FormRequests, FormKnows, FilingTypeOK, Created
<1>3. /\ request' = [d \in Callers |-> request'[d]] /\ request'[c] = Idle
      /\ \A d \in Callers : d # c => request'[d] = request[d]
  BY <1>1 DEF FilingInv, FormRequests
<1>4. Idle.op = "none"  BY DEF Idle
<1>5. /\ trail' = [s \in Rows |-> trail'[s]] /\ trail'[r] = <<c>>
      /\ \A s \in Rows : s # r => trail'[s] = trail[s]
  <2>1. trail = [s \in Rows |-> trail[s]] /\ trail[r] = << >>
    BY <1>2 DEF FilingInv, FilingTypeOK, RowWell
  <2>2. Append(<< >>, c) = <<c>>  OBVIOUS
  <2> QED  BY <2>1, <2>2, <1>1, <1>2
<1>6. FilingTypeOK'  BY <1>1, <1>2, <1>5 DEF FilingInv, FilingTypeOK
<1>7. ASSUME NEW d \in Callers PROVE FormKnows(request[d], d)'
  <2>1. CASE d = c  BY <2>1, <1>3, <1>4 DEF FormKnows
  <2>2. CASE d # c
    <3>1. PICK h : h = request[d]  OBVIOUS
    <3>2. FormKnows(h, d)  BY <3>1 DEF FilingInv, FormRequests
    <3>3. h.op = "audit" => h.row # r  BY <3>2, <2>2, <1>2 DEF FormKnows
    <3>4. FormKnows(h, d)'  BY <3>2, <3>3, <1>1 DEF FormKnows
    <3> QED  BY <3>1, <3>4, <2>2, <1>3
  <2> QED  BY <2>1, <2>2
<1>8. ASSUME NEW s \in Rows PROVE RowWell(s)'
  <2>1. CASE s # r
    <3>1. trail'[s] = trail[s] /\ (s \in told' <=> s \in told) /\ RowWell(s)
      BY <2>1, <1>1, <1>5 DEF FilingInv
    <3> QED  BY <3>1, <1>1 DEF RowWell, Named
  <2>2. CASE s = r
    <3>1. r \in told' /\ trail'[r] = <<filed[r].author>>  BY <1>1, <1>2, <1>5
    <3> QED  BY <2>2, <3>1, <1>1, <1>2 DEF RowWell, Named
  <2> QED  BY <2>1, <2>2
<1>9. HeldOnce'  BY <1>1 DEF FilingInv, HeldOnce
<1>10. CallsCover'
  <2> SUFFICES ASSUME form.calls, NEW q \in Contents
               PROVE  /\ IsFiniteSet(Holding(q)') /\ IsFiniteSet(Pending(q)')
                      /\ outside[q] >= Cardinality(Holding(q)') + Cardinality(Pending(q)')
    BY <1>1 DEF CallsCover
  <2>1. Holding(q)' = Holding(q)  BY <1>1 DEF Holding
  <2>2. Pending(q)' = Pending(q)
    <3>1. c \notin Pending(q) /\ c \notin Pending(q)'  BY <1>1, <1>3, <1>4 DEF Pending
    <3> QED  BY <3>1, <1>3 DEF Pending
  <2> QED  BY <2>1, <2>2 DEF FilingInv, CallsCover
<1> QED  BY <1>3, <1>6, <1>7, <1>8, <1>9, <1>10 DEF FilingInv, FormRequests

LEMMA ParentKeeps ==
  ASSUME FilingInv, ParentStored PROVE FilingInv'
<1>1. /\ parent' = TRUE
      /\ UNCHANGED <<form, filed, trail, outside, told, request>>
  BY DEF ParentStored, callers
<1>2. \A q : Holding(q)' = Holding(q) /\ Pending(q)' = Pending(q)
  BY <1>1 DEF Holding, Pending
<1>3. ASSUME NEW c \in Callers PROVE FormKnows(request[c], c)'
  BY <1>1 DEF FilingInv, FormRequests, FormKnows
<1>4. FormRequests'  BY <1>1, <1>3 DEF FilingInv, FormRequests
<1>5. CallsCover'  BY <1>1, <1>2 DEF FilingInv, CallsCover
<1>6. ASSUME NEW r \in Rows PROVE RowWell(r)'
  <2>1. RowWell(r)  BY DEF FilingInv
  <2> QED  BY <2>1, <1>1 DEF RowWell, Named
<1> QED  BY <1>1, <1>4, <1>5, <1>6 DEF FilingInv, FilingTypeOK, HeldOnce

LEMMA FilingStep == ASSUME FilingInv, FilingNext PROVE FilingInv'
BY ParentKeeps, HandingInKeeps, StoringKeeps, CallingOutKeeps, AuditingKeeps DEF FilingNext

LEMMA FilingStarts == ASSUME FilingInit, HandlersInit PROVE FilingInv
<1> USE DEF FilingInit, HandlersInit
<1>1. Created(filed) = {}  BY DEF Created
<1>2. FilingTypeOK  BY <1>1 DEF FilingTypeOK
<1>3. \A c \in Callers : request[c].op = "none"  BY DEF Idle
<1>4. FormRequests  BY <1>3 DEF FormRequests, FormKnows
<1>5. \A p : Holding(p) = {} /\ Pending(p) = {}  BY <1>1, <1>3 DEF Holding, Pending
<1>6. CallsCover
  <2>1. IsFiniteSet({}) /\ Cardinality({}) = 0  BY FS_EmptySet
  <2>2. \A p \in Contents : outside[p] = 0  OBVIOUS
  <2>3. \A p : /\ IsFiniteSet(Holding(p)) /\ Cardinality(Holding(p)) = 0
               /\ IsFiniteSet(Pending(p)) /\ Cardinality(Pending(p)) = 0
    BY <2>1, <1>5
  <2> QED  BY <2>2, <2>3 DEF CallsCover
<1>7. HeldOnce /\ \A r \in Rows : RowWell(r)  BY <1>1 DEF HeldOnce, RowWell
<1> QED  BY <1>2, <1>4, <1>6, <1>7 DEF FilingInv

LEMMA FormsKept ==
  ASSUME FilingInv PROVE FormsAgree
<1>1. ASSUME NEW r \in Rows
      PROVE  /\ filed[r] = NoRow => trail[r] = << >>
             /\ filed[r] # NoRow =>
                   /\ form.audit = "same" =>
                         trail[r] = <<IF form.named THEN filed[r].author ELSE NoRow>>
                   /\ form.audit = "later" =>
                         trail[r] = IF r \in told THEN <<filed[r].author>> ELSE << >>
                   /\ form.needs => parent
  BY DEF FilingInv, RowWell, Named
<1>2. ASSUME NEW p \in Contents
      PROVE  /\ form.unique => Cardinality(Holding(p)) <= 1
             /\ form.calls => outside[p] >= Cardinality(Holding(p))
  <2>1. form.unique => \A r, s \in Holding(p) : r = s
    BY DEF FilingInv, HeldOnce, Holding
  <2>2. form.unique => Cardinality(Holding(p)) <= 1  BY <2>1, AtMostOne
  <2>3. ASSUME form.calls PROVE outside[p] >= Cardinality(Holding(p))
    <3>1. /\ IsFiniteSet(Holding(p)) /\ IsFiniteSet(Pending(p))
          /\ outside[p] >= Cardinality(Holding(p)) + Cardinality(Pending(p))
      BY <2>3 DEF FilingInv, CallsCover
    <3>2. /\ Cardinality(Holding(p)) \in Nat /\ Cardinality(Pending(p)) \in Nat
          /\ outside[p] \in Nat
      BY <3>1, FS_CardinalityType DEF FilingInv, FilingTypeOK
    <3> QED  BY <3>1, <3>2
  <2> QED  BY <2>2, <2>3
<1> QED  BY <1>1, <1>2 DEF FormsAgree, FilingInv, FilingTypeOK

-----------------------------------------------------------------------------
\* Records.

\* What goes together in a row: while the column `mark` is `unset`, the column `col` says one
\* of `only`.  Once set, a mark is never unset again.
Rule(col, only, mark, unset) == [col |-> col, only |-> only, mark |-> mark, unset |-> unset]
Rules ==
    CASE kind = "staff" ->
            {Rule("active", {TRUE}, "left", NoValue), Rule("left", {NoValue}, "active", TRUE)}
      [] kind = "submission" ->
            {Rule("status", {"draft", "accepted", "rejected"}, "submitted", NoValue),
             Rule("status", {"draft", "submitted", "rejected"}, "accepted", NoValue)}
      [] kind = "admission" ->
            {Rule("status", {"submitted", "accepted", "rejected"}, "student", NoValue)}
      [] kind = "grievance" ->
            {Rule("status", {"open", "in_review"}, "resolved", NoValue)}
      [] kind = "alumnus" ->
            {Rule("email", Maybe, "contacted", NoValue)}
      [] kind = "invite" ->
            {Rule("status", {"pending"}, "invitation", NoValue),
             Rule("invitation", {NoValue}, "status", "pending")}
      [] OTHER -> {}
RowFollows == \A r \in Rules : record[r.mark] = r.unset => record[r.col] \in r.only
Unrevoked(row) == row.revoked = NoValue /\ row.by = NoValue
\* The address of an alumnus is the one of the form until somebody is in contact.
AddressOfForm == record.contacted = NoValue => record.email = answered.email
RowInv ==
    There(record) =>
        /\ DOMAIN record \subseteq DOMAIN answered
        /\ kind \in DOMAIN Filed => DOMAIN record = DOMAIN Filed[kind]
        /\ kind = "optout" => {"reason", "by"} \subseteq DOMAIN record
        /\ \A k \in DOMAIN record : k \in raced \/ record[k] = answered[k]
        /\ RowFollows
        /\ kind = "substitute" =>
              Unrevoked(record) \/ (record.by \in Callers /\ record.revoked = <<record.by, 0>>)
        /\ kind = "invite" => record.status \in {"pending", "dispatched"}
        /\ kind = "alumnus" => AddressOfForm

\* What a request sends obeys the rules.
SentWell(c, sent) ==
    /\ \A r \in Rules : /\ r.mark \in DOMAIN sent => sent[r.mark] # r.unset
                        /\ r.col \in DOMAIN sent => sent[r.col] \in r.only \/ r.mark \in DOMAIN sent
    /\ kind = "substitute" => sent = [revoked |-> <<c, 0>>, by |-> c]
    /\ kind = "optout" => DOMAIN sent = {"reason", "by"}
    /\ kind = "invite" => sent.status = "dispatched"
    /\ kind = "alumnus" => sent = << >> \/ "contacted" \in DOMAIN sent
\* A request that saves knows the columns it sends, and the marks it saw are set.
SeenWell(seen, sent) ==
    There(seen) =>
        /\ \A k \in DOMAIN sent :
              k \in raced \/ (There(record) /\ (k \in DOMAIN record => record[k] = seen[k]))
        /\ \A r \in Rules : seen[r.mark] # r.unset => There(record) /\ record[r.mark] # r.unset
SaveKnows(g, c) ==
    g.op = "save" =>
        /\ g.on = DOMAIN g.sent /\ SentWell(c, g.sent) /\ SeenWell(g.seen, g.sent)
        /\ kind \in DOMAIN Filed => There(g.seen)
        /\ kind = "substitute" => Unrevoked(g.seen)
RemovalKnows(g) == g.op = "remove" => kind = "optout" /\ {"reason", "by"} \subseteq g.on
RecordRequests ==
    /\ request = [c \in Callers |-> request[c]] /\ OneAtATime
    /\ \A c \in Callers : SaveKnows(request[c], c) /\ RemovalKnows(request[c])
RecordsInv == RecordRequests /\ RowInv

LEMMA NoRules ==
  ASSUME kind \notin {"staff", "submission", "admission", "grievance", "alumnus", "invite"}
  PROVE  Rules = {}
BY DEF Rules

LEMMA RulesAreFiled ==
  ASSUME NEW r \in Rules
  PROVE  /\ kind \in DOMAIN Filed
         /\ r.mark \in DOMAIN Filed[kind] /\ r.col \in DOMAIN Filed[kind]
         /\ kind # "substitute" /\ kind # "optout"
         /\ Filed[kind][r.mark] = r.unset => Filed[kind][r.col] \in r.only
<1>1. CASE kind = "staff"
  <2>1. PICK row : row = Filed["staff"]  OBVIOUS
  <2>2. /\ "staff" \in DOMAIN Filed /\ DOMAIN row = {"active", "left"}
        /\ row.active = TRUE /\ row.left = NoValue
    BY <2>1 DEF Filed
  <2>3. \/ r = Rule("active", {TRUE}, "left", NoValue)
        \/ r = Rule("left", {NoValue}, "active", TRUE)
    BY <1>1 DEF Rules
  <2>4. ASSUME NEW x, NEW S, NEW y, NEW v, r = Rule(x, S, y, v)
        PROVE  r.col = x /\ r.only = S /\ r.mark = y /\ r.unset = v
    BY <2>4 DEF Rule
  <2>5. \/ r.col = "active" /\ r.only = {TRUE} /\ r.mark = "left"
        \/ r.col = "left" /\ r.only = {NoValue} /\ r.mark = "active"
    BY <2>3, <2>4
  <2>6. \A v : v \in {v}  OBVIOUS
  <2>7. row[r.mark] = r.unset => row[r.col] \in r.only  BY <2>2, <2>5, <2>6
  <2> QED  BY <1>1, <2>1, <2>2, <2>5, <2>7
<1>2. CASE kind = "submission"  BY <1>2 DEF Rules, Rule, Filed
<1>3. CASE kind = "admission"  BY <1>3 DEF Rules, Rule, Filed
<1>4. CASE kind = "grievance"  BY <1>4 DEF Rules, Rule, Filed
<1>5. CASE kind = "alumnus"  BY <1>5 DEF Rules, Rule, Filed, Maybe
<1>6. CASE kind = "invite"  BY <1>6 DEF Rules, Rule, Filed
<1> QED  BY <1>1, <1>2, <1>3, <1>4, <1>5, <1>6, NoRules

LEMMA TheFiled ==
  /\ "substitute" \in DOMAIN Filed /\ Unrevoked(Filed["substitute"])
  /\ "optout" \notin DOMAIN Filed /\ "preference" \notin DOMAIN Filed
  /\ "invite" \in DOMAIN Filed /\ "status" \in DOMAIN Filed["invite"]
  /\ Filed["invite"].status = "pending"
BY DEF Filed, Unrevoked

\* What a said says changes no column that a rule is about but the address of an alumnus.
LEMMA FormsFillRows ==
  ASSUME kind \in DOMAIN Filed, NEW a \in Entries, NEW b \in Maybe, NEW row,
         row = Filled(Filed[kind], Form(a, b))
  PROVE  /\ DOMAIN row = DOMAIN Filed[kind]
         /\ kind \in {"staff", "submission", "admission", "grievance", "substitute", "invite"} =>
               \A k \in DOMAIN row : row[k] = Filed[kind][k]
         /\ kind = "alumnus" => row.email \in Maybe
<1>1. CASE kind \in {"phrase", "incident", "alumnus", "lessonplan", "homework"}
  <2>1. PICK said : said = Form(a, b)  OBVIOUS
  <2>2. /\ kind = "phrase" => said = [text |-> a]
        /\ kind = "incident" => said = [severity |-> a]
        /\ kind = "alumnus" => said = [email |-> b]
        /\ kind = "lessonplan" => said = [title |-> a, activities |-> b]
        /\ kind = "homework" => said = [title |-> a, topics |-> b]
    BY <2>1 DEF Form
  <2>3. /\ kind = "phrase" => DOMAIN Filed[kind] = {"text", "archived"}
        /\ kind = "incident" => DOMAIN Filed[kind] = {"severity", "resolved"}
        /\ kind = "alumnus" => DOMAIN Filed[kind] = {"email", "contacted"}
        /\ kind = "lessonplan" => DOMAIN Filed[kind] = {"title", "activities"}
        /\ kind = "homework" => DOMAIN Filed[kind] = {"title", "topics"}
    BY DEF Filed
  <2>4. DOMAIN said \subseteq DOMAIN Filed[kind]  BY <1>1, <2>2, <2>3
  <2>5. /\ DOMAIN row = DOMAIN Filed[kind]
        /\ \A k \in DOMAIN said : row[k] = said[k]
    BY <2>1, <2>4 DEF Filled
  <2>6. kind = "alumnus" => row.email = b  BY <2>2, <2>5
  <2> QED  BY <1>1, <2>5, <2>6
<1>2. CASE kind \notin {"phrase", "incident", "alumnus", "lessonplan", "homework"}
  <2>1. DOMAIN Form(a, b) = {}  BY <1>2 DEF Form
  <2> QED  BY <1>2, <2>1 DEF Filled
<1> QED  BY <1>1, <1>2

LEMMA RulesStay == ASSUME kind' = kind PROVE Rules' = Rules
BY DEF Rules, Rule, Maybe

\* What a request knows, while nobody writes in columns that it sends and is not raced about.
LEMMA SaveKnowledgeStays ==
  ASSUME NEW g, NEW c, SaveKnows(g, c), kind' = kind, raced \subseteq raced',
         g.op = "save" /\ There(g.seen) =>
             /\ \A k \in DOMAIN g.sent :
                   \/ k \in raced'
                   \/ /\ There(record) => There(record')
                      /\ k \in DOMAIN record' => k \in DOMAIN record /\ record'[k] = record[k]
             /\ \A r \in Rules : There(record) /\ record[r.mark] # r.unset =>
                                   There(record') /\ record'[r.mark] # r.unset
  PROVE  SaveKnows(g, c)'
<1> SUFFICES ASSUME g.op = "save" PROVE SaveKnows(g, c)'  BY DEF SaveKnows
<1>1. Rules' = Rules  BY RulesStay
<1>2. SentWell(c, g.sent)'  BY <1>1 DEF SaveKnows, SentWell
<1>3. SeenWell(g.seen, g.sent)'
  <2> SUFFICES ASSUME There(g.seen)
               PROVE  /\ \A k \in DOMAIN g.sent :
                            \/ k \in raced'
                            \/ /\ There(record')
                               /\ k \in DOMAIN record' => record'[k] = g.seen[k]
                      /\ \A r \in Rules : g.seen[r.mark] # r.unset =>
                            There(record') /\ record'[r.mark] # r.unset
    BY <1>1 DEF SeenWell
  <2>1. ASSUME NEW k \in DOMAIN g.sent, k \notin raced'
        PROVE  There(record') /\ (k \in DOMAIN record' => record'[k] = g.seen[k])
    <3>1. There(record) /\ (k \in DOMAIN record => record[k] = g.seen[k])
      BY <2>1 DEF SaveKnows, SeenWell
    <3> QED  BY <2>1, <3>1
  <2>2. ASSUME NEW r \in Rules, g.seen[r.mark] # r.unset
        PROVE  There(record') /\ record'[r.mark] # r.unset
    BY <2>2 DEF SaveKnows, SeenWell
  <2> QED  BY <2>1, <2>2
<1> QED  BY <1>2, <1>3 DEF SaveKnows

LEMMA RowRests ==
  ASSUME UNCHANGED recordVars, raced \subseteq raced'
  PROVE  /\ RowInv => RowInv'
         /\ \A g, c : SaveKnows(g, c) => SaveKnows(g, c)'
         /\ \A g : RemovalKnows(g) => RemovalKnows(g)'
<1>1. kind' = kind /\ record' = record /\ answered' = answered  BY DEF recordVars
<1>2. Rules' = Rules  BY <1>1, RulesStay
<1>3. RowInv => RowInv'  BY <1>1, <1>2 DEF RowInv, RowFollows, Unrevoked, AddressOfForm
<1>4. ASSUME NEW g, NEW c, SaveKnows(g, c) PROVE SaveKnows(g, c)'
  BY <1>1, <1>4, SaveKnowledgeStays
<1>5. \A g : RemovalKnows(g) => RemovalKnows(g)'  BY <1>1 DEF RemovalKnows
<1> QED  BY <1>3, <1>4, <1>5

\* A request reads, or ends without having written.
LEMMA RecordRequestChanges ==
  ASSUME RecordsInv, NEW c \in Callers, UNCHANGED recordVars, raced \subseteq raced',
         request' = [d \in Callers |-> request'[d]], OneAtATime',
         \A d \in Callers : d # c => request'[d] = request[d],
         SaveKnows(request'[c], c), RemovalKnows(request'[c])
  PROVE  RecordsInv'
<1>1. ASSUME NEW d \in Callers PROVE SaveKnows(request[d], d)' /\ RemovalKnows(request[d])'
  <2>1. PICK g : g = request'[d]  OBVIOUS
  <2>2. SaveKnows(g, d) /\ RemovalKnows(g)  BY <2>1 DEF RecordsInv, RecordRequests
  <2>3. SaveKnows(g, d)' /\ RemovalKnows(g)'  BY <2>2, RowRests
  <2> QED  BY <2>1, <2>3
<1> QED  BY <1>1, RowRests DEF RecordsInv, RecordRequests

LEMMA ReadingKeepsRecords ==
  ASSUME RecordsInv, NEW c \in Callers, NEW k, NEW sent, ReadRecord(c, k, sent),
         SentWell(c, sent), kind = "substitute" => Unrevoked(record)
  PROVE  RecordsInv'
<1> PICK req : req = [op |-> "save", on |-> DOMAIN sent, seen |-> record, sent |-> sent]
  OBVIOUS
<1>1. /\ kind = k /\ (kind \in DOMAIN Filed => There(record)) /\ Reads(c, req)
      /\ UNCHANGED recordVars
  BY DEF ReadRecord
<1>2. /\ request' = [d \in Callers |-> request'[d]] /\ OneAtATime' /\ raced \subseteq raced'
      /\ request'[c] = req /\ \A d \in Callers : d # c => request'[d] = request[d]
  BY <1>1, ReadsOnce DEF RecordsInv, RecordRequests
<1>3. req.op = "save" /\ req.on = DOMAIN sent /\ req.seen = record /\ req.sent = sent
  OBVIOUS
<1>4. SeenWell(record, sent)  BY DEF SeenWell
<1>5. SaveKnows(req, c) /\ RemovalKnows(req)  BY <1>1, <1>3, <1>4 DEF SaveKnows, RemovalKnows
<1> QED  BY <1>1, <1>2, <1>5, RecordRequestChanges

LEMMA PlainReadingKeeps ==
  ASSUME RecordsInv, NEW c \in Callers, NEW k, NEW sent, ReadRecord(c, k, sent),
         k \notin {"staff", "substitute", "submission", "admission", "grievance", "alumnus",
                   "invite", "optout"}
  PROVE  RecordsInv'
<1>1. kind = k  BY DEF ReadRecord
<1>2. SentWell(c, sent)  BY <1>1, NoRules DEF SentWell
<1> QED  BY <1>1, <1>2, ReadingKeepsRecords
\* Who reads and sends what.
LEMMA StaffReadingKeeps ==
  ASSUME RecordsInv, NEW c \in Callers, TerminateStaff(c) PROVE RecordsInv'
<1>1. PICK sent : sent = [active |-> FALSE, left |-> c] /\ ReadRecord(c, "staff", sent)
                  /\ kind = "staff"
  BY DEF TerminateStaff
<1>2. DOMAIN sent = {"active", "left"} /\ ~sent.active /\ sent.left = c  BY <1>1
<1>3. c # NoValue  BY RecordsAssumption
<1>4. ASSUME NEW r \in Rules
      PROVE  /\ r.mark \in DOMAIN sent => sent[r.mark] # r.unset
             /\ r.col \in DOMAIN sent => sent[r.col] \in r.only \/ r.mark \in DOMAIN sent
  <2> PICK yes : yes = TRUE  OBVIOUS
  <2>1. \/ r = Rule("active", {yes}, "left", NoValue)
        \/ r = Rule("left", {NoValue}, "active", yes)
    BY <1>1 DEF Rules
  <2>2. \/ r.mark = "left" /\ r.unset = NoValue
        \/ r.mark = "active" /\ r.unset = yes
    <3>1. ASSUME NEW x, NEW S, NEW y, NEW v, r = Rule(x, S, y, v)
          PROVE  r.mark = y /\ r.unset = v
      BY <3>1 DEF Rule
    <3> QED  BY <2>1, <3>1
  <2>3. sent.active # yes  BY <1>2
  <2> QED  BY <2>2, <2>3, <1>2, <1>3
<1>5. SentWell(c, sent)  BY <1>1, <1>4 DEF SentWell
<1> QED  BY <1>1, <1>5, ReadingKeepsRecords

LEMMA SubstituteReadingKeeps ==
  ASSUME RecordsInv, NEW c \in Callers, RevokeSubstitute(c) PROVE RecordsInv'
<1> PICK sent : sent = [revoked |-> <<c, 0>>, by |-> c]  OBVIOUS
<1>1. NoValue # <<c, 0>>  BY RecordsAssumption
<1>2. /\ ReadRecord(c, "substitute", sent) /\ kind = "substitute"
      /\ There(record) /\ record.revoked = NoValue
  BY <1>1 DEF RevokeSubstitute, Now
<1>3. \A d \in Callers : NoValue # <<d, 0>>  BY RecordsAssumption
<1>4. Unrevoked(record)
  BY <1>2, <1>3 DEF RecordsInv, RowInv, Unrevoked
<1>5. SentWell(c, sent)  BY <1>2, NoRules DEF SentWell
<1> QED  BY <1>2, <1>4, <1>5, ReadingKeepsRecords

LEMMA SubmissionReadingKeeps ==
  ASSUME RecordsInv, NEW c \in Callers, NEW status \in {"submitted", "accepted", "rejected"},
         NEW notes, DecideSubmission(c, status, notes)
  PROVE  RecordsInv'
<1>1. PICK sent :
        /\ ReadRecord(c, "submission", sent)
        /\ \/ status = "submitted" /\ sent = [status |-> status, submitted |-> c]
           \/ status = "accepted" /\ sent = [status |-> status, accepted |-> c]
           \/ status = "rejected" /\ sent = [status |-> status, notes |-> notes]
  BY DEF DecideSubmission
<1>2. kind = "submission"  BY <1>1 DEF ReadRecord
<1>3. c # NoValue  BY RecordsAssumption
<1>4. ASSUME NEW r \in Rules
      PROVE  /\ r.mark \in DOMAIN sent => sent[r.mark] # r.unset
             /\ r.col \in DOMAIN sent => sent[r.col] \in r.only \/ r.mark \in DOMAIN sent
  <2>1. /\ r.unset = NoValue /\ r.col = "status"
        /\ \/ r.mark = "submitted" /\ r.only = {"draft", "accepted", "rejected"}
           \/ r.mark = "accepted" /\ r.only = {"draft", "submitted", "rejected"}
    BY <1>2 DEF Rules, Rule
  <2> QED  BY <2>1, <1>1, <1>3
<1>5. SentWell(c, sent)  BY <1>2, <1>4 DEF SentWell
<1> QED  BY <1>1, <1>2, <1>5, ReadingKeepsRecords

\* What is left of a form.
LEMMA SentHas ==
  ASSUME NEW asked
  PROVE  /\ DOMAIN Sent(asked) = {x \in DOMAIN asked : asked[x] # NoValue}
         /\ \A x \in DOMAIN Sent(asked) : Sent(asked)[x] = asked[x] /\ asked[x] # NoValue
BY DEF Sent

LEMMA AdmissionReadingKeeps ==
  ASSUME RecordsInv, NEW c \in Callers, NEW status \in {"accepted", "rejected", "enrolled"},
         NEW student, Decide(c, status, student)
  PROVE  RecordsInv'
<1> PICK asked : asked = [status |-> status, student |-> student]  OBVIOUS
<1> PICK sent : sent = Sent(asked)  OBVIOUS
<1>1. ReadRecord(c, "admission", sent) /\ (status = "enrolled" <=> student # NoValue)
  BY DEF Decide
<1>2. kind = "admission"  BY <1>1 DEF ReadRecord
<1>3. /\ \A x \in DOMAIN sent : sent[x] = asked[x] /\ asked[x] # NoValue
      /\ student # NoValue => "student" \in DOMAIN sent
      /\ asked.status = status /\ asked.student = student
  BY SentHas
<1>4. ASSUME NEW r \in Rules
      PROVE  /\ r.mark \in DOMAIN sent => sent[r.mark] # r.unset
             /\ r.col \in DOMAIN sent => sent[r.col] \in r.only \/ r.mark \in DOMAIN sent
  <2>1. /\ r.unset = NoValue /\ r.col = "status" /\ r.mark = "student"
        /\ r.only = {"submitted", "accepted", "rejected"}
    BY <1>2 DEF Rules, Rule
  <2>2. "status" \in DOMAIN sent => sent["status"] = status  BY <1>3
  <2>3. "student" \in DOMAIN sent => sent["student"] # NoValue  BY <1>3
  <2> QED  BY <2>1, <2>2, <2>3, <1>1, <1>3
<1>5. SentWell(c, sent)  BY <1>2, <1>4 DEF SentWell
<1> QED  BY <1>1, <1>2, <1>5, ReadingKeepsRecords

LEMMA GrievanceReadingKeeps ==
  ASSUME RecordsInv, NEW c \in Callers, NEW status \in {"in_review", "resolved", "dismissed"},
         NEW notes, ResolveGrievance(c, status, notes)
  PROVE  RecordsInv'
<1>1. PICK sent :
        /\ ReadRecord(c, "grievance", sent)
        /\ \/ status = "in_review" /\ sent = [status |-> status, notes |-> notes]
           \/ status # "in_review"
              /\ sent = [status |-> status, notes |-> notes, resolved |-> c]
  BY DEF ResolveGrievance
<1>2. kind = "grievance"  BY <1>1 DEF ReadRecord
<1>3. c # NoValue  BY RecordsAssumption
<1>4. ASSUME NEW r \in Rules
      PROVE  /\ r.mark \in DOMAIN sent => sent[r.mark] # r.unset
             /\ r.col \in DOMAIN sent => sent[r.col] \in r.only \/ r.mark \in DOMAIN sent
  <2>1. /\ r.unset = NoValue /\ r.col = "status" /\ r.mark = "resolved"
        /\ r.only = {"open", "in_review"}
    BY <1>2 DEF Rules, Rule
  <2> QED  BY <2>1, <1>1, <1>3
<1>5. SentWell(c, sent)  BY <1>2, <1>4 DEF SentWell
<1> QED  BY <1>1, <1>2, <1>5, ReadingKeepsRecords

LEMMA AlumnusReadingKeeps ==
  ASSUME RecordsInv, NEW c \in Callers, NEW a, UpdateAlumnus(c, a) PROVE RecordsInv'
<1>1. PICK sent :
        /\ ReadRecord(c, "alumnus", sent)
        /\ sent = << >> \/ sent = [email |-> a, contacted |-> c]
  BY DEF UpdateAlumnus
<1>2. kind = "alumnus"  BY <1>1 DEF ReadRecord
<1>3. c # NoValue  BY RecordsAssumption
<1>4. ASSUME NEW r \in Rules
      PROVE  /\ r.mark \in DOMAIN sent => sent[r.mark] # r.unset
             /\ r.col \in DOMAIN sent => sent[r.col] \in r.only \/ r.mark \in DOMAIN sent
  <2>1. r.unset = NoValue /\ r.col = "email" /\ r.mark = "contacted"
    BY <1>2 DEF Rules, Rule
  <2>2. CASE sent = << >>
    <3>1. DOMAIN sent = {}  BY <2>2
    <3> QED  BY <3>1
  <2>3. CASE sent = [email |-> a, contacted |-> c]  BY <2>1, <2>3, <1>3
  <2> QED  BY <2>2, <2>3, <1>1
<1>5. sent = << >> \/ "contacted" \in DOMAIN sent
  <2>1. CASE sent = [email |-> a, contacted |-> c]
    <3>1. DOMAIN sent = {"email", "contacted"}  BY <2>1
    <3> QED  BY <3>1
  <2> QED  BY <1>1, <2>1
<1>6. SentWell(c, sent)  BY <1>2, <1>4, <1>5, NoRules DEF SentWell
<1> QED  BY <1>1, <1>2, <1>6, ReadingKeepsRecords

LEMMA InviteReadingKeeps ==
  ASSUME RecordsInv, NEW c \in Callers, NEW a \in Entries, MarkDispatched(c, a)
  PROVE  RecordsInv'
<1> PICK sent : sent = [status |-> "dispatched", invitation |-> a]  OBVIOUS
<1>1. ReadRecord(c, "invite", sent)  BY DEF MarkDispatched
<1>2. kind = "invite"  BY <1>1 DEF ReadRecord
<1>3. a # NoValue  BY RecordsAssumption
<1>4. ASSUME NEW r \in Rules
      PROVE  /\ r.mark \in DOMAIN sent => sent[r.mark] # r.unset
             /\ r.col \in DOMAIN sent => sent[r.col] \in r.only \/ r.mark \in DOMAIN sent
  <2>1. \/ r.mark = "invitation" /\ r.unset = NoValue
        \/ r.mark = "status" /\ r.unset = "pending"
    BY <1>2 DEF Rules, Rule
  <2> QED  BY <2>1, <1>3
<1>5. sent.status = "dispatched"  OBVIOUS
<1>6. SentWell(c, sent)  BY <1>2, <1>4, <1>5 DEF SentWell
<1> QED  BY <1>1, <1>2, <1>6, ReadingKeepsRecords

LEMMA OptOutReadingKeeps ==
  ASSUME RecordsInv, NEW c \in Callers, NEW a, PutOptOut(c, a) PROVE RecordsInv'
<1> PICK sent : sent = [reason |-> a, by |-> c]  OBVIOUS
<1>1. ReadRecord(c, "optout", sent)  BY DEF PutOptOut
<1>2. kind = "optout"  BY <1>1 DEF ReadRecord
<1>3. DOMAIN sent = {"reason", "by"}  OBVIOUS
<1>4. SentWell(c, sent)  BY <1>2, <1>3, NoRules DEF SentWell
<1> QED  BY <1>1, <1>2, <1>4, ReadingKeepsRecords

LEMMA RemovalReadingKeeps ==
  ASSUME RecordsInv, NEW c \in Callers, ReadForRemoval(c) PROVE RecordsInv'
<1> PICK req : req = [op |-> "remove", on |-> DOMAIN record]  OBVIOUS
<1>1. kind = "optout" /\ There(record) /\ Reads(c, req) /\ UNCHANGED recordVars
  BY DEF ReadForRemoval
<1>2. /\ request' = [d \in Callers |-> request'[d]] /\ OneAtATime' /\ raced \subseteq raced'
      /\ request'[c] = req /\ \A d \in Callers : d # c => request'[d] = request[d]
  BY <1>1, ReadsOnce DEF RecordsInv, RecordRequests
<1>3. {"reason", "by"} \subseteq DOMAIN record  BY <1>1 DEF RecordsInv, RowInv
<1>4. SaveKnows(req, c) /\ RemovalKnows(req)  BY <1>1, <1>3 DEF SaveKnows, RemovalKnows
<1> QED  BY <1>1, <1>2, <1>4, RecordRequestChanges

LEMMA GivingUpKeepsRecords ==
  ASSUME RecordsInv, NEW c \in Callers, GivesUp(c), UNCHANGED recordVars PROVE RecordsInv'
<1>1. /\ request' = [d \in Callers |-> request'[d]] /\ OneAtATime' /\ raced' = raced
      /\ request'[c] = Idle /\ \A d \in Callers : d # c => request'[d] = request[d]
  BY EndsOnce DEF RecordsInv, RecordRequests, GivesUp
<1>2. SaveKnows(Idle, c) /\ RemovalKnows(Idle)  BY DEF SaveKnows, RemovalKnows, Idle
<1> QED  BY <1>1, <1>2, RecordRequestChanges

LEMMA OtherReadingKeeps ==
  ASSUME RecordsInv, NEW c \in Callers,
         \/ ArchivePhrase(c) \/ Grant(c) \/ Revoke(c) \/ SignOut(c) \/ PublishTemplate(c)
         \/ UnpublishTemplate(c) \/ ConfirmPayment(c) \/ RedactMessage(c) \/ DeleteAnnouncement(c)
         \/ \E a, b :
               \/ UpdatePhrase(c, a) \/ PutSiblingRule(c, a) \/ SubmitResponse(c, a)
               \/ TagResource(c, a) \/ Evaluate(c, a, b) \/ SyncHomework(c, a, b)
               \/ UpsertSchool(c, a, b) \/ PutPaymentConfig(c, a, b)
               \/ PutNotificationConfig(c, a, b) \/ PutHealth(c, a, b)
               \/ UpdateIncident(c, a, b) \/ UpdateLessonPlan(c, a, b)
               \/ UpdateProject(c, a, b) \/ UpdatePreference(c, a, b)
               \/ UpdateSponsorship(c, a, b)
  PROVE  RecordsInv'
<1>1. PICK k \in {"phrase", "grant", "visitor", "template", "payment", "message", "announcement",
                  "siblingrule", "response", "resource", "evaluation", "homework", "school",
                  "paymentcfg", "channelcfg", "health", "incident", "lessonplan", "project",
                  "preference", "sponsorship"} : \E sent : ReadRecord(c, k, sent)
  BY DEF ArchivePhrase, Grant, Revoke, SignOut, PublishTemplate, UnpublishTemplate,
         ConfirmPayment, RedactMessage, DeleteAnnouncement, UpdatePhrase, PutSiblingRule,
         SubmitResponse, TagResource, Evaluate, SyncHomework, UpsertSchool, PutPaymentConfig,
         PutNotificationConfig, PutHealth, UpdateIncident, UpdateLessonPlan, UpdateProject,
         UpdatePreference, UpdateSponsorship
<1> QED  BY <1>1, PlainReadingKeeps
\* A row is there that was not, without a request.
LEMMA AppearingKeeps ==
  ASSUME RecordsInv,
         \/ \E a \in Entries, b \in Maybe : Apply(a, b)
         \/ \E c \in Callers : SeedPreference(c)
  PROVE  RecordsInv'
<1>1. /\ ~There(record) /\ UNCHANGED <<kind, request, raced>> /\ answered' = record'
      /\ \/ /\ kind \in DOMAIN Filed
            /\ \E a \in Entries, b \in Maybe : record' = Filled(Filed[kind], Form(a, b))
         \/ kind = "preference"
  BY DEF Apply, SeedPreference, callers
<1>2. Rules' = Rules  BY <1>1, RulesStay
<1>3. ASSUME NEW c \in Callers PROVE SaveKnows(request[c], c)' /\ RemovalKnows(request[c])'
  <2>1. PICK g : g = request[c]  OBVIOUS
  <2>2. SaveKnows(g, c) /\ RemovalKnows(g)  BY <2>1 DEF RecordsInv, RecordRequests
  <2>3. g.op = "save" /\ There(g.seen) => \A k \in DOMAIN g.sent : k \in raced
    BY <2>2, <1>1 DEF SaveKnows, SeenWell
  <2>4. SaveKnows(g, c)'  BY <2>2, <2>3, <1>1, SaveKnowledgeStays
  <2>5. RemovalKnows(g)'  BY <2>2, <1>1 DEF RemovalKnows
  <2> QED  BY <2>1, <2>4, <2>5, <1>1
<1>4. RecordRequests'
  BY <1>1, <1>3 DEF RecordsInv, RecordRequests, OneAtATime
<1>5. RowInv'
  <2>1. CASE /\ kind \in DOMAIN Filed
             /\ \E a \in Entries, b \in Maybe : record' = Filled(Filed[kind], Form(a, b))
    <3>1. PICK row : row = record'  OBVIOUS
    <3>a. /\ DOMAIN row = DOMAIN Filed[kind]
          /\ kind \in {"staff", "submission", "admission", "grievance", "substitute", "invite"} =>
                \A k \in DOMAIN row : row[k] = Filed[kind][k]
          /\ kind = "alumnus" => row.email \in Maybe
      BY <2>1, <3>1, FormsFillRows
    <3>2. \A r \in Rules : row[r.mark] = r.unset => row[r.col] \in r.only
      <4> SUFFICES ASSUME NEW r \in Rules, row[r.mark] = r.unset PROVE row[r.col] \in r.only
        OBVIOUS
      <4>1. CASE kind = "alumnus"
        <5>1. r.col = "email" /\ r.only = Maybe  BY <4>1 DEF Rules, Rule
        <5> QED  BY <4>1, <5>1, <3>a
      <4>2. CASE kind # "alumnus"
        <5>1. kind \in {"staff", "submission", "admission", "grievance", "invite"}
          BY <4>2, NoRules
        <5> QED  BY <5>1, <3>a, RulesAreFiled
      <4> QED  BY <4>1, <4>2
    <3>3. kind = "substitute" => Unrevoked(row)
      <4>1. kind = "substitute" => {"revoked", "by"} \subseteq DOMAIN Filed[kind]  BY DEF Filed
      <4> QED  BY <4>1, <3>a, TheFiled DEF Unrevoked
    <3>4. kind # "optout"  BY <2>1, TheFiled
    <3>5. DOMAIN row = DOMAIN Filed[kind] /\ record' = row /\ answered' = row /\ kind' = kind
      BY <3>1, <3>a, <1>1
    <3>6. RowFollows'  BY <3>2, <3>5, <1>2 DEF RowFollows
    <3>7. kind = "substitute" => Unrevoked(record)'  BY <3>3, <3>5 DEF Unrevoked
    <3>8. kind = "invite" => row.status = "pending"  BY <3>a, TheFiled
    <3>9. AddressOfForm'  BY <3>5 DEF AddressOfForm
    <3> QED  BY <3>4, <3>5, <3>6, <3>7, <3>8, <3>9 DEF RowInv
  <2>2. CASE kind = "preference"
    <3>1. Rules = {} /\ kind \notin DOMAIN Filed  BY <2>2, NoRules, TheFiled
    <3> QED  BY <2>2, <3>1, <1>1, <1>2 DEF RowInv, RowFollows
  <2> QED  BY <2>1, <2>2, <1>1
<1> QED  BY <1>4, <1>5 DEF RecordsInv

\* What others know when a request has written: they sent none of its columns, or it is raced.
LEMMA WritersKeep ==
  ASSUME RecordsInv, NEW c \in Callers, Ends(c), kind' = kind,
         NEW cols, cols \subseteq request[c].on \cup raced,
         There(record) =>
             \A k : k \notin cols =>
                 /\ There(record')
                 /\ k \in DOMAIN record' => k \in DOMAIN record /\ record'[k] = record[k],
         \A r \in Rules : There(record) /\ record[r.mark] # r.unset =>
                            There(record') /\ record'[r.mark] # r.unset
  PROVE  RecordRequests' /\ raced' = raced
<1>1. /\ request' = [d \in Callers |-> request'[d]] /\ OneAtATime' /\ raced' = raced
      /\ request'[c] = Idle /\ \A d \in Callers : d # c => request'[d] = request[d]
  BY EndsOnce DEF RecordsInv, RecordRequests
<1>2. ASSUME NEW d \in Callers PROVE SaveKnows(request[d], d)' /\ RemovalKnows(request[d])'
  <2>1. CASE d = c
    BY <2>1, <1>1 DEF SaveKnows, RemovalKnows, Idle
  <2>2. CASE d # c
    <3>1. PICK g : g = request[d]  OBVIOUS
    <3>2. SaveKnows(g, d) /\ RemovalKnows(g)  BY <3>1 DEF RecordsInv, RecordRequests
    <3>3. ASSUME g.op = "save", There(g.seen), NEW k \in DOMAIN g.sent, k \notin raced
          PROVE  /\ There(record) => There(record')
                 /\ k \in DOMAIN record' => k \in DOMAIN record /\ record'[k] = record[k]
      <4>1. g.on = DOMAIN g.sent  BY <3>2, <3>3 DEF SaveKnows
      <4>2. k \notin cols
        BY <4>1, <3>1, <3>3, <2>2 DEF RecordsInv, RecordRequests, OneAtATime
      <4>3. There(record)  BY <3>2, <3>3 DEF SaveKnows, SeenWell
      <4> QED  BY <4>2, <4>3
    <3>4. SaveKnows(g, d)'  BY <3>2, <3>3, <1>1, SaveKnowledgeStays
    <3>5. RemovalKnows(g)'  BY <3>2 DEF RemovalKnows
    <3> QED  BY <3>1, <3>4, <3>5, <2>2, <1>1
  <2> QED  BY <2>1, <2>2
<1> QED  BY <1>1, <1>2 DEF RecordRequests

LEMMA RemovingKeeps ==
  ASSUME RecordsInv, NEW c \in Callers, RemoveOptOut(c) PROVE RecordsInv'
<1>1. /\ request[c].op = "remove" /\ ~There(record') /\ kind' = kind /\ Ends(c)
  <2>1. ~There(Missing)  BY DEF Missing, There
  <2> QED  BY <2>1 DEF RemoveOptOut
<1>2. kind = "optout" /\ {"reason", "by"} \subseteq request[c].on
  BY <1>1 DEF RecordsInv, RecordRequests, RemovalKnows
<1>3. Rules = {}  BY <1>2, NoRules
<1>4. /\ request' = [d \in Callers |-> request'[d]] /\ OneAtATime' /\ raced' = raced
      /\ request'[c] = Idle /\ \A d \in Callers : d # c => request'[d] = request[d]
  BY <1>1, EndsOnce DEF RecordsInv, RecordRequests
<1>5. ASSUME NEW d \in Callers PROVE SaveKnows(request[d], d)' /\ RemovalKnows(request[d])'
  <2>1. CASE d = c
    BY <2>1, <1>4 DEF SaveKnows, RemovalKnows, Idle
  <2>2. CASE d # c
    <3>1. PICK g : g = request[d]  OBVIOUS
    <3>2. SaveKnows(g, d) /\ RemovalKnows(g)  BY <3>1 DEF RecordsInv, RecordRequests
    <3>3. ASSUME g.op = "save", NEW k \in DOMAIN g.sent PROVE k \in raced'
      <4>1. g.on = DOMAIN g.sent /\ DOMAIN g.sent = {"reason", "by"}
        BY <3>2, <3>3, <1>2 DEF SaveKnows, SentWell
      <4> QED
        BY <4>1, <3>1, <3>3, <2>2, <1>2, <1>4 DEF RecordsInv, RecordRequests, OneAtATime
    <3>4. SaveKnows(g, d)'  BY <3>2, <3>3, <1>1, <1>3, <1>4, SaveKnowledgeStays
    <3>5. RemovalKnows(g)'  BY <3>2, <1>1 DEF RemovalKnows
    <3> QED  BY <3>1, <3>4, <3>5, <2>2, <1>4
  <2> QED  BY <2>1, <2>2
<1>6. RowInv'  BY <1>1 DEF RowInv
<1> QED  BY <1>4, <1>5, <1>6 DEF RecordsInv, RecordRequests

\* A row that was not there is inserted.
LEMMA InsertingKeeps ==
  ASSUME RecordsInv, NEW c \in Callers, Save(c), ~There(request[c].seen) PROVE RecordsInv'
<1> PICK sent : sent = request[c].sent  OBVIOUS
<1>1. /\ ~There(record) /\ answered' = record' /\ kind' = kind /\ Ends(c)
      /\ record' = Filled(Upserted[kind], sent) /\ request[c].op = "save"
  BY DEF Save
<1>2. kind \notin DOMAIN Filed /\ SentWell(c, sent)
  BY <1>1 DEF RecordsInv, RecordRequests, SaveKnows
<1>3. Rules = {} /\ Rules' = {} /\ kind # "substitute" /\ kind # "invite" /\ kind # "alumnus"
  <2>1. "alumnus" \in DOMAIN Filed  BY DEF Filed
  <2> QED  BY <2>1, <1>1, <1>2, RulesAreFiled, RulesStay, TheFiled
<1>4. RecordRequests' /\ raced' = raced
  BY <1>1, <1>3, WritersKeep
<1>5. kind = "optout" => {"reason", "by"} \subseteq DOMAIN record'
  BY <1>1, <1>2 DEF SentWell, Filled
<1>6. RowInv'  BY <1>1, <1>2, <1>3, <1>5 DEF RowInv, RowFollows
<1> QED  BY <1>4, <1>6 DEF RecordsInv

\* A row that was there is updated.
LEMMA UpdatingKeeps ==
  ASSUME RecordsInv, NEW c \in Callers, Save(c), There(request[c].seen) PROVE RecordsInv'
<1> PICK sent, seen : sent = request[c].sent /\ seen = request[c].seen  OBVIOUS
<1>1. /\ There(record) /\ kind' = kind /\ Ends(c) /\ request[c].op = "save"
      /\ record' = [k \in DOMAIN record |->
             IF k \in DOMAIN sent THEN Written(record[k], seen[k], sent[k]) ELSE record[k]]
      /\ answered' = Filled(answered, sent)
  BY DEF Save, LeftAlone
<1>2. request[c].on = DOMAIN sent /\ SentWell(c, sent) /\ SeenWell(seen, sent)
      /\ (kind = "substitute" => Unrevoked(seen)) /\ There(seen)
  BY <1>1 DEF RecordsInv, RecordRequests, SaveKnows
<1>3. /\ DOMAIN record' = DOMAIN record
      /\ \A k \in DOMAIN record :
            record'[k] = IF k \in DOMAIN sent THEN Written(record[k], seen[k], sent[k])
                         ELSE record[k]
  BY <1>1
<1>4. Rules' = Rules  BY <1>1, RulesStay
<1>5. \A r \in Rules : r.mark \in DOMAIN record /\ r.col \in DOMAIN record
  BY <1>1, RulesAreFiled DEF RecordsInv, RowInv
<1>6. ASSUME NEW r \in Rules
      PROVE  /\ record[r.mark] # r.unset => record'[r.mark] # r.unset
             /\ record'[r.mark] = r.unset => record'[r.col] \in r.only
  <2> PICK m, x, u : m = r.mark /\ x = r.col /\ u = r.unset  OBVIOUS
  <2>1. /\ m \in DOMAIN sent => sent[m] # u
        /\ x \in DOMAIN sent => sent[x] \in r.only \/ m \in DOMAIN sent
    BY <1>2 DEF SentWell
  <2>2. seen[m] # u => record[m] # u  BY <1>2 DEF SeenWell
  <2>3. record[m] = u => record[x] \in r.only  BY <1>1 DEF RecordsInv, RowInv, RowFollows
  <2>4. /\ record'[m] = IF m \in DOMAIN sent THEN Written(record[m], seen[m], sent[m])
                        ELSE record[m]
        /\ record'[x] = IF x \in DOMAIN sent THEN Written(record[x], seen[x], sent[x])
                        ELSE record[x]
    BY <1>3, <1>5
  <2>5. m \in DOMAIN sent => record'[m] # u  BY <2>1, <2>2, <2>4 DEF Written
  <2>6. m \notin DOMAIN sent => record'[m] = record[m]  BY <2>4
  <2>7. m \notin DOMAIN sent /\ record[m] = u => record'[x] \in r.only
    BY <2>1, <2>3, <2>4 DEF Written
  <2> QED  BY <2>5, <2>6, <2>7
<1>7. RecordRequests' /\ raced' = raced
  <2>1. PICK cols : cols = DOMAIN sent  OBVIOUS
  <2>2. cols \subseteq request[c].on \cup raced  BY <2>1, <1>2
  <2>3. There(record')  BY <1>1, <1>3 DEF There
  <2> QED  BY <2>1, <2>2, <2>3, <1>1, <1>3, <1>6, WritersKeep
<1>8. \A k \in DOMAIN record : k \in raced \/ record'[k] = answered'[k]
  <2> SUFFICES ASSUME NEW k \in DOMAIN record, k \notin raced PROVE record'[k] = answered'[k]
    OBVIOUS
  <2>1. record[k] = answered[k] /\ k \in DOMAIN answered  BY <1>1 DEF RecordsInv, RowInv
  <2>2. CASE k \in DOMAIN sent
    <3>1. record[k] = seen[k]  BY <2>2, <1>2 DEF SeenWell
    <3>2. record'[k] = sent[k]  BY <2>2, <3>1, <1>3 DEF Written
    <3>3. answered'[k] = sent[k]  BY <2>2, <1>1 DEF Filled
    <3> QED  BY <3>2, <3>3
  <2>3. CASE k \notin DOMAIN sent
    <3>1. record'[k] = record[k]  BY <2>3, <1>3
    <3>2. answered'[k] = answered[k]  BY <2>1, <2>3, <1>1 DEF Filled
    <3> QED  BY <2>1, <3>1, <3>2
  <2> QED  BY <2>2, <2>3
<1>9. DOMAIN record' \subseteq DOMAIN answered'
  BY <1>1, <1>3 DEF RecordsInv, RowInv, Filled
<1>10. RowFollows'  BY <1>4, <1>6 DEF RowFollows
<1>11. ASSUME kind = "substitute"
       PROVE  record'.by = c /\ record'.revoked = <<c, 0>>
  <2>1. sent = [revoked |-> <<c, 0>>, by |-> c] /\ seen.revoked = NoValue /\ seen.by = NoValue
    BY <1>2, <1>11 DEF SentWell, Unrevoked
  <2>2. /\ "revoked" \in DOMAIN sent /\ sent.revoked = <<c, 0>>
        /\ "by" \in DOMAIN sent /\ sent.by = c
    BY <2>1
  <2>3. "revoked" \in DOMAIN record /\ "by" \in DOMAIN record
    <3>1. DOMAIN record = DOMAIN Filed["substitute"]
      BY <1>1, <1>11, TheFiled DEF RecordsInv, RowInv
    <3>2. {"revoked", "by"} \subseteq DOMAIN Filed["substitute"]  BY DEF Filed
    <3> QED  BY <3>1, <3>2
  <2>4. c # NoValue /\ <<c, 0>> # NoValue  BY RecordsAssumption
  <2> QED  BY <2>1, <2>2, <2>3, <2>4, <1>3 DEF Written
<1>12. ASSUME kind = "alumnus" PROVE AddressOfForm'
  <2> SUFFICES ASSUME record'.contacted = NoValue PROVE record'.email = answered'.email
    BY DEF AddressOfForm
  <2>1. DOMAIN record = {"email", "contacted"}
    <3>1. "alumnus" \in DOMAIN Filed /\ DOMAIN Filed["alumnus"] = {"email", "contacted"}
      BY DEF Filed
    <3> QED  BY <3>1, <1>1, <1>12 DEF RecordsInv, RowInv
  <2>2. Rule("email", Maybe, "contacted", NoValue) \in Rules  BY <1>12 DEF Rules
  <2>3. PICK r \in Rules : r.mark = "contacted" /\ r.unset = NoValue  BY <2>2 DEF Rule
  <2>4. record.contacted = NoValue  BY <2>3, <1>6
  <2>5. "contacted" \notin DOMAIN sent
    <3> SUFFICES ASSUME "contacted" \in DOMAIN sent PROVE FALSE  OBVIOUS
    <3>1. sent.contacted # NoValue  BY <2>3, <1>2 DEF SentWell
    <3>2. seen.contacted = NoValue  BY <2>3, <2>4, <1>2 DEF SeenWell
    <3>3. record'.contacted = Written(record.contacted, seen.contacted, sent.contacted)
      BY <2>1, <1>3
    <3> QED  BY <3>1, <3>2, <3>3 DEF Written
  <2>6. DOMAIN sent = {}  BY <2>5, <1>2, <1>12 DEF SentWell
  <2>7. record'.email = record.email  BY <2>6, <2>1, <1>3
  <2>8. answered'.email = answered.email
    <3>1. "email" \in DOMAIN answered  BY <2>1, <1>1 DEF RecordsInv, RowInv
    <3> QED  BY <3>1, <2>6, <1>1 DEF Filled
  <2> QED  BY <2>4, <2>7, <2>8, <1>1, <1>12 DEF RecordsInv, RowInv, AddressOfForm
<1>13. RowInv'
  <2>1. kind \in DOMAIN Filed => DOMAIN record' = DOMAIN Filed[kind]
    BY <1>1, <1>3 DEF RecordsInv, RowInv
  <2>2. kind = "optout" => {"reason", "by"} \subseteq DOMAIN record'
    BY <1>1, <1>3 DEF RecordsInv, RowInv
  <2>3. ASSUME kind = "invite" PROVE record'.status \in {"pending", "dispatched"}
    <3>1. "status" \in DOMAIN record  BY <2>3, <1>1, TheFiled DEF RecordsInv, RowInv
    <3>2. record.status \in {"pending", "dispatched"}
      BY <2>3, <1>1 DEF RecordsInv, RowInv
    <3>3. sent.status = "dispatched"  BY <2>3, <1>2 DEF SentWell
    <3> QED  BY <3>1, <3>2, <3>3, <1>3 DEF Written
  <2> QED  BY <2>1, <2>2, <2>3, <1>1, <1>3, <1>7, <1>8, <1>9, <1>10, <1>11, <1>12 DEF RowInv
<1> QED  BY <1>7, <1>13 DEF RecordsInv

LEMMA RecordsStep == ASSUME RecordsInv, RecordsNext PROVE RecordsInv'
<1>1. ASSUME NEW c \in Callers, Save(c) PROVE RecordsInv'
  BY <1>1, InsertingKeeps, UpdatingKeeps
<1>2. ASSUME \/ \E a \in Entries, b \in Maybe : Apply(a, b)
             \/ \E c \in Callers : SeedPreference(c)
      PROVE  RecordsInv'
  BY <1>2, AppearingKeeps
<1> QED
  BY <1>1, <1>2, RemovingKeeps, RemovalReadingKeeps, OtherReadingKeeps, StaffReadingKeeps,
     SubstituteReadingKeeps, SubmissionReadingKeeps, AdmissionReadingKeeps,
     GrievanceReadingKeeps, AlumnusReadingKeeps, InviteReadingKeeps, OptOutReadingKeeps
     DEF RecordsNext

LEMMA RecordsStart == ASSUME RecordsInit, HandlersInit PROVE RecordsInv
<1>1. ~There(record)  BY DEF RecordsInit, Missing, There
<1>2. /\ request = [c \in Callers |-> request[c]]
      /\ \A c \in Callers : request[c] = Idle
  BY DEF HandlersInit
<1>3. Idle.op # "save" /\ Idle.op # "remove"  BY DEF Idle
<1>4. ASSUME NEW c \in Callers PROVE SaveKnows(request[c], c) /\ RemovalKnows(request[c])
  <2>1. PICK g : g = request[c]  OBVIOUS
  <2>2. g.op # "save" /\ g.op # "remove"  BY <2>1, <1>2, <1>3
  <2> QED  BY <2>1, <2>2 DEF SaveKnows, RemovalKnows
<1>5. OneAtATime  BY <1>2 DEF OneAtATime, Idle
<1> QED  BY <1>1, <1>2, <1>4, <1>5 DEF RecordsInv, RecordRequests, RowInv

LEMMA RecordsKept == ASSUME RowInv PROVE RecordsAgree
<1> SUFFICES ASSUME There(record)
             PROVE  /\ \A k \in DOMAIN record : k \in raced \/ record[k] = answered[k]
                    /\ Coherent
  BY DEF RecordsAgree
<1>1. \A k \in DOMAIN record : k \in raced \/ record[k] = answered[k]  BY DEF RowInv
<1>2. \A r \in Rules : record[r.mark] = r.unset => record[r.col] \in r.only
  BY DEF RowInv, RowFollows
<1>3. Coherent
  <2>1. CASE kind = "staff"
    <3>1. /\ Rule("active", {TRUE}, "left", NoValue) \in Rules
          /\ Rule("left", {NoValue}, "active", TRUE) \in Rules
      BY <2>1 DEF Rules
    <3>2. /\ record.left = NoValue => record.active \in {TRUE}
          /\ record.active = TRUE => record.left \in {NoValue}
      BY <3>1, <1>2 DEF Rule
    <3>3. record.active <=> record.left = NoValue
      BY <3>2
    <3> QED  BY <2>1, <3>3 DEF Coherent
  <2>2. CASE kind = "substitute"
    BY <2>2 DEF Coherent, RowInv, Unrevoked
  <2>3. CASE kind = "submission"
    BY <2>3, <1>2 DEF Coherent, Rules, Rule
  <2>4. CASE kind = "admission"  BY <2>4, <1>2 DEF Coherent, Rules, Rule
  <2>5. CASE kind = "grievance"  BY <2>5, <1>2 DEF Coherent, Rules, Rule
  <2>6. CASE kind = "alumnus"  BY <2>6 DEF Coherent, RowInv, AddressOfForm
  <2>7. CASE kind = "invite"
    <3>1. /\ Rule("status", {"pending"}, "invitation", NoValue) \in Rules
          /\ Rule("invitation", {NoValue}, "status", "pending") \in Rules
      BY <2>7 DEF Rules
    <3>2. /\ record.invitation = NoValue => record.status \in {"pending"}
          /\ record.status = "pending" => record.invitation \in {NoValue}
      BY <3>1, <1>2 DEF Rule
    <3>3. record.status \in {"pending", "dispatched"}  BY <2>7 DEF RowInv
    <3>4. record.status = "dispatched" <=> record.invitation # NoValue  BY <3>2, <3>3
    <3> QED  BY <2>7, <3>4 DEF Coherent
  <2> QED  BY <2>1, <2>2, <2>3, <2>4, <2>5, <2>6, <2>7 DEF Coherent
<1> QED  BY <1>1, <1>3

-----------------------------------------------------------------------------
\* The handlers together: a behaviour is about one of them, and the others rest.

\* A handler that nothing is asked of has no rows.
LEMMA KeysRestAgree == ASSUME OnceInit PROVE KeysAgree
<1>1. stored = {} /\ done = [k \in WorkKeys |-> 0]  BY DEF OnceInit
<1> QED  BY <1>1 DEF KeysAgree

LEMMA BillingRestAgrees == ASSUME FeeDeskInit PROVE InvoicesAgree
<1>1. \A v \in Invoices : invoice[v] = NoRow  BY DEF FeeDeskInit
<1>2. DOMAIN invoice = Invoices  BY DEF FeeDeskInit
<1>3. Created(invoice) = {}  BY <1>1, <1>2 DEF Created
<1>4. \A p, s : BilledFor(p, s) = {}  BY <1>3 DEF BilledFor
<1>5. \A k \in InvoiceKeys : answers[k] = {}  BY DEF FeeDeskInit
<1>6. Cardinality({}) = 0  BY FS_EmptySet
<1>7. \A p \in Payers, s \in Structures : Cardinality(BilledFor(p, s)) <= 1  BY <1>4, <1>6
<1>8. \A k \in InvoiceKeys : Cardinality(answers[k]) <= 1 /\ answers[k] \subseteq Under(k)
  BY <1>5, <1>6
<1> QED  BY <1>3, <1>7, <1>8 DEF InvoicesAgree

LEMMA MessagesRestAgree == ASSUME MessagesInit PROVE MessagesAgree
<1>1. /\ \A p \in Pairs : thread[p] = NoRow
      /\ \A o \in Notices : notice[o] = NoRow
      /\ DOMAIN notice = Notices /\ wasSent = {}
  BY DEF MessagesInit
<1>2. Created(notice) = {}  BY <1>1 DEF Created
<1> QED  BY <1>1, <1>2 DEF MessagesAgree

LEMMA RecordsRestAgree == ASSUME RecordsInit PROVE RecordsAgree
<1>1. ~There(record)  BY DEF RecordsInit, Missing, There
<1> QED  BY <1>1 DEF RecordsAgree

LEMMA FormsRestAgree == ASSUME FilingInit PROVE FormsAgree
<1>1. /\ \A r \in Rows : filed[r] = NoRow /\ trail[r] = << >>
      /\ DOMAIN filed = Rows /\ told = {}
      /\ \A p \in Contents : outside[p] = 0
  BY DEF FilingInit
<1>2. Created(filed) = {}  BY <1>1 DEF Created
<1>3. \A p : Holding(p) = {}  BY <1>2 DEF Holding
<1>4. Cardinality({}) = 0  BY FS_EmptySet
<1>5. \A p \in Contents : Cardinality(Holding(p)) <= 1 /\ outside[p] >= Cardinality(Holding(p))
  <2>1. \A p \in Contents : Cardinality(Holding(p)) = 0 /\ outside[p] = 0  BY <1>1, <1>3, <1>4
  <2> QED  BY <2>1
<1> QED  BY <1>1, <1>2, <1>5 DEF FormsAgree

\* Nothing at all changes.
LEMMA BillingRests == ASSUME BillingInv, UNCHANGED <<billing, callers>> PROVE BillingInv'
<1>1. /\ price' = price /\ priced' = priced /\ invoice' = invoice /\ answers' = answers
      /\ request' = request
  BY DEF billing, callers
<1> QED
  BY <1>1 DEF BillingInv, BillRequests, BillKnows, PricesInv, InvoiceRows, BilledOnce,
              AnswersInv, BilledFor, Under, Created

LEMMA MessagesRest ==
  ASSUME MessagesInv, UNCHANGED <<communications, callers>> PROVE MessagesInv'
<1>1. /\ thread' = thread /\ message' = message /\ notice' = notice /\ resends' = resends
      /\ wasSent' = wasSent /\ request' = request /\ raced' = raced
  BY DEF communications, messaging, invitationOutbox, callers
<1>2. MessagesTypeOK'  BY <1>1 DEF MessagesInv, MessagesTypeOK, Created
<1>3. MessageRequests'
  BY <1>1 DEF MessagesInv, MessageRequests, OneAtATime, ThreadKnows, NoticeKnows, Unread, Created
<1>4. ThreadsInv'  BY <1>1 DEF MessagesInv, ThreadsInv, Exact, Unread, Created
<1>5. NoticesInv'
  <2>1. \A o : NoticeWell(o)' = NoticeWell(o)  BY <1>1 DEF NoticeWell, Waits
  <2> QED  BY <1>1, <2>1 DEF MessagesInv, NoticesInv
<1> QED  BY <1>2, <1>3, <1>4, <1>5 DEF MessagesInv

LEMMA RecordsRest == ASSUME RecordsInv, UNCHANGED <<recordVars, callers>> PROVE RecordsInv'
<1>1. request' = request /\ raced' = raced /\ UNCHANGED recordVars  BY DEF callers
<1>2. ASSUME NEW c \in Callers PROVE SaveKnows(request[c], c)' /\ RemovalKnows(request[c])'
  <2>1. PICK g : g = request[c]  OBVIOUS
  <2>2. SaveKnows(g, c) /\ RemovalKnows(g)  BY <2>1 DEF RecordsInv, RecordRequests
  <2>3. SaveKnows(g, c)' /\ RemovalKnows(g)'  BY <1>1, <2>2, RowRests
  <2> QED  BY <2>1, <2>3, <1>1
<1> QED  BY <1>1, <1>2, RowRests DEF RecordsInv, RecordRequests, OneAtATime

LEMMA FormsRest == ASSUME FilingInv, UNCHANGED <<filing, callers>> PROVE FilingInv'
<1>1. /\ form' = form /\ parent' = parent /\ filed' = filed /\ trail' = trail
      /\ outside' = outside /\ told' = told /\ request' = request /\ raced' = raced
  BY DEF filing, callers
<1>2. Created(filed)' = Created(filed) /\ \A p : Pending(p)' = Pending(p)
  BY <1>1 DEF Created, Pending
<1>3. \A p : Holding(p)' = Holding(p)  BY <1>1, <1>2 DEF Holding
<1>4. FilingTypeOK'  BY <1>1, <1>2 DEF FilingInv, FilingTypeOK
<1>5. FormRequests'  BY <1>1, <1>2 DEF FilingInv, FormRequests, FormKnows
<1>6. (\A r \in Rows : RowWell(r))'  BY <1>1 DEF FilingInv, RowWell, Named
<1>7. HeldOnce'  BY <1>1, <1>2 DEF FilingInv, HeldOnce
<1>8. CallsCover'  BY <1>1, <1>2, <1>3 DEF FilingInv, CallsCover
<1> QED  BY <1>4, <1>5, <1>6, <1>7, <1>8 DEF FilingInv

\* What holds of a handler: its invariant while it is the one asked, and that it has no rows
\* otherwise.
KeysHold     == IF focus = "keys" THEN OnceInv ELSE OnceInit
InvoicesHold == IF focus = "invoices" THEN BillingInv ELSE FeeDeskInit
MessagesHold == IF focus \in {"threads", "notices"} THEN MessagesInv ELSE MessagesInit
RecordsHold  == IF focus = "records" THEN RecordsInv ELSE RecordsInit
FormsHold    == IF focus = "forms" THEN FilingInv ELSE FilingInit
ServicesInv  == KeysHold /\ InvoicesHold /\ MessagesHold /\ RecordsHold /\ FormsHold

LEMMA ServicesStart == ASSUME MCInit PROVE ServicesInv
<1>1. HandlersInit /\ OnceInit /\ FeeDeskInit /\ MessagesInit /\ RecordsInit /\ FilingInit
  BY DEF MCInit
<1>2. KeysHold  BY <1>1, OnceStarts DEF KeysHold
<1>3. InvoicesHold  BY <1>1, BillingStarts DEF InvoicesHold
<1>4. MessagesHold  BY <1>1, MessagesStart DEF MessagesHold
<1>5. RecordsHold  BY <1>1, RecordsStart DEF RecordsHold
<1>6. FormsHold  BY <1>1, FilingStarts DEF FormsHold
<1> QED  BY <1>2, <1>3, <1>4, <1>5, <1>6 DEF ServicesInv

\* A handler that nothing is asked of keeps its rows.
LEMMA OthersRest ==
  ASSUME focus' = focus
  PROVE  /\ focus # "keys" /\ KeysHold /\ UNCHANGED onceVars => KeysHold'
         /\ focus # "invoices" /\ InvoicesHold /\ UNCHANGED billing => InvoicesHold'
         /\ focus \notin {"threads", "notices"} /\ MessagesHold /\ UNCHANGED communications
               => MessagesHold'
         /\ focus # "records" /\ RecordsHold /\ UNCHANGED recordVars => RecordsHold'
         /\ focus # "forms" /\ FormsHold /\ UNCHANGED filing => FormsHold'
<1>1. OnceInit /\ UNCHANGED onceVars => OnceInit'  BY DEF OnceInit, onceVars
<1>2. FeeDeskInit /\ UNCHANGED billing => FeeDeskInit'  BY DEF FeeDeskInit, billing
<1>3. MessagesInit /\ UNCHANGED communications => MessagesInit'
  BY DEF MessagesInit, communications, messaging, invitationOutbox
<1>4. RecordsInit /\ UNCHANGED recordVars => RecordsInit'  BY DEF RecordsInit, recordVars
<1>5. FilingInit /\ UNCHANGED filing => FilingInit'  BY DEF FilingInit, filing
<1>6. focus # "keys" /\ KeysHold /\ UNCHANGED onceVars => KeysHold'  BY <1>1 DEF KeysHold
<1>7. focus # "invoices" /\ InvoicesHold /\ UNCHANGED billing => InvoicesHold'
  BY <1>2 DEF InvoicesHold
<1>8. focus \notin {"threads", "notices"} /\ MessagesHold /\ UNCHANGED communications
         => MessagesHold'
  BY <1>3 DEF MessagesHold
<1>9. focus # "records" /\ RecordsHold /\ UNCHANGED recordVars => RecordsHold'
  BY <1>4 DEF RecordsHold
<1>10. focus # "forms" /\ FormsHold /\ UNCHANGED filing => FormsHold'  BY <1>5 DEF FormsHold
<1> QED  BY <1>6, <1>7, <1>8, <1>9, <1>10

\* A step of one handler.
LEMMA ServicesStep == ASSUME ServicesInv, MCNext PROVE ServicesInv'
<1> USE DEF ServicesInv
<1>1. focus' = focus  BY DEF MCNext
<1>2. CASE /\ focus = "keys" /\ OnceNext
           /\ UNCHANGED <<billing, communications, accounts, homeworkVars, recordVars, filing>>
  <2>1. KeysHold'  BY <1>1, <1>2, OnceStep DEF KeysHold
  <2> QED  BY <2>1, <1>1, <1>2, OthersRest
<1>3. CASE /\ focus = "invoices" /\ FeeDeskNext
           /\ UNCHANGED <<onceVars, communications, accounts, homeworkVars, recordVars, filing>>
  <2>1. InvoicesHold'  BY <1>1, <1>3, BillingStep DEF InvoicesHold
  <2> QED  BY <2>1, <1>1, <1>3, OthersRest
<1>4. CASE /\ \/ focus = "threads" /\ ThreadsNext
              \/ focus = "notices" /\ NoticesNext
           /\ UNCHANGED <<onceVars, billing, accounts, homeworkVars, recordVars, filing>>
  <2>1. MessagesHold'  BY <1>1, <1>4, ThreadsStep, NoticesStep DEF MessagesHold
  <2>2. focus \in {"threads", "notices"}  BY <1>4
  <2> QED  BY <2>1, <2>2, <1>1, <1>4, OthersRest
<1>5. CASE /\ focus = "records" /\ RecordsNext
           /\ UNCHANGED <<onceVars, billing, communications, accounts, homeworkVars, filing>>
  <2>1. RecordsHold'  BY <1>1, <1>5, RecordsStep DEF RecordsHold
  <2> QED  BY <2>1, <1>1, <1>5, OthersRest
<1>6. CASE /\ focus = "forms" /\ FilingNext
           /\ UNCHANGED <<onceVars, billing, communications, accounts, homeworkVars, recordVars>>
  <2>1. FormsHold'  BY <1>1, <1>6, FilingStep DEF FormsHold
  <2> QED  BY <2>1, <1>1, <1>6, OthersRest
<1>7. CASE /\ focus \in {"threads", "notices", "records", "forms"} \cup People
           /\ UNCHANGED services /\ \E c \in Callers : GivesUp(c)
  <2>1. UNCHANGED <<onceVars, billing, communications, recordVars, filing>>
    BY <1>7 DEF services
  <2>2. KeysHold' /\ InvoicesHold'
    <3>1. focus # "keys" /\ focus # "invoices"  BY <1>7 DEF People
    <3> QED  BY <3>1, <2>1, <1>1, OthersRest
  <2>3. MessagesHold'
    <3>1. CASE focus \in {"threads", "notices"}
      BY <3>1, <2>1, <1>1, <1>7, MessageGivingUpKeeps DEF MessagesHold, communications
    <3> QED  BY <3>1, <2>1, <1>1, OthersRest
  <2>4. RecordsHold'
    <3>1. CASE focus = "records"
      BY <3>1, <2>1, <1>1, <1>7, GivingUpKeepsRecords DEF RecordsHold
    <3> QED  BY <3>1, <2>1, <1>1, OthersRest
  <2>5. FormsHold'
    <3>1. CASE focus = "forms"
      BY <3>1, <2>1, <1>1, <1>7, LeavingKeeps DEF FormsHold
    <3> QED  BY <3>1, <2>1, <1>1, OthersRest
  <2> QED  BY <2>2, <2>3, <2>4, <2>5
<1>8. CASE /\ focus \in People \cup {"adoptions", "files", "papers"}
           /\ UNCHANGED <<onceVars, billing, communications, recordVars, filing>>
  <2>1. /\ focus \notin {"keys", "invoices", "threads", "notices"}
        /\ focus # "records" /\ focus # "forms"
    BY <1>8 DEF People
  <2> QED  BY <2>1, <1>1, <1>8, OthersRest
<1> QED
  BY <1>1, <1>2, <1>3, <1>4, <1>5, <1>6, <1>7, <1>8
     DEF MCNext, MCSteps, AccountsFocus, HomeworkFocus, services

LEMMA ServicesRest ==
  ASSUME ServicesInv, UNCHANGED <<callers, services, focus>> PROVE ServicesInv'
<1>1. UNCHANGED callers /\ focus' = focus
      /\ UNCHANGED <<onceVars, billing, communications, recordVars, filing>>
  BY DEF services
<1>2. KeysHold'  BY <1>1, OnceRests, OthersRest DEF ServicesInv, KeysHold
<1>3. InvoicesHold'  BY <1>1, BillingRests, OthersRest DEF ServicesInv, InvoicesHold
<1>4. MessagesHold'  BY <1>1, MessagesRest, OthersRest DEF ServicesInv, MessagesHold
<1>5. RecordsHold'  BY <1>1, RecordsRest, OthersRest DEF ServicesInv, RecordsHold
<1>6. FormsHold'  BY <1>1, FormsRest, OthersRest DEF ServicesInv, FormsHold
<1> QED  BY <1>2, <1>3, <1>4, <1>5, <1>6 DEF ServicesInv

LEMMA ServicesKept == ASSUME ServicesInv PROVE ServicesAgree
<1>1. KeysAgree  BY KeysKept, KeysRestAgree DEF ServicesInv, KeysHold
<1>2. InvoicesAgree
  BY InvoicesKept, BillingRestAgrees DEF ServicesInv, InvoicesHold, BillingInv
<1>3. MessagesAgree
  BY MessagesKept, MessagesRestAgree DEF ServicesInv, MessagesHold, MessagesInv
<1>4. RecordsAgree  BY RecordsKept, RecordsRestAgree DEF ServicesInv, RecordsHold, RecordsInv
<1>5. FormsAgree  BY FormsKept, FormsRestAgree DEF ServicesInv, FormsHold
<1> QED  BY <1>1, <1>2, <1>3, <1>4, <1>5 DEF ServicesAgree

\* Whatever requests overlap, break off or are refused: work is not done twice under a key
\* that is stored, a student is billed once per structure at a total the structure has had,
\* unread counts and retries are exact on threads and rows that were not raced about, a column
\* of a record says what was last answered for it and a decision has what goes with it, and a
\* row that takes a form in has its audit row and its calls (finance, communications and
\* academics handlers, idempotency stores).
THEOREM ServicesStayExact == ServicesSpec => []ServicesAgree
<1>1. MCInit => ServicesInv  BY ServicesStart
<1>2. ServicesInv /\ [MCNext]_<<callers, services, focus>> => ServicesInv'
  BY ServicesStep, ServicesRest
<1>3. ServicesInv => ServicesAgree  BY ServicesKept
<1> QED  BY <1>1, <1>2, <1>3, PTL DEF ServicesSpec
===============================================================================
