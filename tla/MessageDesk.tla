------------------------------ MODULE MessageDesk ------------------------------
(* The communications service: threads between a teacher and a parent with    *)
(* an unread count for each side, and the outbox of sent invitations.         *)
EXTENDS Integers, FiniteSets, Handlers
CONSTANTS Pairs, Messages, Notices

VARIABLES thread,     \* pair -> unread counts of its two sides; the pair is unique
          message,    \* the rows of messages
          notice,     \* the rows of invite_outbox
          resends,    \* history: notice -> resends answered
          wasSent     \* history: the notices marked sent
messaging == <<thread, message>>
invitationOutbox == <<notice, resends, wasSent>>
Sides == {"teacher", "parent"}
Other(side) == CHOOSE s \in Sides : s # side

ThreadRow == [Sides -> Nat]
MessageRow == [pair : Pairs, from : Sides, read : BOOLEAN]
NoticeRow == [channel : {"sms", "manual"}, retries : Nat,
              status : {"manual_pending", "queued", "sent"}]
ASSUME MessageDeskAssumption == NoRow \notin ThreadRow \cup MessageRow \cup NoticeRow

MessagesInit ==
    /\ thread = [p \in Pairs |-> NoRow] /\ message = [m \in Messages |-> NoRow]
    /\ notice = [o \in Notices |-> NoRow] /\ resends = [o \in Notices |-> 0] /\ wasSent = {}

\* A second thread of a pair is refused by the unique key, or the first one is found.
OpenThread(p) ==
    /\ thread[p] = NoRow
    /\ thread' = [thread EXCEPT ![p] = [s \in Sides |-> 0]]
    /\ UNCHANGED <<message, callers>>

Unread(p, side) ==
    {m \in Created(message) : /\ message[m].pair = p /\ message[m].from # side
                              /\ ~message[m].read}

ReadForSend(c, p, side) ==
    /\ thread[p] # NoRow
    /\ Reads(c, [op |-> "send", on |-> {<<"thread", p>>}, pair |-> p, side |-> side,
                  seen |-> thread[p][Other(side)]])
    /\ UNCHANGED messaging
SendMessage(c, m) ==
    /\ request[c].op = "send" /\ message[m] = NoRow
    /\ LET r == request[c]
       IN /\ message' = [message EXCEPT ![m] = [pair |-> r.pair, from |-> r.side, read |-> FALSE]]
          /\ thread' = [thread EXCEPT ![r.pair][Other(r.side)] = r.seen + 1]
    /\ Ends(c)

ReadForMark(c, p, side) ==
    /\ thread[p] # NoRow
    /\ Reads(c, [op |-> "mark", on |-> {<<"thread", p>>}, pair |-> p, side |-> side,
                  seen |-> thread[p][side]])
    /\ UNCHANGED messaging
\* The UPDATE of the messages finds the rows committed so far.
FindUnread(c) ==
    /\ request[c].op = "mark"
    /\ LET r == request[c]
       IN request' = [request EXCEPT ![c] =
            [op |-> "zero", on |-> @.on, pair |-> @.pair, side |-> @.side, seen |-> @.seen,
             found |-> Unread(r.pair, r.side)]]
    /\ UNCHANGED <<messaging, raced>>

\* Slip: the count of the other side is set to zero.
ZeroesOther(c) == Other(request[c].side)
\* The side whose count is set to zero.
Zeroes(c) == request[c].side
MarkRead(c) ==
    /\ request[c].op = "zero"
    /\ LET r == request[c]
       IN /\ message' = [m \in Messages |-> IF m \in r.found THEN [message[m] EXCEPT !.read = TRUE]
                                            ELSE message[m]]
          /\ thread' = [thread EXCEPT ![r.pair][Zeroes(c)] = Written(@, r.seen, 0)]
    /\ Ends(c)

\* Invitations: without a configured channel an administrator reads the code out.
DispatchInvite(o, channel) ==
    /\ notice[o] = NoRow
    /\ notice' = [notice EXCEPT ![o] = [channel |-> channel, retries |-> 0,
                      status |-> IF channel = "manual" THEN "manual_pending" ELSE "queued"]]
    /\ UNCHANGED <<resends, wasSent, callers>>

\* Slip: a notice that was sent is queued again.
AnyNotice(o) == notice[o] # NoRow
Resendable(o) == notice[o] # NoRow /\ notice[o].status # "sent"
ReadForRequeue(c, o) ==
    /\ Resendable(o)
    /\ Reads(c, [op |-> "requeue", on |-> {<<"notice", o>>}, notice |-> o, seen |-> notice[o]])
    /\ UNCHANGED invitationOutbox
\* No writer says "failed", so a row that may be resent already has the status it gets.
Requeue(c) ==
    /\ request[c].op = "requeue"
    /\ LET r == request[c]
           new == IF r.seen.channel = "manual" THEN "manual_pending" ELSE "queued"
       IN /\ notice' = [notice EXCEPT ![r.notice].status = Written(@, r.seen.status, new),
                                      ![r.notice].retries = r.seen.retries + 1]
          /\ resends' = [resends EXCEPT ![r.notice] = @ + 1]
    /\ UNCHANGED wasSent /\ Ends(c)
MarkSent(o) ==
    /\ notice[o] # NoRow /\ notice[o].status # "sent"
    /\ notice' = [notice EXCEPT ![o].status = "sent"] /\ wasSent' = wasSent \cup {o}
    /\ UNCHANGED <<resends, callers>>

ThreadsNext ==
    /\ \/ \E p \in Pairs : OpenThread(p)
       \/ \E c \in Callers :
             \/ \E p \in Pairs, s \in Sides : ReadForSend(c, p, s) \/ ReadForMark(c, p, s)
             \/ \E m \in Messages : SendMessage(c, m)
             \/ FindUnread(c) \/ MarkRead(c)
    /\ UNCHANGED invitationOutbox
NoticesNext ==
    /\ \/ \E o \in Notices : MarkSent(o) \/ \E ch \in {"sms", "manual"} : DispatchInvite(o, ch)
       \/ \E c \in Callers : Requeue(c) \/ \E o \in Notices : ReadForRequeue(c, o)
    /\ UNCHANGED messaging

------------------------------------------------------------------------------
\* Unless two requests worked on a thread at once, each side's unread count is the number
\* of messages it has not read.  A notice marked sent stays sent however resends overlap,
\* and counts no more resends than were asked, all of them if none overlapped.
MessagesAgree ==
    /\ \A p \in Pairs : thread[p] # NoRow =>
          \/ <<"thread", p>> \in raced
          \/ \A s \in Sides : thread[p][s] = Cardinality(Unread(p, s))
    /\ \A o \in wasSent : notice[o].status = "sent"
    /\ \A o \in Created(notice) : /\ notice[o].retries <= resends[o]
                                  /\ <<"notice", o>> \in raced \/ notice[o].retries = resends[o]
===============================================================================
