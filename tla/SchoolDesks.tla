------------------------------- MODULE SchoolDesks -------------------------------
(* Seven desks of the academics service, all of them served by Handlers:     *)
(* library, boarding, conferences, meal credit, permission slips, assets and *)
(* leave.  Meal credit is topped up to at most MaxCredit in all, books and    *)
(* rooms hold at most MaxSize.                                                *)
EXTENDS Integers, FiniteSets, Handlers
CONSTANTS Books, Loans, Rooms, Stays, Students, Slots, Slips, Assets, Leaves,
          MaxSize, MaxCredit, Nobody

BookRow == [total : 1..MaxSize, available : 0..MaxSize]
LoanRow == [book : Books, out : BOOLEAN]
RoomRow == [capacity : 1..MaxSize]
StayRow == [room : Rooms, student : Students, current : BOOLEAN]
SlotRow == [booked : BOOLEAN]
Signature == [decision : {"approved", "declined"}, by : Callers]
AssetActions == {"assigned", "returned", "maintenance", "disposed", "lost", "found"}
AssetRow == [status : {"in_stock", "assigned", "maintenance", "disposed", "lost"},
             holder : Callers \cup {Nobody}]
MovementRow == [action : AssetActions, target : Callers \cup {Nobody}]
Decision == [status : {"approved", "rejected"}, by : Callers]

ASSUME DeskAssumption ==
    /\ MaxSize \in Nat \ {0} /\ MaxCredit \in Nat
    /\ Nobody \notin Callers
    /\ NoRow \notin 0..MaxCredit \cup BookRow \cup LoanRow \cup RoomRow \cup SlotRow
                    \cup AssetRow \cup Decision

VARIABLES book, loan,         \* library
          room, stay,         \* boarding rooms and assignments
          slot, booking,      \* conference slots, the parents whose booking rows exist
          account, paidIn,    \* meal credit; history: what was paid in
          slip, signed,       \* permission slips; history: the last signature given
          asset, movement,    \* assets, the last row of their movement log
          leave, decisions    \* leave requests; history: the decisions answered
library == <<book, loan>>
boarding == <<room, stay>>
conferences == <<slot, booking>>
meals == <<account, paidIn>>
slips == <<slip, signed>>
inventory == <<asset, movement>>
staff == <<leave, decisions>>
vars == <<library, boarding, conferences, meals, slips, inventory, staff, callers>>

DesksInit ==
    /\ book = [b \in Books |-> NoRow] /\ loan = [l \in Loans |-> NoRow]
    /\ room = [r \in Rooms |-> NoRow] /\ stay = [a \in Stays |-> NoRow]
    /\ slot = [s \in Slots |-> NoRow] /\ booking = [s \in Slots |-> {}]
    /\ account = [s \in Students |-> NoRow] /\ paidIn = [s \in Students |-> 0]
    /\ slip = [p \in Slips |-> NoRow] /\ signed = [p \in Slips |-> NoRow]
    /\ asset = [a \in Assets |-> NoRow] /\ movement = [a \in Assets |-> NoRow]
    /\ leave = [v \in Leaves |-> NoRow] /\ decisions = [v \in Leaves |-> {}]
    /\ HandlersInit

------------------------------------------------------------------------------
\* Library.

CreateBook(b, copies) ==
    /\ book[b] = NoRow
    /\ book' = [book EXCEPT ![b] = [total |-> copies, available |-> copies]]
    /\ UNCHANGED <<loan, callers>>

ReadForIssue(c, b) ==
    /\ book[b] # NoRow /\ book[b].available > 0
    /\ Reads(c, [op |-> "issue", on |-> {<<"book", b>>}, book |-> b, seen |-> book[b].available])
    /\ UNCHANGED library

IssueLoan(c, l) ==
    /\ request[c].op = "issue" /\ loan[l] = NoRow
    /\ loan' = [loan EXCEPT ![l] = [book |-> request[c].book, out |-> TRUE]]
    /\ book' = [book EXCEPT ![request[c].book].available = request[c].seen - 1]
    /\ Ends(c)

ReadForReturn(c, l) ==
    /\ loan[l] # NoRow /\ loan[l].out
    /\ Reads(c, [op |-> "return", on |-> {<<"book", loan[l].book>>}, loan |-> l])
    /\ UNCHANGED library

\* The book is read after the loan.
ReadReturnedBook(c) ==
    /\ request[c].op = "return"
    /\ LET l == request[c].loan
       IN request' = [request EXCEPT ![c] =
            [op |-> "shelve", on |-> @.on, loan |-> l, seen |-> book[loan[l].book].available]]
    /\ UNCHANGED <<library, raced>>

\* Slip: the copies in stock are not looked at.
ShelvedAnyway(seen, total) == seen + 1
\* Copies on the shelf after one comes back: never more than there are.
Shelved(seen, total) == IF seen < total THEN seen + 1 ELSE total

ReturnLoan(c) ==
    /\ request[c].op = "shelve"
    /\ LET l == request[c].loan
           b == loan[l].book
       IN /\ loan' = [loan EXCEPT ![l].out = FALSE]
          /\ book' = [book EXCEPT ![b].available =
                Written(@, request[c].seen, Shelved(request[c].seen, book[b].total))]
    /\ Ends(c)

\* Boarding.

CreateRoom(r, capacity) ==
    /\ room[r] = NoRow
    /\ room' = [room EXCEPT ![r] = [capacity |-> capacity]]
    /\ UNCHANGED <<stay, callers>>

Current == {a \in Stays : stay[a] # NoRow /\ stay[a].current}
InRoom(r) == {a \in Current : stay[a].room = r}
BedsOf(s) == {a \in Current : stay[a].student = s}

CountBeds(c, r, s) ==
    /\ room[r] # NoRow /\ Cardinality(InRoom(r)) < room[r].capacity
    /\ Reads(c, [op |-> "count", on |-> {<<"room", r>>, <<"boarder", s>>}, room |-> r, student |-> s])
    /\ UNCHANGED boarding

\* Slip: the student's beds are not looked at.
NeverLooks(c) ==
    /\ request[c].op = "count"
    /\ request' = [request EXCEPT ![c].op = "assign"]
    /\ UNCHANGED <<boarding, raced>>

HasNoBed(c) ==
    /\ request[c].op = "count" /\ BedsOf(request[c].student) = {}
    /\ request' = [request EXCEPT ![c].op = "assign"]
    /\ UNCHANGED <<boarding, raced>>

AssignBed(c, a) ==
    /\ request[c].op = "assign" /\ stay[a] = NoRow
    /\ stay' = [stay EXCEPT ![a] =
                  [room |-> request[c].room, student |-> request[c].student, current |-> TRUE]]
    /\ Ends(c)
    /\ UNCHANGED room

\* Ending a stay that was read as current: doing it twice changes nothing more.
EndStay(a) ==
    /\ stay[a] # NoRow /\ stay[a].current
    /\ stay' = [stay EXCEPT ![a].current = FALSE]
    /\ UNCHANGED <<room, callers>>

\* Parent-teacher conferences.

CreateSlot(s) ==
    /\ slot[s] = NoRow
    /\ slot' = [slot EXCEPT ![s] = [booked |-> FALSE]]
    /\ UNCHANGED <<booking, callers>>

ReadSlot(c, s) ==
    /\ slot[s] # NoRow /\ ~slot[s].booked
    /\ Reads(c, [op |-> "book", on |-> {<<"slot", s>>}, slot |-> s])
    /\ UNCHANGED conferences

\* Slip: a slot has any number of booking rows.
SlotNeverTaken(s) == FALSE
\* The booking row's slot_id is unique.
SlotTaken(s) == booking[s] # {}

BookSlot(c) ==
    /\ request[c].op = "book" /\ ~SlotTaken(request[c].slot)
    /\ booking' = [booking EXCEPT ![request[c].slot] = @ \cup {c}]
    /\ slot' = [slot EXCEPT ![request[c].slot].booked = TRUE]
    /\ Ends(c)

\* Meal credit.

ReadAccount(c, s, amount) ==
    /\ Reads(c, [op |-> "topup", on |-> {<<"credit", s>>}, student |-> s, seen |-> account[s],
                  amount |-> amount])
    /\ UNCHANGED meals

\* The account's student_id is unique: an account opened meanwhile refuses the insert.
TopUp(c) ==
    /\ request[c].op = "topup"
    /\ LET s == request[c].student
           seen == request[c].seen
           amount == request[c].amount
       IN /\ seen = NoRow => account[s] = NoRow
          /\ paidIn[s] + amount <= MaxCredit
          /\ account' = [account EXCEPT ![s] = IF seen = NoRow THEN amount ELSE seen + amount]
          /\ paidIn' = [paidIn EXCEPT ![s] = @ + amount]
    /\ Ends(c)

\* Permission slips: one response for each slip and student, signed again at will.

ReadSlip(c, p, decision) ==
    /\ Reads(c, [op |-> "sign", on |-> {<<"slip", p>>}, slip |-> p, seen |-> slip[p],
                  response |-> [decision |-> decision, by |-> c]])
    /\ UNCHANGED slips

SignSlip(c) ==
    /\ request[c].op = "sign"
    /\ LET p == request[c].slip
           seen == request[c].seen
           new == request[c].response
       IN /\ seen = NoRow => slip[p] = NoRow
          /\ slip' = [slip EXCEPT ![p] = IF seen = NoRow THEN new
                        ELSE [decision |-> Written(@.decision, seen.decision, new.decision),
                              by |-> Written(@.by, seen.by, new.by)]]
          /\ signed' = [signed EXCEPT ![p] = new]
    /\ Ends(c)

------------------------------------------------------------------------------
\* Assets.

CreateAsset(a) ==
    /\ asset[a] = NoRow
    /\ asset' = [asset EXCEPT ![a] = [status |-> "in_stock", holder |-> Nobody]]
    /\ UNCHANGED <<movement, callers>>

Moved(row, action, target) ==
    CASE action = "assigned" -> [status |-> "assigned", holder |-> target]
      [] action = "returned" -> [status |-> "in_stock", holder |-> Nobody]
      [] action = "found"    -> [row EXCEPT !.status = "in_stock"]
      [] OTHER               -> [row EXCEPT !.status = action]

ReadAsset(c, a, action, target) ==
    /\ asset[a] # NoRow
    /\ Reads(c, [op |-> "move", on |-> {<<"asset", a>>}, asset |-> a, seen |-> asset[a],
                  action |-> action, target |-> target])
    /\ UNCHANGED inventory

MoveAsset(c) ==
    /\ request[c].op = "move"
    /\ LET a == request[c].asset
           seen == request[c].seen
           new == Moved(seen, request[c].action, request[c].target)
       IN /\ asset' = [asset EXCEPT ![a] = [status |-> Written(@.status, seen.status, new.status),
                                            holder |-> Written(@.holder, seen.holder, new.holder)]]
          /\ movement' = [movement EXCEPT ![a] =
                            [action |-> request[c].action, target |-> request[c].target]]
    /\ Ends(c)

\* Leave requests: a decided one is not decided again.

RequestLeave(v) ==
    /\ leave[v] = NoRow
    /\ leave' = [leave EXCEPT ![v] = [status |-> "open", by |-> Nobody]]
    /\ UNCHANGED <<decisions, callers>>

ReadLeave(c, v, status) ==
    /\ leave[v] # NoRow /\ leave[v].status = "open"
    /\ Reads(c, [op |-> "decide", on |-> {<<"leave", v>>}, leave |-> v, status |-> status])
    /\ UNCHANGED staff

\* Every column differs from the open row that was read, so all are written.
DecideLeave(c) ==
    /\ request[c].op = "decide"
    /\ LET decision == [status |-> request[c].status, by |-> c]
       IN /\ leave' = [leave EXCEPT ![request[c].leave] = decision]
          /\ decisions' = [decisions EXCEPT ![request[c].leave] = @ \cup {decision}]
    /\ Ends(c)

------------------------------------------------------------------------------
LibraryNext ==
    /\ \/ \E b \in Books, n \in 1..MaxSize : CreateBook(b, n)
       \/ \E c \in Callers : \/ \E b \in Books : ReadForIssue(c, b)
                           \/ \E l \in Loans : IssueLoan(c, l) \/ ReadForReturn(c, l)
                           \/ ReadReturnedBook(c) \/ ReturnLoan(c)
    /\ UNCHANGED <<boarding, conferences, meals, slips, inventory, staff>>
BoardingNext ==
    /\ \/ \E r \in Rooms, n \in 1..MaxSize : CreateRoom(r, n)
       \/ \E a \in Stays : EndStay(a) \/ \E c \in Callers : AssignBed(c, a)
       \/ \E c \in Callers : HasNoBed(c) \/ \E r \in Rooms, s \in Students : CountBeds(c, r, s)
    /\ UNCHANGED <<library, conferences, meals, slips, inventory, staff>>
ConferenceNext ==
    /\ \/ \E s \in Slots : CreateSlot(s) \/ \E c \in Callers : ReadSlot(c, s)
       \/ \E c \in Callers : BookSlot(c)
    /\ UNCHANGED <<library, boarding, meals, slips, inventory, staff>>
MealsNext ==
    /\ \E c \in Callers : \/ \E s \in Students, n \in 1..MaxCredit : ReadAccount(c, s, n)
                        \/ TopUp(c)
    /\ UNCHANGED <<library, boarding, conferences, slips, inventory, staff>>
SlipsNext ==
    /\ \E c \in Callers : \/ \E p \in Slips, d \in {"approved", "declined"} : ReadSlip(c, p, d)
                        \/ SignSlip(c)
    /\ UNCHANGED <<library, boarding, conferences, meals, inventory, staff>>
AssetsNext ==
    /\ \/ \E a \in Assets : CreateAsset(a)
       \/ \E c \in Callers : \/ \E a \in Assets, action \in AssetActions,
                                target \in Callers \cup {Nobody} : ReadAsset(c, a, action, target)
                           \/ MoveAsset(c)
    /\ UNCHANGED <<library, boarding, conferences, meals, slips, staff>>
LeaveNext ==
    /\ \/ \E v \in Leaves : RequestLeave(v)
       \/ \E c \in Callers : \/ \E v \in Leaves, d \in {"approved", "rejected"} : ReadLeave(c, v, d)
                           \/ DecideLeave(c)
    /\ UNCHANGED <<library, boarding, conferences, meals, slips, inventory>>
RequestsEnd ==
    /\ \E c \in Callers : GivesUp(c)
    /\ UNCHANGED <<library, boarding, conferences, meals, slips, inventory, staff>>
DesksNext == \/ LibraryNext \/ BoardingNext \/ ConferenceNext \/ MealsNext \/ SlipsNext
             \/ AssetsNext \/ LeaveNext \/ RequestsEnd
DesksSpec == DesksInit /\ [][DesksNext]_vars

------------------------------------------------------------------------------
\* Every row and every count keeps its type: no number of copies on the shelf is
\* negative, and no balance is beyond what may be paid in.
DeskTypeOK ==
    /\ book \in [Books -> BookRow \cup {NoRow}] /\ loan \in [Loans -> LoanRow \cup {NoRow}]
    /\ room \in [Rooms -> RoomRow \cup {NoRow}] /\ stay \in [Stays -> StayRow \cup {NoRow}]
    /\ slot \in [Slots -> SlotRow \cup {NoRow}] /\ booking \in [Slots -> SUBSET Callers]
    /\ account \in [Students -> 0..MaxCredit \cup {NoRow}]
    /\ paidIn \in [Students -> 0..MaxCredit]
    /\ slip \in [Slips -> Signature \cup {NoRow}] /\ signed \in [Slips -> Signature \cup {NoRow}]
    /\ asset \in [Assets -> AssetRow \cup {NoRow}]
    /\ movement \in [Assets -> MovementRow \cup {NoRow}]
    /\ leave \in [Leaves -> Decision \cup {[status |-> "open", by |-> Nobody], NoRow}]
    /\ decisions \in [Leaves -> SUBSET Decision]

\* However requests overlap, the shelf never holds more copies than there are; and a
\* book no two requests worked on at once has a copy there for each one not on loan.
LibraryAgrees ==
    \A b \in Books : book[b] # NoRow =>
        LET out == {l \in Loans : loan[l] # NoRow /\ loan[l].book = b /\ loan[l].out}
        IN /\ book[b].available <= book[b].total
           /\ <<"book", b>> \in raced \/ book[b].available + Cardinality(out) = book[b].total
\* Without overlapping requests a room is never overfull and nobody has two beds.
BoardingAgrees ==
    /\ \A r \in Rooms : room[r] # NoRow =>
            <<"room", r>> \in raced \/ Cardinality(InRoom(r)) <= room[r].capacity
    /\ \A s \in Students : <<"boarder", s>> \in raced \/ Cardinality(BedsOf(s)) <= 1
\* However many parents ask at once, a slot is booked exactly when one of them has it.
ConferencesAgree ==
    \A s \in Slots : /\ Cardinality(booking[s]) <= 1
                      /\ (slot[s] # NoRow /\ slot[s].booked) <=> booking[s] # {}
\* Credit is never more than was paid in, and is that unless top-ups overlapped.
CreditAgrees ==
    \A s \in Students :
        /\ account[s] = NoRow <=> paidIn[s] = 0
        /\ account[s] # NoRow => /\ account[s] <= paidIn[s]
                                 /\ <<"credit", s>> \in raced \/ account[s] = paidIn[s]
\* The response stored is one parent's whole last signature unless two signed at once.
SlipsAgree == \A p \in Slips : <<"slip", p>> \in raced \/ slip[p] = signed[p]
\* The row of an asset says what the last entry of its movement log says, unless two
\* movements overlapped.
AssetsAgree ==
    \A a \in Assets : movement[a] # NoRow =>
        \/ <<"asset", a>> \in raced
        \/ /\ movement[a].action = "assigned" => asset[a].holder = movement[a].target
           /\ movement[a].action = "returned" => asset[a].holder = Nobody
           /\ asset[a].status = IF movement[a].action \in {"returned", "found"} THEN "in_stock"
                                ELSE movement[a].action
\* A leave request shows one whole decision that was answered, and without an overlap
\* it is decided once.
LeaveAgrees ==
    \A v \in Leaves : leave[v] # NoRow =>
        /\ IF decisions[v] = {} THEN leave[v].status = "open" ELSE leave[v] \in decisions[v]
        /\ <<"leave", v>> \in raced \/ Cardinality(decisions[v]) <= 1
DesksAgree == /\ LibraryAgrees /\ BoardingAgrees /\ ConferencesAgree /\ CreditAgrees
              /\ SlipsAgree /\ AssetsAgree /\ LeaveAgrees
===============================================================================
