------------------------------ MODULE SchoolProofs ------------------------------
(* What the desks, the calendar and the office of a school promise, whatever  *)
(* the number of people who ask at once: MCSchoolDesks composes them, and a   *)
(* behaviour is about one of them.  Each has an invariant of its own, of its  *)
(* rows and of what a request in flight knows of them: what it read is still  *)
(* so, or what it is about is in raced.  The library, boarding, conferences,  *)
(* meals, slips, assets, leave and the calendar come first, the office after. *)
EXTENDS MCSchoolDesks, FiniteSetTheorems, TLAPS

OneAtATime ==
    \A a, b \in Callers : a # b => request[a].on \cap request[b].on \subseteq raced

\* Whoever reads has what another works on in raced, and everybody else's request stays.
LEMMA ReadsOnce ==
  ASSUME request = [d \in Callers |-> request[d]], OneAtATime, NEW c \in Callers, NEW req,
         Reads(c, req)
  PROVE  /\ request' = [d \in Callers |-> request'[d]] /\ OneAtATime' /\ raced \subseteq raced'
         /\ request'[c] = req /\ \A d \in Callers : d # c => request'[d] = request[d]
         /\ \A d \in Callers, x \in req.on : d # c /\ x \in request[d].on => x \in raced'
<1>1. /\ request' = [request EXCEPT ![c] = req]
      /\ raced' = raced \cup (req.on \cap UNION {request[d].on : d \in Callers})
  BY DEF Reads
<1>2. request'[c] = req /\ \A d \in Callers : d # c => request'[d] = request[d]  BY <1>1
<1>3. \A d \in Callers, x \in req.on : d # c /\ x \in request[d].on => x \in raced'
  BY <1>1
<1>4. request' = [d \in Callers |-> request'[d]]  BY <1>1
<1>5. OneAtATime'
  <2> SUFFICES ASSUME NEW a \in Callers, NEW b \in Callers, a # b,
                      NEW x \in request'[a].on \cap request'[b].on
               PROVE  x \in raced'
    BY DEF OneAtATime
  <2>1. CASE a # c /\ b # c  BY <2>1, <1>1, <1>2 DEF OneAtATime
  <2>2. CASE a = c  BY <2>2, <1>2, <1>3
  <2>3. CASE b = c  BY <2>3, <1>2, <1>3
  <2> QED  BY <2>1, <2>2, <2>3
<1> QED  BY <1>1, <1>2, <1>3, <1>4, <1>5

\* A request that ends leaves the others alone.
LEMMA EndsOnce ==
  ASSUME request = [d \in Callers |-> request[d]], OneAtATime, NEW c \in Callers, Ends(c)
  PROVE  /\ request' = [d \in Callers |-> request'[d]] /\ OneAtATime' /\ raced' = raced
         /\ request'[c] = Idle /\ \A d \in Callers : d # c => request'[d] = request[d]
<1>1. request' = [request EXCEPT ![c] = Idle] /\ raced' = raced  BY DEF Ends
<1>2. request'[c] = Idle /\ \A d \in Callers : d # c => request'[d] = request[d]  BY <1>1
<1>3. OneAtATime'
  <2> SUFFICES ASSUME NEW a \in Callers, NEW b \in Callers, a # b
               PROVE  request'[a].on \cap request'[b].on \subseteq raced
    BY <1>1 DEF OneAtATime
  <2>1. Idle.on = {}  BY DEF Idle
  <2> QED  BY <2>1, <1>2 DEF OneAtATime
<1> QED  BY <1>1, <1>2, <1>3

\* A request that goes on about the same things leaves the others alone.
LEMMA GoesOnOnce ==
  ASSUME request = [d \in Callers |-> request[d]], OneAtATime, NEW c \in Callers, NEW req,
         request' = [request EXCEPT ![c] = req], raced' = raced, req.on = request[c].on
  PROVE  /\ request' = [d \in Callers |-> request'[d]] /\ OneAtATime'
         /\ request'[c] = req /\ \A d \in Callers : d # c => request'[d] = request[d]
<1>1. request'[c] = req /\ \A d \in Callers : d # c => request'[d] = request[d]  OBVIOUS
<1>2. \A d \in Callers : request'[d].on = request[d].on  BY <1>1
<1> QED  BY <1>1, <1>2 DEF OneAtATime

\* A set without two elements has one at most.
LEMMA AtMostOne ==
  ASSUME NEW S, \A x, y \in S : x = y
  PROVE  Cardinality(S) <= 1
<1>1. CASE S = {}  BY <1>1, FS_EmptySet
<1>2. ASSUME NEW x \in S PROVE Cardinality(S) <= 1
  <2>1. S = {x}  BY <1>2
  <2> QED  BY <2>1, FS_Singleton
<1> QED  BY <1>1, <1>2

-----------------------------------------------------------------------------
\* The library.

\* The loans of a book that are out.
OutOf(b) == {l \in Loans : loan[l] # NoRow /\ loan[l].book = b /\ loan[l].out}
\* What a request about a book knows: an issue found a copy, and a loan that comes back is
\* out; the copies it counted are those on the shelf, or the book is in raced.
LoanIsOut(l, on) ==
    /\ l \in Loans /\ loan[l] \in LoanRow /\ <<"book", loan[l].book>> \in on
    /\ <<"book", loan[l].book>> \in raced \/ loan[l].out
LibraryKnows(g) ==
    /\ g = Idle \/ g.op \in {"issue", "return", "shelve"}
    /\ g.op = "issue" =>
          /\ g.book \in Books /\ book[g.book] \in BookRow /\ <<"book", g.book>> \in g.on
          /\ g.seen \in 1..book[g.book].total
          /\ <<"book", g.book>> \in raced \/ g.seen = book[g.book].available
    /\ g.op \in {"return", "shelve"} => LoanIsOut(g.loan, g.on)
    /\ g.op = "shelve" =>
          /\ g.seen \in 0..book[loan[g.loan].book].total
          /\ \/ <<"book", loan[g.loan].book>> \in raced
             \/ g.seen = book[loan[g.loan].book].available
\* Copies are on the shelf or out, loans are of books there are.
BookWell(b) ==
    /\ IsFiniteSet(OutOf(b))
    /\ book[b] = NoRow => OutOf(b) = {}
    /\ book[b] # NoRow =>
          /\ book[b].available <= book[b].total
          /\ <<"book", b>> \in raced
             \/ book[b].available + Cardinality(OutOf(b)) = book[b].total
LibraryTypeOK ==
    /\ book \in [Books -> BookRow \cup {NoRow}] /\ loan \in [Loans -> LoanRow \cup {NoRow}]
    /\ \A l \in Loans : loan[l] # NoRow => book[loan[l].book] \in BookRow
LibraryRequests ==
    /\ request = [c \in Callers |-> request[c]] /\ OneAtATime
    /\ \A c \in Callers : LibraryKnows(request[c])
LibraryInv == LibraryTypeOK /\ LibraryRequests /\ \A b \in Books : BookWell(b)

LibraryEmpty == book = [b \in Books |-> NoRow] /\ loan = [l \in Loans |-> NoRow]

LEMMA LibraryRestAgrees == ASSUME LibraryEmpty PROVE LibraryAgrees /\ LibraryTypeOK
BY DEF LibraryEmpty, LibraryAgrees, LibraryTypeOK

LEMMA LibraryStarts == ASSUME HandlersInit, LibraryEmpty PROVE LibraryInv
<1> USE DEF LibraryEmpty, HandlersInit
<1>1. \A b : OutOf(b) = {}  BY DEF OutOf
<1>2. \A b \in Books : BookWell(b)  BY <1>1, FS_EmptySet DEF BookWell
<1>3. Idle.on = {} /\ Idle.op = "none"  BY DEF Idle
<1>4. \A c \in Callers : request[c] = Idle  OBVIOUS
<1>5. LibraryKnows(Idle)  BY <1>3 DEF LibraryKnows
<1> QED
  BY <1>2, <1>3, <1>4, <1>5 DEF LibraryInv, LibraryTypeOK, LibraryRequests, OneAtATime

\* A request keeps what it knows when another acts on other books, or on its own in a race.
LEMMA LibraryRemembers ==
  ASSUME NEW g, LibraryKnows(g), raced \subseteq raced', LibraryTypeOK,
         \A l \in Loans : loan[l] \in LoanRow =>
              /\ loan'[l] \in LoanRow /\ loan'[l].book = loan[l].book
              /\ <<"book", loan[l].book>> \in g.on /\ loan'[l].out # loan[l].out
                     => <<"book", loan[l].book>> \in raced',
         \A b \in Books : book[b] \in BookRow =>
              /\ book'[b] \in BookRow /\ book'[b].total = book[b].total
              /\ <<"book", b>> \in g.on /\ book'[b].available # book[b].available
                     => <<"book", b>> \in raced'
  PROVE  LibraryKnows(g)'
<1>1. CASE g = Idle  BY <1>1 DEF LibraryKnows, Idle
<1>2. CASE g.op = "issue"  BY <1>2 DEF LibraryKnows
<1>3. CASE g.op \in {"return", "shelve"}
  <2>1. /\ g.loan \in Loans /\ loan[g.loan] \in LoanRow /\ LoanIsOut(g.loan, g.on)
    BY <1>3 DEF LibraryKnows, LoanIsOut
  <2>2. PICK b \in Books : b = loan[g.loan].book  BY <2>1 DEF LoanRow
  <2>3. loan'[g.loan] \in LoanRow /\ loan'[g.loan].book = b  BY <2>1, <2>2
  <2>4. LoanIsOut(g.loan, g.on)'  BY <2>1, <2>2, <2>3 DEF LoanIsOut
  <2>5. NoRow \notin LoanRow  BY DeskAssumption
  <2>6. book[b] \in BookRow  BY <2>1, <2>2, <2>5 DEF LibraryTypeOK
  <2>7. book'[b] \in BookRow /\ book'[b].total = book[b].total  BY <2>6
  <2>8. ASSUME g.op = "shelve"
        PROVE  /\ g.seen \in 0..book'[b].total
               /\ <<"book", b>> \in raced' \/ g.seen = book'[b].available
    <3>1. <<"book", b>> \in g.on  BY <2>1, <2>2 DEF LoanIsOut
    <3> QED  BY <2>8, <3>1, <2>2, <2>6, <2>7 DEF LibraryKnows
  <2> QED  BY <1>3, <2>4, <2>3, <2>8 DEF LibraryKnows
<1> QED  BY <1>1, <1>2, <1>3 DEF LibraryKnows

\* Reading changes no row.
LEMMA LibraryReads ==
  ASSUME LibraryInv, NEW c \in Callers, NEW g, Reads(c, g), LibraryKnows(g)', UNCHANGED library
  PROVE  LibraryInv'
<1>1. book' = book /\ loan' = loan  BY DEF library
<1>2. /\ request' = [d \in Callers |-> request'[d]] /\ OneAtATime' /\ raced \subseteq raced'
      /\ request'[c] = g /\ \A d \in Callers : d # c => request'[d] = request[d]
  BY ReadsOnce DEF LibraryInv, LibraryRequests
<1>3. ASSUME NEW d \in Callers PROVE LibraryKnows(request[d])'
  <2>1. CASE d = c  BY <2>1, <1>2
  <2>2. CASE d # c
    <3>1. PICK h : h = request[d]  OBVIOUS
    <3>2. LibraryKnows(h)  BY <3>1 DEF LibraryInv, LibraryRequests
    <3>3. LibraryKnows(h)'  BY <1>1, <1>2, <3>2, LibraryRemembers DEF LibraryInv
    <3> QED  BY <3>1, <3>3, <2>2, <1>2
  <2> QED  BY <2>1, <2>2
<1>4. \A b : OutOf(b)' = OutOf(b)  BY <1>1 DEF OutOf
<1>5. \A b \in Books : BookWell(b)'  BY <1>1, <1>2, <1>4 DEF LibraryInv, BookWell
<1>6. LibraryTypeOK'  BY <1>1 DEF LibraryInv, LibraryTypeOK
<1>7. LibraryRequests'  BY <1>2, <1>3 DEF LibraryRequests
<1> QED  BY <1>5, <1>6, <1>7 DEF LibraryInv

LEMMA CreateBookKeeps ==
  ASSUME LibraryInv, NEW b \in Books, NEW n \in 1..MaxSize, CreateBook(b, n)
  PROVE  LibraryInv'
<1> LibraryTypeOK /\ LibraryRequests /\ \A x \in Books : BookWell(x)  BY DEF LibraryInv
<1> DEFINE row == [total |-> n, available |-> n]
<1>1. /\ book[b] = NoRow /\ book' = [book EXCEPT ![b] = row] /\ loan' = loan
      /\ request' = request /\ raced' = raced
  BY DEF CreateBook, callers
<1>2. MaxSize \in Nat /\ NoRow \notin BookRow /\ NoRow \notin LoanRow  BY DeskAssumption
<1>3. row \in BookRow /\ row.total = n /\ row.available = n  BY <1>2 DEF BookRow
<1> HIDE DEF row
<1>4. /\ book' \in [Books -> BookRow \cup {NoRow}] /\ book'[b] = row
      /\ \A x \in Books : x # b => book'[x] = book[x]
  BY <1>1, <1>3 DEF LibraryTypeOK
<1>5. ASSUME NEW l \in Loans, loan[l] # NoRow
      PROVE  loan[l] \in LoanRow /\ loan[l].book \in Books /\ loan[l].book # b
  BY <1>1, <1>2, <1>5 DEF LibraryTypeOK, LoanRow
<1>6. LibraryTypeOK'  BY <1>1, <1>4, <1>5 DEF LibraryTypeOK
<1>7. \A x : OutOf(x)' = OutOf(x)  BY <1>1 DEF OutOf
<1>8. OutOf(b) = {}  BY <1>5 DEF OutOf
<1>9. BookWell(b)'
  <2>1. row.available <= row.total /\ row.available + 0 = row.total  BY <1>3
  <2> QED  BY <1>2, <1>3, <1>4, <1>7, <1>8, <2>1, FS_EmptySet DEF BookWell
<1>10. \A x \in Books : x # b => BookWell(x)'  BY <1>1, <1>4, <1>7 DEF BookWell
<1>11. ASSUME NEW d \in Callers PROVE LibraryKnows(request[d])'
  <2>1. PICK h : h = request[d]  OBVIOUS
  <2>2. LibraryKnows(h)  BY <2>1 DEF LibraryRequests
  <2>3. \A x \in Books : book[x] \in BookRow => book'[x] = book[x]  BY <1>1, <1>2, <1>4
  <2>4. LibraryKnows(h)'  BY <1>1, <2>2, <2>3, LibraryRemembers
  <2> QED  BY <2>1, <2>4, <1>1
<1> QED  BY <1>6, <1>9, <1>10, <1>11, <1>1 DEF LibraryInv, LibraryRequests, OneAtATime

\* The others keep what they know when a request that is about a book writes of that book.
LEMMA OtherReadersRemember ==
  ASSUME LibraryInv, NEW c \in Callers, NEW b \in Books, <<"book", b>> \in request[c].on,
         raced' = raced, \A d \in Callers : d # c => request'[d] = request[d],
         \A l \in Loans : loan[l] \in LoanRow =>
              /\ loan'[l] \in LoanRow /\ loan'[l].book = loan[l].book
              /\ loan[l].book # b => loan'[l].out = loan[l].out,
         \A x \in Books : book[x] \in BookRow =>
              /\ book'[x] \in BookRow /\ book'[x].total = book[x].total
              /\ x # b => book'[x] = book[x]
  PROVE  \A d \in Callers : d # c => LibraryKnows(request[d])'
<1> SUFFICES ASSUME NEW d \in Callers, d # c PROVE LibraryKnows(request[d])'
  OBVIOUS
<1>1. PICK h : h = request[d]  OBVIOUS
<1>2. LibraryKnows(h) /\ (<<"book", b>> \in h.on => <<"book", b>> \in raced)
  BY <1>1 DEF LibraryInv, LibraryRequests, OneAtATime
<1>3. LibraryKnows(h)'  BY <1>2, LibraryRemembers DEF LibraryInv
<1> QED  BY <1>1, <1>3

\* A book nothing happens to is as well as before.
LEMMA OtherBooksRest ==
  ASSUME NEW x \in Books, BookWell(x), OutOf(x)' = OutOf(x), book'[x] = book[x], raced' = raced
  PROVE  BookWell(x)'
BY DEF BookWell

LEMMA IssueLoanKeeps ==
  ASSUME LibraryInv, NEW c \in Callers, NEW l \in Loans, IssueLoan(c, l)
  PROVE  LibraryInv'
<1> LibraryTypeOK /\ LibraryRequests /\ \A x \in Books : BookWell(x)  BY DEF LibraryInv
<1>1. PICK g : g = request[c]  OBVIOUS
<1>2. /\ g.op = "issue" /\ loan[l] = NoRow
      /\ loan' = [loan EXCEPT ![l] = [book |-> g.book, out |-> TRUE]]
      /\ book' = [book EXCEPT ![g.book].available = g.seen - 1] /\ Ends(c)
  BY <1>1 DEF IssueLoan
<1>3. PICK b \in Books : b = g.book  BY <1>1, <1>2 DEF LibraryRequests, LibraryKnows
<1>4. PICK old \in BookRow : old = book[b]
  BY <1>1, <1>2, <1>3 DEF LibraryRequests, LibraryKnows
<1>5. /\ g.seen \in 1..old.total /\ <<"book", b>> \in request[c].on
      /\ <<"book", b>> \in raced \/ g.seen = old.available
  BY <1>1, <1>2, <1>3, <1>4 DEF LibraryRequests, LibraryKnows
<1>6. MaxSize \in Nat /\ NoRow \notin BookRow /\ NoRow \notin LoanRow  BY DeskAssumption
<1>7. PICK new \in BookRow : new = [old EXCEPT !.available = g.seen - 1]
  <2>1. PICK n \in 0..MaxSize : n = g.seen - 1  BY <1>5, <1>6 DEF BookRow
  <2>2. [old EXCEPT !.available = n] \in BookRow  BY DEF BookRow
  <2> QED  BY <2>1, <2>2
<1>8. old.total \in Nat /\ new.total = old.total /\ new.available = g.seen - 1
  BY <1>6, <1>7 DEF BookRow
<1>9. PICK row \in LoanRow : row = [book |-> b, out |-> TRUE]  BY DEF LoanRow
<1>10. row.book = b /\ row.out  BY <1>9
<1>11. /\ book' \in [Books -> BookRow \cup {NoRow}] /\ book'[b] = new
       /\ \A x \in Books : x # b => book'[x] = book[x]
  BY <1>2, <1>3, <1>4, <1>7 DEF LibraryTypeOK
<1>12. /\ loan' \in [Loans -> LoanRow \cup {NoRow}] /\ loan'[l] = row
       /\ \A k \in Loans : k # l => loan'[k] = loan[k]
  BY <1>2, <1>3, <1>9 DEF LibraryTypeOK
<1>13. LibraryTypeOK'
  <2>1. ASSUME NEW k \in Loans, loan'[k] # NoRow PROVE book'[loan'[k].book] \in BookRow
    <3>1. CASE k = l  BY <3>1, <1>10, <1>11, <1>12
    <3>2. CASE k # l
      <4>1. loan'[k] = loan[k] /\ book[loan[k].book] \in BookRow
        BY <2>1, <3>2, <1>12 DEF LibraryTypeOK
      <4>2. loan[k].book \in Books  BY <4>1, <2>1, <1>12 DEF LoanRow
      <4> QED  BY <4>1, <4>2, <1>11
    <3> QED  BY <3>1, <3>2
  <2> QED  BY <2>1, <1>11, <1>12 DEF LibraryTypeOK
<1>14. /\ request' = [d \in Callers |-> request'[d]] /\ OneAtATime' /\ raced' = raced
       /\ request'[c] = Idle /\ \A d \in Callers : d # c => request'[d] = request[d]
  BY <1>2, EndsOnce DEF LibraryRequests
<1>15. OutOf(b)' = OutOf(b) \cup {l} /\ l \notin OutOf(b)
  BY <1>2, <1>6, <1>10, <1>12 DEF OutOf
<1>16. \A x \in Books : x # b => OutOf(x)' = OutOf(x)
  BY <1>2, <1>6, <1>10, <1>12 DEF OutOf
<1>17. BookWell(b)'
  <2>1. IsFiniteSet(OutOf(b))  BY DEF BookWell
  <2>2. IsFiniteSet(OutOf(b)') /\ Cardinality(OutOf(b)') = Cardinality(OutOf(b)) + 1
    BY <2>1, <1>15, FS_AddElement
  <2>3. Cardinality(OutOf(b)) \in Nat  BY <2>1, FS_CardinalityType
  <2>4. <<"book", b>> \in raced \/ old.available + Cardinality(OutOf(b)) = old.total
    BY <1>4, <1>6 DEF BookWell
  <2>5. new.available <= new.total  BY <1>5, <1>8
  <2>6. <<"book", b>> \in raced \/ new.available + Cardinality(OutOf(b)') = new.total
    BY <2>2, <2>3, <2>4, <1>5, <1>8
  <2> QED  BY <2>2, <2>5, <2>6, <1>6, <1>11, <1>14 DEF BookWell
<1>18. \A x \in Books : x # b => BookWell(x)'  BY <1>11, <1>14, <1>16, OtherBooksRest
<1>19. \A d \in Callers : d # c => LibraryKnows(request[d])'
  <2>1. \A k \in Loans : loan[k] \in LoanRow =>
              /\ loan'[k] \in LoanRow /\ loan'[k].book = loan[k].book
              /\ loan[k].book # b => loan'[k].out = loan[k].out
    BY <1>2, <1>6, <1>12
  <2>2. \A x \in Books : book[x] \in BookRow =>
              /\ book'[x] \in BookRow /\ book'[x].total = book[x].total
              /\ x # b => book'[x] = book[x]
    BY <1>4, <1>8, <1>11
  <2> QED  BY <2>1, <2>2, <1>5, <1>14, OtherReadersRemember
<1>20. LibraryKnows(request[c])'  BY <1>14 DEF LibraryKnows, Idle
<1> QED  BY <1>13, <1>14, <1>17, <1>18, <1>19, <1>20 DEF LibraryInv, LibraryRequests

LEMMA ReturnLoanKeeps ==
  ASSUME LibraryInv, NEW c \in Callers, ReturnLoan(c)
  PROVE  LibraryInv'
<1> LibraryTypeOK /\ LibraryRequests /\ \A x \in Books : BookWell(x)  BY DEF LibraryInv
<1>1. PICK g : g = request[c]  OBVIOUS
<1>2. g.op = "shelve" /\ LoanIsOut(g.loan, g.on)
  BY <1>1 DEF ReturnLoan, LibraryRequests, LibraryKnows
<1>3. PICK l \in Loans : l = g.loan  BY <1>2 DEF LoanIsOut
<1>4. PICK lent \in LoanRow : lent = loan[l]  BY <1>2, <1>3 DEF LoanIsOut
<1>5. PICK b \in Books : b = lent.book  BY DEF LoanRow
<1>6. /\ <<"book", b>> \in request[c].on
      /\ <<"book", b>> \in raced \/ lent.out
      /\ g.seen \in 0..book[b].total
      /\ <<"book", b>> \in raced \/ g.seen = book[b].available
  BY <1>1, <1>2, <1>3, <1>4, <1>5 DEF LoanIsOut, LibraryRequests, LibraryKnows
<1>7. MaxSize \in Nat /\ NoRow \notin BookRow /\ NoRow \notin LoanRow  BY DeskAssumption
<1>8. PICK old \in BookRow : old = book[b]  BY <1>4, <1>5, <1>7 DEF LibraryTypeOK
<1>9. PICK n : n = Written(old.available, g.seen, Shelved(g.seen, old.total))  OBVIOUS
<1>10. /\ loan' = [loan EXCEPT ![l].out = FALSE]
       /\ book' = [book EXCEPT ![b].available = n] /\ Ends(c)
  BY <1>1, <1>3, <1>4, <1>5, <1>8, <1>9 DEF ReturnLoan
<1>11. /\ old.total \in 1..MaxSize /\ old.available \in 0..MaxSize
       /\ old.available <= old.total
  BY <1>7, <1>8 DEF BookRow, BookWell
<1>12. n \in 0..old.total  BY <1>6, <1>7, <1>8, <1>9, <1>11 DEF Written, Shelved
<1>13. PICK new \in BookRow : new = [old EXCEPT !.available = n]
  <2>1. n \in 0..MaxSize  BY <1>7, <1>11, <1>12
  <2>2. [old EXCEPT !.available = n] \in BookRow  BY <2>1 DEF BookRow
  <2> QED  BY <2>2
<1>14. new.total = old.total /\ new.available = n  BY <1>13 DEF BookRow
<1>15. PICK back \in LoanRow : back = [lent EXCEPT !.out = FALSE]  BY DEF LoanRow
<1>16. back.book = b /\ ~back.out  BY <1>5, <1>15 DEF LoanRow
<1>17. /\ book' \in [Books -> BookRow \cup {NoRow}] /\ book'[b] = new
       /\ \A x \in Books : x # b => book'[x] = book[x]
  BY <1>8, <1>10, <1>13 DEF LibraryTypeOK
<1>18. /\ loan' \in [Loans -> LoanRow \cup {NoRow}] /\ loan'[l] = back
       /\ \A k \in Loans : k # l => loan'[k] = loan[k]
  BY <1>4, <1>10, <1>15 DEF LibraryTypeOK
<1>19. LibraryTypeOK'
  <2>1. ASSUME NEW k \in Loans, loan'[k] # NoRow PROVE book'[loan'[k].book] \in BookRow
    <3>1. CASE k = l  BY <3>1, <1>16, <1>17, <1>18
    <3>2. CASE k # l
      <4>1. loan'[k] = loan[k] /\ book[loan[k].book] \in BookRow
        BY <2>1, <3>2, <1>18 DEF LibraryTypeOK
      <4>2. loan[k].book \in Books  BY <4>1, <2>1, <1>18 DEF LoanRow
      <4> QED  BY <4>1, <4>2, <1>17
    <3> QED  BY <3>1, <3>2
  <2> QED  BY <2>1, <1>17, <1>18 DEF LibraryTypeOK
<1>20. /\ request' = [d \in Callers |-> request'[d]] /\ OneAtATime' /\ raced' = raced
       /\ request'[c] = Idle /\ \A d \in Callers : d # c => request'[d] = request[d]
  BY <1>10, EndsOnce DEF LibraryRequests
<1>21. OutOf(b)' = OutOf(b) \ {l} /\ (lent.out => l \in OutOf(b))
  BY <1>4, <1>5, <1>7, <1>16, <1>18 DEF OutOf
<1>22. \A x \in Books : x # b => OutOf(x)' = OutOf(x)
  BY <1>4, <1>5, <1>16, <1>18 DEF OutOf
<1>23. BookWell(b)'
  <2>1. IsFiniteSet(OutOf(b))  BY DEF BookWell
  <2>2. /\ IsFiniteSet(OutOf(b)') /\ Cardinality(OutOf(b)) \in Nat
        /\ lent.out => Cardinality(OutOf(b)') = Cardinality(OutOf(b)) - 1
                       /\ Cardinality(OutOf(b)') \in Nat
    BY <2>1, <1>21, FS_RemoveElement, FS_CardinalityType
  <2>3. <<"book", b>> \in raced \/ old.available + Cardinality(OutOf(b)) = old.total
    BY <1>7, <1>8 DEF BookWell
  <2>4. new.available <= new.total  BY <1>12, <1>14
  <2>5. <<"book", b>> \in raced \/ new.available + Cardinality(OutOf(b)') = new.total
    <3> SUFFICES ASSUME <<"book", b>> \notin raced
                 PROVE  new.available + Cardinality(OutOf(b)') = new.total
      OBVIOUS
    <3>1. g.seen = old.available /\ old.available + Cardinality(OutOf(b)) = old.total
      BY <2>3, <1>6, <1>8
    <3>2. old.available < old.total  BY <3>1, <2>2, <1>6, <1>11
    <3>3. n = old.available + 1  BY <3>1, <3>2, <1>9, <1>11 DEF Written, Shelved
    <3> QED  BY <3>1, <3>3, <2>2, <1>6, <1>11, <1>14
  <2> QED  BY <2>2, <2>4, <2>5, <1>7, <1>17, <1>20 DEF BookWell
<1>24. \A x \in Books : x # b => BookWell(x)'  BY <1>17, <1>20, <1>22, OtherBooksRest
<1>25. \A d \in Callers : d # c => LibraryKnows(request[d])'
  <2>1. \A k \in Loans : loan[k] \in LoanRow =>
              /\ loan'[k] \in LoanRow /\ loan'[k].book = loan[k].book
              /\ loan[k].book # b => loan'[k].out = loan[k].out
    BY <1>4, <1>5, <1>16, <1>18
  <2>2. \A x \in Books : book[x] \in BookRow =>
              /\ book'[x] \in BookRow /\ book'[x].total = book[x].total
              /\ x # b => book'[x] = book[x]
    BY <1>8, <1>14, <1>17
  <2> QED  BY <2>1, <2>2, <1>6, <1>20, OtherReadersRemember
<1>26. LibraryKnows(request[c])'  BY <1>20 DEF LibraryKnows, Idle
<1> QED  BY <1>19, <1>20, <1>23, <1>24, <1>25, <1>26 DEF LibraryInv, LibraryRequests

LEMMA ReadForIssueKeeps ==
  ASSUME LibraryInv, NEW c \in Callers, NEW b \in Books, ReadForIssue(c, b) PROVE LibraryInv'
<1>1. PICK n : n = book[b].available  OBVIOUS
<1>2. PICK g : g = [op |-> "issue", on |-> {<<"book", b>>}, book |-> b, seen |-> n]  OBVIOUS
<1>3. book[b] # NoRow /\ n > 0 /\ Reads(c, g) /\ UNCHANGED library
  BY <1>1, <1>2 DEF ReadForIssue
<1>4. book[b] \in BookRow /\ n <= book[b].total
  BY <1>1, <1>3 DEF LibraryInv, LibraryTypeOK, BookWell
<1>5. MaxSize \in Nat /\ book[b].total \in 1..MaxSize /\ n \in 0..MaxSize
  BY <1>1, <1>4, DeskAssumption DEF BookRow
<1>6. n \in 1..book[b].total  BY <1>3, <1>4, <1>5
<1>7. LibraryKnows(g)'
  <2>1. g.op = "issue" /\ g.book = b /\ g.seen = n /\ <<"book", b>> \in g.on  BY <1>2
  <2>2. book' = book  BY <1>3 DEF library
  <2> QED  BY <2>1, <2>2, <1>1, <1>4, <1>6 DEF LibraryKnows
<1> QED  BY <1>3, <1>7, LibraryReads

LEMMA ReadForReturnKeeps ==
  ASSUME LibraryInv, NEW c \in Callers, NEW l \in Loans, ReadForReturn(c, l) PROVE LibraryInv'
<1>1. PICK b : b = loan[l].book  OBVIOUS
<1>2. PICK g : g = [op |-> "return", on |-> {<<"book", b>>}, loan |-> l]  OBVIOUS
<1>3. loan[l] # NoRow /\ loan[l].out /\ Reads(c, g) /\ UNCHANGED library
  BY <1>1, <1>2 DEF ReadForReturn
<1>4. loan[l] \in LoanRow  BY <1>3 DEF LibraryInv, LibraryTypeOK
<1>5. LibraryKnows(g)'
  <2>1. g.op = "return" /\ g.loan = l /\ <<"book", b>> \in g.on  BY <1>2
  <2>2. loan' = loan  BY <1>3 DEF library
  <2> QED  BY <2>1, <2>2, <1>1, <1>3, <1>4 DEF LibraryKnows, LoanIsOut
<1> QED  BY <1>3, <1>5, LibraryReads

LEMMA ReadReturnedBookKeeps ==
  ASSUME LibraryInv, NEW c \in Callers, ReadReturnedBook(c) PROVE LibraryInv'
<1>1. PICK g : g = request[c]  OBVIOUS
<1>2. PICK l : l = g.loan  OBVIOUS
<1>3. PICK n : n = book[loan[l].book].available  OBVIOUS
<1>4. PICK h : h = [op |-> "shelve", on |-> g.on, loan |-> l, seen |-> n]  OBVIOUS
<1>5. /\ g.op = "return" /\ request' = [request EXCEPT ![c] = h] /\ raced' = raced
      /\ book' = book /\ loan' = loan
  BY <1>1, <1>2, <1>3, <1>4 DEF ReadReturnedBook, library
<1>6. h.op = "shelve" /\ h.on = g.on /\ h.loan = l /\ h.seen = n  BY <1>4
<1>7. LoanIsOut(l, g.on) /\ l \in Loans /\ loan[l] \in LoanRow
  BY <1>1, <1>2, <1>5 DEF LibraryInv, LibraryRequests, LibraryKnows, LoanIsOut
<1>8. PICK b \in Books : b = loan[l].book  BY <1>7 DEF LoanRow
<1>9. MaxSize \in Nat /\ NoRow \notin BookRow /\ NoRow \notin LoanRow  BY DeskAssumption
<1>10. book[b] \in BookRow /\ n <= book[b].total
  BY <1>3, <1>7, <1>8, <1>9 DEF LibraryInv, LibraryTypeOK, BookWell
<1>11. book[b].total \in 1..MaxSize /\ n \in 0..MaxSize  BY <1>3, <1>8, <1>10 DEF BookRow
<1>12. n \in 0..book[b].total  BY <1>9, <1>10, <1>11
<1>13. /\ request' = [d \in Callers |-> request'[d]] /\ OneAtATime'
       /\ request'[c] = h /\ \A d \in Callers : d # c => request'[d] = request[d]
  BY <1>1, <1>5, <1>6, GoesOnOnce DEF LibraryInv, LibraryRequests
<1>14. LibraryKnows(request[c])'
  <2>1. LibraryKnows(h)'  BY <1>3, <1>5, <1>6, <1>7, <1>8, <1>12 DEF LibraryKnows, LoanIsOut
  <2> QED  BY <2>1, <1>13
<1>15. \A d \in Callers : d # c => LibraryKnows(request[d])'
  BY <1>5, <1>13 DEF LibraryInv, LibraryRequests, LibraryKnows, LoanIsOut
<1>16. LibraryRequests'  BY <1>13, <1>14, <1>15 DEF LibraryRequests
<1>17. \A x \in Books : BookWell(x)'  BY <1>5 DEF LibraryInv, BookWell, OutOf
<1> QED  BY <1>5, <1>16, <1>17 DEF LibraryInv, LibraryTypeOK

\* A request that is refused or breaks off leaves the library as it is.
LEMMA LibraryGivingUpKeeps ==
  ASSUME LibraryInv, NEW c \in Callers, GivesUp(c), UNCHANGED library PROVE LibraryInv'
<1>1. book' = book /\ loan' = loan  BY DEF library
<1>2. /\ request' = [d \in Callers |-> request'[d]] /\ OneAtATime' /\ raced' = raced
      /\ request'[c] = Idle /\ \A d \in Callers : d # c => request'[d] = request[d]
  BY EndsOnce DEF GivesUp, LibraryInv, LibraryRequests
<1>3. LibraryKnows(request[c])'  BY <1>2 DEF LibraryKnows, Idle
<1>4. \A d \in Callers : d # c => LibraryKnows(request[d])'
  BY <1>1, <1>2 DEF LibraryInv, LibraryRequests, LibraryKnows, LoanIsOut
<1>5. LibraryRequests'  BY <1>2, <1>3, <1>4 DEF LibraryRequests
<1>6. \A x \in Books : BookWell(x)'  BY <1>1, <1>2 DEF LibraryInv, BookWell, OutOf
<1> QED  BY <1>1, <1>5, <1>6 DEF LibraryInv, LibraryTypeOK

LEMMA LibraryStep == ASSUME LibraryInv, LibraryNext PROVE LibraryInv'
BY CreateBookKeeps, ReadForIssueKeeps, IssueLoanKeeps, ReadForReturnKeeps,
   ReadReturnedBookKeeps, ReturnLoanKeeps
   DEF LibraryNext

LEMMA LibraryRests == ASSUME LibraryInv, UNCHANGED <<library, callers>> PROVE LibraryInv'
<1>1. book' = book /\ loan' = loan /\ request' = request /\ raced' = raced
  BY DEF library, callers
<1>2. \A d \in Callers : LibraryKnows(request[d])'
  BY <1>1 DEF LibraryInv, LibraryRequests, LibraryKnows, LoanIsOut
<1>3. LibraryRequests'  BY <1>1, <1>2 DEF LibraryInv, LibraryRequests, OneAtATime
<1>4. \A x \in Books : BookWell(x)'  BY <1>1 DEF LibraryInv, BookWell, OutOf
<1> QED  BY <1>1, <1>3, <1>4 DEF LibraryInv, LibraryTypeOK

LEMMA LibraryKept == ASSUME LibraryInv PROVE LibraryAgrees /\ LibraryTypeOK
BY DEF LibraryInv, LibraryAgrees, BookWell, OutOf

-----------------------------------------------------------------------------
\* The boarding house.

\* What a request for a bed knows: the room is not full, and, once it has looked, the student
\* has no bed, or they are in raced.
BoardingKnows(g) ==
    /\ g = Idle \/ g.op \in {"count", "assign"}
    /\ g.op \in {"count", "assign"} =>
          /\ g.room \in Rooms /\ room[g.room] \in RoomRow /\ g.student \in Students
          /\ <<"room", g.room>> \in g.on /\ <<"boarder", g.student>> \in g.on
          /\ \/ <<"room", g.room>> \in raced
             \/ Cardinality(InRoom(g.room)) < room[g.room].capacity
    /\ g.op = "assign" => <<"boarder", g.student>> \in raced \/ BedsOf(g.student) = {}
BoardingTypeOK ==
    /\ room \in [Rooms -> RoomRow \cup {NoRow}] /\ stay \in [Stays -> StayRow \cup {NoRow}]
    /\ \A a \in Current : room[stay[a].room] \in RoomRow
BoardingRequests ==
    /\ request = [c \in Callers |-> request[c]] /\ OneAtATime
    /\ \A c \in Callers : BoardingKnows(request[c])
RoomWell(r) ==
    /\ IsFiniteSet(InRoom(r))
    /\ room[r] # NoRow =>
          <<"room", r>> \in raced \/ Cardinality(InRoom(r)) <= room[r].capacity
BoarderWell(s) == <<"boarder", s>> \in raced \/ \A a, b \in BedsOf(s) : a = b
BoardingInv ==
    /\ BoardingTypeOK /\ BoardingRequests
    /\ \A r \in Rooms : RoomWell(r)
    /\ \A s \in Students : BoarderWell(s)

BoardingEmpty == room = [r \in Rooms |-> NoRow] /\ stay = [a \in Stays |-> NoRow]

LEMMA BoardingRestAgrees == ASSUME BoardingEmpty PROVE BoardingAgrees /\ BoardingTypeOK
<1> USE DEF BoardingEmpty
<1>1. Current = {}  BY DEF Current
<1>2. \A s : BedsOf(s) = {}  BY <1>1 DEF BedsOf
<1>3. Cardinality({}) = 0  BY FS_EmptySet
<1>4. \A s : Cardinality(BedsOf(s)) <= 1  BY <1>2, <1>3
<1> QED  BY <1>1, <1>4 DEF BoardingAgrees, BoardingTypeOK

LEMMA BoardingStarts == ASSUME HandlersInit, BoardingEmpty PROVE BoardingInv
<1> USE DEF BoardingEmpty, HandlersInit
<1>1. Current = {}  BY DEF Current
<1>2. \A r : InRoom(r) = {} /\ BedsOf(r) = {}  BY <1>1 DEF InRoom, BedsOf
<1>3. \A r \in Rooms : RoomWell(r)  BY <1>2, FS_EmptySet DEF RoomWell
<1>4. \A s \in Students : BoarderWell(s)  BY <1>2 DEF BoarderWell
<1>5. Idle.on = {} /\ Idle.op = "none"  BY DEF Idle
<1>6. \A c \in Callers : request[c] = Idle  OBVIOUS
<1>7. BoardingKnows(Idle)  BY <1>5 DEF BoardingKnows
<1>8. BoardingRequests  BY <1>5, <1>6, <1>7 DEF BoardingRequests, OneAtATime
<1> QED  BY <1>1, <1>3, <1>4, <1>8 DEF BoardingInv, BoardingTypeOK

\* A request keeps what it knows when nobody moves in where it looks, unless there is a race.
LEMMA BoardingRemembers ==
  ASSUME NEW g, BoardingKnows(g), raced \subseteq raced',
         \A r \in Rooms : /\ room[r] \in RoomRow => room'[r] = room[r]
                          /\ RoomWell(r)
                          /\ \/ InRoom(r)' \subseteq InRoom(r)
                             \/ <<"room", r>> \in g.on => <<"room", r>> \in raced',
         \A s \in Students : \/ BedsOf(s)' \subseteq BedsOf(s)
                             \/ <<"boarder", s>> \in g.on => <<"boarder", s>> \in raced'
  PROVE  BoardingKnows(g)'
<1>1. CASE g = Idle  BY <1>1 DEF BoardingKnows, Idle
<1>2. CASE g.op \in {"count", "assign"}
  <2>1. PICK r \in Rooms : r = g.room  BY <1>2 DEF BoardingKnows
  <2>2. PICK s \in Students : s = g.student  BY <1>2 DEF BoardingKnows
  <2>3. /\ room[r] \in RoomRow /\ <<"room", r>> \in g.on /\ <<"boarder", s>> \in g.on
        /\ <<"room", r>> \in raced \/ Cardinality(InRoom(r)) < room[r].capacity
        /\ g.op = "assign" => <<"boarder", s>> \in raced \/ BedsOf(s) = {}
    BY <1>2, <2>1, <2>2 DEF BoardingKnows
  <2>4. <<"room", r>> \in raced' \/ Cardinality(InRoom(r)') < room'[r].capacity
    <3>1. CASE InRoom(r)' \subseteq InRoom(r)
      <4>1. IsFiniteSet(InRoom(r))  BY DEF RoomWell
      <4>2. /\ Cardinality(InRoom(r)') <= Cardinality(InRoom(r))
            /\ Cardinality(InRoom(r)') \in Nat /\ Cardinality(InRoom(r)) \in Nat
        BY <4>1, <3>1, FS_Subset, FS_CardinalityType
      <4>3. room[r].capacity \in 1..MaxSize /\ MaxSize \in Nat
        BY <2>3, DeskAssumption DEF RoomRow
      <4> QED  BY <2>3, <4>2, <4>3
    <3> QED  BY <3>1, <2>3
  <2>5. g.op = "assign" => <<"boarder", s>> \in raced' \/ BedsOf(s)' = {}  BY <2>3
  <2> QED  BY <1>2, <2>1, <2>2, <2>3, <2>4, <2>5 DEF BoardingKnows
<1> QED  BY <1>1, <1>2 DEF BoardingKnows

\* Reading and looking change no row.
LEMMA BoardingReads ==
  ASSUME BoardingInv, NEW c \in Callers, NEW g, UNCHANGED boarding, raced \subseteq raced',
         request' = [d \in Callers |-> request'[d]], OneAtATime', BoardingKnows(g)',
         request'[c] = g, \A d \in Callers : d # c => request'[d] = request[d]
  PROVE  BoardingInv'
<1> /\ BoardingTypeOK /\ BoardingRequests
    /\ (\A r \in Rooms : RoomWell(r)) /\ \A s \in Students : BoarderWell(s)
  BY DEF BoardingInv
<1>1. room' = room /\ stay' = stay  BY DEF boarding
<1>2. Current' = Current  BY <1>1 DEF Current
<1>3. \A x : InRoom(x)' = InRoom(x) /\ BedsOf(x)' = BedsOf(x)  BY <1>1, <1>2 DEF InRoom, BedsOf
<1>4. ASSUME NEW d \in Callers PROVE BoardingKnows(request[d])'
  <2>1. CASE d # c
    <3>1. PICK h : h = request[d]  OBVIOUS
    <3>2. BoardingKnows(h)  BY <3>1 DEF BoardingRequests
    <3>3. BoardingKnows(h)'  BY <1>1, <1>3, <3>2, BoardingRemembers
    <3> QED  BY <3>1, <3>3, <2>1
  <2> QED  BY <2>1
<1>5. BoardingRequests'  BY <1>4 DEF BoardingRequests
<1>6. \A r \in Rooms : RoomWell(r)'  BY <1>1, <1>3 DEF RoomWell
<1>7. \A s \in Students : BoarderWell(s)'  BY <1>3 DEF BoarderWell
<1> QED  BY <1>1, <1>2, <1>5, <1>6, <1>7 DEF BoardingInv, BoardingTypeOK

LEMMA CountBedsKeeps ==
  ASSUME BoardingInv, NEW c \in Callers, NEW r \in Rooms, NEW s \in Students, CountBeds(c, r, s)
  PROVE  BoardingInv'
<1>1. PICK g : g = [op |-> "count", on |-> {<<"room", r>>, <<"boarder", s>>}, room |-> r,
                    student |-> s]
  OBVIOUS
<1>2. /\ room[r] # NoRow /\ Cardinality(InRoom(r)) < room[r].capacity /\ Reads(c, g)
      /\ UNCHANGED boarding
  BY <1>1 DEF CountBeds
<1>3. /\ g.op = "count" /\ g.room = r /\ g.student = s
      /\ <<"room", r>> \in g.on /\ <<"boarder", s>> \in g.on
  BY <1>1
<1>4. room[r] \in RoomRow  BY <1>2 DEF BoardingInv, BoardingTypeOK
<1>5. room' = room /\ stay' = stay  BY <1>2 DEF boarding
<1>6. InRoom(r)' = InRoom(r)  BY <1>5 DEF InRoom, Current
<1>7. BoardingKnows(g)'  BY <1>2, <1>3, <1>4, <1>5, <1>6 DEF BoardingKnows
<1> QED  BY <1>2, <1>7, ReadsOnce, BoardingReads DEF BoardingInv, BoardingRequests

LEMMA HasNoBedKeeps ==
  ASSUME BoardingInv, NEW c \in Callers, HasNoBed(c)
  PROVE  BoardingInv'
<1>1. PICK g : g = request[c]  OBVIOUS
<1>2. PICK h : h = [g EXCEPT !.op = "assign"]  OBVIOUS
<1>3. /\ g.op = "count" /\ BedsOf(g.student) = {} /\ request' = [request EXCEPT ![c] = h]
      /\ UNCHANGED boarding /\ raced' = raced
  BY <1>1, <1>2 DEF HasNoBed
<1>4. BoardingKnows(g)  BY <1>1 DEF BoardingInv, BoardingRequests
<1>5. room' = room /\ stay' = stay  BY <1>3 DEF boarding
<1>6. \A x : InRoom(x)' = InRoom(x) /\ BedsOf(x)' = BedsOf(x)  BY <1>5 DEF InRoom, BedsOf, Current
<1>7. h.op = "assign" /\ h.on = g.on /\ h.room = g.room /\ h.student = g.student
  BY <1>2
<1>8. BoardingKnows(h)'  BY <1>3, <1>4, <1>5, <1>6, <1>7 DEF BoardingKnows
<1>9. /\ request' = [d \in Callers |-> request'[d]] /\ OneAtATime'
      /\ request'[c] = h /\ \A d \in Callers : d # c => request'[d] = request[d]
  BY <1>1, <1>3, <1>7, GoesOnOnce DEF BoardingInv, BoardingRequests
<1> QED  BY <1>3, <1>8, <1>9, BoardingReads

LEMMA CreateRoomKeeps ==
  ASSUME BoardingInv, NEW r \in Rooms, NEW n \in 1..MaxSize, CreateRoom(r, n)
  PROVE  BoardingInv'
<1> /\ BoardingTypeOK /\ BoardingRequests
    /\ (\A x \in Rooms : RoomWell(x)) /\ \A s \in Students : BoarderWell(s)
  BY DEF BoardingInv
<1>1. PICK row \in RoomRow : row = [capacity |-> n]  BY DEF RoomRow
<1>2. /\ room[r] = NoRow /\ room' = [room EXCEPT ![r] = row] /\ stay' = stay
      /\ request' = request /\ raced' = raced
  BY <1>1 DEF CreateRoom, callers
<1>3. MaxSize \in Nat /\ NoRow \notin RoomRow  BY DeskAssumption
<1>4. /\ room' \in [Rooms -> RoomRow \cup {NoRow}] /\ room'[r] = row
      /\ \A x \in Rooms : x # r => room'[x] = room[x]
  BY <1>2 DEF BoardingTypeOK
<1>5. Current' = Current  BY <1>2 DEF Current
<1>6. \A x : InRoom(x)' = InRoom(x) /\ BedsOf(x)' = BedsOf(x)  BY <1>2, <1>5 DEF InRoom, BedsOf
<1>7. \A x \in Rooms : room[x] \in RoomRow => room'[x] = room[x]  BY <1>2, <1>3, <1>4
<1>8. ASSUME NEW a \in Current PROVE room'[stay[a].room] \in RoomRow
  <2>1. stay[a].room \in Rooms  BY DEF BoardingTypeOK, Current, StayRow
  <2> QED  BY <2>1, <1>7 DEF BoardingTypeOK
<1>9. BoardingTypeOK'  BY <1>2, <1>4, <1>5, <1>8 DEF BoardingTypeOK
<1>10. InRoom(r) = {}  BY <1>2, <1>3 DEF InRoom, BoardingTypeOK
<1>11. RoomWell(r)'
  <2>1. row.capacity >= 0  BY <1>1, <1>3
  <2> QED  BY <1>4, <1>6, <1>10, <2>1, FS_EmptySet DEF RoomWell
<1>12. \A x \in Rooms : x # r => RoomWell(x)'  BY <1>2, <1>4, <1>6 DEF RoomWell
<1>13. \A s \in Students : BoarderWell(s)'  BY <1>2, <1>6 DEF BoarderWell
<1>14. ASSUME NEW d \in Callers PROVE BoardingKnows(request[d])'
  <2>1. PICK h : h = request[d]  OBVIOUS
  <2>2. BoardingKnows(h)  BY <2>1 DEF BoardingRequests
  <2>3. BoardingKnows(h)'  BY <1>2, <1>6, <1>7, <2>2, BoardingRemembers
  <2> QED  BY <2>1, <2>3, <1>2
<1>15. BoardingRequests'  BY <1>2, <1>14 DEF BoardingRequests, OneAtATime
<1> QED  BY <1>9, <1>11, <1>12, <1>13, <1>15 DEF BoardingInv

LEMMA AssignBedKeeps ==
  ASSUME BoardingInv, NEW c \in Callers, NEW a \in Stays, AssignBed(c, a)
  PROVE  BoardingInv'
<1> /\ BoardingTypeOK /\ BoardingRequests
    /\ (\A x \in Rooms : RoomWell(x)) /\ \A s \in Students : BoarderWell(s)
  BY DEF BoardingInv
<1>1. PICK g : g = request[c]  OBVIOUS
<1>2. g.op = "assign" /\ BoardingKnows(g)  BY <1>1 DEF AssignBed, BoardingRequests
<1>3. PICK r \in Rooms : r = g.room  BY <1>2 DEF BoardingKnows
<1>4. PICK s \in Students : s = g.student  BY <1>2 DEF BoardingKnows
<1>5. /\ room[r] \in RoomRow /\ <<"room", r>> \in g.on /\ <<"boarder", s>> \in g.on
      /\ <<"room", r>> \in raced \/ Cardinality(InRoom(r)) < room[r].capacity
      /\ <<"boarder", s>> \in raced \/ BedsOf(s) = {}
  BY <1>2, <1>3, <1>4 DEF BoardingKnows
<1>6. PICK row \in StayRow : row = [room |-> r, student |-> s, current |-> TRUE]  BY DEF StayRow
<1>7. /\ stay[a] = NoRow /\ stay' = [stay EXCEPT ![a] = row] /\ Ends(c) /\ room' = room
  BY <1>1, <1>3, <1>4, <1>6 DEF AssignBed
<1>8. row.room = r /\ row.student = s  BY <1>6
<1>9. /\ stay' \in [Stays -> StayRow \cup {NoRow}] /\ stay'[a] = row
      /\ \A x \in Stays : x # a => stay'[x] = stay[x]
  BY <1>7 DEF BoardingTypeOK
<1>10. Current' \subseteq Current \cup {a}  BY <1>9 DEF Current
<1>11. a \notin Current  BY <1>7 DEF Current
<1>12. BoardingTypeOK'
  <2>1. ASSUME NEW b \in Current' PROVE room'[stay'[b].room] \in RoomRow
    <3>1. CASE b = a  BY <3>1, <1>5, <1>7, <1>8, <1>9
    <3>2. CASE b \in Current /\ b # a  BY <3>2, <1>7, <1>9 DEF BoardingTypeOK, Current
    <3> QED  BY <3>1, <3>2, <1>10
  <2> QED  BY <2>1, <1>7, <1>9 DEF BoardingTypeOK
<1>13. /\ InRoom(r)' \subseteq InRoom(r) \cup {a} /\ BedsOf(s)' \subseteq BedsOf(s) \cup {a}
       /\ \A x : x # r => InRoom(x)' \subseteq InRoom(x)
       /\ \A x : x # s => BedsOf(x)' \subseteq BedsOf(x)
  BY <1>8, <1>9, <1>10 DEF InRoom, BedsOf, Current
<1>14. /\ request' = [d \in Callers |-> request'[d]] /\ OneAtATime' /\ raced' = raced
       /\ request'[c] = Idle /\ \A d \in Callers : d # c => request'[d] = request[d]
  BY <1>7, EndsOnce DEF BoardingRequests
<1>15. RoomWell(r)'
  <2>1. IsFiniteSet(InRoom(r))  BY DEF RoomWell
  <2>2. /\ IsFiniteSet(InRoom(r) \cup {a}) /\ Cardinality(InRoom(r)) \in Nat
        /\ Cardinality(InRoom(r) \cup {a}) = Cardinality(InRoom(r)) + 1
    <3>1. a \notin InRoom(r)  BY <1>11 DEF InRoom
    <3> QED  BY <2>1, <3>1, FS_AddElement, FS_CardinalityType
  <2>3. /\ IsFiniteSet(InRoom(r)') /\ Cardinality(InRoom(r)') \in Nat
        /\ Cardinality(InRoom(r)') <= Cardinality(InRoom(r) \cup {a})
    BY <2>2, <1>13, FS_Subset, FS_CardinalityType
  <2>4. room[r].capacity \in 1..MaxSize /\ MaxSize \in Nat
    BY <1>5, DeskAssumption DEF RoomRow
  <2> QED  BY <2>2, <2>3, <2>4, <1>5, <1>7, <1>14 DEF RoomWell
<1>16. ASSUME NEW x \in Rooms, x # r PROVE RoomWell(x)'
  <2>1. IsFiniteSet(InRoom(x)) /\ InRoom(x)' \subseteq InRoom(x)  BY <1>13, <1>16 DEF RoomWell
  <2>2. /\ IsFiniteSet(InRoom(x)') /\ Cardinality(InRoom(x)') \in Nat
        /\ Cardinality(InRoom(x)') <= Cardinality(InRoom(x)) /\ Cardinality(InRoom(x)) \in Nat
    BY <2>1, FS_Subset, FS_CardinalityType
  <2>3. room[x] # NoRow => room[x].capacity \in Int  BY DeskAssumption DEF BoardingTypeOK, RoomRow
  <2> QED  BY <2>2, <2>3, <1>7, <1>14 DEF RoomWell
<1>17. \A x \in Students : BoarderWell(x)'
  <2>1. BoarderWell(s)'  BY <1>5, <1>13, <1>14 DEF BoarderWell
  <2>2. \A x \in Students : x # s => BoarderWell(x)'  BY <1>13, <1>14 DEF BoarderWell
  <2> QED  BY <2>1, <2>2
<1>18. ASSUME NEW d \in Callers, d # c PROVE BoardingKnows(request[d])'
  <2>1. PICK h : h = request[d]  OBVIOUS
  <2>2. /\ BoardingKnows(h)
        /\ <<"room", r>> \in h.on => <<"room", r>> \in raced
        /\ <<"boarder", s>> \in h.on => <<"boarder", s>> \in raced
    BY <2>1, <1>1, <1>5, <1>18 DEF BoardingRequests, OneAtATime
  <2>3. BoardingKnows(h)'  BY <1>7, <1>13, <1>14, <2>2, BoardingRemembers
  <2> QED  BY <2>1, <2>3, <1>14, <1>18
<1>19. BoardingKnows(request[c])'  BY <1>14 DEF BoardingKnows, Idle
<1>20. BoardingRequests'  BY <1>14, <1>18, <1>19 DEF BoardingRequests
<1> QED  BY <1>12, <1>15, <1>16, <1>17, <1>20 DEF BoardingInv

LEMMA EndStayKeeps ==
  ASSUME BoardingInv, NEW a \in Stays, EndStay(a)
  PROVE  BoardingInv'
<1> /\ BoardingTypeOK /\ BoardingRequests
    /\ (\A x \in Rooms : RoomWell(x)) /\ \A s \in Students : BoarderWell(s)
  BY DEF BoardingInv
<1>1. /\ stay[a] # NoRow /\ stay' = [stay EXCEPT ![a].current = FALSE] /\ room' = room
      /\ request' = request /\ raced' = raced
  BY DEF EndStay, callers
<1>2. PICK old \in StayRow : old = stay[a]  BY <1>1 DEF BoardingTypeOK
<1>3. PICK new \in StayRow : new = [old EXCEPT !.current = FALSE]  BY DEF StayRow
<1>4. ~new.current  BY <1>3 DEF StayRow
<1>5. /\ stay' \in [Stays -> StayRow \cup {NoRow}] /\ stay'[a] = new
      /\ \A x \in Stays : x # a => stay'[x] = stay[x]
  BY <1>1, <1>2, <1>3 DEF BoardingTypeOK
<1>6. Current' \subseteq Current /\ a \notin Current'  BY <1>4, <1>5 DEF Current
<1>7. BoardingTypeOK'
  <2>1. \A b \in Current' : room'[stay'[b].room] \in RoomRow
    BY <1>1, <1>5, <1>6 DEF BoardingTypeOK, Current
  <2> QED  BY <2>1, <1>1, <1>5 DEF BoardingTypeOK
<1>8. \A x : InRoom(x)' \subseteq InRoom(x) /\ BedsOf(x)' \subseteq BedsOf(x)
  BY <1>5, <1>6 DEF InRoom, BedsOf, Current
<1>9. ASSUME NEW x \in Rooms PROVE RoomWell(x)'
  <2>1. IsFiniteSet(InRoom(x))  BY DEF RoomWell
  <2>2. /\ IsFiniteSet(InRoom(x)') /\ Cardinality(InRoom(x)') \in Nat
        /\ Cardinality(InRoom(x)') <= Cardinality(InRoom(x)) /\ Cardinality(InRoom(x)) \in Nat
    BY <2>1, <1>8, FS_Subset, FS_CardinalityType
  <2>3. room[x] # NoRow => room[x].capacity \in Int  BY DeskAssumption DEF BoardingTypeOK, RoomRow
  <2> QED  BY <2>2, <2>3, <1>1 DEF RoomWell
<1>10. \A s \in Students : BoarderWell(s)'  BY <1>1, <1>8 DEF BoarderWell
<1>11. ASSUME NEW d \in Callers PROVE BoardingKnows(request[d])'
  <2>1. PICK h : h = request[d]  OBVIOUS
  <2>2. BoardingKnows(h)  BY <2>1 DEF BoardingRequests
  <2>3. BoardingKnows(h)'  BY <1>1, <1>8, <2>2, BoardingRemembers
  <2> QED  BY <2>1, <2>3, <1>1
<1>12. BoardingRequests'  BY <1>1, <1>11 DEF BoardingRequests, OneAtATime
<1> QED  BY <1>7, <1>9, <1>10, <1>12 DEF BoardingInv

LEMMA BoardingGivingUpKeeps ==
  ASSUME BoardingInv, NEW c \in Callers, GivesUp(c), UNCHANGED boarding PROVE BoardingInv'
<1>1. /\ request' = [d \in Callers |-> request'[d]] /\ OneAtATime' /\ raced' = raced
      /\ request'[c] = Idle /\ \A d \in Callers : d # c => request'[d] = request[d]
  BY EndsOnce DEF GivesUp, BoardingInv, BoardingRequests
<1>2. PICK g : g = Idle  OBVIOUS
<1>3. BoardingKnows(g)'  BY <1>2 DEF BoardingKnows, Idle
<1> QED  BY <1>1, <1>2, <1>3, BoardingReads

LEMMA BoardingStep == ASSUME BoardingInv, BoardingNext PROVE BoardingInv'
BY CreateRoomKeeps, CountBedsKeeps, HasNoBedKeeps, AssignBedKeeps, EndStayKeeps
   DEF BoardingNext

LEMMA BoardingRests == ASSUME BoardingInv, UNCHANGED <<boarding, callers>> PROVE BoardingInv'
<1>1. room' = room /\ stay' = stay /\ request' = request /\ raced' = raced
  BY DEF boarding, callers
<1>2. Current' = Current  BY <1>1 DEF Current
<1>3. \A x : InRoom(x)' = InRoom(x) /\ BedsOf(x)' = BedsOf(x)  BY <1>1, <1>2 DEF InRoom, BedsOf
<1>4. BoardingRequests'
  BY <1>1, <1>3 DEF BoardingInv, BoardingRequests, BoardingKnows, OneAtATime
<1> QED
  BY <1>1, <1>2, <1>3, <1>4 DEF BoardingInv, BoardingTypeOK, RoomWell, BoarderWell

LEMMA BoardingKept == ASSUME BoardingInv PROVE BoardingAgrees /\ BoardingTypeOK
<1>1. ASSUME NEW s \in Students, <<"boarder", s>> \notin raced
      PROVE  Cardinality(BedsOf(s)) <= 1
  BY <1>1, AtMostOne DEF BoardingInv, BoarderWell
<1> QED  BY <1>1 DEF BoardingInv, BoardingAgrees, RoomWell

-----------------------------------------------------------------------------
\* Conferences.

\* What a parent who books knows: the slot is there.  Whether it is free is asked of the key.
BookingKnows(g) ==
    \/ g = Idle
    \/ g.op = "book" /\ g.slot \in Slots /\ slot[g.slot] \in SlotRow
SlotWell(s) ==
    /\ \A x, y \in booking[s] : x = y
    /\ (slot[s] # NoRow /\ slot[s].booked) <=> booking[s] # {}
ConferencesTypeOK ==
    slot \in [Slots -> SlotRow \cup {NoRow}] /\ booking \in [Slots -> SUBSET Callers]
ConferenceRequests ==
    /\ request = [c \in Callers |-> request[c]] /\ OneAtATime
    /\ \A c \in Callers : BookingKnows(request[c])
ConferencesInv == ConferencesTypeOK /\ ConferenceRequests /\ \A s \in Slots : SlotWell(s)

ConferencesEmpty == slot = [s \in Slots |-> NoRow] /\ booking = [s \in Slots |-> {}]

LEMMA ConferencesRestAgree ==
  ASSUME ConferencesEmpty PROVE ConferencesAgree /\ ConferencesTypeOK
<1>1. Cardinality({}) = 0  BY FS_EmptySet
<1>2. \A s \in Slots : slot[s] = NoRow /\ booking[s] = {}  BY DEF ConferencesEmpty
<1>3. \A s \in Slots : Cardinality(booking[s]) <= 1  BY <1>1, <1>2
<1> QED  BY <1>2, <1>3 DEF ConferencesEmpty, ConferencesAgree, ConferencesTypeOK

LEMMA ConferencesStart == ASSUME HandlersInit, ConferencesEmpty PROVE ConferencesInv
<1> USE DEF ConferencesEmpty, HandlersInit
<1>1. \A s \in Slots : SlotWell(s)  BY DEF SlotWell
<1>2. \A c \in Callers : request[c] = Idle /\ BookingKnows(request[c])  BY DEF BookingKnows
<1>3. ConferenceRequests  BY <1>2 DEF ConferenceRequests, OneAtATime, Idle
<1> QED  BY <1>1, <1>3 DEF ConferencesInv, ConferencesTypeOK

LEMMA CreateSlotKeeps ==
  ASSUME ConferencesInv, NEW s \in Slots, CreateSlot(s) PROVE ConferencesInv'
<1>1. PICK row \in SlotRow : row = [booked |-> FALSE]  BY DEF SlotRow
<1>2. /\ slot[s] = NoRow /\ slot' = [slot EXCEPT ![s] = row] /\ booking' = booking
      /\ request' = request /\ raced' = raced
  BY <1>1 DEF CreateSlot, callers
<1>3. ~row.booked  BY <1>1
<1>4. /\ slot' \in [Slots -> SlotRow \cup {NoRow}] /\ slot'[s] = row
      /\ \A x \in Slots : x # s => slot'[x] = slot[x]
  BY <1>2 DEF ConferencesInv, ConferencesTypeOK
<1>5. \A x \in Slots : SlotWell(x)'  BY <1>2, <1>3, <1>4 DEF ConferencesInv, SlotWell
<1>6. \A c \in Callers : BookingKnows(request[c])'
  BY <1>2, <1>4 DEF ConferencesInv, ConferenceRequests, BookingKnows
<1> QED
  BY <1>2, <1>4, <1>5, <1>6
     DEF ConferencesInv, ConferencesTypeOK, ConferenceRequests, OneAtATime

LEMMA ReadSlotKeeps ==
  ASSUME ConferencesInv, NEW c \in Callers, NEW s \in Slots, ReadSlot(c, s) PROVE ConferencesInv'
<1>1. PICK g : g = [op |-> "book", on |-> {<<"slot", s>>}, slot |-> s]  OBVIOUS
<1>2. slot[s] # NoRow /\ Reads(c, g) /\ slot' = slot /\ booking' = booking
  BY <1>1 DEF ReadSlot, conferences
<1>3. g.op = "book" /\ g.slot = s  BY <1>1
<1>4. BookingKnows(g)'
  BY <1>2, <1>3 DEF BookingKnows, ConferencesInv, ConferencesTypeOK
<1>5. /\ request' = [d \in Callers |-> request'[d]] /\ OneAtATime'
      /\ request'[c] = g /\ \A d \in Callers : d # c => request'[d] = request[d]
  BY <1>2, ReadsOnce DEF ConferencesInv, ConferenceRequests
<1>6. \A d \in Callers : BookingKnows(request[d])'
  BY <1>2, <1>4, <1>5 DEF ConferencesInv, ConferenceRequests, BookingKnows
<1>7. \A x \in Slots : SlotWell(x)'  BY <1>2 DEF ConferencesInv, SlotWell
<1> QED
  BY <1>2, <1>5, <1>6, <1>7 DEF ConferencesInv, ConferencesTypeOK, ConferenceRequests

LEMMA BookSlotKeeps ==
  ASSUME ConferencesInv, NEW c \in Callers, BookSlot(c) PROVE ConferencesInv'
<1>1. PICK g : g = request[c]  OBVIOUS
<1>2. g.op = "book" /\ BookingKnows(g)
  BY <1>1 DEF BookSlot, ConferencesInv, ConferenceRequests
<1>3. PICK s \in Slots : s = g.slot /\ slot[s] \in SlotRow  BY <1>2 DEF BookingKnows, Idle
<1>4. /\ booking[s] = {} /\ booking' = [booking EXCEPT ![s] = @ \cup {c}]
      /\ slot' = [slot EXCEPT ![s].booked = TRUE] /\ Ends(c)
  BY <1>1, <1>2, <1>3 DEF BookSlot, SlotTaken
<1>5. PICK old \in SlotRow : old = slot[s]  BY <1>3
<1>6. PICK new \in SlotRow : new = [old EXCEPT !.booked = TRUE]  BY DEF SlotRow
<1>7. new.booked  BY <1>6 DEF SlotRow
<1>8. /\ slot' \in [Slots -> SlotRow \cup {NoRow}] /\ slot'[s] = new
      /\ \A x \in Slots : x # s => slot'[x] = slot[x]
  BY <1>4, <1>5, <1>6 DEF ConferencesInv, ConferencesTypeOK
<1>9. /\ booking' \in [Slots -> SUBSET Callers] /\ booking'[s] = {c}
      /\ \A x \in Slots : x # s => booking'[x] = booking[x]
  BY <1>4 DEF ConferencesInv, ConferencesTypeOK
<1>10. NoRow \notin SlotRow  BY DeskAssumption
<1>11. SlotWell(s)'  BY <1>7, <1>8, <1>9, <1>10 DEF SlotWell
<1>12. \A x \in Slots : x # s => SlotWell(x)'  BY <1>8, <1>9 DEF ConferencesInv, SlotWell
<1>13. /\ request' = [d \in Callers |-> request'[d]] /\ OneAtATime'
       /\ request'[c] = Idle /\ \A d \in Callers : d # c => request'[d] = request[d]
  BY <1>4, EndsOnce DEF ConferencesInv, ConferenceRequests
<1>14. \A d \in Callers : BookingKnows(request[d])'
  BY <1>8, <1>13 DEF ConferencesInv, ConferenceRequests, BookingKnows
<1> QED
  BY <1>8, <1>9, <1>11, <1>12, <1>13, <1>14
     DEF ConferencesInv, ConferencesTypeOK, ConferenceRequests

LEMMA ConferenceGivingUpKeeps ==
  ASSUME ConferencesInv, NEW c \in Callers, GivesUp(c), UNCHANGED conferences
  PROVE  ConferencesInv'
<1>1. slot' = slot /\ booking' = booking  BY DEF conferences
<1>2. /\ request' = [d \in Callers |-> request'[d]] /\ OneAtATime'
      /\ request'[c] = Idle /\ \A d \in Callers : d # c => request'[d] = request[d]
  BY EndsOnce DEF GivesUp, ConferencesInv, ConferenceRequests
<1>3. \A d \in Callers : BookingKnows(request[d])'
  BY <1>1, <1>2 DEF ConferencesInv, ConferenceRequests, BookingKnows
<1>4. \A x \in Slots : SlotWell(x)'  BY <1>1 DEF ConferencesInv, SlotWell
<1> QED
  BY <1>1, <1>2, <1>3, <1>4 DEF ConferencesInv, ConferencesTypeOK, ConferenceRequests

LEMMA ConferencesStep == ASSUME ConferencesInv, ConferenceNext PROVE ConferencesInv'
BY CreateSlotKeeps, ReadSlotKeeps, BookSlotKeeps DEF ConferenceNext

LEMMA ConferencesRest ==
  ASSUME ConferencesInv, UNCHANGED <<conferences, callers>> PROVE ConferencesInv'
<1>1. slot' = slot /\ booking' = booking /\ request' = request /\ raced' = raced
  BY DEF conferences, callers
<1>2. ConferenceRequests'
  BY <1>1 DEF ConferencesInv, ConferenceRequests, OneAtATime, BookingKnows
<1> QED  BY <1>1, <1>2 DEF ConferencesInv, ConferencesTypeOK, SlotWell

LEMMA ConferencesKept == ASSUME ConferencesInv PROVE ConferencesAgree /\ ConferencesTypeOK
<1>1. \A s \in Slots : Cardinality(booking[s]) <= 1  BY AtMostOne DEF ConferencesInv, SlotWell
<1> QED  BY <1>1 DEF ConferencesInv, ConferencesAgree, SlotWell

-----------------------------------------------------------------------------
\* Meal credit.

Credit == 0..MaxCredit \cup {NoRow}
\* What a top-up knows: the balance it read is no more than was paid in since, and it is the
\* balance now, or the account is in raced.
TopUpKnows(g) ==
    \/ g = Idle
    \/ /\ g.op = "topup" /\ g.student \in Students /\ <<"credit", g.student>> \in g.on
       /\ g.amount \in 1..MaxCredit /\ g.seen \in Credit
       /\ g.seen # NoRow => /\ account[g.student] # NoRow /\ g.seen <= paidIn[g.student]
       /\ <<"credit", g.student>> \in raced \/ g.seen = account[g.student]
AccountWell(s) ==
    /\ account[s] = NoRow <=> paidIn[s] = 0
    /\ account[s] # NoRow => /\ account[s] <= paidIn[s]
                             /\ <<"credit", s>> \in raced \/ account[s] = paidIn[s]
MealsTypeOK == account \in [Students -> Credit] /\ paidIn \in [Students -> 0..MaxCredit]
MealRequests ==
    /\ request = [c \in Callers |-> request[c]] /\ OneAtATime
    /\ \A c \in Callers : TopUpKnows(request[c])
MealsInv == MealsTypeOK /\ MealRequests /\ \A s \in Students : AccountWell(s)

MealsEmpty == account = [s \in Students |-> NoRow] /\ paidIn = [s \in Students |-> 0]

LEMMA MealsRestAgree == ASSUME MealsEmpty PROVE CreditAgrees /\ MealsTypeOK
<1>1. MaxCredit \in Nat  BY DeskAssumption
<1> QED  BY <1>1 DEF MealsEmpty, CreditAgrees, MealsTypeOK, Credit

LEMMA MealsStart == ASSUME HandlersInit, MealsEmpty PROVE MealsInv
<1> USE DEF MealsEmpty, HandlersInit
<1>1. MaxCredit \in Nat /\ NoRow \notin 0..MaxCredit  BY DeskAssumption
<1>2. \A s \in Students : AccountWell(s)  BY DEF AccountWell
<1>3. MealsTypeOK  BY <1>1 DEF MealsTypeOK, Credit
<1>4. \A c \in Callers : request[c] = Idle /\ TopUpKnows(request[c])  BY DEF TopUpKnows
<1>5. MealRequests  BY <1>4 DEF MealRequests, OneAtATime, Idle
<1> QED  BY <1>2, <1>3, <1>5 DEF MealsInv

LEMMA ReadAccountKeeps ==
  ASSUME MealsInv, NEW c \in Callers, NEW s \in Students, NEW n \in 1..MaxCredit,
         ReadAccount(c, s, n)
  PROVE  MealsInv'
<1>1. PICK seen \in Credit : seen = account[s]  BY DEF MealsInv, MealsTypeOK
<1>2. PICK g : g = [op |-> "topup", on |-> {<<"credit", s>>}, student |-> s, seen |-> seen,
                    amount |-> n]
  OBVIOUS
<1>3. Reads(c, g) /\ account' = account /\ paidIn' = paidIn
  BY <1>1, <1>2 DEF ReadAccount, meals
<1>4. /\ g.op = "topup" /\ g.student = s /\ <<"credit", s>> \in g.on /\ g.seen = seen
      /\ g.amount = n
  BY <1>2
<1>5. TopUpKnows(g)'
  BY <1>1, <1>3, <1>4 DEF TopUpKnows, MealsInv, AccountWell
<1>6. /\ request' = [d \in Callers |-> request'[d]] /\ OneAtATime' /\ raced \subseteq raced'
      /\ request'[c] = g /\ \A d \in Callers : d # c => request'[d] = request[d]
  BY <1>3, ReadsOnce DEF MealsInv, MealRequests
<1>7. \A d \in Callers : TopUpKnows(request[d])'
  BY <1>3, <1>5, <1>6 DEF MealsInv, MealRequests, TopUpKnows
<1>8. \A x \in Students : AccountWell(x)'  BY <1>3, <1>6 DEF MealsInv, AccountWell
<1> QED  BY <1>3, <1>6, <1>7, <1>8 DEF MealsInv, MealsTypeOK, MealRequests

LEMMA TopUpKeeps == ASSUME MealsInv, NEW c \in Callers, TopUp(c) PROVE MealsInv'
<1>1. PICK g : g = request[c]  OBVIOUS
<1>2. g.op = "topup" /\ TopUpKnows(g)  BY <1>1 DEF TopUp, MealsInv, MealRequests
<1>3. PICK s \in Students : s = g.student  BY <1>2 DEF TopUpKnows, Idle
<1>4. PICK seen \in Credit : seen = g.seen  BY <1>2 DEF TopUpKnows, Idle
<1>5. PICK n \in 1..MaxCredit : n = g.amount  BY <1>2 DEF TopUpKnows, Idle
<1>6. /\ <<"credit", s>> \in g.on
      /\ seen # NoRow => account[s] # NoRow /\ seen <= paidIn[s]
  BY <1>2, <1>3, <1>4 DEF TopUpKnows, Idle
<1>7. <<"credit", s>> \in raced \/ seen = account[s]
  BY <1>2, <1>3, <1>4 DEF TopUpKnows, Idle
<1>8. PICK sum : sum = IF seen = NoRow THEN n ELSE seen + n  OBVIOUS
<1>9. /\ seen = NoRow => account[s] = NoRow
      /\ paidIn[s] + n <= MaxCredit /\ account' = [account EXCEPT ![s] = sum]
      /\ paidIn' = [paidIn EXCEPT ![s] = @ + n] /\ Ends(c)
  BY <1>1, <1>3, <1>4, <1>5, <1>8 DEF TopUp
<1>10. MaxCredit \in Nat /\ NoRow \notin 0..MaxCredit  BY DeskAssumption
<1>11. paidIn[s] \in 0..MaxCredit /\ AccountWell(s)  BY DEF MealsInv, MealsTypeOK
<1>12. /\ sum \in 1..paidIn[s] + n /\ sum \in 0..MaxCredit
       /\ <<"credit", s>> \in raced \/ sum = paidIn[s] + n
  <2>1. CASE seen = NoRow
    <3>1. paidIn[s] = 0 /\ sum = n  BY <2>1, <1>8, <1>9, <1>11 DEF AccountWell
    <3> QED  BY <3>1, <1>9, <1>10
  <2>2. CASE seen # NoRow
    <3>1. seen \in 0..MaxCredit /\ seen <= paidIn[s] /\ sum = seen + n
      BY <2>2, <1>6, <1>8 DEF Credit
    <3>2. <<"credit", s>> \in raced \/ seen = paidIn[s]
      BY <2>2, <1>6, <1>7, <1>11 DEF AccountWell
    <3> QED  BY <3>1, <3>2, <1>9, <1>10, <1>11
  <2> QED  BY <2>1, <2>2
<1>13. /\ account' \in [Students -> Credit] /\ account'[s] = sum
       /\ \A x \in Students : x # s => account'[x] = account[x]
  BY <1>9, <1>12 DEF MealsInv, MealsTypeOK, Credit
<1>14. /\ paidIn' \in [Students -> 0..MaxCredit] /\ paidIn'[s] = paidIn[s] + n
       /\ \A x \in Students : x # s => paidIn'[x] = paidIn[x]
  BY <1>9, <1>10, <1>11 DEF MealsInv, MealsTypeOK
<1>15. /\ request' = [d \in Callers |-> request'[d]] /\ OneAtATime' /\ raced' = raced
       /\ request'[c] = Idle /\ \A d \in Callers : d # c => request'[d] = request[d]
  BY <1>9, EndsOnce DEF MealsInv, MealRequests
<1>16. sum # NoRow /\ paidIn[s] + n # 0 /\ sum <= paidIn[s] + n  BY <1>10, <1>11, <1>12
<1>17. AccountWell(s)'  BY <1>12, <1>13, <1>14, <1>15, <1>16 DEF AccountWell
<1>18. \A x \in Students : x # s => AccountWell(x)'
  BY <1>13, <1>14, <1>15 DEF MealsInv, AccountWell
<1>19. ASSUME NEW d \in Callers, d # c PROVE TopUpKnows(request[d])'
  <2>1. PICK h : h = request[d]  OBVIOUS
  <2>2. TopUpKnows(h)  BY <2>1 DEF MealsInv, MealRequests
  <2>3. <<"credit", s>> \in h.on => <<"credit", s>> \in raced
    BY <2>1, <1>1, <1>6, <1>19 DEF MealsInv, MealRequests, OneAtATime
  <2> SUFFICES TopUpKnows(h)'  BY <2>1, <1>15, <1>19
  <2>4. CASE h = Idle  BY <2>4 DEF TopUpKnows, Idle
  <2>5. CASE h # Idle
    <3>1. PICK t \in Students : t = h.student  BY <2>2, <2>5 DEF TopUpKnows
    <3>2. PICK read \in Credit : read = h.seen  BY <2>2, <2>5 DEF TopUpKnows
    <3>3. /\ read # NoRow => account[t] # NoRow /\ read <= paidIn[t]
          /\ <<"credit", t>> \in h.on
          /\ <<"credit", t>> \in raced \/ read = account[t]
      BY <2>2, <2>5, <3>1, <3>2 DEF TopUpKnows
    <3>4. read # NoRow => account'[t] # NoRow  BY <3>3, <1>13, <1>16
    <3>5. read # NoRow => read <= paidIn'[t]
      <4>1. CASE t = s
        <5>1. paidIn'[t] = paidIn[t] + n  BY <4>1, <1>14
        <5> QED  BY <4>1, <5>1, <3>3, <1>10, <1>11 DEF Credit
      <4> QED  BY <4>1, <3>3, <1>14
    <3>6. <<"credit", t>> \in raced' \/ read = account'[t]  BY <2>3, <3>3, <1>13, <1>15
    <3>7. h.op = "topup" /\ h.amount \in 1..MaxCredit  BY <2>2, <2>5 DEF TopUpKnows
    <3> QED  BY <3>1, <3>2, <3>3, <3>4, <3>5, <3>6, <3>7 DEF TopUpKnows
  <2> QED  BY <2>4, <2>5
<1>20. TopUpKnows(request[c])'  BY <1>15 DEF TopUpKnows
<1> QED
  BY <1>13, <1>14, <1>15, <1>17, <1>18, <1>19, <1>20 DEF MealsInv, MealsTypeOK, MealRequests

LEMMA MealsGivingUpKeeps ==
  ASSUME MealsInv, NEW c \in Callers, GivesUp(c), UNCHANGED meals PROVE MealsInv'
<1>1. account' = account /\ paidIn' = paidIn  BY DEF meals
<1>2. /\ request' = [d \in Callers |-> request'[d]] /\ OneAtATime' /\ raced' = raced
      /\ request'[c] = Idle /\ \A d \in Callers : d # c => request'[d] = request[d]
  BY EndsOnce DEF GivesUp, MealsInv, MealRequests
<1>3. \A d \in Callers : TopUpKnows(request[d])'
  BY <1>1, <1>2 DEF MealsInv, MealRequests, TopUpKnows
<1>4. \A x \in Students : AccountWell(x)'  BY <1>1, <1>2 DEF MealsInv, AccountWell
<1> QED  BY <1>1, <1>2, <1>3, <1>4 DEF MealsInv, MealsTypeOK, MealRequests

LEMMA MealsStep == ASSUME MealsInv, MealsNext PROVE MealsInv'
BY ReadAccountKeeps, TopUpKeeps DEF MealsNext

LEMMA MealsRest == ASSUME MealsInv, UNCHANGED <<meals, callers>> PROVE MealsInv'
<1>1. account' = account /\ paidIn' = paidIn /\ request' = request /\ raced' = raced
  BY DEF meals, callers
<1>2. MealRequests'  BY <1>1 DEF MealsInv, MealRequests, OneAtATime, TopUpKnows
<1> QED  BY <1>1, <1>2 DEF MealsInv, MealsTypeOK, AccountWell

LEMMA MealsKept == ASSUME MealsInv PROVE CreditAgrees /\ MealsTypeOK
BY DEF MealsInv, CreditAgrees, AccountWell

-----------------------------------------------------------------------------
\* What a parent who signs knows: a response that was read is there, and it is the one there
\* now, or the slip is in raced.
SigningKnows(g) ==
    \/ g = Idle
    \/ /\ g.op = "sign" /\ g.slip \in Slips /\ <<"slip", g.slip>> \in g.on
       /\ g.response \in Signature /\ g.seen \in Signature \cup {NoRow}
       /\ g.seen # NoRow => slip[g.slip] \in Signature
       /\ <<"slip", g.slip>> \in raced \/ g.seen = slip[g.slip]
SlipsTypeOK ==
    slip \in [Slips -> Signature \cup {NoRow}] /\ signed \in [Slips -> Signature \cup {NoRow}]
SlipRequests ==
    /\ request = [c \in Callers |-> request[c]] /\ OneAtATime
    /\ \A c \in Callers : SigningKnows(request[c])
SlipsInv == SlipsTypeOK /\ SlipRequests /\ SlipsAgree

SlipsEmpty == slip = [p \in Slips |-> NoRow] /\ signed = [p \in Slips |-> NoRow]

LEMMA SlipsRestAgree == ASSUME SlipsEmpty PROVE SlipsAgree /\ SlipsTypeOK
BY DEF SlipsEmpty, SlipsAgree, SlipsTypeOK

LEMMA SlipsStart == ASSUME HandlersInit, SlipsEmpty PROVE SlipsInv
<1> USE DEF SlipsEmpty, HandlersInit
<1>1. \A c \in Callers : request[c] = Idle /\ SigningKnows(request[c])  BY DEF SigningKnows
<1>2. SlipRequests  BY <1>1 DEF SlipRequests, OneAtATime, Idle
<1> QED  BY <1>2 DEF SlipsInv, SlipsTypeOK, SlipsAgree

LEMMA ReadSlipKeeps ==
  ASSUME SlipsInv, NEW c \in Callers, NEW p \in Slips, NEW d \in {"approved", "declined"},
         ReadSlip(c, p, d)
  PROVE  SlipsInv'
<1>1. PICK seen \in Signature \cup {NoRow} : seen = slip[p]  BY DEF SlipsInv, SlipsTypeOK
<1>2. PICK new \in Signature : new = [decision |-> d, by |-> c]  BY DEF Signature
<1>3. PICK g : g = [op |-> "sign", on |-> {<<"slip", p>>}, slip |-> p, seen |-> seen,
                    response |-> new]
  OBVIOUS
<1>4. Reads(c, g) /\ slip' = slip /\ signed' = signed
  BY <1>1, <1>2, <1>3 DEF ReadSlip, slips
<1>5. /\ g.op = "sign" /\ g.slip = p /\ <<"slip", p>> \in g.on /\ g.seen = seen
      /\ g.response = new
  BY <1>3
<1>6. SigningKnows(g)'  BY <1>1, <1>4, <1>5 DEF SigningKnows
<1>7. /\ request' = [x \in Callers |-> request'[x]] /\ OneAtATime' /\ raced \subseteq raced'
      /\ request'[c] = g /\ \A x \in Callers : x # c => request'[x] = request[x]
  BY <1>4, ReadsOnce DEF SlipsInv, SlipRequests
<1>8. \A x \in Callers : SigningKnows(request[x])'
  BY <1>4, <1>6, <1>7 DEF SlipsInv, SlipRequests, SigningKnows
<1> QED  BY <1>4, <1>7, <1>8 DEF SlipsInv, SlipsTypeOK, SlipRequests, SlipsAgree

LEMMA SignSlipKeeps == ASSUME SlipsInv, NEW c \in Callers, SignSlip(c) PROVE SlipsInv'
<1>1. PICK g : g = request[c]  OBVIOUS
<1>2. g.op = "sign" /\ SigningKnows(g)  BY <1>1 DEF SignSlip, SlipsInv, SlipRequests
<1>3. PICK p \in Slips : p = g.slip  BY <1>2 DEF SigningKnows, Idle
<1>4. PICK seen \in Signature \cup {NoRow} : seen = g.seen  BY <1>2 DEF SigningKnows, Idle
<1>5. PICK new \in Signature : new = g.response  BY <1>2 DEF SigningKnows, Idle
<1>6. /\ <<"slip", p>> \in g.on
      /\ seen # NoRow => slip[p] \in Signature
      /\ <<"slip", p>> \in raced \/ seen = slip[p]
  BY <1>2, <1>3, <1>4 DEF SigningKnows, Idle
<1>7. PICK now : now = slip[p]  OBVIOUS
<1>8. PICK row : row = IF seen = NoRow THEN new
                       ELSE [decision |-> Written(now.decision, seen.decision, new.decision),
                             by |-> Written(now.by, seen.by, new.by)]
  OBVIOUS
<1>9. /\ slip' = [slip EXCEPT ![p] = row] /\ signed' = [signed EXCEPT ![p] = new] /\ Ends(c)
  BY <1>1, <1>3, <1>4, <1>5, <1>7, <1>8 DEF SignSlip
<1>10. row \in Signature
  <2>1. CASE seen = NoRow  BY <2>1, <1>8
  <2>2. CASE seen # NoRow
    <3>1. now \in Signature  BY <2>2, <1>6, <1>7
    <3> QED  BY <2>2, <3>1, <1>8 DEF Signature, Written
  <2> QED  BY <2>1, <2>2
<1>11. <<"slip", p>> \in raced \/ row = new
  <2> SUFFICES ASSUME seen = now PROVE row = new
    BY <1>6, <1>7
  <2>1. CASE seen = NoRow  BY <2>1, <1>8
  <2>2. CASE seen # NoRow
    <3>1. row = [decision |-> new.decision, by |-> new.by]  BY <2>2, <1>8 DEF Written
    <3>2. new = [decision |-> new.decision, by |-> new.by]  BY DEF Signature
    <3> QED  BY <3>1, <3>2
  <2> QED  BY <2>1, <2>2
<1>12. /\ slip' \in [Slips -> Signature \cup {NoRow}] /\ slip'[p] = row
       /\ signed' \in [Slips -> Signature \cup {NoRow}] /\ signed'[p] = new
       /\ \A x \in Slips : x # p => slip'[x] = slip[x] /\ signed'[x] = signed[x]
  BY <1>9, <1>10 DEF SlipsInv, SlipsTypeOK
<1>13. /\ request' = [d \in Callers |-> request'[d]] /\ OneAtATime' /\ raced' = raced
       /\ request'[c] = Idle /\ \A d \in Callers : d # c => request'[d] = request[d]
  BY <1>9, EndsOnce DEF SlipsInv, SlipRequests
<1>14. SlipsAgree'  BY <1>11, <1>12, <1>13 DEF SlipsInv, SlipsAgree
<1>15. ASSUME NEW d \in Callers, d # c PROVE SigningKnows(request[d])'
  <2>1. PICK h : h = request[d]  OBVIOUS
  <2>2. SigningKnows(h)  BY <2>1 DEF SlipsInv, SlipRequests
  <2>3. <<"slip", p>> \in h.on => <<"slip", p>> \in raced
    BY <2>1, <1>1, <1>6, <1>15 DEF SlipsInv, SlipRequests, OneAtATime
  <2>4. SigningKnows(h)'  BY <2>2, <2>3, <1>10, <1>12, <1>13 DEF SigningKnows
  <2> QED  BY <2>1, <2>4, <1>13, <1>15
<1>16. SigningKnows(request[c])'  BY <1>13 DEF SigningKnows
<1> QED  BY <1>12, <1>13, <1>14, <1>15, <1>16 DEF SlipsInv, SlipsTypeOK, SlipRequests

LEMMA SlipsGivingUpKeeps ==
  ASSUME SlipsInv, NEW c \in Callers, GivesUp(c), UNCHANGED slips PROVE SlipsInv'
<1>1. slip' = slip /\ signed' = signed  BY DEF slips
<1>2. /\ request' = [d \in Callers |-> request'[d]] /\ OneAtATime' /\ raced' = raced
      /\ request'[c] = Idle /\ \A d \in Callers : d # c => request'[d] = request[d]
  BY EndsOnce DEF GivesUp, SlipsInv, SlipRequests
<1>3. \A d \in Callers : SigningKnows(request[d])'
  BY <1>1, <1>2 DEF SlipsInv, SlipRequests, SigningKnows
<1> QED  BY <1>1, <1>2, <1>3 DEF SlipsInv, SlipsTypeOK, SlipRequests, SlipsAgree

LEMMA SlipsStep == ASSUME SlipsInv, SlipsNext PROVE SlipsInv'
BY ReadSlipKeeps, SignSlipKeeps DEF SlipsNext

LEMMA SlipsRest == ASSUME SlipsInv, UNCHANGED <<slips, callers>> PROVE SlipsInv'
<1>1. slip' = slip /\ signed' = signed /\ request' = request /\ raced' = raced
  BY DEF slips, callers
<1>2. SlipRequests'  BY <1>1 DEF SlipsInv, SlipRequests, OneAtATime, SigningKnows
<1> QED  BY <1>1, <1>2 DEF SlipsInv, SlipsTypeOK, SlipsAgree

-----------------------------------------------------------------------------
\* Assets.

Targets == Callers \cup {Nobody}
\* What a movement knows: the row it read is there, and it is the row now, or the asset is in
\* raced.
MoveKnows(g) ==
    \/ g = Idle
    \/ /\ g.op = "move" /\ g.asset \in Assets /\ <<"asset", g.asset>> \in g.on
       /\ g.action \in AssetActions /\ g.target \in Targets /\ g.seen \in AssetRow
       /\ asset[g.asset] \in AssetRow
       /\ <<"asset", g.asset>> \in raced \/ g.seen = asset[g.asset]
\* What the movement log says of a row.
Follows(row, action, target) ==
    /\ action = "assigned" => row.holder = target
    /\ action = "returned" => row.holder = Nobody
    /\ row.status = IF action \in {"returned", "found"} THEN "in_stock" ELSE action
AssetWell(a) ==
    movement[a] # NoRow =>
        /\ asset[a] # NoRow
        /\ <<"asset", a>> \in raced \/ Follows(asset[a], movement[a].action, movement[a].target)
AssetsTypeOK ==
    asset \in [Assets -> AssetRow \cup {NoRow}] /\ movement \in [Assets -> MovementRow \cup {NoRow}]
AssetRequests ==
    /\ request = [c \in Callers |-> request[c]] /\ OneAtATime
    /\ \A c \in Callers : MoveKnows(request[c])
AssetsInv == AssetsTypeOK /\ AssetRequests /\ \A a \in Assets : AssetWell(a)

\* The row a movement means to leave is one its log entry describes.
LEMMA MovedFollows ==
  ASSUME NEW row \in AssetRow, NEW action \in AssetActions, NEW target \in Targets
  PROVE  /\ Moved(row, action, target) \in AssetRow
         /\ Follows(Moved(row, action, target), action, target)
<1>1. CASE action = "assigned"  BY <1>1 DEF Moved, AssetRow, Follows, Targets
<1>2. CASE action = "returned"  BY <1>2 DEF Moved, AssetRow, Follows, Targets
<1>3. CASE action = "found"
  <2>1. Moved(row, action, target) = [row EXCEPT !.status = "in_stock"]  BY <1>3 DEF Moved
  <2> QED  BY <1>3, <2>1 DEF AssetRow, Follows
<1>4. CASE action \in {"maintenance", "disposed", "lost"}
  <2>1. Moved(row, action, target) = [row EXCEPT !.status = action]  BY <1>4 DEF Moved
  <2> QED  BY <1>4, <2>1 DEF AssetRow, Follows
<1> QED  BY <1>1, <1>2, <1>3, <1>4 DEF AssetActions

AssetsEmpty == asset = [a \in Assets |-> NoRow] /\ movement = [a \in Assets |-> NoRow]

LEMMA AssetsRestAgree == ASSUME AssetsEmpty PROVE AssetsAgree /\ AssetsTypeOK
BY DEF AssetsEmpty, AssetsAgree, AssetsTypeOK

LEMMA AssetsStart == ASSUME HandlersInit, AssetsEmpty PROVE AssetsInv
<1> USE DEF AssetsEmpty, HandlersInit
<1>1. \A c \in Callers : request[c] = Idle /\ MoveKnows(request[c])  BY DEF MoveKnows
<1>2. AssetRequests  BY <1>1 DEF AssetRequests, OneAtATime, Idle
<1> QED  BY <1>2 DEF AssetsInv, AssetsTypeOK, AssetWell

LEMMA CreateAssetKeeps == ASSUME AssetsInv, NEW a \in Assets, CreateAsset(a) PROVE AssetsInv'
<1>1. PICK row \in AssetRow : row = [status |-> "in_stock", holder |-> Nobody]  BY DEF AssetRow
<1>2. /\ asset[a] = NoRow /\ asset' = [asset EXCEPT ![a] = row] /\ movement' = movement
      /\ request' = request /\ raced' = raced
  BY <1>1 DEF CreateAsset, callers
<1>3. /\ asset' \in [Assets -> AssetRow \cup {NoRow}] /\ asset'[a] = row
      /\ \A x \in Assets : x # a => asset'[x] = asset[x]
  BY <1>2 DEF AssetsInv, AssetsTypeOK
<1>4. NoRow \notin AssetRow  BY DeskAssumption
<1>5. ASSUME NEW x \in Assets PROVE AssetWell(x)'
  <2>1. CASE x = a  BY <2>1, <1>2 DEF AssetsInv, AssetWell
  <2>2. CASE x # a
    <3>1. asset'[x] = asset[x] /\ AssetWell(x)  BY <2>2, <1>3 DEF AssetsInv
    <3> QED  BY <3>1, <1>2 DEF AssetWell, Follows
  <2> QED  BY <2>1, <2>2
<1>6. \A c \in Callers : MoveKnows(request[c])'
  BY <1>2, <1>3, <1>4 DEF AssetsInv, AssetRequests, MoveKnows
<1> QED
  BY <1>2, <1>3, <1>5, <1>6 DEF AssetsInv, AssetsTypeOK, AssetRequests, OneAtATime

\* Reading, and breaking off, change no row.
LEMMA AssetsRead ==
  ASSUME AssetsInv, NEW c \in Callers, NEW g, asset' = asset, movement' = movement,
         raced \subseteq raced', request' = [d \in Callers |-> request'[d]], OneAtATime',
         MoveKnows(g)', request'[c] = g, \A d \in Callers : d # c => request'[d] = request[d]
  PROVE  AssetsInv'
<1>1. \A d \in Callers : MoveKnows(request[d])'  BY DEF AssetsInv, AssetRequests, MoveKnows
<1>2. \A a \in Assets : AssetWell(a)'  BY DEF AssetsInv, AssetWell, Follows
<1> QED  BY <1>1, <1>2 DEF AssetsInv, AssetsTypeOK, AssetRequests

LEMMA ReadAssetKeeps ==
  ASSUME AssetsInv, NEW c \in Callers, NEW a \in Assets, NEW action \in AssetActions,
         NEW target \in Targets, ReadAsset(c, a, action, target)
  PROVE  AssetsInv'
<1>1. asset[a] # NoRow  BY DEF ReadAsset
<1>2. PICK seen \in AssetRow : seen = asset[a]  BY <1>1 DEF AssetsInv, AssetsTypeOK
<1>3. PICK g : g = [op |-> "move", on |-> {<<"asset", a>>}, asset |-> a, seen |-> seen,
                    action |-> action, target |-> target]
  OBVIOUS
<1>4. Reads(c, g) /\ asset' = asset /\ movement' = movement
  BY <1>2, <1>3 DEF ReadAsset, inventory
<1>5. /\ g.op = "move" /\ g.asset = a /\ <<"asset", a>> \in g.on /\ g.seen = seen
      /\ g.action = action /\ g.target = target
  BY <1>3
<1>6. MoveKnows(g)'  BY <1>2, <1>4, <1>5 DEF MoveKnows
<1>7. /\ request' = [d \in Callers |-> request'[d]] /\ OneAtATime' /\ raced \subseteq raced'
      /\ request'[c] = g /\ \A d \in Callers : d # c => request'[d] = request[d]
  BY <1>4, ReadsOnce DEF AssetsInv, AssetRequests
<1> QED  BY <1>4, <1>6, <1>7, AssetsRead

LEMMA MoveAssetKeeps == ASSUME AssetsInv, NEW c \in Callers, MoveAsset(c) PROVE AssetsInv'
<1>1. PICK g : g = request[c]  OBVIOUS
<1>2. g.op = "move" /\ MoveKnows(g)  BY <1>1 DEF MoveAsset, AssetsInv, AssetRequests
<1>3. PICK a \in Assets : a = g.asset  BY <1>2 DEF MoveKnows, Idle
<1>4. PICK seen \in AssetRow : seen = g.seen  BY <1>2 DEF MoveKnows, Idle
<1>5. PICK action \in AssetActions : action = g.action  BY <1>2 DEF MoveKnows, Idle
<1>6. PICK target \in Targets : target = g.target  BY <1>2 DEF MoveKnows, Idle
<1>7. PICK now \in AssetRow : now = asset[a]  BY <1>2, <1>3 DEF MoveKnows, Idle
<1>8. /\ <<"asset", a>> \in g.on
      /\ <<"asset", a>> \in raced \/ seen = now
  BY <1>2, <1>3, <1>4, <1>7 DEF MoveKnows, Idle
<1>9. PICK new : new = Moved(seen, action, target)  OBVIOUS
<1>10. new \in AssetRow /\ Follows(new, action, target)  BY <1>9, MovedFollows
<1>11. PICK row : row = [status |-> Written(now.status, seen.status, new.status),
                         holder |-> Written(now.holder, seen.holder, new.holder)]
  OBVIOUS
<1>12. PICK note \in MovementRow : note = [action |-> action, target |-> target]
  BY DEF MovementRow, Targets
<1>13. /\ asset' = [asset EXCEPT ![a] = row] /\ movement' = [movement EXCEPT ![a] = note]
       /\ Ends(c)
  BY <1>1, <1>3, <1>4, <1>5, <1>6, <1>7, <1>9, <1>11, <1>12 DEF MoveAsset
<1>14. row \in AssetRow  BY <1>10, <1>11 DEF AssetRow, Written
<1>15. <<"asset", a>> \in raced \/ row = new
  <2> SUFFICES ASSUME seen = now PROVE row = new
    BY <1>8
  <2>1. row = [status |-> new.status, holder |-> new.holder]  BY <1>11 DEF Written
  <2>2. new = [status |-> new.status, holder |-> new.holder]  BY <1>10 DEF AssetRow
  <2> QED  BY <2>1, <2>2
<1>16. note.action = action /\ note.target = target  BY <1>12
<1>17. /\ asset' \in [Assets -> AssetRow \cup {NoRow}] /\ asset'[a] = row
       /\ movement' \in [Assets -> MovementRow \cup {NoRow}] /\ movement'[a] = note
       /\ \A x \in Assets : x # a => asset'[x] = asset[x] /\ movement'[x] = movement[x]
  BY <1>13, <1>14 DEF AssetsInv, AssetsTypeOK
<1>18. /\ request' = [d \in Callers |-> request'[d]] /\ OneAtATime' /\ raced' = raced
       /\ request'[c] = Idle /\ \A d \in Callers : d # c => request'[d] = request[d]
  BY <1>13, EndsOnce DEF AssetsInv, AssetRequests
<1>19. ASSUME NEW x \in Assets PROVE AssetWell(x)'
  <2>1. CASE x = a
    <3>1. NoRow \notin AssetRow  BY DeskAssumption
    <3>2. <<"asset", a>> \in raced' \/ Follows(row, action, target)  BY <1>10, <1>15, <1>18
    <3> QED  BY <2>1, <3>1, <3>2, <1>14, <1>16, <1>17 DEF AssetWell, Follows
  <2>2. CASE x # a
    <3>1. asset'[x] = asset[x] /\ movement'[x] = movement[x] /\ AssetWell(x)
      BY <2>2, <1>17 DEF AssetsInv
    <3> QED  BY <3>1, <1>18 DEF AssetWell, Follows
  <2> QED  BY <2>1, <2>2
<1>20. ASSUME NEW d \in Callers, d # c PROVE MoveKnows(request[d])'
  <2>1. PICK h : h = request[d]  OBVIOUS
  <2>2. MoveKnows(h)  BY <2>1 DEF AssetsInv, AssetRequests
  <2>3. <<"asset", a>> \in h.on => <<"asset", a>> \in raced
    BY <2>1, <1>1, <1>8, <1>20 DEF AssetsInv, AssetRequests, OneAtATime
  <2>4. MoveKnows(h)'  BY <2>2, <2>3, <1>14, <1>17, <1>18 DEF MoveKnows
  <2> QED  BY <2>1, <2>4, <1>18, <1>20
<1>21. MoveKnows(request[c])'  BY <1>18 DEF MoveKnows
<1> QED  BY <1>17, <1>18, <1>19, <1>20, <1>21 DEF AssetsInv, AssetsTypeOK, AssetRequests

LEMMA AssetsGivingUpKeeps ==
  ASSUME AssetsInv, NEW c \in Callers, GivesUp(c), UNCHANGED inventory PROVE AssetsInv'
<1>1. /\ request' = [d \in Callers |-> request'[d]] /\ OneAtATime' /\ raced' = raced
      /\ request'[c] = Idle /\ \A d \in Callers : d # c => request'[d] = request[d]
  BY EndsOnce DEF GivesUp, AssetsInv, AssetRequests
<1>2. PICK g : g = Idle  OBVIOUS
<1>3. MoveKnows(g)'  BY <1>2 DEF MoveKnows, Idle
<1> QED  BY <1>1, <1>2, <1>3, AssetsRead DEF inventory

LEMMA AssetsStep == ASSUME AssetsInv, AssetsNext PROVE AssetsInv'
BY CreateAssetKeeps, ReadAssetKeeps, MoveAssetKeeps DEF AssetsNext, Targets

LEMMA AssetsRest == ASSUME AssetsInv, UNCHANGED <<inventory, callers>> PROVE AssetsInv'
<1>1. asset' = asset /\ movement' = movement /\ request' = request /\ raced' = raced
  BY DEF inventory, callers
<1>2. AssetRequests'  BY <1>1 DEF AssetsInv, AssetRequests, OneAtATime, MoveKnows
<1> QED  BY <1>1, <1>2 DEF AssetsInv, AssetsTypeOK, AssetWell, Follows

LEMMA AssetsKept == ASSUME AssetsInv PROVE AssetsAgree /\ AssetsTypeOK
BY DEF AssetsInv, AssetsAgree, AssetWell, Follows

-----------------------------------------------------------------------------
\* What a decision knows: the request was open, nobody having decided it, or it is in raced.
DecidingKnows(g) ==
    \/ g = Idle
    \/ /\ g.op = "decide" /\ g.leave \in Leaves /\ <<"leave", g.leave>> \in g.on
       /\ g.status \in {"approved", "rejected"}
       /\ <<"leave", g.leave>> \in raced \/ decisions[g.leave] = {}
Open == [status |-> "open", by |-> Nobody]
LeaveWell(v) ==
    /\ leave[v] \in {NoRow, Open} => decisions[v] = {}
    /\ leave[v] \notin {NoRow, Open} => leave[v] \in decisions[v]
    /\ <<"leave", v>> \in raced \/ \A x, y \in decisions[v] : x = y
LeaveTypeOK ==
    /\ leave \in [Leaves -> Decision \cup {Open, NoRow}]
    /\ decisions \in [Leaves -> SUBSET Decision]
LeaveRequests ==
    /\ request = [c \in Callers |-> request[c]] /\ OneAtATime
    /\ \A c \in Callers : DecidingKnows(request[c])
LeaveInv == LeaveTypeOK /\ LeaveRequests /\ \A v \in Leaves : LeaveWell(v)

\* A request that was decided is open no more.
LEMMA DecidedIsNotOpen == NoRow \notin Decision /\ Open \notin Decision
BY DeskAssumption DEF Open, Decision

LeaveEmpty == leave = [v \in Leaves |-> NoRow] /\ decisions = [v \in Leaves |-> {}]

LEMMA LeaveRestAgrees == ASSUME LeaveEmpty PROVE LeaveAgrees /\ LeaveTypeOK
BY DEF LeaveEmpty, LeaveAgrees, LeaveTypeOK

LEMMA LeaveStarts == ASSUME HandlersInit, LeaveEmpty PROVE LeaveInv
<1> USE DEF LeaveEmpty, HandlersInit
<1>1. \A c \in Callers : request[c] = Idle /\ DecidingKnows(request[c])  BY DEF DecidingKnows
<1>2. LeaveRequests  BY <1>1 DEF LeaveRequests, OneAtATime, Idle
<1> QED  BY <1>2 DEF LeaveInv, LeaveTypeOK, LeaveWell

LEMMA RequestLeaveKeeps == ASSUME LeaveInv, NEW v \in Leaves, RequestLeave(v) PROVE LeaveInv'
<1>1. /\ leave[v] = NoRow /\ leave' = [leave EXCEPT ![v] = Open] /\ decisions' = decisions
      /\ request' = request /\ raced' = raced
  BY DEF RequestLeave, callers, Open
<1>2. /\ leave' \in [Leaves -> Decision \cup {Open, NoRow}] /\ leave'[v] = Open
      /\ \A x \in Leaves : x # v => leave'[x] = leave[x]
  BY <1>1 DEF LeaveInv, LeaveTypeOK
<1>3. ASSUME NEW x \in Leaves PROVE LeaveWell(x)'
  <2>1. CASE x = v  BY <2>1, <1>1, <1>2 DEF LeaveInv, LeaveWell, Open
  <2>2. CASE x # v  BY <2>2, <1>1, <1>2 DEF LeaveInv, LeaveWell, Open
  <2> QED  BY <2>1, <2>2
<1>4. LeaveRequests'
  BY <1>1 DEF LeaveInv, LeaveRequests, DecidingKnows, OneAtATime
<1>5. LeaveTypeOK'  BY <1>1, <1>2 DEF LeaveInv, LeaveTypeOK, Open
<1> QED  BY <1>3, <1>4, <1>5 DEF LeaveInv

\* Reading, and breaking off, change no row.
LEMMA LeaveReads ==
  ASSUME LeaveInv, NEW c \in Callers, NEW g, leave' = leave, decisions' = decisions,
         raced \subseteq raced', request' = [d \in Callers |-> request'[d]], OneAtATime',
         DecidingKnows(g)', request'[c] = g,
         \A d \in Callers : d # c => request'[d] = request[d]
  PROVE  LeaveInv'
<1>1. \A d \in Callers : DecidingKnows(request[d])'
  BY DEF LeaveInv, LeaveRequests, DecidingKnows
<1>2. \A v \in Leaves : LeaveWell(v)'  BY DEF LeaveInv, LeaveWell, Open
<1> QED  BY <1>1, <1>2 DEF LeaveInv, LeaveTypeOK, LeaveRequests, Open

LEMMA ReadLeaveKeeps ==
  ASSUME LeaveInv, NEW c \in Callers, NEW v \in Leaves, NEW s \in {"approved", "rejected"},
         ReadLeave(c, v, s)
  PROVE  LeaveInv'
<1>1. PICK g : g = [op |-> "decide", on |-> {<<"leave", v>>}, leave |-> v, status |-> s]
  OBVIOUS
<1>2. /\ leave[v] # NoRow /\ leave[v].status = "open" /\ Reads(c, g)
      /\ leave' = leave /\ decisions' = decisions
  BY <1>1 DEF ReadLeave, staff
<1>3. g.op = "decide" /\ g.leave = v /\ <<"leave", v>> \in g.on /\ g.status = s  BY <1>1
<1>4. leave[v] \notin Decision  BY <1>2 DEF Decision
<1>5. decisions[v] = {}  BY <1>2, <1>4 DEF LeaveInv, LeaveTypeOK, LeaveWell
<1>6. DecidingKnows(g)'  BY <1>2, <1>3, <1>5 DEF DecidingKnows
<1>7. /\ request' = [d \in Callers |-> request'[d]] /\ OneAtATime' /\ raced \subseteq raced'
      /\ request'[c] = g /\ \A d \in Callers : d # c => request'[d] = request[d]
  BY <1>2, ReadsOnce DEF LeaveInv, LeaveRequests
<1> QED  BY <1>2, <1>6, <1>7, LeaveReads

LEMMA DecideLeaveKeeps == ASSUME LeaveInv, NEW c \in Callers, DecideLeave(c) PROVE LeaveInv'
<1>1. PICK g : g = request[c]  OBVIOUS
<1>2. g.op = "decide" /\ DecidingKnows(g)  BY <1>1 DEF DecideLeave, LeaveInv, LeaveRequests
<1>3. PICK v \in Leaves : v = g.leave  BY <1>2 DEF DecidingKnows, Idle
<1>4. PICK new \in Decision : new = [status |-> g.status, by |-> c]
  <2>1. PICK s \in {"approved", "rejected"} : s = g.status  BY <1>2 DEF DecidingKnows, Idle
  <2> QED  BY <2>1 DEF Decision
<1>5. /\ <<"leave", v>> \in g.on
      /\ <<"leave", v>> \in raced \/ decisions[v] = {}
  BY <1>2, <1>3 DEF DecidingKnows, Idle
<1>6. /\ leave' = [leave EXCEPT ![v] = new]
      /\ decisions' = [decisions EXCEPT ![v] = @ \cup {new}] /\ Ends(c)
  BY <1>1, <1>3, <1>4 DEF DecideLeave
<1>7. /\ leave' \in [Leaves -> Decision \cup {Open, NoRow}] /\ leave'[v] = new
      /\ decisions' \in [Leaves -> SUBSET Decision] /\ decisions'[v] = decisions[v] \cup {new}
      /\ \A x \in Leaves : x # v => leave'[x] = leave[x] /\ decisions'[x] = decisions[x]
  BY <1>6 DEF LeaveInv, LeaveTypeOK
<1>8. /\ request' = [d \in Callers |-> request'[d]] /\ OneAtATime' /\ raced' = raced
      /\ request'[c] = Idle /\ \A d \in Callers : d # c => request'[d] = request[d]
  BY <1>6, EndsOnce DEF LeaveInv, LeaveRequests
<1>9. ASSUME NEW x \in Leaves PROVE LeaveWell(x)'
  <2>1. CASE x = v
    <3>1. new \notin {NoRow, Open}  BY DecidedIsNotOpen
    <3>2. <<"leave", v>> \in raced' \/ \A p, q \in decisions'[v] : p = q  BY <1>5, <1>7, <1>8
    <3> QED  BY <2>1, <3>1, <3>2, <1>7 DEF LeaveWell, Open
  <2>2. CASE x # v
    <3>1. leave'[x] = leave[x] /\ decisions'[x] = decisions[x] /\ LeaveWell(x)
      BY <2>2, <1>7 DEF LeaveInv
    <3> QED  BY <3>1, <1>8 DEF LeaveWell, Open
  <2> QED  BY <2>1, <2>2
<1>10. ASSUME NEW d \in Callers, d # c PROVE DecidingKnows(request[d])'
  <2>1. PICK h : h = request[d]  OBVIOUS
  <2>2. DecidingKnows(h)  BY <2>1 DEF LeaveInv, LeaveRequests
  <2>3. <<"leave", v>> \in h.on => <<"leave", v>> \in raced
    BY <2>1, <1>1, <1>5, <1>10 DEF LeaveInv, LeaveRequests, OneAtATime
  <2>4. DecidingKnows(h)'  BY <2>2, <2>3, <1>7, <1>8 DEF DecidingKnows
  <2> QED  BY <2>1, <2>4, <1>8, <1>10
<1>11. DecidingKnows(request[c])'  BY <1>8 DEF DecidingKnows
<1>12. LeaveTypeOK'  BY <1>7 DEF LeaveTypeOK, Open
<1> QED  BY <1>8, <1>9, <1>10, <1>11, <1>12 DEF LeaveInv, LeaveRequests

LEMMA LeaveGivingUpKeeps ==
  ASSUME LeaveInv, NEW c \in Callers, GivesUp(c), UNCHANGED staff PROVE LeaveInv'
<1>1. /\ request' = [d \in Callers |-> request'[d]] /\ OneAtATime' /\ raced' = raced
      /\ request'[c] = Idle /\ \A d \in Callers : d # c => request'[d] = request[d]
  BY EndsOnce DEF GivesUp, LeaveInv, LeaveRequests
<1>2. PICK g : g = Idle  OBVIOUS
<1>3. DecidingKnows(g)'  BY <1>2 DEF DecidingKnows, Idle
<1> QED  BY <1>1, <1>2, <1>3, LeaveReads DEF staff

LEMMA LeaveStep == ASSUME LeaveInv, LeaveNext PROVE LeaveInv'
BY RequestLeaveKeeps, ReadLeaveKeeps, DecideLeaveKeeps DEF LeaveNext

LEMMA LeaveRests == ASSUME LeaveInv, UNCHANGED <<staff, callers>> PROVE LeaveInv'
<1>1. leave' = leave /\ decisions' = decisions /\ request' = request /\ raced' = raced
  BY DEF staff, callers
<1>2. LeaveRequests'  BY <1>1 DEF LeaveInv, LeaveRequests, OneAtATime, DecidingKnows
<1> QED  BY <1>1, <1>2 DEF LeaveInv, LeaveTypeOK, LeaveWell, Open

LEMMA LeaveKept == ASSUME LeaveInv PROVE LeaveAgrees /\ LeaveTypeOK
<1>1. ASSUME NEW v \in Leaves, <<"leave", v>> \notin raced
      PROVE  Cardinality(decisions[v]) <= 1
  BY <1>1, AtMostOne DEF LeaveInv, LeaveWell
<1>2. ASSUME NEW v \in Leaves, leave[v] # NoRow
      PROVE  IF decisions[v] = {} THEN leave[v].status = "open" ELSE leave[v] \in decisions[v]
  <2>1. CASE leave[v] = Open
    <3>1. decisions[v] = {}  BY <2>1 DEF LeaveInv, LeaveWell
    <3>2. leave[v].status = "open"  BY <2>1 DEF Open
    <3> QED  BY <3>1, <3>2
  <2>2. CASE leave[v] # Open  BY <2>2, <1>2 DEF LeaveInv, LeaveWell
  <2> QED  BY <2>1, <2>2
<1> QED  BY <1>1, <1>2 DEF LeaveInv, LeaveAgrees

-----------------------------------------------------------------------------
\* The calendar: years and terms.

School == <<"calendar", "school">>
\* The row that is stored, where one was read that is still there.
LEMMA SavedYear ==
  ASSUME NEW new \in Span, NEW seen \in Span \cup {NoRow}, NEW now,
         seen # NoRow => now \in Span
  PROVE  Saved(now, seen, new) \in Span /\ (seen = now => Saved(now, seen, new) = new)
<1>1. CASE seen = NoRow  BY <1>1 DEF Saved
<1>2. CASE seen # NoRow
  <2>1. DOMAIN new = {"from", "to", "active"}  BY DEF Span
  <2>2. Saved(now, seen, new)
           = [k \in {"from", "to", "active"} |-> Written(now[k], seen[k], new[k])]
    BY <1>2, <2>1 DEF Saved
  <2>3. Saved(now, seen, new) \in Span  BY <1>2, <2>2 DEF Span, Written
  <2>4. seen = now => Saved(now, seen, new) = new  BY <1>2, <2>1, <2>2 DEF Span, Written
  <2> QED  BY <2>3, <2>4
<1> QED  BY <1>1, <1>2

LEMMA SavedTerm ==
  ASSUME NEW new \in TermRow, NEW seen \in TermRow \cup {NoRow}, NEW now,
         seen # NoRow => now \in TermRow /\ now.of = new.of /\ seen.of = new.of
  PROVE  /\ Saved(now, seen, new) \in TermRow /\ Saved(now, seen, new).of = new.of
         /\ seen = now => Saved(now, seen, new) = new
<1>1. CASE seen = NoRow  BY <1>1 DEF Saved
<1>2. CASE seen # NoRow
  <2>1. DOMAIN new = {"of", "from", "to", "active"}  BY DEF TermRow
  <2>2. Saved(now, seen, new)
           = [k \in {"of", "from", "to", "active"} |-> Written(now[k], seen[k], new[k])]
    BY <1>2, <2>1 DEF Saved
  <2>3. Saved(now, seen, new) \in TermRow  BY <1>2, <2>2 DEF TermRow, Written
  <2>4. seen = now => Saved(now, seen, new) = new  BY <1>2, <2>1, <2>2 DEF TermRow, Written
  <2>5. Saved(now, seen, new).of = new.of  BY <1>2, <2>2 DEF Written
  <2> QED  BY <2>3, <2>4, <2>5
<1> QED  BY <1>1, <1>2

\* A scope stays in order when a row that fits is written and the others at most cease to be
\* active.
LEMMA SavedInOrder ==
  ASSUME NEW rows, NEW rows2, NEW scope, NEW id, NEW new,
         InOrder(rows, scope), rows2[id] = new, new.from < new.to,
         \A z \in scope \ {id} : /\ rows2[z].from = rows[z].from /\ rows2[z].to = rows[z].to
                                 /\ rows2[z].active => rows[z].active
                                 /\ ~Overlap(rows[z], new)
                                 /\ ~(new.active /\ rows2[z].active)
  PROVE  InOrder(rows2, scope \cup {id})
<1>1. \A x \in scope \cup {id} : rows2[x].from < rows2[x].to  BY DEF InOrder
<1>2. ASSUME NEW x \in scope \cup {id}, NEW z \in scope \cup {id}, x # z
      PROVE  ~Overlap(rows2[x], rows2[z]) /\ ~(rows2[x].active /\ rows2[z].active)
  <2>1. CASE x = id  BY <1>2, <2>1 DEF Overlap
  <2>2. CASE z = id  BY <1>2, <2>2 DEF Overlap
  <2>3. CASE x # id /\ z # id
    <3>1. x \in scope /\ z \in scope  BY <2>3
    <3>2. ~Overlap(rows[x], rows[z]) /\ ~(rows[x].active /\ rows[z].active)
      BY <1>2, <3>1 DEF InOrder
    <3> QED  BY <2>3, <3>1, <3>2 DEF Overlap
  <2> QED  BY <2>1, <2>2, <2>3
<1> QED  BY <1>1, <1>2 DEF InOrder

\* A row that is to be active has the flag sent with it, or had it.
MayBeActive(g) == g.new.active => g.activates \/ (g.seen # NoRow /\ g.seen.active)
\* What a request about a year, or a term, knows: the row it read is still there, and unless
\* the calendar is in raced it is the row now and what was compared still holds.
YearReady(g) == g.seen = year[g.id] /\ YearFits(g.id, g.new) /\ MayBeActive(g)
YearKnows(g) ==
    /\ g.id \in Years /\ g.new \in Span /\ g.seen \in Span \cup {NoRow}
    /\ g.seen # NoRow => year[g.id] \in Span
    /\ School \in raced \/ YearReady(g)
TermReady(g) == g.seen = term[g.id] /\ TermFits(g.id, g.new) /\ MayBeActive(g)
TermKnows(g) ==
    /\ g.id \in Terms /\ g.new \in TermRow /\ g.seen \in TermRow \cup {NoRow}
    /\ year[g.new.of] \in Span
    /\ g.seen # NoRow => /\ g.seen.of = g.new.of
                         /\ term[g.id] \in TermRow /\ term[g.id].of = g.new.of
    /\ School \in raced \/ TermReady(g)
CalendarKnows(g) ==
    \/ g = Idle
    \/ /\ School \in g.on /\ g.op \in {"year", "term"}
       /\ g.op = "year" => YearKnows(g)
       /\ g.op = "term" => TermKnows(g)
CalendarTypeOK ==
    /\ year \in [Years -> Span \cup {NoRow}] /\ term \in [Terms -> TermRow \cup {NoRow}]
    /\ moved \subseteq Years
    /\ \A t \in Terms : term[t] # NoRow => year[term[t].of] \in Span
CalendarRequests ==
    /\ request = [c \in Callers |-> request[c]] /\ OneAtATime
    /\ \A c \in Callers : CalendarKnows(request[c])
CalendarInv == CalendarTypeOK /\ CalendarRequests /\ CalendarAgrees

LEMMA CalendarRestAgrees == ASSUME CalendarInit PROVE CalendarAgrees /\ CalendarTypeOK
<1>1. Created(year) = {}  BY DEF CalendarInit, Created
<1> QED  BY <1>1 DEF CalendarInit, CalendarAgrees, CalendarTypeOK, InOrder

LEMMA CalendarStarts == ASSUME HandlersInit, CalendarInit PROVE CalendarInv
<1> USE DEF CalendarInit, HandlersInit
<1>1. \A c \in Callers : request[c] = Idle /\ CalendarKnows(request[c])  BY DEF CalendarKnows
<1>2. CalendarRequests  BY <1>1 DEF CalendarRequests, OneAtATime, Idle
<1>3. Created(year) = {}  BY DEF Created
<1>4. CalendarAgrees  BY <1>3 DEF CalendarAgrees, InOrder
<1>5. CalendarTypeOK  BY DEF CalendarTypeOK
<1> QED  BY <1>2, <1>4, <1>5 DEF CalendarInv

\* The others keep what they know: they are about the calendar too, so there is a race.
LEMMA OthersAreInTheRace ==
  ASSUME CalendarInv, NEW c \in Callers, request[c] # Idle, raced' = raced,
         \A d \in Callers : d # c => request'[d] = request[d],
         \A y \in Years : year[y] \in Span => year'[y] \in Span,
         \A t \in Terms : term[t] \in TermRow => term'[t] \in TermRow /\ term'[t].of = term[t].of
  PROVE  \A d \in Callers : d # c => CalendarKnows(request[d])'
<1> SUFFICES ASSUME NEW d \in Callers, d # c PROVE CalendarKnows(request[d])'
  OBVIOUS
<1>1. PICK h : h = request[d]  OBVIOUS
<1> SUFFICES CalendarKnows(h)'  BY <1>1
<1>2. CASE h = Idle  BY <1>2 DEF CalendarKnows, Idle
<1>3. CASE h # Idle
  <2>1. CalendarKnows(h) /\ CalendarKnows(request[c])
    BY <1>1 DEF CalendarInv, CalendarRequests
  <2>2. School \in h.on /\ School \in request[c].on  BY <2>1, <1>3 DEF CalendarKnows
  <2>3. School \in raced  BY <2>2, <1>1 DEF CalendarInv, CalendarRequests, OneAtATime
  <2>4. YearKnows(h) => YearKnows(h)'  BY <2>3 DEF YearKnows, School
  <2>5. ASSUME TermKnows(h) PROVE TermKnows(h)'
    <3>1. PICK y \in Years : y = h.new.of  BY <2>5 DEF TermKnows, TermRow
    <3> QED  BY <3>1, <2>3, <2>5 DEF TermKnows
  <2> QED  BY <2>1, <2>2, <2>4, <2>5, <1>3 DEF CalendarKnows
<1> QED  BY <1>2, <1>3

\* Reading, and breaking off, change no row.
LEMMA CalendarReads ==
  ASSUME CalendarInv, NEW c \in Callers, NEW g, UNCHANGED calendar, raced \subseteq raced',
         request' = [d \in Callers |-> request'[d]], OneAtATime',
         CalendarKnows(g), request'[c] = g,
         \A d \in Callers : d # c => request'[d] = request[d]
  PROVE  CalendarInv'
<1>1. year' = year /\ term' = term /\ moved' = moved  BY DEF calendar
<1>2. /\ Created(year)' = Created(year) /\ Created(term)' = Created(term)
      /\ \A y : TermsOf(y)' = TermsOf(y)
  BY <1>1 DEF Created, TermsOf
<1>3. ASSUME NEW h, CalendarKnows(h) PROVE CalendarKnows(h)'
  <2>1. YearFits(h.id, h.new)' <=> YearFits(h.id, h.new)  BY <1>1, <1>2 DEF YearFits
  <2>2. TermFits(h.id, h.new)' <=> TermFits(h.id, h.new)  BY <1>1, <1>2 DEF TermFits
  <2>3. YearKnows(h) => YearKnows(h)'  BY <1>1, <2>1 DEF YearKnows, YearReady, MayBeActive, School
  <2>4. TermKnows(h) => TermKnows(h)'  BY <1>1, <2>2 DEF TermKnows, TermReady, MayBeActive, School
  <2>5. h = Idle => (h = Idle)'  BY DEF Idle
  <2> QED  BY <1>3, <2>3, <2>4, <2>5 DEF CalendarKnows, School
<1>4. ASSUME NEW d \in Callers PROVE CalendarKnows(request[d])'
  <2>1. PICK h : h = request'[d]  OBVIOUS
  <2>2. CalendarKnows(h)  BY <2>1 DEF CalendarInv, CalendarRequests
  <2> QED  BY <2>1, <2>2, <1>3
<1>5. CalendarRequests'  BY <1>4 DEF CalendarRequests
<1>6. CalendarTypeOK'  BY <1>1 DEF CalendarInv, CalendarTypeOK
<1>7. CalendarAgrees'  BY <1>1, <1>2 DEF CalendarInv, CalendarAgrees, InOrder
<1> QED  BY <1>5, <1>6, <1>7 DEF CalendarInv

LEMMA ReadsCalendarKeeps ==
  ASSUME CalendarInv, NEW c \in Callers, NEW op \in {"year", "term"}, NEW id, NEW seen, NEW new,
         NEW activates \in BOOLEAN, ReadsCalendar(c, op, id, seen, new, activates),
         op = "year" => /\ id \in Years /\ new \in Span /\ seen \in Span \cup {NoRow}
                        /\ seen = year[id] /\ YearFits(id, new),
         op = "term" => /\ id \in Terms /\ new \in TermRow /\ seen \in TermRow \cup {NoRow}
                        /\ seen = term[id] /\ TermFits(id, new) /\ year[new.of] \in Span
                        /\ seen # NoRow => seen.of = new.of
  PROVE  CalendarInv'
<1>1. PICK g : g = [op |-> op, on |-> {School}, id |-> id, seen |-> seen, new |-> new,
                    activates |-> activates]
  OBVIOUS
<1>2. /\ new.active => activates \/ (seen # NoRow /\ seen.active)
      /\ Reads(c, g) /\ UNCHANGED calendar
  BY <1>1 DEF ReadsCalendar, School
<1>3. /\ g.op = op /\ School \in g.on /\ g.id = id /\ g.seen = seen /\ g.new = new
      /\ g.activates = activates
  BY <1>1
<1>4. MayBeActive(g)  BY <1>2, <1>3 DEF MayBeActive
<1>5. op = "year" => YearKnows(g)  BY <1>3, <1>4 DEF YearKnows, YearReady
<1>6. op = "term" => TermKnows(g)  BY <1>3, <1>4 DEF TermKnows, TermReady
<1>7. CalendarKnows(g)  BY <1>3, <1>5, <1>6 DEF CalendarKnows
<1>8. /\ request' = [d \in Callers |-> request'[d]] /\ OneAtATime' /\ raced \subseteq raced'
      /\ request'[c] = g /\ \A d \in Callers : d # c => request'[d] = request[d]
  BY <1>2, ReadsOnce DEF CalendarInv, CalendarRequests
<1> QED  BY <1>2, <1>7, <1>8, CalendarReads

LEMMA ReadForYearKeeps ==
  ASSUME CalendarInv, NEW c \in Callers, NEW y \in Years, NEW new \in Span, NEW on \in BOOLEAN,
         ReadForYear(c, y, new, on) \/ ReadForYearUpdate(c, y, new, on)
  PROVE  CalendarInv'
<1>1. PICK seen : seen = year[y]  OBVIOUS
<1>2. seen \in Span \cup {NoRow}  BY <1>1 DEF CalendarInv, CalendarTypeOK
<1>3. YearFits(y, new) /\ ReadsCalendar(c, "year", y, seen, new, on)
  BY <1>1 DEF ReadForYear, ReadForYearUpdate
<1> QED  BY <1>1, <1>2, <1>3, ReadsCalendarKeeps

LEMMA ReadForTermKeeps ==
  ASSUME CalendarInv, NEW c \in Callers, NEW t \in Terms, NEW new \in TermRow, NEW on \in BOOLEAN,
         ReadForTerm(c, t, new, on) \/ ReadForTermUpdate(c, t, new, on)
  PROVE  CalendarInv'
<1>1. PICK seen : seen = term[t]  OBVIOUS
<1>2. seen \in TermRow \cup {NoRow}  BY <1>1 DEF CalendarInv, CalendarTypeOK
<1>3. TermFits(t, new) /\ ReadsCalendar(c, "term", t, seen, new, on)
  BY <1>1 DEF ReadForTerm, ReadForTermUpdate
<1>4. seen # NoRow => seen.of = new.of  BY <1>1 DEF ReadForTerm, ReadForTermUpdate
<1>5. year[new.of] \in Span
  <2>1. new.of \in Years  BY DEF TermRow
  <2> QED  BY <2>1, <1>1, <1>4 DEF ReadForTerm, ReadForTermUpdate, CalendarInv, CalendarTypeOK
<1> QED  BY <1>1, <1>2, <1>3, <1>4, <1>5, ReadsCalendarKeeps

\* Who writes ends, and the others are in a race or ask nothing.
LEMMA SavingEnds ==
  ASSUME CalendarInv, NEW c \in Callers, request[c] # Idle, Ends(c),
         \A y \in Years : year[y] \in Span => year'[y] \in Span,
         \A t \in Terms : term[t] \in TermRow => term'[t] \in TermRow /\ term'[t].of = term[t].of
  PROVE  CalendarRequests' /\ raced' = raced
<1>1. /\ request' = [d \in Callers |-> request'[d]] /\ OneAtATime' /\ raced' = raced
      /\ request'[c] = Idle /\ \A d \in Callers : d # c => request'[d] = request[d]
  BY EndsOnce DEF CalendarInv, CalendarRequests
<1>2. \A d \in Callers : d # c => CalendarKnows(request[d])'  BY <1>1, OthersAreInTheRace
<1>3. CalendarKnows(request[c])'  BY <1>1 DEF CalendarKnows, Idle
<1> QED  BY <1>1, <1>2, <1>3 DEF CalendarRequests

LEMMA SaveYearKeeps == ASSUME CalendarInv, NEW c \in Callers, SaveYear(c) PROVE CalendarInv'
<1> CalendarTypeOK /\ CalendarRequests /\ CalendarAgrees  BY DEF CalendarInv
<1>1. PICK g : g = request[c]  OBVIOUS
<1>2. g.op = "year" /\ CalendarKnows(g) /\ g # Idle  BY <1>1 DEF SaveYear, CalendarRequests, Idle
<1>3. YearKnows(g)  BY <1>2 DEF CalendarKnows
<1>4. PICK id \in Years : id = g.id  BY <1>3 DEF YearKnows
<1>5. PICK new \in Span : new = g.new  BY <1>3 DEF YearKnows
<1>6. PICK seen \in Span \cup {NoRow} : seen = g.seen  BY <1>3 DEF YearKnows
<1>7. seen # NoRow => year[id] \in Span  BY <1>3, <1>4, <1>6 DEF YearKnows
<1>8. School \in raced \/ YearReady(g)  BY <1>3 DEF YearKnows
<1>9. PICK row : row = Saved(year[id], seen, new)  OBVIOUS
<1>10. row \in Span /\ (seen = year[id] => row = new)  BY <1>7, <1>9, SavedYear
<1>11. /\ seen = NoRow => year[id] = NoRow
       /\ year' = [Deactivated(year, Created(year), g) EXCEPT ![id] = row]
       /\ moved' = IF seen # NoRow /\ ~Within(seen, new) THEN moved \cup {id} ELSE moved
       /\ term' = term /\ Ends(c)
  BY <1>1, <1>4, <1>5, <1>6, <1>9 DEF SaveYear
<1>12. NoRow \notin Span  BY CalendarAssumption
<1>13. Created(year) = {y \in Years : year[y] \in Span}
  BY <1>12 DEF Created, CalendarTypeOK
<1>14. /\ DOMAIN year' = Years /\ year'[id] = row
       /\ \A y \in Years \ {id} : year'[y] = IF g.activates /\ y \in Created(year)
                                             THEN [year[y] EXCEPT !.active = FALSE] ELSE year[y]
       /\ year' = [y \in Years |-> year'[y]]
  BY <1>4, <1>11 DEF Deactivated, CalendarTypeOK
<1>15. ASSUME NEW y \in Created(year) \ {id}
       PROVE  /\ year'[y] \in Span /\ year'[y].from = year[y].from /\ year'[y].to = year[y].to
              /\ g.activates => ~year'[y].active
              /\ ~g.activates => year'[y] = year[y]
  <2>1. PICK old \in Span : old = year[y]  BY <1>13
  <2>2. y \in Years \ {id}  BY <1>13
  <2>3. CASE g.activates
    <3>1. year'[y] = [old EXCEPT !.active = FALSE]  BY <1>14, <2>1, <2>2, <2>3
    <3> QED  BY <2>1, <2>3, <3>1 DEF Span
  <2>4. CASE ~g.activates  BY <1>14, <2>1, <2>2, <2>4
  <2> QED  BY <2>3, <2>4
<1>16. \A y \in Years : year'[y] \in Span \cup {NoRow}
  <2> SUFFICES ASSUME NEW y \in Years PROVE year'[y] \in Span \cup {NoRow}
    OBVIOUS
  <2>1. CASE y = id  BY <2>1, <1>10, <1>14
  <2>2. CASE y \in Created(year) \ {id}  BY <2>2, <1>15
  <2>3. CASE y # id /\ y \notin Created(year)
    BY <2>3, <1>14 DEF CalendarTypeOK
  <2> QED  BY <2>1, <2>2, <2>3
<1>17. \A y \in Years : year[y] \in Span => year'[y] \in Span
  BY <1>10, <1>13, <1>14, <1>15
<1>18. CalendarTypeOK'
  <2>1. year' \in [Years -> Span \cup {NoRow}]  BY <1>14, <1>16
  <2>2. ASSUME NEW t \in Terms, term[t] # NoRow PROVE year'[term[t].of] \in Span
    <3>1. term[t].of \in Years  BY <2>2 DEF CalendarTypeOK, TermRow
    <3> QED  BY <2>2, <3>1, <1>17 DEF CalendarTypeOK
  <2>3. moved' \subseteq Years  BY <1>11 DEF CalendarTypeOK
  <2> QED  BY <2>1, <2>2, <2>3, <1>11 DEF CalendarTypeOK
<1>19. CalendarRequests' /\ raced' = raced  BY <1>1, <1>2, <1>11, <1>17, SavingEnds
<1>20. CalendarAgrees'
  <2> SUFFICES ASSUME School \notin raced PROVE CalendarAgrees'
    BY <1>19 DEF CalendarAgrees, School
  <2>1. YearReady(g) /\ row = new /\ seen = year[id]
    BY <1>4, <1>6, <1>8, <1>10 DEF YearReady
  <2>2. /\ new.from < new.to
        /\ \A z \in Created(year) \ {id} : ~Overlap(year[z], new)
        /\ new.active => g.activates \/ (seen # NoRow /\ seen.active)
    BY <2>1, <1>4, <1>5, <1>6 DEF YearReady, YearFits, MayBeActive
  <2>3. InOrder(year, Created(year))
    BY DEF CalendarAgrees, School
  <2>4. \A y \in Created(year) : /\ InOrder(term, TermsOf(y))
                                 /\ y \in moved \/ \A t \in TermsOf(y) : Within(term[t], year[y])
    BY DEF CalendarAgrees, School
  <2>5. ASSUME NEW z \in Created(year) \ {id}
        PROVE  /\ year'[z].active => year[z].active
               /\ ~(new.active /\ year'[z].active)
    <3>1. CASE g.activates  BY <3>1, <1>15
    <3>2. CASE ~g.activates
      <4>1. year'[z] = year[z]  BY <3>2, <1>15
      <4>2. new.active => seen # NoRow /\ year[id].active  BY <3>2, <2>1, <2>2
      <4>3. seen # NoRow => id \in Created(year)  BY <2>1, <1>7, <1>13
      <4>4. id \in Created(year) => ~(year[id].active /\ year[z].active)
        BY <2>3 DEF InOrder
      <4> QED  BY <4>1, <4>2, <4>3, <4>4
    <3> QED  BY <3>1, <3>2
  <2>6. InOrder(year', Created(year) \cup {id})
    BY <2>1, <2>2, <2>3, <2>5, <1>14, <1>15, SavedInOrder
  <2>7. Created(year)' \subseteq Created(year) \cup {id}
    BY <1>13, <1>14 DEF Created, CalendarTypeOK
  <2>8. InOrder(year', Created(year)')  BY <2>6, <2>7 DEF InOrder
  <2>9. \A y : TermsOf(y)' = TermsOf(y)  BY <1>11 DEF TermsOf, Created
  <2>10. id \in Created(year) \/ TermsOf(id) = {}
    BY <1>13 DEF TermsOf, Created, CalendarTypeOK
  <2>11. ASSUME NEW y \in Created(year)'
         PROVE  /\ InOrder(term, TermsOf(y))
                /\ y \in moved' \/ \A t \in TermsOf(y) : Within(term[t], year'[y])
    <3>1. CASE y \in Created(year) \ {id}
      <4>1. year'[y].from = year[y].from /\ year'[y].to = year[y].to  BY <3>1, <1>15
      <4> QED  BY <3>1, <4>1, <2>4, <1>11 DEF Within
    <3>2. CASE y = id /\ id \in Created(year)
      <4>1. seen # NoRow  BY <3>2, <2>1 DEF Created
      <4>2. CASE ~Within(seen, new)  BY <3>2, <4>1, <4>2, <2>4, <1>11
      <4>3. CASE Within(seen, new) /\ id \notin moved
        <5>1. ASSUME NEW t \in TermsOf(id) PROVE Within(term[t], new)
          <6>1. Within(term[t], seen)  BY <3>2, <4>3, <2>1, <2>4
          <6>2. term[t] \in TermRow /\ seen \in Span  BY <4>1 DEF TermsOf, Created, CalendarTypeOK
          <6>3. /\ term[t].from \in Int /\ term[t].to \in Int /\ seen.from \in Int
                /\ seen.to \in Int /\ new.from \in Int /\ new.to \in Int
            BY <6>2, CalendarAssumption DEF TermRow, Span, Dates
          <6> QED  BY <6>1, <6>3, <4>3 DEF Within
        <5> QED  BY <5>1, <3>2, <2>1, <2>4, <1>14
      <4>4. CASE Within(seen, new) /\ id \in moved  BY <3>2, <4>4, <2>4, <1>11
      <4> QED  BY <4>2, <4>3, <4>4
    <3>3. CASE y = id /\ TermsOf(id) = {}  BY <3>3 DEF InOrder
    <3> QED  BY <3>1, <3>2, <3>3, <2>7, <2>10, <2>11
  <2>12. InOrder(year, Created(year))'  BY <2>8 DEF InOrder
  <2>13. ASSUME NEW y \in Created(year)' PROVE InOrder(term, TermsOf(y))'
    BY <2>9, <2>11, <1>11 DEF InOrder
  <2>14. ASSUME NEW y \in Created(year)'
         PROVE  y \in moved' \/ \A t \in TermsOf(y)' : Within(term[t], year[y])'
    BY <2>9, <2>11, <1>11 DEF Within
  <2> QED  BY <2>12, <2>13, <2>14 DEF CalendarAgrees, School
<1> QED  BY <1>18, <1>19, <1>20 DEF CalendarInv

LEMMA SaveTermKeeps == ASSUME CalendarInv, NEW c \in Callers, SaveTerm(c) PROVE CalendarInv'
<1> CalendarTypeOK /\ CalendarRequests /\ CalendarAgrees  BY DEF CalendarInv
<1>1. PICK g : g = request[c]  OBVIOUS
<1>2. g.op = "term" /\ CalendarKnows(g) /\ g # Idle  BY <1>1 DEF SaveTerm, CalendarRequests, Idle
<1>3. TermKnows(g)  BY <1>2 DEF CalendarKnows
<1>4. PICK id \in Terms : id = g.id  BY <1>3 DEF TermKnows
<1>5. PICK new \in TermRow : new = g.new  BY <1>3 DEF TermKnows
<1>6. PICK seen \in TermRow \cup {NoRow} : seen = g.seen  BY <1>3 DEF TermKnows
<1>7. PICK y \in Years : y = new.of  BY DEF TermRow
<1>8. /\ year[y] \in Span
      /\ seen # NoRow => seen.of = y /\ term[id] \in TermRow /\ term[id].of = y
      /\ School \in raced \/ TermReady(g)
  BY <1>3, <1>4, <1>5, <1>6, <1>7 DEF TermKnows
<1>9. PICK row : row = Saved(term[id], seen, new)  OBVIOUS
<1>10. row \in TermRow /\ row.of = y /\ (seen = term[id] => row = new)
  BY <1>7, <1>8, <1>9, SavedTerm
<1>11. /\ seen = NoRow => term[id] = NoRow
       /\ term' = [Deactivated(term, TermsOf(y), g) EXCEPT ![id] = row]
       /\ year' = year /\ moved' = moved /\ Ends(c)
  BY <1>1, <1>4, <1>5, <1>6, <1>7, <1>9 DEF SaveTerm
<1>12. NoRow \notin Span /\ NoRow \notin TermRow  BY CalendarAssumption
<1>13. \A x : TermsOf(x) = {t \in Terms : term[t] # NoRow /\ term[t].of = x}
  BY DEF TermsOf, Created, CalendarTypeOK
<1>14. /\ term'[id] = row /\ term' = [t \in Terms |-> term'[t]]
       /\ \A t \in Terms \ {id} : term'[t] = IF g.activates /\ t \in TermsOf(y)
                                             THEN [term[t] EXCEPT !.active = FALSE] ELSE term[t]
  BY <1>4, <1>11 DEF Deactivated, CalendarTypeOK
<1>15. ASSUME NEW t \in TermsOf(y) \ {id}
       PROVE  /\ term'[t] \in TermRow /\ term'[t].of = term[t].of
              /\ term'[t].from = term[t].from /\ term'[t].to = term[t].to
              /\ g.activates => ~term'[t].active
              /\ ~g.activates => term'[t] = term[t]
  <2>1. PICK old \in TermRow : old = term[t]  BY <1>13 DEF CalendarTypeOK
  <2>2. t \in Terms \ {id}  BY <1>13
  <2>3. CASE g.activates
    <3>1. term'[t] = [old EXCEPT !.active = FALSE]  BY <1>14, <2>1, <2>2, <2>3
    <3> QED  BY <2>1, <2>3, <3>1 DEF TermRow
  <2>4. CASE ~g.activates  BY <1>14, <2>1, <2>2, <2>4
  <2> QED  BY <2>3, <2>4
<1>16. ASSUME NEW t \in Terms, t # id
       PROVE  /\ term'[t] \in TermRow \cup {NoRow}
              /\ term[t] \in TermRow => term'[t] \in TermRow /\ term'[t].of = term[t].of
              /\ t \notin TermsOf(y) => term'[t] = term[t]
  <2>1. CASE t \in TermsOf(y)  BY <2>1, <1>15, <1>16
  <2>2. CASE t \notin TermsOf(y)  BY <2>2, <1>14, <1>16 DEF CalendarTypeOK
  <2> QED  BY <2>1, <2>2
<1>17. \A t \in Terms : term[t] \in TermRow => term'[t] \in TermRow /\ term'[t].of = term[t].of
  BY <1>8, <1>10, <1>11, <1>12, <1>14, <1>16
<1>18. CalendarTypeOK'
  <2>1. term' \in [Terms -> TermRow \cup {NoRow}]  BY <1>10, <1>14, <1>16
  <2>2. ASSUME NEW t \in Terms, term'[t] # NoRow PROVE year'[term'[t].of] \in Span
    <3>1. CASE t = id  BY <3>1, <1>8, <1>10, <1>11, <1>14
    <3>2. CASE t # id
      <4>1. term[t] # NoRow
        <5>1. CASE t \in TermsOf(y)  BY <5>1, <1>13
        <5>2. CASE t \notin TermsOf(y)  BY <5>2, <2>2, <3>2, <1>16
        <5> QED  BY <5>1, <5>2
      <4>2. term'[t].of = term[t].of  BY <4>1, <3>2, <1>16 DEF CalendarTypeOK
      <4> QED  BY <4>1, <4>2, <1>11 DEF CalendarTypeOK
    <3> QED  BY <3>1, <3>2
  <2> QED  BY <2>1, <2>2, <1>11 DEF CalendarTypeOK
<1>19. CalendarRequests' /\ raced' = raced  BY <1>1, <1>2, <1>11, <1>17, SavingEnds
<1>20. CalendarAgrees'
  <2> SUFFICES ASSUME School \notin raced PROVE CalendarAgrees'
    BY <1>19 DEF CalendarAgrees, School
  <2>1. TermReady(g) /\ row = new /\ seen = term[id]
    BY <1>4, <1>6, <1>8, <1>10 DEF TermReady
  <2>2. /\ new.from < new.to /\ Within(new, year[y])
        /\ \A z \in TermsOf(y) \ {id} : ~Overlap(term[z], new)
        /\ new.active => g.activates \/ (seen # NoRow /\ seen.active)
    BY <2>1, <1>4, <1>5, <1>6, <1>7 DEF TermReady, TermFits, MayBeActive
  <2>3. y \in Created(year)  BY <1>8, <1>12 DEF Created, CalendarTypeOK
  <2>4. /\ InOrder(year, Created(year)) /\ InOrder(term, TermsOf(y))
        /\ \A x \in Created(year) :
              /\ InOrder(term, TermsOf(x))
              /\ x \in moved \/ \A t \in TermsOf(x) : Within(term[t], year[x])
    BY <2>3 DEF CalendarAgrees, School
  <2>5. ASSUME NEW z \in TermsOf(y) \ {id}
        PROVE  /\ term'[z].active => term[z].active
               /\ ~(new.active /\ term'[z].active)
    <3>1. CASE g.activates  BY <3>1, <1>15
    <3>2. CASE ~g.activates
      <4>1. term'[z] = term[z]  BY <3>2, <1>15
      <4>2. new.active => seen # NoRow /\ term[id].active  BY <3>2, <2>1, <2>2
      <4>3. seen # NoRow => id \in TermsOf(y)  BY <2>1, <1>8, <1>13
      <4>4. id \in TermsOf(y) => ~(term[id].active /\ term[z].active)
        BY <2>4 DEF InOrder
      <4> QED  BY <4>1, <4>2, <4>3, <4>4
    <3> QED  BY <3>1, <3>2
  <2>6. InOrder(term', TermsOf(y) \cup {id})
    BY <2>1, <2>2, <2>4, <2>5, <1>14, <1>15, SavedInOrder
  <2>7. \A x : TermsOf(x)' = {t \in Terms : term'[t] # NoRow /\ term'[t].of = x}
    BY <1>18 DEF TermsOf, Created, CalendarTypeOK
  <2>8. ASSUME NEW t \in Terms, t # id, term'[t] # NoRow
        PROVE  term[t] # NoRow /\ term'[t].of = term[t].of
    <3>1. CASE t \in TermsOf(y)  BY <3>1, <1>13, <1>15, <2>8
    <3>2. CASE t \notin TermsOf(y)  BY <3>2, <2>8, <1>16
    <3> QED  BY <3>1, <3>2
  <2>9. TermsOf(y)' \subseteq TermsOf(y) \cup {id}  BY <2>7, <2>8, <1>13
  <2>10. ASSUME NEW x, x # y PROVE TermsOf(x)' \subseteq TermsOf(x) /\ id \notin TermsOf(x)'
    <3>1. id \notin TermsOf(x)'  BY <2>7, <2>10, <1>10, <1>14
    <3> QED  BY <3>1, <2>7, <2>8, <1>13
  <2>11. ASSUME NEW x, x # y, NEW t \in TermsOf(x)' PROVE term'[t] = term[t] /\ t \in TermsOf(x)
    <3>1. t \in TermsOf(x) /\ t # id  BY <2>10, <2>11
    <3>2. t \in Terms /\ t \notin TermsOf(y)  BY <3>1, <2>11, <1>13
    <3> QED  BY <3>1, <3>2, <1>16
  <2>12. Created(year)' = Created(year)  BY <1>11 DEF Created
  <2>13. ASSUME NEW x \in Created(year)
         PROVE  /\ InOrder(term', TermsOf(x)')
                /\ x \in moved \/ \A t \in TermsOf(x)' : Within(term'[t], year[x])
    <3>1. CASE x = y
      <4>1. InOrder(term', TermsOf(y)')  BY <2>6, <2>9 DEF InOrder
      <4>2. ASSUME NEW t \in TermsOf(y)', y \notin moved PROVE Within(term'[t], year[y])
        <5>1. CASE t = id  BY <5>1, <2>1, <2>2, <1>14
        <5>2. CASE t # id
          <6>1. t \in TermsOf(y) \ {id}  BY <5>2, <2>9, <4>2
          <6>2. Within(term[t], year[y])  BY <6>1, <4>2, <2>3, <2>4
          <6> QED  BY <6>1, <6>2, <1>15 DEF Within
        <5> QED  BY <5>1, <5>2
      <4> QED  BY <3>1, <4>1, <4>2
    <3>2. CASE x # y
      <4>1. \A t \in TermsOf(x)' : term'[t] = term[t] /\ t \in TermsOf(x)  BY <3>2, <2>11
      <4>2. InOrder(term, TermsOf(x))  BY <2>4
      <4>3. InOrder(term', TermsOf(x)')  BY <4>1, <4>2 DEF InOrder
      <4> QED  BY <4>1, <4>3, <2>4
    <3> QED  BY <3>1, <3>2
  <2> QED  BY <2>4, <2>12, <2>13, <1>11 DEF CalendarAgrees, School, InOrder
<1> QED  BY <1>18, <1>19, <1>20 DEF CalendarInv

LEMMA CalendarGivingUpKeeps ==
  ASSUME CalendarInv, NEW c \in Callers, GivesUp(c), UNCHANGED calendar PROVE CalendarInv'
<1>1. /\ request' = [d \in Callers |-> request'[d]] /\ OneAtATime' /\ raced' = raced
      /\ request'[c] = Idle /\ \A d \in Callers : d # c => request'[d] = request[d]
  BY EndsOnce DEF GivesUp, CalendarInv, CalendarRequests
<1>2. PICK g : g = Idle  OBVIOUS
<1>3. CalendarKnows(g)  BY <1>2 DEF CalendarKnows
<1> QED  BY <1>1, <1>2, <1>3, CalendarReads

LEMMA CalendarStep == ASSUME CalendarInv, CalendarNext PROVE CalendarInv'
BY ReadForYearKeeps, ReadForTermKeeps, SaveYearKeeps, SaveTermKeeps DEF CalendarNext

LEMMA CalendarRests == ASSUME CalendarInv, UNCHANGED <<calendar, callers>> PROVE CalendarInv'
<1>1. year' = year /\ term' = term /\ moved' = moved /\ request' = request /\ raced' = raced
  BY DEF calendar, callers
<1>2. /\ Created(year)' = Created(year) /\ Created(term)' = Created(term)
      /\ \A y : TermsOf(y)' = TermsOf(y)
  BY <1>1 DEF Created, TermsOf
<1>3. ASSUME NEW d \in Callers PROVE CalendarKnows(request[d])'
  <2>1. PICK h : h = request[d]  OBVIOUS
  <2>2. CalendarKnows(h)  BY <2>1 DEF CalendarInv, CalendarRequests
  <2>3. YearFits(h.id, h.new)' <=> YearFits(h.id, h.new)  BY <1>1, <1>2 DEF YearFits
  <2>4. TermFits(h.id, h.new)' <=> TermFits(h.id, h.new)  BY <1>1, <1>2 DEF TermFits
  <2>5. YearKnows(h) => YearKnows(h)'  BY <1>1, <2>3 DEF YearKnows, YearReady, MayBeActive, School
  <2>6. TermKnows(h) => TermKnows(h)'  BY <1>1, <2>4 DEF TermKnows, TermReady, MayBeActive, School
  <2>7. CalendarKnows(h)'  BY <2>2, <2>5, <2>6 DEF CalendarKnows, School, Idle
  <2> QED  BY <2>1, <2>7, <1>1
<1>4. CalendarRequests'  BY <1>1, <1>3 DEF CalendarInv, CalendarRequests, OneAtATime
<1>5. CalendarAgrees'  BY <1>1, <1>2 DEF CalendarInv, CalendarAgrees, InOrder
<1> QED  BY <1>1, <1>4, <1>5 DEF CalendarInv, CalendarTypeOK

-----------------------------------------------------------------------------
\* The office: policies.

Policies == <<"policy", "school">>
\* What a version that is to be issued knows: the version it read as current is that, and there
\* was none if it read none, or the policy is in raced.
PrevReady(v, prev) ==
    IF v > 1 /\ CurrentPolicies # {} THEN prev \in CurrentPolicies ELSE prev = NoRow
PolicyKnows(g) ==
    \/ g = Idle
    \/ /\ g.op = "issue" /\ Policies \in g.on /\ g.version \in Versions
       /\ g.prev \in Versions \cup {NoRow}
       /\ Policies \in raced \/ PrevReady(g.version, g.prev)
PoliciesTypeOK ==
    /\ policy \in [Versions -> {"current", "superseded", NoRow}] /\ issued \in Seq(Versions)
    /\ issued = << >> => CurrentPolicies = {}
PolicyRequests ==
    /\ request = [c \in Callers |-> request[c]] /\ OneAtATime
    /\ \A c \in Callers : PolicyKnows(request[c])
PoliciesInv == PoliciesTypeOK /\ PolicyRequests /\ PoliciesAgree

PoliciesEmpty == policy = [v \in Versions |-> NoRow] /\ issued = << >>

LEMMA PoliciesRestAgree == ASSUME PoliciesEmpty PROVE PoliciesAgree
BY DEF PoliciesEmpty, PoliciesAgree

LEMMA PoliciesStart == ASSUME HandlersInit, PoliciesEmpty PROVE PoliciesInv
<1> USE DEF HandlersInit, PoliciesEmpty
<1>1. \A c \in Callers : request[c] = Idle /\ PolicyKnows(request[c])  BY DEF PolicyKnows
<1>2. PolicyRequests  BY <1>1 DEF PolicyRequests, OneAtATime, Idle
<1>3. NoRow # "current"  BY OfficeAssumption
<1>4. PoliciesTypeOK  BY <1>3 DEF PoliciesTypeOK, CurrentPolicies
<1> QED  BY <1>2, <1>4 DEF PoliciesInv, PoliciesAgree

\* Reading, and breaking off, change no row.
LEMMA PoliciesRead ==
  ASSUME PoliciesInv, NEW c \in Callers, NEW g, policy' = policy, issued' = issued,
         raced \subseteq raced', request' = [d \in Callers |-> request'[d]], OneAtATime',
         PolicyKnows(g), request'[c] = g, \A d \in Callers : d # c => request'[d] = request[d]
  PROVE  PoliciesInv'
<1>1. CurrentPolicies' = CurrentPolicies  BY DEF CurrentPolicies
<1>2. \A h : PolicyKnows(h) => PolicyKnows(h)'
  BY <1>1 DEF PolicyKnows, PrevReady, Policies, Idle
<1>3. ASSUME NEW d \in Callers PROVE PolicyKnows(request[d])'
  <2>1. PICK h : h = request'[d]  OBVIOUS
  <2>2. PolicyKnows(h)  BY <2>1 DEF PoliciesInv, PolicyRequests
  <2> QED  BY <2>1, <2>2, <1>2
<1>4. PoliciesAgree'  BY <1>1 DEF PoliciesInv, PoliciesAgree
<1> QED  BY <1>1, <1>3, <1>4 DEF PoliciesInv, PoliciesTypeOK, PolicyRequests

LEMMA ReadPolicyKeeps ==
  ASSUME PoliciesInv, NEW c \in Callers, NEW v \in Versions, ReadPolicy(c, v) PROVE PoliciesInv'
<1>1. PICK prev \in Superseded(v) :
         Reads(c, [op |-> "issue", on |-> {<<"policy", "school">>}, version |-> v, prev |-> prev])
  BY DEF ReadPolicy
<1>2. PICK g : g = [op |-> "issue", on |-> {Policies}, version |-> v, prev |-> prev]  OBVIOUS
<1>3. Reads(c, g) /\ policy' = policy /\ issued' = issued
  BY <1>1, <1>2 DEF ReadPolicy, policies, Policies
<1>4. g.op = "issue" /\ Policies \in g.on /\ g.version = v /\ g.prev = prev  BY <1>2
<1>5. PrevReady(v, prev) /\ prev \in Versions \cup {NoRow}
  BY DEF Superseded, PrevReady, CurrentPolicies
<1>6. PolicyKnows(g)  BY <1>4, <1>5 DEF PolicyKnows
<1>7. /\ request' = [d \in Callers |-> request'[d]] /\ OneAtATime' /\ raced \subseteq raced'
      /\ request'[c] = g /\ \A d \in Callers : d # c => request'[d] = request[d]
  BY <1>3, ReadsOnce DEF PoliciesInv, PolicyRequests
<1> QED  BY <1>3, <1>6, <1>7, PoliciesRead

LEMMA CreatePolicyKeeps ==
  ASSUME PoliciesInv, NEW c \in Callers, CreatePolicy(c) PROVE PoliciesInv'
<1> PoliciesTypeOK /\ PolicyRequests /\ PoliciesAgree  BY DEF PoliciesInv
<1>1. PICK g : g = request[c]  OBVIOUS
<1>2. g.op = "issue" /\ PolicyKnows(g) /\ g # Idle
  BY <1>1 DEF CreatePolicy, PolicyRequests, Idle
<1>3. PICK v \in Versions : v = g.version  BY <1>2 DEF PolicyKnows
<1>4. PICK prev \in Versions \cup {NoRow} : prev = g.prev  BY <1>2 DEF PolicyKnows
<1>5. Policies \in g.on /\ (Policies \in raced \/ PrevReady(v, prev))
  BY <1>2, <1>3, <1>4 DEF PolicyKnows
<1>6. /\ policy[v] = NoRow
      /\ policy' = [w \in Versions |-> CASE w = v -> "current"
                                         [] w = prev -> "superseded"
                                         [] OTHER -> policy[w]]
      /\ issued' = Append(issued, v) /\ Ends(c)
  BY <1>1, <1>3, <1>4 DEF CreatePolicy
<1>7. NoRow # "current" /\ NoRow \notin Versions  BY OfficeAssumption
<1>8. /\ issued' \in Seq(Versions) /\ Len(issued) \in Nat /\ Len(issued') = Len(issued) + 1
      /\ issued'[Len(issued')] = v
      /\ \A i \in 1..Len(issued) : issued'[i] = issued[i]
  BY <1>6 DEF PoliciesTypeOK
<1>9. issued' # << >>  BY <1>8
<1>10. policy' \in [Versions -> {"current", "superseded", NoRow}]
  BY <1>6 DEF PoliciesTypeOK
<1>11. v \notin CurrentPolicies  BY <1>6, <1>7 DEF CurrentPolicies
<1>12. prev # v => CurrentPolicies' = (CurrentPolicies \ {prev}) \cup {v}
  BY <1>6, <1>7 DEF CurrentPolicies
<1>13. /\ request' = [d \in Callers |-> request'[d]] /\ OneAtATime' /\ raced' = raced
       /\ request'[c] = Idle /\ \A d \in Callers : d # c => request'[d] = request[d]
  BY <1>6, EndsOnce DEF PolicyRequests
<1>14. PoliciesAgree'
  <2> SUFFICES ASSUME Policies \notin raced
               PROVE  /\ v \in CurrentPolicies'
                      /\ (\A i \in 2..Len(issued') : issued'[i] # 1) => CurrentPolicies' = {v}
    BY <1>8, <1>13 DEF PoliciesAgree, Policies
  <2>1. PrevReady(v, prev)  BY <1>5
  <2>2. prev # v  BY <2>1, <1>7, <1>11 DEF PrevReady
  <2>3. v \in CurrentPolicies'  BY <1>12, <2>2
  <2>4. ASSUME \A i \in 2..Len(issued') : issued'[i] # 1 PROVE CurrentPolicies' = {v}
    <3>1. CASE issued = << >>  BY <3>1, <1>12, <2>2 DEF PoliciesTypeOK
    <3>2. CASE issued # << >>
      <4>1. Len(issued) >= 1  BY <3>2, <1>8 DEF PoliciesTypeOK
      <4>2. Len(issued') \in 2..Len(issued')  BY <4>1, <1>8
      <4>3. v > 1  BY <4>2, <2>4, <1>8 DEF Versions
      <4>4. \A i \in 2..Len(issued) : issued[i] # 1  BY <2>4, <1>8
      <4>5. CurrentPolicies = {issued[Len(issued)]}
        BY <3>2, <4>4 DEF PoliciesAgree, Policies
      <4>6. prev \in CurrentPolicies  BY <4>3, <4>5, <2>1 DEF PrevReady
      <4> QED  BY <4>5, <4>6, <1>12, <2>2
    <3> QED  BY <3>1, <3>2
  <2> QED  BY <2>3, <2>4
<1>15. ASSUME NEW d \in Callers PROVE PolicyKnows(request[d])'
  <2>1. PICK h : h = request'[d]  OBVIOUS
  <2> SUFFICES PolicyKnows(h)'  BY <2>1
  <2>2. CASE h = Idle  BY <2>2 DEF PolicyKnows, Idle
  <2>3. CASE h # Idle
    <3>1. d # c /\ h = request[d] /\ PolicyKnows(h)  BY <2>1, <2>3, <1>13 DEF PolicyRequests
    <3>2. Policies \in h.on  BY <3>1, <2>3 DEF PolicyKnows
    <3>3. Policies \in raced  BY <3>1, <3>2, <1>1, <1>5 DEF PolicyRequests, OneAtATime
    <3> QED  BY <3>1, <3>3, <1>13 DEF PolicyKnows, Policies, Idle
  <2> QED  BY <2>2, <2>3
<1> QED
  BY <1>8, <1>9, <1>10, <1>13, <1>14, <1>15 DEF PoliciesInv, PoliciesTypeOK, PolicyRequests

LEMMA PoliciesGivingUpKeeps ==
  ASSUME PoliciesInv, NEW c \in Callers, GivesUp(c), UNCHANGED policies PROVE PoliciesInv'
<1>1. /\ request' = [d \in Callers |-> request'[d]] /\ OneAtATime' /\ raced' = raced
      /\ request'[c] = Idle /\ \A d \in Callers : d # c => request'[d] = request[d]
  BY EndsOnce DEF GivesUp, PoliciesInv, PolicyRequests
<1>2. PICK g : g = Idle  OBVIOUS
<1>3. PolicyKnows(g)  BY <1>2 DEF PolicyKnows
<1> QED  BY <1>1, <1>2, <1>3, PoliciesRead DEF policies

LEMMA PoliciesStep == ASSUME PoliciesInv, PoliciesNext PROVE PoliciesInv'
BY CreatePolicyKeeps, ReadPolicyKeeps DEF PoliciesNext

LEMMA PoliciesRest == ASSUME PoliciesInv, UNCHANGED <<policies, callers>> PROVE PoliciesInv'
<1>1. policy' = policy /\ issued' = issued /\ request' = request /\ raced' = raced
  BY DEF policies, callers
<1>2. CurrentPolicies' = CurrentPolicies  BY <1>1 DEF CurrentPolicies
<1>3. PolicyRequests'
  BY <1>1, <1>2
     DEF PoliciesInv, PolicyRequests, OneAtATime, PolicyKnows, PrevReady, Policies, Idle
<1> QED  BY <1>1, <1>2, <1>3 DEF PoliciesInv, PoliciesTypeOK, PoliciesAgree

-----------------------------------------------------------------------------
\* Campuses.

Yard == <<"campus", "school">>
\* What a campus that is to be opened knows: the campuses it clears are those that are primary,
\* if it is to be primary itself, or the campuses are in raced.
CampusKnows(g) ==
    \/ g = Idle
    \/ /\ g.op = "open" /\ Yard \in g.on /\ g.code \in Codes /\ g.primary \in BOOLEAN
       /\ g.clears \subseteq Created(campus)
       /\ Yard \in raced \/ g.clears = (IF g.primary THEN PrimaryCampuses ELSE {})
CampusesTypeOK ==
    campus \in [Campuses -> CampusRow \cup {NoRow}] /\ main \in Campuses \cup {NoRow}
CampusRequests ==
    /\ request = [c \in Callers |-> request[c]] /\ OneAtATime
    /\ \A c \in Callers : CampusKnows(request[c])
CampusesInv == CampusesTypeOK /\ CampusRequests /\ CampusesAgree
CampusesEmpty == campus = [r \in Campuses |-> NoRow] /\ main = NoRow

LEMMA CampusesRestAgree == ASSUME CampusesEmpty PROVE CampusesAgree
<1>1. Created(campus) = {}  BY DEF CampusesEmpty, Created
<1> QED  BY <1>1 DEF CampusesAgree, PrimaryCampuses, CampusesEmpty

LEMMA CampusesStart == ASSUME HandlersInit, CampusesEmpty PROVE CampusesInv
<1>1. \A c \in Callers : request[c] = Idle /\ CampusKnows(request[c])
  BY DEF CampusKnows, HandlersInit
<1>2. CampusRequests  BY <1>1 DEF CampusRequests, OneAtATime, Idle, HandlersInit
<1> QED  BY <1>2, CampusesRestAgree DEF CampusesInv, CampusesTypeOK, CampusesEmpty

\* Reading, and breaking off, change no row.
LEMMA CampusesRead ==
  ASSUME CampusesInv, NEW c \in Callers, NEW g, campus' = campus, main' = main,
         raced \subseteq raced', request' = [d \in Callers |-> request'[d]], OneAtATime',
         CampusKnows(g), request'[c] = g, \A d \in Callers : d # c => request'[d] = request[d]
  PROVE  CampusesInv'
<1>1. Created(campus)' = Created(campus) /\ PrimaryCampuses' = PrimaryCampuses
  BY DEF Created, PrimaryCampuses
<1>2. \A h : CampusKnows(h) => CampusKnows(h)'  BY <1>1 DEF CampusKnows, Yard, Idle
<1>3. ASSUME NEW d \in Callers PROVE CampusKnows(request[d])'
  <2>1. PICK h : h = request'[d]  OBVIOUS
  <2>2. CampusKnows(h)  BY <2>1 DEF CampusesInv, CampusRequests
  <2> QED  BY <2>1, <2>2, <1>2
<1>4. CampusesAgree'  BY <1>1 DEF CampusesInv, CampusesAgree
<1> QED  BY <1>1, <1>3, <1>4 DEF CampusesInv, CampusesTypeOK, CampusRequests

LEMMA ReadCampusesKeeps ==
  ASSUME CampusesInv, NEW c \in Callers, NEW code \in Codes, NEW on \in BOOLEAN,
         ReadCampuses(c, code, on)
  PROVE  CampusesInv'
<1>1. PICK g : g = [op |-> "open", on |-> {Yard}, code |-> code, primary |-> on,
                    clears |-> IF on THEN Cleared(PrimaryCampuses) ELSE {}]
  OBVIOUS
<1>2. Reads(c, g) /\ campus' = campus /\ main' = main
  BY <1>1 DEF ReadCampuses, campuses, Yard
<1>3. /\ g.op = "open" /\ Yard \in g.on /\ g.code = code /\ g.primary = on
      /\ g.clears = IF on THEN PrimaryCampuses ELSE {}
  BY <1>1 DEF Cleared
<1>4. g.clears \subseteq Created(campus)  BY <1>3 DEF PrimaryCampuses
<1>5. CampusKnows(g)  BY <1>3, <1>4 DEF CampusKnows
<1>6. /\ request' = [d \in Callers |-> request'[d]] /\ OneAtATime' /\ raced \subseteq raced'
      /\ request'[c] = g /\ \A d \in Callers : d # c => request'[d] = request[d]
  BY <1>2, ReadsOnce DEF CampusesInv, CampusRequests
<1> QED  BY <1>2, <1>5, <1>6, CampusesRead

LEMMA CreateCampusKeeps ==
  ASSUME CampusesInv, NEW c \in Callers, NEW r \in Campuses, CreateCampus(c, r)
  PROVE  CampusesInv'
<1> CampusesTypeOK /\ CampusRequests /\ CampusesAgree  BY DEF CampusesInv
<1>1. PICK g : g = request[c]  OBVIOUS
<1>2. g.op = "open" /\ CampusKnows(g) /\ g # Idle
  BY <1>1 DEF CreateCampus, CampusRequests, Idle
<1>3. PICK code \in Codes : code = g.code  BY <1>2 DEF CampusKnows
<1>4. PICK on \in BOOLEAN : on = g.primary  BY <1>2 DEF CampusKnows
<1>5. PICK cleared \in SUBSET Created(campus) : cleared = g.clears  BY <1>2 DEF CampusKnows
<1>6. /\ Yard \in g.on
      /\ Yard \in raced \/ cleared = (IF on THEN PrimaryCampuses ELSE {})
  BY <1>2, <1>4, <1>5 DEF CampusKnows
<1>7. /\ campus[r] = NoRow
      /\ campus' = [x \in Campuses |->
            CASE x = r -> [code |-> code, primary |-> on]
              [] x \in cleared -> [campus[x] EXCEPT !.primary = FALSE]
              [] OTHER -> campus[x]]
      /\ main' = (IF on THEN r ELSE main) /\ Ends(c)
  BY <1>1, <1>3, <1>4, <1>5 DEF CreateCampus
<1>8. NoRow \notin CampusRow /\ NoRow \notin Campuses  BY OfficeAssumption
<1>9. DOMAIN campus = Campuses /\ DOMAIN campus' = Campuses
  BY <1>7 DEF CampusesTypeOK
<1>10. r \notin Created(campus)  BY <1>7 DEF Created
<1>11. [code |-> code, primary |-> on] \in CampusRow  BY DEF CampusRow
<1>12. ASSUME NEW x \in cleared
       PROVE  /\ x \in Campuses /\ x # r /\ [campus[x] EXCEPT !.primary = FALSE] \in CampusRow
              /\ [campus[x] EXCEPT !.primary = FALSE].primary = FALSE
  <2>1. x \in Campuses /\ campus[x] \in CampusRow /\ x # r
    BY <1>9, <1>10 DEF CampusesTypeOK, Created
  <2> QED  BY <2>1 DEF CampusRow
<1>13. ASSUME NEW x \in Campuses
       PROVE  /\ x = r => campus'[x] = [code |-> code, primary |-> on]
              /\ x \in cleared => campus'[x] = [campus[x] EXCEPT !.primary = FALSE]
              /\ x # r /\ x \notin cleared => campus'[x] = campus[x]
  BY <1>7, <1>12
<1>14. CampusesTypeOK'
  <2>1. ASSUME NEW x \in Campuses PROVE campus'[x] \in CampusRow \cup {NoRow}
    <3>1. CASE x = r  BY <3>1, <1>11, <1>13
    <3>2. CASE x \in cleared  BY <3>2, <1>12, <1>13
    <3>3. CASE x # r /\ x \notin cleared  BY <3>3, <1>13 DEF CampusesTypeOK
    <3> QED  BY <3>1, <3>2, <3>3
  <2> QED  BY <2>1, <1>7 DEF CampusesTypeOK
<1>15. Created(campus)' = Created(campus) \cup {r}
  <2>1. ASSUME NEW x \in Campuses
        PROVE  campus'[x] # NoRow <=> campus[x] # NoRow \/ x = r
    <3>1. CASE x = r  BY <3>1, <1>8, <1>11, <1>13
    <3>2. CASE x \in cleared
      <4>1. campus'[x] \in CampusRow /\ campus[x] # NoRow
        BY <3>2, <1>12, <1>13 DEF Created
      <4> QED  BY <4>1, <1>8
    <3>3. CASE x # r /\ x \notin cleared  BY <3>3, <1>13
    <3> QED  BY <3>1, <3>2, <3>3
  <2> QED  BY <2>1, <1>9 DEF Created
<1>16. PrimaryCampuses' = (PrimaryCampuses \ cleared) \cup (IF on THEN {r} ELSE {})
  <2>1. ASSUME NEW x \in Created(campus)
        PROVE  campus'[x].primary <=> campus[x].primary /\ x \notin cleared
    <3>1. x \in Campuses /\ x # r /\ campus[x] \in CampusRow
      BY <1>9, <1>10 DEF Created, CampusesTypeOK
    <3>2. CASE x \in cleared  BY <3>1, <3>2, <1>12, <1>13
    <3>3. CASE x \notin cleared  BY <3>1, <3>3, <1>13
    <3> QED  BY <3>2, <3>3
  <2>2. campus'[r].primary = on
    <3>1. PICK row : row = [code |-> code, primary |-> on]  OBVIOUS
    <3>2. row.primary = on  BY <3>1
    <3> QED  BY <3>1, <3>2, <1>13
  <2>3. PrimaryCampuses' = {x \in Created(campus) \cup {r} : campus'[x].primary}
    BY <1>15 DEF PrimaryCampuses
  <2>4. \A x : x \in PrimaryCampuses <=> x \in Created(campus) /\ campus[x].primary
    BY DEF PrimaryCampuses
  <2>5. r \notin PrimaryCampuses  BY <1>10, <2>4
  <2>6. ASSUME NEW x
        PROVE  x \in PrimaryCampuses' <=>
                  (x \in PrimaryCampuses /\ x \notin cleared) \/ (on /\ x = r)
    <3>1. CASE x = r  BY <3>1, <2>2, <2>3, <2>5
    <3>2. CASE x # r  BY <3>2, <2>1, <2>3, <2>4
    <3> QED  BY <3>1, <3>2
  <2> QED  BY <2>6
<1>17. /\ request' = [d \in Callers |-> request'[d]] /\ OneAtATime' /\ raced' = raced
       /\ request'[c] = Idle /\ \A d \in Callers : d # c => request'[d] = request[d]
  BY <1>7, EndsOnce DEF CampusRequests
<1>18. CampusesAgree'
  <2> SUFFICES ASSUME Yard \notin raced PROVE PrimaryCampuses' = {main'} \ {NoRow}
    BY <1>17 DEF CampusesAgree, Yard
  <2>1. PrimaryCampuses = {main} \ {NoRow}  BY DEF CampusesAgree, Yard
  <2>2. CASE on  BY <2>1, <2>2, <1>6, <1>7, <1>8, <1>16
  <2>3. CASE ~on  BY <2>1, <2>3, <1>6, <1>7, <1>16
  <2> QED  BY <2>2, <2>3
<1>19. ASSUME NEW d \in Callers PROVE CampusKnows(request[d])'
  <2>1. PICK h : h = request'[d]  OBVIOUS
  <2> SUFFICES CampusKnows(h)'  BY <2>1
  <2>2. CASE h = Idle  BY <2>2 DEF CampusKnows, Idle
  <2>3. CASE h # Idle
    <3>1. d # c /\ h = request[d] /\ CampusKnows(h)  BY <2>1, <2>3, <1>17 DEF CampusRequests
    <3>2. Yard \in h.on  BY <3>1, <2>3 DEF CampusKnows
    <3>3. Yard \in raced  BY <3>1, <3>2, <1>1, <1>6 DEF CampusRequests, OneAtATime
    <3> QED  BY <3>1, <3>3, <1>15, <1>17 DEF CampusKnows, Yard, Idle
  <2> QED  BY <2>2, <2>3
<1> QED  BY <1>14, <1>17, <1>18, <1>19 DEF CampusesInv, CampusRequests

LEMMA CampusGivingUpKeeps ==
  ASSUME CampusesInv, NEW c \in Callers, GivesUp(c), UNCHANGED campuses PROVE CampusesInv'
<1>1. /\ request' = [d \in Callers |-> request'[d]] /\ OneAtATime' /\ raced' = raced
      /\ request'[c] = Idle /\ \A d \in Callers : d # c => request'[d] = request[d]
  BY EndsOnce DEF GivesUp, CampusesInv, CampusRequests
<1>2. PICK g : g = Idle  OBVIOUS
<1>3. CampusKnows(g)  BY <1>2 DEF CampusKnows
<1> QED  BY <1>1, <1>2, <1>3, CampusesRead DEF campuses

LEMMA CampusesStep == ASSUME CampusesInv, CampusesNext PROVE CampusesInv'
BY CreateCampusKeeps, ReadCampusesKeeps DEF CampusesNext

LEMMA CampusesRest == ASSUME CampusesInv, UNCHANGED <<campuses, callers>> PROVE CampusesInv'
<1>1. campus' = campus /\ main' = main /\ request' = request /\ raced' = raced
  BY DEF campuses, callers
<1>2. Created(campus)' = Created(campus) /\ PrimaryCampuses' = PrimaryCampuses
  BY <1>1 DEF Created, PrimaryCampuses
<1>3. CampusRequests'
  BY <1>1, <1>2 DEF CampusesInv, CampusRequests, OneAtATime, CampusKnows, Yard, Idle
<1> QED  BY <1>1, <1>2, <1>3 DEF CampusesInv, CampusesTypeOK, CampusesAgree

-----------------------------------------------------------------------------
\* What is known by a name: classes, subjects, parents.

EntryRow == [name : Names, section : Sections, active : BOOLEAN]
EntryKnows(g) ==
    \/ g = Idle
    \/ g.op = "enter" /\ g.row \in EntryRow
    \/ /\ g.op = "change" /\ g.id \in Entries /\ entry[g.id] \in EntryRow
       /\ g.seen \in EntryRow /\ g.new \in EntryRow
EntriesTypeOK == entry \in [Entries -> EntryRow \cup {NoRow}]
EntryRequests ==
    /\ request = [c \in Callers |-> request[c]] /\ OneAtATime
    /\ \A c \in Callers : EntryKnows(request[c])
EntriesInv == EntriesTypeOK /\ EntryRequests /\ NamesAgree
EntriesEmpty == entry = [x \in Entries |-> NoRow]

LEMMA EntriesRestAgree == ASSUME EntriesEmpty PROVE NamesAgree
<1>1. Created(entry) = {}  BY DEF EntriesEmpty, Created
<1> QED  BY <1>1 DEF NamesAgree

LEMMA EntriesStart == ASSUME HandlersInit, EntriesEmpty PROVE EntriesInv
<1>1. \A c \in Callers : request[c] = Idle /\ EntryKnows(request[c])
  BY DEF EntryKnows, HandlersInit
<1>2. EntryRequests  BY <1>1 DEF EntryRequests, OneAtATime, Idle, HandlersInit
<1> QED  BY <1>2, EntriesRestAgree DEF EntriesInv, EntriesTypeOK, EntriesEmpty

\* Reading, and breaking off, change no row.
LEMMA EntriesRead ==
  ASSUME EntriesInv, NEW c \in Callers, NEW g, entry' = entry,
         request' = [d \in Callers |-> request'[d]], OneAtATime',
         EntryKnows(g), request'[c] = g, \A d \in Callers : d # c => request'[d] = request[d]
  PROVE  EntriesInv'
<1>1. \A h : EntryKnows(h) => EntryKnows(h)'  BY DEF EntryKnows, Idle
<1>2. ASSUME NEW d \in Callers PROVE EntryKnows(request[d])'
  <2>1. PICK h : h = request'[d]  OBVIOUS
  <2>2. EntryKnows(h)  BY <2>1 DEF EntriesInv, EntryRequests
  <2> QED  BY <2>1, <2>2, <1>1
<1>3. NamesAgree'  BY DEF EntriesInv, NamesAgree, Created
<1> QED  BY <1>2, <1>3 DEF EntriesInv, EntriesTypeOK, EntryRequests

LEMMA ReadForEntryKeeps ==
  ASSUME EntriesInv, NEW c \in Callers, NEW n \in Names, NEW s \in Sections,
         ReadForEntry(c, n, s)
  PROVE  EntriesInv'
<1>1. PICK row : row = [name |-> n, section |-> s, active |-> TRUE]  OBVIOUS
<1>2. PICK g : g = [op |-> "enter", on |-> {<<"entries", "school">>}, row |-> row]  OBVIOUS
<1>3. Reads(c, g) /\ entry' = entry  BY <1>1, <1>2 DEF ReadForEntry
<1>4. row \in EntryRow  BY <1>1 DEF EntryRow
<1>5. EntryKnows(g)  BY <1>2, <1>4 DEF EntryKnows
<1>6. /\ request' = [d \in Callers |-> request'[d]] /\ OneAtATime'
      /\ request'[c] = g /\ \A d \in Callers : d # c => request'[d] = request[d]
  BY <1>3, ReadsOnce DEF EntriesInv, EntryRequests
<1> QED  BY <1>3, <1>5, <1>6, EntriesRead

\* Whatever is read to be changed, changing is all that was read for.
LEMMA ReadForChangeKeeps ==
  ASSUME EntriesInv, NEW c \in Callers, NEW x \in Entries, entry[x] # NoRow,
         NEW new \in EntryRow, entry' = entry,
         Reads(c, [op |-> "change", on |-> {<<"entries", "school">>}, id |-> x,
                   seen |-> entry[x], new |-> new])
  PROVE  EntriesInv'
<1>1. PICK g : g = [op |-> "change", on |-> {<<"entries", "school">>}, id |-> x,
                    seen |-> entry[x], new |-> new]
  OBVIOUS
<1>2. entry[x] \in EntryRow  BY DEF EntriesInv, EntriesTypeOK
<1>3. EntryKnows(g)  BY <1>1, <1>2 DEF EntryKnows
<1>4. Reads(c, g)  BY <1>1
<1>5. /\ request' = [d \in Callers |-> request'[d]] /\ OneAtATime'
      /\ request'[c] = g /\ \A d \in Callers : d # c => request'[d] = request[d]
  BY <1>4, ReadsOnce DEF EntriesInv, EntryRequests
<1> QED  BY <1>3, <1>5, EntriesRead

LEMMA ReadForUpdateKeeps ==
  ASSUME EntriesInv, NEW c \in Callers, NEW x \in Entries, NEW n \in Names \cup {None},
         NEW s \in Sections \cup {None}, ReadForUpdate(c, x, n, s)
  PROVE  EntriesInv'
<1>1. PICK new : new = [entry[x] EXCEPT !.name = IF n = None THEN @ ELSE n,
                                        !.section = IF s = None THEN @ ELSE s]
  OBVIOUS
<1>2. /\ entry[x] # NoRow /\ entry' = entry
      /\ Reads(c, [op |-> "change", on |-> {<<"entries", "school">>}, id |-> x,
                   seen |-> entry[x], new |-> new])
  BY <1>1 DEF ReadForUpdate
<1>3. PICK old \in EntryRow : old = entry[x]  BY <1>2 DEF EntriesInv, EntriesTypeOK
<1>4. PICK m \in Names : m = IF n = None THEN old.name ELSE n  BY DEF EntryRow
<1>5. PICK t \in Sections : t = IF s = None THEN old.section ELSE s  BY DEF EntryRow
<1>6. new = [old EXCEPT !.name = m, !.section = t]  BY <1>1, <1>3, <1>4, <1>5
<1>7. new \in EntryRow  BY <1>6 DEF EntryRow
<1> QED  BY <1>2, <1>7, ReadForChangeKeeps

LEMMA ReadForDeletionKeeps ==
  ASSUME EntriesInv, NEW c \in Callers, NEW x \in Entries, ReadForDeletion(c, x)
  PROVE  EntriesInv'
<1>1. PICK old : old = entry[x]  OBVIOUS
<1>2. PICK new : new = [old EXCEPT !.active = FALSE]  OBVIOUS
<1>3. /\ entry[x] # NoRow /\ entry' = entry
      /\ Reads(c, [op |-> "change", on |-> {<<"entries", "school">>}, id |-> x,
                   seen |-> entry[x], new |-> new])
  BY <1>1, <1>2 DEF ReadForDeletion
<1>4. old \in EntryRow  BY <1>1, <1>3 DEF EntriesInv, EntriesTypeOK
<1>5. new \in EntryRow  BY <1>2, <1>4 DEF EntryRow
<1> QED  BY <1>3, <1>5, ReadForChangeKeeps

\* A row that the key of the table lets in.
LEMMA EntryWritten ==
  ASSUME EntriesInv, NEW c \in Callers, NEW x \in Entries, NEW row \in EntryRow,
         KeyHolds(x, row), entry' = [entry EXCEPT ![x] = row], Ends(c)
  PROVE  EntriesInv'
<1> EntriesTypeOK /\ EntryRequests /\ NamesAgree  BY DEF EntriesInv
<1>1. entry' \in [Entries -> EntryRow \cup {NoRow}] /\ entry'[x] = row
      /\ \A y \in Entries : y # x => entry'[y] = entry[y]
  BY DEF EntriesTypeOK
<1>2. DOMAIN entry = Entries /\ DOMAIN entry' = Entries  BY <1>1 DEF EntriesTypeOK
<1>3. NamesAgree'
  <2>1. \A y \in Created(entry) :
           y # x => entry[y].name # row.name \/ entry[y].section # row.section
    BY DEF KeyHolds, Called
  <2>2. \A y \in Created(entry)' : y \in Entries /\ (y # x => y \in Created(entry))
    BY <1>1, <1>2 DEF Created
  <2> SUFFICES ASSUME NEW y \in Created(entry)', NEW z \in Created(entry)', y # z,
                      entry'[y].name = entry'[z].name, entry'[y].section = entry'[z].section
               PROVE  FALSE
    BY DEF NamesAgree
  <2>3. CASE y # x /\ z # x
    <3>1. y \in Created(entry) /\ z \in Created(entry)  BY <2>2, <2>3
    <3>2. entry'[y] = entry[y] /\ entry'[z] = entry[z]  BY <1>1, <2>2, <2>3
    <3> QED  BY <3>1, <3>2 DEF NamesAgree
  <2>4. CASE y = x  BY <1>1, <2>1, <2>2, <2>4
  <2>5. CASE z = x  BY <1>1, <2>1, <2>2, <2>5
  <2> QED  BY <2>3, <2>4, <2>5
<1>4. /\ request' = [d \in Callers |-> request'[d]] /\ OneAtATime'
      /\ request'[c] = Idle /\ \A d \in Callers : d # c => request'[d] = request[d]
  BY EndsOnce DEF EntryRequests
<1>5. \A h : EntryKnows(h) => EntryKnows(h)'  BY <1>1 DEF EntryKnows, Idle
<1>6. ASSUME NEW d \in Callers PROVE EntryKnows(request[d])'
  <2>1. PICK h : h = request'[d]  OBVIOUS
  <2>2. EntryKnows(h)  BY <2>1, <1>4 DEF EntryRequests, EntryKnows
  <2> QED  BY <2>1, <2>2, <1>5
<1> QED  BY <1>1, <1>3, <1>4, <1>6 DEF EntriesInv, EntriesTypeOK, EntryRequests

LEMMA CreateEntryKeeps ==
  ASSUME EntriesInv, NEW c \in Callers, NEW x \in Entries, CreateEntry(c, x) PROVE EntriesInv'
<1>1. PICK g : g = request[c]  OBVIOUS
<1>2. g.op = "enter" /\ EntryKnows(g)
  BY <1>1 DEF CreateEntry, EntriesInv, EntryRequests
<1>3. PICK row \in EntryRow : row = g.row  BY <1>2 DEF EntryKnows, Idle
<1> QED  BY <1>1, <1>3, EntryWritten DEF CreateEntry

LEMMA UpdateEntryKeeps ==
  ASSUME EntriesInv, NEW c \in Callers, UpdateEntry(c) PROVE EntriesInv'
<1>1. PICK g : g = request[c]  OBVIOUS
<1>2. g.op = "change" /\ EntryKnows(g)
  BY <1>1 DEF UpdateEntry, EntriesInv, EntryRequests
<1>3. PICK x \in Entries : x = g.id /\ entry[x] \in EntryRow  BY <1>2 DEF EntryKnows, Idle
<1>4. PICK seen \in EntryRow : seen = g.seen  BY <1>2 DEF EntryKnows, Idle
<1>5. PICK new \in EntryRow : new = g.new  BY <1>2 DEF EntryKnows, Idle
<1>6. PICK row : row = [k \in DOMAIN new |-> Written(entry[x][k], seen[k], new[k])]  OBVIOUS
<1>7. KeyHolds(x, row) /\ entry' = [entry EXCEPT ![x] = row] /\ Ends(c)
  BY <1>1, <1>3, <1>4, <1>5, <1>6 DEF UpdateEntry
<1>8. DOMAIN new = {"name", "section", "active"}  BY DEF EntryRow
<1>9. row = [k \in {"name", "section", "active"} |-> Written(entry[x][k], seen[k], new[k])]
  BY <1>6, <1>8
<1>10. row \in EntryRow  BY <1>3, <1>9 DEF EntryRow, Written
<1> QED  BY <1>7, <1>10, EntryWritten

LEMMA EntriesGivingUpKeeps ==
  ASSUME EntriesInv, NEW c \in Callers, GivesUp(c), UNCHANGED entry PROVE EntriesInv'
<1>1. /\ request' = [d \in Callers |-> request'[d]] /\ OneAtATime'
      /\ request'[c] = Idle /\ \A d \in Callers : d # c => request'[d] = request[d]
  BY EndsOnce DEF GivesUp, EntriesInv, EntryRequests
<1>2. PICK g : g = Idle  OBVIOUS
<1>3. EntryKnows(g)  BY <1>2 DEF EntryKnows
<1> QED  BY <1>1, <1>2, <1>3, EntriesRead

LEMMA EntriesStep == ASSUME EntriesInv, EntriesNext PROVE EntriesInv'
<1>1. CASE \E c \in Callers, n \in Names, s \in Sections : ReadForEntry(c, n, s)
  BY <1>1, ReadForEntryKeeps
<1>2. CASE \E c \in Callers, x \in Entries : CreateEntry(c, x) \/ ReadForDeletion(c, x)
  BY <1>2, CreateEntryKeeps, ReadForDeletionKeeps
<1>3. CASE \E c \in Callers, x \in Entries, n \in Names \cup {None}, s \in Sections \cup {None} :
              ReadForUpdate(c, x, n, s)
  BY <1>3, ReadForUpdateKeeps
<1>4. CASE \E c \in Callers : UpdateEntry(c)  BY <1>4, UpdateEntryKeeps
<1>5. \A c, x, n : UpdateSubject(c, x, n) \/ UpdateParent(c, x, n) => ReadForUpdate(c, x, n, None)
  BY DEF UpdateSubject, UpdateParent
<1> QED  BY <1>1, <1>2, <1>3, <1>4, <1>5 DEF EntriesNext

LEMMA EntriesRest == ASSUME EntriesInv, UNCHANGED <<entry, callers>> PROVE EntriesInv'
<1>1. entry' = entry /\ request' = request /\ raced' = raced  BY DEF callers
<1>2. EntryRequests'
  BY <1>1 DEF EntriesInv, EntryRequests, OneAtATime, EntryKnows, Idle
<1>3. NamesAgree'  BY <1>1 DEF EntriesInv, NamesAgree, Created
<1> QED  BY <1>1, <1>2, <1>3 DEF EntriesInv, EntriesTypeOK

-----------------------------------------------------------------------------
\* The teachers of a class.

TeachRow == [teacher : Teachers, how : {"main", "co"}]
Faculty == <<"teachers", "school">>
\* Whoever assigns the only teacher knows that there is none, or the class is in raced.
TeacherKnows(g) ==
    \/ g = Idle
    \/ /\ g.op = "assign" /\ Faculty \in g.on /\ g.row \in TeachRow
       /\ Faculty \in raced \/ (g.row.how = "main" => Created(teaching) = {})
TeachersTypeOK ==
    /\ teaching \in [Assignments -> TeachRow \cup {NoRow}]
    /\ \A a, b \in Created(teaching) : teaching[a].teacher = teaching[b].teacher => a = b
Leads(a) == teaching[a].how = "main"
OneLeads ==
    Faculty \in raced \/ \A a, b \in Created(teaching) : Leads(a) /\ Leads(b) => a = b
TeacherRequests ==
    /\ request = [c \in Callers |-> request[c]] /\ OneAtATime
    /\ \A c \in Callers : TeacherKnows(request[c])
TeachersInv == TeachersTypeOK /\ TeacherRequests /\ OneLeads
TeachersEmpty == teaching = [a \in Assignments |-> NoRow]

LEMMA TeachersStart == ASSUME HandlersInit, TeachersEmpty PROVE TeachersInv
<1>1. \A c \in Callers : request[c] = Idle /\ TeacherKnows(request[c])
  BY DEF TeacherKnows, HandlersInit
<1>2. TeacherRequests  BY <1>1 DEF TeacherRequests, OneAtATime, Idle, HandlersInit
<1>3. Created(teaching) = {}  BY DEF TeachersEmpty, Created
<1> QED  BY <1>2, <1>3 DEF TeachersInv, TeachersTypeOK, TeachersEmpty, OneLeads

LEMMA TeachersKept == ASSUME TeachersTypeOK, OneLeads PROVE TeachersAgree
<1>1. ASSUME NEW t \in Teachers PROVE Cardinality(Assigned(t)) <= 1
  <2>1. \A a, b \in Assigned(t) : a = b  BY DEF Assigned, TeachersTypeOK
  <2> QED  BY <2>1, AtMostOne
<1>2. ASSUME Faculty \notin raced
      PROVE  Cardinality({a \in Created(teaching) : teaching[a].how = "main"}) <= 1
  <2>1. \A a, b \in {a \in Created(teaching) : teaching[a].how = "main"} : a = b
    BY <1>2 DEF OneLeads, Leads
  <2> QED  BY <2>1, AtMostOne
<1> QED  BY <1>1, <1>2 DEF TeachersAgree, Faculty

LEMMA TeachersRestAgree == ASSUME TeachersEmpty PROVE TeachersAgree
<1>1. Created(teaching) = {}  BY DEF TeachersEmpty, Created
<1> QED  BY <1>1, TeachersKept DEF TeachersTypeOK, TeachersEmpty, OneLeads

\* Reading, breaking off and deleting add no row.
LEMMA TeachersRead ==
  ASSUME TeachersInv, NEW c \in Callers, NEW g,
         teaching' \in [Assignments -> TeachRow \cup {NoRow}],
         \A a \in Assignments : teaching'[a] \in {teaching[a], NoRow},
         raced \subseteq raced', request' = [d \in Callers |-> request'[d]], OneAtATime',
         TeacherKnows(g), request'[c] = g, \A d \in Callers : d # c => request'[d] = request[d]
  PROVE  TeachersInv'
<1> TeachersTypeOK /\ TeacherRequests /\ OneLeads  BY DEF TeachersInv
<1>1. \A a \in Created(teaching)' : a \in Created(teaching) /\ teaching'[a] = teaching[a]
  BY DEF Created, TeachersTypeOK
<1>2. Created(teaching) = {} => Created(teaching)' = {}  BY <1>1
<1>3. \A h : TeacherKnows(h) => TeacherKnows(h)'  BY <1>2 DEF TeacherKnows, Faculty, Idle
<1>4. ASSUME NEW d \in Callers PROVE TeacherKnows(request[d])'
  <2>1. PICK h : h = request'[d]  OBVIOUS
  <2>2. TeacherKnows(h)  BY <2>1 DEF TeacherRequests
  <2> QED  BY <2>1, <2>2, <1>3
<1>5. TeachersTypeOK'  BY <1>1 DEF TeachersTypeOK
<1>6. OneLeads'  BY <1>1 DEF OneLeads, Leads, Faculty
<1> QED  BY <1>4, <1>5, <1>6 DEF TeachersInv, TeacherRequests

LEMMA ReadTeachersKeeps ==
  ASSUME TeachersInv, NEW c \in Callers, NEW t \in Teachers, NEW how \in {"main", "co"},
         ReadTeachers(c, t, how)
  PROVE  TeachersInv'
<1>1. PICK row : row = [teacher |-> t, how |-> how]  OBVIOUS
<1>2. PICK g : g = [op |-> "assign", on |-> {Faculty}, row |-> row]  OBVIOUS
<1>3. Reads(c, g) /\ teaching' = teaching /\ (how = "main" => Created(teaching) = {})
  BY <1>1, <1>2 DEF ReadTeachers, Faculty
<1>4. row \in TeachRow /\ row.how = how  BY <1>1 DEF TeachRow
<1>5. g.op = "assign" /\ Faculty \in g.on /\ g.row = row  BY <1>2
<1>6. TeacherKnows(g)  BY <1>3, <1>4, <1>5 DEF TeacherKnows
<1>7. /\ request' = [d \in Callers |-> request'[d]] /\ OneAtATime' /\ raced \subseteq raced'
      /\ request'[c] = g /\ \A d \in Callers : d # c => request'[d] = request[d]
  BY <1>3, ReadsOnce DEF TeachersInv, TeacherRequests
<1>8. teaching' \in [Assignments -> TeachRow \cup {NoRow}]
  BY <1>3 DEF TeachersInv, TeachersTypeOK
<1> QED  BY <1>3, <1>6, <1>7, <1>8, TeachersRead

LEMMA AssignTeacherKeeps ==
  ASSUME TeachersInv, NEW c \in Callers, NEW a \in Assignments, AssignTeacher(c, a)
  PROVE  TeachersInv'
<1> TeachersTypeOK /\ TeacherRequests /\ OneLeads  BY DEF TeachersInv
<1>1. PICK g : g = request[c]  OBVIOUS
<1>2. g.op = "assign" /\ TeacherKnows(g) /\ g # Idle
  BY <1>1 DEF AssignTeacher, TeacherRequests, Idle
<1>3. PICK row \in TeachRow : row = g.row  BY <1>2 DEF TeacherKnows
<1>4. Faculty \in g.on /\ (Faculty \in raced \/ (row.how = "main" => Created(teaching) = {}))
  BY <1>2, <1>3 DEF TeacherKnows
<1>5. /\ teaching[a] = NoRow /\ Assigned(row.teacher) = {}
      /\ teaching' = [teaching EXCEPT ![a] = row] /\ Ends(c)
  BY <1>1, <1>3 DEF AssignTeacher
<1>6. /\ teaching' \in [Assignments -> TeachRow \cup {NoRow}] /\ teaching'[a] = row
      /\ \A b \in Assignments : b # a => teaching'[b] = teaching[b]
  BY <1>5 DEF TeachersTypeOK
<1>7. \A b \in Created(teaching)' :
         b = a \/ (b \in Created(teaching) /\ teaching'[b] = teaching[b])
  BY <1>6 DEF TeachersTypeOK, Created
<1>8. /\ request' = [d \in Callers |-> request'[d]] /\ OneAtATime' /\ raced' = raced
      /\ request'[c] = Idle /\ \A d \in Callers : d # c => request'[d] = request[d]
  BY <1>5, EndsOnce DEF TeacherRequests
<1>9. \A b \in Created(teaching) : teaching[b].teacher # row.teacher  BY <1>5 DEF Assigned
<1>10. TeachersTypeOK'
  <2> SUFFICES ASSUME NEW b \in Created(teaching)', NEW d \in Created(teaching)',
                      teaching'[b].teacher = teaching'[d].teacher
               PROVE  b = d
    BY <1>6 DEF TeachersTypeOK
  <2>1. CASE b = a  BY <2>1, <1>6, <1>7, <1>9
  <2>2. CASE d = a  BY <2>2, <1>6, <1>7, <1>9
  <2>3. CASE b # a /\ d # a
    <3>1. /\ b \in Created(teaching) /\ d \in Created(teaching)
          /\ teaching[b].teacher = teaching[d].teacher
      BY <2>3, <1>7
    <3> QED  BY <3>1 DEF TeachersTypeOK
  <2> QED  BY <2>1, <2>2, <2>3
<1>11. OneLeads'
  <2> SUFFICES ASSUME Faculty \notin raced, NEW b \in Created(teaching)',
                      NEW d \in Created(teaching)', teaching'[b].how = "main",
                      teaching'[d].how = "main"
               PROVE  b = d
    BY <1>8 DEF OneLeads, Leads, Faculty
  <2>1. CASE row.how = "main"  BY <2>1, <1>4, <1>7
  <2>2. CASE row.how # "main"
    <3>1. /\ b \in Created(teaching) /\ d \in Created(teaching) /\ Leads(b) /\ Leads(d)
      BY <2>2, <1>6, <1>7 DEF Leads
    <3> QED  BY <3>1 DEF OneLeads
  <2> QED  BY <2>1, <2>2
<1>12. ASSUME NEW d \in Callers PROVE TeacherKnows(request[d])'
  <2>1. PICK h : h = request'[d]  OBVIOUS
  <2> SUFFICES TeacherKnows(h)'  BY <2>1
  <2>2. CASE h = Idle  BY <2>2 DEF TeacherKnows, Idle
  <2>3. CASE h # Idle
    <3>1. d # c /\ h = request[d] /\ TeacherKnows(h)  BY <2>1, <2>3, <1>8 DEF TeacherRequests
    <3>2. Faculty \in h.on  BY <3>1, <2>3 DEF TeacherKnows
    <3>3. Faculty \in raced  BY <3>1, <3>2, <1>1, <1>4 DEF TeacherRequests, OneAtATime
    <3> QED  BY <3>1, <3>3, <1>8 DEF TeacherKnows, Faculty, Idle
  <2> QED  BY <2>2, <2>3
<1> QED  BY <1>8, <1>10, <1>11, <1>12 DEF TeachersInv, TeacherRequests

LEMMA DeleteClassTeacherKeeps ==
  ASSUME TeachersInv, NEW a \in Assignments, DeleteClassTeacher(a) PROVE TeachersInv'
<1> TeachersTypeOK /\ TeacherRequests /\ OneLeads  BY DEF TeachersInv
<1>1. /\ teaching' = [teaching EXCEPT ![a] = NoRow] /\ request' = request /\ raced' = raced
  BY DEF DeleteClassTeacher, callers
<1>2. /\ teaching' \in [Assignments -> TeachRow \cup {NoRow}]
      /\ \A b \in Assignments : teaching'[b] \in {teaching[b], NoRow}
  BY <1>1 DEF TeachersTypeOK
<1>3. \A b \in Created(teaching)' : b \in Created(teaching) /\ teaching'[b] = teaching[b]
  BY <1>2 DEF Created, TeachersTypeOK
<1>4. Created(teaching) = {} => Created(teaching)' = {}  BY <1>3
<1>5. TeacherRequests'
  BY <1>1, <1>4 DEF TeacherRequests, OneAtATime, TeacherKnows, Faculty, Idle
<1>6. TeachersTypeOK'  BY <1>2, <1>3 DEF TeachersTypeOK
<1>7. OneLeads'  BY <1>1, <1>3 DEF OneLeads, Leads, Faculty
<1> QED  BY <1>5, <1>6, <1>7 DEF TeachersInv

LEMMA TeachersGivingUpKeeps ==
  ASSUME TeachersInv, NEW c \in Callers, GivesUp(c), UNCHANGED teaching PROVE TeachersInv'
<1>1. /\ request' = [d \in Callers |-> request'[d]] /\ OneAtATime' /\ raced' = raced
      /\ request'[c] = Idle /\ \A d \in Callers : d # c => request'[d] = request[d]
  BY EndsOnce DEF GivesUp, TeachersInv, TeacherRequests
<1>2. PICK g : g = Idle  OBVIOUS
<1>3. TeacherKnows(g)  BY <1>2 DEF TeacherKnows
<1>4. teaching' \in [Assignments -> TeachRow \cup {NoRow}]
  BY DEF TeachersInv, TeachersTypeOK
<1> QED  BY <1>1, <1>2, <1>3, <1>4, TeachersRead

LEMMA TeachersStep == ASSUME TeachersInv, TeachersNext PROVE TeachersInv'
BY AssignTeacherKeeps, DeleteClassTeacherKeeps, ReadTeachersKeeps DEF TeachersNext

LEMMA TeachersRest == ASSUME TeachersInv, UNCHANGED <<teaching, callers>> PROVE TeachersInv'
<1>1. teaching' = teaching /\ request' = request /\ raced' = raced  BY DEF callers
<1>2. Created(teaching)' = Created(teaching)  BY <1>1 DEF Created
<1>3. TeacherRequests'
  BY <1>1, <1>2 DEF TeachersInv, TeacherRequests, OneAtATime, TeacherKnows, Faculty, Idle
<1> QED  BY <1>1, <1>2, <1>3 DEF TeachersInv, TeachersTypeOK, OneLeads, Leads, Faculty

-----------------------------------------------------------------------------
\* Logins of students.

LoginOf(s) == <<"login", s>>
\* Whoever links a login read that the student had none, or this one, and that is still so, or
\* the student is in raced.
LoginKnows(g) ==
    \/ g = Idle
    \/ /\ g.op = "link" /\ g.student \in Pupils /\ g.login \in Logins
       /\ LoginOf(g.student) \in g.on /\ g.seen \in {NoRow, g.login}
       /\ LoginOf(g.student) \in raced \/ g.seen = login[g.student]
LoginsTypeOK ==
    login \in [Pupils -> Logins \cup {NoRow}] /\ firstLogin \in [Pupils -> Logins \cup {NoRow}]
LoginRequests ==
    /\ request = [c \in Callers |-> request[c]] /\ OneAtATime
    /\ \A c \in Callers : LoginKnows(request[c])
LoginsInv == LoginsTypeOK /\ LoginRequests /\ LoginsAgree
LoginsEmpty ==
    login = [s \in Pupils |-> NoRow] /\ firstLogin = [s \in Pupils |-> NoRow]

LEMMA LoginsRestAgree == ASSUME LoginsEmpty PROVE LoginsAgree
BY DEF LoginsEmpty, LoginsAgree

LEMMA LoginsStart == ASSUME HandlersInit, LoginsEmpty PROVE LoginsInv
<1>1. \A c \in Callers : request[c] = Idle /\ LoginKnows(request[c])
  BY DEF LoginKnows, HandlersInit
<1>2. LoginRequests  BY <1>1 DEF LoginRequests, OneAtATime, Idle, HandlersInit
<1> QED  BY <1>2, LoginsRestAgree DEF LoginsInv, LoginsTypeOK, LoginsEmpty

\* Reading, and breaking off, change no row.
LEMMA LoginsRead ==
  ASSUME LoginsInv, NEW c \in Callers, NEW g, login' = login, firstLogin' = firstLogin,
         raced \subseteq raced', request' = [d \in Callers |-> request'[d]], OneAtATime',
         LoginKnows(g), request'[c] = g, \A d \in Callers : d # c => request'[d] = request[d]
  PROVE  LoginsInv'
<1>1. \A h : LoginKnows(h) => LoginKnows(h)'  BY DEF LoginKnows, LoginOf, Idle
<1>2. ASSUME NEW d \in Callers PROVE LoginKnows(request[d])'
  <2>1. PICK h : h = request'[d]  OBVIOUS
  <2>2. LoginKnows(h)  BY <2>1 DEF LoginsInv, LoginRequests
  <2> QED  BY <2>1, <2>2, <1>1
<1>3. LoginsAgree'  BY DEF LoginsInv, LoginsAgree
<1> QED  BY <1>2, <1>3 DEF LoginsInv, LoginsTypeOK, LoginRequests

LEMMA ReadStudentKeeps ==
  ASSUME LoginsInv, NEW c \in Callers, NEW s \in Pupils, NEW u \in Logins, ReadStudent(c, s, u)
  PROVE  LoginsInv'
<1>1. PICK g : g = [op |-> "link", on |-> {LoginOf(s)},
                    student |-> s, seen |-> login[s], login |-> u]
  OBVIOUS
<1>2. Reads(c, g) /\ login' = login /\ firstLogin' = firstLogin /\ login[s] \in {NoRow, u}
  BY <1>1 DEF ReadStudent, logins, LoginOf, Linkable
<1>3. /\ g.op = "link" /\ g.student = s /\ g.login = u /\ LoginOf(s) \in g.on
      /\ g.seen = login[s]
  BY <1>1
<1>4. LoginKnows(g)  BY <1>2, <1>3 DEF LoginKnows
<1>5. /\ request' = [d \in Callers |-> request'[d]] /\ OneAtATime' /\ raced \subseteq raced'
      /\ request'[c] = g /\ \A d \in Callers : d # c => request'[d] = request[d]
  BY <1>2, ReadsOnce DEF LoginsInv, LoginRequests
<1> QED  BY <1>2, <1>4, <1>5, LoginsRead

LEMMA LinkStudentUserKeeps ==
  ASSUME LoginsInv, NEW c \in Callers, LinkStudentUser(c) PROVE LoginsInv'
<1> LoginsTypeOK /\ LoginRequests /\ LoginsAgree  BY DEF LoginsInv
<1>1. PICK g : g = request[c]  OBVIOUS
<1>2. g.op = "link" /\ LoginKnows(g) /\ g # Idle
  BY <1>1 DEF LinkStudentUser, LoginRequests, Idle
<1>3. PICK s \in Pupils : s = g.student  BY <1>2 DEF LoginKnows
<1>4. PICK u \in Logins : u = g.login  BY <1>2 DEF LoginKnows
<1>5. PICK seen \in {NoRow, u} : seen = g.seen  BY <1>2, <1>4 DEF LoginKnows
<1>6. LoginOf(s) \in g.on /\ (LoginOf(s) \in raced \/ seen = login[s])
  BY <1>2, <1>3, <1>5 DEF LoginKnows
<1>7. PICK now : now = Written(login[s], seen, u)  OBVIOUS
<1>8. /\ \A t \in Pupils \ {s} : login[t] # now
      /\ login' = [login EXCEPT ![s] = now]
      /\ firstLogin' = [firstLogin EXCEPT ![s] = IF @ = NoRow THEN now ELSE @]
      /\ Ends(c)
  BY <1>1, <1>3, <1>4, <1>5, <1>7 DEF LinkStudentUser
<1>9. now \in Logins \cup {NoRow}  BY <1>7 DEF Written, LoginsTypeOK
<1>10. LoginsTypeOK'  BY <1>8, <1>9 DEF LoginsTypeOK
<1>11. /\ login'[s] = now /\ \A t \in Pupils : t # s => login'[t] = login[t]
       /\ firstLogin'[s] = (IF firstLogin[s] = NoRow THEN now ELSE firstLogin[s])
       /\ \A t \in Pupils : t # s => firstLogin'[t] = firstLogin[t]
  BY <1>8 DEF LoginsTypeOK
<1>12. /\ request' = [d \in Callers |-> request'[d]] /\ OneAtATime' /\ raced' = raced
       /\ request'[c] = Idle /\ \A d \in Callers : d # c => request'[d] = request[d]
  BY <1>8, EndsOnce DEF LoginRequests
<1>13. LoginsAgree'
  <2>1. ASSUME NEW t \in Pupils, NEW z \in Pupils \ {t}
        PROVE  login'[t] = NoRow \/ login'[t] # login'[z]
    <3>1. CASE t = s  BY <3>1, <1>8, <1>11
    <3>2. CASE z = s  BY <3>2, <1>8, <1>11
    <3>3. CASE t # s /\ z # s  BY <3>3, <1>11 DEF LoginsAgree
    <3> QED  BY <3>1, <3>2, <3>3
  <2>2. ASSUME NEW t \in Pupils, LoginOf(t) \notin raced PROVE login'[t] = firstLogin'[t]
    <3>1. login[t] = firstLogin[t]  BY <2>2 DEF LoginsAgree, LoginOf
    <3>2. CASE t = s  BY <3>1, <3>2, <2>2, <1>6, <1>7, <1>11 DEF Written
    <3>3. CASE t # s  BY <3>1, <3>3, <1>11
    <3> QED  BY <3>2, <3>3
  <2> QED  BY <2>1, <2>2, <1>12 DEF LoginsAgree, LoginOf
<1>14. ASSUME NEW d \in Callers PROVE LoginKnows(request[d])'
  <2>1. PICK h : h = request'[d]  OBVIOUS
  <2> SUFFICES LoginKnows(h)'  BY <2>1
  <2>2. CASE h = Idle  BY <2>2 DEF LoginKnows, Idle
  <2>3. CASE h # Idle
    <3>1. d # c /\ h = request[d] /\ LoginKnows(h)  BY <2>1, <2>3, <1>12 DEF LoginRequests
    <3>2. PICK t \in Pupils : t = h.student  BY <3>1, <2>3 DEF LoginKnows
    <3>3. CASE t = s
      <4>1. LoginOf(s) \in h.on  BY <3>1, <3>2, <3>3, <2>3 DEF LoginKnows
      <4>2. LoginOf(s) \in raced  BY <3>1, <4>1, <1>1, <1>6 DEF LoginRequests, OneAtATime
      <4> QED  BY <3>1, <3>2, <3>3, <4>2, <1>12 DEF LoginKnows, LoginOf, Idle
    <3>4. CASE t # s  BY <3>1, <3>2, <3>4, <1>11, <1>12 DEF LoginKnows, LoginOf, Idle
    <3> QED  BY <3>3, <3>4
  <2> QED  BY <2>2, <2>3
<1> QED  BY <1>10, <1>12, <1>13, <1>14 DEF LoginsInv, LoginRequests

LEMMA LoginsGivingUpKeeps ==
  ASSUME LoginsInv, NEW c \in Callers, GivesUp(c), UNCHANGED logins PROVE LoginsInv'
<1>1. /\ request' = [d \in Callers |-> request'[d]] /\ OneAtATime' /\ raced' = raced
      /\ request'[c] = Idle /\ \A d \in Callers : d # c => request'[d] = request[d]
  BY EndsOnce DEF GivesUp, LoginsInv, LoginRequests
<1>2. PICK g : g = Idle  OBVIOUS
<1>3. LoginKnows(g)  BY <1>2 DEF LoginKnows
<1> QED  BY <1>1, <1>2, <1>3, LoginsRead DEF logins

LEMMA LoginsStep == ASSUME LoginsInv, LoginsNext PROVE LoginsInv'
BY LinkStudentUserKeeps, ReadStudentKeeps DEF LoginsNext

LEMMA LoginsRest == ASSUME LoginsInv, UNCHANGED <<logins, callers>> PROVE LoginsInv'
<1>1. login' = login /\ firstLogin' = firstLogin /\ request' = request /\ raced' = raced
  BY DEF logins, callers
<1>2. LoginRequests'
  BY <1>1 DEF LoginsInv, LoginRequests, OneAtATime, LoginKnows, LoginOf, Idle
<1> QED  BY <1>1, <1>2 DEF LoginsInv, LoginsTypeOK, LoginsAgree

-----------------------------------------------------------------------------
\* Invitations of teachers.

RequestsInv == waiting \in [Mails -> Nat] /\ RequestsAgree
RequestsEmpty == waiting = [e \in Mails |-> 0] /\ twice = {}

LEMMA RequestsStart == ASSUME RequestsEmpty PROVE RequestsInv
BY DEF RequestsEmpty, RequestsInv, RequestsAgree

LEMMA TimesCounts == ASSUME NEW e, NEW a, NEW b PROVE Times(e, <<a, b>>) \in Nat
<1>1. PICK S : S = {i \in DOMAIN <<a, b>> : <<a, b>>[i] = e}  OBVIOUS
<1>2. S \subseteq 1..2
  <2>1. DOMAIN <<a, b>> = 1..2  OBVIOUS
  <2> QED  BY <1>1, <2>1
<1>3. IsFiniteSet(S)
  <2>1. 1 \in Int /\ 2 \in Int  OBVIOUS
  <2>2. IsFiniteSet(1..2)  BY ONLY <2>1, FS_Interval, Zenon
  <2> QED  BY <1>2, <2>2, FS_Subset
<1>4. Cardinality(S) \in Nat  BY <1>3, FS_CardinalityType
<1> QED  BY <1>1, <1>4 DEF Times

LEMMA ImportKeeps ==
  ASSUME RequestsInv, NEW a \in Mails, NEW b \in Mails, ImportTeachers(<<a, b>>)
  PROVE  RequestsInv'
<1>1. /\ waiting' = [e \in Mails |->
            waiting[e] + IF Queued(e) THEN Times(e, <<a, b>>) ELSE 0]
      /\ twice' = twice \cup {e \in Mails : Times(e, <<a, b>>) > 1}
  BY DEF ImportTeachers
<1>2. ASSUME NEW e \in Mails PROVE waiting'[e] \in Nat /\ (e \in twice' \/ waiting'[e] <= 1)
  <2>1. waiting[e] \in Nat /\ (e \in twice \/ waiting[e] <= 1)
    BY DEF RequestsInv, RequestsAgree
  <2>2. PICK n \in Nat : n = Times(e, <<a, b>>)  BY TimesCounts
  <2>3. CASE waiting[e] = 0
    <3>1. waiting'[e] = n  BY <1>1, <2>2, <2>3 DEF Queued
    <3>2. n > 1 => e \in twice'  BY <1>1, <2>2
    <3> QED  BY <3>1, <3>2
  <2>4. CASE waiting[e] # 0
    <3>1. waiting'[e] = waiting[e]  BY <1>1, <2>1, <2>4 DEF Queued
    <3> QED  BY <3>1, <1>1, <2>1
  <2> QED  BY <2>3, <2>4
<1> QED  BY <1>1, <1>2 DEF RequestsInv, RequestsAgree

LEMMA RequestsStep == ASSUME RequestsInv, RequestsNext PROVE RequestsInv'
<1>1. ASSUME NEW e \in Mails, DispatchRequest(e) PROVE RequestsInv'
  BY <1>1 DEF RequestsInv, RequestsAgree, DispatchRequest
<1> QED  BY <1>1, ImportKeeps DEF RequestsNext

LEMMA RequestsRest == ASSUME RequestsInv, UNCHANGED requests PROVE RequestsInv'
BY DEF RequestsInv, RequestsAgree, requests

-----------------------------------------------------------------------------
\* Where the school is.

PlaceRow == [province : Provinces \cup {None}, district : Districts \cup {None}]
Site == <<"place", "school">>
\* Whoever moves the school knows where it was, or the place is in raced; what was not sent is
\* what was read, and a district that was sent lies in the province.
PlaceKnows(g) ==
    \/ g = Idle
    \/ /\ g.op = "relocate" /\ Site \in g.on /\ g.seen \in PlaceRow /\ g.new \in PlaceRow
       /\ ~g.moves => g.new.province = g.seen.province
       /\ ~g.settles => g.new.district = g.seen.district
       /\ g.settles => InProvince(g.new, g.seen)
       /\ Site \in raced \/ g.seen = place
PlaceRequests ==
    /\ request = [c \in Callers |-> request[c]] /\ OneAtATime
    /\ \A c \in Callers : PlaceKnows(request[c])
PlaceInv == place \in PlaceRow /\ PlaceRequests /\ PlaceAgrees
PlaceEmpty == place = [province |-> None, district |-> None] /\ strayed = FALSE

LEMMA PlaceRestAgrees == ASSUME PlaceEmpty PROVE PlaceAgrees
BY DEF PlaceEmpty, PlaceAgrees

LEMMA PlaceStarts == ASSUME HandlersInit, PlaceEmpty PROVE PlaceInv
<1>1. \A c \in Callers : request[c] = Idle /\ PlaceKnows(request[c])
  BY DEF PlaceKnows, HandlersInit
<1>2. PlaceRequests  BY <1>1 DEF PlaceRequests, OneAtATime, Idle, HandlersInit
<1>3. place \in PlaceRow  BY DEF PlaceEmpty, PlaceRow
<1> QED  BY <1>2, <1>3, PlaceRestAgrees DEF PlaceInv

\* Reading, and breaking off, move nothing.
LEMMA PlaceRead ==
  ASSUME PlaceInv, NEW c \in Callers, NEW g, place' = place, strayed' = strayed,
         raced \subseteq raced', request' = [d \in Callers |-> request'[d]], OneAtATime',
         PlaceKnows(g), request'[c] = g, \A d \in Callers : d # c => request'[d] = request[d]
  PROVE  PlaceInv'
<1>1. \A h : PlaceKnows(h) => PlaceKnows(h)'  BY DEF PlaceKnows, Site, Idle
<1>2. ASSUME NEW d \in Callers PROVE PlaceKnows(request[d])'
  <2>1. PICK h : h = request'[d]  OBVIOUS
  <2>2. PlaceKnows(h)  BY <2>1 DEF PlaceInv, PlaceRequests
  <2> QED  BY <2>1, <2>2, <1>1
<1>3. PlaceAgrees'  BY DEF PlaceInv, PlaceAgrees
<1> QED  BY <1>2, <1>3 DEF PlaceInv, PlaceRequests

LEMMA ReadSchoolKeeps ==
  ASSUME PlaceInv, NEW c \in Callers, NEW p \in Provinces \cup {None},
         NEW d \in Districts \cup {None}, ReadSchool(c, p, d)
  PROVE  PlaceInv'
<1>1. PICK new : new = [province |-> IF p = None THEN place.province ELSE p,
                        district |-> IF d = None THEN place.district ELSE d]
  OBVIOUS
<1>2. PICK moves \in BOOLEAN : moves = (p # None)  OBVIOUS
<1>3. PICK settles \in BOOLEAN : settles = (d # None)  OBVIOUS
<1>4. PICK g : g = [op |-> "relocate", on |-> {Site}, seen |-> place, new |-> new,
                    moves |-> moves, settles |-> settles]
  OBVIOUS
<1>5. /\ Reads(c, g) /\ place' = place /\ strayed' = strayed
      /\ d # None => InProvince(new, place)
  BY <1>1, <1>2, <1>3, <1>4 DEF ReadSchool, geo, Site
<1>6. /\ g.op = "relocate" /\ Site \in g.on /\ g.seen = place /\ g.new = new
      /\ g.moves = moves /\ g.settles = settles
  BY <1>4
<1>7. place \in PlaceRow  BY DEF PlaceInv
<1>8. new \in PlaceRow  BY <1>1, <1>7 DEF PlaceRow
<1>9. /\ ~moves => new.province = place.province
      /\ ~settles => new.district = place.district
  BY <1>1, <1>2, <1>3
<1>10. PlaceKnows(g)  BY <1>3, <1>5, <1>6, <1>7, <1>8, <1>9 DEF PlaceKnows
<1>11. /\ request' = [e \in Callers |-> request'[e]] /\ OneAtATime' /\ raced \subseteq raced'
       /\ request'[c] = g /\ \A e \in Callers : e # c => request'[e] = request[e]
  BY <1>5, ReadsOnce DEF PlaceInv, PlaceRequests
<1> QED  BY <1>5, <1>10, <1>11, PlaceRead

LEMMA UpdateSchoolGeoKeeps ==
  ASSUME PlaceInv, NEW c \in Callers, UpdateSchoolGeo(c) PROVE PlaceInv'
<1> place \in PlaceRow /\ PlaceRequests /\ PlaceAgrees  BY DEF PlaceInv
<1>1. PICK g : g = request[c]  OBVIOUS
<1>2. g.op = "relocate" /\ PlaceKnows(g) /\ g # Idle
  BY <1>1 DEF UpdateSchoolGeo, PlaceRequests, Idle
<1>3. PICK seen \in PlaceRow : seen = g.seen  BY <1>2 DEF PlaceKnows
<1>4. PICK new \in PlaceRow : new = g.new  BY <1>2 DEF PlaceKnows
<1>5. /\ Site \in g.on
      /\ ~g.moves => new.province = seen.province
      /\ ~g.settles => new.district = seen.district
      /\ g.settles => InProvince(new, seen)
      /\ Site \in raced \/ seen = place
  BY <1>2, <1>3, <1>4 DEF PlaceKnows
<1>6. /\ place' = [k \in DOMAIN place |-> Written(place[k], seen[k], new[k])]
      /\ strayed' = (~g.settles /\ (strayed \/ g.moves)) /\ Ends(c)
  BY <1>1, <1>3, <1>4 DEF UpdateSchoolGeo
<1>7. DOMAIN place = {"province", "district"}  BY DEF PlaceRow
<1>8. place' = [k \in {"province", "district"} |-> Written(place[k], seen[k], new[k])]
  BY <1>6, <1>7
<1>9. place' \in PlaceRow  BY <1>8 DEF PlaceRow, Written
<1>10. seen = place =>
          place'.province = new.province /\ place'.district = new.district
  BY <1>8 DEF Written
<1>11. /\ request' = [d \in Callers |-> request'[d]] /\ OneAtATime' /\ raced' = raced
       /\ request'[c] = Idle /\ \A d \in Callers : d # c => request'[d] = request[d]
  BY <1>6, EndsOnce DEF PlaceRequests
<1>12. PlaceAgrees'
  <2> SUFFICES ASSUME Site \notin raced, ~strayed'
               PROVE  \/ place'.province = None \/ place'.district = None
                      \/ place'.district[1] = place'.province
    BY <1>11 DEF PlaceAgrees, Site
  <2>1. seen = place  BY <1>5
  <2>2. CASE g.settles  BY <2>1, <2>2, <1>5, <1>10 DEF InProvince
  <2>3. CASE ~g.settles
    <3>1. ~strayed /\ ~g.moves  BY <2>3, <1>6
    <3>2. place'.province = place.province /\ place'.district = place.district
      BY <3>1, <2>1, <2>3, <1>5, <1>10
    <3> QED  BY <3>1, <3>2 DEF PlaceAgrees, Site
  <2> QED  BY <2>2, <2>3
<1>13. ASSUME NEW d \in Callers PROVE PlaceKnows(request[d])'
  <2>1. PICK h : h = request'[d]  OBVIOUS
  <2> SUFFICES PlaceKnows(h)'  BY <2>1
  <2>2. CASE h = Idle  BY <2>2 DEF PlaceKnows, Idle
  <2>3. CASE h # Idle
    <3>1. d # c /\ h = request[d] /\ PlaceKnows(h)  BY <2>1, <2>3, <1>11 DEF PlaceRequests
    <3>2. Site \in h.on  BY <3>1, <2>3 DEF PlaceKnows
    <3>3. Site \in raced  BY <3>1, <3>2, <1>1, <1>5 DEF PlaceRequests, OneAtATime
    <3> QED  BY <3>1, <3>3, <1>11 DEF PlaceKnows, Site, Idle
  <2> QED  BY <2>2, <2>3
<1> QED  BY <1>9, <1>11, <1>12, <1>13 DEF PlaceInv, PlaceRequests

LEMMA PlaceGivingUpKeeps ==
  ASSUME PlaceInv, NEW c \in Callers, GivesUp(c), UNCHANGED geo PROVE PlaceInv'
<1>1. /\ request' = [d \in Callers |-> request'[d]] /\ OneAtATime' /\ raced' = raced
      /\ request'[c] = Idle /\ \A d \in Callers : d # c => request'[d] = request[d]
  BY EndsOnce DEF GivesUp, PlaceInv, PlaceRequests
<1>2. PICK g : g = Idle  OBVIOUS
<1>3. PlaceKnows(g)  BY <1>2 DEF PlaceKnows
<1> QED  BY <1>1, <1>2, <1>3, PlaceRead DEF geo

LEMMA PlaceStep == ASSUME PlaceInv, PlaceNext PROVE PlaceInv'
BY UpdateSchoolGeoKeeps, ReadSchoolKeeps DEF PlaceNext

LEMMA PlaceRests == ASSUME PlaceInv, UNCHANGED <<geo, callers>> PROVE PlaceInv'
<1>1. place' = place /\ strayed' = strayed /\ request' = request /\ raced' = raced
  BY DEF geo, callers
<1>2. PlaceRequests'
  BY <1>1 DEF PlaceInv, PlaceRequests, OneAtATime, PlaceKnows, Site, Idle
<1> QED  BY <1>1, <1>2 DEF PlaceInv, PlaceAgrees

-----------------------------------------------------------------------------
\* The day a school goes live.

Button == <<"live", "school">>
\* The checks before n passed when they were asked, and pass still or lapsed.
PassedBefore(n) == \A i \in 1..7 : i < n => CHECKS[i] \in passing \cup lapsed
GoLiveKnows(g) ==
    \/ g = Idle
    \/ /\ g.op = "check" /\ Button \in g.on /\ PassedBefore(g.at)
       /\ "at" \in DOMAIN g /\ g.at \in 1..8
       /\ Button \in raced \/ live = 0
GoLiveRequests ==
    /\ request = [c \in Callers |-> request[c]] /\ OneAtATime
    /\ \A c \in Callers : GoLiveKnows(request[c])
GoLiveInv ==
    /\ live \in Nat /\ GoLiveRequests
    /\ (live > 0 => PassedBefore(8)) /\ (live <= 1 \/ Button \in raced)
GoLiveEmpty == passing = {} /\ lapsed = {} /\ live = 0

LEMMA SevenChecks == Len(CHECKS) = 7 /\ DOMAIN CHECKS = 1..7
BY DEF CHECKS

LEMMA GoLiveRestAgrees == ASSUME GoLiveEmpty PROVE GoLiveAgrees
BY DEF GoLiveEmpty, GoLiveAgrees

LEMMA GoLiveStarts == ASSUME HandlersInit, GoLiveEmpty PROVE GoLiveInv
<1>1. \A c \in Callers : request[c] = Idle /\ GoLiveKnows(request[c])
  BY DEF GoLiveKnows, HandlersInit
<1>2. GoLiveRequests  BY <1>1 DEF GoLiveRequests, OneAtATime, Idle, HandlersInit
<1> QED  BY <1>2 DEF GoLiveInv, GoLiveEmpty

LEMMA GoLiveKept == ASSUME GoLiveInv PROVE GoLiveAgrees
BY SevenChecks DEF GoLiveInv, GoLiveAgrees, PassedBefore, Button

\* What passed when it was asked passes still or lapsed, and the school is as it was.
LEMMA GoLiveRead ==
  ASSUME GoLiveInv, NEW c \in Callers, NEW g, passing \cup lapsed \subseteq passing' \cup lapsed',
         live' = live,
         raced \subseteq raced', request' = [d \in Callers |-> request'[d]], OneAtATime',
         GoLiveKnows(g), request'[c] = g, \A d \in Callers : d # c => request'[d] = request[d]
  PROVE  GoLiveInv'
<1>1. \A n : PassedBefore(n) => PassedBefore(n)'  BY DEF PassedBefore
<1>2. \A h : GoLiveKnows(h) => GoLiveKnows(h)'  BY <1>1 DEF GoLiveKnows, Button, Idle
<1>3. ASSUME NEW d \in Callers PROVE GoLiveKnows(request[d])'
  <2>1. PICK h : h = request'[d]  OBVIOUS
  <2>2. GoLiveKnows(h)  BY <2>1 DEF GoLiveInv, GoLiveRequests
  <2> QED  BY <2>1, <2>2, <1>2
<1> QED  BY <1>1, <1>3 DEF GoLiveInv, GoLiveRequests, Button

LEMMA ReadForGoLiveKeeps ==
  ASSUME GoLiveInv, NEW c \in Callers, ReadForGoLive(c) PROVE GoLiveInv'
<1>1. PICK g : g = [op |-> "check", on |-> {Button}, at |-> 1]  OBVIOUS
<1>2. Reads(c, g) /\ live = 0 /\ passing' = passing /\ lapsed' = lapsed /\ live' = live
  BY <1>1 DEF ReadForGoLive, golive, Button
<1>3. g.op = "check" /\ Button \in g.on /\ g.at = 1 /\ "at" \in DOMAIN g  BY <1>1
<1>4. PassedBefore(1)  BY DEF PassedBefore
<1>5. GoLiveKnows(g)  BY <1>2, <1>3, <1>4 DEF GoLiveKnows
<1>6. /\ request' = [d \in Callers |-> request'[d]] /\ OneAtATime' /\ raced \subseteq raced'
      /\ request'[c] = g /\ \A d \in Callers : d # c => request'[d] = request[d]
  BY <1>2, ReadsOnce DEF GoLiveInv, GoLiveRequests
<1> QED  BY <1>2, <1>5, <1>6, GoLiveRead

LEMMA CheckKeeps == ASSUME GoLiveInv, NEW c \in Callers, Check(c) PROVE GoLiveInv'
<1> GoLiveRequests  BY DEF GoLiveInv
<1>1. PICK g : g = request[c]  OBVIOUS
<1>2. g.op = "check" /\ GoLiveKnows(g) /\ g # Idle
  BY <1>1 DEF Check, GoLiveRequests, Idle
<1>3. PICK n \in 1..8 : n = g.at  BY <1>2 DEF GoLiveKnows
<1>4. PassedBefore(n)  BY <1>2, <1>3 DEF GoLiveKnows
<1>5. n <= 7 /\ passing' = passing /\ lapsed' = lapsed /\ live' = live
  BY <1>1, <1>3, SevenChecks DEF Check, AllChecked, golive
<1>6. CASE CHECKS[n] \in passing
  <2>1. PICK req : req = [g EXCEPT !.at = n + 1]  OBVIOUS
  <2>2. request' = [request EXCEPT ![c].at = @ + 1] /\ raced' = raced
    BY <1>1, <1>3, <1>6 DEF Check
  <2>3. request' = [request EXCEPT ![c] = req]  BY <2>1, <2>2, <1>1, <1>3 DEF GoLiveRequests
  <2>4. req.on = g.on /\ req.op = g.op  BY <2>1
  <2>5. "at" \in DOMAIN g  BY <1>2 DEF GoLiveKnows
  <2>6. req.at = n + 1 /\ "at" \in DOMAIN req  BY <2>1, <2>5
  <2>7. PassedBefore(n + 1)  BY <1>4, <1>6, <1>3 DEF PassedBefore
  <2>8. GoLiveKnows(req)  BY <1>2, <1>5, <2>4, <2>6, <2>7 DEF GoLiveKnows
  <2>9. /\ request' = [d \in Callers |-> request'[d]] /\ OneAtATime'
        /\ request'[c] = req /\ \A d \in Callers : d # c => request'[d] = request[d]
    BY <2>2, <2>3, <2>4, <1>1, GoesOnOnce DEF GoLiveRequests
  <2> QED  BY <1>5, <2>2, <2>8, <2>9, GoLiveRead
<1>7. CASE CHECKS[n] \notin passing
  <2>1. Ends(c)  BY <1>1, <1>3, <1>7 DEF Check
  <2>2. /\ request' = [d \in Callers |-> request'[d]] /\ OneAtATime' /\ raced' = raced
        /\ request'[c] = Idle /\ \A d \in Callers : d # c => request'[d] = request[d]
    BY <2>1, EndsOnce DEF GoLiveRequests
  <2>3. PICK h : h = Idle  OBVIOUS
  <2>4. GoLiveKnows(h)  BY <2>3 DEF GoLiveKnows
  <2> QED  BY <1>5, <2>2, <2>3, <2>4, GoLiveRead
<1> QED  BY <1>6, <1>7

LEMMA GoLiveKeeps == ASSUME GoLiveInv, NEW c \in Callers, GoLive(c) PROVE GoLiveInv'
<1> GoLiveRequests  BY DEF GoLiveInv
<1>1. PICK g : g = request[c]  OBVIOUS
<1>2. g.op = "check" /\ GoLiveKnows(g) /\ g # Idle
  BY <1>1 DEF GoLive, GoLiveRequests, Idle
<1>3. PICK n \in 1..8 : n = g.at  BY <1>2 DEF GoLiveKnows
<1>4. PassedBefore(n) /\ Button \in g.on /\ (Button \in raced \/ live = 0)
  BY <1>2, <1>3 DEF GoLiveKnows
<1>5. n > 7 /\ passing' = passing /\ lapsed' = lapsed /\ live' = live + 1 /\ Ends(c)
  BY <1>1, <1>3, SevenChecks DEF GoLive, AllChecked
<1>6. /\ request' = [d \in Callers |-> request'[d]] /\ OneAtATime' /\ raced' = raced
      /\ request'[c] = Idle /\ \A d \in Callers : d # c => request'[d] = request[d]
  BY <1>5, EndsOnce DEF GoLiveRequests
<1>7. n = 8  BY <1>5
<1>8. PassedBefore(8)'  BY <1>4, <1>5, <1>7 DEF PassedBefore
<1>9. live' \in Nat /\ (live' <= 1 \/ Button \in raced)  BY <1>4, <1>5 DEF GoLiveInv
<1>10. ASSUME NEW d \in Callers PROVE GoLiveKnows(request[d])'
  <2>1. PICK h : h = request'[d]  OBVIOUS
  <2> SUFFICES GoLiveKnows(h)'  BY <2>1
  <2>2. CASE h = Idle  BY <2>2 DEF GoLiveKnows, Idle
  <2>3. CASE h # Idle
    <3>1. d # c /\ h = request[d] /\ GoLiveKnows(h)  BY <2>1, <2>3, <1>6 DEF GoLiveRequests
    <3>2. Button \in h.on  BY <3>1, <2>3 DEF GoLiveKnows
    <3>3. Button \in raced  BY <3>1, <3>2, <1>1, <1>4 DEF GoLiveRequests, OneAtATime
    <3> QED  BY <3>1, <3>3, <1>5, <1>6 DEF GoLiveKnows, PassedBefore, Button, Idle
  <2> QED  BY <2>2, <2>3
<1> QED  BY <1>6, <1>8, <1>9, <1>10 DEF GoLiveInv, GoLiveRequests, Button

LEMMA GoLiveGivingUpKeeps ==
  ASSUME GoLiveInv, NEW c \in Callers, GivesUp(c), UNCHANGED golive PROVE GoLiveInv'
<1>1. /\ request' = [d \in Callers |-> request'[d]] /\ OneAtATime' /\ raced' = raced
      /\ request'[c] = Idle /\ \A d \in Callers : d # c => request'[d] = request[d]
  BY EndsOnce DEF GivesUp, GoLiveInv, GoLiveRequests
<1>2. PICK g : g = Idle  OBVIOUS
<1>3. GoLiveKnows(g)  BY <1>2 DEF GoLiveKnows
<1> QED  BY <1>1, <1>2, <1>3, GoLiveRead DEF golive

\* Checks that pass, or lapse, while nobody's request goes on.
LEMMA GoLiveRests ==
  ASSUME GoLiveInv, passing \cup lapsed \subseteq passing' \cup lapsed', live' = live,
         UNCHANGED callers
  PROVE  GoLiveInv'
<1>1. request' = request /\ raced' = raced  BY DEF callers
<1>2. \A n : PassedBefore(n) => PassedBefore(n)'  BY DEF PassedBefore
<1>3. \A h : GoLiveKnows(h) => GoLiveKnows(h)'
  BY <1>1, <1>2 DEF GoLiveKnows, Button, Idle
<1>4. ASSUME NEW d \in Callers PROVE GoLiveKnows(request[d])'
  <2>1. PICK h : h = request[d]  OBVIOUS
  <2> QED  BY <2>1, <1>1, <1>3 DEF GoLiveInv, GoLiveRequests
<1> QED  BY <1>1, <1>2, <1>4 DEF GoLiveInv, GoLiveRequests, OneAtATime, Button

LEMMA GoLiveStep == ASSUME GoLiveInv, GoLiveNext PROVE GoLiveInv'
<1>1. ASSUME NEW k, Passes(k) PROVE GoLiveInv'
  BY <1>1, GoLiveRests DEF Passes, callers
<1>2. ASSUME NEW k, Lapses(k) PROVE GoLiveInv'
  BY <1>2, GoLiveRests DEF Lapses, callers
<1> QED  BY <1>1, <1>2, ReadForGoLiveKeeps, CheckKeeps, GoLiveKeeps DEF GoLiveNext

-----------------------------------------------------------------------------
\* The desks, the calendar and the office together: a behaviour is about one of them, and the
\* others have no rows.

LibraryHold     == IF focus = "library" THEN LibraryInv ELSE LibraryEmpty
BoardingHold    == IF focus = "boarding" THEN BoardingInv ELSE BoardingEmpty
ConferencesHold == IF focus = "conferences" THEN ConferencesInv ELSE ConferencesEmpty
MealsHold       == IF focus = "meals" THEN MealsInv ELSE MealsEmpty
SlipsHold       == IF focus = "slips" THEN SlipsInv ELSE SlipsEmpty
AssetsHold      == IF focus = "assets" THEN AssetsInv ELSE AssetsEmpty
LeaveHold       == IF focus = "leave" THEN LeaveInv ELSE LeaveEmpty
CalendarHold    == IF focus = "calendar" THEN CalendarInv ELSE CalendarInit
PoliciesHold    == IF focus = "policies" THEN PoliciesInv ELSE PoliciesEmpty
CampusesHold    == IF focus = "campuses" THEN CampusesInv ELSE CampusesEmpty
EntriesHold     == IF focus = "entries" THEN EntriesInv ELSE EntriesEmpty
TeachersHold    == IF focus = "teachers" THEN TeachersInv ELSE TeachersEmpty
LoginsHold      == IF focus = "logins" THEN LoginsInv ELSE LoginsEmpty
RequestsHold    == IF focus = "requests" THEN RequestsInv ELSE RequestsEmpty
PlaceHold       == IF focus = "place" THEN PlaceInv ELSE PlaceEmpty
GoLiveHold      == IF focus = "golive" THEN GoLiveInv ELSE GoLiveEmpty
DesksHold ==
    /\ LibraryHold /\ BoardingHold /\ ConferencesHold /\ MealsHold
    /\ SlipsHold /\ AssetsHold /\ LeaveHold /\ CalendarHold
OfficeHold ==
    /\ PoliciesHold /\ CampusesHold /\ EntriesHold /\ TeachersHold
    /\ LoginsHold /\ RequestsHold /\ PlaceHold /\ GoLiveHold
SchoolInv == DesksHold /\ OfficeHold

LEMMA SchoolStarts == ASSUME MCInit PROVE SchoolInv
<1>1. HandlersInit /\ CalendarInit  BY DEF MCInit, SchoolInit, DesksInit
<1>2. /\ LibraryEmpty /\ BoardingEmpty /\ ConferencesEmpty /\ MealsEmpty
      /\ SlipsEmpty /\ AssetsEmpty /\ LeaveEmpty
  BY DEF MCInit, SchoolInit, DesksInit, LibraryEmpty, BoardingEmpty, ConferencesEmpty,
         MealsEmpty, SlipsEmpty, AssetsEmpty, LeaveEmpty
<1>3. /\ PoliciesEmpty /\ CampusesEmpty /\ EntriesEmpty /\ TeachersEmpty
      /\ LoginsEmpty /\ RequestsEmpty /\ PlaceEmpty /\ GoLiveEmpty
  BY DEF MCInit, OfficeInit, PoliciesEmpty, CampusesEmpty, EntriesEmpty, TeachersEmpty,
         LoginsEmpty, RequestsEmpty, PlaceEmpty, GoLiveEmpty
<1>4. LibraryHold /\ BoardingHold /\ ConferencesHold /\ MealsHold
  BY <1>1, <1>2, LibraryStarts, BoardingStarts, ConferencesStart, MealsStart
     DEF LibraryHold, BoardingHold, ConferencesHold, MealsHold
<1>5. SlipsHold /\ AssetsHold /\ LeaveHold /\ CalendarHold
  BY <1>1, <1>2, SlipsStart, AssetsStart, LeaveStarts, CalendarStarts
     DEF SlipsHold, AssetsHold, LeaveHold, CalendarHold
<1>6. PoliciesHold /\ CampusesHold /\ EntriesHold /\ TeachersHold
  BY <1>1, <1>3, PoliciesStart, CampusesStart, EntriesStart, TeachersStart
     DEF PoliciesHold, CampusesHold, EntriesHold, TeachersHold
<1>7. LoginsHold /\ RequestsHold /\ PlaceHold /\ GoLiveHold
  BY <1>1, <1>3, LoginsStart, RequestsStart, PlaceStarts, GoLiveStarts
     DEF LoginsHold, RequestsHold, PlaceHold, GoLiveHold
<1> QED  BY <1>4, <1>5, <1>6, <1>7 DEF SchoolInv, DesksHold, OfficeHold

\* What nothing is asked of stays without rows.
LEMMA OtherDesksRest ==
  ASSUME focus' = focus, DesksHold
  PROVE  /\ focus # "library" /\ UNCHANGED library => LibraryHold'
         /\ focus # "boarding" /\ UNCHANGED boarding => BoardingHold'
         /\ focus # "conferences" /\ UNCHANGED conferences => ConferencesHold'
         /\ focus # "meals" /\ UNCHANGED meals => MealsHold'
         /\ focus # "slips" /\ UNCHANGED slips => SlipsHold'
         /\ focus # "assets" /\ UNCHANGED inventory => AssetsHold'
         /\ focus # "leave" /\ UNCHANGED staff => LeaveHold'
         /\ focus # "calendar" /\ UNCHANGED calendar => CalendarHold'
<1>1. focus # "library" /\ UNCHANGED library => LibraryHold'
  BY DEF DesksHold, LibraryHold, LibraryEmpty, library
<1>2. focus # "boarding" /\ UNCHANGED boarding => BoardingHold'
  BY DEF DesksHold, BoardingHold, BoardingEmpty, boarding
<1>3. focus # "conferences" /\ UNCHANGED conferences => ConferencesHold'
  BY DEF DesksHold, ConferencesHold, ConferencesEmpty, conferences
<1>4. focus # "meals" /\ UNCHANGED meals => MealsHold'
  BY DEF DesksHold, MealsHold, MealsEmpty, meals
<1>5. focus # "slips" /\ UNCHANGED slips => SlipsHold'
  BY DEF DesksHold, SlipsHold, SlipsEmpty, slips
<1>6. focus # "assets" /\ UNCHANGED inventory => AssetsHold'
  BY DEF DesksHold, AssetsHold, AssetsEmpty, inventory
<1>7. focus # "leave" /\ UNCHANGED staff => LeaveHold'
  BY DEF DesksHold, LeaveHold, LeaveEmpty, staff
<1>8. focus # "calendar" /\ UNCHANGED calendar => CalendarHold'
  BY DEF DesksHold, CalendarHold, CalendarInit, calendar
<1> QED  BY <1>1, <1>2, <1>3, <1>4, <1>5, <1>6, <1>7, <1>8

\* The same of the office.
LEMMA OtherOfficesRest ==
  ASSUME focus' = focus, OfficeHold
  PROVE  /\ focus # "policies" /\ UNCHANGED policies => PoliciesHold'
         /\ focus # "campuses" /\ UNCHANGED campuses => CampusesHold'
         /\ focus # "entries" /\ UNCHANGED entry => EntriesHold'
         /\ focus # "teachers" /\ UNCHANGED teaching => TeachersHold'
         /\ focus # "logins" /\ UNCHANGED logins => LoginsHold'
         /\ focus # "requests" /\ UNCHANGED requests => RequestsHold'
         /\ focus # "place" /\ UNCHANGED geo => PlaceHold'
         /\ focus # "golive" /\ UNCHANGED golive => GoLiveHold'
<1>1. focus # "policies" /\ UNCHANGED policies => PoliciesHold'
  BY DEF OfficeHold, PoliciesHold, PoliciesEmpty, policies
<1>2. focus # "campuses" /\ UNCHANGED campuses => CampusesHold'
  BY DEF OfficeHold, CampusesHold, CampusesEmpty, campuses
<1>3. focus # "entries" /\ UNCHANGED entry => EntriesHold'
  BY DEF OfficeHold, EntriesHold, EntriesEmpty
<1>4. focus # "teachers" /\ UNCHANGED teaching => TeachersHold'
  BY DEF OfficeHold, TeachersHold, TeachersEmpty
<1>5. focus # "logins" /\ UNCHANGED logins => LoginsHold'
  BY DEF OfficeHold, LoginsHold, LoginsEmpty, logins
<1>6. focus # "requests" /\ UNCHANGED requests => RequestsHold'
  BY DEF OfficeHold, RequestsHold, RequestsEmpty, requests
<1>7. focus # "place" /\ UNCHANGED geo => PlaceHold'
  BY DEF OfficeHold, PlaceHold, PlaceEmpty, geo
<1>8. focus # "golive" /\ UNCHANGED golive => GoLiveHold'
  BY DEF OfficeHold, GoLiveHold, GoLiveEmpty, golive
<1> QED  BY <1>1, <1>2, <1>3, <1>4, <1>5, <1>6, <1>7, <1>8

LEMMA DesksStep ==
  ASSUME DesksHold, focus' = focus, DesksFocus, UNCHANGED calendar PROVE DesksHold'
<1>1. CASE focus = "library" /\ LibraryNext
  <2>1. LibraryHold'  BY <1>1, LibraryStep DEF DesksHold, LibraryHold
  <2>2. UNCHANGED <<boarding, conferences, meals, slips, inventory, staff>>  BY <1>1 DEF LibraryNext
  <2> QED  BY <1>1, <2>1, <2>2, OtherDesksRest DEF DesksHold
<1>2. CASE focus = "boarding" /\ BoardingNext
  <2>1. BoardingHold'  BY <1>2, BoardingStep DEF DesksHold, BoardingHold
  <2>2. UNCHANGED <<library, conferences, meals, slips, inventory, staff>>  BY <1>2 DEF BoardingNext
  <2> QED  BY <1>2, <2>1, <2>2, OtherDesksRest DEF DesksHold
<1>3. CASE focus = "conferences" /\ ConferenceNext
  <2>1. ConferencesHold'  BY <1>3, ConferencesStep DEF DesksHold, ConferencesHold
  <2>2. UNCHANGED <<library, boarding, meals, slips, inventory, staff>>  BY <1>3 DEF ConferenceNext
  <2> QED  BY <1>3, <2>1, <2>2, OtherDesksRest DEF DesksHold
<1>4. CASE focus = "meals" /\ MealsNext
  <2>1. MealsHold'  BY <1>4, MealsStep DEF DesksHold, MealsHold
  <2>2. UNCHANGED <<library, boarding, conferences, slips, inventory, staff>>  BY <1>4 DEF MealsNext
  <2> QED  BY <1>4, <2>1, <2>2, OtherDesksRest DEF DesksHold
<1>5. CASE focus = "slips" /\ SlipsNext
  <2>1. SlipsHold'  BY <1>5, SlipsStep DEF DesksHold, SlipsHold
  <2>2. UNCHANGED <<library, boarding, conferences, meals, inventory, staff>>  BY <1>5 DEF SlipsNext
  <2> QED  BY <1>5, <2>1, <2>2, OtherDesksRest DEF DesksHold
<1>6. CASE focus = "assets" /\ AssetsNext
  <2>1. AssetsHold'  BY <1>6, AssetsStep DEF DesksHold, AssetsHold
  <2>2. UNCHANGED <<library, boarding, conferences, meals, slips, staff>>  BY <1>6 DEF AssetsNext
  <2> QED  BY <1>6, <2>1, <2>2, OtherDesksRest DEF DesksHold
<1>7. CASE focus = "leave" /\ LeaveNext
  <2>1. LeaveHold'  BY <1>7, LeaveStep DEF DesksHold, LeaveHold
  <2>2. UNCHANGED <<library, boarding, conferences, meals, slips, inventory>>  BY <1>7 DEF LeaveNext
  <2> QED  BY <1>7, <2>1, <2>2, OtherDesksRest DEF DesksHold
<1>8. CASE RequestsEnd
  <2>1. PICK c \in Callers : GivesUp(c)  BY <1>8 DEF RequestsEnd
  <2>2. UNCHANGED <<library, boarding, conferences, meals, slips, inventory, staff>>
    BY <1>8 DEF RequestsEnd
  <2>3. LibraryHold'
    <3>1. CASE focus = "library"
      BY <3>1, <2>1, <2>2, LibraryGivingUpKeeps DEF DesksHold, LibraryHold
    <3> QED  BY <3>1, <2>2, OtherDesksRest
  <2>4. BoardingHold'
    <3>1. CASE focus = "boarding"
      BY <3>1, <2>1, <2>2, BoardingGivingUpKeeps DEF DesksHold, BoardingHold
    <3> QED  BY <3>1, <2>2, OtherDesksRest
  <2>5. ConferencesHold'
    <3>1. CASE focus = "conferences"
      BY <3>1, <2>1, <2>2, ConferenceGivingUpKeeps DEF DesksHold, ConferencesHold
    <3> QED  BY <3>1, <2>2, OtherDesksRest
  <2>6. MealsHold'
    <3>1. CASE focus = "meals"
      BY <3>1, <2>1, <2>2, MealsGivingUpKeeps DEF DesksHold, MealsHold
    <3> QED  BY <3>1, <2>2, OtherDesksRest
  <2>7. SlipsHold'
    <3>1. CASE focus = "slips"
      BY <3>1, <2>1, <2>2, SlipsGivingUpKeeps DEF DesksHold, SlipsHold
    <3> QED  BY <3>1, <2>2, OtherDesksRest
  <2>8. AssetsHold'
    <3>1. CASE focus = "assets"
      BY <3>1, <2>1, <2>2, AssetsGivingUpKeeps DEF DesksHold, AssetsHold
    <3> QED  BY <3>1, <2>2, OtherDesksRest
  <2>9. LeaveHold'
    <3>1. CASE focus = "leave"
      BY <3>1, <2>1, <2>2, LeaveGivingUpKeeps DEF DesksHold, LeaveHold
    <3> QED  BY <3>1, <2>2, OtherDesksRest
  <2>10. CalendarHold'
    <3>1. CASE focus = "calendar"
      BY <3>1, <2>1, <2>2, CalendarGivingUpKeeps DEF DesksHold, CalendarHold
    <3> QED  BY <3>1, <2>2, OtherDesksRest
  <2> QED  BY <2>3, <2>4, <2>5, <2>6, <2>7, <2>8, <2>9, <2>10 DEF DesksHold
<1> QED
  BY <1>1, <1>2, <1>3, <1>4, <1>5, <1>6, <1>7, <1>8 DEF DesksFocus

LEMMA CalendarKeeps ==
  ASSUME DesksHold, focus' = focus, focus = "calendar", CalendarNext PROVE DesksHold'
<1>1. CalendarHold'  BY CalendarStep DEF DesksHold, CalendarHold
<1>2. UNCHANGED <<library, boarding, conferences, meals, slips, inventory, staff>>
  BY DEF CalendarNext, desks
<1> QED  BY <1>1, <1>2, OtherDesksRest DEF DesksHold

LEMMA OfficeStep ==
  ASSUME OfficeHold, focus' = focus, OfficeFocus PROVE OfficeHold'
<1>1. CASE /\ focus = "policies" /\ PoliciesNext
          /\ UNCHANGED <<campuses, entry, teaching, logins, requests, geo, golive>>
  <2>1. PoliciesHold'  BY <1>1, PoliciesStep DEF OfficeHold, PoliciesHold
  <2> QED  BY <1>1, <2>1, OtherOfficesRest DEF OfficeHold
<1>2. CASE /\ focus = "campuses" /\ CampusesNext
          /\ UNCHANGED <<policies, entry, teaching, logins, requests, geo, golive>>
  <2>1. CampusesHold'  BY <1>2, CampusesStep DEF OfficeHold, CampusesHold
  <2> QED  BY <1>2, <2>1, OtherOfficesRest DEF OfficeHold
<1>3. CASE /\ focus = "entries" /\ EntriesNext
          /\ UNCHANGED <<policies, campuses, teaching, logins, requests, geo, golive>>
  <2>1. EntriesHold'  BY <1>3, EntriesStep DEF OfficeHold, EntriesHold
  <2> QED  BY <1>3, <2>1, OtherOfficesRest DEF OfficeHold
<1>4. CASE /\ focus = "teachers" /\ TeachersNext
          /\ UNCHANGED <<policies, campuses, entry, logins, requests, geo, golive>>
  <2>1. TeachersHold'  BY <1>4, TeachersStep DEF OfficeHold, TeachersHold
  <2> QED  BY <1>4, <2>1, OtherOfficesRest DEF OfficeHold
<1>5. CASE /\ focus = "logins" /\ LoginsNext
          /\ UNCHANGED <<policies, campuses, entry, teaching, requests, geo, golive>>
  <2>1. LoginsHold'  BY <1>5, LoginsStep DEF OfficeHold, LoginsHold
  <2> QED  BY <1>5, <2>1, OtherOfficesRest DEF OfficeHold
<1>6. CASE /\ focus = "requests" /\ RequestsNext
          /\ UNCHANGED <<policies, campuses, entry, teaching, logins, geo, golive>>
  <2>1. RequestsHold'  BY <1>6, RequestsStep DEF OfficeHold, RequestsHold
  <2> QED  BY <1>6, <2>1, OtherOfficesRest DEF OfficeHold
<1>7. CASE /\ focus = "place" /\ PlaceNext
          /\ UNCHANGED <<policies, campuses, entry, teaching, logins, requests, golive>>
  <2>1. PlaceHold'  BY <1>7, PlaceStep DEF OfficeHold, PlaceHold
  <2> QED  BY <1>7, <2>1, OtherOfficesRest DEF OfficeHold
<1>8. CASE /\ focus = "golive" /\ GoLiveNext
          /\ UNCHANGED <<policies, campuses, entry, teaching, logins, requests, geo>>
  <2>1. GoLiveHold'  BY <1>8, GoLiveStep DEF OfficeHold, GoLiveHold
  <2> QED  BY <1>8, <2>1, OtherOfficesRest DEF OfficeHold
<1>9. CASE UNCHANGED office /\ \E c \in Callers : GivesUp(c)
  <2>1. PICK c \in Callers : GivesUp(c)  BY <1>9
  <2>2. UNCHANGED <<policies, campuses, entry, teaching, logins, requests, geo, golive>>
    BY <1>9 DEF office
  <2>3. PoliciesHold'
    <3>1. CASE focus = "policies"
      BY <3>1, <2>1, <2>2, PoliciesGivingUpKeeps DEF OfficeHold, PoliciesHold
    <3> QED  BY <3>1, <2>2, OtherOfficesRest
  <2>4. CampusesHold'
    <3>1. CASE focus = "campuses"
      BY <3>1, <2>1, <2>2, CampusGivingUpKeeps DEF OfficeHold, CampusesHold
    <3> QED  BY <3>1, <2>2, OtherOfficesRest
  <2>5. EntriesHold'
    <3>1. CASE focus = "entries"
      BY <3>1, <2>1, <2>2, EntriesGivingUpKeeps DEF OfficeHold, EntriesHold
    <3> QED  BY <3>1, <2>2, OtherOfficesRest
  <2>6. TeachersHold'
    <3>1. CASE focus = "teachers"
      BY <3>1, <2>1, <2>2, TeachersGivingUpKeeps DEF OfficeHold, TeachersHold
    <3> QED  BY <3>1, <2>2, OtherOfficesRest
  <2>7. LoginsHold'
    <3>1. CASE focus = "logins"
      BY <3>1, <2>1, <2>2, LoginsGivingUpKeeps DEF OfficeHold, LoginsHold
    <3> QED  BY <3>1, <2>2, OtherOfficesRest
  <2>8. RequestsHold'
    <3>1. CASE focus = "requests"
      BY <3>1, <2>1, <2>2, RequestsRest DEF OfficeHold, RequestsHold
    <3> QED  BY <3>1, <2>2, OtherOfficesRest
  <2>9. PlaceHold'
    <3>1. CASE focus = "place"
      BY <3>1, <2>1, <2>2, PlaceGivingUpKeeps DEF OfficeHold, PlaceHold
    <3> QED  BY <3>1, <2>2, OtherOfficesRest
  <2>10. GoLiveHold'
    <3>1. CASE focus = "golive"
      BY <3>1, <2>1, <2>2, GoLiveGivingUpKeeps DEF OfficeHold, GoLiveHold
    <3> QED  BY <3>1, <2>2, OtherOfficesRest
  <2> QED  BY <2>3, <2>4, <2>5, <2>6, <2>7, <2>8, <2>9, <2>10 DEF OfficeHold
<1> QED
  BY <1>1, <1>2, <1>3, <1>4, <1>5, <1>6, <1>7, <1>8, <1>9 DEF OfficeFocus

\* While the office is asked the desks have no rows, and the other way round.
LEMMA SchoolStep == ASSUME SchoolInv, MCNext PROVE SchoolInv'
<1> DesksHold /\ OfficeHold  BY DEF SchoolInv
<1>1. focus' = focus  BY DEF MCNext
<1>2. ASSUME UNCHANGED office, focus \notin Offices PROVE OfficeHold'
  <2>1. UNCHANGED <<policies, campuses, entry, teaching, logins, requests, geo, golive>>
    BY <1>2 DEF office
  <2>2. /\ focus # "policies" /\ focus # "campuses" /\ focus # "entries"
        /\ focus # "teachers" /\ focus # "logins" /\ focus # "requests"
        /\ focus # "place" /\ focus # "golive"
    BY <1>2 DEF Offices
  <2> QED  BY <1>1, <2>1, <2>2, OtherOfficesRest DEF OfficeHold
<1>3. ASSUME UNCHANGED <<desks, calendar>>, focus \in Offices PROVE DesksHold'
  <2>1. UNCHANGED <<library, boarding, conferences, meals, slips, inventory, staff, calendar>>
    BY <1>3 DEF desks
  <2>2. /\ focus # "library" /\ focus # "boarding" /\ focus # "conferences"
        /\ focus # "meals" /\ focus # "slips" /\ focus # "assets"
        /\ focus # "leave" /\ focus # "calendar"
    BY <1>3 DEF Offices
  <2> QED  BY <1>1, <2>1, <2>2, OtherDesksRest DEF DesksHold
<1>4. CASE DesksFocus /\ UNCHANGED <<calendar, office>>
  <2>1. focus \notin Offices  BY <1>4 DEF DesksFocus, Desks, Offices
  <2> QED  BY <1>1, <1>2, <1>4, <2>1, DesksStep DEF SchoolInv
<1>5. CASE focus = "calendar" /\ CalendarNext /\ UNCHANGED office
  <2>1. focus \notin Offices  BY <1>5 DEF Offices
  <2> QED  BY <1>1, <1>2, <1>5, <2>1, CalendarKeeps DEF SchoolInv
<1>6. CASE OfficeFocus /\ UNCHANGED <<desks, calendar>>
  <2>1. focus \in Offices  BY <1>6 DEF OfficeFocus, Offices
  <2> QED  BY <1>1, <1>3, <1>6, <2>1, OfficeStep DEF SchoolInv
<1> QED  BY <1>4, <1>5, <1>6 DEF MCNext

LEMMA SchoolRests ==
  ASSUME SchoolInv, UNCHANGED <<vars, calendar, office, focus>> PROVE SchoolInv'
<1> DesksHold /\ OfficeHold  BY DEF SchoolInv
<1>1. UNCHANGED callers /\ focus' = focus
      /\ UNCHANGED <<library, boarding, conferences, meals, slips, inventory, staff, calendar>>
  BY DEF vars
<1>2. UNCHANGED <<policies, campuses, entry, teaching, logins, requests, geo, golive>>
  BY DEF office
<1>3. LibraryHold'
  BY <1>1, <1>2, LibraryRests, OtherDesksRest DEF DesksHold, LibraryHold
<1>4. BoardingHold'
  BY <1>1, <1>2, BoardingRests, OtherDesksRest DEF DesksHold, BoardingHold
<1>5. ConferencesHold'
  BY <1>1, <1>2, ConferencesRest, OtherDesksRest DEF DesksHold, ConferencesHold
<1>6. MealsHold'
  BY <1>1, <1>2, MealsRest, OtherDesksRest DEF DesksHold, MealsHold
<1>7. SlipsHold'
  BY <1>1, <1>2, SlipsRest, OtherDesksRest DEF DesksHold, SlipsHold
<1>8. AssetsHold'
  BY <1>1, <1>2, AssetsRest, OtherDesksRest DEF DesksHold, AssetsHold
<1>9. LeaveHold'
  BY <1>1, <1>2, LeaveRests, OtherDesksRest DEF DesksHold, LeaveHold
<1>10. CalendarHold'
  BY <1>1, <1>2, CalendarRests, OtherDesksRest DEF DesksHold, CalendarHold
<1>11. PoliciesHold'
  BY <1>1, <1>2, PoliciesRest, OtherOfficesRest DEF OfficeHold, PoliciesHold
<1>12. CampusesHold'
  BY <1>1, <1>2, CampusesRest, OtherOfficesRest DEF OfficeHold, CampusesHold
<1>13. EntriesHold'
  BY <1>1, <1>2, EntriesRest, OtherOfficesRest DEF OfficeHold, EntriesHold
<1>14. TeachersHold'
  BY <1>1, <1>2, TeachersRest, OtherOfficesRest DEF OfficeHold, TeachersHold
<1>15. LoginsHold'
  BY <1>1, <1>2, LoginsRest, OtherOfficesRest DEF OfficeHold, LoginsHold
<1>16. RequestsHold'
  BY <1>1, <1>2, RequestsRest, OtherOfficesRest DEF OfficeHold, RequestsHold
<1>17. PlaceHold'
  BY <1>1, <1>2, PlaceRests, OtherOfficesRest DEF OfficeHold, PlaceHold
<1>18. GoLiveHold'
  BY <1>1, <1>2, GoLiveRests, OtherOfficesRest DEF OfficeHold, GoLiveHold, golive
<1> QED
  BY <1>3, <1>4, <1>5, <1>6, <1>7, <1>8, <1>9, <1>10,
     <1>11, <1>12, <1>13, <1>14, <1>15, <1>16, <1>17, <1>18
     DEF SchoolInv, DesksHold, OfficeHold

LEMMA DesksKept == ASSUME SchoolInv PROVE DesksAndCalendarAgree
<1> DesksHold  BY DEF SchoolInv
<1>1. LibraryAgrees /\ LibraryTypeOK  BY LibraryKept, LibraryRestAgrees DEF DesksHold, LibraryHold
<1>2. BoardingAgrees /\ BoardingTypeOK
  BY BoardingKept, BoardingRestAgrees DEF DesksHold, BoardingHold
<1>3. ConferencesAgree /\ ConferencesTypeOK
  BY ConferencesKept, ConferencesRestAgree DEF DesksHold, ConferencesHold
<1>4. CreditAgrees /\ MealsTypeOK  BY MealsKept, MealsRestAgree DEF DesksHold, MealsHold
<1>5. SlipsAgree /\ SlipsTypeOK  BY SlipsRestAgree DEF DesksHold, SlipsHold, SlipsInv
<1>6. AssetsAgree /\ AssetsTypeOK  BY AssetsKept, AssetsRestAgree DEF DesksHold, AssetsHold
<1>7. LeaveAgrees /\ LeaveTypeOK  BY LeaveKept, LeaveRestAgrees DEF DesksHold, LeaveHold
<1>8. CalendarAgrees /\ CalendarTypeOK
  BY CalendarRestAgrees DEF DesksHold, CalendarHold, CalendarInv
<1>9. DeskTypeOK
  BY <1>1, <1>2, <1>3, <1>4, <1>5, <1>6, <1>7
     DEF DeskTypeOK, LibraryTypeOK, BoardingTypeOK, ConferencesTypeOK, MealsTypeOK, Credit,
         SlipsTypeOK, AssetsTypeOK, LeaveTypeOK, Open
<1> QED
  BY <1>1, <1>2, <1>3, <1>4, <1>5, <1>6, <1>7, <1>8, <1>9
     DEF DesksAndCalendarAgree, SchoolTypeOK, DesksAgree, CalendarTypeOK

LEMMA OfficeKept == ASSUME SchoolInv PROVE OfficeAgrees
<1> OfficeHold  BY DEF SchoolInv
<1>1. PoliciesAgree  BY PoliciesRestAgree DEF OfficeHold, PoliciesHold, PoliciesInv
<1>2. CampusesAgree  BY CampusesRestAgree DEF OfficeHold, CampusesHold, CampusesInv
<1>3. NamesAgree  BY EntriesRestAgree DEF OfficeHold, EntriesHold, EntriesInv
<1>4. TeachersAgree
  BY TeachersKept, TeachersRestAgree DEF OfficeHold, TeachersHold, TeachersInv
<1>5. LoginsAgree  BY LoginsRestAgree DEF OfficeHold, LoginsHold, LoginsInv
<1>6. RequestsAgree  BY RequestsStart DEF OfficeHold, RequestsHold, RequestsInv
<1>7. PlaceAgrees  BY PlaceRestAgrees DEF OfficeHold, PlaceHold, PlaceInv
<1>8. GoLiveAgrees  BY GoLiveKept, GoLiveRestAgrees DEF OfficeHold, GoLiveHold
<1> QED  BY <1>1, <1>2, <1>3, <1>4, <1>5, <1>6, <1>7, <1>8 DEF OfficeAgrees

\* Whatever requests overlap, break off or are refused: the shelf never holds more copies than
\* there are and no slot is booked twice, no two classes go by one name and no login is two
\* students'; and what no two requests worked on at once is exact, in the library, the boarding
\* house, the meal credit, the slips, the assets, the leave, the calendar and the office
\* (academics handlers, each reading rows, deciding and committing without a lock).
THEOREM SchoolStaysExact == SchoolDesksSpec => []SchoolAgrees
<1>1. MCInit => SchoolInv  BY SchoolStarts
<1>2. SchoolInv /\ [MCNext]_<<vars, calendar, office, focus>> => SchoolInv'
  BY SchoolStep, SchoolRests
<1>3. SchoolInv => SchoolAgrees  BY DesksKept, OfficeKept DEF SchoolAgrees
<1> QED  BY <1>1, <1>2, <1>3, PTL DEF SchoolDesksSpec
===============================================================================
