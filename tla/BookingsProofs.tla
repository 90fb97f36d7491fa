---------------------------- MODULE BookingsProofs ----------------------------
(***************************************************************************)
(* Proofs about bookings, what the channels are told of them, and the      *)
(* search index, for any number of requests, nights, pushes, imports,      *)
(* products and workers.                                                   *)
(***************************************************************************)
EXTENDS MCBookings, Sequences, TLAPS

\* The bookings are the same module, beside the channels and alone.
LEMMA SameDesk == C!B!Next => D!Next
BY Zenon DEF C!B!Next, D!Next, C!B!Step, D!Step, C!B!Connect, D!Connect, C!B!LockResource, D!LockResource,
   C!B!CheckBlocked, D!CheckBlocked, C!B!CheckOverlap, D!CheckOverlap, C!B!ComputeBookingPrice,
   D!ComputeBookingPrice, C!B!PriceTimeout, D!PriceTimeout, C!B!InsertBooking, D!InsertBooking,
   C!B!CallFails, D!CallFails, C!B!ConfirmBooking, D!ConfirmBooking, C!B!CheckInBooking, D!CheckInBooking,
   C!B!CheckOutBooking, D!CheckOutBooking, C!B!NoShowBooking, D!NoShowBooking, C!B!ReadToCancel,
   D!ReadToCancel, C!B!CancelBooking, D!CancelBooking, C!B!Request, D!Request, C!B!SetAvailability,
   D!SetAvailability, C!B!Goto, D!Goto, C!B!End, D!End, C!B!Locking, D!Locking, C!B!InTx, D!InTx,
   C!B!FreeConnection, D!FreeConnection, C!B!Active, D!Active, C!B!Overlaps, D!Overlaps, C!B!Transition,
   D!Transition, C!B!Nights, D!Nights, C!B!Dates, D!Dates, C!B!Cardinality, D!Cardinality

LEMMA BlockingIsTheDesk ==
  ASSUME NEW n \in C!B!Nights, C!B!SetAvailability(n, FALSE)
  PROVE  D!Next
BY Zenon DEF C!B!SetAvailability, D!Next, D!SetAvailability, C!B!Nights, D!Nights, C!B!FreeConnection,
   D!FreeConnection, C!B!InTx, D!InTx, C!B!Locking, D!Locking, C!B!Cardinality, D!Cardinality

\* A step is one of the desk, one of the channels, or leaves both alone.
LEMMA DeskFrame ==
  ASSUME [Next]_vars
  PROVE  \/ D!Next /\ UNCHANGED conly
         \/ C!ChannelNext
         \/ UNCHANGED <<donly, conly>>
<1>1. CASE Desk(D!Next)
  BY <1>1 DEF Desk
<1>2. CASE Channels(C!Next)
  BY <1>2, SameDesk DEF Channels, C!Next, C!cvars, conly
<1>3. CASE Noticed(N!Next) \/ Indexed(X!Next)
  BY <1>3 DEF Noticed, Indexed
<1>4. CASE UNCHANGED vars
  BY <1>4 DEF vars
<1>5. QED BY <1>1, <1>2, <1>3, <1>4 DEF Next

\* The channels do nothing to the desk but block a night.
LEMMA ChannelsAndDesk ==
  ASSUME C!ChannelNext
  PROVE  UNCHANGED donly \/ (UNCHANGED <<call, booking, cancelling>> /\ D!Next)
<1>1. CASE \E i \in Imports, n \in C!B!Nights : C!BlockDate(i, n)
  <2>1. PICK i \in Imports : \E n \in C!B!Nights : C!BlockDate(i, n)
    BY <1>1
  <2>2. PICK n \in C!B!Nights : C!BlockDate(i, n)
    BY <2>1
  <2>3. C!B!SetAvailability(n, FALSE)
    BY Zenon, <2>2 DEF C!BlockDate
  <2>4. QED BY <2>3, BlockingIsTheDesk DEF C!B!SetAvailability
<1>2. CASE ~ \E i \in Imports, n \in C!B!Nights : C!BlockDate(i, n)
  BY Zenon, <1>2 DEF C!ChannelNext, donly, C!bvars, C!ReadAvailability, C!ReadBookings, C!PushAvailability,
     C!PushRates, C!PushDies, C!ImportICalFeed, C!ImportEnds
<1>3. QED BY <1>1, <1>2

-----------------------------------------------------------------------------
(* No night is sold twice.                                                 *)

CallRow == [at : {"new", "connect", "resource", "blocked", "overlap", "price", "write", "done", "failed"},
            from : D!Dates, to : D!Dates]
BookingRow == [status : {"none", "pending", "confirmed", "checked_in", "checked_out", "no_show", "cancelled"},
               from : D!Dates, to : D!Dates]

BookingTypes == call \in [Requests -> CallRow] /\ booking \in [Requests -> BookingRow]

Locks(b) == call[b].at \in {"blocked", "overlap", "price", "write"}
OneHasTheResource == \A b, c \in Requests : Locks(b) /\ Locks(c) => b = c

\* What the check has found to be free is free for as long as the resource is held.
Free(b) == \A c \in Requests : ~D!Overlaps(c, call[b].from, call[b].to)
CheckedIsFree == \A b \in Requests : call[b].at \in {"price", "write"} => Free(b)

\* A booking is written by the call that ends with it, once.
WrittenOnce ==
    \A b \in Requests : /\ booking[b].status # "none" => call[b].at = "done"
                        /\ b \in cancelling => booking[b].status # "none"

DeskInv == BookingTypes /\ OneHasTheResource /\ CheckedIsFree /\ WrittenOnce /\ NoDoubleBooking

LEMMA DeskInit == Init => DeskInv
<1> SUFFICES ASSUME D!Init PROVE DeskInv
  BY Zenon DEF Init, C!Init, C!B!Init, D!Init
<1>1. 1 \in D!Dates
  BY LastNightAssumption DEF D!Dates
<1>2. BookingTypes
  BY <1>1 DEF BookingTypes, CallRow, BookingRow, D!Init
<1>3. cancelling = {} /\ \A b \in Requests : call[b].at = "new" /\ booking[b].status = "none"
  BY DEF D!Init
<1>4. QED BY <1>2, <1>3 DEF DeskInv, OneHasTheResource, CheckedIsFree, WrittenOnce, NoDoubleBooking,
             D!NoDoubleBooking, D!Active, Locks

\* A call moves on, and nothing is booked.
LEMMA CallMoves ==
  ASSUME DeskInv, NEW b \in Requests, NEW row \in CallRow, call' = [call EXCEPT ![b] = row],
         booking' = booking, cancelling' = cancelling, call[b].at # "done",
         Locks(b) \/ row.at \notin {"blocked", "overlap", "price", "write"} \/ \A c \in Requests : ~Locks(c),
         row.at \in {"price", "write"} => \A c \in Requests : ~D!Overlaps(c, row.from, row.to)
  PROVE  DeskInv'
<1>1. BookingTypes'
  BY DEF DeskInv, BookingTypes
<1>2. \A c \in Requests : call'[c] = IF c = b THEN row ELSE call[c]
  BY DEF DeskInv, BookingTypes
<1>3. OneHasTheResource'
  BY <1>2 DEF DeskInv, OneHasTheResource, Locks
<1>5. CheckedIsFree'
  BY <1>2 DEF DeskInv, CheckedIsFree, Free, D!Overlaps, D!Active
<1>6. WrittenOnce'
  BY <1>2 DEF DeskInv, WrittenOnce
<1>7. NoDoubleBooking'
  BY DEF DeskInv, NoDoubleBooking, D!NoDoubleBooking, D!NightsOf, D!Active
<1>8. QED BY <1>1, <1>3, <1>5, <1>6, <1>7 DEF DeskInv

\* A booking is worked on, and what was not sold stays unsold.
LEMMA BookingMoves ==
  ASSUME DeskInv, NEW b \in Requests, call' = call, cancelling' \subseteq cancelling,
         NEW to \in {"confirmed", "checked_in", "checked_out", "no_show", "cancelled"},
         booking' = [booking EXCEPT ![b].status = to],
         booking[b].status # "none",
         D!Active(b) \/ to \notin {"pending", "confirmed", "checked_in"}
  PROVE  DeskInv'
<1>1. BookingTypes'
  BY DEF DeskInv, BookingTypes, BookingRow
<1>2. \A c \in Requests : /\ booking'[c].from = booking[c].from /\ booking'[c].to = booking[c].to
                          /\ booking'[c].status = IF c = b THEN to ELSE booking[c].status
  BY DEF DeskInv, BookingTypes, BookingRow
<1>3. OneHasTheResource'
  BY DEF DeskInv, OneHasTheResource, Locks
<1>4. \A c \in Requests : D!Active(c)' => D!Active(c)
  BY <1>2 DEF D!Active
<1>5. CheckedIsFree'
  BY <1>2, <1>4 DEF DeskInv, CheckedIsFree, Free, D!Overlaps
<1>6. WrittenOnce'
  BY <1>2 DEF DeskInv, WrittenOnce
<1>7. NoDoubleBooking'
  BY <1>2, <1>4 DEF DeskInv, NoDoubleBooking, D!NoDoubleBooking, D!NightsOf
<1>8. QED BY <1>1, <1>3, <1>5, <1>6, <1>7 DEF DeskInv

\* The records a call becomes.
LEMMA CallRecords ==
  /\ \A at \in {"done", "failed"} : [at |-> at, from |-> 1, to |-> 1] \in CallRow
  /\ \A from, to \in D!Dates : [at |-> "connect", from |-> from, to |-> to] \in CallRow
  /\ \A row \in CallRow, at \in {"resource", "blocked", "overlap", "price", "write"} :
        LET n == [row EXCEPT !.at = at]
        IN n \in CallRow /\ n.at = at /\ n.from = row.from /\ n.to = row.to
<1>1. 1 \in D!Dates
  BY LastNightAssumption DEF D!Dates
<1>2. QED BY <1>1 DEF CallRow

LEMMA CallGoes ==
  ASSUME DeskInv, NEW b \in Requests, NEW at \in {"resource", "blocked", "overlap", "price", "write"},
         D!Goto(b, at), call[b].at # "done",
         Locks(b) \/ at = "resource" \/ \A c \in Requests : ~Locks(c),
         at \in {"price", "write"} => Free(b)
  PROVE  DeskInv'
<1> DEFINE row == [call[b] EXCEPT !.at = at]
<1>1. row \in CallRow /\ row.at = at /\ row.from = call[b].from /\ row.to = call[b].to
  BY CallRecords DEF DeskInv, BookingTypes
<1>2. call' = [call EXCEPT ![b] = row] /\ booking' = booking /\ cancelling' = cancelling
  BY DEF D!Goto, DeskInv, BookingTypes
<1> HIDE DEF row
<1>3. QED BY <1>1, <1>2, CallMoves DEF Free

LEMMA CallEnds ==
  ASSUME DeskInv, NEW b \in Requests, D!End(b, "failed"), call[b].at # "done"
  PROVE  DeskInv'
<1> DEFINE row == [at |-> "failed", from |-> 1, to |-> 1]
<1>1. row \in CallRow /\ row.at = "failed"
  BY CallRecords
<1>2. call' = [call EXCEPT ![b] = row] /\ booking' = booking /\ cancelling' = cancelling
  BY DEF D!End
<1> HIDE DEF row
<1>3. QED BY <1>1, <1>2, CallMoves

LEMMA WriteFrees ==
  ASSUME DeskInv, NEW b \in Requests, D!InsertBooking(b)
  PROVE  DeskInv'
<1>1. PICK status \in {"pending", "confirmed"} :
        booking' = [booking EXCEPT ![b] = [status |-> status, from |-> call[b].from, to |-> call[b].to]]
  BY DEF D!InsertBooking
<1>2. /\ call' = [call EXCEPT ![b] = [at |-> "done", from |-> 1, to |-> 1]]
      /\ call[b].at = "write" /\ UNCHANGED cancelling
  BY DEF D!InsertBooking
<1>3. [at |-> "done", from |-> 1, to |-> 1] \in CallRow
  BY CallRecords
<1>4. [status |-> status, from |-> call[b].from, to |-> call[b].to] \in BookingRow
  BY DEF DeskInv, BookingTypes, CallRow, BookingRow
<1>5. BookingTypes'
  BY <1>1, <1>2, <1>3, <1>4 DEF DeskInv, BookingTypes
<1>6. \A c \in Requests : /\ c # b => call'[c] = call[c] /\ booking'[c] = booking[c]
                          /\ c = b => /\ call'[c].at = "done" /\ booking'[c].status = status
                                      /\ booking'[c].from = call[b].from /\ booking'[c].to = call[b].to
  BY <1>1, <1>2 DEF DeskInv, BookingTypes
<1>7. OneHasTheResource'
  BY <1>6 DEF DeskInv, OneHasTheResource, Locks
<1>8. \A c \in Requests : call'[c].at \notin {"price", "write"}
  BY <1>2, <1>6 DEF DeskInv, OneHasTheResource, Locks
<1>9. CheckedIsFree'
  BY <1>8 DEF CheckedIsFree
<1>10. WrittenOnce'
  BY <1>2, <1>6 DEF DeskInv, WrittenOnce
<1>11. \A c \in Requests : ~D!Overlaps(c, call[b].from, call[b].to)
  BY <1>2 DEF DeskInv, CheckedIsFree, Free
<1>12. \A c \in Requests : c # b /\ D!Active(c)' => D!Active(c) /\ D!NightsOf(c)' = D!NightsOf(c)
  BY <1>6 DEF D!Active, D!NightsOf
<1>13. \A c \in Requests : /\ booking[c].from \in Nat /\ booking[c].to \in Nat
                           /\ call[c].from \in Nat /\ call[c].to \in Nat
  BY LastNightAssumption DEF DeskInv, BookingTypes, CallRow, BookingRow, D!Dates
<1>14. \A c \in Requests : c # b /\ D!Active(c) =>
          D!NightsOf(c) \cap (call[b].from .. call[b].to - 1) = {}
  BY <1>11, <1>13 DEF D!Overlaps, D!NightsOf
<1>15. D!NightsOf(b)' = call[b].from .. call[b].to - 1
  BY <1>6 DEF D!NightsOf
<1>16. NoDoubleBooking'
  <2> SUFFICES ASSUME NEW x \in Requests, NEW y \in Requests, x # y, D!Active(x)', D!Active(y)'
               PROVE  D!NightsOf(x)' \cap D!NightsOf(y)' = {}
    BY DEF NoDoubleBooking, D!NoDoubleBooking
  <2>1. CASE x = b
    BY <2>1, <1>12, <1>14, <1>15
  <2>2. CASE y = b
    BY <2>2, <1>12, <1>14, <1>15
  <2>3. CASE x # b /\ y # b
    BY <2>3, <1>12 DEF DeskInv, NoDoubleBooking, D!NoDoubleBooking
  <2>4. QED BY <2>1, <2>2, <2>3
<1>17. QED BY <1>5, <1>7, <1>9, <1>10, <1>16 DEF DeskInv

LEMMA DeskNext ==
  ASSUME DeskInv, D!Next
  PROVE  DeskInv'
<1>1. ASSUME NEW b \in Requests, D!Connect(b) \/ D!CallFails(b) PROVE DeskInv'
  <2>1. call[b].at # "done"
    BY <1>1 DEF D!Connect, D!CallFails, D!InTx, D!Locking
  <2>2. D!Goto(b, "resource") \/ D!End(b, "failed")
    BY <1>1 DEF D!Connect, D!CallFails
  <2>3. QED BY <2>1, <2>2, CallGoes, CallEnds
<1>2. ASSUME NEW b \in Requests, D!LockResource(b) PROVE DeskInv'
  <2>1. call[b].at # "done" /\ D!Goto(b, "blocked") /\ \A c \in Requests : ~Locks(c)
    BY <1>2 DEF D!LockResource, D!Locking, Locks
  <2>2. QED BY <2>1, CallGoes
<1>3. ASSUME NEW b \in Requests, D!CheckBlocked(b) PROVE DeskInv'
  <2>1. call[b].at # "done" /\ Locks(b) /\ (D!Goto(b, "overlap") \/ D!End(b, "failed"))
    BY <1>3 DEF D!CheckBlocked, Locks
  <2>2. QED BY <2>1, CallGoes, CallEnds
<1>4. ASSUME NEW b \in Requests, D!CheckOverlap(b) PROVE DeskInv'
  <2>1. call[b].at # "done" /\ Locks(b) /\ ((Free(b) /\ D!Goto(b, "price")) \/ D!End(b, "failed"))
    BY <1>4 DEF D!CheckOverlap, Locks, Free
  <2>2. QED BY <2>1, CallGoes, CallEnds
<1>5. ASSUME NEW b \in Requests, D!ComputeBookingPrice(b) \/ D!PriceTimeout(b) PROVE DeskInv'
  <2>1. call[b].at = "price" /\ (D!Goto(b, "write") \/ D!End(b, "failed"))
    BY <1>5 DEF D!ComputeBookingPrice, D!PriceTimeout
  <2>2. Locks(b) /\ Free(b)
    BY <2>1 DEF Locks, DeskInv, CheckedIsFree
  <2>3. QED BY <2>1, <2>2, CallGoes, CallEnds
<1>6. ASSUME NEW b \in Requests, NEW from, NEW to \in {"confirmed", "checked_in", "checked_out", "no_show"},
             from \subseteq {"pending", "inquiry", "confirmed", "checked_in"}, D!Transition(b, from, to)
      PROVE  DeskInv'
  <2>1. /\ call' = call /\ cancelling' = cancelling /\ booking' = [booking EXCEPT ![b].status = to]
        /\ booking[b].status \in {"pending", "inquiry", "confirmed", "checked_in"}
    BY <1>6 DEF D!Transition
  <2>2. D!Active(b) /\ booking[b].status # "none"
    BY <2>1 DEF D!Active, DeskInv, BookingTypes, BookingRow
  <2>3. QED BY <2>1, <2>2, BookingMoves
<1>7. ASSUME NEW b \in Requests,
             D!ConfirmBooking(b) \/ D!CheckInBooking(b) \/ D!CheckOutBooking(b) \/ D!NoShowBooking(b)
      PROVE  DeskInv'
  BY <1>7, <1>6 DEF D!ConfirmBooking, D!CheckInBooking, D!CheckOutBooking, D!NoShowBooking
<1>8. ASSUME NEW b \in Requests, D!ReadToCancel(b) PROVE DeskInv'
  <2>1. /\ call' = call /\ booking' = booking /\ cancelling' = cancelling \cup {b}
        /\ booking[b].status # "none"
    BY <1>8 DEF D!ReadToCancel
  <2>2. QED BY <2>1 DEF DeskInv, BookingTypes, OneHasTheResource, Locks, CheckedIsFree, Free, D!Overlaps,
               D!Active, WrittenOnce, NoDoubleBooking, D!NoDoubleBooking, D!NightsOf
<1>9. ASSUME NEW b \in Requests, D!CancelBooking(b) PROVE DeskInv'
  <2>1. /\ call' = call /\ booking' = [booking EXCEPT ![b].status = "cancelled"]
        /\ cancelling' \subseteq cancelling /\ booking[b].status # "none"
    BY <1>9 DEF D!CancelBooking, DeskInv, WrittenOnce
  <2>2. QED BY <2>1, BookingMoves
<1>10. ASSUME NEW b \in Requests, NEW from \in D!Dates, NEW to \in D!Dates, D!Request(b, from, to)
       PROVE  DeskInv'
  <2> DEFINE row == [at |-> "connect", from |-> from, to |-> to]
  <2>1. row \in CallRow /\ row.at = "connect"
    BY CallRecords
  <2>2. /\ call' = [call EXCEPT ![b] = row] /\ booking' = booking /\ cancelling' = cancelling
        /\ call[b].at # "done"
    BY <1>10 DEF D!Request
  <2> HIDE DEF row
  <2>3. QED BY <2>1, <2>2, CallMoves
<1>11. ASSUME NEW n, NEW available, D!SetAvailability(n, available) PROVE DeskInv'
  BY <1>11 DEF D!SetAvailability, DeskInv, BookingTypes, OneHasTheResource, Locks, CheckedIsFree, Free,
     D!Overlaps, D!Active, WrittenOnce, NoDoubleBooking, D!NoDoubleBooking, D!NightsOf
<1>12. QED BY Zenon, <1>1, <1>2, <1>3, <1>4, <1>5, <1>7, <1>8, <1>9, <1>10, <1>11, WriteFrees DEF D!Next, D!Step

LEMMA DeskStutter ==
  ASSUME DeskInv, UNCHANGED donly
  PROVE  DeskInv'
BY DEF donly, DeskInv, BookingTypes, OneHasTheResource, Locks, CheckedIsFree, Free, D!Overlaps, D!Active,
   WrittenOnce, NoDoubleBooking, D!NoDoubleBooking, D!NightsOf

LEMMA DeskStep ==
  ASSUME DeskInv, [Next]_vars
  PROVE  DeskInv'
BY DeskFrame, DeskNext, DeskStutter, ChannelsAndDesk DEF donly

LEMMA DeskAlways == Spec => []DeskInv
BY DeskInit, DeskStep, PTL DEF Spec

\* No night is sold twice, however many requests check, price and write at once, and whatever
\* is confirmed, checked in, cancelled or blocked beside them (createBooking: the check and the
\* insertion under the lock of the resource's row).
THEOREM NightsAreSoldOnce == Spec => []NoDoubleBooking
<1>1. DeskInv => NoDoubleBooking
  BY DEF DeskInv
<1>2. QED BY <1>1, DeskAlways, PTL

-----------------------------------------------------------------------------
(* What the channels are told.                                             *)

PushRow == [at : {"new", "bookings", "availability", "rates", "refused", "ok", "failed", "lost"},
            last : Nat, shut : SUBSET Nat, sold : SUBSET Requests, alone : BOOLEAN]

\* A stay that has been shown is shown from then on, with the same nights, until it is given up.
WasShown(b) == booking[b].status \in {"confirmed", "checked_in", "checked_out", "no_show", "cancelled"}
Window(p, b) == D!NightsOf(b) \cap (1 .. push[p].last)

\* Beside a push that is alone none runs; one that began after it ended knows of its stays.
AloneOrLater ==
    \A p, q \in Pushes : p # q /\ push[p].alone /\ C!Running(q) =>
        /\ ~C!Running(p)
        /\ push[p].at = "ok" => \A b \in push[p].sold : C!Shown(b) => b \in push[q].sold

\* What is about to be sent closes the stays, and what was sent has closed them.
AboutToClose ==
    \A p \in Pushes : push[p].at = "availability" =>
        \A b \in push[p].sold : C!Shown(b) => Window(p, b) \subseteq push[p].shut
HasClosed ==
    \A p \in Pushes : push[p].at \in {"rates", "ok"} /\ push[p].alone =>
        \A b \in push[p].sold : C!Shown(b) => Window(p, b) \subseteq closed

PushInv ==
    /\ push \in [Pushes -> PushRow]
    /\ \A p \in Pushes : \A b \in push[p].sold : WasShown(b)
    /\ AloneOrLater /\ AboutToClose /\ HasClosed

LEMMA PushInit == Init => PushInv
<1> SUFFICES ASSUME C!Init PROVE PushInv
  BY Zenon DEF Init
<1>1. push = [p \in Pushes |-> [at |-> "new", last |-> 1, shut |-> {}, sold |-> {}, alone |-> TRUE]]
  BY DEF C!Init, C!Blank
<1>2. push \in [Pushes -> PushRow]
  BY <1>1 DEF PushRow
<1>3. \A p \in Pushes : push[p].at = "new" /\ push[p].sold = {}
  BY <1>1
<1>4. QED BY <1>2, <1>3 DEF PushInv, AloneOrLater, AboutToClose, HasClosed, C!Running

\* What the desk does to a stay that was shown.
LEMMA ShownStays ==
  ASSUME DeskInv, D!Next, NEW b \in Requests, WasShown(b)
  PROVE  /\ WasShown(b)' /\ D!NightsOf(b)' = D!NightsOf(b)
         /\ C!Shown(b)' => C!Shown(b)
<1>1. ASSUME NEW c \in Requests, D!InsertBooking(c)
      PROVE  /\ booking[b] = booking'[b]
  <2>1. booking[c].status = "none" /\ b # c
    BY <1>1 DEF D!InsertBooking, DeskInv, WrittenOnce, BookingTypes, BookingRow, WasShown
  <2>2. QED BY <2>1, <1>1 DEF D!InsertBooking, DeskInv, BookingTypes
<1>2. ASSUME NEW c \in Requests, NEW to, booking' = [booking EXCEPT ![c].status = to]
      PROVE  /\ booking'[b].from = booking[b].from /\ booking'[b].to = booking[b].to
             /\ booking'[b].status = IF b = c THEN to ELSE booking[b].status
  BY <1>2 DEF DeskInv, BookingTypes, BookingRow
<1>3. ASSUME NEW c \in Requests, NEW from, NEW to, D!Transition(c, from, to)
      PROVE  /\ booking[c].status \in from
             /\ booking'[b].from = booking[b].from /\ booking'[b].to = booking[b].to
             /\ booking'[b].status = IF b = c THEN to ELSE booking[b].status
  BY <1>3, <1>2 DEF D!Transition
<1> DEFINE Keeps == /\ booking'[b].from = booking[b].from /\ booking'[b].to = booking[b].to
                    /\ WasShown(b)' /\ (C!Shown(b)' => C!Shown(b))
<1>4. ASSUME NEW c \in Requests, D!ConfirmBooking(c) PROVE Keeps
  BY <1>4, <1>3 DEF D!ConfirmBooking, WasShown, C!Shown
<1>5. ASSUME NEW c \in Requests, D!CheckInBooking(c) PROVE Keeps
  BY <1>5, <1>3 DEF D!CheckInBooking, WasShown, C!Shown
<1>6. ASSUME NEW c \in Requests, D!CheckOutBooking(c) PROVE Keeps
  BY <1>6, <1>3 DEF D!CheckOutBooking, WasShown, C!Shown
<1>7. ASSUME NEW c \in Requests, D!NoShowBooking(c) PROVE Keeps
  BY <1>7, <1>3 DEF D!NoShowBooking, WasShown, C!Shown
<1>8. ASSUME NEW c \in Requests, D!CancelBooking(c) PROVE Keeps
  <2>1. booking' = [booking EXCEPT ![c].status = "cancelled"]
    BY <1>8 DEF D!CancelBooking
  <2>2. QED BY <2>1, <1>2 DEF WasShown, C!Shown
<1>9. ASSUME booking' = booking PROVE Keeps
  BY <1>9 DEF WasShown, C!Shown
<1>10. ASSUME NEW c \in Requests, D!InsertBooking(c) PROVE Keeps
  BY <1>10, <1>1 DEF WasShown, C!Shown
<1>11. \/ booking' = booking
       \/ \E c \in Requests : \/ D!InsertBooking(c) \/ D!ConfirmBooking(c) \/ D!CheckInBooking(c)
                              \/ D!CheckOutBooking(c) \/ D!NoShowBooking(c) \/ D!CancelBooking(c)
  BY Zenon DEF D!Next, D!Step, D!Connect, D!LockResource, D!CheckBlocked, D!CheckOverlap, D!ComputeBookingPrice,
     D!PriceTimeout, D!CallFails, D!ReadToCancel, D!Request, D!SetAvailability, D!Goto, D!End
<1>12. Keeps
  BY <1>4, <1>5, <1>6, <1>7, <1>8, <1>9, <1>10, <1>11
<1>13. QED BY <1>12 DEF D!NightsOf

LEMMA DeskKeepsPushes ==
  ASSUME DeskInv, PushInv, D!Next, UNCHANGED <<push, closed>>
  PROVE  PushInv'
<1>1. \A p \in Pushes : \A b \in push[p].sold : b \in Requests /\ WasShown(b)
  BY DEF PushInv, PushRow
<1>2. \A p \in Pushes : \A b \in push[p].sold :
        WasShown(b)' /\ Window(p, b)' = Window(p, b) /\ (C!Shown(b)' => C!Shown(b))
  BY <1>1, ShownStays DEF Window
<1>3. \A p \in Pushes : C!Running(p)' = C!Running(p)
  BY DEF C!Running
<1>4. AloneOrLater'
  BY <1>2, <1>3 DEF PushInv, AloneOrLater
<1>5. AboutToClose'
  BY <1>2 DEF PushInv, AboutToClose
<1>6. HasClosed'
  BY <1>2 DEF PushInv, HasClosed
<1>7. QED BY <1>2, <1>4, <1>5, <1>6 DEF PushInv

\* A push that runs goes on or ends, and what it has closed is known.
LEMMA PushGoes ==
  ASSUME PushInv, NEW p \in Pushes, NEW n \in PushRow, push' = [push EXCEPT ![p] = n], UNCHANGED booking,
         n.at \in {"availability", "rates", "refused", "ok", "failed", "lost"},
         n.sold \subseteq push[p].sold,
         n.at \in {"availability", "rates", "ok"} =>
            C!Running(p) /\ n.sold = push[p].sold /\ n.last = push[p].last /\ n.alone = push[p].alone,
         n.at = "availability" => \A b \in n.sold : C!Shown(b) => Window(p, b) \subseteq n.shut,
         HasClosed'
  PROVE  PushInv'
<1>1. \A q \in Pushes : push'[q] = IF q = p THEN n ELSE push[q]
  BY DEF PushInv
<1>2. push' \in [Pushes -> PushRow]
  BY DEF PushInv
<1>3. \A b : (C!Shown(b)' <=> C!Shown(b)) /\ D!NightsOf(b)' = D!NightsOf(b) /\ (WasShown(b)' <=> WasShown(b))
  BY DEF C!Shown, D!NightsOf, WasShown
<1>4. \A q \in Pushes : \A b \in push'[q].sold : WasShown(b)'
  BY <1>1, <1>3 DEF PushInv
<1>5. \A q \in Pushes : C!Running(q)' => C!Running(q) /\ push'[q].sold = push[q].sold /\ push'[q].alone = push[q].alone
  BY <1>1 DEF C!Running
<1>6. AloneOrLater'
  <2> SUFFICES ASSUME NEW q \in Pushes, NEW r \in Pushes, q # r, push'[q].alone, C!Running(r)'
               PROVE  /\ ~C!Running(q)'
                      /\ push'[q].at = "ok" => \A b \in push'[q].sold : C!Shown(b) => b \in push'[r].sold
    BY <1>3 DEF AloneOrLater
  <2>1. C!Running(r) /\ push'[r].sold = push[r].sold
    BY <1>5
  <2>2. CASE q # p
    BY <2>1, <2>2, <1>1 DEF PushInv, AloneOrLater, C!Running
  <2>3. CASE q = p
    <3>1. ~(C!Running(p) /\ push[p].alone)
      BY <2>1, <2>3 DEF PushInv, AloneOrLater
    <3>2. n.at \notin {"availability", "rates", "ok"}
      BY <3>1, <2>3, <1>1
    <3>3. QED BY <3>2, <2>3, <1>1 DEF C!Running
  <2>4. QED BY <2>2, <2>3
<1>7. \A q \in Pushes : \A b : q # p \/ n.at = "availability" => Window(q, b)' = Window(q, b)
  BY <1>1, <1>3 DEF Window
<1>8. AboutToClose'
  BY <1>1, <1>3, <1>7 DEF PushInv, AboutToClose
<1>9. QED BY <1>2, <1>4, <1>6, <1>8 DEF PushInv

\* A push that starts tells those that run that they are not alone.
LEMMA PushStarts ==
  ASSUME DeskInv, PushInv, NEW p \in Pushes, NEW last \in C!B!Nights, C!ReadAvailability(p, last)
  PROVE  PushInv'
<1> DEFINE n == [at |-> "bookings", last |-> last, shut |-> blocked \cap (1 .. last),
                 sold |-> {b \in Requests : C!Shown(b)}, alone |-> \A r \in Pushes : ~C!Running(r)]
<1>1. n \in PushRow /\ n.at = "bookings" /\ n.sold = {b \in Requests : C!Shown(b)}
      /\ (n.alone <=> \A r \in Pushes : ~C!Running(r))
  <2>1. last \in Nat /\ blocked \cap (1 .. last) \in SUBSET Nat
    BY LastNightAssumption DEF C!B!Nights
  <2>2. (\A r \in Pushes : ~C!Running(r)) \in BOOLEAN
    OBVIOUS
  <2>3. QED BY <2>1, <2>2 DEF PushRow
<1>2. push[p].at = "new" /\ UNCHANGED <<booking, closed>>
      /\ push' = [q \in Pushes |-> IF q = p THEN n
                                   ELSE [push[q] EXCEPT !.alone = push[q].alone /\ ~C!Running(q)]]
  BY DEF C!ReadAvailability, C!bvars
<1> HIDE DEF n
<1>3. \A z \in PushRow, a \in BOOLEAN :
        LET w == [z EXCEPT !.alone = a]
        IN w \in PushRow /\ w.at = z.at /\ w.last = z.last /\ w.shut = z.shut /\ w.sold = z.sold
           /\ (w.alone <=> a)
  BY DEF PushRow
<1>4. \A q \in Pushes : q # p =>
        /\ push'[q] \in PushRow /\ push'[q].at = push[q].at /\ push'[q].last = push[q].last
        /\ push'[q].shut = push[q].shut /\ push'[q].sold = push[q].sold
        /\ (push'[q].alone <=> push[q].alone /\ ~C!Running(q))
  <2> TAKE q \in Pushes
  <2> HAVE q # p
  <2>1. push[q] \in PushRow /\ (push[q].alone /\ ~C!Running(q)) \in BOOLEAN
    BY DEF PushInv
  <2>2. push'[q] = [push[q] EXCEPT !.alone = push[q].alone /\ ~C!Running(q)]
    BY <1>2
  <2> DEFINE a == push[q].alone /\ ~C!Running(q)
  <2>3. a \in BOOLEAN /\ push'[q] = [push[q] EXCEPT !.alone = a]
    BY <2>1, <2>2
  <2> HIDE DEF a
  <2>4. /\ push'[q] \in PushRow /\ push'[q].at = push[q].at /\ push'[q].last = push[q].last
        /\ push'[q].shut = push[q].shut /\ push'[q].sold = push[q].sold
        /\ (push'[q].alone <=> a)
    BY <2>1, <2>3, <1>3
  <2>5. QED BY <2>4 DEF a
<1>5. push'[p] = n
  BY <1>2
<1>6. push' \in [Pushes -> PushRow]
  <2>1. \A q \in Pushes : push'[q] \in PushRow
    BY <1>1, <1>4, <1>5
  <2>2. QED BY <2>1, <1>2
<1>7. \A b : (C!Shown(b)' <=> C!Shown(b)) /\ D!NightsOf(b)' = D!NightsOf(b) /\ (WasShown(b)' <=> WasShown(b))
  BY <1>2 DEF C!Shown, D!NightsOf, WasShown
<1>8. \A q \in Pushes : \A b \in push'[q].sold : WasShown(b)'
  BY <1>1, <1>4, <1>5, <1>7 DEF PushInv, C!Shown, WasShown
<1>9. \A q \in Pushes : q # p => (C!Running(q)' <=> C!Running(q))
  BY <1>4 DEF C!Running
<1>10. AloneOrLater'
  <2> SUFFICES ASSUME NEW q \in Pushes, NEW r \in Pushes, q # r, push'[q].alone, C!Running(r)'
               PROVE  /\ ~C!Running(q)'
                      /\ push'[q].at = "ok" => \A b \in push'[q].sold : C!Shown(b) => b \in push'[r].sold
    BY <1>7 DEF AloneOrLater
  <2>1. CASE q = p
    BY <2>1, <1>1, <1>5, <1>9
  <2>2. CASE q # p /\ r = p
    <3>1. push[q].alone /\ ~C!Running(q)
      BY <2>2, <1>4
    <3>2. ~C!Running(q)'
      BY <3>1, <2>2, <1>9
    <3>3. \A b \in push'[q].sold : b \in Requests
      BY <1>6 DEF PushRow
    <3>4. QED BY <3>2, <3>3, <2>2, <1>1, <1>5
  <2>3. CASE q # p /\ r # p
    BY <2>3, <1>4, <1>9 DEF PushInv, AloneOrLater
  <2>4. QED BY <2>1, <2>2, <2>3
<1>11. \A q \in Pushes : \A b : q # p => Window(q, b)' = Window(q, b)
  BY <1>4, <1>7 DEF Window
<1>12. AboutToClose'
  <2> SUFFICES ASSUME NEW q \in Pushes, push'[q].at = "availability", NEW b \in push'[q].sold, C!Shown(b)
               PROVE  Window(q, b)' \subseteq push'[q].shut
    BY <1>7 DEF AboutToClose
  <2>1. q # p
    BY <1>1, <1>5
  <2>2. QED BY <2>1, <1>4, <1>11 DEF PushInv, AboutToClose
<1>13. HasClosed'
  <2> SUFFICES ASSUME NEW q \in Pushes, push'[q].at \in {"rates", "ok"}, push'[q].alone,
                      NEW b \in push'[q].sold, C!Shown(b)
               PROVE  Window(q, b)' \subseteq closed'
    BY <1>7 DEF HasClosed
  <2>1. q # p
    BY <1>1, <1>5
  <2>2. push[q].at \in {"rates", "ok"} /\ push[q].alone /\ b \in push[q].sold
    BY <2>1, <1>4
  <2>3. Window(q, b) \subseteq closed
    BY <2>2 DEF PushInv, HasClosed
  <2>4. QED BY <2>1, <2>3, <1>2, <1>11
<1>14. QED BY <1>6, <1>8, <1>10, <1>12, <1>13 DEF PushInv

\* The records a push becomes.
LEMMA PushRecords ==
  /\ \A z \in PushRow, held \in SUBSET Nat :
        LET w == [z EXCEPT !.at = "availability", !.shut = @ \cup held]
        IN /\ w \in PushRow /\ w.at = "availability" /\ w.last = z.last /\ w.shut = z.shut \cup held
           /\ w.sold = z.sold /\ (w.alone <=> z.alone)
  /\ \A z \in PushRow, at \in {"rates", "refused"} :
        LET w == [z EXCEPT !.at = at]
        IN w \in PushRow /\ w.at = at /\ w.last = z.last /\ w.sold = z.sold /\ w.alone = z.alone
  /\ \A z \in PushRow :
        LET w == [z EXCEPT !.at = "ok", !.shut = {}]
        IN w \in PushRow /\ w.at = "ok" /\ w.last = z.last /\ w.sold = z.sold /\ w.alone = z.alone
  /\ \A at \in {"failed", "lost"} : C!Blank(at) \in PushRow /\ C!Blank(at).at = at /\ C!Blank(at).sold = {}
BY DEF PushRow, C!Blank

\* What is closed stays closed, whatever becomes of the push itself.
LEMMA ClosedStays ==
  ASSUME PushInv, NEW p \in Pushes, NEW n \in PushRow, push' = [push EXCEPT ![p] = n],
         UNCHANGED <<booking, closed>>,
         n.at \in {"rates", "ok"} =>
            push[p].at = "rates" /\ n.sold = push[p].sold /\ n.last = push[p].last /\ n.alone = push[p].alone
  PROVE  HasClosed'
<1>1. \A q \in Pushes : push'[q] = IF q = p THEN n ELSE push[q]
  BY DEF PushInv
<1>2. \A b : (C!Shown(b)' <=> C!Shown(b)) /\ D!NightsOf(b)' = D!NightsOf(b)
  BY DEF C!Shown, D!NightsOf
<1> SUFFICES ASSUME NEW q \in Pushes, push'[q].at \in {"rates", "ok"}, push'[q].alone,
                    NEW b \in push'[q].sold, C!Shown(b)
             PROVE  Window(q, b)' \subseteq closed'
  BY <1>2 DEF HasClosed
<1>3. /\ push[q].at \in {"rates", "ok"} /\ push[q].alone /\ b \in push[q].sold
      /\ push'[q].last = push[q].last
  BY <1>1
<1>4. QED BY <1>2, <1>3 DEF PushInv, HasClosed, Window

LEMMA ReadingShuts ==
  ASSUME DeskInv, PushInv, NEW p \in Pushes, C!ReadBookings(p)
  PROVE  PushInv'
<1> DEFINE held == (1 .. push[p].last) \cap
                UNION {C!B!NightsOf(b) : b \in {b \in Requests : C!Shown(b) /\ C!InWindow(b, push[p].last)}}
           n == [push[p] EXCEPT !.at = "availability", !.shut = @ \cup held]
<1>1. push[p] \in PushRow /\ push[p].at = "bookings" /\ UNCHANGED <<booking, closed>>
  BY DEF PushInv, C!ReadBookings, C!bvars
<1>2. held \in SUBSET Nat
  <2>1. push[p].last \in Nat
    BY <1>1 DEF PushRow
  <2>2. QED BY <2>1
<1>3. push' = [push EXCEPT ![p] = n]
  BY <1>1 DEF C!ReadBookings, PushInv
<1>4. \A b \in Requests : C!Shown(b) => Window(p, b) \subseteq held
  <2> SUFFICES ASSUME NEW b \in Requests, C!Shown(b), NEW m \in D!NightsOf(b) \cap (1 .. push[p].last)
               PROVE  m \in held
    BY DEF Window
  <2>1. booking[b].from \in Nat /\ booking[b].to \in Nat /\ push[p].last \in Nat
    BY <1>1, LastNightAssumption DEF DeskInv, BookingTypes, BookingRow, D!Dates, PushRow
  <2>2. C!InWindow(b, push[p].last)
    BY <2>1 DEF D!NightsOf, C!InWindow
  <2>3. m \in C!B!NightsOf(b)
    BY DEF D!NightsOf, C!B!NightsOf
  <2>4. QED BY <2>2, <2>3
<1> HIDE DEF held
<1>5. /\ n \in PushRow /\ n.at = "availability" /\ n.last = push[p].last /\ n.shut = push[p].shut \cup held
      /\ n.sold = push[p].sold /\ (n.alone <=> push[p].alone)
  BY <1>1, <1>2, PushRecords
<1>6. n.alone = push[p].alone
  BY <1>1, <1>5 DEF PushRow
<1> HIDE DEF n
<1>7. \A b \in n.sold : C!Shown(b) => Window(p, b) \subseteq n.shut
  <2>1. n.sold \subseteq Requests
    BY <1>5 DEF PushRow
  <2>2. QED BY <2>1, <1>4, <1>5
<1>8. HasClosed'
  BY <1>1, <1>3, <1>5, ClosedStays
<1>9. C!Running(p)
  BY <1>1 DEF C!Running
<1>10. QED BY <1>1, <1>3, <1>5, <1>6, <1>7, <1>8, <1>9, PushGoes

LEMMA AnswerCloses ==
  ASSUME DeskInv, PushInv, NEW p \in Pushes, C!PushAvailability(p)
  PROVE  PushInv'
<1>1. PICK taken \in BOOLEAN : \E answered \in BOOLEAN :
          /\ closed' = IF taken THEN (closed \ (1 .. push[p].last)) \cup push[p].shut ELSE closed
          /\ push' = [push EXCEPT ![p].at = IF taken /\ answered THEN "rates" ELSE "refused"]
  BY Zenon DEF C!PushAvailability
<1>2. PICK answered \in BOOLEAN :
          /\ closed' = IF taken THEN (closed \ (1 .. push[p].last)) \cup push[p].shut ELSE closed
          /\ push' = [push EXCEPT ![p].at = IF taken /\ answered THEN "rates" ELSE "refused"]
  BY Zenon, <1>1
<1> DEFINE at == IF taken /\ answered THEN "rates" ELSE "refused"
           n == [push[p] EXCEPT !.at = at]
<1>3. push[p] \in PushRow /\ push[p].at = "availability" /\ UNCHANGED booking
  BY DEF PushInv, C!PushAvailability, C!bvars
<1>4. push' = [push EXCEPT ![p] = n]
  BY <1>2 DEF PushInv
<1>5. at \in {"rates", "refused"} /\ (at = "rates" => taken)
  OBVIOUS
<1> HIDE DEF at
<1>6. n \in PushRow /\ n.at = at /\ n.last = push[p].last /\ n.sold = push[p].sold /\ n.alone = push[p].alone
  <2>1. at \in {"rates", "refused"}
    BY <1>5
  <2>2. QED BY <1>3, <2>1 DEF PushRow
<1> HIDE DEF n
<1>7. C!Running(p)
  BY <1>3 DEF C!Running
<1>8. \A b : (C!Shown(b)' <=> C!Shown(b)) /\ D!NightsOf(b)' = D!NightsOf(b)
  BY <1>3 DEF C!Shown, D!NightsOf
<1>9. \A q \in Pushes : push'[q] = IF q = p THEN n ELSE push[q]
  BY <1>4 DEF PushInv
<1>10. HasClosed'
  <2> SUFFICES ASSUME NEW q \in Pushes, push'[q].at \in {"rates", "ok"}, push'[q].alone,
                      NEW b \in push'[q].sold, C!Shown(b)
               PROVE  Window(q, b)' \subseteq closed'
    BY <1>8 DEF HasClosed
  <2>1. push'[q].last = push[q].last /\ b \in push[q].sold /\ Window(q, b)' = Window(q, b)
    BY <1>6, <1>8, <1>9 DEF Window
  <2>2. CASE q = p
    <3>1. taken
      BY <2>2, <1>5, <1>6, <1>9
    <3>2. Window(p, b) \subseteq push[p].shut
      BY <2>1, <2>2, <1>3 DEF PushInv, AboutToClose
    <3>3. QED BY <3>1, <3>2, <2>1, <2>2, <1>2
  <2>3. CASE q # p
    <3>1. push[q].at = "ok" /\ push[q].alone
      BY <2>3, <1>7, <1>9 DEF PushInv, AloneOrLater, C!Running
    <3>2. b \in push[p].sold
      BY <3>1, <2>1, <2>3, <1>7 DEF PushInv, AloneOrLater
    <3>3. Window(p, b) \subseteq push[p].shut
      BY <3>2, <1>3 DEF PushInv, AboutToClose
    <3>4. Window(q, b) \subseteq closed
      BY <3>1, <2>1 DEF PushInv, HasClosed
    <3>5. Window(q, b) \cap (1 .. push[p].last) \subseteq Window(p, b)
      BY DEF Window
    <3>6. QED BY <3>3, <3>4, <3>5, <2>1, <1>2
  <2>4. QED BY <2>2, <2>3
<1>11. QED BY <1>4, <1>5, <1>6, <1>7, <1>10, <1>3, PushGoes

LEMMA RatesEnd ==
  ASSUME DeskInv, PushInv, NEW p \in Pushes, C!PushRates(p) \/ C!PushDies(p)
  PROVE  PushInv'
<1>1. push[p] \in PushRow /\ UNCHANGED <<booking, closed>>
  BY DEF PushInv, C!PushRates, C!PushDies, C!bvars
<1>2. CASE push[p].at = "rates" /\ push' = [push EXCEPT ![p].at = "ok", ![p].shut = {}]
  <2> DEFINE n == [push[p] EXCEPT !.at = "ok", !.shut = {}]
  <2>1. n \in PushRow /\ n.at = "ok" /\ n.last = push[p].last /\ n.sold = push[p].sold /\ n.alone = push[p].alone
    BY <1>1, PushRecords
  <2>2. push' = [push EXCEPT ![p] = n]
    BY <1>2 DEF PushInv
  <2> HIDE DEF n
  <2>3. HasClosed'
    BY <1>1, <1>2, <2>1, <2>2, ClosedStays
  <2>4. C!Running(p)
    BY <1>2 DEF C!Running
  <2>5. QED BY <1>1, <2>1, <2>2, <2>3, <2>4, PushGoes
<1>3. CASE \E at \in {"failed", "lost"} : push' = [push EXCEPT ![p] = C!Blank(at)]
  <2>1. PICK at \in {"failed", "lost"} : push' = [push EXCEPT ![p] = C!Blank(at)]
    BY <1>3
  <2>2. C!Blank(at) \in PushRow /\ C!Blank(at).at = at /\ C!Blank(at).sold = {}
    BY PushRecords
  <2>3. HasClosed'
    BY <1>1, <2>1, <2>2, ClosedStays
  <2>4. QED BY <1>1, <2>1, <2>2, <2>3, PushGoes
<1>4. QED BY <1>2, <1>3 DEF C!PushRates, C!PushDies

LEMMA PushStep ==
  ASSUME DeskInv, PushInv, [Next]_vars
  PROVE  PushInv'
<1>1. ASSUME UNCHANGED <<booking, push, closed>> PROVE PushInv'
  BY <1>1 DEF PushInv, WasShown, AloneOrLater, AboutToClose, HasClosed, Window, C!Running, C!Shown, D!NightsOf
<1>2. CASE D!Next /\ UNCHANGED conly
  BY <1>2, DeskKeepsPushes DEF conly
<1>3. CASE UNCHANGED <<donly, conly>>
  BY <1>3, <1>1 DEF donly, conly
<1>4. CASE C!ChannelNext
  <2>1. ASSUME NEW p \in Pushes, NEW last \in C!B!Nights, C!ReadAvailability(p, last) PROVE PushInv'
    BY <2>1, PushStarts
  <2>2. ASSUME NEW p \in Pushes, C!ReadBookings(p) \/ C!PushAvailability(p) \/ C!PushRates(p) \/ C!PushDies(p)
        PROVE  PushInv'
    BY <2>2, ReadingShuts, AnswerCloses, RatesEnd
  <2>3. ASSUME NEW i \in Imports,
               (\E dates \in SUBSET C!B!Nights : C!ImportICalFeed(i, dates))
               \/ (\E m \in C!B!Nights : C!BlockDate(i, m)) \/ C!ImportEnds(i)
        PROVE  UNCHANGED <<booking, push, closed>>
    BY Zenon, <2>3 DEF C!ImportICalFeed, C!BlockDate, C!ImportEnds, C!bvars, C!B!SetAvailability
  <2>4. QED BY Zenon, <1>1, <1>4, <2>1, <2>2, <2>3 DEF C!ChannelNext
<1>5. QED BY <1>2, <1>3, <1>4, DeskFrame

\* A push that ended well, alone, has closed the nights of every stay that was sold when it
\* began and is still on: whatever was booked, cancelled and blocked while it ran, and whatever
\* later pushes, that died or went unanswered, have sent since (pushARIToProvider).
THEOREM PushedNightsAreClosed == Spec => []SoldNightsAreClosed
<1>1. DeskInv /\ PushInv => SoldNightsAreClosed
  <2> SUFFICES ASSUME DeskInv, PushInv, NEW p \in Pushes, push[p].at = "ok", push[p].alone,
                      NEW b \in push[p].sold, C!Shown(b)
               PROVE  C!B!NightsOf(b) \cap (1 .. push[p].last) \subseteq closed
    BY DEF SoldNightsAreClosed, C!SoldNightsAreClosed
  <2>1. C!B!NightsOf(b) = D!NightsOf(b)
    BY DEF C!B!NightsOf, D!NightsOf
  <2>2. QED BY <2>1 DEF PushInv, HasClosed, Window
<1>2. DeskInv /\ PushInv /\ [Next]_vars => PushInv'
  BY PushStep
<1>3. QED BY <1>1, <1>2, DeskAlways, PushInit, PTL DEF Spec

-----------------------------------------------------------------------------
(* The search index.                                                       *)

LEMMA IndexFrame ==
  ASSUME [Next]_vars
  PROVE  X!Next \/ UNCHANGED xonly
BY Zenon DEF Next, vars, Desk, Channels, Noticed, Indexed

\* A sequence, whatever it is a sequence of.
IsSequence(s) == s \in Seq({s[i] : i \in 1 .. Len(s)})

\* A record of the four fields.
Job(n) == [at |-> n.at, queue |-> n.queue, batch |-> n.batch, docs |-> n.docs]
IndexTypes ==
    /\ version \in [Products -> Nat] /\ DOMAIN vector = Products
    /\ DOMAIN job = Workers
    /\ \A w \in Workers : /\ job[w] = Job(job[w]) /\ IsSequence(job[w].docs)
                          /\ job[w].at \in {"embed", "write"} => job[w].docs # <<>>

\* What a worker has fetched is the text of now, unless an edit it does not notice came after.
CurrentDoc(d) == d.id \in Products \ missed => d.version = version[d.id]
FetchedIsCurrent == \A w \in Workers : \A i \in 1 .. Len(job[w].docs) : CurrentDoc(job[w].docs[i])

IndexInv == IndexTypes /\ FetchedIsCurrent /\ IndexedIsCurrent

LEMMA IndexInit == Init => IndexInv
<1> SUFFICES ASSUME X!Init PROVE IndexInv
  BY Zenon DEF Init
<1>1. \A w \in Workers : job[w] = [at |-> "idle", queue |-> <<>>, batch |-> <<>>, docs |-> <<>>]
  BY DEF X!Init, X!Idle
<1>2. IsSequence(<<>>)
  BY DEF IsSequence
<1>3. IndexTypes
  BY <1>1, <1>2 DEF IndexTypes, X!Init, Job
<1>4. FetchedIsCurrent
  BY <1>1 DEF FetchedIsCurrent
<1>5. IndexedIsCurrent
  BY DEF IndexedIsCurrent, X!IndexedIsCurrent, X!Init
<1>6. QED BY <1>3, <1>4, <1>5 DEF IndexInv

LEMMA AppendIsSequence ==
  ASSUME NEW s, NEW e, IsSequence(s)
  PROVE  /\ IsSequence(Append(s, e)) /\ Append(s, e) # <<>> /\ Len(s) \in Nat
         /\ Len(Append(s, e)) = Len(s) + 1
         /\ \A i \in 1 .. Len(s) + 1 : Append(s, e)[i] = IF i = Len(s) + 1 THEN e ELSE s[i]
<1> DEFINE S == {s[i] : i \in 1 .. Len(s)} \cup {e}
<1>1. s \in Seq(S) /\ e \in S
  BY DEF IsSequence
<1> HIDE DEF S
<1>2. /\ Append(s, e) \in Seq(S) /\ Len(Append(s, e)) = Len(s) + 1 /\ Len(s) \in Nat
      /\ \A i \in 1 .. Len(s) + 1 : Append(s, e)[i] = IF i = Len(s) + 1 THEN e ELSE s[i]
  BY <1>1
<1> DEFINE t == Append(s, e)
           T == {t[i] : i \in 1 .. Len(t)}
<1>3. \A i \in 1 .. Len(t) : t[i] \in T
  OBVIOUS
<1>4. t \in Seq(S)
  BY <1>2
<1> HIDE DEF t, T
<1>5. t \in Seq(T)
  BY <1>3, <1>4
<1>6. IsSequence(t)
  BY <1>5 DEF T, IsSequence
<1>7. QED BY <1>2, <1>6 DEF t

LEMMA TailIsSequence ==
  ASSUME NEW s, IsSequence(s), s # <<>>
  PROVE  /\ IsSequence(Tail(s)) /\ Head(s) = s[1] /\ Len(s) \in Nat \ {0}
         /\ Len(Tail(s)) = Len(s) - 1
         /\ \A i \in 1 .. Len(s) - 1 : Tail(s)[i] = s[i + 1]
<1> DEFINE S == {s[i] : i \in 1 .. Len(s)}
<1>1. s \in Seq(S)
  BY DEF IsSequence
<1> HIDE DEF S
<1>2. /\ Tail(s) \in Seq(S) /\ Head(s) = s[1] /\ Len(s) \in Nat \ {0} /\ Len(Tail(s)) = Len(s) - 1
      /\ \A i \in 1 .. Len(s) - 1 : Tail(s)[i] = s[i + 1]
  BY <1>1
<1> DEFINE t == Tail(s)
           T == {t[i] : i \in 1 .. Len(t)}
<1>3. \A i \in 1 .. Len(t) : t[i] \in T
  OBVIOUS
<1>4. t \in Seq(S)
  BY <1>2
<1> HIDE DEF t, T
<1>5. t \in Seq(T)
  BY <1>3, <1>4
<1>6. IsSequence(t)
  BY <1>5 DEF T, IsSequence
<1>7. QED BY <1>2, <1>6 DEF t

\* A worker goes on with what it has fetched, or with less, or with more of the same kind.
LEMMA JobMoves ==
  ASSUME IndexInv, NEW w \in Workers, NEW n, n = Job(n), job' = [job EXCEPT ![w] = n],
         IsSequence(n.docs), n.at \in {"embed", "write"} => n.docs # <<>>,
         UNCHANGED <<version, missed>>, DOMAIN vector' = DOMAIN vector,
         \A i \in 1 .. Len(n.docs) : CurrentDoc(n.docs[i]),
         IndexedIsCurrent'
  PROVE  IndexInv'
<1>1. DOMAIN job' = Workers /\ \A v \in Workers : job'[v] = IF v = w THEN n ELSE job[v]
  BY DEF IndexInv, IndexTypes
<1>2. IndexTypes'
  BY <1>1 DEF IndexInv, IndexTypes
<1>3. FetchedIsCurrent'
  BY <1>1 DEF IndexInv, FetchedIsCurrent, CurrentDoc
<1>4. QED BY <1>2, <1>3 DEF IndexInv

\* The record it is, by its fields.
LEMMA JobFields ==
  ASSUME NEW at, NEW queue, NEW batch, NEW docs
  PROVE  LET n == [at |-> at, queue |-> queue, batch |-> batch, docs |-> docs]
         IN n = Job(n) /\ n.at = at /\ n.docs = docs
BY DEF Job

LEMMA NothingFetched == IsSequence(<<>>) /\ \A i \in 1 .. Len(<<>>) : CurrentDoc(<<>>[i])
BY DEF IsSequence

LEMMA Untouched ==
  ASSUME IndexInv, UNCHANGED <<version, vector, due, missed>>
  PROVE  IndexedIsCurrent'
BY DEF IndexInv, IndexedIsCurrent, X!IndexedIsCurrent

LEMMA FurtherStarts ==
  ASSUME NEW queue
  PROVE  LET n == X!Further(queue)
         IN n = Job(n) /\ n.at \notin {"embed", "write"} /\ n.docs = <<>>
<1>1. CASE queue = <<>>
  <2>1. X!Further(queue) = [at |-> "release", queue |-> <<>>, batch |-> <<>>, docs |-> <<>>]
    BY <1>1 DEF X!Further, X!Idle
  <2>2. QED BY <2>1, JobFields
<1>2. CASE queue # <<>>
  <2> DEFINE n == IF Len(queue) < Batch THEN Len(queue) ELSE Batch
             queueLeft == SubSeq(queue, n + 1, Len(queue))
             batch == SubSeq(queue, 1, n)
  <2>1. X!Further(queue) = [at |-> "fetch", queue |-> queueLeft, batch |-> batch, docs |-> <<>>]
    BY <1>2 DEF X!Further
  <2> HIDE DEF queueLeft, batch
  <2>2. QED BY <2>1, JobFields
<1>3. QED BY <1>1, <1>2

LEMMA JobFurther ==
  ASSUME IndexInv, NEW w \in Workers, NEW queue, job' = [job EXCEPT ![w] = X!Further(queue)],
         UNCHANGED <<version, missed>>, DOMAIN vector' = DOMAIN vector, IndexedIsCurrent'
  PROVE  IndexInv'
<1> DEFINE n == X!Further(queue)
<1>1. n = Job(n) /\ n.at \notin {"embed", "write"} /\ n.docs = <<>>
  BY FurtherStarts
<1> HIDE DEF n
<1>2. IsSequence(n.docs) /\ \A i \in 1 .. Len(n.docs) : CurrentDoc(n.docs[i])
  BY <1>1, NothingFetched
<1>3. QED BY <1>1, <1>2, JobMoves DEF n

LEMMA JobAt ==
  ASSUME IndexInv, NEW w \in Workers, NEW at, job' = [job EXCEPT ![w].at = at],
         at \in {"embed", "write"} => job[w].at \in {"embed", "write"},
         UNCHANGED <<version, vector, due, missed>>
  PROVE  IndexInv'
<1> DEFINE n == [job[w] EXCEPT !.at = at]
<1>1. job[w] = Job(job[w]) /\ DOMAIN job = Workers
  BY DEF IndexInv, IndexTypes
<1>2. n = Job(n) /\ n.at = at /\ n.docs = job[w].docs
  BY <1>1 DEF Job
<1>3. job' = [job EXCEPT ![w] = n]
  OBVIOUS
<1> HIDE DEF n
<1>4. /\ IsSequence(n.docs) /\ (n.at \in {"embed", "write"} => n.docs # <<>>)
      /\ \A i \in 1 .. Len(n.docs) : CurrentDoc(n.docs[i])
  BY <1>2 DEF IndexInv, IndexTypes, FetchedIsCurrent
<1>5. QED BY <1>2, <1>3, <1>4, JobMoves, Untouched

LEMMA JobIdles ==
  ASSUME IndexInv, NEW w \in Workers, job' = [job EXCEPT ![w] = X!Idle],
         UNCHANGED <<version, vector, due, missed>>
  PROVE  IndexInv'
<1> DEFINE n == X!Idle
<1>1. n = Job(n) /\ n.at = "idle" /\ n.docs = <<>>
  BY DEF X!Idle, Job
<1> HIDE DEF n
<1>2. IsSequence(n.docs) /\ \A i \in 1 .. Len(n.docs) : CurrentDoc(n.docs[i])
  BY <1>1, NothingFetched
<1>3. QED BY <1>1, <1>2, JobMoves, Untouched DEF n

LEMMA FetchIsCurrent ==
  ASSUME IndexInv, NEW w \in Workers, X!FetchProductForIndexing(w)
  PROVE  IndexInv'
<1> DEFINE p == Head(job[w].batch)
           d == [id |-> p, version |-> version[p]]
           docs == Append(job[w].docs, d)
           at == IF Tail(job[w].batch) = <<>> THEN "embed" ELSE "fetch"
<1>1. /\ job' = [job EXCEPT ![w].at = at, ![w].batch = Tail(job[w].batch), ![w].docs = Append(@, d)]
      /\ UNCHANGED <<version, vector, due, missed>>
  BY DEF X!FetchProductForIndexing
<1>2. CurrentDoc(d)
  BY DEF CurrentDoc
<1>3. job[w] = Job(job[w]) /\ DOMAIN job = Workers /\ IsSequence(job[w].docs)
  BY DEF IndexInv, IndexTypes
<1>4. \A i \in 1 .. Len(job[w].docs) : CurrentDoc(job[w].docs[i])
  BY DEF IndexInv, FetchedIsCurrent
<1> HIDE DEF d, at
<1>5. IsSequence(docs) /\ docs # <<>> /\ \A i \in 1 .. Len(docs) : CurrentDoc(docs[i])
  BY <1>2, <1>3, <1>4, AppendIsSequence
<1> DEFINE batch == Tail(job[w].batch)
           n == [job[w] EXCEPT !.at = at, !.batch = batch, !.docs = docs]
<1>6. job' = [job EXCEPT ![w] = n]
  BY <1>1, <1>3
<1> HIDE DEF docs
<1>7. n = Job(n) /\ n.docs = docs
  <2> HIDE DEF batch
  <2> DEFINE queue == job[w].queue
             y == [job[w] EXCEPT !.at = at]
             z == [y EXCEPT !.batch = batch]
  <2>1. y = [at |-> at, queue |-> queue, batch |-> job[w].batch, docs |-> job[w].docs]
    <3>1. [Job(job[w]) EXCEPT !.at = at] = [at |-> at, queue |-> queue, batch |-> job[w].batch, docs |-> job[w].docs]
      BY DEF Job
    <3>2. QED BY <3>1, <1>3
  <2> HIDE DEF queue, y
  <2>2. z = [at |-> at, queue |-> queue, batch |-> batch, docs |-> job[w].docs]
    BY <2>1
  <2>3. n = [z EXCEPT !.docs = docs]
    BY DEF y
  <2> HIDE DEF z
  <2>4. n = [at |-> at, queue |-> queue, batch |-> batch, docs |-> docs]
    BY <2>2, <2>3
  <2> HIDE DEF n
  <2>5. QED BY <2>4, JobFields
<1> HIDE DEF n
<1>8. QED BY <1>1, <1>5, <1>6, <1>7, JobMoves, Untouched

LEMMA WriteIsCurrent ==
  ASSUME IndexInv, NEW w \in Workers, X!WriteEmbedding(w)
  PROVE  IndexInv'
<1> DEFINE d == Head(job[w].docs)
           rest == Tail(job[w].docs)
<1>1. /\ job[w].at = "write"
      /\ vector' = [vector EXCEPT ![d.id] = d.version] /\ due' = due \ {d.id}
      /\ job' = [job EXCEPT ![w] = IF rest = <<>> THEN X!Further(@.queue) ELSE [@ EXCEPT !.docs = rest]]
      /\ UNCHANGED <<version, missed>>
  BY DEF X!WriteEmbedding
<1>2. /\ job[w] = Job(job[w]) /\ DOMAIN job = Workers /\ IsSequence(job[w].docs) /\ job[w].docs # <<>>
      /\ DOMAIN vector = Products
  BY <1>1 DEF IndexInv, IndexTypes
<1>3. \A i \in 1 .. Len(job[w].docs) : CurrentDoc(job[w].docs[i])
  BY DEF IndexInv, FetchedIsCurrent
<1>4. IsSequence(rest) /\ d = job[w].docs[1] /\ 1 \in 1 .. Len(job[w].docs)
      /\ \A i \in 1 .. Len(rest) : rest[i] = job[w].docs[i + 1] /\ i + 1 \in 1 .. Len(job[w].docs)
  BY <1>2, TailIsSequence
<1>5. CurrentDoc(d) /\ \A i \in 1 .. Len(rest) : CurrentDoc(rest[i])
  BY <1>3, <1>4
<1> HIDE DEF d, rest
<1>6. IndexedIsCurrent'
  <2> SUFFICES ASSUME NEW p \in Products, p \notin due' \cup missed' PROVE vector'[p] = version'[p]
    BY DEF IndexedIsCurrent, X!IndexedIsCurrent
  <2>1. CASE p = d.id
    BY <2>1, <1>1, <1>2, <1>5 DEF CurrentDoc
  <2>2. CASE p # d.id
    BY <2>2, <1>1, <1>2 DEF IndexInv, IndexedIsCurrent, X!IndexedIsCurrent
  <2>3. QED BY <2>1, <2>2
<1>7. DOMAIN vector' = DOMAIN vector
  BY <1>1
<1>8. CASE rest = <<>>
  <2>1. job' = [job EXCEPT ![w] = X!Further(job[w].queue)]
    BY <1>8, <1>1
  <2>2. QED BY <2>1, <1>1, <1>6, <1>7, JobFurther
<1>9. CASE rest # <<>>
  <2> DEFINE n == [job[w] EXCEPT !.docs = rest]
  <2>1. job' = [job EXCEPT ![w] = n]
    BY <1>9, <1>1
  <2>2. n = Job(n) /\ n.docs = rest
    BY <1>2 DEF Job
  <2> HIDE DEF n
  <2>3. QED BY <2>1, <2>2, <1>1, <1>4, <1>5, <1>6, <1>7, <1>9, JobMoves
<1>10. QED BY <1>8, <1>9

LEMMA EditIsNoticed ==
  ASSUME IndexInv, NEW p \in Products, X!EditProduct(p) \/ X!EditVariant(p)
  PROVE  IndexInv'
<1>1. /\ version' = [version EXCEPT ![p] = @ + 1] /\ UNCHANGED <<vector, job>>
      /\ p \notin missed' => p \in due' /\ ~X!Held(p)
      /\ missed \ {p} \subseteq missed' /\ due \subseteq due'
  BY DEF X!EditProduct, X!EditVariant
<1>2. version' \in [Products -> Nat] /\ \A q \in Products : q # p => version'[q] = version[q]
  BY <1>1 DEF IndexInv, IndexTypes
<1>3. IndexTypes'
  BY <1>1, <1>2 DEF IndexInv, IndexTypes, Job
<1>4. FetchedIsCurrent'
  <2> SUFFICES ASSUME NEW w \in Workers, NEW i \in 1 .. Len(job[w].docs),
                      job[w].docs[i].id \in Products \ missed'
               PROVE  job[w].docs[i].version = version'[job[w].docs[i].id]
    BY <1>1 DEF FetchedIsCurrent, CurrentDoc
  <2>1. job[w].docs[i].id # p
    BY <1>1 DEF X!Held
  <2>2. QED BY <2>1, <1>1, <1>2 DEF IndexInv, FetchedIsCurrent, CurrentDoc
<1>5. IndexedIsCurrent'
  BY <1>1, <1>2 DEF IndexInv, IndexedIsCurrent, X!IndexedIsCurrent
<1>6. QED BY <1>3, <1>4, <1>5 DEF IndexInv

LEMMA IndexStep ==
  ASSUME IndexInv, [Next]_vars
  PROVE  IndexInv'
<1>1. ASSUME UNCHANGED <<version, vector, due, missed, job>> PROVE IndexInv'
  BY <1>1 DEF IndexInv, IndexTypes, Job, FetchedIsCurrent, CurrentDoc, IndexedIsCurrent, X!IndexedIsCurrent
<1>2. CASE UNCHANGED xonly
  BY <1>2, <1>1 DEF xonly
<1>3. ASSUME NEW w \in Workers, X!StartPass(w) \/ X!Embed(w) PROVE IndexInv'
  <2>1. CASE X!StartPass(w)
    <3>1. job' = [job EXCEPT ![w].at = "select"] /\ UNCHANGED <<version, vector, due, missed>>
      BY <2>1 DEF X!StartPass
    <3>2. QED BY <3>1, JobAt
  <2>2. CASE X!Embed(w)
    <3>1. /\ job' = [job EXCEPT ![w].at = "write"] /\ job[w].at = "embed"
          /\ UNCHANGED <<version, vector, due, missed>>
      BY <2>2 DEF X!Embed
    <3>2. QED BY <3>1, JobAt
  <2>3. QED BY <1>3, <2>1, <2>2
<1>4. ASSUME NEW w \in Workers, X!SelectProducts(w) \/ X!EmbedFails(w) PROVE IndexInv'
  <2>1. PICK queue : job' = [job EXCEPT ![w] = X!Further(queue)]
    BY Zenon, <1>4 DEF X!SelectProducts, X!EmbedFails
  <2>2. UNCHANGED <<version, vector, due, missed>>
    BY <1>4 DEF X!SelectProducts, X!EmbedFails
  <2>3. QED BY <2>1, <2>2, JobFurther, Untouched
<1>5. ASSUME NEW w \in Workers, X!FinishPass(w) \/ X!Crash(w) PROVE IndexInv'
  BY <1>5, JobIdles DEF X!FinishPass, X!Crash
<1>6. CASE X!LeaseRunsOut
  BY <1>6, <1>1 DEF X!LeaseRunsOut
<1>7. QED BY Zenon, <1>2, <1>3, <1>4, <1>5, <1>6, FetchIsCurrent, WriteIsCurrent, EditIsNoticed, IndexFrame
          DEF X!Next, X!Step

\* A product that is not due is found by its own text, however replicas overlap, lose their
\* lease, fail or die, unless its last edit touched a variant or fell between the fetch and the
\* write of a worker (the embedding worker).
THEOREM VectorsAreCurrent == Spec => []IndexedIsCurrent
<1>1. IndexInv => IndexedIsCurrent
  BY DEF IndexInv
<1>2. QED BY <1>1, IndexInit, IndexStep, PTL DEF Spec

=============================================================================
