------------------------------- MODULE Bookings -------------------------------
(***************************************************************************)
(* Bookings of one resource.  createBooking() is a transaction under the   *)
(* row lock of the resource, and it computes the price on a second         *)
(* connection of the same pool; every later step of a stay is a statement  *)
(* of its own.                                                             *)
(***************************************************************************)
EXTENDS Naturals, FiniteSets

CONSTANTS Requests,  \* calls of createBooking, and the bookings they make
          LastNight, \* nights are 1..LastNight, and a stay ends on the morning of a date
          Conns      \* connections of the pool (DB_POOL_MAX)

VARIABLES call,      \* [at, from, to]: a call of createBooking
          booking,   \* [status, from, to]: a row of bookings
          blocked,   \* nights with a row is_available = false
          cancelling \* bookings a cancelBooking() has found cancellable

bvars == <<call, booking, blocked, cancelling>>

Nights == 1 .. LastNight
Dates == 1 .. LastNight + 1

NightsOf(b) == booking[b].from .. booking[b].to - 1

Init ==
    /\ call = [b \in Requests |-> [at |-> "new", from |-> 1, to |-> 1]]
    /\ booking = [b \in Requests |-> [status |-> "none", from |-> 1, to |-> 1]]
    /\ blocked = {}
    /\ cancelling = {}

\* The calls that hold the row of the resource, and those in a transaction at all
Locking == {b \in Requests : call[b].at \in {"blocked", "overlap", "price", "write"}}
InTx == Locking \cup {b \in Requests : call[b].at = "resource"}

FreeConnection == Cardinality(InTx) < Conns

Active(b) == booking[b].status \in {"pending", "confirmed", "checked_in"}

Goto(b, step) ==
    /\ call' = [call EXCEPT ![b].at = step]
    /\ UNCHANGED <<booking, blocked, cancelling>>

End(b, how) ==
    /\ call' = [call EXCEPT ![b] = [at |-> how, from |-> 1, to |-> 1]]
    /\ UNCHANGED <<booking, blocked, cancelling>>

Request(b, from, to) ==
    /\ call[b].at = "new"
    /\ call' = [call EXCEPT ![b] = [at |-> "connect", from |-> from, to |-> to]]
    /\ UNCHANGED <<booking, blocked, cancelling>>

\* pool.connect() of withTx(), which gives up after connectionTimeoutMillis
Connect(b) ==
    /\ call[b].at = "connect"
    /\ IF FreeConnection THEN Goto(b, "resource") ELSE End(b, "failed")

\* Mutant of LockResource: the SELECT without its FOR UPDATE.
ReadResource(b) ==
    /\ call[b].at = "resource"
    /\ Goto(b, "blocked")

LockResource(b) ==
    /\ call[b].at = "resource" /\ Locking = {}
    /\ Goto(b, "blocked")

CheckBlocked(b) ==
    /\ call[b].at = "blocked"
    /\ IF blocked \cap (call[b].from .. call[b].to - 1) = {} THEN Goto(b, "overlap") ELSE End(b, "failed")

Overlaps(b, from, to) == Active(b) /\ booking[b].from < to /\ booking[b].to > from

CheckOverlap(b) ==
    /\ call[b].at = "overlap"
    /\ IF \E c \in Requests : Overlaps(c, call[b].from, call[b].to) THEN End(b, "failed") ELSE Goto(b, "price")

\* computeBookingPrice() queries the pool, not the client of the transaction
ComputeBookingPrice(b) ==
    /\ call[b].at = "price" /\ FreeConnection
    /\ IF call[b].from < call[b].to THEN Goto(b, "write") ELSE End(b, "failed")

\* Mutant of PriceTimeout: a pool without a connection timeout.
PriceWaits(b) == call[b].at = "price" /\ FALSE /\ UNCHANGED bvars

\* The second connection does not come in time: the call rolls back
PriceTimeout(b) ==
    /\ call[b].at = "price" /\ ~FreeConnection
    /\ End(b, "failed")

\* Numbers, order, line, booking and events, then COMMIT; an instantly bookable
\* resource confirms at once
InsertBooking(b) ==
    /\ call[b].at = "write"
    /\ \E status \in {"pending", "confirmed"} :
          booking' = [booking EXCEPT ![b] = [status |-> status, from |-> call[b].from, to |-> call[b].to]]
    /\ call' = [call EXCEPT ![b] = [at |-> "done", from |-> 1, to |-> 1]]
    /\ UNCHANGED <<blocked, cancelling>>

\* A statement fails or the connection is lost: ROLLBACK and release
CallFails(b) == b \in InTx /\ End(b, "failed")

Transition(b, from, to) ==
    /\ FreeConnection /\ booking[b].status \in from
    /\ booking' = [booking EXCEPT ![b].status = to]
    /\ UNCHANGED <<call, blocked, cancelling>>

ConfirmBooking(b) == Transition(b, {"pending", "inquiry"}, "confirmed")
CheckInBooking(b) == Transition(b, {"confirmed"}, "checked_in")
CheckOutBooking(b) == Transition(b, {"checked_in"}, "checked_out")
NoShowBooking(b) == Transition(b, {"confirmed", "pending"}, "no_show")

ReadToCancel(b) ==
    /\ FreeConnection /\ b \notin cancelling
    /\ booking[b].status \in {"pending", "inquiry", "confirmed", "checked_in"}
    /\ cancelling' = cancelling \cup {b}
    /\ UNCHANGED <<call, booking, blocked>>

\* The UPDATE has no condition on the status read before
CancelBooking(b) ==
    /\ FreeConnection /\ b \in cancelling
    /\ booking' = [booking EXCEPT ![b].status = "cancelled"]
    /\ cancelling' = cancelling \ {b}
    /\ UNCHANGED <<call, blocked>>

\* One upsert of the loop; the calendar is written without the lock of the resource
SetAvailability(n, available) ==
    /\ FreeConnection
    /\ blocked' = IF available THEN blocked \ {n} ELSE blocked \cup {n}
    /\ UNCHANGED <<call, booking, cancelling>>

Step(b) ==
    \/ Connect(b) \/ LockResource(b) \/ CheckBlocked(b) \/ CheckOverlap(b)
    \/ ComputeBookingPrice(b) \/ PriceTimeout(b) \/ InsertBooking(b)

Next ==
    \/ \E b \in Requests :
          \/ Step(b) \/ CallFails(b)
          \/ ConfirmBooking(b) \/ CheckInBooking(b) \/ CheckOutBooking(b) \/ NoShowBooking(b)
          \/ ReadToCancel(b) \/ CancelBooking(b)
          \/ \E from, to \in Dates : Request(b, from, to)
    \/ \E n \in Nights, available \in BOOLEAN : SetAvailability(n, available)

-----------------------------------------------------------------------------
\* No night is sold twice: two bookings that are pending, confirmed or checked in share
\* no night, however their requests interleave (createBooking: check and insert under
\* the lock of the resource's row).
NoDoubleBooking ==
    \A b, c \in Requests : b # c /\ Active(b) /\ Active(c) => NightsOf(b) \cap NightsOf(c) = {}

\* Every request for a booking is answered, although each holds a connection while it
\* waits for another one: the pool's timeout ends the wait (createBooking,
\* computeBookingPrice, connectionTimeoutMillis).
BookingEnds ==
    \A b \in Requests : call[b].at = "connect" ~> call[b].at \in {"done", "failed"}
=============================================================================
