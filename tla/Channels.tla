------------------------------- MODULE Channels -------------------------------
(***************************************************************************)
(* What a channel manager is told about a resource, and what its calendar  *)
(* blocks here.  A push reads the calendar and the bookings one after the  *)
(* other and sends what it has read; an import blocks one date at a time.  *)
(* Nothing keeps two of them, or a booking, from running in between.       *)
(***************************************************************************)
EXTENDS Naturals, FiniteSets

CONSTANTS Requests, LastNight, Conns,
          Pushes,    \* calls of pushARIToProvider
          Imports    \* calls of importICalFeed

VARIABLES call, booking, blocked, cancelling,
          push,      \* [at, last, shut, sold, alone]: sold and alone are history
          closed,    \* nights the provider shows as taken
          import     \* [at, todo]: the dates of the feed that are still to be blocked

B == INSTANCE Bookings

cvars == <<push, closed, import>>
bvars == <<call, booking, blocked, cancelling>>

Blank(at) == [at |-> at, last |-> 1, shut |-> {}, sold |-> {}, alone |-> TRUE]

Init ==
    /\ B!Init
    /\ push = [p \in Pushes |-> Blank("new")]
    /\ closed = {}
    /\ import = [i \in Imports |-> [at |-> "new", todo |-> {}]]

Running(p) == push[p].at \in {"bookings", "availability", "rates", "record"}

\* Bookings the calendar is closed for, to the channels and in the exported feed
Shown(b) == booking[b].status \in {"confirmed", "checked_in", "checked_out"}

\* Listing, provider and credentials are in order; the window is 1..last, both included
ReadAvailability(p, last) ==
    /\ push[p].at = "new" /\ B!FreeConnection
    /\ push' = [q \in Pushes |->
         IF q = p THEN [at |-> "bookings", last |-> last, shut |-> blocked \cap (1 .. last),
                        sold |-> {b \in Requests : Shown(b)}, alone |-> \A r \in Pushes : ~Running(r)]
         ELSE [push[q] EXCEPT !.alone = @ /\ ~Running(q)]]
    /\ UNCHANGED <<bvars, closed, import>>

\* Mutant of InWindow: the last day of the window is taken for excluded.
BeforeWindowEnds(b, last) == booking[b].from < last /\ booking[b].to > 1

InWindow(b, last) == booking[b].from <= last /\ booking[b].to > 1

ReadBookings(p) ==
    /\ push[p].at = "bookings" /\ B!FreeConnection
    /\ push' = [push EXCEPT ![p].at = "availability",
                            ![p].shut = @ \cup ((1 .. push[p].last) \cap
                               UNION {B!NightsOf(b) : b \in {b \in Requests :
                                         Shown(b) /\ InWindow(b, push[p].last)}})]
    /\ UNCHANGED <<bvars, closed, import>>

\* The provider takes the update or not, and its answer comes or not; rates are sent
\* in either case, for the nights that are open
PushAvailability(p) ==
    /\ push[p].at = "availability"
    /\ \E taken, answered \in BOOLEAN :
          /\ closed' = IF taken THEN (closed \ (1 .. push[p].last)) \cup push[p].shut ELSE closed
          /\ push' = [push EXCEPT ![p].at = IF taken /\ answered THEN "rates" ELSE "refused"]
    /\ UNCHANGED <<bvars, import>>

\* The push of the rates, the result of the job and that of the listing
PushRates(p) ==
    /\ push[p].at \in {"rates", "refused"}
    /\ \/ /\ push[p].at = "rates"
          /\ push' = [push EXCEPT ![p].at = "ok", ![p].shut = {}]
       \/ /\ push[p].at = "rates" => push[p].shut # 1 .. push[p].last
          /\ push' = [push EXCEPT ![p] = Blank("failed")]
    /\ UNCHANGED <<bvars, closed, import>>

\* The process dies or a statement fails: the job stays running, and nothing takes it up again
PushDies(p) ==
    /\ Running(p)
    /\ push' = [push EXCEPT ![p] = Blank("lost")]
    /\ UNCHANGED <<bvars, closed, import>>

ImportICalFeed(i, dates) ==
    /\ import[i].at = "new"
    /\ import' = [import EXCEPT ![i] = [at |-> "running", todo |-> dates]]
    /\ UNCHANGED <<bvars, push, closed>>

BlockDate(i, n) ==
    /\ import[i].at = "running" /\ n \in import[i].todo
    /\ B!SetAvailability(n, FALSE)
    /\ import' = [import EXCEPT ![i].todo = @ \ {n}]
    /\ UNCHANGED <<push, closed>>

\* All dates are blocked, or a statement fails and the rest of the feed is left out
ImportEnds(i) ==
    /\ import[i].at = "running"
    /\ \/ import[i].todo = {} /\ import' = [import EXCEPT ![i].at = "success"]
       \/ import' = [import EXCEPT ![i] = [at |-> "failed", todo |-> {}]]
    /\ UNCHANGED <<bvars, push, closed>>

ChannelNext ==
    \/ \E p \in Pushes :
          \/ \E last \in B!Nights : ReadAvailability(p, last)
          \/ ReadBookings(p) \/ PushAvailability(p) \/ PushRates(p) \/ PushDies(p)
    \/ \E i \in Imports :
          \/ \E dates \in SUBSET B!Nights : ImportICalFeed(i, dates)
          \/ \E n \in B!Nights : BlockDate(i, n)
          \/ ImportEnds(i)

Next == (B!Next /\ UNCHANGED cvars) \/ ChannelNext

-----------------------------------------------------------------------------
\* A push that ended well, and overlapped no other, has closed the nights of its window
\* of every stay that was sold when it began and has not been cancelled since, whatever
\* was booked, cancelled, blocked or pushed meanwhile (pushARIToProvider).
SoldNightsAreClosed ==
    \A p \in Pushes : push[p].at = "ok" /\ push[p].alone =>
        \A b \in push[p].sold : Shown(b) => B!NightsOf(b) \cap (1 .. push[p].last) \subseteq closed
=============================================================================
