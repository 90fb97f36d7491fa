------------------------------ MODULE MCBookings ------------------------------
(***************************************************************************)
(* Bookings with their channels, the outbound events, and the search       *)
(* index, on small instances.  A behaviour runs the desk alone, the desk   *)
(* beside pushes or beside imports (and then only Guests book, from the    *)
(* first night on), the events, or the index.  Beside pushes only the      *)
(* first night can be blocked.                                             *)
(***************************************************************************)
EXTENDS Naturals, FiniteSets, TLC

CONSTANTS None, Requests, Guests, LastNight, Conns, Pushes, Imports,
          Events, Providers, Mailed, MaxRetries, MaxSwitches, MaxCrashes,
          Products, Workers, Limit, Batch, Poison, MaxEdits, MaxFaults

ASSUME LastNightAssumption == LastNight \in Nat

VARIABLES part,
          call, booking, blocked, cancelling, push, closed, import,
          within, tx, dispatch, tried, told, active, switches, crashes,
          version, vector, updated, due, missed, job, lease, edits, faults

D == INSTANCE Bookings
C == INSTANCE Channels
N == INSTANCE Notifications
X == INSTANCE SearchIndex

donly == <<call, booking, blocked, cancelling>>
conly == <<push, closed, import>>
nonly == <<within, tx, dispatch, tried, told, active, switches, crashes>>
xonly == <<version, vector, updated, due, missed, job, lease, edits, faults>>
vars == <<part, donly, conly, nonly, xonly>>

Init == part \in {"desk", "pushes", "imports", "events", "index"} /\ C!Init /\ N!Init /\ X!Init

Desk(A) == part = "desk" /\ A /\ UNCHANGED <<part, conly, nonly, xonly>>
Channels(A) ==
    /\ part = "pushes" \/ part = "imports"
    /\ A
    /\ part = "pushes" => UNCHANGED import /\ blocked' \subseteq {1}
    /\ part = "imports" => UNCHANGED push
    /\ \A b \in Requests : IF b \in Guests THEN call'[b].from = 1 ELSE call'[b] = call[b]
    /\ UNCHANGED <<part, nonly, xonly>>
Noticed(A) == part = "events" /\ A /\ UNCHANGED <<part, donly, conly, xonly>>
Indexed(A) == part = "index" /\ A /\ UNCHANGED <<part, donly, conly, nonly>>

Next == Desk(D!Next) \/ Channels(C!Next) \/ Noticed(N!Next) \/ Indexed(X!Next)

Fairness ==
    /\ \A b \in Requests :
          /\ WF_vars(Desk(D!Step(b)))
          /\ WF_vars(Channels(D!Step(b) /\ UNCHANGED conly))
    /\ \A e \in Events : WF_vars(Noticed(N!Work(e)))
    /\ \A w \in Workers : WF_vars(Indexed(X!Step(w)))
    /\ WF_vars(Indexed(X!LeaseRunsOut))

Spec == Init /\ [][Next]_vars /\ Fairness

NoDoubleBooking == D!NoDoubleBooking
BookingEnds == D!BookingEnds
SoldNightsAreClosed == C!SoldNightsAreClosed
IndexedIsCurrent == X!IndexedIsCurrent
\* Every provider of a store is tried for an event, and every product that is due is indexed.
NothingIsLeft == N!EveryProviderIsTried /\ (part = "index" => X!DueIsIndexed)
ToldIsNotUndone == N!ToldIsNotUndone
=============================================================================
