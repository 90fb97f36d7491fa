---------------------------- MODULE Notifications ----------------------------
(***************************************************************************)
(* Outbound events of a store.  dispatchStoreEvent() runs in the memory of *)
(* the process that calls it, provider after provider and attempt after    *)
(* attempt.  Completed checkouts, cancelled orders, updated shipments and  *)
(* the captures of a webhook are announced after their transaction, and    *)
(* what createOrder(), capturePayment(), createRefund(), createShipment()  *)
(* and the tracking of a carrier announce is announced inside of it.       *)
(***************************************************************************)
EXTENDS Naturals, FiniteSets

CONSTANTS Events,      \* announcements, one dispatch each
          Providers,   \* rows of notification_providers that subscribe to them
          Mailed,      \* the ones of type email, tried once; the others are webhooks
          MaxRetries,  \* MAX_RETRIES
          MaxSwitches, MaxCrashes, None

VARIABLES within,   \* the events announced inside their transaction
          tx,       \* the transaction an event is about: "none", "open", "committed", "rolled back"
          dispatch, \* [at, todo, to, attempt]: the call of _dispatchStoreEvent
          tried,    \* the providers an event was sent to
          told,     \* and the ones whose endpoint took it in, once or more
          active, switches, crashes

nvars == <<within, tx, dispatch, told, tried, active, switches, crashes>>

Idle == [at |-> "none", todo |-> {}, to |-> None, attempt |-> 0]

Init ==
    /\ within = {}
    /\ tx = [e \in Events |-> "none"]
    /\ dispatch = [e \in Events |-> Idle]
    /\ told = [e \in Events |-> {}]
    /\ tried = [e \in Events |-> {}]
    /\ active = Providers
    /\ switches = 0 /\ crashes = 0

Started == [Idle EXCEPT !.at = "load"]

Begin(e) ==
    /\ tx[e] = "none"
    /\ tx' = [tx EXCEPT ![e] = "open"]
    /\ within' \in {within, within \cup {e}}
    /\ UNCHANGED <<dispatch, told, tried, active, switches, crashes>>

\* The announcement of a refund comes before its last statements and the COMMIT
AnnounceWithin(e) ==
    /\ e \in within /\ tx[e] = "open" /\ dispatch[e].at = "none"
    /\ dispatch' = [dispatch EXCEPT ![e] = Started]
    /\ UNCHANGED <<within, tx, told, tried, active, switches, crashes>>

Commit(e) ==
    /\ tx[e] = "open" /\ (e \in within => dispatch[e].at # "none")
    /\ tx' = [tx EXCEPT ![e] = "committed"]
    /\ UNCHANGED <<within, dispatch, told, tried, active, switches, crashes>>

RollBack(e) ==
    /\ tx[e] = "open"
    /\ tx' = [tx EXCEPT ![e] = "rolled back"]
    /\ UNCHANGED <<within, dispatch, told, tried, active, switches, crashes>>

AnnounceAfter(e) ==
    /\ e \notin within /\ tx[e] = "committed" /\ dispatch[e].at = "none"
    /\ dispatch' = [dispatch EXCEPT ![e] = Started]
    /\ UNCHANGED <<within, tx, told, tried, active, switches, crashes>>

\* The list is read once: a provider that is switched off later is still told
LoadProviders(e) ==
    /\ dispatch[e].at = "load"
    /\ \/ dispatch' = [dispatch EXCEPT ![e].at = "next", ![e].todo = active]
       \/ dispatch' = [dispatch EXCEPT ![e].at = "done"]    \* the query fails
    /\ UNCHANGED <<within, tx, told, tried, active, switches, crashes>>

NextProvider(e) ==
    /\ dispatch[e].at = "next"
    /\ IF dispatch[e].todo = {}
       THEN dispatch' = [dispatch EXCEPT ![e].at = "done"]
       ELSE \E p \in dispatch[e].todo :
              dispatch' = [dispatch EXCEPT ![e] =
                 [at |-> "send", todo |-> @.todo \ {p}, to |-> p, attempt |-> 1]]
    /\ UNCHANGED <<within, tx, told, tried, active, switches, crashes>>

LastAttempt(e) == dispatch[e].to \in Mailed \/ dispatch[e].attempt = MaxRetries

\* Mutant of Deliver: sent again until it is answered well.
DeliverUntilAnswered(e) ==
    LET d == dispatch[e] IN
    /\ d.at = "send"
    /\ \E taken, answered \in BOOLEAN :
          /\ told' = IF taken THEN [told EXCEPT ![e] = @ \cup {d.to}] ELSE told
          /\ dispatch' = [dispatch EXCEPT ![e] =
               IF taken /\ answered THEN [d EXCEPT !.at = "next"] ELSE [d EXCEPT !.attempt = (@ % MaxRetries) + 1]]
    /\ tried' = [tried EXCEPT ![e] = @ \cup {d.to}]
    /\ UNCHANGED <<within, tx, active, switches, crashes>>

\* deliverWebhook() and deliverEmail(): the endpoint takes the event in or not, and its
\* answer arrives within the timeout or not; what is not answered well is sent again
Deliver(e) ==
    LET d == dispatch[e] IN
    /\ d.at = "send"
    /\ \E taken, answered \in BOOLEAN :
          /\ told' = IF taken THEN [told EXCEPT ![e] = @ \cup {d.to}] ELSE told
          /\ dispatch' = [dispatch EXCEPT ![e] =
               IF (taken /\ answered) \/ LastAttempt(e)
               THEN [d EXCEPT !.at = "next"] ELSE [d EXCEPT !.attempt = @ + 1]]
    /\ tried' = [tried EXCEPT ![e] = @ \cup {d.to}]
    /\ UNCHANGED <<within, tx, active, switches, crashes>>

\* create-, update- and deleteNotificationProvider()
SwitchProvider(p) ==
    /\ switches < MaxSwitches
    /\ active' = IF p \in active THEN active \ {p} ELSE active \cup {p}
    /\ switches' = switches + 1
    /\ UNCHANGED <<within, tx, dispatch, told, tried, crashes>>

\* Dispatches live in memory, and open transactions roll back
ProcessDies ==
    /\ crashes < MaxCrashes
    /\ crashes' = crashes + 1
    /\ tx' = [e \in Events |-> IF tx[e] = "open" THEN "rolled back" ELSE tx[e]]
    /\ dispatch' = [e \in Events |->
         IF tx[e] # "none" /\ dispatch[e].at # "done" THEN [Idle EXCEPT !.at = "lost"] ELSE dispatch[e]]
    /\ UNCHANGED <<within, told, tried, active, switches>>

Work(e) == LoadProviders(e) \/ NextProvider(e) \/ Deliver(e)

Next ==
    \/ \E e \in Events :
          \/ Begin(e) \/ AnnounceWithin(e) \/ Commit(e) \/ RollBack(e) \/ AnnounceAfter(e) \/ Work(e)
    \/ \E p \in Providers : SwitchProvider(p)
    \/ ProcessDies

-----------------------------------------------------------------------------
\* A dispatch tries every provider it has loaded, whatever the endpoints before it in
\* the list answer or do not answer: the attempts are limited and each has a timeout
\* (_dispatchStoreEvent, deliverWebhook).  Only the death of the process stops it.
EveryProviderIsTried ==
    \A e \in Events, p \in Providers :
        p \in dispatch[e].todo ~> p \in tried[e] \/ dispatch[e].at = "lost"

\* What an endpoint has been told about exists: no event is sent about a transaction
\* that has rolled back (payments/service.ts:783 "dispatched outside tx").
ToldIsNotUndone ==
    \A e \in Events : tx[e] = "rolled back" => told[e] = {}
=============================================================================
