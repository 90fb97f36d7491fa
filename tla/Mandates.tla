------------------------------- MODULE Mandates -------------------------------
(***************************************************************************)
(* The mandates of one agent: an intent, the carts under it, the payments  *)
(* under a cart.  A mandate is created after one reading of its parent and *)
(* verified by reading the chain upwards, one row after the other, while   *)
(* mandates are revoked, expire and the agent is disabled.                 *)
(***************************************************************************)
EXTENDS Naturals

CONSTANTS Mandates, Makers, Checkers, Amounts, None

VARIABLES mandate, \* a row: [kind, parent, amount, sound, live]
          active,  \* the agent is active
          maker,   \* [at, mandate, row]: a createMandate
          checker  \* [at, mandate, current, errors, whole]: a verifyMandate, and its answer

mvars == <<mandate, active, maker, checker>>

NoRow == [kind |-> "none", parent |-> None, amount |-> 0, sound |-> TRUE, live |-> TRUE]
NotMaking == [at |-> "ready", mandate |-> None, row |-> NoRow]
NotChecking == [at |-> "ready", mandate |-> None, current |-> None, errors |-> FALSE, whole |-> FALSE]

Init ==
    /\ mandate = [m \in Mandates |-> NoRow]
    /\ active = TRUE
    /\ maker = [r \in Makers |-> NotMaking]
    /\ checker = [c \in Checkers |-> NotChecking]

Rows == {m \in Mandates : mandate[m].kind \notin {"none", "deleted"}}
Stands(m) == m \in Rows /\ mandate[m].live
Up(m) == IF m \in Rows THEN mandate[m].parent ELSE None
Above == [payment |-> "cart", cart |-> "intent"]

\* validateMandateChain: the parent is of the kind above, stands, and allows the amount
ParentAllows(row) ==
    row.kind # "intent" =>
        /\ Stands(row.parent)
        /\ mandate[row.parent].kind = Above[row.kind]
        /\ row.kind = "payment" => row.amount <= mandate[row.parent].amount

Fresh == {m \in Mandates : mandate[m].kind = "none" /\ \A r \in Makers : maker[r].mandate # m}

\* createMandate reads the agent ...
StartMandate(r, kind, parent, amount, sound) ==
    /\ maker[r].at = "ready" /\ active /\ Fresh # {}
    /\ maker' = [maker EXCEPT ![r] = [at |-> "parent", mandate |-> CHOOSE m \in Fresh : TRUE, row |->
           [NoRow EXCEPT !.kind = kind, !.parent = parent, !.amount = amount, !.sound = sound]]]
    /\ UNCHANGED <<mandate, active, checker>>

\* ... then the parent ...
ValidateMandateChain(r) ==
    /\ maker[r].at = "parent"
    /\ maker' = [maker EXCEPT ![r] = IF ParentAllows(@.row) THEN [@ EXCEPT !.at = "insert"] ELSE NotMaking]
    /\ UNCHANGED <<mandate, active, checker>>

\* ... inserts the row, which the foreign key refuses under a parent that is gone ...
InsertMandate(r) ==
    /\ maker[r].at = "insert"
    /\ IF maker[r].row.parent \in Rows \cup {None}
       THEN /\ mandate' = [mandate EXCEPT ![maker[r].mandate] = maker[r].row]
            /\ maker' = [maker EXCEPT ![r].at = "signature"]
       ELSE maker' = [maker EXCEPT ![r] = NotMaking] /\ UNCHANGED mandate
    /\ UNCHANGED <<active, checker>>

\* ... and checks its signature, which needs the id, to delete it again: its children
\* lose their parent.  When the request dies first, the row stays
CheckSignature(r) ==
    LET m == maker[r].mandate
    IN /\ maker[r].at = "signature"
       /\ \/ UNCHANGED mandate
          \/ /\ ~maker[r].row.sound
             /\ mandate' = [n \in Mandates |->
                    IF n = m THEN [NoRow EXCEPT !.kind = "deleted"]
                    ELSE [mandate[n] EXCEPT !.parent = IF @ = m THEN None ELSE @]]
       /\ maker' = [maker EXCEPT ![r] = NotMaking]
       /\ UNCHANGED <<active, checker>>

\* A mandate is revoked, or passes its date
RevokeMandate(m) ==
    /\ Stands(m)
    /\ mandate' = [mandate EXCEPT ![m].live = FALSE]
    /\ UNCHANGED <<active, maker, checker>>

\* revokeAgent disables it, updateAgent gives it any status
SetAgentStatus ==
    /\ active' = ~active
    /\ UNCHANGED <<mandate, maker, checker>>

\* Mutant of Faulty: a mandate that was valid when it was created is taken as valid.
FaultyKind(m, kind) == m \notin Rows \/ mandate[m].kind # kind \/ ~mandate[m].sound

\* What verifyMandate holds against a row of the chain
Faulty(m, kind) == ~Stands(m) \/ mandate[m].kind # kind \/ ~mandate[m].sound

\* verifyMandate of a payment: the row and the agent
LoadMandate(c, m) ==
    /\ checker[c].at \in {"ready", "valid", "invalid"} /\ m \in Rows /\ mandate[m].kind = "payment"
    /\ checker' = [checker EXCEPT ![c] =
           [at |-> "cart", mandate |-> m, current |-> mandate[m].parent,
            errors |-> Faulty(m, "payment") \/ ~active,
            whole |-> \A n \in {m, Up(m), Up(Up(m))} : Stands(n)]]
    /\ UNCHANGED <<mandate, active, maker>>

\* Its cart, whose amount has to cover the payment
WalkToCart(c) ==
    LET p == checker[c].current
    IN /\ checker[c].at = "cart"
       /\ checker' = [checker EXCEPT ![c].at = "intent",
              ![c].current = Up(p),
              ![c].errors = @ \/ Faulty(p, "cart") \/ mandate[checker[c].mandate].amount > mandate[p].amount]
       /\ UNCHANGED <<mandate, active, maker>>

\* The intent above it ends the chain
WalkToIntent(c) ==
    /\ checker[c].at = "intent"
    /\ checker' = [checker EXCEPT ![c].at =
           IF checker[c].errors \/ Faulty(checker[c].current, "intent") THEN "invalid" ELSE "valid"]
    /\ UNCHANGED <<mandate, active, maker>>

Next ==
    \/ \E r \in Makers :
        \/ ValidateMandateChain(r) \/ InsertMandate(r) \/ CheckSignature(r)
        \/ \E sound \in BOOLEAN :
              \/ StartMandate(r, "intent", None, 0, sound)
              \/ \E parent \in Rows, kind \in {"cart", "payment"}, amount \in Amounts :
                    StartMandate(r, kind, parent, amount, sound)
    \/ \E m \in Mandates : RevokeMandate(m)
    \/ SetAgentStatus
    \/ \E c \in Checkers : WalkToCart(c) \/ WalkToIntent(c) \/ \E m \in Mandates : LoadMandate(c, m)

-----------------------------------------------------------------------------
\* The chain of a payment that was accepted stood as a whole at one moment, when its
\* verification began, although its rows were read one after the other: a mandate that
\* was revoked or has expired never comes back.
AcceptedStoodWhole == \A c \in Checkers : checker[c].at = "valid" => checker[c].whole
=============================================================================
