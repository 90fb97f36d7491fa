------------------------------- MODULE Returns -------------------------------
(***************************************************************************)
(* Returns and their resolution.  Every statement of updateReturn commits  *)
(* by itself, and the remedy and the restocking are best effort: an error  *)
(* is logged and the request goes on.  No status forbids another one, so a *)
(* return can be resolved again, and by two requests at once.              *)
(***************************************************************************)
EXTENDS Naturals

CONSTANTS Returns, Requests, MaxFaults, None

VARIABLES ret,    \* [status, type, restock, replacement]: a row, its lines included
          req,    \* an updateReturn: [at, ret, type, order]
          given,  \* remedies given for a return, by kind
          asked,  \* requests that have set it to resolved, by the kind they ask
          missed, \* remedies that failed, and requests that died, by kind
          faults

tvars == <<ret, req, given, asked, missed, faults>>

Remedies == {"refund", "store_credit", "exchange", "repair"}
Kinds == Remedies \cup {"restock"}
Statuses == {"approved", "rejected", "resolved", "closed"}
NoRequest == [at |-> "ready", ret |-> None, type |-> None]
None0 == [r \in Returns |-> [k \in Kinds |-> 0]]

Init ==
    /\ ret = [r \in Returns |-> [status |-> "none", type |-> "refund", restock |-> FALSE, replacement |-> 0]]
    /\ req = [q \in Requests |-> NoRequest]
    /\ given = None0 /\ asked = None0 /\ missed = None0
    /\ faults = 0

CreateReturn(r) ==
    /\ ret[r].status = "none"
    /\ \E type \in Remedies, restock \in BOOLEAN :
          ret' = [ret EXCEPT ![r] = [status |-> "requested", type |-> type, restock |-> restock, replacement |-> 0]]
    /\ UNCHANGED <<req, given, asked, missed, faults>>

Counted(f, r, k) == [f EXCEPT ![r][k] = @ + 1]

\* The UPDATE of the status.  The body may name another remedy than the return.
UpdateReturn(q, r) ==
    /\ req[q].at = "ready" /\ ret[r].status # "none"
    /\ \E st \in Statuses, type \in Remedies \cup {None} :
          /\ ret' = [ret EXCEPT ![r].status = st]
          /\ IF st = "resolved"
             THEN /\ req' = [req EXCEPT ![q] = [at |-> "event", ret |-> r, type |-> IF type = None THEN ret[r].type ELSE type]]
                  /\ asked' = Counted(asked, r, req'[q].type)
             ELSE type = None /\ req' = [req EXCEPT ![q].at = "done"] /\ UNCHANGED asked
    /\ UNCHANGED <<given, missed, faults>>

Go(q, step) == req' = [req EXCEPT ![q].at = step]

\* The event of the change, and handleResolution reads the return
LogStatusEvent(q) ==
    /\ req[q].at = "event"
    /\ Go(q, "remedy")
    /\ UNCHANGED <<ret, given, asked, missed, faults>>

\* Mutant of Resolve: a remedy ends the request before the lines are restocked.
ResolveAndEnd(q) ==
    LET r == req[q].ret
    IN /\ req[q].at = "remedy"
       /\ given' = Counted(given, r, req[q].type)
       /\ ret' = IF req[q].type = "exchange" THEN [ret EXCEPT ![r].replacement = given'[r].exchange] ELSE ret
       /\ Go(q, IF req[q].type = "refund" THEN "done" ELSE "restock")
       /\ UNCHANGED <<asked, missed, faults>>

\* The remedy of the effective type: the credit is issued, the refund recorded
\* as pending, or the replacement ordered and linked in one transaction; a
\* repair needs nothing
Resolve(q) ==
    LET r == req[q].ret
    IN /\ req[q].at = "remedy"
       /\ given' = Counted(given, r, req[q].type)
       /\ ret' = IF req[q].type = "exchange" THEN [ret EXCEPT ![r].replacement = given'[r].exchange] ELSE ret
       /\ Go(q, "restock")
       /\ UNCHANGED <<asked, missed, faults>>

\* The remedy fails, which is logged: the return stays resolved
RemedyFails(q) ==
    /\ req[q].at = "remedy"
    /\ faults < MaxFaults /\ faults' = faults + 1
    /\ missed' = Counted(missed, req[q].ret, req[q].type)
    /\ Go(q, "restock")
    /\ UNCHANGED <<ret, given, asked>>

Restock(q) ==
    LET r == req[q].ret
    IN /\ req[q].at = "restock"
       /\ given' = IF ret[r].restock THEN Counted(given, r, "restock") ELSE given
       /\ Go(q, "done")
       /\ UNCHANGED <<ret, asked, missed, faults>>

RestockFails(q) ==
    /\ req[q].at = "restock" /\ ret[req[q].ret].restock
    /\ faults < MaxFaults /\ faults' = faults + 1
    /\ missed' = Counted(missed, req[q].ret, "restock")
    /\ Go(q, "done")
    /\ UNCHANGED <<ret, given, asked>>

\* The event cannot be written: the caller gets an error, the return is resolved
\* and nothing has been done for it
EventFails(q) ==
    LET r == req[q].ret
    IN /\ req[q].at = "event"
       /\ faults < MaxFaults /\ faults' = faults + 1
       /\ missed' = [missed EXCEPT ![r][req[q].type] = @ + 1,
                                   ![r].restock = IF ret[r].restock THEN @ + 1 ELSE @]
       /\ Go(q, "done")
       /\ UNCHANGED <<ret, given, asked>>

Next ==
    \/ \E r \in Returns : CreateReturn(r) \/ \E q \in Requests : UpdateReturn(q, r)
    \/ \E q \in Requests : \/ LogStatusEvent(q) \/ Resolve(q) \/ RemedyFails(q)
                           \/ Restock(q) \/ RestockFails(q) \/ EventFails(q)

-----------------------------------------------------------------------------
Settled(r) == \A q \in Requests : req[q].ret = r => req[q].at \in {"ready", "done"}
AllAsked(r) == asked[r].refund + asked[r].store_credit + asked[r].exchange + asked[r].repair

\* Every request that resolves a return gives the one remedy it asked for and
\* restocks the lines, or leaves a failure behind: none of the independent
\* statements is skipped or done for another request.
ResolvedIsSettled ==
    \A r \in Returns : Settled(r) =>
        /\ \A k \in Remedies : given[r][k] + missed[r][k] = asked[r][k]
        /\ given[r].restock + missed[r].restock = IF ret[r].restock THEN AllAsked(r) ELSE 0

\* "One new order is created per return"
OneReplacementPerReturn == \A r \in Returns : given[r].exchange <= 1
=============================================================================
