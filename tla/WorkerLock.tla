----------------------------- MODULE WorkerLock -----------------------------
(***************************************************************************)
(* The named locks of the background workers (lib/workerlock.ts): a row    *)
(* (or a Redis key) with a random token and a time to live.  A process     *)
(* that dies leaves its row behind, and the row runs out; nothing renews   *)
(* it.  A process has one token of a lock at a time, so the token is the   *)
(* process.                                                                *)
(***************************************************************************)
CONSTANTS Locks, None
VARIABLE lease

NoLease == [token |-> None, live |-> FALSE]

\* Mutant of Acquire: the row is written whoever has it.
AcquireAnyway(n, p) == lease' = [lease EXCEPT ![n] = [token |-> p, live |-> TRUE]]

\* acquire: the row is written when there is none or it has run out
Acquire(n, p) ==
    /\ ~lease[n].live
    /\ lease' = [lease EXCEPT ![n] = [token |-> p, live |-> TRUE]]

\* release: the row is deleted only when it still holds the caller's token
Release(n, p) ==
    lease' = IF lease[n].token = p THEN [lease EXCEPT ![n] = NoLease] ELSE lease

\* Mutant of RunOut: a lock without a time to live.
NeverRunOut(n) == lease[n].live /\ UNCHANGED lease

\* expires_at passes
RunOut(n) ==
    /\ lease[n].live
    /\ lease' = [lease EXCEPT ![n].live = FALSE]
=============================================================================
