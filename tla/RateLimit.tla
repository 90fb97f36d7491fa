------------------------------ MODULE RateLimit ------------------------------
(***************************************************************************)
(* The requests of one IP against the limit of one process: a counter in a *)
(* window that opens with the first request after the last one has closed. *)
(* The shared store is loaded while the process already serves; until then *)
(* requests are counted in a bucket of its own.  initRateLimitKv, which    *)
(* would load it at boot, has no caller; neither have the cached reads     *)
(* that load it too: it may be loaded at any time, or never.  Time is in   *)
(* ticks.                                                                  *)
(***************************************************************************)
EXTENDS Naturals, Sequences

CONSTANTS Limit, Window, MaxTime, MaxRequests

VARIABLES now,
          ready,  \* the store has been loaded
          bucket, \* [count, start] of the fallback and of the store
          passed  \* history: when each request that was let through came

rvars == <<now, ready, bucket, passed>>

NoWindow == [count |-> 0, start |-> 0]

Init ==
    /\ now = 0
    /\ ready = FALSE
    /\ bucket = [b \in {"fallback", "store"} |-> NoWindow]
    /\ passed = <<>>

Tick ==
    /\ now < MaxTime
    /\ now' = now + 1
    /\ UNCHANGED <<ready, bucket, passed>>

KvIsBuilt ==
    /\ ~ready /\ ready' = TRUE
    /\ UNCHANGED <<now, bucket, passed>>

\* Mutant of Counted: the window slides with every request.
CountedSliding(win) ==
    IF win.count = 0 \/ now - win.start > Window THEN [count |-> 1, start |-> now]
    ELSE IF now > win.start THEN [count |-> 1, start |-> now] ELSE [win EXCEPT !.count = @ + 1]

\* incrWithWindow
Counted(win) ==
    IF win.count = 0 \/ now - win.start > Window THEN [count |-> 1, start |-> now]
    ELSE [win EXCEPT !.count = @ + 1]

\* A request more in a window that is already refusing changes nothing
RateLimitHook ==
    LET b == IF ready THEN "store" ELSE "fallback"
        win == Counted(bucket[b])
    IN /\ Len(passed) < MaxRequests /\ win.count <= Limit + 1
       /\ bucket' = [bucket EXCEPT ![b] = win]
       /\ passed' = IF win.count > Limit THEN passed ELSE Append(passed, now)
       /\ UNCHANGED <<now, ready>>

Next == Tick \/ KvIsBuilt \/ RateLimitHook

-----------------------------------------------------------------------------
\* Two windows may touch, and the store may replace the fallback in between and open a third:
\* no span as long as a window lets three times the limit through.
NoBurst ==
    \A i, j \in 1..Len(passed) : i + 3 * Limit - 1 <= j => passed[j] > passed[i] + Window

\* What would hold of one bucket, and does not when the store replaces the fallback late.
TwiceTheLimit ==
    \A i, j \in 1..Len(passed) : i + 2 * Limit - 1 <= j => passed[j] > passed[i] + Window
=============================================================================
