------------------------------- MODULE ApiKeys -------------------------------
(***************************************************************************)
(* One API key, the processes that serve requests with it, and the cache   *)
(* of keys each of them keeps.  Time is counted in ticks: an entry is good *)
(* for TTL of them, and a query is answered within Delay.                  *)
(***************************************************************************)
EXTENDS Naturals

CONSTANTS Processes, Requests, On, \* On[q] is the process that serves q
          Admin,                   \* the process that serves the dashboard
          TTL, Delay, MaxTime, None

VARIABLES now,
          key,     \* [active, scope, expires]: the row
          cache,   \* [scope, cachedAt] of each process, or None
          req,     \* [at, scope, since]: a request, and the scope its key was found to hold
          evicts,  \* an update has been committed and its process will evict the key
          granted  \* history: when the row last granted a scope

avars == <<now, key, cache, req, evicts, granted>>

Scopes == {"read", "write"}
HasScope(scope, need) == scope = need \/ scope = "write"
Grants(row, need, time) ==
    /\ row.active /\ (row.expires = None \/ row.expires > time)
    /\ HasScope(row.scope, need)
Ready == [at |-> "ready", scope |-> None, since |-> 0]

Init ==
    /\ now = 0
    /\ key = [active |-> TRUE, scope |-> "write", expires |-> None]
    /\ cache = [p \in Processes |-> None]
    /\ req = [q \in Requests |-> Ready]
    /\ evicts = FALSE
    /\ granted = [s \in Scopes |-> 0]

Dates(row, time) == granted' = [s \in Scopes |-> IF Grants(row, s, time) THEN time ELSE granted[s]]

Tick ==
    /\ now < MaxTime
    /\ \A q \in Requests : req[q].at # "ready" => now < req[q].since + Delay
    /\ now' = now + 1
    /\ Dates(key, now + 1)
    /\ UNCHANGED <<key, cache, req, evicts>>

-----------------------------------------------------------------------------
\* A revoked key is neither updated nor revoked again; what is cached goes when the answer is in
WriteKey(row) ==
    /\ key.active /\ ~evicts
    /\ key' = row
    /\ evicts' = TRUE
    /\ Dates(row, now)
    /\ UNCHANGED <<now, cache, req>>

UpdateApiKey(scope, expires) == WriteKey([active |-> TRUE, scope |-> scope, expires |-> expires])

RevokeApiKey == WriteKey([key EXCEPT !.active = FALSE])

EvictKey ==
    /\ evicts /\ evicts' = FALSE
    /\ cache' = [cache EXCEPT ![Admin] = None]
    /\ UNCHANGED <<now, key, req, granted>>

-----------------------------------------------------------------------------
Fresh(p) == cache[p] # None /\ now < cache[p].cachedAt + TTL

Found(q) == req' = [req EXCEPT ![q] = [at |-> "store", scope |-> cache[On[q]].scope, since |-> now]]

Missed(q) == req' = [req EXCEPT ![q] = [at |-> "select", scope |-> None, since |-> now]]

\* Mutant of LookupApiKey: a hit keeps its entry alive.
SlidingLookup(q) ==
    /\ req[q] = Ready
    /\ IF Fresh(On[q]) THEN Found(q) ELSE Missed(q)
    /\ cache' = [cache EXCEPT ![On[q]] = IF Fresh(On[q]) THEN [@ EXCEPT !.cachedAt = now] ELSE None]
    /\ UNCHANGED <<now, key, evicts, granted>>

\* A fresh entry is used, an old one is dropped and the row is read
LookupApiKey(q) ==
    /\ req[q] = Ready
    /\ IF Fresh(On[q]) THEN Found(q) ELSE Missed(q)
    /\ cache' = [cache EXCEPT ![On[q]] = IF Fresh(On[q]) THEN @ ELSE None]
    /\ UNCHANGED <<now, key, evicts, granted>>

\* The database answers from its rows of that moment; a key that is no longer good is a 401
SelectKey(q) ==
    /\ req[q].at = "select"
    /\ req' = [req EXCEPT ![q] = IF key.active /\ (key.expires = None \/ key.expires > now)
                                 THEN [@ EXCEPT !.at = "answer", !.scope = key.scope] ELSE Ready]
    /\ UNCHANGED <<now, key, cache, evicts, granted>>

\* The answer is in: it is cached from now on, whatever happened to the row meanwhile
CacheKey(q) ==
    /\ req[q].at = "answer"
    /\ cache' = [cache EXCEPT ![On[q]] = [scope |-> req[q].scope, cachedAt |-> now]]
    /\ req' = [req EXCEPT ![q].at = "store", ![q].since = now]
    /\ UNCHANGED <<now, key, evicts, granted>>

\* The organization of the store has been read, and the request passes if the scope suffices
ResolveStoreAuth(q) ==
    /\ req[q].at = "store"
    /\ req' = [req EXCEPT ![q] = Ready]
    /\ UNCHANGED <<now, key, cache, evicts, granted>>

Restart(p) ==
    /\ cache[p] # None
    /\ cache' = [cache EXCEPT ![p] = None]
    /\ req' = [q \in Requests |-> IF On[q] = p THEN Ready ELSE req[q]]
    /\ evicts' = (evicts /\ p # Admin)
    /\ UNCHANGED <<now, key, granted>>

Next ==
    \/ Tick \/ RevokeApiKey \/ EvictKey
    \/ \E scope \in Scopes, expires \in {None, now + 1} : UpdateApiKey(scope, expires)
    \/ \E p \in Processes : Restart(p)
    \/ \E q \in Requests :
        LookupApiKey(q) \/ SelectKey(q) \/ CacheKey(q) \/ ResolveStoreAuth(q)

-----------------------------------------------------------------------------
\* In every process, whatever it had cached and whatever it was reading: a request passes only
\* for a scope that the key granted less than TTL and two queries ago.  Revoking a
\* key, narrowing it and its expiry all take effect by then.
RevokedIsRefused ==
    \A q \in Requests, need \in Scopes :
        req[q].at = "store" /\ HasScope(req[q].scope, need) => now < granted[need] + TTL + 2 * Delay

\* "Evicted on revoke", and what does not hold even in the process that revokes: an answer
\* that was on its way is cached after the eviction.
RevokedIsEvicted == ~key.active /\ ~evicts => cache[Admin] = None
=============================================================================
