------------------------------- MODULE Sessions -------------------------------
(***************************************************************************)
(* The refresh sessions of one customer.  A session belongs to the family  *)
(* of the login it descends from; a refresh revokes it and inserts its     *)
(* successor in another statement, with no transaction around the two.     *)
(* Every statement is one step, and any of them may fail.  An expired      *)
(* session is refused without a change and stays listed: it is left out.   *)
(***************************************************************************)
EXTENDS Naturals, Sequences, FiniteSets

CONSTANTS Sessions, Clients, Links, MaxSessions, MaxResets, None

VARIABLES session, \* [status, family]: a row of customer_sessions
          issued,  \* the sessions in the order of their creation
          client,  \* [at, from, prune]: a request
          sent,    \* magic links that sign in
          resets   \* password resets so far

svars == <<session, issued, client, sent, resets>>

Init ==
    /\ session = [s \in Sessions |-> [status |-> "none", family |-> None]]
    /\ issued = <<>>
    /\ client = [c \in Clients |-> [at |-> "ready", from |-> None, prune |-> {}]]
    /\ sent = {}
    /\ resets = 0

Live == {s \in Sessions : session[s].status = "live"}

Revoked(S) == [s \in Sessions |-> IF s \in S THEN [session[s] EXCEPT !.status = "revoked"] ELSE session[s]]

Goes(c, where) == client' = [client EXCEPT ![c] = [at |-> where, from |-> None, prune |-> {}]]

SendMagicLink(l) ==
    /\ l \notin sent
    /\ sent' = sent \cup {l}
    /\ UNCHANGED <<session, issued, client, resets>>

\* The link is read unused; an invitation is accepted by the same two statements
VerifyMagicLink(c, l) ==
    /\ client[c].at = "ready" /\ l \in sent
    /\ client' = [client EXCEPT ![c].at = "mark", ![c].from = l]
    /\ UNCHANGED <<session, issued, sent, resets>>

MarkLinkUsed(c) ==
    /\ client[c].at = "mark"
    /\ sent' = sent \ {client[c].from}
    /\ Goes(c, "list")
    /\ UNCHANGED <<session, issued, resets>>

\* The link is used up, or a password or a provider has been accepted, and issueSession
\* lists the live sessions: all but the newest MaxSessions - 1 will go
ListSessions(c) ==
    LET newest == SelectSeq([i \in 1..Len(issued) |-> issued[Len(issued) + 1 - i]],
                            LAMBDA s : s \in Live)
    IN /\ client[c].at \in {"ready", "list"}
       /\ client' = [client EXCEPT ![c] =
              [at |-> "prune", from |-> None,
               prune |-> IF Len(newest) >= MaxSessions
                         THEN {newest[i] : i \in MaxSessions..Len(newest)} ELSE {}]]
       /\ UNCHANGED <<session, issued, sent, resets>>

PruneOldest(c) ==
    /\ client[c].at = "prune"
    /\ session' = Revoked(client[c].prune)
    /\ Goes(c, "insert")
    /\ UNCHANGED <<issued, sent, resets>>

Created(s, family) ==
    /\ session[s].status = "none"
    /\ session' = [session EXCEPT ![s] = [status |-> "live", family |-> family]]
    /\ issued' = Append(issued, s)

IssueSession(c, s) ==
    /\ client[c].at = "insert"
    /\ Created(s, s)
    /\ Goes(c, "ready")
    /\ UNCHANGED <<sent, resets>>

\* UPDATE ... WHERE revoked_at IS NULL RETURNING: one refresh of a session gets the row
ConsumeSession(c, s) ==
    /\ client[c].at = "ready" /\ session[s].status # "none"
    /\ session' = Revoked({s})
    /\ client' = [client EXCEPT ![c] =
           [@ EXCEPT !.at = IF s \in Live THEN "replace" ELSE "reused", !.from = s]]
    /\ UNCHANGED <<issued, sent, resets>>

RotateSession(c, s) ==
    /\ client[c].at = "replace"
    /\ Created(s, session[client[c].from].family)
    /\ Goes(c, "ready")
    /\ UNCHANGED <<sent, resets>>

\* A session that was used before takes its family with it
RevokeSessionFamily(c) ==
    /\ client[c].at = "reused"
    /\ session' = Revoked({s \in Live : session[s].family = session[client[c].from].family})
    /\ Goes(c, "ready")
    /\ UNCHANGED <<issued, sent, resets>>

\* The new password is stored, the tokens are dated and the link is used up ...
StartReset(c) ==
    /\ client[c].at = "ready" /\ resets < MaxResets
    /\ resets' = resets + 1
    /\ Goes(c, "revoke")
    /\ UNCHANGED <<session, issued, sent>>

\* ... and the sessions go in a statement of their own, as they do on a logout
RevokeAllSessions(c) ==
    /\ client[c].at \in {"ready", "revoke"}
    /\ session' = Revoked(Live)
    /\ Goes(c, "ready")
    /\ UNCHANGED <<issued, sent, resets>>

RequestFails(c) == client[c].at # "ready" /\ Goes(c, "ready") /\ UNCHANGED <<session, issued, sent, resets>>

Next ==
    \/ \E l \in Links : SendMagicLink(l)
    \/ \E c \in Clients :
        \/ MarkLinkUsed(c) \/ ListSessions(c) \/ PruneOldest(c) \/ RevokeSessionFamily(c)
        \/ StartReset(c) \/ RevokeAllSessions(c) \/ RequestFails(c)
        \/ \E l \in Links : VerifyMagicLink(c, l)
        \/ \E s \in Sessions : IssueSession(c, s) \/ ConsumeSession(c, s) \/ RotateSession(c, s)

-----------------------------------------------------------------------------
\* Two refreshes of one session never leave its family with two live sessions, or
\* with a live one and a successor about to be inserted.
FamilyHasOneHeir ==
    \A f \in Sessions :
        Cardinality({s \in Live : session[s].family = f})
            + Cardinality({c \in Clients : client[c].at = "replace" /\ session[client[c].from].family = f}) <= 1

\* What a reset promises, and what does not hold: a refresh that has consumed its
\* session when the reset revokes them inserts a live one after it.
ResetEndsSessions ==
    \A c \in Clients : client[c].at = "revoke" => \A d \in Clients : client[d].at # "replace"
=============================================================================
