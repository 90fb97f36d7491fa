-------------------------------- MODULE Oauth --------------------------------
(***************************************************************************)
(* The authorization server: one app, one merchant, one organization.  The *)
(* app asks for scopes, the merchant consents once, and the app turns the  *)
(* code into a refresh token that it rotates.  No statement here shares a  *)
(* transaction with another, so each is a step, and a request may fail     *)
(* between any two.                                                        *)
(***************************************************************************)
EXTENDS Naturals, FiniteSets

CONSTANTS ReadScope, WriteScope, \* of one resource; writing implies reading
          Asked,       \* sets of scopes that are asked for, none of them empty
          Codes, Tokens, Requests, None

VARIABLES app,      \* [status, allowed]
          grant,    \* the remembered consent; {} is none
          shown,    \* the scopes of the consent screens, each with its nonce
          approved, \* history: the screens the merchant has approved
          code,     \* [status, scopes]
          token,    \* [status, scopes, code, from]: a refresh token
          req       \* [at, scopes, code, token, family, frontier]: a request

ovars == <<app, grant, shown, approved, code, token, req>>

Ready == [at |-> "ready", scopes |-> {}, code |-> None, token |-> None, family |-> {}, frontier |-> {}]
NoCode == [status |-> "none", scopes |-> {}]
NoToken == [status |-> "none", scopes |-> {}, code |-> None, from |-> None]

Init ==
    /\ app = [status |-> "active", allowed |-> {ReadScope, WriteScope}]
    /\ grant = {} /\ shown = {} /\ approved = {}
    /\ code = [k \in Codes |-> NoCode]
    /\ token = [t \in Tokens |-> NoToken]
    /\ req = [r \in Requests |-> Ready]

ScopesCovered(subset, superset) ==
    \A s \in subset : s \in superset \/ (s = ReadScope /\ WriteScope \in superset)

Goes(r, next) == req' = [req EXCEPT ![r] = next]
Known(t) == token[t].status # "none"
Live == {t \in Tokens : token[t].status = "live"}
Revoked(S) == [t \in Tokens |-> IF t \in S THEN [token[t] EXCEPT !.status = "revoked"] ELSE token[t]]

-----------------------------------------------------------------------------
\* The owner suspends the app, takes it up again, or changes what it may ask for
UpdateApp(status, allowed) ==
    /\ app.status # "deleted" /\ app' = [status |-> status, allowed |-> allowed]
    /\ UNCHANGED <<grant, shown, approved, code, token, req>>

\* ON DELETE CASCADE
DeleteApp ==
    /\ app.status # "deleted" /\ app' = [app EXCEPT !.status = "deleted"]
    /\ grant' = {}
    /\ code' = [k \in Codes |-> NoCode]
    /\ token' = [t \in Tokens |-> NoToken]
    /\ UNCHANGED <<shown, approved, req>>

\* GET /oauth/authorize: a request without scopes asks for all that is allowed
Authorize(r, scopes) ==
    /\ req[r] = Ready /\ app.status = "active" /\ scopes \subseteq app.allowed
    /\ Goes(r, [Ready EXCEPT !.at = "authorize", !.scopes = scopes])
    /\ UNCHANGED <<app, grant, shown, approved, code, token>>

\* A remembered consent is enough, or the merchant is shown the scopes and a nonce binds them
GetGrant(r) ==
    /\ req[r].at = "authorize"
    /\ IF grant # {} /\ ScopesCovered(req[r].scopes, grant)
       THEN Goes(r, [req[r] EXCEPT !.at = "issue"]) /\ UNCHANGED shown
       ELSE Goes(r, Ready) /\ shown' = shown \cup {req[r].scopes}
    /\ UNCHANGED <<app, grant, approved, code, token>>

\* Mutant of Consent: the nonce is not compared with the scopes that are posted.
AnyNonce(r, seen, scopes) ==
    /\ req[r] = Ready /\ app.status = "active" /\ seen \in shown /\ scopes \subseteq app.allowed
    /\ approved' = approved \cup {seen}
    /\ Goes(r, [Ready EXCEPT !.at = "issue", !.scopes = scopes])
    /\ UNCHANGED <<app, grant, shown, code, token>>

\* POST /oauth/authorize/consent for a screen; its nonce may be used again, until it expires
\* and the screen is of no more use
Consent(r, seen, scopes) ==
    /\ req[r] = Ready /\ app.status = "active" /\ seen \in shown /\ scopes \subseteq app.allowed
    /\ scopes = seen
    /\ approved' = approved \cup {seen}
    /\ Goes(r, [Ready EXCEPT !.at = "issue", !.scopes = scopes])
    /\ UNCHANGED <<app, grant, shown, code, token>>

IssueAuthorizationCode(r, k) ==
    /\ req[r].at = "issue" /\ app.status # "deleted" /\ code[k] = NoCode
    /\ code' = [code EXCEPT ![k] = [status |-> "issued", scopes |-> req[r].scopes]]
    /\ Goes(r, [req[r] EXCEPT !.at = "grant"])
    /\ UNCHANGED <<app, grant, shown, approved, token>>

\* The remembered consent becomes what was asked for last
UpsertGrant(r) ==
    /\ req[r].at = "grant" /\ app.status # "deleted"
    /\ grant' = req[r].scopes
    /\ Goes(r, Ready)
    /\ UNCHANGED <<app, shown, approved, code, token>>

-----------------------------------------------------------------------------
\* POST /oauth/token: the client is looked up before its code or token
ExchangeAuthorizationCode(r, k) ==
    /\ req[r] = Ready /\ app.status = "active" /\ code[k] # NoCode
    /\ Goes(r, [Ready EXCEPT !.at = "consume", !.code = k])
    /\ UNCHANGED <<app, grant, shown, approved, code, token>>

\* UPDATE .. WHERE consumed_at IS NULL: a code that turns out to have expired, to be for
\* another redirect or without its verifier is used up by the attempt
ConsumeCode(r) ==
    LET k == req[r].code IN
    /\ req[r].at = "consume" /\ code[k].status = "issued"
    /\ code' = [code EXCEPT ![k].status = "consumed"]
    /\ \/ Goes(r, [req[r] EXCEPT !.at = "insert", !.scopes = code[k].scopes])
       \/ Goes(r, Ready)
    /\ UNCHANGED <<app, grant, shown, approved, token>>

IssueRefreshToken(r, t) ==
    /\ req[r].at = "insert" /\ app.status # "deleted" /\ token[t] = NoToken
    /\ token' = [token EXCEPT ![t] = [status |-> "live", scopes |-> req[r].scopes,
                                      code |-> req[r].code, from |-> req[r].token]]
    /\ Goes(r, Ready)
    /\ UNCHANGED <<app, grant, shown, approved, code>>

ExchangeRefreshToken(r, t) ==
    /\ req[r] = Ready /\ app.status = "active" /\ Known(t)
    /\ Goes(r, [Ready EXCEPT !.at = "rotate", !.token = t])
    /\ UNCHANGED <<app, grant, shown, approved, code, token>>

\* Mutant of ConsumeToken: a token is still good for the request that read it.
RotateAnyToken(r) ==
    LET t == req[r].token IN
    /\ req[r].at = "rotate" /\ Known(t)
    /\ token' = Revoked({t})
    /\ Goes(r, [req[r] EXCEPT !.at = "insert", !.scopes = token[t].scopes, !.code = token[t].code])
    /\ UNCHANGED <<app, grant, shown, approved, code>>

\* UPDATE .. WHERE revoked_at IS NULL: one request rotates the token, any other finds it used
ConsumeToken(r) ==
    LET t == req[r].token IN
    /\ req[r].at = "rotate" /\ Known(t)
    /\ IF t \in Live
       THEN Goes(r, [req[r] EXCEPT !.at = "insert", !.scopes = token[t].scopes, !.code = token[t].code])
       ELSE Goes(r, [req[r] EXCEPT !.at = "walk", !.family = {t}, !.frontier = {t}])
    /\ token' = Revoked({t})
    /\ UNCHANGED <<app, grant, shown, approved, code>>

\* One hop of the walk over the family: the token this one came from, and its heirs
WalkFamily(r, t) ==
    LET near == {x \in Tokens : Known(x) /\ (token[x].from = t \/ (Known(t) /\ token[t].from = x))}
        new == near \ req[r].family
    IN /\ req[r].at = "walk" /\ t \in req[r].frontier
       /\ Goes(r, [req[r] EXCEPT !.family = @ \cup new, !.frontier = (@ \ {t}) \cup new])
       /\ UNCHANGED <<app, grant, shown, approved, code, token>>

RevokeRefreshFamily(r) ==
    /\ req[r].at = "walk" /\ req[r].frontier = {}
    /\ token' = Revoked(req[r].family \cap Live)
    /\ Goes(r, Ready)
    /\ UNCHANGED <<app, grant, shown, approved, code>>

\* POST /oauth/revoke, by the client it was issued to
RevokeToken(t) ==
    /\ app.status = "active" /\ t \in Live
    /\ token' = Revoked({t})
    /\ UNCHANGED <<app, grant, shown, approved, code, req>>

\* Refused, or died between two statements
RequestFails(r) ==
    /\ req[r] # Ready /\ Goes(r, Ready)
    /\ UNCHANGED <<app, grant, shown, approved, code, token>>

Next ==
    \/ \E status \in {"active", "suspended"}, allowed \in Asked \cup {{ReadScope, WriteScope}} : UpdateApp(status, allowed)
    \/ DeleteApp
    \/ \E t \in Tokens : RevokeToken(t)
    \/ \E r \in Requests :
        \/ GetGrant(r) \/ UpsertGrant(r) \/ ConsumeCode(r) \/ ConsumeToken(r)
        \/ RevokeRefreshFamily(r) \/ RequestFails(r)
        \/ \E scopes \in Asked : Authorize(r, scopes)
        \/ \E seen, scopes \in Asked : Consent(r, seen, scopes)
        \/ \E k \in Codes : IssueAuthorizationCode(r, k) \/ ExchangeAuthorizationCode(r, k)
        \/ \E t \in Tokens : IssueRefreshToken(r, t) \/ ExchangeRefreshToken(r, t) \/ WalkFamily(r, t)

-----------------------------------------------------------------------------
\* Whatever the app turns codes into, and however the remembered consent was replaced
\* since: a code or token carries only scopes that one screen the merchant approved had.
ConsentedScopes ==
    LET Consented(scopes) == \E seen \in approved : ScopesCovered(scopes, seen)
    IN /\ \A k \in Codes : code[k] # NoCode => Consented(code[k].scopes)
       /\ \A t \in Tokens : Known(t) => Consented(token[t].scopes)

\* A code is turned into one token and that token into one heir at a time: a code has one
\* live token, or one about to be inserted, or none.
CodeHasOneHeir ==
    \A k \in Codes :
        Cardinality({t \in Live : token[t].code = k})
            + Cardinality({r \in Requests : req[r].at = "insert" /\ req[r].code = k}) <= 1

\* What reuse detection promises, and what does not hold: when a walk has ended, the family
\* it has found is all there is.  A rotation that has consumed its token inserts an heir later.
FamilyIsFound ==
    \A r \in Requests :
        req[r].at = "walk" /\ req[r].frontier = {} /\ Known(req[r].token) =>
            /\ \A t \in Live : token[t].code = token[req[r].token].code => t \in req[r].family
            /\ \A q \in Requests : req[q].at = "insert" => req[q].code # token[req[r].token].code
=============================================================================
