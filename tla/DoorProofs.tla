------------------------------ MODULE DoorProofs ------------------------------
(***************************************************************************)
(* Proofs about what lets a request in (consent, API keys, the rate limit, *)
(* sign-in) and about the shelves (collections, imports), for any number   *)
(* of requests, codes, tokens, customers, products and imports.            *)
(***************************************************************************)
EXTENDS ShopProofs

\* A step of the shop is a step of a part or leaves the part alone.
LEMMA DoorFrame ==
  ASSUME [Next]_vars
  PROVE  /\ Consents!Next \/ UNCHANGED consents
         /\ Credentials!Next \/ UNCHANGED credentials
         /\ Throttle!Next \/ UNCHANGED throttles
BY Zenon DEF Next, vars, doors, DoorStep, ConsentStep, CredentialStep, ThrottleStep, VisitStep

LEMMA VisitFrame ==
  ASSUME [Next]_vars
  PROVE  /\ part' = part
         /\ \/ part = "identities" /\ People(Emails, 1)!Next
            \/ part = "replaced" /\ People(OneEmail, 2)!Next
            \/ UNCHANGED identities
BY Zenon DEF Next, vars, doors, DoorStep, ConsentStep, CredentialStep, ThrottleStep, VisitStep

LEMMA ShelfFrame ==
  ASSUME [Next]_vars
  PROVE  /\ Collections!Next \/ UNCHANGED collections
         /\ Csv!Next \/ UNCHANGED imports
BY Zenon DEF Next, vars, shelves, ShelfStep, CollectionStep, ImportStep

-----------------------------------------------------------------------------
(* Consent.                                                                *)

AskedFor == Asked \cup {{}}
AppRow == [status : {"active", "suspended", "deleted"}, allowed : AskedFor \cup {{ReadScope, WriteScope}}]
CodeRow == [status : {"none", "issued", "consumed"}, scopes : AskedFor]
TokenRow == [status : {"none", "live", "revoked"}, scopes : AskedFor, code : Codes \cup {None},
             from : Tokens \cup {None}]
AskerState == [at : {"ready", "authorize", "issue", "grant", "consume", "insert", "rotate", "walk"},
               scopes : AskedFor, code : Codes \cup {None}, token : Tokens \cup {None},
               family : SUBSET Tokens, frontier : SUBSET Tokens]

ConsentTypes ==
    /\ app \in AppRow
    /\ code \in [Codes -> CodeRow] /\ token \in [Tokens -> TokenRow] /\ oreq \in [Askers -> AskerState]
    /\ \A r \in Askers : /\ oreq[r].at \in {"consume", "insert"} => oreq[r].code \in Codes
                         /\ oreq[r].at = "rotate" => oreq[r].token \in Tokens
    /\ \A k \in Codes : code[k].status = "none" => code[k] = Consents!NoCode
    /\ \A t \in Tokens : token[t].status # "none" => token[t].code \in Codes
    /\ app.status = "deleted" => /\ \A k \in Codes : code[k].status = "none"
                                 /\ \A t \in Tokens : token[t].status = "none"

\* The scopes were on a screen that was approved, or are implied by one of it.
Shown(A, S) == \E screen \in A : Consents!ScopesCovered(S, screen)

\* The remembered consent, a request that is about to issue or insert, a code and a token.
ScopesShown ==
    /\ grant # {} => Shown(approved, grant)
    /\ \A r \in Askers : oreq[r].at \in {"issue", "grant", "insert"} => Shown(approved, oreq[r].scopes)
    /\ \A k \in Codes : code[k].status # "none" => Shown(approved, code[k].scopes)
    /\ \A t \in Tokens : token[t].status # "none" => Shown(approved, token[t].scopes)

\* Of a code that is not used up there is no heir, and of any code one at a time.
HeirOf(t, k) == token[t].status = "live" /\ token[t].code = k
InsertsFor(r, k) == oreq[r].at = "insert" /\ oreq[r].code = k
OneHeirPerCode ==
    \A k \in Codes :
        /\ code[k].status # "consumed" /\ app.status # "deleted" =>
              (\A t \in Tokens : ~HeirOf(t, k)) /\ (\A r \in Askers : ~InsertsFor(r, k))
        /\ \A s, t \in Tokens : HeirOf(s, k) /\ HeirOf(t, k) => s = t
        /\ \A q, r \in Askers : InsertsFor(q, k) /\ InsertsFor(r, k) => q = r
        /\ \A t \in Tokens, r \in Askers : ~(HeirOf(t, k) /\ InsertsFor(r, k))

ConsentInv == ConsentTypes /\ ScopesShown /\ OneHeirPerCode

\* What covers what covers is covered, and an approval is not taken back.
LEMMA CoveredTransitive ==
  ASSUME NEW S, NEW T, NEW A, Consents!ScopesCovered(S, T), Shown(A, T)
  PROVE  Shown(A, S)
BY DEF Consents!ScopesCovered, Shown

LEMMA ShownGrows ==
  ASSUME NEW S, NEW A, NEW B, A \subseteq B, Shown(A, S)
  PROVE  Shown(B, S)
BY DEF Shown

LEMMA ShownItself ==
  ASSUME NEW S, NEW A, S \in A
  PROVE  Shown(A, S)
BY DEF Shown, Consents!ScopesCovered

LEMMA ConsentInit == Init => ConsentInv
<1> SUFFICES ASSUME Consents!Init PROVE ConsentInv
  BY Zenon DEF Init
<1>1. Consents!Ready \in AskerState /\ Consents!Ready.at = "ready"
  BY DEF Consents!Ready, AskerState, AskedFor
<1>2. Consents!NoCode \in CodeRow /\ Consents!NoCode.status = "none"
  BY DEF Consents!NoCode, CodeRow, AskedFor
<1>3. Consents!NoToken \in TokenRow /\ Consents!NoToken.status = "none"
  BY DEF Consents!NoToken, TokenRow, AskedFor
<1>4. /\ oreq = [r \in Askers |-> Consents!Ready] /\ code = [k \in Codes |-> Consents!NoCode]
      /\ token = [t \in Tokens |-> Consents!NoToken] /\ grant = {} /\ app.status = "active"
      /\ app \in AppRow
  BY DEF Consents!Init, AppRow
<1>5. ConsentTypes
  BY <1>1, <1>2, <1>3, <1>4 DEF ConsentTypes
<1>6. ScopesShown /\ OneHeirPerCode
  BY <1>1, <1>2, <1>3, <1>4 DEF ScopesShown, OneHeirPerCode, HeirOf, InsertsFor
<1>7. QED BY <1>5, <1>6 DEF ConsentInv

\* A request goes on, whatever it is made of.
LEMMA AskerGoes ==
  ASSUME oreq \in [Askers -> AskerState], NEW r \in Askers, NEW n \in AskerState, Consents!Goes(r, n)
  PROVE  oreq' \in [Askers -> AskerState] /\ \A q \in Askers : oreq'[q] = IF q = r THEN n ELSE oreq[q]
BY DEF Consents!Goes

\* The records a request becomes.
LEMMA AskerRecords ==
  /\ Consents!Ready \in AskerState /\ Consents!Ready.at = "ready"
  /\ \A S \in AskedFor, a \in {"authorize", "issue"} :
        LET w == [Consents!Ready EXCEPT !.at = a, !.scopes = S]
        IN w \in AskerState /\ w.at = a /\ w.scopes = S
  /\ \A k \in Codes : LET w == [Consents!Ready EXCEPT !.at = "consume", !.code = k]
                      IN w \in AskerState /\ w.at = "consume" /\ w.code = k
  /\ \A t \in Tokens : LET w == [Consents!Ready EXCEPT !.at = "rotate", !.token = t]
                       IN w \in AskerState /\ w.at = "rotate" /\ w.token = t
<1>1. Consents!Ready \in AskerState /\ Consents!Ready.at = "ready"
  BY DEF Consents!Ready, AskerState, AskedFor
<1> HIDE DEF Consents!Ready
<1>2. \A z \in AskerState, S \in AskedFor, a \in {"authorize", "issue"} :
        LET w == [z EXCEPT !.at = a, !.scopes = S]
        IN w \in AskerState /\ w.at = a /\ w.scopes = S
  BY DEF AskerState
<1>3. \A z \in AskerState, k \in Codes : LET w == [z EXCEPT !.at = "consume", !.code = k]
                      IN w \in AskerState /\ w.at = "consume" /\ w.code = k
  BY DEF AskerState
<1>4. \A z \in AskerState, t \in Tokens : LET w == [z EXCEPT !.at = "rotate", !.token = t]
                       IN w \in AskerState /\ w.at = "rotate" /\ w.token = t
  BY DEF AskerState
<1>5. QED BY <1>1, <1>2, <1>3, <1>4

\* A request moves, inserts nothing, and what it carries further has been shown.
LEMMA AskerMoves ==
  ASSUME ConsentInv, NEW r \in Askers, NEW n \in AskerState, Consents!Goes(r, n),
         UNCHANGED <<app, grant, code, token>>, approved \subseteq approved', n.at # "insert",
         n.at = "consume" => n.code \in Codes, n.at = "rotate" => n.token \in Tokens,
         n.at \in {"issue", "grant"} => Shown(approved', n.scopes)
  PROVE  ConsentInv'
<1>1. oreq' \in [Askers -> AskerState] /\ \A q \in Askers : oreq'[q] = IF q = r THEN n ELSE oreq[q]
  BY AskerGoes DEF ConsentInv, ConsentTypes
<1>2. ConsentTypes'
  BY <1>1 DEF ConsentInv, ConsentTypes
<1>3. ScopesShown'
  BY <1>1, ShownGrows DEF ConsentInv, ScopesShown
<1>4. OneHeirPerCode'
  <2>1. \A k \in Codes, t \in Tokens : HeirOf(t, k)' <=> HeirOf(t, k)
    BY DEF HeirOf
  <2>2. \A k \in Codes, q \in Askers : InsertsFor(q, k)' => InsertsFor(q, k)
    BY <1>1 DEF InsertsFor
  <2>3. QED BY <2>1, <2>2 DEF ConsentInv, OneHeirPerCode
<1>5. QED BY <1>2, <1>3, <1>4 DEF ConsentInv

LEMMA AskerStep ==
  ASSUME ConsentInv, NEW r \in Askers,
         \/ Consents!GetGrant(r) \/ Consents!RequestFails(r)
         \/ \E scopes \in Asked : Consents!Authorize(r, scopes)
         \/ \E screen, scopes \in Asked : Consents!Consent(r, screen, scopes)
         \/ \E k \in Codes : Consents!ExchangeAuthorizationCode(r, k)
         \/ \E t \in Tokens : Consents!ExchangeRefreshToken(r, t) \/ Consents!WalkFamily(r, t)
  PROVE  ConsentInv'
<1>t. oreq[r] \in AskerState
  BY DEF ConsentInv, ConsentTypes
<1>1. ASSUME Consents!GetGrant(r) PROVE ConsentInv'
  <2>1. oreq[r].at = "authorize" /\ UNCHANGED <<app, grant, approved, code, token>>
    BY <1>1 DEF Consents!GetGrant
  <2>2. CASE grant # {} /\ Consents!ScopesCovered(oreq[r].scopes, grant)
    <3> DEFINE n == [oreq[r] EXCEPT !.at = "issue"]
    <3>1. Consents!Goes(r, n)
      BY <1>1, <2>2 DEF Consents!GetGrant
    <3>2. n \in AskerState /\ n.at = "issue" /\ n.scopes = oreq[r].scopes
      BY <1>t DEF AskerState
    <3> HIDE DEF n
    <3>3. Shown(approved, n.scopes)
      BY <2>2, <3>2, CoveredTransitive DEF ConsentInv, ScopesShown
    <3>4. QED BY <2>1, <3>1, <3>2, <3>3, AskerMoves
  <2>3. CASE ~(grant # {} /\ Consents!ScopesCovered(oreq[r].scopes, grant))
    <3>1. Consents!Goes(r, Consents!Ready)
      BY <1>1, <2>3 DEF Consents!GetGrant
    <3>2. QED BY <2>1, <3>1, AskerRecords, AskerMoves
  <2>4. QED BY <2>2, <2>3
<1>2. ASSUME Consents!RequestFails(r) PROVE ConsentInv'
  <2>1. Consents!Goes(r, Consents!Ready) /\ UNCHANGED <<app, grant, approved, code, token>>
    BY <1>2 DEF Consents!RequestFails
  <2>2. QED BY <2>1, AskerRecords, AskerMoves
<1>3. ASSUME NEW scopes \in Asked, Consents!Authorize(r, scopes) PROVE ConsentInv'
  <2> DEFINE n == [Consents!Ready EXCEPT !.at = "authorize", !.scopes = scopes]
  <2>1. Consents!Goes(r, n) /\ UNCHANGED <<app, grant, approved, code, token>>
    BY <1>3 DEF Consents!Authorize
  <2>2. n \in AskerState /\ n.at = "authorize"
    BY AskerRecords DEF AskedFor
  <2> HIDE DEF n
  <2>3. QED BY <2>1, <2>2, AskerMoves
<1>4. ASSUME NEW screen \in Asked, NEW scopes \in Asked, Consents!Consent(r, screen, scopes) PROVE ConsentInv'
  <2> DEFINE n == [Consents!Ready EXCEPT !.at = "issue", !.scopes = scopes]
  <2>1. /\ Consents!Goes(r, n) /\ UNCHANGED <<app, grant, code, token>>
        /\ approved' = approved \cup {screen} /\ scopes = screen
    BY <1>4 DEF Consents!Consent
  <2>2. n \in AskerState /\ n.at = "issue" /\ n.scopes = scopes
    BY AskerRecords DEF AskedFor
  <2>3. Shown(approved', scopes)
    BY <2>1, ShownItself
  <2> HIDE DEF n
  <2>4. QED BY <2>1, <2>2, <2>3, AskerMoves
<1>5. ASSUME NEW k \in Codes, Consents!ExchangeAuthorizationCode(r, k) PROVE ConsentInv'
  <2> DEFINE n == [Consents!Ready EXCEPT !.at = "consume", !.code = k]
  <2>1. Consents!Goes(r, n) /\ UNCHANGED <<app, grant, approved, code, token>>
    BY <1>5 DEF Consents!ExchangeAuthorizationCode
  <2>2. n \in AskerState /\ n.at = "consume" /\ n.code = k
    BY AskerRecords
  <2> HIDE DEF n
  <2>3. QED BY <2>1, <2>2, AskerMoves
<1>6. ASSUME NEW t \in Tokens, Consents!ExchangeRefreshToken(r, t) PROVE ConsentInv'
  <2> DEFINE n == [Consents!Ready EXCEPT !.at = "rotate", !.token = t]
  <2>1. Consents!Goes(r, n) /\ UNCHANGED <<app, grant, approved, code, token>>
    BY <1>6 DEF Consents!ExchangeRefreshToken
  <2>2. n \in AskerState /\ n.at = "rotate" /\ n.token = t
    BY AskerRecords
  <2> HIDE DEF n
  <2>3. QED BY <2>1, <2>2, AskerMoves
<1>7. ASSUME NEW t \in Tokens, Consents!WalkFamily(r, t) PROVE ConsentInv'
  <2>1. PICK found \in SUBSET Tokens : Consents!Goes(r, [oreq[r] EXCEPT !.family = @ \cup found,
                                                             !.frontier = (@ \ {t}) \cup found])
    BY <1>7 DEF Consents!WalkFamily
  <2> DEFINE n == [oreq[r] EXCEPT !.family = @ \cup found, !.frontier = (@ \ {t}) \cup found]
  <2>2. oreq[r].at = "walk" /\ UNCHANGED <<app, grant, approved, code, token>>
    BY <1>7 DEF Consents!WalkFamily
  <2>3. n \in AskerState /\ n.at = "walk"
    BY <1>t, <2>2 DEF AskerState
  <2>4. Consents!Goes(r, n)
    BY <2>1
  <2> HIDE DEF n
  <2>5. QED BY <2>2, <2>3, <2>4, AskerMoves
<1>8. QED BY <1>1, <1>2, <1>3, <1>4, <1>5, <1>6, <1>7

\* What the owner of the app does.
LEMMA AppStep ==
  ASSUME ConsentInv,
         \/ Consents!DeleteApp
         \/ \E status \in {"active", "suspended"}, allowed \in Asked \cup {{ReadScope, WriteScope}} :
               Consents!UpdateApp(status, allowed)
  PROVE  ConsentInv'
<1>1. ASSUME NEW status \in {"active", "suspended"}, NEW allowed \in Asked \cup {{ReadScope, WriteScope}},
             Consents!UpdateApp(status, allowed)
      PROVE  ConsentInv'
  <2>1. /\ app.status # "deleted" /\ app'.status # "deleted" /\ app' \in AppRow
        /\ UNCHANGED <<grant, approved, code, token, oreq>>
    BY <1>1 DEF Consents!UpdateApp, AppRow, AskedFor
  <2>2. QED BY <2>1 DEF ConsentInv, ConsentTypes, ScopesShown, OneHeirPerCode, HeirOf, InsertsFor
<1>2. ASSUME Consents!DeleteApp PROVE ConsentInv'
  <2>1. /\ grant' = {} /\ code' = [k \in Codes |-> Consents!NoCode] /\ token' = [t \in Tokens |-> Consents!NoToken]
        /\ UNCHANGED <<approved, oreq>> /\ app' \in AppRow /\ app'.status = "deleted"
    BY <1>2 DEF Consents!DeleteApp, AppRow, ConsentInv, ConsentTypes
  <2>2. Consents!NoCode \in CodeRow /\ Consents!NoCode.status = "none"
    BY DEF Consents!NoCode, CodeRow, AskedFor
  <2>3. Consents!NoToken \in TokenRow /\ Consents!NoToken.status = "none"
    BY DEF Consents!NoToken, TokenRow, AskedFor
  <2>4. ConsentTypes'
    BY <2>1, <2>2, <2>3 DEF ConsentInv, ConsentTypes
  <2>5. ScopesShown'
    BY <2>1, <2>2, <2>3 DEF ConsentInv, ScopesShown
  <2>6. OneHeirPerCode'
    <3>1. \A t \in Tokens, k \in Codes : ~HeirOf(t, k)'
      BY <2>1, <2>3 DEF HeirOf
    <3>2. \A r \in Askers, k \in Codes : InsertsFor(r, k)' => InsertsFor(r, k)
      BY <2>1 DEF InsertsFor
    <3>3. QED BY <3>1, <3>2, <2>1 DEF ConsentInv, OneHeirPerCode
  <2>7. QED BY <2>4, <2>5, <2>6 DEF ConsentInv
<1>3. QED BY <1>1, <1>2

\* A code is issued to nobody yet.
LEMMA CodeIssued ==
  ASSUME ConsentInv, NEW r \in Askers, NEW k \in Codes, Consents!IssueAuthorizationCode(r, k)
  PROVE  ConsentInv'
<1> DEFINE n == [oreq[r] EXCEPT !.at = "grant"]
           c == [status |-> "issued", scopes |-> oreq[r].scopes]
<1>1. /\ oreq[r].at = "issue" /\ app.status # "deleted" /\ code[k] = Consents!NoCode
      /\ code' = [code EXCEPT ![k] = c] /\ Consents!Goes(r, n) /\ UNCHANGED <<app, grant, approved, token>>
  BY DEF Consents!IssueAuthorizationCode
<1>2. oreq[r] \in AskerState /\ oreq \in [Askers -> AskerState] /\ code \in [Codes -> CodeRow]
  BY DEF ConsentInv, ConsentTypes
<1>3. n \in AskerState /\ n.at = "grant" /\ n.scopes = oreq[r].scopes
  BY <1>2 DEF AskerState
<1>4. c \in CodeRow /\ c.status = "issued" /\ c.scopes = oreq[r].scopes
  BY <1>2 DEF CodeRow, AskerState
<1> HIDE DEF n, c
<1>5. oreq' \in [Askers -> AskerState] /\ \A q \in Askers : oreq'[q] = IF q = r THEN n ELSE oreq[q]
  BY <1>1, <1>2, <1>3, AskerGoes
<1>6. code' \in [Codes -> CodeRow] /\ \A j \in Codes : code'[j] = IF j = k THEN c ELSE code[j]
  BY <1>1, <1>2, <1>4
<1>7. ConsentTypes'
  BY <1>1, <1>3, <1>4, <1>5, <1>6 DEF ConsentInv, ConsentTypes
<1>8. ScopesShown'
  BY <1>1, <1>3, <1>4, <1>5, <1>6 DEF ConsentInv, ScopesShown
<1>9. OneHeirPerCode'
  <2>1. code[k].status # "consumed"
    BY <1>1 DEF Consents!NoCode
  <2>2. \A j \in Codes, t \in Tokens : HeirOf(t, j)' <=> HeirOf(t, j)
    BY <1>1 DEF HeirOf
  <2>3. \A j \in Codes, q \in Askers : InsertsFor(q, j)' => InsertsFor(q, j)
    BY <1>3, <1>5 DEF InsertsFor
  <2>4. QED BY <1>1, <1>4, <1>6, <2>1, <2>2, <2>3 DEF ConsentInv, OneHeirPerCode
<1>10. QED BY <1>7, <1>8, <1>9 DEF ConsentInv

\* A code is used up by the first who presents it, who may insert a token for it.
LEMMA CodeConsumed ==
  ASSUME ConsentInv, NEW r \in Askers, Consents!ConsumeCode(r)
  PROVE  ConsentInv'
<1> DEFINE k == oreq[r].code
           w == [oreq[r] EXCEPT !.at = "insert", !.scopes = code[k].scopes]
           c == [code[k] EXCEPT !.status = "consumed"]
<1>1. /\ oreq[r].at = "consume" /\ code[k].status = "issued"
      /\ code' = [code EXCEPT ![k] = c] /\ UNCHANGED <<app, grant, approved, token>>
      /\ Consents!Goes(r, w) \/ Consents!Goes(r, Consents!Ready)
  BY DEF Consents!ConsumeCode
<1>2. /\ oreq[r] \in AskerState /\ oreq \in [Askers -> AskerState] /\ code \in [Codes -> CodeRow]
      /\ k \in Codes
  BY <1>1 DEF ConsentInv, ConsentTypes
<1>3. w \in AskerState /\ w.at = "insert" /\ w.scopes = code[k].scopes /\ w.code = k
  BY <1>2 DEF AskerState, CodeRow
<1>4. c \in CodeRow /\ c.status = "consumed" /\ c.scopes = code[k].scopes
  BY <1>2 DEF CodeRow
<1>5. app.status # "deleted"
  BY <1>1, <1>2 DEF ConsentInv, ConsentTypes
<1> HIDE DEF k, w, c
<1>6. PICK n \in AskerState : Consents!Goes(r, n) /\ n \in {w, Consents!Ready}
  BY <1>1, <1>3, AskerRecords
<1>7. oreq' \in [Askers -> AskerState] /\ \A q \in Askers : oreq'[q] = IF q = r THEN n ELSE oreq[q]
  BY <1>2, <1>6, AskerGoes
<1>8. code' \in [Codes -> CodeRow] /\ \A j \in Codes : code'[j] = IF j = k THEN c ELSE code[j]
  BY <1>1, <1>2, <1>4
<1>9. n.at = "ready" \/ (n.at = "insert" /\ n.code = k /\ n.scopes = code[k].scopes)
  BY <1>3, <1>6, AskerRecords
<1>10. ConsentTypes'
  BY <1>1, <1>2, <1>4, <1>5, <1>7, <1>8, <1>9 DEF ConsentInv, ConsentTypes
<1>11. ScopesShown'
  BY <1>1, <1>2, <1>4, <1>7, <1>8, <1>9 DEF ConsentInv, ScopesShown
<1>12. OneHeirPerCode'
  <2>1. \A j \in Codes, t \in Tokens : HeirOf(t, j)' <=> HeirOf(t, j)
    BY <1>1 DEF HeirOf
  <2>2. \A j \in Codes, q \in Askers : InsertsFor(q, j)' => InsertsFor(q, j) \/ (q = r /\ j = k)
    BY <1>7, <1>9 DEF InsertsFor
  <2>3. (\A t \in Tokens : ~HeirOf(t, k)) /\ (\A q \in Askers : ~InsertsFor(q, k))
    BY <1>1, <1>2, <1>5 DEF ConsentInv, OneHeirPerCode
  <2>4. QED BY <1>1, <1>4, <1>8, <2>1, <2>2, <2>3 DEF ConsentInv, OneHeirPerCode
<1>13. QED BY <1>10, <1>11, <1>12 DEF ConsentInv

LEMMA GrantKept ==
  ASSUME ConsentInv, NEW r \in Askers, Consents!UpsertGrant(r)
  PROVE  ConsentInv'
<1>1. /\ oreq[r].at = "grant" /\ grant' = oreq[r].scopes /\ Consents!Goes(r, Consents!Ready)
      /\ UNCHANGED <<app, approved, code, token>>
  BY DEF Consents!UpsertGrant
<1>2. oreq \in [Askers -> AskerState]
  BY DEF ConsentInv, ConsentTypes
<1>3. Consents!Ready \in AskerState /\ Consents!Ready.at = "ready"
  BY AskerRecords
<1>4. oreq' \in [Askers -> AskerState] /\ \A q \in Askers : oreq'[q] = IF q = r THEN Consents!Ready ELSE oreq[q]
  BY <1>1, <1>2, <1>3, AskerGoes
<1>5. ConsentTypes'
  BY <1>1, <1>3, <1>4 DEF ConsentInv, ConsentTypes
<1>6. ScopesShown'
  BY <1>1, <1>3, <1>4 DEF ConsentInv, ScopesShown
<1>7. OneHeirPerCode'
  <2>1. \A j \in Codes, t \in Tokens : HeirOf(t, j)' <=> HeirOf(t, j)
    BY <1>1 DEF HeirOf
  <2>2. \A j \in Codes, q \in Askers : InsertsFor(q, j)' => InsertsFor(q, j)
    BY <1>3, <1>4 DEF InsertsFor
  <2>3. QED BY <1>1, <2>1, <2>2 DEF ConsentInv, OneHeirPerCode
<1>8. QED BY <1>5, <1>6, <1>7 DEF ConsentInv

\* What revoking tokens that are there does to the rows.
LEMMA TokensRevoked ==
  ASSUME ConsentInv, NEW S, \A t \in Tokens : t \in S => token[t].status # "none", token' = Consents!Revoked(S)
  PROVE  /\ token' \in [Tokens -> TokenRow]
         /\ \A t \in Tokens : /\ token'[t].scopes = token[t].scopes /\ token'[t].code = token[t].code
                               /\ token'[t].status = IF t \in S THEN "revoked" ELSE token[t].status
         /\ \A t \in Tokens : token'[t].status = "none" <=> token[t].status = "none"
         /\ \A k \in Codes, t \in Tokens : HeirOf(t, k)' => HeirOf(t, k) /\ t \notin S
<1>1. token \in [Tokens -> TokenRow]
  BY DEF ConsentInv, ConsentTypes
<1>2. \A t \in Tokens : LET w == [token[t] EXCEPT !.status = "revoked"]
                         IN w \in TokenRow /\ w.status = "revoked" /\ w.scopes = token[t].scopes /\ w.code = token[t].code
  BY <1>1 DEF TokenRow
<1>3. \A t \in Tokens : token'[t] = IF t \in S THEN [token[t] EXCEPT !.status = "revoked"] ELSE token[t]
  BY DEF Consents!Revoked
<1>4. token' \in [Tokens -> TokenRow]
  BY <1>1, <1>2 DEF Consents!Revoked
<1>5. \A t \in Tokens : /\ token'[t].scopes = token[t].scopes /\ token'[t].code = token[t].code
                         /\ token'[t].status = IF t \in S THEN "revoked" ELSE token[t].status
  BY <1>2, <1>3
<1>6. \A t \in Tokens : token'[t].status = "none" <=> token[t].status = "none"
  BY <1>5
<1>7. \A k \in Codes, t \in Tokens : HeirOf(t, k)' => HeirOf(t, k) /\ t \notin S
  BY <1>5 DEF HeirOf
<1>8. QED BY <1>4, <1>5, <1>6, <1>7

\* Tokens are revoked, and the request that did it, if one did, is done.
LEMMA RevocationStep ==
  ASSUME ConsentInv, \/ \E t \in Tokens : Consents!RevokeToken(t)
                     \/ \E r \in Askers : Consents!RevokeRefreshFamily(r)
  PROVE  ConsentInv'
<1> USE DEF Consents!Live
<1>1. PICK S : /\ \A t \in Tokens : t \in S => token[t].status # "none"
               /\ token' = Consents!Revoked(S) /\ UNCHANGED <<app, grant, approved, code>>
               /\ oreq' = oreq \/ \E r \in Askers : Consents!Goes(r, Consents!Ready)
  <2>1. CASE \E t \in Tokens : Consents!RevokeToken(t)
    BY <2>1 DEF Consents!RevokeToken
  <2>2. CASE \E r \in Askers : Consents!RevokeRefreshFamily(r)
    BY <2>2 DEF Consents!RevokeRefreshFamily
  <2>3. QED BY <2>1, <2>2
<1>2. /\ token' \in [Tokens -> TokenRow]
      /\ \A t \in Tokens : token'[t].scopes = token[t].scopes /\ token'[t].code = token[t].code
      /\ \A t \in Tokens : token'[t].status = "none" <=> token[t].status = "none"
      /\ \A k \in Codes, t \in Tokens : HeirOf(t, k)' => HeirOf(t, k)
  BY <1>1, TokensRevoked
<1>3. oreq' \in [Askers -> AskerState] /\ \A q \in Askers : oreq'[q] = oreq[q] \/ oreq'[q].at = "ready"
  <2>1. oreq \in [Askers -> AskerState]
    BY DEF ConsentInv, ConsentTypes
  <2>2. CASE oreq' = oreq
    BY <2>1, <2>2
  <2>3. ASSUME NEW r \in Askers, Consents!Goes(r, Consents!Ready)
        PROVE  oreq' \in [Askers -> AskerState] /\ \A q \in Askers : oreq'[q] = oreq[q] \/ oreq'[q].at = "ready"
    <3>1. Consents!Ready \in AskerState /\ Consents!Ready.at = "ready"
      BY AskerRecords
    <3>2. oreq' \in [Askers -> AskerState] /\ \A q \in Askers : oreq'[q] = IF q = r THEN Consents!Ready ELSE oreq[q]
      BY <2>1, <2>3, <3>1, AskerGoes
    <3>3. QED BY <3>1, <3>2
  <2>4. QED BY <1>1, <2>2, <2>3
<1>4. ConsentTypes'
  BY <1>1, <1>2, <1>3 DEF ConsentInv, ConsentTypes
<1>5. ScopesShown'
  BY <1>1, <1>2, <1>3 DEF ConsentInv, ScopesShown
<1>6. OneHeirPerCode'
  <2>1. \A k \in Codes, q \in Askers : InsertsFor(q, k)' => InsertsFor(q, k)
    BY <1>3 DEF InsertsFor
  <2>2. QED BY <1>1, <1>2, <2>1 DEF ConsentInv, OneHeirPerCode
<1>7. QED BY <1>4, <1>5, <1>6 DEF ConsentInv

\* The first who rotates a token becomes the heir of its code in its place; another starts to walk.
LEMMA TokenConsumed ==
  ASSUME ConsentInv, NEW r \in Askers, Consents!ConsumeToken(r)
  PROVE  ConsentInv'
<1> DEFINE t == oreq[r].token
           w == [oreq[r] EXCEPT !.at = "insert", !.scopes = token[t].scopes, !.code = token[t].code]
           v == [oreq[r] EXCEPT !.at = "walk", !.family = {t}, !.frontier = {t}]
           n == IF token[t].status = "live" THEN w ELSE v
<1>1. /\ oreq[r].at = "rotate" /\ token[t].status # "none" /\ token' = Consents!Revoked({t})
      /\ UNCHANGED <<app, grant, approved, code>>
  BY DEF Consents!ConsumeToken, Consents!Known
<1>2. /\ oreq[r] \in AskerState /\ oreq \in [Askers -> AskerState] /\ t \in Tokens /\ token[t] \in TokenRow
      /\ token[t].code \in Codes
  BY <1>1 DEF ConsentInv, ConsentTypes
<1>3. w \in AskerState /\ w.at = "insert" /\ w.scopes = token[t].scopes /\ w.code = token[t].code
  BY <1>2 DEF AskerState, TokenRow
<1>4. v \in AskerState /\ v.at = "walk"
  BY <1>2 DEF AskerState
<1>5. Consents!Goes(r, n)
  BY <1>2 DEF Consents!ConsumeToken, Consents!Live
<1> HIDE DEF t, w, v
<1>6. /\ n \in AskerState /\ n.at \in {"walk", "insert"}
      /\ n.at = "insert" => token[t].status = "live" /\ n.scopes = token[t].scopes /\ n.code = token[t].code
  BY <1>3, <1>4
<1> HIDE DEF n
<1>7. oreq' \in [Askers -> AskerState] /\ \A q \in Askers : oreq'[q] = IF q = r THEN n ELSE oreq[q]
  BY <1>2, <1>5, <1>6, AskerGoes
<1>8. /\ token' \in [Tokens -> TokenRow]
      /\ \A x \in Tokens : token'[x].scopes = token[x].scopes /\ token'[x].code = token[x].code
      /\ \A x \in Tokens : token'[x].status = "none" <=> token[x].status = "none"
      /\ \A k \in Codes, x \in Tokens : HeirOf(x, k)' => HeirOf(x, k) /\ x # t
  <2>1. \A x \in Tokens : x \in {t} => token[x].status # "none"
    BY <1>1
  <2>2. QED BY <1>1, <2>1, TokensRevoked
<1>9. ConsentTypes'
  BY <1>1, <1>2, <1>6, <1>7, <1>8 DEF ConsentInv, ConsentTypes
<1>10. ScopesShown'
  BY <1>1, <1>2, <1>6, <1>7, <1>8 DEF ConsentInv, ScopesShown
<1>11. OneHeirPerCode'
  <2>1. \A k \in Codes, q \in Askers : InsertsFor(q, k)' => InsertsFor(q, k) \/ (q = r /\ HeirOf(t, k))
    BY <1>6, <1>7 DEF InsertsFor, HeirOf
  <2>2. QED BY <1>1, <1>2, <1>8, <2>1 DEF ConsentInv, OneHeirPerCode
<1>12. QED BY <1>9, <1>10, <1>11 DEF ConsentInv

LEMMA TokenIssued ==
  ASSUME ConsentInv, NEW r \in Askers, NEW t \in Tokens, Consents!IssueRefreshToken(r, t)
  PROVE  ConsentInv'
<1> DEFINE n == [status |-> "live", scopes |-> oreq[r].scopes, code |-> oreq[r].code, from |-> oreq[r].token]
<1>1. /\ oreq[r].at = "insert" /\ app.status # "deleted" /\ token' = [token EXCEPT ![t] = n]
      /\ Consents!Goes(r, Consents!Ready) /\ UNCHANGED <<app, grant, approved, code>>
  BY DEF Consents!IssueRefreshToken
<1>2. /\ oreq[r] \in AskerState /\ oreq \in [Askers -> AskerState] /\ token \in [Tokens -> TokenRow]
      /\ oreq[r].code \in Codes
  BY <1>1 DEF ConsentInv, ConsentTypes
<1>3. n \in TokenRow /\ n.status = "live" /\ n.scopes = oreq[r].scopes /\ n.code = oreq[r].code
  BY <1>2 DEF AskerState, TokenRow
<1> HIDE DEF n
<1>4. token' \in [Tokens -> TokenRow] /\ \A x \in Tokens : token'[x] = IF x = t THEN n ELSE token[x]
  BY <1>1, <1>2, <1>3
<1>5. Consents!Ready \in AskerState /\ Consents!Ready.at = "ready"
  BY AskerRecords
<1>6. oreq' \in [Askers -> AskerState] /\ \A q \in Askers : oreq'[q] = IF q = r THEN Consents!Ready ELSE oreq[q]
  BY <1>1, <1>2, <1>5, AskerGoes
<1>7. ConsentTypes'
  BY <1>1, <1>2, <1>3, <1>4, <1>5, <1>6 DEF ConsentInv, ConsentTypes
<1>8. ScopesShown'
  BY <1>1, <1>2, <1>3, <1>4, <1>5, <1>6 DEF ConsentInv, ScopesShown
<1>9. OneHeirPerCode'
  <2>1. \A k \in Codes, x \in Tokens : HeirOf(x, k)' => HeirOf(x, k) \/ (x = t /\ InsertsFor(r, k))
    BY <1>1, <1>3, <1>4 DEF HeirOf, InsertsFor
  <2>2. \A k \in Codes, q \in Askers : InsertsFor(q, k)' => InsertsFor(q, k) /\ q # r
    BY <1>5, <1>6 DEF InsertsFor
  <2>3. QED BY <1>1, <2>1, <2>2 DEF ConsentInv, OneHeirPerCode
<1>10. QED BY <1>7, <1>8, <1>9 DEF ConsentInv

LEMMA ConsentStepped == ConsentInv /\ [Next]_vars => ConsentInv'
<1> SUFFICES ASSUME ConsentInv, [Next]_vars PROVE ConsentInv'
  OBVIOUS
<1>1. CASE UNCHANGED consents
  <2>1. UNCHANGED <<app, grant, approved, code, token, oreq>>
    BY <1>1 DEF consents
  <2>2. QED BY <2>1 DEF ConsentInv, ConsentTypes, ScopesShown, OneHeirPerCode, HeirOf, InsertsFor
<1>2. CASE Consents!Next
  <2>1. CASE \/ Consents!DeleteApp
             \/ \E status \in {"active", "suspended"}, allowed \in Asked \cup {{ReadScope, WriteScope}} :
                   Consents!UpdateApp(status, allowed)
    BY <2>1, AppStep
  <2>2. CASE \E t \in Tokens : Consents!RevokeToken(t)
    BY <2>2, RevocationStep
  <2>3. ASSUME NEW r \in Askers,
               \/ Consents!GetGrant(r) \/ Consents!RequestFails(r)
               \/ \E scopes \in Asked : Consents!Authorize(r, scopes)
               \/ \E screen, scopes \in Asked : Consents!Consent(r, screen, scopes)
               \/ \E k \in Codes : Consents!ExchangeAuthorizationCode(r, k)
               \/ \E t \in Tokens : Consents!ExchangeRefreshToken(r, t) \/ Consents!WalkFamily(r, t)
        PROVE  ConsentInv'
    BY <2>3, AskerStep
  <2>4. ASSUME NEW r \in Askers, Consents!UpsertGrant(r) \/ Consents!ConsumeCode(r) \/ Consents!ConsumeToken(r)
        PROVE  ConsentInv'
    BY <2>4, GrantKept, CodeConsumed, TokenConsumed
  <2>5. ASSUME NEW r \in Askers, \/ Consents!RevokeRefreshFamily(r)
                                 \/ \E k \in Codes : Consents!IssueAuthorizationCode(r, k)
                                 \/ \E t \in Tokens : Consents!IssueRefreshToken(r, t)
        PROVE  ConsentInv'
    BY <2>5, RevocationStep, CodeIssued, TokenIssued
  <2>6. QED BY <1>2, <2>1, <2>2, <2>3, <2>4, <2>5 DEF Consents!Next
<1>3. QED BY <1>1, <1>2, DoorFrame

\* A code or a token never carries a scope that no screen the merchant approved had: over consents
\* that replace each other, suspended and deleted apps, and rotations that overlap.
THEOREM ScopesWereConsented == Spec => []ConsentedScopes
<1>1. ConsentInv => ConsentedScopes
  <2> SUFFICES ASSUME ConsentInv
               PROVE  /\ \A k \in Codes : code[k] # Consents!NoCode =>
                            \E screen \in approved : Consents!ScopesCovered(code[k].scopes, screen)
                      /\ \A t \in Tokens : Consents!Known(t) =>
                            \E screen \in approved : Consents!ScopesCovered(token[t].scopes, screen)
    BY DEF ConsentedScopes, Consents!ConsentedScopes
  <2>1. QED BY DEF ConsentInv, ConsentTypes, ScopesShown, Shown, Consents!Known
<1>2. QED BY <1>1, ConsentInit, ConsentStepped, PTL DEF Spec

\* However many requests present one refresh token, or one code, at once: the family of a customer's
\* session and the code of an app have one live successor, or one that is about to be inserted.
THEOREM HeirsAreAlone == Spec => []OneHeirEach
<1>1. ConsentInv => Consents!CodeHasOneHeir
  <2> SUFFICES ASSUME ConsentInv, NEW k \in Codes
               PROVE  Cardinality({t \in Consents!Live : token[t].code = k})
                        + Cardinality({r \in Askers : oreq[r].at = "insert" /\ oreq[r].code = k}) <= 1
    <3>1. \A S : Consents!Cardinality(S) = Cardinality(S)
      BY DEF Consents!Cardinality, Cardinality
    <3>2. QED BY <3>1, Zenon DEF Consents!CodeHasOneHeir
  <2>1. \A s, t \in {t \in Consents!Live : token[t].code = k} : s = t
    BY DEF ConsentInv, OneHeirPerCode, HeirOf, Consents!Live
  <2>2. \A q, r \in {r \in Askers : oreq[r].at = "insert" /\ oreq[r].code = k} : q = r
    BY DEF ConsentInv, OneHeirPerCode, InsertsFor
  <2>3. \A t \in {t \in Consents!Live : token[t].code = k},
           r \in {r \in Askers : oreq[r].at = "insert" /\ oreq[r].code = k} : FALSE
    BY DEF ConsentInv, OneHeirPerCode, HeirOf, InsertsFor, Consents!Live
  <2>4. QED BY ONLY <2>1, <2>2, <2>3, OneBetween
<1>2. QED BY <1>1, FamilyOfOne, SessionInit, SessionsStep, ConsentInit, ConsentStepped, PTL DEF Spec, OneHeirEach

-----------------------------------------------------------------------------
(* API keys.                                                               *)

KeyRow == [active : BOOLEAN, scope : Credentials!Scopes, expires : Nat \cup {None}]
CachedRow == [scope : Credentials!Scopes, cachedAt : Nat]
CallState == [at : {"ready", "select", "answer", "store"}, scope : Credentials!Scopes \cup {None}, since : Nat]

KeyTypes ==
    /\ tick \in Nat /\ key \in KeyRow /\ granted \in [Credentials!Scopes -> Nat]
    /\ kept \in [Processes -> CachedRow \cup {None}] /\ areq \in [Calls -> CallState]
    /\ \A q \in Calls : areq[q].at \in {"answer", "store"} => areq[q].scope \in Credentials!Scopes

\* What the row grants now it was last seen to grant now; nothing is granted later than now.
GrantedNow ==
    \A s \in Credentials!Scopes :
        granted[s] <= tick /\ (Credentials!Grants(key, s, tick) => granted[s] = tick)

\* A query is answered in time.  An answer on its way was granted after the query was sent, and what
\* is known of the key, cached or not, is as old as the waits it has gone through.
Timely(c, time) == c.at # "ready" => c.since <= time /\ time <= c.since + Delay
Holds(c, s, when) ==
    /\ c.at = "answer" /\ Credentials!HasScope(c.scope, s) => c.since <= when
    /\ c.at = "store" /\ Credentials!HasScope(c.scope, s) => c.since < when + TTL + Delay
AnswersTimely == \A q \in Calls : Timely(areq[q], tick)
AnswersGranted == \A q \in Calls, s \in Credentials!Scopes : Holds(areq[q], s, granted[s])
CacheGranted ==
    \A p \in Processes, s \in Credentials!Scopes :
        kept[p] # None /\ Credentials!HasScope(kept[p].scope, s) => kept[p].cachedAt <= granted[s] + Delay

KeyInv == KeyTypes /\ GrantedNow /\ AnswersTimely /\ AnswersGranted /\ CacheGranted

LEMMA CallReady == Credentials!Ready \in CallState /\ Credentials!Ready.at = "ready"
BY DEF Credentials!Ready, CallState

LEMMA KeyInit == Init => KeyInv
<1> SUFFICES ASSUME Credentials!Init PROVE KeyInv
  BY Zenon DEF Init
<1>1. tick = 0 /\ key \in KeyRow /\ granted = [s \in Credentials!Scopes |-> 0]
  BY DEF Credentials!Init, KeyRow, Credentials!Scopes
<1>2. kept = [p \in Processes |-> None] /\ areq = [q \in Calls |-> Credentials!Ready]
  BY DEF Credentials!Init
<1>3. KeyTypes
  BY <1>1, <1>2, CallReady DEF KeyTypes
<1>4. GrantedNow
  BY <1>1 DEF GrantedNow
<1>5. AnswersTimely /\ AnswersGranted /\ CacheGranted
  BY <1>2, CallReady DEF AnswersTimely, AnswersGranted, CacheGranted, Timely, Holds
<1>6. QED BY <1>3, <1>4, <1>5 DEF KeyInv

\* The history is brought up to date: it only moves forward, and to now for what is granted.
LEMMA DatesMove ==
  ASSUME KeyInv, NEW row \in KeyRow, NEW time \in Nat, tick <= time, Credentials!Dates(row, time)
  PROVE  /\ granted' \in [Credentials!Scopes -> Nat]
         /\ \A s \in Credentials!Scopes : /\ granted[s] <= granted'[s] /\ granted'[s] <= time
                                          /\ Credentials!Grants(row, s, time) => granted'[s] = time
BY DEF KeyInv, KeyTypes, GrantedNow, Credentials!Dates

\* Later grants leave what is known good.
LEMMA HoldsLater ==
  ASSUME NEW c \in CallState, NEW s, NEW m \in Nat, NEW n \in Nat, m <= n, Holds(c, s, m)
  PROVE  Holds(c, s, n)
<1>1. c.since \in Nat
  BY DEF CallState
<1>2. QED BY <1>1, TimeAssumption DEF Holds

LEMMA TickStep ==
  ASSUME KeyInv, Credentials!Tick
  PROVE  KeyInv'
<1>1. /\ tick' = tick + 1 /\ Credentials!Dates(key, tick + 1) /\ UNCHANGED <<key, kept, areq>>
      /\ \A q \in Calls : areq[q].at # "ready" => tick < areq[q].since + Delay
  BY DEF Credentials!Tick
<1>2. tick \in Nat /\ key \in KeyRow /\ areq \in [Calls -> CallState] /\ kept \in [Processes -> CachedRow \cup {None}]
      /\ granted \in [Credentials!Scopes -> Nat]
  BY DEF KeyInv, KeyTypes
<1>3. /\ granted' \in [Credentials!Scopes -> Nat]
      /\ \A s \in Credentials!Scopes : /\ granted[s] <= granted'[s] /\ granted'[s] <= tick + 1
                                       /\ Credentials!Grants(key, s, tick + 1) => granted'[s] = tick + 1
  BY <1>1, <1>2, DatesMove
<1>4. KeyTypes'
  BY <1>1, <1>2, <1>3 DEF KeyInv, KeyTypes
<1>5. GrantedNow'
  BY <1>1, <1>3 DEF GrantedNow
<1>6. AnswersTimely'
  <2>1. \A q \in Calls : areq[q].since \in Nat
    BY <1>2 DEF CallState
  <2>2. QED BY <1>1, <1>2, <2>1, TimeAssumption DEF KeyInv, AnswersTimely, Timely
<1>7. AnswersGranted'
  BY <1>1, <1>2, <1>3, HoldsLater DEF KeyInv, AnswersGranted
<1>8. CacheGranted'
  <2>1. \A p \in Processes : kept[p] # None => kept[p].cachedAt \in Nat
    BY <1>2 DEF CachedRow
  <2>2. QED BY <1>1, <1>2, <1>3, <2>1, TimeAssumption DEF KeyInv, CacheGranted
<1>9. QED BY <1>4, <1>5, <1>6, <1>7, <1>8 DEF KeyInv

LEMMA WriteKeyStep ==
  ASSUME KeyInv, Credentials!RevokeApiKey \/ \E scope \in Credentials!Scopes, expires \in {None, tick + 1} :
                                                Credentials!UpdateApiKey(scope, expires)
  PROVE  KeyInv'
<1>2. tick \in Nat /\ key \in KeyRow /\ areq \in [Calls -> CallState] /\ kept \in [Processes -> CachedRow \cup {None}]
      /\ granted \in [Credentials!Scopes -> Nat]
  BY DEF KeyInv, KeyTypes
<1>1. PICK row \in KeyRow : Credentials!WriteKey(row)
  <2>1. [key EXCEPT !.active = FALSE] \in KeyRow
    BY <1>2 DEF KeyRow
  <2>2. \A scope \in Credentials!Scopes, expires \in {None, tick + 1} :
           [active |-> TRUE, scope |-> scope, expires |-> expires] \in KeyRow
    BY <1>2 DEF KeyRow
  <2>3. QED BY <2>1, <2>2 DEF Credentials!RevokeApiKey, Credentials!UpdateApiKey
<1>3. key' = row /\ Credentials!Dates(row, tick) /\ UNCHANGED <<tick, kept, areq>>
  BY <1>1 DEF Credentials!WriteKey
<1>4. /\ granted' \in [Credentials!Scopes -> Nat]
      /\ \A s \in Credentials!Scopes : /\ granted[s] <= granted'[s] /\ granted'[s] <= tick
                                       /\ Credentials!Grants(row, s, tick) => granted'[s] = tick
  BY <1>2, <1>3, DatesMove
<1>5. KeyTypes'
  BY <1>2, <1>3, <1>4 DEF KeyInv, KeyTypes
<1>6. GrantedNow'
  BY <1>3, <1>4 DEF GrantedNow
<1>7. AnswersTimely'
  BY <1>3 DEF KeyInv, AnswersTimely
<1>8. AnswersGranted'
  BY <1>2, <1>3, <1>4, HoldsLater DEF KeyInv, AnswersGranted
<1>9. CacheGranted'
  <2>1. \A p \in Processes : kept[p] # None => kept[p].cachedAt \in Nat
    BY <1>2 DEF CachedRow
  <2>2. QED BY <1>2, <1>3, <1>4, <2>1, TimeAssumption DEF KeyInv, CacheGranted
<1>10. QED BY <1>5, <1>6, <1>7, <1>8, <1>9 DEF KeyInv

\* What is cached is forgotten, and some calls end.
LEMMA ForgetStep ==
  ASSUME KeyInv, UNCHANGED <<tick, key, granted>>,
         NEW C \in SUBSET Calls, areq' = [q \in Calls |-> IF q \in C THEN Credentials!Ready ELSE areq[q]],
         kept' \in [Processes -> CachedRow \cup {None}], \A p \in Processes : kept'[p] = kept[p] \/ kept'[p] = None
  PROVE  KeyInv'
<1>1. areq \in [Calls -> CallState]
  BY DEF KeyInv, KeyTypes
<1>2. areq' \in [Calls -> CallState]
  BY <1>1, CallReady
<1>3. \A q \in Calls : areq'[q] = areq[q] \/ areq'[q] = Credentials!Ready
  OBVIOUS
<1>4. KeyTypes' /\ GrantedNow'
  BY <1>2, <1>3, CallReady DEF KeyInv, KeyTypes, GrantedNow
<1>5. AnswersTimely' /\ AnswersGranted'
  BY <1>3, CallReady DEF KeyInv, AnswersTimely, AnswersGranted, Timely, Holds
<1>6. CacheGranted'
  BY DEF KeyInv, CacheGranted
<1>7. QED BY <1>4, <1>5, <1>6 DEF KeyInv

\* One call goes on, and what it caches was granted.
LEMMA CallGoes ==
  ASSUME KeyInv, UNCHANGED <<tick, key, granted>>,
         NEW q \in Calls, NEW n \in CallState, areq' = [areq EXCEPT ![q] = n],
         n.at \in {"answer", "store"} => n.scope \in Credentials!Scopes,
         Timely(n, tick), \A s \in Credentials!Scopes : Holds(n, s, granted[s]),
         kept' \in [Processes -> CachedRow \cup {None}],
         \A p \in Processes : \/ kept'[p] = kept[p] \/ kept'[p] = None
                             \/ \A s \in Credentials!Scopes : Credentials!HasScope(kept'[p].scope, s) =>
                                    kept'[p].cachedAt <= granted[s] + Delay
  PROVE  KeyInv'
<1>1. areq \in [Calls -> CallState]
  BY DEF KeyInv, KeyTypes
<1>2. areq' \in [Calls -> CallState] /\ \A c \in Calls : areq'[c] = IF c = q THEN n ELSE areq[c]
  BY <1>1
<1>3. KeyTypes' /\ GrantedNow'
  BY <1>2 DEF KeyInv, KeyTypes, GrantedNow
<1>4. AnswersTimely' /\ AnswersGranted'
  BY <1>2 DEF KeyInv, AnswersTimely, AnswersGranted
<1>5. CacheGranted'
  BY DEF KeyInv, CacheGranted
<1>6. QED BY <1>3, <1>4, <1>5 DEF KeyInv

LEMMA LookupStep ==
  ASSUME KeyInv, NEW q \in Calls, Credentials!LookupApiKey(q)
  PROVE  KeyInv'
<1> DEFINE p == On[q]
<1>1. /\ UNCHANGED <<tick, key, granted>> /\ p \in Processes
      /\ kept' = [kept EXCEPT ![p] = IF Credentials!Fresh(p) THEN @ ELSE None]
      /\ areq' = IF Credentials!Fresh(p)
                 THEN [areq EXCEPT ![q] = [at |-> "store", scope |-> kept[p].scope, since |-> tick]]
                 ELSE [areq EXCEPT ![q] = [at |-> "select", scope |-> None, since |-> tick]]
  BY TimeAssumption DEF Credentials!LookupApiKey, Credentials!Found, Credentials!Missed
<1> HIDE DEF p
<1>2. /\ tick \in Nat /\ kept \in [Processes -> CachedRow \cup {None}] /\ granted \in [Credentials!Scopes -> Nat]
      /\ kept' \in [Processes -> CachedRow \cup {None}]
  BY <1>1 DEF KeyInv, KeyTypes
<1>3. \A o \in Processes : kept'[o] = kept[o] \/ kept'[o] = None
  BY <1>1, <1>2
<1>4. CASE Credentials!Fresh(p)
  <2> DEFINE n == [at |-> "store", scope |-> kept[p].scope, since |-> tick]
  <2>1. kept[p] # None /\ kept[p] \in CachedRow /\ tick < kept[p].cachedAt + TTL
    BY <1>1, <1>2, <1>4 DEF Credentials!Fresh
  <2>2. kept[p].cachedAt \in Nat /\ kept[p].scope \in Credentials!Scopes
    BY <2>1 DEF CachedRow
  <2>3. n \in CallState /\ n.at = "store" /\ n.since = tick /\ n.scope = kept[p].scope /\ n.scope \in Credentials!Scopes
    BY <1>2, <2>2 DEF CallState
  <2>4. areq' = [areq EXCEPT ![q] = n]
    BY <1>1, <1>4
  <2> HIDE DEF n
  <2>5. Timely(n, tick)
    BY <1>2, <2>3, TimeAssumption DEF Timely
  <2>6. \A s \in Credentials!Scopes : Holds(n, s, granted[s])
    <3> SUFFICES ASSUME NEW s \in Credentials!Scopes, Credentials!HasScope(kept[p].scope, s)
                 PROVE  tick < granted[s] + TTL + Delay
      BY <2>3 DEF Holds
    <3>1. kept[p].cachedAt <= granted[s] + Delay
      BY <1>1, <2>1 DEF KeyInv, CacheGranted
    <3>2. granted[s] \in Nat
      BY <1>2
    <3>3. QED BY <1>2, <2>1, <2>2, <3>1, <3>2, TimeAssumption
  <2>7. QED BY <1>1, <1>2, <1>3, <2>3, <2>4, <2>5, <2>6, CallGoes
<1>5. CASE ~Credentials!Fresh(p)
  <2> DEFINE n == [at |-> "select", scope |-> None, since |-> tick]
  <2>1. n \in CallState /\ n.at = "select" /\ n.since = tick
    BY <1>2 DEF CallState
  <2>2. areq' = [areq EXCEPT ![q] = n]
    BY <1>1, <1>5
  <2> HIDE DEF n
  <2>3. Timely(n, tick) /\ \A s \in Credentials!Scopes : Holds(n, s, granted[s])
    BY <1>2, <2>1, TimeAssumption DEF Timely, Holds
  <2>4. QED BY <1>1, <1>2, <1>3, <2>1, <2>2, <2>3, CallGoes
<1>6. QED BY <1>4, <1>5

\* The row that is read grants what it holds at that moment.
LEMMA SelectKeyStep ==
  ASSUME KeyInv, NEW q \in Calls, Credentials!SelectKey(q)
  PROVE  KeyInv'
<1> DEFINE good == key.active /\ (key.expires = None \/ key.expires > tick)
           m == [areq[q] EXCEPT !.at = "answer", !.scope = key.scope]
           n == IF good THEN m ELSE Credentials!Ready
<1>1. areq[q].at = "select" /\ areq' = [areq EXCEPT ![q] = n] /\ UNCHANGED <<tick, key, kept, granted>>
  BY DEF Credentials!SelectKey
<1>2. /\ tick \in Nat /\ key \in KeyRow /\ areq[q] \in CallState /\ granted \in [Credentials!Scopes -> Nat]
      /\ kept' \in [Processes -> CachedRow \cup {None}]
  BY <1>1 DEF KeyInv, KeyTypes
<1>3. m \in CallState /\ m.at = "answer" /\ m.scope = key.scope /\ m.since = areq[q].since
  BY <1>2 DEF CallState, KeyRow
<1>4. areq[q].since \in Nat /\ areq[q].since <= tick /\ tick <= areq[q].since + Delay
  BY <1>1, <1>2 DEF KeyInv, KeyTypes, AnswersTimely, Timely, CallState
<1> HIDE DEF m
<1>5. n \in CallState /\ (n.at \in {"answer", "store"} => n.scope \in Credentials!Scopes)
  BY <1>2, <1>3, CallReady DEF KeyRow
<1>6. Timely(n, tick)
  BY <1>3, <1>4, CallReady DEF Timely
<1>7. \A s \in Credentials!Scopes : Holds(n, s, granted[s])
  <2> SUFFICES ASSUME NEW s \in Credentials!Scopes, good, Credentials!HasScope(key.scope, s)
               PROVE  areq[q].since <= granted[s]
    BY <1>3, CallReady DEF Holds
  <2>1. Credentials!Grants(key, s, tick)
    BY DEF Credentials!Grants
  <2>2. granted[s] = tick
    BY <2>1 DEF KeyInv, GrantedNow
  <2>3. QED BY <1>4, <2>2
<1> HIDE DEF n
<1>8. QED BY <1>1, <1>2, <1>5, <1>6, <1>7, CallGoes

LEMMA CacheKeyStep ==
  ASSUME KeyInv, NEW q \in Calls, Credentials!CacheKey(q)
  PROVE  KeyInv'
<1> DEFINE p == On[q]
           c == [scope |-> areq[q].scope, cachedAt |-> tick]
           n == [areq[q] EXCEPT !.at = "store", !.since = tick]
<1>1. /\ areq[q].at = "answer" /\ p \in Processes /\ kept' = [kept EXCEPT ![p] = c]
      /\ areq' = [areq EXCEPT ![q].at = "store", ![q].since = tick] /\ UNCHANGED <<tick, key, granted>>
  BY TimeAssumption DEF Credentials!CacheKey
<1>2. /\ tick \in Nat /\ kept \in [Processes -> CachedRow \cup {None}] /\ granted \in [Credentials!Scopes -> Nat]
      /\ areq \in [Calls -> CallState] /\ areq[q] \in CallState
  BY DEF KeyInv, KeyTypes
<1>3. areq' = [areq EXCEPT ![q] = n]
  BY <1>1, <1>2
<1>4. n \in CallState /\ n.at = "store" /\ n.since = tick /\ n.scope = areq[q].scope
  BY <1>2 DEF CallState
<1>5. areq[q].scope \in Credentials!Scopes /\ areq[q].since \in Nat /\ tick <= areq[q].since + Delay
  BY <1>1, <1>2 DEF KeyInv, KeyTypes, AnswersTimely, Timely, CallState
<1>6. \A s \in Credentials!Scopes : Credentials!HasScope(areq[q].scope, s) => tick <= granted[s] + Delay
  <2> SUFFICES ASSUME NEW s \in Credentials!Scopes, Credentials!HasScope(areq[q].scope, s)
               PROVE  tick <= granted[s] + Delay
    OBVIOUS
  <2>1. areq[q].since <= granted[s] /\ granted[s] \in Nat
    BY <1>1, <1>2 DEF KeyInv, AnswersGranted, Holds
  <2>2. QED BY <1>2, <1>5, <2>1, TimeAssumption
<1>7. Timely(n, tick) /\ \A s \in Credentials!Scopes : Holds(n, s, granted[s])
  <2>1. \A s \in Credentials!Scopes : granted[s] \in Nat
    BY <1>2
  <2> HIDE DEF n
  <2>2. QED BY <1>2, <1>4, <1>6, <2>1, TimeAssumption DEF Timely, Holds
<1>8. c \in CachedRow /\ c.scope = areq[q].scope /\ c.cachedAt = tick
  BY <1>2, <1>5 DEF CachedRow
<1> HIDE DEF c, n, p
<1>9. kept' \in [Processes -> CachedRow \cup {None}] /\ \A o \in Processes : kept'[o] = IF o = p THEN c ELSE kept[o]
  BY <1>1, <1>2, <1>8
<1>10. \A o \in Processes : \/ kept'[o] = kept[o] \/ kept'[o] = None
                           \/ \A s \in Credentials!Scopes : Credentials!HasScope(kept'[o].scope, s) =>
                                  kept'[o].cachedAt <= granted[s] + Delay
  BY <1>6, <1>8, <1>9
<1>11. QED BY <1>1, <1>3, <1>4, <1>5, <1>7, <1>9, <1>10, CallGoes

LEMMA CallEndStep ==
  ASSUME KeyInv, \/ Credentials!EvictKey
                 \/ \E p \in Processes : Credentials!Restart(p)
                 \/ \E q \in Calls : Credentials!ResolveStoreAuth(q)
  PROVE  KeyInv'
<1>1. kept \in [Processes -> CachedRow \cup {None}] /\ areq \in [Calls -> CallState]
  BY DEF KeyInv, KeyTypes
<1>2. CASE Credentials!EvictKey
  <2>1. /\ UNCHANGED <<tick, key, areq, granted>> /\ kept' = [kept EXCEPT ![Admin] = None]
    BY <1>2 DEF Credentials!EvictKey
  <2>2. areq' = [q \in Calls |-> IF q \in {} THEN Credentials!Ready ELSE areq[q]]
    BY <1>1, <2>1
  <2>3. kept' \in [Processes -> CachedRow \cup {None}] /\ \A p \in Processes : kept'[p] = kept[p] \/ kept'[p] = None
    BY <1>1, <2>1
  <2>4. {} \in SUBSET Calls
    OBVIOUS
  <2>5. QED BY <2>1, <2>2, <2>3, <2>4, ForgetStep
<1>3. ASSUME NEW p \in Processes, Credentials!Restart(p) PROVE KeyInv'
  <2> DEFINE C == {q \in Calls : On[q] = p}
  <2>1. /\ UNCHANGED <<tick, key, granted>> /\ kept' = [kept EXCEPT ![p] = None]
        /\ areq' = [q \in Calls |-> IF q \in C THEN Credentials!Ready ELSE areq[q]]
    BY <1>3 DEF Credentials!Restart
  <2>2. C \in SUBSET Calls
    OBVIOUS
  <2> HIDE DEF C
  <2>3. kept' \in [Processes -> CachedRow \cup {None}] /\ \A o \in Processes : kept'[o] = kept[o] \/ kept'[o] = None
    BY <1>1, <2>1
  <2>4. QED BY <2>1, <2>2, <2>3, ForgetStep
<1>4. ASSUME NEW q \in Calls, Credentials!ResolveStoreAuth(q) PROVE KeyInv'
  <2>1. UNCHANGED <<tick, key, kept, granted>> /\ areq' = [areq EXCEPT ![q] = Credentials!Ready]
    BY <1>4 DEF Credentials!ResolveStoreAuth
  <2>2. areq' = [c \in Calls |-> IF c \in {q} THEN Credentials!Ready ELSE areq[c]]
    BY <1>1, <2>1
  <2>3. {q} \in SUBSET Calls
    OBVIOUS
  <2>4. QED BY <1>1, <2>1, <2>2, <2>3, ForgetStep
<1>5. QED BY <1>2, <1>3, <1>4

LEMMA KeyStepped == KeyInv /\ [Next]_vars => KeyInv'
<1> SUFFICES ASSUME KeyInv, [Next]_vars PROVE KeyInv'
  OBVIOUS
<1>1. CASE UNCHANGED credentials
  <2>1. UNCHANGED <<tick, key, kept, areq, granted>>
    BY <1>1 DEF credentials
  <2>2. QED BY <2>1 DEF KeyInv, KeyTypes, GrantedNow, AnswersTimely, AnswersGranted, CacheGranted
<1>2. CASE Credentials!Next
  BY <1>2, TickStep, WriteKeyStep, LookupStep, SelectKeyStep, CacheKeyStep, CallEndStep DEF Credentials!Next
<1>3. QED BY <1>1, <1>2, DoorFrame

\* Whatever a process has cached and whatever answers are on their way, no request passes for a scope
\* the key has not granted for the life of an entry and two queries (the TTL of the key cache).
THEOREM RevokedKeysAreRefused == Spec => []RevokedIsRefused
<1>1. KeyInv => RevokedIsRefused
  <2> SUFFICES ASSUME KeyInv, NEW q \in Calls, NEW need \in Credentials!Scopes,
                      areq[q].at = "store", Credentials!HasScope(areq[q].scope, need)
               PROVE  tick < granted[need] + TTL + 2 * Delay
    BY DEF RevokedIsRefused, Credentials!RevokedIsRefused
  <2>1. tick <= areq[q].since + Delay
    BY DEF KeyInv, AnswersTimely, Timely
  <2>2. areq[q].since < granted[need] + TTL + Delay
    BY DEF KeyInv, AnswersGranted, Holds
  <2>3. tick \in Nat /\ granted[need] \in Nat /\ areq[q].since \in Nat
    BY DEF KeyInv, KeyTypes, CallState
  <2>4. QED BY <2>1, <2>2, <2>3, TimeAssumption
<1>2. QED BY <1>1, KeyInit, KeyStepped, PTL DEF Spec

-----------------------------------------------------------------------------
(* The rate limit.                                                         *)

WindowRow == [count : Nat, start : Nat]
RateTypes ==
    /\ now \in Nat /\ ready \in BOOLEAN /\ passed \in Seq(Nat)
    /\ bucket \in [{"fallback", "store"} -> WindowRow]
    /\ \A b \in {"fallback", "store"} : bucket[b].start <= now
    /\ \A i \in 1..Len(passed) : passed[i] <= now

Served(win) == IF win.count <= PerWindow THEN win.count ELSE PerWindow

\* The requests after the b-th were let through in the window that is open; the gap before them belongs
\* to windows whose requests may be near it, and what lies before, up to the a-th, is a window away.
Spread(s, win, gap) ==
    IF win.count = 0 THEN s = <<>>
    ELSE \E b \in 0..Len(s) : \E a \in 0..b :
             /\ Len(s) - b = Served(win) /\ b - a <= gap
             /\ \A i \in 1..a : s[i] + Window < win.start
             /\ \A i \in 1..(b + 1) : s[i] <= win.start

\* A bucket has at most one window before the open one near it; the store has the fallback's too.
BucketsKnown ==
    /\ ~ready => bucket["store"].count = 0
    /\ bucket["store"].count = 0 => Spread(passed, bucket["fallback"], PerWindow - 1)
    /\ bucket["store"].count # 0 => Spread(passed, bucket["store"], 2 * PerWindow - 1)

RateInv == RateTypes /\ BucketsKnown /\ NoBurst

LEMMA RateInit == Init => RateInv
<1> SUFFICES ASSUME Throttle!Init PROVE RateInv
  BY Zenon DEF Init
<1>1. Throttle!NoWindow \in WindowRow /\ Throttle!NoWindow.count = 0 /\ Throttle!NoWindow.start = 0
  BY DEF Throttle!NoWindow, WindowRow
<1>2. /\ now = 0 /\ ready = FALSE /\ passed = <<>> /\ Len(passed) = 0
      /\ bucket = [b \in {"fallback", "store"} |-> Throttle!NoWindow]
  BY DEF Throttle!Init
<1>3. RateTypes
  <2>1. passed \in Seq(Nat) /\ \A i \in 1..Len(passed) : passed[i] <= now
    BY <1>2
  <2>2. bucket \in [{"fallback", "store"} -> WindowRow]
    BY <1>1, <1>2
  <2>3. \A b \in {"fallback", "store"} : bucket[b].start <= now
    BY <1>1, <1>2
  <2>4. QED BY <1>2, <2>1, <2>2, <2>3 DEF RateTypes
<1>4. BucketsKnown
  BY <1>1, <1>2 DEF BucketsKnown, Spread
<1>5. NoBurst
  BY <1>2 DEF NoBurst, Throttle!NoBurst
<1>6. QED BY <1>3, <1>4, <1>5 DEF RateInv

\* Time passes, or the store is loaded.
LEMMA RateWaits ==
  ASSUME RateInv, Throttle!Tick \/ Throttle!KvIsBuilt
  PROVE  RateInv'
<1>1. UNCHANGED <<bucket, passed>> /\ now <= now' /\ now' \in Nat /\ ready' \in BOOLEAN /\ (~ready' => ~ready)
  <2>1. now \in Nat /\ ready \in BOOLEAN
    BY DEF RateInv, RateTypes
  <2>2. CASE Throttle!Tick
    BY <2>1, <2>2 DEF Throttle!Tick
  <2>3. CASE Throttle!KvIsBuilt
    BY <2>1, <2>3 DEF Throttle!KvIsBuilt
  <2>4. QED BY <2>2, <2>3
<1>2. now \in Nat /\ passed \in Seq(Nat) /\ bucket["fallback"] \in WindowRow /\ bucket["store"] \in WindowRow
  BY DEF RateInv, RateTypes
<1>3. RateTypes'
  <2>1. \A i \in 1..Len(passed) : passed[i] \in Nat /\ passed[i] <= now
    BY DEF RateInv, RateTypes
  <2>2. \A i \in 1..Len(passed) : passed[i] <= now'
    BY <1>1, <1>2, <2>1
  <2>3. \A b \in {"fallback", "store"} : bucket[b].start <= now'
    <3> SUFFICES ASSUME NEW b \in {"fallback", "store"} PROVE bucket[b].start <= now'
      OBVIOUS
    <3>1. bucket[b].start \in Nat /\ bucket[b].start <= now
      BY DEF RateInv, RateTypes, WindowRow
    <3>2. QED BY <1>1, <1>2, <3>1
  <2>4. QED BY <1>1, <2>2, <2>3 DEF RateInv, RateTypes
<1>5. BucketsKnown'
  BY <1>1 DEF RateInv, BucketsKnown
<1>6. NoBurst'
  BY <1>1 DEF RateInv, NoBurst, Throttle!NoBurst
<1>7. QED BY <1>3, <1>5, <1>6 DEF RateInv

\* A request that is let through keeps three times the limit away.
LEMMA NoBurstPassed ==
  ASSUME NEW s \in Seq(Nat), NEW t \in Nat, NEW b \in 0..Len(s), NEW a \in 0..b,
         Len(s) + 1 - b <= PerWindow, b - a <= 2 * PerWindow - 1,
         \A i \in 1..a : s[i] + Window < t,
         \A i, j \in 1..Len(s) : i + 3 * PerWindow - 1 <= j => s[j] > s[i] + Window
  PROVE  \A i, j \in 1..Len(Append(s, t)) :
            i + 3 * PerWindow - 1 <= j => Append(s, t)[j] > Append(s, t)[i] + Window
<1> DEFINE w == Append(s, t)
<1>1. /\ Len(w) = Len(s) + 1 /\ Len(s) \in Nat /\ w[Len(s) + 1] = t
      /\ \A i \in 1..Len(s) : w[i] = s[i] /\ s[i] \in Nat
  OBVIOUS
<1> HIDE DEF w
<1> SUFFICES ASSUME NEW i \in 1..Len(w), NEW j \in 1..Len(w), i + 3 * PerWindow - 1 <= j
             PROVE  w[j] > w[i] + Window
  BY DEF w
<1>2. PerWindow \in Nat /\ PerWindow >= 1 /\ Window \in Nat
  BY TimeAssumption
<1>3. CASE j <= Len(s)
  <2>1. i \in 1..Len(s) /\ j \in 1..Len(s)
    BY <1>1, <1>2, <1>3
  <2>2. s[j] > s[i] + Window
    BY <2>1
  <2>3. QED BY <1>1, <2>1, <2>2
<1>4. CASE j = Len(s) + 1
  <2>1. i \in 1..a /\ i \in 1..Len(s)
    BY <1>1, <1>2, <1>4
  <2>2. s[i] + Window < t
    BY <2>1
  <2>3. QED BY <1>1, <1>2, <1>4, <2>1, <2>2
<1>5. QED BY <1>1, <1>3, <1>4

\* What a request counts: the first of a window, or one more in the one that is open.
LEMMA WindowCounted ==
  ASSUME now \in Nat, NEW win \in WindowRow
  PROVE  LET w == Throttle!Counted(win)
         IN /\ w \in WindowRow /\ w.count # 0
            /\ \/ /\ win.count = 0 \/ now - win.start > Window
                  /\ w.count = 1 /\ w.start = now
               \/ win.count # 0 /\ w.count = win.count + 1 /\ w.start = win.start
<1>1. win.count \in Nat /\ win.start \in Nat
  BY DEF WindowRow
<1>2. LET v == [count |-> 1, start |-> now] IN v \in WindowRow /\ v.count = 1 /\ v.start = now
  BY DEF WindowRow
<1>3. LET u == [win EXCEPT !.count = @ + 1] IN u \in WindowRow /\ u.count = win.count + 1 /\ u.start = win.start
  BY <1>1 DEF WindowRow
<1>4. CASE win.count = 0 \/ now - win.start > Window
  BY <1>2, <1>4 DEF Throttle!Counted
<1>5. CASE ~(win.count = 0 \/ now - win.start > Window)
  BY <1>1, <1>3, <1>5 DEF Throttle!Counted
<1>6. QED BY <1>4, <1>5

LEMMA SpreadBy ==
  ASSUME NEW s, NEW w, NEW gap, w.count # 0, NEW b \in 0..Len(s), NEW a \in 0..b,
         Len(s) - b = Served(w), b - a <= gap,
         \A i \in 1..a : s[i] + Window < w.start, \A i \in 1..(b + 1) : s[i] <= w.start
  PROVE  Spread(s, w, gap)
BY Zenon DEF Spread

\* A window opens: what is near it before is what no window kept away.
LEMMA WindowOpens ==
  ASSUME RateInv, NEW w \in WindowRow, w.count = 1, w.start = now, NEW gap \in Nat, gap <= 2 * PerWindow - 1,
         NEW a \in 0..Len(passed), Len(passed) - a <= gap, \A i \in 1..a : passed[i] + Window < now
  PROVE  /\ Spread(Append(passed, now), w, gap)
         /\ \A i, j \in 1..Len(Append(passed, now)) : i + 3 * PerWindow - 1 <= j =>
               Append(passed, now)[j] > Append(passed, now)[i] + Window
<1> DEFINE s == Append(passed, now)
           b == Len(passed)
<1>1. now \in Nat /\ passed \in Seq(Nat) /\ \A i \in 1..Len(passed) : passed[i] <= now
  BY DEF RateInv, RateTypes
<1>2. /\ Len(s) = b + 1 /\ b \in Nat /\ s[b + 1] = now
      /\ \A i \in 1..b : s[i] = passed[i] /\ s[i] \in Nat
  BY <1>1
<1>3. Served(w) = 1
  BY TimeAssumption DEF Served
<1>4. \A i \in 1..(b + 1) : s[i] <= now
  BY <1>1, <1>2
<1>5. \A i \in 1..a : s[i] + Window < now
  BY <1>2
<1>6. Spread(s, w, gap)
  <2>1. b \in 0..Len(s) /\ a \in 0..b /\ Len(s) - b = Served(w) /\ b - a <= gap
    BY <1>2, <1>3
  <2> HIDE DEF s, b
  <2>2. (\A i \in 1..a : s[i] + Window < w.start) /\ (\A i \in 1..(b + 1) : s[i] <= w.start) /\ w.count # 0
    BY <1>4, <1>5
  <2>3. QED BY ONLY <2>1, <2>2, SpreadBy
<1>7. \A i, j \in 1..Len(s) : i + 3 * PerWindow - 1 <= j => s[j] > s[i] + Window
  <2>1. b \in 0..Len(passed) /\ Len(passed) + 1 - b <= PerWindow /\ b - a <= 2 * PerWindow - 1
    BY <1>2, TimeAssumption
  <2>2. \A i, j \in 1..Len(passed) : i + 3 * PerWindow - 1 <= j => passed[j] > passed[i] + Window
    BY DEF RateInv, NoBurst, Throttle!NoBurst
  <2>3. QED BY ONLY <1>1, <2>1, <2>2, NoBurstPassed, \A i \in 1..a : passed[i] + Window < now
<1>8. QED BY <1>6, <1>7

\* A window goes on: it lets the request through, or refuses it.
LEMMA WindowGoesOn ==
  ASSUME RateInv, NEW win \in WindowRow, win.count # 0, win.start <= now,
         NEW w \in WindowRow, w.count = win.count + 1, w.start = win.start,
         NEW gap \in Nat, gap <= 2 * PerWindow - 1, Spread(passed, win, gap)
  PROVE  /\ w.count > PerWindow => Spread(passed, w, gap)
         /\ w.count <= PerWindow =>
              /\ Spread(Append(passed, now), w, gap)
              /\ \A i, j \in 1..Len(Append(passed, now)) : i + 3 * PerWindow - 1 <= j =>
                    Append(passed, now)[j] > Append(passed, now)[i] + Window
<1>1. now \in Nat /\ passed \in Seq(Nat)
  BY DEF RateInv, RateTypes
<1>2. win.count \in Nat /\ win.start \in Nat
  BY DEF WindowRow
<1>9. PICK b \in 0..Len(passed) : \E a \in 0..b :
        /\ Len(passed) - b = Served(win) /\ b - a <= gap
        /\ \A i \in 1..a : passed[i] + Window < win.start
        /\ \A i \in 1..(b + 1) : passed[i] <= win.start
  BY Zenon DEF Spread
<1>3. PICK a \in 0..b :
        /\ Len(passed) - b = Served(win) /\ b - a <= gap
        /\ \A i \in 1..a : passed[i] + Window < win.start
        /\ \A i \in 1..(b + 1) : passed[i] <= win.start
  BY <1>9
<1>4. ASSUME w.count > PerWindow PROVE Spread(passed, w, gap)
  <2>1. Served(w) = Served(win) /\ w.count # 0
    BY <1>2, <1>4, TimeAssumption DEF Served
  <2>2. Len(passed) - b = Served(w) /\ w.count # 0
    BY <1>3, <2>1
  <2>3. (\A i \in 1..a : passed[i] + Window < w.start) /\ (\A i \in 1..(b + 1) : passed[i] <= w.start)
    BY <1>3
  <2>4. QED BY <1>3, <2>2, <2>3, SpreadBy
<1>5. ASSUME w.count <= PerWindow
      PROVE  /\ Spread(Append(passed, now), w, gap)
             /\ \A i, j \in 1..Len(Append(passed, now)) : i + 3 * PerWindow - 1 <= j =>
                   Append(passed, now)[j] > Append(passed, now)[i] + Window
  <2> DEFINE s == Append(passed, now)
  <2>1. Len(s) = Len(passed) + 1 /\ Len(passed) \in Nat /\ \A i \in 1..Len(passed) : s[i] = passed[i] /\ passed[i] \in Nat
    BY <1>1
  <2>2. Served(win) = win.count /\ Served(w) = win.count + 1 /\ w.count # 0 /\ win.count >= 1
    BY <1>2, <1>5, TimeAssumption DEF Served
  <2> HIDE DEF s
  <2>3. b \in 0..Len(s) /\ Len(s) - b = Served(w)
    BY <1>3, <2>1, <2>2
  <2>4. b + 1 <= Len(passed)
    BY <1>2, <1>3, <2>1, <2>2
  <2>5. (\A i \in 1..a : s[i] + Window < w.start) /\ (\A i \in 1..(b + 1) : s[i] <= w.start)
    <3>1. \A i \in 1..(b + 1) : s[i] = passed[i]
      BY <2>1, <2>4
    <3>2. \A i \in 1..a : i \in 1..(b + 1)
      OBVIOUS
    <3>3. QED BY <1>3, <3>1, <3>2
  <2>6. Spread(s, w, gap)
    BY <1>3, <2>2, <2>3, <2>5, SpreadBy
  <2>7. \A i \in 1..a : passed[i] + Window < now
    <3>1. \A i \in 1..a : passed[i] \in Nat
      BY <2>1, <2>4
    <3>2. QED BY <1>1, <1>2, <1>3, <3>1, TimeAssumption
  <2>8. Len(passed) + 1 - b <= PerWindow /\ b - a <= 2 * PerWindow - 1
    BY <1>2, <1>3, <1>5, <2>1, <2>2, TimeAssumption
  <2>9. \A i, j \in 1..Len(passed) : i + 3 * PerWindow - 1 <= j => passed[j] > passed[i] + Window
    BY DEF RateInv, NoBurst, Throttle!NoBurst
  <2>10. \A i, j \in 1..Len(s) : i + 3 * PerWindow - 1 <= j => s[j] > s[i] + Window
    BY ONLY <1>1, <2>7, <2>8, <2>9, NoBurstPassed DEF s
  <2>11. QED BY <2>6, <2>10 DEF s
<1>6. QED BY <1>4, <1>5

\* What is a window away from now: what lies before a window that is over, and what the fallback's
\* window kept away when the store replaces it.
LEMMA AwayFromNow ==
  ASSUME RateInv, NEW win \in WindowRow, win.start <= now, win.count # 0, NEW gap \in Nat, Spread(passed, win, gap)
  PROVE  /\ now - win.start > Window =>
               \E a \in 0..Len(passed) : /\ Len(passed) - a <= PerWindow - 1
                                         /\ \A i \in 1..a : passed[i] + Window < now
         /\ \E a \in 0..Len(passed) : /\ Len(passed) - a <= PerWindow + gap
                                      /\ \A i \in 1..a : passed[i] + Window < now
<1>1. now \in Nat /\ Len(passed) \in Nat /\ \A i \in 1..Len(passed) : passed[i] \in Nat
  BY DEF RateInv, RateTypes
<1>2. win.count \in Nat /\ win.start \in Nat
  BY DEF WindowRow
<1>3. Served(win) \in Nat /\ 1 <= Served(win) /\ Served(win) <= PerWindow
  BY <1>2, TimeAssumption DEF Served
<1>4. PICK b \in 0..Len(passed) : \E a \in 0..b :
        /\ Len(passed) - b = Served(win) /\ b - a <= gap
        /\ \A i \in 1..a : passed[i] + Window < win.start
        /\ \A i \in 1..(b + 1) : passed[i] <= win.start
  BY Zenon DEF Spread
<1>5. PICK a \in 0..b :
        /\ Len(passed) - b = Served(win) /\ b - a <= gap
        /\ \A i \in 1..a : passed[i] + Window < win.start
        /\ \A i \in 1..(b + 1) : passed[i] <= win.start
  BY <1>4
<1> HIDE DEF Served
<1>6. ASSUME now - win.start > Window
      PROVE  \E c \in 0..Len(passed) : /\ Len(passed) - c <= PerWindow - 1
                                       /\ \A i \in 1..c : passed[i] + Window < now
  <2>1. b + 1 \in 0..Len(passed) /\ Len(passed) - (b + 1) <= PerWindow - 1
    BY <1>1, <1>3, <1>5, TimeAssumption
  <2>2. \A i \in 1..(b + 1) : passed[i] + Window < now
    <3>1. \A i \in 1..(b + 1) : passed[i] \in Nat
      BY <1>1, <2>1
    <3>2. QED BY <1>1, <1>2, <1>5, <1>6, <3>1, TimeAssumption
  <2>3. QED BY <2>1, <2>2
<1>7. \E c \in 0..Len(passed) : /\ Len(passed) - c <= PerWindow + gap
                               /\ \A i \in 1..c : passed[i] + Window < now
  <2>1. a \in 0..Len(passed) /\ Len(passed) - a <= PerWindow + gap
    BY <1>1, <1>3, <1>5, TimeAssumption
  <2>2. \A i \in 1..a : passed[i] + Window < now
    <3>1. \A i \in 1..a : passed[i] \in Nat
      BY <1>1, <2>1
    <3>2. QED BY <1>1, <1>2, <1>5, <3>1, TimeAssumption
  <2>3. QED BY <2>1, <2>2
<1>8. QED BY <1>6, <1>7

\* A bucket counts a request: in what it knows, nobody is let through three times the limit.
LEMMA BucketServes ==
  ASSUME RateInv, NEW win \in WindowRow, win.start <= now,
         NEW gap \in Nat, PerWindow - 1 <= gap, gap <= 2 * PerWindow - 1,
         win.count # 0 => Spread(passed, win, gap),
         win.count = 0 => \E a \in 0..Len(passed) : /\ Len(passed) - a <= gap
                                                    /\ \A i \in 1..a : passed[i] + Window < now,
         passed' = IF Throttle!Counted(win).count > PerWindow THEN passed ELSE Append(passed, now)
  PROVE  Spread(passed', Throttle!Counted(win), gap) /\ NoBurst'
<1> DEFINE w == Throttle!Counted(win)
<1>1. /\ w \in WindowRow /\ w.count # 0
      /\ \/ /\ win.count = 0 \/ now - win.start > Window
            /\ w.count = 1 /\ w.start = now
         \/ win.count # 0 /\ w.count = win.count + 1 /\ w.start = win.start
  BY WindowCounted DEF RateInv, RateTypes
<1>2. passed' = IF w.count > PerWindow THEN passed ELSE Append(passed, now)
  OBVIOUS
<1> HIDE DEF w
<1>3. NoBurst' <=> \A i, j \in 1..Len(passed') : i + 3 * PerWindow - 1 <= j => passed'[j] > passed'[i] + Window
  BY DEF NoBurst, Throttle!NoBurst
<1>4. CASE (win.count = 0 \/ now - win.start > Window) /\ w.count = 1 /\ w.start = now
  <2>1. \E a \in 0..Len(passed) : /\ Len(passed) - a <= gap
                                  /\ \A i \in 1..a : passed[i] + Window < now
    <3>1. CASE win.count = 0
      BY <3>1
    <3>2. CASE win.count # 0
      <4>1. PICK a \in 0..Len(passed) : /\ Len(passed) - a <= PerWindow - 1
                                        /\ \A i \in 1..a : passed[i] + Window < now
        BY <1>4, <3>2, AwayFromNow
      <4>2. Len(passed) - a <= gap
        BY <4>1, TimeAssumption DEF RateInv, RateTypes
      <4>3. QED BY <4>1, <4>2
    <3>3. QED BY <3>1, <3>2
  <2>2. PICK a \in 0..Len(passed) : Len(passed) - a <= gap /\ \A i \in 1..a : passed[i] + Window < now
    BY <2>1
  <2>3. passed' = Append(passed, now)
    BY <1>2, <1>4, TimeAssumption
  <2>4. QED BY <1>1, <1>3, <1>4, <2>2, <2>3, WindowOpens DEF w
<1>5. CASE win.count # 0 /\ w.count = win.count + 1 /\ w.start = win.start
  <2>1. /\ w.count > PerWindow => Spread(passed, w, gap)
        /\ w.count <= PerWindow =>
              /\ Spread(Append(passed, now), w, gap)
              /\ \A i, j \in 1..Len(Append(passed, now)) : i + 3 * PerWindow - 1 <= j =>
                    Append(passed, now)[j] > Append(passed, now)[i] + Window
    BY <1>1, <1>5, WindowGoesOn
  <2>2. w.count > PerWindow \/ w.count <= PerWindow
    BY <1>1, TimeAssumption DEF WindowRow
  <2>3. \A i, j \in 1..Len(passed) : i + 3 * PerWindow - 1 <= j => passed[j] > passed[i] + Window
    BY DEF RateInv, NoBurst, Throttle!NoBurst
  <2>4. CASE w.count > PerWindow
    BY <1>2, <1>3, <2>1, <2>3, <2>4 DEF w
  <2>5. CASE w.count <= PerWindow
    <3>1. passed' = Append(passed, now)
      BY <1>1, <1>2, <2>5, TimeAssumption DEF WindowRow
    <3>2. QED BY <1>3, <2>1, <2>5, <3>1 DEF w
  <2>6. QED BY <2>2, <2>4, <2>5
<1>6. QED BY <1>1, <1>4, <1>5

LEMMA HookStep ==
  ASSUME RateInv, Throttle!RateLimitHook
  PROVE  RateInv'
<1> DEFINE b == IF ready THEN "store" ELSE "fallback"
           win == bucket[b]
           w == Throttle!Counted(win)
           gap == IF ready THEN 2 * PerWindow - 1 ELSE PerWindow - 1
<1>1. /\ bucket' = [bucket EXCEPT ![b] = w] /\ UNCHANGED <<now, ready>>
      /\ passed' = IF w.count > PerWindow THEN passed ELSE Append(passed, now)
  BY DEF Throttle!RateLimitHook
<1>2. /\ now \in Nat /\ passed \in Seq(Nat) /\ ready \in BOOLEAN /\ b \in {"fallback", "store"}
      /\ bucket \in [{"fallback", "store"} -> WindowRow] /\ win \in WindowRow /\ win.start <= now
  BY DEF RateInv, RateTypes
<1>3. w \in WindowRow /\ w.count # 0 /\ w.start <= now
  <2>1. /\ w \in WindowRow /\ w.count # 0 /\ (w.start = now \/ w.start = win.start)
    BY <1>2, WindowCounted
  <2>2. QED BY <1>2, <2>1
<1>4. gap \in Nat /\ PerWindow - 1 <= gap /\ gap <= 2 * PerWindow - 1
  BY TimeAssumption
<1>5. win.count # 0 => Spread(passed, win, gap)
  BY <1>2 DEF RateInv, BucketsKnown
<1>6. win.count = 0 => \E a \in 0..Len(passed) : /\ Len(passed) - a <= gap
                                                 /\ \A i \in 1..a : passed[i] + Window < now
  <2> SUFFICES ASSUME win.count = 0
               PROVE  \E a \in 0..Len(passed) : /\ Len(passed) - a <= gap
                                                /\ \A i \in 1..a : passed[i] + Window < now
    OBVIOUS
  <2>1. Spread(passed, bucket["fallback"], PerWindow - 1)
    BY <1>2 DEF RateInv, BucketsKnown
  <2>2. CASE bucket["fallback"].count = 0
    <3>1. passed = <<>>
      BY <2>1, <2>2 DEF Spread
    <3>2. 0 \in 0..Len(passed) /\ Len(passed) - 0 <= gap /\ \A i \in 1..0 : passed[i] + Window < now
      BY <1>4, <3>1
    <3>3. QED BY <3>2
  <2>3. CASE bucket["fallback"].count # 0
    <3>1. ready
      BY <2>3
    <3>2. bucket["fallback"] \in WindowRow /\ bucket["fallback"].start <= now /\ PerWindow - 1 \in Nat
      BY TimeAssumption DEF RateInv, RateTypes
    <3>3. PICK a \in 0..Len(passed) : /\ Len(passed) - a <= PerWindow + (PerWindow - 1)
                                      /\ \A i \in 1..a : passed[i] + Window < now
      BY <2>1, <2>3, <3>2, AwayFromNow
    <3>4. Len(passed) - a <= gap
      BY <1>2, <3>1, <3>3, TimeAssumption
    <3>5. QED BY <3>3, <3>4
  <2>4. QED BY <2>2, <2>3
<1>7. Spread(passed', w, gap) /\ NoBurst'
  <2> HIDE DEF b, gap
  <2>1. QED BY <1>1, <1>2, <1>4, <1>5, <1>6, BucketServes
<1> HIDE DEF w
<1>8. RateTypes'
  <2>1. passed' \in Seq(Nat)
    BY <1>1, <1>2
  <2>2. \A i \in 1..Len(passed') : passed'[i] <= now'
    <3>1. \A i \in 1..Len(passed) : passed[i] <= now
      BY DEF RateInv, RateTypes
    <3>2. CASE passed' = passed
      BY <1>1, <3>1, <3>2
    <3>3. CASE passed' = Append(passed, now)
      BY <1>1, <1>2, <3>1, <3>3
    <3>4. QED BY <1>1, <3>2, <3>3
  <2>3. /\ bucket' \in [{"fallback", "store"} -> WindowRow]
        /\ \A c \in {"fallback", "store"} : bucket'[c].start <= now'
    BY <1>1, <1>2, <1>3 DEF RateInv, RateTypes
  <2>4. QED BY <1>1, <1>2, <2>1, <2>2, <2>3 DEF RateTypes
<1>9. BucketsKnown'
  <2>1. CASE ready
    <3>1. bucket'["store"] = w /\ gap = 2 * PerWindow - 1 /\ ready'
      BY <1>1, <1>2, <2>1
    <3>2. QED BY <1>3, <1>7, <3>1 DEF BucketsKnown
  <2>2. CASE ~ready
    <3>1. /\ bucket'["fallback"] = w /\ gap = PerWindow - 1 /\ ~ready' /\ bucket'["store"] = bucket["store"]
      BY <1>1, <1>2, <2>2
    <3>2. bucket["store"].count = 0
      BY <2>2 DEF RateInv, BucketsKnown
    <3>3. QED BY <1>7, <3>1, <3>2 DEF BucketsKnown
  <2>3. QED BY <2>1, <2>2
<1>10. QED BY <1>7, <1>8, <1>9 DEF RateInv

LEMMA RateStepped == RateInv /\ [Next]_vars => RateInv'
<1> SUFFICES ASSUME RateInv, [Next]_vars PROVE RateInv'
  OBVIOUS
<1>1. CASE UNCHANGED throttles
  <2>1. UNCHANGED <<now, ready, bucket, passed>>
    BY <1>1 DEF throttles
  <2>2. QED BY <2>1 DEF RateInv, RateTypes, BucketsKnown, Spread, NoBurst, Throttle!NoBurst
<1>2. CASE Throttle!Next
  BY <1>2, RateWaits, HookStep DEF Throttle!Next
<1>3. QED BY <1>1, <1>2, DoorFrame

\* In no span as long as a window does one IP get three times the limit through: two windows of a
\* bucket may touch, and the shared store, whenever it is loaded, opens one more beside them.
THEOREM BurstsAreBounded == Spec => []NoBurst
<1>1. RateInv => NoBurst
  BY DEF RateInv
<1>2. QED BY <1>1, RateInit, RateStepped, PTL DEF Spec

-----------------------------------------------------------------------------
(* Sign-in.                                                                *)

PersonRow(E) == [id : Nat, password : BOOLEAN, verified : BOOLEAN, provider : E \cup {None}]
VisitState(E) ==
    [at : {"ready", "register", "link", "verify", "reset", "magic", "accept", "provider", "session"},
     email : E \cup {None}, id : Nat]
Letters == {"verify", "reset", "magic"} \X Nat

VisitTypes(E) ==
    /\ customer \in [E -> PersonRow(E)] /\ lastId \in Nat /\ mailed \subseteq Letters
    /\ visit \in [Visitors -> VisitState(E)]

\* What is verified unseen cannot be signed in with.
Harmless(row, ids) == row.verified /\ row.id \notin ids => ~row.password /\ row.provider = None

\* A request that has read a mail, or is about to issue a session, is for someone who has answered.
Answered(v, ids) == v.at \in {"verify", "reset", "magic", "session"} => v.id \in ids

VisitInv(E) ==
    /\ VisitTypes(E)
    /\ \A e \in E : Harmless(customer[e], proven)
    /\ \A r \in Visitors : Answered(visit[r], proven)
    /\ signedIn \subseteq proven

LEMMA NobodyYet ==
  ASSUME NEW CONSTANT E, NEW CONSTANT n, People(E, n)!Init
  PROVE  VisitInv(E)
<1>1. People(E, n)!NoRow \in PersonRow(E) /\ ~People(E, n)!NoRow.verified
  BY DEF People!NoRow, PersonRow
<1>2. People(E, n)!Ready \in VisitState(E) /\ People(E, n)!Ready.at = "ready"
  BY DEF People!Ready, VisitState
<1>3. /\ customer = [e \in E |-> People(E, n)!NoRow] /\ lastId = 0 /\ mailed = {}
      /\ visit = [r \in Visitors |-> People(E, n)!Ready] /\ signedIn = {} /\ proven = {}
  BY DEF People!Init
<1>4. VisitTypes(E)
  BY <1>1, <1>2, <1>3 DEF VisitTypes
<1>5. QED BY <1>1, <1>2, <1>3, <1>4 DEF VisitInv, Harmless, Answered

\* A step changes rows and requests into such that are sound, and proofs are never lost.
LEMMA VisitKept ==
  ASSUME NEW CONSTANT E, VisitInv(E), VisitTypes(E)', proven \subseteq proven', signedIn' \subseteq proven',
         \A e \in E : customer'[e] \in {customer[f] : f \in E} \/ Harmless(customer'[e], proven'),
         \A r \in Visitors : visit'[r] = visit[r] \/ Answered(visit'[r], proven')
  PROVE  VisitInv(E)'
<1>1. \A e \in E : Harmless(customer'[e], proven')
  BY DEF VisitInv, Harmless
<1>2. \A r \in Visitors : Answered(visit'[r], proven')
  BY DEF VisitInv, Answered
<1>3. QED BY <1>1, <1>2 DEF VisitInv, Harmless, Answered

\* Staff, and the mails and invitations they send.
LEMMA StaffStep ==
  ASSUME NEW CONSTANT E, NEW CONSTANT n, VisitInv(E), NEW e \in E,
         \/ \E kind \in {"verify", "reset", "magic"} : People(E, n)!Mail(kind, e)
         \/ \E password \in BOOLEAN : People(E, n)!CreateCustomer(e, password)
         \/ People(E, n)!CreateInvitation(e) \/ People(E, n)!DeleteCustomer(e)
         \/ \E f \in E : People(E, n)!UpdateCustomer(e, f)
  PROVE  VisitInv(E)'
<1>1. /\ customer \in [E -> PersonRow(E)] /\ lastId \in Nat /\ mailed \subseteq Letters
      /\ visit \in [Visitors -> VisitState(E)] /\ signedIn \subseteq proven
  BY DEF VisitInv, VisitTypes
<1>2. UNCHANGED <<visit, proven, signedIn>>
  BY DEF People!Mail, People!CreateCustomer, People!CreateInvitation, People!DeleteCustomer,
         People!UpdateCustomer
<1>3. People(E, n)!NoRow \in PersonRow(E) /\ ~People(E, n)!NoRow.verified
  BY DEF People!NoRow, PersonRow
<1>4. CASE \E kind \in {"verify", "reset", "magic"} : People(E, n)!Mail(kind, e)
  <2>1. customer[e].id \in Nat
    BY <1>1 DEF PersonRow
  <2>2. mailed' \subseteq Letters /\ UNCHANGED <<customer, lastId>>
    BY <1>1, <1>4, <2>1 DEF People!Mail, Letters
  <2>3. QED BY <1>1, <1>2, <2>2, VisitKept DEF VisitTypes
<1>5. ASSUME NEW password \in BOOLEAN, People(E, n)!CreateCustomer(e, password) PROVE VisitInv(E)'
  <2>1. PICK m : m = lastId + 1
    OBVIOUS
  <2>2. PICK blank : blank = [People(E, n)!NoRow EXCEPT !.password = password]
    OBVIOUS
  <2>3. PICK row : row = [blank EXCEPT !.id = m]
    OBVIOUS
  <2>4. m \in Nat /\ row \in PersonRow(E) /\ ~row.verified
    <3>1. blank \in PersonRow(E) /\ ~blank.verified
      BY <1>3, <2>2 DEF PersonRow
    <3>2. QED BY <1>1, <2>1, <2>3, <3>1 DEF PersonRow
  <2>5. customer' = [customer EXCEPT ![e] = row] /\ lastId' = m /\ mailed' = mailed
    BY <1>5, <2>1, <2>2, <2>3 DEF People!CreateCustomer, People!Insert
  <2>6. VisitTypes(E)'
    BY <1>1, <1>2, <2>4, <2>5 DEF VisitTypes
  <2>7. \A f \in E : customer'[f] \in {customer[g] : g \in E} \/ Harmless(customer'[f], proven')
    BY <1>1, <2>4, <2>5 DEF Harmless
  <2>8. QED BY <1>1, <1>2, <2>6, <2>7, VisitKept
<1>6. CASE People(E, n)!CreateInvitation(e)
  <2>1. UNCHANGED <<customer, lastId, mailed>>
    BY <1>6 DEF People!CreateInvitation
  <2>2. QED BY <1>1, <1>2, <2>1, VisitKept DEF VisitTypes
<1>7. CASE People(E, n)!DeleteCustomer(e)
  <2>1. /\ customer' = [customer EXCEPT ![e] = People(E, n)!NoRow] /\ lastId' = lastId
        /\ mailed' \subseteq mailed
    BY <1>7 DEF People!DeleteCustomer
  <2>2. VisitTypes(E)'
    BY <1>1, <1>2, <1>3, <2>1 DEF VisitTypes
  <2>3. \A f \in E : customer'[f] \in {customer[g] : g \in E} \/ Harmless(customer'[f], proven')
    BY <1>1, <1>3, <2>1 DEF Harmless
  <2>4. QED BY <1>1, <1>2, <2>2, <2>3, VisitKept
<1>8. ASSUME NEW f \in E, People(E, n)!UpdateCustomer(e, f) PROVE VisitInv(E)'
  <2>1. /\ customer' = [customer EXCEPT ![f] = customer[e], ![e] = People(E, n)!NoRow]
        /\ UNCHANGED <<lastId, mailed>>
    BY <1>8 DEF People!UpdateCustomer
  <2>2. VisitTypes(E)'
    BY <1>1, <1>2, <1>3, <2>1 DEF VisitTypes
  <2>3. \A g \in E : customer'[g] \in {customer[h] : h \in E} \/ Harmless(customer'[g], proven')
    BY <1>1, <1>3, <2>1 DEF Harmless
  <2>4. QED BY <1>1, <1>2, <2>2, <2>3, VisitKept
<1>9. QED BY <1>4, <1>5, <1>6, <1>7, <1>8

\* A request goes on, with rows and mails that are sound.
LEMMA Moved ==
  ASSUME NEW CONSTANT E, NEW CONSTANT r \in Visitors, NEW CONSTANT v \in VisitState(E), VisitInv(E),
         customer' \in [E -> PersonRow(E)], lastId' \in Nat, mailed' \subseteq Letters,
         visit' = [visit EXCEPT ![r] = v], Answered(v, proven'),
         proven \subseteq proven', signedIn' \subseteq proven',
         \A e \in E : customer'[e] \in {customer[f] : f \in E} \/ Harmless(customer'[e], proven')
  PROVE  VisitInv(E)'
<1>1. visit \in [Visitors -> VisitState(E)]
  BY DEF VisitInv, VisitTypes
<1>2. VisitTypes(E)'
  BY <1>1 DEF VisitTypes
<1>3. \A q \in Visitors : visit'[q] = visit[q] \/ Answered(visit'[q], proven')
  BY <1>1
<1>4. QED BY <1>2, <1>3, VisitKept

\* A request that looks something up.
LEMMA LookStep ==
  ASSUME NEW CONSTANT E, NEW CONSTANT n, VisitInv(E), NEW CONSTANT r \in Visitors, NEW CONSTANT e \in E,
         \/ People(E, n)!StartRegistering(r, e) \/ People(E, n)!StartMagicLink(r, e)
         \/ People(E, n)!ReadInvitation(r, e) \/ People(E, n)!OauthLogin(r, e)
         \/ People(E, n)!LoginWithPassword(r, e)
  PROVE  VisitInv(E)'
<1>1. /\ customer \in [E -> PersonRow(E)] /\ lastId \in Nat /\ mailed \subseteq Letters
      /\ visit \in [Visitors -> VisitState(E)] /\ signedIn \subseteq proven
  BY DEF VisitInv, VisitTypes
<1>2. UNCHANGED <<customer, lastId, mailed, proven, signedIn>>
  BY DEF People!StartRegistering, People!StartMagicLink, People!ReadInvitation, People!OauthLogin,
         People!LoginWithPassword
<1>3. \E v \in VisitState(E) : visit' = [visit EXCEPT ![r] = v] /\ Answered(v, proven)
  <2>1. \A f \in E : customer[f].id \in Nat
    BY <1>1 DEF PersonRow
  <2>2. ASSUME NEW CONSTANT at \in {"register", "link", "accept", "provider"}, NEW CONSTANT id \in Nat,
               People(E, n)!Goes(r, at, e, id)
        PROVE  \E v \in VisitState(E) : visit' = [visit EXCEPT ![r] = v] /\ Answered(v, proven)
    <3>1. [at |-> at, email |-> e, id |-> id] \in VisitState(E)
      BY DEF VisitState
    <3>2. Answered([at |-> at, email |-> e, id |-> id], proven)
      BY DEF Answered
    <3>3. QED BY <2>2, <3>1, <3>2 DEF People!Goes
  <2>3. CASE People(E, n)!StartRegistering(r, e) \/ People(E, n)!StartMagicLink(r, e)
    BY <2>2, <2>3 DEF People!StartRegistering, People!StartMagicLink
  <2>4. CASE People(E, n)!ReadInvitation(r, e)
    <3>1. PICK id \in Nat : id = customer[e].id
      BY <2>1
    <3>2. People(E, n)!Goes(r, "accept", e, id)
      BY <2>4, <3>1 DEF People!ReadInvitation
    <3>3. QED BY <2>2, <3>2
  <2>5. CASE People(E, n)!OauthLogin(r, e)
    <3> DEFINE known == {f \in E : customer[f].provider = e}
               found == IF known # {} THEN CHOOSE f \in known : TRUE ELSE e
    <3>1. found \in E
      OBVIOUS
    <3>2. PICK id \in Nat : id = customer[found].id
      BY <2>1, <3>1
    <3>3. People(E, n)!Goes(r, "provider", e, id)
      BY <2>5, <3>2 DEF People!OauthLogin
    <3>4. QED BY <2>2, <3>3
  <2>6. CASE People(E, n)!LoginWithPassword(r, e)
    <3>1. PICK v : v = [at |-> "session", email |-> None, id |-> customer[e].id]
      OBVIOUS
    <3>2. visit' = [visit EXCEPT ![r] = v] /\ customer[e].password /\ customer[e].verified
      BY <2>6, <3>1 DEF People!LoginWithPassword, People!Goes
    <3>3. customer[e].id \in proven
      BY <3>2 DEF VisitInv, Harmless
    <3>4. v \in VisitState(E) /\ Answered(v, proven)
      BY <2>1, <3>1, <3>3 DEF VisitState, Answered
    <3>5. QED BY <3>2, <3>4
  <2>7. QED BY <2>3, <2>4, <2>5, <2>6
<1>4. PICK v \in VisitState(E) : visit' = [visit EXCEPT ![r] = v] /\ Answered(v, proven)
  BY <1>3
<1>5. \A f \in E : customer'[f] \in {customer[g] : g \in E}
  BY <1>1, <1>2
<1>6. QED BY <1>1, <1>2, <1>4, <1>5, Moved

\* The insertion of a row, by a request that had found its email free.
LEMMA CreateStep ==
  ASSUME NEW CONSTANT E, NEW CONSTANT n, VisitInv(E), NEW CONSTANT r \in Visitors,
         People(E, n)!RegisterCustomer(r) \/ People(E, n)!SendMagicLink(r)
  PROVE  VisitInv(E)'
<1>1. /\ customer \in [E -> PersonRow(E)] /\ lastId \in Nat /\ mailed \subseteq Letters
      /\ visit \in [Visitors -> VisitState(E)] /\ signedIn \subseteq proven
  BY DEF VisitInv, VisitTypes
<1>2. PICK v : v = People(E, n)!Ready
  OBVIOUS
<1>3. v \in VisitState(E) /\ Answered(v, proven)
  BY <1>2 DEF People!Ready, VisitState, Answered
<1>4. visit' = [visit EXCEPT ![r] = v] /\ UNCHANGED <<proven, signedIn>>
  BY <1>2 DEF People!RegisterCustomer, People!SendMagicLink, People!Ends
<1>5. PICK blank : blank = People(E, n)!NoRow
  OBVIOUS
<1>6. PICK m \in Nat : m = lastId + 1
  BY <1>1
<1>7. PICK known : known = [blank EXCEPT !.password = TRUE]
  OBVIOUS
<1>8. PICK linked : linked = [blank EXCEPT !.verified = TRUE]
  OBVIOUS
<1>9. blank \in PersonRow(E) /\ ~blank.verified /\ ~blank.password /\ blank.provider = None
  BY <1>5 DEF People!NoRow, PersonRow
<1>10. known \in PersonRow(E) /\ ~known.verified
  BY <1>7, <1>9 DEF PersonRow
<1>11. linked \in PersonRow(E) /\ ~linked.password /\ linked.provider = None
  BY <1>8, <1>9 DEF PersonRow
<1>12. ASSUME NEW CONSTANT row \in {known, linked}, NEW CONSTANT kind \in {"verify", "magic"},
              People(E, n)!Insert(visit[r].email, row), mailed' = mailed \cup {<<kind, lastId'>>}
       PROVE  VisitInv(E)'
  <2>1. PICK made : made = [row EXCEPT !.id = m]
    OBVIOUS
  <2>2. made \in PersonRow(E) /\ Harmless(made, proven')
    BY <1>10, <1>11, <2>1 DEF PersonRow, Harmless
  <2>3. customer' = [customer EXCEPT ![visit[r].email] = made] /\ lastId' = m
    BY <1>6, <1>12, <2>1 DEF People!Insert
  <2>4. customer' \in [E -> PersonRow(E)]
    BY <1>1, <2>2, <2>3
  <2>5. mailed' \subseteq Letters
    BY <1>1, <1>12, <2>3 DEF Letters
  <2>6. \A e \in E : customer'[e] \in {customer[f] : f \in E} \/ Harmless(customer'[e], proven')
    BY <1>1, <2>2, <2>3
  <2>7. QED BY <1>1, <1>3, <1>4, <2>3, <2>4, <2>5, <2>6, Moved
<1>13. CASE UNCHANGED <<customer, lastId, mailed>>
  <2>1. \A e \in E : customer'[e] \in {customer[f] : f \in E}
    BY <1>1, <1>13
  <2>2. QED BY <1>1, <1>3, <1>4, <1>13, <2>1, Moved
<1>14. CASE People(E, n)!RegisterCustomer(r)
  BY <1>5, <1>7, <1>12, <1>13, <1>14 DEF People!RegisterCustomer
<1>15. CASE People(E, n)!SendMagicLink(r)
  BY <1>5, <1>8, <1>12, <1>13, <1>15 DEF People!SendMagicLink
<1>16. QED BY <1>14, <1>15

\* Whatever columns a handler sets, the row is a row and keeps its id.
LEMMA WrittenRow ==
  ASSUME NEW CONSTANT E, NEW CONSTANT n, NEW row \in PersonRow(E), NEW flags, NEW by \in E \cup {None}
  PROVE  /\ People(E, n)!Written(row, flags, by) \in PersonRow(E)
         /\ People(E, n)!Written(row, flags, by).id = row.id
BY DEF PersonRow, People!Written

\* A request that uses a token, or issues a session.
LEMMA TokenStep ==
  ASSUME NEW CONSTANT E, NEW CONSTANT n, VisitInv(E), NEW CONSTANT r \in Visitors,
         \/ \E t \in mailed : People(E, n)!ReadToken(r, t[1], t[2])
         \/ People(E, n)!VerifyEmail(r) \/ People(E, n)!CompletePasswordReset(r)
         \/ People(E, n)!IssueSession(r)
  PROVE  VisitInv(E)'
<1>1. /\ customer \in [E -> PersonRow(E)] /\ lastId \in Nat /\ mailed \subseteq Letters
      /\ visit \in [Visitors -> VisitState(E)] /\ signedIn \subseteq proven
      /\ Answered(visit[r], proven)
  BY DEF VisitInv, VisitTypes
<1>2. PICK end : end = People(E, n)!Ready
  OBVIOUS
<1>3. end \in VisitState(E) /\ Answered(end, proven')
  BY <1>2 DEF People!Ready, VisitState, Answered
<1>4. PICK v : v = visit[r]
  OBVIOUS
<1>5. v \in VisitState(E) /\ v.id \in Nat /\ (v.at \in {"verify", "reset", "magic", "session"} => v.id \in proven)
  BY <1>1, <1>4 DEF VisitState, Answered
<1>6. \A e \in E : customer[e] \in {customer[f] : f \in E}
  OBVIOUS
<1>7. ASSUME NEW t \in mailed, People(E, n)!ReadToken(r, t[1], t[2]) PROVE VisitInv(E)'
  <2>1. PICK kind \in {"verify", "reset", "magic"} : \E id \in Nat : t = <<kind, id>>
    BY <1>1 DEF Letters
  <2>2. PICK id \in Nat : t = <<kind, id>>
    BY <2>1
  <2>3. PICK w : w = [at |-> kind, email |-> None, id |-> id]
    OBVIOUS
  <2>4. /\ visit' = [visit EXCEPT ![r] = w] /\ proven' = proven \cup {id}
        /\ UNCHANGED <<customer, lastId, mailed, signedIn>>
    BY <1>7, <2>2, <2>3 DEF People!ReadToken, People!Goes
  <2>5. w \in VisitState(E) /\ Answered(w, proven')
    BY <2>3, <2>4 DEF VisitState, Answered
  <2>6. QED BY <1>1, <1>6, <2>4, <2>5, Moved
<1>8. CASE People(E, n)!VerifyEmail(r)
  <2>1. PICK w : w = [at |-> "session", email |-> None, id |-> v.id]
    OBVIOUS
  <2>2. /\ v.at \in {"verify", "magic"} /\ mailed' \subseteq mailed
        /\ UNCHANGED <<lastId, proven, signedIn>>
        /\ customer' = [e \in E |-> IF customer[e].id = v.id
                                    THEN People(E, n)!Written(customer[e], {"verified"}, None) ELSE customer[e]]
    BY <1>4, <1>8 DEF People!VerifyEmail, People!Update
  <2>3. visit' = [visit EXCEPT ![r] = w] \/ visit' = [visit EXCEPT ![r] = end]
    BY <1>2, <1>4, <1>8, <2>1 DEF People!VerifyEmail, People!Goes, People!Ends
  <2>4. w \in VisitState(E) /\ Answered(w, proven')
    BY <1>5, <2>1, <2>2 DEF VisitState, Answered
  <2>5. ASSUME NEW e \in E
        PROVE  customer'[e] \in PersonRow(E) /\ (customer'[e] \in {customer[f] : f \in E} \/ Harmless(customer'[e], proven'))
    <3>1. PICK row : row = customer[e]
      OBVIOUS
    <3>2. PICK after : after = People(E, n)!Written(row, {"verified"}, None)
      OBVIOUS
    <3>3. after \in PersonRow(E) /\ after.id = row.id
      BY <1>1, <3>1, <3>2, WrittenRow
    <3>4. CASE row.id = v.id
      <4>1. customer'[e] = after
        BY <2>2, <3>1, <3>2, <3>4
      <4>2. after.id \in proven'
        BY <1>5, <2>2, <3>3, <3>4
      <4>3. Harmless(after, proven')
        BY <4>2 DEF Harmless
      <4>4. Harmless(customer'[e], proven')
        BY <4>1, <4>3
      <4>5. QED BY <3>3, <4>1, <4>4
    <3>5. CASE row.id # v.id
      BY <1>1, <1>6, <2>2, <3>1, <3>5
    <3>6. QED BY <3>4, <3>5
  <2>6. customer' \in [E -> PersonRow(E)]
    BY <2>2, <2>5
  <2>7. QED BY <1>1, <1>3, <2>2, <2>3, <2>4, <2>5, <2>6, Moved
<1>9. CASE People(E, n)!CompletePasswordReset(r)
  <2>1. /\ v.at = "reset" /\ mailed' \subseteq mailed
        /\ UNCHANGED <<lastId, proven, signedIn>>
        /\ customer' = [e \in E |-> IF customer[e].id = v.id
                                    THEN People(E, n)!Written(customer[e], {"password"}, None) ELSE customer[e]]
        /\ visit' = [visit EXCEPT ![r] = end]
    BY <1>2, <1>4, <1>9 DEF People!CompletePasswordReset, People!Update, People!Ends
  <2>2. ASSUME NEW e \in E
        PROVE  customer'[e] \in PersonRow(E) /\ (customer'[e] \in {customer[f] : f \in E} \/ Harmless(customer'[e], proven'))
    <3>1. PICK row : row = customer[e]
      OBVIOUS
    <3>2. PICK after : after = People(E, n)!Written(row, {"password"}, None)
      OBVIOUS
    <3>3. after \in PersonRow(E) /\ after.id = row.id
      BY <1>1, <3>1, <3>2, WrittenRow
    <3>4. CASE row.id = v.id
      <4>1. customer'[e] = after
        BY <2>1, <3>1, <3>2, <3>4
      <4>2. after.id \in proven'
        BY <1>5, <2>1, <3>3, <3>4
      <4>3. Harmless(after, proven')
        BY <4>2 DEF Harmless
      <4>4. Harmless(customer'[e], proven')
        BY <4>1, <4>3
      <4>5. QED BY <3>3, <4>1, <4>4
    <3>5. CASE row.id # v.id
      BY <1>1, <1>6, <2>1, <3>1, <3>5
    <3>6. QED BY <3>4, <3>5
  <2>3. customer' \in [E -> PersonRow(E)]
    BY <2>1, <2>2
  <2>4. QED BY <1>1, <1>3, <2>1, <2>2, <2>3, Moved
<1>10. CASE People(E, n)!IssueSession(r)
  <2>1. /\ v.at = "session" /\ signedIn' \subseteq signedIn \cup {v.id}
        /\ visit' = [visit EXCEPT ![r] = end]
        /\ UNCHANGED <<customer, lastId, mailed, proven>>
    BY <1>2, <1>4, <1>10 DEF People!IssueSession, People!Ends
  <2>2. QED BY <1>1, <1>3, <1>5, <1>6, <2>1, Moved
<1>11. QED BY <1>7, <1>8, <1>9, <1>10

\* Whoever is admitted by an invitation or by a provider has answered, under the id of the row.
LEMMA Admitted ==
  ASSUME NEW CONSTANT E, VisitInv(E), NEW CONSTANT r \in Visitors, NEW CONSTANT id \in Nat,
         UNCHANGED <<mailed, signedIn>>, lastId' \in Nat,
         visit' = [visit EXCEPT ![r] = [at |-> "session", email |-> None, id |-> id]],
         proven' = proven \cup {id}, customer' \in [E -> PersonRow(E)],
         \A e \in E : customer'[e] = customer[e] \/ customer'[e].id = id
  PROVE  VisitInv(E)'
<1>1. mailed \subseteq Letters /\ signedIn \subseteq proven
  BY DEF VisitInv, VisitTypes
<1>2. PICK w : w = [at |-> "session", email |-> None, id |-> id]
  OBVIOUS
<1>3. w \in VisitState(E) /\ Answered(w, proven')
  BY <1>2 DEF VisitState, Answered
<1>4. \A e \in E : customer'[e] \in {customer[f] : f \in E} \/ Harmless(customer'[e], proven')
  BY DEF Harmless
<1>5. QED BY <1>1, <1>2, <1>3, <1>4, Moved

\* Whoever is not admitted changes nothing.
LEMMA TurnedAway ==
  ASSUME NEW CONSTANT E, NEW CONSTANT n, VisitInv(E), NEW CONSTANT r \in Visitors,
         People(E, n)!Ends(r), UNCHANGED <<customer, lastId, mailed, proven, signedIn>>
  PROVE  VisitInv(E)'
<1>1. /\ customer \in [E -> PersonRow(E)] /\ lastId \in Nat /\ mailed \subseteq Letters
      /\ signedIn \subseteq proven
  BY DEF VisitInv, VisitTypes
<1>2. PICK end : end = People(E, n)!Ready
  OBVIOUS
<1>3. end \in VisitState(E) /\ Answered(end, proven')
  BY <1>2 DEF People!Ready, VisitState, Answered
<1>4. visit' = [visit EXCEPT ![r] = end]
  BY <1>2 DEF People!Ends
<1>5. QED BY <1>1, <1>3, <1>4, Moved

LEMMA AcceptStep ==
  ASSUME NEW CONSTANT E, NEW CONSTANT n, VisitInv(E), NEW CONSTANT r \in Visitors,
         People(E, n)!AcceptInvitation(r)
  PROVE  VisitInv(E)'
<1>1. customer \in [E -> PersonRow(E)] /\ lastId \in Nat /\ visit \in [Visitors -> VisitState(E)]
  BY DEF VisitInv, VisitTypes
<1>2. PICK v : v = visit[r]
  OBVIOUS
<1>3. v.id \in Nat
  BY <1>1, <1>2 DEF VisitState
<1>4. UNCHANGED <<mailed, signedIn>>
  BY DEF People!AcceptInvitation
<1>5. \A row \in PersonRow(E) : /\ People(E, n)!Written(row, {"password", "verified"}, None) \in PersonRow(E)
                                /\ People(E, n)!Written(row, {"password", "verified"}, None).id = row.id
  BY WrittenRow
<1>6. CASE /\ customer' = [e \in E |-> IF customer[e].id = v.id
                                       THEN People(E, n)!Written(customer[e], {"password", "verified"}, None)
                                       ELSE customer[e]]
           /\ proven' = proven \cup {v.id} /\ lastId' = lastId
           /\ visit' = [visit EXCEPT ![r] = [at |-> "session", email |-> None, id |-> v.id]]
  <2>1. customer' \in [E -> PersonRow(E)]
    BY <1>1, <1>5, <1>6
  <2>2. \A e \in E : customer'[e] = customer[e] \/ customer'[e].id = v.id
    BY <1>1, <1>5, <1>6
  <2>3. QED BY <1>1, <1>3, <1>4, <1>6, <2>1, <2>2, Admitted
<1>7. PICK m \in Nat : m = lastId + 1
  BY <1>1
<1>8. PICK blank : blank = People(E, n)!NoRow
  OBVIOUS
<1>9. PICK made : made = [People(E, n)!Written(blank, {"password", "verified"}, None) EXCEPT !.id = m]
  OBVIOUS
<1>10. CASE /\ customer' = [customer EXCEPT ![v.email] = made] /\ lastId' = m /\ proven' = proven \cup {m}
            /\ visit' = [visit EXCEPT ![r] = [at |-> "session", email |-> None, id |-> m]]
  <2>1. blank \in PersonRow(E)
    BY <1>8 DEF People!NoRow, PersonRow
  <2>2. PICK half : half = People(E, n)!Written(blank, {"password", "verified"}, None)
    OBVIOUS
  <2>3. half \in PersonRow(E)
    BY <1>5, <2>1, <2>2
  <2>4. made = [half EXCEPT !.id = m]
    BY <1>9, <2>2
  <2>5. made \in PersonRow(E) /\ made.id = m
    BY <2>3, <2>4 DEF PersonRow
  <2>6. customer' \in [E -> PersonRow(E)] /\ \A e \in E : customer'[e] = customer[e] \/ customer'[e].id = m
    BY <1>1, <1>10, <2>5
  <2>7. QED BY <1>4, <1>7, <1>10, <2>6, Admitted
<1>11. CASE People(E, n)!Ends(r) /\ UNCHANGED <<customer, lastId, proven>>
  BY <1>4, <1>11, TurnedAway
<1>12. QED
  BY <1>2, <1>6, <1>7, <1>8, <1>9, <1>10, <1>11
  DEF People!AcceptInvitation, People!Admit, People!Update, People!Insert, People!Goes

LEMMA OauthStep ==
  ASSUME NEW CONSTANT E, NEW CONSTANT n, VisitInv(E), NEW CONSTANT r \in Visitors,
         People(E, n)!OauthUpsert(r)
  PROVE  VisitInv(E)'
<1>1. customer \in [E -> PersonRow(E)] /\ lastId \in Nat /\ visit \in [Visitors -> VisitState(E)]
  BY DEF VisitInv, VisitTypes
<1>2. PICK v : v = visit[r]
  OBVIOUS
<1>3. v.id \in Nat /\ v.email \in E \cup {None}
  BY <1>1, <1>2 DEF VisitState
<1>4. UNCHANGED <<mailed, signedIn>>
  BY DEF People!OauthUpsert
<1>5. \A row \in PersonRow(E) : /\ People(E, n)!Written(row, {"verified"}, v.email) \in PersonRow(E)
                                /\ People(E, n)!Written(row, {"verified"}, v.email).id = row.id
  BY <1>3, WrittenRow
<1>6. CASE /\ customer' = [e \in E |-> IF customer[e].id = v.id
                                       THEN People(E, n)!Written(customer[e], {"verified"}, v.email)
                                       ELSE customer[e]]
           /\ proven' = proven \cup {v.id} /\ lastId' = lastId
           /\ visit' = [visit EXCEPT ![r] = [at |-> "session", email |-> None, id |-> v.id]]
  <2>1. customer' \in [E -> PersonRow(E)]
    BY <1>1, <1>5, <1>6
  <2>2. \A e \in E : customer'[e] = customer[e] \/ customer'[e].id = v.id
    BY <1>1, <1>5, <1>6
  <2>3. QED BY <1>1, <1>3, <1>4, <1>6, <2>1, <2>2, Admitted
<1>7. PICK m \in Nat : m = lastId + 1
  BY <1>1
<1>8. PICK blank : blank = People(E, n)!NoRow
  OBVIOUS
<1>9. PICK made : made = [People(E, n)!Written(blank, {"verified"}, v.email) EXCEPT !.id = m]
  OBVIOUS
<1>10. CASE /\ customer' = [customer EXCEPT ![v.email] = made] /\ lastId' = m /\ proven' = proven \cup {m}
            /\ visit' = [visit EXCEPT ![r] = [at |-> "session", email |-> None, id |-> m]]
  <2>1. blank \in PersonRow(E)
    BY <1>8 DEF People!NoRow, PersonRow
  <2>2. PICK half : half = People(E, n)!Written(blank, {"verified"}, v.email)
    OBVIOUS
  <2>3. half \in PersonRow(E)
    BY <1>5, <2>1, <2>2
  <2>4. made = [half EXCEPT !.id = m]
    BY <1>9, <2>2
  <2>5. made \in PersonRow(E) /\ made.id = m
    BY <2>3, <2>4 DEF PersonRow
  <2>6. customer' \in [E -> PersonRow(E)] /\ \A e \in E : customer'[e] = customer[e] \/ customer'[e].id = m
    BY <1>1, <1>10, <2>5
  <2>7. QED BY <1>4, <1>7, <1>10, <2>6, Admitted
<1>11. CASE People(E, n)!Ends(r) /\ UNCHANGED <<customer, lastId, proven>>
  BY <1>4, <1>11, TurnedAway
<1>12. QED
  BY <1>2, <1>6, <1>7, <1>8, <1>9, <1>10, <1>11
  DEF People!OauthUpsert, People!Admit, People!Update, People!Insert, People!Goes

LEMMA PersonStep ==
  ASSUME NEW CONSTANT E, NEW CONSTANT n, VisitInv(E), People(E, n)!Next
  PROVE  VisitInv(E)'
<1>1. CASE \E e \in E :
              \/ \E kind \in {"verify", "reset", "magic"} : People(E, n)!Mail(kind, e)
              \/ \E password \in BOOLEAN : People(E, n)!CreateCustomer(e, password)
              \/ People(E, n)!CreateInvitation(e) \/ People(E, n)!DeleteCustomer(e)
              \/ \E f \in E : People(E, n)!UpdateCustomer(e, f)
  BY <1>1, StaffStep
<1>2. ASSUME NEW r \in Visitors,
             \/ \E e \in E :
                 \/ People(E, n)!StartRegistering(r, e) \/ People(E, n)!StartMagicLink(r, e)
                 \/ People(E, n)!ReadInvitation(r, e) \/ People(E, n)!OauthLogin(r, e)
                 \/ People(E, n)!LoginWithPassword(r, e)
             \/ \E t \in mailed : People(E, n)!ReadToken(r, t[1], t[2])
             \/ People(E, n)!RegisterCustomer(r) \/ People(E, n)!SendMagicLink(r)
             \/ People(E, n)!VerifyEmail(r) \/ People(E, n)!CompletePasswordReset(r)
             \/ People(E, n)!AcceptInvitation(r) \/ People(E, n)!OauthUpsert(r)
             \/ People(E, n)!IssueSession(r)
      PROVE  VisitInv(E)'
  BY <1>2, LookStep, CreateStep, TokenStep, AcceptStep, OauthStep
<1>3. QED BY <1>1, <1>2 DEF People!Next

\* The emails of a part, of which "replaced" has one.
VisitsInv == IF part = "replaced" THEN VisitInv(OneEmail) ELSE VisitInv(Emails)

LEMMA VisitsStay == ASSUME NEW CONSTANT E, VisitInv(E), UNCHANGED identities PROVE VisitInv(E)'
<1>1. UNCHANGED <<customer, lastId, mailed, visit, proven, signedIn>>
  BY DEF identities
<1>2. QED BY <1>1 DEF VisitInv, VisitTypes, Harmless, Answered

LEMMA VisitsStepped == VisitsInv /\ [Next]_vars => VisitsInv'
<1> SUFFICES ASSUME VisitsInv, [Next]_vars PROVE VisitsInv'
  OBVIOUS
<1>1. part' = part
  BY VisitFrame
<1>2. CASE part = "replaced"
  <2>1. VisitInv(OneEmail)
    BY <1>2 DEF VisitsInv
  <2>2. People(OneEmail, 2)!Next \/ UNCHANGED identities
    BY <1>2, VisitFrame
  <2>3. VisitInv(OneEmail)'
    BY <2>1, <2>2, PersonStep, VisitsStay
  <2>4. QED BY <1>1, <1>2, <2>3 DEF VisitsInv
<1>3. CASE part # "replaced"
  <2>1. VisitInv(Emails)
    BY <1>3 DEF VisitsInv
  <2>2. People(Emails, 1)!Next \/ UNCHANGED identities
    BY <1>3, VisitFrame
  <2>3. VisitInv(Emails)'
    BY <2>1, <2>2, PersonStep, VisitsStay
  <2>4. QED BY <1>1, <1>3, <2>3 DEF VisitsInv
<1>4. QED BY <1>2, <1>3

LEMMA VisitsBegin == Init => VisitsInv
<1> SUFFICES ASSUME Init PROVE VisitsInv
  OBVIOUS
<1>1. IF part = "replaced" THEN People(OneEmail, 2)!Init ELSE People(Emails, 1)!Init
  BY DEF Init
<1>2. CASE part = "replaced"
  <2>1. People(OneEmail, 2)!Init
    BY <1>1, <1>2
  <2>2. QED BY <1>2, <2>1, NobodyYet DEF VisitsInv
<1>3. CASE part # "replaced"
  <2>1. People(Emails, 1)!Init
    BY <1>1, <1>3
  <2>2. QED BY <1>3, <2>1, NobodyYet DEF VisitsInv
<1>4. QED BY <1>2, <1>3

\* Nobody is signed in whose mailbox or provider has not answered, whichever handlers have set
\* email_verified and however many requests are between their two statements.
THEOREM SignedInAreKnown == Spec => []SignedInHasShown
<1>1. ASSUME NEW CONSTANT E, NEW CONSTANT n, VisitInv(E) PROVE People(E, n)!SignedInHasShown
  BY <1>1 DEF VisitInv, Harmless, People!SignedInHasShown
<1>2. VisitsInv => SignedInHasShown
  <2>1. CASE part = "replaced"
    BY <1>1, <2>1 DEF VisitsInv, SignedInHasShown
  <2>2. CASE part # "replaced"
    BY <1>1, <2>2 DEF VisitsInv, SignedInHasShown
  <2>3. QED BY <2>1, <2>2
<1>3. QED BY <1>2, VisitsBegin, VisitsStepped, PTL DEF Spec

-----------------------------------------------------------------------------
(* Smart collections.                                                      *)

EditorState == [at : {"idle", "rules", "products", "delete", "insert"}, rules : SUBSET Rules,
                found : SUBSET Products, gone : SUBSET Products]

ShelfTypes ==
    /\ refresh \in [Editors -> EditorState] /\ rules \subseteq Rules /\ members \subseteq Products
    /\ \A a \in Editors : refresh[a].at = "idle" => refresh[a] = Collections!Idle

\* What every refresh has found is in; what none has found is out, but by hand.
FoundAreMembers ==
    seen # {} =>
        \A p \in Products \ byhand :
            /\ (\A s \in seen : p \in s.found) => p \in members
            /\ (\A s \in seen : p \notin s.found) => p \notin members

\* Until a refresh has committed, one that is about to has covered every member.
FirstCoversMembers ==
    \A a \in Editors :
        seen = {} /\ refresh[a].at = "insert" =>
            \A p \in Products \ byhand : p \in members => p \in refresh[a].found \cup refresh[a].gone

Underway(a) ==
    \/ refresh[a].at = "rules"
    \/ refresh[a].at \in {"products", "delete", "insert"} /\ refresh[a].rules = rules

\* The rules of now have been read by a refresh that has committed or is under way, or will be.
RulesAreUnderway ==
    \/ failed
    \/ rules = {} /\ seen = {} /\ \A a \in Editors : refresh[a].at = "idle"
    \/ \E s \in seen : s.rules = rules
    \/ \E a \in Editors : Underway(a)

ShelfInv == ShelfTypes /\ FoundAreMembers /\ FirstCoversMembers /\ RulesAreUnderway

LEMMA ShelfBegins == Init => ShelfInv
<1> SUFFICES ASSUME Init PROVE ShelfInv
  OBVIOUS
<1>1. /\ rules = {} /\ members = {} /\ seen = {} /\ refresh = [a \in Editors |-> Collections!Idle]
  BY DEF Init, Collections!Init
<1>2. Collections!Idle \in EditorState /\ Collections!Idle.at = "idle"
  BY DEF Collections!Idle, EditorState
<1>3. QED BY <1>1, <1>2 DEF ShelfInv, ShelfTypes, FoundAreMembers, FirstCoversMembers, RulesAreUnderway

\* The rules, the history and the failure stay, or a refresh has failed.
LEMMA UnderwayStays ==
  ASSUME ShelfInv, ShelfTypes', rules' = rules, seen' = seen, failed' = failed,
         \A a \in Editors : /\ Underway(a) => Underway(a)'
                            /\ refresh[a].at = "idle" => refresh'[a].at = "idle"
  PROVE  RulesAreUnderway'
BY DEF ShelfInv, RulesAreUnderway

\* Products and hands: what they move is known to have been moved.
LEMMA HandStep ==
  ASSUME ShelfInv, NEW p \in Products,
         \/ Collections!DeleteProduct(p) \/ Collections!AddProductToCollection(p)
         \/ Collections!RemoveProductFromCollection(p)
         \/ \E status \in {"active", "draft"}, satisfies \in SUBSET Rules :
               Collections!UpdateProduct(p, status, satisfies)
  PROVE  ShelfInv'
<1>1. UNCHANGED <<rules, refresh, seen, failed>>
  BY DEF Collections!DeleteProduct, Collections!AddProductToCollection,
         Collections!RemoveProductFromCollection, Collections!UpdateProduct
<1>2. \/ UNCHANGED <<members, byhand>>
      \/ /\ byhand' = byhand \cup {p}
         /\ members' = members \ {p} \/ members' = members \cup {p}
  BY DEF Collections!DeleteProduct, Collections!AddProductToCollection,
         Collections!RemoveProductFromCollection, Collections!UpdateProduct
<1>3. \A q \in Products \ byhand' : q \notin byhand /\ (q \in members' <=> q \in members)
  BY <1>2
<1>4. ShelfTypes'
  BY <1>1, <1>2 DEF ShelfInv, ShelfTypes
<1>5. FoundAreMembers' /\ FirstCoversMembers'
  BY <1>1, <1>3 DEF ShelfInv, FoundAreMembers, FirstCoversMembers
<1>6. RulesAreUnderway'
  BY <1>1, <1>4, UnderwayStays DEF Underway
<1>7. QED BY <1>4, <1>5, <1>6 DEF ShelfInv

\* A change of a rule, after which its refresh is under way.
LEMMA ChangedStep ==
  ASSUME ShelfInv, NEW CONSTANT a \in Editors, NEW CONSTANT set \in SUBSET Rules, Collections!Changed(a, set)
  PROVE  ShelfInv'
<1>1. /\ refresh \in [Editors -> EditorState] /\ members \subseteq Products
      /\ \A b \in Editors : refresh[b].at = "idle" => refresh[b] = Collections!Idle
  BY DEF ShelfInv, ShelfTypes
<1>2. PICK old : old = refresh[a]
  OBVIOUS
<1>3. PICK job : job = [old EXCEPT !.at = "rules"]
  OBVIOUS
<1>4. job \in EditorState /\ job.at = "rules"
  BY <1>1, <1>2, <1>3 DEF EditorState
<1>5. /\ refresh[a] = Collections!Idle /\ rules' = set /\ members' = members
      /\ refresh' = [refresh EXCEPT ![a] = job]
      /\ \/ Collections!Busy = {} /\ seen' = {} /\ byhand' = {}
         \/ UNCHANGED <<seen, byhand>>
  BY <1>2, <1>3 DEF Collections!Changed
<1>6. ShelfTypes'
  BY <1>1, <1>4, <1>5 DEF ShelfTypes
<1>7. RulesAreUnderway'
  BY <1>1, <1>4, <1>5 DEF RulesAreUnderway, Underway
<1>8. FoundAreMembers'
  BY <1>5 DEF ShelfInv, FoundAreMembers
<1>9. FirstCoversMembers'
  <2>1. CASE UNCHANGED <<seen, byhand>>
    BY <1>1, <1>4, <1>5, <2>1 DEF ShelfInv, FirstCoversMembers
  <2>2. CASE Collections!Busy = {}
    <3>1. \A b \in Editors : refresh[b] = Collections!Idle
      BY <2>2 DEF Collections!Busy
    <3>2. Collections!Idle.at # "insert"
      BY DEF Collections!Idle
    <3>3. \A b \in Editors : refresh'[b].at # "insert"
      BY <1>1, <1>4, <1>5, <3>1, <3>2
    <3>4. QED BY <3>3 DEF FirstCoversMembers
  <2>3. QED BY <1>5, <2>1, <2>2
<1>10. QED BY <1>6, <1>7, <1>8, <1>9 DEF ShelfInv

\* A refresh reads the rules, then the products, and deletes.
LEMMA RefreshStep ==
  ASSUME ShelfInv, NEW CONSTANT a \in Editors,
         Collections!ReadRules(a) \/ Collections!ReadProducts(a) \/ Collections!DeleteNonMatching(a)
  PROVE  ShelfInv'
<1>1. /\ refresh \in [Editors -> EditorState] /\ rules \subseteq Rules /\ members \subseteq Products
      /\ \A b \in Editors : refresh[b].at = "idle" => refresh[b] = Collections!Idle
  BY DEF ShelfInv, ShelfTypes
<1>2. UNCHANGED <<rules, members, seen, byhand, failed>>
  BY DEF Collections!ReadRules, Collections!ReadProducts, Collections!DeleteNonMatching
<1>3. PICK old : old = refresh[a]
  OBVIOUS
<1>4. old \in EditorState
  BY <1>1, <1>3
<1>5. ASSUME NEW CONSTANT job \in EditorState, refresh' = [refresh EXCEPT ![a] = job], job.at # "idle",
             refresh[a].at # "idle", Underway(a) => job.at \in {"products", "delete", "insert"} /\ job.rules = rules,
             job.at = "insert" => members \subseteq job.found \cup job.gone
      PROVE  ShelfInv'
  <2>1. ShelfTypes'
    BY <1>1, <1>2, <1>5 DEF ShelfTypes
  <2>2. FoundAreMembers'
    BY <1>2 DEF ShelfInv, FoundAreMembers
  <2>3. FirstCoversMembers'
    BY <1>1, <1>2, <1>5 DEF ShelfInv, FirstCoversMembers
  <2>4. \A b \in Editors : Underway(b) => Underway(b)'
    BY <1>1, <1>2, <1>5 DEF Underway
  <2>5. RulesAreUnderway'
    BY <1>1, <1>2, <1>5, <2>4 DEF ShelfInv, RulesAreUnderway
  <2>6. QED BY <2>1, <2>2, <2>3, <2>5 DEF ShelfInv
<1>6. CASE Collections!ReadRules(a)
  <2>1. PICK at \in {"delete", "products"} : at = IF rules = {} THEN "delete" ELSE "products"
    OBVIOUS
  <2>2. PICK step : step = [old EXCEPT !.at = at]
    OBVIOUS
  <2>3. PICK job : job = [step EXCEPT !.rules = rules]
    OBVIOUS
  <2>4. step \in EditorState /\ step.at = at
    BY <1>4, <2>2 DEF EditorState
  <2>5. job \in EditorState /\ job.at = at /\ job.rules = rules
    <3>1. PICK set \in SUBSET Rules : set = rules
      BY <1>1
    <3>2. job = [step EXCEPT !.rules = set]
      BY <2>3, <3>1
    <3>3. QED BY <2>4, <3>1, <3>2 DEF EditorState
  <2>6. refresh' = [refresh EXCEPT ![a] = job] /\ refresh[a].at = "rules"
    <3>1. /\ refresh' = [refresh EXCEPT ![a] = [[old EXCEPT !.at = at] EXCEPT !.rules = rules]]
          /\ refresh[a].at = "rules"
      BY <1>1, <1>3, <1>6, <2>1 DEF Collections!ReadRules
    <3>2. QED BY <2>2, <2>3, <3>1
  <2>7. QED BY <1>5, <2>5, <2>6
<1>7. CASE Collections!ReadProducts(a)
  <2>1. PICK found \in SUBSET Products : found = Collections!Matching(refresh[a].rules)
    BY DEF Collections!Matching
  <2>2. PICK step : step = [old EXCEPT !.at = "delete"]
    OBVIOUS
  <2>3. PICK job : job = [step EXCEPT !.found = found]
    OBVIOUS
  <2>4. step \in EditorState /\ step.at = "delete" /\ step.rules = old.rules
    BY <1>4, <2>2 DEF EditorState
  <2>5. job \in EditorState /\ job.at = "delete" /\ job.rules = old.rules
    BY <2>3, <2>4 DEF EditorState
  <2>6. refresh' = [refresh EXCEPT ![a] = job] /\ old.at = "products"
    <3>1. /\ refresh' = [refresh EXCEPT ![a] = [[old EXCEPT !.at = "delete"] EXCEPT !.found = found]]
          /\ old.at = "products"
      BY <1>1, <1>3, <1>7, <2>1 DEF Collections!ReadProducts
    <3>2. QED BY <2>2, <2>3, <3>1
  <2>7. QED BY <1>3, <1>5, <2>5, <2>6 DEF Underway
<1>8. CASE Collections!DeleteNonMatching(a)
  <2>1. PICK gone \in SUBSET Products : gone = members \ refresh[a].found
    BY <1>1
  <2>2. PICK step : step = [old EXCEPT !.at = "insert"]
    OBVIOUS
  <2>3. PICK job : job = [step EXCEPT !.gone = gone]
    OBVIOUS
  <2>4. step \in EditorState /\ step.at = "insert" /\ step.rules = old.rules /\ step.found = old.found
    BY <1>4, <2>2 DEF EditorState
  <2>5. /\ job \in EditorState /\ job.at = "insert" /\ job.rules = old.rules
        /\ members \subseteq job.found \cup job.gone
    BY <1>3, <2>1, <2>3, <2>4 DEF EditorState
  <2>6. refresh' = [refresh EXCEPT ![a] = job] /\ old.at = "delete"
    <3>1. /\ refresh' = [refresh EXCEPT ![a] = [[old EXCEPT !.at = "insert"] EXCEPT !.gone = gone]]
          /\ old.at = "delete"
      BY <1>1, <1>3, <1>8, <2>1 DEF Collections!DeleteNonMatching
    <3>2. QED BY <2>2, <2>3, <3>1
  <2>7. QED BY <1>3, <1>5, <2>5, <2>6 DEF Underway
<1>9. QED BY <1>6, <1>7, <1>8

\* The commit: what was found is in, and what none had found, if it was in, was deleted.
LEMMA CommitStep ==
  ASSUME ShelfInv, NEW CONSTANT a \in Editors, Collections!InsertMatching(a)
  PROVE  ShelfInv'
<1>1. /\ refresh \in [Editors -> EditorState] /\ rules \subseteq Rules /\ members \subseteq Products
      /\ \A b \in Editors : refresh[b].at = "idle" => refresh[b] = Collections!Idle
  BY DEF ShelfInv, ShelfTypes
<1>2. PICK job \in EditorState : job = refresh[a]
  BY <1>1
<1>3. PICK done : done = [rules |-> job.rules, found |-> job.found]
  OBVIOUS
<1>4. PICK idle : idle = Collections!Idle
  OBVIOUS
<1>5. idle \in EditorState /\ idle.at = "idle"
  BY <1>4 DEF Collections!Idle, EditorState
<1>6. /\ job.at = "insert" /\ members' = (members \ job.gone) \cup job.found
      /\ seen' = seen \cup {done} /\ refresh' = [refresh EXCEPT ![a] = idle]
      /\ UNCHANGED <<rules, byhand, failed>>
  BY <1>2, <1>3, <1>4 DEF Collections!InsertMatching
<1>7. done.found = job.found /\ done.rules = job.rules /\ job.found \subseteq Products
  BY <1>2, <1>3 DEF EditorState
<1>8. ShelfTypes'
  BY <1>1, <1>4, <1>5, <1>6, <1>7 DEF ShelfTypes
<1>9. FoundAreMembers'
  <2>1. ASSUME NEW p \in Products \ byhand, \A s \in seen' : p \in s.found PROVE p \in members'
    BY <1>6, <1>7, <2>1
  <2>2. ASSUME NEW p \in Products \ byhand, \A s \in seen' : p \notin s.found PROVE p \notin members'
    <3>1. p \notin job.found
      BY <1>6, <1>7, <2>2
    <3>2. CASE seen = {}
      <4>1. p \in members => p \in job.gone
        BY <1>2, <1>6, <3>1, <3>2 DEF ShelfInv, FirstCoversMembers
      <4>2. QED BY <1>6, <3>1, <4>1
    <3>3. CASE seen # {}
      <4>1. p \notin members
        BY <1>6, <2>2, <3>3 DEF ShelfInv, FoundAreMembers
      <4>2. QED BY <1>6, <3>1, <4>1
    <3>4. QED BY <3>2, <3>3
  <2>3. QED BY <1>6, <2>1, <2>2 DEF FoundAreMembers
<1>10. FirstCoversMembers'
  BY <1>6 DEF FirstCoversMembers
<1>11. RulesAreUnderway'
  <2>1. Underway(a) => \E s \in seen' : s.rules = rules
    BY <1>2, <1>6, <1>7 DEF Underway
  <2>2. \A b \in Editors \ {a} : Underway(b) => Underway(b)'
    BY <1>1, <1>6 DEF Underway
  <2>3. refresh[a].at # "idle"
    BY <1>2, <1>6
  <2>4. QED BY <1>6, <2>1, <2>2, <2>3 DEF ShelfInv, RulesAreUnderway
<1>12. QED BY <1>8, <1>9, <1>10, <1>11 DEF ShelfInv

LEMMA FailStep ==
  ASSUME ShelfInv, NEW CONSTANT a \in Editors, Collections!RefreshFails(a)
  PROVE  ShelfInv'
<1>1. refresh \in [Editors -> EditorState]
  BY DEF ShelfInv, ShelfTypes
<1>2. PICK idle : idle = Collections!Idle
  OBVIOUS
<1>3. idle \in EditorState /\ idle.at = "idle"
  BY <1>2 DEF Collections!Idle, EditorState
<1>4. /\ refresh' = [refresh EXCEPT ![a] = idle] /\ failed'
      /\ UNCHANGED <<rules, members, seen, byhand>>
  BY <1>2 DEF Collections!RefreshFails
<1>5. ShelfTypes'
  BY <1>1, <1>2, <1>3, <1>4 DEF ShelfInv, ShelfTypes
<1>6. FirstCoversMembers'
  BY <1>1, <1>3, <1>4 DEF ShelfInv, FirstCoversMembers
<1>7. FoundAreMembers' /\ RulesAreUnderway'
  BY <1>4 DEF ShelfInv, FoundAreMembers, RulesAreUnderway
<1>8. QED BY <1>5, <1>6, <1>7 DEF ShelfInv

LEMMA ShelfStepped == ShelfInv /\ [Next]_vars => ShelfInv'
<1> SUFFICES ASSUME ShelfInv, [Next]_vars PROVE ShelfInv'
  OBVIOUS
<1>1. CASE UNCHANGED collections
  <2>1. UNCHANGED <<rules, members, refresh, seen, byhand, failed>>
    BY <1>1 DEF collections
  <2>2. QED BY <2>1
    DEF ShelfInv, ShelfTypes, FoundAreMembers, FirstCoversMembers, RulesAreUnderway, Underway
<1>2. ASSUME NEW p \in Products,
             \/ Collections!DeleteProduct(p) \/ Collections!AddProductToCollection(p)
             \/ Collections!RemoveProductFromCollection(p)
             \/ \E status \in {"active", "draft"}, satisfies \in SUBSET Rules :
                   Collections!UpdateProduct(p, status, satisfies)
      PROVE  ShelfInv'
  BY <1>2, HandStep
<1>3. ASSUME NEW CONSTANT a \in Editors, NEW CONSTANT r \in Rules,
             Collections!AddCollectionRule(a, r) \/ Collections!DeleteCollectionRule(a, r)
      PROVE  ShelfInv'
  <2>1. PICK more \in SUBSET Rules : more = rules \cup {r}
    BY DEF ShelfInv, ShelfTypes
  <2>2. PICK less \in SUBSET Rules : less = rules \ {r}
    BY DEF ShelfInv, ShelfTypes
  <2>3. Collections!Changed(a, more) \/ Collections!Changed(a, less)
    BY <1>3, <2>1, <2>2 DEF Collections!AddCollectionRule, Collections!DeleteCollectionRule
  <2>4. QED BY <2>3, ChangedStep
<1>4. CASE Collections!Next
  BY <1>2, <1>3, <1>4, RefreshStep, CommitStep, FailStep DEF Collections!Next
<1>5. QED BY <1>1, <1>4, ShelfFrame

\* Refreshes that overlap leave a product in that all of them found and out that none did, and
\* the rules of now are not forgotten: the members answer to a refresh that has read them.
THEOREM MembersFollowRules == Spec => []RulesReachMembers
<1>1. ShelfInv => RulesReachMembers
  <2> SUFFICES ASSUME ShelfInv PROVE RulesReachMembers
    OBVIOUS
  <2>1. ASSUME Collections!Busy = {}, ~failed PROVE (rules = {} /\ seen = {}) \/ \E s \in seen : s.rules = rules
    <3>1. \A a \in Editors : refresh[a] = Collections!Idle
      BY <2>1 DEF Collections!Busy
    <3>2. \A a \in Editors : ~Underway(a)
      BY <3>1 DEF Underway, Collections!Idle
    <3>3. QED BY <2>1, <3>2 DEF ShelfInv, RulesAreUnderway
  <2>2. QED BY <2>1 DEF ShelfInv, FoundAreMembers, RulesReachMembers, Collections!RulesReachMembers
<1>2. QED BY <1>1, ShelfBegins, ShelfStepped, PTL DEF Spec

-----------------------------------------------------------------------------
(* Imports.                                                                *)

RowOrNone == CsvRows \cup {None}
ImportState == [at : {"idle", "update", "insert", "find", "write"}, row : RowOrNone,
                of : Nat \cup {None}, new : BOOLEAN, found : Nat \cup {None}]
VariantRow == [id : Nat, sku : {row.sku : row \in CsvRows} \cup {None},
               title : {row.title : row \in CsvRows}, imported : BOOLEAN, stock : RowOrNone]
ReportRow == [created : Nat, updated : Nat, skipped : Nat, rows : Nat]

ImportTypes ==
    /\ shelf \in Nat \cup {None} /\ next \in Nat
    /\ variants \subseteq VariantRow
    /\ \A v \in variants : v.id < next
    /\ \A v \in variants : \A w \in variants : v.id = w.id => v = w
    /\ import \in [Imports -> ImportState] /\ report \in [Imports -> ReportRow]
    /\ \A i \in Imports : /\ import[i].at = "idle" => import[i] = Csv!Idle
                          /\ import[i].at # "idle" => import[i].row \in CsvRows

\* Between the lock and the commit there is one import.
OneAtATime == \A i \in Imports : import[i].at \in {"find", "write"} => lock = i

\* What a search has found, or not found, is still so when it is acted upon.
StillSo(job, vs) ==
    job.at = "write" =>
        \A v \in vs : v.imported =>
            IF job.found = None THEN ~Csv!Matches(v, job.row)
            ELSE v.id = job.found => Csv!Matches(v, job.row)
FoundStill == \A i \in Imports : StillSo(import[i], variants)

OnePerKey ==
    \A v \in variants : \A w \in variants :
        v # w /\ v.imported /\ w.imported /\ v.sku = w.sku => v.sku = None /\ v.title # w.title

Counted(r, job) == r.created + r.updated + r.skipped = r.rows - (IF job.at = "idle" THEN 0 ELSE 1)
ReportsAddUp == \A i \in Imports : Counted(report[i], import[i])

ImportInv == ImportTypes /\ OneAtATime /\ FoundStill /\ OnePerKey /\ ReportsAddUp

LEMMA ImportBegins == Init => ImportInv
<1> SUFFICES ASSUME Init PROVE ImportInv
  OBVIOUS
<1>1. shelf \in {None, 0}
  <2>1. Csv!Init
    BY DEF Init
  <2>2. QED BY <2>1 DEF Csv!Init
<1>2. PICK idle : idle = Csv!Idle
  OBVIOUS
<1>3. PICK empty : empty = [created |-> 0, updated |-> 0, skipped |-> 0, rows |-> 0]
  OBVIOUS
<1>4. /\ variants = {} /\ lock = None /\ next = 1 /\ import = [i \in Imports |-> idle]
      /\ report = [i \in Imports |-> empty]
  BY <1>2, <1>3 DEF Init, Csv!Init
<1>5. idle \in ImportState /\ idle.at = "idle"
  BY <1>2 DEF Csv!Idle, ImportState, RowOrNone
<1>6. empty \in ReportRow /\ Counted(empty, idle)
  BY <1>3, <1>5 DEF ReportRow, Counted
<1>7. ImportTypes
  BY <1>1, <1>2, <1>4, <1>5, <1>6 DEF ImportTypes
<1>8. OneAtATime /\ FoundStill /\ OnePerKey /\ ReportsAddUp
  BY <1>4, <1>5, <1>6 DEF OneAtATime, FoundStill, StillSo, OnePerKey, ReportsAddUp
<1>9. QED BY <1>7, <1>8 DEF ImportInv

\* An administrator makes no variant that counts as imported.
LEMMA AdminStep ==
  ASSUME ImportInv,
         \/ Csv!CreateProduct \/ Csv!DeleteProduct
         \/ \E row \in CsvRows : Csv!CreateVariant(row)
         \/ \E v \in variants : Csv!DeleteVariant(v) \/ \E row \in CsvRows : Csv!EditVariant(v, row)
  PROVE  ImportInv'
<1>1. ImportTypes /\ OneAtATime /\ FoundStill /\ OnePerKey /\ ReportsAddUp
  BY DEF ImportInv
<1>2. UNCHANGED <<import, lock, report>>
  BY DEF Csv!CreateProduct, Csv!DeleteProduct, Csv!CreateVariant, Csv!DeleteVariant, Csv!EditVariant
<1>3. ASSUME NEW vs, variants' = vs, vs \subseteq VariantRow, \A v \in vs : v.imported => v \in variants,
             \A v \in vs : v.id < next', \A v \in vs : \A w \in vs : v.id = w.id => v = w,
             shelf' \in Nat \cup {None}, next' \in Nat
      PROVE  ImportInv'
  <2>1. ImportTypes'
    BY <1>1, <1>2, <1>3 DEF ImportTypes
  <2>2. \A i \in Imports : StillSo(import[i], vs)
    BY <1>1, <1>3 DEF FoundStill, StillSo
  <2>3. FoundStill'
    BY <1>2, <1>3, <2>2 DEF FoundStill
  <2>4. OnePerKey'
    BY <1>1, <1>3 DEF OnePerKey
  <2>5. OneAtATime' /\ ReportsAddUp'
    BY <1>1, <1>2 DEF OneAtATime, ReportsAddUp
  <2>6. QED BY <2>1, <2>3, <2>4, <2>5 DEF ImportInv
<1>4. CASE Csv!CreateProduct \/ Csv!DeleteProduct
  <2>1. /\ variants' \subseteq variants /\ next' \in {next, next + 1} /\ shelf' \in {next, None}
    BY <1>4 DEF Csv!CreateProduct, Csv!DeleteProduct
  <2>2. PICK vs : vs = variants'
    OBVIOUS
  <2>3. next' \in Nat /\ next <= next' /\ shelf' \in Nat \cup {None}
    BY <1>1, <2>1 DEF ImportTypes
  <2>4. \A v \in variants : v.id \in Nat /\ v.id < next /\ next \in Nat
    BY <1>1 DEF ImportTypes, VariantRow
  <2>5. \A v \in vs : v.id < next'
    BY <2>1, <2>2, <2>3, <2>4
  <2>6. QED BY <1>1, <1>3, <2>1, <2>2, <2>3, <2>5 DEF ImportTypes
<1>5. ASSUME NEW row \in CsvRows, Csv!CreateVariant(row) PROVE ImportInv'
  <2>1. PICK made : made = [id |-> next, sku |-> row.sku, title |-> row.title, imported |-> FALSE, stock |-> None]
    OBVIOUS
  <2>2. PICK vs : vs = variants \cup {made}
    OBVIOUS
  <2>3. variants' = vs /\ next' = next + 1 /\ shelf' = shelf
    BY <1>5, <2>1, <2>2 DEF Csv!CreateVariant
  <2>4. made \in VariantRow /\ made.id = next /\ ~made.imported
    BY <1>1, <2>1 DEF ImportTypes, VariantRow, RowOrNone
  <2>5. \A v \in variants : v.id \in Nat /\ v.id < next /\ next \in Nat
    BY <1>1 DEF ImportTypes, VariantRow
  <2>6. \A v \in vs : v.id < next'
    BY <1>1, <2>2, <2>3, <2>4, <2>5 DEF ImportTypes
  <2>7. \A v \in vs : \A w \in vs : v.id = w.id => v = w
    BY <1>1, <2>2, <2>4, <2>5 DEF ImportTypes
  <2>8. next' \in Nat /\ shelf' \in Nat \cup {None} /\ vs \subseteq VariantRow
    BY <1>1, <2>2, <2>3, <2>4 DEF ImportTypes
  <2>9. QED BY <1>3, <2>2, <2>3, <2>4, <2>6, <2>7, <2>8
<1>6. ASSUME NEW v \in variants, Csv!DeleteVariant(v) PROVE ImportInv'
  <2>1. PICK vs : vs = variants \ {v}
    OBVIOUS
  <2>2. variants' = vs /\ UNCHANGED <<next, shelf>>
    BY <1>6, <2>1 DEF Csv!DeleteVariant
  <2>3. QED BY <1>1, <1>3, <2>1, <2>2 DEF ImportTypes
<1>7. ASSUME NEW v \in variants, NEW row \in CsvRows, Csv!EditVariant(v, row) PROVE ImportInv'
  <2>1. PICK made : made = [id |-> v.id, sku |-> IF row.sku = None THEN v.sku ELSE row.sku, title |-> row.title,
                            imported |-> FALSE, stock |-> v.stock]
    OBVIOUS
  <2>2. PICK vs : vs = (variants \ {v}) \cup {made}
    OBVIOUS
  <2>3. variants' = vs /\ UNCHANGED <<next, shelf>>
    BY <1>7, <2>1, <2>2 DEF Csv!EditVariant
  <2>4. made \in VariantRow /\ made.id = v.id /\ ~made.imported
    BY <1>1, <2>1 DEF ImportTypes, VariantRow
  <2>5. \A u \in vs : \A w \in vs : u.id = w.id => u = w
    BY <1>1, <2>2, <2>4 DEF ImportTypes
  <2>6. vs \subseteq VariantRow /\ \A u \in vs : u.id < next
    BY <1>1, <2>2, <2>4 DEF ImportTypes
  <2>7. QED BY <1>1, <1>3, <2>2, <2>3, <2>4, <2>5, <2>6 DEF ImportTypes
<1>8. QED BY <1>4, <1>5, <1>6, <1>7

\* A row goes on, with the variants as they are.
LEMMA GoesOn ==
  ASSUME ImportInv, NEW CONSTANT i \in Imports, NEW CONSTANT job \in ImportState,
         import' = [import EXCEPT ![i] = job], UNCHANGED <<variants, report>>,
         shelf' \in Nat \cup {None}, next' \in {next, next + 1},
         import[i].at # "idle", job.at # "idle", job.row \in CsvRows,
         lock' = lock \/ (lock = None /\ lock' = i), job.at \in {"find", "write"} => lock' = i,
         StillSo(job, variants)
  PROVE  ImportInv'
<1>1. ImportTypes /\ OneAtATime /\ FoundStill /\ OnePerKey /\ ReportsAddUp
  BY DEF ImportInv
<1>2. /\ import \in [Imports -> ImportState] /\ next \in Nat
      /\ \A v \in variants : v.id \in Nat /\ v.id < next
  BY <1>1 DEF ImportTypes, VariantRow
<1>3. next' \in Nat /\ \A v \in variants : v.id < next'
  BY <1>2
<1>4. ImportTypes'
  BY <1>1, <1>3 DEF ImportTypes
<1>5. None \notin Imports
  BY NoneAssumption
<1>6. OneAtATime'
  BY <1>1, <1>2, <1>5 DEF OneAtATime
<1>7. FoundStill'
  BY <1>1, <1>2 DEF FoundStill
<1>8. \A j \in Imports : Counted(report[j], import'[j])
  <2>1. Counted(report[i], job)
    BY <1>1 DEF ReportsAddUp, Counted
  <2>2. QED BY <1>1, <1>2, <2>1 DEF ReportsAddUp
<1>9. ReportsAddUp' /\ OnePerKey'
  BY <1>1, <1>8 DEF ReportsAddUp, OnePerKey
<1>10. QED BY <1>4, <1>6, <1>7, <1>9 DEF ImportInv

\* A row takes the lock of its product, or of its slug, and searches.
LEMMA RowStep ==
  ASSUME ImportInv, NEW CONSTANT i \in Imports,
         Csv!UpdateProduct(i) \/ Csv!InsertProduct(i) \/ Csv!FindVariant(i)
  PROVE  ImportInv'
<1>1. ImportTypes /\ OneAtATime
  BY DEF ImportInv
<1>2. PICK old \in ImportState : old = import[i]
  BY <1>1 DEF ImportTypes
<1>3. import \in [Imports -> ImportState] /\ next \in Nat
  BY <1>1 DEF ImportTypes
<1>4. CASE Csv!UpdateProduct(i)
  <2>1. PICK job : job = [old EXCEPT !.at = "find"]
    OBVIOUS
  <2>2. /\ old.at = "update" /\ lock = None /\ lock' = i /\ import' = [import EXCEPT ![i] = job]
        /\ UNCHANGED <<variants, report, shelf, next>>
    BY <1>2, <1>3, <1>4, <2>1 DEF Csv!UpdateProduct
  <2>3. old.row \in CsvRows
    BY <1>1, <1>2, <2>2 DEF ImportTypes
  <2>4. job \in ImportState /\ job.at = "find" /\ job.row \in CsvRows
    BY <1>2, <2>1, <2>3 DEF ImportState
  <2>5. shelf' \in Nat \cup {None}
    BY <1>1, <2>2 DEF ImportTypes
  <2>6. QED BY <1>2, <2>2, <2>4, <2>5, GoesOn DEF StillSo
<1>5. CASE Csv!InsertProduct(i)
  <2>1. PICK id \in Nat : id = next
    BY <1>3
  <2>2. PICK one : one = [old EXCEPT !.at = "find"]
    OBVIOUS
  <2>3. PICK two : two = [one EXCEPT !.new = TRUE]
    OBVIOUS
  <2>4. PICK job : job = [two EXCEPT !.of = id]
    OBVIOUS
  <2>5. import' = [import EXCEPT ![i] = [[[old EXCEPT !.at = "find"] EXCEPT !.new = TRUE] EXCEPT !.of = id]]
    BY <1>2, <1>3, <1>5, <2>1 DEF Csv!InsertProduct
  <2>6. /\ old.at = "insert" /\ lock = None /\ lock' = i /\ import' = [import EXCEPT ![i] = job]
        /\ next' = next + 1 /\ UNCHANGED <<variants, report, shelf>>
    BY <1>2, <1>5, <2>2, <2>3, <2>4, <2>5 DEF Csv!InsertProduct
  <2>7. old.row \in CsvRows
    BY <1>1, <1>2, <2>6 DEF ImportTypes
  <2>8. one \in ImportState /\ one.at = "find" /\ one.row \in CsvRows
    BY <1>2, <2>2, <2>7 DEF ImportState
  <2>9. two \in ImportState /\ two.at = "find" /\ two.row \in CsvRows
    BY <2>3, <2>8 DEF ImportState
  <2>10. job \in ImportState /\ job.at = "find" /\ job.row \in CsvRows
    BY <2>1, <2>4, <2>9 DEF ImportState
  <2>11. shelf' \in Nat \cup {None}
    BY <1>1, <2>6 DEF ImportTypes
  <2>12. QED BY <1>2, <2>6, <2>10, <2>11, GoesOn DEF StillSo
<1>6. CASE Csv!FindVariant(i)
  <2> DEFINE found == {v.id : v \in {w \in variants : Csv!Matches(w, import[i].row)}}
  <2>1. PICK id \in IF found = {} THEN {None} ELSE found :
            import' = [import EXCEPT ![i].at = "write", ![i].found = id]
    BY <1>6 DEF Csv!FindVariant
  <2>2. PICK one : one = [old EXCEPT !.at = "write"]
    OBVIOUS
  <2>3. PICK job : job = [one EXCEPT !.found = id]
    OBVIOUS
  <2>4. import' = [import EXCEPT ![i] = [[old EXCEPT !.at = "write"] EXCEPT !.found = id]]
    BY <1>2, <1>3, <2>1
  <2>5. /\ old.at = "find" /\ import' = [import EXCEPT ![i] = job]
        /\ UNCHANGED <<variants, report, shelf, next, lock>>
    BY <1>2, <1>6, <2>2, <2>3, <2>4 DEF Csv!FindVariant
  <2>6. lock = i /\ old.row \in CsvRows
    BY <1>1, <1>2, <2>5 DEF ImportTypes, OneAtATime
  <2>7. id \in Nat \cup {None}
    BY <1>1 DEF ImportTypes, VariantRow
  <2>8. one \in ImportState /\ one.at = "write" /\ one.row = old.row
    BY <1>2, <2>2 DEF ImportState
  <2>9. job \in ImportState /\ job.at = "write" /\ job.row = old.row /\ job.found = id
    BY <2>3, <2>7, <2>8 DEF ImportState
  <2>10. StillSo(job, variants)
    <3>1. CASE found = {}
      <4>1. id = None /\ \A v \in variants : ~Csv!Matches(v, old.row)
        BY <1>2, <3>1
      <4>2. QED BY <2>9, <4>1 DEF StillSo
    <3>2. CASE found # {}
      <4>1. PICK w \in variants : w.id = id /\ Csv!Matches(w, old.row)
        BY <1>2, <3>2
      <4>2. id \in Nat /\ id # None
        BY <1>1, <4>1, NoneAssumption DEF ImportTypes, VariantRow
      <4>3. \A v \in variants : v.id = id => v = w
        BY <1>1, <4>1 DEF ImportTypes
      <4>4. QED BY <2>9, <4>1, <4>2, <4>3 DEF StillSo
    <3>3. QED BY <3>1, <3>2
  <2>11. shelf' \in Nat \cup {None}
    BY <1>1, <2>5 DEF ImportTypes
  <2>12. QED BY <1>2, <2>5, <2>6, <2>9, <2>10, <2>11, GoesOn
<1>7. QED BY <1>4, <1>5, <1>6

\* A row that is started is counted, and is not done.
LEMMA StartStep ==
  ASSUME ImportInv, NEW CONSTANT i \in Imports, NEW CONSTANT row \in CsvRows, Csv!StartRow(i, row)
  PROVE  ImportInv'
<1>1. ImportTypes /\ OneAtATime /\ FoundStill /\ OnePerKey /\ ReportsAddUp
  BY DEF ImportInv
<1>2. import \in [Imports -> ImportState] /\ report \in [Imports -> ReportRow]
  BY <1>1 DEF ImportTypes
<1>3. PICK old \in ReportRow : old = report[i]
  BY <1>2
<1>4. PICK at \in {"update", "insert"} : at = IF shelf # None THEN "update" ELSE "insert"
  OBVIOUS
<1>5. PICK of \in Nat \cup {None} : of = shelf
  BY <1>1 DEF ImportTypes
<1>6. PICK idle : idle = Csv!Idle
  OBVIOUS
<1>7. PICK one : one = [idle EXCEPT !.at = at]
  OBVIOUS
<1>8. PICK two : two = [one EXCEPT !.row = row]
  OBVIOUS
<1>9. PICK job : job = [two EXCEPT !.of = of]
  OBVIOUS
<1>10. idle \in ImportState /\ idle.at = "idle"
  BY <1>6 DEF Csv!Idle, ImportState, RowOrNone
<1>11. one \in ImportState /\ one.at = at
  BY <1>7, <1>10 DEF ImportState
<1>12. two \in ImportState /\ two.at = at /\ two.row = row
  BY <1>8, <1>11 DEF ImportState, RowOrNone
<1>13. job \in ImportState /\ job.at = at /\ job.row = row
  BY <1>9, <1>12 DEF ImportState
<1>14. PICK more : more = [old EXCEPT !.rows = @ + 1]
  OBVIOUS
<1>15. /\ more \in ReportRow /\ more.rows = old.rows + 1
       /\ more.created = old.created /\ more.updated = old.updated /\ more.skipped = old.skipped
  BY <1>14 DEF ReportRow
<1>16. /\ import[i] = idle /\ report' = [report EXCEPT ![i] = more]
       /\ UNCHANGED <<variants, lock, shelf, next>>
  BY <1>2, <1>3, <1>6, <1>14 DEF Csv!StartRow
<1>17. import' = [import EXCEPT ![i] = job]
  <2>1. import' = [import EXCEPT ![i] = [[[idle EXCEPT !.at = at] EXCEPT !.row = row] EXCEPT !.of = of]]
    BY <1>4, <1>5, <1>6 DEF Csv!StartRow
  <2>2. QED BY <1>7, <1>8, <1>9, <2>1
<1>18. ImportTypes'
  BY <1>1, <1>2, <1>13, <1>15, <1>16, <1>17 DEF ImportTypes
<1>19. OneAtATime'
  BY <1>1, <1>2, <1>13, <1>16, <1>17 DEF OneAtATime
<1>20. FoundStill'
  BY <1>1, <1>2, <1>13, <1>16, <1>17 DEF FoundStill, StillSo
<1>21. OnePerKey'
  BY <1>1, <1>16 DEF OnePerKey
<1>22. ReportsAddUp'
  <2>1. Counted(old, idle)
    BY <1>1, <1>3, <1>16 DEF ReportsAddUp
  <2>2. Counted(more, job)
    BY <1>10, <1>13, <1>15, <2>1 DEF Counted, ReportRow
  <2>3. QED BY <1>1, <1>2, <1>16, <1>17, <2>2 DEF ReportsAddUp
<1>23. QED BY <1>18, <1>19, <1>20, <1>21, <1>22 DEF ImportInv

\* A row is done: it is counted, and its transaction gives up the lock.
LEMMA RowEnds ==
  ASSUME ImportInv, NEW CONSTANT i \in Imports, NEW CONSTANT r \in ReportRow,
         import[i].at # "idle", import' = [import EXCEPT ![i] = Csv!Idle], lock' = Csv!Freed(i),
         report' = [report EXCEPT ![i] = r], r.rows = report[i].rows,
         r.created + r.updated + r.skipped = report[i].created + report[i].updated + report[i].skipped + 1,
         shelf' \in Nat \cup {None}, next' \in Nat, variants' \subseteq VariantRow,
         \A v \in variants' : v.id < next', \A v \in variants' : \A w \in variants' : v.id = w.id => v = w,
         UNCHANGED variants \/ lock = i, OnePerKey'
  PROVE  ImportInv'
<1>1. ImportTypes /\ OneAtATime /\ FoundStill /\ ReportsAddUp
  BY DEF ImportInv
<1>2. import \in [Imports -> ImportState] /\ report \in [Imports -> ReportRow]
  BY <1>1 DEF ImportTypes
<1>3. PICK idle : idle = Csv!Idle
  OBVIOUS
<1>4. idle \in ImportState /\ idle.at = "idle"
  BY <1>3 DEF Csv!Idle, ImportState, RowOrNone
<1>5. import' = [import EXCEPT ![i] = idle]
  BY <1>3
<1>6. ImportTypes'
  BY <1>1, <1>2, <1>3, <1>4, <1>5 DEF ImportTypes
<1>7. OneAtATime'
  BY <1>1, <1>2, <1>4, <1>5 DEF OneAtATime, Csv!Freed
<1>8. FoundStill'
  <2>1. ASSUME NEW j \in Imports PROVE StillSo(import'[j], variants')
    <3>1. CASE j = i
      BY <1>2, <1>4, <1>5, <3>1 DEF StillSo
    <3>2. CASE j # i /\ lock = i
      <4>1. import'[j] = import[j] /\ import[j].at # "write"
        BY <1>1, <1>2, <1>5, <3>2 DEF OneAtATime
      <4>2. QED BY <4>1 DEF StillSo
    <3>3. CASE j # i /\ UNCHANGED variants
      BY <1>1, <1>2, <1>5, <3>3 DEF FoundStill
    <3>4. QED BY <3>1, <3>2, <3>3
  <2>2. QED BY <2>1 DEF FoundStill
<1>9. ReportsAddUp'
  <2>1. Counted(report[i], import[i]) /\ report[i] \in ReportRow
    BY <1>1, <1>2 DEF ReportsAddUp
  <2>2. Counted(r, idle)
    BY <1>4, <2>1 DEF Counted, ReportRow
  <2>3. QED BY <1>1, <1>2, <1>5, <2>2 DEF ReportsAddUp
<1>10. QED BY <1>6, <1>7, <1>8, <1>9 DEF ImportInv

\* What a report adds to the counts.
LEMMA TallyAdds ==
  ASSUME NEW CONSTANT old \in ReportRow, NEW CONSTANT what, NEW CONSTANT r, r = Csv!Tally(old, what)
  PROVE  /\ r \in ReportRow /\ r.rows = old.rows
         /\ r.created + r.updated + r.skipped = old.created + old.updated + old.skipped + 1
<1>1. CASE what = "created"
  <2>1. r = [old EXCEPT !.created = @ + 1]
    BY <1>1 DEF Csv!Tally
  <2>2. QED BY <2>1 DEF ReportRow
<1>2. CASE what # "created"
  <2>1. r = [old EXCEPT !.updated = @ + 1]
    BY <1>2 DEF Csv!Tally
  <2>2. QED BY <2>1 DEF ReportRow
<1>3. QED BY <1>1, <1>2

LEMMA SkipStep ==
  ASSUME ImportInv, NEW CONSTANT i \in Imports, Csv!RowFails(i)
  PROVE  ImportInv'
<1>1. ImportTypes /\ OnePerKey
  BY DEF ImportInv
<1>2. report \in [Imports -> ReportRow]
  BY <1>1 DEF ImportTypes
<1>3. PICK old \in ReportRow : old = report[i]
  BY <1>2
<1>4. PICK r : r = [old EXCEPT !.skipped = @ + 1]
  OBVIOUS
<1>5. /\ r \in ReportRow /\ r.rows = old.rows
      /\ r.created + r.updated + r.skipped = old.created + old.updated + old.skipped + 1
  BY <1>4 DEF ReportRow
<1>6. /\ import[i] # Csv!Idle /\ import' = [import EXCEPT ![i] = Csv!Idle] /\ lock' = Csv!Freed(i)
      /\ report' = [report EXCEPT ![i] = r] /\ UNCHANGED <<shelf, variants, next>>
  BY <1>2, <1>3, <1>4 DEF Csv!RowFails
<1>7. import[i].at # "idle"
  BY <1>1, <1>6 DEF ImportTypes
<1>8. OnePerKey'
  BY <1>1, <1>6 DEF OnePerKey
<1>9. QED BY <1>1, <1>3, <1>5, <1>6, <1>7, <1>8, RowEnds DEF ImportTypes

\* The row that was found is updated: an imported variant keeps its SKU and, without one, its title.
LEMMA UpdateStep ==
  ASSUME ImportInv, NEW CONSTANT i \in Imports, Csv!UpdateVariant(i)
  PROVE  ImportInv'
<1>1. ImportTypes /\ OneAtATime /\ FoundStill /\ OnePerKey
  BY DEF ImportInv
<1>2. PICK job \in ImportState : job = import[i]
  BY <1>1 DEF ImportTypes
<1>3. PICK id : id = job.found
  OBVIOUS
<1>4. PICK row : row = job.row
  OBVIOUS
<1>5. job.at = "write" /\ id # None
  BY <1>2, <1>3 DEF Csv!UpdateVariant
<1>6. lock = i /\ row \in CsvRows
  BY <1>1, <1>2, <1>4, <1>5 DEF ImportTypes, OneAtATime
<1>7. /\ Csv!Report(i, "updated") /\ UNCHANGED <<shelf, next>>
      /\ variants' = {IF v.id = id THEN [v EXCEPT !.title = row.title, !.stock = Csv!Stock(row, @)] ELSE v :
                        v \in variants}
  BY <1>2, <1>3, <1>4 DEF Csv!UpdateVariant
<1>8. \A w \in variants' : \E v \in variants :
          /\ w \in VariantRow /\ w.id = v.id /\ w.sku = v.sku /\ w.imported = v.imported
          /\ v.id # id => w = v
          /\ w.title = v.title \/ (v.id = id /\ w.title = row.title)
  <2> SUFFICES ASSUME NEW w \in variants'
               PROVE  \E v \in variants :
                        /\ w \in VariantRow /\ w.id = v.id /\ w.sku = v.sku /\ w.imported = v.imported
                        /\ v.id # id => w = v
                        /\ w.title = v.title \/ (v.id = id /\ w.title = row.title)
    OBVIOUS
  <2>1. PICK v \in variants :
            w = IF v.id = id THEN [v EXCEPT !.title = row.title, !.stock = Csv!Stock(row, @)] ELSE v
    BY <1>7
  <2>2. v \in VariantRow
    BY <1>1 DEF ImportTypes
  <2>3. CASE v.id = id
    <3>1. PICK stock \in RowOrNone : stock = Csv!Stock(row, v.stock)
      BY <1>6, <2>2 DEF Csv!Stock, VariantRow, RowOrNone
    <3>2. PICK named : named = [v EXCEPT !.title = row.title]
      OBVIOUS
    <3>3. /\ named \in VariantRow /\ named.id = v.id /\ named.sku = v.sku
          /\ named.imported = v.imported /\ named.title = row.title
      BY <1>6, <2>2, <3>2 DEF VariantRow
    <3>4. w = [named EXCEPT !.stock = stock]
      BY <2>1, <2>2, <2>3, <3>1, <3>2 DEF VariantRow
    <3>5. /\ w \in VariantRow /\ w.id = v.id /\ w.sku = v.sku /\ w.imported = v.imported
          /\ w.title = row.title
      BY <3>1, <3>3, <3>4 DEF VariantRow
    <3>6. QED BY <2>3, <3>5, Zenon
  <2>4. CASE v.id # id
    BY <2>1, <2>2, <2>4
  <2>5. QED BY <2>3, <2>4
<1>9. variants' \subseteq VariantRow /\ \A w \in variants' : w.id < next
  BY <1>1, <1>8 DEF ImportTypes
<1>10. \A v \in variants' : \A w \in variants' : v.id = w.id => v = w
  <2> SUFFICES ASSUME NEW v \in variants', NEW w \in variants', v.id = w.id PROVE v = w
    OBVIOUS
  <2> DEFINE New(x) == IF x.id = id THEN [x EXCEPT !.title = row.title, !.stock = Csv!Stock(row, @)] ELSE x
  <2>1. PICK x \in variants : v = New(x)
    BY <1>7
  <2>2. PICK y \in variants : w = New(y)
    BY <1>7
  <2>3. New(x).id = x.id /\ New(y).id = y.id
    <3>1. x \in VariantRow /\ y \in VariantRow
      BY <1>1 DEF ImportTypes
    <3>2. QED BY <3>1 DEF VariantRow
  <2>4. x = y
    BY <1>1, <2>1, <2>2, <2>3 DEF ImportTypes
  <2>5. QED BY <2>1, <2>2, <2>4
<1>11. OnePerKey'
  <2> SUFFICES ASSUME NEW v \in variants', NEW w \in variants',
                      v # w, v.imported, w.imported, v.sku = w.sku
               PROVE  v.sku = None /\ v.title # w.title
    BY DEF OnePerKey
  <2>1. PICK x \in variants : /\ v.id = x.id /\ v.sku = x.sku /\ v.imported = x.imported
                              /\ v.title = x.title \/ (x.id = id /\ v.title = row.title)
    BY <1>8
  <2>2. PICK y \in variants : /\ w.id = y.id /\ w.sku = y.sku /\ w.imported = y.imported
                              /\ w.title = y.title \/ (y.id = id /\ w.title = row.title)
    BY <1>8
  <2>3. x # y
    BY <1>10, <2>1, <2>2
  <2>4. x.sku = None /\ y.sku = None /\ x.title # y.title
    BY <1>1, <2>1, <2>2, <2>3 DEF OnePerKey
  <2>5. \A z \in variants : z.imported /\ z.id = id => Csv!Matches(z, row)
    BY <1>1, <1>2, <1>3, <1>4, <1>5 DEF FoundStill, StillSo
  <2>6. \A z \in variants : z.imported /\ z.id = id /\ z.sku = None => z.title = row.title
    BY <2>5 DEF Csv!Matches
  <2>7. v.title = x.title /\ w.title = y.title
    BY <2>1, <2>2, <2>4, <2>6
  <2>8. QED BY <2>1, <2>4, <2>7
<1>12. PICK old \in ReportRow : old = report[i]
  BY <1>1 DEF ImportTypes
<1>13. PICK r : r = Csv!Tally(old, "updated")
  OBVIOUS
<1>14. /\ report' = [report EXCEPT ![i] = r] /\ import' = [import EXCEPT ![i] = Csv!Idle]
       /\ lock' = Csv!Freed(i)
  BY <1>7, <1>12, <1>13 DEF Csv!Report
<1>15. shelf' \in Nat \cup {None} /\ next' \in Nat /\ next' = next
  BY <1>1, <1>7 DEF ImportTypes
<1>16. QED BY <1>2, <1>5, <1>6, <1>9, <1>10, <1>11, <1>12, <1>13, <1>14, <1>15, TallyAdds, RowEnds

\* What was not found is inserted: no imported variant has its SKU or, without one, its title.
LEMMA InsertionStep ==
  ASSUME ImportInv, NEW CONSTANT i \in Imports, Csv!InsertVariant(i)
  PROVE  ImportInv'
<1>1. ImportTypes /\ OneAtATime /\ FoundStill /\ OnePerKey
  BY DEF ImportInv
<1>2. PICK job \in ImportState : job = import[i]
  BY <1>1 DEF ImportTypes
<1>3. PICK row : row = job.row
  OBVIOUS
<1>4. job.at = "write" /\ job.found = None
  BY <1>2 DEF Csv!InsertVariant
<1>5. lock = i /\ row \in CsvRows
  BY <1>1, <1>2, <1>3, <1>4 DEF ImportTypes, OneAtATime
<1>6. PICK made : made = [id |-> next, sku |-> row.sku, title |-> row.title, imported |-> TRUE,
                          stock |-> Csv!Stock(row, None)]
  OBVIOUS
<1>7. made \in VariantRow /\ made.id = next /\ made.sku = row.sku /\ made.title = row.title
  <2>1. Csv!Stock(row, None) \in RowOrNone /\ next \in Nat
    BY <1>1, <1>5 DEF Csv!Stock, RowOrNone, ImportTypes
  <2>2. QED BY <1>5, <1>6, <2>1 DEF VariantRow
<1>8. PICK what : what = IF job.new THEN "created" ELSE "updated"
  OBVIOUS
<1>9. variants' = variants \cup {made}
  BY <1>2, <1>3, <1>6 DEF Csv!InsertVariant
<1>10. next' = next + 1 /\ shelf' = job.of /\ Csv!Report(i, what)
  BY <1>2, <1>8 DEF Csv!InsertVariant
<1>11. \A v \in variants : v.id \in Nat /\ v.id < next /\ next \in Nat
  BY <1>1 DEF ImportTypes, VariantRow
<1>12. /\ variants' \subseteq VariantRow /\ \A v \in variants' : v.id < next'
       /\ \A v \in variants' : \A w \in variants' : v.id = w.id => v = w
  <2>1. variants' \subseteq VariantRow
    BY <1>1, <1>7, <1>9 DEF ImportTypes
  <2>2. \A v \in variants' : v.id < next'
    BY <1>1, <1>7, <1>9, <1>10, <1>11 DEF ImportTypes
  <2>3. \A v \in variants' : \A w \in variants' : v.id = w.id => v = w
    BY <1>1, <1>7, <1>9, <1>11 DEF ImportTypes
  <2>4. QED BY <2>1, <2>2, <2>3
<1>13. OnePerKey'
  <2>1. \A v \in variants : v.imported => ~Csv!Matches(v, row)
    BY <1>1, <1>2, <1>3, <1>4 DEF FoundStill, StillSo
  <2>2. \A v \in variants : v.imported /\ v.sku = row.sku => row.sku = None /\ v.title # row.title
    BY <2>1 DEF Csv!Matches
  <2>3. QED BY <1>1, <1>7, <1>9, <2>2 DEF OnePerKey
<1>14. PICK old \in ReportRow : old = report[i]
  BY <1>1 DEF ImportTypes
<1>15. PICK r : r = Csv!Tally(old, what)
  OBVIOUS
<1>16. /\ report' = [report EXCEPT ![i] = r] /\ import' = [import EXCEPT ![i] = Csv!Idle]
       /\ lock' = Csv!Freed(i)
  BY <1>10, <1>14, <1>15 DEF Csv!Report
<1>17. shelf' \in Nat \cup {None} /\ next' \in Nat
  BY <1>1, <1>2, <1>10 DEF ImportTypes, ImportState
<1>18. QED BY <1>2, <1>4, <1>5, <1>12, <1>13, <1>14, <1>15, <1>16, <1>17, TallyAdds, RowEnds

LEMMA ImportStepped == ImportInv /\ [Next]_vars => ImportInv'
<1> SUFFICES ASSUME ImportInv, [Next]_vars PROVE ImportInv'
  OBVIOUS
<1>1. CASE UNCHANGED imports
  <2>1. UNCHANGED <<shelf, variants, import, lock, report, next>>
    BY <1>1 DEF imports
  <2>2. QED BY <2>1
    DEF ImportInv, ImportTypes, OneAtATime, FoundStill, OnePerKey, ReportsAddUp
<1>2. ASSUME NEW CONSTANT i \in Imports,
             \/ Csv!UpdateProduct(i) \/ Csv!InsertProduct(i) \/ Csv!FindVariant(i)
             \/ Csv!InsertVariant(i) \/ Csv!UpdateVariant(i) \/ Csv!RowFails(i)
             \/ \E row \in CsvRows : Csv!StartRow(i, row)
      PROVE  ImportInv'
  BY <1>2, RowStep, InsertionStep, UpdateStep, SkipStep, StartStep
<1>3. CASE Csv!Next
  BY <1>2, <1>3, AdminStep DEF Csv!Next
<1>4. QED BY <1>1, <1>3, ShelfFrame

\* However imports and administrators interleave, imports do not insert a SKU twice, nor a title
\* twice without one, and a row that is done is counted once.
THEOREM ImportsAreDoneOnce == Spec => []ImportedOnce
<1>1. ImportInv => ImportedOnce
  <2> SUFFICES ASSUME ImportInv PROVE ImportedOnce
    OBVIOUS
  <2>1. ASSUME NEW i \in Imports
        PROVE  report[i].created + report[i].updated + report[i].skipped
                   = report[i].rows - (IF import[i] = Csv!Idle THEN 0 ELSE 1)
    <3>1. import[i] = Csv!Idle <=> import[i].at = "idle"
      BY DEF ImportInv, ImportTypes, Csv!Idle
    <3>2. QED BY <3>1 DEF ImportInv, ReportsAddUp, Counted
  <2>2. QED BY <2>1 DEF ImportInv, OnePerKey, ImportedOnce, Csv!ImportedOnce
<1>2. QED BY <1>1, ImportBegins, ImportStepped, PTL DEF Spec

=============================================================================
