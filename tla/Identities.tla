----------------------------- MODULE Identities -----------------------------
(***************************************************************************)
(* The customers of a store that demands a verified email, and the ways to *)
(* sign in: a password, a mailed link, an invitation, a provider that      *)
(* vouches for an email.  A handler looks a customer up, and inserts or    *)
(* updates the row in another statement; no transaction spans the two.     *)
(* The two statements that use up a token and act on it are one step, and  *)
(* so are an insertion and the mail that follows it; what only refuses     *)
(* (blocked, locked, expired) is left out.  Sessions begin here and are    *)
(* the subject of Sessions.                                                *)
(***************************************************************************)
EXTENDS Naturals

CONSTANTS Emails, Requests, MaxRows, MaxInvites, None

VARIABLES customer,   \* the row of customers that has the email
          lastId,     \* ids are never used again
          mailed,     \* <<kind, id>>: a token nobody has used
          invitation, \* by email: how many were sent, and whether the last is accepted
          req,        \* [at, email, id]: what a request does next, and for whom
          proven,     \* the ids whose mailbox, or provider, has answered
          signedIn    \* the ids a session was issued for

\* provider stands for the column of the one provider a customer signs in with
NoRow == [id |-> 0, password |-> FALSE, verified |-> FALSE, provider |-> None]
Ready == [at |-> "ready", email |-> None, id |-> 0]

Init ==
    /\ customer = [e \in Emails |-> NoRow]
    /\ lastId = 0
    /\ mailed = {}
    /\ invitation = [e \in Emails |-> [sent |-> 0, accepted |-> FALSE]]
    /\ req = [r \in Requests |-> Ready]
    /\ proven = {} /\ signedIn = {}

Exists(id) == \E e \in Emails : customer[e].id = id
Goes(r, where, email, id) == req' = [req EXCEPT ![r] = [at |-> where, email |-> email, id |-> id]]
Ends(r) == req' = [req EXCEPT ![r] = Ready]

\* INSERT INTO customers, where (store_id, email) is unique
Insert(e, row) ==
    /\ customer[e].id = 0 /\ lastId < MaxRows
    /\ customer' = [customer EXCEPT ![e] = [row EXCEPT !.id = lastId + 1]]
    /\ lastId' = lastId + 1

\* The columns a handler sets: flags, and the provider that vouches, if one does
Written(row, flags, by) ==
    [row EXCEPT !.password = @ \/ "password" \in flags, !.verified = @ \/ "verified" \in flags,
                !.provider = IF by = None THEN @ ELSE by]

\* UPDATE customers SET .. WHERE id: changes nothing when the customer has been deleted
Update(id, flags, by) ==
    customer' = [e \in Emails |-> IF customer[e].id = id THEN Written(customer[e], flags, by) ELSE customer[e]]

\* The email is looked up, and free; an email that is taken is refused
StartRegistering(r, e) ==
    /\ req[r] = Ready /\ customer[e].id = 0
    /\ Goes(r, "register", e, 0)
    /\ UNCHANGED <<customer, lastId, mailed, invitation, proven, signedIn>>

RegisterCustomer(r) ==
    /\ req[r].at = "register"
    /\ \/ /\ Insert(req[r].email, [NoRow EXCEPT !.password = TRUE])
          /\ mailed' = mailed \cup {<<"verify", lastId'>>}
       \/ /\ customer[req[r].email].id # 0
          /\ UNCHANGED <<customer, lastId, mailed>>
    /\ Ends(r)
    /\ UNCHANGED <<invitation, proven, signedIn>>

\* A verification is mailed again, or a password reset, or a link to a customer who exists
Mail(kind, e) ==
    /\ customer[e].id # 0
    /\ kind = "verify" => ~customer[e].verified
    /\ mailed' = mailed \cup {<<kind, customer[e].id>>}
    /\ UNCHANGED <<customer, lastId, invitation, req, proven, signedIn>>

StartMagicLink(r, e) ==
    /\ req[r] = Ready /\ customer[e].id = 0
    /\ Goes(r, "link", e, 0)
    /\ UNCHANGED <<customer, lastId, mailed, invitation, proven, signedIn>>

\* A customer made for a link is verified from the start, and has no password
SendMagicLink(r) ==
    /\ req[r].at = "link"
    /\ \/ /\ Insert(req[r].email, [NoRow EXCEPT !.verified = TRUE])
          /\ mailed' = mailed \cup {<<"magic", lastId'>>}
       \/ /\ customer[req[r].email].id # 0
          /\ UNCHANGED <<customer, lastId, mailed>>
    /\ Ends(r)
    /\ UNCHANGED <<invitation, proven, signedIn>>

\* Whoever presents a token has read the mail; another request may read the token too
ReadToken(r, kind, id) ==
    /\ req[r] = Ready /\ <<kind, id>> \in mailed
    /\ Goes(r, kind, None, id)
    /\ proven' = proven \cup {id}
    /\ UNCHANGED <<customer, lastId, mailed, invitation, signedIn>>

VerifyEmail(r) ==
    /\ req[r].at \in {"verify", "magic"}
    /\ Update(req[r].id, {"verified"}, None)
    /\ mailed' = mailed \ {<<req[r].at, req[r].id>>}
    /\ IF req[r].at = "magic" THEN Goes(r, "session", None, req[r].id) ELSE Ends(r)
    /\ UNCHANGED <<lastId, invitation, proven, signedIn>>

CompletePasswordReset(r) ==
    /\ req[r].at = "reset"
    /\ Update(req[r].id, {"password"}, None)
    /\ mailed' = mailed \ {<<"reset", req[r].id>>}
    /\ Ends(r)
    /\ UNCHANGED <<lastId, invitation, proven, signedIn>>

\* An invitation sent again replaces the one before
CreateInvitation(e) ==
    /\ invitation[e].sent < MaxInvites
    /\ invitation' = [invitation EXCEPT ![e] = [sent |-> @.sent + 1, accepted |-> FALSE]]
    /\ UNCHANGED <<customer, lastId, mailed, req, proven, signedIn>>

\* The invitation is read, and then the customer
ReadInvitation(r, e) ==
    /\ req[r] = Ready
    /\ invitation[e].sent > 0 /\ ~invitation[e].accepted
    /\ Goes(r, "accept", e, customer[e].id)
    /\ UNCHANGED <<customer, lastId, mailed, invitation, proven, signedIn>>

\* A provider vouches for e: its customer is found by the provider's id, else by the email
OauthLogin(r, e) ==
    LET known == {f \in Emails : customer[f].provider = e}
        found == IF known # {} THEN CHOOSE f \in known : TRUE ELSE e
    IN /\ req[r] = Ready
       /\ Goes(r, "provider", e, customer[found].id)
       /\ UNCHANGED <<customer, lastId, mailed, invitation, proven, signedIn>>

\* The row that was found is updated, by its id; when none was, one is inserted
Admit(r, flags, by, allowed) ==
    \/ /\ req[r].id # 0 /\ (allowed \/ ~Exists(req[r].id))
       /\ Update(req[r].id, flags, by)
       /\ proven' = proven \cup {req[r].id}
       /\ Goes(r, "session", None, req[r].id)
       /\ UNCHANGED lastId
    \/ /\ req[r].id = 0 /\ allowed
       /\ Insert(req[r].email, Written(NoRow, flags, by))
       /\ proven' = proven \cup {lastId'}
       /\ Goes(r, "session", None, lastId')
    \/ /\ ~allowed \/ (req[r].id = 0 /\ customer[req[r].email].id # 0)
       /\ Ends(r)
       /\ UNCHANGED <<customer, lastId, proven>>

AcceptInvitation(r) ==
    /\ req[r].at = "accept"
    /\ Admit(r, {"password", "verified"}, None, TRUE)
    /\ invitation' = IF req'[r].at = "session"
                     THEN [invitation EXCEPT ![req[r].email].accepted = TRUE] ELSE invitation
    /\ UNCHANGED <<mailed, signedIn>>

\* No two customers have one id at the provider
OauthUpsert(r) ==
    LET e == req[r].email
    IN /\ req[r].at = "provider"
       /\ Admit(r, {"verified"}, e, \A f \in Emails : customer[f].provider = e => customer[f].id = req[r].id)
       /\ UNCHANGED <<mailed, invitation, signedIn>>

\* Mutant of LoginWithPassword: email_verified is not looked at.
LoginUnverified(r, e) ==
    /\ req[r] = Ready /\ customer[e].password
    /\ Goes(r, "session", None, customer[e].id)
    /\ UNCHANGED <<customer, lastId, mailed, invitation, proven, signedIn>>

LoginWithPassword(r, e) ==
    /\ req[r] = Ready
    /\ customer[e].password /\ customer[e].verified
    /\ Goes(r, "session", None, customer[e].id)
    /\ UNCHANGED <<customer, lastId, mailed, invitation, proven, signedIn>>

\* The session references its customer: none is issued for one that was deleted
IssueSession(r) ==
    /\ req[r].at = "session"
    /\ signedIn' = IF Exists(req[r].id) THEN signedIn \cup {req[r].id} ELSE signedIn
    /\ Ends(r)
    /\ UNCHANGED <<customer, lastId, mailed, invitation, proven>>

CreateCustomer(e, password) ==
    /\ Insert(e, [NoRow EXCEPT !.password = password])
    /\ UNCHANGED <<mailed, invitation, req, proven, signedIn>>

\* Staff give a customer another email, and email_verified stays as it is
UpdateCustomer(e, f) ==
    /\ customer[e].id # 0 /\ customer[f].id = 0
    /\ customer' = [customer EXCEPT ![f] = customer[e], ![e] = NoRow]
    /\ UNCHANGED <<lastId, mailed, invitation, req, proven, signedIn>>

DeleteCustomer(e) ==
    /\ customer[e].id # 0
    /\ customer' = [customer EXCEPT ![e] = NoRow]
    /\ mailed' = {t \in mailed : t[2] # customer[e].id}
    /\ UNCHANGED <<lastId, invitation, req, proven, signedIn>>

Next ==
    \/ \E e \in Emails :
        \/ \E kind \in {"verify", "reset", "magic"} : Mail(kind, e)
        \/ \E password \in BOOLEAN : CreateCustomer(e, password)
        \/ CreateInvitation(e) \/ DeleteCustomer(e) \/ \E f \in Emails : UpdateCustomer(e, f)
    \/ \E r \in Requests :
        \/ \E e \in Emails :
            StartRegistering(r, e) \/ StartMagicLink(r, e) \/ ReadInvitation(r, e)
            \/ OauthLogin(r, e) \/ LoginWithPassword(r, e)
        \/ \E t \in mailed : ReadToken(r, t[1], t[2])
        \/ RegisterCustomer(r) \/ SendMagicLink(r) \/ VerifyEmail(r) \/ CompletePasswordReset(r)
        \/ AcceptInvitation(r) \/ OauthUpsert(r) \/ IssueSession(r)

\* In a store that demands verified emails nobody is signed in whose mailbox (or provider)
\* has not answered: loginWithPassword trusts email_verified, which several handlers set, one
\* of them before any mail is read; a customer that one makes has no password until a reset
\* or an invitation, which is mailed.
SignedInHasShown ==
    /\ signedIn \subseteq proven
    /\ \A e \in Emails : customer[e].verified /\ customer[e].id \notin proven =>
           ~customer[e].password /\ customer[e].provider = None

\* "True once the customer has clicked the verification link."  Does not hold: sendMagicLink
\* inserts its customer verified.
VerifiedHasShown == \A e \in Emails : customer[e].verified => customer[e].id \in proven
=============================================================================
