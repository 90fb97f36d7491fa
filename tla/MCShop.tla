------------------------------- MODULE MCShop -------------------------------
(***************************************************************************)
(* The ledgers beside the payments (store credits, download links, company *)
(* credit and quotes, returns, the wallet of the cloud) and what shoppers  *)
(* and agents hold (refresh sessions, checkout links, agent checkouts,     *)
(* carts and their orders, mandates), and what lets a request in (consent, *)
(* API keys, the rate limit, the sign-in of a customer), and the shelves   *)
(* (smart collections, CSV imports), on small instances.  These parts      *)
(* share nothing here: a behaviour runs one of them ("part"), and their    *)
(* state spaces add up.  The sign-in is run twice: two emails and one row  *)
(* ("identities"), and one email whose row may be replaced ("replaced").   *)
(* The cfg gives shoppers the names of whatever else can be permuted by    *)
(* itself (clerks, agents, products, ...), and checkouts too: one          *)
(* symmetry of two pairs serves all parts.                                 *)
(***************************************************************************)
EXTENDS Integers, Sequences, FiniteSets, TLC

CONSTANTS None,
          Requests, Deltas, Files, Readers, MaxDownloads, Orders, Quotes, Clerks, Total, Limit,
          MaxReopens, MaxReturned, Rets, MaxFaults, Movers, Redeemers, Orgs, Max, MaxTopups,
          Sessions, Clients, MagicLinks, MaxSessions, MaxResets, Links, Checkouts, Starts,
          Charged, Agents, Keys, Totals, MaxCrashes, Lines, Shoppers, Prices, Discount, MaxEdits,
          Mandates, Makers, Checkers, Amounts,
          ReadScope, WriteScope, Asked, Codes, Tokens, Askers, Processes, Calls, On, Admin, TTL, Delay,
          MaxTime, PerWindow, Window, MaxPassed,
          Emails, OneEmail, Visitors, MaxInvites,
          Products, Rules, Editors, MaxChanges, Imports, CsvRows, MaxRows

\* None is no id of a row (a NULL of its column) and no request.
ASSUME NoneAssumption ==
    None \notin Mandates \cup Checkouts \cup Totals \cup Requests \cup Readers \cup Quotes \cup Clerks
             \cup Imports \cup Int
\* Amounts are whole cents, limits are counts, and there are finitely many requests.
ASSUME LedgerAssumption ==
    /\ Deltas \subseteq Int /\ MaxDownloads \in Nat
    /\ IsFiniteSet(Movers) /\ IsFiniteSet(Redeemers)
    /\ Total \in Nat /\ IsFiniteSet(Orders)
    /\ Prices \subseteq Nat /\ (\E p \in Prices : \A q \in Prices : q <= p)
    /\ Discount \in Nat /\ IsFiniteSet(Lines)
\* Times are counted in ticks; what is cached is good for one at least, and a call has a process.
ASSUME TimeAssumption ==
    /\ TTL \in Nat \ {0} /\ Delay \in Nat /\ On \in [Calls -> Processes]
    /\ PerWindow \in Nat \ {0} /\ Window \in Nat

VARIABLES part,
          balance, entries, holder, wreq,
          download, reader, served,
          used, order, quote, clerk,
          ret, treq, given, asked, missed, tfaults,
          funds, ledger, mover, topups, count, redeemed, applying, kfaults,
          session, issued, client, sent, resets,
          link, built, start, marks,
          co, charge, keyed, bought, payment, agent, cache, moved, crashes,
          line, price, shopper, checkout, fresh, doing, placed, touched, edits,
          mandate, active, maker, checker,
          app, grant, shown, approved, code, token, oreq,
          tick, key, kept, areq, evicts, granted,
          now, ready, bucket, passed,
          customer, lastId, mailed, invitation, visit, proven, signedIn,
          product, rules, members, refresh, changes, seen, byhand, failed,
          shelf, variants, import, lock, report, next, admin

SmallDeltas == {-1, 1, 2}
SkuOrTitle == {[sku |-> None, title |-> "t", stocked |-> FALSE],
               [sku |-> "s", title |-> "t", stocked |-> TRUE]}
OneScopeEach == {{ReadScope}, {WriteScope}}
OneEach == CHOOSE f \in [Calls -> Processes] : \A p \in Processes : \E q \in Calls : f[q] = p

Wallet == INSTANCE Wallet WITH req <- wreq
Downloads == INSTANCE Downloads WITH Links <- Files, link <- download
Credit == INSTANCE Credit
Returns == INSTANCE Returns WITH Requests <- Movers, Returns <- Rets, req <- treq, faults <- tfaults
Cloud == INSTANCE CloudWallet WITH faults <- kfaults
Access == INSTANCE Sessions WITH Links <- MagicLinks
PayLinks == INSTANCE CheckoutLinks WITH checkout <- built
Delegated == INSTANCE AgentCheckout WITH Checkouts <- Charged, order <- bought
Basket == INSTANCE CartOrders WITH order <- placed
Chains == INSTANCE Mandates
Consents == INSTANCE Oauth WITH Requests <- Askers, req <- oreq
Credentials == INSTANCE ApiKeys WITH Requests <- Calls, now <- tick, cache <- kept, req <- areq
Throttle == INSTANCE RateLimit WITH Limit <- PerWindow, MaxRequests <- MaxPassed
\* With one row ever, and for one email a row that takes the place of a deleted one
People(E, rowsEver) ==
    INSTANCE Identities WITH Emails <- E, Requests <- Visitors, MaxRows <- rowsEver, req <- visit
Collections == INSTANCE SmartCollections WITH MaxEdits <- MaxChanges, job <- refresh, edits <- changes
Csv == INSTANCE CsvImport WITH product <- shelf, job <- import, holder <- lock, edits <- admin

wallets == <<balance, entries, holder, wreq>>
downloads == <<download, reader, served>>
credits == <<used, order, quote, clerk>>
returned == <<ret, treq, given, asked, missed, tfaults>>
clouds == <<funds, ledger, mover, topups, count, redeemed, applying, kfaults>>
sessions == <<session, issued, client, sent, resets>>
links == <<link, built, start, marks>>
agents == <<co, charge, keyed, bought, payment, agent, cache, moved, crashes>>
baskets == <<line, price, shopper, checkout, fresh, doing, placed, touched, edits>>
mandates == <<mandate, active, maker, checker>>
consents == <<app, grant, shown, approved, code, token, oreq>>
credentials == <<tick, key, kept, areq, evicts, granted>>
throttles == <<now, ready, bucket, passed>>
identities == <<customer, lastId, mailed, invitation, visit, proven, signedIn>>
collections == <<product, rules, members, refresh, changes, seen, byhand, failed>>
imports == <<shelf, variants, import, lock, report, next, admin>>
ledgers == <<wallets, downloads, credits, returned, clouds>>
holdings == <<sessions, links, agents, baskets, mandates>>
doors == <<consents, credentials, throttles, identities>>
shelves == <<collections, imports>>
vars == <<part, ledgers, holdings, doors, shelves>>

Init ==
    /\ part \in {"wallet", "downloads", "credit", "returns", "cloud",
                 "sessions", "links", "agents", "baskets", "mandates",
                 "consents", "credentials", "throttle", "identities", "replaced",
                 "collections", "imports"}
    /\ Wallet!Init /\ Downloads!Init /\ Credit!Init /\ Returns!Init /\ Cloud!Init
    /\ Access!Init /\ PayLinks!Init /\ Delegated!Init /\ Basket!Init /\ Chains!Init
    /\ Consents!Init /\ Credentials!Init /\ Throttle!Init
    /\ IF part = "replaced" THEN People(OneEmail, 2)!Init ELSE People(Emails, 1)!Init
    /\ Collections!Init /\ Csv!Init
    /\ part # "collections" => \A p \in Products : product[p] = [status |-> "draft", satisfies |-> {}]
    /\ part # "imports" => shelf = None

\* A ledger takes a step
WalletStep == Wallet!Next /\ UNCHANGED <<downloads, credits, returned, clouds>>
DownloadStep == Downloads!Next /\ UNCHANGED <<wallets, credits, returned, clouds>>
CreditStep == Credit!Next /\ UNCHANGED <<wallets, downloads, returned, clouds>>
ReturnStep == Returns!Next /\ UNCHANGED <<wallets, downloads, credits, clouds>>
CloudStep == Cloud!Next /\ UNCHANGED <<wallets, downloads, credits, returned>>
LedgerStep ==
    \/ part = "wallet" /\ WalletStep
    \/ part = "downloads" /\ DownloadStep
    \/ part = "credit" /\ CreditStep
    \/ part = "returns" /\ ReturnStep
    \/ part = "cloud" /\ CloudStep

\* A shopper or an agent takes a step
SessionStep == Access!Next /\ UNCHANGED <<links, agents, baskets, mandates>>
LinkStep == PayLinks!Next /\ UNCHANGED <<sessions, agents, baskets, mandates>>
AgentStep == Delegated!Next /\ UNCHANGED <<sessions, links, baskets, mandates>>
BasketStep == Basket!Next /\ UNCHANGED <<sessions, links, agents, mandates>>
MandateStep == Chains!Next /\ UNCHANGED <<sessions, links, agents, baskets>>
HolderStep ==
    \/ part = "sessions" /\ SessionStep
    \/ part = "links" /\ LinkStep
    \/ part = "agents" /\ AgentStep
    \/ part = "baskets" /\ BasketStep
    \/ part = "mandates" /\ MandateStep

\* A request is let in
ConsentStep == Consents!Next /\ UNCHANGED <<credentials, throttles, identities>>
CredentialStep == Credentials!Next /\ UNCHANGED <<consents, throttles, identities>>
ThrottleStep == Throttle!Next /\ UNCHANGED <<consents, credentials, identities>>
VisitStep ==
    /\ \/ part = "identities" /\ People(Emails, 1)!Next
       \/ part = "replaced" /\ People(OneEmail, 2)!Next
    /\ UNCHANGED <<consents, credentials, throttles>>
DoorStep ==
    \/ part = "consents" /\ ConsentStep
    \/ part = "credentials" /\ CredentialStep
    \/ part = "throttle" /\ ThrottleStep
    \/ VisitStep

\* The catalogue takes a step
CollectionStep == Collections!Next /\ UNCHANGED imports
ImportStep == Csv!Next /\ UNCHANGED collections
ShelfStep ==
    \/ part = "collections" /\ CollectionStep
    \/ part = "imports" /\ ImportStep

Next ==
    \/ LedgerStep /\ UNCHANGED <<part, holdings, doors, shelves>>
    \/ HolderStep /\ UNCHANGED <<part, ledgers, doors, shelves>>
    \/ DoorStep /\ UNCHANGED <<part, ledgers, holdings, shelves>>
    \/ ShelfStep /\ UNCHANGED <<part, ledgers, holdings, doors>>

Spec == Init /\ [][Next]_vars

Symmetry == Permutations(Shoppers) \cup Permutations(Checkouts)

\* A ledger, a balance or a counter is the sum of what was recorded: of a company's credit, of an
\* organisation's wallet, of the redemptions of a code, of the downloads of a link.
BooksAddUp ==
    /\ Wallet!WalletLedgerAddsUp /\ Cloud!FundsAddUp
    /\ Cloud!DiscountsAreCounted /\ Downloads!DownloadsWithinMax
\* Of a refresh token that several requests rotate at once there is one heir: of a customer's, and
\* of an application's and its code.
OneHeirEach == Access!FamilyHasOneHeir /\ Consents!CodeHasOneHeir
\* An order's credit comes back when it is cancelled, and a quote is ordered once.
CreditFollowsOrders == Credit!CreditIsReturned /\ Credit!QuoteOrderedOnce
\* What is completed is paid, and what is paid has been charged: by link and by agent.
CompletedIsPaidFor == PayLinks!CompletedIsPaid /\ Delegated!PaidIsCharged
ResolvedIsSettled == Returns!ResolvedIsSettled
ChargedOnce == Delegated!ChargedOnce
OrderIsItsLines == Basket!OrderIsItsLines
AcceptedStoodWhole == Chains!AcceptedStoodWhole
ConsentedScopes == Consents!ConsentedScopes
RevokedIsRefused == Credentials!RevokedIsRefused
NoBurst == Throttle!NoBurst
SignedInHasShown == IF part = "replaced" THEN People(OneEmail, 2)!SignedInHasShown ELSE People(Emails, 1)!SignedInHasShown
RulesReachMembers == Collections!RulesReachMembers
ImportedOnce == Csv!ImportedOnce

\* What the code does not keep: TLC refutes each of them when it is added to the INVARIANTS
ReleasedIsConsumed == Credit!ReleasedIsConsumed
OneReplacementPerReturn == Returns!OneReplacementPerReturn
RedemptionsWithinMax == Cloud!RedemptionsWithinMax
ResetEndsSessions == Access!ResetEndsSessions
PaidIsCompleted == PayLinks!PaidIsCompleted
ChargedHasOrder == Delegated!ChargedHasOrder
TotalIsNotNegative == Basket!TotalIsNotNegative
CartOrderedOnce == Basket!CartOrderedOnce
FamilyIsFound == Consents!FamilyIsFound
VerifiedHasShown == IF part = "replaced" THEN People(OneEmail, 2)!VerifiedHasShown ELSE People(Emails, 1)!VerifiedHasShown
RevokedIsEvicted == Credentials!RevokedIsEvicted
MembersMatch == Collections!MembersMatch
TwiceTheLimit == Throttle!TwiceTheLimit
MembersWereFound == Collections!MembersWereFound
=============================================================================
