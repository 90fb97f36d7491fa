--------------------------- MODULE SmartCollections ---------------------------
(***************************************************************************)
(* One smart collection: its rules, and its members, which every change of *)
(* a rule computes anew after it has committed.  A computation reads the   *)
(* rules, then the products, and rewrites the members in a transaction of  *)
(* two statements; nothing keeps two computations apart.                   *)
(***************************************************************************)
EXTENDS Naturals, FiniteSets

CONSTANTS Products, Rules, Editors, MaxEdits, None

VARIABLES product, \* [status, satisfies]: the rules it satisfies
          rules, members,
          job,     \* [at, rules, found, gone]: a change of a rule and its refresh
          edits,   \* what products and hands have done
          seen,    \* history, since nothing was under way: the refreshes that have committed,
          byhand,  \*   the products put in, taken out or deleted,
          failed   \*   and whether a refresh has failed

svars == <<product, rules, members, job, edits, seen, byhand, failed>>

Idle == [at |-> "idle", rules |-> {}, found |-> {}, gone |-> {}]
Busy == {a \in Editors : job[a] # Idle}

Init ==
    /\ product \in [Products -> [status : {"active", "draft"}, satisfies : SUBSET Rules]]
    /\ rules = {} /\ members = {}
    /\ job = [a \in Editors |-> Idle]
    /\ edits = 0
    /\ seen = {} /\ byhand = {} /\ failed = FALSE

\* Rows of the membership that an open transaction has deleted: to delete or insert one is to wait
Going(a) == UNION {job[b].gone : b \in Editors \ {a}}
Gone(p) == product[p].status = "gone"

\* smart_match is "all": no operation sets it
Matching(set) == {p \in Products : product[p].status = "active" /\ set \subseteq product[p].satisfies}

-----------------------------------------------------------------------------
Edited == edits < MaxEdits /\ edits' = edits + 1

\* A draft is published, a product archived, its title or its tags change: no refresh follows
UpdateProduct(p, status, satisfies) ==
    /\ Edited /\ ~Gone(p)
    /\ product' = [product EXCEPT ![p] = [status |-> status, satisfies |-> satisfies]]
    /\ UNCHANGED <<rules, members, job, seen, byhand, failed>>

DeleteProduct(p) ==
    /\ Edited /\ ~Gone(p) /\ p \notin Going(None)
    /\ product' = [product EXCEPT ![p].status = "gone"]
    /\ members' = members \ {p} /\ byhand' = byhand \cup {p}
    /\ UNCHANGED <<rules, job, seen, failed>>

\* By hand, into a smart collection too
AddProductToCollection(p) ==
    /\ Edited /\ ~Gone(p) /\ p \notin Going(None)
    /\ members' = members \cup {p} /\ byhand' = byhand \cup {p}
    /\ UNCHANGED <<product, rules, job, seen, failed>>

RemoveProductFromCollection(p) ==
    /\ Edited /\ p \in members \ Going(None)
    /\ members' = members \ {p} /\ byhand' = byhand \cup {p}
    /\ UNCHANGED <<product, rules, job, seen, failed>>

-----------------------------------------------------------------------------
\* The change has committed; the history starts anew when nothing was under way
Changed(a, set) ==
    /\ job[a] = Idle
    /\ rules' = set
    /\ job' = [job EXCEPT ![a].at = "rules"]
    /\ IF Busy = {} THEN seen' = {} /\ byhand' = {} /\ failed' = FALSE
                    ELSE UNCHANGED <<seen, byhand, failed>>
    /\ UNCHANGED <<product, members, edits>>

AddCollectionRule(a, r) == r \notin rules /\ Changed(a, rules \cup {r})
DeleteCollectionRule(a, r) == r \in rules /\ Changed(a, rules \ {r})

\* Mutant of ReadRules: without rules there is nothing to refresh.
NothingToMatch(a) ==
    /\ job[a].at = "rules"
    /\ job' = [job EXCEPT ![a] = IF rules = {} THEN Idle ELSE [@ EXCEPT !.at = "products", !.rules = rules]]
    /\ UNCHANGED <<product, rules, members, edits, seen, byhand, failed>>

ReadRules(a) ==
    /\ job[a].at = "rules"
    /\ job' = [job EXCEPT ![a].at = IF rules = {} THEN "delete" ELSE "products", ![a].rules = rules]
    /\ UNCHANGED <<product, rules, members, edits, seen, byhand, failed>>

ReadProducts(a) ==
    /\ job[a].at = "products"
    /\ job' = [job EXCEPT ![a].at = "delete", ![a].found = Matching(job[a].rules)]
    /\ UNCHANGED <<product, rules, members, edits, seen, byhand, failed>>

\* What it does not see committed it does not delete
DeleteNonMatching(a) ==
    /\ job[a].at = "delete" /\ (members \ job[a].found) \cap Going(a) = {}
    /\ job' = [job EXCEPT ![a].at = "insert", ![a].gone = members \ job[a].found]
    /\ UNCHANGED <<product, rules, members, edits, seen, byhand, failed>>

\* ON CONFLICT DO NOTHING, and the commit
InsertMatching(a) ==
    /\ job[a].at = "insert" /\ job[a].found \cap Going(a) = {}
    /\ \A p \in job[a].found : ~Gone(p)
    /\ members' = (members \ job[a].gone) \cup job[a].found
    /\ seen' = seen \cup {[rules |-> job[a].rules, found |-> job[a].found]}
    /\ job' = [job EXCEPT ![a] = Idle]
    /\ UNCHANGED <<product, rules, edits, byhand, failed>>

\* A statement fails (a product found was deleted, two refreshes wait for each other): the
\* caller swallows it
RefreshFails(a) ==
    /\ job[a] # Idle
    /\ job' = [job EXCEPT ![a] = Idle]
    /\ failed' = TRUE
    /\ UNCHANGED <<product, rules, members, edits, seen, byhand>>

Next ==
    \/ \E p \in Products :
        \/ DeleteProduct(p) \/ AddProductToCollection(p) \/ RemoveProductFromCollection(p)
        \/ \E status \in {"active", "draft"}, satisfies \in SUBSET Rules : UpdateProduct(p, status, satisfies)
    \/ \E a \in Editors :
        \/ ReadRules(a) \/ ReadProducts(a) \/ DeleteNonMatching(a) \/ InsertMatching(a) \/ RefreshFails(a)
        \/ \E r \in Rules : AddCollectionRule(a, r) \/ DeleteCollectionRule(a, r)

-----------------------------------------------------------------------------
\* Refreshes that overlap and products that change under them included: a product that every
\* refresh has found is a member, one that none has found is not, unless it was moved by hand;
\* and when nothing is under way or has failed, one of them has found what the rules of now ask for.
RulesReachMembers ==
    /\ seen # {} =>
        \A p \in Products \ byhand :
            /\ (\A s \in seen : p \in s.found) => p \in members
            /\ (\A s \in seen : p \notin s.found) => p \notin members
    /\ Busy = {} /\ ~failed => (rules = {} /\ seen = {}) \/ \E s \in seen : s.rules = rules

\* "Smart collections auto-populate when products match their rules", and what does not hold:
\* a product that changes is not looked at until a rule does.
MembersMatch == Busy = {} /\ ~failed /\ byhand = {} /\ rules # {} => members = Matching(rules)

\* What does not hold either, even while no product changes: of two refreshes each keeps what
\* the other has inserted, and the members are what none of them has found.
MembersWereFound == Busy = {} /\ ~failed /\ byhand = {} /\ seen # {} => \E s \in seen : s.found = members
=============================================================================
