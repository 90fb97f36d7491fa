------------------------------ MODULE ShopProofs ------------------------------
(***************************************************************************)
(* Proofs about the ledgers and the holdings of the shop, for any number   *)
(* of requests, orders, sessions, links, agents and mandates.              *)
(***************************************************************************)
EXTENDS MCShop, SumTheorems

-----------------------------------------------------------------------------
(* The parts.                                                              *)

\* A step of the shop is a step of a part or leaves the part alone: no part writes the
\* tables of another.
LEMMA LedgerFrame ==
  ASSUME [Next]_vars
  PROVE  /\ Wallet!Next \/ UNCHANGED wallets
         /\ Downloads!Next \/ UNCHANGED downloads
         /\ Credit!Next \/ UNCHANGED credits
         /\ Returns!Next \/ UNCHANGED returned
         /\ Cloud!Next \/ UNCHANGED clouds
BY Zenon DEF Next, vars, ledgers, LedgerStep, WalletStep, DownloadStep, CreditStep, ReturnStep, CloudStep

LEMMA HolderFrame ==
  ASSUME [Next]_vars
  PROVE  /\ Access!Next \/ UNCHANGED sessions
         /\ PayLinks!Next \/ UNCHANGED links
         /\ Delegated!Next \/ UNCHANGED agents
         /\ Basket!Next \/ UNCHANGED baskets
         /\ Chains!Next \/ UNCHANGED mandates
BY Zenon DEF Next, vars, holdings, HolderStep, SessionStep, LinkStep, AgentStep, BasketStep, MandateStep

-----------------------------------------------------------------------------
(* Sets with at most one element.                                          *)

\* The cardinality of a module that is instantiated is that of FiniteSets.
LEMMA SameSize == \A S : Access!Cardinality(S) = Cardinality(S)
BY DEF Access!Cardinality, Cardinality

\* A set without two elements has at most one.
LEMMA AtMostOne ==
  ASSUME NEW S, \A x, y \in S : x = y
  PROVE  Cardinality(S) \in {0, 1} /\ (Cardinality(S) = 0 <=> S = {})
<1>1. CASE S = {}
  BY <1>1, FS_EmptySet
<1>2. ASSUME NEW x \in S
      PROVE  Cardinality(S) \in {0, 1} /\ (Cardinality(S) = 0 <=> S = {})
  <2>1. S = {x}
    OBVIOUS
  <2>2. QED BY <2>1, FS_Singleton
<1>3. QED BY <1>1, <1>2

\* Two such sets, one of them empty, have one element between them.
LEMMA OneBetween ==
  ASSUME NEW S, NEW T, \A x, y \in S : x = y, \A x, y \in T : x = y, \A x \in S, y \in T : FALSE
  PROVE  Cardinality(S) + Cardinality(T) <= 1
<1>1. Cardinality(S) \in {0, 1} /\ (Cardinality(S) = 0 <=> S = {})
  BY AtMostOne
<1>2. Cardinality(T) \in {0, 1} /\ (Cardinality(T) = 0 <=> T = {})
  BY AtMostOne
<1>3. S = {} \/ T = {}
  OBVIOUS
<1>4. QED BY <1>1, <1>2, <1>3

-----------------------------------------------------------------------------
(* Mandates.                                                               *)

MandateRow == [kind : {"none", "intent", "cart", "payment", "deleted"}, parent : Mandates \cup {None},
               amount : Amounts \cup {0}, sound : BOOLEAN, live : BOOLEAN]
MakerState == [at : {"ready", "parent", "insert", "signature"}, mandate : Mandates \cup {None}, row : MandateRow]
CheckerState == [at : {"ready", "cart", "intent", "valid", "invalid"}, mandate : Mandates \cup {None},
                 current : Mandates \cup {None}, errors : BOOLEAN, whole : BOOLEAN]

ChainTypes ==
    /\ mandate \in [Mandates -> MandateRow] /\ active \in BOOLEAN
    /\ maker \in [Makers -> MakerState] /\ checker \in [Checkers -> CheckerState]

\* A mandate that is being created is a row of its kind, and nobody has written its
\* id before the INSERT; no two requests create the same mandate.
MakersApart ==
    \A r \in Makers :
        /\ maker[r].at # "ready" =>
              /\ maker[r].mandate \in Mandates
              /\ maker[r].row.kind \in {"intent", "cart", "payment"}
        /\ maker[r].at \in {"parent", "insert"} => mandate[maker[r].mandate].kind = "none"
        /\ maker[r].at = "signature" => mandate[maker[r].mandate].kind # "none"
        /\ \A q \in Makers : maker[q].mandate = maker[r].mandate /\ maker[r].mandate # None => q = r

\* Nothing hangs under a mandate that is not there (the foreign key), and whoever walks up
\* the chain looks at an id that has been a row.
ParentsKnown ==
    /\ \A m \in Chains!Rows : mandate[m].parent \in Chains!Rows \cup {None}
    /\ \A c \in Checkers :
          checker[c].current # None => mandate[checker[c].current].kind # "none"

\* The argument of AcceptedStoodWhole.  While a verification walks and has found no error,
\* a chain that did not stand when it began is broken above the walker: a mandate
\* that no longer stands never stands again, and a parent only ever changes to none.
BrokenAbove ==
    \A c \in Checkers : ~checker[c].whole =>
        /\ checker[c].at = "cart" /\ ~checker[c].errors =>
              ~(Chains!Stands(checker[c].current) /\ Chains!Stands(Chains!Up(checker[c].current)))
        /\ checker[c].at = "intent" /\ ~checker[c].errors => ~Chains!Stands(checker[c].current)
        /\ checker[c].at # "valid"

ChainInv == ChainTypes /\ MakersApart /\ ParentsKnown /\ BrokenAbove

LEMMA ChainInit == Init => ChainInv
<1> SUFFICES ASSUME Chains!Init PROVE ChainInv
  BY Zenon DEF Init
<1>1. ChainTypes
  BY DEF ChainTypes, MandateRow, MakerState, CheckerState, Chains!Init, Chains!NoRow,
         Chains!NotMaking, Chains!NotChecking
<1>2. MakersApart /\ ParentsKnown
  BY DEF MakersApart, ParentsKnown, Chains!Init, Chains!Rows, Chains!NoRow, Chains!NotMaking,
         Chains!NotChecking
<1>3. BrokenAbove
  BY DEF BrokenAbove, Chains!Init, Chains!NotChecking
<1>4. QED BY <1>1, <1>2, <1>3 DEF ChainInv

\* A step that writes no mandate and no verification keeps what is known of the chains.
LEMMA MakerStep ==
  ASSUME ChainInv, UNCHANGED <<mandate, checker>>, ChainTypes', MakersApart'
  PROVE  ChainInv'
<1>1. ParentsKnown'
  BY DEF ChainInv, ParentsKnown, Chains!Rows
<1>2. BrokenAbove'
  BY DEF ChainInv, BrokenAbove, Chains!Stands, Chains!Up, Chains!Rows
<1>3. QED BY <1>1, <1>2 DEF ChainInv

LEMMA StartMandateStep ==
  ASSUME ChainInv, NEW r \in Makers, NEW kind \in {"intent", "cart", "payment"},
         NEW parent \in Mandates \cup {None}, NEW amount \in Amounts \cup {0}, NEW sound \in BOOLEAN,
         Chains!StartMandate(r, kind, parent, amount, sound)
  PROVE  ChainInv'
<1> DEFINE m == CHOOSE m \in Chains!Fresh : TRUE
           row == [Chains!NoRow EXCEPT !.kind = kind, !.parent = parent, !.amount = amount, !.sound = sound]
<1>1. m \in Chains!Fresh /\ m \in Mandates
  BY DEF Chains!StartMandate, Chains!Fresh
<1>2. row \in MandateRow /\ row.kind = kind
  BY DEF MandateRow, Chains!NoRow
<1> HIDE DEF m, row
<1>3. /\ maker' = [maker EXCEPT ![r] = [at |-> "parent", mandate |-> m, row |-> row]]
      /\ UNCHANGED <<mandate, active, checker>>
  BY DEF Chains!StartMandate, m, row
<1>4. mandate[m].kind = "none" /\ \A q \in Makers : maker[q].mandate # m
  BY <1>1 DEF Chains!Fresh
<1>5. ChainTypes'
  BY <1>1, <1>2, <1>3 DEF ChainInv, ChainTypes, MakerState
<1>6. MakersApart'
  BY <1>1, <1>2, <1>3, <1>4 DEF ChainInv, ChainTypes, MakersApart
<1>7. QED BY <1>3, <1>5, <1>6, MakerStep

LEMMA ValidateStep ==
  ASSUME ChainInv, NEW r \in Makers, Chains!ValidateMandateChain(r)
  PROVE  ChainInv'
<1>1. ChainTypes'
  BY SMTT(30) DEF ChainInv, ChainTypes, MakerState, MandateRow, Chains!ValidateMandateChain, Chains!NotMaking, Chains!NoRow
<1>2. MakersApart'
  BY DEF ChainInv, ChainTypes, MakerState, MakersApart, Chains!ValidateMandateChain, Chains!NotMaking
<1>3. QED BY <1>1, <1>2, MakerStep DEF Chains!ValidateMandateChain

\* Revocation is for good: a mandate that stands after a step that writes a mandate other than
\* a new one stood before it, and under the same parent or none.
NothingRevives ==
    \A m \in Mandates : mandate[m].kind # "none" =>
        /\ mandate'[m].kind # "none"
        /\ Chains!Stands(m)' => Chains!Stands(m)
        /\ m \in Chains!Rows' => m \in Chains!Rows /\ mandate'[m].parent \in {mandate[m].parent, None}

LEMMA BrokenStaysBroken ==
  ASSUME ChainInv, NothingRevives, UNCHANGED checker
  PROVE  BrokenAbove'
<1> SUFFICES ASSUME NEW c \in Checkers, ~checker[c].whole
             PROVE  /\ checker[c].at = "cart" /\ ~checker[c].errors =>
                          ~(Chains!Stands(checker[c].current)' /\ Chains!Stands(Chains!Up(checker[c].current))')
                    /\ checker[c].at = "intent" /\ ~checker[c].errors => ~Chains!Stands(checker[c].current)'
                    /\ checker[c].at # "valid"
  BY DEF BrokenAbove
<1> DEFINE m == checker[c].current
<1>1. CASE m = None
  BY <1>1, NoneAssumption DEF ChainInv, BrokenAbove, Chains!Stands, Chains!Rows
<1>2. CASE m # None
  <2>1. m \in Mandates /\ mandate[m].kind # "none"
    BY <1>2 DEF ChainInv, ChainTypes, CheckerState, ParentsKnown
  <2>2. Chains!Stands(m)' => Chains!Stands(m)
    BY <2>1 DEF NothingRevives
  <2>3. ASSUME Chains!Stands(m)', Chains!Stands(Chains!Up(m))'
        PROVE  Chains!Stands(Chains!Up(m))
    <3>1. m \in Chains!Rows' /\ m \in Chains!Rows /\ mandate'[m].parent \in {mandate[m].parent, None}
      BY <2>1, <2>3 DEF NothingRevives, Chains!Stands
    <3>2. Chains!Up(m)' = mandate'[m].parent /\ Chains!Up(m) = mandate[m].parent
      BY <3>1 DEF Chains!Up
    <3>3. mandate'[m].parent # None
      BY <2>3, <3>2, NoneAssumption DEF Chains!Stands, Chains!Rows
    <3>4. mandate[m].parent \in Chains!Rows /\ mandate'[m].parent = mandate[m].parent
      BY <3>1, <3>3 DEF ChainInv, ParentsKnown
    <3>5. QED BY <2>3, <3>2, <3>4 DEF NothingRevives, Chains!Rows
  <2>4. QED BY <2>2, <2>3 DEF ChainInv, BrokenAbove
<1>3. QED BY <1>1, <1>2

LEMMA InsertStep ==
  ASSUME ChainInv, NEW r \in Makers, Chains!InsertMandate(r)
  PROVE  ChainInv'
<1> DEFINE m == maker[r].mandate
           row == maker[r].row
<1>1. m \in Mandates /\ mandate[m].kind = "none" /\ row.kind \in {"intent", "cart", "payment"} /\ row \in MandateRow
  BY DEF ChainInv, ChainTypes, MakerState, MakersApart, Chains!InsertMandate
<1>2. CASE row.parent \in Chains!Rows \cup {None}
  <2>1. /\ mandate' = [mandate EXCEPT ![m] = row]
        /\ maker' = [maker EXCEPT ![r].at = "signature"]
        /\ UNCHANGED <<active, checker>>
    BY <1>2 DEF Chains!InsertMandate
  <2>2. ChainTypes'
    BY <1>1, <2>1 DEF ChainInv, ChainTypes, MakerState
  <2>3. MakersApart'
    BY <1>1, <2>1, NoneAssumption DEF ChainInv, ChainTypes, MakerState, MakersApart
  <2>4. Chains!Rows' = Chains!Rows \cup {m}
    BY <1>1, <2>1 DEF ChainInv, ChainTypes, Chains!Rows
  <2>5. ParentsKnown'
    BY <1>1, <1>2, <2>1, <2>4 DEF ChainInv, ChainTypes, CheckerState, ParentsKnown
  <2>6. NothingRevives
    BY <1>1, <2>1 DEF ChainInv, ChainTypes, NothingRevives, Chains!Stands, Chains!Rows
  <2>7. QED BY <2>1, <2>2, <2>3, <2>5, <2>6, BrokenStaysBroken DEF ChainInv
<1>3. CASE row.parent \notin Chains!Rows \cup {None}
  <2>1. maker' = [maker EXCEPT ![r] = Chains!NotMaking] /\ UNCHANGED <<mandate, active, checker>>
    BY <1>3 DEF Chains!InsertMandate
  <2>2. ChainTypes' /\ MakersApart'
    BY <2>1 DEF ChainInv, ChainTypes, MakerState, MandateRow, MakersApart, Chains!NotMaking, Chains!NoRow
  <2>3. QED BY <2>1, <2>2, MakerStep
<1>4. QED BY <1>2, <1>3

LEMMA SignatureStep ==
  ASSUME ChainInv, NEW r \in Makers, Chains!CheckSignature(r)
  PROVE  ChainInv'
<1> DEFINE m == maker[r].mandate
<1>1. m \in Mandates /\ mandate[m].kind # "none"
  BY DEF ChainInv, MakersApart, Chains!CheckSignature
<1>2. maker' = [maker EXCEPT ![r] = Chains!NotMaking] /\ UNCHANGED <<active, checker>>
  BY DEF Chains!CheckSignature
<1>3. CASE UNCHANGED mandate
  <2>1. ChainTypes' /\ MakersApart'
    BY <1>2, <1>3 DEF ChainInv, ChainTypes, MakerState, MandateRow, MakersApart, Chains!NotMaking, Chains!NoRow
  <2>2. QED BY <1>2, <1>3, <2>1, MakerStep
<1>4. CASE mandate' # mandate
  <2>1. mandate' = [n \in Mandates |->
                       IF n = m THEN [Chains!NoRow EXCEPT !.kind = "deleted"]
                       ELSE [mandate[n] EXCEPT !.parent = IF @ = m THEN None ELSE @]]
    BY <1>4 DEF Chains!CheckSignature
  <2>2. /\ mandate' \in [Mandates -> MandateRow]
        /\ mandate'[m].kind = "deleted"
        /\ \A n \in Mandates \ {m} :
              /\ mandate'[n].kind = mandate[n].kind /\ mandate'[n].live = mandate[n].live
              /\ mandate'[n].parent = IF mandate[n].parent = m THEN None ELSE mandate[n].parent
    BY ZenonT(60), <1>1, <2>1 DEF ChainInv, ChainTypes, MandateRow, Chains!NoRow
  <2>3. Chains!Rows' = Chains!Rows \ {m}
    BY <1>1, <2>2 DEF Chains!Rows
  <2>4. ChainTypes'
    BY <1>2, <2>2 DEF ChainInv, ChainTypes, MakerState, MandateRow, Chains!NotMaking, Chains!NoRow
  <2>5. MakersApart'
    BY <1>1, <1>2, <2>2 DEF ChainInv, ChainTypes, MakerState, MakersApart, Chains!NotMaking
  <2>6. ParentsKnown'
    <3>1. \A n \in Chains!Rows' : mandate'[n].parent \in Chains!Rows' \cup {None}
      BY <2>2, <2>3 DEF ChainInv, ParentsKnown, Chains!Rows
    <3>2. \A c \in Checkers : checker[c].current # None => mandate'[checker[c].current].kind # "none"
      BY <2>2 DEF ChainInv, ChainTypes, CheckerState, ParentsKnown
    <3>3. QED BY <1>2, <3>1, <3>2 DEF ParentsKnown
  <2>7. NothingRevives
    BY <1>1, <2>2, <2>3 DEF NothingRevives, Chains!Stands, Chains!Rows
  <2>8. QED BY <1>2, <2>4, <2>5, <2>6, <2>7, BrokenStaysBroken DEF ChainInv
<1>5. QED BY <1>3, <1>4

LEMMA RevokeMandateStep ==
  ASSUME ChainInv, NEW m \in Mandates, Chains!RevokeMandate(m)
  PROVE  ChainInv'
<1>1. mandate' = [mandate EXCEPT ![m].live = FALSE] /\ UNCHANGED <<active, maker, checker>>
  BY DEF Chains!RevokeMandate
<1>2. ChainTypes'
  BY ZenonT(60), <1>1 DEF ChainInv, ChainTypes, MandateRow
<1>3. \A n \in Mandates : /\ mandate'[n].kind = mandate[n].kind /\ mandate'[n].parent = mandate[n].parent
                          /\ mandate'[n].live => mandate[n].live
  BY <1>1 DEF ChainInv, ChainTypes, MandateRow
<1>4. Chains!Rows' = Chains!Rows
  BY <1>3 DEF Chains!Rows
<1>5. MakersApart' /\ ParentsKnown'
  BY <1>1, <1>3, <1>4 DEF ChainInv, ChainTypes, MakersApart, ParentsKnown, CheckerState, Chains!Rows
<1>6. NothingRevives
  BY <1>3, <1>4 DEF NothingRevives, Chains!Stands
<1>7. QED BY <1>1, <1>2, <1>5, <1>6, BrokenStaysBroken DEF ChainInv

\* A verification reads: only its own walk is to be looked at.
LEMMA CheckerStep ==
  ASSUME ChainInv, UNCHANGED <<mandate, active, maker>>, NEW c \in Checkers, NEW state \in CheckerState,
         checker' = [checker EXCEPT ![c] = state],
         state.current # None => mandate[state.current].kind # "none",
         ~state.whole =>
            /\ state.at = "cart" /\ ~state.errors =>
                  ~(Chains!Stands(state.current) /\ Chains!Stands(Chains!Up(state.current)))
            /\ state.at = "intent" /\ ~state.errors => ~Chains!Stands(state.current)
            /\ state.at # "valid"
  PROVE  ChainInv'
<1>1. \A d \in Checkers : checker'[d] = IF d = c THEN state ELSE checker[d]
  BY DEF ChainInv, ChainTypes
<1>2. ChainTypes' /\ MakersApart'
  BY DEF ChainInv, ChainTypes, MakersApart
<1>3. ParentsKnown'
  BY <1>1 DEF ChainInv, ParentsKnown, Chains!Rows
<1>4. \A n : Chains!Stands(n)' = Chains!Stands(n) /\ Chains!Up(n)' = Chains!Up(n)
  BY DEF Chains!Stands, Chains!Up, Chains!Rows
<1>5. BrokenAbove'
  <2> SUFFICES ASSUME NEW d \in Checkers, ~checker'[d].whole
               PROVE  /\ checker'[d].at = "cart" /\ ~checker'[d].errors =>
                            ~(Chains!Stands(checker[d].current)' /\ Chains!Stands(Chains!Up(checker[d].current))')
                      /\ checker'[d].at = "intent" /\ ~checker'[d].errors => ~Chains!Stands(checker[d].current)'
                      /\ checker'[d].at # "valid"
    BY DEF BrokenAbove
  <2>1. CASE d = c
    BY <1>1, <2>1 DEF Chains!Stands, Chains!Up, Chains!Rows
  <2>2. CASE d # c
    BY <1>1, <2>2 DEF ChainInv, BrokenAbove, Chains!Stands, Chains!Up, Chains!Rows
  <2>3. QED BY <2>1, <2>2
<1>6. QED BY <1>2, <1>3, <1>5 DEF ChainInv

LEMMA LoadMandateStep ==
  ASSUME ChainInv, NEW c \in Checkers, NEW m \in Mandates, Chains!LoadMandate(c, m)
  PROVE  ChainInv'
<1> DEFINE state == [at |-> "cart", mandate |-> m, current |-> mandate[m].parent,
                     errors |-> Chains!Faulty(m, "payment") \/ ~active,
                     whole |-> \A n \in {m, Chains!Up(m), Chains!Up(Chains!Up(m))} : Chains!Stands(n)]
<1>1. m \in Chains!Rows /\ checker' = [checker EXCEPT ![c] = state] /\ UNCHANGED <<mandate, active, maker>>
  BY DEF Chains!LoadMandate
<1>2. mandate[m].parent \in Chains!Rows \cup {None} /\ Chains!Up(m) = mandate[m].parent
  BY <1>1 DEF ChainInv, ParentsKnown, Chains!Up
<1>3. mandate[m].parent \in Mandates \cup {None}
  BY <1>2 DEF Chains!Rows
<1>4. state \in CheckerState
  <2>1. (Chains!Faulty(m, "payment") \/ ~active) \in BOOLEAN
    BY Zenon
  <2>2. (\A n \in {m, Chains!Up(m), Chains!Up(Chains!Up(m))} : Chains!Stands(n)) \in BOOLEAN
    OBVIOUS
  <2>3. QED BY <1>3, <2>1, <2>2, Zenon DEF CheckerState
<1>5. mandate[m].parent # None => mandate[mandate[m].parent].kind # "none"
  BY <1>2 DEF Chains!Rows
<1>6. ASSUME ~state.whole, ~state.errors
      PROVE  ~(Chains!Stands(state.current) /\ Chains!Stands(Chains!Up(state.current)))
  <2>1. Chains!Stands(m)
    BY <1>6 DEF Chains!Faulty
  <2>2. ~(\A n \in {m, Chains!Up(m), Chains!Up(Chains!Up(m))} : Chains!Stands(n))
    BY <1>6
  <2>3. QED BY <1>2, <2>1, <2>2
<1>7. state.at = "cart" /\ state.current = mandate[m].parent
  OBVIOUS
<1> HIDE DEF state
<1>8. QED BY <1>1, <1>4, <1>5, <1>6, <1>7, CheckerStep

LEMMA WalkToCartStep ==
  ASSUME ChainInv, NEW c \in Checkers, Chains!WalkToCart(c)
  PROVE  ChainInv'
<1> DEFINE p == checker[c].current
           faulty == checker[c].errors \/ Chains!Faulty(p, "cart")
                       \/ mandate[checker[c].mandate].amount > mandate[p].amount
           state == [checker[c] EXCEPT !.at = "intent", !.current = Chains!Up(p), !.errors = faulty]
<1>1. checker[c].at = "cart" /\ checker[c] \in CheckerState /\ UNCHANGED <<mandate, active, maker>>
  BY DEF ChainInv, ChainTypes, Chains!WalkToCart
<1>2. checker' = [checker EXCEPT ![c] = state]
  BY DEF Chains!WalkToCart, ChainInv, ChainTypes
<1>3. Chains!Up(p) \in Chains!Rows \cup {None}
  BY DEF ChainInv, ParentsKnown, Chains!Up
<1>4. /\ state \in CheckerState /\ state.at = "intent" /\ state.current = Chains!Up(p)
      /\ state.whole = checker[c].whole
      /\ ~state.errors => ~checker[c].errors /\ ~Chains!Faulty(p, "cart")
  <2>1. faulty \in BOOLEAN /\ Chains!Up(p) \in Mandates \cup {None}
    BY <1>3 DEF Chains!Rows
  <2>2. faulty \/ (~checker[c].errors /\ ~Chains!Faulty(p, "cart"))
    OBVIOUS
  <2> HIDE DEF faulty
  <2>3. QED BY <1>1, <2>1, <2>2 DEF CheckerState
<1>5. state.current # None => mandate[state.current].kind # "none"
  BY <1>3, <1>4 DEF Chains!Rows
<1>6. ASSUME ~state.whole, ~state.errors PROVE ~Chains!Stands(state.current)
  BY <1>1, <1>4, <1>6 DEF ChainInv, BrokenAbove, Chains!Faulty
<1> HIDE DEF state
<1>7. QED BY <1>1, <1>2, <1>4, <1>5, <1>6, CheckerStep

LEMMA WalkToIntentStep ==
  ASSUME ChainInv, NEW c \in Checkers, Chains!WalkToIntent(c)
  PROVE  ChainInv'
<1> DEFINE faulty == checker[c].errors \/ Chains!Faulty(checker[c].current, "intent")
           state == [checker[c] EXCEPT !.at = IF faulty THEN "invalid" ELSE "valid"]
<1>1. checker[c].at = "intent" /\ checker[c] \in CheckerState /\ UNCHANGED <<mandate, active, maker>>
  BY DEF ChainInv, ChainTypes, Chains!WalkToIntent
<1>2. checker' = [checker EXCEPT ![c] = state]
  BY DEF Chains!WalkToIntent, ChainInv, ChainTypes
<1>3. faulty \/ checker[c].whole
  BY <1>1 DEF ChainInv, BrokenAbove, Chains!Faulty
<1>4. /\ state \in CheckerState /\ state.current = checker[c].current /\ state.whole = checker[c].whole
      /\ state.at = "invalid" \/ (state.at = "valid" /\ checker[c].whole)
  <2> HIDE DEF faulty
  <2>1. QED BY <1>1, <1>3 DEF CheckerState
<1>5. state.current # None => mandate[state.current].kind # "none"
  BY <1>4 DEF ChainInv, ParentsKnown
<1> HIDE DEF state
<1>6. QED BY <1>1, <1>2, <1>4, <1>5, CheckerStep

LEMMA ChainStep == ChainInv /\ [Next]_vars => ChainInv'
<1> SUFFICES ASSUME ChainInv, [Next]_vars PROVE ChainInv'
  OBVIOUS
<1>1. CASE UNCHANGED mandates
  <2>1. ChainTypes' /\ MakersApart'
    BY <1>1 DEF mandates, ChainInv, ChainTypes, MakersApart
  <2>2. QED BY <1>1, <2>1, MakerStep DEF mandates
<1>2. CASE Chains!Next
  <2>1. ASSUME NEW r \in Makers, Chains!ValidateMandateChain(r) \/ Chains!InsertMandate(r) \/ Chains!CheckSignature(r)
        PROVE  ChainInv'
    BY <2>1, ValidateStep, InsertStep, SignatureStep
  <2>2. ASSUME NEW r \in Makers, NEW sound \in BOOLEAN, Chains!StartMandate(r, "intent", None, 0, sound)
        PROVE  ChainInv'
    BY <2>2, StartMandateStep
  <2>3. ASSUME NEW r \in Makers, NEW sound \in BOOLEAN, NEW parent \in Chains!Rows,
               NEW kind \in {"cart", "payment"}, NEW amount \in Amounts,
               Chains!StartMandate(r, kind, parent, amount, sound)
        PROVE  ChainInv'
    BY <2>3, StartMandateStep DEF Chains!Rows
  <2>4. ASSUME NEW m \in Mandates, Chains!RevokeMandate(m) PROVE ChainInv'
    BY <2>4, RevokeMandateStep
  <2>5. CASE Chains!SetAgentStatus
    <3>1. active' = ~active /\ UNCHANGED <<mandate, maker, checker>>
      BY <2>5 DEF Chains!SetAgentStatus
    <3>2. ChainTypes' /\ MakersApart'
      BY <3>1 DEF ChainInv, ChainTypes, MakersApart
    <3>3. QED BY <3>1, <3>2, MakerStep
  <2>6. ASSUME NEW c \in Checkers,
               Chains!WalkToCart(c) \/ Chains!WalkToIntent(c) \/ \E m \in Mandates : Chains!LoadMandate(c, m)
        PROVE  ChainInv'
    BY <2>6, WalkToCartStep, WalkToIntentStep, LoadMandateStep
  <2>7. QED BY <1>2, <2>1, <2>2, <2>3, <2>4, <2>5, <2>6 DEF Chains!Next
<1>3. QED BY <1>1, <1>2, HolderFrame

\* The chain of every payment mandate that is accepted stood as a whole when its verification began
\* (verifyMandate, which reads row after row without a transaction).
THEOREM ChainStoodWhole == Spec => []AcceptedStoodWhole
<1>1. ChainInv => AcceptedStoodWhole
  BY DEF ChainInv, BrokenAbove, AcceptedStoodWhole, Chains!AcceptedStoodWhole
<1>2. QED BY <1>1, ChainInit, ChainStep, PTL DEF Spec

-----------------------------------------------------------------------------
(* Refresh sessions.                                                       *)

SessionRow == [status : {"none", "live", "revoked"}, family : Sessions \cup {None}]

\* What a request of a customer is made of; from is a session or a magic link.
RequestTypes ==
    /\ client = [c \in Clients |-> client[c]]
    /\ \A c \in Clients : /\ DOMAIN client[c] = {"at", "from", "prune"}
                          /\ client[c] = [f \in DOMAIN client[c] |-> client[c][f]]
SessionTypes == session \in [Sessions -> SessionRow] /\ RequestTypes

\* A request is set as a whole, or two fields of it.
LEMMA RequestSet ==
  ASSUME RequestTypes, NEW c \in Clients, NEW a, NEW f, NEW p,
         \/ client' = [client EXCEPT ![c] = [at |-> a, from |-> f, prune |-> p]]
         \/ client' = [client EXCEPT ![c] = [@ EXCEPT !.at = a, !.from = f]]
         \/ client' = [client EXCEPT ![c].at = a, ![c].from = f]
  PROVE  /\ RequestTypes' /\ client'[c].at = a /\ client'[c].from = f
         /\ \A d \in Clients \ {c} : client'[d] = client[d]
<1>1. CASE client' = [client EXCEPT ![c] = [at |-> a, from |-> f, prune |-> p]]
  BY <1>1 DEF RequestTypes
<1>2. CASE client' = [client EXCEPT ![c] = [@ EXCEPT !.at = a, !.from = f]]
  BY <1>2 DEF RequestTypes
<1>3. CASE client' = [client EXCEPT ![c].at = a, ![c].from = f]
  BY <1>3 DEF RequestTypes
<1>4. QED BY <1>1, <1>2, <1>3

Heir(s, f) == session[s].status = "live" /\ session[s].family = f
Replaces(c, f) == client[c].at = "replace" /\ session[client[c].from].family = f

\* A family is named after the login it descends from, and that login is a row; who is about to
\* insert a successor has consumed a session.
FamiliesBegun ==
    /\ \A s \in Sessions : session[s].status = "live" =>
          session[s].family \in Sessions /\ session[session[s].family].status # "none"
    /\ \A c \in Clients : client[c].at = "replace" =>
          /\ client[c].from \in Sessions /\ session[client[c].from].status # "none"
          /\ session[client[c].from].family \in Sessions
          /\ session[session[client[c].from].family].status # "none"

OneHeir ==
    \A f \in Sessions :
        /\ \A s, t \in Sessions : Heir(s, f) /\ Heir(t, f) => s = t
        /\ \A c, d \in Clients : Replaces(c, f) /\ Replaces(d, f) => c = d
        /\ \A s \in Sessions, c \in Clients : ~(Heir(s, f) /\ Replaces(c, f))

SessionInv == SessionTypes /\ FamiliesBegun /\ OneHeir

LEMMA SessionInit == Init => SessionInv
<1> SUFFICES ASSUME Access!Init PROVE SessionInv
  BY Zenon DEF Init
<1>1. SessionTypes
  BY DEF SessionTypes, RequestTypes, SessionRow, Access!Init
<1>2. FamiliesBegun /\ OneHeir
  BY DEF FamiliesBegun, OneHeir, Heir, Replaces, Access!Init
<1>3. QED BY <1>1, <1>2 DEF SessionInv

\* A step that revokes sessions and starts no replacement leaves no family another heir.
LEMMA RevokedStep ==
  ASSUME SessionInv, SessionTypes',
         \A s \in Sessions : /\ session'[s].family = session[s].family
                             /\ session'[s].status = "live" => session[s].status = "live"
                             /\ session[s].status # "none" => session'[s].status # "none",
         \A c \in Clients : client'[c].at = "replace" => client[c].at = "replace" /\ client'[c].from = client[c].from
  PROVE  SessionInv'
<1>1. FamiliesBegun'
  BY DEF SessionInv, FamiliesBegun
<1>2. OneHeir'
  <2> SUFFICES ASSUME NEW f \in Sessions
               PROVE  /\ \A s, t \in Sessions : Heir(s, f)' /\ Heir(t, f)' => s = t
                      /\ \A c, d \in Clients : Replaces(c, f)' /\ Replaces(d, f)' => c = d
                      /\ \A s \in Sessions, c \in Clients : ~(Heir(s, f)' /\ Replaces(c, f)')
    BY DEF OneHeir
  <2>1. \A s \in Sessions : Heir(s, f)' => Heir(s, f)
    BY DEF Heir
  <2>2. \A c \in Clients : Replaces(c, f)' => Replaces(c, f)
    BY DEF Replaces, SessionInv, FamiliesBegun
  <2>3. QED BY <2>1, <2>2 DEF SessionInv, OneHeir
<1>3. QED BY <1>1, <1>2 DEF SessionInv

\* What UPDATE .. SET revoked_at does to the rows.
LEMMA RevokedRows ==
  ASSUME SessionTypes, NEW S, session' = Access!Revoked(S)
  PROVE  /\ session' \in [Sessions -> SessionRow]
         /\ \A s \in Sessions : /\ session'[s].family = session[s].family
                                /\ session'[s].status = IF s \in S THEN "revoked" ELSE session[s].status
BY DEF SessionTypes, SessionRow, Access!Revoked

\* A row that is inserted live is the heir of its family, which had none.
LEMMA CreatedStep ==
  ASSUME SessionInv, SessionTypes', NEW c \in Clients, NEW s \in Sessions, NEW family \in Sessions,
         Access!Created(s, family), Access!Goes(c, "ready"),
         \A t \in Sessions : ~Heir(t, family), \A d \in Clients \ {c} : ~Replaces(d, family),
         family = s \/ session[family].status # "none"
  PROVE  SessionInv'
<1>1. /\ session[s].status = "none"
      /\ session'[s] = [status |-> "live", family |-> family]
      /\ \A t \in Sessions \ {s} : session'[t] = session[t]
      /\ client'[c].at = "ready" /\ \A d \in Clients \ {c} : client'[d] = client[d]
  BY RequestSet DEF Access!Created, Access!Goes, SessionInv, SessionTypes
<1>2. FamiliesBegun'
  BY <1>1 DEF SessionInv, FamiliesBegun
<1>3. OneHeir'
  <2> SUFFICES ASSUME NEW f \in Sessions
               PROVE  /\ \A t, u \in Sessions : Heir(t, f)' /\ Heir(u, f)' => t = u
                      /\ \A d, e \in Clients : Replaces(d, f)' /\ Replaces(e, f)' => d = e
                      /\ \A t \in Sessions, d \in Clients : ~(Heir(t, f)' /\ Replaces(d, f)')
    BY DEF OneHeir
  <2>1. \A t \in Sessions : Heir(t, f)' => Heir(t, f) \/ (t = s /\ f = family)
    BY <1>1 DEF Heir
  <2>2. \A d \in Clients : Replaces(d, f)' => d # c /\ Replaces(d, f)
    BY <1>1 DEF Replaces, SessionInv, FamiliesBegun
  <2>3. QED BY <2>1, <2>2 DEF SessionInv, OneHeir
<1>4. QED BY <1>2, <1>3 DEF SessionInv

LEMMA ConsumeStep ==
  ASSUME SessionInv, NEW c \in Clients, NEW s \in Sessions, Access!ConsumeSession(c, s)
  PROVE  SessionInv'
<1> DEFINE where == IF s \in Access!Live THEN "replace" ELSE "reused"
<1>1. /\ session[s].status # "none" /\ client[c].at = "ready"
      /\ session' = Access!Revoked({s})
      /\ client' = [client EXCEPT ![c] = [@ EXCEPT !.at = where, !.from = s]]
  BY DEF Access!ConsumeSession
<1>2. /\ session' \in [Sessions -> SessionRow]
      /\ \A t \in Sessions : /\ session'[t].family = session[t].family
                             /\ session'[t].status = IF t = s THEN "revoked" ELSE session[t].status
  BY <1>1, RevokedRows DEF SessionInv
<1>3. /\ RequestTypes' /\ client'[c].at = where /\ client'[c].from = s
      /\ \A d \in Clients \ {c} : client'[d] = client[d]
  BY <1>1, RequestSet DEF SessionInv, SessionTypes
<1>4. SessionTypes'
  BY <1>2, <1>3 DEF SessionTypes
<1>5. where = "replace" => session[s].status = "live"
  BY DEF Access!Live
<1> HIDE DEF where
<1>6. FamiliesBegun'
  <2>1. \A t \in Sessions : session[t].status # "none" => session'[t].status # "none"
    BY <1>2
  <2>2. \A t \in Sessions : session'[t].status = "live" =>
              session'[t].family \in Sessions /\ session'[session'[t].family].status # "none"
    BY <1>2, <2>1 DEF SessionInv, FamiliesBegun
  <2>3. session[s].status = "live" =>
              session'[s].family \in Sessions /\ session'[session'[s].family].status # "none"
    BY <1>2, <2>1 DEF SessionInv, FamiliesBegun
  <2>4. \A d \in Clients \ {c} : client'[d].at = "replace" =>
              /\ client[d].from \in Sessions /\ session'[client[d].from].status # "none"
              /\ session'[client[d].from].family \in Sessions
              /\ session'[session'[client[d].from].family].status # "none"
    BY <1>2, <1>3, <2>1 DEF SessionInv, FamiliesBegun
  <2>5. client'[c].at = "replace" =>
              /\ client'[c].from \in Sessions /\ session'[client'[c].from].status # "none"
              /\ session'[client'[c].from].family \in Sessions
              /\ session'[session'[client'[c].from].family].status # "none"
    BY <1>1, <1>3, <1>5, <2>1, <2>3
  <2>6. \A d \in Clients : client'[d].at = "replace" =>
              /\ client'[d].from \in Sessions /\ session'[client'[d].from].status # "none"
              /\ session'[client'[d].from].family \in Sessions
              /\ session'[session'[client'[d].from].family].status # "none"
    BY <1>3, <2>4, <2>5
  <2>7. QED BY <2>2, <2>6 DEF FamiliesBegun
<1>7. OneHeir'
  <2> SUFFICES ASSUME NEW f \in Sessions
               PROVE  /\ \A t, u \in Sessions : Heir(t, f)' /\ Heir(u, f)' => t = u
                      /\ \A d, e \in Clients : Replaces(d, f)' /\ Replaces(e, f)' => d = e
                      /\ \A t \in Sessions, d \in Clients : ~(Heir(t, f)' /\ Replaces(d, f)')
    BY DEF OneHeir
  <2>1. \A t \in Sessions : Heir(t, f)' => Heir(t, f) /\ t # s
    BY <1>2 DEF Heir
  <2>2. \A d \in Clients \ {c} : Replaces(d, f)' => Replaces(d, f)
    BY <1>2, <1>3 DEF Replaces, SessionInv, FamiliesBegun
  <2>3. Replaces(c, f)' => Heir(s, f)
    BY <1>2, <1>3, <1>5 DEF Replaces, Heir
  <2>4. QED BY <2>1, <2>2, <2>3 DEF SessionInv, OneHeir
<1>8. QED BY <1>4, <1>6, <1>7 DEF SessionInv

LEMMA IssueSessionStep ==
  ASSUME SessionInv, NEW c \in Clients, NEW s \in Sessions, Access!IssueSession(c, s)
  PROVE  SessionInv'
<1>1. Access!Created(s, s) /\ Access!Goes(c, "ready") /\ session[s].status = "none"
  BY DEF Access!IssueSession, Access!Created
<1>2. SessionTypes'
  BY <1>1, RequestSet DEF SessionInv, SessionTypes, SessionRow, Access!Created, Access!Goes
<1>3. (\A t \in Sessions : ~Heir(t, s)) /\ (\A d \in Clients : ~Replaces(d, s))
  BY <1>1 DEF SessionInv, FamiliesBegun, Heir, Replaces
<1>4. QED BY <1>1, <1>2, <1>3, CreatedStep

LEMMA RotateSessionStep ==
  ASSUME SessionInv, NEW c \in Clients, NEW s \in Sessions, Access!RotateSession(c, s)
  PROVE  SessionInv'
<1> DEFINE family == session[client[c].from].family
<1>1. Access!Created(s, family) /\ Access!Goes(c, "ready") /\ client[c].at = "replace"
  BY DEF Access!RotateSession
<1>2. family \in Sessions /\ session[family].status # "none"
  BY <1>1 DEF SessionInv, FamiliesBegun
<1>3. Replaces(c, family)
  BY <1>1 DEF Replaces
<1> HIDE DEF family
<1>4. SessionTypes'
  BY <1>1, <1>2, RequestSet DEF SessionInv, SessionTypes, SessionRow, Access!Created, Access!Goes
<1>5. (\A t \in Sessions : ~Heir(t, family)) /\ (\A d \in Clients \ {c} : ~Replaces(d, family))
  BY <1>2, <1>3 DEF SessionInv, OneHeir
<1>6. QED BY <1>1, <1>2, <1>4, <1>5, CreatedStep

\* The requests that move without touching a session.
LEMMA RequestMoves ==
  ASSUME SessionInv, UNCHANGED session, NEW c \in Clients, RequestTypes', client'[c].at # "replace",
         \A d \in Clients \ {c} : client'[d] = client[d]
  PROVE  SessionInv'
<1>1. SessionTypes'
  BY DEF SessionInv, SessionTypes
<1>2. QED BY <1>1, RevokedStep

\* The requests that revoke sessions and are done, or go on to insert one.
LEMMA RequestRevokes ==
  ASSUME SessionInv, NEW S, session' = Access!Revoked(S), NEW c \in Clients,
         NEW where \in {"ready", "insert"}, Access!Goes(c, where)
  PROVE  SessionInv'
<1>1. RequestTypes' /\ client'[c].at = where /\ \A d \in Clients \ {c} : client'[d] = client[d]
  BY RequestSet DEF Access!Goes, SessionInv, SessionTypes
<1>2. SessionTypes'
  BY <1>1, RevokedRows DEF SessionInv, SessionTypes
<1>3. QED BY <1>1, <1>2, RevokedRows, RevokedStep DEF SessionInv

LEMMA SessionsStep == SessionInv /\ [Next]_vars => SessionInv'
<1> SUFFICES ASSUME SessionInv, [Next]_vars PROVE SessionInv'
  OBVIOUS
<1>1. CASE UNCHANGED <<session, client>>
  BY <1>1, RevokedStep DEF SessionInv, SessionTypes, RequestTypes
<1>2. CASE Access!Next
  <2>1. ASSUME NEW l \in MagicLinks, Access!SendMagicLink(l)
        PROVE  SessionInv'
    BY <2>1, <1>1 DEF Access!SendMagicLink
  <2>2. ASSUME NEW c \in Clients, NEW l \in MagicLinks, Access!VerifyMagicLink(c, l)
        PROVE  SessionInv'
    <3>1. client' = [client EXCEPT ![c].at = "mark", ![c].from = l] /\ UNCHANGED session
      BY <2>2 DEF Access!VerifyMagicLink
    <3>2. RequestTypes' /\ client'[c].at = "mark" /\ \A d \in Clients \ {c} : client'[d] = client[d]
      BY <3>1, RequestSet DEF SessionInv, SessionTypes
    <3>3. QED BY <3>1, <3>2, RequestMoves
  <2>3. ASSUME NEW c \in Clients, Access!ListSessions(c)
        PROVE  SessionInv'
    <3>1. PICK prune : client' = [client EXCEPT ![c] = [at |-> "prune", from |-> None, prune |-> prune]]
      BY <2>3 DEF Access!ListSessions
    <3>2. UNCHANGED session
      BY <2>3 DEF Access!ListSessions
    <3>3. RequestTypes' /\ client'[c].at = "prune" /\ \A d \in Clients \ {c} : client'[d] = client[d]
      BY <3>1, RequestSet DEF SessionInv, SessionTypes
    <3>4. QED BY <3>2, <3>3, RequestMoves
  <2>4. ASSUME NEW c \in Clients, Access!MarkLinkUsed(c) \/ Access!StartReset(c) \/ Access!RequestFails(c)
        PROVE  SessionInv'
    <3>1. PICK where \in {"ready", "list", "revoke"} : Access!Goes(c, where) /\ UNCHANGED session
      BY <2>4 DEF Access!MarkLinkUsed, Access!StartReset, Access!RequestFails
    <3>2. QED BY <3>1, RequestSet, RequestMoves DEF Access!Goes, SessionInv, SessionTypes
  <2>5. ASSUME NEW c \in Clients, Access!PruneOldest(c) \/ Access!RevokeSessionFamily(c) \/ Access!RevokeAllSessions(c)
        PROVE  SessionInv'
    BY <2>5, RequestRevokes DEF Access!PruneOldest, Access!RevokeSessionFamily, Access!RevokeAllSessions
  <2>6. ASSUME NEW c \in Clients, NEW s \in Sessions,
               Access!IssueSession(c, s) \/ Access!ConsumeSession(c, s) \/ Access!RotateSession(c, s)
        PROVE  SessionInv'
    BY <2>6, IssueSessionStep, ConsumeStep, RotateSessionStep
  <2>7. QED BY <1>2, <2>1, <2>2, <2>3, <2>4, <2>5, <2>6 DEF Access!Next
<1>3. QED BY <1>1, <1>2, HolderFrame DEF sessions

LEMMA FamilyOfOne == SessionInv => Access!FamilyHasOneHeir
<1> SUFFICES ASSUME SessionInv, NEW f \in Sessions
             PROVE  Cardinality({s \in Access!Live : session[s].family = f})
                      + Cardinality({c \in Clients : client[c].at = "replace"
                                                       /\ session[client[c].from].family = f}) <= 1
  BY SameSize, Zenon DEF Access!FamilyHasOneHeir
<1>1. \A s, t \in {s \in Access!Live : session[s].family = f} : s = t
  BY DEF SessionInv, OneHeir, Heir, Access!Live
<1>2. \A c, d \in {c \in Clients : client[c].at = "replace" /\ session[client[c].from].family = f} : c = d
  BY DEF SessionInv, OneHeir, Replaces
<1>3. \A s \in {s \in Access!Live : session[s].family = f},
         c \in {c \in Clients : client[c].at = "replace" /\ session[client[c].from].family = f} : FALSE
  BY DEF SessionInv, OneHeir, Heir, Replaces, Access!Live
<1>4. QED BY ONLY <1>1, <1>2, <1>3, OneBetween

-----------------------------------------------------------------------------
(* Checkout links.                                                         *)

LinkTypes ==
    /\ link \in [Links -> [status : {"none", "open", "void", "expired", "completed"},
                           due : BOOLEAN, stamp : Checkouts \cup {None}]]
    /\ built \in [Checkouts -> [link : Links \cup {None}, status : {"none", "pending", "ordered", "paid"}]]
    /\ start \in [Starts -> [at : {"ready", "build", "stamp"}, link : Links \cup {None},
                             checkout : Checkouts \cup {None}]]
    /\ marks \subseteq Checkouts

\* A stamp, and a stamp that is about to be written, is a checkout that was built from the link;
\* the webhook marks links for a checkout that is paid.
StampsAreBuilt ==
    /\ \A l \in Links : link[l].stamp # None =>
          built[link[l].stamp].link = l /\ built[link[l].stamp].status # "none"
    /\ \A s \in Starts :
          /\ start[s].at # "ready" => start[s].link \in Links
          /\ start[s].at = "stamp" =>
                /\ start[s].checkout \in Checkouts
                /\ built[start[s].checkout].link = start[s].link
                /\ built[start[s].checkout].status # "none"
    /\ \A k \in marks : built[k].status = "paid"

LinkInv == LinkTypes /\ StampsAreBuilt /\ PayLinks!CompletedIsPaid

LEMMA LinkInit == Init => LinkInv
<1> SUFFICES ASSUME PayLinks!Init PROVE LinkInv
  BY Zenon DEF Init
<1>1. QED
  BY DEF LinkInv, LinkTypes, StampsAreBuilt, PayLinks!CompletedIsPaid, PayLinks!Init

\* A link changes but for its stamp, and it is not completed.
LEMMA LinkChanges ==
  ASSUME LinkInv, LinkTypes', UNCHANGED <<built, start, marks>>,
         \A l \in Links : /\ link'[l].stamp = link[l].stamp
                          /\ link'[l].status = "completed" => link[l].status = "completed"
  PROVE  LinkInv'
<1>1. StampsAreBuilt'
  BY DEF LinkInv, StampsAreBuilt
<1>2. PayLinks!CompletedIsPaid'
  BY DEF LinkInv, PayLinks!CompletedIsPaid
<1>3. QED BY <1>1, <1>2 DEF LinkInv

LEMMA LinksStep == LinkInv /\ [Next]_vars => LinkInv'
<1> SUFFICES ASSUME LinkInv, [Next]_vars PROVE LinkInv'
  OBVIOUS
<1>1. CASE UNCHANGED links
  BY <1>1, LinkChanges DEF links, LinkInv, LinkTypes
<1>2. CASE PayLinks!Next
  <2>1. ASSUME NEW l \in Links,
               \/ PayLinks!CreateCheckoutLink(l) \/ PayLinks!VoidCheckoutLink(l)
               \/ PayLinks!ResolveCheckoutLink(l)
        PROVE  LinkInv'
    <3>1. PICK status \in {"open", "void", "expired"} :
             link' = [link EXCEPT ![l].status = status] /\ UNCHANGED <<built, start, marks>>
      BY <2>1 DEF LinkInv, LinkTypes, PayLinks!CreateCheckoutLink, PayLinks!VoidCheckoutLink, PayLinks!ResolveCheckoutLink
    <3>2. /\ LinkTypes'
          /\ \A m \in Links : link'[m].stamp = link[m].stamp /\ link'[m].status \in {link[m].status, status}
      <4>1. LinkTypes'
        BY <3>1 DEF LinkInv, LinkTypes
      <4>2. \A m \in Links : link'[m] = IF m = l THEN [link[l] EXCEPT !.status = status] ELSE link[m]
        BY <3>1 DEF LinkInv, LinkTypes
      <4>3. QED BY <4>1, <4>2 DEF LinkInv, LinkTypes
    <3>3. QED BY <3>1, <3>2, LinkChanges
  <2>2. ASSUME NEW l \in Links, PayLinks!PassesItsDate(l)
        PROVE  LinkInv'
    <3>1. link' = [link EXCEPT ![l].due = TRUE] /\ UNCHANGED <<built, start, marks>>
      BY <2>2 DEF LinkInv, LinkTypes, PayLinks!PassesItsDate
    <3>2. /\ LinkTypes'
          /\ \A m \in Links : link'[m].status = link[m].status /\ link'[m].stamp = link[m].stamp
      <4>1. LinkTypes'
        BY ZenonT(60), <3>1 DEF LinkInv, LinkTypes
      <4>2. \A m \in Links : link'[m] = IF m = l THEN [link[l] EXCEPT !.due = TRUE] ELSE link[m]
        BY <3>1 DEF LinkInv, LinkTypes
      <4>3. \A m \in Links : link'[m].status = link[m].status /\ link'[m].stamp = link[m].stamp
        BY <4>2 DEF LinkInv, LinkTypes
      <4>4. QED BY <4>1, <4>3
    <3>3. QED BY <3>1, <3>2, LinkChanges
  <2>3. ASSUME NEW s \in Starts, NEW l \in Links, PayLinks!LoadByToken(s, l)
        PROVE  LinkInv'
    <3>1. CASE link[l].due
      <4>1. link' = [link EXCEPT ![l].status = "expired"] /\ UNCHANGED <<built, start, marks>>
        BY <2>3, <3>1 DEF LinkInv, LinkTypes, PayLinks!LoadByToken
      <4>2. /\ LinkTypes'
            /\ \A m \in Links : link'[m].stamp = link[m].stamp /\ link'[m].status \in {link[m].status, "expired"}
        BY <4>1 DEF LinkInv, LinkTypes
      <4>3. QED BY <4>1, <4>2, LinkChanges
    <3>2. CASE ~link[l].due
      <4>1. /\ start' = [start EXCEPT ![s] = [at |-> "build", link |-> l, checkout |-> None]]
            /\ UNCHANGED <<link, built, marks>>
        BY <2>3, <3>2 DEF LinkInv, LinkTypes, PayLinks!LoadByToken
      <4>2. LinkTypes'
        BY <4>1 DEF LinkInv, LinkTypes
      <4>3. StampsAreBuilt' /\ PayLinks!CompletedIsPaid'
        BY <4>1 DEF LinkInv, LinkTypes, StampsAreBuilt, PayLinks!CompletedIsPaid
      <4>4. QED BY <4>2, <4>3 DEF LinkInv, LinkTypes, LinkInv
    <3>3. QED BY <3>1, <3>2 DEF LinkInv, LinkTypes
  <2>4. ASSUME NEW s \in Starts, NEW k \in Checkouts, PayLinks!BuildCheckout(s, k)
        PROVE  LinkInv'
    <3>1. /\ built[k].status = "none" /\ start[s].at = "build" /\ start[s].link \in Links
          /\ built' = [built EXCEPT ![k] = [link |-> start[s].link, status |-> "pending"]]
          /\ start' = [start EXCEPT ![s].at = "stamp", ![s].checkout = k]
          /\ UNCHANGED <<link, marks>>
      BY <2>4 DEF LinkInv, LinkTypes, PayLinks!BuildCheckout, StampsAreBuilt
    <3>2. LinkTypes'
      BY ZenonT(60), <3>1 DEF LinkInv, LinkTypes
    <3>3. StampsAreBuilt'
      BY <3>1 DEF LinkInv, LinkTypes, StampsAreBuilt
    <3>4. PayLinks!CompletedIsPaid'
      BY <3>1 DEF LinkInv, LinkTypes, PayLinks!CompletedIsPaid
    <3>5. QED BY <3>2, <3>3, <3>4 DEF LinkInv, LinkTypes
  <2>5. ASSUME NEW s \in Starts, PayLinks!StartFails(s)
        PROVE  LinkInv'
    BY <2>5 DEF LinkInv, LinkTypes, PayLinks!StartFails, StampsAreBuilt, PayLinks!CompletedIsPaid
  <2>6. ASSUME NEW s \in Starts, PayLinks!StampLink(s)
        PROVE  LinkInv'
    <3> DEFINE l == start[s].link
    <3>1. /\ l \in Links /\ start[s].checkout \in Checkouts
          /\ built[start[s].checkout].link = l /\ built[start[s].checkout].status # "none"
          /\ start' = [start EXCEPT ![s] = [at |-> "ready", link |-> None, checkout |-> None]]
          /\ UNCHANGED <<built, marks>>
      BY <2>6 DEF LinkInv, LinkTypes, PayLinks!StampLink, StampsAreBuilt
    <3>2. /\ link' \in [Links -> [status : {"none", "open", "void", "expired", "completed"},
                                 due : BOOLEAN, stamp : Checkouts \cup {None}]]
          /\ \A m \in Links : /\ link'[m].status = link[m].status
                              /\ link'[m].stamp = IF m = l /\ link[l].status = "open"
                                                  THEN start[s].checkout ELSE link[m].stamp
      BY <2>6, <3>1 DEF LinkInv, LinkTypes, PayLinks!StampLink, PayLinks!Open
    <3>3. QED BY <3>1, <3>2 DEF LinkInv, LinkTypes, StampsAreBuilt, PayLinks!CompletedIsPaid
  <2>7. ASSUME NEW k \in Checkouts, PayLinks!PaidByWebhook(k) \/ PayLinks!StorefrontComplete(k)
        PROVE  LinkInv'
    <3>1. PICK status \in {"paid", "ordered"} : built' = [built EXCEPT ![k].status = status]
      BY <2>7 DEF LinkInv, LinkTypes, PayLinks!PaidByWebhook, PayLinks!StorefrontComplete
    <3>2. /\ built[k].status \in {"pending", "ordered"} /\ UNCHANGED <<link, start>>
          /\ marks' = IF status = "paid" THEN marks \cup {k} ELSE marks
      BY <2>7, <3>1 DEF LinkInv, LinkTypes, PayLinks!PaidByWebhook, PayLinks!StorefrontComplete
    <3>3. LinkTypes'
      BY <3>1, <3>2 DEF LinkInv, LinkTypes
    <3>4. StampsAreBuilt'
      BY <3>1, <3>2 DEF LinkInv, LinkTypes, StampsAreBuilt
    <3>5. PayLinks!CompletedIsPaid'
      BY <3>1, <3>2 DEF LinkInv, LinkTypes, PayLinks!CompletedIsPaid
    <3>6. QED BY <3>3, <3>4, <3>5 DEF LinkInv, LinkTypes
  <2>8. ASSUME NEW k \in Checkouts, PayLinks!MarkLinkCompletedByCheckout(k)
        PROVE  LinkInv'
    <3>1. /\ k \in marks /\ marks' = marks \ {k} /\ UNCHANGED <<built, start>>
          /\ link' = [l \in Links |-> IF link[l].status = "open" /\ link[l].stamp = k
                                      THEN [link[l] EXCEPT !.status = "completed"] ELSE link[l]]
      BY <2>8 DEF LinkInv, LinkTypes, PayLinks!MarkLinkCompletedByCheckout, PayLinks!Open
    <3>2. /\ LinkTypes'
          /\ \A l \in Links : /\ link'[l].stamp = link[l].stamp
                              /\ link'[l].status = "completed" => link[l].status = "completed" \/ link[l].stamp = k
      BY SMTT(30), <3>1 DEF LinkInv, LinkTypes
    <3>3. StampsAreBuilt'
      BY <3>1, <3>2 DEF LinkInv, LinkTypes, StampsAreBuilt
    <3>4. PayLinks!CompletedIsPaid'
      <4> SUFFICES ASSUME NEW l \in Links, link'[l].status = "completed"
                   PROVE  link[l].stamp # None /\ built[link[l].stamp] = [link |-> l, status |-> "paid"]
        BY <3>1, <3>2 DEF LinkInv, LinkTypes, PayLinks!CompletedIsPaid
      <4>1. CASE link[l].status = "completed"
        BY <4>1 DEF LinkInv, LinkTypes, PayLinks!CompletedIsPaid
      <4>2. CASE link[l].stamp = k
        <5>1. k # None
          BY NoneAssumption
        <5>2. built[k].link = l /\ built[k].status = "paid"
          BY <3>1, <4>2, <5>1 DEF LinkInv, LinkTypes, StampsAreBuilt
        <5>3. QED BY <4>2, <5>1, <5>2 DEF LinkInv, LinkTypes
      <4>3. QED BY <3>2, <4>1, <4>2 DEF LinkInv, LinkTypes
    <3>5. QED BY <3>2, <3>3, <3>4 DEF LinkInv, LinkTypes
  <2>9. ASSUME NEW k \in Checkouts, PayLinks!MarkIsLost(k)
        PROVE  LinkInv'
    BY <2>9 DEF LinkInv, LinkTypes, PayLinks!MarkIsLost, StampsAreBuilt, PayLinks!CompletedIsPaid
  <2>10. QED
    BY <1>2, <2>1, <2>2, <2>3, <2>4, <2>5, <2>6, <2>7, <2>8, <2>9 DEF PayLinks!Next
<1>3. QED BY <1>1, <1>2, HolderFrame

-----------------------------------------------------------------------------
(* Agent checkouts.                                                        *)

Prices0 == Totals \cup {0}
AgentState == [at : {"ready", "charge", "complete", "record", "capture", "remember"},
               co : Charged \cup {None}, key : Keys \cup {None}, amount : Prices0]

AgentTypes ==
    /\ co \in [Charged -> [status : {"none", "pending", "completed"}, total : Prices0]]
    /\ charge \in [Charged -> SUBSET Nat]
    /\ keyed \in [Charged -> Prices0 \cup {None}]
    /\ bought \in [Charged -> [total : Prices0, paid : BOOLEAN]]
    /\ payment \in [Charged -> [amount : Prices0, status : {"none", "pending", "captured"}]]
    /\ agent \in [Agents -> AgentState]
    /\ \A a \in Agents : agent[a].at # "ready" => agent[a].co \in Charged

\* The provider's idempotency key: no charge without an amount under the key, and
\* one charge under it.
KeyedOnce ==
    \A k \in Charged : IF keyed[k] = None THEN charge[k] = {} ELSE charge[k] = {1}

\* The amount an agent has asked for, or has had charged, is the total of the checkout, and
\* later that of its order, unless the session was totalled again meanwhile.
Agrees(k, amount, total) == amount = total \/ k \in moved
AgentAgrees(a) ==
    LET k == agent[a].co
    IN /\ agent[a].at = "charge" => co[k].status # "none" /\ Agrees(k, agent[a].amount, co[k].total)
       /\ agent[a].at = "complete" /\ agent[a].amount # 0 =>
             /\ co[k].status # "none" /\ Agrees(k, agent[a].amount, co[k].total)
             /\ keyed[k] = agent[a].amount
       /\ agent[a].at \in {"record", "capture"} =>
             /\ co[k].status = "completed" /\ keyed[k] # None /\ Agrees(k, keyed[k], bought[k].total)
       /\ agent[a].at = "capture" => payment[k].status # "none"
PaymentAgrees(k) ==
    /\ payment[k].status # "none" =>
          /\ co[k].status = "completed" /\ payment[k].amount = bought[k].total
          /\ keyed[k] # None /\ Agrees(k, keyed[k], bought[k].total)
    /\ bought[k].paid => payment[k].status # "none"
AmountsAgree == (\A a \in Agents : AgentAgrees(a)) /\ (\A k \in Charged : PaymentAgrees(k))

AgentInv == AgentTypes /\ KeyedOnce /\ AmountsAgree

LEMMA AgentInit == Init => AgentInv
<1> SUFFICES ASSUME Delegated!Init PROVE AgentInv
  BY Zenon DEF Init
<1>1. AgentTypes
  BY DEF AgentTypes, AgentState, Prices0, Delegated!Init, Delegated!Idle
<1>2. KeyedOnce
  BY DEF KeyedOnce, Delegated!Init
<1>3. AmountsAgree
  BY DEF AmountsAgree, AgentAgrees, PaymentAgrees, Delegated!Init, Delegated!Idle
<1>4. QED BY <1>1, <1>2, <1>3 DEF AgentInv

\* What a request does next is a matter of its own fields; nobody else's change.
LEMMA AgentGoes ==
  ASSUME AgentTypes, NEW a \in Agents,
         NEW where \in {"ready", "complete", "record", "capture", "remember"},
         Delegated!Goes(a, where), agent[a].at # "ready"
  PROVE  /\ agent' \in [Agents -> AgentState]
         /\ agent'[a].at = where
         /\ where # "ready" => agent'[a].co = agent[a].co /\ agent'[a].amount = agent[a].amount
         /\ \A b \in Agents \ {a} : agent'[b] = agent[b]
         /\ \A b \in Agents : agent'[b].at # "ready" => agent'[b].co \in Charged
<1>1. agent[a] \in AgentState /\ agent[a].co \in Charged
  BY DEF AgentTypes
<1>2. CASE where = "ready"
  <2>1. agent' = [agent EXCEPT ![a] = Delegated!Idle]
    BY <1>2 DEF Delegated!Goes
  <2>2. Delegated!Idle \in AgentState /\ Delegated!Idle.at = "ready"
    BY DEF Delegated!Idle, AgentState, Prices0
  <2>3. QED BY <1>2, <2>1, <2>2 DEF AgentTypes
<1>3. CASE where # "ready"
  <2>1. agent' = [agent EXCEPT ![a] = [agent[a] EXCEPT !.at = where]]
    BY <1>3 DEF Delegated!Goes
  <2>2. /\ [agent[a] EXCEPT !.at = where] \in AgentState
        /\ [agent[a] EXCEPT !.at = where].at = where
        /\ [agent[a] EXCEPT !.at = where].co = agent[a].co
        /\ [agent[a] EXCEPT !.at = where].amount = agent[a].amount
    BY <1>1 DEF AgentState
  <2>3. QED BY <1>1, <2>1, <2>2 DEF AgentTypes
<1>4. QED BY <1>2, <1>3

\* A request that gives up, or has nothing more to record, changes nothing of the rest.
LEMMA AgentRests ==
  ASSUME AgentInv, NEW a \in Agents, agent[a].at # "ready",
         \/ Delegated!Goes(a, "ready") \/ Delegated!Goes(a, "remember"),
         UNCHANGED <<co, charge, keyed, bought, payment, moved>>
  PROVE  AgentInv'
<1>1. /\ agent' \in [Agents -> AgentState] /\ agent'[a].at \in {"ready", "remember"}
      /\ \A b \in Agents \ {a} : agent'[b] = agent[b]
      /\ \A b \in Agents : agent'[b].at # "ready" => agent'[b].co \in Charged
  BY AgentGoes DEF AgentInv
<1>2. AgentTypes' /\ KeyedOnce'
  BY <1>1 DEF AgentInv, AgentTypes, KeyedOnce
<1>3. AmountsAgree'
  BY <1>1 DEF AgentInv, AmountsAgree, AgentAgrees, PaymentAgrees, Agrees
<1>4. QED BY <1>2, <1>3 DEF AgentInv

LEMMA CreateSessionStep ==
  ASSUME AgentInv, NEW k \in Charged, NEW t \in Totals, Delegated!CreateSession(k, t)
  PROVE  AgentInv'
<1>1. /\ co[k].status = "none" /\ co' = [co EXCEPT ![k] = [status |-> "pending", total |-> t]]
      /\ UNCHANGED <<charge, keyed, bought, payment, agent, moved>>
  BY DEF Delegated!CreateSession
<1>2. AgentTypes' /\ KeyedOnce'
  BY <1>1 DEF AgentInv, AgentTypes, KeyedOnce, Prices0
<1>3. \A j \in Charged \ {k} : co'[j] = co[j]
  BY <1>1 DEF AgentInv, AgentTypes
<1>4. AmountsAgree'
  BY <1>1, <1>3 DEF AgentInv, AgentTypes, AmountsAgree, AgentAgrees, PaymentAgrees, Agrees
<1>5. QED BY <1>2, <1>4 DEF AgentInv

LEMMA UpdateSessionStep ==
  ASSUME AgentInv, NEW k \in Charged, NEW t \in Totals, Delegated!UpdateSession(k, t)
  PROVE  AgentInv'
<1>1. /\ co[k].status = "pending" /\ co' = [co EXCEPT ![k].total = t]
      /\ moved \subseteq moved'
      /\ (keyed[k] # None \/ \E a \in Agents : agent[a].co = k) => k \in moved'
      /\ UNCHANGED <<charge, keyed, bought, payment, agent>>
  BY DEF Delegated!UpdateSession
<1>2. AgentTypes' /\ KeyedOnce'
  BY <1>1 DEF AgentInv, AgentTypes, KeyedOnce, Prices0
<1>3. (\A j \in Charged \ {k} : co'[j] = co[j]) /\ co'[k].status = "pending"
  BY <1>1 DEF AgentInv, AgentTypes
<1>4. AmountsAgree'
  BY <1>1, <1>3 DEF AgentInv, AgentTypes, AmountsAgree, AgentAgrees, PaymentAgrees, Agrees
<1>5. QED BY <1>2, <1>4 DEF AgentInv

LEMMA StartCompletionStep ==
  ASSUME AgentInv, NEW a \in Agents, NEW k \in Charged, NEW i \in Keys, NEW live \in BOOLEAN,
         Delegated!StartCompletion(a, k, i, live)
  PROVE  AgentInv'
<1> DEFINE state == [at |-> IF live THEN "charge" ELSE "complete", co |-> k, key |-> i,
                     amount |-> IF live THEN co[k].total ELSE 0]
<1>1. /\ agent[a].at = "ready" /\ co[k].status # "none" /\ agent' = [agent EXCEPT ![a] = state]
      /\ UNCHANGED <<co, charge, keyed, bought, payment, moved>>
  BY DEF Delegated!StartCompletion
<1>2. /\ state \in AgentState /\ state.co = k
      /\ \/ state.at = "charge" /\ state.amount = co[k].total
         \/ state.at = "complete" /\ state.amount = 0
  BY DEF AgentInv, AgentTypes, AgentState, Prices0
<1> HIDE DEF state
<1>3. agent'[a] = state /\ \A b \in Agents \ {a} : agent'[b] = agent[b]
  BY <1>1 DEF AgentInv, AgentTypes
<1>4. AgentTypes' /\ KeyedOnce'
  BY <1>1, <1>2, <1>3 DEF AgentInv, AgentTypes, KeyedOnce
<1>5. AmountsAgree'
  BY <1>1, <1>2, <1>3 DEF AgentInv, AmountsAgree, AgentAgrees, PaymentAgrees, Agrees
<1>6. QED BY <1>4, <1>5 DEF AgentInv

\* A charge that is made, or found under its key, is for the amount that was asked.
LEMMA AnswersKeep ==
  ASSUME AgentInv, NEW a \in Agents, agent[a].at = "charge",
         Delegated!Answers(agent[a].co, agent[a].amount)
  PROVE  LET k == agent[a].co
         IN /\ keyed' \in [Charged -> Prices0 \cup {None}] /\ charge' \in [Charged -> SUBSET Nat]
            /\ KeyedOnce' /\ keyed'[k] = agent[a].amount
            /\ \A j \in Charged : keyed[j] # None => keyed'[j] = keyed[j]
<1> DEFINE k == agent[a].co
           amount == agent[a].amount
<1>1. k \in Charged /\ amount \in Prices0 /\ amount # None
  BY NoneAssumption DEF AgentInv, AgentTypes, AgentState, Prices0
<1> HIDE DEF k, amount
<1>2. CASE keyed[k] = None /\ keyed' = [keyed EXCEPT ![k] = amount]
             /\ charge' = [charge EXCEPT ![k] = @ \cup {Delegated!Cardinality(@) + 1}]
  <2>1. Delegated!Cardinality({}) = 0
    BY FS_EmptySet DEF Delegated!Cardinality, Cardinality
  <2>2. charge[k] = {}
    BY <1>1, <1>2 DEF AgentInv, KeyedOnce
  <2>3. charge' = [charge EXCEPT ![k] = {1}]
    <3>1. charge[k] \cup {Delegated!Cardinality(charge[k]) + 1} = {1}
      BY <2>1, <2>2
    <3>2. QED BY <1>2, <3>1
  <2>4. /\ keyed' \in [Charged -> Prices0 \cup {None}] /\ charge' \in [Charged -> SUBSET Nat]
        /\ \A j \in Charged \ {k} : keyed'[j] = keyed[j] /\ charge'[j] = charge[j]
        /\ keyed'[k] = amount /\ charge'[k] = {1}
    BY <1>1, <1>2, <2>3 DEF AgentInv, AgentTypes
  <2>5. KeyedOnce'
    BY <1>1, <2>4 DEF AgentInv, KeyedOnce
  <2>6. QED BY <1>2, <2>4, <2>5 DEF k, amount
<1>3. CASE keyed[k] = amount /\ UNCHANGED <<keyed, charge>>
  BY <1>1, <1>3 DEF AgentInv, AgentTypes, KeyedOnce, k, amount
<1>4. QED BY <1>2, <1>3 DEF Delegated!Answers, k, amount

LEMMA ChargeStep ==
  ASSUME AgentInv, NEW a \in Agents, agent[a].at = "charge",
         Delegated!Answers(agent[a].co, agent[a].amount),
         NEW where \in {"ready", "complete"}, Delegated!Goes(a, where),
         UNCHANGED <<co, bought, payment, moved>>
  PROVE  AgentInv'
<1>1. /\ agent' \in [Agents -> AgentState] /\ agent'[a].at = where
      /\ where # "ready" => agent'[a].co = agent[a].co /\ agent'[a].amount = agent[a].amount
      /\ \A b \in Agents \ {a} : agent'[b] = agent[b]
      /\ \A b \in Agents : agent'[b].at # "ready" => agent'[b].co \in Charged
  BY AgentGoes DEF AgentInv
<1>2. /\ keyed' \in [Charged -> Prices0 \cup {None}] /\ charge' \in [Charged -> SUBSET Nat]
      /\ KeyedOnce' /\ keyed'[agent[a].co] = agent[a].amount
      /\ \A j \in Charged : keyed[j] # None => keyed'[j] = keyed[j]
  BY AnswersKeep
<1>3. AgentTypes'
  BY <1>1, <1>2 DEF AgentInv, AgentTypes
<1>4. AmountsAgree'
  <2>1. AgentAgrees(a)'
    BY <1>1, <1>2 DEF AgentInv, AmountsAgree, AgentAgrees, Agrees
  <2>2. ASSUME NEW b \in Agents \ {a} PROVE AgentAgrees(b)'
    <3>1. AgentAgrees(b) /\ agent'[b] = agent[b] /\ (agent[b].at # "ready" => agent[b].co \in Charged)
      BY <1>1 DEF AgentInv, AgentTypes, AmountsAgree
    <3>2. agent[b].amount # None
      BY NoneAssumption DEF AgentInv, AgentTypes, AgentState, Prices0
    <3>3. QED BY <1>2, <3>1, <3>2 DEF AgentAgrees, Agrees
  <2>3. ASSUME NEW j \in Charged PROVE PaymentAgrees(j)'
    BY <1>2 DEF AgentInv, AmountsAgree, PaymentAgrees, Agrees
  <2>4. QED BY <2>1, <2>2, <2>3 DEF AmountsAgree
<1>5. QED BY <1>2, <1>3, <1>4 DEF AgentInv

LEMMA CompleteStep ==
  ASSUME AgentInv, NEW a \in Agents, Delegated!CompleteCheckout(a)
  PROVE  AgentInv'
<1> DEFINE k == agent[a].co
           where == IF agent[a].amount = 0 THEN "remember" ELSE "record"
<1>1. /\ agent[a].at = "complete" /\ k \in Charged /\ co[k].status = "pending"
      /\ co' = [co EXCEPT ![k].status = "completed"]
      /\ bought' = [bought EXCEPT ![k].total = co[k].total]
      /\ Delegated!Goes(a, where)
      /\ UNCHANGED <<charge, keyed, payment, moved>>
  BY DEF Delegated!CompleteCheckout, AgentInv, AgentTypes
<1>2. /\ agent' \in [Agents -> AgentState] /\ agent'[a].at = where
      /\ agent'[a].co = k /\ agent'[a].amount = agent[a].amount
      /\ \A b \in Agents \ {a} : agent'[b] = agent[b]
      /\ \A b \in Agents : agent'[b].at # "ready" => agent'[b].co \in Charged
  BY <1>1, AgentGoes DEF AgentInv
<1>3. /\ co' \in [Charged -> [status : {"none", "pending", "completed"}, total : Prices0]]
      /\ co'[k].status = "completed" /\ co'[k].total = co[k].total
      /\ \A j \in Charged \ {k} : co'[j] = co[j]
  BY SMTT(30), <1>1 DEF AgentInv, AgentTypes
<1>4. /\ bought' \in [Charged -> [total : Prices0, paid : BOOLEAN]]
      /\ bought'[k].total = co[k].total /\ bought'[k].paid = bought[k].paid
      /\ \A j \in Charged \ {k} : bought'[j] = bought[j]
  BY SMTT(30), <1>1 DEF AgentInv, AgentTypes
<1>5. AgentTypes' /\ KeyedOnce'
  BY <1>1, <1>2, <1>3, <1>4 DEF AgentInv, AgentTypes, KeyedOnce
<1>6. agent[a].amount # 0 => keyed[k] = agent[a].amount /\ Agrees(k, keyed[k], co[k].total)
  BY <1>1 DEF AgentInv, AmountsAgree, AgentAgrees, PaymentAgrees
<1>7. agent[a].amount # None
  BY NoneAssumption DEF AgentInv, AgentTypes, AgentState, Prices0
<1>8. payment[k].status = "none" /\ ~bought[k].paid
        /\ \A b \in Agents : agent[b].co = k => agent[b].at \notin {"record", "capture"}
  BY <1>1 DEF AgentInv, AmountsAgree, AgentAgrees, PaymentAgrees
<1>9. AmountsAgree'
  <2>1. AgentAgrees(a)'
    BY <1>1, <1>2, <1>3, <1>4, <1>6, <1>7 DEF AgentAgrees, Agrees
  <2>2. ASSUME NEW b \in Agents \ {a} PROVE AgentAgrees(b)'
    <3>1. AgentAgrees(b) /\ agent'[b] = agent[b] /\ (agent[b].at # "ready" => agent[b].co \in Charged)
      BY <1>2 DEF AgentInv, AgentTypes, AmountsAgree
    <3>2. QED BY SMTT(30), <1>1, <1>3, <1>4, <1>8, <3>1 DEF AgentAgrees, Agrees
  <2>3. ASSUME NEW j \in Charged PROVE PaymentAgrees(j)'
    BY <1>1, <1>3, <1>4, <1>8 DEF AgentInv, AmountsAgree, PaymentAgrees, Agrees
  <2>4. QED BY <2>1, <2>2, <2>3 DEF AmountsAgree
<1>10. QED BY <1>5, <1>9 DEF AgentInv

LEMMA CreatePaymentStep ==
  ASSUME AgentInv, NEW a \in Agents, Delegated!CreatePayment(a)
  PROVE  AgentInv'
<1> DEFINE k == agent[a].co
<1>1. /\ agent[a].at = "record" /\ k \in Charged
      /\ payment' = [payment EXCEPT ![k] = [amount |-> bought[k].total, status |-> "pending"]]
      /\ Delegated!Goes(a, "capture")
      /\ UNCHANGED <<co, charge, keyed, bought, moved>>
  BY DEF Delegated!CreatePayment, AgentInv, AgentTypes
<1>2. agent' = [agent EXCEPT ![a].at = "capture"]
  BY <1>1 DEF Delegated!Goes
<1>3. /\ agent' \in [Agents -> AgentState] /\ agent'[a].at = "capture" /\ agent'[a].co = k
      /\ \A b \in Agents \ {a} : agent'[b] = agent[b]
  BY <1>2 DEF AgentInv, AgentTypes, AgentState
<1>4. /\ payment' \in [Charged -> [amount : Prices0, status : {"none", "pending", "captured"}]]
      /\ payment'[k].amount = bought[k].total /\ payment'[k].status = "pending"
      /\ \A j \in Charged \ {k} : payment'[j] = payment[j]
  BY <1>1 DEF AgentInv, AgentTypes
<1>5. AgentTypes' /\ KeyedOnce'
  BY <1>1, <1>3, <1>4 DEF AgentInv, AgentTypes, KeyedOnce
<1>6. AmountsAgree'
  BY <1>1, <1>3, <1>4 DEF AgentInv, AgentTypes, AmountsAgree, AgentAgrees, PaymentAgrees, Agrees
<1>7. QED BY <1>5, <1>6 DEF AgentInv

LEMMA CapturePaymentStep ==
  ASSUME AgentInv, NEW a \in Agents, Delegated!CapturePayment(a)
  PROVE  AgentInv'
<1> DEFINE k == agent[a].co
<1>1. /\ agent[a].at = "capture" /\ k \in Charged
      /\ payment' = [payment EXCEPT ![k].status = "captured"]
      /\ bought' = [bought EXCEPT ![k].paid = TRUE]
      /\ Delegated!Goes(a, "remember")
      /\ UNCHANGED <<co, charge, keyed, moved>>
  BY DEF Delegated!CapturePayment, AgentInv, AgentTypes
<1>2. /\ agent' \in [Agents -> AgentState] /\ agent'[a].at = "remember"
      /\ \A b \in Agents \ {a} : agent'[b] = agent[b]
      /\ \A b \in Agents : agent'[b].at # "ready" => agent'[b].co \in Charged
  BY <1>1, AgentGoes DEF AgentInv
<1>3. /\ payment' \in [Charged -> [amount : Prices0, status : {"none", "pending", "captured"}]]
      /\ payment'[k].amount = payment[k].amount /\ payment'[k].status = "captured"
      /\ \A j \in Charged \ {k} : payment'[j] = payment[j]
  BY <1>1 DEF AgentInv, AgentTypes
<1>4. /\ bought' \in [Charged -> [total : Prices0, paid : BOOLEAN]]
      /\ bought'[k].total = bought[k].total /\ \A j \in Charged \ {k} : bought'[j] = bought[j]
  BY <1>1 DEF AgentInv, AgentTypes
<1>5. AgentTypes' /\ KeyedOnce'
  BY <1>1, <1>2, <1>3, <1>4 DEF AgentInv, AgentTypes, KeyedOnce
<1>6. payment[k].status # "none"
  BY <1>1 DEF AgentInv, AmountsAgree, AgentAgrees, PaymentAgrees
<1>7. AmountsAgree'
  <2>1. AgentAgrees(a)'
    BY <1>2 DEF AgentAgrees
  <2>2. ASSUME NEW b \in Agents \ {a} PROVE AgentAgrees(b)'
    <3>1. AgentAgrees(b) /\ agent'[b] = agent[b] /\ (agent[b].at # "ready" => agent[b].co \in Charged)
      BY <1>2 DEF AgentInv, AgentTypes, AmountsAgree
    <3>2. QED BY <1>1, <1>3, <1>4, <3>1 DEF AgentAgrees, Agrees
  <2>3. ASSUME NEW j \in Charged PROVE PaymentAgrees(j)'
    BY <1>1, <1>3, <1>4, <1>6 DEF AgentInv, AmountsAgree, PaymentAgrees, Agrees
  <2>4. QED BY <2>1, <2>2, <2>3 DEF AmountsAgree
<1>8. QED BY <1>5, <1>7 DEF AgentInv

LEMMA AgentsStep == AgentInv /\ [Next]_vars => AgentInv'
<1> SUFFICES ASSUME AgentInv, [Next]_vars PROVE AgentInv'
  OBVIOUS
<1>1. CASE UNCHANGED <<co, charge, keyed, bought, payment, agent, moved>>
  BY <1>1 DEF AgentInv, AgentTypes, KeyedOnce, AmountsAgree, AgentAgrees, PaymentAgrees, Agrees
<1>2. CASE Delegated!Next
  <2>1. CASE Delegated!Crash
    <3>1. /\ agent' = [a \in Agents |-> Delegated!Idle] /\ Delegated!Idle \in AgentState
          /\ Delegated!Idle.at = "ready" /\ UNCHANGED <<co, charge, keyed, bought, payment, moved>>
      BY <2>1 DEF Delegated!Crash, Delegated!Idle, AgentState, Prices0
    <3>2. AgentTypes' /\ KeyedOnce'
      BY <3>1 DEF AgentInv, AgentTypes, KeyedOnce
    <3>3. AmountsAgree'
      BY <3>1 DEF AgentInv, AmountsAgree, AgentAgrees, PaymentAgrees, Agrees
    <3>4. QED BY <3>2, <3>3 DEF AgentInv
  <2>2. ASSUME NEW i \in Keys, Delegated!ForgetAnswer(i) PROVE AgentInv'
    BY <1>1, <2>2 DEF Delegated!ForgetAnswer
  <2>3. ASSUME NEW k \in Charged, NEW t \in Totals,
               Delegated!CreateSession(k, t) \/ Delegated!UpdateSession(k, t)
        PROVE  AgentInv'
    BY <2>3, CreateSessionStep, UpdateSessionStep
  <2>4. ASSUME NEW a \in Agents, Delegated!ChargeStripeDelegated(a) \/ Delegated!ChargeAnswerLost(a)
        PROVE  AgentInv'
    BY <2>4, ChargeStep DEF Delegated!ChargeStripeDelegated, Delegated!ChargeAnswerLost
  <2>5. ASSUME NEW a \in Agents,
               \/ Delegated!ChargeRefused(a) \/ Delegated!CompletionRefused(a)
               \/ Delegated!RecordFails(a) \/ Delegated!RememberAnswer(a)
        PROVE  AgentInv'
    BY <2>5, AgentRests
       DEF Delegated!ChargeRefused, Delegated!CompletionRefused, Delegated!RecordFails, Delegated!RememberAnswer
  <2>6. ASSUME NEW a \in Agents,
               Delegated!CompleteCheckout(a) \/ Delegated!CreatePayment(a) \/ Delegated!CapturePayment(a)
        PROVE  AgentInv'
    BY <2>6, CompleteStep, CreatePaymentStep, CapturePaymentStep
  <2>7. ASSUME NEW a \in Agents, NEW k \in Charged, NEW i \in Keys, NEW live \in BOOLEAN,
               Delegated!StartCompletion(a, k, i, live)
        PROVE  AgentInv'
    BY <2>7, StartCompletionStep
  <2>8. QED BY <1>2, <2>1, <2>2, <2>3, <2>4, <2>5, <2>6, <2>7 DEF Delegated!Next
<1>3. QED BY <1>1, <1>2, HolderFrame DEF agents

\* However often a session is completed by agents, over lost answers and restarts, its token is
\* charged once (the idempotency key of chargeStripeDelegated).
THEOREM AgentChargedOnce == Spec => []ChargedOnce
<1>1. AgentInv => ChargedOnce
  <2>1. Delegated!Cardinality({}) = 0 /\ Delegated!Cardinality({1}) = 1
    BY FS_EmptySet, FS_Singleton DEF Delegated!Cardinality, Cardinality
  <2>2. QED BY <2>1 DEF AgentInv, KeyedOnce, ChargedOnce, Delegated!ChargedOnce
<1>2. QED BY <1>1, AgentInit, AgentsStep, PTL DEF Spec

\* What is completed is paid and what is paid was charged: a completed link carries a paid
\* checkout that was built from it, and an order an agent has paid was charged for its total.
THEOREM CompletedPaid == Spec => []CompletedIsPaidFor
<1>1. LinkInv /\ AgentInv => CompletedIsPaidFor
  <2>1. LinkInv => PayLinks!CompletedIsPaid
    BY DEF LinkInv
  <2>2. AgentInv => Delegated!PaidIsCharged
    BY DEF AgentInv, AgentTypes, KeyedOnce, AmountsAgree, AgentAgrees, PaymentAgrees, Agrees, Delegated!PaidIsCharged
  <2>3. QED BY <2>1, <2>2 DEF CompletedIsPaidFor
<1>2. QED BY <1>1, LinkInit, LinksStep, AgentInit, AgentsStep, PTL DEF Spec

-----------------------------------------------------------------------------
(* The wallet of a customer.                                               *)

WalletTypes ==
    /\ balance \in Nat \cup {None}
    /\ entries \in Seq([delta : Int, after : Nat])
    /\ wreq \in [Requests -> [at : {"lock", "write", "done"}, delta : Int, read : Nat]]

\* Who is about to write has the lock of the row and knows its balance; an entry is
\* written with the row.
WriterKnows ==
    /\ \A r \in Requests : wreq[r].at = "write" =>
          holder = r /\ wreq[r].read = IF balance = None THEN 0 ELSE balance
    /\ balance = None => entries = <<>>

WalletInv == WalletTypes /\ WriterKnows /\ Wallet!WalletLedgerAddsUp

LEMMA WalletInit == Init => WalletInv
<1> SUFFICES ASSUME Wallet!Init PROVE WalletInv
  BY Zenon DEF Init
<1>1. WalletTypes /\ WriterKnows
  BY DEF WalletTypes, WriterKnows, Wallet!Init
<1>2. Wallet!WalletLedgerAddsUp
  BY DEF Wallet!WalletLedgerAddsUp, Wallet!Init
<1>3. QED BY <1>1, <1>2 DEF WalletInv

\* A step that writes neither the balance nor an entry.
LEMMA WalletUntouched ==
  ASSUME WalletInv, UNCHANGED <<balance, entries>>, WalletTypes', WriterKnows'
  PROVE  WalletInv'
BY DEF WalletInv, Wallet!WalletLedgerAddsUp, Wallet!Before

LEMMA LockRowStep ==
  ASSUME WalletInv, NEW r \in Requests, Wallet!LockRow(r)
  PROVE  WalletInv'
<1>1. PICK delta \in Deltas :
        wreq' = [wreq EXCEPT ![r] = [at |-> "write", delta |-> delta,
                                     read |-> IF balance = None THEN 0 ELSE balance]]
  BY DEF Wallet!LockRow, Wallet!Reads
<1>2. /\ holder = None /\ holder' = r /\ UNCHANGED <<balance, entries>>
  BY DEF Wallet!LockRow, Wallet!Reads
<1>3. WalletTypes'
  BY <1>1, <1>2, LedgerAssumption DEF WalletInv, WalletTypes
<1>4. WriterKnows'
  BY <1>1, <1>2, NoneAssumption DEF WalletInv, WalletTypes, WriterKnows
<1>5. QED BY <1>2, <1>3, <1>4, WalletUntouched

LEMMA WriteStep ==
  ASSUME WalletInv, NEW r \in Requests, Wallet!Write(r)
  PROVE  WalletInv'
<1> DEFINE new == wreq[r].read + wreq[r].delta
           entry == [delta |-> wreq[r].delta, after |-> new]
           Earlier(s, i) == IF i = 1 THEN 0 ELSE s[i - 1].after
<1>1. /\ wreq[r].at = "write" /\ holder' = None /\ wreq' = [wreq EXCEPT ![r].at = "done"]
      /\ holder = r /\ wreq[r].read = IF balance = None THEN 0 ELSE balance
  BY DEF Wallet!Write, Wallet!End, WalletInv, WriterKnows
<1>2. \A q \in Requests : wreq'[q].at # "write"
  BY <1>1 DEF WalletInv, WalletTypes, WriterKnows
<1>3. wreq' \in [Requests -> [at : {"lock", "write", "done"}, delta : Int, read : Nat]]
  BY <1>1 DEF WalletInv, WalletTypes
<1>4. CASE new < 0
  <2>1. UNCHANGED <<balance, entries>>
    BY <1>4 DEF Wallet!Write
  <2>2. WalletTypes' /\ WriterKnows'
    BY <1>2, <1>3, <2>1 DEF WalletInv, WalletTypes, WriterKnows
  <2>3. QED BY <2>1, <2>2, WalletUntouched
<1>5. CASE ~(new < 0)
  <2>1. balance' = new /\ entries' = Append(entries, entry)
    BY <1>5 DEF Wallet!Write
  <2>2. new \in Nat /\ wreq[r].delta \in Int
    BY <1>5 DEF WalletInv, WalletTypes
  <2>3. WalletTypes'
    BY <1>3, <2>1, <2>2 DEF WalletInv, WalletTypes
  <2>4. WriterKnows'
    BY <1>2, <2>1, <2>2, NoneAssumption DEF WriterKnows
  <2>5. /\ entries \in Seq([delta : Int, after : Nat])
        /\ Len(entries') = Len(entries) + 1 /\ entries'[Len(entries) + 1] = entry
        /\ \A i \in 1..Len(entries) : entries'[i] = entries[i]
    BY <2>1, <2>2 DEF WalletInv, WalletTypes
  <2>6. wreq[r].read = Earlier(entries, Len(entries) + 1)
    BY <1>1, NoneAssumption DEF WalletInv, WriterKnows, Wallet!WalletLedgerAddsUp, Wallet!Before
  <2>7. ASSUME NEW i \in 1..Len(entries) + 1 PROVE Earlier(entries', i) = Earlier(entries, i)
    <3>1. Len(entries) \in Nat
      BY <2>5
    <3>2. i = 1 \/ i - 1 \in 1..Len(entries)
      BY <3>1
    <3>3. i = 1 \/ entries'[i - 1] = entries[i - 1]
      BY <2>5, <3>2
    <3>4. QED BY <3>3
  <2>8. ASSUME NEW i \in 1..Len(entries')
        PROVE  entries'[i].after = Earlier(entries', i) + entries'[i].delta /\ entries'[i].after >= 0
    <3>1. CASE i = Len(entries) + 1
      <4>1. entries'[i] = entry /\ Earlier(entries', i) = wreq[r].read
        BY <3>1, <2>5, <2>6, <2>7
      <4>2. QED BY <4>1, <2>2
    <3>2. CASE i \in 1..Len(entries)
      <4>1. entries[i].after = Earlier(entries, i) + entries[i].delta /\ entries[i].after >= 0
        BY <3>2 DEF WalletInv, Wallet!WalletLedgerAddsUp, Wallet!Before
      <4>2. Earlier(entries', i) = Earlier(entries, i) /\ entries'[i] = entries[i]
        BY <3>2, <2>5, <2>7
      <4>3. QED BY <4>1, <4>2, Zenon
    <3>3. QED BY <3>1, <3>2, <2>5
  <2>9. balance' = Earlier(entries', Len(entries') + 1)
    BY <2>1, <2>5
  <2>10. Wallet!WalletLedgerAddsUp'
    BY <2>8, <2>9 DEF Wallet!WalletLedgerAddsUp, Wallet!Before
  <2>11. QED BY <2>3, <2>4, <2>10 DEF WalletInv
<1>6. QED BY <1>4, <1>5

LEMMA WalletStepped == WalletInv /\ [Next]_vars => WalletInv'
<1> SUFFICES ASSUME WalletInv, [Next]_vars PROVE WalletInv'
  OBVIOUS
<1>1. CASE UNCHANGED wallets
  BY <1>1 DEF wallets, WalletInv, WalletTypes, WriterKnows, Wallet!WalletLedgerAddsUp, Wallet!Before
<1>2. ASSUME NEW r \in Requests, Wallet!NoWallet(r) \/ Wallet!Rollback(r)
      PROVE  WalletInv'
  <2>1. /\ wreq' = [wreq EXCEPT ![r].at = "done"] /\ UNCHANGED <<balance, entries>>
        /\ holder' = holder \/ wreq[r].at = "write"
    BY <1>2 DEF Wallet!NoWallet, Wallet!Rollback, Wallet!End
  <2>2. WalletTypes' /\ WriterKnows'
    BY <2>1 DEF WalletInv, WalletTypes, WriterKnows
  <2>3. QED BY <2>1, <2>2, WalletUntouched
<1>3. ASSUME Wallet!Next PROVE WalletInv'
  BY <1>2, <1>3, LockRowStep, WriteStep DEF Wallet!Next
<1>4. QED BY <1>1, <1>3, LedgerFrame

-----------------------------------------------------------------------------
(* The downloads.                                                          *)

DownloadRow == [made : BOOLEAN, expired : BOOLEAN, count : Nat, holder : Readers \cup {None}]
ReaderState == [at : {"ready", "redeem"}, link : Files \cup {None}, count : Nat]

DownloadTypes ==
    /\ download \in [Files -> DownloadRow]
    /\ reader \in [Readers -> ReaderState]
    /\ served \in [Files -> Nat]

\* Who redeems has the lock of the link, which is not used up: its count was asked
\* under the lock and nobody else can have counted since.
RedeemerHolds ==
    \A r \in Readers : reader[r].at = "redeem" =>
        /\ reader[r].link \in Files
        /\ download[reader[r].link].holder = r /\ download[reader[r].link].count < MaxDownloads

CountedWithinMax == \A l \in Files : served[l] <= download[l].count /\ download[l].count <= MaxDownloads

DownloadInv == DownloadTypes /\ RedeemerHolds /\ CountedWithinMax

LEMMA DownloadInit == Init => DownloadInv
<1> SUFFICES ASSUME Downloads!Init PROVE DownloadInv
  BY Zenon DEF Init
<1> QED BY LedgerAssumption
     DEF DownloadInv, DownloadTypes, DownloadRow, ReaderState, RedeemerHolds, CountedWithinMax, Downloads!Init

LEMMA LinkRowStep ==
  ASSUME DownloadInv, NEW l \in Files,
         Downloads!GenerateDownloadLinks(l) \/ Downloads!Expire(l)
  PROVE  DownloadInv'
<1>1. /\ \/ download' = [download EXCEPT ![l].made = TRUE]
         \/ download' = [download EXCEPT ![l].expired = TRUE]
      /\ UNCHANGED <<reader, served>>
  BY DEF Downloads!GenerateDownloadLinks, Downloads!Expire
<1>2. download \in [Files -> DownloadRow]
  BY DEF DownloadInv, DownloadTypes
<1>3. [download[l] EXCEPT !.made = TRUE] \in DownloadRow /\ [download[l] EXCEPT !.expired = TRUE] \in DownloadRow
  BY <1>2 DEF DownloadRow
<1>4. \/ download' = [download EXCEPT ![l] = [download[l] EXCEPT !.made = TRUE]]
      \/ download' = [download EXCEPT ![l] = [download[l] EXCEPT !.expired = TRUE]]
  BY <1>1
<1>5. \A k \in Files : download'[k].count = download[k].count /\ download'[k].holder = download[k].holder
  BY <1>2, <1>4 DEF DownloadRow
<1>6. DownloadTypes'
  BY <1>1, <1>2, <1>3, <1>4 DEF DownloadInv, DownloadTypes
<1>7. RedeemerHolds' /\ CountedWithinMax'
  BY <1>1, <1>5 DEF DownloadInv, RedeemerHolds, CountedWithinMax
<1>8. QED BY <1>6, <1>7 DEF DownloadInv

LEMMA ValidateTokenStep ==
  ASSUME DownloadInv, NEW r \in Readers, NEW l \in Files, Downloads!ValidateToken(r, l)
  PROVE  DownloadInv'
<1>1. /\ download[l].holder = None /\ download[l].count < MaxDownloads
      /\ download' = [download EXCEPT ![l].holder = r]
      /\ reader' = [reader EXCEPT ![r] = [at |-> "redeem", link |-> l, count |-> download[l].count]]
      /\ UNCHANGED served
  BY DEF Downloads!ValidateToken
<1>2. DownloadTypes'
  BY <1>1 DEF DownloadInv, DownloadTypes, DownloadRow, ReaderState
<1>3. RedeemerHolds'
  BY <1>1, NoneAssumption DEF DownloadInv, DownloadTypes, DownloadRow, ReaderState, RedeemerHolds
<1>4. CountedWithinMax'
  BY <1>1 DEF DownloadInv, DownloadTypes, DownloadRow, ReaderState, CountedWithinMax
<1>5. QED BY <1>2, <1>3, <1>4 DEF DownloadInv

LEMMA RedeemStep ==
  ASSUME DownloadInv, NEW r \in Readers, Downloads!Redeem(r) \/ Downloads!RedeemFails(r)
  PROVE  DownloadInv'
<1> DEFINE l == reader[r].link
<1>1. /\ reader[r].at = "redeem" /\ l \in Files
      /\ download[l].holder = r /\ download[l].count < MaxDownloads
      /\ reader' = [reader EXCEPT ![r].at = "ready", ![r].link = None]
  BY DEF Downloads!Redeem, Downloads!RedeemFails, DownloadInv, RedeemerHolds
<1>2. download \in [Files -> DownloadRow] /\ served \in [Files -> Nat] /\ MaxDownloads \in Nat
  BY LedgerAssumption DEF DownloadInv, DownloadTypes
<1>3. \E n \in {0, 1} :
         /\ download' = [download EXCEPT ![l] = [download[l] EXCEPT !.count = @ + n, !.holder = None]]
         /\ served' = [served EXCEPT ![l] = @ + n]
  <2>1. CASE Downloads!Redeem(r)
    <3>1. /\ download' = [download EXCEPT ![l] = [download[l] EXCEPT !.count = @ + 1, !.holder = None]]
          /\ served' = [served EXCEPT ![l] = @ + 1]
      BY <2>1, <1>1, <1>2 DEF Downloads!Redeem
    <3>2. QED BY <3>1
  <2>2. CASE Downloads!RedeemFails(r)
    <3>1. /\ download' = [download EXCEPT ![l] = [download[l] EXCEPT !.holder = None, !.count = @]]
          /\ served' = served
      BY <2>2, <1>1, <1>2 DEF Downloads!RedeemFails
    <3>2. download[l].count + 0 = download[l].count /\ served[l] + 0 = served[l]
      BY <1>1, <1>2 DEF DownloadRow
    <3>3. [download[l] EXCEPT !.count = @ + 0, !.holder = None] = [download[l] EXCEPT !.holder = None, !.count = @]
      BY <1>1, <1>2, <3>2 DEF DownloadRow
    <3>4. served' = [served EXCEPT ![l] = @ + 0]
      BY <1>1, <1>2, <3>1, <3>2
    <3>5. QED BY <3>1, <3>3, <3>4, Zenon
  <2>3. QED BY <2>1, <2>2
<1>4. PICK n \in {0, 1} :
        /\ download' = [download EXCEPT ![l] = [download[l] EXCEPT !.count = @ + n, !.holder = None]]
        /\ served' = [served EXCEPT ![l] = @ + n]
  BY <1>3
<1>5. [download[l] EXCEPT !.count = @ + n, !.holder = None] \in DownloadRow
  <2>1. download[l] \in DownloadRow
    BY <1>1, <1>2
  <2>2. download[l].count + n \in Nat
    BY <1>4, <2>1 DEF DownloadRow
  <2>3. \A c \in Nat : [download[l] EXCEPT !.count = c, !.holder = None] \in DownloadRow
    BY <2>1 DEF DownloadRow
  <2>4. QED BY <2>2, <2>3
<1>6. \A k \in Files :
        /\ download'[k].count = IF k = l THEN download[k].count + n ELSE download[k].count
        /\ download'[k].holder = IF k = l THEN None ELSE download[k].holder
        /\ served'[k] = IF k = l THEN served[k] + n ELSE served[k]
  BY <1>1, <1>2, <1>4 DEF DownloadRow
<1>7. DownloadTypes'
  <2>1. download' \in [Files -> DownloadRow]
    BY <1>1, <1>2, <1>4, <1>5
  <2>2. served' \in [Files -> Nat]
    BY <1>1, <1>2, <1>4
  <2>3. reader' \in [Readers -> ReaderState]
    <3>1. [reader[r] EXCEPT !.at = "ready", !.link = None] \in ReaderState
      BY DEF DownloadInv, DownloadTypes, ReaderState
    <3>2. reader' = [reader EXCEPT ![r] = [reader[r] EXCEPT !.at = "ready", !.link = None]]
      BY <1>1 DEF DownloadInv, DownloadTypes
    <3>3. QED BY <3>1, <3>2 DEF DownloadInv, DownloadTypes
  <2>4. QED BY <2>1, <2>2, <2>3 DEF DownloadTypes
<1>8. RedeemerHolds'
  BY <1>1, <1>6 DEF DownloadInv, DownloadTypes, ReaderState, RedeemerHolds
<1>9. CountedWithinMax'
  <2>1. \A k \in Files : download[k].count \in Nat
    BY <1>2 DEF DownloadRow
  <2>2. QED BY <1>1, <1>2, <1>6, <2>1 DEF DownloadInv, CountedWithinMax
<1>10. QED BY <1>7, <1>8, <1>9 DEF DownloadInv

LEMMA DownloadsStepped == DownloadInv /\ [Next]_vars => DownloadInv'
<1> SUFFICES ASSUME DownloadInv, [Next]_vars PROVE DownloadInv'
  OBVIOUS
<1>1. CASE UNCHANGED downloads
  BY <1>1 DEF downloads, DownloadInv, DownloadTypes, RedeemerHolds, CountedWithinMax
<1>2. CASE Downloads!Next
  BY <1>2, LinkRowStep, ValidateTokenStep, RedeemStep DEF Downloads!Next
<1>3. QED BY <1>1, <1>2, LedgerFrame

-----------------------------------------------------------------------------
(* The wallet of an organisation and its vouchers.                         *)

LEMMA SameCount == \A S : Cloud!Cardinality(S) = Cardinality(S)
BY DEF Cloud!Cardinality, Cardinality

\* Two subsets of a finite set that differ in one element at most.
LEMMA OneMoves ==
  ASSUME NEW S, IsFiniteSet(S), NEW A, NEW B, A \subseteq S, B \subseteq S,
         NEW x \in S, \A y \in S : y # x => (y \in A <=> y \in B)
  PROVE  /\ Cardinality(A) \in Nat /\ Cardinality(B) \in Nat
         /\ Cardinality(B) = Cardinality(A) - (IF x \in A THEN 1 ELSE 0) + (IF x \in B THEN 1 ELSE 0)
<1>1. IsFiniteSet(A) /\ IsFiniteSet(B)
  BY FS_Subset
<1>2. Cardinality(A) \in Nat /\ Cardinality(B) \in Nat
  BY <1>1, FS_CardinalityType
<1>3. CASE x \in A <=> x \in B
  <2>1. A = B
    BY <1>3
  <2>2. QED BY <1>2, <1>3, <2>1
<1>4. CASE x \in A /\ x \notin B
  <2>1. A = B \cup {x}
    BY <1>4
  <2>2. Cardinality(A) = Cardinality(B) + 1
    BY <1>1, <1>4, <2>1, FS_AddElement
  <2>3. QED BY <1>2, <1>4, <2>2
<1>5. CASE x \notin A /\ x \in B
  <2>1. B = A \cup {x}
    BY <1>5
  <2>2. Cardinality(B) = Cardinality(A) + 1
    BY <1>1, <1>5, <2>1, FS_AddElement
  <2>3. QED BY <1>2, <1>5, <2>2
<1>6. QED BY <1>3, <1>4, <1>5

MoverState == [at : {"balance", "entry", "done"}, kind : {"credit", "debit"}]
ApplyState == [at : {"read", "count", "redeem", "applied", "refused"}, org : Orgs \cup {None}]

CloudTypes ==
    /\ funds \in Nat /\ ledger \in [credit : Nat, debit : Nat]
    /\ mover \in [Movers -> MoverState]
    /\ topups \in Nat /\ count \in Nat /\ kfaults \in Nat
    /\ redeemed \subseteq Orgs /\ IsFiniteSet(redeemed)
    /\ applying \in [Redeemers -> ApplyState]

Redeeming == {v \in Redeemers : applying[v].at = "redeem"}

\* Whoever is about to record a redemption has counted it, and who has the discount
\* stands in the table, alone for its organisation.
RedemptionsCounted ==
    /\ \A v \in Redeemers : applying[v].at \in {"count", "redeem", "applied"} => applying[v].org \in Orgs
    /\ \A v \in Cloud!Applied : applying[v].org \in redeemed
    /\ \A v, w \in Cloud!Applied : applying[v].org = applying[w].org => v = w
    /\ Cardinality(redeemed) + Cardinality(Redeeming) <= count

CloudInv == CloudTypes /\ Cloud!FundsAddUp /\ RedemptionsCounted

LEMMA CloudInit == Init => CloudInv
<1> SUFFICES ASSUME Cloud!Init PROVE CloudInv
  BY Zenon DEF Init
<1>1. CloudTypes
  BY FS_EmptySet DEF CloudTypes, MoverState, ApplyState, Cloud!Init
<1>2. Redeeming = {} /\ redeemed = {} /\ Cloud!Applied = {}
  BY DEF Redeeming, Cloud!Init, Cloud!Applied
<1>3. RedemptionsCounted
  <2>1. Cardinality({}) = 0
    BY FS_EmptySet
  <2>2. QED BY <1>2, <2>1 DEF RedemptionsCounted, Cloud!Init
<1>4. \A kind : {m \in Movers : mover[m].at = "entry" /\ mover[m].kind = kind} = {}
  BY DEF Cloud!Init
<1>5. \A kind : Cloud!Entering(kind) = 0
  BY <1>4, SameCount, FS_EmptySet DEF Cloud!Entering
<1>6. Cloud!FundsAddUp
  BY <1>5 DEF Cloud!FundsAddUp, Cloud!Init
<1>7. QED BY <1>1, <1>3, <1>6 DEF CloudInv

\* Who has moved the funds and not written the entry.
Lagging(f, kind) == {m \in Movers : f[m].at = "entry" /\ f[m].kind = kind}

\* A mover changes: the lagging entries of a kind are one more or one less, or as many.
LEMMA LaggingMoves ==
  ASSUME NEW m \in Movers, NEW kind, \A q \in Movers : q # m => mover'[q] = mover[q]
  PROVE  /\ Cardinality(Lagging(mover, kind)) \in Nat /\ Cardinality(Lagging(mover', kind)) \in Nat
         /\ Cardinality(Lagging(mover', kind)) = Cardinality(Lagging(mover, kind))
               - (IF mover[m].at = "entry" /\ mover[m].kind = kind THEN 1 ELSE 0)
               + (IF mover'[m].at = "entry" /\ mover'[m].kind = kind THEN 1 ELSE 0)
<1>1. /\ Lagging(mover, kind) \subseteq Movers /\ Lagging(mover', kind) \subseteq Movers
      /\ \A q \in Movers : q # m => (q \in Lagging(mover, kind) <=> q \in Lagging(mover', kind))
      /\ m \in Lagging(mover, kind) <=> mover[m].at = "entry" /\ mover[m].kind = kind
      /\ m \in Lagging(mover', kind) <=> mover'[m].at = "entry" /\ mover'[m].kind = kind
  BY DEF Lagging
<1>2. IsFiniteSet(Movers)
  BY LedgerAssumption
<1>3. QED BY <1>1, <1>2, OneMoves

\* FundsAddUp over what lags behind, before a step and after it.
FundsAgree(f, l, w, t, n) ==
    LET in == l.credit + Cardinality(Lagging(f, "credit")) + t
        out == l.debit + Cardinality(Lagging(f, "debit")) + w
    IN in <= out + n /\ out <= in + n

LEMMA LaggingAddsUp ==
  /\ Cloud!FundsAddUp <=> FundsAgree(mover, ledger, funds, topups, kfaults)
  /\ Cloud!FundsAddUp' <=> FundsAgree(mover', ledger', funds', topups', kfaults')
<1>1. /\ Cloud!Entering("credit") = Cardinality(Lagging(mover, "credit"))
      /\ Cloud!Entering("debit") = Cardinality(Lagging(mover, "debit"))
  BY SameCount DEF Cloud!Entering, Lagging
<1>2. /\ Cloud!Entering("credit")' = Cardinality(Lagging(mover', "credit"))
      /\ Cloud!Entering("debit")' = Cardinality(Lagging(mover', "debit"))
  BY SameCount DEF Cloud!Entering, Lagging
<1>3. QED BY <1>1, <1>2 DEF Cloud!FundsAddUp, FundsAgree

LEMMA MoveFundsStep ==
  ASSUME CloudInv, NEW m \in Movers, Cloud!MoveFunds(m)
  PROVE  CloudInv'
<1> DEFINE cr == Cardinality(Lagging(mover, "credit"))
           de == Cardinality(Lagging(mover, "debit"))
           crn == Cardinality(Lagging(mover', "credit"))
           den == Cardinality(Lagging(mover', "debit"))
<1>1. UNCHANGED <<ledger, topups, count, redeemed, applying, kfaults>>
  BY DEF Cloud!MoveFunds
<1>2. mover \in [Movers -> MoverState] /\ funds \in Nat /\ ledger.credit \in Nat /\ ledger.debit \in Nat
      /\ topups \in Nat /\ kfaults \in Nat /\ mover[m].at = "balance"
  BY DEF CloudInv, CloudTypes, Cloud!MoveFunds
<1>3. PICK step \in {"entry", "done"}, kind \in {"credit", "debit"} :
        /\ mover' = [mover EXCEPT ![m] = [at |-> step, kind |-> kind]]
        /\ funds' \in Nat
        /\ step = "done" => funds' = funds
        /\ step = "entry" /\ kind = "credit" => funds' = funds + 1
        /\ step = "entry" /\ kind = "debit" => funds' = funds - 1
  BY <1>2 DEF Cloud!MoveFunds, Cloud!MovesTo
<1>4. mover' \in [Movers -> MoverState]
  BY <1>2, <1>3 DEF MoverState
<1>5. \A q \in Movers : q # m => mover'[q] = mover[q]
  BY <1>2, <1>3
<1>6. mover'[m].at = step /\ mover'[m].kind = kind
  BY <1>2, <1>3
<1>7. /\ cr \in Nat /\ crn \in Nat
      /\ crn = cr + IF step = "entry" /\ kind = "credit" THEN 1 ELSE 0
  <2> HIDE DEF cr, crn
  <2>1. /\ cr \in Nat /\ crn \in Nat
        /\ crn = cr - (IF mover[m].at = "entry" /\ mover[m].kind = "credit" THEN 1 ELSE 0)
               + (IF mover'[m].at = "entry" /\ mover'[m].kind = "credit" THEN 1 ELSE 0)
    BY <1>5, LaggingMoves, Zenon DEF cr, crn
  <2>2. QED BY <1>2, <1>6, <2>1
<1>8. /\ de \in Nat /\ den \in Nat
      /\ den = de + IF step = "entry" /\ kind = "debit" THEN 1 ELSE 0
  <2> HIDE DEF de, den
  <2>1. /\ de \in Nat /\ den \in Nat
        /\ den = de - (IF mover[m].at = "entry" /\ mover[m].kind = "debit" THEN 1 ELSE 0)
               + (IF mover'[m].at = "entry" /\ mover'[m].kind = "debit" THEN 1 ELSE 0)
    BY <1>5, LaggingMoves, Zenon DEF de, den
  <2>2. QED BY <1>2, <1>6, <2>1
<1>9. Cloud!FundsAddUp'
  <2>1. FundsAgree(mover, ledger, funds, topups, kfaults)
    BY LaggingAddsUp, Zenon DEF CloudInv
  <2>2. FundsAgree(mover', ledger', funds', topups', kfaults')
    <3> HIDE DEF cr, de, crn, den
    <3>1. /\ ledger.credit + cr + topups <= ledger.debit + de + funds + kfaults
          /\ ledger.debit + de + funds <= ledger.credit + cr + topups + kfaults
      BY <2>1, Zenon DEF FundsAgree, cr, de
    <3>2. /\ ledger.credit + crn + topups <= ledger.debit + den + funds' + kfaults
          /\ ledger.debit + den + funds' <= ledger.credit + crn + topups + kfaults
      <4>1. /\ step = "done" => crn = cr /\ den = de
            /\ step = "entry" /\ kind = "credit" => crn = cr + 1 /\ den = de
            /\ step = "entry" /\ kind = "debit" => crn = cr /\ den = de + 1
        BY <1>7, <1>8
      <4>2. funds \in Nat /\ funds' \in Nat /\ cr \in Nat /\ de \in Nat /\ topups \in Nat /\ kfaults \in Nat
            /\ ledger.credit \in Nat /\ ledger.debit \in Nat
        BY <1>2, <1>3, <1>7, <1>8
      <4>3. CASE step = "done"
        BY ONLY <1>3, <4>1, <4>2, <4>3, <3>1
      <4>4. CASE step = "entry" /\ kind = "credit"
        BY ONLY <1>3, <4>1, <4>2, <4>4, <3>1
      <4>5. CASE step = "entry" /\ kind = "debit"
        BY ONLY <1>3, <4>1, <4>2, <4>5, <3>1
      <4>6. QED BY <1>3, <4>3, <4>4, <4>5
    <3>3. QED BY <1>1, <3>2 DEF FundsAgree, crn, den
  <2>3. QED BY <2>2, LaggingAddsUp, Zenon
<1>10. CloudTypes'
  BY <1>1, <1>3, <1>4 DEF CloudInv, CloudTypes
<1>11. RedemptionsCounted'
  BY <1>1 DEF CloudInv, RedemptionsCounted, Redeeming, Cloud!Applied
<1>12. QED BY <1>9, <1>10, <1>11 DEF CloudInv

LEMMA LedgerEntryStep ==
  ASSUME CloudInv, NEW m \in Movers, Cloud!LedgerEntry(m)
  PROVE  CloudInv'
<1> DEFINE cr == Cardinality(Lagging(mover, "credit"))
           de == Cardinality(Lagging(mover, "debit"))
           crn == Cardinality(Lagging(mover', "credit"))
           den == Cardinality(Lagging(mover', "debit"))
           kind == mover[m].kind
<1>1. /\ UNCHANGED <<funds, topups, count, redeemed, applying, kfaults>> /\ mover[m].at = "entry"
      /\ ledger' = [ledger EXCEPT ![mover[m].kind] = @ + 1]
      /\ mover' = [mover EXCEPT ![m].at = "done"]
  BY DEF Cloud!LedgerEntry
<1>2. mover \in [Movers -> MoverState] /\ funds \in Nat /\ ledger \in [credit : Nat, debit : Nat]
      /\ topups \in Nat /\ kfaults \in Nat
  BY DEF CloudInv, CloudTypes
<1>3. mover' \in [Movers -> MoverState] /\ mover'[m].at = "done" /\ kind \in {"credit", "debit"}
  BY <1>1, <1>2 DEF MoverState
<1>4. ledger' \in [credit : Nat, debit : Nat]
  BY <1>1, <1>2, <1>3
<1>5. \A q \in Movers : q # m => mover'[q] = mover[q]
  BY <1>1, <1>2
<1>6. /\ ledger'.credit = ledger.credit + IF kind = "credit" THEN 1 ELSE 0
      /\ ledger'.debit = ledger.debit + IF kind = "debit" THEN 1 ELSE 0
  BY <1>1, <1>2, <1>3
<1>7. /\ cr \in Nat /\ crn \in Nat
      /\ crn = cr - IF kind = "credit" THEN 1 ELSE 0
  <2> HIDE DEF cr, crn
  <2>1. /\ cr \in Nat /\ crn \in Nat
        /\ crn = cr - (IF mover[m].at = "entry" /\ mover[m].kind = "credit" THEN 1 ELSE 0)
               + (IF mover'[m].at = "entry" /\ mover'[m].kind = "credit" THEN 1 ELSE 0)
    BY <1>5, LaggingMoves, Zenon DEF cr, crn
  <2>2. QED BY <1>1, <1>3, <2>1
<1>8. /\ de \in Nat /\ den \in Nat
      /\ den = de - IF kind = "debit" THEN 1 ELSE 0
  <2> HIDE DEF de, den
  <2>1. /\ de \in Nat /\ den \in Nat
        /\ den = de - (IF mover[m].at = "entry" /\ mover[m].kind = "debit" THEN 1 ELSE 0)
               + (IF mover'[m].at = "entry" /\ mover'[m].kind = "debit" THEN 1 ELSE 0)
    BY <1>5, LaggingMoves, Zenon DEF de, den
  <2>2. QED BY <1>1, <1>3, <2>1
<1>9. Cloud!FundsAddUp'
  <2>1. FundsAgree(mover, ledger, funds, topups, kfaults)
    BY LaggingAddsUp, Zenon DEF CloudInv
  <2>2. FundsAgree(mover', ledger', funds', topups', kfaults')
    <3> HIDE DEF cr, de, crn, den
    <3>1. /\ ledger.credit + cr + topups <= ledger.debit + de + funds + kfaults
          /\ ledger.debit + de + funds <= ledger.credit + cr + topups + kfaults
      BY <2>1, Zenon DEF FundsAgree, cr, de
    <3>2. /\ ledger'.credit + crn + topups <= ledger'.debit + den + funds + kfaults
          /\ ledger'.debit + den + funds <= ledger'.credit + crn + topups + kfaults
      BY <1>2, <1>3, <1>4, <1>6, <1>7, <1>8, <3>1
    <3>3. QED BY <1>1, <3>2 DEF FundsAgree, crn, den
  <2>3. QED BY <2>2, LaggingAddsUp, Zenon
<1>10. CloudTypes'
  BY <1>1, <1>3, <1>4 DEF CloudInv, CloudTypes
<1>11. RedemptionsCounted'
  BY <1>1 DEF CloudInv, RedemptionsCounted, Redeeming, Cloud!Applied
<1>12. QED BY <1>9, <1>10, <1>11 DEF CloudInv

LEMMA TopupWalletStep ==
  ASSUME CloudInv, Cloud!TopupWallet
  PROVE  CloudInv'
<1>1. /\ topups' = topups + 1 /\ funds' = funds + 1
      /\ UNCHANGED <<ledger, mover, count, redeemed, applying, kfaults>>
  BY DEF Cloud!TopupWallet
<1>2. funds \in Nat /\ topups \in Nat /\ kfaults \in Nat /\ ledger.credit \in Nat /\ ledger.debit \in Nat
  BY DEF CloudInv, CloudTypes
<1>3. IsFiniteSet(Lagging(mover, "credit")) /\ IsFiniteSet(Lagging(mover, "debit"))
  <2>1. Lagging(mover, "credit") \subseteq Movers /\ Lagging(mover, "debit") \subseteq Movers
    BY DEF Lagging
  <2>2. QED BY <2>1, LedgerAssumption, FS_Subset
<1>4. Cardinality(Lagging(mover, "credit")) \in Nat /\ Cardinality(Lagging(mover, "debit")) \in Nat
  BY <1>3, FS_CardinalityType
<1>5. Cloud!FundsAddUp'
  <2>1. FundsAgree(mover, ledger, funds, topups, kfaults)
    BY LaggingAddsUp, Zenon DEF CloudInv
  <2>2. FundsAgree(mover', ledger', funds', topups', kfaults')
    BY <1>1, <1>2, <1>4, <2>1 DEF FundsAgree
  <2>3. QED BY <2>2, LaggingAddsUp, Zenon
<1>6. CloudTypes'
  BY <1>1, <1>2 DEF CloudInv, CloudTypes
<1>7. RedemptionsCounted'
  BY <1>1 DEF CloudInv, RedemptionsCounted, Redeeming, Cloud!Applied
<1>8. QED BY <1>5, <1>6, <1>7 DEF CloudInv

\* A statement of a mover fails: one entry less is to come, and one fault more.
LEMMA MoverFailsStep ==
  ASSUME CloudInv, NEW m \in Movers, mover[m].at # "done", mover' = [mover EXCEPT ![m].at = "done"],
         kfaults' = kfaults + 1, UNCHANGED <<funds, ledger, topups, count, redeemed, applying>>
  PROVE  CloudInv'
<1> DEFINE cr == Cardinality(Lagging(mover, "credit"))
           de == Cardinality(Lagging(mover, "debit"))
           crn == Cardinality(Lagging(mover', "credit"))
           den == Cardinality(Lagging(mover', "debit"))
           kind == mover[m].kind
<1>1. mover \in [Movers -> MoverState] /\ funds \in Nat /\ ledger.credit \in Nat /\ ledger.debit \in Nat
      /\ topups \in Nat /\ kfaults \in Nat
  BY DEF CloudInv, CloudTypes
<1>2. mover' \in [Movers -> MoverState] /\ mover'[m].at = "done" /\ kind \in {"credit", "debit"}
  BY <1>1 DEF MoverState
<1>3. \A q \in Movers : q # m => mover'[q] = mover[q]
  BY <1>1
<1>4. /\ cr \in Nat /\ crn \in Nat
      /\ crn = cr - IF mover[m].at = "entry" /\ kind = "credit" THEN 1 ELSE 0
  <2> HIDE DEF cr, crn
  <2>1. /\ cr \in Nat /\ crn \in Nat
        /\ crn = cr - (IF mover[m].at = "entry" /\ kind = "credit" THEN 1 ELSE 0)
               + (IF mover'[m].at = "entry" /\ mover'[m].kind = "credit" THEN 1 ELSE 0)
    BY <1>3, LaggingMoves, Zenon DEF cr, crn
  <2>2. QED BY <1>2, <2>1
<1>5. /\ de \in Nat /\ den \in Nat
      /\ den = de - IF mover[m].at = "entry" /\ kind = "debit" THEN 1 ELSE 0
  <2> HIDE DEF de, den
  <2>1. /\ de \in Nat /\ den \in Nat
        /\ den = de - (IF mover[m].at = "entry" /\ kind = "debit" THEN 1 ELSE 0)
               + (IF mover'[m].at = "entry" /\ mover'[m].kind = "debit" THEN 1 ELSE 0)
    BY <1>3, LaggingMoves, Zenon DEF de, den
  <2>2. QED BY <1>2, <2>1
<1>6. Cloud!FundsAddUp'
  <2>1. FundsAgree(mover, ledger, funds, topups, kfaults)
    BY LaggingAddsUp, Zenon DEF CloudInv
  <2>2. FundsAgree(mover', ledger', funds', topups', kfaults')
    <3> HIDE DEF cr, de, crn, den
    <3>1. /\ ledger.credit + cr + topups <= ledger.debit + de + funds + kfaults
          /\ ledger.debit + de + funds <= ledger.credit + cr + topups + kfaults
      BY <2>1, Zenon DEF FundsAgree, cr, de
    <3>2. /\ ledger.credit + crn + topups <= ledger.debit + den + funds + (kfaults + 1)
          /\ ledger.debit + den + funds <= ledger.credit + crn + topups + (kfaults + 1)
      BY <1>1, <1>2, <1>4, <1>5, <3>1
    <3>3. QED BY <3>2 DEF FundsAgree, crn, den
  <2>3. QED BY <2>2, LaggingAddsUp, Zenon
<1>7. CloudTypes'
  BY <1>1, <1>2 DEF CloudInv, CloudTypes
<1>8. RedemptionsCounted'
  BY DEF CloudInv, RedemptionsCounted, Redeeming, Cloud!Applied
<1>9. QED BY <1>6, <1>7, <1>8 DEF CloudInv

\* A step of a voucher leaves the funds alone, or is a fault more.
LEMMA FundsUntouched ==
  ASSUME CloudInv, UNCHANGED <<funds, ledger, mover, topups>>,
         kfaults' \in {kfaults, kfaults + 1}
  PROVE  Cloud!FundsAddUp'
<1>1. funds \in Nat /\ topups \in Nat /\ kfaults \in Nat /\ ledger.credit \in Nat /\ ledger.debit \in Nat
  BY DEF CloudInv, CloudTypes
<1>2. IsFiniteSet(Lagging(mover, "credit")) /\ IsFiniteSet(Lagging(mover, "debit"))
  <2>1. Lagging(mover, "credit") \subseteq Movers /\ Lagging(mover, "debit") \subseteq Movers
    BY DEF Lagging
  <2>2. QED BY <2>1, LedgerAssumption, FS_Subset
<1>3. Cardinality(Lagging(mover, "credit")) \in Nat /\ Cardinality(Lagging(mover, "debit")) \in Nat
  BY <1>2, FS_CardinalityType
<1>4. FundsAgree(mover, ledger, funds, topups, kfaults)
  BY LaggingAddsUp, Zenon DEF CloudInv
<1>5. FundsAgree(mover', ledger', funds', topups', kfaults')
  BY <1>1, <1>3, <1>4 DEF FundsAgree
<1>6. QED BY <1>5, LaggingAddsUp, Zenon

\* The steps of a voucher: v comes to a step, for the organisation it stands for.
LEMMA VoucherStep ==
  ASSUME CloudInv, NEW v \in Redeemers, UNCHANGED <<funds, ledger, mover, topups>>,
         kfaults' \in {kfaults, kfaults + 1},
         NEW step \in {"count", "redeem", "applied", "refused"}, NEW g \in Orgs \cup {None},
         step # "refused" => g \in Orgs,
         applying' = [applying EXCEPT ![v] = [at |-> step, org |-> g]],
         \/ step = "refused" /\ applying[v].at # "applied" /\ UNCHANGED <<count, redeemed>>
         \/ step = "count" /\ applying[v].at = "read" /\ UNCHANGED <<count, redeemed>>
         \/ step = "redeem" /\ applying[v].at = "count" /\ count' = count + 1 /\ redeemed' = redeemed
         \/ /\ step = "applied" /\ applying[v].at = "redeem" /\ g \notin redeemed
            /\ redeemed' = redeemed \cup {g} /\ count' = count
  PROVE  CloudInv'
<1>1. Cloud!FundsAddUp'
  BY FundsUntouched
<1>2. applying \in [Redeemers -> ApplyState] /\ count \in Nat /\ redeemed \subseteq Orgs /\ IsFiniteSet(redeemed)
  BY DEF CloudInv, CloudTypes
<1>3. applying' \in [Redeemers -> ApplyState]
  <2>1. [at |-> step, org |-> g] \in ApplyState
    BY DEF ApplyState
  <2>2. QED BY <1>2, <2>1
<1>4. /\ \A q \in Redeemers : q # v => applying'[q] = applying[q]
      /\ applying'[v].at = step /\ applying'[v].org = g
  BY <1>2
<1>5. IsFiniteSet(redeemed')
  BY <1>2, FS_AddElement
<1>6. CloudTypes'
  BY <1>2, <1>3, <1>5 DEF CloudInv, CloudTypes
<1>7. /\ Cardinality(Redeeming) \in Nat /\ Cardinality(Redeeming') \in Nat
      /\ Cardinality(Redeeming') = Cardinality(Redeeming)
            - (IF applying[v].at = "redeem" THEN 1 ELSE 0) + (IF step = "redeem" THEN 1 ELSE 0)
  <2>1. /\ Redeeming \subseteq Redeemers /\ Redeeming' \subseteq Redeemers
        /\ \A q \in Redeemers : q # v => (q \in Redeeming <=> q \in Redeeming')
        /\ v \in Redeeming <=> applying[v].at = "redeem"
        /\ v \in Redeeming' <=> step = "redeem"
    BY <1>4 DEF Redeeming
  <2>2. IsFiniteSet(Redeemers)
    BY LedgerAssumption
  <2>3. QED BY <2>1, <2>2, OneMoves
<1>8. /\ Cardinality(redeemed) \in Nat /\ Cardinality(redeemed') \in Nat
      /\ Cardinality(redeemed') = Cardinality(redeemed) + IF step = "applied" THEN 1 ELSE 0
  <2>1. Cardinality(redeemed) \in Nat
    BY <1>2, FS_CardinalityType
  <2>2. CASE step = "applied"
    <3>1. redeemed' = redeemed \cup {g} /\ g \notin redeemed
      BY <2>2
    <3>2. Cardinality(redeemed') = Cardinality(redeemed) + 1
      BY <1>2, <3>1, FS_AddElement
    <3>3. QED BY <2>1, <2>2, <3>2
  <2>3. CASE step # "applied"
    BY <2>1, <2>3
  <2>4. QED BY <2>2, <2>3
<1>9. Cardinality(redeemed') + Cardinality(Redeeming') <= count'
  <2>1. Cardinality(redeemed) + Cardinality(Redeeming) <= count
    BY DEF CloudInv, RedemptionsCounted
  <2> DEFINE a == Cardinality(redeemed)
             an == Cardinality(redeemed')
             b == Cardinality(Redeeming)
             bn == Cardinality(Redeeming')
  <2> HIDE DEF a, an, b, bn
  <2>2. /\ a \in Nat /\ an = a + (IF step = "applied" THEN 1 ELSE 0) /\ a + b <= count
        /\ b \in Nat /\ bn = b - (IF applying[v].at = "redeem" THEN 1 ELSE 0) + (IF step = "redeem" THEN 1 ELSE 0)
    BY <1>7, <1>8, <2>1, Zenon DEF a, an, b, bn
  <2>3. an + bn <= count'
    BY <1>2, <2>2
  <2>4. QED BY <2>3, Zenon DEF an, bn
<1>10. /\ \A q \in Redeemers : applying'[q].at \in {"count", "redeem", "applied"} => applying'[q].org \in Orgs
       /\ \A q \in Cloud!Applied' : applying'[q].org \in redeemed'
       /\ \A q, w \in Cloud!Applied' : applying'[q].org = applying'[w].org => q = w
  <2>1. /\ \A q \in Redeemers : applying[q].at \in {"count", "redeem", "applied"} => applying[q].org \in Orgs
        /\ \A q \in Redeemers : applying[q].at = "applied" => applying[q].org \in redeemed
        /\ \A q, w \in Redeemers : /\ applying[q].at = "applied" /\ applying[w].at = "applied"
                                    /\ applying[q].org = applying[w].org
                                    => q = w
    BY DEF CloudInv, RedemptionsCounted, Cloud!Applied
  <2>2. Cloud!Applied' = {q \in Redeemers : applying'[q].at = "applied"}
    BY DEF Cloud!Applied
  <2>3. \A q \in Redeemers : applying'[q].at = "applied" =>
           /\ q # v => applying[q].at = "applied" /\ applying'[q].org = applying[q].org
           /\ q = v => applying'[q].org = g /\ g \notin redeemed /\ redeemed' = redeemed \cup {g}
    BY <1>4
  <2>4. \A q \in Cloud!Applied' : applying'[q].org \in redeemed'
    BY <2>1, <2>2, <2>3
  <2>5. \A q, w \in Cloud!Applied' : applying'[q].org = applying'[w].org => q = w
    BY <2>1, <2>2, <2>3
  <2>6. \A q \in Redeemers : applying'[q].at \in {"count", "redeem", "applied"} => applying'[q].org \in Orgs
    BY <1>4, <2>1
  <2>7. QED BY <2>4, <2>5, <2>6
<1>11. RedemptionsCounted'
  BY <1>9, <1>10, Zenon DEF RedemptionsCounted
<1>12. QED BY <1>1, <1>6, <1>11 DEF CloudInv

LEMMA ReadVoucherStep ==
  ASSUME CloudInv, NEW v \in Redeemers, Cloud!ReadVoucher(v)
  PROVE  CloudInv'
<1>1. PICK step \in {"count", "refused"}, g \in Orgs :
        applying' = [applying EXCEPT ![v] = [at |-> step, org |-> g]]
  BY DEF Cloud!ReadVoucher
<1>2. /\ applying[v].at = "read"
      /\ UNCHANGED <<funds, ledger, mover, topups, count, redeemed, kfaults>>
  BY DEF Cloud!ReadVoucher
<1>3. QED BY <1>1, <1>2, VoucherStep

\* The later statements keep the organisation the voucher was read for.
LEMMA VoucherGoesOn ==
  ASSUME CloudInv, NEW v \in Redeemers, NEW step, Cloud!Step(v, step)
  PROVE  /\ applying[v].org \in Orgs \cup {None}
         /\ applying[v].at \in {"count", "redeem"} => applying[v].org \in Orgs
         /\ applying' = [applying EXCEPT ![v] = [at |-> step, org |-> applying[v].org]]
<1>1. /\ applying \in [Redeemers -> ApplyState]
      /\ applying[v].at \in {"count", "redeem"} => applying[v].org \in Orgs
  BY DEF CloudInv, CloudTypes, RedemptionsCounted
<1>2. applying' = [applying EXCEPT ![v] = [applying[v] EXCEPT !.at = step]]
  BY <1>1 DEF Cloud!Step
<1>3. [applying[v] EXCEPT !.at = step] = [at |-> step, org |-> applying[v].org]
  BY <1>1 DEF ApplyState
<1>4. applying[v].org \in Orgs \cup {None}
  BY <1>1 DEF ApplyState
<1>5. QED BY <1>1, <1>2, <1>3, <1>4

LEMMA CountRedemptionStep ==
  ASSUME CloudInv, NEW v \in Redeemers, Cloud!CountRedemption(v)
  PROVE  CloudInv'
<1>1. /\ applying[v].at = "count" /\ Cloud!Step(v, "redeem") /\ count' = count + 1
      /\ UNCHANGED <<funds, ledger, mover, topups, redeemed, kfaults>>
  BY DEF Cloud!CountRedemption
<1>2. /\ applying[v].org \in Orgs
      /\ applying' = [applying EXCEPT ![v] = [at |-> "redeem", org |-> applying[v].org]]
  BY <1>1, VoucherGoesOn
<1>3. QED BY <1>1, <1>2, VoucherStep

LEMMA RecordRedemptionStep ==
  ASSUME CloudInv, NEW v \in Redeemers, Cloud!RecordRedemption(v)
  PROVE  CloudInv'
<1>1. /\ applying[v].at = "redeem"
      /\ UNCHANGED <<funds, ledger, mover, topups, count, kfaults>>
  BY DEF Cloud!RecordRedemption
<1>2. CASE applying[v].org \in redeemed
  <2>1. Cloud!Step(v, "refused") /\ UNCHANGED redeemed
    BY <1>2 DEF Cloud!RecordRedemption
  <2>2. /\ applying[v].org \in Orgs
        /\ applying' = [applying EXCEPT ![v] = [at |-> "refused", org |-> applying[v].org]]
    BY <1>1, <2>1, VoucherGoesOn
  <2>3. QED BY <1>1, <2>1, <2>2, VoucherStep
<1>3. CASE applying[v].org \notin redeemed
  <2>1. Cloud!Step(v, "applied") /\ redeemed' = redeemed \cup {applying[v].org}
    BY <1>3 DEF Cloud!RecordRedemption
  <2>2. /\ applying[v].org \in Orgs
        /\ applying' = [applying EXCEPT ![v] = [at |-> "applied", org |-> applying[v].org]]
    BY <1>1, <2>1, VoucherGoesOn
  <2>3. QED BY <1>1, <1>3, <2>1, <2>2, VoucherStep
<1>4. QED BY <1>2, <1>3

\* A statement of a request fails: what was counted stays counted.
LEMMA VoucherFailsStep ==
  ASSUME CloudInv, NEW v \in Redeemers, applying[v].at \in {"read", "count", "redeem"},
         Cloud!Step(v, "refused"), kfaults' = kfaults + 1,
         UNCHANGED <<funds, ledger, mover, topups, count, redeemed>>
  PROVE  CloudInv'
<1>1. /\ applying[v].org \in Orgs \cup {None}
      /\ applying' = [applying EXCEPT ![v] = [at |-> "refused", org |-> applying[v].org]]
  BY VoucherGoesOn
<1>2. QED BY <1>1, VoucherStep

LEMMA CloudStepped == CloudInv /\ [Next]_vars => CloudInv'
<1> SUFFICES ASSUME CloudInv, [Next]_vars PROVE CloudInv'
  OBVIOUS
<1>1. CASE UNCHANGED clouds
  <2>1. /\ UNCHANGED <<funds, ledger, mover, topups>> /\ UNCHANGED <<count, redeemed, applying, kfaults>>
    BY <1>1 DEF clouds
  <2>2. Cloud!FundsAddUp'
    BY <2>1, FundsUntouched
  <2>3. CloudTypes' /\ RedemptionsCounted'
    BY <2>1 DEF CloudInv, CloudTypes, RedemptionsCounted, Redeeming, Cloud!Applied
  <2>4. QED BY <2>2, <2>3 DEF CloudInv
<1>2. CASE Cloud!Next
  <2>1. ASSUME Cloud!StatementFails PROVE CloudInv'
    BY <2>1, MoverFailsStep, VoucherFailsStep DEF Cloud!StatementFails
  <2>2. ASSUME NEW m \in Movers, Cloud!MoveFunds(m) \/ Cloud!LedgerEntry(m) PROVE CloudInv'
    BY <2>2, MoveFundsStep, LedgerEntryStep
  <2>3. ASSUME NEW v \in Redeemers,
               Cloud!ReadVoucher(v) \/ Cloud!CountRedemption(v) \/ Cloud!RecordRedemption(v)
        PROVE  CloudInv'
    BY <2>3, ReadVoucherStep, CountRedemptionStep, RecordRedemptionStep
  <2>4. QED BY <1>2, <2>1, <2>2, <2>3, TopupWalletStep DEF Cloud!Next
<1>3. QED BY <1>1, <1>2, LedgerFrame

\* The books of the shop add up, over transactions and statements that overlap and fail: the entries
\* of a wallet add up to its balance and none is overdrawn, the funds of an organisation differ from
\* its ledger by the entries to come and the faults at most, no organisation has the discount of a
\* voucher twice or uncounted, and no file leaves oftener than its link allows.
THEOREM BooksAlwaysAddUp == Spec => []BooksAddUp
<1>1. WalletInv /\ DownloadInv /\ CloudInv => BooksAddUp
  <2>1. WalletInv => Wallet!WalletLedgerAddsUp
    BY DEF WalletInv
  <2>2. CloudInv => Cloud!FundsAddUp /\ Cloud!DiscountsAreCounted
    <3> SUFFICES ASSUME CloudInv PROVE Cloud!DiscountsAreCounted
      BY DEF CloudInv
    <3>1. IsFiniteSet(Redeeming)
      <4>1. Redeeming \subseteq Redeemers
        BY DEF Redeeming
      <4>2. QED BY <4>1, LedgerAssumption, FS_Subset
    <3>2. Cardinality(Redeeming) \in Nat /\ Cardinality(redeemed) \in Nat /\ count \in Nat
      BY <3>1, FS_CardinalityType DEF CloudInv, CloudTypes
    <3>3. Cardinality(redeemed) <= count
      BY <3>2 DEF CloudInv, RedemptionsCounted
    <3>4. QED BY <3>3, SameCount DEF CloudInv, RedemptionsCounted, Cloud!DiscountsAreCounted
  <2>3. DownloadInv => Downloads!DownloadsWithinMax
    BY LedgerAssumption DEF DownloadInv, DownloadTypes, DownloadRow, CountedWithinMax, Downloads!DownloadsWithinMax
  <2>4. QED BY <2>1, <2>2, <2>3 DEF BooksAddUp
<1>2. QED
  BY <1>1, WalletInit, WalletStepped, DownloadInit, DownloadsStepped, CloudInit, CloudStepped, PTL DEF Spec

-----------------------------------------------------------------------------
(* The credit of a company.                                                *)

OrderRow == [st : {"none", "open", "cancelled"}, drawn : {0, Total}, returned : Nat, refunded : 0..Total,
             refunding : BOOLEAN, owing : BOOLEAN, lost : {0, Total}]

\* An order that is not there has nothing, and a refund is begun of what is not refunded.
SoundRow(w) ==
    /\ w \in OrderRow
    /\ w.refunding => w.refunded < Total
    /\ w.st = "none" => /\ w.drawn = 0 /\ w.refunded = 0 /\ w.lost = 0
                        /\ ~w.refunding /\ ~w.owing

\* What an order holds firmly: the part a refund has released already, and not yet booked,
\* is not counted.
Firm(w) ==
    IF (w.st = "open" \/ w.owing \/ w.lost > 0) /\ w.drawn > 0
    THEN w.drawn - w.refunded - (IF w.refunding THEN 1 ELSE 0)
    ELSE 0

FirmOf(f) == [o \in Orders |-> Firm(f[o])]

DrawnInv ==
    /\ order \in [Orders -> OrderRow] /\ used \in Nat
    /\ \A o \in Orders : SoundRow(order[o])
    /\ used <= SumOver(FirmOf(order), Orders)

LEMMA SameSum == \A f, S : Credit!SumOver(f, S) = SumOver(f, S)
<1>1. \A f, S : Credit!Units(f, S) = Units(f, S)
  BY DEF Credit!Units, Units
<1>2. \A S : Credit!Cardinality(S) = Cardinality(S)
  BY DEF Credit!Cardinality, Cardinality
<1>3. QED BY <1>1, <1>2 DEF Credit!SumOver, SumOver

\* What is held firmly is not negative and no more than what is held.
LEMMA FirmIsHeld ==
  ASSUME NEW w, SoundRow(w)
  PROVE  /\ Firm(w) \in Nat /\ Firm(w) <= w.drawn /\ (w.st = "none" => Firm(w) = 0)
         /\ Firm(w) <= (IF w.st = "open" \/ w.owing \/ w.lost > 0
                        THEN w.drawn - (IF w.drawn > 0 THEN w.refunded ELSE 0) ELSE 0)
         /\ (IF w.st = "open" \/ w.owing \/ w.lost > 0
             THEN w.drawn - (IF w.drawn > 0 THEN w.refunded ELSE 0) ELSE 0) \in Nat
<1>1. /\ w.drawn \in {0, Total} /\ w.refunded \in 0..Total /\ Total \in Nat
      /\ w.refunding => w.refunded < Total
      /\ w.st = "none" => w.drawn = 0
  BY LedgerAssumption DEF SoundRow, OrderRow
<1>2. QED BY <1>1 DEF Firm

LEMMA CreditInit == Init => DrawnInv
<1> SUFFICES ASSUME Credit!Init PROVE DrawnInv
  BY Zenon DEF Init
<1>1. SoundRow(Credit!NoOrder)
  BY LedgerAssumption DEF SoundRow, OrderRow, Credit!NoOrder
<1>2. /\ order \in [Orders -> OrderRow] /\ used = 0 /\ \A o \in Orders : SoundRow(order[o])
  BY <1>1 DEF Credit!Init, SoundRow
<1>3. SumOver(FirmOf(order), Orders) \in Nat
  <2>1. \A o \in Orders : FirmOf(order)[o] \in Nat /\ FirmOf(order)[o] <= FirmOf(order)[o]
    BY <1>2, FirmIsHeld DEF FirmOf
  <2>2. QED BY <2>1, SumGrows, LedgerAssumption
<1>4. QED BY <1>2, <1>3 DEF DrawnInv

\* An order changes and so does the credit, by no more than what the order holds firmly.
LEMMA OrderMoves ==
  ASSUME DrawnInv, NEW o \in Orders, NEW w, SoundRow(w), order' = [order EXCEPT ![o] = w],
         used' \in Nat, used' = 0 \/ used' <= used - Firm(order[o]) + Firm(w)
  PROVE  DrawnInv'
<1>1. /\ order' \in [Orders -> OrderRow] /\ \A p \in Orders : order'[p] = IF p = o THEN w ELSE order[p]
      /\ \A p \in Orders : SoundRow(order[p]) /\ SoundRow(order'[p])
  BY DEF DrawnInv, SoundRow
<1> DEFINE f == FirmOf(order)
           g == FirmOf(order')
<1>2. \A p \in Orders : f[p] = Firm(order[p]) /\ g[p] = Firm(order'[p])
  BY DEF FirmOf
<1>3. \A p \in Orders : Firm(order[p]) \in Nat /\ Firm(order'[p]) \in Nat
  BY <1>1, FirmIsHeld
<1> HIDE DEF f, g
<1>4. \A p \in Orders : f[p] \in Nat /\ g[p] \in Nat /\ f[p] \in Int /\ g[p] \in Int /\ g[p] <= g[p]
  BY <1>2, <1>3
<1>5. /\ SumOver(f, Orders) \in Int /\ SumOver(g, Orders) = SumOver(f, Orders) - f[o] + g[o]
      /\ f[o] = Firm(order[o]) /\ g[o] = Firm(w)
  <2>1. \A p \in Orders : p # o => g[p] = f[p]
    BY <1>1, <1>2
  <2>2. IsFiniteSet(Orders) /\ \A p \in Orders : f[p] \in Int /\ g[p] \in Int
    BY <1>4, LedgerAssumption
  <2>3. f[o] \in Int /\ g[o] \in Int
    BY <2>2
  <2>4. SumOver(f, Orders) \in Int /\ SumOver(g, Orders) = SumOver(f, Orders) - f[o] + g[o]
    BY <2>1, <2>2, <2>3, SumReplaces
  <2>5. QED BY <1>1, <1>2, <2>4
<1>6. SumOver(g, Orders) \in Nat
  BY <1>4, SumGrows, LedgerAssumption
<1>7. used' <= SumOver(g, Orders)
  <2>1. Firm(order[o]) \in Nat /\ Firm(w) \in Nat /\ used \in Nat
    BY <1>4, <1>5 DEF DrawnInv
  <2>2. used <= SumOver(f, Orders)
    BY DEF DrawnInv, f
  <2>3. QED BY <1>5, <1>6, <2>1, <2>2
<1>8. QED BY <1>1, <1>7 DEF DrawnInv, g

LEMMA DrawStep ==
  ASSUME DrawnInv, NEW o \in Orders, Credit!CheckCreditAndConsume(o)
  PROVE  DrawnInv'
<1> DEFINE v == order[o]
           w == [v EXCEPT !.st = "open", !.drawn = Total]
<1>1. /\ v.st = "none" /\ used' = used + Total /\ order' = [order EXCEPT ![o] = w]
      /\ v \in OrderRow /\ SoundRow(v) /\ used \in Nat /\ Total \in Nat
  BY LedgerAssumption DEF Credit!CheckCreditAndConsume, DrawnInv
<1>2. /\ w \in OrderRow /\ w.st = "open" /\ w.drawn = Total /\ w.refunded = 0 /\ ~w.refunding
  BY <1>1 DEF OrderRow, SoundRow
<1> HIDE DEF w
<1>3. SoundRow(w) /\ Firm(w) = Total /\ Firm(v) = 0
  BY <1>1, <1>2, FirmIsHeld DEF SoundRow, Firm
<1>4. used' \in Nat /\ used' <= used - Firm(v) + Firm(w)
  BY <1>1, <1>3
<1>5. QED
  BY <1>1, <1>3, <1>4, OrderMoves

\* A quote that is accepted makes an order that draws nothing.
LEMMA OrderOfQuoteStep ==
  ASSUME DrawnInv, NEW o \in Orders, order[o].st = "none", order' = [order EXCEPT ![o].st = "open"],
         used' = used
  PROVE  DrawnInv'
<1> DEFINE v == order[o]
           w == [v EXCEPT !.st = "open"]
<1>1. /\ order' = [order EXCEPT ![o] = w] /\ v \in OrderRow /\ SoundRow(v) /\ used \in Nat
  BY DEF DrawnInv
<1>2. /\ w \in OrderRow /\ w.st = "open" /\ w.drawn = 0 /\ ~w.refunding
  BY <1>1 DEF OrderRow, SoundRow
<1> HIDE DEF w
<1>3. SoundRow(w) /\ Firm(w) = 0 /\ Firm(v) = 0
  BY <1>1, <1>2, FirmIsHeld DEF SoundRow, Firm
<1>4. used' \in Nat /\ used' <= used - Firm(v) + Firm(w)
  BY <1>1, <1>3
<1>5. QED BY <1>1, <1>3, <1>4, OrderMoves

LEMMA CancelStep ==
  ASSUME DrawnInv, NEW o \in Orders, Credit!CancelOrder(o)
  PROVE  DrawnInv'
<1> DEFINE v == order[o]
           w == [v EXCEPT !.st = "cancelled", !.owing = TRUE]
<1>1. /\ v.st = "open" /\ used' = used /\ order' = [order EXCEPT ![o] = w]
      /\ v \in OrderRow /\ SoundRow(v) /\ used \in Nat
  BY DEF Credit!CancelOrder, DrawnInv
<1>2. /\ w \in OrderRow /\ w.st = "cancelled" /\ w.owing
      /\ w.drawn = v.drawn /\ w.refunded = v.refunded /\ w.refunding = v.refunding
  BY <1>1 DEF OrderRow
<1> HIDE DEF w
<1>3. SoundRow(w) /\ Firm(w) = Firm(v) /\ Firm(v) \in Nat
  BY <1>1, <1>2, FirmIsHeld DEF SoundRow, Firm
<1>4. used' \in Nat /\ used' <= used - Firm(v) + Firm(w)
  BY <1>1, <1>3
<1>5. QED BY <1>1, <1>3, <1>4, OrderMoves

LEMMA ReleaseOnCancelStep ==
  ASSUME DrawnInv, NEW o \in Orders, Credit!ReleaseOnCancel(o)
  PROVE  DrawnInv'
<1> DEFINE v == order[o]
           n == v.returned + Total
           w == [v EXCEPT !.owing = FALSE, !.returned = n]
<1>1. /\ v.owing /\ used' = (IF used > Total THEN used - Total ELSE 0) /\ order' = [order EXCEPT ![o] = w]
      /\ v \in OrderRow /\ SoundRow(v) /\ used \in Nat /\ Total \in Nat
  BY LedgerAssumption DEF Credit!ReleaseOnCancel, Credit!ReleaseCredit, DrawnInv
<1>2. /\ w \in OrderRow /\ w.st = v.st /\ w.lost = v.lost
      /\ w.drawn = v.drawn /\ w.refunded = v.refunded /\ w.refunding = v.refunding
  <2>1. n \in Nat
    BY <1>1 DEF OrderRow
  <2> HIDE DEF n
  <2>2. QED BY <1>1, <2>1 DEF OrderRow
<1> HIDE DEF w
<1>3. SoundRow(w) /\ Firm(w) \in Nat /\ Firm(v) \in Nat /\ Firm(v) <= Total
  BY <1>1, <1>2, FirmIsHeld DEF SoundRow, OrderRow
<1>4. used' \in Nat /\ (used' = 0 \/ used' <= used - Firm(v) + Firm(w))
  BY <1>1, <1>3
<1>5. QED BY <1>1, <1>3, <1>4, OrderMoves

LEMMA ReleaseIsLostStep ==
  ASSUME DrawnInv, NEW o \in Orders, Credit!ReleaseIsLost(o)
  PROVE  DrawnInv'
<1> DEFINE v == order[o]
           w == [v EXCEPT !.owing = FALSE, !.lost = Total]
<1>1. /\ v.owing /\ used' = used /\ order' = [order EXCEPT ![o] = w]
      /\ v \in OrderRow /\ SoundRow(v) /\ used \in Nat /\ Total \in Nat
  BY LedgerAssumption DEF Credit!ReleaseIsLost, DrawnInv
<1>2. /\ w \in OrderRow /\ w.st = v.st /\ w.lost = Total
      /\ w.drawn = v.drawn /\ w.refunded = v.refunded /\ w.refunding = v.refunding
  BY <1>1 DEF OrderRow
<1> HIDE DEF w
<1>3. SoundRow(w) /\ Firm(v) \in Nat
  BY <1>1, <1>2, FirmIsHeld DEF SoundRow
<1>4. Firm(w) = Firm(v)
  BY <1>1, <1>2 DEF Firm, OrderRow
<1>5. used' <= used - Firm(v) + Firm(w)
  BY <1>1, <1>3, <1>4
<1>6. QED BY <1>1, <1>3, <1>5, OrderMoves

LEMMA RefundReleasesStep ==
  ASSUME DrawnInv, NEW o \in Orders, Credit!RefundReleases(o)
  PROVE  DrawnInv'
<1> DEFINE v == order[o]
           n == v.returned + 1
           w == [v EXCEPT !.refunding = TRUE, !.returned = n]
<1>1. /\ v.st # "none" /\ ~v.refunding /\ v.refunded < Total
      /\ used' = (IF used > 1 THEN used - 1 ELSE 0) /\ order' = [order EXCEPT ![o] = w]
      /\ v \in OrderRow /\ SoundRow(v) /\ used \in Nat /\ Total \in Nat
  BY LedgerAssumption DEF Credit!RefundReleases, Credit!ReleaseCredit, DrawnInv
<1>2. /\ w \in OrderRow /\ w.st = v.st /\ w.lost = v.lost /\ w.owing = v.owing
      /\ w.drawn = v.drawn /\ w.refunded = v.refunded /\ w.refunding
  <2>1. n \in Nat
    BY <1>1 DEF OrderRow
  <2> HIDE DEF n
  <2>2. QED BY <1>1, <2>1 DEF OrderRow
<1> HIDE DEF w
<1>3. SoundRow(w) /\ Firm(w) \in Nat /\ Firm(v) \in Nat
  BY <1>1, <1>2, FirmIsHeld DEF SoundRow
<1>4. Firm(w) >= Firm(v) - 1
  BY <1>1, <1>2 DEF Firm, OrderRow
<1>5. used' \in Nat /\ (used' = 0 \/ used' <= used - Firm(v) + Firm(w))
  BY <1>1, <1>3, <1>4
<1>6. QED BY <1>1, <1>3, <1>5, OrderMoves

LEMMA RefundEndsStep ==
  ASSUME DrawnInv, NEW o \in Orders, Credit!RefundEnds(o)
  PROVE  DrawnInv'
<1> DEFINE v == order[o]
<1>1. PICK done \in {0, 1} : order' = [order EXCEPT ![o].refunding = FALSE, ![o].refunded = @ + done]
  BY DEF Credit!RefundEnds
<1> DEFINE w == [v EXCEPT !.refunding = FALSE, !.refunded = @ + done]
<1>2. /\ v.refunding /\ used' = used /\ order' = [order EXCEPT ![o] = w]
      /\ v \in OrderRow /\ SoundRow(v) /\ used \in Nat /\ Total \in Nat
  BY <1>1, LedgerAssumption DEF Credit!RefundEnds, DrawnInv
<1>3. v.refunded \in 0..Total /\ v.refunded < Total /\ v.refunded + done \in 0..Total
  BY <1>1, <1>2 DEF OrderRow, SoundRow
<1>4. /\ w \in OrderRow /\ w.st = v.st /\ w.lost = v.lost /\ w.owing = v.owing
      /\ w.drawn = v.drawn /\ w.refunded = v.refunded + done /\ ~w.refunding
  BY <1>2, <1>3 DEF OrderRow
<1> HIDE DEF w
<1>5. SoundRow(w) /\ Firm(w) \in Nat /\ Firm(v) \in Nat
  BY <1>2, <1>4, FirmIsHeld DEF SoundRow
<1>6. Firm(w) >= Firm(v)
  BY <1>1, <1>2, <1>3, <1>4 DEF Firm, OrderRow
<1>7. used' <= used - Firm(v) + Firm(w)
  BY <1>2, <1>5, <1>6
<1>8. QED BY <1>2, <1>5, <1>7, OrderMoves

-----------------------------------------------------------------------------
(* The quotes.                                                             *)

QuoteRow == [st : {"draft", "sent", "expired", "converted", "rejected"}, orders : Nat, reopened : Nat,
             holder : Clerks \cup {None}]

QuoteTypes == quote \in [Quotes -> QuoteRow] /\ clerk \in [Clerks -> Quotes \cup {None}]

\* A quote that can be accepted has made no more orders than it was set back to draft.
OrderedOnce(w) ==
    /\ w.orders <= 1 + w.reopened
    /\ w.st \notin Credit!Final => w.orders <= w.reopened

QuotesOrdered == \A q \in Quotes : OrderedOnce(quote[q])

\* Who accepts a quote has its lock, so that it is still as acceptable as it was read.
AcceptorKnows ==
    \A c \in Clerks : clerk[c] # None =>
        quote[clerk[c]].holder = c /\ quote[clerk[c]].st \notin Credit!Final

QuoteInv == QuoteTypes /\ QuotesOrdered /\ AcceptorKnows

LEMMA QuoteInit == Init => QuoteInv
<1> SUFFICES ASSUME Credit!Init PROVE QuoteInv
  BY Zenon DEF Init
<1>1. quote \in [Quotes -> QuoteRow] /\ clerk \in [Clerks -> Quotes \cup {None}]
  BY DEF Credit!Init, QuoteRow
<1>2. QED BY <1>1 DEF QuoteInv, QuoteTypes, QuotesOrdered, OrderedOnce, AcceptorKnows, Credit!Init, Credit!Final

\* A quote that nobody is accepting is edited.
LEMMA QuoteEdited ==
  ASSUME QuoteInv, NEW q \in Quotes, quote[q].holder = None, NEW w \in QuoteRow, w.holder = None,
         quote' = [quote EXCEPT ![q] = w], clerk' = clerk,
         OrderedOnce(w)
  PROVE  QuoteInv'
<1>1. /\ quote' \in [Quotes -> QuoteRow] /\ \A p \in Quotes : quote'[p] = IF p = q THEN w ELSE quote[p]
      /\ clerk' \in [Clerks -> Quotes \cup {None}]
  BY DEF QuoteInv, QuoteTypes, QuotesOrdered, AcceptorKnows
<1>2. \A c \in Clerks : clerk[c] # q
  BY NoneAssumption DEF QuoteInv, QuoteTypes, QuotesOrdered, AcceptorKnows
<1>3. QuotesOrdered'
  BY <1>1 DEF QuoteInv, QuoteTypes, QuotesOrdered, AcceptorKnows
<1>4. AcceptorKnows'
  BY <1>1, <1>2 DEF QuoteInv, QuoteTypes, QuotesOrdered, AcceptorKnows
<1>5. QED BY <1>1, <1>3, <1>4 DEF QuoteInv, QuoteTypes, QuotesOrdered, AcceptorKnows

LEMMA QuoteEdits ==
  ASSUME QuoteInv, NEW q \in Quotes, Credit!SendQuote(q) \/ Credit!UpdateQuote(q) \/ Credit!RejectQuote(q)
  PROVE  QuoteInv'
<1> DEFINE v == quote[q]
<1>1. /\ v \in QuoteRow /\ v.holder = None /\ clerk' = clerk
      /\ v.orders \in Nat /\ v.reopened \in Nat
      /\ OrderedOnce(v)
  BY DEF QuoteInv, QuoteTypes, QuotesOrdered, QuoteRow, Credit!SendQuote, Credit!UpdateQuote, Credit!RejectQuote
<1>2. CASE Credit!SendQuote(q)
  <2> DEFINE w == [v EXCEPT !.st = "sent"]
  <2>1. quote' = [quote EXCEPT ![q] = w] /\ v.st = "draft"
    BY <1>2 DEF Credit!SendQuote, QuoteInv, QuoteTypes
  <2>2. w \in QuoteRow /\ w.holder = None /\ w.orders = v.orders /\ w.reopened = v.reopened
    BY <1>1 DEF QuoteRow
  <2> HIDE DEF w
  <2>3. w.st = "sent"
    BY <1>1 DEF w, QuoteRow
  <2>4. OrderedOnce(w)
    BY <1>1, <2>1, <2>2 DEF OrderedOnce, Credit!Final
  <2>5. QED BY <1>1, <2>1, <2>2, <2>4, QuoteEdited
<1>3. CASE Credit!RejectQuote(q)
  <2> DEFINE w == [v EXCEPT !.st = "rejected"]
  <2>1. quote' = [quote EXCEPT ![q] = w]
    BY <1>3 DEF Credit!RejectQuote, QuoteInv, QuoteTypes
  <2>2. w \in QuoteRow /\ w.holder = None /\ w.orders = v.orders /\ w.reopened = v.reopened /\ w.st = "rejected"
    BY <1>1 DEF QuoteRow
  <2> HIDE DEF w
  <2>3. OrderedOnce(w)
    BY <1>1, <2>2 DEF OrderedOnce, Credit!Final
  <2>4. QED BY <1>1, <2>1, <2>2, <2>3, QuoteEdited
<1>4. CASE Credit!UpdateQuote(q)
  <2>1. PICK st \in {"draft", "expired"} :
          quote' = [quote EXCEPT ![q].st = st, ![q].reopened = IF st = "draft" THEN @ + 1 ELSE @]
    BY <1>4 DEF Credit!UpdateQuote
  <2> DEFINE n == IF st = "draft" THEN v.reopened + 1 ELSE v.reopened
             w == [v EXCEPT !.st = st, !.reopened = n]
  <2>2. quote' = [quote EXCEPT ![q] = w]
    BY <2>1 DEF QuoteInv, QuoteTypes, QuotesOrdered, AcceptorKnows
  <2>3. n \in Nat
    BY <1>1
  <2>4. v.orders <= 1 + n /\ (st \notin Credit!Final => v.orders <= n)
    BY <1>1, <2>1 DEF OrderedOnce, Credit!Final
  <2> HIDE DEF n
  <2>5. w \in QuoteRow /\ w.holder = None /\ w.orders = v.orders /\ w.reopened = n /\ w.st = st
    BY <1>1, <2>1, <2>3 DEF QuoteRow
  <2> HIDE DEF w
  <2>6. OrderedOnce(w)
    BY <2>4, <2>5 DEF OrderedOnce
  <2>7. QED BY <1>1, <2>2, <2>5, <2>6, QuoteEdited
<1>5. QED BY <1>2, <1>3, <1>4

LEMMA ReadQuoteStep ==
  ASSUME QuoteInv, NEW c \in Clerks, NEW q \in Quotes, Credit!ReadQuote(c, q)
  PROVE  QuoteInv'
<1> DEFINE w == [quote[q] EXCEPT !.holder = c]
<1>1. /\ clerk[c] = None /\ quote[q].holder = None /\ quote[q].st \notin Credit!Final
      /\ quote' = [quote EXCEPT ![q] = w] /\ clerk' = [clerk EXCEPT ![c] = q]
  BY DEF Credit!ReadQuote, QuoteInv, QuoteTypes
<1>2. /\ w \in QuoteRow /\ w.holder = c /\ w.st = quote[q].st
      /\ w.orders = quote[q].orders /\ w.reopened = quote[q].reopened
  BY DEF QuoteInv, QuoteTypes, QuoteRow
<1> HIDE DEF w
<1>3. /\ quote' \in [Quotes -> QuoteRow] /\ \A p \in Quotes : quote'[p] = IF p = q THEN w ELSE quote[p]
      /\ clerk' \in [Clerks -> Quotes \cup {None}] /\ \A d \in Clerks : clerk'[d] = IF d = c THEN q ELSE clerk[d]
  BY <1>1, <1>2 DEF QuoteInv, QuoteTypes, QuotesOrdered, AcceptorKnows
<1>4. \A d \in Clerks : clerk[d] # q
  BY <1>1, NoneAssumption DEF QuoteInv, QuoteTypes, QuotesOrdered, AcceptorKnows
<1>5. QuotesOrdered'
  BY <1>2, <1>3 DEF QuoteInv, QuotesOrdered, OrderedOnce
<1>6. AcceptorKnows'
  BY <1>1, <1>2, <1>3, <1>4 DEF QuoteInv, QuoteTypes, QuotesOrdered, AcceptorKnows
<1>7. QED BY <1>3, <1>5, <1>6 DEF QuoteInv, QuoteTypes, QuotesOrdered, AcceptorKnows

\* Who accepts a quote converts it or gives it back.
LEMMA AcceptEnds ==
  ASSUME QuoteInv, NEW c \in Clerks, Credit!ConvertQuote(c) \/ Credit!AcceptFails(c)
  PROVE  QuoteInv'
<1> DEFINE q == clerk[c]
           v == quote[q]
<1>1. /\ q \in Quotes /\ v.holder = c /\ v \in QuoteRow
      /\ v.orders \in Nat /\ v.reopened \in Nat /\ v.orders <= v.reopened /\ v.st \notin Credit!Final
      /\ OrderedOnce(v) /\ clerk' = [clerk EXCEPT ![c] = None]
  BY DEF Credit!ConvertQuote, Credit!AcceptFails, QuoteInv, QuoteTypes, QuotesOrdered, OrderedOnce, AcceptorKnows, QuoteRow
<1>2. PICK w \in QuoteRow :
        /\ quote' = [quote EXCEPT ![q] = w]
        /\ OrderedOnce(w)
  <2>1. CASE Credit!ConvertQuote(c)
    <3> DEFINE w == [v EXCEPT !.st = "converted", !.orders = v.orders + 1, !.holder = None]
    <3>1. quote' = [quote EXCEPT ![q] = w]
      BY <1>1, <2>1 DEF Credit!ConvertQuote, QuoteInv, QuoteTypes
    <3>2. w \in QuoteRow /\ w.st = "converted" /\ w.orders = v.orders + 1 /\ w.reopened = v.reopened
      <4>1. v.orders + 1 \in Nat
        BY <1>1
      <4>2. \A n \in Nat : [v EXCEPT !.st = "converted", !.orders = n, !.holder = None] \in QuoteRow
        BY <1>1 DEF QuoteRow
      <4>3. QED BY <1>1, <4>1, <4>2 DEF QuoteRow
    <3> HIDE DEF w
    <3>3. OrderedOnce(w)
      BY <1>1, <3>2 DEF OrderedOnce, Credit!Final
    <3>4. QED BY <3>1, <3>2, <3>3
  <2>2. CASE Credit!AcceptFails(c)
    <3> DEFINE w == [v EXCEPT !.holder = None]
    <3>1. quote' = [quote EXCEPT ![q] = w]
      BY <1>1, <2>2 DEF Credit!AcceptFails, QuoteInv, QuoteTypes
    <3>2. w \in QuoteRow /\ w.orders = v.orders /\ w.reopened = v.reopened /\ w.st = v.st
      BY <1>1 DEF QuoteRow
    <3> HIDE DEF w
    <3>3. OrderedOnce(w)
      BY <1>1, <3>2 DEF OrderedOnce
    <3>4. QED BY <3>1, <3>2, <3>3
  <2>3. QED BY <2>1, <2>2
<1>3. /\ quote' \in [Quotes -> QuoteRow] /\ \A p \in Quotes : quote'[p] = IF p = q THEN w ELSE quote[p]
      /\ clerk' \in [Clerks -> Quotes \cup {None}] /\ \A d \in Clerks : clerk'[d] = IF d = c THEN None ELSE clerk[d]
  BY <1>1, <1>2 DEF QuoteInv, QuoteTypes, QuotesOrdered, AcceptorKnows
<1>4. QuotesOrdered'
  BY <1>2, <1>3 DEF QuoteInv, QuoteTypes, QuotesOrdered, AcceptorKnows
<1>5. AcceptorKnows'
  BY <1>1, <1>3 DEF QuoteInv, QuoteTypes, QuotesOrdered, AcceptorKnows
<1>6. QED BY <1>3, <1>4, <1>5 DEF QuoteInv, QuoteTypes, QuotesOrdered, AcceptorKnows

-----------------------------------------------------------------------------
LEMMA DrawnStep == DrawnInv /\ [Next]_vars => DrawnInv'
<1> SUFFICES ASSUME DrawnInv, [Next]_vars PROVE DrawnInv'
  OBVIOUS
<1>1. ASSUME UNCHANGED <<used, order>> PROVE DrawnInv'
  BY <1>1 DEF DrawnInv
<1>2. CASE Credit!Next
  <2>1. ASSUME NEW o \in Orders,
               \/ Credit!CheckCreditAndConsume(o) \/ Credit!CancelOrder(o) \/ Credit!ReleaseOnCancel(o)
               \/ Credit!ReleaseIsLost(o) \/ Credit!RefundReleases(o) \/ Credit!RefundEnds(o)
        PROVE  DrawnInv'
    <3>1. Credit!CheckCreditAndConsume(o) => DrawnInv'
      BY DrawStep
    <3>2. Credit!CancelOrder(o) \/ Credit!ReleaseOnCancel(o) \/ Credit!ReleaseIsLost(o) => DrawnInv'
      BY CancelStep, ReleaseOnCancelStep, ReleaseIsLostStep
    <3>3. Credit!RefundReleases(o) \/ Credit!RefundEnds(o) => DrawnInv'
      BY RefundReleasesStep, RefundEndsStep
    <3>4. QED BY <2>1, <3>1, <3>2, <3>3
  <2>2. ASSUME NEW q \in Quotes, Credit!SendQuote(q) \/ Credit!UpdateQuote(q) \/ Credit!RejectQuote(q)
        PROVE  DrawnInv'
    BY <1>1, <2>2 DEF Credit!SendQuote, Credit!UpdateQuote, Credit!RejectQuote
  <2>3. ASSUME NEW c \in Clerks, Credit!ConvertQuote(c) PROVE DrawnInv'
    BY <2>3, OrderOfQuoteStep DEF Credit!ConvertQuote
  <2>4. ASSUME NEW c \in Clerks, Credit!AcceptFails(c) PROVE DrawnInv'
    BY <1>1, <2>4 DEF Credit!AcceptFails
  <2>5. ASSUME NEW c \in Clerks, NEW q \in Quotes, Credit!ReadQuote(c, q) PROVE DrawnInv'
    BY <1>1, <2>5 DEF Credit!ReadQuote
  <2>6. QED BY <1>2, <2>1, <2>2, <2>3, <2>4, <2>5 DEF Credit!Next
<1>3. QED BY <1>1, <1>2, LedgerFrame DEF credits

LEMMA QuoteStep == QuoteInv /\ [Next]_vars => QuoteInv'
<1> SUFFICES ASSUME QuoteInv, [Next]_vars PROVE QuoteInv'
  OBVIOUS
<1>1. ASSUME UNCHANGED <<quote, clerk>> PROVE QuoteInv'
  BY <1>1 DEF QuoteInv, QuoteTypes, QuotesOrdered, OrderedOnce, AcceptorKnows
<1>2. CASE Credit!Next
  <2>1. ASSUME NEW o \in Orders,
               \/ Credit!CheckCreditAndConsume(o) \/ Credit!CancelOrder(o) \/ Credit!ReleaseOnCancel(o)
               \/ Credit!ReleaseIsLost(o) \/ Credit!RefundReleases(o) \/ Credit!RefundEnds(o)
        PROVE  QuoteInv'
    BY <1>1, <2>1 DEF Credit!CheckCreditAndConsume, Credit!CancelOrder, Credit!ReleaseOnCancel,
                      Credit!ReleaseIsLost, Credit!RefundReleases, Credit!RefundEnds
  <2>2. QED BY <1>2, <2>1, QuoteEdits, ReadQuoteStep, AcceptEnds DEF Credit!Next
<1>3. QED BY <1>1, <1>2, LedgerFrame DEF credits

\* An order's credit comes back when it is cancelled or refunded: what the company has used is never
\* more than its orders hold, over releases and refunds that are not one transaction; and a quote
\* becomes one order, whoever accepts, rejects or edits it meanwhile.
THEOREM CreditHolds == Spec => []CreditFollowsOrders
<1>1. DrawnInv => Credit!CreditIsReturned
  <2> SUFFICES ASSUME DrawnInv PROVE Credit!CreditIsReturned
    OBVIOUS
  <2> DEFINE h == [o \in Orders |-> Credit!Held(o)]
             f == FirmOf(order)
  <2>1. \A o \in Orders : SoundRow(order[o])
    BY DEF DrawnInv
  <2>2. \A o \in Orders : f[o] \in Nat /\ h[o] \in Nat /\ f[o] <= h[o]
    BY <2>1, FirmIsHeld DEF FirmOf, Credit!Held
  <2>3. used \in Nat /\ used <= SumOver(f, Orders)
    BY DEF DrawnInv
  <2> HIDE DEF f, h
  <2>4. SumOver(f, Orders) \in Nat /\ SumOver(h, Orders) \in Nat /\ SumOver(f, Orders) <= SumOver(h, Orders)
    BY <2>2, SumGrows, LedgerAssumption
  <2>5. used <= SumOver(h, Orders)
    BY <2>3, <2>4
  <2>6. QED BY <2>5, SameSum DEF Credit!CreditIsReturned, h
<1>2. QuoteInv => Credit!QuoteOrderedOnce
  BY DEF QuoteInv, QuotesOrdered, OrderedOnce, Credit!QuoteOrderedOnce
<1>3. DrawnInv /\ QuoteInv => CreditFollowsOrders
  BY <1>1, <1>2 DEF CreditFollowsOrders
<1>4. QED BY <1>3, CreditInit, DrawnStep, QuoteInit, QuoteStep, PTL DEF Spec

-----------------------------------------------------------------------------
(* The returns.                                                            *)

ReturnRow == [status : {"none", "requested", "approved", "rejected", "resolved", "closed"},
              type : Returns!Remedies, restock : BOOLEAN, replacement : Nat]
ReturnCall == [at : {"ready", "event", "remedy", "restock", "done"}, ret : Rets \cup {None},
               type : Returns!Remedies \cup {None}]
Tallies == [Rets -> [Returns!Kinds -> Nat]]

ReturnTypes ==
    /\ ret \in [Rets -> ReturnRow] /\ treq \in [Movers -> ReturnCall]
    /\ given \in Tallies /\ asked \in Tallies /\ missed \in Tallies

\* A request that resolves has a return and a remedy.
Resolving(w) == w.at \in {"event", "remedy", "restock"} => w.ret \in Rets /\ w.type \in Returns!Remedies

\* Whoever owes the remedy of a kind, or the restocking, of a return.
OwesRemedy(w, r, k) == w.ret = r /\ w.at \in {"event", "remedy"} /\ w.type = k
OwesStock(w, r) == w.ret = r /\ w.at \in {"event", "remedy", "restock"}
Owing(f, r, k) == {q \in Movers : OwesRemedy(f[q], r, k)}
Stocking(f, r) == {q \in Movers : OwesStock(f[q], r)}

Asks(f, r) == f[r]["refund"] + f[r]["store_credit"] + f[r]["exchange"] + f[r]["repair"]

\* What was asked of a return was given, was missed, or some request still owes it.
RemediesAgree(g, m, a, f) ==
    \A r \in Rets, k \in Returns!Remedies : g[r][k] + m[r][k] + Cardinality(Owing(f, r, k)) = a[r][k]
StockAgrees(g, m, a, f, rows) ==
    \A r \in Rets : g[r]["restock"] + m[r]["restock"]
        = IF rows[r].restock THEN Asks(a, r) - Cardinality(Stocking(f, r)) ELSE 0

ReturnInv ==
    /\ ReturnTypes
    /\ \A q \in Movers : Resolving(treq[q])
    /\ \A r \in Rets : ret[r].status = "none" => \A k \in Returns!Kinds : asked[r][k] = 0
    /\ \A q \in Movers, r \in Rets : OwesStock(treq[q], r) => ret[r].status # "none"
    /\ RemediesAgree(given, missed, asked, treq)
    /\ StockAgrees(given, missed, asked, treq, ret)

LEMMA ReturnInit == Init => ReturnInv
<1> SUFFICES ASSUME Returns!Init PROVE ReturnInv
  BY Zenon DEF Init
<1>1. ReturnTypes
  BY DEF Returns!Init, Returns!None0, Returns!NoRequest, ReturnTypes, ReturnRow, ReturnCall, Tallies,
         Returns!Kinds, Returns!Remedies
<1>2. /\ \A q \in Movers : Resolving(treq[q])
      /\ \A r \in Rets : \A k \in Returns!Kinds : asked[r][k] = 0 /\ given[r][k] = 0 /\ missed[r][k] = 0
      /\ \A q \in Movers, r \in Rets : ~OwesStock(treq[q], r)
  BY DEF Returns!Init, Returns!None0, Returns!NoRequest, Resolving, OwesStock
<1>3. \A r \in Rets : Cardinality(Stocking(treq, r)) = 0
  <2>1. \A r \in Rets : Stocking(treq, r) = {}
    BY <1>2 DEF Stocking
  <2>2. QED BY <2>1, FS_EmptySet
<1>4. \A r \in Rets, k \in Returns!Remedies : Cardinality(Owing(treq, r, k)) = 0
  <2>1. \A r \in Rets, k \in Returns!Remedies : Owing(treq, r, k) = {}
    BY <1>2 DEF Owing, OwesRemedy, OwesStock
  <2>2. QED BY <2>1, FS_EmptySet
<1>5. RemediesAgree(given, missed, asked, treq)
  BY <1>2, <1>4 DEF RemediesAgree, Returns!Kinds
<1>6. StockAgrees(given, missed, asked, treq, ret)
  BY <1>2, <1>3 DEF StockAgrees, Asks, Returns!Kinds, Returns!Remedies
<1>7. QED BY <1>1, <1>2, <1>5, <1>6 DEF ReturnInv

\* One more of a kind for a return.
LEMMA CountedOne ==
  ASSUME NEW f \in Tallies, NEW r \in Rets, NEW k \in Returns!Kinds
  PROVE  /\ Returns!Counted(f, r, k) \in Tallies
         /\ \A s \in Rets, j \in Returns!Kinds :
               Returns!Counted(f, r, k)[s][j] = f[s][j] + IF s = r /\ j = k THEN 1 ELSE 0
<1>1. \A s \in Rets, j \in Returns!Kinds : f[s][j] \in Nat /\ f[s][j] + 0 = f[s][j]
  BY DEF Tallies
<1>2. [f[r] EXCEPT ![k] = @ + 1] \in [Returns!Kinds -> Nat]
  BY <1>1 DEF Tallies
<1>3. Returns!Counted(f, r, k) = [f EXCEPT ![r] = [f[r] EXCEPT ![k] = @ + 1]]
  BY DEF Returns!Counted, Tallies
<1>4. QED BY <1>1, <1>2, <1>3 DEF Tallies

\* A request goes on and the tallies follow: what it no longer owes is given or missed.
LEMMA CallMoves ==
  ASSUME ReturnInv, NEW q \in Movers, NEW w \in ReturnCall, Resolving(w), treq' = [treq EXCEPT ![q] = w],
         ReturnTypes',
         \A r \in Rets : ret'[r].restock = ret[r].restock /\ (ret'[r].status = "none" <=> ret[r].status = "none"),
         \A r \in Rets : OwesStock(w, r) => ret[r].status # "none",
         \A r \in Rets : ret[r].status = "none" => \A k \in Returns!Kinds : asked'[r][k] = asked[r][k],
         \A r \in Rets, k \in Returns!Remedies :
            given'[r][k] + missed'[r][k] + asked[r][k] + (IF OwesRemedy(w, r, k) THEN 1 ELSE 0)
              = given[r][k] + missed[r][k] + asked'[r][k] + (IF OwesRemedy(treq[q], r, k) THEN 1 ELSE 0),
         \A r \in Rets : IF ret[r].restock
            THEN given'[r]["restock"] + missed'[r]["restock"] + Asks(asked, r) + (IF OwesStock(w, r) THEN 1 ELSE 0)
                   = given[r]["restock"] + missed[r]["restock"] + Asks(asked', r)
                       + (IF OwesStock(treq[q], r) THEN 1 ELSE 0)
            ELSE given'[r]["restock"] + missed'[r]["restock"] = given[r]["restock"] + missed[r]["restock"]
  PROVE  ReturnInv'
<1>1. \A p \in Movers : treq'[p] = IF p = q THEN w ELSE treq[p]
  BY DEF ReturnInv, ReturnTypes
<1>2. \A r \in Rets, k \in Returns!Kinds :
        given[r][k] \in Nat /\ missed[r][k] \in Nat /\ asked[r][k] \in Nat
        /\ given'[r][k] \in Nat /\ missed'[r][k] \in Nat /\ asked'[r][k] \in Nat
  BY DEF ReturnInv, ReturnTypes, Tallies
<1>3. ASSUME NEW r \in Rets, NEW k \in Returns!Remedies
      PROVE  given'[r][k] + missed'[r][k] + Cardinality(Owing(treq', r, k)) = asked'[r][k]
  <2> DEFINE a == Cardinality(Owing(treq, r, k))
             b == Cardinality(Owing(treq', r, k))
  <2>1. /\ a \in Nat /\ b \in Nat
        /\ b = a - (IF OwesRemedy(treq[q], r, k) THEN 1 ELSE 0) + (IF OwesRemedy(w, r, k) THEN 1 ELSE 0)
    <3> DEFINE A == Owing(treq, r, k)
               B == Owing(treq', r, k)
    <3>1. /\ A \subseteq Movers /\ B \subseteq Movers
          /\ \A p \in Movers : p # q => (p \in A <=> p \in B)
          /\ q \in A <=> OwesRemedy(treq[q], r, k)
          /\ q \in B <=> OwesRemedy(w, r, k)
      BY <1>1 DEF Owing
    <3>2. IsFiniteSet(Movers)
      BY LedgerAssumption
    <3> HIDE DEF A, B
    <3>3. /\ Cardinality(A) \in Nat /\ Cardinality(B) \in Nat
          /\ Cardinality(B) = Cardinality(A) - (IF q \in A THEN 1 ELSE 0) + (IF q \in B THEN 1 ELSE 0)
      BY <3>1, <3>2, OneMoves
    <3>4. a = Cardinality(A) /\ b = Cardinality(B)
      BY DEF A, B
    <3> HIDE DEF a, b
    <3>5. QED BY <3>1, <3>3, <3>4
  <2>2. given[r][k] + missed[r][k] + a = asked[r][k]
    BY DEF ReturnInv, RemediesAgree
  <2> HIDE DEF a, b
  <2>3. k \in Returns!Kinds
    BY DEF Returns!Kinds
  <2>4. given'[r][k] + missed'[r][k] + b = asked'[r][k]
    BY <1>2, <2>1, <2>2, <2>3
  <2>5. QED BY <2>4 DEF b
<1>4. ASSUME NEW r \in Rets
      PROVE  given'[r]["restock"] + missed'[r]["restock"]
               = IF ret'[r].restock THEN Asks(asked', r) - Cardinality(Stocking(treq', r)) ELSE 0
  <2> DEFINE a == Cardinality(Stocking(treq, r))
             b == Cardinality(Stocking(treq', r))
             x == Asks(asked, r)
             y == Asks(asked', r)
  <2>1. /\ a \in Nat /\ b \in Nat
        /\ b = a - (IF OwesStock(treq[q], r) THEN 1 ELSE 0) + (IF OwesStock(w, r) THEN 1 ELSE 0)
    <3> DEFINE A == Stocking(treq, r)
               B == Stocking(treq', r)
    <3>1. /\ A \subseteq Movers /\ B \subseteq Movers
          /\ \A p \in Movers : p # q => (p \in A <=> p \in B)
          /\ q \in A <=> OwesStock(treq[q], r)
          /\ q \in B <=> OwesStock(w, r)
      BY <1>1 DEF Stocking
    <3>2. IsFiniteSet(Movers)
      BY LedgerAssumption
    <3> HIDE DEF A, B
    <3>3. /\ Cardinality(A) \in Nat /\ Cardinality(B) \in Nat
          /\ Cardinality(B) = Cardinality(A) - (IF q \in A THEN 1 ELSE 0) + (IF q \in B THEN 1 ELSE 0)
      BY <3>1, <3>2, OneMoves
    <3>4. a = Cardinality(A) /\ b = Cardinality(B)
      BY DEF A, B
    <3> HIDE DEF a, b
    <3>5. QED BY <3>1, <3>3, <3>4
  <2>2. given[r]["restock"] + missed[r]["restock"] = IF ret[r].restock THEN x - a ELSE 0
    BY DEF ReturnInv, StockAgrees
  <2>3. x \in Nat /\ y \in Nat
    BY <1>2 DEF Asks, Returns!Kinds, Returns!Remedies
  <2>4. ret'[r].restock = ret[r].restock /\ "restock" \in Returns!Kinds
    BY DEF Returns!Kinds
  <2>5. /\ given[r]["restock"] \in Nat /\ missed[r]["restock"] \in Nat
        /\ given'[r]["restock"] \in Nat /\ missed'[r]["restock"] \in Nat
    BY <1>2, <2>4
  <2> HIDE DEF a, b, x, y
  <2>6. CASE ret[r].restock
    <3>1. given'[r]["restock"] + missed'[r]["restock"] + x + (IF OwesStock(w, r) THEN 1 ELSE 0)
            = given[r]["restock"] + missed[r]["restock"] + y + (IF OwesStock(treq[q], r) THEN 1 ELSE 0)
      BY <2>6 DEF x, y
    <3>2. given[r]["restock"] + missed[r]["restock"] = x - a
      BY <2>2, <2>6
    <3>3. given'[r]["restock"] + missed'[r]["restock"] = y - b
      <4> DEFINE i == IF OwesStock(w, r) THEN 1 ELSE 0
                 j == IF OwesStock(treq[q], r) THEN 1 ELSE 0
      <4>1. i \in Nat /\ j \in Nat /\ b = a - j + i
        BY <2>1
      <4>2. given'[r]["restock"] + missed'[r]["restock"] + x + i = given[r]["restock"] + missed[r]["restock"] + y + j
        BY <3>1
      <4> HIDE DEF i, j
      <4>3. QED BY <2>1, <2>3, <2>5, <3>2, <4>1, <4>2
    <3>4. QED BY <2>4, <2>6, <3>3 DEF b, y
  <2>7. CASE ~ret[r].restock
    <3>1. given'[r]["restock"] + missed'[r]["restock"] = 0
      BY <2>2, <2>7
    <3>2. QED BY <2>4, <2>7, <3>1
  <2>8. QED BY <2>6, <2>7
<1>5. RemediesAgree(given', missed', asked', treq')
  BY <1>3 DEF RemediesAgree
<1>6. StockAgrees(given', missed', asked', treq', ret')
  BY <1>4 DEF StockAgrees
<1>7. \A p \in Movers : Resolving(treq'[p])
  BY <1>1 DEF ReturnInv
<1>8. \A r \in Rets : ret'[r].status = "none" => \A k \in Returns!Kinds : asked'[r][k] = 0
  BY DEF ReturnInv
<1>9. \A p \in Movers, r \in Rets : OwesStock(treq'[p], r) => ret'[r].status # "none"
  BY <1>1 DEF ReturnInv
<1>10. QED BY <1>5, <1>6, <1>7, <1>8, <1>9 DEF ReturnInv

LEMMA CreateReturnStep ==
  ASSUME ReturnInv, NEW r \in Rets, Returns!CreateReturn(r)
  PROVE  ReturnInv'
<1>1. PICK type \in Returns!Remedies, restock \in BOOLEAN :
        ret' = [ret EXCEPT ![r] = [status |-> "requested", type |-> type, restock |-> restock, replacement |-> 0]]
  BY DEF Returns!CreateReturn
<1>2. ret[r].status = "none" /\ UNCHANGED <<treq, given, asked, missed>>
  BY DEF Returns!CreateReturn
<1>3. ReturnTypes'
  BY <1>1, <1>2 DEF ReturnInv, ReturnTypes, ReturnRow
<1>4. \A s \in Rets : /\ s # r => ret'[s] = ret[s]
                     /\ ret'[r].status = "requested"
  BY <1>1 DEF ReturnInv, ReturnTypes
<1>5. \A q \in Movers : ~OwesStock(treq[q], r)
  BY <1>2 DEF ReturnInv
<1>6. Asks(asked, r) = 0
  BY <1>2 DEF ReturnInv, Asks, Returns!Kinds, Returns!Remedies
<1>7. Cardinality(Stocking(treq, r)) = 0
  <2>1. Stocking(treq, r) = {}
    BY <1>5 DEF Stocking
  <2>2. QED BY <2>1, FS_EmptySet
<1>8. given[r]["restock"] + missed[r]["restock"] = 0
  <2>1. given[r]["restock"] + missed[r]["restock"]
          = IF ret[r].restock THEN Asks(asked, r) - Cardinality(Stocking(treq, r)) ELSE 0
    BY DEF ReturnInv, StockAgrees
  <2>2. QED BY <1>6, <1>7, <2>1
<1>9. StockAgrees(given', missed', asked', treq', ret')
  <2>1. ASSUME NEW s \in Rets
        PROVE  given[s]["restock"] + missed[s]["restock"]
                 = IF ret'[s].restock THEN Asks(asked, s) - Cardinality(Stocking(treq, s)) ELSE 0
    <3>1. CASE s = r
      BY <3>1, <1>6, <1>7, <1>8
    <3>2. CASE s # r
      BY <3>2, <1>4 DEF ReturnInv, StockAgrees
    <3>3. QED BY <3>1, <3>2
  <2>2. QED BY <1>2, <2>1 DEF StockAgrees
<1>10. RemediesAgree(given', missed', asked', treq') /\ (\A q \in Movers : Resolving(treq'[q]))
  BY <1>2, Zenon DEF ReturnInv
<1>11. /\ \A s \in Rets : ret'[s].status = "none" => \A k \in Returns!Kinds : asked'[s][k] = 0
       /\ \A q \in Movers, s \in Rets : OwesStock(treq'[q], s) => ret'[s].status # "none"
  BY <1>2, <1>4, <1>5 DEF ReturnInv
<1>12. QED BY <1>3, <1>9, <1>10, <1>11 DEF ReturnInv

\* A row of a return is written, and stays as restockable as it was created.
LEMMA ReturnWritten ==
  ASSUME ReturnInv, NEW r \in Rets, ret[r].status # "none",
         \/ ret' = ret
         \/ \E st \in Returns!Statuses : ret' = [ret EXCEPT ![r].status = st]
         \/ \E n \in Nat : ret' = [ret EXCEPT ![r].replacement = n]
  PROVE  /\ ret' \in [Rets -> ReturnRow]
         /\ \A s \in Rets : ret'[s].restock = ret[s].restock /\ (ret'[s].status = "none" <=> ret[s].status = "none")
<1>1. ret \in [Rets -> ReturnRow]
  BY DEF ReturnInv, ReturnTypes
<1>2. CASE ret' = ret
  BY <1>1, <1>2
<1>3. CASE \E st \in Returns!Statuses : ret' = [ret EXCEPT ![r].status = st]
  <2>1. PICK st \in Returns!Statuses : ret' = [ret EXCEPT ![r] = [ret[r] EXCEPT !.status = st]]
    BY <1>1, <1>3
  <2> DEFINE w == [ret[r] EXCEPT !.status = st]
  <2>2. w \in ReturnRow /\ w.restock = ret[r].restock /\ w.status # "none"
    BY <1>1 DEF ReturnRow, Returns!Statuses
  <2> HIDE DEF w
  <2>3. ret' = [ret EXCEPT ![r] = w]
    BY <2>1 DEF w
  <2>4. QED BY <1>1, <2>2, <2>3
<1>4. CASE \E n \in Nat : ret' = [ret EXCEPT ![r].replacement = n]
  <2>1. PICK n \in Nat : ret' = [ret EXCEPT ![r] = [ret[r] EXCEPT !.replacement = n]]
    BY <1>1, <1>4
  <2> DEFINE w == [ret[r] EXCEPT !.replacement = n]
  <2>2. w \in ReturnRow /\ w.restock = ret[r].restock /\ w.status = ret[r].status
    BY <1>1 DEF ReturnRow
  <2> HIDE DEF w
  <2>3. ret' = [ret EXCEPT ![r] = w]
    BY <2>1 DEF w
  <2>4. QED BY <1>1, <2>2, <2>3
<1>5. QED BY <1>2, <1>3, <1>4

\* What a request is at: its row as a record.
LEMMA CallRow ==
  ASSUME ReturnInv, NEW q \in Movers, NEW step \in {"ready", "event", "remedy", "restock", "done"},
         Returns!Go(q, step)
  PROVE  \E w \in ReturnCall : /\ treq' = [treq EXCEPT ![q] = w]
                              /\ w.at = step /\ w.ret = treq[q].ret /\ w.type = treq[q].type
<1>1. treq \in [Movers -> ReturnCall]
  BY DEF ReturnInv, ReturnTypes
<1> DEFINE w == [treq[q] EXCEPT !.at = step]
<1>2. treq' = [treq EXCEPT ![q] = w]
  BY <1>1 DEF Returns!Go
<1>3. w \in ReturnCall /\ w.at = step /\ w.ret = treq[q].ret /\ w.type = treq[q].type
  BY <1>1 DEF ReturnCall
<1>4. QED BY <1>2, <1>3

LEMMA AsksCounted ==
  ASSUME NEW f \in Tallies, NEW r \in Rets, NEW k \in Returns!Remedies, NEW s \in Rets
  PROVE  /\ Asks(f, s) \in Nat
         /\ Asks(Returns!Counted(f, r, k), s) = Asks(f, s) + IF s = r THEN 1 ELSE 0
<1> DEFINE g == Returns!Counted(f, r, k)
<1>1. k \in Returns!Kinds
  BY DEF Returns!Kinds
<1>2. \A j \in Returns!Kinds : g[s][j] = f[s][j] + IF s = r /\ j = k THEN 1 ELSE 0
  BY <1>1, CountedOne
<1> HIDE DEF g
<1>3. /\ g[s]["refund"] = f[s]["refund"] + (IF s = r /\ k = "refund" THEN 1 ELSE 0)
      /\ g[s]["store_credit"] = f[s]["store_credit"] + (IF s = r /\ k = "store_credit" THEN 1 ELSE 0)
      /\ g[s]["exchange"] = f[s]["exchange"] + (IF s = r /\ k = "exchange" THEN 1 ELSE 0)
      /\ g[s]["repair"] = f[s]["repair"] + (IF s = r /\ k = "repair" THEN 1 ELSE 0)
  BY <1>2 DEF Returns!Kinds, Returns!Remedies
<1>4. /\ f[s]["refund"] \in Nat /\ f[s]["store_credit"] \in Nat
      /\ f[s]["exchange"] \in Nat /\ f[s]["repair"] \in Nat
  BY DEF Tallies, Returns!Kinds, Returns!Remedies
<1>5. k \in {"refund", "store_credit", "exchange", "repair"}
  BY DEF Returns!Remedies
<1>6. Asks(g, s) = Asks(f, s) + IF s = r THEN 1 ELSE 0
  BY <1>3, <1>4, <1>5 DEF Asks
<1>7. QED BY <1>4, <1>6 DEF Asks, g

LEMMA UpdateReturnStep ==
  ASSUME ReturnInv, NEW q \in Movers, NEW r \in Rets, Returns!UpdateReturn(q, r)
  PROVE  ReturnInv'
<1>1. treq[q].at = "ready" /\ ret[r].status # "none" /\ UNCHANGED <<given, missed>>
  BY DEF Returns!UpdateReturn
<1>2. PICK st \in Returns!Statuses, type \in Returns!Remedies \cup {None} :
        /\ ret' = [ret EXCEPT ![r].status = st]
        /\ IF st = "resolved"
           THEN /\ treq' = [treq EXCEPT ![q] = [at |-> "event", ret |-> r,
                                               type |-> IF type = None THEN ret[r].type ELSE type]]
                /\ asked' = Returns!Counted(asked, r, treq'[q].type)
           ELSE type = None /\ treq' = [treq EXCEPT ![q].at = "done"] /\ UNCHANGED asked
  BY DEF Returns!UpdateReturn
<1>3. /\ ret' \in [Rets -> ReturnRow]
      /\ \A s \in Rets : ret'[s].restock = ret[s].restock /\ (ret'[s].status = "none" <=> ret[s].status = "none")
  BY <1>1, <1>2, ReturnWritten
<1>4. /\ treq \in [Movers -> ReturnCall] /\ asked \in Tallies /\ given \in Tallies /\ missed \in Tallies
      /\ ret[r].type \in Returns!Remedies
  BY DEF ReturnInv, ReturnTypes, ReturnRow
<1>5. \A s \in Rets, k \in Returns!Kinds : given[s][k] \in Nat /\ missed[s][k] \in Nat /\ asked[s][k] \in Nat
  BY <1>4 DEF Tallies
<1>6. \A k \in Returns!Remedies : k \in Returns!Kinds
  BY DEF Returns!Kinds
<1>7. \A s \in Rets, k \in Returns!Remedies : ~OwesRemedy(treq[q], s, k) /\ ~OwesStock(treq[q], s)
  BY <1>1 DEF OwesRemedy, OwesStock
<1>8. CASE st # "resolved"
  <2>1. Returns!Go(q, "done") /\ asked' = asked
    BY <1>2, <1>8 DEF Returns!Go
  <2>2. PICK w \in ReturnCall : treq' = [treq EXCEPT ![q] = w] /\ w.at = "done"
    BY <2>1, CallRow
  <2>3. Resolving(w) /\ \A s \in Rets, k \in Returns!Remedies : ~OwesRemedy(w, s, k)
    BY <2>2 DEF Resolving, OwesRemedy
  <2>4. \A s \in Rets : ~OwesStock(w, s) /\ ~OwesStock(treq[q], s)
    BY <1>1, <2>2 DEF OwesStock
  <2>5. ReturnTypes'
    BY <1>1, <1>3, <1>4, <2>1, <2>2 DEF ReturnTypes
  <2>6. QED BY <1>1, <1>3, <1>7, <2>1, <2>2, <2>3, <2>4, <2>5, CallMoves
<1>9. CASE st = "resolved"
  <2> DEFINE t == IF type = None THEN ret[r].type ELSE type
             w == [at |-> "event", ret |-> r, type |-> t]
  <2>1. treq' = [treq EXCEPT ![q] = w] /\ t \in Returns!Remedies
    BY <1>2, <1>4, <1>9
  <2>2. w \in ReturnCall /\ Resolving(w)
    BY <2>1 DEF ReturnCall, Resolving
  <2>3. asked' = Returns!Counted(asked, r, t)
    <3>1. treq'[q].type = t
      BY <1>4, <2>1
    <3>2. QED BY <1>2, <1>9, <3>1
  <2>4. \A s \in Rets : /\ OwesStock(w, s) <=> s = r
                       /\ \A k \in Returns!Remedies : OwesRemedy(w, s, k) <=> s = r /\ k = t
    BY DEF OwesRemedy, OwesStock
  <2> HIDE DEF w, t
  <2>5. asked' \in Tallies
        /\ \A s \in Rets, k \in Returns!Kinds : asked'[s][k] = asked[s][k] + IF s = r /\ k = t THEN 1 ELSE 0
    <3>1. t \in Returns!Kinds
      BY <1>6, <2>1
    <3>2. /\ Returns!Counted(asked, r, t) \in Tallies
          /\ \A s \in Rets, k \in Returns!Kinds :
                Returns!Counted(asked, r, t)[s][k] = asked[s][k] + IF s = r /\ k = t THEN 1 ELSE 0
      BY <1>4, <3>1, CountedOne
    <3>3. QED BY <2>3, <3>2, Zenon
  <2>6. \A s \in Rets : Asks(asked, s) \in Nat /\ Asks(asked', s) = Asks(asked, s) + IF s = r THEN 1 ELSE 0
    BY <1>4, <2>1, <2>3, AsksCounted
  <2>7. ReturnTypes'
    <3>1. treq' \in [Movers -> ReturnCall]
      BY <1>4, <2>1, <2>2
    <3>2. QED BY <1>1, <1>3, <1>4, <2>5, <3>1 DEF ReturnTypes
  <2>8. \A s \in Rets : ret[s].status = "none" => \A k \in Returns!Kinds : asked'[s][k] = asked[s][k]
    BY <1>1, <1>5, <2>5
  <2>9. ASSUME NEW s \in Rets, NEW k \in Returns!Remedies
        PROVE  given'[s][k] + missed'[s][k] + asked[s][k] + (IF OwesRemedy(w, s, k) THEN 1 ELSE 0)
                 = given[s][k] + missed[s][k] + asked'[s][k] + (IF OwesRemedy(treq[q], s, k) THEN 1 ELSE 0)
    <3>1. /\ given[s][k] \in Nat /\ missed[s][k] \in Nat /\ asked[s][k] \in Nat
          /\ asked'[s][k] = asked[s][k] + IF s = r /\ k = t THEN 1 ELSE 0
          /\ OwesRemedy(w, s, k) <=> s = r /\ k = t
          /\ ~OwesRemedy(treq[q], s, k)
      BY <1>5, <1>6, <1>7, <2>4, <2>5
    <3>2. QED BY <1>1, <3>1
  <2>10. ASSUME NEW s \in Rets
         PROVE  IF ret[s].restock
                THEN given'[s]["restock"] + missed'[s]["restock"] + Asks(asked, s) + (IF OwesStock(w, s) THEN 1 ELSE 0)
                       = given[s]["restock"] + missed[s]["restock"] + Asks(asked', s)
                           + (IF OwesStock(treq[q], s) THEN 1 ELSE 0)
                ELSE given'[s]["restock"] + missed'[s]["restock"] = given[s]["restock"] + missed[s]["restock"]
    <3>1. /\ given[s]["restock"] \in Nat /\ missed[s]["restock"] \in Nat
          /\ Asks(asked, s) \in Nat /\ Asks(asked', s) = Asks(asked, s) + IF s = r THEN 1 ELSE 0
          /\ OwesStock(w, s) <=> s = r
          /\ ~OwesStock(treq[q], s)
      BY <1>1, <1>5, <2>4, <2>6 DEF OwesStock, Returns!Kinds
    <3>2. QED BY <1>1, <3>1
  <2>11. \A s \in Rets : OwesStock(w, s) => ret[s].status # "none"
    BY <1>1, <2>4
  <2>12. QED BY <1>3, <2>1, <2>2, <2>7, <2>8, <2>9, <2>10, <2>11, CallMoves
<1>10. QED BY <1>8, <1>9

\* The steps of a request that resolves: it owes less, and that was given or missed.
LEMMA ResolutionMoves ==
  ASSUME ReturnInv, NEW q \in Movers, treq[q].at \in {"event", "remedy", "restock"},
         NEW step \in {"remedy", "restock", "done"}, Returns!Go(q, step),
         given' \in Tallies, missed' \in Tallies, asked' = asked,
         \/ ret' = ret \/ \E n \in Nat : ret' = [ret EXCEPT ![treq[q].ret].replacement = n],
         \A r \in Rets, k \in Returns!Remedies :
            given'[r][k] + missed'[r][k] = given[r][k] + missed[r][k]
              + IF r = treq[q].ret /\ k = treq[q].type /\ treq[q].at # "restock" /\ step # "remedy" THEN 1 ELSE 0,
         treq[q].at = "restock" => step = "done",
         \A r \in Rets :
            given'[r]["restock"] + missed'[r]["restock"] = given[r]["restock"] + missed[r]["restock"]
              + IF r = treq[q].ret /\ ret[r].restock /\ step = "done" THEN 1 ELSE 0
  PROVE  ReturnInv'
<1>1. PICK w \in ReturnCall : /\ treq' = [treq EXCEPT ![q] = w]
                              /\ w.at = step /\ w.ret = treq[q].ret /\ w.type = treq[q].type
  BY CallRow
<1>2. /\ treq[q].ret \in Rets /\ treq[q].type \in Returns!Remedies /\ ret[treq[q].ret].status # "none"
  BY DEF ReturnInv, Resolving, OwesStock
<1>3. /\ ret' \in [Rets -> ReturnRow]
      /\ \A s \in Rets : ret'[s].restock = ret[s].restock /\ (ret'[s].status = "none" <=> ret[s].status = "none")
  BY <1>2, ReturnWritten
<1>4. ReturnTypes' /\ Resolving(w)
  <2>1. treq' \in [Movers -> ReturnCall]
    BY <1>1 DEF ReturnInv, ReturnTypes
  <2>2. QED BY <1>1, <1>2, <1>3, <2>1 DEF ReturnInv, ReturnTypes, Resolving
<1>5. \A s \in Rets, k \in Returns!Kinds :
        /\ given[s][k] \in Nat /\ missed[s][k] \in Nat /\ asked[s][k] \in Nat
        /\ given'[s][k] \in Nat /\ missed'[s][k] \in Nat
  BY DEF ReturnInv, ReturnTypes, Tallies
<1>6. \A s \in Rets : Asks(asked, s) \in Nat
  BY <1>5 DEF Asks, Returns!Kinds, Returns!Remedies
<1>7. ASSUME NEW s \in Rets, NEW k \in Returns!Remedies
      PROVE  given'[s][k] + missed'[s][k] + asked[s][k] + (IF OwesRemedy(w, s, k) THEN 1 ELSE 0)
               = given[s][k] + missed[s][k] + asked'[s][k] + (IF OwesRemedy(treq[q], s, k) THEN 1 ELSE 0)
  <2>1. k \in Returns!Kinds
    BY DEF Returns!Kinds
  <2>2. /\ given[s][k] \in Nat /\ missed[s][k] \in Nat /\ asked[s][k] \in Nat
        /\ given'[s][k] \in Nat /\ missed'[s][k] \in Nat
    BY <1>5, <2>1
  <2>3. /\ OwesRemedy(treq[q], s, k) <=> s = treq[q].ret /\ k = treq[q].type /\ treq[q].at # "restock"
        /\ OwesRemedy(w, s, k) <=> s = treq[q].ret /\ k = treq[q].type /\ step = "remedy"
    BY <1>1 DEF OwesRemedy
  <2>4. QED BY <2>2, <2>3
<1>8. ASSUME NEW s \in Rets
      PROVE  IF ret[s].restock
             THEN given'[s]["restock"] + missed'[s]["restock"] + Asks(asked, s) + (IF OwesStock(w, s) THEN 1 ELSE 0)
                    = given[s]["restock"] + missed[s]["restock"] + Asks(asked', s)
                        + (IF OwesStock(treq[q], s) THEN 1 ELSE 0)
             ELSE given'[s]["restock"] + missed'[s]["restock"] = given[s]["restock"] + missed[s]["restock"]
  <2>1. /\ given[s]["restock"] \in Nat /\ missed[s]["restock"] \in Nat
        /\ given'[s]["restock"] \in Nat /\ missed'[s]["restock"] \in Nat /\ Asks(asked, s) \in Nat
    BY <1>5, <1>6 DEF Returns!Kinds
  <2>2. /\ OwesStock(treq[q], s) <=> s = treq[q].ret
        /\ OwesStock(w, s) <=> s = treq[q].ret /\ step # "done"
    BY <1>1 DEF OwesStock
  <2>3. QED BY <2>1, <2>2
<1>9. \A s \in Rets : OwesStock(w, s) => ret[s].status # "none"
  BY <1>1, <1>2 DEF OwesStock
<1>10. QED BY <1>1, <1>3, <1>4, <1>7, <1>8, <1>9, CallMoves

LEMMA LogStatusEventStep ==
  ASSUME ReturnInv, NEW q \in Movers, Returns!LogStatusEvent(q)
  PROVE  ReturnInv'
<1>1. /\ treq[q].at = "event" /\ Returns!Go(q, "remedy") /\ UNCHANGED <<ret, given, asked, missed>>
  BY DEF Returns!LogStatusEvent
<1>2. given \in Tallies /\ missed \in Tallies /\ "restock" \in Returns!Kinds
  BY DEF ReturnInv, ReturnTypes, Returns!Kinds
<1>3. \A r \in Rets, k \in Returns!Kinds : given[r][k] + missed[r][k] + 0 = given[r][k] + missed[r][k]
  BY <1>2 DEF Tallies
<1>4. \A r \in Rets, k \in Returns!Remedies : k \in Returns!Kinds
  BY DEF Returns!Kinds
<1>5. QED BY <1>1, <1>2, <1>3, <1>4, ResolutionMoves

\* One tally of the two counts one more of a kind for the return of a request.
LEMMA TallyMoves ==
  ASSUME ReturnInv, NEW r \in Rets, NEW k \in Returns!Kinds,
         \/ given' = Returns!Counted(given, r, k) /\ missed' = missed
         \/ missed' = Returns!Counted(missed, r, k) /\ given' = given
  PROVE  /\ given' \in Tallies /\ missed' \in Tallies
         /\ \A s \in Rets, j \in Returns!Kinds :
               given'[s][j] + missed'[s][j] = given[s][j] + missed[s][j] + IF s = r /\ j = k THEN 1 ELSE 0
<1>1. given \in Tallies /\ missed \in Tallies
  BY DEF ReturnInv, ReturnTypes
<1>2. \A s \in Rets, j \in Returns!Kinds : given[s][j] \in Nat /\ missed[s][j] \in Nat
  BY <1>1 DEF Tallies
<1>3. CASE given' = Returns!Counted(given, r, k) /\ missed' = missed
  <2>1. /\ given' \in Tallies
        /\ \A s \in Rets, j \in Returns!Kinds : given'[s][j] = given[s][j] + IF s = r /\ j = k THEN 1 ELSE 0
    BY <1>1, <1>3, CountedOne
  <2>2. QED BY <1>1, <1>2, <1>3, <2>1
<1>4. CASE missed' = Returns!Counted(missed, r, k) /\ given' = given
  <2>1. /\ missed' \in Tallies
        /\ \A s \in Rets, j \in Returns!Kinds : missed'[s][j] = missed[s][j] + IF s = r /\ j = k THEN 1 ELSE 0
    BY <1>1, <1>4, CountedOne
  <2>2. QED BY <1>1, <1>2, <1>4, <2>1
<1>5. QED BY <1>3, <1>4

LEMMA RemedyStep ==
  ASSUME ReturnInv, NEW q \in Movers, Returns!Resolve(q) \/ Returns!RemedyFails(q)
  PROVE  ReturnInv'
<1> DEFINE r == treq[q].ret
           t == treq[q].type
<1>1. /\ treq[q].at = "remedy" /\ Returns!Go(q, "restock") /\ asked' = asked
      /\ \/ given' = Returns!Counted(given, r, t) /\ missed' = missed
         \/ missed' = Returns!Counted(missed, r, t) /\ given' = given
  BY DEF Returns!Resolve, Returns!RemedyFails
<1>2. r \in Rets /\ t \in Returns!Remedies /\ t \in Returns!Kinds /\ t # "restock" /\ "restock" \in Returns!Kinds
  BY <1>1 DEF ReturnInv, Resolving, Returns!Kinds, Returns!Remedies
<1>3. /\ given' \in Tallies /\ missed' \in Tallies
      /\ \A s \in Rets, j \in Returns!Kinds :
            given'[s][j] + missed'[s][j] = given[s][j] + missed[s][j] + IF s = r /\ j = t THEN 1 ELSE 0
  BY <1>1, <1>2, TallyMoves
<1>4. ret' = ret \/ \E n \in Nat : ret' = [ret EXCEPT ![r].replacement = n]
  <2>1. given'[r]["exchange"] \in Nat
    BY <1>2, <1>3 DEF Tallies, Returns!Kinds, Returns!Remedies
  <2>2. QED BY <2>1 DEF Returns!Resolve, Returns!RemedyFails
<1>5. \A s \in Rets, k \in Returns!Remedies :
         given'[s][k] + missed'[s][k] = given[s][k] + missed[s][k] + IF s = r /\ k = t THEN 1 ELSE 0
  BY <1>3 DEF Returns!Kinds
<1>6. \A s \in Rets :
         given'[s]["restock"] + missed'[s]["restock"] = given[s]["restock"] + missed[s]["restock"] + 0
  BY <1>2, <1>3
<1>7. \A s \in Rets, k \in Returns!Remedies :
         given'[s][k] + missed'[s][k] = given[s][k] + missed[s][k]
           + IF s = treq[q].ret /\ k = treq[q].type /\ treq[q].at # "restock" /\ "restock" # "remedy" THEN 1 ELSE 0
  BY <1>1, <1>5
<1>8. \A s \in Rets :
         given'[s]["restock"] + missed'[s]["restock"] = given[s]["restock"] + missed[s]["restock"]
           + IF s = treq[q].ret /\ ret[s].restock /\ "restock" = "done" THEN 1 ELSE 0
  BY <1>6
<1>9. QED BY <1>1, <1>3, <1>4, <1>7, <1>8, ResolutionMoves

LEMMA RestockStep ==
  ASSUME ReturnInv, NEW q \in Movers, Returns!Restock(q) \/ Returns!RestockFails(q)
  PROVE  ReturnInv'
<1> DEFINE r == treq[q].ret
<1>1. /\ treq[q].at = "restock" /\ Returns!Go(q, "done") /\ asked' = asked /\ ret' = ret
      /\ \/ ret[r].restock /\ given' = Returns!Counted(given, r, "restock") /\ missed' = missed
         \/ ret[r].restock /\ missed' = Returns!Counted(missed, r, "restock") /\ given' = given
         \/ ~ret[r].restock /\ UNCHANGED <<given, missed>>
  BY DEF Returns!Restock, Returns!RestockFails
<1>2. r \in Rets /\ "restock" \in Returns!Kinds /\ "restock" \notin Returns!Remedies
  BY <1>1 DEF ReturnInv, Resolving, Returns!Kinds, Returns!Remedies
<1>3. /\ given' \in Tallies /\ missed' \in Tallies
      /\ \A s \in Rets, j \in Returns!Kinds :
            given'[s][j] + missed'[s][j]
              = given[s][j] + missed[s][j] + IF s = r /\ j = "restock" /\ ret[r].restock THEN 1 ELSE 0
  <2>1. CASE ret[r].restock
    BY <1>1, <1>2, <2>1, TallyMoves
  <2>2. CASE ~ret[r].restock
    <3>1. given \in Tallies /\ missed \in Tallies /\ UNCHANGED <<given, missed>>
      BY <1>1, <2>2 DEF ReturnInv, ReturnTypes
    <3>2. \A s \in Rets, j \in Returns!Kinds : given[s][j] + missed[s][j] = given[s][j] + missed[s][j] + 0
      BY <3>1 DEF Tallies
    <3>3. QED BY <2>2, <3>1, <3>2
  <2>3. QED BY <2>1, <2>2
<1>4. \A s \in Rets, k \in Returns!Remedies : given'[s][k] + missed'[s][k] = given[s][k] + missed[s][k] + 0
  BY <1>2, <1>3 DEF Returns!Kinds
<1>5. \A s \in Rets :
         given'[s]["restock"] + missed'[s]["restock"] = given[s]["restock"] + missed[s]["restock"]
            + IF s = r /\ ret[s].restock THEN 1 ELSE 0
  BY <1>2, <1>3
<1> HIDE DEF r
<1>6. QED BY <1>1, <1>3, <1>4, <1>5, ResolutionMoves DEF r

LEMMA EventFailsStep ==
  ASSUME ReturnInv, NEW q \in Movers, Returns!EventFails(q)
  PROVE  ReturnInv'
<1> DEFINE r == treq[q].ret
           t == treq[q].type
           m == [missed[r] EXCEPT ![t] = @ + 1, !["restock"] = IF ret[r].restock THEN @ + 1 ELSE @]
<1>1. /\ treq[q].at = "event" /\ Returns!Go(q, "done") /\ UNCHANGED <<ret, given, asked>>
      /\ missed' = [missed EXCEPT ![r][t] = @ + 1, ![r].restock = IF ret[r].restock THEN @ + 1 ELSE @]
  BY DEF Returns!EventFails
<1>2. r \in Rets /\ t \in Returns!Remedies /\ t \in Returns!Kinds /\ t # "restock" /\ "restock" \in Returns!Kinds
  BY <1>1 DEF ReturnInv, Resolving, Returns!Kinds, Returns!Remedies
<1>3. given \in Tallies /\ missed \in Tallies
  BY DEF ReturnInv, ReturnTypes
<1>4. \A s \in Rets, j \in Returns!Kinds : given[s][j] \in Nat /\ missed[s][j] \in Nat
  BY <1>3 DEF Tallies
<1>5. missed' = [missed EXCEPT ![r] = m]
  BY <1>1, <1>2, <1>3 DEF Tallies
<1>6. /\ m \in [Returns!Kinds -> Nat]
      /\ \A j \in Returns!Kinds : m[j] = missed[r][j] + IF j = t \/ (j = "restock" /\ ret[r].restock) THEN 1 ELSE 0
  <2> DEFINE n == missed[r][t] + 1
             o == IF ret[r].restock THEN missed[r]["restock"] + 1 ELSE missed[r]["restock"]
  <2>1. m = [missed[r] EXCEPT ![t] = n, !["restock"] = o]
    BY <1>2
  <2>2. n \in Nat /\ o \in Nat /\ missed[r] \in [Returns!Kinds -> Nat]
    BY <1>2, <1>3, <1>4 DEF Tallies
  <2>3. o = missed[r]["restock"] + IF ret[r].restock THEN 1 ELSE 0
    BY <1>2, <1>4
  <2>4. \A j \in Returns!Kinds : missed[r][j] \in Nat
    BY <1>2, <1>4
  <2> HIDE DEF m, o
  <2>5. m \in [Returns!Kinds -> Nat]
    BY <2>1, <2>2
  <2>6. \A j \in Returns!Kinds : m[j] = IF j = t THEN n ELSE IF j = "restock" THEN o ELSE missed[r][j]
    BY <1>2, <2>1, <2>2
  <2>7. \A j \in Returns!Kinds : m[j] = missed[r][j] + IF j = t \/ (j = "restock" /\ ret[r].restock) THEN 1 ELSE 0
    BY <1>2, <2>3, <2>4, <2>6
  <2>8. QED BY <2>5, <2>7
<1> HIDE DEF m
<1>7. /\ missed' \in Tallies /\ given' \in Tallies
      /\ \A s \in Rets, j \in Returns!Kinds : missed'[s][j] = IF s = r THEN m[j] ELSE missed[s][j]
  BY SMTT(30), <1>1, <1>2, <1>3, <1>5, <1>6 DEF Tallies
<1>8. \A s \in Rets, k \in Returns!Remedies :
         given'[s][k] + missed'[s][k] = given[s][k] + missed[s][k]
           + IF s = treq[q].ret /\ k = treq[q].type /\ treq[q].at # "restock" /\ "done" # "remedy" THEN 1 ELSE 0
  <2>1. \A k \in Returns!Remedies : k \in Returns!Kinds /\ k # "restock"
    BY DEF Returns!Kinds, Returns!Remedies
  <2>2. ASSUME NEW s \in Rets, NEW k \in Returns!Remedies
        PROVE  given'[s][k] + missed'[s][k] = given[s][k] + missed[s][k]
                 + IF s = r /\ k = t /\ treq[q].at # "restock" /\ "done" # "remedy" THEN 1 ELSE 0
    <3>1. given[s][k] \in Nat /\ missed[s][k] \in Nat /\ given' = given
      BY <1>1, <1>4, <2>1
    <3>2. missed'[s][k] = missed[s][k] + IF s = r /\ k = t THEN 1 ELSE 0
      BY <1>6, <1>7, <2>1, <3>1
    <3>3. QED BY <1>1, <3>1, <3>2
  <2>3. QED BY <2>2
<1>9. \A s \in Rets :
         given'[s]["restock"] + missed'[s]["restock"] = given[s]["restock"] + missed[s]["restock"]
           + IF s = treq[q].ret /\ ret[s].restock /\ "done" = "done" THEN 1 ELSE 0
  <2>1. ASSUME NEW s \in Rets
        PROVE  given'[s]["restock"] + missed'[s]["restock"] = given[s]["restock"] + missed[s]["restock"]
                 + IF s = r /\ ret[s].restock THEN 1 ELSE 0
    <3>1. given[s]["restock"] \in Nat /\ missed[s]["restock"] \in Nat /\ given' = given
      BY <1>1, <1>2, <1>4
    <3>2. missed'[s]["restock"] = missed[s]["restock"] + IF s = r /\ ret[s].restock THEN 1 ELSE 0
      BY <1>2, <1>6, <1>7, <3>1
    <3>3. QED BY <3>1, <3>2
  <2>2. QED BY <2>1
<1>10. QED BY <1>1, <1>7, <1>8, <1>9, ResolutionMoves

LEMMA ReturnsStepped == ReturnInv /\ [Next]_vars => ReturnInv'
<1> SUFFICES ASSUME ReturnInv, [Next]_vars PROVE ReturnInv'
  OBVIOUS
<1>1. CASE UNCHANGED returned
  <2>1. UNCHANGED <<ret, treq, given, asked, missed>>
    BY <1>1 DEF returned
  <2>2. QED BY <2>1 DEF ReturnInv, ReturnTypes, RemediesAgree, StockAgrees, Asks
<1>2. CASE Returns!Next
  <2>1. ASSUME NEW r \in Rets, Returns!CreateReturn(r) PROVE ReturnInv'
    BY <2>1, CreateReturnStep
  <2>2. ASSUME NEW r \in Rets, NEW q \in Movers, Returns!UpdateReturn(q, r) PROVE ReturnInv'
    BY <2>2, UpdateReturnStep
  <2>3. ASSUME NEW q \in Movers,
               \/ Returns!LogStatusEvent(q) \/ Returns!Resolve(q) \/ Returns!RemedyFails(q)
               \/ Returns!Restock(q) \/ Returns!RestockFails(q) \/ Returns!EventFails(q)
        PROVE  ReturnInv'
    <3>1. CASE Returns!LogStatusEvent(q)
      BY <3>1, LogStatusEventStep
    <3>2. CASE Returns!Resolve(q) \/ Returns!RemedyFails(q)
      BY <3>2, RemedyStep
    <3>3. CASE Returns!Restock(q) \/ Returns!RestockFails(q)
      BY <3>3, RestockStep
    <3>4. CASE Returns!EventFails(q)
      BY <3>4, EventFailsStep
    <3>5. QED BY <2>3, <3>1, <3>2, <3>3, <3>4
  <2>4. QED BY <1>2, <2>1, <2>2, <2>3 DEF Returns!Next
<1>3. QED BY <1>1, <1>2, LedgerFrame

\* Every request that resolves a return gives the one remedy it asked for and restocks the lines, or
\* leaves a failure behind: over independent statements that fail and requests that overlap, nothing
\* is skipped and nothing is done for another request.
THEOREM ReturnsSettled == Spec => []ResolvedIsSettled
<1>1. ReturnInv => ResolvedIsSettled
  <2> SUFFICES ASSUME ReturnInv, NEW r \in Rets, Returns!Settled(r)
               PROVE  /\ \A k \in Returns!Remedies : given[r][k] + missed[r][k] = asked[r][k]
                      /\ given[r].restock + missed[r].restock = IF ret[r].restock THEN Returns!AllAsked(r) ELSE 0
    BY DEF ResolvedIsSettled, Returns!ResolvedIsSettled
  <2>1. \A q \in Movers : ~OwesStock(treq[q], r)
    BY DEF Returns!Settled, OwesStock
  <2>2. Cardinality(Stocking(treq, r)) = 0
    <3>1. Stocking(treq, r) = {}
      BY <2>1 DEF Stocking
    <3>2. QED BY <3>1, FS_EmptySet
  <2>3. \A k \in Returns!Remedies : Cardinality(Owing(treq, r, k)) = 0
    <3>1. \A k \in Returns!Remedies : Owing(treq, r, k) = {}
      BY <2>1 DEF Owing, OwesRemedy, OwesStock
    <3>2. QED BY <3>1, FS_EmptySet
  <2>4. \A k \in Returns!Kinds : given[r][k] \in Nat /\ missed[r][k] \in Nat /\ asked[r][k] \in Nat
    BY DEF ReturnInv, ReturnTypes, Tallies
  <2>5. \A k \in Returns!Remedies : given[r][k] + missed[r][k] = asked[r][k]
    BY <2>3, <2>4 DEF ReturnInv, RemediesAgree, Returns!Kinds
  <2>6. Returns!AllAsked(r) = Asks(asked, r) /\ Asks(asked, r) \in Nat
    BY <2>4 DEF Returns!AllAsked, Asks, Returns!Kinds, Returns!Remedies
  <2>7. given[r]["restock"] + missed[r]["restock"] = IF ret[r].restock THEN Asks(asked, r) ELSE 0
    BY <2>2, <2>6 DEF ReturnInv, StockAgrees
  <2>8. QED BY <2>5, <2>6, <2>7
<1>2. QED BY <1>1, ReturnInit, ReturnsStepped, PTL DEF Spec

-----------------------------------------------------------------------------
(* A cart and its orders.                                                  *)

\* What the rows of the cart come to: at their own prices, at one price, and in pieces.
RowsOf(f) == {l \in Lines : f[l].qty > 0}
CartAt(f) == SumOver([l \in RowsOf(f) |-> f[l].qty * f[l].price], RowsOf(f))
CartFor(f, p) == SumOver([l \in RowsOf(f) |-> f[l].qty * p], RowsOf(f))
PiecesOf(f) == SumOver([l \in RowsOf(f) |-> f[l].qty], RowsOf(f))

\* What the lines of an order come to.
Worth(S) == SumOver([x \in S |-> x.qty * x.price], S)
Pieces(S) == SumOver([x \in S |-> x.qty], S)

LineRow == [qty : Nat, price : Int]
OrderLine == [line : Lines, qty : Nat, price : Int]
ShopperState == [at : {"ready", "insert", "add"}, line : Lines \cup {None}, price : Int]
CheckoutRow == [status : {"none", "pending", "completed"}, subtotal : Int, discount : Int]
TotalState == [at : {"ready", "write"}, subtotal : Int, clean : BOOLEAN]
CompletionState == [at : {"none", "prices", "reprice", "copy", "stock"}, checkout : Checkouts \cup {None},
                    subtotal : Int, now : Int, repriced : SUBSET Lines, copied : SUBSET OrderLine]

BasketTypes ==
    /\ line \in [Lines -> LineRow] /\ price \in Int
    /\ shopper \in [Shoppers -> ShopperState]
    /\ \A s \in Shoppers : shopper[s].at = "add" => shopper[s].line \in Lines
    /\ checkout \in [Checkouts -> CheckoutRow] /\ fresh \in [Checkouts -> TotalState]
    /\ doing \in CompletionState /\ placed = [k \in Checkouts |-> placed[k]]

\* A total that nothing has touched is that of the cart as it is: the one a checkout keeps, and the
\* one an updateCheckout has read and will write.
TotalsKnown ==
    /\ \A k \in Checkouts : checkout[k].status = "pending" /\ k \notin touched =>
          checkout[k].subtotal = CartAt(line)
    /\ \A k \in Checkouts : fresh[k].at = "write" /\ fresh[k].clean => fresh[k].subtotal = CartAt(line)

\* What a completion knows at each of its readings of the cart, unless the cart was touched.
Knows(d, f) ==
    /\ d.at = "prices" => d.repriced = {} /\ d.subtotal = CartAt(f)
    /\ d.at = "reprice" => d.subtotal = CartFor(f, d.now)
    /\ d.at = "copy" => \/ d.repriced = {} /\ d.subtotal = CartAt(f)
                        \/ d.repriced = RowsOf(f) /\ d.subtotal = CartFor(f, d.now)
    /\ d.at = "stock" => d.subtotal = Worth(d.copied) /\ PiecesOf(f) = Pieces(d.copied)

CompletionKnows ==
    doing.at # "none" =>
        /\ doing.checkout \in Checkouts /\ checkout[doing.checkout].status = "pending"
        /\ doing.checkout \notin touched => Knows(doing, line)

OrdersKnown ==
    \A k \in Checkouts : checkout[k].status = "completed" /\ k \notin touched =>
        placed[k].subtotal = Worth(placed[k].lines) /\ placed[k].taken = Pieces(placed[k].lines)

BasketInv == BasketTypes /\ TotalsKnown /\ CompletionKnows /\ OrdersKnown

\* The cart's own sums are sums over its rows.
LEMMA CartSums ==
  /\ Basket!Rows = RowsOf(line) /\ Basket!CartSubtotal = CartAt(line)
  /\ \A f, S : Basket!SumOver(f, S) = SumOver(f, S)
<1>1. \A f, S : Basket!Units(f, S) = Units(f, S)
  BY DEF Basket!Units, Units
<1>2. \A S : Basket!Cardinality(S) = Cardinality(S)
  BY DEF Basket!Cardinality, Cardinality
<1>3. \A f, S : Basket!SumOver(f, S) = SumOver(f, S)
  BY <1>1, <1>2 DEF Basket!SumOver, SumOver
<1>4. Basket!Rows = RowsOf(line)
  BY DEF Basket!Rows, RowsOf
<1>5. QED BY <1>3, <1>4 DEF Basket!CartSubtotal, CartAt

LEMMA CartTypes ==
  ASSUME NEW f \in [Lines -> LineRow], NEW p \in Int
  PROVE  /\ RowsOf(f) \subseteq Lines /\ IsFiniteSet(RowsOf(f))
         /\ CartAt(f) \in Int /\ CartFor(f, p) \in Int
<1>1. RowsOf(f) \subseteq Lines /\ IsFiniteSet(RowsOf(f))
  BY LedgerAssumption, FS_Subset DEF RowsOf
<1>2. \A l \in RowsOf(f) : f[l].qty \in Int /\ f[l].price \in Int
  BY <1>1 DEF LineRow
<1> DEFINE g == [l \in RowsOf(f) |-> f[l].qty * f[l].price]
           h == [l \in RowsOf(f) |-> f[l].qty * p]
<1>3. \A l \in RowsOf(f) : g[l] \in Int /\ h[l] \in Int
  BY <1>2
<1>4. SumOver(g, RowsOf(f)) \in Int /\ SumOver(h, RowsOf(f)) \in Int
  <2> HIDE DEF g, h
  <2>1. QED BY <1>1, <1>3, SumType
<1>5. QED BY <1>1, <1>4 DEF CartAt, CartFor

\* The order lines made of the rows come to what the rows come to, at the prices they were given.
LEMMA CopiedAdds ==
  ASSUME NEW f \in [Lines -> LineRow], NEW R, NEW p \in Int
  PROVE  LET C == {[line |-> l, qty |-> f[l].qty, price |-> IF l \in R THEN p ELSE f[l].price] : l \in RowsOf(f)}
         IN /\ C \subseteq OrderLine /\ Pieces(C) = PiecesOf(f)
            /\ R = {} => Worth(C) = CartAt(f)
            /\ R = RowsOf(f) => Worth(C) = CartFor(f, p)
<1> DEFINE S == RowsOf(f)
           h == [l \in S |-> [line |-> l, qty |-> f[l].qty, price |-> IF l \in R THEN p ELSE f[l].price]]
           C == {h[l] : l \in S}
           w == [x \in C |-> x.qty * x.price]
           n == [x \in C |-> x.qty]
           a == [l \in S |-> f[l].qty * f[l].price]
           b == [l \in S |-> f[l].qty * p]
           c == [l \in S |-> f[l].qty]
<1>1. S \subseteq Lines /\ IsFiniteSet(S)
  BY CartTypes
<1>2. \A l \in S : f[l].qty \in Nat /\ f[l].price \in Int
  BY <1>1 DEF LineRow
<1>3. \A l \in S : h[l].line = l /\ h[l].qty = f[l].qty /\ h[l].price = IF l \in R THEN p ELSE f[l].price
  OBVIOUS
<1>4. \A l \in S : h[l] \in OrderLine
  BY <1>1, <1>2 DEF OrderLine
<1>5. \A l, m \in S : h[l] = h[m] => l = m
  BY <1>3
<1>6. \A l \in S : a[l] \in Int /\ b[l] \in Int /\ c[l] \in Int
  BY <1>2
<1>7. \A l \in S : n[h[l]] = c[l]
  BY <1>3
<1>8. SumOver(n, C) = SumOver(c, S)
  <2> HIDE DEF n, c, h, S
  <2> QED BY <1>1, <1>5, <1>6, <1>7, SumRenamed
<1>9. ASSUME R = {} PROVE SumOver(w, C) = SumOver(a, S)
  <2>1. \A l \in S : w[h[l]] = a[l]
    BY <1>3, <1>9
  <2> HIDE DEF w, a, h, S
  <2>2. QED BY <1>1, <1>5, <1>6, <2>1, SumRenamed
<1>10. ASSUME R = S PROVE SumOver(w, C) = SumOver(b, S)
  <2>1. \A l \in S : w[h[l]] = b[l]
    BY <1>3, <1>10
  <2> HIDE DEF w, b, h, S
  <2>2. QED BY <1>1, <1>5, <1>6, <2>1, SumRenamed
<1>11. C = {[line |-> l, qty |-> f[l].qty, price |-> IF l \in R THEN p ELSE f[l].price] : l \in RowsOf(f)}
  OBVIOUS
<1>12. C \subseteq OrderLine
  BY <1>4
<1>13. QED BY <1>8, <1>9, <1>10, <1>11, <1>12 DEF Pieces, PiecesOf, Worth, CartAt, CartFor

LEMMA BasketInit == Basket!Init => BasketInv
<1> SUFFICES ASSUME Basket!Init PROVE BasketInv
  OBVIOUS
<1> USE DEF Basket!Init, Basket!NoShopper, Basket!NotTotalling, Basket!NotDoing
<1>1. price \in Int
  <2>1. PICK p \in Prices : \A q \in Prices : q <= p
    BY LedgerAssumption
  <2>2. price \in Prices
    BY <2>1
  <2>3. Prices \subseteq Nat
    BY LedgerAssumption
  <2>4. QED BY ONLY <2>2, <2>3
<1>2. line \in [Lines -> LineRow] /\ shopper \in [Shoppers -> ShopperState]
  BY DEF LineRow, ShopperState
<1>3. checkout \in [Checkouts -> CheckoutRow] /\ fresh \in [Checkouts -> TotalState]
  BY DEF CheckoutRow, TotalState
<1>4. doing \in CompletionState
  BY DEF CompletionState
<1>5. BasketTypes
  BY <1>1, <1>2, <1>3, <1>4 DEF BasketTypes
<1>6. TotalsKnown /\ CompletionKnows /\ OrdersKnown
  BY DEF TotalsKnown, CompletionKnows, OrdersKnown
<1>7. QED BY <1>5, <1>6 DEF BasketInv

\* An edit touches every checkout that is pending and every total on its way.
LEMMA BasketEdited ==
  ASSUME BasketInv, BasketTypes', NEW ls, Basket!Edits(ls), UNCHANGED <<checkout, doing, placed>>
  PROVE  BasketInv'
<1>1. touched' = touched \cup {k \in Checkouts : checkout[k].status = "pending"}
  BY DEF Basket!Edits, Basket!Pending
<1>2. \A k \in Checkouts : fresh'[k].clean = FALSE
  <2>1. fresh \in [Checkouts -> TotalState]
    BY DEF BasketInv, BasketTypes
  <2>2. \A k \in Checkouts : fresh'[k] = [fresh[k] EXCEPT !.clean = FALSE]
    BY DEF Basket!Edits
  <2>3. QED BY <2>1, <2>2 DEF TotalState
<1>3. TotalsKnown'
  BY <1>1, <1>2 DEF TotalsKnown
<1>4. CompletionKnows'
  BY <1>1 DEF BasketInv, CompletionKnows
<1>5. OrdersKnown'
  BY <1>1 DEF BasketInv, OrdersKnown
<1>6. QED BY <1>3, <1>4, <1>5 DEF BasketInv

LEMMA LineWritten ==
  ASSUME NEW f \in [Lines -> LineRow], NEW l \in Lines, NEW q \in Nat, NEW p \in Int
  PROVE  /\ [f EXCEPT ![l].qty = q] \in [Lines -> LineRow]
         /\ [f EXCEPT ![l] = [qty |-> q, price |-> p]] \in [Lines -> LineRow]
<1>1. [f[l] EXCEPT !.qty = q] \in LineRow
  BY DEF LineRow
<1>2. [qty |-> q, price |-> p] \in LineRow
  BY DEF LineRow
<1>3. QED BY <1>1, <1>2

LEMMA EditsKept ==
  ASSUME BasketInv, NEW ls, Basket!Edits(ls)
  PROVE  fresh' \in [Checkouts -> TotalState]
<1>1. fresh \in [Checkouts -> TotalState]
  BY DEF BasketInv, BasketTypes
<1>2. \A k \in Checkouts : [fresh[k] EXCEPT !.clean = FALSE] \in TotalState
  BY <1>1 DEF TotalState
<1>3. QED BY <1>2 DEF Basket!Edits

LEMMA ShopperDone ==
  ASSUME BasketInv, NEW s \in Shoppers, shopper' = [shopper EXCEPT ![s] = Basket!NoShopper]
  PROVE  /\ shopper' \in [Shoppers -> ShopperState]
         /\ \A x \in Shoppers : shopper'[x].at = "add" => shopper'[x].line \in Lines
<1>1. Basket!NoShopper \in ShopperState /\ Basket!NoShopper.at # "add"
  BY DEF Basket!NoShopper, ShopperState
<1>2. shopper \in [Shoppers -> ShopperState] /\ \A x \in Shoppers : shopper[x].at = "add" => shopper[x].line \in Lines
  BY DEF BasketInv, BasketTypes
<1>3. \A x \in Shoppers : shopper'[x] = IF x = s THEN Basket!NoShopper ELSE shopper[x]
  BY <1>2
<1>4. QED BY <1>1, <1>2, <1>3

LEMMA LineEdits ==
  ASSUME BasketInv,
         \/ \E s \in Shoppers : Basket!InsertLine(s) \/ Basket!AddToLine(s)
         \/ \E l \in Lines, q \in 0..2 : Basket!UpdateCartLine(l, q)
  PROVE  BasketInv'
<1> USE DEF BasketTypes
<1>t. BasketTypes
  BY DEF BasketInv
<1>1. ASSUME NEW s \in Shoppers, Basket!InsertLine(s) PROVE BasketInv'
  <2>1. Basket!Edits({}) /\ UNCHANGED <<price, checkout, doing, placed>> /\ shopper' = [shopper EXCEPT ![s] = Basket!NoShopper]
    BY <1>1 DEF Basket!InsertLine
  <2> DEFINE m == CHOOSE l \in Basket!Unused : TRUE
  <2>2. m \in Lines /\ line' = [line EXCEPT ![m] = [qty |-> 1, price |-> shopper[s].price]]
    BY <1>1 DEF Basket!InsertLine, Basket!Unused
  <2>3. shopper[s].price \in Int
    BY <1>t DEF ShopperState
  <2>4. line' \in [Lines -> LineRow]
    <3> HIDE DEF m
    <3> QED BY <1>t, <2>2, <2>3, LineWritten
  <2>5. BasketTypes'
    BY <1>t, <2>1, <2>4, EditsKept, ShopperDone
  <2>6. QED BY <2>1, <2>5, BasketEdited
<1>2. ASSUME NEW s \in Shoppers, Basket!AddToLine(s) PROVE BasketInv'
  <2> DEFINE m == shopper[s].line
             q == IF m \in Basket!Rows THEN line[m].qty + 1 ELSE 0
  <2>1. Basket!Edits({m}) /\ UNCHANGED <<price, checkout, doing, placed>> /\ shopper' = [shopper EXCEPT ![s] = Basket!NoShopper]
    BY <1>2 DEF Basket!AddToLine
  <2>2. m \in Lines /\ line' = [line EXCEPT ![m].qty = q]
    BY <1>2, <1>t DEF Basket!AddToLine
  <2>3. q \in Nat
    BY <1>t, <2>2 DEF LineRow
  <2>4. line' \in [Lines -> LineRow]
    <3> HIDE DEF m, q
    <3> QED BY <1>t, <2>2, <2>3, LineWritten
  <2>5. BasketTypes'
    BY <1>t, <2>1, <2>4, EditsKept, ShopperDone
  <2>6. QED BY <2>1, <2>5, BasketEdited
<1>3. ASSUME NEW l \in Lines, NEW q \in 0..2, Basket!UpdateCartLine(l, q) PROVE BasketInv'
  <2>1. Basket!Edits({l}) /\ UNCHANGED <<price, shopper, checkout, doing, placed>> /\ line' = [line EXCEPT ![l].qty = q]
    BY <1>3 DEF Basket!UpdateCartLine
  <2>4. line' \in [Lines -> LineRow]
    <3>1. q \in Nat
      OBVIOUS
    <3>2. [line EXCEPT ![l].qty = q] \in [Lines -> LineRow]
      BY <1>t, <3>1, LineWritten
    <3>3. QED BY <2>1, <3>2
  <2>5. BasketTypes'
    BY <1>t, <2>1, <2>4, EditsKept
  <2>6. QED BY <2>1, <2>5, BasketEdited
<1>4. QED BY <1>1, <1>2, <1>3

LEMMA PriceMoves ==
  ASSUME BasketInv, \/ \E p \in Prices : Basket!ChangePrice(p)
                    \/ \E s \in Shoppers : Basket!FindLine(s)
  PROVE  BasketInv'
<1>t. BasketTypes /\ TotalsKnown /\ CompletionKnows /\ OrdersKnown
  BY DEF BasketInv
<1>1. UNCHANGED <<line, checkout, fresh, doing, placed, touched>>
  BY DEF Basket!ChangePrice, Basket!FindLine
<1>2. price' \in Int
  BY <1>t, LedgerAssumption DEF Basket!ChangePrice, Basket!FindLine, BasketTypes
<1>3. /\ shopper' \in [Shoppers -> ShopperState]
      /\ \A s \in Shoppers : shopper'[s].at = "add" => shopper'[s].line \in Lines
  <2>1. CASE \E p \in Prices : Basket!ChangePrice(p)
    BY <2>1, <1>t DEF Basket!ChangePrice, BasketTypes
  <2>2. CASE \E s \in Shoppers : Basket!FindLine(s)
    <3>1. PICK s \in Shoppers : Basket!FindLine(s)
      BY <2>2
    <3>2. PICK a \in {"insert", "add"}, m \in Lines \cup {None} :
             /\ shopper' = [shopper EXCEPT ![s] = [at |-> a, line |-> m, price |-> price]]
             /\ a = "add" => m \in Lines
      BY <3>1 DEF Basket!FindLine, Basket!Rows
    <3>3. [at |-> a, line |-> m, price |-> price] \in ShopperState
      BY <1>t DEF ShopperState, BasketTypes
    <3>4. QED BY <1>t, <3>2, <3>3 DEF BasketTypes
  <2>3. QED BY <2>1, <2>2
<1>4. BasketTypes'
  BY <1>t, <1>1, <1>2, <1>3 DEF BasketTypes
<1>5. TotalsKnown' /\ CompletionKnows' /\ OrdersKnown'
  BY <1>t, <1>1 DEF TotalsKnown, CompletionKnows, OrdersKnown
<1>6. QED BY <1>4, <1>5 DEF BasketInv

\* A total written to a checkout keeps the row's type.
LEMMA TotalledKept ==
  ASSUME BasketInv, NEW k \in Checkouts, NEW n \in Int, Basket!Totalled(k, n)
  PROVE  /\ checkout' \in [Checkouts -> CheckoutRow]
         /\ checkout'[k].status = "pending" /\ checkout'[k].subtotal = n
         /\ \A j \in Checkouts : j # k => checkout'[j] = checkout[j]
<1> DEFINE r == [status |-> "pending", subtotal |-> n, discount |-> IF Discount < n THEN Discount ELSE n]
<1>1. r \in CheckoutRow /\ r.status = "pending" /\ r.subtotal = n
  BY LedgerAssumption DEF CheckoutRow
<1>2. checkout \in [Checkouts -> CheckoutRow] /\ checkout' = [checkout EXCEPT ![k] = r]
  BY DEF BasketInv, BasketTypes, Basket!Totalled
<1> HIDE DEF r
<1>3. QED BY <1>1, <1>2

LEMMA TotalMoves ==
  ASSUME BasketInv, NEW k \in Checkouts,
         Basket!CreateCheckout(k) \/ Basket!ReadForTotals(k) \/ Basket!UpdateCheckout(k)
  PROVE  BasketInv'
<1>t. BasketTypes /\ TotalsKnown /\ CompletionKnows /\ OrdersKnown
  BY DEF BasketInv
<1>l. line \in [Lines -> LineRow] /\ price \in Int
  BY <1>t DEF BasketTypes
<1>s. CartAt(line) \in Int /\ Basket!CartSubtotal = CartAt(line)
  BY <1>l, CartTypes, CartSums
<1>f. fresh \in [Checkouts -> TotalState] /\ doing \in CompletionState /\ checkout \in [Checkouts -> CheckoutRow]
  BY <1>t DEF BasketTypes
<1>1. ASSUME Basket!CreateCheckout(k) PROVE BasketInv'
  <2>1. /\ checkout[k].status = "none" /\ Basket!Totalled(k, CartAt(line))
        /\ UNCHANGED <<line, price, shopper, fresh, doing, placed, touched>>
    BY <1>1, <1>s DEF Basket!CreateCheckout
  <2>2. /\ checkout' \in [Checkouts -> CheckoutRow]
        /\ checkout'[k].status = "pending" /\ checkout'[k].subtotal = CartAt(line)
        /\ \A j \in Checkouts : j # k => checkout'[j] = checkout[j]
    BY <2>1, <1>s, TotalledKept
  <2>3. BasketTypes'
    BY <1>t, <2>1, <2>2 DEF BasketTypes
  <2>4. TotalsKnown'
    BY <1>t, <2>1, <2>2 DEF TotalsKnown
  <2>5. CompletionKnows'
    BY <1>t, <2>1, <2>2 DEF CompletionKnows
  <2>6. OrdersKnown'
    BY <1>t, <2>1, <2>2 DEF OrdersKnown
  <2>7. QED BY <2>3, <2>4, <2>5, <2>6 DEF BasketInv
<1>2. ASSUME Basket!ReadForTotals(k) PROVE BasketInv'
  <2> DEFINE r == [at |-> "write", subtotal |-> CartAt(line), clean |-> TRUE]
  <2>1. fresh' = [fresh EXCEPT ![k] = r] /\ UNCHANGED <<line, price, shopper, checkout, doing, placed, touched>>
    BY <1>2, <1>s DEF Basket!ReadForTotals
  <2>2. r \in TotalState /\ r.subtotal = CartAt(line)
    BY <1>s DEF TotalState
  <2> HIDE DEF r
  <2>3. fresh' \in [Checkouts -> TotalState] /\ \A j \in Checkouts : fresh'[j] = IF j = k THEN r ELSE fresh[j]
    BY <1>f, <2>1, <2>2
  <2>4. BasketTypes'
    BY <1>t, <2>1, <2>3 DEF BasketTypes
  <2>5. TotalsKnown'
    BY <1>t, <2>1, <2>2, <2>3 DEF TotalsKnown
  <2>6. CompletionKnows' /\ OrdersKnown'
    BY <1>t, <2>1 DEF CompletionKnows, OrdersKnown
  <2>7. QED BY <2>4, <2>5, <2>6 DEF BasketInv
<1>3. ASSUME Basket!UpdateCheckout(k) PROVE BasketInv'
  <2>1. /\ fresh[k].at = "write" /\ doing.checkout # k
        /\ fresh' = [fresh EXCEPT ![k] = Basket!NotTotalling]
        /\ UNCHANGED <<line, price, shopper, doing, placed>>
    BY <1>3 DEF Basket!UpdateCheckout
  <2>2. Basket!NotTotalling \in TotalState /\ Basket!NotTotalling.at = "ready"
    BY DEF Basket!NotTotalling, TotalState
  <2>3. fresh' \in [Checkouts -> TotalState]
        /\ \A j \in Checkouts : fresh'[j] = IF j = k THEN Basket!NotTotalling ELSE fresh[j]
    BY <1>f, <2>1, <2>2
  <2>4. ASSUME checkout[k].status = "pending" PROVE BasketInv'
    <3>1. Basket!Totalled(k, fresh[k].subtotal)
          /\ touched' = IF fresh[k].clean THEN touched \ {k} ELSE touched \cup {k}
      BY <1>3, <2>4 DEF Basket!UpdateCheckout
    <3>2. fresh[k].subtotal \in Int
      BY <1>f DEF TotalState
    <3>3. /\ checkout' \in [Checkouts -> CheckoutRow]
          /\ checkout'[k].status = "pending" /\ checkout'[k].subtotal = fresh[k].subtotal
          /\ \A j \in Checkouts : j # k => checkout'[j] = checkout[j]
      BY <3>1, <3>2, TotalledKept
    <3>4. BasketTypes'
      BY <1>t, <2>1, <2>3, <3>3 DEF BasketTypes
    <3>5. TotalsKnown'
      BY <1>t, <2>1, <2>2, <2>3, <3>1, <3>3 DEF TotalsKnown
    <3>6. CompletionKnows'
      BY <1>t, <2>1, <3>1, <3>3 DEF CompletionKnows
    <3>7. OrdersKnown'
      BY <1>t, <2>1, <3>1, <3>3 DEF OrdersKnown
    <3>8. QED BY <3>4, <3>5, <3>6, <3>7 DEF BasketInv
  <2>5. ASSUME checkout[k].status # "pending" PROVE BasketInv'
    <3>1. UNCHANGED <<checkout, touched>>
      BY <1>3, <2>5 DEF Basket!UpdateCheckout
    <3>2. BasketTypes'
      BY <1>t, <2>1, <2>3, <3>1 DEF BasketTypes
    <3>3. TotalsKnown'
      BY <1>t, <2>1, <2>2, <2>3, <3>1 DEF TotalsKnown
    <3>4. CompletionKnows' /\ OrdersKnown'
      BY <1>t, <2>1, <3>1 DEF CompletionKnows, OrdersKnown
    <3>5. QED BY <3>2, <3>3, <3>4 DEF BasketInv
  <2>6. QED BY <2>4, <2>5
<1>4. QED BY <1>1, <1>2, <1>3

LEMMA CompletionMoves ==
  ASSUME BasketInv, \/ \E k \in Checkouts : Basket!LockCheckout(k)
                    \/ Basket!RefetchPrices \/ Basket!Reprice \/ Basket!CopyLines \/ Basket!CompletionRefused
  PROVE  BasketInv'
<1>t. BasketTypes /\ TotalsKnown /\ CompletionKnows /\ OrdersKnown
  BY DEF BasketInv
<1>l. line \in [Lines -> LineRow] /\ price \in Int /\ doing \in CompletionState /\ checkout \in [Checkouts -> CheckoutRow]
  BY <1>t DEF BasketTypes
<1>r. RowsOf(line) \subseteq Lines /\ Basket!Rows = RowsOf(line)
  BY <1>l, CartTypes, CartSums
<1>u. UNCHANGED <<line, price, shopper, checkout, fresh, placed, touched>>
  BY DEF Basket!LockCheckout, Basket!RefetchPrices, Basket!Reprice, Basket!CopyLines, Basket!CompletionRefused
<1>m. ASSUME doing' \in CompletionState,
             doing'.at # "none" =>
                 /\ doing'.checkout \in Checkouts /\ checkout[doing'.checkout].status = "pending"
                 /\ doing'.checkout \notin touched => Knows(doing', line)
      PROVE  BasketInv'
  <2>1. BasketTypes'
    BY <1>t, <1>u, <1>m DEF BasketTypes
  <2>2. TotalsKnown' /\ OrdersKnown'
    BY <1>t, <1>u DEF TotalsKnown, OrdersKnown
  <2>3. CompletionKnows'
    BY <1>u, <1>m DEF CompletionKnows, Knows
  <2>4. QED BY <2>1, <2>2, <2>3 DEF BasketInv
<1>1. ASSUME NEW k \in Checkouts, Basket!LockCheckout(k) PROVE BasketInv'
  <2> DEFINE d == [Basket!NotDoing EXCEPT !.at = "prices", !.checkout = k, !.subtotal = checkout[k].subtotal]
  <2>1. checkout[k].status = "pending" /\ doing' = d
    BY <1>1 DEF Basket!LockCheckout
  <2>2. checkout[k].subtotal \in Int
    BY <1>l DEF CheckoutRow
  <2>3. d \in CompletionState /\ d.at = "prices" /\ d.checkout = k /\ d.subtotal = checkout[k].subtotal /\ d.repriced = {}
    <3>1. Basket!NotDoing \in CompletionState /\ Basket!NotDoing.repriced = {}
      BY DEF Basket!NotDoing, CompletionState
    <3>2. \A z \in CompletionState, n \in Int :
             LET w == [z EXCEPT !.at = "prices", !.checkout = k, !.subtotal = n]
             IN /\ w \in CompletionState /\ w.at = "prices" /\ w.checkout = k /\ w.subtotal = n
                /\ w.repriced = z.repriced
      BY DEF CompletionState
    <3>3. QED BY <2>2, <3>1, <3>2
  <2> HIDE DEF d
  <2>4. k \notin touched => Knows(d, line)
    BY <1>t, <2>1, <2>3 DEF Knows, TotalsKnown
  <2>5. QED BY <1>m, <2>1, <2>3, <2>4
<1>2. ASSUME Basket!RefetchPrices PROVE BasketInv'
  <2>1. doing.at = "prices"
    BY <1>2 DEF Basket!RefetchPrices
  <2>2. /\ doing.checkout \in Checkouts /\ checkout[doing.checkout].status = "pending"
        /\ doing.checkout \notin touched => doing.repriced = {} /\ doing.subtotal = CartAt(line)
    BY <1>t, <2>1 DEF CompletionKnows, Knows
  <2> DEFINE n == CartFor(line, price)
             d == [doing EXCEPT !.at = "reprice", !.now = price, !.subtotal = n]
             e == [doing EXCEPT !.at = "copy"]
  <2>3. doing' = d \/ doing' = e
    BY <1>2, <1>r, CartSums DEF Basket!RefetchPrices, CartFor
  <2>4. n \in Int
    BY <1>l, CartTypes
  <2>5. ASSUME doing' = d PROVE BasketInv'
    <3> HIDE DEF n
    <3>1. d \in CompletionState /\ d.at = "reprice" /\ d.checkout = doing.checkout /\ d.subtotal = n /\ d.now = price
      BY <1>l, <2>4 DEF CompletionState
    <3> HIDE DEF d
    <3>2. Knows(d, line)
      BY <3>1 DEF Knows, n
    <3>3. QED BY <1>m, <2>2, <2>5, <3>1, <3>2
  <2>6. ASSUME doing' = e PROVE BasketInv'
    <3>1. e \in CompletionState /\ e.at = "copy" /\ e.checkout = doing.checkout /\ e.subtotal = doing.subtotal /\ e.repriced = doing.repriced
      BY <1>l DEF CompletionState
    <3> HIDE DEF e
    <3>2. doing.checkout \notin touched => Knows(e, line)
      BY <2>2, <3>1 DEF Knows
    <3>3. QED BY <1>m, <2>2, <2>6, <3>1, <3>2
  <2>7. QED BY <2>3, <2>5, <2>6
<1>3. ASSUME Basket!Reprice PROVE BasketInv'
  <2> DEFINE e == [doing EXCEPT !.at = "copy", !.repriced = RowsOf(line)]
  <2>1. doing.at = "reprice" /\ doing' = e
    BY <1>3, <1>r DEF Basket!Reprice
  <2>2. /\ doing.checkout \in Checkouts /\ checkout[doing.checkout].status = "pending"
        /\ doing.checkout \notin touched => doing.subtotal = CartFor(line, doing.now)
    BY <1>t, <2>1 DEF CompletionKnows, Knows
  <2>3. /\ e \in CompletionState /\ e.at = "copy" /\ e.checkout = doing.checkout
        /\ e.subtotal = doing.subtotal /\ e.repriced = RowsOf(line) /\ e.now = doing.now
    BY <1>l, <1>r DEF CompletionState
  <2> HIDE DEF e
  <2>4. doing.checkout \notin touched => Knows(e, line)
    BY <2>2, <2>3 DEF Knows
  <2>5. QED BY <1>m, <2>1, <2>2, <2>3, <2>4
<1>4. ASSUME Basket!CopyLines PROVE BasketInv'
  <2> DEFINE C == {[line |-> l, qty |-> line[l].qty,
                    price |-> IF l \in doing.repriced THEN doing.now ELSE line[l].price] : l \in RowsOf(line)}
             e == [doing EXCEPT !.at = "stock", !.copied = C]
  <2>1. doing.at = "copy" /\ doing' = e
    BY <1>4, <1>r DEF Basket!CopyLines
  <2>2. /\ doing.checkout \in Checkouts /\ checkout[doing.checkout].status = "pending"
        /\ doing.checkout \notin touched =>
               \/ doing.repriced = {} /\ doing.subtotal = CartAt(line)
               \/ doing.repriced = RowsOf(line) /\ doing.subtotal = CartFor(line, doing.now)
    BY <1>t, <2>1 DEF CompletionKnows, Knows
  <2>3. doing.now \in Int
    BY <1>l DEF CompletionState
  <2>4. /\ C \subseteq OrderLine /\ Pieces(C) = PiecesOf(line)
        /\ doing.repriced = {} => Worth(C) = CartAt(line)
        /\ doing.repriced = RowsOf(line) => Worth(C) = CartFor(line, doing.now)
    BY <1>l, <2>3, CopiedAdds
  <2> HIDE DEF C
  <2>5. e \in CompletionState /\ e.at = "stock" /\ e.checkout = doing.checkout /\ e.subtotal = doing.subtotal /\ e.copied = C
    BY <1>l, <2>4 DEF CompletionState
  <2> HIDE DEF e
  <2>6. doing.checkout \notin touched => Knows(e, line)
    BY <2>2, <2>4, <2>5 DEF Knows
  <2>7. QED BY <1>m, <2>1, <2>2, <2>5, <2>6
<1>5. ASSUME Basket!CompletionRefused PROVE BasketInv'
  <2>1. doing' = Basket!NotDoing
    BY <1>5 DEF Basket!CompletionRefused
  <2>2. Basket!NotDoing \in CompletionState /\ Basket!NotDoing.at = "none"
    BY DEF Basket!NotDoing, CompletionState
  <2>3. QED BY <1>m, <2>1, <2>2
<1>6. QED BY <1>1, <1>2, <1>3, <1>4, <1>5

LEMMA StockTaken ==
  ASSUME BasketInv, Basket!TakeStock
  PROVE  BasketInv'
<1>t. BasketTypes /\ TotalsKnown /\ CompletionKnows /\ OrdersKnown
  BY DEF BasketInv
<1>l. /\ line \in [Lines -> LineRow] /\ doing \in CompletionState /\ checkout \in [Checkouts -> CheckoutRow]
      /\ fresh \in [Checkouts -> TotalState]
  BY <1>t DEF BasketTypes
<1> DEFINE k == doing.checkout
           o == [subtotal |-> doing.subtotal, total |-> doing.subtotal - checkout[k].discount,
                 lines |-> doing.copied, taken |-> PiecesOf(line)]
           r == [checkout[k] EXCEPT !.status = "completed", !.subtotal = doing.subtotal]
<1>1. /\ doing.at = "stock" /\ doing' = Basket!NotDoing /\ UNCHANGED <<price, shopper>>
      /\ placed' = [placed EXCEPT ![k] = o]
      /\ checkout' = [checkout EXCEPT ![k] = r]
      /\ line' = [l \in Lines |-> IF l \in doing.repriced THEN [line[l] EXCEPT !.price = doing.now] ELSE line[l]]
      /\ IF doing.repriced = {} THEN UNCHANGED <<touched, fresh>>
         ELSE /\ touched' = touched \cup ({j \in Checkouts : checkout[j].status = "pending"} \ {k})
              /\ fresh' = [j \in Checkouts |-> [fresh[j] EXCEPT !.clean = FALSE]]
  BY CartSums DEF Basket!TakeStock, PiecesOf, Basket!Pending
<1>2. /\ k \in Checkouts /\ checkout[k].status = "pending"
      /\ k \notin touched => doing.subtotal = Worth(doing.copied) /\ PiecesOf(line) = Pieces(doing.copied)
  BY <1>t, <1>1 DEF CompletionKnows, Knows
<1>3. doing.subtotal \in Int /\ doing.now \in Int
  BY <1>l DEF CompletionState
<1>4. r \in CheckoutRow /\ r.status = "completed"
  BY <1>l, <1>2, <1>3 DEF CheckoutRow
<1>5. o.subtotal = doing.subtotal /\ o.lines = doing.copied /\ o.taken = PiecesOf(line)
  OBVIOUS
<1>6. line' \in [Lines -> LineRow]
  <2>1. \A l \in Lines : [line[l] EXCEPT !.price = doing.now] \in LineRow
    BY <1>l, <1>3 DEF LineRow
  <2>2. QED BY <1>1, <1>l, <2>1
<1>7. doing.repriced = {} => line' = line
  <2>1. \A f : line' = [l \in Lines |-> line[l]] => line' = line
    BY <1>l
  <2>2. QED BY <1>1, <1>l
<1>8. fresh' \in [Checkouts -> TotalState]
  <2>1. \A j \in Checkouts : [fresh[j] EXCEPT !.clean = FALSE] \in TotalState
    BY <1>l DEF TotalState
  <2>2. QED BY <1>1, <1>l, <2>1
<1> HIDE DEF o, r
<1>9. /\ checkout' \in [Checkouts -> CheckoutRow]
      /\ \A j \in Checkouts : checkout'[j] = IF j = k THEN r ELSE checkout[j]
  BY <1>1, <1>2, <1>4, <1>l
<1>10. /\ placed' = [j \in Checkouts |-> placed'[j]]
       /\ \A j \in Checkouts : placed'[j] = IF j = k THEN o ELSE placed[j]
  BY <1>1, <1>2, <1>t DEF BasketTypes
<1>11. Basket!NotDoing \in CompletionState /\ Basket!NotDoing.at = "none"
  BY DEF Basket!NotDoing, CompletionState
<1>12. BasketTypes'
  BY <1>t, <1>1, <1>6, <1>8, <1>9, <1>10, <1>11 DEF BasketTypes
<1>13. TotalsKnown'
  <2>1. CASE doing.repriced = {}
    <3>1. line' = line /\ touched' = touched /\ fresh' = fresh
      BY <1>1, <1>7, <2>1
    <3>2. QED BY <1>t, <1>4, <1>9, <3>1 DEF TotalsKnown
  <2>2. CASE doing.repriced # {}
    <3>1. touched' = touched \cup ({j \in Checkouts : checkout[j].status = "pending"} \ {k})
      BY <1>1, <2>2
    <3>2. \A j \in Checkouts : fresh'[j].clean = FALSE
      <4>1. \A j \in Checkouts : [fresh[j] EXCEPT !.clean = FALSE].clean = FALSE
        BY <1>l DEF TotalState
      <4>2. QED BY <1>1, <2>2, <4>1
    <3>3. QED BY <1>4, <1>9, <3>1, <3>2 DEF TotalsKnown
  <2>3. QED BY <2>1, <2>2
<1>14. CompletionKnows'
  BY <1>1, <1>11 DEF CompletionKnows
<1>15. touched \subseteq touched' /\ (k \in touched' => k \in touched)
  BY <1>1
<1>16. OrdersKnown'
  <2>1. ASSUME NEW j \in Checkouts, checkout'[j].status = "completed", j \notin touched'
        PROVE  placed'[j].subtotal = Worth(placed'[j].lines) /\ placed'[j].taken = Pieces(placed'[j].lines)
    <3>1. CASE j = k
      BY <1>2, <1>5, <1>10, <1>15, <2>1, <3>1
    <3>2. CASE j # k
      BY <1>t, <1>9, <1>10, <1>15, <2>1, <3>2 DEF OrdersKnown
    <3>3. QED BY <3>1, <3>2
  <2>2. QED BY <2>1 DEF OrdersKnown
<1>17. QED BY <1>12, <1>13, <1>14, <1>16 DEF BasketInv

LEMMA BasketsStepped == BasketInv /\ [Next]_vars => BasketInv'
<1> SUFFICES ASSUME BasketInv, [Next]_vars PROVE BasketInv'
  OBVIOUS
<1>1. CASE UNCHANGED baskets
  <2>1. UNCHANGED <<line, price, shopper, checkout, fresh, doing, placed, touched>>
    BY <1>1 DEF baskets
  <2>2. QED BY <2>1 DEF BasketInv, BasketTypes, TotalsKnown, CompletionKnows, OrdersKnown
<1>2. CASE Basket!Next
  <2>1. CASE \/ \E s \in Shoppers : Basket!InsertLine(s) \/ Basket!AddToLine(s)
             \/ \E l \in Lines, q \in 0..2 : Basket!UpdateCartLine(l, q)
    BY <2>1, LineEdits
  <2>2. CASE \/ \E p \in Prices : Basket!ChangePrice(p)
             \/ \E s \in Shoppers : Basket!FindLine(s)
    BY <2>2, PriceMoves
  <2>3. CASE \E k \in Checkouts : Basket!CreateCheckout(k) \/ Basket!ReadForTotals(k) \/ Basket!UpdateCheckout(k)
    BY <2>3, TotalMoves
  <2>4. CASE \/ \E k \in Checkouts : Basket!LockCheckout(k)
             \/ Basket!RefetchPrices \/ Basket!Reprice \/ Basket!CopyLines \/ Basket!CompletionRefused
    BY <2>4, CompletionMoves
  <2>5. CASE Basket!TakeStock
    BY <2>5, StockTaken
  <2>6. QED BY <1>2, <2>1, <2>2, <2>3, <2>4, <2>5 DEF Basket!Next
<1>3. QED BY <1>1, <1>2, HolderFrame

\* An order is worth its lines and has taken their quantity from stock whenever its cart was left
\* alone since the checkout was totalled: over the three readings a completion makes of the cart, the
\* prices that change between them, totals that are written late and the other checkouts of the cart.
THEOREM OrdersAreTheirLines == Spec => []OrderIsItsLines
<1>1. Init => BasketInv
  BY BasketInit DEF Init
<1>2. BasketInv => OrderIsItsLines
  <2> SUFFICES ASSUME BasketInv, NEW k \in Basket!Completed \ touched
               PROVE  /\ placed[k].subtotal = Basket!SumOver([x \in placed[k].lines |-> x.qty * x.price], placed[k].lines)
                      /\ placed[k].taken = Basket!SumOver([x \in placed[k].lines |-> x.qty], placed[k].lines)
    BY DEF OrderIsItsLines, Basket!OrderIsItsLines
  <2>1. k \in Checkouts /\ checkout[k].status = "completed" /\ k \notin touched
    BY DEF Basket!Completed
  <2>2. placed[k].subtotal = Worth(placed[k].lines) /\ placed[k].taken = Pieces(placed[k].lines)
    BY <2>1 DEF BasketInv, OrdersKnown
  <2>3. QED BY <2>2, CartSums DEF Worth, Pieces
<1>3. QED BY <1>1, <1>2, BasketsStepped, PTL DEF Spec
=============================================================================
