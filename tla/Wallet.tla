------------------------------- MODULE Wallet -------------------------------
(***************************************************************************)
(* One store-credit wallet (a customer and a currency) and its append-only *)
(* ledger.  A request is one transaction: it takes the lock of the row,    *)
(* reads the balance, writes it and appends the entry, and commits.        *)
(***************************************************************************)
EXTENDS Integers, Sequences

CONSTANTS Requests, Deltas, None

VARIABLES balance, \* store_credits.balance, None without a row
          entries, \* store_credit_transactions
          holder,  \* the transaction that has the row's lock
          req      \* a request: [at, delta, read]

wvars == <<balance, entries, holder, req>>

Init ==
    /\ balance = None
    /\ entries = <<>>
    /\ holder = None
    /\ req = [r \in Requests |-> [at |-> "lock", delta |-> 0, read |-> 0]]

End(r) == req' = [req EXCEPT ![r].at = "done"]

\* An issue is of a positive amount and inserts the row when there is none; an
\* adjustment is of any amount and needs the row.
Reads(r) ==
    /\ holder' = r
    /\ \E delta \in Deltas :
          /\ balance # None \/ delta > 0
          /\ req' = [req EXCEPT ![r] = [at |-> "write", delta |-> delta,
                                        read |-> IF balance = None THEN 0 ELSE balance]]
    /\ UNCHANGED <<balance, entries>>

\* Mutant of LockRow: the row is read without FOR UPDATE.
ReadRow(r) == req[r].at = "lock" /\ Reads(r)

\* SELECT ... FOR UPDATE
LockRow(r) == req[r].at = "lock" /\ holder = None /\ Reads(r)

\* WALLET_NOT_FOUND
NoWallet(r) ==
    /\ req[r].at = "lock" /\ balance = None
    /\ End(r)
    /\ UNCHANGED <<balance, entries, holder>>

\* The balance and the entry, or INSUFFICIENT_CREDIT
Write(r) ==
    LET new == req[r].read + req[r].delta
    IN /\ req[r].at = "write"
       /\ IF new < 0 THEN UNCHANGED <<balance, entries>>
          ELSE /\ balance' = new
               /\ entries' = Append(entries, [delta |-> req[r].delta, after |-> new])
       /\ holder' = None
       /\ End(r)

Rollback(r) ==
    /\ req[r].at = "write"
    /\ holder' = None
    /\ End(r)
    /\ UNCHANGED <<balance, entries>>

Next == \E r \in Requests : LockRow(r) \/ NoWallet(r) \/ Write(r) \/ Rollback(r)

-----------------------------------------------------------------------------
Before(i) == IF i = 1 THEN 0 ELSE entries[i - 1].after

\* The entries add up to the balance, entry by entry, and no entry is overdrawn:
\* requests that overlap are as good as requests one after the other.
WalletLedgerAddsUp ==
    /\ \A i \in 1..Len(entries) :
          entries[i].after = Before(i) + entries[i].delta /\ entries[i].after >= 0
    /\ balance # None => balance = Before(Len(entries) + 1)
=============================================================================
