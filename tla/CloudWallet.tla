----------------------------- MODULE CloudWallet -----------------------------
(***************************************************************************)
(* The wallet of an organisation of the cloud and its vouchers.  Every     *)
(* statement commits by itself: the balance is guarded by the condition of *)
(* its UPDATE, the ledger entry follows, and a voucher is read, counted    *)
(* and then redeemed.                                                      *)
(***************************************************************************)
EXTENDS Naturals, FiniteSets

CONSTANTS Movers,    \* credits and debits of one unit
          Redeemers, \* requests that apply the voucher
          Orgs, Max, \* max_redemptions
          MaxTopups, \* topup webhooks, redelivered ones included
          MaxFaults, None

VARIABLES funds,  \* billing_wallets.balance_cents
          ledger, \* billing_wallet_ledger: how many [credit, debit]
          mover,  \* [at, kind]
          topups, \* webhooks that have credited the wallet
          count,  \* billing_vouchers.redemption_count
          redeemed, \* organisations in billing_voucher_redemptions
          applying, \* [at, org]
          faults

kvars == <<funds, ledger, mover, topups, count, redeemed, applying, faults>>

Init ==
    /\ funds = 0
    /\ ledger = [credit |-> 0, debit |-> 0]
    /\ mover = [m \in Movers |-> [at |-> "balance", kind |-> "credit"]]
    /\ topups = 0 /\ count = 0 /\ redeemed = {}
    /\ applying = [v \in Redeemers |-> [at |-> "read", org |-> None]]
    /\ faults = 0

MovesTo(m, step, kind) == mover' = [mover EXCEPT ![m] = [at |-> step, kind |-> kind]]

\* creditWallet, and debitWallet with balance_cents >= amount in its UPDATE
MoveFunds(m) ==
    /\ mover[m].at = "balance"
    /\ \/ funds' = funds + 1 /\ MovesTo(m, "entry", "credit")
       \/ funds > 0 /\ funds' = funds - 1 /\ MovesTo(m, "entry", "debit")
       \/ funds = 0 /\ UNCHANGED funds /\ MovesTo(m, "done", "debit")
    /\ UNCHANGED <<ledger, topups, count, redeemed, applying, faults>>

LedgerEntry(m) ==
    /\ mover[m].at = "entry"
    /\ ledger' = [ledger EXCEPT ![mover[m].kind] = @ + 1]
    /\ mover' = [mover EXCEPT ![m].at = "done"]
    /\ UNCHANGED <<funds, topups, count, redeemed, applying, faults>>

\* charge.success with the intent topup_wallet: neither the ledger nor the
\* reference of the payment is looked at
TopupWallet ==
    /\ topups < MaxTopups
    /\ topups' = topups + 1 /\ funds' = funds + 1
    /\ UNCHANGED <<ledger, mover, count, redeemed, applying, faults>>

-----------------------------------------------------------------------------
Step(v, step) == applying' = [applying EXCEPT ![v].at = step]

\* applyVoucher reads the voucher and whether the organisation has redeemed it
ReadVoucher(v) ==
    /\ applying[v].at = "read"
    /\ \E g \in Orgs : applying' = [applying EXCEPT ![v] =
          [at |-> IF count < Max /\ g \notin redeemed THEN "count" ELSE "refused", org |-> g]]
    /\ UNCHANGED <<funds, ledger, mover, topups, count, redeemed, faults>>

CountRedemption(v) ==
    /\ applying[v].at = "count"
    /\ count' = count + 1
    /\ Step(v, "redeem")
    /\ UNCHANGED <<funds, ledger, mover, topups, redeemed, faults>>

\* The unique index on (voucher, organisation) refuses a second row
RecordRedemption(v) ==
    /\ applying[v].at = "redeem"
    /\ IF applying[v].org \in redeemed THEN Step(v, "refused") /\ UNCHANGED redeemed
       ELSE Step(v, "applied") /\ redeemed' = redeemed \cup {applying[v].org}
    /\ UNCHANGED <<funds, ledger, mover, topups, count, faults>>

StatementFails ==
    /\ faults < MaxFaults /\ faults' = faults + 1
    /\ \/ \E m \in Movers : /\ mover[m].at # "done"
                            /\ mover' = [mover EXCEPT ![m].at = "done"] /\ UNCHANGED applying
       \/ \E v \in Redeemers : /\ applying[v].at \in {"read", "count", "redeem"}
                               /\ Step(v, "refused") /\ UNCHANGED mover
    /\ UNCHANGED <<funds, ledger, topups, count, redeemed>>

Next ==
    \/ \E m \in Movers : MoveFunds(m) \/ LedgerEntry(m)
    \/ \E v \in Redeemers : ReadVoucher(v) \/ CountRedemption(v) \/ RecordRedemption(v)
    \/ TopupWallet \/ StatementFails

-----------------------------------------------------------------------------
Entering(kind) == Cardinality({m \in Movers : mover[m].at = "entry" /\ mover[m].kind = kind})

\* The wallet is what was credited and topped up less what was debited, over
\* debits at once and entries that lag behind; an entry that could not be written
\* is the only difference.
FundsAddUp ==
    LET in == ledger.credit + Entering("credit") + topups
        out == ledger.debit + Entering("debit") + funds
    IN in <= out + faults /\ out <= in + faults

Applied == {v \in Redeemers : applying[v].at = "applied"}

\* No organisation gets the discount of a voucher twice, and no discount is given
\* that was not counted, though nothing makes the three statements one.
DiscountsAreCounted ==
    /\ \A v, w \in Applied : applying[v].org = applying[w].org => v = w
    /\ Cardinality(redeemed) <= count

\* The limit of a voucher.
RedemptionsWithinMax == Cardinality(redeemed) <= Max
=============================================================================
