------------------------------ MODULE Downloads ------------------------------
(***************************************************************************)
(* The download links of a digital order.  Nothing makes a link unique, so *)
(* every generation inserts another row for the file; a redemption is a    *)
(* transaction on the row of its link.                                     *)
(***************************************************************************)
EXTENDS Naturals

CONSTANTS Links, Readers, MaxDownloads, None

VARIABLES link,   \* [made, expired, count, holder]: a row of digital_download_links
          reader, \* [at, link]: a request with a token
          served  \* files handed out for a link

dvars == <<link, reader, served>>

Init ==
    /\ link = [l \in Links |-> [made |-> FALSE, expired |-> FALSE, count |-> 0, holder |-> None]]
    /\ reader = [r \in Readers |-> [at |-> "ready", link |-> None, count |-> 0]]
    /\ served = [l \in Links |-> 0]

GenerateDownloadLinks(l) ==
    /\ ~link[l].made
    /\ link' = [link EXCEPT ![l].made = TRUE]
    /\ UNCHANGED <<reader, served>>

Expire(l) ==
    /\ link[l].made /\ ~link[l].expired
    /\ link' = [link EXCEPT ![l].expired = TRUE]
    /\ UNCHANGED <<reader, served>>

\* The row is locked, then its date and its count are asked; a refusal gives the
\* lock back at once
ValidateToken(r, l) ==
    /\ reader[r].at = "ready" /\ link[l].made /\ link[l].holder = None
    /\ ~link[l].expired /\ link[l].count < MaxDownloads
    /\ link' = [link EXCEPT ![l].holder = r]
    /\ reader' = [reader EXCEPT ![r] = [at |-> "redeem", link |-> l, count |-> link[l].count]]
    /\ UNCHANGED served

\* download_count + 1, COMMIT and the answer with the file
Redeem(r) ==
    LET l == reader[r].link
    IN /\ reader[r].at = "redeem"
       /\ link' = [link EXCEPT ![l].count = @ + 1, ![l].holder = None]
       /\ served' = [served EXCEPT ![l] = @ + 1]
       /\ reader' = [reader EXCEPT ![r].at = "ready", ![r].link = None]

\* The transaction fails, or its answer never arrives
RedeemFails(r) ==
    LET l == reader[r].link
    IN /\ reader[r].at = "redeem"
       /\ link' = [link EXCEPT ![l].holder = None, ![l].count = @]
       /\ reader' = [reader EXCEPT ![r].at = "ready", ![r].link = None]
       /\ UNCHANGED served

Next ==
    \/ \E l \in Links : GenerateDownloadLinks(l) \/ Expire(l)
    \/ \E r \in Readers : Redeem(r) \/ RedeemFails(r) \/ \E l \in Links : ValidateToken(r, l)

-----------------------------------------------------------------------------
\* However many readers use one token at once, no more files leave than the link
\* allows, and the counter of the link tells how many.
DownloadsWithinMax == \A l \in Links : served[l] <= MaxDownloads /\ served[l] <= link[l].count
=============================================================================
