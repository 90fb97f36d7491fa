----------------------------- MODULE SearchIndex -----------------------------
(***************************************************************************)
(* The embedding worker: replicas take turns at a lock, look for products  *)
(* that were updated since they were embedded, and write a vector back.    *)
(* Nothing is in a transaction with anything else.  A vector is the        *)
(* version of the text it was made from.                                   *)
(***************************************************************************)
EXTENDS Naturals, Sequences, SequencesExt

CONSTANTS Products, Workers, Limit, Batch, \* LIMIT 100, BATCH_SIZE
          Poison,                          \* products whose text the provider refuses
          MaxEdits, MaxFaults, None

VARIABLES version,   \* what the text of a product would be
          vector,    \* the version embedded, 0 for none
          updated,   \* the products, ORDER BY updated_at
          due,       \* updated_at > embedding_updated_at, or never embedded
          missed,    \* history: the last edit was one the worker does not notice
          job,       \* [at, queue, batch, docs] of each replica
          lease, edits, faults

xvars == <<version, vector, updated, due, missed, job, lease, edits, faults>>

Lock == "embedding-worker"
L == INSTANCE WorkerLock WITH Locks <- {Lock}

Idle == [at |-> "idle", queue |-> <<>>, batch |-> <<>>, docs |-> <<>>]

Init ==
    /\ version = [p \in Products |-> 1]
    /\ vector = [p \in Products |-> 0]
    /\ updated = SetToSeq(Products)
    /\ due = Products
    /\ missed = {}
    /\ job = [w \in Workers |-> Idle]
    /\ lease = [n \in {Lock} |-> L!NoLease]
    /\ edits = 0 /\ faults = 0

Touched(p) == Append(SelectSeq(updated, LAMBDA x : x # p), p)
Held(p) == \E w \in Workers : \E i \in 1..Len(job[w].docs) : job[w].docs[i].id = p

\* Between two batches of a pass
Further(queue) ==
    IF queue = <<>> THEN [Idle EXCEPT !.at = "release"]
    ELSE LET n == IF Len(queue) < Batch THEN Len(queue) ELSE Batch
         IN [at |-> "fetch", queue |-> SubSeq(queue, n + 1, Len(queue)),
             batch |-> SubSeq(queue, 1, n), docs |-> <<>>]

-----------------------------------------------------------------------------
\* An update of the row, whose trigger dates it
EditProduct(p) ==
    /\ edits < MaxEdits /\ edits' = edits + 1
    /\ version' = [version EXCEPT ![p] = @ + 1]
    /\ due' = due \cup {p}
    /\ updated' = Touched(p)
    /\ missed' = IF Held(p) THEN missed \cup {p} ELSE missed \ {p}
    /\ UNCHANGED <<vector, job, lease, faults>>

\* A variant is another row, and the product is not dated
EditVariant(p) ==
    /\ edits < MaxEdits /\ edits' = edits + 1
    /\ version' = [version EXCEPT ![p] = @ + 1]
    /\ missed' = missed \cup {p}
    /\ UNCHANGED <<vector, updated, due, job, lease, faults>>

-----------------------------------------------------------------------------
StartPass(w) ==
    /\ job[w].at = "idle" /\ L!Acquire(Lock, w)
    /\ job' = [job EXCEPT ![w].at = "select"]
    /\ UNCHANGED <<version, vector, updated, due, missed, edits, faults>>

SelectProducts(w) ==
    LET found == SelectSeq(updated, LAMBDA p : p \in due)
    IN /\ job[w].at = "select"
       /\ job' = [job EXCEPT ![w] = Further(SubSeq(found, 1, IF Len(found) < Limit THEN Len(found) ELSE Limit))]
       /\ UNCHANGED <<version, vector, updated, due, missed, lease, edits, faults>>

FetchProductForIndexing(w) ==
    LET p == Head(job[w].batch)
        rest == Tail(job[w].batch)
    IN /\ job[w].at = "fetch"
       /\ job' = [job EXCEPT ![w].at = IF rest = <<>> THEN "embed" ELSE "fetch", ![w].batch = rest,
                             ![w].docs = Append(@, [id |-> p, version |-> version[p]])]
       /\ UNCHANGED <<version, vector, updated, due, missed, lease, edits, faults>>

Embed(w) ==
    /\ job[w].at = "embed"
    /\ \A i \in 1..Len(job[w].docs) : job[w].docs[i].id \notin Poison
    /\ job' = [job EXCEPT ![w].at = "write"]
    /\ UNCHANGED <<version, vector, updated, due, missed, lease, edits, faults>>

\* Mutant of EmbedFails: what was tried counts as embedded.
EmbedIsGivenUp(w) ==
    /\ job[w].at = "embed" /\ faults < MaxFaults /\ faults' = faults + 1
    /\ due' = due \ {job[w].docs[i].id : i \in 1..Len(job[w].docs)}
    /\ job' = [job EXCEPT ![w] = Further(@.queue)]
    /\ UNCHANGED <<version, vector, updated, missed, lease, edits>>

\* The batch is skipped, with every product in it
EmbedFails(w) ==
    /\ job[w].at = "embed"
    /\ \/ faults < MaxFaults /\ faults' = faults + 1
       \/ /\ \E i \in 1..Len(job[w].docs) : job[w].docs[i].id \in Poison
          /\ UNCHANGED faults
    /\ job' = [job EXCEPT ![w] = Further(@.queue)]
    /\ UNCHANGED <<version, vector, updated, due, missed, lease, edits>>

\* embedding_updated_at = now(), which the trigger writes to updated_at as well
WriteEmbedding(w) ==
    LET d == Head(job[w].docs)
        rest == Tail(job[w].docs)
    IN /\ job[w].at = "write"
       /\ vector' = [vector EXCEPT ![d.id] = d.version]
       /\ due' = due \ {d.id}
       /\ updated' = Touched(d.id)
       /\ job' = [job EXCEPT ![w] = IF rest = <<>> THEN Further(@.queue) ELSE [@ EXCEPT !.docs = rest]]
       /\ UNCHANGED <<version, missed, lease, edits, faults>>

FinishPass(w) ==
    /\ job[w].at = "release" /\ L!Release(Lock, w)
    /\ job' = [job EXCEPT ![w] = Idle]
    /\ UNCHANGED <<version, vector, updated, due, missed, edits, faults>>

Crash(w) ==
    /\ job[w] # Idle /\ faults < MaxFaults /\ faults' = faults + 1
    /\ job' = [job EXCEPT ![w] = Idle]
    /\ UNCHANGED <<version, vector, updated, due, missed, lease, edits>>

LeaseRunsOut ==
    /\ L!RunOut(Lock)
    /\ UNCHANGED <<version, vector, updated, due, missed, job, edits, faults>>

Step(w) ==
    \/ StartPass(w) \/ SelectProducts(w) \/ FetchProductForIndexing(w)
    \/ Embed(w) \/ EmbedFails(w) \/ WriteEmbedding(w) \/ FinishPass(w)

Next ==
    \/ \E p \in Products : EditProduct(p) \/ EditVariant(p)
    \/ \E w \in Workers : Step(w) \/ Crash(w)
    \/ LeaseRunsOut

-----------------------------------------------------------------------------
\* Replicas that overlap, faults and crashes included: a product that is not due is found by
\* its own text, unless the last edit touched a variant or fell between fetch and write.
IndexedIsCurrent == \A p \in Products : p \notin due \cup missed => vector[p] = version[p]

\* A product that was edited is embedded again, after crashes and failing calls too.
DueIsIndexed == \A p \in Products : p \in due ~> p \notin due
=============================================================================
