------------------------------- MODULE CsvImport -------------------------------
(***************************************************************************)
(* Imports of CSV files whose rows are about one product, by its slug.     *)
(* Each row is a transaction: it updates or inserts the product, and then  *)
(* updates the variant it finds or inserts one.  Nothing makes a SKU       *)
(* unique; the lock on the product is what keeps two imports apart.        *)
(***************************************************************************)
EXTENDS Naturals

CONSTANTS Imports, CsvRows, \* [sku, title, stocked], sku may be None
          MaxRows, MaxEdits, None

VARIABLES product, \* its id, or None
          variants, \* [id, sku, title, imported, stock]: whether an import has put it in and staff have
                   \* not renamed it since, and the row its stock is from
          job,     \* [at, row, of, new, found]
          holder,  \* the import whose open transaction holds the row or the slug
          report,  \* [created, updated, skipped, rows]
          next,    \* the next id
          edits

ivars == <<product, variants, job, holder, report, next, edits>>

Idle == [at |-> "idle", row |-> None, of |-> None, new |-> FALSE, found |-> None]

Init ==
    /\ product \in {None, 0}
    /\ variants = {}
    /\ job = [i \in Imports |-> Idle]
    /\ holder = None
    /\ report = [i \in Imports |-> [created |-> 0, updated |-> 0, skipped |-> 0, rows |-> 0]]
    /\ next = 1 /\ edits = 0

Ids == {v.id : v \in variants}
Freed(i) == IF holder = i THEN None ELSE holder

\* By SKU if the row has one, else by the title
Matches(v, row) == IF row.sku # None THEN v.sku = row.sku ELSE v.title = row.title

-----------------------------------------------------------------------------
Edited == edits < MaxEdits /\ edits' = edits + 1

\* An administrator: the row's FOR KEY SHARE does not wait for an import
CreateVariant(row) ==
    /\ Edited /\ product # None
    /\ variants' = variants \cup {[id |-> next, sku |-> row.sku, title |-> row.title,
                                  imported |-> FALSE, stock |-> None]}
    /\ next' = next + 1
    /\ UNCHANGED <<product, job, holder, report>>

\* A SKU that is not given stays
EditVariant(v, row) ==
    /\ Edited
    /\ variants' = (variants \ {v}) \cup
           {[id |-> v.id, sku |-> IF row.sku = None THEN v.sku ELSE row.sku, title |-> row.title,
             imported |-> FALSE, stock |-> v.stock]}
    /\ UNCHANGED <<product, job, holder, report, next>>

DeleteVariant(v) ==
    /\ Edited
    /\ variants' = variants \ {v}
    /\ UNCHANGED <<product, job, holder, report, next>>

CreateProduct ==
    /\ Edited /\ product = None /\ holder = None
    /\ product' = next /\ next' = next + 1
    /\ UNCHANGED <<variants, job, holder, report>>

DeleteProduct ==
    /\ Edited /\ product # None /\ holder = None
    /\ product' = None /\ variants' = {}
    /\ UNCHANGED <<job, holder, report, next>>

-----------------------------------------------------------------------------
StartRow(i, row) ==
    /\ job[i] = Idle /\ report[i].rows < MaxRows
    /\ job' = [job EXCEPT ![i] = [Idle EXCEPT !.at = IF product # None THEN "update" ELSE "insert",
                                       !.row = row, !.of = product]]
    /\ report' = [report EXCEPT ![i].rows = @ + 1]
    /\ UNCHANGED <<product, variants, holder, next, edits>>

\* Mutant of UpdateProduct: the product is taken as it is, without a lock.
TakeProduct(i) ==
    /\ job[i].at = "update"
    /\ job' = [job EXCEPT ![i].at = "find"]
    /\ UNCHANGED <<product, variants, holder, report, next, edits>>

\* The row stays locked until the commit; a product deleted meanwhile makes a later insert fail
UpdateProduct(i) ==
    /\ job[i].at = "update" /\ holder = None /\ product = job[i].of
    /\ job' = [job EXCEPT ![i].at = "find"]
    /\ holder' = i
    /\ UNCHANGED <<product, variants, report, next, edits>>

\* The slug is unique: the INSERT waits for the one that is open, and fails if that commits
InsertProduct(i) ==
    /\ job[i].at = "insert" /\ holder = None /\ product = None
    /\ job' = [job EXCEPT ![i].at = "find", ![i].new = TRUE, ![i].of = next]
    /\ holder' = i /\ next' = next + 1
    /\ UNCHANGED <<product, variants, report, edits>>

\* LIMIT 1, of those that are committed
FindVariant(i) ==
    LET found == {v.id : v \in {w \in variants : Matches(w, job[i].row)}}
    IN /\ job[i].at = "find"
       /\ \E id \in IF found = {} THEN {None} ELSE found :
             job' = [job EXCEPT ![i].at = "write", ![i].found = id]
       /\ UNCHANGED <<product, variants, holder, report, next, edits>>

\* Reported as created only when the product is new as well
Tally(r, what) == IF what = "created" THEN [r EXCEPT !.created = @ + 1] ELSE [r EXCEPT !.updated = @ + 1]
Report(i, what) ==
    /\ report' = [report EXCEPT ![i] = Tally(@, what)]
    /\ job' = [job EXCEPT ![i] = Idle]
    /\ holder' = Freed(i)

Stock(row, old) == IF row.stocked THEN row ELSE old

InsertVariant(i) ==
    LET row == job[i].row IN
    /\ job[i].at = "write" /\ job[i].found = None
    /\ variants' = variants \cup {[id |-> next, sku |-> row.sku, title |-> row.title,
                                  imported |-> TRUE, stock |-> Stock(row, None)]}
    /\ next' = next + 1
    /\ product' = job[i].of
    /\ Report(i, IF job[i].new THEN "created" ELSE "updated")
    /\ UNCHANGED edits

\* A variant deleted meanwhile is not updated; its stock has nothing to refer to and fails the row
UpdateVariant(i) ==
    LET row == job[i].row
        id == job[i].found
    IN /\ job[i].at = "write" /\ id # None
       /\ id \notin Ids => ~row.stocked
       /\ variants' = {IF v.id = id THEN [v EXCEPT !.title = row.title, !.stock = Stock(row, @)] ELSE v :
                          v \in variants}
       /\ Report(i, "updated")
       /\ UNCHANGED <<product, next, edits>>

\* Any statement may fail: the row is rolled back, and the next one goes on
RowFails(i) ==
    /\ job[i] # Idle
    /\ job' = [job EXCEPT ![i] = Idle]
    /\ holder' = Freed(i)
    /\ report' = [report EXCEPT ![i].skipped = @ + 1]
    /\ UNCHANGED <<product, variants, next, edits>>

Next ==
    \/ CreateProduct \/ DeleteProduct
    \/ \E row \in CsvRows : CreateVariant(row)
    \/ \E v \in variants : DeleteVariant(v) \/ \E row \in CsvRows : EditVariant(v, row)
    \/ \E i \in Imports :
        \/ UpdateProduct(i) \/ InsertProduct(i) \/ FindVariant(i)
        \/ InsertVariant(i) \/ UpdateVariant(i) \/ RowFails(i)
        \/ \E row \in CsvRows : StartRow(i, row)

-----------------------------------------------------------------------------
\* However imports of the same product interleave, with each other and with an administrator
\* who deletes, creates and renames: they do not insert a SKU twice, nor a title twice without one;
\* and a row that is done is counted once in the report.
ImportedOnce ==
    /\ \A v, w \in variants :
        v # w /\ v.imported /\ w.imported /\ v.sku = w.sku => v.sku = None /\ v.title # w.title
    /\ \A i \in Imports :
        report[i].created + report[i].updated + report[i].skipped
            = report[i].rows - (IF job[i] = Idle THEN 0 ELSE 1)
=============================================================================
