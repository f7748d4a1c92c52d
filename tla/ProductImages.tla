---------------------------- MODULE ProductImages ----------------------------
(***************************************************************************)
(* ProductsService.create and update, which keep two stores in step: the   *)
(* Product row with its image_url and the bucket of                        *)
(* SupabaseStorageService.  No transaction spans the two, so a call is a   *)
(* read (or an insert), an upload, a delete of the old object and a write  *)
(* of the row, with other calls in between and a failure after any of      *)
(* them.  An object is named by its product and its image type:            *)
(* `${merchantId}/${productId}.${ext}'.  An upload of the same type        *)
(* overwrites it, one of another type leaves the old object to the delete. *)
(*                                                                         *)
(* One merchant; price, name and is_active are left out, the Inventory row *)
(* comes with the Product row in one transaction.                          *)
(***************************************************************************)
EXTENDS Integers, FiniteSets

CONSTANTS
    Request,        \* calls the server works on at the same time
    Product,        \* product ids
    Sku,            \* clients' SKUs and the generated ones
    File,           \* images that pass the checks on type and size
    Type, TypeOf,   \* file extensions, the extension of a file
    None

ASSUME ImagesAssumption ==
    /\ TypeOf \in [File -> Type]
    /\ None \notin Type \cup File \cup Sku \cup Product

VARIABLES
    products,   \* Product rows: sku and image_url
    bucket,     \* bucket[p][t]: the content of the object p.t
    calls,      \* what each request remembers, and its next step
    stale,      \* requests whose product got another image since they read it
    latest,     \* the image of the last call on p that succeeded
    torn,       \* products a call left with a wrong image, by failing half
                \* way or by writing on a stale read, since then uncorrected
    littered    \* products for which such a call may have left objects

vars == <<products, bucket, calls, stale, latest, torn, littered>>

Row == [sku : Sku, image : Type \cup {None}]

Call == [product : Product, step : {"upload", "delete", "write"},
         file : File \cup {None}, sku : Sku \cup {None},
         seen : Type \cup {None}]

ASSUME NoneAssumption == None \notin Row \cup Call

TypeOK ==
    /\ products \in [Product -> Row \cup {None}]
    /\ bucket \in [Product -> [Type -> File \cup {None}]]
    /\ calls \in [Request -> Call \cup {None}]
    /\ stale \subseteq {r \in Request : calls[r] # None}
    /\ latest \in [Product -> File \cup {None}]
    /\ torn \subseteq Product
    /\ littered \subseteq Product

Exists(p) == products[p] # None
At(r, step) == calls[r] # None /\ calls[r].step = step
On(r) == calls[r].product
Ext(r) == TypeOf[calls[r].file]

\* The unique index on (id_merchant, sku), for a row other than p's.
SkuFree(sku, p) == \A q \in Product \ {p} : Exists(q) => products[q].sku # sku

Finish(r) == calls' = [calls EXCEPT ![r] = None]
Goto(r, step) == calls' = [calls EXCEPT ![r].step = step]

\* r changes the image of its product: the others that have read it are late.
Overtake(r) ==
    stale' = (stale \ {r}) \cup
        {q \in Request \ {r} : calls[q] # None /\ On(q) = On(r)}
Touch(r) ==
    stale' = stale \cup
        {q \in Request \ {r} : calls[q] # None /\ On(q) = On(r)}

Spoil(p) == torn' = torn \cup {p} /\ littered' = littered \cup {p}
SpoilIf(cond, p) == IF cond THEN Spoil(p) ELSE UNCHANGED <<torn, littered>>

-----------------------------------------------------------------------------
Init ==
    /\ products = [p \in Product |-> None]
    /\ bucket = [p \in Product |-> [t \in Type |-> None]]
    /\ calls = [r \in Request |-> None]
    /\ stale = {}
    /\ latest = [p \in Product |-> None]
    /\ torn = {} /\ littered = {}

\* create: the rows first; a taken SKU changes nothing and answers 409.
Create(r) == \E p \in Product, sku \in Sku, file \in File \cup {None} :
    /\ calls[r] = None
    /\ ~Exists(p)
    /\ SkuFree(sku, p)
    /\ products' = [products EXCEPT ![p] = [sku |-> sku, image |-> None]]
    /\ calls' = [calls EXCEPT ![r] =
          IF file = None THEN None
          ELSE [product |-> p, step |-> "upload", file |-> file,
                sku |-> None, seen |-> None]]
    /\ UNCHANGED <<bucket, stale, latest, torn, littered>>

\* update: findFirst and the check of the price.
FindProduct(r) ==
    \E p \in Product, sku \in Sku \cup {None}, file \in File \cup {None} :
    /\ calls[r] = None
    /\ Exists(p)
    /\ calls' = [calls EXCEPT ![r] =
          [product |-> p, step |-> IF file = None THEN "write" ELSE "upload",
           file |-> file, sku |-> sku, seen |-> products[p].image]]
    /\ UNCHANGED <<products, bucket, stale, latest, torn, littered>>

\* update deletes an old image that is another object; create has none.
AlwaysReplaces(r) == calls[r].seen # None
NeverReplaces(r) == FALSE
Replaces(r) == calls[r].seen # None /\ calls[r].seen # Ext(r)

Store(r) == bucket' = [bucket EXCEPT ![On(r)][Ext(r)] = calls[r].file]

UploadProductImage(r) ==
    /\ At(r, "upload")
    /\ Store(r)
    /\ Goto(r, IF Replaces(r) THEN "delete" ELSE "write")
    /\ Touch(r)
    /\ SpoilIf(r \in stale, On(r))
    /\ UNCHANGED <<products, latest>>

\* The storage service answers with an error: the call ends with 400 and what
\* create has inserted stays.  An answer that got lost may have been a success.
UploadFails(r) ==
    /\ At(r, "upload")
    /\ Finish(r)
    /\ \/ /\ UNCHANGED <<bucket, torn, littered>>
          /\ stale' = stale \ {r}
       \/ Store(r) /\ Overtake(r) /\ Spoil(On(r))
    /\ UNCHANGED <<products, latest>>

\* Errors are logged and forgotten.
DeleteProductImage(r) ==
    /\ At(r, "delete")
    /\ Goto(r, "write")
    /\ Touch(r)
    /\ \/ /\ bucket' = [bucket EXCEPT ![On(r)][calls[r].seen] = None]
          /\ SpoilIf(r \in stale, On(r))
       \/ /\ UNCHANGED bucket
          /\ torn' = IF r \in stale THEN torn \cup {On(r)} ELSE torn
          /\ littered' = littered \cup {On(r)}
    /\ UNCHANGED <<products, latest>>

\* The update by id, of the columns the call brings.
WriteSku(r) ==
    LET p == On(r) IN
    products' = [products EXCEPT
        ![p].sku = IF calls[r].sku = None THEN @ ELSE calls[r].sku]
WriteColumns(r) ==
    LET p == On(r) IN
    products' = [products EXCEPT ![p] =
        [sku |-> IF calls[r].sku = None THEN @.sku ELSE calls[r].sku,
         image |-> IF calls[r].file = None THEN @.image ELSE Ext(r)]]

UpdateRow(r) ==
    LET p == On(r) IN
    /\ At(r, "write")
    /\ calls[r].sku # None => SkuFree(calls[r].sku, p)
    /\ WriteColumns(r)
    /\ Finish(r)
    /\ IF calls[r].file = None
       THEN stale' = stale \ {r} /\ UNCHANGED <<latest, torn, littered>>
       ELSE /\ Overtake(r)
            /\ latest' = [latest EXCEPT ![p] = calls[r].file]
            /\ IF r \in stale
               THEN Spoil(p)
               ELSE torn' = torn \ {p} /\ UNCHANGED littered
    /\ UNCHANGED bucket

\* The call ends before its next statement: P2002 on the SKU, an error of the
\* database, a crash.  What it has stored and deleted stays so.
Abandon(r) ==
    /\ calls[r] # None
    /\ Finish(r)
    /\ stale' = stale \ {r}
    /\ SpoilIf(calls[r].step # "upload" /\ calls[r].file # None, On(r))
    /\ UNCHANGED <<products, bucket, latest>>

Serve(r) ==
    \/ Create(r) \/ FindProduct(r)
    \/ UploadProductImage(r) \/ UploadFails(r) \/ DeleteProductImage(r)
    \/ UpdateRow(r) \/ Abandon(r)

Next == \E r \in Request : Serve(r)

Spec == Init /\ [][Next]_vars

-----------------------------------------------------------------------------
(* Properties. *)

\* The calls on p that have written to the bucket and not yet to the row.
HalfWay(p) ==
    {r \in Request : /\ calls[r] # None /\ On(r) = p
                     /\ calls[r].file # None /\ calls[r].step # "upload"}

Shown(p) ==
    IF products[p].image = None THEN None ELSE bucket[p][products[p].image]

\* A product shows the image of the last call that answered success, however
\* often its type has changed and whichever calls failed before.  Not when
\* a later call failed half way or two calls with images overlapped; then the
\* next call that succeeds by itself puts it right.
ShowsLatest ==
    \A p \in Product :
        Exists(p) /\ p \notin torn /\ HalfWay(p) = {} => Shown(p) = latest[p]

\* A row names a missing object only between the delete and the row update of
\* one call: a reader sees a broken image that long and no longer.
NamedIsStored ==
    \A p \in Product :
        /\ Exists(p) /\ p \notin torn
        /\ products[p].image # None
        /\ bucket[p][products[p].image] = None
        => \E r \in HalfWay(p) :
              calls[r].step = "write" /\ calls[r].seen = products[p].image

\* An image that is replaced leaves no object behind.
NoOrphans ==
    \A p \in Product :
        Exists(p) /\ p \notin littered /\ HalfWay(p) = {} =>
            \A t \in Type : bucket[p][t] # None => products[p].image = t
=============================================================================
