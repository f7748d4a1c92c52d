------------------------- MODULE ProductImagesProofs -------------------------
(***************************************************************************)
(* Proofs about ProductImages, for every number of requests, products,     *)
(* SKUs, files and file types: what a product shows, that the object it    *)
(* names is there, and that replaced objects are gone.                     *)
(***************************************************************************)
EXTENDS ProductImages, TLAPS

-----------------------------------------------------------------------------
(* The inductive invariant, call by call and product by product.            *)

(* r has written to the bucket and not yet to the row.                      *)
Half(r) ==
    calls[r] # None /\ calls[r].file # None /\ calls[r].step # "upload"

(* A call that no other has overtaken knows the image of the row, its own
   object is in the bucket, and the one it replaces is not.                 *)
CallSound(r) ==
    calls[r] # None =>
        /\ Exists(On(r))
        /\ calls[r].step # "write" => calls[r].file # None
        /\ calls[r].step = "delete" => Replaces(r)
        /\ r \notin stale =>
              /\ calls[r].seen = products[On(r)].image
              /\ Half(r) => bucket[On(r)][Ext(r)] = calls[r].file
              /\ Half(r) /\ calls[r].step = "write" /\ Replaces(r) /\ On(r) \notin littered =>
                    bucket[On(r)][calls[r].seen] = None

ShowsLatestOf(p) == p \notin torn /\ HalfWay(p) = {} => Shown(p) = latest[p]

NamedIsStoredOf(p) ==
    p \notin torn /\ products[p].image # None /\ bucket[p][products[p].image] = None =>
        \E r \in HalfWay(p) : calls[r].step = "write" /\ calls[r].seen = products[p].image

(* Every object is the one the row names or that of a call half way.        *)
Accounted(p) ==
    p \notin littered =>
        \A t \in Type : bucket[p][t] # None =>
            products[p].image = t \/ \E r \in HalfWay(p) : Ext(r) = t

ProductSound(p) ==
    IF Exists(p)
    THEN ShowsLatestOf(p) /\ NamedIsStoredOf(p) /\ Accounted(p)
    ELSE latest[p] = None /\ \A t \in Type : bucket[p][t] = None

ImagesInductive ==
    /\ TypeOK
    /\ \A r \in Request : CallSound(r)
    /\ \A p \in Product : ProductSound(p)

-----------------------------------------------------------------------------
(* Types.                                                                   *)

LEMMA NoneFacts == None \notin Type /\ None \notin File /\ None \notin Sku /\ None \notin Product
                   /\ None \notin Row /\ None \notin Call
BY ImagesAssumption, NoneAssumption

LEMMA CallTyped ==
    ASSUME TypeOK, NEW r \in Request, calls[r] # None
    PROVE  /\ calls[r] \in Call
           /\ On(r) \in Product
           /\ calls[r].step \in {"upload", "delete", "write"}
           /\ calls[r].file \in File \cup {None}
           /\ calls[r].sku \in Sku \cup {None}
           /\ calls[r].seen \in Type \cup {None}
           /\ calls[r].file # None => calls[r].file \in File /\ Ext(r) \in Type
<1>1. calls[r] \in Call
  BY DEF TypeOK
<1>2. QED
  BY <1>1, ImagesAssumption DEF Call, On, Ext

LEMMA RowTyped ==
    ASSUME TypeOK, NEW p \in Product, Exists(p)
    PROVE  products[p] \in Row /\ products[p].image \in Type \cup {None}
<1>1. products[p] \in Row
  BY DEF TypeOK, Exists
<1>2. QED
  BY <1>1 DEF Row

(* A step of r on product p leaves the other products as they are, and the
   others that have read p are late if its image or its objects change.     *)
Aside(r, p) ==
    /\ \A q \in Request \ {r} : calls'[q] = calls[q]
    /\ calls[r] # None => On(r) = p
    /\ calls'[r] # None => calls'[r].product = p
    /\ \A o \in Product \ {p} :
          /\ products'[o] = products[o]
          /\ bucket'[o] = bucket[o]
          /\ latest'[o] = latest[o]
          /\ o \in torn' <=> o \in torn
          /\ o \in littered' <=> o \in littered
    /\ littered \subseteq littered'
    /\ \A q \in Request \ {r} :
          /\ q \in stale => q \in stale'
          /\ calls[q] # None /\ On(q) = p =>
                \/ q \in stale'
                \/ bucket'[p] = bucket[p] /\ products'[p].image = products[p].image

LEMMA HalfWayAside ==
    ASSUME TypeOK, NEW r \in Request, NEW p \in Product, Aside(r, p)
    PROVE  /\ \A o \in Product \ {p} : HalfWay(o)' = HalfWay(o)
           /\ \A q \in Request \ {r} : q \in HalfWay(p)' <=> q \in HalfWay(p)
           /\ r \in HalfWay(p) <=> Half(r)
           /\ r \in HalfWay(p)' <=> Half(r)'
BY DEF Aside, HalfWay, Half, On

LEMMA ElsewhereSound ==
    ASSUME ImagesInductive, NEW r \in Request, NEW p \in Product, Aside(r, p),
           NEW o \in Product \ {p}
    PROVE  ProductSound(o)'
<1>1. TypeOK /\ ProductSound(o)
  BY DEF ImagesInductive
<1>2. /\ products'[o] = products[o] /\ bucket'[o] = bucket[o] /\ latest'[o] = latest[o]
      /\ o \in torn' <=> o \in torn
      /\ o \in littered' <=> o \in littered
      /\ HalfWay(o)' = HalfWay(o)
  BY <1>1, HalfWayAside DEF Aside
<1>3. \A q \in HalfWay(o) : calls'[q] = calls[q] /\ Ext(q)' = Ext(q)
  BY DEF HalfWay, Aside, Ext
<1>4. CASE ~Exists(o)
  BY <1>1, <1>2, <1>4 DEF ProductSound, Exists
<1>5. CASE Exists(o)
  <2>1. Exists(o)'
    BY <1>2, <1>5 DEF Exists
  <2>2. ShowsLatestOf(o)'
    BY <1>1, <1>2, <1>5 DEF ProductSound, ShowsLatestOf, Shown
  <2>3. NamedIsStoredOf(o)'
    BY <1>1, <1>2, <1>3, <1>5 DEF ProductSound, NamedIsStoredOf
  <2>4. Accounted(o)'
    BY <1>1, <1>2, <1>3, <1>5 DEF ProductSound, Accounted
  <2>5. QED
    BY <2>1, <2>2, <2>3, <2>4 DEF ProductSound
<1>6. QED
  BY <1>4, <1>5

LEMMA OthersSound ==
    ASSUME ImagesInductive, NEW r \in Request, NEW p \in Product, Aside(r, p), Exists(p)',
           NEW q \in Request \ {r}
    PROVE  CallSound(q)'
<1> SUFFICES ASSUME calls[q] # None PROVE CallSound(q)'
  BY DEF Aside, CallSound
<1> SUFFICES ASSUME NEW o, o = On(q) PROVE CallSound(q)'
  OBVIOUS
<1>1. TypeOK /\ CallSound(q)
  BY DEF ImagesInductive
<1>2. /\ calls'[q] = calls[q] /\ On(q)' = o /\ Ext(q)' = Ext(q)
      /\ Half(q)' = Half(q) /\ Replaces(q)' = Replaces(q)
      /\ o \in Product
  BY <1>1, CallTyped DEF Aside, On, Ext, Half, Replaces
<1>3. Exists(o)'
  BY <1>1, <1>2 DEF Aside, CallSound, Exists
<1>4. q \notin stale' =>
         /\ q \notin stale /\ bucket'[o] = bucket[o] /\ products'[o].image = products[o].image
         /\ o \notin littered' => o \notin littered
  BY <1>2 DEF Aside
<1>5. QED
  BY <1>1, <1>2, <1>3, <1>4 DEF CallSound

(* What is left to show of a step of r on p.                                *)
LEMMA StepSound ==
    ASSUME ImagesInductive, NEW r \in Request, NEW p \in Product, Aside(r, p), TypeOK',
           Exists(p)', CallSound(r)', ProductSound(p)'
    PROVE  ImagesInductive'
<1>1. \A q \in Request : CallSound(q)'
  BY OthersSound
<1>2. \A o \in Product : ProductSound(o)'
  BY ElsewhereSound
<1>3. QED
  BY <1>1, <1>2 DEF ImagesInductive

(* A step of a call that is not half way and changes no image.              *)
LEMMA QuietSound ==
    ASSUME ImagesInductive, NEW r \in Request, NEW p \in Product, Aside(r, p), Exists(p),
           Exists(p)', ~Half(r), ~Half(r)',
           products'[p].image = products[p].image,
           UNCHANGED <<bucket, latest, torn, littered>>
    PROVE  ProductSound(p)'
<1>1. TypeOK /\ ProductSound(p)
  BY DEF ImagesInductive
<1>2. HalfWay(p)' = HalfWay(p) /\ \A q \in HalfWay(p) : calls'[q] = calls[q] /\ Ext(q)' = Ext(q)
  <2>1. r \notin HalfWay(p) /\ r \notin HalfWay(p)'
    BY <1>1, HalfWayAside
  <2>2. \A q \in Request \ {r} : q \in HalfWay(p)' <=> q \in HalfWay(p)
    BY <1>1, HalfWayAside
  <2>3. HalfWay(p) \subseteq Request /\ HalfWay(p)' \subseteq Request
    BY DEF HalfWay
  <2>4. QED
    BY <2>1, <2>2, <2>3 DEF Ext, Aside
<1>3. ShowsLatestOf(p)'
  BY <1>1, <1>2 DEF ProductSound, ShowsLatestOf, Shown
<1>4. NamedIsStoredOf(p)'
  BY <1>1, <1>2 DEF ProductSound, NamedIsStoredOf
<1>5. Accounted(p)'
  BY <1>1, <1>2 DEF ProductSound, Accounted
<1>6. QED
  BY <1>3, <1>4, <1>5 DEF ProductSound

LEMMA InitImages == Init => ImagesInductive
<1> SUFFICES ASSUME Init PROVE ImagesInductive
  OBVIOUS
<1>1. TypeOK
  BY DEF Init, TypeOK
<1>2. \A r \in Request : CallSound(r)
  BY DEF Init, CallSound
<1>3. \A p \in Product : ProductSound(p)
  BY DEF Init, ProductSound, Exists
<1>4. QED
  BY <1>1, <1>2, <1>3 DEF ImagesInductive

-----------------------------------------------------------------------------
(* The actions.                                                             *)

LEMMA CreateSound ==
    ASSUME ImagesInductive, NEW r \in Request, Create(r) PROVE ImagesInductive'
<1>1. PICK p \in Product, sku \in Sku, file \in File \cup {None} :
         /\ calls[r] = None /\ ~Exists(p)
         /\ products' = [products EXCEPT ![p] = [sku |-> sku, image |-> None]]
         /\ calls' = [calls EXCEPT ![r] =
               IF file = None THEN None
               ELSE [product |-> p, step |-> "upload", file |-> file,
                     sku |-> None, seen |-> None]]
         /\ UNCHANGED <<bucket, stale, latest, torn, littered>>
  BY DEF Create
<1> DEFINE call == [product |-> p, step |-> "upload", file |-> file, sku |-> None, seen |-> None]
<1>2. TypeOK /\ ProductSound(p) /\ \A q \in Request : CallSound(q)
  BY DEF ImagesInductive
<1>3. [sku |-> sku, image |-> None] \in Row /\ call \in Call
  BY DEF Row, Call
<1>4. call.product = p /\ call.step = "upload" /\ call.file = file /\ call.seen = None
  OBVIOUS
<1>5. calls'[r] = IF file = None THEN None ELSE call
  BY <1>1, <1>2 DEF TypeOK
<1>6. /\ products'[p] = [sku |-> sku, image |-> None]
      /\ \A o \in Product \ {p} : products'[o] = products[o]
      /\ \A q \in Request \ {r} : calls'[q] = calls[q]
  BY <1>1, <1>2 DEF TypeOK
<1> HIDE DEF call
<1>7. Exists(p)' /\ products'[p].image = None
  BY <1>3, <1>6, NoneFacts DEF Exists
<1>8. TypeOK'
  <2>1. products' \in [Product -> Row \cup {None}]
    BY <1>1, <1>2, <1>3 DEF TypeOK
  <2>2. calls' \in [Request -> Call \cup {None}]
    BY <1>1, <1>2, <1>3 DEF TypeOK, call
  <2>3. stale' \subseteq {q \in Request : calls'[q] # None}
    BY <1>1, <1>2, <1>6 DEF TypeOK
  <2>4. QED
    BY <1>1, <1>2, <2>1, <2>2, <2>3 DEF TypeOK
<1>9. Aside(r, p)
  <2>1. \A q \in Request \ {r} : calls[q] # None => On(q) # p
    BY <1>1, <1>2 DEF CallSound
  <2>2. QED
    BY <1>1, <1>4, <1>5, <1>6, <2>1 DEF Aside
<1>10. CallSound(r)'
  BY <1>4, <1>5, <1>7 DEF CallSound, On, Exists, Half
<1>11. ProductSound(p)'
  <2>1. latest[p] = None /\ \A t \in Type : bucket[p][t] = None
    BY <1>1, <1>2 DEF ProductSound
  <2>2. QED
    BY <1>1, <1>7, <2>1 DEF ProductSound, ShowsLatestOf, NamedIsStoredOf, Accounted, Shown
<1>12. QED
  BY <1>2, <1>7, <1>8, <1>9, <1>10, <1>11, StepSound

LEMMA FindProductSound ==
    ASSUME ImagesInductive, NEW r \in Request, FindProduct(r) PROVE ImagesInductive'
<1>1. PICK p \in Product, sku \in Sku \cup {None}, file \in File \cup {None} :
         /\ calls[r] = None /\ Exists(p)
         /\ calls' = [calls EXCEPT ![r] =
               [product |-> p, step |-> IF file = None THEN "write" ELSE "upload",
                file |-> file, sku |-> sku, seen |-> products[p].image]]
         /\ UNCHANGED <<products, bucket, stale, latest, torn, littered>>
  BY DEF FindProduct
<1> DEFINE call == [product |-> p, step |-> IF file = None THEN "write" ELSE "upload",
                    file |-> file, sku |-> sku, seen |-> products[p].image]
<1>2. TypeOK /\ ProductSound(p)
  BY DEF ImagesInductive
<1>3. call \in Call
  BY <1>1, <1>2, RowTyped DEF Call
<1>4. /\ call.product = p /\ call.file = file /\ call.seen = products[p].image
      /\ call.step = IF file = None THEN "write" ELSE "upload"
  OBVIOUS
<1>5. calls'[r] = call /\ \A q \in Request \ {r} : calls'[q] = calls[q]
  BY <1>1, <1>2 DEF TypeOK
<1> HIDE DEF call
<1>6. TypeOK'
  <2>1. calls' \in [Request -> Call \cup {None}]
    BY <1>1, <1>2, <1>3 DEF TypeOK, call
  <2>2. stale' \subseteq {q \in Request : calls'[q] # None}
    BY <1>1, <1>2, <1>5 DEF TypeOK
  <2>3. QED
    BY <1>1, <1>2, <2>1, <2>2 DEF TypeOK
<1>7. Aside(r, p)
  BY <1>1, <1>4, <1>5 DEF Aside
<1>8. Exists(p)' /\ ~Half(r) /\ ~Half(r)'
  BY <1>1, <1>4, <1>5 DEF Exists, Half
<1>9. CallSound(r)'
  BY <1>1, <1>4, <1>5, <1>8 DEF CallSound, On, Exists
<1>10. ProductSound(p)'
  BY <1>1, <1>7, <1>8, QuietSound
<1>11. QED
  BY <1>2, <1>6, <1>7, <1>8, <1>9, <1>10, StepSound

(* Spoil marks one product.                                                 *)
LEMMA SpoilMarks ==
    ASSUME TypeOK, NEW p \in Product, Spoil(p) \/ UNCHANGED <<torn, littered>>
    PROVE  /\ torn' \subseteq Product /\ littered' \subseteq Product
           /\ torn \subseteq torn' /\ littered \subseteq littered'
           /\ \A o \in Product \ {p} : (o \in torn' <=> o \in torn)
                                       /\ (o \in littered' <=> o \in littered)
BY DEF Spoil, TypeOK

(* A call that goes on to its next step.                                    *)
LEMMA GotoCall ==
    ASSUME TypeOK, NEW r \in Request, calls[r] # None, NEW step \in {"delete", "write"},
           Goto(r, step)
    PROVE  /\ calls' \in [Request -> Call \cup {None}]
           /\ calls'[r] # None
           /\ calls'[r].step = step
           /\ calls'[r].product = calls[r].product
           /\ calls'[r].file = calls[r].file
           /\ calls'[r].seen = calls[r].seen
           /\ Ext(r)' = Ext(r) /\ (Replaces(r)' <=> Replaces(r))
           /\ \A q \in Request \ {r} : calls'[q] = calls[q]
<1>1. calls[r] \in Call
  BY CallTyped
<1> DEFINE next == [calls[r] EXCEPT !.step = step]
<1>2. /\ next \in Call
      /\ next.step = step /\ next.product = calls[r].product
      /\ next.file = calls[r].file /\ next.seen = calls[r].seen
  BY <1>1 DEF Call
<1>3. calls' = [calls EXCEPT ![r] = next]
  BY DEF Goto
<1> HIDE DEF next
<1>4. calls'[r] = next /\ \A q \in Request \ {r} : calls'[q] = calls[q]
  BY <1>3 DEF TypeOK
<1>5. calls' \in [Request -> Call \cup {None}]
  BY <1>2, <1>3 DEF TypeOK
<1>6. Ext(r)' = Ext(r) /\ (Replaces(r)' <=> Replaces(r))
  BY <1>2, <1>4 DEF Ext, Replaces
<1>7. QED
  BY <1>2, <1>4, <1>5, <1>6, NoneFacts

(* The object the upload stores.                                            *)
LEMMA StoreObject ==
    ASSUME TypeOK, NEW r \in Request, calls[r] # None, calls[r].file # None, Store(r)
    PROVE  /\ bucket' \in [Product -> [Type -> File \cup {None}]]
           /\ bucket'[On(r)][Ext(r)] = calls[r].file
           /\ \A t \in Type : t # Ext(r) => bucket'[On(r)][t] = bucket[On(r)][t]
           /\ \A o \in Product \ {On(r)} : bucket'[o] = bucket[o]
<1> SUFFICES ASSUME NEW p, p = On(r), NEW t, t = Ext(r), NEW f, f = calls[r].file
             PROVE  /\ bucket' \in [Product -> [Type -> File \cup {None}]]
                    /\ bucket'[p][t] = f
                    /\ \A u \in Type : u # t => bucket'[p][u] = bucket[p][u]
                    /\ \A o \in Product \ {p} : bucket'[o] = bucket[o]
  OBVIOUS
<1>1. p \in Product /\ t \in Type /\ f \in File
  BY CallTyped
<1>2. bucket \in [Product -> [Type -> File \cup {None}]]
  BY DEF TypeOK
<1>3. bucket' = [bucket EXCEPT ![p][t] = f]
  BY DEF Store
<1>4. QED
  BY <1>1, <1>2, <1>3

LEMMA UploadSound ==
    ASSUME ImagesInductive, NEW r \in Request, UploadProductImage(r) PROVE ImagesInductive'
<1> SUFFICES ASSUME NEW p, p = On(r), NEW e, e = Ext(r) PROVE ImagesInductive'
  OBVIOUS
<1>1. TypeOK /\ CallSound(r)
  BY DEF ImagesInductive
<1>2. /\ calls[r] # None /\ calls[r].step = "upload" /\ Store(r) /\ Touch(r)
      /\ Goto(r, IF Replaces(r) THEN "delete" ELSE "write")
      /\ SpoilIf(r \in stale, p) /\ UNCHANGED <<products, latest>>
  BY DEF UploadProductImage, At
<1>3. /\ p \in Product /\ calls[r].file # None /\ calls[r].file \in File /\ e \in Type
      /\ Exists(p) /\ ~Half(r) /\ ProductSound(p)
      /\ r \notin stale => calls[r].seen = products[p].image
  BY <1>1, <1>2, CallTyped DEF CallSound, Half, ImagesInductive
<1>4. /\ calls' \in [Request -> Call \cup {None}]
      /\ calls'[r] # None
      /\ calls'[r].step = IF Replaces(r) THEN "delete" ELSE "write"
      /\ calls'[r].product = p
      /\ calls'[r].file = calls[r].file
      /\ calls'[r].seen = calls[r].seen
      /\ Ext(r)' = e /\ (Replaces(r)' <=> Replaces(r))
      /\ \A q \in Request \ {r} : calls'[q] = calls[q]
  <2>1. (IF Replaces(r) THEN "delete" ELSE "write") \in {"delete", "write"}
    OBVIOUS
  <2>2. QED
    BY <1>1, <1>2, <2>1, GotoCall DEF On
<1>5. /\ bucket' \in [Product -> [Type -> File \cup {None}]]
      /\ bucket'[p][e] = calls[r].file
      /\ \A t \in Type : t # e => bucket'[p][t] = bucket[p][t]
      /\ \A o \in Product \ {p} : bucket'[o] = bucket[o]
  BY <1>1, <1>2, <1>3, StoreObject
<1>6. /\ torn' \subseteq Product /\ littered' \subseteq Product
      /\ torn \subseteq torn' /\ littered \subseteq littered'
      /\ \A o \in Product \ {p} : (o \in torn' <=> o \in torn)
                                  /\ (o \in littered' <=> o \in littered)
      /\ r \notin stale => torn' = torn /\ littered' = littered
  <2>1. Spoil(p) \/ UNCHANGED <<torn, littered>>
    BY <1>2 DEF SpoilIf
  <2>2. r \notin stale => torn' = torn /\ littered' = littered
    BY <1>2 DEF SpoilIf
  <2>3. QED
    BY <1>1, <1>3, <2>1, <2>2, SpoilMarks
<1>7. /\ stale \subseteq stale'
      /\ r \in stale' => r \in stale
      /\ \A q \in Request \ {r} : calls[q] # None /\ On(q) = p => q \in stale'
      /\ stale' \subseteq {q \in Request : calls'[q] # None}
  BY <1>1, <1>2, <1>4 DEF Touch, TypeOK
<1>8. TypeOK'
  BY <1>1, <1>2, <1>4, <1>5, <1>6, <1>7 DEF TypeOK
<1>9. Aside(r, p)
  BY <1>2, <1>4, <1>5, <1>6, <1>7 DEF Aside
<1>10. Exists(p)' /\ Half(r)'
  BY <1>2, <1>3, <1>4 DEF Exists, Half
<1>11. CallSound(r)'
  <2>1. On(r)' = p
    BY <1>4 DEF On
  <2>2. ~(calls'[r].step = "write" /\ Replaces(r)')
    BY <1>4
  <2>3. r \notin stale' => calls'[r].seen = products'[p].image
    BY <1>2, <1>3, <1>4, <1>7
  <2>4. QED
    BY <1>3, <1>4, <1>5, <1>10, <2>1, <2>2, <2>3 DEF CallSound
<1>12. r \in HalfWay(p)' /\ HalfWay(p) \subseteq HalfWay(p)' \ {r}
  <2>1. HalfWay(p) \subseteq Request
    BY DEF HalfWay
  <2>2. QED
    BY <1>1, <1>3, <1>9, <1>10, <2>1, HalfWayAside
<1>13. ProductSound(p)'
  <2>1. ShowsLatestOf(p)'
    BY <1>12 DEF ShowsLatestOf
  <2>2. NamedIsStoredOf(p)'
    <3>1. SUFFICES ASSUME p \notin torn', products'[p].image # None,
                          bucket'[p][products'[p].image] = None
                   PROVE  \E q \in HalfWay(p)' : /\ calls'[q].step = "write"
                                                 /\ calls'[q].seen = products'[p].image
      BY DEF NamedIsStoredOf
    <3>2. products[p].image \in Type
      BY <1>1, <1>2, <1>3, <3>1, RowTyped
    <3>3. bucket[p][products[p].image] = None
      BY <1>2, <1>3, <1>5, <3>1, <3>2, NoneFacts
    <3>4. PICK q \in HalfWay(p) : calls[q].step = "write" /\ calls[q].seen = products[p].image
      BY <1>2, <1>3, <1>6, <3>1, <3>3 DEF ProductSound, NamedIsStoredOf
    <3>5. q \in HalfWay(p)' /\ calls'[q] = calls[q]
      BY <1>4, <1>12, <3>4 DEF HalfWay
    <3>6. QED
      BY <1>2, <3>4, <3>5
  <2>3. Accounted(p)'
    <3>1. SUFFICES ASSUME p \notin littered', NEW t \in Type, bucket'[p][t] # None
                   PROVE  products'[p].image = t \/ \E q \in HalfWay(p)' : Ext(q)' = t
      BY DEF Accounted
    <3>2. CASE t = e
      BY <1>4, <1>12, <3>2
    <3>3. CASE t # e
      <4>1. products[p].image = t \/ \E q \in HalfWay(p) : Ext(q) = t
        BY <1>3, <1>5, <1>6, <3>1, <3>3 DEF ProductSound, Accounted
      <4>2. \A q \in HalfWay(p) : q \in HalfWay(p)' /\ Ext(q)' = Ext(q)
        BY <1>4, <1>12 DEF HalfWay, Ext
      <4>3. QED
        BY <1>2, <4>1, <4>2
    <3>4. QED
      BY <3>2, <3>3
  <2>4. QED
    BY <1>10, <2>1, <2>2, <2>3 DEF ProductSound
<1>14. QED
  BY <1>3, <1>8, <1>9, <1>10, <1>11, <1>13, StepSound

(* A call that ends after its rows and objects are as they should be.       *)
LEMMA UploadFailsSound ==
    ASSUME ImagesInductive, NEW r \in Request, UploadFails(r) PROVE ImagesInductive'
<1> SUFFICES ASSUME NEW p, p = On(r), NEW e, e = Ext(r) PROVE ImagesInductive'
  OBVIOUS
<1>1. TypeOK /\ CallSound(r)
  BY DEF ImagesInductive
<1>2. /\ calls[r] # None /\ calls[r].step = "upload" /\ calls' = [calls EXCEPT ![r] = None]
      /\ UNCHANGED <<products, latest>>
      /\ \/ UNCHANGED <<bucket, torn, littered>> /\ stale' = stale \ {r}
         \/ Store(r) /\ Overtake(r) /\ Spoil(p)
  BY DEF UploadFails, At, Finish
<1>3. /\ p \in Product /\ calls[r].file # None /\ Exists(p) /\ ~Half(r) /\ ProductSound(p)
  BY <1>1, <1>2, CallTyped DEF CallSound, Half, ImagesInductive
<1>4. /\ calls' \in [Request -> Call \cup {None}]
      /\ calls'[r] = None /\ \A q \in Request \ {r} : calls'[q] = calls[q]
  BY <1>1, <1>2 DEF TypeOK
<1>5. /\ torn' \subseteq Product /\ littered' \subseteq Product
      /\ torn \subseteq torn' /\ littered \subseteq littered'
      /\ \A o \in Product \ {p} : (o \in torn' <=> o \in torn)
                                  /\ (o \in littered' <=> o \in littered)
  <2>1. Spoil(p) \/ UNCHANGED <<torn, littered>>
    BY <1>2
  <2>2. QED
    BY <1>1, <1>3, <2>1, SpoilMarks
<1>6. /\ Exists(p)' /\ ~Half(r)' /\ CallSound(r)'
  BY <1>2, <1>3, <1>4 DEF Exists, Half, CallSound
<1>7. CASE UNCHANGED <<bucket, torn, littered>> /\ stale' = stale \ {r}
  <2>1. TypeOK'
    BY <1>1, <1>2, <1>4, <1>5, <1>7 DEF TypeOK
  <2>2. Aside(r, p)
    BY <1>2, <1>4, <1>5, <1>7 DEF Aside
  <2>3. ProductSound(p)'
    BY <1>2, <1>3, <1>6, <1>7, <2>2, QuietSound
  <2>4. QED
    BY <1>3, <1>6, <2>1, <2>2, <2>3, StepSound
<1>8. CASE Store(r) /\ Overtake(r) /\ Spoil(p)
  <2>1. /\ bucket' \in [Product -> [Type -> File \cup {None}]]
        /\ \A o \in Product \ {p} : bucket'[o] = bucket[o]
    BY <1>1, <1>2, <1>3, <1>8, StoreObject
  <2>2. /\ \A q \in Request \ {r} : q \in stale => q \in stale'
        /\ \A q \in Request \ {r} : calls[q] # None /\ On(q) = p => q \in stale'
        /\ stale' \subseteq {q \in Request : calls'[q] # None}
    BY <1>1, <1>4, <1>8 DEF Overtake, TypeOK
  <2>3. TypeOK'
    BY <1>1, <1>2, <1>4, <1>5, <2>1, <2>2 DEF TypeOK
  <2>4. Aside(r, p)
    BY <1>2, <1>4, <1>5, <2>1, <2>2 DEF Aside
  <2>5. p \in torn' /\ p \in littered'
    BY <1>8 DEF Spoil
  <2>6. ProductSound(p)'
    BY <1>6, <2>5 DEF ProductSound, ShowsLatestOf, NamedIsStoredOf, Accounted
  <2>7. QED
    BY <1>3, <1>6, <2>3, <2>4, <2>6, StepSound
<1>9. QED
  BY <1>2, <1>7, <1>8

LEMMA AbandonSound ==
    ASSUME ImagesInductive, NEW r \in Request, Abandon(r) PROVE ImagesInductive'
<1> SUFFICES ASSUME NEW p, p = On(r) PROVE ImagesInductive'
  OBVIOUS
<1>1. TypeOK /\ CallSound(r)
  BY DEF ImagesInductive
<1>2. /\ calls[r] # None /\ calls' = [calls EXCEPT ![r] = None] /\ stale' = stale \ {r}
      /\ IF calls[r].step # "upload" /\ calls[r].file # None
         THEN Spoil(p) ELSE UNCHANGED <<torn, littered>>
      /\ UNCHANGED <<products, bucket, latest>>
  BY DEF Abandon, Finish, SpoilIf
<1>3. /\ p \in Product /\ Exists(p) /\ ProductSound(p)
  BY <1>1, <1>2, CallTyped DEF CallSound, ImagesInductive
<1>4. /\ calls' \in [Request -> Call \cup {None}]
      /\ calls'[r] = None /\ \A q \in Request \ {r} : calls'[q] = calls[q]
  BY <1>1, <1>2 DEF TypeOK
<1>5. /\ torn' \subseteq Product /\ littered' \subseteq Product
      /\ torn \subseteq torn' /\ littered \subseteq littered'
      /\ \A o \in Product \ {p} : (o \in torn' <=> o \in torn)
                                  /\ (o \in littered' <=> o \in littered)
  <2>1. Spoil(p) \/ UNCHANGED <<torn, littered>>
    BY <1>2
  <2>2. QED
    BY <1>1, <1>3, <2>1, SpoilMarks
<1>6. Exists(p)' /\ ~Half(r)' /\ CallSound(r)'
  BY <1>2, <1>3, <1>4 DEF Exists, Half, CallSound
<1>7. TypeOK'
  BY <1>1, <1>2, <1>4, <1>5 DEF TypeOK
<1>8. Aside(r, p)
  BY <1>2, <1>4, <1>5 DEF Aside
<1>9. ProductSound(p)'
  <2>1. CASE Half(r)
    <3>1. p \in torn' /\ p \in littered'
      BY <1>2, <2>1 DEF Half, Spoil
    <3>2. QED
      BY <1>6, <3>1 DEF ProductSound, ShowsLatestOf, NamedIsStoredOf, Accounted
  <2>2. CASE ~Half(r)
    <3>1. UNCHANGED <<torn, littered>>
      BY <1>2, <2>2 DEF Half
    <3>2. QED
      BY <1>2, <1>3, <1>6, <1>8, <2>2, <3>1, QuietSound
  <2>3. QED
    BY <2>1, <2>2
<1>10. QED
  BY <1>3, <1>6, <1>7, <1>8, <1>9, StepSound

(* The delete ends in "write": whatever became of the old object, either it *)
(* is gone or the product is littered.                                      *)
LEMMA DeleteSound ==
    ASSUME ImagesInductive, NEW r \in Request, DeleteProductImage(r) PROVE ImagesInductive'
<1> SUFFICES ASSUME NEW p, p = On(r), NEW e, e = Ext(r), NEW old, old = calls[r].seen
             PROVE  ImagesInductive'
  OBVIOUS
<1>1. TypeOK /\ CallSound(r)
  BY DEF ImagesInductive
<1>2. /\ calls[r] # None /\ calls[r].step = "delete" /\ Goto(r, "write") /\ Touch(r)
      /\ \/ bucket' = [bucket EXCEPT ![p][old] = None] /\ SpoilIf(r \in stale, p)
         \/ /\ UNCHANGED bucket
            /\ torn' = IF r \in stale THEN torn \cup {p} ELSE torn
            /\ littered' = littered \cup {p}
      /\ UNCHANGED <<products, latest>>
  BY DEF DeleteProductImage, At
<1>3. /\ p \in Product /\ calls[r].file # None /\ e \in Type
      /\ Exists(p) /\ Half(r) /\ ProductSound(p)
      /\ old \in Type /\ old # e
      /\ r \notin stale => old = products[p].image /\ bucket[p][e] = calls[r].file
  BY <1>1, <1>2, CallTyped DEF CallSound, Half, Replaces, ImagesInductive
<1>4. /\ calls' \in [Request -> Call \cup {None}]
      /\ calls'[r] # None
      /\ calls'[r].step = "write"
      /\ calls'[r].product = p
      /\ calls'[r].file = calls[r].file
      /\ calls'[r].seen = old
      /\ Ext(r)' = e /\ (Replaces(r)' <=> Replaces(r))
      /\ \A q \in Request \ {r} : calls'[q] = calls[q]
  BY <1>1, <1>2, GotoCall DEF On
<1>5. /\ bucket' \in [Product -> [Type -> File \cup {None}]]
      /\ \A t \in Type : t # old => bucket'[p][t] = bucket[p][t]
      /\ \A o \in Product \ {p} : bucket'[o] = bucket[o]
  <2>1. CASE UNCHANGED bucket
    BY <1>1, <2>1 DEF TypeOK
  <2>2. CASE bucket' = [bucket EXCEPT ![p][old] = None]
    <3>1. p \in Product /\ old \in Type
      BY <1>3
    <3>2. bucket \in [Product -> [Type -> File \cup {None}]]
      BY <1>1 DEF TypeOK
    <3>3. bucket[p] \in [Type -> File \cup {None}]
      BY <3>1, <3>2
    <3>4. bucket' = [bucket EXCEPT ![p] = [bucket[p] EXCEPT ![old] = None]]
      BY <2>2, <3>1, <3>2
    <3>5. /\ bucket'[p] = [bucket[p] EXCEPT ![old] = None]
          /\ \A o \in Product \ {p} : bucket'[o] = bucket[o]
      BY <3>1, <3>2, <3>4
    <3>6. /\ bucket'[p] \in [Type -> File \cup {None}]
          /\ \A t \in Type : t # old => bucket'[p][t] = bucket[p][t]
      BY <3>1, <3>3, <3>5
    <3>7. bucket' \in [Product -> [Type -> File \cup {None}]]
      BY <3>1, <3>2, <3>4, <3>5, <3>6
    <3>8. QED
      BY <3>5, <3>6, <3>7
  <2>3. QED
    BY <1>2, <2>1, <2>2
<1>6. /\ torn' \subseteq Product /\ littered' \subseteq Product
      /\ torn \subseteq torn' /\ littered \subseteq littered'
      /\ \A o \in Product \ {p} : (o \in torn' <=> o \in torn)
                                  /\ (o \in littered' <=> o \in littered)
      /\ r \in stale => p \in torn' /\ p \in littered'
      /\ p \notin littered' => bucket'[p][old] = None
  <2>1. CASE bucket' = [bucket EXCEPT ![p][old] = None] /\ SpoilIf(r \in stale, p)
    <3>1. Spoil(p) \/ UNCHANGED <<torn, littered>>
      BY <2>1 DEF SpoilIf
    <3>2. r \in stale => p \in torn' /\ p \in littered'
      BY <2>1 DEF SpoilIf, Spoil
    <3>3. bucket'[p][old] = None
      <4>1. bucket \in [Product -> [Type -> File \cup {None}]]
        BY <1>1 DEF TypeOK
      <4>2. QED
        BY <1>3, <2>1, <4>1
    <3>4. QED
      BY <1>1, <1>3, <3>1, <3>2, <3>3, SpoilMarks
  <2>2. CASE /\ torn' = IF r \in stale THEN torn \cup {p} ELSE torn
             /\ littered' = littered \cup {p}
    BY <1>1, <1>3, <2>2 DEF TypeOK
  <2>3. QED
    BY <1>2, <2>1, <2>2
<1>7. /\ stale \subseteq stale'
      /\ r \in stale' => r \in stale
      /\ \A q \in Request \ {r} : calls[q] # None /\ On(q) = p => q \in stale'
      /\ stale' \subseteq {q \in Request : calls'[q] # None}
  BY <1>1, <1>2, <1>4 DEF Touch, TypeOK
<1>8. TypeOK'
  BY <1>1, <1>2, <1>4, <1>5, <1>6, <1>7 DEF TypeOK
<1>9. Aside(r, p)
  BY <1>2, <1>4, <1>5, <1>6, <1>7 DEF Aside
<1>10. Exists(p)' /\ Half(r)'
  BY <1>2, <1>3, <1>4 DEF Exists, Half
<1>11. CallSound(r)'
  <2>1. On(r)' = p
    BY <1>4 DEF On
  <2>2. r \notin stale' => calls'[r].seen = products'[p].image /\ bucket'[p][e] = calls'[r].file
    BY <1>2, <1>3, <1>4, <1>5, <1>7
  <2>3. On(r)' \notin littered' => bucket'[p][calls'[r].seen] = None
    BY <1>4, <1>6, <2>1
  <2>4. QED
    BY <1>4, <1>10, <2>1, <2>2, <2>3 DEF CallSound
<1>12. r \in HalfWay(p)' /\ HalfWay(p)' = HalfWay(p)
  <2>1. HalfWay(p) \subseteq Request /\ HalfWay(p)' \subseteq Request
    BY DEF HalfWay
  <2>2. r \in HalfWay(p) /\ r \in HalfWay(p)'
    BY <1>1, <1>3, <1>9, <1>10, HalfWayAside
  <2>3. \A q \in Request \ {r} : q \in HalfWay(p)' <=> q \in HalfWay(p)
    BY <1>1, <1>3, <1>9, HalfWayAside
  <2>4. QED
    BY <2>1, <2>2, <2>3
<1>13. ProductSound(p)'
  <2>1. ShowsLatestOf(p)'
    BY <1>12 DEF ShowsLatestOf
  <2>2. NamedIsStoredOf(p)'
    <3>1. SUFFICES ASSUME p \notin torn', products'[p].image # None,
                          bucket'[p][products'[p].image] = None
                   PROVE  \E q \in HalfWay(p)' : /\ calls'[q].step = "write"
                                                 /\ calls'[q].seen = products'[p].image
      BY DEF NamedIsStoredOf
    <3>2. products'[p].image = old
      BY <1>2, <1>3, <1>6, <3>1
    <3>3. QED
      BY <1>4, <1>12, <3>2
  <2>3. Accounted(p)'
    <3>1. SUFFICES ASSUME p \notin littered', NEW t \in Type, bucket'[p][t] # None
                   PROVE  products'[p].image = t \/ \E q \in HalfWay(p)' : Ext(q)' = t
      BY DEF Accounted
    <3>2. t # old
      BY <1>6, <3>1
    <3>3. products[p].image = t \/ \E q \in HalfWay(p) : Ext(q) = t
      BY <1>3, <1>5, <1>6, <3>1, <3>2 DEF ProductSound, Accounted
    <3>4. \A q \in HalfWay(p) : q \in HalfWay(p)' /\ Ext(q)' = Ext(q)
      <4>1. \A q \in HalfWay(p) \ {r} : Ext(q)' = Ext(q)
        BY <1>4 DEF HalfWay, Ext
      <4>2. QED
        BY <1>4, <1>12, <4>1
    <3>5. QED
      BY <1>2, <3>3, <3>4
  <2>4. QED
    BY <1>10, <2>1, <2>2, <2>3 DEF ProductSound
<1>14. QED
  BY <1>3, <1>8, <1>9, <1>10, <1>11, <1>13, StepSound

(* The row after the update by id.                                          *)
LEMMA WrittenRow ==
    ASSUME TypeOK, NEW r \in Request, calls[r] # None, NEW p, p = On(r), Exists(p),
           WriteColumns(r)
    PROVE  /\ products' \in [Product -> Row \cup {None}]
           /\ Exists(p)'
           /\ products'[p].image = IF calls[r].file = None THEN products[p].image ELSE Ext(r)
           /\ \A o \in Product \ {p} : products'[o] = products[o]
<1>1. /\ p \in Product /\ calls[r].sku \in Sku \cup {None}
      /\ calls[r].file # None => Ext(r) \in Type
  BY CallTyped
<1>2. products[p] \in Row
  BY <1>1, RowTyped
<1> DEFINE sku == IF calls[r].sku = None THEN products[p].sku ELSE calls[r].sku
           image == IF calls[r].file = None THEN products[p].image ELSE Ext(r)
           row == [sku |-> sku, image |-> image]
<1>3. products[p] = [sku |-> products[p].sku, image |-> products[p].image]
      /\ products[p].sku \in Sku /\ products[p].image \in Type \cup {None}
  BY <1>2 DEF Row
<1>4. row \in Row
  BY <1>1, <1>3 DEF Row
<1>5. products' = [products EXCEPT ![p] = row]
  BY DEF WriteColumns
<1>6. row.image = image
  OBVIOUS
<1> HIDE DEF row
<1>7. products'[p] = row /\ \A o \in Product \ {p} : products'[o] = products[o]
  BY <1>1, <1>5 DEF TypeOK
<1>8. products' \in [Product -> Row \cup {None}]
  BY <1>4, <1>5 DEF TypeOK
<1>9. Exists(p)'
  BY <1>4, <1>7, NoneFacts DEF Exists
<1>10. QED
  BY <1>6, <1>7, <1>8, <1>9

LEMMA UpdateRowSound ==
    ASSUME ImagesInductive, NEW r \in Request, UpdateRow(r) PROVE ImagesInductive'
<1> SUFFICES ASSUME NEW p, p = On(r), NEW e, e = Ext(r), NEW f, f = calls[r].file
             PROVE  ImagesInductive'
  OBVIOUS
<1>1. TypeOK /\ CallSound(r)
  BY DEF ImagesInductive
<1>2. /\ calls[r] # None /\ calls[r].step = "write" /\ calls' = [calls EXCEPT ![r] = None]
      /\ WriteColumns(r) /\ UNCHANGED bucket
  BY DEF UpdateRow, At, Finish
<1>3. /\ p \in Product /\ Exists(p) /\ ProductSound(p) /\ f \in File \cup {None}
      /\ f # None => e \in Type
  BY <1>1, <1>2, CallTyped DEF CallSound, ImagesInductive
<1>4. /\ products' \in [Product -> Row \cup {None}]
      /\ Exists(p)'
      /\ products'[p].image = IF f = None THEN products[p].image ELSE e
      /\ \A o \in Product \ {p} : products'[o] = products[o]
  BY <1>1, <1>2, <1>3, WrittenRow
<1>5. /\ calls' \in [Request -> Call \cup {None}]
      /\ calls'[r] = None /\ \A q \in Request \ {r} : calls'[q] = calls[q]
  BY <1>1, <1>2 DEF TypeOK
<1>6. ~Half(r)' /\ CallSound(r)'
  BY <1>5 DEF Half, CallSound
<1>7. CASE f = None
  <2>1. stale' = stale \ {r} /\ UNCHANGED <<latest, torn, littered>>
    BY <1>7 DEF UpdateRow
  <2>2. TypeOK'
    BY <1>1, <1>2, <1>4, <1>5, <2>1 DEF TypeOK
  <2>3. Aside(r, p)
    BY <1>2, <1>4, <1>5, <1>7, <2>1 DEF Aside
  <2>4. ~Half(r)
    BY <1>7 DEF Half
  <2>5. ProductSound(p)'
    BY <1>2, <1>3, <1>4, <1>6, <1>7, <2>1, <2>3, <2>4, QuietSound
  <2>6. QED
    BY <1>3, <1>4, <1>6, <2>2, <2>3, <2>5, StepSound
<1>8. CASE f # None
  <2>1. /\ Overtake(r) /\ latest' = [latest EXCEPT ![p] = f]
        /\ IF r \in stale THEN Spoil(p) ELSE torn' = torn \ {p} /\ UNCHANGED littered
    BY <1>8 DEF UpdateRow
  <2>2. /\ torn' \subseteq Product /\ littered' \subseteq Product
        /\ littered \subseteq littered'
        /\ \A o \in Product \ {p} : (o \in torn' <=> o \in torn)
                                    /\ (o \in littered' <=> o \in littered)
    <3>1. CASE r \in stale
      BY <1>1, <1>3, <2>1, <3>1, SpoilMarks
    <3>2. CASE r \notin stale
      BY <1>1, <2>1, <3>2 DEF TypeOK
    <3>3. QED
      BY <3>1, <3>2
  <2>3. /\ latest' \in [Product -> File \cup {None}]
        /\ latest'[p] = f /\ \A o \in Product \ {p} : latest'[o] = latest[o]
    BY <1>1, <1>3, <2>1 DEF TypeOK
  <2>4. /\ \A q \in Request \ {r} : q \in stale => q \in stale'
        /\ \A q \in Request \ {r} : calls[q] # None /\ On(q) = p => q \in stale'
        /\ stale' \subseteq {q \in Request : calls'[q] # None}
    BY <1>1, <1>5, <2>1 DEF Overtake, TypeOK
  <2>5. TypeOK'
    BY <1>1, <1>2, <1>4, <1>5, <2>2, <2>3, <2>4 DEF TypeOK
  <2>6. Aside(r, p)
    BY <1>2, <1>4, <1>5, <2>2, <2>3, <2>4 DEF Aside
  <2>7. Half(r)
    BY <1>2, <1>8 DEF Half
  <2>8. CASE r \in stale
    <3>1. p \in torn' /\ p \in littered'
      BY <2>1, <2>8 DEF Spoil
    <3>2. ProductSound(p)'
      BY <1>4, <3>1 DEF ProductSound, ShowsLatestOf, NamedIsStoredOf, Accounted
    <3>3. QED
      BY <1>3, <1>4, <1>6, <2>5, <2>6, <3>2, StepSound
  <2>9. CASE r \notin stale
    <3>1. products'[p].image = e /\ e # None /\ f # None /\ bucket'[p][e] = f
      BY <1>1, <1>2, <1>3, <1>4, <1>8, <2>7, <2>9, NoneFacts DEF CallSound
    <3>2. ShowsLatestOf(p)'
      BY <2>3, <3>1 DEF ShowsLatestOf, Shown
    <3>3. NamedIsStoredOf(p)'
      BY <3>1 DEF NamedIsStoredOf
    <3>4. Accounted(p)'
      <4>1. SUFFICES ASSUME p \notin littered', NEW t \in Type, bucket'[p][t] # None, t # e
                     PROVE  \E q \in HalfWay(p)' : Ext(q)' = t
        BY <3>1 DEF Accounted
      <4>2. products[p].image = t \/ \E q \in HalfWay(p) : Ext(q) = t
        BY <1>2, <1>3, <2>2, <4>1 DEF ProductSound, Accounted
      <4>3. products[p].image # t
        <5>1. /\ calls[r].seen = products[p].image
              /\ Replaces(r) => bucket[p][calls[r].seen] = None
          BY <1>1, <1>2, <2>2, <2>7, <2>9, <4>1 DEF CallSound
        <5>2. SUFFICES ASSUME products[p].image = t PROVE FALSE
          OBVIOUS
        <5>3. Replaces(r)
          BY <4>1, <5>1, <5>2, NoneFacts DEF Replaces
        <5>4. QED
          BY <1>2, <4>1, <5>1, <5>2, <5>3
      <4>4. PICK q \in HalfWay(p) : Ext(q) = t
        BY <4>2, <4>3
      <4>5. q \in Request \ {r}
        BY <4>1, <4>4 DEF HalfWay
      <4>6. q \in HalfWay(p)' /\ Ext(q)' = Ext(q)
        BY <1>1, <1>3, <1>5, <2>6, <4>4, <4>5, HalfWayAside DEF Ext
      <4>7. QED
        BY <4>4, <4>6
    <3>5. ProductSound(p)'
      BY <1>4, <3>2, <3>3, <3>4 DEF ProductSound
    <3>6. QED
      BY <1>3, <1>4, <1>6, <2>5, <2>6, <3>5, StepSound
  <2>10. QED
    BY <2>8, <2>9
<1>9. QED
  BY <1>7, <1>8

LEMMA NextImages == ImagesInductive /\ [Next]_vars => ImagesInductive'
<1> SUFFICES ASSUME ImagesInductive, [Next]_vars PROVE ImagesInductive'
  OBVIOUS
<1>1. CASE Next
  BY <1>1, CreateSound, FindProductSound, UploadSound, UploadFailsSound, DeleteSound,
     UpdateRowSound, AbandonSound DEF Next, Serve
<1>2. CASE UNCHANGED vars
  <2>1. TypeOK'
    BY <1>2 DEF ImagesInductive, TypeOK, vars
  <2>2. \A r \in Request : CallSound(r)'
    BY <1>2 DEF ImagesInductive, CallSound, Exists, On, Replaces, Half, Ext, vars
  <2>3. \A p \in Product : ProductSound(p)'
    <3>1. ASSUME NEW p \in Product PROVE ProductSound(p)'
      <4>1. HalfWay(p)' = HalfWay(p) /\ \A q : Ext(q)' = Ext(q)
        BY <1>2 DEF HalfWay, On, Ext, vars
      <4>2. QED
        BY <1>2, <4>1 DEF ImagesInductive, ProductSound, Exists, ShowsLatestOf, NamedIsStoredOf,
           Accounted, Shown, vars
    <3>2. QED
      BY <3>1
  <2>4. QED
    BY <2>1, <2>2, <2>3 DEF ImagesInductive
<1>3. QED
  BY <1>1, <1>2

(* TypeOK together with what the properties need of each call and product.  *)
THEOREM ImagesInvariant == Spec => []ImagesInductive
BY InitImages, NextImages, PTL DEF Spec

(* create and update: a product shows the image of the last call that
   succeeded, unless a later call failed half way or two overlapped and no
   call has succeeded by itself since. *)
THEOREM ImagesShowLatest == Spec => []ShowsLatest
<1>1. ImagesInductive => ShowsLatest
  BY DEF ImagesInductive, ProductSound, ShowsLatestOf, ShowsLatest
<1>2. QED
  BY <1>1, ImagesInvariant, PTL

(* update deletes the old object before it writes the row: the row names a
   missing object only for the time between the two. *)
THEOREM ImagesNamedAreStored == Spec => []NamedIsStored
<1>1. ImagesInductive => NamedIsStored
  BY DEF ImagesInductive, ProductSound, NamedIsStoredOf, NamedIsStored
<1>2. QED
  BY <1>1, ImagesInvariant, PTL

(* A replaced image leaves no object behind, whatever types the images have
   and whichever calls work on other products meanwhile. *)
THEOREM ImagesLeaveNoOrphans == Spec => []NoOrphans
<1>1. ImagesInductive => NoOrphans
  <2>1. SUFFICES ASSUME ImagesInductive, NEW p \in Product, Exists(p), p \notin littered,
                        HalfWay(p) = {}, NEW t \in Type, bucket[p][t] # None
                 PROVE  products[p].image = t
    BY DEF NoOrphans
  <2>2. Accounted(p)
    BY <2>1 DEF ImagesInductive, ProductSound
  <2>3. QED
    BY <2>1, <2>2 DEF Accounted
<1>2. QED
  BY <1>1, ImagesInvariant, PTL

=============================================================================
