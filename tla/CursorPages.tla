---------------------------- MODULE CursorPages ----------------------------
(***************************************************************************)
(* A client that reads a whole list page by page, until next_cursor is     *)
(* null, while rows appear and drop out of its filter: TransactionsService *)
(* .findAll and ProductsService.findAll.  Both ask for one row more than   *)
(* the page holds and return that row's id as next_cursor; the products    *)
(* then also skip one row.  As cursor a client passes next_cursor, or the  *)
(* last item of the page before, as QueryTransactionsDto describes it.     *)
(* The lists are ordered by created_at alone, newest first.  Rows are      *)
(* numbered as they are created; a row may have the created_at of the one  *)
(* before, and each query is free to order such rows as it likes.          *)
(*                                                                         *)
(* As created_at is not unique, Prisma reads all matching rows and looks   *)
(* for the cursor row among them.                                          *)
(***************************************************************************)
EXTENDS Integers, FiniteSets

CONSTANTS
    Limit,      \* page sizes clients ask for
    ByNextCursor, ByLastItem,   \* the lists walked in each of the two ways
    MaxRows, MaxPages,      \* bounds
    NoCursor

Lists == {"transactions", "products"}

ASSUME BoundsAssumption ==
    /\ ByNextCursor \subseteq Lists /\ ByLastItem \subseteq Lists
    /\ Limit \subseteq Nat \ {0}
    /\ MaxRows \in Nat /\ MaxPages \in Nat /\ NoCursor \notin Nat

VARIABLES
    list,       \* which list the client reads
    passes,     \* what it passes as cursor
    rows,       \* number of rows created
    simultaneous,   \* rows with the created_at of the row before
    matching,   \* the rows that match the filter
    limit,
    cursor,     \* what it passes for the next page, 0 before the first one and
                \* NoCursor after the last one
    pages,      \* pages read
    stable,     \* rows that have matched since the walk began
    returned,   \* how often each row was returned
    cut         \* a page was read from a cursor row that no longer matched

walk == <<list, passes, limit, cursor, pages, returned, cut>>
pagesVars == <<rows, simultaneous, matching, stable, walk>>

Row == 1 .. MaxRows

PagesInit ==
    /\ \/ passes = "next_cursor" /\ list \in ByNextCursor
       \/ passes = "last_item" /\ list \in ByLastItem
    /\ rows \in 0 .. MaxRows
    /\ simultaneous \in SUBSET (2 .. rows)
    /\ matching \in SUBSET (1 .. rows)
    /\ limit \in Limit
    /\ cursor = 0
    /\ pages = 0
    /\ stable = matching
    /\ returned = [i \in Row |-> 0]
    /\ cut = FALSE

Newer(i, j) == i > j /\ ~ (j + 1 .. i \subseteq simultaneous)
Tied(i) == i \in simultaneous \/ i + 1 \in simultaneous

\* The n first rows of S, in any order that respects created_at.
First(n, S) ==
    {P \in SUBSET S :
        /\ Cardinality(P) = IF Cardinality(S) < n THEN Cardinality(S) ELSE n
        /\ \A i \in P, j \in S \ P : ~Newer(j, i)}

\* What comes from the cursor row on.  Some of the rows created together with
\* it come before it.  If it has dropped out of the filter, releases of Prisma
\* differ: the rest is empty, or begins where the row would be.
StartAfter ==
    IF cursor = 0 THEN {matching}
    ELSE {{i \in matching : Newer(cursor, i)}}
From ==
    IF cursor = 0 THEN {matching}
    ELSE LET upTo == {i \in matching \ {cursor} : ~Newer(i, cursor)}
             older == {i \in upTo : Newer(cursor, i)}
         IN  IF cursor \in matching
             THEN {S \in SUBSET (upTo \cup {cursor}) : older \cup {cursor} \subseteq S}
             ELSE {{}, upTo}

\* skip: 1, which passes over the cursor row if it is there.
Skip(S) ==
    IF list = "transactions" \/ cursor = 0 THEN {S}
    ELSE IF cursor \in S THEN {S \ {cursor}}
    ELSE {S \ P : P \in First(1, S)}

\* findMany with take: limit + 1.
FindMany ==
    LET queries == UNION {Skip(S) : S \in From}
        answers == UNION {First(limit + 1, S) : S \in queries}
    IN  {P \in answers : list = "products" \/ cursor \notin matching \/ cursor \in P}
\* The last of the rows P; the cursor row, if it is there, is the first.
Last(P) ==
    IF P \subseteq {cursor} THEN P
    ELSE {i \in P \ {cursor} : \A j \in P : ~Newer(i, j)}

\* The row that is popped, next_cursor.
Extra(P) == IF Cardinality(P) <= limit THEN {NoCursor} ELSE Last(P)

\* What the client passes for the page after the rows P.
Passed(P, extra) ==
    IF extra = NoCursor \/ passes = "next_cursor" THEN {extra} ELSE Last(P \ {extra})

Turn(next) ==
    /\ cursor' = next
    /\ pages' = pages + 1
    /\ cut' = (cut \/ cursor \notin matching \cup {0})
    /\ UNCHANGED <<rows, simultaneous, matching, stable, list, passes, limit>>

KeepExtra ==
    /\ cursor # NoCursor /\ pages < MaxPages
    /\ \E P \in FindMany : \E extra \in Extra(P) :
        /\ returned' = [i \in Row |-> IF i \in P THEN returned[i] + 1 ELSE returned[i]]
        /\ \E next \in Passed(P, extra) : Turn(next)
FindAll ==
    /\ cursor # NoCursor /\ pages < MaxPages
    /\ \E P \in FindMany : \E extra \in Extra(P) :
        /\ returned' = [i \in Row |->
              IF i \in P \ {extra} THEN returned[i] + 1 ELSE returned[i]]
        /\ \E next \in Passed(P, extra) : Turn(next)

CreateRow ==
    /\ rows < MaxRows
    /\ rows' = rows + 1
    /\ matching' = matching \cup {rows'}
    /\ simultaneous' \in {simultaneous} \cup
          (IF rows > 0 THEN {simultaneous \cup {rows'}} ELSE {})
    /\ UNCHANGED <<stable, walk>>

\* A status or is_active changes.
Change(i) ==
    /\ i <= rows
    /\ matching' \in {matching \cup {i}, matching \ {i}}
    /\ stable' = stable \ {i}
    /\ UNCHANGED <<rows, simultaneous, walk>>

PagesNext == FindAll \/ CreateRow \/ \E i \in Row : Change(i)

PagesSpec == PagesInit /\ [][PagesNext]_pagesVars

-----------------------------------------------------------------------------
(* Properties. *)

Missed == {i \in stable : returned[i] = 0 /\ ~Tied(i)}

\* Of the rows that matched the filter during the whole walk, a walk returns
\* all, whatever is created or changed meanwhile; only one over the products by
\* next_cursor misses one per page boundary, the row it skips there, and never
\* more.  Rows created in one instant may be missed, and a walk whose cursor
\* row leaves the filter may break off.
NoneSkipped ==
    cursor = NoCursor /\ ~cut =>
        Cardinality(Missed) <=
            IF list = "products" /\ passes = "next_cursor" THEN pages - 1 ELSE 0

\* No row is returned on two pages, whatever is created or changed meanwhile,
\* except among rows created in one instant, and except to a client that passes
\* the last item of a page of transactions, where no row is skipped.
NoneTwice ==
    \A i \in Row : returned[i] > 1 =>
        Tied(i) \/ (list = "transactions" /\ passes = "last_item")

\* QueryTransactionsDto calls the cursor "id_transaction of the last item from
\* previous page", ProductsService fetches the row of next_cursor only "to see
\* whether there is a next page", and section 12 of the architecture has each
\* page go on from the last index: a walk, to the end, returns each row that
\* matched throughout once.  It does not for either of these clients: the row
\* the transactions begin with was on the page before, and the row that
\* next_cursor names is skipped by the products.
EachRowOnce ==
    cursor = NoCursor /\ ~cut => \A i \in stable : Tied(i) \/ returned[i] = 1
=============================================================================
