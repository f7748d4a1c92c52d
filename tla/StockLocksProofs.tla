-------------------------- MODULE StockLocksProofs --------------------------
(***************************************************************************)
(* Proofs about StockLocks, for every number and kind of jobs, products,   *)
(* lines and quantities: that each job counts as a whole, sales only if    *)
(* they are covered, that jobs of one UPDATE meet no deadlock, and that    *)
(* some job can always go on.                                              *)
(***************************************************************************)
EXTENDS StockLocks, SumProofs, SequenceTheorems, TLAPS

Statements ==
    [op : {"lock", "read", "update", "share"}, product : Product, quantity : Int]

(* What statement i of a script adds to the stock of p.                     *)
Moves(s, p) ==
    [i \in DOMAIN s |->
        IF s[i].op = "update" /\ s[i].product = p THEN s[i].quantity ELSE 0]

-----------------------------------------------------------------------------
(* The parts of a script.                                                   *)

LEMMA LineTyped ==
    ASSUME NEW lines \in Seq(Line)
    PROVE  /\ Len(lines) \in Nat /\ DOMAIN lines = 1 .. Len(lines)
           /\ \A k \in 1 .. Len(lines) : /\ lines[k].product \in Product
                                         /\ lines[k].quantity \in Int
<1>1. Len(lines) \in Nat /\ DOMAIN lines = 1 .. Len(lines)
  BY LenProperties
<1>2. \A k \in 1 .. Len(lines) : lines[k] \in Line
  BY ElementOfSeq
<1>3. QED
  BY <1>1, <1>2 DEF Line

LEMMA StatementTyped ==
    ASSUME NEW op \in {"lock", "read", "update", "share"}, NEW l, l.product \in Product,
           NEW n \in Int
    PROVE  /\ Statement(op, l, n) \in Statements
           /\ Statement(op, l, n).op = op
           /\ Statement(op, l, n).product = l.product
           /\ Statement(op, l, n).quantity = n
BY DEF Statement, Statements

LEMMA OddOrEven ==
    ASSUME NEW n \in Nat, NEW i \in 1 .. 2 * n
    PROVE  \E k \in 1 .. n : i = 2 * k - 1 \/ i = 2 * k
<1>1. CASE i % 2 = 1
  <2>1. (i + 1) \div 2 \in 1 .. n /\ i = 2 * ((i + 1) \div 2) - 1
    BY <1>1
  <2>2. QED
    BY <2>1
<1>2. CASE i % 2 = 0
  <2>1. i \div 2 \in 1 .. n /\ i = 2 * (i \div 2)
    BY <1>2
  <2>2. QED
    BY <2>1
<1>3. QED
  BY <1>1, <1>2

LEMMA FlatFacts ==
    ASSUME NEW pairs, Len(pairs) \in Nat
    PROVE  /\ Flat(pairs) = [i \in 1 .. 2 * Len(pairs) |-> Flat(pairs)[i]]
           /\ \A k \in 1 .. Len(pairs) : /\ Flat(pairs)[2 * k - 1] = pairs[k][1]
                                         /\ Flat(pairs)[2 * k] = pairs[k][2]
<1>1. Flat(pairs) = [i \in 1 .. 2 * Len(pairs) |-> Flat(pairs)[i]]
  BY DEF Flat
<1>2. ASSUME NEW k \in 1 .. Len(pairs)
      PROVE  Flat(pairs)[2 * k - 1] = pairs[k][1] /\ Flat(pairs)[2 * k] = pairs[k][2]
  <2>1. 2 * k - 1 \in 1 .. 2 * Len(pairs) /\ 2 * k \in 1 .. 2 * Len(pairs)
    OBVIOUS
  <2>2. ((2 * k - 1) + 1) \div 2 = k /\ (2 * k - 1) % 2 = 1
    OBVIOUS
  <2>3. (2 * k + 1) \div 2 = k /\ (2 * k) % 2 # 1
    OBVIOUS
  <2>4. QED
    BY <2>1, <2>2, <2>3 DEF Flat
<1>3. QED
  BY <1>1, <1>2

LEMMA FlatTyped ==
    ASSUME NEW pairs, NEW S, Len(pairs) \in Nat,
           \A k \in 1 .. Len(pairs) : pairs[k][1] \in S /\ pairs[k][2] \in S
    PROVE  Flat(pairs) \in Seq(S) /\ Len(Flat(pairs)) = 2 * Len(pairs)
<1>1. ASSUME NEW i \in 1 .. 2 * Len(pairs) PROVE Flat(pairs)[i] \in S
  <2>1. PICK k \in 1 .. Len(pairs) : i = 2 * k - 1 \/ i = 2 * k
    BY OddOrEven
  <2>2. /\ Flat(pairs)[2 * k - 1] = pairs[k][1] /\ Flat(pairs)[2 * k] = pairs[k][2]
        /\ pairs[k][1] \in S /\ pairs[k][2] \in S
    BY FlatFacts
  <2>3. CASE i = 2 * k - 1
    BY <2>2, <2>3
  <2>4. CASE i = 2 * k
    BY <2>2, <2>4
  <2>5. QED
    BY <2>1, <2>3, <2>4
<1>2. Flat(pairs) = [i \in 1 .. 2 * Len(pairs) |-> Flat(pairs)[i]] /\ 2 * Len(pairs) \in Nat
  BY FlatFacts
<1>3. QED
  BY <1>1, <1>2

LEMMA CheckFacts ==
    ASSUME NEW lines \in Seq(Line)
    PROVE  /\ Check(lines) \in Seq(Statements) /\ Len(Check(lines)) = 2 * Len(lines)
           /\ \A k \in 1 .. Len(lines) :
                 /\ Check(lines)[2 * k - 1] = Statement("lock", lines[k], 0)
                 /\ Check(lines)[2 * k] = Statement("read", lines[k], lines[k].quantity)
<1> DEFINE pairs == [k \in 1 .. Len(lines) |-> CheckLine(lines[k])]
<1>1. Len(lines) \in Nat /\ Len(pairs) = Len(lines)
  BY LineTyped
<1>2. \A k \in 1 .. Len(lines) :
         /\ pairs[k][1] = Statement("lock", lines[k], 0)
         /\ pairs[k][2] = Statement("read", lines[k], lines[k].quantity)
  BY DEF CheckLine
<1>3. \A k \in 1 .. Len(lines) : pairs[k][1] \in Statements /\ pairs[k][2] \in Statements
  BY <1>2, LineTyped, StatementTyped
<1>4. Check(lines) = Flat(pairs)
  BY DEF Check
<1> HIDE DEF pairs
<1>5. QED
  BY <1>1, <1>2, <1>3, <1>4, FlatFacts, FlatTyped

LEMMA AddFacts ==
    ASSUME NEW lines \in Seq(Line), NEW sign \in {1, -1}
    PROVE  /\ Add(lines, sign) \in Seq(Statements) /\ Len(Add(lines, sign)) = 2 * Len(lines)
           /\ \A k \in 1 .. Len(lines) :
                 /\ Add(lines, sign)[2 * k - 1] =
                       Statement("update", lines[k], sign * lines[k].quantity)
                 /\ Add(lines, sign)[2 * k] = Statement("share", lines[k], 0)
<1> DEFINE pairs == [k \in 1 .. Len(lines) |-> AddLine(lines[k], sign)]
<1>1. Len(lines) \in Nat /\ Len(pairs) = Len(lines)
  BY LineTyped
<1>2. \A k \in 1 .. Len(lines) :
         /\ pairs[k][1] = Statement("update", lines[k], sign * lines[k].quantity)
         /\ pairs[k][2] = Statement("share", lines[k], 0)
  BY DEF AddLine
<1>3. \A k \in 1 .. Len(lines) : pairs[k][1] \in Statements /\ pairs[k][2] \in Statements
  <2>1. \A k \in 1 .. Len(lines) : sign * lines[k].quantity \in Int
    BY LineTyped
  <2>2. QED
    BY <1>2, <2>1, LineTyped, StatementTyped
<1>4. Add(lines, sign) = Flat(pairs)
  BY DEF Add
<1> HIDE DEF pairs
<1>5. QED
  BY <1>1, <1>2, <1>3, <1>4, FlatFacts, FlatTyped

LEMMA DetailsFacts ==
    ASSUME NEW lines \in Seq(Line)
    PROVE  /\ Details(lines) \in Seq(Statements) /\ Len(Details(lines)) = Len(lines)
           /\ \A k \in 1 .. Len(lines) : Details(lines)[k] = Statement("share", lines[k], 0)
<1>1. Len(lines) \in Nat
  BY LineTyped
<1>2. \A k \in 1 .. Len(lines) : Statement("share", lines[k], 0) \in Statements
  BY LineTyped, StatementTyped
<1>3. QED
  BY <1>1, <1>2 DEF Details

-----------------------------------------------------------------------------
(* What the parts add to the stock.                                         *)

LEMMA MovesTyped ==
    ASSUME NEW s \in Seq(Statements), NEW p
    PROVE  /\ Len(s) \in Nat /\ DOMAIN s = 1 .. Len(s)
           /\ Moves(s, p) \in Seq(Int) /\ Len(Moves(s, p)) = Len(s)
           /\ \A i \in 1 .. Len(s) :
                 /\ s[i] \in Statements
                 /\ Moves(s, p)[i] = IF s[i].op = "update" /\ s[i].product = p
                                     THEN s[i].quantity ELSE 0
                 /\ Moves(s, p)[i] \in Int
<1>1. Len(s) \in Nat /\ DOMAIN s = 1 .. Len(s)
  BY LenProperties
<1>2. \A i \in 1 .. Len(s) : s[i] \in Statements
  BY ElementOfSeq
<1>3. \A i \in 1 .. Len(s) : s[i].quantity \in Int
  BY <1>2 DEF Statements
<1>4. Moves(s, p) = [i \in 1 .. Len(s) |->
                        IF s[i].op = "update" /\ s[i].product = p THEN s[i].quantity ELSE 0]
  BY <1>1 DEF Moves
<1>5. \A i \in 1 .. Len(s) :
         /\ Moves(s, p)[i] = IF s[i].op = "update" /\ s[i].product = p
                             THEN s[i].quantity ELSE 0
         /\ Moves(s, p)[i] \in Int
  BY <1>3, <1>4
<1>6. Moves(s, p) \in Seq(Int) /\ Len(Moves(s, p)) = Len(s)
  BY <1>1, <1>3, <1>4
<1>7. QED
  BY <1>1, <1>2, <1>5, <1>6

(* u is s and then t.                                                       *)
LEMMA MovesJoined ==
    ASSUME NEW s \in Seq(Statements), NEW t \in Seq(Statements), NEW u \in Seq(Statements),
           NEW p
    PROVE  /\ Len(u) = Len(s) + Len(t)
           /\ \A i \in 1 .. Len(s) : u[i] = s[i]
           /\ \A i \in 1 .. Len(t) : u[Len(s) + i] = t[i]
           => Joined(Moves(u, p), Len(u), Moves(s, p), Len(s), Moves(t, p), Len(t))
<1> DEFINE Move(x) == IF x.op = "update" /\ x.product = p THEN x.quantity ELSE 0
<1>1. Len(s) \in Nat /\ Len(t) \in Nat /\ Len(u) \in Nat
  BY MovesTyped
<1>2. \A i \in 1 .. Len(u) : Moves(u, p)[i] = Move(u[i])
  BY MovesTyped
<1>3. \A i \in 1 .. Len(s) : Moves(s, p)[i] = Move(s[i]) /\ Moves(s, p)[i] \in Int
  BY MovesTyped
<1>4. \A i \in 1 .. Len(t) : Moves(t, p)[i] = Move(t[i]) /\ Moves(t, p)[i] \in Int
  BY MovesTyped
<1> HIDE DEF Move
<1> SUFFICES ASSUME Len(u) = Len(s) + Len(t),
                    \A i \in 1 .. Len(s) : u[i] = s[i],
                    \A i \in 1 .. Len(t) : u[Len(s) + i] = t[i]
             PROVE  Joined(Moves(u, p), Len(u), Moves(s, p), Len(s), Moves(t, p), Len(t))
  OBVIOUS
<1>5. ASSUME NEW k \in 1 .. Len(s) PROVE Moves(u, p)[k] = Moves(s, p)[k]
  <2>1. k \in 1 .. Len(u) /\ u[k] = s[k]
    BY <1>1
  <2>2. QED
    BY <1>2, <1>3, <2>1
<1>6. ASSUME NEW k \in 1 .. Len(t) PROVE Moves(u, p)[Len(s) + k] = Moves(t, p)[k]
  <2>1. Len(s) + k \in 1 .. Len(u) /\ u[Len(s) + k] = t[k]
    BY <1>1
  <2>2. Moves(u, p)[Len(s) + k] = Move(u[Len(s) + k])
    BY <1>2, <2>1
  <2>3. QED
    BY <1>4, <2>1, <2>2
<1>7. QED
  BY <1>1, <1>3, <1>4, <1>5, <1>6 DEF Joined

LEMMA TotalConcat ==
    ASSUME NEW s \in Seq(Statements), NEW t \in Seq(Statements), NEW p
    PROVE  Total(Moves(s \o t, p)) = Total(Moves(s, p)) + Total(Moves(t, p))
<1>1. /\ s \o t \in Seq(Statements) /\ Len(s \o t) = Len(s) + Len(t)
      /\ \A i \in 1 .. Len(s) : (s \o t)[i] = s[i]
      /\ \A i \in 1 .. Len(t) : (s \o t)[Len(s) + i] = t[i]
  BY ConcatProperties, LenProperties
<1>2. Joined(Moves(s \o t, p), Len(s \o t), Moves(s, p), Len(s), Moves(t, p), Len(t))
  BY <1>1, MovesJoined
<1>3. SumTo(Moves(s \o t, p), Len(s \o t)) =
         SumTo(Moves(s, p), Len(s)) + SumTo(Moves(t, p), Len(t))
  BY <1>2, SumToConcat
<1>4. /\ Len(Moves(s \o t, p)) = Len(s \o t)
      /\ Len(Moves(s, p)) = Len(s) /\ Len(Moves(t, p)) = Len(t)
  BY <1>1, MovesTyped
<1>5. QED
  BY <1>3, <1>4 DEF Total

LEMMA AskedTyped ==
    ASSUME NEW lines \in Seq(Line), NEW p
    PROVE  /\ Asked(lines, p) \in Seq(Int) /\ Len(Asked(lines, p)) = Len(lines)
           /\ \A k \in 1 .. Len(lines) :
                 /\ Asked(lines, p)[k] = IF lines[k].product = p THEN lines[k].quantity ELSE 0
                 /\ Asked(lines, p)[k] \in Int
           /\ Quantity(lines, p) \in Int
           /\ Quantity(lines, p) = SumTo(Asked(lines, p), Len(lines))
<1>1. /\ Len(lines) \in Nat /\ DOMAIN lines = 1 .. Len(lines)
      /\ \A k \in 1 .. Len(lines) : lines[k].quantity \in Int
  BY LineTyped
<1>2. Asked(lines, p) = [k \in 1 .. Len(lines) |->
                            IF lines[k].product = p THEN lines[k].quantity ELSE 0]
  BY <1>1 DEF Asked
<1>3. Asked(lines, p) \in Seq(Int) /\ Len(Asked(lines, p)) = Len(lines)
  BY <1>1, <1>2
<1>4. \A k \in 1 .. Len(lines) :
         /\ Asked(lines, p)[k] = IF lines[k].product = p THEN lines[k].quantity ELSE 0
         /\ Asked(lines, p)[k] \in Int
  BY <1>1, <1>2
<1>5. Quantity(lines, p) \in Int /\ Quantity(lines, p) = SumTo(Asked(lines, p), Len(lines))
  <2>1. Quantity(lines, p) = Total(Asked(lines, p))
    BY DEF Quantity
  <2>2. QED
    BY <1>3, <2>1, TotalInt DEF Total
<1>6. QED
  BY <1>3, <1>4, <1>5

LEMMA NoLine ==
    ASSUME NEW p PROVE Quantity(<< >>, p) = 0
BY TotalEmpty DEF Quantity, Asked

LEMMA StillTotal ==
    ASSUME NEW s \in Seq(Statements), NEW p, NEW n \in 0 .. Len(s),
           \A i \in 1 .. n : s[i].op # "update"
    PROVE  SumTo(Moves(s, p), n) = 0
<1>1. Len(s) \in Nat /\ \A i \in 1 .. n : Moves(s, p)[i] = 0
  BY MovesTyped
<1>2. QED
  BY <1>1, SumToZero

LEMMA CheckTotal ==
    ASSUME NEW lines \in Seq(Line), NEW p
    PROVE  /\ \A i \in 1 .. 2 * Len(lines) : Check(lines)[i].op \in {"lock", "read"}
           /\ Total(Moves(Check(lines), p)) = 0
<1> DEFINE s == Check(lines)
<1>1. /\ s \in Seq(Statements) /\ Len(s) = 2 * Len(lines) /\ Len(lines) \in Nat
  BY CheckFacts, LineTyped
<1>2. ASSUME NEW i \in 1 .. 2 * Len(lines) PROVE s[i].op \in {"lock", "read"}
  <2>1. PICK k \in 1 .. Len(lines) : i = 2 * k - 1 \/ i = 2 * k
    BY <1>1, OddOrEven
  <2>2. s[2 * k - 1].op = "lock" /\ s[2 * k].op = "read"
    <3>1. /\ s[2 * k - 1] = Statement("lock", lines[k], 0)
          /\ s[2 * k] = Statement("read", lines[k], lines[k].quantity)
      BY CheckFacts
    <3>2. QED
      BY <3>1 DEF Statement
  <2>3. QED
    BY <2>1, <2>2
<1> HIDE DEF s
<1>3. SumTo(Moves(s, p), Len(s)) = 0
  <2>1. s \in Seq(Statements) /\ Len(s) \in 0 .. Len(s)
    BY <1>1
  <2>2. \A i \in 1 .. Len(s) : s[i].op # "update"
    BY <1>1, <1>2
  <2>3. QED
    BY <2>1, <2>2, StillTotal
<1>4. Total(Moves(s, p)) = 0
  BY <1>1, <1>3, MovesTyped DEF Total
<1>5. QED
  BY <1>2, <1>4 DEF s

LEMMA DetailsTotal ==
    ASSUME NEW lines \in Seq(Line), NEW p
    PROVE  /\ \A i \in 1 .. Len(lines) : Details(lines)[i].op = "share"
           /\ Total(Moves(Details(lines), p)) = 0
<1> DEFINE s == Details(lines)
<1>1. /\ s \in Seq(Statements) /\ Len(s) = Len(lines) /\ Len(lines) \in Nat
  BY DetailsFacts, LineTyped
<1>2. ASSUME NEW i \in 1 .. Len(lines) PROVE s[i].op = "share"
  <2>1. s[i] = Statement("share", lines[i], 0)
    BY DetailsFacts
  <2>2. QED
    BY <2>1 DEF Statement
<1> HIDE DEF s
<1>3. SumTo(Moves(s, p), Len(s)) = 0
  <2>1. s \in Seq(Statements) /\ Len(s) \in 0 .. Len(s)
    BY <1>1
  <2>2. \A i \in 1 .. Len(s) : s[i].op # "update"
    BY <1>1, <1>2
  <2>3. QED
    BY <2>1, <2>2, StillTotal
<1>4. Total(Moves(s, p)) = 0
  BY <1>1, <1>3, MovesTyped DEF Total
<1>5. QED
  BY <1>2, <1>4 DEF s

LEMMA AddTotal ==
    ASSUME NEW lines \in Seq(Line), NEW sign \in {1, -1}, NEW p
    PROVE  /\ \A i \in 1 .. 2 * Len(lines) : Add(lines, sign)[i].op \in {"update", "share"}
           /\ Total(Moves(Add(lines, sign), p)) = sign * Quantity(lines, p)
<1> DEFINE s == Add(lines, sign)
<1>1. /\ s \in Seq(Statements) /\ Len(s) = 2 * Len(lines) /\ Len(lines) \in Nat
  BY AddFacts, LineTyped
<1>2. ASSUME NEW k \in 1 .. Len(lines)
      PROVE  /\ s[2 * k - 1].op = "update" /\ s[2 * k].op = "share"
             /\ s[2 * k - 1].product = lines[k].product
             /\ s[2 * k - 1].quantity = sign * lines[k].quantity
  <2>1. /\ s[2 * k - 1] = Statement("update", lines[k], sign * lines[k].quantity)
        /\ s[2 * k] = Statement("share", lines[k], 0)
    BY AddFacts
  <2>2. QED
    BY <2>1 DEF Statement
<1> HIDE DEF s
<1>3. ASSUME NEW i \in 1 .. 2 * Len(lines) PROVE s[i].op \in {"update", "share"}
  <2>1. PICK k \in 1 .. Len(lines) : i = 2 * k - 1 \/ i = 2 * k
    BY <1>1, OddOrEven
  <2>2. QED
    BY <1>2, <2>1
<1>4. ASSUME NEW k \in 1 .. Len(lines)
      PROVE  /\ Asked(lines, p)[k] \in Int
             /\ Moves(s, p)[2 * k - 1] = sign * Asked(lines, p)[k]
             /\ Moves(s, p)[2 * k] = 0
  <2>1. /\ Asked(lines, p)[k] = IF lines[k].product = p THEN lines[k].quantity ELSE 0
        /\ Asked(lines, p)[k] \in Int
    BY AskedTyped
  <2>2. 2 * k - 1 \in 1 .. Len(s) /\ 2 * k \in 1 .. Len(s)
    BY <1>1
  <2>3. /\ Moves(s, p)[2 * k - 1] = IF s[2 * k - 1].op = "update" /\ s[2 * k - 1].product = p
                                    THEN s[2 * k - 1].quantity ELSE 0
        /\ Moves(s, p)[2 * k] = IF s[2 * k].op = "update" /\ s[2 * k].product = p
                                THEN s[2 * k].quantity ELSE 0
    BY <1>1, <2>2, MovesTyped
  <2>4. CASE lines[k].product = p
    BY <1>2, <2>1, <2>3, <2>4
  <2>5. CASE lines[k].product # p
    <3>1. sign * 0 = 0
      OBVIOUS
    <3>2. QED
      BY <1>2, <2>1, <2>3, <2>5, <3>1
  <2>6. QED
    BY <2>4, <2>5
<1>5. SumTo(Moves(s, p), 2 * Len(lines)) = sign * SumTo(Asked(lines, p), Len(lines))
  <2>1. Paired(Moves(s, p), 2 * Len(lines), Asked(lines, p), Len(lines), sign)
    BY <1>1, <1>4 DEF Paired
  <2>2. QED
    BY <2>1, SumToPairs
<1>6. Total(Moves(s, p)) = sign * Quantity(lines, p)
  <2>1. Len(Moves(s, p)) = 2 * Len(lines)
    BY <1>1, MovesTyped
  <2>2. Quantity(lines, p) = SumTo(Asked(lines, p), Len(lines))
    BY AskedTyped
  <2>3. QED
    BY <1>5, <2>1, <2>2 DEF Total
<1>7. QED
  BY <1>3, <1>6 DEF s

-----------------------------------------------------------------------------
(* The script of each kind of job.                                          *)

LEMMA ThreeParts ==
    ASSUME NEW s \in Seq(Statements), NEW t \in Seq(Statements), NEW u \in Seq(Statements)
    PROVE  /\ s \o t \o u \in Seq(Statements)
           /\ Len(s \o t \o u) = Len(s) + Len(t) + Len(u)
           /\ \A i \in 1 .. Len(s) : (s \o t \o u)[i] = s[i]
           /\ \A i \in 1 .. Len(t) : (s \o t \o u)[Len(s) + i] = t[i]
           /\ \A i \in 1 .. Len(u) : (s \o t \o u)[Len(s) + Len(t) + i] = u[i]
           /\ \A p : Total(Moves(s \o t \o u, p)) =
                        Total(Moves(s, p)) + Total(Moves(t, p)) + Total(Moves(u, p))
<1>1. Len(s) \in Nat /\ Len(t) \in Nat /\ Len(u) \in Nat
  BY LenProperties
<1>2. /\ s \o t \in Seq(Statements) /\ Len(s \o t) = Len(s) + Len(t)
      /\ \A i \in 1 .. Len(s) : (s \o t)[i] = s[i]
      /\ \A i \in 1 .. Len(t) : (s \o t)[Len(s) + i] = t[i]
  BY ConcatProperties
<1>3. \A p : Total(Moves(s \o t, p)) = Total(Moves(s, p)) + Total(Moves(t, p))
  BY TotalConcat
<1> DEFINE w == s \o t
<1> HIDE DEF w
<1>4. /\ w \in Seq(Statements) /\ Len(w) = Len(s) + Len(t)
      /\ \A i \in 1 .. Len(s) : w[i] = s[i]
      /\ \A i \in 1 .. Len(t) : w[Len(s) + i] = t[i]
      /\ \A p : Total(Moves(w, p)) = Total(Moves(s, p)) + Total(Moves(t, p))
  BY <1>2, <1>3 DEF w
<1>5. /\ w \o u \in Seq(Statements) /\ Len(w \o u) = Len(w) + Len(u)
      /\ \A i \in 1 .. Len(w) : (w \o u)[i] = w[i]
      /\ \A i \in 1 .. Len(u) : (w \o u)[Len(w) + i] = u[i]
  <2>1. w \in Seq(Statements)
    BY <1>4
  <2>2. QED
    BY <2>1, ConcatProperties
<1>6. \A p : Total(Moves(w \o u, p)) = Total(Moves(w, p)) + Total(Moves(u, p))
  BY <1>4, TotalConcat
<1>7. /\ Len(w \o u) = Len(s) + Len(t) + Len(u)
      /\ \A i \in 1 .. Len(s) : (w \o u)[i] = s[i]
      /\ \A p : Total(Moves(w \o u, p)) =
                   Total(Moves(s, p)) + Total(Moves(t, p)) + Total(Moves(u, p))
      /\ \A i \in 1 .. Len(u) : (w \o u)[Len(s) + Len(t) + i] = u[i]
  BY <1>1, <1>4, <1>5, <1>6
<1>8. ASSUME NEW i \in 1 .. Len(t) PROVE (w \o u)[Len(s) + i] = t[i]
  <2>1. Len(s) + i \in 1 .. Len(w) /\ w[Len(s) + i] = t[i]
    BY <1>1, <1>4
  <2>2. QED
    BY <1>5, <2>1
<1>9. QED
  BY <1>5, <1>7, <1>8 DEF w

(* A sale: two statements for each line, then its detail rows, then two     *)
(* statements for each line again.                                          *)
LEMMA SaleScript ==
    ASSUME NEW j \in Job, Kind[j] = "sale"
    PROVE  /\ Script[j] \in Seq(Statements) /\ New[j] \in Seq(Line)
           /\ Len(New[j]) \in Nat /\ Len(Script[j]) = 5 * Len(New[j])
           /\ \A k \in 1 .. Len(New[j]) :
                 /\ Script[j][2 * k - 1] = Statement("lock", New[j][k], 0)
                 /\ Script[j][2 * k] = Statement("read", New[j][k], New[j][k].quantity)
           /\ \A i \in 2 * Len(New[j]) + 1 .. 3 * Len(New[j]) : Script[j][i].op = "share"
           /\ \A i \in 3 * Len(New[j]) + 1 .. 5 * Len(New[j]) :
                 Script[j][i].op \in {"update", "share"}
           /\ \A p \in Product : Total(Moves(Script[j], p)) = NetOf[j][p]
<1> DEFINE s == Check(New[j])
           t == Details(New[j])
           u == Add(New[j], -1)
<1>1. New[j] \in Seq(Line) /\ Old[j] = << >> /\ Len(New[j]) \in Nat
  BY JobsAssumption, LenProperties
<1>2. Script[j] = s \o t \o u
  BY DEF Script
<1>3. /\ s \in Seq(Statements) /\ t \in Seq(Statements) /\ u \in Seq(Statements)
      /\ Len(s) = 2 * Len(New[j]) /\ Len(t) = Len(New[j]) /\ Len(u) = 2 * Len(New[j])
  BY <1>1, CheckFacts, DetailsFacts, AddFacts
<1>4. \A k \in 1 .. Len(New[j]) :
         /\ s[2 * k - 1] = Statement("lock", New[j][k], 0)
         /\ s[2 * k] = Statement("read", New[j][k], New[j][k].quantity)
  BY <1>1, CheckFacts
<1>5. \A i \in 1 .. Len(t) : t[i].op = "share"
  BY <1>1, <1>3, DetailsTotal
<1>6. \A i \in 1 .. Len(u) : u[i].op \in {"update", "share"}
  BY <1>1, <1>3, AddTotal
<1>7. ASSUME NEW p \in Product
      PROVE  Total(Moves(s, p)) + Total(Moves(t, p)) + Total(Moves(u, p)) = NetOf[j][p]
  <2>1. Total(Moves(s, p)) = 0
    BY <1>1, CheckTotal
  <2>2. Total(Moves(t, p)) = 0
    BY <1>1, DetailsTotal
  <2>3. Total(Moves(u, p)) = -1 * Quantity(New[j], p)
    <3>1. Quantity(New[j], p) \in Int
      BY <1>1, AskedTyped
    <3>2. ASSUME NEW sign \in {1, -1}
          PROVE  Total(Moves(Add(New[j], sign), p)) = sign * Quantity(New[j], p)
      BY <1>1, AddTotal
    <3>3. ASSUME NEW sign \in {1, -1}, sign = -1
          PROVE  Total(Moves(Add(New[j], sign), p)) = -1 * Quantity(New[j], p)
      BY <3>1, <3>2, <3>3
    <3>4. QED
      BY <3>3
  <2>4. NetOf[j][p] = Quantity(<< >>, p) - Quantity(New[j], p)
    BY <1>1 DEF NetOf
  <2>5. Quantity(<< >>, p) = 0
    BY NoLine
  <2>6. Quantity(New[j], p) \in Int
    BY <1>1, AskedTyped
  <2>7. QED
    BY <2>1, <2>2, <2>3, <2>4, <2>5, <2>6
<1> HIDE DEF s, t, u
<1>8. /\ s \o t \o u \in Seq(Statements)
      /\ Len(s \o t \o u) = Len(s) + Len(t) + Len(u)
      /\ \A i \in 1 .. Len(s) : (s \o t \o u)[i] = s[i]
      /\ \A i \in 1 .. Len(t) : (s \o t \o u)[Len(s) + i] = t[i]
      /\ \A i \in 1 .. Len(u) : (s \o t \o u)[Len(s) + Len(t) + i] = u[i]
      /\ \A p : Total(Moves(s \o t \o u, p)) =
                   Total(Moves(s, p)) + Total(Moves(t, p)) + Total(Moves(u, p))
  <2>1. s \in Seq(Statements) /\ t \in Seq(Statements) /\ u \in Seq(Statements)
    BY <1>3
  <2>2. QED
    BY <2>1, ThreeParts, Zenon
<1> DEFINE v == s \o t \o u
<1> HIDE DEF v
<1>9. /\ v \in Seq(Statements) /\ Len(v) = 5 * Len(New[j])
      /\ \A i \in 1 .. Len(s) : v[i] = s[i]
      /\ \A i \in 1 .. Len(t) : v[Len(s) + i] = t[i]
      /\ \A i \in 1 .. Len(u) : v[Len(s) + Len(t) + i] = u[i]
      /\ \A p \in Product : Total(Moves(v, p)) = NetOf[j][p]
  BY <1>1, <1>3, <1>7, <1>8 DEF v
<1>10. ASSUME NEW k \in 1 .. Len(New[j])
       PROVE  /\ v[2 * k - 1] = Statement("lock", New[j][k], 0)
              /\ v[2 * k] = Statement("read", New[j][k], New[j][k].quantity)
  <2>1. 2 * k - 1 \in 1 .. Len(s) /\ 2 * k \in 1 .. Len(s)
    BY <1>1, <1>3
  <2>2. QED
    BY <1>4, <1>9, <2>1
<1>11. ASSUME NEW i \in 2 * Len(New[j]) + 1 .. 3 * Len(New[j]) PROVE v[i].op = "share"
  <2>1. i - Len(s) \in 1 .. Len(t) /\ Len(s) + (i - Len(s)) = i
    BY <1>1, <1>3
  <2>2. v[Len(s) + (i - Len(s))] = t[i - Len(s)]
    BY <1>9, <2>1
  <2>3. QED
    BY <1>5, <2>1, <2>2
<1>12. ASSUME NEW i \in 3 * Len(New[j]) + 1 .. 5 * Len(New[j])
       PROVE  v[i].op \in {"update", "share"}
  <2>1. /\ i - (Len(s) + Len(t)) \in 1 .. Len(u)
        /\ Len(s) + Len(t) + (i - (Len(s) + Len(t))) = i
    BY <1>1, <1>3
  <2>2. v[Len(s) + Len(t) + (i - (Len(s) + Len(t)))] = u[i - (Len(s) + Len(t))]
    BY <1>9, <2>1
  <2>3. QED
    BY <1>6, <2>1, <2>2
<1>13. Script[j] = v
  BY <1>2 DEF v
<1>14. QED
  BY <1>1, <1>9, <1>10, <1>11, <1>12, <1>13

LEMMA OneLine ==
    ASSUME NEW lines \in Seq(Line), Len(lines) = 1, NEW sign \in {1, -1}
    PROVE  /\ Add(lines, sign)[1].op = "update" /\ Add(lines, sign)[2].op = "share"
           /\ Add(lines, sign)[1].product = Add(lines, sign)[2].product
<1>1. /\ Add(lines, sign)[2 * 1 - 1] = Statement("update", lines[1], sign * lines[1].quantity)
      /\ Add(lines, sign)[2 * 1] = Statement("share", lines[1], 0)
  BY AddFacts
<1>2. 2 * 1 - 1 = 1 /\ 2 * 1 = 2
  OBVIOUS
<1>3. QED
  BY <1>1, <1>2 DEF Statement

LEMMA DeductionsLast ==
    ASSUME NEW j \in Job, Kind[j] = "sale"
    PROVE  \A i \in 1 .. 3 * Len(New[j]) : Script[j][i].op # "update"
<1> SUFFICES ASSUME NEW i \in 1 .. 3 * Len(New[j]) PROVE Script[j][i].op # "update"
  OBVIOUS
<1>1. Len(New[j]) \in Nat
  BY SaleScript
<1>2. CASE i \in 1 .. 2 * Len(New[j])
  <2>1. PICK k \in 1 .. Len(New[j]) : i = 2 * k - 1 \/ i = 2 * k
    BY <1>1, <1>2, OddOrEven
  <2>2. /\ Script[j][2 * k - 1] = Statement("lock", New[j][k], 0)
        /\ Script[j][2 * k] = Statement("read", New[j][k], New[j][k].quantity)
    BY SaleScript
  <2>3. QED
    BY <2>1, <2>2 DEF Statement
<1>3. CASE i \in 2 * Len(New[j]) + 1 .. 3 * Len(New[j])
  <2>1. Script[j][i].op = "share"
    BY <1>3, SaleScript
  <2>2. QED
    BY <2>1
<1>4. QED
  BY <1>1, <1>2, <1>3

(* The other jobs only update and insert, and one of two statements updates *)
(* a row and then inserts its history.                                      *)
LEMMA OtherScript ==
    ASSUME NEW j \in Job, Kind[j] # "sale"
    PROVE  /\ Script[j] \in Seq(Statements)
           /\ \A i \in 1 .. Len(Script[j]) : Script[j][i].op \in {"update", "share"}
           /\ Len(Script[j]) = 2 =>
                 /\ Script[j][1].op = "update" /\ Script[j][2].op = "share"
                 /\ Script[j][1].product = Script[j][2].product
           /\ \A p \in Product : Total(Moves(Script[j], p)) = NetOf[j][p]
<1> DEFINE s == Add(Old[j], 1)
           t == Details(New[j])
           u == Add(New[j], -1)
           a == Len(Old[j])
           b == Len(New[j])
           x == Len(s)
           y == Len(t)
           z == Len(u)
<1>1. /\ Kind[j] \in {"correction", "resolve", "adjust"}
      /\ New[j] \in Seq(Line) /\ Old[j] \in Seq(Line)
      /\ Kind[j] = "resolve" => Old[j] = << >>
      /\ Kind[j] = "adjust" => New[j] = << >>
  BY JobsAssumption DEF Kinds
<1>2. Len(New[j]) \in Nat /\ Len(Old[j]) \in Nat
  BY <1>1, LenProperties
<1>3. /\ s \in Seq(Statements) /\ t \in Seq(Statements) /\ u \in Seq(Statements)
      /\ Len(s) = 2 * Len(Old[j]) /\ Len(t) = Len(New[j]) /\ Len(u) = 2 * Len(New[j])
  BY <1>1, DetailsFacts, AddFacts
<1>4. /\ b \in Nat /\ a \in Nat
      /\ x = 2 * a /\ y = b /\ z = 2 * b
  BY <1>2, <1>3
<1>5. /\ \A i \in 1 .. x : s[i].op \in {"update", "share"}
      /\ \A i \in 1 .. y : t[i].op = "share"
      /\ \A i \in 1 .. z : u[i].op \in {"update", "share"}
  <2>1. \A i \in 1 .. x : s[i].op \in {"update", "share"}
    BY <1>1, <1>3, AddTotal
  <2>2. \A i \in 1 .. y : t[i].op = "share"
    BY <1>1, <1>3, DetailsTotal
  <2>3. \A i \in 1 .. z : u[i].op \in {"update", "share"}
    BY <1>1, <1>3, AddTotal
  <2>4. QED
    BY <2>1, <2>2, <2>3
<1>6. /\ a = 1 => /\ s[1].op = "update" /\ s[2].op = "share"
                            /\ s[1].product = s[2].product
      /\ b = 1 => /\ u[1].op = "update" /\ u[2].op = "share"
                            /\ u[1].product = u[2].product
  BY <1>1, OneLine
<1>7. ASSUME NEW p \in Product
      PROVE  /\ Total(Moves(s, p)) = Quantity(Old[j], p)
             /\ Total(Moves(t, p)) = 0
             /\ Total(Moves(u, p)) = - Quantity(New[j], p)
             /\ NetOf[j][p] = Quantity(Old[j], p) - Quantity(New[j], p)
             /\ Quantity(Old[j], p) \in Int /\ Quantity(New[j], p) \in Int
             /\ Quantity(<< >>, p) = 0
  <2>1. Quantity(Old[j], p) \in Int /\ Quantity(New[j], p) \in Int
    BY <1>1, AskedTyped
  <2>2. ASSUME NEW sign \in {1, -1}
        PROVE  /\ Total(Moves(Add(Old[j], sign), p)) = sign * Quantity(Old[j], p)
               /\ Total(Moves(Add(New[j], sign), p)) = sign * Quantity(New[j], p)
    BY <1>1, AddTotal
  <2>3. ASSUME NEW sign \in {1, -1}, sign = 1
        PROVE  Total(Moves(Add(Old[j], sign), p)) = Quantity(Old[j], p)
    BY <2>1, <2>2, <2>3
  <2>4. ASSUME NEW sign \in {1, -1}, sign = -1
        PROVE  Total(Moves(Add(New[j], sign), p)) = - Quantity(New[j], p)
    BY <2>1, <2>2, <2>4
  <2>5. Total(Moves(t, p)) = 0
    BY <1>1, DetailsTotal
  <2>6. NetOf[j][p] = Quantity(Old[j], p) - Quantity(New[j], p)
    BY DEF NetOf
  <2>7. QED
    BY <2>1, <2>3, <2>4, <2>5, <2>6, NoLine
<1>8. /\ Kind[j] = "correction" => Script[j] = s \o t \o u
      /\ Kind[j] = "resolve" => Script[j] = u
      /\ Kind[j] = "adjust" => Script[j] = s
  BY DEF Script
<1> HIDE DEF s, t, u, a, b, x, y, z
<1>9. CASE Kind[j] = "correction"
  <2> DEFINE v == s \o t \o u
  <2> HIDE DEF v
  <2>1. /\ v \in Seq(Statements)
        /\ Len(v) = x + y + z
        /\ \A i \in 1 .. x : v[i] = s[i]
        /\ \A i \in 1 .. y : v[x + i] = t[i]
        /\ \A i \in 1 .. z : v[x + y + i] = u[i]
        /\ \A p : Total(Moves(v, p)) =
                     Total(Moves(s, p)) + Total(Moves(t, p)) + Total(Moves(u, p))
    <3>1. s \in Seq(Statements) /\ t \in Seq(Statements) /\ u \in Seq(Statements)
      BY <1>3
    <3>2. /\ s \o t \o u \in Seq(Statements)
          /\ Len(s \o t \o u) = Len(s) + Len(t) + Len(u)
          /\ \A i \in 1 .. Len(s) : (s \o t \o u)[i] = s[i]
          /\ \A i \in 1 .. Len(t) : (s \o t \o u)[Len(s) + i] = t[i]
          /\ \A i \in 1 .. Len(u) : (s \o t \o u)[Len(s) + Len(t) + i] = u[i]
          /\ \A p : Total(Moves(s \o t \o u, p)) =
                       Total(Moves(s, p)) + Total(Moves(t, p)) + Total(Moves(u, p))
      BY <3>1, ThreeParts, Zenon
    <3>3. QED
      BY <3>2, Zenon DEF v, x, y, z
  <2> DEFINE w == Len(v)
  <2> HIDE DEF w
  <2>2. w = x + y + z
    BY <2>1 DEF w
  <2>3. ASSUME NEW i \in 1 .. w PROVE v[i].op \in {"update", "share"}
    <3>1. CASE i <= x
      <4>1. i \in 1 .. x
        BY <1>4, <3>1
      <4>2. QED
        BY <1>5, <2>1, <4>1
    <3>2. CASE i > x /\ i <= x + y
      <4>1. i - x \in 1 .. y /\ x + (i - x) = i
        BY <1>4, <3>2
      <4>2. v[x + (i - x)] = t[i - x]
        BY <2>1, <4>1
      <4>3. QED
        BY <1>5, <4>1, <4>2
    <3>3. CASE i > x + y
      <4>1. /\ i - (x + y) \in 1 .. z
            /\ x + y + (i - (x + y)) = i
        BY <1>4, <2>2, <3>3
      <4>2. v[x + y + (i - (x + y))] = u[i - (x + y)]
        BY <2>1, <4>1
      <4>3. QED
        BY <1>5, <4>1, <4>2
    <3>4. QED
      BY <1>4, <2>2, <3>1, <3>2, <3>3
  <2>4. ASSUME w = 2
        PROVE  v[1].op = "update" /\ v[2].op = "share" /\ v[1].product = v[2].product
    <3>1. a = 1 /\ x = 2
      BY <1>4, <2>2, <2>4
    <3>2. v[1] = s[1] /\ v[2] = s[2]
      BY <2>1, <3>1
    <3>3. QED
      BY <1>6, <3>1, <3>2
  <2>5. \A p \in Product : Total(Moves(v, p)) = NetOf[j][p]
    BY <1>7, <2>1
  <2>6. Script[j] = v
    BY <1>8, <1>9 DEF v
  <2>7. QED
    BY <2>1, <2>3, <2>4, <2>5, <2>6 DEF w
<1>10. CASE Kind[j] = "resolve"
  <2>1. \A p \in Product : Total(Moves(u, p)) = NetOf[j][p]
    BY <1>1, <1>7, <1>10
  <2>2. z = 2 => b = 1
    BY <1>4
  <2>3. QED
    BY <1>3, <1>5, <1>6, <1>8, <1>10, <2>1, <2>2 DEF z
<1>11. CASE Kind[j] = "adjust"
  <2>1. \A p \in Product : Total(Moves(s, p)) = NetOf[j][p]
    BY <1>1, <1>7, <1>11
  <2>2. x = 2 => a = 1
    BY <1>4
  <2>3. QED
    BY <1>3, <1>5, <1>6, <1>8, <1>11, <2>1, <2>2 DEF x
<1>12. QED
  BY <1>1, <1>9, <1>10, <1>11

(* What the proofs use of any script.                                       *)
LEMMA ScriptFacts ==
    ASSUME NEW j \in Job
    PROVE  /\ Script[j] \in Seq(Statements) /\ Len(Script[j]) \in Nat
           /\ \A i \in 1 .. Len(Script[j]) :
                 /\ Script[j][i] \in Statements
                 /\ Script[j][i].op \in {"lock", "read"} => Kind[j] = "sale"
           /\ \A p \in Product :
                 SumTo(Moves(Script[j], p), Len(Script[j])) = NetOf[j][p]
<1>1. Script[j] \in Seq(Statements) /\ \A p \in Product : Total(Moves(Script[j], p)) = NetOf[j][p]
  BY SaleScript, OtherScript
<1>2. Len(Script[j]) \in Nat /\ \A i \in 1 .. Len(Script[j]) : Script[j][i] \in Statements
  BY <1>1, LenProperties, ElementOfSeq
<1>3. ASSUME Kind[j] # "sale", NEW i \in 1 .. Len(Script[j])
      PROVE  Script[j][i].op \notin {"lock", "read"}
  <2>1. Script[j][i].op \in {"update", "share"}
    BY <1>3, OtherScript
  <2>2. QED
    BY <2>1
<1>4. ASSUME NEW p \in Product
      PROVE  SumTo(Moves(Script[j], p), Len(Script[j])) = NetOf[j][p]
  <2>1. Len(Moves(Script[j], p)) = Len(Script[j])
    BY <1>1, MovesTyped
  <2>2. QED
    BY <1>1, <2>1 DEF Total
<1>5. QED
  BY <1>1, <1>2, <1>3, <1>4

(* Only a sale reads a stock, of the line whose Inventory row it has locked *)
(* in the statement before.                                                 *)
LEMMA ReadFacts ==
    ASSUME NEW j \in Job, NEW i \in 1 .. Len(Script[j]), Script[j][i].op = "read"
    PROVE  /\ Kind[j] = "sale" /\ i - 1 \in 1 .. Len(Script[j])
           /\ i <= 2 * Len(New[j])
           /\ Script[j][i - 1].op = "lock"
           /\ Script[j][i - 1].product = Script[j][i].product
           /\ \E k \in DOMAIN New[j] : /\ New[j][k].product = Script[j][i].product
                                       /\ New[j][k].quantity = Script[j][i].quantity
<1>1. Kind[j] = "sale"
  BY ScriptFacts
<1>2. New[j] \in Seq(Line) /\ Len(New[j]) \in Nat /\ Len(Script[j]) = 5 * Len(New[j])
  BY <1>1, SaleScript
<1>3. i <= 2 * Len(New[j])
  <2>1. CASE i \in 2 * Len(New[j]) + 1 .. 3 * Len(New[j])
    <3>1. Script[j][i].op = "share"
      BY <1>1, <2>1, SaleScript
    <3>2. QED
      BY <3>1
  <2>2. CASE i \in 3 * Len(New[j]) + 1 .. 5 * Len(New[j])
    <3>1. Script[j][i].op \in {"update", "share"}
      BY <1>1, <2>2, SaleScript
    <3>2. QED
      BY <3>1
  <2>3. QED
    BY <1>2, <2>1, <2>2
<1>4. PICK k \in 1 .. Len(New[j]) : i = 2 * k - 1 \/ i = 2 * k
  <2>1. i \in 1 .. 2 * Len(New[j])
    BY <1>3
  <2>2. QED
    BY <1>2, <2>1, OddOrEven
<1>5. /\ Script[j][2 * k - 1] = Statement("lock", New[j][k], 0)
      /\ Script[j][2 * k] = Statement("read", New[j][k], New[j][k].quantity)
  BY <1>1, SaleScript
<1>6. i = 2 * k
  BY <1>4, <1>5 DEF Statement
<1>7. i - 1 = 2 * k - 1 /\ i - 1 \in 1 .. Len(Script[j]) /\ k \in DOMAIN New[j]
  BY <1>2, <1>6
<1>8. /\ Script[j][i - 1].op = "lock" /\ Script[j][i - 1].product = New[j][k].product
      /\ Script[j][i].product = New[j][k].product
      /\ Script[j][i].quantity = New[j][k].quantity
  BY <1>5, <1>6, <1>7 DEF Statement
<1>9. QED
  BY <1>1, <1>3, <1>7, <1>8

(* Only a sale locks an Inventory row in advance, for one of its lines.     *)
LEMMA LockFacts ==
    ASSUME NEW j \in Job, NEW i \in 1 .. Len(Script[j]), Script[j][i].op = "lock"
    PROVE  /\ Kind[j] = "sale" /\ i <= 2 * Len(New[j])
           /\ \E k \in DOMAIN New[j] : New[j][k].product = Script[j][i].product
<1>1. Kind[j] = "sale"
  BY ScriptFacts
<1>2. New[j] \in Seq(Line) /\ Len(New[j]) \in Nat /\ Len(Script[j]) = 5 * Len(New[j])
  BY <1>1, SaleScript
<1>3. i <= 2 * Len(New[j])
  <2>1. CASE i \in 2 * Len(New[j]) + 1 .. 3 * Len(New[j])
    <3>1. Script[j][i].op = "share"
      BY <1>1, <2>1, SaleScript
    <3>2. QED
      BY <3>1
  <2>2. CASE i \in 3 * Len(New[j]) + 1 .. 5 * Len(New[j])
    <3>1. Script[j][i].op \in {"update", "share"}
      BY <1>1, <2>2, SaleScript
    <3>2. QED
      BY <3>1
  <2>3. QED
    BY <1>2, <2>1, <2>2
<1>4. PICK k \in 1 .. Len(New[j]) : i = 2 * k - 1 \/ i = 2 * k
  <2>1. i \in 1 .. 2 * Len(New[j])
    BY <1>3
  <2>2. QED
    BY <1>2, <2>1, OddOrEven
<1>5. /\ Script[j][2 * k - 1] = Statement("lock", New[j][k], 0)
      /\ Script[j][2 * k] = Statement("read", New[j][k], New[j][k].quantity)
  BY <1>1, SaleScript
<1>6. i = 2 * k - 1 /\ k \in DOMAIN New[j]
  BY <1>2, <1>4, <1>5 DEF Statement
<1>7. Script[j][i].product = New[j][k].product
  BY <1>5, <1>6 DEF Statement
<1>8. QED
  BY <1>1, <1>3, <1>6, <1>7

-----------------------------------------------------------------------------
(* What is true at every moment.                                            *)

Outcomes == {"open", "committed", "parked", "failed"}

TypeOK ==
    /\ step \in [Job -> Nat] /\ conflict \in [Job -> BOOLEAN]
    /\ inventory \in [Product -> Job \cup {None}]
    /\ product \in [Product -> Job \cup {None}]
    /\ shared \in [Product -> SUBSET Job]
    /\ delta \in [Job -> [Product -> Int]]
    /\ stock \in [Product -> Int]
    /\ catalog \in [Product -> {"active", "inactive", "none"}]
    /\ outcome \in [Job -> Outcomes]

(* A job is somewhere in its script until it ends, and holds nothing before *)
(* its second statement.                                                    *)
Position(j) ==
    /\ step[j] <= Len(Script[j]) + 1
    /\ outcome[j] # "open" => step[j] = 0
    /\ \A p \in Product : inventory[p] = j \/ j \in shared[p] =>
          outcome[j] = "open" /\ step[j] > 1

(* Its uncommitted changes are those of the statements behind it.           *)
Moved(j) ==
    \A p \in Product :
        delta[j][p] = IF step[j] = 0 THEN 0 ELSE SumTo(Moves(Script[j], p), step[j] - 1)

(* What a sale finds of a line, and that it keeps the rows that show it.    *)
Sellable(l) == catalog[l.product] = "active" /\ stock[l.product] >= l.quantity
NotSellable(j, l) ==
    \/ ~Known(l.product)
    \/ inventory[l.product] = j /\ product[l.product] = j /\ ~Sellable(l)

(* It keeps the Inventory row of every statement behind it, and a line it   *)
(* has found on sale and covered is so still.                               *)
Behind(j) ==
    ~conflict[j] => \A i \in 1 .. step[j] - 1 :
        LET s == Script[j][i] IN
        /\ s.op # "share" => inventory[s.product] = j
        /\ s.op = "read" => product[s.product] = j /\ Sellable(s)

(* A sale in conflict writes its detail rows, and one of its lines is of an *)
(* unknown product, or is off sale or short still.                          *)
Parking(j) ==
    conflict[j] =>
        /\ Kind[j] = "sale"
        /\ step[j] \in DetailsOf(j) .. 3 * Len(New[j]) + 1
        /\ \E k \in DOMAIN New[j] : NotSellable(j, New[j][k])

JobSound(j) == Position(j) /\ Moved(j) /\ Behind(j) /\ Parking(j)

(* Who holds a Product row FOR UPDATE holds its Inventory row too.          *)
InventoryFirst ==
    \A p \in Product : product[p] # None => inventory[p] = product[p]

Inductive ==
    TypeOK /\ (\A j \in Job : JobSound(j)) /\ InventoryFirst

-----------------------------------------------------------------------------
(* It is true at first.                                                     *)

LEMMA InitInductive == Init => Inductive
<1> SUFFICES ASSUME Init PROVE Inductive
  OBVIOUS
<1>1. None \notin Job /\ InitialStock \in [Product -> Int]
  BY JobsAssumption
<1>2. TypeOK
  BY <1>1 DEF Init, TypeOK, Outcomes
<1>3. ASSUME NEW j \in Job PROVE JobSound(j)
  <2>1. /\ step[j] = 0 /\ conflict[j] = FALSE /\ outcome[j] = "open"
        /\ \A p \in Product : inventory[p] # j /\ j \notin shared[p] /\ delta[j][p] = 0
    BY <1>1 DEF Init
  <2>2. Len(Script[j]) \in Nat
    BY ScriptFacts
  <2>3. QED
    BY <2>1, <2>2 DEF JobSound, Position, Moved, Behind, Parking
<1>4. InventoryFirst
  BY DEF Init, InventoryFirst
<1>5. QED
  BY <1>2, <1>3, <1>4 DEF Inductive

-----------------------------------------------------------------------------
(* A statement of one job leaves the others where they are.                 *)

Same(i) ==
    /\ step'[i] = step[i] /\ conflict'[i] = conflict[i]
    /\ outcome'[i] = outcome[i] /\ delta'[i] = delta[i]
    /\ \A p \in Product : /\ inventory'[p] = i <=> inventory[p] = i
                          /\ product'[p] = i <=> product[p] = i
                          /\ i \in shared'[p] <=> i \in shared[p]
                          /\ inventory[p] = i => stock'[p] = stock[p]
                          /\ product[p] = i => catalog'[p] = catalog[p]
                          /\ catalog'[p] = "none" <=> catalog[p] = "none"

LEMMA SameKeeps ==
    ASSUME NEW i \in Job, TypeOK, JobSound(i), Same(i)
    PROVE  JobSound(i)'
<1>1. Position(i)'
  BY DEF JobSound, Position, Same
<1>2. Moved(i)'
  BY DEF JobSound, Moved, Same
<1>3. Behind(i)'
  <2>1. SUFFICES ASSUME ~conflict[i], NEW k \in 1 .. step[i] - 1
                 PROVE  /\ Script[i][k].op # "share" => inventory'[Script[i][k].product] = i
                        /\ Script[i][k].op = "read" =>
                              /\ product'[Script[i][k].product] = i
                              /\ catalog'[Script[i][k].product] = "active"
                              /\ stock'[Script[i][k].product] >= Script[i][k].quantity
    BY DEF Behind, Sellable, Same
  <2>2. /\ Script[i][k].op # "share" => inventory[Script[i][k].product] = i
        /\ Script[i][k].op = "read" =>
              /\ product[Script[i][k].product] = i
              /\ catalog[Script[i][k].product] = "active"
              /\ stock[Script[i][k].product] >= Script[i][k].quantity
    BY <2>1 DEF JobSound, Behind, Sellable
  <2>3. Script[i][k].product \in Product
    <3>1. step[i] \in Nat /\ Len(Script[i]) \in Nat /\ step[i] <= Len(Script[i]) + 1
      BY ScriptFacts DEF TypeOK, JobSound, Position
    <3>2. k \in 1 .. Len(Script[i])
      BY <3>1
    <3>3. QED
      BY <3>2, ScriptFacts DEF Statements
  <2>4. QED
    BY <2>2, <2>3 DEF Same
<1>4. Parking(i)'
  <2>1. SUFFICES ASSUME conflict[i] PROVE Parking(i)'
    BY DEF Parking, Same
  <2>2. /\ Kind[i] = "sale"
        /\ step[i] \in DetailsOf(i) .. 3 * Len(New[i]) + 1
    BY <2>1 DEF JobSound, Parking
  <2>3. PICK k \in DOMAIN New[i] : NotSellable(i, New[i][k])
    BY <2>1 DEF JobSound, Parking
  <2>4. New[i][k].product \in Product
    <3>1. New[i] \in Seq(Line)
      BY JobsAssumption
    <3>2. QED
      BY <3>1, LineTyped
  <2>5. NotSellable(i, New[i][k])'
    BY <2>3, <2>4 DEF Same, NotSellable, Sellable, Known
  <2>6. step'[i] = step[i]
    BY DEF Same
  <2>7. QED
    BY <2>2, <2>5, <2>6 DEF Parking, DetailsOf
<1>5. QED
  BY <1>1, <1>2, <1>3, <1>4 DEF JobSound

LEMMA OneMoves ==
    ASSUME Inductive, NEW j \in Job, TypeOK', JobSound(j)', InventoryFirst',
           \A i \in Job \ {j} : Same(i)
    PROVE  Inductive'
<1>1. ASSUME NEW i \in Job PROVE JobSound(i)'
  <2>1. CASE i = j
    BY <2>1
  <2>2. CASE i # j
    BY <2>2, SameKeeps DEF Inductive
  <2>3. QED
    BY <2>1, <2>2
<1>2. QED
  BY <1>1 DEF Inductive

-----------------------------------------------------------------------------
(* The statement a job is at.                                               *)

LEMMA CurrentFacts ==
    ASSUME Inductive, NEW j \in Job, NEW op, Is(j, op)
    PROVE  /\ step[j] \in 1 .. Len(Script[j]) /\ outcome[j] = "open"
           /\ Current(j) = Script[j][step[j]] /\ Current(j).op = op
           /\ Current(j).product \in Product /\ Current(j).quantity \in Int
           /\ conflict[j] => op = "share" /\ step[j] <= 3 * Len(New[j])
<1>1. /\ step[j] \in Nat /\ conflict[j] \in BOOLEAN
      /\ Len(Script[j]) \in Nat
      /\ outcome[j] = "open" /\ step[j] > 0 /\ step[j] <= LastStep(j)
      /\ Current(j).op = op
  BY ScriptFacts DEF Inductive, TypeOK, Is, Running, Open
<1>2. CASE conflict[j]
  <2>1. Kind[j] = "sale" /\ step[j] \in DetailsOf(j) .. 3 * Len(New[j]) + 1
    BY <1>2 DEF Inductive, JobSound, Parking
  <2>2. Len(New[j]) \in Nat /\ Len(Script[j]) = 5 * Len(New[j])
    BY <2>1, SaleScript
  <2>3. step[j] <= 3 * Len(New[j])
    BY <1>1, <1>2 DEF LastStep
  <2>4. step[j] \in 1 .. Len(Script[j])
    BY <1>1, <2>2, <2>3
  <2>5. step[j] \in 2 * Len(New[j]) + 1 .. 3 * Len(New[j])
    BY <1>1, <2>1, <2>2, <2>3 DEF DetailsOf
  <2>6. Script[j][step[j]].op = "share"
    BY <2>1, <2>5, SaleScript
  <2>7. Script[j][step[j]] \in Statements
    BY <2>4, ScriptFacts
  <2>8. QED
    BY <1>1, <2>3, <2>4, <2>6, <2>7 DEF Current, Statements
<1>3. CASE ~conflict[j]
  <2>1. step[j] \in 1 .. Len(Script[j])
    BY <1>1, <1>3 DEF LastStep
  <2>2. Script[j][step[j]] \in Statements
    BY <2>1, ScriptFacts
  <2>3. QED
    BY <1>1, <1>3, <2>1, <2>2 DEF Current, Statements
<1>4. QED
  BY <1>1, <1>2, <1>3

Move(s, p) == IF s.op = "update" /\ s.product = p THEN s.quantity ELSE 0

LEMMA MoveOne ==
    ASSUME NEW j \in Job, NEW p \in Product, NEW i \in Nat, i + 1 \in 1 .. Len(Script[j])
    PROVE  SumTo(Moves(Script[j], p), i + 1) =
              SumTo(Moves(Script[j], p), i) + Move(Script[j][i + 1], p)
<1>1. SumTo(Moves(Script[j], p), i + 1) =
         SumTo(Moves(Script[j], p), i) + Moves(Script[j], p)[i + 1]
  BY SumToStep
<1>2. Script[j] \in Seq(Statements)
  BY ScriptFacts
<1>3. Moves(Script[j], p)[i + 1] = Move(Script[j][i + 1], p)
  BY <1>2, MovesTyped DEF Move
<1>4. QED
  BY <1>1, <1>3

(* A job that is through with a statement and goes on to the next.          *)
LEMMA Advance ==
    ASSUME Inductive, NEW j \in Job, NEW op, Is(j, op),
           step'[j] = step[j] + 1, conflict'[j] = conflict[j], outcome'[j] = outcome[j],
           stock' = stock, catalog' = catalog,
           \A p \in Product : /\ inventory[p] = j => inventory'[p] = j
                              /\ product[p] = j => product'[p] = j,
           \A p \in Product : delta'[j][p] = delta[j][p] + Move(Current(j), p),
           op # "share" => inventory'[Current(j).product] = j,
           op = "read" => product'[Current(j).product] = j /\ Sellable(Current(j))
    PROVE  JobSound(j)'
<1> DEFINE n == step[j] - 1
<1>1. /\ n \in Nat /\ step[j] = n + 1 /\ step'[j] = n + 2 /\ step'[j] - 1 = n + 1
      /\ n + 1 \in 1 .. Len(Script[j]) /\ Len(Script[j]) \in Nat
      /\ outcome[j] = "open" /\ Current(j) = Script[j][n + 1] /\ Current(j).op = op
      /\ conflict[j] => op = "share" /\ step[j] <= 3 * Len(New[j])
  <2>1. /\ step[j] \in 1 .. Len(Script[j]) /\ outcome[j] = "open"
        /\ Current(j) = Script[j][step[j]] /\ Current(j).op = op
        /\ conflict[j] => op = "share" /\ step[j] <= 3 * Len(New[j])
    BY CurrentFacts
  <2>2. Len(Script[j]) \in Nat
    BY ScriptFacts
  <2>3. step[j] = n + 1
    BY <2>1, <2>2
  <2>4. QED
    BY <2>1, <2>2, <2>3
<1>2. JobSound(j)
  BY DEF Inductive
<1> HIDE DEF n
<1>3. Position(j)'
  <2>1. step'[j] <= Len(Script[j]) + 1 /\ step'[j] > 1
    BY <1>1
  <2>2. outcome'[j] = "open"
    BY <1>1
  <2>3. QED
    BY <2>1, <2>2 DEF Position
<1>4. Moved(j)'
  <2>1. SUFFICES ASSUME NEW p \in Product
                 PROVE  delta'[j][p] = SumTo(Moves(Script[j], p), n + 1)
    BY <1>1 DEF Moved
  <2>2. delta[j][p] = SumTo(Moves(Script[j], p), n)
    <3>1. step[j] # 0 /\ step[j] - 1 = n
      BY <1>1
    <3>2. delta[j][p] = IF step[j] = 0 THEN 0 ELSE SumTo(Moves(Script[j], p), step[j] - 1)
      BY <1>2 DEF JobSound, Moved
    <3>3. QED
      BY <3>1, <3>2
  <2>3. SumTo(Moves(Script[j], p), n + 1) =
           SumTo(Moves(Script[j], p), n) + Move(Script[j][n + 1], p)
    BY <1>1, MoveOne
  <2>4. QED
    BY <1>1, <2>2, <2>3
<1>5. Behind(j)'
  <2>1. SUFFICES ASSUME ~conflict[j], NEW k \in 1 .. n + 1
                 PROVE  /\ Script[j][k].op # "share" => inventory'[Script[j][k].product] = j
                        /\ Script[j][k].op = "read" =>
                              product'[Script[j][k].product] = j /\ Sellable(Script[j][k])
    BY <1>1 DEF Behind, Sellable
  <2>2. CASE k = n + 1
    BY <1>1, <2>2
  <2>3. CASE k # n + 1
    <3>1. k \in 1 .. step[j] - 1 /\ k \in 1 .. Len(Script[j])
      BY <1>1, <2>3
    <3>2. /\ Script[j][k].op # "share" => inventory[Script[j][k].product] = j
          /\ Script[j][k].op = "read" =>
                product[Script[j][k].product] = j /\ Sellable(Script[j][k])
      BY <1>2, <2>1, <3>1 DEF JobSound, Behind
    <3>3. Script[j][k].product \in Product
      BY <3>1, ScriptFacts DEF Statements
    <3>4. QED
      BY <3>2, <3>3
  <2>4. QED
    BY <2>2, <2>3
<1>6. Parking(j)'
  <2>1. SUFFICES ASSUME conflict[j] PROVE Parking(j)'
    BY DEF Parking
  <2>2. /\ Kind[j] = "sale" /\ step[j] \in DetailsOf(j) .. 3 * Len(New[j]) + 1
    BY <1>2, <2>1 DEF JobSound, Parking
  <2>3. PICK k \in DOMAIN New[j] : NotSellable(j, New[j][k])
    BY <1>2, <2>1 DEF JobSound, Parking
  <2>4. New[j][k].product \in Product /\ Len(New[j]) \in Nat
    <3>1. New[j] \in Seq(Line)
      BY JobsAssumption
    <3>2. QED
      BY <3>1, LineTyped
  <2>5. NotSellable(j, New[j][k])'
    BY <2>3, <2>4 DEF NotSellable, Sellable, Known
  <2>6. step'[j] \in DetailsOf(j) .. 3 * Len(New[j]) + 1
    BY <1>1, <2>1, <2>2, <2>4 DEF DetailsOf
  <2>7. QED
    BY <2>2, <2>3, <2>5, <2>6 DEF Parking, DetailsOf
<1>7. QED
  BY <1>3, <1>4, <1>5, <1>6 DEF JobSound

-----------------------------------------------------------------------------
(* The statements keep the invariant.                                       *)

LEMMA BeginInductive ==
    ASSUME Inductive, NEW j \in Job, Begin(j) PROVE Inductive'
<1>1. /\ outcome[j] = "open" /\ step[j] = 0 /\ step' = [step EXCEPT ![j] = 1]
      /\ UNCHANGED <<conflict, inventory, product, shared, delta, stock, catalog, outcome>>
  BY DEF Begin, lockVars
<1>2. TypeOK /\ JobSound(j) /\ InventoryFirst
  BY DEF Inductive
<1>3. step'[j] = 1 /\ step \in [Job -> Nat]
  BY <1>1, <1>2 DEF TypeOK
<1>4. TypeOK' /\ InventoryFirst'
  BY <1>1, <1>2 DEF TypeOK, InventoryFirst
<1>5. JobSound(j)'
  <2>1. ~conflict[j]
    <3>1. ASSUME conflict[j] PROVE FALSE
      <4>1. Kind[j] = "sale" /\ step[j] \in DetailsOf(j) .. 3 * Len(New[j]) + 1
        BY <1>2, <3>1 DEF JobSound, Parking
      <4>2. Len(New[j]) \in Nat
        BY <4>1, SaleScript
      <4>3. QED
        BY <1>1, <4>1, <4>2 DEF DetailsOf
    <3>2. QED
      BY <3>1
  <2>2. Len(Script[j]) \in Nat
    BY ScriptFacts
  <2>3. \A p \in Product : inventory[p] # j /\ j \notin shared[p]
    BY <1>1, <1>2 DEF JobSound, Position
  <2>4. Position(j)'
    BY <1>1, <1>3, <2>2, <2>3 DEF Position
  <2>5. Moved(j)'
    <3>1. SUFFICES ASSUME NEW p \in Product PROVE delta[j][p] = SumTo(Moves(Script[j], p), 0)
      BY <1>1, <1>3 DEF Moved
    <3>2. QED
      BY <1>1, <1>2, SumToStep DEF JobSound, Moved
  <2>6. Behind(j)' /\ Parking(j)'
    BY <1>1, <1>3, <2>1 DEF Behind, Parking
  <2>7. QED
    BY <2>4, <2>5, <2>6 DEF JobSound
<1>6. ASSUME NEW i \in Job \ {j} PROVE Same(i)
  BY <1>1, <1>3 DEF Same
<1>7. QED
  BY <1>4, <1>5, <1>6, OneMoves

LEMMA RefuseInductive ==
    ASSUME Inductive, NEW j \in Job, Refuse(j) PROVE Inductive'
<1>1. /\ outcome[j] = "open" /\ step[j] = 0 /\ outcome' = [outcome EXCEPT ![j] = "failed"]
      /\ UNCHANGED <<step, conflict, inventory, product, shared, delta, stock, catalog>>
  BY DEF Refuse, lockVars
<1>2. TypeOK /\ JobSound(j) /\ InventoryFirst
  BY DEF Inductive
<1>3. TypeOK' /\ InventoryFirst'
  BY <1>1, <1>2 DEF TypeOK, InventoryFirst, Outcomes
<1>4. JobSound(j)'
  <2>1. Position(j)'
    BY <1>1, <1>2 DEF JobSound, Position
  <2>2. Moved(j)' /\ Behind(j)' /\ Parking(j)'
    BY <1>1, <1>2 DEF JobSound, Moved, Behind, Parking, Sellable, NotSellable, Known
  <2>3. QED
    BY <2>1, <2>2 DEF JobSound
<1>5. ASSUME NEW i \in Job \ {j} PROVE Same(i)
  BY <1>1, <1>2 DEF Same, TypeOK
<1>6. QED
  BY <1>3, <1>4, <1>5, OneMoves

LEMMA LockInventoryInductive ==
    ASSUME Inductive, NEW j \in Job, LockInventory(j) PROVE Inductive'
<1> DEFINE p == Current(j).product
<1>1. /\ Is(j, "lock") /\ Blockers(j) = {} /\ inventory' = [inventory EXCEPT ![p] = j]
      /\ step' = [step EXCEPT ![j] = step[j] + 1]
      /\ UNCHANGED <<conflict, product, shared, delta, stock, catalog, outcome>>
  BY DEF LockInventory, Continue
<1>2. TypeOK /\ InventoryFirst
  BY DEF Inductive
<1>3. p \in Product /\ Current(j).op = "lock"
  BY <1>1, CurrentFacts
<1>4. inventory[p] \in {j, None}
  BY <1>1, <1>3 DEF Blockers, Is
<1> HIDE DEF p
<1>5. step'[j] = step[j] + 1 /\ inventory'[p] = j
  BY <1>1, <1>2, <1>3 DEF TypeOK
<1>6. TypeOK'
  BY <1>1, <1>2, <1>3 DEF TypeOK
<1>7. InventoryFirst'
  BY <1>1, <1>2, <1>3, <1>4 DEF InventoryFirst, TypeOK
<1>8. JobSound(j)'
  <2>1. \A q \in Product : /\ inventory[q] = j => inventory'[q] = j
                           /\ product[q] = j => product'[q] = j
    BY <1>1, <1>2 DEF TypeOK
  <2>2. \A q \in Product : delta'[j][q] = delta[j][q] + Move(Current(j), q)
    BY <1>1, <1>2, <1>3 DEF Move, TypeOK
  <2>3. inventory'[Current(j).product] = j
    BY <1>5 DEF p
  <2>4. /\ conflict'[j] = conflict[j] /\ outcome'[j] = outcome[j]
        /\ stock' = stock /\ catalog' = catalog
    BY <1>1
  <2>5. QED
    BY <1>1, <1>5, <2>1, <2>2, <2>3, <2>4, Advance
<1>9. ASSUME NEW i \in Job \ {j} PROVE Same(i)
  <2>1. i # None
    BY JobsAssumption
  <2>2. QED
    BY <1>1, <1>2, <1>4, <2>1 DEF Same, TypeOK
<1>10. QED
  BY <1>6, <1>7, <1>8, <1>9, OneMoves

LEMMA InsertReferenceInductive ==
    ASSUME Inductive, NEW j \in Job, InsertReference(j) PROVE Inductive'
<1> DEFINE p == Current(j).product
<1>1. /\ Is(j, "share") /\ shared' = [shared EXCEPT ![p] = @ \cup {j}]
      /\ step' = [step EXCEPT ![j] = step[j] + 1]
      /\ UNCHANGED <<conflict, inventory, product, delta, stock, catalog, outcome>>
  BY DEF InsertReference, Continue
<1>2. TypeOK /\ InventoryFirst
  BY DEF Inductive
<1>3. p \in Product /\ Current(j).op = "share"
  BY <1>1, CurrentFacts
<1> HIDE DEF p
<1>4. step'[j] = step[j] + 1
  BY <1>1, <1>2 DEF TypeOK
<1>5. TypeOK' /\ InventoryFirst'
  BY <1>1, <1>2, <1>3 DEF TypeOK, InventoryFirst
<1>6. JobSound(j)'
  <2>1. \A q \in Product : delta'[j][q] = delta[j][q] + Move(Current(j), q)
    BY <1>1, <1>2, <1>3 DEF Move, TypeOK
  <2>2. /\ conflict'[j] = conflict[j] /\ outcome'[j] = outcome[j]
        /\ stock' = stock /\ catalog' = catalog
        /\ \A q \in Product : /\ inventory[q] = j => inventory'[q] = j
                              /\ product[q] = j => product'[q] = j
    BY <1>1
  <2>3. QED
    BY <1>1, <1>4, <2>1, <2>2, Advance
<1>7. ASSUME NEW i \in Job \ {j} PROVE Same(i)
  BY <1>1, <1>2 DEF Same, TypeOK
<1>8. QED
  BY <1>5, <1>6, <1>7, OneMoves

LEMMA UpdateInventoryInductive ==
    ASSUME Inductive, NEW j \in Job, UpdateInventory(j) PROVE Inductive'
<1> DEFINE p == Current(j).product
           n == Current(j).quantity
<1>1. /\ Is(j, "update") /\ Blockers(j) = {} /\ inventory' = [inventory EXCEPT ![p] = j]
      /\ delta' = [delta EXCEPT ![j][p] = @ + n]
      /\ step' = [step EXCEPT ![j] = step[j] + 1]
      /\ UNCHANGED <<conflict, product, shared, stock, catalog, outcome>>
  BY DEF UpdateInventory, Continue
<1>2. TypeOK /\ InventoryFirst
  BY DEF Inductive
<1>3. p \in Product /\ n \in Int /\ Current(j).op = "update"
  BY <1>1, CurrentFacts
<1>4. inventory[p] \in {j, None}
  BY <1>1, <1>3 DEF Blockers, Is
<1>5. \A q \in Product : Move(Current(j), q) = IF q = p THEN n ELSE 0
  BY <1>3 DEF Move
<1> HIDE DEF p, n
<1>6. step'[j] = step[j] + 1 /\ inventory'[p] = j
  BY <1>1, <1>2, <1>3 DEF TypeOK
<1>7. \A q \in Product : delta'[j][q] = delta[j][q] + Move(Current(j), q)
  BY <1>1, <1>2, <1>3, <1>5 DEF TypeOK
<1>8. TypeOK'
  BY <1>1, <1>2, <1>3 DEF TypeOK
<1>9. InventoryFirst'
  BY <1>1, <1>2, <1>3, <1>4 DEF InventoryFirst, TypeOK
<1>10. JobSound(j)'
  <2>1. \A q \in Product : /\ inventory[q] = j => inventory'[q] = j
                           /\ product[q] = j => product'[q] = j
    BY <1>1, <1>2 DEF TypeOK
  <2>2. inventory'[Current(j).product] = j
    BY <1>6 DEF p
  <2>3. /\ conflict'[j] = conflict[j] /\ outcome'[j] = outcome[j]
        /\ stock' = stock /\ catalog' = catalog
    BY <1>1
  <2>4. QED
    BY <1>1, <1>6, <1>7, <2>1, <2>2, <2>3, Advance
<1>11. ASSUME NEW i \in Job \ {j} PROVE Same(i)
  <2>1. i # None
    BY JobsAssumption
  <2>2. QED
    BY <1>1, <1>2, <1>4, <2>1 DEF Same, TypeOK
<1>12. QED
  BY <1>8, <1>9, <1>10, <1>11, OneMoves

(* A sale that finds a line in conflict goes to its detail rows.            *)
LEMMA ConflictSound ==
    ASSUME Inductive, NEW j \in Job, Kind[j] = "sale", ~conflict[j], outcome[j] = "open",
           step[j] \in 1 .. 2 * Len(New[j]), Conflict(j), UNCHANGED <<delta, outcome>>,
           \E k \in DOMAIN New[j] : NotSellable(j, New[j][k])'
    PROVE  JobSound(j)' /\ step' \in [Job -> Nat] /\ conflict' \in [Job -> BOOLEAN]
<1>1. TypeOK /\ JobSound(j)
  BY DEF Inductive
<1>2. Len(New[j]) \in Nat /\ Len(Script[j]) = 5 * Len(New[j]) /\ Len(Script[j]) \in Nat
  BY SaleScript, ScriptFacts
<1>3. /\ DetailsOf(j) = 2 * Len(New[j]) + 1 /\ DetailsOf(j) - 1 = 2 * Len(New[j])
      /\ DetailsOf(j) <= Len(Script[j]) + 1 /\ DetailsOf(j) > 1 /\ DetailsOf(j) \in Nat
      /\ DetailsOf(j) \in DetailsOf(j) .. 3 * Len(New[j]) + 1
      /\ 2 * Len(New[j]) \in 0 .. Len(Script[j])
  BY <1>2 DEF DetailsOf
<1>4. step'[j] = DetailsOf(j) /\ conflict'[j] = TRUE
  BY <1>1 DEF Conflict, TypeOK
<1>5. step' \in [Job -> Nat] /\ conflict' \in [Job -> BOOLEAN]
  BY <1>1, <1>3 DEF Conflict, TypeOK
<1>6. Position(j)'
  BY <1>3, <1>4 DEF Position
<1>7. ASSUME NEW i \in 1 .. 2 * Len(New[j]) PROVE Script[j][i].op # "update"
  <2>1. i \in 1 .. 3 * Len(New[j])
    BY <1>2
  <2>2. QED
    BY <2>1, DeductionsLast
<1>8. Moved(j)'
  <2>1. SUFFICES ASSUME NEW r \in Product
                 PROVE  delta[j][r] = SumTo(Moves(Script[j], r), 2 * Len(New[j]))
    BY <1>3, <1>4 DEF Moved
  <2>2. Script[j] \in Seq(Statements)
    BY ScriptFacts
  <2>3. SumTo(Moves(Script[j], r), 2 * Len(New[j])) = 0
    BY <1>3, <1>7, <2>2, StillTotal
  <2> DEFINE m == step[j] - 1
  <2>4. /\ m \in 0 .. Len(Script[j]) /\ step[j] # 0
        /\ \A i \in 1 .. m : i \in 1 .. 2 * Len(New[j])
    BY <1>2
  <2>5. delta[j][r] = SumTo(Moves(Script[j], r), m)
    BY <1>1, <2>4 DEF JobSound, Moved
  <2> HIDE DEF m
  <2>6. SumTo(Moves(Script[j], r), m) = 0
    BY <1>7, <2>2, <2>4, StillTotal
  <2>7. QED
    BY <2>3, <2>5, <2>6
<1>9. Behind(j)'
  BY <1>4 DEF Behind
<1>10. Parking(j)'
  BY <1>3, <1>4 DEF Parking, DetailsOf
<1>11. QED
  BY <1>5, <1>6, <1>8, <1>9, <1>10 DEF JobSound

LEMMA FindNoRowInductive ==
    ASSUME Inductive, NEW j \in Job, FindNoRow(j) PROVE Inductive'
<1> DEFINE p == Current(j).product
<1>1. /\ Is(j, "lock") /\ ~Known(p) /\ Conflict(j)
      /\ UNCHANGED <<inventory, product, shared, delta, stock, catalog, outcome>>
  BY DEF FindNoRow, lockVars
<1>2. TypeOK /\ InventoryFirst
  BY DEF Inductive
<1>3. /\ p \in Product /\ Current(j).op = "lock" /\ step[j] \in 1 .. Len(Script[j])
      /\ outcome[j] = "open" /\ Current(j) = Script[j][step[j]] /\ ~conflict[j]
  BY <1>1, CurrentFacts
<1>4. /\ Kind[j] = "sale" /\ step[j] <= 2 * Len(New[j])
      /\ \E k \in DOMAIN New[j] : New[j][k].product = p
  BY <1>3, LockFacts
<1>5. step[j] \in 1 .. 2 * Len(New[j])
  BY <1>3, <1>4, SaleScript
<1>6. \E k \in DOMAIN New[j] : NotSellable(j, New[j][k])'
  BY <1>1, <1>4 DEF NotSellable, Known
<1> HIDE DEF p
<1>7. JobSound(j)' /\ step' \in [Job -> Nat] /\ conflict' \in [Job -> BOOLEAN]
  BY <1>1, <1>3, <1>4, <1>5, <1>6, ConflictSound
<1>8. TypeOK' /\ InventoryFirst'
  BY <1>1, <1>2, <1>7 DEF TypeOK, InventoryFirst
<1>9. ASSUME NEW i \in Job \ {j} PROVE Same(i)
  BY <1>1, <1>2 DEF Same, TypeOK, Conflict
<1>10. QED
  BY <1>7, <1>8, <1>9, OneMoves

LEMMA CheckStockInductive ==
    ASSUME Inductive, NEW j \in Job, CheckStock(j) PROVE Inductive'
<1> DEFINE p == Current(j).product
           q == Current(j).quantity
<1>1. /\ Is(j, "read") /\ Blockers(j) = {}
      /\ product' = [product EXCEPT ![p] = j]
      /\ Compare(j)
      /\ UNCHANGED <<inventory, shared, delta, stock, catalog, outcome>>
  BY DEF CheckStock
<1>2. TypeOK /\ InventoryFirst /\ JobSound(j)
  BY DEF Inductive
<1>3. /\ p \in Product /\ q \in Int /\ Current(j).op = "read"
      /\ step[j] \in 1 .. Len(Script[j]) /\ outcome[j] = "open"
      /\ Current(j) = Script[j][step[j]]
      /\ ~conflict[j]
  BY <1>1, CurrentFacts
<1>4. /\ Kind[j] = "sale" /\ step[j] - 1 \in 1 .. Len(Script[j])
      /\ step[j] <= 2 * Len(New[j])
      /\ Script[j][step[j] - 1].op = "lock" /\ Script[j][step[j] - 1].product = p
      /\ \E k \in DOMAIN New[j] : New[j][k].product = p /\ New[j][k].quantity = q
  BY <1>3, ReadFacts
<1>5. Len(New[j]) \in Nat /\ Len(Script[j]) = 5 * Len(New[j]) /\ Len(Script[j]) \in Nat
  BY <1>4, SaleScript, ScriptFacts
<1>6. inventory[p] = j
  <2>1. step[j] - 1 \in 1 .. step[j] - 1
    BY <1>4, <1>5
  <2>2. Script[j][step[j] - 1].op # "share" =>
           inventory[Script[j][step[j] - 1].product] = j
    BY <1>2, <1>3, <2>1 DEF JobSound, Behind
  <2>3. QED
    BY <1>4, <2>2
<1>7. Covered(j) <=> Sellable(Current(j))
  BY DEF Covered, Sellable
<1>8. product[p] \in {None, j}
  BY <1>2, <1>3, <1>6 DEF InventoryFirst
<1> HIDE DEF p, q
<1>9. product'[p] = j /\ product' \in [Product -> Job \cup {None}]
  BY <1>1, <1>2, <1>3 DEF TypeOK
<1>10. InventoryFirst'
  BY <1>1, <1>2, <1>3, <1>6 DEF InventoryFirst, TypeOK
<1>11. ASSUME NEW i \in Job \ {j} PROVE Same(i)
  <2>1. i # None
    BY JobsAssumption
  <2>2. step'[i] = step[i] /\ conflict'[i] = conflict[i]
    BY <1>1, <1>2 DEF TypeOK, Compare, Continue, Conflict
  <2>3. \A r \in Product : product'[r] = i <=> product[r] = i
    BY <1>1, <1>2, <1>8, <2>1 DEF TypeOK
  <2>4. QED
    BY <1>1, <2>2, <2>3 DEF Same
<1>12. CASE Covered(j)
  <2>1. step' = [step EXCEPT ![j] = step[j] + 1] /\ conflict' = conflict
    BY <1>1, <1>12 DEF Compare, Continue
  <2>2. step'[j] = step[j] + 1 /\ step' \in [Job -> Nat] /\ conflict' \in [Job -> BOOLEAN]
    BY <1>2, <2>1 DEF TypeOK
  <2>3. \A r \in Product : delta'[j][r] = delta[j][r] + Move(Current(j), r)
    BY <1>1, <1>2, <1>3 DEF Move, TypeOK
  <2>4. /\ outcome'[j] = outcome[j] /\ stock' = stock /\ catalog' = catalog
        /\ conflict'[j] = conflict[j]
        /\ inventory'[Current(j).product] = j /\ product'[Current(j).product] = j
    BY <1>1, <1>6, <1>9, <2>1 DEF p
  <2>5. \A r \in Product : /\ inventory[r] = j => inventory'[r] = j
                           /\ product[r] = j => product'[r] = j
    BY <1>1, <1>2 DEF TypeOK
  <2>6. Sellable(Current(j))
    BY <1>7, <1>12
  <2>7. JobSound(j)'
    BY <1>1, <2>2, <2>3, <2>4, <2>5, <2>6, Advance
  <2>8. TypeOK'
    BY <1>1, <1>2, <1>9, <2>2 DEF TypeOK
  <2>9. QED
    BY <1>10, <1>11, <2>7, <2>8, OneMoves
<1>13. CASE ~Covered(j)
  <2>1. Conflict(j)
    BY <1>1, <1>13 DEF Compare
  <2>2. PICK k \in DOMAIN New[j] : New[j][k].product = p /\ New[j][k].quantity = q
    BY <1>4
  <2>3. ~(catalog[p] = "active" /\ stock[p] >= q)
    BY <1>13 DEF Covered, p, q
  <2>4. NotSellable(j, New[j][k])'
    BY <1>1, <1>6, <1>9, <2>2, <2>3 DEF NotSellable, Sellable
  <2>5. step[j] \in 1 .. 2 * Len(New[j])
    BY <1>3, <1>4, <1>5
  <2>6. JobSound(j)' /\ step' \in [Job -> Nat] /\ conflict' \in [Job -> BOOLEAN]
    BY <1>1, <1>3, <1>4, <2>1, <2>4, <2>5, ConflictSound
  <2>7. TypeOK'
    BY <1>1, <1>2, <1>9, <2>6 DEF TypeOK
  <2>8. QED
    BY <1>10, <1>11, <2>6, <2>7, OneMoves
<1>14. QED
  BY <1>12, <1>13

-----------------------------------------------------------------------------
(* So do the ends of a job.  What it has not committed concerns only rows   *)
(* it holds.                                                                *)

LEMMA NothingElse ==
    ASSUME Inductive, NEW j \in Job, NEW p \in Product, inventory[p] # j
    PROVE  delta[j][p] = 0
<1> DEFINE n == step[j] - 1
<1>1. TypeOK /\ JobSound(j)
  BY DEF Inductive
<1>2. /\ step[j] \in Nat /\ Len(Script[j]) \in Nat /\ step[j] <= Len(Script[j]) + 1
      /\ Script[j] \in Seq(Statements)
  BY <1>1, ScriptFacts DEF TypeOK, JobSound, Position
<1>3. CASE step[j] = 0
  BY <1>1, <1>3 DEF JobSound, Moved
<1>4. CASE step[j] # 0
  <2>1. n \in 0 .. Len(Script[j])
    BY <1>2, <1>4
  <2>2. delta[j][p] = SumTo(Moves(Script[j], p), n)
    BY <1>1, <1>4 DEF JobSound, Moved
  <2>3. CASE conflict[j]
    <3>1. Kind[j] = "sale" /\ step[j] \in DetailsOf(j) .. 3 * Len(New[j]) + 1
      BY <1>1, <2>3 DEF JobSound, Parking
    <3>2. Len(New[j]) \in Nat
      BY <3>1, SaleScript
    <3>3. \A i \in 1 .. n : i \in 1 .. 3 * Len(New[j])
      BY <1>2, <3>1, <3>2 DEF DetailsOf
    <3>4. \A i \in 1 .. 3 * Len(New[j]) : Script[j][i].op # "update"
      BY <3>1, DeductionsLast
    <3> HIDE DEF n
    <3>5. SumTo(Moves(Script[j], p), n) = 0
      BY <1>2, <2>1, <3>3, <3>4, StillTotal
    <3>6. QED
      BY <2>2, <3>5
  <2>4. CASE ~conflict[j]
    <3>1. ASSUME NEW i \in 1 .. n PROVE Moves(Script[j], p)[i] = 0
      <4>1. i \in 1 .. step[j] - 1 /\ i \in 1 .. Len(Script[j])
        BY <1>2, <2>1
      <4>2. Script[j][i].op # "share" => inventory[Script[j][i].product] = j
        BY <1>1, <2>4, <4>1 DEF JobSound, Behind
      <4>3. ~(Script[j][i].op = "update" /\ Script[j][i].product = p)
        BY <4>2
      <4>4. Moves(Script[j], p)[i] =
               IF Script[j][i].op = "update" /\ Script[j][i].product = p
               THEN Script[j][i].quantity ELSE 0
        BY <1>2, <4>1, MovesTyped
      <4>5. QED
        BY <4>3, <4>4
    <3> HIDE DEF n
    <3>2. n \in Nat
      BY <1>2, <2>1
    <3>3. SumTo(Moves(Script[j], p), n) = 0
      BY <3>1, <3>2, SumToZero
    <3>4. QED
      BY <2>2, <3>3
  <2>5. QED
    BY <2>3, <2>4
<1>5. QED
  BY <1>3, <1>4

LEMMA EndInductive ==
    ASSUME Inductive, NEW j \in Job, NEW how \in Outcomes \ {"open"}, End(j, how),
           stock' \in [Product -> Int], catalog' = catalog,
           \A p \in Product : inventory[p] # j => stock'[p] = stock[p]
    PROVE  Inductive'
<1>1. /\ outcome' = [outcome EXCEPT ![j] = how]
      /\ step' = [step EXCEPT ![j] = 0]
      /\ conflict' = [conflict EXCEPT ![j] = FALSE]
      /\ inventory' = [p \in Product |-> IF inventory[p] = j THEN None ELSE inventory[p]]
      /\ product' = [p \in Product |-> IF product[p] = j THEN None ELSE product[p]]
      /\ shared' = [p \in Product |-> shared[p] \ {j}]
      /\ delta' = [delta EXCEPT ![j] = [p \in Product |-> 0]]
  BY DEF End, Release
<1>2. TypeOK /\ InventoryFirst
  BY DEF Inductive
<1>3. None \notin Job
  BY JobsAssumption
<1>4. TypeOK'
  <2>1. /\ inventory' \in [Product -> Job \cup {None}]
        /\ product' \in [Product -> Job \cup {None}]
        /\ shared' \in [Product -> SUBSET Job]
    BY <1>1, <1>2 DEF TypeOK
  <2>2. /\ step' \in [Job -> Nat] /\ conflict' \in [Job -> BOOLEAN]
        /\ outcome' \in [Job -> Outcomes]
    BY <1>1, <1>2 DEF TypeOK
  <2>3. delta' \in [Job -> [Product -> Int]]
    BY <1>1, <1>2 DEF TypeOK
  <2>4. catalog' \in [Product -> {"active", "inactive", "none"}]
    BY <1>2 DEF TypeOK
  <2>5. QED
    BY <2>1, <2>2, <2>3, <2>4 DEF TypeOK
<1>5. InventoryFirst'
  BY <1>1, <1>2, <1>3 DEF InventoryFirst, TypeOK
<1>6. JobSound(j)'
  <2>1. step'[j] = 0 /\ conflict'[j] = FALSE /\ Len(Script[j]) \in Nat
    BY <1>1, <1>2, ScriptFacts DEF TypeOK
  <2>2. \A p \in Product : inventory'[p] # j /\ j \notin shared'[p] /\ delta'[j][p] = 0
    BY <1>1, <1>2, <1>3 DEF TypeOK
  <2>3. QED
    BY <2>1, <2>2 DEF JobSound, Position, Moved, Behind, Parking
<1>7. ASSUME NEW i \in Job \ {j} PROVE Same(i)
  BY <1>1, <1>2, <1>3 DEF Same, TypeOK
<1>8. QED
  BY <1>4, <1>5, <1>6, <1>7, OneMoves

LEMMA CommitInductive ==
    ASSUME Inductive, NEW j \in Job, Commit(j) PROVE Inductive'
<1>1. /\ stock' = [p \in Product |-> stock[p] + delta[j][p]]
      /\ \E how \in {"parked", "committed"} : End(j, how)
      /\ catalog' = catalog
  BY DEF Commit
<1>2. PICK how \in Outcomes \ {"open"} : End(j, how)
  BY <1>1 DEF Outcomes
<1>3. stock \in [Product -> Int] /\ delta[j] \in [Product -> Int]
  BY DEF Inductive, TypeOK
<1>4. stock' \in [Product -> Int]
  BY <1>1, <1>3
<1>5. ASSUME NEW p \in Product, inventory[p] # j PROVE stock'[p] = stock[p]
  BY <1>1, <1>3, <1>5, NothingElse
<1>6. QED
  BY <1>1, <1>2, <1>4, <1>5, EndInductive

LEMMA FailInductive ==
    ASSUME Inductive, NEW j \in Job, End(j, "failed"), UNCHANGED <<stock, catalog>>
    PROVE  Inductive'
<1>1. "failed" \in Outcomes \ {"open"}
  BY DEF Outcomes
<1>2. stock' \in [Product -> Int]
  BY DEF Inductive, TypeOK
<1>3. QED
  BY <1>1, <1>2, EndInductive

(* A product goes on or off sale only while nobody holds its row.           *)
LEMMA SetActiveInductive ==
    ASSUME Inductive, NEW p \in Product, SetActive(p) PROVE Inductive'
<1>1. /\ catalog[p] # "none" /\ product[p] = None
      /\ catalog' = [catalog EXCEPT ![p] =
                        IF catalog[p] = "active" THEN "inactive" ELSE "active"]
      /\ UNCHANGED <<step, conflict, inventory, product, shared, delta, stock, outcome>>
  BY DEF SetActive, lockVars, Known
<1>2. TypeOK /\ InventoryFirst
  BY DEF Inductive
<1>3. TypeOK' /\ InventoryFirst'
  BY <1>1, <1>2 DEF TypeOK, InventoryFirst
<1>4. ASSUME NEW i \in Job PROVE JobSound(i)'
  <2>1. i # None
    BY JobsAssumption
  <2>2. Same(i)
    BY <1>1, <1>2, <2>1 DEF Same, TypeOK
  <2>3. QED
    BY <1>2, <2>2, SameKeeps DEF Inductive
<1>5. QED
  BY <1>3, <1>4 DEF Inductive

LEMMA NextInductive == Inductive /\ [Next]_vars => Inductive'
<1> SUFFICES ASSUME Inductive, [Next]_vars PROVE Inductive'
  OBVIOUS
<1>1. CASE UNCHANGED vars
  <2>1. /\ TypeOK' /\ InventoryFirst' /\ \A j \in Job : Same(j)
    BY <1>1 DEF vars, lockVars, Inductive, TypeOK, InventoryFirst, Same
  <2>2. QED
    BY <2>1, SameKeeps DEF Inductive
<1>2. CASE \E j \in Job : Step(j) \/ TransactionTimeout(j)
  <2>1. PICK j \in Job : Step(j) \/ TransactionTimeout(j)
    BY <1>2
  <2>2. CASE Begin(j)
    BY <2>2, BeginInductive
  <2>3. CASE Refuse(j)
    BY <2>3, RefuseInductive
  <2>4. CASE LockInventory(j)
    BY <2>4, LockInventoryInductive
  <2>5. CASE CheckStock(j)
    BY <2>5, CheckStockInductive
  <2>6. CASE InsertReference(j)
    BY <2>6, InsertReferenceInductive
  <2>7. CASE UpdateInventory(j)
    BY <2>7, UpdateInventoryInductive
  <2>8. CASE Commit(j)
    BY <2>8, CommitInductive
  <2>9. CASE DeadlockVictim(j)
    BY <2>9, FailInductive DEF DeadlockVictim
  <2>10. CASE TransactionTimeout(j)
    BY <2>10, FailInductive DEF TransactionTimeout
  <2>11. CASE FindNoRow(j)
    BY <2>11, FindNoRowInductive
  <2>12. CASE RejectReference(j)
    BY <2>12, FailInductive DEF RejectReference
  <2>13. QED
    BY <2>1, <2>2, <2>3, <2>4, <2>5, <2>6, <2>7, <2>8, <2>9, <2>10, <2>11, <2>12 DEF Step
<1>3. CASE \E p \in Product : SetActive(p)
  BY <1>3, SetActiveInductive
<1>4. CASE Terminating
  BY <1>1, <1>4 DEF Terminating
<1>5. QED
  BY <1>1, <1>2, <1>3, <1>4 DEF Next

(* At every moment of a run each job is somewhere in its script with all    *)
(* its Inventory rows, what it has changed is what its statements change,   *)
(* and a line it has found on sale and covered is so still.  A sale in      *)
(* conflict has a line that is off sale or short still, or has no product.  *)
THEOREM LocksInvariant == Spec => []Inductive
<1>1. Init => Inductive
  BY InitInductive
<1>2. Inductive /\ [Next]_vars => Inductive'
  BY NextInductive
<1>3. QED
  BY <1>1, <1>2, PTL DEF Spec

-----------------------------------------------------------------------------
(* Deadlocks.                                                               *)

LEMMA NobodyWaits ==
    ASSUME Inductive, NEW j \in Job, Len(Script[j]) = 2
    PROVE  ~InDeadlock(j)
<1>1. Kind[j] # "sale"
  <2>1. ASSUME Kind[j] = "sale" PROVE FALSE
    <3>1. Len(New[j]) \in Nat /\ Len(Script[j]) = 5 * Len(New[j])
      BY <2>1, SaleScript
    <3> DEFINE n == Len(New[j])
    <3>2. n \in Nat /\ 5 * n = 2
      BY <3>1
    <3> HIDE DEF n
    <3>3. QED
      BY <3>2
  <2>2. QED
    BY <2>1
<1>2. /\ Script[j][1].op = "update" /\ Script[j][2].op = "share"
      /\ Script[j][1].product = Script[j][2].product
  BY <1>1, OtherScript
<1>3. ~conflict[j]
  BY <1>1 DEF Inductive, JobSound, Parking
<1>4. TypeOK /\ JobSound(j) /\ InventoryFirst
  BY DEF Inductive
<1> SUFFICES ASSUME InDeadlock(j) PROVE FALSE
  OBVIOUS
<1>5. PICK W \in SUBSET Job :
         /\ j \in W
         /\ \A x \in W : /\ \E y \in W : y \in Blockers(x)
                         /\ \E y \in W : x \in Blockers(y)
  BY DEF InDeadlock
<1>6. PICK y \in W : y \in Blockers(j)
  BY <1>5
<1>7. PICK x \in W : j \in Blockers(x)
  BY <1>5
<1>8. Running(j) /\ Running(x) /\ x \in Job
  BY <1>5, <1>6, <1>7 DEF Blockers
<1>9. step[j] \in {1, 2}
  <2>1. step[j] \in Nat /\ step[j] > 0 /\ step[j] <= 2
    BY <1>3, <1>4, <1>8 DEF Running, Open, LastStep, TypeOK
  <2>2. QED
    BY <2>1
<1>10. CASE step[j] = 1
  <2>1. \A p \in Product : inventory[p] # j /\ j \notin shared[p] /\ product[p] # j
    <3>1. \A p \in Product : inventory[p] # j /\ j \notin shared[p]
      BY <1>4, <1>10 DEF JobSound, Position
    <3>2. None # j
      BY JobsAssumption
    <3>3. QED
      BY <1>4, <3>1, <3>2 DEF InventoryFirst
  <2>2. Is(x, Current(x).op)
    BY <1>8 DEF Is
  <2>3. /\ Current(x).product \in Product
        /\ Current(x).op \in {"lock", "read", "update", "share"}
    <3>1. /\ step[x] \in 1 .. Len(Script[x]) /\ Current(x) = Script[x][step[x]]
          /\ Current(x).product \in Product
      BY <1>8, <2>2, CurrentFacts
    <3>2. Script[x][step[x]] \in Statements
      BY <1>8, <3>1, ScriptFacts
    <3>3. QED
      BY <3>1, <3>2 DEF Statements
  <2>4. /\ j # inventory[Current(x).product] /\ j # product[Current(x).product]
        /\ j \notin shared[Current(x).product]
    BY <2>1, <2>3
  <2>5. QED
    BY <1>7, <1>8, <2>3, <2>4 DEF Blockers
<1>11. CASE step[j] = 2
  <2> DEFINE p == Script[j][1].product
  <2>1. inventory[p] = j
    BY <1>2, <1>3, <1>4, <1>11 DEF JobSound, Behind
  <2>2. Current(j).op = "share" /\ Current(j).product = p
    BY <1>2, <1>11 DEF Current
  <2>3. y \in {product[p]} \ {j, None}
    BY <1>6, <1>8, <2>2 DEF Blockers
  <2>4. p \in Product
    BY <1>8, <2>2, CurrentFacts DEF Is
  <2>5. QED
    BY <1>4, <2>1, <2>3, <2>4 DEF InventoryFirst
<1>12. QED
  BY <1>9, <1>10, <1>11

(* A job of one UPDATE and its StockHistory row, as an adjustment is, is    *)
(* never the victim of a deadlock: at its UPDATE it holds nothing another   *)
(* could wait for, and at its history row it holds the Inventory row that   *)
(* every holder of the Product row must hold (adjustStock).                 *)
THEOREM SingleLineJobsFinish == Spec => []SingleLineNeverFails
<1>1. Inductive => SingleLineNeverFails
  BY NobodyWaits DEF SingleLineNeverFails
<1>2. QED
  BY <1>1, LocksInvariant, PTL

(* A job that has not ended and can go on: nobody keeps it from its         *)
(* statement, or it is the one PostgreSQL may pick to break a deadlock.     *)
CanGoOn(j) == outcome[j] = "open" /\ (Blockers(j) = {} \/ InDeadlock(j))

SomeoneCanGoOn ==
    (\E j \in Job : outcome[j] = "open") => \E j \in Job : CanGoOn(j)

LEMMA BlockersAreOpen ==
    ASSUME Inductive, NEW x \in Job, NEW y \in Blockers(x)
    PROVE  y \in Job /\ y # x /\ outcome[y] = "open"
<1> DEFINE p == Current(x).product
<1>1. Running(x) /\ Is(x, Current(x).op)
  BY DEF Blockers, Is
<1>2. p \in Product /\ Current(x).op \in {"lock", "read", "update", "share"}
  <2>1. /\ step[x] \in 1 .. Len(Script[x]) /\ Current(x) = Script[x][step[x]]
        /\ p \in Product
    BY <1>1, CurrentFacts
  <2>2. Script[x][step[x]] \in Statements
    BY <1>1, <2>1, ScriptFacts
  <2>3. QED
    BY <2>1, <2>2 DEF Statements
<1>3. y \in ({inventory[p], product[p]} \cup shared[p]) \ {x, None}
  BY <1>1, <1>2 DEF Blockers
<1> HIDE DEF p
<1>4. y \in Job
  BY <1>2, <1>3 DEF Inductive, TypeOK
<1>5. inventory[p] = y \/ y \in shared[p]
  BY <1>2, <1>3 DEF Inductive, InventoryFirst
<1>6. QED
  BY <1>2, <1>3, <1>4, <1>5 DEF Inductive, JobSound, Position

LEMMA NobodyIsStuck ==
    ASSUME IsFiniteSet(Job), Inductive
    PROVE  SomeoneCanGoOn
<1> SUFFICES ASSUME \E j \in Job : outcome[j] = "open", \A j \in Job : ~CanGoOn(j)
             PROVE  FALSE
  BY DEF SomeoneCanGoOn
<1> DEFINE S == {j \in Job : outcome[j] = "open"}
           Waits == {e \in S \X S : e[2] \in Blockers(e[1])}
<1>1. \A x \in S : Blockers(x) # {} /\ ~InDeadlock(x)
  BY DEF CanGoOn
<1>2. \A x \in S : \E y \in S : y # x /\ y \in Blockers(x)
  BY <1>1, BlockersAreOpen
<1>3. \A x, y \in S : <<x, y>> \in Waits <=> y \in Blockers(x)
  OBVIOUS
<1>4. S \in SUBSET Job /\ S # {}
  OBVIOUS
<1> HIDE DEF S, Waits
<1>5. AllWaitIn(S, Waits)
  BY <1>2, <1>3, <1>4 DEF AllWaitIn
<1>6. IsFiniteSet(S)
  BY <1>4, FS_Subset
<1>7. PICK W \in SUBSET S : W # {} /\ \A x \in W : /\ \E y \in W : <<x, y>> \in Waits
                                                   /\ \E y \in W : <<y, x>> \in Waits
  BY <1>5, <1>6, WaitingCycle
<1>8. PICK j \in W : TRUE
  BY <1>7
<1>9. W \in SUBSET Job /\ \A x \in W : /\ \E y \in W : y \in Blockers(x)
                                       /\ \E y \in W : x \in Blockers(y)
  BY <1>3, <1>4, <1>7
<1>10. InDeadlock(j)
  BY <1>8, <1>9 DEF InDeadlock
<1>11. QED
  BY <1>1, <1>8, <1>10

(* As long as a job has not ended, some job can go on: it waits for nobody, *)
(* or it waits in a cycle that PostgreSQL breaks.  No row lock outlives the *)
(* transaction that took it.  The liveness property EveryJobEnds rests on   *)
(* this.                                                                    *)
THEOREM LocksNeverStuck ==
    ASSUME IsFiniteSet(Job) PROVE Spec => []SomeoneCanGoOn
<1>1. Inductive => SomeoneCanGoOn
  BY NobodyIsStuck
<1>2. QED
  BY <1>1, LocksInvariant, PTL

-----------------------------------------------------------------------------
(* Every job counts as a whole.                                             *)

LEMMA LineQuantity ==
    ASSUME DistinctLines, NEW j \in Job, Kind[j] = "sale", NEW k \in DOMAIN New[j]
    PROVE  /\ New[j][k].product \in Product /\ New[j][k].quantity \in Int
           /\ New[j][k].quantity > 0
           /\ NetOf[j][New[j][k].product] = - New[j][k].quantity
<1> DEFINE p == New[j][k].product
           f == Asked(New[j], p)
           n == Len(New[j])
<1>1. New[j] \in Seq(Line) /\ Old[j] = << >> /\ New[j][k].quantity > 0
  BY JobsAssumption
<1>2. /\ n \in Nat /\ DOMAIN New[j] = 1 .. n /\ k \in 1 .. n
      /\ p \in Product /\ New[j][k].quantity \in Int
  BY <1>1, LineTyped
<1>3. /\ \A i \in 1 .. n : f[i] = IF New[j][i].product = p THEN New[j][i].quantity ELSE 0
      /\ Quantity(New[j], p) = SumTo(f, n)
  BY <1>1, AskedTyped
<1>4. \A i \in 1 .. n : i # k => New[j][i].product # p
  BY <1>2 DEF DistinctLines
<1>5. NetOf[j][p] = Quantity(<< >>, p) - Quantity(New[j], p) /\ Quantity(<< >>, p) = 0
  BY <1>1, <1>2, NoLine DEF NetOf
<1> HIDE DEF f, n
<1>6. f[k] = New[j][k].quantity /\ f[k] \in Int /\ \A i \in 1 .. n : i # k => f[i] = 0
  BY <1>2, <1>3, <1>4
<1>7. SumTo(f, n) = f[k]
  BY <1>2, <1>6, SumToSingle
<1>8. NetOf[j][p] = - New[j][k].quantity
  BY <1>2, <1>3, <1>5, <1>6, <1>7
<1>9. QED
  BY <1>1, <1>2, <1>8

LEMMA OnlyItsLines ==
    ASSUME NEW j \in Job, Kind[j] = "sale", NEW p \in Product, NetOf[j][p] # 0
    PROVE  \E k \in DOMAIN New[j] : New[j][k].product = p
<1> SUFFICES ASSUME \A k \in DOMAIN New[j] : New[j][k].product # p PROVE NetOf[j][p] = 0
  OBVIOUS
<1> DEFINE f == Asked(New[j], p)
           n == Len(New[j])
<1>1. New[j] \in Seq(Line) /\ Old[j] = << >>
  BY JobsAssumption
<1>2. n \in Nat /\ DOMAIN New[j] = 1 .. n
  BY <1>1, LineTyped
<1>3. /\ \A i \in 1 .. n : f[i] = IF New[j][i].product = p THEN New[j][i].quantity ELSE 0
      /\ Quantity(New[j], p) = SumTo(f, n)
  BY <1>1, AskedTyped
<1>4. NetOf[j][p] = Quantity(<< >>, p) - Quantity(New[j], p) /\ Quantity(<< >>, p) = 0
  BY <1>1, NoLine DEF NetOf
<1> HIDE DEF f, n
<1>5. SumTo(f, n) = 0
  BY <1>2, <1>3, SumToZero
<1>6. QED
  BY <1>3, <1>4, <1>5

(* What a job is worth when it commits.                                     *)
LEMMA CommitFacts ==
    ASSUME Inductive, NEW j \in Job, Open(j), ~Running(j), NEW p \in Product
    PROVE  delta[j][p] = IF conflict[j] THEN 0 ELSE NetOf[j][p]
<1>1. TypeOK /\ JobSound(j)
  BY DEF Inductive
<1>2. /\ step[j] \in Nat /\ step[j] # 0 /\ Len(Script[j]) \in Nat
      /\ step[j] <= Len(Script[j]) + 1 /\ Script[j] \in Seq(Statements)
  BY <1>1, ScriptFacts DEF TypeOK, JobSound, Position, Open
<1>3. delta[j][p] = SumTo(Moves(Script[j], p), step[j] - 1)
  BY <1>1, <1>2 DEF JobSound, Moved
<1>4. CASE conflict[j]
  <2>1. Kind[j] = "sale" /\ step[j] \in DetailsOf(j) .. 3 * Len(New[j]) + 1
    BY <1>1, <1>4 DEF JobSound, Parking
  <2>2. Len(New[j]) \in Nat /\ Len(Script[j]) = 5 * Len(New[j])
    BY <2>1, SaleScript
  <2> DEFINE n == step[j] - 1
  <2>3. n \in 0 .. Len(Script[j]) /\ \A i \in 1 .. n : i \in 1 .. 3 * Len(New[j])
    BY <1>2, <2>1, <2>2 DEF DetailsOf
  <2>4. \A i \in 1 .. 3 * Len(New[j]) : Script[j][i].op # "update"
    BY <2>1, DeductionsLast
  <2>5. delta[j][p] = SumTo(Moves(Script[j], p), n)
    BY <1>3
  <2> HIDE DEF n
  <2>6. SumTo(Moves(Script[j], p), n) = 0
    BY <1>2, <2>3, <2>4, StillTotal
  <2>7. QED
    BY <1>4, <2>5, <2>6
<1>5. CASE ~conflict[j]
  <2>1. step[j] - 1 = Len(Script[j])
    BY <1>2, <1>5 DEF Open, Running, LastStep
  <2>2. SumTo(Moves(Script[j], p), Len(Script[j])) = NetOf[j][p]
    BY ScriptFacts
  <2>3. QED
    BY <1>3, <1>5, <2>1, <2>2
<1>6. QED
  BY <1>4, <1>5

LEMMA CommitBooks ==
    ASSUME DistinctLines, Inductive, NEW j \in Job, Commit(j)
    PROVE  Book!Move(j) \/ Book!Park(j)
<1>1. /\ Open(j) /\ ~Running(j) /\ outcome[j] = "open"
      /\ stock' = [p \in Product |-> stock[p] + delta[j][p]]
      /\ outcome' = [outcome EXCEPT ![j] = IF conflict[j] THEN "parked" ELSE "committed"]
      /\ catalog' = catalog
  BY DEF Commit, End, Open
<1>2. TypeOK /\ JobSound(j)
  BY DEF Inductive
<1>3. \A p \in Product : /\ delta[j][p] = IF conflict[j] THEN 0 ELSE NetOf[j][p]
                         /\ stock[p] \in Int
  BY <1>1, <1>2, CommitFacts DEF TypeOK
<1>4. CASE conflict[j]
  <2>1. PICK k \in DOMAIN New[j] : NotSellable(j, New[j][k])
    BY <1>2, <1>4 DEF JobSound, Parking
  <2>2. Kind[j] = "sale"
    BY <1>2, <1>4 DEF JobSound, Parking
  <2> DEFINE p == New[j][k].product
             q == New[j][k].quantity
  <2>3. p \in Product /\ q \in Int /\ q > 0 /\ NetOf[j][p] = - q
    BY <2>2, LineQuantity
  <2>4. ~(catalog[p] = "active" /\ stock[p] >= q)
    BY <2>1 DEF NotSellable, Sellable, Known
  <2> HIDE DEF p, q
  <2>5. NetOf[j][p] < 0 /\ ~(catalog[p] = "active" /\ stock[p] + NetOf[j][p] >= 0)
    BY <1>3, <2>3, <2>4
  <2>6. ~Book!Covered(j)
    BY <2>3, <2>5 DEF Book!Covered
  <2>7. stock' = stock
    BY <1>1, <1>2, <1>3, <1>4 DEF TypeOK
  <2>8. Book!End(j, "parked")
    BY <1>1, <1>4 DEF Book!End
  <2>9. QED
    BY <2>2, <2>6, <2>7, <2>8 DEF Book!Park
<1>5. CASE ~conflict[j]
  <2>1. ASSUME Kind[j] = "sale", NEW p \in Product, NetOf[j][p] < 0
        PROVE  catalog[p] = "active" /\ stock[p] + NetOf[j][p] >= 0
    <3>1. NetOf[j][p] # 0
      BY <2>1
    <3>2. PICK k \in DOMAIN New[j] : New[j][k].product = p
      BY <2>1, <3>1, OnlyItsLines
    <3>3. NetOf[j][p] = - New[j][k].quantity /\ New[j][k].quantity \in Int
      BY <2>1, <3>2, LineQuantity
    <3>4. New[j] \in Seq(Line) /\ Len(New[j]) \in Nat /\ Len(Script[j]) = 5 * Len(New[j])
      BY <2>1, SaleScript
    <3>5. k \in 1 .. Len(New[j])
      BY <3>4, LineTyped
    <3>6. Script[j][2 * k] = Statement("read", New[j][k], New[j][k].quantity)
      BY <2>1, <3>5, SaleScript
    <3>7. 2 * k \in 1 .. step[j] - 1
      <4>1. step[j] \in Nat /\ step[j] > Len(Script[j])
        BY <1>1, <1>2, <1>5 DEF Open, Running, LastStep, TypeOK
      <4>2. QED
        BY <3>4, <3>5, <4>1
    <3>8. Script[j][2 * k].op = "read" => Sellable(Script[j][2 * k])
      BY <1>2, <1>5, <3>7 DEF JobSound, Behind
    <3>9. catalog[p] = "active" /\ stock[p] >= New[j][k].quantity
      BY <3>2, <3>6, <3>8 DEF Statement, Sellable
    <3>10. QED
      BY <1>3, <3>3, <3>9
  <2>2. j \in {i \in Job : Kind[i] = "sale"} => Book!Covered(j)
    BY <2>1 DEF Book!Covered
  <2>3. stock' = [p \in Product |-> stock[p] + NetOf[j][p]]
    BY <1>1, <1>3, <1>5
  <2>4. Book!End(j, "committed")
    BY <1>1, <1>5 DEF Book!End
  <2>5. QED
    BY <2>2, <2>3, <2>4 DEF Book!Move
<1>6. QED
  BY <1>4, <1>5

LEMMA FailBooks ==
    ASSUME Inductive, NEW j \in Job, outcome[j] = "open",
           outcome' = [outcome EXCEPT ![j] = "failed"], UNCHANGED <<stock, catalog>>
    PROVE  Book!Fail(j)
BY DEF Book!Fail, Book!End

LEMMA RelistBooks ==
    ASSUME Inductive, NEW p \in Product, SetActive(p) PROVE Book!Relist(p)
<1>1. /\ catalog[p] \in {"active", "inactive"} /\ catalog \in [Product -> {"active", "inactive", "none"}]
      /\ catalog' = [catalog EXCEPT ![p] =
                        IF catalog[p] = "active" THEN "inactive" ELSE "active"]
      /\ UNCHANGED <<stock, outcome>>
  BY DEF SetActive, Known, Inductive, TypeOK
<1> DEFINE On(c) == {q \in Product : c[q] = "active"}
<1>2. p \in On(catalog) => On(catalog') = On(catalog) \ {p}
  BY <1>1
<1>3. p \notin On(catalog) => On(catalog') = On(catalog) \cup {p}
  BY <1>1
<1>4. QED
  BY <1>1, <1>2, <1>3 DEF Book!Relist

LEMMA StepBooks ==
    ASSUME DistinctLines, Inductive, [Next]_vars PROVE [Book!Next]_(Book!vars)
<1>1. CASE UNCHANGED vars
  BY <1>1 DEF vars, Book!vars
<1>2. CASE \E p \in Product : SetActive(p)
  BY <1>2, RelistBooks DEF Book!Next
<1>3. CASE Terminating
  BY <1>3 DEF Terminating, vars, Book!vars
<1>4. ASSUME NEW j \in Job, Step(j) \/ TransactionTimeout(j)
      PROVE  Book!Next \/ UNCHANGED Book!vars
  <2>1. CASE Begin(j) \/ LockInventory(j) \/ FindNoRow(j) \/ CheckStock(j)
             \/ InsertReference(j) \/ UpdateInventory(j)
    BY <2>1 DEF Begin, LockInventory, FindNoRow, CheckStock, InsertReference,
       UpdateInventory, Book!vars
  <2>2. CASE Refuse(j)
    <3>1. Book!Fail(j)
      BY <2>2, FailBooks DEF Refuse
    <3>2. QED
      BY <3>1 DEF Book!Next
  <2>3. CASE Commit(j)
    BY <2>3, CommitBooks DEF Book!Next
  <2>4. CASE DeadlockVictim(j)
    <3>1. outcome[j] = "open"
      <4>1. PICK W \in SUBSET Job : j \in W /\ \A x \in W : \E y \in W : y \in Blockers(x)
        BY <2>4 DEF DeadlockVictim, InDeadlock
      <4>2. QED
        BY <4>1 DEF Blockers, Running, Open
    <3>2. Book!Fail(j)
      BY <2>4, <3>1, FailBooks DEF DeadlockVictim, End
    <3>3. QED
      BY <3>2 DEF Book!Next
  <2>5. CASE TransactionTimeout(j)
    <3>1. Book!Fail(j)
      BY <2>5, FailBooks DEF TransactionTimeout, Open, End
    <3>2. QED
      BY <3>1 DEF Book!Next
  <2>6. CASE RejectReference(j)
    <3>1. Book!Fail(j)
      BY <2>6, FailBooks DEF RejectReference, Is, Running, Open, End
    <3>2. QED
      BY <3>1 DEF Book!Next
  <2>7. QED
    BY <1>4, <2>1, <2>2, <2>3, <2>4, <2>5, <2>6 DEF Step
<1>5. QED
  BY <1>1, <1>2, <1>3, <1>4 DEF Next

(* Whatever statements of the others come in between, every sale,           *)
(* correction, resolution and adjustment moves its whole quantity at its    *)
(* commit or nothing, a sale is deducted only if its products are on sale   *)
(* and the stock covers it at that moment, and parked only if one of them   *)
(* is off sale, short or unknown.  The lines of a sale are of different     *)
(* products.                                                                *)
THEOREM LocksKeepBook ==
    ASSUME DistinctLines PROVE Spec => ImplementsStockBook
<1>1. Init => Book!Init
  BY DEF Init, Book!Init
<1>2. Inductive /\ [Next]_vars => [Book!Next]_(Book!vars)
  BY StepBooks
<1>3. Spec => []Inductive
  BY LocksInvariant
<1>4. QED
  BY <1>1, <1>2, <1>3, PTL DEF Spec, ImplementsStockBook, Book!Spec

=============================================================================
