--------------------------- MODULE CommandsProofs ---------------------------
(****************************************************************************)
(* Proofs about the downstream control plane, for any fields, aliases,      *)
(* collectors, pages, number of attempts and bounds: a field has one row to *)
(* apply, what is finished stays finished, every outcome that was committed *)
(* in order and is behind the up cursor is known to the Aggregator, and the *)
(* values that a collector writes under one name only get newer.  With one  *)
(* collector all outcomes are committed in order.                           *)
(*                                                                          *)
(* A batch is upserted, and the oldest rows are picked, by a function that  *)
(* recurses over the batch and over the table; what it computes is proved   *)
(* by induction over its argument.                                          *)
(****************************************************************************)
EXTENDS Commands, WellFoundedInduction, TLAPS

-----------------------------------------------------------------------------
(* Induction over the natural numbers, from the least element that a set   *)
(* of them has.                                                            *)

LEMMA Least == ASSUME NEW S \in SUBSET Nat, S # {} PROVE \E m \in S : \A n \in S : m <= n
<1> DEFINE R == OpToRel(<, Nat)
<1>1. IsWellFoundedOn(R, Nat)
  BY NatLessThanWellFounded
<1>2. \A a, b \in Nat : a < b => <<a, b>> \in R
  BY DEF OpToRel
<1> HIDE DEF R
<1>3. PICK m \in S : \A n \in S : ~(<<n, m>> \in R)
  BY <1>1, WFMin
<1>4. ASSUME NEW n \in S PROVE m <= n
  <2>1. m \in Nat /\ n \in Nat /\ ~(n < m)
    BY <1>2, <1>3
  <2>2. QED
    BY <2>1
<1>5. QED
  BY <1>4

LEMMA Induction == ASSUME NEW S, 0 \in S, \A n \in Nat : n \in S => n + 1 \in S PROVE Nat \subseteq S
<1> SUFFICES ASSUME Nat \ S # {} PROVE FALSE
  OBVIOUS
<1>1. PICK m \in Nat \ S : \A n \in Nat \ S : m <= n
  BY Least
<1>2. m # 0 /\ m - 1 \in Nat /\ m - 1 < m
  BY <1>1
<1>3. m - 1 \in S
  BY <1>1, <1>2
<1>4. QED
  BY <1>1, <1>2, <1>3

\* Times of rows have a greatest one.
LEMMA Greatest ==
  ASSUME NEW S \in SUBSET Int, S # {}, NEW b \in Int, \A x \in S : x <= b
  PROVE  Max(S) \in S /\ \A x \in S : x <= Max(S)
<1> DEFINE T == {n \in Nat : b - n \in S}
<1>1. T \in SUBSET Nat /\ T # {}
  <2>1. PICK x \in S : TRUE
    OBVIOUS
  <2>2. b - x \in Nat /\ b - (b - x) = x
    BY <2>1
  <2>3. QED
    BY <2>1, <2>2
<1>2. PICK m \in T : \A n \in T : m <= n
  BY <1>1, Least
<1>3. ASSUME NEW x \in S PROVE b - m \in S /\ b - m >= x
  <2>1. b - x \in Nat /\ b - (b - x) = x
    OBVIOUS
  <2>2. m <= b - x
    BY <1>2, <2>1
  <2>3. QED
    BY <1>2, <2>1, <2>2
<1>4. \E x \in S : \A y \in S : x >= y
  BY <1>3
<1>5. Max(S) \in S /\ \A y \in S : Max(S) >= y
  BY <1>4 DEF Max
<1>6. QED
  BY <1>5

-----------------------------------------------------------------------------
(* The table after a batch of commands.                                    *)

One(rs) == \A i, j \in Pending(rs) : rs[i].field = rs[j].field => i = j

\* Rows stay, their fields too; what is new or changed is pending.
Kept(rs, out) ==
  /\ out \in Seq(Row) /\ Len(rs) <= Len(out)
  /\ \A i \in DOMAIN rs : /\ out[i].field = rs[i].field /\ out[i].status = rs[i].status
                          /\ out[i].attempts = rs[i].attempts /\ out[i].at = rs[i].at
                          /\ rs[i].status # "pending" => out[i] = rs[i]
  /\ \A i \in DOMAIN out \ DOMAIN rs : out[i].status = "pending" /\ out[i].attempts = 0 /\ out[i].at = 0

\* A pending row has the value of the last command of its field.
LastWins(rs, cs, n, out) ==
  \A i \in Pending(out) :
    \/ \E k \in 1..n : /\ cs[k].field = out[i].field /\ cs[k].value = out[i].value
                       /\ \A m \in 1..n : m > k => cs[m].field # out[i].field
    \/ i \in DOMAIN rs /\ out[i] = rs[i] /\ \A m \in 1..n : cs[m].field # out[i].field

LEMMA KeptTransitive ==
  ASSUME NEW r \in Seq(Row), NEW s, NEW t, Kept(r, s), Kept(s, t) PROVE Kept(r, t)
<1>1. s \in Seq(Row) /\ t \in Seq(Row) /\ Len(r) <= Len(s) /\ Len(s) <= Len(t)
  BY DEF Kept
<1>2. DOMAIN r \subseteq DOMAIN s /\ Len(r) <= Len(t)
  BY <1>1
<1>3. ASSUME NEW i \in DOMAIN r
      PROVE  /\ t[i].field = r[i].field /\ t[i].status = r[i].status
             /\ t[i].attempts = r[i].attempts /\ t[i].at = r[i].at
             /\ r[i].status # "pending" => t[i] = r[i]
  BY <1>2 DEF Kept
<1>4. ASSUME NEW i \in DOMAIN t \ DOMAIN r
      PROVE  t[i].status = "pending" /\ t[i].attempts = 0 /\ t[i].at = 0
  BY <1>2 DEF Kept
<1>5. QED
  BY <1>1, <1>2, <1>3, <1>4 DEF Kept

LEMMA UpsertKeeps ==
  ASSUME NEW rs \in Seq(Row), NEW c \in Command
  PROVE  /\ Kept(rs, Upsert(rs, c))
         /\ One(rs) => One(Upsert(rs, c))
         /\ \A i \in Pending(Upsert(rs, c)) :
              \/ Upsert(rs, c)[i].field = c.field /\ Upsert(rs, c)[i].value = c.value
              \/ i \in DOMAIN rs /\ Upsert(rs, c)[i] = rs[i] /\ rs[i].field # c.field
<1> DEFINE same == {i \in Pending(rs) : rs[i].field = c.field}
           new  == [field |-> c.field, value |-> c.value, status |-> "pending", attempts |-> 0, at |-> 0]
           out  == Upsert(rs, c)
<1>1. \A i \in DOMAIN rs : rs[i] \in Row
  OBVIOUS
<1>2. CASE same # {}
  <2>1. out = [i \in DOMAIN rs |-> IF i \in same THEN [rs[i] EXCEPT !.value = c.value] ELSE rs[i]]
    BY <1>2 DEF Upsert
  <2>2. ASSUME NEW i \in DOMAIN rs
        PROVE  /\ out[i] \in Row /\ out[i].field = rs[i].field /\ out[i].status = rs[i].status
               /\ out[i].attempts = rs[i].attempts /\ out[i].at = rs[i].at
               /\ i \in same => out[i].value = c.value /\ rs[i].field = c.field
               /\ i \notin same => out[i] = rs[i] /\ (i \in Pending(rs) => rs[i].field # c.field)
               /\ rs[i].status # "pending" => i \notin same
    <3>1. rs[i] \in Row
      BY <1>1
    <3>2. out[i] = IF i \in same THEN [rs[i] EXCEPT !.value = c.value] ELSE rs[i]
      BY <2>1
    <3>3. QED
      BY <3>1, <3>2 DEF Row, Command, Pending
  <2>3. DOMAIN out = DOMAIN rs /\ out \in Seq(Row) /\ Len(out) = Len(rs)
    <3>1. DOMAIN rs = 1..Len(rs) /\ Len(rs) \in Nat
      OBVIOUS
    <3>2. out \in [1..Len(rs) -> Row]
      BY <2>1, <2>2, <3>1
    <3>3. QED
      BY <3>1, <3>2
  <2> HIDE DEF out, same
  <2>4. Pending(out) = Pending(rs)
    BY <2>2, <2>3 DEF Pending
  <2>5. Kept(rs, out)
    BY <2>2, <2>3 DEF Kept
  <2>6. One(rs) => One(out)
    BY <2>2, <2>4 DEF One, Pending
  <2>7. \A i \in Pending(out) : \/ out[i].field = c.field /\ out[i].value = c.value
                                \/ i \in DOMAIN rs /\ out[i] = rs[i] /\ rs[i].field # c.field
    BY <2>2, <2>4 DEF Pending
  <2>8. QED
    BY <2>5, <2>6, <2>7 DEF out
<1>3. CASE same = {}
  <2>1. out = Append(rs, new)
    BY <1>3 DEF Upsert
  <2>2. new \in Row
    BY DEF Row, Command
  <2>3. /\ out \in Seq(Row) /\ Len(out) = Len(rs) + 1 /\ Len(rs) \in Nat
        /\ \A i \in DOMAIN rs : out[i] = rs[i]
        /\ out[Len(rs) + 1] = new
    BY <2>1, <2>2
  <2> HIDE DEF out
  <2>4. DOMAIN out = DOMAIN rs \cup {Len(rs) + 1} /\ Len(rs) + 1 \notin DOMAIN rs
    BY <2>3
  <2>5. Kept(rs, out)
    BY <2>3, <2>4 DEF Kept
  <2>6. \A i \in Pending(rs) : rs[i].field # c.field
    BY <1>3
  <2>7. \A i \in Pending(out) : \/ i = Len(rs) + 1 /\ out[i].field = c.field /\ out[i].value = c.value
                                \/ i \in Pending(rs) /\ out[i] = rs[i] /\ rs[i].field # c.field
    BY <2>3, <2>4, <2>6 DEF Pending
  <2>8. One(rs) => One(out)
    BY <2>7 DEF One
  <2>9. QED
    BY <2>5, <2>7, <2>8 DEF Pending, out
<1>4. QED
  BY <1>2, <1>3

\* The tables after one command, two commands and so on are what the recursion says.
LEMMA InsertedSteps ==
  ASSUME NEW rs, NEW cs \in Seq(Command)
  PROVE  \E f : f = [k \in 0..Len(cs) |-> IF k = 0 THEN rs ELSE Upsert(f[k - 1], cs[k])]
    /\ Inserted(rs, cs) = f[Len(cs)]
<1> DEFINE A == {n \in Nat : \E f : f = [k \in 0..n |-> IF k = 0 THEN rs ELSE Upsert(f[k - 1], cs[k])]}
<1>1. 0 \in A
  <2>1. [k \in 0..0 |-> rs] = [k \in 0..0 |-> IF k = 0 THEN rs ELSE Upsert([j \in 0..0 |-> rs][k - 1], cs[k])]
    OBVIOUS
  <2>2. QED
    BY <2>1
<1>2. ASSUME NEW n \in Nat, n \in A PROVE n + 1 \in A
  <2>1. PICK f : f = [k \in 0..n |-> IF k = 0 THEN rs ELSE Upsert(f[k - 1], cs[k])]
    BY <1>2
  <2> DEFINE g == [k \in 0..(n + 1) |-> IF k = n + 1 THEN Upsert(f[n], cs[n + 1]) ELSE f[k]]
  <2>2. ASSUME NEW k \in 0..(n + 1) PROVE g[k] = IF k = 0 THEN rs ELSE Upsert(g[k - 1], cs[k])
    <3>1. CASE k = n + 1
      BY <3>1
    <3>2. CASE k # n + 1
      BY <2>1, <3>2
    <3>3. QED
      BY <3>1, <3>2
  <2>3. g = [k \in 0..(n + 1) |-> IF k = 0 THEN rs ELSE Upsert(g[k - 1], cs[k])]
    BY <2>2
  <2>4. n + 1 \in Nat
    OBVIOUS
  <2>5. QED
    BY <2>3, <2>4, Zenon
<1> HIDE DEF A
<1>3. Len(cs) \in A
  BY <1>1, <1>2, Induction
<1>4. \E f : f = [k \in 0..Len(cs) |-> IF k = 0 THEN rs ELSE Upsert(f[k - 1], cs[k])]
  BY <1>3 DEF A
<1> DEFINE h == CHOOSE f : f = [k \in 0..Len(cs) |-> IF k = 0 THEN rs ELSE Upsert(f[k - 1], cs[k])]
<1>5. h = [k \in 0..Len(cs) |-> IF k = 0 THEN rs ELSE Upsert(h[k - 1], cs[k])]
  BY <1>4, Zenon
<1>6. Inserted(rs, cs) = h[Len(cs)]
  BY Zenon DEF Inserted
<1>7. QED
  BY <1>5, <1>6

LEMMA InsertedKeeps ==
  ASSUME NEW rs \in Seq(Row), NEW cs \in Seq(Command)
  PROVE  /\ Kept(rs, Inserted(rs, cs))
         /\ One(rs) => One(Inserted(rs, cs))
         /\ LastWins(rs, cs, Len(cs), Inserted(rs, cs))
<1>1. PICK f : /\ f = [k \in 0..Len(cs) |-> IF k = 0 THEN rs ELSE Upsert(f[k - 1], cs[k])]
               /\ Inserted(rs, cs) = f[Len(cs)]
  BY InsertedSteps
<1> DEFINE B == {n \in Nat : n <= Len(cs) => /\ Kept(rs, f[n]) /\ (One(rs) => One(f[n])) /\ LastWins(rs, cs, n, f[n])}
<1>2. 0 \in B
  <2>1. f[0] = rs
    BY <1>1
  <2>2. Kept(rs, rs)
    BY DEF Kept
  <2>3. LastWins(rs, cs, 0, rs)
    BY DEF LastWins, Pending
  <2>4. QED
    BY <2>1, <2>2, <2>3
<1>3. ASSUME NEW n \in Nat, n \in B PROVE n + 1 \in B
  <2> SUFFICES ASSUME n + 1 <= Len(cs)
               PROVE  /\ Kept(rs, f[n + 1]) /\ (One(rs) => One(f[n + 1])) /\ LastWins(rs, cs, n + 1, f[n + 1])
    OBVIOUS
  <2>1. n + 1 \in 0..Len(cs) /\ n + 1 # 0 /\ n + 1 - 1 = n /\ n <= Len(cs) /\ n + 1 \in DOMAIN cs
    OBVIOUS
  <2>2. PICK s, c : s = f[n] /\ c = cs[n + 1]
    OBVIOUS
  <2>3. f[n + 1] = Upsert(s, c)
    BY <1>1, <2>1, <2>2
  <2>4. Kept(rs, s) /\ (One(rs) => One(s)) /\ LastWins(rs, cs, n, s)
    BY <1>3, <2>1, <2>2
  <2>5. c \in Command /\ s \in Seq(Row)
    BY <2>1, <2>2, <2>4 DEF Kept
  <2>6. PICK t : t = Upsert(s, c)
    OBVIOUS
  <2>7. /\ Kept(s, t) /\ (One(s) => One(t))
        /\ \A i \in Pending(t) : \/ t[i].field = c.field /\ t[i].value = c.value
                                 \/ i \in DOMAIN s /\ t[i] = s[i] /\ s[i].field # c.field
    BY <2>5, <2>6, UpsertKeeps
  <2>8. Kept(rs, t)
    BY <2>4, <2>5, <2>7, KeptTransitive
  <2>9. LastWins(rs, cs, n + 1, t)
    <3> SUFFICES ASSUME NEW i \in Pending(t)
                 PROVE  \/ \E k \in 1..(n + 1) : /\ cs[k].field = t[i].field /\ cs[k].value = t[i].value
                                                 /\ \A m \in 1..(n + 1) : m > k => cs[m].field # t[i].field
                        \/ i \in DOMAIN rs /\ t[i] = rs[i] /\ \A m \in 1..(n + 1) : cs[m].field # t[i].field
      BY DEF LastWins
    <3>1. CASE t[i].field = c.field /\ t[i].value = c.value
      <4>1. n + 1 \in 1..(n + 1) /\ \A m \in 1..(n + 1) : ~(m > n + 1)
        OBVIOUS
      <4>2. QED
        BY <2>2, <3>1, <4>1
    <3>2. CASE i \in DOMAIN s /\ t[i] = s[i] /\ s[i].field # c.field
      <4>1. i \in Pending(s)
        BY <3>2 DEF Pending
      <4>2. \A m \in 1..(n + 1) : m \in 1..n \/ m = n + 1
        OBVIOUS
      <4>3. cs[n + 1].field # t[i].field
        BY <2>2, <3>2
      <4>4. CASE \E k \in 1..n : /\ cs[k].field = s[i].field /\ cs[k].value = s[i].value
                                 /\ \A m \in 1..n : m > k => cs[m].field # s[i].field
        <5>1. PICK k \in 1..n : /\ cs[k].field = t[i].field /\ cs[k].value = t[i].value
                                /\ \A m \in 1..n : m > k => cs[m].field # t[i].field
          BY <3>2, <4>4
        <5>2. k \in 1..(n + 1)
          OBVIOUS
        <5>3. \A m \in 1..(n + 1) : m > k => cs[m].field # t[i].field
          BY <4>2, <4>3, <5>1
        <5>4. QED
          BY <5>1, <5>2, <5>3
      <4>5. CASE i \in DOMAIN rs /\ s[i] = rs[i] /\ \A m \in 1..n : cs[m].field # s[i].field
        BY <3>2, <4>2, <4>3, <4>5
      <4>6. QED
        BY <2>4, <4>1, <4>4, <4>5 DEF LastWins
    <3>3. QED
      BY <2>7, <3>1, <3>2
  <2>10. QED
    BY <2>3, <2>4, <2>6, <2>7, <2>8, <2>9
<1> HIDE DEF B
<1>4. Len(cs) \in B /\ Len(cs) \in Nat
  BY <1>2, <1>3, Induction
<1>5. QED
  BY <1>1, <1>4 DEF B

\* What a collector is given: rows that are pending, as they are now.
Taken(s) == \A k \in DOMAIN s : s[k].id \in Pending(rows) /\ s[k] = Order(s[k].id)

LEMMA PendingCommandsTaken ==
  ASSUME rows \in Seq(Row)
  PROVE  /\ PendingCommands \in Seq([id : DOMAIN rows, field : Fields, value : Values \ {0}])
         /\ Taken(PendingCommands)
<1> DEFINE Step(f, i) == IF i \in Pending(rows) /\ Len(f[i - 1]) < BatchLimit
                         THEN Append(f[i - 1], Order(i)) ELSE f[i - 1]
           A == {n \in Nat : \E f : f = [i \in 0..n |-> IF i = 0 THEN <<>> ELSE Step(f, i)]}
<1>1. 0 \in A
  <2>1. [k \in 0..0 |-> <<>>] = [k \in 0..0 |-> IF k = 0 THEN <<>> ELSE Step([j \in 0..0 |-> <<>>], k)]
    OBVIOUS
  <2>2. QED
    BY <2>1
<1>2. ASSUME NEW n \in Nat, n \in A PROVE n + 1 \in A
  <2>1. PICK f : f = [i \in 0..n |-> IF i = 0 THEN <<>> ELSE Step(f, i)]
    BY <1>2
  <2> DEFINE g == [i \in 0..(n + 1) |-> IF i = n + 1 THEN Step(f, n + 1) ELSE f[i]]
  <2>2. ASSUME NEW i \in 0..(n + 1) PROVE g[i] = IF i = 0 THEN <<>> ELSE Step(g, i)
    <3>1. CASE i = n + 1
      BY <3>1
    <3>2. CASE i # n + 1
      <4>1. i \in 0..n /\ g[i] = f[i]
        BY <3>2
      <4>2. CASE i = 0
        BY <2>1, <4>1, <4>2
      <4>3. CASE i # 0
        <5>1. g[i - 1] = f[i - 1]
          BY <4>1, <4>3
        <5>2. f[i] = Step(f, i)
          BY <2>1, <4>1, <4>3
        <5> HIDE DEF g
        <5>3. g[i] = Step(g, i)
          BY <4>1, <5>1, <5>2, Zenon
        <5>4. QED
          BY <4>3, <5>3
      <4>4. QED
        BY <4>2, <4>3
    <3>3. QED
      BY <3>1, <3>2
  <2>3. g = [i \in 0..(n + 1) |-> IF i = 0 THEN <<>> ELSE Step(g, i)]
    BY <2>2
  <2>4. n + 1 \in Nat
    OBVIOUS
  <2>5. QED
    BY <2>3, <2>4, Zenon
<1> HIDE DEF A
<1>3. Len(rows) \in A /\ Len(rows) \in Nat
  BY <1>1, <1>2, Induction
<1>4. \E f : f = [i \in 0..Len(rows) |-> IF i = 0 THEN <<>> ELSE Step(f, i)]
  BY <1>3 DEF A
<1> DEFINE h == CHOOSE f : f = [i \in 0..Len(rows) |-> IF i = 0 THEN <<>> ELSE Step(f, i)]
<1>5. h = [i \in 0..Len(rows) |-> IF i = 0 THEN <<>> ELSE Step(h, i)]
  BY <1>4, Zenon
<1>6. PendingCommands = h[Len(rows)]
  BY Zenon DEF PendingCommands
<1> HIDE DEF h
<1> DEFINE O == [id : DOMAIN rows, field : Fields, value : Values \ {0}]
           B == {n \in Nat : n <= Len(rows) => h[n] \in Seq(O) /\ Taken(h[n])}
<1>7. 0 \in B
  BY <1>5 DEF Taken
<1>8. ASSUME NEW n \in Nat, n \in B PROVE n + 1 \in B
  <2> SUFFICES ASSUME n + 1 <= Len(rows) PROVE h[n + 1] \in Seq(O) /\ Taken(h[n + 1])
    OBVIOUS
  <2>1. n + 1 \in 0..Len(rows) /\ n + 1 # 0 /\ n + 1 - 1 = n /\ n + 1 \in DOMAIN rows /\ n <= Len(rows)
    OBVIOUS
  <2>2. PICK s : s = h[n]
    OBVIOUS
  <2>3. s \in Seq(O) /\ Taken(s)
    BY <1>8, <2>1, <2>2
  <2>4. h[n + 1] = IF n + 1 \in Pending(rows) /\ Len(s) < BatchLimit THEN Append(s, Order(n + 1)) ELSE s
    <3>1. h[n + 1 - 1] = s
      BY <2>1, <2>2
    <3>2. h[n + 1] = Step(h, n + 1)
      BY <1>5, <2>1
    <3>3. QED
      BY <3>1, <3>2
  <2>5. CASE n + 1 \in Pending(rows) /\ Len(s) < BatchLimit
    <3>1. PICK t : t = Append(s, Order(n + 1))
      OBVIOUS
    <3>2. Order(n + 1) \in O /\ Order(n + 1).id = n + 1
      <4>1. rows[n + 1] \in Row
        BY <2>1
      <4>2. QED
        BY <2>1, <4>1 DEF Order, Row
    <3>3. t \in Seq(O) /\ \A k \in DOMAIN t : (k \in DOMAIN s /\ t[k] = s[k]) \/ t[k] = Order(n + 1)
      BY <2>3, <3>1, <3>2
    <3>4. Taken(t)
      BY <2>3, <2>5, <3>2, <3>3 DEF Taken
    <3>5. QED
      BY <2>4, <2>5, <3>1, <3>3, <3>4
  <2>6. CASE ~(n + 1 \in Pending(rows) /\ Len(s) < BatchLimit)
    BY <2>3, <2>4, <2>6
  <2>7. QED
    BY <2>5, <2>6
<1> HIDE DEF B
<1>9. Len(rows) \in B
  BY <1>3, <1>7, <1>8, Induction
<1>10. QED
  BY <1>3, <1>6, <1>9 DEF B

-----------------------------------------------------------------------------
(* The inductive invariant, for any number of collectors.                  *)

Report   == [id : DOMAIN rows, status : {"applied", "failed"}]
OrderRec == [id : DOMAIN rows, field : Fields, value : Values \ {0}]
RunRec   == [pc : {"idle", "apply", "ack", "mark"}, batch : Seq(OrderRec), ok : BOOLEAN, at : Nat]
FwdRec   == [pc : {"idle", "sent", "saveUp", "saveDown", "insert"}, since : Nat, outcomes : SUBSET Report,
             max : Nat, changes : Seq(Command), cursor : Nat]

WriteRec == [field : Fields, value : Values \ {0}, by : Edrs]

\* The forwarder holds an answer.
Answered == fwd.pc \in {"saveUp", "saveDown", "insert"}

AggregatorTyped ==
  /\ edits \in Seq(Fields) /\ Len(edits) <= MaxEdits
  /\ reported \subseteq Report

TablesTyped ==
  /\ clock \in Nat /\ downCursor \in 0..Len(edits) /\ upCursor \in 0..clock
  /\ rows \in Seq(Row) /\ \A i \in DOMAIN rows : rows[i].at <= clock
  /\ late \subseteq DOMAIN rows /\ top \in 0..clock
  /\ configEvents \subseteq Command /\ faults \in Nat

DeviceTyped ==
  /\ device \in [Oids -> Seq(WriteRec)]
  /\ asset \in [Edrs -> [Fields -> Values]]

\* The answer is the edits after "since", in order.
FwdTyped ==
  /\ fwd \in FwdRec
  /\ fwd.since <= Len(edits) /\ fwd.max <= clock /\ fwd.cursor <= Len(edits)
  /\ Answered => /\ fwd.since + Len(fwd.changes) = fwd.cursor
                 /\ \A k \in 1..Len(fwd.changes) :
                      fwd.changes[k].field = edits[fwd.since + k] /\ fwd.changes[k].value = fwd.since + k

RunTyped == \A e \in Edrs : (run[e].pc = "idle") = (run[e].batch = <<>>) /\ run[e].at <= clock

Typed == AggregatorTyped /\ TablesTyped /\ DeviceTyped /\ FwdTyped /\ run \in [Edrs -> RunRec] /\ RunTyped

TableInv == Typed /\ OnePendingPerField

LEMMA OneIs == OnePendingPerField <=> One(rows)
BY DEF OnePendingPerField, One

LEMMA IdleTyped == IdleFwd \in FwdRec /\ IdleRun \in RunRec /\ ~(IdleFwd.pc \in {"saveUp", "saveDown", "insert"})
                   /\ IdleFwd.since = 0 /\ IdleFwd.max = 0 /\ IdleFwd.cursor = 0 /\ IdleFwd.outcomes = {}
                      /\ IdleFwd.pc = "idle"
                   /\ IdleRun.pc = "idle" /\ IdleRun.batch = <<>> /\ IdleRun.at = 0
BY DEF IdleFwd, IdleRun, FwdRec, RunRec

LEMMA FaultTyped == ASSUME Typed, UNCHANGED faults \/ Fault PROVE faults' \in Nat
<1>1. faults \in Nat
  BY DEF Typed, TablesTyped
<1>2. QED
  BY <1>1 DEF Fault

LEMMA EditTable == ASSUME TableInv, NEW f \in Fields, Edit(f) PROVE TableInv'
<1>1. edits \in Seq(Fields) /\ Len(edits) \in Nat /\ MaxEdits \in Nat /\ Len(edits) < MaxEdits
        /\ edits' = Append(edits, f)
  BY CommandsAssumption DEF TableInv, Typed, AggregatorTyped, Edit
<1>2. /\ edits' \in Seq(Fields) /\ Len(edits') = Len(edits) + 1 /\ Len(edits') <= MaxEdits
      /\ \A k \in 1..Len(edits) : edits'[k] = edits[k]
  BY <1>1
<1>3. UNCHANGED <<reported, downCursor, upCursor, rows, top, late, configEvents, clock, fwd, run, device, asset, faults>>
  BY DEF Edit, cursors, table, outcomes, collector
<1>4. AggregatorTyped' /\ TablesTyped' /\ DeviceTyped'
  <2>1. AggregatorTyped' /\ DeviceTyped'
    BY <1>2, <1>3 DEF TableInv, Typed, AggregatorTyped, DeviceTyped, Report
  <2>2. downCursor' \in 0..Len(edits')
    BY <1>1, <1>2, <1>3 DEF TableInv, Typed, TablesTyped
  <2>3. QED
    BY <1>3, <2>1, <2>2 DEF TableInv, Typed, TablesTyped
<1>5. FwdTyped'
  <2>1. fwd \in FwdRec /\ fwd' = fwd /\ fwd' \in FwdRec' /\ fwd.since \in Nat /\ fwd.cursor \in Nat
          /\ Len(fwd.changes) \in Nat
    BY <1>3 DEF TableInv, Typed, FwdTyped, FwdRec, Report
  <2>2. fwd.since <= Len(edits') /\ fwd.cursor <= Len(edits') /\ fwd.max <= clock
    BY <1>1, <1>2, <2>1 DEF TableInv, Typed, FwdTyped
  <2>3. ASSUME Answered, NEW k \in 1..Len(fwd.changes)
        PROVE  fwd.changes[k].field = edits'[fwd.since + k] /\ fwd.changes[k].value = fwd.since + k
    <3>1. fwd.since + k \in 1..Len(edits)
      BY <1>1, <2>1, <2>3 DEF TableInv, Typed, FwdTyped
    <3>2. fwd.changes[k].field = edits[fwd.since + k] /\ fwd.changes[k].value = fwd.since + k
      BY <2>3 DEF TableInv, Typed, FwdTyped
    <3>3. QED
      BY <1>2, <3>1, <3>2
  <2>4. Answered => fwd.since + Len(fwd.changes) = fwd.cursor
    BY DEF TableInv, Typed, FwdTyped
  <2>5. QED
    BY <1>3, <2>1, <2>2, <2>3, <2>4 DEF FwdTyped, Answered
<1>6. run' \in [Edrs -> RunRec'] /\ RunTyped' /\ OnePendingPerField'
  BY <1>3 DEF TableInv, Typed, RunTyped, RunRec, OrderRec, OnePendingPerField
<1>7. QED
  BY <1>4, <1>5, <1>6 DEF TableInv, Typed

\* What the forwarder does without touching the edits and the commands.
LEMMA FwdOnly ==
  ASSUME TableInv, UNCHANGED <<edits, rows, top, late, configEvents, clock, run, device, asset>>, UNCHANGED faults \/ Fault,
         reported' \subseteq Report, downCursor' \in 0..Len(edits), upCursor' \in 0..clock, FwdTyped'
  PROVE  TableInv'
<1>1. faults' \in Nat
  BY FaultTyped DEF TableInv
<1>2. AggregatorTyped' /\ TablesTyped' /\ DeviceTyped'
  BY <1>1 DEF TableInv, Typed, AggregatorTyped, TablesTyped, DeviceTyped, Report
<1>3. run' \in [Edrs -> RunRec'] /\ RunTyped' /\ OnePendingPerField'
  BY DEF TableInv, Typed, RunTyped, RunRec, OrderRec, OnePendingPerField
<1>4. QED
  BY <1>2, <1>3 DEF TableInv, Typed

LEMMA IdleFwdTyped ==
  ASSUME TableInv, UNCHANGED <<edits, rows, clock>>, fwd' = IdleFwd PROVE FwdTyped'
<1>1. fwd' \in FwdRec' /\ fwd'.since = 0 /\ fwd'.max = 0 /\ fwd'.cursor = 0 /\ ~(Answered')
  <2>1. fwd' \in FwdRec /\ FwdRec' = FwdRec
    BY IdleTyped DEF FwdRec, Report
  <2>2. QED
    BY <2>1, IdleTyped DEF Answered
<1>2. Len(edits') \in Nat /\ clock' \in Nat
  BY DEF TableInv, Typed, AggregatorTyped, TablesTyped
<1>3. QED
  BY <1>1, <1>2 DEF FwdTyped

\* The outcomes a pull reports, and the time of the last of them.
LEMMA SendPullTyped ==
  ASSUME TableInv, NEW since \in 0..Len(edits), NEW done, done \subseteq {i \in DOMAIN rows : Terminal(rows[i])},
         SendPull(since, done), UNCHANGED <<edits, rows, clock>>
  PROVE  /\ FwdTyped' /\ fwd'.pc = "sent" /\ fwd'.cursor = 0
         /\ fwd'.outcomes = {[id |-> i, status |-> rows[i].status] : i \in done}
         /\ fwd'.max \in Nat /\ \A i \in done : rows[i].at <= fwd'.max
         /\ fwd'.max = 0 \/ \E i \in done : fwd'.max = rows[i].at
<1> DEFINE T == {rows[i].at : i \in done} \cup {0}
           O == {[id |-> i, status |-> rows[i].status] : i \in done}
           m == Max({rows[i].at : i \in done} \cup {0})
<1>1. \A i \in DOMAIN rows : rows[i] \in Row /\ rows[i].at \in Nat /\ rows[i].at <= clock
  <2>1. \A i \in DOMAIN rows : rows[i] \in Row /\ rows[i].at <= clock
    BY DEF TableInv, Typed, TablesTyped
  <2>2. QED
    BY <2>1 DEF Row
<1>2. clock \in Nat /\ Len(edits) \in Nat
  BY DEF TableInv, Typed, AggregatorTyped, TablesTyped
<1>3. T \in SUBSET Int /\ T # {} /\ \A x \in T : x \in Nat /\ x <= clock
  BY <1>1, <1>2
<1>4. Max(T) \in T /\ \A x \in T : x <= Max(T)
  <2> HIDE DEF T
  <2>1. clock \in Int
    BY <1>2
  <2>2. QED
    BY <1>3, <2>1, Greatest
<1>5. /\ m \in Nat /\ m <= clock /\ \A i \in done : rows[i].at <= m
      /\ m = 0 \/ \E i \in done : m = rows[i].at
  BY <1>3, <1>4
<1>6. O \in SUBSET Report
  BY <1>1 DEF Report, Terminal
<1> HIDE DEF m, O
<1>7. fwd' = [IdleFwd EXCEPT !.pc = "sent", !.since = since, !.outcomes = O, !.max = m]
  BY DEF SendPull, m, O
<1>8. /\ fwd' \in FwdRec /\ fwd'.pc = "sent" /\ fwd'.since = since /\ fwd'.outcomes = O /\ fwd'.max = m
         /\ fwd'.cursor = 0
  <2>1. fwd' = [pc |-> "sent", since |-> since, outcomes |-> O, max |-> m, changes |-> <<>>, cursor |-> 0]
    BY <1>7 DEF IdleFwd
  <2>2. since \in Nat /\ m \in Nat /\ O \in SUBSET Report /\ <<>> \in Seq(Command)
    BY <1>2, <1>5, <1>6
  <2>3. QED
    BY <2>1, <2>2 DEF FwdRec
<1>9. FwdRec' = FwdRec
  BY DEF FwdRec, Report
<1>10. FwdTyped'
  BY <1>2, <1>5, <1>8, <1>9 DEF FwdTyped, Answered
<1>11. QED
  BY <1>5, <1>8, <1>10 DEF O

LEMMA BeginPullTable == ASSUME TableInv, BeginPull \/ BeginPullUnread PROVE TableInv'
<1>1. UNCHANGED <<edits, reported, downCursor, upCursor, rows, top, late, configEvents, clock, run, device, asset>>
      /\ (UNCHANGED faults \/ Fault)
  BY DEF BeginPull, BeginPullUnread, world, cursors, table, outcomes, collector
<1>2. \E since \in 0..Len(edits) : \E done : done \subseteq {i \in DOMAIN rows : Terminal(rows[i])}
        /\ SendPull(since, done)
  <2>1. downCursor \in 0..Len(edits) /\ 0 \in 0..Len(edits)
    BY DEF TableInv, Typed, TablesTyped, AggregatorTyped
  <2>2. \A c : \A S \in CommandsUpdatedSince(c) : S \subseteq {i \in DOMAIN rows : Terminal(rows[i])}
    BY DEF CommandsUpdatedSince, Finished
  <2>3. QED
    BY <2>1, <2>2 DEF BeginPull, BeginPullUnread
<1>3. FwdTyped'
  BY <1>1, <1>2, SendPullTyped
<1>4. reported' \subseteq Report /\ downCursor' \in 0..Len(edits) /\ upCursor' \in 0..clock
  BY <1>1 DEF TableInv, Typed, AggregatorTyped, TablesTyped
<1>5. QED
  BY <1>1, <1>3, <1>4, FwdOnly

LEMMA ExchangeTable == ASSUME TableInv, Exchange PROVE TableInv'
<1> DEFINE n == Len(edits) - fwd.since
           cs == [k \in 1..n |-> [field |-> edits[fwd.since + k], value |-> fwd.since + k]]
<1>1. /\ fwd' = [fwd EXCEPT !.pc = "saveUp", !.cursor = Len(edits), !.changes = cs]
      /\ reported' = reported \cup fwd.outcomes
      /\ UNCHANGED <<edits, downCursor, upCursor, rows, top, late, configEvents, clock, run, device, asset, faults>>
  BY DEF Exchange, cursors, table, outcomes, collector
<1>2. /\ fwd \in FwdRec /\ fwd.since \in Nat /\ fwd.since <= Len(edits) /\ Len(edits) \in Nat /\ edits \in Seq(Fields)
      /\ Len(edits) <= MaxEdits /\ MaxEdits \in Nat /\ fwd.max <= clock
  BY CommandsAssumption DEF TableInv, Typed, AggregatorTyped, FwdTyped, FwdRec
<1>3. n \in Nat /\ fwd.since + n = Len(edits)
  BY <1>2
<1>4. ASSUME NEW k \in 1..n PROVE cs[k] \in Command /\ cs[k].field = edits[fwd.since + k]
        /\ cs[k].value = fwd.since + k
  <2>1. fwd.since + k \in 1..Len(edits) /\ fwd.since + k \in Values \ {0}
    BY <1>2, <1>3 DEF Values
  <2>2. edits[fwd.since + k] \in Fields
    BY <1>2, <2>1
  <2>3. QED
    BY <2>1, <2>2 DEF Command
<1>5. cs \in Seq(Command) /\ Len(cs) = n
  <2>1. DOMAIN cs = 1..n /\ cs = [k \in 1..n |-> cs[k]]
    OBVIOUS
  <2> HIDE DEF cs, n
  <2>2. cs \in [1..n -> Command]
    BY <1>4, <2>1
  <2>3. QED
    BY <1>3, <2>2
<1> HIDE DEF cs, n
<1>6. /\ fwd' \in FwdRec /\ fwd'.pc = "saveUp" /\ fwd'.since = fwd.since /\ fwd'.cursor = Len(edits)
      /\ fwd'.changes = cs /\ fwd'.max = fwd.max
  BY <1>1, <1>2, <1>5 DEF FwdRec
<1>7. FwdRec' = FwdRec
  BY <1>1 DEF FwdRec, Report
<1>8. FwdTyped'
  BY <1>1, <1>2, <1>3, <1>4, <1>5, <1>6, <1>7 DEF FwdTyped, Answered
<1>9. reported' \subseteq Report /\ downCursor' \in 0..Len(edits) /\ upCursor' \in 0..clock
  BY <1>1, <1>2 DEF TableInv, Typed, AggregatorTyped, TablesTyped, FwdRec
<1>10. QED
  BY <1>1, <1>8, <1>9, FwdOnly

LEMMA ForgetTable == ASSUME TableInv, ExchangeLost \/ HubCrash PROVE TableInv'
<1>1. /\ fwd' = IdleFwd /\ (UNCHANGED faults \/ Fault) /\ reported' \in {reported, reported \cup fwd.outcomes}
      /\ UNCHANGED <<edits, downCursor, upCursor, rows, top, late, configEvents, clock, run, device, asset>>
  BY DEF ExchangeLost, HubCrash, world, cursors, table, outcomes, collector
<1>2. FwdTyped'
  BY <1>1, IdleFwdTyped
<1>3. fwd.outcomes \subseteq Report
  BY DEF TableInv, Typed, FwdTyped, FwdRec
<1>4. reported' \subseteq Report /\ downCursor' \in 0..Len(edits) /\ upCursor' \in 0..clock
  BY <1>1, <1>3 DEF TableInv, Typed, AggregatorTyped, TablesTyped
<1>5. QED
  BY <1>1, <1>2, <1>4, FwdOnly

LEMMA SaveUpTable == ASSUME TableInv, SaveUp PROVE TableInv'
<1>1. /\ fwd' = [fwd EXCEPT !.pc = "saveDown"] /\ fwd.pc = "saveUp" /\ (UNCHANGED faults \/ Fault)
      /\ upCursor' \in {upCursor, fwd.max}
      /\ UNCHANGED <<edits, reported, downCursor, rows, top, late, configEvents, clock, run, device, asset>>
  BY DEF SaveUp, world, table, outcomes, collector
<1>2. /\ fwd \in FwdRec /\ fwd.max \in Nat
  BY DEF TableInv, Typed, FwdTyped, FwdRec
<1>3. /\ fwd' \in FwdRec /\ fwd'.pc = "saveDown" /\ fwd'.since = fwd.since /\ fwd'.cursor = fwd.cursor
      /\ fwd'.changes = fwd.changes /\ fwd'.max = fwd.max
  BY <1>1, <1>2 DEF FwdRec
<1>4. FwdRec' = FwdRec
  BY <1>1 DEF FwdRec, Report
<1>5. FwdTyped'
  BY <1>1, <1>3, <1>4 DEF TableInv, Typed, FwdTyped, Answered
<1>6. reported' \subseteq Report /\ downCursor' \in 0..Len(edits) /\ upCursor' \in 0..clock
  BY <1>1, <1>2 DEF TableInv, Typed, AggregatorTyped, TablesTyped, FwdTyped
<1>7. QED
  BY <1>1, <1>5, <1>6, FwdOnly

LEMMA SaveDownTable == ASSUME TableInv, SaveDown PROVE TableInv'
<1>1. /\ fwd' = AfterSaveDown /\ fwd.pc = "saveDown" /\ (UNCHANGED faults \/ Fault)
      /\ downCursor' \in {downCursor, fwd.cursor}
      /\ UNCHANGED <<edits, reported, upCursor, rows, top, late, configEvents, clock, run, device, asset>>
  BY DEF SaveDown, world, table, outcomes, collector
<1>2. fwd \in FwdRec /\ fwd.cursor \in 0..Len(edits)
  BY DEF TableInv, Typed, FwdTyped, FwdRec, AggregatorTyped
<1>3. FwdTyped'
  <2>1. CASE fwd.changes = <<>>
    <3>1. fwd' = IdleFwd
      BY <1>1, <2>1 DEF AfterSaveDown
    <3>2. QED
      BY <1>1, <3>1, IdleFwdTyped
  <2>2. CASE fwd.changes # <<>>
    <3>1. fwd' = [fwd EXCEPT !.pc = "insert"]
      BY <1>1, <2>2 DEF AfterSaveDown
    <3>2. /\ fwd' \in FwdRec /\ fwd'.pc = "insert" /\ fwd'.since = fwd.since /\ fwd'.cursor = fwd.cursor
          /\ fwd'.changes = fwd.changes /\ fwd'.max = fwd.max
      BY <1>2, <3>1 DEF FwdRec
    <3>3. FwdRec' = FwdRec
      BY <1>1 DEF FwdRec, Report
    <3>4. QED
      BY <1>1, <3>2, <3>3 DEF TableInv, Typed, FwdTyped, Answered
  <2>3. QED
    BY <2>1, <2>2
<1>4. reported' \subseteq Report /\ downCursor' \in 0..Len(edits) /\ upCursor' \in 0..clock
  BY <1>1, <1>2 DEF TableInv, Typed, AggregatorTyped, TablesTyped
<1>5. QED
  BY <1>1, <1>3, <1>4, FwdOnly

LEMMA InsertCommandsTable == ASSUME TableInv, InsertCommands PROVE TableInv'
<1>1. /\ fwd' = IdleFwd /\ (UNCHANGED faults \/ Fault)
      /\ UNCHANGED <<edits, reported, downCursor, upCursor, top, late, configEvents, clock, run, device, asset>>
  BY DEF InsertCommands, world, cursors, collector
<1>2. rows \in Seq(Row) /\ fwd.changes \in Seq(Command) /\ clock \in Nat
  BY DEF TableInv, Typed, TablesTyped, FwdTyped, FwdRec
<1>3. Kept(rows, rows') /\ One(rows')
  <2>1. One(rows)
    BY OneIs DEF TableInv
  <2>2. CASE rows' = Inserted(rows, fwd.changes)
    BY <1>2, <2>1, <2>2, InsertedKeeps
  <2>3. CASE UNCHANGED rows
    BY <1>2, <2>1, <2>3 DEF Kept
  <2>4. QED
    BY <2>2, <2>3 DEF InsertCommands
<1>4. rows' \in Seq(Row) /\ DOMAIN rows \subseteq DOMAIN rows'
  <2>1. rows' \in Seq(Row) /\ Len(rows) <= Len(rows')
    BY <1>3 DEF Kept
  <2>2. QED
    BY <1>2, <2>1
<1>5. \A i \in DOMAIN rows' : rows'[i].at <= clock
  <2>1. ASSUME NEW i \in DOMAIN rows' PROVE rows'[i].at <= clock
    <3>1. CASE i \in DOMAIN rows
      BY <1>3, <3>1 DEF Kept, TableInv, Typed, TablesTyped
    <3>2. CASE i \notin DOMAIN rows
      BY <1>2, <1>3, <3>2 DEF Kept
    <3>3. QED
      BY <3>1, <3>2
  <2>2. QED
    BY <2>1
<1>6. Report \subseteq Report' /\ OrderRec \subseteq OrderRec'
  BY <1>4 DEF Report, OrderRec
<1>7. AggregatorTyped' /\ TablesTyped' /\ DeviceTyped'
  <2>1. faults' \in Nat
    BY <1>1, FaultTyped DEF TableInv
  <2>2. late' \subseteq DOMAIN rows'
    BY <1>1, <1>4 DEF TableInv, Typed, TablesTyped
  <2>3. QED
    BY <1>1, <1>4, <1>5, <1>6, <2>1, <2>2 DEF TableInv, Typed, AggregatorTyped, TablesTyped, DeviceTyped
<1>8. run' \in [Edrs -> RunRec'] /\ RunTyped'
  <2>1. Seq(OrderRec) \subseteq Seq(OrderRec')
    BY <1>6
  <2>2. RunRec \subseteq RunRec'
    BY <2>1 DEF RunRec
  <2>3. run' \in [Edrs -> RunRec']
    BY <1>1, <2>2 DEF TableInv, Typed
  <2>4. QED
    BY <1>1, <2>3 DEF TableInv, Typed, RunTyped
<1>9. FwdTyped'
  <2>1. IdleFwd \in FwdRec'
    BY DEF IdleFwd, FwdRec
  <2>2. Len(edits') \in Nat /\ clock' \in Nat
    BY <1>1, <1>2 DEF TableInv, Typed, AggregatorTyped
  <2>3. QED
    BY <1>1, <2>1, <2>2, IdleTyped DEF FwdTyped, Answered
<1>10. OnePendingPerField'
  BY <1>3 DEF One, OnePendingPerField
<1>11. QED
  BY <1>7, <1>8, <1>9, <1>10 DEF TableInv, Typed

-----------------------------------------------------------------------------
(* The collectors and the table.                                           *)

\* What a collector does without finishing a row.
LEMMA RunOnly ==
  ASSUME TableInv, UNCHANGED <<edits, reported, downCursor, upCursor, rows, top, late, configEvents, fwd>>,
         UNCHANGED faults \/ Fault, clock' \in {clock, clock + 1}, DeviceTyped',
         NEW e \in Edrs, NEW r \in RunRec, run' = [run EXCEPT ![e] = r], (r.pc = "idle") = (r.batch = <<>>), r.at <= clock'
  PROVE  TableInv'
<1>1. faults' \in Nat
  BY FaultTyped DEF TableInv
<1>2. clock \in Nat /\ clock' \in Nat /\ clock <= clock'
  BY DEF TableInv, Typed, TablesTyped
<1>3. ASSUME NEW i \in DOMAIN rows PROVE rows[i].at <= clock'
  <2>1. rows[i] \in Row /\ rows[i].at <= clock
    BY DEF TableInv, Typed, TablesTyped
  <2>2. rows[i].at \in Nat
    BY <2>1 DEF Row
  <2>3. QED
    BY <1>2, <2>1, <2>2
<1>4. upCursor \in 0..clock' /\ top \in 0..clock'
  BY <1>2 DEF TableInv, Typed, TablesTyped
<1>5. AggregatorTyped' /\ TablesTyped'
  BY <1>1, <1>2, <1>3, <1>4 DEF TableInv, Typed, AggregatorTyped, TablesTyped, Report
<1>6. FwdTyped'
  <2>1. fwd \in FwdRec /\ fwd.max <= clock
    BY DEF TableInv, Typed, FwdTyped
  <2>2. fwd.max <= clock'
    BY <1>2, <2>1 DEF FwdRec
  <2>3. QED
    BY <2>1, <2>2 DEF TableInv, Typed, FwdTyped, FwdRec, Report, Answered
<1>7. RunRec' = RunRec
  BY DEF RunRec, OrderRec
<1>8. run' \in [Edrs -> RunRec']
  BY <1>7 DEF TableInv, Typed
<1>9. RunTyped' /\ OnePendingPerField'
  <2>1. ASSUME NEW d \in Edrs PROVE (run'[d].pc = "idle") = (run'[d].batch = <<>>) /\ run'[d].at <= clock'
    <3>1. CASE d = e
      <4>1. run'[d] = r
        BY <3>1 DEF TableInv, Typed
      <4>2. QED
        BY <4>1
    <3>2. CASE d # e
      <4>1. run'[d] = run[d] /\ run[d] \in RunRec
        BY <3>2 DEF TableInv, Typed
      <4>2. run[d].at \in Nat /\ run[d].at <= clock /\ (run[d].pc = "idle") = (run[d].batch = <<>>)
        BY <4>1 DEF TableInv, Typed, RunTyped, RunRec
      <4>3. QED
        BY <1>2, <4>1, <4>2
    <3>3. QED
      BY <3>1, <3>2
  <2>2. QED
    BY <2>1 DEF TableInv, RunTyped, OnePendingPerField
<1>10. QED
  BY <1>5, <1>6, <1>8, <1>9 DEF TableInv, Typed

LEMMA NextCommandTyped ==
  ASSUME NEW s \in RunRec, s.batch # <<>>
  PROVE  /\ NextCommand(s) \in RunRec /\ NextCommand(s).at = 0
            /\ (NextCommand(s).pc = "idle") = (NextCommand(s).batch = <<>>)
         /\ NextCommand(s).pc \in {"idle", "apply"}
         /\ \A k \in DOMAIN NextCommand(s).batch : \E l \in DOMAIN s.batch : NextCommand(s).batch[k] = s.batch[l]
<1>1. s.batch \in Seq(OrderRec) /\ Len(s.batch) \in Nat \ {0}
  BY DEF RunRec
<1>2. CASE Len(s.batch) = 1
  <2>1. NextCommand(s) = IdleRun
    BY <1>2 DEF NextCommand
  <2>2. DOMAIN IdleRun.batch = {}
    BY DEF IdleRun
  <2>3. QED
    BY <2>1, <2>2, IdleTyped
<1>3. CASE Len(s.batch) # 1
  <2>1. NextCommand(s) = [pc |-> "apply", batch |-> Tail(s.batch), ok |-> FALSE, at |-> 0]
    BY <1>3 DEF NextCommand, IdleRun
  <2>2. /\ Tail(s.batch) \in Seq(OrderRec) /\ Tail(s.batch) # <<>> /\ Len(Tail(s.batch)) = Len(s.batch) - 1
        /\ \A k \in 1..(Len(s.batch) - 1) : Tail(s.batch)[k] = s.batch[k + 1]
    <3>1. PICK b : b = s.batch
      OBVIOUS
    <3>2. b \in Seq(OrderRec) /\ b # <<>> /\ Len(b) \in Nat \ {0} /\ Len(b) # 1
      BY <1>1, <1>3, <3>1
    <3>3. Tail(b) \in Seq(OrderRec) /\ Len(Tail(b)) = Len(b) - 1 /\ \A k \in 1..(Len(b) - 1) : Tail(b)[k] = b[k + 1]
      BY <3>2
    <3>4. Tail(b) # <<>>
      <4>1. Len(Tail(b)) # 0
        BY <3>2, <3>3
      <4>2. Len(<<>>) = 0
        OBVIOUS
      <4>3. QED
        BY <4>1, <4>2, Zenon
    <3>5. QED
      BY <3>1, <3>3, <3>4
  <2>3. \A k \in DOMAIN Tail(s.batch) : \E l \in DOMAIN s.batch : Tail(s.batch)[k] = s.batch[l]
    <3>1. ASSUME NEW k \in DOMAIN Tail(s.batch) PROVE k + 1 \in DOMAIN s.batch /\ Tail(s.batch)[k] = s.batch[k + 1]
      BY <1>1, <2>2
    <3>2. QED
      BY <3>1
  <2>4. QED
    BY <2>1, <2>2, <2>3 DEF RunRec
<1>4. QED
  BY <1>2, <1>3

LEMMA HeadOrder ==
  ASSUME TableInv, NEW e \in Edrs, run[e].pc # "idle"
  PROVE  run[e] \in RunRec /\ run[e].batch # <<>> /\ Cmd(e) \in OrderRec /\ 1 \in DOMAIN run[e].batch
    /\ Cmd(e) = run[e].batch[1]
<1>1. run[e] \in RunRec /\ run[e].batch # <<>>
  BY DEF TableInv, Typed, RunTyped
<1>2. PICK b : b = run[e].batch
  OBVIOUS
<1>3. b \in Seq(OrderRec) /\ b # <<>>
  BY <1>1, <1>2 DEF RunRec
<1>4. Head(b) \in OrderRec /\ 1 \in DOMAIN b /\ Head(b) = b[1]
  BY <1>3
<1>5. QED
  BY <1>1, <1>2, <1>4 DEF Cmd

LEMMA PullTable == ASSUME TableInv, NEW e \in Edrs, Pull(e) PROVE TableInv'
<1>1. rows \in Seq(Row)
  BY DEF TableInv, Typed, TablesTyped
<1>2. PICK b : b = PendingCommands
  OBVIOUS
<1>3. b \in Seq(OrderRec)
  BY <1>1, <1>2, PendingCommandsTaken DEF OrderRec
<1>4. PICK r : r = [IdleRun EXCEPT !.pc = "apply", !.batch = b]
  OBVIOUS
<1>5. r = [pc |-> "apply", batch |-> b, ok |-> FALSE, at |-> 0]
  BY <1>4 DEF IdleRun
<1>6. run' = [run EXCEPT ![e] = r] /\ b # <<>>
      /\ UNCHANGED <<edits, reported, downCursor, upCursor, rows, top, late, configEvents, clock, fwd, device, asset, faults>>
  <2>1. run' = [run EXCEPT ![e] = [IdleRun EXCEPT !.pc = "apply", !.batch = b]] /\ b # <<>>
    BY <1>2 DEF Pull
  <2>2. QED
    BY <1>4, <2>1 DEF Pull, world, cursors, table, outcomes
<1>7. r \in RunRec /\ (r.pc = "idle") = (r.batch = <<>>) /\ r.at <= clock'
  BY <1>3, <1>6, <1>5 DEF RunRec, TableInv, Typed, TablesTyped
<1>8. DeviceTyped'
  BY <1>6 DEF TableInv, Typed, DeviceTyped
<1>9. clock' \in {clock, clock + 1}
  BY <1>6
<1>10. QED
  BY <1>6, <1>7, <1>8, <1>9, RunOnly

\* What a device has taken, and what a write adds.
LEMMA InWrites == ASSUME NEW w PROVE w \in Writes <=> \E o \in Oids : \E k \in DOMAIN device[o] : w = device[o][k]
<1>1. \A o \in Oids : w \in ToSet(device[o]) <=> \E k \in DOMAIN device[o] : w = device[o][k]
  BY DEF ToSet
<1>2. QED
  BY <1>1 DEF Writes

LEMMA WriteIs ==
  ASSUME DeviceTyped, NEW e \in Edrs, NEW c \in OrderRec, c.field \in Supported, Write(e, c)
  PROVE  \E o \in Oids, w \in WriteRec, s \in Seq(WriteRec), t \in Seq(WriteRec) :
           /\ w.field = c.field /\ w.value = c.value /\ w.by = e
           /\ s = device[o] /\ (t = s \/ t = Append(s, w))
           /\ device' = [device EXCEPT ![o] = t]
<1> DEFINE w == [field |-> c.field, value |-> c.value, by |-> e]
<1>1. Oid[c.field] \in Oids
  BY CommandsAssumption
<1>2. w \in WriteRec
  BY DEF WriteRec, OrderRec
<1>3. PICK o \in Oids : o = Oid[c.field]
  BY <1>1
<1>4. PICK s \in Seq(WriteRec) : s = device[o]
  BY DEF DeviceTyped
<1>5. PICK t : t = IF s # <<>> /\ Last(s) = w THEN s ELSE Append(s, w)
  OBVIOUS
<1>6. t \in Seq(WriteRec)
  BY <1>2, <1>5
<1>7. device' = [device EXCEPT ![o] = t]
  BY <1>3, <1>4, <1>5, Zenon DEF Write, DeviceTyped
<1>8. w.field = c.field /\ w.value = c.value /\ w.by = e
  OBVIOUS
<1> HIDE DEF w
<1>9. QED
  BY <1>2, <1>4, <1>5, <1>6, <1>7, <1>8

LEMMA WriteTyped ==
  ASSUME DeviceTyped, NEW e \in Edrs, NEW c \in OrderRec, (c.field \in Supported /\ Write(e, c)) \/ UNCHANGED device
  PROVE  device' \in [Oids -> Seq(WriteRec)]
<1>1. CASE c.field \in Supported /\ Write(e, c)
  BY <1>1, WriteIs DEF DeviceTyped
<1>2. QED
  BY <1>1 DEF DeviceTyped

LEMMA ApplyTable ==
  ASSUME TableInv, NEW e \in Edrs, ApplyOk(e) \/ ApplyFails(e) \/ ApplyUnsupported(e) PROVE TableInv'
<1>1. PICK ok \in BOOLEAN : Outcome(e, ok)
  BY DEF ApplyOk, ApplyFails, ApplyUnsupported
<1>2. /\ run[e].pc = "apply" /\ (UNCHANGED faults \/ Fault) /\ ((Cmd(e).field \in Supported /\ Write(e, Cmd(e))) \/ UNCHANGED device)
      /\ asset' \in {asset, [asset EXCEPT ![e][Cmd(e).field] = Cmd(e).value]}
      /\ UNCHANGED <<edits, reported, downCursor, upCursor, rows, top, late, configEvents, clock, fwd>>
  BY DEF ApplyOk, ApplyFails, ApplyUnsupported, world, cursors, table, outcomes
<1>3. run[e] \in RunRec /\ run[e].batch # <<>> /\ Cmd(e) \in OrderRec
  BY <1>2, HeadOrder
<1> DEFINE r == [run[e] EXCEPT !.pc = "ack", !.ok = ok]
<1>4. r \in RunRec /\ (r.pc = "idle") = (r.batch = <<>>) /\ r.at <= clock'
  BY <1>2, <1>3 DEF RunRec, TableInv, Typed, RunTyped
<1>5. run' = [run EXCEPT ![e] = r]
  BY <1>1 DEF Outcome, TableInv, Typed
<1>6. DeviceTyped'
  <2>1. device' \in [Oids -> Seq(WriteRec)]
    BY <1>2, <1>3, WriteTyped DEF TableInv, Typed
  <2>2. asset \in [Edrs -> [Fields -> Values]] /\ Cmd(e).field \in Fields /\ Cmd(e).value \in Values
    BY <1>3 DEF TableInv, Typed, DeviceTyped, OrderRec
  <2>3. asset' \in [Edrs -> [Fields -> Values]]
    BY <1>2, <2>2
  <2>4. QED
    BY <2>1, <2>3 DEF DeviceTyped
<1> HIDE DEF r
<1>7. clock' \in {clock, clock + 1}
  BY <1>2
<1>8. QED
  BY <1>2, <1>4, <1>5, <1>6, <1>7, RunOnly

LEMMA AckArrivesRun ==
  ASSUME TableInv, NEW e \in Edrs, AckArrives(e)
  PROVE  \E q \in Nat, r \in RunRec :
           /\ q = clock' /\ clock' \in {clock, clock + 1}
           /\ q = clock => \E d \in Edrs : run[d].pc = "mark" /\ run[d].at = q
           /\ r.pc = "mark" /\ r.at = q /\ r.batch = run[e].batch
           /\ run' = [run EXCEPT ![e] = r] /\ run[e].batch # <<>>
<1>1. run[e].pc = "ack"
  BY DEF AckArrives
<1>2. run[e] \in RunRec /\ run[e].batch # <<>> /\ clock \in Nat /\ clock + 1 \in Nat /\ run \in [Edrs -> RunRec]
  BY <1>1, HeadOrder DEF TableInv, Typed, TablesTyped
<1>3. PICK q \in {clock, clock + 1} :
        /\ q = clock => \E d \in Edrs : run[d].pc = "mark" /\ run[d].at = q
        /\ clock' = q
        /\ run' = [run EXCEPT ![e].pc = "mark", ![e].at = q]
  BY DEF AckArrives
<1>4. q \in Nat /\ clock' \in {clock, clock + 1}
  BY <1>2, <1>3
<1>5. PICK r : r = [run[e] EXCEPT !.pc = "mark", !.at = q]
  OBVIOUS
<1>6. r \in RunRec /\ r.pc = "mark" /\ r.at = q /\ r.batch = run[e].batch
  BY <1>2, <1>4, <1>5 DEF RunRec
<1>7. run' = [run EXCEPT ![e] = r]
  BY <1>2, <1>3, <1>5
<1>8. QED
  BY <1>2, <1>3, <1>4, <1>5, <1>6, <1>7

LEMMA AckArrivesTable == ASSUME TableInv, NEW e \in Edrs, AckArrives(e) PROVE TableInv'
<1>1. UNCHANGED <<edits, reported, downCursor, upCursor, rows, top, late, configEvents, fwd, device, asset, faults>>
  BY DEF AckArrives, world, cursors, outcomes
<1>2. PICK q \in Nat, r \in RunRec :
        /\ q = clock' /\ clock' \in {clock, clock + 1}
        /\ q = clock => \E d \in Edrs : run[d].pc = "mark" /\ run[d].at = q
        /\ r.pc = "mark" /\ r.at = q /\ r.batch = run[e].batch
        /\ run' = [run EXCEPT ![e] = r] /\ run[e].batch # <<>>
  BY AckArrivesRun
<1>3. (r.pc = "idle") = (r.batch = <<>>) /\ r.at <= clock'
  BY <1>2
<1>4. DeviceTyped'
  BY <1>1 DEF TableInv, Typed, DeviceTyped
<1>5. QED
  BY <1>1, <1>2, <1>3, <1>4, RunOnly

LEMMA DropTable == ASSUME TableInv, NEW e \in Edrs, AckLost(e) \/ EdrCrash(e) PROVE TableInv'
<1>1. /\ run[e].pc # "idle" /\ Fault
      /\ UNCHANGED <<edits, reported, downCursor, upCursor, rows, top, late, configEvents, clock, fwd, device>>
  BY DEF AckLost, EdrCrash, world, cursors, table, outcomes
<1>2. PICK r : r = IF AckLost(e) THEN NextCommand(run[e]) ELSE IdleRun
  OBVIOUS
<1>3. run' = [run EXCEPT ![e] = r]
  BY <1>2 DEF AckLost, EdrCrash
<1>4. r \in RunRec /\ (r.pc = "idle") = (r.batch = <<>>) /\ r.at <= clock'
  <2>1. run[e] \in RunRec /\ run[e].batch # <<>>
    BY <1>1, HeadOrder
  <2>2. /\ NextCommand(run[e]) \in RunRec /\ (NextCommand(run[e]).pc = "idle") = (NextCommand(run[e]).batch = <<>>)
        /\ NextCommand(run[e]).at = 0
    BY <2>1, NextCommandTyped
  <2>3. r \in RunRec /\ (r.pc = "idle") = (r.batch = <<>>) /\ r.at = 0
    BY <1>2, <2>2, IdleTyped
  <2>4. clock' \in Nat
    BY <1>1 DEF TableInv, Typed, TablesTyped
  <2>5. QED
    BY <2>3, <2>4
<1>5. DeviceTyped'
  <2>1. 0 \in Values
    BY CommandsAssumption DEF Values
  <2>2. [f \in Fields |-> 0] \in [Fields -> Values]
    BY <2>1
  <2>3. asset' \in [Edrs -> [Fields -> Values]]
    BY <2>2 DEF AckLost, EdrCrash, TableInv, Typed, DeviceTyped
  <2>4. QED
    BY <1>1, <2>3 DEF TableInv, Typed, DeviceTyped
<1>6. clock' \in {clock, clock + 1}
  BY <1>1
<1>7. QED
  BY <1>1, <1>3, <1>4, <1>5, <1>6, RunOnly

\* Marking a row counts, stamps and perhaps settles it; a row that is settled stays.
LEMMA MarkTyped ==
  ASSUME NEW r \in Row, NEW ok \in BOOLEAN, NEW at \in Nat
  PROVE  /\ Mark(r, ok, at) \in Row /\ Mark(r, ok, at).field = r.field /\ Mark(r, ok, at).value = r.value
         /\ Mark(r, ok, at).at = at
         /\ Mark(r, ok, at).status = "pending" => r.status = "pending"
         /\ Terminal(r) => Terminal(Mark(r, ok, at))
<1>1. r.attempts + 1 \in Nat
  BY DEF Row
<1>2. r.status \in {"pending", "applied", "failed"}
  BY DEF Row
<1>3. PICK st \in {"pending", "applied", "failed"} :
         st = IF ok THEN "applied" ELSE IF r.attempts + 1 >= MaxAttempts THEN "failed" ELSE r.status
  BY <1>2
<1>4. Mark(r, ok, at) = [r EXCEPT !.attempts = @ + 1, !.at = at, !.status = st]
  BY <1>3 DEF Mark
<1>5. QED
  BY <1>1, <1>2, <1>3, <1>4 DEF Row, Terminal

LEMMA MarkCommandRow ==
  ASSUME TableInv, NEW e \in Edrs, MarkCommand(e)
  PROVE  /\ Cmd(e).id \in DOMAIN rows
            /\ rows' = [rows EXCEPT ![Cmd(e).id] = Mark(rows[Cmd(e).id], run[e].ok, run[e].at)]
         /\ rows[Cmd(e).id] \in Row /\ run[e].ok \in BOOLEAN /\ run[e].at \in Nat
         /\ rows' \in Seq(Row) /\ DOMAIN rows' = DOMAIN rows
         /\ \A i \in DOMAIN rows : i # Cmd(e).id => rows'[i] = rows[i]
         /\ rows'[Cmd(e).id] = Mark(rows[Cmd(e).id], run[e].ok, run[e].at)
<1>1. run[e].pc = "mark" /\ rows' = [rows EXCEPT ![Cmd(e).id] = Mark(rows[Cmd(e).id], run[e].ok, run[e].at)]
  BY DEF MarkCommand
<1>2. run[e] \in RunRec /\ Cmd(e) \in OrderRec
  BY <1>1, HeadOrder
<1>3. PICK id, ok, at : id = Cmd(e).id /\ ok = run[e].ok /\ at = run[e].at
  OBVIOUS
<1>4. id \in DOMAIN rows /\ ok \in BOOLEAN /\ at \in Nat /\ rows \in Seq(Row)
  BY <1>2, <1>3 DEF RunRec, OrderRec, TableInv, Typed, TablesTyped
<1>5. rows[id] \in Row
  BY <1>4
<1>6. PICK m : m = Mark(rows[id], ok, at)
  OBVIOUS
<1>7. m \in Row
  BY <1>4, <1>5, <1>6, MarkTyped
<1>8. rows' = [rows EXCEPT ![id] = m]
  BY <1>1, <1>3, <1>6
<1>9. rows' \in Seq(Row) /\ DOMAIN rows' = DOMAIN rows /\ rows'[id] = m
        /\ \A i \in DOMAIN rows : i # id => rows'[i] = rows[i]
  BY <1>4, <1>7, <1>8
<1>10. QED
  BY <1>1, <1>3, <1>4, <1>5, <1>6, <1>9

LEMMA MarkCommandTable ==
  ASSUME TableInv, NEW e \in Edrs, MarkCommand(e) PROVE TableInv'
<1>1. /\ run[e].pc = "mark" /\ (UNCHANGED faults \/ Fault)
      /\ configEvents' \in {configEvents, configEvents \cup {[field |-> rows[Cmd(e).id].field, value |-> rows[Cmd(e).id].value]}}
      /\ run' = [run EXCEPT ![e] = NextCommand(run[e])]
      /\ Committed(Cmd(e).id, run[e].at) \/ UNCHANGED <<top, late>>
      /\ UNCHANGED <<edits, reported, downCursor, upCursor, clock, fwd, device, asset>>
  BY DEF MarkCommand, world, cursors
<1>2. /\ Cmd(e).id \in DOMAIN rows /\ rows[Cmd(e).id] \in Row /\ run[e].ok \in BOOLEAN /\ run[e].at \in Nat
      /\ rows' \in Seq(Row) /\ DOMAIN rows' = DOMAIN rows
      /\ \A i \in DOMAIN rows : i # Cmd(e).id => rows'[i] = rows[i]
      /\ rows'[Cmd(e).id] = Mark(rows[Cmd(e).id], run[e].ok, run[e].at)
  BY MarkCommandRow
<1>3. \A i \in DOMAIN rows : /\ rows'[i].field = rows[i].field /\ rows'[i].value = rows[i].value
                             /\ rows'[i].status = "pending" => rows[i].status = "pending"
                             /\ rows'[i].at \in {rows[i].at, run[e].at}
  <2>1. PICK m : m = Mark(rows[Cmd(e).id], run[e].ok, run[e].at)
    OBVIOUS
  <2>2. /\ m.field = rows[Cmd(e).id].field /\ m.value = rows[Cmd(e).id].value /\ m.at = run[e].at
        /\ m.status = "pending" => rows[Cmd(e).id].status = "pending"
    <3>1. PICK r \in Row, ok \in BOOLEAN, at \in Nat : r = rows[Cmd(e).id] /\ ok = run[e].ok /\ at = run[e].at
      BY <1>2
    <3>2. m = Mark(r, ok, at)
      BY <2>1, <3>1
    <3>3. m.field = r.field /\ m.value = r.value /\ m.at = at /\ (m.status = "pending" => r.status = "pending")
      BY <3>2, MarkTyped
    <3>4. QED
      BY <3>1, <3>3
  <2>3. QED
    BY <1>2, <2>1, <2>2
<1>4. AggregatorTyped' /\ TablesTyped' /\ DeviceTyped'
  <2>1. faults' \in Nat
    BY <1>1, FaultTyped DEF TableInv
  <2>2. [field |-> rows[Cmd(e).id].field, value |-> rows[Cmd(e).id].value] \in Command
    BY <1>2 DEF Row, Command
  <2>3. \A i \in DOMAIN rows' : rows'[i].at <= clock
    BY <1>2, <1>3 DEF TableInv, Typed, TablesTyped, RunTyped
  <2>4. AggregatorTyped' /\ DeviceTyped'
    BY <1>1, <1>2 DEF TableInv, Typed, AggregatorTyped, DeviceTyped, Report
  <2>5. late' \subseteq DOMAIN rows' /\ top' \in 0..clock
    <3>1. late \subseteq DOMAIN rows /\ top \in 0..clock /\ clock \in Nat
      BY DEF TableInv, Typed, TablesTyped
    <3>2. run[e].at \in 0..clock
      BY <1>2, <3>1 DEF TableInv, Typed, RunTyped
    <3>3. top' \in {top, run[e].at}
      BY <1>1 DEF Committed
    <3>4. late' \subseteq late \cup {Cmd(e).id} \cup DOMAIN rows
      BY <1>1 DEF Committed
    <3>5. QED
      BY <1>2, <3>1, <3>2, <3>3, <3>4
  <2>6. TablesTyped'
    BY <1>1, <1>2, <2>1, <2>2, <2>3, <2>5 DEF TableInv, Typed, TablesTyped
  <2>7. QED
    BY <2>4, <2>6
<1>5. FwdTyped'
  BY <1>1, <1>2 DEF TableInv, Typed, FwdTyped, FwdRec, Report, Answered
<1>6. run' \in [Edrs -> RunRec'] /\ RunTyped'
  <2>1. run[e] \in RunRec /\ run[e].batch # <<>>
    BY <1>1, HeadOrder
  <2>2. PICK r : r = NextCommand(run[e])
    OBVIOUS
  <2>3. r \in RunRec /\ (r.pc = "idle") = (r.batch = <<>>) /\ r.at = 0
    BY <2>1, <2>2, NextCommandTyped
  <2>4. RunRec' = RunRec
    BY <1>2 DEF RunRec, OrderRec
  <2>5. run' = [run EXCEPT ![e] = r] /\ run \in [Edrs -> RunRec]
    BY <1>1, <2>2 DEF TableInv, Typed
  <2>6. 0 <= clock /\ clock' = clock
    BY <1>1 DEF TableInv, Typed, TablesTyped
  <2>7. QED
    BY <2>3, <2>4, <2>5, <2>6 DEF TableInv, Typed, RunTyped
<1>7. OnePendingPerField'
  BY <1>2, <1>3 DEF TableInv, OnePendingPerField, Pending
<1>8. QED
  BY <1>4, <1>5, <1>6, <1>7 DEF TableInv, Typed

-----------------------------------------------------------------------------
LEMMA TableInit == Init => TableInv
<1> SUFFICES ASSUME Init PROVE TableInv
  OBVIOUS
<1>1. /\ edits = <<>> /\ reported = {} /\ downCursor = 0 /\ upCursor = 0 /\ rows = <<>> /\ configEvents = {}
         /\ clock = 0 /\ top = 0 /\ late = {}
      /\ fwd = IdleFwd /\ run = [e \in Edrs |-> IdleRun] /\ device = [o \in Oids |-> <<>>]
      /\ asset = [e \in Edrs |-> [f \in Fields |-> 0]] /\ faults = 0
  BY DEF Init
<1>2. MaxEdits \in Nat /\ 0 \in Values
  BY CommandsAssumption DEF Values
<1>3. AggregatorTyped /\ TablesTyped
  BY <1>1, <1>2 DEF AggregatorTyped, TablesTyped
<1>4. DeviceTyped
  <2>1. [f \in Fields |-> 0] \in [Fields -> Values]
    BY <1>2
  <2>2. <<>> \in Seq(WriteRec)
    OBVIOUS
  <2>3. QED
    BY <1>1, <2>1, <2>2 DEF DeviceTyped
<1>5. FwdTyped /\ run \in [Edrs -> RunRec] /\ RunTyped
  BY <1>1, IdleTyped DEF FwdTyped, RunTyped, Answered
<1>6. OnePendingPerField
  BY <1>1 DEF OnePendingPerField, Pending
<1>7. QED
  BY <1>3, <1>4, <1>5, <1>6 DEF TableInv, Typed

LEMMA TableStep == TableInv /\ [Next]_vars => TableInv'
<1> SUFFICES ASSUME TableInv, [Next]_vars PROVE TableInv'
  OBVIOUS
<1>1. ASSUME NEW f \in Fields, Edit(f) PROVE TableInv'
  BY <1>1, EditTable
<1>2. CASE BeginPull \/ BeginPullUnread
  BY <1>2, BeginPullTable
<1>3. CASE Exchange \/ ExchangeLost \/ HubCrash
  BY <1>3, ExchangeTable, ForgetTable
<1>4. CASE SaveUp \/ SaveDown \/ InsertCommands
  BY <1>4, SaveUpTable, SaveDownTable, InsertCommandsTable
<1>5. ASSUME NEW e \in Edrs, Runner(e) PROVE TableInv'
  BY <1>5, PullTable, ApplyTable, AckArrivesTable, MarkCommandTable DEF Runner
<1>6. ASSUME NEW e \in Edrs, AckLost(e) \/ EdrCrash(e) PROVE TableInv'
  BY <1>6, DropTable
<1>7. CASE UNCHANGED vars
  <2>1. UNCHANGED <<edits, reported, downCursor, upCursor, rows, top, late, configEvents, clock, fwd, run, device, asset, faults>>
    BY <1>7 DEF vars, world, cursors, table, outcomes, collector
  <2>2. FwdTyped'
    BY <2>1 DEF TableInv, Typed, FwdTyped, FwdRec, Report, Answered
  <2>3. reported' \subseteq Report /\ downCursor' \in 0..Len(edits) /\ upCursor' \in 0..clock
    BY <2>1 DEF TableInv, Typed, AggregatorTyped, TablesTyped
  <2>4. QED
    BY <2>1, <2>2, <2>3, FwdOnly
<1>8. QED
  BY <1>1, <1>2, <1>3, <1>4, <1>5, <1>6, <1>7 DEF Next, Forwarder

\* A field has one pending row at most, whatever edits, replays, acks and crashes
\* of however many collectors come together (uix_device_commands_pending_field).
THEOREM CommandsOnePending == Spec => []OnePendingPerField
<1>1. Spec => []TableInv
  BY TableInit, TableStep, PTL DEF Spec
<1>2. TableInv => OnePendingPerField
  BY DEF TableInv
<1>3. QED
  BY <1>1, <1>2, PTL

\* What a step does to the rows.
LEMMA RowsChange ==
  ASSUME [Next]_vars
  PROVE  UNCHANGED rows \/ (InsertCommands /\ rows' = Inserted(rows, fwd.changes)) \/ \E e \in Edrs : MarkCommand(e)
<1>1. CASE Forwarder \/ BeginPullUnread \/ ExchangeLost \/ HubCrash \/ UNCHANGED vars
  BY <1>1 DEF Forwarder, BeginPull, Exchange, SaveUp, SaveDown, InsertCommands, BeginPullUnread, ExchangeLost,
     HubCrash,
              vars, table, outcomes
<1>2. ASSUME NEW f \in Fields, Edit(f) PROVE UNCHANGED rows
  BY <1>2 DEF Edit, table, outcomes
<1>3. ASSUME NEW e \in Edrs, Runner(e) \/ AckLost(e) \/ EdrCrash(e) PROVE UNCHANGED rows \/ MarkCommand(e)
  BY <1>3 DEF Runner, Pull, ApplyOk, ApplyFails, ApplyUnsupported, AckArrives, AckLost, EdrCrash, table, outcomes
<1>4. QED
  BY <1>1, <1>2, <1>3 DEF Next

LEMMA FinishedStep ==
  ASSUME TableInv, [Next]_vars
  PROVE  [\A i \in DOMAIN rows : Terminal(rows[i]) => Terminal(rows'[i])]_rows
<1> SUFFICES ASSUME rows' # rows, NEW i \in DOMAIN rows, Terminal(rows[i]) PROVE Terminal(rows'[i])
  OBVIOUS
<1>1. CASE InsertCommands /\ rows' = Inserted(rows, fwd.changes)
  <2>1. rows \in Seq(Row) /\ fwd.changes \in Seq(Command)
    BY DEF TableInv, Typed, TablesTyped, FwdTyped, FwdRec
  <2>2. Kept(rows, rows')
    BY <1>1, <2>1, InsertedKeeps
  <2>3. QED
    BY <2>2 DEF Kept, Terminal
<1>2. ASSUME NEW e \in Edrs, MarkCommand(e) PROVE Terminal(rows'[i])
  <2>1. /\ rows[Cmd(e).id] \in Row /\ run[e].ok \in BOOLEAN /\ run[e].at \in Nat
        /\ i # Cmd(e).id => rows'[i] = rows[i]
        /\ rows'[Cmd(e).id] = Mark(rows[Cmd(e).id], run[e].ok, run[e].at)
    BY <1>2, MarkCommandRow
  <2>2. CASE i = Cmd(e).id
    <3>1. Terminal(Mark(rows[i], run[e].ok, run[e].at))
      BY <2>1, <2>2, MarkTyped
    <3>2. QED
      BY <2>1, <2>2, <3>1
  <2>3. QED
    BY <2>1, <2>2
<1>3. QED
  BY <1>1, <1>2, RowsChange

\* A row that was finished is never pending again, by any command that comes late or
\* twice.
THEOREM CommandsFinishedStays == Spec => FinishedStaysFinished
<1>1. Spec => []TableInv
  BY TableInit, TableStep, PTL DEF Spec
<1>2. QED
  BY <1>1, FinishedStep, PTL DEF Spec, FinishedStaysFinished

-----------------------------------------------------------------------------
(* Outcomes.  The cursor never passes top, what is committed above top is  *)
(* the only row of its stamp, and what is not is late.                     *)

Told(i) == [id |-> i, status |-> rows[i].status]

\* What is finished and not after the forwarder's time is told or about to be.
Covered ==
  \A i \in DOMAIN rows :
    Terminal(rows[i]) /\ rows[i].at <= fwd.max => Told(i) \in reported \cup fwd.outcomes \/ i \in late

\* No cursor and no outcome is ahead of the latest one.
Behind == upCursor <= top /\ fwd.max <= top /\ \A i \in DOMAIN rows : Terminal(rows[i]) => rows[i].at <= top

\* Of the rows of one stamp, a page that ends among them may leave out any.
Ties ==
  \A i, j \in DOMAIN rows :
    Terminal(rows[i]) /\ Terminal(rows[j]) /\ i # j /\ rows[i].at = rows[j].at => i \in late

OutcomeInv == OutcomesReported /\ Covered /\ (Answered => fwd.outcomes \subseteq reported) /\ Behind /\ Ties

LEMMA Times ==
  ASSUME TableInv
  PROVE  /\ upCursor \in Nat /\ clock \in Nat /\ upCursor <= clock /\ fwd.max \in Nat /\ fwd.max <= clock
         /\ \A i \in DOMAIN rows : rows[i] \in Row /\ rows[i].at \in Nat /\ rows[i].at <= clock
         /\ \A e \in Edrs : run[e] \in RunRec /\ run[e].at \in Nat
         /\ top \in Nat
<1>1. upCursor \in Nat /\ clock \in Nat /\ upCursor <= clock /\ fwd.max \in Nat /\ fwd.max <= clock /\ top \in Nat
  BY DEF TableInv, Typed, TablesTyped, FwdTyped, FwdRec
<1>2. \A i \in DOMAIN rows : rows[i] \in Row /\ rows[i].at <= clock
  BY DEF TableInv, Typed, TablesTyped
<1>3. \A i \in DOMAIN rows : rows[i].at \in Nat
  BY <1>2 DEF Row
<1>4. \A e \in Edrs : run[e] \in RunRec
  BY DEF TableInv, Typed
<1>5. \A e \in Edrs : run[e].at \in Nat
  BY <1>4 DEF RunRec
<1>6. QED
  BY <1>1, <1>2, <1>3, <1>4, <1>5

\* Nothing that the outcomes are about changes.
LEMMA OutcomesFrame ==
  ASSUME OutcomeInv, UNCHANGED <<rows, top, late, reported, upCursor, fwd>> PROVE OutcomeInv'
<1>1. OutcomesReported' /\ Covered' /\ (Answered => fwd.outcomes \subseteq reported)'
  BY DEF OutcomeInv, OutcomesReported, Covered, Answered, Told
<1>2. Behind' /\ Ties'
  BY DEF OutcomeInv, Behind, Ties
<1>3. QED
  BY <1>1, <1>2 DEF OutcomeInv

\* The forwarder has nothing.
LEMMA OutcomesForgotten ==
  ASSUME TableInv, OutcomeInv, fwd' = IdleFwd, reported \subseteq reported', UNCHANGED <<rows, top, late, upCursor>>
  PROVE  OutcomeInv'
<1>1. fwd'.max = 0 /\ fwd'.outcomes = {} /\ ~(Answered')
  BY IdleTyped DEF Answered
<1>2. OutcomesReported'
  BY DEF OutcomeInv, OutcomesReported
<1>3. Covered'
  BY <1>1, <1>2, Times DEF Covered, OutcomesReported, Told
<1>4. Behind' /\ Ties'
  BY <1>1, Times DEF OutcomeInv, Behind, Ties
<1>5. QED
  BY <1>1, <1>2, <1>3, <1>4 DEF OutcomeInv

\* A page holds the oldest of the rows after its cursor: one it leaves out is after
\* its time, or has the stamp of its last row.
LEMMA BeginPullOutcomes == ASSUME TableInv, OutcomeInv, BeginPull \/ BeginPullUnread PROVE OutcomeInv'
<1>1. UNCHANGED <<edits, reported, upCursor, rows, top, late, clock>>
  BY DEF BeginPull, BeginPullUnread, world, cursors, table, outcomes, collector
<1>2. PICK since, done :
        /\ since \in 0..Len(edits) /\ SendPull(since, done)
        /\ done = {} \/ \E c \in {0, upCursor} : done \in CommandsUpdatedSince(c)
  <2>1. downCursor \in 0..Len(edits) /\ 0 \in 0..Len(edits)
    BY DEF TableInv, Typed, TablesTyped, AggregatorTyped
  <2>2. QED
    BY <2>1 DEF BeginPull, BeginPullUnread
<1>3. done \subseteq {i \in DOMAIN rows : Terminal(rows[i])}
  BY <1>2 DEF CommandsUpdatedSince, Finished
<1>4. /\ fwd'.pc = "sent" /\ fwd'.max \in Nat
      /\ fwd'.outcomes = {[id |-> i, status |-> rows[i].status] : i \in done}
      /\ fwd'.max = 0 \/ \E i \in done : fwd'.max = rows[i].at
  BY <1>1, <1>2, <1>3, SendPullTyped
<1>5. OutcomesReported' /\ ~(Answered')
  BY <1>1, <1>4 DEF OutcomeInv, OutcomesReported, Answered
<1>6. Covered'
  <2> SUFFICES ASSUME NEW i \in DOMAIN rows, Terminal(rows[i]), rows[i].at <= fwd'.max
               PROVE  Told(i) \in reported \cup fwd'.outcomes \/ i \in late
    BY <1>1 DEF Covered, Told
  <2>1. rows[i].at \in Nat /\ upCursor \in Nat
    BY Times
  <2>2. rows[i].at <= upCursor => Told(i) \in reported \/ i \in late
    BY DEF OutcomeInv, OutcomesReported, Told
  <2>3. i \in done => Told(i) \in fwd'.outcomes
    BY <1>4 DEF Told
  <2>4. i \in done \/ rows[i].at <= upCursor \/ i \in late
    <3>1. CASE done = {}
      <4>1. fwd'.max = 0
        BY <1>4, <3>1
      <4>2. QED
        BY <2>1, <4>1
    <3>2. ASSUME NEW c \in {0, upCursor}, done \in CommandsUpdatedSince(c), i \notin done, ~(rows[i].at <= upCursor)
          PROVE  i \in late
      <4>1. i \in Finished(c)
        BY <2>1, <3>2 DEF Finished
      <4>2. \A j \in done : rows[j].at <= rows[i].at
        BY <3>2, <4>1 DEF CommandsUpdatedSince
      <4>3. fwd'.max # 0
        BY <2>1, <3>2
      <4>4. PICK j \in done : fwd'.max = rows[j].at
        BY <1>4, <4>3
      <4>5. rows[j].at = rows[i].at
        BY <1>3, <2>1, <4>2, <4>4, Times
      <4>6. QED
        BY <1>3, <3>2, <4>4, <4>5 DEF OutcomeInv, Ties
    <3>3. QED
      BY <1>2, <3>1, <3>2
  <2>5. QED
    BY <2>2, <2>3, <2>4
<1>7. Behind' /\ Ties'
  <2>1. fwd'.max <= top
    <3>1. \A i \in done : rows[i].at <= top
      BY <1>3 DEF OutcomeInv, Behind
    <3>2. QED
      BY <1>4, <3>1, Times
  <2>2. QED
    BY <1>1, <2>1 DEF OutcomeInv, Behind, Ties
<1>8. QED
  BY <1>5, <1>6, <1>7 DEF OutcomeInv

LEMMA ExchangeOutcomes == ASSUME TableInv, OutcomeInv, Exchange PROVE OutcomeInv'
<1>1. reported' = reported \cup fwd.outcomes /\ UNCHANGED <<upCursor, rows, top, late>>
  BY DEF Exchange, cursors, table, outcomes, collector
<1>2. fwd'.outcomes = fwd.outcomes /\ fwd'.max = fwd.max
  BY DEF Exchange, TableInv, Typed, FwdTyped, FwdRec
<1>3. QED
  BY <1>1, <1>2 DEF OutcomeInv, OutcomesReported, Covered, Behind, Ties, Told

LEMMA SaveUpOutcomes == ASSUME TableInv, OutcomeInv, SaveUp PROVE OutcomeInv'
<1>1. /\ upCursor' \in {upCursor, fwd.max} /\ UNCHANGED <<reported, rows, top, late>> /\ Answered
      /\ fwd' = [fwd EXCEPT !.pc = "saveDown"]
  BY DEF SaveUp, world, table, outcomes, collector, Answered
<1>2. fwd'.outcomes = fwd.outcomes /\ fwd'.max = fwd.max
  BY <1>1 DEF TableInv, Typed, FwdTyped, FwdRec
<1>3. OutcomesReported'
  <2>1. CASE upCursor' = upCursor
    BY <1>1, <2>1 DEF OutcomeInv, OutcomesReported
  <2>2. CASE upCursor' = fwd.max
    BY <1>1, <2>2 DEF OutcomeInv, OutcomesReported, Covered, Told
  <2>3. QED
    BY <1>1, <2>1, <2>2
<1>4. Covered' /\ (Answered => fwd.outcomes \subseteq reported)'
  BY <1>1, <1>2 DEF OutcomeInv, Covered, Told
<1>5. Behind' /\ Ties'
  BY <1>1, <1>2 DEF OutcomeInv, Behind, Ties
<1>6. QED
  BY <1>3, <1>4, <1>5 DEF OutcomeInv

LEMMA SaveDownOutcomes == ASSUME TableInv, OutcomeInv, SaveDown PROVE OutcomeInv'
<1>1. /\ fwd' = AfterSaveDown /\ UNCHANGED <<reported, rows, top, late, upCursor>> /\ Answered
  BY DEF SaveDown, world, table, outcomes, collector, Answered
<1>2. CASE fwd.changes = <<>>
  BY <1>1, <1>2, OutcomesForgotten DEF AfterSaveDown
<1>3. CASE fwd.changes # <<>>
  <2>1. fwd' = [fwd EXCEPT !.pc = "insert"]
    BY <1>1, <1>3 DEF AfterSaveDown
  <2>2. fwd'.outcomes = fwd.outcomes /\ fwd'.max = fwd.max
    BY <2>1 DEF TableInv, Typed, FwdTyped, FwdRec
  <2>3. QED
    BY <1>1, <2>2 DEF OutcomeInv, OutcomesReported, Covered, Behind, Ties, Told
<1>4. QED
  BY <1>2, <1>3

LEMMA InsertedIsKept ==
  ASSUME TableInv, InsertCommands PROVE Kept(rows, rows') /\ DOMAIN rows \subseteq DOMAIN rows' /\ rows \in Seq(Row)
<1>1. rows \in Seq(Row) /\ fwd.changes \in Seq(Command)
  BY DEF TableInv, Typed, TablesTyped, FwdTyped, FwdRec
<1>2. Kept(rows, rows')
  <2>1. CASE rows' = Inserted(rows, fwd.changes)
    BY <1>1, <2>1, InsertedKeeps
  <2>2. CASE UNCHANGED rows
    BY <1>1, <2>2 DEF Kept
  <2>3. QED
    BY <2>1, <2>2 DEF InsertCommands
<1>3. rows' \in Seq(Row) /\ Len(rows) <= Len(rows')
  BY <1>2 DEF Kept
<1>4. QED
  BY <1>1, <1>2, <1>3

LEMMA InsertCommandsOutcomes == ASSUME TableInv, OutcomeInv, InsertCommands PROVE OutcomeInv'
<1>1. fwd' = IdleFwd /\ UNCHANGED <<reported, upCursor, top, late>>
  BY DEF InsertCommands, world, cursors, collector
<1>2. Kept(rows, rows') /\ DOMAIN rows \subseteq DOMAIN rows'
  BY InsertedIsKept
<1>3. fwd'.max = 0 /\ fwd'.outcomes = {} /\ ~(Answered')
  BY <1>1, IdleTyped DEF Answered
<1>4. \A i \in DOMAIN rows' : Terminal(rows'[i]) => i \in DOMAIN rows /\ rows'[i] = rows[i]
  BY <1>2 DEF Kept, Terminal
<1>5. OutcomesReported'
  BY <1>1, <1>4 DEF OutcomeInv, OutcomesReported
<1>6. Covered'
  BY <1>1, <1>3, <1>4, Times DEF OutcomeInv, OutcomesReported, Covered, Told
<1>7. Behind' /\ Ties'
  <2>1. upCursor' <= top' /\ fwd'.max <= top'
    BY <1>1, <1>3, Times DEF OutcomeInv, Behind
  <2>2. QED
    BY <1>1, <1>4, <2>1 DEF OutcomeInv, Behind, Ties
<1>8. QED
  BY <1>3, <1>5, <1>6, <1>7 DEF OutcomeInv

\* An outcome stamped after all others is ahead of every cursor; any other is late.
LEMMA MarkCommandOutcomes ==
  ASSUME TableInv, OutcomeInv, NEW e \in Edrs, MarkCommand(e) PROVE OutcomeInv'
<1>1. UNCHANGED <<reported, upCursor, fwd>>
  BY DEF MarkCommand, world, cursors
<1>2. PICK id \in DOMAIN rows, at \in Nat, m \in Row :
        /\ id = Cmd(e).id /\ at = run[e].at /\ m = Mark(rows[id], run[e].ok, at)
        /\ m.at = at /\ rows'[id] = m /\ DOMAIN rows' = DOMAIN rows /\ (Terminal(rows[id]) => Terminal(m))
        /\ \A i \in DOMAIN rows : i # id => rows'[i] = rows[i]
  <2>1. /\ Cmd(e).id \in DOMAIN rows /\ rows[Cmd(e).id] \in Row /\ run[e].ok \in BOOLEAN /\ run[e].at \in Nat
        /\ DOMAIN rows' = DOMAIN rows
        /\ \A i \in DOMAIN rows : i # Cmd(e).id => rows'[i] = rows[i]
        /\ rows'[Cmd(e).id] = Mark(rows[Cmd(e).id], run[e].ok, run[e].at)
    BY MarkCommandRow
  <2>2. PICK id \in DOMAIN rows, r \in Row, ok \in BOOLEAN, at \in Nat :
          id = Cmd(e).id /\ r = rows[id] /\ ok = run[e].ok /\ at = run[e].at
    BY <2>1
  <2>3. PICK m : m = Mark(r, ok, at)
    OBVIOUS
  <2>4. m \in Row /\ m.at = at /\ (Terminal(r) => Terminal(m))
    BY <2>3, MarkTyped
  <2>5. QED
    BY <2>1, <2>2, <2>3, <2>4
<1>3. IF Terminal(m) THEN Committed(id, at) ELSE UNCHANGED <<top, late>>
  BY <1>2 DEF MarkCommand
<1>4. CASE ~Terminal(m)
  <2>1. ~Terminal(rows[id]) /\ ~Terminal(rows'[id]) /\ top' = top /\ late' = late
    BY <1>2, <1>3, <1>4
  <2>2. \A i \in DOMAIN rows : Terminal(rows'[i]) => Terminal(rows[i]) /\ rows'[i] = rows[i]
    BY <1>2, <2>1
  <2>3. OutcomesReported' /\ Covered' /\ (Answered => fwd.outcomes \subseteq reported)'
    BY <1>1, <1>2, <2>1, <2>2 DEF OutcomeInv, OutcomesReported, Covered, Answered, Told
  <2>4. Behind' /\ Ties'
    BY <1>1, <1>2, <2>1, <2>2 DEF OutcomeInv, Behind, Ties
  <2>5. QED
    BY <2>3, <2>4 DEF OutcomeInv
<1>5. CASE Terminal(m) /\ at > top
  <2>1. top' = at /\ late' = late \ {id}
    BY <1>3, <1>5 DEF Committed
  <2>2. ~(at <= upCursor) /\ ~(at <= fwd.max) /\ upCursor <= at /\ fwd.max <= at
    BY <1>5, Times DEF OutcomeInv, Behind
  <2>3. OutcomesReported' /\ Covered' /\ (Answered => fwd.outcomes \subseteq reported)'
    BY <1>1, <1>2, <2>1, <2>2 DEF OutcomeInv, OutcomesReported, Covered, Answered, Told
  <2>4. \A i \in DOMAIN rows : i # id /\ Terminal(rows[i]) => rows[i].at < at
    BY <1>5, Times DEF OutcomeInv, Behind
  <2>5. Behind'
    <3>1. \A i \in DOMAIN rows : Terminal(rows'[i]) => rows'[i].at <= at
      BY <1>2, <2>4, Times
    <3>2. QED
      BY <1>1, <1>2, <2>1, <2>2, <3>1 DEF Behind
  <2>6. Ties'
    <3>1. \A i \in DOMAIN rows : i # id /\ Terminal(rows'[i]) => rows'[i].at # at
      BY <1>2, <2>4, Times
    <3>2. QED
      BY <1>2, <2>1, <3>1 DEF OutcomeInv, Ties
  <2>7. QED
    BY <2>3, <2>5, <2>6 DEF OutcomeInv
<1>6. CASE Terminal(m) /\ ~(at > top)
  <2>1. /\ top' = top /\ id \in late' /\ late \subseteq late'
        /\ \A i \in DOMAIN rows : Terminal(rows[i]) /\ rows[i].at = at => i \in late'
    BY <1>3, <1>6 DEF Committed
  <2>2. OutcomesReported' /\ Covered' /\ (Answered => fwd.outcomes \subseteq reported)'
    BY <1>1, <1>2, <2>1 DEF OutcomeInv, OutcomesReported, Covered, Answered, Told
  <2>3. Behind'
    <3>1. at <= top
      BY <1>6, Times
    <3>2. \A i \in DOMAIN rows : Terminal(rows'[i]) => rows'[i].at <= top
      BY <1>2, <3>1 DEF OutcomeInv, Behind
    <3>3. QED
      BY <1>1, <1>2, <2>1, <3>2 DEF OutcomeInv, Behind
  <2>4. Ties'
    BY <1>2, <2>1 DEF OutcomeInv, Ties
  <2>5. QED
    BY <2>2, <2>3, <2>4 DEF OutcomeInv
<1>7. QED
  BY <1>4, <1>5, <1>6

LEMMA OutcomeStep == TableInv /\ OutcomeInv /\ [Next]_vars => OutcomeInv'
<1> SUFFICES ASSUME TableInv, OutcomeInv, [Next]_vars PROVE OutcomeInv'
  OBVIOUS
<1>1. ASSUME NEW f \in Fields, Edit(f) PROVE OutcomeInv'
  <2>1. UNCHANGED <<rows, top, late, reported, upCursor, fwd>>
    BY <1>1 DEF Edit, cursors, table, outcomes
  <2>2. QED
    BY <2>1, OutcomesFrame
<1>2. CASE BeginPull \/ BeginPullUnread
  BY <1>2, BeginPullOutcomes
<1>3. CASE Exchange
  BY <1>3, ExchangeOutcomes
<1>4. CASE ExchangeLost \/ HubCrash
  <2>1. fwd' = IdleFwd /\ reported \subseteq reported' /\ UNCHANGED <<rows, top, late, upCursor>>
    BY <1>4 DEF ExchangeLost, HubCrash, world, cursors, table, outcomes
  <2>2. QED
    BY <2>1, OutcomesForgotten
<1>5. CASE SaveUp \/ SaveDown \/ InsertCommands
  BY <1>5, SaveUpOutcomes, SaveDownOutcomes, InsertCommandsOutcomes
<1>6. ASSUME NEW e \in Edrs, Runner(e) \/ AckLost(e) \/ EdrCrash(e) PROVE OutcomeInv'
  <2>1. CASE MarkCommand(e)
    BY <2>1, MarkCommandOutcomes
  <2>2. CASE ~MarkCommand(e)
    <3>1. UNCHANGED <<rows, top, late, reported, upCursor, fwd>>
      BY <1>6, <2>2 DEF Runner, Pull, ApplyOk, ApplyFails, ApplyUnsupported, AckArrives, AckLost, EdrCrash,
                        world, cursors, table, outcomes
    <3>2. QED
      BY <3>1, OutcomesFrame
  <2>3. QED
    BY <2>1, <2>2
<1>7. CASE UNCHANGED vars
  <2>1. UNCHANGED <<rows, top, late, reported, upCursor, fwd>>
    BY <1>7 DEF vars, world, cursors, table, outcomes
  <2>2. QED
    BY <2>1, OutcomesFrame
<1>8. QED
  BY <1>1, <1>2, <1>3, <1>4, <1>5, <1>6, <1>7 DEF Next, Forwarder

\* A run keeps to its plan.
PlanInv == plan \in Plans /\ faults \in 0..plan.faults

LEMMA PlanStep == PlanInv /\ [Next]_vars => PlanInv'
<1> SUFFICES ASSUME PlanInv, [Next]_vars PROVE PlanInv'
  OBVIOUS
<1>1. UNCHANGED plan /\ (UNCHANGED faults \/ Fault)
  <2>1. ASSUME NEW f \in Fields, Edit(f) PROVE UNCHANGED plan /\ UNCHANGED faults
    BY <2>1 DEF Edit
  <2>2. CASE Forwarder
    BY <2>2 DEF Forwarder, BeginPull, Exchange, SaveUp, SaveDown, InsertCommands, world
  <2>3. CASE BeginPullUnread \/ ExchangeLost \/ HubCrash
    BY <2>3 DEF BeginPullUnread, ExchangeLost, HubCrash, world
  <2>4. ASSUME NEW e \in Edrs, Runner(e) PROVE UNCHANGED plan /\ (UNCHANGED faults \/ Fault)
    BY <2>4 DEF Runner, Pull, ApplyOk, ApplyFails, ApplyUnsupported, AckArrives, MarkCommand, world
  <2>5. ASSUME NEW e \in Edrs, AckLost(e) \/ EdrCrash(e) PROVE UNCHANGED plan /\ Fault
    BY <2>5 DEF AckLost, EdrCrash, world
  <2>6. CASE UNCHANGED vars
    BY <2>6 DEF vars, world
  <2>7. QED
    BY <2>1, <2>2, <2>3, <2>4, <2>5, <2>6 DEF Next
<1>2. plan.faults \in Nat
  BY CommandsAssumption DEF PlanInv
<1>3. QED
  BY <1>1, <1>2 DEF PlanInv, Fault

LEMMA PlanInit == Init => PlanInv
<1> SUFFICES ASSUME Init PROVE PlanInv
  OBVIOUS
<1>1. plan \in Plans /\ faults = 0
  BY DEF Init
<1>2. QED
  BY <1>1, CommandsAssumption DEF PlanInv

LEMMA TableIsTyped == ASSUME TableInv, PlanInv PROVE TypeOK
<1>1. fwd.since <= Len(edits) /\ fwd.max <= clock
  BY DEF TableInv, Typed, FwdTyped
<1>2. ASSUME NEW e \in Edrs
      PROVE  /\ run[e].pc \in {"idle", "apply", "ack", "mark"} /\ (run[e].pc = "idle") = (run[e].batch = <<>>)
             /\ \A k \in DOMAIN run[e].batch : run[e].batch[k].id \in DOMAIN rows
  <2>1. run[e] \in RunRec /\ (run[e].pc = "idle") = (run[e].batch = <<>>)
    BY DEF TableInv, Typed, RunTyped
  <2>2. PICK b \in Seq(OrderRec) : b = run[e].batch
    BY <2>1 DEF RunRec
  <2>3. \A k \in DOMAIN b : b[k].id \in DOMAIN rows
    <3>1. \A k \in DOMAIN b : b[k] \in OrderRec
      OBVIOUS
    <3>2. QED
      BY <3>1 DEF OrderRec
  <2>4. QED
    BY <2>1, <2>2, <2>3 DEF RunRec
<1>3. QED
  BY <1>1, <1>2 DEF TableInv, PlanInv, Typed, AggregatorTyped, TablesTyped, DeviceTyped, TypeOK, Report

LEMMA OutcomeInit == Init => OutcomeInv
<1> SUFFICES ASSUME Init PROVE OutcomeInv
  OBVIOUS
<1>1. rows = <<>> /\ fwd = IdleFwd /\ top = 0 /\ upCursor = 0
  BY DEF Init
<1>2. QED
  BY <1>1, IdleTyped DEF OutcomeInv, OutcomesReported, Covered, Answered, Behind, Ties

\* The table and the cursors stay sound, for any number of collectors: no outcome that
\* was committed in order is behind the up cursor and unknown to the Aggregator, and no
\* field has two rows to apply.
THEOREM CommandsTableSound == Spec => []TableSound
<1>1. Spec => []TableInv
  BY TableInit, TableStep, PTL DEF Spec
<1>2. Spec => []PlanInv
  BY PlanInit, PlanStep, PTL DEF Spec
<1>3. TableInv /\ PlanInv /\ OutcomeInv => TableSound
  BY TableIsTyped DEF TableSound, TableInv, OutcomeInv
<1>4. QED
  BY <1>1, <1>2, <1>3, OutcomeInit, OutcomeStep, PTL DEF Spec

-----------------------------------------------------------------------------
(* A collector acknowledges one command after the other, so alone it never *)
(* makes an outcome late.                                                  *)

OneCollector == \A d, e \in Edrs : d = e

\* The stamp that is not committed yet is after all others.
InOrder == late = {} /\ \A e \in Edrs : run[e].pc = "mark" => top < run[e].at

LEMMA InOrderStep == OneCollector /\ TableInv /\ InOrder /\ [Next]_vars => InOrder'
<1> SUFFICES ASSUME OneCollector, TableInv, InOrder, [Next]_vars PROVE InOrder'
  OBVIOUS
<1>1. top <= clock /\ top \in Nat /\ clock \in Nat /\ run \in [Edrs -> RunRec]
  BY DEF TableInv, Typed, TablesTyped
<1>2. ASSUME UNCHANGED <<top, late>>, NEW e \in Edrs, NEW r, run' = [run EXCEPT ![e] = r], r.pc # "mark" PROVE InOrder'
  BY <1>1, <1>2 DEF InOrder
<1>3. ASSUME UNCHANGED <<top, late, run>> PROVE InOrder'
  BY <1>3 DEF InOrder
<1>4. CASE \/ \E f \in Fields : Edit(f)
           \/ Forwarder \/ BeginPullUnread \/ ExchangeLost \/ HubCrash \/ UNCHANGED vars
  <2>1. UNCHANGED <<top, late, run>>
    BY <1>4 DEF Edit, Forwarder, BeginPull, BeginPullUnread, Exchange, ExchangeLost, SaveUp, SaveDown,
                InsertCommands, HubCrash, vars, collector, table, outcomes
  <2>2. QED
    BY <1>3, <2>1
<1>5. ASSUME NEW e \in Edrs, Pull(e) PROVE InOrder'
  <2>1. UNCHANGED <<top, late>> /\ run' = [run EXCEPT ![e] = [IdleRun EXCEPT !.pc = "apply", !.batch = PendingCommands]]
    BY <1>5 DEF Pull, table, outcomes
  <2>2. [IdleRun EXCEPT !.pc = "apply", !.batch = PendingCommands].pc = "apply"
    BY DEF IdleRun
  <2>3. QED
    BY <1>2, <2>1, <2>2
<1>6. ASSUME NEW e \in Edrs, ApplyOk(e) \/ ApplyFails(e) \/ ApplyUnsupported(e) PROVE InOrder'
  <2>1. PICK ok \in BOOLEAN : Outcome(e, ok)
    BY <1>6 DEF ApplyOk, ApplyFails, ApplyUnsupported
  <2>2. run' = [run EXCEPT ![e] = [run[e] EXCEPT !.pc = "ack", !.ok = ok]]
    BY <1>1, <2>1 DEF Outcome
  <2>3. [run[e] EXCEPT !.pc = "ack", !.ok = ok].pc = "ack"
    BY <1>1 DEF RunRec
  <2>4. UNCHANGED <<top, late>>
    BY <1>6 DEF ApplyOk, ApplyFails, ApplyUnsupported, table, outcomes
  <2>5. QED
    BY <1>2, <2>2, <2>3, <2>4
<1>7. ASSUME NEW e \in Edrs, AckArrives(e) PROVE InOrder'
  <2>1. UNCHANGED <<top, late>>
    BY <1>7 DEF AckArrives, outcomes
  <2>2. PICK q \in Nat, r \in RunRec :
          /\ q = clock' /\ clock' \in {clock, clock + 1}
          /\ q = clock => \E d \in Edrs : run[d].pc = "mark" /\ run[d].at = q
          /\ r.pc = "mark" /\ r.at = q /\ r.batch = run[e].batch
          /\ run' = [run EXCEPT ![e] = r] /\ run[e].batch # <<>>
    BY <1>7, AckArrivesRun
  <2>3. top < q
    <3>1. \A d \in Edrs : run[d].pc # "mark"
      BY <1>7 DEF OneCollector, AckArrives
    <3>2. q = clock + 1
      BY <2>2, <3>1
    <3>3. QED
      BY <1>1, <3>2
  <2>4. \A d \in Edrs : run'[d].at = q
    BY <1>1, <2>2 DEF OneCollector
  <2>5. QED
    BY <2>1, <2>3, <2>4 DEF InOrder
<1>8. ASSUME NEW e \in Edrs, MarkCommand(e) PROVE InOrder'
  <2>1. run[e].pc = "mark" /\ run' = [run EXCEPT ![e] = NextCommand(run[e])]
        /\ (Committed(Cmd(e).id, run[e].at) \/ UNCHANGED <<top, late>>)
    BY <1>8 DEF MarkCommand
  <2>2. run[e].at > top
    BY <1>1, <2>1 DEF InOrder, RunRec
  <2>3. late' = {}
    BY <2>1, <2>2 DEF Committed, InOrder
  <2>4. NextCommand(run[e]).pc # "mark"
    <3>1. run[e] \in RunRec /\ run[e].batch # <<>>
      BY <2>1, HeadOrder
    <3>2. QED
      BY <3>1, NextCommandTyped
  <2>5. \A d \in Edrs : run'[d].pc # "mark"
    BY <1>1, <2>1, <2>4 DEF OneCollector
  <2>6. QED
    BY <2>3, <2>5 DEF InOrder
<1>9. ASSUME NEW e \in Edrs, AckLost(e) \/ EdrCrash(e) PROVE InOrder'
  <2>1. run[e].pc # "idle" /\ UNCHANGED <<top, late>>
    BY <1>9 DEF AckLost, EdrCrash, table, outcomes
  <2>2. run[e] \in RunRec /\ run[e].batch # <<>>
    BY <2>1, HeadOrder
  <2>3. NextCommand(run[e]).pc # "mark" /\ IdleRun.pc # "mark"
    BY <2>2, NextCommandTyped, IdleTyped
  <2>4. PICK r \in {NextCommand(run[e]), IdleRun} : run' = [run EXCEPT ![e] = r]
    BY <1>9 DEF AckLost, EdrCrash
  <2>5. QED
    BY <1>2, <2>1, <2>3, <2>4
<1>10. QED
  BY <1>4, <1>5, <1>6, <1>7, <1>8, <1>9 DEF Next, Runner

\* With one collector no outcome is late: every outcome behind the up cursor is known
\* to the Aggregator (MarkCommand's now() is in the order of the acks).
THEOREM CommandsOneCollectorInOrder == OneCollector => (Spec => [](late = {}))
<1> SUFFICES ASSUME OneCollector PROVE Spec => [](late = {})
  OBVIOUS
<1>1. Spec => []TableInv
  BY TableInit, TableStep, PTL DEF Spec
<1>2. Init => InOrder
  <2> SUFFICES ASSUME Init PROVE InOrder
    OBVIOUS
  <2>1. late = {} /\ run = [e \in Edrs |-> IdleRun]
    BY DEF Init
  <2>2. QED
    BY <2>1, IdleTyped DEF InOrder
<1>3. InOrder => late = {}
  BY DEF InOrder
<1>4. QED
  BY <1>1, <1>2, <1>3, InOrderStep, PTL DEF Spec

-----------------------------------------------------------------------------
(* Values.  All that is queued, held or written is an edit that an answer  *)
(* has covered; no value waits that is older than what was written under   *)
(* its name, and no collector holds one older than what it has written.    *)

Given(f, v) == v \in 1..Len(edits) /\ edits[v] = f /\ (Answered => v <= fwd.cursor)

ValuesGiven ==
  /\ \A i \in DOMAIN rows : Given(rows[i].field, rows[i].value)
  /\ \A e \in Edrs : \A k \in DOMAIN run[e].batch : Given(run[e].batch[k].field, run[e].batch[k].value)
  /\ \A w \in Writes : Given(w.field, w.value)

\* What a collector holds: of a field one value, not older than those it has written.
BatchNewest ==
  \A e \in Edrs : \A k \in DOMAIN run[e].batch :
    /\ \A w \in Writes : w.field = run[e].batch[k].field /\ w.by = e => w.value <= run[e].batch[k].value
    /\ \A l \in DOMAIN run[e].batch :
         run[e].batch[k].field = run[e].batch[l].field => run[e].batch[k].value = run[e].batch[l].value

\* What waits in the table is not older than what was written or is held of its field.
RowsNewest ==
  \A i \in Pending(rows) :
    /\ \A w \in Writes : w.field = rows[i].field => w.value <= rows[i].value
    /\ \A e \in Edrs : \A k \in DOMAIN run[e].batch :
         run[e].batch[k].field = rows[i].field => run[e].batch[k].value <= rows[i].value

ValueInv == ValuesGiven /\ BatchNewest /\ RowsNewest /\ DeviceNeverRegresses

\* A batch that is part of the one before.
Part(s, t) == \A k \in DOMAIN s : \E l \in DOMAIN t : s[k] = t[l]

\* Edits stay, and an answer covers the edits made before it.
Grows ==
  /\ \A v \in 1..Len(edits) : v \in 1..Len(edits') /\ edits'[v] = edits[v]
  /\ Answered' => \/ \A v \in 1..Len(edits) : v <= fwd'.cursor
                  \/ Answered /\ fwd'.cursor = fwd.cursor

GivenNext(f, v) == v \in 1..Len(edits') /\ edits'[v] = f /\ (Answered' => v <= fwd'.cursor)

LEMMA GivenStays == ASSUME Grows, NEW f, NEW v, Given(f, v) PROVE GivenNext(f, v)
BY DEF Grows, Given, GivenNext

LEMMA ValuesGivenNext ==
  ASSUME \A i \in DOMAIN rows' : GivenNext(rows'[i].field, rows'[i].value),
         \A e \in Edrs : \A k \in DOMAIN run'[e].batch : GivenNext(run'[e].batch[k].field, run'[e].batch[k].value),
         \A w \in Writes' : GivenNext(w.field, w.value)
  PROVE  ValuesGiven'
BY DEF ValuesGiven, Given, GivenNext

LEMMA WritesSame == ASSUME UNCHANGED device PROVE Writes' = Writes
BY DEF Writes

\* Answers and batches come and go, rows are finished: all values are still there.
LEMMA ValuesFrame ==
  ASSUME ValueInv, UNCHANGED device, Grows,
         DOMAIN rows' = DOMAIN rows, Pending(rows') \subseteq Pending(rows),
         \A i \in DOMAIN rows : rows'[i].field = rows[i].field /\ rows'[i].value = rows[i].value,
         \A e \in Edrs : Part(run'[e].batch, run[e].batch)
  PROVE  ValueInv'
<1>1. ValuesGiven'
  <2>1. ASSUME NEW i \in DOMAIN rows' PROVE GivenNext(rows'[i].field, rows'[i].value)
    <3>1. rows'[i].field = rows[i].field /\ rows'[i].value = rows[i].value /\ Given(rows[i].field, rows[i].value)
      BY DEF ValueInv, ValuesGiven
    <3>2. GivenNext(rows[i].field, rows[i].value)
      BY <3>1, GivenStays
    <3>3. QED
      BY <3>1, <3>2
  <2>2. ASSUME NEW e \in Edrs, NEW k \in DOMAIN run'[e].batch
        PROVE  GivenNext(run'[e].batch[k].field, run'[e].batch[k].value)
    <3>1. PICK l \in DOMAIN run[e].batch : run'[e].batch[k] = run[e].batch[l]
      BY DEF Part
    <3>2. Given(run[e].batch[l].field, run[e].batch[l].value)
      BY DEF ValueInv, ValuesGiven
    <3>3. QED
      BY <3>1, <3>2, GivenStays
  <2>3. ASSUME NEW w \in Writes' PROVE GivenNext(w.field, w.value)
    BY GivenStays, WritesSame DEF ValueInv, ValuesGiven
  <2>4. QED
    BY <2>1, <2>2, <2>3, ValuesGivenNext
<1>2. BatchNewest'
  BY WritesSame DEF ValueInv, BatchNewest, Part
<1>3. RowsNewest'
  <2>1. Pending(rows)' = Pending(rows')
    BY DEF Pending
  <2>2. \A i \in Pending(rows) : i \in DOMAIN rows
    BY DEF Pending
  <2>3. QED
    BY <2>1, <2>2, WritesSame DEF ValueInv, RowsNewest, Part
<1>4. DeviceNeverRegresses'
  <2>1. Pending(rows)' \subseteq Pending(rows) /\ \A i \in Pending(rows) : i \in DOMAIN rows
    BY DEF Pending
  <2>2. QED
    BY <2>1, WritesSame DEF ValueInv, DeviceNeverRegresses
<1>5. QED
  BY <1>1, <1>2, <1>3, <1>4 DEF ValueInv

\* A batch is a part of itself.
LEMMA PartSelf == ASSUME NEW s PROVE Part(s, s)
BY DEF Part

LEMMA PartNone == ASSUME NEW s PROVE Part(<<>>, s)
BY DEF Part

\* The user and the forwarder, up to its upsert.
LEMMA ForwarderValues ==
  ASSUME TableInv, ValueInv,
         \/ \E f \in Fields : Edit(f)
         \/ BeginPull \/ BeginPullUnread \/ Exchange \/ ExchangeLost \/ SaveUp \/ SaveDown \/ HubCrash
  PROVE  ValueInv'
<1>1. UNCHANGED <<rows, run, device>>
  BY DEF Edit, BeginPull, BeginPullUnread, Exchange, ExchangeLost, SaveUp, SaveDown, HubCrash,
         world, cursors, table, outcomes, collector
<1>2. edits \in Seq(Fields) /\ Len(edits) \in Nat /\ fwd \in FwdRec
  BY DEF TableInv, Typed, AggregatorTyped, FwdTyped
<1>3. Grows
  <2>1. ASSUME NEW f \in Fields, Edit(f) PROVE Grows
    <3>1. \A v \in 1..Len(edits) : v \in 1..Len(edits') /\ edits'[v] = edits[v]
      BY <1>2, <2>1 DEF Edit
    <3>2. fwd' = fwd
      BY <2>1 DEF Edit
    <3>3. QED
      BY <3>1, <3>2 DEF Grows, Answered
  <2>2. CASE BeginPull \/ BeginPullUnread
    <3>1. PICK since, done : SendPull(since, done)
      BY <2>2 DEF BeginPull, BeginPullUnread
    <3>2. fwd'.pc = "sent"
      BY <3>1 DEF SendPull, IdleFwd
    <3>3. edits' = edits
      BY <2>2 DEF BeginPull, BeginPullUnread, world
    <3>4. QED
      BY <3>2, <3>3 DEF Grows, Answered
  <2>3. CASE Exchange
    <3>1. fwd'.cursor = Len(edits) /\ edits' = edits
      BY <1>2, <2>3 DEF Exchange, FwdRec
    <3>2. QED
      BY <1>2, <3>1 DEF Grows
  <2>4. CASE ExchangeLost \/ HubCrash
    <3>1. fwd' = IdleFwd /\ edits' = edits
      BY <2>4 DEF ExchangeLost, HubCrash, world
    <3>2. QED
      BY <3>1, IdleTyped DEF Grows, Answered
  <2>5. CASE SaveUp
    <3>1. fwd'.cursor = fwd.cursor /\ fwd.pc = "saveUp" /\ edits' = edits
      BY <1>2, <2>5 DEF SaveUp, FwdRec, world
    <3>2. QED
      BY <3>1 DEF Grows, Answered
  <2>6. CASE SaveDown
    <3>1. fwd' \in {IdleFwd, [fwd EXCEPT !.pc = "insert"]} /\ fwd.pc = "saveDown" /\ edits' = edits
      BY <2>6 DEF SaveDown, AfterSaveDown, world
    <3>2. [fwd EXCEPT !.pc = "insert"].cursor = fwd.cursor
      BY <1>2 DEF FwdRec
    <3>3. QED
      BY <3>1, <3>2, IdleTyped DEF Grows, Answered
  <2>7. QED
    BY <2>1, <2>2, <2>3, <2>4, <2>5, <2>6
<1>4. \A e \in Edrs : Part(run'[e].batch, run[e].batch)
  BY <1>1, PartSelf
<1>5. QED
  BY <1>1, <1>3, <1>4, ValuesFrame

\* A collector goes on, drops or loses what it holds, and acknowledges.
LEMMA DropValues ==
  ASSUME TableInv, ValueInv, NEW e \in Edrs,
         AckArrives(e) \/ MarkCommand(e) \/ AckLost(e) \/ EdrCrash(e) \/ ApplyUnsupported(e)
  PROVE  ValueInv'
<1>1. UNCHANGED <<edits, fwd, device>> /\ run \in [Edrs -> RunRec] /\ run[e] \in RunRec /\ run[e].pc # "idle"
  BY DEF AckArrives, MarkCommand, AckLost, EdrCrash, ApplyUnsupported, world, TableInv, Typed
<1>2. Grows
  BY <1>1 DEF Grows, Answered
<1>3. /\ DOMAIN rows' = DOMAIN rows /\ Pending(rows') \subseteq Pending(rows)
      /\ \A i \in DOMAIN rows : rows'[i].field = rows[i].field /\ rows'[i].value = rows[i].value
  <2>1. CASE MarkCommand(e)
    <3>1. /\ rows[Cmd(e).id] \in Row /\ run[e].ok \in BOOLEAN /\ run[e].at \in Nat /\ DOMAIN rows' = DOMAIN rows
          /\ \A i \in DOMAIN rows : i # Cmd(e).id => rows'[i] = rows[i]
          /\ rows'[Cmd(e).id] = Mark(rows[Cmd(e).id], run[e].ok, run[e].at)
      BY <2>1, MarkCommandRow
    <3>2. PICK m : m = Mark(rows[Cmd(e).id], run[e].ok, run[e].at)
      OBVIOUS
    <3>3. /\ m.field = rows[Cmd(e).id].field /\ m.value = rows[Cmd(e).id].value
          /\ m.status = "pending" => rows[Cmd(e).id].status = "pending"
      BY <3>1, <3>2, MarkTyped
    <3>4. QED
      BY <3>1, <3>2, <3>3 DEF Pending
  <2>2. CASE UNCHANGED rows
    BY <2>2 DEF Pending
  <2>3. QED
    BY <2>1, <2>2 DEF AckArrives, AckLost, EdrCrash, ApplyUnsupported, table, outcomes
<1>4. PICK r : run' = [run EXCEPT ![e] = r] /\ Part(r.batch, run[e].batch)
  <2>1. CASE AckArrives(e)
    <3>1. PICK r : run' = [run EXCEPT ![e] = r] /\ r.batch = run[e].batch
      BY <2>1, AckArrivesRun
    <3>2. QED
      BY <3>1, PartSelf
  <2>2. CASE MarkCommand(e) \/ AckLost(e)
    <3>1. run[e].batch # <<>>
      BY <1>1, HeadOrder
    <3>2. Part(NextCommand(run[e]).batch, run[e].batch)
      BY <1>1, <3>1, NextCommandTyped DEF Part
    <3>3. run' = [run EXCEPT ![e] = NextCommand(run[e])]
      BY <2>2 DEF MarkCommand, AckLost
    <3>4. QED
      BY <3>2, <3>3
  <2>3. CASE EdrCrash(e)
    <3>1. run' = [run EXCEPT ![e] = IdleRun]
      BY <2>3 DEF EdrCrash
    <3>2. QED
      BY <3>1, IdleTyped, PartNone
  <2>4. CASE ApplyUnsupported(e)
    <3>1. run' = [run EXCEPT ![e] = [run[e] EXCEPT !.pc = "ack", !.ok = FALSE]]
      BY <1>1, <2>4 DEF ApplyUnsupported, Outcome
    <3>2. [run[e] EXCEPT !.pc = "ack", !.ok = FALSE].batch = run[e].batch
      BY <1>1 DEF RunRec
    <3>3. QED
      BY <3>1, <3>2, PartSelf
  <2>5. QED
    BY <2>1, <2>2, <2>3, <2>4
<1>5. \A d \in Edrs : Part(run'[d].batch, run[d].batch)
  <2>1. \A d \in Edrs : run'[d] = IF d = e THEN r ELSE run[d]
    BY <1>1, <1>4
  <2>2. QED
    BY <1>4, <2>1, PartSelf
<1>6. QED
  BY <1>1, <1>2, <1>3, <1>5, ValuesFrame

\* A collector takes what waits, as it is in the table by now.
LEMMA PullValues ==
  ASSUME TableInv, ValueInv, NEW e \in Edrs, Pull(e) PROVE ValueInv'
<1>1. UNCHANGED <<edits, fwd, rows, device>> /\ rows \in Seq(Row) /\ run \in [Edrs -> RunRec]
  BY DEF Pull, world, table, outcomes, TableInv, Typed, TablesTyped
<1>2. PICK b : b = PendingCommands
  OBVIOUS
<1>3. \A k \in DOMAIN b : b[k].id \in Pending(rows) /\ b[k] = Order(b[k].id)
  BY <1>1, <1>2, PendingCommandsTaken DEF Taken
<1>4. run'[e].batch = b /\ \A d \in Edrs : d # e => run'[d] = run[d]
  <2>1. run' = [run EXCEPT ![e] = [IdleRun EXCEPT !.pc = "apply", !.batch = b]]
    BY <1>2 DEF Pull
  <2>2. [IdleRun EXCEPT !.pc = "apply", !.batch = b].batch = b
    BY DEF IdleRun
  <2>3. QED
    BY <1>1, <2>1, <2>2
<1>5. \A k \in DOMAIN b : \E i \in Pending(rows) : b[k].id = i /\ b[k].field = rows[i].field
        /\ b[k].value = rows[i].value
  <2>1. \A i \in Pending(rows) : Order(i).id = i /\ Order(i).field = rows[i].field /\ Order(i).value = rows[i].value
    BY DEF Order
  <2>2. QED
    BY <1>3, <2>1
<1>6. \A i \in Pending(rows) : i \in DOMAIN rows /\ rows[i].value \in Int
  <2>1. \A i \in Pending(rows) : i \in DOMAIN rows
    BY DEF Pending
  <2>2. \A i \in DOMAIN rows : rows[i] \in Row
    BY <1>1
  <2>3. QED
    BY <2>1, <2>2 DEF Row, Values
<1>7. Grows
  BY <1>1 DEF Grows, Answered
<1>8. ValuesGiven'
  <2>1. \A i \in DOMAIN rows : GivenNext(rows[i].field, rows[i].value)
    BY <1>7, GivenStays DEF ValueInv, ValuesGiven
  <2>2. ASSUME NEW d \in Edrs, NEW k \in DOMAIN run'[d].batch
        PROVE  GivenNext(run'[d].batch[k].field, run'[d].batch[k].value)
    <3>1. CASE d = e
      BY <1>4, <1>5, <1>6, <2>1, <3>1
    <3>2. CASE d # e
      BY <1>4, <1>7, <3>2, GivenStays DEF ValueInv, ValuesGiven
    <3>3. QED
      BY <3>1, <3>2
  <2>3. ASSUME NEW w \in Writes' PROVE GivenNext(w.field, w.value)
    BY <1>1, <1>7, GivenStays, WritesSame DEF ValueInv, ValuesGiven
  <2>4. QED
    BY <1>1, <2>1, <2>2, <2>3, ValuesGivenNext
<1>9. BatchNewest'
  <2>1. \A k \in DOMAIN b : \A w \in Writes : w.field = b[k].field => w.value <= b[k].value
    BY <1>5 DEF ValueInv, RowsNewest
  <2>2. \A k, l \in DOMAIN b : b[k].field = b[l].field => b[k].value = b[l].value
    BY <1>5 DEF TableInv, OnePendingPerField
  <2>3. ASSUME NEW d \in Edrs, NEW k \in DOMAIN run'[d].batch
        PROVE  /\ \A w \in Writes : w.field = run'[d].batch[k].field /\ w.by = d => w.value <= run'[d].batch[k].value
               /\ \A l \in DOMAIN run'[d].batch :
                    run'[d].batch[k].field = run'[d].batch[l].field => run'[d].batch[k].value = run'[d].batch[l].value
    <3>1. CASE d = e
      BY <1>4, <2>1, <2>2, <3>1
    <3>2. CASE d # e
      BY <1>4, <3>2 DEF ValueInv, BatchNewest
    <3>3. QED
      BY <3>1, <3>2
  <2>4. QED
    BY <1>1, <2>3, WritesSame DEF BatchNewest
<1>10. RowsNewest'
  <2>1. \A i \in Pending(rows) : \A k \in DOMAIN b : b[k].field = rows[i].field => b[k].value <= rows[i].value
    BY <1>5, <1>6 DEF TableInv, OnePendingPerField
  <2>2. ASSUME NEW i \in Pending(rows), NEW d \in Edrs, NEW k \in DOMAIN run'[d].batch,
               run'[d].batch[k].field = rows[i].field
        PROVE  run'[d].batch[k].value <= rows[i].value
    <3>1. CASE d = e
      BY <1>4, <2>1, <2>2, <3>1
    <3>2. CASE d # e
      BY <1>4, <2>2, <3>2 DEF ValueInv, RowsNewest
    <3>3. QED
      BY <3>1, <3>2
  <2>3. QED
    BY <1>1, <2>2, WritesSame DEF RowsNewest, ValueInv, Pending
<1>11. DeviceNeverRegresses'
  BY <1>1, WritesSame DEF ValueInv, DeviceNeverRegresses, Pending
<1>12. QED
  BY <1>8, <1>9, <1>10, <1>11 DEF ValueInv

\* A write of a held value is as new as what the collector has written under its name.
LEMMA WriteValues ==
  ASSUME TableInv, ValueInv, NEW e \in Edrs, run[e].pc # "idle", Cmd(e).field \in Supported, Write(e, Cmd(e)),
         UNCHANGED <<edits, fwd, rows>>, \A d \in Edrs : run'[d].batch = run[d].batch
  PROVE  ValueInv'
<1>1. PICK c \in OrderRec : c = Cmd(e) /\ 1 \in DOMAIN run[e].batch /\ c = run[e].batch[1]
  BY HeadOrder
<1>2. PICK o \in Oids, w \in WriteRec, s \in Seq(WriteRec), t \in Seq(WriteRec) :
        /\ w.field = c.field /\ w.value = c.value /\ w.by = e
        /\ s = device[o] /\ (t = s \/ t = Append(s, w))
        /\ device' = [device EXCEPT ![o] = t]
  BY <1>1, WriteIs DEF TableInv, Typed
<1>3. device'[o] = t /\ \A q \in Oids : q # o => device'[q] = device[q]
  BY <1>2 DEF TableInv, Typed, DeviceTyped
<1>4. /\ \A k \in DOMAIN t : (k \in DOMAIN s /\ t[k] = s[k]) \/ (t[k] = w /\ \A i \in DOMAIN t : ~(k < i))
      /\ \A k \in DOMAIN s : k \in Int
  <2>1. CASE t = s
    BY <2>1
  <2>2. CASE t = Append(s, w)
    <3>1. /\ Len(s) \in Nat /\ DOMAIN s = 1..Len(s) /\ DOMAIN t = 1..(Len(s) + 1) /\ t[Len(s) + 1] = w
          /\ \A k \in 1..Len(s) : t[k] = s[k]
      BY <2>2
    <3>2. ASSUME NEW k \in DOMAIN t PROVE (k \in DOMAIN s /\ t[k] = s[k]) \/ (t[k] = w /\ \A i \in DOMAIN t : ~(k < i))
      <4>1. k \in 1..Len(s) \/ (k = Len(s) + 1 /\ \A i \in 1..(Len(s) + 1) : ~(k < i))
        BY <3>1
      <4>2. QED
        BY <3>1, <4>1
    <3>3. QED
      BY <3>1, <3>2
  <2>3. QED
    BY <1>2, <2>1, <2>2
<1>5. ASSUME NEW x, x \in Writes' PROVE x \in Writes \/ x = w
  <2>1. PICK q \in Oids : \E k \in DOMAIN device'[q] : x = device'[q][k]
    <3>1. (x \in Writes)' <=> (\E q \in Oids : \E k \in DOMAIN device[q] : x = device[q][k])'
      BY InWrites DEF Writes, ToSet
    <3>2. QED
      BY <1>5, <3>1
  <2>2. PICK k \in DOMAIN device'[q] : x = device'[q][k]
    BY <2>1
  <2>3. CASE q = o
    <3>1. x = w \/ (k \in DOMAIN device[o] /\ x = device[o][k])
      BY <1>2, <1>3, <1>4, <2>2, <2>3
    <3>2. QED
      BY <3>1, InWrites
  <2>4. CASE q # o
    BY <1>3, <2>2, <2>4, InWrites
  <2>5. QED
    BY <2>3, <2>4
<1>6. Grows
  BY DEF Grows, Answered
<1>7. ValuesGiven'
  <2>1. ASSUME NEW i \in DOMAIN rows' PROVE GivenNext(rows'[i].field, rows'[i].value)
    BY <1>6, GivenStays DEF ValueInv, ValuesGiven
  <2>2. ASSUME NEW d \in Edrs, NEW k \in DOMAIN run'[d].batch
        PROVE  GivenNext(run'[d].batch[k].field, run'[d].batch[k].value)
    BY <1>6, GivenStays DEF ValueInv, ValuesGiven
  <2>3. Given(w.field, w.value)
    BY <1>1, <1>2 DEF ValueInv, ValuesGiven
  <2>4. ASSUME NEW x \in Writes' PROVE GivenNext(x.field, x.value)
    BY <1>5, <1>6, <2>3, GivenStays DEF ValueInv, ValuesGiven
  <2>5. QED
    BY <2>1, <2>2, <2>4, ValuesGivenNext
<1>8. BatchNewest'
  <2>1. ASSUME NEW d \in Edrs, NEW k \in DOMAIN run[d].batch, NEW x \in Writes',
               x.field = run[d].batch[k].field, x.by = d
        PROVE  x.value <= run[d].batch[k].value
    <3>1. CASE x \in Writes
      BY <2>1, <3>1 DEF ValueInv, BatchNewest
    <3>2. CASE x = w
      <4>1. d = e /\ run[e].batch[k].field = run[e].batch[1].field
        BY <1>1, <1>2, <2>1, <3>2
      <4>2. run[e].batch[k].value = w.value
        BY <1>1, <1>2, <2>1, <4>1 DEF ValueInv, BatchNewest
      <4>3. w.value \in Int
        BY DEF WriteRec, Values
      <4>4. QED
        BY <3>2, <4>1, <4>2, <4>3
    <3>3. QED
      BY <1>5, <3>1, <3>2
  <2>2. \A d \in Edrs : \A k, l \in DOMAIN run[d].batch :
          run[d].batch[k].field = run[d].batch[l].field => run[d].batch[k].value = run[d].batch[l].value
    BY DEF ValueInv, BatchNewest
  <2>3. QED
    BY <2>1, <2>2 DEF BatchNewest
<1>9. RowsNewest'
  <2>1. ASSUME NEW i \in Pending(rows), NEW x \in Writes', x.field = rows[i].field PROVE x.value <= rows[i].value
    <3>1. CASE x \in Writes
      BY <2>1, <3>1 DEF ValueInv, RowsNewest
    <3>2. CASE x = w
      BY <1>1, <1>2, <2>1, <3>2 DEF ValueInv, RowsNewest
    <3>3. QED
      BY <1>5, <3>1, <3>2
  <2>2. QED
    BY <2>1 DEF ValueInv, RowsNewest, Pending
<1>10. DeviceNeverRegresses'
  <2>1. ASSUME NEW i \in DOMAIN t, NEW j \in DOMAIN t, i < j, t[i].field = t[j].field, t[i].by = t[j].by
        PROVE  t[i].value <= t[j].value
    <3>1. i \in DOMAIN s /\ t[i] = s[i]
      BY <1>4, <2>1
    <3>2. CASE j \in DOMAIN s /\ t[j] = s[j]
      BY <1>2, <2>1, <3>1, <3>2 DEF ValueInv, DeviceNeverRegresses
    <3>3. CASE t[j] = w
      <4>1. s[i] \in Writes
        BY <1>2, <3>1, InWrites
      <4>2. QED
        BY <1>1, <1>2, <2>1, <3>1, <3>3, <4>1 DEF ValueInv, BatchNewest
    <3>4. QED
      BY <1>4, <3>2, <3>3
  <2>2. ASSUME NEW q \in Oids, NEW i \in DOMAIN device'[q], NEW j \in DOMAIN device'[q], i < j,
               device'[q][i].field = device'[q][j].field, device'[q][i].by = device'[q][j].by
        PROVE  device'[q][i].value <= device'[q][j].value
    <3>1. CASE q = o
      BY <1>3, <2>1, <2>2, <3>1
    <3>2. CASE q # o
      BY <1>3, <2>2, <3>2 DEF ValueInv, DeviceNeverRegresses
    <3>3. QED
      BY <3>1, <3>2
  <2>3. QED
    BY <1>9, <2>2 DEF DeviceNeverRegresses, RowsNewest
<1>11. QED
  BY <1>7, <1>8, <1>9, <1>10 DEF ValueInv

\* Two tables, the later one with rows changed or added that have a given value and
\* are as new as all that is given of their field.
LEMMA UpsertValues ==
  ASSUME TableInv, ValueInv, InsertCommands, rows' = Inserted(rows, fwd.changes) PROVE ValueInv'
<1>1. /\ UNCHANGED <<edits, run, device>> /\ fwd' = IdleFwd /\ fwd.pc = "insert"
      /\ fwd \in FwdRec /\ rows \in Seq(Row) /\ edits \in Seq(Fields)
  BY DEF InsertCommands, world, collector, TableInv, Typed, FwdTyped, TablesTyped, AggregatorTyped
<1>2. PICK cs, n, s, z : cs = fwd.changes /\ n = Len(fwd.changes) /\ s = fwd.since /\ z = fwd.cursor
  OBVIOUS
<1>3. cs \in Seq(Command) /\ n = Len(cs) /\ n \in Nat /\ s \in Nat /\ z \in Nat /\ z <= Len(edits)
        /\ Len(edits) \in Nat
  BY <1>1, <1>2 DEF FwdRec, TableInv, Typed, FwdTyped
<1>4. s + n = z /\ \A k \in 1..n : cs[k].field = edits[s + k] /\ cs[k].value = s + k
  BY <1>1, <1>2 DEF TableInv, Typed, FwdTyped, Answered
<1>5. Kept(rows, rows') /\ LastWins(rows, cs, n, rows')
  BY <1>1, <1>2, <1>3, InsertedKeeps
<1>6. Grows /\ ~(Answered')
  BY <1>1, IdleTyped DEF Grows, Answered
\* A command that is the last of its field is as new as all that is given of it.
<1>7. ASSUME NEW k \in 1..n, NEW f, NEW v, cs[k].field = f, \A m \in 1..n : m > k => cs[m].field # f
      PROVE  GivenNext(f, s + k) /\ (Given(f, v) => v <= s + k)
  <2>1. s + k \in 1..Len(edits) /\ edits[s + k] = f
    BY <1>3, <1>4, <1>7
  <2>2. GivenNext(f, s + k)
    BY <1>1, <1>6, <2>1 DEF GivenNext
  <2>3. ASSUME Given(f, v) PROVE v <= s + k
    <3>1. v \in 1..Len(edits) /\ edits[v] = f /\ v <= z
      BY <1>1, <1>2, <2>3 DEF Given, Answered
    <3>2. CASE v <= s
      BY <1>3, <3>1, <3>2
    <3>3. CASE v > s
      <4>1. PICK m \in 1..n : v = s + m
        <5>1. v - s \in 1..n /\ v = s + (v - s)
          BY <1>3, <1>4, <3>1, <3>3
        <5>2. QED
          BY <5>1
      <4>2. cs[m].field = f
        BY <1>4, <3>1, <4>1
      <4>3. ~(m > k)
        BY <1>7, <4>2
      <4>4. QED
        BY <1>3, <4>1, <4>3
    <3>4. QED
      BY <1>3, <3>1, <3>2, <3>3
  <2>4. QED
    BY <2>2, <2>3
<1>8. ASSUME NEW i \in Pending(rows')
      PROVE  \/ /\ GivenNext(rows'[i].field, rows'[i].value) /\ rows'[i].value \in Nat
                /\ \A v : Given(rows'[i].field, v) => v <= rows'[i].value
             \/ i \in Pending(rows) /\ rows'[i] = rows[i]
  <2>1. PICK x : x = rows'[i]
    OBVIOUS
  <2>2. ASSUME NEW k \in 1..n, cs[k].field = x.field, cs[k].value = x.value, \A m \in 1..n : m > k => cs[m].field # x.field
        PROVE  GivenNext(x.field, x.value) /\ x.value \in Nat /\ \A v : Given(x.field, v) => v <= x.value
    <3>1. x.value = s + k /\ x.value \in Nat
      BY <1>3, <1>4, <2>2
    <3>2. QED
      BY <1>7, <2>2, <3>1
  <2>3. ASSUME i \in DOMAIN rows, x = rows[i] PROVE i \in Pending(rows)
    BY <2>1, <2>3 DEF Pending
  <2>4. \/ \E k \in 1..n : /\ cs[k].field = x.field /\ cs[k].value = x.value
                           /\ \A m \in 1..n : m > k => cs[m].field # x.field
        \/ i \in DOMAIN rows /\ x = rows[i]
    BY <1>5, <2>1 DEF LastWins
  <2>5. QED
    BY <2>1, <2>2, <2>3, <2>4
<1>9. ASSUME NEW i \in DOMAIN rows PROVE GivenNext(rows[i].field, rows[i].value)
  BY <1>6, GivenStays DEF ValueInv, ValuesGiven
<1>10. ASSUME NEW i \in DOMAIN rows', i \notin Pending(rows') PROVE i \in DOMAIN rows /\ rows'[i] = rows[i]
  BY <1>5, <1>10 DEF Kept, Pending
<1>11. ValuesGiven'
  <2>1. ASSUME NEW i \in DOMAIN rows' PROVE GivenNext(rows'[i].field, rows'[i].value)
    <3>1. CASE i \in Pending(rows')
      <4>1. CASE GivenNext(rows'[i].field, rows'[i].value)
        BY <4>1
      <4>2. CASE i \in Pending(rows) /\ rows'[i] = rows[i]
        BY <1>9, <4>2 DEF Pending
      <4>3. QED
        BY <1>8, <3>1, <4>1, <4>2
    <3>2. CASE i \notin Pending(rows')
      BY <1>9, <1>10, <3>2
    <3>3. QED
      BY <3>1, <3>2
  <2>2. ASSUME NEW e \in Edrs, NEW k \in DOMAIN run'[e].batch
        PROVE  GivenNext(run'[e].batch[k].field, run'[e].batch[k].value)
    BY <1>1, <1>6, GivenStays DEF ValueInv, ValuesGiven
  <2>3. ASSUME NEW w \in Writes' PROVE GivenNext(w.field, w.value)
    BY <1>1, <1>6, GivenStays, WritesSame DEF ValueInv, ValuesGiven
  <2>4. QED
    BY <2>1, <2>2, <2>3, ValuesGivenNext
<1>12. RowsNewest'
  <2>1. ASSUME NEW i \in Pending(rows')
        PROVE  /\ \A w \in Writes : w.field = rows'[i].field => w.value <= rows'[i].value
               /\ \A e \in Edrs : \A k \in DOMAIN run[e].batch :
                    run[e].batch[k].field = rows'[i].field => run[e].batch[k].value <= rows'[i].value
    <3>1. CASE i \in Pending(rows) /\ rows'[i] = rows[i]
      BY <3>1 DEF ValueInv, RowsNewest
    <3>2. CASE \A v : Given(rows'[i].field, v) => v <= rows'[i].value
      BY <3>2 DEF ValueInv, ValuesGiven
    <3>3. QED
      BY <1>8, <3>1, <3>2
  <2>2. Pending(rows)' = Pending(rows')
    BY DEF Pending
  <2>3. QED
    BY <1>1, <2>1, <2>2, WritesSame DEF RowsNewest
<1>13. BatchNewest' /\ DeviceNeverRegresses'
  <2>1. BatchNewest'
    BY <1>1, WritesSame DEF ValueInv, BatchNewest
  <2>2. \A o \in Oids : \A i, j \in DOMAIN device'[o] :
          i < j /\ device'[o][i].field = device'[o][j].field /\ device'[o][i].by = device'[o][j].by =>
            device'[o][i].value <= device'[o][j].value
    BY <1>1 DEF ValueInv, DeviceNeverRegresses
  <2>3. QED
    BY <1>12, <2>1, <2>2 DEF RowsNewest, DeviceNeverRegresses
<1>14. QED
  BY <1>11, <1>12, <1>13 DEF ValueInv

LEMMA InsertCommandsValues == ASSUME TableInv, ValueInv, InsertCommands PROVE ValueInv'
<1>1. CASE UNCHANGED rows
  <2>1. UNCHANGED <<edits, run, device>> /\ fwd' = IdleFwd
    BY DEF InsertCommands, world, collector
  <2>2. Grows
    BY <2>1, IdleTyped DEF Grows, Answered
  <2>3. QED
    BY <1>1, <2>1, <2>2, ValuesFrame, PartSelf
<1>2. QED
  BY <1>1, UpsertValues DEF InsertCommands

\* The device takes the value, refuses it, or takes it and answers with an error.
LEMMA ApplyValues ==
  ASSUME TableInv, ValueInv, NEW e \in Edrs, ApplyOk(e) \/ ApplyFails(e) PROVE ValueInv'
<1>1. PICK ok \in BOOLEAN : Outcome(e, ok)
  BY DEF ApplyOk, ApplyFails
<1>2. UNCHANGED <<edits, fwd, rows>> /\ run[e].pc # "idle" /\ run \in [Edrs -> RunRec]
  BY DEF ApplyOk, ApplyFails, world, table, outcomes, TableInv, Typed
<1>3. \A d \in Edrs : run'[d].batch = run[d].batch
  <2>1. run' = [run EXCEPT ![e] = [run[e] EXCEPT !.pc = "ack", !.ok = ok]]
    BY <1>1, <1>2 DEF Outcome
  <2>2. [run[e] EXCEPT !.pc = "ack", !.ok = ok].batch = run[e].batch
    BY <1>2 DEF RunRec
  <2>3. QED
    BY <1>2, <2>1, <2>2
<1>4. CASE Cmd(e).field \in Supported /\ Write(e, Cmd(e))
  BY <1>2, <1>3, <1>4, WriteValues
<1>5. CASE UNCHANGED device
  <2>1. Grows
    BY <1>2 DEF Grows, Answered
  <2>2. QED
    BY <1>2, <1>3, <1>5, <2>1, ValuesFrame, PartSelf
<1>6. QED
  BY <1>4, <1>5 DEF ApplyOk, ApplyFails

LEMMA ValueStep == TableInv /\ ValueInv /\ [Next]_vars => ValueInv'
<1> SUFFICES ASSUME TableInv, ValueInv, [Next]_vars PROVE ValueInv'
  OBVIOUS
<1>1. ASSUME NEW e \in Edrs, Runner(e) \/ AckLost(e) \/ EdrCrash(e) PROVE ValueInv'
  BY <1>1, PullValues, ApplyValues, DropValues DEF Runner
<1>2. CASE UNCHANGED vars
  <2>1. UNCHANGED <<edits, fwd, rows, run, device>>
    BY <1>2 DEF vars, world, table, outcomes, collector
  <2>2. Grows
    BY <2>1 DEF Grows, Answered
  <2>3. QED
    BY <2>1, <2>2, ValuesFrame, PartSelf
<1>3. QED
  BY <1>1, <1>2, ForwarderValues, InsertCommandsValues DEF Next, Forwarder

\* Through replays of the feed, lost acknowledgements, half-done batches and restarts,
\* the values that a collector writes under one name only get newer, and what waits in
\* the table is as new as all that any of them has written under its name.
THEOREM CommandsDeviceNeverRegresses == Spec => []DeviceNeverRegresses
<1>1. Spec => []TableInv
  BY TableInit, TableStep, PTL DEF Spec
<1>2. Init => ValueInv
  <2> SUFFICES ASSUME Init PROVE ValueInv
    OBVIOUS
  <2>1. rows = <<>> /\ run = [e \in Edrs |-> IdleRun] /\ device = [o \in Oids |-> <<>>]
    BY DEF Init
  <2>2. DOMAIN rows = {} /\ (\A e \in Edrs : DOMAIN run[e].batch = {}) /\ \A o \in Oids : DOMAIN device[o] = {}
    BY <2>1, IdleTyped
  <2>3. \A w : w \notin Writes
    BY <2>2, InWrites
  <2>4. QED
    BY <2>2, <2>3 DEF ValueInv, ValuesGiven, BatchNewest, RowsNewest, DeviceNeverRegresses, Pending
<1>3. ValueInv => DeviceNeverRegresses
  BY DEF ValueInv
<1>4. QED
  BY <1>1, <1>2, <1>3, ValueStep, PTL DEF Spec
=============================================================================
