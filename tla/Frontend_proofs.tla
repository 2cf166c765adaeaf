-------------------------- MODULE Frontend_proofs ---------------------------
(***************************************************************************)
(* Proofs about instruction fetch, for every program, every size of the    *)
(* memory and every depth of the instruction queue.                        *)
(***************************************************************************)
EXTENDS Frontend, Integers, SequenceTheorems, FiniteSetTheorems, TLAPS

-----------------------------------------------------------------------------
(* Addresses.                                                              *)

\* Addresses wrap around at the end of memory.
LEMMA Plus ==
    ASSUME NEW a \in Address, NEW n \in {1, 2}
    PROVE  /\ plus(a, n) \in Address
           /\ a + n < SIZE => plus(a, n) = a + n
           /\ a + n >= SIZE => plus(a, n) = a + n - SIZE
<1>1. SIZE \in Nat \ {0} /\ SIZE % 2 = 0 /\ a \in 0 .. SIZE - 1
  BY FrontendAssumption DEF Address
<1>2. SIZE >= 2
  BY <1>1
<1>3. CASE a + n < SIZE
  BY <1>1, <1>3 DEF plus, Address
<1>4. CASE a + n >= SIZE
  <2>1. a + n = SIZE * 1 + (a + n - SIZE) /\ a + n - SIZE \in 0 .. SIZE - 1
    BY <1>1, <1>2, <1>4
  <2>2. (a + n) % SIZE = a + n - SIZE
    <3> DEFINE d == (a + n) \div SIZE
               r == (a + n) % SIZE
    <3>1. d \in Int /\ r \in 0 .. SIZE - 1 /\ a + n = SIZE * d + r
      BY <1>1
    <3> HIDE DEF d, r
    <3>2. d >= 2 => SIZE * d >= 2 * SIZE
      BY <1>1, <3>1
    <3>3. d <= 0 => SIZE * d <= 0
      BY <1>1, <3>1
    <3>4. d = 1
      BY <1>1, <1>4, <2>1, <3>1, <3>2, <3>3
    <3>5. r = a + n - SIZE
      BY <1>1, <3>1, <3>4
    <3> QED BY <3>5 DEF r
  <2>3. plus(a, n) = a + n - SIZE
    BY <2>2, Zenon DEF plus
  <2> QED BY <1>1, <1>4, <2>1, <2>3 DEF Address
<1> QED BY <1>1, <1>3, <1>4

\* The word of an address, and the addresses after it.
LEMMA WordFacts ==
    ASSUME NEW a \in Address
    PROVE  /\ word(a) \in Address /\ word(a) % 2 = 0 /\ word(a) + 1 \in Address
           /\ odd(a) => a = word(a) + 1 /\ plus(a, 1) = plus(word(a), 2)
           /\ ~odd(a) => a = word(a) /\ plus(a, 1) = a + 1 /\ word(a + 1) = a
           /\ odd(word(a) + 1) /\ word(word(a) + 1) = word(a)
<1>1. SIZE \in Nat \ {0} /\ SIZE % 2 = 0 /\ a \in 0 .. SIZE - 1
  BY FrontendAssumption DEF Address
<1>2. word(a) \in Address /\ word(a) % 2 = 0 /\ word(a) + 1 \in Address
  BY <1>1 DEF word, Address
<1>3. odd(a) => a = word(a) + 1
  BY <1>1 DEF word, odd
<1>4. ~odd(a) => a = word(a) /\ a + 1 < SIZE /\ word(a + 1) = a
  BY <1>1 DEF word, odd
<1>5. odd(a) => plus(a, 1) = plus(word(a), 2)
  BY <1>1, <1>2, <1>3, Plus DEF Address
<1>6. ~odd(a) => plus(a, 1) = a + 1
  BY <1>4, Plus
<1>7. odd(word(a) + 1) /\ word(word(a) + 1) = word(a)
  BY <1>1, <1>2 DEF word, odd
<1> QED BY <1>2, <1>3, <1>4, <1>5, <1>6, <1>7

-----------------------------------------------------------------------------
(* The route that the instruction queue describes: entries `es' and the    *)
(* addresses `ts' that go with those of them that change the control flow. *)

\* Entry e is the instruction at address a, or the back end can tell that it
\* is not.
Right(e, a) ==
    /\ e.ex \/ halfLost(e, a) \/ (e.lo = a /\ e.hi = IF comp(a) THEN None ELSE plus(a, 1))
    /\ e.ex = faulty(a) \/ halfLost(e, a)

\* Address t is the target of e, when the instruction says so.
Target(e, t) == e.cf /\ ~e.ex /\ kind(e.lo) \in {"jump", "branch"} => t = Mem[e.lo].target

\* What follows e is flushed.
ends(e, a) == e.ex \/ e.wild \/ halfLost(e, a)

after(e, t, a) == IF e.cf THEN t ELSE plus(a, length(a))

\* c[k] addresses belong to the first k entries.
Counts(es, ts, c) ==
    /\ c \in [0 .. Len(es) -> 0 .. Len(ts)]
    /\ c[0] = 0 /\ c[Len(es)] = Len(ts)
    /\ \A k \in 1 .. Len(es) : c[k] = c[k - 1] + (IF es[k].cf THEN 1 ELSE 0)
    /\ \A j, k \in 0 .. Len(es) : j <= k => c[j] <= c[k]

\* Entry k is that of address f[k], from f[1] = a on.  After m of them comes one
\* that ends the route, or the route goes on at z, behind the last entry.
Follows(es, ts, c, m, f, a, z) ==
    /\ m \in 0 .. Len(es) /\ f \in [1 .. m + 1 -> Address] /\ f[1] = a
    /\ \A k \in 1 .. m :
         /\ Right(es[k], f[k]) /\ Target(es[k], ts[c[k]]) /\ ~ends(es[k], f[k])
         /\ f[k + 1] = after(es[k], ts[c[k]], f[k])
    /\ m < Len(es) => /\ Right(es[m + 1], f[m + 1]) /\ Target(es[m + 1], ts[c[m + 1]])
                      /\ ends(es[m + 1], f[m + 1])
    /\ m = Len(es) => f[m + 1] = z

\* Nothing is said of the route once the back end is lost.
Route(es, ts, a, z, lst) ==
    \E c : Counts(es, ts, c) /\ (lst \/ \E m, f : Follows(es, ts, c, m, f, a, z))

\* The route begins with its first entry.
LEMMA RouteHead ==
    ASSUME NEW es \in Seq(Entry), NEW ts \in Seq(Address), NEW a, NEW z, es # <<>>, Route(es, ts, a, z, FALSE)
    PROVE  /\ Right(es[1], a)
           /\ es[1].cf => ts # <<>> /\ Target(es[1], ts[1])
<1>1. PICK c, m, f : Counts(es, ts, c) /\ Follows(es, ts, c, m, f, a, z)
  BY DEF Route
<1>2. Len(es) \in Nat /\ Len(es) >= 1 /\ m \in 0 .. Len(es) /\ f[1] = a
  BY <1>1 DEF Follows
<1>3. Right(es[1], a) /\ Target(es[1], ts[c[1]])
  <2>1. CASE m = 0
    BY <1>1, <1>2, <2>1 DEF Follows
  <2>2. CASE m >= 1
    BY <1>1, <1>2, <2>2 DEF Follows
  <2> QED BY <1>2, <2>1, <2>2
<1>4. es[1].cf => c[1] = 1 /\ ts # <<>>
  <2>1. c[1] = c[0] + (IF es[1].cf THEN 1 ELSE 0) /\ c[0] = 0 /\ c[1] \in 0 .. Len(ts)
    BY <1>1, <1>2 DEF Counts
  <2> QED BY <2>1
<1> QED BY <1>3, <1>4

\* The first entry leaves.
LEMMA RoutePop ==
    ASSUME NEW es \in Seq(Entry), NEW ts \in Seq(Address), NEW a, NEW z, NEW lst \in BOOLEAN, es # <<>>,
           Route(es, ts, a, z, lst)
    PROVE  /\ es[1].cf => ts # <<>>
           /\ Route(Tail(es), IF es[1].cf THEN Tail(ts) ELSE ts, after(es[1], ts[1], a), z,
                    lst \/ ends(es[1], a))
<1> DEFINE n == Len(es)
           e == es[1]
           es1 == Tail(es)
           ts1 == IF e.cf THEN Tail(ts) ELSE ts
<1>1. PICK c : Counts(es, ts, c) /\ (lst \/ \E m, f : Follows(es, ts, c, m, f, a, z))
  BY DEF Route
<1>2. /\ n \in Nat /\ n >= 1 /\ es1 \in Seq(Entry) /\ Len(es1) = n - 1
      /\ \A k \in 1 .. n - 1 : es1[k] = es[k + 1]
  OBVIOUS
<1>3. /\ c \in [0 .. n -> 0 .. Len(ts)] /\ c[0] = 0 /\ c[n] = Len(ts)
      /\ \A k \in 1 .. n : c[k] = c[k - 1] + (IF es[k].cf THEN 1 ELSE 0)
      /\ \A j, k \in 0 .. n : j <= k => c[j] <= c[k]
  BY <1>1 DEF Counts
<1>4. c[1] = (IF e.cf THEN 1 ELSE 0) /\ c[1] <= Len(ts) /\ Len(ts) \in Nat
  BY <1>2, <1>3
<1>5. /\ e.cf => ts # <<>>
      /\ ts1 \in Seq(Address) /\ Len(ts1) = Len(ts) - c[1]
      /\ \A k \in 1 .. Len(ts) - c[1] : ts1[k] = ts[k + c[1]]
  <2>1. CASE e.cf
    BY <1>4, <2>1
  <2>2. CASE ~e.cf
    BY <1>4, <2>2
  <2> QED BY <2>1, <2>2
<1> DEFINE c1 == [k \in 0 .. n - 1 |-> c[k + 1] - c[1]]
<1> HIDE DEF n, e, es1, ts1
<1>6. Counts(es1, ts1, c1)
  <2>1. \A k \in 0 .. n - 1 : c[k + 1] \in 0 .. Len(ts) /\ c[k + 1] >= c[1] /\ c1[k] = c[k + 1] - c[1]
    BY <1>2, <1>3
  <2>2. c1 \in [0 .. n - 1 -> 0 .. Len(ts1)]
    BY <1>2, <1>4, <1>5, <2>1
  <2>3. c1[0] = 0 /\ c1[n - 1] = Len(ts1)
    BY <1>2, <1>3, <1>4, <1>5, <2>1
  <2>4. ASSUME NEW k \in 1 .. n - 1 PROVE c1[k] = c1[k - 1] + (IF es1[k].cf THEN 1 ELSE 0)
    <3>1. c[k + 1] = c[k] + (IF es[k + 1].cf THEN 1 ELSE 0) /\ es1[k] = es[k + 1]
      BY <1>2, <1>3, SMTT(30)
    <3>2. c1[k] = c[k + 1] - c[1] /\ c1[k - 1] = c[k] - c[1] /\ c[k] \in Nat /\ c[1] \in Nat
      <4>1. k \in 0 .. n - 1 /\ k - 1 \in 0 .. n - 1 /\ (k - 1) + 1 = k
        BY <1>2
      <4>2. c1[k] = c[k + 1] - c[1] /\ c1[k - 1] = c[(k - 1) + 1] - c[1] /\ c[(k - 1) + 1] \in 0 .. Len(ts)
        BY <2>1, <4>1
      <4> QED BY <1>4, <4>1, <4>2
    <3> QED BY <3>1, <3>2
  <2>5. \A j, k \in 0 .. n - 1 : j <= k => c1[j] <= c1[k]
    BY <1>2, <1>3, <2>1
  <2> QED BY <1>2, <2>2, <2>3, <2>4, <2>5 DEF Counts
<1>7. ASSUME ~lst, ~ends(e, a)
      PROVE  \E m, f : Follows(es1, ts1, c1, m, f, after(e, ts[1], a), z)
  <2>1. PICK m, f : Follows(es, ts, c, m, f, a, z)
    BY <1>1, <1>7
  <2>2. m \in 0 .. n /\ f \in [1 .. m + 1 -> Address] /\ f[1] = a
    BY <2>1 DEF Follows, n
  <2>3. m # 0
    BY <1>2, <1>7, <2>1, <2>2 DEF Follows, n, e
  <2> DEFINE m1 == m - 1
             f1 == [k \in 1 .. m |-> f[k + 1]]
  <2>4. m1 \in 0 .. n - 1 /\ f1 \in [1 .. m1 + 1 -> Address]
    BY <1>2, <2>2, <2>3
  <2>5. f1[1] = after(e, ts[1], a)
    <3>1. f[2] = after(es[1], ts[c[1]], f[1])
      BY <2>1, <2>2, <2>3 DEF Follows
    <3>2. f1[1] = f[2]
      BY <2>2, <2>3
    <3> QED BY <1>4, <2>2, <3>1, <3>2 DEF e, after
  <2>6. ASSUME NEW k \in 1 .. n - 1, es1[k].cf PROVE ts1[c1[k]] = ts[c[k + 1]]
    <3>1. c[k + 1] = c[k] + 1 /\ c[k] >= c[1] /\ c[k + 1] <= Len(ts) /\ c[k] \in Nat /\ c[k + 1] \in Nat
      <4>1. k + 1 \in 1 .. n /\ (k + 1) - 1 = k /\ k \in 0 .. n /\ 1 \in 0 .. n /\ 1 <= k /\ es[k + 1].cf
        BY <1>2, <2>6
      <4>2. c[k + 1] = c[k] + (IF es[k + 1].cf THEN 1 ELSE 0)
        BY <1>3, <4>1
      <4>3. c[1] <= c[k] /\ c[k] \in 0 .. Len(ts) /\ c[k + 1] \in 0 .. Len(ts)
        BY <1>3, <4>1, SMTT(30)
      <4>4. c[k + 1] = c[k] + 1
        BY <4>1, <4>2
      <4>5. c[1] \in Nat /\ Len(ts) \in Nat
        BY <1>4
      <4> QED BY <4>3, <4>4, <4>5
    <3>2. c1[k] = c[k + 1] - c[1]
      BY <1>2
    <3> QED BY <1>4, <1>5, <3>1, <3>2
  <2>7. ASSUME NEW k \in 1 .. m1
        PROVE  /\ Right(es1[k], f1[k]) /\ Target(es1[k], ts1[c1[k]]) /\ ~ends(es1[k], f1[k])
               /\ f1[k + 1] = after(es1[k], ts1[c1[k]], f1[k])
    <3>0. m \in Nat /\ m >= 1 /\ m <= n /\ k + 1 \in 1 .. m /\ k \in 1 .. m /\ k \in 1 .. n - 1
      BY <1>2, <2>2, <2>3
    <3>1. k + 1 \in 1 .. m /\ k \in 1 .. n - 1 /\ es1[k] = es[k + 1] /\ f1[k] = f[k + 1] /\ f1[k + 1] = f[(k + 1) + 1]
      BY <1>2, <3>0
    <3>2. /\ Right(es[k + 1], f[k + 1]) /\ Target(es[k + 1], ts[c[k + 1]]) /\ ~ends(es[k + 1], f[k + 1])
          /\ f[(k + 1) + 1] = after(es[k + 1], ts[c[k + 1]], f[k + 1])
      BY <2>1, <3>1 DEF Follows
    <3> HIDE DEF f1, c1, m1
    <3>3. Target(es1[k], ts1[c1[k]])
      BY <2>6, <3>1, <3>2 DEF Target
    <3>4. f1[k + 1] = after(es1[k], ts1[c1[k]], f1[k])
      BY <2>6, <3>1, <3>2 DEF after
    <3> QED BY <3>1, <3>2, <3>3, <3>4
  <2>8. ASSUME m1 < n - 1
        PROVE  /\ Right(es1[m1 + 1], f1[m1 + 1]) /\ Target(es1[m1 + 1], ts1[c1[m1 + 1]])
               /\ ends(es1[m1 + 1], f1[m1 + 1])
    <3>1. m < n /\ m \in 1 .. n - 1 /\ m1 + 1 = m /\ es1[m] = es[m + 1] /\ f1[m] = f[m + 1]
      BY <1>2, <2>2, <2>3, <2>8
    <3>2. Right(es[m + 1], f[m + 1]) /\ Target(es[m + 1], ts[c[m + 1]]) /\ ends(es[m + 1], f[m + 1])
      BY <2>1, <3>1 DEF Follows, n
    <3> HIDE DEF f1, c1, m1
    <3>3. Target(es1[m], ts1[c1[m]])
      BY <2>6, <3>1, <3>2 DEF Target
    <3> QED BY <3>1, <3>2, <3>3
  <2>9. m1 = n - 1 => f1[m1 + 1] = z
    BY <1>2, <2>1, <2>2, <2>3 DEF Follows, n
  <2> HIDE DEF m1, f1, c1
  <2>10. Follows(es1, ts1, c1, m1, f1, after(e, ts[1], a), z)
    BY <1>2, <2>4, <2>5, <2>7, <2>8, <2>9 DEF Follows
  <2> QED BY <2>10
<1> HIDE DEF c1
<1>8. Route(es1, ts1, after(e, ts[1], a), z, lst \/ ends(e, a))
  BY <1>6, <1>7 DEF Route
<1> QED BY <1>5, <1>8 DEF es1, ts1, e

\* An entry is added where the route goes on.
LEMMA RoutePush ==
    ASSUME NEW es \in Seq(Entry), NEW ts \in Seq(Address), NEW a, NEW z, NEW lst \in BOOLEAN,
           Route(es, ts, a, z, lst),
           NEW e \in Entry, NEW t \in Address, NEW z1 \in Address, Right(e, z), Target(e, t),
           ends(e, z) \/ z1 = after(e, t, z)
    PROVE  Route(Append(es, e), IF e.cf THEN Append(ts, t) ELSE ts, a, z1, lst)
<1> DEFINE n == Len(es)
           es1 == Append(es, e)
           ts1 == IF e.cf THEN Append(ts, t) ELSE ts
           i == IF e.cf THEN 1 ELSE 0
<1>1. PICK c : Counts(es, ts, c) /\ (lst \/ \E m, f : Follows(es, ts, c, m, f, a, z))
  BY DEF Route
<1>2. /\ n \in Nat /\ es1 \in Seq(Entry) /\ Len(es1) = n + 1
      /\ \A k \in 1 .. n : es1[k] = es[k]
      /\ es1[n + 1] = e
  OBVIOUS
<1>3. /\ c \in [0 .. n -> 0 .. Len(ts)] /\ c[0] = 0 /\ c[n] = Len(ts)
      /\ \A k \in 1 .. n : c[k] = c[k - 1] + (IF es[k].cf THEN 1 ELSE 0)
      /\ \A j, k \in 0 .. n : j <= k => c[j] <= c[k]
  BY <1>1 DEF Counts
<1>4. /\ ts1 \in Seq(Address) /\ Len(ts1) = Len(ts) + i /\ Len(ts) \in Nat /\ i \in 0 .. 1
      /\ \A k \in 1 .. Len(ts) : ts1[k] = ts[k]
      /\ e.cf => ts1[Len(ts) + 1] = t
  <2>1. CASE e.cf
    <3>1. ts1 = Append(ts, t) /\ i = 1
      BY <2>1
    <3> QED BY <2>1, <3>1, AppendProperties
  <2>2. CASE ~e.cf
    BY <2>2
  <2> QED BY <2>1, <2>2
<1> DEFINE c1 == [k \in 0 .. n + 1 |-> IF k <= n THEN c[k] ELSE Len(ts) + i]
<1>5. e.cf <=> i = 1
  OBVIOUS
<1> HIDE DEF n, es1, ts1, i
<1>6. /\ \A k \in 0 .. n : c1[k] = c[k] /\ c[k] \in 0 .. Len(ts)
      /\ c1[n + 1] = Len(ts) + i
  BY <1>2, <1>3
<1>7. Counts(es1, ts1, c1)
  <2>1. c1 \in [0 .. n + 1 -> 0 .. Len(ts1)]
    BY <1>2, <1>3, <1>4
  <2>2. c1[0] = 0 /\ c1[n + 1] = Len(ts1)
    BY <1>2, <1>3, <1>4, <1>6
  <2>3. ASSUME NEW k \in 1 .. n + 1 PROVE c1[k] = c1[k - 1] + (IF es1[k].cf THEN 1 ELSE 0)
    <3>1. CASE k <= n
      <4>1. k \in 0 .. n /\ k - 1 \in 0 .. n /\ k \in 1 .. n
        BY <1>2, <3>1
      <4> QED BY <1>2, <1>3, <1>6, <4>1
    <3>2. CASE k = n + 1
      <4>1. c1[k - 1] = Len(ts)
        BY <1>2, <1>3, <1>6, <3>2
      <4> QED BY <1>2, <1>4, <1>5, <1>6, <3>2, <4>1
    <3> QED BY <1>2, <3>1, <3>2
  <2>4. ASSUME NEW j \in 0 .. n + 1, NEW k \in 0 .. n + 1, j <= k PROVE c1[j] <= c1[k]
    <3>1. CASE k <= n
      <4>1. j \in 0 .. n /\ k \in 0 .. n
        BY <1>2, <2>4, <3>1
      <4> QED BY <1>3, <1>6, <2>4, <4>1
    <3>2. CASE k = n + 1 /\ j <= n
      <4>1. j \in 0 .. n
        BY <1>2, <3>2
      <4>2. c1[j] \in 0 .. Len(ts) /\ c1[k] = Len(ts) + i
        BY <1>6, <3>2, <4>1
      <4> QED BY <1>4, <4>2
    <3>3. CASE k = n + 1 /\ j = n + 1
      BY <1>4, <1>6, <3>3
    <3> QED BY <1>2, <2>4, <3>1, <3>2, <3>3
  <2> HIDE DEF c1
  <2> QED BY <1>2, <2>1, <2>2, <2>3, <2>4 DEF Counts
<1>8. ASSUME NEW k \in 1 .. n, es[k].cf PROVE ts1[c1[k]] = ts[c[k]]
  <2>1. k \in 0 .. n /\ k - 1 \in 0 .. n
    BY <1>2
  <2>2. c[k] = c[k - 1] + 1 /\ c[k - 1] \in Nat /\ c[k] \in 0 .. Len(ts)
    BY <1>3, <1>8, <2>1
  <2>3. c[k] \in 1 .. Len(ts) /\ c1[k] = c[k]
    BY <1>4, <1>6, <2>1, <2>2
  <2> QED BY <1>4, <2>3
<1> HIDE DEF c1
<1>9. ASSUME ~lst PROVE \E m, f : Follows(es1, ts1, c1, m, f, a, z1)
  <2>1. PICK m, f : Follows(es, ts, c, m, f, a, z)
    BY <1>1, <1>9
  <2>2. /\ m \in 0 .. n /\ m \in Nat /\ f \in [1 .. m + 1 -> Address] /\ f[1] = a
        /\ m = n => f[m + 1] = z
    BY <1>2, <2>1 DEF Follows, n
  <2>3. ASSUME NEW k \in 1 .. m
        PROVE  /\ Right(es1[k], f[k]) /\ Target(es1[k], ts1[c1[k]]) /\ ~ends(es1[k], f[k])
               /\ f[k + 1] = after(es1[k], ts1[c1[k]], f[k])
    <3>1. k \in 1 .. n /\ es1[k] = es[k]
      BY <1>2, <2>2
    <3>2. /\ Right(es[k], f[k]) /\ Target(es[k], ts[c[k]]) /\ ~ends(es[k], f[k])
          /\ f[k + 1] = after(es[k], ts[c[k]], f[k])
      BY <2>1 DEF Follows
    <3>3. Target(es1[k], ts1[c1[k]])
      BY <1>8, <3>1, <3>2 DEF Target
    <3>4. f[k + 1] = after(es1[k], ts1[c1[k]], f[k])
      BY <1>8, <3>1, <3>2 DEF after
    <3> QED BY <3>1, <3>2, <3>3, <3>4
  <2>4. CASE m < n
    <3>1. m + 1 \in 1 .. n /\ es1[m + 1] = es[m + 1]
      BY <1>2, <2>2, <2>4
    <3>2. Right(es[m + 1], f[m + 1]) /\ Target(es[m + 1], ts[c[m + 1]]) /\ ends(es[m + 1], f[m + 1])
      BY <2>1, <2>4 DEF Follows, n
    <3>3. Target(es1[m + 1], ts1[c1[m + 1]])
      BY <1>8, <3>1, <3>2 DEF Target
    <3>4. m \in 0 .. n + 1 /\ m # n + 1
      BY <1>2, <2>2, <2>4
    <3>5. Follows(es1, ts1, c1, m, f, a, z1)
      BY <1>2, <2>2, <2>3, <3>1, <3>2, <3>3, <3>4 DEF Follows
    <3> QED BY <3>5
  <2>5. ASSUME m = n PROVE f[n + 1] = z /\ Target(e, ts1[c1[n + 1]]) /\ (e.cf => ts1[c1[n + 1]] = t)
    BY <1>4, <1>5, <1>6, <2>2, <2>5 DEF Target
  <2>6. CASE m = n /\ ends(e, z)
    <3>1. m \in 0 .. n + 1 /\ m # n + 1
      BY <1>2, <2>2, <2>6
    <3>2. Follows(es1, ts1, c1, m, f, a, z1)
      BY <1>2, <2>2, <2>3, <2>5, <2>6, <3>1 DEF Follows
    <3> QED BY <3>2
  <2>7. CASE m = n /\ ~ends(e, z)
    <3> DEFINE f1 == [k \in 1 .. (n + 1) + 1 |-> IF k <= n + 1 THEN f[k] ELSE z1]
    <3>1. /\ f1 \in [1 .. (n + 1) + 1 -> Address] /\ \A k \in 1 .. n + 1 : f1[k] = f[k]
          /\ f1[(n + 1) + 1] = z1
      BY <1>2, <2>2, <2>7
    <3> HIDE DEF f1
    <3>2. f1[1] = a
      BY <1>2, <2>2, <3>1
    <3>3. ASSUME NEW k \in 1 .. n + 1
          PROVE  /\ Right(es1[k], f1[k]) /\ Target(es1[k], ts1[c1[k]]) /\ ~ends(es1[k], f1[k])
                 /\ f1[k + 1] = after(es1[k], ts1[c1[k]], f1[k])
      <4>1. CASE k \in 1 .. n
        <5>1. f1[k] = f[k] /\ f1[k + 1] = f[k + 1]
          BY <1>2, <3>1, <4>1
        <5> QED BY <2>3, <2>7, <4>1, <5>1
      <4>2. CASE k = n + 1
        <5>1. es1[k] = e /\ f1[k] = z /\ f1[k + 1] = z1 /\ Target(e, ts1[c1[k]])
          BY <1>2, <2>5, <2>7, <3>1, <4>2
        <5>2. z1 = after(e, ts1[c1[k]], z)
          BY <2>5, <2>7, <4>2 DEF after
        <5> QED BY <2>7, <5>1, <5>2
      <4> QED BY <1>2, <4>1, <4>2
    <3>4. Follows(es1, ts1, c1, n + 1, f1, a, z1)
      BY <1>2, <3>1, <3>2, <3>3 DEF Follows
    <3> QED BY <3>4
  <2> QED BY <1>2, <2>2, <2>4, <2>6, <2>7
<1>10. Route(es1, ts1, a, z1, lst)
  BY <1>7, <1>9 DEF Route
<1> QED BY <1>10 DEF es1, ts1

-----------------------------------------------------------------------------
(* The two FIFOs of the queue hold its entries in turn.                    *)

Queued(es, qq, ds, is) ==
    /\ qq \in [0 .. 1 -> Seq(Entry)] /\ ds \in 0 .. 1
    /\ is = IF Len(es) % 2 = 0 THEN ds ELSE 1 - ds
    /\ Len(qq[ds]) = (Len(es) + 1) \div 2 /\ Len(qq[1 - ds]) = Len(es) \div 2
    /\ \A k \in 1 .. Len(qq[ds]) : qq[ds][k] = es[2 * k - 1]
    /\ \A k \in 1 .. Len(qq[1 - ds]) : qq[1 - ds][k] = es[2 * k]

\* How the lengths of the two FIFOs differ, and which holds the first entry.
LEMMA QueuedFacts ==
    ASSUME NEW es \in Seq(Entry), NEW qq, NEW ds, NEW is, Queued(es, qq, ds, is)
    PROVE  /\ is \in 0 .. 1 /\ ds \in 0 .. 1
           /\ es = <<>> <=> qq[0] = <<>> /\ qq[1] = <<>>
           /\ es # <<>> => qq[ds] # <<>> /\ qq[ds][1] = es[1]
           /\ Len(qq[ds]) - Len(qq[1 - ds]) = IF is = ds THEN 0 ELSE 1
           /\ Len(qq[is]) <= Len(qq[1 - is])
<1>1. /\ Len(es) \in Nat /\ qq[0] \in Seq(Entry) /\ qq[1] \in Seq(Entry) /\ ds \in {0, 1}
      /\ qq[ds] \in Seq(Entry)
      /\ Len(qq[0]) \in Nat /\ Len(qq[1]) \in Nat
  BY DEF Queued
<1>2. Len(qq[ds]) = (Len(es) + 1) \div 2 /\ Len(qq[1 - ds]) = Len(es) \div 2 /\ is = (IF Len(es) % 2 = 0 THEN ds ELSE 1 - ds)
  BY DEF Queued
<1>3. is \in {0, 1} /\ (is = ds <=> Len(es) % 2 = 0)
  BY <1>1, <1>2
<1>4. es = <<>> <=> Len(es) = 0
  OBVIOUS
<1>5. (qq[0] = <<>> <=> Len(qq[0]) = 0) /\ (qq[1] = <<>> <=> Len(qq[1]) = 0)
  BY <1>1
<1>6. ASSUME es # <<>> PROVE qq[ds] # <<>> /\ qq[ds][1] = es[1]
  <2>1. Len(qq[ds]) >= 1
    BY <1>1, <1>2, <1>4, <1>6
  <2>2. qq[ds][1] = es[2 * 1 - 1]
    BY <1>1, <2>1 DEF Queued
  <2> QED BY <1>1, <2>1, <2>2
<1>7. Len(qq[ds]) - Len(qq[1 - ds]) = IF is = ds THEN 0 ELSE 1
  BY <1>1, <1>2, <1>3
<1>8. es = <<>> <=> qq[0] = <<>> /\ qq[1] = <<>>
  <2>1. CASE ds = 0
    BY <1>1, <1>2, <1>4, <1>5, <2>1
  <2>2. CASE ds = 1
    BY <1>1, <1>2, <1>4, <1>5, <2>2
  <2> QED BY <1>1, <2>1, <2>2
<1>9. Len(qq[is]) <= Len(qq[1 - is])
  <2>1. Len(qq[ds]) \in Nat /\ Len(qq[1 - ds]) \in Nat
    BY <1>1, <1>2
  <2>2. CASE is = ds
    BY <1>7, <2>1, <2>2
  <2>3. CASE is = 1 - ds
    <3>1. is # ds /\ 1 - is = ds
      BY <1>1, <2>3
    <3> QED BY <1>7, <2>1, <2>3, <3>1
  <2> QED BY <1>2, <2>2, <2>3
<1>10. is \in 0 .. 1 /\ ds \in 0 .. 1
  BY <1>1, <1>3
<1> QED BY <1>6, <1>7, <1>8, <1>9, <1>10

\* The first entry is taken from FIFO ds ...
LEMMA QueuedPop ==
    ASSUME NEW es \in Seq(Entry), NEW qq, NEW ds, NEW is, Queued(es, qq, ds, is), es # <<>>
    PROVE  Queued(Tail(es), [qq EXCEPT ![ds] = Tail(@)], 1 - ds, is)
<1> DEFINE n == Len(es)
           q1 == [qq EXCEPT ![ds] = Tail(@)]
           h == qq[ds]
           g == qq[1 - ds]
<1>1. /\ n \in Nat /\ n >= 1 /\ Tail(es) \in Seq(Entry) /\ Len(Tail(es)) = n - 1
      /\ \A k \in 1 .. n - 1 : Tail(es)[k] = es[k + 1]
  OBVIOUS
<1>2. ds \in {0, 1} /\ 1 - ds \in 0 .. 1 /\ 1 - ds # ds /\ 1 - (1 - ds) = ds
  BY DEF Queued
<1>3. /\ h \in Seq(Entry) /\ g \in Seq(Entry) /\ Len(h) = (n + 1) \div 2 /\ Len(g) = n \div 2
      /\ \A k \in 1 .. Len(h) : h[k] = es[2 * k - 1]
      /\ \A k \in 1 .. Len(g) : g[k] = es[2 * k]
      /\ qq \in [0 .. 1 -> Seq(Entry)] /\ is = (IF n % 2 = 0 THEN ds ELSE 1 - ds)
  BY <1>2 DEF Queued
<1>4. h # <<>> /\ Tail(h) \in Seq(Entry) /\ Len(Tail(h)) = Len(h) - 1 /\ \A k \in 1 .. Len(h) - 1 : Tail(h)[k] = h[k + 1]
  <2>1. Len(h) >= 1
    BY <1>1, <1>3
  <2>2. h # <<>>
    BY <1>3, <2>1
  <2> HIDE DEF h
  <2> QED BY <1>3, <2>2
<1>5. q1 \in [0 .. 1 -> Seq(Entry)] /\ q1[1 - ds] = g /\ q1[ds] = Tail(h)
  BY <1>2, <1>3, <1>4
<1> HIDE DEF q1, h, g, n
<1>6. is = IF (n - 1) % 2 = 0 THEN 1 - ds ELSE 1 - (1 - ds)
  <2>1. (n - 1) % 2 = 0 <=> n % 2 # 0
    BY <1>1
  <2> QED BY <1>2, <1>3, <2>1
<1>7. Len(g) = ((n - 1) + 1) \div 2 /\ Len(Tail(h)) = (n - 1) \div 2
  BY <1>1, <1>3, <1>4
<1>8. ASSUME NEW k \in 1 .. Len(g) PROVE g[k] = Tail(es)[2 * k - 1]
  <2>1. 2 * k - 1 \in 1 .. n - 1 /\ (2 * k - 1) + 1 = 2 * k
    BY <1>1, <1>3
  <2> QED BY <1>1, <1>3, <2>1
<1>9. ASSUME NEW k \in 1 .. Len(Tail(h)) PROVE Tail(h)[k] = Tail(es)[2 * k]
  <2>1. k \in 1 .. Len(h) - 1 /\ k + 1 \in 1 .. Len(h) /\ 2 * k \in 1 .. n - 1 /\ 2 * (k + 1) - 1 = 2 * k + 1
    BY <1>1, <1>3, <1>4
  <2>2. Tail(h)[k] = h[k + 1] /\ h[k + 1] = es[2 * (k + 1) - 1] /\ Tail(es)[2 * k] = es[2 * k + 1]
    BY <1>1, <1>3, <1>4, <2>1
  <2> QED BY <2>1, <2>2
<1>10. Queued(Tail(es), q1, 1 - ds, is)
  BY <1>1, <1>2, <1>5, <1>6, <1>7, <1>8, <1>9 DEF Queued
<1> QED BY <1>10 DEF q1

\* ... and the next is put into FIFO is.
LEMMA QueuedPush ==
    ASSUME NEW es \in Seq(Entry), NEW qq, NEW ds, NEW is, Queued(es, qq, ds, is), NEW e \in Entry
    PROVE  Queued(Append(es, e), [qq EXCEPT ![is] = Append(@, e)], ds, 1 - is)
<1> DEFINE n == Len(es)
           q1 == [qq EXCEPT ![is] = Append(@, e)]
           h == qq[ds]
           g == qq[1 - ds]
<1>1. /\ n \in Nat /\ Append(es, e) \in Seq(Entry) /\ Len(Append(es, e)) = n + 1
      /\ \A k \in 1 .. n : Append(es, e)[k] = es[k]
      /\ Append(es, e)[n + 1] = e
  OBVIOUS
<1>2. ds \in {0, 1} /\ 1 - ds \in 0 .. 1 /\ 1 - ds # ds /\ 1 - (1 - ds) = ds
  BY DEF Queued
<1>3. /\ h \in Seq(Entry) /\ g \in Seq(Entry) /\ Len(h) = (n + 1) \div 2 /\ Len(g) = n \div 2
      /\ \A k \in 1 .. Len(h) : h[k] = es[2 * k - 1]
      /\ \A k \in 1 .. Len(g) : g[k] = es[2 * k]
      /\ qq \in [0 .. 1 -> Seq(Entry)] /\ is = (IF n % 2 = 0 THEN ds ELSE 1 - ds)
  BY <1>2 DEF Queued
<1>4. /\ is \in {0, 1} /\ (is = ds <=> n % 2 = 0) /\ (is = 1 - ds <=> n % 2 = 1)
      /\ 1 - is = IF (n + 1) % 2 = 0 THEN ds ELSE 1 - ds
  <2>1. (n + 1) % 2 = 0 <=> n % 2 # 0
    BY <1>1
  <2>2. n % 2 = 1 <=> n % 2 # 0
    BY <1>1
  <2>3. is = (IF n % 2 = 0 THEN ds ELSE 1 - ds)
    BY <1>3
  <2> HIDE DEF n
  <2> QED BY <1>2, <2>1, <2>2, <2>3
<1>5. ASSUME NEW u \in Seq(Entry)
      PROVE  /\ Append(u, e) \in Seq(Entry) /\ Len(Append(u, e)) = Len(u) + 1 /\ Len(u) \in Nat
             /\ \A k \in 1 .. Len(u) : Append(u, e)[k] = u[k]
             /\ Append(u, e)[Len(u) + 1] = e
  OBVIOUS
<1>6. CASE is = ds
  <2>1. q1 \in [0 .. 1 -> Seq(Entry)] /\ q1[ds] = Append(h, e) /\ q1[1 - ds] = g
    BY <1>2, <1>3, <1>5, <1>6
  <2> HIDE DEF q1, h, g, n
  <2>2. Len(h) = n \div 2 /\ 2 * Len(h) = n /\ Len(h) \in Nat
    BY <1>1, <1>3, <1>4, <1>6
  <2>3. Len(Append(h, e)) = ((n + 1) + 1) \div 2 /\ Len(g) = (n + 1) \div 2
    BY <1>1, <1>3, <1>5, <2>2
  <2>4. ASSUME NEW k \in 1 .. Len(h) + 1 PROVE Append(h, e)[k] = Append(es, e)[2 * k - 1]
    <3>1. CASE k \in 1 .. Len(h)
      <4>1. 2 * k - 1 \in 1 .. n
        BY <1>1, <2>2, <3>1
      <4> QED BY <1>1, <1>3, <1>5, <3>1, <4>1
    <3>2. CASE k = Len(h) + 1
      <4>1. 2 * k - 1 = n + 1
        BY <1>1, <2>2, <3>2
      <4>2. Append(h, e)[k] = e
        BY <1>3, <1>5, <3>2
      <4> QED BY <1>1, <4>1, <4>2
    <3>3. k \in 1 .. Len(h) \/ k = Len(h) + 1
      BY <2>2
    <3> QED BY <3>1, <3>2, <3>3, Zenon
  <2>5. ASSUME NEW k \in 1 .. Len(g) PROVE g[k] = Append(es, e)[2 * k]
    <3>1. 2 * k \in 1 .. n
      BY <1>1, <1>3
    <3> QED BY <1>1, <1>3, <3>1
  <2>6. Queued(Append(es, e), q1, ds, 1 - is)
    <3>1. Len(Append(h, e)) = Len(h) + 1
      BY <1>3, <1>5
    <3> QED BY <1>1, <1>2, <1>4, <2>1, <2>3, <2>4, <2>5, <3>1 DEF Queued
  <2> QED BY <2>6 DEF q1
<1>7. CASE is = 1 - ds
  <2>1. q1 \in [0 .. 1 -> Seq(Entry)] /\ q1[ds] = h /\ q1[1 - ds] = Append(g, e)
    <3>1. is \in 0 .. 1 /\ is # ds /\ ds \in 0 .. 1 /\ Append(g, e) \in Seq(Entry) /\ qq \in [0 .. 1 -> Seq(Entry)] /\ 1 - ds = is
      BY <1>2, <1>3, <1>5, <1>7
    <3> QED BY <3>1
  <2> HIDE DEF q1, h, g, n
  <2>2. 2 * Len(g) + 1 = n /\ Len(g) \in Nat /\ Len(h) = Len(g) + 1
    <3>1. n % 2 = 1
      BY <1>4, <1>7
    <3>2. 2 * (n \div 2) + 1 = n /\ n \div 2 \in Nat /\ (n + 1) \div 2 = n \div 2 + 1
      BY <1>1, <3>1
    <3>3. Len(g) = n \div 2 /\ Len(h) = (n + 1) \div 2
      BY <1>3
    <3> QED BY <3>2, <3>3
  <2>3. Len(h) = ((n + 1) + 1) \div 2 /\ Len(Append(g, e)) = (n + 1) \div 2
    BY <1>1, <1>3, <1>5, <2>2
  <2>4. ASSUME NEW k \in 1 .. Len(g) + 1 PROVE Append(g, e)[k] = Append(es, e)[2 * k]
    <3>1. CASE k \in 1 .. Len(g)
      <4>1. 2 * k \in 1 .. n
        BY <1>1, <2>2, <3>1
      <4> QED BY <1>1, <1>3, <1>5, <3>1, <4>1
    <3>2. CASE k = Len(g) + 1
      <4>1. 2 * k = n + 1
        BY <1>1, <2>2, <3>2
      <4>2. Append(g, e)[k] = e
        BY <1>3, <1>5, <3>2
      <4> QED BY <1>1, <4>1, <4>2
    <3>3. k \in 1 .. Len(g) \/ k = Len(g) + 1
      BY <2>2
    <3> QED BY <3>1, <3>2, <3>3, Zenon
  <2>5. ASSUME NEW k \in 1 .. Len(h) PROVE h[k] = Append(es, e)[2 * k - 1]
    <3>1. 2 * k - 1 \in 1 .. n
      BY <1>1, <1>3, <2>2
    <3> QED BY <1>1, <1>3, <3>1
  <2>6. Queued(Append(es, e), q1, ds, 1 - is)
    <3>1. Len(Append(g, e)) = Len(g) + 1
      BY <1>3, <1>5
    <3> QED BY <1>1, <1>2, <1>4, <2>1, <2>3, <2>4, <2>5, <3>1 DEF Queued
  <2> QED BY <2>6 DEF q1
<1> QED BY <1>2, <1>4, <1>6, <1>7

-----------------------------------------------------------------------------
(* Where fetch is: the address of the word that the cache looks up or that *)
(* it is asked for next, of the word that is re-aligned if there is one,   *)
(* and of the next instruction that is put into the queue.                 *)

inFlight == ic.st \in {"READ", "MISS"}
afterWord == IF inFlight THEN ic.vaddr ELSE npc
fetchPos == IF fq.valid THEN fq.vaddr ELSE afterWord
nextAt == IF ra.on THEN ra.addr ELSE fetchPos

\* What the registers hold.
Types ==
    /\ prog \in DOMAIN Programs
    /\ npc \in Address /\ pc \in Address /\ expected \in Address
    /\ ic \in [st : {"FLUSH", "IDLE", "READ", "MISS", "KILL_ATRANS", "KILL_MISS"}, vaddr : Address]
    /\ fq \in [valid : BOOLEAN, vaddr : Address, data : Words, ex : BOOLEAN]
    /\ ra \in [on : BOOLEAN, addr : Address, lo : Address]
    /\ aq \in Seq(Address) /\ Len(aq) <= DEPTH
    /\ q \in [0 .. 1 -> Seq(Entry)] /\ Len(q[0]) <= DEPTH /\ Len(q[1]) <= DEPTH
    /\ unresolved \in 0 .. MAX_CF /\ credit \in 0 .. 2
    /\ reset \in BOOLEAN /\ lost \in BOOLEAN /\ flush_q \in BOOLEAN

\* The words that are fetched follow each other, and the first half of an
\* instruction that waits for the next word is the last halfword of its own.
Fetching ==
    /\ flush_q => ~inFlight
    /\ inFlight => npc = plus(word(ic.vaddr), 2)
    /\ fq.valid => /\ fq.ex = (word(fq.vaddr) \in Fault) /\ (~fq.ex => fq.data = word(fq.vaddr))
                   /\ afterWord = plus(word(fq.vaddr), 2)
    /\ ra.on => /\ odd(ra.addr) /\ ~comp(ra.lo) /\ (ra.lo = ra.addr \/ word(ra.addr) \in Fault)
                /\ fetchPos = plus(ra.addr, 1)

\* The address that instr_queue.sv gives an instruction is right.
Addressed ==
    /\ reset => q[0] = <<>> /\ q[1] = <<>>
    /\ ~lost /\ ~reset => pc = expected

\* Where the next instruction is when a word has been re-aligned.
goesOn ==
    IF ~fq.valid THEN nextAt
    ELSE IF unaligned_d THEN word(fq.vaddr) + 1 ELSE plus(word(fq.vaddr), 2)

\* What a halfword of the program may be; the one behind the memory is blank.
LEMMA ProgramFacts ==
    ASSUME Types
    PROVE  /\ \A h \in 0 .. SIZE : comp(h) \in BOOLEAN /\ kind(h) \in Kind /\ Mem[h].target \in Address
           /\ comp(None) /\ None \notin Address /\ None \in 0 .. SIZE /\ Address \subseteq 0 .. SIZE
           /\ 0 \in Address
<1>1. SIZE \in Nat \ {0} /\ prog \in DOMAIN Programs
  BY FrontendAssumption DEF Types
<1>2. Mem \in [0 .. SIZE -> [comp : BOOLEAN, kind : Kind, target : 0 .. (SIZE - 1)]] /\ Mem[SIZE] = Blank
  BY <1>1, FrontendAssumption DEF Mem
<1>3. Mem[SIZE].comp = TRUE
  BY <1>2 DEF Blank
<1>4. ASSUME NEW h \in 0 .. SIZE PROVE comp(h) \in BOOLEAN /\ kind(h) \in Kind /\ Mem[h].target \in Address
  BY <1>2 DEF comp, kind, Address
<1> QED BY <1>1, <1>3, <1>4 DEF comp, None, Address

\* The word after a word, and two steps of one halfword.
LEMMA EvenNext ==
    ASSUME NEW a \in Address
    PROVE  /\ ~odd(plus(word(a), 2)) /\ plus(word(a), 2) \in Address
           /\ plus(a, 2) = plus(plus(a, 1), 1)
<1>1. SIZE \in Nat \ {0} /\ SIZE % 2 = 0 /\ a \in 0 .. SIZE - 1
  BY FrontendAssumption DEF Address
<1>2. word(a) \in 0 .. SIZE - 1 /\ word(a) % 2 = 0
  BY WordFacts DEF Address
<1>3. /\ word(a) + 2 < SIZE => plus(word(a), 2) = word(a) + 2
      /\ word(a) + 2 >= SIZE => plus(word(a), 2) = word(a) + 2 - SIZE
  BY <1>2, Plus DEF Address
<1>4. ~odd(plus(word(a), 2))
  BY <1>1, <1>2, <1>3 DEF odd
<1>5. plus(word(a), 2) \in Address
  BY WordFacts, Plus
<1>6. plus(a, 2) = plus(plus(a, 1), 1)
  <2>1. plus(a, 1) \in Address
    BY Plus
  <2>2. /\ a + 1 < SIZE => plus(a, 1) = a + 1
        /\ a + 1 >= SIZE => plus(a, 1) = a + 1 - SIZE
        /\ a + 2 < SIZE => plus(a, 2) = a + 2
        /\ a + 2 >= SIZE => plus(a, 2) = a + 2 - SIZE
    BY Plus
  <2>3. /\ plus(a, 1) + 1 < SIZE => plus(plus(a, 1), 1) = plus(a, 1) + 1
        /\ plus(a, 1) + 1 >= SIZE => plus(plus(a, 1), 1) = plus(a, 1) + 1 - SIZE
    BY <2>1, Plus
  <2>4. SIZE >= 2
    BY <1>1
  <2> QED BY <1>1, <2>2, <2>3, <2>4
<1> QED BY <1>4, <1>5, <1>6

\* An entry that is put into the queue for slot i.
Put(e, s, i) == e.lo = s[i].lo /\ e.hi = s[i].hi /\ e.ex = fq.ex

\* What the halfwords of a word are.
LEMMA HalfFacts ==
    ASSUME Types, Fetching
    PROVE  /\ lower \in Address /\ upper \in 0 .. SIZE /\ (odd(fq.vaddr) <=> upper = None)
           /\ ~odd(fq.vaddr) => upper \in Address
           /\ fq.valid /\ ~fq.ex => /\ lower = fq.vaddr
                                    /\ ~odd(fq.vaddr) => upper = plus(fq.vaddr, 1)
           /\ fq.valid => fq.ex = (word(fq.vaddr) \in Fault)
           /\ fq.valid /\ ra.on => ~odd(fq.vaddr) /\ fq.vaddr = plus(ra.addr, 1)
<1>1. SIZE \in Nat \ {0} /\ SIZE % 2 = 0 /\ fq.vaddr \in Address /\ fq.data \in Words /\ fq.valid \in BOOLEAN
      /\ fq.ex \in BOOLEAN /\ ra.addr \in Address
  BY FrontendAssumption DEF Types
<1>2. fq.data \in 0 .. SIZE - 1 /\ fq.data % 2 = 0
  BY <1>1 DEF Words
<1>3. fq.data + 1 \in 0 .. SIZE - 1
  BY <1>1, <1>2
<1>4. lower \in Address /\ upper \in 0 .. SIZE /\ (odd(fq.vaddr) <=> upper = None) /\ (~odd(fq.vaddr) => upper \in Address)
  BY <1>1, <1>2, <1>3 DEF lower, upper, None, Address
<1>5. ASSUME fq.valid, ~fq.ex PROVE lower = fq.vaddr /\ (~odd(fq.vaddr) => upper = plus(fq.vaddr, 1))
  <2>1. fq.data = word(fq.vaddr)
    BY <1>5 DEF Fetching
  <2> QED BY <1>1, <2>1, WordFacts DEF lower, upper
<1>6. ASSUME fq.valid, ra.on PROVE ~odd(fq.vaddr) /\ fq.vaddr = plus(ra.addr, 1)
  <2>1. fq.vaddr = plus(ra.addr, 1) /\ odd(ra.addr)
    BY <1>6 DEF Fetching, fetchPos
  <2>2. plus(ra.addr, 1) = plus(word(ra.addr), 2)
    BY <1>1, <2>1, WordFacts
  <2> QED BY <1>1, <2>1, <2>2, EvenNext
<1>7. fq.valid => fq.ex = (word(fq.vaddr) \in Fault)
  BY DEF Fetching
<1> QED BY <1>4, <1>5, <1>6, <1>7

\* The fields of a slot ...
LEMMA SlotFields ==
    ASSUME NEW v, NEW at, NEW lo, NEW hi
    PROVE  /\ slot(v, at, lo, hi).valid = v /\ slot(v, at, lo, hi).at = at
           /\ slot(v, at, lo, hi).lo = lo /\ slot(v, at, lo, hi).hi = hi
           /\ slot(v, at, lo, hi).kind = (IF v THEN kind(lo) ELSE "none")
BY Zenon DEF slot

\* ... and their values for the two slots of a word.
LEMMA SlotValues ==
    ASSUME NEW s, s = slots
    PROVE  /\ s[1].valid = (fq.valid /\ ~startsUnaligned)
           /\ s[1].at = (IF ra.on THEN ra.addr ELSE fq.vaddr)
           /\ s[1].lo = (IF ra.on THEN ra.lo ELSE lower)
           /\ s[1].hi = (IF ra.on THEN lower ELSE IF comp(lower) THEN None ELSE upper)
           /\ s[1].kind = (IF s[1].valid THEN kind(s[1].lo) ELSE "none")
           /\ s[2].valid = (fq.valid /\ secondSlot) /\ s[2].at = word(fq.vaddr) + 1
           /\ s[2].lo = upper /\ s[2].hi = None
           /\ s[2].kind = (IF s[2].valid THEN kind(s[2].lo) ELSE "none")
<1>1. /\ s[1] = IF ra.on THEN slot(fq.valid /\ ~startsUnaligned, ra.addr, ra.lo, lower)
                ELSE slot(fq.valid /\ ~startsUnaligned, fq.vaddr, lower, IF comp(lower) THEN None ELSE upper)
      /\ s[2] = slot(fq.valid /\ secondSlot, word(fq.vaddr) + 1, upper, None)
  BY DEF slots
<1>2. /\ s[1].valid = (fq.valid /\ ~startsUnaligned)
      /\ s[1].at = (IF ra.on THEN ra.addr ELSE fq.vaddr)
      /\ s[1].lo = (IF ra.on THEN ra.lo ELSE lower)
      /\ s[1].hi = (IF ra.on THEN lower ELSE IF comp(lower) THEN None ELSE upper)
      /\ s[1].kind = (IF s[1].valid THEN kind(s[1].lo) ELSE "none")
  <2>1. CASE ra.on
    BY <1>1, <2>1, SlotFields
  <2>2. CASE ~ra.on
    BY <1>1, <2>2, SlotFields
  <2> QED BY <2>1, <2>2
<1>3. /\ s[2].valid = (fq.valid /\ secondSlot) /\ s[2].at = word(fq.vaddr) + 1
      /\ s[2].lo = upper /\ s[2].hi = None
      /\ s[2].kind = (IF s[2].valid THEN kind(s[2].lo) ELSE "none")
  BY <1>1, SlotFields
<1> QED BY <1>2, <1>3

\* The slots of a word are the instructions that begin in it, and the one that
\* began in the word before it.
LEMMA SlotFacts ==
    ASSUME Types, Fetching, NEW s, s = slots
    PROVE  /\ s[1].valid \in BOOLEAN /\ s[2].valid \in BOOLEAN
           /\ s[2].valid => s[1].valid
           /\ s[1].valid => s[1].at = nextAt
           /\ ~s[1].valid => goesOn = nextAt
           /\ \A i \in 1 .. 2 : /\ s[i].at \in Address /\ s[i].lo \in 0 .. SIZE /\ s[i].hi \in 0 .. SIZE
                                /\ s[i].kind = (IF s[i].valid THEN kind(s[i].lo) ELSE "none")
<1>1. SIZE \in Nat \ {0} /\ fq.vaddr \in Address /\ fq.valid \in BOOLEAN
      /\ ra.addr \in Address /\ ra.lo \in Address /\ ra.on \in BOOLEAN
  BY FrontendAssumption DEF Types
<1>3. /\ s[1].valid = (fq.valid /\ ~startsUnaligned)
      /\ s[1].at = (IF ra.on THEN ra.addr ELSE fq.vaddr)
      /\ s[1].lo = (IF ra.on THEN ra.lo ELSE lower)
      /\ s[1].hi = (IF ra.on THEN lower ELSE IF comp(lower) THEN None ELSE upper)
      /\ s[1].kind = (IF s[1].valid THEN kind(s[1].lo) ELSE "none")
  BY SlotValues
<1>4. /\ s[2].valid = (fq.valid /\ secondSlot) /\ s[2].at = word(fq.vaddr) + 1
      /\ s[2].lo = upper /\ s[2].hi = None
      /\ s[2].kind = (IF s[2].valid THEN kind(s[2].lo) ELSE "none")
  BY SlotValues
<1>5. /\ comp(None) /\ None \notin Address /\ None \in 0 .. SIZE /\ Address \subseteq 0 .. SIZE
  BY ProgramFacts
<1>6. s[2].valid => s[1].valid
  BY <1>3, <1>4 DEF secondSlot, startsUnaligned
<1>7. s[1].valid => s[1].at = nextAt
  BY <1>3 DEF nextAt, fetchPos
<1>8. ASSUME ~s[1].valid PROVE goesOn = nextAt
  <2>1. CASE ~fq.valid
    BY <2>1 DEF goesOn
  <2>2. CASE fq.valid
    <3>1. startsUnaligned /\ odd(fq.vaddr)
      BY <1>3, <1>8, <2>2 DEF startsUnaligned
    <3>2. ~ra.on
      BY <2>2, <3>1, HalfFacts
    <3>3. word(fq.vaddr) + 1 = fq.vaddr
      BY <1>1, <3>1, WordFacts
    <3> QED BY <2>2, <3>1, <3>2, <3>3 DEF goesOn, unaligned_d, nextAt, fetchPos
  <2> QED BY <2>1, <2>2
<1>9. s[1].at \in Address /\ s[1].lo \in 0 .. SIZE /\ s[1].hi \in 0 .. SIZE
  BY <1>1, <1>3, <1>5, HalfFacts
<1>10. s[2].at \in Address /\ s[2].lo \in 0 .. SIZE /\ s[2].hi \in 0 .. SIZE
  BY <1>1, <1>4, <1>5, HalfFacts, WordFacts
<1>11. s[1].valid \in BOOLEAN /\ s[2].valid \in BOOLEAN
  BY <1>1, <1>3, <1>4 DEF secondSlot, startsUnaligned
<1> QED BY <1>3, <1>4, <1>6, <1>7, <1>8, <1>9, <1>10, <1>11

\* ... each of them right, and followed by the next.
LEMMA SlotsRight ==
    ASSUME Types, Fetching, NEW s, s = slots, NEW e \in Entry, NEW i \in 1 .. 2, s[i].valid, Put(e, s, i)
    PROVE  /\ Right(e, s[i].at)
           /\ \/ e.ex \/ halfLost(e, s[i].at)
              \/ plus(s[i].at, length(s[i].at)) = IF i = 1 /\ s[2].valid THEN s[2].at ELSE goesOn
<1> DEFINE v == fq.vaddr
<1>1. /\ v \in Address /\ fq.valid \in BOOLEAN /\ ra.addr \in Address /\ ra.lo \in Address /\ ra.on \in BOOLEAN
      /\ e.ex \in BOOLEAN
  BY DEF Types, Entry
<1>2. /\ s[1].valid = (fq.valid /\ ~startsUnaligned)
      /\ s[1].at = (IF ra.on THEN ra.addr ELSE v)
      /\ s[1].lo = (IF ra.on THEN ra.lo ELSE lower)
      /\ s[1].hi = (IF ra.on THEN lower ELSE IF comp(lower) THEN None ELSE upper)
  BY SlotValues
<1>3. /\ s[2].valid = (fq.valid /\ secondSlot) /\ s[2].at = word(v) + 1
      /\ s[2].lo = upper /\ s[2].hi = None
  BY SlotValues
<1>4. fq.valid /\ e.ex = (word(v) \in Fault)
  <2>1. fq.valid
    <3>1. CASE i = 1
      BY <1>2, <3>1
    <3>2. CASE i = 2
      BY <1>3, <3>2
    <3> QED BY <3>1, <3>2
  <2>2. e.ex = fq.ex
    BY DEF Put
  <2>3. fq.ex = (word(fq.vaddr) \in Fault)
    BY <2>1, HalfFacts
  <2> QED BY <2>1, <2>2, <2>3
<1>5. goesOn = IF unaligned_d THEN word(v) + 1 ELSE plus(word(v), 2)
  BY <1>4 DEF goesOn
<1>6. /\ ~e.ex => lower = v /\ (~odd(v) => upper = plus(v, 1))
      /\ odd(v) <=> upper = None
      /\ ra.on => ~odd(v) /\ v = plus(ra.addr, 1)
      /\ comp(None) /\ None \notin Address
  BY <1>4, HalfFacts, ProgramFacts DEF Put
<1>7. /\ odd(v) => v = word(v) + 1 /\ plus(v, 1) = plus(word(v), 2)
      /\ ~odd(v) => v = word(v) /\ plus(v, 1) = v + 1 /\ word(v + 1) = v
      /\ odd(word(v) + 1) /\ word(word(v) + 1) = word(v)
      /\ plus(word(v) + 1, 1) = plus(word(v), 2)
  BY <1>1, WordFacts
<1>8. CASE i = 1 /\ ra.on
  <2> DEFINE a == ra.addr
  <2>1. /\ s[1].at = a /\ e.lo = ra.lo /\ e.hi = lower /\ v = plus(a, 1) /\ ~odd(v) /\ odd(a)
        /\ ~comp(e.lo) /\ (e.lo = a \/ word(a) \in Fault) /\ word(v) = v
    BY <1>2, <1>6, <1>7, <1>8 DEF Put, Fetching
  <2>2. plus(a, 2) = plus(v, 1) /\ plus(v, 1) = v + 1
    BY <1>1, <1>7, <2>1, EvenNext
  <2>3. halfLost(e, a) <=> word(a) \in Fault /\ ~e.ex
    BY <1>4, <2>1 DEF halfLost
  <2>4. ASSUME ~halfLost(e, a), ~e.ex PROVE e.lo = a /\ ~comp(a) /\ e.hi = plus(a, 1) /\ word(a) \notin Fault
    BY <1>6, <2>1, <2>3, <2>4
  <2>5. e.ex => faulty(a)
    <3>1. ASSUME e.ex, comp(a) PROVE word(a) \in Fault
      BY <2>1, <3>1
    <3>2. ASSUME e.ex, ~comp(a) PROVE plus(a, 1) \in halves(a) /\ word(plus(a, 1)) \in Fault
      BY <1>4, <2>1, <3>2 DEF halves
    <3>3. a \in halves(a)
      BY DEF halves
    <3> QED BY <3>1, <3>2, <3>3 DEF faulty
  <2>6. ~halfLost(e, a) /\ ~e.ex => ~faulty(a)
    BY <1>4, <2>1, <2>4 DEF faulty, halves
  <2>7. Right(e, a)
    BY <1>1, <2>4, <2>5, <2>6 DEF Right, faulty
  <2>8. ASSUME ~halfLost(e, a), ~e.ex
        PROVE  plus(a, length(a)) = IF s[2].valid THEN s[2].at ELSE goesOn
    <3>1. plus(a, length(a)) = word(v) + 1
      BY <2>1, <2>2, <2>4, <2>8 DEF length
    <3>2. s[2].valid \/ unaligned_d
      BY <1>3, <1>4, <1>8, <2>1 DEF secondSlot, unaligned_d
    <3> QED BY <1>3, <1>5, <3>1, <3>2
  <2> QED BY <1>8, <2>1, <2>7, <2>8
<1>9. CASE i = 1 /\ ~ra.on /\ ~odd(v)
  <2>1. /\ s[1].at = v /\ e.lo = lower /\ e.hi = (IF comp(lower) THEN None ELSE upper) /\ word(v) = v /\ word(plus(v, 1)) = v
    BY <1>2, <1>7, <1>9 DEF Put
  <2>2. ~halfLost(e, v)
    BY <1>9 DEF halfLost
  <2>3. e.ex = faulty(v)
    BY <1>1, <1>4, <2>1 DEF faulty, halves
  <2>4. Right(e, v)
    BY <1>1, <1>6, <1>9, <2>1, <2>3 DEF Right
  <2>5. ASSUME ~e.ex PROVE plus(v, length(v)) = IF s[2].valid THEN s[2].at ELSE goesOn
    <3>1. lower = v
      BY <1>6, <2>5
    <3>2. CASE comp(v)
      <4>1. plus(v, length(v)) = word(v) + 1
        BY <1>7, <1>9, <2>1, <3>2 DEF length
      <4>2. s[2].valid \/ unaligned_d
        BY <1>3, <1>4, <1>9, <3>1, <3>2 DEF secondSlot, unaligned_d
      <4> QED BY <1>3, <1>5, <4>1, <4>2
    <3>3. CASE ~comp(v)
      <4>1. plus(v, length(v)) = plus(word(v), 2)
        BY <2>1, <3>3 DEF length
      <4>2. ~s[2].valid /\ ~unaligned_d
        BY <1>3, <1>9, <3>1, <3>3 DEF secondSlot, unaligned_d, startsUnaligned
      <4> QED BY <1>3, <1>5, <4>1, <4>2
    <3> QED BY <3>2, <3>3
  <2> QED BY <1>9, <2>1, <2>4, <2>5
<1>10. CASE i = 1 /\ ~ra.on /\ odd(v)
  <2>1. s[1].at = v /\ e.lo = lower /\ comp(lower) /\ e.hi = None
    BY <1>2, <1>10 DEF Put, startsUnaligned
  <2>2. ~halfLost(e, v)
    BY <2>1 DEF halfLost
  <2>3. ~e.ex => e.lo = v /\ comp(v)
    BY <1>6, <2>1
  <2>4. e.ex = faulty(v)
    BY <1>1, <1>4, <2>3 DEF faulty, halves
  <2>5. Right(e, v)
    BY <1>1, <2>1, <2>3, <2>4 DEF Right
  <2>6. ASSUME ~e.ex PROVE plus(v, length(v)) = IF s[2].valid THEN s[2].at ELSE goesOn
    <3>1. plus(v, length(v)) = plus(word(v), 2)
      BY <1>7, <1>10, <2>3, <2>6 DEF length
    <3>2. ~s[2].valid /\ ~unaligned_d
      BY <1>3, <1>6, <1>10, <2>1 DEF secondSlot, unaligned_d, startsUnaligned
    <3> QED BY <1>3, <1>5, <3>1, <3>2
  <2> QED BY <1>10, <2>1, <2>5, <2>6
<1>11. CASE i = 2
  <2> DEFINE a == word(v) + 1
  <2>1. s[2].at = a /\ e.lo = upper /\ e.hi = None /\ comp(upper) /\ ~odd(v) /\ word(a) = word(v)
    BY <1>3, <1>7, <1>11 DEF Put, secondSlot
  <2>2. ~halfLost(e, a)
    BY <2>1 DEF halfLost
  <2>3. ~e.ex => e.lo = a /\ comp(a)
    BY <1>6, <1>7, <2>1
  <2>4. e.ex = faulty(a)
    BY <1>1, <1>4, <2>1, <2>3 DEF faulty, halves
  <2>5. Right(e, a)
    BY <1>1, <2>1, <2>3, <2>4 DEF Right
  <2>6. ASSUME ~e.ex PROVE plus(a, length(a)) = goesOn
    <3>1. plus(a, length(a)) = plus(word(v), 2)
      BY <1>7, <2>3, <2>6 DEF length
    <3>2. ~unaligned_d
      BY <2>1 DEF unaligned_d, startsUnaligned
    <3> QED BY <1>5, <3>1, <3>2
  <2> QED BY <1>11, <2>1, <2>5, <2>6
<1> QED BY <1>1, <1>8, <1>9, <1>10, <1>11

-----------------------------------------------------------------------------
(* The instruction cache in a cycle.                                       *)

States == {"FLUSH", "IDLE", "READ", "MISS", "KILL_ATRANS", "KILL_MISS"}

\* A request is taken.
accepts(k, reply) == dreq_ready(k, reply) /\ ready_o /\ ~k.kill_s1

\* What the cache does next, by what is asked of it: it takes the request that
\* accepts describes, goes on with the one it has, or drops it.
LEMMA CacheStep ==
    ASSUME Types, NEW k, NEW reply \in replies, NEW n, n = icache_next(k, reply),
           k.kill_s1 \in BOOLEAN, k.kill_s2 \in BOOLEAN, k.flush \in BOOLEAN, k.address \in Address,
           k.kill_s1 => k.kill_s2, k.flush /\ inFlight => k.kill_s1
    PROVE  /\ n \in [st : States, vaddr : Address]
           /\ accepts(k, reply) => /\ n = [st |-> "READ", vaddr |-> k.address]
                                   /\ inFlight /\ ~k.kill_s2 => dreq_valid(k, reply)
           /\ ~accepts(k, reply) /\ (k.kill_s2 \/ ~inFlight \/ dreq_valid(k, reply)) => n.st \notin {"READ", "MISS"}
           /\ inFlight /\ ~k.kill_s2 /\ ~dreq_valid(k, reply) =>
                n.st \in {"READ", "MISS"} /\ n.vaddr = ic.vaddr /\ ~dreq_ready(k, reply)
           /\ dreq_valid(k, reply) => inFlight /\ ~k.kill_s2 /\ ~k.flush
           /\ k.flush => ~dreq_ready(k, reply) /\ n.st \notin {"READ", "MISS"}
<1>1. ic \in [st : States, vaddr : Address] /\ ic.st \in States /\ ic.vaddr \in Address /\ 0 \in Address
  BY ProgramFacts DEF Types, States
<1>2. /\ Idle.st = "IDLE" /\ Idle \in [st : States, vaddr : Address]
      /\ \A t \in States : /\ [ic EXCEPT !.st = t] \in [st : States, vaddr : Address]
                           /\ [ic EXCEPT !.st = t].st = t /\ [ic EXCEPT !.st = t].vaddr = ic.vaddr
  BY <1>1 DEF Idle, States
<1>3. [st |-> "READ", vaddr |-> k.address] \in [st : States, vaddr : Address]
  BY DEF States
<1>4. accept(k, reply) = IF accepts(k, reply) THEN [st |-> "READ", vaddr |-> k.address] ELSE Idle
  BY DEF accept, accepts
<1>5. CASE ic.st = "IDLE"
  <2>1. n = IF k.flush THEN [ic EXCEPT !.st = "FLUSH"] ELSE accept(k, reply)
    BY <1>5 DEF icache_next
  <2>2. ~inFlight /\ ~dreq_valid(k, reply) /\ (k.flush => ~dreq_ready(k, reply))
    BY <1>5 DEF inFlight, dreq_valid, dreq_ready, hits
  <2>3. CASE k.flush
    <3>1. n \in [st : States, vaddr : Address] /\ n.st = "FLUSH" /\ ~accepts(k, reply)
      BY <1>2, <2>1, <2>2, <2>3 DEF States, accepts
    <3> QED BY <2>2, <3>1
  <2>4. CASE ~k.flush
    BY <1>2, <1>3, <1>4, <2>1, <2>2, <2>4
  <2> QED BY <2>3, <2>4
<1>6. CASE ic.st = "READ"
  <2>1. n = afterRead(k, reply) /\ inFlight
    BY <1>6 DEF icache_next, inFlight
  <2>2. /\ dreq_ready(k, reply) <=> hits(k, reply) /\ reply = "hit"
        /\ dreq_valid(k, reply) <=> ~k.kill_s2 /\ hits(k, reply)
        /\ hits(k, reply) => proceeds(k, reply) /\ ~k.flush
    BY <1>6 DEF dreq_ready, dreq_valid, hits
  <2>3. CASE ~proceeds(k, reply)
    <3>1. n = IF killed(k) THEN [ic EXCEPT !.st = "KILL_ATRANS"] ELSE ic
      BY <2>1, <2>3 DEF afterRead
    <3>2. ~hits(k, reply) /\ ~accepts(k, reply) /\ ~dreq_valid(k, reply) /\ ~dreq_ready(k, reply)
      BY <2>2, <2>3 DEF accepts
    <3>3. CASE killed(k)
      <4>1. n \in [st : States, vaddr : Address] /\ n.st = "KILL_ATRANS" /\ k.kill_s2
        BY <1>2, <2>1, <3>1, <3>3 DEF States, killed
      <4> QED BY <3>2, <4>1
    <3>4. CASE ~killed(k)
      BY <1>1, <1>6, <2>1, <3>1, <3>2, <3>4 DEF killed
    <3> QED BY <3>3, <3>4
  <2>4. CASE proceeds(k, reply) /\ k.flush
    BY <1>2, <2>1, <2>2, <2>4 DEF afterRead, accepts
  <2>5. CASE proceeds(k, reply) /\ ~k.flush /\ hits(k, reply)
    <3>1. n = accept(k, reply)
      BY <2>1, <2>5 DEF afterRead
    <3> QED BY <1>2, <1>3, <1>4, <2>1, <2>2, <2>5, <3>1 DEF accepts
  <2>6. CASE proceeds(k, reply) /\ ~k.flush /\ ~hits(k, reply)
    <3>1. n = IF k.kill_s2 THEN Idle ELSE IF reply = "miss" THEN [ic EXCEPT !.st = "MISS"] ELSE ic
      BY <2>1, <2>6 DEF afterRead
    <3>2. ~accepts(k, reply) /\ ~dreq_valid(k, reply) /\ ~dreq_ready(k, reply)
      BY <2>2, <2>6 DEF accepts
    <3>3. CASE k.kill_s2
      BY <1>2, <2>6, <3>1, <3>2, <3>3
    <3>4. CASE ~k.kill_s2 /\ reply = "miss"
      <4>1. n \in [st : States, vaddr : Address] /\ n.st = "MISS" /\ n.vaddr = ic.vaddr
        BY <1>2, <3>1, <3>4 DEF States
      <4> QED BY <2>1, <2>6, <3>2, <3>4, <4>1
    <3>5. CASE ~k.kill_s2 /\ reply # "miss"
      BY <1>1, <1>6, <2>1, <2>6, <3>1, <3>2, <3>5
    <3> QED BY <3>3, <3>4, <3>5
  <2> QED BY <2>3, <2>4, <2>5, <2>6
<1>7. CASE ic.st = "MISS"
  <2>1. n = afterMiss(k, reply) /\ inFlight
    BY <1>7 DEF icache_next, inFlight
  <2>2. /\ ~dreq_ready(k, reply) /\ ~accepts(k, reply)
        /\ dreq_valid(k, reply) <=> ~k.kill_s2 /\ reply = "done" /\ ~k.flush
    BY <1>7 DEF dreq_ready, dreq_valid, hits, accepts
  <2>3. CASE reply = "done"
    BY <1>2, <2>1, <2>2, <2>3 DEF afterMiss
  <2>4. CASE reply # "done" /\ killed(k)
    <3>1. n \in [st : States, vaddr : Address] /\ n.st = "KILL_MISS" /\ k.kill_s2
      BY <1>2, <2>1, <2>4 DEF States, killed, afterMiss
    <3> QED BY <2>2, <2>4, <3>1
  <2>5. CASE reply # "done" /\ ~killed(k)
    BY <1>1, <1>7, <2>1, <2>2, <2>5 DEF afterMiss, killed
  <2> QED BY <2>3, <2>4, <2>5
<1>8. CASE ic.st \notin {"IDLE", "READ", "MISS"}
  <2>1. n = IF reply = "done" THEN Idle ELSE ic
    BY <1>8 DEF icache_next
  <2>2. ~inFlight /\ ~dreq_ready(k, reply) /\ ~accepts(k, reply) /\ ~dreq_valid(k, reply)
    BY <1>8 DEF dreq_ready, dreq_valid, hits, accepts, inFlight
  <2> QED BY <1>1, <1>2, <1>8, <2>1, <2>2
<1> QED BY <1>5, <1>6, <1>7, <1>8

-----------------------------------------------------------------------------
(* Fetch in a cycle.                                                       *)

\* The slots, inputs and signals of a cycle.
Inputs(s, x, k) ==
    /\ s = slots /\ k = signals(s, x)
    /\ x.take \in takes /\ x.reply \in replies /\ x.data \in data
    /\ x.target \in Address
    /\ x.redirect \in Address \cup {None} /\ x.fencei \in BOOLEAN /\ x.resolve \in BOOLEAN
    /\ x.fencei => x.redirect # None
    /\ x.resolve => unresolved > 0

\* Sets of slots and their size.
LEMMA PushSets ==
    /\ Cardinality({}) = 0 /\ Cardinality({1}) = 1 /\ Cardinality({2}) = 1 /\ Cardinality({1, 2}) = 2
    /\ \A P : P \subseteq 1 .. 2 => P \in {{}, {1}, {2}, {1, 2}}
<1>1. Cardinality({}) = 0
  BY FS_EmptySet
<1>2. IsFiniteSet({1}) /\ Cardinality({1}) = 1 /\ Cardinality({2}) = 1
  BY FS_Singleton, Zenon
<1>3. Cardinality({1} \cup {2}) = 1 + 1
  <2>1. 2 \notin {1}
    OBVIOUS
  <2> QED BY <1>2, <2>1, FS_AddElement
<1>4. {1} \cup {2} = {1, 2}
  OBVIOUS
<1>5. ASSUME NEW P, P \subseteq 1 .. 2 PROVE P \in {{}, {1}, {2}, {1, 2}}
  <2>1. \A i \in P : i = 1 \/ i = 2
    BY <1>5
  <2>2. CASE 1 \in P /\ 2 \in P
    BY <2>1, <2>2
  <2>3. CASE 1 \in P /\ 2 \notin P
    BY <2>1, <2>3
  <2>4. CASE 1 \notin P /\ 2 \in P
    BY <2>1, <2>4
  <2>5. CASE 1 \notin P /\ 2 \notin P
    BY <2>1, <2>5
  <2> QED BY <2>2, <2>3, <2>4, <2>5
<1> QED BY <1>1, <1>2, <1>3, <1>4, <1>5

\* A prediction and a replay name an address.
LEMMA PredictedFacts ==
    ASSUME Types, Fetching, NEW s, NEW x, NEW k, Inputs(s, x, k)
    PROVE  /\ predict_address(s, x) \in Address
           /\ push_instr_fifo(s, x) \subseteq 1 .. 2 /\ replay_addr(s, x) \in Address
<1>1. s = slots /\ x.target \in Address
  BY DEF Inputs
<1>2. \A i \in 1 .. 2 : s[i].lo \in 0 .. SIZE /\ s[i].at \in Address
  BY <1>1, SlotFacts
<1>3. \A i \in 1 .. 2 : target(s, i, x) \in Address
  BY <1>1, <1>2, ProgramFacts DEF target
<1>4. predict_address(s, x) \in Address
  BY <1>3 DEF predict_address
<1>5. push_instr_fifo(s, x) \subseteq 1 .. 2
  BY DEF push_instr_fifo, push_instr, valid
<1>6. Cardinality(push_instr_fifo(s, x)) \in Nat
  BY <1>5, PushSets
<1>7. (Cardinality(push_instr_fifo(s, x)) % 2) + 1 \in 1 .. 2
  BY <1>6
<1> QED BY <1>2, <1>4, <1>5, <1>7 DEF replay_addr

\* The values of the signals.
LEMMA SignalFacts ==
    ASSUME Types, Fetching, NEW s, NEW x, NEW k, Inputs(s, x, k)
    PROVE  /\ k.kill_s1 = (x.redirect # None \/ replay(s, x))
           /\ k.kill_s2 = (x.redirect # None \/ replay(s, x) \/ bp_valid(s, x))
           /\ k.flush = (flush_q \/ x.fencei)
           /\ k.address = (IF bp_valid(s, x) THEN predict_address(s, x) ELSE npc)
           /\ k.kill_s1 \in BOOLEAN /\ k.kill_s2 \in BOOLEAN /\ k.flush \in BOOLEAN /\ k.address \in Address
           /\ k.kill_s1 => k.kill_s2
           /\ k.flush /\ inFlight => k.kill_s1
<1>1. k = signals(s, x) /\ x.fencei \in BOOLEAN /\ (x.fencei => x.redirect # None)
  BY DEF Inputs
<1>2. /\ k.kill_s1 = (x.redirect # None \/ replay(s, x))
      /\ k.kill_s2 = ((x.redirect # None \/ replay(s, x)) \/ bp_valid(s, x))
      /\ k.flush = (flush_q \/ x.fencei)
      /\ k.address = (IF bp_valid(s, x) THEN predict_address(s, x) ELSE npc)
  BY <1>1, Zenon DEF signals
<1>3. replay(s, x) \in BOOLEAN /\ bp_valid(s, x) \in BOOLEAN
  BY DEF replay, bp_valid
<1>4. flush_q \in BOOLEAN /\ npc \in Address /\ (flush_q => ~inFlight)
  BY DEF Types, Fetching
<1>5. k.address \in Address
  BY <1>2, <1>4, PredictedFacts
<1>6. k.kill_s1 \in BOOLEAN /\ k.kill_s2 \in BOOLEAN /\ k.flush \in BOOLEAN
  BY <1>1, <1>2, <1>3, <1>4
<1> QED BY <1>1, <1>2, <1>3, <1>4, <1>5, <1>6

\* A cycle keeps the words in sequence, and leaves fetch where the redirection,
\* the replay, the prediction or else the end of the word says.
LEMMA FetchStep ==
    ASSUME Types, Fetching, NEW s, NEW x, NEW k, Inputs(s, x, k), Cycle(s, x, k)
    PROVE  /\ npc' \in Address /\ flush_q' \in BOOLEAN
           /\ ic' \in [st : States, vaddr : Address]
           /\ fq' \in [valid : BOOLEAN, vaddr : Address, data : Words, ex : BOOLEAN]
           /\ ra' \in [on : BOOLEAN, addr : Address, lo : Address]
           /\ Fetching'
           /\ nextAt' = IF x.redirect # None THEN x.redirect
                        ELSE IF replay(s, x) THEN replay_addr(s, x)
                        ELSE IF bp_valid(s, x) THEN predict_address(s, x) ELSE goesOn
<1>1. /\ npc' = npc_d(s, x, k) /\ ic' = icache_next(k, x.reply) /\ flush_q' = flush_next(k, x.reply)
      /\ fq' = fetched(k, x) /\ ra' = realign_next(k.kill_s2) /\ prog' = prog
  BY DEF Cycle
<1>2. /\ x.reply \in replies /\ x.data \in data /\ x.redirect \in Address \cup {None}
      /\ npc \in Address /\ ic.vaddr \in Address /\ fq.vaddr \in Address /\ fq.valid \in BOOLEAN
      /\ ra \in [on : BOOLEAN, addr : Address, lo : Address] /\ 0 \in Address
  BY ProgramFacts DEF Inputs, Types
<1>3. /\ k.kill_s1 = (x.redirect # None \/ replay(s, x))
      /\ k.kill_s2 = (x.redirect # None \/ replay(s, x) \/ bp_valid(s, x))
      /\ k.flush = (flush_q \/ x.fencei)
      /\ k.address = (IF bp_valid(s, x) THEN predict_address(s, x) ELSE npc)
      /\ k.kill_s1 \in BOOLEAN /\ k.kill_s2 \in BOOLEAN /\ k.flush \in BOOLEAN /\ k.address \in Address
      /\ k.kill_s1 => k.kill_s2
      /\ k.flush /\ inFlight => k.kill_s1
  BY SignalFacts
<1>4. /\ ic' \in [st : States, vaddr : Address]
      /\ accepts(k, x.reply) => /\ ic' = [st |-> "READ", vaddr |-> k.address]
                                /\ inFlight /\ ~k.kill_s2 => dreq_valid(k, x.reply)
      /\ ~accepts(k, x.reply) /\ (k.kill_s2 \/ ~inFlight \/ dreq_valid(k, x.reply)) => ic'.st \notin {"READ", "MISS"}
      /\ inFlight /\ ~k.kill_s2 /\ ~dreq_valid(k, x.reply) =>
           ic'.st \in {"READ", "MISS"} /\ ic'.vaddr = ic.vaddr /\ ~dreq_ready(k, x.reply)
      /\ dreq_valid(k, x.reply) => inFlight /\ ~k.kill_s2 /\ ~k.flush
      /\ k.flush => ~dreq_ready(k, x.reply) /\ ic'.st \notin {"READ", "MISS"}
  BY <1>1, <1>2, <1>3, CacheStep
<1>5. NoFetch \in [valid : BOOLEAN, vaddr : Address, data : Words, ex : BOOLEAN] /\ NoFetch.valid = FALSE
  <2>1. 0 \in Words
    BY <1>2 DEF Words, Address
  <2> QED BY <1>2, <2>1 DEF NoFetch
<1>6. NoHalf \in [on : BOOLEAN, addr : Address, lo : Address] /\ NoHalf.on = FALSE
  BY <1>2 DEF NoHalf
<1>7. /\ fq' \in [valid : BOOLEAN, vaddr : Address, data : Words, ex : BOOLEAN]
      /\ fq'.valid = dreq_valid(k, x.reply)
      /\ fq'.valid => /\ fq'.vaddr = ic.vaddr /\ fq'.ex = (word(ic.vaddr) \in Fault)
                      /\ ~fq'.ex => fq'.data = word(ic.vaddr)
  <2>1. data \subseteq Words
    <3>1. word(ic.vaddr) \in Words
      BY <1>2, WordFacts DEF Words, Address
    <3> QED BY <3>1, FrontendAssumption DEF data
  <2>2. word(ic.vaddr) \notin Fault => x.data = word(ic.vaddr)
    BY <1>2 DEF data
  <2>3. dreq_valid(k, x.reply) \in BOOLEAN
    BY DEF dreq_valid
  <2>4. CASE dreq_valid(k, x.reply)
    <3>1. fq' = [valid |-> TRUE, vaddr |-> ic.vaddr, data |-> x.data, ex |-> word(ic.vaddr) \in Fault]
      BY <1>1, <2>4 DEF fetched
    <3>2. x.data \in Words /\ (word(ic.vaddr) \in Fault) \in BOOLEAN
      BY <1>2, <2>1
    <3>3. fq' \in [valid : BOOLEAN, vaddr : Address, data : Words, ex : BOOLEAN]
      BY <1>2, <3>1, <3>2
    <3>4. fq'.valid /\ fq'.vaddr = ic.vaddr /\ fq'.data = x.data /\ fq'.ex = (word(ic.vaddr) \in Fault)
      BY <3>1, Zenon
    <3>5. fq'.valid = dreq_valid(k, x.reply)
      BY <2>3, <2>4, <3>3, <3>4
    <3> QED BY <2>2, <3>3, <3>4, <3>5
  <2>5. CASE ~dreq_valid(k, x.reply)
    BY <1>1, <1>5, <2>3, <2>5 DEF fetched
  <2> QED BY <2>4, <2>5
<1>8. flush_q' \in BOOLEAN /\ (flush_q' => k.flush)
  BY <1>1, <1>3 DEF flush_next
<1>9. flush_q' => ~inFlight'
  BY <1>4, <1>8 DEF inFlight
<1>10. /\ accepts(k, x.reply) => inFlight' /\ ic'.vaddr = k.address /\ npc' = plus(word(k.address), 2)
       /\ ~k.kill_s1 /\ ~accepts(k, x.reply) => npc' = k.address
  <2>1. accepts(k, x.reply) => inFlight' /\ ic'.vaddr = k.address
    BY <1>4 DEF inFlight
  <2> QED BY <1>1, <1>3, <2>1 DEF accepts, npc_d
<1>11. npc' \in Address
  <2>1. plus(word(k.address), 2) \in Address
    BY <1>3, EvenNext
  <2> QED BY <1>1, <1>2, <1>3, <2>1, PredictedFacts DEF npc_d
<1>12. CASE k.kill_s2
  <2>1. fq' \in [valid : BOOLEAN, vaddr : Address, data : Words, ex : BOOLEAN] /\ ~fq'.valid /\ ra' = NoHalf /\ ~ra'.on
    BY <1>1, <1>4, <1>6, <1>7, <1>12 DEF realign_next
  <2>2. ~accepts(k, x.reply) => ~inFlight'
    BY <1>4, <1>12 DEF inFlight
  <2>3. inFlight' => npc' = plus(word(ic'.vaddr), 2)
    BY <1>10, <2>2
  <2>4. Fetching'
    BY <1>9, <2>1, <2>3 DEF Fetching, word, plus
  <2>5. nextAt' = IF inFlight' THEN ic'.vaddr ELSE npc'
    BY <2>1 DEF nextAt, fetchPos, afterWord
  <2>6. CASE k.kill_s1
    <3>1. ~inFlight'
      BY <2>2, <2>6 DEF accepts
    <3>2. npc' = IF x.redirect # None THEN x.redirect ELSE replay_addr(s, x)
      BY <1>1, <1>3, <2>6 DEF npc_d
    <3>3. nextAt' = npc'
      BY <2>5, <3>1
    <3> QED BY <1>3, <1>4, <1>6, <1>8, <1>11, <2>1, <2>4, <2>6, <3>2, <3>3
  <2>7. CASE ~k.kill_s1
    <3>1. nextAt' = k.address
      BY <1>10, <2>2, <2>5, <2>7
    <3> QED BY <1>3, <1>4, <1>6, <1>8, <1>11, <1>12, <2>1, <2>4, <2>7, <3>1
  <2> QED BY <2>6, <2>7
<1>13. CASE ~k.kill_s2
  <2>1. k.address = npc /\ ~k.kill_s1 /\ x.redirect = None /\ ~replay(s, x) /\ ~bp_valid(s, x)
    BY <1>3, <1>13
  <2>2. /\ fetchPos' = afterWord
        /\ fq'.valid => afterWord' = plus(word(fq'.vaddr), 2)
        /\ inFlight' => npc' = plus(word(ic'.vaddr), 2)
    <3>1. inFlight => npc = plus(word(ic.vaddr), 2)
      BY DEF Fetching
    <3>2. CASE accepts(k, x.reply)
      <4>1. inFlight' /\ afterWord' = npc /\ npc' = plus(word(npc), 2) /\ ic'.vaddr = npc
        BY <1>10, <2>1, <3>2 DEF afterWord
      <4>2. CASE inFlight
        <5>1. fq'.valid /\ fq'.vaddr = ic.vaddr
          BY <1>4, <1>7, <1>13, <3>2, <4>2
        <5> QED BY <3>1, <4>1, <4>2, <5>1 DEF fetchPos, afterWord
      <4>3. CASE ~inFlight
        <5>1. ~fq'.valid
          BY <1>4, <1>7, <4>3
        <5> QED BY <4>1, <4>3, <5>1 DEF fetchPos, afterWord
      <4> QED BY <4>2, <4>3
    <3>3. CASE ~accepts(k, x.reply)
      <4>1. npc' = npc
        BY <1>10, <2>1, <3>3
      <4>2. CASE inFlight /\ dreq_valid(k, x.reply)
        <5>1. ~inFlight' /\ fq'.valid /\ fq'.vaddr = ic.vaddr
          BY <1>4, <1>7, <3>3, <4>2 DEF inFlight
        <5> QED BY <3>1, <4>1, <4>2, <5>1 DEF fetchPos, afterWord
      <4>3. CASE inFlight /\ ~dreq_valid(k, x.reply)
        <5>1. inFlight' /\ ~fq'.valid /\ ic'.vaddr = ic.vaddr
          BY <1>4, <1>7, <1>13, <4>3 DEF inFlight
        <5> QED BY <3>1, <4>1, <4>3, <5>1 DEF fetchPos, afterWord
      <4>4. CASE ~inFlight
        <5>1. ~inFlight' /\ ~fq'.valid
          BY <1>4, <1>7, <3>3, <4>4 DEF inFlight
        <5> QED BY <4>1, <4>4, <5>1 DEF fetchPos, afterWord
      <4> QED BY <4>2, <4>3, <4>4
    <3> QED BY <3>2, <3>3
  <2>3. /\ ra' \in [on : BOOLEAN, addr : Address, lo : Address]
        /\ ra'.on => /\ odd(ra'.addr) /\ ~comp(ra'.lo) /\ (ra'.lo = ra'.addr \/ word(ra'.addr) \in Fault)
                     /\ fetchPos' = plus(ra'.addr, 1)
        /\ nextAt' = goesOn
    <3>1. fq.valid => afterWord = plus(word(fq.vaddr), 2)
      BY DEF Fetching
    <3>2. CASE ~fq.valid
      <4>1. ra' = ra /\ fetchPos' = fetchPos
        BY <1>1, <1>13, <2>2, <3>2 DEF realign_next, fetchPos
      <4>2. nextAt' = goesOn
        BY <3>2, <4>1 DEF nextAt, goesOn
      <4> QED BY <1>2, <4>1, <4>2 DEF Fetching
    <3>3. CASE fq.valid /\ unaligned_d
      <4> DEFINE a == word(fq.vaddr) + 1
                 l == IF startsUnaligned THEN lower ELSE upper
      <4>1. ra' = [on |-> TRUE, addr |-> a, lo |-> l]
        BY <1>1, <1>13, <3>3 DEF realign_next
      <4>2. a \in Address /\ odd(a) /\ word(a) = word(fq.vaddr) /\ plus(a, 1) = plus(word(fq.vaddr), 2)
        BY <1>2, WordFacts
      <4>3. ~comp(l) /\ l \in Address /\ (l = a \/ word(fq.vaddr) \in Fault)
        <5>1. CASE startsUnaligned
          <6>1. odd(fq.vaddr) /\ ~comp(lower)
            BY <5>1 DEF startsUnaligned
          <6> QED BY <1>2, <3>3, <5>1, <6>1, HalfFacts, WordFacts
        <5>2. CASE ~startsUnaligned
          <6>1. ~comp(upper)
            BY <3>3, <5>2 DEF unaligned_d
          <6>2. ~odd(fq.vaddr)
            BY <6>1, HalfFacts, ProgramFacts
          <6> QED BY <1>2, <3>3, <5>2, <6>1, <6>2, HalfFacts, WordFacts
        <5> QED BY <5>1, <5>2
      <4>4. nextAt' = a /\ goesOn = a
        BY <3>3, <4>1 DEF nextAt, goesOn
      <4> HIDE DEF a, l
      <4>5. ra'.on /\ ra'.addr = a /\ ra'.lo = l /\ ra' \in [on : BOOLEAN, addr : Address, lo : Address]
        BY <4>1, <4>2, <4>3
      <4> QED BY <2>2, <3>1, <3>3, <4>2, <4>3, <4>4, <4>5
    <3>4. CASE fq.valid /\ ~unaligned_d
      <4>1. ra' = NoHalf /\ goesOn = plus(word(fq.vaddr), 2)
        BY <1>1, <1>13, <3>4 DEF realign_next, goesOn
      <4>2. nextAt' = afterWord
        BY <1>6, <2>2, <4>1 DEF nextAt
      <4> QED BY <1>6, <3>1, <3>4, <4>1, <4>2
    <3> QED BY <1>2, <3>2, <3>3, <3>4
  <2>4. Fetching'
    <3>1. /\ fq'.valid => fq'.ex = (word(fq'.vaddr) \in Fault) /\ (~fq'.ex => fq'.data = word(fq'.vaddr))
      BY <1>7
    <3>2. ~comp(ra'.lo) => ~comp(ra.lo)'
      BY <1>1 DEF comp, Mem
    <3> QED BY <1>9, <2>2, <2>3, <3>1, <3>2 DEF Fetching, word, plus, odd
  <2> QED BY <1>4, <1>7, <1>8, <1>11, <2>1, <2>3, <2>4
<1> QED BY <1>3, <1>12, <1>13

-----------------------------------------------------------------------------
(* The instruction queue in a cycle.                                       *)

\* The slots that are put into the queue, and where the next instruction is
\* then: always as many as fit, from the first on.
LEMMA Pushes ==
    ASSUME Types, Fetching, NEW s, NEW x, NEW k, Inputs(s, x, k), x.redirect = None,
           idx_is \in 0 .. 1, Len(q[idx_is]) <= Len(q[1 - idx_is]), NEW z,
           z = (IF replay(s, x) THEN replay_addr(s, x)
                ELSE IF bp_valid(s, x) THEN predict_address(s, x) ELSE goesOn)
    PROVE  \/ /\ push_instr_fifo(s, x) = {} /\ ~(push_address(s, x) /\ Len(aq) < DEPTH) /\ z = nextAt
           \/ /\ push_instr_fifo(s, x) = {1} /\ s[1].valid
              /\ (push_address(s, x) /\ Len(aq) < DEPTH) <=> cf_type(s, 1, x)
              /\ cf_type(s, 1, x) => wild(s, 1, x) \/ z = predict_address(s, x)
              /\ ~cf_type(s, 1, x) => z = IF s[2].valid THEN s[2].at ELSE goesOn
           \/ /\ push_instr_fifo(s, x) = {1, 2} /\ s[1].valid /\ s[2].valid /\ ~cf_type(s, 1, x)
              /\ (push_address(s, x) /\ Len(aq) < DEPTH) <=> cf_type(s, 2, x)
              /\ cf_type(s, 2, x) => wild(s, 2, x) \/ z = predict_address(s, x)
              /\ ~cf_type(s, 2, x) => z = goesOn
<1> DEFINE P == push_instr_fifo(s, x)
           I == push_instr(s, x)
           V == valid(s, x)
<1>1. s = slots /\ Len(aq) \in Nat /\ Len(aq) <= DEPTH /\ DEPTH \in Nat
  BY FrontendAssumption DEF Inputs, Types
<1>2. /\ s[2].valid => s[1].valid
      /\ s[1].valid => s[1].at = nextAt
      /\ ~s[1].valid => goesOn = nextAt
      /\ \A i \in 1 .. 2 : s[i].kind = (IF s[i].valid THEN kind(s[i].lo) ELSE "none")
  BY <1>1, SlotFacts
<1>3. \A i \in 1 .. 2 : ~s[i].valid => ~cf_type(s, i, x)
  BY <1>2 DEF cf_type
<1>4. /\ 1 \in V <=> s[1].valid
      /\ 2 \in V <=> s[2].valid /\ ~cf_type(s, 1, x)
      /\ V \subseteq 1 .. 2 /\ I \subseteq V
      /\ \A i \in V : i \in I <=> ~full(fifo(i))
  BY DEF valid, push_instr
<1>5. 2 \in I => 1 \in I
  <2>1. fifo(1) = idx_is /\ fifo(2) = 1 - idx_is
    BY DEF fifo
  <2>2. full(idx_is) => full(1 - idx_is)
    <3>1. /\ Len(q[idx_is]) \in Nat /\ Len(q[1 - idx_is]) \in Nat
          /\ Len(q[idx_is]) <= DEPTH /\ Len(q[1 - idx_is]) <= DEPTH
      BY DEF Types
    <3> QED BY <1>1, <3>1 DEF full
  <2> QED BY <1>2, <1>4, <2>1, <2>2
<1> HIDE DEF P, I, V
<1>6. I \in {{}, {1}, {1, 2}} /\ V \in {{}, {1}, {2}, {1, 2}}
  <2>1. V \in {{}, {1}, {2}, {1, 2}}
    BY <1>4, PushSets
  <2>2. I \in {{}, {1}, {2}, {1, 2}}
    <3>1. I \subseteq 1 .. 2
      BY <1>4
    <3> QED BY <3>1, PushSets
  <2>3. I # {2}
    BY <1>5
  <2> QED BY <2>1, <2>2, <2>3
<1>7. push_address(s, x) <=> \E i \in I : cf_type(s, i, x)
  BY DEF push_address, I
<1>8. replay(s, x) <=> address_overflow(s, x) \/ I # V
  BY DEF replay, I, V
<1>9. P = IF address_overflow(s, x) THEN {} ELSE I
  BY DEF P, I, push_instr_fifo
<1>10. replay_addr(s, x) = s[(Cardinality(P) % 2) + 1].at
  BY DEF replay_addr, P
<1>11. /\ P = {} => replay_addr(s, x) = s[1].at
       /\ P = {1} => replay_addr(s, x) = s[2].at
  <2>1. (0 % 2) + 1 = 1 /\ (1 % 2) + 1 = 2
    OBVIOUS
  <2>2. CASE P = {}
    <3>1. Cardinality(P) = 0 /\ P # {1}
      BY <2>2, PushSets
    <3> QED BY <1>10, <2>1, <3>1
  <2>3. CASE P = {1}
    <3>1. Cardinality(P) = 1 /\ P # {}
      BY <2>3, PushSets
    <3> QED BY <1>10, <2>1, <3>1
  <2> QED BY <2>2, <2>3
<1>12. ~bp_valid(s, x) <=> \A i \in 1 .. 2 : cf_type(s, i, x) => wild(s, i, x)
  BY DEF bp_valid
<1>13. V # {} => s[1].valid
  BY <1>2, <1>4, <1>6
<1>14. ASSUME push_address(s, x), ~address_overflow(s, x) PROVE Len(aq) < DEPTH
  BY <1>1, <1>14 DEF address_overflow
<1>15. CASE address_overflow(s, x)
  <2>1. P = {} /\ replay(s, x) /\ Len(aq) = DEPTH /\ I # {}
    BY <1>7, <1>8, <1>9, <1>15 DEF address_overflow
  <2>2. s[1].valid
    BY <1>4, <1>13, <2>1
  <2>3. z = nextAt
    BY <1>2, <1>11, <2>1, <2>2
  <2> QED BY <1>1, <2>1, <2>3 DEF P
<1>16. CASE ~address_overflow(s, x) /\ I = {}
  <2>1. P = {} /\ ~push_address(s, x)
    BY <1>7, <1>9, <1>16
  <2>2. CASE V = {}
    <3>1. ~s[1].valid /\ ~s[2].valid /\ ~replay(s, x)
      BY <1>2, <1>4, <1>8, <1>16, <2>2
    <3>2. ~bp_valid(s, x)
      BY <1>3, <1>12, <3>1
    <3> QED BY <1>2, <2>1, <3>1, <3>2 DEF P
  <2>3. CASE V # {}
    <3>1. s[1].valid /\ replay(s, x)
      BY <1>8, <1>13, <1>16, <2>3
    <3> QED BY <1>2, <1>11, <2>1, <3>1 DEF P
  <2> QED BY <2>2, <2>3
<1>17. CASE ~address_overflow(s, x) /\ I = {1}
  <2>1. P = {1} /\ (push_address(s, x) <=> cf_type(s, 1, x)) /\ s[1].valid
    BY <1>4, <1>7, <1>9, <1>17
  <2>2. ASSUME cf_type(s, 1, x), ~wild(s, 1, x) PROVE z = predict_address(s, x)
    <3>1. 2 \notin V /\ 1 \in V
      BY <1>4, <1>17, <2>2
    <3>2. V = {1}
      BY <1>6, <3>1
    <3>3. ~replay(s, x) /\ bp_valid(s, x)
      BY <1>8, <1>12, <1>17, <2>2, <3>2
    <3> QED BY <3>3
  <2>3. ASSUME ~cf_type(s, 1, x) PROVE z = IF s[2].valid THEN s[2].at ELSE goesOn
    <3>1. CASE s[2].valid
      <4>1. I # V
        BY <1>4, <1>17, <2>3, <3>1
      <4> QED BY <1>8, <1>11, <2>1, <3>1, <4>1
    <3>2. CASE ~s[2].valid
      <4>1. 2 \notin V /\ 1 \in V
        BY <1>4, <1>17, <3>2
      <4>2. V = {1}
        BY <1>6, <4>1
      <4>3. ~bp_valid(s, x)
        BY <1>3, <1>12, <2>3, <3>2
      <4> QED BY <1>8, <1>17, <3>2, <4>2, <4>3
    <3> QED BY <3>1, <3>2
  <2> QED BY <1>14, <1>17, <2>1, <2>2, <2>3 DEF P
<1>18. CASE ~address_overflow(s, x) /\ I = {1, 2}
  <2>1. P = {1, 2} /\ s[1].valid /\ s[2].valid /\ ~cf_type(s, 1, x) /\ V = I
    <3>1. 1 \in V /\ 2 \in V
      BY <1>4, <1>18
    <3>2. V = {1, 2}
      BY <1>6, <3>1
    <3> QED BY <1>4, <1>9, <1>18, <3>1, <3>2
  <2>2. push_address(s, x) <=> cf_type(s, 2, x)
    BY <1>7, <1>18, <2>1
  <2>3. ~replay(s, x)
    BY <1>8, <1>18, <2>1
  <2>4. cf_type(s, 2, x) /\ ~wild(s, 2, x) => bp_valid(s, x)
    BY <1>12
  <2>5. ~cf_type(s, 2, x) => ~bp_valid(s, x)
    BY <1>12, <2>1
  <2> QED BY <1>14, <1>18, <2>1, <2>2, <2>3, <2>4, <2>5 DEF P
<1> QED BY <1>6, <1>15, <1>16, <1>17, <1>18

\* The entry of a slot.
LEMMA EntryFacts ==
    ASSUME Types, Fetching, NEW s, NEW x, NEW k, Inputs(s, x, k), NEW i \in 1 .. 2, s[i].valid,
           NEW e, e = instr_data_in(s, i, x)
    PROVE  /\ e \in Entry /\ e.cf = cf_type(s, i, x) /\ e.wild = wild(s, i, x)
           /\ Right(e, s[i].at)
           /\ i = 1 \/ ~cf_type(s, 1, x) => Target(e, predict_address(s, x))
           /\ \/ ends(e, s[i].at)
              \/ plus(s[i].at, length(s[i].at)) = IF i = 1 /\ s[2].valid THEN s[2].at ELSE goesOn
<1>1. s = slots /\ fq.ex \in BOOLEAN
  BY DEF Inputs, Types
<1>2. /\ s[i].lo \in 0 .. SIZE /\ s[i].hi \in 0 .. SIZE /\ s[i].kind = kind(s[i].lo)
  BY <1>1, SlotFacts
<1>3. cf_type(s, i, x) \in BOOLEAN /\ wild(s, i, x) \in BOOLEAN
  BY DEF cf_type, wild
<1>4. /\ e.lo = s[i].lo /\ e.hi = s[i].hi /\ e.cf = cf_type(s, i, x) /\ e.wild = wild(s, i, x) /\ e.ex = fq.ex
  BY Zenon DEF instr_data_in
<1>5. e \in Entry
  BY <1>1, <1>2, <1>3, Zenon DEF instr_data_in, Entry
<1>6. Put(e, s, i)
  BY <1>4 DEF Put
<1>7. ASSUME i = 1 \/ ~cf_type(s, 1, x) PROVE Target(e, predict_address(s, x))
  <2>1. ASSUME cf_type(s, i, x), kind(s[i].lo) \in {"jump", "branch"} PROVE predict_address(s, x) = Mem[s[i].lo].target
    <3>1. target(s, i, x) = Mem[s[i].lo].target
      BY <1>2, <2>1 DEF target
    <3>2. predict_address(s, x) = target(s, i, x)
      BY <1>7, <2>1 DEF predict_address
    <3> QED BY <3>1, <3>2
  <2> QED BY <1>4, <2>1 DEF Target
<1>8. /\ Right(e, s[i].at)
      /\ \/ e.ex \/ halfLost(e, s[i].at)
         \/ plus(s[i].at, length(s[i].at)) = IF i = 1 /\ s[2].valid THEN s[2].at ELSE goesOn
  BY <1>1, <1>5, <1>6, SlotsRight
<1> QED BY <1>4, <1>5, <1>7, <1>8 DEF ends

\* A pair of FIFOs is what its two components are.
LEMMA BothFifos ==
    ASSUME NEW i \in 0 .. 1, NEW S, NEW f, f = [n \in 0 .. 1 |-> f[n]], NEW g \in [0 .. 1 -> S],
           f[i] = g[i], f[1 - i] = g[1 - i]
    PROVE  f = g
<1>1. f[0] = g[0] /\ f[1] = g[1]
  <2>1. CASE i = 0
    <3>1. 1 - i = 1
      BY <2>1
    <3> QED BY <2>1, <3>1
  <2>2. CASE i = 1
    <3>1. 1 - i = 0
      BY <2>2
    <3> QED BY <2>2, <3>1
  <2> QED BY <2>1, <2>2
<1>2. \A n \in 0 .. 1 : f[n] = g[n]
  <2>1. \A n \in 0 .. 1 : n = 0 \/ n = 1
    OBVIOUS
  <2> QED BY <1>1, <2>1
<1>3. g = [n \in 0 .. 1 |-> g[n]]
  OBVIOUS
<1> QED BY <1>2, <1>3, Zenon

\* What is known when the queue is filled: q1 and a1 are its FIFOs without what
\* is taken out, q2 and a2 with what is put in.
Pushing(s, x, z, es, q1, ds, a1, a, lst, q2, a2, is) ==
    /\ idx_is \in 0 .. 1 /\ Len(q[idx_is]) <= Len(q[1 - idx_is]) /\ x.redirect = None
    /\ z \in Address
    /\ z = (IF replay(s, x) THEN replay_addr(s, x)
            ELSE IF bp_valid(s, x) THEN predict_address(s, x) ELSE goesOn)
    /\ es \in Seq(Entry) /\ Queued(es, q1, ds, idx_is)
    /\ a1 \in Seq(Address) /\ lst \in BOOLEAN /\ Route(es, a1, a, nextAt, lst)
    /\ q2 = [n \in 0 .. 1 |-> q1[n] \o pushed(s, x, n)]
    /\ a2 = a1 \o (IF push_address(s, x) /\ Len(aq) < DEPTH THEN <<predict_address(s, x)>> ELSE <<>>)
    /\ is = (idx_is + Cardinality(push_instr_fifo(s, x))) % 2

\* The queue is filled along the path of the back end.
LEMMA PushStep ==
    ASSUME Types, Fetching, NEW s, NEW x, NEW k, Inputs(s, x, k),
           NEW z, NEW es, NEW q1, NEW ds, NEW a1, NEW a, NEW lst, NEW q2, NEW a2, NEW is,
           Pushing(s, x, z, es, q1, ds, a1, a, lst, q2, a2, is)
    PROVE  /\ \E es2 \in Seq(Entry) : Queued(es2, q2, ds, is) /\ Route(es2, a2, a, z, lst)
           /\ a2 \in Seq(Address)
<1> SUFFICES ASSUME idx_is \in 0 .. 1, Len(q[idx_is]) <= Len(q[1 - idx_is]), x.redirect = None, z \in Address,
                    z = (IF replay(s, x) THEN replay_addr(s, x)
                         ELSE IF bp_valid(s, x) THEN predict_address(s, x) ELSE goesOn),
                    es \in Seq(Entry), Queued(es, q1, ds, idx_is),
                    a1 \in Seq(Address), lst \in BOOLEAN, Route(es, a1, a, nextAt, lst),
                    q2 = [n \in 0 .. 1 |-> q1[n] \o pushed(s, x, n)],
                    a2 = a1 \o (IF push_address(s, x) /\ Len(aq) < DEPTH THEN <<predict_address(s, x)>> ELSE <<>>),
                    is = (idx_is + Cardinality(push_instr_fifo(s, x))) % 2
             PROVE  /\ \E es2 \in Seq(Entry) : Queued(es2, q2, ds, is) /\ Route(es2, a2, a, z, lst)
                    /\ a2 \in Seq(Address)
  BY DEF Pushing
<1> DEFINE i == idx_is
           t == predict_address(s, x)
           P == push_instr_fifo(s, x)
           e1 == instr_data_in(s, 1, x)
           e2 == instr_data_in(s, 2, x)
<1>1. i \in 0 .. 1 /\ i \in {0, 1} /\ 1 - i \in {0, 1} /\ 1 - i # i /\ t \in Address /\ P \subseteq 1 .. 2
  BY PredictedFacts
<1>2. q1 \in [0 .. 1 -> Seq(Entry)] /\ q1[i] \in Seq(Entry) /\ q1[1 - i] \in Seq(Entry)
  <2>1. q1 \in [0 .. 1 -> Seq(Entry)]
    BY DEF Queued
  <2> QED BY <1>1, <2>1
<1>3. fifo(1) = i /\ fifo(2) = 1 - i
  <2>1. CASE i = 0
    BY <2>1 DEF fifo
  <2>2. CASE i = 1
    BY <2>2 DEF fifo
  <2> QED BY <1>1, <2>1, <2>2
<1>4. slotOf(i) = 1 /\ slotOf(1 - i) = 2
  BY <1>1, <1>3 DEF slotOf
<1>5. /\ pushed(s, x, i) = IF 1 \in P THEN <<e1>> ELSE <<>>
      /\ pushed(s, x, 1 - i) = IF 2 \in P THEN <<e2>> ELSE <<>>
  BY <1>4 DEF pushed
<1>6. /\ s[1].valid => e1 \in Entry
      /\ s[2].valid => e2 \in Entry
  BY EntryFacts
<1>7. \A u \in Seq(Entry), e \in Entry : u \o <<>> = u /\ u \o <<e>> = Append(u, e)
  OBVIOUS
<1>8. \A u \in Seq(Address), e \in Address : u \o <<>> = u /\ u \o <<e>> = Append(u, e) /\ Append(u, e) \in Seq(Address)
  OBVIOUS
<1>9. s[1].valid => s[1].at = nextAt
  BY SlotFacts DEF Inputs
<1>10. /\ q2[i] = q1[i] \o pushed(s, x, i) /\ q2[1 - i] = q1[1 - i] \o pushed(s, x, 1 - i)
  <2>1. i \in 0 .. 1 /\ 1 - i \in 0 .. 1
    BY <1>1
  <2> HIDE DEF i
  <2>2. \A n \in 0 .. 1 : q2[n] = q1[n] \o pushed(s, x, n)
    BY Zenon
  <2> QED BY <2>1, <2>2, Zenon
<1>11. q2 = [n \in 0 .. 1 |-> q2[n]]
  OBVIOUS
<1>12. a2 = IF push_address(s, x) /\ Len(aq) < DEPTH THEN Append(a1, t) ELSE a1
  BY <1>1, <1>8
<1>13. a2 \in Seq(Address)
  BY <1>1, <1>8, <1>12
<1>14. is = (i + Cardinality(P)) % 2
  OBVIOUS
<1> HIDE DEF i, t, e1, e2, P
<1>15. CASE P = {} /\ ~(push_address(s, x) /\ Len(aq) < DEPTH) /\ z = nextAt
  <2>1. a2 = a1
    BY <1>12, <1>15
  <2>2. q2 = q1
    <3>1. q2[i] = q1[i] /\ q2[1 - i] = q1[1 - i]
      <4>1. pushed(s, x, i) = <<>> /\ pushed(s, x, 1 - i) = <<>>
        BY <1>5, <1>15
      <4>2. q1[i] \o <<>> = q1[i] /\ q1[1 - i] \o <<>> = q1[1 - i]
        BY <1>2, ConcatEmptySeq
      <4> QED BY <1>10, <4>1, <4>2, Zenon
    <3> QED BY <1>1, <1>2, <1>11, <3>1, BothFifos
  <2>3. is = i
    <3>1. Cardinality(P) = 0
      BY <1>15, PushSets
    <3>2. CASE i = 0
      BY <1>14, <3>1, <3>2
    <3>3. CASE i = 1
      BY <1>14, <3>1, <3>3
    <3> QED BY <1>1, <3>2, <3>3
  <2> QED BY <1>13, <1>15, <2>1, <2>2, <2>3 DEF i
<1>16. CASE /\ P = {1} /\ s[1].valid
            /\ (push_address(s, x) /\ Len(aq) < DEPTH) <=> cf_type(s, 1, x)
            /\ cf_type(s, 1, x) => wild(s, 1, x) \/ z = predict_address(s, x)
            /\ ~cf_type(s, 1, x) => z = IF s[2].valid THEN s[2].at ELSE goesOn
  <2>1. /\ e1 \in Entry /\ e1.cf = cf_type(s, 1, x) /\ e1.wild = wild(s, 1, x)
        /\ Right(e1, nextAt) /\ Target(e1, t)
        /\ ends(e1, nextAt) \/ plus(nextAt, length(nextAt)) = IF s[2].valid THEN s[2].at ELSE goesOn
    BY <1>9, <1>16, EntryFacts DEF e1, t
  <2>2. ends(e1, nextAt) \/ z = after(e1, t, nextAt)
    BY <1>16, <2>1 DEF ends, after, t
  <2>3. a2 = IF e1.cf THEN Append(a1, t) ELSE a1
    BY <1>12, <1>16, <2>1
  <2>4. Route(Append(es, e1), a2, a, z, lst)
    BY <1>1, <2>1, <2>2, <2>3, RoutePush, ZenonT(60)
  <2>5. q2 = [q1 EXCEPT ![i] = Append(@, e1)]
    <3>1. q2[i] = Append(q1[i], e1) /\ q2[1 - i] = q1[1 - i]
      <4>1. pushed(s, x, i) = <<e1>> /\ pushed(s, x, 1 - i) = <<>>
        BY <1>5, <1>16
      <4>2. q1[i] \o <<e1>> = Append(q1[i], e1) /\ q1[1 - i] \o <<>> = q1[1 - i]
        BY <1>2, <2>1, <1>7
      <4> QED BY <1>10, <4>1, <4>2, Zenon
    <3>2. [q1 EXCEPT ![i] = Append(@, e1)] \in [0 .. 1 -> Seq(Entry)]
      BY <1>1, <1>2, <2>1, SMTT(30)
    <3>3. [q1 EXCEPT ![i] = Append(@, e1)][i] = Append(q1[i], e1) /\ [q1 EXCEPT ![i] = Append(@, e1)][1 - i] = q1[1 - i]
      BY <1>1, <1>2, SMTT(30)
    <3> DEFINE g == [q1 EXCEPT ![i] = Append(@, e1)]
    <3>4. g \in [0 .. 1 -> Seq(Entry)] /\ q2[i] = g[i] /\ q2[1 - i] = g[1 - i] /\ i \in 0 .. 1
      BY <1>1, <3>1, <3>2, <3>3
    <3> HIDE DEF g
    <3>5. q2 = g
      BY <1>11, <3>4, BothFifos
    <3> QED BY <3>5 DEF g
  <2>6. is = 1 - i
    <3>1. Cardinality(P) = 1
      BY <1>16, PushSets
    <3>2. CASE i = 0
      BY <1>14, <3>1, <3>2
    <3>3. CASE i = 1
      BY <1>14, <3>1, <3>3
    <3> QED BY <1>1, <3>2, <3>3
  <2>7. Queued(Append(es, e1), q2, ds, is)
    <3>1. Queued(Append(es, e1), [q1 EXCEPT ![i] = Append(@, e1)], ds, 1 - i)
      BY <2>1, QueuedPush DEF i
    <3> QED BY <2>5, <2>6, <3>1, Zenon
  <2>8. Append(es, e1) \in Seq(Entry)
    BY <2>1
  <2> QED BY <1>13, <2>4, <2>7, <2>8
<1>17. CASE /\ P = {1, 2} /\ s[1].valid /\ s[2].valid /\ ~cf_type(s, 1, x)
            /\ (push_address(s, x) /\ Len(aq) < DEPTH) <=> cf_type(s, 2, x)
            /\ cf_type(s, 2, x) => wild(s, 2, x) \/ z = predict_address(s, x)
            /\ ~cf_type(s, 2, x) => z = goesOn
  <2> DEFINE y == s[2].at
             q3 == [q1 EXCEPT ![i] = Append(@, e1)]
             q4 == [q3 EXCEPT ![1 - i] = Append(@, e2)]
  <2>1. /\ e1 \in Entry /\ ~e1.cf /\ Right(e1, nextAt) /\ Target(e1, t)
        /\ ends(e1, nextAt) \/ plus(nextAt, length(nextAt)) = y
    BY <1>9, <1>17, EntryFacts DEF e1, t
  <2>2. /\ e2 \in Entry /\ e2.cf = cf_type(s, 2, x) /\ e2.wild = wild(s, 2, x)
        /\ Right(e2, y) /\ Target(e2, t)
        /\ ends(e2, y) \/ plus(y, length(y)) = goesOn
    BY <1>17, EntryFacts DEF e2, t
  <2>3. y \in Address
    BY SlotFacts DEF Inputs
  <2> HIDE DEF y
  <2>4. ends(e1, nextAt) \/ y = after(e1, t, nextAt)
    BY <2>1 DEF after
  <2>5. ends(e2, y) \/ z = after(e2, t, y)
    BY <1>17, <2>2 DEF ends, after, t
  <2>6. Route(Append(es, e1), a1, a, y, lst) /\ Append(es, e1) \in Seq(Entry)
    BY <1>1, <2>1, <2>3, <2>4, RoutePush
  <2>7. a2 = IF e2.cf THEN Append(a1, t) ELSE a1
    BY <1>12, <1>17, <2>2
  <2>8. Route(Append(Append(es, e1), e2), a2, a, z, lst) /\ Append(Append(es, e1), e2) \in Seq(Entry)
    <3> DEFINE es1 == Append(es, e1)
    <3>1. es1 \in Seq(Entry) /\ Route(es1, a1, a, y, lst)
      BY <2>6
    <3> HIDE DEF es1
    <3>2. Route(Append(es1, e2), a2, a, z, lst)
      BY <1>1, <2>2, <2>5, <2>7, <3>1, RoutePush, ZenonT(60)
    <3>3. Append(es1, e2) \in Seq(Entry)
      BY <2>2, <3>1
    <3> QED BY <3>2, <3>3 DEF es1
  <2>9. /\ q3 \in [0 .. 1 -> Seq(Entry)] /\ q3[i] = Append(q1[i], e1) /\ q3[1 - i] = q1[1 - i]
    BY <1>1, <1>2, <2>1, SMTT(30)
  <2>10. /\ q4 \in [0 .. 1 -> Seq(Entry)] /\ q4[i] = q3[i] /\ q4[1 - i] = Append(q3[1 - i], e2)
    <3>1. q3[1 - i] \in Seq(Entry) /\ i \in 0 .. 1 /\ 1 - i \in 0 .. 1 /\ 1 - i # i
      BY <1>1, <1>2, <2>9
    <3>2. Append(q3[1 - i], e2) \in Seq(Entry)
      BY <2>2, <3>1
    <3> HIDE DEF q3
    <3> QED BY <2>9, <3>1, <3>2
  <2>11. q2[i] = Append(q1[i], e1) /\ q2[1 - i] = Append(q1[1 - i], e2)
    <3>1. pushed(s, x, i) = <<e1>> /\ pushed(s, x, 1 - i) = <<e2>>
      BY <1>5, <1>17
    <3>2. q1[i] \o <<e1>> = Append(q1[i], e1) /\ q1[1 - i] \o <<e2>> = Append(q1[1 - i], e2)
      BY <1>2, <1>7, <2>1, <2>2
    <3> QED BY <1>10, <3>1, <3>2, Zenon
  <2>12. Queued(Append(es, e1), q3, ds, 1 - i)
    BY <2>1, QueuedPush DEF i
  <2> HIDE DEF q3
  <2>13. Queued(Append(Append(es, e1), e2), q4, ds, 1 - (1 - i))
    BY <2>2, <2>6, <2>12, QueuedPush
  <2> HIDE DEF q4
  <2>14. q2 = q4
    <3>1. i \in 0 .. 1 /\ q2[i] = q4[i] /\ q2[1 - i] = q4[1 - i]
      BY <1>1, <2>9, <2>10, <2>11
    <3> QED BY <1>11, <2>10, <3>1, BothFifos
  <2>15. is = i /\ 1 - (1 - i) = i
    <3>1. Cardinality(P) = 2
      BY <1>17, PushSets
    <3>2. CASE i = 0
      BY <1>14, <3>1, <3>2
    <3>3. CASE i = 1
      BY <1>14, <3>1, <3>3
    <3> QED BY <1>1, <3>2, <3>3
  <2>16. Queued(Append(Append(es, e1), e2), q2, ds, is)
    BY <2>13, <2>14, <2>15, Zenon
  <2> QED BY <1>13, <2>8, <2>16
<1>18. \/ /\ P = {} /\ ~(push_address(s, x) /\ Len(aq) < DEPTH) /\ z = nextAt
       \/ /\ P = {1} /\ s[1].valid
          /\ (push_address(s, x) /\ Len(aq) < DEPTH) <=> cf_type(s, 1, x)
          /\ cf_type(s, 1, x) => wild(s, 1, x) \/ z = predict_address(s, x)
          /\ ~cf_type(s, 1, x) => z = IF s[2].valid THEN s[2].at ELSE goesOn
       \/ /\ P = {1, 2} /\ s[1].valid /\ s[2].valid /\ ~cf_type(s, 1, x)
          /\ (push_address(s, x) /\ Len(aq) < DEPTH) <=> cf_type(s, 2, x)
          /\ cf_type(s, 2, x) => wild(s, 2, x) \/ z = predict_address(s, x)
          /\ ~cf_type(s, 2, x) => z = goesOn
  BY Pushes DEF P
<1> QED BY <1>15, <1>16, <1>17, <1>18, Zenon

\* What the queue offers is its first entry.
LEMMA Offered ==
    ASSUME NEW es \in Seq(Entry), Queued(es, q, idx_ds, idx_is), fetch_entry_valid
    PROVE  es # <<>> /\ q[idx_ds] # <<>> /\ fetch_entry = es[1] /\ es[1] \in Entry
<1>1. es # <<>>
  BY QueuedFacts DEF fetch_entry_valid
<1>2. q[idx_ds] # <<>> /\ q[idx_ds][1] = es[1]
  BY <1>1 DEF Queued
<1>3. Head(q[idx_ds]) = q[idx_ds][1]
  OBVIOUS
<1>4. es[1] \in Entry
  BY <1>1
<1> QED BY <1>1, <1>2, <1>3, <1>4 DEF fetch_entry

\* The queue is emptied, and the back end goes on.
LEMMA PopStep ==
    ASSUME Types, NEW es \in Seq(Entry), Queued(es, q, idx_ds, idx_is), Route(es, aq, expected, nextAt, lost),
           NEW x, x.take \in takes, x.redirect = None, backend_next(x)
    PROVE  /\ popped(aq, pop_address(x)) \in Seq(Address)
           /\ \E es1 \in Seq(Entry) :
                /\ Queued(es1, [n \in 0 .. 1 |-> popped(q[n], x.take /\ n = idx_ds)],
                          IF x.take THEN 1 - idx_ds ELSE idx_ds, idx_is)
                /\ Route(es1, popped(aq, pop_address(x)), expected', nextAt, lost')
<1> DEFINE q1 == [n \in 0 .. 1 |-> popped(q[n], x.take /\ n = idx_ds)]
<1>1. x.take \in BOOLEAN /\ (x.take => fetch_entry_valid) /\ lost \in BOOLEAN /\ aq \in Seq(Address)
      /\ q \in [0 .. 1 -> Seq(Entry)] /\ idx_ds \in 0 .. 1
  BY DEF takes, Types, Queued
<1>2. /\ expected' = IF pop_address(x) THEN address_out
                     ELSE IF x.take THEN plus(expected, length(expected)) ELSE expected
      /\ lost' = (lost \/ (x.take /\ (fetch_entry.ex \/ fetch_entry.wild \/ halfLost(fetch_entry, expected))))
  BY DEF backend_next
<1>3. CASE ~x.take
  <2>1. q1 = q
    BY <1>1, <1>3 DEF popped
  <2>2. ~pop_address(x) /\ popped(aq, pop_address(x)) = aq
    BY <1>3 DEF pop_address, popped
  <2>3. expected' = expected /\ lost' = lost
    BY <1>1, <1>2, <1>3, <2>2
  <2> HIDE DEF q1
  <2>4. /\ Queued(es, q1, IF x.take THEN 1 - idx_ds ELSE idx_ds, idx_is)
        /\ Route(es, aq, expected', nextAt, lost')
    BY <1>3, <2>1, <2>3, Zenon
  <2> QED BY <1>1, <2>2, <2>4, Zenon DEF q1
<1>4. CASE x.take
  <2> DEFINE e == es[1]
  <2>1. es # <<>> /\ q[idx_ds] # <<>> /\ fetch_entry = e /\ e \in Entry
    BY <1>1, <1>4, Offered
  <2>2. pop_address(x) <=> e.cf
    BY <1>4, <2>1 DEF pop_address
  <2>3. /\ e.cf => aq # <<>>
        /\ Route(Tail(es), IF e.cf THEN Tail(aq) ELSE aq, after(e, aq[1], expected), nextAt,
                 lost \/ ends(e, expected))
    BY <1>1, <2>1, RoutePop
  <2>4. e.cf \in BOOLEAN
    BY <2>1 DEF Entry
  <2> HIDE DEF e
  <2>5. expected' = after(e, aq[1], expected)
    <3>1. e.cf => address_out = aq[1]
      BY <1>1, <2>3 DEF address_out
    <3> QED BY <1>2, <1>4, <2>2, <3>1 DEF after
  <2>6. lost' = (lost \/ ends(e, expected))
    BY <1>2, <1>4, <2>1, Zenon DEF ends
  <2>7. popped(aq, pop_address(x)) = IF e.cf THEN Tail(aq) ELSE aq
    BY <2>2, <2>3 DEF popped
  <2>8. Route(Tail(es), popped(aq, pop_address(x)), expected', nextAt, lost')
    BY <2>3, <2>5, <2>6, <2>7, Zenon
  <2>9. q1 = [q EXCEPT ![idx_ds] = Tail(@)]
    <3>1. ASSUME NEW n \in 0 .. 1 PROVE popped(q[n], x.take /\ n = idx_ds) = IF n = idx_ds THEN Tail(q[n]) ELSE q[n]
      BY <1>4, <2>1 DEF popped
    <3> QED BY <1>1, <3>1
  <2> HIDE DEF q1
  <2>10. Queued(Tail(es), q1, 1 - idx_ds, idx_is)
    <3>1. Queued(Tail(es), [q EXCEPT ![idx_ds] = Tail(@)], 1 - idx_ds, idx_is)
      BY <2>1, QueuedPop
    <3> QED BY <2>9, <3>1, Zenon
  <2>11. Tail(es) \in Seq(Entry) /\ popped(aq, pop_address(x)) \in Seq(Address)
    BY <1>1, <2>1, <2>3, <2>7
  <2>12. Queued(Tail(es), q1, IF x.take THEN 1 - idx_ds ELSE idx_ds, idx_is)
    BY <1>4, <2>10, Zenon
  <2> QED BY <2>8, <2>11, <2>12, Zenon DEF q1
<1> QED BY <1>1, <1>3, <1>4

\* No FIFO is filled beyond its depth.
LEMMA BoundStep ==
    ASSUME Types, NEW s, NEW x, idx_is \in 0 .. 1, queue_step(s, x),
           q' \in [0 .. 1 -> Seq(Entry)], aq' \in Seq(Address)
    PROVE  Len(aq') <= DEPTH /\ \A n \in 0 .. 1 : Len(q'[n]) <= DEPTH
<1>1. DEPTH \in Nat \ {0} /\ aq \in Seq(Address) /\ Len(aq) <= DEPTH /\ Len(aq) \in Nat
  BY FrontendAssumption DEF Types
<1>2. \A n \in 0 .. 1 : q[n] \in Seq(Entry) /\ Len(q[n]) \in Nat /\ Len(q[n]) <= DEPTH
  BY DEF Types
<1>3. ASSUME NEW S, NEW f \in Seq(S), NEW b PROVE popped(f, b) \in Seq(S) /\ Len(popped(f, b)) <= Len(f) /\ Len(popped(f, b)) \in Nat
  <2>1. CASE b /\ f # <<>>
    BY <2>1 DEF popped
  <2>2. CASE ~(b /\ f # <<>>)
    BY <2>2 DEF popped
  <2> QED BY <2>1, <2>2
<1>4. Len(aq') <= DEPTH
  <2> DEFINE b == push_address(s, x) /\ Len(aq) < DEPTH
             p == popped(aq, pop_address(x))
  <2>1. aq' = p \o (IF b THEN <<predict_address(s, x)>> ELSE <<>>)
    BY DEF queue_step
  <2>2. p \in Seq(Address) /\ Len(p) <= Len(aq) /\ Len(p) \in Nat
    BY <1>1, <1>3
  <2>3. CASE b
    <3>1. Len(aq) < DEPTH
      BY <2>3
    <3> HIDE DEF p, b
    <3>2. aq' = p \o <<predict_address(s, x)>>
      BY <2>1, <2>3
    <3>3. Len(aq') = Len(p) + 1
      BY <2>2, <3>2
    <3> QED BY <1>1, <2>2, <3>1, <3>3
  <2>4. CASE ~b
    <3> HIDE DEF p, b
    <3>1. aq' = p \o <<>>
      BY <2>1, <2>4
    <3>2. aq' = p
      BY <2>2, <3>1, ConcatEmptySeq
    <3> QED BY <1>1, <2>2, <3>2
  <2> QED BY <2>3, <2>4
<1>5. ASSUME NEW n \in 0 .. 1 PROVE Len(q'[n]) <= DEPTH
  <2> DEFINE p == popped(q[n], x.take /\ n = idx_ds)
             e == instr_data_in(s, slotOf(n), x)
  <2>1. q'[n] = p \o pushed(s, x, n)
    BY DEF queue_step
  <2>2. p \in Seq(Entry) /\ Len(p) <= Len(q[n]) /\ Len(p) \in Nat
    BY <1>2, <1>3
  <2>3. fifo(slotOf(n)) = n
    <3>1. CASE idx_is = 0
      BY <3>1 DEF fifo, slotOf
    <3>2. CASE idx_is = 1
      BY <3>2 DEF fifo, slotOf
    <3> QED BY <3>1, <3>2
  <2>4. CASE slotOf(n) \in push_instr_fifo(s, x)
    <3>1. ~full(n)
      BY <2>3, <2>4 DEF push_instr_fifo, push_instr
    <3>2. Len(q[n]) < DEPTH
      BY <1>1, <1>2, <3>1 DEF full
    <3>3. q'[n] = p \o <<e>>
      BY <2>1, <2>4 DEF pushed
    <3> HIDE DEF p, e
    <3>4. Len(q'[n]) = Len(p) + 1
      BY <2>2, <3>3
    <3> QED BY <1>1, <1>2, <2>2, <3>2, <3>4
  <2>5. CASE slotOf(n) \notin push_instr_fifo(s, x)
    <3>1. q'[n] = p \o <<>>
      BY <2>1, <2>5 DEF pushed
    <3> HIDE DEF p
    <3>2. q'[n] = p
      BY <2>2, <3>1, ConcatEmptySeq
    <3> QED BY <1>1, <1>2, <2>2, <3>2
  <2> QED BY <2>4, <2>5
<1> QED BY <1>4, <1>5

-----------------------------------------------------------------------------
(* The inductive invariant.                                                *)

\* The queue holds the program along the path of the back end, up to where
\* fetch goes on.
Delivering == \E es \in Seq(Entry) : Queued(es, q, idx_ds, idx_is) /\ Route(es, aq, expected, nextAt, lost)

IInv == Types /\ Fetching /\ Addressed /\ Delivering

\* After a flush nothing is queued.
LEMMA EmptyQueue ==
    ASSUME NEW qq \in [0 .. 1 -> Seq(Entry)], qq[0] = <<>>, qq[1] = <<>>, NEW a \in Address
    PROVE  Queued(<<>>, qq, 0, 0) /\ Route(<<>>, <<>>, a, a, FALSE)
<1>1. Queued(<<>>, qq, 0, 0)
  BY DEF Queued
<1>2. Route(<<>>, <<>>, a, a, FALSE)
  <2> DEFINE c == [n \in 0 .. 0 |-> 0]
             f == [n \in 1 .. 1 |-> a]
  <2>1. Counts(<<>>, <<>>, c)
    BY DEF Counts
  <2>2. Follows(<<>>, <<>>, c, 0, f, a, a)
    BY DEF Follows
  <2> HIDE DEF c, f
  <2> QED BY <2>1, <2>2 DEF Route
<1> QED BY <1>1, <1>2

\* The route does not depend on the rest of the state.
LEMMA RouteNext ==
    ASSUME prog' = prog, NEW es, NEW qq, NEW ts, NEW ds, NEW is, NEW a, NEW z, NEW lst,
           es \in Seq(Entry), Queued(es, qq, ds, is), Route(es, ts, a, z, lst),
           q' = qq, aq' = ts, idx_ds' = ds, idx_is' = is, expected' = a, nextAt' = z, lost' = lst
    PROVE  Delivering'
<1>1. Route(es, ts, a, z, lst)'
  <2>1. Mem' = Mem
    BY DEF Mem
  <2>2. ASSUME NEW e, NEW b PROVE halfLost(e, b)' = halfLost(e, b) /\ faulty(b)' = faulty(b)
    BY <2>1 DEF halfLost, faulty, halves, comp, odd, word, plus
  <2>3. ASSUME NEW e, NEW b PROVE Right(e, b)' = Right(e, b) /\ ends(e, b)' = ends(e, b)
    BY <2>1, <2>2 DEF Right, ends, comp, plus, None
  <2>4. ASSUME NEW e, NEW b PROVE Target(e, b)' = Target(e, b)
    BY <2>1 DEF Target, kind
  <2>5. ASSUME NEW e, NEW t, NEW b PROVE after(e, t, b)' = after(e, t, b)
    BY <2>1 DEF after, length, comp, plus
  <2>6. ASSUME NEW c, NEW m, NEW f, Follows(es, ts, c, m, f, a, z) PROVE Follows(es, ts, c, m, f, a, z)'
    <3>1. \A e, b : (Right(e, b)' <=> Right(e, b)) /\ (ends(e, b)' <=> ends(e, b)) /\ (Target(e, b)' <=> Target(e, b))
      BY <2>3, <2>4
    <3>2. \A e, t, b : after(e, t, b)' = after(e, t, b)
      BY <2>5
    <3> QED BY <2>6, <3>1, <3>2 DEF Follows, Address
  <2>7. \A c : Counts(es, ts, c) => Counts(es, ts, c)'
    BY DEF Counts
  <2> QED BY <2>6, <2>7 DEF Route
<1>2. Queued(es, qq, ds, is)'
  BY DEF Queued, Entry
<1>3. (es \in Seq(Entry))'
  BY DEF Entry
<1> QED BY <1>1, <1>2, <1>3 DEF Delivering

\* The invariant holds after reset ...
LEMMA InitHolds == Init => IInv
<1> SUFFICES ASSUME Init PROVE IInv
  OBVIOUS
<1>1. SIZE \in Nat \ {0} /\ SIZE % 2 = 0 /\ DEPTH \in Nat \ {0} /\ MAX_CF \in Nat
  BY FrontendAssumption
<1>2. 0 \in Address /\ 0 \in Words
  BY <1>1 DEF Address, Words
<1>3. /\ prog \in DOMAIN Programs /\ npc = 0 /\ ic = [st |-> "FLUSH", vaddr |-> 0] /\ flush_q = FALSE
      /\ fq = NoFetch /\ ra = NoHalf /\ q = [n \in 0 .. 1 |-> <<>>] /\ aq = <<>>
      /\ idx_is = 0 /\ idx_ds = 0 /\ pc = 0 /\ reset = TRUE /\ unresolved = 0 /\ credit = 0
      /\ expected = 0 /\ lost = FALSE
  BY DEF Init
<1>4. <<>> \in Seq(Entry) /\ <<>> \in Seq(Address) /\ Len(<<>>) = 0
  OBVIOUS
<1>5. q \in [0 .. 1 -> Seq(Entry)] /\ q[0] = <<>> /\ q[1] = <<>>
  BY <1>3, <1>4
<1>6. ic \in [st : {"FLUSH", "IDLE", "READ", "MISS", "KILL_ATRANS", "KILL_MISS"}, vaddr : Address] /\ ~inFlight
  BY <1>2, <1>3 DEF inFlight
<1>7. fq \in [valid : BOOLEAN, vaddr : Address, data : Words, ex : BOOLEAN] /\ ~fq.valid
  BY <1>2, <1>3 DEF NoFetch
<1>8. ra \in [on : BOOLEAN, addr : Address, lo : Address] /\ ~ra.on
  BY <1>2, <1>3 DEF NoHalf
<1>9. Types
  <2>1. Len(aq) <= DEPTH /\ Len(q[0]) <= DEPTH /\ Len(q[1]) <= DEPTH
    BY <1>1, <1>3, <1>4, <1>5
  <2>2. unresolved \in 0 .. MAX_CF /\ credit \in 0 .. 2
    BY <1>1, <1>3
  <2>3. aq \in Seq(Address)
    BY <1>3, <1>4
  <2> QED BY <1>2, <1>3, <1>5, <1>6, <1>7, <1>8, <2>1, <2>2, <2>3 DEF Types
<1>10. Fetching
  BY <1>3, <1>6, <1>7, <1>8 DEF Fetching
<1>11. Addressed
  BY <1>3, <1>5 DEF Addressed
<1>12. nextAt = 0
  BY <1>3, <1>6, <1>7, <1>8 DEF nextAt, fetchPos, afterWord
<1>13. Delivering
  <2>1. Queued(<<>>, q, 0, 0) /\ Route(<<>>, <<>>, 0, 0, FALSE)
    BY <1>2, <1>5, EmptyQueue
  <2>2. Queued(<<>>, q, idx_ds, idx_is) /\ Route(<<>>, aq, expected, nextAt, lost)
    BY <1>3, <1>12, <2>1, Zenon
  <2> QED BY <1>4, <2>2, Zenon DEF Delivering
<1> QED BY <1>9, <1>10, <1>11, <1>13 DEF IInv

\* The registers of the back end.
LEMMA BackendTypes ==
    ASSUME Types, NEW x, NEW s, NEW k, Inputs(s, x, k), backend_next(x), x.redirect # None => credit > 0
    PROVE  /\ unresolved' \in 0 .. MAX_CF /\ credit' \in 0 .. 2
           /\ expected' \in Address /\ lost' \in BOOLEAN
<1>1. /\ unresolved \in 0 .. MAX_CF /\ credit \in 0 .. 2 /\ expected \in Address /\ lost \in BOOLEAN
      /\ aq \in Seq(Address) /\ MAX_CF \in Nat
  BY FrontendAssumption DEF Types
<1>2. /\ x.take \in takes /\ x.redirect \in Address \cup {None} /\ x.resolve \in BOOLEAN /\ (x.resolve => unresolved > 0)
  BY DEF Inputs
<1>3. x.take \in BOOLEAN /\ (x.take => unresolved < MAX_CF)
  BY <1>2 DEF takes
<1>4. unresolved' \in 0 .. MAX_CF
  <2> DEFINE p == IF x.take /\ isCf(fetch_entry) THEN 1 ELSE 0
             m == IF x.resolve THEN 1 ELSE 0
  <2>1. unresolved' = IF x.redirect # None THEN 0 ELSE unresolved + p - m
    BY DEF backend_next
  <2>2. p \in 0 .. 1 /\ m \in 0 .. 1 /\ (p = 1 => unresolved < MAX_CF) /\ (m = 1 => unresolved > 0)
    BY <1>2, <1>3
  <2> HIDE DEF p, m
  <2> QED BY <1>1, <2>1, <2>2
<1>5. credit' \in 0 .. 2
  BY <1>1 DEF backend_next
<1>6. address_out \in Address /\ plus(expected, length(expected)) \in Address
  <2>1. address_out \in Address
    BY <1>1, ProgramFacts DEF address_out
  <2>2. length(expected) \in {1, 2}
    BY DEF length
  <2> QED BY <1>1, <2>1, <2>2, Plus
<1>7. expected' \in Address
  BY <1>1, <1>2, <1>6 DEF backend_next
<1>8. lost' \in BOOLEAN
  BY DEF backend_next
<1> QED BY <1>4, <1>5, <1>7, <1>8

\* ... in every cycle that is not flushed ...
LEMMA AdvanceStep ==
    ASSUME IInv, NEW s, NEW x, NEW k, Inputs(s, x, k), x.redirect = None, Cycle(s, x, k), queue_step(s, x)
    PROVE  IInv'
<1>1. PICK es \in Seq(Entry) : Queued(es, q, idx_ds, idx_is) /\ Route(es, aq, expected, nextAt, lost)
  BY DEF IInv, Delivering
<1>2. Types /\ Fetching /\ Addressed /\ s = slots /\ x.take \in takes
  BY DEF IInv, Inputs
<1>3. /\ idx_is \in 0 .. 1 /\ idx_ds \in 0 .. 1 /\ Len(q[idx_is]) <= Len(q[1 - idx_is])
  BY <1>1, QueuedFacts
<1>4. /\ npc' \in Address /\ flush_q' \in BOOLEAN
      /\ ic' \in [st : States, vaddr : Address]
      /\ fq' \in [valid : BOOLEAN, vaddr : Address, data : Words, ex : BOOLEAN]
      /\ ra' \in [on : BOOLEAN, addr : Address, lo : Address]
      /\ Fetching'
      /\ nextAt' = (IF replay(s, x) THEN replay_addr(s, x)
                    ELSE IF bp_valid(s, x) THEN predict_address(s, x) ELSE goesOn)
  BY <1>2, FetchStep
<1>5. nextAt' \in Address
  BY <1>4 DEF nextAt, fetchPos, afterWord
<1>6. backend_next(x) /\ prog' = prog
  BY DEF Cycle
<1>7. /\ unresolved' \in 0 .. MAX_CF /\ credit' \in 0 .. 2
      /\ expected' \in Address /\ lost' \in BOOLEAN
  BY <1>2, <1>6, BackendTypes
<1> DEFINE q1 == [n \in 0 .. 1 |-> popped(q[n], x.take /\ n = idx_ds)]
           a1 == popped(aq, pop_address(x))
<1>8. /\ idx_ds' = (IF x.take THEN 1 - idx_ds ELSE idx_ds)
      /\ idx_is' = (idx_is + Cardinality(push_instr_fifo(s, x))) % 2
      /\ q' = [n \in 0 .. 1 |-> q1[n] \o pushed(s, x, n)]
      /\ aq' = a1 \o (IF push_address(s, x) /\ Len(aq) < DEPTH THEN <<predict_address(s, x)>> ELSE <<>>)
  BY DEF queue_step
<1>9. a1 \in Seq(Address) /\ \E es1 \in Seq(Entry) : Queued(es1, q1, idx_ds', idx_is) /\ Route(es1, a1, expected', nextAt, lost')
  <2>1. /\ a1 \in Seq(Address)
        /\ \E es1 \in Seq(Entry) : /\ Queued(es1, q1, IF x.take THEN 1 - idx_ds ELSE idx_ds, idx_is)
                                   /\ Route(es1, a1, expected', nextAt, lost')
    BY <1>1, <1>2, <1>6, PopStep
  <2> HIDE DEF q1, a1
  <2> QED BY <1>8, <2>1, Zenon
<1> HIDE DEF q1, a1
<1>10. PICK es1 \in Seq(Entry) : Queued(es1, q1, idx_ds', idx_is) /\ Route(es1, a1, expected', nextAt, lost')
  BY <1>9
<1>11. /\ \E es2 \in Seq(Entry) : Queued(es2, q', idx_ds', idx_is') /\ Route(es2, aq', expected', nextAt', lost')
       /\ aq' \in Seq(Address)
  <2>1. /\ Types /\ Fetching /\ idx_is \in 0 .. 1 /\ Len(q[idx_is]) <= Len(q[1 - idx_is])
        /\ a1 \in Seq(Address) /\ lost' \in BOOLEAN /\ nextAt' \in Address
        /\ nextAt' = (IF replay(s, x) THEN replay_addr(s, x)
                      ELSE IF bp_valid(s, x) THEN predict_address(s, x) ELSE goesOn)
    BY <1>2, <1>3, <1>4, <1>5, <1>7, <1>9
  <2>2. /\ q' = [n \in 0 .. 1 |-> q1[n] \o pushed(s, x, n)]
        /\ aq' = a1 \o (IF push_address(s, x) /\ Len(aq) < DEPTH THEN <<predict_address(s, x)>> ELSE <<>>)
        /\ idx_is' = (idx_is + Cardinality(push_instr_fifo(s, x))) % 2
    BY <1>8
  <2>3. Pushing(s, x, nextAt', es1, q1, idx_ds', a1, expected', lost', q', aq', idx_is')
    BY <1>10, <2>1, <2>2 DEF Pushing
  <2> QED BY <2>1, <2>3, PushStep
<1>12. PICK es2 \in Seq(Entry) : Queued(es2, q', idx_ds', idx_is') /\ Route(es2, aq', expected', nextAt', lost')
  BY <1>11
<1>13. Delivering'
  BY <1>6, <1>12, RouteNext
<1>14. q' \in [0 .. 1 -> Seq(Entry)]
  BY <1>12 DEF Queued
<1>15. Len(aq') <= DEPTH /\ \A n \in 0 .. 1 : Len(q'[n]) <= DEPTH
  BY <1>2, <1>3, <1>11, <1>14, BoundStep
<1>16. s[1].valid \in BOOLEAN /\ s[1].at \in Address /\ (s[2].valid => s[1].valid) /\ (s[1].valid => s[1].at = nextAt)
  BY <1>2, SlotFacts
<1>17. reset' \in BOOLEAN /\ (reset' <=> reset /\ ~s[1].valid)
  BY <1>2 DEF Cycle, reset_address_d, Types
<1>18. pc' = (IF reset' THEN 0 ELSE pc_d(s, x))
  BY DEF Cycle
<1>19. pc' \in Address
  <2>1. address_out \in Address /\ 0 \in Address /\ pc \in Address
    BY <1>2, ProgramFacts, SMTT(30) DEF address_out, Types
  <2>2. length(fetch_entry.lo) \in {1, 2}
    BY DEF length
  <2>3. plus(pc, length(fetch_entry.lo)) \in Address
    BY <2>1, <2>2, Plus
  <2> QED BY <1>16, <1>18, <2>1, <2>3 DEF pc_d
<1>20. Types'
  <2>1. Len(q'[0]) <= DEPTH /\ Len(q'[1]) <= DEPTH
    BY <1>15
  <2>2. (prog \in DOMAIN Programs)'
    BY <1>2, <1>6 DEF Types
  <2> QED BY <1>4, <1>7, <1>11, <1>14, <1>15, <1>17, <1>19, <2>1, <2>2 DEF Types, States, Address, Words, Entry
<1>21. ASSUME reset PROVE es = <<>> /\ ~x.take
  <2>1. ~fetch_entry_valid /\ es = <<>>
    BY <1>1, <1>2, <1>21, QueuedFacts DEF Addressed, fetch_entry_valid
  <2> QED BY <1>2, <2>1 DEF takes
<1>22. ASSUME reset' PROVE q'[0] = <<>> /\ q'[1] = <<>>
  <2>1. reset /\ ~s[1].valid /\ ~s[2].valid
    BY <1>16, <1>17, <1>22
  <2>2. push_instr_fifo(s, x) = {}
    BY <2>1 DEF push_instr_fifo, push_instr, valid
  <2>3. \A n \in 0 .. 1 : pushed(s, x, n) = <<>>
    BY <2>2 DEF pushed
  <2>4. q1[0] = <<>> /\ q1[1] = <<>>
    BY <1>2, <1>21, <2>1 DEF q1, popped, Addressed
  <2>5. q'[0] = <<>> \o <<>> /\ q'[1] = <<>> \o <<>>
    BY <1>8, <2>3, <2>4
  <2> QED BY <2>5
<1>23. ASSUME ~lost', ~reset' PROVE pc' = expected'
  <2>1. pc' = pc_d(s, x) /\ ~lost /\ (reset => s[1].valid)
    BY <1>2, <1>6, <1>17, <1>18, <1>23 DEF backend_next, Types
  <2>2. expected' = IF pop_address(x) THEN address_out
                    ELSE IF x.take THEN plus(expected, length(expected)) ELSE expected
    BY <1>6 DEF backend_next
  <2>3. CASE reset
    <3>1. pc' = nextAt /\ ~x.take /\ es = <<>>
      BY <1>16, <1>21, <2>1, <2>3 DEF pc_d
    <3>2. expected' = expected
      BY <2>2, <3>1 DEF pop_address
    <3>3. expected = nextAt
      <4>1. PICK c, m, f : Follows(es, aq, c, m, f, expected, nextAt)
        BY <1>1, <2>1 DEF Route
      <4> QED BY <3>1, <4>1 DEF Follows
    <3> QED BY <3>1, <3>2, <3>3
  <2>4. CASE ~reset
    <3>1. pc = expected
      BY <1>2, <2>1, <2>4 DEF Addressed
    <3>2. pc' = IF pop_address(x) THEN address_out
                ELSE IF x.take THEN plus(pc, length(fetch_entry.lo)) ELSE pc
      BY <2>1, <2>4 DEF pc_d
    <3>3. ASSUME x.take PROVE fetch_entry.lo = expected
      <4>1. fetch_entry_valid
        BY <1>2, <3>3 DEF takes
      <4>2. es # <<>> /\ fetch_entry = es[1]
        BY <1>1, <4>1, Offered
      <4>3. Right(es[1], expected)
        <5>1. Route(es, aq, expected, nextAt, FALSE) /\ aq \in Seq(Address)
          BY <1>1, <1>2, <2>1, Zenon DEF Types
        <5> QED BY <4>2, <5>1, RouteHead
      <4>4. ~(fetch_entry.ex \/ fetch_entry.wild \/ halfLost(fetch_entry, expected))
        BY <1>6, <1>23, <3>3 DEF backend_next
      <4> QED BY <4>2, <4>3, <4>4 DEF Right
    <3> QED BY <2>2, <3>1, <3>2, <3>3
  <2> QED BY <1>2, <2>3, <2>4 DEF Types
<1>24. Addressed'
  BY <1>22, <1>23 DEF Addressed
<1> QED BY <1>4, <1>13, <1>20, <1>24 DEF IInv

\* ... in every cycle that is flushed ...
LEMMA FlushStep ==
    ASSUME IInv, NEW s, NEW x, NEW k, Inputs(s, x, k), x.redirect # None, credit > 0, Cycle(s, x, k), queue_flush
    PROVE  IInv'
<1>1. Types /\ Fetching /\ x.redirect \in Address
  BY DEF IInv, Inputs
<1>2. /\ npc' \in Address /\ flush_q' \in BOOLEAN
      /\ ic' \in [st : States, vaddr : Address]
      /\ fq' \in [valid : BOOLEAN, vaddr : Address, data : Words, ex : BOOLEAN]
      /\ ra' \in [on : BOOLEAN, addr : Address, lo : Address]
      /\ Fetching' /\ nextAt' = x.redirect
  BY <1>1, FetchStep
<1>3. backend_next(x) /\ prog' = prog /\ reset' = TRUE /\ pc' = 0
  BY DEF Cycle, reset_address_d
<1>4. /\ unresolved' \in 0 .. MAX_CF /\ credit' \in 0 .. 2 /\ expected' = x.redirect /\ lost' = FALSE
  <2>1. unresolved' \in 0 .. MAX_CF /\ credit' \in 0 .. 2
    BY <1>1, <1>3, BackendTypes
  <2> QED BY <1>3, <2>1 DEF backend_next
<1>5. <<>> \in Seq(Entry) /\ <<>> \in Seq(Address) /\ Len(<<>>) = 0 /\ DEPTH \in Nat
  BY FrontendAssumption
<1>6. q' \in [0 .. 1 -> Seq(Entry)] /\ q'[0] = <<>> /\ q'[1] = <<>> /\ aq' = <<>> /\ idx_is' = 0 /\ idx_ds' = 0
  BY <1>5 DEF queue_flush
<1>7. Queued(<<>>, q', 0, 0) /\ Route(<<>>, <<>>, x.redirect, x.redirect, FALSE)
  BY <1>1, <1>6, EmptyQueue
<1>8. Delivering'
  BY <1>2, <1>3, <1>4, <1>5, <1>6, <1>7, RouteNext
<1>9. Addressed'
  BY <1>3, <1>6 DEF Addressed
<1>10. Types'
  <2>1. Len(aq') <= DEPTH /\ Len(q'[0]) <= DEPTH /\ Len(q'[1]) <= DEPTH /\ aq' \in Seq(Address)
    BY <1>5, <1>6
  <2>2. (prog \in DOMAIN Programs)'
    BY <1>1, <1>3 DEF Types
  <2>3. pc' \in Address /\ expected' \in Address
    BY <1>1, <1>3, <1>4, ProgramFacts
  <2> QED BY <1>2, <1>3, <1>4, <1>6, <2>1, <2>2, <2>3 DEF Types, States, Address, Words, Entry
<1> QED BY <1>2, <1>8, <1>9, <1>10 DEF IInv

\* What the predictors say is an address.
LEMMA TargetFacts ==
    ASSUME Types, NEW s, NEW p \in predictions(s)
    PROVE  p.target \in Address
<1>1. p.target \in Restart \cup {0}
  BY DEF predictions
<1> QED BY <1>1, FrontendAssumption, ProgramFacts DEF Address

\* ... and so in every step.
LEMMA NextHolds == IInv /\ [Next]_vars => IInv'
<1> SUFFICES ASSUME IInv, [Next]_vars PROVE IInv'
  OBVIOUS
<1>1. Types /\ None \notin Address /\ Restart \subseteq Address
  BY FrontendAssumption, ProgramFacts DEF IInv, Address
<1>2. CASE Advance
  <2>1. PICK s \in {slots} : \E p \in predictions(s), take \in takes, reply \in replies, d \in data :
          \E resolve \in (IF unresolved > 0 THEN BOOLEAN ELSE {FALSE}) :
            \E x \in {input(take, None, FALSE, resolve, p, reply, d)} : Run(s, x) /\ queue_step(s, x)
    BY <1>2 DEF Advance
  <2>2. PICK p \in predictions(s), take \in takes, reply \in replies, d \in data :
          \E resolve \in (IF unresolved > 0 THEN BOOLEAN ELSE {FALSE}) :
            \E x \in {input(take, None, FALSE, resolve, p, reply, d)} : Run(s, x) /\ queue_step(s, x)
    BY <2>1
  <2>3. PICK resolve \in (IF unresolved > 0 THEN BOOLEAN ELSE {FALSE}) :
          \E x \in {input(take, None, FALSE, resolve, p, reply, d)} : Run(s, x) /\ queue_step(s, x)
    BY <2>2
  <2>4. PICK x : x = input(take, None, FALSE, resolve, p, reply, d) /\ Run(s, x) /\ queue_step(s, x)
    BY <2>3
  <2>5. PICK k : k = signals(s, x) /\ Cycle(s, x, k)
    BY <2>4 DEF Run
  <2>6. resolve \in BOOLEAN /\ (resolve => unresolved > 0) /\ s = slots
    BY <2>1, <2>3
  <2>7. Inputs(s, x, k) /\ x.redirect = None
    <3>1. /\ x.take = take /\ x.redirect = None /\ x.fencei = FALSE /\ x.resolve = resolve
          /\ x.target = p.target /\ x.reply = reply /\ x.data = d
      BY <2>4, Zenon DEF input
    <3> QED BY <1>1, <2>2, <2>5, <2>6, <3>1, TargetFacts DEF Inputs
  <2> QED BY <2>4, <2>5, <2>7, AdvanceStep
<1>3. CASE Flush
  <2>1. PICK s \in {slots} : \E p \in predictions(s), take \in takes, reply \in replies, d \in data :
          \E redirect \in Restart, fencei \in BOOLEAN :
            Run(s, input(take, redirect, fencei, FALSE, p, reply, d)) /\ queue_flush
    BY <1>3 DEF Flush
  <2>2. PICK p \in predictions(s), take \in takes, reply \in replies, d \in data :
          \E redirect \in Restart, fencei \in BOOLEAN :
            Run(s, input(take, redirect, fencei, FALSE, p, reply, d)) /\ queue_flush
    BY <2>1
  <2>3. PICK redirect \in Restart, fencei \in BOOLEAN :
          Run(s, input(take, redirect, fencei, FALSE, p, reply, d)) /\ queue_flush
    BY <2>2
  <2>4. PICK x : x = input(take, redirect, fencei, FALSE, p, reply, d) /\ Run(s, x)
    BY <2>3
  <2>5. PICK k : k = signals(s, x) /\ Cycle(s, x, k)
    BY <2>4 DEF Run
  <2>6. redirect \in Address /\ redirect # None /\ s = slots
    BY <1>1, <2>1, <2>3
  <2>7. Inputs(s, x, k) /\ x.redirect = redirect
    <3>1. /\ x.take = take /\ x.redirect = redirect /\ x.fencei = fencei /\ x.resolve = FALSE
          /\ x.target = p.target /\ x.reply = reply /\ x.data = d
      BY <2>4, Zenon DEF input
    <3> QED BY <1>1, <2>2, <2>3, <2>5, <2>6, <3>1, TargetFacts DEF Inputs
  <2>8. credit > 0
    BY <1>3 DEF Flush
  <2> QED BY <2>3, <2>5, <2>6, <2>7, <2>8, FlushStep
<1>4. CASE UNCHANGED vars
  <2>1. /\ prog' = prog /\ npc' = npc /\ ic' = ic /\ flush_q' = flush_q /\ fq' = fq /\ ra' = ra /\ q' = q
        /\ aq' = aq /\ idx_is' = idx_is /\ idx_ds' = idx_ds /\ pc' = pc /\ reset' = reset
        /\ unresolved' = unresolved /\ credit' = credit /\ expected' = expected /\ lost' = lost
    BY <1>4 DEF vars
  <2>2. Types'
    BY <1>1, <2>1 DEF Types, Address, Words, Entry
  <2>3. inFlight' = inFlight /\ afterWord' = afterWord /\ fetchPos' = fetchPos /\ nextAt' = nextAt
    BY <2>1 DEF inFlight, afterWord, fetchPos, nextAt
  <2>4. Fetching'
    BY <2>1, <2>3 DEF IInv, Fetching, comp, Mem, plus, word, odd
  <2>5. Addressed'
    BY <2>1 DEF IInv, Addressed
  <2>6. PICK es \in Seq(Entry) : Queued(es, q, idx_ds, idx_is) /\ Route(es, aq, expected, nextAt, lost)
    BY DEF IInv, Delivering
  <2>7. Delivering'
    BY <2>1, <2>3, <2>6, RouteNext
  <2> QED BY <2>2, <2>4, <2>5, <2>7 DEF IInv
<1> QED BY <1>2, <1>3, <1>4 DEF Next

\* The registers hold what the invariant says in every reachable state.
THEOREM Invariant == Spec => []IInv
BY InitHolds, NextHolds, PTL DEF Spec

-----------------------------------------------------------------------------
(* What the invariant says to the back end.                                *)

\* The registers have their types in every reachable state, for every program:
\* no FIFO of instr_queue.sv is written when it is full, and the two FIFOs of
\* instructions are filled and emptied in turn.
THEOREM TypeCorrect == Spec => []TypeOK
<1>1. IInv => TypeOK
  <2> SUFFICES ASSUME IInv PROVE TypeOK
    OBVIOUS
  <2>1. Types
    BY DEF IInv
  <2>2. PICK es \in Seq(Entry) : Queued(es, q, idx_ds, idx_is) /\ Route(es, aq, expected, nextAt, lost)
    BY DEF IInv, Delivering
  <2>3. Len(q[idx_ds]) - Len(q[1 - idx_ds]) = IF idx_is = idx_ds THEN 0 ELSE 1
    BY <2>2, QueuedFacts
  <2>4. \A i \in 0 .. 1 : Len(q[i]) <= DEPTH /\ \A k \in 1 .. Len(q[i]) : q[i][k] \in Entry
    <3>1. ASSUME NEW i \in 0 .. 1 PROVE q[i] \in Seq(Entry) /\ Len(q[i]) <= DEPTH
      BY <2>1 DEF Types
    <3> QED BY <3>1
  <2>5. Len(aq) <= DEPTH /\ \A k \in 1 .. Len(aq) : aq[k] \in Address
    BY <2>1 DEF Types
  <2> QED BY <2>1, <2>3, <2>4, <2>5 DEF Types, TypeOK
<1> QED BY <1>1, Invariant, PTL

\* The entry on offer is right.
LEMMA OfferRight ==
    ASSUME IInv, fetch_entry_valid, ~lost
    PROVE  /\ q[idx_ds] # <<>> /\ pc = expected /\ fetch_entry \in Entry
           /\ Right(fetch_entry, expected)
           /\ fetch_entry.cf => aq # <<>> /\ Target(fetch_entry, address_out)
<1>1. PICK es \in Seq(Entry) : Queued(es, q, idx_ds, idx_is) /\ Route(es, aq, expected, nextAt, lost)
  BY DEF IInv, Delivering
<1>2. es # <<>> /\ q[idx_ds] # <<>> /\ fetch_entry = es[1] /\ es[1] \in Entry
  BY <1>1, Offered
<1>3. aq \in Seq(Address) /\ lost \in BOOLEAN /\ reset \in BOOLEAN
  BY DEF IInv, Types
<1>4. Route(es, aq, expected, nextAt, FALSE)
  <2>1. lost = FALSE
    BY <1>3
  <2> QED BY <1>1, <2>1, Zenon
<1>5. Right(es[1], expected) /\ (es[1].cf => aq # <<>> /\ Target(es[1], aq[1]))
  BY <1>2, <1>3, <1>4, RouteHead
<1>6. aq # <<>> => address_out = aq[1]
  BY <1>3 DEF address_out
<1>7. pc = expected
  BY <1>3 DEF IInv, Addressed, fetch_entry_valid
<1> QED BY <1>2, <1>5, <1>6, <1>7, Zenon

\* The back end is offered exactly the program along the path it was told, for
\* every program: frontend.sv, instr_realign.sv, instr_queue.sv and the kill
\* signals to cva6_icache.sv together neither lose, repeat nor reorder an
\* instruction, whatever is replayed, killed or cut in two by a word boundary.
THEOREM InstructionsInOrder == Spec => []InOrder
<1>1. IInv => InOrder
  <2> SUFFICES ASSUME IInv, fetch_entry_valid, ~lost
               PROVE  /\ q[idx_ds] # <<>> /\ pc = expected
                      /\ fetch_entry.ex \/ halfLost(fetch_entry, expected)
                           \/ /\ fetch_entry.lo = expected
                              /\ fetch_entry.hi = IF comp(expected) THEN None ELSE plus(expected, 1)
                      /\ fetch_entry.cf =>
                           /\ aq # <<>>
                           /\ ~fetch_entry.ex /\ kind(fetch_entry.lo) \in {"jump", "branch"}
                                => address_out = Mem[fetch_entry.lo].target
    BY Zenon DEF InOrder
  <2>1. /\ q[idx_ds] # <<>> /\ pc = expected
        /\ Right(fetch_entry, expected)
        /\ fetch_entry.cf => aq # <<>> /\ Target(fetch_entry, address_out)
    BY OfferRight
  <2> QED BY <2>1 DEF Right, Target
<1> QED BY <1>1, Invariant, PTL

\* The exception of a fetch reaches the back end with every instruction that it
\* is about and with no other, for every program and every set of words that
\* fault, but for the first half that instr_realign.sv keeps without it.
THEOREM FaultsKept == Spec => []FaultKept
<1>1. IInv => FaultKept
  <2> SUFFICES ASSUME IInv, fetch_entry_valid, ~lost
               PROVE  fetch_entry.ex = faulty(expected) \/ halfLost(fetch_entry, expected)
    BY DEF FaultKept
  <2>1. Right(fetch_entry, expected)
    BY OfferRight
  <2> QED BY <2>1 DEF Right
<1> QED BY <1>1, Invariant, PTL
=============================================================================
