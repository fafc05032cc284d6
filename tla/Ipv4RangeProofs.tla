--------------------------- MODULE Ipv4RangeProofs ---------------------------
(***************************************************************************)
(* What Ipv4Range promises for pools and clusters of every size.           *)
(***************************************************************************)
EXTENDS Ipv4Range, FiniteSetTheorems, FunctionTheorems, WellFoundedInduction, TLAPS

LEMMA DivMod ==
  ASSUME NEW n \in Nat, NEW p \in Nat, p > 0
  PROVE  /\ n \div p \in Nat
         /\ n % p \in 0 .. p - 1
         /\ n = p * (n \div p) + (n % p)
  OBVIOUS

LEMMA Monotone ==
  ASSUME NEW k \in Nat, NEW i \in Int, NEW j \in Int, i <= j
  PROVE  i * k <= j * k
  OBVIOUS

\* The bounds of a share in terms of its index: shares start at multiples of
\* the quotient and lie inside of the pool.
LEMMA ShareBounds ==
  ASSUME NEW r \in Ranges, NEW parts \in Nat, parts > 0,
         NEW i \in 1 .. parts
  PROVE  /\ ShareStart(r, parts, i) \in Nat
         /\ ShareStart(r, parts, i + 1) \in Nat
         /\ r.start <= ShareStart(r, parts, i)
         /\ ShareStart(r, parts, i) <= ShareStart(r, parts, i + 1)
         /\ ShareStart(r, parts, i + 1) <= ShareStart(r, parts, parts + 1)
         /\ ShareStart(r, parts, parts + 1) + (Len32(r) % parts) = r.end
         /\ Len32(r) % parts \in Nat
<1> DEFINE len == Len32(r)
           q == len \div parts
<1>1. r.start \in Nat /\ r.end \in Nat /\ len \in Nat /\ r.start + len = r.end
  BY DEF Ranges, Len32
<1>2. q \in Nat /\ len % parts \in Nat /\ len = parts * q + (len % parts)
  BY <1>1, DivMod
<1> HIDE DEF len, q
<1>3. 0 <= (i - 1) * q /\ (i - 1) * q <= i * q /\ i * q <= parts * q
  <2>0. /\ 0 \in Int /\ i - 1 \in Int /\ i \in Int /\ parts \in Int
        /\ 0 <= i - 1 /\ i - 1 <= i /\ i <= parts
    OBVIOUS
  <2>1. 0 * q <= (i - 1) * q
    BY <1>2, <2>0, Monotone
  <2>2. (i - 1) * q <= i * q /\ i * q <= parts * q
    BY <1>2, <2>0, Monotone
  <2> QED BY <2>1, <2>2, <1>2
<1>4. /\ ShareStart(r, parts, i) = r.start + (i - 1) * q
      /\ ShareStart(r, parts, i + 1) = r.start + i * q
      /\ ShareStart(r, parts, parts + 1) = r.start + parts * q
  BY DEF ShareStart, q, len
<1>5. (i - 1) * q \in Int /\ i * q \in Int /\ parts * q \in Int
  BY <1>2
<1> QED BY <1>1, <1>2, <1>3, <1>4, <1>5 DEF len

\* Every share is a proper range inside of the pool: Ipv4Range::new never fails
\* its assertion in divide, and no sum in divide exceeds the end of the pool, so
\* none overflows a word.
THEOREM DivideWithinPool ==
  ASSUME NEW r \in Ranges, NEW parts \in Nat, parts > 0, NEW i \in 1 .. parts
  PROVE  /\ Divide(r, parts)[i] \in Ranges
         /\ r.start <= Divide(r, parts)[i].start
         /\ Divide(r, parts)[i].end <= r.end
<1> DEFINE s == ShareStart(r, parts, i)
           e == ShareStart(r, parts, i + 1)
           rest == Len32(r) % parts
<1>1. /\ s \in Nat /\ e \in Nat /\ rest \in Nat
      /\ r.start <= s /\ s <= e
      /\ e + rest <= r.end
  BY ShareBounds DEF Ranges
<1>2. Divide(r, parts)[i] = [start |-> s, end |-> e + (IF i = parts THEN rest ELSE 0)]
  BY DEF Divide
<1> HIDE DEF s, e, rest
<1>3. r.start \in Nat /\ r.end \in Nat
  BY DEF Ranges
<1> QED BY <1>1, <1>2, <1>3 DEF Ranges

\* The shares of two nodes have no address in common.
THEOREM DivideDisjoint ==
  ASSUME NEW r \in Ranges, NEW parts \in Nat, parts > 0,
         NEW i \in 1 .. parts, NEW j \in 1 .. parts, i # j
  PROVE  Addresses(Divide(r, parts)[i]) \cap Addresses(Divide(r, parts)[j]) = {}
<1>1. ASSUME NEW a \in 1 .. parts, NEW b \in 1 .. parts, a < b
      PROVE  Divide(r, parts)[a].end <= Divide(r, parts)[b].start
  <2> DEFINE q == Len32(r) \div parts
  <2>1. Len32(r) \in Nat /\ q \in Nat /\ r.start \in Nat
    BY DivMod DEF Ranges, Len32
  <2>2. /\ Divide(r, parts)[a].end = r.start + a * q
        /\ Divide(r, parts)[b].start = r.start + (b - 1) * q
    <3>1. a # parts
      BY <1>1
    <3> QED BY <2>1, <3>1 DEF Divide, ShareStart
  <2> HIDE DEF q
  <2>3. a * q <= (b - 1) * q
    <3>1. a \in Int /\ b - 1 \in Int /\ a <= b - 1
      BY <1>1
    <3> QED BY <2>1, <3>1, Monotone
  <2>4. a * q \in Int /\ (b - 1) * q \in Int
    BY <2>1
  <2> QED BY <2>1, <2>2, <2>3, <2>4
<1>2. /\ Divide(r, parts)[i] \in Ranges
      /\ Divide(r, parts)[j] \in Ranges
  BY DivideWithinPool
<1>3. CASE i < j
  BY <1>1, <1>2, <1>3 DEF Addresses, Ranges
<1>4. CASE j < i
  BY <1>1, <1>2, <1>4 DEF Addresses, Ranges
<1> QED BY <1>3, <1>4

\* Together the shares are the whole pool: no address is lost in the division.
THEOREM DivideCovers ==
  ASSUME NEW r \in Ranges, NEW parts \in Nat, parts > 0
  PROVE  UNION {Addresses(Divide(r, parts)[i]) : i \in 1 .. parts} = Addresses(r)
<1> DEFINE q == Len32(r) \div parts
           D == Divide(r, parts)
<1>1. /\ r.start \in Nat /\ r.end \in Nat /\ q \in Nat
      /\ Len32(r) % parts \in Nat
      /\ Len32(r) % parts < parts
      /\ r.end = r.start + parts * q + (Len32(r) % parts)
  <2>1. Len32(r) \in Nat /\ r.start + Len32(r) = r.end
    BY DEF Ranges, Len32
  <2>2. /\ q \in Nat
        /\ Len32(r) % parts \in 0 .. parts - 1
        /\ Len32(r) = parts * q + (Len32(r) % parts)
    BY <2>1, DivMod
  <2>3. r.start \in Nat /\ r.end \in Nat
    BY DEF Ranges
  <2> DEFINE len == Len32(r)
             rest == Len32(r) % parts
  <2> HIDE DEF q, len, rest
  <2>4. q \in Nat /\ rest \in Nat /\ rest < parts /\ len = parts * q + rest
    BY <2>2 DEF q, len, rest
  <2>5. parts * q \in Int
    BY <2>4
  <2>6. r.end = r.start + parts * q + rest
    BY <2>1, <2>3, <2>4, <2>5 DEF len
  <2> QED BY <2>3, <2>4, <2>6 DEF rest
<1>2. ASSUME NEW i \in 1 .. parts PROVE Addresses(D[i]) \subseteq Addresses(r)
  BY DivideWithinPool DEF Addresses, Ranges
<1>3. ASSUME NEW a \in Addresses(r)
      PROVE  \E i \in 1 .. parts : a \in Addresses(D[i])
  <2>1. a \in Int /\ r.start <= a /\ a < r.end
    BY <1>1 DEF Addresses
  <2>2. CASE a >= r.start + (parts - 1) * q
    <3>1. D[parts] = [start |-> r.start + (parts - 1) * q,
                      end |-> r.start + parts * q + (Len32(r) % parts)]
      BY DEF Divide, ShareStart
    <3> QED BY <1>1, <2>1, <2>2, <3>1 DEF Addresses
  <2>3. CASE a < r.start + (parts - 1) * q
    <3> DEFINE d == a - r.start
               i == (d \div q) + 1
    <3>1. d \in Nat /\ d < (parts - 1) * q
      BY <1>1, <2>1, <2>3
    <3>2. q > 0
      BY <1>1, <3>1
    <3>3. d \div q \in Nat /\ d % q \in 0 .. q - 1 /\ d = q * (d \div q) + (d % q)
      BY <1>1, <3>1, <3>2, DivMod
    <3>4. d \div q < parts - 1
      <4>1. SUFFICES ASSUME d \div q >= parts - 1 PROVE FALSE
        BY <3>3
      <4>2. (parts - 1) * q <= (d \div q) * q
        BY <1>1, <3>3, <4>1, Monotone
      <4> QED BY <1>1, <3>1, <3>3, <4>2
    <3>5. i \in 1 .. parts /\ i # parts
      BY <3>3, <3>4
    <3>6. D[i] = [start |-> r.start + (d \div q) * q, end |-> r.start + ((d \div q) + 1) * q]
      <4>1. ASSUME NEW k \in Nat, k + 1 \in 1 .. parts, k + 1 # parts
            PROVE  Divide(r, parts)[k + 1] =
                     [start |-> r.start + k * q, end |-> r.start + (k + 1) * q]
        <5>1. (k + 1) - 1 = k /\ ((k + 1) + 1) - 1 = k + 1
          OBVIOUS
        <5>2. r.start + (k + 1) * q + 0 = r.start + (k + 1) * q
          BY <1>1
        <5> QED BY <4>1, <5>1, <5>2 DEF Divide, ShareStart
      <4> QED BY <3>3, <3>5, <4>1
    <3>7. /\ (d \div q) * q <= d
          /\ d < ((d \div q) + 1) * q
      BY <1>1, <3>1, <3>3
    <3>8. a \in Addresses(D[i])
      <4> DEFINE k == d \div q
      <4>1. k \in Nat /\ k * q <= d /\ d < (k + 1) * q
        BY <3>3, <3>7
      <4>2. D[i].start = r.start + k * q /\ D[i].end = r.start + (k + 1) * q
        BY <3>6
      <4>3. a = r.start + d
        BY <1>1, <2>1
      <4> HIDE DEF k, d, i, D, q
      <4>4. k * q \in Int /\ (k + 1) * q \in Int
        BY <1>1, <4>1
      <4> QED BY <1>1, <2>1, <3>1, <4>1, <4>2, <4>3, <4>4 DEF Addresses
    <3> QED BY <3>5, <3>8
  <2>4. (parts - 1) * q \in Int
    BY <1>1
  <2> QED BY <1>1, <2>1, <2>2, <2>3, <2>4
<1> QED BY <1>2, <1>3

\* The scan of a cursor that lies in the range returns an address of the range
\* that is not taken (the guarantee discover_lease needs of iter_starting_at).
THEOREM ScanStaysInRange ==
  ASSUME NEW r \in Ranges, NEW at \in r.start .. r.end, NEW taken,
         NEW a \in FirstFree(r, at, taken)
  PROVE  a \in Addresses(r) /\ a \notin taken
BY DEF FirstFree, Least, Addresses, Ranges

-----------------------------------------------------------------------------
(* The scan finds what is free.                                            *)

LEMMA LeastExists ==
  ASSUME NEW S \in SUBSET Nat
  PROVE  /\ S # {} => Least(S) # {}
         /\ Least(S) \subseteq S
         /\ \A a, b \in Least(S) : a = b
<1>1. Least(S) \subseteq S /\ \A a, b \in Least(S) : a \in Nat /\ b \in Nat /\ a <= b /\ b <= a
  BY DEF Least
<1>2. ASSUME S # {} PROVE Least(S) # {}
  <2>1. PICK a \in S : \A b \in S : ~ (<<b, a>> \in OpToRel(<, Nat))
    BY <1>2, NatLessThanWellFounded, WFMin
  <2>2. \A b \in S : ~ (b < a)
    BY <2>1 DEF OpToRel
  <2>3. \A b \in S : a <= b
    BY <2>2
  <2> QED BY <2>3 DEF Least
<1> QED BY <1>1, <1>2

\* The scan wraps around: from a cursor in the range it finds an address if there
\* is one that is not taken, and no other one (dhcp.rs:92, iter_starting_at).
THEOREM ScanFindsFree ==
  ASSUME NEW r \in Ranges, NEW at \in r.start .. r.end, NEW taken
  PROVE  LET free  == Addresses(r) \ taken
             found == FirstFree(r, at, taken)
         IN  /\ found \subseteq free
             /\ Cardinality(found) = (IF free = {} THEN 0 ELSE 1)
<1> DEFINE free    == Addresses(r) \ taken
           found   == FirstFree(r, at, taken)
           ahead   == (at .. r.end - 1) \ taken
           wrapped == (r.start .. at - 1) \ taken
<1>1. ahead \in SUBSET Nat /\ wrapped \in SUBSET Nat /\ free = ahead \cup wrapped
  BY DEF Ranges, Addresses
<1>2. found = IF ahead # {} THEN Least(ahead) ELSE Least(wrapped)
  BY DEF FirstFree
<1>3. found \subseteq free
  BY <1>1, <1>2, LeastExists
<1>4. free # {} => found # {}
  BY <1>1, <1>2, LeastExists
<1>5. \A a, b \in found : a = b
  BY <1>1, <1>2, LeastExists
<1> HIDE DEF free, found
<1>6. Cardinality(found) = IF free = {} THEN 0 ELSE 1
  <2>1. CASE free = {}
    <3>1. found = {}
      BY <1>3, <2>1
    <3> QED BY <2>1, <3>1, FS_EmptySet
  <2>2. CASE free # {}
    <3>1. PICK a : a \in found
      BY <1>4, <2>2
    <3>2. found = {a}
      BY <1>5, <3>1
    <3>3. Cardinality(found) = 1
      BY <3>2, FS_Singleton, Zenon
    <3> QED BY <2>2, <3>3
  <2> QED BY <2>1, <2>2
<1> QED BY <1>3, <1>6 DEF free, found

-----------------------------------------------------------------------------
(* Powers of two. 2 ^ n is known to the library as the number of subsets    *)
(* of a set of n elements.                                                 *)

LEMMA PowerCounts ==
  ASSUME NEW S, IsFiniteSet(S)
  PROVE  /\ IsFiniteSet(SUBSET S) /\ Cardinality(SUBSET S) = 2 ^ Cardinality(S)
         /\ 2 ^ Cardinality(S) \in Nat /\ 2 ^ Cardinality(S) > 0
<1>1. IsFiniteSet(SUBSET S) /\ Cardinality(SUBSET S) = 2 ^ Cardinality(S)
  BY FS_SUBSET
<1>2. Cardinality(SUBSET S) \in Nat
  BY <1>1, FS_CardinalityType
<1>3. Cardinality(SUBSET S) # 0
  <2>1. SUBSET S # {}
    OBVIOUS
  <2> QED BY <1>1, <2>1, FS_EmptySet
<1> QED BY <1>1, <1>2, <1>3

LEMMA Interval ==
  ASSUME NEW a \in Nat, NEW b \in Nat, a <= b
  PROVE  IsFiniteSet(a + 1 .. b) /\ Cardinality(a + 1 .. b) = b - a
<1>1. a + 1 \in Int /\ b \in Int
  OBVIOUS
<1>2. /\ IsFiniteSet(a + 1 .. b)
      /\ Cardinality(a + 1 .. b) = IF a + 1 > b THEN 0 ELSE b - (a + 1) + 1
  BY <1>1, FS_Interval
<1> QED BY <1>2

LEMMA FirstNumbers ==
  ASSUME NEW n \in Nat
  PROVE  IsFiniteSet(1 .. n) /\ Cardinality(1 .. n) = n
<1>1. 1 \in Int /\ n \in Int
  OBVIOUS
<1>2. /\ IsFiniteSet(1 .. n)
      /\ Cardinality(1 .. n) = IF 1 > n THEN 0 ELSE n - 1 + 1
  BY <1>1, FS_Interval
<1> QED BY <1>2

LEMMA PowerType ==
  ASSUME NEW n \in Nat
  PROVE  2 ^ n \in Nat /\ 2 ^ n > 0
<1>1. 2 ^ Cardinality(1 .. n) \in Nat /\ 2 ^ Cardinality(1 .. n) > 0
  BY FirstNumbers, PowerCounts
<1> QED BY <1>1, FirstNumbers

\* The subsets of two disjoint sets, and those of their union.
LEMMA SubsetsOfUnion ==
  ASSUME NEW A, NEW B, A \cap B = {}
  PROVE  ExistsBijection((SUBSET A) \X (SUBSET B), SUBSET (A \cup B))
<1> DEFINE D == (SUBSET A) \X (SUBSET B)
           T == SUBSET (A \cup B)
           f == [p \in D |-> p[1] \cup p[2]]
<1>1. f \in [D -> T]
  OBVIOUS
<1>2. ASSUME NEW p \in D, NEW q \in D, f[p] = f[q] PROVE p = q
  <2>1. /\ p = <<p[1], p[2]>> /\ p[1] \subseteq A /\ p[2] \subseteq B
        /\ q = <<q[1], q[2]>> /\ q[1] \subseteq A /\ q[2] \subseteq B
    OBVIOUS
  <2>2. p[1] \cup p[2] = q[1] \cup q[2]
    BY <1>2
  <2>3. p[1] = q[1] /\ p[2] = q[2]
    BY <2>1, <2>2
  <2> QED BY <2>1, <2>3
<1>3. ASSUME NEW t \in T PROVE \E p \in D : f[p] = t
  <2>1. <<t \cap A, t \cap B>> \in D
    OBVIOUS
  <2>2. (t \cap A) \cup (t \cap B) = t
    OBVIOUS
  <2>3. f[<<t \cap A, t \cap B>>] = t
    BY <2>1, <2>2
  <2> QED BY <2>1, <2>3
<1> HIDE DEF D, T, f
<1>4. f \in Bijection(D, T)
  BY <1>1, <1>2, <1>3, Fun_IsBij
<1> QED BY <1>4 DEF ExistsBijection, D, T

LEMMA PowerOfSum ==
  ASSUME NEW n \in Nat, NEW k \in 0 .. n
  PROVE  2 ^ n = 2 ^ k * 2 ^ (n - k)
<1> DEFINE A == 1 .. k
           B == k + 1 .. n
<1>1. IsFiniteSet(A) /\ Cardinality(A) = k
  BY FirstNumbers
<1>2. IsFiniteSet(B) /\ Cardinality(B) = n - k
  BY Interval
<1>3. A \cap B = {} /\ A \cup B = 1 .. n
  OBVIOUS
<1>4. IsFiniteSet(A \cup B) /\ Cardinality(A \cup B) = n
  <2>1. IsFiniteSet(1 .. n) /\ Cardinality(1 .. n) = n
    BY FirstNumbers
  <2> HIDE DEF A, B
  <2> QED BY <1>3, <2>1, Zenon
<1> HIDE DEF A, B
<1>5. /\ IsFiniteSet(SUBSET A) /\ Cardinality(SUBSET A) = 2 ^ k
      /\ IsFiniteSet(SUBSET B) /\ Cardinality(SUBSET B) = 2 ^ (n - k)
      /\ IsFiniteSet(SUBSET (A \cup B)) /\ Cardinality(SUBSET (A \cup B)) = 2 ^ n
  BY <1>1, <1>2, <1>4, PowerCounts
<1>6. /\ IsFiniteSet((SUBSET A) \X (SUBSET B))
      /\ Cardinality((SUBSET A) \X (SUBSET B)) = Cardinality(SUBSET A) * Cardinality(SUBSET B)
  BY <1>5, FS_Product
<1>7. Cardinality(SUBSET (A \cup B)) = Cardinality((SUBSET A) \X (SUBSET B))
  BY <1>3, <1>6, SubsetsOfUnion, FS_Bijection
<1> QED BY <1>5, <1>6, <1>7

-----------------------------------------------------------------------------
(* The pool of a configured network.                                       *)

\* The number of addresses of a network, and of all networks of its size.
LEMMA NetworkSizes ==
  ASSUME NEW prefix \in 0 .. AddressBits
  PROVE  /\ 2 ^ (AddressBits - prefix) \in Nat /\ 2 ^ (AddressBits - prefix) > 0
         /\ 2 ^ prefix \in Nat
         /\ Word \in Nat /\ Word > 0
         /\ Word = 2 ^ prefix * 2 ^ (AddressBits - prefix)
<1>1. AddressBits \in Nat /\ AddressBits - prefix \in Nat /\ prefix \in Nat
  BY AddressBitsAssumption
<1>2. Word = 2 ^ prefix * 2 ^ (AddressBits - prefix)
  BY <1>1, PowerOfSum DEF Word
<1> QED BY <1>1, <1>2, PowerType DEF Word

\* A range that from_cidr returns is one that Ipv4Range::new accepts, of words.
LEMMA CidrType ==
  ASSUME NEW ip \in 0 .. Word - 1, NEW prefix \in 0 .. AddressBits, NEW checked \in BOOLEAN,
         NEW r \in FromCidr(ip, prefix, checked)
  PROVE  r \in Ranges /\ r.start \in 0 .. Word - 1 /\ r.end < Word
<1> DEFINE e == ip + 2 ^ (AddressBits - prefix) - 1
<1>1. Word \in Nat /\ Word > 0 /\ ip \in Nat /\ e \in Nat
  BY NetworkSizes
<1>2. r = [start |-> ip, end |-> e % Word] /\ ~ (e % Word < ip)
  BY DEF FromCidr
<1> HIDE DEF e
<1>3. e % Word \in 0 .. Word - 1
  BY <1>1, DivMod
<1> QED BY <1>1, <1>2, <1>3 DEF Ranges

\* The pool of a network is its addresses but the last one, for every width, also
\* for the topmost network, whose size overflows a word on the way: there a build
\* with overflow checks panics instead (dhcp.rs:100, from_cidr).
THEOREM PoolOfNetwork ==
  ASSUME NEW ip \in 0 .. Word - 1, NEW prefix \in 0 .. AddressBits,
         ip % 2 ^ (AddressBits - prefix) = 0
  PROVE  LET size == 2 ^ (AddressBits - prefix)
             pool == {[start |-> ip, end |-> ip + size - 1]}
         IN  /\ FromCidr(ip, prefix, FALSE) = pool
             /\ FromCidr(ip, prefix, TRUE) = (IF ip + size = Word THEN {} ELSE pool)
<1> DEFINE size == 2 ^ (AddressBits - prefix)
           nets == 2 ^ prefix
           n    == ip \div size
           end  == (ip + size - 1) % Word
<1>1. /\ size \in Nat /\ size > 0 /\ nets \in Nat
      /\ Word \in Nat /\ Word > 0 /\ Word = nets * size
      /\ ip \in Nat /\ ip < Word
  BY NetworkSizes
<1>2. ip % size = 0
  OBVIOUS
<1> HIDE DEF size, nets
<1>3. n \in Nat /\ ip = size * n + (ip % size)
  BY <1>1, DivMod
<1> HIDE DEF n
<1>4. ip = n * size
  BY <1>1, <1>2, <1>3
<1>5. n < nets
  <2>1. SUFFICES ASSUME nets <= n PROVE FALSE
    BY <1>1, <1>3
  <2>2. nets * size <= n * size
    BY <1>1, <1>3, <2>1, Monotone
  <2> QED BY <1>1, <1>4, <2>2
<1>6. ip + size <= Word
  <2>1. n + 1 <= nets
    BY <1>1, <1>3, <1>5
  <2>2. (n + 1) * size <= nets * size
    BY <1>1, <1>3, <2>1, Monotone
  <2>3. (n + 1) * size = n * size + size
    BY <1>1, <1>3
  <2> QED BY <1>1, <1>4, <2>2, <2>3
<1>7. end = ip + size - 1 /\ ~ (end < ip)
  <2> DEFINE e == ip + size - 1
  <2>1. e \in Nat /\ e < Word /\ ip <= e
    BY <1>1, <1>6
  <2> HIDE DEF e
  <2>2. e % Word = e
    BY <1>1, <2>1
  <2> QED BY <1>1, <2>1, <2>2 DEF e
<1> HIDE DEF end
<1>8. CidrOverflows(ip, prefix) <=> ip + size = Word
  <2>1. CidrOverflows(ip, prefix) <=> size = Word \/ ip + size >= Word
    BY DEF CidrOverflows, size
  <2> QED BY <1>1, <1>6, <2>1
<1>9. ASSUME NEW checked \in BOOLEAN
      PROVE  FromCidr(ip, prefix, checked) =
               IF (checked /\ CidrOverflows(ip, prefix)) \/ end < ip
                 THEN {} ELSE {[start |-> ip, end |-> end]}
  BY DEF FromCidr, size, end
<1> QED BY <1>7, <1>8, <1>9 DEF size
=============================================================================
