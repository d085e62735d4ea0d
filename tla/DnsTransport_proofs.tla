------------------------ MODULE DnsTransport_proofs -------------------------
(***************************************************************************)
(* The DNS transports use their pool as ConnPool says: every step of an    *)
(* Exchange is a step of the pool with some caller, or leaves it alone.    *)
(* What is proved of the pool holds for them.                              *)
(*                                                                         *)
(* And the answer an Exchange returns is that to its query.  A TLS         *)
(* connection has one user, who reads its answer before giving it back     *)
(* (OwnConn).  A UDP query is known by its id, so the invariant gives      *)
(* each query a position, of which the id is the remainder (Numbered): a   *)
(* position is passed over only for a callback of another caller (Passed). *)
(***************************************************************************)
EXTENDS DnsTransport, ConnPool_proofs, FiniteSetTheorems

\* A step of an Exchange is one of the pool, with that caller, or leaves the
\* pool alone.
LEMMA ExchangeUsesPool ==
  ASSUME NEW p \in Callers, ExchangeStep(p)
  PROVE  [PoolNext]_poolVars
<1>1. CASE ResetPool(p)
  BY <1>1, Zenon DEF ResetPool, PoolNext
<1>2. CASE ResetDone(p)
  BY <1>2, Zenon DEF ResetDone, PoolNext, UserStep
<1>3. CASE NoFreeId(p) \/ TlsRelease(p) \/ QuicEnd(p) \/ QuicRetry(p) \/ Answered(p)
  BY <1>3, Zenon DEF NoFreeId, TlsRelease, QuicEnd, QuicRetry, Answered, PoolNext, UserStep
<1>4. CASE TlsFail(p)
  BY <1>4, Zenon DEF TlsFail, PoolNext, UserStep
<1>5. CASE Send(p) \/ TlsWrite(p)
  BY <1>5, Zenon DEF Send, TlsWrite
<1>6. CASE SendFails(p) \/ ConnFailed(p) \/ TryAgain(p)
  BY <1>6, Zenon DEF SendFails, ConnFailed, TryAgain, PoolNext, UserStep
<1>7. QED
  BY <1>1, <1>2, <1>3, <1>4, <1>5, <1>6, Zenon DEF ExchangeStep

\* So is a step of a receive loop, of a deadline and of the network.
LEMMA OtherUsesPool ==
  ASSUME [Next]_vars, ~\E p \in Callers : ExchangeStep(p)
  PROVE  [PoolNext]_poolVars
<1>1. CASE PoolStep
  BY <1>1, Zenon DEF PoolStep, PoolNext
<1>2. ASSUME NEW p \in Callers, Ask(p) \/ TlsAnswer(p) \/ DeadlineCloses(p)
      PROVE  [PoolNext]_poolVars
  BY <1>2, Zenon DEF Ask, TlsAnswer, DeadlineCloses, PoolNext, UserStep
<1>3. ASSUME NEW c \in Conns, ReceiveFails(c) \/ \E m \in wire[c] : Receive(c, m)
      PROVE  [PoolNext]_poolVars
  BY <1>3, Zenon DEF ReceiveFails, Receive, PoolNext
<1>4. CASE Environment
  BY <1>4, Zenon DEF Environment, PoolNext, UserStep
<1>5. CASE UNCHANGED vars
  BY <1>5, Zenon DEF vars
<1>6. QED
  BY <1>1, <1>2, <1>3, <1>4, <1>5, Zenon DEF Next

\* The transports of UDP, TLS and QUIC keep to the protocol of the pool: every
\* step of an Exchange is one of the pool with some caller, or leaves it alone.
THEOREM TransportsUsePool == Spec => UsesPool
<1>1. Init => PoolInit
  BY DEF Init
<1>2. [Next]_vars => [PoolNext]_poolVars
  BY ExchangeUsesPool, OtherUsesPool
<1>3. QED
  BY <1>1, <1>2, PTL DEF Spec, UsesPool, PoolSpec

\* So what is proved of the pool holds for the transports: no connection is
\* lost or has two users, created is reported once (udp.go:174), closeState
\* has the map of its state to itself, and an Exchange fails for its own reasons.
THEOREM TransportsAreSafe ==
  Spec => [](NoConnLost /\ ExclusiveUse /\ ClaimedOnce) /\ OldStateUntouched /\ ErrorsAreOwn
BY TransportsUsePool, PoolLosesNothing, PoolExclusive, PoolClaims, PoolOldStates, PoolErrors, PTL
   DEF UsesPool

-----------------------------------------------------------------------------
(* Positions and ids *)

\* A set of natural numbers has a least one: Min, with which the model says that
\* nextAvailableQueryId tries the ids in order (udp.go:103), is defined for it.
LEMMA NatMin ==
  ASSUME NEW T \in SUBSET Nat, T # {}
  PROVE  \E x \in T : \A y \in T : x <= y
<1>. DEFINE R == {ss \in Nat \X Nat : ss[1] < ss[2]}
<1>1. IsWellFoundedOn(R, Nat)
  BY NatLessThanWellFounded, Zenon DEF OpToRel
<1>2. \A x, y \in Nat : <<y, x>> \in R <=> y < x
  OBVIOUS
<1>. HIDE DEF R
<1>3. \E x \in T : \A y \in T : ~(<<y, x>> \in R)
  BY <1>1, WFMin, Zenon
<1>4. PICK x \in T : \A y \in T : ~(<<y, x>> \in R)
  BY <1>3
<1>5. \A y \in T : ~(y < x)
  BY <1>2, <1>4, Zenon
<1>. QED  BY <1>5

\* Query ids come round again (queryId++ overflows, udp.go:106): positions in
\* later rounds of n ids are at least n further.
LEMMA Rounds ==
  ASSUME NEW n \in Nat \ {0}, NEW a \in Nat, NEW b \in Nat, a < b
  PROVE  \E d \in Nat : n * b = n * a + n + d
<1>1. PICK e \in Nat : b = a + 1 + e
  <2>1. b - a - 1 \in Nat
    OBVIOUS
  <2>. QED  BY <2>1
<1>2. n * b = n * a + n + n * e /\ n * e \in Nat
  BY <1>1
<1>. QED  BY <1>2

\* The position of a query is in a round of n ids, at an id (udp.go:106).
LEMMA DivMod ==
  ASSUME NEW n \in Nat \ {0}, NEW x \in Nat
  PROVE  /\ x \div n \in Nat /\ x % n \in 0..n-1 /\ x % n \in Nat /\ x % n < n
         /\ n * (x \div n) \in Nat /\ x = n * (x \div n) + (x % n)
OBVIOUS

\* Two positions with the same id are at least a round of n ids apart.
LEMMA ModApart ==
  ASSUME NEW n \in Nat \ {0}, NEW x \in Nat, NEW y \in Nat, x < y, x % n = y % n
  PROVE  x + n <= y
<1>. DEFINE q == x \div n
            s == y \div n
            r == x % n
<1>1. /\ q \in Nat /\ s \in Nat /\ r \in Nat /\ n * q \in Nat /\ n * s \in Nat
      /\ x = n * q + r /\ y = n * s + r
  BY DivMod, Zenon
<1>. HIDE DEF q, s, r
<1>2. CASE q < s
  <2>1. PICK d \in Nat : n * s = n * q + n + d
    BY <1>1, <1>2, Rounds
  <2>. QED  BY <1>1, <2>1
<1>3. CASE s < q
  <2>1. PICK d \in Nat : n * q = n * s + n + d
    BY <1>1, <1>3, Rounds
  <2>. QED  BY <1>1, <2>1
<1>4. CASE q = s
  BY <1>1, <1>4
<1>. QED  BY <1>1, <1>2, <1>3, <1>4

\* The id of a position is the only one that completes its rounds.
LEMMA ModUnique ==
  ASSUME NEW n \in Nat \ {0}, NEW a \in Nat, NEW b \in Nat, NEW r \in 0..n-1, NEW t \in 0..n-1,
         n * a + r = n * b + t
  PROVE  r = t
<1>1. CASE a < b
  BY <1>1, Rounds
<1>2. CASE b < a
  BY <1>2, Rounds
<1>3. CASE a = b
  BY <1>3
<1>. QED  BY <1>1, <1>2, <1>3

\* The k-th id after that of a position is the id of the k-th position after it:
\* incrementing queryId (udp.go:106) is incrementing the position.
LEMMA ModShift ==
  ASSUME NEW n \in Nat \ {0}, NEW x \in Nat, NEW k \in Nat
  PROVE  ((x % n) + k) % n = (x + k) % n
<1>. DEFINE q == x \div n
            r == x % n
            z == r + k
            w == x + k
<1>1. q \in Nat /\ r \in Nat /\ n * q \in Nat /\ x = n * q + r
  BY DivMod, Zenon
<1>2. z \in Nat /\ w \in Nat /\ w = n * q + z
  BY <1>1
<1>. HIDE DEF z, w
<1>3. /\ z \div n \in Nat /\ z % n \in 0..n-1 /\ z = n * (z \div n) + (z % n)
      /\ w \div n \in Nat /\ w % n \in 0..n-1 /\ w = n * (w \div n) + (w % n)
  BY <1>2, DivMod, Zenon
<1>. DEFINE zq == z \div n
            zr == z % n
            wq == w \div n
            wr == w % n
<1>. HIDE DEF q, zq, zr, wq, wr
<1>4. n * (q + zq) + zr = n * wq + wr /\ q + zq \in Nat
  <2>1. /\ zq \in Nat /\ zr \in Nat /\ z = n * zq + zr
        /\ wq \in Nat /\ wr \in Nat /\ w = n * wq + wr
    BY <1>3 DEF zq, zr, wq, wr
  <2>2. n * (q + zq) = n * q + n * zq /\ n * zq \in Nat /\ n * wq \in Nat
    BY <1>1, <2>1
  <2>. QED  BY <1>1, <1>2, <2>1, <2>2
<1>5. zr = wr
  BY <1>3, <1>4, ModUnique, Zenon DEF zq, zr, wq, wr
<1>. QED  BY <1>5, Zenon DEF zr, wr, z, w

\* The positions from a to b whose id has a callback.
Busy(cb, n, a, b) == {x \in a..b : cb[x % n] # 0}

\* pos[a] is the position of query a of s, and the positions increase.  Within a
\* round after a query, the ids that were passed over since, and those that could
\* still be, are fewer than the c callers.  So if query b comes a round of ids or
\* more after a, nearly as many queries are between them.
Passed(pos, cb, n, s, c) ==
  /\ pos \in [Nat -> Nat]
  /\ \A i, j \in 0..s : i < j => pos[i] < pos[j]
  /\ \A a \in 1..s : pos[s] < pos[a] + n =>
       pos[s] + a + Cardinality(Busy(cb, n, pos[s] + 1, pos[a] + n - 1)) < pos[a] + s + c
  /\ \A a, b \in 1..s : pos[a] + n <= pos[b] => n + a < b + c

\* There are finitely many callbacks to pass over in an interval of ids.
LEMMA BusySize ==
  ASSUME NEW cb, NEW n \in Nat, NEW a \in Nat, NEW b \in Int
  PROVE  IsFiniteSet(Busy(cb, n, a, b)) /\ Cardinality(Busy(cb, n, a, b)) \in Nat
<1>1. IsFiniteSet(a..b)
  BY FS_Interval
<1>2. Busy(cb, n, a, b) \in SUBSET (a..b)
  BY Zenon DEF Busy
<1>3. IsFiniteSet(Busy(cb, n, a, b))
  BY <1>1, <1>2, FS_Subset, Zenon
<1>. QED  BY <1>3, FS_CardinalityType, Zenon

\* Deleting callbacks (udp.go:194) makes no id busy.
LEMMA FewerBusy ==
  ASSUME NEW n \in Nat \ {0}, NEW cb, NEW cd, \A i \in 0..n-1 : cd[i] # 0 => cb[i] # 0,
         NEW a \in Nat, NEW b \in Int
  PROVE  Cardinality(Busy(cd, n, a, b)) <= Cardinality(Busy(cb, n, a, b))
<1>1. \A x \in a..b : x % n \in 0..n-1
  <2>1. \A x \in a..b : x \in Nat
    OBVIOUS
  <2>. QED  BY <2>1, DivMod, Zenon
<1>2. Busy(cd, n, a, b) \in SUBSET Busy(cb, n, a, b)
  BY <1>1, Zenon DEF Busy
<1>. QED  BY <1>2, BusySize, FS_Subset, Zenon

\* The busy positions: the k - 1 that nextAvailableQueryId passes over, and those
\* behind the free one it takes.
LEMMA BusySplit ==
  ASSUME NEW cb, NEW n \in Nat, NEW p \in Nat, NEW k \in Nat \ {0}, NEW b \in Int,
         p + k <= b + 1,
         \A x \in p+1..p+k-1 : cb[x % n] # 0
  PROVE  Cardinality(Busy(cb, n, p + 1, b)) >= k - 1 + Cardinality(Busy(cb, n, p + k + 1, b))
<1>. DEFINE S == p+1..p+k-1
            T == Busy(cb, n, p + k + 1, b)
            U == Busy(cb, n, p + 1, b)
<1>1. IsFiniteSet(S) /\ Cardinality(S) = k - 1
  BY FS_Interval
<1>2. IsFiniteSet(T) /\ Cardinality(T) \in Nat
  BY BusySize
<1>3. IsFiniteSet(U) /\ Cardinality(U) \in Nat
  BY BusySize
<1>4. S \subseteq p+1..b /\ p+k+1..b \subseteq p+1..b /\ S \cap (p+k+1..b) = {}
  OBVIOUS
<1>5. S \cup T \in SUBSET U /\ S \cap T = {}
  BY <1>4, Zenon DEF Busy
<1>. HIDE DEF S, T, U
<1>6. Cardinality(S \cap T) = 0
  BY <1>5, FS_EmptySet, Zenon
<1>7. /\ IsFiniteSet(S \cup T)
      /\ Cardinality(S \cup T) = Cardinality(S) + Cardinality(T) - Cardinality(S \cap T)
  BY <1>1, <1>2, FS_Union, Zenon
<1>8. Cardinality(S \cup T) <= Cardinality(U)
  BY <1>3, <1>5, FS_Subset, Zenon
<1>9. Cardinality(U) >= k - 1 + Cardinality(T)
  BY <1>1, <1>2, <1>3, <1>6, <1>7, <1>8
<1>. QED  BY <1>9, Zenon DEF T, U

\* An interval in which every id has a callback has as many busy positions as
\* positions.
LEMMA AllBusy ==
  ASSUME NEW cb, NEW n \in Nat, NEW p \in Nat, NEW b \in Int, p <= b, \A x \in p+1..b : cb[x % n] # 0
  PROVE  Cardinality(Busy(cb, n, p + 1, b)) = b - p
<1>1. Busy(cb, n, p + 1, b) = p+1..b
  BY Zenon DEF Busy
<1>2. Cardinality(p+1..b) = IF p + 1 > b THEN 0 ELSE b - (p + 1) + 1
  <2>1. p + 1 \in Int
    OBVIOUS
  <2>. QED  BY <2>1, FS_Interval, Zenon
<1>3. (IF p + 1 > b THEN 0 ELSE b - (p + 1) + 1) = b - p
  OBVIOUS
<1>. QED  BY <1>1, <1>2, <1>3, Zenon

\* An Exchange has one callback (udp.go:189): apart from the id just taken, fewer
\* ids are busy than there are callers.
LEMMA OthersBusy ==
  ASSUME NEW C, IsFiniteSet(C), NEW p \in C, NEW n \in Nat \ {0}, NEW q \in Nat,
         NEW cb \in [0..n-1 -> C \cup {0}],
         \A i, j \in 0..n-1 : cb[i] = cb[j] /\ cb[i] # 0 => i = j,
         \A i \in 0..n-1 : cb[i] = p => i = q % n
  PROVE  Cardinality(Busy(cb, n, q + 1, q + n - 1)) < Cardinality(C)
<1>. DEFINE S == Busy(cb, n, q + 1, q + n - 1)
            T == C \ {p}
            f == [x \in S |-> cb[x % n]]
<1>1. \A x \in q+1..q+n-1 : x \in Nat /\ q < x /\ ~(q + n <= x)
  OBVIOUS
<1>2. \A x, y \in q+1..q+n-1 : x # y => (x < y /\ ~(x + n <= y)) \/ (y < x /\ ~(y + n <= x))
  OBVIOUS
<1>3. \A x \in q+1..q+n-1 : x % n \in 0..n-1 /\ q % n # x % n
  BY <1>1, ModApart, DivMod, Zenon
<1>4. \A x, y \in q+1..q+n-1 : x # y => x % n # y % n
  BY <1>1, <1>2, ModApart, Zenon
<1>5. \A x \in S : x \in q+1..q+n-1 /\ cb[x % n] # 0
  BY Zenon DEF Busy
<1>. HIDE DEF S
<1>6. f \in Injection(S, T)
  <2>1. \A x \in S : f[x] = cb[x % n] /\ x % n \in 0..n-1 /\ cb[x % n] # 0
    BY <1>3, <1>5, Zenon
  <2>2. \A x \in S : f[x] \in T
    BY <1>3, <1>5, <2>1, Zenon
  <2>3. \A x, y \in S : f[x] = f[y] => x = y
    BY <1>4, <1>5, <2>1, Zenon
  <2>4. f \in [S -> T]
    BY <2>2, Zenon
  <2>. QED  BY <2>3, <2>4, Zenon DEF Injection, IsInjective
<1>7. IsFiniteSet(T) /\ Cardinality(T) = Cardinality(C) - 1 /\ Cardinality(C) \in Nat
  BY FS_RemoveElement, FS_CardinalityType, Zenon
<1>8. Cardinality(S) <= Cardinality(T) /\ IsFiniteSet(S)
  BY <1>6, <1>7, FS_Injection, Zenon
<1>9. Cardinality(S) \in Nat
  BY <1>8, FS_CardinalityType, Zenon
<1>10. Cardinality(S) < Cardinality(C)
  BY <1>7, <1>8, <1>9
<1>. QED  BY <1>10, Zenon DEF S

\* Deleting callbacks (udp.go:194) keeps the count of the ids passed over.
LEMMA FreesPassed ==
  ASSUME NEW n \in Nat \ {0}, NEW c \in Nat, NEW s \in Nat, NEW cb, NEW cd,
         \A i \in 0..n-1 : cd[i] # 0 => cb[i] # 0,
         NEW pos, Passed(pos, cb, n, s, c)
  PROVE  Passed(pos, cd, n, s, c)
<1>1. pos \in [Nat -> Nat]
  BY Zenon DEF Passed
<1>2. \A x, y, z \in Nat : \A d, e \in Nat : d <= e /\ x + y + e < z => x + y + d < z
  OBVIOUS
<1>3. ASSUME NEW a \in 1..s, pos[s] < pos[a] + n
      PROVE  pos[s] + a + Cardinality(Busy(cd, n, pos[s] + 1, pos[a] + n - 1)) < pos[a] + s + c
  <2>. DEFINE d == Cardinality(Busy(cd, n, pos[s] + 1, pos[a] + n - 1))
              e == Cardinality(Busy(cb, n, pos[s] + 1, pos[a] + n - 1))
  <2>1. a \in Nat /\ pos[s] \in Nat /\ pos[a] \in Nat
    BY <1>1
  <2>2. pos[s] + 1 \in Nat /\ pos[a] + n - 1 \in Int /\ pos[a] + s + c \in Nat
    BY <2>1
  <2>3. d <= e
    BY <2>2, FewerBusy, Zenon
  <2>4. n \in Nat
    OBVIOUS
  <2>5. d \in Nat /\ e \in Nat
    BY <2>2, <2>4, BusySize, Zenon
  <2>6. pos[s] + a + e < pos[a] + s + c
    BY <1>3, Zenon DEF Passed
  <2>. HIDE DEF d, e
  <2>7. pos[s] + a + d < pos[a] + s + c
    BY <1>2, <2>1, <2>2, <2>3, <2>5, <2>6, Zenon
  <2>. QED  BY <2>7, Zenon DEF d
<1>. QED  BY <1>3, Zenon DEF Passed

\* So does taking the next free id (nextAvailableQueryId, udp.go:103), whether
\* the callback is entered for it or the query fails.
LEMMA AdvancesPassed ==
  ASSUME NEW n \in Nat \ {0}, NEW c \in Nat, NEW s \in Nat, NEW cb, NEW cd,
         NEW pos, Passed(pos, cb, n, s, c),
         NEW k \in 1..n,
         \A x \in pos[s]+1..pos[s]+k-1 : cb[x % n] # 0,
         \A i \in 0..n-1 : i # (pos[s] + k) % n => cd[i] = cb[i],
         Cardinality(Busy(cd, n, pos[s] + k + 1, pos[s] + k + n - 1)) < c
  PROVE  Passed([pos EXCEPT ![s + 1] = pos[s] + k], cd, n, s + 1, c)
<1>. DEFINE P == pos[s]
            new == [pos EXCEPT ![s + 1] = P + k]
<1>1. pos \in [Nat -> Nat] /\ P \in Nat /\ \A a \in 0..s : pos[a] \in Nat
  BY DEF Passed
<1>2. P + k \in Nat /\ s + 1 \in Nat /\ k \in Nat \ {0}
  BY <1>1
<1>3. new \in [Nat -> Nat] /\ new[s + 1] = P + k /\ \A a \in 0..s : new[a] = pos[a]
  BY <1>1, <1>2
<1>. HIDE DEF new
<1>4. \A a \in 0..s : pos[a] <= P /\ pos[a] \in Nat
  <2>. TAKE a \in 0..s
  <2>1. s \in 0..s /\ (a < s \/ a = s) /\ pos[a] \in Nat
    BY <1>1
  <2>2. a < s => pos[a] < pos[s]
    BY <2>1, Zenon DEF Passed
  <2>. QED  BY <1>1, <2>1, <2>2
<1>5. \A i, j \in 0..s+1 : i < j => new[i] < new[j]
  <2>1. \A i \in 0..s : pos[i] < P + k
    BY <1>1, <1>2, <1>4
  <2>2. ASSUME NEW i \in 0..s+1, NEW j \in 0..s+1, i < j PROVE new[i] < new[j]
    <3>1. i \in 0..s /\ (j \in 0..s \/ j = s + 1)
      BY <2>2
    <3>. QED  BY <1>3, <2>1, <2>2, <3>1, Zenon DEF Passed
  <2>. QED  BY <2>2
<1>. DEFINE D(a) == Cardinality(Busy(cd, n, P + k + 1, pos[a] + n - 1))
            E(a) == Cardinality(Busy(cb, n, P + 1, pos[a] + n - 1))
<1>6. \A a \in 1..s : P < pos[a] + n => P + a + E(a) < pos[a] + s + c
  BY Zenon DEF Passed
<1>7. ASSUME NEW a \in 1..s
      PROVE  pos[a] + n - 1 \in Int /\ P + 1 \in Nat /\ P + k + 1 \in Nat /\ a \in Nat
  BY <1>1, <1>2, <1>4
<1>8. \A a \in 1..s : E(a) \in Nat /\ D(a) \in Nat
  <2>1. n \in Nat
    OBVIOUS
  <2>. QED  BY <1>7, <2>1, BusySize, Zenon
<1>9. ASSUME NEW a \in 1..s, P + k < pos[a] + n
      PROVE  P + k + a + D(a) < pos[a] + (s + 1) + c
  <2>. DEFINE b == pos[a] + n - 1
              F == Cardinality(Busy(cb, n, P + k + 1, b))
  <2>1. b \in Int /\ P + k <= b + 1 /\ P < pos[a] + n /\ n \in Nat
    BY <1>1, <1>2, <1>4, <1>9
  <2>2. E(a) >= k - 1 + F
    <3>. HIDE DEF b, P
    <3>1. \A x \in P+1..P+k-1 : cb[x % n] # 0
      BY Zenon DEF P
    <3>2. Cardinality(Busy(cb, n, P + 1, b)) >= k - 1 + Cardinality(Busy(cb, n, P + k + 1, b))
      BY <1>1, <1>2, <2>1, <3>1, BusySplit, Zenon
    <3>. QED  BY <3>2, Zenon DEF b
  <2>3. Busy(cd, n, P + k + 1, b) = Busy(cb, n, P + k + 1, b)
    <3>1. \A x \in P+k+1..b : x \in Nat /\ P + k < x /\ ~(P + k + n <= x)
      BY <1>2, <1>4
    <3>2. \A x \in P+k+1..b : x % n \in 0..n-1 /\ x % n # (P + k) % n
      BY <1>2, <3>1, ModApart, DivMod, Zenon
    <3>. QED  BY <3>2, Zenon DEF Busy
  <2>4. D(a) = F
    BY <2>3, Zenon
  <2>5. F \in Nat
    BY <1>8, <2>4, Zenon
  <2>6. P + a + E(a) < pos[a] + s + c
    BY <1>6, <2>1, Zenon
  <2>7. E(a) \in Nat /\ a \in Nat /\ pos[a] \in Nat
    <3>1. a \in 0..s
      OBVIOUS
    <3>. QED  BY <1>1, <1>7, <1>8, <3>1, Zenon
  <2>. HIDE DEF P, D, E, F
  <2>8. P + k + a + F < pos[a] + (s + 1) + c
    BY <1>1, <1>2, <2>2, <2>5, <2>6, <2>7
  <2>. QED  BY <2>4, <2>8, Zenon
<1>10. ASSUME NEW a \in 1..s, pos[a] + n <= P + k
       PROVE  n + a < (s + 1) + c
  <2>1. CASE P < pos[a] + n
    <3>. DEFINE b == pos[a] + n - 1
    <3>1. b \in Int /\ P <= b /\ n \in Nat
      BY <1>1, <1>4, <2>1
    <3>2. \A x \in P+1..b : x \in P+1..P+k-1
      BY <1>1, <1>2, <1>4, <1>10
    <3>3. \A x \in P+1..b : cb[x % n] # 0
      BY <3>2, Zenon
    <3>. HIDE DEF b
    <3>4. Cardinality(Busy(cb, n, P + 1, b)) = b - P
      BY <1>1, <3>1, <3>3, AllBusy, Zenon
    <3>5. E(a) = b - P
      BY <3>4, Zenon DEF b
    <3>6. P + a + E(a) < pos[a] + s + c
      BY <1>6, <2>1, Zenon
    <3>. HIDE DEF E, P
    <3>. QED  BY <1>1, <1>4, <3>5, <3>6 DEF b
  <2>2. CASE ~(P < pos[a] + n)
    <3>1. pos[a] + n <= pos[s] /\ s \in 1..s
      BY <1>1, <1>4, <2>2
    <3>2. n + a < s + c
      BY <3>1, Zenon DEF Passed
    <3>. QED  BY <3>2
  <2>. QED  BY <2>1, <2>2
<1>11. ASSUME NEW a \in 1..s+1, new[s + 1] < new[a] + n
       PROVE  new[s + 1] + a + Cardinality(Busy(cd, n, new[s + 1] + 1, new[a] + n - 1))
                < new[a] + (s + 1) + c
  <2>1. CASE a = s + 1
    <3>. DEFINE d == Cardinality(Busy(cd, n, P + k + 1, P + k + n - 1))
    <3>1. d < c /\ P + k + n - 1 \in Int /\ P + k + 1 \in Nat /\ n \in Nat
      BY <1>1, <1>2
    <3>2. d \in Nat
      BY <3>1, BusySize, Zenon
    <3>. HIDE DEF d
    <3>3. P + k + (s + 1) + d < P + k + (s + 1) + c
      BY <1>1, <1>2, <3>1, <3>2
    <3>. QED  BY <1>3, <2>1, <3>3, Zenon DEF d
  <2>2. CASE a # s + 1
    <3>1. a \in 1..s /\ a \in 0..s
      BY <2>2
    <3>. QED  BY <1>3, <1>9, <1>11, <3>1, Zenon
  <2>. QED  BY <2>1, <2>2
<1>12. ASSUME NEW a \in 1..s+1, NEW b \in 1..s+1, new[a] + n <= new[b]
       PROVE  n + a < b + c
  <2>1. CASE a \in 1..s /\ b \in 1..s
    <3>1. a \in 0..s /\ b \in 0..s
      BY <2>1
    <3>. QED  BY <1>3, <1>12, <2>1, <3>1, Zenon DEF Passed
  <2>2. CASE a \in 1..s /\ b = s + 1
    <3>1. a \in 0..s
      BY <2>2
    <3>. QED  BY <1>3, <1>10, <1>12, <2>2, <3>1, Zenon
  <2>3. CASE a = s + 1
    <3>1. b \in 0..s+1 /\ a \in 0..s+1 /\ (b < a \/ b = a)
      BY <2>3
    <3>2. new[b] <= new[a] /\ new[a] \in Nat /\ new[b] \in Nat
      <4>1. new[a] \in Nat /\ new[b] \in Nat
        BY <1>3, <3>1
      <4>2. b < a => new[b] < new[a]
        BY <1>5, <3>1, Zenon
      <4>. QED  BY <3>1, <4>1, <4>2
    <3>. QED  BY <1>12, <3>2
  <2>. QED  BY <2>1, <2>2, <2>3
<1>. QED  BY <1>3, <1>5, <1>11, <1>12, Zenon DEF Passed, new

-----------------------------------------------------------------------------
(* The answers *)

\* The variables have their types, and the pool its mode.
ExchangeTypes ==
  /\ transport \in Transports
  /\ mode = IF kind = "tls" THEN "ordered" ELSE "single"
  /\ step \in [Callers -> {"ready", "acquire", "reset", "resetting", "await", "read", "again"}]
  /\ query \in [Callers -> Nat] /\ answer \in [Callers -> Nat] /\ sent \in Nat
  /\ wire \in [Conns -> SUBSET [id : Ids, n : Nat]]
  /\ callbacks \in [Ids -> Callers \cup {0}] /\ queryId \in Ids

\* p waits for its answer: at the select of UDP, or in the read of TLS.
Waits(p) == step[p] \in {"await", "read"}

\* Who has an answer or a callback is at its select or read, with a connection.
AtWork ==
  /\ \A p \in Callers : Waits(p) => /\ call[p].pc = "got"
                                    /\ kind = IF step[p] = "await" THEN "udp" ELSE "tls"
  /\ \A p \in Callers : answer[p] # 0 => Waits(p)
  /\ \A i \in Ids : callbacks[i] # 0 => step[callbacks[i]] = "await"

\* What is on a TLS connection is the answer to the one query of its one user;
\* a connection that was given up with an answer to come is not used again.
OwnConn ==
  kind = "tls" =>
    \A c \in Conns : wire[c] # {} =>
      /\ dial[c].pc = "done"
      /\ \A i \in DOMAIN idle : idle[i] # c
      /\ \A p \in Callers : call[p].pc = "got" /\ call[p].conn = c =>
           step[p] = "read" /\ answer[p] = 0 /\ wire[c] = {[id |-> 0, n |-> query[p]]}

\* The n-th UDP query has the id of the position pos[n].
Numbered(pos) ==
  /\ Passed(pos, callbacks, transport.ids, sent, Cardinality(Callers))
  /\ pos[sent] % transport.ids = queryId
  /\ \A c \in Conns : \A m \in wire[c] : m.n \in 1..sent /\ m.id = pos[m.n] % transport.ids
  /\ \A i \in Ids : callbacks[i] # 0 =>
       /\ query[callbacks[i]] \in 1..sent
       /\ pos[query[callbacks[i]]] % transport.ids = i
       /\ \A j \in 1..sent : j > query[callbacks[i]] => pos[j] % transport.ids # i

\* There are positions in which the UDP queries have their ids.
OwnIds == kind = "udp" => \E pos \in [Nat -> Nat] : Numbered(pos)

\* The inductive invariant of AnswerIsOwn.
AnswerInv == ExchangeTypes /\ AtWork /\ OwnConn /\ OwnIds /\ AnswerIsOwn

-----------------------------------------------------------------------------
(* Steps of the pool *)

\* Acquire, the dials and closeState take no connection away from the Exchange
\* that has it.
LEMMA GotKept ==
  ASSUME PoolInv, PoolStep
  PROVE  call' \in [Callers -> CallerRec] /\ \A q \in Callers : call[q].pc = "got" => call'[q] = call[q]
<1>1. call \in [Callers -> CallerRec] /\ PoolInv'
  <2>1. PoolInv'
    BY PoolKeeps, Zenon DEF PoolStep, PoolNext
  <2>. QED  BY <2>1, Zenon DEF PoolInv, PoolTypeOK
<1>2. call' \in [Callers -> CallerRec]
  BY <1>1, Zenon DEF PoolInv, PoolTypeOK
<1>3. ASSUME NEW p \in Callers, AcquireStep(p)
      PROVE  \A q \in Callers : call[q].pc = "got" => call'[q] = call[q]
  BY <1>1, <1>3 DEF AcquireStep, AcquireClosed, TakeShared, DropDeadShared, JoinDial, StartShared,
    WaitExpires, WaitCancelled, CollectError, CollectReplaced, CollectNothing, CollectDead, CollectShared,
    TakeIdle, WantSlot, TakeSlot, SlotFails, StartDial, Back, Again, Hand, callVars,
    AtShared, AtOrdered, AtCollected, AtCollect, AtWait
<1>4. ASSUME NEW d \in Conns, DialStep(d)
      PROVE  \A q \in Callers : call[q].pc = "got" => call'[q] = call[q]
  <2>1. mode = "ordered" /\ Live(d) => dial[d].by \in Callers /\ call[dial[d].by].pc = "dial"
    BY DEF PoolInv, OrderedDials
  <2>2. CASE UNCHANGED call
    BY <2>2
  <2>3. CASE ~UNCHANGED call
    <3>1. mode = "ordered" /\ Live(d) /\ \E c \in {Caller("idle", 0, 0), Caller("got", 0, d)} :
            call' = [call EXCEPT ![dial[d].by] = c]
      BY <1>4, <2>3 DEF DialStep, DialReturns, InstallError, InstallStale, InstallShared,
         OrderedStale,
         InstallOrdered, GiveUp, Back, Hand, callVars, Live, AtInstall
    <3>. QED  BY <1>1, <2>1, <3>1, ZenonT(40)
  <2>. QED  BY <2>2, <2>3
<1>5. ASSUME NEW s \in States, CloseStep(s)
      PROVE  \A q \in Callers : call[q].pc = "got" => call'[q] = call[q]
  BY <1>5, Zenon DEF CloseStep, CancelState, CloseStateConns, callVars
<1>. QED  BY <1>2, <1>3, <1>4, <1>5, Zenon DEF PoolStep

\* A connection that Acquire hands to a TLS Exchange was idle or is new
\* (conn_pool.go): never one that is given up with an answer to come.
LEMMA HandedOut ==
  ASSUME PoolInv, PoolStep, mode = "ordered", NEW c \in Conns, dial[c].pc = "done",
         \A i \in DOMAIN idle : idle[i] # c
  PROVE  /\ dial'[c].pc = "done"
         /\ \A i \in DOMAIN idle' : idle'[i] # c
         /\ \A q \in Callers : call'[q].pc = "got" /\ call'[q].conn = c => call'[q] = call[q]
<1>1. call \in [Callers -> CallerRec] /\ dial \in [Conns -> DialRec] /\ idle \in Seq(Conns)
  BY Zenon DEF PoolInv, PoolTypeOK
<1>2. ASSUME NEW p \in Callers, AcquireStep(p)
      PROVE  /\ dial'[c].pc = "done"
             /\ \A i \in DOMAIN idle' : idle'[i] # c
             /\ \A q \in Callers : call'[q].pc = "got" /\ call'[q].conn = c => call'[q] = call[q]
  <2>1. shared \notin Conns
    <3>1. Sharing
      BY Zenon DEF PoolInv
    <3>. QED  BY <3>1 DEF Sharing, Conns
  <2>2. CASE TakeIdle(p)
    <3>1. /\ Head(idle) = idle[1] /\ 1 \in DOMAIN idle
          /\ \A i \in DOMAIN Tail(idle) : i + 1 \in DOMAIN idle /\ Tail(idle)[i] = idle[i + 1]
      BY <1>1, <2>2 DEF TakeIdle
    <3>2. dial' = dial /\ idle' = Tail(idle) /\ call' = [call EXCEPT ![p] = Caller("got", 0, Head(idle))]
      BY <2>2 DEF TakeIdle, Hand, dialVars
    <3>3. \A q \in Callers : call'[q].pc = "got" /\ call'[q].conn = c => call'[q] = call[q]
      BY <1>1, <3>1, <3>2 DEF Caller
    <3>. QED  BY <3>1, <3>2, <3>3
  <2>3. CASE TakeSlot(p)
    <3>1. dials + 1 # c
      <4>1. Dialled /\ dials \in 0 .. MaxDials
        BY Zenon DEF PoolInv, PoolTypeOK
      <4>. QED  BY <4>1 DEF Dialled, Conns
    <3>. QED  BY <1>1, <2>3, <3>1 DEF TakeSlot, StartDial, Caller, fieldVars
  <2>4. CASE CollectDead(p) \/ CollectShared(p)
    <3>1. dead \subseteq Conns
      BY DEF PoolInv, PoolTypeOK
    <3>. QED  BY <2>1, <2>4, <3>1 DEF CollectDead, CollectShared
  <2>5. CASE ~(TakeIdle(p) \/ TakeSlot(p) \/ CollectDead(p) \/ CollectShared(p))
    <3>1. /\ idle' = idle /\ dial' = dial
          /\ \E r \in {"idle", "acquire", "slot"} : \E s : call' = [call EXCEPT ![p] = Caller(r, s, 0)]
      BY <1>2, <2>5, Zenon DEF AcquireStep, AcquireClosed, TakeShared, DropDeadShared, JoinDial,
         StartShared,
         WaitExpires, WaitCancelled, CollectError, CollectReplaced, CollectNothing, WantSlot, SlotFails,
         Back, Again, AtShared, fieldVars, dialVars
    <3>. QED  BY <1>1, <3>1 DEF Caller
  <2>. QED  BY <2>2, <2>3, <2>4, <2>5
<1>3. ASSUME NEW d \in Conns, DialStep(d)
      PROVE  /\ dial'[c].pc = "done"
             /\ \A i \in DOMAIN idle' : idle'[i] # c
             /\ \A q \in Callers : call'[q].pc = "got" /\ call'[q].conn = c => call'[q] = call[q]
  <2>1. Live(d) /\ idle' = idle
    BY <1>3 DEF DialStep, DialReturns, InstallError, InstallStale, InstallShared, OrderedStale,
       InstallOrdered, AtInstall, Live, fieldVars
  <2>2. d # c
    BY <2>1, Zenon DEF Live
  <2>3. \E r : dial' = [dial EXCEPT ![d] = r]
    BY <1>3, ZenonT(40) DEF DialStep, DialReturns, InstallError, InstallStale, InstallShared, OrderedStale,
       InstallOrdered, DialOver, GiveUp
  <2>4. \/ call' = call
        \/ \E k \in {Caller("idle", 0, 0), Caller("got", 0, d)} : call' = [call EXCEPT ![dial[d].by] = k]
    BY <1>3 DEF DialStep, DialReturns, InstallError, InstallStale, InstallShared, OrderedStale,
       InstallOrdered, GiveUp, Back, Hand, callVars
  <2>5. \A q \in Callers : call'[q].pc = "got" /\ call'[q].conn = c => call'[q] = call[q]
    BY <1>1, <2>2, <2>4 DEF Caller
  <2>. QED  BY <1>1, <2>1, <2>2, <2>3, <2>5, ZenonT(40)
<1>4. ASSUME NEW s \in States, CloseStep(s)
      PROVE  /\ dial'[c].pc = "done"
             /\ \A i \in DOMAIN idle' : idle'[i] # c
             /\ \A q \in Callers : call'[q].pc = "got" /\ call'[q].conn = c => call'[q] = call[q]
  BY <1>4, Zenon DEF CloseStep, CancelState, CloseStateConns, callVars, fieldVars, dialVars
<1>. QED  BY <1>2, <1>3, <1>4, Zenon DEF PoolStep

-----------------------------------------------------------------------------
(* Steps that send and receive nothing *)

\* The Exchanges that wait go on as they are or return, and callbacks go only.
Settles ==
  /\ UNCHANGED <<transport, mode, sent, wire, queryId>>
  /\ step' \in [Callers -> {"ready", "acquire", "reset", "resetting", "await", "read", "again"}]
  /\ query' \in [Callers -> Nat] /\ answer' \in [Callers -> Nat]
  /\ callbacks' \in [Ids -> Callers \cup {0}]
  /\ \A q \in Callers :
       \/ Waits(q) /\ step'[q] = step[q] /\ call'[q] = call[q]
                   /\ query'[q] = query[q] /\ answer'[q] = answer[q]
       \/ step'[q] \notin {"await", "read"} /\ answer'[q] = 0
  /\ \A i \in Ids : callbacks'[i] # 0 => callbacks'[i] = callbacks[i] /\ step'[callbacks[i]] = "await"
  /\ kind = "tls" =>
       \A c \in Conns : wire[c] # {} =>
         /\ dial'[c].pc = "done"
         /\ \A i \in DOMAIN idle' : idle'[i] # c
         /\ \A q \in Callers : call'[q].pc = "got" /\ call'[q].conn = c =>
              call'[q] = call[q] /\ step'[q] = step[q]

\* There is an id, and 0 is one.
LEMMA IdsAre ==
  ASSUME ExchangeTypes
  PROVE  /\ transport.ids \in Nat \ {0} /\ Ids = 0 .. transport.ids - 1
         /\ Cardinality(Callers) \in Nat
<1>1. Cardinality(Callers) \in Nat
  BY TransportAssumption, FS_CardinalityType, Zenon
<1>. QED  BY <1>1, TransportAssumption DEF ExchangeTypes, Ids

\* Where the Exchanges only go on or return, the invariant stays.
LEMMA Settled ==
  ASSUME AnswerInv, Settles
  PROVE  AnswerInv'
<1>1. \A q \in Callers :
        \/ Waits(q) /\ step'[q] = step[q] /\ call'[q] = call[q]
                    /\ query'[q] = query[q] /\ answer'[q] = answer[q]
        \/ step'[q] \notin {"await", "read"} /\ answer'[q] = 0
  BY Zenon DEF Settles
<1>2. transport' = transport /\ kind' = kind /\ Ids' = Ids /\ sent' = sent /\ wire' = wire
      /\ queryId' = queryId /\ mode' = mode
  BY Zenon DEF Settles, kind, Ids
<1>3. ExchangeTypes'
  <2>1. /\ transport \in Transports /\ mode = IF kind = "tls" THEN "ordered" ELSE "single"
        /\ sent \in Nat /\ wire \in [Conns -> SUBSET [id : Ids, n : Nat]] /\ queryId \in Ids
    BY Zenon DEF AnswerInv, ExchangeTypes
  <2>2. /\ step' \in [Callers -> {"ready", "acquire", "reset", "resetting", "await", "read", "again"}]
        /\ query' \in [Callers -> Nat] /\ answer' \in [Callers -> Nat]
        /\ callbacks' \in [Ids -> Callers \cup {0}]
    BY Zenon DEF Settles
  <2>. QED  BY <1>2, <2>1, <2>2, Zenon DEF ExchangeTypes
<1>4. \A q \in Callers : step'[q] \in {"await", "read"} =>
        Waits(q) /\ step'[q] = step[q] /\ call'[q] = call[q]
                 /\ query'[q] = query[q] /\ answer'[q] = answer[q]
  BY <1>1
<1>5. \A q \in Callers : answer'[q] # 0 => step'[q] \in {"await", "read"}
  <2>. TAKE q \in Callers
  <2>1. Waits(q) /\ step'[q] = step[q] => step'[q] \in {"await", "read"}
    BY Zenon DEF Waits
  <2>. QED  BY <2>1, Zenon DEF Settles
<1>6. AtWork'
  <2>1. ASSUME NEW q \in Callers, step'[q] \in {"await", "read"}
        PROVE  call'[q].pc = "got" /\ kind' = IF step'[q] = "await" THEN "udp" ELSE "tls"
    BY <1>2, <1>4, <2>1, ZenonT(40) DEF AnswerInv, AtWork
  <2>2. \A i \in Ids' : callbacks'[i] # 0 => step'[callbacks'[i]] = "await"
    BY <1>2, Zenon DEF Settles
  <2>. QED  BY <1>5, <2>1, <2>2, Zenon DEF AtWork, Waits
<1>7. OwnConn'
  <2>. SUFFICES ASSUME kind = "tls", NEW c \in Conns, wire[c] # {}
                PROVE  /\ dial'[c].pc = "done"
                       /\ \A i \in DOMAIN idle' : idle'[i] # c
                       /\ \A q \in Callers : call'[q].pc = "got" /\ call'[q].conn = c =>
                            step'[q] = "read" /\ answer'[q] = 0 /\ wire[c] = {[id |-> 0, n |-> query'[q]]}
    BY <1>2, ZenonT(40) DEF OwnConn
  <2>1. ASSUME NEW q \in Callers, call'[q].pc = "got", call'[q].conn = c
        PROVE  step'[q] = "read" /\ answer'[q] = 0 /\ wire[c] = {[id |-> 0, n |-> query'[q]]}
    <3>1. call'[q] = call[q] /\ step'[q] = step[q]
      BY <2>1, Zenon DEF Settles
    <3>2. step[q] = "read" /\ answer[q] = 0 /\ wire[c] = {[id |-> 0, n |-> query[q]]}
      BY <2>1, <3>1, ZenonT(40) DEF AnswerInv, OwnConn
    <3>3. query'[q] = query[q] /\ answer'[q] = answer[q]
      BY <1>4, <3>1, <3>2, Zenon
    <3>. QED  BY <3>1, <3>2, <3>3, Zenon
  <2>. QED  BY <2>1, Zenon DEF Settles
<1>8. OwnIds'
  <2>. SUFFICES ASSUME kind = "udp" PROVE \E pos \in [Nat -> Nat] : Numbered(pos)'
    BY <1>2, Zenon DEF OwnIds
  <2>1. PICK pos \in [Nat -> Nat] : Numbered(pos)
    BY Zenon DEF AnswerInv, OwnIds
  <2>2. Passed(pos, callbacks', transport.ids, sent, Cardinality(Callers))
    <3>1. Passed(pos, callbacks, transport.ids, sent, Cardinality(Callers)) /\ sent \in Nat
      BY <2>1, Zenon DEF Numbered, AnswerInv, ExchangeTypes
    <3>2. \A i \in 0 .. transport.ids - 1 : callbacks'[i] # 0 => callbacks[i] # 0
      BY Zenon DEF Settles, Ids
    <3>3. transport.ids \in Nat \ {0} /\ Cardinality(Callers) \in Nat
      BY IdsAre, Zenon DEF AnswerInv
    <3>. QED  BY <3>1, <3>2, <3>3, FreesPassed, Zenon
  <2>3. ASSUME NEW i \in Ids, callbacks'[i] # 0
        PROVE  /\ query'[callbacks'[i]] \in 1..sent
               /\ pos[query'[callbacks'[i]]] % transport.ids = i
               /\ \A j \in 1..sent : j > query'[callbacks'[i]] => pos[j] % transport.ids # i
    <3>1. callbacks'[i] = callbacks[i] /\ step'[callbacks[i]] = "await"
      BY <2>3, Zenon DEF Settles
    <3>. callbacks[i] \in Callers
      BY <2>3, <3>1 DEF AnswerInv, ExchangeTypes
    <3>2. query'[callbacks[i]] = query[callbacks[i]]
      BY <1>4, <3>1, Zenon
    <3>. QED  BY <2>1, <2>3, <3>1, <3>2, Zenon DEF Numbered
  <2>4. Numbered(pos)'
    BY <1>2, <2>1, <2>2, <2>3, Zenon DEF Numbered
  <2>. QED  BY <2>4, Zenon
<1>9. AnswerIsOwn'
  <2>. SUFFICES ASSUME NEW q \in Callers, answer'[q] # 0
                PROVE  \/ answer'[q] = query'[q]
                       \/ kind = "udp" /\ query'[q] - answer'[q] >= transport.ids - Cardinality(Callers) + 1
    BY <1>2, Zenon DEF AnswerIsOwn
  <2>1. query'[q] = query[q] /\ answer'[q] = answer[q]
    BY <1>4, <1>5, Zenon
  <2>. QED  BY <2>1, Zenon DEF AnswerInv, AnswerIsOwn
<1>. QED  BY <1>3, <1>6, <1>7, <1>8, <1>9, Zenon DEF AnswerInv

-----------------------------------------------------------------------------
(* Which steps settle *)

\* Nobody who waits is disturbed, and nobody begins to wait.
Undisturbed ==
  /\ UNCHANGED <<transport, mode, sent, wire, queryId, query, answer, callbacks>>
  /\ step' \in [Callers -> {"ready", "acquire", "reset", "resetting", "await", "read", "again"}]
  /\ \A q \in Callers : IF Waits(q) THEN step'[q] = step[q] /\ call'[q] = call[q]
                                    ELSE step'[q] \notin {"await", "read"}

\* The connections with an answer to come are left alone.
ConnsStay ==
  kind = "tls" =>
    \A c \in Conns : wire[c] # {} =>
      /\ dial'[c].pc = "done"
      /\ \A i \in DOMAIN idle' : idle'[i] # c
      /\ \A q \in Callers : call'[q].pc = "got" /\ call'[q].conn = c =>
           call'[q] = call[q] /\ step'[q] = step[q]

\* A step that disturbs no waiting Exchange keeps the invariant.
LEMMA UndisturbedSettles ==
  ASSUME AnswerInv, Undisturbed, ConnsStay
  PROVE  AnswerInv'
<1>1. \A q \in Callers : ~Waits(q) => answer[q] = 0
  BY Zenon DEF AnswerInv, AtWork
<1>2. \A q \in Callers :
       \/ Waits(q) /\ step'[q] = step[q] /\ call'[q] = call[q]
                   /\ query'[q] = query[q] /\ answer'[q] = answer[q]
       \/ step'[q] \notin {"await", "read"} /\ answer'[q] = 0
  BY <1>1, Zenon DEF Undisturbed
<1>3. \A i \in Ids : callbacks'[i] # 0 => callbacks'[i] = callbacks[i] /\ step'[callbacks[i]] = "await"
  <2>. TAKE i \in Ids
  <2>. HAVE callbacks'[i] # 0
  <2>1. callbacks'[i] = callbacks[i]
    BY Zenon DEF Undisturbed
  <2>2. callbacks[i] \in Callers
    BY <2>1 DEF AnswerInv, ExchangeTypes
  <2>3. step[callbacks[i]] = "await"
    BY <2>1, Zenon DEF AnswerInv, AtWork
  <2>. QED  BY <2>1, <2>2, <2>3, Zenon DEF Undisturbed, Waits
<1>4. /\ query' \in [Callers -> Nat] /\ answer' \in [Callers -> Nat]
      /\ callbacks' \in [Ids -> Callers \cup {0}]
  BY Zenon DEF Undisturbed, AnswerInv, ExchangeTypes
<1>5. Settles
  BY <1>2, <1>3, <1>4, Zenon DEF Settles, Undisturbed, ConnsStay
<1>. QED  BY <1>5, Settled, Zenon

\* The Exchange of p returns or begins again, with its callback deleted.
Returns(p) ==
  /\ UNCHANGED <<transport, mode, sent, wire, queryId>>
  /\ step' \in [Callers -> {"ready", "acquire", "reset", "resetting", "await", "read", "again"}]
  /\ query' \in [Callers -> Nat] /\ answer' \in [Callers -> Nat]
  /\ step'[p] \notin {"await", "read"} /\ answer'[p] = 0
  /\ \A q \in Callers \ {p} : step'[q] = step[q] /\ call'[q] = call[q]
                              /\ query'[q] = query[q] /\ answer'[q] = answer[q]
  /\ \/ callbacks' = callbacks /\ step[p] # "await"
     \/ callbacks' = [i \in Ids |-> IF callbacks[i] = p THEN 0 ELSE callbacks[i]]

\* An Exchange that returns (the deferred delete of udp.go:194 included) keeps
\* the invariant.
LEMMA ReturnSettles ==
  ASSUME AnswerInv, NEW p \in Callers, Returns(p), ConnsStay
  PROVE  AnswerInv'
<1>1. \A q \in Callers : ~Waits(q) => answer[q] = 0
  BY Zenon DEF AnswerInv, AtWork
<1>2. \A q \in Callers :
       \/ Waits(q) /\ step'[q] = step[q] /\ call'[q] = call[q]
                   /\ query'[q] = query[q] /\ answer'[q] = answer[q]
       \/ step'[q] \notin {"await", "read"} /\ answer'[q] = 0
  <2>. TAKE q \in Callers
  <2>1. CASE q = p
    BY <2>1, Zenon DEF Returns
  <2>2. CASE q # p
    BY <1>1, <2>2, Zenon DEF Returns, Waits
  <2>. QED  BY <2>1, <2>2, ZenonT(40)
<1>3. /\ callbacks \in [Ids -> Callers \cup {0}]
      /\ \A i \in Ids : callbacks[i] # 0 => step[callbacks[i]] = "await" /\ callbacks[i] \in Callers
  <2>1. callbacks \in [Ids -> Callers \cup {0}]
    BY Zenon DEF AnswerInv, ExchangeTypes
  <2>2. \A i \in Ids : callbacks[i] # 0 => step[callbacks[i]] = "await"
    BY Zenon DEF AnswerInv, AtWork
  <2>. QED  BY <2>1, <2>2
<1>4. \A i \in Ids : callbacks'[i] # 0 => callbacks'[i] = callbacks[i] /\ callbacks[i] # p
  <2>1. CASE callbacks' = callbacks /\ step[p] # "await"
    BY <1>3, <2>1, Zenon
  <2>2. CASE callbacks' = [i \in Ids |-> IF callbacks[i] = p THEN 0 ELSE callbacks[i]]
    BY <2>2
  <2>. QED  BY <2>1, <2>2, Zenon DEF Returns
<1>5. \A i \in Ids : callbacks'[i] # 0 => callbacks'[i] = callbacks[i] /\ step'[callbacks[i]] = "await"
  <2>. TAKE i \in Ids
  <2>. HAVE callbacks'[i] # 0
  <2>1. callbacks'[i] = callbacks[i] /\ callbacks[i] # p
    BY <1>4
  <2>2. callbacks[i] \in Callers \ {p} /\ step[callbacks[i]] = "await"
    BY <1>3, <2>1, Zenon
  <2>. QED  BY <2>1, <2>2, Zenon DEF Returns
<1>6. callbacks' \in [Ids -> Callers \cup {0}]
  BY <1>3 DEF Returns
<1>7. Settles
  BY <1>2, <1>5, <1>6, Zenon DEF Settles, Returns, ConnsStay
<1>. QED  BY <1>7, Settled, Zenon

\* The connection c is handed to nobody and does not become idle.
Spares(c) ==
  /\ dial'[c].pc = "done"
  /\ \A i \in DOMAIN idle' : idle'[i] # c
  /\ \A q \in Callers : call'[q].pc = "got" /\ call'[q].conn = c => call'[q] = call[q]

\* What an Exchange and the network do to the pool.
PoolUse(c) ==
  \/ UNCHANGED poolVars
  \/ \E p \in Callers :
       \/ Begin(p) \/ Expire(p) \/ CloseInUse(p)
       \/ Release(p, FALSE) \/ (Release(p, TRUE) /\ call[p].conn # c)
  \/ \E d \in Conns : Invalidate(d) \/ Die(d)
  \/ Reset \/ Close

\* What Exchanges do to the pool leaves alone a connection with an answer to
\* come: only TlsRelease puts one back, and it has read its answer.
LEMMA UseSpares ==
  ASSUME PoolInv, NEW c \in Conns, dial[c].pc = "done", \A i \in DOMAIN idle : idle[i] # c,
         PoolUse(c)
  PROVE  Spares(c)
<1>1. call \in [Callers -> CallerRec] /\ dial \in [Conns -> DialRec] /\ idle \in Seq(Conns)
  BY DEF PoolInv, PoolTypeOK
<1>2. \A d \in Conns : \A i \in DOMAIN Unlisted(d) : Unlisted(d)[i] # c
  BY <1>1, UnlistedSeq
<1>3. CASE UNCHANGED poolVars \/ (\E p \in Callers : CloseInUse(p)) \/ \E d \in Conns : Die(d)
  BY <1>3, Zenon DEF poolVars, stateVars, fieldVars, dialVars, callVars, CloseInUse, Die, Spares
<1>4. CASE Reset \/ Close
  BY <1>4 DEF Reset, Close, Replace, dialVars, callVars, Spares
<1>5. ASSUME NEW p \in Callers, Begin(p) PROVE Spares(c)
  BY <1>1, <1>5, ZenonT(40) DEF Begin, Again, Caller, fieldVars, dialVars, Spares
<1>6. ASSUME NEW p \in Callers, Expire(p) PROVE Spares(c)
  BY <1>6, ZenonT(40) DEF Expire, fieldVars, Spares
<1>7. CASE \E d \in Conns : Invalidate(d)
  BY <1>2, <1>7, ZenonT(40) DEF Invalidate, InvalidateConn, RemoveConn, fieldVars, dialVars, callVars, Spares
<1>8. ASSUME NEW p \in Callers, NEW r \in BOOLEAN, Release(p, r), r => call[p].conn # c
      PROVE  Spares(c)
  <2>1. dial' = dial /\ Back(p) /\ call[p].pc = "got"
    BY <1>8 DEF Release, ReleaseUntracked, ReleaseDiscard, ReleaseReuse, dialVars
  <2>2. \A q \in Callers : call'[q].pc = "got" => call'[q] = call[q]
    BY <1>1, <2>1, ZenonT(40) DEF Back, Caller
  <2>3. call[p].conn \in Conns
    BY <2>1, ZenonT(40) DEF PoolInv, Owned
  <2>4. CASE ReleaseUntracked(p) \/ ReleaseDiscard(p)
    BY <1>2, <2>1, <2>2, <2>3, <2>4, ZenonT(40) DEF ReleaseUntracked, ReleaseDiscard, RemoveConn, fieldVars,
       Spares
  <2>5. CASE ReleaseReuse(p) /\ r
    <3>1. idle' = idle \/ idle' = Append(idle, call[p].conn)
      BY <2>5, ZenonT(40) DEF ReleaseReuse
    <3>2. \A i \in DOMAIN idle' : idle'[i] # c
      BY <1>1, <1>8, <2>3, <2>5, <3>1
    <3>. QED  BY <2>1, <2>2, <3>2 DEF Spares
  <2>. QED  BY <1>8, <2>4, <2>5, ZenonT(40) DEF Release
<1>. QED  BY <1>3, <1>4, <1>5, <1>6, <1>7, <1>8, Zenon DEF PoolUse

\* So the waiting Exchanges stay with their connections.
LEMMA SparedStay ==
  ASSUME AnswerInv,
         kind = "tls" => \A c \in Conns : wire[c] # {} => Spares(c),
         \A q \in Callers : Waits(q) /\ call'[q] = call[q] /\ call'[q].pc = "got" => step'[q] = step[q]
  PROVE  ConnsStay
<1>. SUFFICES ASSUME kind = "tls", NEW c \in Conns, wire[c] # {}, NEW q \in Callers,
                     call'[q].pc = "got", call'[q].conn = c
              PROVE  call'[q] = call[q] /\ step'[q] = step[q]
  BY Zenon DEF ConnsStay, Spares
<1>1. call'[q] = call[q]
  BY Zenon DEF Spares
<1>2. call[q].pc = "got" /\ call[q].conn = c => step[q] = "read"
  BY Zenon DEF AnswerInv, OwnConn
<1>3. step[q] = "read"
  BY <1>1, <1>2, Zenon
<1>. QED  BY <1>1, <1>3, Zenon DEF Waits

\* The steps of the pool itself: Acquire, the dials and closeState.
LEMMA PoolStepSettles ==
  ASSUME AnswerInv, PoolInv, PoolStep
  PROVE  AnswerInv'
<1>1. Acquired /\ transport' = transport
  BY Zenon DEF PoolStep, Acquired
<1>2. mode' = mode
  BY Zenon DEF PoolStep, AcquireStep, DialStep, CloseStep, AcquireClosed, TakeShared, DropDeadShared,
     JoinDial, StartShared,
    WaitExpires, WaitCancelled, CollectError, CollectReplaced, CollectNothing, CollectDead, CollectShared,
    TakeIdle, WantSlot, TakeSlot, SlotFails, RemoveConn, stateVars, DialReturns, InstallError, InstallStale,
    InstallShared, OrderedStale, InstallOrdered, CancelState, CloseStateConns
<1>3. \A q \in Callers : call[q].pc = "got" => call'[q] = call[q]
  BY GotKept, Zenon
<1>4. \A q \in Callers : Waits(q) => call[q].pc = "got"
  BY Zenon DEF AnswerInv, AtWork
<1>5. \A q \in Callers : step'[q] = IF call[q].pc # "idle" /\ call'[q].pc = "idle" THEN "ready" ELSE step[q]
  BY <1>1, Zenon DEF Acquired
<1>6. step \in [Callers -> {"ready", "acquire", "reset", "resetting", "await", "read", "again"}]
  BY ZenonT(40) DEF AnswerInv, ExchangeTypes
<1>7. step' \in [Callers -> {"ready", "acquire", "reset", "resetting", "await", "read", "again"}]
  BY <1>1, <1>6, Zenon DEF Acquired
<1>8. \A q \in Callers : IF Waits(q) THEN step'[q] = step[q] /\ call'[q] = call[q]
                                     ELSE step'[q] \notin {"await", "read"}
  BY <1>3, <1>4, <1>5 DEF Waits
<1>9. Undisturbed
  BY <1>1, <1>2, <1>7, <1>8, Zenon DEF Undisturbed, Acquired
<1>10. kind = "tls" => \A c \in Conns : wire[c] # {} => Spares(c)
  <2>. SUFFICES ASSUME kind = "tls", NEW c \in Conns, wire[c] # {} PROVE Spares(c)
    OBVIOUS
  <2>1. mode = "ordered"
    BY DEF AnswerInv, ExchangeTypes
  <2>2. dial[c].pc = "done" /\ \A i \in DOMAIN idle : idle[i] # c
    BY Zenon DEF AnswerInv, OwnConn
  <2>. QED  BY <2>1, <2>2, HandedOut, Zenon DEF Spares
<1>11. ConnsStay
  BY <1>8, <1>10, SparedStay, Zenon
<1>. QED  BY <1>9, <1>11, UndisturbedSettles, Zenon

\* The Exchanges that wait stay with their connections, whatever another
\* Exchange does to the pool.
LEMMA UsesStay ==
  ASSUME AnswerInv, PoolInv,
         kind = "tls" => \A c \in Conns : wire[c] # {} => PoolUse(c),
         \A q \in Callers : Waits(q) /\ call'[q] = call[q] /\ call'[q].pc = "got" => step'[q] = step[q]
  PROVE  ConnsStay
<1>1. \A c \in Conns : kind = "tls" /\ wire[c] # {} =>
        dial[c].pc = "done" /\ \A i \in DOMAIN idle : idle[i] # c
  BY Zenon DEF AnswerInv, OwnConn
<1>2. kind = "tls" => \A c \in Conns : wire[c] # {} => Spares(c)
  BY <1>1, UseSpares, Zenon
<1>. QED  BY <1>2, SparedStay, Zenon

\* p moves on without waiting, and nothing else of the Exchanges changes.
LEMMA GoesOn ==
  ASSUME AnswerInv, PoolInv, NEW p \in Callers, ~Waits(p),
         UNCHANGED <<transport, mode, sent, wire, queryId, query, answer, callbacks>>,
         NEW s \in {"acquire", "reset", "resetting"}, Goto(p, s),
         \A q \in Callers \ {p} : call'[q] = call[q],
         kind = "tls" => \A c \in Conns : wire[c] # {} => PoolUse(c)
  PROVE  AnswerInv'
<1>1. step \in [Callers -> {"ready", "acquire", "reset", "resetting", "await", "read", "again"}]
  BY Zenon DEF AnswerInv, ExchangeTypes
<1>2. /\ step' \in [Callers -> {"ready", "acquire", "reset", "resetting", "await", "read", "again"}]
      /\ step'[p] = s /\ \A q \in Callers \ {p} : step'[q] = step[q]
  BY <1>1 DEF Goto
<1>3. \A q \in Callers : IF Waits(q) THEN step'[q] = step[q] /\ call'[q] = call[q]
                                     ELSE step'[q] \notin {"await", "read"}
  BY <1>2 DEF Waits
<1>4. Undisturbed
  BY <1>2, <1>3, Zenon DEF Undisturbed
<1>5. ConnsStay
  BY <1>3, UsesStay, Zenon
<1>. QED  BY <1>4, <1>5, UndisturbedSettles, Zenon

\* No Exchange moves.
LEMMA NobodyMoves ==
  ASSUME AnswerInv, PoolInv,
         UNCHANGED <<transport, mode, sent, wire, queryId, query, answer, callbacks, step, call>>,
         kind = "tls" => \A c \in Conns : wire[c] # {} => PoolUse(c)
  PROVE  AnswerInv'
<1>1. step \in [Callers -> {"ready", "acquire", "reset", "resetting", "await", "read", "again"}]
  BY Zenon DEF AnswerInv, ExchangeTypes
<1>2. Undisturbed
  BY <1>1, Zenon DEF Undisturbed, Waits
<1>3. ConnsStay
  BY UsesStay, Zenon
<1>. QED  BY <1>2, <1>3, UndisturbedSettles, Zenon

\* Release, Leave, InvalidateUsed and Begin concern their caller only.
LEMMA OneCaller ==
  ASSUME PoolInv, NEW p \in Callers,
         \/ \E r \in BOOLEAN : Release(p, r)
         \/ Leave(p) \/ InvalidateUsed(p) \/ Begin(p)
  PROVE  /\ mode' = mode
         /\ \A q \in Callers \ {p} : call'[q] = call[q]
         /\ call'[p].pc # "got" /\ (~Begin(p) => call[p].pc = "got")
<1>1. call \in [Callers -> CallerRec]
  BY DEF PoolInv, PoolTypeOK
<1>2. mode' = mode /\ (Back(p) \/ Again(p)) /\ (~Begin(p) => call[p].pc = "got")
  BY Zenon DEF Release, ReleaseUntracked, ReleaseDiscard, ReleaseReuse, RemoveConn, Leave,
     InvalidateUsed,
     InvalidateConn, Begin, stateVars
<1>. QED  BY <1>1, <1>2 DEF Back, Again, Caller

\* What an Exchange does before it has a connection, and when it tries again.
LEMMA BeginsSettle ==
  ASSUME AnswerInv, PoolInv, NEW p \in Callers,
         \/ Ask(p) \/ ResetPool(p) \/ (ResetDone(p) /\ tries[p] > 0)
         \/ TryAgain(p) \/ QuicRetry(p)
  PROVE  AnswerInv'
<1>1. /\ ~Waits(p)
      /\ UNCHANGED <<transport, sent, wire, queryId, query, answer, callbacks>>
      /\ \E s \in {"acquire", "reset", "resetting"} : Goto(p, s)
  BY Zenon DEF Ask, ResetPool, ResetDone, TryAgain, QuicRetry, Has, udpVars, Waits
<1>2. \/ UNCHANGED poolVars \/ Begin(p) \/ Reset
      \/ kind = "quic" /\ Release(p, TRUE)
  BY Zenon DEF Ask, ResetPool, ResetDone, TryAgain, QuicRetry, Has
<1>3. mode' = mode /\ \A q \in Callers \ {p} : call'[q] = call[q]
  <2>1. CASE UNCHANGED poolVars \/ Reset
    BY <2>1 DEF poolVars, stateVars, callVars, Reset, Replace
  <2>2. CASE Begin(p) \/ Release(p, TRUE)
    BY <2>2, OneCaller, Zenon
  <2>. QED  BY <1>2, <2>1, <2>2, ZenonT(40)
<1>4. kind = "tls" => \A c \in Conns : PoolUse(c)
  BY <1>2, Zenon DEF PoolUse
<1>. QED  BY <1>1, <1>3, <1>4, GoesOn, Zenon

\* The network, the deadlines, Reset and Close move no Exchange.
LEMMA OthersSettle ==
  ASSUME AnswerInv, PoolInv,
         \/ (\E p \in Callers : DeadlineCloses(p))
         \/ (\E c \in Conns : ReceiveFails(c)) \/ Environment \/ UNCHANGED vars
  PROVE  AnswerInv'
<1>1. UNCHANGED <<transport, sent, wire, queryId, query, answer, callbacks, step>>
  BY Zenon DEF DeadlineCloses, ReceiveFails, vars, Environment, exchangeVars, udpVars
<1>2. \/ UNCHANGED poolVars \/ \E p \in Callers : CloseInUse(p) \/ Expire(p)
      \/ \E d \in Conns : Invalidate(d) \/ Die(d)
      \/ Reset \/ Close
  BY ZenonT(40) DEF DeadlineCloses, ReceiveFails, vars, Environment
<1>3. mode' = mode /\ call' = call
  BY <1>2, Zenon DEF poolVars, stateVars, callVars, CloseInUse, Expire, Invalidate, InvalidateConn,
     RemoveConn, Die,
     Reset, Close, Replace
<1>4. \A c \in Conns : PoolUse(c)
  BY <1>2, Zenon DEF PoolUse
<1>. QED  BY <1>1, <1>3, <1>4, NobodyMoves, Zenon

\* An Exchange returns, or comes to the second try of TLS.
LEMMA ReturnKeeps ==
  ASSUME AnswerInv, PoolInv, NEW p \in Callers,
         \/ \E r \in BOOLEAN : Release(p, r)
         \/ Leave(p) \/ InvalidateUsed(p)
         \/ UNCHANGED poolVars /\ ~Waits(p),
         UNCHANGED <<transport, sent, wire, queryId>>,
         NEW s \in {"ready", "again"}, Goto(p, s), query' = [query EXCEPT ![p] = 0],
         answer' = [answer EXCEPT ![p] = 0] \/ (UNCHANGED answer /\ answer[p] = 0),
         \/ UNCHANGED callbacks /\ step[p] # "await"
         \/ callbacks' = [i \in Ids |-> IF callbacks[i] = p THEN 0 ELSE callbacks[i]],
         kind = "tls" => \A c \in Conns : wire[c] # {} => PoolUse(c)
  PROVE  AnswerInv'
<1>1. /\ step \in [Callers -> {"ready", "acquire", "reset", "resetting", "await", "read", "again"}]
      /\ query \in [Callers -> Nat] /\ answer \in [Callers -> Nat]
  BY Zenon DEF AnswerInv, ExchangeTypes
<1>2. /\ step' \in [Callers -> {"ready", "acquire", "reset", "resetting", "await", "read", "again"}]
      /\ query' \in [Callers -> Nat] /\ answer' \in [Callers -> Nat]
      /\ step'[p] = s /\ answer'[p] = 0
      /\ \A q \in Callers \ {p} : step'[q] = step[q] /\ query'[q] = query[q] /\ answer'[q] = answer[q]
  BY <1>1 DEF Goto
<1>3. mode' = mode /\ \A q \in Callers \ {p} : call'[q] = call[q]
  <2>1. CASE UNCHANGED poolVars
    BY <2>1 DEF poolVars, stateVars, callVars
  <2>2. CASE ~UNCHANGED poolVars
    BY <2>2, OneCaller, Zenon
  <2>. QED  BY <2>1, <2>2
<1>4. call'[p].pc = "got" => ~Waits(p)
  BY OneCaller, Zenon
<1>5. step'[p] \notin {"await", "read"}
  BY <1>2
<1>6. Returns(p)
  BY <1>2, <1>3, <1>5, Zenon DEF Returns
<1>7. \A q \in Callers : Waits(q) /\ call'[q] = call[q] /\ call'[q].pc = "got" => step'[q] = step[q]
  BY <1>2, <1>4, Zenon
<1>8. ConnsStay
  BY <1>7, UsesStay, Zenon
<1>. QED  BY <1>6, <1>8, ReturnSettles, Zenon

\* The Exchanges that end, with an answer or without.
LEMMA EndsSettle ==
  ASSUME AnswerInv, PoolInv, NEW p \in Callers,
         \/ NoFreeId(p) \/ Answered(p) \/ ConnFailed(p) \/ TlsRelease(p) \/ TlsFail(p) \/ QuicEnd(p)
         \/ (ResetDone(p) /\ ~(tries[p] > 0))
  PROVE  AnswerInv'
<1>1. step[p] = "await" => kind = "udp"
  BY Zenon DEF AnswerInv, AtWork, Waits
<1>2. step[p] \notin {"await", "read"} => answer[p] = 0
  BY Zenon DEF AnswerInv, AtWork, Waits
<1>3. CASE NoFreeId(p) \/ QuicEnd(p)
  <2>1. /\ Release(p, TRUE) /\ step[p] # "await" /\ kind # "tls"
        /\ UNCHANGED <<transport, sent, wire, queryId, callbacks>>
        /\ Goto(p, "ready") /\ query' = [query EXCEPT ![p] = 0] /\ answer' = [answer EXCEPT ![p] = 0]
    BY <1>3, Zenon DEF NoFreeId, QuicEnd, Return, Quit, Has, udpVars
  <2>. QED  BY <2>1, ReturnKeeps, Zenon
<1>4. CASE Answered(p) \/ ConnFailed(p)
  <2>1. /\ Release(p, TRUE) \/ Leave(p)
        /\ kind # "tls"
        /\ UNCHANGED <<transport, sent, wire, queryId>>
        /\ callbacks' = [i \in Ids |-> IF callbacks[i] = p THEN 0 ELSE callbacks[i]]
        /\ Goto(p, "ready") /\ query' = [query EXCEPT ![p] = 0] /\ answer' = [answer EXCEPT ![p] = 0]
    BY <1>1, <1>4, Zenon DEF Answered, ConnFailed, Unregister, Return, Quit
  <2>. QED  BY <2>1, ReturnKeeps, Zenon
<1>5. CASE TlsRelease(p)
  <2>1. /\ Release(p, TRUE) /\ step[p] # "await" /\ answer[p] # 0
        /\ UNCHANGED <<transport, sent, wire, queryId, callbacks>>
        /\ Goto(p, "ready") /\ query' = [query EXCEPT ![p] = 0] /\ answer' = [answer EXCEPT ![p] = 0]
    BY <1>5, Zenon DEF TlsRelease, Return, Quit, udpVars
  <2>2. call[p].pc = "got"
    BY <2>1, Zenon DEF AnswerInv, AtWork
  <2>3. kind = "tls" => \A c \in Conns : wire[c] # {} => call[p].conn # c
    BY <2>1, <2>2, Zenon DEF AnswerInv, OwnConn
  <2>4. kind = "tls" => \A c \in Conns : wire[c] # {} => PoolUse(c)
    BY <2>1, <2>3, Zenon DEF PoolUse
  <2>. QED  BY <2>1, <2>4, ReturnKeeps, Zenon
<1>6. CASE TlsFail(p)
  <2>1. /\ Release(p, FALSE) /\ step[p] # "await" /\ answer[p] = 0
        /\ UNCHANGED <<transport, sent, wire, queryId, callbacks>>
        /\ Goto(p, "ready") \/ Goto(p, "again")
        /\ query' = [query EXCEPT ![p] = 0]
        /\ answer' = [answer EXCEPT ![p] = 0] \/ UNCHANGED answer
    BY <1>2, <1>6, Zenon DEF TlsFail, Return, Quit, Has, udpVars
  <2>2. \A c \in Conns : PoolUse(c)
    BY <2>1, Zenon DEF PoolUse
  <2>. QED  BY <2>1, <2>2, ReturnKeeps, Zenon
<1>7. CASE ResetDone(p) /\ ~(tries[p] > 0)
  <2>1. /\ UNCHANGED poolVars /\ step[p] # "await" /\ ~Waits(p)
        /\ UNCHANGED <<transport, sent, wire, queryId, callbacks>>
        /\ Goto(p, "ready") /\ query' = [query EXCEPT ![p] = 0] /\ answer' = [answer EXCEPT ![p] = 0]
    BY <1>7 DEF ResetDone, Return, Quit, udpVars, Waits
  <2>2. \A c \in Conns : PoolUse(c)
    BY <2>1, Zenon DEF PoolUse
  <2>. QED  BY <2>1, <2>2, ReturnKeeps, Zenon
<1>. QED  BY <1>3, <1>4, <1>5, <1>6, <1>7, ZenonT(40)

-----------------------------------------------------------------------------
(* TLS *)

\* The query goes out on a connection with nothing on it.
LEMMA TlsWriteKeeps ==
  ASSUME AnswerInv, PoolInv, NEW p \in Callers, TlsWrite(p)
  PROVE  AnswerInv'
<1>. DEFINE c == call[p].conn
            m == [id |-> 0, n |-> sent + 1]
<1>1. /\ kind = "tls" /\ step[p] = "acquire" /\ call[p].pc = "got"
      /\ UNCHANGED <<poolVars, transport, answer, callbacks, queryId>>
      /\ sent' = sent + 1 /\ query' = [query EXCEPT ![p] = sent + 1]
      /\ wire' = [wire EXCEPT ![c] = @ \cup {m}] /\ step' = [step EXCEPT ![p] = "read"]
  BY Zenon DEF TlsWrite, Has, Number, Goto, conn, udpVars
<1>2. UNCHANGED <<mode, call, dial, idle, kind, Ids>>
  BY <1>1, Zenon DEF poolVars, stateVars, fieldVars, dialVars, callVars, kind, Ids
<1>3. ExchangeTypes
  BY Zenon DEF AnswerInv
<1>4. c \in Conns /\ dial[c].pc = "done"
  BY <1>1, Zenon DEF PoolInv, Owned
<1>5. wire[c] = {}
  <2>1. step[p] # "read"
    BY <1>1, ZenonT(40)
  <2>. QED  BY <1>1, <1>4, <2>1, ZenonT(40) DEF AnswerInv, OwnConn
<1>6. /\ \A i \in DOMAIN idle : idle[i] # c
      /\ \A q \in Callers \ {p} : call[q].pc = "got" => call[q].conn # c
  <2>1. mode = "ordered"
    BY <1>1, <1>3, Zenon DEF ExchangeTypes
  <2>. QED  BY <1>1, <2>1, ZenonT(40) DEF PoolInv, ExclusiveUse
<1>7. /\ wire \in [Conns -> SUBSET [id : Ids, n : Nat]] /\ sent \in Nat /\ m \in [id : Ids, n : Nat]
      /\ step \in [Callers -> {"ready", "acquire", "reset", "resetting", "await", "read", "again"}]
      /\ query \in [Callers -> Nat]
  <2>1. transport.ids \in Nat \ {0} /\ Ids = 0 .. transport.ids - 1 /\ sent \in Nat
    BY <1>3, IdsAre, Zenon DEF ExchangeTypes
  <2>2. 0 \in Ids /\ sent + 1 \in Nat
    BY <2>1
  <2>3. m \in [id : Ids, n : Nat]
    BY <2>2
  <2>. QED  BY <1>3, <2>1, <2>3, Zenon DEF ExchangeTypes
<1>. HIDE DEF c
<1>8. wire'[c] = {m} /\ \A d \in Conns \ {c} : wire'[d] = wire[d]
  BY <1>1, <1>4, <1>5, <1>7, ZenonT(40)
<1>9. /\ step'[p] = "read" /\ query'[p] = sent + 1
      /\ \A q \in Callers \ {p} : step'[q] = step[q] /\ query'[q] = query[q]
  BY <1>1, <1>7
<1>10. ExchangeTypes'
  <2>1. wire' \in [Conns -> SUBSET [id : Ids, n : Nat]] /\ sent' \in Nat
    BY <1>1, <1>4, <1>7, ZenonT(40)
  <2>2. /\ step' \in [Callers -> {"ready", "acquire", "reset", "resetting", "await", "read", "again"}]
        /\ query' \in [Callers -> Nat]
    BY <1>1, <1>7
  <2>. QED  BY <1>1, <1>2, <1>3, <2>1, <2>2, ZenonT(40) DEF ExchangeTypes
<1>11. answer[p] = 0
  <2>1. ~Waits(p)
    BY <1>1 DEF Waits
  <2>. QED  BY <2>1, Zenon DEF AnswerInv, AtWork
<1>12. AtWork'
  <2>1. \A q \in Callers : step'[q] \in {"await", "read"} =>
          call'[q].pc = "got" /\ kind' = IF step'[q] = "await" THEN "udp" ELSE "tls"
    <3>. TAKE q \in Callers
    <3>1. CASE q = p
      BY <1>1, <1>2, <1>9, <3>1, ZenonT(40)
    <3>2. CASE q # p
      BY <1>2, <1>9, <3>2, Zenon DEF AnswerInv, AtWork, Waits
    <3>. QED  BY <3>1, <3>2, ZenonT(40)
  <2>2. \A q \in Callers : answer'[q] # 0 => step'[q] \in {"await", "read"}
    BY <1>1, <1>9, <1>11, Zenon DEF AnswerInv, AtWork, Waits
  <2>3. \A i \in Ids' : callbacks'[i] # 0 => step'[callbacks'[i]] = "await"
    <3>. SUFFICES ASSUME NEW i \in Ids, callbacks[i] # 0 PROVE step'[callbacks[i]] = "await"
      BY <1>1, <1>2, Zenon
    <3>1. step[callbacks[i]] = "await" /\ callbacks[i] \in Callers
      BY <1>3, ZenonT(40) DEF AnswerInv, AtWork, ExchangeTypes
    <3>2. callbacks[i] # p
      BY <1>1, <3>1
    <3>. QED  BY <1>9, <3>1, <3>2, Zenon
  <2>. QED  BY <2>1, <2>2, <2>3, Zenon DEF AtWork, Waits
<1>13. OwnConn'
  <2>. SUFFICES ASSUME NEW d \in Conns, wire'[d] # {}
                PROVE  /\ dial[d].pc = "done" /\ \A i \in DOMAIN idle : idle[i] # d
                       /\ \A q \in Callers : call[q].pc = "got" /\ call[q].conn = d =>
                            step'[q] = "read" /\ answer[q] = 0 /\ wire'[d] = {[id |-> 0, n |-> query'[q]]}
    <3>1. dial' = dial /\ idle' = idle /\ call' = call /\ answer' = answer
      BY <1>1, <1>2, Zenon
    <3>. QED  BY <3>1, Zenon DEF OwnConn
  <2>1. CASE d = c
    <3>1. ASSUME NEW q \in Callers, call[q].pc = "got", call[q].conn = d
          PROVE  step'[q] = "read" /\ answer[q] = 0 /\ wire'[d] = {[id |-> 0, n |-> query'[q]]}
      <4>1. q = p
        BY <1>6, <2>1, <3>1, ZenonT(40)
      <4>. QED  BY <1>8, <1>9, <1>11, <2>1, <4>1, Zenon
    <3>. QED  BY <1>4, <1>6, <2>1, <3>1, Zenon
  <2>2. CASE d # c
    <3>1. wire[d] # {} /\ wire'[d] = wire[d]
      BY <1>8, <2>2, Zenon
    <3>2. dial[d].pc = "done" /\ \A i \in DOMAIN idle : idle[i] # d
      BY <1>1, <3>1, Zenon DEF AnswerInv, OwnConn
    <3>3. ASSUME NEW q \in Callers, call[q].pc = "got", call[q].conn = d
          PROVE  step'[q] = "read" /\ answer[q] = 0 /\ wire'[d] = {[id |-> 0, n |-> query'[q]]}
      <4>1. q # p
        BY <2>2, <3>3, Zenon DEF c
      <4>2. step[q] = "read" /\ answer[q] = 0 /\ wire[d] = {[id |-> 0, n |-> query[q]]}
        BY <1>1, <3>1, <3>3, ZenonT(40) DEF AnswerInv, OwnConn
      <4>. QED  BY <1>9, <3>1, <4>1, <4>2, Zenon
    <3>. QED  BY <3>2, <3>3, Zenon
  <2>. QED  BY <2>1, <2>2, Zenon
<1>14. OwnIds'
  BY <1>1, <1>2 DEF OwnIds
<1>15. AnswerIsOwn'
  <2>. SUFFICES ASSUME NEW q \in Callers, answer[q] # 0 PROVE answer[q] = query'[q]
    BY <1>1, Zenon DEF AnswerIsOwn
  <2>1. q # p /\ query'[q] = query[q]
    BY <1>9, <1>11, Zenon
  <2>2. kind # "udp"
    BY <1>1, ZenonT(40)
  <2>. QED  BY <2>1, <2>2, Zenon DEF AnswerInv, AnswerIsOwn
<1>. QED  BY <1>10, <1>12, <1>13, <1>14, <1>15, Zenon DEF AnswerInv

\* What is read is the answer to the query that was written.
LEMMA TlsAnswerKeeps ==
  ASSUME AnswerInv, PoolInv, NEW p \in Callers, TlsAnswer(p)
  PROVE  AnswerInv'
<1>. DEFINE c == call[p].conn
            m == CHOOSE m \in wire[c] : \A o \in wire[c] : m.n <= o.n
<1>1. /\ step[p] = "read" /\ answer[p] = 0 /\ wire[c] # {}
      /\ UNCHANGED <<poolVars, transport, step, query, sent, callbacks, queryId>>
      /\ answer' = [answer EXCEPT ![p] = m.n] /\ wire' = [wire EXCEPT ![c] = @ \ {m}]
  BY Zenon DEF TlsAnswer, conn, udpVars
<1>2. UNCHANGED <<mode, call, dial, idle, kind, Ids>>
  BY <1>1, ZenonT(40) DEF poolVars, stateVars, fieldVars, dialVars, callVars, kind, Ids
<1>3. ExchangeTypes
  BY Zenon DEF AnswerInv
<1>4. kind = "tls" /\ call[p].pc = "got"
  BY <1>1, ZenonT(40) DEF AnswerInv, AtWork, Waits
<1>5. c \in Conns
  BY <1>4 DEF PoolInv, Owned
<1>6. wire[c] = {[id |-> 0, n |-> query[p]]}
  BY <1>1, <1>4, <1>5, Zenon DEF AnswerInv, OwnConn
<1>7. /\ wire \in [Conns -> SUBSET [id : Ids, n : Nat]]
      /\ answer \in [Callers -> Nat] /\ query \in [Callers -> Nat]
  BY <1>3, Zenon DEF ExchangeTypes
<1>8. m = [id |-> 0, n |-> query[p]] /\ m.n = query[p]
  <2>1. query[p] <= query[p]
    <3>1. query[p] \in Nat
      BY <1>7, Zenon
    <3>. QED  BY <3>1
  <2>. QED  BY <1>6, <2>1
<1>. HIDE DEF c, m
<1>9. wire'[c] = {} /\ \A d \in Conns \ {c} : wire'[d] = wire[d]
  BY <1>1, <1>5, <1>6, <1>7, <1>8, ZenonT(40)
<1>10. answer'[p] = query[p] /\ \A q \in Callers \ {p} : answer'[q] = answer[q]
  BY <1>1, <1>7, <1>8, ZenonT(40)
<1>11. ExchangeTypes'
  <2>1. wire' \in [Conns -> SUBSET [id : Ids, n : Nat]] /\ answer' \in [Callers -> Nat]
    BY <1>1, <1>5, <1>7, <1>8, ZenonT(40)
  <2>. QED  BY <1>1, <1>2, <1>3, <2>1, ZenonT(40) DEF ExchangeTypes
<1>12. AtWork'
  <2>1. \A q \in Callers : answer'[q] # 0 => step[q] \in {"await", "read"}
    BY <1>1, <1>10, Zenon DEF AnswerInv, AtWork, Waits
  <2>. QED  BY <1>1, <1>2, <2>1, Zenon DEF AnswerInv, AtWork, Waits
<1>13. OwnConn'
  <2>. SUFFICES ASSUME NEW d \in Conns, wire'[d] # {}
                PROVE  /\ dial[d].pc = "done" /\ \A i \in DOMAIN idle : idle[i] # d
                       /\ \A q \in Callers : call[q].pc = "got" /\ call[q].conn = d =>
                            step[q] = "read" /\ answer'[q] = 0 /\ wire'[d] = {[id |-> 0, n |-> query[q]]}
    BY <1>1, <1>2, ZenonT(40) DEF OwnConn
  <2>1. d # c /\ wire'[d] = wire[d] /\ wire[d] # {}
    BY <1>9, Zenon
  <2>2. \A q \in Callers : call[q].conn = d => q # p
    BY <2>1, Zenon DEF c
  <2>3. dial[d].pc = "done" /\ \A i \in DOMAIN idle : idle[i] # d
    BY <1>4, <2>1, Zenon DEF AnswerInv, OwnConn
  <2>4. ASSUME NEW q \in Callers, call[q].pc = "got", call[q].conn = d
        PROVE  step[q] = "read" /\ answer'[q] = 0 /\ wire'[d] = {[id |-> 0, n |-> query[q]]}
    <3>1. step[q] = "read" /\ answer[q] = 0 /\ wire[d] = {[id |-> 0, n |-> query[q]]}
      BY <1>4, <2>1, <2>4, Zenon DEF AnswerInv, OwnConn
    <3>. QED  BY <1>10, <2>1, <2>2, <2>4, <3>1, Zenon
  <2>. QED  BY <2>3, <2>4, Zenon
<1>14. OwnIds'
  BY <1>2, <1>4 DEF OwnIds
<1>15. AnswerIsOwn'
  <2>. SUFFICES ASSUME NEW q \in Callers, answer'[q] # 0 PROVE answer'[q] = query[q]
    BY <1>1, Zenon DEF AnswerIsOwn
  <2>1. kind # "udp"
    BY <1>4
  <2>. QED  BY <1>10, <2>1, Zenon DEF AnswerInv, AnswerIsOwn
<1>. QED  BY <1>11, <1>12, <1>13, <1>14, <1>15, Zenon DEF AnswerInv

-----------------------------------------------------------------------------
(* UDP *)

\* recvLoop: what arrives for an id is the answer to the query that waits for
\* it, or to one that had the id a round or more before (udp.go:230).
LEMMA ReceiveKeeps ==
  ASSUME AnswerInv, PoolInv, NEW c \in Conns, NEW m \in wire[c], Receive(c, m)
  PROVE  AnswerInv'
<1>. DEFINE q == callbacks[m.id]
<1>1. /\ q # 0 /\ answer[q] = 0 /\ answer' = [answer EXCEPT ![q] = m.n]
      /\ UNCHANGED <<poolVars, transport, step, query, sent, wire, callbacks, queryId>>
  BY Zenon DEF Receive, udpVars
<1>2. UNCHANGED <<mode, call, dial, idle, kind, Ids>>
  BY <1>1, Zenon DEF poolVars, stateVars, fieldVars, dialVars, callVars, kind, Ids
<1>3. ExchangeTypes
  BY Zenon DEF AnswerInv
<1>4. m.id \in Ids /\ m.n \in Nat /\ answer \in [Callers -> Nat] /\ query \in [Callers -> Nat]
  <2>1. wire \in [Conns -> SUBSET [id : Ids, n : Nat]]
    BY <1>3, Zenon DEF ExchangeTypes
  <2>2. m \in [id : Ids, n : Nat]
    BY <2>1, Zenon
  <2>3. m.id \in Ids /\ m.n \in Nat
    BY <2>2
  <2>. QED  BY <1>3, <2>3, Zenon DEF ExchangeTypes
<1>5. q \in Callers /\ step[q] = "await"
  BY <1>1, <1>3, <1>4, ZenonT(40) DEF AnswerInv, AtWork, ExchangeTypes
<1>6. kind = "udp"
  BY <1>5, ZenonT(40) DEF AnswerInv, AtWork, Waits
<1>7. answer'[q] = m.n /\ \A r \in Callers \ {q} : answer'[r] = answer[r]
  BY <1>1, <1>4, <1>5
<1>8. PICK pos \in [Nat -> Nat] : Numbered(pos)
  BY <1>6, Zenon DEF AnswerInv, OwnIds
<1>9. m.n = query[q] \/ query[q] - m.n >= transport.ids - Cardinality(Callers) + 1
  <2>. DEFINE n == transport.ids
              b == query[q]
              k == Cardinality(Callers)
  <2>1. n \in Nat \ {0} /\ k \in Nat
    BY <1>3, IdsAre
  <2>2. m.n \in 1..sent /\ m.id = pos[m.n] % n
    BY <1>8, Zenon DEF Numbered
  <2>3. b \in 1..sent /\ pos[b] % n = m.id /\ \A j \in 1..sent : j > b => pos[j] % n # m.id
    BY <1>1, <1>4, <1>8, Zenon DEF Numbered
  <2>4. ~(m.n > b)
    BY <2>2, <2>3, Zenon
  <2>. HIDE DEF n, b, k
  <2>5. sent \in Nat
    BY <1>3 DEF ExchangeTypes
  <2>6. ASSUME m.n < b PROVE n + m.n < b + k
    <3>1. m.n \in 0..sent /\ b \in 0..sent /\ pos[m.n] \in Nat /\ pos[b] \in Nat
      BY <2>2, <2>3, <2>5
    <3>2. Passed(pos, callbacks, n, sent, k)
      BY <1>8, Zenon DEF Numbered, n, k
    <3>3. pos[m.n] < pos[b]
      BY <2>6, <3>1, <3>2, Zenon DEF Passed
    <3>4. pos[m.n] + n <= pos[b]
      BY <2>1, <2>2, <2>3, <3>1, <3>3, ModApart, Zenon
    <3>. QED  BY <2>2, <2>3, <3>2, <3>4, ZenonT(40) DEF Passed
  <2>7. m.n = b \/ b - m.n >= n - k + 1
    <3>1. \A x, y, i, l \in Nat : ~(x > y) /\ (x < y => i + x < y + l) => x = y \/ y - x >= i - l + 1
      OBVIOUS
    <3>2. m.n \in Nat /\ b \in Nat /\ n \in Nat /\ k \in Nat
      BY <2>1, <2>2, <2>3, <2>5
    <3>. QED  BY <2>4, <2>6, <3>1, <3>2, Zenon
  <2>. QED  BY <2>7, Zenon DEF n, b, k
<1>. HIDE DEF q
<1>10. ExchangeTypes'
  <2>1. answer' \in [Callers -> Nat]
    BY <1>1, <1>4, <1>5, ZenonT(40)
  <2>. QED  BY <1>1, <1>2, <1>3, <2>1, Zenon DEF ExchangeTypes
<1>11. AtWork'
  <2>1. \A r \in Callers : answer'[r] # 0 => step[r] \in {"await", "read"}
    BY <1>5, <1>7, Zenon DEF AnswerInv, AtWork, Waits
  <2>. QED  BY <1>1, <1>2, <2>1, Zenon DEF AnswerInv, AtWork, Waits
<1>12. OwnConn'
  BY <1>2, <1>6 DEF OwnConn
<1>13. OwnIds'
  <2>1. Numbered(pos)'
    BY <1>1, <1>2, <1>8, Zenon DEF Numbered
  <2>. QED  BY <2>1, Zenon DEF OwnIds
<1>14. AnswerIsOwn'
  <2>. SUFFICES ASSUME NEW r \in Callers, answer'[r] # 0
                PROVE  \/ answer'[r] = query[r]
                       \/ query[r] - answer'[r] >= transport.ids - Cardinality(Callers) + 1
    BY <1>1, <1>2, <1>6, Zenon DEF AnswerIsOwn
  <2>1. CASE r = q
    BY <1>7, <1>9, <2>1, Zenon DEF q
  <2>2. CASE r # q
    BY <1>7, <2>2, Zenon DEF AnswerInv, AnswerIsOwn
  <2>. QED  BY <2>1, <2>2
<1>. QED  BY <1>10, <1>11, <1>12, <1>13, <1>14, Zenon DEF AnswerInv

\* nextAvailableQueryId is the id of the next position that is free.
LEMMA NextId ==
  ASSUME ExchangeTypes, FreeSteps # {}, NEW x \in Nat, x % transport.ids = queryId
  PROVE  \E k \in 1..transport.ids :
           /\ nextAvailableQueryId = (x + k) % transport.ids
           /\ nextAvailableQueryId \in Ids
           /\ callbacks[nextAvailableQueryId] = 0
           /\ \A y \in x+1..x+k-1 : callbacks[y % transport.ids] # 0
<1>. DEFINE n == transport.ids
            k == Min(FreeSteps)
<1>1. n \in Nat \ {0} /\ Ids = 0..n-1
  BY IdsAre, Zenon
<1>2. FreeSteps = {j \in 1..n : callbacks[(queryId + j) % n] = 0}
  BY Zenon DEF FreeSteps
<1>. HIDE DEF n
<1>3. FreeSteps \in SUBSET Nat /\ FreeSteps \subseteq 1..n
  BY <1>1, <1>2
<1>4. k \in FreeSteps /\ \A y \in FreeSteps : k <= y
  <2>1. \E z \in FreeSteps : \A y \in FreeSteps : z <= y
    BY <1>3, NatMin, Zenon
  <2>. QED  BY <2>1, Zenon DEF Min
<1>5. k \in 1..n /\ callbacks[(queryId + k) % n] = 0
  BY <1>2, <1>4, Zenon
<1>6. nextAvailableQueryId = (queryId + k) % n
  BY Zenon DEF nextAvailableQueryId, n
<1>. HIDE DEF k
<1>7. \A j \in 1..n : (queryId + j) % n = (x + j) % n
  <2>1. \A j \in 1..n : j \in Nat
    BY <1>1
  <2>2. x % n = queryId
    BY Zenon DEF n
  <2>. QED  BY <1>1, <2>1, <2>2, ModShift, Zenon
<1>8. (x + k) % n \in Ids
  <2>1. x + k \in Nat
    BY <1>1, <1>5
  <2>. QED  BY <1>1, <2>1, DivMod, Zenon
<1>9. ASSUME NEW y \in x+1..x+k-1 PROVE callbacks[y % n] # 0
  <2>1. PICK j \in 1..n : y = x + j /\ ~(k <= j)
    <3>1. y - x \in 1..n /\ y = x + (y - x) /\ ~(k <= y - x)
      BY <1>1, <1>5
    <3>. QED  BY <3>1, Zenon
  <2>2. j \notin FreeSteps
    BY <1>4, <2>1, Zenon
  <2>3. callbacks[(queryId + j) % n] # 0
    BY <1>2, <2>2, Zenon
  <2>. QED  BY <1>7, <2>1, <2>3, Zenon
<1>10. nextAvailableQueryId = (x + k) % n
  BY <1>5, <1>6, <1>7, Zenon
<1>. QED  BY <1>5, <1>6, <1>8, <1>9, <1>10, Zenon DEF n

\* The next query has the id of the next free position, with its callback
\* entered or not.
LEMMA NumbersOn ==
  ASSUME AnswerInv, kind = "udp", NEW p \in Callers, step[p] # "await", FreeSteps # {},
         NEW pos \in [Nat -> Nat], Numbered(pos),
         callbacks' = callbacks \/ callbacks' = [callbacks EXCEPT ![nextAvailableQueryId] = p]
  PROVE  \E new \in [Nat -> Nat] :
           /\ Passed(new, callbacks', transport.ids, sent + 1, Cardinality(Callers))
           /\ new[sent + 1] % transport.ids = nextAvailableQueryId
           /\ \A a \in 0..sent : new[a] = pos[a]
<1>. DEFINE n == transport.ids
            x == pos[sent]
            id == nextAvailableQueryId
            c == Cardinality(Callers)
<1>1. ExchangeTypes /\ sent \in Nat /\ callbacks \in [Ids -> Callers \cup {0}]
  BY Zenon DEF AnswerInv, ExchangeTypes
<1>2. n \in Nat \ {0} /\ Ids = 0..n-1 /\ c \in Nat /\ x \in Nat
  BY <1>1, IdsAre, ZenonT(40)
<1>3. Passed(pos, callbacks, n, sent, c) /\ x % n = queryId
  BY Zenon DEF Numbered
<1>4. PICK k \in 1..n : /\ id = (x + k) % n /\ id \in Ids /\ callbacks[id] = 0
                        /\ \A y \in x+1..x+k-1 : callbacks[y % n] # 0
  BY <1>1, <1>2, <1>3, NextId, Zenon
<1>. HIDE DEF n, x, id, c
<1>5. \A i \in Ids : callbacks[i] # p
  <2>1. p # 0
    BY PoolAssumption
  <2>. QED  BY <2>1, Zenon DEF AnswerInv, AtWork
<1>6. callbacks' \in [0..n-1 -> Callers \cup {0}]
  BY <1>1, <1>2, <1>4, Zenon DEF id
<1>7. \A i \in 0..n-1 : IF i = id THEN callbacks'[i] \in {0, p} ELSE callbacks'[i] = callbacks[i]
  BY <1>1, <1>2, <1>4, Zenon DEF id
<1>8. \A i \in 0..n-1 : callbacks'[i] = p => i = id
  BY <1>2, <1>5, <1>7, Zenon
<1>9. \A i, j \in 0..n-1 : callbacks[i] = callbacks[j] /\ callbacks[i] # 0 => i = j
  <2>1. \A i \in 0..n-1 : callbacks[i] # 0 => pos[query[callbacks[i]]] % transport.ids = i
    BY <1>2, Zenon DEF Numbered
  <2>. QED  BY <2>1, Zenon
<1>10. \A i, j \in 0..n-1 : callbacks'[i] = callbacks'[j] /\ callbacks'[i] # 0 => i = j
  <2>. SUFFICES ASSUME NEW i \in 0..n-1, NEW j \in 0..n-1,
                       callbacks'[i] = callbacks'[j], callbacks'[i] # 0
                PROVE  i = j
    BY Zenon
  <2>1. CASE callbacks'[i] = p
    BY <1>8, <2>1, Zenon
  <2>2. CASE callbacks'[i] # p
    <3>1. callbacks'[i] = callbacks[i] /\ callbacks'[j] = callbacks[j]
      BY <1>7, <2>2, ZenonT(40)
    <3>. QED  BY <1>9, <3>1, Zenon
  <2>. QED  BY <2>1, <2>2
<1>11. x + k \in Nat
  BY <1>2
<1>12. Cardinality(Busy(callbacks', n, x + k + 1, x + k + n - 1)) < c
  <2>1. IsFiniteSet(Callers)
    BY TransportAssumption
  <2>2. \A i \in 0..n-1 : callbacks'[i] = p => i = (x + k) % n
    BY <1>4, <1>8, Zenon
  <2>. QED  BY <1>2, <1>6, <1>10, <1>11, <2>1, <2>2, OthersBusy, Zenon DEF c
<1>13. \A i \in 0..n-1 : i # (x + k) % n => callbacks'[i] = callbacks[i]
  BY <1>4, <1>7, Zenon
<1>. DEFINE new == [pos EXCEPT ![sent + 1] = x + k]
<1>14. Passed(new, callbacks', n, sent + 1, c)
  <2>1. \A y \in pos[sent]+1..pos[sent]+k-1 : callbacks[y % n] # 0
    BY <1>4, Zenon DEF x
  <2>2. \A i \in 0..n-1 : i # (pos[sent] + k) % n => callbacks'[i] = callbacks[i]
    BY <1>13, Zenon DEF x
  <2>3. Cardinality(Busy(callbacks', n, pos[sent] + k + 1, pos[sent] + k + n - 1)) < c
    BY <1>12, Zenon DEF x
  <2>4. Passed([pos EXCEPT ![sent + 1] = pos[sent] + k], callbacks', n, sent + 1, c)
    BY <1>1, <1>2, <1>3, <2>1, <2>2, <2>3, AdvancesPassed, Zenon
  <2>. QED  BY <2>4, Zenon DEF x
<1>15. new \in [Nat -> Nat] /\ new[sent + 1] = x + k /\ \A a \in 0..sent : new[a] = pos[a]
  BY <1>1, <1>11
<1>. HIDE DEF new
<1>. QED  BY <1>4, <1>14, <1>15, Zenon DEF n, id, c

\* Exchange of UDP, up to the select: a query is sent with the next free id.
LEMMA SendKeeps ==
  ASSUME AnswerInv, PoolInv, NEW p \in Callers, Send(p)
  PROVE  AnswerInv'
<1>. DEFINE c == call[p].conn
            id == nextAvailableQueryId
            m == [id |-> id, n |-> sent + 1]
<1>1. /\ kind = "udp" /\ step[p] = "acquire" /\ call[p].pc = "got" /\ FreeSteps # {}
      /\ UNCHANGED <<poolVars, transport, answer>>
      /\ callbacks' = [callbacks EXCEPT ![id] = p] /\ queryId' = id
      /\ sent' = sent + 1 /\ query' = [query EXCEPT ![p] = sent + 1]
      /\ wire' = [wire EXCEPT ![c] = @ \cup {m}] /\ step' = [step EXCEPT ![p] = "await"]
  BY Zenon DEF Send, Has, Number, Goto, conn
<1>2. UNCHANGED <<mode, call, dial, idle, kind, Ids>>
  BY <1>1, ZenonT(40) DEF poolVars, stateVars, fieldVars, dialVars, callVars, kind, Ids
<1>3. ExchangeTypes
  BY Zenon DEF AnswerInv
<1>4. c \in Conns /\ p # 0
  BY <1>1, PoolAssumption DEF PoolInv, Owned
<1>5. PICK pos \in [Nat -> Nat] : Numbered(pos)
  BY <1>1, ZenonT(40) DEF AnswerInv, OwnIds
<1>6. step[p] # "await"
  BY <1>1
<1>7. PICK new \in [Nat -> Nat] :
        /\ Passed(new, callbacks', transport.ids, sent + 1, Cardinality(Callers))
        /\ new[sent + 1] % transport.ids = id
        /\ \A a \in 0..sent : new[a] = pos[a]
  BY <1>1, <1>5, <1>6, NumbersOn, Zenon
<1>8. id \in Ids /\ callbacks[id] = 0
  <2>1. sent \in Nat /\ pos[sent] \in Nat /\ pos[sent] % transport.ids = queryId
    BY <1>3, <1>5 DEF ExchangeTypes, Numbered
  <2>. QED  BY <1>1, <1>3, <2>1, NextId, ZenonT(40)
<1>. HIDE DEF id, c
<1>9. /\ wire \in [Conns -> SUBSET [id : Ids, n : Nat]] /\ sent \in Nat
      /\ step \in [Callers -> {"ready", "acquire", "reset", "resetting", "await", "read", "again"}]
      /\ query \in [Callers -> Nat] /\ callbacks \in [Ids -> Callers \cup {0}]
  BY <1>3, Zenon DEF ExchangeTypes
<1>10. m \in [id : Ids, n : Nat] /\ m.id = id /\ m.n = sent + 1 /\ sent + 1 \in Nat
  <2>1. sent \in Nat
    BY <1>9, Zenon
  <2>2. sent + 1 \in Nat
    BY <2>1
  <2>. QED  BY <1>8, <2>2, Zenon
<1>. HIDE DEF m
<1>11. wire'[c] = wire[c] \cup {m} /\ \A d \in Conns \ {c} : wire'[d] = wire[d]
  BY <1>1, <1>4, <1>9, ZenonT(40)
<1>12. /\ step'[p] = "await" /\ query'[p] = sent + 1
       /\ \A q \in Callers \ {p} : step'[q] = step[q] /\ query'[q] = query[q]
  BY <1>1, <1>9, ZenonT(40)
<1>13. callbacks'[id] = p /\ \A i \in Ids \ {id} : callbacks'[i] = callbacks[i]
  BY <1>1, <1>8, <1>9, ZenonT(40)
<1>14. ExchangeTypes'
  <2>1. wire' \in [Conns -> SUBSET [id : Ids, n : Nat]] /\ sent' \in Nat
    BY <1>1, <1>4, <1>9, <1>10, ZenonT(40)
  <2>2. /\ step' \in [Callers -> {"ready", "acquire", "reset", "resetting", "await", "read", "again"}]
        /\ query' \in [Callers -> Nat] /\ callbacks' \in [Ids -> Callers \cup {0}] /\ queryId' \in Ids
    <3>1. step' \in [Callers -> {"ready", "acquire", "reset", "resetting", "await", "read", "again"}]
      BY <1>1, <1>9, ZenonT(40)
    <3>2. query' \in [Callers -> Nat]
      BY <1>1, <1>9, <1>10, ZenonT(40)
    <3>3. callbacks' \in [Ids -> Callers \cup {0}] /\ queryId' \in Ids
      BY <1>1, <1>8, <1>9, ZenonT(40)
    <3>. QED  BY <3>1, <3>2, <3>3, Zenon
  <2>. QED  BY <1>1, <1>2, <1>3, <2>1, <2>2, Zenon DEF ExchangeTypes
<1>15. answer[p] = 0 /\ \A i \in Ids : callbacks[i] # p
  <2>1. ~Waits(p)
    BY <1>1 DEF Waits
  <2>. QED  BY <1>4, <1>6, <2>1, ZenonT(40) DEF AnswerInv, AtWork
<1>16. AtWork'
  <2>1. \A q \in Callers : step'[q] \in {"await", "read"} =>
          call'[q].pc = "got" /\ kind' = IF step'[q] = "await" THEN "udp" ELSE "tls"
    <3>. TAKE q \in Callers
    <3>1. CASE q = p
      BY <1>1, <1>2, <1>12, <3>1, ZenonT(40)
    <3>2. CASE q # p
      BY <1>2, <1>12, <3>2, Zenon DEF AnswerInv, AtWork, Waits
    <3>. QED  BY <3>1, <3>2, ZenonT(40)
  <2>2. \A q \in Callers : answer'[q] # 0 => step'[q] \in {"await", "read"}
    BY <1>1, <1>12, <1>15, Zenon DEF AnswerInv, AtWork, Waits
  <2>3. \A i \in Ids : callbacks'[i] # 0 => step'[callbacks'[i]] = "await"
    <3>. SUFFICES ASSUME NEW i \in Ids, callbacks'[i] # 0 PROVE step'[callbacks'[i]] = "await"
      BY Zenon
    <3>1. CASE i = id
      BY <1>12, <1>13, <3>1, Zenon
    <3>2. CASE i # id
      <4>1. callbacks'[i] = callbacks[i] /\ callbacks[i] # 0
        BY <1>13, <3>2, Zenon
      <4>2. step[callbacks[i]] = "await" /\ callbacks[i] \in Callers
        BY <1>9, <4>1, ZenonT(40) DEF AnswerInv, AtWork
      <4>. QED  BY <1>12, <1>15, <4>1, <4>2, Zenon
    <3>. QED  BY <3>1, <3>2
  <2>. QED  BY <1>2, <2>1, <2>2, <2>3, Zenon DEF AtWork, Waits
<1>17. OwnConn'
  BY <1>1, <1>2 DEF OwnConn
<1>18. OwnIds'
  <2>1. \A a \in 1..sent : a \in 0..sent /\ a \in 1..sent+1 /\ ~(a > sent + 1) /\ a # sent + 1
    BY <1>9
  <2>2. sent + 1 \in 1..sent+1 /\ \A j \in 1..sent+1 : ~(j > sent + 1) /\ (j \in 1..sent \/ j = sent + 1)
    BY <1>9
  <2>3. ASSUME NEW d \in Conns, NEW o \in wire'[d]
        PROVE  o.n \in 1..sent+1 /\ o.id = new[o.n] % transport.ids
    <3>1. o = m \/ o \in wire[d]
      BY <1>11, <2>3, Zenon
    <3>2. CASE o = m
      BY <1>7, <1>10, <2>2, <3>2, Zenon
    <3>3. CASE o \in wire[d]
      BY <1>5, <1>7, <2>1, <3>3, ZenonT(40) DEF Numbered
    <3>. QED  BY <3>1, <3>2, <3>3
  <2>4. ASSUME NEW i \in Ids, callbacks'[i] # 0
        PROVE  /\ query'[callbacks'[i]] \in 1..sent+1
               /\ new[query'[callbacks'[i]]] % transport.ids = i
               /\ \A j \in 1..sent+1 : j > query'[callbacks'[i]] => new[j] % transport.ids # i
    <3>1. CASE i = id
      BY <1>7, <1>12, <1>13, <2>2, <3>1, Zenon
    <3>2. CASE i # id
      <4>1. callbacks'[i] = callbacks[i] /\ callbacks[i] # 0
        BY <1>13, <2>4, <3>2, ZenonT(40)
      <4>2. callbacks[i] \in Callers \ {p}
        BY <1>9, <1>15, <4>1
      <4>3. query'[callbacks'[i]] = query[callbacks[i]]
        BY <1>12, <4>1, <4>2, Zenon
      <4>4. /\ query[callbacks[i]] \in 1..sent
            /\ pos[query[callbacks[i]]] % transport.ids = i
            /\ \A j \in 1..sent : j > query[callbacks[i]] => pos[j] % transport.ids # i
        BY <1>5, <4>1, Zenon DEF Numbered
      <4>5. ASSUME NEW j \in 1..sent+1, j > query[callbacks[i]] PROVE new[j] % transport.ids # i
        <5>1. CASE j \in 1..sent
          BY <1>7, <2>1, <4>4, <4>5, <5>1, Zenon
        <5>2. CASE j = sent + 1
          BY <1>7, <3>2, <5>2, Zenon
        <5>. QED  BY <2>2, <5>1, <5>2, Zenon
      <4>6. new[query[callbacks[i]]] = pos[query[callbacks[i]]]
        BY <1>7, <2>1, <4>4, Zenon
      <4>. QED  BY <2>1, <4>3, <4>4, <4>5, <4>6, Zenon
    <3>. QED  BY <3>1, <3>2
  <2>5. Numbered(new)'
    BY <1>1, <1>2, <1>7, <2>3, <2>4, Zenon DEF Numbered
  <2>. QED  BY <2>5, Zenon DEF OwnIds
<1>19. AnswerIsOwn'
  <2>. SUFFICES ASSUME NEW q \in Callers, answer[q] # 0
                PROVE  \/ answer[q] = query'[q]
                       \/ query'[q] - answer[q] >= transport.ids - Cardinality(Callers) + 1
    BY <1>1, <1>2, Zenon DEF AnswerIsOwn
  <2>1. q # p /\ query'[q] = query[q]
    BY <1>12, <1>15, Zenon
  <2>. QED  BY <2>1, Zenon DEF AnswerInv, AnswerIsOwn
<1>. QED  BY <1>14, <1>16, <1>17, <1>18, <1>19, Zenon DEF AnswerInv

\* Exchange of UDP where the message is not packed or not written: the query has
\* used up its id, and the Exchange returns.
LEMMA SendFailsKeeps ==
  ASSUME AnswerInv, PoolInv, NEW p \in Callers, SendFails(p)
  PROVE  AnswerInv'
<1>. DEFINE id == nextAvailableQueryId
<1>1. /\ kind = "udp" /\ step[p] = "acquire" /\ call[p].pc = "got" /\ FreeSteps # {}
      /\ UNCHANGED <<transport, wire, callbacks>>
      /\ InvalidateUsed(p) \/ Leave(p)
      /\ queryId' = id /\ sent' = sent + 1
      /\ step' = [step EXCEPT ![p] = "ready"]
      /\ query' = [query EXCEPT ![p] = 0] /\ answer' = [answer EXCEPT ![p] = 0]
  BY Zenon DEF SendFails, Has, Quit, Goto
<1>2. UNCHANGED <<mode, kind, Ids>> /\ \A q \in Callers \ {p} : call'[q] = call[q]
  BY <1>1, OneCaller, Zenon DEF kind, Ids
<1>3. ExchangeTypes
  BY Zenon DEF AnswerInv
<1>4. PICK pos \in [Nat -> Nat] : Numbered(pos)
  BY <1>1, Zenon DEF AnswerInv, OwnIds
<1>5. step[p] # "await" /\ p # 0
  BY <1>1, PoolAssumption
<1>6. PICK new \in [Nat -> Nat] :
        /\ Passed(new, callbacks', transport.ids, sent + 1, Cardinality(Callers))
        /\ new[sent + 1] % transport.ids = id
        /\ \A a \in 0..sent : new[a] = pos[a]
  BY <1>1, <1>4, <1>5, NumbersOn, Zenon
<1>7. id \in Ids /\ callbacks[id] = 0
  <2>1. sent \in Nat /\ pos[sent] \in Nat /\ pos[sent] % transport.ids = queryId
    BY <1>3, <1>4 DEF ExchangeTypes, Numbered
  <2>. QED  BY <1>1, <1>3, <2>1, NextId, Zenon
<1>. HIDE DEF id
<1>8. /\ sent \in Nat /\ answer \in [Callers -> Nat]
      /\ step \in [Callers -> {"ready", "acquire", "reset", "resetting", "await", "read", "again"}]
      /\ query \in [Callers -> Nat] /\ callbacks \in [Ids -> Callers \cup {0}]
  BY <1>3, ZenonT(40) DEF ExchangeTypes
<1>9. /\ step'[p] = "ready" /\ answer'[p] = 0
      /\ \A q \in Callers \ {p} : step'[q] = step[q] /\ query'[q] = query[q] /\ answer'[q] = answer[q]
  BY <1>1, <1>8, ZenonT(40)
<1>10. ExchangeTypes'
  <2>1. sent' \in Nat /\ answer' \in [Callers -> Nat] /\ query' \in [Callers -> Nat]
    <3>1. sent \in Nat /\ answer \in [Callers -> Nat] /\ query \in [Callers -> Nat]
      BY <1>8, Zenon
    <3>2. sent' = sent + 1 /\ query' = [query EXCEPT ![p] = 0] /\ answer' = [answer EXCEPT ![p] = 0]
      BY <1>1, Zenon
    <3>. QED  BY <3>1, <3>2, SMTT(40)
  <2>2. step' \in [Callers -> {"ready", "acquire", "reset", "resetting", "await", "read", "again"}]
    BY <1>1, <1>8, ZenonT(40)
  <2>. QED  BY <1>1, <1>2, <1>3, <1>7, <2>1, <2>2, Zenon DEF ExchangeTypes
<1>11. \A i \in Ids : callbacks[i] # 0 => callbacks[i] \in Callers \ {p} /\ step[callbacks[i]] = "await"
  <2>. TAKE i \in Ids
  <2>. HAVE callbacks[i] # 0
  <2>1. callbacks[i] \in Callers
    BY <1>8
  <2>2. step[callbacks[i]] = "await"
    BY Zenon DEF AnswerInv, AtWork
  <2>. QED  BY <1>5, <2>1, <2>2, Zenon
<1>12. AtWork'
  <2>1. \A q \in Callers : step'[q] \in {"await", "read"} =>
          call'[q].pc = "got" /\ kind' = IF step'[q] = "await" THEN "udp" ELSE "tls"
    <3>. TAKE q \in Callers
    <3>1. CASE q = p
      BY <1>9, <3>1
    <3>2. CASE q # p
      <4>1. step'[q] = step[q] /\ call'[q] = call[q] /\ kind' = kind
        BY <1>2, <1>9, <3>2, Zenon
      <4>2. step[q] \in {"await", "read"} =>
              call[q].pc = "got" /\ kind = IF step[q] = "await" THEN "udp" ELSE "tls"
        BY Zenon DEF AnswerInv, AtWork, Waits
      <4>. QED  BY <4>1, <4>2, Zenon
    <3>. QED  BY <3>1, <3>2, Zenon
  <2>2. \A q \in Callers : answer'[q] # 0 => step'[q] \in {"await", "read"}
    BY <1>9, Zenon DEF AnswerInv, AtWork, Waits
  <2>3. \A i \in Ids : callbacks'[i] # 0 => step'[callbacks'[i]] = "await"
    BY <1>1, <1>9, <1>11, ZenonT(40)
  <2>. QED  BY <1>2, <2>1, <2>2, <2>3, Zenon DEF AtWork, Waits
<1>13. OwnConn'
  BY <1>1, <1>2, ZenonT(40) DEF OwnConn
<1>14. OwnIds'
  <2>1. \A a \in 1..sent : a \in 0..sent /\ a \in 1..sent+1
    BY <1>8
  <2>2. \A j \in 1..sent+1 : j \in 1..sent \/ j = sent + 1
    BY <1>8
  <2>3. ASSUME NEW d \in Conns, NEW o \in wire[d]
        PROVE  o.n \in 1..sent+1 /\ o.id = new[o.n] % transport.ids
    BY <1>4, <1>6, <2>1, <2>3, Zenon DEF Numbered
  <2>4. ASSUME NEW i \in Ids, callbacks[i] # 0
        PROVE  /\ query'[callbacks[i]] \in 1..sent+1
               /\ new[query'[callbacks[i]]] % transport.ids = i
               /\ \A j \in 1..sent+1 : j > query'[callbacks[i]] => new[j] % transport.ids # i
    <3>1. query'[callbacks[i]] = query[callbacks[i]]
      BY <1>9, <1>11, <2>4, Zenon
    <3>2. i # id
      BY <1>7, <2>4, Zenon
    <3>3. /\ query[callbacks[i]] \in 1..sent
          /\ pos[query[callbacks[i]]] % transport.ids = i
          /\ \A j \in 1..sent : j > query[callbacks[i]] => pos[j] % transport.ids # i
      BY <1>4, <2>4, Zenon DEF Numbered
    <3>4. ASSUME NEW j \in 1..sent+1, j > query[callbacks[i]] PROVE new[j] % transport.ids # i
      <4>1. CASE j \in 1..sent
        BY <1>6, <2>1, <3>3, <3>4, <4>1, Zenon
      <4>2. CASE j = sent + 1
        BY <1>6, <3>2, <4>2, Zenon
      <4>. QED  BY <2>2, <4>1, <4>2, Zenon
    <3>5. new[query[callbacks[i]]] = pos[query[callbacks[i]]]
      BY <1>6, <2>1, <3>3, Zenon
    <3>. QED  BY <2>1, <3>1, <3>3, <3>4, <3>5, Zenon
  <2>5. Numbered(new)'
    BY <1>1, <1>2, <1>6, <2>3, <2>4, Zenon DEF Numbered
  <2>. QED  BY <2>5, Zenon DEF OwnIds
<1>15. AnswerIsOwn'
  <2>. SUFFICES ASSUME NEW q \in Callers, answer'[q] # 0
                PROVE  \/ answer'[q] = query'[q]
                       \/ query'[q] - answer'[q] >= transport.ids - Cardinality(Callers) + 1
    BY <1>1, <1>2, Zenon DEF AnswerIsOwn
  <2>1. query'[q] = query[q] /\ answer'[q] = answer[q]
    BY <1>9, Zenon
  <2>. QED  BY <2>1, Zenon DEF AnswerInv, AnswerIsOwn
<1>. QED  BY <1>10, <1>12, <1>13, <1>14, <1>15, Zenon DEF AnswerInv

-----------------------------------------------------------------------------

\* At first there are no queries and no callbacks.
LEMMA AnswerStarts == Init => AnswerInv
<1>. SUFFICES ASSUME Init PROVE AnswerInv
  OBVIOUS
<1>. DEFINE pos == [n \in Nat |-> 0]
<1>1. ExchangeTypes
  <2>1. transport.ids \in Nat \ {0} /\ 0 \in Ids
    BY TransportAssumption DEF Init, Ids
  <2>. QED  BY <2>1 DEF Init, ExchangeTypes
<1>2. AtWork
  BY DEF Init, AtWork, Waits, Ids
<1>3. OwnConn
  BY DEF Init, OwnConn
<1>4. pos \in [Nat -> Nat] /\ pos[0] = 0 /\ pos[sent] = 0 /\ sent = 0
  BY DEF Init
<1>. HIDE DEF pos
<1>5. Passed(pos, callbacks, transport.ids, sent, Cardinality(Callers))
  <2>1. \A i, j \in 0..0 : ~(i < j)
    OBVIOUS
  <2>2. 1..0 = {}
    OBVIOUS
  <2>. QED  BY <1>4, <2>1, <2>2, Zenon DEF Passed
<1>6. 0 % transport.ids = 0
  BY <1>1, IdsAre
<1>7. \A i \in Ids : callbacks[i] = 0
  BY DEF Init
<1>8. \A c \in Conns : wire[c] = {}
  BY DEF Init
<1>9. queryId = 0
  BY DEF Init
<1>10. Numbered(pos)
  BY <1>4, <1>5, <1>6, <1>7, <1>8, <1>9, Zenon DEF Numbered
<1>11. OwnIds
  BY <1>4, <1>10, Zenon DEF OwnIds
<1>12. AnswerIsOwn
  BY DEF Init, AnswerIsOwn
<1>. QED  BY <1>1, <1>2, <1>3, <1>11, <1>12, Zenon DEF AnswerInv

\* Every step of the transports, of the pool and of the network keeps the
\* invariant.
LEMMA AnswerKeeps == AnswerInv /\ PoolInv /\ [Next]_vars => AnswerInv'
<1>. SUFFICES ASSUME AnswerInv, PoolInv, [Next]_vars PROVE AnswerInv'
  OBVIOUS
<1>1. CASE PoolStep
  BY <1>1, PoolStepSettles, Zenon
<1>2. ASSUME NEW p \in Callers, Ask(p) \/ TlsAnswer(p) PROVE AnswerInv'
  BY <1>2, BeginsSettle, TlsAnswerKeeps, Zenon
<1>3. ASSUME NEW p \in Callers, ExchangeStep(p) PROVE AnswerInv'
  <2>1. CASE ResetPool(p) \/ ResetDone(p) \/ TryAgain(p) \/ QuicRetry(p)
    BY <2>1, BeginsSettle, EndsSettle, Zenon
  <2>2. CASE NoFreeId(p) \/ Answered(p) \/ ConnFailed(p) \/ TlsRelease(p) \/ TlsFail(p) \/ QuicEnd(p)
    BY <2>2, EndsSettle, Zenon
  <2>3. CASE Send(p) \/ SendFails(p) \/ TlsWrite(p)
    BY <2>3, SendKeeps, SendFailsKeeps, TlsWriteKeeps, Zenon
  <2>. QED  BY <1>3, <2>1, <2>2, <2>3, Zenon DEF ExchangeStep
<1>4. CASE \/ \E p \in Callers : DeadlineCloses(p)
           \/ \E c \in Conns : ReceiveFails(c)
           \/ Environment
           \/ UNCHANGED vars
  BY <1>4, OthersSettle, Zenon
<1>5. ASSUME NEW c \in Conns, NEW m \in wire[c], Receive(c, m) PROVE AnswerInv'
  BY <1>5, ReceiveKeeps, Zenon
<1>. QED  BY <1>1, <1>2, <1>3, <1>4, <1>5, Zenon DEF Next

\* With any finite number of callers and any number of ids, an answer belongs to
\* the query of the Exchange that takes it: on TLS always, on UDP unless it is a
\* late one to a query of at least ids - |Callers| + 1 queries before, the wrap of
\* the 16-bit ids (udp.go:103, tls.go:134).
THEOREM AnswersAreOwn == Spec => []AnswerIsOwn
<1>1. Spec => []PoolInv
  BY TransportsUsePool, PoolInvariant, PTL DEF UsesPool
<1>2. AnswerInv => AnswerIsOwn
  BY DEF AnswerInv
<1>. QED  BY <1>1, <1>2, AnswerStarts, AnswerKeeps, PTL DEF Spec

=============================================================================
