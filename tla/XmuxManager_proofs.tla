------------------------- MODULE XmuxManager_proofs -------------------------
(***************************************************************************)
(* Proofs about XmuxManager for any number of clients, dials and resets.   *)
(*                                                                         *)
(* The pool properties need only the steps that touch the pool             *)
(* (PoolSteps).  The properties about streams and POSTs rest on the exact  *)
(* meaning of the two counters of a client: OpenUsage is the number of     *)
(* dials counted on it, inflightPosts the number of its POSTs.             *)
(***************************************************************************)
EXTENDS XmuxManager, FiniteSetTheorems, TLAPS

\* TypeOK with counters that may be negative.
TypeInt ==
  /\ xmuxClients \subseteq Clients /\ retired \subseteq Clients
  /\ closePlanned \subseteq Clients /\ reaped \subseteq Clients /\ born \subseteq Clients
  /\ IsClosed \subseteq Clients /\ unreusable \subseteq Clients /\ recent \subseteq Clients
  /\ OpenUsage \in [Clients -> Int] /\ inflightPosts \in [Clients -> Int]
  /\ leftUsage \in [Clients -> Int] /\ LeftRequests \in [Clients -> Int]
  /\ pc \in [Dials -> {"start", "get2", "count", "open", "conn", "failed", "sweep", "done"}]
  /\ cl1 \in [Dials -> Clients \cup {Null}] /\ cl2 \in [Dials -> Clients \cup {Null}]
  /\ lpc \in [Dials -> {"off", "read", "rotate", "post", "ended"}]
  /\ dyn \in [Dials -> Clients \cup {Null}]
  /\ sent \in [Dials -> Nat]
  /\ posts \subseteq Dials \X Nat \X Clients
  /\ interrupted \subseteq Dials
  /\ closes \in [Clients -> Nat]
  /\ toClose \in [Threads -> SUBSET Clients]
  /\ resetDone \subseteq Resetters

\* A dial past its hand-outs has its clients, and so has a running loop.
HasClients ==
  \A d \in Dials :
    /\ pc[d] # "start" => cl1[d] \in Clients
    /\ pc[d] \notin {"start", "get2"} => cl2[d] \in Clients
    /\ lpc[d] # "off" => dyn[d] \in Clients

LEMMA AddToType ==
  ASSUME NEW f \in [Clients -> Int], NEW cs, NEW k \in Int
  PROVE  /\ AddTo(f, cs, k) \in [Clients -> Int]
         /\ \A c \in Clients : AddTo(f, cs, k)[c] = IF c \in cs THEN f[c] + k ELSE f[c]
  BY DEF AddTo

LEMMA ThreadsOf ==
  /\ \A d \in Dials : Dial(d) \in Threads /\ Loop(d) \in Threads
  /\ \A r \in Resetters : <<r, "reset">> \in Threads
  BY DEF Dial, Loop, Threads

LEMMA GetType ==
  ASSUME TypeInt, NEW t \in Threads, NEW c \in Clients, GetXmuxClient(t, c)
  PROVE  /\ xmuxClients' \subseteq Clients /\ retired' \subseteq Clients
         /\ closePlanned' \subseteq Clients /\ reaped' \subseteq Clients /\ born' \subseteq Clients
         /\ IsClosed' \subseteq Clients /\ unreusable' \subseteq Clients /\ recent' \subseteq Clients
         /\ OpenUsage' \in [Clients -> Int] /\ inflightPosts' \in [Clients -> Int]
         /\ leftUsage' \in [Clients -> Int] /\ LeftRequests' \in [Clients -> Int]
         /\ closes' \in [Clients -> Nat]
         /\ toClose' \in [Threads -> SUBSET Clients]
         /\ resetDone' \subseteq Resetters
<1> USE DEF TypeInt, countVars
<1>1. Kept \subseteq Clients /\ Pruned \subseteq Clients /\ Eligible \subseteq Clients
  BY DEF Kept, Pruned, Eligible
<1>2. /\ retired' \subseteq Clients /\ closePlanned' \subseteq Clients /\ reaped' \subseteq Clients
      /\ toClose' \in [Threads -> SUBSET Clients]
  BY <1>1 DEF GetXmuxClient, sweepRetiredLocked
<1>3. CASE newXmuxClient(c)
  BY <1>1, <1>2, <1>3, OptionAssumption DEF GetXmuxClient, newXmuxClient, MaxInt32
<1>4. CASE pickXmuxClient(c)
  BY <1>1, <1>2, <1>4 DEF GetXmuxClient, pickXmuxClient
<1>5. QED
  BY <1>3, <1>4 DEF GetXmuxClient

LEMMA TypeStep ==
  ASSUME TypeInt, HasClients, [Next]_vars
  PROVE  TypeInt' /\ HasClients'
<1> USE ThreadsOf
<1> USE DEF poolVars, flagVars, countVars, limitVars, dialVars, loopVars, closeVars
<1>1. CASE UNCHANGED vars
  BY <1>1 DEF vars, TypeInt, HasClients
<1>2. ASSUME NEW d \in Dials, DialGet(d) PROVE TypeInt' /\ HasClients'
  <2>1. PICK c \in Clients : GetXmuxClient(Dial(d), c) /\ cl1' = [cl1 EXCEPT ![d] = c]
    BY <1>2, Zenon DEF DialGet
  <2>2. QED
    BY <1>2, <2>1, GetType DEF DialGet, TypeInt, HasClients
<1>3. ASSUME NEW d \in Dials, DialGet2(d) PROVE TypeInt' /\ HasClients'
  <2>1. PICK c \in Clients : GetXmuxClient(Dial(d), c) /\ cl2' = [cl2 EXCEPT ![d] = c]
    BY <1>3, Zenon DEF DialGet2
  <2>2. QED
    BY <1>3, <2>1, GetType DEF DialGet2, TypeInt, HasClients
<1>4. ASSUME NEW d \in Dials, DialCount(d) PROVE TypeInt' /\ HasClients'
  <2>1. OpenUsage' \in [Clients -> Int]
    BY <1>4, AddToType DEF DialCount, TypeInt
  <2>2. QED
    BY <1>4, <2>1, Zenon DEF DialCount, TypeInt, HasClients
<1>5. ASSUME NEW d \in Dials, DialOpen(d) \/ DialFails(d) PROVE TypeInt' /\ HasClients'
  <2>1. Charged(d) \in [Clients -> Int]
    BY AddToType, OptionAssumption DEF Charged, TypeInt, Modes
  <2>2. CASE DialOpen(d)
    BY <2>1, <2>2 DEF DialOpen, TypeInt, HasClients
  <2>3. CASE DialFails(d)
    BY <2>1, <2>3 DEF DialFails, TypeInt, HasClients
  <2>4. QED
    BY <1>5, <2>2, <2>3
<1>6. ASSUME NEW d \in Dials, CloseConn(d) PROVE TypeInt' /\ HasClients'
  <2>1. OpenUsage' \in [Clients -> Int]
    BY <1>6, AddToType DEF CloseConn, TypeInt
  <2>2. QED
    BY <1>6, <2>1, Zenon DEF CloseConn, TypeInt, HasClients
<1>7. ASSUME NEW d \in Dials, SweepRetired(d) PROVE TypeInt' /\ HasClients'
  BY <1>7 DEF SweepRetired, sweepRetiredLocked, TypeInt, HasClients
<1>8. ASSUME NEW d \in Dials, StreamFails(d) PROVE TypeInt' /\ HasClients'
  BY <1>8 DEF StreamFails, TypeInt, HasClients
<1>9. ASSUME NEW d \in Dials, LoopRead(d) PROVE TypeInt' /\ HasClients'
  <2>1. LeftRequests' \in [Clients -> Int]
    BY <1>9, AddToType DEF LoopRead, TypeInt
  <2>2. QED
    BY <1>9, <2>1, Zenon DEF LoopRead, TypeInt, HasClients
<1>10. ASSUME NEW d \in Dials, LoopRotate(d) PROVE TypeInt' /\ HasClients'
  <2>1. PICK c \in Clients : GetXmuxClient(Loop(d), c) /\ dyn' = [dyn EXCEPT ![d] = c]
    BY <1>10, Zenon DEF LoopRotate
  <2>2. QED
    BY <1>10, <2>1, GetType DEF LoopRotate, TypeInt, HasClients
<1>11. ASSUME NEW d \in Dials, LoopPost(d) PROVE TypeInt' /\ HasClients'
  <2>1. inflightPosts' \in [Clients -> Int]
    BY <1>11, AddToType DEF LoopPost, TypeInt
  <2>2. dyn[d] \in Clients /\ sent[d] \in Nat
    BY <1>11 DEF LoopPost, TypeInt, HasClients
  <2>3. posts' \subseteq Dials \X Nat \X Clients
    BY <1>11, <2>2 DEF LoopPost, TypeInt
  <2>4. sent' \in [Dials -> Nat] /\ lpc' \in [Dials -> {"off", "read", "rotate", "post", "ended"}]
    BY <1>11, <2>2 DEF LoopPost, TypeInt
  <2>5. HasClients'
    BY <1>11 DEF LoopPost, TypeInt, HasClients
  <2>6. QED
    BY <1>11, <2>1, <2>3, <2>4, <2>5, Zenon DEF LoopPost, TypeInt
<1>12. ASSUME NEW d \in Dials, LoopEnds(d) PROVE TypeInt' /\ HasClients'
  BY <1>12, Zenon DEF LoopEnds, TypeInt, HasClients
<1>13. ASSUME NEW p \in posts, PostOK(p) \/ PostFails(p) PROVE TypeInt' /\ HasClients'
  <2>1. inflightPosts' \in [Clients -> Int]
    BY <1>13, AddToType DEF PostOK, PostFails, PostReturns, TypeInt
  <2>2. p[1] \in Dials /\ p[3] \in Clients
    BY DEF TypeInt
  <2>3. QED
    BY <1>13, <2>1, <2>2 DEF PostOK, PostFails, PostReturns, TypeInt, HasClients
<1>14. ASSUME NEW t \in Threads, NEW c \in Clients, CloseClient(t, c) PROVE TypeInt' /\ HasClients'
  BY <1>14 DEF CloseClient, TypeInt, HasClients
<1>15. ASSUME NEW r \in Resetters, Reset(r) PROVE TypeInt' /\ HasClients'
  BY <1>15 DEF Reset, TypeInt, HasClients
<1>16. ASSUME NEW c \in Clients, GraceEnds(c) \/ Expire(c) PROVE TypeInt' /\ HasClients'
  BY <1>16 DEF GraceEnds, Expire, TypeInt, HasClients
<1>17. QED
  BY <1>1, <1>2, <1>3, <1>4, <1>5, <1>6, <1>7, <1>8, <1>9, <1>10, <1>11, <1>12,
     <1>13, <1>14, <1>15, <1>16 DEF Next, DialNext, LoopNext

-----------------------------------------------------------------------------
(* The pool *)

\* The steps that touch the pool or the closing of clients.
LEMMA PoolSteps ==
  ASSUME Next
  PROVE  \/ UNCHANGED <<poolVars, closeVars>>
         \/ \E t \in Threads, c \in Clients : GetXmuxClient(t, c)
         \/ \E t \in Threads : /\ sweepRetiredLocked(t, retired)
                               /\ UNCHANGED <<xmuxClients, born, closes>>
         \/ \E t \in Threads, c \in Clients : CloseClient(t, c)
         \/ \E r \in Resetters : Reset(r)
<1> USE DEF closeVars
<1>1. ASSUME NEW d \in Dials, DialGet(d) \/ DialGet2(d) \/ LoopRotate(d)
      PROVE  \E t \in Threads, c \in Clients : GetXmuxClient(t, c)
  BY <1>1, ThreadsOf DEF DialGet, DialGet2, LoopRotate
<1>2. ASSUME NEW d \in Dials, SweepRetired(d)
      PROVE  \E t \in Threads : /\ sweepRetiredLocked(t, retired)
                                /\ UNCHANGED <<xmuxClients, born, closes>>
  BY <1>2, ThreadsOf, Zenon DEF SweepRetired
<1>3. ASSUME NEW d \in Dials,
             \/ DialCount(d) \/ DialOpen(d) \/ DialFails(d) \/ CloseConn(d) \/ StreamFails(d)
             \/ LoopRead(d) \/ LoopPost(d) \/ LoopEnds(d)
      PROVE  UNCHANGED <<poolVars, closeVars>>
  BY <1>3, Zenon DEF DialCount, DialOpen, DialFails, CloseConn, StreamFails, LoopRead, LoopPost, LoopEnds
<1>4. ASSUME NEW p \in posts, PostOK(p) \/ PostFails(p)
      PROVE  UNCHANGED <<poolVars, closeVars>>
  BY <1>4, Zenon DEF PostOK, PostFails, PostReturns
<1>5. ASSUME NEW c \in Clients, GraceEnds(c) \/ Expire(c)
      PROVE  UNCHANGED <<poolVars, closeVars>>
  BY <1>5 DEF GraceEnds, Expire
<1>6. QED
  BY <1>1, <1>2, <1>3, <1>4, <1>5 DEF Next, DialNext, LoopNext

LEMMA AccountedStep ==
  ASSUME TypeInt, Accounted, [Next]_vars
  PROVE  Accounted'
<1>1. CASE UNCHANGED <<poolVars, closeVars>> \/ UNCHANGED vars
  BY <1>1 DEF vars, poolVars, Accounted
<1>2. ASSUME NEW t \in Threads, NEW c \in Clients, GetXmuxClient(t, c) PROVE Accounted'
  <2>1. CASE newXmuxClient(c)
    BY <1>2, <2>1 DEF GetXmuxClient, sweepRetiredLocked, newXmuxClient, Accounted, Kept, Pruned
  <2>2. CASE pickXmuxClient(c)
    BY <1>2, <2>2 DEF GetXmuxClient, sweepRetiredLocked, pickXmuxClient, Accounted, Kept, Pruned
  <2>3. QED
    BY <1>2, <2>1, <2>2 DEF GetXmuxClient
<1>3. ASSUME NEW t \in Threads, sweepRetiredLocked(t, retired), UNCHANGED <<xmuxClients, born, closes>>
      PROVE  Accounted'
  BY <1>3 DEF sweepRetiredLocked, Accounted
<1>4. ASSUME NEW t \in Threads, NEW c \in Clients, CloseClient(t, c) PROVE Accounted'
  BY <1>4 DEF CloseClient, Accounted, poolVars
<1>5. ASSUME NEW r \in Resetters, Reset(r) PROVE Accounted'
  BY <1>5 DEF Reset, Accounted
<1>6. QED
  BY <1>1, <1>2, <1>3, <1>4, <1>5, PoolSteps

\* What ClosedOnce needs: a client is on the list of one thread at most,
\* only when its close is planned, and only until it is closed.
CloseOwned ==
  \A c \in Clients :
    /\ closes[c] <= 1
    /\ closes[c] # 0 => c \in closePlanned
    /\ \A t \in Threads : c \in toClose[t] => c \in closePlanned /\ closes[c] = 0
    /\ \A t, u \in Threads : c \in toClose[t] /\ c \in toClose[u] => t = u

\* A thread that takes unplanned clients for closing keeps CloseOwned.
LEMMA TakesOwned ==
  ASSUME TypeInt, CloseOwned, NEW t \in Threads, NEW free \in SUBSET Clients,
         free \cap closePlanned = {},
         closePlanned' = closePlanned \cup free,
         toClose' = [toClose EXCEPT ![t] = free],
         closes' = closes
  PROVE  CloseOwned'
  BY DEF TypeInt, CloseOwned

LEMMA CloseOwnedStep ==
  ASSUME TypeInt, Accounted, CloseOwned, [Next]_vars
  PROVE  CloseOwned'
<1>1. CASE UNCHANGED <<poolVars, closeVars>> \/ UNCHANGED vars
  BY <1>1 DEF vars, poolVars, closeVars, CloseOwned
<1>2. ASSUME NEW t \in Threads, NEW c \in Clients, GetXmuxClient(t, c) PROVE CloseOwned'
  <2> DEFINE free == {x \in retired \cup Pruned : idleLocked(x)}
  <2>1. free \in SUBSET Clients /\ free \cap closePlanned = {}
    BY DEF TypeInt, Pruned, idleLocked
  <2>2. closePlanned' = closePlanned \cup free /\ toClose' = [toClose EXCEPT ![t] = free] /\ closes' = closes
    BY <1>2 DEF GetXmuxClient, sweepRetiredLocked
  <2>3. QED
    BY <2>1, <2>2, TakesOwned, Zenon
<1>3. ASSUME NEW t \in Threads, sweepRetiredLocked(t, retired), UNCHANGED <<xmuxClients, born, closes>>
      PROVE  CloseOwned'
  <2> DEFINE free == {x \in retired : idleLocked(x)}
  <2>1. free \in SUBSET Clients /\ free \cap closePlanned = {}
    BY DEF TypeInt, idleLocked
  <2>2. closePlanned' = closePlanned \cup free /\ toClose' = [toClose EXCEPT ![t] = free] /\ closes' = closes
    BY <1>3 DEF sweepRetiredLocked
  <2>3. QED
    BY <2>1, <2>2, TakesOwned, Zenon
<1>4. ASSUME NEW t \in Threads, NEW c \in Clients, CloseClient(t, c) PROVE CloseOwned'
  BY <1>4 DEF CloseClient, CloseOwned, TypeInt, poolVars
<1>5. ASSUME NEW r \in Resetters, Reset(r) PROVE CloseOwned'
  <2>1. xmuxClients \cup retired \in SUBSET Clients
    BY DEF TypeInt
  <2>2. (xmuxClients \cup retired) \cap closePlanned = {}
    BY DEF Accounted
  <2>3. /\ closePlanned' = closePlanned \cup (xmuxClients \cup retired)
        /\ toClose' = [toClose EXCEPT ![<<r, "reset">>] = xmuxClients \cup retired]
        /\ closes' = closes
    BY <1>5 DEF Reset
  <2>4. QED
    BY <2>1, <2>2, <2>3, ThreadsOf, TakesOwned, Zenon
<1>6. QED
  BY <1>1, <1>2, <1>3, <1>4, <1>5, PoolSteps, Zenon

LEMMA PoolBoundedStep ==
  ASSUME TypeInt, PoolBounded, [Next]_vars
  PROVE  PoolBounded'
<1> SUFFICES ASSUME Concurrency = 0
             PROVE  Cardinality(xmuxClients') <= IF Connections > 0 THEN Connections ELSE 1
  BY DEF PoolBounded
<1> DEFINE bound == IF Connections > 0 THEN Connections ELSE 1
<1>a. bound \in Nat
  BY OptionAssumption
<1>b. IsFiniteSet(xmuxClients) /\ Cardinality(xmuxClients) <= bound
  BY FiniteAssumption, FS_Subset DEF TypeInt, PoolBounded
<1>1. CASE xmuxClients' = xmuxClients
  BY <1>1, <1>b
<1>2. ASSUME NEW t \in Threads, NEW c \in Clients, GetXmuxClient(t, c)
      PROVE  Cardinality(xmuxClients') <= bound
  <2>1. /\ IsFiniteSet(Kept) /\ Cardinality(Kept) \in Nat
        /\ Cardinality(Kept) <= Cardinality(xmuxClients) /\ Cardinality(xmuxClients) \in Nat
    BY <1>b, FS_Subset, FS_CardinalityType DEF Kept
  <2>2. CASE NeedsNew
    <3>1. Kept = {} \/ (Connections > 0 /\ Cardinality(Kept) < Connections)
      BY <2>2 DEF NeedsNew, Eligible
    <3>2. Cardinality(Kept) < bound
      BY <3>1, <2>1, FS_EmptySet, OptionAssumption
    <3>3. Cardinality(Kept \cup {c}) <= Cardinality(Kept) + 1
      <4>1. Cardinality(Kept \cup {c}) = IF c \in Kept THEN Cardinality(Kept) ELSE Cardinality(Kept) + 1
        BY <2>1, FS_AddElement, Zenon
      <4>2. CASE c \in Kept
        BY <4>1, <4>2, <2>1
      <4>3. CASE c \notin Kept
        BY <4>1, <4>3, <2>1
      <4>4. QED
        BY <4>2, <4>3
    <3>4. xmuxClients' = Kept \cup {c}
      BY <1>2, <2>2 DEF GetXmuxClient, newXmuxClient
    <3>5. IsFiniteSet(Kept \cup {c}) /\ Cardinality(Kept \cup {c}) \in Nat
      BY <2>1, FS_AddElement, FS_CardinalityType
    <3>6. QED
      BY <3>2, <3>3, <3>4, <3>5, <2>1, <1>a
  <2>3. CASE ~NeedsNew
    <3>1. xmuxClients' = Kept
      BY <1>2, <2>3 DEF GetXmuxClient, pickXmuxClient
    <3>2. QED
      BY <3>1, <2>1, <1>a, <1>b
  <2>4. QED
    BY <2>2, <2>3
<1>3. ASSUME NEW r \in Resetters, Reset(r)
      PROVE  Cardinality(xmuxClients') <= bound
  BY <1>3, <1>a, FS_EmptySet, OptionAssumption DEF Reset
<1>4. QED
  BY <1>1, <1>2, <1>3, PoolSteps DEF vars, poolVars, CloseClient

-----------------------------------------------------------------------------
(* The counters *)

\* The dials that OpenUsage counts.  One that failed stays counted.
CountedPcs == {"open", "conn", "failed"}
Holders(c) == {d \in Dials : pc[d] \in CountedPcs /\ (c = cl1[d] \/ c = cl2[d])}
UsageExact == \A c \in Clients : OpenUsage[c] = Cardinality(Holders(c))

PostsOn(c) == {p \in posts : p[3] = c}
InflightExact ==
  /\ IsFiniteSet(posts)
  /\ \A p \in posts : p[2] < sent[p[1]]
  /\ \A c \in Clients : inflightPosts[c] = Cardinality(PostsOn(c))

LEMMA HoldersFinite ==
  ASSUME NEW c
  PROVE  IsFiniteSet(Holders(c)) /\ Cardinality(Holders(c)) \in Nat
  BY FiniteAssumption, FS_Subset, FS_CardinalityType DEF Holders

LEMMA PostsFinite ==
  ASSUME InflightExact, NEW c
  PROVE  IsFiniteSet(PostsOn(c)) /\ Cardinality(PostsOn(c)) \in Nat
  BY FS_Subset, FS_CardinalityType DEF PostsOn, InflightExact

\* A step that neither counts a dial nor ends one keeps UsageExact.
LEMMA SameHolders ==
  ASSUME UsageExact, OpenUsage' = OpenUsage,
         \A d \in Dials : /\ pc'[d] \in CountedPcs <=> pc[d] \in CountedPcs
                          /\ pc[d] \in CountedPcs => cl1'[d] = cl1[d] /\ cl2'[d] = cl2[d]
  PROVE  UsageExact'
<1>1. ASSUME NEW c \in Clients PROVE Holders(c)' = Holders(c)
  BY Zenon DEF Holders
<1>2. QED
  BY <1>1 DEF UsageExact

LEMMA UsageStep ==
  ASSUME TypeInt, HasClients, UsageExact, [Next]_vars
  PROVE  UsageExact'
<1> USE DEF countVars, dialVars
<1>1. CASE UNCHANGED <<OpenUsage, dialVars>>
  BY <1>1, SameHolders
<1>2. ASSUME NEW d \in Dials,
             DialGet(d) \/ DialGet2(d) \/ DialOpen(d) \/ DialFails(d) \/ SweepRetired(d)
      PROVE  UsageExact'
  <2>1. OpenUsage' = OpenUsage
    BY <1>2, Zenon DEF DialGet, DialGet2, DialOpen, DialFails, SweepRetired, GetXmuxClient
  <2>2. CASE DialGet(d)
    BY <2>1, <2>2, SameHolders, Zenon DEF DialGet, TypeInt, CountedPcs
  <2>3. CASE DialGet2(d)
    BY <2>1, <2>3, SameHolders, Zenon DEF DialGet2, TypeInt, CountedPcs
  <2>4. CASE DialOpen(d)
    BY <2>1, <2>4, SameHolders, Zenon DEF DialOpen, TypeInt, CountedPcs
  <2>5. CASE DialFails(d)
    BY <2>1, <2>5, SameHolders DEF DialFails, TypeInt, CountedPcs
  <2>6. CASE SweepRetired(d)
    BY <2>1, <2>6, SameHolders DEF SweepRetired, TypeInt, CountedPcs
  <2>7. QED
    BY <1>2, <2>2, <2>3, <2>4, <2>5, <2>6, Zenon
<1>3. ASSUME NEW d \in Dials, DialCount(d) PROVE UsageExact'
  <2> SUFFICES ASSUME NEW c \in Clients PROVE OpenUsage'[c] = Cardinality(Holders(c)')
    BY DEF UsageExact
  <2>1. OpenUsage[c] = Cardinality(Holders(c)) /\ Cardinality(Holders(c)) \in Nat /\ IsFiniteSet(Holders(c))
    BY HoldersFinite, Zenon DEF UsageExact
  <2>2. d \notin Holders(c)
    BY <1>3, Zenon DEF DialCount, Holders, CountedPcs
  <2>3. OpenUsage'[c] = IF c \in {cl1[d], cl2[d]} THEN OpenUsage[c] + 1 ELSE OpenUsage[c]
    BY <1>3, AddToType, SMTT(30) DEF DialCount, TypeInt
  <2>4. CASE c \in {cl1[d], cl2[d]}
    <3>1. Holders(c)' = Holders(c) \cup {d}
      BY <1>3, <2>4 DEF DialCount, Holders, CountedPcs, TypeInt
    <3>2. Cardinality(Holders(c)') = Cardinality(Holders(c)) + 1
      BY <3>1, <2>1, <2>2, FS_AddElement, Zenon
    <3>3. QED
      BY <3>2, <2>1, <2>3, <2>4, Zenon
  <2>5. CASE c \notin {cl1[d], cl2[d]}
    <3>1. Holders(c)' = Holders(c)
      BY <1>3, <2>5 DEF DialCount, Holders, CountedPcs, TypeInt
    <3>2. QED
      BY <3>1, <2>1, <2>3, <2>5
  <2>6. QED
    BY <2>4, <2>5, Zenon
<1>4. ASSUME NEW d \in Dials, CloseConn(d) PROVE UsageExact'
  <2> SUFFICES ASSUME NEW c \in Clients PROVE OpenUsage'[c] = Cardinality(Holders(c)')
    BY DEF UsageExact
  <2>1. OpenUsage[c] = Cardinality(Holders(c)) /\ Cardinality(Holders(c)) \in Nat /\ IsFiniteSet(Holders(c))
    BY HoldersFinite DEF UsageExact
  <2>3. OpenUsage'[c] = IF c \in {cl1[d], cl2[d]} THEN OpenUsage[c] + (-1) ELSE OpenUsage[c]
    BY <1>4, AddToType DEF CloseConn, TypeInt
  <2>4. CASE c \in {cl1[d], cl2[d]}
    <3>1. Holders(c)' = Holders(c) \ {d} /\ d \in Holders(c)
      BY <1>4, <2>4 DEF CloseConn, Holders, CountedPcs, TypeInt
    <3>2. Cardinality(Holders(c)') = Cardinality(Holders(c)) - 1
      BY <3>1, <2>1, FS_RemoveElement, SMTT(30)
    <3>3. QED
      BY <3>2, <2>1, <2>3, <2>4, Zenon
  <2>5. CASE c \notin {cl1[d], cl2[d]}
    <3>1. Holders(c)' = Holders(c)
      BY <1>4, <2>5 DEF CloseConn, Holders, CountedPcs, TypeInt
    <3>2. QED
      BY <3>1, <2>1, <2>3, <2>5
  <2>6. QED
    BY <2>4, <2>5
<1>5. ASSUME NEW d \in Dials, StreamFails(d) \/ LoopNext(d) PROVE UNCHANGED <<OpenUsage, dialVars>>
  BY <1>5, Zenon DEF StreamFails, LoopNext, LoopRead, LoopRotate, LoopPost, LoopEnds, GetXmuxClient
<1>6. ASSUME NEW p \in posts, PostOK(p) \/ PostFails(p) PROVE UNCHANGED <<OpenUsage, dialVars>>
  BY <1>6, Zenon DEF PostOK, PostFails, PostReturns
<1>7. ASSUME NEW t \in Threads, NEW c \in Clients, CloseClient(t, c) PROVE UNCHANGED <<OpenUsage, dialVars>>
  BY <1>7 DEF CloseClient
<1>8. ASSUME NEW r \in Resetters, Reset(r) PROVE UNCHANGED <<OpenUsage, dialVars>>
  BY <1>8 DEF Reset
<1>9. ASSUME NEW c \in Clients, GraceEnds(c) \/ Expire(c) PROVE UNCHANGED <<OpenUsage, dialVars>>
  BY <1>9 DEF GraceEnds, Expire
<1>10. CASE UNCHANGED vars
  BY <1>1, <1>10 DEF vars
<1>11. QED
  BY <1>1, <1>2, <1>3, <1>4, <1>5, <1>6, <1>7, <1>8, <1>9, <1>10 DEF Next, DialNext

LEMMA InflightStep ==
  ASSUME TypeInt, HasClients, InflightExact, [Next]_vars
  PROVE  InflightExact'
<1> USE DEF countVars, loopVars
<1>1. CASE UNCHANGED <<inflightPosts, posts, sent>>
  BY <1>1, Zenon DEF InflightExact, PostsOn
<1>2. ASSUME NEW d \in Dials, LoopPost(d) PROVE InflightExact'
  <2> DEFINE new == <<d, sent[d], dyn[d]>>
  <2>1. dyn[d] \in Clients /\ sent[d] \in Nat
    BY <1>2, Zenon DEF LoopPost, TypeInt, HasClients
  <2>2. new \notin posts
    BY <2>1, SMTT(30) DEF InflightExact
  <2>3. posts' = posts \cup {new} /\ sent' = [sent EXCEPT ![d] = sent[d] + 1]
    BY <1>2, Zenon DEF LoopPost
  <2>4. IsFiniteSet(posts')
    BY <2>3, FS_AddElement, Zenon DEF InflightExact
  <2>5. \A p \in posts' : p[2] < sent'[p[1]]
    <3> SUFFICES ASSUME NEW p \in posts' PROVE p[2] < sent'[p[1]]
      OBVIOUS
    <3>1. CASE p = new
      BY <3>1, <2>1, <2>3 DEF TypeInt
    <3>2. CASE p \in posts
      <4>1. p[1] \in Dials /\ p[2] \in Nat /\ p[2] < sent[p[1]] /\ sent[p[1]] \in Nat
        BY <3>2 DEF TypeInt, InflightExact
      <4>2. QED
        BY <4>1, <2>1, <2>3 DEF TypeInt
    <3>3. QED
      BY <3>1, <3>2, <2>3
  <2>6. ASSUME NEW c \in Clients PROVE inflightPosts'[c] = Cardinality(PostsOn(c)')
    <3>1. inflightPosts[c] = Cardinality(PostsOn(c)) /\ Cardinality(PostsOn(c)) \in Nat /\ IsFiniteSet(PostsOn(c))
      BY PostsFinite, Zenon DEF InflightExact
    <3>2. inflightPosts'[c] = IF c \in {dyn[d]} THEN inflightPosts[c] + 1 ELSE inflightPosts[c]
      BY <1>2, AddToType, SMTT(30) DEF LoopPost, TypeInt
    <3>3. CASE c = dyn[d]
      <4>1. PostsOn(c)' = PostsOn(c) \cup {new} /\ new \notin PostsOn(c)
        BY <3>3, <2>2, <2>3 DEF PostsOn
      <4>2. Cardinality(PostsOn(c)') = Cardinality(PostsOn(c)) + 1
        BY <4>1, <3>1, FS_AddElement, Zenon
      <4>3. QED
        BY <4>2, <3>1, <3>2, <3>3, Zenon
    <3>4. CASE c # dyn[d]
      <4>1. PostsOn(c)' = PostsOn(c)
        BY <3>4, <2>3 DEF PostsOn
      <4>2. QED
        BY <4>1, <3>1, <3>2, <3>4
    <3>5. QED
      BY <3>3, <3>4
  <2>7. QED
    BY <2>4, <2>5, <2>6, Zenon DEF InflightExact
<1>3. ASSUME NEW q \in posts, PostOK(q) \/ PostFails(q) PROVE InflightExact'
  <2>1. posts' = posts \ {q} /\ sent' = sent /\ q[3] \in Clients
    BY <1>3 DEF PostOK, PostFails, PostReturns, TypeInt
  <2>2. IsFiniteSet(posts')
    BY <2>1, FS_RemoveElement DEF InflightExact
  <2>3. \A p \in posts' : p[2] < sent'[p[1]]
    BY <2>1 DEF InflightExact
  <2>4. ASSUME NEW c \in Clients PROVE inflightPosts'[c] = Cardinality(PostsOn(c)')
    <3>1. inflightPosts[c] = Cardinality(PostsOn(c)) /\ Cardinality(PostsOn(c)) \in Nat /\ IsFiniteSet(PostsOn(c))
      BY PostsFinite, Zenon DEF InflightExact
    <3>2. inflightPosts'[c] = IF c \in {q[3]} THEN inflightPosts[c] + (-1) ELSE inflightPosts[c]
      BY <1>3, AddToType, SMTT(30) DEF PostOK, PostFails, PostReturns, TypeInt
    <3>3. CASE c = q[3]
      <4>1. PostsOn(c)' = PostsOn(c) \ {q} /\ q \in PostsOn(c)
        BY <3>3, <2>1 DEF PostsOn
      <4>2. Cardinality(PostsOn(c)') = Cardinality(PostsOn(c)) - 1
        BY <4>1, <3>1, FS_RemoveElement, Zenon
      <4>3. QED
        BY <4>2, <3>1, <3>2, <3>3
    <3>4. CASE c # q[3]
      <4>1. PostsOn(c)' = PostsOn(c)
        BY <3>4, <2>1 DEF PostsOn
      <4>2. QED
        BY <4>1, <3>1, <3>2, <3>4
    <3>5. QED
      BY <3>3, <3>4
  <2>5. QED
    BY <2>2, <2>3, <2>4 DEF InflightExact
<1>4. ASSUME NEW d \in Dials, DialNext(d) \/ LoopRead(d) \/ LoopRotate(d) \/ LoopEnds(d)
      PROVE  UNCHANGED <<inflightPosts, posts, sent>>
  BY <1>4, Zenon DEF DialNext, DialGet, DialGet2, DialCount, DialOpen, DialFails, CloseConn, SweepRetired,
              StreamFails, LoopRead, LoopRotate, LoopEnds, GetXmuxClient
<1>5. ASSUME NEW t \in Threads, NEW c \in Clients, CloseClient(t, c)
      PROVE  UNCHANGED <<inflightPosts, posts, sent>>
  BY <1>5, Zenon DEF CloseClient
<1>6. ASSUME NEW r \in Resetters, Reset(r) PROVE UNCHANGED <<inflightPosts, posts, sent>>
  BY <1>6, Zenon DEF Reset
<1>7. ASSUME NEW c \in Clients, GraceEnds(c) \/ Expire(c)
      PROVE  UNCHANGED <<inflightPosts, posts, sent>>
  BY <1>7 DEF GraceEnds, Expire
<1>8. CASE UNCHANGED vars
  BY <1>1, <1>8 DEF vars
<1>9. QED
  BY <1>1, <1>2, <1>3, <1>4, <1>5, <1>6, <1>7, <1>8 DEF Next, LoopNext

\* The invariants together.
Counts == TypeInt /\ HasClients /\ UsageExact /\ InflightExact

LEMMA CountsInit == Init => Counts
<1> SUFFICES ASSUME Init PROVE Counts
  BY SMTT(30)
<1>1. TypeInt /\ HasClients
  BY DEF Init, TypeInt, HasClients
<1>2. UsageExact
  <2>1. ASSUME NEW c \in Clients PROVE Holders(c) = {}
    BY DEF Init, Holders, CountedPcs
  <2>2. QED
    BY <2>1, FS_EmptySet DEF Init, UsageExact
<1>3. InflightExact
  <2>1. ASSUME NEW c \in Clients PROVE PostsOn(c) = {}
    BY DEF Init, PostsOn
  <2>2. QED
    BY <2>1, FS_EmptySet DEF Init, InflightExact
<1>4. QED
  BY <1>1, <1>2, <1>3 DEF Counts

LEMMA CountsStep == Counts /\ [Next]_vars => Counts'
  BY TypeStep, UsageStep, InflightStep DEF Counts

LEMMA CountsInvariant == Spec => []Counts
  BY CountsInit, CountsStep, PTL DEF Spec

\* The state is always well formed, and no counter of a client falls below
\* zero, however dials, closes and POST goroutines interleave.
THEOREM TypeCorrect == Spec => []TypeOK
<1>1. Counts => TypeOK
  <2> SUFFICES ASSUME Counts PROVE TypeOK
    OBVIOUS
  <2>1. \A c \in Clients : OpenUsage[c] \in Nat
    BY HoldersFinite DEF Counts, UsageExact
  <2>2. \A c \in Clients : inflightPosts[c] \in Nat
    BY PostsFinite, Zenon DEF Counts, InflightExact
  <2>3. OpenUsage \in [Clients -> Nat] /\ inflightPosts \in [Clients -> Nat]
    BY <2>1, <2>2 DEF Counts, TypeInt
  <2>4. QED
    BY <2>3 DEF Counts, TypeInt, TypeOK
<1>2. QED
  BY <1>1, CountsInvariant, PTL

-----------------------------------------------------------------------------
(* The theorems *)

PoolInv == Accounted /\ CloseOwned /\ PoolBounded

LEMMA PoolInvariant == Spec => []PoolInv
<1>1. Init => PoolInv
  <2> SUFFICES ASSUME Init PROVE PoolInv
    OBVIOUS
  <2>1. PoolBounded
    BY FS_EmptySet, OptionAssumption DEF Init, PoolBounded
  <2>2. QED
    BY <2>1 DEF Init, PoolInv, Accounted, CloseOwned
<1>2. Counts /\ PoolInv /\ [Next]_vars => PoolInv'
  BY AccountedStep, CloseOwnedStep, PoolBoundedStep DEF Counts, PoolInv
<1>3. QED
  BY <1>1, <1>2, CountsInvariant, PTL DEF Spec

\* Every client created is in the pool, retired or planned to be closed, and
\* in one of them only: no prune, sweep or reset loses a client.
THEOREM NothingForgotten == Spec => []Accounted
<1>1. PoolInv => Accounted
  BY DEF PoolInv
<1>2. QED
  BY <1>1, PoolInvariant, PTL

\* The manager closes no client twice.
THEOREM ClosedAtMostOnce == Spec => []ClosedOnce
<1>1. PoolInv => ClosedOnce
  BY DEF PoolInv, CloseOwned, ClosedOnce
<1>2. QED
  BY <1>1, PoolInvariant, PTL

\* Without a concurrency limit the pool respects maxConnections.
THEOREM PoolBound == Spec => []PoolBounded
<1>1. PoolInv => PoolBounded
  BY DEF PoolInv
<1>2. QED
  BY <1>1, PoolInvariant, PTL

\* What a prune or a sweep takes for closing was idle.
LEMMA ReapedWasIdle ==
  ASSUME TypeInt, [Next]_vars, NEW c \in reaped' \ reaped
  PROVE  c \in Clients /\ idleLocked(c)
<1>1. CASE UNCHANGED <<poolVars, closeVars>> \/ UNCHANGED vars
  BY <1>1 DEF vars, poolVars
<1>2. ASSUME NEW t \in Threads, NEW x \in Clients, GetXmuxClient(t, x) PROVE c \in Clients /\ idleLocked(c)
  <2>1. c \in retired \cup Pruned /\ idleLocked(c)
    BY <1>2, Zenon DEF GetXmuxClient, sweepRetiredLocked
  <2>2. QED
    BY <2>1 DEF TypeInt, Pruned
<1>3. ASSUME NEW t \in Threads, sweepRetiredLocked(t, retired) PROVE c \in Clients /\ idleLocked(c)
  BY <1>3, Zenon DEF sweepRetiredLocked, TypeInt
<1>4. ASSUME NEW t \in Threads, NEW x \in Clients, CloseClient(t, x) PROVE FALSE
  BY <1>4 DEF CloseClient, poolVars
<1>5. ASSUME NEW r \in Resetters, Reset(r) PROVE FALSE
  BY <1>5 DEF Reset
<1>6. QED
  BY <1>1, <1>2, <1>3, <1>4, <1>5, PoolSteps, Zenon

\* No prune and no sweep takes a client for closing while one of its POSTs
\* is in flight.
THEOREM BusyClientsKept == Spec => ReapsNoBusyClient
<1>1. Counts /\ [Next]_vars => [\A c \in reaped' \ reaped : \A p \in posts : p[3] # c]_vars
  <2> SUFFICES ASSUME Counts, [Next]_vars, NEW c \in reaped' \ reaped, NEW p \in posts
               PROVE  p[3] # c
    OBVIOUS
  <2>1. c \in Clients /\ inflightPosts[c] = 0
    BY ReapedWasIdle DEF Counts, idleLocked
  <2>2. IsFiniteSet(PostsOn(c)) /\ Cardinality(PostsOn(c)) = 0
    BY <2>1, PostsFinite DEF Counts, InflightExact
  <2>3. PostsOn(c) = {}
    BY <2>2, FS_EmptySet
  <2>4. QED
    BY <2>3 DEF PostsOn
<1>2. QED
  BY <1>1, CountsInvariant, PTL DEF Spec, ReapsNoBusyClient

\* Dial d was handed client c and is not yet counted on it.
Handed(d, c) ==
  \/ c = cl1[d] /\ pc[d] \in {"get2", "count"}
  \/ c = cl2[d] /\ pc[d] = "count"

\* A client in the hand-out window is protected by its grace; what was
\* taken for closing has its close planned.
StreamInv ==
  /\ \A d \in Dials, c \in Clients : Handed(d, c) => c \in recent
  /\ reaped \subseteq closePlanned
  /\ NoStreamOnReaped

\* A step keeps StreamInv if every hand-out is recent after it, and a dial
\* gets hold only of clients that are not taken for closing.
LEMMA StreamsKept ==
  ASSUME Counts, StreamInv, [Next]_vars, (reaped \subseteq closePlanned)',
         \A d \in Dials, c \in Clients :
           /\ Handed(d, c)' => c \in recent'
           /\ HoldsStream(d, c)' => HoldsStream(d, c) \/ c \notin reaped'
  PROVE  StreamInv'
<1>1. ASSUME NEW d \in Dials, NEW c \in reaped', HoldsStream(d, c)' PROVE FALSE
  <2>1. c \in reaped' \ reaped
    BY <1>1, Zenon DEF StreamInv, NoStreamOnReaped, Counts, TypeInt
  <2>2. c \in Clients /\ OpenUsage[c] = 0 /\ c \notin recent
    BY <2>1, ReapedWasIdle, Zenon DEF Counts, idleLocked
  <2>3. HoldsStream(d, c) /\ ~Handed(d, c)
    BY <1>1, <2>2 DEF StreamInv
  <2>4. d \in Holders(c)
    BY <2>3 DEF HoldsStream, Handed, Holders, CountedPcs
  <2>5. Cardinality(Holders(c)) = 0 /\ IsFiniteSet(Holders(c))
    BY <2>2, HoldersFinite, Zenon DEF Counts, UsageExact
  <2>6. QED
    BY <2>4, <2>5, FS_EmptySet, Zenon
<1>2. QED
  BY <1>1 DEF StreamInv, NoStreamOnReaped

LEMMA ReapedPlanned ==
  ASSUME reaped \subseteq closePlanned, [Next]_vars
  PROVE  reaped' \subseteq closePlanned'
<1> USE DEF poolVars
<1>1. CASE UNCHANGED <<poolVars, closeVars>> \/ UNCHANGED vars
  BY <1>1 DEF vars
<1>2. ASSUME NEW t \in Threads, NEW c \in Clients, GetXmuxClient(t, c) PROVE reaped' \subseteq closePlanned'
  BY <1>2 DEF GetXmuxClient, sweepRetiredLocked
<1>3. ASSUME NEW t \in Threads, sweepRetiredLocked(t, retired) PROVE reaped' \subseteq closePlanned'
  BY <1>3, SMTT(30) DEF sweepRetiredLocked
<1>4. ASSUME NEW t \in Threads, NEW c \in Clients, CloseClient(t, c) PROVE reaped' \subseteq closePlanned'
  BY <1>4 DEF CloseClient
<1>5. ASSUME NEW r \in Resetters, Reset(r) PROVE reaped' \subseteq closePlanned'
  BY <1>5 DEF Reset
<1>6. QED
  BY <1>1, <1>2, <1>3, <1>4, <1>5, PoolSteps

\* The client handed out is fresh in the window and not taken for closing.
LEMMA HandOut ==
  ASSUME Counts, Accounted, StreamInv, [Next]_vars,
         NEW t \in Threads, NEW c \in Clients, GetXmuxClient(t, c)
  PROVE  c \in recent' /\ recent \subseteq recent' /\ c \notin reaped'
<1>1. c \in xmuxClients' /\ c \in recent' /\ recent \subseteq recent'
  <2>1. CASE newXmuxClient(c)
    BY <2>1 DEF newXmuxClient
  <2>2. CASE pickXmuxClient(c)
    BY <2>2 DEF pickXmuxClient, Eligible
  <2>3. QED
    BY <2>1, <2>2 DEF GetXmuxClient
<1>2. c \notin closePlanned'
  BY <1>1, AccountedStep, Zenon DEF Counts, Accounted
<1>3. QED
  BY <1>1, <1>2, ReapedPlanned DEF StreamInv

LEMMA StreamStep ==
  ASSUME SlowClose = FALSE, Counts, Accounted, StreamInv, [Next]_vars
  PROVE  StreamInv'
<1> USE DEF dialVars, flagVars
<1>a. (reaped \subseteq closePlanned)'
  BY ReapedPlanned DEF StreamInv
<1>b. pc \in [Dials -> {"start", "get2", "count", "open", "conn", "failed", "sweep", "done"}]
  BY DEF Counts, TypeInt
<1>c. cl1 \in [Dials -> Clients \cup {Null}] /\ cl2 \in [Dials -> Clients \cup {Null}]
  BY SMTT(30) DEF Counts, TypeInt
<1>1. CASE UNCHANGED dialVars /\ recent \subseteq recent'
  BY <1>1, <1>a, StreamsKept DEF Handed, HoldsStream, StreamInv
<1>2. ASSUME NEW d \in Dials, DialGet(d) PROVE StreamInv'
  <2>1. PICK x \in Clients : GetXmuxClient(Dial(d), x) /\ cl1' = [cl1 EXCEPT ![d] = x]
    BY <1>2, Zenon DEF DialGet
  <2>2. x \in recent' /\ recent \subseteq recent' /\ x \notin reaped'
    BY <2>1, HandOut, ThreadsOf
  <2>3. pc' = [pc EXCEPT ![d] = "get2"] /\ cl2' = cl2 /\ pc[d] = "start"
    BY <1>2 DEF DialGet
  <2>4. ASSUME NEW e \in Dials, NEW c \in Clients
        PROVE  /\ Handed(e, c)' => c \in recent'
               /\ HoldsStream(e, c)' => HoldsStream(e, c) \/ c \notin reaped'
    <3>1. CASE e = d
      BY <3>1, <2>1, <2>2, <2>3, <1>b, <1>c DEF Handed, HoldsStream
    <3>2. CASE e # d
      BY <3>2, <2>1, <2>2, <2>3, <1>b, <1>c, SMTT(30) DEF Handed, HoldsStream, StreamInv
    <3>3. QED
      BY <3>1, <3>2
  <2>5. QED
    BY <1>a, <2>4, StreamsKept
<1>3. ASSUME NEW d \in Dials, DialGet2(d) PROVE StreamInv'
  <2>1. PICK x \in Clients : GetXmuxClient(Dial(d), x) /\ cl2' = [cl2 EXCEPT ![d] = x]
    BY <1>3, Zenon DEF DialGet2
  <2>2. x \in recent' /\ recent \subseteq recent' /\ x \notin reaped'
    BY <2>1, HandOut, ThreadsOf
  <2>3. pc' = [pc EXCEPT ![d] = "count"] /\ cl1' = cl1 /\ pc[d] = "get2"
    BY <1>3 DEF DialGet2
  <2>4. ASSUME NEW e \in Dials, NEW c \in Clients
        PROVE  /\ Handed(e, c)' => c \in recent'
               /\ HoldsStream(e, c)' => HoldsStream(e, c) \/ c \notin reaped'
    <3>1. CASE e = d
      BY <3>1, <2>1, <2>2, <2>3, <1>b, <1>c DEF Handed, HoldsStream, StreamInv
    <3>2. CASE e # d
      BY <3>2, <2>1, <2>2, <2>3, <1>b, <1>c DEF Handed, HoldsStream, StreamInv
    <3>3. QED
      BY <3>1, <3>2
  <2>5. QED
    BY <1>a, <2>4, StreamsKept
<1>4. ASSUME NEW d \in Dials,
             DialCount(d) \/ DialOpen(d) \/ DialFails(d) \/ CloseConn(d) \/ SweepRetired(d)
      PROVE  StreamInv'
  <2>1. /\ cl1' = cl1 /\ cl2' = cl2 /\ recent' = recent
        /\ \/ pc[d] = "count" /\ pc' = [pc EXCEPT ![d] = "open"]
           \/ pc[d] = "open" /\ pc' = [pc EXCEPT ![d] = "conn"]
           \/ pc[d] = "open" /\ pc' = [pc EXCEPT ![d] = "failed"]
           \/ pc[d] = "conn" /\ pc' = [pc EXCEPT ![d] = "sweep"]
           \/ pc[d] = "sweep" /\ pc' = [pc EXCEPT ![d] = "done"]
    BY <1>4, Zenon DEF DialCount, DialOpen, DialFails, CloseConn, SweepRetired
  <2>2. ASSUME NEW e \in Dials, NEW c \in Clients
        PROVE  /\ Handed(e, c)' => c \in recent'
               /\ HoldsStream(e, c)' => HoldsStream(e, c) \/ c \notin reaped'
    <3>1. Handed(e, c)' => Handed(e, c)
      BY <2>1, <1>b, Zenon DEF Handed
    <3>2. HoldsStream(e, c)' => HoldsStream(e, c)
      BY <2>1, <1>b, Zenon DEF HoldsStream
    <3>3. QED
      BY <3>1, <3>2, <2>1, Zenon DEF StreamInv
  <2>3. QED
    BY <1>a, <2>2, StreamsKept, Zenon
<1>5. ASSUME NEW d \in Dials, LoopRotate(d) PROVE UNCHANGED dialVars /\ recent \subseteq recent'
  <2>1. PICK x \in Clients : GetXmuxClient(Loop(d), x)
    BY <1>5, Zenon DEF LoopRotate
  <2>2. QED
    BY <1>5, <2>1, HandOut, ThreadsOf DEF LoopRotate
<1>6. ASSUME NEW d \in Dials, StreamFails(d) \/ LoopRead(d) \/ LoopPost(d) \/ LoopEnds(d)
      PROVE  UNCHANGED dialVars /\ recent \subseteq recent'
  BY <1>6, Zenon DEF StreamFails, LoopRead, LoopPost, LoopEnds
<1>7. ASSUME NEW p \in posts, PostOK(p) \/ PostFails(p)
      PROVE  UNCHANGED dialVars /\ recent \subseteq recent'
  BY <1>7, Zenon DEF PostOK, PostFails, PostReturns
<1>8. ASSUME NEW t \in Threads, NEW c \in Clients, CloseClient(t, c)
      PROVE  UNCHANGED dialVars /\ recent \subseteq recent'
  BY <1>8, Zenon DEF CloseClient
<1>9. ASSUME NEW r \in Resetters, Reset(r) PROVE UNCHANGED dialVars /\ recent \subseteq recent'
  BY <1>9, Zenon DEF Reset
<1>10. ASSUME NEW x \in Clients, GraceEnds(x) PROVE StreamInv'
  <2>1. \A d \in Dials : ~Handed(d, x)
    <3> SUFFICES ASSUME NEW d \in Dials, Handed(d, x) PROVE FALSE
      BY Zenon
    <3>1. Dial(d) \in Threads /\ Uncounted(Dial(d), x)
      BY ThreadsOf, Zenon DEF Handed, Uncounted
    <3>2. QED
      BY <3>1, <1>10, Zenon DEF GraceEnds
  <2>2. UNCHANGED dialVars /\ recent' = recent \ {x}
    BY <1>10 DEF GraceEnds
  <2>3. QED
    BY <1>a, <2>1, <2>2, StreamsKept, Zenon DEF Handed, HoldsStream, StreamInv
<1>11. ASSUME NEW c \in Clients, Expire(c) PROVE UNCHANGED dialVars /\ recent \subseteq recent'
  BY <1>11 DEF Expire
<1>12. CASE UNCHANGED vars
  BY <1>1, <1>12 DEF vars
<1>13. QED
  BY <1>1, <1>2, <1>3, <1>4, <1>5, <1>6, <1>7, <1>8, <1>9, <1>10, <1>11, <1>12, SMTT(30)
     DEF Next, DialNext, LoopNext

\* If closing a client never outlasts the hand-out grace, no prune and no
\* sweep takes a client for closing that carries a stream or is on its way
\* to a dial.
THEOREM StreamsSafe ==
  ASSUME SlowClose = FALSE
  PROVE  Spec => []NoStreamOnReaped
<1>1. Init => StreamInv
  BY DEF Init, StreamInv, NoStreamOnReaped, Handed
<1>2. Counts /\ Accounted /\ StreamInv /\ [Next]_vars => StreamInv'
  BY StreamStep, Zenon
<1>3. StreamInv => NoStreamOnReaped
  BY DEF StreamInv
<1>4. QED
  BY <1>1, <1>2, <1>3, CountsInvariant, NothingForgotten, PTL DEF Spec

=============================================================================
