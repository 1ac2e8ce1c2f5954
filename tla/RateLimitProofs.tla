--------------------------- MODULE RateLimitProofs ---------------------------
(***************************************************************************)
(* Theorems about RateLimit for every set of requests and clients, every    *)
(* window and every quota: the inductive invariant IInv, and the properties *)
(* that follow from it.                                                    *)
(***************************************************************************)
EXTENDS RateLimit, FiniteSetTheorems, SequenceTheorems, TLAPS

N == Cardinality(Requests)

\* Who waits for the mutex to be counted for c, and who waits with a time
\* before t.
WaitingFor(c) == {r \in waiting : client[r] = c}
Late(t) == {r \in waiting : stamp[r] < t}

\* How many of the requests of a window were admitted, and how many more may be.
Used(w) == IF w.requests < MaxRequests THEN w.requests ELSE MaxRequests
Unused(w) == MaxRequests - Used(w)

\* The ticks of real time from t on, as many as a window has.
Stretch(t) == {u \in Times : t <= u /\ u < t + Window}
Since(t) == {u \in Times : u >= t}

\* How many requests whose time is not before t the map admits until t + Window:
\* a window that started before t can be followed by one more, a window that is
\* over at t, or missing, by one that a late request opens before t, and one more.
Left(c, t) ==
  LET w == window[c] IN
  IF w = NoWindow \/ w.start <= t - Window THEN 2 * MaxRequests - 1
  ELSE IF w.start < t THEN Unused(w) + MaxRequests
  ELSE Unused(w)

\* A window was opened by the first request it counts.
WindowsCount == \A c \in Clients : window[c] = NoWindow \/ window[c].requests >= 1

\* No count outgrows the bound of the model and the requests that were waiting.
CountsSuffice ==
  \A c \in Clients :
    window[c].requests + Cardinality(WaitingFor(c)) <= MaxCount + N

\* What a window counts of its quota was let through since it started.
QuotaAdmitted ==
  \A c \in Clients :
    window[c] # NoWindow => AdmittedIn(c, Since(window[c].start)) >= Used(window[c])

\* While a stretch of time runs, what was let through in it, who still waits with
\* a time before it, and what the map leaves to be let through, stay in the bound.
SpareInStretch ==
  \A c \in Clients, t \in Times :
    t <= now /\ now < t + Window =>
      AdmittedIn(c, Stretch(t)) + Cardinality(Late(t)) + Left(c, t)
        <= 2 * MaxRequests + N - 1

IInv ==
  /\ TypeOK
  /\ WindowsCount
  /\ CountsSuffice
  /\ QuotaAdmitted
  /\ SpareInStretch
  /\ BurstBound

-----------------------------------------------------------------------------
(* Which elements of a sequence are in a set, and how many.                *)
Hits(s, T) == {i \in DOMAIN s : s[i] \in T}

\* A sequence has finitely many elements in a set, and no fewer in a larger set.
LEMMA HitsMonotone ==
  ASSUME NEW S, NEW s \in Seq(S), NEW T, NEW U, T \subseteq U
  PROVE  /\ IsFiniteSet(Hits(s, T))
         /\ Cardinality(Hits(s, T)) \in Nat
         /\ Cardinality(Hits(s, T)) <= Cardinality(Hits(s, U))
  <1>1. IsFiniteSet(DOMAIN s)
    BY LenProperties, FS_Interval, 0 \in Int, 1 \in Int
  <1>2. Hits(s, T) \subseteq Hits(s, U) /\ Hits(s, U) \subseteq DOMAIN s
    BY DEF Hits
  <1>3. IsFiniteSet(Hits(s, U)) /\ IsFiniteSet(Hits(s, T))
    BY <1>1, <1>2, FS_Subset
  <1> QED
    BY <1>2, <1>3, FS_Subset, FS_CardinalityType

\* An element more is a hit more if it is in the set.
LEMMA HitsAppend ==
  ASSUME NEW S, NEW s \in Seq(S), NEW e \in S, NEW T
  PROVE  Cardinality(Hits(Append(s, e), T)) =
           Cardinality(Hits(s, T)) + (IF e \in T THEN 1 ELSE 0)
  <1> DEFINE n == Len(s) + 1
  <1>1. DOMAIN s = 1..Len(s) /\ Len(s) \in Nat
    BY LenProperties
  <1>2. /\ DOMAIN Append(s, e) = 1..n
        /\ \A i \in 1..Len(s) : Append(s, e)[i] = s[i]
        /\ Append(s, e)[n] = e
    BY <1>1, AppendProperties, LenProperties
  <1>3. 1..n = (1..Len(s)) \cup {n} /\ n \notin 1..Len(s)
    BY <1>1
  <1>4. IsFiniteSet(Hits(s, T)) /\ Cardinality(Hits(s, T)) \in Nat
    BY HitsMonotone
  <1> HIDE DEF n
  <1>5. CASE e \in T
    <2>1. Hits(Append(s, e), T) = Hits(s, T) \cup {n} /\ n \notin Hits(s, T)
      BY <1>1, <1>2, <1>3, <1>5 DEF Hits
    <2> QED
      BY <2>1, <1>4, <1>5, FS_AddElement
  <1>6. CASE e \notin T
    <2>1. Hits(Append(s, e), T) = Hits(s, T)
      BY <1>1, <1>2, <1>3, <1>6 DEF Hits
    <2> QED
      BY <2>1, <1>4, <1>6
  <1> QED
    BY <1>5, <1>6

\* So many requests were admitted to a set of ticks, and no fewer to a larger set.
LEMMA AdmittedMonotone ==
  ASSUME TypeOK, NEW c \in Clients, NEW T, NEW U, T \subseteq U
  PROVE  AdmittedIn(c, T) \in Nat /\ AdmittedIn(c, T) <= AdmittedIn(c, U)
  <1>1. admitted[c] \in Seq(0..now)
    BY DEF TypeOK
  <1> QED
    BY <1>1, HitsMonotone DEF AdmittedIn, Hits

\* Admit lets a request of its client through now, and none of another client.
LEMMA AdmitAddsOne ==
  ASSUME TypeOK, NEW r \in Requests, Admit(r), NEW c \in Clients, NEW T
  PROVE  Cardinality(Hits(admitted'[c], T)) =
           AdmittedIn(c, T) + (IF c = client[r] /\ now \in T THEN 1 ELSE 0)
  <1>1. admitted[c] \in Seq(0..now) /\ now \in 0..now /\ client[r] \in Clients
    BY BoundAssumption DEF TypeOK, Times
  <1>2. admitted'[c] = IF c = client[r] THEN Append(admitted[c], now) ELSE admitted[c]
    BY <1>1 DEF Admit, TypeOK
  <1>3. AdmittedIn(c, T) = Cardinality(Hits(admitted[c], T))
    BY DEF AdmittedIn, Hits
  <1>4. AdmittedIn(c, T) \in Nat
    BY AdmittedMonotone
  <1>5. CASE c = client[r]
    <2>1. Cardinality(Hits(Append(admitted[c], now), T)) =
            Cardinality(Hits(admitted[c], T)) + (IF now \in T THEN 1 ELSE 0)
      BY <1>1, HitsAppend
    <2> QED
      BY <1>2, <1>3, <1>5, <2>1
  <1>6. CASE c # client[r]
    BY <1>2, <1>3, <1>4, <1>6
  <1> QED
    BY <1>5, <1>6

\* The requests that wait are finitely many, and one fewer when one is counted.
LEMMA WaitingShrinks ==
  ASSUME NEW A, NEW B, A \subseteq Requests, B \subseteq A
  PROVE  /\ IsFiniteSet(A) /\ Cardinality(A) \in Nat /\ N \in Nat
         /\ Cardinality(B) \in Nat /\ Cardinality(B) <= Cardinality(A)
         /\ Cardinality(A) <= N
         /\ \A r \in A : Cardinality(A \ {r}) = Cardinality(A) - 1
  <1>1. IsFiniteSet(A) /\ IsFiniteSet(B)
    BY RequestsAssumption, FS_Subset
  <1> QED
    BY <1>1, RequestsAssumption, FS_Subset, FS_CardinalityType, FS_RemoveElement DEF N

-----------------------------------------------------------------------------
LEMMA InitIInv == Init => IInv
  <1> SUFFICES ASSUME Init PROVE IInv
    OBVIOUS
  <1>0. 0 \in Times /\ N \in Nat /\ MaxRequests \in Nat \ {0} /\ Window \in Nat \ {0}
    BY BoundAssumption, WindowAssumption, RequestsAssumption, FS_CardinalityType DEF Times, N
  <1>1. TypeOK
    <2>1. <<>> \in Seq(0..0)
      BY EmptySeq
    <2> QED
      BY <1>0, <2>1, BoundAssumption DEF Init, TypeOK, NoWindow, N
  <1>2. \A c \in Clients : \A T : AdmittedIn(c, T) = 0
    <2>1. \A c \in Clients : \A T : Hits(admitted[c], T) = {}
      BY DEF Init, Hits
    <2> QED
      BY <2>1, FS_EmptySet DEF AdmittedIn, Hits
  <1>3. \A c \in Clients :
          /\ WaitingFor(c) = {} /\ window[c] = NoWindow
          /\ \A t \in Times : Late(t) = {} /\ Left(c, t) = 2 * MaxRequests - 1
    BY DEF Init, WaitingFor, Late, Left
  <1>4. Cardinality({}) = 0
    BY FS_EmptySet
  <1>5. WindowsCount /\ QuotaAdmitted
    BY <1>3 DEF WindowsCount, QuotaAdmitted
  <1>6. CountsSuffice
    <2>1. ASSUME NEW c \in Clients
          PROVE  window[c].requests = 0 /\ Cardinality(WaitingFor(c)) = 0
      BY <1>3, <1>4 DEF NoWindow
    <2> QED
      BY <1>0, <2>1, BoundAssumption DEF CountsSuffice
  <1>7. SpareInStretch
    <2>1. ASSUME NEW c \in Clients, NEW t \in Times
          PROVE  AdmittedIn(c, Stretch(t)) + Cardinality(Late(t)) + Left(c, t)
                   <= 2 * MaxRequests + N - 1
      <3>1. /\ AdmittedIn(c, Stretch(t)) = 0 /\ Cardinality(Late(t)) = 0
            /\ Left(c, t) = 2 * MaxRequests - 1
        BY <1>2, <1>3, <1>4
      <3> QED
        BY <1>0, <3>1
    <2> QED
      BY <2>1 DEF SpareInStretch
  <1>8. BurstBound
    BY <1>0, <1>2 DEF BurstBound, N
  <1> QED
    BY <1>1, <1>5, <1>6, <1>7, <1>8 DEF IInv

\* A request reads the clock: it is late for no stretch that has begun.
LEMMA ReadClockIInv ==
  ASSUME IInv, NEW r \in Requests, NEW k \in Clients, ReadClock(r, k)
  PROVE  IInv'
  <1>0. /\ now \in Times /\ Times \subseteq Nat /\ N \in Nat /\ MaxCount \in Nat
        /\ now \in 0..now
    BY BoundAssumption, WaitingShrinks DEF IInv, TypeOK, Times
  <1>1. TypeOK'
    BY <1>0 DEF IInv, TypeOK, ReadClock
  <1>2. \A c \in Clients : \A T : AdmittedIn(c, T)' = AdmittedIn(c, T)
    BY DEF AdmittedIn, ReadClock
  <1>3. window' = window /\ now' = now
    BY DEF ReadClock
  <1>4. WindowsCount'
    BY <1>3 DEF WindowsCount, IInv
  <1>5. CountsSuffice'
    <2>1. SUFFICES ASSUME NEW c \in Clients
                   PROVE  window[c].requests + Cardinality(WaitingFor(c)') <= MaxCount + N
      BY <1>3 DEF CountsSuffice
    <2>2. window[c].requests \in Nat
      BY <1>0 DEF IInv, TypeOK, N
    <2>3. WaitingFor(c)' \subseteq Requests /\ WaitingFor(c) \subseteq Requests
      BY <1>1 DEF WaitingFor, TypeOK, IInv
    <2>4. /\ Cardinality(WaitingFor(c)') \in Nat /\ Cardinality(WaitingFor(c)') <= N
          /\ Cardinality(WaitingFor(c)) \in Nat
      BY <2>3, WaitingShrinks
    <2>5. CASE c = k
      <3>1. window[c].requests < MaxCount
        BY <2>5 DEF ReadClock
      <3> QED
        BY <1>0, <2>2, <2>4, <3>1
    <2>6. CASE c # k
      <3>1. WaitingFor(c)' \subseteq WaitingFor(c)
        BY <2>6 DEF WaitingFor, ReadClock, IInv, TypeOK
      <3>2. Cardinality(WaitingFor(c)') <= Cardinality(WaitingFor(c))
        BY <2>3, <3>1, WaitingShrinks
      <3>3. window[c].requests + Cardinality(WaitingFor(c)) <= MaxCount + N
        BY DEF IInv, CountsSuffice
      <3> QED
        BY <1>0, <2>2, <2>4, <3>2, <3>3
    <2> QED
      BY <2>5, <2>6
  <1>6. QuotaAdmitted'
    BY <1>2, <1>3 DEF QuotaAdmitted, Since, Used, Times, IInv, AdmittedIn, ReadClock
  <1>7. SpareInStretch'
    <2>1. ASSUME NEW c \in Clients, NEW t \in Times, t <= now, now < t + Window
          PROVE  Late(t)' = Late(t) /\ Left(c, t)' = Left(c, t)
      <3>1. stamp' = [stamp EXCEPT ![r] = now] /\ waiting' = waiting \cup {r} /\ r \notin waiting
        BY DEF ReadClock
      <3>2. stamp \in [Requests -> 0..now] /\ waiting \subseteq Requests
        BY DEF IInv, TypeOK
      <3>3. stamp'[r] = now /\ \A q \in waiting : stamp'[q] = stamp[q]
        BY <3>1, <3>2
      <3>4. ~(now < t)
        BY <1>0, <2>1
      <3>5. Late(t)' = {q \in waiting \cup {r} : stamp'[q] < t}
        BY <3>1 DEF Late
      <3> QED
        BY <1>3, <3>3, <3>4, <3>5 DEF Late, Left, Unused, Used
    <2> QED
      BY <1>2, <1>3, <2>1 DEF SpareInStretch, Stretch, IInv
  <1>8. BurstBound'
    BY <1>2 DEF BurstBound, IInv
  <1> QED
    BY <1>1, <1>4, <1>5, <1>6, <1>7, <1>8 DEF IInv

\* The clock moves on: a stretch that ends keeps its bound, and in one that begins
\* nothing was let through.
LEMMA TickIInv ==
  ASSUME IInv, Tick
  PROVE  IInv'
  <1>0. /\ now \in Times /\ Times \subseteq Nat /\ N \in Nat /\ now' = now + 1
        /\ Window \in Nat \ {0} /\ MaxRequests \in Nat \ {0}
        /\ now' \in Times /\ 0..now \subseteq 0..now' /\ MaxNow \in Nat
    BY BoundAssumption, WindowAssumption, WaitingShrinks DEF IInv, TypeOK, Times, Tick
  <1>1. window' = window /\ waiting' = waiting /\ client' = client /\ stamp' = stamp
        /\ refused' = refused /\ admitted' = admitted
    BY DEF Tick
  <1>2. TypeOK'
    <2>1. admitted \in [Clients -> Seq(0..now')]
      <3>1. Seq(0..now) \subseteq Seq(0..now')
        BY <1>0
      <3> QED
        BY <3>1 DEF IInv, TypeOK
    <2> QED
      BY <1>0, <1>1, <2>1 DEF IInv, TypeOK
  <1>3. \A c \in Clients : \A T : AdmittedIn(c, T)' = AdmittedIn(c, T)
    BY <1>1 DEF AdmittedIn
  <1>4. WindowsCount' /\ CountsSuffice' /\ QuotaAdmitted' /\ BurstBound'
    BY <1>1, <1>3 DEF WindowsCount, CountsSuffice, QuotaAdmitted, BurstBound, WaitingFor,
       AdmittedIn, IInv
  <1>5. SpareInStretch'
    <2>1. SUFFICES ASSUME NEW c \in Clients, NEW t \in Times, t <= now', now' < t + Window
                   PROVE  AdmittedIn(c, Stretch(t)) + Cardinality(Late(t)) + Left(c, t)
                            <= 2 * MaxRequests + N - 1
      BY <1>1, <1>3 DEF SpareInStretch, Late, Left, Unused, Used
    <2>2. CASE t <= now
      <3>1. now < t + Window
        BY <1>0, <2>1
      <3> QED
        BY <2>2, <3>1 DEF SpareInStretch, IInv
    <2>3. CASE t = now + 1
      <3>1. AdmittedIn(c, Stretch(t)) = 0
        <4>1. admitted[c] \in Seq(0..now)
          BY DEF IInv, TypeOK
        <4>2. \A i \in DOMAIN admitted[c] : admitted[c][i] \in 0..now
          BY <4>1, LenProperties
        <4>3. Hits(admitted[c], Stretch(t)) = {}
          BY <1>0, <2>3, <4>2 DEF Hits, Stretch
        <4> QED
          BY <4>3, FS_EmptySet DEF AdmittedIn, Hits
      <3>2. Cardinality(Late(t)) \in Nat /\ Cardinality(Late(t)) <= N
        <4>1. Late(t) \subseteq Requests
          BY DEF Late, IInv, TypeOK
        <4> QED
          BY <4>1, WaitingShrinks
      <3>3. Left(c, t) \in Nat /\ Left(c, t) <= 2 * MaxRequests - 1
        <4>1. /\ window[c].start \in 0..now /\ window[c].requests \in Nat
              /\ window[c] = NoWindow \/ window[c].requests >= 1
          BY <1>0, BoundAssumption DEF IInv, TypeOK, WindowsCount, N
        <4> QED
          BY <1>0, <2>3, <4>1 DEF Left, Unused, Used
      <3> QED
        BY <1>0, <3>1, <3>2, <3>3
    <2> QED
      BY <1>0, <2>1, <2>2, <2>3
  <1> QED
    BY <1>2, <1>4, <1>5 DEF IInv

-----------------------------------------------------------------------------
\* What the critical section does to the window of the client, and to what was
\* let through: as much as the window counts of its quota.
Served(r, v, g) ==
  /\ v \in [start : 0..now, requests : 1..(MaxCount + N)]
  /\ window' = [window EXCEPT ![client[r]] = v]
  /\ \/ Over(window[client[r]], stamp[r]) /\ v = Open(stamp[r])
     \/ ~Over(window[client[r]], stamp[r]) /\ v = Counted(window[client[r]])
  /\ g = IF v.requests <= MaxRequests THEN 1 ELSE 0
  /\ \A c \in Clients : \A T :
       Cardinality(Hits(admitted'[c], T)) =
         AdmittedIn(c, T) + (IF c = client[r] /\ now \in T THEN g ELSE 0)

LEMMA CountServes ==
  ASSUME IInv, NEW r \in Requests, Count(r)
  PROVE  \E v : \E g \in {0, 1} : Served(r, v, g)
  <1>0. /\ TypeOK /\ N \in Nat /\ MaxCount \in Nat /\ MaxRequests \in Nat \ {0} /\ now \in Nat
        /\ client[r] \in Clients /\ stamp[r] \in 0..now /\ r \in waiting
    BY BoundAssumption, WindowAssumption, RequestsAssumption, FS_CardinalityType
       DEF IInv, TypeOK, Times, Count, N
  <1>1. PICK k \in Clients : k = client[r]
    BY <1>0
  <1>2. PICK w : w = window[k]
    OBVIOUS
  <1>3. w \in [start : 0..now, requests : 0..(MaxCount + N)]
    BY <1>0, <1>1, <1>2 DEF TypeOK, N
  <1>4. w.requests + 1 <= MaxCount + N /\ 1 <= MaxCount + N
    <2>1. r \in WaitingFor(k) /\ WaitingFor(k) \subseteq Requests
      BY <1>0, <1>1 DEF WaitingFor, TypeOK
    <2>2. /\ Cardinality(WaitingFor(k)) \in Nat /\ Cardinality(WaitingFor(k) \ {r}) \in Nat
          /\ Cardinality(WaitingFor(k) \ {r}) = Cardinality(WaitingFor(k)) - 1
          /\ Cardinality(WaitingFor(k)) <= N
      BY <2>1, WaitingShrinks
    <2>3. w.requests + Cardinality(WaitingFor(k)) <= MaxCount + N
      BY <1>2 DEF IInv, CountsSuffice
    <2> QED
      BY <1>0, <1>3, <2>2, <2>3
  <1>5. Admit(r) => \A c \in Clients : \A T :
          Cardinality(Hits(admitted'[c], T)) =
            AdmittedIn(c, T) + (IF c = client[r] /\ now \in T THEN 1 ELSE 0)
    BY <1>0, AdmitAddsOne
  <1>6. UNCHANGED admitted => \A c \in Clients : \A T :
          Cardinality(Hits(admitted'[c], T)) =
            AdmittedIn(c, T) + (IF c = client[r] /\ now \in T THEN 0 ELSE 0)
    <2>1. \A c \in Clients : \A T : AdmittedIn(c, T) \in Nat
      BY <1>0, AdmittedMonotone
    <2> QED
      BY <2>1 DEF AdmittedIn, Hits
  <1>7. CASE Over(w, stamp[r])
    <2>1. window' = [window EXCEPT ![k] = Open(stamp[r])] /\ Admit(r)
      BY <1>1, <1>2, <1>7 DEF Count
    <2>2. /\ Open(stamp[r]) \in [start : 0..now, requests : 1..(MaxCount + N)]
          /\ Open(stamp[r]).requests <= MaxRequests
      BY <1>0, <1>4 DEF Open
    <2>3. Served(r, Open(stamp[r]), 1)
      BY <1>1, <1>2, <1>5, <1>7, <2>1, <2>2 DEF Served
    <2> QED
      BY <2>3
  <1>8. CASE ~Over(w, stamp[r])
    <2>1. /\ Counted(w) \in [start : 0..now, requests : 1..(MaxCount + N)]
          /\ Counted(w).requests \in Nat
      BY <1>0, <1>3, <1>4 DEF Counted
    <2>2. window' = [window EXCEPT ![k] = Counted(w)]
      BY <1>1, <1>2, <1>8 DEF Count
    <2>3. IF Counted(w).requests <= MaxRequests THEN Admit(r) ELSE UNCHANGED admitted
      BY <1>0, <1>1, <1>2, <1>8, <2>1 DEF Count
    <2>4. Served(r, Counted(w), IF Counted(w).requests <= MaxRequests THEN 1 ELSE 0)
      <3>1. CASE Counted(w).requests <= MaxRequests
        BY <1>1, <1>2, <1>5, <1>8, <2>1, <2>2, <2>3, <3>1 DEF Served
      <3>2. CASE ~(Counted(w).requests <= MaxRequests)
        BY <1>1, <1>2, <1>6, <1>8, <2>1, <2>2, <2>3, <3>2 DEF Served
      <3> QED
        BY <3>1, <3>2
    <2> QED
      BY <2>4
  <1> QED
    BY <1>7, <1>8

\* A request is counted, in whatever order the mutex is taken.
LEMMA CountIInv ==
  ASSUME IInv, NEW r \in Requests, Count(r)
  PROVE  IInv'
  <1>0. /\ TypeOK /\ N \in Nat /\ MaxCount \in Nat /\ now \in Times
        /\ MaxRequests \in Nat \ {0} /\ Window \in Nat \ {0} /\ Times \subseteq Nat
        /\ client[r] \in Clients /\ stamp[r] \in 0..now /\ r \in waiting
    BY BoundAssumption, WindowAssumption, RequestsAssumption, FS_CardinalityType
       DEF IInv, TypeOK, Times, Count, N
  <1>1. PICK v : \E g \in {0, 1} : Served(r, v, g)
    BY CountServes
  <1>1a. PICK g \in {0, 1} : Served(r, v, g)
    BY <1>1
  <1>2. PICK k \in Clients : k = client[r]
    BY <1>0
  <1>3. /\ v \in [start : 0..now, requests : 1..(MaxCount + N)]
        /\ window' = [window EXCEPT ![k] = v]
        /\ \/ Over(window[k], stamp[r]) /\ v = Open(stamp[r])
           \/ ~Over(window[k], stamp[r]) /\ v = Counted(window[k])
        /\ g = IF v.requests <= MaxRequests THEN 1 ELSE 0
        /\ \A c \in Clients : \A T :
             Cardinality(Hits(admitted'[c], T)) =
               AdmittedIn(c, T) + (IF c = k /\ now \in T THEN g ELSE 0)
    BY <1>1a, <1>2 DEF Served
  <1>4. /\ waiting' = waiting \ {r} /\ now' = now /\ client' = client
        /\ stamp' \in [Requests -> 0..now] /\ \A q \in Requests \ {r} : stamp'[q] = stamp[q]
    BY <1>0 DEF Count, TypeOK, Times
  <1>5. /\ window \in [Clients -> [start : 0..now, requests : 0..(MaxCount + N)]]
        /\ window'[k] = v /\ \A c \in Clients \ {k} : window'[c] = window[c]
    BY <1>0, <1>3 DEF TypeOK, N
  <1>6. \A c \in Clients : \A T : AdmittedIn(c, T) \in Nat
    BY <1>0, AdmittedMonotone
  <1>7. ~Over(window[k], stamp[r]) =>
          /\ window[k] # NoWindow /\ v.start = window[k].start
          /\ v.requests = window[k].requests + 1
    BY <1>3, <1>5 DEF Counted, Over
  <1>8. v # NoWindow
    BY <1>3 DEF NoWindow
  <1>9. TypeOK'
    <2>1. admitted' \in [Clients -> Seq(0..now)]
      <3>1. now \in 0..now
        BY <1>0
      <3>2. admitted \in [Clients -> Seq(0..now)] /\ Append(admitted[k], now) \in Seq(0..now)
        BY <1>0, <3>1, AppendProperties DEF TypeOK
      <3> QED
        BY <1>2, <3>2 DEF Count, Admit
    <2>2. window' \in [Clients -> [start : 0..now, requests : 0..(MaxCount + N)]]
      <3>1. v \in [start : 0..now, requests : 0..(MaxCount + N)]
        BY <1>0, <1>3
      <3> QED
        BY <1>3, <1>5, <3>1
    <2>3. refused' \in [Requests -> BOOLEAN]
      BY <1>0 DEF TypeOK, Count
    <2> QED
      BY <1>0, <1>4, <2>1, <2>2, <2>3 DEF TypeOK, N
  <1>10. WindowsCount'
    BY <1>3, <1>5 DEF WindowsCount, IInv
  <1>11. CountsSuffice'
    <2>1. SUFFICES ASSUME NEW c \in Clients
                   PROVE  window'[c].requests + Cardinality(WaitingFor(c)') <= MaxCount + N
      BY DEF CountsSuffice
    <2>2. /\ WaitingFor(c) \subseteq Requests /\ WaitingFor(c)' = WaitingFor(c) \ {r}
          /\ WaitingFor(c)' \subseteq WaitingFor(c)
      BY <1>0, <1>4 DEF WaitingFor, TypeOK
    <2>3. /\ Cardinality(WaitingFor(c)) \in Nat /\ Cardinality(WaitingFor(c)') \in Nat
          /\ Cardinality(WaitingFor(c)') <= Cardinality(WaitingFor(c))
          /\ Cardinality(WaitingFor(c)) <= N
      BY <2>2, WaitingShrinks
    <2>4. window[c].requests + Cardinality(WaitingFor(c)) <= MaxCount + N
      BY DEF IInv, CountsSuffice
    <2>5. window[c].requests \in Nat /\ v.requests \in Nat
      BY <1>3, <1>5
    <2>6. CASE c = k
      <3>1. Cardinality(WaitingFor(c)') = Cardinality(WaitingFor(c)) - 1
        <4>1. r \in WaitingFor(c)
          BY <1>0, <1>2, <2>6 DEF WaitingFor
        <4> QED
          BY <2>2, <4>1, WaitingShrinks
      <3>2. v.requests = 1 \/ v.requests = window[c].requests + 1
        BY <1>3, <1>7, <2>6 DEF Open
      <3> QED
        BY <1>0, <1>5, <2>3, <2>4, <2>5, <2>6, <3>1, <3>2
    <2>7. CASE c # k
      BY <1>0, <1>5, <2>3, <2>4, <2>5, <2>7
    <2> QED
      BY <2>6, <2>7
  <1>12. QuotaAdmitted'
    <2>1. SUFFICES ASSUME NEW c \in Clients, window'[c] # NoWindow
                   PROVE  Cardinality(Hits(admitted'[c], Since(window'[c].start)))
                            >= Used(window'[c])
      BY DEF QuotaAdmitted, AdmittedIn, Hits, Since, Used
    <2>2. CASE c # k
      <3>1. window'[c] = window[c] /\ window[c] # NoWindow
        BY <1>5, <2>1, <2>2
      <3>2. AdmittedIn(c, Since(window[c].start)) >= Used(window[c])
        BY <3>1 DEF IInv, QuotaAdmitted
      <3>3. Cardinality(Hits(admitted'[c], Since(window[c].start))) =
              AdmittedIn(c, Since(window[c].start)) + 0
        BY <1>3, <2>2
      <3> QED
        BY <1>6, <3>1, <3>2, <3>3
    <2>3. CASE c = k
      <3>1. now \in Since(v.start)
        BY <1>0, <1>3 DEF Since
      <3>2. Cardinality(Hits(admitted'[k], Since(v.start))) = AdmittedIn(k, Since(v.start)) + g
        BY <1>3, <3>1
      <3>3. AdmittedIn(k, Since(v.start)) \in Nat /\ v.requests \in Nat /\ g \in Nat
        BY <1>3, <1>6
      <3>4. CASE v.requests = 1
        <4>1. g = 1 /\ Used(v) = 1
          BY <1>0, <1>3, <3>4 DEF Used
        <4> QED
          BY <1>5, <2>3, <3>2, <3>3, <4>1
      <3>5. CASE v.requests # 1
        <4>1. /\ window[k] # NoWindow /\ v.start = window[k].start
              /\ v.requests = window[k].requests + 1
          BY <1>3, <1>7, <3>5 DEF Open
        <4>2. AdmittedIn(k, Since(v.start)) >= Used(window[k])
          BY <4>1 DEF IInv, QuotaAdmitted
        <4>3. window[k].requests \in Nat
          BY <1>5
        <4>4. Used(v) <= Used(window[k]) + g /\ Used(v) \in Nat /\ Used(window[k]) \in Nat
          BY <1>0, <1>3, <4>1, <4>3 DEF Used
        <4> QED
          BY <1>5, <2>3, <3>2, <3>3, <4>2, <4>4
      <3> QED
        BY <3>4, <3>5
    <2> QED
      BY <2>2, <2>3
  <1>13. SpareInStretch'
    <2>1. SUFFICES ASSUME NEW c \in Clients, NEW t \in Times, t <= now, now < t + Window
                   PROVE  Cardinality(Hits(admitted'[c], Stretch(t)))
                            + Cardinality(Late(t)') + Left(c, t)'
                            <= 2 * MaxRequests + N - 1
      BY <1>4 DEF SpareInStretch, AdmittedIn, Hits, Stretch
    <2>2. AdmittedIn(c, Stretch(t)) + Cardinality(Late(t)) + Left(c, t)
            <= 2 * MaxRequests + N - 1
      BY <2>1 DEF IInv, SpareInStretch
    <2>3. /\ Late(t) \subseteq Requests /\ Late(t)' = Late(t) \ {r}
          /\ stamp[r] < t <=> r \in Late(t)
      BY <1>0, <1>4 DEF Late, TypeOK
    <2>4. /\ Cardinality(Late(t)) \in Nat /\ Cardinality(Late(t)') \in Nat
          /\ Cardinality(Late(t)') = Cardinality(Late(t)) - (IF stamp[r] < t THEN 1 ELSE 0)
      <3>1. Late(t) \ {r} \subseteq Late(t)
        OBVIOUS
      <3>2. Cardinality(Late(t)) \in Nat /\ Cardinality(Late(t) \ {r}) \in Nat
        BY <2>3, <3>1, WaitingShrinks
      <3>3. CASE stamp[r] < t
        BY <2>3, <3>2, <3>3, WaitingShrinks
      <3>4. CASE ~(stamp[r] < t)
        <4>1. Late(t)' = Late(t)
          BY <2>3, <3>4
        <4> QED
          BY <3>2, <3>4, <4>1
      <3> QED
        BY <3>3, <3>4
    <2>5. AdmittedIn(c, Stretch(t)) \in Nat
      BY <1>6
    <2>6. PICK w : w = window[c]
      OBVIOUS
    <2>7. w \in [start : 0..now, requests : 0..(MaxCount + N)] /\ (w = NoWindow \/ w.requests >= 1)
      BY <1>5, <2>6 DEF IInv, WindowsCount
    <2>8. Left(c, t) =
            IF w = NoWindow \/ w.start <= t - Window THEN 2 * MaxRequests - 1
            ELSE IF w.start < t THEN Unused(w) + MaxRequests
            ELSE Unused(w)
      BY <2>6 DEF Left
    <2>9. Unused(w) = IF w.requests < MaxRequests THEN MaxRequests - w.requests ELSE 0
      BY <1>0 DEF Unused, Used
    <2>10. CASE c # k
      <3>1. Cardinality(Hits(admitted'[c], Stretch(t))) = AdmittedIn(c, Stretch(t)) + 0
        BY <1>3, <2>10
      <3>2. Left(c, t)' = Left(c, t)
        BY <1>5, <2>10 DEF Left, Unused, Used
      <3>3. Left(c, t) \in Nat
        BY <1>0, <2>7, <2>8, <2>9
      <3> QED
        BY <1>0, <2>2, <2>4, <2>5, <3>1, <3>2, <3>3
    <2>11. CASE c = k
      <3>1. now \in Stretch(t)
        BY <1>0, <2>1 DEF Stretch
      <3>2. Cardinality(Hits(admitted'[c], Stretch(t))) = AdmittedIn(c, Stretch(t)) + g
        BY <1>3, <2>11, <3>1
      <3>3. Left(c, t)' =
              IF v.start <= t - Window THEN 2 * MaxRequests - 1
              ELSE IF v.start < t THEN Unused(v) + MaxRequests
              ELSE Unused(v)
        BY <1>5, <1>8, <2>11 DEF Left, Unused, Used
      <3>4. Unused(v) = IF v.requests < MaxRequests THEN MaxRequests - v.requests ELSE 0
        BY <1>0 DEF Unused, Used
      <3>5. v.start \in Nat /\ v.requests \in Nat
        BY <1>3
      <3>6. g + Left(c, t)' <= Left(c, t) + (IF stamp[r] < t THEN 1 ELSE 0)
            /\ Left(c, t)' \in Int /\ Left(c, t) \in Int
        <4>1. w.start \in Nat /\ w.requests \in Nat /\ t \in Nat
          BY <1>0, <2>7
        <4>2. CASE Over(window[k], stamp[r])
          <5>1. v.start = stamp[r] /\ v.requests = 1 /\ g = 1
            BY <1>0, <1>3, <4>2 DEF Open, Counted
          <5>2. w = NoWindow \/ stamp[r] - w.start >= Window
            BY <2>6, <2>11, <4>2 DEF Over
          <5> QED
            BY <1>0, <2>1, <2>7, <2>8, <2>9, <3>3, <3>4, <4>1, <5>1, <5>2
        <4>3. CASE ~Over(window[k], stamp[r])
          <5>1. v.start = w.start /\ v.requests = w.requests + 1 /\ w # NoWindow
                /\ g = (IF v.requests <= MaxRequests THEN 1 ELSE 0)
            BY <1>3, <1>7, <2>6, <2>11, <4>3
          <5>2. stamp[r] - w.start < Window
            BY <1>0, <2>6, <2>11, <4>1, <4>3 DEF Over
          <5> QED
            BY <1>0, <2>1, <2>7, <2>8, <2>9, <3>3, <3>4, <4>1, <5>1, <5>2
        <4> QED
          BY <4>2, <4>3
      <3> QED
        BY <1>0, <2>2, <2>4, <2>5, <3>2, <3>6
    <2> QED
      BY <2>10, <2>11
  <1>14. BurstBound'
    <2>1. SUFFICES ASSUME NEW c \in Clients, NEW t \in Times
                   PROVE  Cardinality(Hits(admitted'[c], Stretch(t))) <= 2 * MaxRequests + N - 1
      BY DEF BurstBound, AdmittedIn, Hits, Stretch, N
    <2>2. CASE now \in Stretch(t)
      <3>1. /\ t <= now' /\ now' < t + Window
        BY <1>4, <2>2 DEF Stretch
      <3>2. Cardinality(Hits(admitted'[c], Stretch(t))) + Cardinality(Late(t)') + Left(c, t)'
              <= 2 * MaxRequests + N - 1
        BY <1>13, <3>1 DEF SpareInStretch, AdmittedIn, Hits, Stretch
      <3>3. Cardinality(Late(t)') \in Nat /\ Cardinality(Hits(admitted'[c], Stretch(t))) \in Nat
        <4>1. Late(t)' \subseteq Requests
          BY <1>0, <1>4 DEF Late, TypeOK
        <4>2. IF c = k /\ now \in Stretch(t) THEN g \in Nat ELSE 0 \in Nat
          BY <1>3
        <4> QED
          BY <1>3, <1>6, <4>1, <4>2, WaitingShrinks
      <3>4. Left(c, t)' \in Nat
        <4>1. window'[c] \in [start : 0..now, requests : 0..(MaxCount + N)]
          BY <1>4, <1>9 DEF TypeOK, N
        <4> QED
          BY <1>0, <4>1 DEF Left, Unused, Used
      <3> QED
        BY <1>0, <3>2, <3>3, <3>4
    <2>3. CASE now \notin Stretch(t)
      <3>1. Cardinality(Hits(admitted'[c], Stretch(t))) = AdmittedIn(c, Stretch(t)) + 0
        BY <1>3, <2>3
      <3>2. AdmittedIn(c, Stretch(t)) <= 2 * MaxRequests + N - 1
        BY DEF IInv, BurstBound, Stretch, N
      <3> QED
        BY <1>0, <1>6, <3>1, <3>2
    <2> QED
      BY <2>2, <2>3
  <1> QED
    BY <1>9, <1>10, <1>11, <1>12, <1>13, <1>14 DEF IInv

LEMMA NextIInv == IInv /\ [Next]_vars => IInv'
  <1> SUFFICES ASSUME IInv, [Next]_vars PROVE IInv'
    OBVIOUS
  <1>1. ASSUME NEW r \in Requests, Count(r) PROVE IInv'
    BY <1>1, CountIInv
  <1>2. ASSUME NEW r \in Requests, NEW c \in Clients, ReadClock(r, c) PROVE IInv'
    BY <1>2, ReadClockIInv
  <1>3. CASE Tick
    BY <1>3, TickIInv
  <1>4. CASE UNCHANGED vars
    BY <1>4 DEF vars, IInv, TypeOK, WindowsCount, CountsSuffice, QuotaAdmitted, SpareInStretch,
       BurstBound, WaitingFor, Late, Left, Used, Unused, AdmittedIn
  <1> QED
    BY <1>1, <1>2, <1>3, <1>4 DEF Next

\* The inductive invariant.
THEOREM Invariance == Spec => []IInv
  BY InitIInv, NextIInv, PTL DEF Spec

-----------------------------------------------------------------------------
\* The variables keep their types: no window starts in the future, and the count
\* of a window, which nothing resets but a new window, stays within what the
\* guard of ReadClock and the requests already waiting allow.
THEOREM TypeCorrectness == Spec => []TypeOK
  BY Invariance, PTL DEF IInv

\* RateLimit lets at most two windows' worth of requests of a client through in a
\* stretch of real time as long as a window, and one for every other request that
\* waited for the mutex: for every quota, every window and any number of requests.
THEOREM BurstsAreBounded == Spec => []BurstBound
  BY Invariance, PTL DEF IInv

\* RateLimit answers 429 only to a client that has had its whole quota since one
\* window before the time of the request that is refused.
THEOREM RefusalsAreEarned == Spec => RefusedOverQuota
  <1> DEFINE Earned(r) ==
        refused'[r] /\ ~refused[r] =>
          AdmittedIn(client[r], {t \in Times : t > stamp[r] - Window}) >= MaxRequests
  <1>1. ASSUME IInv, NEW q \in Requests, Count(q), NEW r \in Requests PROVE Earned(r)
    <2>0. /\ TypeOK /\ MaxRequests \in Nat \ {0} /\ Window \in Nat \ {0}
          /\ client[r] \in Clients /\ stamp[r] \in Nat /\ Times \subseteq Nat /\ N \in Nat
          /\ refused \in [Requests -> BOOLEAN]
      BY <1>1, WindowAssumption, BoundAssumption, RequestsAssumption, FS_CardinalityType
         DEF IInv, TypeOK, Times, N
    <2>1. SUFFICES ASSUME refused'[r], ~refused[r]
                   PROVE  AdmittedIn(client[r], {t \in Times : t > stamp[r] - Window})
                            >= MaxRequests
      OBVIOUS
    <2>2. PICK w : w = window[client[r]]
      OBVIOUS
    <2>3. ~Over(w, stamp[r]) /\ Counted(w).requests > MaxRequests
      BY <1>1, <2>0, <2>1, <2>2 DEF Count
    <2>4. w \in [start : 0..now, requests : 0..(MaxCount + N)] /\ now \in Nat
      BY <2>0, <2>2 DEF TypeOK, N, Times
    <2>5. w # NoWindow /\ w.start > stamp[r] - Window
      BY <2>0, <2>3, <2>4 DEF Over
    <2>6. Used(w) = MaxRequests
      <3>1. w.requests \in Nat /\ w.requests + 1 > MaxRequests
        BY <2>0, <2>3, <2>4, BoundAssumption DEF Counted
      <3> QED
        BY <2>0, <3>1 DEF Used
    <2>7. AdmittedIn(client[r], Since(w.start)) >= MaxRequests
      BY <1>1, <2>0, <2>2, <2>5, <2>6 DEF IInv, QuotaAdmitted
    <2>8. Since(w.start) \subseteq {t \in Times : t > stamp[r] - Window}
      <3>1. w.start \in Nat /\ stamp[r] \in Nat /\ Window \in Nat
        BY <2>0, <2>4
      <3>2. \A t \in Nat : t >= w.start => t > stamp[r] - Window
        BY <2>5, <3>1
      <3> QED
        BY <2>0, <3>2 DEF Since
    <2>9. AdmittedIn(client[r], Since(w.start)) \in Nat
          /\ AdmittedIn(client[r], Since(w.start))
               <= AdmittedIn(client[r], {t \in Times : t > stamp[r] - Window})
          /\ AdmittedIn(client[r], {t \in Times : t > stamp[r] - Window}) \in Nat
      BY <2>0, <2>8, AdmittedMonotone
    <2> QED
      BY <2>0, <2>7, <2>9
  <1>2. ASSUME IInv, [Next]_vars PROVE [\A r \in Requests : Earned(r)]_vars
    <2>1. ASSUME NEW q \in Requests, NEW c \in Clients, ReadClock(q, c), NEW r \in Requests
          PROVE  Earned(r)
      BY <1>2, <2>1 DEF ReadClock, IInv, TypeOK
    <2>2. CASE Tick
      BY <2>2 DEF Tick
    <2> QED
      BY <1>1, <1>2, <2>1, <2>2 DEF Next
  <1> QED
    BY Invariance, <1>2, PTL DEF Spec, RefusedOverQuota
=============================================================================
