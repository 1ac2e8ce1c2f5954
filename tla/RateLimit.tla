----------------------------- MODULE RateLimit -----------------------------
(***************************************************************************)
(* The middleware RateLimit (internal/api/middleware.go): a fixed window    *)
(* per client address, kept in a map under a mutex.  A request reads the    *)
(* clock before it takes the mutex, so requests may be counted in an order  *)
(* that is not the order of their times.                                   *)
(*                                                                         *)
(* Outside src/: the clock, which never goes back (time.Now is monotonic),  *)
(* the scheduler, and what requestIP reads, of which only the result counts.*)
(***************************************************************************)
EXTENDS Integers, FiniteSets, Sequences

CONSTANTS
  Requests,    \* the requests being served, one at a time each
  Clients,     \* the values requestIP returns
  Window,      \* windowDuration, in ticks of the clock
  MaxRequests, \* maxRequests
  MaxCount,    \* the count beyond which no request comes (a bound of the model)
  MaxNow       \* the last tick (a bound of the model)

\* A server has finitely many requests at a time.
ASSUME RequestsAssumption == IsFiniteSet(Requests)
ASSUME WindowAssumption == Window \in Nat \ {0} /\ MaxRequests \in Nat \ {0}
ASSUME BoundAssumption == MaxCount \in Nat /\ MaxNow \in Nat

Times == 0..MaxNow

VARIABLES
  now,       \* time.Now()
  window,    \* the map clients: the start of each window and its count, or NoWindow
  waiting,   \* the requests that have read the clock and wait for the mutex
  client,    \* the address of each request
  stamp,     \* the time each waiting request read; 0 once it is counted
  refused,   \* whether each request was answered 429
  admitted   \* history: the ticks at which requests of each client were let through

vars == <<now, window, waiting, client, stamp, refused, admitted>>

\* No entry: its count of 0 tells it from a window, whose count is at least 1.
NoWindow == [start |-> 0, requests |-> 0]

Init ==
  /\ now = 0
  /\ window = [c \in Clients |-> NoWindow]
  /\ waiting = {}
  /\ client \in [Requests -> Clients]
  /\ stamp = [r \in Requests |-> 0]
  /\ refused = [r \in Requests |-> FALSE]
  /\ admitted = [c \in Clients |-> <<>>]

-----------------------------------------------------------------------------
\* requestIP and time.Now.
ReadClock(r, c) ==
  /\ r \notin waiting
  /\ window[c].requests < MaxCount
  /\ waiting' = waiting \cup {r}
  /\ client' = [client EXCEPT ![r] = c]
  /\ stamp' = [stamp EXCEPT ![r] = now]
  /\ refused' = [refused EXCEPT ![r] = FALSE]
  /\ UNCHANGED <<now, window, admitted>>

OverLate(w, t) == w = NoWindow \/ t - w.start > Window

\* The window is missing or over; an older time than its start does not end it.
Over(w, t) == w = NoWindow \/ t - w.start >= Window

OpenUntil(t) == [start |-> t + Window, requests |-> 1]
Open(t) == [start |-> t, requests |-> 1]

CountedOnceOnly(w) == w
Counted(w) == [w EXCEPT !.requests = @ + 1]

Admit(r) == admitted' = [admitted EXCEPT ![client[r]] = Append(@, now)]

\* The critical section, and the answer it decides.
Count(r) ==
  LET c == client[r]
      w == window[c]
  IN
  /\ r \in waiting
  /\ waiting' = waiting \ {r}
  /\ \/ /\ Over(w, stamp[r])
        /\ window' = [window EXCEPT ![c] = Open(stamp[r])]
        /\ Admit(r)
        /\ UNCHANGED refused
     \/ /\ ~Over(w, stamp[r])
        /\ Counted(w).requests <= MaxRequests
        /\ window' = [window EXCEPT ![c] = Counted(w)]
        /\ Admit(r)
        /\ UNCHANGED refused
     \/ /\ ~Over(w, stamp[r])
        /\ Counted(w).requests > MaxRequests
        /\ window' = [window EXCEPT ![c] = Counted(w)]
        /\ refused' = [refused EXCEPT ![r] = TRUE]
        /\ UNCHANGED admitted
  /\ stamp' = [stamp EXCEPT ![r] = 0]
  /\ UNCHANGED <<now, client>>

Tick ==
  /\ now < MaxNow
  /\ now' = now + 1
  /\ UNCHANGED <<window, waiting, client, stamp, refused, admitted>>

Next ==
  \/ \E r \in Requests : Count(r) \/ \E c \in Clients : ReadClock(r, c)
  \/ Tick

Spec == Init /\ [][Next]_vars

-----------------------------------------------------------------------------
(* Properties.                                                             *)

\* No window starts in the future.
TypeOK ==
  /\ now \in Times
  /\ window \in [Clients -> [start : 0..now, requests : 0..(MaxCount + Cardinality(Requests))]]
  /\ waiting \subseteq Requests
  /\ client \in [Requests -> Clients]
  /\ stamp \in [Requests -> 0..now]
  /\ refused \in [Requests -> BOOLEAN]
  /\ admitted \in [Clients -> Seq(0..now)]

AdmittedIn(c, ticks) == Cardinality({i \in DOMAIN admitted[c] : admitted[c][i] \in ticks})

\* A request is refused only if, since one window before the time it read, as
\* many requests of its own client as are allowed were let through: what others
\* send, or what came earlier, counts against nobody.
RefusedOverQuota ==
  [][\A r \in Requests :
       refused'[r] /\ ~refused[r] =>
         AdmittedIn(client[r], {t \in Times : t > stamp[r] - Window}) >= MaxRequests]_vars

\* In any stretch of real time as long as a window a client gets no more than
\* two windows' worth of requests, at the end of one and the start of the next,
\* and one for every other request that was waiting for the mutex with an older
\* time.
BurstBound ==
  \A c \in Clients, t \in Times :
    AdmittedIn(c, {u \in Times : t <= u /\ u < t + Window})
      <= 2 * MaxRequests + Cardinality(Requests) - 1
=============================================================================
