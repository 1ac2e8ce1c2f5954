-------------------------- MODULE AuthContinueProofs --------------------------
(***************************************************************************)
(* Theorems about AuthContinue for every set of pages and links, and every  *)
(* depth to which a returnTo may be nested: the lemmas about URLs, and that *)
(* every redirect keeps the page first asked for.                          *)
(***************************************************************************)
EXTENDS AuthContinue, SequenceTheorems, TLAPS

Routes == Pages \cup {Refused, "login"} \cup Checked
Forwarding == Checked \cup {"login"}

\* The URLs a browser is sent to.
URLs == {u \in Seq(Routes) : u # <<>> /\ Head(u) # Refused /\ WellFormed(u)}

IInv == TypeOK /\ ReturnToKept

-----------------------------------------------------------------------------
(* URLs.                                                                   *)

LEMMA URLFacts ==
  ASSUME NEW u \in URLs
  PROVE  /\ u \in Seq(Routes) /\ Len(u) \in Nat \ {0}
         /\ Head(u) = u[1] /\ u[1] \in Routes /\ u[1] # Refused
         /\ \A i \in 1..Len(u) : u[i] \in Routes /\ (i < Len(u) => u[i] \in Forwarding)
  <1>1. u \in Seq(Routes) /\ u # <<>> /\ Head(u) # Refused /\ WellFormed(u)
    BY DEF URLs
  <1>2. Len(u) \in Nat \ {0} /\ Head(u) = u[1] /\ DOMAIN u = 1..Len(u)
    BY <1>1
  <1> QED
    BY <1>1, <1>2 DEF WellFormed, Forwarding

\* A page is a URL, as are the routes that lead nowhere.
LEMMA SingleRoute ==
  ASSUME NEW x \in Routes \ {Refused}
  PROVE  /\ <<x>> \in URLs
         /\ Destination(<<x>>) = IF x \in Pages THEN x ELSE "dashboard"
  BY DEF URLs, WellFormed, Destination

\* A URL in the returnTo of a route that sends on.
LEMMA Prepend ==
  ASSUME NEW x \in Forwarding, NEW u \in URLs
  PROVE  /\ <<x>> \o u \in URLs
         /\ Head(<<x>> \o u) = x
         /\ Destination(<<x>> \o u) = Destination(u)
  <1> DEFINE v == <<x>> \o u
  <1>1. x \in Routes /\ x # Refused
    BY PagesAssumption DEF Routes, Forwarding
  <1>2. /\ v \in Seq(Routes) /\ Len(v) = Len(u) + 1
        /\ v[1] = x /\ \A i \in 1..Len(u) : v[i + 1] = u[i]
    BY <1>1, URLFacts
  <1> HIDE DEF v
  <1>3. v # <<>> /\ Head(v) = x
    BY <1>2, URLFacts
  <1>4. WellFormed(v)
    <2> SUFFICES ASSUME NEW i \in 1..Len(v), i < Len(v)
                 PROVE  v[i] \in Forwarding
      BY <1>2 DEF WellFormed, Forwarding
    <2>1. CASE i = 1
      BY <1>2, <2>1
    <2>2. CASE i # 1
      <3>1. i - 1 \in 1..Len(u) /\ i - 1 < Len(u)
        BY <1>2, <2>2, URLFacts
      <3>2. v[(i - 1) + 1] = u[i - 1]
        BY <1>2, <3>1
      <3>3. u[i - 1] \in Forwarding
        BY <3>1, URLFacts
      <3> QED
        BY <3>2, <3>3
    <2> QED
      BY <2>1, <2>2
  <1>5. v[Len(v)] = u[Len(u)]
    BY <1>2, URLFacts
  <1> QED
    BY <1>1, <1>2, <1>3, <1>4, <1>5 DEF URLs, Destination, v

\* What a URL returns to, if anything.
LEMMA TailOfURL ==
  ASSUME NEW u \in URLs, Tail(u) # <<>>, Tail(u) # <<Refused>>
  PROVE  Tail(u) \in URLs /\ Destination(Tail(u)) = Destination(u)
  <1> DEFINE v == Tail(u)
  <1>1. /\ v \in Seq(Routes) /\ Len(v) = Len(u) - 1
        /\ \A i \in 1..Len(v) : v[i] = u[i + 1]
    BY URLFacts
  <1>2. v # <<>> /\ v # <<Refused>>
    OBVIOUS
  <1> HIDE DEF v
  <1>3. Len(v) \in Nat \ {0}
    BY <1>1, <1>2
  <1>4. \A i \in 1..Len(v) : i < Len(v) => v[i] \in Forwarding
    <2> SUFFICES ASSUME NEW i \in 1..Len(v), i < Len(v)
                 PROVE  v[i] \in Forwarding
      OBVIOUS
    <2>1. i + 1 \in 1..Len(u) /\ i + 1 < Len(u)
      BY <1>1, <1>3, URLFacts
    <2> QED
      BY <1>1, <2>1, URLFacts
  <1>5. Head(v) # Refused
    <2>1. Head(v) = v[1]
      BY <1>1, <1>3
    <2>2. CASE Len(v) = 1
      BY <1>1, <1>2, <2>1, <2>2
    <2>3. CASE Len(v) # 1
      <3>1. v[1] \in Forwarding
        <4>1. 1 \in 1..Len(v) /\ 1 < Len(v)
          <5>1. \A n \in Nat \ {0} : n # 1 => 1 \in 1..n /\ 1 < n
            OBVIOUS
          <5> QED
            BY <1>3, <2>3, <5>1
        <4> QED
          BY <1>4, <4>1
      <3>2. Refused \notin Forwarding
        BY PagesAssumption DEF Forwarding
      <3> QED
        BY <2>1, <3>1, <3>2
    <2> QED
      BY <2>2, <2>3
  <1>6. WellFormed(v)
    BY <1>1, <1>4 DEF WellFormed, Forwarding
  <1>7. v[Len(v)] = u[Len(u)]
    BY <1>1, <1>3, URLFacts
  <1> QED
    BY <1>1, <1>2, <1>5, <1>6, <1>7 DEF URLs, Destination, v

\* safeReturnTo: nothing, or nothing safe, is the dashboard, which is where a URL
\* that ends so leads; anything else stays.
LEMMA SafeReturn ==
  ASSUME NEW u \in URLs, Head(u) \in Forwarding
  PROVE  Safe(Tail(u)) \in URLs /\ Destination(Safe(Tail(u))) = Destination(u)
  <1>1. "dashboard" \in Routes \ {Refused} /\ "dashboard" \in Pages
    BY PagesAssumption DEF Routes
  <1>2. <<"dashboard">> \in URLs /\ Destination(<<"dashboard">>) = "dashboard"
    BY <1>1, SingleRoute
  <1>3. CASE Tail(u) = <<>>
    <2>1. u[Len(u)] = Head(u)
      <3>1. Len(Tail(u)) = Len(u) - 1
        BY URLFacts
      <3>2. Len(Tail(u)) = 0
        <4>1. Len(<<>>) = 0
          OBVIOUS
        <4> QED
          BY <1>3, <4>1
      <3> QED
        BY <3>1, <3>2, URLFacts
    <2>2. Destination(u) = "dashboard"
      BY <2>1, PagesAssumption DEF Destination, Forwarding
    <2> QED
      BY <1>2, <1>3, <2>2 DEF Safe
  <1>4. CASE Tail(u) = <<Refused>>
    <2>1. u[Len(u)] = Refused
      <3>1. /\ Len(Tail(u)) = Len(u) - 1
            /\ \A i \in 1..Len(Tail(u)) : Tail(u)[i] = u[i + 1]
        BY URLFacts
      <3>2. Len(Tail(u)) = 1 /\ Tail(u)[1] = Refused
        <4>1. ASSUME NEW v, v = <<Refused>>
              PROVE  Len(v) = 1 /\ v[1] = Refused
          BY <4>1
        <4> QED
          BY <1>4, <4>1
      <3> QED
        BY <3>1, <3>2, URLFacts
    <2>2. Destination(u) = "dashboard"
      BY <2>1, PagesAssumption DEF Destination
    <2> QED
      BY <1>2, <1>4, <2>2 DEF Safe
  <1>5. CASE Tail(u) # <<>> /\ Tail(u) # <<Refused>>
    BY <1>5, TailOfURL DEF Safe
  <1> QED
    BY <1>3, <1>4, <1>5

\* The login page replaces itself by /auth/continue.
LEMMA ReplaceHead ==
  ASSUME NEW u \in URLs, Head(u) = "login"
  PROVE  /\ <<"continue">> \o Tail(u) \in URLs
         /\ Destination(<<"continue">> \o Tail(u)) = Destination(u)
  <1> DEFINE v == <<"continue">> \o Tail(u)
  <1>1. /\ v \in Seq(Routes) /\ Len(v) = Len(u)
        /\ v[1] = "continue" /\ \A i \in 2..Len(v) : v[i] = u[i]
    <2>1. "continue" \in Routes
      BY DEF Routes, Checked
    <2>2. /\ Tail(u) \in Seq(Routes) /\ Len(Tail(u)) = Len(u) - 1
          /\ \A i \in 1..Len(Tail(u)) : Tail(u)[i] = u[i + 1]
      BY URLFacts
    <2>3. /\ v \in Seq(Routes) /\ Len(v) = Len(Tail(u)) + 1
          /\ v[1] = "continue" /\ \A i \in 1..Len(Tail(u)) : v[i + 1] = Tail(u)[i]
      BY <2>1, <2>2
    <2> HIDE DEF v
    <2>4. ASSUME NEW i \in 2..Len(v)
          PROVE  v[i] = u[i]
      <3>1. i - 1 \in 1..Len(Tail(u)) /\ (i - 1) + 1 = i
        BY <2>2, <2>3, URLFacts
      <3> QED
        BY <2>2, <2>3, <3>1
    <2> QED
      BY <2>2, <2>3, <2>4, URLFacts
  <1> HIDE DEF v
  <1>2. v # <<>> /\ Head(v) = "continue" /\ "continue" # Refused
    BY <1>1, URLFacts, PagesAssumption DEF Checked
  <1>3. WellFormed(v)
    BY <1>1, URLFacts DEF WellFormed, Forwarding, Checked
  <1>4. Destination(v) = Destination(u)
    <2>1. CASE Len(u) = 1
      BY <1>1, <2>1, URLFacts, PagesAssumption DEF Destination, Checked
    <2>2. CASE Len(u) # 1
      BY <1>1, <2>2, URLFacts DEF Destination
    <2> QED
      BY <2>1, <2>2
  <1> QED
    BY <1>1, <1>2, <1>3, <1>4 DEF URLs, v

-----------------------------------------------------------------------------
LEMMA InitIInv == Init => IInv
  <1> SUFFICES ASSUME Init PROVE IInv
    OBVIOUS
  <1>1. "dashboard" \in Routes \ {Refused} /\ "dashboard" \in Pages /\ "dashboard" \notin Checked
    BY PagesAssumption DEF Routes
  <1>2. url \in URLs /\ Destination(url) = "dashboard"
    BY <1>1, SingleRoute DEF Init
  <1>3. Head(url) = "dashboard"
    BY DEF Init
  <1>4. url \in Seq(Routes) /\ url # <<>> /\ WellFormed(url)
    BY <1>2 DEF URLs
  <1>5. TypeOK
    BY <1>1, <1>3, <1>4, PagesAssumption DEF Init, TypeOK, Routes, Checked
  <1> QED
    BY <1>2, <1>5 DEF Init, IInv, ReturnToKept

-----------------------------------------------------------------------------
(* Steps.                                                                  *)

LEMMA AtURL ==
  ASSUME TypeOK
  PROVE  url \in URLs
  BY DEF TypeOK, URLs, Routes

\* Wherever the browser is sent, what it shows at once is not checked.
LEMMA LoadTypeOK ==
  ASSUME NEW u \in URLs, NEW signedIn \in BOOLEAN, Load(u, signedIn), signedIn => session',
         session' \in BOOLEAN, status' \in Statuses, answer' \in Statuses \cup {"null", "none"},
         wanted' \in Pages, lost' \in BOOLEAN
  PROVE  TypeOK'
  <1>1. u \in Seq(Routes) /\ u # <<>> /\ WellFormed(u) /\ Head(u) # Refused
    BY DEF URLs
  <1> HIDE DEF Routes
  <1>2. url' = u
    BY DEF Load
  <1>3. /\ pc' \in {"request", "shown"} /\ cookie' \in BOOLEAN /\ (cookie' => session')
        /\ pc' = "shown" => Head(u) \notin Checked
    BY DEF Load
  <1>4. WellFormed(url)'
    BY <1>1, <1>2 DEF WellFormed
  <1> QED
    BY <1>1, <1>2, <1>3, <1>4 DEF TypeOK, Routes, Checked

\* A redirect to a URL that leads where this one does.
LEMMA RedirectIInv ==
  ASSUME IInv, NEW u \in URLs, Destination(u) = Destination(url), Navigate(u),
         UNCHANGED <<session, status, answer, wanted, lost>>
  PROVE  IInv'
  <1>1. TypeOK'
    BY LoadTypeOK DEF IInv, TypeOK, Navigate
  <1>2. url' = u
    BY DEF Navigate, Load
  <1>3. Destination(url') = Destination(url)
    BY <1>2
  <1>4. ReturnToKept'
    BY <1>3 DEF IInv, ReturnToKept, Destination
  <1> QED
    BY <1>1, <1>4 DEF IInv

LEMMA OpenIInv ==
  ASSUME IInv, NEW u \in Links, Open(u)
  PROVE  IInv'
  <1>1. u \in URLs
    BY LinksAssumption DEF URLs, Routes
  <1>2. Destination(u) \in Pages
    BY PagesAssumption DEF Destination
  <1>3. TypeOK'
    BY <1>1, <1>2, LoadTypeOK DEF IInv, TypeOK, Open, Navigate, outside
  <1>4. url' = u /\ wanted' = Destination(u)
    BY DEF Open, Navigate, Load
  <1>5. ReturnToKept'
    BY <1>4 DEF ReturnToKept, Destination
  <1> QED
    BY <1>3, <1>5 DEF IInv

LEMMA ContinueIInv ==
  ASSUME IInv, Continue
  PROVE  IInv'
  <1> DEFINE returnTo == Safe(Tail(url))
  <1>1. returnTo \in URLs /\ Destination(returnTo) = Destination(url)
    BY AtURL, SafeReturn DEF IInv, Continue, Forwarding, Checked
  <1>2. UNCHANGED <<session, status, answer, wanted, lost>>
    BY DEF Continue, outside
  <1>3. \/ Navigate(<<"login">> \o returnTo)
        \/ Navigate(returnTo)
        \/ Navigate(<<"verification">> \o returnTo)
    BY DEF Continue, ToVerification
  <1> HIDE DEF returnTo
  <1>4. \A x \in Forwarding : /\ <<x>> \o returnTo \in URLs
                              /\ Destination(<<x>> \o returnTo) = Destination(url)
    BY <1>1, Prepend
  <1>5. {"login", "verification"} \subseteq Forwarding
    BY DEF Forwarding, Checked
  <1>6. CASE Navigate(<<"login">> \o returnTo)
    BY <1>2, <1>4, <1>5, <1>6, RedirectIInv
  <1>7. CASE Navigate(returnTo)
    BY <1>1, <1>2, <1>7, RedirectIInv
  <1>8. CASE Navigate(<<"verification">> \o returnTo)
    BY <1>2, <1>4, <1>5, <1>8, RedirectIInv
  <1> QED
    BY <1>3, <1>6, <1>7, <1>8

\* Without a session the page first asked for is lost, which is noted.
LEMMA VerificationPageIInv ==
  ASSUME IInv, VerificationPage
  PROVE  IInv'
  <1>0. Head(url) = "verification" /\ UNCHANGED <<session, status, answer, wanted>>
    BY DEF VerificationPage, outside
  <1>1. CASE Navigate(<<"login", "verification">>) /\ lost' = TRUE
    <2> DEFINE u == <<"login", "verification">>
    <2>1. /\ u \in Seq(Routes) /\ u # <<>> /\ Head(u) = "login" /\ Len(u) = 2
          /\ u[1] = "login" /\ u[2] = "verification"
      BY DEF Routes, Checked
    <2>2. url' = u
      BY <1>1 DEF Navigate, Load
    <2> HIDE DEF u
    <2>3. WellFormed(u)
      BY <2>1 DEF WellFormed, Checked
    <2>4. u \in URLs
      BY <2>1, <2>3, PagesAssumption DEF URLs
    <2>5. TypeOK'
      BY <1>0, <1>1, <2>4, LoadTypeOK DEF IInv, TypeOK, Navigate, u
    <2>6. Destination(u) = "dashboard"
      BY <2>1, PagesAssumption DEF Destination, Checked
    <2>7. ReturnToKept'
      BY <1>1, <2>2, <2>6 DEF ReturnToKept, Destination
    <2> QED
      BY <2>5, <2>7 DEF IInv
  <1>2. CASE Navigate(Safe(Tail(url))) /\ UNCHANGED lost
    <2>1. Safe(Tail(url)) \in URLs /\ Destination(Safe(Tail(url))) = Destination(url)
      BY <1>0, AtURL, SafeReturn DEF IInv, Forwarding, Checked
    <2> QED
      BY <1>0, <1>2, <2>1, RedirectIInv
  <1>3. CASE answer \in Unverified /\ pc' = "shown" /\ UNCHANGED <<url, cookie, lost>>
    BY <1>0, <1>3 DEF IInv, TypeOK, ReturnToKept, Destination, WellFormed
  <1> QED
    BY <1>1, <1>2, <1>3 DEF VerificationPage

LEMMA LoginIInv ==
  ASSUME IInv, Login
  PROVE  IInv'
  <1> DEFINE u == <<"continue">> \o Tail(url)
  <1>1. u \in URLs /\ Destination(u) = Destination(url)
    BY AtURL, ReplaceHead DEF IInv, Login
  <1>2. session' = TRUE /\ Load(u, TRUE) /\ UNCHANGED <<status, answer, wanted, lost>>
    BY DEF Login
  <1> HIDE DEF u
  <1>3. TypeOK'
    BY <1>1, <1>2, LoadTypeOK DEF IInv, TypeOK
  <1>4. Destination(url') = Destination(url)
    BY <1>1, <1>2 DEF Load
  <1>5. ReturnToKept'
    BY <1>2, <1>4 DEF IInv, ReturnToKept, Destination
  <1> QED
    BY <1>3, <1>5 DEF IInv

LEMMA NextIInv ==
  ASSUME IInv, [Next]_vars
  PROVE  IInv'
  <1>1. CASE GetVerificationState
    BY <1>1 DEF GetVerificationState, Fetch, FetchFails, outside, IInv, TypeOK, ReturnToKept,
                Destination, WellFormed
  <1>2. CASE Continue
    BY <1>2, ContinueIInv
  <1>3. CASE VerificationPage
    BY <1>3, VerificationPageIInv
  <1>4. CASE \E u \in Links : Open(u)
    BY <1>4, OpenIInv
  <1>5. CASE Reload
    BY <1>5, AtURL, RedirectIInv DEF IInv, Reload, outside
  <1>6. CASE Back
    <2>1. Safe(Tail(url)) \in URLs /\ Destination(Safe(Tail(url))) = Destination(url)
      BY <1>6, AtURL, SafeReturn DEF IInv, Back, Forwarding, Checked
    <2> QED
      BY <1>6, <2>1, RedirectIInv DEF Back, outside
  <1>7. CASE Login
    BY <1>7, LoginIInv
  <1>8. CASE Elsewhere
    <2>1. UNCHANGED <<url, pc, answer, wanted, lost>>
      BY <1>8 DEF Elsewhere
    <2>2. session' \in BOOLEAN /\ status' \in Statuses /\ cookie' \in BOOLEAN
      BY <1>8 DEF Elsewhere, IInv, TypeOK
    <2>3. cookie' => session'
      BY <1>8 DEF Elsewhere, IInv, TypeOK
    <2> QED
      BY <2>1, <2>2, <2>3 DEF IInv, TypeOK, ReturnToKept, Destination, WellFormed
  <1>9. CASE UNCHANGED vars
    BY <1>9 DEF vars, outside, IInv, TypeOK, ReturnToKept, Destination, WellFormed
  <1> QED
    BY <1>1, <1>2, <1>3, <1>4, <1>5, <1>6, <1>7, <1>8, <1>9 DEF Next, Serve

-----------------------------------------------------------------------------
\* Types and destination are inductive together: a URL that is well formed keeps
\* its last route through whatever the routes put in front of it or take off.
THEOREM Invariance == Spec => []IInv
  <1> QED
    BY InitIInv, NextIInv, PTL DEF Spec

\* The state is well typed: no tab is at a refused URL, /auth/continue is never
\* shown, and the verification page only for a status it has a text for.
THEOREM TypeCorrectness == Spec => []TypeOK
  <1>1. IInv => TypeOK
    BY DEF IInv
  <1> QED
    BY Invariance, <1>1, PTL

\* safeReturnTo, /auth/continue, the verification page, its link back and the
\* login keep the page first asked for, however deep returnTo is nested.
THEOREM ReturnToIsKept == Spec => []ReturnToKept
  <1>1. IInv => ReturnToKept
    BY DEF IInv
  <1> QED
    BY Invariance, <1>1, PTL
=============================================================================
