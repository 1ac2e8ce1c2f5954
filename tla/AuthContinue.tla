---------------------------- MODULE AuthContinue ----------------------------
(***************************************************************************)
(* Where a user is sent after login: app/auth/continue/route.ts and         *)
(* app/settings/id_verification/page.tsx, which ask an endpoint for the     *)
(* state of the session (lib/verification.ts) and redirect.  The module     *)
(* follows one tab of the browser.  What other tabs and the rest of the     *)
(* system can do to it, they can do at any time: the session is created or   *)
(* ends, and the verification changes.  The two routes change nothing, so   *)
(* a navigation the user abandons need not be followed.                    *)
(*                                                                         *)
(* Not in src/: the endpoint and the login page, which are what README_FA.md *)
(* asks them to be, and the browser, which follows redirects.              *)
(*                                                                         *)
(* A URL is the sequence of a route, the route in its returnTo, the one in  *)
(* the returnTo of that, and so on; a parameter that safeReturnTo refuses   *)
(* is the route Refused.                                                   *)
(***************************************************************************)
EXTENDS Naturals, Sequences

CONSTANTS
  Pages,    \* routes that send nobody on, among them "dashboard"
  Links,    \* the URLs the user opens
  Refused   \* what does not start with one slash, or has a backslash in it

Checked == {"continue", "verification"}

\* What each route of a URL returns to, if anything, is the next.
WellFormed(url) ==
  \A i \in DOMAIN url : i < Len(url) => url[i] \in Checked \cup {"login"}

ASSUME PagesAssumption ==
  /\ "dashboard" \in Pages
  /\ Refused \notin Pages
  /\ (Pages \cup {Refused}) \cap (Checked \cup {"login"}) = {}
ASSUME LinksAssumption ==
  \A url \in Links :
    /\ url \in Seq(Pages \cup {Refused, "login"} \cup Checked)
    /\ url # <<>> /\ Head(url) # Refused /\ WellFormed(url)

Unverified == {"pending_submission", "pending_review", "rejected"}  \* the keys of copy
Statuses == Unverified \cup {"verified"}

VARIABLES
  session,  \* whether the browser has a valid session
  status,   \* what the endpoint knows of its user
  url,      \* where the tab is
  pc,       \* "request" and "answered" while it loads, "shown" or "failed"
  cookie,   \* whether the request carries a session that is still valid
  answer,   \* what getVerificationState returned last: a status or "null"
  wanted,   \* history: the page the user first asked for
  lost      \* history: the verification page was asked for without a session since

outside == <<session, status>>
vars == <<outside, url, pc, cookie, answer, wanted, lost>>

SafeToContinue(returnTo) ==
  IF returnTo = <<>> \/ returnTo = <<Refused>> THEN <<"continue">> ELSE returnTo

\* safeReturnTo.
Safe(returnTo) ==
  IF returnTo = <<>> \/ returnTo = <<Refused>> THEN <<"dashboard">> ELSE returnTo

\* The page at the end of a URL.
Destination(u) == IF u[Len(u)] \in Pages THEN u[Len(u)] ELSE "dashboard"

Init ==
  /\ session \in BOOLEAN
  /\ status \in Statuses
  /\ url = <<"dashboard">>
  /\ pc = "shown"
  /\ cookie = FALSE
  /\ answer = "none"
  /\ wanted = "dashboard"
  /\ lost = FALSE

-----------------------------------------------------------------------------
\* The browser asks for a URL; what is not checked is shown.
Load(u, signedIn) ==
  /\ url' = u
  /\ IF Head(u) \in Checked THEN pc' = "request" /\ cookie' = signedIn
     ELSE pc' = "shown" /\ cookie' = FALSE

Navigate(u) == Load(u, session)

\* The user opens a link or types an address.
Open(u) ==
  /\ pc \in {"shown", "failed"}
  /\ Navigate(u)
  /\ wanted' = Destination(u)
  /\ lost' = FALSE
  /\ UNCHANGED <<outside, answer>>

Reload ==
  /\ pc = "failed"
  /\ Navigate(url)
  /\ UNCHANGED <<outside, answer, wanted, lost>>

FetchCached ==
  /\ answer' = IF answer # "none" THEN answer ELSE IF cookie THEN status ELSE "null"
  /\ pc' = "answered"

\* fetch without a cache, and what is made of the response.
Fetch ==
  /\ answer' = IF cookie THEN status ELSE "null"
  /\ pc' = "answered"

FetchFails ==
  /\ pc' = "failed"
  /\ UNCHANGED answer

\* getVerificationState; any other response, or none, throws.
GetVerificationState ==
  /\ pc = "request"
  /\ Fetch \/ FetchFails
  /\ UNCHANGED <<outside, url, cookie, wanted, lost>>

ToVerificationOnly(returnTo) == <<"verification">>
ToVerification(returnTo) == <<"verification">> \o returnTo

\* GET of app/auth/continue/route.ts, from the answer on.
Continue ==
  LET returnTo == Safe(Tail(url)) IN
  /\ pc = "answered"
  /\ Head(url) = "continue"
  /\ \/ answer = "null" /\ Navigate(<<"login">> \o returnTo)
     \/ answer = "verified" /\ Navigate(returnTo)
     \/ answer \in Unverified /\ Navigate(ToVerification(returnTo))
  /\ UNCHANGED <<outside, answer, wanted, lost>>

VerificationPageAlways ==
  /\ pc = "answered"
  /\ Head(url) = "verification"
  /\ \/ answer = "null" /\ Navigate(<<"login", "verification">>) /\ lost' = TRUE
     \/ answer # "null" /\ pc' = "shown" /\ UNCHANGED <<url, cookie, lost>>
  /\ UNCHANGED <<outside, answer, wanted>>

\* IdVerificationPage, from the answer on: without a session the login returns to
\* the page and not to where the page would have returned.
VerificationPage ==
  /\ pc = "answered"
  /\ Head(url) = "verification"
  /\ \/ answer = "null" /\ Navigate(<<"login", "verification">>) /\ lost' = TRUE
     \/ answer = "verified" /\ Navigate(Safe(Tail(url))) /\ UNCHANGED lost
     \/ answer \in Unverified /\ pc' = "shown" /\ UNCHANGED <<url, cookie, lost>>
  /\ UNCHANGED <<outside, answer, wanted>>

\* The link of the page back to where the user came from.
Back ==
  /\ pc = "shown"
  /\ Head(url) = "verification"
  /\ Navigate(Safe(Tail(url)))
  /\ UNCHANGED <<outside, answer, wanted, lost>>

\* The login page goes on to /auth/continue with the returnTo it was given.
Login ==
  /\ pc = "shown"
  /\ Head(url) = "login"
  /\ session' = TRUE
  /\ Load(<<"continue">> \o Tail(url), TRUE)
  /\ UNCHANGED <<status, answer, wanted, lost>>

\* Elsewhere: a login, whose cookie requests under way do not carry; the end of
\* the session; a submission or a decision.
Elsewhere ==
  /\ \/ session' = TRUE /\ UNCHANGED <<status, cookie>>
     \/ session' = FALSE /\ cookie' = FALSE /\ UNCHANGED status
     \/ status' \in Statuses /\ UNCHANGED <<session, cookie>>
  /\ UNCHANGED <<url, pc, answer, wanted, lost>>

Serve == GetVerificationState \/ Continue \/ VerificationPage

Next == Serve \/ (\E u \in Links : Open(u)) \/ Reload \/ Back \/ Login \/ Elsewhere

Spec == Init /\ [][Next]_vars

\* Requests are served, and fetch gives up in the end.
FairSpec == Spec /\ WF_vars(Serve)

-----------------------------------------------------------------------------
(* Properties.                                                             *)

\* The verification page is shown only for a status it has a text for, whatever
\* the status was when the user was sent there.
TypeOK ==
  /\ session \in BOOLEAN
  /\ status \in Statuses
  /\ url \in Seq(Pages \cup {Refused, "login"} \cup Checked) /\ url # <<>> /\ WellFormed(url)
  /\ pc \in {"request", "answered", "shown", "failed"}
  /\ cookie \in BOOLEAN /\ (cookie => session)
  /\ answer \in Statuses \cup {"null", "none"}
  /\ wanted \in Pages
  /\ lost \in BOOLEAN
  /\ Head(url) # Refused
  /\ pc = "shown" => Head(url) # "continue" /\ (Head(url) = "verification" => answer \in Unverified)

\* Through logins, detours and links back, however the returnTo is nested and
\* whatever happens to session and status meanwhile, a URL leads to the page first
\* asked for; only if the verification page was asked for without a session does
\* it lead to the dashboard.
ReturnToKept ==
  Destination(url) = wanted \/ (lost /\ Destination(url) = "dashboard")

\* Redirects end at a page, though session and status may change before each of
\* them: no returnTo and no default leads round in a circle.
EveryNavigationEnds == pc \in {"request", "answered"} ~> pc \in {"shown", "failed"}

\* A request that carries a session which stays valid, of a user who stays
\* verified, ends at the page wanted and never at the login or verification page,
\* whatever the routes were told before.
VerifiedGetsThrough ==
  (/\ pc = "request"
   /\ cookie
   /\ \A i \in DOMAIN url : url[i] # "login"
   /\ [](session /\ status = "verified"))
    ~> (pc = "failed" \/ (pc = "shown" /\ url = <<Destination(url)>>))
=============================================================================
