----------------------------- MODULE WebSession -----------------------------
(***************************************************************************)
(* The session of the web front end: a cookie that the page cannot read.     *)
(* Who the user is comes from GET /auth/me, asked when the page opens and    *)
(* after each login.  A request that is answered 401 asks once for a new     *)
(* cookie and is sent again.  /auth/refresh looks at the token alone, while  *)
(* /auth/me also looks for the account.                                     *)
(***************************************************************************)
EXTENDS Naturals

VARIABLES
    jar,      \* the cookie of the browser: "none", "live" or "expired"
    gone,     \* the account of the user was deleted
    known,    \* what the page knows: "loading", "authenticated", "anonymous"
    ask,      \* each request for the profile: "off", or its step
    entry,    \* the login form: "idle", "posting", "reading"
    leaving   \* signOut: "no", or "asked"

web == <<jar, gone, known, ask, entry, leaving>>

\* The reader of the profile: the page at its opening, and the login form.
Reader == {"boot", "form"}

WebInit ==
    /\ jar \in {"none", "live", "expired"}
    /\ gone \in BOOLEAN
    /\ known = "loading"
    /\ ask = [r \in Reader |-> IF r = "boot" THEN "first" ELSE "off"]
    /\ entry = "idle" /\ leaving = "no"

-----------------------------------------------------------------------------
(* A request: the first attempt, the new cookie, the second attempt.       *)

Admitted == jar = "live" /\ ~gone

To(r, step) == ask' = [ask EXCEPT ![r] = step]

\* The state of the page is written by whichever answer comes last.
Learns(r, what) ==
    /\ known' = what
    /\ To(r, "off")
    /\ entry' = IF r = "form" THEN "idle" ELSE entry

\* GET /auth/me: the profile, or 401, at the first attempt a reason to refresh.
ProfileRead(r) ==
    /\ ask[r] \in {"first", "second"} /\ Admitted
    /\ Learns(r, "authenticated")
    /\ UNCHANGED <<jar, gone, leaving>>

\* Mutant: the second attempt may refresh again.
RefreshAgain(r) ==
    /\ ask[r] \in {"first", "second"} /\ ~Admitted
    /\ To(r, "refresh")
    /\ UNCHANGED <<jar, gone, known, entry, leaving>>

Unauthorized(r) ==
    /\ ask[r] \in {"first", "second"} /\ ~Admitted
    /\ IF ask[r] = "first" THEN To(r, "refresh") /\ UNCHANGED <<known, entry>>
       ELSE Learns(r, "anonymous")
    /\ UNCHANGED <<jar, gone, leaving>>

\* POST /auth/refresh signs the token again and sets the cookie.
Refreshed(r) ==
    /\ ask[r] = "refresh"
    /\ IF jar = "live" THEN To(r, "second") /\ UNCHANGED <<known, entry>>
       ELSE Learns(r, "anonymous")
    /\ UNCHANGED <<jar, gone, leaving>>

\* No answer, or an error of the server, is anonymous too.
ReadFails(r) ==
    /\ ask[r] # "off"
    /\ Learns(r, "anonymous")
    /\ UNCHANGED <<jar, gone, leaving>>

Reading == \E r \in Reader : ProfileRead(r) \/ Unauthorized(r) \/ Refreshed(r) \/ ReadFails(r)

-----------------------------------------------------------------------------
(* The user and the clock.                                                 *)

\* The page of login can be opened by anyone.
PostLogin ==
    /\ entry = "idle" /\ leaving = "no"
    /\ entry' = "posting"
    /\ UNCHANGED <<jar, gone, known, ask, leaving>>

\* /auth/login or /auth/register sets the cookie; signIn then asks who it is.
LoggedIn ==
    /\ entry = "posting"
    /\ jar' = "live" /\ gone' = FALSE
    /\ entry' = "reading" /\ To("form", "first")
    /\ UNCHANGED <<known, leaving>>

LoginFails ==
    /\ entry = "posting"
    /\ entry' = "idle"
    /\ UNCHANGED <<jar, gone, known, ask, leaving>>

SignOutAsked ==
    /\ known = "authenticated" /\ leaving = "no" /\ entry = "idle"
    /\ leaving' = "asked"
    /\ UNCHANGED <<jar, gone, known, ask, entry>>

\* Best effort: the page forgets the user whether the cookie was cleared or not.
SignedOut ==
    /\ leaving = "asked"
    /\ jar' \in {jar, "none"}
    /\ known' = "anonymous" /\ leaving' = "no"
    /\ UNCHANGED <<gone, ask, entry>>

CookieExpires ==
    /\ jar = "live"
    /\ jar' = "expired"
    /\ UNCHANGED <<gone, known, ask, entry, leaving>>

AccountDeleted ==
    /\ ~gone
    /\ gone' = TRUE
    /\ UNCHANGED <<jar, known, ask, entry, leaving>>

WebNext ==
    \/ Reading
    \/ PostLogin \/ LoggedIn \/ LoginFails
    \/ SignOutAsked \/ SignedOut
    \/ CookieExpires \/ AccountDeleted

-----------------------------------------------------------------------------
(* Properties.                                                             *)

WebTypeOK ==
    /\ jar \in {"none", "live", "expired"} /\ gone \in BOOLEAN
    /\ known \in {"loading", "authenticated", "anonymous"}
    /\ ask \in [Reader -> {"off", "first", "refresh", "second"}]
    /\ entry \in {"idle", "posting", "reading"} /\ leaving \in {"no", "asked"}

-----------------------------------------------------------------------------
(* What the code or its comments say, and the code does not do.             *)

\* A login that succeeded is not undone by the answer to an older question.
SignInSticks ==
    [][known = "authenticated" /\ Admitted /\ leaving = "no" => known' = "authenticated"]_web

\* One who signed out is not shown as signed in without a login.
SignOutSticks ==
    [][known = "anonymous" /\ ask["form"] = "off" => known' # "authenticated"]_web
=============================================================================
