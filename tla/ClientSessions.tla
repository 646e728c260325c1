--------------------------- MODULE ClientSessions ---------------------------
(***************************************************************************)
(* The clients of the API side by side: the mobile application, the session  *)
(* of the web front end, its pages of one mission, the sign-in by code, and   *)
(* the limiter of requests.  They share nothing but the server that answers,  *)
(* so each behaviour follows one of them.                                     *)
(***************************************************************************)
EXTENDS MobileSession, WebSession, MagicLink, MissionPages, RateLimit

VARIABLE client   \* the one that this behaviour follows

clients == <<client, mobile, web, magic, pages, rate>>

ClientInit ==
    /\ client \in {"mobile", "web", "code", "pages", "limiter"}
    /\ MobileInit /\ (client = "mobile" \/ stored = "none")
    /\ WebInit /\ (client = "web" \/ (jar = "none" /\ ~gone))
    /\ LinkInit /\ RateInit
    /\ PagesInit /\ (client = "pages" \/ row.status = "CREATED")

Phone   == client = "mobile"  /\ UNCHANGED <<client, web, magic, pages, rate>>
Browser == client = "web"     /\ UNCHANGED <<client, mobile, magic, pages, rate>>
Code    == client = "code"    /\ UNCHANGED <<client, mobile, web, pages, rate>>
Tabs    == client = "pages"   /\ UNCHANGED <<client, mobile, web, magic, rate>>
Limiter == client = "limiter" /\ UNCHANGED <<client, mobile, web, magic, pages>>

ClientNext ==
    \/ MobileNext /\ Phone
    \/ WebNext /\ Browser
    \/ LinkNext /\ Code
    \/ PagesNext /\ Tabs
    \/ RateNext /\ Limiter

\* A request is answered or fails (fetch has an end, the server answers), and the
\* keychain answers or fails.
ClientFairness ==
    /\ WF_clients(Hydration /\ Phone) /\ WF_clients(Keychain /\ Phone)
    /\ WF_clients(Reading /\ Browser)

ClientSpec == ClientInit /\ [][ClientNext]_clients /\ ClientFairness

-----------------------------------------------------------------------------

\* Every client comes to know whether it has a session: the splash screen of the phone
\* ends, unless the keychain fails, and no exchange of 401 and new cookies between
\* browser and server lasts for ever, whatever became of the cookie and the account.
ComesToKnow ==
    /\ (client = "mobile" /\ status = "loading") ~> (status # "loading" \/ broken)
    /\ (client = "web" /\ known = "loading") ~> (known # "loading")

\* No screen of the phone or the browser that stays open goes back to an older state
\* than it has shown, however late the answers come.
ScreensNeverGoBack == ShownNeverGoesBack /\ PageNeverGoesBack

\* Verifications that interleave with each other and with new codes open no more
\* sessions than codes were asked for, and compare each code a bounded number of times;
\* the limiter lets in no more than two windows' worth in the time of one.
EntryIsBounded == SessionsAreAskedFor /\ TriesAreBounded /\ RateIsBounded

-----------------------------------------------------------------------------
(* What one could expect and the code does not do.                         *)

\* The splash screen ends, whatever the keychain does.
BootAlwaysEnds == client = "mobile" /\ status = "loading" ~> status # "loading"

\* /auth/me: "un compte supprimé est immédiatement déconnecté".
DeletedIsOut == client = "web" /\ gone ~> known # "authenticated" \/ ~gone
=============================================================================
