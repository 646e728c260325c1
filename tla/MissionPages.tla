---------------------------- MODULE MissionPages ----------------------------
(***************************************************************************)
(* The pages of the web front end that move one mission.  A page loads the  *)
(* mission once, when it opens, and offers the button of the status it has   *)
(* seen; its answer replaces what the page shows.  Meanwhile the other page, *)
(* other clients and the workers move the mission, answers are lost, and     *)
(* pages are closed with their requests under way.                           *)
(***************************************************************************)
EXTENDS Naturals

CONSTANTS
    Fetch,     \* the requests that may be under way
    MaxMoves   \* bound of the model: how often the mission moves

ASSUME PagesAssumption == MaxMoves \in Nat \ {0}

VARIABLES
    row,      \* the mission of the server: its status, who carries it, its moves
    page,     \* what each user looks at: the page, the mission shown, the button
              \* that was pressed and is disabled
    fetch,    \* each request: whose, for what, how far, and its answer
    granted   \* the users of whom the last action was done by the server

pages == <<row, page, fetch, granted>>

User == {"buyer", "traveler"}

Seen(status, traveler, move) == [status |-> status, traveler |-> traveler, move |-> move]
Nothing == Seen("none", "none", 0)

NoFetch == [user |-> "none", what |-> "none", step |-> "free", answer |-> Nothing]
Away == [at |-> "away", shown |-> Nothing, pressed |-> "none"]

\* The buttons: on which page, for whom, and for a mission in which status.
Button(at, users, status, what) == [at |-> at, users |-> users, status |-> status, what |-> what]

Accept   == Button("mission",   {"traveler"}, "FUNDED",                "accept")
Ship     == Button("mission",   {"traveler"}, "MATCHED",               "ship")
Customs  == Button("mission",   {"traveler"}, "ESCROW_LOCKED_CUSTOMS", "customs")
Validate == Button("mission",   {"buyer"},    "AWAITING_VALIDATION",   "validate")
Receive  == Button("mission",   {"buyer"},    "IN_PROGRESS",           "receive")
Start    == Button("dashboard", {"traveler"}, "MATCHED",               "start")
Deposit  == Button("dashboard", {"traveler"}, "IN_PROGRESS",           "submit")
Take     == Button("catalogue", {"traveler"}, "FUNDED",                "match")
Intent   == Button("pay",       {"buyer"},    "CREATED",               "intent")

Buttons == {Accept, Ship, Customs, Validate, Receive, Start, Deposit, Take, Intent}

\* What page p of user u offers.
Offered(u, p) ==
    {b \in Buttons : /\ b.at = p.at /\ u \in b.users /\ b.status = p.shown.status
                     /\ b = Ship => p.shown.traveler = "ours"}

\* What the server does of it.  The page sends /receive without the code of the
\* seal, which the route requires: it is never done.
Effect == [accept   |-> <<"FUNDED", "MATCHED">>,
           match    |-> <<"FUNDED", "MATCHED">>,
           start    |-> <<"MATCHED", "IN_PROGRESS">>,
           ship     |-> <<"MATCHED", "IN_PROGRESS">>,
           submit   |-> <<"IN_PROGRESS", "AWAITING_VALIDATION">>,
           customs  |-> <<"ESCROW_LOCKED_CUSTOMS", "PENDING_CUSTOMS_REVIEW">>,
           validate |-> <<"AWAITING_VALIDATION", "VALIDATED">>,
           intent   |-> <<"CREATED", "FUNDED">>]

\* After these the page does not look at the mission that was answered.
Onward == {"submit", "match", "intent"}

\* Who is a participant of the mission, and may act on it.
Participant(u) == u = "buyer" \/ row.traveler = "ours"

MayAct(u, what) ==
    \/ what \in {"validate", "intent"} /\ u = "buyer"
    \/ what \in {"accept", "match"} /\ u = "traveler"
    \/ what \in {"start", "ship", "submit", "customs"} /\ u = "traveler" /\ row.traveler = "ours"

PagesInit ==
    /\ \E s \in {"CREATED", "MATCHED", "ESCROW_LOCKED_CUSTOMS"} :
         row = Seen(s, IF s = "CREATED" THEN "none" ELSE "ours", 1)
    /\ page = [u \in User |-> Away]
    /\ fetch = [i \in Fetch |-> NoFetch]
    /\ granted = {}

-----------------------------------------------------------------------------
(* The user.                                                               *)

Ask(i, u, what) ==
    /\ fetch[i] = NoFetch
    /\ fetch' = [fetch EXCEPT ![i] = [user |-> u, what |-> what, step |-> "sent", answer |-> Nothing]]

\* The pages that have a link for each user.
Linked(u) == IF u = "buyer" THEN {"mission", "pay"} ELSE {"mission", "catalogue", "dashboard"}

\* A page asks for its mission when it is shown.
Open(u, at, i) ==
    /\ page[u] = Away
    /\ page' = [page EXCEPT ![u] = [Away EXCEPT !.at = at]]
    /\ Ask(i, u, "load")
    /\ granted' = granted \ {u}
    /\ UNCHANGED row

\* Mutant: a button is not disabled while its request is under way.
PressTwice(u, i) ==
    /\ \E b \in Offered(u, page[u]) :
         /\ Ask(i, u, b.what)
         /\ page' = [page EXCEPT ![u].pressed = b.what]
    /\ granted' = granted \ {u}
    /\ UNCHANGED row

Press(u, i) ==
    /\ page[u].pressed = "none"
    /\ \E b \in Offered(u, page[u]) :
         /\ Ask(i, u, b.what)
         /\ page' = [page EXCEPT ![u].pressed = b.what]
    /\ granted' = granted \ {u}
    /\ UNCHANGED row

\* The answers to a page that is closed are for nobody; an action that was sent
\* may still be done.
Leave(u) ==
    /\ page[u] # Away
    /\ page' = [page EXCEPT ![u] = Away]
    /\ fetch' = [i \in Fetch |-> IF fetch[i].user # u THEN fetch[i]
                                 ELSE IF fetch[i].step = "sent" /\ fetch[i].what # "load"
                                      THEN [fetch[i] EXCEPT !.user = "none"]
                                 ELSE NoFetch]
    /\ granted' = granted \ {u}
    /\ UNCHANGED row

-----------------------------------------------------------------------------
(* The server.                                                             *)

\* A request goes on, unless nobody waits for its answer.
Goes(i, step) ==
    fetch' = [fetch EXCEPT ![i] = IF @.user = "none" THEN NoFetch ELSE [@ EXCEPT !.step = step]]

\* GET /:id answers the participants of the mission, /available everybody.
Load(i) ==
    /\ fetch[i].step = "sent" /\ fetch[i].what = "load"
    /\ LET u == fetch[i].user
           listed == page[u].at = "catalogue" IN
       fetch' = [fetch EXCEPT ![i].step =
                     IF listed \/ Participant(u) THEN "answered" ELSE "refused",
                 ![i].answer = IF listed => row.status = "FUNDED" THEN row ELSE Nothing]
    /\ UNCHANGED <<row, page, granted>>

\* An action is done on a mission that is still in the status it is for, and only
\* then is the mission read again for the answer; or it is refused.
Act(i) ==
    LET what == fetch[i].what IN
    /\ fetch[i].step = "sent" /\ what \in DOMAIN Effect
    /\ row.status = Effect[what][1]
    /\ \E u \in User : MayAct(u, what) /\ fetch[i].user \in {u, "none"}
    /\ row.move < MaxMoves
    /\ row' = Seen(Effect[what][2],
                   IF what \in {"accept", "match"} THEN "ours" ELSE row.traveler, row.move + 1)
    /\ Goes(i, "done")
    /\ granted' = granted \cup ({fetch[i].user} \cap User)
    /\ UNCHANGED page

Reread(i) ==
    /\ fetch[i].step = "done"
    /\ fetch' = [fetch EXCEPT ![i].step = "answered",
                 ![i].answer = IF fetch[i].what \in Onward THEN Nothing ELSE row]
    /\ UNCHANGED <<row, page, granted>>

\* The server refuses, or the request or its answer is lost.
Refuse(i) ==
    /\ fetch[i].step \in {"sent", "done"}
    /\ Goes(i, "refused")
    /\ UNCHANGED <<row, page, granted>>

\* MISSION_ALREADY_MATCHED, an error that the catalogue understands.
Taken(i) ==
    /\ fetch[i].step = "sent" /\ fetch[i].what = "match"
    /\ row.status \notin {"CREATED", "FUNDED"}
    /\ Goes(i, "taken")
    /\ UNCHANGED <<row, page, granted>>

Server == \E i \in Fetch : Load(i) \/ Act(i) \/ Reread(i) \/ Refuse(i) \/ Taken(i)

\* The other clients, the workers and the webhook.
Others ==
    {<<"CREATED", "EXPIRED">>, <<"FUNDED", "CREATED">>, <<"FUNDED", "MATCHED">>,
     <<"IN_PROGRESS", "ESCROW_LOCKED_CUSTOMS">>, <<"IN_PROGRESS", "AWAITING_VALIDATION">>,
     <<"PENDING_CUSTOMS_REVIEW", "ESCROW_LOCKED_CUSTOMS">>,
     <<"PENDING_CUSTOMS_REVIEW", "VALIDATED">>, <<"VALIDATED", "RELEASED">>}

MovedElsewhere ==
    /\ row.move < MaxMoves
    /\ \E m \in Others :
         /\ row.status = m[1]
         /\ row' = Seen(m[2], IF m[1] = "FUNDED" /\ m[2] = "MATCHED" THEN "other" ELSE row.traveler,
                        row.move + 1)
    /\ UNCHANGED <<page, fetch, granted>>

-----------------------------------------------------------------------------
(* The page and its answer.                                                *)

Shows(u, what, answer) ==
    LET p == [page[u] EXCEPT !.shown = answer] IN
    \* The form that was pressed goes with its status; it stays, disabled, when
    \* the status is the same.
    [p EXCEPT !.pressed =
        IF what # "start" /\ \E b \in Offered(u, p) : b.what = @ THEN @ ELSE "none"]

\* A request that is answered by another load of the mission.
Again(i) ==
    fetch' = [fetch EXCEPT ![i] = [@ EXCEPT !.what = "load", !.step = "sent", !.answer = Nothing]]

Replied(i) ==
    LET u == fetch[i].user
        what == fetch[i].what IN
    /\ fetch[i].step = "answered" /\ u \in User
    /\ \/ /\ what = "submit"   \* the dashboard loads its mission again
          /\ Again(i)
          /\ UNCHANGED page
       \/ /\ what = "match"    \* on to the dashboard
          /\ Again(i)
          /\ page' = [page EXCEPT ![u] = [Away EXCEPT !.at = "dashboard"]]
       \/ /\ what = "intent"
          /\ page' = [page EXCEPT ![u] = [@ EXCEPT !.at = "card", !.pressed = "none"]]
          /\ fetch' = [fetch EXCEPT ![i] = NoFetch]
       \/ /\ what \notin Onward
          /\ page' = [page EXCEPT ![u] = Shows(u, what, fetch[i].answer)]
          /\ fetch' = [fetch EXCEPT ![i] = NoFetch]
    /\ UNCHANGED <<row, granted>>

\* Mutant: the error is shown and the button stays disabled.
FailedStaysPressed(i) ==
    /\ fetch[i].step \in {"refused", "taken"} /\ fetch[i].user \in User
    /\ fetch' = [fetch EXCEPT ![i] = NoFetch]
    /\ UNCHANGED <<row, page, granted>>

\* An error shows and the button is given back, but for a mission that somebody
\* else took, which leaves the catalogue.  A load that fails gives nothing back.
Failed(i) ==
    LET u == fetch[i].user IN
    /\ fetch[i].step \in {"refused", "taken"} /\ u \in User
    /\ page' = IF fetch[i].what = "load" THEN page
               ELSE [page EXCEPT ![u].pressed = "none",
                                 ![u].shown = IF fetch[i].step = "taken" THEN Nothing ELSE @]
    /\ fetch' = [fetch EXCEPT ![i] = NoFetch]
    /\ UNCHANGED <<row, granted>>

PagesNext ==
    \/ \E u \in User, i \in Fetch :
         Press(u, i) \/ \E at \in Linked(u) : Open(u, at, i)
    \/ \E u \in User : Leave(u)
    \/ Server \/ MovedElsewhere
    \/ \E i \in Fetch : Replied(i) \/ Failed(i)

-----------------------------------------------------------------------------
(* Properties.                                                             *)

\* What a page or an answer may know of the mission.
Versions ==
    [status: {"none", "CREATED", "FUNDED", "MATCHED", "IN_PROGRESS", "AWAITING_VALIDATION",
              "ESCROW_LOCKED_CUSTOMS", "PENDING_CUSTOMS_REVIEW", "VALIDATED", "RELEASED",
              "EXPIRED"},
     traveler: {"none", "ours", "other"},
     move: 0..MaxMoves]

Actions == {b.what : b \in Buttons}

Views ==
    [at: {"away", "mission", "pay", "card", "catalogue", "dashboard"},
     shown: Versions,
     pressed: Actions \cup {"none"}]

Fetches ==
    [user: User \cup {"none"},
     what: Actions \cup {"none", "load"},
     step: {"free", "sent", "done", "answered", "refused", "taken"},
     answer: Versions]

PagesTypeOK ==
    /\ row \in Versions /\ row.move > 0
    /\ page \in [User -> Views]
    /\ fetch \in [Fetch -> Fetches]
    /\ granted \subseteq User

Waiting(u) == \E i \in Fetch : fetch[i].user = u

\* A button that was pressed and never comes back is one whose action was done:
\* whatever was refused or lost on its way may be tried again.
DarkIsDone == \A u \in User : page[u].pressed # "none" /\ ~Waiting(u) => u \in granted

\* A page that stays open never shows an older state of the mission after a newer
\* one, whoever moves the mission and however late the answers come.
PageNeverGoesBack ==
    [][\A u \in User : page[u].at = page'[u].at /\ page'[u].shown # Nothing
         => page'[u].shown.move >= page[u].shown.move]_pages

-----------------------------------------------------------------------------
(* What the pages or their comments say, and the code does not do.          *)

\* A button that was pressed comes back or goes away when its answer has come.
PressedSettles == \A u \in User : page[u].pressed # "none" => Waiting(u)

\* A traveler accepts a funded mission from its page.  This negation holds: only
\* a participant is shown the mission, and by then it is taken.
AcceptNeverOffered == \A u \in User : Accept \notin Offered(u, page[u])

\* A page that does not wait shows the mission as it is.
PageIsCurrent ==
    \A u \in User : page[u].at = "mission" /\ ~Waiting(u) /\ page[u].shown # Nothing
       => page[u].shown.status = row.status
=============================================================================
