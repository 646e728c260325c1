--------------------------- MODULE MobileSession ---------------------------
(***************************************************************************)
(* The session of the mobile application, kept in memory and in the         *)
(* keychain of the phone, and the list of missions kept beside it.  At its  *)
(* start the application reads the keychain and asks the server about the   *)
(* token; afterwards any answer 401, whichever request it answers, purges   *)
(* the session without waiting.  The user signs in and out, the network     *)
(* fails, tokens expire, the keychain fails and the application is killed.  *)
(***************************************************************************)
EXTENDS Naturals, Sequences

CONSTANTS
    Token,    \* the tokens that signing in may give
    Call,     \* the requests for the list of missions that may be under way
    MaxLists, \* bound of the model: how often the list of missions changes
    MaxOps,   \* bound of the model: the lag of the keychain
    Kills     \* bound of the model: how often the application is killed

ASSUME MobileAssumption ==
    /\ "none" \notin Token /\ "corrupt" \notin Token
    /\ MaxLists \in Nat \ {0} /\ MaxOps \in Nat /\ Kills \in Nat

VARIABLES
    stored,   \* the session in the keychain: a token, "none" or "corrupt"
    cache,    \* the list of missions in the keychain, by the time it was made
    status,   \* of the store: "loading", "authenticated", "unauthenticated"
    memory,   \* the token of the store, or "none"
    ops,      \* what was asked of the keychain, which answers in this order
    boot,     \* the hydration: "reading", "asking", "ending", "over"
    asking,   \* the token that the hydration has read
    form,     \* the login screen: "idle", "posting", "asking", "writing"
    given,    \* the token that the login screen was given
    call,     \* each request: its token and the list that answers it
    served,   \* the list of missions as the server has it
    shown,    \* the list on the screen
    ready,    \* the list is no longer in its first loading
    expired,  \* the tokens that the server refuses
    left,     \* the user has asked to sign out
    broken,   \* the keychain has failed
    kills

mobile == <<stored, cache, status, memory, ops, boot, asking, form, given, call,
            served, shown, ready, expired, left, broken, kills>>

NoCall == [token |-> "none", list |-> 0]
Pending == MaxLists + 1   \* the list of a request that is not answered

MobileInit ==
    /\ stored \in Token \cup {"none", "corrupt"}
    /\ cache = 0
    /\ status = "loading" /\ memory = "none"
    /\ ops = <<[op |-> "read", by |-> "boot", what |-> "none"]>>
    /\ boot = "reading" /\ asking = "none"
    /\ form = "idle" /\ given = "none"
    /\ call = [c \in Call |-> NoCall]
    /\ served = 1 /\ shown = 0 /\ ready = FALSE
    /\ expired = {} /\ left = FALSE /\ broken = FALSE
    /\ kills = 0

Asked(op, by, what) == Append(ops, [op |-> op, by |-> by, what |-> what])

\* The two stores of the application.
Set(s, t) == status' = s /\ memory' = t

\* clearSession: the keychain first, and the memory when it has answered.
Purged == Asked("delete", "purge", "none")

-----------------------------------------------------------------------------
(* The hydration.                                                          *)

\* getMe(stored.token) is answered.
Accepted ==
    /\ boot = "asking" /\ asking \notin expired
    /\ ops' = Asked("write", "boot", asking)
    /\ boot' = "ending"
    /\ UNCHANGED <<stored, cache, status, memory, asking, form, given, call,
                   served, shown, ready, expired, left, broken, kills>>

\* The interceptor purges the session, and the hydration does it again.
Refused ==
    /\ boot = "asking" /\ asking \in expired
    /\ ops' = Append(Purged, [op |-> "delete", by |-> "boot", what |-> "none"])
    /\ boot' = "ending"
    /\ UNCHANGED <<stored, cache, status, memory, asking, form, given, call,
                   served, shown, ready, expired, left, broken, kills>>

\* Mutant: a server that does not answer is taken for a refusal.
UnansweredPunished ==
    /\ boot = "asking"
    /\ ops' = Asked("delete", "boot", "none")
    /\ boot' = "ending"
    /\ UNCHANGED <<stored, cache, status, memory, asking, form, given, call,
                   served, shown, ready, expired, left, broken, kills>>

\* No answer, or an error of the server: the session is kept as it is.
Unanswered ==
    /\ boot = "asking"
    /\ Set("authenticated", asking)
    /\ boot' = "over"
    /\ UNCHANGED <<stored, cache, ops, asking, form, given, call, served, shown,
                   ready, expired, left, broken, kills>>

Hydration == Accepted \/ Refused \/ Unanswered

-----------------------------------------------------------------------------
(* The keychain: each request is answered in turn, or fails.               *)

Request == Head(ops)

Answered == ops # <<>> /\ ops' = Tail(ops)

ReadSession ==
    /\ Answered /\ Request.op = "read" /\ Request.by = "boot"
    /\ IF stored \in Token
       THEN boot' = "asking" /\ asking' = stored /\ UNCHANGED <<stored, status, memory>>
       ELSE /\ boot' = "over" /\ UNCHANGED asking
            /\ stored' = "none"   \* what cannot be read is deleted
            /\ Set("unauthenticated", "none")
    /\ UNCHANGED <<cache, form, given, call, served, shown, ready, expired,
                   left, broken, kills>>

\* setSession, and the hydration when the server has accepted the token.
WriteSession ==
    /\ Answered /\ Request.op = "write"
    /\ stored' = Request.what
    /\ Set("authenticated", Request.what)
    /\ IF Request.by = "boot" THEN boot' = "over" /\ UNCHANGED <<form, given>>
       ELSE form' = "idle" /\ given' = "none" /\ UNCHANGED boot
    /\ UNCHANGED <<cache, asking, call, served, shown, ready, expired, left,
                   broken, kills>>

\* Mutant: the memory is emptied and the keychain is not.
DeleteMemoryOnly ==
    /\ Answered /\ Request.op = "delete"
    /\ Set("unauthenticated", "none")
    /\ boot' = IF Request.by = "boot" THEN "over" ELSE boot
    /\ UNCHANGED <<stored, cache, asking, form, given, call, served, shown, ready,
                   expired, left, broken, kills>>

DeleteSession ==
    /\ Answered /\ Request.op = "delete"
    /\ stored' = "none"
    /\ Set("unauthenticated", "none")
    /\ boot' = IF Request.by = "boot" THEN "over" ELSE boot
    /\ UNCHANGED <<cache, asking, form, given, call, served, shown, ready,
                   expired, left, broken, kills>>

\* Of what fails only three are noticed: the login screen shows an error, the
\* hydration keeps a session it could not write, and it never ends when it can
\* neither read nor delete.
KeychainFails ==
    /\ Answered
    /\ broken' = TRUE
    /\ LET mine(by, op) == Request.by = by /\ Request.op = op IN
       /\ IF mine("boot", "write") THEN Set("authenticated", Request.what) /\ boot' = "over"
          ELSE UNCHANGED <<status, memory, boot>>
       /\ IF mine("form", "write") THEN form' = "idle" /\ given' = "none"
          ELSE UNCHANGED <<form, given>>
       /\ ready' = (ready \/ mine("missions", "read"))
    /\ UNCHANGED <<stored, cache, asking, call, served, shown, expired, left, kills>>

-----------------------------------------------------------------------------
(* The login screen and the dashboard, of which the navigator shows one.   *)

LoginShown == status # "loading" /\ memory = "none"
DashboardShown == status # "loading" /\ memory # "none"

Submit ==
    /\ LoginShown /\ form = "idle" /\ Len(ops) < MaxOps
    /\ form' = "posting"
    /\ UNCHANGED <<stored, cache, status, memory, ops, boot, asking, given, call,
                   served, shown, ready, expired, left, broken, kills>>

\* POST /login, then getMe of the token it gave.
Enters ==
    /\ \/ /\ form = "posting"
          /\ \E t \in Token \ expired : given' = t
          /\ form' = "asking" /\ UNCHANGED ops
       \/ /\ form = "asking" /\ given \notin expired
          /\ ops' = Asked("write", "form", given)
          /\ form' = "writing" /\ UNCHANGED given
    /\ UNCHANGED <<stored, cache, status, memory, boot, asking, call,
                   served, shown, ready, expired, left, broken, kills>>

\* Wrong credentials are a 401 like any other; other failures only show.
EntryFails ==
    /\ form \in {"posting", "asking"}
    /\ \/ ops' = ops
       \/ (form = "posting" \/ given \in expired) /\ ops' = Purged
    /\ form' = "idle" /\ given' = "none"
    /\ UNCHANGED <<stored, cache, status, memory, boot, asking, call, served, shown,
                   ready, expired, left, broken, kills>>

SignOut ==
    /\ DashboardShown /\ ~left
    /\ left' = TRUE
    /\ ops' = Asked("delete", "user", "none")
    /\ UNCHANGED <<stored, cache, status, memory, boot, asking, form, given, call,
                   served, shown, ready, expired, broken, kills>>

-----------------------------------------------------------------------------
(* The list of missions.                                                   *)

\* useMissionHydration: the list of the keychain is read once, at the start.
AskCache ==
    /\ DashboardShown /\ ~ready
    /\ \A i \in DOMAIN ops : ops[i].by # "missions"
    /\ ops' = Asked("read", "missions", "none")
    /\ UNCHANGED <<stored, cache, status, memory, boot, asking, form, given, call,
                   served, shown, ready, expired, left, broken, kills>>

ReadCache ==
    /\ Answered /\ Request.op = "read" /\ Request.by = "missions"
    /\ shown' = IF cache # 0 THEN cache ELSE shown
    /\ ready' = TRUE
    /\ UNCHANGED <<stored, cache, status, memory, boot, asking, form, given, call,
                   served, expired, left, broken, kills>>

WriteCache ==
    /\ Answered /\ Request.op = "cache"
    /\ cache' = Request.list
    /\ UNCHANGED <<stored, status, memory, boot, asking, form, given, call, served,
                   shown, ready, expired, left, broken, kills>>

\* The screen asks for one list at a time; a screen shown for a new session
\* does not know of the request of the former one.
Refresh(c) ==
    /\ DashboardShown /\ ready
    /\ Len(ops) < MaxOps
    /\ call[c] = NoCall /\ \A d \in Call : call[d].token # memory
    /\ call' = [call EXCEPT ![c] = [token |-> memory, list |-> Pending]]
    /\ UNCHANGED <<stored, cache, status, memory, ops, boot, asking, form, given,
                   served, shown, ready, expired, left, broken, kills>>

\* The server reads the list and answers.
Serve(c) ==
    /\ call[c].list = Pending /\ call[c].token \notin expired
    /\ call' = [call EXCEPT ![c].list = served]
    /\ UNCHANGED <<stored, cache, status, memory, ops, boot, asking, form, given,
                   served, shown, ready, expired, left, broken, kills>>

\* syncMissions: the memory now, the keychain as it can.
Sync(c) ==
    /\ call[c].list \in 1..MaxLists
    /\ shown' = call[c].list
    /\ ops' = Append(ops, [op |-> "cache", by |-> "sync", list |-> call[c].list])
    /\ call' = [call EXCEPT ![c] = NoCall]
    /\ UNCHANGED <<stored, cache, status, memory, boot, asking, form, given,
                   served, ready, expired, left, broken, kills>>

\* 401 purges the session of the moment, which may not be that of the request.
RefreshFails(c) ==
    /\ call[c] # NoCall
    /\ \/ ops' = ops
       \/ call[c].list = Pending /\ call[c].token \in expired /\ ops' = Purged
    /\ call' = [call EXCEPT ![c] = NoCall]
    /\ UNCHANGED <<stored, cache, status, memory, boot, asking, form, given,
                   served, shown, ready, expired, left, broken, kills>>

-----------------------------------------------------------------------------
(* The server, and the phone.                                              *)

Expire(t) ==
    /\ t \in Token \ expired /\ t \in {stored, given, asking, memory}
    /\ expired' = expired \cup {t}
    /\ UNCHANGED <<stored, cache, status, memory, ops, boot, asking, form, given, call,
                   served, shown, ready, left, broken, kills>>

ListChanges ==
    /\ served < MaxLists
    /\ served' = served + 1
    /\ UNCHANGED <<stored, cache, status, memory, ops, boot, asking, form, given, call,
                   shown, ready, expired, left, broken, kills>>

\* What was asked of the keychain and not done is lost with the memory.
Kill ==
    /\ kills < Kills
    /\ kills' = kills + 1
    /\ status' = "loading" /\ memory' = "none"
    /\ ops' = <<[op |-> "read", by |-> "boot", what |-> "none"]>>
    /\ boot' = "reading" /\ asking' = "none"
    /\ form' = "idle" /\ given' = "none"
    /\ call' = [c \in Call |-> NoCall]
    /\ shown' = 0 /\ ready' = FALSE
    /\ UNCHANGED <<stored, cache, served, expired, left, broken>>

-----------------------------------------------------------------------------

Keychain ==
    \/ ReadSession \/ WriteSession \/ DeleteSession
    \/ ReadCache \/ WriteCache
    \/ KeychainFails

MobileNext ==
    \/ Hydration \/ Keychain
    \/ Submit \/ Enters \/ EntryFails \/ SignOut
    \/ AskCache \/ \E c \in Call : Refresh(c) \/ Serve(c) \/ Sync(c) \/ RefreshFails(c)
    \/ \E t \in Token : Expire(t)
    \/ ListChanges \/ Kill

-----------------------------------------------------------------------------
(* Properties.                                                             *)

\* What the application asks of the keychain.
Requests ==
    [op: {"read"}, by: {"boot", "missions"}, what: {"none"}]
    \cup [op: {"write"}, by: {"boot", "form"}, what: Token]
    \cup [op: {"delete"}, by: {"boot", "purge", "user"}, what: {"none"}]
    \cup [op: {"cache"}, by: {"sync"}, list: 1..MaxLists]

MobileTypeOK ==
    /\ stored \in Token \cup {"none", "corrupt"}
    /\ cache \in 0..MaxLists /\ shown \in 0..MaxLists /\ served \in 1..MaxLists
    /\ status \in {"loading", "authenticated", "unauthenticated"}
    /\ memory \in Token \cup {"none"} /\ asking \in Token \cup {"none"}
    /\ boot \in {"reading", "asking", "ending", "over"}
    /\ form \in {"idle", "posting", "asking", "writing"}
    /\ given \in Token \cup {"none"}
    /\ ops \in Seq(Requests)
    /\ call \in [Call -> [token: Token \cup {"none"}, list: 0..Pending]]
    /\ expired \subseteq Token /\ left \in BOOLEAN /\ broken \in BOOLEAN
    /\ ready \in BOOLEAN /\ kills \in Nat

\* Nobody is punished for the network: as long as no token has expired and the
\* user has not signed out, a session that is in the keychain stays there, and
\* one that is on the screen stays there until the application is killed,
\* whatever is lost, fails or is typed wrong.
NoPunishment ==
    [][expired = {} /\ ~left =>
         /\ stored \in Token => stored' = stored
         /\ memory # "none" /\ kills' = kills => memory' = memory]_mobile

\* When the start is over the session in memory is the one the keychain keeps,
\* whatever is still asked of it: the next start finds what the user sees.
MemoryMatchesStore == boot = "over" /\ ~broken => memory = stored

\* As long as the session lasts, the screen never goes back to an older list.
ShownNeverGoesBack ==
    [][expired = {} /\ ~left /\ kills' = kills => shown' >= shown]_mobile

-----------------------------------------------------------------------------
(* What one could expect and the code does not do.                         *)

\* A refusal ends the session whose token was refused, and no other.
OnlyRefusedPurged ==
    [][LET asked == ops # <<>> /\ Head(ops).by = "user" IN
       memory # "none" /\ memory \notin expired /\ kills' = kills /\ ~asked
         => memory' = memory]_mobile

\* One who signed out is not signed in again by the next start.
SignedOutStaysOut == left /\ boot = "over" /\ ops = <<>> /\ ~broken => memory = "none"

\* A list asked for by a former session does not replace that of the present one.
NeverAFormerList ==
    [][shown' < shown => kills' # kills]_mobile
=============================================================================
