------------------------------ MODULE Accounts ------------------------------
(***************************************************************************)
(* Accounts, sessions and the limits on signing in: AuthService with the   *)
(* users table, SessionService, LoginLimiterService and the per-address    *)
(* throttle, the last three in Valkey.  Every statement of a request is a  *)
(* step, and so is the passing of time, by which Valkey's keys expire.     *)
(* One email and one network address: nothing is shared between two of     *)
(* the first, and the throttle is all that is shared within the second.    *)
(***************************************************************************)
EXTENDS Naturals, FiniteSets

CONSTANTS Requests,     \* slots: requests that can be under way at a time
          Passwords, Sids,
          MaxAttempts,  \* MAX_ATTEMPTS
          Window,       \* WINDOW_SECONDS, in ticks of the clock
          SessionTtl, Limit, ThrottleTtl,
          Mixes,        \* sets of kinds: what is asked for in one behaviour
          None,         \* no account, no password, no session
          Gone,         \* a session that was destroyed or has expired: newToken never
                        \* gives its id again
          Forever       \* no expiry

Kinds == {"register", "login", "google", "password", "logout", "me"}
ASSUME AccountsAssumption ==
    /\ {MaxAttempts, Window, SessionTtl, Limit, ThrottleTtl} \subseteq Nat \ {0}
    /\ \A mix \in Mixes : mix \subseteq Kinds
    /\ None # Gone
    /\ None \notin Passwords \union [hash : Passwords \union {None}]

VARIABLES mix,       \* what is asked for in this behaviour
          account,   \* None, or [hash]: the row of users with the email
          sessions,  \* [Sids -> None, Gone or the ticks it has left]
          counters,  \* [scope -> [n, ttl]]: the keys authlimit:<scope>:<email>
          hits,      \* [n, ttl]: the throttle's window
          block,     \* the ticks the throttle's block has left
          requests   \* [Requests -> [kind, at, given, new, sid, hash]]

vars == <<mix, account, sessions, counters, hits, block, requests>>

----------------------------------------------------------------------------

Scopes == {"login", "register", "password"}
Absent == [n |-> 0, ttl |-> 0]

\* How a request can be answered.
Ended == {"in", "done", "refused", "limited", "failed"}

Blank == [kind |-> "me", at |-> "done", given |-> None, new |-> None, sid |-> None, hash |-> None]

Live(s) == sessions[s] \notin {None, Gone}

\* The request goes on; what it carried is gone with its answer.
Answered(kind, at) == [Blank EXCEPT !.kind = kind, !.at = at]

Go(r, at) ==
    requests' = [requests EXCEPT ![r] =
                   IF at \in Ended THEN Answered(requests[r].kind, at) ELSE [@ EXCEPT !.at = at]]

\* Bound: more than MaxAttempts + 1 attempts count as that many.
Counted(c) == [c EXCEPT !.n = IF @ > MaxAttempts THEN @ ELSE @ + 1,
                        !.ttl = IF c.n = 0 THEN Forever ELSE @]

----------------------------------------------------------------------------
(* A request arrives *)

Request(r, kind, given, new, sid, at) ==
    /\ requests[r].at \in Ended
    /\ kind \in mix
    /\ requests' = [requests EXCEPT ![r] =
                      IF at \in Ended THEN Answered(kind, at)
                      ELSE [kind |-> kind, at |-> at, given |-> given, new |-> new, sid |-> sid,
                            hash |-> None]]

\* The script: one atomic step, whichever replica runs it.
Throttle(admitted) ==
    IF block > 0 THEN ~admitted /\ UNCHANGED <<hits, block>>
    ELSE LET n == hits.n + 1 IN
         /\ hits' = [n |-> n, ttl |-> IF hits.ttl > 0 THEN hits.ttl ELSE ThrottleTtl]
         /\ block' = IF n > Limit THEN ThrottleTtl ELSE 0
         /\ admitted = (n <= Limit)

\* POST /auth/login, /auth/register: throttled; a registration has its captcha
\* verified, and is refused where that fails or cannot be reached.
SignIn(r) ==
    /\ \E kind \in {"login", "register"}, p \in Passwords, admitted, human \in BOOLEAN :
         /\ Throttle(admitted)
         /\ kind = "login" => human
         /\ Request(r, kind, p, None, None,
                    IF ~admitted THEN "limited" ELSE IF human THEN "incr" ELSE "refused")
    /\ UNCHANGED <<mix, account, sessions, counters>>

\* GET /auth/google/callback, with a profile Google vouches for.
Google(r) ==
    /\ Request(r, "google", None, None, None, "find")
    /\ UNCHANGED <<mix, account, sessions, counters, hits, block>>

\* JwtAuthGuard: a request with a session's cookie is answered by who is in it.
\* A password is changed from one to another; none given is as good as a wrong one.
WithSession(r) ==
    /\ \E kind \in {"password", "logout", "me"}, s \in Sids :
         /\ sessions[s] # None
         /\ IF kind # "password"
            THEN Request(r, kind, None, None, s, IF Live(s) THEN "slide" ELSE "refused")
            ELSE \E p, new \in Passwords :
                   p # new /\ Request(r, kind, p, new, s, IF Live(s) THEN "slide" ELSE "refused")
    /\ UNCHANGED <<mix, account, sessions, counters, hits, block>>

\* Mutant: the session is written back with its new lifetime.
SlideAnew(r) ==
    /\ requests[r].at = "slide"
    /\ sessions' = [sessions EXCEPT ![requests[r].sid] = SessionTtl]
    /\ Go(r, CASE requests[r].kind = "password" -> "find"
               [] requests[r].kind = "logout" -> "destroy"
               [] OTHER -> "done")
    /\ UNCHANGED <<mix, account, counters, hits, block>>

\* SessionService.get, its second statement: EXPIRE does nothing to a key that
\* is gone by now.
Slide(r) ==
    /\ requests[r].at = "slide"
    /\ sessions' = [sessions EXCEPT ![requests[r].sid] =
                      IF Live(requests[r].sid) THEN SessionTtl ELSE @]
    /\ Go(r, CASE requests[r].kind = "password" -> "find"
               [] requests[r].kind = "logout" -> "destroy"
               [] OTHER -> "done")
    /\ UNCHANGED <<mix, account, counters, hits, block>>

----------------------------------------------------------------------------
(* LoginLimiterService.hit *)

\* What a kind of request does once it is within the limit.
Admitted(kind) == CASE kind = "login" -> "find" [] kind = "register" -> "create"
                    [] kind = "password" -> "verify"

\* INCR, and the count decides.
Incr(r) ==
    /\ requests[r].at = "incr"
    /\ LET kind == requests[r].kind
           c == Counted(counters[kind]) IN
       /\ counters' = [counters EXCEPT ![kind] = c]
       /\ Go(r, IF c.n = 1 THEN "expire" ELSE IF c.n > MaxAttempts THEN "limited"
                ELSE Admitted(kind))
    /\ UNCHANGED <<mix, account, sessions, hits, block>>

\* EXPIRE, by the request that counted to one alone.
Expire(r) ==
    /\ requests[r].at = "expire"
    /\ LET kind == requests[r].kind IN
       /\ counters' = [counters EXCEPT ![kind] = IF @.n = 0 THEN @ ELSE [@ EXCEPT !.ttl = Window]]
       /\ Go(r, Admitted(kind))
    /\ UNCHANGED <<mix, account, sessions, hits, block>>

----------------------------------------------------------------------------
(* AuthService *)

\* Google's profile finds its account or has one created.
GoogleFinds(r) ==
    /\ requests[r].kind = "google"
    /\ Go(r, IF account # None THEN "establish" ELSE "create")

\* The account's password is read, to be verified in a later step; one that has
\* none cannot sign in with one, and may set its first.
AccountRead(r) ==
    LET kind == requests[r].kind
        hash == IF account = None THEN None ELSE account.hash IN
    /\ kind \in {"login", "password"}
    /\ IF hash = None
       THEN Go(r, IF kind = "password" /\ account # None THEN "store" ELSE "refused")
       ELSE requests' = [requests EXCEPT ![r].hash = hash,
                                         ![r].at = IF kind = "login" THEN "verify" ELSE "incr"]

Find(r) ==
    /\ requests[r].at = "find"
    /\ GoogleFinds(r) \/ AccountRead(r)
    /\ UNCHANGED <<mix, account, sessions, counters, hits, block>>

Verify(r) ==
    /\ requests[r].at = "verify"
    /\ Go(r, IF requests[r].given = requests[r].hash THEN "reset" ELSE "refused")
    /\ UNCHANGED <<mix, account, sessions, counters, hits, block>>

Reset(r) ==
    /\ requests[r].at = "reset"
    /\ counters' = [counters EXCEPT ![requests[r].kind] = Absent]
    /\ Go(r, IF requests[r].kind = "login" THEN "establish" ELSE "store")
    /\ UNCHANGED <<mix, account, sessions, hits, block>>

\* Mutant: a registration, too, falls back to the account that is there.
CreateOrFind(r) ==
    /\ requests[r].at = "create"
    /\ IF account = None
       THEN account' = [hash |-> requests[r].given] /\ Go(r, "establish")
       ELSE UNCHANGED account /\ Go(r, "refind")
    /\ UNCHANGED <<mix, sessions, counters, hits, block>>

\* The insert, refused where another request's came first: a registration is
\* told so (409), a sign-in with Google looks again.
Create(r) ==
    /\ requests[r].at = "create"
    /\ IF account = None
       THEN account' = [hash |-> requests[r].given] /\ Go(r, "establish")
       ELSE UNCHANGED account /\ Go(r, IF requests[r].kind = "google" THEN "refind" ELSE "refused")
    /\ UNCHANGED <<mix, sessions, counters, hits, block>>

Refind(r) ==
    /\ requests[r].at = "refind"
    /\ Go(r, IF account # None THEN "establish" ELSE "refused")
    /\ UNCHANGED <<mix, account, sessions, counters, hits, block>>

\* SessionService.create, under an id nobody had.
Establish(r) ==
    /\ requests[r].at = "establish"
    /\ \E s \in Sids : sessions[s] = None
    /\ sessions' = [sessions EXCEPT ![CHOOSE s \in Sids : sessions[s] = None] = SessionTtl]
    /\ Go(r, "in")
    /\ UNCHANGED <<mix, account, counters, hits, block>>

\* setPasswordHash: no session ends by it.
Store(r) ==
    /\ requests[r].at = "store"
    /\ account' = [account EXCEPT !.hash = requests[r].new]
    /\ Go(r, "done")
    /\ UNCHANGED <<mix, sessions, counters, hits, block>>

\* logout: the session is deleted.
Destroy(r) ==
    /\ requests[r].at = "destroy"
    /\ sessions' = [sessions EXCEPT ![requests[r].sid] = Gone]
    /\ Go(r, "done")
    /\ UNCHANGED <<mix, account, counters, hits, block>>

\* A statement fails, or the process dies: the request is left where it is.
Fails(r) ==
    /\ requests[r].at \notin Ended
    /\ Go(r, "failed")
    /\ UNCHANGED <<mix, account, sessions, counters, hits, block>>

\* Valkey's clock.
Tick ==
    /\ sessions' = [s \in Sids |-> IF ~Live(s) THEN sessions[s]
                                  ELSE IF sessions[s] = 1 THEN Gone ELSE sessions[s] - 1]
    /\ counters' = [scope \in Scopes |->
                       IF counters[scope].ttl \in {0, Forever} THEN counters[scope]
                       ELSE IF counters[scope].ttl = 1 THEN Absent
                       ELSE [counters[scope] EXCEPT !.ttl = @ - 1]]
    /\ hits' = IF hits.ttl <= 1 THEN Absent ELSE [hits EXCEPT !.ttl = @ - 1]
    /\ block' = IF block = 0 THEN 0 ELSE block - 1
    /\ UNCHANGED <<mix, account, requests>>

----------------------------------------------------------------------------

Init ==
    /\ mix \in Mixes
    /\ account \in {None} \union [hash : Passwords \union {None}]
    /\ sessions = [s \in Sids |-> None]
    /\ counters = [scope \in Scopes |-> Absent]
    /\ hits = Absent
    /\ block = 0
    /\ requests = [r \in Requests |-> Blank]

Next ==
    \/ \E r \in Requests :
         \/ SignIn(r) \/ Google(r) \/ WithSession(r)
         \/ Slide(r)
         \/ Incr(r) \/ Expire(r)
         \/ Find(r) \/ Verify(r) \/ Reset(r)
         \/ Create(r) \/ Refind(r) \/ Establish(r)
         \/ Store(r) \/ Destroy(r)
         \/ Fails(r)
    \/ Tick

\* Time passes; no request needs to be answered.
Spec == Init /\ [][Next]_vars /\ WF_vars(Tick)
----------------------------------------------------------------------------
(* Properties *)

\* The variables hold what their comments say; a counter that is there has an
\* expiry, or is to get one unless the request that owes it is lost.
AccountsTypeOK ==
    /\ mix \in Mixes
    /\ account # None => account.hash \in Passwords \union {None}
    /\ \A s \in Sids : sessions[s] \in {None, Gone} \union 1..SessionTtl
    /\ \A scope \in Scopes :
         \/ counters[scope] = Absent
         \/ counters[scope].n \in 1..(MaxAttempts + 1)
            /\ counters[scope].ttl \in {Forever} \union 1..Window
    /\ hits # Absent => hits.n \in 1..(Limit + 1) /\ hits.ttl \in 1..ThrottleTtl
    /\ block \in 0..ThrottleTtl

\* FR-P6: a session that was destroyed, or has expired, never comes back, though
\* a request that looked it up before slides its lifetime after.
EndedStaysEnded == [][\A s \in Sids : sessions[s] = Gone => sessions'[s] = Gone]_vars

\* Of two registrations with one email at most one signs in, and neither signs
\* in to the account that a sign-in with Google created in between.
OneRegistrationWins ==
    \A r, q \in Requests :
        requests[r].kind = "register" /\ requests[r].at \in {"establish", "in"} =>
            /\ r # q /\ requests[q].kind = "register" => requests[q].at \notin {"establish", "in"}
            /\ account.hash # None

\* A verified sign-in with Google is not refused, whoever creates the account
\* between its statements.
GoogleIsNotRefused == \A r \in Requests : requests[r].kind = "google" => requests[r].at # "refused"

=============================================================================
