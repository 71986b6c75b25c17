-------------------------- MODULE Accounts_proofs ---------------------------
(***************************************************************************)
(* Theorems about Accounts, for every number of requests under way, every  *)
(* set of passwords and sessions, and any limits and lifetimes.            *)
(***************************************************************************)
EXTENDS Accounts, TLAPS

----------------------------------------------------------------------------
(***************************************************************************)
(* The inductive invariant: what is stored, what a request carries, and    *)
(* what it knows of the account at each of its statements.                 *)
(***************************************************************************)

Steps == {"slide", "find", "destroy", "incr", "expire", "verify", "reset", "create",
          "refind", "establish", "store"} \union Ended

Hashes == Passwords \union {None}

Carried == [kind : Kinds, at : Steps, given : Hashes, new : Hashes,
            sid : Sids \union {None}, hash : Hashes]

Types ==
    /\ mix \in Mixes
    /\ account \in {None} \union [hash : Hashes]
    /\ sessions \in [Sids -> {None, Gone} \union 1..SessionTtl]
    /\ requests \in [Requests -> Carried]

\* A counter that is there has counted something, and at most one too many.
Counters ==
    counters \in [Scopes -> {Absent}
                    \union [n : 1..(MaxAttempts + 1), ttl : {Forever} \union 1..Window]]

\* The address is blocked for as long as its window remembers too many hits: that is
\* why nothing ever counts on beyond Limit + 1.
Throttled ==
    /\ hits \in {Absent} \union [n : 1..(Limit + 1), ttl : 1..ThrottleTtl]
    /\ block \in 0..ThrottleTtl
    /\ hits.n > Limit => block >= hits.ttl

\* Which kinds of requests come to a statement, and what they carry there.
AtKind(q) ==
    /\ q.at = "slide" => q.kind \in {"password", "logout", "me"} /\ q.sid \in Sids
    /\ q.at = "destroy" => q.kind = "logout" /\ q.sid \in Sids
    /\ q.at \in {"incr", "expire"} => q.kind \in Scopes
    /\ q.at = "find" => q.kind \in {"login", "google", "password"}
    /\ q.at \in {"verify", "reset"} => q.kind \in {"login", "password"}
    /\ q.at = "create" => q.kind \in {"register", "google"}
    /\ q.at = "refind" => q.kind = "google"
    /\ q.at = "establish" => q.kind \in {"login", "register", "google"}
    /\ q.at = "store" => q.kind = "password"
    /\ q.kind = "google" => q.at # "refused"
    /\ q.kind = "register" /\ q.at \notin Ended => q.given \in Passwords
    /\ q.kind = "password" /\ q.at \notin Ended => q.new \in Passwords

\* Who has read the account, or failed to create it, relies on its being there.
KnowsAccount(q) ==
    q.at = "refind" \/ (q.kind = "password" /\ q.at \in {"incr", "expire", "verify", "reset", "store"})

\* A registration that went through.
Registered(q) == q.kind = "register" /\ q.at \in {"establish", "in"}

Known ==
    \A r \in Requests :
        /\ AtKind(requests[r])
        /\ KnowsAccount(requests[r]) => account # None
        /\ Registered(requests[r]) => account # None /\ account.hash # None

AtMostOne ==
    \A r, q \in Requests : Registered(requests[r]) /\ Registered(requests[q]) => r = q

IInv == Types /\ Counters /\ Throttled /\ Known /\ AtMostOne

----------------------------------------------------------------------------
(***************************************************************************)
(* Requests.                                                               *)
(***************************************************************************)

LEMMA AnsweredIsTyped ==
    ASSUME NEW kind \in Kinds, NEW at \in Steps
    PROVE  /\ Answered(kind, at) \in Carried
           /\ Answered(kind, at).kind = kind
           /\ Answered(kind, at).at = at
<1>1. Blank \in Carried
  BY DEF Blank, Carried, Kinds, Steps, Ended, Hashes
<1> QED BY <1>1 DEF Answered, Carried

\* A request that goes on keeps what it carries; an answered one forgets it.
LEMMA Goes ==
    ASSUME requests \in [Requests -> Carried], NEW r \in Requests, NEW at \in Steps, Go(r, at)
    PROVE  /\ requests' \in [Requests -> Carried]
           /\ \A q \in Requests \ {r} : requests'[q] = requests[q]
           /\ requests'[r].kind = requests[r].kind
           /\ requests'[r].at = at
           /\ at \notin Ended => /\ requests'[r].given = requests[r].given
                                 /\ requests'[r].new = requests[r].new
                                 /\ requests'[r].sid = requests[r].sid
<1>1. requests[r] \in Carried
  OBVIOUS
<1> DEFINE next == IF at \in Ended THEN Answered(requests[r].kind, at)
                   ELSE [requests[r] EXCEPT !.at = at]
<1>2. requests' = [requests EXCEPT ![r] = next]
  BY DEF Go
<1>3. /\ Answered(requests[r].kind, at) \in Carried
      /\ Answered(requests[r].kind, at).kind = requests[r].kind
      /\ Answered(requests[r].kind, at).at = at
  BY <1>1, AnsweredIsTyped DEF Carried
<1>4. /\ next \in Carried /\ next.kind = requests[r].kind /\ next.at = at
      /\ at \notin Ended => /\ next.given = requests[r].given
                            /\ next.new = requests[r].new
                            /\ next.sid = requests[r].sid
  BY <1>1, <1>3 DEF Carried, Hashes
<1>5. requests'[r] = next
  BY <1>2
<1> HIDE DEF next
<1> QED BY <1>2, <1>4, <1>5

\* A new request takes the place of one that was answered.
LEMMA Arrives ==
    ASSUME Types, NEW r \in Requests, NEW kind \in Kinds, NEW given \in Hashes, NEW new \in Hashes,
           NEW sid \in Sids \union {None}, NEW at \in Steps,
           Request(r, kind, given, new, sid, at)
    PROVE  /\ requests' \in [Requests -> Carried]
           /\ \A q \in Requests \ {r} : requests'[q] = requests[q]
           /\ requests'[r].kind = kind
           /\ requests'[r].at = at
           /\ at \notin Ended => /\ requests'[r].given = given
                                 /\ requests'[r].new = new
                                 /\ requests'[r].sid = sid
<1> DEFINE next == IF at \in Ended THEN Answered(kind, at)
                   ELSE [kind |-> kind, at |-> at, given |-> given, new |-> new, sid |-> sid,
                         hash |-> None]
<1>1. requests' = [requests EXCEPT ![r] = next]
  BY DEF Request
<1>2. /\ Answered(kind, at) \in Carried
      /\ Answered(kind, at).kind = kind /\ Answered(kind, at).at = at
  BY AnsweredIsTyped
<1>3. /\ next \in Carried /\ next.kind = kind /\ next.at = at
      /\ at \notin Ended => next.given = given /\ next.new = new /\ next.sid = sid
  BY <1>2 DEF Carried, Hashes
<1>4. requests'[r] = next
  BY <1>1 DEF Types
<1> HIDE DEF next
<1> QED BY <1>1, <1>3, <1>4 DEF Types

\* The account stays, and does not lose its password.
AccountStays ==
    account # None => account' # None /\ (account.hash # None => account'.hash # None)

\* A step of one request leaves what the others know true, where the account stays.
LEMMA OneRequestMoves ==
    ASSUME Known, AtMostOne, AccountStays, NEW r \in Requests,
           \A q \in Requests \ {r} : requests'[q] = requests[q],
           AtKind(requests'[r]),
           KnowsAccount(requests'[r]) => account' # None,
           Registered(requests'[r]) =>
               /\ account' # None /\ account'.hash # None
               /\ Registered(requests[r]) \/ \A q \in Requests : ~Registered(requests[q])
    PROVE  Known' /\ AtMostOne'
<1>1. Known'
  <2> SUFFICES ASSUME NEW q \in Requests
               PROVE  /\ AtKind(requests'[q])
                      /\ KnowsAccount(requests'[q]) => account' # None
                      /\ Registered(requests'[q]) => account' # None /\ account'.hash # None
    BY DEF Known, AtKind, KnowsAccount, Registered
  <2>1. CASE q = r
    BY <2>1
  <2>2. CASE q # r
    BY <2>2 DEF Known, AccountStays
  <2> QED BY <2>1, <2>2
<1>2. AtMostOne'
  <2> SUFFICES ASSUME NEW p \in Requests, NEW q \in Requests,
                      Registered(requests'[p]), Registered(requests'[q])
               PROVE  p = q
    BY DEF AtMostOne, Registered
  <2> QED BY DEF AtMostOne
<1> QED BY <1>1, <1>2

----------------------------------------------------------------------------
(***************************************************************************)
(* Every action keeps the invariant.                                       *)
(***************************************************************************)

LEMMA ParametersAreTyped ==
    /\ MaxAttempts \in Nat \ {0} /\ Window \in Nat \ {0} /\ SessionTtl \in Nat \ {0}
    /\ Limit \in Nat \ {0} /\ ThrottleTtl \in Nat \ {0}
    /\ \A m \in Mixes : m \subseteq Kinds
BY AccountsAssumption

LEMMA SignInKeeps == ASSUME IInv, NEW r \in Requests, SignIn(r) PROVE IInv'
<1> USE DEF IInv
<1>1. PICK kind \in {"login", "register"}, p \in Passwords, admitted \in BOOLEAN, human \in BOOLEAN :
        /\ Throttle(admitted)
        /\ kind = "login" => human
        /\ Request(r, kind, p, None, None,
                   IF ~admitted THEN "limited" ELSE IF human THEN "incr" ELSE "refused")
  BY DEF SignIn
<1> DEFINE at == IF ~admitted THEN "limited" ELSE IF human THEN "incr" ELSE "refused"
<1>2. /\ kind \in Kinds /\ p \in Hashes /\ None \in Hashes /\ None \in Sids \union {None}
      /\ at \in {"limited", "incr", "refused"} /\ at \in Steps
  BY DEF Kinds, Hashes, Steps, Ended
<1>3. Request(r, kind, p, None, None, at)
  BY <1>1
<1> HIDE DEF at
<1>4. /\ requests' \in [Requests -> Carried]
      /\ \A q \in Requests \ {r} : requests'[q] = requests[q]
      /\ requests'[r].kind = kind /\ requests'[r].at = at
      /\ at \notin Ended => requests'[r].given = p
  BY <1>2, <1>3, Arrives
<1>5. mix' = mix /\ account' = account /\ sessions' = sessions /\ counters' = counters
  BY DEF SignIn
<1>6. Throttled'
  <2>1. CASE block > 0
    BY <2>1, <1>1 DEF Throttle, Throttled
  <2>2. CASE ~(block > 0)
    <3> DEFINE n == hits.n + 1
               ttl == IF hits.ttl > 0 THEN hits.ttl ELSE ThrottleTtl
    <3>1. /\ hits' = [n |-> n, ttl |-> ttl]
          /\ block' = IF n > Limit THEN ThrottleTtl ELSE 0
      BY <2>2, <1>1 DEF Throttle
    <3>2. hits.n \in 0..Limit /\ hits.ttl \in 0..ThrottleTtl
      BY <2>2, ParametersAreTyped DEF Throttled, Absent
    <3>3. n \in 1..(Limit + 1) /\ ttl \in 1..ThrottleTtl
      BY <3>2, ParametersAreTyped
    <3> HIDE DEF n, ttl
    <3>4. hits'.n = n /\ hits'.ttl = ttl /\ hits' \in [n : 1..(Limit + 1), ttl : 1..ThrottleTtl]
      BY <3>1, <3>3
    <3> QED BY <3>1, <3>3, <3>4, ParametersAreTyped DEF Throttled
  <2> QED BY <2>1, <2>2
<1>7. /\ AtKind(requests'[r])
      /\ ~KnowsAccount(requests'[r]) /\ ~Registered(requests'[r])
  BY <1>2, <1>4 DEF AtKind, KnowsAccount, Registered, Scopes, Ended
<1>8. Known' /\ AtMostOne'
  BY <1>4, <1>5, <1>7, OneRequestMoves DEF AccountStays
<1> QED BY <1>4, <1>5, <1>6, <1>8 DEF Types, Counters

LEMMA GoogleKeeps == ASSUME IInv, NEW r \in Requests, Google(r) PROVE IInv'
<1> USE DEF IInv
<1>1. Request(r, "google", None, None, None, "find")
  BY DEF Google
<1>2. /\ "google" \in Kinds /\ None \in Hashes /\ None \in Sids \union {None}
      /\ "find" \in Steps /\ "find" \notin Ended
  BY DEF Kinds, Hashes, Steps, Ended
<1>3. /\ requests' \in [Requests -> Carried]
      /\ \A q \in Requests \ {r} : requests'[q] = requests[q]
      /\ requests'[r].kind = "google" /\ requests'[r].at = "find"
  BY <1>1, <1>2, Arrives
<1>4. UNCHANGED <<mix, account, sessions, counters, hits, block>>
  BY DEF Google
<1>5. Known' /\ AtMostOne'
  BY <1>3, <1>4, OneRequestMoves DEF AccountStays, AtKind, KnowsAccount, Registered
<1> QED BY <1>3, <1>4, <1>5 DEF Types, Counters, Throttled

LEMMA WithSessionKeeps == ASSUME IInv, NEW r \in Requests, WithSession(r) PROVE IInv'
<1> USE DEF IInv
<1>1. PICK kind \in {"password", "logout", "me"}, s \in Sids :
        IF kind # "password"
        THEN Request(r, kind, None, None, s, IF Live(s) THEN "slide" ELSE "refused")
        ELSE \E p, new \in Passwords :
               p # new /\ Request(r, kind, p, new, s, IF Live(s) THEN "slide" ELSE "refused")
  BY DEF WithSession
<1> DEFINE at == IF Live(s) THEN "slide" ELSE "refused"
<1>2. PICK p \in Hashes, new \in Hashes :
        /\ Request(r, kind, p, new, s, at)
        /\ kind = "password" => new \in Passwords
  BY <1>1 DEF Hashes
<1>3. kind \in Kinds /\ s \in Sids \union {None} /\ at \in {"slide", "refused"} /\ at \in Steps
  BY DEF Kinds, Steps, Ended
<1> HIDE DEF at
<1>4. /\ requests' \in [Requests -> Carried]
      /\ \A q \in Requests \ {r} : requests'[q] = requests[q]
      /\ requests'[r].kind = kind /\ requests'[r].at = at
      /\ at \notin Ended => requests'[r].new = new /\ requests'[r].sid = s
  BY <1>2, <1>3, Arrives
<1>5. UNCHANGED <<mix, account, sessions, counters, hits, block>>
  BY DEF WithSession
<1>6. /\ AtKind(requests'[r])
      /\ ~KnowsAccount(requests'[r]) /\ ~Registered(requests'[r])
  BY <1>2, <1>3, <1>4 DEF AtKind, KnowsAccount, Registered, Ended
<1>7. Known' /\ AtMostOne'
  BY <1>4, <1>5, <1>6, OneRequestMoves DEF AccountStays
<1> QED BY <1>4, <1>5, <1>7 DEF Types, Counters, Throttled

\* What a request is and where it is, before a step of it.
LEMMA RequestIsTyped ==
    ASSUME IInv, NEW r \in Requests
    PROVE  /\ requests[r] \in Carried
           /\ AtKind(requests[r])
           /\ KnowsAccount(requests[r]) => account # None
           /\ Registered(requests[r]) => account # None /\ account.hash # None
BY DEF IInv, Types, Known

LEMMA SlideKeeps == ASSUME IInv, NEW r \in Requests, Slide(r) PROVE IInv'
<1> USE DEF IInv
<1> DEFINE at == CASE requests[r].kind = "password" -> "find"
                   [] requests[r].kind = "logout" -> "destroy"
                   [] OTHER -> "done"
<1>1. requests[r].at = "slide" /\ AtKind(requests[r]) /\ Go(r, at)
  BY RequestIsTyped DEF Slide
<1>2. /\ requests[r].kind \in {"password", "logout", "me"} /\ requests[r].sid \in Sids
      /\ requests[r].kind = "password" => requests[r].new \in Passwords
  BY <1>1 DEF AtKind, Ended
<1>3. /\ at = "find" => requests[r].kind = "password"
      /\ at = "destroy" => requests[r].kind = "logout"
      /\ at \in {"find", "destroy", "done"}
      /\ at \in Steps
  BY <1>2 DEF Steps, Ended
<1> HIDE DEF at
<1>4. /\ requests' \in [Requests -> Carried]
      /\ \A q \in Requests \ {r} : requests'[q] = requests[q]
      /\ requests'[r].kind = requests[r].kind /\ requests'[r].at = at
      /\ at \notin Ended => requests'[r].new = requests[r].new /\ requests'[r].sid = requests[r].sid
  BY <1>1, <1>3, Goes DEF Types
<1>5. UNCHANGED <<mix, account, counters, hits, block>>
  BY DEF Slide
<1>6. /\ AtKind(requests'[r])
      /\ ~KnowsAccount(requests'[r]) /\ ~Registered(requests'[r])
  BY <1>2, <1>3, <1>4 DEF AtKind, KnowsAccount, Registered, Ended
<1>7. Known' /\ AtMostOne'
  BY <1>4, <1>5, <1>6, OneRequestMoves DEF AccountStays
<1>8. sessions' \in [Sids -> {None, Gone} \union 1..SessionTtl]
  BY <1>2, ParametersAreTyped DEF Slide, Types
<1> QED BY <1>4, <1>5, <1>7, <1>8 DEF Types, Counters, Throttled

\* Counting leaves a counter that has counted, and at most one too many.
LEMMA CountedIsTyped ==
    ASSUME Counters, NEW scope \in Scopes
    PROVE  Counted(counters[scope]) \in [n : 1..(MaxAttempts + 1), ttl : {Forever} \union 1..Window]
<1> DEFINE c == counters[scope]
           n == IF c.n > MaxAttempts THEN c.n ELSE c.n + 1
           ttl == IF c.n = 0 THEN Forever ELSE c.ttl
           Counter == [n : 1..(MaxAttempts + 1), ttl : {Forever} \union 1..Window]
<1>1. c = Absent \/ c \in Counter
  BY DEF Counters
<1>2. /\ c \in [n : 0..(MaxAttempts + 1), ttl : {0, Forever} \union 1..Window]
      /\ c.n = 0 \/ c.ttl \in {Forever} \union 1..Window
  BY <1>1, ParametersAreTyped DEF Absent
<1>3. Counted(c) = [c EXCEPT !.n = n, !.ttl = ttl]
  BY DEF Counted
<1>4. n \in 1..(MaxAttempts + 1) /\ ttl \in {Forever} \union 1..Window
  BY <1>2, ParametersAreTyped
<1> DEFINE Old == [n : 0..(MaxAttempts + 1), ttl : {0, Forever} \union 1..Window]
<1>5. \A x \in Old : \A m \in 1..(MaxAttempts + 1), t \in {Forever} \union 1..Window :
         [x EXCEPT !.n = m, !.ttl = t] \in Counter
  OBVIOUS
<1>6. c \in Old
  BY <1>2
<1>7. [c EXCEPT !.n = n, !.ttl = ttl] \in Counter
  <2> HIDE DEF n, ttl, c, Old, Counter
  <2> QED BY <1>4, <1>5, <1>6
<1> HIDE DEF n, ttl, c, Old, Counter
<1> QED BY <1>3, <1>7 DEF Counter, c

LEMMA AdmittedGoesOn ==
    ASSUME NEW kind \in Scopes
    PROVE  /\ Admitted(kind) \in {"find", "create", "verify"}
           /\ Admitted(kind) \in Steps /\ Admitted(kind) \notin Ended
           /\ Admitted(kind) = "find" <=> kind = "login"
           /\ Admitted(kind) = "create" <=> kind = "register"
           /\ Admitted(kind) = "verify" <=> kind = "password"
<1>1. CASE kind = "login"
  BY <1>1 DEF Admitted, Steps, Ended
<1>2. CASE kind = "register"
  BY <1>2 DEF Admitted, Steps, Ended
<1>3. CASE kind = "password"
  BY <1>3 DEF Admitted, Steps, Ended
<1> QED BY <1>1, <1>2, <1>3 DEF Scopes

\* From the limiter a request comes to where its kind goes on, or is told to wait.
LEMMA LimiterKeeps ==
    ASSUME IInv, NEW r \in Requests, requests[r].at \in {"incr", "expire"},
           NEW at \in {"expire", "limited", Admitted(requests[r].kind)}, Go(r, at),
           UNCHANGED <<mix, account, sessions, hits, block>>, Counters'
    PROVE  IInv'
<1> USE DEF IInv
<1>1. /\ requests[r].kind \in Scopes /\ AtKind(requests[r])
      /\ KnowsAccount(requests[r]) => account # None
  BY RequestIsTyped DEF AtKind
<1>2. at \in Steps
  BY <1>1, AdmittedGoesOn DEF Steps, Ended
<1>3. /\ requests' \in [Requests -> Carried]
      /\ \A q \in Requests \ {r} : requests'[q] = requests[q]
      /\ requests'[r].kind = requests[r].kind /\ requests'[r].at = at
      /\ at \notin Ended => requests'[r].given = requests[r].given /\ requests'[r].new = requests[r].new
  BY <1>2, Goes DEF Types
<1>4. requests[r].at \notin Ended
  BY DEF Ended
<1>5. AtKind(requests'[r])
  BY <1>1, <1>3, <1>4, AdmittedGoesOn DEF AtKind, Ended, Scopes
<1>6. KnowsAccount(requests'[r]) => account # None
  BY <1>1, <1>3, AdmittedGoesOn DEF KnowsAccount
<1>7. ~Registered(requests'[r])
  BY <1>1, <1>3, AdmittedGoesOn DEF Registered, Ended
<1>8. Known' /\ AtMostOne'
  BY <1>3, <1>5, <1>6, <1>7, OneRequestMoves DEF AccountStays
<1> QED BY <1>3, <1>8 DEF Types, Throttled

LEMMA IncrKeeps == ASSUME IInv, NEW r \in Requests, Incr(r) PROVE IInv'
<1> DEFINE kind == requests[r].kind
           c == Counted(counters[kind])
           at == IF c.n = 1 THEN "expire" ELSE IF c.n > MaxAttempts THEN "limited" ELSE Admitted(kind)
<1>1. kind \in Scopes
  BY RequestIsTyped DEF Incr, AtKind
<1>2. /\ requests[r].at \in {"incr", "expire"}
      /\ at \in {"expire", "limited", Admitted(kind)} /\ Go(r, at)
      /\ UNCHANGED <<mix, account, sessions, hits, block>>
  BY DEF Incr
<1>3. counters' = [counters EXCEPT ![kind] = c]
  BY DEF Incr
<1> HIDE DEF at, c
<1>4. c \in [n : 1..(MaxAttempts + 1), ttl : {Forever} \union 1..Window]
  BY <1>1, CountedIsTyped DEF IInv, c
<1>5. Counters'
  BY <1>1, <1>3, <1>4 DEF IInv, Counters
<1> QED BY <1>2, <1>5, LimiterKeeps

LEMMA ExpireKeeps == ASSUME IInv, NEW r \in Requests, Expire(r) PROVE IInv'
<1> DEFINE kind == requests[r].kind
<1>1. kind \in Scopes
  BY RequestIsTyped DEF Expire, AtKind
<1>2. /\ requests[r].at \in {"incr", "expire"} /\ Go(r, Admitted(kind))
      /\ UNCHANGED <<mix, account, sessions, hits, block>>
      /\ counters' = [counters EXCEPT ![kind] =
                        IF counters[kind].n = 0 THEN counters[kind]
                        ELSE [counters[kind] EXCEPT !.ttl = Window]]
  BY DEF Expire
<1>3. counters[kind].n = 0 \/ counters[kind] \in [n : 1..(MaxAttempts + 1), ttl : {Forever} \union 1..Window]
  BY <1>1 DEF IInv, Counters, Absent
<1>4. Counters'
  BY <1>1, <1>2, <1>3, ParametersAreTyped DEF IInv, Counters
<1> QED BY <1>2, <1>4, LimiterKeeps

LEMMA FindKeeps == ASSUME IInv, NEW r \in Requests, Find(r) PROVE IInv'
<1> USE DEF IInv
<1>1. /\ requests[r] \in Carried /\ AtKind(requests[r]) /\ requests[r].at = "find"
      /\ UNCHANGED <<mix, account, sessions, counters, hits, block>>
  BY RequestIsTyped DEF Find
<1>2. CASE GoogleFinds(r)
  <2> DEFINE at == IF account # None THEN "establish" ELSE "create"
  <2>1. Go(r, at) /\ at \in Steps /\ at \notin Ended /\ requests[r].kind = "google"
    BY <1>2 DEF GoogleFinds, Steps, Ended
  <2>2. /\ requests' \in [Requests -> Carried]
        /\ \A q \in Requests \ {r} : requests'[q] = requests[q]
        /\ requests'[r].kind = "google" /\ requests'[r].at = at
    BY <2>1, Goes DEF Types
  <2>3. AtKind(requests'[r]) /\ ~KnowsAccount(requests'[r]) /\ ~Registered(requests'[r])
    BY <2>2 DEF AtKind, KnowsAccount, Registered
  <2>4. Known' /\ AtMostOne'
    BY <1>1, <2>2, <2>3, OneRequestMoves DEF AccountStays
  <2> QED BY <1>1, <2>2, <2>4 DEF Types, Counters, Throttled
<1>3. CASE AccountRead(r)
  <2> DEFINE kind == requests[r].kind
             hash == IF account = None THEN None ELSE account.hash
  <2>1. kind \in {"login", "password"} /\ requests[r].at \notin Ended
    BY <1>1, <1>3 DEF AccountRead, Ended
  <2>2. CASE hash = None
    <3> DEFINE at == IF kind = "password" /\ account # None THEN "store" ELSE "refused"
    <3>1. Go(r, at) /\ at \in Steps /\ at \in {"store", "refused"}
      BY <1>3, <2>2 DEF AccountRead, Steps, Ended
    <3>2. /\ requests' \in [Requests -> Carried]
          /\ \A q \in Requests \ {r} : requests'[q] = requests[q]
          /\ requests'[r].kind = kind /\ requests'[r].at = at
          /\ at \notin Ended => requests'[r].new = requests[r].new
      BY <3>1, Goes DEF Types
    <3>3. /\ AtKind(requests'[r]) /\ ~Registered(requests'[r])
          /\ KnowsAccount(requests'[r]) => account # None
      BY <1>1, <2>1, <3>2 DEF AtKind, KnowsAccount, Registered, Ended
    <3>4. Known' /\ AtMostOne'
      BY <1>1, <3>2, <3>3, OneRequestMoves DEF AccountStays
    <3> QED BY <1>1, <3>2, <3>4 DEF Types, Counters, Throttled
  <2>3. CASE hash # None
    <3> DEFINE at == IF kind = "login" THEN "verify" ELSE "incr"
               next == [requests[r] EXCEPT !.hash = hash, !.at = at]
    <3>1. requests' = [requests EXCEPT ![r].hash = hash, ![r].at = at]
      BY <1>3, <2>3 DEF AccountRead
    <3>2. requests' = [requests EXCEPT ![r] = next]
      BY <3>1 DEF Types
    <3>3. hash \in Hashes /\ at \in Steps /\ account # None
      BY <2>3 DEF Types, Steps
    <3>4. /\ next \in Carried /\ next.kind = kind /\ next.at = at
          /\ next.given = requests[r].given /\ next.new = requests[r].new
      <4> HIDE DEF at, hash
      <4> QED BY <1>1, <3>3 DEF Carried
    <3> HIDE DEF next
    <3>5. /\ requests' \in [Requests -> Carried] /\ requests'[r] = next
          /\ \A q \in Requests \ {r} : requests'[q] = requests[q]
      BY <3>2, <3>4 DEF Types
    <3>6. AtKind(requests'[r]) /\ ~Registered(requests'[r])
      BY <1>1, <2>1, <3>4, <3>5 DEF AtKind, Registered, Ended, Scopes
    <3>7. Known' /\ AtMostOne'
      BY <1>1, <3>3, <3>5, <3>6, OneRequestMoves DEF AccountStays
    <3> QED BY <1>1, <3>5, <3>7 DEF Types, Counters, Throttled
  <2> QED BY <2>2, <2>3
<1> QED BY <1>2, <1>3 DEF Find

LEMMA VerifyKeeps == ASSUME IInv, NEW r \in Requests, Verify(r) PROVE IInv'
<1> USE DEF IInv
<1> DEFINE at == IF requests[r].given = requests[r].hash THEN "reset" ELSE "refused"
<1>1. /\ AtKind(requests[r]) /\ requests[r].at = "verify"
      /\ KnowsAccount(requests[r]) => account # None
      /\ UNCHANGED <<mix, account, sessions, counters, hits, block>>
      /\ Go(r, at) /\ at \in Steps /\ at \in {"reset", "refused"}
  BY RequestIsTyped DEF Verify, Steps, Ended
<1> HIDE DEF at
<1>2. /\ requests' \in [Requests -> Carried]
      /\ \A q \in Requests \ {r} : requests'[q] = requests[q]
      /\ requests'[r].kind = requests[r].kind /\ requests'[r].at = at
      /\ at \notin Ended => requests'[r].new = requests[r].new
  BY <1>1, Goes DEF Types
<1>3. /\ AtKind(requests'[r]) /\ ~Registered(requests'[r])
      /\ KnowsAccount(requests'[r]) => account # None
  BY <1>1, <1>2 DEF AtKind, KnowsAccount, Registered, Ended
<1>4. Known' /\ AtMostOne'
  BY <1>1, <1>2, <1>3, OneRequestMoves DEF AccountStays
<1> QED BY <1>1, <1>2, <1>4 DEF Types, Counters, Throttled

LEMMA ResetKeeps == ASSUME IInv, NEW r \in Requests, Reset(r) PROVE IInv'
<1> USE DEF IInv
<1> DEFINE at == IF requests[r].kind = "login" THEN "establish" ELSE "store"
<1>1. /\ AtKind(requests[r]) /\ requests[r].at = "reset"
      /\ KnowsAccount(requests[r]) => account # None
      /\ UNCHANGED <<mix, account, sessions, hits, block>>
      /\ Go(r, at) /\ at \in Steps /\ at \notin Ended
  BY RequestIsTyped DEF Reset, Steps, Ended
<1>2. requests[r].kind \in {"login", "password"}
  BY <1>1 DEF AtKind
<1>3. /\ requests' \in [Requests -> Carried]
      /\ \A q \in Requests \ {r} : requests'[q] = requests[q]
      /\ requests'[r].kind = requests[r].kind /\ requests'[r].at = at
      /\ requests'[r].new = requests[r].new
  BY <1>1, Goes DEF Types
<1>4. /\ AtKind(requests'[r]) /\ ~Registered(requests'[r])
      /\ KnowsAccount(requests'[r]) => account # None
  BY <1>1, <1>2, <1>3 DEF AtKind, KnowsAccount, Registered, Ended
<1>5. Known' /\ AtMostOne'
  BY <1>1, <1>3, <1>4, OneRequestMoves DEF AccountStays
<1>6. Counters'
  BY <1>2 DEF Reset, Counters, Scopes
<1> QED BY <1>1, <1>3, <1>5, <1>6 DEF Types, Throttled

LEMMA NoneIsNoAccount == None \notin Passwords /\ None \notin [hash : Hashes] /\ None # Gone
BY AccountsAssumption DEF Hashes

\* Where there is no account no registration has gone through, so the one that creates
\* it is the only one.
LEMMA CreateKeeps == ASSUME IInv, NEW r \in Requests, Create(r) PROVE IInv'
<1> USE DEF IInv
<1>1. /\ requests[r] \in Carried /\ AtKind(requests[r]) /\ requests[r].at = "create"
      /\ UNCHANGED <<mix, sessions, counters, hits, block>>
  BY RequestIsTyped DEF Create
<1>2. /\ requests[r].kind \in {"register", "google"}
      /\ requests[r].kind = "register" => requests[r].given \in Passwords
  BY <1>1 DEF AtKind, Ended
<1>3. CASE account = None
  <2>1. account' = [hash |-> requests[r].given] /\ Go(r, "establish")
    BY <1>3 DEF Create
  <2>2. account' \in [hash : Hashes] /\ account'.hash = requests[r].given
    BY <1>1, <2>1 DEF Carried
  <2>3. account' # None /\ (requests[r].kind = "register" => account'.hash # None)
    BY <1>2, <2>2, NoneIsNoAccount
  <2>4. /\ requests' \in [Requests -> Carried]
        /\ \A q \in Requests \ {r} : requests'[q] = requests[q]
        /\ requests'[r].kind = requests[r].kind /\ requests'[r].at = "establish"
        /\ requests'[r].given = requests[r].given
    BY <2>1, Goes DEF Types, Steps, Ended
  <2>5. \A q \in Requests : ~Registered(requests[q])
    BY <1>3 DEF Known
  <2>6. AtKind(requests'[r]) /\ ~KnowsAccount(requests'[r])
    BY <1>2, <2>4 DEF AtKind, KnowsAccount
  <2>7. Registered(requests'[r]) => account'.hash # None
    BY <2>3, <2>4 DEF Registered
  <2>8. Known' /\ AtMostOne'
    BY <1>3, <2>3, <2>4, <2>5, <2>6, <2>7, OneRequestMoves DEF AccountStays
  <2> QED BY <1>1, <2>2, <2>4, <2>8 DEF Types, Counters, Throttled
<1>4. CASE account # None
  <2> DEFINE at == IF requests[r].kind = "google" THEN "refind" ELSE "refused"
  <2>1. Go(r, at) /\ account' = account /\ at \in Steps
    BY <1>4 DEF Create, Steps, Ended
  <2>2. /\ requests' \in [Requests -> Carried]
        /\ \A q \in Requests \ {r} : requests'[q] = requests[q]
        /\ requests'[r].kind = requests[r].kind /\ requests'[r].at = at
    BY <2>1, Goes DEF Types
  <2>3. AtKind(requests'[r]) /\ ~Registered(requests'[r])
    BY <1>2, <2>2 DEF AtKind, Registered, Ended
  <2>4. Known' /\ AtMostOne'
    BY <1>4, <2>1, <2>2, <2>3, OneRequestMoves DEF AccountStays
  <2> QED BY <1>1, <2>1, <2>2, <2>4 DEF Types, Counters, Throttled
<1> QED BY <1>3, <1>4

LEMMA RefindKeeps == ASSUME IInv, NEW r \in Requests, Refind(r) PROVE IInv'
<1> USE DEF IInv
<1>1. /\ requests[r].at = "refind" /\ requests[r].kind = "google" /\ account # None
      /\ UNCHANGED <<mix, account, sessions, counters, hits, block>>
  BY RequestIsTyped DEF Refind, AtKind, KnowsAccount
<1>2. Go(r, "establish") /\ "establish" \in Steps
  BY <1>1 DEF Refind, Steps
<1>3. /\ requests' \in [Requests -> Carried]
      /\ \A q \in Requests \ {r} : requests'[q] = requests[q]
      /\ requests'[r].kind = "google" /\ requests'[r].at = "establish"
  BY <1>1, <1>2, Goes DEF Types
<1>4. AtKind(requests'[r]) /\ ~KnowsAccount(requests'[r]) /\ ~Registered(requests'[r])
  BY <1>3 DEF AtKind, KnowsAccount, Registered
<1>5. Known' /\ AtMostOne'
  BY <1>1, <1>3, <1>4, OneRequestMoves DEF AccountStays
<1> QED BY <1>1, <1>3, <1>5 DEF Types, Counters, Throttled

LEMMA EstablishKeeps == ASSUME IInv, NEW r \in Requests, Establish(r) PROVE IInv'
<1> USE DEF IInv
<1>1. /\ AtKind(requests[r]) /\ requests[r].at = "establish"
      /\ Registered(requests[r]) => account # None /\ account.hash # None
      /\ UNCHANGED <<mix, account, counters, hits, block>>
      /\ Go(r, "in") /\ "in" \in Steps
  BY RequestIsTyped DEF Establish, Steps, Ended
<1>2. /\ requests' \in [Requests -> Carried]
      /\ \A q \in Requests \ {r} : requests'[q] = requests[q]
      /\ requests'[r].kind = requests[r].kind /\ requests'[r].at = "in"
  BY <1>1, Goes DEF Types
<1>3. /\ AtKind(requests'[r]) /\ ~KnowsAccount(requests'[r])
      /\ Registered(requests'[r]) => Registered(requests[r])
  BY <1>1, <1>2 DEF AtKind, KnowsAccount, Registered, Ended
<1>4. Known' /\ AtMostOne'
  BY <1>1, <1>2, <1>3, OneRequestMoves DEF AccountStays
<1>5. sessions' \in [Sids -> {None, Gone} \union 1..SessionTtl]
  BY ParametersAreTyped DEF Establish, Types
<1> QED BY <1>1, <1>2, <1>4, <1>5 DEF Types, Counters, Throttled

LEMMA StoreKeeps == ASSUME IInv, NEW r \in Requests, Store(r) PROVE IInv'
<1> USE DEF IInv
<1>1. /\ requests[r].kind = "password" /\ requests[r].new \in Passwords /\ account # None
      /\ UNCHANGED <<mix, sessions, counters, hits, block>>
      /\ account' = [account EXCEPT !.hash = requests[r].new]
      /\ Go(r, "done") /\ "done" \in Steps
  BY RequestIsTyped DEF Store, AtKind, KnowsAccount, Steps, Ended
<1>2. account \in [hash : Hashes]
  BY <1>1 DEF Types
<1>3. account' \in [hash : Hashes] /\ account'.hash = requests[r].new
  BY <1>1, <1>2 DEF Hashes
<1>4. account' # None /\ account'.hash # None
  BY <1>1, <1>3, NoneIsNoAccount
<1>5. /\ requests' \in [Requests -> Carried]
      /\ \A q \in Requests \ {r} : requests'[q] = requests[q]
      /\ requests'[r].kind = "password" /\ requests'[r].at = "done"
  BY <1>1, Goes DEF Types
<1>6. AtKind(requests'[r]) /\ ~KnowsAccount(requests'[r]) /\ ~Registered(requests'[r])
  BY <1>5 DEF AtKind, KnowsAccount, Registered, Ended
<1>7. Known' /\ AtMostOne'
  BY <1>4, <1>5, <1>6, OneRequestMoves DEF AccountStays
<1> QED BY <1>1, <1>3, <1>5, <1>7 DEF Types, Counters, Throttled

LEMMA DestroyKeeps == ASSUME IInv, NEW r \in Requests, Destroy(r) PROVE IInv'
<1> USE DEF IInv
<1>1. /\ requests[r].kind = "logout" /\ requests[r].sid \in Sids
      /\ UNCHANGED <<mix, account, counters, hits, block>>
      /\ Go(r, "done") /\ "done" \in Steps
  BY RequestIsTyped DEF Destroy, AtKind, Steps, Ended
<1>2. /\ requests' \in [Requests -> Carried]
      /\ \A q \in Requests \ {r} : requests'[q] = requests[q]
      /\ requests'[r].kind = "logout" /\ requests'[r].at = "done"
  BY <1>1, Goes DEF Types
<1>3. AtKind(requests'[r]) /\ ~KnowsAccount(requests'[r]) /\ ~Registered(requests'[r])
  BY <1>2 DEF AtKind, KnowsAccount, Registered, Ended
<1>4. Known' /\ AtMostOne'
  BY <1>1, <1>2, <1>3, OneRequestMoves DEF AccountStays
<1>5. sessions' \in [Sids -> {None, Gone} \union 1..SessionTtl]
  BY <1>1 DEF Destroy, Types
<1> QED BY <1>1, <1>2, <1>4, <1>5 DEF Types, Counters, Throttled

LEMMA FailsKeeps == ASSUME IInv, NEW r \in Requests, Fails(r) PROVE IInv'
<1> USE DEF IInv
<1>1. /\ UNCHANGED <<mix, account, sessions, counters, hits, block>>
      /\ Go(r, "failed") /\ "failed" \in Steps
  BY DEF Fails, Steps, Ended
<1>2. /\ requests' \in [Requests -> Carried]
      /\ \A q \in Requests \ {r} : requests'[q] = requests[q]
      /\ requests'[r].at = "failed"
  BY <1>1, Goes DEF Types
<1>3. AtKind(requests'[r]) /\ ~KnowsAccount(requests'[r]) /\ ~Registered(requests'[r])
  BY <1>2 DEF AtKind, KnowsAccount, Registered, Ended
<1>4. Known' /\ AtMostOne'
  BY <1>1, <1>2, <1>3, OneRequestMoves DEF AccountStays
<1> QED BY <1>1, <1>2, <1>4 DEF Types, Counters, Throttled

\* The window and the block run out together, the block never before the window.
LEMMA TickKeeps == ASSUME IInv, Tick PROVE IInv'
<1> USE DEF IInv
<1>1. mix' = mix /\ account' = account /\ requests' = requests
  BY DEF Tick
<1>2. sessions' \in [Sids -> {None, Gone} \union 1..SessionTtl]
  BY ParametersAreTyped DEF Tick, Live, Types
<1>3. Counters'
  <2> DEFINE Counter == [n : 1..(MaxAttempts + 1), ttl : {Forever} \union 1..Window]
  <2>1. ASSUME NEW scope \in Scopes
        PROVE  (IF counters[scope].ttl \in {0, Forever} THEN counters[scope]
                ELSE IF counters[scope].ttl = 1 THEN Absent
                ELSE [counters[scope] EXCEPT !.ttl = @ - 1]) \in {Absent} \union Counter
    <3>1. counters[scope] = Absent \/ counters[scope] \in Counter
      BY DEF Counters
    <3>2. CASE counters[scope] = Absent
      BY <3>2 DEF Absent
    <3>3. CASE counters[scope] \in Counter
      BY <3>3, ParametersAreTyped
    <3> QED BY <3>1, <3>2, <3>3
  <2> QED BY <2>1 DEF Tick, Counters
<1>4. Throttled'
  <2>1. CASE hits.ttl <= 1
    <3>1. hits' = Absent /\ block' = IF block = 0 THEN 0 ELSE block - 1
      BY <2>1 DEF Tick
    <3> QED BY <3>1, ParametersAreTyped DEF Throttled, Absent
  <2>2. CASE ~(hits.ttl <= 1)
    <3>1. /\ hits' = [hits EXCEPT !.ttl = @ - 1]
          /\ block' = IF block = 0 THEN 0 ELSE block - 1
      BY <2>2 DEF Tick
    <3>2. hits \in [n : 1..(Limit + 1), ttl : 2..ThrottleTtl]
      BY <2>2, ParametersAreTyped DEF Throttled, Absent
    <3>3. /\ hits' \in [n : 1..(Limit + 1), ttl : 1..ThrottleTtl]
          /\ hits'.n = hits.n /\ hits'.ttl = hits.ttl - 1
      BY <3>1, <3>2, ParametersAreTyped
    <3> QED BY <3>1, <3>2, <3>3, ParametersAreTyped DEF Throttled
  <2> QED BY <2>1, <2>2
<1>5. Known' /\ AtMostOne'
  BY <1>1 DEF Known, AtMostOne, AtKind, KnowsAccount, Registered
<1> QED BY <1>1, <1>2, <1>3, <1>4, <1>5 DEF Types

----------------------------------------------------------------------------
(***************************************************************************)
(* The theorems.                                                           *)
(***************************************************************************)

LEMMA InitKeeps == ASSUME Init PROVE IInv
<1>1. Types
  BY DEF Init, Types, Blank, Carried, Kinds, Steps, Ended, Hashes
<1>2. Counters
  BY DEF Init, Counters, Absent
<1>3. Throttled
  BY ParametersAreTyped DEF Init, Throttled, Absent
<1>4. Known /\ AtMostOne
  BY DEF Init, Known, AtMostOne, AtKind, KnowsAccount, Registered, Blank, Ended
<1> QED BY <1>1, <1>2, <1>3, <1>4 DEF IInv

LEMMA NextKeeps == ASSUME IInv, [Next]_vars PROVE IInv'
<1>1. CASE UNCHANGED vars
  BY <1>1 DEF IInv, Types, Counters, Throttled, Known, AtMostOne, AtKind, KnowsAccount,
              Registered, vars
<1>2. CASE Tick
  BY <1>2, TickKeeps
<1>3. ASSUME NEW r \in Requests,
             \/ SignIn(r) \/ Google(r) \/ WithSession(r) \/ Slide(r) \/ Incr(r) \/ Expire(r)
             \/ Find(r) \/ Verify(r) \/ Reset(r) \/ Create(r) \/ Refind(r) \/ Establish(r)
             \/ Store(r) \/ Destroy(r) \/ Fails(r)
      PROVE  IInv'
  BY <1>3, SignInKeeps, GoogleKeeps, WithSessionKeeps, SlideKeeps, IncrKeeps, ExpireKeeps,
     FindKeeps, VerifyKeeps, ResetKeeps, CreateKeeps, RefindKeeps, EstablishKeeps, StoreKeeps,
     DestroyKeeps, FailsKeeps
<1> QED BY <1>1, <1>2, <1>3 DEF Next

\* What each statement of a request relies on holds whenever it runs, and the block of the
\* throttle lasts as long as its window.
THEOREM AccountsInvariance == Spec => []IInv
<1>1. Init => IInv
  BY InitKeeps
<1>2. IInv /\ [Next]_vars => IInv'
  BY NextKeeps
<1> QED BY <1>1, <1>2, PTL DEF Spec

\* Every variable of Accounts holds what its comment says: no counter counts beyond its
\* limit and one, and every key that is there has an expiry or is owed one.
THEOREM AccountsAreTyped == Spec => []AccountsTypeOK
<1>1. IInv => AccountsTypeOK
  <2> SUFFICES ASSUME IInv PROVE AccountsTypeOK
    OBVIOUS
  <2>1. /\ mix \in Mixes
        /\ account # None => account.hash \in Passwords \union {None}
        /\ \A s \in Sids : sessions[s] \in {None, Gone} \union 1..SessionTtl
    BY DEF IInv, Types, Hashes
  <2>2. \A scope \in Scopes :
            \/ counters[scope] = Absent
            \/ counters[scope].n \in 1..(MaxAttempts + 1)
               /\ counters[scope].ttl \in {Forever} \union 1..Window
    BY DEF IInv, Counters
  <2>3. /\ hits # Absent => hits.n \in 1..(Limit + 1) /\ hits.ttl \in 1..ThrottleTtl
        /\ block \in 0..ThrottleTtl
    BY DEF IInv, Throttled
  <2> QED BY <2>1, <2>2, <2>3 DEF AccountsTypeOK
<1> QED BY <1>1, AccountsInvariance, PTL

\* Of two registrations with one email at most one signs in, and neither signs in to the
\* account a sign-in with Google created: for any number of requests, in any order.
THEOREM RegistrationsAreUnique == Spec => []OneRegistrationWins
<1>1. IInv => OneRegistrationWins
  BY DEF IInv, Known, AtMostOne, Registered, OneRegistrationWins
<1> QED BY <1>1, AccountsInvariance, PTL

\* Whoever creates the account in between, a sign-in with Google goes through.
THEOREM GoogleGoesThrough == Spec => []GoogleIsNotRefused
<1>1. IInv => GoogleIsNotRefused
  BY DEF IInv, Known, AtKind, GoogleIsNotRefused
<1> QED BY <1>1, AccountsInvariance, PTL

\* A session that has ended stays ended: neither the request that looked it up before, nor
\* a new session, nor time brings its id back.
THEOREM EndedSessionsStayEnded == Spec => EndedStaysEnded
<1> DEFINE Stay == \A s \in Sids : sessions[s] = Gone => sessions'[s] = Gone
<1>1. ASSUME IInv, [Next]_vars PROVE Stay
  <2> SUFFICES ASSUME NEW s \in Sids, sessions[s] = Gone PROVE sessions'[s] = Gone
    OBVIOUS
  <2>1. sessions \in [Sids -> {None, Gone} \union 1..SessionTtl] /\ None # Gone
    BY <1>1, NoneIsNoAccount DEF IInv, Types
  <2>2. CASE sessions' = sessions
    BY <2>2
  <2>3. ASSUME NEW r \in Requests, Slide(r) PROVE sessions'[s] = Gone
    BY <2>1, <2>3 DEF Slide, Live
  <2>4. ASSUME NEW r \in Requests, Establish(r) PROVE sessions'[s] = Gone
    <3> DEFINE new == CHOOSE t \in Sids : sessions[t] = None
    <3>1. sessions[new] = None
      BY <2>4 DEF Establish
    <3>2. new # s
      BY <2>1, <3>1
    <3> HIDE DEF new
    <3>3. sessions' = [sessions EXCEPT ![new] = SessionTtl]
      BY <2>4 DEF Establish, new
    <3> QED BY <2>1, <3>2, <3>3
  <2>5. ASSUME NEW r \in Requests, Destroy(r) PROVE sessions'[s] = Gone
    BY <2>1, <2>5 DEF Destroy
  <2>6. CASE Tick
    BY <2>1, <2>6 DEF Tick, Live
  <2> QED BY <1>1, <2>2, <2>3, <2>4, <2>5, <2>6
        DEF Next, vars, SignIn, Google, WithSession, Incr, Expire, Find, Verify, Reset, Create,
            Refind, Store, Fails
<1> QED BY <1>1, AccountsInvariance, PTL DEF Spec, EndedStaysEnded

=============================================================================
