----------------------------- MODULE OsrmClient -----------------------------
(***************************************************************************)
(* HttpOsrmClient.withSemaphore: the one counter every caller of OSRM in   *)
(* the API process shares.  The process is single-threaded: an action is   *)
(* what runs in one turn of the event loop up to the next await.  A waiter *)
(* that was woken has its continuation in the microtask queue, which is    *)
(* empty before another turn begins.                                       *)
(***************************************************************************)
EXTENDS Integers, Sequences, FiniteSets

CONSTANTS
    Callers,         \* calls that may be made of OSRM
    MaxConcurrency   \* OSRM_MAX_CONCURRENCY

ASSUME OsrmClientAssumption == MaxConcurrency \in Nat \ {0}

VARIABLES
    inFlight,   \* the counter
    waiters,    \* resolve functions of the calls that wait for a slot
    woken,      \* woken waiters whose continuation has not run
    calling     \* calls whose request is with OSRM

clientVars == <<inFlight, waiters, woken, calling>>

OsrmClientInit ==
    /\ inFlight = 0
    /\ waiters = <<>>
    /\ woken = <<>>
    /\ calling = {}

FreeSlots == IF inFlight < MaxConcurrency THEN MaxConcurrency - inFlight ELSE 0

Granted(calls) == IF Len(calls) < FreeSlots THEN Len(calls) ELSE FreeSlots

\* Calls made one after the other in one turn: each takes a slot or queues up.
Acquire(calls) ==
    /\ woken = <<>>
    /\ inFlight' = inFlight + Granted(calls)
    /\ calling' = calling \cup {calls[i] : i \in 1..Granted(calls)}
    /\ waiters' = waiters \o SubSeq(calls, Granted(calls) + 1, Len(calls))
    /\ UNCHANGED woken

\* The continuation of a woken waiter takes its slot without another look.
Resume ==
    /\ woken # <<>>
    /\ inFlight' = inFlight + 1
    /\ calling' = calling \cup {Head(woken)}
    /\ woken' = Tail(woken)
    /\ UNCHANGED waiters

\* Mutant: the slot is only given back, nobody is told.
ReleaseSilently(call) ==
    /\ woken = <<>>
    /\ call \in calling
    /\ calling' = calling \ {call}
    /\ inFlight' = inFlight - 1
    /\ UNCHANGED <<woken, waiters>>

\* The finally clause, after an answer, an error or the timeout: the slot is
\* given back and the first waiter is woken.
Release(call) ==
    /\ woken = <<>>
    /\ call \in calling
    /\ calling' = calling \ {call}
    /\ inFlight' = inFlight - 1
    /\ IF waiters = <<>>
       THEN UNCHANGED <<woken, waiters>>
       ELSE woken' = <<Head(waiters)>> /\ waiters' = Tail(waiters)

Unfinished == calling \cup {waiters[i] : i \in DOMAIN waiters} \cup {woken[i] : i \in DOMAIN woken}

\* No call is made twice at a time.
Fresh(calls) ==
    /\ \A i \in DOMAIN calls : calls[i] \notin Unfinished
    /\ \A i, j \in DOMAIN calls : calls[i] = calls[j] => i = j

OsrmClientNext ==
    \/ \E calls \in Seq(Callers) : Fresh(calls) /\ Acquire(calls)
    \/ Resume
    \/ \E call \in Callers : Release(call)

OsrmClientSpec == OsrmClientInit /\ [][OsrmClientNext]_clientVars

----------------------------------------------------------------------------

\* "Global concurrency cap on outbound OSRM requests": however calls arrive,
\* fail and are woken, no more than MaxConcurrency are with OSRM, although a
\* woken waiter does not look at the counter.
CapHolds == inFlight =< MaxConcurrency

\* A call waits only while every slot is taken or on its way to a waiter: no
\* wake-up is lost.
WaitingMeansFull == waiters # <<>> => inFlight + Len(woken) = MaxConcurrency

=============================================================================
