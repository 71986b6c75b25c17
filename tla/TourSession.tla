----------------------------- MODULE TourSession -----------------------------
(***************************************************************************)
(* TourSessionProvider: which saved tour is open, and what is known of it. *)
(* The pointer is kept in localStorage, the tours fetched in React Query,  *)
(* a copy of each in IndexedDB.  A fetch is asked for, served by the       *)
(* server and answered in three steps, so that an answer may be older than *)
(* what the client has since stored.                                       *)
(***************************************************************************)
EXTENDS SavedTours

CONSTANTS Idle, Asked, Failed   \* the states of a request without an answer

VARIABLES open,     \* openTourId: a tour or None
          details,  \* ["tour", id] in React Query: [Tours -> detail or None]
          stale,    \* the details that were invalidated
          fetch,    \* [Tours -> Idle, Asked, Failed or the answer under way]
          idb,      \* IndexedDB: [Tours -> detail or None]
          ranFor,   \* the pointer the effect that loads the copy last ran for
          reads,    \* the tours whose copy is being read, for a run of that
                    \* effect that was not cancelled
          copy      \* idbDetail: [id, detail] or None

sessionVars == <<open, details, stale, fetch, idb, ranFor, reads, copy>>

\* The tour to show: "the id guard prevents a previous tour's IndexedDB copy
\* from rendering during a switch".
Detail(o, ds, c) ==
    IF o = None THEN None
    ELSE IF ds[o] # None THEN [id |-> o, of |-> ds[o]]
    ELSE IF c # None /\ c.id = o THEN c
    ELSE None

Shown == Detail(open, details, copy)

\* A query observed anew: asked for where there is no data or it was
\* invalidated, unless a request for it is under way.
Observe(t) ==
    fetch' = IF t # None /\ fetch[t] \in {Idle, Failed}
                         /\ (details[t] = None \/ t \in stale)
             THEN [fetch EXCEPT ![t] = Asked] ELSE fetch

\* openTour: the pointer is written on the intent to open.
OpenTour(t) ==
    /\ open' = t
    /\ IF t = open THEN UNCHANGED fetch ELSE Observe(t)
    /\ idb' = IF details[t] = None THEN idb ELSE [idb EXCEPT ![t] = details[t]]
    /\ UNCHANGED <<details, stale, ranFor, reads, copy>>

CloseTour ==
    /\ open' = None
    /\ UNCHANGED <<details, stale, fetch, idb, ranFor, reads, copy>>

\* Mutant: no `cancelled`, a read begun for another tour still counts.
StillReadingAll(under) == under

\* The clean-up of the effect's run before cancels its read.
StillReading(under) == {}

\* The effect on a changed pointer: no copy, until one is read.
Effect ==
    /\ ranFor # open
    /\ ranFor' = open
    /\ copy' = None
    /\ reads' = StillReading(reads) \union ({open} \ {None})
    /\ UNCHANGED <<open, details, stale, fetch, idb>>

\* IndexedDB answers a read, if only that there is no copy.  (The pointer may
\* have moved already, where the effect has not run for it yet.)
CopyRead(t) ==
    /\ t \in reads
    /\ reads' = reads \ {t}
    /\ copy' = IF idb[t] = None THEN copy ELSE [id |-> t, of |-> idb[t]]
    /\ UNCHANGED <<open, details, stale, fetch, idb, ranFor>>

\* The server answers, or the request fails.
Serve(t) ==
    /\ fetch[t] = Asked
    /\ fetch' = [fetch EXCEPT ![t] = GetById(t)]
    /\ UNCHANGED <<open, details, stale, idb, ranFor, reads, copy>>

FetchFails(t) ==
    /\ fetch[t] = Asked \/ fetch[t] = Gone
    /\ fetch' = [fetch EXCEPT ![t] = Failed]
    /\ UNCHANGED <<open, details, stale, idb, ranFor, reads, copy>>

UnderWay(t) == fetch[t] \notin {Idle, Asked, Failed, Gone}

\* The answer arrives; that of the open tour is mirrored to IndexedDB.
Answer(t) ==
    /\ UnderWay(t)
    /\ details' = [details EXCEPT ![t] = fetch[t]]
    /\ stale' = stale \ {t}
    /\ idb' = IF t = open THEN [idb EXCEPT ![t] = fetch[t]] ELSE idb
    /\ fetch' = [fetch EXCEPT ![t] = Idle]
    /\ UNCHANGED <<open, ranFor, reads, copy>>

\* What persistTour leaves in the cache: the detail the server returned, and
\* for a tour that was overwritten a new request where it is open.
Stored(t, detail, overwritten) ==
    /\ details' = [details EXCEPT ![t] = detail]
    /\ stale' = IF overwritten THEN stale \union {t} ELSE stale \ {t}
    /\ idb' = IF t = open THEN [idb EXCEPT ![t] = detail] ELSE idb
    /\ fetch' = IF overwritten /\ t = open THEN [fetch EXCEPT ![t] = Asked] ELSE fetch
    /\ UNCHANGED <<open, ranFor, reads, copy>>

\* pruneCachedTours, after the list was loaded.
Pruned(kept) == [t \in Tours |-> IF t \in kept THEN idb[t] ELSE None]

==============================================================================
