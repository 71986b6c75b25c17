----------------------------- MODULE SavedTours -----------------------------
(***************************************************************************)
(* The saved tours of one owner: the rows of the tours table, as           *)
(* SavedToursService and SavedToursRepository keep them.  A row has the    *)
(* name, the plan and the slug of the public link; the columns derived     *)
(* from the plan (start, totals, geometry, the snapshot of the caches) are *)
(* part of the plan.  Every request is one statement, hence one step.      *)
(***************************************************************************)
EXTENDS Naturals, FiniteSets

CONSTANTS Tours,   \* ids the database can hand out
          Names,   \* names a tour can have
          Slugs,   \* slugs that can be minted
          None,    \* SQL's NULL, and an id that was never given out
          Gone     \* a deleted row: its id is not given out again

VARIABLES rows,    \* rows[t]: the row of t, None or Gone
          minted   \* slugs handed out so far

serverVars == <<rows, minted>>

Exists(t) == rows[t] \notin {None, Gone}

\* GET /tours/:id: the row, or Gone for a 404.
GetById(t) == IF Exists(t) THEN [name |-> rows[t].name, plan |-> rows[t].plan] ELSE Gone

\* GET /tours: the owner's tours.
List == {t \in Tours : Exists(t)}

\* POST /tours: a fresh id, no link.
Save(t, name, plan) ==
    /\ rows[t] = None
    /\ rows' = [rows EXCEPT ![t] = [name |-> name, plan |-> plan, slug |-> None]]
    /\ UNCHANGED minted

\* PUT /tours/:id: "deliberately leaves created_at, share_slug, and the stored
\* preview untouched".
Update(t, name, plan) ==
    /\ Exists(t)
    /\ rows' = [rows EXCEPT ![t].name = name, ![t].plan = plan]
    /\ UNCHANGED minted

\* PATCH /tours/:id.
Rename(t, name) ==
    /\ Exists(t)
    /\ rows' = [rows EXCEPT ![t].name = name]
    /\ UNCHANGED minted

\* POST /tours/:id/share: kept only where the row has none (COALESCE).  A slug
\* another row holds is tried anew; 80 random bits are taken not to repeat.
Share(t, slug) ==
    /\ Exists(t)
    /\ slug \in Slugs \ minted
    /\ rows' = [rows EXCEPT ![t].slug = IF @ = None THEN slug ELSE @]
    /\ minted' = IF rows[t].slug = None THEN minted \union {slug} ELSE minted

\* DELETE /tours/:id/share.
Unshare(t) ==
    /\ Exists(t)
    /\ rows' = [rows EXCEPT ![t].slug = None]
    /\ UNCHANGED minted

\* DELETE /tours/:id.
Delete(t) ==
    /\ Exists(t)
    /\ rows' = [rows EXCEPT ![t] = Gone]
    /\ UNCHANGED minted

=============================================================================
