----------------------------- MODULE AtomicApply -----------------------------
(***************************************************************************)
(* What ApplyChangeset promises a caller: in one step the database file    *)
(* holds every change of the changeset, or it is as it was.  The triggers  *)
(* of the user are never missing from the file.                            *)
(***************************************************************************)
EXTENDS Changeset

CONSTANTS
    Start,        \* contents of the file before the first call
    Skipped,      \* GeoPackage system tables: skipGpkgTable
    Referential,  \* databases without dangling references
    Triggers      \* the triggers of the user

VARIABLES
    busy,    \* a call is in progress
    log,     \* the changeset the caller applies
    rows,    \* the rows in the file
    defined  \* the triggers in the file

vars == <<busy, log, rows, defined>>

Wanted(l) == {i \in DOMAIN l : l[i].table \notin Skipped}

\* What is left to execute and what the database is, after n entries: any n of
\* them in any order, none without effect.
Turns(l, d) ==
    LET After(s, i) == [left |-> s.left \ {i}, rows |-> DatabaseAfter(l[i], s.rows)]
        after[n \in 0..Cardinality(Wanted(l))] ==
            IF n = 0 THEN {[left |-> Wanted(l), rows |-> d]}
            ELSE {s \in UNION {{After(r, i) : i \in r.left} : r \in after[n - 1]} :
                    s.rows # Absent}
    IN  after

\* The databases that executing every entry once leads to.
Effects(l, d) == {s.rows : s \in Turns(l, d)[Cardinality(Wanted(l))]}

Init ==
    /\ busy = FALSE
    /\ log \in Seq(Entry)
    /\ rows \in Start
    /\ defined = Triggers

\* An empty changeset is done at once.
Call ==
    /\ ~busy
    /\ busy' = (log # <<>>)
    /\ UNCHANGED <<log, rows, defined>>

Succeed ==
    /\ busy /\ busy' = FALSE
    /\ rows' \in Effects(log, rows) \cap Referential
    /\ UNCHANGED <<log, defined>>

Refuse == busy /\ busy' = FALSE /\ UNCHANGED <<log, rows, defined>>

Next == Call \/ Succeed \/ Refuse

Safety == Init /\ [][Next]_vars

\* Every call returns.
Returns == WF_vars(Succeed \/ Refuse)

Spec == Safety /\ Returns
=============================================================================
