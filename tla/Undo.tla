--------------------------------- MODULE Undo ---------------------------------
(***************************************************************************)
(* The changesets a caller records of a database under edit: one per       *)
(* editing session (geodiff.CreateChangeset against the previous version), *)
(* appended to the record with geodiff.ConcatChanges; and the inverse of   *)
(* the record (geodiff.InvertChangeset), which is to lead back.            *)
(***************************************************************************)
EXTENDS Create

CONSTANTS
    Databases,   \* the versions the database goes through
    MaxCommits,  \* bound on the transactions
    MaxSessions  \* bound on the sessions recorded

ASSUME DatabasesAssumption == Databases \subseteq Database

VARIABLES
    base,     \* the version before the first session
    record,   \* the changeset file base -> was
    inverse,  \* the changeset file InvertChangeset wrote of it last
    sessions, \* sessions recorded so far
    commits   \* transactions so far

kept == <<base, record, inverse, sessions>>
vars == <<was, db, call, kept, commits>>

Init ==
    /\ base \in Databases
    /\ was = base /\ db = base
    /\ InitCall
    /\ record = <<>> /\ inverse = <<>>
    /\ sessions = 0 /\ commits = 0

Edit(next) ==
    /\ commits < MaxCommits /\ next # db
    /\ Commit(next)
    /\ commits' = commits + 1
    /\ UNCHANGED kept

Diff ==
    /\ sessions < MaxSessions
    /\ Call \/ Query \/ Fail
    /\ UNCHANGED <<kept, commits>>

\* The session ends: its changeset joins the record, and the database is the
\* base of the next.  Callers let no one write meanwhile (geodiff does not
\* notice).
EndSession ==
    /\ query = Queries /\ touched = {}
    /\ record' = ConcatChanges(record, file)
    /\ was' = db
    /\ sessions' = sessions + 1
    /\ query' = Idle /\ file' = <<>>
    /\ UNCHANGED <<db, touched, base, inverse, commits>>

Invert ==
    /\ query = Idle
    /\ inverse' = InvertChangeset(record)
    /\ UNCHANGED <<was, db, call, base, record, sessions, commits>>

Next == (\E d \in Databases : Edit(d)) \/ Diff \/ EndSession \/ Invert

Spec == Init /\ [][Next]_vars

-----------------------------------------------------------------------------
(* Properties *)

\* The record replays from the first version to the last recorded one, each
\* entry finding the row and the old values it names: CreateChangeset misses no
\* difference, and ConcatChanges keeps the order of the files.
RecordReplays == Replay(record, base) = was

\* The inverse of the changeset of one session leads back: each row has one
\* entry in it, so the order in which they are undone does not matter.
SessionUndone ==
    sessions = 1 /\ inverse = InvertChangeset(record) => Replay(inverse, was) = base

\* "applying changesetInv to MODIFIED produces BASE", for every record.
InverseUndoes == inverse = InvertChangeset(record) => Replay(inverse, was) = base
=============================================================================
