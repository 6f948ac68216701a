-------------------------------- MODULE Create --------------------------------
(***************************************************************************)
(* One call of geodiff.CreateChangeset, query by query.  The driver opens  *)
(* no transaction: each of the three queries of a table reads the state    *)
(* its database is in when the query runs, and another program may commit  *)
(* to the modified database between two of them.  The base is the caller's *)
(* own copy.                                                               *)
(***************************************************************************)
EXTENDS Changeset

VARIABLES
    was,      \* the base of the call
    db,       \* the modified database
    query,    \* queries made so far; Idle between calls
    file,     \* the entries written so far
    touched   \* ghost: rows whose content a commit changed during the call

call == <<query, file, touched>>

Idle == -1
Queries == 3 * Len(TableOrder)

InitCall == query = Idle /\ file = <<>> /\ touched = {}

\* Another program's transaction on the modified database.
Commit(next) ==
    /\ db' = next
    /\ touched' = IF query = Idle THEN touched
                  ELSE touched \cup {r \in Tables \X Keys : db[r[1]][r[2]] # next[r[1]][r[2]]}
    /\ UNCHANGED <<was, query, file>>

\* Both files are opened, their tables agree and the output is created.
Call ==
    /\ query = Idle
    /\ query' = 0 /\ file' = <<>> /\ touched' = {}
    /\ UNCHANGED <<was, db>>

\* Fault: the reverse query is left out.
FoundForward(n) ==
    LET t == TableOrder[(n \div 3) + 1]
    IN  CASE n % 3 = 0 -> Inserted(t, was[t], db[t])
          [] n % 3 = 1 -> <<>>
          [] n % 3 = 2 -> Updated(t, was[t], db[t])

\* What query number n of the call, from 0, finds now.
Found(n) ==
    LET t == TableOrder[(n \div 3) + 1]
    IN  CASE n % 3 = 0 -> Inserted(t, was[t], db[t])
          [] n % 3 = 1 -> Deleted(t, was[t], db[t])
          [] n % 3 = 2 -> Updated(t, was[t], db[t])

Query ==
    /\ query \in 0..(Queries - 1)
    /\ file' = file \o Found(query)
    /\ query' = query + 1
    /\ UNCHANGED <<was, db, touched>>

\* The call returns an error.
Fail ==
    /\ query # Idle
    /\ query' = Idle /\ file' = <<>> /\ touched' = {}
    /\ UNCHANGED <<was, db>>

-----------------------------------------------------------------------------
(* Properties *)

\* A finished changeset is right about every row nobody changed while it was
\* made, whatever was committed to the other rows between the queries: the
\* entries of the row lead from its version in the base to the one in the
\* modified database.
UntouchedRowsRight ==
    query = Queries =>
        \A t \in Tables, k \in Keys :
            <<t, k>> \notin touched =>
                LET own == Picked(file, {i \in DOMAIN file : file[i].table = t /\ file[i].pk = k})
                    led == Replay(own, was)
                IN  led # Absent /\ led[t][k] = db[t][k]
=============================================================================
