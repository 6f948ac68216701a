---------------------------- MODULE MCApplyJoined ----------------------------
(* Apply given two changesets in one, appended as ConcatChanges does. *)
EXTENDS MCApply

\* Two changesets, each of which can be applied on its own.
AppendedSituations ==
    OnItsBase({c \in Joined(Resolvables(TwoRowDiffs), TwoRows) : Resolvable(c.log, c.from)})

\* "Undo our changes -> apply theirs -> apply rebased": what can be done with one
\* changeset after the other can be done with the file they are appended to.
AppendedReachesTarget ==
    Ended /\ call.from = before => disk.rows = call.to
=============================================================================
