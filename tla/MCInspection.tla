---------------------------- MODULE MCInspection ----------------------------
(***************************************************************************)
(* TLC instance of Inspection: durations and gap of a few ticks, one issue *)
(* list of each kind and two assembly errors, so that a verdict can turn   *)
(* into another of the same status.                                        *)
(***************************************************************************)
EXTENDS Inspection, TLC

CONSTANTS e1, e2

\* The two assembly errors are interchangeable.
ErrorSymmetry == Permutations({e1, e2})

\* Update looks at a frame's id and time only to see whether they exceed the
\* last accepted ones: the next id with a repeated or any later time, and a
\* repeated id with a later time, stand for all.
Stamps ==
  ({<<last_id + 1, ts>> : ts \in last_timestamp..MaxTimestamp}
     \union {<<last_id, last_timestamp + 1>>})
  \intersect ((0..MaxFrameId) \X (0..MaxTimestamp))

MCNext ==
  \/ \E stamp \in Stamps, seen \in Evaluations(phase) \union {Hold} :
        Update(stamp[1], stamp[2], seen)
  \/ Reset

MCSpec == Init /\ [][MCNext]_vars
=============================================================================
