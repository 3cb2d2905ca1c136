----------------------------- MODULE MCSetStore -----------------------------
(***************************************************************************)
(* SetStore with unknown elements, which all share a bucket, and known     *)
(* numbers.                                                                *)
(***************************************************************************)
EXTENDS SetStore, TLC

Unknown(name) == [kind |-> "unknown", c |-> 0, text |-> "?", form |-> name]
Number(n, text) == [kind |-> "known", c |-> n, text |-> text, form |-> "short"]

(* For sharing: four members of one bucket, so that an append finds room.  *)
MCSharing == {Unknown("u1"), Number(1, "1")}
MCOneBucket == [t \in {"?", "1"} |-> 1]

(* For membership: two forms of one number, which hash alike and as an     *)
(* unknown one does.                                                       *)
MCMembership ==
  {Unknown("u1"), Number(1, "1"), [Number(1, "1") EXCEPT !.form = "long"]}

MCUnknowns == {Unknown("u1"), Unknown("u2")}

ASSUME MCHashAgrees == HashAgrees

MCHandles == Permutations(Handles)
=============================================================================
