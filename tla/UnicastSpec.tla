---------------------------- MODULE UnicastSpec ----------------------------
(***************************************************************************)
(* What one call of the element-wise binary executor promises (spec       *)
(* section 4.4 and the unicast correctness requirement of section 6),     *)
(* free of tiles, alignment and scratch buffers: the call pairs every     *)
(* a[i] with b[i] once, a contiguous run of fresh elements at a time, in  *)
(* any order of runs, and returns only when every element is done.  An    *)
(* empty slice returns at once.  res[i] is the sequence of b indices      *)
(* combined into a[i].                                                     *)
(***************************************************************************)
EXTENDS Naturals, Sequences

CONSTANT MaxLen   \* bound on the slice length of a call

VARIABLES
  len,    \* a.len() (= b.len())
  res,    \* res[i]: the b indices combined into a[i]
  state   \* "busy" while the call runs, "done" once it has returned

Idx == 0 .. (len - 1)

(* Every element of a has been combined with its partner in b.           *)
Complete(r) == \A i \in Idx : r[i] = <<i>>

Init ==
  /\ len \in 0 .. MaxLen
  /\ res = [i \in 0 .. (len - 1) |-> <<>>]
  /\ state = "busy"

(* The kernel runs over a[lo .. lo+n-1] and b[lo .. lo+n-1], none of     *)
(* which has been touched yet; the call may return in the same step if    *)
(* this finished the slice.                                                *)
Apply ==
  /\ state = "busy"
  /\ \E lo \in Idx, n \in 1 .. len :
       /\ lo + n <= len
       /\ \A i \in lo .. (lo + n - 1) : res[i] = <<>>
       /\ res' = [i \in Idx |-> IF lo <= i /\ i < lo + n THEN <<i>> ELSE res[i]]
  /\ state' \in IF Complete(res') THEN {"busy", "done"} ELSE {"busy"}
  /\ UNCHANGED len

(* The call returns once the slice is complete (at once when empty).      *)
Return ==
  /\ state = "busy"
  /\ Complete(res)
  /\ state' = "done"
  /\ UNCHANGED <<len, res>>

Next == Apply \/ Return

Spec == Init /\ [][Next]_<<len, res, state>> /\ WF_<<len, res, state>>(Next)
=============================================================================
