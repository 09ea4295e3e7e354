------------------------------ MODULE PagePool ------------------------------
(***************************************************************************)
(* What a page frame allocator promises its callers, without its bitmap,   *)
(* its search or its counters: a caller asks for num consecutive frames,   *)
(* is granted a run nobody holds or is refused, and gives the run back.    *)
(* One request is in progress at a time: the kernel has one thread and no  *)
(* interrupt handler allocates.                                            *)
(***************************************************************************)
EXTENDS Integers, FiniteSets

CONSTANTS
  Usable,    \* the frames that hold memory the kernel may use
  Starts,    \* the frames at which a granted run may begin
  Holders,   \* the allocations that can be live at the same time
  Nobody,    \* no request in progress
  Nums       \* the run lengths callers ask for

VARIABLES
  pool,      \* the frames not granted to anybody
  grant,     \* the run each holder has, {} when none
  asker,     \* the holder whose request is in progress, or Nobody
  num        \* the length it asked for

vars == <<pool, grant, asker, num>>

Run(start, n) == start .. (start + n - 1)

Init ==
  /\ pool = Usable
  /\ grant = [h \in Holders |-> {}]
  /\ asker = Nobody
  /\ num \in Nums

Ask(h, n) ==
  /\ asker = Nobody
  /\ grant[h] = {}
  /\ asker' = h
  /\ num' = n
  /\ UNCHANGED <<pool, grant>>

Grant ==
  /\ asker # Nobody
  /\ \E start \in Starts :
       /\ Run(start, num) \subseteq pool
       /\ pool' = pool \ Run(start, num)
       /\ grant' = [grant EXCEPT ![asker] = Run(start, num)]
  /\ asker' = Nobody
  /\ UNCHANGED num

\* Only a request larger than all of memory is answered with a refusal.
Refuse ==
  /\ asker # Nobody
  /\ num > Cardinality(Usable)
  /\ asker' = Nobody
  /\ UNCHANGED <<pool, grant, num>>

GiveBack(h) ==
  /\ asker = Nobody
  /\ grant[h] # {}
  /\ pool' = pool \cup grant[h]
  /\ grant' = [grant EXCEPT ![h] = {}]
  /\ UNCHANGED <<asker, num>>

Next ==
  \/ \E h \in Holders, n \in Nums : Ask(h, n)
  \/ Grant
  \/ Refuse
  \/ \E h \in Holders : GiveBack(h)

Spec == Init /\ [][Next]_vars
=============================================================================
