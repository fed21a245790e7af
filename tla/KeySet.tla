------------------------------- MODULE KeySet -------------------------------
(***************************************************************************)
(* What the skip list promises its callers (skiplist.h, "Thread safety"): *)
(* a growing set of keys, one writer adding keys, and readers whose        *)
(* Contains(k) takes effect at some instant between its call and its      *)
(* return: it answers TRUE only for a key present on return, and TRUE for *)
(* every key already present on call.  Every call returns.                *)
(***************************************************************************)
CONSTANTS Keys, Readers

VARIABLES
  present,  \* the keys inserted so far
  phase,    \* per reader: "idle", "search" (inside Contains) or "done"
  askKey,   \* per reader: the key asked for
  atStart,  \* per reader: askKey was present when the call began
  answer    \* per reader: the value returned

vars == <<present, phase, askKey, atStart, answer>>

Init ==
  /\ present = {}
  /\ phase = [r \in Readers |-> "idle"]
  /\ askKey = [r \in Readers |-> CHOOSE k \in Keys : TRUE]
  /\ atStart = [r \in Readers |-> FALSE]
  /\ answer = [r \in Readers |-> FALSE]

Insert(k) ==
  /\ present' = present \cup {k}
  /\ UNCHANGED <<phase, askKey, atStart, answer>>

Call(r, k) ==
  /\ phase[r] = "idle"
  /\ phase' = [phase EXCEPT ![r] = "search"]
  /\ askKey' = [askKey EXCEPT ![r] = k]
  /\ atStart' = [atStart EXCEPT ![r] = k \in present]
  /\ UNCHANGED <<present, answer>>

Respond(r) ==
  /\ phase[r] = "search"
  /\ \E b \in BOOLEAN :
       /\ b => askKey[r] \in present
       /\ atStart[r] => b
       /\ answer' = [answer EXCEPT ![r] = b]
  /\ phase' = [phase EXCEPT ![r] = "done"]
  /\ UNCHANGED <<present, askKey, atStart>>

Return(r) ==
  /\ phase[r] = "done"
  /\ phase' = [phase EXCEPT ![r] = "idle"]
  /\ UNCHANGED <<present, askKey, atStart, answer>>

Next ==
  \/ \E k \in Keys : Insert(k)
  \/ \E r \in Readers, k \in Keys : Call(r, k)
  \/ \E r \in Readers : Respond(r) \/ Return(r)

Spec == Init /\ [][Next]_vars /\ \A r \in Readers : WF_vars(Respond(r))

=============================================================================
