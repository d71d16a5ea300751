--------------------------- MODULE FileLifecycle ---------------------------
(***************************************************************************)
(* What a client of the store may rely on, file by file: a file is absent, *)
(* active or in the trash, and once its creation has been acknowledged it  *)
(* only leaves the active state for the trash, and only leaves the trash   *)
(* for good after somebody asked for its permanent removal.  Neither a     *)
(* process kill nor a failed system call adds a step.                      *)
(***************************************************************************)
CONSTANT FileIds

VARIABLES place,     \* where the file is listed
          promised   \* the files whose creation was acknowledged, not since purged

lifecycleVars == <<place, promised>>

Init ==
  /\ place = [id \in FileIds |-> "absent"]
  /\ promised = {}

Move(id, from, to) ==
  /\ place[id] = from
  /\ place' = [place EXCEPT ![id] = to]
  /\ UNCHANGED promised

Appear(id) == Move(id, "absent", "active")

Acknowledge(id) ==
  /\ place[id] = "active"
  /\ promised' = promised \cup {id}
  /\ UNCHANGED place

\* A creation that failed is taken back; the client has not been told otherwise.
Withdraw(id) == id \notin promised /\ Move(id, "active", "absent")

\* By Delete, and by Restore's inverse in Delete's rollback.
Discard(id) == Move(id, "active", "trashed")
Recall(id) == Move(id, "trashed", "active")

GiveUp(id) ==
  /\ place[id] = "trashed"
  /\ promised' = promised \ {id}
  /\ UNCHANGED place

Destroy(id) == id \notin promised /\ Move(id, "trashed", "absent")

Next == \E id \in FileIds :
  Appear(id) \/ Acknowledge(id) \/ Withdraw(id) \/ Discard(id) \/ Recall(id)
    \/ GiveUp(id) \/ Destroy(id)

Spec == Init /\ [][Next]_lifecycleVars
=============================================================================
