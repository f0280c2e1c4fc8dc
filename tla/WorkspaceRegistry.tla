------------------------- MODULE WorkspaceRegistry -------------------------
(***************************************************************************)
(* What the orchestrator promises its callers, without threads, API calls  *)
(* or failures: machines are made for one user on a volume of their own, a *)
(* user's record only ever names a machine of that user, and a volume is   *)
(* erased only after its machine is gone.  Orchestrator implements it.     *)
(***************************************************************************)
CONSTANTS Users, Machines, Volumes, None

VARIABLES record,  \* the machine each user's record names
          owner,   \* the user each machine was made for
          mount,   \* the volume each machine keeps its data on
          gone,    \* machines that no longer exist
          erased   \* volumes that no longer exist

rvars == <<record, owner, mount, gone, erased>>

Init ==
  /\ record = [u \in Users |-> None]
  /\ owner = [m \in Machines |-> None]
  /\ mount = [m \in Machines |-> None]
  /\ gone = {}
  /\ erased = {}

(* A machine is made once, on a volume no other machine has ever used.     *)
Make(u, m, v) ==
  /\ owner[m] = None
  /\ v \notin erased
  /\ \A n \in Machines : mount[n] # v
  /\ owner' = [owner EXCEPT ![m] = u]
  /\ mount' = [mount EXCEPT ![m] = v]
  /\ UNCHANGED <<record, gone, erased>>

Record(u, m) ==
  /\ owner[m] = u
  /\ record' = [record EXCEPT ![u] = m]
  /\ UNCHANGED <<owner, mount, gone, erased>>

Forget(u) ==
  /\ record' = [record EXCEPT ![u] = None]
  /\ UNCHANGED <<owner, mount, gone, erased>>

Remove(m) ==
  /\ owner[m] # None
  /\ gone' = gone \cup {m}
  /\ UNCHANGED <<record, owner, mount, erased>>

Erase(v) ==
  /\ \A m \in Machines : mount[m] = v => m \in gone
  /\ erased' = erased \cup {v}
  /\ UNCHANGED <<record, owner, mount, gone>>

Next ==
  \/ \E u \in Users, m \in Machines, v \in Volumes : Make(u, m, v)
  \/ \E u \in Users, m \in Machines : Record(u, m)
  \/ \E u \in Users : Forget(u)
  \/ \E m \in Machines : Remove(m)
  \/ \E v \in Volumes : Erase(v)

Spec == Init /\ [][Next]_rvars
=============================================================================
