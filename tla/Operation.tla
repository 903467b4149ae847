----------------------------- MODULE Operation ------------------------------
(***************************************************************************)
(* What a sync operation promises, as the Application status shows it      *)
(* (the OperationState and the deployment history of the specification): *)
(* an operation starts Running with no revision; the revision it resolves  *)
(* is written once; a user may ask it to terminate, and then it never runs *)
(* again; it ends in a terminal phase, which is not changed but by a new   *)
(* operation; and it adds at most one deployment to the history, of the   *)
(* revision it pinned, and only if it succeeds.                           *)
(***************************************************************************)
EXTENDS Naturals, Sequences

CONSTANTS
  SHAs,    \* concrete commit SHAs
  MaxOps   \* bound: number of operations started

None     == "None"
Active   == {"Running", "Terminating"}
Terminal == {"Failed", "Error", "Succeeded"}

VARIABLES
  phase,     \* status.operationState.phase, None before the first operation
  revision,  \* syncResult.revision, "" until resolved
  history,   \* status.history: the revisions of recorded deployments
  recorded,  \* the revision the current operation added to history, or ""
  ops        \* the number of operations started

vars == <<phase, revision, history, recorded, ops>>

Init ==
  /\ phase = None
  /\ revision = ""
  /\ history = <<>>
  /\ recorded = ""
  /\ ops = 0

(* A new operation replaces one that has ended.                            *)
Start ==
  /\ phase \in Terminal \cup {None}
  /\ ops < MaxOps
  /\ phase' = "Running"
  /\ revision' = ""
  /\ recorded' = ""
  /\ ops' = ops + 1
  /\ UNCHANGED history

(* A user asks the running operation to terminate.                         *)
Cancel ==
  /\ phase = "Running"
  /\ phase' = "Terminating"
  /\ UNCHANGED <<revision, history, recorded, ops>>

(* The operation records its deployment, once, while still active.        *)
Record ==
  /\ phase \in Active
  /\ recorded = ""
  /\ \E r \in SHAs :
       /\ revision \in {"", r}
       /\ history' = Append(history, r)
       /\ recorded' = r
  /\ UNCHANGED <<phase, revision, ops>>

(* The operation advances: it may pin its revision and may end; a recorded *)
(* deployment means it ends Succeeded at the recorded revision.            *)
Advance ==
  /\ phase \in Active
  /\ revision' \in IF revision = "" THEN SHAs \cup {""} ELSE {revision}
  /\ phase' \in {phase} \cup Terminal
  /\ recorded # "" => revision' = recorded /\ phase' = "Succeeded"
  /\ UNCHANGED <<history, recorded, ops>>

End == Advance /\ phase' \in Terminal

Next == Start \/ Cancel \/ Record \/ Advance

(* An active operation is driven until it ends.                            *)
Spec == Init /\ [][Next]_vars /\ WF_vars(End)

TypeOK ==
  /\ phase \in Active \cup Terminal \cup {None}
  /\ revision \in SHAs \cup {""}
  /\ history \in Seq(SHAs)
  /\ recorded \in SHAs \cup {""}
  /\ ops \in 0..MaxOps
=============================================================================
