--------------------------- MODULE RequestLifecycle ---------------------------
(***************************************************************************)
(* What the request workflow promises to the rest of the system, without    *)
(* stages, users or forms: a request is published - gets its finalized      *)
(* line - at most once, and only when every reviewer it was submitted to    *)
(* has signed since it was last sent back; a cancelled request is over.     *)
(* Publication is final but approval is not: the reviewer an approved       *)
(* request is still assigned to can retract it.                             *)
(***************************************************************************)
CONSTANTS Requests, Reviewers, PublishedAmounts, NoLine

VARIABLES
  phase,   \* where a request is
  owed,    \* reviewers whose signature an open request still needs
  line     \* the published amount, or NoLine

vars == <<phase, owed, line>>

Init ==
  /\ phase = [r \in Requests |-> "absent"]
  /\ owed = [r \in Requests |-> {}]
  /\ line = [r \in Requests |-> NoLine]

Move(r, from, to) == phase[r] = from /\ phase' = [phase EXCEPT ![r] = to]
Owe(r, s) == owed' = [owed EXCEPT ![r] = s]

\* Any set of reviewers: the concrete chain chooses.
OweSome(r) == owed'[r] \subseteq Reviewers /\ Owe(r, owed'[r])

Create(r) == Move(r, "absent", "draft") /\ UNCHANGED <<owed, line>>

Submit(r) ==
  /\ Move(r, "draft", "review")
  /\ OweSome(r) /\ owed'[r] # {}
  /\ UNCHANGED line

\* All but the last reviewer.
Sign(r) ==
  /\ phase[r] = "review"
  /\ \E s \in owed[r] : owed[r] # {s} /\ Owe(r, owed[r] \ {s})
  /\ UNCHANGED <<phase, line>>

\* Back to an earlier reviewer: more signatures are owed than before.
SendBack(r) ==
  /\ phase[r] = "review"
  /\ OweSome(r) /\ owed[r] \subseteq owed'[r]
  /\ UNCHANGED <<phase, line>>

Retract(r) ==
  /\ Move(r, "review", "draft") \/ Move(r, "approved", "draft")
  /\ Owe(r, {})
  /\ UNCHANGED line

Publish(r) ==
  /\ Move(r, "review", "approved")
  /\ \E s \in Reviewers : owed[r] = {s}
  /\ Owe(r, {})
  /\ line[r] = NoLine
  /\ \E amount \in PublishedAmounts : line' = [line EXCEPT ![r] = amount]

Cancel(r) ==
  /\ Move(r, "draft", "cancelled") \/ Move(r, "review", "cancelled")
  /\ Owe(r, {})
  /\ UNCHANGED line

Next ==
  \E r \in Requests :
    \/ Create(r) \/ Submit(r) \/ Sign(r) \/ SendBack(r)
    \/ Retract(r) \/ Publish(r) \/ Cancel(r)

Spec == Init /\ [][Next]_vars

=============================================================================
