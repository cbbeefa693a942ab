---------------------------- MODULE ApprovalGate ----------------------------
(***************************************************************************)
(* What the daemon promises of the identifiers under which an action can   *)
(* be approved: each is asked for one subject (a browser, an operation and *)
(* a live-target fingerprint), confirmed by a human or not, and then used  *)
(* at most once and only for that subject.  A grant of the owner's policy  *)
(* is minted and used in one step.  An identifier that was used or         *)
(* withdrawn never comes back.  Several may be withdrawn at once, when     *)
(* they expire or their browser leaves, but one step uses at most one.     *)
(***************************************************************************)
CONSTANTS Identifiers, Subjects, NoSubject

VARIABLES stage, subject

gate == <<stage, subject>>

Stages == {"unused", "asked", "confirmed", "spent", "minted", "void"}

Init ==
    /\ stage = [i \in Identifiers |-> "unused"]
    /\ subject = [i \in Identifiers |-> NoSubject]

Becomes(i, s) == stage'[i] = s

Keeps(i) == subject'[i] = subject[i]

Rests(i) == Becomes(i, stage[i]) /\ Keeps(i)

Ask(i) == stage[i] = "unused" /\ Becomes(i, "asked") /\ subject'[i] \in Subjects

Confirm(i) == stage[i] = "asked" /\ Becomes(i, "confirmed") /\ Keeps(i)

\* Rejected, expired, cancelled, lost, or given to something else.
Withdraw(i) ==
    /\ stage[i] \in {"unused", "asked", "confirmed"}
    /\ Becomes(i, "void")
    /\ subject'[i] = NoSubject

Spend(i) == stage[i] = "confirmed" /\ Becomes(i, "spent") /\ Keeps(i)

Mint(i) == stage[i] = "unused" /\ Becomes(i, "minted") /\ subject'[i] \in Subjects

Use(i) == Spend(i) \/ Mint(i)

Next ==
    /\ DOMAIN stage' = Identifiers /\ DOMAIN subject' = Identifiers
    /\ \A i \in Identifiers :
          Rests(i) \/ Ask(i) \/ Confirm(i) \/ Withdraw(i) \/ Use(i)
    /\ \A i, j \in Identifiers : Use(i) /\ Use(j) => i = j

Spec == Init /\ [][Next]_gate
=============================================================================
