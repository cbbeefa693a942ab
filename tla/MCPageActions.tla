---------------------------- MODULE MCPageActions ----------------------------
(* PageActions with the commands and documents of TLC's runs. *)
EXTENDS PageActions

CONSTANTS a, b, c

Single(action) == [action |-> action, refs |-> <<c>>, submit |-> NoRef]

Batch(refs, submit) == [action |-> "fill_form", refs |-> refs, submit |-> submit]

MCCommands ==
    {Single(x) : x \in {"click", "press", "press_newline", "attach_file", "click_at", "hover"}}
        \cup {Batch(<<a, b, c>>, NoRef), Batch(<<c>>, a),
              [action |-> "credential_apply", refs |-> <<a, b>>, submit |-> a]}

\* A batch that ends with a submit, whose control may have a risk.
SubmitCommands == {Batch(<<a>>, c)}

\* Everything plain, or a sign-in form next to a control that has a risk.
MCPages == {[r \in {a, b, c} |-> "plain"],
            [r \in {a, b, c} |-> IF r = a THEN "plain" ELSE IF r = b THEN "password" ELSE "send"]}

\* What the comment at the submit of a batch says of one that was approved: the
\* retry re-runs the batch before spending the approval.  An answer that finds
\* the approval no longer fitting comes after every field was written again.
RetryRunsTheBatch ==
    reply.cmd.action = "fill_form" /\ reply.approved /\ reply.print.action = "click"
        /\ reply.code = "approval_context_changed"
        => \A i \in DOMAIN reply.cmd.refs : \E d \in reply.acts : d.at = i /\ d.whole
=============================================================================
