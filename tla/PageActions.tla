----------------------------- MODULE PageActions -----------------------------
(***************************************************************************)
(* What a command does to a page: content/runtime.ts in one frame of one   *)
(* tab, sendContentCommand() of background/runtime.ts, which delivers a    *)
(* command to it, and the page itself, which may relabel an element,       *)
(* navigate within the document or be replaced whenever the script waits,  *)
(* and from its own event handlers whenever the script dispatches one.     *)
(*                                                                         *)
(* An element is known by its ref and shown by its label, all that a risk  *)
(* descriptor says of it.  A fingerprint is the material it is a digest    *)
(* of.  The event loop runs what is between two awaits without the page's  *)
(* timers; a step of this module is one dispatched event or one await.     *)
(***************************************************************************)
EXTENDS Naturals, Sequences, FiniteSets, SequencesExt

CONSTANTS
    Refs,        \* the elements of a document
    NoRef,
    Commands,    \* what agents ask for, see Command
    Pages,       \* how the elements of a new document may be labelled
    Relabels,    \* the labels a page may give to one of its elements
    MaxBindings, \* MAX_RISK_BINDINGS (100 in the code)
    Keys,        \* characters of a text (model only)
    MaxEpoch,    \* bound on documents (model only)
    MaxChanges,  \* bound on relabellings and in-document navigations (model only)
    MaxJobs      \* bound on commands, without what becomes of their approvals (model only)

VARIABLES
    page,      \* the document in the frame and the content script's state in it
    job,       \* the command that runs: mutations of a tab are serialized
    offers,    \* approvals the content script asked for
    confirmed, \* those the user confirmed, not yet used
    granted,   \* those under which the daemon sends the command again, approved
    prepared,  \* credential bindings made, not yet used
    acts,      \* history: what the command that runs did to the page
    reply,     \* the last answer
    changes,   \* the number of relabellings and in-document navigations
    jobs       \* the number of commands

vars == <<page, job, offers, confirmed, granted, prepared, acts, reply, changes, jobs>>

-----------------------------------------------------------------------------
\* Labels.  "send" and "delete" stand for any two controls whose use asks for
\* an approval, "card" for a one-time code or a payment field.
Labels == {"plain", "send", "delete", "password", "card", "gone"}
Places == {"here", "there"}
Epochs == 1 .. MaxEpoch

\* "press_newline" is the press of Enter in a text area or another element whose
\* text may have lines, "press" that of any other key or element.
Forced == {"click_at", "attach_file"}
Texts == {"type", "fill_form"}
Presses == {"press", "press_newline"}
Actions == Forced \cup Texts \cup Presses \cup {"click", "hover", "credential_apply"}

\* What writes several fields, and may end with a submit.
Batches == {"fill_form", "credential_apply"}

Command == [action : Actions, refs : Seq(Refs), submit : Refs \cup {NoRef}]

ASSUME ConstantsAssumption ==
    /\ NoRef \notin Refs
    /\ Commands \subseteq Command /\ \A c \in Commands : c.refs # <<>>
    /\ \A c \in Commands : c.action \notin Batches => Len(c.refs) = 1 /\ c.submit = NoRef
    /\ Pages \subseteq [Refs -> Labels] /\ Relabels \subseteq Labels
    /\ {MaxBindings, Keys, MaxEpoch} \subseteq Nat \ {0}
    /\ {MaxChanges, MaxJobs} \subseteq Nat

\* sensitiveFieldCategory()
Sensitive(label) == label \in {"password", "card"}

\* classifyRisk(): a click on a sensitive field, or any use of a named control.
Classified(action, label) ==
    \/ label \in {"send", "delete"}
    \/ action \in Texts \cup Presses \cup {"click"} /\ Sensitive(label)

\* riskForTarget(), with the risk that two actions always have.
Risky(action, label) == action \in Forced \/ Classified(action, label)

OrdinaryAccepted(action, label) == FALSE

\* rejectOrdinarySensitiveInput()
OrdinaryRefused(action, label) == action \in Texts /\ Sensitive(label)

\* sensitivePressDecision(), for a key that acts.
PressRefused(action, label) == action \in Presses /\ label = "card"

\* credentialElement(): the first of a command's fields is the user name.
CredentialRefused(c, i, label) ==
    /\ c.action = "credential_apply"
    /\ label # IF i = 1 THEN "plain" ELSE "password"

\* elementForRef(): a ref of this document whose element is still there.
Resolves(p, c, ref) ==
    /\ p.label[ref] # "gone"
    /\ ref \in p.known \/ c.action = "click_at"

Acceptable(p, c) ==
    \A i \in DOMAIN c.refs :
        LET r == c.refs[i] IN
        /\ Resolves(p, c, r)
        /\ ~ OrdinaryRefused(c.action, p.label[r])
        /\ ~ PressRefused(c.action, p.label[r])
        /\ ~ CredentialRefused(c, i, p.label[r])

\* synchronousRiskMaterial(), fillBatchMaterial()
RiskMaterial(p, refs) ==
    [epoch |-> p.epoch, place |-> p.place, label |-> [r \in refs |-> p.label[r]]]

\* captureCredentialBinding(): bound to the origin, not to the URL.
CredentialMaterial(p, refs) ==
    [epoch |-> p.epoch, place |-> "here", label |-> [r \in refs |-> p.label[r]]]

Material(p, c, refs) ==
    IF c.action = "credential_apply" THEN CredentialMaterial(p, refs)
    ELSE RiskMaterial(p, refs)

NoPrint == [action |-> "none"]

\* The approvalFingerprint() of guardRisks(): only the targets that have a risk.
Fingerprint(action, token) ==
    LET risky == {r \in DOMAIN token.label : Risky(action, token.label[r])} IN
    [action |-> action, epoch |-> token.epoch, place |-> token.place,
     label |-> [r \in risky |-> token.label[r]]]

HasRisk(action, token) == \E r \in DOMAIN token.label : Risky(action, token.label[r])

\* approvalGuardDecision()
Decision(risk, approved, revalidate, same) ==
    CASE ~ risk /\ revalidate -> "approval_no_longer_required"
      [] ~ risk /\ ~ revalidate /\ approved -> "approval_context_changed"
      [] ~ risk /\ ~ revalidate /\ ~ approved -> "allow"
      [] risk /\ ~ revalidate /\ approved /\ same -> "allow"
      [] OTHER -> "approval_required"

-----------------------------------------------------------------------------
NoCommand == [action |-> "none", refs |-> <<>>, submit |-> NoRef]
NoToken == [epoch |-> 0, place |-> "here", label |-> [r \in {} |-> "gone"]]

\* at: the field of a batch (0: the guard over all of them before the first),
\* ev: the next event.
NoJob == [cmd |-> NoCommand, approved |-> FALSE, revalidate |-> FALSE,
          print |-> NoPrint, bound |-> NoToken, shot |-> 0, attempt |-> 0,
          phase |-> "none", at |-> 0, ev |-> 0, token |-> NoToken, done |-> <<>>]

Phases == {"none", "sent", "guard", "act", "pause", "reply", "lost"}

\* A rendering of ErrorCodes that tells apart what the properties do.
Codes == {"none", "ok", "refused", "approval_required", "approval_context_changed",
          "approval_no_longer_required", "context_changed", "timeout",
          "page_not_controllable"}

NoReply == [code |-> "none", cmd |-> NoCommand, approved |-> FALSE,
            print |-> NoPrint, filled |-> <<>>, acts |-> {}]

\* A document that replaces the frame's: nothing of the script outlives the old.
Fresh(epoch, label) == [epoch |-> epoch, place |-> "here", label |-> label,
                        loaded |-> FALSE, known |-> {}, bindings |-> <<>>]

TypeOK ==
    /\ page.epoch \in Epochs /\ page.place \in Places
    /\ page.label \in [Refs -> Labels] /\ page.loaded \in BOOLEAN
    /\ page.known \subseteq Refs
    /\ Len(page.bindings) <= MaxBindings
    /\ \A b \in ToSet(page.bindings) : b.token.epoch = page.epoch
    /\ job.phase \in Phases /\ job.cmd \in Commands \cup {NoCommand}
    /\ job.attempt \in 0 .. 2 /\ job.at \in 0 .. Len(job.cmd.refs) + 1
    /\ \A o \in offers \cup confirmed \cup granted : o.cmd \in Commands
    /\ reply.code \in Codes
    /\ changes \in 0 .. MaxChanges /\ jobs \in 0 .. MaxJobs

Init ==
    /\ \E l \in Pages : page = Fresh(1, l)
    /\ job = NoJob
    /\ offers = {} /\ confirmed = {} /\ granted = {} /\ prepared = {}
    /\ acts = {}
    /\ reply = NoReply
    /\ changes = 0 /\ jobs = 0

-----------------------------------------------------------------------------
\* The page.  Its timers and the user act while the script waits; its handlers
\* inside the dispatch of an event.
Synchronous == job.phase = "act"

\* What one handler may make of the page.
Changed(p) ==
    {[p EXCEPT !.label = [@ EXCEPT ![r] = l]] : r \in {q \in Refs : p.label[q] # "gone"}, l \in Relabels}
        \cup {[p EXCEPT !.place = x] : x \in Places}

PageChanges ==
    /\ ~ Synchronous /\ changes < MaxChanges
    /\ page' \in Changed(page) \ {page}
    /\ changes' = changes + 1
    /\ UNCHANGED <<job, offers, confirmed, granted, prepared, acts, reply, jobs>>

\* A handler runs, or does not.
Handled ==
    \/ page' = page /\ changes' = changes
    \/ changes < MaxChanges /\ page' \in Changed(page) \ {page} /\ changes' = changes + 1

\* The document is replaced; a script that was answering never answers.
Navigates ==
    /\ ~ Synchronous /\ page.epoch < MaxEpoch
    /\ \E l \in Pages : page' = Fresh(page.epoch + 1, l)
    /\ job' = IF job.phase \in {"guard", "pause", "reply"}
              THEN [job EXCEPT !.phase = "lost"] ELSE job
    /\ UNCHANGED <<offers, confirmed, granted, prepared, acts, reply, changes, jobs>>

\* The browser injects the script into the new document by itself.
ScriptLoads ==
    /\ ~ page.loaded
    /\ page' = [page EXCEPT !.loaded = TRUE]
    /\ UNCHANGED <<job, offers, confirmed, granted, prepared, acts, reply, changes, jobs>>

\* A snapshot, of any agent: createRefRegistry() numbers every element.
Snapshot ==
    /\ ~ Synchronous /\ page.loaded /\ page.known # Refs
    /\ page' = [page EXCEPT !.known = Refs]
    /\ UNCHANGED <<job, offers, confirmed, granted, prepared, acts, reply, changes, jobs>>

-----------------------------------------------------------------------------
\* Commands arrive, one at a time (runSerializedMutation).
Start(j) ==
    /\ job = NoJob
    /\ job' = [j EXCEPT !.attempt = 1, !.phase = "sent"]
    /\ acts' = {}
    /\ UNCHANGED <<page, offers, reply, changes>>

\* The first call of a command, counted; what becomes of its approval is not.
Calls == jobs < MaxJobs /\ jobs' = jobs + 1

\* A click at coordinates carries the document of its screenshot.
Asks ==
    \E c \in Commands :
        /\ c.action # "credential_apply" /\ \A o \in confirmed : o.cmd # c
        /\ Calls /\ Start([NoJob EXCEPT !.cmd = c, !.shot = page.epoch])
        /\ UNCHANGED <<confirmed, granted, prepared>>

\* The call of a command the user confirmed asks first whether the approval is
\* still required.  The script is not told which: print is what the daemon has.
Revalidates ==
    \E o \in confirmed :
        /\ Start([NoJob EXCEPT !.cmd = o.cmd, !.revalidate = TRUE, !.print = o.print,
                               !.shot = o.print.epoch])
        /\ UNCHANGED <<confirmed, granted, prepared, jobs>>

\* The daemon sends what it granted, once.
Approved ==
    \E o \in granted :
        /\ Start([NoJob EXCEPT !.cmd = o.cmd, !.approved = TRUE, !.print = o.print,
                               !.shot = o.print.epoch])
        /\ granted' = granted \ {o}
        /\ UNCHANGED <<confirmed, prepared, jobs>>

\* credentialPrepare(), whose binding is kept until the values come.
Prepares ==
    \E c \in Commands :
        /\ c.action = "credential_apply"
        /\ page.loaded /\ ~ Synchronous /\ Acceptable(page, c)
        /\ prepared' = {[cmd |-> c, token |-> Material(page, c, ToSet(c.refs))]}
        /\ prepared' # prepared
        /\ UNCHANGED <<page, job, offers, confirmed, granted, acts, reply, changes, jobs>>

\* The values come, and are applied under the binding they were asked for.
Applies ==
    \E b \in prepared :
        /\ Calls /\ Start([NoJob EXCEPT !.cmd = b.cmd, !.bound = b.token])
        /\ prepared' = {}
        /\ UNCHANGED <<confirmed, granted>>

\* approvalTargetProbe(): the user's confirmation is taken only while what was
\* offered is still what the page shows.
Live(o) ==
    /\ page.loaded
    /\ \E b \in ToSet(page.bindings) :
          /\ b.print = o.print
          /\ Material(page, o.cmd, DOMAIN b.token.label) = b.token

\* storedRiskBindings, a Map in the order of insertion.
Positions(bindings, print) == {i \in DOMAIN bindings : bindings[i].print = print}

Deleted(bindings, print) ==
    IF Positions(bindings, print) = {} THEN bindings
    ELSE RemoveAt(bindings, CHOOSE i \in Positions(bindings, print) : TRUE)

\* A binding expires.
Expires ==
    /\ ~ Synchronous
    /\ \E b \in ToSet(page.bindings) :
          page' = [page EXCEPT !.bindings = Deleted(@, b.print)]
    /\ UNCHANGED <<job, offers, confirmed, granted, prepared, acts, reply, changes, jobs>>

Confirms ==
    \E o \in offers :
        /\ ~ Synchronous
        /\ offers' = offers \ {o}
        /\ confirmed' = IF Live(o) THEN confirmed \cup {o} ELSE confirmed
        /\ page' = IF Live(o) THEN page
                   ELSE [page EXCEPT !.bindings = Deleted(@, o.print)]
        /\ UNCHANGED <<job, granted, prepared, acts, reply, changes, jobs>>

-----------------------------------------------------------------------------
\* sendContentCommand().  Every answer ends the command.
Reports(code, filled) ==
    /\ reply' = [code |-> code, cmd |-> job.cmd, approved |-> job.approved,
                 print |-> job.print, filled |-> filled, acts |-> acts']
    /\ job' = NoJob

\* The confirmation that a revalidation is about.  No answer leaves it: it is
\* consumed for the command, or cancelled (#cancelRevalidatedApproval).
Rechecked == {o \in confirmed : job.revalidate /\ o.cmd = job.cmd /\ o.print = job.print}

\* Any answer but approval_required.
Answer(code, filled) ==
    /\ Reports(code, filled)
    /\ confirmed' = confirmed \ Rechecked
    /\ UNCHANGED <<offers, granted, prepared, jobs>>

\* The script asks for an approval: the user confirmed exactly this one, or is
\* asked, or the owner's policy grants it, but never for a revalidation.
ExactGrant(o) ==
    ~ job.approved /\ o \in confirmed /\ (job.revalidate => o \in Rechecked)

ByPolicy(o) == ~ job.revalidate /\ (job.approved \/ o \notin offers)

ApprovalAsked(o) ==
    /\ \/ /\ ExactGrant(o)
          /\ granted' = granted \cup {o} /\ confirmed' = confirmed \ {o}
          /\ UNCHANGED offers
       \/ /\ ~ ExactGrant(o)
          /\ confirmed' = confirmed \ Rechecked
          /\ \/ offers' = offers \cup {o} /\ UNCHANGED granted
             \/ ByPolicy(o) /\ granted' = granted \cup {o} /\ UNCHANGED offers
    /\ UNCHANGED <<prepared, jobs>>

Keep == UNCHANGED <<offers, confirmed, granted, prepared, jobs>>

\* injectContentScript() and one more try; or the page cannot be controlled.
Resends ==
    /\ page' = [page EXCEPT !.loaded = TRUE]
    /\ job' = [job EXCEPT !.phase = "sent", !.attempt = 2, !.at = 0, !.ev = 0,
                          !.token = NoToken, !.done = <<>>]
    /\ UNCHANGED <<acts, reply, changes>> /\ Keep

UndeliverableUnlessTaken == job.phase = "sent" /\ ~ page.loaded

Undeliverable ==
    \/ job.phase = "lost"
    \/ job.phase = "sent" /\ ~ page.loaded

Retries == Undeliverable /\ job.attempt = 1 /\ Resends

\* The second try fails, or the script cannot be injected.
Uncontrollable ==
    /\ Undeliverable
    /\ UNCHANGED <<page, acts, changes>>
    /\ Answer("page_not_controllable", <<>>)

-----------------------------------------------------------------------------
\* execute().
Fields == DOMAIN job.cmd.refs
IsBatch == job.cmd.action = "fill_form"
IsCredential == job.cmd.action = "credential_apply"
Submitting == job.at > Len(job.cmd.refs)

Target == IF Submitting THEN job.cmd.submit ELSE job.cmd.refs[job.at]
Targets == IF Submitting /\ ~ IsCredential THEN {job.cmd.submit} ELSE ToSet(job.cmd.refs)

\* The click that ends a batch is guarded like any other.
Acting == IF Submitting /\ IsBatch THEN "click" ELSE job.cmd.action

Unchanged == Material(page, job.cmd, Targets) = job.token

\* The script takes the command and the state of its targets.
Refuse ==
    /\ UNCHANGED <<page, acts, changes>>
    /\ Answer("refused", <<>>)

Current ==
    /\ Acceptable(page, job.cmd)
    /\ job.cmd.action = "click_at" => job.shot = page.epoch
    /\ IsCredential => Material(page, job.cmd, ToSet(job.cmd.refs)) = job.bound

Takes ==
    /\ job.phase = "sent" /\ page.loaded
    /\ IF Current
       THEN /\ job' = [job EXCEPT
                  !.phase = IF job.cmd.action = "hover" THEN "act" ELSE "guard",
                  !.at = IF IsBatch THEN 0 ELSE 1, !.ev = 1,
                  !.token = Material(page, job.cmd, ToSet(job.cmd.refs))]
            /\ UNCHANGED <<page, acts, reply, changes>> /\ Keep
       ELSE Refuse

PartialWithCurrent == IF IsBatch /\ job.at \in Fields THEN Append(job.done, job.cmd.refs[job.at]) ELSE <<>>

\* partialFillFailure(): the fields a batch completed go with the error, except
\* from the guard before the first field and from the submit.
Partial == IF IsBatch /\ job.at \in Fields THEN job.done ELSE <<>>

\* rememberRiskBinding(): a binding that is there keeps its place, and the
\* oldest makes room.
Remember(p, print) ==
    LET new == [print |-> print, token |-> job.token]
        all == IF Positions(p.bindings, print) = {} THEN Append(p.bindings, new)
               ELSE [i \in DOMAIN p.bindings |->
                        IF p.bindings[i].print = print THEN new ELSE p.bindings[i]]
    IN  [p EXCEPT !.bindings = IF Len(all) > MaxBindings THEN Tail(all) ELSE all]

\* guardRisks(), after the digest, with the check its callers make at once.
\* credentialApply() has no risk to approve: it compares bindings.
Verdict ==
    IF IsCredential THEN "allow"
    ELSE Decision(HasRisk(Acting, job.token), job.approved, job.revalidate,
                  Fingerprint(Acting, job.token) = job.print)

Guarded ==
    /\ job.phase = "guard"
    /\ UNCHANGED <<acts, changes>>
    /\ \/ /\ Verdict = "allow" /\ Unchanged
          /\ job' = IF job.at = 0 THEN [job EXCEPT !.at = 1]
                    ELSE [job EXCEPT !.phase = "act"]
          /\ UNCHANGED <<page, reply>> /\ Keep
       \/ /\ Verdict \in {"allow", "approval_required"} /\ ~ Unchanged
          /\ UNCHANGED page
          /\ Answer("context_changed", Partial)
       \/ /\ Verdict = "approval_required" /\ Unchanged
          /\ LET print == Fingerprint(Acting, job.token) IN
             /\ page' = Remember(page, print)
             /\ ApprovalAsked([cmd |-> job.cmd, print |-> print])
          /\ Reports("approval_required", Partial)
       \/ /\ Verdict \in {"approval_context_changed", "approval_no_longer_required"}
          /\ UNCHANGED page
          /\ Answer(Verdict, Partial)

-----------------------------------------------------------------------------
\* The events of an action, in order; the first do nothing but run handlers.
\* clickElement(): each event has its safetyCheck().
ClickEvents == <<"over", "down", "click">>

\* clickAt()
ClickAtEvents == <<"over", "down", "click">>

\* pressKey()
PressEvents == <<"keydown", "act">>

\* Enter in a text area goes on as typeIntoElement() without a safetyCheck(): the
\* handlers of its focus and keys run between the last check and the newline.
NewlineEvents == <<"keydown", "enter", "newline">>

\* attachFile(): the handlers of focus() run between the last check and the
\* assignment of the file.
AttachEvents == <<"focus", "file">>

\* hoverElement()
HoverEvents == <<"over">>

\* typeIntoElement(): each character is announced, written and waited for.
TypeEvents == [n \in 1 .. 2 * Keys |-> IF n % 2 = 1 THEN "keydown" ELSE "write"]

\* credentialApply() ends with requestSubmit().
CredentialEvents == IF Submitting THEN <<"submit">> ELSE TypeEvents

Events ==
    CASE Acting = "click" -> ClickEvents
      [] Acting = "click_at" -> ClickAtEvents
      [] Acting = "press" -> PressEvents
      [] Acting = "press_newline" -> NewlineEvents
      [] Acting = "attach_file" -> AttachEvents
      [] Acting = "hover" -> HoverEvents
      [] Acting \in Texts -> TypeEvents
      [] Acting = "credential_apply" -> CredentialEvents

\* What changes the page without a check of its own, each after an event that
\* has one and whose handlers may change the page again.
Unchecked == {"file", "newline"}
LastChecked == {"focus", "enter"}

Decisive == {"click", "act", "write", "submit"} \cup LastChecked \cup Unchecked

\* What an event does, with what the page shows of its target as it happens.
Deed(event) ==
    [event |-> event, at |-> job.at, ref |-> Target, epoch |-> page.epoch,
     label |-> IF Target = NoRef THEN "plain" ELSE page.label[Target],
     print |-> Fingerprint(Acting, Material(page, job.cmd, Targets)),
     whole |-> job.ev = Len(Events)]

CheckedOnce == job.cmd.action = "hover" \/ job.ev > 1 \/ Unchanged

\* safetyCheck(), next to every event but the unchecked ones.
Checked == job.cmd.action = "hover" \/ Events[job.ev] \in Unchecked \/ Unchanged

Dispatches ==
    /\ job.phase = "act" /\ Checked
    /\ Handled
    /\ acts' = IF Events[job.ev] \in Decisive THEN acts \cup {Deed(Events[job.ev])} ELSE acts
    /\ job' = [job EXCEPT !.ev = @ + 1,
                          !.phase = IF Events[job.ev] = "write" THEN "pause"
                                    ELSE IF job.ev = Len(Events) THEN "reply" ELSE "act"]
    /\ UNCHANGED reply /\ Keep

\* The check fails; a batch may also run out of its 20 seconds.
Stops ==
    \/ /\ job.phase = "act" /\ ~ Checked
       /\ UNCHANGED <<page, acts, changes>>
       /\ Answer("context_changed", Partial)
    \/ /\ job.phase = "pause" /\ ~ Unchanged
       /\ UNCHANGED <<page, acts, changes>>
       /\ Answer("context_changed", Partial)
    \/ /\ job.phase = "pause" /\ IsBatch
       /\ UNCHANGED <<page, acts, changes>>
       /\ Answer("timeout", Partial)

\* The delay after a character ends: the next one, or the field is complete.
Resumes ==
    /\ job.phase = "pause" /\ Unchanged /\ job.ev <= Len(Events)
    /\ job' = [job EXCEPT !.phase = "act"]
    /\ UNCHANGED <<page, acts, reply, changes>> /\ Keep

FieldCount == Len(job.cmd.refs)

Completed == [job EXCEPT !.done = Append(@, job.cmd.refs[job.at]), !.at = @ + 1, !.ev = 1]

\* The next field of a batch or of a credential: every target again, and then
\* their guard again.
NextField ==
    /\ job.phase = "pause" /\ Unchanged /\ job.ev > Len(Events)
    /\ job.at < FieldCount
    /\ job' = [Completed EXCEPT !.phase = "guard"]
    /\ UNCHANGED <<page, acts, reply, changes>> /\ Keep

\* After the last field: the submit of a batch, guarded as a click, or that of
\* a credential, under the binding again.
LastField ==
    /\ job.phase = "pause" /\ Unchanged /\ job.ev > Len(Events)
    /\ job.at = FieldCount
    /\ IF job.cmd.submit = NoRef
       THEN /\ job' = [job EXCEPT !.done = Append(@, job.cmd.refs[job.at]), !.phase = "reply"]
            /\ UNCHANGED <<page, acts, reply, changes>> /\ Keep
       ELSE IF IsCredential
       THEN /\ job' = [Completed EXCEPT !.phase = "guard"]
            /\ UNCHANGED <<page, acts, reply, changes>> /\ Keep
       ELSE IF Resolves(page, job.cmd, job.cmd.submit)
       THEN /\ job' = [Completed EXCEPT !.phase = "guard",
                                        !.token = RiskMaterial(page, {job.cmd.submit})]
            /\ UNCHANGED <<page, acts, reply, changes>> /\ Keep
       ELSE Refuse

Replies ==
    /\ job.phase = "reply"
    /\ UNCHANGED <<page, acts, changes>>
    /\ Answer("ok", job.done)

-----------------------------------------------------------------------------
Script == Retries \/ Uncontrollable \/ Takes \/ Guarded \/ Dispatches \/ Stops
          \/ Resumes \/ NextField \/ LastField \/ Replies

Next == \/ PageChanges \/ Navigates \/ ScriptLoads \/ Snapshot
        \/ Asks \/ Approved \/ Revalidates \/ Prepares \/ Applies \/ Confirms \/ Expires
        \/ Script

Spec == Init /\ [][Next]_vars

\* Timers fire, digests are computed, and the browser delivers a message,
\* injects the script or reports that there is no receiver.
FairSpec == Spec /\ WF_vars(Script)

-----------------------------------------------------------------------------
\* Whatever the page does meanwhile, an element that has a risk at the moment
\* of a decisive event is acted on only by a command the user, or the owner's
\* policy, confirmed for exactly what the page shows at that moment (guardRisks,
\* safetyCheck).  The submit of a credential is the user's own.
AsConfirmed(d) ==
    LET action == IF d.event = "click" /\ IsBatch THEN "click" ELSE job.cmd.action IN
    Risky(action, d.label) => job.approved /\ job.print = d.print

\* A file is assigned, and the newline of Enter written, after the handlers of
\* one more event: what was confirmed is what the page showed of the same element
\* of the same document when that event was checked, and no more is promised.
RiskNeedsApproval ==
    job # NoJob /\ ~ IsCredential =>
        \A d \in acts :
            IF d.event \in Unchecked
            THEN \E e \in acts : /\ e.event \in LastChecked /\ AsConfirmed(e)
                                 /\ e.ref = d.ref /\ e.epoch = d.epoch
            ELSE AsConfirmed(d)

\* No text is typed into a password or one-time-code field by an ordinary command,
\* nor a key other than of navigation sent to a one-time-code field, and the
\* values of a credential are written only into the document, and the fields,
\* that were prepared for them: the user name into a plain one, the password
\* into a password field; the form is submitted only after both.
SecretsInPlace ==
    \A d \in acts :
        job # NoJob =>
            /\ d.event = "write" /\ ~ IsCredential => ~ Sensitive(d.label)
            /\ d.event \in {"act", "enter"} => d.label # "card"
            /\ d.event = "write" /\ IsCredential =>
                  /\ d.epoch = job.bound.epoch
                  /\ d.label = IF d.at = 1 THEN "plain" ELSE "password"
            /\ d.event = "submit" =>
                  /\ d.epoch = job.bound.epoch
                  /\ \A i \in Fields : \E w \in acts : w.at = i /\ w.whole /\ w.epoch = d.epoch

\* Asking whether an approval is still required changes nothing.
RevalidationIsInert == job.revalidate => acts = {}

\* What an answer says was filled, of a batch that was interrupted or of one
\* that ended, is what was done (partialFillFailure): the fields it names come
\* in the order of the command, each was written to its end in the document
\* that answers, the last one the command touched, and no field after the next
\* one was written there.
FilledAsSaid(r) ==
    LET n == Len(r.filled)
        wrote(i, e) == {d \in r.acts : d.event = "write" /\ d.at = i /\ d.epoch = e} IN
    r.filled # <<>> =>
        /\ IsPrefix(r.filled, r.cmd.refs)
        /\ \E e \in {d.epoch : d \in r.acts} :
              /\ \A d \in r.acts : d.epoch <= e
              /\ \A i \in 1 .. n : \E d \in wrote(i, e) : d.whole
              /\ \A i \in n + 2 .. Len(r.cmd.refs) : wrote(i, e) = {}

PartialReport == FilledAsSaid(reply)

\* A command that was approved, or that applies a credential, changes one
\* document only, even when its answer is lost and it is sent again.
ApprovedOnce ==
    reply.approved \/ reply.cmd.action = "credential_apply"
        => Cardinality({d.epoch : d \in reply.acts}) <= 1

\* What a confirmation is good for: risky elements, one document, and no
\* revalidation.
ActsAsConfirmed == TypeOK /\ RiskNeedsApproval /\ RevalidationIsInert /\ ApprovedOnce

\* Every command is answered, whatever becomes of its page.
CommandsEnd == (job # NoJob) ~> (job = NoJob)
=============================================================================
