-------------------------- MODULE PageActionsProofs --------------------------
(***************************************************************************)
(* PageActions keeps its promises for every page, command and limit.       *)
(*                                                                         *)
(* Inv is inductive.  What an event may do is settled when it is checked:  *)
(* the token is what the guard judged, so Cleared and Accepted, which      *)
(* speak of the token, hold of the element the event acts on as soon as    *)
(* Checked finds the token unchanged.  Of what has no check of its own     *)
(* Preceded says that an event which has one came just before.  What an    *)
(* answer may report rests on Progress, and on Documents, which separates  *)
(* what this run of the command did from what an earlier, lost run did in  *)
(* another document.                                                       *)
(***************************************************************************)
EXTENDS PageActions, FiniteSetTheorems, SequenceTheorems, TLAPS

-----------------------------------------------------------------------------
\* Types.
Labellings == UNION {[S -> Labels] : S \in SUBSET Refs}
Tokens == [epoch : Nat, place : Places, label : Labellings]
Prints == [action : Actions, epoch : Nat, place : Places, label : Labellings]
Binding == [print : Prints, token : Tokens]
Offer == [cmd : Commands, print : Prints]
Deeds == [event : Decisive, at : Nat, ref : Refs, epoch : Nat, label : Labels,
          print : Prints, whole : BOOLEAN]

Document == [epoch : Epochs, place : Places, label : [Refs -> Labels],
             loaded : BOOLEAN, known : SUBSET Refs, bindings : Seq(Binding)]

Job == [cmd : Commands \cup {NoCommand}, approved : BOOLEAN, revalidate : BOOLEAN,
        print : Prints \cup {NoPrint}, bound : Tokens, shot : Nat, attempt : 0 .. 2,
        phase : Phases, at : Nat, ev : Nat, token : Tokens, done : Seq(Refs)]

Reply == [code : Codes, cmd : Commands \cup {NoCommand}, approved : BOOLEAN,
          print : Prints \cup {NoPrint}, filled : Seq(Refs), acts : SUBSET Deeds]

Types ==
    /\ page \in Document /\ job \in Job /\ reply \in Reply
    /\ acts \subseteq Deeds
    /\ offers \subseteq Offer /\ confirmed \subseteq Offer /\ granted \subseteq Offer
    /\ prepared \subseteq [cmd : Commands, token : Tokens]
    /\ changes \in 0 .. MaxChanges /\ jobs \in 0 .. MaxJobs

\* The bindings of a document are of that document, and within their limit.
Bindings ==
    /\ Len(page.bindings) <= MaxBindings
    /\ \A i \in 1 .. Len(page.bindings) : page.bindings[i].token.epoch = page.epoch

-----------------------------------------------------------------------------
\* An approval is never asked for a credential, nor for a hover.
Askable(command) == command.action \notin {"credential_apply", "hover"}

Offers == \A o \in offers \cup confirmed \cup granted : Askable(o.cmd)

Filling == {"guard", "act", "pause"}
Answering == Filling \cup {"reply"}

\* What the command that runs is, whatever it has done so far.
Asked ==
    /\ job.phase = "none" => job = NoJob
    /\ job.phase # "none" => job.cmd \in Commands
    /\ job.approved \/ job.revalidate => Askable(job.cmd) /\ job.print \in Prints

\* Where it is in its command: the field, the event, what it took of the page.
Position ==
    /\ job.phase \in Answering => job.token.epoch = page.epoch
    /\ job.phase # "none" => job.at <= Len(job.cmd.refs) + 1
    /\ job.phase \in Filling =>
          /\ job.at = 0 => IsBatch /\ job.phase = "guard"
          /\ Submitting => job.cmd.submit \in Refs
          /\ DOMAIN job.token.label = Targets
    /\ job.phase = "guard" => job.ev = 1 /\ job.cmd.action # "hover"
    /\ job.phase = "act" => job.ev <= Len(Events)
    /\ job.phase \in {"act", "pause"} => job.ev >= 1
    /\ job.phase = "pause" => ~ Submitting /\ job.cmd.action \in Texts \cup {"credential_apply"}

\* What the script took of the page is what it accepted.
Accepted ==
    /\ job.phase \in Filling /\ (Submitting => IsCredential) =>
          \A i \in DOMAIN job.cmd.refs :
             /\ ~ OrdinaryRefused(job.cmd.action, job.token.label[job.cmd.refs[i]])
             /\ ~ PressRefused(job.cmd.action, job.token.label[job.cmd.refs[i]])
             /\ ~ CredentialRefused(job.cmd, i, job.token.label[job.cmd.refs[i]])
    /\ job.phase \in Filling /\ IsCredential => job.token = job.bound

\* Nothing is done before the guard of the targets has passed.
Cleared == job.phase \in {"act", "pause"} /\ job.cmd.action # "hover" => Verdict = "allow"

\* What is done without a check follows an event that had one.
Preceded ==
    job.phase = "act" /\ Events[job.ev] \in Unchecked =>
        \E e \in acts : /\ e.event \in LastChecked /\ e.ref = Target /\ e.epoch = page.epoch
                        /\ ~ IsCredential => AsConfirmed(e)

\* The documents the command acted in: never a later one than the frame's, and
\* none of them the frame's when the command is sent again.
Documents ==
    /\ \A d \in acts : d.epoch <= page.epoch
    /\ job.phase \in {"sent", "lost"} => \A d \in acts : d.epoch < page.epoch

Written(i) == \E d \in acts : d.event = "write" /\ d.at = i /\ d.whole /\ d.epoch = page.epoch

\* What is done of a batch, and what of it is under way.
Progress ==
    /\ job.phase = "sent" => job.done = <<>>
    /\ job.phase \in Answering =>
          /\ Len(job.done) <= Len(job.cmd.refs)
          /\ \A i \in 1 .. Len(job.done) : job.done[i] = job.cmd.refs[i] /\ Written(i)
          /\ job.at <= Len(job.done) + 1
          /\ \A d \in acts : d.event = "write" /\ d.epoch = page.epoch => d.at <= job.at
    /\ job.phase \in Filling => Len(job.done) = IF job.at = 0 THEN 0 ELSE job.at - 1
    /\ job.phase = "pause" /\ job.ev > Len(Events) => Written(job.at)

\* An approved command and a credential act in one document.
OneDocument ==
    job.phase # "none" =>
        \A d \in acts : /\ job.approved => d.epoch = job.print.epoch
                        /\ IsCredential => d.epoch = job.bound.epoch

\* The same of the command that was answered last.
AnsweredOnce ==
    reply.approved \/ reply.cmd.action = "credential_apply"
        => \A d, e \in reply.acts : d.epoch = e.epoch

\* An approval that lets a batch begin is of the batch.
BatchPrint ==
    job.phase \in Filling /\ IsBatch /\ job.at >= 1 /\ job.approved
        => job.print.action = "fill_form"

\* No batch ever clicks a submit that has a risk: the approval that the click
\* asked for does not fit the guard that every batch begins with.
NoRiskySubmit ==
    \A d \in acts : job # NoJob /\ IsBatch /\ d.event = "click" => ~ Risky("click", d.label)

Inv == /\ Types /\ Bindings /\ Offers /\ Asked /\ Position /\ Accepted /\ Cleared
       /\ Preceded /\ Documents /\ Progress /\ OneDocument /\ AnsweredOnce
       /\ BatchPrint /\ NoRiskySubmit
       /\ RiskNeedsApproval /\ RevalidationIsInert /\ SecretsInPlace /\ PartialReport

-----------------------------------------------------------------------------
\* Lemmas about the operators.

\* A labelling of some elements of a document is a labelling.
LEMMA LabellingType ==
    ASSUME NEW S \in SUBSET Refs, NEW f \in [S -> Labels]
    PROVE  f \in Labellings
BY DEF Labellings

LEMMA ActionType ==
    /\ \A c \in Commands : c.action \in Actions /\ c.refs \in Seq(Refs) /\ Len(c.refs) \in Nat
                           /\ Len(c.refs) >= 1 /\ c.submit \in Refs \cup {NoRef}
    /\ \A c \in Commands : \A i \in 1 .. Len(c.refs) : c.refs[i] \in Refs
<1> SUFFICES ASSUME NEW c \in Commands
             PROVE  /\ c.action \in Actions /\ c.refs \in Seq(Refs) /\ Len(c.refs) \in Nat
                    /\ Len(c.refs) >= 1 /\ c.submit \in Refs \cup {NoRef}
                    /\ \A i \in 1 .. Len(c.refs) : c.refs[i] \in Refs
  OBVIOUS
<1>1. c \in Command /\ c.refs # <<>>
  BY ConstantsAssumption
<1>2. c.action \in Actions /\ c.refs \in Seq(Refs) /\ c.submit \in Refs \cup {NoRef}
  BY <1>1 DEF Command
<1> QED BY <1>1, <1>2

\* What several elements are taken for: their labels, in this document.
LEMMA MaterialType ==
    ASSUME NEW p \in Document, NEW c, NEW S \in SUBSET Refs
    PROVE  /\ Material(p, c, S) \in Tokens
           /\ Material(p, c, S).epoch = p.epoch
           /\ Material(p, c, S).label = [r \in S |-> p.label[r]]
<1>1. p.epoch \in Nat /\ p.place \in Places /\ p.label \in [Refs -> Labels]
  BY DEF Document, Epochs
<1> DEFINE f == [r \in S |-> p.label[r]]
<1>2. f \in [S -> Labels]
  BY <1>1
<1>3. f \in Labellings
  BY <1>2, LabellingType
<1> HIDE DEF f
<1>4. RiskMaterial(p, S) \in Tokens /\ RiskMaterial(p, S).epoch = p.epoch
      /\ RiskMaterial(p, S).label = f
  BY <1>1, <1>3 DEF RiskMaterial, Tokens, f
<1>5. CredentialMaterial(p, S) \in Tokens /\ CredentialMaterial(p, S).epoch = p.epoch
      /\ CredentialMaterial(p, S).label = f
  BY <1>1, <1>3 DEF CredentialMaterial, Tokens, Places, f
<1> QED BY <1>4, <1>5 DEF Material, f

LEMMA FingerprintType ==
    ASSUME NEW action \in Actions, NEW token \in Tokens
    PROVE  /\ Fingerprint(action, token) \in Prints
           /\ Fingerprint(action, token).epoch = token.epoch
           /\ Fingerprint(action, token).action = action
<1>1. token.epoch \in Nat /\ token.place \in Places /\ token.label \in Labellings
  BY DEF Tokens
<1>2. PICK S \in SUBSET Refs : token.label \in [S -> Labels]
  BY <1>1 DEF Labellings
<1> DEFINE risky == {r \in DOMAIN token.label : Risky(action, token.label[r])}
           f == [r \in risky |-> token.label[r]]
<1>3. risky \in SUBSET Refs /\ f \in [risky -> Labels]
  BY <1>2
<1>4. f \in Labellings
  BY <1>3, LabellingType
<1>5. Fingerprint(action, token) = [action |-> action, epoch |-> token.epoch,
                                    place |-> token.place, label |-> f]
  BY DEF Fingerprint
<1> HIDE DEF f
<1> QED BY <1>1, <1>4, <1>5 DEF Prints

\* The constants of the idle state have their types.
LEMMA IdleType ==
    /\ NoToken \in Tokens
    /\ NoJob \in Job /\ NoJob.phase = "none" /\ ~ NoJob.approved /\ ~ NoJob.revalidate
    /\ NoJob.cmd = NoCommand /\ NoCommand.action = "none" /\ NoCommand.refs = <<>>
    /\ NoJob.at = 0 /\ NoJob.ev = 0 /\ NoJob.bound = NoToken /\ NoJob.print = NoPrint
    /\ NoJob.token = NoToken /\ NoJob.done = <<>>
    /\ NoReply \in Reply
<1> DEFINE f == [r \in {} |-> "gone"]
<1>1. f \in [{} -> Labels]
  OBVIOUS
<1>2. f \in Labellings
  BY <1>1, LabellingType
<1>3. NoToken = [epoch |-> 0, place |-> "here", label |-> f]
  BY DEF NoToken
<1> HIDE DEF f
<1>4. NoToken \in Tokens
  BY <1>2, <1>3 DEF Tokens, Places
<1>5. NoJob \in Job
  BY <1>4 DEF NoJob, Job, Phases
<1>6. NoReply \in Reply
  BY DEF NoReply, Reply, Codes
<1> QED BY <1>4, <1>5, <1>6 DEF NoJob, NoCommand

\* The fields of the records, for the steps that read them.
LEMMA JobFields ==
    ASSUME NEW j \in Job
    PROVE  /\ j.cmd \in Commands \cup {NoCommand} /\ j.approved \in BOOLEAN
           /\ j.revalidate \in BOOLEAN /\ j.print \in Prints \cup {NoPrint}
           /\ j.bound \in Tokens /\ j.shot \in Nat /\ j.attempt \in 0 .. 2
           /\ j.phase \in Phases /\ j.at \in Nat /\ j.ev \in Nat /\ j.token \in Tokens
           /\ j.done \in Seq(Refs)
BY DEF Job

LEMMA PageFields ==
    ASSUME NEW p \in Document
    PROVE  /\ p.epoch \in Epochs /\ p.epoch \in Nat /\ p.place \in Places
           /\ p.label \in [Refs -> Labels] /\ p.loaded \in BOOLEAN
           /\ p.known \in SUBSET Refs /\ p.bindings \in Seq(Binding)
           /\ Len(p.bindings) \in Nat
BY DEF Document, Epochs

-----------------------------------------------------------------------------
\* What a command that fills acts on.

\* A command at one of its fields, or at its submit.
Placed == /\ job \in Job /\ job.cmd \in Commands
          /\ job.at \in 1 .. Len(job.cmd.refs) + 1
          /\ Submitting => job.cmd.submit \in Refs

LEMMA TargetType ==
    ASSUME Placed
    PROVE  /\ Target \in Refs /\ Targets \in SUBSET Refs
           /\ (Submitting /\ IsCredential) \/ Target \in Targets
           /\ Acting \in Actions
           /\ ~ Submitting => job.at \in Fields
<1>1. job.at \in Nat /\ Len(job.cmd.refs) \in Nat /\ job.cmd.action \in Actions
      /\ job.cmd.refs \in Seq(Refs) /\ job.cmd.submit \in Refs \cup {NoRef}
  BY ActionType DEF Placed
<1>2. Acting \in Actions
  BY <1>1 DEF Acting, Actions
<1>3. ToSet(job.cmd.refs) \in SUBSET Refs
  BY <1>1 DEF ToSet
<1>4. Targets \in SUBSET Refs
  BY <1>3 DEF Targets, Placed
<1>5. ~ Submitting => job.at \in DOMAIN job.cmd.refs
  BY <1>1 DEF Submitting, Placed
<1>6. ~ Submitting => Target \in Refs /\ Target \in ToSet(job.cmd.refs)
  BY <1>1, <1>5 DEF Target, ToSet
<1>7. CASE ~ Submitting
  BY <1>2, <1>4, <1>5, <1>6, <1>7 DEF Targets, Fields
<1>8. CASE Submitting /\ ~ IsCredential
  BY <1>2, <1>4, <1>8 DEF Targets, Target, Placed
<1>9. CASE Submitting /\ IsCredential
  BY <1>2, <1>4, <1>9 DEF Target, Placed
<1> QED BY <1>7, <1>8, <1>9

\* The events of what is done: characters, or a click, a key, a file, a submit.
\* What has no check of its own is never the first, and follows one that has.
EventAt(n) ==
    /\ Events[n] = "write" => ~ Submitting /\ job.cmd.action \in Texts \cup {"credential_apply"}
    /\ Events[n] = "click" => Acting \in {"click", "click_at"}
    /\ Events[n] \in Decisive /\ Acting = "click" => Events[n] = "click"
    /\ Events[n] = "submit" => Submitting /\ IsCredential
    /\ Events[n] \in Decisive => job.cmd.action # "hover"
    /\ Events[n] \in {"act", "enter"} => ~ Submitting /\ job.cmd.action \in Presses
    /\ Events[n] \in Unchecked => /\ n >= 2 /\ Events[n - 1] \in LastChecked
                                  /\ job.cmd.action \in {"attach_file", "press_newline"}

LEMMA EventsType ==
    ASSUME Placed
    PROVE  /\ Len(Events) \in Nat /\ Len(Events) >= 1
           /\ \A n \in 1 .. Len(Events) : EventAt(n)
<1> USE DEF EventAt, Unchecked, LastChecked, Presses
<1>1. Acting \in Actions
  BY TargetType
<1>2. job.cmd.action \notin Batches => ~ Submitting
  <2>1. job.cmd.action \notin Batches => job.cmd.submit = NoRef
    BY ConstantsAssumption DEF Placed
  <2> QED BY <2>1, ConstantsAssumption DEF Placed
<1>3. job.cmd.action = "hover" <=> Acting = "hover"
  BY DEF Acting, IsBatch
<1>14. Acting # "click" => job.cmd.action = Acting
  BY DEF Acting
<1>4. CASE Acting = "click"
  <2>1. Events = <<"over", "down", "click">>
    BY <1>4 DEF Events, ClickEvents, Texts
  <2>2. Len(Events) = 3 /\ \A n \in 1 .. 3 : Events[n] = <<"over", "down", "click">>[n]
    BY <2>1
  <2> QED BY <2>2, <1>3, <1>4 DEF Decisive
<1>5. CASE Acting = "click_at"
  <2>1. Events = <<"over", "down", "click">>
    BY <1>5 DEF Events, ClickAtEvents, Texts
  <2>2. Len(Events) = 3 /\ \A n \in 1 .. 3 : Events[n] = <<"over", "down", "click">>[n]
    BY <2>1
  <2> QED BY <2>2, <1>3, <1>5 DEF Decisive
<1>6. CASE Acting = "press"
  <2>1. Events = <<"keydown", "act">>
    BY <1>6 DEF Events, PressEvents, Texts
  <2>2. Len(Events) = 2 /\ \A n \in 1 .. 2 : Events[n] = <<"keydown", "act">>[n]
    BY <2>1
  <2> QED BY <2>2, <1>2, <1>3, <1>6, <1>14 DEF Decisive, Batches
<1>13. CASE Acting = "press_newline"
  <2>1. Events = <<"keydown", "enter", "newline">>
    BY <1>13 DEF Events, NewlineEvents, Texts
  <2>2. /\ Len(Events) = 3
        /\ Events[1] = "keydown" /\ Events[2] = "enter" /\ Events[3] = "newline"
    BY <2>1
  <2>3. 1 .. Len(Events) = {1, 2, 3}
    BY <2>2
  <2> QED BY <2>2, <2>3, <1>2, <1>3, <1>13, <1>14 DEF Decisive, Batches
<1>7. CASE Acting = "attach_file"
  <2>1. Events = <<"focus", "file">>
    BY <1>7 DEF Events, AttachEvents, Texts
  <2>2. Len(Events) = 2 /\ Events[1] = "focus" /\ Events[2] = "file"
    BY <2>1
  <2>3. 1 .. Len(Events) = {1, 2}
    BY <2>2
  <2> QED BY <2>2, <2>3, <1>3, <1>7, <1>14 DEF Decisive
<1>8. CASE Acting = "hover"
  <2>1. Events = <<"over">>
    BY <1>8 DEF Events, HoverEvents, Texts
  <2>2. Len(Events) = 1 /\ \A n \in 1 .. 1 : Events[n] = <<"over">>[n]
    BY <2>1
  <2> QED BY <2>2, <1>3, <1>8 DEF Decisive
<1>9. Len(TypeEvents) = 2 * Keys /\ 2 * Keys \in Nat /\ 2 * Keys >= 1
      /\ \A n \in 1 .. Len(TypeEvents) : TypeEvents[n] \in {"keydown", "write"}
  <2>1. Keys \in Nat \ {0}
    BY ConstantsAssumption
  <2>2. 2 * Keys \in Nat /\ 2 * Keys >= 1
    BY <2>1
  <2> QED BY <2>2 DEF TypeEvents
<1>10. CASE Acting \in Texts
  <2>1. Events = TypeEvents
    BY <1>10 DEF Events, Texts
  <2>2. ~ Submitting /\ job.cmd.action \in Texts
    BY <1>2, <1>10 DEF Acting, IsBatch, Texts, Batches
  <2> QED BY <1>9, <2>1, <2>2, <1>3, <1>10 DEF Texts, Decisive
<1>11. CASE Acting = "credential_apply" /\ ~ Submitting
  <2>1. Events = TypeEvents
    BY <1>11 DEF Events, Texts, CredentialEvents
  <2>2. ~ Submitting /\ job.cmd.action = "credential_apply"
    BY <1>11 DEF Acting
  <2> QED BY <1>9, <2>1, <2>2, <1>3, <1>11 DEF Decisive
<1>12. CASE Acting = "credential_apply" /\ Submitting
  <2>1. Events = <<"submit">>
    BY <1>12 DEF Events, Texts, CredentialEvents
  <2>2. IsCredential
    BY <1>12 DEF Acting, IsCredential
  <2>3. Len(Events) = 1 /\ Events[1] = "submit" /\ 1 .. Len(Events) = {1}
    BY <2>1
  <2> QED BY <2>2, <2>3, <1>3, <1>12 DEF Decisive
<1> QED BY <1>1, <1>4, <1>5, <1>6, <1>7, <1>8, <1>10, <1>11, <1>12, <1>13
        DEF Actions, Forced, Presses

-----------------------------------------------------------------------------
\* Steps grouped by what they leave alone.

\* What is under way does not depend on what the page shows, only on which
\* document it is.
LEMMA PageStep ==
    ASSUME Inv, Types', Bindings', Offers', page'.epoch = page.epoch,
           UNCHANGED <<job, acts, reply>>
    PROVE  Inv'
<1>1. job' = job /\ acts' = acts /\ reply' = reply
  OBVIOUS
<1>2. /\ IsCredential' = IsCredential /\ IsBatch' = IsBatch /\ Submitting' = Submitting
      /\ Fields' = Fields
  BY <1>1 DEF IsCredential, IsBatch, Submitting, Fields
<1>3. Acting' = Acting /\ Targets' = Targets /\ Target' = Target
  BY <1>1, <1>2 DEF Acting, Targets, Target
<1>4. Verdict' = Verdict
  BY <1>1, <1>2, <1>3 DEF Verdict
<1>5. Events' = Events
  BY <1>2, <1>3 DEF Events, CredentialEvents
<1>18. Preceded' /\ RiskNeedsApproval'
  <2>1. \A d : AsConfirmed(d)' = AsConfirmed(d)
    BY <1>1, <1>2 DEF AsConfirmed
  <2>2. Preceded'
    BY <1>1, <1>2, <1>3, <1>5, <2>1 DEF Inv, Preceded
  <2>3. RiskNeedsApproval'
    BY <1>1, <1>2, <2>1 DEF Inv, RiskNeedsApproval
  <2> QED BY <2>2, <2>3
<1>6. Asked'
  BY <1>1 DEF Inv, Asked
<1>7. Position'
  BY <1>1, <1>2, <1>3, <1>5 DEF Inv, Position
<1>8. Accepted'
  BY <1>1, <1>2 DEF Inv, Accepted
<1>9. Cleared'
  BY <1>1, <1>4 DEF Inv, Cleared
<1>10. Documents'
  BY <1>1 DEF Inv, Documents
<1>11. \A i : Written(i)' = Written(i)
  BY <1>1 DEF Written
<1>12. Progress'
  BY <1>1, <1>5, <1>11 DEF Inv, Progress
<1>13. OneDocument'
  BY <1>1, <1>2 DEF Inv, OneDocument
<1>14. AnsweredOnce' /\ PartialReport'
  BY <1>1 DEF Inv, AnsweredOnce, PartialReport
<1>15. BatchPrint' /\ NoRiskySubmit'
  BY <1>1, <1>2 DEF Inv, BatchPrint, NoRiskySubmit
<1>16. RevalidationIsInert'
  BY <1>1 DEF Inv, RevalidationIsInert
<1>17. SecretsInPlace'
  BY <1>1, <1>2 DEF Inv, SecretsInPlace
<1> QED
  BY <1>6, <1>7, <1>8, <1>9, <1>10, <1>12, <1>13, <1>14, <1>15, <1>16, <1>17, <1>18 DEF Inv

\* A command begins: nothing is done yet.
LEMMA StartStep ==
    ASSUME Inv, NEW j \in Job, j.cmd \in Commands,
           j.approved \/ j.revalidate => Askable(j.cmd) /\ j.print \in Prints,
           j.at = 0, j.done = <<>>,
           confirmed' \subseteq confirmed, granted' \subseteq granted,
           prepared' \subseteq prepared, jobs' \in 0 .. MaxJobs,
           Start(j)
    PROVE  Inv'
<1>1. /\ job = NoJob /\ acts' = {}
      /\ job' = [j EXCEPT !.attempt = 1, !.phase = "sent"]
      /\ page' = page /\ offers' = offers /\ reply' = reply /\ changes' = changes
  BY DEF Start
<1>2. j \in Job
  OBVIOUS
<1>3. job' \in Job /\ job'.phase = "sent" /\ job'.cmd = j.cmd /\ job'.at = 0
      /\ job'.done = <<>>
      /\ job'.approved = j.approved /\ job'.revalidate = j.revalidate /\ job'.print = j.print
  <2>1. 1 \in 0 .. 2 /\ "sent" \in Phases
    BY DEF Phases
  <2>2. job' \in Job
    BY <1>1, <2>1 DEF Job
  <2> QED BY <1>1, <1>2, <2>2 DEF Job
<1>4. Types'
  BY <1>1, <1>3, ConstantsAssumption DEF Inv, Types
<1>5. Bindings' /\ Offers'
  BY <1>1 DEF Inv, Bindings, Offers
<1>6. job' # NoJob
  BY <1>3, IdleType
<1>7. Asked'
  BY <1>3 DEF Asked
<1>8. Position'
  <2>1. Len(job'.cmd.refs) \in Nat
    BY <1>3, ActionType
  <2> QED BY <1>3, <2>1 DEF Position, Answering, Filling
<1>9. Accepted' /\ Cleared' /\ Preceded' /\ BatchPrint'
  BY <1>3 DEF Accepted, Cleared, Preceded, Filling, BatchPrint
<1>10. Documents' /\ OneDocument' /\ NoRiskySubmit'
  BY <1>1 DEF Documents, OneDocument, NoRiskySubmit
<1>11. Progress'
  BY <1>3 DEF Progress, Answering, Filling
<1>12. AnsweredOnce' /\ PartialReport'
  BY <1>1 DEF Inv, AnsweredOnce, PartialReport
<1>13. RiskNeedsApproval' /\ RevalidationIsInert' /\ SecretsInPlace'
  BY <1>1 DEF RiskNeedsApproval, RevalidationIsInert, SecretsInPlace
<1> QED
  BY <1>4, <1>5, <1>7, <1>8, <1>9, <1>10, <1>11, <1>12, <1>13 DEF Inv

\* A command goes on: of the invariant, only what says where it is has to be
\* shown anew.
LEMMA MoveStep ==
    ASSUME Inv, job.phase # "none",
           page' \in Document, page'.epoch = page.epoch, page'.bindings = page.bindings,
           UNCHANGED <<acts, reply, offers, confirmed, granted, prepared, changes, jobs>>,
           job' \in Job, job'.phase # "none",
           job'.cmd = job.cmd, job'.approved = job.approved,
           job'.revalidate = job.revalidate, job'.print = job.print,
           job'.bound = job.bound,
           job'.phase \in {"sent", "lost"} => job.phase \in {"sent", "lost"},
           Position', Accepted', Cleared', Preceded', Progress', BatchPrint'
    PROVE  Inv'
<1>1. /\ acts' = acts /\ reply' = reply /\ offers' = offers /\ confirmed' = confirmed
      /\ granted' = granted /\ prepared' = prepared /\ changes' = changes /\ jobs' = jobs
  OBVIOUS
<1>2. IsCredential' = IsCredential /\ IsBatch' = IsBatch /\ Fields' = Fields
  BY DEF IsCredential, IsBatch, Fields
<1>3. job # NoJob /\ job' # NoJob
  BY IdleType
<1>4. Types'
  BY <1>1 DEF Inv, Types
<1>5. Bindings' /\ Offers'
  BY <1>1 DEF Inv, Bindings, Offers
<1>6. Asked'
  BY DEF Inv, Asked
<1>7. Documents'
  BY <1>1 DEF Inv, Documents
<1>8. OneDocument'
  BY <1>1, <1>2 DEF Inv, OneDocument
<1>9. NoRiskySubmit'
  BY <1>1, <1>2, <1>3 DEF Inv, NoRiskySubmit
<1>10. AnsweredOnce' /\ PartialReport'
  BY <1>1 DEF Inv, AnsweredOnce, PartialReport
<1>11. RiskNeedsApproval'
  <2>1. \A d : AsConfirmed(d)' = AsConfirmed(d)
    BY <1>2 DEF AsConfirmed
  <2> QED BY <1>1, <1>2, <1>3, <2>1 DEF Inv, RiskNeedsApproval
<1>12. RevalidationIsInert'
  BY <1>1 DEF Inv, RevalidationIsInert
<1>13. SecretsInPlace'
  BY <1>1, <1>2, <1>3 DEF Inv, SecretsInPlace
<1> QED
  BY <1>4, <1>5, <1>6, <1>7, <1>8, <1>9, <1>10, <1>11, <1>12, <1>13 DEF Inv

\* What is done of a batch may be reported.
LEMMA DoneIsDone ==
    ASSUME Inv, job.phase \in Answering, NEW r,
           r.filled = job.done, r.cmd = job.cmd, r.acts = acts
    PROVE  FilledAsSaid(r)
<1> DEFINE n == Len(r.filled)
           e == page.epoch
           wrote(i, x) == {d \in r.acts : d.event = "write" /\ d.at = i /\ d.epoch = x}
<1>1. job \in Job /\ page \in Document /\ acts \subseteq Deeds
  BY DEF Inv, Types
<1>2. job.done \in Seq(Refs) /\ n \in Nat /\ job.at \in Nat
  BY <1>1, JobFields
<1>3. job.phase # "none"
  BY DEF Answering, Filling
<1>4. job.cmd.refs \in Seq(Refs) /\ Len(job.cmd.refs) \in Nat
  BY <1>3, ActionType DEF Inv, Asked
<1>5. /\ n <= Len(job.cmd.refs)
      /\ \A i \in 1 .. n : job.done[i] = job.cmd.refs[i] /\ Written(i)
      /\ job.at <= n + 1
      /\ \A d \in acts : d.event = "write" /\ d.epoch = e => d.at <= job.at
  BY DEF Inv, Progress
<1>6. IsPrefix(r.filled, r.cmd.refs)
  <2>1. SubSeq(job.done, 1, n) = [i \in 1 .. n |-> job.done[i]]
    BY <1>2
  <2>2. SubSeq(job.cmd.refs, 1, n) = [i \in 1 .. n |-> job.cmd.refs[i]]
    BY <1>2, <1>4, <1>5
  <2> QED BY <1>5, <2>1, <2>2 DEF IsPrefix
<1>7. ASSUME r.filled # <<>>
      PROVE  \E x \in {d.epoch : d \in r.acts} :
                /\ \A d \in r.acts : d.epoch <= x
                /\ \A i \in 1 .. n : \E d \in wrote(i, x) : d.whole
                /\ \A i \in n + 2 .. Len(r.cmd.refs) : wrote(i, x) = {}
  <2>1. n >= 1
    BY <1>2, <1>7
  <2>2. Written(1)
    BY <1>2, <1>5, <2>1
  <2>3. e \in {d.epoch : d \in r.acts}
    BY <2>2 DEF Written
  <2>4. \A d \in r.acts : d.epoch <= e
    BY DEF Inv, Documents
  <2>5. \A i \in 1 .. n : \E d \in wrote(i, e) : d.whole
    BY <1>5 DEF Written
  <2>6. ASSUME NEW i \in n + 2 .. Len(r.cmd.refs)
        PROVE  wrote(i, e) = {}
    <3> SUFFICES ASSUME NEW d \in acts, d.event = "write", d.at = i, d.epoch = e
                 PROVE  FALSE
      OBVIOUS
    <3>1. d.at <= job.at
      BY <1>5
    <3> QED BY <1>2, <1>4, <1>5, <3>1
  <2> HIDE DEF wrote, e
  <2> QED BY <2>3, <2>4, <2>5, <2>6
<1> QED BY <1>6, <1>7 DEF FilledAsSaid

\* A command is answered.
LEMMA AnswerStep ==
    ASSUME Inv, job.phase # "none", NEW code \in Codes, NEW filled,
           filled = <<>> \/ (job.phase \in Answering /\ filled = job.done),
           Reports(code, filled),
           page' \in Document, page'.epoch = page.epoch, Bindings',
           offers' \subseteq Offer, confirmed' \subseteq Offer, granted' \subseteq Offer,
           Offers', UNCHANGED <<acts, prepared, changes, jobs>>
    PROVE  Inv'
<1>1. /\ job' = NoJob
      /\ reply' = [code |-> code, cmd |-> job.cmd, approved |-> job.approved,
                   print |-> job.print, filled |-> filled, acts |-> acts]
      /\ acts' = acts /\ prepared' = prepared /\ changes' = changes /\ jobs' = jobs
  BY DEF Reports
<1>2. job \in Job /\ acts \subseteq Deeds
  BY DEF Inv, Types
<1>3. /\ reply'.cmd = job.cmd /\ reply'.approved = job.approved /\ reply'.filled = filled
      /\ reply'.acts = acts
  BY <1>1
<1>4. reply' \in Reply
  <2>1. filled \in Seq(Refs)
    <3>1. job.done \in Seq(Refs)
      BY <1>2, JobFields
    <3>2. <<>> \in Seq(Refs)
      OBVIOUS
    <3> QED BY <3>1, <3>2
  <2> QED BY <1>1, <1>2, <2>1, JobFields DEF Reply
<1>5. Types'
  BY <1>1, <1>4, IdleType DEF Inv, Types
<1>6. Asked' /\ RevalidationIsInert'
  BY <1>1, IdleType DEF Asked, RevalidationIsInert
<1>7. Position'
  BY <1>1, IdleType DEF Position, Answering, Filling
<1>8. Accepted' /\ Cleared' /\ Preceded' /\ BatchPrint'
  BY <1>1, IdleType DEF Accepted, Cleared, Preceded, Filling, BatchPrint
<1>9. Documents'
  BY <1>1, IdleType DEF Inv, Documents
<1>10. Progress' /\ OneDocument'
  BY <1>1, IdleType DEF Progress, Answering, Filling, OneDocument
<1>11. NoRiskySubmit' /\ RiskNeedsApproval' /\ SecretsInPlace'
  BY <1>1 DEF NoRiskySubmit, RiskNeedsApproval, SecretsInPlace
<1>12. AnsweredOnce'
  BY <1>3 DEF Inv, AnsweredOnce, OneDocument, IsCredential
<1>13. PartialReport'
  <2>1. FilledAsSaid(reply')
    <3>1. CASE filled = <<>>
      BY <1>3, <3>1 DEF FilledAsSaid
    <3>2. CASE job.phase \in Answering /\ filled = job.done
      BY <1>3, <3>2, DoneIsDone
    <3> QED BY <3>1, <3>2
  <2> QED BY <2>1 DEF PartialReport
<1> QED
  BY <1>5, <1>6, <1>7, <1>8, <1>9, <1>10, <1>11, <1>12, <1>13 DEF Inv

-----------------------------------------------------------------------------
\* The page.

\* Removing a binding leaves others.
LEMMA DeletedType ==
    ASSUME NEW s \in Seq(Binding), NEW x
    PROVE  /\ Deleted(s, x) \in Seq(Binding)
           /\ Len(Deleted(s, x)) <= Len(s)
           /\ \A i \in 1 .. Len(Deleted(s, x)) :
                 \E k \in 1 .. Len(s) : Deleted(s, x)[i] = s[k]
<1>1. CASE Positions(s, x) = {}
  BY <1>1 DEF Deleted
<1>2. CASE Positions(s, x) # {}
  <2>1. PICK p \in Positions(s, x) : Deleted(s, x) = RemoveAt(s, p)
    BY <1>2 DEF Deleted
  <2>2. p \in 1 .. Len(s) /\ Len(s) \in Nat
    BY <2>1 DEF Positions
  <2> DEFINE u == SubSeq(s, 1, p - 1)
             v == SubSeq(s, p + 1, Len(s))
  <2>3. u \in Seq(Binding) /\ Len(u) = p - 1 /\ \A i \in 1 .. p - 1 : u[i] = s[i]
    BY <2>2
  <2>4. v \in Seq(Binding) /\ Len(v) = Len(s) - p /\ \A i \in 1 .. Len(s) - p : v[i] = s[i + p]
    BY <2>2
  <2>5. Deleted(s, x) = u \o v
    BY <2>1 DEF RemoveAt
  <2> HIDE DEF u, v
  <2>6. /\ u \o v \in Seq(Binding) /\ Len(u \o v) = Len(s) - 1
        /\ \A i \in 1 .. Len(s) - 1 : (u \o v)[i] = IF i <= p - 1 THEN u[i] ELSE v[i - (p - 1)]
    <3>1. /\ u \o v \in Seq(Binding) /\ Len(u \o v) = Len(u) + Len(v)
          /\ \A i \in 1 .. Len(u) + Len(v) :
                (u \o v)[i] = IF i <= Len(u) THEN u[i] ELSE v[i - Len(u)]
      BY <2>3, <2>4, ConcatProperties
    <3>2. Len(u) + Len(v) = Len(s) - 1
      BY <2>2, <2>3, <2>4
    <3> QED BY <2>3, <3>1, <3>2
  <2>7. ASSUME NEW i \in 1 .. Len(s) - 1
        PROVE  \E k \in 1 .. Len(s) : (u \o v)[i] = s[k]
    <3>0. i \in Nat
      BY <2>2
    <3>1. CASE i <= p - 1
      BY <2>2, <2>3, <2>6, <3>1
    <3>2. CASE i > p - 1
      <4>1. i - (p - 1) \in 1 .. Len(s) - p /\ i + 1 \in 1 .. Len(s)
        BY <2>2, <3>2
      <4>2. (u \o v)[i] = v[i - (p - 1)]
        BY <2>2, <2>6, <3>2
      <4>3. v[i - (p - 1)] = s[i - (p - 1) + p]
        BY <2>4, <4>1
      <4>4. i - (p - 1) + p = i + 1
        BY <2>2
      <4> QED BY <4>1, <4>2, <4>3, <4>4
    <3>3. i <= p - 1 \/ i > p - 1
      BY <2>2, <3>0
    <3> QED BY <3>1, <3>2, <3>3
  <2> QED BY <2>2, <2>5, <2>6, <2>7
<1> QED BY <1>1, <1>2

\* What a handler, a timer or the user makes of a document is the same document.
LEMMA ChangedType ==
    ASSUME NEW p \in Document, NEW q \in Changed(p)
    PROVE  q \in Document /\ q.epoch = p.epoch /\ q.bindings = p.bindings
<1>1. CASE \E r \in Refs, l \in Relabels : q = [p EXCEPT !.label = [p.label EXCEPT ![r] = l]]
  <2>1. PICK r \in Refs, l \in Relabels : q = [p EXCEPT !.label = [p.label EXCEPT ![r] = l]]
    BY <1>1
  <2>2. l \in Labels
    BY ConstantsAssumption
  <2> DEFINE f == [p.label EXCEPT ![r] = l]
  <2>3. f \in [Refs -> Labels]
    BY <2>2, PageFields
  <2>4. q = [p EXCEPT !.label = f]
    BY <2>1
  <2> HIDE DEF f
  <2> QED BY <2>3, <2>4 DEF Document
<1>2. CASE \E x \in Places : q = [p EXCEPT !.place = x]
  BY <1>2 DEF Document
<1> QED BY <1>1, <1>2 DEF Changed

\* Without its bindings.
LEMMA ForgottenType ==
    ASSUME Inv, NEW x, page' = [page EXCEPT !.bindings = Deleted(page.bindings, x)]
    PROVE  page' \in Document /\ page'.epoch = page.epoch /\ Bindings'
<1> DEFINE p == page
           q == page'
<1>0. /\ p \in Document /\ q = [p EXCEPT !.bindings = Deleted(p.bindings, x)]
      /\ Len(p.bindings) <= MaxBindings
      /\ \A i \in 1 .. Len(p.bindings) : p.bindings[i].token.epoch = p.epoch
  BY DEF Inv, Types, Bindings
<1> HIDE DEF p, q
<1>1. p.bindings \in Seq(Binding) /\ Len(p.bindings) \in Nat
  BY <1>0, PageFields
<1> DEFINE s == Deleted(p.bindings, x)
<1>2. /\ s \in Seq(Binding) /\ Len(s) <= Len(p.bindings)
      /\ \A i \in 1 .. Len(s) : \E k \in 1 .. Len(p.bindings) : s[i] = p.bindings[k]
  BY <1>1, DeletedType
<1> HIDE DEF s
<1>3. q = [p EXCEPT !.bindings = s]
  BY <1>0 DEF s
<1>4. q \in Document /\ q.epoch = p.epoch /\ q.bindings = s
  BY <1>0, <1>2, <1>3 DEF Document
<1>5. Len(s) \in Nat /\ MaxBindings \in Nat
  BY <1>2, ConstantsAssumption
<1>6. Len(s) <= MaxBindings
  BY <1>0, <1>1, <1>2, <1>5
<1>7. \A i \in 1 .. Len(s) : s[i].token.epoch = p.epoch
  BY <1>0, <1>2
<1> QED BY <1>4, <1>6, <1>7 DEF p, q, Bindings

LEMMA PageChangesKeeps == Inv /\ PageChanges => Inv'
<1> SUFFICES ASSUME Inv, PageChanges PROVE Inv'
  OBVIOUS
<1>1. page' \in Changed(page) /\ changes < MaxChanges /\ changes' = changes + 1
      /\ UNCHANGED <<job, offers, confirmed, granted, prepared, acts, reply, jobs>>
  BY DEF PageChanges
<1>2. page' \in Document /\ page'.epoch = page.epoch /\ page'.bindings = page.bindings
  BY <1>1, ChangedType DEF Inv, Types
<1>3. Types'
  BY <1>1, <1>2, ConstantsAssumption DEF Inv, Types
<1>4. Bindings' /\ Offers'
  BY <1>1, <1>2 DEF Inv, Bindings, Offers
<1> QED BY <1>1, <1>2, <1>3, <1>4, PageStep

LEMMA ScriptLoadsKeeps == Inv /\ (ScriptLoads \/ Snapshot) => Inv'
<1> SUFFICES ASSUME Inv, ScriptLoads \/ Snapshot PROVE Inv'
  OBVIOUS
<1>1. /\ page' = [page EXCEPT !.loaded = TRUE] \/ page' = [page EXCEPT !.known = Refs]
      /\ UNCHANGED <<job, offers, confirmed, granted, prepared, acts, reply, changes, jobs>>
  BY DEF ScriptLoads, Snapshot
<1>2. page' \in Document /\ page'.epoch = page.epoch /\ page'.bindings = page.bindings
  BY <1>1 DEF Inv, Types, Document
<1>3. Types'
  BY <1>1, <1>2 DEF Inv, Types
<1>4. Bindings' /\ Offers'
  BY <1>1, <1>2 DEF Inv, Bindings, Offers
<1> QED BY <1>1, <1>2, <1>3, <1>4, PageStep

LEMMA ExpiresKeeps == Inv /\ Expires => Inv'
<1> SUFFICES ASSUME Inv, Expires PROVE Inv'
  OBVIOUS
<1>1. PICK b : page' = [page EXCEPT !.bindings = Deleted(page.bindings, b.print)]
  BY DEF Expires
<1>2. UNCHANGED <<job, offers, confirmed, granted, prepared, acts, reply, changes, jobs>>
  BY DEF Expires
<1>4. page' \in Document /\ page'.epoch = page.epoch /\ Bindings'
  BY <1>1, ForgottenType
<1>5. Types'
  BY <1>2, <1>4 DEF Inv, Types
<1>6. Offers'
  BY <1>2 DEF Inv, Offers
<1> QED BY <1>2, <1>4, <1>5, <1>6, PageStep

LEMMA ConfirmsKeeps == Inv /\ Confirms => Inv'
<1> SUFFICES ASSUME Inv, NEW o \in offers,
                    offers' = offers \ {o},
                    confirmed' = IF Live(o) THEN confirmed \cup {o} ELSE confirmed,
                    page' = IF Live(o) THEN page
                            ELSE [page EXCEPT !.bindings = Deleted(page.bindings, o.print)],
                    UNCHANGED <<job, granted, prepared, acts, reply, changes, jobs>>
             PROVE  Inv'
  BY DEF Confirms
<1>1. page \in Document
  BY DEF Inv, Types
<1>2. page' \in Document /\ page'.epoch = page.epoch /\ Bindings'
  <2>1. CASE Live(o)
    BY <1>1, <2>1 DEF Inv, Bindings
  <2>2. CASE ~ Live(o)
    BY <2>2, ForgottenType
  <2> QED BY <2>1, <2>2
<1>3. Types'
  BY <1>2 DEF Inv, Types
<1>4. Offers'
  BY DEF Inv, Offers
<1> QED BY <1>2, <1>3, <1>4, PageStep

LEMMA PreparesKeeps == Inv /\ Prepares => Inv'
<1> SUFFICES ASSUME Inv, NEW c \in Commands,
                    prepared' = {[cmd |-> c, token |-> Material(page, c, ToSet(c.refs))]},
                    UNCHANGED <<page, job, offers, confirmed, granted, acts, reply, changes, jobs>>
             PROVE  Inv'
  BY DEF Prepares
<1>1. page \in Document
  BY DEF Inv, Types
<1>2. ToSet(c.refs) \in SUBSET Refs
  BY ActionType DEF ToSet
<1>3. Material(page, c, ToSet(c.refs)) \in Tokens
  BY <1>1, <1>2, MaterialType
<1>4. Types'
  BY <1>3 DEF Inv, Types
<1>5. Bindings' /\ Offers'
  BY DEF Inv, Bindings, Offers
<1> QED BY <1>4, <1>5, PageStep

-----------------------------------------------------------------------------
\* Commands begin.

\* The calls are counted within their bound.
LEMMA CallsType ==
    ASSUME Inv, Calls
    PROVE  jobs' \in 0 .. MaxJobs
<1>1. jobs \in 0 .. MaxJobs /\ jobs < MaxJobs /\ jobs' = jobs + 1 /\ MaxJobs \in Nat
  BY ConstantsAssumption DEF Inv, Types, Calls
<1> QED BY <1>1

LEMMA AsksKeeps == Inv /\ Asks => Inv'
<1> SUFFICES ASSUME Inv, NEW c \in Commands,
                    Start([NoJob EXCEPT !.cmd = c, !.shot = page.epoch]), Calls,
                    UNCHANGED <<confirmed, granted, prepared>>
             PROVE  Inv'
  BY DEF Asks
<1> DEFINE j == [NoJob EXCEPT !.cmd = c, !.shot = page.epoch]
<1>1. page.epoch \in Nat
  BY PageFields DEF Inv, Types
<1>2. j \in Job /\ j.cmd = c /\ ~ j.approved /\ ~ j.revalidate /\ j.at = 0
      /\ j.done = <<>>
  <2>1. j \in Job
    BY <1>1, IdleType DEF Job
  <2> QED BY <2>1, IdleType DEF Job
<1>3. jobs' \in 0 .. MaxJobs
  BY CallsType
<1> HIDE DEF j
<1> QED BY <1>2, <1>3, StartStep DEF j

LEMMA ApprovedKeeps == Inv /\ (Approved \/ Revalidates) => Inv'
<1> SUFFICES ASSUME Inv, NEW o \in confirmed \cup granted, NEW j,
                    \/ j = [NoJob EXCEPT !.cmd = o.cmd, !.approved = TRUE, !.print = o.print,
                                         !.shot = o.print.epoch]
                    \/ j = [NoJob EXCEPT !.cmd = o.cmd, !.revalidate = TRUE, !.print = o.print,
                                         !.shot = o.print.epoch],
                    Start(j), confirmed' = confirmed, granted' \subseteq granted,
                    UNCHANGED <<prepared, jobs>>
             PROVE  Inv'
  BY DEF Approved, Revalidates
<1>1. o.cmd \in Commands /\ o.print \in Prints /\ Askable(o.cmd)
  BY DEF Inv, Types, Offer, Offers
<1>2. o.print.epoch \in Nat
  BY <1>1 DEF Prints
<1>3. j \in Job
  BY <1>1, <1>2, IdleType DEF Job
<1>4. j.cmd = o.cmd /\ j.print = o.print /\ j.at = 0
      /\ j.done = <<>>
  BY <1>3, IdleType DEF Job
<1>5. jobs' \in 0 .. MaxJobs
  BY DEF Inv, Types
<1> QED BY <1>1, <1>3, <1>4, <1>5, StartStep

LEMMA AppliesKeeps == Inv /\ Applies => Inv'
<1> SUFFICES ASSUME Inv, NEW b \in prepared,
                    Start([NoJob EXCEPT !.cmd = b.cmd, !.bound = b.token]), Calls,
                    prepared' = {}, UNCHANGED <<confirmed, granted>>
             PROVE  Inv'
  BY DEF Applies
<1> DEFINE j == [NoJob EXCEPT !.cmd = b.cmd, !.bound = b.token]
<1>1. b.cmd \in Commands /\ b.token \in Tokens
  BY DEF Inv, Types
<1>2. j \in Job /\ j.cmd = b.cmd /\ ~ j.approved /\ ~ j.revalidate /\ j.at = 0
      /\ j.done = <<>>
  <2>1. j \in Job
    BY <1>1, IdleType DEF Job
  <2> QED BY <1>1, <2>1, IdleType DEF Job
<1>3. jobs' \in 0 .. MaxJobs
  BY CallsType
<1> HIDE DEF j
<1> QED BY <1>1, <1>2, <1>3, StartStep DEF j

\* A document is replaced: what acts waits until its events are over, and what
\* waits is lost.
LEMMA NavigatesKeeps == Inv /\ Navigates => Inv'
<1> SUFFICES ASSUME Inv, NEW l \in Pages, ~ Synchronous, page.epoch < MaxEpoch,
                    page' = Fresh(page.epoch + 1, l),
                    job' = IF job.phase \in {"guard", "pause", "reply"}
                           THEN [job EXCEPT !.phase = "lost"] ELSE job,
                    UNCHANGED <<offers, confirmed, granted, prepared, acts, reply, changes, jobs>>
             PROVE  Inv'
  BY DEF Navigates
<1>1. page \in Document /\ job \in Job /\ acts \subseteq Deeds
  BY DEF Inv, Types
<1>2. page' \in Document /\ page'.epoch = page.epoch + 1 /\ page'.bindings = <<>>
  <2>1. page.epoch + 1 \in Epochs
    BY <1>1, PageFields, ConstantsAssumption DEF Epochs
  <2>2. l \in [Refs -> Labels]
    BY ConstantsAssumption
  <2> QED BY <2>1, <2>2 DEF Fresh, Document, Places
<1>3. /\ job' \in Job /\ job'.cmd = job.cmd /\ job'.approved = job.approved
      /\ job'.revalidate = job.revalidate /\ job'.print = job.print
      /\ job'.bound = job.bound /\ job'.at = job.at /\ job'.done = job.done
      /\ job'.phase \in {"none", "sent", "lost"}
      /\ job'.phase = "none" <=> job.phase = "none"
      /\ job'.phase = "none" => job' = job
  <2>1. "lost" \in Phases
    BY DEF Phases
  <2>2. job.phase \in Phases /\ job.phase # "act"
    BY <1>1, JobFields DEF Synchronous
  <2>3. CASE job.phase \in {"guard", "pause", "reply"}
    BY <1>1, <2>1, <2>3 DEF Job
  <2>4. CASE job.phase \notin {"guard", "pause", "reply"}
    BY <1>1, <2>2, <2>4 DEF Phases
  <2> QED BY <2>3, <2>4
<1>4. /\ IsCredential' = IsCredential /\ IsBatch' = IsBatch /\ Fields' = Fields
  BY <1>3 DEF IsCredential, IsBatch, Fields
<1>5. job.phase # "none" <=> job # NoJob
  BY IdleType DEF Inv, Asked
<1>6. job' # NoJob => job.phase # "none"
  BY <1>3, <1>5
<1>7. Types'
  BY <1>2, <1>3 DEF Inv, Types
<1>8. Bindings' /\ Offers'
  BY <1>2, ConstantsAssumption DEF Inv, Bindings, Offers
<1>9. Asked'
  BY <1>3 DEF Inv, Asked
<1>10. Position' /\ Accepted' /\ Cleared' /\ Preceded' /\ BatchPrint' /\ Progress'
  BY <1>3 DEF Inv, Position, Accepted, Cleared, Preceded, BatchPrint, Progress, Answering, Filling
<1>11. Documents'
  <2>1. \A d \in acts : d.epoch \in Nat /\ d.epoch <= page.epoch
    BY <1>1 DEF Inv, Documents, Deeds
  <2>2. page.epoch \in Nat
    BY <1>1, PageFields
  <2> QED BY <1>2, <2>1, <2>2 DEF Documents
<1>12. OneDocument'
  BY <1>3, <1>4 DEF Inv, OneDocument
<1>13. AnsweredOnce' /\ PartialReport'
  BY DEF Inv, AnsweredOnce, PartialReport
<1>14. NoRiskySubmit'
  BY <1>3, <1>4, <1>5, <1>6 DEF Inv, NoRiskySubmit
<1>15. RiskNeedsApproval' /\ RevalidationIsInert'
  <2>1. \A d : AsConfirmed(d)' = AsConfirmed(d)
    BY <1>3, <1>4 DEF AsConfirmed
  <2> QED BY <1>3, <1>4, <1>5, <1>6, <2>1 DEF Inv, RiskNeedsApproval, RevalidationIsInert
<1>16. SecretsInPlace'
  BY <1>3, <1>4, <1>5, <1>6 DEF Inv, SecretsInPlace
<1> QED
  BY <1>7, <1>8, <1>9, <1>10, <1>11, <1>12, <1>13, <1>14, <1>15, <1>16 DEF Inv

-----------------------------------------------------------------------------
\* The script takes a command and judges it.

\* A command at one of its fields has a target.
LEMMA InPlace ==
    ASSUME Inv, job.phase \in Filling, job.at >= 1
    PROVE  Placed
<1>1. job \in Job /\ job.phase # "none"
  BY DEF Inv, Types, Filling
<1>2. job.cmd \in Commands /\ job.at \in Nat
  BY <1>1, JobFields DEF Inv, Asked
<1>3. Len(job.cmd.refs) \in Nat /\ job.at <= Len(job.cmd.refs) + 1
  BY <1>1, <1>2, ActionType DEF Inv, Position
<1>4. Submitting => job.cmd.submit \in Refs
  BY DEF Inv, Position
<1> QED BY <1>1, <1>2, <1>3, <1>4 DEF Placed

\* A verdict that lets an ordinary command act.
LEMMA VerdictAllows ==
    ASSUME Verdict = "allow", ~ IsCredential, job.approved \in BOOLEAN,
           job.revalidate \in BOOLEAN
    PROVE  /\ ~ job.revalidate
           /\ job.approved <=> HasRisk(Acting, job.token)
           /\ job.approved => Fingerprint(Acting, job.token) = job.print
<1> DEFINE risk == HasRisk(Acting, job.token)
           same == Fingerprint(Acting, job.token) = job.print
<1>1. risk \in BOOLEAN /\ same \in BOOLEAN
  BY DEF HasRisk
<1>2. Decision(risk, job.approved, job.revalidate, same) = "allow"
  BY DEF Verdict
<1> HIDE DEF risk, same
<1>3. ~ job.revalidate /\ (job.approved <=> risk) /\ (job.approved => same)
  BY <1>1, <1>2 DEF Decision
<1> QED BY <1>3 DEF risk, same

\* An answer that leaves the page as it is.
LEMMA PlainAnswer ==
    ASSUME Inv, job.phase # "none", NEW code \in Codes, NEW filled,
           filled = <<>> \/ (job.phase \in Answering /\ filled = job.done),
           Answer(code, filled), UNCHANGED <<page, acts, changes>>
    PROVE  Inv'
<1>1. /\ UNCHANGED <<acts, granted, prepared, changes, jobs>> /\ offers' = offers
      /\ confirmed' \subseteq confirmed /\ Reports(code, filled)
  BY DEF Answer
<1>2. page' \in Document /\ page'.epoch = page.epoch /\ Bindings'
  BY DEF Inv, Types, Bindings
<1>3. offers' \subseteq Offer /\ confirmed' \subseteq Offer /\ granted' \subseteq Offer /\ Offers'
  BY <1>1 DEF Inv, Types, Offers
<1> QED BY <1>1, <1>2, <1>3, AnswerStep

\* What is reported of a batch.
LEMMA PartialType ==
    Partial = <<>> \/ Partial = job.done
BY DEF Partial

LEMMA RefuseKeeps ==
    ASSUME Inv, job.phase # "none", Refuse
    PROVE  Inv'
<1>1. "refused" \in Codes
  BY DEF Codes
<1> QED BY <1>1, PlainAnswer DEF Refuse

LEMMA UncontrollableKeeps == Inv /\ Uncontrollable => Inv'
<1> SUFFICES ASSUME Inv, Uncontrollable PROVE Inv'
  OBVIOUS
<1>1. "page_not_controllable" \in Codes /\ job.phase # "none"
  BY DEF Codes, Uncontrollable, Undeliverable
<1> QED BY <1>1, PlainAnswer DEF Uncontrollable

LEMMA RepliesKeeps == Inv /\ Replies => Inv'
<1> SUFFICES ASSUME Inv, Replies PROVE Inv'
  OBVIOUS
<1>1. "ok" \in Codes /\ job.phase # "none" /\ job.phase \in Answering
  BY DEF Codes, Replies, Answering
<1> QED BY <1>1, PlainAnswer DEF Replies

LEMMA StopsKeeps == Inv /\ Stops => Inv'
<1> SUFFICES ASSUME Inv, Stops PROVE Inv'
  OBVIOUS
<1>1. job.phase # "none" /\ job.phase \in Answering
  BY DEF Stops, Answering, Filling
<1>2. "context_changed" \in Codes /\ "timeout" \in Codes
  BY DEF Codes
<1>3. PICK code \in Codes : Answer(code, Partial)
  BY <1>2 DEF Stops
<1>4. UNCHANGED <<page, acts, changes>>
  BY DEF Stops
<1> QED BY <1>1, <1>3, <1>4, PartialType, PlainAnswer

LEMMA RetriesKeeps == Inv /\ Retries => Inv'
<1> SUFFICES ASSUME Inv, Undeliverable,
                    page' = [page EXCEPT !.loaded = TRUE],
                    job' = [job EXCEPT !.phase = "sent", !.attempt = 2, !.at = 0, !.ev = 0,
                                       !.token = NoToken, !.done = <<>>],
                    UNCHANGED <<acts, reply, offers, confirmed, granted, prepared, changes, jobs>>
             PROVE  Inv'
  BY DEF Retries, Resends, Keep
<1>1. page \in Document /\ job \in Job /\ job.phase \in {"sent", "lost"}
  BY DEF Inv, Types, Undeliverable
<1>2. page' \in Document /\ page'.epoch = page.epoch /\ page'.bindings = page.bindings
  BY <1>1 DEF Document
<1>3. /\ job' \in Job /\ job'.phase = "sent" /\ job'.cmd = job.cmd
      /\ job'.approved = job.approved /\ job'.revalidate = job.revalidate
      /\ job'.print = job.print /\ job'.bound = job.bound /\ job'.at = 0 /\ job'.done = <<>>
  <2>1. 2 \in 0 .. 2 /\ "sent" \in Phases /\ NoToken \in Tokens /\ <<>> \in Seq(Refs) /\ 0 \in Nat
    BY IdleType DEF Phases
  <2>2. job' \in Job
    BY <1>1, <2>1 DEF Job
  <2> QED BY <1>1, <2>2 DEF Job
<1>4. Len(job.cmd.refs) \in Nat
  BY <1>1, ActionType DEF Inv, Asked
<1>5. Position' /\ Accepted' /\ Cleared' /\ Preceded' /\ BatchPrint' /\ Progress'
  BY <1>3, <1>4 DEF Position, Accepted, Cleared, Preceded, BatchPrint, Progress, Answering, Filling
<1> QED BY <1>1, <1>2, <1>3, <1>5, MoveStep

\* The script takes the command: its targets are acceptable as they are.
LEMMA TakesKeeps == Inv /\ Takes => Inv'
<1> SUFFICES ASSUME Inv, Takes PROVE Inv'
  OBVIOUS
<1> DEFINE phase == IF job.cmd.action = "hover" THEN "act" ELSE "guard"
           at == IF IsBatch THEN 0 ELSE 1
           token == Material(page, job.cmd, ToSet(job.cmd.refs))
<1>1. page \in Document /\ job \in Job /\ job.phase = "sent"
  BY DEF Inv, Types, Takes
<1>2. CASE ~ Current
  <2>1. Refuse
    BY <1>2 DEF Takes
  <2> QED BY <1>1, <2>1, RefuseKeeps
<1>3. CASE Current
  <2>1. /\ job' = [job EXCEPT !.phase = phase, !.at = at, !.ev = 1, !.token = token]
        /\ page' = page
        /\ UNCHANGED <<acts, reply, offers, confirmed, granted, prepared, changes, jobs>>
    BY <1>3 DEF Takes, Keep
  <2>2. /\ job.cmd \in Commands /\ job.cmd.refs \in Seq(Refs) /\ Len(job.cmd.refs) \in Nat
        /\ Len(job.cmd.refs) >= 1
    BY <1>1, ActionType DEF Inv, Asked
  <2>3. ToSet(job.cmd.refs) \in SUBSET Refs
    BY <2>2 DEF ToSet
  <2>4. /\ token \in Tokens /\ token.epoch = page.epoch
        /\ token.label = [r \in ToSet(job.cmd.refs) |-> page.label[r]]
    BY <1>1, <2>3, MaterialType
  <2>5. phase \in {"act", "guard"} /\ at \in {0, 1} /\ (at = 0 <=> IsBatch) /\ (at = 0 => phase = "guard")
        /\ (phase = "act" <=> job.cmd.action = "hover")
    BY DEF IsBatch
  <2>6. IsCredential => token = job.bound
    BY <1>3 DEF Current
  <2>7. \A i \in DOMAIN job.cmd.refs :
           /\ ~ OrdinaryRefused(job.cmd.action, token.label[job.cmd.refs[i]])
           /\ ~ PressRefused(job.cmd.action, token.label[job.cmd.refs[i]])
           /\ ~ CredentialRefused(job.cmd, i, token.label[job.cmd.refs[i]])
    <3> SUFFICES ASSUME NEW i \in DOMAIN job.cmd.refs
                 PROVE  /\ ~ OrdinaryRefused(job.cmd.action, token.label[job.cmd.refs[i]])
                        /\ ~ PressRefused(job.cmd.action, token.label[job.cmd.refs[i]])
                        /\ ~ CredentialRefused(job.cmd, i, token.label[job.cmd.refs[i]])
      OBVIOUS
    <3>1. token.label[job.cmd.refs[i]] = page.label[job.cmd.refs[i]]
      BY <2>4 DEF ToSet
    <3> QED BY <1>3, <3>1 DEF Current, Acceptable
  <2> HIDE DEF phase, at, token
  <2>8. /\ job' \in Job /\ job'.phase = phase /\ job'.cmd = job.cmd /\ job'.at = at
        /\ job'.ev = 1 /\ job'.token = token /\ job'.done = job.done
        /\ job'.approved = job.approved /\ job'.revalidate = job.revalidate
        /\ job'.print = job.print /\ job'.bound = job.bound
    <3>1. phase \in Phases /\ at \in Nat /\ 1 \in Nat
      BY <2>5 DEF Phases
    <3>2. job' \in Job
      BY <1>1, <2>1, <2>4, <3>1 DEF Job
    <3> QED BY <1>1, <2>1, <3>2 DEF Job
  <2>9. ~ Submitting' /\ IsBatch' = IsBatch /\ IsCredential' = IsCredential
    BY <2>2, <2>5, <2>8 DEF Submitting, IsBatch, IsCredential
  <2>10. Targets' = ToSet(job.cmd.refs)
    BY <2>8, <2>9 DEF Targets
  <2>11. phase = "act" => Len(Events') = 1 /\ Events'[1] \notin Unchecked
    <3>1. ASSUME phase = "act" PROVE Events' = <<"over">>
      <4>1. Acting' = "hover"
        BY <2>5, <2>8, <2>9, <3>1 DEF Acting
      <4> QED BY <4>1 DEF Events, HoverEvents, Texts
    <3> QED BY <3>1 DEF Unchecked
  <2>12. Position'
    <3>1. DOMAIN token.label = ToSet(job.cmd.refs)
      BY <2>4
    <3>2. job'.at <= Len(job'.cmd.refs) + 1
      BY <2>2, <2>5, <2>8
    <3>3. job'.phase \in Answering => job'.token.epoch = page'.epoch
      BY <2>1, <2>4, <2>8
    <3>4. job'.at = 0 => IsBatch' /\ job'.phase = "guard"
      BY <2>5, <2>8, <2>9
    <3>5. DOMAIN job'.token.label = Targets'
      BY <2>8, <2>10, <3>1
    <3>6. job'.phase = "act" => job'.ev <= Len(Events')
      <4>1. job'.phase = "act" => Len(Events') = 1
        BY <2>8, <2>11
      <4>2. job'.ev = 1
        BY <2>8
      <4> QED BY <4>1, <4>2
    <3>7. job'.phase = "guard" => job'.ev = 1 /\ job'.cmd.action # "hover"
      BY <2>5, <2>8
    <3>8. job'.phase # "pause" /\ job'.ev >= 1
      BY <2>5, <2>8
    <3> QED BY <2>9, <3>2, <3>3, <3>4, <3>5, <3>6, <3>7, <3>8 DEF Position
  <2>13. Accepted'
    BY <2>6, <2>7, <2>8, <2>9 DEF Accepted
  <2>17. Preceded'
    BY <2>8, <2>11 DEF Preceded
  <2>14. Cleared' /\ BatchPrint'
    <3>1. Cleared'
      BY <2>5, <2>8 DEF Cleared
    <3>2. BatchPrint'
      BY <2>5, <2>8, <2>9 DEF BatchPrint, IsBatch
    <3> QED BY <3>1, <3>2
  <2>15. Progress'
    <3>1. job.done = <<>> /\ \A d \in acts : d.epoch < page.epoch
      BY <1>1 DEF Inv, Progress, Documents
    <3>2. \A d \in acts : d.epoch # page.epoch
      <4>1. acts \subseteq Deeds /\ page.epoch \in Nat
        BY <1>1, PageFields DEF Inv, Types
      <4> QED BY <3>1, <4>1 DEF Deeds
    <3> QED BY <2>1, <2>2, <2>5, <2>8, <3>1, <3>2 DEF Progress, Answering, Filling
  <2>16. job'.phase # "none" /\ job'.phase \notin {"sent", "lost"} /\ job.phase # "none"
    BY <1>1, <2>5, <2>8
  <2> QED BY <1>1, <2>1, <2>8, <2>12, <2>13, <2>14, <2>15, <2>16, <2>17, MoveStep
<1> QED BY <1>2, <1>3

\* What the script takes of a page it remembers of the same document, within
\* the limit.
LEMMA RememberType ==
    ASSUME Inv, NEW print \in Prints, job.token.epoch = page.epoch,
           page' = Remember(page, print)
    PROVE  page' \in Document /\ page'.epoch = page.epoch /\ Bindings'
<1> DEFINE old == page.bindings
           new == [print |-> print, token |-> job.token]
           replaced == [i \in DOMAIN old |-> IF old[i].print = print THEN new ELSE old[i]]
           all == IF Positions(old, print) = {} THEN Append(old, new) ELSE replaced
           kept == IF Len(all) > MaxBindings THEN Tail(all) ELSE all
<1>1. page \in Document /\ job.token \in Tokens
  BY JobFields DEF Inv, Types
<1>2. /\ old \in Seq(Binding) /\ Len(old) \in Nat /\ Len(old) <= MaxBindings
      /\ \A i \in 1 .. Len(old) : old[i] \in Binding /\ old[i].token.epoch = page.epoch
  BY <1>1, PageFields DEF Inv, Bindings
<1>3. new \in Binding /\ new.token.epoch = page.epoch
  BY <1>1 DEF Binding
<1> DEFINE Fit(s) == /\ s \in Seq(Binding) /\ Len(s) \in Nat /\ Len(s) <= MaxBindings + 1
                     /\ \A i \in 1 .. Len(s) : s[i].token.epoch = page.epoch
<1>4. MaxBindings \in Nat /\ MaxBindings >= 1
  BY ConstantsAssumption
<1> HIDE DEF new
<1>5. Fit(Append(old, new))
  BY <1>2, <1>3, <1>4
<1>6. Fit(replaced)
  <2>1. DOMAIN old = 1 .. Len(old)
    BY <1>2
  <2>2. replaced \in Seq(Binding) /\ Len(replaced) = Len(old)
    <3>1. \A i \in 1 .. Len(old) : replaced[i] \in Binding
      BY <1>2, <1>3, <2>1
    <3>2. replaced \in [1 .. Len(old) -> Binding]
      BY <2>1, <3>1
    <3> QED BY <1>2, <3>2
  <2>3. \A i \in 1 .. Len(old) : replaced[i].token.epoch = page.epoch
    BY <1>2, <1>3, <2>1
  <2> QED BY <1>2, <1>4, <2>2, <2>3
<1>7. Fit(all)
  BY <1>5, <1>6
<1> HIDE DEF all
<1>8. /\ kept \in Seq(Binding) /\ Len(kept) <= MaxBindings
      /\ \A i \in 1 .. Len(kept) : kept[i].token.epoch = page.epoch
  <2>1. CASE Len(all) > MaxBindings
    <3>1. all # <<>> /\ Len(all) \in Nat
      BY <1>4, <1>7, <2>1
    <3>2. /\ Tail(all) \in Seq(Binding) /\ Len(Tail(all)) = Len(all) - 1
          /\ \A i \in 1 .. Len(Tail(all)) : Tail(all)[i] = all[i + 1]
      BY <1>7, <3>1, HeadTailProperties
    <3>3. \A i \in 1 .. Len(all) - 1 : i + 1 \in 1 .. Len(all)
      BY <3>1
    <3> QED BY <1>4, <1>7, <2>1, <3>1, <3>2, <3>3
  <2>2. CASE ~ (Len(all) > MaxBindings)
    BY <1>4, <1>7, <2>2
  <2> QED BY <2>1, <2>2
<1>9. page' = [page EXCEPT !.bindings = kept]
  BY DEF Remember, all, new
<1> HIDE DEF kept
<1>10. page' \in Document /\ page'.epoch = page.epoch /\ page'.bindings = kept
  BY <1>1, <1>8, <1>9 DEF Document
<1> QED BY <1>8, <1>10 DEF Bindings

\* The guard allows, refuses, or asks.
LEMMA GuardedKeeps == Inv /\ Guarded => Inv'
<1> SUFFICES ASSUME Inv, Guarded PROVE Inv'
  OBVIOUS
<1>1. /\ page \in Document /\ job \in Job /\ job.phase = "guard"
      /\ job.phase # "none" /\ job.phase \in Answering /\ job.phase \in Filling
      /\ acts' = acts /\ changes' = changes
  BY DEF Inv, Types, Guarded, Answering, Filling
<1>2. /\ job.cmd \in Commands /\ job.at \in Nat /\ job.ev = 1 /\ job.cmd.action # "hover"
      /\ job.approved \in BOOLEAN /\ job.revalidate \in BOOLEAN
      /\ Len(job.cmd.refs) \in Nat /\ Len(job.cmd.refs) >= 1
  BY <1>1, JobFields, ActionType DEF Inv, Asked, Position
<1>3. ASSUME Verdict = "allow", page' = page,
             job' = IF job.at = 0 THEN [job EXCEPT !.at = 1] ELSE [job EXCEPT !.phase = "act"],
             UNCHANGED <<reply, offers, confirmed, granted, prepared, jobs>>
      PROVE  Inv'
  <2>1. /\ job' \in Job /\ job'.cmd = job.cmd /\ job'.ev = 1 /\ job'.token = job.token
        /\ job'.done = job.done /\ job'.approved = job.approved
        /\ job'.revalidate = job.revalidate /\ job'.print = job.print
        /\ job'.bound = job.bound
        /\ job'.at = IF job.at = 0 THEN 1 ELSE job.at
        /\ job'.phase = IF job.at = 0 THEN "guard" ELSE "act"
    <3>1. CASE job.at = 0
      BY <1>1, <1>2, <1>3, <3>1 DEF Job
    <3>2. CASE job.at # 0
      <4>1. "act" \in Phases
        BY DEF Phases
      <4> QED BY <1>1, <1>2, <1>3, <3>2, <4>1 DEF Job
    <3> QED BY <3>1, <3>2
  <2>2. Submitting' = Submitting /\ IsBatch' = IsBatch /\ IsCredential' = IsCredential
    BY <1>2, <2>1 DEF Submitting, IsBatch, IsCredential
  <2>3. Acting' = Acting /\ Targets' = Targets
    BY <2>1, <2>2 DEF Acting, Targets
  <2>4. Verdict' = Verdict
    BY <2>1, <2>2, <2>3 DEF Verdict
  <2>5. Events' = Events
    BY <2>2, <2>3 DEF Events, CredentialEvents
  <2>6. job'.phase = "act" => Len(Events) >= 1 /\ Len(Events) \in Nat /\ Events[1] \notin Unchecked
    <3>1. ASSUME job'.phase = "act" PROVE Placed
      BY <1>1, <1>2, <2>1, <3>1, InPlace
    <3>2. Placed => Len(Events) >= 1 /\ Len(Events) \in Nat /\ 1 \in 1 .. Len(Events)
      BY EventsType
    <3>3. Placed => EventAt(1)
      BY <3>2, EventsType
    <3> QED BY <3>1, <3>2, <3>3 DEF EventAt
  <2>13. Preceded'
    BY <2>1, <2>5, <2>6 DEF Preceded
  <2>7. Position'
    <3>1. job'.at <= Len(job'.cmd.refs) + 1 /\ job'.at # 0
      BY <1>1, <1>2, <2>1 DEF Inv, Position
    <3>2. job'.token.epoch = page'.epoch
      BY <1>1, <1>3, <2>1 DEF Inv, Position
    <3>3. Submitting' => job'.cmd.submit \in Refs
      BY <1>1, <2>1, <2>2 DEF Inv, Position
    <3>4. DOMAIN job'.token.label = Targets'
      BY <1>1, <2>1, <2>3 DEF Inv, Position
    <3>5. job'.phase = "act" => job'.ev <= Len(Events')
      BY <2>1, <2>5, <2>6
    <3>6. job'.phase # "pause" /\ job'.ev = 1 /\ job'.cmd.action # "hover"
      BY <1>2, <2>1
    <3> QED BY <3>1, <3>2, <3>3, <3>4, <3>5, <3>6 DEF Position
  <2>8. Accepted'
    BY <1>1, <2>1, <2>2 DEF Inv, Accepted
  <2>9. Cleared'
    BY <1>3, <2>4 DEF Cleared
  <2>10. BatchPrint'
    <3>1. CASE job.at = 0
      <4>1. IsBatch /\ ~ IsCredential /\ ~ Submitting
        BY <1>1, <1>2, <3>1 DEF Inv, Position, IsBatch, IsCredential, Submitting
      <4>2. job.approved => Fingerprint(Acting, job.token) = job.print
        BY <1>2, <1>3, <4>1, VerdictAllows
      <4>3. Acting = "fill_form"
        BY <4>1 DEF Acting, IsBatch
      <4>4. Fingerprint("fill_form", job.token).action = "fill_form"
        BY DEF Fingerprint
      <4> QED BY <2>1, <4>2, <4>3, <4>4 DEF BatchPrint
    <3>2. CASE job.at # 0
      BY <1>1, <1>2, <2>1, <2>2, <3>2 DEF Inv, BatchPrint
    <3> QED BY <3>1, <3>2
  <2>11. Progress'
    <3>1. \A i : Written(i)' = Written(i)
      BY <1>1, <1>3 DEF Written
    <3>2. /\ Len(job.done) <= Len(job.cmd.refs)
          /\ \A i \in 1 .. Len(job.done) : job.done[i] = job.cmd.refs[i] /\ Written(i)
          /\ \A d \in acts : d.event = "write" /\ d.epoch = page.epoch => d.at <= job.at
          /\ Len(job.done) = IF job.at = 0 THEN 0 ELSE job.at - 1
      BY <1>1 DEF Inv, Progress
    <3>3. \A d \in acts : d.at \in Nat
      BY DEF Inv, Types, Deeds
    <3>4. \A d \in acts' : d.event = "write" /\ d.epoch = page'.epoch => d.at <= job'.at
      BY <1>1, <1>2, <1>3, <2>1, <3>2, <3>3
    <3>5. Len(job'.done) = job'.at - 1 /\ job'.at <= Len(job'.done) + 1 /\ job'.at # 0
      BY <1>2, <2>1, <3>2
    <3>6. job'.phase \notin {"sent", "pause"}
      BY <2>1
    <3> QED BY <2>1, <3>1, <3>2, <3>4, <3>5, <3>6 DEF Progress
  <2>12. job'.phase # "none" /\ job'.phase \notin {"sent", "lost"}
    BY <2>1
  <2> QED BY <1>1, <1>3, <2>1, <2>7, <2>8, <2>9, <2>10, <2>11, <2>12, <2>13, MoveStep
<1>4. ASSUME NEW code \in Codes, page' = page, Answer(code, Partial)
      PROVE  Inv'
  BY <1>1, <1>4, PartialType, PlainAnswer
<1>5. ASSUME Verdict = "approval_required",
             NEW print, print = Fingerprint(Acting, job.token),
             page' = Remember(page, print),
             ApprovalAsked([cmd |-> job.cmd, print |-> print]),
             Reports("approval_required", Partial)
      PROVE  Inv'
  <2>1. Acting \in Actions /\ job.token \in Tokens /\ job.token.epoch = page.epoch
    BY <1>1, <1>2, JobFields, ActionType DEF Inv, Position, Acting, Actions
  <2>2. print \in Prints
    BY <1>5, <2>1, FingerprintType
  <2>3. page' \in Document /\ page'.epoch = page.epoch /\ Bindings'
    BY <1>5, <2>1, <2>2, RememberType
  <2>4. ~ IsCredential
    BY <1>5 DEF Verdict
  <2> DEFINE o == [cmd |-> job.cmd, print |-> print]
  <2>8. o \in Offer /\ Askable(o.cmd)
    BY <1>2, <2>2, <2>4 DEF Offer, Askable, IsCredential
  <2> HIDE DEF o
  <2>9. /\ offers' \subseteq offers \cup {o} /\ granted' \subseteq granted \cup {o}
        /\ confirmed' \subseteq confirmed /\ UNCHANGED <<prepared, jobs>>
    BY <1>5 DEF ApprovalAsked, o
  <2>5. offers' \subseteq Offer /\ confirmed' \subseteq Offer /\ granted' \subseteq Offer
    BY <2>8, <2>9 DEF Inv, Types
  <2>6. Offers'
    BY <2>8, <2>9 DEF Inv, Offers
  <2>7. "approval_required" \in Codes
    BY DEF Codes
  <2> QED BY <1>1, <1>5, <2>3, <2>5, <2>6, <2>7, <2>9, PartialType, AnswerStep
<1>6. /\ "context_changed" \in Codes /\ "approval_context_changed" \in Codes
      /\ "approval_no_longer_required" \in Codes
  BY DEF Codes
<1>7. \/ /\ Verdict = "allow" /\ page' = page
         /\ job' = IF job.at = 0 THEN [job EXCEPT !.at = 1] ELSE [job EXCEPT !.phase = "act"]
         /\ UNCHANGED <<reply, offers, confirmed, granted, prepared, jobs>>
      \/ \E code \in Codes : page' = page /\ Answer(code, Partial)
      \/ \E print :
            /\ Verdict = "approval_required" /\ print = Fingerprint(Acting, job.token)
            /\ page' = Remember(page, print)
            /\ ApprovalAsked([cmd |-> job.cmd, print |-> print])
            /\ Reports("approval_required", Partial)
  BY <1>6 DEF Guarded, Keep
<1> QED BY <1>3, <1>4, <1>5, <1>7

-----------------------------------------------------------------------------
\* From one character to the next, and from one field to the next.

LEMMA ResumesKeeps == Inv /\ Resumes => Inv'
<1> SUFFICES ASSUME Inv, Resumes PROVE Inv'
  OBVIOUS
<1>1. /\ page \in Document /\ job \in Job /\ job.phase = "pause" /\ job.ev <= Len(Events)
      /\ page' = page /\ job' = [job EXCEPT !.phase = "act"]
      /\ UNCHANGED <<acts, reply, offers, confirmed, granted, prepared, changes, jobs>>
  BY DEF Inv, Types, Resumes, Keep
<1>2. /\ job' \in Job /\ job'.phase = "act" /\ job'.cmd = job.cmd /\ job'.at = job.at
      /\ job'.ev = job.ev /\ job'.token = job.token /\ job'.done = job.done
      /\ job'.approved = job.approved /\ job'.revalidate = job.revalidate
      /\ job'.print = job.print /\ job'.bound = job.bound
  <2>1. "act" \in Phases
    BY DEF Phases
  <2> QED BY <1>1, <2>1 DEF Job
<1>3. Submitting' = Submitting /\ IsBatch' = IsBatch /\ IsCredential' = IsCredential
  BY <1>2 DEF Submitting, IsBatch, IsCredential
<1>4. Acting' = Acting /\ Targets' = Targets
  BY <1>2, <1>3 DEF Acting, Targets
<1>5. Verdict' = Verdict
  BY <1>2, <1>3, <1>4 DEF Verdict
<1>6. Events' = Events
  BY <1>3, <1>4 DEF Events, CredentialEvents
<1>7. Position'
  BY <1>1, <1>2, <1>3, <1>4, <1>6 DEF Inv, Position, Answering, Filling
<1>8. Accepted' /\ BatchPrint'
  BY <1>1, <1>2, <1>3 DEF Inv, Accepted, BatchPrint, Filling
<1>9. Cleared'
  BY <1>1, <1>2, <1>5 DEF Inv, Cleared
<1>12. Preceded'
  <2>1. /\ ~ Submitting /\ job.cmd.action \in Texts \cup {"credential_apply"}
        /\ job.at # 0 /\ job.ev >= 1
    BY <1>1 DEF Inv, Position, Filling
  <2>2. job.at \in Nat /\ job.ev \in Nat
    BY <1>1, JobFields
  <2>3. Placed
    BY <1>1, <2>1, <2>2, InPlace DEF Filling
  <2>4. job.ev \in 1 .. Len(Events)
    BY <1>1, <2>1, <2>2, <2>3, EventsType
  <2>5. EventAt(job.ev)
    BY <2>3, <2>4, EventsType
  <2>6. Events[job.ev] \notin Unchecked
    BY <2>1, <2>5 DEF EventAt, Texts
  <2> QED BY <1>2, <1>6, <2>6 DEF Preceded
<1>10. \A i : Written(i)' = Written(i)
  BY <1>1 DEF Written
<1>11. Progress'
  BY <1>1, <1>2, <1>10 DEF Inv, Progress, Answering, Filling
<1> QED BY <1>1, <1>2, <1>7, <1>8, <1>9, <1>11, <1>12, MoveStep

\* A field that is complete counts as done.
LEMMA FieldDone ==
    ASSUME Inv, job.phase = "pause", job.ev > Len(Events),
           NEW done, done = Append(job.done, job.cmd.refs[job.at])
    PROVE  /\ page \in Document /\ job \in Job /\ job.cmd \in Commands
           /\ job.cmd.refs \in Seq(Refs) /\ Len(job.cmd.refs) \in Nat
           /\ job.at \in 1 .. Len(job.cmd.refs) /\ ~ Submitting
           /\ done \in Seq(Refs) /\ Len(done) = job.at
           /\ \A i \in 1 .. job.at : done[i] = job.cmd.refs[i] /\ Written(i)
           /\ \A d \in acts : d.event = "write" /\ d.epoch = page.epoch => d.at <= job.at
           /\ \A d \in acts : d.at \in Nat
<1>1. page \in Document /\ job \in Job /\ acts \subseteq Deeds
  BY DEF Inv, Types
<1>2. job.cmd \in Commands /\ job.at \in Nat /\ job.done \in Seq(Refs)
  BY <1>1, JobFields DEF Inv, Asked
<1>3. /\ job.cmd.refs \in Seq(Refs) /\ Len(job.cmd.refs) \in Nat
      /\ \A i \in 1 .. Len(job.cmd.refs) : job.cmd.refs[i] \in Refs
  BY <1>2, ActionType
<1>4. ~ Submitting /\ job.at # 0
  BY DEF Inv, Position, Filling
<1>5. job.at \in 1 .. Len(job.cmd.refs)
  BY <1>2, <1>3, <1>4 DEF Submitting
<1>6. /\ Len(job.done) = job.at - 1
      /\ \A i \in 1 .. Len(job.done) : job.done[i] = job.cmd.refs[i] /\ Written(i)
      /\ \A d \in acts : d.event = "write" /\ d.epoch = page.epoch => d.at <= job.at
      /\ Written(job.at)
  BY <1>4 DEF Inv, Progress, Answering, Filling
<1>7. job.cmd.refs[job.at] \in Refs
  BY <1>3, <1>5
<1>8. done \in Seq(Refs) /\ Len(done) = job.at
  BY <1>2, <1>6, <1>7
<1>9. /\ done[job.at] = job.cmd.refs[job.at]
      /\ \A i \in 1 .. job.at - 1 : done[i] = job.done[i]
  BY <1>2, <1>5, <1>6, <1>7
<1>10. ASSUME NEW i \in 1 .. job.at
       PROVE  done[i] = job.cmd.refs[i] /\ Written(i)
  <2>1. i = job.at \/ i \in 1 .. job.at - 1
    BY <1>5
  <2>2. CASE i = job.at
    BY <1>6, <1>9, <2>2
  <2>3. CASE i \in 1 .. job.at - 1
    BY <1>6, <1>9, <2>3
  <2> QED BY <2>1, <2>2, <2>3
<1>11. \A d \in acts : d.at \in Nat
  BY <1>1 DEF Deeds
<1> QED BY <1>1, <1>2, <1>3, <1>4, <1>5, <1>6, <1>8, <1>10, <1>11

\* The guard again, for the next field or for the submit.
LEMMA CompletedStep ==
    ASSUME Inv, job.phase = "pause", job.ev > Len(Events),
           NEW token \in Tokens, token.epoch = page.epoch,
           job' = [Completed EXCEPT !.phase = "guard", !.token = token],
           Submitting' => job.cmd.submit \in Refs,
           DOMAIN token.label = Targets',
           IsCredential \/ ~ Submitting' => token = job.token,
           UNCHANGED <<page, acts, reply, offers, confirmed, granted, prepared, changes, jobs>>
    PROVE  Inv'
<1> DEFINE done == Append(job.done, job.cmd.refs[job.at])
<1>1. /\ page \in Document /\ job \in Job /\ job.cmd \in Commands
      /\ job.cmd.refs \in Seq(Refs) /\ Len(job.cmd.refs) \in Nat
      /\ job.at \in 1 .. Len(job.cmd.refs) /\ ~ Submitting
      /\ done \in Seq(Refs) /\ Len(done) = job.at
      /\ \A i \in 1 .. job.at : done[i] = job.cmd.refs[i] /\ Written(i)
      /\ \A d \in acts : d.event = "write" /\ d.epoch = page.epoch => d.at <= job.at
      /\ \A d \in acts : d.at \in Nat
  BY FieldDone
<1>2. job' = [[job EXCEPT !.done = done, !.at = job.at + 1, !.ev = 1]
                  EXCEPT !.phase = "guard", !.token = token]
  BY DEF Completed
<1> HIDE DEF done
<1>3. /\ job' \in Job /\ job'.phase = "guard" /\ job'.cmd = job.cmd /\ job'.at = job.at + 1
      /\ job'.ev = 1 /\ job'.token = token /\ job'.done = done
      /\ job'.approved = job.approved /\ job'.revalidate = job.revalidate
      /\ job'.print = job.print /\ job'.bound = job.bound
  <2>1. "guard" \in Phases /\ job.at + 1 \in Nat /\ 1 \in Nat
    BY <1>1 DEF Phases
  <2>2. job' \in Job
    BY <1>1, <1>2, <2>1 DEF Job
  <2> QED BY <1>1, <1>2, <2>2 DEF Job
<1>4. IsBatch' = IsBatch /\ IsCredential' = IsCredential
  BY <1>3 DEF IsBatch, IsCredential
<1>5. Position'
  <2>1. job'.at <= Len(job'.cmd.refs) + 1 /\ job'.at # 0
    BY <1>1, <1>3
  <2>2. job'.token.epoch = page'.epoch /\ DOMAIN job'.token.label = Targets'
    BY <1>3
  <2>3. Submitting' => job'.cmd.submit \in Refs
    BY <1>3
  <2>4. job'.cmd.action # "hover"
    BY <1>3 DEF Inv, Position, Texts
  <2> QED BY <1>3, <2>1, <2>2, <2>3, <2>4 DEF Position
<1>6. Accepted'
  <2>1. IsCredential => token = job.bound
    BY DEF Inv, Accepted, Filling
  <2>2. CASE IsCredential \/ ~ Submitting'
    BY <1>1, <1>3, <1>4, <2>1, <2>2 DEF Inv, Accepted, Filling
  <2>3. CASE ~ IsCredential /\ Submitting'
    BY <1>4, <2>3 DEF Accepted
  <2> QED BY <2>2, <2>3
<1>7. Cleared' /\ Preceded'
  BY <1>3 DEF Cleared, Preceded
<1>8. BatchPrint'
  BY <1>1, <1>3, <1>4 DEF Inv, BatchPrint, Filling
<1>9. Progress'
  <2>1. \A i : Written(i)' = Written(i)
    BY DEF Written
  <2>2. \A d \in acts : d.event = "write" /\ d.epoch = page.epoch => d.at <= job'.at
    BY <1>1, <1>3
  <2>3. /\ Len(job'.done) <= Len(job'.cmd.refs) /\ job'.at <= Len(job'.done) + 1
        /\ Len(job'.done) = job'.at - 1 /\ job'.at # 0
    BY <1>1, <1>3
  <2>4. \A i \in 1 .. Len(job'.done) : job'.done[i] = job'.cmd.refs[i] /\ Written(i)'
    BY <1>1, <1>3, <2>1
  <2> QED BY <1>3, <2>2, <2>3, <2>4 DEF Progress
<1> QED BY <1>1, <1>3, <1>5, <1>6, <1>7, <1>8, <1>9, MoveStep

LEMMA NextFieldKeeps == Inv /\ NextField => Inv'
<1> SUFFICES ASSUME Inv, NextField PROVE Inv'
  OBVIOUS
<1>1. /\ job.phase = "pause" /\ job.ev > Len(Events) /\ job.at < FieldCount
      /\ job' = [Completed EXCEPT !.phase = "guard"]
      /\ UNCHANGED <<page, acts, reply, offers, confirmed, granted, prepared, changes, jobs>>
  BY DEF NextField, Keep
<1>2. /\ job \in Job /\ job.at \in 1 .. Len(job.cmd.refs) /\ ~ Submitting
      /\ Len(job.cmd.refs) \in Nat
  BY <1>1, FieldDone
<1>3. Completed.token = job.token /\ Completed.cmd = job.cmd /\ Completed.at = job.at + 1
      /\ job' = [Completed EXCEPT !.phase = "guard", !.token = job.token]
  BY <1>1, <1>2 DEF Completed, Job
<1>4. job'.cmd = job.cmd /\ job'.at = job.at + 1
  BY <1>1, <1>2, <1>3 DEF Completed, Job
<1>5. ~ Submitting'
  BY <1>1, <1>2, <1>4 DEF Submitting, FieldCount
<1>6. Targets' = Targets
  BY <1>2, <1>4, <1>5 DEF Targets
<1>7. job.token \in Tokens /\ job.token.epoch = page.epoch /\ DOMAIN job.token.label = Targets
  BY <1>1, <1>2, JobFields DEF Inv, Position, Answering, Filling
<1> QED BY <1>1, <1>3, <1>5, <1>6, <1>7, CompletedStep

LEMMA LastFieldKeeps == Inv /\ LastField => Inv'
<1> SUFFICES ASSUME Inv, LastField PROVE Inv'
  OBVIOUS
<1> DEFINE done == Append(job.done, job.cmd.refs[job.at])
<1>1. job.phase = "pause" /\ job.ev > Len(Events) /\ job.at = FieldCount
  BY DEF LastField
<1>2. /\ page \in Document /\ job \in Job /\ job.cmd \in Commands
      /\ job.cmd.refs \in Seq(Refs) /\ Len(job.cmd.refs) \in Nat
      /\ job.at \in 1 .. Len(job.cmd.refs) /\ ~ Submitting
      /\ done \in Seq(Refs) /\ Len(done) = job.at
      /\ \A i \in 1 .. job.at : done[i] = job.cmd.refs[i] /\ Written(i)
      /\ \A d \in acts : d.event = "write" /\ d.epoch = page.epoch => d.at <= job.at
  BY <1>1, FieldDone
<1>3. job.token \in Tokens /\ job.token.epoch = page.epoch /\ DOMAIN job.token.label = Targets
  BY <1>1, <1>2, JobFields DEF Inv, Position, Answering, Filling
<1>4. CASE job.cmd.submit = NoRef
  <2>1. /\ job' = [job EXCEPT !.done = done, !.phase = "reply"]
        /\ UNCHANGED <<page, acts, reply, offers, confirmed, granted, prepared, changes, jobs>>
    BY <1>4 DEF LastField, Keep
  <2> HIDE DEF done
  <2>2. /\ job' \in Job /\ job'.phase = "reply" /\ job'.cmd = job.cmd /\ job'.at = job.at
        /\ job'.ev = job.ev /\ job'.token = job.token /\ job'.done = done
        /\ job'.approved = job.approved /\ job'.revalidate = job.revalidate
        /\ job'.print = job.print /\ job'.bound = job.bound
    <3>1. "reply" \in Phases
      BY DEF Phases
    <3>2. job' \in Job
      BY <1>2, <2>1, <3>1 DEF Job
    <3> QED BY <1>2, <2>1, <3>2 DEF Job
  <2>3. Position'
    <3>1. job'.at <= Len(job'.cmd.refs) + 1 /\ job'.token.epoch = page'.epoch
      BY <1>2, <1>3, <2>1, <2>2
    <3> QED BY <2>2, <3>1 DEF Position, Filling
  <2>4. Accepted' /\ Cleared' /\ Preceded' /\ BatchPrint'
    BY <2>2 DEF Accepted, Cleared, Preceded, BatchPrint, Filling
  <2>5. Progress'
    <3>1. \A i : Written(i)' = Written(i)
      BY <2>1 DEF Written
    <3>2. Len(job'.done) <= Len(job'.cmd.refs) /\ job'.at <= Len(job'.done) + 1
      BY <1>2, <2>2
    <3>3. \A i \in 1 .. Len(job'.done) : job'.done[i] = job'.cmd.refs[i] /\ Written(i)'
      BY <1>2, <2>2, <3>1
    <3>4. \A d \in acts' : d.event = "write" /\ d.epoch = page'.epoch => d.at <= job'.at
      BY <1>2, <2>1, <2>2
    <3> QED BY <2>2, <3>2, <3>3, <3>4 DEF Progress, Filling
  <2>6. page' \in Document /\ job.phase # "none"
    BY <1>1, <1>2, <2>1
  <2> QED BY <2>1, <2>2, <2>3, <2>4, <2>5, <2>6, MoveStep
<1>5. CASE job.cmd.submit # NoRef /\ IsCredential
  <2>1. /\ job' = [Completed EXCEPT !.phase = "guard"]
        /\ UNCHANGED <<page, acts, reply, offers, confirmed, granted, prepared, changes, jobs>>
    BY <1>5 DEF LastField, Keep
  <2>2. job' = [Completed EXCEPT !.phase = "guard", !.token = job.token] /\ job'.cmd = job.cmd
    BY <1>2, <2>1 DEF Completed, Job
  <2>3. IsCredential'
    BY <1>5, <2>2 DEF IsCredential
  <2>4. Targets' = Targets
    BY <1>2, <1>5, <2>2, <2>3 DEF Targets
  <2>5. job.cmd.submit \in Refs
    BY <1>2, <1>5, ActionType
  <2> QED BY <1>1, <1>3, <2>1, <2>2, <2>4, <2>5, CompletedStep
<1>6. CASE job.cmd.submit # NoRef /\ ~ IsCredential /\ Resolves(page, job.cmd, job.cmd.submit)
  <2> DEFINE token == RiskMaterial(page, {job.cmd.submit})
  <2>1. /\ job' = [Completed EXCEPT !.phase = "guard", !.token = token]
        /\ UNCHANGED <<page, acts, reply, offers, confirmed, granted, prepared, changes, jobs>>
    BY <1>6 DEF LastField, Keep
  <2>2. job.cmd.submit \in Refs
    BY <1>2, <1>6, ActionType
  <2>3. token = Material(page, job.cmd, {job.cmd.submit})
    BY <1>6 DEF Material, IsCredential
  <2> HIDE DEF token
  <2>4. /\ token \in Tokens /\ token.epoch = page.epoch
        /\ DOMAIN token.label = {job.cmd.submit}
    <3>1. {job.cmd.submit} \in SUBSET Refs
      BY <2>2
    <3>2. ASSUME NEW S \in SUBSET Refs, S = {job.cmd.submit}
          PROVE  token \in Tokens /\ token.epoch = page.epoch /\ DOMAIN token.label = S
      <4>1. token = Material(page, job.cmd, S)
        BY <2>3, <3>2
      <4>2. /\ token \in Tokens /\ token.epoch = page.epoch
            /\ token.label = [r \in S |-> page.label[r]]
        BY <1>2, <4>1, MaterialType
      <4> QED BY <4>2
    <3> QED BY <3>1, <3>2
  <2>5. job'.cmd = job.cmd /\ job'.at = job.at + 1
    BY <1>2, <2>1 DEF Completed, Job
  <2>6. Submitting' /\ ~ IsCredential'
    BY <1>1, <1>2, <1>6, <2>5 DEF Submitting, IsCredential, FieldCount
  <2>7. Targets' = {job.cmd.submit}
    BY <2>5, <2>6 DEF Targets
  <2> QED BY <1>1, <1>6, <2>1, <2>2, <2>4, <2>6, <2>7, CompletedStep
<1>7. CASE job.cmd.submit # NoRef /\ ~ IsCredential /\ ~ Resolves(page, job.cmd, job.cmd.submit)
  <2>1. Refuse
    BY <1>7 DEF LastField
  <2> QED BY <1>1, <2>1, RefuseKeeps
<1> QED BY <1>4, <1>5, <1>6, <1>7

-----------------------------------------------------------------------------
\* The events.

\* What a decisive event may be: the page shows of its target what the guard
\* judged, in the document it judged.
LEMMA DeedAllowed ==
    ASSUME Inv, job.phase = "act", Checked, Events[job.ev] \in Decisive,
           NEW d, d = Deed(Events[job.ev])
    PROVE  /\ d \in Deeds /\ d.event = Events[job.ev] /\ d.at = job.at /\ d.at # 0
           /\ d.epoch = page.epoch /\ d.whole = (job.ev = Len(Events))
           /\ ~ job.revalidate
           /\ job.approved => ~ IsCredential /\ job.print.epoch = page.epoch
           /\ IsCredential => job.bound.epoch = page.epoch
           /\ d.ref = Target
           /\ ~ IsCredential /\ d.event \notin Unchecked /\ Risky(Acting, d.label)
                 => job.approved /\ job.print = d.print /\ d.print.action = Acting
           /\ d.event = "write" => ~ Submitting
           /\ d.event \in {"act", "enter"} => d.label # "card"
           /\ d.event = "write" /\ ~ IsCredential => ~ Sensitive(d.label)
           /\ d.event = "write" /\ IsCredential =>
                 d.label = IF d.at = 1 THEN "plain" ELSE "password"
           /\ d.event = "submit" => \A i \in Fields : Written(i)
<1>1. /\ page \in Document /\ job \in Job /\ job.phase # "none" /\ job.phase \in Filling
      /\ job.phase \in Answering
  BY DEF Inv, Types, Filling, Answering
<1>2. job.cmd \in Commands /\ job.at \in Nat /\ job.ev \in Nat /\ job.token \in Tokens
      /\ job.approved \in BOOLEAN /\ job.revalidate \in BOOLEAN
  BY <1>1, JobFields DEF Inv, Asked
<1>3. /\ job.at >= 1 /\ job.ev \in 1 .. Len(Events) /\ DOMAIN job.token.label = Targets
      /\ job.token.epoch = page.epoch
  <2>1. job.at # 0 /\ job.ev >= 1 /\ job.ev <= Len(Events)
    BY <1>1 DEF Inv, Position
  <2>2. DOMAIN job.token.label = Targets /\ job.token.epoch = page.epoch
    BY <1>1 DEF Inv, Position
  <2>3. job.at >= 1
    BY <1>2, <2>1
  <2>4. Len(Events) \in Nat
    BY <1>1, <2>3, InPlace, EventsType
  <2> QED BY <1>2, <2>1, <2>2, <2>3, <2>4
<1>4. Placed
  BY <1>1, <1>3, InPlace
<1>5. /\ Target \in Refs /\ Targets \in SUBSET Refs
      /\ (Submitting /\ IsCredential) \/ Target \in Targets
      /\ Acting \in Actions /\ (~ Submitting => job.at \in Fields)
  BY <1>4, TargetType
<1>6. /\ Events[job.ev] = "write" => ~ Submitting /\ job.cmd.action \in Texts \cup {"credential_apply"}
      /\ Events[job.ev] = "submit" => Submitting /\ IsCredential
      /\ job.cmd.action # "hover"
      /\ Events[job.ev] \in {"act", "enter"} => ~ Submitting /\ job.cmd.action \in Presses
  <2>1. EventAt(job.ev)
    BY <1>3, <1>4, EventsType
  <2> QED BY <2>1 DEF EventAt
<1> DEFINE shown == Material(page, job.cmd, Targets)
<1>7. Events[job.ev] \notin Unchecked => shown = job.token
  BY <1>6 DEF Checked, Unchanged
<1>20. shown \in Tokens /\ shown.epoch = page.epoch
       /\ shown.label = [r \in Targets |-> page.label[r]]
  BY <1>1, <1>5, MaterialType
<1> HIDE DEF shown
<1>8. ASSUME Events[job.ev] \notin Unchecked
      PROVE  \A r \in Targets : job.token.label[r] = page.label[r]
  BY <1>7, <1>8, <1>20
<1>9. Verdict = "allow"
  BY <1>6 DEF Inv, Cleared
<1> DEFINE judged == Fingerprint(Acting, job.token)
           print == Fingerprint(Acting, shown)
<1>10. /\ print \in Prints /\ print.epoch = page.epoch /\ print.action = Acting
       /\ judged.epoch = page.epoch
       /\ Events[job.ev] \notin Unchecked => print = judged
  BY <1>2, <1>3, <1>5, <1>7, <1>20, FingerprintType
<1>11. d = [event |-> Events[job.ev], at |-> job.at, ref |-> Target, epoch |-> page.epoch,
            label |-> page.label[Target], print |-> print, whole |-> job.ev = Len(Events)]
  <2>1. Target # NoRef
    BY <1>5, ConstantsAssumption
  <2> QED BY <2>1 DEF Deed, shown
<1> HIDE DEF print, judged
<1>12. d \in Deeds /\ d.event = Events[job.ev] /\ d.at = job.at /\ d.at # 0
       /\ d.epoch = page.epoch /\ d.whole = (job.ev = Len(Events))
       /\ d.print = print /\ d.label = page.label[Target] /\ d.ref = Target
  <2>1. page.epoch \in Nat /\ page.label[Target] \in Labels
    BY <1>1, <1>5, PageFields
  <2>2. (job.ev = Len(Events)) \in BOOLEAN
    OBVIOUS
  <2>3. d \in Deeds
    BY <1>2, <1>5, <1>10, <1>11, <2>1, <2>2 DEF Deeds
  <2> QED BY <1>3, <1>11, <2>3
<1>13. ~ job.revalidate /\ (job.approved => ~ IsCredential)
  <2>1. job.approved \/ job.revalidate => ~ IsCredential
    BY DEF Inv, Asked, Askable, IsCredential
  <2> QED BY <1>2, <1>9, <2>1, VerdictAllows
<1>14. ~ IsCredential /\ job.approved => job.print = judged
  BY <1>2, <1>9, VerdictAllows DEF judged
<1>15. ASSUME ~ IsCredential, d.event \notin Unchecked, Risky(Acting, d.label)
       PROVE  job.approved /\ job.print = d.print /\ d.print.action = Acting
  <2>1. Target \in DOMAIN job.token.label /\ job.token.label[Target] = d.label
    BY <1>3, <1>5, <1>8, <1>12, <1>15
  <2>2. HasRisk(Acting, job.token)
    BY <1>15, <2>1 DEF HasRisk
  <2>3. job.approved
    BY <1>2, <1>9, <1>15, <2>2, VerdictAllows
  <2> QED BY <1>10, <1>12, <1>14, <1>15, <2>3
<1>19. ASSUME d.event \in {"act", "enter"}
       PROVE  d.label # "card"
  <2>1. ~ Submitting /\ job.cmd.action \in Presses /\ Events[job.ev] \notin Unchecked
    BY <1>6, <1>12, <1>19 DEF Unchecked
  <2>2. Target = job.cmd.refs[job.at] /\ job.at \in DOMAIN job.cmd.refs
    BY <1>5, <2>1 DEF Target, Fields
  <2>3. d.label = job.token.label[job.cmd.refs[job.at]]
    BY <1>5, <1>8, <1>12, <2>1, <2>2
  <2>4. ~ PressRefused(job.cmd.action, d.label)
    BY <1>1, <2>1, <2>2, <2>3 DEF Inv, Accepted
  <2> QED BY <2>1, <2>4 DEF PressRefused
<1>16. IsCredential => job.token = job.bound
  BY <1>1 DEF Inv, Accepted
<1>17. ASSUME d.event = "write"
       PROVE  /\ ~ Submitting
              /\ ~ IsCredential => ~ Sensitive(d.label)
              /\ IsCredential => d.label = IF d.at = 1 THEN "plain" ELSE "password"
  <2>1. ~ Submitting /\ job.cmd.action \in Texts \cup {"credential_apply"}
        /\ Events[job.ev] \notin Unchecked
    BY <1>6, <1>12, <1>17 DEF Unchecked
  <2>2. Target = job.cmd.refs[job.at] /\ job.at \in DOMAIN job.cmd.refs
    BY <1>5, <2>1 DEF Target, Fields
  <2>3. d.label = job.token.label[job.cmd.refs[job.at]]
    BY <1>5, <1>8, <1>12, <2>1, <2>2
  <2>4. /\ ~ OrdinaryRefused(job.cmd.action, d.label)
        /\ ~ CredentialRefused(job.cmd, job.at, d.label)
    BY <1>1, <2>1, <2>2, <2>3 DEF Inv, Accepted
  <2> QED BY <1>12, <2>1, <2>4 DEF OrdinaryRefused, CredentialRefused, IsCredential
<1>18. ASSUME d.event = "submit"
       PROVE  \A i \in Fields : Written(i)
  <2>1. Submitting
    BY <1>6, <1>12, <1>18
  <2>2. /\ Len(job.done) = job.at - 1 /\ Len(job.done) <= Len(job.cmd.refs)
        /\ \A i \in 1 .. Len(job.done) : Written(i)
    BY <1>1, <1>3 DEF Inv, Progress
  <2>3. job.cmd.refs \in Seq(Refs) /\ Len(job.cmd.refs) \in Nat
    BY <1>2, ActionType
  <2>4. Len(job.done) = Len(job.cmd.refs)
    BY <1>2, <2>1, <2>2, <2>3 DEF Submitting
  <2> QED BY <2>2, <2>3, <2>4 DEF Fields
<1> QED BY <1>3, <1>10, <1>12, <1>13, <1>14, <1>15, <1>16, <1>17, <1>18, <1>19

LEMMA DispatchesKeeps == Inv /\ Dispatches => Inv'
<1> SUFFICES ASSUME Inv, Dispatches PROVE Inv'
  OBVIOUS
<1> DEFINE event == Events[job.ev]
           d == Deed(event)
           phase == IF event = "write" THEN "pause"
                    ELSE IF job.ev = Len(Events) THEN "reply" ELSE "act"
<1>1. /\ page \in Document /\ job \in Job /\ acts \subseteq Deeds
      /\ job.phase = "act" /\ job.phase # "none" /\ job.phase \in Filling
      /\ job.phase \in Answering /\ Checked
  BY DEF Inv, Types, Dispatches, Filling, Answering
<1>2. /\ job' = [job EXCEPT !.ev = job.ev + 1, !.phase = phase]
      /\ acts' = IF event \in Decisive THEN acts \cup {d} ELSE acts
      /\ UNCHANGED <<reply, offers, confirmed, granted, prepared, jobs>>
  BY DEF Dispatches, Keep
<1>3. event \in Decisive =>
           /\ d \in Deeds /\ d.event = event /\ d.at = job.at /\ d.at # 0
           /\ d.epoch = page.epoch /\ d.whole = (job.ev = Len(Events))
           /\ ~ job.revalidate
           /\ job.approved => ~ IsCredential /\ job.print.epoch = page.epoch
           /\ IsCredential => job.bound.epoch = page.epoch
           /\ d.ref = Target
           /\ ~ IsCredential /\ d.event \notin Unchecked /\ Risky(Acting, d.label)
                 => job.approved /\ job.print = d.print /\ d.print.action = Acting
           /\ d.event = "write" => ~ Submitting
           /\ d.event \in {"act", "enter"} => d.label # "card"
           /\ d.event = "write" /\ ~ IsCredential => ~ Sensitive(d.label)
           /\ d.event = "write" /\ IsCredential =>
                 d.label = IF d.at = 1 THEN "plain" ELSE "password"
           /\ d.event = "submit" => \A i \in Fields : Written(i)
  BY <1>1, DeedAllowed
<1>4. job.cmd \in Commands /\ job.at \in Nat /\ job.ev \in Nat /\ job.at >= 1
      /\ job.ev >= 1 /\ job.ev <= Len(Events)
  BY <1>1, JobFields DEF Inv, Asked, Position
<1>5. Placed
  BY <1>1, <1>4, InPlace
<1>6. /\ Len(Events) \in Nat /\ job.ev \in 1 .. Len(Events)
      /\ event = "write" => ~ Submitting /\ job.cmd.action \in Texts \cup {"credential_apply"}
      /\ event = "click" => Acting \in {"click", "click_at"}
      /\ event \in Decisive /\ Acting = "click" => event = "click"
      /\ event = "submit" => Submitting /\ IsCredential
      /\ job.ev + 1 <= Len(Events) /\ Events[job.ev + 1] \in Unchecked => event \in LastChecked
  <2>1. Len(Events) \in Nat
    BY <1>5, EventsType
  <2>2. job.ev \in 1 .. Len(Events)
    BY <1>4, <2>1
  <2>3. EventAt(job.ev)
    BY <1>5, <2>2, EventsType
  <2>4. ASSUME job.ev + 1 <= Len(Events), Events[job.ev + 1] \in Unchecked
        PROVE  event \in LastChecked
    <3> DEFINE next == job.ev + 1
    <3>1. next \in 1 .. Len(Events) /\ next - 1 = job.ev /\ Events[next] \in Unchecked
      BY <2>1, <2>2, <2>4
    <3> HIDE DEF next
    <3>2. EventAt(next)
      BY <1>5, <3>1, EventsType
    <3>3. Events[next - 1] \in LastChecked
      BY <3>1, <3>2 DEF EventAt
    <3> QED BY <3>1, <3>3
  <2>5. /\ event = "write" => ~ Submitting /\ job.cmd.action \in Texts \cup {"credential_apply"}
        /\ event = "click" => Acting \in {"click", "click_at"}
        /\ event \in Decisive /\ Acting = "click" => event = "click"
        /\ event = "submit" => Submitting /\ IsCredential
    BY <2>3 DEF EventAt
  <2> QED BY <2>1, <2>2, <2>4, <2>5
<1> HIDE DEF event, d
<1>7. /\ page' \in Document /\ page'.epoch = page.epoch /\ page'.bindings = page.bindings
      /\ changes' \in 0 .. MaxChanges
  <2>1. \/ page' = page /\ changes' = changes
        \/ page' \in Changed(page) /\ changes < MaxChanges /\ changes' = changes + 1
    BY DEF Dispatches, Handled
  <2>2. changes \in 0 .. MaxChanges /\ MaxChanges \in Nat
    BY ConstantsAssumption DEF Inv, Types
  <2> QED BY <1>1, <2>1, <2>2, ChangedType
<1>8. /\ phase \in {"pause", "reply", "act"}
      /\ phase = "act" => job.ev + 1 <= Len(Events)
      /\ phase = "pause" => event = "write"
  BY <1>4, <1>6
<1> HIDE DEF phase
<1>9. /\ job' \in Job /\ job'.phase = phase /\ job'.cmd = job.cmd /\ job'.at = job.at
      /\ job'.ev = job.ev + 1 /\ job'.token = job.token /\ job'.done = job.done
      /\ job'.approved = job.approved /\ job'.revalidate = job.revalidate
      /\ job'.print = job.print /\ job'.bound = job.bound
  <2>1. phase \in Phases /\ job.ev + 1 \in Nat
    BY <1>4, <1>8 DEF Phases
  <2>2. job' \in Job
    BY <1>1, <1>2, <2>1 DEF Job
  <2> QED BY <1>1, <1>2, <2>2 DEF Job
<1>10. /\ Submitting' = Submitting /\ IsBatch' = IsBatch /\ IsCredential' = IsCredential
       /\ Fields' = Fields
  BY <1>9 DEF Submitting, IsBatch, IsCredential, Fields
<1>11. Acting' = Acting /\ Targets' = Targets /\ Target' = Target
  BY <1>9, <1>10 DEF Acting, Targets, Target
<1>12. Verdict' = Verdict
  BY <1>9, <1>10, <1>11 DEF Verdict
<1>13. Events' = Events
  BY <1>10, <1>11 DEF Events, CredentialEvents
<1>14. job # NoJob /\ job' # NoJob
  BY <1>1, <1>8, <1>9, IdleType
<1>15. Types'
  <2>1. acts' \subseteq Deeds
    BY <1>1, <1>2, <1>3
  <2> QED BY <1>2, <1>7, <1>9, <2>1 DEF Inv, Types
<1>16. Bindings' /\ Offers'
  BY <1>2, <1>7 DEF Inv, Bindings, Offers
<1>17. Asked'
  BY <1>1, <1>8, <1>9 DEF Inv, Asked
<1>18. Position'
  <2>1. job'.at <= Len(job'.cmd.refs) + 1 /\ job'.at # 0
    BY <1>1, <1>4, <1>9 DEF Inv, Position
  <2>2. job'.token.epoch = page'.epoch /\ DOMAIN job'.token.label = Targets'
    BY <1>1, <1>7, <1>9, <1>11 DEF Inv, Position
  <2>3. Submitting' => job'.cmd.submit \in Refs
    BY <1>1, <1>9, <1>10 DEF Inv, Position
  <2>4. job'.phase = "act" => job'.ev <= Len(Events')
    BY <1>8, <1>9, <1>13
  <2>5. job'.ev >= 1 /\ job'.phase # "guard"
    BY <1>4, <1>8, <1>9
  <2>6. job'.phase = "pause" => ~ Submitting' /\ job'.cmd.action \in Texts \cup {"credential_apply"}
    BY <1>6, <1>8, <1>9, <1>10
  <2> QED BY <2>1, <2>2, <2>3, <2>4, <2>5, <2>6 DEF Position
<1>19. Accepted' /\ BatchPrint'
  BY <1>1, <1>9, <1>10 DEF Inv, Accepted, BatchPrint
<1>20. Cleared'
  BY <1>1, <1>9, <1>12 DEF Inv, Cleared
<1>21. \A x \in acts' : x \in acts \/ (event \in Decisive /\ x = d)
  BY <1>2
<1>22. acts \subseteq acts'
  BY <1>2
<1>23. Documents'
  <2>1. page.epoch \in Nat /\ job'.phase \notin {"sent", "lost"}
    BY <1>1, <1>8, <1>9, PageFields
  <2>2. \A x \in acts' : x.epoch <= page.epoch
    BY <1>3, <1>21, <2>1 DEF Inv, Documents
  <2> QED BY <1>7, <2>1, <2>2 DEF Documents
<1>24. Progress'
  <2>1. /\ Len(job.done) <= Len(job.cmd.refs)
        /\ \A i \in 1 .. Len(job.done) : job.done[i] = job.cmd.refs[i] /\ Written(i)
        /\ job.at <= Len(job.done) + 1
        /\ \A x \in acts : x.event = "write" /\ x.epoch = page.epoch => x.at <= job.at
        /\ Len(job.done) = job.at - 1
    BY <1>1, <1>4 DEF Inv, Progress
  <2>2. \A i : Written(i) => Written(i)'
    BY <1>7, <1>22 DEF Written
  <2>3. \A x \in acts' : x.event = "write" /\ x.epoch = page'.epoch => x.at <= job'.at
    BY <1>3, <1>4, <1>7, <1>9, <1>21, <2>1
  <2>4. ASSUME job'.phase = "pause", job'.ev > Len(Events')
        PROVE  Written(job.at)'
    <3>1. event = "write" /\ job.ev = Len(Events)
      BY <1>4, <1>6, <1>8, <1>9, <1>13, <2>4
    <3>2. event \in Decisive
      BY <3>1 DEF Decisive
    <3>3. d \in acts' /\ d.event = "write" /\ d.at = job'.at /\ d.whole /\ d.epoch = page'.epoch
      BY <1>2, <1>3, <1>7, <1>9, <3>1, <3>2
    <3> QED BY <3>3 DEF Written
  <2>5. job'.phase # "sent" /\ job'.at # 0
    BY <1>4, <1>8, <1>9
  <2>6. \A i \in 1 .. Len(job'.done) : job'.done[i] = job'.cmd.refs[i] /\ Written(i)'
    <3>1. \A i \in 1 .. Len(job.done) : Written(i)'
      BY <2>1, <2>2
    <3> QED BY <1>9, <2>1, <3>1
  <2> QED BY <1>9, <2>1, <2>3, <2>4, <2>5, <2>6 DEF Progress
<1>25. OneDocument'
  <2>1. \A x \in acts : (job.approved => x.epoch = job.print.epoch)
                        /\ (IsCredential => x.epoch = job.bound.epoch)
    BY <1>1 DEF Inv, OneDocument
  <2>2. \A x \in acts' : (job.approved => x.epoch = job.print.epoch)
                         /\ (IsCredential => x.epoch = job.bound.epoch)
    BY <1>3, <1>21, <2>1
  <2> QED BY <1>9, <1>10, <2>2 DEF OneDocument
<1>26. AnsweredOnce' /\ PartialReport'
  BY <1>2 DEF Inv, AnsweredOnce, PartialReport
<1>27. NoRiskySubmit'
  <2>1. ASSUME event \in Decisive, IsBatch, d.event = "click", Risky("click", d.label)
        PROVE  FALSE
    <3>1. ~ IsCredential /\ Acting = "click" /\ d.event \notin Unchecked
      BY <1>3, <1>6, <2>1 DEF Acting, IsBatch, IsCredential, Unchecked
    <3>2. job.approved /\ job.print.action = "click"
      BY <1>3, <2>1, <3>1
    <3>3. job.print.action = "fill_form"
      BY <1>1, <1>4, <2>1, <3>2 DEF Inv, BatchPrint
    <3> QED BY <3>2, <3>3
  <2> QED BY <1>9, <1>10, <1>14, <1>21, <2>1 DEF Inv, NoRiskySubmit
<1>31. \A x : AsConfirmed(x)' = AsConfirmed(x)
  BY <1>9, <1>10 DEF AsConfirmed
<1>32. ASSUME event \in Decisive, event \notin Unchecked, ~ IsCredential
       PROVE  AsConfirmed(d)
  <2>1. Acting = IF d.event = "click" /\ IsBatch THEN "click" ELSE job.cmd.action
    BY <1>3, <1>6, <1>32 DEF Acting, IsBatch
  <2> QED BY <1>3, <1>32, <2>1 DEF AsConfirmed
<1>33. Preceded'
  <2> SUFFICES ASSUME phase = "act", Events[job.ev + 1] \in Unchecked
               PROVE  /\ d \in acts' /\ d.event \in LastChecked /\ d.ref = Target
                      /\ d.epoch = page.epoch /\ (~ IsCredential => AsConfirmed(d))
    BY <1>7, <1>9, <1>10, <1>11, <1>13, <1>31 DEF Preceded
  <2>1. event \in LastChecked
    BY <1>6, <1>8
  <2>2. event \in Decisive /\ event \notin Unchecked
    BY <2>1 DEF LastChecked, Unchecked, Decisive
  <2> QED BY <1>2, <1>3, <1>32, <2>1, <2>2
<1>28. RiskNeedsApproval'
  <2> DEFINE Fine(x, as) ==
               IF x.event \in Unchecked
               THEN \E e \in as : /\ e.event \in LastChecked /\ AsConfirmed(e)
                                  /\ e.ref = x.ref /\ e.epoch = x.epoch
               ELSE AsConfirmed(x)
  <2>1. ~ IsCredential => \A x \in acts : Fine(x, acts)
    BY <1>14 DEF Inv, RiskNeedsApproval
  <2>2. ~ IsCredential => \A x \in acts : Fine(x, acts')
    BY <1>22, <2>1
  <2>3. ASSUME ~ IsCredential, event \in Decisive
        PROVE  Fine(d, acts')
    <3>1. CASE event \notin Unchecked
      BY <1>3, <1>32, <2>3, <3>1
    <3>2. CASE event \in Unchecked
      <4>1. PICK e \in acts : /\ e.event \in LastChecked /\ AsConfirmed(e)
                             /\ e.ref = Target /\ e.epoch = page.epoch
        BY <1>1, <2>3, <3>2 DEF Inv, Preceded, event
      <4> QED BY <1>3, <1>22, <2>3, <3>2, <4>1
    <3> QED BY <3>1, <3>2
  <2>4. ~ IsCredential => \A x \in acts' : Fine(x, acts')
    BY <1>21, <2>2, <2>3
  <2>5. \A x : Fine(x, acts') <=> IF x.event \in Unchecked
                 THEN \E e \in acts' : /\ e.event \in LastChecked /\ AsConfirmed(e)'
                                       /\ e.ref = x.ref /\ e.epoch = x.epoch
                 ELSE AsConfirmed(x)'
    BY <1>31
  <2> HIDE DEF Fine
  <2> QED BY <1>10, <2>4, <2>5 DEF RiskNeedsApproval
<1>29. RevalidationIsInert'
  BY <1>2, <1>3, <1>9 DEF Inv, RevalidationIsInert
<1>30. SecretsInPlace'
  <2> DEFINE Placing(x, as) ==
               /\ x.event = "write" /\ ~ IsCredential => ~ Sensitive(x.label)
               /\ x.event \in {"act", "enter"} => x.label # "card"
               /\ x.event = "write" /\ IsCredential =>
                     /\ x.epoch = job.bound.epoch
                     /\ x.label = IF x.at = 1 THEN "plain" ELSE "password"
               /\ x.event = "submit" =>
                     /\ x.epoch = job.bound.epoch
                     /\ \A i \in Fields : \E w \in as : w.at = i /\ w.whole /\ w.epoch = x.epoch
  <2>1. \A x \in acts : Placing(x, acts)
    BY <1>14 DEF Inv, SecretsInPlace
  <2>2. \A x \in acts : Placing(x, acts')
    BY <1>22, <2>1
  <2>3. event \in Decisive => Placing(d, acts')
    <3>1. event \in Decisive /\ d.event = "submit" =>
             \A i \in Fields : \E w \in acts' : w.at = i /\ w.whole /\ w.epoch = d.epoch
      BY <1>3, <1>22 DEF Written
    <3> QED BY <1>3, <1>6, <3>1
  <2>4. \A x \in acts' : Placing(x, acts')
    BY <1>21, <2>2, <2>3
  <2> QED BY <1>9, <1>10, <2>4 DEF SecretsInPlace
<1> QED
  BY <1>15, <1>16, <1>17, <1>18, <1>19, <1>20, <1>23, <1>24, <1>25, <1>26, <1>27, <1>28,
     <1>29, <1>30, <1>33 DEF Inv

-----------------------------------------------------------------------------
\* The theorems.

LEMMA InitInv == Init => Inv
<1> SUFFICES ASSUME Init PROVE Inv
  OBVIOUS
<1>1. PICK l \in Pages : page = Fresh(1, l)
  BY DEF Init
<1>2. /\ job = NoJob /\ offers = {} /\ confirmed = {} /\ granted = {} /\ prepared = {} /\ acts = {}
      /\ reply = NoReply /\ changes = 0 /\ jobs = 0
  BY DEF Init
<1>3. page \in Document /\ page.bindings = <<>>
  <2>1. 1 \in Epochs /\ l \in [Refs -> Labels]
    BY ConstantsAssumption DEF Epochs
  <2>2. "here" \in Places /\ <<>> \in Seq(Binding) /\ {} \in SUBSET Refs
    BY DEF Places
  <2> QED BY <1>1, <2>1, <2>2 DEF Fresh, Document
<1>4. Types
  BY <1>2, <1>3, IdleType, ConstantsAssumption DEF Types
<1>5. Bindings /\ Offers
  BY <1>2, <1>3, ConstantsAssumption DEF Bindings, Offers
<1>6. Asked /\ OneDocument
  BY <1>2, IdleType DEF Asked, OneDocument
<1>7. Position /\ Accepted /\ Cleared /\ Preceded /\ Progress /\ BatchPrint
  BY <1>2, IdleType DEF Position, Accepted, Cleared, Preceded, Progress, BatchPrint, Answering, Filling
<1>8. Documents /\ NoRiskySubmit /\ RiskNeedsApproval /\ RevalidationIsInert /\ SecretsInPlace
  BY <1>2 DEF Documents, NoRiskySubmit, RiskNeedsApproval, RevalidationIsInert, SecretsInPlace
<1>9. AnsweredOnce /\ PartialReport
  BY <1>2 DEF NoReply, AnsweredOnce, PartialReport, FilledAsSaid
<1> QED BY <1>4, <1>5, <1>6, <1>7, <1>8, <1>9 DEF Inv

LEMMA NextInv == Inv /\ [Next]_vars => Inv'
<1> SUFFICES ASSUME Inv, [Next]_vars PROVE Inv'
  OBVIOUS
<1>1. CASE UNCHANGED vars
  <2>1. page' = page /\ UNCHANGED <<job, acts, reply>>
    BY <1>1 DEF vars
  <2>2. Types'
    BY <1>1 DEF vars, Inv, Types
  <2>3. Bindings' /\ Offers'
    BY <1>1 DEF vars, Inv, Bindings, Offers
  <2> QED BY <2>1, <2>2, <2>3, PageStep
<1>2. CASE PageChanges \/ Navigates \/ ScriptLoads \/ Snapshot
  BY <1>2, PageChangesKeeps, NavigatesKeeps, ScriptLoadsKeeps
<1>3. CASE Asks \/ Approved \/ Revalidates \/ Prepares \/ Applies \/ Confirms \/ Expires
  BY <1>3, AsksKeeps, ApprovedKeeps, PreparesKeeps, AppliesKeeps, ConfirmsKeeps, ExpiresKeeps
<1>4. CASE Script
  BY <1>4, RetriesKeeps, UncontrollableKeeps, TakesKeeps, GuardedKeeps, DispatchesKeeps,
     StopsKeeps, ResumesKeeps, NextFieldKeeps, LastFieldKeeps, RepliesKeeps DEF Script
<1> QED BY <1>1, <1>2, <1>3, <1>4 DEF Next

\* What every reachable state satisfies, from which the promises below follow
\* (execute of content/runtime.ts and sendContentCommand).
THEOREM Invariance == Spec => []Inv
<1> QED BY InitInv, NextInv, PTL DEF Spec

\* The types as the runs check them.
LEMMA TypeCorrect == Inv => TypeOK
<1> SUFFICES ASSUME Inv PROVE TypeOK
  OBVIOUS
<1>1. page \in Document /\ job \in Job /\ reply \in Reply
      /\ offers \subseteq Offer /\ confirmed \subseteq Offer /\ granted \subseteq Offer
      /\ changes \in 0 .. MaxChanges /\ jobs \in 0 .. MaxJobs
  BY DEF Inv, Types
<1>2. /\ page.epoch \in Epochs /\ page.place \in Places /\ page.label \in [Refs -> Labels]
      /\ page.loaded \in BOOLEAN /\ page.known \subseteq Refs
  BY <1>1, PageFields
<1>3. Len(page.bindings) <= MaxBindings
  BY DEF Inv, Bindings
<1>4. \A b \in ToSet(page.bindings) : b.token.epoch = page.epoch
  <2>1. DOMAIN page.bindings = 1 .. Len(page.bindings)
    BY <1>1, PageFields
  <2> QED BY <2>1 DEF ToSet, Inv, Bindings
<1>5. job.phase \in Phases /\ job.cmd \in Commands \cup {NoCommand} /\ job.attempt \in 0 .. 2
  BY <1>1, JobFields
<1>6. job.at \in 0 .. Len(job.cmd.refs) + 1
  <2>1. CASE job.phase = "none"
    BY <2>1, IdleType DEF Inv, Asked
  <2>2. CASE job.phase # "none"
    <3>1. job.at \in Nat /\ job.cmd \in Commands
      BY <1>1, <2>2, JobFields DEF Inv, Asked
    <3>2. Len(job.cmd.refs) \in Nat /\ job.at <= Len(job.cmd.refs) + 1
      BY <2>2, <3>1, ActionType DEF Inv, Position
    <3> QED BY <3>1, <3>2
  <2> QED BY <2>1, <2>2
<1>7. \A o \in offers \cup confirmed \cup granted : o.cmd \in Commands
  BY <1>1 DEF Offer
<1>8. reply.code \in Codes
  BY <1>1 DEF Reply
<1> QED BY <1>1, <1>2, <1>3, <1>4, <1>5, <1>6, <1>7, <1>8 DEF TypeOK

\* One document has at most one epoch.
LEMMA OnceOnly == Inv => ApprovedOnce
<1> SUFFICES ASSUME Inv, reply.approved \/ reply.cmd.action = "credential_apply"
             PROVE  Cardinality({d.epoch : d \in reply.acts}) <= 1
  BY DEF ApprovedOnce
<1> DEFINE E == {d.epoch : d \in reply.acts}
<1>1. \A d, e \in reply.acts : d.epoch = e.epoch
  BY DEF Inv, AnsweredOnce
<1>2. CASE reply.acts = {}
  <2>1. E = {}
    BY <1>2
  <2> QED BY <2>1, FS_EmptySet
<1>3. CASE reply.acts # {}
  <2>1. PICK d \in reply.acts : TRUE
    BY <1>3
  <2>2. E = {d.epoch}
    BY <1>1, <2>1
  <2>3. Cardinality(E) = 1
    <3> HIDE DEF E
    <3> QED BY <2>2, FS_Singleton
  <2> QED BY <2>3
<1> QED BY <1>2, <1>3

\* Whatever the page does meanwhile, what has a risk is acted on only by a
\* command the user or the policy confirmed for exactly what the page shows then,
\* and, of a file or of the newline of Enter, for what it showed before the last
\* handlers ran; a command that asks whether an approval is needed does nothing;
\* an approved one acts in one document, even when it is sent again (guardRisks,
\* safetyCheck, attachFile, pressKey, sendContentCommand).
THEOREM ActsOnlyAsConfirmed == Spec => []ActsAsConfirmed
<1>1. Inv => ActsAsConfirmed
  <2>1. Inv => RiskNeedsApproval /\ RevalidationIsInert
    BY DEF Inv
  <2> QED BY <2>1, TypeCorrect, OnceOnly DEF ActsAsConfirmed
<1> QED BY <1>1, Invariance, PTL

\* No ordinary command writes into a secret field, and the values of a
\* credential go only where they were prepared for, the form being submitted
\* after all of them (rejectOrdinarySensitiveInput, credentialApply).
THEOREM SecretsStayInPlace == Spec => []SecretsInPlace
<1>1. Inv => SecretsInPlace
  BY DEF Inv
<1> QED BY <1>1, Invariance, PTL

\* What an answer says was filled was written to its end, in the document that
\* answers, in the order of the command (partialFillFailure).
THEOREM ReportsWhatWasFilled == Spec => []PartialReport
<1>1. Inv => PartialReport
  BY DEF Inv
<1> QED BY <1>1, Invariance, PTL

\* However often the user confirms it, no fill_form ever clicks a submit that
\* has a risk: the approval that its click asked for does not fit the guard
\* that the batch begins with (fillForm, approvalGuardDecision).
THEOREM RiskySubmitNeverClicked == Spec => []NoRiskySubmit
<1>1. Inv => NoRiskySubmit
  BY DEF Inv
<1> QED BY <1>1, Invariance, PTL
=============================================================================
