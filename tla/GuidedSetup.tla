----------------------------- MODULE GuidedSetup -----------------------------
(***************************************************************************)
(* The ways to a pairing.  A command line opens a page, puts a ticket into *)
(* the extension's folder, begins a session at the daemon, polls for its   *)
(* receipt and takes everything away again (setupBrowser of                *)
(* cli/application.ts, setup/flow.ts); the user clicks the page's button in*)
(* a browser (content/runtime.ts, setup-pairing.ts); or a browser's        *)
(* settings begin a session through the native helper (native/, and        *)
(* startNativeSetup of background/runtime.ts).                             *)
(*                                                                         *)
(* All browsers are of one family and load the extension from one folder.  *)
(* A setup's id is the command line's name, or for the native helper the   *)
(* browser's.  The daemon handles a request when it is sent; its answer may*)
(* be lost.  What happens between the credential's issue and its commit is *)
(* the subject of SetupPairing and one step here.                          *)
(***************************************************************************)
EXTENDS Naturals, FiniteSets

CONSTANTS
    Runs,     \* command lines
    Browsers, \* browser profiles with an extension each
    Known,    \* the browsers that were paired before
    None,
    MaxClicks, MaxEvents \* bounds (model only)

ASSUME NamesAssumption ==
    /\ Runs \cap Browsers = {} /\ None \notin Runs \cup Browsers /\ Known \subseteq Browsers
    /\ MaxClicks \in Nat /\ MaxEvents \in Nat

Setups == Runs \cup Browsers

VARIABLES
    session,   \* the daemon's setup session
    saving,    \* the pin() under way
    pinned,    \* browsers with a credential of their own
    connected, \* browsers with a session
    file,      \* whose ticket lies in the extension's folder
    expired,   \* setups whose five minutes have passed
    run,       \* the command lines
    ext,       \* the extensions
    told,      \* history: the browsers a setup gave a credential to
    made,      \* history: the browsers a setup pinned
    left       \* what is left of the bounds

daemonVars == <<session, saving, pinned, connected, told, made>>
vars == <<daemonVars, file, expired, run, ext, left>>

\* A fault, an interruption by the user, or a setup through the native helper.
Event == left.events > 0 /\ left' = [left EXCEPT !.events = @ - 1]

NoSession == [id |-> None, by |-> None, at |-> "none"]

-----------------------------------------------------------------------------
(* The daemon.                                                             *)

\* #handleSetupPairingBegin()
Accepts(i) == session.id = None \/ session.at = "completed"
Opens(i) == session' = [id |-> i, by |-> None, at |-> "open"]

\* #handleSetupPairingCancel(): another setup's session is left alone.
CancellableAlways(i) == TRUE
Cancellable(i) == session.id = i => session.at # "committing"
Cancelled(i) == session' = IF session.id = i THEN NoSession ELSE session

\* #handleSetupPairingStatus()
Receipt(i) ==
    CASE session.id # i -> "not_found"
      [] session.id = i /\ session.by = None -> "waiting"
      [] session.id = i /\ session.by # None ->
           IF session.at = "completed" THEN "completed" ELSE "pending"

\* The timer, or the next look at the session.
Expires(i) ==
    /\ i \notin expired
    /\ i \in {session.id, file} \cup {c \in Runs : run[c].pc \in {"begin", "poll"}}
    /\ expired' = expired \cup ({i} \cap Runs) /\ Cancelled(i)
    /\ UNCHANGED <<saving, pinned, connected, told, made, file, run, ext, left>>

DaemonRestarts ==
    /\ Event
    /\ session' = NoSession /\ connected' = {} /\ saving' = None
    /\ \/ UNCHANGED pinned
       \/ saving # None /\ pinned' = pinned \cup {saving.by}
    /\ UNCHANGED <<told, made, file, expired, run, ext>>

Connects(b) ==
    /\ b \in pinned \ connected /\ ext[b].pairing = None
    /\ connected' = connected \cup {b}
    /\ UNCHANGED <<session, saving, pinned, told, made, file, expired, run, ext, left>>

Disconnects(b) ==
    /\ Event /\ b \in connected /\ connected' = connected \ {b}
    /\ UNCHANGED <<session, saving, pinned, told, made, file, expired, run, ext>>

Enrols(b, i) == session.id = i /\ session.at = "open" /\ session.by \in {None, b}

\* pin() ends.  Its session may have gone meanwhile, and so may the socket.
Holds == session.id = saving.id /\ session.at = "committing"
Waits == ext[saving.by].pairing = saving.id /\ ext[saving.by].at = "committing"

Saved ==
    /\ saving # None /\ saving' = None
    /\ pinned' = pinned \cup {saving.by}
    /\ made' = [made EXCEPT ![saving.id] = @ \cup {saving.by}]
    /\ session' = IF Holds THEN [session EXCEPT !.at = "completed"] ELSE session
    /\ connected' = IF Waits THEN connected \cup {saving.by} ELSE connected
    /\ ext' = IF Waits THEN [ext EXCEPT ![saving.by] = [@ EXCEPT !.pairing = None, !.at = "no"]]
              ELSE ext
    /\ UNCHANGED <<told, file, expired, run, left>>

SaveFails ==
    /\ Event /\ saving # None /\ saving' = None
    /\ session' = IF Holds THEN [session EXCEPT !.at = "open"] ELSE session
    /\ ext' = IF Waits
              THEN [ext EXCEPT ![saving.by].at = "issued"] ELSE ext
    /\ UNCHANGED <<pinned, connected, told, made, file, expired, run>>

-----------------------------------------------------------------------------
(* setupBrowser().                                                         *)

Goes(c, to) == run' = [run EXCEPT ![c].pc = to]
\* The operation's error is kept until everything is taken away.
Fails(c, to) ==
    run' = [run EXCEPT ![c] = [@ EXCEPT !.pc = to, !.chosen = None, !.baseline = {}]]
Dirty(c, to) == run' = [run EXCEPT ![c] = [@ EXCEPT !.pc = to, !.clean = FALSE]]

\* A browser that is connected already is taken, unless a new one is asked for.
Starts(c) ==
    /\ run[c].pc = "idle"
    /\ \E new \in BOOLEAN :
        LET usable == {b \in connected : ~ext[b].old} IN
        \/ /\ ~new /\ usable # {}
           /\ \E b \in usable :
                run' = [run EXCEPT ![c] = [@ EXCEPT !.pc = "final", !.chosen = b]]
        \/ /\ new \/ usable = {}
           /\ run' = [run EXCEPT ![c] = [@ EXCEPT !.pc = "page",
                        !.baseline = IF new THEN connected ELSE {}]]
    /\ UNCHANGED <<daemonVars, file, expired, ext, left>>

\* startSetupPageServer()
PageStarts(c) ==
    /\ run[c].pc = "page"
    /\ \/ Goes(c, "ticket") /\ UNCHANGED left
       \/ Event /\ Fails(c, "failed")
    /\ UNCHANGED <<daemonVars, file, expired, ext>>

\* createSetupTicket(): an expired ticket is removed, once.
TicketCreated(c) ==
    /\ run[c].pc \in {"ticket", "again"}
    /\ \/ file = None /\ file' = c /\ Goes(c, "begin")
       \/ /\ run[c].pc = "ticket" /\ file \in expired
          /\ Goes(c, "stale") /\ UNCHANGED file
       \/ /\ file # None /\ (file \notin expired \/ run[c].pc = "again")
          /\ Fails(c, "failed") /\ UNCHANGED file
    /\ UNCHANGED <<daemonVars, expired, ext, left>>

\* removeExpiredSetupTicket(): the file is unlinked after the last look at it.
StaleRemoved(c) ==
    /\ run[c].pc = "stale"
    /\ \/ file # None /\ file' = None /\ Goes(c, "again")
       \/ file = None /\ Fails(c, "failed") /\ UNCHANGED file
    /\ UNCHANGED <<daemonVars, expired, ext, left>>

Begins(c) ==
    /\ run[c].pc = "begin"
    /\ \/ /\ Accepts(c) /\ c \notin expired /\ Opens(c)
          /\ \/ run' = [run EXCEPT ![c] = [@ EXCEPT !.pc = "poll", !.page = TRUE]]
                /\ UNCHANGED left
             \/ Event /\ Fails(c, "cancel")
       \/ /\ ~Accepts(c) \/ c \in expired
          /\ Fails(c, "cancel") /\ UNCHANGED <<session, left>>
    /\ UNCHANGED <<saving, pinned, connected, told, made, file, expired, ext>>

\* waitForSetupBrowser(): every 400 ms, until the setup expires.
PollsAny(c) ==
    /\ run[c].pc = "poll" /\ c \notin expired
    /\ \/ Receipt(c) = "not_found" /\ Fails(c, "cancel")
       \/ /\ Receipt(c) = "completed"
          /\ run' = [run EXCEPT ![c] = [@ EXCEPT !.pc = "match", !.chosen = session.by]]
    /\ UNCHANGED <<daemonVars, file, expired, ext, left>>

Polls(c) ==
    /\ run[c].pc = "poll" /\ c \notin expired
    /\ \/ Receipt(c) = "not_found" /\ Fails(c, "cancel")
       \/ /\ Receipt(c) \in {"pending", "completed"}
          /\ ext[session.by].old \/ session.by \in run[c].baseline
          /\ Fails(c, "cancel")
       \/ /\ Receipt(c) = "completed"
          /\ ~ext[session.by].old /\ session.by \notin run[c].baseline
          /\ run' = [run EXCEPT ![c] = [@ EXCEPT !.pc = "match", !.chosen = session.by]]
    /\ UNCHANGED <<daemonVars, file, expired, ext, left>>

Matches(c) ==
    /\ run[c].pc = "match"
    /\ \/ run[c].chosen \in connected /\ Goes(c, "cancel")
       \/ run[c].chosen \notin connected
          /\ run' = [run EXCEPT ![c] = [@ EXCEPT !.pc = "poll", !.chosen = None]]
    /\ UNCHANGED <<daemonVars, file, expired, ext, left>>

\* The setup expires, or the user interrupts it.
GivesUp(c) ==
    /\ run[c].pc = "poll" /\ Fails(c, "cancel")
    /\ \/ c \in expired /\ UNCHANGED left
       \/ Event
    /\ UNCHANGED <<daemonVars, file, expired, ext>>

Cancels(c) ==
    /\ run[c].pc = "cancel"
    /\ \/ /\ Cancellable(c) /\ Cancelled(c)
          /\ \/ Goes(c, "remove") /\ UNCHANGED left
             \/ Event /\ Dirty(c, "remove")
       \/ ~Cancellable(c) /\ Dirty(c, "remove") /\ UNCHANGED <<session, left>>
    /\ UNCHANGED <<saving, pinned, connected, told, made, file, expired, ext>>

\* ticket.remove(): reads the ticket, then unlinks what is there.  The page's
\* server is closed with it; a ticket that cannot be removed fails the setup.
TicketChecked(c) ==
    /\ run[c].pc = "remove"
    /\ IF file = c THEN Goes(c, "unlink") ELSE Dirty(c, "failed")
    /\ UNCHANGED <<daemonVars, file, expired, ext, left>>

Result(c) == IF run[c].chosen # None /\ run[c].clean THEN "final" ELSE "failed"
TicketKept(c) ==
    /\ run[c].pc = "unlink" /\ Goes(c, Result(c))
    /\ UNCHANGED <<daemonVars, file, expired, ext, left>>

TicketRemoved(c) ==
    /\ run[c].pc = "unlink"
    /\ IF file # None THEN Goes(c, Result(c)) ELSE Dirty(c, "failed")
    /\ file' = None
    /\ UNCHANGED <<daemonVars, expired, ext, left>>

\* The native helper is installed, or is not, and the browser is still there.
Ends(c) ==
    /\ run[c].pc = "final"
    /\ \/ run[c].chosen \in connected /\ Goes(c, "ok")
       \/ Goes(c, "failed")
    /\ UNCHANGED <<daemonVars, file, expired, ext, left>>

Over == {"idle", "ok", "failed", "killed"}
Killed(c) ==
    /\ Event /\ run[c].pc \notin Over /\ Goes(c, "killed")
    /\ UNCHANGED <<daemonVars, file, expired, ext>>

RunStep(c) ==
    \/ PageStarts(c) \/ TicketCreated(c) \/ StaleRemoved(c) \/ Begins(c) \/ Polls(c) \/ Matches(c) \/ GivesUp(c)
    \/ Cancels(c) \/ TicketChecked(c) \/ TicketRemoved(c) \/ Ends(c)

-----------------------------------------------------------------------------
(* The extension: receiveSetupPairingToken().                              *)

Pairing(b, i, at) == ext' = [ext EXCEPT ![b] = [@ EXCEPT !.pairing = i, !.at = at]]
\* A setup of the native helper is cancelled when its pairing ends.
PairingEnds(b) == Pairing(b, None, "no")

\* The page stays open in a browser when its setup is over.
Clicked(b, c) ==
    /\ run[c].page /\ ext[b].pairing = None
    /\ left.clicks > 0 /\ left' = [left EXCEPT !.clicks = @ - 1]
    /\ Pairing(b, c, "ticket")
    /\ UNCHANGED <<daemonVars, file, expired, run>>

\* loadSetupTicket(), parseSetupTicketText()
TicketRead(b) ==
    /\ ext[b].at = "ticket"
    /\ IF file = ext[b].pairing /\ file \notin expired
       THEN Pairing(b, file, "request") ELSE PairingEnds(b)
    /\ UNCHANGED <<daemonVars, file, expired, run, left>>

\* SetupPairingHandshake: the credential is held, not stored yet.
Answered(b, i) == Pairing(b, i, "issued")

\* The exchange: the answer, or the end of the connection.
Asked(b) ==
    /\ ext[b].at = "request"
    /\ LET i == ext[b].pairing IN
       \/ /\ Enrols(b, i)
          /\ session' = [session EXCEPT !.by = b]
          /\ told' = [told EXCEPT ![i] = @ \cup {b}]
          /\ Answered(b, i)
       \/ ~Enrols(b, i) /\ PairingEnds(b) /\ UNCHANGED <<session, told>>
    /\ UNCHANGED <<saving, pinned, connected, made, file, expired, run, left>>

\* The two reconnects; the second one again when its answer was lost.
Proves(b) ==
    /\ ext[b].at = "issued"
    /\ LET i == ext[b].pairing IN
       \/ /\ session.id = i /\ session.by = b /\ session.at = "open" /\ saving = None
          /\ session' = [session EXCEPT !.at = "committing"]
          /\ saving' = [id |-> i, by |-> b] /\ connected' = connected \ {b}
          /\ Pairing(b, i, "committing")
       \/ /\ session.id = i /\ session.by = b /\ session.at = "completed"
          /\ connected' = connected \cup {b} /\ PairingEnds(b)
          /\ UNCHANGED <<session, saving>>
       \/ /\ session.id # i \/ session.by # b
          /\ PairingEnds(b) /\ UNCHANGED <<session, saving, connected>>
    /\ UNCHANGED <<pinned, told, made, file, expired, run, left>>

\* SETUP_PAIRING_TIMEOUT_MS; what the daemon has begun goes on.
PairingFails(b) ==
    /\ Event /\ ext[b].pairing # None /\ PairingEnds(b)
    /\ UNCHANGED <<daemonVars, file, expired, run>>

\* startNativeSetup()
NativeAsked(b) ==
    /\ ext[b].native = "no" /\ ext[b].pairing = None
    /\ Event
    /\ ext' = [ext EXCEPT ![b].native = "asked"]
    /\ UNCHANGED <<daemonVars, file, expired, run>>

\* processNativeSetupFrame(): the caller, the frame, or a service that is not ready.
HostRefuses(b) ==
    /\ ext[b].native \in {"asked", "lost"} /\ ext' = [ext EXCEPT ![b].native = "no"]
    /\ UNCHANGED <<daemonVars, file, expired, run, left>>

\* beginSetup(): the session is opened also when the
\* answer comes too late.
HostBegins(b) ==
    /\ ext[b].native \in {"asked", "lost"}
    /\ IF Accepts(b)
       THEN /\ Opens(b)
            /\ \E answer \in {"begun", "no"} :
                 /\ ext[b].native = "lost" => answer = "no"
                 /\ ext' = [ext EXCEPT ![b].native = answer]
       ELSE ext' = [ext EXCEPT ![b].native = "no"] /\ UNCHANGED session
    /\ UNCHANGED <<saving, pinned, connected, told, made, file, expired, run, left>>

NativePairs(b) ==
    /\ ext[b].native = "begun"
    /\ ext' = [ext EXCEPT ![b] = IF @.pairing = None
                 THEN [@ EXCEPT !.native = "pairs", !.pairing = b, !.at = "request"]
                 ELSE [@ EXCEPT !.native = "pairs"]]
    /\ UNCHANGED <<daemonVars, file, expired, run, left>>

\* cancelNativeSetup(), which tells nobody when it fails.
NativeCancels(b) ==
    /\ ext[b].native = "pairs" /\ ext[b].pairing # b
    /\ ext' = [ext EXCEPT ![b].native = "no"]
    /\ \/ UNCHANGED session
       \/ Cancellable(b) /\ Cancelled(b)
    /\ UNCHANGED <<saving, pinned, connected, told, made, file, expired, run, left>>

WorkerDies(b) ==
    /\ Event
    /\ ext' = [ext EXCEPT ![b] = [@ EXCEPT !.pairing = None, !.at = "no",
                 !.native = IF ext[b].native = "asked" THEN "lost" ELSE "no"]]
    /\ connected' = connected \ {b}
    /\ UNCHANGED <<session, saving, pinned, told, made, file, expired, run>>

ExtStep(b) == TicketRead(b) \/ Asked(b) \/ PairingFails(b)
              \/ HostRefuses(b) \/ HostBegins(b) \/ NativePairs(b) \/ NativeCancels(b)

-----------------------------------------------------------------------------
Idle == [pc |-> "idle", baseline |-> {}, chosen |-> None, page |-> FALSE, clean |-> TRUE]
Init ==
    /\ session = NoSession /\ saving = None
    /\ pinned = Known /\ connected = Known
    /\ file = None /\ expired = {}
    /\ run = [c \in Runs |-> Idle]
    /\ \E old \in SUBSET Browsers : Cardinality(old) <= 1 /\
         ext = [b \in Browsers |-> [old |-> b \in old, pairing |-> None, at |-> "no", native |-> "no"]]
    /\ told = [i \in Setups |-> {}] /\ made = told
    /\ left = [clicks |-> MaxClicks, events |-> MaxEvents]

Next ==
    \/ \E i \in Setups : Expires(i)
    \/ \E c \in Runs : Starts(c) \/ RunStep(c) \/ Killed(c)
    \/ \E b \in Browsers, c \in Runs : Clicked(b, c)
    \/ \E b \in Browsers :
         \/ ExtStep(b) \/ Proves(b) \/ NativeAsked(b) \/ WorkerDies(b)
         \/ Connects(b) \/ Disconnects(b)
    \/ Saved \/ SaveFails \/ DaemonRestarts

Spec == Init /\ [][Next]_vars

-----------------------------------------------------------------------------
TypeOK ==
    /\ session.id \in Setups \cup {None} /\ session.by \in Browsers \cup {None}
    /\ connected \subseteq pinned /\ pinned \subseteq Browsers
    /\ file \in Runs \cup {None} /\ expired \subseteq Runs
    /\ session.at = "committing" => saving = [id |-> session.id, by |-> session.by]

\* A command line that reports success has a browser that runs this version,
\* that is not one it was told to leave alone, and, unless it was there before,
\* that was given its credential and pinned in this very setup and in no other
\* browser's place.
SuccessIsTrue ==
    \A c \in Runs : run[c].pc = "ok" =>
        /\ ~ext[run[c].chosen].old /\ run[c].chosen \notin run[c].baseline
        /\ run[c].page => told[c] = {run[c].chosen} /\ made[c] = {run[c].chosen}

\* A setup gives its credential to one browser, whoever asks, and however often
\* the same one asks again.
OneBrowserEach ==
    /\ TypeOK
    /\ \A i \in Setups : made[i] \subseteq told[i] /\ Cardinality(told[i]) <= 1

\* A command line that ended and reported nothing it could not take away has
\* left neither its ticket nor its session.
NothingLeftBehind ==
    \A c \in Runs : run[c].pc \in {"ok", "failed"} /\ run[c].clean =>
        file # c /\ session.id # c

\* What a setup gave, it gave to one browser, and what it made is gone.
Contained == OneBrowserEach /\ NothingLeftBehind

\* After a command line has ended and reported nothing it could not take away,
\* nothing is issued or pinned in its name any more, unless its session expired
\* while its commit was being saved.
EndedMeansEnded ==
    [][\A c \in Runs \ expired : run[c].pc \in {"ok", "failed"} /\ run[c].clean =>
        told'[c] = told[c] /\ made'[c] = made[c]]_vars
=============================================================================
