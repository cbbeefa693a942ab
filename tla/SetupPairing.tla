---------------------------- MODULE SetupPairing ----------------------------
(***************************************************************************)
(* Setting up a pairing: the extension receives a credential derived for   *)
(* its installation, proves it has it (provisioning), stores it, reads it  *)
(* back and proves that in a second reconnect (persisted), on which the    *)
(* daemon pins the installation as derived-v1 and completes the receipt of *)
(* the installer.  Extension: receiveSetupPairingToken and connect of      *)
(* extension/src/background/runtime.ts.  Daemon: the setup session and the *)
(* two-step handshake of src/daemon/runtime.ts, and key-registry.ts.       *)
(*                                                                         *)
(* One browser installation with one signing key.  A credential is `legacy`*)
(* (the daemon's pairing token itself) or `derived`; an installation is    *)
(* pinned in the mode of the same name.  A connection is named by the      *)
(* generation of the connect() that opened it.  What the extension sent    *)
(* before it gave up a socket is still handled by the daemon, in the order *)
(* in which it was sent: one machine, one loopback interface, one event    *)
(* loop that reads every ready socket.                                     *)
(***************************************************************************)
EXTENDS Naturals, Sequences, FiniteSets

CONSTANTS
    MaxTries,    \* tries of the persisted reconnect (3 in the code)
    MaxSetups,   \* bound on setup sessions (model only)
    MaxRestarts, \* bound on restarts of the daemon (model only)
    MaxKills,    \* bound on kills of the extension's worker (model only)
    MaxTimers,   \* bound on reconnect timers that fire (model only)
    MaxClicks,   \* bound on reconnects and removals by the user (model only)
    MaxLate,     \* bound on saves that fail after the rename (model only)
    MaxDrops,    \* bound on connections that close by themselves (model only)
    MaxEvents    \* bound on the last six together (model only)

ASSUME BoundsAssumption ==
    /\ MaxTries \in Nat \ {0}
    /\ {MaxSetups, MaxRestarts, MaxKills, MaxTimers, MaxClicks, MaxLate,
        MaxDrops, MaxEvents} \subseteq Nat

VARIABLES
    registry,  \* ExtensionKeyRegistry #entries: the mode the installation has
    disk,      \* the same, as the registry file has it
    pins,      \* #mutationQueue: pin() calls in order, the first one running
    saving,    \* the mode to fall back to while the first one saves
    setup,     \* #setupPairingSession
    conn,      \* connections by generation, closed ones removed
    link,      \* the extension's main connection and the connect() under way
    stored,    \* the credential in storage.local
    attempt,   \* receiveSetupPairingToken, one call for each setup session
    begun,     \* setup sessions opened so far
    cancelled, \* history: those the daemon reported as cancelled
    committed, \* history: those whose persisted reconnect pinned the key
    left       \* what is left of the bounds

registryVars == <<registry, disk, pins, saving>>
history == <<begun, cancelled, committed>>
vars == <<registryVars, setup, conn, link, stored, attempt, history, left>>

-----------------------------------------------------------------------------
None == "none"
Idle == "idle"
Modes == {None, "legacy", "derived"}
Kinds == {"ordinary", "provisioning", "persisted"}
Setups == 1 .. MaxSetups
NoSetup == 0

Session == [id : Setups \cup {NoSetup}, enrolled : BOOLEAN, provisioned : BOOLEAN,
            completed : BOOLEAN, committing : BOOLEAN]

Closed == [id |-> NoSetup, enrolled |-> FALSE, provisioned |-> FALSE,
           completed |-> FALSE, committing |-> FALSE]

\* hello: client_hello is on its way; challenge: the answer; signed: the signed
\* hello; pinning: the daemon waits for pin(); acked: hello_ack was sent.
Connection == [kind : Kinds, token : Modes \ {None}, setup : Setups \cup {NoSetup},
               at : {"hello", "challenge", "signed", "pinning", "acked"},
               mode : Modes]

\* step: connect() waits for the stored credential, for the identity, for
\* nothing.  open: its socket exists and its events are heard.  timer: a
\* reconnect is scheduled.  down: error, needs_token or disconnected.
Link == [gen : Nat \ {0}, step : {"token", "identity", "done"}, kind : Kinds,
         token : Modes, setup : Setups \cup {NoSetup},
         phase : {"down", "trying", "connected"}, open : BOOLEAN, timer : BOOLEAN]

Calls == {"provisionCall", "persistCall", "ordinaryCall", "priorCall"}
Waits == {"provisionWait", "persistWait", "ordinaryWait", "priorWait"}
Phases == Calls \cup Waits \cup
          {"idle", "pair", "issued", "check", "set", "verify", "persist", "ordinary",
           "last", "putBack", "ended"}

\* prior: priorTokenSnapshot.  commit: tokenCommit.  durable:
\* durableCommitAttempted.  mine: setupConnectionGeneration.  late: the deadline
\* or the ticket's expiry has passed.  stopped: the timeout fired.  rollback:
\* rollbackOperation.  over: the call has returned, ok what it returned.
Attempt == [pc : Phases, prior : Modes, commit : {"no", "pending", "done", "failed"},
            durable : BOOLEAN, disturbed : BOOLEAN, tries : 0 .. MaxTries,
            proved : BOOLEAN, mine : Nat, late : BOOLEAN, stopped : BOOLEAN,
            rollback : {"no", "waiting", "connect", "over"},
            over : BOOLEAN, ok : BOOLEAN]

Fresh == [pc |-> "idle", prior |-> None, commit |-> "no", durable |-> FALSE,
          disturbed |-> FALSE, tries |-> 0, proved |-> FALSE, mine |-> 0,
          late |-> FALSE, stopped |-> FALSE, rollback |-> "no",
          over |-> FALSE, ok |-> FALSE]

\* setupPairingInProgress
InProgress(i) == attempt[i].pc # "idle" /\ ~attempt[i].over
NoneInProgress == \A i \in Setups : ~InProgress(i)

Live(g) == g = link.gen /\ link.open

Without(f, k) == [x \in DOMAIN f \ {k} |-> f[x]]

Joining == [gen |-> 1, step |-> "token", kind |-> "ordinary", token |-> None,
            setup |-> NoSetup, phase |-> "trying", open |-> FALSE, timer |-> FALSE]

Bounds == [restarts |-> MaxRestarts, kills |-> MaxKills, timers |-> MaxTimers,
           clicks |-> MaxClicks, late |-> MaxLate, drops |-> MaxDrops,
           events |-> MaxEvents]

\* A pairing of any age, or none: never a legacy credential for an installation
\* that was already pinned as derived-v1.
Init ==
    /\ registry \in Modes
    /\ disk = registry
    /\ stored \in IF registry = "derived" THEN {None, "derived"} ELSE Modes
    /\ pins = <<>>
    /\ saving = Idle
    /\ setup = Closed
    /\ conn = <<>>
    /\ link = Joining
    /\ attempt = [i \in Setups |-> Fresh]
    /\ begun = 0
    /\ cancelled = {}
    /\ committed = {}
    /\ left = Bounds

-----------------------------------------------------------------------------
(* The extension's connection.                                             *)

Spends(k) ==
    /\ left[k] > 0 /\ left.events > 0
    /\ left' = [left EXCEPT ![k] = @ - 1, !.events = @ - 1]

Happened(k) == left[k] < Bounds[k]

\* What is left of the connections when the extension gives up its socket: a
\* signed hello that was sent is still handled.
Abandoned ==
    IF link.gen \in DOMAIN conn /\ conn[link.gen].at \notin {"signed", "pinning"}
    THEN Without(conn, link.gen) ELSE conn

\* connect() up to its first wait.  A staged or overridden credential is at
\* hand, the stored one has to be read.
Connects(kind, token, i) ==
    /\ link' = [gen |-> link.gen + 1,
                step |-> IF token = None THEN "token" ELSE "identity",
                kind |-> kind, token |-> token, setup |-> i,
                phase |-> IF token = None /\ link.phase = "down" THEN "down" ELSE "trying",
                open |-> FALSE, timer |-> FALSE]
    /\ conn' = Abandoned

Reconnects == Connects("ordinary", None, NoSetup)

\* The socket's close event: a reconnect is scheduled.
Lost == [link EXCEPT !.phase = "down", !.open = FALSE, !.timer = TRUE]

ReadToken ==
    /\ link.step = "token"
    /\ link' = IF stored = None
               THEN [link EXCEPT !.step = "done", !.phase = "down"]
               ELSE [link EXCEPT !.step = "identity", !.token = stored, !.phase = "trying"]
    /\ UNCHANGED <<registryVars, setup, conn, stored, attempt, history, left>>

OpenSocket ==
    /\ link.step = "identity"
    /\ conn' = [g \in DOMAIN conn \cup {link.gen} |->
                   IF g = link.gen
                   THEN [kind |-> link.kind, token |-> link.token, setup |-> link.setup,
                         at |-> "hello", mode |-> None]
                   ELSE conn[g]]
    /\ link' = [link EXCEPT !.step = "done", !.open = TRUE, !.kind = "ordinary",
                            !.token = None, !.setup = NoSetup]
    /\ UNCHANGED <<registryVars, setup, stored, attempt, history, left>>

\* The challenge: its proof must come from the credential the extension has.
Challenged(g) ==
    /\ g \in DOMAIN conn
    /\ conn[g].at = "challenge"
    /\ Live(g)
    /\ IF conn[g].mode = conn[g].token
       THEN conn' = [conn EXCEPT ![g].at = "signed"] /\ UNCHANGED link
       ELSE conn' = Without(conn, g) /\ link' = Lost
    /\ UNCHANGED <<registryVars, setup, stored, attempt, history, left>>

HelloAck(g) ==
    /\ g \in DOMAIN conn
    /\ conn[g].at = "acked"
    /\ Live(g)
    /\ link.phase = "trying"
    /\ link' = [link EXCEPT !.phase = "connected"]
    /\ UNCHANGED <<registryVars, setup, conn, stored, attempt, history, left>>

\* The socket closes under the extension: no daemon, one of the two handshake
\* timers, a missed heartbeat.  A pin under way goes on.
ConnectionLost(g) ==
    /\ g \in DOMAIN conn
    /\ Live(g)
    /\ Spends("drops")
    /\ conn' = Abandoned
    /\ link' = Lost
    /\ UNCHANGED <<registryVars, setup, stored, attempt, history>>

\* The scheduled reconnect or the alarm.  Its delay outlasts the 25 ms poll of
\* a waiting setup, whose next connect() clears it.
ReconnectTimer ==
    /\ link.timer
    /\ \A i \in Setups : InProgress(i) => attempt[i].pc \notin Calls \cup Waits
    /\ Spends("timers")
    /\ Reconnects
    /\ UNCHANGED <<registryVars, setup, stored, attempt, history>>

\* ui:reconnect, at any moment.
UserReconnects ==
    /\ Spends("clicks")
    /\ Reconnects
    /\ UNCHANGED <<registryVars, setup, stored, attempt, history>>

\* ui:remove-pairing.
UserRemovesPairing ==
    /\ NoneInProgress
    /\ Spends("clicks")
    /\ stored' = None
    /\ Reconnects
    /\ UNCHANGED <<registryVars, setup, attempt, history>>

-----------------------------------------------------------------------------
(* The daemon's handshake.                                                 *)

\* The daemon closes connection g with 1008.
Rejects(g) ==
    /\ conn' = Without(conn, g)
    /\ link' = IF Live(g) THEN Lost ELSE link

\* The daemon handles nothing else between a pin() that finds the queue idle and
\* its write.
Settled == pins # <<>> => saving # Idle

\* ... nor before anything sent on an older socket.
InOrder(g) == Settled /\ \A h \in DOMAIN conn : conn[h].at = "signed" => g <= h

\* The binding of a staged reconnect that #beginExtensionHandshake and
\* #authenticateExtension both check.
Bound(c) ==
    /\ setup.id = c.setup
    /\ setup.enrolled
    /\ setup.completed => c.kind = "persisted"
    /\ c.kind = "persisted" => setup.provisioned

\* #beginExtensionHandshake: the mode is settled here, the answer proves it.
ClientHello(g) ==
    /\ g \in DOMAIN conn
    /\ conn[g].at = "hello"
    /\ InOrder(g)
    /\ LET c == conn[g]
           mode == IF c.kind = "ordinary" THEN registry ELSE "derived"
       IN  IF \/ mode = None
              \/ c.kind # "ordinary" /\ ~Bound(c)
              \/ c.kind # "ordinary" /\ setup.completed /\ registry # "derived"
           THEN Rejects(g)
           ELSE /\ conn' = [conn EXCEPT ![g].at = "challenge", ![g].mode = mode]
                /\ UNCHANGED link
    /\ UNCHANGED <<registryVars, setup, stored, attempt, history, left>>

\* #authenticateExtension, a provisioning reconnect: nothing is pinned.
Provision(g) ==
    /\ g \in DOMAIN conn
    /\ conn[g].at = "signed"
    /\ conn[g].kind = "provisioning"
    /\ InOrder(g)
    /\ IF Bound(conn[g]) /\ ~setup.committing
       THEN /\ setup' = [setup EXCEPT !.provisioned = TRUE]
            /\ IF Live(g)
               THEN conn' = [conn EXCEPT ![g].at = "acked"] /\ UNCHANGED link
               ELSE conn' = Without(conn, g) /\ UNCHANGED link
       ELSE Rejects(g) /\ UNCHANGED setup
    /\ UNCHANGED <<registryVars, stored, attempt, history, left>>

\* Mutant of Authenticate: the receipt is completed before the key is pinned.
AuthenticateCompletes(g) ==
    /\ g \in DOMAIN conn
    /\ conn[g].at = "signed"
    /\ conn[g].kind # "provisioning"
    /\ InOrder(g)
    /\ conn[g].kind = "persisted" => Bound(conn[g])
    /\ setup' = IF conn[g].kind = "persisted" THEN [setup EXCEPT !.completed = TRUE] ELSE setup
    /\ pins' = Append(pins, [gen |-> g, mode |-> conn[g].mode, setup |-> conn[g].setup])
    /\ conn' = [conn EXCEPT ![g].at = "pinning"]
    /\ UNCHANGED <<registry, disk, saving, link, stored, attempt, history, left>>

\* #authenticateExtension up to `await pin`.
Authenticate(g) ==
    /\ g \in DOMAIN conn
    /\ conn[g].at = "signed"
    /\ conn[g].kind # "provisioning"
    /\ InOrder(g)
    /\ LET c == conn[g]
       IN  IF c.kind = "persisted" /\ ~(Bound(c) /\ ~setup.committing)
           THEN Rejects(g) /\ UNCHANGED <<setup, pins>>
           ELSE /\ setup' = IF c.kind = "persisted" /\ ~setup.completed
                            THEN [setup EXCEPT !.committing = TRUE] ELSE setup
                /\ pins' = Append(pins, [gen |-> g, mode |-> c.mode, setup |-> c.setup])
                /\ conn' = [conn EXCEPT ![g].at = "pinning"]
                /\ UNCHANGED link
    /\ UNCHANGED <<registry, disk, saving, stored, attempt, history, left>>

-----------------------------------------------------------------------------
(* pin() of the registry, and what #authenticateExtension does after it.   *)

\* The first call ends.  The setup session may have been replaced meanwhile;
\* the socket may be gone.
Settles(ok) ==
    LET p == Head(pins)
    IN  /\ pins' = Tail(pins)
        /\ saving' = Idle
        /\ setup' = IF p.setup # NoSetup /\ setup.id = p.setup
                    THEN [setup EXCEPT !.committing = FALSE, !.completed = @ \/ ok]
                    ELSE setup
        /\ committed' = IF ok /\ p.setup # NoSetup THEN committed \cup {p.setup}
                        ELSE committed
        /\ IF ok /\ Live(p.gen)
           THEN conn' = [conn EXCEPT ![p.gen].at = "acked"] /\ UNCHANGED link
           ELSE Rejects(p.gen)

PinStep == UNCHANGED <<stored, attempt, begun, cancelled, left>>

\* The installation is pinned in that mode already.
PinRepeats ==
    /\ pins # <<>> /\ saving = Idle
    /\ registry = Head(pins).mode
    /\ Settles(TRUE)
    /\ UNCHANGED <<registry, disk>>
    /\ PinStep

\* A downgrade, or a registry full of other installations.
PinRefused ==
    /\ pins # <<>> /\ saving = Idle
    /\ \/ registry = "derived" /\ Head(pins).mode # "derived"
       \/ registry = None
    /\ Settles(FALSE)
    /\ UNCHANGED <<registry, disk>>
    /\ PinStep

\* The entry is changed in memory, then the file is written.
PinWrites ==
    /\ pins # <<>> /\ saving = Idle
    /\ registry # Head(pins).mode
    /\ registry # "derived"
    /\ registry' = Head(pins).mode
    /\ saving' = registry
    /\ UNCHANGED <<disk, pins, setup, conn, link, committed>>
    /\ PinStep

PinSaved ==
    /\ saving # Idle
    /\ disk' = registry
    /\ Settles(TRUE)
    /\ UNCHANGED registry
    /\ PinStep

\* #save throws: writing or renaming the file failed, or setting its mode did
\* after the rename.
PinSaveFails ==
    /\ saving # Idle
    /\ registry' = saving
    /\ \/ UNCHANGED <<disk, left>>
       \/ disk' = registry /\ Spends("late")
    /\ Settles(FALSE)
    /\ UNCHANGED <<stored, attempt, begun, cancelled>>

-----------------------------------------------------------------------------
(* The setup session of the daemon.                                        *)

\* #clearSetupPairingSession: the provisioning sockets are terminated.
ClearsSession(replacement) ==
    /\ setup' = replacement
    /\ IF /\ Live(link.gen)
          /\ conn[link.gen].kind = "provisioning" /\ conn[link.gen].at = "acked"
       THEN conn' = Without(conn, link.gen) /\ link' = Lost
       ELSE UNCHANGED <<conn, link>>

\* #handleSetupPairingBegin, from the installer or the native helper: refused
\* while another session is active and not completed.
Begin ==
    /\ Settled
    /\ begun < MaxSetups
    /\ setup.id = NoSetup \/ setup.completed
    /\ begun' = begun + 1
    /\ ClearsSession([Closed EXCEPT !.id = begun + 1])
    /\ UNCHANGED <<registryVars, stored, attempt, cancelled, committed, left>>

\* Mutant of Cancel: a commit in progress does not refuse it.
CancelAnyway(i) ==
    /\ Settled
    /\ setup.id = i
    /\ ClearsSession(Closed)
    /\ cancelled' = cancelled \cup {i}
    /\ UNCHANGED <<registryVars, stored, attempt, begun, committed, left>>

\* #handleSetupPairingCancel for the active session: refused during a commit.
Cancel(i) ==
    /\ Settled
    /\ setup.id = i
    /\ ~setup.committing
    /\ ClearsSession(Closed)
    /\ cancelled' = cancelled \cup {i}
    /\ UNCHANGED <<registryVars, stored, attempt, begun, committed, left>>

\* The session's timer, whatever is under way.
Expire ==
    /\ Settled
    /\ setup.id # NoSetup
    /\ ClearsSession(Closed)
    /\ UNCHANGED <<registryVars, stored, attempt, history, left>>

\* #handleSetupPairingRequest: the credential is issued to the one identity.
Issue(i) ==
    /\ Settled
    /\ attempt[i].pc = "pair"
    /\ setup.id = i
    /\ ~setup.completed
    /\ ~setup.committing
    /\ setup' = [setup EXCEPT !.enrolled = TRUE]
    /\ attempt' = [attempt EXCEPT ![i].pc = "issued"]
    /\ UNCHANGED <<registryVars, conn, link, stored, history, left>>

\* The daemon process ends and starts again; only the registry file survives.
Restart ==
    /\ Spends("restarts")
    /\ disk' \in IF saving = Idle THEN {disk} ELSE {disk, registry}
    /\ registry' = disk'
    /\ pins' = <<>>
    /\ saving' = Idle
    /\ setup' = Closed
    /\ conn' = <<>>
    /\ link' = IF link.open THEN Lost ELSE link
    /\ UNCHANGED <<stored, attempt, history>>
-----------------------------------------------------------------------------
(* receiveSetupPairingToken.                                               *)

\* The locals of a call that has returned and runs nothing more are gone.
Ended(a) ==
    IF a.over /\ a.pc = "ended"
    THEN [Fresh EXCEPT !.pc = "ended", !.durable = a.durable, !.over = TRUE, !.ok = a.ok]
    ELSE a

\* Attempt i in state a; the extension's other state does not change.
Becomes(i, a) ==
    /\ attempt' = [attempt EXCEPT ![i] = Ended(a)]
    /\ UNCHANGED <<registryVars, setup, history, left>>

Goes(i, pc) == Becomes(i, [attempt[i] EXCEPT !.pc = pc])

\* Mutant of RollsBack: an attempted durable commit is undone as well.
RollsBackDurable(a) ==
    IF a.rollback # "no" THEN a
    ELSE [a EXCEPT !.rollback = IF a.commit # "no" THEN "waiting" ELSE "connect"]

\* The memoised rollback: what it has to undo is decided when it is asked for.
RollsBack(a) ==
    IF a.rollback # "no" THEN a
    ELSE [a EXCEPT !.rollback = IF a.commit # "no" /\ ~a.durable THEN "waiting" ELSE "connect"]

Throws(i) == Becomes(i, RollsBack([attempt[i] EXCEPT !.pc = "ended"]))

Still == UNCHANGED <<conn, link, stored>>

\* A setup page or Settings starts an attempt for a session that was opened.
Start(i) ==
    /\ attempt[i].pc = "idle"
    /\ i <= begun
    /\ NoneInProgress
    /\ Becomes(i, [Fresh EXCEPT !.pc = "pair", !.prior = stored])
    /\ Still

\* The ticket, the identity or the exchange with the daemon fails.
PairFails(i) ==
    /\ attempt[i].pc \in {"pair", "issued"}
    /\ Throws(i)
    /\ Still

\* connect() is called for attempt i, which waits for it to return.
Tries(i, kind, token, pc) ==
    /\ attempt' = [attempt EXCEPT ![i] = [@ EXCEPT !.pc = pc, !.mine = link.gen + 1,
                                                   !.disturbed = TRUE]]
    /\ Connects(kind, token, IF kind = "ordinary" THEN NoSetup ELSE i)
    /\ UNCHANGED <<registryVars, setup, stored, history, left>>

Provisioning(i) ==
    /\ attempt[i].pc = "issued"
    /\ ~attempt[i].stopped
    /\ Tries(i, "provisioning", "derived", "provisionCall")

\* connect() has returned, early if a later one began meanwhile: the attempt
\* waits for the connection of the generation it then finds.
CallReturns(i) ==
    /\ attempt[i].pc \in Calls
    /\ link.gen > attempt[i].mine \/ link.step = "done"
    /\ Becomes(i, [attempt[i] EXCEPT !.mine = link.gen,
                     !.pc = CASE @ = "provisionCall" -> "provisionWait"
                              [] @ = "persistCall" -> "persistWait"
                              [] @ = "ordinaryCall" -> "ordinaryWait"
                              [] @ = "priorCall" -> "priorWait"])
    /\ Still

\* waitForSetupAuthentication returns.
Authenticated(i) ==
    /\ ~attempt[i].stopped /\ ~attempt[i].late
    /\ link.gen = attempt[i].mine
    /\ link.phase = "connected"

\* waitForSetupAuthentication throws.
NotAuthenticated(i) ==
    \/ attempt[i].stopped \/ attempt[i].late
    \/ link.gen # attempt[i].mine
    \/ link.phase = "down"

ProvisionWaited(i) ==
    /\ attempt[i].pc = "provisionWait"
    /\ \/ Authenticated(i) /\ Goes(i, "check")
       \/ NotAuthenticated(i) /\ Throws(i)
    /\ Still

\* What a call that has returned asked of storage.local before is answered first.
StorageInOrder(i) ==
    ~attempt[i].over =>
        \A j \in Setups : attempt[j].over => attempt[j].pc \notin {"check", "set", "putBack"}

\* The stored credential is read and compared; the timeout is not looked at
\* again before the new one is stored.
Check(i) ==
    /\ attempt[i].pc = "check"
    /\ StorageInOrder(i)
    /\ \/ /\ stored = attempt[i].prior
          /\ Becomes(i, [attempt[i] EXCEPT !.pc = "set", !.commit = "pending"])
       \/ Throws(i)
    /\ Still

\* storage.onChanged connects anew unless an attempt is in progress.
Store(i) ==
    /\ attempt[i].pc = "set"
    /\ stored' = "derived"
    /\ Becomes(i, [attempt[i] EXCEPT !.pc = "verify", !.commit = "done"])
    /\ IF NoneInProgress /\ stored # "derived" THEN Reconnects ELSE UNCHANGED <<conn, link>>

StoreFails(i) ==
    /\ attempt[i].pc = "set"
    /\ Becomes(i, RollsBack([attempt[i] EXCEPT !.pc = "ended", !.commit = "failed"]))
    /\ Still

Verify(i) ==
    /\ attempt[i].pc = "verify"
    /\ IF attempt[i].stopped \/ stored # "derived"
       THEN Throws(i)
       ELSE Becomes(i, [attempt[i] EXCEPT !.pc = "persist", !.durable = TRUE])
    /\ Still

\* The deadline is checked before every reconnect of the loop.
OutOfTime(i) ==
    /\ attempt[i].pc \in {"persist", "ordinary"}
    /\ attempt[i].stopped \/ attempt[i].late
    /\ Goes(i, "last")
    /\ Still

Persist(i) ==
    /\ attempt[i].pc = "persist"
    /\ ~attempt[i].stopped /\ ~attempt[i].late
    /\ Tries(i, "persisted", "derived", "persistCall")

PersistWaited(i) ==
    /\ attempt[i].pc = "persistWait"
    /\ \/ /\ Authenticated(i)
          /\ Becomes(i, [attempt[i] EXCEPT !.pc = "ended", !.over = TRUE, !.ok = TRUE])
       \/ NotAuthenticated(i) /\ Goes(i, "ordinary")
    /\ Still

Ordinary(i) ==
    /\ attempt[i].pc = "ordinary"
    /\ ~attempt[i].stopped /\ ~attempt[i].late
    /\ Tries(i, "ordinary", "derived", "ordinaryCall")

OrdinaryWaited(i) ==
    LET tries == attempt[i].tries + 1
        next(proved) == [attempt[i] EXCEPT !.tries = tries, !.proved = @ \/ proved,
                           !.pc = IF tries = MaxTries THEN "last" ELSE "persist"]
    IN  /\ attempt[i].pc = "ordinaryWait"
        /\ \/ Authenticated(i) /\ Becomes(i, next(TRUE))
           \/ NotAuthenticated(i) /\ Becomes(i, next(FALSE))
        /\ Still

MayTryPrior(i) ==
    /\ ~attempt[i].proved /\ ~attempt[i].stopped /\ ~attempt[i].late
    /\ attempt[i].prior # None

TryPrior(i) ==
    /\ attempt[i].pc = "last"
    /\ MayTryPrior(i)
    /\ Tries(i, "ordinary", attempt[i].prior, "priorCall")

GiveUp(i) ==
    /\ attempt[i].pc = "last"
    /\ ~MayTryPrior(i)
    /\ Throws(i)
    /\ Still

PriorWaited(i) ==
    /\ attempt[i].pc = "priorWait"
    /\ \/ Authenticated(i) /\ Goes(i, "putBack")
       \/ NotAuthenticated(i) /\ Throws(i)
    /\ Still

\* restoreStoredTokenIfCurrent.
Restores(i) ==
    \/ stored' = IF stored = "derived" THEN attempt[i].prior ELSE stored
    \/ UNCHANGED stored

PutBack(i) ==
    /\ attempt[i].pc = "putBack"
    /\ Restores(i)
    /\ Throws(i)
    /\ IF NoneInProgress /\ stored' # stored THEN Reconnects ELSE UNCHANGED <<conn, link>>

-----------------------------------------------------------------------------
(* Time, the rollback, and the end of the worker.                          *)

Elapse(i) ==
    /\ InProgress(i)
    /\ ~attempt[i].late
    /\ Becomes(i, [attempt[i] EXCEPT !.late = TRUE])
    /\ Still

\* The timeout wins the race; the operation itself goes on until it looks.
Timeout(i) ==
    /\ InProgress(i)
    /\ attempt[i].late
    /\ ~attempt[i].stopped
    /\ Becomes(i, RollsBack([attempt[i] EXCEPT !.stopped = TRUE]))
    /\ Still

\* Mutant of TakeBack: a failed write is waited for as well.
TakeBackStored(i) ==
    /\ attempt[i].rollback = "waiting"
    /\ attempt[i].commit = "done"
    /\ Restores(i)
    /\ Becomes(i, [attempt[i] EXCEPT !.rollback = "connect"])
    /\ UNCHANGED <<conn, link>>

\* The rollback waits for the write it undoes; a failure ends it early.
TakeBack(i) ==
    /\ attempt[i].rollback = "waiting"
    /\ attempt[i].commit # "pending"
    /\ \/ /\ Restores(i)
          /\ Becomes(i, [attempt[i] EXCEPT !.rollback = "connect"])
       \/ /\ UNCHANGED stored
          /\ Becomes(i, [attempt[i] EXCEPT !.rollback = "over", !.over = TRUE])
    /\ UNCHANGED <<conn, link>>

\* The main connection is restored if it was disturbed, and the call returns.
Return(i) ==
    /\ attempt[i].rollback = "connect"
    /\ Becomes(i, [attempt[i] EXCEPT !.rollback = "over", !.over = TRUE])
    /\ IF attempt[i].disturbed THEN Reconnects ELSE UNCHANGED <<conn, link>>
    /\ UNCHANGED stored

\* The browser ends the worker and starts it again: what storage.local was
\* asked to hold may have reached it.
Kill ==
    /\ Spends("kills")
    /\ attempt' = [i \in Setups |->
                      IF attempt[i].pc = "idle" THEN attempt[i]
                      ELSE Ended([attempt[i] EXCEPT !.pc = "ended", !.over = TRUE])]
    /\ stored' \in IF \E i \in Setups : attempt[i].pc = "set" THEN {stored, "derived"}
                   ELSE {stored}
    /\ Reconnects
    /\ UNCHANGED <<registryVars, setup, history>>

-----------------------------------------------------------------------------
Daemon ==
    \/ \E g \in DOMAIN conn : ClientHello(g) \/ Provision(g) \/ Authenticate(g)
    \/ PinRepeats \/ PinRefused \/ PinWrites \/ PinSaved \/ PinSaveFails
    \/ Begin \/ Expire \/ Restart
    \/ \E i \in Setups : Cancel(i) \/ Issue(i)

Main ==
    \/ ReadToken \/ OpenSocket
    \/ \E g \in DOMAIN conn : Challenged(g) \/ HelloAck(g) \/ ConnectionLost(g)
    \/ ReconnectTimer \/ UserReconnects \/ UserRemovesPairing \/ Kill

\* The steps of an attempt that no one else has to allow.
Advances(i) ==
    \/ PairFails(i) \/ Provisioning(i) \/ CallReturns(i) \/ ProvisionWaited(i)
    \/ Check(i) \/ Store(i) \/ StoreFails(i) \/ Verify(i)
    \/ OutOfTime(i) \/ Persist(i) \/ PersistWaited(i) \/ Ordinary(i) \/ OrdinaryWaited(i)
    \/ TryPrior(i) \/ GiveUp(i) \/ PriorWaited(i) \/ PutBack(i)
    \/ TakeBack(i) \/ Return(i)

Next ==
    \/ Daemon
    \/ Main
    \/ \E i \in Setups : Start(i) \/ Advances(i) \/ Elapse(i) \/ Timeout(i)

Spec == Init /\ [][Next]_vars

\* Time passes, timers fire, storage and the registry's file answer, and
\* connect() gets on; the user, the network and the daemon's answers owe nothing.
FairSpec ==
    /\ Spec
    /\ \A i \in Setups : WF_vars(Advances(i)) /\ WF_vars(Elapse(i)) /\ WF_vars(Timeout(i))
    /\ WF_vars(ReadToken \/ OpenSocket)
    /\ WF_vars(PinRepeats \/ PinRefused \/ PinWrites \/ PinSaved \/ PinSaveFails)

-----------------------------------------------------------------------------
(* Correctness.                                                            *)

\* The state is well formed; only the connection of the present generation is
\* open; at most one attempt is in progress.
TypeOK ==
    /\ registry \in Modes /\ disk \in Modes
    /\ pins \in Seq([gen : Nat, mode : Modes \ {None}, setup : Setups \cup {NoSetup}])
    /\ saving \in Modes \cup {Idle}
    /\ setup \in Session
    /\ conn \in [DOMAIN conn -> Connection]
    /\ link \in Link
    /\ stored \in Modes
    /\ attempt \in [Setups -> Attempt]
    /\ begun \in 0 .. MaxSetups
    /\ cancelled \subseteq Setups /\ committed \subseteq Setups
    /\ link.open => link.gen \in DOMAIN conn
    /\ \A g \in DOMAIN conn : ~Live(g) => conn[g].at \in {"signed", "pinning"}
    /\ \A i, j \in Setups : InProgress(i) /\ InProgress(j) => i = j

\* The extension never falls back to the legacy credential when the daemon has
\* replaced it, whatever acknowledgements, saves and workers were lost
\* (SECURITY.md:28, "an acknowledgement loss cannot roll back a committed
\* credential").  Two things still bring that about: the user reconnects while
\* the old credential is being proved, or a save fails after the rename and
\* the daemon restarts before it is repeated.
NeverRolledBack ==
    \/ ~(registry = "derived" /\ saving = Idle /\ stored = "legacy")
    \/ Happened("clicks")
    \/ Happened("late") /\ Happened("restarts")

\* A setup replaces the daemon's credential only after its attempt stored the
\* new one and read it back (README.md:291), and a completed receipt stands for
\* an installation that is durably pinned as derived-v1, through restarts of
\* the daemon and failing saves.
ReceiptIsDurable ==
    /\ TypeOK
    /\ \A i \in committed : attempt[i].durable
    /\ setup.completed => registry = "derived" /\ disk = "derived"

\* What is reported is true and stays true: a setup the daemon reported as
\* cancelled pins nothing afterwards; an attempt that reports success has left
\* both sides with the derived credential, the daemon's side on disk; and the
\* pinned mode on disk is never weakened.
ReportsAreTrue ==
    [][/\ \A i \in committed' \ committed : i \notin cancelled
       /\ \A i \in Setups : ~attempt[i].ok /\ attempt'[i].ok =>
             stored = "derived" /\ registry = "derived" /\ disk = "derived"
       /\ disk = "derived" => disk' = "derived"]_vars

\* Every attempt returns, although it waits for storage, connections and the
\* daemon, so the settings page cannot stay busy; and a commit does not block
\* the cancellation of its setup for ever.
SetupsEnd ==
    /\ \A i \in Setups : InProgress(i) ~> ~InProgress(i)
    /\ setup.committing ~> ~setup.committing
=============================================================================
