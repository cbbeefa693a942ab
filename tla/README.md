# BrowseWeave in TLA+

BrowseWeave lets MCP clients (agents) drive a person's own browser. An MCP server
process speaks to a daemon over a local socket; the daemon speaks to a browser
extension over an authenticated loopback WebSocket; sensitive actions wait for a
person's confirmation in the client. This directory models the parts of the
program whose correctness depends on the order of things: model-checked with TLC
on small instances and, where it matters most, proved with TLAPS for every value
of the constants.

    tlc -config MCCommandBroker.cfg MCCommandBroker     # any run: its module and cfg
    tlapm CommandBrokerProofs.tla                       # any module of proofs

`PROJECT.json` lists components, runs, hazards, theorems, the mutants that break
each property, and for every definition the source lines it stands for. Below,
`D` is `src/src/daemon/runtime.ts` and `X` is
`src/extension/src/background/runtime.ts`; other paths are relative to `src/`.

| module | what it is | run | proofs |
| --- | --- | --- | --- |
| `ApprovalGate` | abstract: the life of an identifier an action can be approved under | `broker` | |
| `CommandBroker` | the daemon's command and approval core; implements `ApprovalGate` | `broker` | `CommandBrokerProofs` |
| `McpCalls` | a tool call from the MCP server through one IPC connection per request to the extension and back | `mcp_calls` | `McpCallsProofs` |
| `BrowserLink` | the connection between extension and daemon, both ends | `browser_link` | `BrowserLinkProofs` |
| `CommandExecution` | the extension's worker between the socket and the pages: queues, pauses, used approvals, credential ledgers | `command_execution` | `CommandExecutionProofs` |
| `ManagedTabs` | the ledger of tabs per agent, its lock, its queues | `managed_tabs` | `ManagedTabsProofs` |
| `PageActions` | the content script that acts on a page that changes under it | `page_actions`, `submit_retry` | `PageActionsProofs` |
| `PageReading` | snapshots, deltas, cursors, screenshots and visual clicks | `page_reading` | |
| `SetupPairing` | the two-phase setup of a credential: extension, daemon, key registry | `setup_pairing` | `SetupPairingProofs` |
| `GuidedSetup` | the ways to a pairing: command line, page, native helper | `guided_setup` | `GuidedSetupProofs` |
| `Installation` | what setup, repair, the helper and uninstall leave on the machine | `installation` | |
| `AuditLog` | the daemon's audit log and its coalescer | `audit_log` | |
| `MC*` and `*.cfg` | the instances TLC checks | | |

## 1. Inventory

### The daemon (one Node.js process, one event loop)

**Command and approval broker** (`D:1651-2400`, `autonomy.ts`). Registered browser
sessions, pending commands, pending approvals; routes a command, takes the
extension's answer, raises, decides, expires and spends an approval, grants under
the owner's policy, reads a file to attach, drops what belongs to a browser or a
client that leaves. Hard: the timer, the answer, the disconnect and the stop all
want to answer one request; two requests recheck one approval; a session is
replaced while a file is read. Correct when a confirmation is used once, for what
was confirmed; nobody's request is lost or answered twice; nothing outlives the
session it belongs to; pools keep their limits.

**Browser sessions and handshake** (`D:490-1216`). A socket authenticates by a
challenge bound to its installation's credential, replaces an older session, and
is watched by a heartbeat. Hard: `pin()` is awaited in the middle while sockets,
sessions and setups change. **Key registry** (`key-registry.ts`): which
installations are pinned and how, in memory and in a file; a failed save restores
memory. Correct when the mode is never weakened and success means durable.
**Setup sessions** (`D:644-792`, `D:1467-1650`). **IPC server** (`D:1217-1466`) and
client (`bridge/ipc-client.ts`): a mutual handshake and one request per connection.
**Audit log** (`audit.ts`): a bounded queue drained into a file that rotates; each
file operation can fail while events arrive. **File attachment** (`file-attach.ts`),
**policy files** (`policy.ts`).

### The extension (one background worker that the browser may kill)

**Connection** (`X:543-720`, `handshake.ts`, `device-identity.ts`): `connect()`, its
generations, timers and alarm. Correct when both ends mean the same connection and
a paired browser ends up connected. **Command execution** (`X:1080-1420`): a ledger
of used approvals and a queue per tab. **Human pause** (`X:1260-1436`): a tab whose
page needs a person is paused, with its origin. **Managed tabs** (`managed-tabs.ts`,
`X:2300-2386`): which agent a tab was opened for, under a lock, copied to session
storage; correct when no agent acts on another's tabs and every tab stays accounted
for. **Credential ledgers** (`credential-store.ts`, `credentials.ts`): used once,
never after a saved revocation. **Snapshots, cursors, screenshots** (`X:1516-2260`,
`pure.ts`). **Content script** (`content/runtime.ts`): acts on elements whose page
relabels, moves and replaces them; correct when what a person confirmed is what is
done. **Setup** (`X:676-966`, `setup-pairing.ts`). **Extension pages**: rendering.

### Around them

The **MCP server** (`mcp/server.ts`), the **native helper** (`native/`), **service and
host installation**, **setup flow and CLI** (`cli/application.ts`, `setup/`), **client
configuration** (`clients/`), **build scripts**.

### Interactions

Agent -> MCP server: a tool call. MCP server -> daemon: one request per IPC
connection; closing it abandons the request. Daemon -> extension: commands, each
with an id, its session's generation and possibly an approval. Extension -> daemon:
results, some of which ask for approval. Extension <-> browser and content script:
asynchronous calls. Installer, page or helper -> daemon: setup begin, status, cancel.

How the modules meet: `McpCalls` assumes of the daemon's approvals what
`CommandBroker` does for several operations and changing targets, and of the
extension what `CommandExecution` and `PageActions` do in detail. `CommandBroker`
takes the end of a session as an event; `BrowserLink` says when sessions end.
`GuidedSetup` has in one step what `SetupPairing` does between the issue of a
credential and its commit. `ManagedTabs` has the commands that open and close tabs,
`CommandExecution` those that act in one.

`PROJECT.json` names under "hazards" each place where this is hard to test, with the
property that covers it or the reason none does.

## 2. What is modelled

### CommandBroker and ApprovalGate

The daemon is single threaded and awaits nothing on these paths but the file read of
`attach_file`; so every action is one handler run to completion, and an attachment
has two (`SubmitAttach`, then `AttachReadDone` or `AttachReadFails`).

| state | code |
| --- | --- |
| `session[b]` | `#browserSessions`: a generation number and the socket's readyState |
| `request[r]` | an IPC connection: what became of its one request; whether the client left |
| `commands` | `#pendingCommands`, with the client, grant, fingerprint and counters of each |
| `approvals` | `#pendingApprovals`; `lapsed` says `expiresAt` is past although its timer has not run |
| `nextId` | `randomUUID`; also the order in which a `Map` iterates |
| `decisions`, `delivered` | history: accepted human decisions, approved commands sent |

An extension's answer is one of `ResultFinal`, `ResultRejected`, `ResultSpendsGrant`,
`ResultAlreadyAsked`, `ResultPolicyGrant`, `ResultNotAskable`, `ResultAsks`: the
branches of `#handleExtensionResult` (`D:1838-1979`), each with the search for a
matching approval (`Matching`, `Swept`), the cancellation of an unspent one and the
re-routing of the command it makes. An operation stands for an action with canonical
parameters; fingerprints and categories are chosen freely for each answer, as the
page may change. `Register` covers replacement, `Stop` the orderly end, `Crash` a
sudden one.

`ApprovalGate` is what the owner is promised of an identifier: asked for one subject,
confirmed or withdrawn, used at most once and for that subject; or minted by the
policy and used in the same step; never back once gone; at most one use per step.
`Stage` and `SubjectOf` are the refinement mapping.

### McpCalls

`call[c]` is where `invokeAction()` and `confirmInSession()` are; `conn[k]` is one
connection of `callBridge()` with what is under way on it (hello, challenge, request,
answer, close) and which side still holds it; `cmd[k]` the command at the extension;
`grant[i]` an entry of `#pendingApprovals`; `daemon` is up, frozen (its event loop
hangs) or down. The client's timer, the daemon's and the handshake's are separate
actions. The history `past` has who agreed to an approval and how often it ran.
Agents may die, answers be lost, approvals expire, connections be refused.

### BrowserLink

`stage[c]` is how far the generation `c` of `connect()` and its socket are at the
extension, `phase[c]` what the daemon's handlers of that socket wait for, `link[c]`
its readyState there, `up[c]` and `down[c]` the frames under way. `ext` has
`connectionGeneration`, the socket, the timers, the alarm and the stored token; `dm`
the registry's queue of `pin()` and the session. A close is a frame after what was
sent; an end that closed drops (the browser) or still handles (`ws`) what arrives.

| actions | code |
| --- | --- |
| `Connect` in `Booted`, `TimerFires`, `AlarmFires`, `UserReconnects`, `PairingRemoved` | everything that calls `connect()`, up to its first wait |
| `TokenRead`, `IdentityRead`, `ExtOpen`, `ExtChallenge`, `ChallengeVerified`, `HelloSigned`, `ExtAck` | the waits of `connect()` and `onmessage` |
| `ExtPing`, `ExtCloseFrame`, `ExtOnClose`, `ExtForget`, `Refused`, `AuthTimeout` | the life and end of the socket |
| `Suspended`, `Killed`, `BrowserEvent` | the worker |
| `Accept`, `ClientHello`, `Hello`, `Pinned`, `Pong`, `CloseArrives`, `HelloTimeout`, `Heartbeat` | the daemon's handlers |
| `DaemonStops`, `DaemonStarts` | the process |

Assumed: one paired browser; a worker is suspended only with its sockets closed and
a pending timer at its longest delay, as thirty idle seconds imply.

### CommandExecution

A slot runs one request from arrival to answer; `task[s].phase` is the wait it is in.
`tail[t]` and `task[s].after` are the promise chain of a tab (`runSerializedMutation`);
`mem` the worker's memory (used approvals, interventions, paused origins, both
ledgers), `saved` the storage; `holder[l]` has the lock of a ledger. A kill loses the
memory, and a write under way arrives or not. `past` records what was applied, acted
on and revoked; revoked is what a saved revocation took out.

### ManagedTabs

A call of the browser's tabs API is a step of its own. What the lock's holder does to
the ledger and to session storage between two such calls is one step: nobody else
reads or writes them. The lock and the per-tab mutation queues are chains of promises,
so first come, first served: `lock` is a sequence, `tail[i]` and `task[t].after` are
the chain of tab `i`.

| actions | code |
| --- | --- |
| `Submit`, `Guard` | `executeCommandWithGuards`: the ownership check, then the queue |
| `BeginOpening`, `Create`, `Adopt`, `TabCreated`, `TabRefused`, `SaveCreated`, `SaveCreatedFails`, `RollBack`, `Navigate` | `new_tab` with `createManagedTab` and `blankManagedTabForNavigation` |
| `BeginClose`, `Closing`, `Remove`, `Untrack` | `close_tab` |
| `SubmitUnqueued`, `List`, `Select`, `SelectRefused`, `Sweep`, `Swept` | `list_tabs`, `cleanup_tabs`, the popup's cleanup |
| `Drive`, `TargetGone` | every other command that acts on a page |
| `StorageFails`, `Listener` | loading or reconciling fails; `tabs.onRemoved` |
| `UserOpens`, `UserCloses`, `UserActivates`, `Kill` | the person, the browser |

Who uses the browser, what each of them sends, the allowance, the tabs of a version 1
ledger and the kills still to come are a `cast`, a variable that no step changes: one run
goes through several, and the theorems hold for all.

`lost` marks the tabs whose record a kill prevented: they cannot be told from a
user's tab by any later worker, and the properties say so instead of hiding it.

### PageActions and PageReading

`PageActions`: `job` is one message from the background to the script, `page` the
labels, places and document of the elements. Labels and places change at every wait
and inside every event handler (`Handled`); `Guarded` is `guardRisks`, `Dispatches`
one event with the check in front of it, where it has one: the assignment of a file
after `focus()` and the newline of Enter have none (`Unchecked`), and the handlers of
the event before them run first. `granted` has what may be sent approved: at once what
the policy grants (`ByPolicy`), and what a person confirmed only after the daemon's
revalidation came back with the fingerprint that was confirmed (`Revalidates`,
`Rechecked`).

`PageReading`: a snapshot is cut to a budget and gets a cursor (`Parts`, `Shortened`,
`Cursor`), if the cursor can name the frames it has to: `MaxFrame`, `MaxOffset` and
`MaxCursor` are its limits (`Formatted`, `pure.ts:609`); a delta is made against a snapshot
the worker may have forgotten; a screenshot is bound to the view and checked again at
the click. An element has size 1 and an id is what it is a digest of.

### SetupPairing, GuidedSetup, Installation

`SetupPairing`: one browser installation with one signing key. `attempt[i]` is a call
of `receiveSetupPairingToken`; `link` and `conn` are the connection and the sockets by
generation, `registry`, `disk`, `pins`, `saving` the key registry, `setup` the daemon's
session, `stored` the credential in `storage.local`. The timeout of an attempt is two
steps (`Elapse`, `Timeout`), since the operation races it and goes on until it looks;
the rollback is a process of its own. Assumed, and visible in the module: no legacy
enrolment window and no second requester; the daemon handles what was sent on older
sockets first (`InOrder`); `storage.local` answers in the order it was asked
(`StorageInOrder`); a scheduled reconnect (at least 750 ms) never overtakes the 25 ms
poll of a waiting setup; setup ids are fresh; the daemon handles nothing between a
`pin()` on an idle queue and its write (`Settled`).

`GuidedSetup`: command lines, each with its ticket in the extension's folder, its page
and its poll; browsers of which some were paired before; the daemon's one session; the
native helper. `Installation`: the artefacts on disk, systemd's unit and the code that
runs, and command lines that go through the steps of their `Plan`, fail, are killed or
overlap. Linux with systemd, one agent's skill. The look at an artefact is one step and
its replacement or removal a later one, so the user may edit in between (`late`); what a
rename or removal does itself is one step. `orphan` marks the runs that met a daemon
without its unit.

### AuditLog

An event is a number, a line the set of events it reports, so that what is lost,
repeated or counted can be said exactly. A record that finds the queue full counts as
one dropped event, whatever it stands for (`audit.ts:140`); its other events are
`uncounted`. Each file operation of the drain and the
rotation ends in a step of its own, well or badly; `windows` is the coalescer.

## 3. What is checked

Every property is also checked to fail for some plausible bug: `PROJECT.json` pairs it
with a changed definition, written next to the original. One run, `submit_retry`,
shows that a statement of the source does not hold (section 5).

| run | instance | properties |
| --- | --- | --- |
| `broker` | 1 browser whose sessions are replaced, 2 requests; attachments, credentials, oversized operations, changing targets, policy; fairness | `TypeOK`, `GrantAuthorised`, `SingleUse`, `Consistent`, `ImplementsGate`, `AllEnd` |
| `mcp_calls` | 2 calls for one sensitive action, 3 connections, 1 fault; fairness | `Confirmed`, `Truthful`, `CallsReturn` |
| `browser_link` | 3 connections, 2 faults; fairness | `Agreement`, `PlacesComeBack`, `Reconnects` |
| `command_execution` | 2 requests at a time in a tab, 1 failing save, 1 kill, 1 navigation; fairness | `UsedOnce`, `RevokedStaysRevoked`, `OneAtATime`, `TasksEnd` |
| `managed_tabs` | six casts of senders (see `MCManagedTabs`) | `TabsRespected`, `LedgerTrue`, `NoBlankLeaked`, `NobodyStuck` |
| `page_actions` | 3 elements, 2 documents, 2 changes at any point, 1 command with all that becomes of its approvals; fairness | `ActsAsConfirmed`, `SecretsInPlace`, `PartialReport`, `CommandsEnd` |
| `submit_retry` | a batch with a risky submit, an approval, its retry, a page that stays as it is | `RetryRunsTheBatch`, violated |
| `page_reading` | 2 frames, 3 commands, 1 change, 1 fault | `HoldsWhatWasThere`, `ReadsThrough`, `ClicksWhatIsShown` |
| `setup_pairing` | 2 tries and one of: drop, timer, click, kill, restart, late fault; fairness | `NeverRolledBack`, `ReceiptIsDurable`, `ReportsAreTrue`, `SetupsEnd` |
| `guided_setup` | 2 command lines, 2 browsers (1 paired), 2 clicks, 1 event | `Contained`, `SuccessIsTrue`, `EndedMeansEnded` |
| `installation` | 2 runs of 2 versions, 2 faults, edits of any artefact | `UserFilesKept`, `Repairs`, `CleansUpAfterItself` |
| `audit_log` | queue of 1, files of 2, 5 events, 2 faults, 1 kill; fairness | `Remembered`, `OnDisk`, `CloseEnds` |

Several properties are conjunctions of parts that belong together: `Consistent` of the
broker's ownership, its limits and the sessions approvals follow; `AllEnd` of requests
and approvals; `UsedOnce` of credentials and approvals; `Remembered` of `Accounted` and
`StormBounded`; `Contained` of one browser per setup and nothing left behind. One of
them in each module contains the type invariant.

### Bounds

*Broker.* Two requests can race for one approval, and a third would take the place of
one of them. One browser has two sessions, one after the other; another browser shares
only the pools and the identifiers with it, and the theorems are for any number of them.
Pools of two, or one, fill; `MaxPolicyApprovals` 1 (2 in the code) lets the
budget run out. `MaxIds` (5) and `MaxGenerations` cap fresh identifiers and
registrations: identifiers influence no guard beyond their order. With the theorems
below the run is for finding mistakes; the instance need not grow.

*Calls.* Two calls share approvals, one of them from a client that cannot ask; three
connections let a lost one linger next to two new ones, and three identifiers an
expired approval next to a new one. Two faults and five connections were run by hand
for the safety properties.

*Link.* Three connections: an old one, one in use, a new one; one more only waits for
an identifier to be forgotten. Two faults combine any two of stop, kill, stall, click
and failure. The backoff has two delays.

*Execution.* Three slots, one for what the browser's events start; a navigation, a
failing save and a kill in any order between three requests. One tab: the queues of
tabs share nothing but the ledgers.

*Tabs.* Six casts: two agents; one agent and kills of the worker; one that repeats risky
`new_tab` commands; one whose confirmed ones run together; one and the popup's cleanup,
with a tab of a version 1 ledger; one and a client without identity. An allowance of one
(or two) tabs and a profile ceiling of two stand for 10 and 20, so that one tab more
reaches them. Two commands show every pair of interleavings; the lock makes a third wait
for one of them. `MaxTabs` caps tabs ever opened; where it is reached `TabCreated` is
disabled and `TabRefused` remains.

*Pages.* Three elements, so that a batch has a field before and one after the one that
changes, and one element can take another's place; two documents; two
changes are put at every wait and in every handler. `page_reading`: a budget of 5 with
headers of 2 cuts a page of two frames in every way, `MaxElements` 1 (2 by hand) makes
a frame longer than its limit, a cache of two forgets at the third snapshot.
The cursor's limits are just what the two frames of at most three elements need.

*Setup.* Two tries of the persisted reconnect (3 in the code) show a try after a failed
one; one event of each kind is enough for a side to forget or to overtake once, and two
events were run by hand for safety. `MaxSetups` is 1, so that a setup that replaces
another one is not in this run; `ReceiptKept` and `CredentialKept` are proved for any
number. `guided_setup`: one command line with two events,
too, by hand. `installation`: three runs with one fault, too, by hand; two faults are an
edit and a failure, or two failures. *Audit:* the queue and the files are filled by one
line more; two faults are what the code's fallback needs to be exhausted.

Symmetry is used only in runs without liveness. `CHECK_DEADLOCK` is off where everything
may be over once the bounds are used up.

### Fairness

Only what the program schedules itself.

- Broker: command timers, approval timers, the end of a file read; extensions, people,
  clients and sockets owe nothing.
- Calls: processes run; the MCP SDK ends an elicitation by its timeout; systemd starts
  the daemon again. That a frozen daemon thaws is not assumed.
- Link: both event loops handle what arrived, timers and alarms fire, and systemd
  restarts the service (`Restart=` in `service-plan.ts:332`). Nothing else is sure.
- Execution: the worker runs ready promises; pages and storage answer, well or badly.
- Tabs: `NobodyStuck` needs no fairness; it says that no commands wait in a circle and that
  one that waits for nobody has a step to take, whatever the person does.
- Page actions: the script's own steps. Setup: the attempt's steps, its timers, storage
  and the registry file; not the network, the user or the daemon's answers, which is why
  `SetupsEnd` needs the timeout. Audit: file operations end, timers fire.

## 4. What is proved

Everything here holds for any sets of browsers, requests, operations, calls, setups,
command lines, connections, agents, pages and identifiers and any limits, under the named
assumptions of the modules (`ConstantsAssumption`, `NamesAssumption`, `BoundsAssumption`,
`LimitsAssumption`, `OperationsAssumption`, `KindsAssumption`), which say that names are
distinct, limits are numbers, and pages and commands are well formed; TLC evaluates them
in the runs.

| theorem | statement |
| --- | --- |
| `CommandBrokerProofs!TypeCorrect` | `Spec => []TypeOK` |
| `CommandBrokerProofs!GrantsAreAuthorised` | `Spec => []GrantAuthorised` |
| `CommandBrokerProofs!GrantsAreSingleUse` | `Spec => []SingleUse` |
| `CommandBrokerProofs!BrokerIsConsistent` | `Spec => []Consistent` |
| `CommandBrokerProofs!BrokerImplementsGate` | `Spec => ImplementsGate` |
| `McpCallsProofs!CallsConfirmed`, `CallsTruthful` | `Spec => []Confirmed`, `Spec => []Truthful` |
| `BrowserLinkProofs!LinkAgrees`, `LinkPlaces` | `Spec => []Agreement`, `Spec => []PlacesComeBack` |
| `CommandExecutionProofs!OneInATab` | `Spec => []OneAtATime` |
| `CommandExecutionProofs!UsedAtMostOnce`, `RevokedForGood` | `Spec => []UsedOnce`, `Spec => []RevokedStaysRevoked` |
| `ManagedTabsProofs!Respected`, `Ledger` | `Spec => []TabsRespected`, `Spec => []LedgerTrue` |
| `ManagedTabsProofs!BlanksReused` | `Spec => NoBlankLeaked` |
| `ManagedTabsProofs!NoCircles` | `Spec => []NoCircle`, the second half of `NobodyStuck` |
| `PageActionsProofs!ActsOnlyAsConfirmed`, `SecretsStayInPlace` | `Spec => []ActsAsConfirmed`, `Spec => []SecretsInPlace` |
| `PageActionsProofs!ReportsWhatWasFilled` | `Spec => []PartialReport` |
| `PageActionsProofs!RiskySubmitNeverClicked` | `Spec => []NoRiskySubmit`: the reason `submit_retry` is violated |
| `SetupPairingProofs!CredentialKept`, `ReceiptKept` | `Spec => []NeverRolledBack`, `Spec => []ReceiptIsDurable` |
| `SetupPairingProofs!ReportsKept` | `Spec => ReportsAreTrue` |
| `GuidedSetupProofs!SetupsContained`, `SuccessesAreTrue` | `Spec => []Contained`, `Spec => []SuccessIsTrue` |
| `GuidedSetupProofs!EndsAreEnds` | `Spec => EndedMeansEnded` |

**Authority of grants.** `GrantAuthorised` and `SingleUse` are not inductive: they speak
of what was sent, and say nothing of an approval that is about to be spent. `AuthInv`
adds what makes a confirmed approval trustworthy: it is backed by an accepted decision
for the same subject (`Backed`), a decided approval that is still there was confirmed
(`DecidedOnce`), and what was sent carries issued identifiers (`Issued`), so that a fresh
one cannot meet an old delivery. The broker has some twenty actions; the proof does not
go through `AuthInv` for each. `StepKind` shows once that every step is *neutral* (what
it leaves of the approvals is unchanged, or new and unconfirmed), a *decision* or a
*delivery*, and three lemmas keep `AuthInv` over those. Types come first, action by
action, from lemmas about what searching, sweeping and taking leave of a map (`SubMap`).

**Refinement.** The same three kinds of steps are mapped: a neutral step moves every
identifier along the gate by asking, withdrawing or nothing, a decision confirms or
withdraws one, a delivery uses one (`StepMoves`); any such move is a step of
`ApprovalGate` or a stutter (`MovesAreGateSteps`).

**Consistency.** `ConsInv` says that a waiting request is waited for by exactly one
thing, a command or a file read, and that what was sent for it counts against its
budget. It is proved from the request's side: `StepCourses` shows that in every step
every request stays, ends, starts reading, begins, or has its command replaced under a
grant (`Course`), and each course keeps `ConsInv`. The limits follow from what each step
does to the sizes of the pools (`PoolsStep`), and that approvals follow their session
from what it does to a browser (`StepFollows`).

**Calls.** `CallsInv` ties the three sides of a request together. `Owned` and `Routed`: a
connection that is in use is its owner's, and the owner waits on it. `Acted`: a command
that ran was approved and has been counted once. `Spent`, `Meant`, `Refused`: an approval
that ran is gone; one on its way was asked for by the call that carries it; one that a
call reports as refused is gone and never ran. `Confirmed` and `Truthful` alone would be
broken by a retry whose approval another call had used.

**Link.** `LinkInv` follows each connection at both ends: `InStep` relates the stage at
the extension, the phase at the daemon and the frames under way (a client hello is under
way at most once and only before the challenge, and so on); `Leaving` says that what the
extension closed or left will be told; `Sockets`, `Pinning` and `Sessions` tie them to the
one socket of the worker, the registry's queue and the daemon's session. Most steps touch
one connection, and `ExtMoves` and `DaemonMoves` reduce them to it; the exceptions are
`Connect` and `Killed`, which leave a socket (`LeftBehind`), `Pinned`, which closes the
session before, and the daemon's stop. `Agreement` follows: an authenticated open
connection is live at the extension, so in its session phase at the daemon, and only
the current session is open in that phase.

**Execution.** `ExecInv` has eight parts. `Queues` gives the requests of a tab numbers:
each waits for the one numbered before it, only the first may have started, the tail is
the last; two that act at once would both be first. It holds for open tabs, as closing a
tab forgets its queue. `Places` says where a credential can be: with the request that
brings it (`NotYet`), in a ledger, in storage or put aside for a rollback (`Live`), in
the hands of the request that took it out (`TakenOut`), or applied or revoked (`Gone`),
and that none is both live and gone (`NoneLeft`). `SingleUse` and `RevokedStaysRevoked`
alone are not inductive: after a kill they rest on storage not holding what is gone,
that on the save under the lock (`Locked`), and that on no other ledger ever having held
it (`Homes`). `StepEffects` reduces the twenty-odd actions to what they do to ledgers,
slots and history, and each part is proved over those (`Effect`).

**Tabs.** `Inv` says what the lock means. `Locked`: its queue has no command twice, and
only the first is in the middle of its work. `Ledgers`: both ledgers, in memory and in
storage, give tabs only to the agents they were opened for, and are within the allowances.
`Accounted` and `Legacy`: no open tab leaves them. `Relies` is what each command found out
in an earlier step and acts on later, from the ownership check to the turn in the queue,
from the room for one more tab to its record, from the choice of a cleanup to its last
tab. It stays true because tabs never change hands, open again or become blank again
(`TabsStep`), because the ledger only loses tabs that are closed, are nobody's any longer
or are lost in a kill (`Shrinks`), and because a command that relies on the ledger itself
has the lock. So each of some thirty actions is shown to be a `TabsStep`, to shrink the
ledger or record one tab, and to move at most one command. `TabsRespected` is then a
matter of reading `Relies`; `WithinAllowance` counts the ledger, or the ledger with the
tab that is just being recorded. `NoCircle` rests on numbers for the commands in mutation
queues, each higher than that of the command it waits for (`Numbered`); the lock's queue
numbers the others, and no command is in both.

**Page actions.** The page may relabel, move or replace elements at every wait and
inside every event handler; what an event does was settled when its token was compared
(`Checked`), and of the two events without a comparison `Preceded` says that one with a
comparison came just before, in the same document and to the same element, and that
`ActsAsConfirmed` asks no more of them than that. So `Inv` speaks of the token: what the
command is about was acceptable in it (`Accepted`), and the guard allowed it
(`Cleared`); as soon as the comparison finds the page unchanged, both hold of the
element the event acts on. `Position`, `Progress` and `Documents` say how far a batch is
and separate what this run of a command did from what an earlier run, whose answer was
lost, did in another document; `OneDocument` and `BatchPrint` tie an approval to its
document and to the action it was asked for.

**Setup pairing.** `NeverRolledBack` relates what the extension stores to what the
daemon has pinned, and everything between them may be lost, late or repeated; `SetupInv`
says what may be under way. `Fits` ties how far a call is to what it has stored and
still may put back, and `Handshakes` ties each socket to the mode its proof was checked
in. `Queued`: `pin()` calls are in the order of their connections, and a signed hello
is newer than all of them. `Registry`: only a derived mode is ever written, and memory
and file agree unless a save failed behind the rename. `Sessions` and `Stored`: who
still may commit a setup holds its session or outlives it, and has the new credential
durably. `Exclusive`: while one call works on the credential, no call that is over still
writes it. `Proves`: an acknowledged connection stands for a mode pinned on disk. `Kept`
is the heart: whoever has the legacy credential, may restore it or has just proved it
finds the daemon `Calm`, with nothing under way that would replace it. Without the two
exceptions of `NeverRolledBack` (`Excused`) it is not inductive. The forty-odd actions of the
two sides are each shown to keep every part; `ReportsAreTrue` follows from what a
success, a commit and a write to disk need (`SuccessReported`, `CommitsPinned`,
`DiskKept`).

**Guided setup.** `GuidedInv` has three sides. `Given`: the session of a setup names the
one browser the setup gave its credential to, and what a setup pinned it gave. `Commits`:
a commit under way is that of the session, or has outlived it, which for a command line
happens only when the session expired. `Lines` says of each command line what nobody can
have done in its name before it began (`Early`), that the browser it chose was pinned
under its own session (`Chosen`), and what is gone once it was taken away (`Tidy`). Steps
of one command line and of one extension are reduced to it (`LineMoves`, `ExtMoves`);
the daemon's keep what is said of the command lines (`LinesKept`). The instance starts
with at most one browser of another version; the proof does not use that.

**Only model-checked.** Liveness (`AllEnd`, `CallsReturn`, `Reconnects`, `TasksEnd`,
`CommandsEnd`, `SetupsEnd`, `CloseEnds`) and the half of `NobodyStuck` that speaks of
`ENABLED`: neither is in the prover's reach. So are the properties of `PageReading` and
`AuditLog`, which are about folds over data (the sizes and ranges of cut snapshots, the
lines of queues, windows and files) and would need induction over sequences; and those
of `Installation`, for which no inductive invariant was worked out. No module declares a
RECURSIVE operator.

## 5. Where the code and its words part

Met while modelling; the models follow the code. Each is reached by the model it names.

- *Tabs.* An agent whose turn meets another agent's tab as the active one has even its
  `new_tab` refused (`X:1406`), by a message that tells it to use `new_tab` (`X:1409`).
- *Setup.* The connection whose success proves the prior credential is taken to be the
  current one after `connect()` returned (`X:814`). The popup's reconnect in between
  (`X:2479`) makes it a connection with the new credential, and the prior one is restored
  although the daemon replaced it (against `SECURITY.md:28`). `NeverRolledBack` excepts
  clicks for this.
- *Setup.* When the setup session expires while its commit is saved, the key is pinned and
  the receipt set on a session nobody holds (`D:1094`, `D:1499`): the two are not atomic
  (against `SECURITY.md:28`). After a save that failed behind the rename
  (`key-registry.ts:193`) memory is rolled back and the file is not; a restart reads the
  file. `NeverRolledBack` and `EndedMeansEnded` except these.
- *Audit.* An event recorded while a rotation has no file open is dropped without being
  counted (`audit.ts:138`), so a grant can go unaudited (against `README.md:121`).
  `Accounted` gives such events a place of their own (`unseen`). A coalesced record that
  finds the queue full adds one to the count of dropped events, and the number it carried
  is gone, since `suppressed` was already reset (`audit.ts:140`, `audit.ts:298`): these
  are `uncounted`. After a rotation and its reopening both failed, lines that are queued
  are never taken and `close()` does not return (`audit.ts:149`); `CloseEnds` excepts it.
- *Page.* `attachFile()` checks before `focus()` and not between it and the assignment
  (`content/runtime.ts:1506`, `:1508`), and Enter in a text area or an editable element
  writes its newline without a check (`:1039`). Handlers run before both. For these two
  `ActsAsConfirmed` asks that the element was confirmed as it was at the check before.
- *Page.* A form fill whose `submit_ref` is what is risky cannot be approved: the retry
  was to run the batch first (`content/runtime.ts:1761`), and an approved batch of fields
  without a risk is refused (`content/runtime.ts:1721`, `pure.ts:27`), while `README.md:27`
  has it pause like a separate click. The run `submit_retry` shows such a retry
  after a grant by the policy; after a person's confirmation the daemon revalidates first
  (`D:1431`) and the refusal is `approval_no_longer_required`, with the same outcome.
  `RiskySubmitNeverClicked` says that no page and no approval lets the click happen.
- *Page.* "No automatic retry here" (`X:1417`), yet a command whose answer was lost is sent
  again to whatever document is there (`X:1219`).
- *Pause.* Resuming or closing one tab un-pauses its origin although another tab of the
  origin is still paused (`X:1433`, `X:2566`), against "Automated actions for this origin
  remain paused after a visible 403 or 429 response." (`X:1328`).
- *Link.* A socket that closes during `pin()` is registered as a session afterwards
  (`D:1125`), with no handler left to remove it: status tools then list an authenticated
  browser (`mcp/server.ts:240`) until another connection or a restart. A failed reading of
  the device's identity is kept as a rejected promise for the worker's life
  (`device-identity.ts:29`), so no later `connect()` can succeed; `Reconnects` excepts it.
- *Calls.* When the answer to an approval is lost, the agent is told that nothing was
  executed (`mcp/server.ts:224`); that remains true only because the approval was not yet
  used by this call. `Truthful` says exactly what holds.
- *Credentials.* After a failed save of a consumption the item is gone from memory and not
  from storage (`credential-store.ts:279`). Revoking it then finds nothing, is reported as
  done (`popup.ts:410`, `options.ts:76`), and a killed worker reads the item back
  (`credential-store.ts:149`), against `PRIVACY.md:44`. In the model
  this is a step of `Revokes` that finds nothing `Wanted`, after one failing save, while
  the item is still in `saved.held`. That the user was told ok therefore promises nothing,
  and `RevokedStaysRevoked` is about revocations that were saved.
- *Reading.* "All three mean the reader has not seen everything, so all three must produce
  a cursor" (`X:1711`): a page whose headings alone exceed the budget is cut with no offset
  above 0, for which no cursor is made (`X:1717`, `pure.ts:617`), so what was cut cannot be
  read (against `README.md:146`). `ReadsThrough` asks for the end of the page only where
  the headings fit.
- *Reading.* A cursor of more than 512 characters is none, and a frame with an id above
  9,999,999 or more than 20,000 elements is not in it (`pure.ts:612-619`): such a page is
  truncated without a cursor, or its frame begins again, against `README.md:146`. With
  `MaxCursor` 1 TLC finds `ReadsToTheEnd` violated by two frames; `ReadsThrough` is about
  pages within these limits (`WithinCursor`).
- *Installation.* Killed between writing the unit and enabling it, the service runs after
  a repair but is not enabled at login; of two concurrent first installations the one that
  fails cleans up the other's service (`cli/application.ts:1145`).
- *Installation.* An edit between the last look at an artefact and its replacement or
  removal is lost: the unit (`cli/application.ts:961` and `:982`, `:1350` and `:1354`), the
  skill (`setup/skill-install.ts:249`, `:255`, and `:262` for what was set aside), the
  launcher (`native/host-install.ts:115`), the extension's copy and the client's entry
  (`setup/flow.ts:254`, `:301`). `UserFilesKept` excepts exactly this.
- *Installation.* An uninstall whose `disable --now` fails removes the unit and leaves the
  daemon (`service-plan.ts:359`). The next setup takes this for a first installation and
  only enables the unit, so the old code keeps running while setup reports ok, against
  `service-plan.ts:122`. `Repairs` and `CleansUpAfterItself` except the runs that meet such
  a daemon; without the exception, three runs and one fault violate `Repairs`.

## 6. Not modelled, and why

A line of the audit log that a kill tears, and that spoils the next one, is not
modelled: a line is written whole or not at all. Cryptography, framing, schemas, path
rules and policy parsing are inputs: a proof verifies or it does not, a category is
covered or it is not. Expiry of a credential handoff, the legacy enrolment window, a
second requester of one setup, commands that only read browser state, scrolling and
waiting, the collection of candidates from the DOM, launchd and Windows, browser
manifests, Flatpak and purging are left out as `PROJECT.json` says for each component.
Rendering, build, packaging and the editing of client configuration files are not
behaviour of this kind.

## 7. What is left

Every safety property of the eight modules that have proofs is proved; what TLC alone
checks is listed at the end of section 4. Of these, `Installation` is the one whose
properties could be proved with the means used here, from an invariant that relates each
command line's remaining steps to what it inspected. Among what is not modelled, the
expiry of a credential handoff and the collection of candidates from the DOM come first.
