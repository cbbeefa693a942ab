--------------------------- MODULE CommandBroker ---------------------------
(***************************************************************************)
(* The command and approval core of the daemon (src/daemon/runtime.ts):    *)
(* requests of MCP clients are routed to browser extensions as commands,   *)
(* a command that the extension reports as sensitive becomes an approval,  *)
(* and an approval a human confirmed is spent on one approved command.     *)
(*                                                                         *)
(* The daemon is single threaded, so each action below is one handler run  *)
(* to completion: the only `await` on these paths is the file read of      *)
(* attach_file, which is why that request has two actions.                 *)
(*                                                                         *)
(* An IPC connection carries exactly one request, so a request stands for  *)
(* its connection as well.  An operation is an action with its canonical   *)
(* parameters.  The registered session of a browser is a generation number *)
(* and the state of its socket; sockets of older generations were closed   *)
(* when they were replaced, so only the newest one can be open.            *)
(***************************************************************************)
EXTENDS Naturals, FiniteSets, Functions

CONSTANTS
    Browsers,             \* browser installations (browser_id)
    Requests,             \* requests of IPC clients, one per connection
    Operations,           \* an action with its canonical parameters
    AttachOperations,     \* those whose action is attach_file
    CredentialOperations, \* those whose action is credential_fill
    OversizeOperations,   \* those whose serialized command is too large
    Fingerprints,         \* live-target fingerprints the extension can report
    NoFingerprint,        \* a missing or malformed fingerprint
    AnyBrowser,           \* a request that names no browser_id
    Categories,           \* risk categories
    AutonomousCategories, \* those the owner's policy pre-authorizes
    MaxPendingCommands,   \* config.maxPendingCommands
    MaxPendingApprovals,  \* config.maxPendingApprovals
    MaxPolicyApprovals,   \* MAX_POLICY_APPROVALS_PER_REQUEST
    MaxIds,               \* bound on fresh UUIDs (model only)
    MaxGenerations        \* bound on registrations of a browser (model only)

ASSUME OperationsAssumption ==
    /\ AttachOperations \subseteq Operations
    /\ CredentialOperations \subseteq Operations \ AttachOperations
    /\ OversizeOperations \subseteq Operations

ASSUME NamesAssumption ==
    /\ NoFingerprint \notin Fingerprints
    /\ AnyBrowser \notin Browsers
    /\ AutonomousCategories \subseteq Categories

ASSUME BoundsAssumption ==
    /\ MaxPendingCommands \in Nat \ {0}
    /\ MaxPendingApprovals \in Nat \ {0}
    /\ MaxPolicyApprovals \in Nat
    /\ MaxIds \in Nat
    /\ MaxGenerations \in Nat

VARIABLES
    session,   \* #browserSessions: generation and socket state per browser
    request,   \* what became of each request
    commands,  \* #pendingCommands: command id -> PendingCommand
    approvals, \* #pendingApprovals: approval id -> PendingApproval
    nextId,    \* the next UUID; Map iteration order is the order of ids
    decisions, \* history: the human decisions the daemon accepted
    delivered  \* history: the approved commands handed to a socket

vars == <<session, request, commands, approvals, nextId, decisions, delivered>>
-----------------------------------------------------------------------------
NoId == 0
Ids == Nat \ {0}

SocketStates == {"none", "open", "closing", "closed"}
Phases == {"idle", "reading", "pending", "done"}
Sources == {"session", "policy"}

Session == [gen : Nat, state : SocketStates]

\* The browser is the one chosen for an attachment that is being read.
Request == {q \in [phase : Phases, gone : BOOLEAN, replies : Nat,
                    browser : Browsers \cup {AnyBrowser}, gen : Nat] :
               q.phase = "reading" => q.browser \in Browsers}

Command == [client : Requests, browser : Browsers, gen : Nat, op : Operations,
            approved : BOOLEAN, grant : Nat, fp : Fingerprints \cup {NoFingerprint},
            recheck : Nat, policyUses : Nat]

Approval == [browser : Browsers, gen : Nat, op : Operations, fp : Fingerprints,
             state : {"pending", "approved"}, lapsed : BOOLEAN]

Decision == [id : Ids, browser : Browsers, op : Operations, fp : Fingerprints,
             verdict : {"approve", "reject"}]

Delivery == [id : Ids, client : Requests, browser : Browsers, op : Operations,
             fp : Fingerprints, grant : Ids, source : Sources]

Put(f, k, v) == [x \in DOMAIN f \cup {k} |-> IF x = k THEN v ELSE f[x]]
Drop(f, S) == Restrict(f, DOMAIN f \ S)

\* Mutant of Open: asks the browser's present socket, whichever session it is.
OpenAnySession(b, g) == session[b].state = "open"

\* session.socket.readyState === OPEN for the session of that generation.
Open(b, g) == session[b].state = "open" /\ session[b].gen = g

Connected == {b \in Browsers : session[b].state # "none"}

Idle == [phase |-> "idle", gone |-> FALSE, replies |-> 0,
         browser |-> AnyBrowser, gen |-> 0]

\* #writeResponse: one line, then the connection is ended; nothing when the
\* client is already gone.
Answered(q) ==
    [q EXCEPT !.phase = "done", !.replies = IF q.gone THEN @ ELSE @ + 1]

Answer(r) == request' = [request EXCEPT ![r] = Answered(@)]
-----------------------------------------------------------------------------
Init ==
    /\ session = [b \in Browsers |-> [gen |-> 0, state |-> "none"]]
    /\ request = [r \in Requests |-> Idle]
    /\ commands = [i \in {} |-> Idle]
    /\ approvals = [i \in {} |-> Idle]
    /\ nextId = 1
    /\ decisions = {}
    /\ delivered = {}
-----------------------------------------------------------------------------
(* Approvals in the order the Map was filled. *)

Least(S) == CHOOSE a \in S : \A x \in S : a <= x

\* The approvals #findApproval and #findApprovalForParams look for in A.
Matching(A, b, op, fps, state) ==
    {a \in DOMAIN A : /\ ~A[a].lapsed
                      /\ A[a].state = state
                      /\ A[a].browser = b
                      /\ A[a].op = op
                      /\ A[a].fp \in fps}

\* Mutant of TakeApproval: the approval is read and left in place.
PeekApproval(A, a) == A

\* #takeApproval, for an identifier that may no longer be there.
TakeApproval(A, a) == Drop(A, {a})

FirstOf(hits) == IF hits = {} THEN NoId ELSE Least(hits)

\* The search drops every expired approval it meets before the first match.
Swept(A, hits) ==
    Restrict(A, {a \in DOMAIN A :
                    A[a].lapsed => hits # {} /\ a > Least(hits)})
-----------------------------------------------------------------------------
(***************************************************************************)
(* #routeCommand: refuse the command, or register it and send it.  `cmds`  *)
(* is what the same handler left of the pending commands.                  *)
(***************************************************************************)
Refused(c, cmds) ==
    \/ ~Open(c.browser, c.gen)
    \/ Cardinality(DOMAIN cmds) >= MaxPendingCommands
    \/ c.op \in OversizeOperations

\* Mutant of Delivered: the source is left at its default.
DeliveredUnlabelled(id, c, source) ==
    [id |-> id, client |-> c.client, browser |-> c.browser, op |-> c.op,
     fp |-> c.fp, grant |-> c.grant, source |-> "session"]

Delivered(id, c, source) ==
    [id |-> id, client |-> c.client, browser |-> c.browser, op |-> c.op,
     fp |-> c.fp, grant |-> c.grant, source |-> source]

RouteRefused(c, cmds) ==
    /\ Refused(c, cmds)
    /\ commands' = cmds
    /\ Answer(c.client)
    /\ UNCHANGED <<nextId, delivered>>

RouteSent(c, cmds, source) ==
    /\ ~Refused(c, cmds)
    /\ nextId <= MaxIds
    /\ commands' = Put(cmds, nextId, c)
    /\ nextId' = nextId + 1
    /\ request' = [request EXCEPT ![c.client].phase = "pending"]
    /\ delivered' = IF c.approved
                    THEN delivered \cup {Delivered(nextId, c, source)}
                    ELSE delivered

RouteCommand(c, cmds, source) ==
    RouteRefused(c, cmds) \/ RouteSent(c, cmds, source)

\* An unapproved command of a fresh request: a recheck when a confirmed
\* approval for the same browser, action and parameters exists.
RouteRequest(r, b, g, op) ==
    LET hits == Matching(approvals, b, op, Fingerprints, "approved")
        c == [client |-> r, browser |-> b, gen |-> g, op |-> op,
              approved |-> FALSE, grant |-> NoId, fp |-> NoFingerprint,
              recheck |-> FirstOf(hits), policyUses |-> 0]
    IN /\ approvals' = Swept(approvals, hits)
       /\ RouteCommand(c, commands, "session")
-----------------------------------------------------------------------------
(* Browser sessions. *)

CommandsOf(b) == {i \in DOMAIN commands : commands[i].browser = b}
ApprovalsOf(b) == {a \in DOMAIN approvals : approvals[a].browser = b}
ClientsOf(S) == {commands[i].client : i \in S}

\* #failCommandsForBrowser and #clearApprovalsForBrowser.
ReleaseBrowser(b) ==
    /\ commands' = Drop(commands, CommandsOf(b))
    /\ request' = [r \in Requests |->
                      IF r \in ClientsOf(CommandsOf(b))
                      THEN Answered(request[r]) ELSE request[r]]
    /\ approvals' = Drop(approvals, ApprovalsOf(b))

\* #authenticateExtension after `await pin`: the socket may have started to
\* close, or have closed, while the key was pinned.
Register(b, state) ==
    /\ session[b].gen < MaxGenerations
    /\ session' = [session EXCEPT ![b] = [gen |-> @.gen + 1, state |-> state]]
    /\ IF session[b].state = "none"
       THEN UNCHANGED <<commands, request, approvals>>
       ELSE ReleaseBrowser(b)
    /\ UNCHANGED <<nextId, decisions, delivered>>

\* The heartbeat, a protocol violation, or the peer starts to close the socket.
SocketClosing(b) ==
    /\ session[b].state = "open"
    /\ session' = [session EXCEPT ![b].state = "closing"]
    /\ UNCHANGED <<request, commands, approvals, nextId, decisions, delivered>>

\* #disconnectBrowser, from the socket's close event.
Disconnect(b) ==
    /\ session[b].state = "closing"
    /\ session' = [session EXCEPT ![b].state = "none"]
    /\ ReleaseBrowser(b)
    /\ UNCHANGED <<nextId, decisions, delivered>>
-----------------------------------------------------------------------------
(* IPC requests. *)

\* #resolveBrowserSession.
Resolves(named, b) ==
    /\ b \in Connected
    /\ named = b \/ (named = AnyBrowser /\ Connected = {b})

\* #handleIpcRequest, no session to run the request in.
SubmitUnroutable(r, named) ==
    /\ request[r].phase = "idle"
    /\ \A b \in Browsers : ~Resolves(named, b)
    /\ Answer(r)
    /\ UNCHANGED <<session, commands, approvals, nextId, decisions, delivered>>

\* #handleIpcRequest, an action other than attach_file.
Submit(r, named, op) ==
    /\ request[r].phase = "idle"
    /\ op \notin AttachOperations
    /\ \E b \in Browsers : /\ Resolves(named, b)
                          /\ RouteRequest(r, b, session[b].gen, op)
    /\ UNCHANGED <<session, decisions>>

\* #handleAttachFile up to the file read: the session is chosen before it.
SubmitAttach(r, named) ==
    /\ request[r].phase = "idle"
    /\ AttachOperations # {}
    /\ \E b \in Browsers :
         /\ Resolves(named, b)
         /\ request' = [request EXCEPT ![r] =
                [@ EXCEPT !.phase = "reading", !.browser = b,
                          !.gen = session[b].gen]]
    /\ UNCHANGED <<session, commands, approvals, nextId, decisions, delivered>>

AttachReadFails(r) ==
    /\ request[r].phase = "reading"
    /\ Answer(r)
    /\ UNCHANGED <<session, commands, approvals, nextId, decisions, delivered>>

\* The bytes read decide which operation the request is.
AttachReadDone(r, op) ==
    /\ request[r].phase = "reading"
    /\ op \in AttachOperations
    /\ RouteRequest(r, request[r].browser, request[r].gen, op)
    /\ UNCHANGED <<session, decisions>>

Left(q) ==
    [q EXCEPT !.gone = TRUE, !.phase = IF @ = "pending" THEN "done" ELSE @]

\* The close handler of an IPC socket; a file being read is read to the end.
ClientGone(r) ==
    /\ request[r].phase \in {"reading", "pending"}
    /\ ~request[r].gone
    /\ request' = [request EXCEPT ![r] = Left(@)]
    /\ commands' = Drop(commands,
                        {i \in DOMAIN commands : commands[i].client = r})
    /\ UNCHANGED <<session, approvals, nextId, decisions, delivered>>
-----------------------------------------------------------------------------
(* Results of the extension (#handleExtensionResult).                      *)

\* The session that was sent the command is still registered and delivers
\* messages; the result of a command that is not pending is dropped.
Receives(id) ==
    /\ id \in DOMAIN commands
    /\ session[commands[id].browser].gen = commands[id].gen
    /\ session[commands[id].browser].state \in {"open", "closing"}

\* A result, or an error other than approval_required.  An approval under
\* recheck is cancelled: the action ran or failed without its confirmation.
ResultFinal(id) ==
    /\ Receives(id)
    /\ commands' = Drop(commands, {id})
    /\ approvals' = TakeApproval(approvals, commands[id].recheck)
    /\ Answer(commands[id].client)
    /\ UNCHANGED <<session, nextId, decisions, delivered>>

\* approval_required that can neither spend nor create an approval.
ResultRejected(id, fp) ==
    /\ Receives(id)
    /\ \/ commands[id].op \in CredentialOperations
       \/ fp = NoFingerprint
       \/ commands[id].approved /\ commands[id].fp = fp
    /\ commands' = Drop(commands, {id})
    /\ Answer(commands[id].client)
    /\ UNCHANGED <<session, approvals, nextId, decisions, delivered>>

\* Mutant of Acceptable: the shape of the fingerprint is not checked.
AcceptableUnchecked(id, fp) ==
    /\ Receives(id)
    /\ commands[id].op \notin CredentialOperations
    /\ ~(commands[id].approved /\ commands[id].fp = fp)

Acceptable(id, fp) ==
    /\ Receives(id)
    /\ commands[id].op \notin CredentialOperations
    /\ fp \in Fingerprints
    /\ ~(commands[id].approved /\ commands[id].fp = fp)

\* The approval an unapproved command could spend: the one under recheck,
\* or the first confirmed one for this browser, operation and fingerprint.
Candidate(c, fp) ==
    IF c.recheck # NoId
    THEN IF c.recheck \in DOMAIN approvals THEN c.recheck ELSE NoId
    ELSE FirstOf(Matching(approvals, c.browser, c.op, {fp}, "approved"))

ExactGrant(c, fp, a) ==
    /\ ~c.approved
    /\ a \in DOMAIN approvals
    /\ ~approvals[a].lapsed
    /\ approvals[a].state = "approved"
    /\ approvals[a].browser = c.browser
    /\ approvals[a].op = c.op
    /\ approvals[a].fp = fp

\* The approvals left after the search for a candidate.
Searched(c, fp) ==
    IF c.approved \/ c.recheck # NoId
    THEN approvals
    ELSE Swept(approvals, Matching(approvals, c.browser, c.op, {fp}, "approved"))

UnderGrant(c, fp, a) ==
    [c EXCEPT !.approved = TRUE, !.grant = a, !.fp = fp, !.recheck = NoId]

\* The confirmation is consumed, then the command is sent as approved.
ResultSpendsGrant(id, fp) ==
    LET c == commands[id]
        a == Candidate(c, fp)
    IN /\ Acceptable(id, fp)
       /\ ExactGrant(c, fp, a)
       /\ approvals' = TakeApproval(Searched(c, fp), a)
       /\ RouteCommand(UnderGrant(c, fp, a), Drop(commands, {id}), "session")
       /\ UNCHANGED <<session, decisions>>

\* What is left of the approvals when nothing can be spent: a recheck whose
\* target changed cancels its approval.
Unspent(c, fp) ==
    IF ~c.approved /\ c.recheck # NoId
    THEN TakeApproval(approvals, c.recheck)
    ELSE Searched(c, fp)

NeedsApproval(id, fp) ==
    Acceptable(id, fp) /\ ~ExactGrant(commands[id], fp, Candidate(commands[id], fp))

Asked(c, fp) == Matching(Unspent(c, fp), c.browser, c.op, {fp}, "pending")

Remaining(c, fp) ==
    IF c.approved THEN approvals ELSE Swept(Unspent(c, fp), Asked(c, fp))

Fresh(c, fp) == c.approved \/ Asked(c, fp) = {}

\* The same question is already open: the client is pointed at it.
ResultAlreadyAsked(id, fp) ==
    LET c == commands[id]
    IN /\ NeedsApproval(id, fp)
       /\ ~Fresh(c, fp)
       /\ commands' = Drop(commands, {id})
       /\ approvals' = Remaining(c, fp)
       /\ Answer(c.client)
       /\ UNCHANGED <<session, nextId, decisions, delivered>>

ByPolicy(c, category) ==
    /\ c.recheck = NoId
    /\ category \in AutonomousCategories
    /\ c.policyUses < MaxPolicyApprovals

UnderPolicy(c, fp) ==
    [c EXCEPT !.approved = TRUE, !.grant = nextId, !.fp = fp,
              !.policyUses = @ + 1]

\* #grantFromPolicy: the policy confirms the action in the human's place.
ResultPolicyGrant(id, fp, category) ==
    LET c == commands[id]
    IN /\ NeedsApproval(id, fp)
       /\ Fresh(c, fp)
       /\ ByPolicy(c, category)
       /\ approvals' = Remaining(c, fp)
       /\ RouteCommand(UnderPolicy(c, fp), Drop(commands, {id}), "policy")
       /\ UNCHANGED <<session, decisions>>

\* #createApproval without an exact tab and frame, or with no room left.
ResultNotAskable(id, fp, category, bound) ==
    LET c == commands[id]
    IN /\ NeedsApproval(id, fp)
       /\ Fresh(c, fp)
       /\ \/ ~bound
          \/ /\ ~ByPolicy(c, category)
             /\ Cardinality(DOMAIN Remaining(c, fp)) >= MaxPendingApprovals
       /\ commands' = Drop(commands, {id})
       /\ approvals' = Remaining(c, fp)
       /\ Answer(c.client)
       /\ UNCHANGED <<session, nextId, decisions, delivered>>

\* #createApproval.
ResultAsks(id, fp, category) ==
    LET c == commands[id]
        A == Remaining(c, fp)
    IN /\ NeedsApproval(id, fp)
       /\ Fresh(c, fp)
       /\ ~ByPolicy(c, category)
       /\ Cardinality(DOMAIN A) < MaxPendingApprovals
       /\ nextId <= MaxIds
       /\ approvals' = Put(A, nextId,
             [browser |-> c.browser, gen |-> c.gen, op |-> c.op, fp |-> fp,
              state |-> "pending", lapsed |-> FALSE])
       /\ nextId' = nextId + 1
       /\ commands' = Drop(commands, {id})
       /\ Answer(c.client)
       /\ UNCHANGED <<session, decisions, delivered>>
-----------------------------------------------------------------------------
(* Timers, decisions, and the end of the process. *)

\* The timer of a command, or the failure of its send, settles it.
Abandon(id) ==
    /\ id \in DOMAIN commands
    /\ commands' = Drop(commands, {id})
    /\ Answer(commands[id].client)
    /\ UNCHANGED <<session, approvals, nextId, decisions, delivered>>

Timeout(id) == Abandon(id)

SendFails(id) == Abandon(id)

\* Mutant of Decide: a rejection overrules a confirmation without removing it.
DecideTwice(a, verdict) ==
    /\ a \in DOMAIN approvals
    /\ ~approvals[a].lapsed
    /\ approvals' = IF verdict = "reject"
                    THEN [approvals EXCEPT ![a].state = "pending"]
                    ELSE [approvals EXCEPT ![a].state = "approved"]
    /\ decisions' = decisions \cup
          {[id |-> a, browser |-> approvals[a].browser, op |-> approvals[a].op,
            fp |-> approvals[a].fp, verdict |-> verdict]}
    /\ UNCHANGED <<session, request, commands, nextId, delivered>>

\* #handleSessionApprovalSubmit.
Decide(a, verdict) ==
    /\ a \in DOMAIN approvals
    /\ ~approvals[a].lapsed
    /\ approvals[a].state = "pending"
    /\ approvals' = IF verdict = "reject"
                    THEN TakeApproval(approvals, a)
                    ELSE [approvals EXCEPT ![a].state = "approved"]
    /\ decisions' = decisions \cup
          {[id |-> a, browser |-> approvals[a].browser, op |-> approvals[a].op,
            fp |-> approvals[a].fp, verdict |-> verdict]}
    /\ UNCHANGED <<session, request, commands, nextId, delivered>>

\* Time passes expiresAt.
Elapse(a) ==
    /\ a \in DOMAIN approvals
    /\ ~approvals[a].lapsed
    /\ approvals' = [approvals EXCEPT ![a].lapsed = TRUE]
    /\ UNCHANGED <<session, request, commands, nextId, decisions, delivered>>

\* Mutant of ExpireApproval: a confirmed approval is spared.
ExpireUnlessConfirmed(a) ==
    /\ a \in DOMAIN approvals
    /\ approvals[a].lapsed
    /\ approvals[a].state = "pending"
    /\ approvals' = TakeApproval(approvals, a)
    /\ UNCHANGED <<session, request, commands, nextId, decisions, delivered>>

\* #expireApproval, from the approval's own timer.
ExpireApproval(a) ==
    /\ a \in DOMAIN approvals
    /\ approvals[a].lapsed
    /\ approvals' = TakeApproval(approvals, a)
    /\ UNCHANGED <<session, request, commands, nextId, decisions, delivered>>

\* stop(): pending commands are answered, then every socket is destroyed.
Stop ==
    /\ session' = [b \in Browsers |-> [session[b] EXCEPT !.state = "none"]]
    /\ request' = [r \in Requests |->
          CASE request[r].phase = "pending" -> Answered(request[r])
            [] request[r].phase = "reading" -> [request[r] EXCEPT !.gone = TRUE]
            [] OTHER -> request[r]]
    /\ commands' = Drop(commands, DOMAIN commands)
    /\ approvals' = Drop(approvals, DOMAIN approvals)
    /\ UNCHANGED <<nextId, decisions, delivered>>

\* The process dies: nothing of this is persisted.
Crash ==
    /\ session' = [b \in Browsers |-> [session[b] EXCEPT !.state = "none"]]
    /\ request' = [r \in Requests |->
          IF request[r].phase \in {"pending", "reading"}
          THEN [request[r] EXCEPT !.gone = TRUE, !.phase = "done"]
          ELSE request[r]]
    /\ commands' = Drop(commands, DOMAIN commands)
    /\ approvals' = Drop(approvals, DOMAIN approvals)
    /\ UNCHANGED <<nextId, decisions, delivered>>
-----------------------------------------------------------------------------
BrowserStep ==
    \E b \in Browsers :
        \/ \E state \in SocketStates \ {"none"} : Register(b, state)
        \/ SocketClosing(b)
        \/ Disconnect(b)

ClientStep ==
    \E r \in Requests :
        \/ \E named \in Browsers \cup {AnyBrowser} :
              \/ SubmitUnroutable(r, named)
              \/ \E op \in Operations : Submit(r, named, op)
              \/ SubmitAttach(r, named)
        \/ AttachReadFails(r)
        \/ \E op \in AttachOperations : AttachReadDone(r, op)
        \/ ClientGone(r)

ResultStep ==
    \E id \in DOMAIN commands :
        \/ ResultFinal(id)
        \/ \E fp \in Fingerprints \cup {NoFingerprint} :
              \/ ResultRejected(id, fp)
              \/ ResultSpendsGrant(id, fp)
              \/ ResultAlreadyAsked(id, fp)
              \/ \E category \in Categories :
                    \/ ResultPolicyGrant(id, fp, category)
                    \/ \E bound \in BOOLEAN :
                          ResultNotAskable(id, fp, category, bound)
                    \/ ResultAsks(id, fp, category)

ApprovalStep ==
    \E a \in DOMAIN approvals :
        \/ \E verdict \in {"approve", "reject"} : Decide(a, verdict)
        \/ Elapse(a)
        \/ ExpireApproval(a)

Next ==
    \/ BrowserStep
    \/ ClientStep
    \/ ResultStep
    \/ \E id \in DOMAIN commands : Timeout(id) \/ SendFails(id)
    \/ ApprovalStep
    \/ Stop
    \/ Crash

Spec == Init /\ [][Next]_vars

\* Command timers, file reads and approval timers run while the daemon runs;
\* clients, humans, extensions and sockets owe nothing.
Fairness ==
    /\ \A id \in 1..MaxIds : WF_vars(Timeout(id))
    /\ \A r \in Requests :
          WF_vars(AttachReadFails(r) \/ \E op \in AttachOperations : AttachReadDone(r, op))
    /\ \A a \in 1..MaxIds : WF_vars(Elapse(a)) /\ WF_vars(ExpireApproval(a))

FairSpec == Spec /\ Fairness
-----------------------------------------------------------------------------
\* Every variable has its type; identifiers in use have been issued.
TypeOK ==
    /\ session \in [Browsers -> Session]
    /\ request \in [Requests -> Request]
    /\ commands \in [DOMAIN commands -> Command]
    /\ approvals \in [DOMAIN approvals -> Approval]
    /\ nextId \in Ids
    /\ DOMAIN commands \subseteq 1..(nextId - 1)
    /\ DOMAIN approvals \subseteq 1..(nextId - 1)
    /\ decisions \subseteq Decision
    /\ delivered \subseteq Delivery

\* A request waits exactly while one pending command works for it, through all
\* re-routing of that command, and a client that stayed is answered once.
OneOwner ==
    \A r \in Requests :
        /\ request[r].phase = "pending" <=>
              \E i \in DOMAIN commands : commands[i].client = r
        /\ \A i, j \in DOMAIN commands :
              commands[i].client = r /\ commands[j].client = r => i = j
        /\ request[r].replies =
              IF request[r].phase = "done" /\ ~request[r].gone THEN 1 ELSE 0

\* Commands and approvals never outlive the registered session they belong to:
\* no result of an older connection can meet them.
FollowSession ==
    /\ \A i \in DOMAIN commands :
          /\ session[commands[i].browser].gen = commands[i].gen
          /\ session[commands[i].browser].state \in {"open", "closing"}
    /\ \A a \in DOMAIN approvals :
          /\ session[approvals[a].browser].gen = approvals[a].gen
          /\ session[approvals[a].browser].state # "none"

\* What a human decision authorized, and nothing else, is sent as approved on
\* the strength of it: same browser, operation and live-target fingerprint, and
\* no rejection of that approval was ever accepted.
GrantAuthorised ==
    \A d \in delivered :
        d.source = "session" =>
            /\ \E x \in decisions :
                  /\ x.id = d.grant
                  /\ x.browser = d.browser /\ x.op = d.op /\ x.fp = d.fp
            /\ \A x \in decisions : x.id = d.grant => x.verdict = "approve"

\* A grant is sent at most once, and once sent it is not available any more.
SingleUse ==
    \A d \in delivered :
        /\ d.grant \notin DOMAIN approvals
        /\ \A e \in delivered : d.grant = e.grant => d = e

\* Whatever the extension keeps answering, one request sends at most one
\* command on a human decision and MaxPolicyApprovals on the policy.
BoundedReplay ==
    \A r \in Requests :
        LET sent(source) == {d \in delivered : d.client = r /\ d.source = source}
        IN /\ Cardinality(sent("session")) <= 1
           /\ Cardinality(sent("policy")) <= MaxPolicyApprovals

\* The pools keep their limits through every path that fills them.
WithinLimits ==
    /\ Cardinality(DOMAIN commands) <= MaxPendingCommands
    /\ Cardinality(DOMAIN approvals) <= MaxPendingApprovals

\* A request that was taken up ends, with an answer or because its client left,
\* even if the extension never answers and however often it is re-routed.
RequestsEnd ==
    \A r \in Requests : request[r].phase # "idle" ~> request[r].phase = "done"

\* An approval does not occupy its slot for ever.
ApprovalsEnd ==
    \A a \in 1..MaxIds : a \in DOMAIN approvals ~> a \notin DOMAIN approvals

\* Both, for every request and every approval.
AllEnd == RequestsEnd /\ ApprovalsEnd

\* The pending commands and approvals agree with the requests, with the sessions
\* of the browsers and with the limits.
Consistent == OneOwner /\ FollowSession /\ WithinLimits /\ BoundedReplay

-----------------------------------------------------------------------------
(* What one identifier stands for, in the terms of ApprovalGate. *)

Subject(x) == [browser |-> x.browser, op |-> x.op, fp |-> x.fp]

Subjects == [browser : Browsers, op : Operations, fp : Fingerprints]

SentFor(i) == {d \in delivered : d.grant = i}

Stage(i) ==
    CASE i >= nextId -> "unused"
      [] SentFor(i) # {} -> IF \E d \in SentFor(i) : d.source = "policy"
                            THEN "minted" ELSE "spent"
      [] i \in DOMAIN approvals -> IF approvals[i].state = "approved"
                                   THEN "confirmed" ELSE "asked"
      [] OTHER -> "void"

SubjectOf(i) ==
    CASE SentFor(i) # {} -> Subject(CHOOSE d \in SentFor(i) : TRUE)
      [] i \in DOMAIN approvals -> Subject(approvals[i])
      [] OTHER -> NoId

Gate == INSTANCE ApprovalGate WITH
            Identifiers <- 1..MaxIds, Subjects <- Subjects, NoSubject <- NoId,
            stage <- [i \in 1..MaxIds |-> Stage(i)],
            subject <- [i \in 1..MaxIds |-> SubjectOf(i)]

\* The identifiers the broker issues live as ApprovalGate allows.
ImplementsGate == Gate!Spec
=============================================================================
