------------------------------ MODULE McpCalls ------------------------------
(***************************************************************************)
(* A tool call from the agent to the page and back: invokeAction() and     *)
(* confirmInSession() of mcp/server.ts, the one connection that            *)
(* callBridge() of bridge/ipc-client.ts opens for each request, and the    *)
(* daemon's IPC server with its approvals (daemon/runtime.ts).             *)
(*                                                                         *)
(* A call reads, or asks for the same sensitive action of one browser as   *)
(* the others, the case in which they share approvals; its target does not *)
(* change (that is in CommandBroker).  The extension is what it promises   *)
(* the daemon: it answers a reading and reports a sensitive action instead *)
(* of running it, unless the command is approved (CommandExecution has the *)
(* details).                                                               *)
(***************************************************************************)
EXTENDS Naturals, FiniteSets

CONSTANTS
    Calls,     \* tool calls that run at once
    Conns,     \* identifiers of IPC connections
    Ids,       \* approval identifiers, a set of numbers
    None,
    Mute,      \* calls whose MCP client cannot ask the human
    MaxIpc,    \* MAX_IPC_CONNECTIONS
    MaxCalls,  \* bound on the tool calls (model only)
    MaxFaults  \* bound on stops, stalls, kills, losses, expiries (model only)

ASSUME ConstantsAssumption ==
    /\ Ids \subseteq Nat /\ None \notin Calls \cup Conns \cup Ids
    /\ Mute \subseteq Calls
    /\ MaxIpc \in Nat \ {0} /\ {MaxCalls, MaxFaults} \subseteq Nat

VARIABLES
    call,   \* each tool call: where invokeAction() is and what it holds
    conn,   \* each connection: what is under way on it
    cmd,    \* the command sent to the extension for a connection
    grant,  \* #pendingApprovals
    daemon, \* "up", "frozen" or "down"
    past,   \* history: who agreed to an approval, how often it ran
    count   \* what the bounds count

vars == <<call, conn, cmd, grant, daemon, past, count>>

Requests == {"read", "first", "begin", "submit", "retry"}
\* "ask" is the elicitation; the outcome is what the agent is told.
Places == Requests \cup {"idle", "ask"}
NotExecuted == {"rejected", "unavailable", "uncollected"}
Outcomes == NotExecuted \cup {None, "result", "error", "approval_required"}
Decisions == {"approve", "reject"}

ASSUME NamesAssumption ==
    None \notin Requests \cup NotExecuted
                 \cup {"ok", "failed", "approval_required", "result", "error"}

Idle == [at |-> "idle", conn |-> None, id |-> None, decision |-> "reject",
         outcome |-> None, acted |-> FALSE]

\* The client's hello, the challenge or the request is under way; then the
\* daemon works on the request, and its answer or its close is under way.
Stages == {"free", "connecting", "hello", "challenge", "request", "accepted",
           "answer", "ended"}
Free == [stage |-> "free", owner |-> None, client |-> FALSE, request |-> None,
         id |-> None, decision |-> "reject", answer |-> None]

Kinds == {"none", "read", "probe", "recheck", "run", "reported", "done", "lost"}
NoCommand == [kind |-> "none", id |-> None, pending |-> FALSE]

GrantStates == {"none", "pending", "approved", "gone"}

Up == daemon = "up"
Fault == count.faults < MaxFaults /\ count' = [count EXCEPT !.faults = @ + 1]
InState(st) == {i \in Ids : grant[i] = st}
Smallest(S) == CHOOSE i \in S : \A j \in S : i <= j

-----------------------------------------------------------------------------
(* The MCP server: invokeAction() around callBridge().                     *)

ToolCalled(c) ==
    /\ call[c].at = "idle"
    /\ count.calls < MaxCalls /\ count' = [count EXCEPT !.calls = @ + 1]
    /\ call' = [call EXCEPT ![c] = [Idle EXCEPT !.at = "first"]]
    /\ UNCHANGED <<conn, cmd, grant, daemon, past>>

\* browser_list_tabs, browser_snapshot, ...: callBridge() without invokeAction().
ReadCalled(c) ==
    /\ call[c].at = "idle"
    /\ count.calls < MaxCalls /\ count' = [count EXCEPT !.calls = @ + 1]
    /\ call' = [call EXCEPT ![c] = [Idle EXCEPT !.at = "read"]]
    /\ UNCHANGED <<conn, cmd, grant, daemon, past>>

\* callBridge(): every request has a connection of its own.
Connects(c) ==
    /\ call[c].at \in Requests /\ call[c].conn = None
    /\ LET unused == {k \in Conns : conn[k] = Free /\ cmd[k] = NoCommand}
           k == CHOOSE j \in unused : TRUE
       IN /\ unused # {}
          /\ conn' = [conn EXCEPT ![k] =
               [Free EXCEPT !.stage = "connecting", !.owner = c,
                            !.client = TRUE, !.request = call[c].at,
                            !.id = call[c].id, !.decision = call[c].decision]]
          /\ call' = [call EXCEPT ![c].conn = k]
    /\ UNCHANGED <<cmd, grant, daemon, past, count>>

\* invokeAction(): what each answer leads to.
Returns(c, outcome) ==
    [Idle EXCEPT !.outcome = outcome,
                 !.id = IF outcome = "rejected" THEN call[c].id ELSE None,
                 !.acted = outcome \in NotExecuted /\ call[c].acted]
Goes(c, at) == [call[c] EXCEPT !.at = at, !.conn = None]

Answered(c, answer, id) ==
    LET at == call[c].at
    IN IF answer = "approval_required" /\ at = "first"
       THEN IF c \in Mute THEN Returns(c, "unavailable")
            ELSE [Goes(c, "begin") EXCEPT !.id = id]
       ELSE IF answer = "approval_required" THEN Returns(c, "approval_required")
       ELSE IF at = "begin" THEN Goes(c, "ask")
       ELSE IF at = "submit" /\ call[c].decision = "approve"
       THEN [Goes(c, "retry") EXCEPT !.id = None, !.decision = "reject"]
       ELSE IF at = "submit" THEN Returns(c, "rejected")
       ELSE Returns(c, "result")

\* The catch of invokeAction() is around the confirmation alone.
CaughtAll(c) == Returns(c, IF call[c].at = "first" THEN "error" ELSE "uncollected")
Failed(c) ==
    Returns(c, IF call[c].at \in {"read", "first", "retry"} THEN "error" ELSE "uncollected")

\* finish(): the promise settles and the socket is destroyed.
Finishes(k, next) ==
    /\ conn' = [conn EXCEPT ![k] =
         IF @.stage \in {"answer", "ended"} THEN [Free EXCEPT !.stage = conn[k].stage]
         ELSE [@ EXCEPT !.client = FALSE]]
    /\ call' = [call EXCEPT ![conn[k].owner] = next]

ChallengeComes(k) ==
    /\ conn[k].client /\ conn[k].stage = "challenge"
    /\ conn' = [conn EXCEPT ![k].stage = "request"]
    /\ UNCHANGED <<call, cmd, grant, daemon, past, count>>

AnswerComes(k) ==
    /\ conn[k].client /\ conn[k].stage = "answer"
    /\ LET c == conn[k].owner
       IN Finishes(k, IF conn[k].answer = "failed" THEN Failed(c)
                      ELSE Answered(c, conn[k].answer, conn[k].id))
    /\ UNCHANGED <<cmd, grant, daemon, past, count>>

\* "end", or an error of the socket.
EndComes(k) ==
    /\ conn[k].client
    /\ \/ conn[k].stage = "ended"
       \/ conn[k].stage = "connecting" /\ daemon = "down"
    /\ Finishes(k, Failed(conn[k].owner))
    /\ UNCHANGED <<cmd, grant, daemon, past, count>>

\* The timer of 45 s outlasts the daemon's own: it fires for a daemon that
\* does not run, or in the middle of a stall.
TimerStopsAtChallenge(k) == conn[k].stage \in {"connecting", "hello", "challenge"}
TimerRuns(k) == conn[k].stage # "free"
ClientTimeout(k) ==
    /\ conn[k].client /\ TimerRuns(k)
    /\ \/ daemon = "frozen" /\ UNCHANGED count
       \/ Up /\ Fault
    /\ Finishes(k, Failed(conn[k].owner))
    /\ UNCHANGED <<cmd, grant, daemon, past>>

\* The human answers the form, which the client may close, lose or time out.
AcceptedForm(action, choice) == IF action = "accept" THEN "approve" ELSE "reject"
Decision(action, choice) ==
    IF action = "accept" /\ choice = "approve" THEN "approve" ELSE "reject"

Elicited(c, action, choice) ==
    /\ call[c].at = "ask"
    /\ call' = [call EXCEPT ![c] =
         [Goes(c, "submit") EXCEPT !.decision = Decision(action, choice)]]
    /\ past' = IF action = "accept" /\ choice = "approve"
               THEN [past EXCEPT !.yes = @ \cup {call[c].id}] ELSE past
    /\ UNCHANGED <<conn, cmd, grant, daemon, count>>

ElicitationFails(c) ==
    /\ call[c].at = "ask"
    /\ call' = [call EXCEPT ![c] = Failed(c)]
    /\ UNCHANGED <<conn, cmd, grant, daemon, past, count>>

\* The process of the MCP server ends.
AgentDies(c) ==
    /\ call[c].at # "idle" /\ Fault
    /\ call' = [call EXCEPT ![c] = Idle]
    /\ conn' = [k \in Conns |-> IF conn[k].owner = c
                                THEN [conn[k] EXCEPT !.client = FALSE] ELSE conn[k]]
    /\ UNCHANGED <<cmd, grant, daemon, past>>

-----------------------------------------------------------------------------
(* The daemon's IPC server.                                                *)

\* #ipcClients; the client writes its hello as soon as it is connected.
AtDaemon == {k \in Conns : conn[k].stage \in
                {"hello", "challenge", "request", "accepted", "answer"}}

Accept(k) ==
    /\ Up /\ conn[k].stage = "connecting" /\ conn[k].client
    /\ conn' = [conn EXCEPT ![k].stage =
                  IF Cardinality(AtDaemon) >= MaxIpc THEN "ended" ELSE "hello"]
    /\ UNCHANGED <<call, cmd, grant, daemon, past, count>>

HelloArrives(k) ==
    /\ Up /\ conn[k].stage = "hello"
    /\ conn' = [conn EXCEPT ![k].stage = "challenge"]
    /\ UNCHANGED <<call, cmd, grant, daemon, past, count>>

\* The timer of the handshake destroys the socket, what it was to read too.
HandshakeTimeout(k) ==
    /\ Up /\ conn[k].stage \in {"hello", "challenge", "request"} /\ Fault
    /\ conn' = [conn EXCEPT ![k].stage = "ended"]
    /\ UNCHANGED <<call, cmd, grant, daemon, past>>

Answer(k, answer, id) ==
    conn' = [conn EXCEPT ![k] = [@ EXCEPT !.stage = "answer", !.answer = answer,
                                          !.id = id]]

\* #handleIpcData(): one whole request, of the session that was shaken hands on.
Readable(k) == Up /\ conn[k].stage = "request"

\* The action: a recheck if a human approved these parameters already.
ActionArrives(k) ==
    /\ Readable(k) /\ conn[k].request \in {"first", "retry"}
    /\ conn' = [conn EXCEPT ![k].stage = "accepted"]
    /\ cmd' = [cmd EXCEPT ![k] =
         IF InState("approved") = {}
         THEN [NoCommand EXCEPT !.kind = "probe", !.pending = TRUE]
         ELSE [kind |-> "recheck", id |-> Smallest(InState("approved")),
               pending |-> TRUE]]
    /\ UNCHANGED <<call, grant, daemon, past, count>>

\* #routeCommand() of a reading, which needs no approval.
ReadArrives(k) ==
    /\ Readable(k) /\ conn[k].request = "read"
    /\ conn' = [conn EXCEPT ![k].stage = "accepted"]
    /\ cmd' = [cmd EXCEPT ![k] = [NoCommand EXCEPT !.kind = "read", !.pending = TRUE]]
    /\ UNCHANGED <<call, grant, daemon, past, count>>

\* #handleSessionApprovalBegin().
BeginArrives(k) ==
    /\ Readable(k) /\ conn[k].request = "begin"
    /\ Answer(k, IF grant[conn[k].id] = "pending" THEN "ok" ELSE "failed", conn[k].id)
    /\ UNCHANGED <<call, cmd, grant, daemon, past, count>>

\* #handleSessionApprovalSubmit(): the first decision stands.
Submittable(i) == i \in Ids /\ grant[i] = "pending"
SubmitArrives(k) ==
    /\ Readable(k) /\ conn[k].request = "submit"
    /\ LET i == conn[k].id
       IN IF Submittable(i)
          THEN /\ grant' = [grant EXCEPT ![i] =
                    IF conn[k].decision = "approve" THEN "approved" ELSE "gone"]
               /\ Answer(k, "ok", i)
          ELSE Answer(k, "failed", i) /\ UNCHANGED grant
    /\ UNCHANGED <<call, cmd, daemon, past, count>>

\* #handleExtensionResult(): the extension reported the action.  The grant
\* is taken and the approved command sent; or the pending approval is told
\* of, a new one if there is none.
Reported(k) ==
    LET of == IF cmd[k].id = None THEN InState("approved")
              ELSE {cmd[k].id} \cap InState("approved")
    IN \/ /\ of # {}
          /\ grant' = [grant EXCEPT ![Smallest(of)] = "gone"]
          /\ cmd' = [cmd EXCEPT ![k] = [@ EXCEPT !.kind = "run", !.id = Smallest(of)]]
          /\ UNCHANGED conn
       \/ /\ of = {} /\ InState("pending") # {}
          /\ Answer(k, "approval_required", Smallest(InState("pending")))
          /\ cmd' = [cmd EXCEPT ![k] = NoCommand]
          /\ UNCHANGED grant
       \/ /\ of = {} /\ InState("pending") = {} /\ InState("none") # {}
          /\ LET i == Smallest(InState("none"))
             IN /\ grant' = [grant EXCEPT ![i] = "pending"]
                /\ Answer(k, "approval_required", i)
          /\ cmd' = [cmd EXCEPT ![k] = NoCommand]

ResultArrives(k) ==
    /\ Up /\ cmd[k].pending
    /\ \/ cmd[k].kind = "reported" /\ Reported(k)
       \/ /\ cmd[k].kind = "done"
          /\ Answer(k, "ok", cmd[k].id)
          /\ cmd' = [cmd EXCEPT ![k] = NoCommand]
          /\ UNCHANGED grant
    /\ UNCHANGED <<call, daemon, past, count>>

\* A result nobody waits for.
LateResult(k) ==
    /\ Up /\ ~cmd[k].pending /\ cmd[k].kind \in {"reported", "done", "lost"}
    /\ cmd' = [cmd EXCEPT ![k] = NoCommand]
    /\ UNCHANGED <<call, conn, grant, daemon, past, count>>

\* The timer of #routeCommand(): 30 s for the extension to answer.
CommandTimeout(k) ==
    /\ Up /\ cmd[k].pending
    /\ \/ cmd[k].kind = "lost" /\ UNCHANGED count
       \/ cmd[k].kind # "lost" /\ Fault
    /\ cmd' = [cmd EXCEPT ![k].pending = FALSE]
    /\ Answer(k, "failed", conn[k].id)
    /\ UNCHANGED <<call, grant, daemon, past>>

\* "close": the command of a client that left is forgotten, not recalled.
Closed(k) ==
    /\ ~conn[k].client
    /\ \/ conn[k].stage = "connecting"
       \/ Up /\ conn[k].stage \in {"challenge", "accepted", "answer"}
       \/ conn[k].stage = "ended"
    /\ conn' = [conn EXCEPT ![k] = Free]
    /\ cmd' = [cmd EXCEPT ![k] = IF @.kind = "none" THEN NoCommand
                                 ELSE [@ EXCEPT !.pending = FALSE]]
    /\ UNCHANGED <<call, grant, daemon, past, count>>

\* #expireApproval().
Expires(i) ==
    /\ Up /\ grant[i] \in {"pending", "approved"} /\ Fault
    /\ grant' = [grant EXCEPT ![i] = "gone"]
    /\ UNCHANGED <<call, conn, cmd, daemon, past>>

\* The process stands still for longer than any timer, and may go on later.
Freezes == Up /\ Fault /\ daemon' = "frozen"
           /\ UNCHANGED <<call, conn, cmd, grant, past>>
Thaws == daemon = "frozen" /\ daemon' = "up"
         /\ UNCHANGED <<call, conn, cmd, grant, past, count>>

\* stop(), or the end of the process.
Dies ==
    /\ daemon # "down" /\ Fault
    /\ daemon' = "down"
    /\ conn' = [k \in Conns |->
         IF k \notin AtDaemon THEN conn[k]
         ELSE IF conn[k].client THEN [conn[k] EXCEPT !.stage = "ended"] ELSE Free]
    /\ cmd' = [k \in Conns |-> [cmd[k] EXCEPT !.pending = FALSE]]
    /\ grant' = [i \in Ids |-> IF grant[i] = "none" THEN "none" ELSE "gone"]
    /\ UNCHANGED <<call, past>>

Starts ==
    /\ daemon = "down" /\ daemon' = "up"
    /\ UNCHANGED <<call, conn, cmd, grant, past, count>>

-----------------------------------------------------------------------------
(* The extension.                                                          *)

Reports(k) ==
    /\ cmd[k].kind \in {"probe", "recheck"}
    /\ cmd' = [cmd EXCEPT ![k].kind = "reported"]
    /\ UNCHANGED <<call, conn, grant, daemon, past, count>>

Reads(k) ==
    /\ cmd[k].kind = "read"
    /\ cmd' = [cmd EXCEPT ![k].kind = "done"]
    /\ UNCHANGED <<call, conn, grant, daemon, past, count>>

Runs(k) ==
    /\ cmd[k].kind = "run"
    /\ cmd' = [cmd EXCEPT ![k].kind = "done"]
    /\ past' = [past EXCEPT !.ran[cmd[k].id] = @ + 1]
    /\ call' = [c \in Calls |-> IF call[c].conn = k
                                THEN [call[c] EXCEPT !.acted = TRUE] ELSE call[c]]
    /\ UNCHANGED <<conn, grant, daemon, count>>

\* The worker dies with the command.
Loses(k) ==
    /\ cmd[k].kind \in {"read", "probe", "recheck", "run", "reported", "done"} /\ Fault
    /\ cmd' = [cmd EXCEPT ![k].kind = "lost"]
    /\ UNCHANGED <<call, conn, grant, daemon, past>>

-----------------------------------------------------------------------------
Init ==
    /\ call = [c \in Calls |-> Idle] /\ conn = [k \in Conns |-> Free]
    /\ cmd = [k \in Conns |-> NoCommand]
    /\ grant = [i \in Ids |-> "none"] /\ daemon = "up"
    /\ past = [yes |-> {}, ran |-> [i \in Ids |-> 0]]
    /\ count = [calls |-> 0, faults |-> 0]

CallStep(c) ==
    \/ Connects(c) \/ ElicitationFails(c)
    \/ \E action \in {"accept", "cancel"}, choice \in Decisions :
         Elicited(c, action, choice)
ConnStep(k) ==
    \/ ChallengeComes(k) \/ AnswerComes(k) \/ EndComes(k) \/ ClientTimeout(k)
    \/ Accept(k) \/ HelloArrives(k) \/ Closed(k)
    \/ ReadArrives(k) \/ ActionArrives(k) \/ BeginArrives(k) \/ SubmitArrives(k)
CommandStep(k) ==
    Reads(k) \/ Reports(k) \/ Runs(k) \/ ResultArrives(k) \/ LateResult(k) \/ CommandTimeout(k)
Disturbs ==
    \/ \E c \in Calls : ToolCalled(c) \/ ReadCalled(c) \/ AgentDies(c)
    \/ \E k \in Conns : HandshakeTimeout(k) \/ Loses(k)
    \/ \E i \in Ids : Expires(i)
    \/ Freezes \/ Thaws \/ Dies

Next ==
    \/ \E c \in Calls : CallStep(c)
    \/ \E k \in Conns : ConnStep(k) \/ CommandStep(k)
    \/ Starts \/ Disturbs

\* The processes run, the human or the client's timeout ends the question,
\* and the service is started again; a frozen daemon may stay frozen.
Fairness ==
    /\ \A c \in Calls : WF_vars(CallStep(c))
    /\ \A k \in Conns : WF_vars(ConnStep(k)) /\ WF_vars(CommandStep(k))
    /\ WF_vars(Starts)

Spec == Init /\ [][Next]_vars
LiveSpec == Spec /\ Fairness

-----------------------------------------------------------------------------
TypeOK ==
    /\ call \in [Calls -> [at : Places, conn : Conns \cup {None},
                           id : Ids \cup {None}, decision : Decisions,
                           outcome : Outcomes, acted : BOOLEAN]]
    /\ \A k \in Conns : conn[k].stage \in Stages /\ cmd[k].kind \in Kinds
    /\ grant \in [Ids -> GrantStates] /\ daemon \in {"up", "frozen", "down"}

\* (type; confirmInSession(), #handleSessionApprovalSubmit()) A sensitive
\* action runs at most once for each approval, and only for one that a human
\* accepted with "approve": not after a refusal, a lost answer or a restart.
Confirmed ==
    /\ TypeOK
    /\ \A i \in Ids : past.ran[i] <= IF i \in past.yes THEN 1 ELSE 0

\* (invokeAction()) A call that tells the agent that nothing was executed is
\* right: its own command did not run; and an approval that it reports as
\* refused was not used by another call either, nor will be.
Truthful ==
    \A c \in Calls :
        /\ call[c].outcome \in NotExecuted => ~call[c].acted
        /\ call[c].outcome = "rejected" =>
             grant[call[c].id] = "gone" /\ past.ran[call[c].id] = 0

\* (callBridge()) Every tool call returns: whatever is lost, the daemon's
\* timers answer, and the client's own ends a request to a daemon that hangs.
CallsReturn == \A c \in Calls : call[c].at # "idle" ~> call[c].at = "idle"
=============================================================================
