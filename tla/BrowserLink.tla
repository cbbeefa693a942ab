---------------------------- MODULE BrowserLink ----------------------------
(***************************************************************************)
(* The connection between the extension and the daemon: connect(), its     *)
(* socket handlers, the reconnect timer and alarm of background/runtime.ts,*)
(* the transcript of security/handshake.ts, and the daemon's side of the   *)
(* handshake, its heartbeat and its browser sessions (daemon/runtime.ts).  *)
(*                                                                         *)
(* One paired browser.  A connection is known by an identifier that is     *)
(* used again once both ends have forgotten it; the newest one stands for  *)
(* connectionGeneration.  Closing follows RFC 6455 as both libraries do:   *)
(* an end that called close() drops what still arrives (the browser) or    *)
(* still handles it (ws), and its close event comes after the other end's  *)
(* close frame.                                                            *)
(***************************************************************************)
EXTENDS Naturals, Sequences, FiniteSets

CONSTANTS
    Conn,        \* identifiers of connections
    None,
    MaxWaiting,  \* MAX_UNAUTHENTICATED_CONNECTIONS
    LongDelay,   \* failures until the reconnect delay is the longest
    MaxFaults    \* bound on stops, kills, stalls, failures, clicks (model only)

ASSUME ConstantsAssumption ==
    /\ None \notin Conn /\ {MaxWaiting, LongDelay} \subseteq Nat \ {0}
    /\ MaxFaults \in Nat

VARIABLES
    ext,      \* the extension's worker and what survives it
    stage,    \* how far connect() and its socket are, at the extension
    secret,   \* the token connect() read
    up, down, \* what is under way to the daemon, to the extension
    link,     \* readyState of the daemon's socket
    phase,    \* what the daemon's handlers of the socket wait for
    dm,       \* the daemon
    faults    \* what the bound counts

vars == <<ext, stage, secret, up, down, link, phase, dm, faults>>

Tokens == {"none", "wrong", "right"}
Stages == {"free", "token", "identity", "opening", "greeted", "verifying",
           "signing", "waiting", "live", "closing", "left"}
Links == {"off", "open", "closing", "closed"}
Phases == {"off", "hello", "challenged", "pinning", "session"}
Frames == {"open", "client_hello", "challenge", "hello", "hello_ack",
           "ping", "pong", "close"}

Ext == [worker : {"running", "suspended", "killed"},
        booting : BOOLEAN,               \* initializeBackground() runs
        identity : {"unread", "ok", "failed"},  \* the promises it caches
        cur : Conn \cup {None},          \* connectionGeneration
        sock : Conn \cup {None},
        authenticated : BOOLEAN,
        reconnectTimer : BOOLEAN,
        attempt : 0 .. LongDelay,        \* state.reconnectAttempt
        authTimer : BOOLEAN,
        alarm : BOOLEAN,                 \* kept by the browser
        token : Tokens]                  \* in local storage

Daemon == [up : BOOLEAN,
           pins : Seq(Conn),             \* the key registry's mutation queue
           session : Conn \cup {None},
           pong : BOOLEAN]               \* awaitingPongTimestamp

Newest(c) == ext.cur = c
Busy == {c \in Conn : stage[c] \notin {"free", "left"}}
\* Nobody remembers the connection: its identifier may serve again.
Forgettable(c) == phase[c] = "off" /\ dm.session # c
Forgotten(c) ==
    /\ stage[c] = "free" /\ link[c] \in {"off", "closed"} /\ Forgettable(c)

\* What is sent to a socket that is gone is lost.
ToDaemon(c, m) ==
    IF link[c] \in {"open", "closing"} THEN [up EXCEPT ![c] = Append(@, m)] ELSE up

-----------------------------------------------------------------------------
(* The extension: one generation of connect().                             *)

\* closeCurrentSocket(): the handlers are taken off the old socket.
Leave(st) == [c \in Conn |->
    IF ext.sock # c THEN st[c] ELSE IF link[c] = "off" THEN "free" ELSE "left"]
LeftOpen == up
LeaveUp == IF ext.sock = None \/ stage[ext.sock] = "closing" THEN up
           ELSE ToDaemon(ext.sock, "close")

\* connect() up to the await of storedToken(); nothing comes between the
\* two, since every call awaits the same loaded session state.
Connect(c, e) ==
    /\ Forgotten(c) /\ c = CHOOSE d \in Conn : Forgotten(d)
    /\ ext' = [e EXCEPT !.cur = c, !.sock = None, !.authenticated = FALSE,
                        !.reconnectTimer = FALSE, !.authTimer = FALSE]
    /\ stage' = [Leave(stage) EXCEPT ![c] = "token"]
    /\ up' = [LeaveUp EXCEPT ![c] = <<>>]
    /\ down' = [down EXCEPT ![c] = <<>>]
    /\ link' = [link EXCEPT ![c] = "off"]
    /\ UNCHANGED <<secret, phase, dm>>

\* Every await of connect() is followed by the check of the generation.
TokenRead(c) ==
    /\ stage[c] = "token"
    /\ IF Newest(c) /\ ext.token # "none"
       THEN stage' = [stage EXCEPT ![c] = "identity"] /\ UNCHANGED ext
       ELSE /\ stage' = [stage EXCEPT ![c] = "free"]
            /\ ext' = IF Newest(c) THEN [ext EXCEPT !.alarm = FALSE] ELSE ext
    /\ secret' = [secret EXCEPT ![c] = IF Newest(c) THEN ext.token ELSE @]
    /\ UNCHANGED <<up, down, link, phase, dm, faults>>

\* installationId() and deviceSigningKey() keep the promise of the first
\* call, the rejected one too, for as long as the worker lives.
Identity(ok) ==
    /\ ext.identity = (IF ok THEN "ok" ELSE "failed") \/ ext.identity = "unread"
    /\ IF ~ok /\ ext.identity = "unread"
       THEN faults < MaxFaults /\ faults' = faults + 1
       ELSE UNCHANGED faults
Known(ok) == [ext EXCEPT !.identity = IF ok THEN "ok" ELSE "failed"]

IdentityRead(c, ok) ==
    /\ stage[c] = "identity"
    /\ Identity(ok)
    /\ IF Newest(c) /\ ok
       THEN /\ stage' = [stage EXCEPT ![c] = "opening"]
            /\ ext' = [Known(ok) EXCEPT !.sock = c]
       ELSE /\ stage' = [stage EXCEPT ![c] = "free"]
            /\ ext' = Known(ok)
    /\ UNCHANGED <<secret, up, down, link, phase, dm>>

Comes(c, m) == down[c] # <<>> /\ Head(down[c]) = m

\* The upgrade answers the opening request: onopen sends the client hello.
ExtOpen(c) ==
    /\ stage[c] = "opening" /\ Comes(c, "open")
    /\ stage' = [stage EXCEPT ![c] = "greeted"]
    /\ ext' = [ext EXCEPT !.authTimer = TRUE]
    /\ up' = ToDaemon(c, "client_hello")
    /\ down' = [down EXCEPT ![c] = Tail(@)]
    /\ UNCHANGED <<secret, link, phase, dm, faults>>

\* currentSocket.close(): the close frame leaves after what was sent.
ExtCloses(c) ==
    /\ stage' = [stage EXCEPT ![c] = "closing"]
    /\ up' = ToDaemon(c, "close")

ExtChallenge(c) ==
    /\ stage[c] = "greeted" /\ Comes(c, "challenge")
    /\ stage' = [stage EXCEPT ![c] = "verifying"]
    /\ down' = [down EXCEPT ![c] = Tail(@)]
    /\ UNCHANGED <<ext, secret, up, link, phase, dm, faults>>

\* verifyChallenge(): the daemon proved that it holds the stored token.
ChallengeVerified(c) ==
    /\ stage[c] = "verifying"
    /\ IF secret[c] = "right"
       THEN stage' = [stage EXCEPT ![c] = "signing"] /\ UNCHANGED up
       ELSE ExtCloses(c)
    /\ UNCHANGED <<ext, secret, down, link, phase, dm, faults>>

\* sendSignedHello() after the signature, on a socket that is still open.
HelloSigned(c) ==
    /\ stage[c] = "signing" /\ Newest(c) /\ ext.sock = c
    /\ stage' = [stage EXCEPT ![c] = "waiting"]
    /\ up' = ToDaemon(c, "hello")
    /\ UNCHANGED <<ext, secret, down, link, phase, dm, faults>>

ExtAck(c) ==
    /\ stage[c] = "waiting" /\ Comes(c, "hello_ack")
    /\ stage' = [stage EXCEPT ![c] = "live"]
    /\ ext' = [ext EXCEPT !.authTimer = FALSE, !.authenticated = TRUE,
                          !.attempt = 0, !.alarm = FALSE]
    /\ down' = [down EXCEPT ![c] = Tail(@)]
    /\ UNCHANGED <<secret, up, link, phase, dm, faults>>

ExtPing(c) ==
    /\ stage[c] = "live" /\ Comes(c, "ping")
    /\ up' = ToDaemon(c, "pong")
    /\ down' = [down EXCEPT ![c] = Tail(@)]
    /\ UNCHANGED <<ext, stage, secret, link, phase, dm, faults>>

\* The browser answers a close frame; it drops whatever else comes after
\* close() or after the handlers were taken off.
ExtCloseFrame(c) ==
    /\ down[c] # <<>>
    /\ \/ /\ stage[c] \in {"closing", "left"}
          /\ UNCHANGED <<stage, up>>
       \/ /\ stage[c] \notin {"closing", "left"}
          /\ Comes(c, "close") /\ link[c] = "closing"
          /\ ExtCloses(c)
    /\ down' = [down EXCEPT ![c] = Tail(@)]
    /\ UNCHANGED <<ext, secret, link, phase, dm, faults>>

\* onclose: scheduleReconnect() arms the timer and the alarm.
ScheduledInMemory ==
    [ext EXCEPT !.sock = None, !.authenticated = FALSE, !.authTimer = FALSE,
                !.reconnectTimer = TRUE,
                !.attempt = IF @ = LongDelay THEN @ ELSE @ + 1]
Scheduled == [ScheduledInMemory EXCEPT !.alarm = TRUE]

\* The end of the socket: nothing of it is left but a handler of the daemon
\* that still waits for pin().
Released(c) ==
    /\ stage' = [stage EXCEPT ![c] = "free"]
    /\ secret' = [secret EXCEPT ![c] = "none"]
    /\ down' = [down EXCEPT ![c] = <<>>]
    /\ link' = [link EXCEPT ![c] = IF Forgettable(c) THEN "off" ELSE @]
    /\ UNCHANGED <<up, phase, dm, faults>>

Lost(c) == Released(c) /\ ext' = Scheduled

ExtOnClose(c) ==
    /\ link[c] = "closed" /\ ext.sock = c
    /\ down[c] = <<>> \/ Comes(c, "close")
    /\ Lost(c)

\* The socket that was left behind is gone.
ExtForget(c) ==
    /\ stage[c] = "left" /\ link[c] = "closed"
    /\ Released(c) /\ UNCHANGED ext

Waiting == {c \in Conn : link[c] \in {"open", "closing"} /\ phase[c] # "session"}
Full == Cardinality(Waiting) >= MaxWaiting

\* Nobody listens, or verifyClient refuses.
Refused(c) ==
    /\ stage[c] = "opening" /\ link[c] = "off"
    /\ ~dm.up \/ Full
    /\ Lost(c)

AuthTimeout(c) ==
    /\ ext.authTimer /\ ext.sock = c /\ stage[c] # "closing"
    /\ faults < MaxFaults /\ faults' = faults + 1
    /\ ExtCloses(c)
    /\ ext' = [ext EXCEPT !.authTimer = FALSE]
    /\ UNCHANGED <<secret, down, link, phase, dm>>

-----------------------------------------------------------------------------
(* What starts connect(): the end of initializeBackground(), the timer, the *)
(* alarm, the popup and the options page.                                  *)

Booted(c, ok) ==
    /\ ext.worker = "running" /\ ext.booting
    /\ Identity(ok)
    /\ IF ok THEN Connect(c, [Known(ok) EXCEPT !.booting = FALSE])
       ELSE /\ ext' = [Known(ok) EXCEPT !.booting = FALSE]
            /\ UNCHANGED <<stage, secret, up, down, link, phase, dm>>

TimerFires(c) ==
    /\ ext.reconnectTimer
    /\ Connect(c, ext)
    /\ UNCHANGED faults

Woken == IF ext.worker = "running" THEN ext
         ELSE [ext EXCEPT !.worker = "running", !.booting = TRUE,
                          !.identity = "unread"]

\* Once a minute: an attempt under way lasts that long only if it stalls.
AlarmFires ==
    /\ ext.alarm
    /\ IF Busy # {} THEN faults < MaxFaults /\ faults' = faults + 1
       ELSE UNCHANGED faults
    /\ IF ext.authenticated
       THEN /\ ext' = [ext EXCEPT !.alarm = FALSE]
            /\ UNCHANGED <<stage, secret, up, down, link, phase, dm>>
       ELSE \E c \in Conn : Connect(c, Woken)

UserReconnects(c) ==
    /\ faults < MaxFaults /\ faults' = faults + 1
    /\ Connect(c, Woken)

\* The token is removed: the storage listener and the handler both connect.
PairingRemoved(c) ==
    /\ ext.token # "none" /\ faults < MaxFaults /\ faults' = faults + 1
    /\ Connect(c, [Woken EXCEPT !.token = "none"])

\* Any event the worker listens to (a tab, a navigation) starts it again.
BrowserEvent ==
    /\ ext.worker # "running"
    /\ ext' = Woken
    /\ UNCHANGED <<stage, secret, up, down, link, phase, dm, faults>>

\* The browser stops a worker that was idle for half a minute: the sockets it
\* left are closed by then, and a timer is still pending only after so many
\* failures that its delay is the longest.  The timer goes, the alarm stays.
Suspended ==
    /\ ext.worker = "running" /\ ~ext.booting
    /\ \A c \in Conn : stage[c] = "free"
    /\ ext.reconnectTimer => ext.attempt = LongDelay
    /\ ext' = [ext EXCEPT !.worker = "suspended", !.reconnectTimer = FALSE,
                          !.attempt = 0, !.cur = None]
    /\ UNCHANGED <<stage, secret, up, down, link, phase, dm, faults>>

\* The worker or its browser dies, and its sockets with it.
Killed ==
    /\ ext.worker = "running" /\ faults < MaxFaults /\ faults' = faults + 1
    /\ ext' = [ext EXCEPT !.worker = "killed", !.booting = FALSE, !.cur = None,
                 !.sock = None, !.authenticated = FALSE,
                 !.reconnectTimer = FALSE, !.authTimer = FALSE, !.attempt = 0]
    /\ stage' = [c \in Conn |-> Leave([d \in Conn |->
                   IF stage[d] = "left" THEN "left" ELSE "free"])[c]]
    /\ up' = LeaveUp
    /\ UNCHANGED <<secret, down, link, phase, dm>>

-----------------------------------------------------------------------------
(* The daemon.                                                             *)

\* verifyClient and #handleWebSocket().
Accept(c) ==
    /\ dm.up /\ stage[c] = "opening" /\ link[c] = "off" /\ ~Full
    /\ link' = [link EXCEPT ![c] = "open"]
    /\ phase' = [phase EXCEPT ![c] = "hello"]
    /\ down' = [down EXCEPT ![c] = <<"open">>]
    /\ UNCHANGED <<ext, stage, secret, up, dm, faults>>

\* send() on a socket that is not open does nothing.
Sent(q, c, m) == IF link[c] = "open" THEN [q EXCEPT ![c] = Append(@, m)] ELSE q

AtHead(c, m) == link[c] \in {"open", "closing"} /\ up[c] # <<>> /\ Head(up[c]) = m
Arrived(c, m) == AtHead(c, m) /\ up' = [up EXCEPT ![c] = Tail(@)]

\* #beginExtensionHandshake() for a pinned installation: ws hands over what
\* arrives before the close frame, even after close().
ClientHello(c) ==
    /\ Arrived(c, "client_hello")
    /\ phase' = [phase EXCEPT ![c] = "challenged"]
    /\ down' = Sent(down, c, "challenge")
    /\ UNCHANGED <<ext, stage, secret, link, dm, faults>>

\* #authenticateExtension() up to the await of the registry's pin().
Hello(c) ==
    /\ Arrived(c, "hello")
    /\ phase' = [phase EXCEPT ![c] = "pinning"]
    /\ dm' = [dm EXCEPT !.pins = Append(@, c)]
    /\ UNCHANGED <<ext, stage, secret, down, link, faults>>

\* The rest of it: the session of the installation is replaced, and the
\* socket of the session before closed.
Pinned ==
    /\ dm.up /\ dm.pins # <<>>
    /\ LET c == Head(dm.pins)
           before == dm.session
       IN /\ phase' = [d \in Conn |->
               IF d = c THEN "session"
               ELSE IF d = before /\ link[d] = "closed" THEN "off" ELSE phase[d]]
          /\ dm' = [dm EXCEPT !.pins = Tail(@), !.session = c, !.pong = FALSE]
          /\ IF before # None /\ link[before] = "open"
             THEN /\ link' = [link EXCEPT ![before] = "closing"]
                  /\ down' = [Sent(down, c, "hello_ack")
                                EXCEPT ![before] = Append(@, "close")]
             ELSE /\ down' = Sent(down, c, "hello_ack")
                  /\ UNCHANGED link
    /\ UNCHANGED <<ext, stage, secret, up, faults>>

Pong(c) ==
    /\ Arrived(c, "pong")
    /\ dm' = IF dm.session = c THEN [dm EXCEPT !.pong = FALSE] ELSE dm
    /\ UNCHANGED <<ext, stage, secret, down, link, phase, faults>>

\* The close handler: #disconnectBrowser() when this socket got a session,
\* and only if the installation's session is still on this socket.
SessionDropped(c) ==
    IF phase[c] = "session" THEN [dm EXCEPT !.session = None, !.pong = FALSE] ELSE dm
SessionAfter(c) ==
    IF phase[c] = "session" /\ dm.session = c
    THEN [dm EXCEPT !.session = None, !.pong = FALSE] ELSE dm
Gone(c) ==
    /\ link' = [link EXCEPT ![c] = "closed"]
    /\ dm' = SessionAfter(c)
    /\ phase' = [phase EXCEPT ![c] = IF @ = "pinning" THEN @ ELSE "off"]
    /\ up' = [up EXCEPT ![c] = <<>>]

CloseArrives(c) ==
    /\ AtHead(c, "close")
    /\ Gone(c)
    /\ UNCHANGED <<ext, stage, secret, down, faults>>

HelloTimeout(c) ==
    /\ link[c] = "open" /\ phase[c] \in {"hello", "challenged", "pinning"}
    /\ faults < MaxFaults /\ faults' = faults + 1
    /\ link' = [link EXCEPT ![c] = "closing"]
    /\ down' = [down EXCEPT ![c] = Append(@, "close")]
    /\ UNCHANGED <<ext, stage, secret, up, phase, dm>>

\* One tick: a ping, or the end of a session that did not answer the last
\* one.  A pong takes longer than a tick only if the worker stalls.
Heartbeat ==
    /\ dm.up /\ dm.session # None
    /\ LET c == dm.session
       IN \/ /\ ~dm.pong
             /\ dm' = [dm EXCEPT !.pong = TRUE]
             /\ down' = Sent(down, c, "ping")
             /\ UNCHANGED <<up, link, phase, faults>>
          \/ /\ dm.pong /\ link[c] # "closed"
             /\ faults < MaxFaults /\ faults' = faults + 1
             /\ Gone(c)
             /\ UNCHANGED down
    /\ UNCHANGED <<ext, stage, secret>>

\* stop(), or the end of the process: every socket with it.
DaemonStops ==
    /\ dm.up /\ faults < MaxFaults /\ faults' = faults + 1
    /\ dm' = [up |-> FALSE, pins |-> <<>>, session |-> None, pong |-> FALSE]
    /\ link' = [c \in Conn |-> IF link[c] = "off" THEN "off" ELSE "closed"]
    /\ phase' = [c \in Conn |-> "off"]
    /\ up' = [c \in Conn |-> <<>>]
    /\ UNCHANGED <<ext, stage, secret, down>>

DaemonStarts ==
    /\ ~dm.up
    /\ dm' = [dm EXCEPT !.up = TRUE]
    /\ UNCHANGED <<ext, stage, secret, up, down, link, phase, faults>>

-----------------------------------------------------------------------------
Init ==
    /\ \E t \in Tokens :
         ext = [worker |-> "running", booting |-> TRUE, identity |-> "unread",
                cur |-> None, sock |-> None, authenticated |-> FALSE,
                reconnectTimer |-> FALSE, attempt |-> 0, authTimer |-> FALSE,
                alarm |-> FALSE, token |-> t]
    /\ stage = [c \in Conn |-> "free"]
    /\ secret = [c \in Conn |-> "none"]
    /\ up = [c \in Conn |-> <<>>] /\ down = [c \in Conn |-> <<>>]
    /\ link = [c \in Conn |-> "off"] /\ phase = [c \in Conn |-> "off"]
    /\ dm = [up |-> TRUE, pins |-> <<>>, session |-> None, pong |-> FALSE]
    /\ faults = 0

\* The steps of an attempt, none of which waits for anything outside.
ExtStep(c) ==
    \/ TokenRead(c) \/ IdentityRead(c, TRUE) \/ IdentityRead(c, FALSE)
    \/ ExtOpen(c) \/ ExtChallenge(c) \/ ChallengeVerified(c) \/ HelloSigned(c)
    \/ ExtAck(c) \/ ExtPing(c) \/ ExtCloseFrame(c) \/ ExtOnClose(c)
    \/ ExtForget(c) \/ Refused(c)
DaemonStep(c) ==
    \/ Accept(c) \/ ClientHello(c) \/ Hello(c) \/ Pong(c) \/ CloseArrives(c)
Starts ==
    \E c \in Conn : \/ Booted(c, TRUE) \/ Booted(c, FALSE) \/ TimerFires(c)
Disturbs ==
    \/ Suspended \/ Killed \/ BrowserEvent \/ Heartbeat \/ DaemonStops
    \/ \E c \in Conn : \/ AuthTimeout(c) \/ HelloTimeout(c)
                       \/ UserReconnects(c) \/ PairingRemoved(c)

Next ==
    \/ \E c \in Conn : ExtStep(c) \/ DaemonStep(c)
    \/ Starts \/ AlarmFires \/ Pinned \/ DaemonStarts \/ Disturbs

\* The event loops go on, timers and alarms fire, and systemd starts the
\* service again (Restart=); nothing else is sure to happen.
Fairness ==
    /\ \A c \in Conn : WF_vars(ExtStep(c)) /\ WF_vars(DaemonStep(c))
    /\ WF_vars(Starts) /\ WF_vars(AlarmFires)
    /\ WF_vars(Pinned) /\ WF_vars(DaemonStarts)

Spec == Init /\ [][Next]_vars
LiveSpec == Spec /\ Fairness

-----------------------------------------------------------------------------
TypeOK ==
    /\ ext \in Ext /\ stage \in [Conn -> Stages] /\ secret \in [Conn -> Tokens]
    /\ \A c \in Conn : /\ \A i \in 1 .. Len(up[c]) : up[c][i] \in Frames
                       /\ \A i \in 1 .. Len(down[c]) : down[c][i] \in Frames
    /\ link \in [Conn -> Links] /\ phase \in [Conn -> Phases]
    /\ dm.up \in BOOLEAN /\ dm.pong \in BOOLEAN
    /\ dm.session \in Conn \cup {None} /\ faults \in 0 .. MaxFaults

Connected ==
    \E c \in Conn : /\ ext.sock = c /\ ext.authenticated /\ stage[c] = "live"
                    /\ link[c] = "open" /\ dm.session = c

\* (type, and #disconnectBrowser()'s check of the socket) While the extension
\* believes in a connection that the daemon has not closed, commands for this
\* browser go to that connection, whatever older sockets close meanwhile.
Agreement ==
    /\ TypeOK
    /\ \A c \in Conn :
         ext.sock = c /\ ext.authenticated /\ link[c] = "open" => dm.session = c

\* (scheduleReconnect(), the alarm) A browser that stays paired ends up
\* connected, whatever was lost before; except that a killed worker without
\* an alarm waits for an event of the browser, and that a failure to read the
\* identity is kept for the life of the worker.
Reconnects ==
    <>[](ext.token = "right") =>
    <>[](\/ Connected
         \/ ext.worker = "killed" /\ ~ext.alarm
         \/ ext.identity = "failed")

\* (closeCurrentSocket(), MAX_UNAUTHENTICATED_CONNECTIONS) A connection that did
\* not authenticate is the one the extension is using, or its close is on the
\* way: abandoned attempts never wait for a timeout to give their places back.
PlacesComeBack ==
    \A c \in Waiting :
        ext.sock = c \/ \E i \in 1 .. Len(up[c]) : up[c][i] = "close"
=============================================================================
