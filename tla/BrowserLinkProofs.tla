--------------------------- MODULE BrowserLinkProofs ---------------------------
(***************************************************************************)
(* The two ends of a connection go through its handshake together, and     *)
(* agree on which one is in use: Agreement and PlacesComeBack of           *)
(* BrowserLink.                                                            *)
(***************************************************************************)
EXTENDS BrowserLink, TLAPS
-----------------------------------------------------------------------------
(* The inductive invariant, part by part. *)

Has(q, m) == \E i \in 1 .. Len(q) : q[i] = m
Once(q, m) == \A i, j \in 1 .. Len(q) : q[i] = m /\ q[j] = m => i = j

Attached == {"opening", "greeted", "verifying", "signing", "waiting", "live", "closing"}
Carries(c) == link[c] \in {"open", "closing"}

\* Every variable has its type, and queues hold frames and connections.
Typed ==
    /\ ext \in Ext /\ stage \in [Conn -> Stages] /\ secret \in [Conn -> Tokens]
    /\ up \in [Conn -> Seq(Frames)] /\ down \in [Conn -> Seq(Frames)]
    /\ link \in [Conn -> Links] /\ phase \in [Conn -> Phases]
    /\ dm \in Daemon /\ faults \in 0 .. MaxFaults

\* The extension holds one socket, of its newest connection; it authenticated
\* only on a socket that is live, or that the daemon closes.
Sockets ==
    /\ ext.sock # None => ext.sock = ext.cur
    /\ \A c \in Conn : stage[c] \in Attached <=> ext.sock = c
    /\ ext.authenticated =>
          /\ ~ext.authTimer
          /\ \E c \in Conn : /\ ext.sock = c
                             /\ \/ stage[c] = "live"
                                \/ stage[c] = "closing" /\ link[c] # "open"

\* The registry pins each connection once.
Pinning ==
    \A i \in 1 .. Len(dm.pins) :
        /\ phase[dm.pins[i]] = "pinning"
        /\ \A j \in 1 .. Len(dm.pins) : dm.pins[j] = dm.pins[i] => j = i

\* The daemon's session is of a connection that got one, and no other open one has.
Sessions ==
    /\ dm.session # None => phase[dm.session] = "session"
    /\ \A c \in Conn : phase[c] = "session" /\ link[c] = "open" => dm.session = c

\* A connection that carries frames is held by the extension or was left; one
\* that was never accepted, or is closed, has nothing under way to the daemon.
Ends(c) ==
    /\ Carries(c) => stage[c] \in Attached \cup {"left"}
    /\ ~Carries(c) => up[c] = <<>>
    /\ link[c] = "off" => phase[c] = "off"

\* What the extension closed or left will tell the daemon.
Leaving(c) == Carries(c) /\ stage[c] \in {"closing", "left"} => Has(up[c], "close")

\* Both ends of a connection go through the handshake together.
InStep(c) ==
    /\ phase[c] # "off"
    /\ stage[c] = "opening" => phase[c] = "hello"
    /\ stage[c] = "greeted" => phase[c] \in {"hello", "challenged"}
    /\ stage[c] \in {"verifying", "signing"} => phase[c] = "challenged"
    /\ stage[c] = "waiting" => phase[c] # "hello"
    /\ stage[c] = "live" => phase[c] = "session"
    /\ Has(up[c], "client_hello") => phase[c] = "hello" /\ stage[c] # "opening"
    /\ Has(up[c], "hello") =>
          phase[c] = "challenged" /\ stage[c] \in {"waiting", "closing", "left"}
    /\ Once(up[c], "client_hello") /\ Once(up[c], "hello")
    /\ Has(down[c], "challenge") => phase[c] # "hello"
    /\ Has(down[c], "hello_ack") => phase[c] = "session"

Local(c) == Ends(c) /\ Leaving(c) /\ (Carries(c) => InStep(c))

LinkInv == Typed /\ Sockets /\ Pinning /\ Sessions /\ \A c \in Conn : Local(c)
-----------------------------------------------------------------------------
(* Queues of frames. *)

LEMMA NoneIsNoConnection == None \notin Conn
  BY ConstantsAssumption

LEMMA Limits == LongDelay \in Nat \ {0} /\ MaxFaults \in Nat
  BY ConstantsAssumption

LEMMA EmptyQueue ==
  ASSUME NEW m
  PROVE  ~Has(<<>>, m) /\ Once(<<>>, m)
  BY DEF Has, Once

LEMMA AppendQueue ==
  ASSUME NEW q \in Seq(Frames), NEW x \in Frames, NEW m
  PROVE  /\ Append(q, x) \in Seq(Frames)
         /\ Has(Append(q, x), m) <=> Has(q, m) \/ x = m
         /\ Once(q, m) /\ (x # m \/ ~Has(q, m)) => Once(Append(q, x), m)
<1>1. /\ Len(Append(q, x)) = Len(q) + 1 /\ Len(q) \in Nat
      /\ \A i \in 1 .. Len(q) : Append(q, x)[i] = q[i]
      /\ Append(q, x)[Len(q) + 1] = x
  OBVIOUS
<1>2. Has(Append(q, x), m) <=> Has(q, m) \/ x = m
  BY <1>1 DEF Has
<1>3. Once(q, m) /\ (x # m \/ ~Has(q, m)) => Once(Append(q, x), m)
  BY <1>1 DEF Has, Once
<1>4. QED BY <1>2, <1>3

LEMMA TailQueue ==
  ASSUME NEW q \in Seq(Frames), q # <<>>, NEW m
  PROVE  /\ Tail(q) \in Seq(Frames)
         /\ Has(Tail(q), m) => Has(q, m)
         /\ Has(q, m) /\ Head(q) # m => Has(Tail(q), m)
         /\ Once(q, m) => Once(Tail(q), m)
         /\ Once(q, m) /\ Head(q) = m => ~Has(Tail(q), m)
         /\ Has(q, Head(q))
<1>1. /\ Len(q) \in Nat \ {0} /\ Len(Tail(q)) = Len(q) - 1 /\ Head(q) = q[1]
      /\ \A i \in 1 .. Len(q) - 1 : Tail(q)[i] = q[i + 1]
  OBVIOUS
<1>2. Has(Tail(q), m) => Has(q, m)
  BY <1>1 DEF Has
<1>3. Has(q, m) /\ Head(q) # m => Has(Tail(q), m)
  <2> SUFFICES ASSUME NEW i \in 1 .. Len(q), q[i] = m, q[1] # m
               PROVE  \E j \in 1 .. Len(q) - 1 : q[j + 1] = m
    BY <1>1 DEF Has
  <2>1. i - 1 \in 1 .. Len(q) - 1 /\ (i - 1) + 1 = i
    BY <1>1
  <2>2. QED BY <2>1
<1>4. Once(q, m) => Once(Tail(q), m)
  <2> SUFFICES ASSUME Once(q, m), NEW i \in 1 .. Len(q) - 1, NEW j \in 1 .. Len(q) - 1,
                      q[i + 1] = m, q[j + 1] = m
               PROVE  i = j
    BY <1>1 DEF Once
  <2>1. i + 1 \in 1 .. Len(q) /\ j + 1 \in 1 .. Len(q)
    BY <1>1
  <2>2. i + 1 = j + 1
    BY <2>1 DEF Once
  <2>3. QED BY <1>1, <2>2
<1>5. Once(q, m) /\ Head(q) = m => ~Has(Tail(q), m)
  <2> SUFFICES ASSUME Once(q, m), q[1] = m, NEW i \in 1 .. Len(q) - 1, q[i + 1] = m
               PROVE  FALSE
    BY <1>1 DEF Has
  <2>1. i + 1 \in 1 .. Len(q) /\ 1 \in 1 .. Len(q)
    BY <1>1
  <2>2. i + 1 = 1
    BY <2>1 DEF Once
  <2>3. QED BY <1>1, <2>2
<1>6. Has(q, Head(q))
  BY <1>1 DEF Has
<1>7. QED BY <1>2, <1>3, <1>4, <1>5, <1>6

\* What the extension sends is under way if the socket carries it.
Grows(u, c, m) ==
    /\ u \in [Conn -> Seq(Frames)]
    /\ \A d \in Conn : d # c => u[d] = up[d]
    /\ ~Carries(c) => u[c] = up[c]
    /\ Carries(c) => \A x : /\ Has(u[c], x) <=> Has(up[c], x) \/ x = m
                            /\ Once(up[c], x) /\ (x # m \/ ~Has(up[c], x)) => Once(u[c], x)

LEMMA SentUp ==
  ASSUME Typed, NEW c \in Conn, NEW m \in Frames
  PROVE  Grows(ToDaemon(c, m), c, m)
<1> PICK u : u = ToDaemon(c, m)
  OBVIOUS
<1> SUFFICES Grows(u, c, m)
  BY Zenon
<1>1. up \in [Conn -> Seq(Frames)] /\ up[c] \in Seq(Frames)
  BY DEF Typed
<1>2. CASE Carries(c)
  <2>1. u = [up EXCEPT ![c] = Append(up[c], m)]
    BY <1>2 DEF ToDaemon, Carries
  <2>2. Append(up[c], m) \in Seq(Frames)
    BY <1>1, AppendQueue
  <2>3. u[c] = Append(up[c], m) /\ \A d \in Conn : d # c => u[d] = up[d]
    BY <1>1, <2>1
  <2>4. \A x : /\ Has(u[c], x) <=> Has(up[c], x) \/ x = m
               /\ Once(up[c], x) /\ (x # m \/ ~Has(up[c], x)) => Once(u[c], x)
    BY <1>1, <2>3, AppendQueue
  <2>5. QED BY <1>1, <1>2, <2>1, <2>2, <2>3, <2>4 DEF Grows
<1>3. CASE ~Carries(c)
  <2>1. u = up
    BY <1>3 DEF ToDaemon, Carries
  <2>2. QED BY <1>1, <1>3, <2>1 DEF Grows
<1>4. QED BY <1>2, <1>3

\* What the daemon sends is under way if the socket is open.
Answers(u, c, m) ==
    /\ u \in [Conn -> Seq(Frames)]
    /\ \A d \in Conn : d # c => u[d] = down[d]
    /\ \A x : Has(u[c], x) => Has(down[c], x) \/ x = m

LEMMA SentDown ==
  ASSUME Typed, NEW c \in Conn, NEW m \in Frames
  PROVE  Answers(Sent(down, c, m), c, m)
<1> PICK u : u = Sent(down, c, m)
  OBVIOUS
<1> SUFFICES Answers(u, c, m)
  BY Zenon
<1>1. down \in [Conn -> Seq(Frames)] /\ down[c] \in Seq(Frames)
  BY DEF Typed
<1>2. CASE link[c] = "open"
  <2>1. u = [down EXCEPT ![c] = Append(down[c], m)]
    BY <1>2 DEF Sent
  <2>2. Append(down[c], m) \in Seq(Frames)
    BY <1>1, AppendQueue
  <2>3. \A x : Has(Append(down[c], m), x) <=> Has(down[c], x) \/ x = m
    BY <1>1, AppendQueue
  <2>4. QED BY <1>1, <2>1, <2>2, <2>3 DEF Answers
<1>3. CASE link[c] # "open"
  <2>1. u = down
    BY <1>3 DEF Sent
  <2>2. QED BY <1>1, <2>1 DEF Answers
<1>4. QED BY <1>2, <1>3

\* A connection of which nothing changes stays as it was.
LEMMA LocalStays ==
  ASSUME NEW c, Local(c), stage'[c] = stage[c], link'[c] = link[c],
         phase'[c] = phase[c], up'[c] = up[c], down'[c] = down[c]
  PROVE  Local(c)'
  BY DEF Local, Ends, Leaving, InStep, Carries
-----------------------------------------------------------------------------
(* Steps of one end on one connection. *)

\* The extension moves on with one connection: the daemon's side is as it was.
LEMMA ExtMoves ==
  ASSUME LinkInv, NEW c \in Conn, NEW st \in Stages, stage' = [stage EXCEPT ![c] = st],
         ext' \in Ext, secret' \in [Conn -> Tokens], faults' \in 0 .. MaxFaults,
         up' \in [Conn -> Seq(Frames)], down' \in [Conn -> Seq(Frames)],
         \A d \in Conn : d # c => up'[d] = up[d] /\ down'[d] = down[d],
         UNCHANGED <<link, phase, dm>>, Sockets', Local(c)'
  PROVE  LinkInv'
<1>1. Typed /\ Pinning /\ Sessions /\ \A d \in Conn : Local(d)
  BY DEF LinkInv
<1>2. Typed'
  BY <1>1 DEF Typed
<1>3. Pinning' /\ Sessions'
  BY <1>1 DEF Pinning, Sessions
<1>4. ASSUME NEW d \in Conn PROVE Local(d)'
  <2>1. CASE d = c
    BY <2>1
  <2>2. CASE d # c
    <3>1. stage'[d] = stage[d]
      BY <1>1, <2>2 DEF Typed
    <3>2. QED BY <1>1, <2>2, <3>1, LocalStays
  <2>3. QED BY <2>1, <2>2
<1>5. QED BY <1>2, <1>3, <1>4 DEF LinkInv

\* An attempt that has no socket yet.
LEMMA NoSocketYet ==
  ASSUME LinkInv, NEW c \in Conn, stage[c] \in {"free", "token", "identity"}
  PROVE  ~Carries(c) /\ up[c] = <<>> /\ ext.sock # c
  BY DEF LinkInv, Local, Ends, Sockets, Attached

\* connect() goes on to its next await, or ends there.
LEMMA TokenReadKeeps ==
  ASSUME LinkInv, NEW c \in Conn, TokenRead(c)
  PROVE  LinkInv'
<1>1. Typed /\ Sockets /\ Local(c)
  BY DEF LinkInv
<1>2. stage[c] = "token" /\ ~Carries(c) /\ up[c] = <<>> /\ ext.sock # c
  BY NoSocketYet DEF TokenRead
<1>3. PICK st \in {"free", "identity"} : stage' = [stage EXCEPT ![c] = st]
  BY DEF TokenRead
<1>4. /\ ext' \in Ext /\ ext'.sock = ext.sock /\ ext'.cur = ext.cur
      /\ ext'.authenticated = ext.authenticated /\ ext'.authTimer = ext.authTimer
  <2>1. ext \in Ext
    BY <1>1 DEF Typed
  <2>2. ext' = ext \/ ext' = [ext EXCEPT !.alarm = FALSE]
    BY DEF TokenRead
  <2>3. QED BY <2>1, <2>2 DEF Ext
<1>5. stage'[c] = st /\ \A d \in Conn : d # c => stage'[d] = stage[d]
  BY <1>1, <1>3 DEF Typed
<1>6. Sockets'
  BY <1>1, <1>2, <1>4, <1>5 DEF Sockets, Attached, TokenRead
<1>7. Local(c)'
  BY <1>1, <1>2 DEF Local, Ends, Leaving, Carries, TokenRead
<1>8. secret' \in [Conn -> Tokens]
  BY <1>1 DEF TokenRead, Typed, Tokens, Ext
<1>9. UNCHANGED <<up, down, link, phase, dm, faults>> /\ st \in Stages
  BY DEF TokenRead, Stages
<1>10. /\ up \in [Conn -> Seq(Frames)] /\ down \in [Conn -> Seq(Frames)]
       /\ faults \in 0 .. MaxFaults
  BY <1>1 DEF Typed
<1>11. QED BY <1>3, <1>4, <1>6, <1>7, <1>8, <1>9, <1>10, ExtMoves

LEMMA IdentityReadKeeps ==
  ASSUME LinkInv, NEW c \in Conn, NEW ok \in BOOLEAN, IdentityRead(c, ok)
  PROVE  LinkInv'
<1>1. Typed /\ Sockets /\ Local(c)
  BY DEF LinkInv
<1>2. stage[c] = "identity" /\ ~Carries(c) /\ up[c] = <<>> /\ ext.sock # c
  BY NoSocketYet DEF IdentityRead
<1>3. UNCHANGED <<secret, up, down, link, phase, dm>>
  BY DEF IdentityRead
<1>4. /\ up \in [Conn -> Seq(Frames)] /\ down \in [Conn -> Seq(Frames)]
      /\ secret \in [Conn -> Tokens] /\ ext \in Ext
  BY <1>1 DEF Typed
<1>5. faults' \in 0 .. MaxFaults
  BY <1>1, ConstantsAssumption DEF IdentityRead, Identity, Typed
<1>6. Local(c)'
  BY <1>1, <1>2, <1>3 DEF Local, Ends, Leaving, Carries
<1>7. CASE Newest(c) /\ ok
  <2>1. stage' = [stage EXCEPT ![c] = "opening"] /\ ext' = [Known(ok) EXCEPT !.sock = c]
    BY <1>7 DEF IdentityRead
  <2>2. stage'[c] = "opening" /\ \A d \in Conn : d # c => stage'[d] = stage[d]
    BY <1>1, <2>1 DEF Typed
  <2>3. /\ ext' \in Ext /\ ext'.sock = c /\ ext'.cur = ext.cur
        /\ ext'.authenticated = ext.authenticated
    BY <1>4, <2>1 DEF Known, Ext
  <2>4. ext.sock = None /\ ext.cur = c
    BY <1>1, <1>2, <1>7 DEF Sockets, Newest
  <2>5. ~ext.authenticated
    BY <1>1, <2>4, NoneIsNoConnection DEF Sockets
  <2>6. \A d \in Conn : stage[d] \notin Attached
    BY <1>1, <2>4, NoneIsNoConnection DEF Sockets
  <2>7. Sockets'
    BY <2>2, <2>3, <2>4, <2>5, <2>6 DEF Sockets, Attached
  <2>8. "opening" \in Stages
    BY DEF Stages
  <2>9. QED BY <1>3, <1>4, <1>5, <1>6, <2>1, <2>3, <2>7, <2>8, ExtMoves
<1>8. CASE ~(Newest(c) /\ ok)
  <2>1. stage' = [stage EXCEPT ![c] = "free"] /\ ext' = Known(ok)
    BY <1>8 DEF IdentityRead
  <2>2. stage'[c] = "free" /\ \A d \in Conn : d # c => stage'[d] = stage[d]
    BY <1>1, <2>1 DEF Typed
  <2>3. /\ ext' \in Ext /\ ext'.sock = ext.sock /\ ext'.cur = ext.cur
        /\ ext'.authenticated = ext.authenticated /\ ext'.authTimer = ext.authTimer
    BY <1>4, <2>1 DEF Known, Ext
  <2>4. Sockets'
    BY <1>1, <1>2, <1>3, <2>2, <2>3 DEF Sockets, Attached
  <2>5. "free" \in Stages
    BY DEF Stages
  <2>6. QED BY <1>3, <1>4, <1>5, <1>6, <2>1, <2>3, <2>4, <2>5, ExtMoves
<1>9. QED BY <1>7, <1>8

\* A socket that is not live yet is not an authenticated one.
LEMMA NotYetLive ==
  ASSUME LinkInv, NEW c \in Conn,
         stage[c] \in {"opening", "greeted", "verifying", "signing", "waiting"}
  PROVE  ext.sock = c /\ ~ext.authenticated
<1>1. ext.sock = c
  BY DEF LinkInv, Sockets, Attached
<1>2. QED BY <1>1 DEF LinkInv, Sockets

\* The handshake goes on at the extension, which may send a frame.
LEMMA HandshakeMoves ==
  ASSUME LinkInv, NEW c \in Conn, NEW st \in Attached, stage[c] \in Attached,
         stage' = [stage EXCEPT ![c] = st],
         ext' \in Ext, ext'.sock = ext.sock, ext'.cur = ext.cur,
         ext'.authenticated =>
            \/ st = "live" /\ ~ext'.authTimer
            \/ st = "closing" /\ ext.authenticated /\ ~ext'.authTimer /\ link[c] # "open",
         faults' \in 0 .. MaxFaults,
         up' \in [Conn -> Seq(Frames)], down' \in [Conn -> Seq(Frames)],
         \A d \in Conn : d # c => up'[d] = up[d] /\ down'[d] = down[d],
         UNCHANGED <<secret, link, phase, dm>>,
         ~Carries(c) => up'[c] = up[c],
         Carries(c) => InStep(c)',
         Carries(c) /\ st = "closing" => Has(up'[c], "close")
  PROVE  LinkInv'
<1>1. Typed /\ Sockets /\ Local(c)
  BY DEF LinkInv
<1>2. stage'[c] = st /\ \A d \in Conn : d # c => stage'[d] = stage[d]
  BY <1>1 DEF Typed
<1>3. ext.sock = c
  BY <1>1 DEF Sockets
<1>4. Sockets'
  <2>1. ext'.sock # None => ext'.sock = ext'.cur
    BY <1>1 DEF Sockets
  <2>2. \A d \in Conn : stage'[d] \in Attached <=> ext'.sock = d
    BY <1>1, <1>2 DEF Sockets
  <2>3. ext'.authenticated =>
          /\ ~ext'.authTimer
          /\ \E d \in Conn : /\ ext'.sock = d
                             /\ \/ stage'[d] = "live"
                                \/ stage'[d] = "closing" /\ link'[d] # "open"
    BY <1>2, <1>3
  <2>4. QED BY <2>1, <2>2, <2>3 DEF Sockets
<1>5. Local(c)'
  BY <1>1, <1>2 DEF Local, Ends, Leaving, Carries, Attached
<1>6. st \in Stages /\ secret' \in [Conn -> Tokens]
  BY <1>1 DEF Attached, Stages, Typed
<1>7. QED BY <1>4, <1>5, <1>6, ExtMoves

LEMMA ExtOpenKeeps ==
  ASSUME LinkInv, NEW c \in Conn, ExtOpen(c)
  PROVE  LinkInv'
<1>1. Typed /\ Local(c) /\ ext \in Ext /\ down \in [Conn -> Seq(Frames)]
      /\ faults \in 0 .. MaxFaults
  BY DEF LinkInv, Typed
<1>2. stage[c] = "opening" /\ ext.sock = c /\ ~ext.authenticated
  BY NotYetLive DEF ExtOpen
<1>3. stage' = [stage EXCEPT ![c] = "greeted"] /\ ext' = [ext EXCEPT !.authTimer = TRUE]
      /\ down' = [down EXCEPT ![c] = Tail(down[c])] /\ down[c] # <<>>
      /\ UNCHANGED <<secret, link, phase, dm, faults>>
  BY DEF ExtOpen, Comes
<1>4. /\ ext' \in Ext /\ ext'.sock = ext.sock /\ ext'.cur = ext.cur /\ ~ext'.authenticated
  BY <1>1, <1>2, <1>3 DEF Ext
<1>5. up' = ToDaemon(c, "client_hello") /\ "client_hello" \in Frames
  BY DEF ExtOpen, Frames
<1>6. Grows(up', c, "client_hello")
  BY <1>1, <1>5, SentUp, Zenon
<1>7. /\ down' \in [Conn -> Seq(Frames)]
      /\ \A d \in Conn : d # c => down'[d] = down[d]
      /\ \A x : Has(down'[c], x) => Has(down[c], x)
  BY <1>1, <1>3, TailQueue
<1>8. stage'[c] = "greeted"
  BY <1>1, <1>3 DEF Typed
<1>9. Carries(c) => InStep(c)'
  BY <1>1, <1>2, <1>3, <1>5, <1>6, <1>7, <1>8 DEF Local, InStep, Grows
<1>10. QED BY <1>1, <1>2, <1>3, <1>4, <1>5, <1>6, <1>7, <1>9, HandshakeMoves DEF Attached, Grows

LEMMA ExtChallengeKeeps ==
  ASSUME LinkInv, NEW c \in Conn, ExtChallenge(c)
  PROVE  LinkInv'
<1>1. Typed /\ Local(c) /\ ext \in Ext /\ down \in [Conn -> Seq(Frames)]
      /\ faults \in 0 .. MaxFaults /\ up \in [Conn -> Seq(Frames)] /\ down[c] \in Seq(Frames)
  BY DEF LinkInv, Typed
<1>2. stage[c] = "greeted" /\ ext.sock = c /\ ~ext.authenticated
  BY NotYetLive DEF ExtChallenge
<1>3. stage' = [stage EXCEPT ![c] = "verifying"]
      /\ down' = [down EXCEPT ![c] = Tail(down[c])] /\ down[c] # <<>>
      /\ Head(down[c]) = "challenge"
      /\ UNCHANGED <<ext, up, secret, link, phase, dm, faults>>
  BY DEF ExtChallenge, Comes
<1>4. /\ down' \in [Conn -> Seq(Frames)]
      /\ \A d \in Conn : d # c => down'[d] = down[d]
      /\ \A x : Has(down'[c], x) => Has(down[c], x)
      /\ Has(down[c], "challenge")
  BY <1>1, <1>3, TailQueue
<1>5. stage'[c] = "verifying"
  BY <1>1, <1>3 DEF Typed
<1>6. Carries(c) => InStep(c)'
  BY <1>1, <1>2, <1>3, <1>4, <1>5 DEF Local, InStep
<1>7. QED BY <1>1, <1>2, <1>3, <1>4, <1>6, HandshakeMoves DEF Attached

\* The extension closes the socket it holds.
LEMMA ClosesKeeps ==
  ASSUME LinkInv, NEW c \in Conn, stage[c] \in Attached \ {"closing"}, ExtCloses(c),
         ext' \in Ext, ext'.sock = ext.sock, ext'.cur = ext.cur,
         ext'.authenticated = ext.authenticated, ext'.authTimer => ext.authTimer,
         ext.authenticated => link[c] # "open",
         faults' \in 0 .. MaxFaults, down' \in [Conn -> Seq(Frames)],
         \A d \in Conn : d # c => down'[d] = down[d],
         \A x : Has(down'[c], x) => Has(down[c], x),
         UNCHANGED <<secret, link, phase, dm>>
  PROVE  LinkInv'
<1>1. Typed /\ Local(c) /\ Sockets /\ (ext.authenticated => ~ext.authTimer)
  BY DEF LinkInv, Sockets
<1>2. stage' = [stage EXCEPT ![c] = "closing"] /\ stage'[c] = "closing"
  BY <1>1 DEF ExtCloses, Typed
<1>3. up' = ToDaemon(c, "close") /\ "close" \in Frames
  BY DEF ExtCloses, Frames
<1>4. Grows(up', c, "close")
  BY <1>1, <1>3, SentUp, Zenon
<1>5. Carries(c) => InStep(c)'
  BY <1>1, <1>2, <1>3, <1>4 DEF Local, InStep, Grows
<1>6. Carries(c) => Has(up'[c], "close")
  BY <1>4 DEF Grows
<1>7. ext'.authenticated => ext.authenticated /\ ~ext'.authTimer /\ link[c] # "open"
  BY <1>1
<1>8. /\ up' \in [Conn -> Seq(Frames)] /\ \A d \in Conn : d # c => up'[d] = up[d]
      /\ ~Carries(c) => up'[c] = up[c]
  BY <1>4 DEF Grows
<1>9. stage[c] \in Attached /\ "closing" \in Attached
  BY DEF Attached
<1>10. QED BY <1>2, <1>5, <1>6, <1>7, <1>8, <1>9, HandshakeMoves

LEMMA ChallengeVerifiedKeeps ==
  ASSUME LinkInv, NEW c \in Conn, ChallengeVerified(c)
  PROVE  LinkInv'
<1>1. Typed /\ Local(c) /\ ext \in Ext /\ down \in [Conn -> Seq(Frames)]
      /\ faults \in 0 .. MaxFaults /\ up \in [Conn -> Seq(Frames)]
  BY DEF LinkInv, Typed
<1>2. stage[c] = "verifying" /\ ext.sock = c /\ ~ext.authenticated
  BY NotYetLive DEF ChallengeVerified
<1>3. UNCHANGED <<ext, secret, down, link, phase, dm, faults>>
  BY DEF ChallengeVerified
<1>4. CASE secret[c] = "right"
  <2>1. stage' = [stage EXCEPT ![c] = "signing"] /\ up' = up
    BY <1>4 DEF ChallengeVerified
  <2>2. stage'[c] = "signing"
    BY <1>1, <2>1 DEF Typed
  <2>3. Carries(c) => InStep(c)'
    BY <1>1, <1>2, <1>3, <2>1, <2>2 DEF Local, InStep
  <2>4. QED BY <1>1, <1>2, <1>3, <2>1, <2>3, HandshakeMoves DEF Attached
<1>5. CASE secret[c] # "right"
  <2>1. ExtCloses(c)
    BY <1>5 DEF ChallengeVerified
  <2>2. QED BY <1>1, <1>2, <1>3, <2>1, ClosesKeeps DEF Attached
<1>6. QED BY <1>4, <1>5

LEMMA HelloSignedKeeps ==
  ASSUME LinkInv, NEW c \in Conn, HelloSigned(c)
  PROVE  LinkInv'
<1>1. Typed /\ Local(c) /\ ext \in Ext /\ down \in [Conn -> Seq(Frames)]
      /\ faults \in 0 .. MaxFaults
  BY DEF LinkInv, Typed
<1>2. stage[c] = "signing" /\ ext.sock = c /\ ~ext.authenticated
  BY NotYetLive DEF HelloSigned
<1>3. stage' = [stage EXCEPT ![c] = "waiting"]
      /\ UNCHANGED <<ext, secret, down, link, phase, dm, faults>>
  BY DEF HelloSigned
<1>4. up' = ToDaemon(c, "hello") /\ "hello" \in Frames
  BY DEF HelloSigned, Frames
<1>5. Grows(up', c, "hello")
  BY <1>1, <1>4, SentUp, Zenon
<1>6. stage'[c] = "waiting"
  BY <1>1, <1>3 DEF Typed
<1>7. Carries(c) => InStep(c)'
  BY <1>1, <1>2, <1>3, <1>4, <1>5, <1>6 DEF Local, InStep, Grows
<1>8. QED BY <1>1, <1>2, <1>3, <1>4, <1>5, <1>7, HandshakeMoves DEF Attached, Grows

LEMMA ExtAckKeeps ==
  ASSUME LinkInv, NEW c \in Conn, ExtAck(c)
  PROVE  LinkInv'
<1>1. Typed /\ Local(c) /\ ext \in Ext /\ down \in [Conn -> Seq(Frames)]
      /\ faults \in 0 .. MaxFaults /\ up \in [Conn -> Seq(Frames)] /\ down[c] \in Seq(Frames)
  BY DEF LinkInv, Typed
<1>2. stage[c] = "waiting"
  BY DEF ExtAck
<1>3. /\ stage' = [stage EXCEPT ![c] = "live"]
      /\ ext' = [ext EXCEPT !.authTimer = FALSE, !.authenticated = TRUE,
                            !.attempt = 0, !.alarm = FALSE]
      /\ down' = [down EXCEPT ![c] = Tail(down[c])] /\ down[c] # <<>>
      /\ Head(down[c]) = "hello_ack"
      /\ UNCHANGED <<secret, up, link, phase, dm, faults>>
  BY DEF ExtAck, Comes
<1>4. /\ ext' \in Ext /\ ext'.sock = ext.sock /\ ext'.cur = ext.cur /\ ~ext'.authTimer
  <2>1. 0 \in 0 .. LongDelay
    BY Limits
  <2>2. QED BY <1>1, <1>3, <2>1 DEF Ext
<1>5. /\ down' \in [Conn -> Seq(Frames)]
      /\ \A d \in Conn : d # c => down'[d] = down[d]
      /\ \A x : Has(down'[c], x) => Has(down[c], x)
      /\ Has(down[c], "hello_ack")
  BY <1>1, <1>3, TailQueue
<1>6. stage'[c] = "live"
  BY <1>1, <1>3 DEF Typed
<1>7. Carries(c) => InStep(c)'
  BY <1>1, <1>2, <1>3, <1>5, <1>6 DEF Local, InStep
<1>8. QED BY <1>1, <1>2, <1>3, <1>4, <1>5, <1>7, HandshakeMoves DEF Attached

LEMMA ExtPingKeeps ==
  ASSUME LinkInv, NEW c \in Conn, ExtPing(c)
  PROVE  LinkInv'
<1>1. Typed /\ Local(c) /\ Sockets /\ ext \in Ext /\ down \in [Conn -> Seq(Frames)]
      /\ faults \in 0 .. MaxFaults
  BY DEF LinkInv, Typed
<1>2. stage[c] = "live" /\ ext.sock = c /\ (ext.authenticated => ~ext.authTimer)
  BY <1>1 DEF ExtPing, Sockets, Attached
<1>3. /\ down' = [down EXCEPT ![c] = Tail(down[c])] /\ down[c] # <<>>
      /\ UNCHANGED <<ext, stage, secret, link, phase, dm, faults>>
  BY DEF ExtPing, Comes
<1>4. up' = ToDaemon(c, "pong") /\ "pong" \in Frames
  BY DEF ExtPing, Frames
<1>5. Grows(up', c, "pong")
  BY <1>1, <1>4, SentUp, Zenon
<1>6. /\ down' \in [Conn -> Seq(Frames)]
      /\ \A d \in Conn : d # c => down'[d] = down[d]
      /\ \A x : Has(down'[c], x) => Has(down[c], x)
  BY <1>1, <1>3, TailQueue
<1>7. Carries(c) => InStep(c)'
  BY <1>1, <1>2, <1>3, <1>4, <1>5, <1>6 DEF Local, InStep, Grows
<1>8. stage' = [stage EXCEPT ![c] = "live"]
  BY <1>1, <1>2, <1>3 DEF Typed
<1>9. QED BY <1>1, <1>2, <1>3, <1>4, <1>5, <1>6, <1>7, <1>8, HandshakeMoves DEF Attached, Grows

\* A frame is dropped, or the daemon's close is answered.
LEMMA ExtCloseFrameKeeps ==
  ASSUME LinkInv, NEW c \in Conn, ExtCloseFrame(c)
  PROVE  LinkInv'
<1>1. Typed /\ Local(c) /\ Sockets /\ ext \in Ext /\ down \in [Conn -> Seq(Frames)]
      /\ faults \in 0 .. MaxFaults /\ up \in [Conn -> Seq(Frames)]
      /\ secret \in [Conn -> Tokens] /\ stage[c] \in Stages
  BY DEF LinkInv, Typed
<1>2. /\ down' = [down EXCEPT ![c] = Tail(down[c])] /\ down[c] # <<>>
      /\ UNCHANGED <<ext, secret, link, phase, dm, faults>>
  BY DEF ExtCloseFrame
<1>3. /\ down' \in [Conn -> Seq(Frames)]
      /\ \A d \in Conn : d # c => down'[d] = down[d]
      /\ \A x : Has(down'[c], x) => Has(down[c], x)
  BY <1>1, <1>2, TailQueue
<1>4. CASE stage[c] \in {"closing", "left"}
  <2>1. stage' = stage /\ up' = up
    BY <1>4 DEF ExtCloseFrame
  <2>2. stage' = [stage EXCEPT ![c] = stage[c]]
    BY <1>1, <2>1 DEF Typed
  <2>3. Sockets'
    BY <1>1, <1>2, <2>1 DEF Sockets
  <2>4. Local(c)'
    BY <1>1, <1>2, <1>3, <2>1 DEF Local, Ends, Leaving, InStep, Carries
  <2>5. QED BY <1>1, <1>2, <1>3, <2>1, <2>2, <2>3, <2>4, ExtMoves
<1>5. CASE stage[c] \notin {"closing", "left"}
  <2>1. ExtCloses(c) /\ link[c] = "closing"
    BY <1>5 DEF ExtCloseFrame
  <2>2. stage[c] \in Attached \ {"closing"}
    BY <1>1, <1>5, <2>1 DEF Local, Ends, Carries
  <2>3. QED BY <1>1, <1>2, <1>3, <2>1, <2>2, ClosesKeeps
<1>6. QED BY <1>4, <1>5

LEMMA AuthTimeoutKeeps ==
  ASSUME LinkInv, NEW c \in Conn, AuthTimeout(c)
  PROVE  LinkInv'
<1>1. Typed /\ Local(c) /\ Sockets /\ ext \in Ext /\ down \in [Conn -> Seq(Frames)]
  BY DEF LinkInv, Typed
<1>2. faults' \in 0 .. MaxFaults
  BY <1>1, ConstantsAssumption DEF AuthTimeout, Typed
<1>3. /\ ext.authTimer /\ ext.sock = c /\ stage[c] # "closing" /\ ExtCloses(c)
      /\ ext' = [ext EXCEPT !.authTimer = FALSE]
      /\ UNCHANGED <<secret, down, link, phase, dm>>
  BY DEF AuthTimeout
<1>4. ~ext.authenticated /\ stage[c] \in Attached \ {"closing"}
  BY <1>1, <1>3 DEF Sockets
<1>5. /\ ext' \in Ext /\ ext'.sock = ext.sock /\ ext'.cur = ext.cur
      /\ ext'.authenticated = ext.authenticated /\ ~ext'.authTimer
  BY <1>1, <1>3 DEF Ext
<1>6. QED BY <1>1, <1>2, <1>3, <1>4, <1>5, ClosesKeeps
-----------------------------------------------------------------------------
(* The end of a socket, and the start of another attempt. *)

\* The end of a socket that no frame can come from.
LEMMA ReleasedKeeps ==
  ASSUME LinkInv, NEW c \in Conn, ~Carries(c), link[c] \in {"off", "closed"}, Released(c),
         ext' \in Ext,
         \/ ext.sock = c /\ ext'.sock = None /\ ~ext'.authenticated
         \/ stage[c] = "left" /\ ext' = ext
  PROVE  LinkInv'
<1>1. Typed /\ Sockets /\ Pinning /\ Sessions /\ \A d \in Conn : Local(d)
  BY DEF LinkInv
<1>2. /\ stage' = [stage EXCEPT ![c] = "free"] /\ secret' = [secret EXCEPT ![c] = "none"]
      /\ down' = [down EXCEPT ![c] = <<>>]
      /\ link' = [link EXCEPT ![c] = IF Forgettable(c) THEN "off" ELSE link[c]]
      /\ UNCHANGED <<up, phase, dm, faults>>
  BY DEF Released
<1>3. /\ stage'[c] = "free"
      /\ link'[c] = IF Forgettable(c) THEN "off" ELSE link[c]
      /\ \A d \in Conn : d # c => stage'[d] = stage[d] /\ link'[d] = link[d]
                                   /\ down'[d] = down[d] /\ up'[d] = up[d] /\ phase'[d] = phase[d]
  BY <1>1, <1>2 DEF Typed
<1>4. Typed'
  <2>1. stage' \in [Conn -> Stages] /\ secret' \in [Conn -> Tokens]
    BY <1>1, <1>2 DEF Typed, Stages, Tokens
  <2>2. down' \in [Conn -> Seq(Frames)]
    BY <1>1, <1>2 DEF Typed
  <2>3. link' \in [Conn -> Links]
    BY <1>1, <1>2 DEF Typed, Links
  <2>4. QED BY <1>1, <1>2, <2>1, <2>2, <2>3 DEF Typed
<1>5. Sockets'
  <2>1. CASE ext.sock = c /\ ext'.sock = None /\ ~ext'.authenticated
    BY <1>1, <1>3, <2>1, NoneIsNoConnection DEF Sockets, Attached
  <2>2. CASE stage[c] = "left" /\ ext' = ext
    <3>1. ext.sock # c
      BY <1>1, <2>2 DEF Sockets, Attached
    <3>2. QED BY <1>1, <1>3, <2>2, <3>1 DEF Sockets, Attached
  <2>3. QED BY <2>1, <2>2
<1>6. Pinning' /\ Sessions'
  <2>1. Pinning'
    BY <1>1, <1>2 DEF Pinning
  <2>2. Sessions'
    BY <1>1, <1>2, <1>3 DEF Sessions, Carries
  <2>3. QED BY <2>1, <2>2
<1>7. ASSUME NEW d \in Conn PROVE Local(d)'
  <2>1. CASE d = c
    BY <1>1, <1>2, <1>3, <2>1 DEF Local, Ends, Leaving, Carries, Forgettable
  <2>2. CASE d # c
    BY <1>1, <1>3, <2>2, LocalStays
  <2>3. QED BY <2>1, <2>2
<1>8. QED BY <1>4, <1>5, <1>6, <1>7 DEF LinkInv

\* What is on record when the reconnect is scheduled.
LEMMA ScheduledFields ==
  ASSUME Typed
  PROVE  Scheduled \in Ext /\ Scheduled.sock = None /\ ~Scheduled.authenticated
<1>1. ext \in Ext /\ ext.attempt \in 0 .. LongDelay
  BY DEF Typed, Ext
<1> PICK n : n = IF ext.attempt = LongDelay THEN ext.attempt ELSE ext.attempt + 1
  OBVIOUS
<1>2. n \in 0 .. LongDelay
  BY <1>1, Limits
<1>3. ScheduledInMemory =
        [ext EXCEPT !.sock = None, !.authenticated = FALSE, !.authTimer = FALSE,
                    !.reconnectTimer = TRUE, !.attempt = n]
  BY DEF ScheduledInMemory
<1>4. /\ ScheduledInMemory \in Ext /\ ScheduledInMemory.sock = None
      /\ ~ScheduledInMemory.authenticated
  BY <1>1, <1>2, <1>3 DEF Ext
<1>5. QED BY <1>4 DEF Scheduled, Ext

LEMMA LostKeeps ==
  ASSUME LinkInv, NEW c \in Conn, ExtOnClose(c) \/ ExtForget(c) \/ Refused(c)
  PROVE  LinkInv'
<1>1. Typed /\ Sockets
  BY DEF LinkInv
<1>2. /\ Scheduled \in Ext /\ Scheduled.sock = None /\ ~Scheduled.authenticated
      /\ ext \in Ext
  BY <1>1, ScheduledFields DEF Typed
<1>3. link[c] \in {"off", "closed"} /\ ~Carries(c) /\ Released(c)
  BY DEF ExtOnClose, ExtForget, Refused, Lost, Carries
<1>4. CASE ExtForget(c)
  BY <1>2, <1>3, <1>4, ReleasedKeeps DEF ExtForget
<1>5. CASE ExtOnClose(c) \/ Refused(c)
  <2>1. ext.sock = c
    BY <1>1, <1>5 DEF ExtOnClose, Refused, Sockets, Attached
  <2>2. ext' = Scheduled
    BY <1>5 DEF ExtOnClose, Refused, Lost
  <2>3. ext' \in Ext /\ ext'.sock = None /\ ~ext'.authenticated
    BY <1>2, <2>2
  <2>4. QED BY <1>3, <2>1, <2>3, ReleasedKeeps
<1>6. QED BY <1>4, <1>5

\* closeCurrentSocket(): the close of the socket that is left is under way.
LEMMA LeaveFacts ==
  ASSUME LinkInv, NEW u, u = LeaveUp
  PROVE  /\ u \in [Conn -> Seq(Frames)]
         /\ \A d \in Conn : d # ext.sock \/ ~Carries(d) => u[d] = up[d]
         /\ \A d \in Conn : d = ext.sock /\ Carries(d) =>
              /\ Has(u[d], "close")
              /\ \A x : x # "close" => /\ Has(u[d], x) <=> Has(up[d], x)
                                       /\ Once(up[d], x) => Once(u[d], x)
<1>1. Typed /\ Sockets /\ \A d \in Conn : Local(d)
  BY DEF LinkInv
<1>2. up \in [Conn -> Seq(Frames)] /\ ext.sock \in Conn \cup {None} /\ None \notin Conn
  BY <1>1, NoneIsNoConnection DEF Typed, Ext
<1>3. CASE ext.sock = None \/ stage[ext.sock] = "closing"
  <2>1. u = up
    BY <1>3 DEF LeaveUp
  <2>2. ASSUME NEW d \in Conn, d = ext.sock, Carries(d) PROVE Has(u[d], "close")
    BY <1>1, <1>2, <1>3, <2>1, <2>2 DEF Local, Leaving
  <2>3. QED BY <1>2, <2>1, <2>2
<1>4. CASE ~(ext.sock = None \/ stage[ext.sock] = "closing")
  <2> PICK c \in Conn : c = ext.sock
    BY <1>2, <1>4
  <2>1. u = ToDaemon(c, "close") /\ "close" \in Frames
    BY <1>4 DEF LeaveUp, Frames
  <2>2. Grows(u, c, "close")
    BY <1>1, <2>1, SentUp, Zenon
  <2>3. QED BY <2>2 DEF Grows
<1>5. QED BY <1>3, <1>4

\* The socket that is left is gone, or will tell the daemon that it is closed.
LEMMA LeftBehind ==
  ASSUME LinkInv, NEW d \in Conn, d = ext.sock,
         stage'[d] = IF link[d] = "off" THEN "free" ELSE "left",
         link'[d] = link[d], phase'[d] = phase[d], down'[d] = down[d],
         NEW u, u = LeaveUp, up'[d] = u[d]
  PROVE  Local(d)'
<1>1. Local(d)
  BY DEF LinkInv
<1>2. CASE Carries(d)
  <2>1. link[d] # "off" /\ stage'[d] = "left"
    BY <1>2 DEF Carries
  <2>2. /\ Has(u[d], "close")
        /\ \A x : x # "close" => /\ Has(u[d], x) <=> Has(up[d], x)
                                 /\ Once(up[d], x) => Once(u[d], x)
    BY <1>2, LeaveFacts
  <2>3. /\ Has(u[d], "client_hello") <=> Has(up[d], "client_hello")
        /\ Has(u[d], "hello") <=> Has(up[d], "hello")
        /\ Once(up[d], "client_hello") => Once(u[d], "client_hello")
        /\ Once(up[d], "hello") => Once(u[d], "hello")
    BY <2>2
  <2>4. InStep(d)'
    BY <1>1, <1>2, <2>1, <2>3 DEF Local, InStep
  <2>5. QED BY <1>1, <1>2, <2>1, <2>2, <2>4 DEF Local, Ends, Leaving, Carries
<1>3. CASE ~Carries(d)
  <2>1. u[d] = up[d]
    BY <1>3, LeaveFacts
  <2>2. QED BY <1>1, <1>3, <2>1 DEF Local, Ends, Leaving, Carries
<1>4. QED BY <1>2, <1>3

\* connect() leaves the socket before and starts with no socket of its own.
LEMMA ConnectKeeps ==
  ASSUME LinkInv, NEW c \in Conn, NEW e \in Ext, Connect(c, e), faults' \in 0 .. MaxFaults
  PROVE  LinkInv'
<1>1. Typed /\ Sockets /\ Pinning /\ Sessions /\ \A d \in Conn : Local(d)
  BY DEF LinkInv
<1>2. /\ stage[c] = "free" /\ link[c] \in {"off", "closed"}
      /\ phase[c] = "off" /\ dm.session # c
  BY DEF Connect, Forgotten, Forgettable
<1>3. ext.sock # c /\ ext.sock \in Conn \cup {None}
  BY <1>1, <1>2 DEF Sockets, Attached, Typed, Ext
<1> PICK u : u = LeaveUp
  OBVIOUS
<1>4. /\ u \in [Conn -> Seq(Frames)]
      /\ \A d \in Conn : d # ext.sock \/ ~Carries(d) => u[d] = up[d]
  BY LeaveFacts
<1>5. /\ ext' = [e EXCEPT !.cur = c, !.sock = None, !.authenticated = FALSE,
                          !.reconnectTimer = FALSE, !.authTimer = FALSE]
      /\ up' = [u EXCEPT ![c] = <<>>] /\ down' = [down EXCEPT ![c] = <<>>]
      /\ link' = [link EXCEPT ![c] = "off"]
      /\ UNCHANGED <<secret, phase, dm>>
  BY DEF Connect
<1>6. stage' = [d \in Conn |-> IF d = c THEN "token"
                               ELSE IF ext.sock # d THEN stage[d]
                               ELSE IF link[d] = "off" THEN "free" ELSE "left"]
  BY DEF Connect, Leave
<1>7. /\ ext' \in Ext /\ ext'.cur = c /\ ext'.sock = None /\ ~ext'.authenticated
  BY <1>5 DEF Ext
<1>8. /\ stage'[c] = "token" /\ up'[c] = <<>> /\ link'[c] = "off"
      /\ \A d \in Conn : d # c =>
           /\ stage'[d] = IF ext.sock # d THEN stage[d]
                          ELSE IF link[d] = "off" THEN "free" ELSE "left"
           /\ up'[d] = u[d] /\ down'[d] = down[d] /\ link'[d] = link[d]
           /\ phase'[d] = phase[d]
  BY <1>1, <1>4, <1>5, <1>6 DEF Typed
<1>9. Typed'
  <2>1. stage' \in [Conn -> Stages]
    BY <1>1, <1>6 DEF Typed, Stages
  <2>2. up' \in [Conn -> Seq(Frames)] /\ down' \in [Conn -> Seq(Frames)]
    BY <1>1, <1>4, <1>5 DEF Typed
  <2>3. link' \in [Conn -> Links]
    BY <1>1, <1>5 DEF Typed, Links
  <2>4. QED BY <1>1, <1>5, <1>7, <2>1, <2>2, <2>3 DEF Typed
<1>10. Sockets'
  <2>1. \A d \in Conn : stage'[d] \notin Attached
    BY <1>1, <1>8 DEF Sockets, Attached
  <2>2. QED BY <1>7, <2>1, NoneIsNoConnection DEF Sockets
<1>11. Pinning' /\ Sessions'
  <2>1. Pinning'
    BY <1>1, <1>5 DEF Pinning
  <2>2. Sessions'
    BY <1>1, <1>2, <1>5, <1>8 DEF Sessions
  <2>3. QED BY <2>1, <2>2
<1>12. ASSUME NEW d \in Conn PROVE Local(d)'
  <2>1. CASE d = c
    BY <1>2, <1>5, <1>8, <2>1 DEF Local, Ends, Leaving, Carries
  <2>2. CASE d # c /\ d # ext.sock
    <3>1. up'[d] = up[d] /\ stage'[d] = stage[d] /\ link'[d] = link[d]
          /\ phase'[d] = phase[d] /\ down'[d] = down[d]
      BY <1>4, <1>8, <2>2
    <3>2. QED BY <1>1, <3>1, LocalStays
  <2>3. CASE d # c /\ d = ext.sock
    <3>1. /\ stage'[d] = IF link[d] = "off" THEN "free" ELSE "left"
          /\ up'[d] = u[d] /\ down'[d] = down[d] /\ link'[d] = link[d]
          /\ phase'[d] = phase[d]
      BY <1>8, <2>3
    <3>2. QED BY <2>3, <3>1, LeftBehind
  <2>4. QED BY <2>1, <2>2, <2>3
<1>13. QED BY <1>9, <1>10, <1>11, <1>12 DEF LinkInv

\* The worker changes its memory, not its socket.
LEMMA WorkerKeeps ==
  ASSUME LinkInv, ext' \in Ext, ext'.sock = ext.sock,
         ext'.sock # None => ext'.cur = ext.cur,
         ext'.authenticated = ext.authenticated, ext'.authTimer = ext.authTimer,
         UNCHANGED <<stage, secret, up, down, link, phase, dm>>, faults' \in 0 .. MaxFaults
  PROVE  LinkInv'
<1>1. Typed /\ Sockets /\ Pinning /\ Sessions /\ \A d \in Conn : Local(d)
  BY DEF LinkInv
<1>2. Typed' /\ Pinning' /\ Sessions'
  BY <1>1 DEF Typed, Pinning, Sessions
<1>3. Sockets'
  BY <1>1 DEF Sockets
<1>4. \A d \in Conn : Local(d)'
  BY <1>1, LocalStays
<1>5. QED BY <1>2, <1>3, <1>4 DEF LinkInv

LEMMA IdentityKnown ==
  ASSUME LinkInv, NEW ok \in BOOLEAN, Identity(ok)
  PROVE  /\ faults' \in 0 .. MaxFaults
         /\ Known(ok) \in Ext /\ Known(ok).sock = ext.sock /\ Known(ok).cur = ext.cur
         /\ Known(ok).authenticated = ext.authenticated /\ Known(ok).authTimer = ext.authTimer
<1>1. ext \in Ext /\ faults \in 0 .. MaxFaults
  BY DEF LinkInv, Typed
<1>2. faults' \in 0 .. MaxFaults
  BY <1>1, Limits DEF Identity
<1>3. QED BY <1>1, <1>2 DEF Known, Ext

\* Everything that starts connect().
LEMMA StartsKeep ==
  ASSUME LinkInv, Starts \/ AlarmFires \/ \E c \in Conn : UserReconnects(c) \/ PairingRemoved(c)
  PROVE  LinkInv'
<1>1. ext \in Ext /\ faults \in 0 .. MaxFaults
  BY DEF LinkInv, Typed
<1>2. Woken \in Ext
  BY <1>1 DEF Woken, Ext
<1>3. ASSUME NEW c \in Conn, NEW ok \in BOOLEAN, Booted(c, ok) PROVE LinkInv'
  <2> PICK e : e = [Known(ok) EXCEPT !.booting = FALSE]
    OBVIOUS
  <2>1. /\ faults' \in 0 .. MaxFaults
        /\ Known(ok) \in Ext /\ Known(ok).sock = ext.sock /\ Known(ok).cur = ext.cur
        /\ Known(ok).authenticated = ext.authenticated /\ Known(ok).authTimer = ext.authTimer
    BY <1>3, IdentityKnown DEF Booted
  <2>2. /\ e \in Ext /\ e.sock = ext.sock /\ e.cur = ext.cur
        /\ e.authenticated = ext.authenticated /\ e.authTimer = ext.authTimer
    BY <2>1 DEF Ext
  <2>3. CASE ok
    <3>1. Connect(c, e)
      BY <1>3, <2>3 DEF Booted
    <3>2. QED BY <2>1, <2>2, <3>1, ConnectKeeps
  <2>4. CASE ~ok
    <3>1. ext' = e /\ UNCHANGED <<stage, secret, up, down, link, phase, dm>>
      BY <1>3, <2>4 DEF Booted
    <3>2. QED BY <2>1, <2>2, <3>1, WorkerKeeps
  <2>5. QED BY <2>3, <2>4
<1>4. ASSUME NEW c \in Conn, TimerFires(c) PROVE LinkInv'
  BY <1>1, <1>4, ConnectKeeps DEF TimerFires
<1>5. ASSUME AlarmFires PROVE LinkInv'
  <2>1. faults' \in 0 .. MaxFaults
    BY <1>1, <1>5, Limits DEF AlarmFires
  <2>2. CASE ext.authenticated
    <3>1. /\ ext' = [ext EXCEPT !.alarm = FALSE]
          /\ UNCHANGED <<stage, secret, up, down, link, phase, dm>>
      BY <1>5, <2>2 DEF AlarmFires
    <3>2. /\ ext' \in Ext /\ ext'.sock = ext.sock /\ ext'.cur = ext.cur
          /\ ext'.authenticated = ext.authenticated /\ ext'.authTimer = ext.authTimer
      BY <1>1, <3>1 DEF Ext
    <3>3. QED BY <2>1, <3>1, <3>2, WorkerKeeps
  <2>3. CASE ~ext.authenticated
    <3>1. PICK c \in Conn : Connect(c, Woken)
      BY <1>5, <2>3 DEF AlarmFires
    <3>2. QED BY <1>2, <2>1, <3>1, ConnectKeeps
  <2>4. QED BY <2>2, <2>3
<1>6. ASSUME NEW c \in Conn, UserReconnects(c) PROVE LinkInv'
  <2>1. faults' \in 0 .. MaxFaults
    BY <1>1, <1>6, Limits DEF UserReconnects
  <2>2. QED BY <1>2, <1>6, <2>1, ConnectKeeps DEF UserReconnects
<1>7. ASSUME NEW c \in Conn, PairingRemoved(c) PROVE LinkInv'
  <2> PICK e : e = [Woken EXCEPT !.token = "none"]
    OBVIOUS
  <2>1. e \in Ext
    BY <1>2 DEF Ext, Tokens
  <2>2. Connect(c, e) /\ faults' \in 0 .. MaxFaults
    BY <1>1, <1>7, Limits DEF PairingRemoved
  <2>3. QED BY <2>1, <2>2, ConnectKeeps
<1>8. QED BY <1>3, <1>4, <1>5, <1>6, <1>7 DEF Starts

\* The worker is stopped or started.
LEMMA WorkerStopsKeeps ==
  ASSUME LinkInv, Suspended \/ BrowserEvent
  PROVE  LinkInv'
<1>1. Typed /\ Sockets /\ ext \in Ext /\ faults \in 0 .. MaxFaults
  BY DEF LinkInv, Typed
<1>2. UNCHANGED <<stage, secret, up, down, link, phase, dm, faults>>
  BY DEF Suspended, BrowserEvent
<1>3. CASE BrowserEvent
  <2>1. /\ ext' \in Ext /\ ext'.sock = ext.sock /\ ext'.cur = ext.cur
        /\ ext'.authenticated = ext.authenticated /\ ext'.authTimer = ext.authTimer
    BY <1>1, <1>3 DEF BrowserEvent, Woken, Ext
  <2>2. QED BY <1>1, <1>2, <2>1, WorkerKeeps
<1>4. CASE Suspended
  <2>1. ext' = [ext EXCEPT !.worker = "suspended", !.reconnectTimer = FALSE,
                           !.attempt = 0, !.cur = None]
    BY <1>4 DEF Suspended
  <2>2. 0 \in 0 .. LongDelay
    BY Limits
  <2>3. /\ ext' \in Ext /\ ext'.sock = ext.sock
        /\ ext'.authenticated = ext.authenticated /\ ext'.authTimer = ext.authTimer
    BY <1>1, <2>1, <2>2 DEF Ext
  <2>4. ext.sock = None
    <3>1. \A c \in Conn : ext.sock # c
      BY <1>1, <1>4 DEF Suspended, Sockets, Attached
    <3>2. QED BY <1>1, <3>1 DEF Ext
  <2>5. QED BY <1>1, <1>2, <2>3, <2>4, WorkerKeeps
<1>5. QED BY <1>3, <1>4

\* The worker or the browser dies.
LEMMA KilledKeeps ==
  ASSUME LinkInv, Killed
  PROVE  LinkInv'
<1>1. /\ Typed /\ Sockets /\ Pinning /\ Sessions /\ \A d \in Conn : Local(d)
      /\ ext \in Ext
  BY DEF LinkInv, Typed
<1> PICK u : u = LeaveUp
  OBVIOUS
<1>2. /\ u \in [Conn -> Seq(Frames)]
      /\ \A d \in Conn : d # ext.sock \/ ~Carries(d) => u[d] = up[d]
  BY LeaveFacts
<1>3. /\ ext' = [ext EXCEPT !.worker = "killed", !.booting = FALSE, !.cur = None,
                   !.sock = None, !.authenticated = FALSE,
                   !.reconnectTimer = FALSE, !.authTimer = FALSE, !.attempt = 0]
      /\ up' = u /\ UNCHANGED <<secret, down, link, phase, dm>>
  BY DEF Killed
<1>4. stage' = [d \in Conn |-> IF ext.sock = d
                               THEN IF link[d] = "off" THEN "free" ELSE "left"
                               ELSE IF stage[d] = "left" THEN "left" ELSE "free"]
  BY DEF Killed, Leave
<1>5. faults' \in 0 .. MaxFaults
  BY <1>1, Limits DEF Killed, Typed
<1>6. ext' \in Ext /\ ext'.sock = None /\ ~ext'.authenticated
  <2>1. 0 \in 0 .. LongDelay
    BY Limits
  <2>2. QED BY <1>1, <1>3, <2>1 DEF Ext
<1>7. Typed'
  <2>1. stage' \in [Conn -> Stages]
    BY <1>4 DEF Stages
  <2>2. QED BY <1>1, <1>2, <1>3, <1>5, <1>6, <2>1 DEF Typed
<1>8. Sockets'
  <2>1. \A d \in Conn : stage'[d] \notin Attached
    BY <1>4 DEF Attached
  <2>2. QED BY <1>6, <2>1, NoneIsNoConnection DEF Sockets
<1>9. Pinning' /\ Sessions'
  BY <1>1, <1>3 DEF Pinning, Sessions
<1>10. ASSUME NEW d \in Conn PROVE Local(d)'
  <2>1. CASE ext.sock = d
    <3>1. stage'[d] = IF link[d] = "off" THEN "free" ELSE "left"
      BY <1>4, <2>1
    <3>2. QED BY <1>3, <2>1, <3>1, LeftBehind
  <2>2. CASE ext.sock # d /\ stage[d] = "left"
    <3>1. up'[d] = up[d] /\ stage'[d] = stage[d]
      BY <1>2, <1>3, <1>4, <2>2
    <3>2. QED BY <1>1, <1>3, <3>1, LocalStays
  <2>3. CASE ext.sock # d /\ stage[d] # "left"
    <3>1. up'[d] = up[d] /\ ~Carries(d)
      BY <1>1, <1>2, <1>3, <2>3 DEF Local, Ends, Sockets
    <3>2. QED BY <1>1, <1>3, <3>1 DEF Local, Ends, Leaving, Carries
  <2>4. QED BY <2>1, <2>2, <2>3
<1>11. QED BY <1>7, <1>8, <1>9, <1>10 DEF LinkInv
-----------------------------------------------------------------------------
(* The daemon. *)

\* The daemon moves on with one connection: the extension is as it was.
LEMMA DaemonMoves ==
  ASSUME LinkInv, NEW c \in Conn, UNCHANGED <<ext, stage, secret>>,
         up' \in [Conn -> Seq(Frames)], down' \in [Conn -> Seq(Frames)],
         link' \in [Conn -> Links], phase' \in [Conn -> Phases],
         dm' \in Daemon, faults' \in 0 .. MaxFaults,
         \A d \in Conn : d # c =>
            /\ up'[d] = up[d] /\ down'[d] = down[d]
            /\ link'[d] = link[d] /\ phase'[d] = phase[d],
         link'[c] = "open" => link[c] = "open" \/ stage[c] = "opening",
         Pinning', Sessions', Local(c)'
  PROVE  LinkInv'
<1>1. Typed /\ Sockets /\ \A d \in Conn : Local(d)
  BY DEF LinkInv
<1>2. Typed'
  BY <1>1 DEF Typed
<1>3. Sockets'
  BY <1>1 DEF Sockets
<1>4. ASSUME NEW d \in Conn PROVE Local(d)'
  <2>1. CASE d = c
    BY <2>1
  <2>2. CASE d # c
    BY <1>1, <2>2, LocalStays
  <2>3. QED BY <2>1, <2>2
<1>5. QED BY <1>2, <1>3, <1>4 DEF LinkInv

\* A connection that is not pinned yet is in no queue and has no session.
LEMMA NotPinned ==
  ASSUME LinkInv, NEW c \in Conn, phase[c] \notin {"pinning", "session"}
  PROVE  dm.session # c /\ \A i \in 1 .. Len(dm.pins) : dm.pins[i] # c
<1>1. Pinning /\ Sessions
  BY DEF LinkInv
<1>2. \A i \in 1 .. Len(dm.pins) : dm.pins[i] # c
  BY <1>1 DEF Pinning
<1>3. dm.session # c
  BY <1>1, NoneIsNoConnection DEF Sessions
<1>4. QED BY <1>2, <1>3

LEMMA EarlySteps ==
  ASSUME LinkInv, NEW c \in Conn, phase[c] \notin {"pinning", "session"},
         phase'[c] # "session", dm' = dm,
         \A d \in Conn : d # c => link'[d] = link[d] /\ phase'[d] = phase[d]
  PROVE  Pinning' /\ Sessions'
<1>1. /\ Pinning /\ Sessions /\ dm.session \in Conn \cup {None}
      /\ dm.pins \in Seq(Conn)
  BY DEF LinkInv, Typed, Daemon
<1>2. dm.session # c /\ \A i \in 1 .. Len(dm.pins) : dm.pins[i] # c
  BY NotPinned
<1>3. \A i \in 1 .. Len(dm.pins) : dm.pins[i] \in Conn
  BY <1>1
<1>4. Pinning'
  BY <1>1, <1>2, <1>3 DEF Pinning
<1>5. Sessions'
  BY <1>1, <1>2, NoneIsNoConnection DEF Sessions
<1>6. QED BY <1>4, <1>5

\* A socket is accepted.
LEMMA AcceptKeeps ==
  ASSUME LinkInv, NEW c \in Conn, Accept(c)
  PROVE  LinkInv'
<1>1. Typed /\ Pinning /\ Sessions /\ Local(c)
  BY DEF LinkInv
<1>2. stage[c] = "opening" /\ link[c] = "off" /\ up[c] = <<>> /\ phase[c] = "off"
  BY <1>1 DEF Accept, Local, Ends, Carries
<1>3. /\ link' = [link EXCEPT ![c] = "open"] /\ phase' = [phase EXCEPT ![c] = "hello"]
      /\ down' = [down EXCEPT ![c] = <<"open">>]
      /\ UNCHANGED <<ext, stage, secret, up, dm, faults>>
  BY DEF Accept
<1>4. /\ link'[c] = "open" /\ phase'[c] = "hello" /\ down'[c] = <<"open">>
      /\ \A d \in Conn : d # c =>
            link'[d] = link[d] /\ phase'[d] = phase[d] /\ down'[d] = down[d]
  BY <1>1, <1>3 DEF Typed
<1>5. <<"open">> \in Seq(Frames) /\ \A x : Has(<<"open">>, x) => x = "open"
  BY DEF Frames, Has
<1>6. /\ link' \in [Conn -> Links] /\ phase' \in [Conn -> Phases]
      /\ down' \in [Conn -> Seq(Frames)]
  BY <1>1, <1>3, <1>5 DEF Typed, Links, Phases
<1>7. Pinning' /\ Sessions'
  BY <1>2, <1>3, <1>4, EarlySteps
<1>8. Local(c)'
  <2>1. up'[c] = <<>>
    BY <1>2, <1>3
  <2>2. ~Has(up'[c], "client_hello") /\ ~Has(up'[c], "hello")
        /\ Once(up'[c], "client_hello") /\ Once(up'[c], "hello")
    BY <2>1, EmptyQueue
  <2>3. ~Has(down'[c], "challenge") /\ ~Has(down'[c], "hello_ack")
    BY <1>4, <1>5
  <2>4. InStep(c)'
    BY <1>2, <1>3, <1>4, <2>2, <2>3 DEF InStep
  <2>5. QED BY <1>2, <1>3, <1>4, <2>4 DEF Local, Ends, Leaving, Carries, Attached
<1>9. up' \in [Conn -> Seq(Frames)] /\ dm' \in Daemon /\ faults' \in 0 .. MaxFaults
  BY <1>1, <1>3 DEF Typed
<1>10. QED BY <1>2, <1>3, <1>4, <1>6, <1>7, <1>8, <1>9, DaemonMoves

\* A frame of the extension is handled.
LEMMA FrameTaken ==
  ASSUME LinkInv, NEW c \in Conn, NEW m, Arrived(c, m)
  PROVE  /\ Carries(c) /\ InStep(c) /\ Has(up[c], m)
         /\ up' \in [Conn -> Seq(Frames)] /\ \A d \in Conn : d # c => up'[d] = up[d]
         /\ \A x : /\ Has(up'[c], x) => Has(up[c], x)
                   /\ Has(up[c], x) /\ x # m => Has(up'[c], x)
                   /\ Once(up[c], x) => Once(up'[c], x)
                   /\ Once(up[c], x) /\ x = m => ~Has(up'[c], x)
<1>1. up \in [Conn -> Seq(Frames)] /\ up[c] \in Seq(Frames) /\ Local(c)
  BY DEF LinkInv, Typed
<1>2. /\ up[c] # <<>> /\ Head(up[c]) = m /\ up' = [up EXCEPT ![c] = Tail(up[c])]
      /\ Carries(c)
  BY DEF Arrived, AtHead, Carries
<1>3. up'[c] = Tail(up[c]) /\ \A d \in Conn : d # c => up'[d] = up[d]
  BY <1>1, <1>2
<1>4. Tail(up[c]) \in Seq(Frames) /\ Has(up[c], m)
  BY <1>1, <1>2, TailQueue
<1>5. \A x : /\ Has(Tail(up[c]), x) => Has(up[c], x)
             /\ Has(up[c], x) /\ x # m => Has(Tail(up[c]), x)
             /\ Once(up[c], x) => Once(Tail(up[c]), x)
             /\ Once(up[c], x) /\ x = m => ~Has(Tail(up[c]), x)
  BY <1>1, <1>2, TailQueue
<1>6. up' \in [Conn -> Seq(Frames)]
  BY <1>1, <1>2, <1>4
<1>7. InStep(c)
  BY <1>1, <1>2 DEF Local
<1>8. QED BY <1>2, <1>3, <1>4, <1>5, <1>6, <1>7

LEMMA ClientHelloKeeps ==
  ASSUME LinkInv, NEW c \in Conn, ClientHello(c)
  PROVE  LinkInv'
<1>1. Typed /\ Local(c) /\ Arrived(c, "client_hello")
  BY DEF LinkInv, ClientHello
<1>2. /\ Carries(c) /\ InStep(c) /\ Has(up[c], "client_hello")
      /\ up' \in [Conn -> Seq(Frames)] /\ \A d \in Conn : d # c => up'[d] = up[d]
      /\ \A x : /\ Has(up'[c], x) => Has(up[c], x)
                /\ Has(up[c], x) /\ x # "client_hello" => Has(up'[c], x)
                /\ Once(up[c], x) => Once(up'[c], x)
                /\ Once(up[c], x) /\ x = "client_hello" => ~Has(up'[c], x)
  BY <1>1, FrameTaken
<1>3. /\ phase' = [phase EXCEPT ![c] = "challenged"]
      /\ UNCHANGED <<ext, stage, secret, link, dm, faults>>
  BY DEF ClientHello
<1>4. /\ phase'[c] = "challenged" /\ phase' \in [Conn -> Phases]
      /\ \A d \in Conn : d # c => phase'[d] = phase[d]
  BY <1>1, <1>3 DEF Typed, Phases
<1>5. phase[c] = "hello"
  BY <1>2 DEF InStep
<1>6. "challenge" \in Frames /\ down' = Sent(down, c, "challenge")
  BY DEF Frames, ClientHello
<1>7. /\ down' \in [Conn -> Seq(Frames)] /\ \A d \in Conn : d # c => down'[d] = down[d]
      /\ \A x : Has(down'[c], x) => Has(down[c], x) \/ x = "challenge"
  <2>1. Answers(down', c, "challenge")
    BY <1>1, <1>6, SentDown, Zenon
  <2>2. QED BY <2>1 DEF Answers
<1>8. Pinning' /\ Sessions'
  BY <1>3, <1>4, <1>5, EarlySteps
<1>9. InStep(c)'
  BY <1>2, <1>3, <1>4, <1>5, <1>7 DEF InStep
<1>10. Local(c)'
  BY <1>1, <1>2, <1>3, <1>9 DEF Local, Ends, Leaving, Carries
<1>11. link' \in [Conn -> Links] /\ dm' \in Daemon /\ faults' \in 0 .. MaxFaults
  BY <1>1, <1>3 DEF Typed
<1>12. QED BY <1>2, <1>3, <1>4, <1>7, <1>8, <1>10, <1>11, DaemonMoves

\* Its registration is queued behind the others.
LEMMA HelloKeeps ==
  ASSUME LinkInv, NEW c \in Conn, Hello(c)
  PROVE  LinkInv'
<1>1. Typed /\ Local(c) /\ Arrived(c, "hello") /\ Pinning /\ Sessions
  BY DEF LinkInv, Hello
<1>2. /\ Carries(c) /\ InStep(c) /\ Has(up[c], "hello")
      /\ up' \in [Conn -> Seq(Frames)] /\ \A d \in Conn : d # c => up'[d] = up[d]
      /\ \A x : /\ Has(up'[c], x) => Has(up[c], x)
                /\ Has(up[c], x) /\ x # "hello" => Has(up'[c], x)
                /\ Once(up[c], x) => Once(up'[c], x)
                /\ Once(up[c], x) /\ x = "hello" => ~Has(up'[c], x)
  BY <1>1, FrameTaken
<1>3. /\ phase' = [phase EXCEPT ![c] = "pinning"]
      /\ dm' = [dm EXCEPT !.pins = Append(dm.pins, c)]
      /\ UNCHANGED <<ext, stage, secret, down, link, faults>>
  BY DEF Hello
<1>4. /\ phase'[c] = "pinning" /\ phase' \in [Conn -> Phases]
      /\ \A d \in Conn : d # c => phase'[d] = phase[d]
  BY <1>1, <1>3 DEF Typed, Phases
<1>5. phase[c] = "challenged" /\ stage[c] \in {"waiting", "closing", "left"}
  BY <1>2 DEF InStep
<1>6. dm.session # c /\ \A i \in 1 .. Len(dm.pins) : dm.pins[i] # c
  BY <1>5, NotPinned
<1>7. dm \in Daemon /\ dm.pins \in Seq(Conn) /\ dm.session \in Conn \cup {None}
  BY <1>1 DEF Typed, Daemon
<1>8. dm' \in Daemon /\ dm'.pins = Append(dm.pins, c) /\ dm'.session = dm.session
  <2>1. Append(dm.pins, c) \in Seq(Conn)
    BY <1>7
  <2>2. QED BY <1>3, <1>7, <2>1 DEF Daemon
<1>9. Pinning'
  <2>1. /\ Len(dm.pins) \in Nat /\ Len(dm'.pins) = Len(dm.pins) + 1
        /\ \A i \in 1 .. Len(dm.pins) : dm'.pins[i] = dm.pins[i] /\ dm.pins[i] \in Conn
        /\ dm'.pins[Len(dm.pins) + 1] = c
    BY <1>7, <1>8
  <2>2. ASSUME NEW i \in 1 .. Len(dm'.pins) PROVE phase'[dm'.pins[i]] = "pinning"
    <3>1. CASE i \in 1 .. Len(dm.pins)
      BY <1>1, <1>4, <1>6, <2>1, <3>1 DEF Pinning
    <3>2. CASE i = Len(dm.pins) + 1
      BY <1>4, <2>1, <3>2
    <3>3. QED BY <2>1, <3>1, <3>2
  <2>3. ASSUME NEW i \in 1 .. Len(dm'.pins), NEW j \in 1 .. Len(dm'.pins),
               dm'.pins[j] = dm'.pins[i]
        PROVE  j = i
    <3>1. CASE i \in 1 .. Len(dm.pins) /\ j \in 1 .. Len(dm.pins)
      BY <1>1, <2>1, <2>3, <3>1 DEF Pinning
    <3>2. CASE i = Len(dm.pins) + 1 \/ j = Len(dm.pins) + 1
      BY <1>6, <2>1, <2>3, <3>2
    <3>3. QED BY <2>1, <3>1, <3>2
  <2>4. QED BY <2>2, <2>3 DEF Pinning
<1>10. Sessions'
  BY <1>1, <1>3, <1>4, <1>6, <1>7, <1>8, NoneIsNoConnection DEF Sessions
<1>11. InStep(c)'
  BY <1>2, <1>3, <1>4, <1>5 DEF InStep
<1>12. Local(c)'
  BY <1>1, <1>2, <1>3, <1>11 DEF Local, Ends, Leaving, Carries
<1>13. link' \in [Conn -> Links] /\ down' \in [Conn -> Seq(Frames)]
       /\ faults' \in 0 .. MaxFaults
  BY <1>1, <1>3 DEF Typed
<1>14. QED BY <1>2, <1>3, <1>4, <1>8, <1>9, <1>10, <1>12, <1>13, DaemonMoves

LEMMA PongKeeps ==
  ASSUME LinkInv, NEW c \in Conn, Pong(c)
  PROVE  LinkInv'
<1>1. Typed /\ Local(c) /\ Arrived(c, "pong") /\ Pinning /\ Sessions
  BY DEF LinkInv, Pong
<1>2. /\ Carries(c) /\ InStep(c) /\ Has(up[c], "pong")
      /\ up' \in [Conn -> Seq(Frames)] /\ \A d \in Conn : d # c => up'[d] = up[d]
      /\ \A x : /\ Has(up'[c], x) => Has(up[c], x)
                /\ Has(up[c], x) /\ x # "pong" => Has(up'[c], x)
                /\ Once(up[c], x) => Once(up'[c], x)
  BY <1>1, FrameTaken
<1>3. /\ dm' = dm \/ dm' = [dm EXCEPT !.pong = FALSE]
      /\ UNCHANGED <<ext, stage, secret, down, link, phase, faults>>
  BY DEF Pong
<1>4. dm' \in Daemon /\ dm'.pins = dm.pins /\ dm'.session = dm.session
  BY <1>1, <1>3 DEF Typed, Daemon
<1>5. Pinning' /\ Sessions'
  BY <1>1, <1>3, <1>4 DEF Pinning, Sessions
<1>6. InStep(c)'
  BY <1>2, <1>3 DEF InStep
<1>7. Local(c)'
  BY <1>1, <1>2, <1>3, <1>6 DEF Local, Ends, Leaving, Carries
<1>8. /\ link' \in [Conn -> Links] /\ down' \in [Conn -> Seq(Frames)]
      /\ phase' \in [Conn -> Phases] /\ faults' \in 0 .. MaxFaults
  BY <1>1, <1>3 DEF Typed
<1>9. QED BY <1>2, <1>3, <1>4, <1>5, <1>7, <1>8, DaemonMoves

\* The daemon's socket is closed: the close handler, or terminate().
LEMMA GoneKeeps ==
  ASSUME LinkInv, NEW c \in Conn, Carries(c), Gone(c),
         UNCHANGED <<ext, stage, secret, down>>, faults' \in 0 .. MaxFaults
  PROVE  LinkInv'
<1>1. Typed /\ Local(c) /\ Pinning /\ Sessions
  BY DEF LinkInv
<1>2. /\ link' = [link EXCEPT ![c] = "closed"]
      /\ phase' = [phase EXCEPT ![c] = IF phase[c] = "pinning" THEN phase[c] ELSE "off"]
      /\ up' = [up EXCEPT ![c] = <<>>]
  BY DEF Gone
<1>3. /\ link'[c] = "closed" /\ up'[c] = <<>>
      /\ phase'[c] = IF phase[c] = "pinning" THEN "pinning" ELSE "off"
      /\ \A d \in Conn : d # c => /\ link'[d] = link[d] /\ phase'[d] = phase[d]
                                  /\ up'[d] = up[d] /\ down'[d] = down[d]
  BY <1>1, <1>2 DEF Typed
<1>4. /\ link' \in [Conn -> Links] /\ phase' \in [Conn -> Phases]
      /\ up' \in [Conn -> Seq(Frames)] /\ down' \in [Conn -> Seq(Frames)]
  BY <1>1, <1>2 DEF Typed, Links, Phases
<1>5. dm \in Daemon /\ dm.pins \in Seq(Conn) /\ dm.session \in Conn \cup {None}
  BY <1>1 DEF Typed, Daemon
<1>6. /\ dm' \in Daemon /\ dm'.pins = dm.pins
      /\ dm'.session = IF dm.session = c THEN None ELSE dm.session
  <2>1. dm.session = c => phase[c] = "session"
    BY <1>1, NoneIsNoConnection DEF Sessions
  <2>2. CASE dm.session = c
    <3>1. dm' = [dm EXCEPT !.session = None, !.pong = FALSE]
      BY <2>1, <2>2 DEF Gone, SessionAfter
    <3>2. QED BY <1>5, <2>2, <3>1 DEF Daemon
  <2>3. CASE dm.session # c
    BY <1>5, <2>3 DEF Gone, SessionAfter
  <2>4. QED BY <2>2, <2>3
<1>7. Pinning'
  <2>1. \A i \in 1 .. Len(dm.pins) : dm.pins[i] \in Conn
    BY <1>5
  <2>2. QED BY <1>1, <1>3, <1>6, <2>1 DEF Pinning
<1>8. Sessions'
  BY <1>1, <1>3, <1>5, <1>6, NoneIsNoConnection DEF Sessions
<1>9. Local(c)'
  BY <1>3 DEF Local, Ends, Leaving, Carries
<1>10. QED BY <1>3, <1>4, <1>6, <1>7, <1>8, <1>9, DaemonMoves

LEMMA CloseArrivesKeeps ==
  ASSUME LinkInv, NEW c \in Conn, CloseArrives(c)
  PROVE  LinkInv'
<1>1. /\ Carries(c) /\ Gone(c) /\ UNCHANGED <<ext, stage, secret, down>>
      /\ faults' \in 0 .. MaxFaults
  BY DEF CloseArrives, AtHead, Carries, LinkInv, Typed
<1>2. QED BY <1>1, GoneKeeps

LEMMA HelloTimeoutKeeps ==
  ASSUME LinkInv, NEW c \in Conn, HelloTimeout(c)
  PROVE  LinkInv'
<1>1. Typed /\ Local(c) /\ Pinning /\ Sessions
  BY DEF LinkInv
<1>2. /\ link[c] = "open" /\ link' = [link EXCEPT ![c] = "closing"]
      /\ down' = [down EXCEPT ![c] = Append(down[c], "close")]
      /\ UNCHANGED <<ext, stage, secret, up, phase, dm>>
  BY DEF HelloTimeout
<1>3. faults' \in 0 .. MaxFaults
  BY <1>1, Limits DEF HelloTimeout, Typed
<1>4. /\ down[c] \in Seq(Frames) /\ "close" \in Frames
      /\ Append(down[c], "close") \in Seq(Frames)
      /\ \A x : Has(Append(down[c], "close"), x) => Has(down[c], x) \/ x = "close"
  <2>1. down[c] \in Seq(Frames) /\ "close" \in Frames
    BY <1>1 DEF Typed, Frames
  <2>2. QED BY <2>1, AppendQueue
<1>5. /\ link'[c] = "closing" /\ down'[c] = Append(down[c], "close")
      /\ \A d \in Conn : d # c => link'[d] = link[d] /\ down'[d] = down[d]
  BY <1>1, <1>2 DEF Typed
<1>6. /\ link' \in [Conn -> Links] /\ down' \in [Conn -> Seq(Frames)]
      /\ up' \in [Conn -> Seq(Frames)] /\ phase' \in [Conn -> Phases] /\ dm' \in Daemon
  BY <1>1, <1>2, <1>4 DEF Typed, Links
<1>7. Pinning' /\ Sessions'
  BY <1>1, <1>2, <1>5 DEF Pinning, Sessions
<1>8. InStep(c)'
  BY <1>1, <1>2, <1>4, <1>5 DEF Local, Carries, InStep
<1>9. Local(c)'
  BY <1>1, <1>2, <1>5, <1>8 DEF Local, Ends, Leaving, Carries
<1>10. QED BY <1>2, <1>3, <1>5, <1>6, <1>7, <1>9, DaemonMoves

LEMMA HeartbeatKeeps ==
  ASSUME LinkInv, Heartbeat
  PROVE  LinkInv'
<1>1. Typed /\ Pinning /\ Sessions /\ dm \in Daemon /\ faults \in 0 .. MaxFaults
  BY DEF LinkInv, Typed
<1>2. PICK c \in Conn : c = dm.session
  BY <1>1 DEF Heartbeat, Daemon
<1>3. UNCHANGED <<ext, stage, secret>>
  BY DEF Heartbeat
<1>4. phase[c] = "session" /\ Local(c)
  BY <1>1, <1>2, NoneIsNoConnection DEF Sessions, LinkInv
<1>5. CASE dm.pong
  <2>1. /\ link[c] # "closed" /\ faults' = faults + 1 /\ faults < MaxFaults
        /\ Gone(c) /\ down' = down
    BY <1>2, <1>5 DEF Heartbeat
  <2>2. Carries(c)
    BY <1>1, <1>4, <2>1 DEF Typed, Links, Local, Ends, Carries
  <2>3. faults' \in 0 .. MaxFaults
    BY <1>1, <2>1, Limits
  <2>4. QED BY <1>3, <2>1, <2>2, <2>3, GoneKeeps
<1>6. CASE ~dm.pong
  <2>1. /\ dm' = [dm EXCEPT !.pong = TRUE] /\ down' = Sent(down, c, "ping")
        /\ UNCHANGED <<up, link, phase, faults>>
    BY <1>2, <1>6 DEF Heartbeat
  <2>2. dm' \in Daemon /\ dm'.pins = dm.pins /\ dm'.session = dm.session
    BY <1>1, <2>1 DEF Daemon
  <2>3. "ping" \in Frames
    BY DEF Frames
  <2>4. Answers(down', c, "ping")
    BY <1>1, <2>1, <2>3, SentDown, Zenon
  <2>5. /\ down' \in [Conn -> Seq(Frames)] /\ \A d \in Conn : d # c => down'[d] = down[d]
        /\ \A x : Has(down'[c], x) => Has(down[c], x) \/ x = "ping"
    BY <2>4 DEF Answers
  <2>6. Pinning' /\ Sessions'
    BY <1>1, <2>1, <2>2 DEF Pinning, Sessions
  <2>7. Carries(c) => InStep(c)'
    BY <1>3, <1>4, <2>1, <2>5 DEF Local, InStep
  <2>8. Local(c)'
    BY <1>3, <1>4, <2>1, <2>7 DEF Local, Ends, Leaving, Carries
  <2>9. /\ up' \in [Conn -> Seq(Frames)] /\ link' \in [Conn -> Links]
        /\ phase' \in [Conn -> Phases] /\ faults' \in 0 .. MaxFaults
    BY <1>1, <2>1 DEF Typed
  <2>10. QED BY <1>3, <2>1, <2>2, <2>5, <2>6, <2>8, <2>9, DaemonMoves
<1>7. QED BY <1>5, <1>6

\* The daemon stops, its sockets with it, and starts again.
LEMMA StopsKeep ==
  ASSUME LinkInv, DaemonStops \/ DaemonStarts
  PROVE  LinkInv'
<1>1. /\ Typed /\ Sockets /\ Pinning /\ Sessions /\ \A d \in Conn : Local(d)
      /\ dm \in Daemon /\ faults \in 0 .. MaxFaults
  BY DEF LinkInv, Typed
<1>2. CASE DaemonStarts
  <2>1. /\ dm' = [dm EXCEPT !.up = TRUE]
        /\ UNCHANGED <<ext, stage, secret, up, down, link, phase, faults>>
    BY <1>2 DEF DaemonStarts
  <2>2. dm' \in Daemon /\ dm'.pins = dm.pins /\ dm'.session = dm.session
    BY <1>1, <2>1 DEF Daemon
  <2>3. Typed' /\ Sockets' /\ Pinning' /\ Sessions'
    BY <1>1, <2>1, <2>2 DEF Typed, Sockets, Pinning, Sessions
  <2>4. \A d \in Conn : Local(d)'
    BY <1>1, <2>1, LocalStays
  <2>5. QED BY <2>3, <2>4 DEF LinkInv
<1>3. CASE DaemonStops
  <2>1. /\ dm' = [up |-> FALSE, pins |-> <<>>, session |-> None, pong |-> FALSE]
        /\ link' = [d \in Conn |-> IF link[d] = "off" THEN "off" ELSE "closed"]
        /\ phase' = [d \in Conn |-> "off"] /\ up' = [d \in Conn |-> <<>>]
        /\ UNCHANGED <<ext, stage, secret, down>>
        /\ faults' = faults + 1 /\ faults < MaxFaults
    BY <1>3 DEF DaemonStops
  <2>2. dm' \in Daemon /\ dm'.pins = <<>> /\ dm'.session = None
    BY <2>1 DEF Daemon
  <2>3. faults' \in 0 .. MaxFaults
    BY <1>1, <2>1, Limits
  <2>4. \A d \in Conn : link'[d] \in {"off", "closed"} /\ up'[d] = <<>> /\ phase'[d] = "off"
    BY <2>1
  <2>5. /\ link' \in [Conn -> Links] /\ phase' \in [Conn -> Phases]
        /\ up' \in [Conn -> Seq(Frames)]
    BY <2>1 DEF Links, Phases
  <2>6. Typed'
    BY <1>1, <2>1, <2>2, <2>3, <2>5 DEF Typed
  <2>7. Sockets'
    <3>1. \A d \in Conn : link'[d] # "open"
      BY <2>4
    <3>2. QED BY <1>1, <2>1, <3>1 DEF Sockets
  <2>8. Pinning' /\ Sessions'
    BY <2>2, <2>4 DEF Pinning, Sessions
  <2>9. \A d \in Conn : Local(d)'
    BY <2>4 DEF Local, Ends, Leaving, Carries
  <2>10. QED BY <2>6, <2>7, <2>8, <2>9 DEF LinkInv
<1>4. QED BY <1>2, <1>3

\* What is queued behind the first registration.
LEMMA NextPin ==
  ASSUME LinkInv, dm.pins # <<>>, NEW c, c = Head(dm.pins)
  PROVE  /\ c \in Conn /\ phase[c] = "pinning" /\ dm.session # c
         /\ Tail(dm.pins) \in Seq(Conn)
         /\ \A i \in 1 .. Len(Tail(dm.pins)) :
              /\ Tail(dm.pins)[i] \in Conn /\ Tail(dm.pins)[i] # c
              /\ phase[Tail(dm.pins)[i]] = "pinning"
              /\ \A j \in 1 .. Len(Tail(dm.pins)) :
                    Tail(dm.pins)[j] = Tail(dm.pins)[i] => j = i
<1>1. Pinning /\ Sessions /\ dm.pins \in Seq(Conn)
  BY DEF LinkInv, Typed, Daemon
<1> PICK q : q = Tail(dm.pins)
  OBVIOUS
<1>2. /\ Len(dm.pins) \in Nat \ {0} /\ c = dm.pins[1] /\ q \in Seq(Conn)
      /\ Len(q) = Len(dm.pins) - 1
      /\ \A i \in 1 .. Len(q) : q[i] = dm.pins[i + 1] /\ i + 1 \in 1 .. Len(dm.pins)
      /\ \A i \in 1 .. Len(dm.pins) : dm.pins[i] \in Conn
  BY <1>1
<1>3. 1 \in 1 .. Len(dm.pins)
  BY <1>2
<1>4. c \in Conn /\ phase[c] = "pinning"
  BY <1>1, <1>2, <1>3 DEF Pinning
<1>5. dm.session # c
  BY <1>1, <1>4, NoneIsNoConnection DEF Sessions
<1>6. ASSUME NEW i \in 1 .. Len(q)
      PROVE  q[i] \in Conn /\ q[i] # c /\ phase[q[i]] = "pinning"
  <2>1. q[i] = dm.pins[i + 1] /\ i + 1 \in 1 .. Len(dm.pins) /\ i + 1 # 1
    BY <1>2
  <2>2. dm.pins[i + 1] # dm.pins[1]
    BY <1>1, <1>3, <2>1 DEF Pinning
  <2>3. QED BY <1>1, <1>2, <2>1, <2>2 DEF Pinning
<1>7. ASSUME NEW i \in 1 .. Len(q), NEW j \in 1 .. Len(q), q[j] = q[i]
      PROVE  j = i
  <2>1. /\ q[i] = dm.pins[i + 1] /\ i + 1 \in 1 .. Len(dm.pins)
        /\ q[j] = dm.pins[j + 1] /\ j + 1 \in 1 .. Len(dm.pins)
    BY <1>2
  <2>2. j + 1 = i + 1
    BY <1>1, <1>7, <2>1 DEF Pinning
  <2>3. QED BY <1>2, <2>2
<1>8. QED BY <1>2, <1>4, <1>5, <1>6, <1>7

\* The session moves to the connection that is pinned; the one before closes.
LEMMA PinnedKeeps ==
  ASSUME LinkInv, Pinned
  PROVE  LinkInv'
<1>1. /\ Typed /\ Sockets /\ Pinning /\ Sessions /\ \A d \in Conn : Local(d)
      /\ dm \in Daemon /\ dm.session \in Conn \cup {None}
  BY DEF LinkInv, Typed, Daemon
<1> PICK c : c = Head(dm.pins)
  OBVIOUS
<1> PICK before : before = dm.session
  OBVIOUS
<1> PICK rest : rest = Tail(dm.pins)
  OBVIOUS
<1>2. /\ c \in Conn /\ phase[c] = "pinning" /\ before # c /\ rest \in Seq(Conn)
      /\ \A i \in 1 .. Len(rest) :
           /\ rest[i] \in Conn /\ rest[i] # c /\ phase[rest[i]] = "pinning"
           /\ \A j \in 1 .. Len(rest) : rest[j] = rest[i] => j = i
  BY NextPin DEF Pinned
<1>3. /\ phase' = [d \in Conn |->
            IF d = c THEN "session"
            ELSE IF d = before /\ link[d] = "closed" THEN "off" ELSE phase[d]]
      /\ dm' = [dm EXCEPT !.pins = rest, !.session = c, !.pong = FALSE]
      /\ UNCHANGED <<ext, stage, secret, up, faults>>
  BY DEF Pinned
<1>4. dm' \in Daemon /\ dm'.pins = rest /\ dm'.session = c
  BY <1>1, <1>2, <1>3 DEF Daemon
<1> PICK ack : ack = Sent(down, c, "hello_ack")
  OBVIOUS
<1>5. /\ ack \in [Conn -> Seq(Frames)] /\ \A d \in Conn : d # c => ack[d] = down[d]
      /\ \A x : Has(ack[c], x) => Has(down[c], x) \/ x = "hello_ack"
  <2>1. "hello_ack" \in Frames
    BY DEF Frames
  <2>2. Answers(ack, c, "hello_ack")
    BY <1>1, <1>2, <2>1, SentDown, Zenon
  <2>3. QED BY <2>2 DEF Answers
<1>6. /\ link' \in [Conn -> Links] /\ down' \in [Conn -> Seq(Frames)]
      /\ \A d \in Conn :
           /\ link'[d] = IF d = before /\ link[d] = "open" THEN "closing" ELSE link[d]
           /\ \A x : /\ d = c => (Has(down'[d], x) => Has(down[d], x) \/ x = "hello_ack")
                     /\ d = before => (Has(down'[d], x) => Has(down[d], x) \/ x = "close")
           /\ d # c /\ (d # before \/ link[d] # "open") => down'[d] = down[d]
  <2>1. CASE before # None /\ link[before] = "open"
    <3>1. /\ before \in Conn /\ link' = [link EXCEPT ![before] = "closing"]
          /\ down' = [ack EXCEPT ![before] = Append(ack[before], "close")]
      BY <1>1, <2>1 DEF Pinned
    <3>2. /\ Append(ack[before], "close") \in Seq(Frames)
          /\ \A x : Has(Append(ack[before], "close"), x) => Has(ack[before], x) \/ x = "close"
      <4>1. ack[before] \in Seq(Frames) /\ "close" \in Frames
        BY <1>5, <3>1 DEF Frames
      <4>2. QED BY <4>1, AppendQueue
    <3>3. /\ link'[before] = "closing" /\ down'[before] = Append(ack[before], "close")
          /\ ack[before] = down[before]
          /\ \A d \in Conn : d # before => link'[d] = link[d] /\ down'[d] = ack[d]
      BY <1>1, <1>2, <1>5, <3>1 DEF Typed
    <3>4. link' \in [Conn -> Links] /\ down' \in [Conn -> Seq(Frames)]
      BY <1>1, <1>5, <3>1, <3>2 DEF Typed, Links
    <3>5. ASSUME NEW d \in Conn
          PROVE  /\ link'[d] = IF d = before /\ link[d] = "open" THEN "closing" ELSE link[d]
                 /\ \A x : /\ d = c => (Has(down'[d], x) => Has(down[d], x) \/ x = "hello_ack")
                           /\ d = before => (Has(down'[d], x) => Has(down[d], x) \/ x = "close")
                 /\ d # c /\ (d # before \/ link[d] # "open") => down'[d] = down[d]
      <4>1. CASE d = before
        BY <1>2, <2>1, <3>2, <3>3, <4>1
      <4>2. CASE d # before
        <5>1. link'[d] = link[d] /\ down'[d] = ack[d]
          BY <3>3, <4>2
        <5>2. QED BY <1>5, <4>2, <5>1
      <4>3. QED BY <4>1, <4>2
    <3>6. QED BY <3>4, <3>5
  <2>2. CASE ~(before # None /\ link[before] = "open")
    <3>1. link' = link /\ down' = ack
      BY <2>2 DEF Pinned
    <3>2. link' \in [Conn -> Links]
      BY <1>1, <3>1 DEF Typed
    <3>3. QED BY <1>2, <1>5, <2>2, <3>1, <3>2, NoneIsNoConnection
  <2>3. QED BY <2>1, <2>2
<1>7. Typed'
  <2>1. phase' \in [Conn -> Phases]
    BY <1>1, <1>3 DEF Typed, Phases
  <2>2. QED BY <1>1, <1>3, <1>4, <1>6, <2>1 DEF Typed
<1>8. Sockets'
  <2>1. \A d \in Conn : link[d] # "open" => link'[d] # "open"
    BY <1>6
  <2>2. QED BY <1>1, <1>3, <2>1 DEF Sockets
<1>9. before # None => phase[before] = "session"
  BY <1>1 DEF Sessions
<1>10. Pinning'
  <2>1. \A i \in 1 .. Len(rest) : phase'[rest[i]] = "pinning"
    BY <1>2, <1>3, <1>9, NoneIsNoConnection
  <2>2. QED BY <1>2, <1>4, <2>1 DEF Pinning
<1>11. Sessions'
  <2>1. phase'[c] = "session"
    BY <1>2, <1>3
  <2>2. ASSUME NEW d \in Conn, phase'[d] = "session", link'[d] = "open" PROVE d = c
    <3>1. link[d] = "open" /\ d # before
      BY <1>6, <2>2
    <3>2. CASE d # c
      BY <1>1, <1>3, <2>2, <3>1, <3>2 DEF Sessions
    <3>3. QED BY <3>2
  <2>3. QED BY <1>4, <2>1, <2>2 DEF Sessions
<1>12. ASSUME NEW d \in Conn PROVE Local(d)'
  <2>1. Local(d) /\ stage'[d] = stage[d] /\ up'[d] = up[d] /\ (Carries(d)' <=> Carries(d))
    BY <1>1, <1>3, <1>6 DEF Carries
  <2>2. CASE d = c
    <3>1. /\ phase'[d] = "session" /\ link'[d] = link[d]
          /\ Has(down'[d], "challenge") => Has(down[d], "challenge")
      BY <1>2, <1>3, <1>6, <2>2
    <3>2. Carries(d) => InStep(d)'
      BY <1>2, <2>1, <2>2, <3>1 DEF Local, InStep
    <3>3. QED BY <1>2, <2>1, <2>2, <3>1, <3>2 DEF Local, Ends, Leaving
  <2>3. CASE d # c /\ d = before /\ link[d] \in {"open", "closing"}
    <3>1. /\ phase'[d] = phase[d] /\ link'[d] = "closing"
          /\ Has(down'[d], "challenge") => Has(down[d], "challenge")
          /\ Has(down'[d], "hello_ack") => Has(down[d], "hello_ack")
      BY <1>3, <1>6, <2>3
    <3>2. Carries(d) => InStep(d)'
      BY <2>1, <3>1 DEF Local, InStep
    <3>3. QED BY <2>1, <2>3, <3>1, <3>2 DEF Local, Ends, Leaving
  <2>4. CASE d # c /\ d = before /\ link[d] \notin {"open", "closing"}
    <3>1. link'[d] = link[d] /\ (phase'[d] = phase[d] \/ phase'[d] = "off")
      BY <1>3, <1>6, <2>4
    <3>2. ~Carries(d)
      BY <2>4 DEF Carries
    <3>3. QED BY <2>1, <3>1, <3>2 DEF Local, Ends, Leaving
  <2>5. CASE d # c /\ d # before
    <3>1. phase'[d] = phase[d] /\ link'[d] = link[d] /\ down'[d] = down[d]
      BY <1>3, <1>6, <2>5
    <3>2. QED BY <2>1, <3>1, LocalStays
  <2>6. QED BY <2>2, <2>3, <2>4, <2>5
<1>13. QED BY <1>7, <1>8, <1>10, <1>11, <1>12 DEF LinkInv
-----------------------------------------------------------------------------
(* The theorems. *)

LEMMA LinkInvInit == Init => LinkInv
<1> SUFFICES ASSUME Init PROVE LinkInv
  OBVIOUS
<1>1. /\ stage = [c \in Conn |-> "free"] /\ secret = [c \in Conn |-> "none"]
      /\ up = [c \in Conn |-> <<>>] /\ down = [c \in Conn |-> <<>>]
      /\ link = [c \in Conn |-> "off"] /\ phase = [c \in Conn |-> "off"]
      /\ dm = [up |-> TRUE, pins |-> <<>>, session |-> None, pong |-> FALSE]
      /\ faults = 0
  BY DEF Init
<1>2. ext \in Ext /\ ext.sock = None /\ ~ext.authenticated
  <2>1. 0 \in 0 .. LongDelay
    BY Limits
  <2>2. QED BY <2>1 DEF Init, Ext
<1>3. 0 \in 0 .. MaxFaults /\ dm \in Daemon
  BY <1>1, Limits DEF Daemon
<1>4. Typed
  BY <1>1, <1>2, <1>3 DEF Typed, Stages, Tokens, Links, Phases
<1>5. Sockets /\ Pinning /\ Sessions
  BY <1>1, <1>2, NoneIsNoConnection DEF Sockets, Pinning, Sessions, Attached
<1>6. \A c \in Conn : Local(c)
  BY <1>1 DEF Local, Ends, Leaving, Carries
<1>7. QED BY <1>4, <1>5, <1>6 DEF LinkInv

LEMMA ExtStepKeeps ==
  ASSUME LinkInv, NEW c \in Conn, ExtStep(c)
  PROVE  LinkInv'
<1>1. TRUE \in BOOLEAN /\ FALSE \in BOOLEAN
  OBVIOUS
<1>2. CASE TokenRead(c)
  BY <1>2, TokenReadKeeps
<1>3. CASE IdentityRead(c, TRUE) \/ IdentityRead(c, FALSE)
  BY <1>1, <1>3, IdentityReadKeeps
<1>4. CASE ExtOpen(c)
  BY <1>4, ExtOpenKeeps
<1>5. CASE ExtChallenge(c)
  BY <1>5, ExtChallengeKeeps
<1>6. CASE ChallengeVerified(c)
  BY <1>6, ChallengeVerifiedKeeps
<1>7. CASE HelloSigned(c)
  BY <1>7, HelloSignedKeeps
<1>8. CASE ExtAck(c)
  BY <1>8, ExtAckKeeps
<1>9. CASE ExtPing(c)
  BY <1>9, ExtPingKeeps
<1>10. CASE ExtCloseFrame(c)
  BY <1>10, ExtCloseFrameKeeps
<1>11. CASE ExtOnClose(c) \/ ExtForget(c) \/ Refused(c)
  BY <1>11, LostKeeps
<1>12. QED
  BY <1>2, <1>3, <1>4, <1>5, <1>6, <1>7, <1>8, <1>9, <1>10, <1>11 DEF ExtStep

LEMMA DaemonStepKeeps ==
  ASSUME LinkInv, NEW c \in Conn, DaemonStep(c)
  PROVE  LinkInv'
<1>1. CASE Accept(c)
  BY <1>1, AcceptKeeps
<1>2. CASE ClientHello(c)
  BY <1>2, ClientHelloKeeps
<1>3. CASE Hello(c)
  BY <1>3, HelloKeeps
<1>4. CASE Pong(c)
  BY <1>4, PongKeeps
<1>5. CASE CloseArrives(c)
  BY <1>5, CloseArrivesKeeps
<1>6. QED BY <1>1, <1>2, <1>3, <1>4, <1>5 DEF DaemonStep

\* Every step of the two ends and of their surroundings keeps the invariant.
LEMMA LinkInvStep == LinkInv /\ [Next]_vars => LinkInv'
<1> SUFFICES ASSUME LinkInv, [Next]_vars PROVE LinkInv'
  OBVIOUS
<1>1. CASE \E c \in Conn : ExtStep(c) \/ DaemonStep(c)
  BY <1>1, ExtStepKeeps, DaemonStepKeeps
<1>2. CASE Starts \/ AlarmFires \/ \E c \in Conn : UserReconnects(c) \/ PairingRemoved(c)
  BY <1>2, StartsKeep
<1>3. CASE Pinned
  BY <1>3, PinnedKeeps
<1>4. CASE DaemonStarts \/ DaemonStops
  BY <1>4, StopsKeep
<1>5. CASE Suspended \/ BrowserEvent
  BY <1>5, WorkerStopsKeeps
<1>6. CASE Killed
  BY <1>6, KilledKeeps
<1>7. CASE Heartbeat
  BY <1>7, HeartbeatKeeps
<1>8. CASE \E c \in Conn : AuthTimeout(c) \/ HelloTimeout(c)
  BY <1>8, AuthTimeoutKeeps, HelloTimeoutKeeps
<1>9. CASE UNCHANGED vars
  <2>1. UNCHANGED <<ext, stage, secret, up, down, link, phase, dm, faults>>
    BY <1>9 DEF vars
  <2>2. Typed' /\ Sockets' /\ Pinning' /\ Sessions'
    BY <2>1 DEF LinkInv, Typed, Sockets, Pinning, Sessions
  <2>3. \A c \in Conn : Local(c)'
    BY <2>1, LocalStays DEF LinkInv
  <2>4. QED BY <2>2, <2>3 DEF LinkInv
<1>10. CASE Disturbs
  BY <1>2, <1>4, <1>5, <1>6, <1>7, <1>8, <1>10 DEF Disturbs
<1>11. QED BY <1>1, <1>2, <1>3, <1>4, <1>9, <1>10 DEF Next

\* (The handshake of connect() and #handleWebSocket()) In every reachable state
\* the two ends of every connection are in step with each other, and the
\* extension, the registry's queue and the daemon's session with both.
THEOREM LinkInvariant == Spec => []LinkInv
<1>1. QED BY LinkInvInit, LinkInvStep, PTL DEF Spec

LEMMA InvAgreement == LinkInv => Agreement
<1> SUFFICES ASSUME LinkInv PROVE Agreement
  OBVIOUS
<1>1. Typed /\ Sockets /\ Sessions /\ \A c \in Conn : Local(c)
  BY DEF LinkInv
<1>2. TypeOK
  <2>1. \A c \in Conn : up[c] \in Seq(Frames) /\ down[c] \in Seq(Frames)
    BY <1>1 DEF Typed
  <2>2. \A c \in Conn : /\ \A i \in 1 .. Len(up[c]) : up[c][i] \in Frames
                        /\ \A i \in 1 .. Len(down[c]) : down[c][i] \in Frames
    BY <2>1
  <2>3. QED BY <1>1, <2>2 DEF Typed, TypeOK, Daemon
<1>3. ASSUME NEW c \in Conn, ext.sock = c, ext.authenticated, link[c] = "open"
      PROVE  dm.session = c
  <2>1. stage[c] = "live"
    BY <1>1, <1>3 DEF Sockets
  <2>2. phase[c] = "session"
    BY <1>1, <1>3, <2>1 DEF Local, InStep, Carries
  <2>3. QED BY <1>1, <1>3, <2>2 DEF Sessions
<1>4. QED BY <1>2, <1>3 DEF Agreement

\* (hello_ack, #disconnectBrowser()) An extension that believes in a connection
\* the daemon has not closed holds the connection of the daemon's session,
\* whatever reconnects, late close frames and restarts came before.
THEOREM LinkAgrees == Spec => []Agreement
<1>1. QED BY LinkInvariant, InvAgreement, PTL

LEMMA InvPlacesComeBack == LinkInv => PlacesComeBack
<1> SUFFICES ASSUME LinkInv, NEW c \in Waiting, ext.sock # c
             PROVE  \E i \in 1 .. Len(up[c]) : up[c][i] = "close"
  BY DEF PlacesComeBack
<1>1. Sockets /\ Local(c) /\ Carries(c) /\ c \in Conn
  BY DEF LinkInv, Waiting, Carries
<1>2. stage[c] = "left"
  BY <1>1 DEF Sockets, Local, Ends
<1>3. QED BY <1>1, <1>2 DEF Local, Leaving, Has

\* (closeCurrentSocket(), verifyClient()) A place among the unauthenticated
\* connections is taken by the socket in use, or its close is under way.
THEOREM LinkPlaces == Spec => []PlacesComeBack
<1>1. QED BY LinkInvariant, InvPlacesComeBack, PTL
=============================================================================
