------------------------- MODULE SetupPairingProofs -------------------------
(***************************************************************************)
(* The setup of a pairing: what the two sides have durably and what they   *)
(* report agree, for any numbers of setups, tries, restarts, kills, lost   *)
(* connections, clicks and failing saves.                                  *)
(***************************************************************************)
EXTENDS SetupPairing, TLAPS
-----------------------------------------------------------------------------
(* The inductive invariant, part by part. *)

Durables == {"persist", "persistCall", "persistWait", "ordinary", "ordinaryCall",
             "ordinaryWait", "last", "priorCall", "priorWait", "putBack"}
Writing == {"check", "set", "putBack"}

\* What a call has done and how far it is fit together.
Fits(a) ==
    /\ a.pc = "idle" => a = Fresh
    /\ a.pc \in Durables => a.durable
    /\ a.durable => a.pc \in Durables \cup {"ended"}
    /\ a.pc \in {"pair", "issued", "provisionCall", "provisionWait", "check"} => a.commit = "no"
    /\ a.commit = "pending" => a.pc = "set"
    /\ a.rollback = "waiting" => ~a.durable /\ ~a.over /\ a.commit # "no"
    /\ a.rollback = "connect" => ~a.over
    /\ a.rollback # "no" /\ a.pc # "ended" => a.stopped
    /\ a.over /\ a.pc # "ended" => a.stopped /\ a.rollback = "over"
    /\ a.ok => a.pc = "ended" /\ a.over
    /\ a.pc \notin {"last", "priorCall", "priorWait", "putBack", "ended"} => a.tries < MaxTries

\* The socket of the present connect() and the handshakes, each with the mode
\* its proof was checked in.
Handshakes ==
    /\ DOMAIN conn \subseteq 1 .. link.gen
    /\ link.step # "done" => link.gen \notin DOMAIN conn /\ ~link.open
    /\ link.step = "identity" => link.token # None
    /\ link.kind # "ordinary" => link.step = "identity" /\ link.token = "derived" /\ link.setup # NoSetup
    /\ link.kind = "ordinary" => link.setup = NoSetup
    /\ link.phase = "connected" => link.open /\ conn[link.gen].at = "acked"
    /\ \A g \in DOMAIN conn :
          /\ conn[g].kind # "ordinary" => conn[g].token = "derived" /\ conn[g].setup # NoSetup
          /\ conn[g].kind = "ordinary" => conn[g].setup = NoSetup
          /\ conn[g].at \in {"signed", "pinning", "acked"} => conn[g].mode = conn[g].token
          /\ conn[g].at # "hello" /\ conn[g].kind # "ordinary" => conn[g].mode = "derived"
          /\ conn[g].at = "pinning" => conn[g].kind # "provisioning"

\* pin() calls are in the order of their connections, the older first, and
\* come from connections that wait for them.
Queued ==
    \A n \in 1 .. Len(pins) :
        /\ pins[n].gen \in DOMAIN conn /\ conn[pins[n].gen].at = "pinning"
        /\ conn[pins[n].gen].mode = pins[n].mode /\ conn[pins[n].gen].setup = pins[n].setup
        /\ \A m \in 1 .. Len(pins) : m < n => pins[m].gen < pins[n].gen
        /\ \A g \in DOMAIN conn : conn[g].at = "signed" => pins[n].gen < g

\* The registry: only a derived mode is ever written, and once it was saved
\* it is on disk.  An installation that was pinned is never forgotten.
Registry ==
    /\ saving # Idle => registry = "derived" /\ saving # "derived" /\ pins # <<>> /\ Head(pins).mode = "derived"
    /\ saving = Idle /\ registry = "derived" => disk = "derived"
    /\ \/ /\ "legacy" \notin {registry, disk, saving}
          /\ \A g \in DOMAIN conn : conn[g].at # "hello" => conn[g].mode # "legacy"
          /\ \A n \in 1 .. Len(pins) : pins[n].mode # "legacy"
       \/ None \notin {registry, disk, saving}
    /\ ~Happened("late") => disk = IF saving = Idle THEN registry ELSE saving

\* The setup session: a pin() that may still commit it holds it, or outlives it.
Sessions ==
    /\ setup.id <= begun /\ setup.id \notin cancelled
    /\ \A i \in cancelled : i <= begun
    /\ setup.completed => /\ registry = "derived" /\ disk = "derived" /\ saving = Idle
                          /\ setup.id \in committed
    /\ \A n \in 1 .. Len(pins) : pins[n].setup \notin committed \cup {NoSetup} =>
          /\ pins[n].setup <= begun /\ pins[n].setup \notin cancelled
          /\ setup.id = pins[n].setup => setup.committing
          /\ \A m \in 1 .. Len(pins) : pins[m].setup = pins[n].setup => m = n

\* What is proved as stored was stored and read back.
Stored ==
    /\ link.kind = "persisted" => attempt[link.setup].durable
    /\ \A g \in DOMAIN conn : conn[g].kind = "persisted" => attempt[conn[g].setup].durable
    /\ \A n \in 1 .. Len(pins) : pins[n].setup # NoSetup => attempt[pins[n].setup].durable
    /\ \A i \in committed : attempt[i].durable

\* While a call works on the credential nobody else does.
Exclusive ==
    \A i \in Setups : InProgress(i) /\ attempt[i].pc \in Durables \cup {"set", "verify"} =>
        /\ \A j \in Setups : attempt[j].over => attempt[j].pc \notin Writing
        /\ attempt[i].pc \in Durables /\ ~attempt[i].stopped => stored = "derived"

\* The connection that proves the new credential has it, and an acknowledged one
\* stands for a mode that is pinned on disk.
Proves ==
    /\ \A i \in Setups :
          /\ InProgress(i) /\ ~attempt[i].stopped
          /\ attempt[i].pc \in {"persistCall", "persistWait", "ordinaryCall", "ordinaryWait"}
          => /\ link.token \in {None, "derived"} /\ link.kind # "provisioning"
             /\ link.gen \in DOMAIN conn =>
                   conn[link.gen].token = "derived" /\ conn[link.gen].kind # "provisioning"
    /\ \A g \in DOMAIN conn :
          conn[g].at = "acked" /\ conn[g].kind # "provisioning" /\ conn[g].mode = "derived"
          => registry = "derived" /\ disk = "derived" /\ saving = Idle

\* Nothing under way can make the daemon replace the credential.
Calm ==
    /\ registry # "derived" /\ saving = Idle /\ link.kind # "persisted"
    /\ \A g \in DOMAIN conn : conn[g].at \in {"hello", "challenge", "signed"} =>
          /\ conn[g].kind # "persisted"
          /\ conn[g].kind = "ordinary" => conn[g].mode # "derived"
    /\ \A n \in 1 .. Len(pins) : pins[n].mode # "derived"

Excused == Happened("clicks") \/ (Happened("late") /\ Happened("restarts"))

\* Who has the legacy credential, may restore it, or has just proved it finds
\* nothing under way that would replace it.
Kept ==
    ~Excused =>
        /\ stored = "legacy" => Calm
        /\ \A i \in Setups :
              /\ InProgress(i) /\ ~attempt[i].durable /\ attempt[i].prior = "legacy" => Calm
              /\ attempt[i].pc = "putBack" /\ attempt[i].prior = "legacy" => Calm
              /\ InProgress(i) /\ ~attempt[i].stopped /\ attempt[i].pc \in {"priorCall", "priorWait"} =>
                    /\ attempt[i].mine = link.gen /\ link.kind = "ordinary" /\ link.step # "token"
                    /\ link.step = "identity" => link.token = attempt[i].prior
                    /\ link.gen \in DOMAIN conn => conn[link.gen].token = attempt[i].prior
        /\ \A g \in DOMAIN conn : conn[g].at = "acked" /\ conn[g].mode = "legacy" => Calm

\* What is left of the bounds.
Events == {"restarts", "kills", "timers", "clicks", "late", "drops", "events"}
Counted == left \in [Events -> Nat] /\ \A k \in Events : left[k] <= Bounds[k]

AllFit == \A i \in Setups : Fits(attempt[i])

SetupInv ==
    /\ TypeOK /\ Counted /\ AllFit /\ Handshakes /\ Queued /\ Registry
    /\ Sessions /\ Stored /\ Exclusive /\ Proves /\ Kept

\* The type invariant in three parts: what each variable is, the sockets, and the
\* one call in progress.
Types ==
    /\ registry \in Modes /\ disk \in Modes
    /\ pins \in Seq([gen : Nat, mode : Modes \ {None}, setup : Setups \cup {NoSetup}])
    /\ saving \in Modes \cup {Idle}
    /\ setup \in Session
    /\ conn \in [DOMAIN conn -> Connection]
    /\ link \in Link
    /\ stored \in Modes
    /\ attempt \in [Setups -> Attempt]
    /\ begun \in 0 .. MaxSetups
    /\ cancelled \subseteq Setups /\ committed \subseteq Setups

Sockets ==
    /\ link.open => link.gen \in DOMAIN conn
    /\ \A g \in DOMAIN conn : ~Live(g) => conn[g].at \in {"signed", "pinning"}

Alone == \A i, j \in Setups : InProgress(i) /\ InProgress(j) => i = j

LEMMA TypeOKParts == TypeOK <=> Types /\ Sockets /\ Alone
  BY DEF TypeOK, Types, Sockets, Alone

LEMMA TypeOKPartsNext == TypeOK' <=> Types' /\ Sockets' /\ Alone'
  BY DEF TypeOK, Types, Sockets, Alone

-----------------------------------------------------------------------------
(* The bounds. *)

LEMMA BoundsTyped ==
    /\ Bounds \in [Events -> Nat]
    /\ MaxTries \in Nat \ {0} /\ MaxSetups \in Nat
  BY BoundsAssumption DEF Bounds, Events

\* What has happened stays so.
LEMMA SpentIsSpent ==
    ASSUME Counted, NEW k \in Events \ {"events"}, Spends(k)
    PROVE  /\ Counted' /\ Happened(k)'
           /\ \A q \in Events : Happened(q) => Happened(q)'
  <1>1. Bounds \in [Events -> Nat] /\ "events" \in Events
    BY BoundsTyped DEF Events
  <1>2. left' = [q \in Events |-> IF q \in {k, "events"} THEN left[q] - 1 ELSE left[q]]
    BY DEF Counted, Spends
  <1>3. left' \in [Events -> Nat]
    <2>1. left[k] > 0 /\ left["events"] > 0 /\ \A q \in Events : left[q] \in Nat
      BY <1>1 DEF Counted, Spends
    <2>2. \A q \in Events : (IF q \in {k, "events"} THEN left[q] - 1 ELSE left[q]) \in Nat
      BY <2>1
    <2> QED BY <1>2, <2>2
  <1>4. k \in Events /\ left \in [Events -> Nat] /\ \A q \in Events : left[q] <= Bounds[q]
    BY DEF Counted
  <1>5. Counted'
    BY <1>1, <1>2, <1>3, <1>4 DEF Counted, Bounds
  <1> QED BY <1>1, <1>2, <1>3, <1>4, <1>5 DEF Happened, Bounds

LEMMA NothingSpent ==
    ASSUME UNCHANGED left
    PROVE  /\ Counted => Counted' 
           /\ \A q \in Events : Happened(q)' <=> Happened(q)
           /\ Excused' <=> Excused
  BY DEF Counted, Happened, Excused, Bounds

LEMMA StillExcused ==
    ASSUME Counted, NEW k \in Events \ {"events"}, Spends(k)
    PROVE  Excused => Excused'
  BY SpentIsSpent DEF Excused, Events

-----------------------------------------------------------------------------
(* One call of receiveSetupPairingToken goes on. *)

Working(a) == a.pc # "idle" /\ ~a.over

Proving == {"persistCall", "persistWait", "ordinaryCall", "ordinaryWait"}

\* Of call i in state a: that it fits the other calls, the credential, the
\* connection, and what the daemon may still do.
FitsOthers(i, a) ==
    /\ a \in Attempt /\ Fits(a) /\ a.pc # "idle"
    /\ Working(a) => InProgress(i) \/ NoneInProgress
    /\ attempt[i].durable => a.durable
    /\ a.over /\ a.pc \in Writing => InProgress(i) \/ (attempt[i].over /\ attempt[i].pc \in Writing)

FitsCredential(i, a) ==
    Working(a) /\ a.pc \in Durables \cup {"set", "verify"} =>
        /\ \A j \in Setups \ {i} : attempt[j].over => attempt[j].pc \notin Writing
        /\ a.pc \in Durables /\ ~a.stopped => stored = "derived"

FitsConnection(a) ==
    Working(a) /\ ~a.stopped /\ a.pc \in Proving =>
        /\ link.token \in {None, "derived"} /\ link.kind # "provisioning"
        /\ link.gen \in DOMAIN conn =>
              conn[link.gen].token = "derived" /\ conn[link.gen].kind # "provisioning"

FitsPrior(a) ==
    /\ Working(a) /\ ~a.durable /\ a.prior = "legacy" => Calm
    /\ a.pc = "putBack" /\ a.prior = "legacy" => Calm
    /\ Working(a) /\ ~a.stopped /\ a.pc \in {"priorCall", "priorWait"} =>
          /\ a.mine = link.gen /\ link.kind = "ordinary" /\ link.step # "token"
          /\ link.step = "identity" => link.token = a.prior
          /\ link.gen \in DOMAIN conn => conn[link.gen].token = a.prior

LEMMA EndedKeeps ==
    ASSUME NEW a \in Attempt, Fits(a)
    PROVE  /\ Ended(a) \in Attempt /\ Fits(Ended(a))
           /\ Ended(a).pc = a.pc /\ Ended(a).over = a.over /\ Ended(a).durable = a.durable
           /\ Working(Ended(a)) <=> Working(a)
           /\ Working(a) => Ended(a) = a
           /\ a.pc = "putBack" => Ended(a) = a
  <1>1. CASE a.over /\ a.pc = "ended"
    <2>1. Ended(a) = [Fresh EXCEPT !.pc = "ended", !.durable = a.durable, !.over = TRUE, !.ok = a.ok]
      BY <1>1 DEF Ended
    <2>2. Ended(a) = [pc |-> "ended", prior |-> None, commit |-> "no", durable |-> a.durable,
                      disturbed |-> FALSE, tries |-> 0, proved |-> FALSE, mine |-> 0,
                      late |-> FALSE, stopped |-> FALSE, rollback |-> "no",
                      over |-> TRUE, ok |-> a.ok]
      BY <2>1 DEF Fresh
    <2>3. Ended(a) \in Attempt
      BY <2>2, BoundsTyped DEF Attempt, Phases, Modes
    <2> QED BY <1>1, <2>2, <2>3 DEF Fits, Working, Durables
  <1>2. CASE ~(a.over /\ a.pc = "ended")
    BY <1>2 DEF Ended, Working
  <1> QED BY <1>1, <1>2

\* The other calls are not touched, and still at most one is in progress.
LEMMA OneCallMoves ==
    ASSUME SetupInv, NEW i \in Setups, NEW a, FitsOthers(i, a),
           attempt' = [attempt EXCEPT ![i] = Ended(a)]
    PROVE  /\ attempt' \in [Setups -> Attempt] /\ AllFit' /\ Alone'
           /\ \A j \in Setups \ {i} : attempt'[j] = attempt[j]
           /\ attempt'[i] = Ended(a)
           /\ \A j \in Setups : attempt[j].durable => attempt'[j].durable
  <1>1. attempt \in [Setups -> Attempt] /\ Alone /\ AllFit
    BY TypeOKParts DEF SetupInv, Types
  <1>2. /\ Ended(a) \in Attempt /\ Fits(Ended(a)) /\ Ended(a).durable = a.durable
        /\ Working(Ended(a)) <=> Working(a)
    BY EndedKeeps DEF FitsOthers
  <1>3. /\ attempt' \in [Setups -> Attempt] /\ attempt'[i] = Ended(a)
        /\ \A j \in Setups \ {i} : attempt'[j] = attempt[j]
    BY <1>1, <1>2
  <1>4. AllFit'
    <2> SUFFICES ASSUME NEW j \in Setups PROVE Fits(attempt'[j])
      BY DEF AllFit, Fits, Fresh, Durables
    <2> QED BY <1>1, <1>2, <1>3 DEF AllFit
  <1>5. \A j \in Setups : InProgress(j)' => IF j = i THEN Working(a) ELSE InProgress(j)
    BY <1>2, <1>3 DEF InProgress, Working
  <1>6. Alone'
    <2> SUFFICES ASSUME NEW j \in Setups, NEW k \in Setups, InProgress(j)', InProgress(k)'
                 PROVE  j = k
      BY DEF Alone
    <2> QED BY <1>1, <1>5 DEF Alone, FitsOthers, NoneInProgress
  <1> QED BY <1>1, <1>2, <1>3, <1>4, <1>6 DEF FitsOthers

LEMMA ExclusiveMoves ==
    ASSUME SetupInv, NEW i \in Setups, NEW a, FitsOthers(i, a),
           attempt' = [attempt EXCEPT ![i] = Ended(a)],
           Working(a) /\ a.pc \in Durables \cup {"set", "verify"} =>
               /\ \A j \in Setups \ {i} : attempt[j].over => attempt[j].pc \notin Writing
               /\ a.pc \in Durables /\ ~a.stopped => stored' = "derived",
           \/ UNCHANGED stored
           \/ \A j \in Setups \ {i} : InProgress(j) => attempt[j].pc \notin Durables
           \/ stored' = "derived"
    PROVE  Exclusive'
  <1>1. /\ \A j \in Setups \ {i} : attempt'[j] = attempt[j]
        /\ attempt'[i] = Ended(a)
    BY OneCallMoves
  <1>2. /\ Ended(a).pc = a.pc /\ Ended(a).over = a.over
        /\ Working(Ended(a)) <=> Working(a)
        /\ Working(a) => Ended(a) = a
    BY EndedKeeps DEF FitsOthers
  <1> SUFFICES ASSUME NEW k \in Setups, InProgress(k)', attempt'[k].pc \in Durables \cup {"set", "verify"}
               PROVE  /\ \A j \in Setups : attempt'[j].over => attempt'[j].pc \notin Writing
                      /\ attempt'[k].pc \in Durables /\ ~attempt'[k].stopped => stored' = "derived"
    BY DEF Exclusive, Durables, Writing
  <1>3. CASE k = i
    <2>1. Working(a) /\ attempt'[i] = a
      BY <1>1, <1>2, <1>3 DEF InProgress, Working
    <2>2. \A j \in Setups : attempt'[j].over => attempt'[j].pc \notin Writing
      BY <1>1, <1>3, <2>1 DEF Working
    <2> QED BY <1>3, <2>1, <2>2
  <1>4. CASE k # i
    <2>1. InProgress(k) /\ attempt'[k] = attempt[k]
      BY <1>1, <1>4 DEF InProgress
    <2>2. \A j \in Setups : attempt[j].over => attempt[j].pc \notin Writing
      BY <2>1 DEF SetupInv, Exclusive
    <2>3. ~InProgress(i)
      BY <2>1, <1>4, TypeOKParts DEF SetupInv, Alone
    <2>4. a.over => a.pc \notin Writing
      BY <2>2, <2>3 DEF FitsOthers
    <2>5. \A j \in Setups : attempt'[j].over => attempt'[j].pc \notin Writing
      BY <1>1, <1>2, <2>2, <2>4
    <2>6. attempt[k].pc \in Durables /\ ~attempt[k].stopped => stored = "derived"
      BY <2>1 DEF SetupInv, Exclusive
    <2> QED BY <1>4, <2>1, <2>5, <2>6
  <1> QED BY <1>3, <1>4

\* Who is named by a persisted connection, a pin() or a receipt is a setup.
LEMMA NamedSetups ==
    ASSUME SetupInv
    PROVE  /\ link.kind = "persisted" => link.setup \in Setups
           /\ \A g \in DOMAIN conn : conn[g].kind # "ordinary" => conn[g].setup \in Setups
           /\ \A n \in 1 .. Len(pins) : pins[n] \in [gen : Nat, mode : Modes \ {None}, setup : Setups \cup {NoSetup}]
           /\ \A n \in 1 .. Len(pins) : pins[n].setup # NoSetup => pins[n].setup \in Setups
           /\ \A j \in committed : j \in Setups
  <1>0. Types /\ Handshakes
    BY TypeOKParts DEF SetupInv
  <1>1. link.kind = "persisted" => link.setup \in Setups
    BY <1>0 DEF Types, Handshakes, Link
  <1>2. ASSUME NEW g \in DOMAIN conn, conn[g].kind # "ordinary"
        PROVE  conn[g].setup \in Setups
    <2>1. conn[g] \in Connection /\ conn[g].setup # NoSetup
      BY <1>0, <1>2 DEF Types, Handshakes
    <2> QED BY <2>1 DEF Connection
  <1>3. \A n \in 1 .. Len(pins) : pins[n] \in [gen : Nat, mode : Modes \ {None}, setup : Setups \cup {NoSetup}]
    <2> DEFINE Pin == [gen : Nat, mode : Modes \ {None}, setup : Setups \cup {NoSetup}]
    <2>1. pins \in Seq(Pin)
      BY <1>0 DEF Types
    <2> HIDE DEF Pin
    <2>2. \A n \in 1 .. Len(pins) : pins[n] \in Pin
      BY <2>1
    <2> QED BY <2>2 DEF Pin
  <1>4. \A n \in 1 .. Len(pins) : pins[n].setup # NoSetup => pins[n].setup \in Setups
    BY <1>3
  <1> QED BY <1>0, <1>1, <1>2, <1>3, <1>4 DEF Types

\* A step of one call that may change the credential, and nothing else.
LEMMA CallWrites ==
    ASSUME SetupInv, NEW i \in Setups, NEW a, FitsOthers(i, a), FitsConnection(a),
           ~Excused => FitsPrior(a) /\ (stored' = "legacy" => Calm),
           stored' \in Modes,
           Working(a) /\ a.pc \in Durables \cup {"set", "verify"} =>
               /\ \A j \in Setups \ {i} : attempt[j].over => attempt[j].pc \notin Writing
               /\ a.pc \in Durables /\ ~a.stopped => stored' = "derived",
           \/ UNCHANGED stored
           \/ \A j \in Setups \ {i} : InProgress(j) => attempt[j].pc \notin Durables
           \/ stored' = "derived",
           attempt' = [attempt EXCEPT ![i] = Ended(a)],
           \/ UNCHANGED setup
           \/ /\ setup' \in Session /\ setup'.id = setup.id
              /\ setup'.completed = setup.completed /\ setup'.committing = setup.committing,
           UNCHANGED <<registryVars, conn, link, history, left>>
    PROVE  SetupInv'
  <1>1. /\ attempt' \in [Setups -> Attempt] /\ AllFit' /\ Alone'
        /\ \A j \in Setups \ {i} : attempt'[j] = attempt[j]
        /\ attempt'[i] = Ended(a)
        /\ \A j \in Setups : attempt[j].durable => attempt'[j].durable
    BY OneCallMoves
  <1>2. /\ Ended(a).pc = a.pc /\ Ended(a).durable = a.durable
        /\ Working(Ended(a)) <=> Working(a)
        /\ Working(a) => Ended(a) = a
        /\ a.pc = "putBack" => Ended(a) = a
    BY EndedKeeps DEF FitsOthers
  <1>3. TypeOK' /\ Counted'
    BY <1>1, TypeOKParts, TypeOKPartsNext, NothingSpent
    DEF SetupInv, Types, Sockets, Live, registryVars, history
  <1>4. Handshakes' /\ Queued'
    BY DEF SetupInv, Handshakes, Queued, registryVars
  <1>5. Registry' /\ Sessions'
    BY DEF SetupInv, Registry, Sessions, registryVars, history, Happened, Bounds
  <1>6. Stored'
    <2> QED BY <1>1, NamedSetups DEF SetupInv, Stored, registryVars, history
  <1>7. Exclusive'
    BY ExclusiveMoves
  <1>8. Proves'
    <2>1. \A j \in Setups : InProgress(j)' => IF j = i THEN Working(a) ELSE InProgress(j)
      BY <1>1, <1>2 DEF InProgress, Working
    <2>2. ASSUME NEW j \in Setups, InProgress(j)', ~attempt'[j].stopped, attempt'[j].pc \in Proving
          PROVE  /\ link'.token \in {None, "derived"} /\ link'.kind # "provisioning"
                 /\ link'.gen \in DOMAIN conn' =>
                       conn'[link'.gen].token = "derived" /\ conn'[link'.gen].kind # "provisioning"
      <3>1. CASE j = i
        BY <1>1, <1>2, <2>1, <2>2, <3>1 DEF FitsConnection
      <3>2. CASE j # i
        BY <1>1, <2>1, <2>2, <3>2 DEF SetupInv, Proves, Proving
      <3> QED BY <3>1, <3>2
    <2> QED BY <2>2 DEF SetupInv, Proves, Proving, registryVars
  <1>9. Kept'
    <2>1. (Excused' <=> Excused) /\ (Calm' <=> Calm)
      BY NothingSpent DEF Calm, registryVars
    <2> SUFFICES ASSUME ~Excused PROVE Kept'
      BY <2>1 DEF Kept
    <2>2. FitsPrior(a) /\ Kept
      BY DEF SetupInv
    <2>3. ASSUME NEW j \in Setups
          PROVE  /\ InProgress(j)' /\ ~attempt'[j].durable /\ attempt'[j].prior = "legacy" => Calm
                 /\ attempt'[j].pc = "putBack" /\ attempt'[j].prior = "legacy" => Calm
                 /\ InProgress(j)' /\ ~attempt'[j].stopped /\ attempt'[j].pc \in {"priorCall", "priorWait"} =>
                       /\ attempt'[j].mine = link.gen /\ link.kind = "ordinary" /\ link.step # "token"
                       /\ link.step = "identity" => link.token = attempt'[j].prior
                       /\ link.gen \in DOMAIN conn => conn[link.gen].token = attempt'[j].prior
      <3>1. CASE j = i
        <4>1. attempt'[j] = Ended(a) /\ (InProgress(j)' <=> Working(a))
          BY <1>1, <1>2, <3>1 DEF InProgress, Working
        <4>2. CASE Working(a) \/ a.pc = "putBack"
          BY <4>1, <4>2, <1>2, <2>2 DEF FitsPrior
        <4>3. CASE ~(Working(a) \/ a.pc = "putBack")
          BY <4>1, <4>3, <1>2
        <4> QED BY <4>2, <4>3
      <3>2. CASE j # i
        BY <1>1, <2>2, <3>2 DEF Kept, InProgress
      <3> QED BY <3>1, <3>2
    <2>4. (stored' = "legacy" => Calm) /\ link' = link /\ conn' = conn
      OBVIOUS
    <2> QED BY <2>1, <2>2, <2>3, <2>4 DEF Kept
  <1> QED BY <1>1, <1>3, <1>4, <1>5, <1>6, <1>7, <1>8, <1>9 DEF SetupInv

\* A step of one call that changes nothing else.
LEMMA CallMoves ==
    ASSUME SetupInv, NEW i \in Setups, NEW a, FitsOthers(i, a),
           FitsCredential(i, a), FitsConnection(a), ~Excused => FitsPrior(a),
           attempt' = [attempt EXCEPT ![i] = Ended(a)],
           UNCHANGED <<registryVars, setup, conn, link, stored, history, left>>
    PROVE  SetupInv'
  <1>1. stored \in Modes /\ (~Excused => (stored = "legacy" => Calm))
    BY TypeOKParts DEF SetupInv, Types, Kept
  <1> QED BY <1>1, CallWrites DEF FitsCredential

LEMMA CallFacts ==
    ASSUME SetupInv, NEW i \in Setups
    PROVE  /\ attempt[i] \in Attempt /\ Fits(attempt[i])
           /\ attempt[i].pc # "idle" => FitsOthers(i, attempt[i])
           /\ FitsCredential(i, attempt[i]) /\ FitsConnection(attempt[i])
           /\ ~Excused => FitsPrior(attempt[i])
  <1>1. attempt[i] \in Attempt /\ Fits(attempt[i])
    BY TypeOKParts DEF SetupInv, Types, AllFit
  <1>2. attempt[i].pc # "idle" => FitsOthers(i, attempt[i])
    BY <1>1 DEF FitsOthers, Working, InProgress
  <1>3. FitsCredential(i, attempt[i])
    BY DEF SetupInv, Exclusive, FitsCredential, Working, InProgress
  <1>4. FitsConnection(attempt[i])
    BY DEF SetupInv, Proves, FitsConnection, Working, InProgress, Proving
  <1>5. ~Excused => FitsPrior(attempt[i])
    BY DEF SetupInv, Kept, FitsPrior, Working, InProgress
  <1> QED BY <1>1, <1>2, <1>3, <1>4, <1>5

LEMMA RollsBackTyped ==
    ASSUME NEW a \in Attempt
    PROVE  /\ RollsBack(a) \in Attempt /\ RollsBack(a).rollback # "no"
           /\ RollsBack(a) = [a EXCEPT !.rollback = RollsBack(a).rollback]
           /\ a.rollback # "no" => RollsBack(a) = a
           /\ a.rollback = "no" => RollsBack(a).rollback =
                 IF a.commit # "no" /\ ~a.durable THEN "waiting" ELSE "connect"
  <1>1. CASE a.rollback # "no"
    BY <1>1 DEF RollsBack, Attempt
  <1>2. CASE a.rollback = "no"
    BY <1>2 DEF RollsBack, Attempt
  <1> QED BY <1>1, <1>2

\* An attempt that fails ends and asks for the rollback.
LEMMA CallThrows ==
    ASSUME SetupInv, NEW i \in Setups, attempt[i].pc \notin {"idle", "set", "ended"},
           Throws(i), UNCHANGED <<conn, link, stored>>
    PROVE  SetupInv'
  <1> DEFINE b == [attempt[i] EXCEPT !.pc = "ended"]
             a == RollsBack(b)
  <1>1. attempt[i] \in Attempt /\ Fits(attempt[i])
    BY CallFacts
  <1>2. /\ b \in Attempt /\ b.pc = "ended" /\ b.prior = attempt[i].prior /\ b.commit = attempt[i].commit
        /\ b.durable = attempt[i].durable /\ b.over = attempt[i].over /\ b.ok = attempt[i].ok
        /\ b.stopped = attempt[i].stopped /\ b.rollback = attempt[i].rollback
    BY <1>1 DEF Attempt, Phases
  <1>3. /\ a \in Attempt /\ a.rollback # "no" /\ a = [b EXCEPT !.rollback = a.rollback]
        /\ b.rollback # "no" => a = b
        /\ b.rollback = "no" => a.rollback = IF b.commit # "no" /\ ~b.durable THEN "waiting" ELSE "connect"
    BY <1>2, RollsBackTyped
  <1> HIDE DEF a, b
  <1>4. /\ a.pc = "ended" /\ a.prior = attempt[i].prior /\ a.commit = attempt[i].commit
        /\ a.durable = attempt[i].durable /\ a.over = attempt[i].over /\ a.ok = attempt[i].ok
        /\ a.stopped = attempt[i].stopped
    BY <1>2, <1>3 DEF Attempt
  <1>5. Fits(a)
    BY <1>1, <1>2, <1>3, <1>4 DEF Fits, Durables
  <1>6. FitsOthers(i, a)
    BY <1>3, <1>4, <1>5 DEF FitsOthers, Working, InProgress, Writing
  <1>7. FitsCredential(i, a) /\ FitsConnection(a)
    BY <1>4 DEF FitsCredential, FitsConnection, Durables, Proving
  <1>8. ~Excused => FitsPrior(a)
    BY <1>4, CallFacts DEF FitsPrior, Working
  <1>9. attempt' = [attempt EXCEPT ![i] = Ended(a)]
    BY DEF Throws, Becomes, a, b
  <1> QED BY <1>6, <1>7, <1>8, <1>9, CallMoves DEF Throws, Becomes

\* The attempt starts, gets its credential refused, and waits for a connection.
LEMMA CallBegins ==
    ASSUME SetupInv, NEW i \in Setups, Start(i)
    PROVE  SetupInv'
  <1> DEFINE a == [Fresh EXCEPT !.pc = "pair", !.prior = stored]
  <1>1. stored \in Modes
    BY TypeOKParts DEF SetupInv, Types
  <1>2. Fresh \in Attempt
    BY BoundsTyped DEF Attempt, Fresh, Phases, Modes
  <1>3. /\ a \in Attempt /\ a.pc = "pair" /\ a.prior = stored /\ a.commit = "no" /\ ~a.durable
        /\ ~a.stopped /\ a.rollback = "no" /\ ~a.over /\ ~a.ok /\ a.tries = 0
    <2>1. a \in Attempt /\ a.pc = "pair" /\ a.prior = stored
      BY <1>1, <1>2 DEF Attempt, Phases
    <2>2. /\ a.commit = Fresh.commit /\ a.durable = Fresh.durable /\ a.stopped = Fresh.stopped
          /\ a.rollback = Fresh.rollback /\ a.over = Fresh.over /\ a.ok = Fresh.ok
          /\ a.tries = Fresh.tries
      BY <1>2 DEF Attempt
    <2> QED BY <2>1, <2>2 DEF Fresh
  <1> HIDE DEF a
  <1>4. Fits(a)
    BY <1>3, BoundsTyped DEF Fits, Durables
  <1>5. FitsOthers(i, a)
    BY <1>3, <1>4, CallFacts DEF FitsOthers, Start, Writing, Fresh, Fits
  <1>6. FitsCredential(i, a) /\ FitsConnection(a)
    BY <1>3 DEF FitsCredential, FitsConnection, Durables, Proving
  <1>7. ~Excused => FitsPrior(a)
    BY <1>3 DEF FitsPrior, SetupInv, Kept
  <1> QED BY <1>5, <1>6, <1>7, CallMoves DEF Start, Becomes, Still, a

LEMMA CallReturnsWell ==
    ASSUME SetupInv, NEW i \in Setups, CallReturns(i)
    PROVE  SetupInv'
  <1>1. attempt[i] \in Attempt /\ Fits(attempt[i]) /\ link.gen \in Nat
    BY CallFacts, TypeOKParts DEF SetupInv, Types, Link
  <1>2. PICK pc \in Waits :
          /\ \/ attempt[i].pc = "provisionCall" /\ pc = "provisionWait"
             \/ attempt[i].pc = "persistCall" /\ pc = "persistWait"
             \/ attempt[i].pc = "ordinaryCall" /\ pc = "ordinaryWait"
             \/ attempt[i].pc = "priorCall" /\ pc = "priorWait"
          /\ Becomes(i, [attempt[i] EXCEPT !.mine = link.gen, !.pc = pc])
    <2>1. attempt[i].pc \in Calls
      BY DEF CallReturns
    <2>2. CASE attempt[i].pc = "provisionCall"
      BY <2>2, <1>1 DEF CallReturns, Waits, Attempt
    <2>3. CASE attempt[i].pc = "persistCall"
      BY <2>3, <1>1 DEF CallReturns, Waits, Attempt
    <2>4. CASE attempt[i].pc = "ordinaryCall"
      BY <2>4, <1>1 DEF CallReturns, Waits, Attempt
    <2>5. CASE attempt[i].pc = "priorCall"
      BY <2>5, <1>1 DEF CallReturns, Waits, Attempt
    <2> QED BY <2>1, <2>2, <2>3, <2>4, <2>5 DEF Calls
  <1> DEFINE a == [attempt[i] EXCEPT !.mine = link.gen, !.pc = pc]
  <1>3. /\ a \in Attempt /\ a.pc = pc /\ a.mine = link.gen /\ a.prior = attempt[i].prior
        /\ a.commit = attempt[i].commit /\ a.durable = attempt[i].durable
        /\ a.over = attempt[i].over /\ a.ok = attempt[i].ok /\ a.stopped = attempt[i].stopped
        /\ a.rollback = attempt[i].rollback /\ a.tries = attempt[i].tries
    BY <1>1, <1>2 DEF Attempt, Phases
  <1>4. attempt' = [attempt EXCEPT ![i] = Ended(a)]
    BY <1>2 DEF Becomes
  <1> HIDE DEF a
  <1>5. Fits(a)
    BY <1>1, <1>2, <1>3 DEF Fits, Durables, Waits
  <1>6. FitsOthers(i, a)
    BY <1>2, <1>3, <1>5 DEF FitsOthers, Working, InProgress, Writing
  <1>7. FitsCredential(i, a) /\ FitsConnection(a)
    BY <1>2, <1>3, CallFacts DEF FitsCredential, FitsConnection, Durables, Proving, Working
  <1>8. ~Excused => FitsPrior(a)
    BY <1>2, <1>3, CallFacts DEF FitsPrior, Working
  <1> QED BY <1>2, <1>4, <1>6, <1>7, <1>8, CallMoves DEF CallReturns, Becomes, Still

\* A call that goes on with nothing but a new pc.
LEMMA CallGoes ==
    ASSUME SetupInv, NEW i \in Setups, NEW pc \in Phases, Goes(i, pc),
           UNCHANGED <<conn, link, stored>>,
           \/ attempt[i].pc = "provisionWait" /\ pc = "check" /\ ~attempt[i].stopped
           \/ attempt[i].pc \in {"persist", "ordinary"} /\ pc = "last"
           \/ attempt[i].pc = "persistWait" /\ pc = "ordinary"
           \/ /\ attempt[i].pc = "priorWait" /\ pc = "putBack" /\ ~attempt[i].stopped
              /\ ~Excused /\ attempt[i].prior = "legacy" => Calm
    PROVE  SetupInv'
  <1> DEFINE a == [attempt[i] EXCEPT !.pc = pc]
  <1>1. attempt[i] \in Attempt /\ Fits(attempt[i])
    BY CallFacts
  <1>2. /\ a \in Attempt /\ a.pc = pc /\ a.mine = attempt[i].mine /\ a.prior = attempt[i].prior
        /\ a.commit = attempt[i].commit /\ a.durable = attempt[i].durable
        /\ a.over = attempt[i].over /\ a.ok = attempt[i].ok /\ a.stopped = attempt[i].stopped
        /\ a.rollback = attempt[i].rollback /\ a.tries = attempt[i].tries
    BY <1>1 DEF Attempt
  <1>3. attempt' = [attempt EXCEPT ![i] = Ended(a)]
    BY DEF Goes, Becomes
  <1> HIDE DEF a
  <1>4. Fits(a)
    BY <1>1, <1>2 DEF Fits, Durables
  <1>5. FitsOthers(i, a)
    BY <1>1, <1>2, <1>4 DEF FitsOthers, Working, InProgress, Writing, Fits
  <1>6. FitsCredential(i, a) /\ FitsConnection(a)
    BY <1>2, CallFacts DEF FitsCredential, FitsConnection, Durables, Proving, Working
  <1>7. ~Excused => FitsPrior(a)
    BY <1>1, <1>2, CallFacts DEF FitsPrior, Working, Fits, Durables
  <1> QED BY <1>3, <1>5, <1>6, <1>7, CallMoves DEF Goes, Becomes

LEMMA CallChecks ==
    ASSUME SetupInv, NEW i \in Setups, Check(i)
    PROVE  SetupInv'
  <1>1. attempt[i] \in Attempt /\ Fits(attempt[i]) /\ attempt[i].pc = "check"
    BY CallFacts DEF Check
  <1>2. CASE Throws(i)
    BY <1>1, <1>2, CallThrows DEF Check, Still
  <1>3. CASE Becomes(i, [attempt[i] EXCEPT !.pc = "set", !.commit = "pending"])
    <2> DEFINE a == [attempt[i] EXCEPT !.pc = "set", !.commit = "pending"]
    <2>1. /\ a \in Attempt /\ a.pc = "set" /\ a.prior = attempt[i].prior
          /\ a.commit = "pending" /\ a.durable = attempt[i].durable
          /\ a.over = attempt[i].over /\ a.ok = attempt[i].ok /\ a.stopped = attempt[i].stopped
          /\ a.rollback = attempt[i].rollback /\ a.tries = attempt[i].tries
      BY <1>1 DEF Attempt, Phases
    <2>2. attempt' = [attempt EXCEPT ![i] = Ended(a)]
      BY <1>3 DEF Becomes
    <2> HIDE DEF a
    <2>3. Fits(a)
      BY <1>1, <2>1 DEF Fits, Durables
    <2>4. FitsOthers(i, a)
      BY <1>1, <2>1, <2>3 DEF FitsOthers, Working, InProgress, Writing, Fits
    <2>5. FitsCredential(i, a) /\ FitsConnection(a)
      BY <2>1 DEF FitsCredential, FitsConnection, Durables, Proving, Working, Check,
                  StorageInOrder, Writing
    <2>6. ~Excused => FitsPrior(a)
      BY <1>1, <2>1, CallFacts DEF FitsPrior, Working
    <2> QED BY <1>3, <2>2, <2>4, <2>5, <2>6, CallMoves DEF Check, Becomes, Still
  <1> QED BY <1>2, <1>3 DEF Check

LEMMA CallVerifies ==
    ASSUME SetupInv, NEW i \in Setups, Verify(i)
    PROVE  SetupInv'
  <1>1. attempt[i] \in Attempt /\ Fits(attempt[i]) /\ attempt[i].pc = "verify"
    BY CallFacts DEF Verify
  <1>2. CASE attempt[i].stopped \/ stored # "derived"
    BY <1>1, <1>2, CallThrows DEF Verify, Still
  <1>3. CASE ~(attempt[i].stopped \/ stored # "derived")
    <2> DEFINE a == [attempt[i] EXCEPT !.pc = "persist", !.durable = TRUE]
    <2>1. /\ a \in Attempt /\ a.pc = "persist" /\ a.prior = attempt[i].prior
          /\ a.commit = attempt[i].commit /\ a.durable = TRUE
          /\ a.over = attempt[i].over /\ a.ok = attempt[i].ok /\ a.stopped = attempt[i].stopped
          /\ a.rollback = attempt[i].rollback /\ a.tries = attempt[i].tries
      BY <1>1 DEF Attempt, Phases
    <2>2. attempt' = [attempt EXCEPT ![i] = Ended(a)]
      BY <1>3 DEF Becomes, Verify
    <2> HIDE DEF a
    <2>3. Fits(a)
      BY <1>1, <1>3, <2>1 DEF Fits, Durables
    <2>4. FitsOthers(i, a)
      BY <1>1, <2>1, <2>3 DEF FitsOthers, Working, InProgress, Writing, Fits
    <2>5. FitsCredential(i, a) /\ FitsConnection(a)
      BY <1>1, <1>3, <2>1, CallFacts DEF FitsCredential, FitsConnection, Durables, Proving, Working
    <2>6. ~Excused => FitsPrior(a)
      BY <1>1, <2>1, CallFacts DEF FitsPrior, Working
    <2> QED BY <1>3, <2>2, <2>4, <2>5, <2>6, CallMoves DEF Verify, Becomes, Still
  <1> QED BY <1>2, <1>3

LEMMA CallFailsToStore ==
    ASSUME SetupInv, NEW i \in Setups, StoreFails(i)
    PROVE  SetupInv'
  <1> DEFINE b == [attempt[i] EXCEPT !.pc = "ended", !.commit = "failed"]
             a == RollsBack(b)
  <1>1. attempt[i] \in Attempt /\ Fits(attempt[i]) /\ attempt[i].pc = "set"
    BY CallFacts DEF StoreFails
  <1>2. /\ b \in Attempt /\ b.pc = "ended" /\ b.prior = attempt[i].prior /\ b.commit = "failed"
        /\ b.durable = attempt[i].durable /\ b.over = attempt[i].over /\ b.ok = attempt[i].ok
        /\ b.stopped = attempt[i].stopped /\ b.rollback = attempt[i].rollback
    BY <1>1 DEF Attempt, Phases
  <1>3. /\ a \in Attempt /\ a.rollback # "no" /\ a = [b EXCEPT !.rollback = a.rollback]
        /\ b.rollback # "no" => a = b
        /\ b.rollback = "no" => a.rollback = IF b.commit # "no" /\ ~b.durable THEN "waiting" ELSE "connect"
    BY <1>2, RollsBackTyped
  <1> HIDE DEF a, b
  <1>4. /\ a.pc = "ended" /\ a.prior = attempt[i].prior /\ a.commit = "failed"
        /\ a.durable = attempt[i].durable /\ a.over = attempt[i].over /\ a.ok = attempt[i].ok
        /\ a.stopped = attempt[i].stopped
    BY <1>2, <1>3 DEF Attempt
  <1>5. Fits(a)
    BY <1>1, <1>2, <1>3, <1>4 DEF Fits, Durables
  <1>6. FitsOthers(i, a)
    BY <1>1, <1>3, <1>4, <1>5 DEF FitsOthers, Working, InProgress, Writing
  <1>7. FitsCredential(i, a) /\ FitsConnection(a)
    BY <1>4 DEF FitsCredential, FitsConnection, Durables, Proving
  <1>8. ~Excused => FitsPrior(a)
    BY <1>4, <1>1, CallFacts DEF FitsPrior, Working
  <1>9. attempt' = [attempt EXCEPT ![i] = Ended(a)]
    BY DEF StoreFails, Becomes, a, b
  <1> QED BY <1>6, <1>7, <1>8, <1>9, CallMoves DEF StoreFails, Becomes, Still

LEMMA CallTimesOut ==
    ASSUME SetupInv, NEW i \in Setups, Timeout(i)
    PROVE  SetupInv'
  <1> DEFINE b == [attempt[i] EXCEPT !.stopped = TRUE]
             a == RollsBack(b)
  <1>1. attempt[i] \in Attempt /\ Fits(attempt[i]) /\ InProgress(i)
    BY CallFacts DEF Timeout
  <1>2. /\ b \in Attempt /\ b.pc = attempt[i].pc /\ b.prior = attempt[i].prior /\ b.commit = attempt[i].commit
        /\ b.durable = attempt[i].durable /\ b.over = attempt[i].over /\ b.ok = attempt[i].ok
        /\ b.stopped = TRUE /\ b.rollback = attempt[i].rollback /\ b.tries = attempt[i].tries
    BY <1>1 DEF Attempt, Phases
  <1>3. /\ a \in Attempt /\ a.rollback # "no" /\ a = [b EXCEPT !.rollback = a.rollback]
        /\ b.rollback # "no" => a = b
        /\ b.rollback = "no" => a.rollback = IF b.commit # "no" /\ ~b.durable THEN "waiting" ELSE "connect"
    BY <1>2, RollsBackTyped
  <1> HIDE DEF a, b
  <1>4. /\ a.pc = attempt[i].pc /\ a.prior = attempt[i].prior /\ a.commit = attempt[i].commit
        /\ a.durable = attempt[i].durable /\ a.over = attempt[i].over /\ a.ok = attempt[i].ok
        /\ a.stopped = TRUE /\ a.tries = attempt[i].tries
    BY <1>2, <1>3 DEF Attempt
  <1>5. Fits(a)
    BY <1>1, <1>2, <1>3, <1>4 DEF Fits, Durables, InProgress
  <1>6. FitsOthers(i, a)
    BY <1>1, <1>3, <1>4, <1>5 DEF FitsOthers, Working, InProgress, Writing
  <1>7. FitsCredential(i, a) /\ FitsConnection(a)
    BY <1>1, <1>4, CallFacts DEF FitsCredential, FitsConnection, Durables, Proving, Working
  <1>8. ~Excused => FitsPrior(a)
    BY <1>4, <1>1, CallFacts DEF FitsPrior, Working
  <1>9. attempt' = [attempt EXCEPT ![i] = Ended(a)]
    BY DEF Timeout, Becomes, a, b
  <1> QED BY <1>6, <1>7, <1>8, <1>9, CallMoves DEF Timeout, Becomes, Still

LEMMA CallIsLate ==
    ASSUME SetupInv, NEW i \in Setups, Elapse(i)
    PROVE  SetupInv'
  <1> DEFINE a == [attempt[i] EXCEPT !.late = TRUE]
  <1>1. attempt[i] \in Attempt /\ Fits(attempt[i]) /\ InProgress(i)
    BY CallFacts DEF Elapse
  <1>2. /\ a \in Attempt /\ a.pc = attempt[i].pc /\ a.prior = attempt[i].prior /\ a.commit = attempt[i].commit
        /\ a.durable = attempt[i].durable /\ a.over = attempt[i].over /\ a.ok = attempt[i].ok
        /\ a.stopped = attempt[i].stopped /\ a.rollback = attempt[i].rollback
        /\ a.tries = attempt[i].tries /\ a.mine = attempt[i].mine
    BY <1>1 DEF Attempt, Phases
  <1>3. attempt' = [attempt EXCEPT ![i] = Ended(a)]
    BY DEF Elapse, Becomes
  <1> HIDE DEF a
  <1>5. Fits(a)
    BY <1>1, <1>2 DEF Fits, Durables, InProgress
  <1>6. FitsOthers(i, a)
    BY <1>1, <1>2, <1>5 DEF FitsOthers, Working, InProgress, Writing
  <1>7. FitsCredential(i, a) /\ FitsConnection(a)
    BY <1>1, <1>2, CallFacts DEF FitsCredential, FitsConnection, Durables, Proving, Working
  <1>8. ~Excused => FitsPrior(a)
    BY <1>2, <1>1, CallFacts DEF FitsPrior, Working
  <1> QED BY <1>3, <1>6, <1>7, <1>8, CallMoves DEF Elapse, Becomes, Still

\* Whoever was authenticated has the acknowledged socket of the present connect().
LEMMA AuthenticatedSocket ==
    ASSUME SetupInv, NEW i \in Setups, Authenticated(i)
    PROVE  /\ link.open /\ link.gen \in DOMAIN conn /\ conn[link.gen] \in Connection
           /\ conn[link.gen].at = "acked" /\ conn[link.gen].mode = conn[link.gen].token
  <1>1. Types /\ Sockets /\ Handshakes
    BY TypeOKParts DEF SetupInv
  <1> QED BY <1>1 DEF Authenticated, Types, Sockets, Handshakes

LEMMA CallProvisioned ==
    ASSUME SetupInv, NEW i \in Setups, ProvisionWaited(i)
    PROVE  SetupInv'
  <1>1. CASE Throws(i)
    BY <1>1, CallThrows DEF ProvisionWaited, Still
  <1>2. CASE Authenticated(i) /\ Goes(i, "check")
    BY <1>2, CallGoes DEF ProvisionWaited, Still, Authenticated, Phases
  <1> QED BY <1>1, <1>2 DEF ProvisionWaited

LEMMA CallOutOfTime ==
    ASSUME SetupInv, NEW i \in Setups, OutOfTime(i)
    PROVE  SetupInv'
  BY CallGoes DEF OutOfTime, Still, Phases

LEMMA CallProvesPrior ==
    ASSUME SetupInv, NEW i \in Setups, PriorWaited(i)
    PROVE  SetupInv'
  <1>1. CASE Throws(i)
    BY <1>1, CallThrows DEF PriorWaited, Still
  <1>2. CASE Authenticated(i) /\ Goes(i, "putBack")
    <2>1. attempt[i].pc = "priorWait" /\ ~attempt[i].stopped /\ Fits(attempt[i])
      BY <1>2, CallFacts DEF PriorWaited, Authenticated
    <2>2. InProgress(i)
      BY <2>1 DEF InProgress, Fits
    <2>3. ~Excused /\ attempt[i].prior = "legacy" => Calm
      BY <1>2, <2>1, <2>2, AuthenticatedSocket DEF SetupInv, Kept
    <2> QED BY <1>2, <2>1, <2>3, CallGoes DEF PriorWaited, Still, Phases
  <1> QED BY <1>1, <1>2 DEF PriorWaited

LEMMA CallPersisted ==
    ASSUME SetupInv, NEW i \in Setups, PersistWaited(i)
    PROVE  SetupInv'
  <1>1. attempt[i] \in Attempt /\ Fits(attempt[i]) /\ attempt[i].pc = "persistWait"
    BY CallFacts DEF PersistWaited
  <1>2. CASE Goes(i, "ordinary")
    BY <1>1, <1>2, CallGoes DEF PersistWaited, Still, Phases
  <1>3. CASE Authenticated(i) /\ Becomes(i, [attempt[i] EXCEPT !.pc = "ended", !.over = TRUE, !.ok = TRUE])
    <2> DEFINE a == [attempt[i] EXCEPT !.pc = "ended", !.over = TRUE, !.ok = TRUE]
    <2>1. /\ a \in Attempt /\ a.pc = "ended" /\ a.prior = attempt[i].prior
          /\ a.commit = attempt[i].commit /\ a.durable = attempt[i].durable
          /\ a.over = TRUE /\ a.ok = TRUE /\ a.stopped = attempt[i].stopped
          /\ a.rollback = attempt[i].rollback /\ a.tries = attempt[i].tries
      BY <1>1 DEF Attempt, Phases
    <2>2. attempt' = [attempt EXCEPT ![i] = Ended(a)]
      BY <1>3 DEF Becomes
    <2> HIDE DEF a
    <2>3. Fits(a)
      BY <1>1, <1>3, <2>1 DEF Fits, Durables, Authenticated
    <2>4. FitsOthers(i, a)
      BY <1>1, <2>1, <2>3 DEF FitsOthers, Working, InProgress, Writing, Fits
    <2>5. FitsCredential(i, a) /\ FitsConnection(a) /\ FitsPrior(a)
      BY <2>1 DEF FitsCredential, FitsConnection, FitsPrior, Working
    <2> QED BY <1>3, <2>2, <2>4, <2>5, CallMoves DEF PersistWaited, Becomes, Still
  <1> QED BY <1>2, <1>3 DEF PersistWaited

LEMMA CallTried ==
    ASSUME SetupInv, NEW i \in Setups, OrdinaryWaited(i)
    PROVE  SetupInv'
  <1>1. attempt[i] \in Attempt /\ Fits(attempt[i]) /\ attempt[i].pc = "ordinaryWait"
    BY CallFacts DEF OrdinaryWaited
  <1>2. PICK proved \in BOOLEAN :
          Becomes(i, [attempt[i] EXCEPT !.tries = attempt[i].tries + 1,
                                        !.proved = attempt[i].proved \/ proved,
                                        !.pc = IF attempt[i].tries + 1 = MaxTries THEN "last" ELSE "persist"])
    BY <1>1 DEF OrdinaryWaited
  <1> DEFINE a == [attempt[i] EXCEPT !.tries = attempt[i].tries + 1,
                                     !.proved = attempt[i].proved \/ proved,
                                     !.pc = IF attempt[i].tries + 1 = MaxTries THEN "last" ELSE "persist"]
  <1>3. attempt[i].tries + 1 \in 0 .. MaxTries /\ (attempt[i].proved \/ proved) \in BOOLEAN
    BY <1>1, BoundsTyped DEF Attempt, Fits
  <1>4. /\ a \in Attempt /\ a.prior = attempt[i].prior
        /\ a.commit = attempt[i].commit /\ a.durable = attempt[i].durable
        /\ a.over = attempt[i].over /\ a.ok = attempt[i].ok /\ a.stopped = attempt[i].stopped
        /\ a.rollback = attempt[i].rollback /\ a.tries = attempt[i].tries + 1
        /\ a.pc = IF a.tries = MaxTries THEN "last" ELSE "persist"
    BY <1>1, <1>3 DEF Attempt, Phases
  <1>5. attempt' = [attempt EXCEPT ![i] = Ended(a)]
    BY <1>2 DEF Becomes
  <1> HIDE DEF a
  <1>6. Fits(a)
    BY <1>1, <1>3, <1>4, BoundsTyped DEF Fits, Durables
  <1>7. FitsOthers(i, a)
    BY <1>1, <1>4, <1>6 DEF FitsOthers, Working, InProgress, Writing, Fits
  <1>8. FitsCredential(i, a) /\ FitsConnection(a)
    BY <1>1, <1>4, CallFacts DEF FitsCredential, FitsConnection, Durables, Proving, Working
  <1>9. ~Excused => FitsPrior(a)
    BY <1>1, <1>4, CallFacts DEF FitsPrior, Working
  <1> QED BY <1>2, <1>5, <1>7, <1>8, <1>9, CallMoves DEF OrdinaryWaited, Becomes, Still

\* The steps of a call that change neither the credential nor the connection.
LEMMA CallSteps ==
    ASSUME SetupInv, NEW i \in Setups,
           \/ Start(i) \/ PairFails(i) \/ CallReturns(i) \/ ProvisionWaited(i) \/ Check(i)
           \/ StoreFails(i) \/ Verify(i) \/ OutOfTime(i) \/ PersistWaited(i)
           \/ OrdinaryWaited(i) \/ GiveUp(i) \/ PriorWaited(i) \/ Elapse(i) \/ Timeout(i)
    PROVE  SetupInv'
  <1>1. CASE PairFails(i)
    BY <1>1, CallThrows DEF PairFails, Still
  <1>2. CASE GiveUp(i)
    BY <1>2, CallThrows DEF GiveUp, Still
  <1> QED BY <1>1, <1>2, CallBegins, CallReturnsWell, CallProvisioned, CallChecks, CallFailsToStore,
             CallVerifies, CallOutOfTime, CallPersisted, CallTried, CallProvesPrior,
             CallIsLate, CallTimesOut

-----------------------------------------------------------------------------
(* connect(): the extension gives up its socket and opens another. *)

Sent == {"signed", "pinning"}

\* Only what was sent on a socket stays of it.
LEMMA SocketGivenUp ==
    ASSUME SetupInv, conn' = Abandoned
    PROVE  /\ conn' \in [DOMAIN conn' -> Connection] /\ DOMAIN conn' \subseteq DOMAIN conn
           /\ \A g \in DOMAIN conn' : conn'[g] = conn[g] /\ conn[g].at \in Sent
           /\ \A g \in DOMAIN conn : conn[g].at \in Sent => g \in DOMAIN conn'
  <1>1. conn \in [DOMAIN conn -> Connection] /\ Sockets
    BY TypeOKParts DEF SetupInv, Types
  <1>2. \A g \in DOMAIN conn : g # link.gen => conn[g].at \in Sent
    BY <1>1 DEF Sockets, Live, Sent
  <1>3. CASE link.gen \in DOMAIN conn /\ conn[link.gen].at \notin Sent
    <2>1. conn' = [x \in DOMAIN conn \ {link.gen} |-> conn[x]]
      BY <1>3 DEF Abandoned, Without, Sent
    <2>2. DOMAIN conn' = DOMAIN conn \ {link.gen} /\ \A g \in DOMAIN conn' : conn'[g] = conn[g]
      BY <2>1
    <2>3. \A g \in DOMAIN conn' : conn[g] \in Connection
      BY <1>1, <2>2
    <2>4. conn' \in [DOMAIN conn' -> Connection]
      BY <2>1, <2>2, <2>3
    <2> QED BY <1>2, <1>3, <2>2, <2>4
  <1>4. CASE ~(link.gen \in DOMAIN conn /\ conn[link.gen].at \notin Sent)
    <2>1. conn' = conn
      BY <1>4 DEF Abandoned, Sent
    <2> QED BY <1>1, <1>2, <1>4, <2>1
  <1> QED BY <1>3, <1>4

Connectable(kind, token, s) ==
    /\ kind \in Kinds /\ token \in Modes
    /\ kind = "ordinary" => s = NoSetup
    /\ kind # "ordinary" => token = "derived" /\ s \in Setups

LEMMA ConnectsLink ==
    ASSUME SetupInv, NEW kind, NEW token, NEW s, Connectable(kind, token, s),
           Connects(kind, token, s)
    PROVE  /\ link' \in Link /\ link'.gen = link.gen + 1 /\ link'.gen \in Nat
           /\ link'.kind = kind /\ link'.token = token
           /\ link'.step = (IF token = None THEN "token" ELSE "identity")
           /\ link'.setup = s /\ ~link'.open /\ link'.phase # "connected"
           /\ \A g \in DOMAIN conn : g \in Nat /\ g <= link.gen
           /\ link'.gen \notin DOMAIN conn /\ link'.gen \notin DOMAIN conn'
  <1>1. link \in Link /\ Handshakes
    BY TypeOKParts DEF SetupInv, Types
  <1>2. \A g \in DOMAIN conn : g \in Nat /\ g <= link.gen
    BY <1>1 DEF Handshakes, Link
  <1>3. DOMAIN conn' \subseteq DOMAIN conn
    BY SocketGivenUp DEF Connects
  <1>4. link.gen + 1 \in Nat \ {0} /\ link.gen + 1 \notin DOMAIN conn
    BY <1>1, <1>2 DEF Link
  <1>5. link' \in Link
    BY <1>1, <1>4 DEF Connects, Connectable, Link
  <1> QED BY <1>2, <1>3, <1>4, <1>5 DEF Connects, Connectable

LEMMA ConnectsParts ==
    ASSUME SetupInv, NEW kind, NEW token, NEW s, Connectable(kind, token, s),
           Connects(kind, token, s), UNCHANGED <<registryVars, setup, history>>,
           Happened("late") => Happened("late")'
    PROVE  /\ Sockets' /\ Handshakes' /\ Queued' /\ Registry' /\ Sessions'
           /\ Calm /\ kind # "persisted" => Calm'
  <1>1. /\ DOMAIN conn' \subseteq DOMAIN conn
        /\ \A g \in DOMAIN conn' : conn'[g] = conn[g] /\ conn[g].at \in Sent
        /\ \A g \in DOMAIN conn : conn[g].at \in Sent => g \in DOMAIN conn'
    BY SocketGivenUp DEF Connects
  <1>2. /\ link' \in Link /\ link'.gen = link.gen + 1 /\ link'.kind = kind /\ link'.token = token
        /\ link'.step = (IF token = None THEN "token" ELSE "identity")
        /\ link'.setup = s /\ ~link'.open /\ link'.phase # "connected"
        /\ \A g \in DOMAIN conn : g \in Nat /\ g <= link.gen
        /\ link'.gen \notin DOMAIN conn'
    BY ConnectsLink
  <1>3. Sockets'
    BY <1>1, <1>2 DEF Sockets, Live, Sent
  <1>4. Handshakes'
    <2>1. DOMAIN conn' \subseteq 1 .. link'.gen
      <3>1. DOMAIN conn \subseteq 1 .. link.gen /\ link.gen \in Nat
        BY TypeOKParts DEF SetupInv, Handshakes, Types, Link
      <3> QED BY <3>1, <1>1, <1>2
    <2>2. /\ link'.step # "done" => link'.gen \notin DOMAIN conn' /\ ~link'.open
          /\ link'.step = "identity" => link'.token # None
          /\ link'.kind # "ordinary" => link'.step = "identity" /\ link'.token = "derived" /\ link'.setup # NoSetup
          /\ link'.kind = "ordinary" => link'.setup = NoSetup
          /\ link'.phase = "connected" => link'.open /\ conn'[link'.gen].at = "acked"
      BY <1>2 DEF Connectable, Setups, NoSetup, None
    <2>3. \A g \in DOMAIN conn :
             /\ conn[g].kind # "ordinary" => conn[g].token = "derived" /\ conn[g].setup # NoSetup
             /\ conn[g].kind = "ordinary" => conn[g].setup = NoSetup
             /\ conn[g].at \in {"signed", "pinning", "acked"} => conn[g].mode = conn[g].token
             /\ conn[g].at # "hello" /\ conn[g].kind # "ordinary" => conn[g].mode = "derived"
             /\ conn[g].at = "pinning" => conn[g].kind # "provisioning"
      BY DEF SetupInv, Handshakes
    <2> QED BY <1>1, <2>1, <2>2, <2>3 DEF Handshakes
  <1>5. Queued'
    BY <1>1 DEF SetupInv, Queued, Sent, registryVars
  <1>6. Registry'
    <2>1. /\ registry' = registry /\ disk' = disk /\ saving' = saving /\ pins' = pins
      BY DEF registryVars
    <2>2. \A g \in DOMAIN conn' : g \in DOMAIN conn /\ conn'[g] = conn[g]
      BY <1>1
    <2> QED BY <2>1, <2>2 DEF SetupInv, Registry
  <1>7. Sessions'
    BY DEF SetupInv, Sessions, registryVars, history
  <1>8. Calm /\ kind # "persisted" => Calm'
    BY <1>1, <1>2 DEF Calm, registryVars
  <1> QED BY <1>3, <1>4, <1>5, <1>6, <1>7, <1>8

\* What was persisted stays proved as stored.
LEMMA ConnectsStored ==
    ASSUME SetupInv, NEW kind, NEW token, NEW s, Connectable(kind, token, s),
           Connects(kind, token, s), UNCHANGED <<registryVars, history>>,
           \A j \in Setups : attempt[j].durable => attempt'[j].durable,
           kind = "persisted" => attempt[s].durable
    PROVE  Stored'
  <1>1. /\ DOMAIN conn' \subseteq DOMAIN conn /\ \A g \in DOMAIN conn' : conn'[g] = conn[g]
        /\ link'.kind = kind /\ link'.setup = s
    BY SocketGivenUp, ConnectsLink DEF Connects
  <1>2. kind = "persisted" => s \in Setups
    BY DEF Connectable
  <1> QED BY <1>1, <1>2, NamedSetups DEF SetupInv, Stored, registryVars, history

\* A step of one call that connects; no other call is in progress then.
LEMMA CallConnects ==
    ASSUME SetupInv, NEW i \in Setups, NEW a, FitsOthers(i, a),
           attempt' = [attempt EXCEPT ![i] = Ended(a)],
           NEW kind, NEW token, NEW s, Connectable(kind, token, s), Connects(kind, token, s),
           UNCHANGED <<registryVars, setup, history, left>>, stored' \in Modes,
           \A j \in Setups \ {i} : ~InProgress(j),
           Working(a) /\ a.pc \in Durables \cup {"set", "verify"} =>
               /\ \A j \in Setups \ {i} : attempt[j].over => attempt[j].pc \notin Writing
               /\ a.pc \in Durables /\ ~a.stopped => stored' = "derived",
           Working(a) /\ ~a.stopped /\ a.pc \in Proving =>
               token \in {None, "derived"} /\ kind # "provisioning",
           kind = "persisted" => attempt[s].durable,
           ~Excused =>
               /\ stored' = "legacy" => Calm
               /\ Working(a) /\ ~a.durable /\ a.prior = "legacy" => Calm
               /\ a.pc = "putBack" /\ a.prior = "legacy" => Calm
               /\ Working(a) /\ ~a.stopped /\ a.pc \in {"priorCall", "priorWait"} =>
                     a.mine = link.gen + 1 /\ kind = "ordinary" /\ token = a.prior /\ token # None
               /\ kind = "persisted" =>
                     /\ stored' = "derived" /\ a.durable /\ a.pc # "putBack"
                     /\ \A j \in Setups \ {i} : attempt[j].pc # "putBack"
    PROVE  SetupInv'
  <1>1. /\ attempt' \in [Setups -> Attempt] /\ AllFit' /\ Alone'
        /\ \A j \in Setups \ {i} : attempt'[j] = attempt[j]
        /\ attempt'[i] = Ended(a)
        /\ \A j \in Setups : attempt[j].durable => attempt'[j].durable
    BY OneCallMoves
  <1>2. /\ Ended(a).pc = a.pc /\ Ended(a).durable = a.durable
        /\ Working(Ended(a)) <=> Working(a)
        /\ Working(a) => Ended(a) = a
        /\ a.pc = "putBack" => Ended(a) = a
    BY EndedKeeps DEF FitsOthers
  <1>3. /\ DOMAIN conn' \subseteq DOMAIN conn /\ conn' \in [DOMAIN conn' -> Connection]
        /\ \A g \in DOMAIN conn' : conn'[g] = conn[g] /\ conn[g].at \in Sent
    BY SocketGivenUp DEF Connects
  <1>4. /\ link' \in Link /\ link'.gen = link.gen + 1 /\ link'.kind = kind /\ link'.token = token
        /\ link'.step = (IF token = None THEN "token" ELSE "identity")
        /\ link'.gen \notin DOMAIN conn'
    BY ConnectsLink
  <1>5. /\ Sockets' /\ Handshakes' /\ Queued' /\ Registry' /\ Sessions'
        /\ Calm /\ kind # "persisted" => Calm'
    BY ConnectsParts DEF Happened, Bounds
  <1>6. Stored'
    BY <1>1, ConnectsStored
  <1>7. TypeOK' /\ Counted'
    BY <1>1, <1>3, <1>4, <1>5, TypeOKParts, TypeOKPartsNext, NothingSpent
    DEF SetupInv, Types, registryVars, history
  <1>8. Exclusive'
    BY ExclusiveMoves
  <1>9. \A j \in Setups : InProgress(j)' => j = i /\ Working(a) /\ attempt'[j] = a
    BY <1>1, <1>2 DEF InProgress, Working
  <1>10. Proves'
    <2>1. ASSUME NEW j \in Setups, InProgress(j)', ~attempt'[j].stopped, attempt'[j].pc \in Proving
          PROVE  link'.token \in {None, "derived"} /\ link'.kind # "provisioning"
      BY <1>9, <1>4, <2>1
    <2> QED BY <1>3, <1>4, <2>1 DEF Proves, Proving, Sent
  <1>11. Kept'
    <2>1. Excused' <=> Excused
      BY NothingSpent
    <2> SUFFICES ASSUME ~Excused PROVE Kept'
      BY <2>1 DEF Kept
    <2>2. stored' = "legacy" => Calm'
      BY <1>5
    <2>3. ASSUME NEW j \in Setups, attempt'[j].pc = "putBack", attempt'[j].prior = "legacy"
          PROVE  Calm'
      <3>1. CASE j = i
        BY <1>1, <1>2, <1>5, <2>3, <3>1
      <3>2. CASE j # i
        BY <1>1, <1>5, <2>3, <3>2 DEF SetupInv, Kept
      <3> QED BY <3>1, <3>2
    <2>4. ASSUME NEW j \in Setups, InProgress(j)'
          PROVE  /\ ~attempt'[j].durable /\ attempt'[j].prior = "legacy" => Calm'
                 /\ ~attempt'[j].stopped /\ attempt'[j].pc \in {"priorCall", "priorWait"} =>
                       /\ attempt'[j].mine = link'.gen /\ link'.kind = "ordinary" /\ link'.step # "token"
                       /\ link'.step = "identity" => link'.token = attempt'[j].prior
                       /\ link'.gen \in DOMAIN conn' => conn'[link'.gen].token = attempt'[j].prior
      BY <1>4, <1>5, <1>9, <2>4
    <2> QED BY <1>3, <2>2, <2>3, <2>4 DEF Kept, Sent
  <1> QED BY <1>1, <1>5, <1>6, <1>7, <1>8, <1>10, <1>11 DEF SetupInv

\* connect() for the call itself: `a` is what the call becomes.
LEMMA CallTries ==
    ASSUME SetupInv, NEW i \in Setups, NEW kind \in Kinds, NEW token \in Modes, NEW pc \in Calls,
           Tries(i, kind, token, pc), attempt[i].pc # "idle", ~attempt[i].stopped,
           attempt[i].pc # "ended",
           kind # "ordinary" => token = "derived",
           \/ attempt[i].pc = "issued" /\ pc = "provisionCall" /\ kind = "provisioning"
           \/ attempt[i].pc = "persist" /\ pc = "persistCall" /\ kind = "persisted"
           \/ /\ attempt[i].pc = "ordinary" /\ pc = "ordinaryCall" /\ kind = "ordinary"
              /\ token = "derived"
           \/ /\ attempt[i].pc = "last" /\ pc = "priorCall" /\ kind = "ordinary"
              /\ token = attempt[i].prior /\ token # None
    PROVE  SetupInv'
  <1> DEFINE a == [attempt[i] EXCEPT !.pc = pc, !.mine = link.gen + 1, !.disturbed = TRUE]
             s == IF kind = "ordinary" THEN NoSetup ELSE i
  <1>1. attempt[i] \in Attempt /\ Fits(attempt[i]) /\ link.gen + 1 \in Nat
        /\ attempt \in [Setups -> Attempt] /\ stored \in Modes
    BY CallFacts, TypeOKParts DEF SetupInv, Types, Link
  <1>2. /\ a \in Attempt /\ a.pc = pc /\ a.mine = link.gen + 1 /\ a.prior = attempt[i].prior
        /\ a.commit = attempt[i].commit /\ a.durable = attempt[i].durable
        /\ a.over = attempt[i].over /\ a.ok = attempt[i].ok /\ a.stopped = attempt[i].stopped
        /\ a.rollback = attempt[i].rollback /\ a.tries = attempt[i].tries
    BY <1>1 DEF Attempt, Phases
  <1>3. attempt' = [attempt EXCEPT ![i] = a] /\ Connects(kind, token, s)
    BY <1>1 DEF Tries
  <1>4. Connectable(kind, token, s)
    BY DEF Connectable
  <1>5. kind = "persisted" => attempt[s].durable
    BY <1>1 DEF Fits, Durables
  <1> HIDE DEF a, s
  <1>6. InProgress(i) /\ \A j \in Setups \ {i} : ~InProgress(j)
    BY <1>1, TypeOKParts DEF SetupInv, InProgress, Fits, Alone
  <1>7. Ended(a) = a /\ attempt' = [attempt EXCEPT ![i] = Ended(a)]
    BY <1>2, <1>3, <1>6 DEF Ended, InProgress
  <1>8. Fits(a)
    BY <1>1, <1>2 DEF Fits, Durables, Calls
  <1>9. FitsOthers(i, a)
    BY <1>2, <1>6, <1>8 DEF FitsOthers, Working, InProgress, Calls, Writing
  <1>10. /\ Working(a) /\ a.pc \in Durables \cup {"set", "verify"} =>
               /\ \A j \in Setups \ {i} : attempt[j].over => attempt[j].pc \notin Writing
               /\ a.pc \in Durables /\ ~a.stopped => stored = "derived"
         /\ Working(a) /\ ~a.stopped /\ a.pc \in Proving =>
               token \in {None, "derived"} /\ kind # "provisioning"
    BY <1>2, CallFacts DEF FitsCredential, Working, Durables, Calls, Proving
  <1>11. ~Excused =>
               /\ stored = "legacy" => Calm
               /\ Working(a) /\ ~a.durable /\ a.prior = "legacy" => Calm
               /\ a.pc # "putBack"
               /\ Working(a) /\ ~a.stopped /\ a.pc \in {"priorCall", "priorWait"} =>
                     a.mine = link.gen + 1 /\ kind = "ordinary" /\ token = a.prior /\ token # None
    BY <1>2, CallFacts DEF FitsPrior, Working, Calls, SetupInv, Kept
  <1>12. kind = "persisted" =>
               /\ stored = "derived" /\ a.durable
               /\ \A j \in Setups \ {i} : attempt[j].pc # "putBack"
    <2> SUFFICES ASSUME kind = "persisted"
                 PROVE  /\ stored = "derived" /\ a.durable
                        /\ \A j \in Setups \ {i} : attempt[j].pc # "putBack"
      OBVIOUS
    <2>1. attempt[i].pc = "persist" /\ attempt[i].durable
      BY <1>1 DEF Fits, Durables
    <2>2. /\ stored = "derived"
          /\ \A j \in Setups \ {i} : attempt[j].over => attempt[j].pc \notin Writing
      BY <1>6, <2>1, CallFacts DEF FitsCredential, Working, InProgress, Durables
    <2> QED BY <1>2, <1>6, <2>1, <2>2 DEF Writing, InProgress
  <1>13. stored' = stored /\ UNCHANGED <<registryVars, setup, history, left>>
    BY DEF Tries
  <1> QED BY <1>1, <1>3, <1>4, <1>5, <1>6, <1>7, <1>9, <1>10, <1>11, <1>12, <1>13, CallConnects

\* The four reconnects of receiveSetupPairingToken.
LEMMA CallReconnects ==
    ASSUME SetupInv, NEW i \in Setups,
           Provisioning(i) \/ Persist(i) \/ Ordinary(i) \/ TryPrior(i)
    PROVE  SetupInv'
  <1>1. attempt[i].prior \in Modes
    BY CallFacts DEF Attempt
  <1>2. CASE Provisioning(i)
    BY <1>2, CallTries DEF Provisioning, Kinds, Modes, Calls, None
  <1>3. CASE Persist(i)
    BY <1>3, CallTries DEF Persist, Kinds, Modes, Calls, None
  <1>4. CASE Ordinary(i)
    BY <1>4, CallTries DEF Ordinary, Kinds, Modes, Calls, None
  <1>5. CASE TryPrior(i)
    BY <1>1, <1>5, CallTries DEF TryPrior, MayTryPrior, Kinds, Calls
  <1> QED BY <1>2, <1>3, <1>4, <1>5

-----------------------------------------------------------------------------
(* The steps of a call that change the credential, and the end of a call. *)

LEMMA OthersRest ==
    ASSUME SetupInv, NEW i \in Setups, attempt[i].pc \in Writing \/ InProgress(i)
    PROVE  \A j \in Setups \ {i} : InProgress(j) => attempt[j].pc \notin Durables
  <1> SUFFICES ASSUME NEW j \in Setups \ {i}, InProgress(j), attempt[j].pc \in Durables PROVE FALSE
    OBVIOUS
  <1>1. ~InProgress(i)
    BY TypeOKParts DEF SetupInv, Alone
  <1>2. attempt[i].over
    BY <1>1 DEF InProgress, Writing
  <1> QED BY <1>1, <1>2 DEF SetupInv, Exclusive

LEMMA CallStores ==
    ASSUME SetupInv, NEW i \in Setups, Store(i)
    PROVE  SetupInv'
  <1> DEFINE a == [attempt[i] EXCEPT !.pc = "verify", !.commit = "done"]
  <1>1. attempt[i] \in Attempt /\ Fits(attempt[i]) /\ attempt[i].pc = "set"
    BY CallFacts DEF Store
  <1>2. /\ a \in Attempt /\ a.pc = "verify" /\ a.prior = attempt[i].prior
        /\ a.commit = "done" /\ a.durable = attempt[i].durable
        /\ a.over = attempt[i].over /\ a.ok = attempt[i].ok /\ a.stopped = attempt[i].stopped
        /\ a.rollback = attempt[i].rollback /\ a.tries = attempt[i].tries
    BY <1>1 DEF Attempt, Phases
  <1>3. /\ attempt' = [attempt EXCEPT ![i] = Ended(a)] /\ stored' = "derived" /\ stored' \in Modes
        /\ UNCHANGED <<registryVars, setup, history, left>>
    BY DEF Store, Becomes, Modes
  <1> HIDE DEF a
  <1>4. Fits(a)
    BY <1>1, <1>2 DEF Fits, Durables
  <1>5. FitsOthers(i, a)
    BY <1>1, <1>2, <1>4 DEF FitsOthers, Working, InProgress, Writing, Fits
  <1>6. Working(a) /\ a.pc \in Durables \cup {"set", "verify"} =>
               /\ \A j \in Setups \ {i} : attempt[j].over => attempt[j].pc \notin Writing
               /\ a.pc \in Durables /\ ~a.stopped => stored' = "derived"
    BY <1>1, <1>2, <1>3, CallFacts DEF FitsCredential, Working
  <1>7. FitsConnection(a) /\ (~Excused => FitsPrior(a))
    BY <1>1, <1>2, CallFacts DEF FitsConnection, FitsPrior, Proving, Working
  <1>8. CASE UNCHANGED <<conn, link>>
    BY <1>2, <1>3, <1>5, <1>6, <1>7, <1>8, CallWrites
  <1>9. CASE NoneInProgress /\ Reconnects
    <2>1. Connectable("ordinary", None, NoSetup) /\ Connects("ordinary", None, NoSetup)
      BY <1>9 DEF Connectable, Kinds, Modes, Reconnects
    <2>2. \A j \in Setups \ {i} : ~InProgress(j)
      BY <1>9 DEF NoneInProgress
    <2> QED BY <1>2, <1>3, <1>5, <1>6, <1>7, <2>1, <2>2, CallConnects
          DEF FitsPrior, Proving
  <1> QED BY <1>8, <1>9 DEF Store

LEMMA CallPutsBack ==
    ASSUME SetupInv, NEW i \in Setups, PutBack(i)
    PROVE  SetupInv'
  <1> DEFINE b == [attempt[i] EXCEPT !.pc = "ended"]
             a == RollsBack(b)
  <1>1. attempt[i] \in Attempt /\ Fits(attempt[i]) /\ attempt[i].pc = "putBack"
    BY CallFacts DEF PutBack
  <1>2. /\ b \in Attempt /\ b.pc = "ended" /\ b.prior = attempt[i].prior /\ b.commit = attempt[i].commit
        /\ b.durable = attempt[i].durable /\ b.over = attempt[i].over /\ b.ok = attempt[i].ok
        /\ b.stopped = attempt[i].stopped /\ b.rollback = attempt[i].rollback
    BY <1>1 DEF Attempt, Phases
  <1>3. /\ a \in Attempt /\ a.rollback # "no" /\ a = [b EXCEPT !.rollback = a.rollback]
        /\ b.rollback # "no" => a = b
        /\ b.rollback = "no" => a.rollback = IF b.commit # "no" /\ ~b.durable THEN "waiting" ELSE "connect"
    BY <1>2, RollsBackTyped
  <1>4. /\ attempt' = [attempt EXCEPT ![i] = Ended(a)]
        /\ UNCHANGED <<registryVars, setup, history, left>>
    BY DEF PutBack, Throws, Becomes
  <1> HIDE DEF a, b
  <1>5. /\ a.pc = "ended" /\ a.prior = attempt[i].prior /\ a.commit = attempt[i].commit
        /\ a.durable = attempt[i].durable /\ a.over = attempt[i].over /\ a.ok = attempt[i].ok
        /\ a.stopped = attempt[i].stopped
    BY <1>2, <1>3 DEF Attempt
  <1>6. Fits(a)
    BY <1>1, <1>2, <1>3, <1>5 DEF Fits, Durables
  <1>7. FitsOthers(i, a)
    BY <1>1, <1>3, <1>5, <1>6 DEF FitsOthers, Working, InProgress, Writing
  <1>8. FitsConnection(a) /\ (~Excused => FitsPrior(a))
    BY <1>1, <1>5, CallFacts DEF FitsConnection, FitsPrior, Proving, Working, Fits, Durables
  <1>9. stored' \in Modes /\ (~Excused => (stored' = "legacy" => Calm))
    BY <1>1, CallFacts, TypeOKParts DEF PutBack, Restores, Attempt, SetupInv, Types, Kept
  <1>10. \A j \in Setups \ {i} : InProgress(j) => attempt[j].pc \notin Durables
    BY <1>1, OthersRest DEF Writing
  <1>11. CASE UNCHANGED <<conn, link>>
    BY <1>4, <1>5, <1>7, <1>8, <1>9, <1>10, <1>11, CallWrites DEF Durables
  <1>12. CASE NoneInProgress /\ Reconnects
    <2>1. Connectable("ordinary", None, NoSetup) /\ Connects("ordinary", None, NoSetup)
      BY <1>12 DEF Connectable, Kinds, Modes, Reconnects
    <2>2. \A j \in Setups \ {i} : ~InProgress(j)
      BY <1>12 DEF NoneInProgress
    <2> QED BY <1>4, <1>5, <1>7, <1>8, <1>9, <2>1, <2>2, CallConnects
          DEF FitsPrior, Proving, Durables
  <1> QED BY <1>11, <1>12 DEF PutBack

LEMMA CallTakesBack ==
    ASSUME SetupInv, NEW i \in Setups, TakeBack(i)
    PROVE  SetupInv'
  <1>1. attempt[i] \in Attempt /\ Fits(attempt[i]) /\ attempt[i].rollback = "waiting"
    BY CallFacts DEF TakeBack
  <1>2. /\ InProgress(i) /\ ~attempt[i].durable /\ attempt[i].pc \notin Durables
        /\ attempt[i].pc # "idle"
    BY <1>1 DEF InProgress, Fits, Fresh
  <1>3. PICK over \in BOOLEAN :
          /\ Becomes(i, [attempt[i] EXCEPT !.rollback = IF over THEN "over" ELSE "connect",
                                           !.over = over])
          /\ Restores(i)
    <2>1. [attempt[i] EXCEPT !.rollback = "connect"] =
             [attempt[i] EXCEPT !.rollback = "connect", !.over = FALSE]
      BY <1>1, <1>2 DEF Attempt, InProgress
    <2>2. CASE Becomes(i, [attempt[i] EXCEPT !.rollback = "connect"]) /\ Restores(i)
      BY <2>1, <2>2
    <2>3. CASE Becomes(i, [attempt[i] EXCEPT !.rollback = "over", !.over = TRUE]) /\ UNCHANGED stored
      BY <2>3 DEF Restores
    <2> QED BY <2>2, <2>3 DEF TakeBack
  <1> DEFINE a == [attempt[i] EXCEPT !.rollback = IF over THEN "over" ELSE "connect",
                                     !.over = over]
  <1>4. /\ a \in Attempt /\ a.pc = attempt[i].pc /\ a.prior = attempt[i].prior
        /\ a.commit = attempt[i].commit /\ a.durable = attempt[i].durable
        /\ a.over = over /\ a.ok = attempt[i].ok /\ a.stopped = attempt[i].stopped
        /\ a.rollback = (IF over THEN "over" ELSE "connect") /\ a.tries = attempt[i].tries
    BY <1>1 DEF Attempt
  <1>5. /\ attempt' = [attempt EXCEPT ![i] = Ended(a)]
        /\ UNCHANGED <<registryVars, setup, conn, link, history, left>>
    BY <1>3 DEF TakeBack, Becomes
  <1> HIDE DEF a
  <1>6. Fits(a)
    BY <1>1, <1>2, <1>4 DEF Fits, InProgress
  <1>7. FitsOthers(i, a)
    BY <1>2, <1>4, <1>6 DEF FitsOthers
  <1>8. FitsConnection(a) /\ (~Excused => FitsPrior(a))
    BY <1>2, <1>4, CallFacts DEF FitsConnection, FitsPrior, Proving, Working, Durables, InProgress
  <1>9. stored' \in Modes /\ (~Excused => (stored' = "legacy" => Calm))
    BY <1>1, <1>2, <1>3, TypeOKParts DEF Restores, Attempt, SetupInv, Types, Kept
  <1>10. Working(a) /\ a.pc \in Durables \cup {"set", "verify"} =>
               /\ \A j \in Setups \ {i} : attempt[j].over => attempt[j].pc \notin Writing
               /\ a.pc \in Durables /\ ~a.stopped => stored' = "derived"
    BY <1>2, <1>4, CallFacts DEF FitsCredential, Working, InProgress
  <1>11. \A j \in Setups \ {i} : InProgress(j) => attempt[j].pc \notin Durables
    BY <1>2, OthersRest
  <1> QED BY <1>5, <1>7, <1>8, <1>9, <1>10, <1>11, CallWrites

LEMMA CallComesBack ==
    ASSUME SetupInv, NEW i \in Setups, Return(i)
    PROVE  SetupInv'
  <1> DEFINE a == [attempt[i] EXCEPT !.rollback = "over", !.over = TRUE]
  <1>1. attempt[i] \in Attempt /\ Fits(attempt[i]) /\ attempt[i].rollback = "connect"
        /\ stored \in Modes
    BY CallFacts, TypeOKParts DEF Return, SetupInv, Types
  <1>2. InProgress(i)
    BY <1>1 DEF InProgress, Fits, Fresh
  <1>3. /\ a \in Attempt /\ a.pc = attempt[i].pc /\ a.prior = attempt[i].prior
        /\ a.commit = attempt[i].commit /\ a.durable = attempt[i].durable
        /\ a.over = TRUE /\ a.ok = attempt[i].ok /\ a.stopped = attempt[i].stopped
        /\ a.rollback = "over" /\ a.tries = attempt[i].tries
    BY <1>1 DEF Attempt
  <1>4. /\ attempt' = [attempt EXCEPT ![i] = Ended(a)]
        /\ UNCHANGED <<registryVars, setup, stored, history, left>>
    BY DEF Return, Becomes
  <1> HIDE DEF a
  <1>5. Fits(a)
    BY <1>1, <1>3 DEF Fits, Fresh
  <1>6. FitsOthers(i, a)
    BY <1>2, <1>3, <1>5 DEF FitsOthers, InProgress
  <1>7. ~Working(a) /\ FitsConnection(a) /\ FitsCredential(i, a) /\ (~Excused => FitsPrior(a))
    BY <1>3, CallFacts DEF FitsConnection, FitsCredential, FitsPrior, Working
  <1>8. CASE UNCHANGED <<conn, link>>
    BY <1>4, <1>6, <1>7, <1>8, CallMoves
  <1>9. CASE Reconnects
    <2>1. Connectable("ordinary", None, NoSetup) /\ Connects("ordinary", None, NoSetup)
      BY <1>9 DEF Connectable, Kinds, Modes, Reconnects
    <2>2. \A j \in Setups \ {i} : ~InProgress(j)
      BY <1>2, TypeOKParts DEF SetupInv, Alone
    <2>3. ~Excused => (stored' = "legacy" => Calm) /\ (a.pc = "putBack" /\ a.prior = "legacy" => Calm)
      BY <1>4, <1>7 DEF SetupInv, Kept, FitsPrior
    <2> QED BY <1>1, <1>4, <1>6, <1>7, <2>1, <2>2, <2>3, CallConnects
  <1> QED BY <1>8, <1>9 DEF Return

-----------------------------------------------------------------------------
(* The main connection is opened, authenticated and lost. *)

\* The extension connects by itself, or the user asks for it.
LEMMA MainConnects ==
    ASSUME SetupInv, Reconnects, UNCHANGED <<registryVars, setup, attempt, history>>,
           stored' \in Modes, UNCHANGED stored \/ (NoneInProgress /\ stored' # "legacy"),
           Counted', Happened("late") => Happened("late")', Excused => Excused',
           \/ Excused'
           \/ \A i \in Setups : InProgress(i) => attempt[i].pc \notin {"priorCall", "priorWait"}
    PROVE  SetupInv'
  <1>1. Connectable("ordinary", None, NoSetup) /\ Connects("ordinary", None, NoSetup)
    BY DEF Connectable, Kinds, Modes, Reconnects
  <1>2. /\ DOMAIN conn' \subseteq DOMAIN conn /\ conn' \in [DOMAIN conn' -> Connection]
        /\ \A g \in DOMAIN conn' : conn'[g] = conn[g] /\ conn[g].at \in Sent
    BY SocketGivenUp DEF Reconnects, Connects
  <1>3. /\ link' \in Link /\ link'.gen = link.gen + 1 /\ link'.kind = "ordinary" /\ link'.token = None
        /\ link'.gen \notin DOMAIN conn'
    BY <1>1, ConnectsLink
  <1>4. Sockets' /\ Handshakes' /\ Queued' /\ Registry' /\ Sessions' /\ (Calm => Calm')
    BY <1>1, ConnectsParts
  <1>5. Stored'
    BY <1>1, ConnectsStored
  <1>6. TypeOK' /\ AllFit'
    BY <1>2, <1>3, <1>4, TypeOKParts, TypeOKPartsNext
    DEF SetupInv, Types, Alone, InProgress, AllFit, Fits, Fresh, Durables, registryVars, history
  <1>7. \A i \in Setups : InProgress(i)' <=> InProgress(i)
    BY DEF InProgress
  <1>8. Exclusive'
    BY <1>7 DEF SetupInv, Exclusive, NoneInProgress, Durables, Writing
  <1>9. Proves'
    BY <1>2, <1>3 DEF Proves, Sent
  <1>10. Kept'
    <2> SUFFICES ASSUME ~Excused' PROVE Kept'
      BY DEF Kept
    <2>1. Kept /\ ~Excused
      BY DEF SetupInv
    <2>2. stored' = "legacy" => stored = "legacy"
      OBVIOUS
    <2> QED BY <1>2, <1>4, <1>7, <2>1, <2>2 DEF Kept, Sent
  <1> QED BY <1>4, <1>5, <1>6, <1>8, <1>9, <1>10 DEF SetupInv

LEMMA MainReconnects ==
    ASSUME SetupInv, ReconnectTimer \/ UserReconnects \/ UserRemovesPairing
    PROVE  SetupInv'
  <1>1. Counted /\ stored \in Modes /\ None \in Modes
    BY TypeOKParts DEF SetupInv, Types, Modes
  <1>2. CASE ReconnectTimer
    <2>1. Spends("timers") /\ "timers" \in Events \ {"events"} /\ "late" \in Events
      BY <1>2 DEF ReconnectTimer, Events
    <2>2. Counted' /\ (Happened("late") => Happened("late")') /\ (Excused => Excused')
      BY <1>1, <2>1, SpentIsSpent, StillExcused
    <2>3. \A i \in Setups : InProgress(i) => attempt[i].pc \notin {"priorCall", "priorWait"}
      BY <1>2 DEF ReconnectTimer, Calls, Waits
    <2> QED BY <1>1, <1>2, <2>2, <2>3, MainConnects DEF ReconnectTimer
  <1>3. CASE UserReconnects \/ UserRemovesPairing
    <2>1. Spends("clicks") /\ "clicks" \in Events \ {"events"} /\ "late" \in Events
      BY <1>3 DEF UserReconnects, UserRemovesPairing, Events
    <2>2. Counted' /\ (Happened("late") => Happened("late")') /\ Happened("clicks")'
      BY <1>1, <2>1, SpentIsSpent
    <2>3. Excused'
      BY <2>2 DEF Excused
    <2> QED BY <1>1, <1>3, <2>2, <2>3, MainConnects DEF UserReconnects, UserRemovesPairing, None
  <1> QED BY <1>2, <1>3

LEMMA WorkerKilled ==
    ASSUME SetupInv, Kill
    PROVE  SetupInv'
  <1>1. /\ Counted /\ stored \in Modes /\ attempt \in [Setups -> Attempt] /\ AllFit
    BY TypeOKParts DEF SetupInv, Types
  <1>2. Spends("kills") /\ "kills" \in Events \ {"events"} /\ "late" \in Events
    BY DEF Kill, Events
  <1>3. Counted' /\ (Happened("late") => Happened("late")') /\ (Excused => Excused')
    BY <1>1, <1>2, SpentIsSpent, StillExcused
  <1>4. /\ stored' \in Modes /\ (stored' = "legacy" => stored = "legacy") /\ Reconnects
        /\ UNCHANGED <<registryVars, setup, history>>
    BY <1>1 DEF Kill, Modes
  <1>5. ASSUME NEW i \in Setups
        PROVE  /\ attempt'[i] \in Attempt /\ Fits(attempt'[i]) /\ ~InProgress(i)'
               /\ attempt'[i].pc \in {"idle", "ended"}
               /\ attempt[i].durable => attempt'[i].durable
    <2> DEFINE b == [attempt[i] EXCEPT !.pc = "ended", !.over = TRUE]
               e == [Fresh EXCEPT !.pc = "ended", !.durable = b.durable, !.over = TRUE, !.ok = b.ok]
    <2>1. attempt[i] \in Attempt /\ Fits(attempt[i])
      BY <1>1 DEF AllFit
    <2>2. CASE attempt[i].pc = "idle"
      BY <2>1, <2>2 DEF Kill, InProgress
    <2>3. CASE attempt[i].pc # "idle"
      <3>1. /\ b \in Attempt /\ b.pc = "ended" /\ b.over = TRUE /\ b.durable = attempt[i].durable
            /\ b.ok = attempt[i].ok
        BY <2>1 DEF Attempt, Phases
      <3>2. attempt'[i] = Ended(b)
        BY <2>3 DEF Kill
      <3>3. Ended(b) = e
        BY <3>1 DEF Ended
      <3>4. Fresh \in Attempt
        BY BoundsTyped DEF Attempt, Fresh, Phases, Modes
      <3>5. b.durable \in BOOLEAN /\ b.ok \in BOOLEAN
        BY <3>1 DEF Attempt
      <3> HIDE DEF b
      <3>6. /\ e \in Attempt /\ e.pc = "ended" /\ e.over = TRUE /\ e.durable = b.durable
            /\ e.rollback = Fresh.rollback /\ e.commit = Fresh.commit /\ e.stopped = Fresh.stopped
        BY <3>4, <3>5 DEF Attempt, Phases
      <3> HIDE DEF e
      <3>7. Fits(e)
        BY <3>6 DEF Fits, Fresh, Durables
      <3> QED BY <3>1, <3>2, <3>3, <3>6, <3>7 DEF InProgress
    <2> QED BY <2>2, <2>3
  <1>6. attempt' \in [Setups -> Attempt] /\ AllFit' /\ Alone'
    <2>1. attempt' \in [Setups -> Attempt]
      BY <1>5 DEF Kill
    <2>2. AllFit'
      BY <1>5 DEF AllFit, Fits, Fresh, Durables
    <2> QED BY <1>5, <2>1, <2>2 DEF Alone
  <1>7. Connectable("ordinary", None, NoSetup) /\ Connects("ordinary", None, NoSetup)
    BY <1>4 DEF Connectable, Kinds, Modes, Reconnects
  <1>8. /\ DOMAIN conn' \subseteq DOMAIN conn /\ conn' \in [DOMAIN conn' -> Connection]
        /\ \A g \in DOMAIN conn' : conn'[g] = conn[g] /\ conn[g].at \in Sent
    BY <1>7, SocketGivenUp DEF Connects
  <1>9. link' \in Link
    BY <1>7, ConnectsLink
  <1>10. Sockets' /\ Handshakes' /\ Queued' /\ Registry' /\ Sessions' /\ (Calm => Calm')
    BY <1>3, <1>4, <1>7, ConnectsParts
  <1>11. Stored'
    BY <1>4, <1>5, <1>7, ConnectsStored
  <1>12. TypeOK'
    BY <1>4, <1>6, <1>8, <1>9, <1>10, TypeOKParts, TypeOKPartsNext
    DEF SetupInv, Types, registryVars, history
  <1>13. Exclusive'
    BY <1>5 DEF Exclusive
  <1>14. Proves'
    BY <1>5, <1>8 DEF Proves, Sent
  <1>15. Kept'
    <2> SUFFICES ASSUME ~Excused' PROVE Kept'
      BY DEF Kept
    <2>1. Kept /\ ~Excused
      BY <1>3 DEF SetupInv
    <2>2. stored' = "legacy" => Calm'
      BY <1>4, <1>10, <2>1 DEF Kept
    <2> QED BY <1>5, <1>8, <2>2 DEF Kept, Sent
  <1> QED BY <1>3, <1>6, <1>10, <1>11, <1>12, <1>13, <1>14, <1>15 DEF SetupInv

LEMMA TokenRead ==
    ASSUME SetupInv, ReadToken
    PROVE  SetupInv'
  <1>1. Types /\ Sockets /\ Alone /\ Handshakes
    BY TypeOKParts DEF SetupInv
  <1>2. /\ link.step = "token" /\ link.kind = "ordinary" /\ link.gen \notin DOMAIN conn /\ ~link.open
        /\ link.phase # "connected"
    BY <1>1 DEF ReadToken, Handshakes
  <1>3. /\ UNCHANGED <<registryVars, setup, conn, stored, attempt, history, left>>
        /\ link' \in Link /\ link'.gen = link.gen /\ link'.kind = "ordinary" /\ link'.setup = link.setup
        /\ link'.open = link.open /\ link'.phase # "connected"
        /\ \/ stored = None /\ link'.step = "done" /\ link'.token = link.token
           \/ stored # None /\ link'.step = "identity" /\ link'.token = stored
    BY <1>1, <1>2 DEF ReadToken, Types, Link
  <1>4. TypeOK'
    BY <1>1, <1>3, TypeOKPartsNext DEF Types, Sockets, Live, Alone, InProgress, registryVars, history
  <1>5. Counted' /\ AllFit'
    BY <1>3, NothingSpent DEF SetupInv, AllFit, Fits, Fresh, Durables
  <1>6. Handshakes'
    BY <1>1, <1>2, <1>3 DEF Handshakes
  <1>7. Queued' /\ Registry' /\ Sessions'
    BY <1>3 DEF SetupInv, Queued, Registry, Sessions, Happened, Bounds, registryVars, history
  <1>8. Stored'
    BY <1>3 DEF SetupInv, Stored, registryVars, history
  <1>9. Exclusive'
    BY <1>3 DEF SetupInv, Exclusive, InProgress, Durables, Writing
  <1>10. Proves'
    <2>1. ASSUME NEW i \in Setups, InProgress(i), ~attempt[i].stopped, attempt[i].pc \in Proving
          PROVE  link'.token \in {None, "derived"}
      <3>1. stored = "derived" /\ link.token \in {None, "derived"}
        BY <2>1 DEF SetupInv, Exclusive, Proves, Proving, Durables
      <3> QED BY <1>3, <3>1
    <2> QED BY <1>2, <1>3, <2>1 DEF SetupInv, Proves, Proving, InProgress, registryVars
  <1>11. Kept'
    <2>1. (Excused' <=> Excused) /\ (Calm => Calm')
      BY <1>3, NothingSpent DEF Calm, registryVars
    <2> SUFFICES ASSUME ~Excused PROVE Kept'
      BY <2>1 DEF Kept
    <2>2. Kept
      BY DEF SetupInv
    <2> QED BY <1>2, <1>3, <2>1, <2>2 DEF Kept, InProgress
  <1> QED BY <1>4, <1>5, <1>6, <1>7, <1>8, <1>9, <1>10, <1>11 DEF SetupInv

LEMMA SocketOpened ==
    ASSUME SetupInv, OpenSocket
    PROVE  SetupInv'
  <1>1. Types /\ Sockets /\ Alone /\ Handshakes
    BY TypeOKParts DEF SetupInv
  <1>2. /\ link.step = "identity" /\ link.gen \notin DOMAIN conn /\ ~link.open
        /\ link.phase # "connected" /\ link.token # None /\ link.gen \in Nat \ {0}
    BY <1>1 DEF OpenSocket, Handshakes, Types, Link
  <1> DEFINE new == [kind |-> link.kind, token |-> link.token, setup |-> link.setup,
                     at |-> "hello", mode |-> None]
  <1>3. /\ UNCHANGED <<registryVars, setup, stored, attempt, history, left>>
        /\ link' \in Link /\ link'.gen = link.gen /\ link'.kind = "ordinary" /\ link'.setup = NoSetup
        /\ link'.open = TRUE /\ link'.phase # "connected" /\ link'.step = "done" /\ link'.token = None
    BY <1>1, <1>2 DEF OpenSocket, Types, Link, Kinds, Modes
  <1>4. /\ DOMAIN conn' = DOMAIN conn \cup {link.gen}
        /\ conn'[link.gen] = new
        /\ \A g \in DOMAIN conn : conn'[g] = conn[g] /\ g # link.gen
    BY <1>2 DEF OpenSocket
  <1>5. new \in Connection
    BY <1>1, <1>2 DEF Types, Link, Connection, Modes
  <1>6. conn' \in [DOMAIN conn' -> Connection]
    <2>1. conn' = [g \in DOMAIN conn' |-> conn'[g]]
      BY <1>4 DEF OpenSocket
    <2>2. \A g \in DOMAIN conn' : conn'[g] \in Connection
      BY <1>1, <1>4, <1>5 DEF Types
    <2> QED BY <2>1, <2>2
  <1>7. /\ new.kind = link.kind /\ new.token = link.token /\ new.setup = link.setup
        /\ new.at = "hello" /\ new.mode = None
    OBVIOUS
  <1> HIDE DEF new
  <1>8. TypeOK'
    <2>1. Sockets'
      BY <1>1, <1>2, <1>3, <1>4 DEF Sockets, Live
    <2> QED BY <1>1, <1>3, <1>6, <2>1, TypeOKPartsNext DEF Types, Alone, InProgress, registryVars, history
  <1>9. Counted' /\ AllFit'
    BY <1>3, NothingSpent DEF SetupInv, AllFit, Fits, Fresh, Durables
  <1>10. Handshakes'
    <2>1. DOMAIN conn' \subseteq 1 .. link'.gen
      BY <1>1, <1>2, <1>3, <1>4 DEF Handshakes
    <2>2. ASSUME NEW g \in DOMAIN conn'
          PROVE  /\ conn'[g].kind # "ordinary" => conn'[g].token = "derived" /\ conn'[g].setup # NoSetup
                 /\ conn'[g].kind = "ordinary" => conn'[g].setup = NoSetup
                 /\ conn'[g].at \in {"signed", "pinning", "acked"} => conn'[g].mode = conn'[g].token
                 /\ conn'[g].at # "hello" /\ conn'[g].kind # "ordinary" => conn'[g].mode = "derived"
                 /\ conn'[g].at = "pinning" => conn'[g].kind # "provisioning"
      <3>1. CASE g \in DOMAIN conn
        BY <1>1, <1>4, <3>1 DEF Handshakes
      <3>2. CASE g = link.gen
        BY <1>1, <1>4, <1>7, <3>2 DEF Handshakes
      <3> QED BY <1>4, <3>1, <3>2
    <2> QED BY <1>3, <2>1, <2>2 DEF Handshakes
  <1>11. Queued'
    BY <1>3, <1>4, <1>7 DEF SetupInv, Queued, registryVars
  <1>12. Registry' /\ Sessions'
    BY <1>3, <1>4, <1>7 DEF SetupInv, Registry, Sessions, Happened, Bounds, registryVars, history
  <1>13. Stored'
    BY <1>3, <1>4, <1>7 DEF SetupInv, Stored, registryVars, history
  <1>14. Exclusive'
    BY <1>3 DEF SetupInv, Exclusive, InProgress, Durables, Writing
  <1>15. Proves'
    <2>1. ASSUME NEW i \in Setups, InProgress(i), ~attempt[i].stopped, attempt[i].pc \in Proving
          PROVE  new.token = "derived" /\ new.kind # "provisioning"
      BY <1>2, <1>7, <2>1 DEF SetupInv, Proves, Proving
    <2>2. \A g \in DOMAIN conn' : conn'[g].at = "acked" => g \in DOMAIN conn /\ conn'[g] = conn[g]
      BY <1>4, <1>7
    <2>3. \A g \in DOMAIN conn :
          conn[g].at = "acked" /\ conn[g].kind # "provisioning" /\ conn[g].mode = "derived"
          => registry = "derived" /\ disk = "derived" /\ saving = Idle
      BY DEF SetupInv, Proves
    <2> QED BY <1>3, <1>4, <2>1, <2>2, <2>3 DEF Proves, Proving, InProgress, registryVars
  <1>16. Kept'
    <2>1. (Excused' <=> Excused) /\ (Calm => Calm')
      BY <1>3, <1>4, <1>7, NothingSpent DEF Calm, registryVars, None
    <2> SUFFICES ASSUME ~Excused PROVE Kept'
      BY <2>1 DEF Kept
    <2>2. Kept
      BY DEF SetupInv
    <2> QED BY <1>2, <1>3, <1>4, <1>7, <2>1, <2>2 DEF Kept, InProgress
  <1> QED BY <1>8, <1>9, <1>10, <1>11, <1>12, <1>13, <1>14, <1>15, <1>16 DEF SetupInv

Fades ==
    /\ DOMAIN conn' \subseteq DOMAIN conn
    /\ conn' \in [DOMAIN conn' -> Connection]
    /\ \A g \in DOMAIN conn' : conn'[g] = conn[g]
    /\ link' = link \/ link' = Lost
    /\ Sockets'

LEMMA LinkFades ==
    ASSUME SetupInv, Fades
    PROVE  /\ link' \in Link /\ link'.gen = link.gen /\ link'.kind = link.kind
           /\ link'.token = link.token /\ link'.step = link.step /\ link'.setup = link.setup
           /\ Handshakes'
  <1>1. link \in Link /\ Handshakes
    BY TypeOKParts DEF SetupInv, Types
  <1>2. /\ link' \in Link /\ link'.gen = link.gen /\ link'.kind = link.kind
        /\ link'.token = link.token /\ link'.step = link.step /\ link'.setup = link.setup
        /\ link'.open => link.open
        /\ link'.phase = "connected" => link' = link
    BY <1>1 DEF Fades, Lost, Link
  <1>3. \A g \in DOMAIN conn' : g \in DOMAIN conn /\ conn'[g] = conn[g]
    BY DEF Fades
  <1>4. link'.phase = "connected" => link'.open /\ conn'[link'.gen].at = "acked"
    BY <1>1, <1>2, <1>3 DEF Handshakes, Fades, Sockets
  <1>5. Handshakes'
    BY <1>1, <1>2, <1>3, <1>4 DEF Handshakes
  <1> QED BY <1>2, <1>5

\* A socket that waits for no pin() closes, whoever closes it.
LEMMA SocketCloses ==
    ASSUME SetupInv, Fades,
           \A g \in DOMAIN conn : conn[g].at = "pinning" => g \in DOMAIN conn',
           UNCHANGED <<registryVars, stored, attempt, committed>>,
           setup' \in Session, begun' \in 0 .. MaxSetups, cancelled' \subseteq Setups, Sessions',
           Counted', Happened("late") => Happened("late")', Excused => Excused'
    PROVE  SetupInv'
  <1>1. Types /\ Sockets /\ Alone
    BY TypeOKParts DEF SetupInv
  <1>2. /\ link' \in Link /\ link'.gen = link.gen /\ link'.kind = link.kind
        /\ link'.token = link.token /\ link'.step = link.step /\ link'.setup = link.setup
        /\ Handshakes'
    BY LinkFades
  <1>3. \A g \in DOMAIN conn' : g \in DOMAIN conn /\ conn'[g] = conn[g]
    BY DEF Fades
  <1>4. TypeOK' /\ AllFit'
    BY <1>1, <1>2, TypeOKPartsNext
    DEF Fades, Types, Alone, InProgress, SetupInv, AllFit, Fits, Fresh, Durables, registryVars
  <1>5. Queued'
    BY <1>3 DEF SetupInv, Queued, registryVars
  <1>6. Registry'
    <2>1. registry' = registry /\ disk' = disk /\ saving' = saving /\ pins' = pins
      BY DEF registryVars
    <2> QED BY <1>3, <2>1 DEF SetupInv, Registry
  <1>7. Stored'
    BY <1>2, <1>3 DEF SetupInv, Stored, registryVars
  <1>8. Exclusive'
    BY DEF SetupInv, Exclusive, InProgress, Durables, Writing
  <1>9. Proves'
    BY <1>2, <1>3 DEF SetupInv, Proves, InProgress, registryVars
  <1>10. Kept'
    <2>1. Calm => Calm'
      BY <1>2, <1>3 DEF Calm, registryVars
    <2> SUFFICES ASSUME ~Excused' PROVE Kept'
      BY DEF Kept
    <2>2. Kept /\ ~Excused
      BY DEF SetupInv
    <2> QED BY <1>2, <1>3, <2>1, <2>2 DEF Kept, InProgress
  <1> QED BY <1>2, <1>4, <1>5, <1>6, <1>7, <1>8, <1>9, <1>10 DEF SetupInv

\* The daemon or the extension closes one socket.
LEMMA RejectsFades ==
    ASSUME SetupInv, NEW g \in DOMAIN conn,
           conn' = Without(conn, g), link' = IF Live(g) THEN Lost ELSE link
    PROVE  /\ Fades
           /\ \A h \in DOMAIN conn : h # g => h \in DOMAIN conn'
  <1>1. conn \in [DOMAIN conn -> Connection] /\ Sockets /\ link \in Link
    BY TypeOKParts DEF SetupInv, Types
  <1>2. DOMAIN conn' = DOMAIN conn \ {g} /\ \A h \in DOMAIN conn' : conn'[h] = conn[h]
    BY DEF Without
  <1>3. conn' \in [DOMAIN conn' -> Connection]
    <2>1. conn' = [h \in DOMAIN conn' |-> conn'[h]]
      BY <1>2 DEF Without
    <2> QED BY <1>1, <1>2, <2>1
  <1>4. Sockets'
    <2>1. CASE Live(g)
      <3>1. link'.open = FALSE
        BY <1>1, <2>1 DEF Lost, Link
      <3> QED BY <1>1, <1>2, <2>1, <3>1 DEF Sockets, Live
    <2>2. CASE ~Live(g)
      BY <1>1, <1>2, <2>2 DEF Sockets, Live
    <2> QED BY <2>1, <2>2
  <1> QED BY <1>2, <1>3, <1>4 DEF Fades

LEMMA SessionsStay ==
    ASSUME SetupInv, UNCHANGED <<registryVars, setup, history>>
    PROVE  /\ setup' \in Session /\ begun' \in 0 .. MaxSetups /\ cancelled' \subseteq Setups
           /\ committed' = committed /\ Sessions'
  <1>1. setup \in Session /\ begun \in 0 .. MaxSetups /\ cancelled \subseteq Setups
    BY TypeOKParts DEF SetupInv, Types
  <1> QED BY <1>1 DEF SetupInv, Sessions, registryVars, history

LEMMA SocketRejected ==
    ASSUME SetupInv, NEW g \in DOMAIN conn, conn[g].at # "pinning", Rejects(g),
           UNCHANGED <<registryVars, setup, stored, attempt, history, left>>
    PROVE  SetupInv'
  <1>1. Fades /\ \A h \in DOMAIN conn : h # g => h \in DOMAIN conn'
    BY RejectsFades DEF Rejects
  <1>2. Counted' /\ (Happened("late") => Happened("late")') /\ (Excused => Excused')
    BY NothingSpent DEF SetupInv, Events
  <1> QED BY <1>1, <1>2, SessionsStay, SocketCloses

LEMMA SocketLost ==
    ASSUME SetupInv, NEW g \in DOMAIN conn, ConnectionLost(g)
    PROVE  SetupInv'
  <1>1. Counted /\ link \in Link /\ Sockets /\ link.gen \in DOMAIN conn
    BY TypeOKParts DEF SetupInv, Types, ConnectionLost, Live
  <1>2. Spends("drops") /\ "drops" \in Events \ {"events"} /\ "late" \in Events
    BY DEF ConnectionLost, Events
  <1>3. Counted' /\ (Happened("late") => Happened("late")') /\ (Excused => Excused')
    BY <1>1, <1>2, SpentIsSpent, StillExcused
  <1>4. /\ DOMAIN conn' \subseteq DOMAIN conn /\ conn' \in [DOMAIN conn' -> Connection]
        /\ \A h \in DOMAIN conn' : conn'[h] = conn[h] /\ conn[h].at \in Sent
        /\ \A h \in DOMAIN conn : conn[h].at \in Sent => h \in DOMAIN conn'
    BY SocketGivenUp DEF ConnectionLost
  <1>5. link' = Lost /\ link'.open = FALSE
    BY <1>1 DEF ConnectionLost, Lost, Link
  <1>6. Fades
    BY <1>4, <1>5 DEF Fades, Sockets, Live, Sent
  <1>7. UNCHANGED <<registryVars, setup, stored, attempt, history>>
    BY DEF ConnectionLost
  <1> QED BY <1>3, <1>4, <1>6, <1>7, SessionsStay, SocketCloses DEF Sent

-----------------------------------------------------------------------------
(* The handshake. *)

\* Connection g gets on to state c.
LEMMA TurnsFacts ==
    ASSUME SetupInv, NEW g \in DOMAIN conn, NEW c \in Connection,
           conn' = [conn EXCEPT ![g] = c], UNCHANGED link,
           Live(g) \/ c.at \in Sent
    PROVE  /\ DOMAIN conn' = DOMAIN conn /\ conn'[g] = c
           /\ \A h \in DOMAIN conn : h # g => conn'[h] = conn[h]
           /\ conn' \in [DOMAIN conn' -> Connection] /\ Sockets'
  <1>1. conn \in [DOMAIN conn -> Connection] /\ Sockets
    BY TypeOKParts DEF SetupInv, Types
  <1>2. /\ DOMAIN conn' = DOMAIN conn /\ conn'[g] = c
        /\ \A h \in DOMAIN conn : h # g => conn'[h] = conn[h]
    OBVIOUS
  <1>3. conn' \in [DOMAIN conn' -> Connection]
    BY <1>1, <1>2
  <1>4. Sockets'
    BY <1>1, <1>2 DEF Sockets, Live, Sent
  <1> QED BY <1>2, <1>3, <1>4

LEMMA SocketTurns ==
    ASSUME SetupInv, NEW g \in DOMAIN conn, NEW c \in Connection,
           conn' = [conn EXCEPT ![g] = c], Live(g) \/ c.at \in Sent,
           c.kind = conn[g].kind, c.token = conn[g].token, c.setup = conn[g].setup,
           conn[g].at \notin {"pinning", "acked"}, c.at \notin {"hello", "pinning"},
           c.at \in {"signed", "acked"} => c.mode = c.token,
           c.kind # "ordinary" => c.mode = "derived",
           c.at = "signed" => \A n \in 1 .. Len(pins) : pins[n].gen < g,
           c.mode = "legacy" => registry = "legacy" \/ (conn[g].at # "hello" /\ conn[g].mode = "legacy"),
           c.mode = "derived" /\ c.kind = "ordinary" => registry = "derived" \/ conn[g].mode = "derived",
           c.at = "acked" => c.kind = "provisioning",
           UNCHANGED <<registryVars, link, stored, attempt, history, left>>,
           setup' \in Session, Sessions'
    PROVE  SetupInv'
  <1>1. Types /\ Sockets /\ Alone /\ Handshakes
    BY TypeOKParts DEF SetupInv
  <1>2. /\ DOMAIN conn' = DOMAIN conn /\ conn'[g] = c
        /\ \A h \in DOMAIN conn : h # g => conn'[h] = conn[h]
        /\ conn' \in [DOMAIN conn' -> Connection] /\ Sockets'
    BY TurnsFacts
  <1>3. TypeOK' /\ AllFit' /\ Counted'
    BY <1>1, <1>2, TypeOKPartsNext, NothingSpent
    DEF Types, Alone, InProgress, SetupInv, AllFit, Fits, Fresh, Durables, registryVars, history
  <1>4. Handshakes'
    <2>1. ASSUME NEW h \in DOMAIN conn'
          PROVE  /\ conn'[h].kind # "ordinary" => conn'[h].token = "derived" /\ conn'[h].setup # NoSetup
                 /\ conn'[h].kind = "ordinary" => conn'[h].setup = NoSetup
                 /\ conn'[h].at \in {"signed", "pinning", "acked"} => conn'[h].mode = conn'[h].token
                 /\ conn'[h].at # "hello" /\ conn'[h].kind # "ordinary" => conn'[h].mode = "derived"
                 /\ conn'[h].at = "pinning" => conn'[h].kind # "provisioning"
      BY <1>1, <1>2, <2>1 DEF Handshakes
    <2>2. link.phase = "connected" => link.open /\ conn[link.gen].at = "acked" /\ link.gen # g
      BY <1>1 DEF Handshakes
    <2> QED BY <1>1, <1>2, <2>1, <2>2 DEF Handshakes, Sockets
  <1>5. Queued'
    <2>1. Queued /\ pins' = pins
      BY DEF SetupInv, registryVars
    <2> QED BY <1>2, <2>1 DEF Queued
  <1>6. Registry'
    <2>1. registry' = registry /\ disk' = disk /\ saving' = saving /\ pins' = pins
      BY DEF registryVars
    <2>2. "legacy" \notin {registry, disk, saving} /\ (\A h \in DOMAIN conn : conn[h].at # "hello" => conn[h].mode # "legacy")
             => \A h \in DOMAIN conn' : conn'[h].at # "hello" => conn'[h].mode # "legacy"
      BY <1>2
    <2> QED BY <2>1, <2>2 DEF SetupInv, Registry, Happened, Bounds
  <1>7. Stored'
    BY <1>2 DEF SetupInv, Stored, registryVars, history
  <1>8. Exclusive'
    BY DEF SetupInv, Exclusive, InProgress, Durables, Writing
  <1>9. Proves'
    <2>1. \A h \in DOMAIN conn' : conn'[h].at = "acked" /\ conn'[h].kind # "provisioning" => conn'[h] = conn[h]
      BY <1>2
    <2>2. \A h \in DOMAIN conn' : conn'[h].token = conn[h].token /\ conn'[h].kind = conn[h].kind
      BY <1>2
    <2> QED BY <1>2, <2>1, <2>2 DEF SetupInv, Proves, InProgress, registryVars
  <1>10. Kept'
    <2>1. Calm => Calm'
      <3> SUFFICES ASSUME Calm PROVE Calm'
        OBVIOUS
      <3>1. registry' = registry /\ saving' = saving /\ pins' = pins /\ link' = link
        BY DEF registryVars
      <3>2. ASSUME NEW h \in DOMAIN conn', conn'[h].at \in {"hello", "challenge", "signed"}
            PROVE  /\ conn'[h].kind # "persisted"
                   /\ conn'[h].kind = "ordinary" => conn'[h].mode # "derived"
        <4>1. CASE h = g
          <5>1. conn[g].at \in {"hello", "challenge", "signed"}
            BY <1>1 DEF Types, Connection
          <5> QED BY <1>2, <4>1, <5>1 DEF Calm
        <4>2. CASE h # g
          BY <1>2, <3>2, <4>2 DEF Calm
        <4> QED BY <4>1, <4>2
      <3> QED BY <3>1, <3>2 DEF Calm
    <2>2. Excused' <=> Excused
      BY NothingSpent
    <2> SUFFICES ASSUME ~Excused PROVE Kept'
      BY <2>2 DEF Kept
    <2>3. Kept
      BY DEF SetupInv
    <2>4. \A h \in DOMAIN conn' : conn'[h].at = "acked" /\ conn'[h].mode = "legacy" => conn'[h] = conn[h]
      BY <1>2
    <2>5. \A h \in DOMAIN conn' : conn'[h].token = conn[h].token
      BY <1>2
    <2> QED BY <1>2, <2>1, <2>3, <2>4, <2>5 DEF Kept, InProgress
  <1> QED BY <1>3, <1>4, <1>5, <1>6, <1>7, <1>8, <1>9, <1>10 DEF SetupInv

LEMMA HelloAnswered ==
    ASSUME SetupInv, NEW g \in DOMAIN conn, ClientHello(g)
    PROVE  SetupInv'
  <1> DEFINE mode == IF conn[g].kind = "ordinary" THEN registry ELSE "derived"
             c == [conn[g] EXCEPT !.at = "challenge", !.mode = mode]
  <1>1. /\ conn[g] \in Connection /\ Sockets /\ conn[g].at = "hello" /\ registry \in Modes
    BY TypeOKParts DEF SetupInv, Types, ClientHello
  <1>2. UNCHANGED <<registryVars, setup, stored, attempt, history, left>>
    BY DEF ClientHello
  <1>3. CASE Rejects(g)
    BY <1>1, <1>2, <1>3, SocketRejected
  <1>4. CASE conn' = [conn EXCEPT ![g].at = "challenge", ![g].mode = mode] /\ UNCHANGED link
    <2>1. conn' = [conn EXCEPT ![g] = c]
      BY <1>4
    <2>2. /\ c \in Connection /\ c.at = "challenge" /\ c.mode = mode /\ c.kind = conn[g].kind
          /\ c.token = conn[g].token /\ c.setup = conn[g].setup
      BY <1>1 DEF Connection, Modes
    <2>3. Live(g)
      BY <1>1 DEF Sockets
    <2>4. setup' \in Session /\ Sessions'
      BY <1>2, SessionsStay
    <2>5. mode = (IF conn[g].kind = "ordinary" THEN registry ELSE "derived")
      OBVIOUS
    <2> HIDE DEF c, mode
    <2>6. /\ conn[g].at \notin {"pinning", "acked"} /\ c.at \notin {"hello", "pinning", "signed", "acked"}
          /\ c.kind # "ordinary" => c.mode = "derived"
          /\ c.mode = "legacy" => registry = "legacy"
          /\ c.mode = "derived" /\ c.kind = "ordinary" => registry = "derived"
      BY <1>1, <2>2, <2>5
    <2> QED BY <1>2, <1>4, <2>1, <2>2, <2>3, <2>4, <2>6, SocketTurns
  <1> QED BY <1>3, <1>4 DEF ClientHello

LEMMA ChallengeAnswered ==
    ASSUME SetupInv, NEW g \in DOMAIN conn, Challenged(g)
    PROVE  SetupInv'
  <1> DEFINE c == [conn[g] EXCEPT !.at = "signed"]
  <1>1. /\ conn[g] \in Connection /\ conn[g].at = "challenge" /\ Live(g) /\ g \in Nat /\ Handshakes
        /\ \A h \in DOMAIN conn : h \in Nat /\ h <= link.gen
        /\ Queued
    BY TypeOKParts DEF SetupInv, Types, Challenged, Handshakes, Link
  <1>2. UNCHANGED <<registryVars, setup, stored, attempt, history, left>>
    BY DEF Challenged
  <1>3. CASE conn[g].mode # conn[g].token
    <2>1. Rejects(g)
      BY <1>1, <1>3 DEF Challenged, Rejects
    <2> QED BY <1>1, <1>2, <2>1, SocketRejected
  <1>4. CASE conn[g].mode = conn[g].token
    <2>1. conn' = [conn EXCEPT ![g] = c] /\ UNCHANGED link
      BY <1>4 DEF Challenged
    <2>2. /\ c \in Connection /\ c.at = "signed" /\ c.mode = conn[g].mode /\ c.kind = conn[g].kind
          /\ c.token = conn[g].token /\ c.setup = conn[g].setup
      BY <1>1 DEF Connection
    <2>3. setup' \in Session /\ Sessions'
      BY <1>2, SessionsStay
    <2>4. \A n \in 1 .. Len(pins) : pins[n].gen < g
      <3> SUFFICES ASSUME NEW n \in 1 .. Len(pins) PROVE pins[n].gen < g
        OBVIOUS
      <3>1. pins[n].gen \in DOMAIN conn /\ conn[pins[n].gen].at = "pinning"
        BY <1>1 DEF Queued
      <3>2. g = link.gen
        BY <1>1 DEF Live
      <3> QED BY <1>1, <3>1, <3>2
    <2> HIDE DEF c
    <2>5. c.kind # "ordinary" => c.mode = "derived"
      BY <1>1, <2>2 DEF Handshakes
    <2> QED BY <1>1, <1>2, <1>4, <2>1, <2>2, <2>3, <2>4, <2>5, SocketTurns
  <1> QED BY <1>3, <1>4

LEMMA Provisioned ==
    ASSUME SetupInv, NEW g \in DOMAIN conn, Provision(g)
    PROVE  SetupInv'
  <1> DEFINE c == [conn[g] EXCEPT !.at = "acked"]
  <1>1. /\ conn[g] \in Connection /\ conn[g].at = "signed" /\ conn[g].kind = "provisioning"
        /\ setup \in Session /\ begun \in 0 .. MaxSetups /\ cancelled \subseteq Setups
        /\ Handshakes
    BY TypeOKParts DEF SetupInv, Types, Provision
  <1>2. UNCHANGED <<registryVars, stored, attempt, history, left>>
    BY DEF Provision
  <1>3. CASE Rejects(g) /\ UNCHANGED setup
    BY <1>1, <1>2, <1>3, SocketRejected
  <1>4. CASE Bound(conn[g]) /\ ~setup.committing
    <2>1. /\ setup' \in Session /\ setup'.id = setup.id /\ setup'.completed = setup.completed
          /\ setup'.committing = setup.committing
      BY <1>1, <1>4 DEF Session, Provision
    <2>2. Sessions'
      BY <1>2, <2>1 DEF SetupInv, Sessions, registryVars, history
    <2>3. CASE Live(g) /\ conn' = [conn EXCEPT ![g].at = "acked"] /\ UNCHANGED link
      <3>1. conn' = [conn EXCEPT ![g] = c]
        BY <2>3
      <3>2. /\ c \in Connection /\ c.at = "acked" /\ c.mode = conn[g].mode /\ c.kind = "provisioning"
            /\ c.token = conn[g].token /\ c.setup = conn[g].setup
        BY <1>1 DEF Connection
      <3>3. conn[g].mode = conn[g].token /\ conn[g].mode = "derived"
        BY <1>1 DEF Handshakes
      <3> HIDE DEF c
      <3>4. /\ conn[g].at \notin {"pinning", "acked"} /\ c.at \notin {"hello", "pinning", "signed"}
            /\ c.mode = "derived" /\ c.mode = c.token /\ c.kind = conn[g].kind
        BY <1>1, <3>2, <3>3
      <3>5. Live(g) /\ UNCHANGED link /\ c.kind # "ordinary"
        BY <2>3, <3>2
      <3> QED BY <1>2, <2>1, <2>2, <3>1, <3>2, <3>4, <3>5, SocketTurns
    <2>4. CASE ~Live(g) /\ conn' = Without(conn, g) /\ UNCHANGED link
      <3>1. Fades /\ \A h \in DOMAIN conn : h # g => h \in DOMAIN conn'
        BY <2>4, RejectsFades
      <3>2. Counted' /\ (Happened("late") => Happened("late")') /\ (Excused => Excused')
        BY <1>2, NothingSpent DEF SetupInv, Events
      <3> QED BY <1>1, <1>2, <2>1, <2>2, <3>1, <3>2, SocketCloses DEF history
    <2> QED BY <1>4, <2>3, <2>4 DEF Provision
  <1> QED BY <1>3, <1>4 DEF Provision

LEMMA Acknowledged ==
    ASSUME SetupInv, NEW g \in DOMAIN conn, HelloAck(g)
    PROVE  SetupInv'
  <1>1. Types /\ Sockets /\ Alone /\ Handshakes /\ conn[g].at = "acked" /\ Live(g)
    BY TypeOKParts DEF SetupInv, HelloAck
  <1>2. /\ UNCHANGED <<registryVars, setup, conn, stored, attempt, history, left>>
        /\ link' \in Link /\ link'.gen = link.gen /\ link'.kind = link.kind /\ link'.setup = link.setup
        /\ link'.open = link.open /\ link'.step = link.step /\ link'.token = link.token
    BY <1>1 DEF HelloAck, Types, Link
  <1>3. TypeOK'
    BY <1>1, <1>2, TypeOKPartsNext DEF Types, Sockets, Live, Alone, InProgress, registryVars, history
  <1>4. Counted' /\ AllFit'
    BY <1>2, NothingSpent DEF SetupInv, AllFit, Fits, Fresh, Durables
  <1>5. Handshakes'
    BY <1>1, <1>2 DEF Handshakes, Live
  <1>6. Queued' /\ Registry' /\ Sessions'
    BY <1>2 DEF SetupInv, Queued, Registry, Sessions, Happened, Bounds, registryVars, history
  <1>7. Stored' /\ Exclusive' /\ Proves'
    BY <1>2 DEF SetupInv, Stored, Exclusive, Proves, InProgress, Durables, Writing, registryVars, history
  <1>8. Kept'
    <2>1. (Excused' <=> Excused) /\ (Calm => Calm')
      BY <1>2, NothingSpent DEF Calm, registryVars
    <2>2. Kept
      BY DEF SetupInv
    <2> QED BY <1>2, <2>1, <2>2 DEF Kept, InProgress
  <1> QED BY <1>3, <1>4, <1>5, <1>6, <1>7, <1>8 DEF SetupInv

-----------------------------------------------------------------------------
(* The setup session of the daemon, and its restarts. *)

LEMMA ClearsSessionFades ==
    ASSUME SetupInv, NEW s, ClearsSession(s)
    PROVE  Fades /\ \A g \in DOMAIN conn : conn[g].at = "pinning" => g \in DOMAIN conn'
  <1>1. conn \in [DOMAIN conn -> Connection] /\ Sockets
    BY TypeOKParts DEF SetupInv, Types
  <1>2. CASE Live(link.gen) /\ conn[link.gen].at = "acked" /\ conn' = Without(conn, link.gen) /\ link' = Lost
    <2>1. link.gen \in DOMAIN conn
      BY <1>1, <1>2 DEF Sockets, Live
    <2> QED BY <1>2, <2>1, RejectsFades
  <1>3. CASE UNCHANGED <<conn, link>>
    BY <1>1, <1>3 DEF Fades, Sockets, Live
  <1> QED BY <1>2, <1>3 DEF ClearsSession

LEMMA SessionCleared ==
    ASSUME SetupInv, NEW s \in Session, ClearsSession(s),
           UNCHANGED <<registryVars, stored, attempt, committed, left>>,
           begun' \in 0 .. MaxSetups, cancelled' \subseteq Setups, Sessions'
    PROVE  SetupInv'
  <1>1. Fades /\ (\A g \in DOMAIN conn : conn[g].at = "pinning" => g \in DOMAIN conn') /\ setup' = s
    BY ClearsSessionFades DEF ClearsSession
  <1>2. Counted' /\ (Happened("late") => Happened("late")') /\ (Excused => Excused')
    BY NothingSpent DEF SetupInv, Events
  <1> QED BY <1>1, <1>2, SocketCloses

LEMMA SessionBegun ==
    ASSUME SetupInv, Begin
    PROVE  SetupInv'
  <1> DEFINE s == [Closed EXCEPT !.id = begun + 1]
  <1>1. /\ begun \in 0 .. MaxSetups /\ cancelled \subseteq Setups /\ committed \subseteq Setups
        /\ Sessions /\ MaxSetups \in Nat
    BY TypeOKParts, BoundsTyped DEF SetupInv, Types
  <1>2. /\ begun + 1 \in Setups /\ begun' = begun + 1 /\ begun' \in 0 .. MaxSetups
        /\ ClearsSession(s) /\ UNCHANGED <<registryVars, stored, attempt, cancelled, committed, left>>
    BY <1>1 DEF Begin, Setups
  <1>3. s \in Session /\ s.id = begun + 1 /\ ~s.completed /\ ~s.committing
    BY <1>2 DEF Closed, Session
  <1> HIDE DEF s
  <1>4. setup' = s
    BY <1>2 DEF ClearsSession
  <1>5. Sessions'
    <2>1. setup'.id = begun + 1 /\ ~setup'.completed /\ begun' = begun + 1 /\ begun \in Nat
      BY <1>1, <1>2, <1>3, <1>4
    <2>2. pins' = pins /\ committed' = committed /\ cancelled' = cancelled
      BY <1>2 DEF registryVars
    <2>3. \A i \in cancelled : i \in Nat /\ i <= begun
      BY <1>1 DEF Sessions, Setups
    <2>4. \A n \in 1 .. Len(pins) : pins[n].setup \notin committed \cup {NoSetup} =>
             pins[n].setup \in Nat /\ pins[n].setup <= begun
      BY <1>1, NamedSetups DEF Sessions, Setups
    <2> QED BY <1>1, <2>1, <2>2, <2>3, <2>4 DEF Sessions
  <1> QED BY <1>1, <1>2, <1>3, <1>5, SessionCleared

LEMMA SessionEnded ==
    ASSUME SetupInv, Expire \/ \E i \in Setups : Cancel(i)
    PROVE  SetupInv'
  <1>1. /\ begun \in 0 .. MaxSetups /\ cancelled \subseteq Setups /\ Sessions /\ setup \in Session
    BY TypeOKParts DEF SetupInv, Types
  <1>2. Closed \in Session /\ Closed.id = 0 /\ ~Closed.completed
    BY DEF Closed, Session, NoSetup
  <1>3. CASE Expire
    <2>1. /\ ClearsSession(Closed) /\ setup' = Closed
          /\ UNCHANGED <<registryVars, stored, attempt, history, left>>
      BY <1>3 DEF Expire, ClearsSession
    <2>2. Sessions'
      BY <1>1, <1>2, <2>1 DEF Sessions, registryVars, history, Setups, NoSetup
    <2> QED BY <1>1, <1>2, <2>1, <2>2, SessionCleared DEF history
  <1>4. CASE \E i \in Setups : Cancel(i)
    <2>1. PICK i \in Setups : Cancel(i)
      BY <1>4
    <2>2. /\ ClearsSession(Closed) /\ setup' = Closed /\ cancelled' = cancelled \cup {i}
          /\ setup.id = i /\ ~setup.committing
          /\ UNCHANGED <<registryVars, stored, attempt, begun, committed, left>>
      BY <2>1 DEF Cancel, ClearsSession
    <2>3. Sessions'
      <3>1. 0 \notin cancelled' /\ i <= begun /\ begun' = begun
        BY <1>1, <2>2 DEF Sessions, Setups
      <3>2. \A j \in cancelled' : j <= begun
        BY <1>1, <2>2, <3>1 DEF Sessions
      <3>3. \A n \in 1 .. Len(pins) : pins[n].setup \notin committed \cup {NoSetup} =>
               /\ pins[n].setup <= begun /\ pins[n].setup \notin cancelled'
               /\ \A m \in 1 .. Len(pins) : pins[m].setup = pins[n].setup => m = n
        BY <1>1, <2>2 DEF Sessions
      <3> QED BY <1>1, <1>2, <2>2, <3>1, <3>2, <3>3 DEF Sessions, registryVars, NoSetup
    <2> QED BY <1>1, <1>2, <2>2, <2>3, SessionCleared
  <1> QED BY <1>3, <1>4

LEMMA CredentialIssued ==
    ASSUME SetupInv, NEW i \in Setups, Issue(i)
    PROVE  SetupInv'
  <1> DEFINE a == [attempt[i] EXCEPT !.pc = "issued"]
  <1>1. attempt[i] \in Attempt /\ Fits(attempt[i]) /\ attempt[i].pc = "pair"
        /\ setup \in Session /\ stored \in Modes /\ attempt \in [Setups -> Attempt]
    BY CallFacts, TypeOKParts DEF Issue, SetupInv, Types
  <1>2. /\ a \in Attempt /\ a.pc = "issued" /\ a.prior = attempt[i].prior
        /\ a.commit = attempt[i].commit /\ a.durable = attempt[i].durable
        /\ a.over = attempt[i].over /\ a.ok = attempt[i].ok /\ a.stopped = attempt[i].stopped
        /\ a.rollback = attempt[i].rollback /\ a.tries = attempt[i].tries
    BY <1>1 DEF Attempt, Phases
  <1>3. attempt' = [attempt EXCEPT ![i] = a]
    BY DEF Issue
  <1>4. /\ setup' \in Session /\ setup'.id = setup.id /\ setup'.completed = setup.completed
        /\ setup'.committing = setup.committing
    BY <1>1 DEF Issue, Session
  <1> HIDE DEF a
  <1>5. attempt' = [attempt EXCEPT ![i] = Ended(a)]
    BY <1>2, <1>3 DEF Ended
  <1>6. Fits(a)
    BY <1>1, <1>2 DEF Fits, Durables
  <1>7. FitsOthers(i, a)
    BY <1>1, <1>2, <1>6 DEF FitsOthers, Working, InProgress, Writing
  <1>8. FitsConnection(a) /\ a.pc \notin Durables \cup {"set", "verify"}
    BY <1>2 DEF FitsConnection, Proving, Durables
  <1>9. ~Excused => FitsPrior(a) /\ (stored = "legacy" => Calm)
    BY <1>1, <1>2, CallFacts DEF FitsPrior, Working, SetupInv, Kept
  <1>10. UNCHANGED <<registryVars, conn, link, stored, history, left>>
    BY DEF Issue
  <1> QED BY <1>1, <1>4, <1>5, <1>7, <1>8, <1>9, <1>10, CallWrites

LEMMA DaemonRestarted ==
    ASSUME SetupInv, Restart
    PROVE  SetupInv'
  <1>1. Types /\ Sockets /\ Alone /\ Counted /\ Registry
    BY TypeOKParts DEF SetupInv
  <1>2. Spends("restarts") /\ "restarts" \in Events \ {"events"} /\ "late" \in Events
    BY DEF Restart, Events
  <1>3. /\ Counted' /\ (Happened("late") => Happened("late")') /\ Happened("restarts")'
        /\ (Excused => Excused')
    BY <1>1, <1>2, SpentIsSpent, StillExcused
  <1>4. /\ registry' = disk' /\ saving' = Idle /\ setup' = Closed /\ pins' = <<>> /\ conn' = <<>>
        /\ disk' \in (IF saving = Idle THEN {disk} ELSE {disk, registry})
        /\ link' = (IF link.open THEN Lost ELSE link)
        /\ UNCHANGED <<stored, attempt, history>>
    BY DEF Restart
  <1>5. DOMAIN conn' = {} /\ Len(pins') = 0
    BY <1>4
  <1>6. Fades
    <2>1. ~link'.open
      BY <1>1, <1>4 DEF Types, Link, Lost
    <2>2. conn' \in [DOMAIN conn' -> Connection]
      BY <1>4, <1>5
    <2> QED BY <1>4, <1>5, <2>1, <2>2 DEF Fades, Sockets
  <1>7. /\ link' \in Link /\ link'.gen = link.gen /\ link'.kind = link.kind
        /\ link'.token = link.token /\ link'.step = link.step /\ link'.setup = link.setup
        /\ Handshakes'
    BY <1>6, LinkFades
  <1>8. Closed \in Session /\ Closed.id = 0 /\ ~Closed.completed
    BY DEF Closed, Session, NoSetup
  <1>9. TypeOK'
    <2>1. disk' \in Modes /\ pins' \in Seq([gen : Nat, mode : Modes \ {None}, setup : Setups \cup {NoSetup}])
      BY <1>1, <1>4 DEF Types
    <2> QED BY <1>1, <1>4, <1>6, <1>7, <1>8, <2>1, TypeOKPartsNext
          DEF Fades, Types, Alone, InProgress, history
  <1>10. AllFit'
    BY <1>4 DEF SetupInv, AllFit, Fits, Fresh, Durables
  <1>11. Queued'
    BY <1>5 DEF Queued
  <1>12. Registry'
    BY <1>1, <1>4, <1>5 DEF Registry, Idle, None
  <1>13. Sessions'
    <2>1. begun \in Nat /\ 0 \notin cancelled
      BY <1>1 DEF Types, Setups
    <2> QED BY <1>4, <1>5, <1>8, <2>1 DEF SetupInv, Sessions, history
  <1>14. Stored'
    BY <1>4, <1>5, <1>7 DEF SetupInv, Stored, history
  <1>15. Exclusive'
    BY <1>4 DEF SetupInv, Exclusive, InProgress, Durables, Writing
  <1>16. Proves'
    BY <1>4, <1>5, <1>7 DEF SetupInv, Proves, InProgress
  <1>17. Kept'
    <2> SUFFICES ASSUME ~Excused' PROVE Kept'
      BY DEF Kept
    <2>1. Kept /\ ~Happened("late")
      BY <1>3 DEF SetupInv, Excused
    <2>2. Calm => Calm'
      BY <1>1, <1>4, <1>5, <1>7, <2>1 DEF Calm, Registry
    <2> QED BY <1>3, <1>4, <1>5, <1>7, <2>1, <2>2 DEF Kept, InProgress, SetupInv
  <1> QED BY <1>3, <1>7, <1>9, <1>10, <1>11, <1>12, <1>13, <1>14, <1>15, <1>16, <1>17 DEF SetupInv

-----------------------------------------------------------------------------
(* The pin() calls. *)

PinCall == [gen : Nat, mode : Modes \ {None}, setup : Setups \cup {NoSetup}]

LEMMA PinsTyped ==
    ASSUME SetupInv
    PROVE  /\ pins \in Seq(PinCall) /\ \A n \in 1 .. Len(pins) : pins[n] \in PinCall
           /\ saving # Idle => pins # <<>>
           /\ pins # <<>> => Len(pins) > 0 /\ Head(pins) = pins[1] /\ pins[1] \in PinCall
  <1>1. pins \in Seq(PinCall)
    BY TypeOKParts DEF SetupInv, Types, PinCall
  <1>2. \A n \in 1 .. Len(pins) : pins[n] \in PinCall
    BY <1>1
  <1>3. saving # Idle => pins # <<>>
    BY DEF SetupInv, Registry
  <1>4. pins # <<>> => Len(pins) > 0 /\ Head(pins) = pins[1]
    BY <1>1
  <1> QED BY <1>1, <1>2, <1>3, <1>4

LEMMA PinJoins ==
    ASSUME SetupInv, NEW p \in PinCall, pins' = Append(pins, p)
    PROVE  /\ pins' \in Seq(PinCall) /\ Len(pins') = Len(pins) + 1 /\ Len(pins) \in Nat
           /\ pins'[Len(pins) + 1] = p
           /\ \A n \in 1 .. Len(pins) : pins'[n] = pins[n]
           /\ pins' # <<>>
           /\ pins # <<>> => Head(pins') = Head(pins)
  <1>1. pins \in Seq(PinCall)
    BY PinsTyped
  <1>2. /\ pins' \in Seq(PinCall) /\ Len(pins') = Len(pins) + 1 /\ Len(pins) \in Nat
        /\ pins'[Len(pins) + 1] = p
        /\ \A n \in 1 .. Len(pins) : pins'[n] = pins[n]
    BY <1>1
  <1>3. pins' # <<>> /\ (pins # <<>> => Head(pins') = Head(pins))
    BY <1>1, <1>2
  <1> QED BY <1>2, <1>3

LEMMA PinLeaves ==
    ASSUME SetupInv, pins # <<>>, pins' = Tail(pins)
    PROVE  /\ pins' \in Seq(PinCall) /\ Len(pins') = Len(pins) - 1 /\ Len(pins) \in Nat \ {0}
           /\ \A n \in 1 .. Len(pins') : pins'[n] = pins[n + 1] /\ n + 1 \in 1 .. Len(pins)
  <1>1. pins \in Seq(PinCall)
    BY PinsTyped
  <1>2. pins' \in Seq(PinCall) /\ Len(pins') = Len(pins) - 1 /\ Len(pins) \in Nat \ {0}
    BY <1>1
  <1>3. \A n \in 1 .. Len(pins') : pins'[n] = pins[n + 1] /\ n + 1 \in 1 .. Len(pins)
    BY <1>1, <1>2
  <1> QED BY <1>2, <1>3

\* A signed hello that passes its checks waits for its pin() at the end of the queue.
LEMMA PinAsked ==
    ASSUME SetupInv, NEW g \in DOMAIN conn, Authenticate(g), ~Rejects(g)
    PROVE  SetupInv'
  <1> DEFINE c == [conn[g] EXCEPT !.at = "pinning"]
             p == [gen |-> g, mode |-> conn[g].mode, setup |-> conn[g].setup]
  <1>1. Types /\ Sockets /\ Alone /\ Handshakes /\ Queued /\ Registry /\ Sessions
    BY TypeOKParts DEF SetupInv
  <1>2. /\ conn[g] \in Connection /\ conn[g].at = "signed" /\ conn[g].kind # "provisioning"
        /\ conn[g].mode = conn[g].token /\ conn[g].mode # None /\ g \in Nat
        /\ \A h \in DOMAIN conn : h \in Nat /\ (conn[h].at = "signed" => g <= h)
    BY <1>1 DEF Authenticate, Types, Handshakes, Connection, InOrder, Link
  <1>3. /\ pins' = Append(pins, p) /\ conn' = [conn EXCEPT ![g] = c] /\ UNCHANGED link
        /\ conn[g].kind = "persisted" => Bound(conn[g]) /\ ~setup.committing
        /\ setup' = IF conn[g].kind = "persisted" /\ ~setup.completed
                    THEN [setup EXCEPT !.committing = TRUE] ELSE setup
        /\ UNCHANGED <<registry, disk, saving, stored, attempt, history, left>>
    BY DEF Authenticate
  <1>4. /\ c \in Connection /\ c.at = "pinning" /\ c.mode = conn[g].mode /\ c.kind = conn[g].kind
        /\ c.token = conn[g].token /\ c.setup = conn[g].setup
    BY <1>2 DEF Connection
  <1>5. /\ p \in PinCall /\ p.gen = g /\ p.mode = conn[g].mode /\ p.setup = conn[g].setup
    BY <1>2 DEF PinCall, Connection
  <1> HIDE DEF c, p
  <1>6. /\ DOMAIN conn' = DOMAIN conn /\ conn'[g] = c
        /\ \A h \in DOMAIN conn : h # g => conn'[h] = conn[h]
        /\ conn' \in [DOMAIN conn' -> Connection] /\ Sockets'
    BY <1>3, <1>4, TurnsFacts DEF Sent
  <1>7. /\ pins' \in Seq(PinCall) /\ Len(pins') = Len(pins) + 1 /\ Len(pins) \in Nat
        /\ pins'[Len(pins) + 1] = p
        /\ \A n \in 1 .. Len(pins) : pins'[n] = pins[n]
        /\ pins' # <<>>
        /\ pins # <<>> => Head(pins') = Head(pins)
    BY <1>3, <1>5, PinJoins
  <1>8. /\ setup' \in Session /\ setup'.id = setup.id /\ setup'.completed = setup.completed
        /\ setup.committing => setup'.committing
        /\ conn[g].kind = "persisted" /\ ~setup.completed => setup'.committing
    BY <1>1, <1>3 DEF Types, Session
  <1>9. TypeOK'
    BY <1>1, <1>3, <1>6, <1>7, <1>8, TypeOKPartsNext DEF Types, Alone, InProgress, PinCall, history
  <1>10. Counted' /\ AllFit'
    BY <1>3, NothingSpent DEF SetupInv, AllFit, Fits, Fresh, Durables
  <1>11. Handshakes'
    <2>1. ASSUME NEW h \in DOMAIN conn'
          PROVE  /\ conn'[h].kind # "ordinary" => conn'[h].token = "derived" /\ conn'[h].setup # NoSetup
                 /\ conn'[h].kind = "ordinary" => conn'[h].setup = NoSetup
                 /\ conn'[h].at \in {"signed", "pinning", "acked"} => conn'[h].mode = conn'[h].token
                 /\ conn'[h].at # "hello" /\ conn'[h].kind # "ordinary" => conn'[h].mode = "derived"
                 /\ conn'[h].at = "pinning" => conn'[h].kind # "provisioning"
      BY <1>1, <1>2, <1>4, <1>6, <2>1 DEF Handshakes
    <2>2. link.phase = "connected" => link.open /\ conn[link.gen].at = "acked" /\ link.gen # g
      BY <1>1, <1>2 DEF Handshakes
    <2> QED BY <1>1, <1>3, <1>6, <2>1, <2>2 DEF Handshakes, Sockets
  <1>12. Queued'
    <2>1. ASSUME NEW n \in 1 .. Len(pins)
          PROVE  /\ pins[n].gen \in DOMAIN conn /\ conn[pins[n].gen].at = "pinning"
                 /\ conn[pins[n].gen].mode = pins[n].mode /\ conn[pins[n].gen].setup = pins[n].setup
                 /\ \A m \in 1 .. Len(pins) : m < n => pins[m].gen < pins[n].gen
                 /\ \A h \in DOMAIN conn : conn[h].at = "signed" => pins[n].gen < h
                 /\ pins[n].gen < g /\ pins[n].gen # g
      BY <1>1, <1>2, <2>1 DEF Queued
    <2>2. \A h \in DOMAIN conn' : conn'[h].at = "signed" => conn[h].at = "signed" /\ h # g /\ g < h
      BY <1>2, <1>4, <1>6
    <2>3. ASSUME NEW n \in 1 .. Len(pins)
          PROVE  /\ pins'[n].gen \in DOMAIN conn' /\ conn'[pins'[n].gen].at = "pinning"
                 /\ conn'[pins'[n].gen].mode = pins'[n].mode /\ conn'[pins'[n].gen].setup = pins'[n].setup
                 /\ \A m \in 1 .. Len(pins') : m < n => pins'[m].gen < pins'[n].gen
                 /\ \A h \in DOMAIN conn' : conn'[h].at = "signed" => pins'[n].gen < h
      BY <1>6, <1>7, <2>1, <2>2
    <2>4. LET n == Len(pins) + 1 IN
                 /\ pins'[n].gen \in DOMAIN conn' /\ conn'[pins'[n].gen].at = "pinning"
                 /\ conn'[pins'[n].gen].mode = pins'[n].mode /\ conn'[pins'[n].gen].setup = pins'[n].setup
                 /\ \A m \in 1 .. Len(pins') : m < n => pins'[m].gen < pins'[n].gen
                 /\ \A h \in DOMAIN conn' : conn'[h].at = "signed" => pins'[n].gen < h
      BY <1>4, <1>5, <1>6, <1>7, <2>1, <2>2
    <2>5. \A n \in 1 .. Len(pins') : n \in 1 .. Len(pins) \/ n = Len(pins) + 1
      BY <1>7
    <2> QED BY <2>3, <2>4, <2>5 DEF Queued
  <1>13. \A n \in 1 .. Len(pins') : pins'[n] = p \/ \E m \in 1 .. Len(pins) : pins'[n] = pins[m]
    BY <1>7
  <1>14. Registry'
    <2>1. \A h \in DOMAIN conn' : conn'[h].mode = conn[h].mode /\ (conn'[h].at # "hello" => conn[h].at # "hello")
      BY <1>2, <1>4, <1>6
    <2>2. \/ /\ "legacy" \notin {registry, disk, saving}
             /\ \A h \in DOMAIN conn' : conn'[h].at # "hello" => conn'[h].mode # "legacy"
             /\ \A n \in 1 .. Len(pins') : pins'[n].mode # "legacy"
          \/ None \notin {registry, disk, saving}
      BY <1>1, <1>2, <1>5, <1>6, <1>13, <2>1 DEF Registry
    <2> QED BY <1>1, <1>3, <1>7, <2>2 DEF Registry, Happened, Bounds
  <1>15. Sessions'
    <2>1. conn[g].kind # "ordinary" => conn[g].kind = "persisted"
      BY <1>2 DEF Connection, Kinds
    <2>2. p.setup # NoSetup => conn[g].kind = "persisted" /\ setup.id = p.setup /\ ~setup.committing
      BY <1>1, <1>3, <1>5, <2>1 DEF Handshakes, Bound
    <2>3. p.setup \notin committed \cup {NoSetup} =>
             /\ p.setup <= begun /\ p.setup \notin cancelled /\ setup'.committing
             /\ \A m \in 1 .. Len(pins) : pins[m].setup # p.setup
      BY <1>1, <1>8, <2>2 DEF Sessions
    <2>4. ASSUME NEW n \in 1 .. Len(pins'), pins'[n].setup \notin committed \cup {NoSetup}
          PROVE  /\ pins'[n].setup <= begun /\ pins'[n].setup \notin cancelled
                 /\ setup'.id = pins'[n].setup => setup'.committing
                 /\ \A m \in 1 .. Len(pins') : pins'[m].setup = pins'[n].setup => m = n
      <3>1. CASE n \in 1 .. Len(pins)
        <4>1. /\ pins[n].setup <= begun /\ pins[n].setup \notin cancelled
              /\ setup.id = pins[n].setup => setup.committing
              /\ \A m \in 1 .. Len(pins) : pins[m].setup = pins[n].setup => m = n
          BY <1>1, <1>7, <2>4, <3>1 DEF Sessions
        <4>2. pins'[n] = pins[n] /\ pins[n].setup # p.setup
          BY <1>7, <2>3, <2>4, <3>1
        <4> QED BY <1>7, <1>8, <4>1, <4>2
      <3>2. CASE n = Len(pins) + 1
        BY <1>7, <2>3, <2>4, <3>2
      <3> QED BY <1>7, <3>1, <3>2
    <2> QED BY <1>1, <1>3, <1>8, <2>4 DEF Sessions, history
  <1>16. Stored'
    <2>1. p.setup # NoSetup => attempt[p.setup].durable
      BY <1>1, <1>2, <1>5 DEF SetupInv, Stored, Handshakes, Connection, Kinds
    <2>2. \A h \in DOMAIN conn' : conn'[h].kind = conn[h].kind /\ conn'[h].setup = conn[h].setup
      BY <1>4, <1>6
    <2> QED BY <1>3, <1>6, <1>13, <2>1, <2>2 DEF SetupInv, Stored, history
  <1>17. Exclusive'
    BY <1>3 DEF SetupInv, Exclusive, InProgress, Durables, Writing
  <1>18. Proves'
    <2>1. \A h \in DOMAIN conn' : conn'[h].at = "acked" => conn'[h] = conn[h]
      BY <1>4, <1>6
    <2>2. \A h \in DOMAIN conn' : conn'[h].kind = conn[h].kind /\ conn'[h].token = conn[h].token
      BY <1>4, <1>6
    <2> QED BY <1>3, <1>6, <2>1, <2>2 DEF SetupInv, Proves, InProgress
  <1>19. Kept'
    <2>1. Calm => Calm'
      <3> SUFFICES ASSUME Calm PROVE Calm'
        OBVIOUS
      <3>1. p.mode # "derived"
        BY <1>2, <1>5 DEF Calm, Connection, Kinds
      <3>2. \A h \in DOMAIN conn' : conn'[h].at \in {"hello", "challenge", "signed"} => conn'[h] = conn[h]
        BY <1>4, <1>6
      <3>3. \A n \in 1 .. Len(pins') : pins'[n].mode # "derived"
        BY <1>13, <3>1 DEF Calm
      <3> QED BY <1>3, <1>6, <3>2, <3>3 DEF Calm
    <2>2. Excused' <=> Excused
      BY <1>3, NothingSpent
    <2> SUFFICES ASSUME ~Excused PROVE Kept'
      BY <2>2 DEF Kept
    <2>3. Kept
      BY DEF SetupInv
    <2>4. \A h \in DOMAIN conn' : conn'[h].at = "acked" => conn'[h] = conn[h]
      BY <1>4, <1>6
    <2>5. \A h \in DOMAIN conn' : conn'[h].token = conn[h].token
      BY <1>4, <1>6
    <2> QED BY <1>3, <1>6, <2>1, <2>3, <2>4, <2>5 DEF Kept, InProgress
  <1> QED BY <1>9, <1>10, <1>11, <1>12, <1>14, <1>15, <1>16, <1>17, <1>18, <1>19 DEF SetupInv

LEMMA HelloSigned ==
    ASSUME SetupInv, NEW g \in DOMAIN conn, Authenticate(g)
    PROVE  SetupInv'
  <1>1. CASE Rejects(g) /\ UNCHANGED <<setup, pins>>
    <2>1. /\ conn[g].at # "pinning"
          /\ UNCHANGED <<registryVars, setup, stored, attempt, history, left>>
      BY <1>1 DEF Authenticate, registryVars
    <2> QED BY <1>1, <2>1, SocketRejected
  <1>2. CASE ~(Rejects(g) /\ UNCHANGED <<setup, pins>>)
    <2>1. ~Rejects(g)
      <3>1. conn' = [conn EXCEPT ![g].at = "pinning"]
        BY <1>2 DEF Authenticate
      <3>2. DOMAIN conn' = DOMAIN conn
        BY <3>1
      <3> QED BY <3>2 DEF Rejects, Without
    <2> QED BY <2>1, PinAsked
  <1> QED BY <1>1, <1>2

\* The first pin() ends: its connection is acknowledged or gone.
LEMMA SettlesFacts ==
    ASSUME SetupInv, pins # <<>>, NEW ok \in BOOLEAN, Settles(ok), NEW p, p = pins[1]
    PROVE  /\ p \in PinCall /\ p.gen \in DOMAIN conn /\ conn[p.gen].at = "pinning"
           /\ conn[p.gen] \in Connection
           /\ conn[p.gen].mode = p.mode /\ conn[p.gen].setup = p.setup
           /\ DOMAIN conn' \subseteq DOMAIN conn /\ conn' \in [DOMAIN conn' -> Connection]
           /\ \A h \in DOMAIN conn : h # p.gen => h \in DOMAIN conn' /\ conn'[h] = conn[h]
           /\ p.gen \in DOMAIN conn' =>
                 /\ ok /\ Live(p.gen) /\ UNCHANGED link
                 /\ conn'[p.gen].at = "acked" /\ conn'[p.gen].mode = p.mode
                 /\ conn'[p.gen].kind = conn[p.gen].kind /\ conn'[p.gen].token = conn[p.gen].token
                 /\ conn'[p.gen].setup = conn[p.gen].setup
           /\ link' \in Link /\ link'.gen = link.gen /\ link'.kind = link.kind
           /\ link'.token = link.token /\ link'.step = link.step /\ link'.setup = link.setup
           /\ Sockets' /\ Handshakes'
  <1>1. Types /\ Sockets /\ Handshakes /\ Queued
    BY TypeOKParts DEF SetupInv
  <1>2. Head(pins) = p /\ p \in PinCall /\ 1 \in 1 .. Len(pins)
    BY PinsTyped
  <1>3. /\ p.gen \in DOMAIN conn /\ conn[p.gen].at = "pinning" /\ conn[p.gen] \in Connection
        /\ conn[p.gen].mode = p.mode /\ conn[p.gen].setup = p.setup
    BY <1>1, <1>2 DEF Queued, Types
  <1> DEFINE g == p.gen
             c == [conn[g] EXCEPT !.at = "acked"]
  <1>4. CASE ok /\ Live(g) /\ conn' = [conn EXCEPT ![g].at = "acked"] /\ UNCHANGED link
    <2>1. conn' = [conn EXCEPT ![g] = c]
      BY <1>4
    <2>2. /\ c \in Connection /\ c.at = "acked" /\ c.mode = conn[g].mode /\ c.kind = conn[g].kind
          /\ c.token = conn[g].token /\ c.setup = conn[g].setup
      BY <1>3 DEF Connection
    <2> HIDE DEF c
    <2>3. /\ DOMAIN conn' = DOMAIN conn /\ conn'[g] = c
          /\ \A h \in DOMAIN conn : h # g => conn'[h] = conn[h]
          /\ conn' \in [DOMAIN conn' -> Connection] /\ Sockets'
      BY <1>3, <1>4, <2>1, <2>2, TurnsFacts
    <2>4. Handshakes'
      <3>1. ASSUME NEW h \in DOMAIN conn'
            PROVE  /\ conn'[h].kind # "ordinary" => conn'[h].token = "derived" /\ conn'[h].setup # NoSetup
                   /\ conn'[h].kind = "ordinary" => conn'[h].setup = NoSetup
                   /\ conn'[h].at \in {"signed", "pinning", "acked"} => conn'[h].mode = conn'[h].token
                   /\ conn'[h].at # "hello" /\ conn'[h].kind # "ordinary" => conn'[h].mode = "derived"
                   /\ conn'[h].at = "pinning" => conn'[h].kind # "provisioning"
        BY <1>1, <1>3, <2>2, <2>3, <3>1 DEF Handshakes
      <3>2. link.phase = "connected" => link.open /\ conn[link.gen].at = "acked" /\ link.gen # g
        BY <1>1, <1>3 DEF Handshakes
      <3> QED BY <1>1, <1>4, <2>3, <3>1, <3>2 DEF Handshakes, Sockets
    <2>5. link \in Link
      BY <1>1 DEF Types
    <2> QED BY <1>2, <1>3, <1>4, <2>2, <2>3, <2>4, <2>5
  <1>5. CASE Rejects(g)
    <2>1. Fades /\ \A h \in DOMAIN conn : h # g => h \in DOMAIN conn'
      BY <1>3, <1>5, RejectsFades DEF Rejects
    <2>2. g \notin DOMAIN conn'
      BY <1>5 DEF Rejects, Without
    <2>3. /\ link' \in Link /\ link'.gen = link.gen /\ link'.kind = link.kind
          /\ link'.token = link.token /\ link'.step = link.step /\ link'.setup = link.setup
          /\ Handshakes'
      BY <2>1, LinkFades
    <2> QED BY <1>2, <1>3, <2>1, <2>2, <2>3 DEF Fades
  <1> QED BY <1>2, <1>4, <1>5 DEF Settles

\* What a settled pin() leaves of the receipt.
LEMMA SettlesSessions ==
    ASSUME SetupInv, pins # <<>>, NEW ok \in BOOLEAN, Settles(ok), NEW p, p = pins[1],
           UNCHANGED <<begun, cancelled>>,
           ok /\ p.mode = "derived" => registry' = "derived" /\ disk' = "derived",
           registry = "derived" /\ disk = "derived" /\ saving = Idle =>
               registry' = "derived" /\ disk' = "derived"
    PROVE  setup' \in Session /\ committed' \subseteq Setups /\ Sessions'
  <1>1. Types /\ Sessions /\ Handshakes
    BY TypeOKParts DEF SetupInv
  <1>2. /\ p \in PinCall /\ p.gen \in DOMAIN conn /\ conn[p.gen].at = "pinning"
        /\ conn[p.gen].mode = p.mode /\ conn[p.gen].setup = p.setup
    BY SettlesFacts
  <1>3. /\ pins' = Tail(pins) /\ saving' = Idle
        /\ setup' = IF p.setup # NoSetup /\ setup.id = p.setup
                    THEN [setup EXCEPT !.committing = FALSE, !.completed = @ \/ ok] ELSE setup
        /\ committed' = IF ok /\ p.setup # NoSetup THEN committed \cup {p.setup} ELSE committed
    BY PinsTyped DEF Settles
  <1>4. /\ setup' \in Session /\ setup'.id = setup.id
        /\ setup'.completed => setup.completed \/ (ok /\ p.setup # NoSetup /\ setup.id = p.setup)
        /\ setup'.committing # setup.committing => p.setup # NoSetup /\ setup.id = p.setup
    BY <1>1, <1>3 DEF Types, Session
  <1>5. committed' \subseteq Setups /\ committed \subseteq committed'
    BY <1>1, <1>2, <1>3 DEF Types, PinCall
  <1>6. p.setup # NoSetup => p.mode = "derived"
    BY <1>1, <1>2 DEF Handshakes
  <1>7. setup'.completed => /\ registry' = "derived" /\ disk' = "derived" /\ saving' = Idle
                            /\ setup'.id \in committed'
    BY <1>1, <1>3, <1>4, <1>5, <1>6 DEF Sessions
  <1>8. ASSUME NEW n \in 1 .. Len(pins'), pins'[n].setup \notin committed' \cup {NoSetup}
        PROVE  /\ pins'[n].setup <= begun /\ pins'[n].setup \notin cancelled
               /\ setup'.id = pins'[n].setup => setup'.committing
               /\ \A m \in 1 .. Len(pins') : pins'[m].setup = pins'[n].setup => m = n
    <2>1. /\ \A m \in 1 .. Len(pins') : pins'[m] = pins[m + 1] /\ m + 1 \in 1 .. Len(pins)
          /\ Len(pins) \in Nat \ {0} /\ Len(pins') = Len(pins) - 1
      BY <1>3, PinLeaves
    <2>2. pins'[n].setup = pins[n + 1].setup /\ n + 1 \in 1 .. Len(pins) /\ n + 1 # 1 /\ 1 \in 1 .. Len(pins)
      BY <2>1
    <2>3. pins[n + 1].setup \notin committed \cup {NoSetup}
      BY <1>5, <1>8, <2>2
    <2>4. /\ pins[n + 1].setup <= begun /\ pins[n + 1].setup \notin cancelled
          /\ setup.id = pins[n + 1].setup => setup.committing
          /\ \A m \in 1 .. Len(pins) : pins[m].setup = pins[n + 1].setup => m = n + 1
      BY <1>1, <2>2, <2>3 DEF Sessions
    <2>5. p.setup # pins[n + 1].setup
      BY <2>2, <2>4
    <2>6. setup'.id = pins'[n].setup => setup'.committing
      BY <1>4, <2>2, <2>4, <2>5
    <2>7. ASSUME NEW m \in 1 .. Len(pins'), pins'[m].setup = pins'[n].setup PROVE m = n
      <3>1. m + 1 \in 1 .. Len(pins) /\ pins[m + 1].setup = pins[n + 1].setup
        BY <2>1, <2>2, <2>7
      <3>2. m + 1 = n + 1
        BY <2>4, <3>1
      <3> QED BY <3>2
    <2> QED BY <2>2, <2>4, <2>6, <2>7
  <1>9. Sessions'
    BY <1>1, <1>4, <1>7, <1>8 DEF Sessions
  <1> QED BY <1>4, <1>5, <1>9

\* An acknowledged legacy connection is the newest one, and the last: nothing that
\* the extension sent on another is still to be handled.
LEMMA LegacyIsLast ==
    ASSUME SetupInv, pins # <<>>, saving = Idle, Settles(TRUE), NEW p, p = pins[1],
           registry = "legacy", registry' = registry, Live(p.gen)
    PROVE  Calm'
  <1>1. Types /\ Sockets /\ Handshakes /\ Queued
    BY TypeOKParts DEF SetupInv
  <1>2. /\ p \in PinCall /\ p.gen \in DOMAIN conn /\ conn[p.gen].at = "pinning"
        /\ DOMAIN conn' \subseteq DOMAIN conn
        /\ \A h \in DOMAIN conn : h # p.gen => h \in DOMAIN conn' /\ conn'[h] = conn[h]
        /\ p.gen \in DOMAIN conn' => conn'[p.gen].at = "acked"
        /\ link'.kind = link.kind
    BY SettlesFacts
  <1>3. p.gen = link.gen /\ link.open /\ link.gen \in Nat
    BY <1>1 DEF Live, Types, Link
  <1>4. \A h \in DOMAIN conn : h \in Nat /\ h <= p.gen
    BY <1>1, <1>3 DEF Handshakes
  <1>5. 1 \in 1 .. Len(pins) /\ saving' = Idle /\ pins' = Tail(pins)
    BY PinsTyped DEF Settles
  <1>6. \A h \in DOMAIN conn : h # p.gen => conn[h].at = "pinning"
    <2> SUFFICES ASSUME NEW h \in DOMAIN conn, h # p.gen, conn[h].at # "pinning" PROVE FALSE
      OBVIOUS
    <2>1. conn[h].at = "signed"
      BY <1>1, <1>3 DEF Sockets, Live
    <2>2. p.gen < h
      BY <1>1, <1>5, <2>1 DEF Queued
    <2> QED BY <1>2, <1>4, <2>2
  <1>7. \A h \in DOMAIN conn' : conn'[h].at \notin {"hello", "challenge", "signed"}
    BY <1>2, <1>6
  <1>8. Len(pins') = 0
    <2> SUFFICES ASSUME Len(pins') # 0 PROVE FALSE
      OBVIOUS
    <2>1. /\ \A n \in 1 .. Len(pins') : pins'[n] = pins[n + 1] /\ n + 1 \in 1 .. Len(pins)
          /\ Len(pins) \in Nat \ {0} /\ Len(pins') = Len(pins) - 1
      BY <1>5, PinLeaves
    <2>2. 2 \in 1 .. Len(pins)
      BY <2>1
    <2>3. pins[2].gen \in DOMAIN conn /\ p.gen < pins[2].gen
      BY <1>1, <1>5, <2>2 DEF Queued
    <2> QED BY <1>2, <1>4, <2>3
  <1>9. link.kind # "persisted"
    BY <1>1, <1>2, <1>3 DEF Handshakes
  <1>10. \A n \in 1 .. Len(pins') : FALSE
    BY <1>8
  <1>11. registry' # "derived" /\ saving' = Idle /\ link'.kind # "persisted"
    BY <1>2, <1>5, <1>9
  <1> QED BY <1>7, <1>10, <1>11 DEF Calm

LEMMA PinSettles ==
    ASSUME SetupInv, pins # <<>>, NEW ok \in BOOLEAN, Settles(ok),
           UNCHANGED <<stored, attempt, begun, cancelled>>,
           registry' \in Modes, disk' \in Modes,
           Counted', Excused => Excused',
           ok => registry' = pins[1].mode,
           registry' = "derived" => disk' = "derived",
           registry = "derived" /\ saving = Idle => registry' = "derived",
           registry # "derived" /\ saving = Idle => registry' = registry,
           "legacy" \notin {registry, disk, saving} => "legacy" \notin {registry', disk'},
           None \notin {registry, disk, saving} => None \notin {registry', disk'},
           ~Happened("late")' => disk' = registry',
           ok /\ registry' = "legacy" => saving = Idle /\ registry = "legacy"
    PROVE  SetupInv'
  <1>1. Types /\ Sockets /\ Alone /\ Handshakes /\ Queued /\ Registry
    BY TypeOKParts DEF SetupInv
  <1>2. PICK p : p = pins[1]
    OBVIOUS
  <1>3. /\ p \in PinCall /\ p.gen \in DOMAIN conn /\ conn[p.gen].at = "pinning"
        /\ conn[p.gen] \in Connection
        /\ conn[p.gen].mode = p.mode /\ conn[p.gen].setup = p.setup
        /\ DOMAIN conn' \subseteq DOMAIN conn /\ conn' \in [DOMAIN conn' -> Connection]
        /\ \A h \in DOMAIN conn : h # p.gen => h \in DOMAIN conn' /\ conn'[h] = conn[h]
        /\ p.gen \in DOMAIN conn' =>
              /\ ok /\ Live(p.gen) /\ UNCHANGED link
              /\ conn'[p.gen].at = "acked" /\ conn'[p.gen].mode = p.mode
              /\ conn'[p.gen].kind = conn[p.gen].kind /\ conn'[p.gen].token = conn[p.gen].token
              /\ conn'[p.gen].setup = conn[p.gen].setup
        /\ link' \in Link /\ link'.gen = link.gen /\ link'.kind = link.kind
        /\ link'.token = link.token /\ link'.step = link.step /\ link'.setup = link.setup
        /\ Sockets' /\ Handshakes'
    BY <1>2, SettlesFacts
  <1>4. setup' \in Session /\ committed' \subseteq Setups /\ Sessions'
    BY <1>2, SettlesSessions
  <1>5. /\ pins' \in Seq(PinCall) /\ Len(pins') = Len(pins) - 1 /\ Len(pins) \in Nat \ {0}
        /\ \A n \in 1 .. Len(pins') : pins'[n] = pins[n + 1] /\ n + 1 \in 1 .. Len(pins)
        /\ saving' = Idle
    BY PinLeaves DEF Settles
  <1>6. \A h \in DOMAIN conn' : /\ h \in DOMAIN conn /\ conn'[h].kind = conn[h].kind
                                /\ conn'[h].token = conn[h].token /\ conn'[h].setup = conn[h].setup
                                /\ conn'[h].mode = conn[h].mode
                                /\ h # p.gen => conn'[h] = conn[h]
    BY <1>3
  <1>7. TypeOK' /\ AllFit'
    BY <1>1, <1>3, <1>4, <1>5, TypeOKPartsNext
    DEF Types, Alone, InProgress, PinCall, Idle, SetupInv, AllFit, Fits, Fresh, Durables
  <1>8. Queued'
    <2> SUFFICES ASSUME NEW n \in 1 .. Len(pins')
                 PROVE  /\ pins'[n].gen \in DOMAIN conn' /\ conn'[pins'[n].gen].at = "pinning"
                        /\ conn'[pins'[n].gen].mode = pins'[n].mode /\ conn'[pins'[n].gen].setup = pins'[n].setup
                        /\ \A m \in 1 .. Len(pins') : m < n => pins'[m].gen < pins'[n].gen
                        /\ \A h \in DOMAIN conn' : conn'[h].at = "signed" => pins'[n].gen < h
      BY DEF Queued
    <2>1. n + 1 \in 1 .. Len(pins) /\ pins'[n] = pins[n + 1] /\ 1 \in 1 .. Len(pins) /\ 1 < n + 1
      BY <1>5
    <2>2. /\ pins[n + 1].gen \in DOMAIN conn /\ conn[pins[n + 1].gen].at = "pinning"
          /\ conn[pins[n + 1].gen].mode = pins[n + 1].mode /\ conn[pins[n + 1].gen].setup = pins[n + 1].setup
          /\ \A m \in 1 .. Len(pins) : m < n + 1 => pins[m].gen < pins[n + 1].gen
          /\ \A h \in DOMAIN conn : conn[h].at = "signed" => pins[n + 1].gen < h
      BY <1>1, <2>1 DEF Queued
    <2>3. p.gen \in Nat /\ p.gen < pins[n + 1].gen
      BY <1>2, <1>3, <2>1, <2>2 DEF PinCall
    <2>4. pins[n + 1].gen \in DOMAIN conn' /\ conn'[pins[n + 1].gen] = conn[pins[n + 1].gen]
      BY <1>3, <2>2, <2>3
    <2>5. \A m \in 1 .. Len(pins') : m < n => pins'[m].gen < pins'[n].gen
      <3> SUFFICES ASSUME NEW m \in 1 .. Len(pins'), m < n PROVE pins'[m].gen < pins'[n].gen
        OBVIOUS
      <3>1. pins'[m] = pins[m + 1] /\ m + 1 \in 1 .. Len(pins) /\ m + 1 < n + 1
        BY <1>5
      <3> QED BY <2>1, <2>2, <3>1
    <2>6. \A h \in DOMAIN conn' : conn'[h].at = "signed" => conn[h].at = "signed" /\ h \in DOMAIN conn
      BY <1>3, <1>6
    <2> QED BY <2>1, <2>2, <2>4, <2>5, <2>6
  <1>9. Registry'
    <2>1. "legacy" \notin {registry, disk, saving} /\
             (\A h \in DOMAIN conn : conn[h].at # "hello" => conn[h].mode # "legacy") /\
             (\A n \in 1 .. Len(pins) : pins[n].mode # "legacy")
          => /\ "legacy" \notin {registry', disk', saving'}
             /\ \A h \in DOMAIN conn' : conn'[h].at # "hello" => conn'[h].mode # "legacy"
             /\ \A n \in 1 .. Len(pins') : pins'[n].mode # "legacy"
      BY <1>3, <1>5, <1>6 DEF Idle
    <2>2. None \notin {registry, disk, saving} => None \notin {registry', disk', saving'}
      BY <1>5 DEF Idle, None
    <2> QED BY <1>1, <1>5, <2>1, <2>2 DEF Registry
  <1>10. Stored'
    <2>1. p.setup # NoSetup => attempt[p.setup].durable
      BY <1>2, <1>5 DEF SetupInv, Stored
    <2>2. committed' \subseteq committed \cup {p.setup} /\ (p.setup = NoSetup => committed' = committed)
      BY <1>2, PinsTyped DEF Settles
    <2>3. \A i \in committed' : attempt[i].durable
      BY <2>1, <2>2 DEF SetupInv, Stored
    <2>4. \A n \in 1 .. Len(pins') : pins'[n].setup # NoSetup => attempt[pins'[n].setup].durable
      BY <1>5 DEF SetupInv, Stored
    <2> QED BY <1>3, <1>6, <2>3, <2>4 DEF SetupInv, Stored
  <1>11. Exclusive'
    BY DEF SetupInv, Exclusive, InProgress, Durables, Writing
  <1>12. Proves'
    <2>1. ASSUME NEW h \in DOMAIN conn', conn'[h].at = "acked", conn'[h].kind # "provisioning",
                 conn'[h].mode = "derived"
          PROVE  registry' = "derived" /\ disk' = "derived" /\ saving' = Idle
      <3>1. CASE h = p.gen
        BY <1>2, <1>3, <1>5, <2>1, <3>1
      <3>2. CASE h # p.gen
        BY <1>5, <1>6, <2>1, <3>2 DEF SetupInv, Proves
      <3> QED BY <3>1, <3>2
    <2> QED BY <1>3, <1>6, <2>1 DEF SetupInv, Proves, InProgress
  <1>13. Kept'
    <2>1. Calm => Calm'
      <3> SUFFICES ASSUME Calm PROVE Calm'
        OBVIOUS
      <3>1. \A h \in DOMAIN conn' : conn'[h].at \in {"hello", "challenge", "signed"} =>
               h \in DOMAIN conn /\ conn'[h] = conn[h]
        BY <1>3, <1>6
      <3>2. \A n \in 1 .. Len(pins') : pins'[n].mode # "derived"
        BY <1>5 DEF Calm
      <3>3. registry' # "derived"
        BY DEF Calm
      <3> QED BY <1>3, <1>5, <3>1, <3>2, <3>3 DEF Calm
    <2> SUFFICES ASSUME ~Excused' PROVE Kept'
      BY DEF Kept
    <2>2. Kept /\ ~Excused
      BY DEF SetupInv
    <2>3. ASSUME NEW h \in DOMAIN conn', conn'[h].at = "acked", conn'[h].mode = "legacy"
          PROVE  Calm'
      <3>1. CASE h = p.gen
        <4>1. ok = TRUE /\ Live(p.gen) /\ registry' = "legacy"
          BY <1>2, <1>3, <2>3, <3>1
        <4>2. saving = Idle /\ registry = "legacy" /\ registry' = registry
          BY <4>1
        <4> QED BY <1>2, <4>1, <4>2, LegacyIsLast
      <3>2. CASE h # p.gen
        BY <1>6, <2>1, <2>2, <2>3, <3>2 DEF Kept
      <3> QED BY <3>1, <3>2
    <2> QED BY <1>3, <1>6, <2>1, <2>2, <2>3 DEF Kept, InProgress
  <1> QED BY <1>3, <1>4, <1>7, <1>8, <1>9, <1>10, <1>11, <1>12, <1>13 DEF SetupInv

LEMMA PinWritten ==
    ASSUME SetupInv, PinWrites
    PROVE  SetupInv'
  <1>1. Types /\ Sockets /\ Alone /\ Registry
    BY TypeOKParts DEF SetupInv
  <1>2. /\ pins # <<>> /\ saving = Idle /\ registry # "derived" /\ registry' = pins[1].mode
        /\ registry # pins[1].mode /\ saving' = registry /\ pins[1] \in PinCall /\ 1 \in 1 .. Len(pins)
        /\ UNCHANGED <<disk, pins, setup, conn, link, committed, stored, attempt, begun, cancelled, left>>
    BY PinsTyped DEF PinWrites, PinStep
  <1>3. pins[1].mode = "derived"
    <2>1. pins[1].mode \in {"legacy", "derived"} /\ registry \in Modes
      BY <1>1, <1>2 DEF PinCall, Modes, Types
    <2>2. pins[1].mode = "legacy" => registry # None
      BY <1>1, <1>2 DEF Registry
    <2> QED BY <1>2, <2>1, <2>2 DEF Modes
  <1>4. saving' # Idle /\ saving' # "derived" /\ registry' = "derived" /\ saving' \in Modes
    BY <1>1, <1>2, <1>3 DEF Types, Modes, Idle, None
  <1>5. TypeOK' /\ AllFit' /\ Counted'
    BY <1>1, <1>2, <1>4, TypeOKPartsNext, NothingSpent
    DEF Types, Sockets, Live, Alone, InProgress, Modes, SetupInv, AllFit, Fits, Fresh, Durables
  <1>6. Handshakes' /\ Queued'
    BY <1>2 DEF SetupInv, Handshakes, Queued
  <1>7. Registry'
    BY <1>1, <1>2, <1>3, <1>4, PinsTyped DEF Registry, Happened, Bounds, None
  <1>8. Sessions'
    BY <1>2, <1>3 DEF SetupInv, Sessions
  <1>9. Stored' /\ Exclusive'
    BY <1>2 DEF SetupInv, Stored, Exclusive, InProgress, Durables, Writing
  <1>10. Proves'
    BY <1>2 DEF SetupInv, Proves, InProgress
  <1>11. Kept'
    <2>1. ~Calm
      BY <1>2, <1>3 DEF Calm
    <2>2. (Excused' <=> Excused) /\ Kept
      BY <1>2, NothingSpent DEF SetupInv
    <2> QED BY <1>2, <2>1, <2>2 DEF Kept, InProgress
  <1> QED BY <1>5, <1>6, <1>7, <1>8, <1>9, <1>10, <1>11 DEF SetupInv

LEMMA PinSteps ==
    ASSUME SetupInv, PinRepeats \/ PinRefused \/ PinWrites \/ PinSaved \/ PinSaveFails
    PROVE  SetupInv'
  <1>1. /\ Types /\ Counted /\ Registry /\ "late" \in Events \ {"events"}
        /\ registry \in Modes /\ disk \in Modes /\ Idle \notin Modes
    BY TypeOKParts DEF SetupInv, Types, Events, Modes, Idle, None
  <1>2. pins # <<>> => Head(pins) = pins[1] /\ pins[1].mode # None
    BY PinsTyped DEF PinCall
  <1>3. UNCHANGED left => Counted' /\ (Excused => Excused') /\ (Happened("late")' <=> Happened("late"))
    BY <1>1, NothingSpent
  <1>4. CASE PinRepeats
    BY <1>1, <1>2, <1>3, <1>4, PinSettles DEF PinRepeats, PinStep, Registry
  <1>5. CASE PinRefused
    BY <1>1, <1>2, <1>3, <1>5, PinSettles DEF PinRefused, PinStep, Registry
  <1>6. CASE PinWrites
    BY <1>6, PinWritten
  <1>7. CASE PinSaved
    <2>1. /\ saving # Idle /\ registry = "derived" /\ pins # <<>> /\ pins[1].mode = "derived"
          /\ disk' = "derived" /\ registry' = "derived" /\ Settles(TRUE)
          /\ UNCHANGED <<stored, attempt, begun, cancelled, left>>
      BY <1>1, <1>2, <1>7 DEF PinSaved, PinStep, Registry
    <2> QED BY <1>1, <1>3, <2>1, PinSettles DEF None
  <1>8. CASE PinSaveFails
    <2>1. /\ saving # Idle /\ registry = "derived" /\ pins # <<>> /\ saving # "derived"
          /\ registry' = saving /\ Settles(FALSE)
          /\ UNCHANGED <<stored, attempt, begun, cancelled>>
      BY <1>1, <1>8 DEF PinSaveFails, Registry
    <2>2. saving \in Modes
      BY <1>1, <2>1 DEF Types
    <2>3. CASE UNCHANGED <<disk, left>>
      <3>1. ~Happened("late")' => disk' = registry'
        BY <1>1, <1>3, <2>1, <2>3 DEF Registry
      <3> QED BY <1>1, <1>3, <2>1, <2>2, <2>3, <3>1, PinSettles
    <2>4. CASE disk' = registry /\ Spends("late")
      <3>1. Counted' /\ Happened("late")' /\ (Excused => Excused')
        BY <1>1, <2>4, SpentIsSpent, StillExcused
      <3> QED BY <1>1, <2>1, <2>2, <2>4, <3>1, PinSettles DEF None
    <2> QED BY <1>8, <2>3, <2>4 DEF PinSaveFails
  <1> QED BY <1>4, <1>5, <1>6, <1>7, <1>8

-----------------------------------------------------------------------------
(* The invariant holds. *)

LEMMA SetupInvInit ==
    ASSUME Init
    PROVE  SetupInv
  <1>1. /\ registry \in Modes /\ disk = registry /\ stored \in Modes
        /\ registry = "derived" => stored # "legacy"
        /\ pins = <<>> /\ saving = Idle /\ setup = Closed /\ conn = <<>> /\ link = Joining
        /\ attempt = [i \in Setups |-> Fresh] /\ begun = 0 /\ cancelled = {} /\ committed = {}
        /\ left = Bounds
    BY DEF Init, Modes, None
  <1>2. DOMAIN conn = {} /\ Len(pins) = 0 /\ \A n \in 1 .. Len(pins) : FALSE
    BY <1>1
  <1>3. /\ Closed \in Session /\ Closed.id = 0 /\ ~Closed.completed
        /\ Joining \in Link /\ Joining.kind = "ordinary" /\ Joining.step = "token" /\ ~Joining.open
        /\ Joining.phase # "connected" /\ Joining.setup = NoSetup /\ Joining.token = None
    BY DEF Closed, Session, NoSetup, Joining, Link, Kinds, Modes
  <1>4. /\ Fresh \in Attempt /\ Fresh.pc = "idle" /\ ~Fresh.durable /\ Fresh.commit = "no"
        /\ Fresh.rollback = "no" /\ ~Fresh.over /\ ~Fresh.ok /\ Fresh.tries = 0
    BY BoundsTyped DEF Attempt, Fresh, Phases, Modes
  <1>5. \A i \in Setups : attempt[i] = Fresh /\ ~InProgress(i)
    BY <1>1, <1>4 DEF InProgress
  <1>6. Types
    <2>1. conn \in [DOMAIN conn -> Connection]
      BY <1>1, <1>2
    <2>2. pins \in Seq([gen : Nat, mode : Modes \ {None}, setup : Setups \cup {NoSetup}])
      BY <1>1
    <2>3. attempt \in [Setups -> Attempt] /\ begun \in 0 .. MaxSetups
      BY <1>1, <1>4, BoundsTyped
    <2> QED BY <1>1, <1>3, <2>1, <2>2, <2>3 DEF Types
  <1>7. TypeOK
    BY <1>1, <1>2, <1>3, <1>5, <1>6, TypeOKParts DEF Sockets, Alone
  <1>8. Counted
    BY <1>1, BoundsTyped DEF Counted
  <1>9. AllFit
    BY <1>4, <1>5, BoundsTyped DEF AllFit, Fits, Durables
  <1>10. Handshakes /\ Queued
    BY <1>1, <1>2, <1>3 DEF Handshakes, Queued
  <1>11. Registry
    BY <1>1, <1>2 DEF Registry, Idle, None
  <1>12. Sessions /\ Stored
    BY <1>1, <1>2, <1>3 DEF Sessions, Stored
  <1>13. Exclusive
    BY <1>5 DEF Exclusive
  <1>14. Proves
    BY <1>2, <1>5 DEF Proves
  <1>15. Kept
    <2>1. registry # "derived" => Calm
      BY <1>1, <1>2, <1>3 DEF Calm
    <2> QED BY <1>1, <1>2, <1>4, <1>5, <2>1 DEF Kept
  <1> QED BY <1>7, <1>8, <1>9, <1>10, <1>11, <1>12, <1>13, <1>14, <1>15 DEF SetupInv

LEMMA SetupInvNext ==
    ASSUME SetupInv, [Next]_vars
    PROVE  SetupInv'
  <1>1. CASE Daemon
    <2>1. CASE \E g \in DOMAIN conn : ClientHello(g) \/ Provision(g) \/ Authenticate(g)
      BY <2>1, HelloAnswered, Provisioned, HelloSigned
    <2>2. CASE PinRepeats \/ PinRefused \/ PinWrites \/ PinSaved \/ PinSaveFails
      BY <2>2, PinSteps
    <2>3. CASE Begin \/ Expire \/ Restart
      BY <2>3, SessionBegun, SessionEnded, DaemonRestarted
    <2>4. CASE \E i \in Setups : Cancel(i) \/ Issue(i)
      BY <2>4, SessionEnded, CredentialIssued
    <2> QED BY <1>1, <2>1, <2>2, <2>3, <2>4 DEF Daemon
  <1>2. CASE Main
    BY <1>2, TokenRead, SocketOpened, ChallengeAnswered, Acknowledged, SocketLost, MainReconnects,
       WorkerKilled DEF Main
  <1>3. CASE \E i \in Setups : Start(i) \/ Advances(i) \/ Elapse(i) \/ Timeout(i)
    <2>1. PICK i \in Setups : Start(i) \/ Advances(i) \/ Elapse(i) \/ Timeout(i)
      BY <1>3
    <2> QED BY <2>1, CallSteps, CallReconnects, CallStores, CallPutsBack, CallTakesBack, CallComesBack
          DEF Advances
  <1>4. CASE UNCHANGED vars
    <2>1. /\ UNCHANGED <<registryVars, setup, conn, link, stored, attempt, history, left>>
      BY <1>4 DEF vars
    <2>2. Types /\ Sockets /\ Alone
      BY TypeOKParts DEF SetupInv
    <2>3. TypeOK' /\ Counted' /\ AllFit'
      BY <2>1, <2>2, TypeOKPartsNext, NothingSpent
      DEF Types, Sockets, Live, Alone, InProgress, SetupInv, AllFit, Fits, Fresh, Durables,
          registryVars, history
    <2>4. Handshakes' /\ Queued' /\ Registry' /\ Sessions' /\ Stored'
      BY <2>1 DEF SetupInv, Handshakes, Queued, Registry, Sessions, Stored, Happened, Bounds,
                  registryVars, history
    <2>5. Exclusive' /\ Proves'
      BY <2>1 DEF SetupInv, Exclusive, Proves, InProgress, Durables, Writing, registryVars
    <2>6. Kept'
      <3>1. (Excused' <=> Excused) /\ (Calm => Calm')
        BY <2>1, NothingSpent DEF Calm, registryVars
      <3> QED BY <2>1, <3>1 DEF SetupInv, Kept, InProgress
    <2> QED BY <2>3, <2>4, <2>5, <2>6 DEF SetupInv
  <1> QED BY <1>1, <1>2, <1>3, <1>4 DEF Next

\* The inductive invariant: what the two sides have, what is under way between
\* them, and how far each call has got fit together.
THEOREM SetupInvariant == Spec => []SetupInv
  BY SetupInvInit, SetupInvNext, PTL DEF Spec

\* The extension never falls back to the legacy credential when the daemon has
\* replaced it, unless the user reconnected meanwhile or a save failed late and
\* the daemon was restarted.
THEOREM CredentialKept == Spec => []NeverRolledBack
  <1>1. SetupInv => NeverRolledBack
    BY DEF SetupInv, Kept, Calm, Excused, NeverRolledBack
  <1> QED BY <1>1, SetupInvariant, PTL

\* A credential is replaced only after the new one was stored and read back, and a
\* completed receipt stands for an installation pinned on disk.
THEOREM ReceiptKept == Spec => []ReceiptIsDurable
  <1>1. SetupInv => ReceiptIsDurable
    BY DEF SetupInv, Sessions, Stored, ReceiptIsDurable
  <1> QED BY <1>1, SetupInvariant, PTL

-----------------------------------------------------------------------------
(* What is reported. *)

LEMMA OkStays ==
    ASSUME SetupInv, NEW i \in Setups, NEW a \in Attempt, a.ok = attempt[i].ok,
           attempt' = [attempt EXCEPT ![i] = Ended(a)]
    PROVE  \A j \in Setups : attempt'[j].ok = attempt[j].ok
  <1>1. attempt \in [Setups -> Attempt]
    BY TypeOKParts DEF SetupInv, Types
  <1>2. Ended(a).ok = a.ok
    <2>1. CASE a.over /\ a.pc = "ended"
      <3> DEFINE e == [Fresh EXCEPT !.pc = "ended", !.durable = a.durable, !.over = TRUE, !.ok = a.ok]
      <3>1. Ended(a) = e
        BY <2>1 DEF Ended
      <3>2. Fresh \in Attempt /\ a.ok \in BOOLEAN
        BY BoundsTyped DEF Attempt, Fresh, Phases, Modes
      <3>3. e.ok = a.ok
        BY <3>2 DEF Attempt
      <3> QED BY <3>1, <3>3
    <2>2. CASE ~(a.over /\ a.pc = "ended")
      BY <2>2 DEF Ended
    <2> QED BY <2>1, <2>2
  <1> QED BY <1>1, <1>2

LEMMA ThrowsOk ==
    ASSUME SetupInv, NEW i \in Setups, Throws(i)
    PROVE  \A j \in Setups : attempt'[j].ok = attempt[j].ok
  <1> DEFINE b == [attempt[i] EXCEPT !.pc = "ended"]
  <1>1. attempt[i] \in Attempt
    BY CallFacts
  <1>2. b \in Attempt /\ b.ok = attempt[i].ok
    BY <1>1 DEF Attempt, Phases
  <1>3. RollsBack(b) \in Attempt /\ RollsBack(b).ok = b.ok
    <2>1. RollsBack(b) \in Attempt /\ RollsBack(b) = [b EXCEPT !.rollback = RollsBack(b).rollback]
      BY <1>2, RollsBackTyped
    <2> HIDE DEF b
    <2> QED BY <1>2, <2>1 DEF Attempt
  <1>4. attempt' = [attempt EXCEPT ![i] = Ended(RollsBack(b))]
    BY DEF Throws, Becomes
  <1> HIDE DEF b
  <1> QED BY <1>2, <1>3, <1>4, OkStays

RollsBackOk(b) == RollsBack(b) \in Attempt /\ RollsBack(b).ok = b.ok

LEMMA RollsBackKeepsOk ==
    ASSUME NEW b \in Attempt
    PROVE  RollsBackOk(b)
  <1>1. RollsBack(b) \in Attempt /\ RollsBack(b) = [b EXCEPT !.rollback = RollsBack(b).rollback]
    BY RollsBackTyped
  <1> QED BY <1>1 DEF Attempt, RollsBackOk

\* No step of a call makes it report success, but the last one of PersistWaited.
LEMMA CallOk ==
    ASSUME SetupInv, NEW i \in Setups, Start(i) \/ Advances(i) \/ Elapse(i) \/ Timeout(i),
           ~(PersistWaited(i) /\ Authenticated(i))
    PROVE  \A k \in Setups : attempt'[k].ok = attempt[k].ok
  <1> DEFINE Same == \A k \in Setups : attempt'[k].ok = attempt[k].ok
             t == attempt[i]
  <1>1. /\ t \in Attempt /\ Fits(t) /\ link.gen \in Nat /\ link.gen + 1 \in Nat
        /\ stored \in Modes /\ t.ok \in BOOLEAN
    BY CallFacts, TypeOKParts DEF SetupInv, Types, Link, Attempt
  <1>2. ASSUME NEW a \in Attempt, a.ok = t.ok, attempt' = [attempt EXCEPT ![i] = Ended(a)]
        PROVE  Same
    BY <1>2, OkStays
  <1>3. Throws(i) => Same
    BY ThrowsOk
  <1>4. ASSUME NEW pc \in Phases, Goes(i, pc) PROVE Same
    <2>1. [t EXCEPT !.pc = pc] \in Attempt /\ [t EXCEPT !.pc = pc].ok = t.ok
      BY <1>1 DEF Attempt
    <2> QED BY <1>2, <1>4, <2>1 DEF Goes, Becomes
  <1>5. CASE Start(i)
    <2> DEFINE a == [Fresh EXCEPT !.pc = "pair", !.prior = stored]
    <2>1. Fresh \in Attempt /\ t = Fresh
      BY <1>1, <1>5, BoundsTyped DEF Attempt, Fresh, Phases, Modes, Start, Fits
    <2>2. a \in Attempt /\ a.ok = Fresh.ok
      BY <1>1, <2>1 DEF Attempt, Phases
    <2> QED BY <1>2, <1>5, <2>1, <2>2 DEF Start, Becomes
  <1>6. CASE PairFails(i) \/ GiveUp(i) \/ OutOfTime(i) \/ ProvisionWaited(i) \/ PriorWaited(i) \/ PersistWaited(i)
    BY <1>3, <1>4, <1>6 DEF PairFails, GiveUp, OutOfTime, ProvisionWaited, PriorWaited, PersistWaited, Phases
  <1>7. CASE CallReturns(i)
    <2>1. PICK pc \in Waits : attempt' = [attempt EXCEPT ![i] = Ended([t EXCEPT !.mine = link.gen, !.pc = pc])]
      BY <1>1, <1>7 DEF CallReturns, Becomes, Calls, Waits, Attempt
    <2>2. [t EXCEPT !.mine = link.gen, !.pc = pc] \in Attempt /\ [t EXCEPT !.mine = link.gen, !.pc = pc].ok = t.ok
      BY <1>1 DEF Attempt, Phases
    <2> QED BY <1>2, <2>1, <2>2
  <1>8. CASE Check(i)
    <2> DEFINE a == [t EXCEPT !.pc = "set", !.commit = "pending"]
    <2>1. a \in Attempt /\ a.ok = t.ok
      BY <1>1 DEF Attempt, Phases
    <2> QED BY <1>2, <1>3, <1>8, <2>1 DEF Check, Becomes
  <1>9. CASE Store(i)
    <2> DEFINE a == [t EXCEPT !.pc = "verify", !.commit = "done"]
    <2>1. a \in Attempt /\ a.ok = t.ok
      BY <1>1 DEF Attempt, Phases
    <2> QED BY <1>2, <1>9, <2>1 DEF Store, Becomes
  <1>10. CASE StoreFails(i)
    <2> DEFINE b == [t EXCEPT !.pc = "ended", !.commit = "failed"]
    <2>1. b \in Attempt /\ b.ok = t.ok
      BY <1>1 DEF Attempt, Phases
    <2>2. attempt' = [attempt EXCEPT ![i] = Ended(RollsBack(b))]
      BY <1>10 DEF StoreFails, Becomes
    <2> HIDE DEF b
    <2> QED BY <1>2, <2>1, <2>2, RollsBackKeepsOk DEF RollsBackOk
  <1>11. CASE Timeout(i)
    <2> DEFINE b == [t EXCEPT !.stopped = TRUE]
    <2>1. b \in Attempt /\ b.ok = t.ok
      BY <1>1 DEF Attempt, Phases
    <2>2. attempt' = [attempt EXCEPT ![i] = Ended(RollsBack(b))]
      BY <1>11 DEF Timeout, Becomes
    <2> HIDE DEF b
    <2> QED BY <1>2, <2>1, <2>2, RollsBackKeepsOk DEF RollsBackOk
  <1>12. CASE Verify(i)
    <2> DEFINE a == [t EXCEPT !.pc = "persist", !.durable = TRUE]
    <2>1. a \in Attempt /\ a.ok = t.ok
      BY <1>1 DEF Attempt, Phases
    <2> QED BY <1>2, <1>3, <1>12, <2>1 DEF Verify, Becomes
  <1>13. ASSUME NEW kind, NEW token, NEW pc \in Calls, Tries(i, kind, token, pc), t.pc # "ended"
         PROVE  Same
    <2> DEFINE a == [t EXCEPT !.pc = pc, !.mine = link.gen + 1, !.disturbed = TRUE]
    <2>1. a \in Attempt /\ a.ok = t.ok /\ a.pc = pc
      BY <1>1 DEF Attempt, Phases
    <2>2. attempt' = [attempt EXCEPT ![i] = a] /\ Ended(a) = a
      BY <1>13, <2>1 DEF Tries, Ended, Calls
    <2> HIDE DEF a
    <2> QED BY <1>2, <2>1, <2>2
  <1>14. CASE Provisioning(i) \/ Persist(i) \/ Ordinary(i) \/ TryPrior(i)
    BY <1>13, <1>14 DEF Provisioning, Persist, Ordinary, TryPrior, Calls
  <1>15. CASE OrdinaryWaited(i)
    <2>1. PICK proved \in BOOLEAN :
            attempt' = [attempt EXCEPT ![i] = Ended(
              [t EXCEPT !.tries = t.tries + 1, !.proved = t.proved \/ proved,
                        !.pc = IF t.tries + 1 = MaxTries THEN "last" ELSE "persist"])]
      BY <1>15 DEF OrdinaryWaited, Becomes
    <2>2. t.tries + 1 \in 0 .. MaxTries /\ (t.proved \/ proved) \in BOOLEAN
      BY <1>1, <1>15, BoundsTyped DEF Attempt, Fits, OrdinaryWaited
    <2> DEFINE a == [t EXCEPT !.tries = t.tries + 1, !.proved = t.proved \/ proved,
                              !.pc = IF t.tries + 1 = MaxTries THEN "last" ELSE "persist"]
    <2>3. a \in Attempt /\ a.ok = t.ok
      BY <1>1, <2>2 DEF Attempt, Phases
    <2> QED BY <1>2, <2>1, <2>3
  <1>16. CASE PutBack(i)
    BY <1>3, <1>16 DEF PutBack
  <1>17. CASE TakeBack(i)
    <2>1. /\ [t EXCEPT !.rollback = "connect"] \in Attempt
          /\ [t EXCEPT !.rollback = "connect"].ok = t.ok
          /\ [t EXCEPT !.rollback = "over", !.over = TRUE] \in Attempt
          /\ [t EXCEPT !.rollback = "over", !.over = TRUE].ok = t.ok
      BY <1>1 DEF Attempt
    <2> QED BY <1>2, <1>17, <2>1 DEF TakeBack, Becomes
  <1>18. CASE Return(i)
    <2>1. /\ [t EXCEPT !.rollback = "over", !.over = TRUE] \in Attempt
          /\ [t EXCEPT !.rollback = "over", !.over = TRUE].ok = t.ok
      BY <1>1 DEF Attempt
    <2> QED BY <1>2, <1>18, <2>1 DEF Return, Becomes
  <1>19. CASE Elapse(i)
    <2>1. [t EXCEPT !.late = TRUE] \in Attempt /\ [t EXCEPT !.late = TRUE].ok = t.ok
      BY <1>1 DEF Attempt
    <2> QED BY <1>2, <1>19, <2>1 DEF Elapse, Becomes
  <1> QED BY <1>5, <1>6, <1>7, <1>8, <1>9, <1>10, <1>11, <1>12, <1>14, <1>15, <1>16, <1>17, <1>18, <1>19
        DEF Advances

\* Only a persisted reconnect that was acknowledged makes an attempt report success.
LEMMA SuccessReported ==
    ASSUME SetupInv, Next, NEW j \in Setups, ~attempt[j].ok, attempt'[j].ok
    PROVE  PersistWaited(j) /\ Authenticated(j)
  <1>1. attempt \in [Setups -> Attempt] /\ link \in Link /\ AllFit
    BY TypeOKParts DEF SetupInv, Types
  <1>2. SUFFICES ASSUME ~(PersistWaited(j) /\ Authenticated(j)) 
               PROVE  attempt'[j].ok = attempt[j].ok
    OBVIOUS
  <1>3. CASE Daemon
    <2>1. CASE \E i \in Setups : Issue(i)
      BY <1>1, <2>1 DEF Issue, Attempt
    <2>2. CASE ~\E i \in Setups : Issue(i)
      BY <1>3, <2>2 DEF Daemon, ClientHello, Provision, Authenticate, PinRepeats, PinRefused, PinWrites,
         PinSaved, PinSaveFails, PinStep, Begin, Expire, Restart, Cancel
    <2> QED BY <2>1, <2>2
  <1>4. CASE Main
    <2>1. CASE Kill
      <3>1. ASSUME NEW k \in Setups PROVE attempt'[k].ok = attempt[k].ok
        <4> DEFINE b == [attempt[k] EXCEPT !.pc = "ended", !.over = TRUE]
                   e == [Fresh EXCEPT !.pc = "ended", !.durable = b.durable, !.over = TRUE, !.ok = b.ok]
        <4>1. CASE attempt[k].pc # "idle"
          <5>0. attempt[k] \in Attempt
            BY <1>1
          <5>1. b \in Attempt /\ b.ok = attempt[k].ok /\ b.over = TRUE /\ b.pc = "ended"
            BY <5>0 DEF Attempt, Phases
          <5>2. attempt'[k] = Ended(b)
            BY <2>1, <4>1 DEF Kill
          <5>3. Ended(b) = e
            BY <5>1 DEF Ended
          <5>4. Fresh \in Attempt
            BY BoundsTyped DEF Attempt, Fresh, Phases, Modes
          <5>5. b.durable \in BOOLEAN /\ b.ok \in BOOLEAN
            BY <5>1 DEF Attempt
          <5> HIDE DEF b
          <5>6. e.ok = b.ok
            BY <5>4, <5>5 DEF Attempt
          <5> QED BY <5>1, <5>2, <5>3, <5>6
        <4>2. CASE attempt[k].pc = "idle"
          BY <2>1, <4>2 DEF Kill
        <4> QED BY <4>1, <4>2
      <3> QED BY <3>1
    <2>2. CASE ~Kill
      BY <1>4, <2>2 DEF Main, ReadToken, OpenSocket, Challenged, HelloAck, ConnectionLost,
         ReconnectTimer, UserReconnects, UserRemovesPairing
    <2> QED BY <2>1, <2>2
  <1>5. CASE \E i \in Setups : Start(i) \/ Advances(i) \/ Elapse(i) \/ Timeout(i)
    <2>1. PICK i \in Setups : Start(i) \/ Advances(i) \/ Elapse(i) \/ Timeout(i)
      BY <1>5
    <2>2. CASE PersistWaited(i) /\ Authenticated(i)
      <3>1. i # j
        BY <1>2, <2>2
      <3>2. PICK a : attempt' = [attempt EXCEPT ![i] = a]
        BY <2>2 DEF PersistWaited, Goes, Becomes
      <3> QED BY <1>1, <3>1, <3>2
    <2>3. CASE ~(PersistWaited(i) /\ Authenticated(i))
      BY <2>1, <2>3, CallOk
    <2> QED BY <2>2, <2>3
  <1> QED BY <1>3, <1>4, <1>5 DEF Next

\* The pinned mode on disk changes by a save, and by a restart during one.
LEMMA DiskKept ==
    ASSUME SetupInv, Next, disk = "derived"
    PROVE  disk' = "derived"
  <1>1. Registry
    BY DEF SetupInv
  <1>2. CASE Daemon
    BY <1>1, <1>2 DEF Daemon, ClientHello, Provision, Authenticate, PinRepeats, PinRefused, PinWrites,
       PinSaved, PinSaveFails, Begin, Expire, Restart, Cancel, Issue, Registry, registryVars
  <1>3. CASE Main
    BY <1>3 DEF Main, ReadToken, OpenSocket, Challenged, HelloAck, ConnectionLost, ReconnectTimer,
       UserReconnects, UserRemovesPairing, Kill, registryVars
  <1>4. CASE \E i \in Setups : Start(i) \/ Advances(i) \/ Elapse(i) \/ Timeout(i)
    <2>1. PICK i \in Setups : Start(i) \/ Advances(i) \/ Elapse(i) \/ Timeout(i)
      BY <1>4
    <2>2. \A a : Becomes(i, a) => disk' = disk
      BY DEF Becomes, registryVars
    <2>3. \A kind, token, pc : Tries(i, kind, token, pc) => disk' = disk
      BY DEF Tries, registryVars
    <2>4. (Throws(i) => disk' = disk) /\ \A pc : Goes(i, pc) => disk' = disk
      BY <2>2 DEF Throws, Goes
    <2> QED BY <2>1, <2>2, <2>3, <2>4
          DEF Advances, Start, Elapse, Timeout, PairFails, Provisioning, CallReturns, ProvisionWaited, Check,
              Store, StoreFails, Verify, OutOfTime, Persist, PersistWaited, Ordinary, OrdinaryWaited,
              TryPrior, GiveUp, PriorWaited, PutBack, TakeBack, Return
  <1> QED BY <1>2, <1>3, <1>4 DEF Next

\* A pin() that settles well commits the setup it was asked for.
LEMMA CommitsPinned ==
    ASSUME SetupInv, Next, NEW i \in committed' \ committed
    PROVE  i \notin cancelled
  <1>1. CASE \E ok \in BOOLEAN : pins # <<>> /\ Settles(ok)
    <2>1. PICK ok \in BOOLEAN : pins # <<>> /\ Settles(ok)
      BY <1>1
    <2>2. i = pins[1].setup /\ i # NoSetup /\ 1 \in 1 .. Len(pins)
      BY <2>1, PinsTyped DEF Settles
    <2> QED BY <2>2 DEF SetupInv, Sessions
  <1>2. CASE ~\E ok \in BOOLEAN : pins # <<>> /\ Settles(ok)
    <2>1. CASE Daemon
      BY <1>2, <2>1, PinsTyped DEF Daemon, ClientHello, Provision, Authenticate, PinRepeats, PinRefused,
         PinWrites, PinSaved, PinSaveFails, Begin, Expire, Restart, Cancel, Issue, history
    <2>2. CASE Main
      BY <2>2 DEF Main, ReadToken, OpenSocket, Challenged, HelloAck, ConnectionLost, ReconnectTimer,
         UserReconnects, UserRemovesPairing, Kill, history
    <2>3. CASE \E j \in Setups : Start(j) \/ Advances(j) \/ Elapse(j) \/ Timeout(j)
      <3>1. PICK j \in Setups : Start(j) \/ Advances(j) \/ Elapse(j) \/ Timeout(j)
        BY <2>3
      <3>2. \A a : Becomes(j, a) => committed' = committed
        BY DEF Becomes, history
      <3>3. \A kind, token, pc : Tries(j, kind, token, pc) => committed' = committed
        BY DEF Tries, history
      <3>4. (Throws(j) => committed' = committed) /\ \A pc : Goes(j, pc) => committed' = committed
        BY <3>2 DEF Throws, Goes
      <3> QED BY <3>1, <3>2, <3>3, <3>4
            DEF Advances, Start, Elapse, Timeout, PairFails, Provisioning, CallReturns, ProvisionWaited, Check,
                Store, StoreFails, Verify, OutOfTime, Persist, PersistWaited, Ordinary, OrdinaryWaited,
                TryPrior, GiveUp, PriorWaited, PutBack, TakeBack, Return
    <2> QED BY <2>1, <2>2, <2>3 DEF Next
  <1> QED BY <1>1, <1>2

\* What is reported is true and stays true.
THEOREM ReportsKept == Spec => ReportsAreTrue
  <1> DEFINE A ==
        /\ \A i \in committed' \ committed : i \notin cancelled
        /\ \A i \in Setups : ~attempt[i].ok /\ attempt'[i].ok =>
              stored = "derived" /\ registry = "derived" /\ disk = "derived"
        /\ disk = "derived" => disk' = "derived"
  <1>1. SetupInv /\ [Next]_vars => [A]_vars
    <2> SUFFICES ASSUME SetupInv, Next PROVE A
      OBVIOUS
    <2>1. ASSUME NEW i \in Setups, ~attempt[i].ok, attempt'[i].ok
          PROVE  stored = "derived" /\ registry = "derived" /\ disk = "derived"
      <3>1. PersistWaited(i) /\ Authenticated(i)
        BY <2>1, SuccessReported
      <3>2. /\ Fits(attempt[i]) /\ attempt[i].pc = "persistWait" /\ ~attempt[i].stopped
            /\ attempt[i].pc \in Durables
        BY <3>1, CallFacts DEF PersistWaited, Authenticated, Durables
      <3>3. InProgress(i)
        BY <3>2 DEF InProgress, Fits
      <3>4. /\ link.gen \in DOMAIN conn /\ conn[link.gen].at = "acked"
            /\ conn[link.gen].mode = conn[link.gen].token
        BY <3>1, AuthenticatedSocket
      <3>5. stored = "derived"
        BY <3>2, <3>3 DEF SetupInv, Exclusive
      <3>6. conn[link.gen].token = "derived" /\ conn[link.gen].kind # "provisioning"
        BY <3>2, <3>3, <3>4 DEF SetupInv, Proves
      <3>7. registry = "derived" /\ disk = "derived"
        BY <3>4, <3>6 DEF SetupInv, Proves
      <3> QED BY <3>5, <3>7
    <2> QED BY <2>1, CommitsPinned, DiskKept
  <1>2. Spec => [][A]_vars
    BY <1>1, SetupInvariant, PTL DEF Spec
  <1> QED BY <1>2 DEF ReportsAreTrue

=============================================================================
