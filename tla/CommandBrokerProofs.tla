------------------------ MODULE CommandBrokerProofs ------------------------
(***************************************************************************)
(* What the broker keeps, for any number of clients, browsers and          *)
(* operations: its types; the authority of its approved deliveries (a      *)
(* grant is used once, and only for what a human confirmed or the policy   *)
(* minted); the implementation of ApprovalGate; and the agreement of its   *)
(* maps with its requests, its sessions and its limits.                    *)
(***************************************************************************)
EXTENDS CommandBroker, WellFoundedInduction, FiniteSetTheorems, TLAPS
-----------------------------------------------------------------------------
(* Least elements and sub-maps. *)

Below == {ss \in Nat \X Nat : ss[1] < ss[2]}

\* There is no infinite descent in the naturals.
LEMMA BelowWellFounded == IsWellFoundedOn(Below, Nat)
  BY NatLessThanWellFounded DEF OpToRel, Below

\* The first of a non-empty set of identifiers is one of them.
LEMMA LeastIsMember ==
  ASSUME NEW S \in SUBSET Nat, S # {}
  PROVE  Least(S) \in S
<1>1. PICK x \in S : \A y \in S : ~ (<<y, x>> \in Below)
  BY BelowWellFounded, WFMin
<1>2. ASSUME NEW y \in S PROVE x <= y
  <2>1. x \in Nat /\ y \in Nat
    OBVIOUS
  <2>2. ~ (y < x)
    BY <1>1, <2>1 DEF Below
  <2>3. QED BY <2>1, <2>2
<1>3. QED BY <1>2 DEF Least

\* A is what is left of the map f.
SubMap(A, f) == DOMAIN A \subseteq DOMAIN f /\ A = [x \in DOMAIN A |-> f[x]]

\* A map is what is left of itself.
LEMMA SubMapSelf ==
  ASSUME NEW f, f = [x \in DOMAIN f |-> f[x]]
  PROVE  SubMap(f, f)
  BY DEF SubMap

\* Dropping keys leaves a sub-map without them.
LEMMA DropSubMap ==
  ASSUME NEW A, NEW f, SubMap(A, f), NEW S
  PROVE  SubMap(Drop(A, S), f) /\ DOMAIN Drop(A, S) = DOMAIN A \ S
  BY DEF SubMap, Drop, Restrict

\* What is left of a typed map is typed.
LEMMA SubMapTyped ==
  ASSUME NEW T, NEW f, NEW A, f \in [DOMAIN f -> T], SubMap(A, f)
  PROVE  A \in [DOMAIN A -> T]
  BY DEF SubMap

\* Sweeping expired approvals leaves a sub-map.
LEMMA SweptSubMap ==
  ASSUME NEW A, NEW f, SubMap(A, f), NEW hits
  PROVE  SubMap(Swept(A, hits), f)
  BY DEF SubMap, Swept, Restrict

\* Whatever a result searches, cancels or takes leaves a sub-map of approvals.
LEMMA LeftoversSubMap ==
  ASSUME TypeOK, NEW c, NEW fp, NEW a
  PROVE  /\ SubMap(Searched(c, fp), approvals)
         /\ SubMap(Unspent(c, fp), approvals)
         /\ SubMap(Remaining(c, fp), approvals)
         /\ SubMap(TakeApproval(Searched(c, fp), a), approvals)
         /\ DOMAIN TakeApproval(Searched(c, fp), a) \subseteq DOMAIN approvals \ {a}
<1>1. SubMap(approvals, approvals)
  BY SubMapSelf DEF TypeOK
<1>2. SubMap(Searched(c, fp), approvals)
  BY <1>1, SweptSubMap DEF Searched
<1>3. SubMap(Unspent(c, fp), approvals)
  BY <1>1, <1>2, DropSubMap DEF Unspent, TakeApproval
<1>4. SubMap(Remaining(c, fp), approvals)
  BY <1>1, <1>3, SweptSubMap DEF Remaining
<1>5. /\ SubMap(TakeApproval(Searched(c, fp), a), approvals)
      /\ DOMAIN TakeApproval(Searched(c, fp), a) = DOMAIN Searched(c, fp) \ {a}
  BY <1>2, DropSubMap DEF TakeApproval
<1>6. QED BY <1>2, <1>3, <1>4, <1>5 DEF SubMap
-----------------------------------------------------------------------------
(* Typing. *)

\* Answering a request keeps it a request.
LEMMA AnsweredTyped ==
  ASSUME NEW q \in Request
  PROVE  Answered(q) \in Request
<1>1. CASE q.gone
  BY <1>1 DEF Answered, Request, Phases
<1>2. CASE ~q.gone
  <2>1. q.replies + 1 \in Nat
    BY DEF Request
  <2>2. Answered(q) = [q EXCEPT !.phase = "done", !.replies = q.replies + 1]
    BY <1>2 DEF Answered
  <2>3. QED BY <2>1, <2>2 DEF Request, Phases
<1>3. QED BY <1>1, <1>2

\* The part of TypeOK a step on commands and requests must restore.
RoutingTyped ==
  /\ request \in [Requests -> Request]
  /\ commands \in [DOMAIN commands -> Command]
  /\ nextId \in Ids
  /\ DOMAIN commands \subseteq 1..(nextId - 1)
  /\ delivered \subseteq Delivery

\* The part of TypeOK a step on approvals must restore.
ApprovalsTyped ==
  /\ approvals \in [DOMAIN approvals -> Approval]
  /\ DOMAIN approvals \subseteq 1..(nextId - 1)

\* A sub-map of the approvals is typed, even after identifiers were issued.
LEMMA LessApprovalsTyped ==
  ASSUME TypeOK, SubMap(approvals', approvals), nextId' \in Ids, nextId <= nextId'
  PROVE  ApprovalsTyped'
<1>1. approvals' \in [DOMAIN approvals' -> Approval]
  BY SubMapTyped DEF TypeOK
<1>2. DOMAIN approvals' \subseteq 1..(nextId - 1)
  BY DEF TypeOK, SubMap
<1>3. 1..(nextId - 1) \subseteq 1..(nextId' - 1)
  BY DEF TypeOK, Ids
<1>4. QED BY <1>1, <1>2, <1>3 DEF ApprovalsTyped

\* Settling one command answers its client and leaves the rest typed.
LEMMA SettleTyped ==
  ASSUME TypeOK, NEW id \in DOMAIN commands, NEW S,
         commands' = Drop(commands, S), Answer(commands[id].client),
         nextId' = nextId, delivered' = delivered
  PROVE  RoutingTyped'
<1>1. /\ commands' \in [DOMAIN commands' -> Command]
      /\ DOMAIN commands' \subseteq DOMAIN commands
  <2>1. SubMap(commands, commands)
    BY SubMapSelf DEF TypeOK
  <2>2. SubMap(commands', commands)
    BY <2>1, DropSubMap
  <2>3. QED BY <2>2, SubMapTyped DEF TypeOK, SubMap
<1>2. request' \in [Requests -> Request]
  BY AnsweredTyped DEF TypeOK, Answer
<1>3. QED BY <1>1, <1>2 DEF RoutingTyped, TypeOK

\* Routing a typed command.
LEMMA RouteTyped ==
  ASSUME TypeOK, NEW c \in Command, NEW cmds, SubMap(cmds, commands),
         NEW source \in Sources, RouteCommand(c, cmds, source),
         c.approved => c.fp \in Fingerprints /\ c.grant \in Ids
  PROVE  RoutingTyped' /\ nextId <= nextId'
<1>1. cmds \in [DOMAIN cmds -> Command] /\ DOMAIN cmds \subseteq 1..(nextId - 1)
  BY SubMapTyped DEF TypeOK, SubMap
<1>2. c.client \in Requests /\ c.browser \in Browsers /\ c.op \in Operations
  BY DEF Command
<1>3. CASE RouteRefused(c, cmds)
  <2>1. request' \in [Requests -> Request]
    BY <1>3, AnsweredTyped DEF RouteRefused, Answer, TypeOK
  <2>2. nextId' = nextId /\ delivered' = delivered /\ commands' = cmds
    BY <1>3 DEF RouteRefused
  <2>3. nextId \in Nat
    BY DEF TypeOK, Ids
  <2>4. QED BY <1>1, <2>1, <2>2, <2>3 DEF RoutingTyped, TypeOK
<1>4. CASE RouteSent(c, cmds, source)
  <2>1. /\ nextId' = nextId + 1
        /\ commands' = Put(cmds, nextId, c)
        /\ request' = [request EXCEPT ![c.client].phase = "pending"]
    BY <1>4 DEF RouteSent
  <2>2. nextId \in Ids /\ nextId' \in Ids /\ nextId <= nextId'
    BY <2>1 DEF TypeOK, Ids
  <2>3. request' \in [Requests -> Request]
    BY <2>1, <1>2 DEF TypeOK, Request, Phases
  <2>4. /\ commands' \in [DOMAIN commands' -> Command]
        /\ DOMAIN commands' = DOMAIN cmds \cup {nextId}
    BY <1>1, <2>1 DEF Put
  <2>5. DOMAIN commands' \subseteq 1..(nextId' - 1)
    BY <1>1, <2>1, <2>2, <2>4 DEF Ids
  <2>6. c.approved => Delivered(nextId, c, source) \in Delivery
    BY <1>2, <2>2 DEF Delivered, Delivery
  <2>7. delivered' \subseteq Delivery
    BY <1>4, <2>6 DEF RouteSent, TypeOK
  <2>8. QED BY <2>2, <2>3, <2>4, <2>5, <2>7 DEF RoutingTyped
<1>5. QED BY <1>3, <1>4 DEF RouteCommand

\* The first hit among typed approvals is an identifier, or none.
LEMMA FirstOfTyped ==
  ASSUME TypeOK, NEW hits, hits \subseteq DOMAIN approvals
  PROVE  FirstOf(hits) \in Nat /\ (hits # {} => FirstOf(hits) \in hits)
<1>1. DOMAIN approvals \subseteq Nat
  BY DEF TypeOK
<1>2. CASE hits = {}
  BY <1>2 DEF FirstOf, NoId
<1>3. CASE hits # {}
  BY <1>1, <1>3, LeastIsMember DEF FirstOf
<1>4. QED BY <1>2, <1>3

\* A fresh request is routed with typed commands, approvals and identifiers.
LEMMA RouteRequestTyped ==
  ASSUME TypeOK, NEW r \in Requests, NEW b \in Browsers, NEW g \in Nat,
         NEW op \in Operations, RouteRequest(r, b, g, op)
  PROVE  RoutingTyped' /\ ApprovalsTyped' /\ nextId <= nextId'
<1> DEFINE hits == Matching(approvals, b, op, Fingerprints, "approved")
           c == [client |-> r, browser |-> b, gen |-> g, op |-> op,
                 approved |-> FALSE, grant |-> NoId, fp |-> NoFingerprint,
                 recheck |-> FirstOf(hits), policyUses |-> 0]
<1>1. hits \subseteq DOMAIN approvals
  BY DEF Matching
<1>2. FirstOf(hits) \in Nat
  BY <1>1, FirstOfTyped
<1>3. approvals' = Swept(approvals, hits) /\ RouteCommand(c, commands, "session")
  BY DEF RouteRequest
<1>4. c \in Command /\ ~c.approved
  BY <1>2 DEF Command, NoId
<1> HIDE DEF hits, c
<1>5. SubMap(commands, commands) /\ SubMap(approvals, approvals)
  BY SubMapSelf DEF TypeOK
<1>6. RoutingTyped' /\ nextId <= nextId'
  BY <1>3, <1>4, <1>5, RouteTyped DEF Sources
<1>7. SubMap(approvals', approvals)
  BY <1>3, <1>5, SweptSubMap
<1>8. QED BY <1>6, <1>7, LessApprovalsTyped DEF RoutingTyped
-----------------------------------------------------------------------------
(* Every step keeps the types.  The parts of TypeOK are restored one by one. *)

\* TypeOK is its parts.
LEMMA TypeParts ==
  TypeOK <=> /\ session \in [Browsers -> Session]
             /\ RoutingTyped
             /\ ApprovalsTyped
             /\ decisions \subseteq Decision
  BY DEF TypeOK, RoutingTyped, ApprovalsTyped

\* Releasing a browser keeps commands, requests and approvals typed.
LEMMA ReleaseTyped ==
  ASSUME TypeOK, NEW b \in Browsers, ReleaseBrowser(b),
         nextId' = nextId, delivered' = delivered
  PROVE  RoutingTyped' /\ ApprovalsTyped'
<1>1. SubMap(commands, commands) /\ SubMap(approvals, approvals)
  BY SubMapSelf DEF TypeOK
<1>2. SubMap(commands', commands) /\ SubMap(approvals', approvals)
  BY <1>1, DropSubMap DEF ReleaseBrowser
<1>3. /\ commands' \in [DOMAIN commands' -> Command]
      /\ DOMAIN commands' \subseteq DOMAIN commands
  BY <1>2, SubMapTyped DEF TypeOK, SubMap
<1>4. request' \in [Requests -> Request]
  BY AnsweredTyped DEF TypeOK, ReleaseBrowser
<1>5. nextId' \in Ids /\ nextId <= nextId'
  BY DEF TypeOK, Ids
<1>6. RoutingTyped'
  BY <1>3, <1>4, <1>5 DEF RoutingTyped, TypeOK
<1>7. QED BY <1>2, <1>5, <1>6, LessApprovalsTyped

\* Sessions come and go.
LEMMA BrowserStepTyped ==
  ASSUME TypeOK, BrowserStep PROVE TypeOK'
<1>1. PICK b \in Browsers :
        \/ \E state \in SocketStates \ {"none"} : Register(b, state)
        \/ SocketClosing(b)
        \/ Disconnect(b)
  BY DEF BrowserStep
<1>2. ASSUME UNCHANGED <<commands, request, approvals, nextId, delivered>>
      PROVE  RoutingTyped' /\ ApprovalsTyped'
  BY <1>2 DEF TypeOK, RoutingTyped, ApprovalsTyped
<1>3. ASSUME NEW state \in SocketStates \ {"none"}, Register(b, state)
      PROVE  TypeOK'
  <2>1. session' \in [Browsers -> Session]
    BY <1>3 DEF TypeOK, Register, Session
  <2>2. UNCHANGED <<nextId, decisions, delivered>>
    BY <1>3 DEF Register
  <2>3. RoutingTyped' /\ ApprovalsTyped'
    BY <1>2, <1>3, <2>2, ReleaseTyped DEF Register
  <2>4. QED BY <2>1, <2>2, <2>3 DEF TypeOK, RoutingTyped, ApprovalsTyped
<1>4. CASE SocketClosing(b)
  <2>1. session' \in [Browsers -> Session]
    BY <1>4 DEF TypeOK, SocketClosing, Session, SocketStates
  <2>2. UNCHANGED <<commands, request, approvals, nextId, decisions, delivered>>
    BY <1>4 DEF SocketClosing
  <2>3. QED BY <1>2, <2>1, <2>2 DEF TypeOK, RoutingTyped, ApprovalsTyped
<1>5. CASE Disconnect(b)
  <2>1. session' \in [Browsers -> Session]
    BY <1>5 DEF TypeOK, Disconnect, Session, SocketStates
  <2>2. UNCHANGED <<nextId, decisions, delivered>> /\ ReleaseBrowser(b)
    BY <1>5 DEF Disconnect
  <2>3. QED BY <2>1, <2>2, ReleaseTyped DEF TypeOK, RoutingTyped, ApprovalsTyped
<1>6. QED BY <1>1, <1>3, <1>4, <1>5

\* A step that leaves approvals, decisions and sessions alone.
LEMMA OnlyRoutingTyped ==
  ASSUME TypeOK, RoutingTyped', UNCHANGED <<session, approvals, nextId, decisions>>
  PROVE  TypeOK'
  BY DEF TypeOK, RoutingTyped

\* A step that leaves decisions and sessions alone.
LEMMA RoutingAndApprovalsTyped ==
  ASSUME TypeOK, RoutingTyped', ApprovalsTyped', UNCHANGED <<session, decisions>>
  PROVE  TypeOK'
  BY DEF TypeOK, RoutingTyped, ApprovalsTyped

\* Requests arrive, read files and lose their clients.
LEMMA ClientStepTyped ==
  ASSUME TypeOK, ClientStep PROVE TypeOK'
<1>1. PICK r \in Requests :
        \/ \E named \in Browsers \cup {AnyBrowser} :
              \/ SubmitUnroutable(r, named)
              \/ \E op \in Operations : Submit(r, named, op)
              \/ SubmitAttach(r, named)
        \/ AttachReadFails(r)
        \/ \E op \in AttachOperations : AttachReadDone(r, op)
        \/ ClientGone(r)
  BY DEF ClientStep
<1>2. request[r] \in Request
  BY DEF TypeOK
<1>3. ASSUME Answer(r),
             UNCHANGED <<session, commands, approvals, nextId, decisions, delivered>>
      PROVE  TypeOK'
  <2>1. request' \in [Requests -> Request]
    BY <1>2, <1>3, AnsweredTyped DEF TypeOK, Answer
  <2>2. QED BY <1>3, <2>1 DEF TypeOK
<1>4. ASSUME NEW named \in Browsers \cup {AnyBrowser}, SubmitUnroutable(r, named)
      PROVE  TypeOK'
  BY <1>3, <1>4 DEF SubmitUnroutable
<1>5. ASSUME NEW named \in Browsers \cup {AnyBrowser}, NEW op \in Operations,
             Submit(r, named, op)
      PROVE  TypeOK'
  <2>1. PICK b \in Browsers : RouteRequest(r, b, session[b].gen, op)
    BY <1>5 DEF Submit
  <2>2. session[b].gen \in Nat
    BY DEF TypeOK, Session
  <2>3. RoutingTyped' /\ ApprovalsTyped'
    BY <2>1, <2>2, RouteRequestTyped
  <2>4. QED BY <1>5, <2>3, RoutingAndApprovalsTyped DEF Submit
<1>6. ASSUME NEW named \in Browsers \cup {AnyBrowser}, SubmitAttach(r, named)
      PROVE  TypeOK'
  <2>1. PICK b \in Browsers :
          request' = [request EXCEPT ![r] =
             [@ EXCEPT !.phase = "reading", !.browser = b, !.gen = session[b].gen]]
    BY <1>6 DEF SubmitAttach
  <2>2. session[b].gen \in Nat
    BY DEF TypeOK, Session
  <2>3. [request[r] EXCEPT !.phase = "reading", !.browser = b,
                           !.gen = session[b].gen] \in Request
    BY <1>2, <2>2 DEF Request, Phases
  <2>4. request' \in [Requests -> Request]
    BY <2>1, <2>3 DEF TypeOK
  <2>5. QED BY <1>6, <2>4 DEF TypeOK, SubmitAttach
<1>7. CASE AttachReadFails(r)
  BY <1>3, <1>7 DEF AttachReadFails
<1>8. ASSUME NEW op \in AttachOperations, AttachReadDone(r, op)
      PROVE  TypeOK'
  <2>1. request[r].browser \in Browsers /\ request[r].gen \in Nat
    BY <1>2, <1>8 DEF AttachReadDone, Request
  <2>2. op \in Operations
    BY OperationsAssumption
  <2>3. RoutingTyped' /\ ApprovalsTyped'
    BY <1>8, <2>1, <2>2, RouteRequestTyped DEF AttachReadDone
  <2>4. QED BY <1>8, <2>3, RoutingAndApprovalsTyped DEF AttachReadDone
<1>9. CASE ClientGone(r)
  <2>1. Left(request[r]) \in Request
    BY <1>2 DEF Left, Request, Phases
  <2>2. request' \in [Requests -> Request]
    BY <1>9, <2>1 DEF TypeOK, ClientGone
  <2>3. SubMap(commands, commands)
    BY SubMapSelf DEF TypeOK
  <2>4. SubMap(commands', commands)
    BY <1>9, <2>3, DropSubMap DEF ClientGone
  <2>5. /\ commands' \in [DOMAIN commands' -> Command]
        /\ DOMAIN commands' \subseteq DOMAIN commands
    BY <2>4, SubMapTyped DEF TypeOK, SubMap
  <2>6. QED BY <1>9, <2>2, <2>5 DEF TypeOK, ClientGone
<1>10. QED BY <1>1, <1>4, <1>5, <1>6, <1>7, <1>8, <1>9

\* The re-routed command of a result is typed.
LEMMA ReroutedTyped ==
  ASSUME TypeOK, NEW id \in DOMAIN commands, NEW fp \in Fingerprints
  PROVE  /\ \A a \in DOMAIN approvals :
              /\ UnderGrant(commands[id], fp, a) \in Command
              /\ UnderGrant(commands[id], fp, a).grant \in Ids
              /\ UnderGrant(commands[id], fp, a).fp \in Fingerprints
         /\ UnderPolicy(commands[id], fp) \in Command
         /\ UnderPolicy(commands[id], fp).grant \in Ids
         /\ UnderPolicy(commands[id], fp).fp \in Fingerprints
<1> DEFINE c == commands[id]
<1>1. c \in Command
  BY DEF TypeOK
<1>2. nextId \in Ids /\ nextId \in Nat /\ \A a \in DOMAIN approvals : a \in Ids /\ a \in Nat
  BY DEF TypeOK, Ids
<1>3. c.policyUses + 1 \in Nat
  BY <1>1 DEF Command
<1> HIDE DEF c
<1>4. ASSUME NEW a \in DOMAIN approvals
      PROVE  /\ UnderGrant(c, fp, a) \in Command
             /\ UnderGrant(c, fp, a).grant = a
             /\ UnderGrant(c, fp, a).fp = fp
  BY <1>1, <1>2 DEF UnderGrant, Command, NoId
<1>5. /\ UnderPolicy(c, fp) \in Command
      /\ UnderPolicy(c, fp).grant = nextId
      /\ UnderPolicy(c, fp).fp = fp
  BY <1>1, <1>2, <1>3 DEF UnderPolicy, Command
<1>6. QED BY <1>2, <1>4, <1>5 DEF c

\* A result settles its command, spends or asks for an approval.
LEMMA ResultStepTyped ==
  ASSUME TypeOK, NEW id \in DOMAIN commands,
         NEW fp, NEW category, NEW bound,
         \/ ResultFinal(id)
         \/ ResultRejected(id, fp)
         \/ ResultSpendsGrant(id, fp)
         \/ ResultAlreadyAsked(id, fp)
         \/ ResultPolicyGrant(id, fp, category)
         \/ ResultNotAskable(id, fp, category, bound)
         \/ ResultAsks(id, fp, category)
  PROVE  TypeOK'
<1> DEFINE c == commands[id]
<1>1. SubMap(commands, commands) /\ SubMap(approvals, approvals)
  BY SubMapSelf DEF TypeOK
<1>2. SubMap(Drop(commands, {id}), commands)
  BY <1>1, DropSubMap
<1>3. nextId \in Ids /\ nextId \in Nat
  BY DEF TypeOK, Ids
<1>4. ASSUME commands' = Drop(commands, {id}), Answer(c.client),
             UNCHANGED <<session, nextId, decisions, delivered>>,
             SubMap(approvals', approvals)
      PROVE  TypeOK'
  <2>1. RoutingTyped'
    BY <1>4, SettleTyped
  <2>2. ApprovalsTyped'
    BY <1>3, <1>4, LessApprovalsTyped
  <2>3. QED BY <1>4, <2>1, <2>2, RoutingAndApprovalsTyped
<1>5. CASE ResultFinal(id)
  <2>1. SubMap(approvals', approvals)
    BY <1>1, <1>5, DropSubMap DEF ResultFinal, TakeApproval
  <2>2. QED BY <1>4, <1>5, <2>1 DEF ResultFinal
<1>6. CASE ResultRejected(id, fp)
  BY <1>1, <1>4, <1>6 DEF ResultRejected
<1>7. CASE ResultSpendsGrant(id, fp)
  <2> DEFINE a == Candidate(c, fp)
  <2>1. fp \in Fingerprints /\ a \in DOMAIN approvals
    BY <1>7 DEF ResultSpendsGrant, Acceptable, ExactGrant
  <2>2. /\ RouteCommand(UnderGrant(c, fp, a), Drop(commands, {id}), "session")
        /\ approvals' = TakeApproval(Searched(c, fp), a)
        /\ UNCHANGED <<session, decisions>>
    BY <1>7 DEF ResultSpendsGrant
  <2>3. /\ UnderGrant(c, fp, a) \in Command
        /\ UnderGrant(c, fp, a).grant \in Ids
        /\ UnderGrant(c, fp, a).fp \in Fingerprints
    BY <2>1, ReroutedTyped
  <2> HIDE DEF a, c
  <2>4. RoutingTyped' /\ nextId <= nextId'
    BY <1>2, <2>2, <2>3, RouteTyped DEF Sources
  <2>5. SubMap(approvals', approvals)
    BY <2>2, LeftoversSubMap
  <2>6. QED
    BY <2>2, <2>4, <2>5, LessApprovalsTyped, RoutingAndApprovalsTyped DEF RoutingTyped
<1>8. CASE ResultAlreadyAsked(id, fp)
  <2>1. SubMap(approvals', approvals)
    BY <1>8, LeftoversSubMap DEF ResultAlreadyAsked
  <2>2. QED BY <1>4, <1>8, <2>1 DEF ResultAlreadyAsked
<1>9. CASE ResultPolicyGrant(id, fp, category)
  <2>1. fp \in Fingerprints
    BY <1>9 DEF ResultPolicyGrant, NeedsApproval, Acceptable
  <2>2. /\ RouteCommand(UnderPolicy(c, fp), Drop(commands, {id}), "policy")
        /\ approvals' = Remaining(c, fp)
        /\ UNCHANGED <<session, decisions>>
    BY <1>9 DEF ResultPolicyGrant
  <2>3. /\ UnderPolicy(c, fp) \in Command
        /\ UnderPolicy(c, fp).grant \in Ids
        /\ UnderPolicy(c, fp).fp \in Fingerprints
    BY <2>1, ReroutedTyped
  <2> HIDE DEF c
  <2>4. RoutingTyped' /\ nextId <= nextId'
    BY <1>2, <2>2, <2>3, RouteTyped DEF Sources
  <2>5. SubMap(approvals', approvals)
    BY <2>2, LeftoversSubMap
  <2>6. QED
    BY <2>2, <2>4, <2>5, LessApprovalsTyped, RoutingAndApprovalsTyped DEF RoutingTyped
<1>10. CASE ResultNotAskable(id, fp, category, bound)
  <2>1. SubMap(approvals', approvals)
    BY <1>10, LeftoversSubMap DEF ResultNotAskable
  <2>2. QED BY <1>4, <1>10, <2>1 DEF ResultNotAskable
<1>11. CASE ResultAsks(id, fp, category)
  <2> DEFINE A == Remaining(c, fp)
             v == [browser |-> c.browser, gen |-> c.gen, op |-> c.op, fp |-> fp,
                   state |-> "pending", lapsed |-> FALSE]
  <2>1. /\ approvals' = Put(A, nextId, v)
        /\ nextId' = nextId + 1
        /\ commands' = Drop(commands, {id})
        /\ Answer(c.client)
        /\ UNCHANGED <<session, decisions, delivered>>
    BY <1>11 DEF ResultAsks
  <2>2. v \in Approval
    <3>1. c \in Command
      BY DEF TypeOK
    <3>2. fp \in Fingerprints
      BY <1>11 DEF ResultAsks, NeedsApproval, Acceptable
    <3>3. QED BY <3>1, <3>2 DEF Command, Approval
  <2>3. SubMap(A, approvals)
    BY LeftoversSubMap
  <2>4. A \in [DOMAIN A -> Approval] /\ DOMAIN A \subseteq 1..(nextId - 1)
    BY <2>3, SubMapTyped DEF TypeOK, SubMap
  <2> HIDE DEF A, v
  <2>5. ApprovalsTyped'
    <3>1. /\ approvals' \in [DOMAIN approvals' -> Approval]
          /\ DOMAIN approvals' = DOMAIN A \cup {nextId}
      BY <2>1, <2>2, <2>4 DEF Put
    <3>2. DOMAIN approvals' \subseteq 1..(nextId' - 1)
      BY <1>3, <2>1, <2>4, <3>1 DEF Ids
    <3>3. QED BY <3>1, <3>2 DEF ApprovalsTyped
  <2>6. RoutingTyped'
    <3>1. SubMap(commands', commands)
      BY <1>2, <2>1
    <3>2. /\ commands' \in [DOMAIN commands' -> Command]
          /\ DOMAIN commands' \subseteq 1..(nextId - 1)
      BY <3>1, SubMapTyped DEF TypeOK, SubMap
    <3>3. request' \in [Requests -> Request]
      BY <2>1, AnsweredTyped DEF TypeOK, Answer
    <3>4. nextId' \in Ids /\ 1..(nextId - 1) \subseteq 1..(nextId' - 1)
      BY <1>3, <2>1 DEF Ids
    <3>5. QED BY <2>1, <3>2, <3>3, <3>4 DEF RoutingTyped, TypeOK
  <2>7. QED BY <2>1, <2>5, <2>6, RoutingAndApprovalsTyped
<1>12. QED BY <1>5, <1>6, <1>7, <1>8, <1>9, <1>10, <1>11

\* Approvals are decided and run out.
LEMMA ApprovalStepTyped ==
  ASSUME TypeOK, ApprovalStep PROVE TypeOK'
<1>1. PICK a \in DOMAIN approvals :
        \/ \E verdict \in {"approve", "reject"} : Decide(a, verdict)
        \/ Elapse(a)
        \/ ExpireApproval(a)
  BY DEF ApprovalStep
<1>2. a \in Ids /\ approvals[a] \in Approval /\ nextId \in Ids
  BY DEF TypeOK, Ids
<1>3. ASSUME approvals' \in [DOMAIN approvals' -> Approval],
             DOMAIN approvals' \subseteq DOMAIN approvals,
             decisions' \subseteq Decision,
             UNCHANGED <<session, request, commands, nextId, delivered>>
      PROVE  TypeOK'
  BY <1>3 DEF TypeOK
<1>4. SubMap(TakeApproval(approvals, a), approvals)
  BY SubMapSelf, DropSubMap DEF TypeOK, TakeApproval
<1>5. /\ TakeApproval(approvals, a) \in [DOMAIN TakeApproval(approvals, a) -> Approval]
      /\ DOMAIN TakeApproval(approvals, a) \subseteq DOMAIN approvals
  BY <1>4, SubMapTyped DEF TypeOK, SubMap
<1>6. ASSUME NEW verdict \in {"approve", "reject"}, Decide(a, verdict)
      PROVE  TypeOK'
  <2>1. [approvals EXCEPT ![a].state = "approved"] \in [DOMAIN approvals -> Approval]
    BY <1>2 DEF TypeOK, Approval
  <2>2. decisions' \subseteq Decision
    BY <1>2, <1>6 DEF Decide, Decision, Approval, TypeOK
  <2>3. CASE verdict = "reject"
    <3>1. approvals' = TakeApproval(approvals, a)
      BY <1>6, <2>3 DEF Decide
    <3>2. QED BY <1>3, <1>5, <1>6, <2>2, <3>1 DEF Decide
  <2>4. CASE verdict = "approve"
    <3>1. approvals' = [approvals EXCEPT ![a].state = "approved"]
      BY <1>6, <2>4 DEF Decide
    <3>2. QED BY <1>3, <1>6, <2>1, <2>2, <3>1 DEF Decide
  <2>5. QED BY <2>3, <2>4
<1>7. CASE Elapse(a)
  <2>1. [approvals EXCEPT ![a].lapsed = TRUE] \in [DOMAIN approvals -> Approval]
    BY <1>2 DEF TypeOK, Approval
  <2>2. approvals' = [approvals EXCEPT ![a].lapsed = TRUE] /\ decisions' = decisions
    BY <1>7 DEF Elapse
  <2>3. QED BY <1>3, <1>7, <2>1, <2>2 DEF Elapse, TypeOK
<1>8. CASE ExpireApproval(a)
  BY <1>3, <1>5, <1>8 DEF ExpireApproval, TypeOK
<1>9. QED BY <1>1, <1>6, <1>7, <1>8

\* The daemon stops or dies.
LEMMA EndTyped ==
  ASSUME TypeOK, Stop \/ Crash PROVE TypeOK'
<1>1. /\ session' = [b \in Browsers |-> [session[b] EXCEPT !.state = "none"]]
      /\ commands' = Drop(commands, DOMAIN commands)
      /\ approvals' = Drop(approvals, DOMAIN approvals)
      /\ UNCHANGED <<nextId, decisions, delivered>>
  BY DEF Stop, Crash
<1>2. session' \in [Browsers -> Session]
  BY <1>1 DEF TypeOK, Session, SocketStates
<1>3. request' \in [Requests -> Request]
  <2>1. \A r \in Requests :
          /\ Answered(request[r]) \in Request
          /\ request[r] \in Request
    BY AnsweredTyped DEF TypeOK
  <2>2. \A q \in Request : /\ [q EXCEPT !.gone = TRUE] \in Request
                          /\ [q EXCEPT !.gone = TRUE, !.phase = "done"] \in Request
    BY DEF Request, Phases
  <2>3. CASE Stop
    BY <2>1, <2>2, <2>3 DEF Stop
  <2>4. CASE Crash
    BY <2>1, <2>2, <2>4 DEF Crash
  <2>5. QED BY <2>3, <2>4
<1>4. /\ commands' \in [DOMAIN commands' -> Command] /\ DOMAIN commands' = {}
      /\ approvals' \in [DOMAIN approvals' -> Approval] /\ DOMAIN approvals' = {}
  BY <1>1 DEF Drop, Restrict
<1>5. QED BY <1>1, <1>2, <1>3, <1>4 DEF TypeOK

\* A timer or a failed send settles one command.
LEMMA AbandonTyped ==
  ASSUME TypeOK, NEW id \in DOMAIN commands, Timeout(id) \/ SendFails(id)
  PROVE  TypeOK'
<1>1. Abandon(id)
  BY DEF Timeout, SendFails
<1>2. RoutingTyped'
  BY <1>1, SettleTyped DEF Abandon
<1>3. QED BY <1>1, <1>2, OnlyRoutingTyped DEF Abandon

\* The initial state is typed.
LEMMA InitTyped == Init => TypeOK
<1> SUFFICES ASSUME Init PROVE TypeOK
  OBVIOUS
<1>1. session \in [Browsers -> Session] /\ request \in [Requests -> Request]
  BY DEF Init, Idle, Session, SocketStates, Request, Phases
<1>2. commands \in [DOMAIN commands -> Command] /\ DOMAIN commands = {}
  BY DEF Init
<1>3. approvals \in [DOMAIN approvals -> Approval] /\ DOMAIN approvals = {}
  BY DEF Init
<1>4. QED BY <1>1, <1>2, <1>3 DEF Init, TypeOK, Ids

\* No step of the broker leaves the types.
LEMMA StepTyped == TypeOK /\ [Next]_vars => TypeOK'
<1> SUFFICES ASSUME TypeOK, [Next]_vars PROVE TypeOK'
  OBVIOUS
<1>1. CASE BrowserStep
  BY <1>1, BrowserStepTyped
<1>2. CASE ClientStep
  BY <1>2, ClientStepTyped
<1>3. CASE ResultStep
  BY <1>3, ResultStepTyped DEF ResultStep
<1>4. CASE \E id \in DOMAIN commands : Timeout(id) \/ SendFails(id)
  BY <1>4, AbandonTyped
<1>5. CASE ApprovalStep
  BY <1>5, ApprovalStepTyped
<1>6. CASE Stop \/ Crash
  BY <1>6, EndTyped
<1>7. CASE UNCHANGED vars
  BY <1>7 DEF vars, TypeOK
<1>8. QED BY <1>1, <1>2, <1>3, <1>4, <1>5, <1>6, <1>7 DEF Next

\* Type correctness of the broker (src/daemon/runtime.ts): the tables of
\* commands and approvals only hold well-formed entries under issued ids.
THEOREM TypeCorrect == Spec => []TypeOK
  BY InitTyped, StepTyped, PTL DEF Spec
-----------------------------------------------------------------------------
(***************************************************************************)
(* Authority.  A step decides an approval, delivers one approved command,  *)
(* or does neither; what it leaves of the approvals is unchanged, or new   *)
(* and unconfirmed.  AuthInv, which only speaks of approvals, decisions    *)
(* and deliveries, is inductive over these three kinds of step.            *)
(***************************************************************************)

\* Approval a is the one it was before the step.
SameApproval(a) ==
  /\ a \in DOMAIN approvals
  /\ approvals'[a].state = approvals[a].state
  /\ Subject(approvals'[a]) = Subject(approvals[a])

NewApproval(a) == a >= nextId /\ approvals'[a].state = "pending"

\* A step that neither decides nor delivers.
Neutral ==
  /\ \A a \in DOMAIN approvals' : SameApproval(a) \/ NewApproval(a)
  /\ nextId <= nextId'
  /\ decisions' = decisions
  /\ delivered' = delivered

\* A step that sends the approved command d.
Delivers(d) ==
  /\ d.id = nextId /\ nextId' = nextId + 1
  /\ delivered' = delivered \cup {d}
  /\ decisions' = decisions
  /\ \A a \in DOMAIN approvals' : SameApproval(a) /\ a # d.grant
  /\ \/ d.source = "policy" /\ d.grant = nextId
     \/ /\ d.source = "session"
        /\ d.grant \in DOMAIN approvals
        /\ approvals[d.grant].state = "approved"
        /\ Subject(approvals[d.grant]) = Subject(d)

\* A sub-map of the approvals has none but unchanged approvals.
LEMMA SubMapSame ==
  ASSUME SubMap(approvals', approvals)
  PROVE  \A a \in DOMAIN approvals' : SameApproval(a)
  BY DEF SubMap, SameApproval

\* Routing an unapproved command delivers nothing.
LEMMA RouteUnapproved ==
  ASSUME TypeOK, NEW c, NEW cmds, NEW source, ~c.approved, RouteCommand(c, cmds, source)
  PROVE  delivered' = delivered /\ nextId <= nextId'
<1>1. nextId \in Nat
  BY DEF TypeOK, Ids
<1>2. QED BY <1>1 DEF RouteCommand, RouteRefused, RouteSent

\* Routing an approved command delivers it or nothing.
LEMMA RouteApproved ==
  ASSUME NEW c, NEW cmds, NEW source, c.approved, RouteCommand(c, cmds, source)
  PROVE  \/ delivered' = delivered /\ nextId' = nextId
         \/ /\ delivered' = delivered \cup {Delivered(nextId, c, source)}
            /\ nextId' = nextId + 1
  BY DEF RouteCommand, RouteRefused, RouteSent

\* A fresh request is neutral.
LEMMA RequestNeutral ==
  ASSUME TypeOK, NEW r, NEW b, NEW g, NEW op, RouteRequest(r, b, g, op),
         decisions' = decisions
  PROVE  Neutral
<1> DEFINE hits == Matching(approvals, b, op, Fingerprints, "approved")
           c == [client |-> r, browser |-> b, gen |-> g, op |-> op,
                 approved |-> FALSE, grant |-> NoId, fp |-> NoFingerprint,
                 recheck |-> FirstOf(hits), policyUses |-> 0]
<1>1. approvals' = Swept(approvals, hits) /\ RouteCommand(c, commands, "session")
  BY DEF RouteRequest
<1>2. ~c.approved
  OBVIOUS
<1> HIDE DEF hits, c
<1>3. delivered' = delivered /\ nextId <= nextId'
  BY <1>1, <1>2, RouteUnapproved
<1>4. SubMap(approvals', approvals)
  BY <1>1, SubMapSelf, SweptSubMap DEF TypeOK
<1>5. QED BY <1>3, <1>4, SubMapSame DEF Neutral

\* A step that only shrinks the approvals is neutral.
LEMMA ShrinkNeutral ==
  ASSUME TypeOK, SubMap(approvals', approvals),
         UNCHANGED <<nextId, decisions, delivered>>
  PROVE  Neutral
<1>1. nextId <= nextId'
  BY DEF TypeOK, Ids
<1>2. QED BY <1>1, SubMapSame DEF Neutral

\* A result is neutral, or delivers one approved command.
LEMMA ResultKind ==
  ASSUME TypeOK, NEW id \in DOMAIN commands, NEW fp, NEW category, NEW bound,
         \/ ResultFinal(id)
         \/ ResultRejected(id, fp)
         \/ ResultSpendsGrant(id, fp)
         \/ ResultAlreadyAsked(id, fp)
         \/ ResultPolicyGrant(id, fp, category)
         \/ ResultNotAskable(id, fp, category, bound)
         \/ ResultAsks(id, fp, category)
  PROVE  Neutral \/ \E d : Delivers(d)
<1> DEFINE c == commands[id]
<1>1. SubMap(approvals, approvals)
  BY SubMapSelf DEF TypeOK
<1>2. nextId \in Nat
  BY DEF TypeOK, Ids
<1>3. CASE ResultFinal(id)
  BY <1>1, <1>3, DropSubMap, ShrinkNeutral DEF ResultFinal, TakeApproval
<1>4. CASE ResultRejected(id, fp)
  BY <1>1, <1>4, ShrinkNeutral DEF ResultRejected
<1>5. CASE ResultAlreadyAsked(id, fp)
  BY <1>5, LeftoversSubMap, ShrinkNeutral DEF ResultAlreadyAsked
<1>6. CASE ResultNotAskable(id, fp, category, bound)
  BY <1>6, LeftoversSubMap, ShrinkNeutral DEF ResultNotAskable
<1>7. CASE ResultAsks(id, fp, category)
  <2> DEFINE A == Remaining(c, fp)
             v == [browser |-> c.browser, gen |-> c.gen, op |-> c.op, fp |-> fp,
                   state |-> "pending", lapsed |-> FALSE]
  <2>1. /\ approvals' = Put(A, nextId, v) /\ nextId' = nextId + 1
        /\ UNCHANGED <<decisions, delivered>>
    BY <1>7 DEF ResultAsks
  <2>2. v.state = "pending"
    OBVIOUS
  <2>3. SubMap(A, approvals)
    BY LeftoversSubMap
  <2> HIDE DEF A, v
  <2>4. ASSUME NEW a \in DOMAIN approvals'
        PROVE  SameApproval(a) \/ NewApproval(a)
    <3>1. CASE a = nextId
      BY <1>2, <2>1, <2>2, <3>1 DEF Put, NewApproval
    <3>2. CASE a # nextId
      BY <2>1, <2>3, <3>2 DEF Put, SubMap, SameApproval
    <3>3. QED BY <3>1, <3>2
  <2>5. QED BY <1>2, <2>1, <2>4 DEF Neutral
<1>8. CASE ResultPolicyGrant(id, fp, category)
  <2> DEFINE u == UnderPolicy(c, fp)
             d == Delivered(nextId, u, "policy")
  <2>1. /\ RouteCommand(u, Drop(commands, {id}), "policy")
        /\ approvals' = Remaining(c, fp) /\ decisions' = decisions
    BY <1>8 DEF ResultPolicyGrant
  <2>2. c \in Command
    BY DEF TypeOK
  <2>3. u.approved /\ u.grant = nextId
    BY <2>2 DEF UnderPolicy, Command
  <2>4. d.id = nextId /\ d.grant = nextId /\ d.source = "policy"
    BY <2>3 DEF Delivered
  <2> HIDE DEF c, u, d
  <2>5. SubMap(approvals', approvals)
    BY <2>1, LeftoversSubMap
  <2>6. \A a \in DOMAIN approvals' : SameApproval(a) /\ a # nextId
    BY <1>2, <2>5, SubMapSame DEF TypeOK, SubMap
  <2>7. \/ delivered' = delivered /\ nextId' = nextId
        \/ delivered' = delivered \cup {d} /\ nextId' = nextId + 1
    BY <2>1, <2>3, RouteApproved DEF d
  <2>8. CASE delivered' = delivered /\ nextId' = nextId
    BY <1>2, <2>1, <2>6, <2>8 DEF Neutral
  <2>9. CASE delivered' = delivered \cup {d} /\ nextId' = nextId + 1
    <3>1. Delivers(d)
      BY <2>1, <2>4, <2>6, <2>9 DEF Delivers
    <3>2. QED BY <3>1
  <2>10. QED BY <2>7, <2>8, <2>9
<1>9. CASE ResultSpendsGrant(id, fp)
  <2> DEFINE g == Candidate(c, fp)
             u == UnderGrant(c, fp, g)
             d == Delivered(nextId, u, "session")
  <2>1. /\ RouteCommand(u, Drop(commands, {id}), "session")
        /\ approvals' = TakeApproval(Searched(c, fp), g)
        /\ decisions' = decisions
        /\ ExactGrant(c, fp, g)
    BY <1>9 DEF ResultSpendsGrant
  <2>2. c \in Command
    BY DEF TypeOK
  <2>3. /\ u.approved /\ u.grant = g /\ u.fp = fp
        /\ u.browser = c.browser /\ u.op = c.op
    BY <2>2 DEF UnderGrant, Command
  <2>4. /\ d.id = nextId /\ d.grant = g /\ d.source = "session"
        /\ d.browser = c.browser /\ d.op = c.op /\ d.fp = fp
    BY <2>3 DEF Delivered
  <2> HIDE DEF c, g, u, d
  <2>5. /\ g \in DOMAIN approvals /\ approvals[g].state = "approved"
        /\ Subject(approvals[g]) = Subject(d)
    BY <2>1, <2>4 DEF ExactGrant, Subject
  <2>6. \A a \in DOMAIN approvals' : SameApproval(a) /\ a # g
    <3>1. SubMap(approvals', approvals) /\ DOMAIN approvals' \subseteq DOMAIN approvals \ {g}
      BY <2>1, LeftoversSubMap
    <3>2. QED BY <3>1, SubMapSame
  <2>7. \/ delivered' = delivered /\ nextId' = nextId
        \/ delivered' = delivered \cup {d} /\ nextId' = nextId + 1
    BY <2>1, <2>3, RouteApproved DEF d
  <2>8. CASE delivered' = delivered /\ nextId' = nextId
    BY <1>2, <2>1, <2>6, <2>8 DEF Neutral
  <2>9. CASE delivered' = delivered \cup {d} /\ nextId' = nextId + 1
    <3>1. Delivers(d)
      BY <2>1, <2>4, <2>5, <2>6, <2>9 DEF Delivers
    <3>2. QED BY <3>1
  <2>10. QED BY <2>7, <2>8, <2>9
<1>10. QED BY <1>3, <1>4, <1>5, <1>6, <1>7, <1>8, <1>9

Decides == \E a \in DOMAIN approvals, verdict \in {"approve", "reject"} : Decide(a, verdict)

\* Every step is of one of the three kinds.
LEMMA StepKind ==
  ASSUME TypeOK, [Next]_vars
  PROVE  Neutral \/ Decides \/ \E d : Delivers(d)
<1>1. SubMap(approvals, approvals)
  BY SubMapSelf DEF TypeOK
<1>2. ASSUME UNCHANGED <<approvals, nextId, decisions, delivered>> PROVE Neutral
  BY <1>1, <1>2, ShrinkNeutral
<1>3. CASE BrowserStep
  <2>1. ASSUME NEW b, ReleaseBrowser(b) PROVE SubMap(approvals', approvals)
    BY <1>1, <2>1, DropSubMap DEF ReleaseBrowser
  <2>2. UNCHANGED <<nextId, decisions, delivered>>
    BY <1>3 DEF BrowserStep, Register, SocketClosing, Disconnect
  <2>3. SubMap(approvals', approvals)
    BY <1>1, <1>3, <2>1 DEF BrowserStep, Register, SocketClosing, Disconnect
  <2>4. QED BY <2>2, <2>3, ShrinkNeutral
<1>4. CASE ClientStep
  BY <1>2, <1>4, RequestNeutral DEF ClientStep, SubmitUnroutable, Submit, SubmitAttach,
     AttachReadFails, AttachReadDone, ClientGone
<1>5. CASE ResultStep
  BY <1>5, ResultKind DEF ResultStep
<1>6. CASE \E id \in DOMAIN commands : Timeout(id) \/ SendFails(id)
  BY <1>2, <1>6 DEF Timeout, SendFails, Abandon
<1>7. CASE ApprovalStep
  <2>1. PICK a \in DOMAIN approvals :
          \/ \E verdict \in {"approve", "reject"} : Decide(a, verdict)
          \/ Elapse(a)
          \/ ExpireApproval(a)
    BY <1>7 DEF ApprovalStep
  <2>2. CASE \E verdict \in {"approve", "reject"} : Decide(a, verdict)
    BY <2>2 DEF Decides
  <2>3. CASE Elapse(a)
    <3>1. \A x \in DOMAIN approvals' : SameApproval(x)
      BY <2>3 DEF Elapse, SameApproval, Subject, TypeOK, Approval
    <3>2. nextId <= nextId'
      BY <2>3 DEF Elapse, TypeOK, Ids
    <3>3. QED BY <2>3, <3>1, <3>2 DEF Elapse, Neutral
  <2>4. CASE ExpireApproval(a)
    BY <1>1, <2>4, DropSubMap, ShrinkNeutral DEF ExpireApproval, TakeApproval
  <2>5. QED BY <2>1, <2>2, <2>3, <2>4
<1>8. CASE Stop \/ Crash
  <2>1. /\ approvals' = Drop(approvals, DOMAIN approvals)
        /\ UNCHANGED <<nextId, decisions, delivered>>
    BY <1>8 DEF Stop, Crash
  <2>2. SubMap(approvals', approvals)
    BY <1>1, <2>1, DropSubMap
  <2>3. QED BY <2>1, <2>2, ShrinkNeutral
<1>9. CASE UNCHANGED vars
  BY <1>2, <1>9 DEF vars
<1>10. QED BY <1>3, <1>4, <1>5, <1>6, <1>7, <1>8, <1>9 DEF Next

\* A confirmed approval was confirmed by a human, for what it is for.
Backed ==
  \A a \in DOMAIN approvals :
      approvals[a].state = "approved" =>
          \E x \in decisions : /\ x.id = a /\ x.verdict = "approve"
                              /\ Subject(x) = Subject(approvals[a])

\* An approval that was decided and is still there was confirmed.
DecidedOnce ==
  \A x \in decisions :
      /\ x.id < nextId
      /\ x.id \in DOMAIN approvals =>
            x.verdict = "approve" /\ approvals[x.id].state = "approved"

\* Deliveries carry identifiers that were issued.
Issued == \A d \in delivered : d.id < nextId /\ d.grant < nextId

\* What was sent on a human decision, in terms of subjects.
Authorised ==
  \A d \in delivered :
      d.source # "policy" =>
          /\ \E x \in decisions : x.id = d.grant /\ Subject(x) = Subject(d)
          /\ \A x \in decisions : x.id = d.grant => x.verdict = "approve"

AuthInv == Backed /\ DecidedOnce /\ Issued /\ Authorised /\ SingleUse

\* The history part of TypeOK that the order of identifiers needs.
LEMMA IdsAreNumbers ==
  ASSUME TypeOK
  PROVE  /\ nextId \in Nat
         /\ DOMAIN approvals \subseteq Nat
         /\ \A a \in DOMAIN approvals : a < nextId
         /\ \A d \in delivered : d.id \in Nat /\ d.grant \in Nat
         /\ \A x \in decisions : x.id \in Nat
<1>1. nextId \in Nat /\ DOMAIN approvals \subseteq 1..(nextId - 1)
  BY DEF TypeOK, Ids
<1>2. \A d \in delivered : d.id \in Nat /\ d.grant \in Nat
  BY DEF TypeOK, Delivery, Ids
<1>3. \A x \in decisions : x.id \in Nat
  BY DEF TypeOK, Decision, Ids
<1>4. QED BY <1>1, <1>2, <1>3

\* Neutral steps keep AuthInv.
LEMMA NeutralKeeps ==
  ASSUME TypeOK, TypeOK', AuthInv, Neutral PROVE AuthInv'
<1>1. /\ \A a \in DOMAIN approvals' : SameApproval(a) \/ NewApproval(a)
      /\ nextId <= nextId' /\ decisions' = decisions /\ delivered' = delivered
  BY DEF Neutral
<1>2. nextId \in Nat /\ nextId' \in Nat
  BY DEF TypeOK, Ids
<1>3. Backed'
  <2> SUFFICES ASSUME NEW a \in DOMAIN approvals', approvals'[a].state = "approved"
               PROVE  \E x \in decisions : /\ x.id = a /\ x.verdict = "approve"
                                           /\ Subject(x) = Subject(approvals'[a])
    BY <1>1 DEF Backed, Subject
  <2>1. SameApproval(a)
    BY <1>1 DEF NewApproval
  <2>2. QED BY <2>1 DEF SameApproval, AuthInv, Backed
<1>4. DecidedOnce'
  <2> SUFFICES ASSUME NEW x \in decisions
               PROVE  /\ x.id < nextId'
                      /\ x.id \in DOMAIN approvals' =>
                           x.verdict = "approve" /\ approvals'[x.id].state = "approved"
    BY <1>1 DEF DecidedOnce
  <2>1. x.id \in Nat /\ x.id < nextId
    BY IdsAreNumbers DEF AuthInv, DecidedOnce
  <2>2. x.id \in DOMAIN approvals' => SameApproval(x.id)
    BY <1>1, <1>2, <2>1 DEF NewApproval
  <2>3. QED BY <1>1, <1>2, <2>1, <2>2 DEF SameApproval, AuthInv, DecidedOnce
<1>5. Issued' /\ \A d \in delivered : d.grant \in Nat /\ d.grant < nextId
  BY <1>1, <1>2, IdsAreNumbers DEF AuthInv, Issued
<1>6. Authorised'
  BY <1>1 DEF AuthInv, Authorised, Subject
<1>7. SingleUse'
  <2>1. \A d \in delivered : d.grant \notin DOMAIN approvals'
    BY <1>1, <1>2, <1>5 DEF SameApproval, NewApproval, AuthInv, SingleUse
  <2>2. QED BY <1>1, <2>1 DEF AuthInv, SingleUse
<1>8. QED BY <1>3, <1>4, <1>5, <1>6, <1>7 DEF AuthInv

\* Decisions keep AuthInv: they concern an approval that was never delivered.
LEMMA DecisionKeeps ==
  ASSUME TypeOK, AuthInv, NEW a \in DOMAIN approvals,
         NEW verdict \in {"approve", "reject"}, Decide(a, verdict)
  PROVE  AuthInv'
<1> DEFINE y == [id |-> a, browser |-> approvals[a].browser, op |-> approvals[a].op,
                 fp |-> approvals[a].fp, verdict |-> verdict]
<1>1. /\ decisions' = decisions \cup {y} /\ delivered' = delivered /\ nextId' = nextId
      /\ approvals[a].state = "pending"
  BY DEF Decide
<1>2. y.id = a /\ y.verdict = verdict /\ Subject(y) = Subject(approvals[a])
  BY DEF Subject
<1>3. a \in Nat /\ a < nextId
  BY IdsAreNumbers
<1>4. \A d \in delivered : d.grant # a
  BY DEF AuthInv, SingleUse
<1>5. \A x \in decisions : x.id # a
  BY <1>1 DEF AuthInv, DecidedOnce
<1> HIDE DEF y
<1>6. /\ DOMAIN approvals' \subseteq DOMAIN approvals
      /\ \A b \in DOMAIN approvals' \ {a} : approvals'[b] = approvals[b]
      /\ verdict = "reject" => a \notin DOMAIN approvals'
      /\ verdict # "reject" => /\ approvals'[a].state = "approved"
                              /\ Subject(approvals'[a]) = Subject(approvals[a])
  <2>1. CASE verdict = "reject"
    BY <2>1 DEF Decide, TakeApproval, Drop, Restrict
  <2>2. CASE verdict # "reject"
    <3>1. approvals' = [approvals EXCEPT ![a].state = "approved"]
      BY <2>2 DEF Decide
    <3>2. approvals[a] \in Approval
      BY DEF TypeOK
    <3>3. QED BY <2>2, <3>1, <3>2 DEF Subject, Approval
  <2>3. QED BY <2>1, <2>2
<1>7. Backed'
  <2> SUFFICES ASSUME NEW b \in DOMAIN approvals', approvals'[b].state = "approved"
               PROVE  \E x \in decisions' : /\ x.id = b /\ x.verdict = "approve"
                                           /\ Subject(x) = Subject(approvals'[b])
    BY DEF Backed, Subject
  <2>1. CASE b = a
    BY <1>1, <1>2, <1>6, <2>1
  <2>2. CASE b # a
    BY <1>1, <1>6, <2>2 DEF AuthInv, Backed
  <2>3. QED BY <2>1, <2>2
<1>8. DecidedOnce'
  <2> SUFFICES ASSUME NEW x \in decisions'
               PROVE  /\ x.id < nextId'
                      /\ x.id \in DOMAIN approvals' =>
                           x.verdict = "approve" /\ approvals'[x.id].state = "approved"
    BY DEF DecidedOnce
  <2>1. CASE x = y
    BY <1>1, <1>2, <1>3, <1>6, <2>1
  <2>2. CASE x \in decisions
    BY <1>1, <1>5, <1>6, <2>2 DEF AuthInv, DecidedOnce
  <2>3. QED BY <1>1, <2>1, <2>2
<1>9. Issued'
  BY <1>1 DEF AuthInv, Issued
<1>10. Authorised'
  <2> SUFFICES ASSUME NEW d \in delivered, d.source # "policy"
               PROVE  /\ \E x \in decisions' : x.id = d.grant /\ Subject(x) = Subject(d)
                      /\ \A x \in decisions' : x.id = d.grant => x.verdict = "approve"
    BY <1>1 DEF Authorised, Subject
  <2>1. d.grant # a
    BY <1>4
  <2>2. QED BY <1>1, <1>2, <2>1 DEF AuthInv, Authorised
<1>11. SingleUse'
  BY <1>1, <1>6 DEF AuthInv, SingleUse
<1>12. QED BY <1>7, <1>8, <1>9, <1>10, <1>11 DEF AuthInv

\* A delivery keeps AuthInv: its grant was available, or is new.
LEMMA DeliveryKeeps ==
  ASSUME TypeOK, AuthInv, NEW d, Delivers(d) PROVE AuthInv'
<1>1. /\ d.id = nextId /\ nextId' = nextId + 1
      /\ delivered' = delivered \cup {d} /\ decisions' = decisions
      /\ \A a \in DOMAIN approvals' : SameApproval(a) /\ a # d.grant
  BY DEF Delivers
<1>2. \/ d.source = "policy" /\ d.grant = nextId
      \/ /\ d.grant \in DOMAIN approvals
         /\ approvals[d.grant].state = "approved"
         /\ Subject(approvals[d.grant]) = Subject(d)
  BY DEF Delivers
<1>3. nextId \in Nat /\ \A a \in DOMAIN approvals : a \in Nat /\ a < nextId
  BY IdsAreNumbers
<1>4. /\ \A e \in delivered : e.id \in Nat /\ e.id < nextId
      /\ \A e \in delivered : e.grant \in Nat /\ e.grant < nextId
  BY IdsAreNumbers DEF AuthInv, Issued
<1>5. d.grant \in Nat /\ d.grant < nextId' /\ \A e \in delivered : e.grant # d.grant
  BY <1>1, <1>2, <1>3, <1>4 DEF AuthInv, SingleUse
<1>6. Backed'
  <2> SUFFICES ASSUME NEW a \in DOMAIN approvals', approvals'[a].state = "approved"
               PROVE  \E x \in decisions : /\ x.id = a /\ x.verdict = "approve"
                                           /\ Subject(x) = Subject(approvals'[a])
    BY <1>1 DEF Backed, Subject
  <2>1. SameApproval(a)
    BY <1>1
  <2>2. QED BY <2>1 DEF SameApproval, AuthInv, Backed
<1>7. DecidedOnce'
  <2> SUFFICES ASSUME NEW x \in decisions
               PROVE  /\ x.id < nextId'
                      /\ x.id \in DOMAIN approvals' =>
                           x.verdict = "approve" /\ approvals'[x.id].state = "approved"
    BY <1>1 DEF DecidedOnce
  <2>1. x.id \in Nat /\ x.id < nextId
    BY IdsAreNumbers DEF AuthInv, DecidedOnce
  <2>2. x.id \in DOMAIN approvals' => SameApproval(x.id)
    BY <1>1
  <2>3. QED BY <1>1, <1>3, <2>1, <2>2 DEF SameApproval, AuthInv, DecidedOnce
<1>8. Issued'
  BY <1>1, <1>3, <1>4, <1>5 DEF Issued
<1>9. Authorised'
  <2>1. d.source # "policy" =>
          /\ \E x \in decisions : x.id = d.grant /\ Subject(x) = Subject(d)
          /\ \A x \in decisions : x.id = d.grant => x.verdict = "approve"
    BY <1>2 DEF AuthInv, Backed, DecidedOnce
  <2>2. QED BY <1>1, <2>1 DEF AuthInv, Authorised, Subject
<1>10. SingleUse'
  <2>1. \A e \in delivered' : e.grant \notin DOMAIN approvals'
    BY <1>1 DEF SameApproval, AuthInv, SingleUse
  <2>2. \A e, f \in delivered' : e.grant = f.grant => e = f
    BY <1>1, <1>5 DEF AuthInv, SingleUse
  <2>3. QED BY <2>1, <2>2 DEF SingleUse
<1>11. QED BY <1>6, <1>7, <1>8, <1>9, <1>10 DEF AuthInv

\* AuthInv says what GrantAuthorised says.
LEMMA AuthInvImplies ==
  ASSUME AuthInv PROVE GrantAuthorised /\ SingleUse
<1>1. ASSUME NEW d \in delivered, d.source = "session"
      PROVE  /\ \E x \in decisions :
                    /\ x.id = d.grant
                    /\ x.browser = d.browser /\ x.op = d.op /\ x.fp = d.fp
             /\ \A x \in decisions : x.id = d.grant => x.verdict = "approve"
  <2>1. \A x \in decisions : Subject(x) = Subject(d) =>
          x.browser = d.browser /\ x.op = d.op /\ x.fp = d.fp
    BY DEF Subject
  <2>2. d.source # "policy"
    BY <1>1
  <2>3. QED BY <2>1, <2>2 DEF AuthInv, Authorised
<1>2. QED BY <1>1 DEF AuthInv, GrantAuthorised

\* AuthInv holds for ever.
LEMMA AuthInvariant == Spec => []AuthInv
<1>1. Init => AuthInv
  BY DEF Init, AuthInv, Backed, DecidedOnce, Issued, Authorised, SingleUse
<1>2. TypeOK /\ TypeOK' /\ AuthInv /\ [Next]_vars => AuthInv'
  BY StepKind, NeutralKeeps, DecisionKeeps, DeliveryKeeps DEF Decides
<1>3. QED BY <1>1, <1>2, TypeCorrect, PTL DEF Spec

\* Every command the daemon sends as approved on a human decision was confirmed
\* for the same browser, operation and fingerprint, and was never rejected
\* (#handleExtensionResult, #handleSessionApprovalSubmit).
THEOREM GrantsAreAuthorised == Spec => []GrantAuthorised
<1>1. AuthInv => GrantAuthorised
  BY AuthInvImplies
<1>2. QED BY <1>1, AuthInvariant, PTL

\* A decision, human or of the policy, is sent at most once (#takeApproval,
\* #grantFromPolicy).
THEOREM GrantsAreSingleUse == Spec => []SingleUse
<1>1. AuthInv => SingleUse
  BY AuthInvImplies
<1>2. QED BY <1>1, AuthInvariant, PTL

-----------------------------------------------------------------------------
(***************************************************************************)
(* CommandBroker implements ApprovalGate: the identifiers it issues go     *)
(* through the stages that the gate allows.  The steps of the broker are   *)
(* taken as the three kinds of StepKind.                                   *)
(***************************************************************************)

Issuable == 1..MaxIds

\* What the refinement mapping says of an identifier, by cases.
Mapped(i) ==
  /\ i >= nextId => /\ i \notin DOMAIN approvals
                    /\ SentFor(i) = {}
                    /\ Stage(i) = "unused" /\ SubjectOf(i) = NoId
  /\ i \in DOMAIN approvals =>
        /\ i < nextId /\ SentFor(i) = {}
        /\ Stage(i) = IF approvals[i].state = "approved" THEN "confirmed" ELSE "asked"
        /\ SubjectOf(i) = Subject(approvals[i])
  /\ \A d \in delivered : d.grant = i =>
        /\ i < nextId /\ i \notin DOMAIN approvals
        /\ Stage(i) = IF d.source = "policy" THEN "minted" ELSE "spent"
        /\ SubjectOf(i) = Subject(d)
  /\ i < nextId /\ i \notin DOMAIN approvals /\ SentFor(i) = {} =>
        Stage(i) = "void" /\ SubjectOf(i) = NoId

\* The stage and subject of an identifier are those of the approval it has or
\* of the one delivery made under it.
LEMMA MappedCases == TypeOK /\ AuthInv => \A i \in Issuable : Mapped(i)
<1> SUFFICES ASSUME TypeOK, AuthInv, NEW i \in Issuable PROVE Mapped(i)
  OBVIOUS
<1>1. /\ i \in Nat /\ nextId \in Nat
      /\ i \in DOMAIN approvals => i < nextId
  BY IdsAreNumbers DEF Issuable
<1>2. \A d \in SentFor(i) : /\ d \in delivered /\ d.grant = i
                            /\ i < nextId /\ i \notin DOMAIN approvals
                            /\ SentFor(i) = {d}
  BY DEF AuthInv, Issued, SingleUse, SentFor
<1>3. ASSUME i >= nextId
      PROVE  i \notin DOMAIN approvals /\ SentFor(i) = {} /\ Stage(i) = "unused"
             /\ SubjectOf(i) = NoId
  <2>1. i \notin DOMAIN approvals /\ SentFor(i) = {}
    BY <1>1, <1>2, <1>3
  <2>2. QED BY <1>3, <2>1 DEF Stage, SubjectOf
<1>4. ASSUME i \in DOMAIN approvals
      PROVE  /\ i < nextId /\ SentFor(i) = {}
             /\ Stage(i) = IF approvals[i].state = "approved" THEN "confirmed" ELSE "asked"
             /\ SubjectOf(i) = Subject(approvals[i])
  <2>1. SentFor(i) = {} /\ ~(i >= nextId)
    BY <1>1, <1>2, <1>4
  <2>2. QED BY <1>1, <1>4, <2>1 DEF Stage, SubjectOf
<1>5. ASSUME NEW d \in delivered, d.grant = i
      PROVE  /\ i < nextId /\ i \notin DOMAIN approvals
             /\ Stage(i) = IF d.source = "policy" THEN "minted" ELSE "spent"
             /\ SubjectOf(i) = Subject(d)
  <2>1. d \in SentFor(i)
    BY <1>5 DEF SentFor
  <2>2. SentFor(i) = {d} /\ i < nextId /\ ~(i >= nextId) /\ i \notin DOMAIN approvals
    BY <1>1, <1>2, <2>1
  <2>3. Stage(i) = IF d.source = "policy" THEN "minted" ELSE "spent"
    BY <2>2 DEF Stage
  <2>4. SubjectOf(i) = Subject(d)
    BY <2>2 DEF SubjectOf
  <2>5. QED BY <2>2, <2>3, <2>4
<1>6. ASSUME i < nextId, i \notin DOMAIN approvals, SentFor(i) = {}
      PROVE  Stage(i) = "void" /\ SubjectOf(i) = NoId
  BY <1>1, <1>6 DEF Stage, SubjectOf
<1>7. QED BY <1>3, <1>4, <1>5, <1>6 DEF Mapped

\* The same after a step.
LEMMA MappedCasesNext == (TypeOK /\ AuthInv)' => (\A i \in Issuable : Mapped(i))'
  BY MappedCases, PTL
-----------------------------------------------------------------------------
(* What a step of the broker is for the gate.  Moves are the steps of the  *)
(* gate other than a use.                                                  *)

Rests(i) == Stage(i)' = Stage(i) /\ SubjectOf(i)' = SubjectOf(i)

Raised(i) == Stage(i) = "unused" /\ Stage(i)' = "asked" /\ SubjectOf(i)' \in Subjects

Confirmed(i) ==
  Stage(i) = "asked" /\ Stage(i)' = "confirmed" /\ SubjectOf(i)' = SubjectOf(i)

Withdrawn(i) ==
  /\ Stage(i) \in {"unused", "asked", "confirmed"}
  /\ Stage(i)' = "void" /\ SubjectOf(i)' = NoId

Used(i) ==
  \/ Stage(i) = "confirmed" /\ Stage(i)' = "spent" /\ SubjectOf(i)' = SubjectOf(i)
  \/ Stage(i) = "unused" /\ Stage(i)' = "minted" /\ SubjectOf(i)' \in Subjects

\* An identifier that no step touched, or that lost its approval, or that was
\* issued to a command, rests or is withdrawn.
LEMMA Untouched ==
  ASSUME TypeOK, TypeOK', AuthInv, AuthInv', NEW i \in Issuable,
         nextId <= nextId', SentFor(i)' = SentFor(i),
         i \in DOMAIN approvals' => SameApproval(i)
  PROVE  Rests(i) \/ Withdrawn(i)
<1>1. Mapped(i) /\ Mapped(i)'
  BY MappedCases, MappedCasesNext
<1>2. i \in Nat /\ nextId \in Nat /\ nextId' \in Nat
  BY DEF Issuable, TypeOK, Ids
<1>3. CASE SentFor(i) # {}
  <2>1. PICK d \in delivered : d.grant = i /\ d \in delivered'
    BY <1>3 DEF SentFor
  <2>2. QED BY <1>1, <2>1 DEF Mapped, Rests, Subject
<1>4. CASE SentFor(i) = {} /\ i \in DOMAIN approvals'
  <2>1. SameApproval(i)
    BY <1>4
  <2>2. QED BY <1>1, <1>4, <2>1 DEF Mapped, Rests, SameApproval, Subject
<1>5. CASE SentFor(i) = {} /\ i \notin DOMAIN approvals'
  <2>1. CASE i >= nextId'
    BY <1>1, <1>2, <2>1 DEF Mapped, Rests
  <2>2. CASE ~(i >= nextId')
    <3>1. Stage(i)' = "void" /\ SubjectOf(i)' = NoId
      BY <1>1, <1>2, <1>5, <2>2 DEF Mapped
    <3>2. CASE i >= nextId
      BY <1>1, <3>1, <3>2 DEF Mapped, Withdrawn
    <3>3. CASE i \in DOMAIN approvals
      BY <1>1, <3>1, <3>3 DEF Mapped, Withdrawn
    <3>4. CASE i < nextId /\ i \notin DOMAIN approvals
      BY <1>1, <1>5, <3>1, <3>4 DEF Mapped, Rests
    <3>5. QED BY <1>2, <3>2, <3>3, <3>4
  <2>3. QED BY <2>1, <2>2
<1>6. QED BY <1>3, <1>4, <1>5

\* A step that neither decides nor delivers raises and withdraws identifiers.
LEMMA NeutralMoves ==
  ASSUME TypeOK, TypeOK', AuthInv, AuthInv', Neutral, NEW i \in Issuable
  PROVE  (Rests(i) \/ Raised(i) \/ Withdrawn(i)) /\ ~Used(i)
<1>1. /\ i \in DOMAIN approvals' => SameApproval(i) \/ NewApproval(i)
      /\ nextId <= nextId' /\ delivered' = delivered
  BY DEF Neutral
<1>2. SentFor(i)' = SentFor(i)
  BY <1>1 DEF SentFor
<1>3. Mapped(i) /\ Mapped(i)'
  BY MappedCases, MappedCasesNext
<1>4. CASE i \in DOMAIN approvals' => SameApproval(i)
  <2>1. Rests(i) \/ Withdrawn(i)
    BY <1>1, <1>2, <1>4, Untouched
  <2>2. QED BY <2>1 DEF Rests, Withdrawn, Used
<1>5. CASE i \in DOMAIN approvals' /\ NewApproval(i)
  <2>1. i >= nextId /\ approvals'[i].state = "pending"
    BY <1>5 DEF NewApproval
  <2>2. Subject(approvals'[i]) \in Subjects
    <3>1. approvals'[i] \in Approval
      BY <1>5 DEF TypeOK
    <3>2. QED BY <3>1 DEF Approval, Subject, Subjects
  <2>3. Raised(i)
    BY <1>3, <1>5, <2>1, <2>2 DEF Mapped, Raised, Subject
  <2>4. QED BY <2>3 DEF Raised, Used
<1>6. QED BY <1>1, <1>4, <1>5

\* A decision confirms or withdraws the identifier it is about.
LEMMA DecisionMoves ==
  ASSUME TypeOK, TypeOK', AuthInv, AuthInv', Decides, NEW i \in Issuable
  PROVE  (Rests(i) \/ Confirmed(i) \/ Withdrawn(i)) /\ ~Used(i)
<1>1. PICK a \in DOMAIN approvals, verdict \in {"approve", "reject"} : Decide(a, verdict)
  BY DEF Decides
<1>2. /\ approvals[a].state = "pending" /\ nextId' = nextId /\ delivered' = delivered
      /\ verdict = "reject" => approvals' = TakeApproval(approvals, a)
      /\ verdict # "reject" => approvals' = [approvals EXCEPT ![a].state = "approved"]
  BY <1>1 DEF Decide
<1>3. SentFor(i)' = SentFor(i) /\ nextId <= nextId'
  BY <1>2 DEF SentFor, TypeOK, Ids
<1>4. Mapped(i) /\ Mapped(i)'
  BY MappedCases, MappedCasesNext
<1>5. CASE i = a /\ verdict # "reject"
  <2>1. /\ a \in DOMAIN approvals' /\ approvals'[a].state = "approved"
        /\ Subject(approvals'[a]) = Subject(approvals[a])
    <3>1. approvals[a] \in Approval
      BY DEF TypeOK
    <3>2. QED BY <1>2, <1>5, <3>1 DEF Subject, Approval
  <2>2. Confirmed(i)
    BY <1>2, <1>4, <1>5, <2>1 DEF Mapped, Confirmed, Subject
  <2>3. QED BY <2>2 DEF Confirmed, Used
<1>6. CASE i # a \/ verdict = "reject"
  <2>1. i \in DOMAIN approvals' => SameApproval(i)
    <3>1. CASE verdict = "reject"
      BY <1>2, <3>1 DEF TakeApproval, Drop, Restrict, SameApproval, Subject
    <3>2. CASE verdict # "reject" /\ i # a
      BY <1>2, <3>2 DEF SameApproval, Subject
    <3>3. QED BY <1>6, <3>1, <3>2
  <2>2. Rests(i) \/ Withdrawn(i)
    BY <1>3, <2>1, Untouched
  <2>3. QED BY <2>2 DEF Rests, Withdrawn, Used
<1>7. QED BY <1>5, <1>6

\* A delivery uses the identifier it carries, and no other.
LEMMA DeliveryMoves ==
  ASSUME TypeOK, TypeOK', AuthInv, AuthInv', NEW d, Delivers(d), NEW i \in Issuable
  PROVE  /\ Rests(i) \/ Withdrawn(i) \/ Used(i)
         /\ Used(i) => i = d.grant
<1>1. /\ d.id = nextId /\ nextId' = nextId + 1 /\ delivered' = delivered \cup {d}
      /\ \A a \in DOMAIN approvals' : SameApproval(a) /\ a # d.grant
  BY DEF Delivers
<1>2. \/ d.source = "policy" /\ d.grant = nextId
      \/ /\ d.source = "session" /\ d.grant \in DOMAIN approvals
         /\ approvals[d.grant].state = "approved"
         /\ Subject(approvals[d.grant]) = Subject(d)
  BY DEF Delivers
<1>3. Mapped(i) /\ Mapped(i)'
  BY MappedCases, MappedCasesNext
<1>4. nextId \in Nat /\ nextId <= nextId'
  BY <1>1 DEF TypeOK, Ids
<1>5. CASE i = d.grant
  <2>1. d \in delivered' /\ Subject(d) \in Subjects
    <3>1. d \in delivered' /\ d \in Delivery
      BY <1>1 DEF TypeOK
    <3>2. QED BY <3>1 DEF Delivery, Subject, Subjects
  <2>2. /\ Stage(i)' = IF d.source = "policy" THEN "minted" ELSE "spent"
        /\ SubjectOf(i)' = Subject(d)
    BY <1>3, <1>5, <2>1 DEF Mapped, Subject
  <2>3. Used(i)
    BY <1>2, <1>3, <1>4, <1>5, <2>1, <2>2 DEF Mapped, Used
  <2>4. QED BY <1>5, <2>3
<1>6. CASE i # d.grant
  <2>1. SentFor(i)' = SentFor(i)
    BY <1>1, <1>6 DEF SentFor
  <2>2. Rests(i) \/ Withdrawn(i)
    BY <1>1, <1>4, <2>1, Untouched
  <2>3. QED BY <2>2 DEF Rests, Withdrawn, Used
<1>7. QED BY <1>5, <1>6
-----------------------------------------------------------------------------
(* The gate's own words for these moves.                                   *)

GateMoves ==
  /\ \A i \in Issuable : Rests(i) \/ Raised(i) \/ Confirmed(i) \/ Withdrawn(i) \/ Used(i)
  /\ \A i, j \in Issuable : Used(i) /\ Used(j) => i = j

\* Every step of the broker makes one move for each identifier.
LEMMA StepMoves ==
  ASSUME TypeOK, TypeOK', AuthInv, AuthInv', [Next]_vars
  PROVE  GateMoves
<1>1. CASE Neutral
  BY <1>1, NeutralMoves DEF GateMoves
<1>2. CASE Decides
  BY <1>2, DecisionMoves DEF GateMoves
<1>3. ASSUME NEW d, Delivers(d) PROVE GateMoves
  BY <1>3, DeliveryMoves DEF GateMoves
<1>4. QED BY <1>1, <1>2, <1>3, StepKind

\* These moves are the gate's.
LEMMA MovesAreGateSteps == GateMoves => Gate!Next
<1> SUFFICES ASSUME GateMoves PROVE Gate!Next
  OBVIOUS
<1>1. ASSUME NEW i \in Issuable
      PROVE  /\ Rests(i) <=> Gate!Rests(i)
             /\ Raised(i) <=> Gate!Ask(i)
             /\ Confirmed(i) <=> Gate!Confirm(i)
             /\ Withdrawn(i) <=> Gate!Withdraw(i)
             /\ Used(i) <=> Gate!Use(i)
  BY DEF Rests, Raised, Confirmed, Withdrawn, Used, Issuable, Gate!Rests, Gate!Ask,
     Gate!Confirm, Gate!Withdraw, Gate!Use, Gate!Spend, Gate!Mint, Gate!Becomes, Gate!Keeps
<1>2. \A i \in Issuable : \/ Gate!Rests(i) \/ Gate!Ask(i) \/ Gate!Confirm(i)
                           \/ Gate!Withdraw(i) \/ Gate!Use(i)
  BY <1>1 DEF GateMoves
<1>3. \A i, j \in Issuable : Gate!Use(i) /\ Gate!Use(j) => i = j
  BY <1>1 DEF GateMoves
<1>4. QED BY <1>2, <1>3 DEF Gate!Next, Issuable

\* The broker starts where the gate does.
LEMMA InitIsGateInit == Init => Gate!Init
<1> SUFFICES ASSUME Init PROVE Gate!Init
  OBVIOUS
<1>1. TypeOK /\ AuthInv
  BY InitTyped DEF Init, AuthInv, Backed, DecidedOnce, Issued, Authorised, SingleUse
<1>2. \A i \in Issuable : i >= nextId
  BY DEF Init, Issuable
<1>3. \A i \in Issuable : Stage(i) = "unused" /\ SubjectOf(i) = NoId
  BY <1>1, <1>2, MappedCases DEF Mapped
<1>4. QED BY <1>3 DEF Gate!Init, Issuable

\* The life of every identifier the daemon issues is one that the abstract gate
\* allows: asked for one subject, confirmed or withdrawn, used at most once and
\* for that subject, never back (#handleExtensionResult, #createApproval,
\* #takeApproval, #grantFromPolicy, #handleSessionApprovalSubmit).
THEOREM BrokerImplementsGate == Spec => ImplementsGate
<1>1. Init => Gate!Init
  BY InitIsGateInit
<1>2. TypeOK /\ TypeOK' /\ AuthInv /\ AuthInv' /\ [Next]_vars => Gate!Next
  BY StepMoves, MovesAreGateSteps
<1>3. QED BY <1>1, <1>2, TypeCorrect, AuthInvariant, PTL DEF Spec, ImplementsGate, Gate!Spec

-----------------------------------------------------------------------------
(***************************************************************************)
(* The pending commands and approvals agree with the requests, with the    *)
(* browsers' sessions and with the limits.                                 *)
(*                                                                         *)
(* What a step does is told request by request: a request stays, ends, is  *)
(* read for, or is worked on by a new command.  OneOwner and BoundedReplay *)
(* are kept along each of the four courses, and every action is shown to   *)
(* let each request take one of them.                                      *)
(***************************************************************************)

\* The commands that work for request r, and what was sent as approved for it.
WorkOf(r) == {i \in DOMAIN commands : commands[i].client = r}
SentTo(r) == {d \in delivered : d.client = r}
By(S, source) == {d \in S : d.source = source}

\* OneOwner, of one request.
Owned(r) ==
  /\ request[r].phase = "pending" <=> WorkOf(r) # {}
  /\ \A i, j \in WorkOf(r) : i = j
  /\ request[r].replies = IF request[r].phase = "done" /\ ~request[r].gone THEN 1 ELSE 0

\* BoundedReplay, of one request, with what the counters of its command say of
\* what has been sent: nothing before the command was approved, and no more on
\* the policy than it has counted.
Replayed(r) ==
  /\ IsFiniteSet(SentTo(r))
  /\ request[r].phase \in {"idle", "reading"} => SentTo(r) = {}
  /\ \A i \in WorkOf(r) :
        /\ ~commands[i].approved => SentTo(r) = {}
        /\ Cardinality(By(SentTo(r), "policy")) <= commands[i].policyUses
  /\ Cardinality(By(SentTo(r), "session")) <= 1
  /\ Cardinality(By(SentTo(r), "policy")) <= MaxPolicyApprovals

\* The invariant of this module, request by request.
Served(r) == Owned(r) /\ Replayed(r)
-----------------------------------------------------------------------------
(* The courses of a request in one step. *)

SameWork(r) ==
  WorkOf(r)' = WorkOf(r) /\ \A i \in WorkOf(r) : commands'[i] = commands[i]

Stays(r) ==
  request'[r] = request[r] /\ SameWork(r) /\ SentTo(r)' = SentTo(r)

Ends(r) ==
  /\ request[r].phase # "done" /\ request'[r].phase = "done"
  /\ request'[r].replies = IF request'[r].gone THEN request[r].replies
                           ELSE request[r].replies + 1
  /\ WorkOf(r)' = {} /\ SentTo(r)' = SentTo(r)

ReadFor(r) ==
  /\ request[r].phase \in {"idle", "reading"} /\ request'[r].phase = "reading"
  /\ request'[r].replies = request[r].replies
  /\ SameWork(r) /\ SentTo(r)' = SentTo(r)

\* Command c starts to work for r, ...
Works(r, c) ==
  /\ request'[r].phase = "pending" /\ request'[r].replies = request[r].replies
  /\ WorkOf(r)' = {nextId} /\ commands'[nextId] = c

\* ... the first of r, ...
Begins(r, c) ==
  /\ Works(r, c) /\ request[r].phase \in {"idle", "reading"}
  /\ SentTo(r)' = SentTo(r) /\ c.policyUses = 0

\* ... or in place of the command id, under a grant.
Replaces(r, c, id, d) ==
  /\ Works(r, c) /\ id \in WorkOf(r) /\ c.approved
  /\ SentTo(r)' = SentTo(r) \cup {d}
  /\ \/ /\ d.source = "session" /\ ~commands[id].approved
        /\ c.policyUses = commands[id].policyUses
     \/ /\ d.source = "policy" /\ commands[id].policyUses < MaxPolicyApprovals
        /\ c.policyUses = commands[id].policyUses + 1

Course(r) ==
  \/ Stays(r) \/ Ends(r) \/ ReadFor(r)
  \/ \E c : Begins(r, c) \/ \E id, d : Replaces(r, c, id, d)
-----------------------------------------------------------------------------
(* The courses keep the invariant. *)

\* What is known of a request's numbers.
LEMMA RequestNumbers ==
  ASSUME TypeOK, NEW r \in Requests
  PROVE  /\ request[r].phase \in Phases /\ request[r].replies \in Nat
         /\ request[r].gone \in BOOLEAN
         /\ \A i \in WorkOf(r) : /\ commands[i].policyUses \in Nat
                                 /\ commands[i].approved \in BOOLEAN
  BY DEF TypeOK, Request, Command, WorkOf

\* A request that keeps its work, or loses it as it ends, stays owned.
LEMMA CourseOwned ==
  ASSUME TypeOK, NEW r \in Requests, Owned(r), Course(r)
  PROVE  Owned(r)'
<1>1. CASE Stays(r)
  BY <1>1 DEF Stays, SameWork, Owned
<1>2. CASE Ends(r)
  BY <1>2, RequestNumbers DEF Ends, Owned
<1>3. CASE ReadFor(r)
  BY <1>3 DEF ReadFor, SameWork, Owned
<1>4. ASSUME NEW c, Works(r, c), request[r].phase # "done" PROVE Owned(r)'
  BY <1>4 DEF Works, Owned
<1>5. ASSUME NEW c, Begins(r, c) PROVE Owned(r)'
  BY <1>4, <1>5 DEF Begins
<1>6. ASSUME NEW c, NEW id, NEW d, Replaces(r, c, id, d) PROVE Owned(r)'
  <2>1. request[r].phase = "pending"
    BY <1>6 DEF Replaces, Owned
  <2>2. QED BY <1>4, <1>6, <2>1 DEF Replaces
<1>7. QED BY <1>1, <1>2, <1>3, <1>5, <1>6 DEF Course

\* One more delivery counts for its source only.
LEMMA OneMoreSent ==
  ASSUME NEW S, IsFiniteSet(S), NEW d, NEW source
  PROVE  /\ IsFiniteSet(S \cup {d})
         /\ Cardinality(By(S, source)) \in Nat
         /\ d.source # source => By(S \cup {d}, source) = By(S, source)
         /\ \/ Cardinality(By(S \cup {d}, source)) = Cardinality(By(S, source))
            \/ Cardinality(By(S \cup {d}, source)) = Cardinality(By(S, source)) + 1
<1>1. IsFiniteSet(By(S, source)) /\ Cardinality(By(S, source)) \in Nat
  <2>1. By(S, source) \subseteq S
    BY DEF By
  <2>2. QED BY <2>1, FS_Subset, FS_CardinalityType
<1>2. IsFiniteSet(S \cup {d})
  BY FS_AddElement
<1>3. d.source # source => By(S \cup {d}, source) = By(S, source)
  BY DEF By
<1>4. d.source = source => By(S \cup {d}, source) = By(S, source) \cup {d}
  BY DEF By
<1> DEFINE n == Cardinality(By(S, source))
           m == Cardinality(By(S \cup {d}, source))
           k == Cardinality(By(S, source) \cup {d})
<1>5. k = n \/ k = n + 1
  BY <1>1, FS_AddElement
<1>6. m = k \/ m = n
  BY <1>3, <1>4, Zenon
<1> HIDE DEF n, m, k
<1>7. m = n \/ m = n + 1
  BY <1>5, <1>6
<1>8. QED BY <1>1, <1>2, <1>3, <1>7 DEF n, m

\* The empty set of deliveries counts none.
LEMMA NoneSent ==
  ASSUME NEW source
  PROVE  Cardinality(By({}, source)) = 0 /\ IsFiniteSet({})
<1>1. By({}, source) = {}
  BY DEF By
<1>2. QED BY <1>1, FS_EmptySet

\* A request whose deliveries are those it had, and whose command is too, or has
\* delivered nothing yet, keeps its counts.
LEMMA SameSentReplayed ==
  ASSUME NEW r \in Requests, Replayed(r), SentTo(r)' = SentTo(r),
         request'[r].phase \in {"idle", "reading"} => SentTo(r) = {},
         \/ SameWork(r)
         \/ WorkOf(r)' = {}
  PROVE  Replayed(r)'
<1>1. ASSUME NEW i \in WorkOf(r)'
      PROVE  /\ ~commands'[i].approved => SentTo(r)' = {}
             /\ Cardinality(By(SentTo(r)', "policy")) <= commands'[i].policyUses
  BY DEF SameWork, Replayed
<1>2. QED BY <1>1 DEF Replayed, By

\* A request keeps its counts along every course.
LEMMA CourseReplayed ==
  ASSUME TypeOK, NEW r \in Requests, Owned(r), Replayed(r), Course(r)
  PROVE  Replayed(r)'
<1>1. CASE Stays(r)
  BY <1>1, SameSentReplayed DEF Stays, Replayed
<1>2. CASE Ends(r)
  BY <1>2, SameSentReplayed DEF Ends
<1>3. CASE ReadFor(r)
  BY <1>3, SameSentReplayed DEF ReadFor, Replayed
<1>4. ASSUME NEW c, Begins(r, c) PROVE Replayed(r)'
  <2>1. /\ SentTo(r) = {} /\ SentTo(r)' = {} /\ request'[r].phase = "pending"
        /\ WorkOf(r)' = {nextId} /\ commands'[nextId] = c /\ c.policyUses = 0
    BY <1>4 DEF Begins, Works, Replayed
  <2>2. /\ Cardinality(By({}, "policy")) = 0 /\ Cardinality(By({}, "session")) = 0
        /\ IsFiniteSet({})
    BY NoneSent
  <2>3. MaxPolicyApprovals \in Nat
    BY BoundsAssumption
  <2>4. QED BY <2>1, <2>2, <2>3 DEF Replayed, By
<1>5. ASSUME NEW c, NEW id, NEW d, Replaces(r, c, id, d) PROVE Replayed(r)'
  <2> DEFINE S == SentTo(r)
             nP == Cardinality(By(S, "policy"))
             nS == Cardinality(By(S, "session"))
             mP == Cardinality(By(S \cup {d}, "policy"))
             mS == Cardinality(By(S \cup {d}, "session"))
             uses == commands[id].policyUses
  <2>1. /\ SentTo(r)' = S \cup {d} /\ request'[r].phase = "pending"
        /\ WorkOf(r)' = {nextId} /\ commands'[nextId] = c /\ c.approved
        /\ id \in WorkOf(r)
    BY <1>5 DEF Replaces, Works
  <2>2. /\ IsFiniteSet(S) /\ nS <= 1 /\ nP <= MaxPolicyApprovals
        /\ ~commands[id].approved => S = {}
        /\ nP <= uses
    BY <2>1 DEF Replayed
  <2>3. /\ IsFiniteSet(S \cup {d}) /\ nP \in Nat /\ nS \in Nat
        /\ mP = nP \/ mP = nP + 1
        /\ mS = nS \/ mS = nS + 1
    BY <2>2, OneMoreSent
  <2>4. /\ d.source # "policy" => mP = nP
        /\ d.source # "session" => mS = nS
    <3>1. /\ d.source # "policy" => By(S \cup {d}, "policy") = By(S, "policy")
          /\ d.source # "session" => By(S \cup {d}, "session") = By(S, "session")
      BY <2>2, OneMoreSent
    <3>2. QED BY <3>1, Zenon
  <2>5. uses \in Nat /\ MaxPolicyApprovals \in Nat
    BY <2>1, RequestNumbers, BoundsAssumption
  <2>6. \/ d.source = "session" /\ ~commands[id].approved /\ c.policyUses = uses
        \/ d.source = "policy" /\ uses < MaxPolicyApprovals /\ c.policyUses = uses + 1
    BY <1>5 DEF Replaces
  <2>7. ~commands[id].approved => nS = 0
    BY <2>2, NoneSent, Zenon
  <2> HIDE DEF S, nP, nS, mP, mS, uses
  <2>8. mS <= 1 /\ mP <= MaxPolicyApprovals /\ mP <= c.policyUses
    BY <2>2, <2>3, <2>4, <2>5, <2>6, <2>7
  <2>9. QED BY <2>1, <2>3, <2>8 DEF Replayed, S, mP, mS
<1>6. QED BY <1>1, <1>2, <1>3, <1>4, <1>5 DEF Course
-----------------------------------------------------------------------------
(* Every action lets each request take one of the courses. *)

\* What answering does to a request.
LEMMA AnsweredFields ==
  ASSUME NEW q \in Request
  PROVE  /\ Answered(q).phase = "done" /\ Answered(q).gone = q.gone
         /\ Answered(q).replies = IF q.gone THEN q.replies ELSE q.replies + 1
  BY DEF Answered, Request

\* What is left of the work when commands are dropped.
LEMMA DroppedWork ==
  ASSUME NEW S, commands' = Drop(commands, S)
  PROVE  /\ DOMAIN commands' = DOMAIN commands \ S
         /\ \A i \in DOMAIN commands \ S : commands'[i] = commands[i]
         /\ \A r \in Requests : WorkOf(r)' = WorkOf(r) \ S
  BY DEF WorkOf, Drop, Restrict

\* A request without work is answered: only its own course changes.
LEMMA AnswerCourses ==
  ASSUME TypeOK, NEW r \in Requests, Owned(r), Answer(r),
         request[r].phase \in {"idle", "reading"}, UNCHANGED <<commands, delivered>>
  PROVE  \A q \in Requests : Course(q)
<1>1. \A q \in Requests : WorkOf(q)' = WorkOf(q) /\ SentTo(q)' = SentTo(q)
  BY DEF WorkOf, SentTo
<1>2. Ends(r)
  BY <1>1, AnsweredFields DEF Ends, Owned, Answer, TypeOK
<1>3. ASSUME NEW q \in Requests, q # r PROVE Stays(q)
  BY <1>1, <1>3 DEF Stays, SameWork, Answer, TypeOK
<1>4. QED BY <1>2, <1>3 DEF Course

\* A command is settled: its client's course ends, the others stay.
LEMMA SettleCourses ==
  ASSUME TypeOK, \A r \in Requests : Owned(r), NEW id \in DOMAIN commands,
         commands' = Drop(commands, {id}), Answer(commands[id].client),
         delivered' = delivered
  PROVE  \A q \in Requests : Course(q)
<1>1. PICK r \in Requests : r = commands[id].client
  BY DEF TypeOK, Command
<1>2. \A q \in Requests : SentTo(q)' = SentTo(q)
  BY DEF SentTo
<1>3. id \in WorkOf(r) /\ \A q \in Requests \ {r} : id \notin WorkOf(q)
  BY <1>1 DEF WorkOf
<1>4. request[r].phase = "pending" /\ \A i \in WorkOf(r) : i = id
  BY <1>3 DEF Owned
<1>5. /\ \A i \in DOMAIN commands \ {id} : commands'[i] = commands[i]
      /\ \A q \in Requests : WorkOf(q)' = WorkOf(q) \ {id}
  BY DroppedWork, Zenon
<1>6. Ends(r)
  <2>1. WorkOf(r)' = {}
    BY <1>4, <1>5
  <2>2. request'[r] = Answered(request[r]) /\ request[r] \in Request
    BY <1>1 DEF Answer, TypeOK
  <2>3. QED BY <1>2, <1>4, <2>1, <2>2, AnsweredFields DEF Ends
<1>7. ASSUME NEW q \in Requests, q # r PROVE Stays(q)
  <2>1. request'[q] = request[q]
    BY <1>1, <1>7 DEF Answer, TypeOK
  <2>2. id \notin WorkOf(q) /\ WorkOf(q) \subseteq DOMAIN commands
    BY <1>3, <1>7 DEF WorkOf
  <2>3. WorkOf(q)' = WorkOf(q) /\ \A i \in WorkOf(q) : commands'[i] = commands[i]
    BY <1>5, <2>2
  <2>4. QED BY <1>2, <2>1, <2>3 DEF Stays, SameWork
<1>8. QED BY <1>6, <1>7 DEF Course

\* A command is sent beside the commands cmds: only its client gets new work.
LEMMA SentWork ==
  ASSUME TypeOK, NEW c \in Command, NEW cmds, SubMap(cmds, commands), NEW source,
         RouteSent(c, cmds, source)
  PROVE  /\ request'[c.client].phase = "pending"
         /\ request'[c.client].replies = request[c.client].replies
         /\ \A q \in Requests \ {c.client} : request'[q] = request[q]
         /\ commands'[nextId] = c
         /\ DOMAIN commands' = DOMAIN cmds \cup {nextId}
         /\ nextId \notin DOMAIN commands
         /\ \A i \in DOMAIN cmds : commands'[i] = commands[i]
         /\ WorkOf(c.client)' = (WorkOf(c.client) \cap DOMAIN cmds) \cup {nextId}
         /\ \A q \in Requests \ {c.client} : WorkOf(q)' = WorkOf(q) \cap DOMAIN cmds
<1>1. nextId \notin DOMAIN commands
  BY DEF TypeOK, Ids
<1>2. DOMAIN cmds \subseteq DOMAIN commands /\ \A i \in DOMAIN cmds : cmds[i] = commands[i]
  BY DEF SubMap
<1>3. commands' = Put(cmds, nextId, c)
  BY DEF RouteSent
<1>4. /\ DOMAIN commands' = DOMAIN cmds \cup {nextId} /\ commands'[nextId] = c
      /\ \A i \in DOMAIN cmds : commands'[i] = commands[i]
  BY <1>1, <1>2, <1>3 DEF Put
<1>5. c.client \in Requests
  BY DEF Command
<1>6. /\ request'[c.client].phase = "pending"
      /\ request'[c.client].replies = request[c.client].replies
      /\ \A q \in Requests \ {c.client} : request'[q] = request[q]
  <2>1. request[c.client] \in Request
    BY <1>5 DEF TypeOK
  <2>2. request' = [request EXCEPT ![c.client].phase = "pending"]
    BY DEF RouteSent
  <2>3. QED BY <1>5, <2>1, <2>2 DEF TypeOK, Request
<1>7. WorkOf(c.client)' = (WorkOf(c.client) \cap DOMAIN cmds) \cup {nextId}
  BY <1>2, <1>4 DEF WorkOf
<1>8. \A q \in Requests \ {c.client} : WorkOf(q)' = WorkOf(q) \cap DOMAIN cmds
  BY <1>2, <1>4 DEF WorkOf
<1>9. QED BY <1>1, <1>4, <1>6, <1>7, <1>8

\* The first command of a request is routed.
LEMMA BeginCourses ==
  ASSUME TypeOK, \A r \in Requests : Owned(r), NEW c \in Command,
         RouteCommand(c, commands, "session"), ~c.approved, c.policyUses = 0,
         request[c.client].phase \in {"idle", "reading"}
  PROVE  \A q \in Requests : Course(q)
<1>1. c.client \in Requests /\ SubMap(commands, commands)
  BY SubMapSelf DEF Command, TypeOK
<1>2. CASE RouteRefused(c, commands)
  <2>1. Answer(c.client) /\ UNCHANGED <<commands, delivered>>
    BY <1>2 DEF RouteRefused
  <2>2. QED BY <1>1, <2>1, AnswerCourses
<1>3. CASE RouteSent(c, commands, "session")
  <2>1. \A q \in Requests : SentTo(q)' = SentTo(q)
    BY <1>3 DEF RouteSent, SentTo
  <2>2. Begins(c.client, c)
    <3>1. WorkOf(c.client) = {}
      BY <1>1 DEF Owned
    <3>2. WorkOf(c.client)' = {nextId}
      BY <1>1, <1>3, <3>1, SentWork
    <3>3. QED BY <1>1, <1>3, <2>1, <3>2, SentWork DEF Begins, Works
  <2>3. ASSUME NEW q \in Requests, q # c.client PROVE Stays(q)
    <3>1. request'[q] = request[q] /\ WorkOf(q)' = WorkOf(q) \cap DOMAIN commands
      BY <1>1, <1>3, <2>3, SentWork
    <3>2. \A i \in DOMAIN commands : commands'[i] = commands[i]
      BY <1>1, <1>3, SentWork
    <3>3. WorkOf(q) \subseteq DOMAIN commands
      BY DEF WorkOf
    <3>4. QED BY <2>1, <3>1, <3>2, <3>3 DEF Stays, SameWork
  <2>4. QED BY <2>2, <2>3 DEF Course
<1>4. QED BY <1>2, <1>3 DEF RouteCommand

\* A command is re-routed under a grant.
LEMMA ReplaceCourses ==
  ASSUME TypeOK, \A r \in Requests : Owned(r), NEW c \in Command,
         NEW id \in DOMAIN commands, c.client = commands[id].client, c.approved,
         NEW source \in Sources, RouteCommand(c, Drop(commands, {id}), source),
         \/ source = "session" /\ ~commands[id].approved
            /\ c.policyUses = commands[id].policyUses
         \/ source = "policy" /\ commands[id].policyUses < MaxPolicyApprovals
            /\ c.policyUses = commands[id].policyUses + 1
  PROVE  \A q \in Requests : Course(q)
<1>1. c.client \in Requests
  BY DEF Command
<1> PICK cmds : cmds = Drop(commands, {id})
  OBVIOUS
<1>2. SubMap(cmds, commands) /\ DOMAIN cmds = DOMAIN commands \ {id}
  BY SubMapSelf, DropSubMap DEF TypeOK
<1> PICK d : d = Delivered(nextId, c, source)
  OBVIOUS
<1>3. d.source = source /\ d.client = c.client
  BY DEF Delivered
<1>4. CASE RouteRefused(c, cmds)
  <2>1. /\ commands' = Drop(commands, {id}) /\ Answer(commands[id].client)
        /\ delivered' = delivered
    BY <1>4 DEF RouteRefused
  <2>2. QED BY <2>1, SettleCourses
<1>5. CASE RouteSent(c, cmds, source)
  <2>1. delivered' = delivered \cup {d}
    BY <1>5 DEF RouteSent
  <2>2. id \in WorkOf(c.client) /\ \A i \in WorkOf(c.client) : i = id
    BY <1>1 DEF Owned, WorkOf
  <2>3. Replaces(c.client, c, id, d)
    <3>1. SentTo(c.client)' = SentTo(c.client) \cup {d}
      BY <1>3, <2>1 DEF SentTo
    <3>2. WorkOf(c.client)' = {nextId}
      BY <1>2, <1>5, <2>2, SentWork
    <3>3. Works(c.client, c)
      BY <1>2, <1>5, <3>2, SentWork DEF Works
    <3>4. QED BY <1>3, <2>2, <3>1, <3>3 DEF Replaces
  <2>4. ASSUME NEW q \in Requests, q # c.client PROVE Stays(q)
    <3>1. id \notin WorkOf(q) /\ WorkOf(q) \subseteq DOMAIN commands
      BY <2>4 DEF WorkOf
    <3>2. /\ \A p \in Requests \ {c.client} : request'[p] = request[p]
          /\ \A p \in Requests \ {c.client} : WorkOf(p)' = WorkOf(p) \cap DOMAIN cmds
      BY <1>2, <1>5, SentWork, Zenon
    <3>3. \A i \in DOMAIN cmds : commands'[i] = commands[i]
      BY <1>2, <1>5, SentWork
    <3>4. SentTo(q)' = SentTo(q)
      BY <1>3, <2>1, <2>4 DEF SentTo
    <3>5. QED BY <1>2, <2>4, <3>1, <3>2, <3>3, <3>4 DEF Stays, SameWork
  <2>5. QED BY <2>3, <2>4 DEF Course
<1>6. QED BY <1>4, <1>5 DEF RouteCommand

\* A step that leaves requests, commands and deliveries alone.
LEMMA IdleCourses ==
  ASSUME UNCHANGED <<request, commands, delivered>>
  PROVE  \A q \in Requests : Course(q)
  BY DEF Course, Stays, SameWork, WorkOf, SentTo

\* A browser is released: the courses of its clients end, the others stay.
LEMMA ReleaseCourses ==
  ASSUME TypeOK, \A r \in Requests : Owned(r), NEW b \in Browsers,
         ReleaseBrowser(b), delivered' = delivered
  PROVE  \A q \in Requests : Course(q)
<1> SUFFICES ASSUME NEW q \in Requests PROVE Course(q)
  OBVIOUS
<1>1. SentTo(q)' = SentTo(q)
  BY DEF SentTo
<1>2. /\ \A i \in DOMAIN commands \ CommandsOf(b) : commands'[i] = commands[i]
      /\ \A p \in Requests : WorkOf(p)' = WorkOf(p) \ CommandsOf(b)
  BY DroppedWork, Zenon DEF ReleaseBrowser
<1>3. WorkOf(q) \subseteq DOMAIN commands
  BY DEF WorkOf
<1>4. request'[q] = IF q \in ClientsOf(CommandsOf(b)) THEN Answered(request[q]) ELSE request[q]
  BY DEF ReleaseBrowser
<1>5. CASE q \in ClientsOf(CommandsOf(b))
  <2>1. PICK i \in CommandsOf(b) : commands[i].client = q
    BY <1>5 DEF ClientsOf
  <2>2. i \in WorkOf(q)
    BY <2>1 DEF WorkOf, CommandsOf
  <2>3. request[q].phase = "pending" /\ \A j \in WorkOf(q) : j = i
    BY <2>2 DEF Owned
  <2>4. WorkOf(q)' = {}
    BY <1>2, <2>1, <2>3
  <2>5. request[q] \in Request
    BY DEF TypeOK
  <2>6. Ends(q)
    BY <1>1, <1>4, <1>5, <2>3, <2>4, <2>5, AnsweredFields DEF Ends
  <2>7. QED BY <2>6 DEF Course
<1>6. CASE q \notin ClientsOf(CommandsOf(b))
  <2>1. WorkOf(q) \cap CommandsOf(b) = {}
    BY <1>6 DEF WorkOf, ClientsOf
  <2>2. Stays(q)
    BY <1>1, <1>2, <1>3, <1>4, <1>6, <2>1 DEF Stays, SameWork
  <2>3. QED BY <2>2 DEF Course
<1>7. QED BY <1>5, <1>6

\* The daemon stops or dies: what was pending or being read ends here.
LEMMA EndCourses ==
  ASSUME TypeOK, \A r \in Requests : Owned(r), Stop \/ Crash
  PROVE  \A q \in Requests : Course(q)
<1> SUFFICES ASSUME NEW q \in Requests PROVE Course(q)
  OBVIOUS
<1>1. commands' = Drop(commands, DOMAIN commands) /\ delivered' = delivered
  BY DEF Stop, Crash
<1>2. WorkOf(q) \subseteq DOMAIN commands /\ SentTo(q)' = SentTo(q)
  BY <1>1 DEF WorkOf, SentTo
<1>3. WorkOf(q)' = {}
  <2>1. \A p \in Requests : WorkOf(p)' = WorkOf(p) \ DOMAIN commands
    BY <1>1, DroppedWork, Zenon
  <2>2. QED BY <1>2, <2>1
<1>4. request[q] \in Request
  BY DEF TypeOK
<1>5. request[q].phase # "pending" => WorkOf(q) = {}
  BY DEF Owned
<1>6. CASE request[q].phase \notin {"pending", "reading"}
  <2>1. request'[q] = request[q]
    BY <1>6 DEF Stop, Crash
  <2>2. QED BY <1>2, <1>3, <1>5, <1>6, <2>1 DEF Course, Stays, SameWork
<1>7. CASE request[q].phase \in {"pending", "reading"} /\ Crash
  <2>1. request'[q] = [request[q] EXCEPT !.gone = TRUE, !.phase = "done"]
    BY <1>7 DEF Crash
  <2>2. /\ request'[q].gone /\ request'[q].phase = "done"
        /\ request'[q].replies = request[q].replies
    BY <1>4, <2>1 DEF Request
  <2>3. QED BY <1>2, <1>3, <1>7, <2>2 DEF Course, Ends
<1>8. CASE request[q].phase = "reading" /\ Stop
  <2>1. request'[q] = [request[q] EXCEPT !.gone = TRUE]
    BY <1>8 DEF Stop
  <2>2. request'[q].phase = "reading" /\ request'[q].replies = request[q].replies
    BY <1>4, <1>8, <2>1 DEF Request
  <2>3. QED BY <1>2, <1>3, <1>5, <1>8, <2>2 DEF Course, ReadFor, SameWork
<1>9. CASE request[q].phase = "pending" /\ Stop
  <2>1. request'[q] = Answered(request[q])
    BY <1>9 DEF Stop
  <2>2. QED BY <1>2, <1>3, <1>4, <1>9, <2>1, AnsweredFields DEF Course, Ends
<1>10. QED BY <1>6, <1>7, <1>8, <1>9

\* A fresh request, or one whose file was read, is routed.
LEMMA RouteRequestCourses ==
  ASSUME TypeOK, \A p \in Requests : Owned(p), NEW r \in Requests,
         NEW b \in Browsers, NEW g \in Nat, NEW op \in Operations,
         request[r].phase \in {"idle", "reading"}, RouteRequest(r, b, g, op)
  PROVE  \A q \in Requests : Course(q)
<1> DEFINE hits == Matching(approvals, b, op, Fingerprints, "approved")
<1>1. FirstOf(hits) \in Nat
  BY FirstOfTyped DEF Matching
<1> PICK c : c = [client |-> r, browser |-> b, gen |-> g, op |-> op,
                  approved |-> FALSE, grant |-> NoId, fp |-> NoFingerprint,
                  recheck |-> FirstOf(hits), policyUses |-> 0]
  OBVIOUS
<1>2. RouteCommand(c, commands, "session")
  BY DEF RouteRequest
<1>3. c \in Command /\ ~c.approved /\ c.policyUses = 0 /\ c.client = r
  BY <1>1 DEF Command, NoId
<1>4. QED BY <1>2, <1>3, BeginCourses

\* Requests arrive, read files and lose their clients.
LEMMA ClientCourses ==
  ASSUME TypeOK, \A r \in Requests : Owned(r), ClientStep
  PROVE  \A q \in Requests : Course(q)
<1>1. PICK r \in Requests :
        \/ \E named \in Browsers \cup {AnyBrowser} :
              \/ SubmitUnroutable(r, named)
              \/ \E op \in Operations : Submit(r, named, op)
              \/ SubmitAttach(r, named)
        \/ AttachReadFails(r)
        \/ \E op \in AttachOperations : AttachReadDone(r, op)
        \/ ClientGone(r)
  BY DEF ClientStep
<1>2. request[r] \in Request /\ \A b \in Browsers : session[b].gen \in Nat
  BY DEF TypeOK, Session
<1>3. ASSUME NEW named, SubmitUnroutable(r, named) \/ AttachReadFails(r)
      PROVE  \A q \in Requests : Course(q)
  BY <1>3, AnswerCourses DEF SubmitUnroutable, AttachReadFails
<1>4. ASSUME NEW named, NEW op \in Operations, Submit(r, named, op)
      PROVE  \A q \in Requests : Course(q)
  <2>1. PICK b \in Browsers : RouteRequest(r, b, session[b].gen, op)
    BY <1>4 DEF Submit
  <2> PICK g : g = session[b].gen
    OBVIOUS
  <2>2. g \in Nat /\ RouteRequest(r, b, g, op)
    BY <1>2, <2>1
  <2>3. QED BY <1>4, <2>2, RouteRequestCourses DEF Submit
<1>5. ASSUME NEW named, SubmitAttach(r, named)
      PROVE  \A q \in Requests : Course(q)
  <2>1. /\ request'[r].phase = "reading" /\ request'[r].replies = request[r].replies
        /\ \A q \in Requests \ {r} : request'[q] = request[q]
    BY <1>2, <1>5 DEF SubmitAttach, TypeOK, Request
  <2>2. UNCHANGED <<commands, delivered>> /\ request[r].phase = "idle"
    BY <1>5 DEF SubmitAttach
  <2>3. \A q \in Requests : SameWork(q) /\ SentTo(q)' = SentTo(q)
    BY <2>2 DEF SameWork, WorkOf, SentTo
  <2>4. QED BY <2>1, <2>2, <2>3 DEF Course, Stays, ReadFor
<1>6. ASSUME NEW op \in AttachOperations, AttachReadDone(r, op)
      PROVE  \A q \in Requests : Course(q)
  <2>1. request[r].browser \in Browsers /\ request[r].gen \in Nat
    BY <1>2, <1>6 DEF AttachReadDone, Request
  <2>2. op \in Operations
    BY OperationsAssumption
  <2> PICK b, g : b = request[r].browser /\ g = request[r].gen
    OBVIOUS
  <2>3. RouteRequest(r, b, g, op) /\ request[r].phase = "reading"
    BY <1>6 DEF AttachReadDone
  <2>4. QED BY <2>1, <2>2, <2>3, RouteRequestCourses
<1>7. CASE ClientGone(r)
  <2> PICK S : S = {i \in DOMAIN commands : commands[i].client = r}
    OBVIOUS
  <2>1. commands' = Drop(commands, S) /\ delivered' = delivered
    BY <1>7 DEF ClientGone
  <2>2. /\ \A i \in DOMAIN commands \ S : commands'[i] = commands[i]
        /\ \A q \in Requests : WorkOf(q)' = WorkOf(q) \ S
    BY <2>1, DroppedWork, Zenon
  <2>3. \A q \in Requests : SentTo(q)' = SentTo(q)
    BY <2>1 DEF SentTo
  <2>4. ASSUME NEW q \in Requests, q # r PROVE Stays(q)
    <3>1. WorkOf(q) \subseteq DOMAIN commands \ S
      BY <2>4 DEF WorkOf
    <3>2. request'[q] = request[q]
      BY <1>7, <2>4 DEF ClientGone, TypeOK
    <3>3. QED BY <2>2, <2>3, <3>1, <3>2 DEF Stays, SameWork
  <2>5. WorkOf(r)' = {}
    BY <2>2 DEF WorkOf
  <2>6. /\ request'[r].gone /\ request'[r].replies = request[r].replies
        /\ request'[r].phase = IF request[r].phase = "pending" THEN "done"
                               ELSE request[r].phase
    BY <1>2, <1>7 DEF ClientGone, Left, TypeOK, Request
  <2>7. CASE request[r].phase = "pending"
    <3>1. Ends(r)
      BY <2>3, <2>5, <2>6, <2>7 DEF Ends
    <3>2. QED BY <2>4, <3>1 DEF Course
  <2>8. CASE request[r].phase = "reading"
    <3>1. WorkOf(r) = {}
      BY <2>8 DEF Owned
    <3>2. ReadFor(r)
      BY <2>3, <2>5, <2>6, <2>8, <3>1 DEF ReadFor, SameWork
    <3>3. QED BY <2>4, <3>2 DEF Course
  <2>9. QED BY <1>7, <2>7, <2>8 DEF ClientGone
<1>8. QED BY <1>1, <1>3, <1>4, <1>5, <1>6, <1>7

\* A result settles its command, or re-routes it under a grant.
LEMMA ResultCourses ==
  ASSUME TypeOK, \A r \in Requests : Owned(r), ResultStep
  PROVE  \A q \in Requests : Course(q)
<1>1. PICK id \in DOMAIN commands :
        \/ ResultFinal(id)
        \/ \E fp \in Fingerprints \cup {NoFingerprint} :
              \/ ResultRejected(id, fp)
              \/ ResultSpendsGrant(id, fp)
              \/ ResultAlreadyAsked(id, fp)
              \/ \E category \in Categories :
                    \/ ResultPolicyGrant(id, fp, category)
                    \/ \E bound \in BOOLEAN :
                          ResultNotAskable(id, fp, category, bound)
                    \/ ResultAsks(id, fp, category)
  BY DEF ResultStep
<1>2. ASSUME commands' = Drop(commands, {id}), Answer(commands[id].client),
             delivered' = delivered
      PROVE  \A q \in Requests : Course(q)
  BY <1>2, SettleCourses
<1>3. commands[id] \in Command
  BY DEF TypeOK
<1>4. ASSUME NEW fp, ResultSpendsGrant(id, fp)
      PROVE  \A q \in Requests : Course(q)
  <2> PICK c : c = UnderGrant(commands[id], fp, Candidate(commands[id], fp))
    OBVIOUS
  <2>1. /\ fp \in Fingerprints /\ ~commands[id].approved
        /\ Candidate(commands[id], fp) \in DOMAIN approvals
        /\ RouteCommand(c, Drop(commands, {id}), "session")
    BY <1>4 DEF ResultSpendsGrant, Acceptable, ExactGrant
  <2>2. c \in Command
    BY <2>1, ReroutedTyped
  <2>3. /\ c.approved /\ c.client = commands[id].client
        /\ c.policyUses = commands[id].policyUses
    BY <1>3 DEF UnderGrant, Command
  <2>4. QED BY <2>1, <2>2, <2>3, ReplaceCourses DEF Sources
<1>5. ASSUME NEW fp, NEW category, ResultPolicyGrant(id, fp, category)
      PROVE  \A q \in Requests : Course(q)
  <2> PICK c : c = UnderPolicy(commands[id], fp)
    OBVIOUS
  <2>1. /\ fp \in Fingerprints /\ commands[id].policyUses < MaxPolicyApprovals
        /\ RouteCommand(c, Drop(commands, {id}), "policy")
    BY <1>5 DEF ResultPolicyGrant, NeedsApproval, Acceptable, ByPolicy
  <2>2. c \in Command
    BY <2>1, ReroutedTyped
  <2>3. /\ c.approved /\ c.client = commands[id].client
        /\ c.policyUses = commands[id].policyUses + 1
    BY <1>3 DEF UnderPolicy, Command
  <2>4. QED BY <2>1, <2>2, <2>3, ReplaceCourses DEF Sources
<1>6. QED BY <1>1, <1>2, <1>4, <1>5 DEF ResultFinal, ResultRejected,
          ResultAlreadyAsked, ResultNotAskable, ResultAsks

\* Every step lets every request take one of its courses.
LEMMA StepCourses ==
  ASSUME TypeOK, \A r \in Requests : Owned(r), [Next]_vars
  PROVE  \A q \in Requests : Course(q)
<1>1. CASE BrowserStep
  <2>1. PICK b \in Browsers : \/ ReleaseBrowser(b)
                             \/ UNCHANGED <<request, commands>>
    BY <1>1 DEF BrowserStep, Register, SocketClosing, Disconnect
  <2>2. delivered' = delivered
    BY <1>1 DEF BrowserStep, Register, SocketClosing, Disconnect
  <2>3. QED BY <2>1, <2>2, ReleaseCourses, IdleCourses
<1>2. CASE ClientStep
  BY <1>2, ClientCourses
<1>3. CASE ResultStep
  BY <1>3, ResultCourses
<1>4. CASE \E id \in DOMAIN commands : Timeout(id) \/ SendFails(id)
  BY <1>4, SettleCourses DEF Timeout, SendFails, Abandon
<1>5. CASE ApprovalStep
  BY <1>5, IdleCourses DEF ApprovalStep, Decide, Elapse, ExpireApproval
<1>6. CASE Stop \/ Crash
  BY <1>6, EndCourses
<1>7. CASE UNCHANGED vars
  BY <1>7, IdleCourses DEF vars
<1>8. QED BY <1>1, <1>2, <1>3, <1>4, <1>5, <1>6, <1>7 DEF Next
-----------------------------------------------------------------------------
(***************************************************************************)
(* The pools.  A step leaves a part of the commands and of the approvals,  *)
(* or one of them with a new entry that had room: a command whose session  *)
(* is open, or an approval of the session of a command.                    *)
(***************************************************************************)

SameOrigin(x, y) == x.browser = y.browser /\ x.gen = y.gen

\* The commands are a part of what they were, beside at most one new one.
CommandsStep ==
  \/ SubMap(commands', commands)
  \/ \E cmds, c : /\ SubMap(cmds, commands) /\ commands' = Put(cmds, nextId, c)
                  /\ Open(c.browser, c.gen)
                  /\ Cardinality(DOMAIN cmds) < MaxPendingCommands

\* The approvals keep their origin, and a new one has that of a command.
ApprovalsStep ==
  \/ /\ DOMAIN approvals' \subseteq DOMAIN approvals
     /\ \A a \in DOMAIN approvals' : SameOrigin(approvals'[a], approvals[a])
  \/ \E A, x : /\ SubMap(A, approvals) /\ approvals' = Put(A, nextId, x)
               /\ \E id \in DOMAIN commands : SameOrigin(x, commands[id])
               /\ Cardinality(DOMAIN A) < MaxPendingApprovals

\* A part of the approvals keeps its origin.
LEMMA LessApprovals ==
  ASSUME SubMap(approvals', approvals) PROVE ApprovalsStep
  BY DEF SubMap, ApprovalsStep, SameOrigin

\* Routing adds a command only when there is room and its session is open.
LEMMA RouteCommandsStep ==
  ASSUME NEW c, NEW cmds, SubMap(cmds, commands), NEW source,
         RouteCommand(c, cmds, source), IsFiniteSet(DOMAIN cmds)
  PROVE  CommandsStep
<1>1. CASE RouteRefused(c, cmds)
  BY <1>1 DEF RouteRefused, CommandsStep
<1>2. CASE RouteSent(c, cmds, source)
  <2> DEFINE n == Cardinality(DOMAIN cmds)
  <2>1. n \in Nat /\ MaxPendingCommands \in Nat
    BY FS_CardinalityType, BoundsAssumption
  <2>2. ~(n >= MaxPendingCommands) /\ Open(c.browser, c.gen)
    BY <1>2 DEF RouteSent, Refused
  <2> HIDE DEF n
  <2>3. n < MaxPendingCommands
    BY <2>1, <2>2
  <2>4. commands' = Put(cmds, nextId, c)
    BY <1>2 DEF RouteSent
  <2>5. QED BY <2>2, <2>3, <2>4 DEF CommandsStep, n
<1>3. QED BY <1>1, <1>2 DEF RouteCommand

\* The identifiers in use are finitely many.
LEMMA FinitePools ==
  ASSUME TypeOK
  PROVE  IsFiniteSet(DOMAIN commands) /\ IsFiniteSet(DOMAIN approvals)
<1>1. nextId - 1 \in Int
  BY DEF TypeOK, Ids
<1>2. IsFiniteSet(1..(nextId - 1))
  BY <1>1, FS_Interval
<1>3. QED BY <1>2, FS_Subset DEF TypeOK

\* Every step moves the pools like that.
LEMMA PoolsStep ==
  ASSUME TypeOK, [Next]_vars
  PROVE  CommandsStep /\ ApprovalsStep
<1>1. SubMap(commands, commands) /\ SubMap(approvals, approvals)
  BY SubMapSelf DEF TypeOK
<1>2. ASSUME NEW S, commands' = Drop(commands, S) PROVE CommandsStep
  BY <1>1, <1>2, DropSubMap DEF CommandsStep
<1>3. ASSUME NEW S, approvals' = Drop(approvals, S) PROVE ApprovalsStep
  BY <1>1, <1>3, DropSubMap, LessApprovals
<1>4. ASSUME UNCHANGED commands PROVE CommandsStep
  BY <1>1, <1>4 DEF CommandsStep
<1>5. ASSUME UNCHANGED approvals PROVE ApprovalsStep
  BY <1>1, <1>5, LessApprovals
<1>6. CASE BrowserStep
  <2>1. PICK b \in Browsers : \/ ReleaseBrowser(b)
                             \/ UNCHANGED <<commands, approvals>>
    BY <1>6 DEF BrowserStep, Register, SocketClosing, Disconnect
  <2>2. QED BY <1>2, <1>3, <1>4, <1>5, <2>1 DEF ReleaseBrowser
<1>7. ASSUME NEW r, NEW b, NEW g, NEW op, RouteRequest(r, b, g, op)
      PROVE  CommandsStep /\ ApprovalsStep
  <2> DEFINE hits == Matching(approvals, b, op, Fingerprints, "approved")
  <2>1. ApprovalsStep
    BY <1>1, <1>7, SweptSubMap, LessApprovals DEF RouteRequest
  <2>2. \E c : RouteCommand(c, commands, "session")
    BY <1>7 DEF RouteRequest
  <2>3. QED BY <1>1, <2>1, <2>2, FinitePools, RouteCommandsStep
<1>8. CASE ClientStep
  BY <1>2, <1>4, <1>5, <1>7, <1>8 DEF ClientStep, SubmitUnroutable, Submit,
     SubmitAttach, AttachReadFails, AttachReadDone, ClientGone
<1>9. CASE ResultStep
  <2>1. PICK id \in DOMAIN commands, fp \in Fingerprints \cup {NoFingerprint} :
          \/ ResultFinal(id)
          \/ ResultRejected(id, fp)
          \/ ResultSpendsGrant(id, fp)
          \/ ResultAlreadyAsked(id, fp)
          \/ \E category : \/ ResultPolicyGrant(id, fp, category)
                           \/ \E bound : ResultNotAskable(id, fp, category, bound)
                           \/ ResultAsks(id, fp, category)
    BY <1>9 DEF ResultStep
  <2> PICK c : c = commands[id]
    OBVIOUS
  <2>2. ASSUME NEW u, NEW source, RouteCommand(u, Drop(commands, {id}), source)
        PROVE  CommandsStep
    <3>1. /\ SubMap(Drop(commands, {id}), commands)
          /\ DOMAIN Drop(commands, {id}) = DOMAIN commands \ {id}
      BY <1>1, DropSubMap
    <3>2. IsFiniteSet(DOMAIN Drop(commands, {id}))
      BY <3>1, FinitePools, FS_RemoveElement
    <3>3. QED BY <2>2, <3>1, <3>2, RouteCommandsStep
  <2>3. CASE ResultFinal(id) \/ ResultRejected(id, fp)
    BY <1>2, <1>3, <1>5, <2>3 DEF ResultFinal, ResultRejected, TakeApproval
  <2>4. CASE ResultSpendsGrant(id, fp)
    <3>1. \E u : RouteCommand(u, Drop(commands, {id}), "session")
      BY <2>4 DEF ResultSpendsGrant
    <3>2. \E a : approvals' = TakeApproval(Searched(c, fp), a)
      BY <2>4 DEF ResultSpendsGrant
    <3>3. QED BY <2>2, <3>1, <3>2, LeftoversSubMap, LessApprovals
  <2>5. ASSUME commands' = Drop(commands, {id}), approvals' = Remaining(c, fp)
        PROVE  CommandsStep /\ ApprovalsStep
    BY <1>2, <2>5, LeftoversSubMap, LessApprovals
  <2>6. CASE ResultAlreadyAsked(id, fp)
    BY <2>5, <2>6 DEF ResultAlreadyAsked
  <2>7. ASSUME NEW category, ResultPolicyGrant(id, fp, category)
        PROVE  CommandsStep /\ ApprovalsStep
    <3>1. \E u : RouteCommand(u, Drop(commands, {id}), "policy")
      BY <2>7 DEF ResultPolicyGrant
    <3>2. approvals' = Remaining(c, fp)
      BY <2>7 DEF ResultPolicyGrant
    <3>3. QED BY <2>2, <3>1, <3>2, LeftoversSubMap, LessApprovals
  <2>8. ASSUME NEW category, NEW bound, ResultNotAskable(id, fp, category, bound)
        PROVE  CommandsStep /\ ApprovalsStep
    BY <2>5, <2>8 DEF ResultNotAskable
  <2>9. ASSUME NEW category, ResultAsks(id, fp, category)
        PROVE  CommandsStep /\ ApprovalsStep
    <3> PICK x : x = [browser |-> c.browser, gen |-> c.gen, op |-> c.op, fp |-> fp,
                      state |-> "pending", lapsed |-> FALSE]
      OBVIOUS
    <3>1. /\ commands' = Drop(commands, {id})
          /\ approvals' = Put(Remaining(c, fp), nextId, x)
          /\ Cardinality(DOMAIN Remaining(c, fp)) < MaxPendingApprovals
      BY <2>9 DEF ResultAsks
    <3>2. SameOrigin(x, commands[id]) /\ SubMap(Remaining(c, fp), approvals)
      BY LeftoversSubMap DEF SameOrigin
    <3>3. ApprovalsStep
      BY <3>1, <3>2 DEF ApprovalsStep
    <3>4. QED BY <1>2, <3>1, <3>3
  <2>10. QED BY <2>1, <2>3, <2>4, <2>6, <2>7, <2>8, <2>9
<1>10. CASE \E id \in DOMAIN commands : Timeout(id) \/ SendFails(id)
  BY <1>2, <1>5, <1>10 DEF Timeout, SendFails, Abandon
<1>11. CASE ApprovalStep
  <2>1. PICK a \in DOMAIN approvals :
          \/ \E verdict \in {"approve", "reject"} : Decide(a, verdict)
          \/ Elapse(a)
          \/ ExpireApproval(a)
    BY <1>11 DEF ApprovalStep
  <2>2. UNCHANGED commands
    BY <2>1 DEF Decide, Elapse, ExpireApproval
  <2>3. \/ approvals' = TakeApproval(approvals, a)
        \/ approvals' = [approvals EXCEPT ![a].state = "approved"]
        \/ approvals' = [approvals EXCEPT ![a].lapsed = TRUE]
    BY <2>1 DEF Decide, Elapse, ExpireApproval
  <2>4. approvals[a] \in Approval
    BY DEF TypeOK
  <2>5. CASE approvals' = [approvals EXCEPT ![a].state = "approved"]
    <3>1. /\ DOMAIN approvals' = DOMAIN approvals
          /\ \A x \in DOMAIN approvals \ {a} : approvals'[x] = approvals[x]
          /\ SameOrigin(approvals'[a], approvals[a])
      BY <2>4, <2>5 DEF SameOrigin, Approval
    <3>2. \A x \in DOMAIN approvals' : SameOrigin(approvals'[x], approvals[x])
      BY <3>1 DEF SameOrigin
    <3>3. QED BY <1>4, <2>2, <3>1, <3>2 DEF ApprovalsStep
  <2>6. CASE approvals' = [approvals EXCEPT ![a].lapsed = TRUE]
    <3>1. /\ DOMAIN approvals' = DOMAIN approvals
          /\ \A x \in DOMAIN approvals \ {a} : approvals'[x] = approvals[x]
          /\ SameOrigin(approvals'[a], approvals[a])
      BY <2>4, <2>6 DEF SameOrigin, Approval
    <3>2. \A x \in DOMAIN approvals' : SameOrigin(approvals'[x], approvals[x])
      BY <3>1 DEF SameOrigin
    <3>3. QED BY <1>4, <2>2, <3>1, <3>2 DEF ApprovalsStep
  <2>7. QED BY <1>3, <1>4, <2>2, <2>3, <2>5, <2>6 DEF TakeApproval
<1>12. CASE Stop \/ Crash
  BY <1>2, <1>3, <1>12 DEF Stop, Crash
<1>13. CASE UNCHANGED vars
  BY <1>4, <1>5, <1>13 DEF vars
<1>14. QED BY <1>6, <1>8, <1>9, <1>10, <1>11, <1>12, <1>13 DEF Next

\* A part of a pool, or a part with room and one more, keeps to its limit.
LEMMA PoolKeepsLimit ==
  ASSUME NEW S, IsFiniteSet(S), NEW limit \in Nat, Cardinality(S) <= limit, NEW T,
         \/ T \subseteq S
         \/ \E R, x : R \subseteq S /\ Cardinality(R) < limit /\ T = R \cup {x}
  PROVE  Cardinality(T) <= limit
<1>1. CASE T \subseteq S
  <2> DEFINE m == Cardinality(T)
             n == Cardinality(S)
  <2>1. m <= n /\ m \in Nat /\ n \in Nat
    BY <1>1, FS_Subset, FS_CardinalityType
  <2> HIDE DEF m, n
  <2>2. n <= limit => m <= limit
    BY <2>1
  <2>3. QED BY <2>2 DEF m, n
<1>2. ASSUME NEW R, NEW x, R \subseteq S, Cardinality(R) < limit, T = R \cup {x}
      PROVE  Cardinality(T) <= limit
  <2> DEFINE m == Cardinality(R)
             n == Cardinality(R \cup {x})
  <2>1. IsFiniteSet(R) /\ m \in Nat
    BY <1>2, FS_Subset, FS_CardinalityType
  <2>2. n = m \/ n = m + 1
    BY <2>1, FS_AddElement
  <2>3. m < limit
    BY <1>2
  <2> HIDE DEF m, n
  <2>4. n <= limit
    BY <2>1, <2>2, <2>3
  <2>5. QED BY <1>2, <2>4 DEF n
<1>3. QED BY <1>1, <1>2

\* The pools keep to their limits.
LEMMA LimitsKept ==
  ASSUME TypeOK, WithinLimits, CommandsStep, ApprovalsStep
  PROVE  WithinLimits'
<1>1. MaxPendingCommands \in Nat /\ MaxPendingApprovals \in Nat
  BY BoundsAssumption
<1>2. IsFiniteSet(DOMAIN commands) /\ IsFiniteSet(DOMAIN approvals)
  BY FinitePools
<1>3. \/ DOMAIN commands' \subseteq DOMAIN commands
      \/ \E R, x : /\ R \subseteq DOMAIN commands /\ DOMAIN commands' = R \cup {x}
                   /\ Cardinality(R) < MaxPendingCommands
  BY DEF CommandsStep, SubMap, Put
<1>4. \/ DOMAIN approvals' \subseteq DOMAIN approvals
      \/ \E R, x : /\ R \subseteq DOMAIN approvals /\ DOMAIN approvals' = R \cup {x}
                   /\ Cardinality(R) < MaxPendingApprovals
  BY DEF ApprovalsStep, SubMap, Put
<1>5. Cardinality(DOMAIN commands') <= MaxPendingCommands
  BY <1>1, <1>2, <1>3, PoolKeepsLimit DEF WithinLimits
<1>6. Cardinality(DOMAIN approvals') <= MaxPendingApprovals
  BY <1>1, <1>2, <1>4, PoolKeepsLimit DEF WithinLimits
<1>7. QED BY <1>5, <1>6 DEF WithinLimits

\* While the sessions stand, the pools follow them.
LEMMA SteadyFollows ==
  ASSUME TypeOK, FollowSession, CommandsStep, ApprovalsStep, session' = session
  PROVE  FollowSession'
<1>1. ASSUME NEW i \in DOMAIN commands'
      PROVE  /\ session[commands'[i].browser].gen = commands'[i].gen
             /\ session[commands'[i].browser].state \in {"open", "closing"}
  <2>1. CASE SubMap(commands', commands)
    BY <2>1 DEF SubMap, FollowSession
  <2>2. ASSUME NEW cmds, NEW c, SubMap(cmds, commands), commands' = Put(cmds, nextId, c),
               Open(c.browser, c.gen)
        PROVE  /\ session[commands'[i].browser].gen = commands'[i].gen
               /\ session[commands'[i].browser].state \in {"open", "closing"}
    <3>1. commands'[i] = c \/ (i \in DOMAIN commands /\ commands'[i] = commands[i])
      BY <2>2 DEF Put, SubMap
    <3>2. QED BY <2>2, <3>1 DEF Open, FollowSession
  <2>3. QED BY <2>1, <2>2 DEF CommandsStep
<1>2. ASSUME NEW a \in DOMAIN approvals'
      PROVE  /\ session[approvals'[a].browser].gen = approvals'[a].gen
             /\ session[approvals'[a].browser].state # "none"
  <2>1. ASSUME NEW b \in DOMAIN approvals, SameOrigin(approvals'[a], approvals[b])
        PROVE  /\ session[approvals'[a].browser].gen = approvals'[a].gen
               /\ session[approvals'[a].browser].state # "none"
    BY <2>1 DEF SameOrigin, FollowSession
  <2>2. ASSUME NEW id \in DOMAIN commands, SameOrigin(approvals'[a], commands[id])
        PROVE  /\ session[approvals'[a].browser].gen = approvals'[a].gen
               /\ session[approvals'[a].browser].state # "none"
    BY <2>2 DEF SameOrigin, FollowSession
  <2>3. ASSUME NEW A, NEW x, SubMap(A, approvals), approvals' = Put(A, nextId, x),
               NEW id \in DOMAIN commands, SameOrigin(x, commands[id])
        PROVE  \/ SameOrigin(approvals'[a], commands[id])
               \/ a \in DOMAIN approvals /\ SameOrigin(approvals'[a], approvals[a])
    <3>1. approvals'[a] = x \/ (a \in DOMAIN approvals /\ approvals'[a] = approvals[a])
      BY <2>3 DEF Put, SubMap
    <3>2. QED BY <2>3, <3>1 DEF SameOrigin
  <2>4. \/ \E b \in DOMAIN approvals : SameOrigin(approvals'[a], approvals[b])
        \/ \E id \in DOMAIN commands : SameOrigin(approvals'[a], commands[id])
    BY <2>3 DEF ApprovalsStep
  <2>5. QED BY <2>1, <2>2, <2>4
<1>3. QED BY <1>1, <1>2 DEF FollowSession

\* A browser without a session has no commands and no approvals, and one that is
\* released keeps none: a new session starts with empty pools.
LEMMA BrowserFollows ==
  ASSUME TypeOK, FollowSession, BrowserStep
  PROVE  FollowSession'
<1>1. PICK b \in Browsers :
        \/ \E state \in SocketStates \ {"none"} : Register(b, state)
        \/ SocketClosing(b)
        \/ Disconnect(b)
  BY DEF BrowserStep
<1>2. /\ \A i \in DOMAIN commands : commands[i].browser \in Browsers
      /\ \A a \in DOMAIN approvals : approvals[a].browser \in Browsers
  BY DEF TypeOK, Command, Approval
<1>3. \A c \in Browsers \ {b} : session'[c] = session[c]
  BY <1>1 DEF Register, SocketClosing, Disconnect, TypeOK
<1>4. CASE SocketClosing(b)
  <2>1. session'[b].gen = session[b].gen /\ session'[b].state = "closing"
    BY <1>4 DEF SocketClosing, TypeOK, Session
  <2>2. UNCHANGED <<commands, approvals>> /\ session[b].state = "open"
    BY <1>4 DEF SocketClosing
  <2>3. QED BY <1>2, <1>3, <2>1, <2>2 DEF FollowSession
<1>5. CASE ~SocketClosing(b)
  <2>1. \/ ReleaseBrowser(b)
        \/ session[b].state = "none" /\ UNCHANGED <<commands, approvals>>
    BY <1>1, <1>5 DEF Register, Disconnect
  <2>2. /\ SubMap(commands', commands) /\ SubMap(approvals', approvals)
        /\ \A i \in DOMAIN commands' : commands[i].browser # b
        /\ \A a \in DOMAIN approvals' : approvals[a].browser # b
    <3>1. SubMap(commands, commands) /\ SubMap(approvals, approvals)
      BY SubMapSelf DEF TypeOK
    <3>2. CASE ReleaseBrowser(b)
      <4>1. /\ SubMap(commands', commands) /\ DOMAIN commands' = DOMAIN commands \ CommandsOf(b)
            /\ SubMap(approvals', approvals)
            /\ DOMAIN approvals' = DOMAIN approvals \ ApprovalsOf(b)
        BY <3>1, <3>2, DropSubMap DEF ReleaseBrowser
      <4>2. QED BY <4>1 DEF CommandsOf, ApprovalsOf
    <3>3. CASE session[b].state = "none" /\ UNCHANGED <<commands, approvals>>
      BY <3>1, <3>3 DEF FollowSession
    <3>4. QED BY <2>1, <3>2, <3>3
  <2>3. QED BY <1>2, <1>3, <2>2 DEF FollowSession, SubMap
<1>6. QED BY <1>4, <1>5

\* Every step keeps the pools with the sessions.
LEMMA StepFollows ==
  ASSUME TypeOK, FollowSession, [Next]_vars
  PROVE  FollowSession'
<1>1. CASE BrowserStep
  BY <1>1, BrowserFollows
<1>2. CASE Stop \/ Crash
  <2>1. commands' = Drop(commands, DOMAIN commands) /\ approvals' = Drop(approvals, DOMAIN approvals)
    BY <1>2 DEF Stop, Crash
  <2>2. DOMAIN commands' = {} /\ DOMAIN approvals' = {}
    BY <2>1 DEF Drop, Restrict
  <2>3. QED BY <2>2 DEF FollowSession
<1>3. CASE session' = session
  BY <1>3, PoolsStep, SteadyFollows
<1>4. CASE ClientStep
  BY <1>3, <1>4 DEF ClientStep, SubmitUnroutable, Submit, SubmitAttach,
     AttachReadFails, AttachReadDone, ClientGone
<1>5. CASE ResultStep
  <2>1. PICK id \in DOMAIN commands, fp \in Fingerprints \cup {NoFingerprint} :
          \/ ResultFinal(id)
          \/ ResultRejected(id, fp)
          \/ ResultSpendsGrant(id, fp)
          \/ ResultAlreadyAsked(id, fp)
          \/ \E category : \/ ResultPolicyGrant(id, fp, category)
                           \/ \E bound : ResultNotAskable(id, fp, category, bound)
                           \/ ResultAsks(id, fp, category)
    BY <1>5 DEF ResultStep
  <2>2. session' = session
    BY <2>1 DEF ResultFinal, ResultRejected, ResultSpendsGrant, ResultAlreadyAsked,
       ResultPolicyGrant, ResultNotAskable, ResultAsks
  <2>3. QED BY <1>3, <2>2
<1>6. CASE \E id \in DOMAIN commands : Timeout(id) \/ SendFails(id)
  BY <1>3, <1>6 DEF Timeout, SendFails, Abandon
<1>7. CASE ApprovalStep
  BY <1>3, <1>7 DEF ApprovalStep, Decide, Elapse, ExpireApproval
<1>8. CASE UNCHANGED vars
  BY <1>3, <1>8 DEF vars
<1>9. QED BY <1>1, <1>2, <1>4, <1>5, <1>6, <1>7, <1>8 DEF Next
-----------------------------------------------------------------------------
(* The invariant, and what it says. *)

ConsInv == (\A r \in Requests : Served(r)) /\ FollowSession /\ WithinLimits

\* At the start nothing is pending.
LEMMA ConsInit == Init => ConsInv
<1> SUFFICES ASSUME Init PROVE ConsInv
  OBVIOUS
<1>1. DOMAIN commands = {} /\ DOMAIN approvals = {} /\ delivered = {}
  BY DEF Init
<1>2. \A r \in Requests : /\ request[r].phase = "idle" /\ request[r].replies = 0
                         /\ WorkOf(r) = {} /\ SentTo(r) = {}
  BY DEF Init, Idle, WorkOf, SentTo
<1>3. \A r \in Requests : Owned(r)
  BY <1>2 DEF Owned
<1>4. \A r \in Requests : Replayed(r)
  <2>1. /\ Cardinality(By({}, "policy")) = 0 /\ Cardinality(By({}, "session")) = 0
        /\ IsFiniteSet({}) /\ MaxPolicyApprovals \in Nat
    BY NoneSent, BoundsAssumption
  <2>2. QED BY <1>2, <2>1 DEF Replayed
<1>5. WithinLimits
  <2>1. Cardinality({}) = 0 /\ MaxPendingCommands \in Nat /\ MaxPendingApprovals \in Nat
    BY FS_EmptySet, BoundsAssumption
  <2>2. QED BY <1>1, <2>1 DEF WithinLimits
<1>6. QED BY <1>1, <1>3, <1>4, <1>5 DEF ConsInv, Served, FollowSession

\* Every step keeps it.
LEMMA ConsStep == TypeOK /\ ConsInv /\ [Next]_vars => ConsInv'
<1> SUFFICES ASSUME TypeOK, ConsInv, [Next]_vars PROVE ConsInv'
  OBVIOUS
<1>1. \A r \in Requests : Owned(r) /\ Replayed(r)
  BY DEF ConsInv, Served
<1>2. \A r \in Requests : Course(r)
  BY <1>1, StepCourses
<1>3. \A r \in Requests : Owned(r)' /\ Replayed(r)'
  BY <1>1, <1>2, CourseOwned, CourseReplayed
<1>4. FollowSession'
  BY StepFollows DEF ConsInv
<1>5. WithinLimits'
  BY PoolsStep, LimitsKept DEF ConsInv
<1>6. QED BY <1>3, <1>4, <1>5 DEF ConsInv, Served

\* What the invariant says of all requests is Consistent.
LEMMA ConsImplies == TypeOK /\ ConsInv => Consistent
<1> SUFFICES ASSUME TypeOK, ConsInv PROVE Consistent
  OBVIOUS
<1>1. OneOwner
  <2> SUFFICES ASSUME NEW r \in Requests
               PROVE  /\ request[r].phase = "pending" <=>
                            \E i \in DOMAIN commands : commands[i].client = r
                      /\ \A i, j \in DOMAIN commands :
                            commands[i].client = r /\ commands[j].client = r => i = j
                      /\ request[r].replies =
                            IF request[r].phase = "done" /\ ~request[r].gone THEN 1 ELSE 0
    BY DEF OneOwner
  <2>1. Owned(r) /\ \A i \in DOMAIN commands : i \in WorkOf(r) <=> commands[i].client = r
    BY DEF ConsInv, Served, WorkOf
  <2>2. WorkOf(r) # {} <=> \E i \in DOMAIN commands : commands[i].client = r
    BY DEF WorkOf
  <2>3. QED BY <2>1, <2>2 DEF Owned
<1>2. BoundedReplay
  <2> SUFFICES ASSUME NEW r \in Requests
               PROVE  /\ Cardinality({d \in delivered : d.client = r /\ d.source = "session"}) <= 1
                      /\ Cardinality({d \in delivered : d.client = r /\ d.source = "policy"})
                            <= MaxPolicyApprovals
    BY DEF BoundedReplay
  <2>1. /\ {d \in delivered : d.client = r /\ d.source = "session"} = By(SentTo(r), "session")
        /\ {d \in delivered : d.client = r /\ d.source = "policy"} = By(SentTo(r), "policy")
    BY DEF By, SentTo
  <2>2. QED BY <2>1 DEF ConsInv, Served, Replayed
<1>3. QED BY <1>1, <1>2 DEF ConsInv, Consistent

\* The tables of the broker agree with each other for ever: one command works for
\* a waiting request and one answer ends it, nothing outlives its session, the
\* pools keep their limits, and re-routing is bounded (#routeCommand,
\* #finishCommand, #failCommandsForBrowser, #clearApprovalsForBrowser).
THEOREM BrokerIsConsistent == Spec => []Consistent
<1>1. Spec => []ConsInv
  BY ConsInit, ConsStep, TypeCorrect, PTL DEF Spec
<1>2. QED BY <1>1, ConsImplies, TypeCorrect, PTL
=============================================================================
