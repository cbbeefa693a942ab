--------------------------- MODULE McpCallsProofs ---------------------------
(***************************************************************************)
(* What the agent is told of its tool calls, and the authority of the      *)
(* sensitive actions that ran: Confirmed and Truthful of McpCalls.         *)
(***************************************************************************)
EXTENDS McpCalls, WellFoundedInduction, TLAPS
-----------------------------------------------------------------------------
(* The inductive invariant, part by part. *)

Answers == {None, "ok", "failed", "approval_required"}

Connection == [stage : Stages, owner : Calls \cup {None}, client : BOOLEAN,
               request : Requests \cup {None}, id : Ids \cup {None},
               decision : Decisions, answer : Answers]
Call == [at : Places, conn : Conns \cup {None}, id : Ids \cup {None},
         decision : Decisions, outcome : Outcomes, acted : BOOLEAN]
Command == [kind : Kinds, id : Ids \cup {None}, pending : BOOLEAN]

\* Every variable has its type, all fields included.
Typed ==
    /\ TypeOK
    /\ conn \in [Conns -> Connection] /\ cmd \in [Conns -> Command]
    /\ past \in [yes : SUBSET (Ids \cup {None}), ran : [Ids -> Nat]]

\* A call and the connection it waits on know each other, and agree on what is
\* asked; it has no outcome yet.
Owned ==
    /\ \A c \in Calls :
          /\ call[c].at # "idle" => call[c].outcome = None
          /\ call[c].conn # None =>
                /\ conn[call[c].conn].client /\ conn[call[c].conn].owner = c
                /\ call[c].at \in Requests
    /\ \A k \in Conns : conn[k].client =>
          /\ conn[k].owner \in Calls /\ call[conn[k].owner].conn = k
          /\ conn[k].stage # "free" /\ conn[k].request = call[conn[k].owner].at
          /\ conn[k].request = "submit" =>
                /\ conn[k].id = call[conn[k].owner].id
                /\ conn[k].decision = call[conn[k].owner].decision

Late == {"accepted", "answer", "ended"}

\* A command is on its way only for a request that was read to be routed, and an
\* approval is asked for only when the command is over.
Routed ==
    \A k \in Conns :
        /\ cmd[k].pending => cmd[k].kind # "none"
        /\ cmd[k].kind # "none" =>
              /\ conn[k].stage \in Late \cup {"free"}
              /\ conn[k].stage = "answer" => conn[k].answer # "approval_required"
              /\ conn[k].client => conn[k].request \in {"read", "first", "retry"}
        /\ cmd[k].kind \in {"probe", "recheck", "reported", "run"} /\ conn[k].client =>
              conn[k].request \in {"first", "retry"}

\* A call whose action ran is past the question, and not about to be asked it.
Acted ==
    \A c \in Calls : call[c].acted =>
        /\ call[c].conn # None /\ call[c].at \in {"first", "retry"}
        /\ conn[call[c].conn].stage \in Late
        /\ conn[call[c].conn].stage = "answer" =>
              conn[call[c].conn].answer # "approval_required"
        /\ cmd[call[c].conn].kind \in {"none", "done", "run", "lost"}

\* An approval is confirmed, spent on one command, and run, in this order and
\* only after a human said yes.
Spent ==
    /\ \A i \in Ids :
          /\ past.ran[i] <= IF i \in past.yes THEN 1 ELSE 0
          /\ grant[i] = "approved" => i \in past.yes
          /\ grant[i] # "gone" => past.ran[i] = 0
    /\ \A k \in Conns : cmd[k].kind = "run" =>
          /\ cmd[k].id \in Ids /\ cmd[k].id \in past.yes
          /\ past.ran[cmd[k].id] = 0 /\ grant[cmd[k].id] = "gone"
          /\ \A j \in Conns : cmd[j].kind = "run" /\ cmd[j].id = cmd[k].id => j = k

\* The decision to approve that is on its way was the human's.
Meant ==
    /\ \A c \in Calls :
          call[c].at = "submit" /\ call[c].decision = "approve" => call[c].id \in past.yes
    /\ \A k \in Conns :
          /\ conn[k].stage \in {"connecting", "hello", "challenge", "request"}
          /\ conn[k].request = "submit" /\ conn[k].decision = "approve"
          => conn[k].id \in past.yes

\* An approval that never ran and never will.
Dead(i) ==
    /\ i \in Ids /\ grant[i] = "gone" /\ past.ran[i] = 0
    /\ \A k \in Conns : cmd[k].kind = "run" => cmd[k].id # i

\* What was refused is dead, from the daemon's answer on.
Refused ==
    /\ \A c \in Calls : call[c].outcome = "rejected" => Dead(call[c].id)
    /\ \A k \in Conns :
          /\ conn[k].client /\ conn[k].stage = "answer"
          /\ conn[k].answer \notin {"failed", "approval_required"}
          /\ conn[k].request = "submit" /\ conn[k].decision # "approve"
          => Dead(conn[k].id)

CallsInv == Typed /\ Owned /\ Routed /\ Acted /\ Spent /\ Meant /\ Refused
-----------------------------------------------------------------------------
\* The missing value is none of the names that stand for something.
LEMMA NoneIsNoName ==
  /\ None \notin Conns /\ None \notin Ids /\ None \notin Calls
  /\ None \notin Requests /\ None \notin NotExecuted
  /\ None \notin {"ok", "failed", "approval_required", "result", "error"}
  BY ConstantsAssumption, NamesAssumption
-----------------------------------------------------------------------------
(* Steps of a connection that leave commands, approvals and calls alone. *)

\* A connection that is not late has no command.
LEMMA NotLate ==
  ASSUME Typed, Routed, NEW k \in Conns, conn[k].stage \notin Late \cup {"free"}
  PROVE  cmd[k].kind = "none" /\ ~cmd[k].pending
  BY DEF Routed, Typed, Command

\* A connection goes on towards its request, or is ended on the way there.
LEMMA GoesOn ==
  ASSUME CallsInv, NEW k \in Conns,
         conn[k].stage \in {"connecting", "hello", "challenge", "request"},
         NEW st \in {"hello", "challenge", "request", "ended"},
         conn' = [conn EXCEPT ![k].stage = st],
         daemon' = daemon, UNCHANGED <<call, cmd, grant, past>>
  PROVE  CallsInv'
<1>1. Typed /\ Owned /\ Routed /\ Acted /\ Spent /\ Meant /\ Refused
  BY DEF CallsInv
<1>2. conn[k] \in Connection
  BY <1>1 DEF Typed
<1>3. /\ conn'[k].stage = st /\ conn'[k].owner = conn[k].owner
      /\ conn'[k].client = conn[k].client /\ conn'[k].request = conn[k].request
      /\ conn'[k].id = conn[k].id /\ conn'[k].decision = conn[k].decision
      /\ conn'[k].answer = conn[k].answer
      /\ \A j \in Conns : j # k => conn'[j] = conn[j]
  BY <1>1, <1>2 DEF Typed, Connection
<1>4. cmd[k].kind = "none" /\ ~cmd[k].pending
  BY <1>1, NotLate DEF Late
<1>5. Typed'
  BY <1>1, <1>2, <1>3 DEF Typed, TypeOK, Connection, Stages
<1>6. Owned'
  BY <1>1, <1>3 DEF Owned
<1>7. Routed'
  BY <1>1, <1>3, <1>4 DEF Routed
<1>8. Acted'
  BY <1>1, <1>3 DEF Acted, Late
<1>9. Spent'
  BY <1>1 DEF Spent
<1>10. Meant'
  BY <1>1, <1>3 DEF Meant
<1>11. Refused'
  BY <1>1, <1>3 DEF Refused, Dead
<1>12. QED BY <1>5, <1>6, <1>7, <1>8, <1>9, <1>10, <1>11 DEF CallsInv
-----------------------------------------------------------------------------
(* A call goes on without its connection. *)

\* What a call may become when its request is over: nothing that ran is denied,
\* and what is reported as refused is dead.
Sound(next) ==
    /\ next \in Call /\ next.conn = None /\ ~next.acted /\ next.at # "submit"
    /\ next.at # "idle" => next.outcome = None
    /\ next.outcome = "rejected" => Dead(next.id)

\* finish() keeps the invariant, whatever the call becomes that is sound.
LEMMA FinishKeeps ==
  ASSUME CallsInv, NEW k \in Conns, conn[k].client, NEW next, Sound(next),
         Finishes(k, next), daemon' \in {"up", "frozen", "down"},
         UNCHANGED <<cmd, grant, past>>
  PROVE  CallsInv'
<1>1. Typed /\ Owned /\ Routed /\ Acted /\ Spent /\ Meant /\ Refused
  BY DEF CallsInv
<1>2. conn[k] \in Connection /\ None \notin Conns /\ None # "approval_required"
  BY <1>1, NoneIsNoName DEF Typed
<1>3. PICK c \in Calls : c = conn[k].owner
  BY <1>1 DEF Owned
<1>4. call[c].conn = k /\ \A d \in Calls : d # c => call[d].conn # k
  BY <1>1, <1>2, <1>3 DEF Owned
<1>5. /\ call'[c] = next
      /\ \A d \in Calls : d # c => call'[d] = call[d]
  BY <1>1, <1>3 DEF Finishes, Typed, TypeOK
<1>6. /\ conn'[k].stage = conn[k].stage /\ ~conn'[k].client
      /\ \/ conn'[k].owner = conn[k].owner /\ conn'[k].request = conn[k].request
            /\ conn'[k].id = conn[k].id /\ conn'[k].decision = conn[k].decision
            /\ conn'[k].answer = conn[k].answer
         \/ conn[k].stage \in {"answer", "ended"} /\ conn'[k].answer = None
      /\ conn'[k] \in Connection
      /\ \A j \in Conns : j # k => conn'[j] = conn[j]
  <2>1. CASE conn[k].stage \in {"answer", "ended"}
    <3>1. conn' = [conn EXCEPT ![k] = [Free EXCEPT !.stage = conn[k].stage]]
      BY <2>1 DEF Finishes
    <3>2. QED BY <1>1, <1>2, <2>1, <3>1 DEF Typed, Free, Connection, Stages, Decisions, Answers
  <2>2. CASE conn[k].stage \notin {"answer", "ended"}
    <3>1. conn' = [conn EXCEPT ![k] = [conn[k] EXCEPT !.client = FALSE]]
      BY <2>2 DEF Finishes
    <3>2. QED BY <1>1, <1>2, <2>2, <3>1 DEF Typed, Connection
  <2>3. QED BY <2>1, <2>2
<1>7. Typed'
  <2>1. conn' \in [Conns -> Connection]
    BY <1>1, <1>6 DEF Finishes, Typed
  <2>2. call' \in [Calls -> Call]
    BY <1>1, <1>3, <1>5 DEF Finishes, Typed, TypeOK, Sound, Call
  <2>3. QED BY <1>1, <2>1, <2>2 DEF Typed, TypeOK, Connection, Call
<1>8. Owned'
  <2>1. ASSUME NEW d \in Calls
        PROVE  /\ call'[d].at # "idle" => call'[d].outcome = None
               /\ call'[d].conn # None =>
                     /\ conn'[call'[d].conn].client /\ conn'[call'[d].conn].owner = d
                     /\ call'[d].at \in Requests
    <3>1. CASE d = c
      BY <1>5, <3>1 DEF Sound
    <3>2. CASE d # c
      <4>1. call'[d] = call[d] /\ call[d].conn # k /\ call[d].conn \in Conns \cup {None}
        BY <1>1, <1>4, <1>5, <3>2 DEF Typed, TypeOK
      <4>2. QED BY <1>1, <1>6, <4>1 DEF Owned
    <3>3. QED BY <3>1, <3>2
  <2>2. ASSUME NEW j \in Conns, conn'[j].client
        PROVE  /\ conn'[j].owner \in Calls /\ call'[conn'[j].owner].conn = j
               /\ conn'[j].stage # "free" /\ conn'[j].request = call'[conn'[j].owner].at
               /\ conn'[j].request = "submit" =>
                     /\ conn'[j].id = call'[conn'[j].owner].id
                     /\ conn'[j].decision = call'[conn'[j].owner].decision
    <3>1. j # k /\ conn'[j] = conn[j]
      BY <1>6, <2>2
    <3>2. conn[j].owner \in Calls /\ conn[j].owner # c
      BY <1>1, <1>4, <2>2, <3>1 DEF Owned
    <3>3. QED BY <1>1, <1>5, <2>2, <3>1, <3>2 DEF Owned
  <2>3. QED BY <2>1, <2>2 DEF Owned
<1>9. Routed'
  BY <1>1, <1>2, <1>6 DEF Routed
<1>10. Acted'
  <2> SUFFICES ASSUME NEW d \in Calls, call'[d].acted
               PROVE  /\ call'[d].conn # None /\ call'[d].at \in {"first", "retry"}
                      /\ conn'[call'[d].conn].stage \in Late
                      /\ conn'[call'[d].conn].stage = "answer" =>
                            conn'[call'[d].conn].answer # "approval_required"
                      /\ cmd[call'[d].conn].kind \in {"none", "done", "run", "lost"}
    BY DEF Acted
  <2>1. d # c /\ call'[d] = call[d]
    BY <1>5 DEF Sound
  <2>2. call[d].conn \in Conns \ {k}
    BY <1>1, <1>4, <2>1 DEF Acted, Typed, TypeOK
  <2>3. QED BY <1>1, <1>6, <2>1, <2>2 DEF Acted
<1>11. Spent'
  BY <1>1 DEF Spent
<1>12. Meant'
  BY <1>1, <1>4, <1>5, <1>6 DEF Meant, Sound
<1>13. Refused'
  BY <1>1, <1>4, <1>5, <1>6 DEF Refused, Dead, Sound
<1>14. QED BY <1>7, <1>8, <1>9, <1>10, <1>11, <1>12, <1>13 DEF CallsInv

\* A failed request is reported for what it is.
LEMMA FailedSound ==
  ASSUME CallsInv, NEW c \in Calls
  PROVE  Sound(Failed(c))
<1>1. call[c] \in Call
  BY DEF CallsInv, Typed, TypeOK, Call
<1>2. call[c].at \notin {"read", "first", "retry"} => ~call[c].acted
  BY DEF CallsInv, Acted
<1>3. CASE call[c].at \in {"read", "first", "retry"}
  <2>1. Failed(c) = Returns(c, "error")
    BY <1>3 DEF Failed
  <2>2. QED BY <2>1 DEF Sound, Returns, Idle, Call, Outcomes, NotExecuted, Places, Decisions
<1>4. CASE call[c].at \notin {"read", "first", "retry"}
  <2>1. Failed(c) = Returns(c, "uncollected")
    BY <1>4 DEF Failed
  <2>2. QED BY <1>1, <1>2, <1>4, <2>1 DEF Sound, Returns, Idle, Call, Outcomes, NotExecuted,
               Places, Decisions
<1>5. QED BY <1>3, <1>4

\* So is an answer: the question is asked for an action that did not run, and a
\* refusal is reported once the daemon has taken it.
LEMMA AnsweredSound ==
  ASSUME CallsInv, NEW k \in Conns, conn[k].client, conn[k].stage = "answer",
         conn[k].answer # "failed"
  PROVE  Sound(Answered(conn[k].owner, conn[k].answer, conn[k].id))
<1>1. Typed /\ Owned /\ Acted /\ Refused
  BY DEF CallsInv
<1>2. PICK c \in Calls : c = conn[k].owner
  BY <1>1 DEF Owned
<1>3. /\ call[c].conn = k /\ call[c].at = conn[k].request /\ call[c].outcome = None
      /\ call[c].at = "submit" => conn[k].id = call[c].id /\ conn[k].decision = call[c].decision
  BY <1>1, <1>2, NoneIsNoName DEF Owned, Requests
<1>4. /\ call[c] \in Call /\ conn[k].id \in Ids \cup {None}
      /\ conn[k].answer \in {None, "ok", "approval_required"}
  BY <1>1 DEF Typed, TypeOK, Call, Connection, Answers
<1> PICK answer, id : answer = conn[k].answer /\ id = conn[k].id
  OBVIOUS
<1>5. SUFFICES Sound(Answered(c, answer, id))
  BY <1>2, Zenon
<1>6. ASSUME NEW outcome \in Outcomes \ NotExecuted
      PROVE  Sound(Returns(c, outcome))
  BY <1>6 DEF Sound, Returns, Idle, Call, NotExecuted, Places, Decisions
<1>7. ASSUME ~call[c].acted, NEW at \in Places \ {"submit", "idle"}
      PROVE  /\ Sound(Goes(c, at))
             /\ Sound([Goes(c, at) EXCEPT !.id = id])
             /\ Sound([Goes(c, at) EXCEPT !.id = None, !.decision = "reject"])
  BY <1>3, <1>4, <1>7, NoneIsNoName DEF Sound, Goes, Call, NotExecuted, Decisions
<1>8. CASE answer = "approval_required" /\ call[c].at = "first" /\ c \in Mute
  <2>1. ~call[c].acted
    BY <1>1, <1>3, <1>8 DEF Acted
  <2>2. Answered(c, answer, id) = Returns(c, "unavailable")
    BY <1>8 DEF Answered
  <2>3. QED BY <1>4, <2>1, <2>2 DEF Sound, Returns, Idle, Call, Outcomes,
               NotExecuted, Places, Decisions
<1>9. CASE answer = "approval_required" /\ call[c].at = "first" /\ c \notin Mute
  <2>1. ~call[c].acted
    BY <1>1, <1>3, <1>9 DEF Acted
  <2>2. Answered(c, answer, id) = [Goes(c, "begin") EXCEPT !.id = id]
    BY <1>9 DEF Answered
  <2>3. Sound([Goes(c, "begin") EXCEPT !.id = id])
    BY <1>7, <2>1 DEF Places, Requests
  <2>4. QED BY <2>2, <2>3, Zenon
<1>10. CASE answer = "approval_required" /\ call[c].at # "first"
  <2>1. Answered(c, answer, id) = Returns(c, "approval_required")
    BY <1>10 DEF Answered
  <2>2. QED BY <1>6, <2>1 DEF Outcomes, NotExecuted
<1>11. CASE answer # "approval_required" /\ call[c].at = "begin"
  <2>1. Answered(c, answer, id) = Goes(c, "ask")
    BY <1>11 DEF Answered
  <2>2. ~call[c].acted
    BY <1>1, <1>11 DEF Acted
  <2>3. QED BY <1>7, <2>1, <2>2 DEF Places
<1>12. CASE answer # "approval_required" /\ call[c].at = "submit"
  <2>1. ~call[c].acted
    BY <1>1, <1>12 DEF Acted
  <2>2. CASE call[c].decision = "approve"
    <3>1. Answered(c, answer, id) = [Goes(c, "retry") EXCEPT !.id = None, !.decision = "reject"]
      BY <1>12, <2>2 DEF Answered
    <3>2. QED BY <1>7, <2>1, <3>1 DEF Places, Requests
  <2>3. CASE call[c].decision # "approve"
    <3>1. Answered(c, answer, id) = Returns(c, "rejected")
      BY <1>12, <2>3 DEF Answered
    <3>2. Dead(call[c].id)
      BY <1>1, <1>3, <1>4, <1>12, <2>3 DEF Refused
    <3>3. QED BY <1>4, <2>1, <3>1, <3>2 DEF Sound, Returns, Idle, Call, Outcomes,
                 NotExecuted, Places, Decisions
  <2>4. QED BY <2>2, <2>3
<1>13. CASE answer # "approval_required" /\ call[c].at \notin {"begin", "submit"}
  <2>1. Answered(c, answer, id) = Returns(c, "result")
    BY <1>13 DEF Answered
  <2>2. QED BY <1>6, <2>1 DEF Outcomes, NotExecuted
<1>14. QED BY <1>8, <1>9, <1>10, <1>11, <1>12, <1>13
-----------------------------------------------------------------------------
(* The other steps of the MCP server. *)

\* An idle call, or one that waits for the human, has no connection.
LEMMA NoConnection ==
  ASSUME CallsInv, NEW c \in Calls, call[c].at \notin Requests
  PROVE  /\ call[c].conn = None /\ ~call[c].acted /\ call[c] \in Call
         /\ \A k \in Conns : ~(conn[k].client /\ conn[k].owner = c)
  BY NoneIsNoName DEF CallsInv, Owned, Acted, Typed, TypeOK, Call

\* A call without a connection becomes something sound.
LEMMA CallMoves ==
  ASSUME CallsInv, NEW c \in Calls, call[c].at \notin Requests, NEW next,
         next \in Call, next.conn = None, ~next.acted,
         next.at # "idle" => next.outcome = None,
         next.outcome = "rejected" => Dead(next.id),
         next.at = "submit" /\ next.decision = "approve" => next.id \in past'.yes,
         call' = [call EXCEPT ![c] = next],
         past'.ran = past.ran, past.yes \subseteq past'.yes,
         past' \in [yes : SUBSET (Ids \cup {None}), ran : [Ids -> Nat]],
         UNCHANGED <<conn, cmd, grant, daemon>>
  PROVE  CallsInv'
<1>1. Typed /\ Owned /\ Routed /\ Acted /\ Spent /\ Meant /\ Refused
  BY DEF CallsInv
<1>2. call'[c] = next /\ \A d \in Calls : d # c => call'[d] = call[d]
  BY <1>1 DEF Typed, TypeOK
<1>3. \A k \in Conns : conn[k].client => conn[k].owner # c
  BY NoConnection
<1>4. Typed'
  <2>1. call' \in [Calls -> Call]
    BY <1>1 DEF Typed, TypeOK, Call
  <2>2. QED BY <1>1, <2>1 DEF Typed, TypeOK, Call
<1>5. Owned'
  BY <1>1, <1>2, <1>3 DEF Owned
<1>6. Routed'
  BY <1>1 DEF Routed
<1>7. Acted'
  BY <1>1, <1>2 DEF Acted
<1>8. Spent'
  <2>1. \A i \in Ids : past'.ran[i] <= IF i \in past'.yes THEN 1 ELSE 0
    BY <1>1 DEF Spent, Typed
  <2>2. QED BY <1>1, <2>1 DEF Spent
<1>9. Meant'
  BY <1>1, <1>2 DEF Meant
<1>10. Refused'
  BY <1>1, <1>2 DEF Refused, Dead
<1>11. QED BY <1>4, <1>5, <1>6, <1>7, <1>8, <1>9, <1>10 DEF CallsInv

\* A call is made.
LEMMA CalledKeeps ==
  ASSUME CallsInv, NEW c \in Calls, ToolCalled(c) \/ ReadCalled(c)
  PROVE  CallsInv'
<1>1. PICK at \in {"first", "read"} :
        call' = [call EXCEPT ![c] = [Idle EXCEPT !.at = at]]
  BY DEF ToolCalled, ReadCalled
<1> PICK next : next = [Idle EXCEPT !.at = at]
  OBVIOUS
<1>2. /\ next \in Call /\ next.conn = None /\ ~next.acted /\ next.outcome = None
      /\ next.at \in {"first", "read"}
  BY <1>1 DEF Idle, Call, Places, Requests, Outcomes, Decisions
<1>3. call' = [call EXCEPT ![c] = next] /\ call[c].at = "idle"
  BY <1>1 DEF ToolCalled, ReadCalled
<1>4. UNCHANGED <<conn, cmd, grant, daemon, past>>
  BY DEF ToolCalled, ReadCalled
<1>5. past \in [yes : SUBSET (Ids \cup {None}), ran : [Ids -> Nat]]
  BY DEF CallsInv, Typed
<1>6. "idle" \notin Requests /\ next.outcome # "rejected" /\ next.at # "submit"
  BY <1>2, NoneIsNoName DEF Requests, NotExecuted
<1>7. QED BY <1>2, <1>3, <1>4, <1>5, <1>6, CallMoves

\* The human answers, or the question fails.
LEMMA AskedKeeps ==
  ASSUME CallsInv, NEW c \in Calls, NEW action, NEW choice,
         Elicited(c, action, choice) \/ ElicitationFails(c)
  PROVE  CallsInv'
<1>1. /\ call[c].at = "ask" /\ "ask" \notin Requests /\ call[c] \in Call
      /\ UNCHANGED <<conn, cmd, grant, daemon>>
  BY NoConnection DEF Elicited, ElicitationFails, Requests
<1>2. past \in [yes : SUBSET (Ids \cup {None}), ran : [Ids -> Nat]]
  BY DEF CallsInv, Typed
<1>3. CASE ElicitationFails(c)
  <2> PICK next : next = Failed(c)
    OBVIOUS
  <2>1. Sound(next) /\ call' = [call EXCEPT ![c] = next] /\ past' = past
    BY <1>3, FailedSound DEF ElicitationFails
  <2>2. QED BY <1>1, <1>2, <2>1, CallMoves DEF Sound
<1>4. CASE Elicited(c, action, choice)
  <2> PICK next : next = [Goes(c, "submit") EXCEPT !.decision = Decision(action, choice)]
    OBVIOUS
  <2>1. call' = [call EXCEPT ![c] = next]
    BY <1>4 DEF Elicited
  <2>2. /\ past'.ran = past.ran /\ past.yes \subseteq past'.yes
        /\ past' \in [yes : SUBSET (Ids \cup {None}), ran : [Ids -> Nat]]
        /\ Decision(action, choice) = "approve" => call[c].id \in past'.yes
    <3>1. CASE action = "accept" /\ choice = "approve"
      <4>1. past' = [past EXCEPT !.yes = @ \cup {call[c].id}]
        BY <1>4, <3>1 DEF Elicited
      <4>2. QED BY <1>1, <1>2, <4>1 DEF Call
    <3>2. CASE ~(action = "accept" /\ choice = "approve")
      <4>1. past' = past
        BY <1>4, <3>2 DEF Elicited
      <4>2. QED BY <1>2, <3>2, <4>1 DEF Decision
    <3>3. QED BY <3>1, <3>2
  <2>3. /\ next \in Call /\ next.conn = None /\ next.at = "submit"
        /\ next.acted = call[c].acted /\ next.outcome = call[c].outcome
        /\ next.id = call[c].id /\ next.decision = Decision(action, choice)
    BY <1>1 DEF Goes, Call, Decision, Decisions, Places, Requests
  <2>4. call[c].outcome = None /\ ~call[c].acted
    BY <1>1, NoConnection DEF CallsInv, Owned
  <2>5. next.outcome # "rejected"
    BY <2>3, <2>4, NoneIsNoName DEF NotExecuted
  <2>6. QED BY <1>1, <2>1, <2>2, <2>3, <2>4, <2>5, CallMoves
<1>5. QED BY <1>3, <1>4

\* A connection is opened for a request.
LEMMA ConnectsKeeps ==
  ASSUME CallsInv, NEW c \in Calls, Connects(c)
  PROVE  CallsInv'
<1>1. Typed /\ Owned /\ Routed /\ Acted /\ Spent /\ Meant /\ Refused
  BY DEF CallsInv
<1>2. PICK k \in Conns :
        /\ conn[k] = Free /\ cmd[k] = NoCommand
        /\ conn' = [conn EXCEPT ![k] =
             [Free EXCEPT !.stage = "connecting", !.owner = c, !.client = TRUE,
                          !.request = call[c].at, !.id = call[c].id,
                          !.decision = call[c].decision]]
        /\ call' = [call EXCEPT ![c].conn = k]
  <2> PICK unused : unused = {k \in Conns : conn[k] = Free /\ cmd[k] = NoCommand}
    OBVIOUS
  <2> PICK k : k = CHOOSE j \in unused : TRUE
    OBVIOUS
  <2>1. unused # {}
    BY DEF Connects
  <2>2. k \in unused
    BY <2>1
  <2>3. QED BY <2>2 DEF Connects
<1>3. call[c].at \in Requests /\ call[c].conn = None /\ call[c] \in Call /\ ~call[c].acted
  BY <1>1 DEF Connects, Typed, TypeOK, Call, Acted
<1>4. /\ call'[c].conn = k /\ call'[c].at = call[c].at /\ call'[c].id = call[c].id
      /\ call'[c].decision = call[c].decision /\ call'[c].outcome = call[c].outcome
      /\ call'[c].acted = call[c].acted
      /\ \A d \in Calls : d # c => call'[d] = call[d]
  BY <1>1, <1>2, <1>3 DEF Typed, TypeOK, Call
<1>5. /\ conn'[k].stage = "connecting" /\ conn'[k].owner = c /\ conn'[k].client
      /\ conn'[k].request = call[c].at /\ conn'[k].id = call[c].id
      /\ conn'[k].decision = call[c].decision /\ conn'[k].answer = None
      /\ \A j \in Conns : j # k => conn'[j] = conn[j]
  BY <1>1, <1>2 DEF Typed, Free
<1>6. ~conn[k].client /\ cmd[k].kind = "none" /\ ~cmd[k].pending
  BY <1>2 DEF Free, NoCommand
<1>7. UNCHANGED <<cmd, grant, daemon, past>>
  BY DEF Connects
<1>8. \A d \in Calls : call[d].conn # k
  BY <1>1, <1>6, NoneIsNoName DEF Owned
<1>9. Typed'
  <2>1. call' \in [Calls -> Call]
    BY <1>1, <1>2, <1>3 DEF Typed, TypeOK, Call
  <2>2. [Free EXCEPT !.stage = "connecting", !.owner = c, !.client = TRUE,
                     !.request = call[c].at, !.id = call[c].id,
                     !.decision = call[c].decision] \in Connection
    BY <1>3 DEF Free, Connection, Stages, Call, Answers
  <2>3. conn' \in [Conns -> Connection]
    BY <1>1, <1>2, <2>2 DEF Typed
  <2>4. QED BY <1>1, <1>7, <2>1, <2>3 DEF Typed, TypeOK, Call, Connection
<1>10. Owned'
  <2>1. ASSUME NEW d \in Calls
        PROVE  /\ call'[d].at # "idle" => call'[d].outcome = None
               /\ call'[d].conn # None =>
                     /\ conn'[call'[d].conn].client /\ conn'[call'[d].conn].owner = d
                     /\ call'[d].at \in Requests
    <3>1. CASE d = c
      BY <1>1, <1>3, <1>4, <1>5, <3>1 DEF Owned
    <3>2. CASE d # c
      <4>1. call'[d] = call[d] /\ call[d].conn \in Conns \cup {None}
        BY <1>1, <1>4, <3>2 DEF Typed, TypeOK
      <4>2. QED BY <1>1, <1>5, <1>8, <4>1 DEF Owned
    <3>3. QED BY <3>1, <3>2
  <2>2. ASSUME NEW j \in Conns, conn'[j].client
        PROVE  /\ conn'[j].owner \in Calls /\ call'[conn'[j].owner].conn = j
               /\ conn'[j].stage # "free" /\ conn'[j].request = call'[conn'[j].owner].at
               /\ conn'[j].request = "submit" =>
                     /\ conn'[j].id = call'[conn'[j].owner].id
                     /\ conn'[j].decision = call'[conn'[j].owner].decision
    <3>1. CASE j = k
      BY <1>4, <1>5, <3>1
    <3>2. CASE j # k
      <4>1. conn'[j] = conn[j] /\ conn[j].client
        BY <1>5, <2>2, <3>2
      <4>2. conn[j].owner \in Calls /\ conn[j].owner # c
        BY <1>1, <1>3, <4>1, NoneIsNoName DEF Owned
      <4>3. QED BY <1>1, <1>4, <4>1, <4>2 DEF Owned
    <3>3. QED BY <3>1, <3>2
  <2>3. QED BY <2>1, <2>2 DEF Owned
<1>11. Routed'
  BY <1>1, <1>5, <1>6, <1>7 DEF Routed
<1>12. Acted'
  <2> SUFFICES ASSUME NEW d \in Calls, call'[d].acted
               PROVE  /\ call'[d].conn # None /\ call'[d].at \in {"first", "retry"}
                      /\ conn'[call'[d].conn].stage \in Late
                      /\ conn'[call'[d].conn].stage = "answer" =>
                            conn'[call'[d].conn].answer # "approval_required"
                      /\ cmd[call'[d].conn].kind \in {"none", "done", "run", "lost"}
    BY <1>7 DEF Acted
  <2>1. d # c /\ call'[d] = call[d]
    BY <1>3, <1>4
  <2>2. call[d].conn \in Conns \ {k}
    BY <1>1, <1>8, <2>1 DEF Acted, Typed, TypeOK
  <2>3. QED BY <1>1, <1>5, <2>1, <2>2 DEF Acted
<1>13. Spent'
  BY <1>1, <1>7 DEF Spent
<1>14. Meant'
  BY <1>1, <1>4, <1>5, <1>7 DEF Meant
<1>15. Refused'
  BY <1>1, <1>4, <1>5, <1>7 DEF Refused, Dead
<1>16. QED BY <1>9, <1>10, <1>11, <1>12, <1>13, <1>14, <1>15 DEF CallsInv

\* The process of the agent dies with its connections.
LEMMA AgentDiesKeeps ==
  ASSUME CallsInv, NEW c \in Calls, AgentDies(c)
  PROVE  CallsInv'
<1>1. Typed /\ Owned /\ Routed /\ Acted /\ Spent /\ Meant /\ Refused
  BY DEF CallsInv
<1>2. /\ call'[c] = Idle /\ \A d \in Calls : d # c => call'[d] = call[d]
      /\ UNCHANGED <<cmd, grant, daemon, past>>
  BY <1>1 DEF AgentDies, Typed, TypeOK
<1>3. ASSUME NEW k \in Conns
      PROVE  /\ conn'[k] \in Connection
             /\ conn'[k].stage = conn[k].stage /\ conn'[k].owner = conn[k].owner
             /\ conn'[k].request = conn[k].request /\ conn'[k].id = conn[k].id
             /\ conn'[k].decision = conn[k].decision /\ conn'[k].answer = conn[k].answer
             /\ conn'[k].client <=> conn[k].client /\ conn[k].owner # c
  <2>1. conn[k] \in Connection
    BY <1>1 DEF Typed
  <2>2. CASE conn[k].owner = c
    <3>1. conn'[k] = [conn[k] EXCEPT !.client = FALSE]
      BY <2>2 DEF AgentDies
    <3>2. QED BY <2>1, <2>2, <3>1 DEF Connection
  <2>3. CASE conn[k].owner # c
    <3>1. conn'[k] = conn[k]
      BY <2>3 DEF AgentDies
    <3>2. QED BY <2>1, <2>3, <3>1
  <2>4. QED BY <2>2, <2>3
<1>4. Idle \in Call /\ Idle.conn = None /\ Idle.outcome = None /\ ~Idle.acted /\ Idle.at = "idle"
  BY DEF Idle, Call, Places, Outcomes, Decisions
<1>5. Typed'
  <2>1. call' \in [Calls -> Call]
    BY <1>1, <1>4 DEF AgentDies, Typed, TypeOK, Call
  <2>2. conn' \in [Conns -> Connection]
    <3>1. conn' = [k \in Conns |-> conn'[k]]
      BY DEF AgentDies
    <3>2. QED BY <1>3, <3>1
  <2>3. QED BY <1>1, <1>2, <2>1, <2>2 DEF Typed, TypeOK, Call, Connection
<1>6. Owned'
  <2>1. ASSUME NEW d \in Calls
        PROVE  /\ call'[d].at # "idle" => call'[d].outcome = None
               /\ call'[d].conn # None =>
                     /\ conn'[call'[d].conn].client /\ conn'[call'[d].conn].owner = d
                     /\ call'[d].at \in Requests
    <3>1. CASE d = c
      BY <1>2, <1>4, <3>1
    <3>2. CASE d # c
      <4>1. call'[d] = call[d] /\ call[d].conn \in Conns \cup {None}
        BY <1>1, <1>2, <3>2 DEF Typed, TypeOK
      <4>2. QED BY <1>1, <1>3, <3>2, <4>1 DEF Owned
    <3>3. QED BY <3>1, <3>2
  <2>2. ASSUME NEW j \in Conns, conn'[j].client
        PROVE  /\ conn'[j].owner \in Calls /\ call'[conn'[j].owner].conn = j
               /\ conn'[j].stage # "free" /\ conn'[j].request = call'[conn'[j].owner].at
               /\ conn'[j].request = "submit" =>
                     /\ conn'[j].id = call'[conn'[j].owner].id
                     /\ conn'[j].decision = call'[conn'[j].owner].decision
    <3>1. conn[j].client /\ conn[j].owner # c
      BY <1>3, <2>2
    <3>2. conn[j].owner \in Calls /\ call'[conn[j].owner] = call[conn[j].owner]
      BY <1>1, <1>2, <3>1 DEF Owned
    <3>3. QED BY <1>1, <1>3, <3>1, <3>2 DEF Owned
  <2>3. QED BY <2>1, <2>2 DEF Owned
<1>7. Routed'
  BY <1>1, <1>2, <1>3 DEF Routed
<1>8. Acted'
  <2> SUFFICES ASSUME NEW d \in Calls, call'[d].acted
               PROVE  /\ call'[d].conn # None /\ call'[d].at \in {"first", "retry"}
                      /\ conn'[call'[d].conn].stage \in Late
                      /\ conn'[call'[d].conn].stage = "answer" =>
                            conn'[call'[d].conn].answer # "approval_required"
                      /\ cmd[call'[d].conn].kind \in {"none", "done", "run", "lost"}
    BY <1>2 DEF Acted
  <2>1. d # c /\ call'[d] = call[d]
    BY <1>2, <1>4
  <2>2. call[d].conn \in Conns
    BY <1>1, <2>1 DEF Acted, Typed, TypeOK
  <2>3. QED BY <1>1, <1>3, <2>1, <2>2 DEF Acted
<1>9. Spent'
  BY <1>1, <1>2 DEF Spent
<1>10. Meant'
  BY <1>1, <1>2, <1>3, <1>4 DEF Meant
<1>11. Refused'
  <2>1. Idle.outcome # "rejected"
    BY <1>4, NoneIsNoName DEF NotExecuted
  <2>2. \A i : Dead(i) => Dead(i)'
    BY <1>2 DEF Dead
  <2>3. ASSUME NEW d \in Calls, call'[d].outcome = "rejected" PROVE Dead(call[d].id)'
    <3>1. call'[d] = call[d]
      BY <1>2, <2>1, <2>3
    <3>2. Dead(call[d].id)
      BY <1>1, <2>3, <3>1 DEF Refused
    <3>3. QED BY <1>2, <3>1, <3>2 DEF Dead
  <2>4. ASSUME NEW k \in Conns, conn'[k].client, conn'[k].stage = "answer",
               conn'[k].answer \notin {"failed", "approval_required"},
               conn'[k].request = "submit", conn'[k].decision # "approve"
        PROVE  Dead(conn[k].id)'
    <3>1. Dead(conn[k].id)
      BY <1>1, <1>3, <2>4 DEF Refused
    <3>2. QED BY <1>2, <1>3, <3>1 DEF Dead
  <2>5. QED BY <2>3, <2>4 DEF Refused
<1>12. QED BY <1>5, <1>6, <1>7, <1>8, <1>9, <1>10, <1>11 DEF CallsInv
-----------------------------------------------------------------------------
(* Steps of the daemon and of the extension on one connection. *)

\* The connection becomes `a' and its command `b'; nobody's request changes hands.
Moves(k, a, b) ==
    /\ a \in Connection /\ b \in Command
    /\ conn' = [conn EXCEPT ![k] = a] /\ cmd' = [cmd EXCEPT ![k] = b]
    /\ grant' \in [Ids -> GrantStates] /\ daemon' \in {"up", "frozen", "down"}
    /\ a.client <=> conn[k].client
    /\ a.client =>
          /\ a.stage # "free" /\ a.owner = conn[k].owner /\ a.request = conn[k].request
          /\ a.request = "submit" => a.id = conn[k].id /\ a.decision = conn[k].decision

\* What the command may be, and what a call whose action ran is answered.
Orderly(a, b) ==
    /\ b.pending => b.kind # "none"
    /\ b.kind # "none" =>
          /\ a.stage \in Late \cup {"free"}
          /\ a.stage = "answer" => a.answer # "approval_required"
          /\ a.client => a.request \in {"read", "first", "retry"}
    /\ b.kind \in {"probe", "recheck", "reported", "run"} /\ a.client =>
          a.request \in {"first", "retry"}
Settled(a, b) ==
    /\ a.stage \in Late
    /\ a.stage = "answer" => a.answer # "approval_required"
    /\ b.kind \in {"none", "done", "run", "lost"}

\* No approval comes from nobody or comes back, one is spent on one command, and
\* a refusal that is answered has ended a pending one.
Honest(k, a, b) ==
    /\ \A i \in Ids : /\ grant'[i] = "approved" => i \in past.yes
                      /\ grant[i] = "gone" => grant'[i] = "gone"
    /\ \/ b.kind # "run"
       \/ cmd[k].kind = "run" /\ b.id = cmd[k].id
       \/ b.id \in Ids /\ grant[b.id] = "approved" /\ grant'[b.id] = "gone"
    /\ \/ a = conn[k]
       \/ /\ a.stage \in Late \cup {"free"}
          /\ /\ a.client /\ a.stage = "answer" /\ a.answer \notin {"failed", "approval_required"}
             /\ a.request = "submit" /\ a.decision # "approve"
             => a.id \in Ids /\ grant[a.id] # "gone" /\ grant'[a.id] = "gone" /\ b.kind # "run"

LEMMA MovesKeeps ==
  ASSUME CallsInv, NEW k \in Conns, NEW a, NEW b,
         Moves(k, a, b), Orderly(a, b), Honest(k, a, b),
         \A c \in Calls : call[c].acted /\ call[c].conn = k => Settled(a, b),
         UNCHANGED <<call, past>>
  PROVE  CallsInv'
<1>1. Typed /\ Owned /\ Routed /\ Acted /\ Spent /\ Meant /\ Refused
  BY DEF CallsInv
<1>2. /\ conn'[k] = a /\ cmd'[k] = b
      /\ \A j \in Conns : j # k => conn'[j] = conn[j] /\ cmd'[j] = cmd[j]
  BY <1>1 DEF Moves, Typed
<1>3. /\ \A i \in Ids : grant[i] = "gone" => grant'[i] = "gone"
      /\ \A i \in Ids : grant'[i] = "approved" => i \in past.yes
  BY DEF Honest
<1>4. Typed'
  <2>1. conn' \in [Conns -> Connection] /\ cmd' \in [Conns -> Command]
    BY <1>1 DEF Moves, Typed
  <2>2. grant' \in [Ids -> GrantStates] /\ daemon' \in {"up", "frozen", "down"}
    BY DEF Moves
  <2>3. QED BY <1>1, <2>1, <2>2 DEF Typed, TypeOK, Connection, Command
<1>5. Owned'
  <2>1. /\ a.client <=> conn[k].client
        /\ a.client =>
             /\ a.stage # "free" /\ a.owner = conn[k].owner /\ a.request = conn[k].request
             /\ a.request = "submit" => a.id = conn[k].id /\ a.decision = conn[k].decision
    BY DEF Moves
  <2>2. ASSUME NEW c \in Calls
        PROVE  /\ call[c].at # "idle" => call[c].outcome = None
               /\ call[c].conn # None =>
                     /\ conn'[call[c].conn].client /\ conn'[call[c].conn].owner = c
                     /\ call[c].at \in Requests
    <3>1. call[c].conn \in Conns \cup {None}
      BY <1>1 DEF Typed, TypeOK
    <3>2. CASE call[c].conn = k
      BY <1>1, <1>2, <2>1, <3>2 DEF Owned
    <3>3. CASE call[c].conn # k
      BY <1>1, <1>2, <3>1, <3>3 DEF Owned
    <3>4. QED BY <3>2, <3>3
  <2>3. ASSUME NEW j \in Conns, conn'[j].client
        PROVE  /\ conn'[j].owner \in Calls /\ call[conn'[j].owner].conn = j
               /\ conn'[j].stage # "free" /\ conn'[j].request = call[conn'[j].owner].at
               /\ conn'[j].request = "submit" =>
                     /\ conn'[j].id = call[conn'[j].owner].id
                     /\ conn'[j].decision = call[conn'[j].owner].decision
    <3>1. CASE j = k
      BY <1>1, <1>2, <2>1, <2>3, <3>1 DEF Owned
    <3>2. CASE j # k
      BY <1>1, <1>2, <2>3, <3>2 DEF Owned
    <3>3. QED BY <3>1, <3>2
  <2>4. QED BY <2>2, <2>3 DEF Owned
<1>6. Routed'
  <2>1. ASSUME NEW j \in Conns PROVE Orderly(conn'[j], cmd'[j])
    <3>1. CASE j = k
      BY <1>2, <3>1
    <3>2. CASE j # k
      BY <1>1, <1>2, <3>2 DEF Routed, Orderly
    <3>3. QED BY <3>1, <3>2
  <2>2. QED BY <2>1 DEF Routed, Orderly
<1>7. Acted'
  <2> SUFFICES ASSUME NEW c \in Calls, call[c].acted
               PROVE  /\ call[c].conn # None /\ call[c].at \in {"first", "retry"}
                      /\ Settled(conn'[call[c].conn], cmd'[call[c].conn])
    BY DEF Acted, Settled
  <2>1. call[c].conn \in Conns /\ call[c].conn # None /\ call[c].at \in {"first", "retry"}
    BY <1>1 DEF Acted, Typed, TypeOK
  <2>2. CASE call[c].conn = k
    BY <1>2, <2>1, <2>2
  <2>3. CASE call[c].conn # k
    BY <1>1, <1>2, <2>1, <2>3 DEF Acted, Settled
  <2>4. QED BY <2>2, <2>3
<1>8. \A j \in Conns : cmd'[j].kind = "run" =>
        \/ cmd[j].kind = "run" /\ cmd'[j].id = cmd[j].id
        \/ j = k /\ b.id \in Ids /\ cmd'[j].id = b.id /\ grant[b.id] = "approved"
           /\ grant'[b.id] = "gone"
  BY <1>2 DEF Honest
<1>9. Spent'
  <2>1. ASSUME NEW i \in Ids
        PROVE  /\ past.ran[i] <= IF i \in past.yes THEN 1 ELSE 0
               /\ grant'[i] = "approved" => i \in past.yes
               /\ grant'[i] # "gone" => past.ran[i] = 0
    BY <1>1, <1>3 DEF Spent
  <2>2. ASSUME NEW j \in Conns, cmd'[j].kind = "run"
        PROVE  /\ cmd'[j].id \in Ids /\ cmd'[j].id \in past.yes
               /\ past.ran[cmd'[j].id] = 0 /\ grant'[cmd'[j].id] = "gone"
    <3>1. CASE cmd[j].kind = "run" /\ cmd'[j].id = cmd[j].id
      BY <1>1, <1>3, <3>1 DEF Spent
    <3>2. CASE cmd'[j].id = b.id /\ b.id \in Ids /\ grant[b.id] = "approved"
               /\ grant'[b.id] = "gone"
      BY <1>1, <3>2 DEF Spent
    <3>3. QED BY <1>8, <2>2, <3>1, <3>2
  <2>3. ASSUME NEW j \in Conns, NEW l \in Conns, cmd'[j].kind = "run",
               cmd'[l].kind = "run", cmd'[l].id = cmd'[j].id
        PROVE  l = j
    BY <1>1, <1>8, <2>3 DEF Spent
  <2>4. QED BY <2>1, <2>2, <2>3 DEF Spent
<1>10. Meant'
  <2>1. \/ a = conn[k]
        \/ a.stage \notin {"connecting", "hello", "challenge", "request"}
    BY DEF Honest, Late
  <2>2. \A c \in Calls :
          call[c].at = "submit" /\ call[c].decision = "approve" => call[c].id \in past.yes
    BY <1>1 DEF Meant
  <2>3. ASSUME NEW j \in Conns,
               conn'[j].stage \in {"connecting", "hello", "challenge", "request"},
               conn'[j].request = "submit", conn'[j].decision = "approve"
        PROVE  conn'[j].id \in past.yes
    <3>1. conn'[j] = conn[j]
      BY <1>2, <2>1, <2>3
    <3>2. QED BY <1>1, <2>3, <3>1 DEF Meant
  <2>4. QED BY <2>2, <2>3 DEF Meant
<1>11. Refused'
  <2>1. ASSUME NEW i, Dead(i) PROVE Dead(i)'
    BY <1>3, <1>8, <2>1 DEF Dead
  <2>2. \A c \in Calls : call[c].outcome = "rejected" => Dead(call[c].id)'
    BY <1>1, <2>1 DEF Refused
  <2>3. ASSUME NEW j \in Conns, conn'[j].client, conn'[j].stage = "answer",
               conn'[j].answer \notin {"failed", "approval_required"},
               conn'[j].request = "submit", conn'[j].decision # "approve"
        PROVE  \E i : i = conn'[j].id /\ Dead(i)'
    <3>1. CASE conn'[j] = conn[j]
      BY <1>1, <2>1, <2>3, <3>1 DEF Refused
    <3>2. CASE conn'[j] # conn[j]
      <4>1. j = k /\ a # conn[k]
        BY <1>2, <3>2
      <4>2. a.id \in Ids /\ grant[a.id] # "gone" /\ grant'[a.id] = "gone" /\ b.kind # "run"
        BY <1>2, <2>3, <4>1 DEF Honest
      <4>3. \A l \in Conns : cmd'[l].kind = "run" => cmd'[l].id # a.id
        BY <1>1, <1>2, <4>2 DEF Spent
      <4>4. past.ran[a.id] = 0
        BY <1>1, <4>2 DEF Spent
      <4>5. Dead(a.id)'
        BY <4>2, <4>3, <4>4 DEF Dead
      <4>6. QED BY <1>2, <4>1, <4>5
    <3>3. QED BY <3>1, <3>2
  <2>4. QED BY <2>2, <2>3 DEF Refused
<1>12. QED BY <1>4, <1>5, <1>6, <1>7, <1>9, <1>10, <1>11 DEF CallsInv

Below == {ss \in Nat \X Nat : ss[1] < ss[2]}

\* There is no infinite descent in the naturals.
LEMMA BelowWellFounded == IsWellFoundedOn(Below, Nat)
  BY NatLessThanWellFounded DEF OpToRel, Below

\* The first of a non-empty set of approvals is one of them.
LEMMA SmallestIsMember ==
  ASSUME NEW S \in SUBSET Nat, S # {}
  PROVE  Smallest(S) \in S
<1>1. PICK x \in S : \A y \in S : ~ (<<y, x>> \in Below)
  BY BelowWellFounded, WFMin
<1>2. ASSUME NEW y \in S PROVE x <= y
  <2>1. x \in Nat /\ y \in Nat
    OBVIOUS
  <2>2. ~ (y < x)
    BY <1>1, <2>1 DEF Below
  <2>3. QED BY <2>1, <2>2
<1>3. QED BY <1>2 DEF Smallest

\* The daemon picks an approval that is in the state it looks for.
LEMMA SmallestIn ==
  ASSUME NEW st, NEW T \in SUBSET InState(st), T # {}
  PROVE  Smallest(T) \in Ids /\ grant[Smallest(T)] = st /\ Smallest(T) \in T
<1>1. Smallest(T) \in T
  BY SmallestIsMember, ConstantsAssumption DEF InState
<1>2. QED BY <1>1 DEF InState

\* A request that is read has no command and its action has not run.
LEMMA ReadableQuiet ==
  ASSUME CallsInv, NEW k \in Conns, conn[k].stage = "request"
  PROVE  /\ cmd[k].kind = "none" /\ ~cmd[k].pending /\ cmd[k] \in Command
         /\ conn[k] \in Connection /\ conn[k].id \in Ids \cup {None}
         /\ \A c \in Calls : ~(call[c].acted /\ call[c].conn = k)
<1>1. cmd[k] \in Command /\ conn[k] \in Connection
  BY DEF CallsInv, Typed
<1>2. cmd[k].kind = "none" /\ ~cmd[k].pending
  BY <1>1 DEF CallsInv, Routed, Late, Command
<1>3. \A c \in Calls : ~(call[c].acted /\ call[c].conn = k)
  BY DEF CallsInv, Acted, Late
<1>4. QED BY <1>1, <1>2, <1>3 DEF Connection

\* What an answer makes of a connection.
With(k, answer, id) == [conn[k] EXCEPT !.stage = "answer", !.answer = answer, !.id = id]

LEMMA WithFields ==
  ASSUME Typed, NEW k \in Conns, NEW answer \in Answers, NEW id \in Ids \cup {None}
  PROVE  /\ With(k, answer, id) \in Connection
         /\ With(k, answer, id).stage = "answer" /\ With(k, answer, id).answer = answer
         /\ With(k, answer, id).id = id
         /\ With(k, answer, id).client = conn[k].client
         /\ With(k, answer, id).owner = conn[k].owner
         /\ With(k, answer, id).request = conn[k].request
         /\ With(k, answer, id).decision = conn[k].decision
<1>1. conn[k] \in Connection
  BY DEF Typed
<1>2. QED BY <1>1 DEF With, Connection, Stages

\* A map that is given what it has is the same.
LEMMA CmdSame ==
  ASSUME Typed, NEW k \in Conns
  PROVE  cmd = [cmd EXCEPT ![k] = cmd[k]] /\ conn = [conn EXCEPT ![k] = conn[k]]
  BY DEF Typed

\* The question is taken up.
LEMMA BeginKeeps ==
  ASSUME CallsInv, NEW k \in Conns, BeginArrives(k)
  PROVE  CallsInv'
<1>1. Typed /\ Spent /\ Owned
  BY DEF CallsInv
<1>2. conn[k].stage = "request" /\ conn[k].request = "begin"
  BY DEF BeginArrives, Readable
<1>3. PICK answer \in {"ok", "failed"} : Answer(k, answer, conn[k].id)
  BY DEF BeginArrives
<1>4. /\ cmd[k].kind = "none" /\ ~cmd[k].pending /\ cmd[k] \in Command
      /\ conn[k] \in Connection /\ conn[k].id \in Ids \cup {None}
      /\ \A c \in Calls : ~(call[c].acted /\ call[c].conn = k)
  BY <1>2, ReadableQuiet
<1> PICK a, b : a = With(k, answer, conn[k].id) /\ b = cmd[k]
  OBVIOUS
<1>5. /\ a \in Connection /\ a.stage = "answer" /\ a.answer = answer
      /\ a.client = conn[k].client /\ a.owner = conn[k].owner
      /\ a.request = conn[k].request /\ a.decision = conn[k].decision /\ a.id = conn[k].id
  BY <1>1, <1>4, WithFields DEF Answers
<1>6. conn' = [conn EXCEPT ![k] = a]
  BY <1>3 DEF Answer, With
<1>7. cmd' = [cmd EXCEPT ![k] = b] /\ UNCHANGED <<call, cmd, grant, daemon, past>>
  BY <1>1, CmdSame DEF BeginArrives
<1>8. Moves(k, a, b)
  BY <1>1, <1>2, <1>4, <1>5, <1>6, <1>7 DEF Moves, Typed, TypeOK
<1>9. Orderly(a, b)
  BY <1>4 DEF Orderly
<1>10. Honest(k, a, b)
  BY <1>1, <1>2, <1>4, <1>5, <1>7 DEF Honest, Spent, Late
<1>11. QED BY <1>4, <1>7, <1>8, <1>9, <1>10, MovesKeeps

\* The decision is taken.
LEMMA SubmitKeeps ==
  ASSUME CallsInv, NEW k \in Conns, SubmitArrives(k)
  PROVE  CallsInv'
<1>1. Typed /\ Spent /\ Owned /\ Meant
  BY DEF CallsInv
<1>2. conn[k].stage = "request" /\ conn[k].request = "submit"
  BY DEF SubmitArrives, Readable
<1>3. /\ cmd[k].kind = "none" /\ ~cmd[k].pending /\ cmd[k] \in Command
      /\ conn[k] \in Connection /\ conn[k].id \in Ids \cup {None}
      /\ \A c \in Calls : ~(call[c].acted /\ call[c].conn = k)
  BY <1>2, ReadableQuiet
<1> PICK i : i = conn[k].id
  OBVIOUS
<1>4. UNCHANGED <<call, cmd, daemon, past>>
  BY DEF SubmitArrives
<1>5. PICK answer \in {"ok", "failed"} :
        /\ Answer(k, answer, i)
        /\ \/ answer = "failed" /\ grant' = grant
           \/ /\ answer = "ok" /\ i \in Ids /\ grant[i] = "pending"
              /\ grant' = [grant EXCEPT ![i] =
                   IF conn[k].decision = "approve" THEN "approved" ELSE "gone"]
  <2>1. CASE Submittable(conn[k].id)
    BY <2>1 DEF SubmitArrives, Submittable
  <2>2. CASE ~Submittable(conn[k].id)
    BY <2>2 DEF SubmitArrives
  <2>3. QED BY <2>1, <2>2
<1> PICK a, b : a = With(k, answer, i) /\ b = cmd[k]
  OBVIOUS
<1>6. /\ a \in Connection /\ a.stage = "answer" /\ a.answer = answer
      /\ a.client = conn[k].client /\ a.owner = conn[k].owner
      /\ a.request = conn[k].request /\ a.decision = conn[k].decision /\ a.id = i
  BY <1>1, <1>3, WithFields DEF Answers
<1>7. conn' = [conn EXCEPT ![k] = a] /\ cmd' = [cmd EXCEPT ![k] = b]
  BY <1>1, <1>4, <1>5, CmdSame DEF Answer, With
<1>8. /\ grant \in [Ids -> GrantStates] /\ daemon \in {"up", "frozen", "down"}
      /\ None \notin Ids
  BY <1>1, NoneIsNoName DEF Typed, TypeOK
<1>9. grant' \in [Ids -> GrantStates]
  BY <1>5, <1>8 DEF GrantStates
<1>10. Moves(k, a, b)
  BY <1>3, <1>4, <1>6, <1>7, <1>8, <1>9, <1>2 DEF Moves
<1>11. Orderly(a, b)
  BY <1>3 DEF Orderly
<1>12. Honest(k, a, b)
  <2>1. \A j \in Ids : grant[j] = "approved" => j \in past.yes
    BY <1>1 DEF Spent
  <2>2. conn[k].decision = "approve" => i \in past.yes
    BY <1>1, <1>2 DEF Meant
  <2>3. CASE answer = "failed"
    BY <1>3, <1>5, <1>6, <2>1, <2>3 DEF Honest, Late
  <2>4. CASE answer = "ok"
    <3>1. /\ grant[i] = "pending"
          /\ grant' = [grant EXCEPT ![i] =
                   IF conn[k].decision = "approve" THEN "approved" ELSE "gone"]
      BY <1>5, <2>4
    <3>2. i \in Ids
      BY <1>5, <2>4
    <3>3. \A j \in Ids : j # i => grant'[j] = grant[j]
      BY <1>8, <3>1
    <3>4. grant'[i] = IF conn[k].decision = "approve" THEN "approved" ELSE "gone"
      BY <1>8, <3>1, <3>2
    <3>5. QED BY <1>3, <1>6, <2>1, <2>2, <3>1, <3>2, <3>3, <3>4 DEF Honest, Late
  <2>5. QED BY <2>3, <2>4
<1>13. QED BY <1>3, <1>4, <1>10, <1>11, <1>12, MovesKeeps

\* A command goes on in the extension, is lost there, or its result is ignored.
LEMMA CommandGoesOn ==
  ASSUME CallsInv, NEW k \in Conns, NEW b \in Command,
         cmd' = [cmd EXCEPT ![k] = b], b.pending => b.kind # "none",
         b.kind \in {"none", "reported", "done", "lost"},
         b.kind # "none" => cmd[k].kind # "none",
         b.kind = "reported" => cmd[k].kind \in {"probe", "recheck"},
         UNCHANGED <<call, conn, grant, daemon, past>>
  PROVE  CallsInv'
<1>1. Typed /\ Routed /\ Acted /\ Spent /\ Owned
  BY DEF CallsInv
<1> PICK a : a = conn[k]
  OBVIOUS
<1>2. conn' = [conn EXCEPT ![k] = a] /\ a \in Connection
  BY <1>1, CmdSame DEF Typed
<1>3. Moves(k, a, b)
  BY <1>1, <1>2 DEF Moves, Typed, TypeOK, Owned
<1>4. Orderly(a, b)
  BY <1>1 DEF Routed, Orderly
<1>5. Honest(k, a, b)
  BY <1>1 DEF Honest, Spent
<1>6. ASSUME NEW c \in Calls, call[c].acted, call[c].conn = k PROVE Settled(a, b)
  BY <1>1, <1>6 DEF Acted, Settled
<1>7. QED BY <1>3, <1>4, <1>5, <1>6, MovesKeeps

LEMMA ExtensionKeeps ==
  ASSUME CallsInv, NEW k \in Conns,
         Reports(k) \/ Reads(k) \/ Loses(k) \/ LateResult(k)
  PROVE  CallsInv'
<1>1. cmd[k] \in Command /\ cmd \in [Conns -> Command]
  BY DEF CallsInv, Typed
<1>2. UNCHANGED <<call, conn, grant, daemon, past>>
  BY DEF Reports, Reads, Loses, LateResult
<1>3. CASE LateResult(k)
  <2> PICK b : b = NoCommand
    OBVIOUS
  <2>1. b \in Command /\ b.kind = "none" /\ ~b.pending /\ cmd' = [cmd EXCEPT ![k] = b]
    BY <1>3 DEF LateResult, NoCommand, Command, Kinds
  <2>2. QED BY <1>2, <2>1, CommandGoesOn
<1>4. CASE Reports(k) \/ Reads(k) \/ Loses(k)
  <2>1. PICK kind \in {"reported", "done", "lost"} :
          /\ cmd' = [cmd EXCEPT ![k].kind = kind]
          /\ cmd[k].kind # "none"
          /\ kind = "reported" => cmd[k].kind \in {"probe", "recheck"}
    BY <1>4 DEF Reports, Reads, Loses
  <2> PICK b : b = [cmd[k] EXCEPT !.kind = kind]
    OBVIOUS
  <2>2. b \in Command /\ b.kind = kind /\ cmd' = [cmd EXCEPT ![k] = b]
    BY <1>1, <2>1 DEF Command, Kinds
  <2>3. QED BY <1>2, <2>1, <2>2, CommandGoesOn
<1>5. QED BY <1>3, <1>4

\* A reading or an action is sent to the extension.
LEMMA RoutedKeeps ==
  ASSUME CallsInv, NEW k \in Conns, ReadArrives(k) \/ ActionArrives(k)
  PROVE  CallsInv'
<1>1. Typed /\ Spent /\ Owned
  BY DEF CallsInv
<1>2. conn[k].stage = "request"
  BY DEF ReadArrives, ActionArrives, Readable
<1>3. /\ conn[k] \in Connection
      /\ \A c \in Calls : ~(call[c].acted /\ call[c].conn = k)
  BY <1>2, ReadableQuiet
<1>4. PICK b : /\ cmd' = [cmd EXCEPT ![k] = b]
               /\ b \in Command
               /\ b.kind \in {"read", "probe", "recheck"}
               /\ b.kind = "read" => conn[k].request = "read"
               /\ b.kind # "read" => conn[k].request \in {"first", "retry"}
  <2>1. CASE ReadArrives(k)
    <3> PICK b : b = [NoCommand EXCEPT !.kind = "read", !.pending = TRUE]
      OBVIOUS
    <3>1. b \in Command /\ b.kind = "read"
      BY DEF NoCommand, Command, Kinds
    <3>2. QED BY <2>1, <3>1 DEF ReadArrives
  <2>2. CASE ActionArrives(k) /\ InState("approved") = {}
    <3> PICK b : b = [NoCommand EXCEPT !.kind = "probe", !.pending = TRUE]
      OBVIOUS
    <3>1. b \in Command /\ b.kind = "probe"
      BY DEF NoCommand, Command, Kinds
    <3>2. QED BY <2>2, <3>1 DEF ActionArrives
  <2>3. CASE ActionArrives(k) /\ InState("approved") # {}
    <3> PICK i : i = Smallest(InState("approved"))
      OBVIOUS
    <3>1. i \in Ids
      <4>1. InState("approved") \subseteq Ids
        BY DEF InState
      <4>2. QED BY <2>3, <4>1, ConstantsAssumption, SmallestIsMember
    <3> PICK b : b = [kind |-> "recheck", id |-> i, pending |-> TRUE]
      OBVIOUS
    <3>2. b \in Command /\ b.kind = "recheck"
      BY <3>1 DEF Command, Kinds
    <3>3. QED BY <2>3, <3>2 DEF ActionArrives
  <2>4. QED BY <2>1, <2>2, <2>3
<1> PICK a : a = [conn[k] EXCEPT !.stage = "accepted"]
  OBVIOUS
<1>5. /\ a \in Connection /\ a.stage = "accepted"
      /\ a.client = conn[k].client /\ a.owner = conn[k].owner /\ a.request = conn[k].request
      /\ a.decision = conn[k].decision /\ a.id = conn[k].id
  BY <1>3 DEF Connection, Stages
<1>6. conn' = [conn EXCEPT ![k] = a]
  BY DEF ReadArrives, ActionArrives
<1>7. UNCHANGED <<call, grant, daemon, past>>
  BY DEF ReadArrives, ActionArrives
<1>8. Moves(k, a, b)
  BY <1>1, <1>4, <1>5, <1>6, <1>7 DEF Moves, Typed, TypeOK
<1>9. Orderly(a, b)
  BY <1>4, <1>5 DEF Orderly, Late
<1>10. Honest(k, a, b)
  BY <1>1, <1>4, <1>5, <1>7 DEF Honest, Spent, Late
<1>11. QED BY <1>3, <1>7, <1>8, <1>9, <1>10, MovesKeeps

\* A connection with a command is answered, and the command is over or given up.
LEMMA AnswerKeeps ==
  ASSUME CallsInv, NEW k \in Conns, cmd[k].kind # "none",
         NEW answer \in {"ok", "failed", "approval_required"}, NEW id \in Ids \cup {None},
         NEW b \in Command, b = NoCommand \/ b = [cmd[k] EXCEPT !.pending = FALSE],
         answer = "approval_required" => b = NoCommand /\ cmd[k].kind = "reported",
         Answer(k, answer, id), cmd' = [cmd EXCEPT ![k] = b],
         grant' \in [Ids -> GrantStates],
         \A i \in Ids : /\ grant'[i] = "approved" => i \in past.yes
                        /\ grant[i] = "gone" => grant'[i] = "gone",
         UNCHANGED <<call, daemon, past>>
  PROVE  CallsInv'
<1>1. Typed /\ Routed /\ Acted /\ Owned /\ cmd[k] \in Command
  BY DEF CallsInv, Typed
<1> PICK a : a = With(k, answer, id)
  OBVIOUS
<1>2. /\ a \in Connection /\ a.stage = "answer" /\ a.answer = answer
      /\ a.client = conn[k].client /\ a.owner = conn[k].owner
      /\ a.request = conn[k].request /\ a.decision = conn[k].decision /\ a.id = id
  BY <1>1, WithFields DEF Answers
<1>3. /\ conn[k].client => conn[k].request \in {"read", "first", "retry"}
      /\ cmd[k].kind \in {"probe", "recheck", "reported", "run"} /\ conn[k].client =>
           conn[k].request \in {"first", "retry"}
  BY <1>1 DEF Routed
<1>4. \/ b.kind = "none" /\ ~b.pending
      \/ b.kind = cmd[k].kind /\ b.id = cmd[k].id /\ ~b.pending
         /\ answer # "approval_required"
  <2>1. CASE b = NoCommand
    BY <2>1 DEF NoCommand
  <2>2. CASE b # NoCommand
    <3>1. b = [cmd[k] EXCEPT !.pending = FALSE] /\ answer # "approval_required"
      BY <2>2
    <3>2. QED BY <1>1, <3>1 DEF Command
  <2>3. QED BY <2>1, <2>2
<1>5. conn' = [conn EXCEPT ![k] = a]
  BY DEF Answer, With
<1>6. Moves(k, a, b)
  BY <1>1, <1>2, <1>3, <1>5 DEF Moves, Typed, TypeOK
<1>7. Orderly(a, b)
  BY <1>2, <1>3, <1>4 DEF Orderly, Late
<1>8. Honest(k, a, b)
  BY <1>2, <1>3, <1>4 DEF Honest, Late
<1>9. ASSUME NEW c \in Calls, call[c].acted, call[c].conn = k PROVE Settled(a, b)
  <2>1. cmd[k].kind \in {"none", "done", "run", "lost"}
    BY <1>1, <1>9 DEF Acted
  <2>2. QED BY <1>2, <1>4, <2>1 DEF Settled, Late
<1>10. QED BY <1>6, <1>7, <1>8, <1>9, MovesKeeps

\* The extension's result arrives.
LEMMA ResultKeeps ==
  ASSUME CallsInv, NEW k \in Conns, ResultArrives(k)
  PROVE  CallsInv'
<1>1. /\ Typed /\ Routed /\ Acted /\ Spent /\ Owned
      /\ cmd[k] \in Command /\ conn[k] \in Connection
      /\ grant \in [Ids -> GrantStates] /\ daemon \in {"up", "frozen", "down"}
  BY DEF CallsInv, Typed, TypeOK
<1>2. /\ cmd[k].kind # "none" /\ cmd[k].id \in Ids \cup {None}
      /\ UNCHANGED <<call, daemon, past>>
  BY <1>1 DEF ResultArrives, Command
<1>3. \A i \in Ids : grant[i] = "approved" => i \in past.yes
  BY <1>1 DEF Spent
<1> PICK empty : empty = NoCommand
  OBVIOUS
<1>4. empty \in Command
  BY DEF NoCommand, Command, Kinds
<1>5. CASE cmd[k].kind = "done"
  <2> PICK id : id = cmd[k].id
    OBVIOUS
  <2>1. /\ Answer(k, "ok", id) /\ cmd' = [cmd EXCEPT ![k] = empty]
        /\ grant' = grant
    BY <1>5 DEF ResultArrives
  <2>2. QED BY <1>1, <1>2, <1>3, <1>4, <2>1, AnswerKeeps
<1>6. CASE cmd[k].kind = "reported"
  <2> PICK of : of = IF cmd[k].id = None THEN InState("approved")
                     ELSE {cmd[k].id} \cap InState("approved")
    OBVIOUS
  <2>1. of \in SUBSET InState("approved")
    OBVIOUS
  <2>2. Reported(k)
    BY <1>6 DEF ResultArrives
  <2>3. CASE of # {}
    <3> PICK i : i = Smallest(of)
      OBVIOUS
    <3>1. i \in Ids /\ grant[i] = "approved"
      BY <2>1, <2>3, SmallestIn
    <3> PICK a, b : a = conn[k] /\ b = [cmd[k] EXCEPT !.kind = "run", !.id = i]
      OBVIOUS
    <3>2. /\ grant' = [grant EXCEPT ![i] = "gone"] /\ conn' = conn
          /\ cmd' = [cmd EXCEPT ![k] = b]
      BY <2>2, <2>3 DEF Reported
    <3>3. /\ b \in Command /\ b.kind = "run" /\ b.id = i /\ b.pending = cmd[k].pending
      BY <1>1, <3>1 DEF Command, Kinds
    <3>4. conn' = [conn EXCEPT ![k] = a] /\ a \in Connection
      BY <1>1, <3>2, CmdSame
    <3>5. /\ grant' \in [Ids -> GrantStates] /\ grant'[i] = "gone"
          /\ \A j \in Ids : j # i => grant'[j] = grant[j]
      BY <1>1, <3>1, <3>2 DEF GrantStates
    <3>6. Moves(k, a, b)
      BY <1>1, <1>2, <3>2, <3>3, <3>4, <3>5 DEF Moves, Owned
    <3>7. Orderly(a, b)
      BY <1>1, <1>6, <3>3 DEF Routed, Orderly
    <3>8. Honest(k, a, b)
      BY <1>3, <3>1, <3>3, <3>5 DEF Honest
    <3>9. ASSUME NEW c \in Calls, call[c].acted, call[c].conn = k PROVE Settled(a, b)
      BY <1>1, <3>3, <3>9 DEF Acted, Settled
    <3>10. QED BY <1>2, <3>6, <3>7, <3>8, <3>9, MovesKeeps
  <2>4. CASE of = {} /\ InState("pending") # {}
    <3> PICK i : i = Smallest(InState("pending"))
      OBVIOUS
    <3>1. i \in Ids
      <4>1. InState("pending") \in SUBSET InState("pending")
        OBVIOUS
      <4>2. QED BY <2>4, <4>1, SmallestIn
    <3>2. /\ Answer(k, "approval_required", i) /\ cmd' = [cmd EXCEPT ![k] = empty]
          /\ grant' = grant
      BY <2>2, <2>4 DEF Reported
    <3>3. QED BY <1>1, <1>2, <1>3, <1>4, <1>6, <3>1, <3>2, AnswerKeeps
  <2>5. CASE of = {} /\ InState("pending") = {} /\ InState("none") # {}
    <3> PICK i : i = Smallest(InState("none"))
      OBVIOUS
    <3>1. i \in Ids /\ grant[i] = "none"
      <4>1. InState("none") \in SUBSET InState("none")
        OBVIOUS
      <4>2. QED BY <2>5, <4>1, SmallestIn
    <3>2. /\ grant' = [grant EXCEPT ![i] = "pending"]
          /\ Answer(k, "approval_required", i) /\ cmd' = [cmd EXCEPT ![k] = empty]
      BY <2>2, <2>5 DEF Reported
    <3>3. /\ grant' \in [Ids -> GrantStates] /\ grant'[i] = "pending"
          /\ \A j \in Ids : j # i => grant'[j] = grant[j]
      BY <1>1, <3>1, <3>2 DEF GrantStates
    <3>4. \A j \in Ids : /\ grant'[j] = "approved" => j \in past.yes
                         /\ grant[j] = "gone" => grant'[j] = "gone"
      BY <1>3, <3>1, <3>3
    <3>5. QED BY <1>2, <1>4, <1>6, <3>1, <3>2, <3>3, <3>4, AnswerKeeps
  <2>6. \/ of # {}
        \/ of = {} /\ InState("pending") # {}
        \/ of = {} /\ InState("pending") = {} /\ InState("none") # {}
    BY <2>2 DEF Reported
  <2>7. QED BY <2>3, <2>4, <2>5, <2>6
<1>7. QED BY <1>5, <1>6 DEF ResultArrives

\* The extension does not answer in time.
LEMMA CommandTimeoutKeeps ==
  ASSUME CallsInv, NEW k \in Conns, CommandTimeout(k)
  PROVE  CallsInv'
<1>1. /\ Typed /\ Routed /\ Spent /\ cmd[k] \in Command /\ conn[k] \in Connection
      /\ grant \in [Ids -> GrantStates]
  BY DEF CallsInv, Typed, TypeOK
<1> PICK b, id : b = [cmd[k] EXCEPT !.pending = FALSE] /\ id = conn[k].id
  OBVIOUS
<1>2. b \in Command /\ id \in Ids \cup {None} /\ cmd[k].kind # "none"
  BY <1>1 DEF CommandTimeout, Command, Connection, Routed
<1>3. cmd' = [cmd EXCEPT ![k] = b] /\ Answer(k, "failed", id)
  BY DEF CommandTimeout
<1>4. UNCHANGED <<call, grant, daemon, past>>
  BY DEF CommandTimeout
<1>5. \A i \in Ids : /\ grant'[i] = "approved" => i \in past.yes
                     /\ grant[i] = "gone" => grant'[i] = "gone"
  BY <1>1, <1>4 DEF Spent
<1>6. QED BY <1>1, <1>2, <1>3, <1>4, <1>5, AnswerKeeps

\* A connection whose client left is forgotten.
LEMMA ClosedKeeps ==
  ASSUME CallsInv, NEW k \in Conns, Closed(k)
  PROVE  CallsInv'
<1>1. /\ Typed /\ Routed /\ Owned /\ Acted /\ Spent /\ cmd[k] \in Command
      /\ grant \in [Ids -> GrantStates] /\ daemon \in {"up", "frozen", "down"}
  BY DEF CallsInv, Typed, TypeOK
<1> PICK a, b :
        /\ a = Free
        /\ b = IF cmd[k].kind = "none" THEN NoCommand ELSE [cmd[k] EXCEPT !.pending = FALSE]
  OBVIOUS
<1>2. a \in Connection /\ a.stage = "free" /\ ~a.client
  BY DEF Free, Connection, Stages, Decisions, Answers
<1>3. /\ b \in Command /\ b.kind = cmd[k].kind /\ ~b.pending
      /\ b.kind # "none" => b.id = cmd[k].id
  BY <1>1 DEF NoCommand, Command, Kinds
<1>4. ~conn[k].client /\ conn' = [conn EXCEPT ![k] = a] /\ cmd' = [cmd EXCEPT ![k] = b]
  BY DEF Closed
<1>5. UNCHANGED <<call, grant, daemon, past>>
  BY DEF Closed
<1>6. Moves(k, a, b)
  BY <1>1, <1>2, <1>3, <1>4, <1>5 DEF Moves
<1>7. Orderly(a, b)
  BY <1>2, <1>3 DEF Orderly
<1>8. Honest(k, a, b)
  BY <1>1, <1>2, <1>3, <1>5 DEF Honest, Spent
<1>9. \A c \in Calls : call[c].conn # k
  BY <1>1, <1>4, NoneIsNoName DEF Owned
<1>10. QED BY <1>5, <1>6, <1>7, <1>8, <1>9, MovesKeeps

\* The approved action runs: once, for an approval that nothing else can use.
LEMMA RunsKeeps ==
  ASSUME CallsInv, NEW k \in Conns, Runs(k)
  PROVE  CallsInv'
<1>1. Typed /\ Owned /\ Routed /\ Acted /\ Spent /\ Meant /\ Refused
  BY DEF CallsInv
<1> PICK i : i = cmd[k].id
  OBVIOUS
<1>2. /\ cmd[k].kind = "run" /\ i \in Ids /\ i \in past.yes
      /\ past.ran[i] = 0 /\ grant[i] = "gone"
      /\ \A j \in Conns : cmd[j].kind = "run" /\ cmd[j].id = i => j = k
  BY <1>1 DEF Runs, Spent
<1>3. UNCHANGED <<conn, grant, daemon>>
  BY DEF Runs
<1>4. past' = [past EXCEPT !.ran[i] = @ + 1]
  BY DEF Runs
<1>5. /\ past'.yes = past.yes /\ past'.ran = [past.ran EXCEPT ![i] = 1]
      /\ past.ran \in [Ids -> Nat]
      /\ past' \in [yes : SUBSET (Ids \cup {None}), ran : [Ids -> Nat]]
  <2>1. past \in [yes : SUBSET (Ids \cup {None}), ran : [Ids -> Nat]]
    BY <1>1 DEF Typed
  <2>2. past.ran[i] + 1 = 1
    BY <1>2
  <2>3. QED BY <1>2, <1>4, <2>1, <2>2
<1>6. past'.ran[i] = 1 /\ \A j \in Ids : j # i => past'.ran[j] = past.ran[j]
  BY <1>2, <1>5
<1>7. /\ cmd'[k].kind = "done" /\ cmd'[k].pending = cmd[k].pending
      /\ cmd' \in [Conns -> Command]
      /\ \A j \in Conns : j # k => cmd'[j] = cmd[j]
  <2>1. cmd' = [cmd EXCEPT ![k].kind = "done"]
    BY DEF Runs
  <2>2. cmd \in [Conns -> Command] /\ cmd[k] \in Command
    BY <1>1 DEF Typed
  <2>3. QED BY <2>1, <2>2 DEF Command, Kinds
<1>8. ASSUME NEW c \in Calls
      PROVE  /\ call'[c] \in Call
             /\ call'[c].at = call[c].at /\ call'[c].conn = call[c].conn
             /\ call'[c].id = call[c].id /\ call'[c].decision = call[c].decision
             /\ call'[c].outcome = call[c].outcome
             /\ call'[c].acted <=> call[c].acted \/ call[c].conn = k
  <2>1. call[c] \in Call
    BY <1>1 DEF Typed, TypeOK, Call
  <2>2. CASE call[c].conn = k
    <3>1. call'[c] = [call[c] EXCEPT !.acted = TRUE]
      BY <2>2 DEF Runs
    <3>2. QED BY <2>1, <2>2, <3>1 DEF Call
  <2>3. CASE call[c].conn # k
    <3>1. call'[c] = call[c]
      BY <2>3 DEF Runs
    <3>2. QED BY <2>1, <2>3, <3>1
  <2>4. QED BY <2>2, <2>3
<1>9. Typed'
  <2>1. call' \in [Calls -> Call]
    <3>1. call' = [c \in Calls |-> call'[c]]
      BY DEF Runs
    <3>2. QED BY <1>8, <3>1
  <2>2. QED BY <1>1, <1>3, <1>5, <1>7, <2>1 DEF Typed, TypeOK, Call, Command
<1>10. Owned'
  <2>1. ASSUME NEW c \in Calls
        PROVE  /\ call'[c].at # "idle" => call'[c].outcome = None
               /\ call'[c].conn # None =>
                     /\ conn'[call'[c].conn].client /\ conn'[call'[c].conn].owner = c
                     /\ call'[c].at \in Requests
    BY <1>1, <1>3, <1>8 DEF Owned
  <2>2. ASSUME NEW j \in Conns, conn'[j].client
        PROVE  /\ conn'[j].owner \in Calls /\ call'[conn'[j].owner].conn = j
               /\ conn'[j].stage # "free" /\ conn'[j].request = call'[conn'[j].owner].at
               /\ conn'[j].request = "submit" =>
                     /\ conn'[j].id = call'[conn'[j].owner].id
                     /\ conn'[j].decision = call'[conn'[j].owner].decision
    <3>1. conn'[j] = conn[j] /\ conn[j].owner \in Calls
      BY <1>1, <1>3, <2>2 DEF Owned
    <3>2. QED BY <1>1, <1>8, <2>2, <3>1 DEF Owned
  <2>3. QED BY <2>1, <2>2 DEF Owned
<1>11. Routed'
  BY <1>1, <1>2, <1>3, <1>7 DEF Routed
<1>12. Acted'
  <2> SUFFICES ASSUME NEW c \in Calls, call'[c].acted
               PROVE  /\ call[c].conn # None /\ call[c].at \in {"first", "retry"}
                      /\ conn[call[c].conn].stage \in Late
                      /\ conn[call[c].conn].stage = "answer" =>
                            conn[call[c].conn].answer # "approval_required"
                      /\ cmd'[call[c].conn].kind \in {"none", "done", "run", "lost"}
    BY <1>3, <1>8 DEF Acted
  <2>1. CASE call[c].conn = k
    <3>1. conn[k].client /\ conn[k].owner = c /\ k # None
      BY <1>1, <2>1, NoneIsNoName DEF Owned
    <3>2. conn[k].request = call[c].at /\ conn[k].stage # "free"
      BY <1>1, <3>1 DEF Owned
    <3>3. QED BY <1>1, <1>2, <1>7, <2>1, <3>1, <3>2 DEF Routed
  <2>2. CASE call[c].conn # k
    <3>1. call[c].acted
      BY <1>8, <2>2
    <3>2. call[c].conn \in Conns
      BY <1>1, <3>1 DEF Acted, Typed, TypeOK
    <3>3. QED BY <1>1, <1>7, <2>2, <3>1, <3>2 DEF Acted
  <2>3. QED BY <2>1, <2>2
<1>13. \A j \in Conns : cmd'[j].kind = "run" =>
         j # k /\ cmd'[j] = cmd[j] /\ cmd[j].kind = "run" /\ cmd[j].id # i
  BY <1>2, <1>7
<1>14. Spent'
  <2>1. ASSUME NEW j \in Ids
        PROVE  /\ past'.ran[j] <= IF j \in past'.yes THEN 1 ELSE 0
               /\ grant[j] = "approved" => j \in past'.yes
               /\ grant[j] # "gone" => past'.ran[j] = 0
    <3>1. CASE j = i
      BY <1>2, <1>5, <1>6, <3>1
    <3>2. CASE j # i
      BY <1>1, <1>5, <1>6, <3>2 DEF Spent
    <3>3. QED BY <3>1, <3>2
  <2>2. ASSUME NEW j \in Conns, cmd'[j].kind = "run"
        PROVE  /\ cmd'[j].id \in Ids /\ cmd'[j].id \in past'.yes
               /\ past'.ran[cmd'[j].id] = 0 /\ grant[cmd'[j].id] = "gone"
               /\ \A l \in Conns : cmd'[l].kind = "run" /\ cmd'[l].id = cmd'[j].id => l = j
    <3>1. cmd'[j] = cmd[j] /\ cmd[j].kind = "run" /\ cmd[j].id # i
      BY <1>13, <2>2
    <3>2. /\ cmd[j].id \in Ids /\ cmd[j].id \in past.yes
          /\ past.ran[cmd[j].id] = 0 /\ grant[cmd[j].id] = "gone"
          /\ \A l \in Conns : cmd[l].kind = "run" /\ cmd[l].id = cmd[j].id => l = j
      BY <1>1, <3>1 DEF Spent
    <3>3. QED BY <1>5, <1>6, <1>13, <3>1, <3>2
  <2>3. QED BY <1>3, <2>1, <2>2 DEF Spent
<1>15. Meant'
  BY <1>1, <1>3, <1>5, <1>8 DEF Meant
<1>16. ASSUME NEW j, Dead(j) PROVE Dead(j)'
  <2>1. j \in Ids /\ j # i /\ grant[j] = "gone" /\ past.ran[j] = 0
        /\ \A l \in Conns : cmd[l].kind = "run" => cmd[l].id # j
    BY <1>2, <1>16 DEF Dead
  <2>2. QED BY <1>3, <1>6, <1>13, <2>1 DEF Dead
<1>17. Refused'
  <2>1. \A c \in Calls : call'[c].outcome = "rejected" => Dead(call[c].id)'
    <3> SUFFICES ASSUME NEW c \in Calls, call'[c].outcome = "rejected"
                 PROVE  Dead(call[c].id)'
      OBVIOUS
    <3> PICK j : j = call[c].id
      OBVIOUS
    <3>1. Dead(j)'
      BY <1>1, <1>8, <1>16 DEF Refused
    <3>2. QED BY <1>8, <3>1
  <2>2. ASSUME NEW l \in Conns, conn[l].client, conn[l].stage = "answer",
               conn[l].answer \notin {"failed", "approval_required"},
               conn[l].request = "submit", conn[l].decision # "approve"
        PROVE  Dead(conn[l].id)'
    <3> PICK j : j = conn[l].id
      OBVIOUS
    <3>1. Dead(j)'
      BY <1>1, <1>16, <2>2 DEF Refused
    <3>2. QED BY <1>3, <3>1
  <2>3. QED BY <1>3, <2>1, <2>2 DEF Refused
<1>18. QED BY <1>9, <1>10, <1>11, <1>12, <1>14, <1>15, <1>17 DEF CallsInv
-----------------------------------------------------------------------------
(* Steps of the whole daemon. *)

\* An approval expires.
LEMMA ExpiresKeeps ==
  ASSUME CallsInv, NEW i \in Ids, Expires(i)
  PROVE  CallsInv'
<1>1. Typed /\ Owned /\ Routed /\ Acted /\ Spent /\ Meant /\ Refused
  BY DEF CallsInv
<1>2. UNCHANGED <<call, conn, cmd, daemon, past>>
  BY DEF Expires
<1>3. /\ grant' \in [Ids -> GrantStates] /\ grant'[i] = "gone" /\ grant[i] # "gone"
      /\ \A j \in Ids : j # i => grant'[j] = grant[j]
  BY <1>1 DEF Expires, Typed, TypeOK, GrantStates
<1>4. \A j \in Ids : /\ grant'[j] = "approved" => j \in past.yes
                     /\ grant[j] = "gone" => grant'[j] = "gone"
                     /\ grant'[j] # "gone" => past.ran[j] = 0
  BY <1>1, <1>3 DEF Spent
<1>5. Typed'
  BY <1>1, <1>2, <1>3 DEF Typed, TypeOK
<1>6. Owned' /\ Routed' /\ Acted' /\ Meant'
  BY <1>1, <1>2 DEF Owned, Routed, Acted, Meant
<1>7. Spent'
  BY <1>1, <1>2, <1>4 DEF Spent
<1>8. Refused'
  BY <1>1, <1>2, <1>4 DEF Refused, Dead
<1>9. QED BY <1>5, <1>6, <1>7, <1>8 DEF CallsInv

\* The daemon dies: its connections end and its approvals are forgotten.
LEMMA DiesKeeps ==
  ASSUME CallsInv, Dies
  PROVE  CallsInv'
<1>1. Typed /\ Owned /\ Routed /\ Acted /\ Spent /\ Meant /\ Refused
  BY DEF CallsInv
<1>2. call' = call /\ past' = past /\ daemon' = "down"
  BY DEF Dies
<1>3. ASSUME NEW k \in Conns
      PROVE  /\ conn'[k] \in Connection
             /\ \/ conn'[k] = conn[k] /\ conn[k].stage # "answer"
                \/ /\ conn[k].client /\ conn'[k].client /\ conn'[k].stage = "ended"
                   /\ conn'[k].owner = conn[k].owner /\ conn'[k].request = conn[k].request
                   /\ conn'[k].id = conn[k].id /\ conn'[k].decision = conn[k].decision
                \/ ~conn[k].client /\ ~conn'[k].client /\ conn'[k].stage = "free"
  <2>1. conn[k] \in Connection
    BY <1>1 DEF Typed
  <2>2. CASE k \notin AtDaemon
    <3>1. conn'[k] = conn[k]
      BY <2>2 DEF Dies
    <3>2. QED BY <2>1, <2>2, <3>1 DEF AtDaemon
  <2>3. CASE k \in AtDaemon /\ conn[k].client
    <3>1. conn'[k] = [conn[k] EXCEPT !.stage = "ended"]
      BY <2>3 DEF Dies
    <3>2. QED BY <2>1, <2>3, <3>1 DEF Connection, Stages
  <2>4. CASE k \in AtDaemon /\ ~conn[k].client
    <3>1. conn'[k] = Free
      BY <2>4 DEF Dies
    <3>2. Free \in Connection /\ ~Free.client /\ Free.stage = "free"
      BY DEF Free, Connection, Stages, Decisions, Answers
    <3>3. QED BY <2>4, <3>1, <3>2
  <2>5. QED BY <2>2, <2>3, <2>4
<1>4. ASSUME NEW k \in Conns
      PROVE  /\ cmd'[k] \in Command /\ cmd'[k].kind = cmd[k].kind
             /\ cmd'[k].id = cmd[k].id /\ ~cmd'[k].pending
  <2>1. cmd[k] \in Command /\ cmd'[k] = [cmd[k] EXCEPT !.pending = FALSE]
    BY <1>1 DEF Typed, Dies
  <2>2. QED BY <2>1 DEF Command
<1>5. ASSUME NEW i \in Ids
      PROVE  /\ grant'[i] \in {"none", "gone"}
             /\ grant'[i] = "none" <=> grant[i] = "none"
  BY <1>1 DEF Dies, Typed, TypeOK, GrantStates
<1>6. Typed'
  <2>1. /\ conn' = [k \in Conns |-> conn'[k]] /\ cmd' = [k \in Conns |-> cmd'[k]]
        /\ grant' = [i \in Ids |-> grant'[i]]
    BY DEF Dies
  <2>2. conn' \in [Conns -> Connection]
    BY <1>3, <2>1
  <2>3. cmd' \in [Conns -> Command]
    BY <1>4, <2>1
  <2>4. grant' \in [Ids -> GrantStates]
    BY <1>5, <2>1 DEF GrantStates
  <2>5. QED BY <1>1, <1>2, <2>2, <2>3, <2>4 DEF Typed, TypeOK, Connection, Command
<1>7. Owned'
  <2>1. ASSUME NEW c \in Calls
        PROVE  /\ call[c].at # "idle" => call[c].outcome = None
               /\ call[c].conn # None =>
                     /\ conn'[call[c].conn].client /\ conn'[call[c].conn].owner = c
                     /\ call[c].at \in Requests
    <3>1. call[c].conn \in Conns \cup {None}
      BY <1>1 DEF Typed, TypeOK
    <3>2. QED BY <1>1, <1>3, <3>1 DEF Owned
  <2>2. ASSUME NEW j \in Conns, conn'[j].client
        PROVE  /\ conn'[j].owner \in Calls /\ call[conn'[j].owner].conn = j
               /\ conn'[j].stage # "free" /\ conn'[j].request = call[conn'[j].owner].at
               /\ conn'[j].request = "submit" =>
                     /\ conn'[j].id = call[conn'[j].owner].id
                     /\ conn'[j].decision = call[conn'[j].owner].decision
    BY <1>1, <1>3, <2>2 DEF Owned
  <2>3. QED BY <1>2, <2>1, <2>2 DEF Owned
<1>8. Routed'
  <2> SUFFICES ASSUME NEW k \in Conns PROVE Orderly(conn'[k], cmd'[k])
    BY DEF Routed, Orderly
  <2>1. Orderly(conn[k], cmd[k])
    BY <1>1 DEF Routed, Orderly
  <2>2. QED BY <1>3, <1>4, <2>1 DEF Orderly, Late
<1>9. Acted'
  <2> SUFFICES ASSUME NEW c \in Calls, call[c].acted
               PROVE  /\ call[c].conn # None /\ call[c].at \in {"first", "retry"}
                      /\ Settled(conn'[call[c].conn], cmd'[call[c].conn])
    BY <1>2 DEF Acted, Settled
  <2>1. /\ call[c].conn \in Conns /\ call[c].conn # None
        /\ call[c].at \in {"first", "retry"}
        /\ Settled(conn[call[c].conn], cmd[call[c].conn])
    BY <1>1 DEF Acted, Settled, Typed, TypeOK
  <2>2. conn[call[c].conn].client
    BY <1>1, <2>1 DEF Owned
  <2>3. QED BY <1>3, <1>4, <2>1, <2>2 DEF Settled, Late
<1>10. Spent'
  <2>1. ASSUME NEW i \in Ids
        PROVE  /\ past.ran[i] <= IF i \in past.yes THEN 1 ELSE 0
               /\ grant'[i] = "approved" => i \in past.yes
               /\ grant'[i] # "gone" => past.ran[i] = 0
    BY <1>1, <1>5 DEF Spent
  <2>2. ASSUME NEW k \in Conns, cmd'[k].kind = "run"
        PROVE  /\ cmd'[k].id \in Ids /\ cmd'[k].id \in past.yes
               /\ past.ran[cmd'[k].id] = 0 /\ grant'[cmd'[k].id] = "gone"
               /\ \A j \in Conns : cmd'[j].kind = "run" /\ cmd'[j].id = cmd'[k].id => j = k
    <3>1. /\ cmd[k].id \in Ids /\ cmd[k].id \in past.yes
          /\ past.ran[cmd[k].id] = 0 /\ grant[cmd[k].id] = "gone"
          /\ \A j \in Conns : cmd[j].kind = "run" /\ cmd[j].id = cmd[k].id => j = k
      BY <1>1, <1>4, <2>2 DEF Spent
    <3>2. QED BY <1>4, <1>5, <3>1
  <2>3. QED BY <1>2, <2>1, <2>2 DEF Spent
<1>11. Meant'
  <2>1. ASSUME NEW k \in Conns,
               conn'[k].stage \in {"connecting", "hello", "challenge", "request"}
        PROVE  conn'[k] = conn[k]
    BY <1>3, <2>1
  <2>2. QED BY <1>1, <1>2, <2>1 DEF Meant
<1>12. Refused'
  <2>1. ASSUME NEW i, Dead(i) PROVE Dead(i)'
    BY <1>2, <1>4, <1>5, <2>1 DEF Dead
  <2>2. \A c \in Calls : call[c].outcome = "rejected" => Dead(call[c].id)'
    <3> SUFFICES ASSUME NEW c \in Calls, call[c].outcome = "rejected"
                 PROVE  Dead(call[c].id)'
      OBVIOUS
    <3> PICK j : j = call[c].id
      OBVIOUS
    <3>1. Dead(j)'
      BY <1>1, <2>1 DEF Refused
    <3>2. QED BY <1>2, <3>1
  <2>3. \A k \in Conns : conn'[k].stage # "answer"
    BY <1>3
  <2>4. QED BY <1>2, <2>2, <2>3 DEF Refused
<1>13. QED BY <1>6, <1>7, <1>8, <1>9, <1>10, <1>11, <1>12 DEF CallsInv

\* The daemon stands still, goes on, or is started again.
LEMMA StandsKeeps ==
  ASSUME CallsInv, UNCHANGED <<call, conn, cmd, grant, past>>,
         daemon' \in {"up", "frozen", "down"}
  PROVE  CallsInv'
  BY DEF CallsInv, Typed, TypeOK, Owned, Routed, Acted, Spent, Meant, Refused, Dead
-----------------------------------------------------------------------------
\* The requests of the MCP server go on, are answered, or fail.
LEMMA ConnectionKeeps ==
  ASSUME CallsInv, NEW k \in Conns, ConnStep(k)
  PROVE  CallsInv'
<1>1. /\ daemon \in {"up", "frozen", "down"}
      /\ conn[k].client => conn[k].owner \in Calls
  BY DEF CallsInv, Typed, TypeOK, Owned
<1>2. CASE ChallengeComes(k) \/ HelloArrives(k) \/ Accept(k)
  <2>1. PICK st \in {"hello", "challenge", "request", "ended"} :
          conn' = [conn EXCEPT ![k].stage = st]
    <3>1. CASE ChallengeComes(k)
      BY <3>1 DEF ChallengeComes
    <3>2. CASE HelloArrives(k)
      BY <3>2 DEF HelloArrives
    <3>3. CASE Accept(k)
      <4>1. CASE Cardinality(AtDaemon) >= MaxIpc
        <5>1. conn' = [conn EXCEPT ![k].stage = "ended"]
          BY <3>3, <4>1 DEF Accept
        <5>2. QED BY <5>1
      <4>2. CASE ~(Cardinality(AtDaemon) >= MaxIpc)
        <5>1. conn' = [conn EXCEPT ![k].stage = "hello"]
          BY <3>3, <4>2 DEF Accept
        <5>2. QED BY <5>1
      <4>3. QED BY <4>1, <4>2
    <3>4. QED BY <1>2, <3>1, <3>2, <3>3
  <2>2. /\ conn[k].stage \in {"connecting", "hello", "challenge", "request"}
        /\ daemon' = daemon /\ UNCHANGED <<call, cmd, grant, past>>
    BY <1>2 DEF ChallengeComes, HelloArrives, Accept
  <2>3. QED BY <2>1, <2>2, GoesOn
<1>3. CASE AnswerComes(k)
  <2> PICK next : next = IF conn[k].answer = "failed" THEN Failed(conn[k].owner)
                         ELSE Answered(conn[k].owner, conn[k].answer, conn[k].id)
    OBVIOUS
  <2>1. Finishes(k, next) /\ conn[k].client /\ conn[k].stage = "answer"
    BY <1>3 DEF AnswerComes
  <2>2. Sound(next)
    BY <1>1, <2>1, FailedSound, AnsweredSound
  <2>3. UNCHANGED <<cmd, grant, past>> /\ daemon' \in {"up", "frozen", "down"}
    BY <1>1, <1>3 DEF AnswerComes
  <2>4. QED BY <2>1, <2>2, <2>3, FinishKeeps
<1>4. CASE EndComes(k) \/ ClientTimeout(k)
  <2> PICK next : next = Failed(conn[k].owner)
    OBVIOUS
  <2>1. Finishes(k, next) /\ conn[k].client
    BY <1>4 DEF EndComes, ClientTimeout
  <2>2. Sound(next)
    BY <1>1, <2>1, FailedSound
  <2>3. UNCHANGED <<cmd, grant, past>> /\ daemon' \in {"up", "frozen", "down"}
    BY <1>1, <1>4 DEF EndComes, ClientTimeout
  <2>4. QED BY <2>1, <2>2, <2>3, FinishKeeps
<1>5. QED BY <1>2, <1>3, <1>4, ClosedKeeps, RoutedKeeps, BeginKeeps,
             SubmitKeeps DEF ConnStep

LEMMA StepKeeps ==
  ASSUME CallsInv, [Next]_vars
  PROVE  CallsInv'
<1>1. daemon \in {"up", "frozen", "down"}
  BY DEF CallsInv, Typed, TypeOK
<1>2. ASSUME NEW c \in Calls, CallStep(c) PROVE CallsInv'
  BY <1>2, ConnectsKeeps, AskedKeeps DEF CallStep
<1>3. ASSUME NEW k \in Conns, ConnStep(k) PROVE CallsInv'
  BY <1>3, ConnectionKeeps
<1>4. ASSUME NEW k \in Conns, CommandStep(k) PROVE CallsInv'
  BY <1>4, ExtensionKeeps, RunsKeeps, ResultKeeps, CommandTimeoutKeeps DEF CommandStep
<1>5. CASE Starts
  BY <1>5, StandsKeeps DEF Starts
<1>6. CASE Disturbs
  <2>1. ASSUME NEW c \in Calls, ToolCalled(c) \/ ReadCalled(c) \/ AgentDies(c) PROVE CallsInv'
    BY <2>1, CalledKeeps, AgentDiesKeeps
  <2>2. ASSUME NEW k \in Conns, HandshakeTimeout(k) PROVE CallsInv'
    BY <2>2, GoesOn DEF HandshakeTimeout
  <2>3. ASSUME NEW k \in Conns, Loses(k) PROVE CallsInv'
    BY <2>3, ExtensionKeeps
  <2>4. ASSUME NEW i \in Ids, Expires(i) PROVE CallsInv'
    BY <2>4, ExpiresKeeps
  <2>5. CASE Freezes \/ Thaws
    BY <2>5, StandsKeeps DEF Freezes, Thaws
  <2>6. CASE Dies
    BY <2>6, DiesKeeps
  <2>7. QED BY <1>6, <2>1, <2>2, <2>3, <2>4, <2>5, <2>6 DEF Disturbs
<1>7. CASE UNCHANGED vars
  BY <1>1, <1>7, StandsKeeps DEF vars
<1>8. QED BY <1>2, <1>3, <1>4, <1>5, <1>6, <1>7 DEF Next

LEMMA InitHolds ==
  ASSUME Init
  PROVE  CallsInv
<1>1. Idle \in Call /\ Idle.conn = None /\ ~Idle.acted /\ Idle.at = "idle" /\ Idle.outcome = None
  BY DEF Idle, Call, Places, Outcomes, Decisions
<1>2. Free \in Connection /\ Free.stage = "free" /\ ~Free.client
  BY DEF Free, Connection, Stages, Decisions, Answers
<1>3. NoCommand \in Command /\ NoCommand.kind = "none" /\ ~NoCommand.pending
  BY DEF NoCommand, Command, Kinds
<1>4. /\ \A c \in Calls : call[c] = Idle
      /\ \A k \in Conns : conn[k] = Free /\ cmd[k] = NoCommand
      /\ \A i \in Ids : grant[i] = "none" /\ past.ran[i] = 0
      /\ past.yes = {}
  BY DEF Init
<1>5. Typed
  <2>1. /\ call \in [Calls -> Call] /\ conn \in [Conns -> Connection]
        /\ cmd \in [Conns -> Command]
    BY <1>1, <1>2, <1>3 DEF Init
  <2>2. /\ grant \in [Ids -> GrantStates] /\ daemon \in {"up", "frozen", "down"}
        /\ past \in [yes : SUBSET (Ids \cup {None}), ran : [Ids -> Nat]]
    BY DEF Init, GrantStates
  <2>3. QED BY <2>1, <2>2 DEF Typed, TypeOK, Call, Connection, Command
<1>6. Owned /\ Acted
  BY <1>1, <1>2, <1>4 DEF Owned, Acted
<1>7. Routed /\ Spent
  BY <1>2, <1>3, <1>4 DEF Routed, Spent
<1>8. Meant /\ Refused
  BY <1>1, <1>2, <1>4, NoneIsNoName DEF Meant, Refused, NotExecuted
<1>9. QED BY <1>5, <1>6, <1>7, <1>8 DEF CallsInv

THEOREM CallsInvariant == Spec => []CallsInv
<1>1. Init => CallsInv
  BY InitHolds
<1>2. CallsInv /\ [Next]_vars => CallsInv'
  BY StepKeeps
<1>3. QED BY <1>1, <1>2, PTL DEF Spec

\* A sensitive action runs at most once for each approval, and only for one that
\* a human accepted, whatever the number of calls, connections and approvals.
THEOREM CallsConfirmed == Spec => []Confirmed
<1>1. CallsInv => Confirmed
  BY DEF CallsInv, Typed, Spent, Confirmed
<1>2. QED BY <1>1, CallsInvariant, PTL

\* What an agent is told was not executed was not, and stays refused.
THEOREM CallsTruthful == Spec => []Truthful
<1>1. CallsInv => Truthful
  <2> SUFFICES ASSUME CallsInv, NEW c \in Calls
               PROVE  /\ call[c].outcome \in NotExecuted => ~call[c].acted
                      /\ call[c].outcome = "rejected" =>
                           grant[call[c].id] = "gone" /\ past.ran[call[c].id] = 0
    BY DEF Truthful
  <2>1. call[c].outcome \in NotExecuted => ~call[c].acted
    BY NoneIsNoName DEF CallsInv, Acted, Owned
  <2>2. call[c].outcome = "rejected" => Dead(call[c].id)
    BY DEF CallsInv, Refused
  <2>3. QED BY <2>1, <2>2 DEF Dead
<1>2. QED BY <1>1, CallsInvariant, PTL
=============================================================================
