------------------------- MODULE GuidedSetupProofs -------------------------
(***************************************************************************)
(* The ways to a pairing: whom a setup may give a credential to, what a    *)
(* success stands for and what an ended command line has left behind, for  *)
(* any numbers of command lines and browsers, clicks, faults and kills.    *)
(***************************************************************************)
EXTENDS GuidedSetup, FiniteSetTheorems, TLAPS
-----------------------------------------------------------------------------
(* The inductive invariant, part by part. *)

Stages == {"idle", "page", "ticket", "stale", "again", "begin", "poll", "match",
           "cancel", "remove", "unlink", "final", "ok", "failed", "killed"}
Session == [id : Setups \cup {None}, by : Browsers \cup {None},
            at : {"none", "open", "committing", "completed"}]
CommandLine == [pc : Stages, baseline : SUBSET Browsers, chosen : Browsers \cup {None},
                page : BOOLEAN, clean : BOOLEAN]
Extension == [old : BOOLEAN, pairing : Setups \cup {None},
              at : {"no", "ticket", "request", "issued", "committing"},
              native : {"no", "asked", "lost", "begun", "pairs"}]

Types ==
    /\ session \in Session
    /\ saving # None => saving \in [id : Setups, by : Browsers]
    /\ pinned \subseteq Browsers /\ connected \subseteq pinned
    /\ file \in Runs \cup {None} /\ expired \subseteq Runs
    /\ run \in [Runs -> CommandLine] /\ ext \in [Browsers -> Extension]
    /\ told \in [Setups -> SUBSET Browsers] /\ made \in [Setups -> SUBSET Browsers]

\* Before its ticket is there, and before its session was asked for, a command
\* line has given nothing to anybody.
NoTicketYet == {"idle", "page", "ticket", "stale", "again"}
NotBegun == NoTicketYet \cup {"begin"}
Early(c) ==
    /\ run[c].pc = "idle" => run[c].baseline = {}
    /\ run[c].pc \in NoTicketYet => file # c
    /\ run[c].pc \in NotBegun =>
         /\ session.id # c /\ told[c] = {} /\ made[c] = {}
         /\ run[c].chosen = None /\ ~run[c].page /\ run[c].clean

\* The browser a command line has chosen.
Chosen(c) ==
    /\ run[c].pc \in {"match", "final", "ok"} => run[c].chosen # None
    /\ run[c].chosen # None =>
         /\ ~ext[run[c].chosen].old /\ run[c].chosen \notin run[c].baseline
         /\ run[c].page => run[c].chosen \in made[c]

\* What a command line that could take everything away has taken away.
Tidy(c) == run[c].clean =>
    /\ run[c].pc \in {"remove", "unlink", "final", "ok", "failed"} => session.id # c
    /\ run[c].pc \in {"final", "ok", "failed"} => file # c

Lines == \A c \in Runs : Early(c) /\ Chosen(c) /\ Tidy(c)

\* A browser pairs in its own name or for a command line's page.
OwnName == \A b \in Browsers : ext[b].pairing \in Browsers => ext[b].pairing = b

\* Whom a setup gave a credential: one browser, the one its session names.
Given ==
    /\ \A c \in Runs : \A x, y \in told[c] : x = y
    /\ \A b \in Browsers : told[b] \subseteq {b}
    /\ \A i \in Setups : made[i] \subseteq told[i]
    /\ session.id # None /\ session.by # None => session.by \in told[session.id]
    /\ session.id \in Runs /\ session.by = None => told[session.id] = {}
    /\ session.id \in Browsers => session.by \in {None, session.id}
    /\ session.id = None => session.by = None /\ session.at = "none"

\* A commit is the session's own, or has outlived it: for a command line only
\* when the session expired.
Commits ==
    /\ session.at = "committing" => saving = [id |-> session.id, by |-> session.by]
    /\ saving # None => /\ saving.by \in told[saving.id]
                        /\ saving.id \in Runs \ expired =>
                              session.id = saving.id /\ session.at = "committing"
    /\ session.at = "completed" =>
         /\ session.by \in pinned
         /\ session.id \in Runs => session.by \in made[session.id]

GuidedInv == Types /\ Lines /\ OwnName /\ Given /\ Commits

-----------------------------------------------------------------------------
(* What changes one command line.                                          *)

\* What Goes, Dirty and Fails do to a command line, and to no other.
LEMMA Moves ==
    ASSUME Types, NEW c \in Runs, NEW to \in Stages
    PROVE  /\ Goes(c, to) \/ Dirty(c, to) \/ Fails(c, to) =>
                /\ run' \in [Runs -> CommandLine] /\ run'[c].pc = to
                /\ \A d \in Runs \ {c} : run'[d] = run[d]
                /\ run'[c].page = run[c].page
           /\ Goes(c, to) => /\ run'[c].chosen = run[c].chosen /\ run'[c].clean = run[c].clean
                             /\ run'[c].baseline = run[c].baseline
           /\ Dirty(c, to) => /\ run'[c].chosen = run[c].chosen /\ run'[c].clean = FALSE
                              /\ run'[c].baseline = run[c].baseline
           /\ Fails(c, to) => /\ run'[c].chosen = None /\ run'[c].clean = run[c].clean
                              /\ run'[c].baseline = {}
  <1>1. run \in [Runs -> CommandLine] /\ run[c] \in CommandLine
    BY DEF Types
  <1>2. CASE Goes(c, to)
    <2>1. [run[c] EXCEPT !.pc = to] \in CommandLine
      BY <1>1 DEF CommandLine
    <2>2. run' = [run EXCEPT ![c] = [run[c] EXCEPT !.pc = to]]
      BY <1>2 DEF Goes
    <2> QED BY <1>1, <2>1, <2>2 DEF CommandLine, Dirty, Fails
  <1>3. CASE Dirty(c, to)
    <2>1. [run[c] EXCEPT !.pc = to, !.clean = FALSE] \in CommandLine
      BY <1>1 DEF CommandLine
    <2>2. run' = [run EXCEPT ![c] = [run[c] EXCEPT !.pc = to, !.clean = FALSE]]
      BY <1>3 DEF Dirty
    <2> QED BY <1>1, <2>1, <2>2 DEF CommandLine, Goes, Fails
  <1>4. CASE Fails(c, to)
    <2>1. [run[c] EXCEPT !.pc = to, !.chosen = None, !.baseline = {}] \in CommandLine
      BY <1>1 DEF CommandLine
    <2>2. run' = [run EXCEPT ![c] = [run[c] EXCEPT !.pc = to, !.chosen = None, !.baseline = {}]]
      BY <1>4 DEF Fails
    <2> QED BY <1>1, <2>1, <2>2 DEF CommandLine, Goes, Dirty
  <1> QED BY <1>2, <1>3, <1>4

\* A step of a command line that asks the daemon nothing keeps the invariant if
\* it keeps what is said of that command line.
LEMMA LineMoves ==
    ASSUME GuidedInv, NEW c \in Runs, UNCHANGED <<daemonVars, expired, ext>>,
           run' \in [Runs -> CommandLine], \A d \in Runs \ {c} : run'[d] = run[d],
           file' \in {file, None, c}, Early(c)', Chosen(c)', Tidy(c)'
    PROVE  GuidedInv'
  <1>1. Types'
    BY DEF GuidedInv, Types, daemonVars
  <1>2. ASSUME NEW d \in Runs \ {c} PROVE Early(d)' /\ Chosen(d)' /\ Tidy(d)'
    <2>1. run'[d] = run[d] /\ Early(d) /\ Chosen(d) /\ Tidy(d)
      BY DEF GuidedInv, Lines
    <2>2. file' # d \/ file' = file
      BY NamesAssumption
    <2> QED BY <2>1, <2>2 DEF Early, Chosen, Tidy, daemonVars
  <1>3. Lines'
    BY <1>2 DEF Lines
  <1>4. OwnName' /\ Given' /\ Commits'
    BY DEF GuidedInv, OwnName, Given, Commits, daemonVars
  <1> QED BY <1>1, <1>3, <1>4 DEF GuidedInv

LEMMA StartsKeeps == ASSUME GuidedInv, NEW c \in Runs, Starts(c) PROVE GuidedInv'
  <1>1. Types /\ Early(c) /\ Tidy(c) /\ run[c].pc = "idle"
    BY DEF GuidedInv, Lines, Starts
  <1>2. run \in [Runs -> CommandLine] /\ run[c] \in CommandLine
    BY <1>1 DEF Types
  <1>3. CASE \E b \in {b \in connected : ~ext[b].old} :
                run' = [run EXCEPT ![c] = [@ EXCEPT !.pc = "final", !.chosen = b]]
    <2>1. PICK b \in connected : /\ ~ext[b].old
                /\ run' = [run EXCEPT ![c] = [run[c] EXCEPT !.pc = "final", !.chosen = b]]
      BY <1>3
    <2>2. b \in Browsers
      BY <1>1 DEF Types
    <2>3. [run[c] EXCEPT !.pc = "final", !.chosen = b] \in CommandLine
      BY <1>2, <2>2 DEF CommandLine, Stages
    <2>4. /\ run' \in [Runs -> CommandLine] /\ \A d \in Runs \ {c} : run'[d] = run[d]
          /\ run'[c].pc = "final" /\ run'[c].chosen = b /\ run'[c].page = run[c].page
          /\ run'[c].baseline = run[c].baseline
      BY <1>2, <2>1, <2>3 DEF CommandLine
    <2>5. Early(c)' /\ Chosen(c)' /\ Tidy(c)'
      BY <1>1, <2>1, <2>2, <2>4, NamesAssumption
         DEF Starts, Early, Chosen, Tidy, NotBegun, NoTicketYet, daemonVars
    <2> QED BY <2>4, <2>5, LineMoves DEF Starts
  <1>4. CASE \E base \in SUBSET connected :
                run' = [run EXCEPT ![c] = [@ EXCEPT !.pc = "page", !.baseline = base]]
    <2>1. PICK base \in SUBSET connected :
                run' = [run EXCEPT ![c] = [run[c] EXCEPT !.pc = "page", !.baseline = base]]
      BY <1>4
    <2>2. base \subseteq Browsers
      BY <1>1 DEF Types
    <2>3. [run[c] EXCEPT !.pc = "page", !.baseline = base] \in CommandLine
      BY <1>2, <2>2 DEF CommandLine, Stages
    <2>4. /\ run' \in [Runs -> CommandLine] /\ \A d \in Runs \ {c} : run'[d] = run[d]
          /\ run'[c].pc = "page" /\ run'[c].chosen = run[c].chosen /\ run'[c].page = run[c].page
          /\ run'[c].clean = run[c].clean
      BY <1>2, <2>1, <2>3 DEF CommandLine
    <2>5. run[c].chosen = None
      BY <1>1 DEF Early, NotBegun, NoTicketYet
    <2>6. Early(c)' /\ Chosen(c)' /\ Tidy(c)'
      BY <1>1, <2>1, <2>4, <2>5 DEF Starts, Early, Chosen, Tidy, NotBegun, NoTicketYet, daemonVars
    <2> QED BY <2>4, <2>6, LineMoves DEF Starts
  <1> QED BY <1>3, <1>4 DEF Starts

LEMMA PageStartsKeeps == ASSUME GuidedInv, NEW c \in Runs, PageStarts(c) PROVE GuidedInv'
  <1>1. Types /\ Early(c) /\ Chosen(c) /\ Tidy(c) /\ run[c].pc = "page"
    BY DEF GuidedInv, Lines, PageStarts
  <1>2. Goes(c, "ticket") \/ Fails(c, "failed")
    BY DEF PageStarts
  <1>3. "ticket" \in Stages /\ "failed" \in Stages
    BY DEF Stages
  <1>4. Early(c)' /\ Chosen(c)' /\ Tidy(c)'
    BY <1>1, <1>2, <1>3, Moves
       DEF PageStarts, Early, Chosen, Tidy, NotBegun, NoTicketYet, daemonVars
  <1> QED BY <1>1, <1>2, <1>3, <1>4, Moves, LineMoves DEF PageStarts

LEMMA TicketCreatedKeeps == ASSUME GuidedInv, NEW c \in Runs, TicketCreated(c) PROVE GuidedInv'
  <1>1. Types /\ Early(c) /\ Chosen(c) /\ Tidy(c) /\ run[c].pc \in {"ticket", "again"}
    BY DEF GuidedInv, Lines, TicketCreated
  <1>2. {"begin", "stale", "failed"} \subseteq Stages
    BY DEF Stages
  <1>3. \/ file' = c /\ Goes(c, "begin")
        \/ file' = file /\ (Goes(c, "stale") \/ Fails(c, "failed"))
    BY DEF TicketCreated
  <1>4. Early(c)' /\ Chosen(c)' /\ Tidy(c)'
    BY <1>1, <1>2, <1>3, Moves
       DEF TicketCreated, Early, Chosen, Tidy, NotBegun, NoTicketYet, daemonVars
  <1> QED BY <1>1, <1>2, <1>3, <1>4, Moves, LineMoves DEF TicketCreated

LEMMA StaleRemovedKeeps == ASSUME GuidedInv, NEW c \in Runs, StaleRemoved(c) PROVE GuidedInv'
  <1>1. Types /\ Early(c) /\ Chosen(c) /\ Tidy(c) /\ run[c].pc = "stale"
    BY DEF GuidedInv, Lines, StaleRemoved
  <1>2. {"again", "failed"} \subseteq Stages
    BY DEF Stages
  <1>3. file' \in {file, None} /\ (Goes(c, "again") \/ Fails(c, "failed"))
    BY DEF StaleRemoved
  <1>4. Early(c)' /\ Chosen(c)' /\ Tidy(c)'
    BY <1>1, <1>2, <1>3, Moves, NamesAssumption
       DEF StaleRemoved, Early, Chosen, Tidy, NotBegun, NoTicketYet, daemonVars
  <1> QED BY <1>1, <1>2, <1>3, <1>4, Moves, LineMoves DEF StaleRemoved

LEMMA PollsKeeps == ASSUME GuidedInv, NEW c \in Runs, Polls(c) PROVE GuidedInv'
  <1>1. Types /\ Early(c) /\ Chosen(c) /\ Tidy(c) /\ run[c].pc = "poll"
    BY DEF GuidedInv, Lines, Polls
  <1>2. "cancel" \in Stages /\ "match" \in Stages
    BY DEF Stages
  <1>3. CASE Fails(c, "cancel")
    <2>1. Early(c)' /\ Chosen(c)' /\ Tidy(c)'
      BY <1>1, <1>2, <1>3, Moves
         DEF Polls, Early, Chosen, Tidy, NotBegun, NoTicketYet, daemonVars
    <2> QED BY <1>1, <1>2, <1>3, <2>1, Moves, LineMoves DEF Polls
  <1>4. CASE /\ Receipt(c) = "completed"
             /\ ~ext[session.by].old /\ session.by \notin run[c].baseline
             /\ run' = [run EXCEPT ![c] = [@ EXCEPT !.pc = "match", !.chosen = session.by]]
    <2>1. session.id = c /\ session.by # None /\ session.at = "completed"
      BY <1>4 DEF Receipt
    <2>2. session.by \in Browsers /\ session.by \in made[c]
      BY <1>1, <2>1 DEF Types, Session, GuidedInv, Commits
    <2>3. run \in [Runs -> CommandLine] /\ run[c] \in CommandLine
      BY <1>1 DEF Types
    <2>4. [run[c] EXCEPT !.pc = "match", !.chosen = session.by] \in CommandLine
      BY <1>2, <2>2, <2>3 DEF CommandLine
    <2>5. run' = [run EXCEPT ![c] = [run[c] EXCEPT !.pc = "match", !.chosen = session.by]]
      BY <1>4
    <2>6. /\ run' \in [Runs -> CommandLine] /\ \A d \in Runs \ {c} : run'[d] = run[d]
          /\ run'[c].pc = "match" /\ run'[c].chosen = session.by
          /\ run'[c].baseline = run[c].baseline
      BY <2>3, <2>4, <2>5 DEF CommandLine
    <2>7. Early(c)' /\ Chosen(c)' /\ Tidy(c)'
      BY <1>1, <1>4, <2>2, <2>6, NamesAssumption
         DEF Polls, Early, Chosen, Tidy, NotBegun, NoTicketYet, daemonVars
    <2> QED BY <2>6, <2>7, LineMoves DEF Polls
  <1> QED BY <1>3, <1>4 DEF Polls

LEMMA MatchesKeeps == ASSUME GuidedInv, NEW c \in Runs, Matches(c) PROVE GuidedInv'
  <1>1. Types /\ Early(c) /\ Chosen(c) /\ Tidy(c) /\ run[c].pc = "match"
    BY DEF GuidedInv, Lines, Matches
  <1>2. "cancel" \in Stages /\ "poll" \in Stages
    BY DEF Stages
  <1>3. CASE Goes(c, "cancel")
    <2>1. Early(c)' /\ Chosen(c)' /\ Tidy(c)'
      BY <1>1, <1>2, <1>3, Moves
         DEF Matches, Early, Chosen, Tidy, NotBegun, NoTicketYet, daemonVars
    <2> QED BY <1>1, <1>2, <1>3, <2>1, Moves, LineMoves DEF Matches
  <1>4. CASE run' = [run EXCEPT ![c] = [@ EXCEPT !.pc = "poll", !.chosen = None]]
    <2>1. run \in [Runs -> CommandLine] /\ run[c] \in CommandLine
      BY <1>1 DEF Types
    <2>2. [run[c] EXCEPT !.pc = "poll", !.chosen = None] \in CommandLine
      BY <1>2, <2>1 DEF CommandLine
    <2>3. /\ run' \in [Runs -> CommandLine] /\ \A d \in Runs \ {c} : run'[d] = run[d]
          /\ run'[c].pc = "poll" /\ run'[c].chosen = None
      BY <1>4, <2>1, <2>2 DEF CommandLine
    <2>4. Early(c)' /\ Chosen(c)' /\ Tidy(c)'
      BY <1>1, <2>3 DEF Matches, Early, Chosen, Tidy, NotBegun, NoTicketYet, daemonVars
    <2> QED BY <2>3, <2>4, LineMoves DEF Matches
  <1> QED BY <1>3, <1>4 DEF Matches

LEMMA GivesUpKeeps == ASSUME GuidedInv, NEW c \in Runs, GivesUp(c) PROVE GuidedInv'
  <1>1. Types /\ Early(c) /\ Chosen(c) /\ Tidy(c) /\ Fails(c, "cancel") /\ "cancel" \in Stages
    BY DEF GuidedInv, Lines, GivesUp, Stages
  <1>2. Early(c)' /\ Chosen(c)' /\ Tidy(c)'
    BY <1>1, Moves DEF GivesUp, Early, Chosen, Tidy, NotBegun, NoTicketYet, daemonVars
  <1> QED BY <1>1, <1>2, Moves, LineMoves DEF GivesUp

LEMMA TicketCheckedKeeps == ASSUME GuidedInv, NEW c \in Runs, TicketChecked(c) PROVE GuidedInv'
  <1>1. Types /\ Early(c) /\ Chosen(c) /\ Tidy(c) /\ run[c].pc = "remove"
    BY DEF GuidedInv, Lines, TicketChecked
  <1>2. "unlink" \in Stages /\ "failed" \in Stages /\ (Goes(c, "unlink") \/ Dirty(c, "failed"))
    BY DEF Stages, TicketChecked
  <1>3. Early(c)' /\ Chosen(c)' /\ Tidy(c)'
    BY <1>1, <1>2, Moves
       DEF TicketChecked, Early, Chosen, Tidy, NotBegun, NoTicketYet, daemonVars
  <1> QED BY <1>1, <1>2, <1>3, Moves, LineMoves DEF TicketChecked

LEMMA TicketRemovedKeeps == ASSUME GuidedInv, NEW c \in Runs, TicketRemoved(c) PROVE GuidedInv'
  <1>1. Types /\ Early(c) /\ Chosen(c) /\ Tidy(c) /\ run[c].pc = "unlink" /\ file' = None
    BY DEF GuidedInv, Lines, TicketRemoved
  <1>2. \/ Goes(c, "final") /\ run[c].chosen # None
        \/ Goes(c, "failed") \/ Dirty(c, "failed")
    BY DEF TicketRemoved, Result
  <1>3. "final" \in Stages /\ "failed" \in Stages
    BY DEF Stages
  <1>4. file' # c /\ run[c].pc = "unlink"
    BY <1>1, NamesAssumption
  <1>5. CASE Goes(c, "final") /\ run[c].chosen # None
    <2>1. Early(c)' /\ Chosen(c)' /\ Tidy(c)'
      BY <1>1, <1>3, <1>4, <1>5, Moves
         DEF TicketRemoved, Early, Chosen, Tidy, NotBegun, NoTicketYet, daemonVars
    <2> QED BY <1>1, <1>3, <1>5, <2>1, Moves, LineMoves DEF TicketRemoved
  <1>6. CASE Goes(c, "failed") \/ Dirty(c, "failed")
    <2>1. Early(c)' /\ Chosen(c)' /\ Tidy(c)'
      BY <1>1, <1>3, <1>4, <1>6, Moves
         DEF TicketRemoved, Early, Chosen, Tidy, NotBegun, NoTicketYet, daemonVars
    <2> QED BY <1>1, <1>3, <1>6, <2>1, Moves, LineMoves DEF TicketRemoved
  <1> QED BY <1>2, <1>5, <1>6

LEMMA EndsKeeps == ASSUME GuidedInv, NEW c \in Runs, Ends(c) PROVE GuidedInv'
  <1>1. Types /\ Early(c) /\ Chosen(c) /\ Tidy(c) /\ run[c].pc = "final"
    BY DEF GuidedInv, Lines, Ends
  <1>2. "ok" \in Stages /\ "failed" \in Stages /\ (Goes(c, "ok") \/ Goes(c, "failed"))
    BY DEF Stages, Ends
  <1>3. Early(c)' /\ Chosen(c)' /\ Tidy(c)'
    BY <1>1, <1>2, Moves DEF Ends, Early, Chosen, Tidy, NotBegun, NoTicketYet, daemonVars
  <1> QED BY <1>1, <1>2, <1>3, Moves, LineMoves DEF Ends

LEMMA KilledKeeps == ASSUME GuidedInv, NEW c \in Runs, Killed(c) PROVE GuidedInv'
  <1>1. Types /\ Early(c) /\ Chosen(c) /\ Tidy(c) /\ Goes(c, "killed") /\ "killed" \in Stages
    BY DEF GuidedInv, Lines, Killed, Stages
  <1>2. Early(c)' /\ Chosen(c)' /\ Tidy(c)'
    BY <1>1, Moves DEF Killed, Early, Chosen, Tidy, NotBegun, NoTicketYet, daemonVars
  <1> QED BY <1>1, <1>2, Moves, LineMoves DEF Killed

-----------------------------------------------------------------------------
(* What changes the daemon or an extension.                                *)

\* What is said of the command lines holds when none moves, no ticket is put
\* down, no session is begun for one, and what was given stays given.
LEMMA LinesKept ==
    ASSUME GuidedInv, UNCHANGED run, file' \in {file, None},
           session'.id \in {session.id, None} \cup Browsers,
           \A b \in Browsers : ext'[b].old = ext[b].old,
           \A c \in Runs : run[c].pc \in NotBegun => told'[c] = told[c] /\ made'[c] = made[c],
           \A c \in Runs : made[c] \subseteq made'[c]
    PROVE  Lines'
  <1>1. SUFFICES ASSUME NEW c \in Runs PROVE Early(c)' /\ Chosen(c)' /\ Tidy(c)'
    BY DEF Lines
  <1>2. Early(c) /\ Chosen(c) /\ Tidy(c) /\ run[c] \in CommandLine
    BY DEF GuidedInv, Lines, Types
  <1>3. run[c].chosen \in Browsers \cup {None}
    BY <1>2 DEF CommandLine
  <1>4. /\ file' = c => file = c
        /\ session'.id = c => session.id = c
    BY NamesAssumption
  <1>5. Early(c)'
    BY <1>2, <1>4 DEF Early
  <1>6. Chosen(c)'
    <2>1. run[c].chosen # None => ext'[run[c].chosen].old = ext[run[c].chosen].old
      BY <1>3
    <2> QED BY <1>2, <2>1 DEF Chosen
  <1>7. Tidy(c)'
    BY <1>2, <1>4 DEF Tidy
  <1> QED BY <1>5, <1>6, <1>7

\* A session goes: no commit of a command line that was not expired is left alone.
LEMMA SessionGone ==
    ASSUME GuidedInv, NEW i, Cancelled(i), expired \subseteq expired',
           session.id = i /\ i \in Runs \ expired' => session.at # "committing",
           UNCHANGED <<saving, pinned, told, made>>
    PROVE  /\ session' \in Session /\ session'.id \in {session.id, None}
           /\ Given' /\ Commits'
  <1>1. Types /\ Given /\ Commits
    BY DEF GuidedInv
  <1>2. CASE session.id = i
    <2>1. session' = NoSession
      BY <1>2 DEF Cancelled
    <2>2. session' \in Session /\ session'.id = None /\ session'.by = None /\ session'.at = "none"
      BY <2>1 DEF NoSession, Session
    <2>3. Given'
      BY <1>1, <2>2, NamesAssumption DEF Given, Setups
    <2>4. Commits'
      BY <1>1, <1>2, <2>2 DEF Commits
    <2> QED BY <2>2, <2>3, <2>4
  <1>3. CASE session.id # i
    <2>1. session' = session
      BY <1>3 DEF Cancelled
    <2>2. Given' /\ Commits'
      BY <1>1, <2>1 DEF Given, Commits
    <2> QED BY <1>1, <2>1, <2>2 DEF Types
  <1> QED BY <1>2, <1>3

LEMMA ExpiresKeeps == ASSUME GuidedInv, NEW i \in Setups, Expires(i) PROVE GuidedInv'
  <1>1. Cancelled(i) /\ expired' = expired \cup ({i} \cap Runs) /\ Types
    BY DEF GuidedInv, Expires
  <1>2. session' \in Session /\ session'.id \in {session.id, None} /\ Given' /\ Commits'
    BY <1>1, SessionGone DEF Expires
  <1>3. Types'
    BY <1>1, <1>2 DEF Types, Expires
  <1>4. Lines'
    BY <1>2, LinesKept DEF Expires
  <1> QED BY <1>2, <1>3, <1>4 DEF GuidedInv, OwnName, Expires

LEMMA DaemonRestartsKeeps == ASSUME GuidedInv, DaemonRestarts PROVE GuidedInv'
  <1>1. Types /\ Given /\ Commits
    BY DEF GuidedInv
  <1>2. session' \in Session /\ session'.id = None /\ session'.by = None /\ session'.at = "none"
    BY DEF DaemonRestarts, NoSession, Session
  <1>3. saving' = None /\ connected' = {} /\ UNCHANGED <<told, made, file, expired, run, ext>>
    BY DEF DaemonRestarts
  <1>4. pinned' \subseteq Browsers
    BY <1>1 DEF Types, DaemonRestarts
  <1>5. Types'
    BY <1>1, <1>2, <1>3, <1>4 DEF Types
  <1>6. Given' /\ Commits'
    BY <1>1, <1>2, <1>3, NamesAssumption DEF Given, Commits, Setups
  <1>7. Lines'
    BY <1>2, <1>3, LinesKept
  <1> QED BY <1>3, <1>5, <1>6, <1>7 DEF GuidedInv, OwnName

LEMMA ConnectionsKeep ==
    ASSUME GuidedInv, NEW b \in Browsers, Connects(b) \/ Disconnects(b)
    PROVE  GuidedInv'
  <1>1. /\ UNCHANGED <<session, saving, pinned, told, made, file, expired, run, ext>>
        /\ connected' \subseteq connected \cup (pinned \cap {b})
    BY DEF Connects, Disconnects
  <1>2. Types'
    BY <1>1 DEF GuidedInv, Types
  <1>3. Lines'
    BY <1>1, LinesKept
  <1> QED BY <1>1, <1>2, <1>3 DEF GuidedInv, OwnName, Given, Commits

\* A session is begun: the one before was over.
LEMMA SessionBegun ==
    ASSUME GuidedInv, NEW i \in Setups, Accepts(i), Opens(i), i \in Runs => told[i] = {},
           UNCHANGED <<saving, pinned, told, made, expired>>
    PROVE  session' \in Session /\ session'.id = i /\ Given' /\ Commits'
  <1>1. Types /\ Given /\ Commits
    BY DEF GuidedInv
  <1>2. session' \in Session /\ session'.id = i /\ session'.by = None /\ session'.at = "open"
    BY DEF Opens, Session
  <1>3. session.at = "committing" => session.id \in Setups
    BY <1>1 DEF Given, Types, Session
  <1>4. session.at # "committing"
    BY <1>3, NamesAssumption DEF Accepts, Setups
  <1>5. Given'
    BY <1>1, <1>2, NamesAssumption DEF Given, Setups
  <1>6. Commits'
    BY <1>1, <1>2, <1>4 DEF Commits
  <1> QED BY <1>2, <1>5, <1>6

\* A step of a command line that begins or cancels its own session.
LEMMA LineAsks ==
    ASSUME GuidedInv, NEW c \in Runs, session' \in Session, session'.id \in {session.id, None, c},
           Given', Commits', UNCHANGED <<saving, pinned, connected, told, made, file, expired, ext>>,
           run' \in [Runs -> CommandLine], \A d \in Runs \ {c} : run'[d] = run[d],
           Early(c)', Chosen(c)', Tidy(c)'
    PROVE  GuidedInv'
  <1>1. Types'
    BY DEF GuidedInv, Types
  <1>2. ASSUME NEW d \in Runs \ {c} PROVE Early(d)' /\ Chosen(d)' /\ Tidy(d)'
    <2>1. run'[d] = run[d] /\ Early(d) /\ Chosen(d) /\ Tidy(d)
      BY DEF GuidedInv, Lines
    <2>2. session'.id = d => session.id = d
      BY NamesAssumption
    <2> QED BY <2>1, <2>2 DEF Early, Chosen, Tidy
  <1>3. Lines'
    BY <1>2 DEF Lines
  <1> QED BY <1>1, <1>3 DEF GuidedInv, OwnName

LEMMA BeginsKeeps == ASSUME GuidedInv, NEW c \in Runs, Begins(c) PROVE GuidedInv'
  <1>1. Types /\ Early(c) /\ Chosen(c) /\ Tidy(c) /\ run[c].pc = "begin" /\ c \in Setups
    BY DEF GuidedInv, Lines, Begins, Setups
  <1>2. session.id # c /\ told[c] = {} /\ run[c].chosen = None
    BY <1>1 DEF Early, NotBegun
  <1>3. "poll" \in Stages /\ "cancel" \in Stages
    BY DEF Stages
  <1>4. CASE Accepts(c) /\ Opens(c)
    <2>1. session' \in Session /\ session'.id = c /\ Given' /\ Commits'
      BY <1>1, <1>2, <1>4, SessionBegun DEF Begins
    <2>2. CASE run' = [run EXCEPT ![c] = [@ EXCEPT !.pc = "poll", !.page = TRUE]]
      <3>1. run \in [Runs -> CommandLine] /\ run[c] \in CommandLine
        BY <1>1 DEF Types
      <3>2. [run[c] EXCEPT !.pc = "poll", !.page = TRUE] \in CommandLine
        BY <1>3, <3>1 DEF CommandLine
      <3>3. /\ run' \in [Runs -> CommandLine] /\ \A d \in Runs \ {c} : run'[d] = run[d]
            /\ run'[c].pc = "poll" /\ run'[c].chosen = None
        BY <1>2, <2>2, <3>1, <3>2 DEF CommandLine
      <3>4. Early(c)' /\ Chosen(c)' /\ Tidy(c)'
        BY <3>3 DEF Early, Chosen, Tidy, NotBegun, NoTicketYet
      <3> QED BY <2>1, <3>3, <3>4, LineAsks DEF Begins
    <2>3. CASE Fails(c, "cancel")
      <3>1. Early(c)' /\ Chosen(c)' /\ Tidy(c)'
        BY <1>1, <1>3, <2>3, Moves DEF Early, Chosen, Tidy, NotBegun, NoTicketYet
      <3> QED BY <1>1, <1>3, <2>1, <2>3, <3>1, Moves, LineAsks DEF Begins
    <2> QED BY <1>4, <2>2, <2>3 DEF Begins
  <1>5. CASE Fails(c, "cancel") /\ UNCHANGED session
    <2>1. Early(c)' /\ Chosen(c)' /\ Tidy(c)'
      BY <1>1, <1>3, <1>5, Moves DEF Early, Chosen, Tidy, NotBegun, NoTicketYet
    <2> QED BY <1>1, <1>3, <1>5, <2>1, Moves, LineMoves DEF Begins, daemonVars
  <1> QED BY <1>4, <1>5 DEF Begins

LEMMA CancelsKeeps == ASSUME GuidedInv, NEW c \in Runs, Cancels(c) PROVE GuidedInv'
  <1>1. Types /\ Early(c) /\ Chosen(c) /\ Tidy(c) /\ run[c].pc = "cancel" /\ "remove" \in Stages
    BY DEF GuidedInv, Lines, Cancels, Stages
  <1>2. CASE Cancellable(c) /\ Cancelled(c) /\ (Goes(c, "remove") \/ Dirty(c, "remove"))
    <2>1. session' \in Session /\ session'.id \in {session.id, None} /\ Given' /\ Commits'
      BY <1>2, SessionGone DEF Cancels, Cancellable
    <2>2. session'.id # c
      BY <1>2, NamesAssumption DEF Cancelled, NoSession
    <2>3. Early(c)' /\ Chosen(c)' /\ Tidy(c)'
      BY <1>1, <1>2, <2>2, Moves DEF Cancels, Early, Chosen, Tidy, NotBegun, NoTicketYet
    <2> QED BY <1>1, <1>2, <2>1, <2>3, Moves, LineAsks DEF Cancels
  <1>3. CASE Dirty(c, "remove") /\ UNCHANGED session
    <2>1. Early(c)' /\ Chosen(c)' /\ Tidy(c)'
      BY <1>1, <1>3, Moves DEF Cancels, Early, Chosen, Tidy, NotBegun, NoTicketYet
    <2> QED BY <1>1, <1>3, <2>1, Moves, LineMoves DEF Cancels, daemonVars
  <1> QED BY <1>2, <1>3 DEF Cancels

\* A new state of one extension keeps its version and pairs in its own name.
LEMMA Becomes ==
    ASSUME GuidedInv, NEW b \in Browsers, NEW e \in Extension, e.old = ext[b].old,
           e.pairing \in {ext[b].pairing, b, None} \cup Runs, ext' = [ext EXCEPT ![b] = e]
    PROVE  /\ ext' \in [Browsers -> Extension] /\ OwnName'
           /\ \A a \in Browsers : ext'[a].old = ext[a].old
  <1>1. ext \in [Browsers -> Extension] /\ OwnName
    BY DEF GuidedInv, Types
  <1>2. \A a \in Browsers : ext'[a] = IF a = b THEN e ELSE ext[a]
    BY <1>1
  <1>3. OwnName'
    BY <1>1, <1>2, NamesAssumption DEF OwnName
  <1> QED BY <1>1, <1>2, <1>3

LEMMA PairingIs ==
    ASSUME GuidedInv, NEW b \in Browsers, NEW i \in {ext[b].pairing, b, None} \cup Runs,
           NEW at \in {"no", "ticket", "request", "issued", "committing"}, Pairing(b, i, at)
    PROVE  /\ ext' \in [Browsers -> Extension] /\ OwnName'
           /\ \A a \in Browsers : ext'[a].old = ext[a].old
  <1>1. ext[b] \in Extension
    BY DEF GuidedInv, Types
  <1>2. i \in Setups \cup {None}
    BY <1>1 DEF Extension, Setups
  <1> DEFINE e == [ext[b] EXCEPT !.pairing = i, !.at = at]
  <1>3. e \in Extension /\ e.old = ext[b].old /\ e.pairing = i
    BY <1>1, <1>2 DEF Extension
  <1>4. ext' = [ext EXCEPT ![b] = e]
    BY DEF Pairing
  <1> HIDE DEF e
  <1> QED BY <1>3, <1>4, Becomes

\* A step of one extension that leaves the daemon alone, or only its connection.
LEMMA ExtMoves ==
    ASSUME GuidedInv, ext' \in [Browsers -> Extension], OwnName',
           \A a \in Browsers : ext'[a].old = ext[a].old, connected' \subseteq connected,
           UNCHANGED <<session, saving, pinned, told, made, file, expired, run>>
    PROVE  GuidedInv'
  <1>1. Types'
    BY DEF GuidedInv, Types
  <1>2. Lines'
    BY LinesKept
  <1> QED BY <1>1, <1>2 DEF GuidedInv, Given, Commits

LEMMA NativeIs ==
    ASSUME GuidedInv, NEW b \in Browsers, NEW x \in {"no", "asked", "lost", "begun", "pairs"},
           ext' = [ext EXCEPT ![b].native = x]
    PROVE  /\ ext' \in [Browsers -> Extension] /\ OwnName'
           /\ \A a \in Browsers : ext'[a].old = ext[a].old
  <1>1. ext[b] \in Extension
    BY DEF GuidedInv, Types
  <1> DEFINE e == [ext[b] EXCEPT !.native = x]
  <1>2. e \in Extension /\ e.old = ext[b].old /\ e.pairing = ext[b].pairing
    BY <1>1 DEF Extension
  <1>3. ext' = [ext EXCEPT ![b] = e]
    OBVIOUS
  <1> HIDE DEF e
  <1> QED BY <1>2, <1>3, Becomes

\* What an extension does on its own.
LEMMA AloneKeeps ==
    ASSUME GuidedInv, NEW b \in Browsers,
           \/ \E c \in Runs : Clicked(b, c)
           \/ TicketRead(b) \/ PairingFails(b) \/ NativeAsked(b) \/ HostRefuses(b)
           \/ NativePairs(b) \/ WorkerDies(b)
    PROVE  GuidedInv'
  <1>1. file \in Runs \cup {None} /\ ext[b] \in Extension
    BY DEF GuidedInv, Types
  <1>2. CASE \E c \in Runs : Clicked(b, c)
    <2>1. PICK c \in Runs : Clicked(b, c)
      BY <1>2
    <2> QED BY <2>1, PairingIs, ExtMoves DEF Clicked, daemonVars
  <1>3. CASE TicketRead(b)
    <2>1. Pairing(b, file, "request") \/ Pairing(b, None, "no")
      BY <1>3 DEF TicketRead, PairingEnds
    <2> QED BY <1>1, <1>3, <2>1, PairingIs, ExtMoves DEF TicketRead, daemonVars
  <1>4. CASE PairingFails(b)
    BY <1>4, PairingIs, ExtMoves DEF PairingFails, PairingEnds, daemonVars
  <1>5. CASE NativeAsked(b)
    BY <1>5, NativeIs, ExtMoves DEF NativeAsked, daemonVars
  <1>6. CASE HostRefuses(b)
    BY <1>6, NativeIs, ExtMoves DEF HostRefuses, daemonVars
  <1>7. CASE NativePairs(b)
    <2> DEFINE e == IF ext[b].pairing = None
                    THEN [ext[b] EXCEPT !.native = "pairs", !.pairing = b, !.at = "request"]
                    ELSE [ext[b] EXCEPT !.native = "pairs"]
    <2>1. e \in Extension /\ e.old = ext[b].old /\ e.pairing \in {ext[b].pairing, b}
      BY <1>1 DEF Extension, Setups
    <2>2. ext' = [ext EXCEPT ![b] = e]
      BY <1>7 DEF NativePairs
    <2> HIDE DEF e
    <2>3. ext' \in [Browsers -> Extension] /\ OwnName' /\ \A a \in Browsers : ext'[a].old = ext[a].old
      BY <2>1, <2>2, Becomes
    <2> QED BY <1>7, <2>3, ExtMoves DEF NativePairs, daemonVars
  <1>8. CASE WorkerDies(b)
    <2> DEFINE e == [ext[b] EXCEPT !.pairing = None, !.at = "no",
                       !.native = IF ext[b].native = "asked" THEN "lost" ELSE "no"]
    <2>1. e \in Extension /\ e.old = ext[b].old /\ e.pairing = None
      BY <1>1 DEF Extension
    <2>2. ext' = [ext EXCEPT ![b] = e]
      BY <1>8 DEF WorkerDies
    <2> HIDE DEF e
    <2>3. ext' \in [Browsers -> Extension] /\ OwnName' /\ \A a \in Browsers : ext'[a].old = ext[a].old
      BY <2>1, <2>2, Becomes
    <2> QED BY <1>8, <2>3, ExtMoves DEF WorkerDies
  <1> QED BY <1>2, <1>3, <1>4, <1>5, <1>6, <1>7, <1>8

\* What the native helper asks of the daemon.
LEMMA HostBeginsKeeps == ASSUME GuidedInv, NEW b \in Browsers, HostBegins(b) PROVE GuidedInv'
  <1>1. CASE Accepts(b)
    <2>1. b \in Setups /\ b \notin Runs
      BY NamesAssumption DEF Setups
    <2>2. session' \in Session /\ session'.id = b /\ Given' /\ Commits'
      BY <1>1, <2>1, SessionBegun DEF HostBegins
    <2>3. PICK answer \in {"begun", "no"} : ext' = [ext EXCEPT ![b].native = answer]
      BY <1>1 DEF HostBegins
    <2>4. ext' \in [Browsers -> Extension] /\ OwnName' /\ \A a \in Browsers : ext'[a].old = ext[a].old
      BY <2>3, NativeIs
    <2>5. Types'
      BY <2>2, <2>4 DEF GuidedInv, Types, HostBegins
    <2>6. Lines'
      BY <2>2, <2>4, LinesKept DEF HostBegins
    <2> QED BY <2>2, <2>4, <2>5, <2>6 DEF GuidedInv
  <1>2. CASE ~Accepts(b)
    BY <1>2, NativeIs, ExtMoves DEF HostBegins
  <1> QED BY <1>1, <1>2

LEMMA NativeCancelsKeeps == ASSUME GuidedInv, NEW b \in Browsers, NativeCancels(b) PROVE GuidedInv'
  <1>1. ext' \in [Browsers -> Extension] /\ OwnName' /\ \A a \in Browsers : ext'[a].old = ext[a].old
    BY NativeIs DEF NativeCancels
  <1>2. CASE Cancelled(b)
    <2>1. session' \in Session /\ session'.id \in {session.id, None} /\ Given' /\ Commits'
      BY <1>2, SessionGone, NamesAssumption DEF NativeCancels
    <2>2. Types'
      BY <1>1, <2>1 DEF GuidedInv, Types, NativeCancels
    <2>3. Lines'
      BY <1>1, <2>1, LinesKept DEF NativeCancels
    <2> QED BY <1>1, <2>1, <2>2, <2>3 DEF GuidedInv
  <1>3. CASE UNCHANGED session
    BY <1>1, <1>3, ExtMoves DEF NativeCancels
  <1> QED BY <1>2, <1>3 DEF NativeCancels

\* A session gives its credential.
LEMMA AskedKeeps == ASSUME GuidedInv, NEW b \in Browsers, Asked(b) PROVE GuidedInv'
  <1> DEFINE i == ext[b].pairing
  <1>1. Types /\ Lines /\ OwnName /\ Given /\ Commits /\ session \in Session
        /\ ext[b] \in Extension
    BY DEF GuidedInv, Types
  <1>2. CASE /\ Enrols(b, i) /\ Answered(b, i)
             /\ session' = [session EXCEPT !.by = b]
             /\ told' = [told EXCEPT ![i] = @ \cup {b}]
    <2>1. ext' \in [Browsers -> Extension] /\ OwnName' /\ \A a \in Browsers : ext'[a].old = ext[a].old
      BY <1>2, PairingIs DEF Answered
    <2>2. /\ session' \in Session /\ session'.by = b
          /\ session'.id = session.id /\ session'.at = session.at
      BY <1>1, <1>2 DEF Session
    <2>3. session.id = i /\ session.at = "open" /\ session.by \in {None, b}
      BY <1>2 DEF Enrols
    <2>4. i \in Setups
      BY <1>1, <2>3, NamesAssumption DEF Given, Extension
    <2>5. told' \in [Setups -> SUBSET Browsers] /\ told'[i] = told[i] \cup {b}
          /\ \A j \in Setups : j # i => told'[j] = told[j]
      BY <1>1, <1>2, <2>4 DEF Types
    <2> HIDE DEF i
    <2>6. i \in Runs => told[i] \subseteq {b}
      BY <1>1, <2>3, NamesAssumption DEF Given
    <2>7. i \in Browsers => i = b
      BY <1>1 DEF OwnName, i
    <2>8. Given'
      BY <1>1, <2>2, <2>3, <2>4, <2>5, <2>6, <2>7, NamesAssumption DEF Given, Setups, Asked
    <2>9. Commits'
      BY <1>1, <2>2, <2>3, <2>5 DEF Commits, Types, Asked
    <2>10. Types'
      BY <1>1, <2>1, <2>2, <2>5 DEF Types, Asked
    <2>11. \A c \in Runs : run[c].pc \in NotBegun => told'[c] = told[c] /\ made'[c] = made[c]
      BY <1>1, <2>3, <2>5 DEF Lines, Early, Setups, Asked
    <2>12. Lines'
      BY <2>1, <2>2, <2>11, LinesKept DEF Asked
    <2> QED BY <2>1, <2>8, <2>9, <2>10, <2>12 DEF GuidedInv
  <1>3. CASE PairingEnds(b) /\ UNCHANGED <<session, told>>
    BY <1>3, PairingIs, ExtMoves DEF Asked, PairingEnds
  <1> QED BY <1>2, <1>3 DEF Asked

\* The commit begins, or an answer that was lost is had again.
LEMMA ProvesKeeps == ASSUME GuidedInv, NEW b \in Browsers, Proves(b) PROVE GuidedInv'
  <1> DEFINE i == ext[b].pairing
  <1>1. Types /\ Given /\ Commits /\ session \in Session /\ ext[b] \in Extension
    BY DEF GuidedInv, Types
  <1>2. CASE /\ session.id = i /\ session.by = b /\ session.at = "open" /\ saving = None
             /\ session' = [session EXCEPT !.at = "committing"]
             /\ saving' = [id |-> i, by |-> b] /\ connected' = connected \ {b}
             /\ Pairing(b, i, "committing")
    <2>1. ext' \in [Browsers -> Extension] /\ OwnName' /\ \A a \in Browsers : ext'[a].old = ext[a].old
      BY <1>2, PairingIs
    <2>2. i \in Setups
      BY <1>1, <1>2, NamesAssumption DEF Given, Extension
    <2> HIDE DEF i
    <2>3. /\ session' \in Session /\ session'.id = i /\ session'.by = b
          /\ session'.at = "committing"
      BY <1>1, <1>2 DEF Session
    <2>4. saving' \in [id : Setups, by : Browsers] /\ saving'.id = i /\ saving'.by = b
      BY <1>2, <2>2
    <2>5. b \in told[i]
      BY <1>1, <1>2, <2>2, NamesAssumption DEF Given, Setups
    <2>6. Types'
      BY <1>1, <1>2, <2>1, <2>3, <2>4 DEF Types, Proves
    <2>7. Given'
      BY <1>1, <1>2, <2>3 DEF Given, Proves
    <2>8. Commits'
      BY <1>1, <1>2, <2>3, <2>4, <2>5 DEF Commits, Proves
    <2>9. Lines'
      BY <1>2, <2>1, <2>3, LinesKept DEF Proves
    <2> QED BY <2>1, <2>6, <2>7, <2>8, <2>9 DEF GuidedInv
  <1>3. CASE /\ session.by = b /\ session.at = "completed"
             /\ connected' = connected \cup {b} /\ PairingEnds(b)
             /\ UNCHANGED <<session, saving>>
    <2>1. ext' \in [Browsers -> Extension] /\ OwnName' /\ \A a \in Browsers : ext'[a].old = ext[a].old
      BY <1>3, PairingIs DEF PairingEnds
    <2>2. b \in pinned
      BY <1>1, <1>3 DEF Commits
    <2>3. Types' /\ Given' /\ Commits'
      BY <1>1, <1>3, <2>1, <2>2 DEF Types, Given, Commits, Proves
    <2>4. Lines'
      BY <1>3, <2>1, LinesKept DEF Proves
    <2> QED BY <2>1, <2>3, <2>4 DEF GuidedInv
  <1>4. CASE PairingEnds(b) /\ UNCHANGED <<session, saving, connected>>
    BY <1>4, PairingIs, ExtMoves DEF Proves, PairingEnds
  <1> QED BY <1>2, <1>3, <1>4 DEF Proves

\* The end of the commit for the browser that made it.
LEMMA SaverIs ==
    ASSUME GuidedInv, saving # None, NEW i \in {ext[saving.by].pairing, None},
           NEW at \in {"no", "issued"},
           ext' = IF Waits THEN [ext EXCEPT ![saving.by] = [@ EXCEPT !.pairing = i, !.at = at]] ELSE ext
    PROVE  /\ ext' \in [Browsers -> Extension] /\ OwnName'
           /\ \A a \in Browsers : ext'[a].old = ext[a].old
  <1>1. saving.by \in Browsers
    BY DEF GuidedInv, Types
  <1>2. CASE Waits
    <2>1. Pairing(saving.by, i, at)
      BY <1>2 DEF Pairing
    <2> QED BY <1>1, <2>1, PairingIs
  <1>3. CASE ~Waits
    BY <1>3 DEF GuidedInv, Types, OwnName
  <1> QED BY <1>2, <1>3

LEMMA SavedKeeps == ASSUME GuidedInv, Saved PROVE GuidedInv'
  <1>1. Types /\ Lines /\ Given /\ Commits /\ session \in Session
    BY DEF GuidedInv, Types
  <1>2. saving # None /\ saving.id \in Setups /\ saving.by \in Browsers /\ saving' = None
    BY <1>1 DEF Types, Saved
  <1>3. ext' \in [Browsers -> Extension] /\ OwnName' /\ \A a \in Browsers : ext'[a].old = ext[a].old
    BY <1>2, SaverIs DEF Saved
  <1> DEFINE i == saving.id
             b == saving.by
  <1>4. /\ made' \in [Setups -> SUBSET Browsers] /\ made'[i] = made[i] \cup {b}
        /\ \A j \in Setups : j # i => made'[j] = made[j]
    BY <1>1, <1>2 DEF Types, Saved
  <1>5. /\ session' \in Session /\ session'.id = session.id /\ session'.by = session.by
        /\ session'.at = IF Holds THEN "completed" ELSE session.at
    <2>1. CASE Holds
      <3>1. session' = [session EXCEPT !.at = "completed"]
        BY <2>1 DEF Saved
      <3> QED BY <1>1, <2>1, <3>1 DEF Session
    <2>2. CASE ~Holds
      BY <1>1, <2>2 DEF Saved
    <2> QED BY <2>1, <2>2
  <1>6. session.at = "committing" => Holds /\ session.id = i /\ session.by = b
    BY <1>1 DEF Commits, Holds
  <1>7. Holds => session.id = i /\ session.at = "committing"
    BY DEF Holds
  <1>8. b \in told[i]
    BY <1>1, <1>2 DEF Commits
  <1>9. connected' \subseteq connected \cup {b} /\ pinned' = pinned \cup {b}
        /\ UNCHANGED <<told, file, expired, run>>
    BY DEF Saved
  <1> HIDE DEF i, b
  <1>10. b \in Browsers /\ i \in Setups
    BY <1>2 DEF i, b
  <1>11. Types'
    BY <1>1, <1>2, <1>3, <1>4, <1>5, <1>9, <1>10 DEF Types
  <1>12. Given'
    BY <1>1, <1>4, <1>5, <1>8, <1>9, <1>6, <1>7, NamesAssumption DEF Given, Setups
  <1>13. made[session.id] \subseteq made'[session.id] \/ session.id \notin Setups
    BY <1>4
  <1>14. Commits'
    <2>1. session'.at # "committing"
      BY <1>5, <1>6
    <2>2. CASE Holds
      BY <1>2, <1>4, <1>5, <1>6, <1>7, <1>9, <2>1, <2>2 DEF Commits
    <2>3. CASE ~Holds
      BY <1>1, <1>2, <1>5, <1>9, <1>13, <2>1, <2>3 DEF Commits, Setups
    <2> QED BY <2>2, <2>3
  <1>15. \A c \in Runs : run[c].pc \in NotBegun => told'[c] = told[c] /\ made'[c] = made[c]
    BY <1>1, <1>4, <1>8, <1>9 DEF Lines, Early, Setups
  <1>16. \A c \in Runs : made[c] \subseteq made'[c]
    BY <1>4 DEF Setups
  <1>17. Lines'
    BY <1>3, <1>5, <1>9, <1>15, <1>16, LinesKept
  <1> QED BY <1>3, <1>11, <1>12, <1>14, <1>17 DEF GuidedInv

LEMMA SaveFailsKeeps == ASSUME GuidedInv, SaveFails PROVE GuidedInv'
  <1>1. Types /\ Given /\ Commits /\ session \in Session
    BY DEF GuidedInv, Types
  <1>2. saving # None /\ saving.by \in Browsers /\ ext[saving.by] \in Extension /\ saving' = None
    BY <1>1 DEF Types, SaveFails
  <1>3. ext' = IF Waits
               THEN [ext EXCEPT ![saving.by] =
                        [@ EXCEPT !.pairing = ext[saving.by].pairing, !.at = "issued"]]
               ELSE ext
    <2>1. [ext[saving.by] EXCEPT !.pairing = ext[saving.by].pairing, !.at = "issued"]
          = [ext[saving.by] EXCEPT !.at = "issued"]
      BY <1>2 DEF Extension
    <2> QED BY <2>1 DEF SaveFails
  <1>4. ext' \in [Browsers -> Extension] /\ OwnName' /\ \A a \in Browsers : ext'[a].old = ext[a].old
    BY <1>2, <1>3, SaverIs
  <1>5. /\ session' \in Session /\ session'.id = session.id /\ session'.by = session.by
        /\ session'.at = IF Holds THEN "open" ELSE session.at
    <2>1. CASE Holds
      <3>1. session' = [session EXCEPT !.at = "open"]
        BY <2>1 DEF SaveFails
      <3> QED BY <1>1, <2>1, <3>1 DEF Session
    <2>2. CASE ~Holds
      BY <1>1, <2>2 DEF SaveFails
    <2> QED BY <2>1, <2>2
  <1>6. session'.at # "committing" /\ (Holds => session.id # None)
    BY <1>1, <1>5 DEF Commits, Given, Holds
  <1>7. UNCHANGED <<pinned, connected, told, made, file, expired, run>>
    BY DEF SaveFails
  <1>8. Types'
    BY <1>1, <1>2, <1>4, <1>5, <1>7 DEF Types
  <1>9. Given'
    BY <1>1, <1>5, <1>6, <1>7 DEF Given
  <1>10. Commits'
    BY <1>1, <1>2, <1>5, <1>6, <1>7 DEF Commits
  <1>11. Lines'
    BY <1>4, <1>5, <1>7, LinesKept
  <1> QED BY <1>4, <1>8, <1>9, <1>10, <1>11 DEF GuidedInv

-----------------------------------------------------------------------------
(* The invariant and what it says.                                         *)

LEMMA GuidedInvInit == ASSUME Init PROVE GuidedInv
  <1> USE DEF Init
  <1>1. PICK old \in SUBSET Browsers :
            ext = [b \in Browsers |-> [old |-> b \in old, pairing |-> None, at |-> "no", native |-> "no"]]
    OBVIOUS
  <1>2. Types
    <2>1. ext \in [Browsers -> Extension]
      BY <1>1 DEF Extension
    <2>2. run \in [Runs -> CommandLine]
      BY DEF Idle, CommandLine, Stages
    <2>3. session \in Session
      BY DEF NoSession, Session
    <2>4. told \in [Setups -> SUBSET Browsers] /\ made \in [Setups -> SUBSET Browsers]
      OBVIOUS
    <2> QED BY <2>1, <2>2, <2>3, <2>4, NamesAssumption DEF Types
  <1>3. Lines
    BY NamesAssumption DEF Lines, Early, Chosen, Tidy, NotBegun, NoTicketYet, Idle, NoSession, Setups
  <1>4. OwnName
    BY <1>1, NamesAssumption DEF OwnName
  <1>5. Given /\ Commits
    BY NamesAssumption DEF Given, Commits, NoSession, Setups
  <1> QED BY <1>2, <1>3, <1>4, <1>5 DEF GuidedInv

LEMMA GuidedInvNext == ASSUME GuidedInv, [Next]_vars PROVE GuidedInv'
  <1>1. CASE \E i \in Setups : Expires(i)
    BY <1>1, ExpiresKeeps
  <1>2. CASE \E c \in Runs : Starts(c) \/ RunStep(c) \/ Killed(c)
    <2>1. PICK c \in Runs : Starts(c) \/ RunStep(c) \/ Killed(c)
      BY <1>2
    <2>2. CASE RunStep(c)
      BY <2>2, PageStartsKeeps, TicketCreatedKeeps, StaleRemovedKeeps, BeginsKeeps, PollsKeeps,
         MatchesKeeps, GivesUpKeeps, CancelsKeeps, TicketCheckedKeeps, TicketRemovedKeeps, EndsKeeps
         DEF RunStep
    <2> QED BY <2>1, <2>2, StartsKeeps, KilledKeeps
  <1>3. CASE \E b \in Browsers, c \in Runs : Clicked(b, c)
    BY <1>3, AloneKeeps
  <1>4. CASE \E b \in Browsers : ExtStep(b) \/ Proves(b) \/ NativeAsked(b) \/ WorkerDies(b)
                                 \/ Connects(b) \/ Disconnects(b)
    <2>1. PICK b \in Browsers : ExtStep(b) \/ Proves(b) \/ NativeAsked(b) \/ WorkerDies(b)
                                 \/ Connects(b) \/ Disconnects(b)
      BY <1>4
    <2>2. CASE ExtStep(b)
      BY <2>2, AloneKeeps, AskedKeeps, HostBeginsKeeps, NativeCancelsKeeps DEF ExtStep
    <2> QED BY <2>1, <2>2, AloneKeeps, ProvesKeeps, ConnectionsKeep
  <1>5. CASE Saved \/ SaveFails \/ DaemonRestarts
    BY <1>5, SavedKeeps, SaveFailsKeeps, DaemonRestartsKeeps
  <1>6. CASE UNCHANGED vars
    <2>1. /\ UNCHANGED <<session, saving, pinned, connected, told, made>>
          /\ UNCHANGED <<file, expired, run, ext>>
      BY <1>6 DEF vars, daemonVars
    <2>2. Types' /\ Lines' /\ OwnName' /\ Given' /\ Commits'
      BY <2>1 DEF GuidedInv, Types, Lines, Early, Chosen, Tidy, OwnName, Given, Commits
    <2> QED BY <2>2 DEF GuidedInv
  <1> QED BY <1>1, <1>2, <1>3, <1>4, <1>5, <1>6 DEF Next

\* The inductive invariant: whom each setup gave its credential, what the daemon
\* is still committing, and what each command line has chosen and left behind.
THEOREM GuidedInvariant == Spec => []GuidedInv
  <1> QED BY GuidedInvInit, GuidedInvNext, PTL DEF Spec

\* A setup gave its credential to one browser, and pinned no other.
LEMMA GivenToOne ==
    ASSUME GuidedInv, NEW i \in Setups
    PROVE  made[i] \subseteq told[i] /\ Cardinality(told[i]) <= 1
  <1>1. \A x, y \in told[i] : x = y
    BY DEF GuidedInv, Given, Setups
  <1>2. made[i] \subseteq told[i]
    BY DEF GuidedInv, Given
  <1>3. CASE told[i] = {}
    BY <1>2, <1>3, FS_EmptySet
  <1>4. CASE told[i] # {}
    <2>1. PICK x \in told[i] : told[i] = {x}
      BY <1>1, <1>4
    <2>2. Cardinality({x}) = 1
      BY FS_Singleton
    <2>3. Cardinality(told[i]) <= 1
      BY <2>1, <2>2
    <2> QED BY <1>2, <2>3
  <1> QED BY <1>3, <1>4

\* Only one browser is given the credential of a setup and pinned under it, and a
\* command line that reported nothing it could not take away has left neither its
\* ticket nor its session.
THEOREM SetupsContained == Spec => []Contained
  <1>1. ASSUME GuidedInv PROVE Contained
    <2>1. Types /\ Lines /\ Commits
      BY <1>1 DEF GuidedInv
    <2>2. TypeOK
      BY <2>1 DEF Types, Session, Commits, TypeOK
    <2>3. OneBrowserEach
      BY <1>1, <2>2, GivenToOne DEF OneBrowserEach
    <2>4. NothingLeftBehind
      BY <2>1 DEF Lines, Tidy, NothingLeftBehind
    <2> QED BY <2>3, <2>4 DEF Contained
  <1> QED BY <1>1, GuidedInvariant, PTL

\* A command line that reports success stands for one new browser of this version,
\* which was given its credential and pinned in this very setup.
THEOREM SuccessesAreTrue == Spec => []SuccessIsTrue
  <1>1. ASSUME GuidedInv PROVE SuccessIsTrue
    <2>1. SUFFICES ASSUME NEW c \in Runs, run[c].pc = "ok"
                   PROVE  /\ ~ext[run[c].chosen].old /\ run[c].chosen \notin run[c].baseline
                          /\ run[c].page => told[c] = {run[c].chosen} /\ made[c] = {run[c].chosen}
      BY DEF SuccessIsTrue
    <2>2. Chosen(c) /\ run[c].chosen # None
      BY <1>1, <2>1 DEF GuidedInv, Lines, Chosen
    <2>3. run[c].page => run[c].chosen \in made[c]
      BY <2>2 DEF Chosen
    <2>4. made[c] \subseteq told[c] /\ \A x, y \in told[c] : x = y
      BY <1>1 DEF GuidedInv, Given, Setups
    <2> QED BY <2>2, <2>3, <2>4 DEF Chosen
  <1> QED BY <1>1, GuidedInvariant, PTL

\* Once a command line has ended and taken everything away, nothing is issued or
\* pinned in its name any more, unless its session expired during its commit.
THEOREM EndsAreEnds == Spec => EndedMeansEnded
  <1> DEFINE Ended(c) == run[c].pc \in {"ok", "failed"} /\ run[c].clean
             Still == \A c \in Runs \ expired : Ended(c) => told'[c] = told[c] /\ made'[c] = made[c]
  <1>1. ASSUME GuidedInv, Next PROVE Still
    <2>1. SUFFICES ASSUME NEW c \in Runs \ expired, Ended(c)
                   PROVE  told'[c] = told[c] /\ made'[c] = made[c]
      OBVIOUS
    <2>2. session.id # c
      BY <1>1, <2>1 DEF GuidedInv, Lines, Tidy
    <2>3. saving # None => saving.id # c
      BY <1>1, <2>2 DEF GuidedInv, Commits
    <2>4. told \in [Setups -> SUBSET Browsers] /\ made \in [Setups -> SUBSET Browsers] /\ c \in Setups
      BY <1>1 DEF GuidedInv, Types, Setups
    <2>5. CASE \E b \in Browsers : Asked(b)
      <3>1. PICK b \in Browsers : Asked(b)
        BY <2>5
      <3> QED BY <2>2, <2>4, <3>1 DEF Asked, Enrols
    <2>6. CASE Saved
      BY <2>3, <2>4, <2>6 DEF Saved
    <2>7. CASE ~Saved /\ ~\E b \in Browsers : Asked(b)
      <3>1. UNCHANGED <<told, made>>
        BY <1>1, <2>7 DEF Next, Expires, Starts, RunStep, Killed, Clicked, ExtStep, Proves, NativeAsked,
           WorkerDies, Connects, Disconnects, SaveFails, DaemonRestarts, PageStarts, TicketCreated,
           StaleRemoved, Begins, Polls, Matches, GivesUp, Cancels, TicketChecked, TicketRemoved, Ends,
           TicketRead, PairingFails, HostRefuses, HostBegins, NativePairs, NativeCancels, daemonVars
      <3> QED BY <3>1
    <2> QED BY <2>5, <2>6, <2>7
  <1>2. GuidedInv /\ [Next]_vars => [Still]_vars
    BY <1>1
  <1> QED BY <1>2, GuidedInvariant, PTL DEF Spec, EndedMeansEnded

=============================================================================
