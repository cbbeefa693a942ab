------------------------------ MODULE AuditLog ------------------------------
(***************************************************************************)
(* The daemon's audit log, src/daemon/audit.ts: SafeAuditLogger, a bounded *)
(* queue drained into a file that is rotated once, and the                 *)
(* UnauthenticatedAuditCoalescer in front of it, which lets a burst of     *)
(* each outcome through and counts the rest of its window.                 *)
(*                                                                         *)
(* An event is a number in the order of occurrence.  A line is the set of  *)
(* the events it reports: one for an ordinary record, those of a window    *)
(* for a coalesced record, and for a record of dropped events one event    *)
(* for each record that found the queue full.  Every line has size 1.  The *)
(* event loop runs what is between two awaits in one step; each file       *)
(* operation that is awaited ends in a step of its own, well or badly.     *)
(***************************************************************************)
EXTENDS Naturals, Sequences, FiniteSets, FiniteSetsExt, SequencesExt

CONSTANTS
    Outcomes,     \* labels of unauthenticated rejections
    Other,        \* unauthenticated_rejection_other
    NoOutcome,
    MaxOutcomes,  \* MAX_UNAUTHENTICATED_AUDIT_OUTCOMES (16 in the code)
    Burst,        \* UNAUTHENTICATED_AUDIT_BURST_PER_OUTCOME (2 in the code)
    MaxQueue,     \* maxQueueEntries, in lines
    MaxFile,      \* maxFileBytes, in lines
    MaxEvents,    \* bound on events (model only)
    MaxFaults,    \* bound on file operations that fail (model only)
    MaxCrashes    \* bound on kills of the daemon (model only)

ASSUME ConstantsAssumption ==
    /\ Other \notin Outcomes /\ NoOutcome \notin Outcomes \cup {Other}
    /\ {MaxOutcomes, Burst, MaxQueue, MaxFile} \subseteq Nat \ {0}
    /\ {MaxEvents, MaxFaults, MaxCrashes} \subseteq Nat

VARIABLES
    disk,    \* the log file, its rotated predecessor, and all lines ever written
    log,     \* SafeAuditLogger
    windows, \* the coalescer's #windows
    timer,   \* the coalescer's #timer: the window it waits for
    active,  \* the coalescer's #active
    fate,    \* history: what became of the events no file and no memory has
    events,  \* the number of events so far
    left     \* what is left of the bounds

vars == <<disk, log, windows, timer, active, fate, events, left>>

-----------------------------------------------------------------------------
Events == 1 .. MaxEvents
Line == SUBSET Events
NoLine == {}
Torn == {}   \* on disk: what a failed append left there
Labels == Outcomes \cup {Other}

\* handle: a FileHandle, one whose close() failed, or undefined.  pc: the file
\* operation #drain() waits for.  starting: start() waits for a rotation.  lost
\* (history): a rotation failed and so did the reopening after it.
Log == [handle : {"open", "broken", "none"}, bytes : Nat, accepting : BOOLEAN,
        queue : Seq(Line), dropped : SUBSET Events,
        pc : {"idle", "append", "close", "clear", "rename", "open", "reopen"},
        line : Line, note : BOOLEAN, starting : BOOLEAN, lost : BOOLEAN,
        closer : {"off", "no", "draining"}]

Off == [handle |-> "none", bytes |-> 0, accepting |-> FALSE, queue |-> <<>>,
        dropped |-> {}, pc |-> "idle", line |-> NoLine, note |-> FALSE,
        starting |-> FALSE, lost |-> FALSE, closer |-> "off"]

Window == [emitted : 0 .. Burst, suppressed : SUBSET Events, over : BOOLEAN]

NewWindow == [emitted |-> 0, suppressed |-> {}, over |-> FALSE]

Fates == [{"failed", "unseen", "crashed", "uncounted"} -> SUBSET Events]

TypeOK ==
    /\ disk \in [current : Seq(Line), rotated : Seq(Line), written : Seq(Line)]
    /\ log \in Log /\ Len(log.queue) <= MaxQueue
    /\ DOMAIN windows \subseteq Labels
    /\ \A k \in DOMAIN windows : windows[k] \in Window
    /\ timer \in Labels \cup {NoOutcome, "due"}
    /\ active \in BOOLEAN
    /\ fate \in Fates
    /\ events \in 0 .. MaxEvents
    /\ left \in [faults : 0 .. MaxFaults, crashes : 0 .. MaxCrashes]

Init ==
    /\ disk = [current |-> <<>>, rotated |-> <<>>, written |-> <<>>]
    /\ log = Off
    /\ windows = [k \in {} |-> NewWindow]
    /\ timer = NoOutcome
    /\ active = FALSE
    /\ fate = [failed |-> {}, unseen |-> {}, crashed |-> {}, uncounted |-> {}]
    /\ events = 0
    /\ left = [faults |-> MaxFaults, crashes |-> MaxCrashes]

Lines(s) == UNION Range(s)

-----------------------------------------------------------------------------
\* The queue.  These operators take and return the pair of log and fate.

AppendThenRotate(p, line, note) ==
    [p EXCEPT !.log.line = line, !.log.note = note,
              !.log.pc = IF p.log.bytes > MaxFile THEN "close" ELSE "append"]

\* #appendSafely(), up to the operation it waits for.
StartAppend(p, line, note) ==
    [p EXCEPT !.log.line = line, !.log.note = note,
              !.log.pc = IF p.log.bytes > 0 /\ p.log.bytes + 1 > MaxFile
                         THEN "close" ELSE "append"]

\* #drain(): the lines in order, then one for what was dropped; without a file
\* every one of them fails at once.
Drain(p) ==
    LET l == p.log IN
    IF l.handle = "none"
      THEN [log  |-> [l EXCEPT !.queue = <<>>, !.dropped = {}, !.pc = "idle",
                               !.line = NoLine, !.note = FALSE],
            fate |-> [p.fate EXCEPT !.failed = @ \cup Lines(l.queue) \cup l.dropped]]
    ELSE IF l.queue # <<>>
      THEN StartAppend([p EXCEPT !.log.queue = Tail(@)], Head(l.queue), FALSE)
    ELSE IF l.dropped # {}
      THEN StartAppend([p EXCEPT !.log.dropped = {}], l.dropped, TRUE)
    ELSE [p EXCEPT !.log.pc = "idle", !.log.line = NoLine, !.log.note = FALSE]

Waiting(l) == l.queue # <<>> \/ l.dropped # {}

EnsureDrain(p) ==
    IF p.log.pc = "idle" /\ p.log.handle # "none" /\ Waiting(p.log) THEN Drain(p) ELSE p

\* The append of log.line has ended: the next line, or after the record of
\* dropped events the end of #drain() and what its finally() does.
Proceed(p) ==
    IF p.log.note
      THEN EnsureDrain([p EXCEPT !.log.pc = "idle", !.log.line = NoLine, !.log.note = FALSE])
      ELSE Drain(p)

\* A record that finds the queue full adds one to the count of dropped events,
\* however many events it reports itself.
Record(p, line) ==
    IF ~p.log.accepting \/ p.log.handle = "none"
      THEN [p EXCEPT !.fate.unseen = @ \cup line]
    ELSE IF Len(p.log.queue) >= MaxQueue
      THEN [p EXCEPT !.log.dropped = @ \cup {Min(line)},
                     !.fate.uncounted = @ \cup (line \ {Min(line)})]
    ELSE EnsureDrain([p EXCEPT !.log.queue = Append(@, line)])

Logger == [log |-> log, fate |-> fate]

Becomes(p) == log' = p.log /\ fate' = p.fate

\* close() finds lines that no drain can take: its loop never yields again.
Spins == log.closer = "draining" /\ log.pc = "idle" /\ log.handle = "none" /\ Waiting(log)

Runs == log.closer # "off" /\ ~Spins

-----------------------------------------------------------------------------
\* File operations.

Fault == left.faults > 0 /\ left' = [left EXCEPT !.faults = @ - 1]

\* start(): a file that is already full is rotated before anything else.
Start ==
    /\ log.closer = "off"
    /\ LET n == Len(disk.current) IN
       log' = [Off EXCEPT !.handle = "open", !.bytes = n, !.accepting = TRUE,
                          !.closer = "no", !.starting = n >= MaxFile,
                          !.pc = IF n >= MaxFile THEN "close" ELSE "idle"]
    /\ active' = TRUE
    /\ UNCHANGED <<disk, windows, timer, fate, events, left>>

Awaits(pc) == log.pc = pc /\ ~Spins

Written(d, line) ==
    [d EXCEPT !.current = Append(@, line), !.written = Append(@, line)]

AppendDone ==
    /\ Awaits("append") /\ log.handle = "open"
    /\ disk' = Written(disk, log.line)
    /\ Becomes(Proceed([Logger EXCEPT !.log.bytes = @ + 1]))
    /\ UNCHANGED <<windows, timer, active, events, left>>

Failed(p) == [p EXCEPT !.fate.failed = @ \cup p.log.line]

\* A write may fail after some of the line has reached the file.
AppendFails ==
    /\ Awaits("append")
    /\ \/ log.handle = "broken" /\ UNCHANGED <<disk, left>>
       \/ /\ log.handle = "open" /\ Fault
          /\ disk' \in {disk, [disk EXCEPT !.current = Append(@, Torn)]}
    /\ Becomes(Proceed(Failed(Logger)))
    /\ UNCHANGED <<windows, timer, active, events>>

\* #rotate() rejected: start() rejects too and the daemon stops again, or the
\* line is lost and the next one is tried.
RotateRejects(p) ==
    IF p.log.starting
      THEN [p EXCEPT !.log.starting = FALSE, !.log.pc = "idle", !.log.accepting = FALSE,
                     !.log.closer = "draining"]
      ELSE Proceed(Failed(p))

RotateCloses ==
    /\ Awaits("close")
    /\ log' = [log EXCEPT !.handle = "none", !.pc = "clear"]
    /\ UNCHANGED <<disk, windows, timer, active, fate, events, left>>

RotateCloseFails ==
    /\ Awaits("close") /\ log.handle = "open" /\ Fault
    /\ Becomes(RotateRejects([Logger EXCEPT !.log.handle = "broken"]))
    /\ active' = (active /\ ~log.starting)
    /\ UNCHANGED <<disk, windows, timer, events>>

\* lstat() and unlink() of the rotated file.
Cleared(d) == [d EXCEPT !.rotated = <<>>]

RotateClears ==
    /\ Awaits("clear")
    /\ disk' = Cleared(disk)
    /\ log' = [log EXCEPT !.pc = "rename"]
    /\ UNCHANGED <<windows, timer, active, fate, events, left>>

Renamed(d) == [d EXCEPT !.rotated = d.current, !.current = <<>>]

RotateRenames ==
    /\ Awaits("rename")
    /\ disk' = Renamed(disk)
    /\ log' = [log EXCEPT !.pc = "open"]
    /\ UNCHANGED <<windows, timer, active, fate, events, left>>

RotateOpens ==
    /\ Awaits("open")
    /\ log' = [log EXCEPT !.handle = "open", !.bytes = Len(disk.current), !.starting = FALSE,
                          !.pc = IF log.starting THEN "idle" ELSE "append"]
    /\ UNCHANGED <<disk, windows, timer, active, fate, events, left>>

RotateFailsForGood ==
    /\ log.pc \in {"clear", "rename", "open"} /\ ~Spins /\ Fault
    /\ Becomes(RotateRejects([Logger EXCEPT !.log.bytes = 0]))
    /\ active' = (active /\ ~log.starting)
    /\ UNCHANGED <<disk, windows, timer, events>>

RotateFails ==
    /\ log.pc \in {"clear", "rename", "open"} /\ ~Spins /\ Fault
    /\ log' = [log EXCEPT !.pc = "reopen"]
    /\ UNCHANGED <<disk, windows, timer, active, fate, events>>

Reopens ==
    /\ Awaits("reopen")
    /\ Becomes(RotateRejects([Logger EXCEPT !.log.handle = "open",
                                            !.log.bytes = Len(disk.current)]))
    /\ active' = (active /\ ~log.starting)
    /\ UNCHANGED <<disk, windows, timer, events, left>>

ReopenFails ==
    /\ Awaits("reopen") /\ Fault
    /\ Becomes(RotateRejects([Logger EXCEPT !.log.bytes = 0, !.log.lost = TRUE]))
    /\ active' = (active /\ ~log.starting)
    /\ UNCHANGED <<disk, windows, timer, events>>

-----------------------------------------------------------------------------
\* Events, the coalescer and the daemon.

\* Nothing is recorded once stop() has closed every socket.
Occurs == log.closer = "no" /\ ~log.starting /\ events < MaxEvents /\ events' = events + 1

Event ==
    /\ Occurs
    /\ Becomes(Record(Logger, {events + 1}))
    /\ UNCHANGED <<disk, windows, timer, active, left>>

\* #flushWindow()
Flush(p, k) ==
    IF windows[k].suppressed = {} THEN p ELSE Record(p, windows[k].suppressed)

FlushNothing(ks) == Logger

FlushAll(ks) == FoldSet(LAMBDA k, p : Flush(p, k), Logger, ks)

Without(ks) == [k \in DOMAIN windows \ ks |-> windows[k]]

\* One of the windows with something suppressed ends first, and the timer waits
\* for it.
Scheduled(ws) ==
    IF timer # NoOutcome THEN timer' = timer
    ELSE IF \E k \in DOMAIN ws : ws[k].suppressed # {}
    THEN \E k \in DOMAIN ws : ws[k].suppressed # {} /\ timer' = (IF ws[k].over THEN "due" ELSE k)
    ELSE timer' = NoOutcome

Key(outcome) ==
    IF outcome \notin DOMAIN windows /\ Cardinality(DOMAIN windows) >= MaxOutcomes - 1
    THEN Other ELSE outcome

With(k, w) == [j \in DOMAIN windows \cup {k} |-> IF j = k THEN w ELSE windows[j]]

\* UnauthenticatedAuditCoalescer.record()
Rejection(outcome) ==
    /\ Occurs /\ active
    /\ LET k    == Key(outcome)
           old  == k \in DOMAIN windows
           ends == old /\ windows[k].over
           w    == IF old /\ ~ends THEN windows[k] ELSE NewWindow
           p    == IF ends THEN Flush(Logger, k) ELSE Logger IN
       IF w.emitted < Burst
         THEN /\ windows' = With(k, [w EXCEPT !.emitted = @ + 1])
              /\ Becomes(Record(p, {events + 1}))
              /\ UNCHANGED timer
         ELSE /\ windows' = With(k, [w EXCEPT !.suppressed = @ \cup {events + 1}])
              /\ Becomes(p)
              /\ Scheduled(windows')
    /\ UNCHANGED <<disk, active, left>>

\* A second has passed since the window began.
WindowEnds(k) ==
    /\ Runs /\ k \in DOMAIN windows /\ ~windows[k].over
    /\ windows' = [windows EXCEPT ![k].over = TRUE]
    /\ timer' = IF timer = k THEN "due" ELSE timer
    /\ UNCHANGED <<disk, log, active, fate, events, left>>

\* The timer of #scheduleFlush(): windows that have ended are reported and go.
TimerFires ==
    /\ Runs /\ timer = "due"
    /\ LET over == {k \in DOMAIN windows : windows[k].over} 
           rest == Without(over)
           busy == {k \in DOMAIN rest : rest[k].suppressed # {}} IN
       /\ Becomes(FlushAll(over))
       /\ windows' = rest
       /\ IF busy = {} THEN timer' = NoOutcome ELSE timer' \in busy
    /\ UNCHANGED <<disk, active, events, left>>

\* stop(): the coalescer reports every window, then the logger stops accepting.
Stop ==
    /\ Runs /\ log.closer = "no" /\ ~log.starting
    /\ LET p == FlushAll(DOMAIN windows) IN
       Becomes(EnsureDrain([p EXCEPT !.log.accepting = FALSE, !.log.closer = "draining"]))
    /\ active' = FALSE /\ timer' = NoOutcome /\ windows' = Without(DOMAIN windows)
    /\ UNCHANGED <<disk, events, left>>

\* close() has nothing left to drain and closes the file, well or badly.
Closes ==
    /\ log.closer = "draining" /\ log.pc = "idle" /\ ~Waiting(log)
    /\ log' = Off
    /\ UNCHANGED <<disk, windows, timer, active, fate, events, left>>

\* The daemon is killed; the operation under way may or may not have happened.
Crash ==
    /\ log.closer # "off" /\ left.crashes > 0
    /\ left' = [left EXCEPT !.crashes = @ - 1]
    /\ disk' \in {disk} \cup
         CASE log.pc = "append" /\ log.handle = "open" -> {Written(disk, log.line)}
           [] log.pc = "clear"  -> {Cleared(disk)}
           [] log.pc = "rename" -> {Renamed(disk)}
           [] OTHER -> {}
    /\ fate' = [fate EXCEPT !.crashed = @ \cup log.dropped \cup Lines(log.queue)
                                \cup UNION {windows[k].suppressed : k \in DOMAIN windows}
                                \cup (log.line \ Lines(disk'.written))]
    /\ log' = Off
    /\ windows' = Without(DOMAIN windows) /\ timer' = NoOutcome /\ active' = FALSE
    /\ UNCHANGED events

FileOperation ==
    \/ AppendDone \/ AppendFails \/ RotateCloses \/ RotateCloseFails \/ RotateClears
    \/ RotateRenames \/ RotateOpens \/ RotateFails \/ Reopens \/ ReopenFails

Next ==
    \/ Start \/ Event \/ \E o \in Outcomes : Rejection(o)
    \/ \E k \in Labels : WindowEnds(k)
    \/ TimerFires \/ Stop \/ Closes \/ Crash \/ FileOperation

Spec == Init /\ [][Next]_vars

\* A file operation ends, time passes, and the loop of close() goes on.
FairSpec ==
    /\ Spec
    /\ WF_vars(FileOperation) /\ WF_vars(TimerFires) /\ WF_vars(Closes)
    /\ \A k \in Labels : WF_vars(WindowEnds(k))

-----------------------------------------------------------------------------
\* Rotations, failures half way through one and kills at any point of one lose
\* the oldest lines only: what is on disk is always the end of what was
\* written (#rotate, the flags of #openCurrentFile).
NewestKept ==
    LET whole(s) == SelectSeq(s, LAMBDA line : line # Torn) IN
    IsSuffix(whole(disk.rotated) \o whole(disk.current), disk.written)

\* Whatever fails, neither file outgrows the limit by more than what torn writes
\* left in it (the size #appendSafely keeps in #fileBytes).
BoundedDisk ==
    LET whole(s) == SelectSeq(s, LAMBDA line : line # Torn) IN
    Len(whole(disk.current)) <= MaxFile /\ Len(whole(disk.rotated)) <= MaxFile

Suppressed == UNION {windows[k].suppressed : k \in DOMAIN windows}

\* Every event is in exactly one place: a window's count, the queue, the count
\* of dropped records, the line being written, a line written once, or one that
\* failed, came while there was no file, or was lost in a kill.  Nothing is
\* reported twice, and no count goes missing but one: of a coalesced record
\* that finds the queue full, all its events but one stay uncounted (record()
\* adds 1 whatever the record's count is, when #flushWindow has reset it).
Accounted ==
    LET places == <<Suppressed, log.dropped, log.line, fate.failed, fate.unseen,
                    fate.crashed, fate.uncounted>> \o log.queue \o disk.written IN
    /\ 1 .. events = Lines(places)
    /\ \A i, j \in 1 .. Len(places) : i # j => places[i] \cap places[j] = {}

\* While anything is suppressed the coalescer's timer is set, and at most
\* MAX_UNAUTHENTICATED_AUDIT_OUTCOMES windows exist, so that a storm of
\* rejections costs a bounded number of lines each second.
StormBounded ==
    /\ Suppressed # {} => timer # NoOutcome
    /\ Cardinality(DOMAIN windows) <= MaxOutcomes

\* What the daemon remembers of its events is complete and bounded.
Remembered == TypeOK /\ Accounted /\ StormBounded

\* What the files hold is recent and bounded.
OnDisk == NewestKept /\ BoundedDisk

\* The daemon's stop ends, whatever file operations fail, but in one case: a
\* rotation and the reopening after it have both failed, so that there is no file
\* any more while lines are queued.  Then the loop of close() never returns.
CloseEnds ==
    log.closer = "draining" ~> (log.closer = "off" \/ (Spins /\ log.lost))

=============================================================================
