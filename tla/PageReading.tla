---------------------------- MODULE PageReading ----------------------------
(***************************************************************************)
(* What an agent reads of one tab and what the extension remembers of it:  *)
(* snapshots cut to a budget and continued by a cursor, deltas against an  *)
(* earlier snapshot, and screenshots that a visual click refers to         *)
(* (background/runtime.ts, content/runtime.ts, shared/).                   *)
(*                                                                         *)
(* An element is its ref and its text and has the size 1.  A snapshot's id *)
(* is a digest of the snapshot: here, the snapshot.  All frames of a       *)
(* snapshot are read at one moment.  The background worker may be killed;  *)
(* what it remembers is in the session storage, when the write succeeds.   *)
(***************************************************************************)
EXTENDS Integers, Sequences, SequencesExt, Functions, FiniteSets

CONSTANTS
    Frames,       \* the frames of the page, numbers in the browser's order
    Header, ShortHeader, FrameError, \* sizes of parts of a snapshot
    MaxChars,     \* the budget
    MaxElements,  \* of one frame
    MaxFrame,     \* the largest frame id that a cursor names
    MaxOffset,    \* of one frame in a cursor
    MaxCursor,    \* the frames that the length of a cursor has room for
    MaxCache,     \* snapshots, and screenshots, that are remembered
    None,
    MaxLength,    \* elements of a frame at the start (model only)
    MaxCommands, MaxChanges, MaxFaults \* bounds (model only)

Top == CHOOSE f \in Frames : \A g \in Frames : f <= g

VARIABLES
    page,   \* its frames and their elements
    worker, \* what the worker remembers, and what is stored of it
    agent,  \* what the agent was told
    view,   \* the document, its size and its scroll position
    shot,   \* the capture under way
    click,  \* the visual click under way
    count   \* what the bounds count

vars == <<page, worker, agent, view, shot, click, count>>

Counted(commands, faults) ==
    /\ count.commands + commands <= MaxCommands /\ count.faults + faults <= MaxFaults
    /\ count' = [count EXCEPT !.commands = @ + commands, !.faults = @ + faults]
Command == Counted(1, 0)
Change == count.changes < MaxChanges /\ count' = [count EXCEPT !.changes = @ + 1]
Fault == Counted(0, 1)

-----------------------------------------------------------------------------
(* snapshot(): what is read of a page and what is kept of it.              *)

NoCursor == [f \in {} |-> 0]
Offset(from, f) == IF f \in DOMAIN from THEN from[f] ELSE 0
Least(a, b) == IF a <= b THEN a ELSE b

\* buildSnapshot()
Part(f, from) ==
    LET all == page.els[f]
        end == Least(Len(all), Offset(from, f) + MaxElements)
    IN [els |-> SubSeq(all, Offset(from, f) + 1, end), cut |-> end < Len(all),
        total |-> Len(all)]

\* frameCarriesNothing() is not so of the top frame.
Carrying(failed) == {f \in page.frames \ failed : f = Top \/ page.els[f] # <<>>}
Parts(from, failed) == [f \in Carrying(failed) |-> Part(f, from)]

Size(parts, failed, header) ==
    FoldFunction(LAMBDA a, b : a + b, FrameError * Cardinality(failed),
                 [f \in DOMAIN parts |-> header + Len(parts[f].els)])

\* The frame with the most elements loses three in ten, and at least one.
Longest(parts) ==
    CHOOSE f \in DOMAIN parts : \A g \in DOMAIN parts :
        \/ Len(parts[f].els) > Len(parts[g].els)
        \/ Len(parts[f].els) = Len(parts[g].els) /\ f <= g
Shortened(parts) ==
    [parts EXCEPT ![Longest(parts)] =
       [@ EXCEPT !.cut = TRUE,
                 !.els = SubSeq(@, 1, Least(Len(@) - 1, (Len(@) * 7) \div 10))]]

Trimmed(parts, failed) ==
    LET all == Size(parts, failed, 0)
        after[n \in 0..all] ==
            IF n = 0 THEN parts
            ELSE IF \/ Size(after[n - 1], failed, Header) <= MaxChars
                    \/ \A f \in DOMAIN parts : after[n - 1][f].els = <<>>
                 THEN after[n - 1] ELSE Shortened(after[n - 1])
    IN after[all]

\* Then frames go, the last first, but for the first.
UpTo(parts, last) == Restrict(parts, {f \in DOMAIN parts : f <= last})
Fitting(parts, failed) ==
    {f \in DOMAIN parts : Size(UpTo(parts, f), failed, Header) <= MaxChars}
Remaining(parts, failed) ==
    IF Fitting(parts, failed) # {}
    THEN UpTo(parts, CHOOSE f \in Fitting(parts, failed) :
                         \A g \in Fitting(parts, failed) : g <= f)
    ELSE UpTo(parts, CHOOSE f \in DOMAIN parts : \A g \in DOMAIN parts : f <= g)

\* formatSnapshotCursor(): a frame beyond the limits is left out, a cursor that
\* gets too long is none.
Formatted(reached) ==
    LET named == {f \in page.frames : f <= MaxFrame /\ reached[f] \in 1..MaxOffset}
    IN IF Cardinality(named) <= MaxCursor THEN Restrict(reached, named) ELSE NoCursor

Delivered(kept, f) == IF f \in DOMAIN kept THEN Len(kept[f].els) ELSE 0
CursorOfPart(from, kept) == Formatted([f \in page.frames |-> Delivered(kept, f)])
Cursor(from, kept) ==
    Formatted([f \in page.frames |-> Offset(from, f) + Delivered(kept, f)])

Snapshot(from, failed) ==
    LET parts == Parts(from, failed)
        trimmed == Trimmed(parts, failed)
        some == IF DOMAIN parts = {} THEN parts ELSE Remaining(trimmed, failed)
        short == Size(some, failed, Header) > MaxChars
        kept == IF short /\ Size(some, failed, ShortHeader) > MaxChars
                THEN Restrict(some, {}) ELSE some
        more == DOMAIN kept # DOMAIN parts \/ \E f \in DOMAIN kept : kept[f].cut
    IN [from |-> from, frames |-> kept, failed |-> failed, short |-> short,
        truncated |-> short \/ more,
        next |-> IF more THEN Cursor(from, kept) ELSE NoCursor]

-----------------------------------------------------------------------------
(* diffSnapshots(), and what an agent makes of it.                         *)

Elements(s) == UNION {{<<f, s.frames[f].els[i]>> : i \in DOMAIN s.frames[f].els} :
                      f \in DOMAIN s.frames}
Meta(s) == [f \in DOMAIN s.frames |->
              [cut |-> s.frames[f].cut, total |-> s.frames[f].total, short |-> s.short]]
View(s) == [from |-> s.from, els |-> Elements(s), meta |-> Meta(s),
            failed |-> s.failed, truncated |-> s.truncated, next |-> s.next]

\* An element is known by its frame and its ref.
Key(e) == <<e[1], e[2].ref>>
Keys(els) == {Key(e) : e \in els}

NoneChanged(old, new) == {}
Changed(old, new) == {e \in Elements(new) \ Elements(old) : Key(e) \in Keys(Elements(old))}
Added(old, new) == {e \in Elements(new) : Key(e) \notin Keys(Elements(old))}
Removed(old, new) == Keys(Elements(old)) \ Keys(Elements(new))

Delta(old, new) ==
    [els |-> Added(old, new) \cup Changed(old, new),
     removed |-> Removed(old, new),
     meta |-> Restrict(Meta(new), {f \in DOMAIN Meta(new) :
                  f \notin DOMAIN Meta(old) \/ Meta(old)[f] # Meta(new)[f]}),
     gone |-> DOMAIN Meta(old) \ DOMAIN Meta(new),
     failed |-> new.failed, truncated |-> new.truncated, next |-> new.next]

DeltaFits(d) ==
    Cardinality(d.els) + Cardinality(d.removed) + Header * Cardinality(DOMAIN d.meta)
    <= MaxChars

\* The agent's part: it has the old snapshot and changes what the delta names.
Applied(v, d) ==
    [v EXCEPT !.els = {e \in @ : Key(e) \notin d.removed \cup Keys(d.els)} \cup d.els,
              !.meta = [f \in (DOMAIN @ \ d.gone) \cup DOMAIN d.meta |->
                          IF f \in DOMAIN d.meta THEN d.meta[f] ELSE @[f]],
              !.failed = d.failed, !.truncated = d.truncated, !.next = d.next]

-----------------------------------------------------------------------------
(* The worker's memory: ensureSessionStateLoaded(), rememberSnapshot().    *)

Empty == [snapshots |-> <<>>, shots |-> <<>>]
LastOf(s) == SubSeq(s, IF Len(s) > MaxCache THEN Len(s) - MaxCache + 1 ELSE 1, Len(s))
Remembered(s, x) == LastOf(Append(SelectSeq(s, LAMBDA y : y # x), x))
Has(s, x) == \E i \in DOMAIN s : s[i] = x

\* The write to the session storage may fail, and nobody is told.
Remembers(memory, lost) ==
    worker' = [worker EXCEPT !.memory = memory, !.stored = IF lost = 0 THEN memory ELSE @]

\* A command finds nothing loaded and waits; another comes meanwhile.
LoadStarts ==
    /\ worker.at = "started"
    /\ worker' = [worker EXCEPT !.at = "loading", !.loading = worker.stored]
    /\ UNCHANGED <<page, agent, view, shot, click, count>>

Loaded ==
    /\ worker.at = "loading"
    /\ LET merged(new, old) ==
             new \o SelectSeq(old, LAMBDA y : ~Has(new, y))
       IN worker' = [worker EXCEPT
            !.at = "loaded", !.loading = Empty,
            !.memory = [snapshots |-> merged(@.snapshots, worker.loading.snapshots),
                        shots |-> merged(@.shots, worker.loading.shots)]]
    /\ UNCHANGED <<page, agent, view, shot, click, count>>

Started(stored) == [at |-> "started", memory |-> Empty, loading |-> Empty, stored |-> stored]

WorkerDies ==
    /\ Fault
    /\ worker' = Started(worker.stored) /\ shot' = None
    /\ UNCHANGED <<page, agent, view, click>>

-----------------------------------------------------------------------------
(* The agent takes a snapshot, since one it holds and from a cursor.       *)

\* "got" is not known of a page that changed while it was read.
NotReading == [got |-> <<>>, from |-> NoCursor, next |-> NoCursor, failed |-> {}]
Refs(els) == [i \in DOMAIN els |-> els[i].ref]
Got(s, f) == IF f \in DOMAIN s.frames THEN Refs(s.frames[f].els) ELSE <<>>

\* What it has read of each frame since it began at the start.
Reads(s) ==
    [got |-> IF s.from = NoCursor THEN [f \in Frames |-> Got(s, f)]
             ELSE [f \in DOMAIN agent.reading.got |-> agent.reading.got[f] \o Got(s, f)],
     from |-> s.from, next |-> s.next, failed |-> s.failed]

Known(since) == Has(worker.memory.snapshots, since)
SameRequest(since, s) == since.from = s.from

\* What it knows of the page once it has the answer.
Told(held, s) ==
    IF held = None THEN View(s)
    ELSE IF held.id = s THEN held.view
    ELSE IF /\ Known(held.id) /\ SameRequest(held.id, s)
            /\ DeltaFits(Delta(held.id, s))
         THEN Applied(held.view, Delta(held.id, s)) ELSE View(s)

\* A frame that cannot be read is listed as incomplete.
Misses(failed) == IF failed = {} THEN 0 ELSE 1
TakesSnapshot(held, from, failed, lost) ==
    LET s == Snapshot(from, failed) IN
    /\ worker.at # "started" /\ Counted(1, Misses(failed) + lost)
    /\ Remembers([worker.memory EXCEPT !.snapshots = Remembered(@, s)], lost)
    /\ agent' = [agent EXCEPT !.held = LastOf(Append(@, [id |-> s, view |-> Told(held, s)])),
                              !.reading = Reads(s)]
    /\ UNCHANGED <<page, view, shot, click>>

Holding == {None} \cup {agent.held[i] : i \in DOMAIN agent.held}
SnapshotTaken ==
    \E held \in Holding, from \in {NoCursor, agent.reading.next},
      failed \in SUBSET page.frames, lost \in 0..1 : TakesSnapshot(held, from, failed, lost)

-----------------------------------------------------------------------------
(* A screenshot is bound to the view before and after it, if they are the  *)
(* same; securedClickAtPayload() and the content script's click_at.        *)

\* shows and moves are history: what the image shows, how often the view
\* changed meanwhile.
Capture == [at |-> "before", viewport |-> view, shows |-> view, moves |-> 0, again |-> TRUE]
CaptureStarts ==
    /\ shot = None /\ worker.at # "started" /\ Command
    /\ shot' = Capture
    /\ UNCHANGED <<page, worker, agent, view, click>>

Captured ==
    /\ shot # None /\ shot.at = "before"
    /\ shot' = [shot EXCEPT !.at = "after", !.shows = view]
    /\ UNCHANGED <<page, worker, agent, view, click, count>>

AnySteady == TRUE
Steady == shot.viewport = view
Kept == [id |-> agent.shots + 1, viewport |-> view, shows |-> shot.shows,
         moves |-> shot.moves, old |-> FALSE]

\* A view that changed, or an image too large, is tried once more.
Retry == IF shot.again THEN [Capture EXCEPT !.again = FALSE] ELSE None
CaptureEnds ==
    /\ shot # None /\ shot.at = "after"
    /\ \/ /\ Steady
          /\ \E lost \in 0..1 :
               /\ Counted(0, lost)
               /\ Remembers([worker.memory EXCEPT !.shots = LastOf(Append(@, Kept))], lost)
          /\ agent' = [agent EXCEPT !.shots = @ + 1] /\ shot' = None
       \/ shot' \in {None, Retry} /\ UNCHANGED <<worker, agent, count>>
    /\ UNCHANGED <<page, view, click>>

\* SCREENSHOT_TTL_MS
Aged(shots) == [i \in DOMAIN shots |-> [shots[i] EXCEPT !.old = TRUE]]
ShotsExpire ==
    /\ \E i \in DOMAIN worker.memory.shots : ~worker.memory.shots[i].old
    /\ worker' = [worker EXCEPT !.memory.shots = Aged(@), !.stored.shots = Aged(@),
                                !.loading.shots = Aged(@)]
    /\ UNCHANGED <<page, agent, view, shot, click, count>>

ClickStarts ==
    /\ click = None /\ worker.at # "started" /\ Command
    /\ \E i \in DOMAIN worker.memory.shots :
        LET known == worker.memory.shots[i] IN
        /\ ~known.old /\ known.viewport = view /\ click' = known
    /\ UNCHANGED <<page, worker, agent, view, shot>>

\* After the wait of guardRisks() the view is compared once more.
Compared == click.viewport = view
Clicks ==
    /\ click # None /\ Compared
    /\ click' = None /\ agent' = [agent EXCEPT !.clicks = @ + 1]
    /\ UNCHANGED <<page, worker, view, shot, count>>
ClickRefused ==
    /\ click # None /\ ~Compared /\ click' = None
    /\ UNCHANGED <<page, worker, agent, view, shot, count>>

-----------------------------------------------------------------------------
(* The page changes.                                                       *)

Texts == {0, 1}
Fresh(n) == [i \in 1..n |-> [ref |-> i, text |-> 0]]

Becomes(f, els, next) ==
    page' = [page EXCEPT !.els[f] = els, !.next[f] = next]

\* RefRegistry: a new element gets the next number of its document.
PageChanges ==
    /\ Change
    /\ \E f \in page.frames :
        LET els == page.els[f] IN
        \/ \E i \in 0..Len(els) :
             Becomes(f, InsertAt(els, i + 1, [ref |-> page.next[f], text |-> 0]), page.next[f] + 1)
        \/ \E i \in DOMAIN els : Becomes(f, RemoveAt(els, i), page.next[f])
        \/ \E i \in DOMAIN els :
             Becomes(f, [els EXCEPT ![i].text = 1 - @], page.next[f])
        \/ \E n \in 0..MaxLength : Becomes(f, Fresh(n), n + 1)
        \/ f # Top /\ page' = [page EXCEPT !.frames = @ \ {f}]
    /\ agent' = [agent EXCEPT !.reading.got = <<>>]
    /\ UNCHANGED <<worker, view, shot, click>>

\* The user or the page scrolls, resizes or navigates, or comes back.
ViewChanges ==
    /\ Change /\ view' = 1 - view
    /\ shot' = IF shot = None THEN None ELSE [shot EXCEPT !.moves = @ + 1]
    /\ UNCHANGED <<page, worker, agent, click>>

-----------------------------------------------------------------------------
Init ==
    /\ \E lengths \in [Frames -> 0..MaxLength] :
        page = [frames |-> Frames, els |-> [f \in Frames |-> Fresh(lengths[f])],
                next |-> [f \in Frames |-> lengths[f] + 1]]
    /\ worker = Started(Empty)
    /\ agent = [held |-> <<>>, reading |-> NotReading, shots |-> 0, clicks |-> 0]
    /\ view = 0 /\ shot = None /\ click = None
    /\ count = [commands |-> 0, changes |-> 0, faults |-> 0]

Next ==
    \/ LoadStarts \/ Loaded \/ WorkerDies \/ SnapshotTaken
    \/ CaptureStarts \/ Captured \/ CaptureEnds \/ ShotsExpire
    \/ ClickStarts \/ Clicks \/ ClickRefused
    \/ PageChanges \/ ViewChanges

Spec == Init /\ [][Next]_vars

-----------------------------------------------------------------------------
TypeOK ==
    /\ page.frames \subseteq Frames /\ Top \in page.frames
    /\ \A f \in Frames : \A i \in DOMAIN page.els[f] :
         page.els[f][i] \in [ref : 1..(page.next[f] - 1), text : Texts]
    /\ worker.at \in {"started", "loading", "loaded"}
    /\ worker.at = "started" => worker.memory = Empty
    /\ Len(worker.stored.snapshots) <= MaxCache /\ Len(worker.stored.shots) <= MaxCache
    /\ view \in 0..1

\* What the agent holds as snapshot x, put together from the snapshots and the
\* deltas it was sent, is what the page was when x was taken, whatever the
\* worker forgot, lost or never stored in between.
HoldsWhatWasThere ==
    /\ TypeOK
    /\ \A i \in DOMAIN agent.held : agent.held[i].view = View(agent.held[i].id)

\* The parts of the page besides its elements fit the budget, and an element.
HeadersFit ==
    Header * Cardinality(Carrying({})) + 1 <= MaxChars

\* A cursor can say how far each frame of the page was read.
WithinCursor ==
    LET some == {f \in page.frames : page.els[f] # <<>>} IN
    /\ Cardinality(some) <= MaxCursor
    /\ \A f \in some : f <= MaxFrame /\ Len(page.els[f]) <= MaxOffset

\* Every frame is read in order, nothing twice and nothing skipped.
ReadsInOrder ==
    agent.reading.got # <<>> =>
        \A f \in page.frames : IsPrefix(agent.reading.got[f], Refs(page.els[f]))

\* "A page larger than the budget returns truncated with a next_cursor" (README):
\* who follows the cursors through a page that stays the same, until no cursor
\* and no failed frame is left, has read it all.
ReadsToTheEnd ==
    /\ agent.reading.got # <<>> /\ HeadersFit
    /\ agent.reading.next = NoCursor /\ agent.reading.failed = {}
    => \A f \in page.frames : agent.reading.got[f] = Refs(page.els[f])

\* A read that continues from a cursor comes to another cursor or to the end, so
\* following the cursors through a page that stays the same ends.
AlwaysForward ==
    /\ agent.reading.got # <<>> /\ agent.reading.from # NoCursor
    /\ HeadersFit /\ agent.reading.failed = {}
    => agent.reading.next # agent.reading.from

\* An agent that follows the cursors reads the whole page, in order though
\* frames fail, and comes to its end: on a page within the cursor's limits.
ReadsThrough == WithinCursor => ReadsInOrder /\ ReadsToTheEnd /\ AlwaysForward

\* A visual click reaches the page as its screenshot shows it, unless the page
\* changed and changed back while it was captured.
ClicksWhatIsShown ==
    [][Clicks => click.shows = view \/ click.moves > 1]_vars
=============================================================================
