-------------------------- MODULE CommandExecution --------------------------
(***************************************************************************)
(* The extension's background worker between the socket and the pages:     *)
(* handleCommand() and executeCommandWithGuards() of background/runtime.ts *)
(* with the ledger of used approvals, the queue of each tab, the pauses    *)
(* that wait for a human, and the two credential channels, whose ledgers   *)
(* are kept by background/credential-store.ts and security/credentials.ts. *)
(*                                                                         *)
(* A slot runs one request of the daemon or of the popup at a time.  The   *)
(* browser may kill the worker at any moment: memory is lost, session and  *)
(* local storage stay, and a write under way may or may not have arrived.  *)
(***************************************************************************)
EXTENDS Naturals, FiniteSets

CONSTANTS
    Slots, Tabs, Origins, Approvals, None,
    Sweeper,     \* the slot of what the browser's own events start
    Kinds,       \* the requests that come, see AllKinds
    SiteOf,      \* [Tabs -> Origins]
    MaxHeld,     \* MAX_CREDENTIAL_HANDOFFS, MAX_REMOTE_CREDENTIAL_PERMISSIONS
    MaxTasks,    \* bound on requests (model only)
    MaxFaults,   \* bound on storage operations that fail (model only)
    MaxKills,    \* bound on kills of the worker (model only)
    MaxMoves     \* bound on navigations, signs and closed tabs (model only)

ASSUME ConstantsAssumption ==
    /\ None \notin Slots \cup Tabs \cup Origins \cup Approvals
    /\ Sweeper \in Slots
    /\ SiteOf \in [Tabs -> Origins]
    /\ MaxHeld \in Nat \ {0}
    /\ {MaxTasks, MaxFaults, MaxKills, MaxMoves} \subseteq Nat

VARIABLES
    tab,    \* the tabs: [epoch, sign, open]
    mem,    \* the worker's memory
    saved,  \* session and local storage
    task,   \* what each slot runs
    tail,   \* mutationQueues: the last request of each tab's queue
    holder, \* who holds the lock of each ledger
    past,   \* history: what was applied, acted on and revoked for good
    count   \* what the bounds count

vars == <<tab, mem, saved, task, tail, holder, past, count>>

-----------------------------------------------------------------------------
Ledgers == {"handoff", "permission"}
Ids == 1 .. MaxTasks

\* A handoff is bound to a tab and its document, a permission to an origin.
Item == [id : Ids, key : Tabs \cup Origins, epoch : Nat]
NoItem == [id |-> 0, key |-> None, epoch |-> 0]

\* captcha asks for the human in this tab, limited (403, 429) on the origin.
Signs == {"clear", "captcha", "limited"}
Whys == {None, "captcha", "limited"}

Queued == {"act", "approved", "fill", "complete"}
Reading == {"read", "prepare"}
AllKinds == Queued \cup Reading \cup {"cancel", "grant", "revoke", "resume"}

ASSUME KindsAssumption == Kinds \subseteq AllKinds

\* The ledger that a kind of request works on.
LedgerOf(kind) ==
    IF kind \in {"prepare", "complete", "cancel", "moved"} THEN "handoff" ELSE "permission"

Idle == [kind |-> None, tab |-> None, phase |-> "idle", after |-> None,
         item |-> NoItem, undo |-> {}, approval |-> None]

Phases == {"idle", "list", "queued", "probe", "bind", "lock", "load", "save", "apply", "moved"}

\* The worker's memory when it starts.
Started == [why |-> [t \in Tabs |-> None], paused |-> {}, loaded |-> FALSE,
            unsaved |-> FALSE, used |-> {},
            held |-> [l \in Ledgers |-> {}], ready |-> [l \in Ledgers |-> FALSE]]

TypeOK ==
    /\ tab \in [Tabs -> [epoch : 0 .. MaxMoves, sign : Signs, open : BOOLEAN]]
    /\ mem.why \in [Tabs -> Whys] /\ mem.paused \subseteq Origins
    /\ mem.used \subseteq Approvals
    /\ \A l \in Ledgers :
          /\ mem.held[l] \subseteq Item /\ Cardinality(mem.held[l]) <= MaxHeld
          /\ saved.held[l] \subseteq Item
          /\ \A i, j \in mem.held[l] : i.key = j.key => i = j
    /\ saved.why \in [Tabs -> Whys]
    /\ \A s \in Slots : task[s].phase \in Phases /\ task[s].kind \in AllKinds \cup {None, "moved"}
    /\ tail \in [Tabs -> Slots \cup {None}]
    /\ holder \in [Ledgers -> Slots \cup {None}]

Init ==
    /\ tab = [t \in Tabs |-> [epoch |-> 0, sign |-> "clear", open |-> TRUE]]
    /\ mem = [Started EXCEPT !.loaded = TRUE]  \* there is nothing to load yet
    /\ saved = [why |-> [t \in Tabs |-> None], held |-> [l \in Ledgers |-> {}]]
    /\ task = [s \in Slots |-> Idle]
    /\ tail = [t \in Tabs |-> None]
    /\ holder = [l \in Ledgers |-> None]
    /\ past = [applied |-> {}, again |-> {}, acted |-> {}, repeated |-> {}, revoked |-> {}, late |-> {}]
    /\ count = [tasks |-> 0, faults |-> 0, kills |-> 0, moves |-> 0]

-----------------------------------------------------------------------------
\* Steps of a slot.
Go(s, phase) == task' = [task EXCEPT ![s].phase = phase]

TailDropped(s, t) == None

\* runSerializedMutation(), its finally: the next in the queue may start, and
\* the queue is forgotten if this was its last.
TailAfter(s, t) == IF tail[t] = s THEN None ELSE tail[t]

\* The request is answered, or refused; a slot that was not queued frees no one.
Done(s) ==
    /\ task' = [x \in Slots |-> IF x = s THEN Idle
                                ELSE IF task[x].after = s THEN [task[x] EXCEPT !.after = None]
                                ELSE task[x]]
    /\ tail' = IF task[s].kind \in Queued /\ task[s].phase # "list"
               THEN [tail EXCEPT ![task[s].tab] = TailAfter(s, task[s].tab)] ELSE tail

\* handleCommand() and the popup's messages.
First(kind) ==
    CASE kind = "complete" -> "list"
      [] kind \in (Queued \ {"complete"}) \cup Reading \cup {"resume"} -> "queued"
      [] OTHER -> "lock"

\* runSerializedMutation(): the request waits for the last one of its tab.
Enqueued(s, r) ==
    /\ task' = [task EXCEPT ![s] = [r EXCEPT !.phase = "queued", !.after = tail[r.tab]]]
    /\ tail' = [tail EXCEPT ![r.tab] = s]

\* Slots are alike: a request takes the first that is free.
FreeSlot(s) ==
    LET free == {x \in Slots \ {Sweeper} : task[x].phase = "idle"} IN
    free # {} /\ s = CHOOSE x \in free : TRUE

Comes(s, r) ==
    /\ FreeSlot(s) /\ count.tasks < MaxTasks /\ r.kind \in Kinds
    /\ count' = [count EXCEPT !.tasks = @ + 1]
    /\ IF r.kind \in Queued \ {"complete"} THEN Enqueued(s, r)
       ELSE /\ task' = [task EXCEPT ![s] = [r EXCEPT !.phase = First(r.kind)]]
            /\ UNCHANGED tail
    /\ UNCHANGED <<tab, saved, holder, past>>

\* Commands without an approval, and the popup's requests on a tab.
Request(s) ==
    \E kind \in AllKinds \ {"approved", "complete", "cancel", "revoke"}, t \in Tabs :
        /\ tab[t].open
        /\ Comes(s, [Idle EXCEPT !.kind = kind, !.tab = t,
                                 !.item.id = IF kind \in {"prepare", "grant"}
                                             THEN count.tasks + 1 ELSE 0])
        /\ UNCHANGED mem

\* The popup completes, cancels or revokes what it lists.
Choose(s) ==
    \E kind \in {"complete", "cancel", "revoke"} : \E i \in saved.held[LedgerOf(kind)] \cup mem.held[LedgerOf(kind)] :
        /\ Comes(s, [Idle EXCEPT !.kind = kind, !.item = i,
                                 !.tab = IF kind = "complete" THEN i.key ELSE None])
        /\ UNCHANGED mem

\* consumeSessionApproval()
Fresh(a) == a \notin mem.used

\* An approved command, which the daemon may deliver again.
ApprovedCommand(s) ==
    \E a \in Approvals, t \in Tabs :
        /\ tab[t].open /\ Fresh(a)
        /\ mem' = [mem EXCEPT !.used = @ \cup {a}]
        /\ Comes(s, [Idle EXCEPT !.kind = "approved", !.tab = t, !.approval = a])

-----------------------------------------------------------------------------
\* The human pause.
\* rememberHumanIntervention()
Remembered(t, why) ==
    [mem EXCEPT !.why[t] = why, !.unsaved = TRUE,
                !.paused = IF why = "limited" THEN @ \cup {SiteOf[t]} ELSE @]

\* guardHumanIntervention(), up to its probe: what is on record refuses; and
\* resumeHumanIntervention(), which has nothing to do where nothing is.
Guards(s) ==
    LET t == task[s].tab
        resume == task[s].kind = "resume" IN
    /\ task[s].phase = "queued" /\ task[s].after = None
    /\ IF resume # (mem.why[t] # None)
       THEN Done(s) /\ UNCHANGED mem
       ELSE IF ~ resume /\ SiteOf[t] \in mem.paused
       THEN Done(s) /\ mem' = [mem EXCEPT !.why[t] = "limited", !.unsaved = TRUE]
       ELSE Go(s, "probe") /\ UNCHANGED <<mem, tail>>
    /\ UNCHANGED <<tab, saved, holder, past, count>>

\* What follows a clear probe.
Cleared(s) ==
    CASE task[s].kind \in {"act", "approved"} -> "apply"
      [] task[s].kind \in {"fill", "prepare"} -> "bind"
      [] task[s].kind = "complete" -> "lock"

\* safetyProbe(), and what its answer leads to.
Probes(s) ==
    LET t == task[s].tab
        kind == task[s].kind IN
    /\ task[s].phase = "probe"
    /\ UNCHANGED <<tab, saved, holder, past, count>>
    /\ IF ~ tab[t].open
       THEN Done(s) /\ UNCHANGED mem
       ELSE IF tab[t].sign # "clear"
       THEN Done(s) /\ mem' = Remembered(t, tab[t].sign)
       ELSE IF kind = "resume"
       THEN /\ Done(s)
            /\ mem' = [mem EXCEPT !.why[t] = None, !.paused = @ \ {SiteOf[t]}, !.unsaved = TRUE]
       ELSE IF kind = "read"
       THEN Done(s) /\ UNCHANGED mem
       ELSE Go(s, Cleared(s)) /\ UNCHANGED <<mem, tail>>

\* persistSessionState(), in its own time; what it writes is what is on record.
SavesState ==
    /\ mem.unsaved
    /\ mem' = [mem EXCEPT !.unsaved = FALSE]
    /\ saved' = [saved EXCEPT !.why = mem.why]
    /\ UNCHANGED <<tab, task, tail, holder, past, count>>

\* ensureSessionStateLoaded()
LoadsState ==
    /\ ~ mem.loaded
    /\ mem' = [mem EXCEPT !.loaded = TRUE,
          !.why = [t \in Tabs |-> IF saved.why[t] # None THEN saved.why[t] ELSE @[t]],
          !.paused = @ \cup {SiteOf[t] : t \in {x \in Tabs : saved.why[x] = "limited"}}]
    /\ UNCHANGED <<tab, saved, task, tail, holder, past, count>>

-----------------------------------------------------------------------------
\* The credential ledgers: an operation holds its ledger's lock over every
\* storage operation it waits for.
\* credential_prepare is answered by the page: the binding of its document.
Binds(s) ==
    LET t == task[s].tab IN
    /\ task[s].phase = "bind"
    /\ IF tab[t].open
       THEN /\ task' = [task EXCEPT ![s] = [task[s] EXCEPT !.phase = "lock",
                  !.item = [task[s].item EXCEPT !.epoch = tab[t].epoch,
                              !.key = IF task[s].kind = "prepare" THEN t ELSE SiteOf[t]]]]
            /\ UNCHANGED tail
       ELSE Done(s)
    /\ UNCHANGED <<tab, mem, saved, holder, past, count>>

\* with...Lock(), and ensure...LoadedUnlocked() when nothing is loaded yet.
Locks(s) ==
    LET l == LedgerOf(task[s].kind) IN
    /\ task[s].phase \in {"list", "lock", "moved"} /\ holder[l] = None
    /\ ~ mem.ready[l]
    /\ holder' = [holder EXCEPT ![l] = s]
    /\ UNCHANGED <<tab, mem, saved, task, tail, past, count>>

\* The ledger is read: it replaces what memory held, which is nothing.
Loads(s) ==
    LET l == LedgerOf(task[s].kind) IN
    /\ holder[l] = s /\ ~ mem.ready[l]
    /\ mem' = [mem EXCEPT !.ready[l] = TRUE, !.held[l] = saved.held[l]]
    /\ holder' = [holder EXCEPT ![l] = None]
    /\ UNCHANGED <<tab, saved, task, tail, past, count>>

\* What memory holds after an operation: add() after revokeTab(), or in place
\* of the permission of the same origin.
Added(l, i) == {j \in mem.held[l] : j.key # i.key} \cup {i}

Removed(l, id) == {i \in mem.held[l] : i.id # id}

Kept(l, id) == mem.held[l]

\* Consumption takes the credential out before it is saved and used.
Taken(l, id) == Removed(l, id)

\* The permission an origin has, or the handoff itself.
Wanted(s) ==
    LET l == LedgerOf(task[s].kind) IN
    IF task[s].kind = "fill" THEN {i \in mem.held[l] : i.key = SiteOf[task[s].tab]}
    ELSE {i \in mem.held[l] : i.id = task[s].item.id}

\* An operation that changes the ledger goes on to save it, under the lock.
Change(s, held) ==
    LET l == LedgerOf(task[s].kind) IN
    /\ mem' = [mem EXCEPT !.held[l] = held]
    /\ holder' = [holder EXCEPT ![l] = s]
    /\ UNCHANGED tail

CanWork(s, phases) ==
    LET l == LedgerOf(task[s].kind) IN
    /\ task[s].phase \in phases /\ holder[l] = None /\ mem.ready[l]
    /\ UNCHANGED <<tab, saved, count>>

\* listLocalCredentialHandoffs() of completeLocalCredentialHandoff(): the
\* handoff is there, and the completion joins the queue of its tab.
Previews(s) ==
    /\ CanWork(s, {"list"})
    /\ IF Wanted(s) = {} THEN Done(s) ELSE Enqueued(s, task[s])
    /\ UNCHANGED <<mem, holder, past>>

\* storeLocalCredentialHandoff(), createRemoteCredentialPermission(); the
\* latter refuses when the user has moved on from the tab of the prompt.
Adds(s) ==
    LET l == LedgerOf(task[s].kind)
        i == IF task[s].kind = "prepare" THEN task[s].item
             ELSE [task[s].item EXCEPT !.key = SiteOf[task[s].tab]] IN
    /\ CanWork(s, {"lock"}) /\ task[s].kind \in {"prepare", "grant"}
    /\ \/ /\ Cardinality(Added(l, i)) <= MaxHeld
          /\ Change(s, Added(l, i))
          /\ task' = [task EXCEPT ![s].phase = "save", ![s].item = i,
                ![s].undo = IF task[s].kind = "grant" THEN mem.held[l] ELSE {}]
       \/ /\ Cardinality(Added(l, i)) > MaxHeld \/ task[s].kind = "grant"
          /\ Done(s) /\ UNCHANGED <<mem, holder>>
    /\ UNCHANGED past

\* consumeLocalCredentialHandoff(), consumeRemoteCredentialPermission().
Consumes(s) ==
    LET l == LedgerOf(task[s].kind) IN
    /\ CanWork(s, {"lock"}) /\ task[s].kind \in {"complete", "fill"}
    /\ IF Wanted(s) = {}
       THEN Done(s) /\ UNCHANGED <<mem, holder, past>>
       ELSE LET i == CHOOSE x \in Wanted(s) : TRUE IN
            /\ Change(s, Taken(l, i.id))
            /\ task' = [task EXCEPT ![s].phase = "save", ![s].item.id = i.id]
            /\ past' = IF i.id \in past.revoked THEN [past EXCEPT !.late = @ \cup {i.id}] ELSE past

\* revokeLocalCredentialHandoff(), revokeRemoteCredentialPermission(): what
\* memory does not hold is taken for revoked already, and answered with ok.
Revokes(s) ==
    LET l == LedgerOf(task[s].kind) IN
    /\ CanWork(s, {"lock"}) /\ task[s].kind \in {"cancel", "revoke"}
    /\ IF Wanted(s) = {}
       THEN Done(s) /\ UNCHANGED <<mem, holder>>
       ELSE Change(s, Removed(l, task[s].item.id)) /\ Go(s, "save")
    /\ UNCHANGED past

\* revokeCredentialHandoffsForTab(), on a navigation or the tab's end.
Sweeps(s) ==
    LET kept == {i \in mem.held["handoff"] : i.key # task[s].tab} IN
    /\ CanWork(s, {"moved"})
    /\ IF kept = mem.held["handoff"]
       THEN Done(s) /\ UNCHANGED <<mem, holder>>
       ELSE Change(s, kept) /\ Go(s, "save")
    /\ UNCHANGED past

ReleaseUnlessGrant(s) ==
    holder' = IF task[s].kind = "grant" THEN holder
              ELSE [holder EXCEPT ![LedgerOf(task[s].kind)] = None]

Release(s) == holder' = [holder EXCEPT ![LedgerOf(task[s].kind)] = None]

\* After the save: a consumed credential is applied, all else is done.
Continue(s) ==
    IF task[s].kind \in {"complete", "fill"} THEN Go(s, "apply") /\ UNCHANGED tail
    ELSE Done(s)

PersistedUnlessRevoked(s) ==
    LET l == LedgerOf(task[s].kind) IN
    saved' = IF task[s].kind \in {"cancel", "revoke"} THEN saved
             ELSE [saved EXCEPT !.held[l] = mem.held[l]]

\* persist...Unlocked()
Persisted(s) ==
    LET l == LedgerOf(task[s].kind) IN
    saved' = [saved EXCEPT !.held[l] = mem.held[l]]

Saves(s) ==
    /\ task[s].phase = "save"
    /\ Persisted(s) /\ Release(s) /\ Continue(s)
    /\ past' = IF task[s].kind \in {"cancel", "revoke"}
               THEN [past EXCEPT !.revoked = @ \cup {task[s].item.id}] ELSE past
    /\ UNCHANGED <<tab, mem, count>>

\* Only the grant of a permission is undone.
RolledBack(s) ==
    IF task[s].kind = "grant" THEN [mem EXCEPT !.held["permission"] = task[s].undo]
    ELSE mem

StorageFails(s) ==
    LET l == LedgerOf(task[s].kind) IN
    /\ count.faults < MaxFaults
    /\ task[s].phase = "save" \/ (holder[l] = s /\ ~ mem.ready[l])
    /\ count' = [count EXCEPT !.faults = @ + 1]
    /\ mem' = IF task[s].phase = "save" THEN RolledBack(s) ELSE mem
    /\ Release(s) /\ Done(s)
    /\ UNCHANGED <<tab, saved, past>>

\* The page acts, or applies the values if its document is still the bound one.
Applies(s) ==
    LET t == task[s].tab
        a == task[s].approval
        id == task[s].item.id
        there == tab[t].open /\ (task[s].kind \in {"fill", "complete"} => task[s].item.epoch = tab[t].epoch) IN
    /\ task[s].phase = "apply"
    /\ past' = IF ~ there THEN past
               ELSE IF id # 0
               THEN [past EXCEPT !.applied = @ \cup {id}, !.again = @ \cup (past.applied \cap {id})]
               ELSE IF a # None
               THEN [past EXCEPT !.acted = @ \cup {a}, !.repeated = @ \cup (past.acted \cap {a})]
               ELSE past
    /\ Done(s)
    /\ UNCHANGED <<tab, mem, saved, holder, count>>

-----------------------------------------------------------------------------
\* The browser and the user.
\* onPageNavigation(), onUpdated: the tab's handoffs are revoked by a request
\* of its own, whose failure nobody hears of.
Swept(t) ==
    /\ task[Sweeper].phase = "idle"
    /\ task' = [task EXCEPT ![Sweeper] =
          [Idle EXCEPT !.kind = "moved", !.tab = t, !.phase = "moved"]]

Navigates ==
    \E t \in Tabs :
        /\ tab[t].open /\ count.moves < MaxMoves
        /\ tab' = [tab EXCEPT ![t].epoch = @ + 1, ![t].sign = "clear"]
        /\ Swept(t)
        /\ count' = [count EXCEPT !.moves = @ + 1]
        /\ UNCHANGED <<mem, saved, tail, holder, past>>

ShowsSign ==
    \E t \in Tabs, sign \in Signs :
        /\ tab[t].open /\ tab[t].sign # sign /\ count.moves < MaxMoves
        /\ tab' = [tab EXCEPT ![t].sign = sign]
        /\ count' = [count EXCEPT !.moves = @ + 1]
        /\ UNCHANGED <<mem, saved, task, tail, holder, past>>

\* onRemoved: the pause goes, the origin's with it, and so does the queue.
Closes ==
    \E t \in Tabs :
        /\ tab[t].open /\ count.moves < MaxMoves
        /\ tab' = [tab EXCEPT ![t].open = FALSE]
        /\ mem' = IF mem.why[t] = None THEN mem
                  ELSE [mem EXCEPT !.why[t] = None, !.paused = @ \ {SiteOf[t]}, !.unsaved = TRUE]
        /\ tail' = [tail EXCEPT ![t] = None]
        /\ Swept(t)
        /\ count' = [count EXCEPT !.moves = @ + 1]
        /\ UNCHANGED <<saved, holder, past>>

\* The worker is killed and started again.  The approvals of its connection
\* are void with it.
Kill ==
    /\ count.kills < MaxKills
    /\ count' = [count EXCEPT !.kills = @ + 1]
    /\ mem' = Started
    /\ task' = [s \in Slots |-> Idle]
    /\ tail' = [t \in Tabs |-> None]
    /\ holder' = [l \in Ledgers |-> None]
    /\ LET writing == {l \in Ledgers : \E s \in Slots : task[s].phase = "save" /\ LedgerOf(task[s].kind) = l} IN
       \E arrived \in SUBSET writing :
          saved' = [saved EXCEPT !.held = [l \in Ledgers |-> IF l \in arrived THEN mem.held[l] ELSE @[l]]]
    /\ past' = [past EXCEPT !.acted = {}]
    /\ UNCHANGED tab

Steps(s) ==
    \/ Guards(s) \/ Probes(s) \/ Binds(s) \/ Locks(s) \/ Loads(s) \/ Previews(s)
    \/ Adds(s) \/ Consumes(s) \/ Revokes(s) \/ Sweeps(s) \/ Saves(s) \/ Applies(s)

Next ==
    \/ \E s \in Slots : Request(s) \/ Choose(s) \/ ApprovedCommand(s) \/ Steps(s) \/ StorageFails(s)
    \/ SavesState \/ LoadsState \/ Navigates \/ ShowsSign \/ Closes \/ Kill

Spec == Init /\ [][Next]_vars

\* Pages answer, storage answers and the locks are queues of promises.
FairSpec == Spec /\ \A s \in Slots : WF_vars(Steps(s))

-----------------------------------------------------------------------------
\* A handoff or a permission is applied at most once: also when the save of its
\* consumption fails or the worker is killed at any point in between.
SingleUse == past.again = {}

\* What the user revoked is not consumed once the revocation is saved, whatever
\* the worker reads back after a kill.  An ok alone promises nothing:
\* after a failed save of a consumption or revocation, a revocation finds nothing
\* in memory and is answered with ok, and the stored copy remains and is read back
\* after a kill (credential-store.ts:287, against PRIVACY.md:44).
RevokedStaysRevoked == past.late = {}

\* Two requests never act in one tab at the same time, nor overlap from the
\* guard of one to the end of the other.
OneAtATime ==
    \A s, x \in Slots :
        LET busy(y) == task[y].kind \in Queued /\ task[y].phase \in {"probe", "bind", "lock", "load", "save", "apply"} IN
        s # x /\ busy(s) /\ busy(x) /\ tab[task[s].tab].open => task[s].tab # task[x].tab

\* An approval delivered twice acts once, while the first is still queued too.
ReplayRefused == past.repeated = {}

\* Neither a credential nor an approval is used twice.
UsedOnce == TypeOK /\ SingleUse /\ ReplayRefused

\* When requests stop coming, as the bound on them makes them, all of them have
\* ended: no lock is kept and no queue is stuck.
TasksEnd == <>[](\A s \in Slots : task[s].kind = None)
=============================================================================
