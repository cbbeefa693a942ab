---------------------------- MODULE ManagedTabs ----------------------------
(***************************************************************************)
(* The tabs the extension opened and the ledger that says for which agent  *)
(* (extension/src/background/managed-tabs.ts), with the commands that use  *)
(* the ledger (executeCommandWithGuards and executeCommand of runtime.ts)  *)
(* and the popup's cleanup button.                                         *)
(*                                                                         *)
(* A call of the browser's tabs API is one step of its own: in the gap     *)
(* before its answer is used the user may close or activate tabs, other    *)
(* commands run, and the browser may kill the worker.  What a holder of    *)
(* managedTabsLock does to the ledger and to session storage between two   *)
(* such calls is one step, because only the holder of the lock reads or    *)
(* writes them.  The lock is a chain of promises, hence first come, first  *)
(* served.                                                                 *)
(*                                                                         *)
(* Tab ids are positions in `tabs`: the browser never reuses one.          *)
(***************************************************************************)
EXTENDS Naturals, FiniteSets, Sequences

CONSTANTS
    Agents,      \* identities of MCP client sessions
    NoAgent,     \* null: a missing or malformed identity, or a version 1 entry
    User,        \* the person at the browser
    Popup,       \* the popup's cleanup button
    Tasks,       \* commands that can run at the same time
    NoTask,      \* no command
    MaxTotal,    \* MAX_MANAGED_TABS_TOTAL
    Casts,       \* who may use the browser, see Cast
    MaxUserTabs, \* bound on tabs the user opens (model only)
    MaxTabs      \* bound on tabs ever opened (model only)

\* ask, recheck and approved are new_tab towards a risky address: the first
\* attempt, the daemon's revalidation and the retry under an approval.  new is
\* new_tab towards a harmless address; drive stands for every other command
\* that acts on a page, list for the commands and the popup's status that only
\* look at the ledger.
Opening == {"new", "ask", "recheck", "approved"}
Unqueued == {"list", "cleanup", "popup"}
Ops == Opening \cup Unqueued \cup {"drive", "close"}

\* A cast is what a behaviour begins with and does not change: the agent of each
\* command, Popup for the popup's cleanup; what each of them sends; how many
\* tabs an agent may have, MAX_MANAGED_TABS in the code; how many open tabs a
\* version 1 ledger has; how often the worker is killed (a bound, model only).
Cast == [agentOf : [Tasks -> Agents \cup {NoAgent, Popup}],
         sends : [Tasks -> SUBSET Ops],
         perAgent : Nat, legacy : 0 .. MaxTotal, kills : Nat]

ASSUME NamesAssumption ==
    /\ Agents \cap {NoAgent, User, Popup} = {}
    /\ NoAgent # User /\ NoAgent # Popup /\ User # Popup
    /\ NoTask \notin Tasks

ASSUME LimitsAssumption ==
    /\ MaxTotal \in Nat
    /\ MaxUserTabs \in Nat \ {0}
    /\ MaxTabs \in Nat
    /\ Casts \subseteq Cast
    /\ \A c \in Casts : c.legacy < MaxTabs

VARIABLES
    cast,    \* who uses the browser
    tabs,    \* the browser's tabs, the closed ones included
    active,  \* the active tab
    removed, \* closed tabs the onRemoved listener has yet to untrack
    ledger,  \* managedTabs: tab id -> owner
    loaded,  \* managedTabsLoaded
    stored,  \* the ledger as session storage has it
    lock,    \* managedTabsLock: its holder, then those who wait
    task,    \* the commands
    tail,    \* mutationQueues: the last command queued on each tab
    lost,    \* open tabs of agents that a kill of the worker left unrecorded
    kills    \* kills of the worker so far

AgentOf == cast.agentOf
MaxPerAgent == cast.perAgent

worker == <<ledger, loaded, stored>>
vars == <<cast, tabs, active, removed, ledger, loaded, stored, lock, task, tail,
          lost, kills>>

-----------------------------------------------------------------------------
(* State.                                                                  *)

TabIds == 1 .. MaxTabs
NoTab == 0
Owners == Agents \cup {NoAgent}
IsLedger(l) == DOMAIN l \subseteq TabIds /\ l \in [DOMAIN l -> Owners]

\* opener: who had the tab opened.  blank: it is open and shows about:blank.
Tab == [opener : Agents \cup {NoAgent, User}, open : BOOLEAN, blank : BOOLEAN]

Waiting == {"guard", "create", "adopt", "closing", "untrack", "list",
            "cleanup"}
Phases == Waiting \cup {"idle", "queued", "creating", "created", "rollback",
                        "navigate", "remove", "sweep"}

Task == [op : Ops, pc : Phases, tab : TabIds \cup {NoTab},
         chosen : SUBSET TabIds,
         after : Tasks \cup {NoTask}]

Holds(t) == lock # <<>> /\ Head(lock) = t

IsOpen(i) == i \in DOMAIN tabs /\ tabs[i].open
OpenTabs == {i \in DOMAIN tabs : tabs[i].open}

Idle == [op |-> "drive", pc |-> "idle", tab |-> NoTab, chosen |-> {}, after |-> NoTask]

NewTab(opener, blank) ==
    [opener |-> opener, open |-> TRUE, blank |-> blank]

\* A worker may start with a version 1 ledger, whose tabs have no owner.
Init ==
    /\ cast \in Casts
    /\ tabs = [i \in 1 .. cast.legacy + 1 |->
                  NewTab(IF i <= cast.legacy THEN NoAgent ELSE User, FALSE)]
    /\ stored = [i \in 1 .. cast.legacy |-> NoAgent]
    /\ active = cast.legacy + 1
    /\ removed = {}
    /\ ledger = <<>>
    /\ loaded = FALSE
    /\ lock = <<>>
    /\ task = [t \in Tasks |-> Idle]
    /\ tail = [i \in TabIds \cup {NoTab} |-> NoTask]
    /\ lost = {}
    /\ kills = 0

-----------------------------------------------------------------------------
(* The browser and its user.                                               *)

\* Tab i goes away: another open tab, if any, is activated, and the onRemoved
\* listener is told.
Closes(i) ==
    /\ tabs' = [tabs EXCEPT ![i].open = FALSE, ![i].blank = FALSE]
    /\ removed' = removed \cup {i}
    /\ IF active = i
       THEN \/ active' \in OpenTabs \ {i}
            \/ OpenTabs = {i} /\ active' = NoTab
       ELSE active' = active

UserOpens ==
    /\ Len(tabs) < MaxTabs
    /\ Cardinality({i \in DOMAIN tabs : tabs[i].opener = User}) < MaxUserTabs
    /\ tabs' = Append(tabs, NewTab(User, FALSE))
    /\ active' = Len(tabs) + 1
    /\ UNCHANGED <<removed, worker, lock, task, tail, lost, kills>>

UserCloses(i) ==
    /\ IsOpen(i)
    /\ Closes(i)
    /\ UNCHANGED <<worker, lock, task, tail, lost, kills>>

UserActivates(i) ==
    /\ IsOpen(i)
    /\ active # i
    /\ active' = i
    /\ UNCHANGED <<tabs, removed, worker, lock, task, tail, lost, kills>>

-----------------------------------------------------------------------------
(* The lock, and the loading and reconciling that every holder begins with. *)

Memory == IF loaded THEN ledger ELSE stored

\* The ledger without the tabs tabs.get no longer finds.
Reconciled == [i \in DOMAIN Memory \cap OpenTabs |-> Memory[i]]

\* The stored ledger passes the checks of ensureManagedTabsLoadedUnlocked.
Readable == loaded \/ Cardinality(DOMAIN stored) <= MaxTotal

\* The ledger is loaded, reconciled and, when that changed it, saved.
Prepared ==
    /\ Readable
    /\ loaded' = TRUE
    /\ stored' = IF Reconciled = Memory THEN stored ELSE Reconciled

\* Storage cannot be read, or the reconciled ledger cannot be saved.
Unprepared ==
    \/ ~loaded /\ UNCHANGED worker
    \/ /\ Readable
       /\ Reconciled # Memory
       /\ loaded' = TRUE
       /\ ledger' = Reconciled
       /\ UNCHANGED stored

Release == lock' = Tail(lock)
Enqueue(t) == lock' = Append(lock, t)

\* Command t moves to phase p.
Goes(t, p) == task' = [task EXCEPT ![t].pc = p]

\* Command t is answered, with a result or an error, and ends: the next
\* mutation of its tab may run.
Ends(t) ==
    /\ task' = [u \in Tasks |->
                  IF u = t THEN Idle
                  ELSE IF task[u].after = t THEN [task[u] EXCEPT !.after = NoTask]
                  ELSE task[u]]
    /\ tail' = [i \in DOMAIN tail |-> IF tail[i] = t THEN NoTask ELSE tail[i]]

\* Mutant of StorageFails: the early error leaves the lock taken.
StorageFailsHolding(t) ==
    /\ Holds(t)
    /\ task[t].pc \in Waiting \ {"untrack"}
    /\ Unprepared
    /\ Ends(t)
    /\ UNCHANGED <<tabs, active, removed, lock, lost, kills>>

\* A holder whose ledger cannot be loaded or reconciled fails.
StorageFails(t) ==
    /\ Holds(t)
    /\ task[t].pc \in Waiting \ {"untrack"}
    /\ Unprepared
    /\ Ends(t)
    /\ Release
    /\ UNCHANGED <<tabs, active, removed, lost, kills>>

\* Tab i leaves the ledger, whether or not the change can be saved.
Untracks(i, saved) ==
    /\ Readable
    /\ loaded' = TRUE
    /\ ledger' = [j \in DOMAIN Memory \ {i} |-> Memory[j]]
    /\ stored' = IF saved /\ i \in DOMAIN Memory THEN ledger' ELSE stored
    /\ i \notin DOMAIN Memory => saved

-----------------------------------------------------------------------------
(* Ownership.                                                              *)

OwnedBy(l, a) == {i \in DOMAIN l : a \in Agents /\ l[i] = a}

Access(l, i, a) ==
    IF i \notin DOMAIN l THEN "unmanaged"
    ELSE IF i \in OwnedBy(l, a) THEN "owned" ELSE "foreign"

CanCreate(l, a) ==
    /\ a \in Agents
    /\ Cardinality(DOMAIN l) < MaxTotal
    /\ Cardinality(OwnedBy(l, a)) < MaxPerAgent

\* Mutant of Collectable: a cleanup takes the whole ledger, as it did before
\* tabs had owners.
CollectableByAll(l, a) == DOMAIN l

\* A cleanup closes the agent's tabs and those no agent owns.
Collectable(l, a) == OwnedBy(l, a) \cup {i \in DOMAIN l : l[i] = NoAgent}

\* The agent's tabs that still show about:blank.
Adoptable(l, a) == {i \in OwnedBy(l, a) : IsOpen(i) /\ tabs[i].blank}

Least(S) == CHOOSE i \in S : \A j \in S : i <= j

-----------------------------------------------------------------------------
(* Commands that act on one tab: first the ownership check of the tab they  *)
(* name or, when they name none, of the active tab; then their turn in that *)
(* tab's mutation queue.  new_tab names no tab.                             *)

\* Command t takes its place behind the last mutation of tab i.
Queues(t, i) ==
    /\ task' = [task EXCEPT ![t].pc = "queued", ![t].after = tail[i]]
    /\ tail' = [tail EXCEPT ![i] = t]

Submit(t, op, i) ==
    /\ task[t].pc = "idle"
    /\ AgentOf[t] # Popup
    /\ IF op \in Opening THEN i = active ELSE IsOpen(i)
    /\ LET begun == [Idle EXCEPT !.op = op, !.tab = i]
       IN  IF i = NoTab
           THEN /\ task' = [task EXCEPT ![t] = [begun EXCEPT !.pc = "queued",
                                                             !.after = tail[NoTab]]]
                /\ tail' = [tail EXCEPT ![NoTab] = t]
                /\ UNCHANGED lock
           ELSE /\ task' = [task EXCEPT ![t] = [begun EXCEPT !.pc = "guard"]]
                /\ Enqueue(t)
                /\ UNCHANGED tail
    /\ UNCHANGED <<tabs, active, removed, worker, lost, kills>>

\* The check of executeCommandWithGuards.
Guard(t) ==
    /\ Holds(t)
    /\ task[t].pc = "guard"
    /\ Prepared
    /\ ledger' = Reconciled
    /\ IF Access(Reconciled, task[t].tab, AgentOf[t]) = "foreign"
       THEN Ends(t)
       ELSE Queues(t, task[t].tab)
    /\ Release
    /\ UNCHANGED <<tabs, active, removed, lost, kills>>

MyTurn(t) == task[t].pc = "queued" /\ task[t].after = NoTask

BeginOpening(t) ==
    /\ MyTurn(t)
    /\ task[t].op \in Opening
    /\ task' = [task EXCEPT ![t].pc = IF task[t].op = "new" THEN "create" ELSE "adopt",
                            ![t].tab = NoTab]
    /\ Enqueue(t)
    /\ UNCHANGED <<tabs, active, removed, worker, tail, lost, kills>>

BeginClose(t) ==
    /\ MyTurn(t)
    /\ task[t].op = "close"
    /\ IsOpen(task[t].tab)
    /\ Goes(t, "closing")
    /\ Enqueue(t)
    /\ UNCHANGED <<tabs, active, removed, worker, tail, lost, kills>>

\* The page and approval guards of the command may still refuse it.
Drive(t) ==
    /\ MyTurn(t)
    /\ task[t].op = "drive"
    /\ IsOpen(task[t].tab)
    /\ tabs' \in {tabs, [tabs EXCEPT ![task[t].tab].blank = FALSE]}
    /\ Ends(t)
    /\ UNCHANGED <<active, removed, worker, lock, lost, kills>>

\* The tab is gone when its command's turn comes.
TargetGone(t) ==
    /\ MyTurn(t)
    /\ task[t].op \in {"drive", "close"}
    /\ ~IsOpen(task[t].tab)
    /\ Ends(t)
    /\ UNCHANGED <<tabs, active, removed, worker, lock, lost, kills>>

-----------------------------------------------------------------------------
(* new_tab.                                                                *)

\* With the lock kept: tabs.create is called, or the limit is reached.
CreatesOrRefuses(t) ==
    IF CanCreate(Reconciled, AgentOf[t])
    THEN Goes(t, "creating") /\ UNCHANGED <<lock, tail>>
    ELSE Ends(t) /\ Release

Create(t) ==
    /\ Holds(t)
    /\ task[t].pc = "create"
    /\ Prepared
    /\ ledger' = Reconciled
    /\ CreatesOrRefuses(t)
    /\ UNCHANGED <<tabs, active, removed, lost, kills>>

\* Mutant of Adopt: the tab is created under another turn of the lock.
AdoptThenCreate(t) ==
    LET blanks == Adoptable(Reconciled, AgentOf[t])
    IN  /\ Holds(t)
        /\ task[t].pc = "adopt"
        /\ Prepared
        /\ ledger' = Reconciled
        /\ CASE blanks # {} -> /\ task' = [task EXCEPT ![t].pc = "navigate",
                                                       ![t].tab = Least(blanks)]
                               /\ Release
                               /\ UNCHANGED tail
             [] blanks = {} /\ task[t].op = "recheck" -> Ends(t) /\ Release
             [] OTHER -> /\ Goes(t, "create")
                         /\ lock' = Append(Tail(lock), t)
                         /\ UNCHANGED tail
        /\ UNCHANGED <<tabs, active, removed, lost, kills>>

\* A risky address is opened in a blank tab of the agent; a revalidation may
\* not create one.
Adopt(t) ==
    LET blanks == Adoptable(Reconciled, AgentOf[t])
    IN  /\ Holds(t)
        /\ task[t].pc = "adopt"
        /\ Prepared
        /\ ledger' = Reconciled
        /\ CASE blanks # {} -> /\ task' = [task EXCEPT ![t].pc = "navigate",
                                                       ![t].tab = Least(blanks)]
                               /\ Release
                               /\ UNCHANGED tail
             [] blanks = {} /\ task[t].op = "recheck" -> Ends(t) /\ Release
             [] OTHER -> CreatesOrRefuses(t)
        /\ UNCHANGED <<tabs, active, removed, lost, kills>>

\* The browser opens the tab; the worker does not know its id yet.
TabCreated(t) ==
    /\ task[t].pc = "creating"
    /\ Len(tabs) < MaxTabs
    /\ \E blank \in IF task[t].op = "new" THEN BOOLEAN ELSE {TRUE} :
          tabs' = Append(tabs, NewTab(AgentOf[t], blank))
    /\ active' \in {active, Len(tabs) + 1}
    /\ task' = [task EXCEPT ![t].pc = "created", ![t].tab = Len(tabs) + 1]
    /\ UNCHANGED <<removed, worker, lock, tail, lost, kills>>

TabRefused(t) ==
    /\ task[t].pc = "creating"
    /\ Ends(t)
    /\ Release
    /\ UNCHANGED <<tabs, active, removed, worker, lost, kills>>

\* The ledger with the new tab of command t.
Recorded(t) ==
    [i \in DOMAIN ledger \cup {task[t].tab} |->
        IF i = task[t].tab THEN AgentOf[t] ELSE ledger[i]]

SaveCreated(t) ==
    /\ task[t].pc = "created"
    /\ ledger' = Recorded(t)
    /\ stored' = Recorded(t)
    /\ IF task[t].op = "new"
       THEN Ends(t)
       ELSE Goes(t, "navigate") /\ UNCHANGED tail
    /\ Release
    /\ UNCHANGED <<tabs, active, removed, loaded, lost, kills>>

SaveCreatedFails(t) ==
    /\ task[t].pc = "created"
    /\ ledger' = Recorded(t)
    /\ Goes(t, "rollback")
    /\ UNCHANGED <<tabs, active, removed, loaded, stored, lock, tail,
                   lost, kills>>

\* Mutant of RollBack: the id is forgotten even when the tab stays open.
RollBackForgets(t) ==
    /\ task[t].pc = "rollback"
    /\ ledger' = [i \in DOMAIN ledger \ {task[t].tab} |-> ledger[i]]
    /\ \/ IsOpen(task[t].tab) /\ Closes(task[t].tab)
       \/ UNCHANGED <<tabs, active, removed>>
    /\ Ends(t)
    /\ Release
    /\ UNCHANGED <<loaded, stored, lost, kills>>

\* A tab that could not be saved is closed again and forgotten; when it cannot
\* be closed, this worker keeps its id.
RollBack(t) ==
    /\ task[t].pc = "rollback"
    /\ \/ /\ IsOpen(task[t].tab)
          /\ Closes(task[t].tab)
          /\ ledger' = [i \in DOMAIN ledger \ {task[t].tab} |-> ledger[i]]
       \/ UNCHANGED <<tabs, active, removed, ledger>>
    /\ Ends(t)
    /\ Release
    /\ UNCHANGED <<loaded, stored, lost, kills>>

\* Without an approval the person is asked for one.  The fingerprint of an
\* approval covers the host tab and the address; whether it is the one this
\* command carries is left open.
Navigate(t) ==
    /\ task[t].pc = "navigate"
    /\ \/ UNCHANGED tabs
       \/ /\ task[t].op = "approved"
          /\ IsOpen(task[t].tab)
          /\ tabs' = [tabs EXCEPT ![task[t].tab].blank = FALSE]
    /\ Ends(t)
    /\ UNCHANGED <<active, removed, worker, lock, lost, kills>>

-----------------------------------------------------------------------------
(* close_tab.                                                              *)

Closing(t) ==
    LET access == Access(Reconciled, task[t].tab, AgentOf[t])
    IN  /\ Holds(t)
        /\ task[t].pc = "closing"
        /\ Prepared
        /\ ledger' = Reconciled
        /\ CASE access = "owned" -> Goes(t, "remove") /\ UNCHANGED tail
             [] access = "unmanaged" -> Ends(t)
             [] access = "foreign" -> Ends(t)
        /\ Release
        /\ UNCHANGED <<tabs, active, removed, lost, kills>>

Remove(t) ==
    /\ task[t].pc = "remove"
    /\ \/ /\ IsOpen(task[t].tab)
          /\ Closes(task[t].tab)
          /\ Goes(t, "untrack")
          /\ Enqueue(t)
          /\ UNCHANGED tail
       \/ /\ Ends(t)
          /\ UNCHANGED <<tabs, active, removed, lock>>
    /\ UNCHANGED <<worker, lost, kills>>

Untrack(t) ==
    /\ Holds(t)
    /\ task[t].pc = "untrack"
    /\ \/ \E saved \in BOOLEAN : /\ Untracks(task[t].tab, saved)
                                 /\ Ends(t)
       \/ ~loaded /\ UNCHANGED worker /\ Ends(t)
    /\ Release
    /\ UNCHANGED <<tabs, active, removed, lost, kills>>

\* The onRemoved listener: the closed tab loses its mutation queue and, at some
\* moment when no command is in the middle of its work under the lock, its
\* place in the ledger.
Listener(i) ==
    /\ i \in removed
    /\ lock # <<>> => task[Head(lock)].pc \in Waiting
    /\ removed' = removed \ {i}
    /\ tail' = [tail EXCEPT ![i] = NoTask]
    /\ \/ \E saved \in BOOLEAN : Untracks(i, saved)
       \/ ~loaded /\ UNCHANGED worker
    /\ UNCHANGED <<tabs, active, lock, task, lost, kills>>

-----------------------------------------------------------------------------
(* cleanup_tabs, the popup's cleanup, and looking at the ledger.            *)

SubmitUnqueued(t, op) ==
    /\ op = "popup" <=> AgentOf[t] = Popup
    /\ task[t].pc = "idle"
    /\ task' = [task EXCEPT ![t] =
                  [Idle EXCEPT !.op = op, !.pc = IF op = "list" THEN op ELSE "cleanup"]]
    /\ Enqueue(t)
    /\ UNCHANGED <<tabs, active, removed, worker, tail, lost, kills>>

List(t) ==
    /\ Holds(t)
    /\ task[t].pc = "list"
    /\ Prepared
    /\ ledger' = Reconciled
    /\ Ends(t)
    /\ Release
    /\ UNCHANGED <<tabs, active, removed, lost, kills>>

\* A list of tab ids that is not well formed.
SelectRefused(t) ==
    /\ Holds(t)
    /\ task[t].pc = "cleanup"
    /\ task[t].op = "cleanup"
    /\ Prepared
    /\ ledger' = Reconciled
    /\ Ends(t)
    /\ Release
    /\ UNCHANGED <<tabs, active, removed, lost, kills>>

\* An agent names any of the tabs it may collect, or none to mean all of them.
Select(t) ==
    /\ Holds(t)
    /\ task[t].pc = "cleanup"
    /\ Prepared
    /\ ledger' = Reconciled
    /\ \E S \in IF task[t].op = "popup" THEN {DOMAIN Reconciled}
                ELSE SUBSET Collectable(Reconciled, AgentOf[t]) :
          task' = [task EXCEPT ![t].pc = "sweep", ![t].chosen = S]
    /\ UNCHANGED <<tabs, active, removed, lock, tail, lost, kills>>

\* tabs.remove of the next tab: a tab that cannot be closed stays recorded as
\* long as it exists.
Sweep(t) ==
    LET i == Least(task[t].chosen)
    IN  /\ task[t].pc = "sweep"
        /\ task[t].chosen # {}
        /\ task' = [task EXCEPT ![t].chosen = @ \ {i}]
        /\ \/ /\ IsOpen(i)
              /\ Closes(i)
              /\ ledger' = [j \in DOMAIN ledger \ {i} |-> ledger[j]]
           \/ /\ ledger' = [j \in DOMAIN ledger \ ({i} \ OpenTabs) |-> ledger[j]]
              /\ UNCHANGED <<tabs, active, removed>>
        /\ UNCHANGED <<loaded, stored, lock, tail, lost, kills>>

Swept(t) ==
    /\ task[t].pc = "sweep"
    /\ task[t].chosen = {}
    /\ \/ stored' = ledger /\ Ends(t)
       \/ UNCHANGED stored /\ Ends(t)
    /\ Release
    /\ UNCHANGED <<tabs, active, removed, ledger, loaded, lost, kills>>

-----------------------------------------------------------------------------
\* The browser kills the extension's worker: its memory is gone, the tabs and
\* session storage stay.
Kill ==
    /\ kills < cast.kills
    /\ kills' = kills + 1
    /\ ledger' = <<>>
    /\ loaded' = FALSE
    /\ lock' = <<>>
    /\ task' = [t \in Tasks |-> Idle]
    /\ tail' = [i \in DOMAIN tail |-> NoTask]
    /\ lost' = lost \cup {i \in OpenTabs \ DOMAIN stored : tabs[i].opener \in Agents}
    /\ UNCHANGED <<tabs, active, removed, stored>>

Opens(t) ==
    \/ BeginOpening(t) \/ Create(t) \/ Adopt(t) \/ TabCreated(t) \/ TabRefused(t)
    \/ SaveCreated(t) \/ SaveCreatedFails(t) \/ RollBack(t) \/ Navigate(t)

ClosesTabs(t) ==
    \/ BeginClose(t) \/ Closing(t) \/ Remove(t) \/ Untrack(t)
    \/ Select(t) \/ SelectRefused(t) \/ Sweep(t) \/ Swept(t)

\* The steps a command takes once it was sent.
Runs(t) ==
    StorageFails(t) \/ Guard(t) \/ List(t) \/ Drive(t) \/ TargetGone(t) \/ Opens(t) \/ ClosesTabs(t)

Asks(t) ==
    \/ \E op \in cast.sends[t] \cap Unqueued : SubmitUnqueued(t, op)
    \/ \E op \in cast.sends[t] \ Unqueued, i \in TabIds \cup {NoTab} : Submit(t, op, i)

Browser ==
    \/ UserOpens
    \/ \E i \in TabIds : UserCloses(i) \/ UserActivates(i)
    \/ \E i \in TabIds : Listener(i)

Next ==
    /\ UNCHANGED cast
    /\ Browser \/ Kill \/ \E t \in Tasks : Asks(t) \/ Runs(t)

Spec == Init /\ [][Next]_vars

-----------------------------------------------------------------------------
(* Correctness.                                                            *)

\* The state is well formed, and session storage never holds more entries
\* than ensureManagedTabsLoadedUnlocked accepts: a longer ledger would make
\* every later tab command of the browser fail.
TypeOK ==
    /\ cast \in Casts
    /\ tabs \in Seq(Tab) /\ Len(tabs) <= MaxTabs
    /\ active \in TabIds \cup {NoTab}
    /\ removed \subseteq TabIds
    /\ IsLedger(ledger) /\ IsLedger(stored)
    /\ loaded \in BOOLEAN
    /\ lock \in Seq(Tasks)
    /\ task \in [Tasks -> Task]
    /\ tail \in [TabIds \cup {NoTab} -> Tasks \cup {NoTask}]
    /\ lost \subseteq TabIds
    /\ kills \in 0 .. cast.kills
    /\ Cardinality(DOMAIN stored) <= MaxTotal

AgentTabs(a) == {i \in DOMAIN tabs : tabs[i].opener = a}

\* Command t is about to act on tab i: every check it makes is behind it.
ActsOn(t, i) ==
    \/ MyTurn(t) /\ task[t].op = "drive" /\ i = task[t].tab
    \/ task[t].pc \in {"navigate", "remove"} /\ i = task[t].tab
    \/ task[t].pc = "sweep" /\ i \in task[t].chosen

\* No agent ever drives or closes a tab that BrowseWeave opened for another
\* agent, however their commands, the user, closing tabs and storage failures
\* interleave (README.md, "Several agents on one browser profile"); a tab that
\* has no owner is collected by a cleanup and never driven.  Only a tab whose
\* record a kill of the worker prevented falls back to an ordinary tab.
OthersTabsUntouched ==
    \A t \in Tasks, i \in OpenTabs \ lost :
        ActsOn(t, i) /\ AgentOf[t] # Popup =>
            \/ tabs[i].opener = User
            \/ tabs[i].opener = AgentOf[t] /\ AgentOf[t] \in Agents
            \/ tabs[i].opener = NoAgent /\ task[t].pc = "sweep"

\* A tab the user opened is never closed, nor taken over by a new_tab: only
\* commands that name it, or find it active, may drive it.
UserTabsKept ==
    \A t \in Tasks, i \in AgentTabs(User) : ActsOn(t, i) => task[t].op = "drive"

\* The tabs of other agents and of the user are respected by the commands of
\* executeCommand that act on tabs.
TabsRespected == OthersTabsUntouched /\ UserTabsKept

\* The allowance of one agent and the ceiling of the browser profile bound the
\* tabs really open, not just the ledger: commands that run together cannot
\* both take the last place, and a tab whose record was not saved still counts.
WithinAllowance ==
    LET here == {i \in OpenTabs \ lost : tabs[i].opener \in Agents}
    IN  /\ Cardinality(here) <= MaxTotal
        /\ \A a \in Agents : Cardinality(here \cap AgentTabs(a)) <= MaxPerAgent

\* Every open tab of an agent is in the ledger under that agent, or is just
\* being recorded, or was lost in a kill: after rollbacks, failed saves, partial
\* cleanups and reloads none is forgotten and none changes hands.
Accounted ==
    \A i \in OpenTabs \ lost : tabs[i].opener \in Agents =>
        \/ i \in DOMAIN Memory /\ Memory[i] = tabs[i].opener
        \/ \E t \in Tasks : task[t].pc = "created" /\ task[t].tab = i

\* The ledger of managed-tabs.ts is well formed, complete and within its limits.
LedgerTrue == TypeOK /\ WithinAllowance /\ Accounted

\* A tab for a risky address is created only when its agent has no open tab that
\* is still blank, and never by a revalidation.
ReusesBlank ==
    \A t \in Tasks : task[t].pc = "creating" /\ task'[t].pc = "created" =>
        \/ task[t].op = "new"
        \/ /\ task[t].op # "recheck"
           /\ \A i \in (AgentTabs(AgentOf[t]) \cap OpenTabs) \ lost : ~tabs[i].blank

\* The retries of a risky new_tab do not leak tabs (blankManagedTabForNavigation).
NoBlankLeaked == [][ReusesBlank]_vars

\* Command t waits for command u: in the mutation queue of a tab, or in the
\* queue for the ledger's lock.
WaitsFor(t, u) ==
    \/ task[t].after = u
    \/ \E j \in DOMAIN lock : \E i \in 1 .. j - 1 : lock[i] = u /\ lock[j] = t

Running == {t \in Tasks : task[t].pc # "idle"}

\* No commands wait for each other in a circle, whatever failed before and
\* whichever mutation queue was forgotten with its tab.
NoCircle ==
    \A S \in (SUBSET Running) \ {{}} :
        \E t \in S : \A u \in S : ~WaitsFor(t, u)

\* A command may wait in a mutation queue and then for the lock; it waits for
\* commands that still run, and one that waits for nobody has a step to take.
NobodyStuck ==
    /\ \A t \in Running : \/ \E u \in Running : WaitsFor(t, u)
                          \/ ENABLED Runs(t)
    /\ NoCircle
=============================================================================
