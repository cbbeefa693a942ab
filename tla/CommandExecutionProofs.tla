----------------------- MODULE CommandExecutionProofs -----------------------
(***************************************************************************)
(* The extension's worker: one request at a time acts in a tab, a credential *)
(* and an approval are used once, and a saved revocation is final, for     *)
(* any slots, tabs and approvals and any number of failures and kills.     *)
(***************************************************************************)
EXTENDS CommandExecution, FiniteSetTheorems, TLAPS
-----------------------------------------------------------------------------
(* The inductive invariant, part by part. *)

Bound == [id : Nat, key : Tabs \cup Origins \cup {None}, epoch : Nat]
Task == [kind : AllKinds \cup {None, "moved"}, tab : Tabs \cup {None}, phase : Phases,
         after : Slots \cup {None}, item : Bound, undo : SUBSET Item,
         approval : Approvals \cup {None}]
Memory == [why : [Tabs -> Whys], paused : SUBSET Origins, loaded : BOOLEAN,
           unsaved : BOOLEAN, used : SUBSET Approvals,
           held : [Ledgers -> SUBSET Item], ready : [Ledgers -> BOOLEAN]]
Storage == [why : [Tabs -> Whys], held : [Ledgers -> SUBSET Item]]
History == [applied : SUBSET Nat, again : SUBSET Nat, acted : SUBSET Approvals,
            repeated : SUBSET Approvals, revoked : SUBSET Nat, late : SUBSET Nat]
Counts == [tasks : 0 .. MaxTasks, faults : Nat, kills : Nat, moves : 0 .. MaxMoves]

\* Every variable has its type, all fields included.
Typed ==
    /\ tab \in [Tabs -> [epoch : Nat, sign : Signs, open : BOOLEAN]]
    /\ mem \in Memory /\ saved \in Storage
    /\ task \in [Slots -> Task]
    /\ tail \in [Tabs -> Slots \cup {None}] /\ holder \in [Ledgers -> Slots \cup {None}]
    /\ past \in History /\ count \in Counts
    /\ \A t \in Tabs : tab[t].epoch <= count.moves

\* What a slot does and how far it is fit together.
Fits(s) ==
    /\ task[s].phase = "list" => task[s].kind = "complete"
    /\ task[s].phase \in {"queued", "probe"} => task[s].kind \in Queued \cup Reading \cup {"resume"}
    /\ task[s].phase = "bind" => task[s].kind \in {"fill", "prepare"}
    /\ task[s].phase = "lock" =>
          task[s].kind \in {"complete", "fill", "prepare", "cancel", "grant", "revoke"}
    /\ task[s].phase = "save" =>
          task[s].kind \in {"complete", "fill", "prepare", "cancel", "grant", "revoke", "moved"}
    /\ task[s].phase = "apply" => task[s].kind \in {"act", "approved", "fill", "complete"}
    /\ task[s].phase = "moved" => task[s].kind = "moved"
    /\ task[s].phase = "idle" => task[s] = Idle
    /\ task[s].phase # "idle" /\ task[s].kind \notin {"cancel", "revoke"} => task[s].tab \in Tabs
    /\ task[s].kind = "prepare" /\ task[s].phase \in {"lock", "save"} => task[s].item.key \in Tabs
    /\ task[s].kind \in {"prepare", "grant"} /\ task[s].phase # "idle" => task[s].item.id \in Ids
    /\ task[s].kind \in {"act", "approved"} /\ task[s].phase # "idle" => task[s].item.id = 0

\* A ledger, in memory, in storage or to be restored: it is not over its limit,
\* and there is one item for a tab or an origin.
Ledger(l, items) ==
    /\ IsFiniteSet(items) /\ Cardinality(items) <= MaxHeld
    /\ \A i, j \in items : i.key = j.key => i = j
    /\ l = "handoff" => \A i \in items : i.key \in Tabs

Filed ==
    /\ \A l \in Ledgers : Ledger(l, mem.held[l]) /\ Ledger(l, saved.held[l])
    /\ \A s \in Slots :
          /\ Ledger("permission", task[s].undo)
          /\ task[s].undo # {} => task[s].kind = "grant" /\ task[s].phase = "save"

\* The requests of a tab that are in its queue.
Waits(s, t) ==
    task[s].kind \in Queued /\ task[s].phase \notin {"idle", "list"} /\ task[s].tab = t

\* The queue of a tab, told by numbers r: each waits for the one before it, the
\* first, which alone may have started, for none, and the tail is the last.
Ordered(r, t) ==
    /\ \A s, x \in Slots : Waits(s, t) /\ Waits(x, t) /\ r[s] = r[x] => s = x
    /\ tail[t] # None => Waits(tail[t], t)
    /\ \A s \in Slots : Waits(s, t) =>
          /\ task[s].phase # "queued" => task[s].after = None
          /\ task[s].after = None => \A x \in Slots : Waits(x, t) => r[s] <= r[x]
          /\ task[s].after # None =>
                /\ Waits(task[s].after, t) /\ r[task[s].after] < r[s]
                /\ \A x \in Slots : Waits(x, t) /\ r[x] < r[s] => r[x] <= r[task[s].after]
          /\ tail[t] # None /\ r[s] <= r[tail[t]]

Queues == \E r \in [Slots -> Nat] : \A t \in Tabs : tab[t].open => Ordered(r, t)

\* What a slot saves it saves under the lock, and who has a lock needs it.
Locked ==
    /\ \A s \in Slots : task[s].phase = "save" =>
          holder[LedgerOf(task[s].kind)] = s /\ mem.ready[LedgerOf(task[s].kind)]
    /\ \A l \in Ledgers, s \in Slots : holder[l] = s =>
          l = LedgerOf(task[s].kind) /\ task[s].phase \in {"list", "lock", "moved", "save"}

\* Every credential belongs to one ledger.
At(h) ==
    /\ \A l \in Ledgers : \A i \in mem.held[l] \cup saved.held[l] :
          i.id <= count.tasks /\ h[i.id] = l
    /\ \A s \in Slots : \A i \in task[s].undo : i.id <= count.tasks /\ h[i.id] = "permission"
    /\ \A s \in Slots :
          /\ task[s].item.id <= count.tasks
          /\ task[s].item.id # 0 => h[task[s].item.id] = LedgerOf(task[s].kind)

Homes == \E h \in [Nat -> Ledgers] : At(h)

\* Where a credential can be: in a ledger, or put aside to be restored; ...
Held(l, id) == \E i \in mem.held[l] : i.id = id
Live(id) ==
    \/ \E l \in Ledgers : Held(l, id) \/ \E i \in saved.held[l] : i.id = id
    \/ \E s \in Slots : \E i \in task[s].undo : i.id = id

\* ... or it was applied, is about to be, or its revocation was saved.
Used(id) == \E s \in Slots : task[s].phase = "apply" /\ task[s].item.id = id
Gone(id) == id \in past.applied \cup past.revoked \/ Used(id)

Pending(s) == task[s].kind \in {"prepare", "grant"} /\ task[s].phase \notin {"idle", "save"}

NoneLeft ==
    /\ \A id \in Ids : Live(id) => ~ Gone(id)
    /\ past.applied \cup past.revoked \subseteq 0 .. count.tasks

AppliedOnce ==
    /\ \A s \in Slots : task[s].phase = "apply" /\ task[s].item.id # 0 =>
          task[s].item.id \notin past.applied
    /\ \A s, x \in Slots :
          /\ task[s].phase = "apply" /\ task[x].phase = "apply"
          /\ task[s].item.id = task[x].item.id /\ task[s].item.id # 0
          => s = x

\* What is being taken out is out of memory already.
TakenOut ==
    \A s \in Slots : task[s].phase = "save" =>
        /\ task[s].kind \in {"complete", "fill", "cancel", "revoke"} =>
              ~ Held(LedgerOf(task[s].kind), task[s].item.id)
        /\ task[s].kind \in {"complete", "fill"} =>
              task[s].item.id \in Ids /\ ~ Gone(task[s].item.id)

\* Only its own request knows a credential that is not in its ledger yet.
NotYet ==
    \A s \in Slots : Pending(s) =>
        /\ ~ Gone(task[s].item.id) /\ ~ Live(task[s].item.id)
        /\ \A x \in Slots : x # s => task[x].item.id # task[s].item.id

NothingTwice == past.again = {} /\ past.late = {}

Places == NoneLeft /\ AppliedOnce /\ TakenOut /\ NotYet /\ NothingTwice

\* An approval is with one request, which has not used it.
Replays ==
    /\ past.acted \subseteq mem.used /\ past.repeated = {}
    /\ \A s \in Slots : task[s].approval # None => task[s].approval \in mem.used \ past.acted
    /\ \A s, x \in Slots :
          task[s].approval = task[x].approval /\ task[s].approval # None => s = x

ExecInv == Typed /\ (\A s \in Slots : Fits(s)) /\ Filed /\ Queues /\ Locked /\ Homes /\ Places /\ Replays

-----------------------------------------------------------------------------
(* Types.  First what happens to the slots. *)

LEMMA IdleFits ==
    /\ Idle \in Task /\ NoItem \in Bound
    /\ Idle.phase = "idle" /\ Idle.item.id = 0 /\ Idle.undo = {} /\ Idle.approval = None
    /\ Idle.after = None
BY DEF Idle, Task, NoItem, Bound, Phases

LEMMA LedgersOfKinds ==
    ASSUME NEW kind
    PROVE  LedgerOf(kind) \in Ledgers
BY DEF LedgerOf, Ledgers

LEMMA GoTyped ==
    ASSUME task \in [Slots -> Task], NEW s \in Slots, NEW phase \in Phases, Go(s, phase)
    PROVE  task' \in [Slots -> Task]
BY DEF Go, Task

LEMMA DoneTyped ==
    ASSUME ConstantsAssumption,
           task \in [Slots -> Task], tail \in [Tabs -> Slots \cup {None}], NEW s \in Slots, Done(s)
    PROVE  task' \in [Slots -> Task] /\ tail' \in [Tabs -> Slots \cup {None}]
<1>1. \A x \in Slots : [task[x] EXCEPT !.after = None] \in Task
  BY DEF Task
<1>2. task' \in [Slots -> Task]
  BY <1>1, IdleFits DEF Done
<1>3. TailAfter(s, task[s].tab) \in Slots \cup {None} \/ task[s].tab \notin Tabs
  BY DEF TailAfter
<1>4. tail' \in [Tabs -> Slots \cup {None}]
  BY <1>3 DEF Done
<1> QED  BY <1>2, <1>4

LEMMA EnqueuedTyped ==
    ASSUME task \in [Slots -> Task], tail \in [Tabs -> Slots \cup {None}], NEW s \in Slots,
           NEW r \in Task, r.tab \in Tabs, Enqueued(s, r)
    PROVE  task' \in [Slots -> Task] /\ tail' \in [Tabs -> Slots \cup {None}]
<1>1. [r EXCEPT !.phase = "queued", !.after = tail[r.tab]] \in Task
  BY DEF Task, Phases
<1> QED  BY <1>1 DEF Enqueued

LEMMA ComesTyped ==
    ASSUME Typed, NEW s \in Slots, NEW r \in Task, r.tab \in Tabs \/ r.kind \notin Queued,
           Comes(s, r)
    PROVE  /\ task' \in [Slots -> Task] /\ tail' \in [Tabs -> Slots \cup {None}]
           /\ count' \in Counts /\ count'.tasks = count.tasks + 1 /\ count'.moves = count.moves
           /\ UNCHANGED <<tab, saved, holder, past>>
<1>1. count' \in Counts /\ count'.tasks = count.tasks + 1 /\ count'.moves = count.moves
  BY ConstantsAssumption DEF Comes, Typed, Counts, ConstantsAssumption
<1>2. CASE r.kind \in Queued \ {"complete"}
  BY <1>1, <1>2, EnqueuedTyped DEF Comes, Typed
<1>3. CASE r.kind \notin Queued \ {"complete"}
  <2>1. First(r.kind) \in Phases
    BY DEF First, Phases
  <2>2. [r EXCEPT !.phase = First(r.kind)] \in Task
    BY <2>1 DEF Task
  <2> QED  BY <1>1, <1>3, <2>2 DEF Comes, Typed
<1> QED  BY <1>2, <1>3

\* Every request that comes, whoever makes it.
LEMMA Requested ==
    ASSUME Typed, Filed, NEW s \in Slots, Request(s) \/ Choose(s) \/ ApprovedCommand(s)
    PROVE  \E r \in Task :
              /\ Comes(s, r) /\ r.kind \in AllKinds /\ r.undo = {}
              /\ r.kind \notin {"cancel", "revoke"} => r.tab \in Tabs
              /\ \/ mem' = mem /\ r.approval = None
                 \/ /\ mem' = [mem EXCEPT !.used = @ \cup {r.approval}]
                    /\ r.approval \in Approvals \ mem.used
              /\ \/ r.item.id = 0 /\ r.kind \notin {"prepare", "grant"}
                 \/ r.item.id = count.tasks + 1 /\ r.kind \in {"prepare", "grant"}
                 \/ /\ r.kind \in {"complete", "cancel", "revoke"}
                    /\ r.item \in mem.held[LedgerOf(r.kind)] \cup saved.held[LedgerOf(r.kind)]
<1> USE ConstantsAssumption DEF ConstantsAssumption
<1>1. count.tasks \in Nat
  BY DEF Typed, Counts
<1>2. CASE Request(s)
  <2>1. PICK kind \in AllKinds \ {"approved", "complete", "cancel", "revoke"}, t \in Tabs :
          /\ Comes(s, [Idle EXCEPT !.kind = kind, !.tab = t,
                !.item.id = IF kind \in {"prepare", "grant"} THEN count.tasks + 1 ELSE 0])
          /\ UNCHANGED mem
    BY <1>2 DEF Request
  <2>r. PICK r : r = [Idle EXCEPT !.kind = kind, !.tab = t,
                !.item.id = IF kind \in {"prepare", "grant"} THEN count.tasks + 1 ELSE 0]
    OBVIOUS
  <2>n. PICK n \in Nat : n = IF kind \in {"prepare", "grant"} THEN count.tasks + 1 ELSE 0
    BY <1>1
  <2>i. PICK i \in Bound : i = [id |-> n, key |-> None, epoch |-> 0]
    BY DEF Bound
  <2>f. r = [kind |-> kind, tab |-> t, phase |-> "idle", after |-> None,
             item |-> i, undo |-> {}, approval |-> None]
    BY <2>r, <2>n, <2>i DEF Idle, NoItem
  <2>2. r \in Task
    BY <2>f DEF Task, Phases
  <2>3. Comes(s, r)
    BY <2>1, <2>r
  <2> QED  BY <2>1, <2>2, <2>3, <2>f, <2>i, <2>n
<1>3. CASE Choose(s)
  <2>1. PICK kind \in {"complete", "cancel", "revoke"} :
          \E i \in saved.held[LedgerOf(kind)] \cup mem.held[LedgerOf(kind)] :
             /\ Comes(s, [Idle EXCEPT !.kind = kind, !.item = i,
                                 !.tab = IF kind = "complete" THEN i.key ELSE None])
             /\ UNCHANGED mem
    BY <1>3 DEF Choose
  <2>2. PICK i \in saved.held[LedgerOf(kind)] \cup mem.held[LedgerOf(kind)] :
             /\ Comes(s, [Idle EXCEPT !.kind = kind, !.item = i,
                                 !.tab = IF kind = "complete" THEN i.key ELSE None])
             /\ UNCHANGED mem
    BY <2>1
  <2>3. i \in Item /\ (kind = "complete" => i.key \in Tabs)
    BY <2>2, LedgersOfKinds DEF Typed, Memory, Storage, Filed, Ledger, LedgerOf
  <2>r. PICK r : r = [Idle EXCEPT !.kind = kind, !.item = i,
                                 !.tab = IF kind = "complete" THEN i.key ELSE None]
    OBVIOUS
  <2>4. Ids \subseteq Nat
    BY DEF Ids
  <2>5. /\ r \in Task /\ r.kind = kind /\ r.item = i /\ r.undo = {} /\ r.approval = None
        /\ r.kind \in AllKinds /\ (kind = "complete" => r.tab \in Tabs)
    BY <2>r, <2>3, <2>4 DEF Task, Idle, Item, Bound, Phases, AllKinds, Queued
  <2>6. Comes(s, r)
    BY <2>2, <2>r
  <2> QED  BY <2>2, <2>5, <2>6
<1>4. CASE ApprovedCommand(s)
  <2>1. PICK a \in Approvals, t \in Tabs :
        /\ a \notin mem.used
        /\ mem' = [mem EXCEPT !.used = @ \cup {a}]
        /\ Comes(s, [Idle EXCEPT !.kind = "approved", !.tab = t, !.approval = a])
    BY <1>4 DEF ApprovedCommand, Fresh
  <2>r. PICK r : r = [Idle EXCEPT !.kind = "approved", !.tab = t, !.approval = a]
    OBVIOUS
  <2>2. /\ r \in Task /\ r.kind = "approved" /\ r.undo = {} /\ r.approval = a
        /\ r.kind \in AllKinds /\ r.tab = t
    BY <2>r DEF Task, Idle, NoItem, Bound, Phases, AllKinds, Queued
  <2>3. r.item.id = 0
    BY <2>r DEF Idle, NoItem
  <2>4. Comes(s, r)
    BY <2>1, <2>r
  <2> QED  BY <2>1, <2>2, <2>3, <2>4
<1> QED  BY <1>2, <1>3, <1>4

LEMMA TypesOfComing ==
    ASSUME Typed, Filed, NEW s \in Slots, Request(s) \/ Choose(s) \/ ApprovedCommand(s)
    PROVE  Typed'
<1>1. PICK r \in Task :
        /\ Comes(s, r) /\ (r.kind \notin {"cancel", "revoke"} => r.tab \in Tabs)
        /\ \/ mem' = mem
           \/ /\ mem' = [mem EXCEPT !.used = @ \cup {r.approval}]
              /\ r.approval \in Approvals
  BY Requested
<1>2. r.tab \in Tabs \/ r.kind \notin Queued
  BY <1>1 DEF Queued
<1>3. mem' \in Memory
  BY <1>1 DEF Typed, Memory
<1> QED  BY <1>1, <1>2, <1>3, ComesTyped DEF Typed

\* The steps of a slot.
LEMMA TypesOfQueue ==
    ASSUME Typed, NEW s \in Slots, Fits(s), Guards(s) \/ Probes(s) \/ Binds(s)
    PROVE  Typed'
<1> USE ConstantsAssumption DEF ConstantsAssumption
<1>1. CASE Guards(s)
  <2>1. task[s].tab \in Tabs
    BY <1>1 DEF Guards, Fits, Queued, Reading
  <2>2. task' \in [Slots -> Task] /\ tail' \in [Tabs -> Slots \cup {None}]
    BY <1>1, DoneTyped, GoTyped DEF Guards, Typed, Phases
  <2>m. \A why \in Whys : [mem.why EXCEPT ![task[s].tab] = why] \in [Tabs -> Whys]
    BY <2>1 DEF Typed, Memory
  <2>3. mem' \in Memory
    <3>1. mem' = mem \/ mem' = [mem EXCEPT !.why = [mem.why EXCEPT ![task[s].tab] = "limited"], !.unsaved = TRUE]
      <4>1. mem \in Memory
        BY DEF Typed
      <4>2. mem' = mem \/ mem' = [mem EXCEPT !.why[task[s].tab] = "limited", !.unsaved = TRUE]
        BY <1>1, Zenon DEF Guards
      <4> QED  BY <4>1, <4>2 DEF Memory
    <3>2. [mem.why EXCEPT ![task[s].tab] = "limited"] \in [Tabs -> Whys]
      BY <2>m DEF Whys
    <3> QED  BY <3>1, <3>2 DEF Typed, Memory
  <2> QED  BY <1>1, <2>2, <2>3 DEF Guards, Typed
<1>2. CASE Probes(s)
  <2>1. task[s].tab \in Tabs
    BY <1>2 DEF Probes, Fits, Queued, Reading
  <2>m. \A why \in Whys : [mem.why EXCEPT ![task[s].tab] = why] \in [Tabs -> Whys]
    BY <2>1 DEF Typed, Memory
  <2>2. mem' \in Memory
    <3>1. CASE mem' = Remembered(task[s].tab, tab[task[s].tab].sign) /\ tab[task[s].tab].sign # "clear"
      <4>1. tab[task[s].tab].sign \in Whys /\ SiteOf[task[s].tab] \in Origins
        BY <2>1, <3>1 DEF Typed, Signs, Whys
      <4>2. mem' = [mem EXCEPT !.why = [mem.why EXCEPT ![task[s].tab] = tab[task[s].tab].sign],
                  !.unsaved = TRUE,
                  !.paused = IF tab[task[s].tab].sign = "limited" THEN @ \cup {SiteOf[task[s].tab]} ELSE @]
        BY <3>1 DEF Remembered, Typed, Memory
      <4> QED  BY <2>m, <4>1, <4>2 DEF Typed, Memory
    <3>2. CASE mem' = [mem EXCEPT !.why[task[s].tab] = None, !.paused = @ \ {SiteOf[task[s].tab]}, !.unsaved = TRUE]
      <4>1. mem' = [mem EXCEPT !.why = [mem.why EXCEPT ![task[s].tab] = None],
                  !.paused = @ \ {SiteOf[task[s].tab]}, !.unsaved = TRUE]
        BY <3>2 DEF Typed, Memory
      <4> QED  BY <2>m, <4>1 DEF Typed, Memory, Whys
    <3> QED  BY <1>2, <3>1, <3>2 DEF Probes, Typed
  <2>3. task' \in [Slots -> Task] /\ tail' \in [Tabs -> Slots \cup {None}]
    <3>1. CASE Done(s)
      BY <3>1, DoneTyped DEF Typed
    <3>2. CASE ~ Done(s)
      <4>1. Go(s, Cleared(s)) /\ tail' = tail
        BY <1>2, <3>2 DEF Probes
      <4>2. task[s].kind \in (Queued \cup Reading \cup {"resume"}) \ {"resume", "read"}
        BY <1>2, <3>2 DEF Probes, Fits
      <4>3. Cleared(s) \in Phases
        BY <4>2 DEF Cleared, Phases, Queued, Reading
      <4> QED  BY <4>1, <4>3, GoTyped DEF Typed
    <3> QED  BY <3>1, <3>2
  <2> QED  BY <1>2, <2>2, <2>3 DEF Probes, Typed
<1>3. CASE Binds(s)
  <2>1. task[s].tab \in Tabs
    BY <1>3 DEF Binds, Fits
  <2>2. CASE Done(s)
    BY <1>3, <2>2, DoneTyped DEF Binds, Typed
  <2>3. CASE ~ Done(s)
    <3>1. PICK key \in Tabs \cup Origins, epoch \in Nat :
            task' = [task EXCEPT ![s] = [task[s] EXCEPT !.phase = "lock",
                        !.item = [task[s].item EXCEPT !.epoch = epoch, !.key = key]]]
      <4>1. SiteOf[task[s].tab] \in Origins /\ tab[task[s].tab].epoch \in Nat
        BY <2>1 DEF Typed
      <4> QED  BY <1>3, <2>1, <2>3, <4>1 DEF Binds
    <3>2. task' \in [Slots -> Task]
      <4>1. task[s] \in Task
        BY DEF Typed
      <4>2. task[s].item \in Bound
        BY <4>1 DEF Task
      <4>3. PICK i \in Bound : i = [task[s].item EXCEPT !.epoch = epoch, !.key = key]
        BY <4>2 DEF Bound
      <4>4. [task[s] EXCEPT !.phase = "lock", !.item = i] \in Task
        BY <4>1 DEF Task, Phases
      <4> QED  BY <3>1, <4>3, <4>4 DEF Typed
    <3> QED  BY <1>3, <2>3, <3>2 DEF Binds, Typed
  <2> QED  BY <2>2, <2>3
<1> QED  BY <1>1, <1>2, <1>3

LEMMA TypesOfLocks ==
    ASSUME Typed, NEW s \in Slots, Locks(s) \/ Loads(s)
    PROVE  Typed'
<1>1. LedgerOf(task[s].kind) \in Ledgers
  BY LedgersOfKinds
<1>2. CASE Locks(s)
  BY <1>1, <1>2 DEF Locks, Typed
<1>3. CASE Loads(s)
  <2>1. mem' \in Memory
    BY <1>1, <1>3 DEF Loads, Typed, Memory, Storage
  <2> QED  BY <1>1, <1>3, <2>1 DEF Loads, Typed
<1> QED  BY <1>2, <1>3

LEMMA ChangeTyped ==
    ASSUME Typed, NEW s \in Slots, NEW items \in SUBSET Item, Change(s, items)
    PROVE  /\ mem' \in Memory /\ holder' \in [Ledgers -> Slots \cup {None}]
           /\ tail' = tail
BY LedgersOfKinds DEF Change, Typed, Memory

LEMMA TypesOfOperations ==
    ASSUME Typed, NEW s \in Slots, Fits(s),
           Previews(s) \/ Adds(s) \/ Consumes(s) \/ Revokes(s) \/ Sweeps(s)
    PROVE  Typed'
<1> USE ConstantsAssumption DEF ConstantsAssumption
<1> DEFINE l == LedgerOf(task[s].kind)
<1>l. l \in Ledgers /\ mem.held[l] \in SUBSET Item /\ task[s] \in Task
  BY LedgersOfKinds DEF Typed, Memory
<1>d. CASE Done(s) /\ UNCHANGED <<tab, mem, saved, holder, past, count>>
  BY <1>d, DoneTyped DEF Typed
<1>1. CASE Previews(s)
  <2>1. CASE Done(s)
    BY <1>1, <2>1, <1>d DEF Previews, CanWork
  <2>2. CASE ~ Done(s)
    <3>1. Enqueued(s, task[s]) /\ task[s].tab \in Tabs
      BY <1>1, <2>2 DEF Previews, CanWork, Fits
    <3>2. task' \in [Slots -> Task] /\ tail' \in [Tabs -> Slots \cup {None}]
      BY <3>1, <1>l, EnqueuedTyped DEF Typed
    <3> QED  BY <1>1, <3>2 DEF Previews, CanWork, Typed
  <2> QED  BY <2>1, <2>2
<1>2. CASE Adds(s)
  <2>1. PICK i : i = IF task[s].kind = "prepare" THEN task[s].item
                     ELSE [task[s].item EXCEPT !.key = SiteOf[task[s].tab]]
    OBVIOUS
  <2>2. CASE Done(s) /\ UNCHANGED <<mem, holder>>
    BY <1>2, <2>2, <1>d DEF Adds, CanWork
  <2>3. CASE ~ (Done(s) /\ UNCHANGED <<mem, holder>>)
    <3>1. Change(s, Added(l, i))
      BY <1>2, <2>1, <2>3 DEF Adds
    <3>2. task[s].phase = "lock" /\ task[s].kind \in {"prepare", "grant"} /\ task[s].tab \in Tabs
      BY <1>2 DEF Adds, CanWork, Fits
    <3>3. i \in Item
      BY <1>l, <2>1, <3>2 DEF Fits, Item, Task, Bound
    <3>4. Added(l, i) \in SUBSET Item
      BY <1>l, <3>3 DEF Added
    <3>5. PICK undo \in SUBSET Item :
            task' = [task EXCEPT ![s].phase = "save", ![s].item = i, ![s].undo = undo]
      BY <1>2, <2>1, <2>3, <1>l DEF Adds
    <3>6. i \in Bound
      BY <3>3 DEF Item, Bound, Ids
    <3>7. task' \in [Slots -> Task]
      <4>1. task' = [task EXCEPT ![s] = [task[s] EXCEPT !.phase = "save", !.item = i, !.undo = undo]]
        BY <3>5 DEF Typed, Task
      <4>2. [task[s] EXCEPT !.phase = "save", !.item = i, !.undo = undo] \in Task
        BY <1>l, <3>6 DEF Task, Phases
      <4> QED  BY <4>1, <4>2 DEF Typed
    <3>8. UNCHANGED <<tab, saved, past, count>>
      BY <1>2 DEF Adds, CanWork
    <3> QED  BY <3>1, <3>4, <3>7, <3>8, ChangeTyped DEF Typed
  <2> QED  BY <2>2, <2>3
<1>3. CASE Consumes(s)
  <2>1. CASE Wanted(s) = {}
    BY <1>3, <2>1, <1>d DEF Consumes, CanWork
  <2>2. CASE Wanted(s) # {}
    <3>1. PICK i : i = CHOOSE x \in Wanted(s) : TRUE
      OBVIOUS
    <3>2. i \in Wanted(s)
      BY <2>2, <3>1
    <3>3. i \in mem.held[l]
      BY <3>2 DEF Wanted
    <3>4. i.id \in Nat
      BY <3>3, <1>l DEF Item, Ids
    <3>5. /\ Change(s, Taken(l, i.id))
          /\ task' = [task EXCEPT ![s].phase = "save", ![s].item.id = i.id]
          /\ past' = IF i.id \in past.revoked THEN [past EXCEPT !.late = @ \cup {i.id}] ELSE past
          /\ UNCHANGED <<tab, saved, count>>
      BY <1>3, <2>2, <3>1 DEF Consumes, CanWork
    <3>6. Taken(l, i.id) \in SUBSET Item
      BY <1>l DEF Taken, Removed
    <3>7. task' \in [Slots -> Task]
      <4>1. task' = [task EXCEPT ![s] = [task[s] EXCEPT !.phase = "save",
                                           !.item = [task[s].item EXCEPT !.id = i.id]]]
        BY <3>5 DEF Typed, Task, Bound
      <4>2. [task[s].item EXCEPT !.id = i.id] \in Bound
        BY <1>l, <3>4 DEF Task, Bound
      <4>3. [task[s] EXCEPT !.phase = "save", !.item = [task[s].item EXCEPT !.id = i.id]] \in Task
        BY <1>l, <4>2 DEF Task, Phases
      <4> QED  BY <4>1, <4>3 DEF Typed
    <3>8. past' \in History
      BY <3>4, <3>5 DEF Typed, History
    <3> QED  BY <3>5, <3>6, <3>7, <3>8, ChangeTyped DEF Typed
  <2> QED  BY <2>1, <2>2
<1>4. CASE Revokes(s)
  <2>1. CASE Wanted(s) = {}
    BY <1>4, <2>1, <1>d DEF Revokes, CanWork
  <2>2. CASE Wanted(s) # {}
    <3>1. /\ Change(s, Removed(l, task[s].item.id)) /\ Go(s, "save")
          /\ UNCHANGED <<tab, saved, past, count>>
      BY <1>4, <2>2 DEF Revokes, CanWork
    <3>2. Removed(l, task[s].item.id) \in SUBSET Item
      BY <1>l DEF Removed
    <3>3. task' \in [Slots -> Task]
      BY <3>1, GoTyped DEF Typed, Phases
    <3> QED  BY <3>1, <3>2, <3>3, ChangeTyped DEF Typed
  <2> QED  BY <2>1, <2>2
<1>5. CASE Sweeps(s)
  <2>1. PICK kept : kept = {i \in mem.held["handoff"] : i.key # task[s].tab}
    OBVIOUS
  <2>2. CASE kept = mem.held["handoff"]
    BY <1>5, <2>1, <2>2, <1>d DEF Sweeps, CanWork
  <2>3. CASE kept # mem.held["handoff"]
    <3>1. /\ Change(s, kept) /\ Go(s, "save")
          /\ UNCHANGED <<tab, saved, past, count>>
      BY <1>5, <2>1, <2>3 DEF Sweeps, CanWork
    <3>2. kept \in SUBSET Item
      BY <2>1 DEF Typed, Memory, Ledgers
    <3>3. task' \in [Slots -> Task]
      BY <3>1, GoTyped DEF Typed, Phases
    <3> QED  BY <3>1, <3>2, <3>3, ChangeTyped DEF Typed
  <2> QED  BY <2>2, <2>3
<1> QED  BY <1>1, <1>2, <1>3, <1>4, <1>5

LEMMA ReleaseTyped ==
    ASSUME Typed, NEW s \in Slots, Release(s)
    PROVE  holder' \in [Ledgers -> Slots \cup {None}]
BY DEF Release, Typed

LEMMA TypesOfEnds ==
    ASSUME Typed, NEW s \in Slots, Fits(s), Saves(s) \/ StorageFails(s) \/ Applies(s)
    PROVE  Typed'
<1> USE ConstantsAssumption DEF ConstantsAssumption
<1>l. LedgerOf(task[s].kind) \in Ledgers
  BY LedgersOfKinds
<1>t. task[s] \in Task
  BY DEF Typed
<1>i. task[s].item.id \in Nat
  BY <1>t DEF Task, Bound
<1>1. CASE Saves(s)
  <2>1. task' \in [Slots -> Task] /\ tail' \in [Tabs -> Slots \cup {None}]
    BY <1>1, DoneTyped, GoTyped DEF Saves, Continue, Typed, Phases
  <2>2. [saved.held EXCEPT ![LedgerOf(task[s].kind)] = mem.held[LedgerOf(task[s].kind)]]
           \in [Ledgers -> SUBSET Item]
    BY <1>l DEF Typed, Memory, Storage
  <2>3. saved' \in Storage
    <3>1. Persisted(s)
      BY <1>1 DEF Saves
    <3> QED  BY <2>2, <3>1 DEF Persisted, Typed, Storage
  <2>4. past' \in History
    BY <1>1, <1>i DEF Saves, Typed, History
  <2>5. holder' \in [Ledgers -> Slots \cup {None}]
    BY <1>1, ReleaseTyped DEF Saves
  <2> QED  BY <1>1, <2>1, <2>3, <2>4, <2>5 DEF Saves, Typed
<1>2. CASE StorageFails(s)
  <2>1. task' \in [Slots -> Task] /\ tail' \in [Tabs -> Slots \cup {None}]
    BY <1>2, DoneTyped DEF StorageFails, Typed
  <2>2. [mem.held EXCEPT !["permission"] = task[s].undo] \in [Ledgers -> SUBSET Item]
    BY <1>t DEF Typed, Memory, Task
  <2>3. mem' \in Memory
    <3>1. mem' = mem \/ mem' = [mem EXCEPT !.held["permission"] = task[s].undo]
      BY <1>2 DEF StorageFails, RolledBack
    <3> QED  BY <2>2, <3>1 DEF Typed, Memory
  <2>4. holder' \in [Ledgers -> Slots \cup {None}]
    BY <1>2, ReleaseTyped DEF StorageFails
  <2>5. count' \in Counts /\ count'.moves = count.moves
    BY <1>2 DEF StorageFails, Typed, Counts
  <2> QED  BY <1>2, <2>1, <2>3, <2>4, <2>5 DEF StorageFails, Typed
<1>3. CASE Applies(s)
  <2>1. task' \in [Slots -> Task] /\ tail' \in [Tabs -> Slots \cup {None}]
    BY <1>3, DoneTyped DEF Applies, Typed
  <2>2. task[s].approval \in Approvals \cup {None}
    BY <1>t DEF Task
  <2>3. past' \in History
    <3>1. \/ past' = past
          \/ past' = [past EXCEPT !.applied = @ \cup {task[s].item.id},
                                  !.again = @ \cup (past.applied \cap {task[s].item.id})]
          \/ /\ task[s].approval # None
             /\ past' = [past EXCEPT !.acted = @ \cup {task[s].approval},
                                  !.repeated = @ \cup (past.acted \cap {task[s].approval})]
      BY <1>3 DEF Applies
    <3>2. past \in History
      BY DEF Typed
    <3>3. CASE past' = [past EXCEPT !.applied = @ \cup {task[s].item.id},
                                  !.again = @ \cup (past.applied \cap {task[s].item.id})]
      BY <1>i, <3>2, <3>3 DEF History
    <3>4. CASE /\ task[s].approval # None
               /\ past' = [past EXCEPT !.acted = @ \cup {task[s].approval},
                                  !.repeated = @ \cup (past.acted \cap {task[s].approval})]
      BY <2>2, <3>2, <3>4 DEF History
    <3> QED  BY <3>1, <3>2, <3>3, <3>4
  <2> QED  BY <1>3, <2>1, <2>3 DEF Applies, Typed
<1> QED  BY <1>1, <1>2, <1>3

LEMMA SweptTyped ==
    ASSUME Typed, NEW t \in Tabs, Swept(t)
    PROVE  task' \in [Slots -> Task]
<1> PICK k : k = [Idle EXCEPT !.kind = "moved", !.tab = t, !.phase = "moved"]
  OBVIOUS
<1>1. k \in Task
  BY IdleFits DEF Task, Phases
<1> QED  BY <1>1, ConstantsAssumption DEF Swept, Typed, ConstantsAssumption

LEMMA StartedTyped == Started \in Memory
<1>1. [t \in Tabs |-> None] \in [Tabs -> Whys]
  BY DEF Whys
<1>2. [l \in Ledgers |-> {}] \in [Ledgers -> SUBSET Item] /\ [l \in Ledgers |-> FALSE] \in [Ledgers -> BOOLEAN]
  OBVIOUS
<1> QED  BY <1>1, <1>2 DEF Started, Memory

LEMMA TypesOfBrowser ==
    ASSUME Typed, SavesState \/ LoadsState \/ Navigates \/ ShowsSign \/ Closes \/ Kill
    PROVE  Typed'
<1> USE ConstantsAssumption DEF ConstantsAssumption
<1>1. CASE SavesState
  BY <1>1 DEF SavesState, Typed, Memory, Storage
<1>2. CASE LoadsState
  <2>1. [t \in Tabs |-> IF saved.why[t] # None THEN saved.why[t] ELSE mem.why[t]] \in [Tabs -> Whys]
    BY DEF Typed, Memory, Storage
  <2>2. {SiteOf[t] : t \in {x \in Tabs : saved.why[x] = "limited"}} \subseteq Origins
    OBVIOUS
  <2>3. mem' \in Memory
    BY <1>2, <2>1, <2>2 DEF LoadsState, Typed, Memory
  <2> QED  BY <1>2, <2>3 DEF LoadsState, Typed
<1>m. ASSUME count.moves < MaxMoves, count' = [count EXCEPT !.moves = @ + 1]
      PROVE  count' \in Counts /\ count'.moves = count.moves + 1 /\ count.moves \in Nat
  BY <1>m DEF Typed, Counts
<1>3. CASE Navigates
  <2>1. PICK t \in Tabs :
          /\ count.moves < MaxMoves
          /\ tab' = [tab EXCEPT ![t].epoch = @ + 1, ![t].sign = "clear"]
          /\ Swept(t)
          /\ count' = [count EXCEPT !.moves = @ + 1]
    BY <1>3 DEF Navigates
  <2>2. \A x \in Tabs : tab[x] \in [epoch : Nat, sign : Signs, open : BOOLEAN] /\ tab[x].epoch <= count.moves
    BY DEF Typed
  <2>c. "clear" \in Signs /\ tab[t].epoch + 1 \in Nat
    BY <2>2 DEF Signs
  <2>e. tab' = [tab EXCEPT ![t] = [tab[t] EXCEPT !.epoch = tab[t].epoch + 1, !.sign = "clear"]]
    BY <2>1 DEF Typed
  <2>r. [tab[t] EXCEPT !.epoch = tab[t].epoch + 1, !.sign = "clear"] \in [epoch : Nat, sign : Signs, open : BOOLEAN]
    BY <2>2, <2>c
  <2>3. tab' \in [Tabs -> [epoch : Nat, sign : Signs, open : BOOLEAN]]
    BY <2>e, <2>r DEF Typed
  <2>4. \A x \in Tabs : tab'[x].epoch <= count.moves + 1
    BY <2>1, <2>2, <1>m DEF Typed
  <2> QED  BY <1>3, <1>m, <2>1, <2>3, <2>4, SweptTyped DEF Navigates, Typed
<1>4. CASE ShowsSign
  <2>1. PICK t \in Tabs, sign \in Signs :
          /\ count.moves < MaxMoves
          /\ tab' = [tab EXCEPT ![t].sign = sign]
          /\ count' = [count EXCEPT !.moves = @ + 1]
    BY <1>4 DEF ShowsSign
  <2>2. tab' \in [Tabs -> [epoch : Nat, sign : Signs, open : BOOLEAN]] /\ \A x \in Tabs : tab'[x].epoch = tab[x].epoch
    BY <2>1 DEF Typed
  <2>3. \A x \in Tabs : tab[x].epoch \in Nat /\ tab[x].epoch <= count.moves
    BY DEF Typed
  <2>4. \A x \in Tabs : tab'[x].epoch <= count.moves + 1
    BY <2>2, <2>3, <2>1, <1>m
  <2> QED  BY <1>4, <1>m, <2>1, <2>2, <2>4 DEF ShowsSign, Typed
<1>5. CASE Closes
  <2>1. PICK t \in Tabs :
        /\ count.moves < MaxMoves
        /\ tab' = [tab EXCEPT ![t].open = FALSE]
        /\ \/ mem' = mem
           \/ mem' = [mem EXCEPT !.why[t] = None, !.paused = @ \ {SiteOf[t]}, !.unsaved = TRUE]
        /\ tail' = [tail EXCEPT ![t] = None]
        /\ Swept(t)
        /\ count' = [count EXCEPT !.moves = @ + 1]
    BY <1>5 DEF Closes
  <2>s. tab \in [Tabs -> [epoch : Nat, sign : Signs, open : BOOLEAN]] /\ mem \in Memory
    BY DEF Typed
  <2>r. [tab[t] EXCEPT !.open = FALSE] \in [epoch : Nat, sign : Signs, open : BOOLEAN]
    BY <2>s
  <2>2. tab' \in [Tabs -> [epoch : Nat, sign : Signs, open : BOOLEAN]] /\ \A x \in Tabs : tab'[x].epoch = tab[x].epoch
    BY <2>1, <2>s, <2>r
  <2>3. \A x \in Tabs : tab[x].epoch \in Nat /\ tab[x].epoch <= count.moves
    BY DEF Typed
  <2>4. \A x \in Tabs : tab'[x].epoch <= count.moves + 1
    BY <2>2, <2>3, <2>1, <1>m
  <2>5. [mem.why EXCEPT ![t] = None] \in [Tabs -> Whys]
    BY DEF Typed, Memory, Whys
  <2>6. mem' \in Memory
    <3>1. CASE mem' = [mem EXCEPT !.why[t] = None, !.paused = @ \ {SiteOf[t]}, !.unsaved = TRUE]
      <4>1. mem' = [mem EXCEPT !.why = [mem.why EXCEPT ![t] = None], !.paused = @ \ {SiteOf[t]}, !.unsaved = TRUE]
        BY <3>1, <2>s DEF Memory
      <4> QED  BY <4>1, <2>s, <2>5 DEF Memory
    <3> QED  BY <2>1, <2>s, <3>1
  <2>7. task' \in [Slots -> Task]
    BY <2>1, SweptTyped
  <2>8. tail' \in [Tabs -> Slots \cup {None}]
    BY <2>1 DEF Typed
  <2>9. UNCHANGED <<saved, holder, past>>
    BY <1>5 DEF Closes
  <2> QED  BY <1>m, <2>1, <2>2, <2>4, <2>6, <2>7, <2>8, <2>9 DEF Typed
<1>6. CASE Kill
  <2>1. PICK arrived \in SUBSET Ledgers :
          saved' = [saved EXCEPT !.held = [l \in Ledgers |-> IF l \in arrived THEN mem.held[l] ELSE @[l]]]
    BY <1>6 DEF Kill
  <2>2. saved' \in Storage
    BY <2>1 DEF Typed, Memory, Storage
  <2>3. count' \in Counts /\ count'.moves = count.moves
    <3>1. count' = [count EXCEPT !.kills = @ + 1] /\ count \in Counts
      BY <1>6 DEF Kill, Typed
    <3> QED  BY <3>1 DEF Counts
  <2>p. past' \in History
    <3>1. past' = [past EXCEPT !.acted = {}] /\ past \in History
      BY <1>6 DEF Kill, Typed
    <3> QED  BY <3>1 DEF History
  <2>4. task' \in [Slots -> Task]
    BY <1>6, IdleFits DEF Kill
  <2> QED  BY <1>6, <2>2, <2>3, <2>p, <2>4, StartedTyped DEF Kill, Typed
<1> QED  BY <1>1, <1>2, <1>3, <1>4, <1>5, <1>6

LEMMA TypesHold ==
    ASSUME Typed, Filed, \A s \in Slots : Fits(s), [Next]_vars
    PROVE  Typed'
<1>1. CASE UNCHANGED vars
  BY <1>1 DEF vars, Typed
<1>2. ASSUME NEW s \in Slots,
             Request(s) \/ Choose(s) \/ ApprovedCommand(s) \/ Steps(s) \/ StorageFails(s)
      PROVE  Typed'
  BY <1>2, TypesOfComing, TypesOfQueue, TypesOfLocks, TypesOfOperations, TypesOfEnds DEF Steps
<1> QED  BY <1>1, <1>2, TypesOfBrowser DEF Next

-----------------------------------------------------------------------------
(* What a step does to the slots, the ledgers and what is on record of them; *)
(* the pauses, the tabs and the order of the queues are left out.            *)

\* A bystander: at most it need not wait any more.
Same(x) ==
    /\ task'[x].kind = task[x].kind /\ task'[x].tab = task[x].tab
    /\ task'[x].phase = task[x].phase /\ task'[x].item = task[x].item
    /\ task'[x].undo = task[x].undo /\ task'[x].approval = task[x].approval
    /\ task[x] = Idle => task'[x] = Idle

Others(s) == \A x \in Slots \ {s} : Same(x)
Over(s) == task'[s] = Idle

SameLedgers == mem'.held = mem.held /\ mem'.ready = mem.ready /\ saved'.held = saved.held
SameCount == count'.tasks = count.tasks

Still ==
    /\ \A x \in Slots : Same(x)
    /\ SameLedgers /\ mem'.used = mem.used /\ SameCount /\ UNCHANGED <<holder, past>>

\* A slot goes on, keeping what it works on.
Goes(s) ==
    /\ task'[s].kind = task[s].kind /\ task'[s].tab = task[s].tab
    /\ task'[s].item.id = task[s].item.id
    /\ task'[s].undo = task[s].undo /\ task'[s].approval = task[s].approval

Calm(s) ==
    /\ Others(s) /\ SameLedgers /\ mem'.used = mem.used /\ SameCount /\ UNCHANGED <<holder, past>>
    /\ \A l \in Ledgers : holder[l] # s
    /\ task[s].phase \notin {"idle", "save", "apply"}
    /\ \/ Over(s)
       \/ /\ Goes(s) /\ task'[s].phase \in {"queued", "probe", "bind", "lock", "apply"}
          /\ task'[s].phase = "apply" => task[s].kind \in {"act", "approved"}

Begins(s) ==
    /\ Others(s) /\ SameLedgers /\ UNCHANGED <<holder, past>>
    /\ task[s].phase = "idle" /\ task'[s].phase \in {"list", "queued", "lock", "moved"}
    /\ task'[s].undo = {}
    /\ \/ task'[s].approval = None /\ mem'.used = mem.used
       \/ /\ task'[s].approval \in Approvals \ mem.used
          /\ mem'.used = mem.used \cup {task'[s].approval}
    /\ \/ /\ task'[s].item.id = 0 /\ task'[s].kind \notin {"prepare", "grant"}
          /\ count'.tasks \in {count.tasks, count.tasks + 1}
       \/ /\ task'[s].item.id = count.tasks + 1 /\ count'.tasks = count.tasks + 1
          /\ task'[s].kind \in {"prepare", "grant"}
       \/ /\ task'[s].kind \in {"complete", "cancel", "revoke"}
          /\ task'[s].item \in mem.held[LedgerOf(task'[s].kind)] \cup saved.held[LedgerOf(task'[s].kind)]
          /\ count'.tasks = count.tasks + 1

\* An operation under the lock leaves items in memory and goes on to save them.
Works(s, items) ==
    /\ Others(s) /\ UNCHANGED <<saved, count>> /\ mem'.used = mem.used /\ mem'.ready = mem.ready
    /\ task[s].phase \in {"lock", "moved"} /\ task'[s].phase = "save"
    /\ task'[s].kind = task[s].kind /\ task'[s].tab = task[s].tab
    /\ task'[s].approval = task[s].approval
    /\ holder[LedgerOf(task[s].kind)] = None /\ mem.ready[LedgerOf(task[s].kind)]
    /\ holder' = [holder EXCEPT ![LedgerOf(task[s].kind)] = s]
    /\ mem'.held = [mem.held EXCEPT ![LedgerOf(task[s].kind)] = items]

Adding(s) ==
    /\ task[s].kind \in {"prepare", "grant"} /\ past' = past
    /\ \E i \in Item :
          /\ Works(s, Added(LedgerOf(task[s].kind), i))
          /\ Cardinality(Added(LedgerOf(task[s].kind), i)) <= MaxHeld
          /\ i.id = task[s].item.id /\ task'[s].item = i
          /\ task[s].kind = "prepare" => i.key \in Tabs /\ task'[s].undo = {}
          /\ task[s].kind = "grant" => task'[s].undo = mem.held[LedgerOf(task[s].kind)]

Consuming(s) ==
    /\ task[s].kind \in {"complete", "fill"}
    /\ \E i \in mem.held[LedgerOf(task[s].kind)] :
          /\ Works(s, Removed(LedgerOf(task[s].kind), i.id))
          /\ task'[s].item.id = i.id /\ task'[s].undo = task[s].undo
          /\ past' = IF i.id \in past.revoked THEN [past EXCEPT !.late = @ \cup {i.id}] ELSE past

Revoking(s) ==
    /\ task[s].kind \in {"cancel", "revoke"} /\ past' = past
    /\ Works(s, Removed(LedgerOf(task[s].kind), task[s].item.id))
    /\ Goes(s)

Sweeping(s) ==
    /\ task[s].kind = "moved" /\ past' = past
    /\ \E items \in SUBSET mem.held["handoff"] : Works(s, items)
    /\ Goes(s)

Freed(s) == holder' = [holder EXCEPT ![LedgerOf(task[s].kind)] = None]

Saving(s) ==
    /\ Others(s) /\ UNCHANGED <<mem, count>> /\ Freed(s)
    /\ task[s].phase = "save"
    /\ saved'.held = [saved.held EXCEPT ![LedgerOf(task[s].kind)] = mem.held[LedgerOf(task[s].kind)]]
    /\ \/ /\ task[s].kind \in {"complete", "fill"} /\ Goes(s) /\ task'[s].phase = "apply"
          /\ past' = past
       \/ /\ task[s].kind \notin {"complete", "fill"} /\ Over(s)
          /\ past' = IF task[s].kind \in {"cancel", "revoke"}
                     THEN [past EXCEPT !.revoked = @ \cup {task[s].item.id}] ELSE past

Failing(s) ==
    /\ Others(s) /\ Over(s) /\ Freed(s) /\ UNCHANGED <<saved, past>> /\ SameCount
    /\ mem'.used = mem.used /\ mem'.ready = mem.ready
    /\ holder[LedgerOf(task[s].kind)] = s
    /\ \/ mem'.held = mem.held
       \/ /\ task[s].kind = "grant" /\ task[s].phase = "save"
          /\ mem'.held = [mem.held EXCEPT !["permission"] = task[s].undo]

Applying(s) ==
    /\ Others(s) /\ Over(s) /\ UNCHANGED <<mem, saved, holder, count>>
    /\ task[s].phase = "apply"
    /\ \/ past' = past
       \/ /\ task[s].item.id # 0
          /\ past' = [past EXCEPT !.applied = @ \cup {task[s].item.id},
                                  !.again = @ \cup (past.applied \cap {task[s].item.id})]
       \/ /\ task[s].approval # None
          /\ past' = [past EXCEPT !.acted = @ \cup {task[s].approval},
                                  !.repeated = @ \cup (past.acted \cap {task[s].approval})]

LEMMA DoneEffect ==
    ASSUME Typed, NEW s \in Slots, Done(s)
    PROVE  Over(s) /\ Others(s)
<1>1. \A x \in Slots : task[x] \in Task
  BY DEF Typed
<1>2. Over(s)
  BY DEF Done, Over
<1>3. ASSUME NEW x \in Slots \ {s} PROVE Same(x)
  <2>1. task'[x] = IF task[x].after = s THEN [task[x] EXCEPT !.after = None] ELSE task[x]
    BY DEF Done
  <2>2. task[x] = Idle => task[x].after # s
    BY ConstantsAssumption, IdleFits DEF ConstantsAssumption
  <2> QED  BY <1>1, <2>1, <2>2 DEF Task, Same
<1> QED  BY <1>2, <1>3 DEF Others

LEMMA GoEffect ==
    ASSUME Typed, NEW s \in Slots, NEW phase, Go(s, phase)
    PROVE  Goes(s) /\ Others(s) /\ task'[s].phase = phase
BY DEF Typed, Task, Go, Goes, Others, Same

LEMMA EnqueuedEffect ==
    ASSUME Typed, NEW s \in Slots, NEW r \in Task, Enqueued(s, r)
    PROVE  /\ Others(s) /\ task'[s].kind = r.kind /\ task'[s].tab = r.tab /\ task'[s].phase = "queued"
           /\ task'[s].item = r.item /\ task'[s].undo = r.undo /\ task'[s].approval = r.approval
BY DEF Typed, Task, Enqueued, Others, Same

LEMMA ComesEffect ==
    ASSUME Typed, NEW s \in Slots, NEW r \in Task, Comes(s, r)
    PROVE  /\ Others(s) /\ task'[s].kind = r.kind /\ task'[s].tab = r.tab
           /\ task'[s].phase = First(r.kind)
           /\ task'[s].item = r.item /\ task'[s].undo = r.undo /\ task'[s].approval = r.approval
           /\ task[s].phase = "idle" /\ s # Sweeper
           /\ count'.tasks = count.tasks + 1 /\ UNCHANGED <<tab, saved, holder, past>>
<1>1. task[s].phase = "idle" /\ s # Sweeper
  BY DEF Comes, FreeSlot
<1>2. count'.tasks = count.tasks + 1 /\ UNCHANGED <<tab, saved, holder, past>>
  BY DEF Comes, Typed, Counts
<1>3. CASE r.kind \in Queued \ {"complete"}
  <2>1. First(r.kind) = "queued"
    BY <1>3 DEF First, Queued
  <2> QED  BY <1>1, <1>2, <1>3, <2>1, EnqueuedEffect DEF Comes
<1>4. CASE r.kind \notin Queued \ {"complete"}
  <2>1. task' = [task EXCEPT ![s] = [r EXCEPT !.phase = First(r.kind)]]
    BY <1>4 DEF Comes
  <2>2. task'[s] = [r EXCEPT !.phase = First(r.kind)] /\ \A x \in Slots \ {s} : task'[x] = task[x]
    BY <2>1 DEF Typed
  <2>3. Others(s)
    BY <2>2 DEF Others, Same
  <2> QED  BY <1>1, <1>2, <2>2, <2>3 DEF Task
<1> QED  BY <1>3, <1>4

LEMMA ComingEffect ==
    ASSUME Typed, Filed, NEW s \in Slots, Request(s) \/ Choose(s) \/ ApprovedCommand(s)
    PROVE  Begins(s)
<1>1. PICK r \in Task :
        /\ Comes(s, r) /\ r.undo = {}
        /\ \/ mem' = mem /\ r.approval = None
           \/ /\ mem' = [mem EXCEPT !.used = @ \cup {r.approval}]
              /\ r.approval \in Approvals \ mem.used
        /\ \/ r.item.id = 0 /\ r.kind \notin {"prepare", "grant"}
           \/ r.item.id = count.tasks + 1 /\ r.kind \in {"prepare", "grant"}
           \/ /\ r.kind \in {"complete", "cancel", "revoke"}
              /\ r.item \in mem.held[LedgerOf(r.kind)] \cup saved.held[LedgerOf(r.kind)]
  BY Requested
<1>2. /\ Others(s) /\ task'[s].kind = r.kind /\ task'[s].phase = First(r.kind)
      /\ task'[s].item = r.item /\ task'[s].undo = {} /\ task'[s].approval = r.approval
      /\ task[s].phase = "idle" /\ count'.tasks = count.tasks + 1 /\ UNCHANGED <<saved, holder, past>>
  BY <1>1, ComesEffect
<1>3. First(r.kind) \in {"list", "queued", "lock"}
  BY DEF First
<1>4. SameLedgers
  BY <1>1, <1>2 DEF SameLedgers, Typed, Memory
<1>5. \/ task'[s].approval = None /\ mem'.used = mem.used
      \/ /\ task'[s].approval \in Approvals \ mem.used
         /\ mem'.used = mem.used \cup {task'[s].approval}
  BY <1>1, <1>2 DEF Typed, Memory
<1> QED  BY <1>1, <1>2, <1>3, <1>4, <1>5 DEF Begins

LEMMA QueueEffect ==
    ASSUME Typed, Locked, NEW s \in Slots, Fits(s), Guards(s) \/ Probes(s) \/ Binds(s)
    PROVE  Calm(s)
<1>1. /\ task[s].phase \in {"queued", "probe", "bind"} /\ \A l \in Ledgers : holder[l] # s
      /\ UNCHANGED <<saved, holder, past, count>>
  BY DEF Guards, Probes, Binds, Locked
<1>2. SameLedgers /\ mem'.used = mem.used
  <2>0. mem \in Memory
    BY DEF Typed
  <2>1. CASE Guards(s)
    BY <2>0, <2>1, <1>1 DEF Guards, Memory, SameLedgers
  <2>2. CASE Probes(s)
    BY <2>0, <2>2, <1>1 DEF Probes, Remembered, Memory, SameLedgers
  <2>3. CASE Binds(s)
    BY <2>3, <1>1 DEF Binds, SameLedgers
  <2> QED  BY <2>1, <2>2, <2>3
<1>3. CASE Done(s)
  BY <1>1, <1>2, <1>3, DoneEffect DEF Calm, SameCount
<1>4. CASE ~ Done(s)
  <2>1. CASE Guards(s)
    <3>1. Go(s, "probe")
      BY <2>1, <1>4 DEF Guards
    <3> QED  BY <1>1, <1>2, <3>1, GoEffect DEF Calm, SameCount
  <2>2. CASE Probes(s)
    <3>1. Go(s, Cleared(s))
      BY <2>2, <1>4 DEF Probes
    <3>2. task[s].kind \in (Queued \cup Reading \cup {"resume"}) \ {"resume", "read"}
      BY <2>2, <1>4 DEF Probes, Fits
    <3>3. /\ Cleared(s) \in {"bind", "lock", "apply"}
          /\ Cleared(s) = "apply" => task[s].kind \in {"act", "approved"}
      BY <3>2 DEF Cleared, Queued, Reading
    <3> QED  BY <1>1, <1>2, <3>1, <3>3, GoEffect DEF Calm, SameCount
  <2>3. CASE Binds(s)
    <3>1. PICK key, epoch :
            task' = [task EXCEPT ![s] = [task[s] EXCEPT !.phase = "lock",
                        !.item = [task[s].item EXCEPT !.epoch = epoch, !.key = key]]]
      BY <2>3, <1>4 DEF Binds
    <3>2. task[s] \in Task /\ task[s].item \in Bound
      BY DEF Typed, Task
    <3>3. PICK i : i = [task[s].item EXCEPT !.epoch = epoch, !.key = key]
      OBVIOUS
    <3>4. i.id = task[s].item.id
      BY <3>2, <3>3 DEF Bound
    <3>5. task'[s] = [task[s] EXCEPT !.phase = "lock", !.item = i] /\ \A x \in Slots \ {s} : task'[x] = task[x]
      BY <3>1, <3>3 DEF Typed
    <3>6. Goes(s) /\ task'[s].phase = "lock" /\ Others(s)
      BY <3>2, <3>4, <3>5 DEF Goes, Task, Others, Same
    <3> QED  BY <1>1, <1>2, <3>6 DEF Calm, SameCount
  <2> QED  BY <2>1, <2>2, <2>3
<1> QED  BY <1>3, <1>4

LEMMA WorkEffect ==
    ASSUME Typed, NEW s \in Slots, NEW items \in SUBSET Item,
           NEW phases \in SUBSET {"lock", "moved"}, CanWork(s, phases), Change(s, items),
           Others(s), task'[s].phase = "save", task'[s].kind = task[s].kind,
           task'[s].tab = task[s].tab, task'[s].approval = task[s].approval
    PROVE  Works(s, items)
<1>1. LedgerOf(task[s].kind) \in Ledgers
  BY LedgersOfKinds
<1>2. /\ mem'.held = [mem.held EXCEPT ![LedgerOf(task[s].kind)] = items]
      /\ mem'.used = mem.used /\ mem'.ready = mem.ready
  BY <1>1 DEF Change, Typed, Memory
<1>3. holder' = [holder EXCEPT ![LedgerOf(task[s].kind)] = s]
  BY DEF Change
<1> QED  BY <1>2, <1>3 DEF CanWork, Works

LEMMA OperationEffect ==
    ASSUME Typed, Locked, NEW s \in Slots, Fits(s),
           Previews(s) \/ Adds(s) \/ Consumes(s) \/ Revokes(s) \/ Sweeps(s)
    PROVE  \/ Calm(s) /\ (Previews(s) \/ Done(s))
           \/ Adding(s) \/ Consuming(s) \/ Revoking(s) \/ Sweeping(s)
<1> USE ConstantsAssumption DEF ConstantsAssumption
<1> DEFINE l == LedgerOf(task[s].kind)
<1>l. l \in Ledgers /\ mem.held[l] \in SUBSET Item /\ task[s] \in Task
  BY LedgersOfKinds DEF Typed, Memory
<1>w. /\ UNCHANGED <<saved, count>> /\ task[s].phase \in {"list", "lock", "moved"} /\ holder[l] = None
  BY DEF Previews, Adds, Consumes, Revokes, Sweeps, CanWork
<1>h. \A m \in Ledgers : holder[m] # s
  BY <1>w DEF Locked
<1>d. CASE Done(s) /\ UNCHANGED <<mem, holder, past>>
  BY <1>d, <1>w, <1>h, DoneEffect DEF Calm, SameLedgers, SameCount
<1>1. CASE Previews(s)
  <2>1. CASE Done(s)
    BY <1>1, <2>1, <1>d DEF Previews
  <2>2. CASE ~ Done(s)
    <3>1. Enqueued(s, task[s]) /\ UNCHANGED <<mem, holder, past>>
      BY <1>1, <2>2 DEF Previews
    <3>2. Others(s) /\ Goes(s) /\ task'[s].phase = "queued"
      BY <3>1, <1>l, EnqueuedEffect DEF Goes
    <3> QED  BY <1>1, <1>w, <1>h, <3>1, <3>2 DEF Calm, SameLedgers, SameCount
  <2> QED  BY <2>1, <2>2
<1>2. CASE Adds(s)
  <2>1. PICK i : i = IF task[s].kind = "prepare" THEN task[s].item
                     ELSE [task[s].item EXCEPT !.key = SiteOf[task[s].tab]]
    OBVIOUS
  <2>2. CASE Done(s) /\ UNCHANGED <<mem, holder>>
    BY <1>2, <2>2, <1>d DEF Adds
  <2>3. CASE ~ (Done(s) /\ UNCHANGED <<mem, holder>>)
    <3>1. Change(s, Added(l, i)) /\ Cardinality(Added(l, i)) <= MaxHeld /\ past' = past
      BY <1>2, <2>1, <2>3 DEF Adds
    <3>2. /\ task[s].phase = "lock" /\ task[s].kind \in {"prepare", "grant"} /\ task[s].tab \in Tabs
          /\ CanWork(s, {"lock"})
      BY <1>2 DEF Adds, CanWork, Fits
    <3>3. i \in Item /\ i.id = task[s].item.id /\ (task[s].kind = "prepare" => i.key \in Tabs)
      BY <1>l, <2>1, <3>2 DEF Fits, Item, Task, Bound
    <3>4. Added(l, i) \in SUBSET Item
      BY <1>l, <3>3 DEF Added
    <3>5. PICK undo : /\ undo = IF task[s].kind = "grant" THEN mem.held[l] ELSE {}
                      /\ task' = [task EXCEPT ![s].phase = "save", ![s].item = i, ![s].undo = undo]
      BY <1>2, <2>1, <2>3 DEF Adds
    <3>6. task' = [task EXCEPT ![s] = [task[s] EXCEPT !.phase = "save", !.item = i, !.undo = undo]]
      BY <3>5 DEF Typed, Task
    <3>7. /\ task'[s] = [task[s] EXCEPT !.phase = "save", !.item = i, !.undo = undo]
          /\ \A x \in Slots \ {s} : task'[x] = task[x]
      BY <3>6 DEF Typed
    <3>8. /\ Others(s) /\ task'[s].phase = "save" /\ task'[s].kind = task[s].kind
          /\ task'[s].tab = task[s].tab /\ task'[s].approval = task[s].approval
          /\ task'[s].item = i /\ task'[s].undo = undo
      BY <3>7, <1>l DEF Others, Same, Task
    <3>9. Works(s, Added(l, i))
      BY <3>1, <3>2, <3>4, <3>8, WorkEffect
    <3> QED  BY <3>1, <3>2, <3>3, <3>5, <3>8, <3>9 DEF Adding
  <2> QED  BY <2>2, <2>3
<1>3. CASE Consumes(s)
  <2>1. CASE Wanted(s) = {}
    BY <1>3, <2>1, <1>d DEF Consumes
  <2>2. CASE Wanted(s) # {}
    <3>1. PICK i : i = CHOOSE x \in Wanted(s) : TRUE
      OBVIOUS
    <3>2. i \in Wanted(s)
      BY <2>2, <3>1
    <3>3. i \in mem.held[l]
      BY <3>2 DEF Wanted
    <3>5. /\ Change(s, Taken(l, i.id))
          /\ task' = [task EXCEPT ![s].phase = "save", ![s].item.id = i.id]
          /\ past' = IF i.id \in past.revoked THEN [past EXCEPT !.late = @ \cup {i.id}] ELSE past
          /\ CanWork(s, {"lock"}) /\ task[s].kind \in {"complete", "fill"}
      BY <1>3, <2>2, <3>1 DEF Consumes
    <3>6. Taken(l, i.id) \in SUBSET Item /\ Taken(l, i.id) = Removed(l, i.id)
      BY <1>l DEF Taken, Removed
    <3>7. task[s].item \in Bound
      BY <1>l DEF Task
    <3>8. task' = [task EXCEPT ![s] = [task[s] EXCEPT !.phase = "save",
                                           !.item = [task[s].item EXCEPT !.id = i.id]]]
      BY <3>5 DEF Typed, Task, Bound
    <3>9. /\ task'[s] = [task[s] EXCEPT !.phase = "save", !.item = [task[s].item EXCEPT !.id = i.id]]
          /\ \A x \in Slots \ {s} : task'[x] = task[x]
      BY <3>8 DEF Typed
    <3>10. /\ Others(s) /\ task'[s].phase = "save" /\ task'[s].kind = task[s].kind
           /\ task'[s].tab = task[s].tab /\ task'[s].approval = task[s].approval
           /\ task'[s].item.id = i.id /\ task'[s].undo = task[s].undo
      BY <3>7, <3>9, <1>l DEF Others, Same, Task, Bound
    <3>11. Works(s, Removed(l, i.id))
      BY <3>5, <3>6, <3>10, WorkEffect
    <3> QED  BY <3>3, <3>5, <3>10, <3>11 DEF Consuming
  <2> QED  BY <2>1, <2>2
<1>4. CASE Revokes(s)
  <2>1. CASE Wanted(s) = {}
    BY <1>4, <2>1, <1>d DEF Revokes
  <2>2. CASE Wanted(s) # {}
    <3>1. /\ Change(s, Removed(l, task[s].item.id)) /\ Go(s, "save")
          /\ past' = past /\ CanWork(s, {"lock"}) /\ task[s].kind \in {"cancel", "revoke"}
      BY <1>4, <2>2 DEF Revokes
    <3>2. Removed(l, task[s].item.id) \in SUBSET Item
      BY <1>l DEF Removed
    <3>3. Others(s) /\ Goes(s) /\ task'[s].phase = "save"
      BY <3>1, GoEffect
    <3>4. Works(s, Removed(l, task[s].item.id))
      BY <3>1, <3>2, <3>3, WorkEffect DEF Goes
    <3> QED  BY <3>1, <3>3, <3>4 DEF Revoking
  <2> QED  BY <2>1, <2>2
<1>5. CASE Sweeps(s)
  <2>1. PICK kept : kept = {i \in mem.held["handoff"] : i.key # task[s].tab}
    OBVIOUS
  <2>2. CASE kept = mem.held["handoff"]
    BY <1>5, <2>1, <2>2, <1>d DEF Sweeps
  <2>3. CASE kept # mem.held["handoff"]
    <3>1. /\ Change(s, kept) /\ Go(s, "save") /\ past' = past /\ CanWork(s, {"moved"})
      BY <1>5, <2>1, <2>3 DEF Sweeps
    <3>2. kept \in SUBSET Item /\ kept \in SUBSET mem.held["handoff"]
      BY <2>1 DEF Typed, Memory, Ledgers
    <3>3. Others(s) /\ Goes(s) /\ task'[s].phase = "save"
      BY <3>1, GoEffect
    <3>4. Works(s, kept)
      BY <3>1, <3>2, <3>3, WorkEffect DEF Goes
    <3>5. task[s].kind = "moved"
      BY <3>1 DEF CanWork, Fits
    <3> QED  BY <3>1, <3>2, <3>3, <3>4, <3>5 DEF Sweeping
  <2> QED  BY <2>2, <2>3
<1> QED  BY <1>1, <1>2, <1>3, <1>4, <1>5

LEMMA EndEffect ==
    ASSUME Typed, Locked, NEW s \in Slots, Fits(s), Saves(s) \/ StorageFails(s) \/ Applies(s)
    PROVE  Saving(s) \/ Failing(s) \/ Applying(s)
<1>l. LedgerOf(task[s].kind) \in Ledgers /\ task[s] \in Task /\ mem \in Memory
  BY LedgersOfKinds DEF Typed
<1>1. CASE Saves(s)
  <2>1. saved'.held = [saved.held EXCEPT ![LedgerOf(task[s].kind)] = mem.held[LedgerOf(task[s].kind)]]
    BY <1>1 DEF Saves, Persisted, Typed, Storage
  <2>2. Freed(s) /\ UNCHANGED <<mem, count>> /\ task[s].phase = "save"
    BY <1>1 DEF Saves, Release, Freed
  <2>3. CASE task[s].kind \in {"complete", "fill"}
    <3>1. Go(s, "apply")
      BY <1>1, <2>3 DEF Saves, Continue
    <3>2. past' = past
      BY <1>1, <2>3 DEF Saves
    <3> QED  BY <2>1, <2>2, <2>3, <3>1, <3>2, GoEffect DEF Saving
  <2>4. CASE task[s].kind \notin {"complete", "fill"}
    <3>1. Done(s)
      BY <1>1, <2>4 DEF Saves, Continue
    <3>2. past' = IF task[s].kind \in {"cancel", "revoke"}
                  THEN [past EXCEPT !.revoked = @ \cup {task[s].item.id}] ELSE past
      BY <1>1 DEF Saves
    <3> QED  BY <2>1, <2>2, <2>4, <3>1, <3>2, DoneEffect DEF Saving
  <2> QED  BY <2>3, <2>4
<1>2. CASE StorageFails(s)
  <2>1. Others(s) /\ Over(s) /\ Freed(s) /\ UNCHANGED <<saved, past>>
    BY <1>2, DoneEffect DEF StorageFails, Release, Freed
  <2>2. SameCount
    BY <1>2 DEF StorageFails, SameCount, Typed, Counts
  <2>h. holder[LedgerOf(task[s].kind)] = s
    BY <1>2 DEF StorageFails, Locked
  <2>3. CASE mem' = mem
    BY <2>1, <2>2, <2>3, <2>h DEF Failing
  <2>4. CASE mem' # mem
    <3>1. /\ task[s].kind = "grant" /\ task[s].phase = "save"
          /\ mem' = [mem EXCEPT !.held["permission"] = task[s].undo]
      BY <1>2, <2>4 DEF StorageFails, RolledBack
    <3>2. /\ mem'.held = [mem.held EXCEPT !["permission"] = task[s].undo]
          /\ mem'.used = mem.used /\ mem'.ready = mem.ready
      BY <1>l, <3>1 DEF Memory
    <3> QED  BY <2>1, <2>2, <2>h, <3>1, <3>2 DEF Failing
  <2> QED  BY <2>3, <2>4
<1>3. CASE Applies(s)
  <2>1. Others(s) /\ Over(s) /\ UNCHANGED <<mem, saved, holder, count>> /\ task[s].phase = "apply"
    BY <1>3, DoneEffect DEF Applies
  <2>2. \/ past' = past
        \/ /\ task[s].item.id # 0
           /\ past' = [past EXCEPT !.applied = @ \cup {task[s].item.id},
                                  !.again = @ \cup (past.applied \cap {task[s].item.id})]
        \/ /\ task[s].approval # None
           /\ past' = [past EXCEPT !.acted = @ \cup {task[s].approval},
                                  !.repeated = @ \cup (past.acted \cap {task[s].approval})]
    BY <1>3 DEF Applies
  <2> QED  BY <2>1, <2>2 DEF Applying
<1> QED  BY <1>1, <1>2, <1>3

LEMMA BrowserEffect ==
    ASSUME Typed, SavesState \/ LoadsState \/ Navigates \/ ShowsSign \/ Closes
    PROVE  Still \/ Begins(Sweeper)
<1> USE ConstantsAssumption DEF ConstantsAssumption
<1>m. mem \in Memory /\ saved \in Storage /\ count \in Counts
  BY DEF Typed
<1>s. ASSUME task' = task PROVE \A x \in Slots : Same(x)
  BY <1>s DEF Same
<1>w. ASSUME NEW t \in Tabs, Swept(t)
      PROVE  /\ Others(Sweeper) /\ task[Sweeper].phase = "idle" /\ task'[Sweeper].phase = "moved"
             /\ task'[Sweeper].undo = {} /\ task'[Sweeper].approval = None
             /\ task'[Sweeper].item.id = 0 /\ task'[Sweeper].kind = "moved"
  <2>1. /\ task'[Sweeper] = [Idle EXCEPT !.kind = "moved", !.tab = t, !.phase = "moved"]
        /\ \A x \in Slots \ {Sweeper} : task'[x] = task[x]
    BY <1>w DEF Swept, Typed
  <2>2. PICK k : k = [Idle EXCEPT !.kind = "moved", !.tab = t, !.phase = "moved"]
    OBVIOUS
  <2>3. k.phase = "moved" /\ k.undo = {} /\ k.approval = None /\ k.item.id = 0 /\ k.kind = "moved"
    BY <2>2 DEF Idle, NoItem
  <2>4. Others(Sweeper) /\ task[Sweeper].phase = "idle"
    BY <1>w, <2>1 DEF Swept, Others, Same
  <2> QED  BY <2>1, <2>2, <2>3, <2>4
<1>1. CASE SavesState
  BY <1>1, <1>m, <1>s DEF SavesState, Memory, Storage, Still, SameLedgers, SameCount
<1>2. CASE LoadsState
  BY <1>2, <1>m, <1>s DEF LoadsState, Memory, Still, SameLedgers, SameCount
<1>c. ASSUME count' = [count EXCEPT !.moves = @ + 1] PROVE count'.tasks = count.tasks
  BY <1>c, <1>m DEF Counts
<1>3. CASE Navigates
  <2>1. PICK t \in Tabs : Swept(t) /\ count' = [count EXCEPT !.moves = @ + 1]
    BY <1>3 DEF Navigates
  <2> QED  BY <1>3, <2>1, <1>w, <1>c DEF Navigates, Begins, SameLedgers
<1>4. CASE ShowsSign
  BY <1>4, <1>s, <1>c DEF ShowsSign, Still, SameLedgers, SameCount
<1>5. CASE Closes
  <2>1. PICK t \in Tabs :
        /\ \/ mem' = mem
           \/ mem' = [mem EXCEPT !.why[t] = None, !.paused = @ \ {SiteOf[t]}, !.unsaved = TRUE]
        /\ Swept(t)
        /\ count' = [count EXCEPT !.moves = @ + 1]
    BY <1>5 DEF Closes
  <2>2. mem'.held = mem.held /\ mem'.ready = mem.ready /\ mem'.used = mem.used
    BY <2>1, <1>m DEF Memory
  <2> QED  BY <1>5, <2>1, <2>2, <1>w, <1>c DEF Closes, Begins, SameLedgers
<1> QED  BY <1>1, <1>2, <1>3, <1>4, <1>5

\* Every step is one of these.
Effect ==
    \/ Still \/ Kill
    \/ \E s \in Slots :
          \/ Calm(s) \/ Begins(s) \/ Locks(s) \/ Loads(s) \/ Adding(s) \/ Consuming(s)
          \/ Revoking(s) \/ Sweeping(s) \/ Saving(s) \/ Failing(s) \/ Applying(s)

LEMMA StepEffects ==
    ASSUME Typed, \A s \in Slots : Fits(s), Filed, Locked, [Next]_vars
    PROVE  Effect
<1>1. CASE UNCHANGED vars
  BY <1>1 DEF vars, Effect, Still, Same, SameLedgers, SameCount
<1>2. ASSUME NEW s \in Slots,
             Request(s) \/ Choose(s) \/ ApprovedCommand(s) \/ Steps(s) \/ StorageFails(s)
      PROVE  Effect
  BY <1>2, ComingEffect, QueueEffect, OperationEffect, EndEffect DEF Steps, Effect
<1>3. CASE SavesState \/ LoadsState \/ Navigates \/ ShowsSign \/ Closes
  BY <1>3, BrowserEffect, ConstantsAssumption DEF ConstantsAssumption, Effect
<1>4. CASE Kill
  BY <1>4 DEF Effect
<1> QED  BY <1>1, <1>2, <1>3, <1>4 DEF Next

\* What follows from one of these for one slot.
LEMMA SlotsEnd ==
    ASSUME NEW s \in Slots, Over(s)
    PROVE  /\ task'[s].phase = "idle" /\ task'[s].item.id = 0 /\ task'[s].undo = {}
           /\ task'[s].approval = None /\ task'[s] = Idle
BY IdleFits DEF Over

-----------------------------------------------------------------------------
(* What a slot does and how far it is go on fitting together. *)

LEMMA FitsOthers ==
    ASSUME Typed, NEW x \in Slots, Fits(x), Same(x)
    PROVE  Fits(x)'
BY DEF Fits, Same, Typed, Task

LEMMA FitsOver ==
    ASSUME NEW s \in Slots, Over(s)
    PROVE  Fits(s)'
<1>1. task'[s].phase = "idle" /\ task'[s] = Idle
  BY SlotsEnd
<1> QED  BY <1>1 DEF Fits

LEMMA FitsComing ==
    ASSUME Typed, Filed, NEW s \in Slots, Request(s) \/ Choose(s) \/ ApprovedCommand(s)
    PROVE  Fits(s)'
<1>f. ASSUME NEW kind \in AllKinds, task'[s].kind = kind, task'[s].phase = First(kind),
             kind \notin {"cancel", "revoke"} => task'[s].tab \in Tabs,
             kind \in {"prepare", "grant"} => task'[s].item.id \in Ids,
             kind \in {"act", "approved"} => task'[s].item.id = 0
      PROVE  Fits(s)'
  <2>1. CASE kind = "complete"
    <3>1. First(kind) = "list"
      BY <2>1 DEF First, Queued, Reading
    <3> QED  BY <1>f, <2>1, <3>1 DEF Fits
  <2>2. CASE kind \in {"cancel", "grant", "revoke"}
    <3>1. First(kind) = "lock"
      BY <2>2 DEF First, Queued, Reading
    <3> QED  BY <1>f, <2>2, <3>1 DEF Fits
  <2>3. CASE kind \in (Queued \ {"complete"}) \cup Reading \cup {"resume"}
    <3>1. First(kind) = "queued"
      BY <2>3 DEF First, Queued, Reading
    <3> QED  BY <1>f, <2>3, <3>1 DEF Fits, Queued, Reading
  <2> QED  BY <1>f, <2>1, <2>2, <2>3 DEF AllKinds
<1>1. PICK r \in Task :
        /\ Comes(s, r) /\ r.kind \in AllKinds
        /\ r.kind \notin {"cancel", "revoke"} => r.tab \in Tabs
        /\ \/ r.item.id = 0 /\ r.kind \notin {"prepare", "grant"}
           \/ r.item.id = count.tasks + 1 /\ r.kind \in {"prepare", "grant"}
           \/ r.kind \in {"complete", "cancel", "revoke"}
  BY Requested
<1>2. /\ task'[s].kind = r.kind /\ task'[s].phase = First(r.kind)
      /\ task'[s].item = r.item /\ task'[s].tab = r.tab
  BY <1>1, ComesEffect
<1>3. count.tasks + 1 \in Ids
  BY <1>1, ConstantsAssumption DEF Comes, Ids, Typed, Counts, ConstantsAssumption
<1> QED  BY <1>f, <1>1, <1>2, <1>3

LEMMA FitsQueue ==
    ASSUME Typed, NEW s \in Slots, Fits(s), Guards(s) \/ Probes(s) \/ Binds(s) \/ Previews(s)
    PROVE  Others(s) /\ Fits(s)'
<1>1. CASE Done(s)
  BY <1>1, DoneEffect, FitsOver
<1>2. CASE ~ Done(s)
  <2>1. CASE Guards(s)
    <3>1. Go(s, "probe") /\ task[s].phase = "queued"
      BY <2>1, <1>2 DEF Guards
    <3>2. Others(s) /\ Goes(s) /\ task'[s].phase = "probe"
      BY <3>1, GoEffect
    <3> QED  BY <3>1, <3>2 DEF Goes, Fits
  <2>2. CASE Probes(s)
    <3>1. Go(s, Cleared(s)) /\ task[s].phase = "probe"
      BY <2>2, <1>2 DEF Probes
    <3>2. task[s].kind \in (Queued \cup Reading \cup {"resume"}) \ {"resume", "read"}
      BY <2>2, <1>2 DEF Probes, Fits
    <3>3. Others(s) /\ Goes(s) /\ task'[s].phase = Cleared(s)
      BY <3>1, GoEffect
    <3>4. CASE task[s].kind \in {"act", "approved"}
      <4>1. Cleared(s) = "apply"
        BY <3>4 DEF Cleared
      <4> QED  BY <3>1, <3>3, <3>4, <4>1 DEF Goes, Fits
    <3>5. CASE task[s].kind \in {"fill", "prepare"}
      <4>1. Cleared(s) = "bind"
        BY <3>5 DEF Cleared
      <4> QED  BY <3>1, <3>3, <3>5, <4>1 DEF Goes, Fits
    <3>6. CASE task[s].kind = "complete"
      <4>1. Cleared(s) = "lock"
        BY <3>6 DEF Cleared
      <4> QED  BY <3>1, <3>3, <3>6, <4>1 DEF Goes, Fits
    <3> QED  BY <3>2, <3>4, <3>5, <3>6 DEF Queued, Reading
  <2>3. CASE Binds(s)
    <3>1. /\ task[s].phase = "bind"
          /\ task' = [task EXCEPT ![s] = [task[s] EXCEPT !.phase = "lock",
                        !.item = [task[s].item EXCEPT !.epoch = tab[task[s].tab].epoch,
                           !.key = IF task[s].kind = "prepare" THEN task[s].tab ELSE SiteOf[task[s].tab]]]]
      BY <2>3, <1>2 DEF Binds
    <3>2. task[s] \in Task /\ task[s].item \in Bound
      BY DEF Typed, Task
    <3>3. PICK i : i = [task[s].item EXCEPT !.epoch = tab[task[s].tab].epoch,
                           !.key = IF task[s].kind = "prepare" THEN task[s].tab ELSE SiteOf[task[s].tab]]
      OBVIOUS
    <3>4. i.id = task[s].item.id /\ (task[s].kind = "prepare" => i.key = task[s].tab)
      BY <3>2, <3>3 DEF Bound
    <3>5. task'[s] = [task[s] EXCEPT !.phase = "lock", !.item = i] /\ \A x \in Slots \ {s} : task'[x] = task[x]
      BY <3>1, <3>3 DEF Typed
    <3>6. /\ task'[s].kind = task[s].kind /\ task'[s].tab = task[s].tab /\ task'[s].item = i
          /\ task'[s].phase = "lock" /\ Others(s)
      BY <3>2, <3>5 DEF Task, Others, Same
    <3> QED  BY <3>1, <3>4, <3>6 DEF Fits
  <2>4. CASE Previews(s)
    <3>1. Enqueued(s, task[s]) /\ task[s].phase = "list"
      BY <2>4, <1>2 DEF Previews, CanWork
    <3>2. /\ Others(s) /\ task'[s].kind = task[s].kind /\ task'[s].tab = task[s].tab
          /\ task'[s].phase = "queued" /\ task'[s].item = task[s].item
      BY <3>1, EnqueuedEffect DEF Typed
    <3> QED  BY <3>1, <3>2 DEF Fits, Queued
  <2> QED  BY <2>1, <2>2, <2>3, <2>4
<1> QED  BY <1>1, <1>2

LEMMA FitsWork ==
    ASSUME Typed, NEW s \in Slots, Fits(s),
           Adding(s) \/ Consuming(s) \/ Revoking(s) \/ Sweeping(s) \/ Saving(s) \/ Failing(s) \/ Applying(s)
    PROVE  Others(s) /\ Fits(s)'
<1>1. CASE Over(s)
  BY <1>1, FitsOver DEF Adding, Consuming, Revoking, Sweeping, Works, Saving, Failing, Applying
<1>2. CASE Adding(s)
  BY <1>2 DEF Adding, Works, Fits
<1>3. CASE Consuming(s) \/ Revoking(s) \/ Sweeping(s)
  BY <1>3 DEF Consuming, Revoking, Sweeping, Works, Fits
<1>4. CASE Saving(s) /\ ~ Over(s)
  BY <1>4 DEF Saving, Goes, Fits
<1> QED  BY <1>1, <1>2, <1>3, <1>4 DEF Failing, Applying

LEMMA FitsHold ==
    ASSUME Typed, \A s \in Slots : Fits(s), Filed, Locked, [Next]_vars
    PROVE  \A s \in Slots : Fits(s)'
<1>o. ASSUME NEW s \in Slots, Others(s), Fits(s)'
      PROVE  \A x \in Slots : Fits(x)'
  BY <1>o, FitsOthers DEF Others
<1>s. ASSUME \A x \in Slots : Same(x)
      PROVE  \A x \in Slots : Fits(x)'
  BY <1>s, FitsOthers
<1>1. ASSUME UNCHANGED task
      PROVE  \A x \in Slots : Fits(x)'
  BY <1>1, <1>s DEF Same
<1>2. ASSUME NEW s \in Slots,
             Request(s) \/ Choose(s) \/ ApprovedCommand(s) \/ Steps(s) \/ StorageFails(s)
      PROVE  \A x \in Slots : Fits(x)'
  <2>1. CASE Request(s) \/ Choose(s) \/ ApprovedCommand(s)
    BY <2>1, <1>o, ComingEffect, FitsComing DEF Begins
  <2>2. CASE Guards(s) \/ Probes(s) \/ Binds(s) \/ Previews(s)
    BY <2>2, <1>o, FitsQueue
  <2>3. CASE Locks(s) \/ Loads(s)
    BY <2>3, <1>1 DEF Locks, Loads
  <2>4. CASE Adds(s) \/ Consumes(s) \/ Revokes(s) \/ Sweeps(s)
    <3>1. CASE Done(s)
      BY <3>1, <1>o, DoneEffect, FitsOver
    <3>2. CASE ~ Done(s)
      BY <2>4, <3>2, <1>o, OperationEffect, FitsQueue, FitsWork
    <3> QED  BY <3>1, <3>2
  <2>5. CASE Saves(s) \/ Applies(s) \/ StorageFails(s)
    BY <2>5, <1>o, EndEffect, FitsWork
  <2> QED  BY <1>2, <2>1, <2>2, <2>3, <2>4, <2>5 DEF Steps
<1>3. CASE SavesState \/ LoadsState \/ ShowsSign
  BY <1>3, <1>1 DEF SavesState, LoadsState, ShowsSign
<1>4. CASE Navigates \/ Closes
  <2>1. PICK t \in Tabs : Swept(t)
    BY <1>4 DEF Navigates, Closes
  <2>s. Sweeper \in Slots
    BY ConstantsAssumption DEF ConstantsAssumption
  <2>2. /\ task'[Sweeper] = [Idle EXCEPT !.kind = "moved", !.tab = t, !.phase = "moved"]
        /\ \A x \in Slots \ {Sweeper} : task'[x] = task[x]
    BY <2>1, <2>s DEF Swept, Typed
  <2>3. PICK k : k = [Idle EXCEPT !.kind = "moved", !.tab = t, !.phase = "moved"]
    OBVIOUS
  <2>4. k.phase = "moved" /\ k.kind = "moved" /\ k.tab = t
    BY <2>3 DEF Idle
  <2>5. Fits(Sweeper)'
    BY <2>2, <2>3, <2>4 DEF Fits
  <2> QED  BY <2>s, <2>2, <2>5, <1>o DEF Others, Same
<1>5. CASE Kill
  BY <1>5, FitsOver DEF Kill, Over
<1> QED  BY <1>1, <1>2, <1>3, <1>4, <1>5 DEF Next, vars

-----------------------------------------------------------------------------
(* The ledgers keep their limit and one item for a key. *)

LEMMA LedgerEmpty ==
    ASSUME NEW l
    PROVE  Ledger(l, {})
BY FS_EmptySet, ConstantsAssumption DEF Ledger, ConstantsAssumption

LEMMA LedgerLess ==
    ASSUME NEW l, NEW items, NEW some \in SUBSET items, Ledger(l, items)
    PROVE  Ledger(l, some)
<1>1. IsFiniteSet(items) /\ Cardinality(items) <= MaxHeld
  BY DEF Ledger
<1>2. IsFiniteSet(some) /\ Cardinality(some) <= Cardinality(items)
  BY <1>1, FS_Subset
<1>3. Cardinality(some) \in Nat /\ Cardinality(items) \in Nat /\ MaxHeld \in Nat
  BY <1>1, <1>2, FS_CardinalityType, ConstantsAssumption DEF ConstantsAssumption
<1>4. Cardinality(some) <= MaxHeld
  BY <1>1, <1>2, <1>3
<1> QED  BY <1>2, <1>4 DEF Ledger

LEMMA LedgerMore ==
    ASSUME NEW l \in Ledgers, NEW i, Ledger(l, mem.held[l]), l = "handoff" => i.key \in Tabs,
           Cardinality(Added(l, i)) <= MaxHeld
    PROVE  Ledger(l, Added(l, i))
<1> DEFINE kept == {j \in mem.held[l] : j.key # i.key}
<1>1. Ledger(l, kept)
  BY LedgerLess
<1>2. Added(l, i) = kept \cup {i}
  BY DEF Added
<1>3. IsFiniteSet(Added(l, i))
  BY <1>1, <1>2, FS_AddElement DEF Ledger
<1> QED  BY <1>1, <1>2, <1>3 DEF Ledger

LEMMA FiledHolds ==
    ASSUME Typed, Filed, Locked, Effect
    PROVE  Filed'
<1> DEFINE Undone(x) == /\ Ledger("permission", task'[x].undo)
                        /\ task'[x].undo # {} => task'[x].kind = "grant" /\ task'[x].phase = "save"
<1>e. \A x \in Slots : Same(x) => Undone(x)
  BY DEF Filed, Same
<1>n. \A x \in Slots : task'[x].undo = {} => Undone(x)
  BY LedgerEmpty
<1>v. \A x \in Slots : Over(x) => Undone(x)
  BY <1>n, SlotsEnd
<1>m. ASSUME NEW l \in Ledgers, NEW items, Ledger(l, items), saved'.held = saved.held,
             mem'.held = [mem.held EXCEPT ![l] = items]
      PROVE  \A k \in Ledgers : Ledger(k, mem'.held[k]) /\ Ledger(k, saved'.held[k])
  BY <1>m DEF Filed, Typed, Memory
<1>f. ASSUME \A k \in Ledgers : Ledger(k, mem'.held[k]) /\ Ledger(k, saved'.held[k]),
             \A x \in Slots : Undone(x)
      PROVE  Filed'
  BY <1>f DEF Filed
<1>k. ASSUME SameLedgers
      PROVE  \A k \in Ledgers : Ledger(k, mem'.held[k]) /\ Ledger(k, saved'.held[k])
  BY <1>k DEF Filed, SameLedgers
<1>1. CASE Still
  BY <1>1, <1>e, <1>f, <1>k DEF Still
<1>2. CASE Kill
  <2>1. mem'.held = [l \in Ledgers |-> {}]
    BY <1>2 DEF Kill, Started
  <2>2. PICK arrived \in SUBSET Ledgers :
          saved' = [saved EXCEPT !.held = [l \in Ledgers |-> IF l \in arrived THEN mem.held[l] ELSE @[l]]]
    BY <1>2 DEF Kill
  <2>3. \A k \in Ledgers : saved'.held[k] \in {mem.held[k], saved.held[k]}
    BY <2>2 DEF Typed, Storage
  <2>4. \A k \in Ledgers : Ledger(k, mem'.held[k]) /\ Ledger(k, saved'.held[k])
    BY <2>1, <2>3, LedgerEmpty DEF Filed
  <2>5. \A x \in Slots : Undone(x)
    BY <1>2, <1>v DEF Kill, Over
  <2> QED  BY <2>4, <2>5, <1>f
<1>3. ASSUME NEW s \in Slots, Others(s), Undone(s)
      PROVE  \A x \in Slots : Undone(x)
  BY <1>3, <1>e DEF Others
<1>l. \A s \in Slots : LedgerOf(task[s].kind) \in Ledgers
  BY LedgersOfKinds
<1>4. ASSUME NEW s \in Slots, Calm(s) \/ Begins(s)
      PROVE  Filed'
  <2>1. Undone(s)
    <3>1. CASE Over(s)
      BY <3>1, <1>v
    <3>2. CASE Begins(s)
      BY <3>2, <1>n DEF Begins
    <3>3. CASE Calm(s) /\ ~ Over(s)
      <4>1. task[s].undo = {}
        BY <3>3 DEF Filed, Calm
      <4> QED  BY <3>3, <4>1, <1>n DEF Calm, Goes
    <3> QED  BY <1>4, <3>1, <3>2, <3>3
  <2> QED  BY <1>4, <2>1, <1>3, <1>f, <1>k DEF Calm, Begins
<1>5. ASSUME NEW s \in Slots, Locks(s) \/ Loads(s)
      PROVE  Filed'
  <2>1. \A x \in Slots : Undone(x)
    BY <1>5, <1>e DEF Locks, Loads, Same
  <2>2. CASE Locks(s)
    BY <2>1, <2>2, <1>f, <1>k DEF Locks, SameLedgers
  <2>3. CASE Loads(s)
    <3> PICK l \in Ledgers : l = LedgerOf(task[s].kind)
      BY <1>l
    <3>1. mem'.held = [mem.held EXCEPT ![l] = saved.held[l]] /\ saved' = saved
      BY <2>3 DEF Loads, Typed, Memory
    <3>2. Ledger(l, saved.held[l])
      BY DEF Filed
    <3> QED  BY <2>1, <3>1, <3>2, <1>m, <1>f
  <2> QED  BY <1>5, <2>2, <2>3
<1>6. ASSUME NEW s \in Slots, Adding(s)
      PROVE  Filed'
  <2> PICK l \in Ledgers : l = LedgerOf(task[s].kind)
    BY <1>l
  <2>1. PICK i \in Item :
          /\ Works(s, Added(l, i)) /\ Cardinality(Added(l, i)) <= MaxHeld
          /\ task[s].kind = "prepare" => i.key \in Tabs /\ task'[s].undo = {}
          /\ task[s].kind = "grant" => task'[s].undo = mem.held[l]
    BY <1>6 DEF Adding
  <2>2. task[s].kind \in {"prepare", "grant"} /\ (l = "handoff" <=> task[s].kind = "prepare")
    BY <1>6 DEF Adding, LedgerOf
  <2>3. Ledger(l, mem.held[l])
    BY DEF Filed
  <2>4. Ledger(l, Added(l, i))
    BY <2>1, <2>2, <2>3, LedgerMore
  <2>5. Undone(s)
    <3>1. CASE task[s].kind = "prepare"
      BY <2>1, <3>1, <1>n
    <3>2. CASE task[s].kind = "grant"
      <4>1. l = "permission"
        BY <3>2 DEF LedgerOf
      <4> QED  BY <2>1, <2>3, <3>2, <4>1 DEF Works
    <3> QED  BY <2>2, <3>1, <3>2
  <2>6. /\ Others(s) /\ mem'.held = [mem.held EXCEPT ![l] = Added(l, i)] /\ saved'.held = saved.held
    BY <2>1 DEF Works
  <2> QED  BY <2>4, <2>5, <2>6, <1>3, <1>m, <1>f
<1>7. ASSUME NEW s \in Slots, Consuming(s) \/ Revoking(s) \/ Sweeping(s)
      PROVE  Filed'
  <2> PICK l \in Ledgers : l = LedgerOf(task[s].kind)
    BY <1>l
  <2>1. task'[s].undo = task[s].undo
    BY <1>7 DEF Consuming, Revoking, Sweeping, Goes
  <2>2. PICK items \in SUBSET mem.held[l] : Works(s, items)
    <3>1. CASE Consuming(s)
      BY <3>1 DEF Consuming, Removed
    <3>2. CASE Revoking(s)
      BY <3>2 DEF Revoking, Removed
    <3>3. CASE Sweeping(s)
      <4>1. l = "handoff"
        BY <3>3 DEF Sweeping, LedgerOf
      <4> QED  BY <3>3, <4>1 DEF Sweeping
    <3> QED  BY <1>7, <3>1, <3>2, <3>3
  <2>3. task[s].undo = {}
    BY <2>2 DEF Works, Filed
  <2>4. Ledger(l, items)
    BY LedgerLess DEF Filed
  <2>5. /\ Others(s) /\ mem'.held = [mem.held EXCEPT ![l] = items] /\ saved'.held = saved.held
    BY <2>2 DEF Works
  <2> QED  BY <2>1, <2>3, <2>4, <2>5, <1>n, <1>3, <1>m, <1>f
<1>8. ASSUME NEW s \in Slots, Saving(s)
      PROVE  Filed'
  <2> PICK l \in Ledgers : l = LedgerOf(task[s].kind)
    BY <1>l
  <2>1. saved'.held = [saved.held EXCEPT ![l] = mem.held[l]] /\ mem' = mem /\ Others(s)
    BY <1>8 DEF Saving
  <2>2. \A k \in Ledgers : Ledger(k, mem'.held[k]) /\ Ledger(k, saved'.held[k])
    BY <2>1 DEF Filed, Typed, Storage
  <2>3. Undone(s)
    <3>1. CASE task[s].kind \in {"complete", "fill"}
      <4>1. task[s].undo = {} /\ (task'[s].undo = task[s].undo \/ Over(s))
        BY <1>8, <3>1 DEF Saving, Filed, Goes
      <4> QED  BY <4>1, <1>n, <1>v
    <3>2. CASE task[s].kind \notin {"complete", "fill"}
      BY <1>8, <3>2, <1>v DEF Saving
    <3> QED  BY <3>1, <3>2
  <2> QED  BY <2>1, <2>2, <2>3, <1>3, <1>f
<1>9. ASSUME NEW s \in Slots, Failing(s)
      PROVE  Filed'
  <2>1. \A x \in Slots : Undone(x)
    BY <1>9, <1>v, <1>3 DEF Failing
  <2>2. CASE mem'.held = mem.held
    BY <1>9, <2>1, <2>2, <1>f DEF Failing, Filed
  <2>3. CASE mem'.held = [mem.held EXCEPT !["permission"] = task[s].undo]
    <3>1. Ledger("permission", task[s].undo) /\ "permission" \in Ledgers /\ saved'.held = saved.held
      BY <1>9 DEF Filed, Ledgers, Failing
    <3> QED  BY <2>1, <2>3, <3>1, <1>m, <1>f
  <2> QED  BY <1>9, <2>2, <2>3 DEF Failing
<1>10. ASSUME NEW s \in Slots, Applying(s)
       PROVE  Filed'
  <2>1. \A x \in Slots : Undone(x)
    BY <1>10, <1>v, <1>3 DEF Applying
  <2> QED  BY <1>10, <2>1, <1>f DEF Applying, Filed
<1> QED  BY <1>1, <1>2, <1>4, <1>5, <1>6, <1>7, <1>8, <1>9, <1>10 DEF Effect

-----------------------------------------------------------------------------
(* Locks. *)

LEMMA LockedHolds ==
    ASSUME Typed, Locked, Effect
    PROVE  Locked'
<1> USE ConstantsAssumption DEF ConstantsAssumption
<1>l. \A s \in Slots : LedgerOf(task[s].kind) \in Ledgers
  BY LedgersOfKinds
<1>t. holder \in [Ledgers -> Slots \cup {None}] /\ mem \in Memory
  BY DEF Typed
<1> DEFINE Saver(x) == task'[x].phase = "save" =>
                 holder'[LedgerOf(task'[x].kind)] = x /\ mem'.ready[LedgerOf(task'[x].kind)]
           Holder(x, l) == holder'[l] = x =>
                 l = LedgerOf(task'[x].kind) /\ task'[x].phase \in {"list", "lock", "moved", "save"}
<1>f. ASSUME \A x \in Slots : Saver(x) /\ \A l \in Ledgers : Holder(x, l)
      PROVE  Locked'
  BY <1>f DEF Locked
<1>k. ASSUME NEW x \in Slots, Same(x), UNCHANGED holder, mem'.ready = mem.ready
      PROVE  Saver(x) /\ \A l \in Ledgers : Holder(x, l)
  BY <1>k DEF Locked, Same
<1>1. CASE Still
  BY <1>1, <1>k, <1>f DEF Still, SameLedgers
<1>2. CASE Kill
  <2>1. \A x \in Slots : task'[x].phase = "idle"
    BY <1>2, IdleFits DEF Kill
  <2>2. \A l \in Ledgers : holder'[l] = None
    BY <1>2 DEF Kill
  <2>3. \A x \in Slots : x # None
    OBVIOUS
  <2> QED  BY <2>1, <2>2, <2>3, <1>f
<1>3. ASSUME NEW s \in Slots, Calm(s) \/ Begins(s) \/ Applying(s)
      PROVE  Locked'
  <2>1. \A l \in Ledgers : holder[l] # s
    BY <1>3 DEF Calm, Begins, Applying, Locked
  <2>2. holder' = holder /\ mem'.ready = mem.ready /\ Others(s)
    BY <1>3 DEF Calm, Begins, Applying, SameLedgers
  <2>3. task'[s].phase # "save"
    BY <1>3, SlotsEnd DEF Calm, Begins, Applying
  <2>4. Saver(s) /\ \A l \in Ledgers : Holder(s, l)
    BY <2>1, <2>2, <2>3
  <2> QED  BY <2>2, <2>4, <1>k, <1>f DEF Others
<1>4. ASSUME NEW s \in Slots, Locks(s)
      PROVE  Locked'
  <2>1. /\ holder[LedgerOf(task[s].kind)] = None /\ task[s].phase \in {"list", "lock", "moved"}
        /\ holder' = [holder EXCEPT ![LedgerOf(task[s].kind)] = s]
        /\ UNCHANGED <<mem, task>>
    BY <1>4 DEF Locks
  <2>2. ASSUME NEW x \in Slots PROVE Saver(x)
    <3>1. CASE task[x].phase = "save"
      <4>1. holder[LedgerOf(task[x].kind)] = x /\ x # None /\ mem.ready[LedgerOf(task[x].kind)]
        BY <3>1 DEF Locked
      <4> QED  BY <2>1, <4>1, <1>l, <1>t
    <3> QED  BY <2>1, <3>1
  <2>3. ASSUME NEW x \in Slots, NEW l \in Ledgers PROVE Holder(x, l)
    BY <2>1, <1>l, <1>t DEF Locked
  <2> QED  BY <2>2, <2>3, <1>f
<1>5. ASSUME NEW s \in Slots, Loads(s)
      PROVE  Locked'
  <2> PICK k \in Ledgers : k = LedgerOf(task[s].kind)
    BY <1>l
  <2>1. /\ holder[k] = s /\ ~ mem.ready[k] /\ holder' = [holder EXCEPT ![k] = None]
        /\ mem' = [mem EXCEPT !.ready[k] = TRUE, !.held[k] = saved.held[k]] /\ task' = task
    BY <1>5 DEF Loads
  <2>2. mem'.ready = [mem.ready EXCEPT ![k] = TRUE] /\ mem.ready \in [Ledgers -> BOOLEAN]
    BY <2>1, <1>t DEF Memory
  <2>3. ASSUME NEW x \in Slots PROVE Saver(x)
    <3>1. CASE task[x].phase = "save"
      <4>1. holder[LedgerOf(task[x].kind)] = x /\ mem.ready[LedgerOf(task[x].kind)]
        BY <3>1 DEF Locked
      <4>2. LedgerOf(task[x].kind) # k
        BY <2>1, <4>1
      <4> QED  BY <2>1, <2>2, <4>1, <4>2, <1>l, <1>t
    <3> QED  BY <2>1, <3>1
  <2>4. ASSUME NEW x \in Slots, NEW l \in Ledgers PROVE Holder(x, l)
    BY <2>1, <1>t DEF Locked
  <2> QED  BY <2>3, <2>4, <1>f
<1>6. ASSUME NEW s \in Slots, NEW items, Works(s, items)
      PROVE  Locked'
  <2> PICK k \in Ledgers : k = LedgerOf(task[s].kind)
    BY <1>l
  <2>1. /\ holder[k] = None /\ mem.ready[k] /\ holder' = [holder EXCEPT ![k] = s]
        /\ mem'.ready = mem.ready /\ Others(s)
        /\ task'[s].phase = "save" /\ task'[s].kind = task[s].kind
    BY <1>6 DEF Works
  <2>2. Saver(s) /\ \A l \in Ledgers : Holder(s, l)
    BY <2>1, <1>t DEF Locked
  <2>3. ASSUME NEW x \in Slots \ {s} PROVE Saver(x) /\ \A l \in Ledgers : Holder(x, l)
    <3>1. task'[x].phase = task[x].phase /\ task'[x].kind = task[x].kind /\ x # None
      BY <2>1 DEF Others, Same
    <3>2. task[x].phase = "save" => holder[LedgerOf(task[x].kind)] = x /\ mem.ready[LedgerOf(task[x].kind)]
      BY DEF Locked
    <3>3. \A l \in Ledgers : holder[l] = x => l = LedgerOf(task[x].kind) /\ task[x].phase \in {"list", "lock", "moved", "save"}
      BY DEF Locked
    <3>4. Saver(x)
      BY <2>1, <3>1, <3>2, <1>l, <1>t
    <3>5. \A l \in Ledgers : Holder(x, l)
      BY <2>1, <3>1, <3>3, <1>t
    <3> QED  BY <3>4, <3>5
  <2> QED  BY <2>2, <2>3, <1>f
<1>7. ASSUME NEW s \in Slots, Saving(s) \/ Failing(s)
      PROVE  Locked'
  <2> PICK k \in Ledgers : k = LedgerOf(task[s].kind)
    BY <1>l
  <2>1. /\ holder[k] = s /\ holder' = [holder EXCEPT ![k] = None]
        /\ mem'.ready = mem.ready /\ Others(s) /\ task'[s].phase # "save"
    BY <1>7, SlotsEnd DEF Saving, Failing, Freed, Locked
  <2>2. Saver(s) /\ \A l \in Ledgers : Holder(s, l)
    BY <2>1, <1>t DEF Locked
  <2>3. ASSUME NEW x \in Slots \ {s} PROVE Saver(x) /\ \A l \in Ledgers : Holder(x, l)
    <3>1. task'[x].phase = task[x].phase /\ task'[x].kind = task[x].kind /\ x # None
      BY <2>1 DEF Others, Same
    <3>2. task[x].phase = "save" => holder[LedgerOf(task[x].kind)] = x /\ mem.ready[LedgerOf(task[x].kind)]
      BY DEF Locked
    <3>3. \A l \in Ledgers : holder[l] = x => l = LedgerOf(task[x].kind) /\ task[x].phase \in {"list", "lock", "moved", "save"}
      BY DEF Locked
    <3>4. Saver(x)
      BY <2>1, <3>1, <3>2, <1>l, <1>t
    <3>5. \A l \in Ledgers : Holder(x, l)
      BY <2>1, <3>1, <3>3, <1>t
    <3> QED  BY <3>4, <3>5
  <2> QED  BY <2>2, <2>3, <1>f
<1>8. ASSUME NEW s \in Slots, Adding(s) \/ Consuming(s) \/ Revoking(s) \/ Sweeping(s)
      PROVE  \E items : Works(s, items)
  BY <1>8 DEF Adding, Consuming, Revoking, Sweeping
<1> QED  BY <1>1, <1>2, <1>3, <1>4, <1>5, <1>6, <1>7, <1>8 DEF Effect

-----------------------------------------------------------------------------
(* Approvals. *)

LEMMA ReplaysHold ==
    ASSUME Typed, Replays, Effect
    PROVE  Replays'
<1>t. past \in History /\ mem \in Memory
  BY DEF Typed
<1> DEFINE Mine(x) == task'[x].approval # None => task'[x].approval \in mem'.used \ past'.acted
           Only(s, x) == task'[s].approval = task'[x].approval /\ task'[s].approval # None => s = x
\* Nothing new is approved, and what is acted on is nobody's any more.
<1>k. ASSUME \A x \in Slots : task'[x].approval \in {None, task[x].approval},
             mem'.used = mem.used, past'.acted = past.acted, past'.repeated = past.repeated
      PROVE  Replays'
  BY <1>k DEF Replays
<1>o. \A s \in Slots : Others(s) /\ task'[s].approval \in {None, task[s].approval}
          => \A x \in Slots : task'[x].approval \in {None, task[x].approval}
  BY DEF Others, Same
<1>v. \A s \in Slots : Over(s) => task'[s].approval = None
  BY SlotsEnd
<1>1. CASE Still
  BY <1>1, <1>k DEF Still, Same
<1>2. CASE Kill
  <2>1. past'.acted = {} /\ past'.repeated = past.repeated
    BY <1>2, <1>t DEF Kill, History
  <2>2. \A x \in Slots : task'[x].approval = None
    BY <1>2, IdleFits DEF Kill
  <2> QED  BY <2>1, <2>2 DEF Replays
<1>3. ASSUME NEW s \in Slots, Calm(s) \/ Failing(s)
      PROVE  Replays'
  <2>1. task'[s].approval \in {None, task[s].approval}
    BY <1>3, <1>v DEF Calm, Failing, Goes
  <2> QED  BY <1>3, <2>1, <1>o, <1>k DEF Calm, Failing
<1>4. ASSUME NEW s \in Slots, Begins(s)
      PROVE  Replays'
  <2>1. Others(s) /\ past' = past
    BY <1>4 DEF Begins
  <2>2. CASE task'[s].approval = None /\ mem'.used = mem.used
    BY <2>1, <2>2, <1>o, <1>k
  <2>3. CASE task'[s].approval \in Approvals \ mem.used /\ mem'.used = mem.used \cup {task'[s].approval}
    <3>1. \A x \in Slots \ {s} : task'[x].approval = task[x].approval
      BY <2>1 DEF Others, Same
    <3>2. \A x \in Slots \ {s} : task[x].approval # None => task[x].approval \in mem.used
      BY DEF Replays
    <3>3. \A x \in Slots : Mine(x)
      BY <2>1, <2>3, <3>1 DEF Replays
    <3>4. \A x, y \in Slots : Only(x, y)
      BY <2>3, <3>1, <3>2 DEF Replays
    <3>5. past'.acted \subseteq mem'.used /\ past'.repeated = {}
      BY <2>1, <2>3 DEF Replays
    <3> QED  BY <3>3, <3>4, <3>5 DEF Replays
  <2> QED  BY <1>4, <2>2, <2>3 DEF Begins
<1>5. ASSUME NEW s \in Slots, Locks(s) \/ Loads(s)
      PROVE  Replays'
  <2>1. task' = task /\ past' = past /\ mem'.used = mem.used
    BY <1>5, <1>t DEF Locks, Loads, Memory
  <2> QED  BY <2>1, <1>k
<1>6. ASSUME NEW s \in Slots, NEW items, Works(s, items),
             past'.acted = past.acted, past'.repeated = past.repeated
      PROVE  Replays'
  <2>1. Others(s) /\ task'[s].approval = task[s].approval /\ mem'.used = mem.used
    BY <1>6 DEF Works
  <2> QED  BY <1>6, <2>1, <1>o, <1>k
<1>7. ASSUME NEW s \in Slots, Adding(s) \/ Consuming(s) \/ Revoking(s) \/ Sweeping(s)
      PROVE  Replays'
  <2>1. \E items : Works(s, items)
    BY <1>7 DEF Adding, Consuming, Revoking, Sweeping
  <2>2. past'.acted = past.acted /\ past'.repeated = past.repeated
    <3>1. past' = past \/ \E id : past' = [past EXCEPT !.late = @ \cup {id}]
      BY <1>7 DEF Adding, Consuming, Revoking, Sweeping
    <3> QED  BY <3>1, <1>t DEF History
  <2> QED  BY <2>1, <2>2, <1>6
<1>8. ASSUME NEW s \in Slots, Saving(s)
      PROVE  Replays'
  <2>1. task'[s].approval \in {None, task[s].approval}
    BY <1>8, <1>v DEF Saving, Goes
  <2>2. past'.acted = past.acted /\ past'.repeated = past.repeated
    <3>1. past' = past \/ \E id : past' = [past EXCEPT !.revoked = @ \cup {id}]
      BY <1>8 DEF Saving
    <3> QED  BY <3>1, <1>t DEF History
  <2> QED  BY <1>8, <2>1, <2>2, <1>o, <1>k DEF Saving
<1>9. ASSUME NEW s \in Slots, Applying(s)
      PROVE  Replays'
  <2>1. Others(s) /\ task'[s].approval = None /\ mem' = mem
    BY <1>9, <1>v DEF Applying
  <2>2. CASE past'.acted = past.acted /\ past'.repeated = past.repeated
    BY <2>1, <2>2, <1>o, <1>k
  <2>3. CASE /\ task[s].approval # None
             /\ past' = [past EXCEPT !.acted = @ \cup {task[s].approval},
                                  !.repeated = @ \cup (past.acted \cap {task[s].approval})]
    <3>1. task[s].approval \in mem.used \ past.acted
      BY <2>3 DEF Replays
    <3>2. past'.acted = past.acted \cup {task[s].approval} /\ past'.repeated = past.repeated
      BY <2>3, <3>1, <1>t DEF History
    <3>3. \A x \in Slots \ {s} : task'[x].approval = task[x].approval
      BY <2>1 DEF Others, Same
    <3>4. \A x \in Slots : Mine(x)
      BY <2>1, <2>3, <3>2, <3>3 DEF Replays
    <3>5. \A x, y \in Slots : Only(x, y)
      BY <2>1, <3>3 DEF Replays
    <3> QED  BY <2>1, <3>1, <3>2, <3>4, <3>5 DEF Replays
  <2>4. CASE past' = [past EXCEPT !.applied = @ \cup {task[s].item.id},
                                  !.again = @ \cup (past.applied \cap {task[s].item.id})]
    <3>1. past'.acted = past.acted /\ past'.repeated = past.repeated
      BY <2>4, <1>t DEF History
    <3> QED  BY <3>1, <2>2
  <2> QED  BY <1>9, <2>2, <2>3, <2>4 DEF Applying
<1> QED  BY <1>1, <1>2, <1>3, <1>4, <1>5, <1>7, <1>8, <1>9 DEF Effect
-----------------------------------------------------------------------------
(* Every credential stays in its ledger. *)

LEMMA HomesHold ==
    ASSUME Typed, Filed, Homes, Effect
    PROVE  Homes'
<1>h. PICK h \in [Nat -> Ledgers] : At(h)
  BY DEF Homes
<1>t. mem \in Memory /\ saved \in Storage /\ count.tasks \in Nat /\ mem.held \in [Ledgers -> SUBSET Item]
  BY DEF Typed, Counts, Memory
<1>l. \A s \in Slots : LedgerOf(task[s].kind) \in Ledgers
  BY LedgersOfKinds
<1> DEFINE InPlace(x) ==
             /\ \A i \in task'[x].undo : i.id <= count'.tasks /\ h[i.id] = "permission"
             /\ task'[x].item.id <= count'.tasks
             /\ task'[x].item.id # 0 => h[task'[x].item.id] = LedgerOf(task'[x].kind)
           Filled(items, l) == \A i \in items : i.id <= count'.tasks /\ h[i.id] = l
<1>f. ASSUME \A x \in Slots : InPlace(x),
             \A l \in Ledgers : Filled(mem'.held[l], l) /\ Filled(saved'.held[l], l)
      PROVE  Homes'
  <2>1. At(h)'
    BY <1>f DEF At
  <2> QED  BY <2>1 DEF Homes
<1>i. \A i \in Item : i.id \in Nat
  BY DEF Item, Ids
<1>s. ASSUME NEW x \in Slots, Same(x), SameCount
      PROVE  InPlace(x)
  BY <1>h, <1>s DEF At, Same, SameCount
<1>v. ASSUME NEW x \in Slots, Over(x), SameCount
      PROVE  InPlace(x)
  BY <1>v, <1>t, SlotsEnd DEF SameCount
<1>g. ASSUME NEW x \in Slots, Goes(x), SameCount
      PROVE  InPlace(x)
  BY <1>h, <1>g DEF At, Goes, SameCount
<1>o. ASSUME NEW s \in Slots, Others(s), InPlace(s), SameCount
      PROVE  \A x \in Slots : InPlace(x)
  BY <1>o, <1>s DEF Others
<1>k. ASSUME SameLedgers, SameCount
      PROVE  \A l \in Ledgers : Filled(mem'.held[l], l) /\ Filled(saved'.held[l], l)
  BY <1>h, <1>k DEF At, SameLedgers, SameCount
<1>m. ASSUME NEW k \in Ledgers, NEW items, Filled(items, k), saved'.held = saved.held, SameCount,
             mem'.held = [mem.held EXCEPT ![k] = items]
      PROVE  \A l \in Ledgers : Filled(mem'.held[l], l) /\ Filled(saved'.held[l], l)
  BY <1>h, <1>m, <1>t DEF At, SameCount
<1>1. CASE Still
  BY <1>1, <1>s, <1>k, <1>f DEF Still
<1>2. CASE Kill
  <2>0. SameCount
    BY <1>2 DEF Kill, SameCount, Typed, Counts
  <2>1. \A l \in Ledgers : mem'.held[l] = {}
    BY <1>2 DEF Kill, Started
  <2>2. PICK arrived \in SUBSET Ledgers :
          saved' = [saved EXCEPT !.held = [l \in Ledgers |-> IF l \in arrived THEN mem.held[l] ELSE @[l]]]
    BY <1>2 DEF Kill
  <2>3. \A l \in Ledgers : saved'.held[l] \in {mem.held[l], saved.held[l]}
    BY <2>2 DEF Typed, Storage
  <2>4. \A l \in Ledgers : Filled(mem'.held[l], l) /\ Filled(saved'.held[l], l)
    BY <2>0, <2>1, <2>3, <1>h DEF At, SameCount
  <2>5. \A x \in Slots : InPlace(x)
    BY <1>2, <1>v, <2>0 DEF Kill, Over
  <2> QED  BY <2>4, <2>5, <1>f
<1>3. ASSUME NEW s \in Slots, Calm(s)
      PROVE  Homes'
  <2>1. InPlace(s)
    BY <1>3, <1>v, <1>g DEF Calm
  <2> QED  BY <1>3, <2>1, <1>o, <1>k, <1>f DEF Calm
<1>4. ASSUME NEW s \in Slots, Begins(s)
      PROVE  Homes'
  <2>0. SameLedgers /\ Others(s) /\ task'[s].undo = {}
    BY <1>4 DEF Begins
  <2>1. CASE /\ task'[s].item.id = 0 \/ task'[s].item \in mem.held[LedgerOf(task'[s].kind)] \cup saved.held[LedgerOf(task'[s].kind)]
             /\ count'.tasks \in {count.tasks, count.tasks + 1}
    <3>1. count.tasks <= count'.tasks /\ count'.tasks \in Nat
      BY <2>1, <1>t
    <3>2. InPlace(s)
      <4>1. CASE task'[s].item.id = 0
        BY <2>0, <3>1, <4>1
      <4>2. CASE task'[s].item \in mem.held[LedgerOf(task'[s].kind)] \cup saved.held[LedgerOf(task'[s].kind)]
        <5> PICK k \in Ledgers : k = LedgerOf(task'[s].kind)
          BY LedgersOfKinds
        <5> PICK i : i = task'[s].item
          OBVIOUS
        <5>1. i \in Item /\ i.id <= count.tasks /\ h[i.id] = k
          BY <4>2, <1>h, <1>t DEF At, Typed, Storage
        <5>2. i.id <= count'.tasks
          BY <5>1, <3>1, <1>i, <1>t
        <5> QED  BY <2>0, <5>1, <5>2
      <4> QED  BY <2>1, <4>1, <4>2
    <3>3. ASSUME NEW x \in Slots \ {s} PROVE InPlace(x)
      <4>1. /\ task'[x].item = task[x].item /\ task'[x].undo = task[x].undo /\ task'[x].kind = task[x].kind
            /\ task[x].item.id \in Nat /\ task[x].undo \in SUBSET Item
        BY <2>0 DEF Others, Same, Typed, Task, Bound
      <4> QED  BY <3>1, <4>1, <1>h, <1>i, <1>t DEF At
    <3>4. \A l \in Ledgers : Filled(mem'.held[l], l) /\ Filled(saved'.held[l], l)
      <4>1. ASSUME NEW l \in Ledgers, NEW i \in mem.held[l] \cup saved.held[l]
            PROVE  i.id <= count'.tasks /\ h[i.id] = l
        <5>1. i \in Item /\ i.id <= count.tasks /\ h[i.id] = l
          BY <1>h, <1>t DEF At, Typed, Storage
        <5> QED  BY <5>1, <3>1, <1>i, <1>t
      <4> QED  BY <4>1, <2>0 DEF SameLedgers
    <3> QED  BY <3>2, <3>3, <3>4, <1>f
  <2>2. CASE /\ task'[s].item.id = count.tasks + 1 /\ count'.tasks = count.tasks + 1
    <3> DEFINE g == [h EXCEPT ![count.tasks + 1] = LedgerOf(task'[s].kind)]
    <3>1. g \in [Nat -> Ledgers] /\ g[count.tasks + 1] = LedgerOf(task'[s].kind)
      BY <1>t, LedgersOfKinds
    <3>2. \A n \in Nat : n <= count.tasks => g[n] = h[n] /\ n <= count.tasks + 1
      BY <1>t
    <3>3. ASSUME NEW l \in Ledgers, NEW i \in mem.held[l] \cup saved.held[l]
          PROVE  i.id <= count'.tasks /\ g[i.id] = l
      <4>1. i \in Item /\ i.id <= count.tasks /\ h[i.id] = l
        BY <1>h, <1>t DEF At, Typed, Storage
      <4> QED  BY <4>1, <3>2, <1>i, <2>2
    <3>4. ASSUME NEW x \in Slots \ {s}
          PROVE  /\ \A i \in task'[x].undo : i.id <= count'.tasks /\ g[i.id] = "permission"
                 /\ task'[x].item.id <= count'.tasks
                 /\ task'[x].item.id # 0 => g[task'[x].item.id] = LedgerOf(task'[x].kind)
      <4>1. /\ task'[x].item = task[x].item /\ task'[x].undo = task[x].undo /\ task'[x].kind = task[x].kind
            /\ task[x].item.id \in Nat /\ task[x].undo \in SUBSET Item
        BY <2>0 DEF Others, Same, Typed, Task, Bound
      <4>2. /\ \A i \in task[x].undo : i.id <= count.tasks /\ h[i.id] = "permission"
            /\ task[x].item.id <= count.tasks
            /\ task[x].item.id # 0 => h[task[x].item.id] = LedgerOf(task[x].kind)
        BY <1>h DEF At
      <4> HIDE DEF g
      <4> QED  BY <2>2, <3>2, <4>1, <4>2, <1>i
    <3> HIDE DEF g
    <3>5. PICK gg \in [Nat -> Ledgers] : gg = g
      BY <3>1
    <3>6. At(gg)'
      BY <2>0, <2>2, <3>1, <3>3, <3>4, <3>5, <1>t DEF At, SameLedgers
    <3> QED  BY <3>6 DEF Homes
  <2> QED  BY <1>4, <2>1, <2>2 DEF Begins
<1>5. ASSUME NEW s \in Slots, Locks(s) \/ Loads(s)
      PROVE  Homes'
  <2>1. SameCount /\ \A x \in Slots : Same(x)
    BY <1>5 DEF Locks, Loads, SameCount, Same
  <2>2. CASE Locks(s)
    BY <2>1, <2>2, <1>s, <1>k, <1>f DEF Locks, SameLedgers
  <2>3. CASE Loads(s)
    <3> PICK k \in Ledgers : k = LedgerOf(task[s].kind)
      BY <1>l
    <3>1. mem'.held = [mem.held EXCEPT ![k] = saved.held[k]] /\ saved' = saved
      BY <2>3, <1>t DEF Loads, Memory
    <3>2. Filled(saved.held[k], k)
      BY <2>1, <1>h DEF At, SameCount
    <3> QED  BY <2>1, <3>1, <3>2, <1>s, <1>m, <1>f
  <2> QED  BY <1>5, <2>2, <2>3
<1>6. ASSUME NEW s \in Slots, NEW items, Works(s, items), InPlace(s),
             Filled(items, LedgerOf(task[s].kind))
      PROVE  Homes'
  <2> PICK k \in Ledgers : k = LedgerOf(task[s].kind)
    BY <1>l
  <2>1. /\ Others(s) /\ SameCount /\ saved'.held = saved.held
        /\ mem'.held = [mem.held EXCEPT ![k] = items]
    BY <1>6 DEF Works, SameCount
  <2> QED  BY <1>6, <2>1, <1>o, <1>m, <1>f
<1>c. ASSUME NEW s \in Slots, NEW items, Works(s, items)
      PROVE  SameCount /\ task'[s].kind = task[s].kind
  BY <1>c DEF Works, SameCount
<1>7. ASSUME NEW s \in Slots, Adding(s)
      PROVE  Homes'
  <2> PICK k \in Ledgers : k = LedgerOf(task[s].kind)
    BY <1>l
  <2>1. PICK i \in Item :
          /\ Works(s, Added(k, i)) /\ i.id = task[s].item.id /\ task'[s].item = i
          /\ task[s].kind = "prepare" => task'[s].undo = {}
          /\ task[s].kind = "grant" => task'[s].undo = mem.held[k]
    BY <1>7 DEF Adding
  <2>2. SameCount /\ task'[s].kind = task[s].kind
    BY <2>1, <1>c
  <2>3. i.id <= count.tasks /\ h[i.id] = k /\ Filled(mem.held[k], k)
    <3>1. i.id # 0 /\ task[s].item.id <= count.tasks
      BY <1>h DEF At, Item, Ids
    <3> QED  BY <2>1, <2>2, <3>1, <1>h DEF At, SameCount
  <2>4. Filled(Added(k, i), k)
    BY <2>2, <2>3 DEF Added, SameCount
  <2>5. InPlace(s)
    <3>1. CASE task[s].kind = "grant"
      <4>1. k = "permission"
        BY <3>1 DEF LedgerOf
      <4> QED  BY <2>1, <2>2, <2>3, <3>1, <4>1 DEF SameCount
    <3>2. CASE task[s].kind = "prepare"
      BY <2>1, <2>2, <2>3, <3>2 DEF SameCount
    <3> QED  BY <1>7, <3>1, <3>2 DEF Adding
  <2> QED  BY <2>1, <2>4, <2>5, <1>6
<1>8. ASSUME NEW s \in Slots, Consuming(s)
      PROVE  Homes'
  <2> PICK k \in Ledgers : k = LedgerOf(task[s].kind)
    BY <1>l
  <2>1. PICK i \in mem.held[k] :
          Works(s, Removed(k, i.id)) /\ task'[s].item.id = i.id /\ task'[s].undo = task[s].undo
    BY <1>8 DEF Consuming
  <2>2. SameCount /\ task'[s].kind = task[s].kind
    BY <2>1, <1>c
  <2>3. Filled(mem.held[k], k)
    BY <2>2, <1>h DEF At, SameCount
  <2>4. Filled(Removed(k, i.id), k)
    BY <2>3 DEF Removed
  <2>5. InPlace(s)
    BY <2>1, <2>2, <2>3, <1>h DEF At, SameCount
  <2> QED  BY <2>1, <2>4, <2>5, <1>6
<1>9. ASSUME NEW s \in Slots, Revoking(s) \/ Sweeping(s)
      PROVE  Homes'
  <2> PICK k \in Ledgers : k = LedgerOf(task[s].kind)
    BY <1>l
  <2>1. PICK items \in SUBSET mem.held[k] : Works(s, items)
    <3>1. CASE Revoking(s)
      BY <3>1 DEF Revoking, Removed
    <3>2. CASE Sweeping(s)
      <4>1. k = "handoff"
        BY <3>2 DEF Sweeping, LedgerOf
      <4> QED  BY <3>2, <4>1 DEF Sweeping
    <3> QED  BY <1>9, <3>1, <3>2
  <2>2. SameCount /\ Goes(s)
    BY <1>9, <2>1, <1>c DEF Revoking, Sweeping
  <2>3. Filled(items, k)
    BY <2>2, <1>h DEF At, SameCount
  <2> QED  BY <2>1, <2>2, <2>3, <1>g, <1>6
<1>10. ASSUME NEW s \in Slots, Saving(s)
       PROVE  Homes'
  <2> PICK k \in Ledgers : k = LedgerOf(task[s].kind)
    BY <1>l
  <2>1. /\ saved'.held = [saved.held EXCEPT ![k] = mem.held[k]] /\ mem' = mem /\ Others(s)
        /\ SameCount /\ (Goes(s) \/ Over(s))
    BY <1>10 DEF Saving, SameCount
  <2>2. \A l \in Ledgers : Filled(mem'.held[l], l) /\ Filled(saved'.held[l], l)
    BY <2>1, <1>h, <1>t DEF At, SameCount, Storage
  <2> QED  BY <2>1, <2>2, <1>g, <1>v, <1>o, <1>f
<1>11. ASSUME NEW s \in Slots, Failing(s)
       PROVE  Homes'
  <2>1. SameCount /\ Over(s) /\ Others(s) /\ saved'.held = saved.held
    BY <1>11 DEF Failing
  <2>2. \A x \in Slots : InPlace(x)
    BY <2>1, <1>v, <1>o
  <2>3. CASE mem'.held = mem.held
    <3>1. \A l \in Ledgers : Filled(mem'.held[l], l) /\ Filled(saved'.held[l], l)
      BY <2>1, <2>3, <1>h DEF At, SameCount
    <3> QED  BY <2>2, <3>1, <1>f
  <2>4. CASE mem'.held = [mem.held EXCEPT !["permission"] = task[s].undo]
    <3>1. Filled(task[s].undo, "permission") /\ "permission" \in Ledgers
      BY <2>1, <1>h DEF At, SameCount, Ledgers
    <3> QED  BY <2>1, <2>2, <2>4, <3>1, <1>m, <1>f
  <2> QED  BY <1>11, <2>3, <2>4 DEF Failing
<1>12. ASSUME NEW s \in Slots, Applying(s)
       PROVE  Homes'
  <2>1. SameCount /\ SameLedgers /\ Over(s) /\ Others(s)
    BY <1>12 DEF Applying, SameCount, SameLedgers
  <2> QED  BY <2>1, <1>v, <1>o, <1>k, <1>f
<1> QED  BY <1>1, <1>2, <1>3, <1>4, <1>5, <1>7, <1>8, <1>9, <1>10, <1>11, <1>12 DEF Effect

-----------------------------------------------------------------------------
(* Where a credential can be.  Most steps bring none to a new place. *)

LEMMA QuietPlaces ==
    ASSUME Typed, Places, \A s \in Slots : Fits(s) /\ Fits(s)',
           count'.tasks \in Nat, count.tasks <= count'.tasks,
           past'.applied \cup past'.revoked \subseteq 0 .. count.tasks,
           \A id \in Ids : Live(id)' => Live(id),
           \A id \in Ids : Gone(id)' => Gone(id),
           \A s \in Slots : task'[s].phase = "save" =>
              \/ task'[s].kind \notin {"complete", "fill", "cancel", "revoke"}
              \/ /\ task[s].phase = "save" /\ task'[s].kind = task[s].kind
                 /\ task'[s].item.id = task[s].item.id
                 /\ mem'.held[LedgerOf(task[s].kind)] = mem.held[LedgerOf(task[s].kind)]
              \/ /\ task'[s].kind \in {"cancel", "revoke"}
                 /\ \A i \in mem'.held[LedgerOf(task'[s].kind)] : i.id # task'[s].item.id,
           \A s \in Slots : Pending(s)' => Pending(s) /\ task'[s].item.id = task[s].item.id,
           \A s \in Slots : task'[s].item.id \in {0, task[s].item.id} \/ Live(task'[s].item.id),
           AppliedOnce', NothingTwice'
    PROVE  Places'
<1>t. count.tasks \in Nat
  BY DEF Typed, Counts
<1>1. NoneLeft'
  BY <1>t DEF Places, NoneLeft
<1>2. TakenOut'
  <2> SUFFICES ASSUME NEW s \in Slots, task'[s].phase = "save",
                      task'[s].kind \in {"complete", "fill", "cancel", "revoke"}
               PROVE  /\ ~ Held(LedgerOf(task[s].kind), task[s].item.id)'
                      /\ (task[s].kind \in {"complete", "fill"})' =>
                            task'[s].item.id \in Ids /\ ~ Gone(task[s].item.id)'
    BY DEF TakenOut
  <2>1. CASE /\ task[s].phase = "save" /\ task'[s].kind = task[s].kind
             /\ task'[s].item.id = task[s].item.id
             /\ mem'.held[LedgerOf(task[s].kind)] = mem.held[LedgerOf(task[s].kind)]
    <3>1. /\ ~ Held(LedgerOf(task[s].kind), task[s].item.id)
          /\ task[s].kind \in {"complete", "fill"} =>
                            task[s].item.id \in Ids /\ ~ Gone(task[s].item.id)
      BY <2>1 DEF Places, TakenOut
    <3>2. ~ Held(LedgerOf(task[s].kind), task[s].item.id)'
      BY <2>1, <3>1 DEF Held
    <3>3. PICK id : id = task[s].item.id
      OBVIOUS
    <3>4. task[s].kind \in {"complete", "fill"} => id \in Ids /\ ~ Gone(id)'
      BY <3>1, <3>3
    <3>5. Gone(task[s].item.id)' <=> Gone(id)'
      BY <2>1, <3>3 DEF Gone, Used
    <3> QED  BY <2>1, <3>2, <3>3, <3>4, <3>5
  <2>2. CASE /\ task'[s].kind \in {"cancel", "revoke"}
             /\ \A i \in mem'.held[LedgerOf(task'[s].kind)] : i.id # task'[s].item.id
    BY <2>2 DEF Held
  <2> QED  BY <2>1, <2>2
<1>3. NotYet'
  <2> SUFFICES ASSUME NEW s \in Slots, Pending(s)'
               PROVE  /\ ~ Gone(task[s].item.id)' /\ ~ Live(task[s].item.id)'
                      /\ \A x \in Slots : x # s => task'[x].item.id # task'[s].item.id
    BY DEF NotYet
  <2>1. PICK id : id = task[s].item.id
    OBVIOUS
  <2>2. Pending(s) /\ task'[s].item.id = id
    BY <2>1
  <2>3. id \in Ids
    BY <2>1, <2>2 DEF Fits, Pending
  <2>4. /\ ~ Gone(id) /\ ~ Live(id) /\ \A x \in Slots : x # s => task[x].item.id # id
    BY <2>1, <2>2 DEF Places, NotYet
  <2>5. ~ Gone(id)' /\ ~ Live(id)'
    BY <2>3, <2>4
  <2>6. Gone(task[s].item.id)' <=> Gone(id)'
    BY <2>2 DEF Gone, Used
  <2>7. Live(task[s].item.id)' <=> Live(id)'
    BY <2>2 DEF Live, Held
  <2>8. ASSUME NEW x \in Slots, x # s PROVE task'[x].item.id # id
    <3>1. id # 0
      BY <2>3 DEF Ids
    <3> PICK other : other = task'[x].item.id
      OBVIOUS
    <3>2. other \in {0, task[x].item.id} \/ Live(other)
      OBVIOUS
    <3> QED  BY <2>4, <2>8, <3>1, <3>2
  <2> QED  BY <2>2, <2>5, <2>6, <2>7, <2>8
<1> QED  BY <1>1, <1>2, <1>3 DEF Places

\* A step of one slot that brings no credential to a new place.
LEMMA QuietSlot ==
    ASSUME Typed, Places, \A x \in Slots : Fits(x) /\ Fits(x)', NEW s \in Slots, Others(s),
           count'.tasks \in Nat, count.tasks <= count'.tasks,
           past'.applied \cup past'.revoked \subseteq 0 .. count.tasks,
           \A id \in Ids : id \in past'.applied \cup past'.revoked => Gone(id),
           NothingTwice',
           \A l \in Ledgers : \A i \in mem'.held[l] \cup saved'.held[l] : Live(i.id),
           task'[s].undo \in {{}, task[s].undo},
           Same(s) \/ (task'[s].phase = "apply" => task'[s].item.id = 0),
           \A x \in Slots : Same(x) /\ task'[x].phase = "apply" /\ task'[x].item.id # 0 =>
              task'[x].item.id \notin past'.applied,
           \A x \in Slots : Same(x) /\ task[x].phase = "save"
                               /\ task[x].kind \in {"complete", "fill", "cancel", "revoke"} =>
              mem'.held[LedgerOf(task[x].kind)] = mem.held[LedgerOf(task[x].kind)],
           \/ Same(s) \/ task'[s].phase # "save"
           \/ task'[s].kind \notin {"complete", "fill", "cancel", "revoke"}
           \/ /\ task'[s].kind \in {"cancel", "revoke"}
              /\ \A i \in mem'.held[LedgerOf(task'[s].kind)] : i.id # task'[s].item.id,
           Pending(s)' => Pending(s) /\ task'[s].item.id = task[s].item.id,
           task'[s].item.id \in {0, task[s].item.id} \/ Live(task'[s].item.id)
    PROVE  Places'
<1>0. \A id \in Ids : id # 0
  BY DEF Ids
<1>s. \A x \in Slots : x = s \/ Same(x)
  BY DEF Others
<1>1. \A id \in Ids : Live(id)' => Live(id)
  <2>1. \A x \in Slots : \A i \in task'[x].undo : Live(i.id)
    <3>1. \A x \in Slots : task'[x].undo \in {{}, task[x].undo}
      BY <1>s DEF Same
    <3>2. \A x \in Slots : \A i \in task[x].undo : Live(i.id)
      BY DEF Live
    <3> QED  BY <3>1, <3>2
  <2>2. ASSUME NEW id \in Ids, Live(id)' PROVE Live(id)
    <3>1. \/ \E l \in Ledgers : \E i \in mem'.held[l] \cup saved'.held[l] : i.id = id
          \/ \E x \in Slots : \E i \in task'[x].undo : i.id = id
      BY <2>2 DEF Live, Held
    <3> QED  BY <3>1, <2>1
  <2> QED  BY <2>2
<1>2. \A id \in Ids : Gone(id)' => Gone(id)
  <2>1. ASSUME NEW id \in Ids, NEW x \in Slots, task'[x].phase = "apply", task'[x].item.id = id
        PROVE  Gone(id)
    <3>1. Same(x)
      BY <2>1, <1>0, <1>s
    <3> QED  BY <2>1, <3>1 DEF Gone, Used, Same
  <2> QED  BY <2>1 DEF Gone, Used
<1>3. AppliedOnce'
  <2>1. \A x \in Slots : task'[x].phase = "apply" /\ task'[x].item.id # 0 =>
           Same(x) /\ task[x].phase = "apply" /\ task'[x].item.id = task[x].item.id
    BY <1>s DEF Same
  <2> QED  BY <2>1 DEF Places, AppliedOnce
<1>4. \A x \in Slots : task'[x].phase = "save" =>
              \/ task'[x].kind \notin {"complete", "fill", "cancel", "revoke"}
              \/ /\ task[x].phase = "save" /\ task'[x].kind = task[x].kind
                 /\ task'[x].item.id = task[x].item.id
                 /\ mem'.held[LedgerOf(task[x].kind)] = mem.held[LedgerOf(task[x].kind)]
              \/ /\ task'[x].kind \in {"cancel", "revoke"}
                 /\ \A i \in mem'.held[LedgerOf(task'[x].kind)] : i.id # task'[x].item.id
  <2>1. ASSUME NEW x \in Slots, Same(x), task'[x].phase = "save",
               task'[x].kind \in {"complete", "fill", "cancel", "revoke"}
        PROVE  /\ task[x].phase = "save" /\ task'[x].kind = task[x].kind
               /\ task'[x].item.id = task[x].item.id
               /\ mem'.held[LedgerOf(task[x].kind)] = mem.held[LedgerOf(task[x].kind)]
    BY <2>1 DEF Same
  <2> QED  BY <2>1, <1>s
<1>5. \A x \in Slots : Pending(x)' => Pending(x) /\ task'[x].item.id = task[x].item.id
  <2>1. \A x \in Slots : Same(x) /\ Pending(x)' => Pending(x) /\ task'[x].item.id = task[x].item.id
    BY DEF Same, Pending
  <2> QED  BY <2>1, <1>s
<1>6. \A x \in Slots : task'[x].item.id \in {0, task[x].item.id} \/ Live(task'[x].item.id)
  BY <1>s DEF Same
<1> QED  BY <1>1, <1>2, <1>3, <1>4, <1>5, <1>6, QuietPlaces

\* Steps that do not touch the ledgers but to read or to empty them.
LEMMA PlacesOfQuiet ==
    ASSUME Typed, Typed', Filed, Locked, Homes, Places, \A x \in Slots : Fits(x) /\ Fits(x)',
           NEW s \in Slots,
           \/ Still \/ Calm(s) \/ (Begins(s) /\ task'[s].kind \notin {"prepare", "grant"})
           \/ Locks(s) \/ Loads(s) \/ Revoking(s) \/ Sweeping(s)
           \/ (Saving(s) /\ task[s].kind \notin {"complete", "fill", "cancel", "revoke"})
           \/ Failing(s) \/ Applying(s)
    PROVE  Places'
<1> USE ConstantsAssumption DEF ConstantsAssumption
<1>t. /\ count.tasks \in Nat /\ count'.tasks \in Nat /\ mem \in Memory /\ saved \in Storage
      /\ past \in History /\ mem.held \in [Ledgers -> SUBSET Item]
      /\ saved.held \in [Ledgers -> SUBSET Item]
  BY DEF Typed, Counts, Memory, Storage
<1>l. \A x \in Slots : LedgerOf(task[x].kind) \in Ledgers
  BY LedgersOfKinds
<1>p. /\ past.applied \cup past.revoked \subseteq 0 .. count.tasks
      /\ \A id \in Ids : id \in past.applied \cup past.revoked => Gone(id)
      /\ NothingTwice
      /\ \A x \in Slots : task[x].phase = "apply" /\ task[x].item.id # 0 => task[x].item.id \notin past.applied
  BY DEF Places, NoneLeft, Gone, AppliedOnce
<1>g. /\ \A l \in Ledgers : \A i \in mem.held[l] \cup saved.held[l] : Live(i.id)
      /\ \A x \in Slots : \A i \in task[x].undo : Live(i.id)
  BY DEF Live, Held
<1>v. Over(s) => /\ task'[s].phase = "idle" /\ task'[s].undo = {} /\ task'[s].item.id = 0
                 /\ ~ Pending(s)'
  BY SlotsEnd DEF Pending
\* What the history says does not change, nor does anything come to a ledger.
<1>q. ASSUME Others(s), past' = past, count.tasks <= count'.tasks,
             \A l \in Ledgers : \A i \in mem'.held[l] \cup saved'.held[l] : Live(i.id),
             task'[s].undo \in {{}, task[s].undo},
             Same(s) \/ (task'[s].phase = "apply" => task'[s].item.id = 0),
             \A x \in Slots : Same(x) /\ task[x].phase = "save"
                                 /\ task[x].kind \in {"complete", "fill", "cancel", "revoke"} =>
                mem'.held[LedgerOf(task[x].kind)] = mem.held[LedgerOf(task[x].kind)],
             \/ Same(s) \/ task'[s].phase # "save"
             \/ task'[s].kind \notin {"complete", "fill", "cancel", "revoke"}
             \/ /\ task'[s].kind \in {"cancel", "revoke"}
                /\ \A i \in mem'.held[LedgerOf(task'[s].kind)] : i.id # task'[s].item.id,
             Pending(s)' => Pending(s) /\ task'[s].item.id = task[s].item.id,
             task'[s].item.id \in {0, task[s].item.id} \/ Live(task'[s].item.id)
      PROVE  Places'
  <2>1. \A x \in Slots : Same(x) /\ task'[x].phase = "apply" /\ task'[x].item.id # 0 =>
              task'[x].item.id \notin past'.applied
    BY <1>p, <1>q DEF Same
  <2>2. NothingTwice'
    BY <1>p, <1>q DEF NothingTwice
  <2> QED  BY <1>q, <1>t, <1>p, <2>1, <2>2, QuietSlot
<1>k. SameLedgers => /\ \A l \in Ledgers : \A i \in mem'.held[l] \cup saved'.held[l] : Live(i.id)
                     /\ \A l \in Ledgers : mem'.held[l] = mem.held[l]
  BY <1>g DEF SameLedgers
<1>m. ASSUME NEW k \in Ledgers, NEW items, \A i \in items : Live(i.id), saved'.held = saved.held,
             mem'.held = [mem.held EXCEPT ![k] = items]
      PROVE  /\ \A l \in Ledgers : \A i \in mem'.held[l] \cup saved'.held[l] : Live(i.id)
             /\ \A l \in Ledgers : l # k => mem'.held[l] = mem.held[l]
  BY <1>m, <1>g, <1>t
<1>1. CASE Still
  <2>1. Others(s) /\ Same(s) /\ past' = past /\ count.tasks <= count'.tasks
    BY <1>1, <1>t DEF Still, Others, SameCount
  <2>2. /\ task'[s].undo = task[s].undo /\ task'[s].item.id = task[s].item.id
        /\ Pending(s)' => Pending(s)
    BY <2>1 DEF Same, Pending
  <2> QED  BY <1>1, <2>1, <2>2, <1>k, <1>l, <1>q DEF Still
<1>2. CASE Calm(s)
  <2>1. Others(s) /\ past' = past /\ count.tasks <= count'.tasks /\ SameLedgers
    BY <1>2, <1>t DEF Calm, SameCount
  <2>2. CASE Over(s)
    BY <2>1, <2>2, <1>v, <1>k, <1>l, <1>q
  <2>3. CASE ~ Over(s)
    <3>1. /\ Goes(s) /\ task'[s].phase # "save" /\ task[s].phase \notin {"idle", "save"}
          /\ task'[s].phase = "apply" => task[s].kind \in {"act", "approved"}
      BY <1>2, <2>3 DEF Calm
    <3>2. task'[s].phase = "apply" => task'[s].item.id = 0
      BY <3>1 DEF Fits, Goes
    <3>3. Pending(s)' => Pending(s)
      BY <3>1 DEF Pending, Goes
    <3> QED  BY <2>1, <3>1, <3>2, <3>3, <1>k, <1>l, <1>q DEF Goes
  <2> QED  BY <2>2, <2>3
<1>3. CASE Begins(s) /\ task'[s].kind \notin {"prepare", "grant"}
  <2>1. Others(s) /\ past' = past /\ count.tasks <= count'.tasks /\ SameLedgers
    BY <1>3, <1>t DEF Begins
  <2>2. /\ task'[s].undo = {} /\ task'[s].phase \notin {"apply", "save"} /\ ~ Pending(s)'
    BY <1>3 DEF Begins, Pending
  <2>3. task'[s].item.id = 0 \/ Live(task'[s].item.id)
    <3> PICK k \in Ledgers : k = LedgerOf(task'[s].kind)
      BY LedgersOfKinds
    <3> PICK i : i = task'[s].item
      OBVIOUS
    <3>1. i.id = 0 \/ i \in mem.held[k] \cup saved.held[k]
      BY <1>3 DEF Begins
    <3> QED  BY <3>1, <1>g
  <2> QED  BY <2>1, <2>2, <2>3, <1>k, <1>l, <1>q
<1>4. CASE Locks(s) \/ Loads(s)
  <2> PICK k \in Ledgers : k = LedgerOf(task[s].kind)
    BY <1>l
  <2>1. \A x \in Slots : Same(x)
    BY <1>4 DEF Locks, Loads, Same
  <2>2. Others(s) /\ past' = past /\ count.tasks <= count'.tasks
    BY <1>4, <1>t, <2>1 DEF Locks, Loads, Others
  <2>3. /\ task'[s].undo = task[s].undo /\ task'[s].item.id = task[s].item.id
        /\ Pending(s)' => Pending(s)
    BY <2>1 DEF Same, Pending
  <2>4. CASE Locks(s)
    <3>1. SameLedgers
      BY <2>4 DEF Locks, SameLedgers
    <3> QED  BY <3>1, <2>1, <2>2, <2>3, <1>k, <1>l, <1>q
  <2>5. CASE Loads(s)
    <3>1. mem'.held = [mem.held EXCEPT ![k] = saved.held[k]] /\ saved' = saved /\ ~ mem.ready[k]
      BY <2>5, <1>t DEF Loads, Memory
    <3>2. \A x \in Slots : task[x].phase = "save" => LedgerOf(task[x].kind) # k
      BY <3>1 DEF Locked
    <3>3. \A i \in saved.held[k] : Live(i.id)
      BY <1>g
    <3>4. /\ \A l \in Ledgers : \A i \in mem'.held[l] \cup saved'.held[l] : Live(i.id)
          /\ \A l \in Ledgers : l # k => mem'.held[l] = mem.held[l]
      BY <3>1, <3>3, <1>m
    <3> QED  BY <3>2, <3>4, <2>1, <2>2, <2>3, <1>l, <1>q
  <2> QED  BY <1>4, <2>4, <2>5
<1>5. CASE Revoking(s) \/ Sweeping(s)
  <2> PICK k \in Ledgers : k = LedgerOf(task[s].kind)
    BY <1>l
  <2>1. PICK items \in SUBSET mem.held[k] :
          Works(s, items) /\ (Revoking(s) => items = Removed(k, task[s].item.id))
    <3>1. CASE Revoking(s)
      BY <3>1 DEF Revoking, Removed
    <3>2. CASE Sweeping(s) /\ ~ Revoking(s)
      <4>1. k = "handoff"
        BY <3>2 DEF Sweeping, LedgerOf
      <4> QED  BY <3>2, <4>1 DEF Sweeping
    <3> QED  BY <1>5, <3>1, <3>2
  <2>2. /\ Others(s) /\ count.tasks <= count'.tasks /\ saved'.held = saved.held
        /\ mem'.held = [mem.held EXCEPT ![k] = items] /\ holder[k] = None
        /\ task'[s].phase = "save" /\ task'[s].kind = task[s].kind
    BY <2>1, <1>t DEF Works
  <2>3. past' = past /\ Goes(s)
    BY <1>5 DEF Revoking, Sweeping
  <2>4. \A x \in Slots : task[x].phase = "save" => LedgerOf(task[x].kind) # k
    BY <2>2 DEF Locked
  <2>5. \A i \in items : Live(i.id)
    BY <2>1, <1>g
  <2>6. /\ \A l \in Ledgers : \A i \in mem'.held[l] \cup saved'.held[l] : Live(i.id)
        /\ \A l \in Ledgers : l # k => mem'.held[l] = mem.held[l]
    BY <2>2, <2>5, <1>m
  <2>7. ~ Pending(s)'
    BY <2>2 DEF Pending
  <2>8. \/ task'[s].kind \notin {"complete", "fill", "cancel", "revoke"}
        \/ /\ task'[s].kind \in {"cancel", "revoke"}
           /\ \A i \in mem'.held[LedgerOf(task'[s].kind)] : i.id # task'[s].item.id
    <3>1. CASE Revoking(s)
      <4>1. mem'.held[k] = {i \in mem.held[k] : i.id # task[s].item.id}
        BY <3>1, <2>1, <2>2, <1>t DEF Removed
      <4> QED  BY <4>1, <2>2, <2>3, <3>1 DEF Goes, Revoking
    <3>2. CASE Sweeping(s)
      BY <3>2, <2>2 DEF Sweeping
    <3> QED  BY <1>5, <3>1, <3>2
  <2> QED  BY <2>2, <2>3, <2>4, <2>6, <2>7, <2>8, <1>l, <1>q DEF Goes
<1>6. CASE Saving(s) /\ task[s].kind \notin {"complete", "fill", "cancel", "revoke"}
  <2> PICK k \in Ledgers : k = LedgerOf(task[s].kind)
    BY <1>l
  <2>1. /\ saved'.held = [saved.held EXCEPT ![k] = mem.held[k]] /\ mem' = mem /\ Others(s)
        /\ count.tasks <= count'.tasks /\ Over(s) /\ past' = past
    BY <1>6, <1>t DEF Saving
  <2>2. \A l \in Ledgers : \A i \in mem'.held[l] \cup saved'.held[l] : Live(i.id)
    BY <2>1, <1>g, <1>t
  <2> QED  BY <2>1, <2>2, <1>v, <1>l, <1>q
<1>7. CASE Failing(s)
  <2>1. /\ Others(s) /\ Over(s) /\ past' = past /\ saved' = saved /\ count.tasks <= count'.tasks
        /\ holder[LedgerOf(task[s].kind)] = s
    BY <1>7, <1>t DEF Failing, SameCount
  <2>2. CASE mem'.held = mem.held
    <3>1. \A l \in Ledgers : \A i \in mem'.held[l] \cup saved'.held[l] : Live(i.id)
      BY <2>1, <2>2, <1>g
    <3> QED  BY <2>1, <2>2, <3>1, <1>v, <1>q
  <2>3. CASE task[s].kind = "grant" /\ task[s].phase = "save"
             /\ mem'.held = [mem.held EXCEPT !["permission"] = task[s].undo]
    <3>1. LedgerOf(task[s].kind) = "permission" /\ "permission" \in Ledgers
      BY <2>3 DEF LedgerOf, Ledgers
    <3>2. \A x \in Slots : task[x].phase = "save" /\ LedgerOf(task[x].kind) = "permission" => x = s
      BY <2>1, <3>1 DEF Locked
    <3>3. /\ \A l \in Ledgers : \A i \in mem'.held[l] \cup saved'.held[l] : Live(i.id)
          /\ \A l \in Ledgers : l # "permission" => mem'.held[l] = mem.held[l]
      BY <2>1, <2>3, <3>1, <1>g, <1>m
    <3>4. \A x \in Slots : Same(x) /\ task[x].phase = "save"
                               /\ task[x].kind \in {"complete", "fill", "cancel", "revoke"} =>
              mem'.held[LedgerOf(task[x].kind)] = mem.held[LedgerOf(task[x].kind)]
      BY <2>3, <3>2, <3>3, <1>l
    <3> QED  BY <2>1, <3>3, <3>4, <1>v, <1>q
  <2> QED  BY <1>7, <2>2, <2>3 DEF Failing
<1>8. CASE Applying(s)
  <2>1. /\ Others(s) /\ Over(s) /\ count.tasks <= count'.tasks /\ SameLedgers
        /\ task[s].phase = "apply"
    BY <1>8, <1>t DEF Applying, SameLedgers
  <2>2. CASE past' = past
    BY <2>1, <2>2, <1>v, <1>k, <1>l, <1>q
  <2>3. CASE task[s].approval # None
             /\ past' = [past EXCEPT !.acted = @ \cup {task[s].approval},
                                     !.repeated = @ \cup (past.acted \cap {task[s].approval})]
    <3>1. /\ past'.applied = past.applied /\ past'.revoked = past.revoked
          /\ past'.again = past.again /\ past'.late = past.late
      BY <2>3, <1>t DEF History
    <3>2. NothingTwice'
      BY <3>1, <1>p DEF NothingTwice
    <3>3. \A x \in Slots : Same(x) /\ task'[x].phase = "apply" /\ task'[x].item.id # 0 =>
              task'[x].item.id \notin past'.applied
      BY <3>1, <1>p DEF Same
    <3>4. /\ past'.applied \cup past'.revoked \subseteq 0 .. count.tasks
          /\ \A id \in Ids : id \in past'.applied \cup past'.revoked => Gone(id)
      BY <3>1, <1>p
    <3> QED  BY <2>1, <3>2, <3>3, <3>4, <1>v, <1>k, <1>l, <1>t, QuietSlot
  <2>4. CASE task[s].item.id # 0
             /\ past' = [past EXCEPT !.applied = @ \cup {task[s].item.id},
                                     !.again = @ \cup (past.applied \cap {task[s].item.id})]
    <3> PICK n : n = task[s].item.id
      OBVIOUS
    <3>1. /\ past'.applied = past.applied \cup {n} /\ past'.revoked = past.revoked
          /\ past'.again = past.again \cup (past.applied \cap {n}) /\ past'.late = past.late
      BY <2>4, <1>t DEF History
    <3>2. n \notin past.applied
      BY <2>1, <2>4, <1>p
    <3>3. NothingTwice'
      BY <3>1, <3>2, <1>p DEF NothingTwice
    <3>4. \A x \in Slots : Same(x) /\ task'[x].phase = "apply" /\ task'[x].item.id # 0 =>
              task'[x].item.id \notin past'.applied
      <4>1. ASSUME NEW x \in Slots, Same(x), task'[x].phase = "apply", task'[x].item.id # 0,
                   task'[x].item.id = n
            PROVE  FALSE
        <5>1. x = s
          BY <4>1, <2>1 DEF Same, Places, AppliedOnce
        <5> QED  BY <4>1, <5>1, <2>1, <1>v
      <4> QED  BY <4>1, <3>1, <1>p DEF Same
    <3>5. n \in 0 .. count.tasks
      <4>1. task[s].item.id <= count.tasks
        BY DEF Homes, At
      <4>2. n \in Nat
        BY DEF Typed, Task, Bound
      <4> QED  BY <4>1, <4>2, <1>t
    <3>6. Gone(n)
      BY <2>1 DEF Gone, Used
    <3>7. /\ past'.applied \cup past'.revoked \subseteq 0 .. count.tasks
          /\ \A id \in Ids : id \in past'.applied \cup past'.revoked => Gone(id)
      BY <3>1, <3>5, <3>6, <1>p
    <3> QED  BY <2>1, <3>3, <3>4, <3>7, <1>v, <1>k, <1>l, <1>t, QuietSlot
  <2> QED  BY <1>8, <2>2, <2>3, <2>4 DEF Applying
<1> QED  BY <1>1, <1>2, <1>3, <1>4, <1>5, <1>6, <1>7, <1>8

LEMMA PlacesOfKill ==
    ASSUME Typed, Typed', Places, \A x \in Slots : Fits(x) /\ Fits(x)', Kill
    PROVE  Places'
<1>t. count.tasks \in Nat /\ count'.tasks = count.tasks /\ past \in History
  BY DEF Typed, Counts, Kill
<1>1. \A x \in Slots : task'[x].phase = "idle" /\ task'[x].item.id = 0 /\ task'[x].undo = {}
  BY IdleFits DEF Kill
<1>2. /\ past'.applied = past.applied /\ past'.revoked = past.revoked
      /\ past'.again = past.again /\ past'.late = past.late
  BY <1>t DEF Kill, History
<1>3. \A id \in Ids : Live(id)' => Live(id)
  <2>1. PICK arrived \in SUBSET Ledgers :
          saved' = [saved EXCEPT !.held = [l \in Ledgers |-> IF l \in arrived THEN mem.held[l] ELSE @[l]]]
    BY DEF Kill
  <2>2. \A l \in Ledgers : mem'.held[l] = {} /\ saved'.held[l] \in {mem.held[l], saved.held[l]}
    BY <2>1 DEF Typed, Storage, Kill, Started
  <2> QED  BY <1>1, <2>2 DEF Live, Held
<1>4. \A id \in Ids : Gone(id)' => Gone(id)
  BY <1>1, <1>2 DEF Gone, Used
<1>5. AppliedOnce' /\ NothingTwice'
  BY <1>1, <1>2 DEF AppliedOnce, NothingTwice, Places
<1>6. \A x \in Slots : ~ Pending(x)'
  BY <1>1 DEF Pending
<1>7. past'.applied \cup past'.revoked \subseteq 0 .. count.tasks
  BY <1>2 DEF Places, NoneLeft
<1> QED  BY <1>t, <1>1, <1>3, <1>4, <1>5, <1>6, <1>7, QuietPlaces

\* A new request: its credential is nowhere yet.
LEMMA PlacesOfFresh ==
    ASSUME Typed, Homes, Places, \A x \in Slots : Fits(x) /\ Fits(x)',
           NEW s \in Slots, Begins(s), task'[s].kind \in {"prepare", "grant"}
    PROVE  Places'
<1>t. count.tasks \in Nat /\ mem.held \in [Ledgers -> SUBSET Item] /\ saved.held \in [Ledgers -> SUBSET Item]
  BY DEF Typed, Counts, Memory, Storage
<1> PICK n : n = count.tasks + 1
  OBVIOUS
<1>1. task'[s].item.id = n /\ count'.tasks = n /\ n \in Nat /\ past' = past
  BY <1>t DEF Begins
<1>2. /\ task'[s].phase \notin {"apply", "save", "idle"} /\ task'[s].undo = {} /\ task[s].phase = "idle"
      /\ SameLedgers
  BY DEF Begins
<1>3. \A x \in Slots \ {s} : Same(x)
  BY DEF Begins, Others
<1>4. \A x \in Slots : task[x].item.id # n /\ task[x].item.id \in Nat
  <2>1. \A x \in Slots : task[x].item.id <= count.tasks /\ task[x].item.id \in Nat
    BY DEF Homes, At, Typed, Task, Bound
  <2> QED  BY <2>1, <1>t
<1>5. ~ Live(n)
  <2>1. PICK h \in [Nat -> Ledgers] : At(h)
    BY DEF Homes
  <2>2. \A l \in Ledgers : \A i \in mem.held[l] \cup saved.held[l] : i.id \in Nat /\ i.id <= count.tasks
    BY <2>1, <1>t DEF At, Item, Ids
  <2>3. \A x \in Slots : \A i \in task[x].undo : i.id \in Nat /\ i.id <= count.tasks
    BY <2>1 DEF At, Typed, Task, Item, Ids
  <2> QED  BY <2>2, <2>3, <1>t DEF Live, Held
<1>6. ~ Gone(n)
  <2>1. n \notin past.applied \cup past.revoked
    BY <1>t DEF Places, NoneLeft
  <2> QED  BY <2>1, <1>4 DEF Gone, Used
<1>7. \A id : Gone(id)' <=> Gone(id)
  <2>1. \A x \in Slots : \A id : task'[x].phase = "apply" /\ task'[x].item.id = id
            <=> task[x].phase = "apply" /\ task[x].item.id = id
    BY <1>2, <1>3 DEF Same
  <2> QED  BY <2>1, <1>1 DEF Gone, Used
<1>8. \A id : Live(id)' => Live(id)
  BY <1>2, <1>3 DEF Live, Held, Same, SameLedgers
<1>9. NoneLeft'
  BY <1>1, <1>7, <1>8, <1>t DEF Places, NoneLeft
<1>10. AppliedOnce' /\ NothingTwice'
  BY <1>1, <1>2, <1>3 DEF Places, AppliedOnce, NothingTwice, Same
<1>11. TakenOut'
  <2> SUFFICES ASSUME NEW x \in Slots, (task[x].phase = "save")'
               PROVE  /\ (task[x].kind \in {"complete", "fill", "cancel", "revoke"})' =>
                            ~ Held(LedgerOf(task[x].kind), task[x].item.id)'
                      /\ (task[x].kind \in {"complete", "fill"})' =>
                            task'[x].item.id \in Ids /\ ~ Gone(task[x].item.id)'
    BY DEF TakenOut
  <2>1. Same(x)
    BY <1>2, <1>3
  <2>2. PICK id : id = task[x].item.id
    OBVIOUS
  <2>3. PICK kind : kind = task[x].kind
    OBVIOUS
  <2>4. task[x].phase = "save" /\ task'[x].item.id = id /\ task'[x].kind = kind
    BY <2>1, <2>2, <2>3 DEF Same
  <2>5. /\ kind \in {"complete", "fill", "cancel", "revoke"} => ~ Held(LedgerOf(kind), id)
        /\ kind \in {"complete", "fill"} => id \in Ids /\ ~ Gone(id)
    BY <2>2, <2>3, <2>4 DEF Places, TakenOut
  <2>6. Held(LedgerOf(kind), id)' <=> Held(LedgerOf(kind), id)
    BY <1>2 DEF Held, SameLedgers
  <2>7. Gone(task[x].item.id)' <=> Gone(id)'
    BY <2>4 DEF Gone, Used
  <2>8. Held(LedgerOf(task[x].kind), task[x].item.id)' <=> Held(LedgerOf(kind), id)'
    BY <2>4 DEF Held
  <2>9. Gone(id)' <=> Gone(id)
    BY <1>7
  <2> QED  BY <2>4, <2>5, <2>6, <2>7, <2>8, <2>9
<1>12. NotYet'
  <2> SUFFICES ASSUME NEW x \in Slots, Pending(x)'
               PROVE  /\ ~ Gone(task[x].item.id)' /\ ~ Live(task[x].item.id)'
                      /\ \A y \in Slots : y # x => task'[y].item.id # task'[x].item.id
    BY DEF NotYet
  <2>1. PICK id : id = task'[x].item.id
    OBVIOUS
  <2>2. ~ Gone(id) /\ ~ Live(id) /\ \A y \in Slots : y # x => task'[y].item.id # id
    <3>1. CASE x = s
      BY <3>1, <2>1, <1>1, <1>3, <1>4, <1>5, <1>6 DEF Same
    <3>2. CASE x # s
      <4>1. Pending(x) /\ task[x].item.id = id
        BY <2>1, <3>2, <1>3 DEF Same, Pending
      <4>2. ~ Gone(id) /\ ~ Live(id) /\ \A y \in Slots : y # x => task[y].item.id # id
        BY <4>1 DEF Places, NotYet
      <4> QED  BY <4>1, <4>2, <1>1, <1>3, <1>4 DEF Same
    <3> QED  BY <3>1, <3>2
  <2>3. Gone(task[x].item.id)' <=> Gone(id)'
    BY <2>1 DEF Gone, Used
  <2>4. Live(task[x].item.id)' <=> Live(id)'
    BY <2>1 DEF Live, Held
  <2>5. ~ Gone(id)' /\ ~ Live(id)'
    BY <2>2, <1>7, <1>8
  <2> QED  BY <2>1, <2>2, <2>3, <2>4, <2>5
<1> QED  BY <1>9, <1>10, <1>11, <1>12 DEF Places

\* What is taken out and what is not there yet, told by their numbers.
LEMMA TakenOutNext ==
    ASSUME \A x \in Slots : \A kind, id :
              (/\ task'[x].phase = "save" /\ kind = task'[x].kind /\ id = task'[x].item.id
               /\ kind \in {"complete", "fill", "cancel", "revoke"}) =>
                 /\ \A i \in mem'.held[LedgerOf(kind)] : i.id # id
                 /\ kind \in {"complete", "fill"} => id \in Ids /\ ~ Gone(id)'
    PROVE  TakenOut'
<1> SUFFICES ASSUME NEW x \in Slots, (task[x].phase = "save")'
             PROVE  /\ (task[x].kind \in {"complete", "fill", "cancel", "revoke"})' =>
                          ~ Held(LedgerOf(task[x].kind), task[x].item.id)'
                    /\ (task[x].kind \in {"complete", "fill"})' =>
                          task'[x].item.id \in Ids /\ ~ Gone(task[x].item.id)'
  BY DEF TakenOut
<1>1. PICK id : id = task'[x].item.id
  OBVIOUS
<1>2. PICK kind : kind = task'[x].kind
  OBVIOUS
<1>3. kind \in {"complete", "fill", "cancel", "revoke"} =>
         /\ \A i \in mem'.held[LedgerOf(kind)] : i.id # id
         /\ kind \in {"complete", "fill"} => id \in Ids /\ ~ Gone(id)'
  BY <1>1, <1>2
<1>4. Gone(task[x].item.id)' <=> Gone(id)'
  BY <1>1 DEF Gone, Used
<1>5. Held(LedgerOf(task[x].kind), task[x].item.id)' <=> \E i \in mem'.held[LedgerOf(kind)] : i.id = id
  BY <1>1, <1>2 DEF Held
<1> QED  BY <1>1, <1>2, <1>3, <1>4, <1>5

LEMMA NotYetNext ==
    ASSUME \A x \in Slots : \A id : Pending(x)' /\ id = task'[x].item.id =>
              /\ ~ Gone(id)' /\ ~ Live(id)'
              /\ \A y \in Slots : y # x => task'[y].item.id # id
    PROVE  NotYet'
<1> SUFFICES ASSUME NEW x \in Slots, Pending(x)'
             PROVE  /\ ~ Gone(task[x].item.id)' /\ ~ Live(task[x].item.id)'
                    /\ \A y \in Slots : y # x => task'[y].item.id # task'[x].item.id
  BY DEF NotYet
<1>1. PICK id : id = task'[x].item.id
  OBVIOUS
<1>2. ~ Gone(id)' /\ ~ Live(id)' /\ \A y \in Slots : y # x => task'[y].item.id # id
  BY <1>1
<1>3. Gone(task[x].item.id)' <=> Gone(id)'
  BY <1>1 DEF Gone, Used
<1>4. Live(task[x].item.id)' <=> Live(id)'
  BY <1>1 DEF Live, Held
<1> QED  BY <1>1, <1>2, <1>3, <1>4

LEMMA PlacesOfAdding ==
    ASSUME Typed, Locked, Places, \A x \in Slots : Fits(x), NEW s \in Slots, Adding(s)
    PROVE  Places'
<1> USE ConstantsAssumption DEF ConstantsAssumption
<1> PICK k \in Ledgers : k = LedgerOf(task[s].kind)
  BY LedgersOfKinds
<1>1. PICK i \in Item :
        /\ Works(s, Added(k, i)) /\ i.id = task[s].item.id /\ task'[s].item = i
        /\ task[s].kind = "prepare" => task'[s].undo = {}
        /\ task[s].kind = "grant" => task'[s].undo = mem.held[k]
  BY DEF Adding
<1> PICK n : n = i.id
  OBVIOUS
<1>2. /\ task[s].kind \in {"prepare", "grant"} /\ past' = past /\ task[s].phase \in {"lock", "moved"}
      /\ task'[s].phase = "save" /\ task'[s].kind = task[s].kind /\ task'[s].item.id = n
      /\ task[s].item.id = n /\ holder[k] = None /\ count' = count /\ saved' = saved
  BY <1>1 DEF Adding, Works
<1>3. \A x \in Slots \ {s} : Same(x)
  BY <1>1 DEF Works, Others
<1>4. \A l \in Ledgers : mem'.held[l] = IF l = k THEN Added(k, i) ELSE mem.held[l]
  BY <1>1 DEF Works, Typed, Memory
<1>5. Pending(s)
  BY <1>1, <1>2 DEF Pending, Works
<1>6. ~ Gone(n) /\ ~ Live(n) /\ \A x \in Slots : x # s => task[x].item.id # n
  BY <1>2, <1>5 DEF Places, NotYet
<1>7. \A id : Gone(id)' <=> Gone(id)
  <2>1. \A x \in Slots : \A id : task'[x].phase = "apply" /\ task'[x].item.id = id
            <=> task[x].phase = "apply" /\ task[x].item.id = id
    BY <1>2, <1>3 DEF Same
  <2> QED  BY <2>1, <1>2 DEF Gone, Used
<1>8. \A id : Live(id)' => Live(id) \/ id = n
  <2>1. \A l \in Ledgers : \A j \in mem'.held[l] : j = i \/ j \in mem.held[l]
    BY <1>4 DEF Added
  <2>2. \A x \in Slots : \A j \in task'[x].undo : j \in task[x].undo \/ j \in mem.held[k]
    BY <1>1, <1>2, <1>3 DEF Same
  <2> QED  BY <2>1, <2>2, <1>2 DEF Live, Held
<1>9. NoneLeft'
  BY <1>2, <1>6, <1>7, <1>8 DEF Places, NoneLeft
<1>10. AppliedOnce' /\ NothingTwice'
  BY <1>2, <1>3 DEF Places, AppliedOnce, NothingTwice, Same
<1>11. TakenOut'
  <2>1. ASSUME NEW x \in Slots, NEW kind, NEW id, task'[x].phase = "save", kind = task'[x].kind,
               id = task'[x].item.id, kind \in {"complete", "fill", "cancel", "revoke"}
        PROVE  /\ \A j \in mem'.held[LedgerOf(kind)] : j.id # id
               /\ kind \in {"complete", "fill"} => id \in Ids /\ ~ Gone(id)'
    <3>1. Same(x)
      BY <2>1, <1>2, <1>3
    <3>2. task[x].phase = "save" /\ task[x].kind = kind /\ task[x].item.id = id
      BY <2>1, <3>1 DEF Same
    <3>3. LedgerOf(kind) \in Ledgers /\ LedgerOf(kind) # k
      BY <3>2, <1>2, LedgersOfKinds DEF Locked
    <3>4. /\ \A j \in mem.held[LedgerOf(kind)] : j.id # id
          /\ kind \in {"complete", "fill"} => id \in Ids /\ ~ Gone(id)
      BY <2>1, <3>2 DEF Places, TakenOut, Held
    <3> QED  BY <3>3, <3>4, <1>4, <1>7
  <2> QED  BY <2>1, TakenOutNext
<1>12. NotYet'
  <2>1. ASSUME NEW x \in Slots, NEW id, Pending(x)', id = task'[x].item.id
        PROVE  ~ Gone(id)' /\ ~ Live(id)' /\ \A y \in Slots : y # x => task'[y].item.id # id
    <3>1. x # s /\ Same(x)
      BY <2>1, <1>2, <1>3 DEF Pending
    <3>2. Pending(x) /\ task[x].item.id = id
      BY <2>1, <3>1 DEF Same, Pending
    <3>3. ~ Gone(id) /\ ~ Live(id) /\ \A y \in Slots : y # x => task[y].item.id # id
      BY <3>2 DEF Places, NotYet
    <3>4. id # n
      BY <3>1, <3>3, <1>2
    <3> QED  BY <3>3, <3>4, <1>2, <1>3, <1>7, <1>8 DEF Same
  <2> QED  BY <2>1, NotYetNext
<1> QED  BY <1>9, <1>10, <1>11, <1>12 DEF Places

LEMMA PlacesOfConsuming ==
    ASSUME Typed, Locked, Places, NEW s \in Slots, Consuming(s)
    PROVE  Places'
<1> USE ConstantsAssumption DEF ConstantsAssumption
<1> PICK k \in Ledgers : k = LedgerOf(task[s].kind)
  BY LedgersOfKinds
<1>1. PICK i \in mem.held[k] :
        /\ Works(s, Removed(k, i.id)) /\ task'[s].item.id = i.id /\ task'[s].undo = task[s].undo
        /\ past' = IF i.id \in past.revoked THEN [past EXCEPT !.late = @ \cup {i.id}] ELSE past
  BY DEF Consuming
<1> PICK n : n = i.id
  OBVIOUS
<1>2. /\ task[s].kind \in {"complete", "fill"} /\ task[s].phase # "apply"
      /\ task'[s].phase = "save" /\ task'[s].kind = task[s].kind /\ task'[s].item.id = n
      /\ holder[k] = None /\ count' = count /\ saved' = saved
  BY <1>1 DEF Consuming, Works
<1>3. \A x \in Slots \ {s} : Same(x)
  BY <1>1 DEF Works, Others
<1>4. \A l \in Ledgers : mem'.held[l] = IF l = k THEN Removed(k, n) ELSE mem.held[l]
  BY <1>1 DEF Works, Typed, Memory
<1>5. n \in Ids
  BY DEF Typed, Memory, Item
<1>6. Live(n) /\ ~ Gone(n)
  <2>1. Live(n)
    BY DEF Live, Held
  <2> QED  BY <2>1, <1>5 DEF Places, NoneLeft
<1>p. past' = past
  BY <1>1, <1>6 DEF Gone
<1>7. \A id : Gone(id)' <=> Gone(id)
  <2>1. \A x \in Slots : \A id : task'[x].phase = "apply" /\ task'[x].item.id = id
            <=> task[x].phase = "apply" /\ task[x].item.id = id
    BY <1>2, <1>3 DEF Same
  <2> QED  BY <2>1, <1>p DEF Gone, Used
<1>8. \A id : Live(id)' => Live(id)
  <2>1. \A l \in Ledgers : \A j \in mem'.held[l] : j \in mem.held[l]
    BY <1>4 DEF Removed
  <2>2. \A x \in Slots : task'[x].undo = task[x].undo
    BY <1>1, <1>3 DEF Same
  <2> QED  BY <2>1, <2>2, <1>2 DEF Live, Held
<1>9. NoneLeft'
  BY <1>2, <1>p, <1>7, <1>8 DEF Places, NoneLeft
<1>10. AppliedOnce' /\ NothingTwice'
  BY <1>2, <1>3, <1>p DEF Places, AppliedOnce, NothingTwice, Same
<1>11. TakenOut'
  <2>1. ASSUME NEW x \in Slots, NEW kind, NEW id, task'[x].phase = "save", kind = task'[x].kind,
               id = task'[x].item.id, kind \in {"complete", "fill", "cancel", "revoke"}
        PROVE  /\ \A j \in mem'.held[LedgerOf(kind)] : j.id # id
               /\ kind \in {"complete", "fill"} => id \in Ids /\ ~ Gone(id)'
    <3>1. CASE x = s
      <4>1. LedgerOf(kind) = k /\ id = n /\ mem'.held[k] = Removed(k, n)
        BY <2>1, <3>1, <1>2, <1>4
      <4> QED  BY <4>1, <1>5, <1>6, <1>7 DEF Removed
    <3>2. CASE x # s
      <4>1. task[x].phase = "save" /\ task[x].kind = kind /\ task[x].item.id = id
        BY <2>1, <3>2, <1>3 DEF Same
      <4>2. LedgerOf(kind) \in Ledgers /\ LedgerOf(kind) # k
        BY <4>1, <1>2, LedgersOfKinds DEF Locked
      <4>3. /\ \A j \in mem.held[LedgerOf(kind)] : j.id # id
            /\ kind \in {"complete", "fill"} => id \in Ids /\ ~ Gone(id)
        BY <2>1, <4>1 DEF Places, TakenOut, Held
      <4> QED  BY <4>2, <4>3, <1>4, <1>7
    <3> QED  BY <3>1, <3>2
  <2> QED  BY <2>1, TakenOutNext
<1>12. NotYet'
  <2>1. ASSUME NEW x \in Slots, NEW id, Pending(x)', id = task'[x].item.id
        PROVE  ~ Gone(id)' /\ ~ Live(id)' /\ \A y \in Slots : y # x => task'[y].item.id # id
    <3>1. x # s /\ Same(x)
      BY <2>1, <1>2, <1>3 DEF Pending
    <3>2. Pending(x) /\ task[x].item.id = id
      BY <2>1, <3>1 DEF Same, Pending
    <3>3. ~ Gone(id) /\ ~ Live(id) /\ \A y \in Slots : y # x => task[y].item.id # id
      BY <3>2 DEF Places, NotYet
    <3> QED  BY <3>3, <1>2, <1>3, <1>6, <1>7, <1>8 DEF Same
  <2> QED  BY <2>1, NotYetNext
<1> QED  BY <1>9, <1>10, <1>11, <1>12 DEF Places

\* The end of a save: its credential is about to be applied, or is revoked.
LEMMA PlacesOfSaves ==
    ASSUME Typed, Filed, Locked, Homes, Places, \A x \in Slots : Fits(x), NEW s \in Slots, Saving(s),
           task[s].kind \in {"complete", "fill", "cancel", "revoke"}
    PROVE  Places'
<1> USE ConstantsAssumption DEF ConstantsAssumption
<1> PICK k \in Ledgers : k = LedgerOf(task[s].kind)
  BY LedgersOfKinds
<1> PICK n : n = task[s].item.id
  OBVIOUS
<1> PICK h \in [Nat -> Ledgers] : At(h)
  BY DEF Homes
<1>t. past \in History /\ count.tasks \in Nat /\ n \in Nat
  BY DEF Typed, Counts, Task, Bound
<1>1. /\ task[s].phase = "save" /\ mem' = mem /\ count' = count /\ holder[k] = s
      /\ \A x \in Slots \ {s} : Same(x)
  BY DEF Saving, Locked, Others
<1>2. saved'.held = [saved.held EXCEPT ![k] = mem.held[k]]
  BY DEF Saving
<1>3. \A l \in Ledgers : saved'.held[l] = IF l = k THEN mem.held[k] ELSE saved.held[l]
  BY <1>2 DEF Typed, Storage
<1>4. ~ Held(k, n) /\ (task[s].kind \in {"complete", "fill"} => n \in Ids /\ ~ Gone(n))
  BY <1>1 DEF Places, TakenOut
<1>5. task'[s].undo = {}
  <2>1. task[s].undo = {}
    BY DEF Filed
  <2> QED  BY <2>1, SlotsEnd DEF Saving, Goes
\* It is used or revoked, and what was gone still is.
<1>6. \/ /\ task[s].kind \in {"complete", "fill"} /\ past' = past
         /\ task'[s].phase = "apply" /\ task'[s].item.id = n
      \/ /\ task[s].kind \in {"cancel", "revoke"}
         /\ past'.revoked = past.revoked \cup {n} /\ past'.applied = past.applied
         /\ past'.again = past.again /\ past'.late = past.late
         /\ task'[s].phase = "idle" /\ task'[s].item.id = 0
  <2>1. CASE task[s].kind \in {"complete", "fill"}
    BY <2>1 DEF Saving, Goes
  <2>2. CASE task[s].kind \in {"cancel", "revoke"}
    <3>1. Over(s) /\ past' = [past EXCEPT !.revoked = @ \cup {n}]
      BY <2>2 DEF Saving
    <3>2. task'[s].phase = "idle" /\ task'[s].item.id = 0
      BY <3>1, SlotsEnd
    <3> QED  BY <2>2, <3>1, <3>2, <1>t DEF History
  <2> QED  BY <2>1, <2>2
<1>7. \A id : Gone(id)' => Gone(id) \/ id = n
  <2>1. \A x \in Slots : \A id : task'[x].phase = "apply" /\ task'[x].item.id = id
            => (task[x].phase = "apply" /\ task[x].item.id = id) \/ id = n
    BY <1>1, <1>6 DEF Same
  <2> QED  BY <2>1, <1>6 DEF Gone, Used
\* It is nowhere to be found any more.
<1>8. \A id : Live(id)' => Live(id)
  <2>1. \A x \in Slots : \A j \in task'[x].undo : j \in task[x].undo
    BY <1>1, <1>5 DEF Same
  <2> QED  BY <2>1, <1>1, <1>3 DEF Live, Held
<1>9. n # 0 => ~ Live(n)'
  <2> SUFFICES ASSUME n # 0 PROVE ~ Live(n)'
    OBVIOUS
  <2>1. h[n] = k
    BY DEF At
  <2>2. \A l \in Ledgers : \A j \in mem'.held[l] \cup saved'.held[l] : j.id # n
    <3>1. ASSUME NEW l \in Ledgers, NEW j \in mem'.held[l] \cup saved'.held[l], j.id = n
          PROVE  FALSE
      <4>1. CASE l = k
        BY <3>1, <4>1, <1>1, <1>3, <1>4 DEF Held
      <4>2. CASE l # k
        <5>1. j \in mem.held[l] \cup saved.held[l]
          BY <3>1, <4>2, <1>1, <1>3
        <5>2. h[j.id] = l
          BY <5>1 DEF At
        <5> QED  BY <2>1, <3>1, <4>2, <5>2
      <4> QED  BY <4>1, <4>2
    <3> QED  BY <3>1
  <2>3. \A x \in Slots : \A j \in task'[x].undo : j.id # n
    <3>1. ASSUME NEW x \in Slots, NEW j \in task'[x].undo, j.id = n
          PROVE  FALSE
      <4>1. x # s /\ j \in task[x].undo
        BY <3>1, <1>1, <1>5 DEF Same
      <4>2. h[n] = "permission" /\ task[x].kind = "grant" /\ task[x].phase = "save"
        BY <3>1, <4>1 DEF At, Filed
      <4>3. holder["permission"] = x
        BY <4>2 DEF Locked, LedgerOf
      <4> QED  BY <2>1, <4>1, <4>2, <4>3, <1>1
    <3> QED  BY <3>1
  <2> QED  BY <2>2, <2>3 DEF Live, Held
<1>10. NoneLeft'
  <2>1. \A id \in Ids : Live(id)' => ~ Gone(id)'
    BY <1>7, <1>8, <1>9 DEF Places, NoneLeft, Ids
  <2>2. past'.applied \cup past'.revoked \subseteq 0 .. count'.tasks
    <3>1. n <= count.tasks
      BY DEF At
    <3>2. n \in 0 .. count.tasks
      BY <3>1, <1>t
    <3> QED  BY <3>2, <1>1, <1>6 DEF Places, NoneLeft
  <2> QED  BY <2>1, <2>2 DEF NoneLeft
<1>11. AppliedOnce'
  <2>1. past'.applied = past.applied
    BY <1>6
  <2>2. \A x \in Slots \ {s} : task'[x].phase = "apply" =>
           task[x].phase = "apply" /\ task'[x].item.id = task[x].item.id
    BY <1>1 DEF Same
  <2>3. task'[s].phase = "apply" =>
           /\ task'[s].item.id = n /\ n \notin past.applied
           /\ \A x \in Slots : task[x].phase = "apply" => task[x].item.id # n
    BY <1>4, <1>6 DEF Gone, Used
  <2> QED  BY <2>1, <2>2, <2>3 DEF Places, AppliedOnce
<1>12. NothingTwice'
  BY <1>6 DEF Places, NothingTwice
<1>13. TakenOut'
  <2>1. ASSUME NEW x \in Slots, NEW kind, NEW id, task'[x].phase = "save", kind = task'[x].kind,
               id = task'[x].item.id, kind \in {"complete", "fill", "cancel", "revoke"}
        PROVE  /\ \A j \in mem'.held[LedgerOf(kind)] : j.id # id
               /\ kind \in {"complete", "fill"} => id \in Ids /\ ~ Gone(id)'
    <3>1. x # s
      BY <2>1, <1>6
    <3>2. task[x].phase = "save" /\ task[x].kind = kind /\ task[x].item.id = id
      BY <2>1, <3>1, <1>1 DEF Same
    <3>3. LedgerOf(kind) # k
      BY <3>1, <3>2, <1>1 DEF Locked
    <3>4. /\ \A j \in mem.held[LedgerOf(kind)] : j.id # id
          /\ kind \in {"complete", "fill"} => id \in Ids /\ ~ Gone(id)
      BY <2>1, <3>2 DEF Places, TakenOut, Held
    <3>5. id # 0 => id # n
      BY <3>2, <3>3 DEF At
    <3> QED  BY <3>4, <3>5, <1>1, <1>7 DEF Ids
  <2> QED  BY <2>1, TakenOutNext
<1>14. NotYet'
  <2>1. ASSUME NEW x \in Slots, NEW id, Pending(x)', id = task'[x].item.id
        PROVE  ~ Gone(id)' /\ ~ Live(id)' /\ \A y \in Slots : y # x => task'[y].item.id # id
    <3>1. x # s
      <4>1. task'[s].phase = "idle" \/ task'[s].kind \in {"complete", "fill"}
        BY <1>6 DEF Saving, Goes
      <4> QED  BY <4>1, <2>1 DEF Pending
    <3>2. Pending(x) /\ task[x].item.id = id
      BY <2>1, <3>1, <1>1 DEF Same, Pending
    <3>3. ~ Gone(id) /\ ~ Live(id) /\ \A y \in Slots : y # x => task[y].item.id # id
      BY <3>2 DEF Places, NotYet
    <3>4. id # n /\ id # 0
      BY <3>1, <3>2, <3>3 DEF Fits, Pending, Ids
    <3> QED  BY <3>3, <3>4, <1>1, <1>6, <1>7, <1>8 DEF Same
  <2> QED  BY <2>1, NotYetNext
<1> QED  BY <1>10, <1>11, <1>12, <1>13, <1>14 DEF Places

LEMMA PlacesHold ==
    ASSUME Typed, Typed', Filed, Locked, Homes, Places, \A x \in Slots : Fits(x) /\ Fits(x)', Effect
    PROVE  Places'
<1>1. CASE Still
  BY <1>1, PlacesOfQuiet, ConstantsAssumption DEF ConstantsAssumption
<1>2. CASE Kill
  BY <1>2, PlacesOfKill
<1>3. ASSUME NEW s \in Slots,
             \/ Calm(s) \/ Begins(s) \/ Locks(s) \/ Loads(s) \/ Revoking(s) \/ Sweeping(s)
             \/ Saving(s) \/ Failing(s) \/ Applying(s)
      PROVE  Places'
  BY <1>3, PlacesOfQuiet, PlacesOfFresh, PlacesOfSaves
<1> QED  BY <1>1, <1>2, <1>3, PlacesOfAdding, PlacesOfConsuming DEF Effect

-----------------------------------------------------------------------------
(* The queues.  A slot that moves on in its place, one that leaves, and one   *)
(* that comes.                                                                *)

\* A step that leaves the queue of a tab as it is; only the first moves on.
LEMMA QueueStays ==
    ASSUME Typed, NEW r \in [Slots -> Nat], NEW t \in Tabs, Ordered(r, t), tail'[t] = tail[t],
           \A x \in Slots :
              /\ (task'[x].kind \in Queued /\ task'[x].phase \notin {"idle", "list"} /\ task'[x].tab = t)
                    <=> Waits(x, t)
              /\ Waits(x, t) => /\ task'[x].after = task[x].after
                                /\ task'[x].phase # "queued" =>
                                      task[x].phase # "queued" \/ task[x].after = None
    PROVE  Ordered(r, t)'
<1>1. \A x \in Slots : Waits(x, t)' <=> Waits(x, t)
  BY DEF Waits
<1>2. (tail[t] # None => Waits(tail[t], t))'
  <2> PICK a : a = tail[t]
    OBVIOUS
  <2>1. a # None => a \in Slots /\ Waits(a, t)
    BY DEF Ordered, Typed
  <2>2. a # None => Waits(a, t)'
    BY <2>1, <1>1
  <2>3. Waits(tail[t], t)' <=> Waits(a, t)'
    BY DEF Waits
  <2> QED  BY <2>2, <2>3
<1>3. ASSUME NEW x \in Slots, Waits(x, t)
      PROVE  /\ task'[x].phase # "queued" => task'[x].after = None
             /\ task'[x].after = None => \A y \in Slots : Waits(y, t)' => r[x] <= r[y]
             /\ task'[x].after # None =>
                   /\ Waits(task[x].after, t)' /\ r[task'[x].after] < r[x]
                   /\ \A y \in Slots : Waits(y, t)' /\ r[y] < r[x] => r[y] <= r[task'[x].after]
             /\ tail'[t] # None /\ r[x] <= r[tail'[t]]
  <2> PICK a : a = task[x].after
    OBVIOUS
  <2>1. task'[x].after = a /\ (task'[x].phase # "queued" => task[x].phase # "queued" \/ a = None)
    BY <1>3
  <2>2. /\ task[x].phase # "queued" => a = None
        /\ a = None => \A y \in Slots : Waits(y, t) => r[x] <= r[y]
        /\ a # None => /\ Waits(a, t) /\ r[a] < r[x]
                       /\ \A y \in Slots : Waits(y, t) /\ r[y] < r[x] => r[y] <= r[a]
        /\ tail[t] # None /\ r[x] <= r[tail[t]]
    BY <1>3 DEF Ordered
  <2>3. a # None => Waits(a, t)'
    <3>1. a # None => a \in Slots
      BY <1>3 DEF Typed, Task
    <3> QED  BY <3>1, <2>2, <1>1
  <2>4. Waits(task[x].after, t)' <=> Waits(a, t)'
    BY <2>1 DEF Waits
  <2> QED  BY <1>1, <2>1, <2>2, <2>3, <2>4
<1>4. \A x, y \in Slots : Waits(x, t)' /\ Waits(y, t)' /\ r[x] = r[y] => x = y
  BY <1>1 DEF Ordered
<1>5. \A x \in Slots : Waits(x, t)' =>
        /\ task'[x].phase # "queued" => task'[x].after = None
        /\ task'[x].after = None => \A y \in Slots : Waits(y, t)' => r[x] <= r[y]
        /\ task'[x].after # None =>
              /\ Waits(task[x].after, t)' /\ r[task'[x].after] < r[x]
              /\ \A y \in Slots : Waits(y, t)' /\ r[y] < r[x] => r[y] <= r[task'[x].after]
        /\ tail'[t] # None /\ r[x] <= r[tail'[t]]
  BY <1>1, <1>3
<1> QED  BY <1>2, <1>4, <1>5 DEF Ordered

\* The first of the queue leaves it, or one that is not in it ends.
LEMMA QueueLeft ==
    ASSUME Typed, NEW r \in [Slots -> Nat], NEW t \in Tabs, Ordered(r, t), NEW s \in Slots, Fits(s),
           Done(s), task[s].phase # "idle", task[s].phase # "queued" \/ task[s].after = None
    PROVE  Ordered(r, t)'
<1> USE ConstantsAssumption DEF ConstantsAssumption
<1>1. /\ task'[s] = Idle
      /\ \A x \in Slots \ {s} : task'[x] = IF task[x].after = s THEN [task[x] EXCEPT !.after = None]
                                           ELSE task[x]
  BY DEF Done
<1>2. \A x \in Slots \ {s} :
        /\ task'[x].kind = task[x].kind /\ task'[x].phase = task[x].phase /\ task'[x].tab = task[x].tab
        /\ task'[x].after = IF task[x].after = s THEN None ELSE task[x].after
  BY <1>1 DEF Typed, Task
<1>3. \A x \in Slots : Waits(x, t)' <=> Waits(x, t) /\ x # s
  <2>1. ~ Waits(s, t)'
    BY <1>1 DEF Waits, Idle
  <2>2. \A x \in Slots \ {s} : Waits(x, t)' <=> Waits(x, t)
    BY <1>2 DEF Waits
  <2> QED  BY <2>1, <2>2
<1>r. \A x \in Slots : r[x] \in Nat
  OBVIOUS
<1>4. CASE Waits(s, t)
  <2>1. task[s].after = None /\ \A x \in Slots : Waits(x, t) => r[s] <= r[x]
    BY <1>4 DEF Ordered
  <2>2. tail'[t] = IF tail[t] = s THEN None ELSE tail[t]
    BY <1>4 DEF Done, Waits, TailAfter, Typed
  <2>3. \A x, y \in Slots : Waits(x, t) /\ Waits(y, t) /\ r[x] = r[y] => x = y
    BY DEF Ordered
  <2>4. tail'[t] # None => Waits(tail[t], t)' /\ tail'[t] = tail[t]
    BY <1>3, <2>2 DEF Ordered, Typed
  <2>5. ASSUME NEW x \in Slots, Waits(x, t), x # s
        PROVE  /\ task'[x].phase # "queued" => task'[x].after = None
               /\ task'[x].after = None => \A y \in Slots : Waits(y, t)' => r[x] <= r[y]
               /\ task'[x].after # None =>
                     /\ task'[x].after \in Slots /\ Waits(task'[x].after, t) /\ task'[x].after # s
                     /\ r[task'[x].after] < r[x]
                     /\ \A y \in Slots : Waits(y, t)' /\ r[y] < r[x] => r[y] <= r[task'[x].after]
               /\ tail'[t] # None /\ r[x] <= r[tail'[t]]
    <3>1. task'[x].phase # "queued" => task'[x].after = None
      BY <1>2, <2>5 DEF Ordered
    <3>2. CASE task[x].after = s
      <4>1. task'[x].after = None
        BY <1>2, <2>5, <3>2
      <4>2. \A y \in Slots : Waits(y, t) /\ r[y] < r[x] => r[y] <= r[s]
        BY <2>5, <3>2 DEF Ordered
      <4>3. ASSUME NEW y \in Slots, Waits(y, t), y # s PROVE r[x] <= r[y]
        <5>1. r[s] <= r[y] /\ r[y] # r[s]
          BY <1>4, <2>1, <2>3, <4>3
        <5> QED  BY <1>r, <4>2, <4>3, <5>1
      <4>4. tail[t] # s
        <5>1. r[x] <= r[tail[t]] /\ r[s] <= r[x] /\ r[s] # r[x]
          BY <1>4, <2>1, <2>3, <2>5 DEF Ordered
        <5> QED  BY <5>1, <1>r
      <4>5. tail[t] # None /\ r[x] <= r[tail[t]]
        BY <2>5 DEF Ordered
      <4> QED  BY <1>3, <2>2, <3>1, <4>1, <4>3, <4>4, <4>5
    <3>3. CASE task[x].after = None
      <4>1. r[x] <= r[s] /\ r[s] <= r[x]
        BY <1>4, <2>1, <2>5, <3>3 DEF Ordered
      <4>2. r[x] = r[s]
        BY <4>1, <1>r
      <4> QED  BY <4>2, <1>4, <2>3, <2>5
    <3>4. CASE task[x].after \notin {s, None}
      <4> PICK a : a = task[x].after
        OBVIOUS
      <4>1. task'[x].after = a /\ a # None /\ a # s /\ a \in Slots
        BY <1>2, <2>5, <3>4 DEF Typed, Task
      <4>2. /\ Waits(a, t) /\ r[a] < r[x]
            /\ \A y \in Slots : Waits(y, t) /\ r[y] < r[x] => r[y] <= r[a]
        BY <2>5, <4>1 DEF Ordered
      <4>3. tail[t] # s
        <5>1. r[x] <= r[tail[t]] /\ r[s] <= r[x] /\ r[s] # r[x]
          BY <1>4, <2>1, <2>3, <2>5 DEF Ordered
        <5> QED  BY <5>1, <1>r
      <4>4. tail[t] # None /\ r[x] <= r[tail[t]]
        BY <2>5 DEF Ordered
      <4> QED  BY <1>3, <2>2, <3>1, <4>1, <4>2, <4>3, <4>4
    <3> QED  BY <3>2, <3>3, <3>4
  <2>6. \A x \in Slots : Waits(x, t)' =>
          /\ task'[x].phase # "queued" => task'[x].after = None
          /\ task'[x].after = None => \A y \in Slots : Waits(y, t)' => r[x] <= r[y]
          /\ task'[x].after # None =>
                /\ Waits(task[x].after, t)' /\ r[task'[x].after] < r[x]
                /\ \A y \in Slots : Waits(y, t)' /\ r[y] < r[x] => r[y] <= r[task'[x].after]
          /\ tail'[t] # None /\ r[x] <= r[tail'[t]]
    <3> SUFFICES ASSUME NEW x \in Slots, Waits(x, t)'
                 PROVE  /\ task'[x].phase # "queued" => task'[x].after = None
                        /\ task'[x].after = None => \A y \in Slots : Waits(y, t)' => r[x] <= r[y]
                        /\ task'[x].after # None =>
                              /\ Waits(task[x].after, t)' /\ r[task'[x].after] < r[x]
                              /\ \A y \in Slots : Waits(y, t)' /\ r[y] < r[x] => r[y] <= r[task'[x].after]
                        /\ tail'[t] # None /\ r[x] <= r[tail'[t]]
      OBVIOUS
    <3>1. Waits(x, t) /\ x # s
      BY <1>3
    <3>2. ASSUME task'[x].after # None PROVE Waits(task[x].after, t)'
      <4> PICK a : a = task'[x].after
        OBVIOUS
      <4>1. a \in Slots /\ Waits(a, t) /\ a # s
        BY <2>5, <3>1, <3>2
      <4>2. Waits(a, t)'
        BY <4>1, <1>3
      <4> QED  BY <4>2 DEF Waits
    <3> QED  BY <2>5, <3>1, <3>2
  <2>7. \A x, y \in Slots : Waits(x, t)' /\ Waits(y, t)' /\ r[x] = r[y] => x = y
    BY <1>3, <2>3
  <2>8. tail'[t] # None => Waits(tail[t], t)'
    BY <2>4
  <2>9. (tail[t] # None => Waits(tail[t], t))'
    BY <2>2, <2>8, <1>3 DEF Waits, Ordered, Typed
  <2> QED  BY <2>6, <2>7, <2>9 DEF Ordered
<1>5. CASE ~ Waits(s, t)
  <2>1. \A x \in Slots : Waits(x, t) => task[x].after # s /\ x # s
    BY <1>5 DEF Ordered
  <2>2. \A x \in Slots : Waits(x, t)' <=> Waits(x, t)
    BY <1>3, <1>5
  <2>3. \A x \in Slots : Waits(x, t) => task'[x].after = task[x].after /\ task'[x].phase = task[x].phase
    BY <2>1, <1>2
  <2>4. tail'[t] = tail[t]
    <3>1. task[s].kind \in Queued /\ task[s].phase # "list" => task[s].tab # t
      BY <1>5 DEF Waits
    <3> QED  BY <3>1 DEF Done, Typed
  <2>5. \A x \in Slots :
              /\ (task'[x].kind \in Queued /\ task'[x].phase \notin {"idle", "list"} /\ task'[x].tab = t)
                    <=> Waits(x, t)
              /\ Waits(x, t) => /\ task'[x].after = task[x].after
                                /\ task'[x].phase # "queued" =>
                                      task[x].phase # "queued" \/ task[x].after = None
    BY <2>2, <2>3 DEF Waits
  <2> QED  BY <2>4, <2>5, QueueStays
<1> QED  BY <1>4, <1>5

\* A request comes to the end of its queue, with a number above all others.
LEMMA QueueJoined ==
    ASSUME Typed, Queues, NEW s \in Slots, NEW k \in Task, k.tab \in Tabs, k.kind \in Queued,
           task[s].phase \in {"idle", "list"}, Enqueued(s, k), tab' = tab
    PROVE  Queues'
<1> USE ConstantsAssumption DEF ConstantsAssumption
<1> PICK r \in [Slots -> Nat] : \A t \in Tabs : tab[t].open => Ordered(r, t)
  BY DEF Queues
<1> PICK last \in Slots \cup {None} : last = tail[k.tab]
  BY DEF Typed
<1> PICK n \in Nat : n = IF last = None THEN 0 ELSE r[last] + 1
  OBVIOUS
<1> PICK g \in [Slots -> Nat] : g = [r EXCEPT ![s] = n]
  OBVIOUS
<1>1. /\ \A x \in Slots \ {s} : task'[x] = task[x]
      /\ task'[s].kind = k.kind /\ task'[s].tab = k.tab /\ task'[s].phase = "queued"
      /\ task'[s].after = last
      /\ tail' = [tail EXCEPT ![k.tab] = s]
  BY DEF Enqueued, Typed, Task
<1>2. g[s] = n /\ \A x \in Slots \ {s} : g[x] = r[x]
  OBVIOUS
<1>3. \A t \in Tabs : ~ Waits(s, t)
  BY DEF Waits
<1>4. \A t \in Tabs, x \in Slots : Waits(x, t)' <=> Waits(x, t) \/ (x = s /\ t = k.tab)
  <2>1. \A t \in Tabs : Waits(s, t)' <=> t = k.tab
    BY <1>1 DEF Waits
  <2>2. \A t \in Tabs, x \in Slots \ {s} : Waits(x, t)' <=> Waits(x, t)
    BY <1>1 DEF Waits
  <2> QED  BY <1>3, <2>1, <2>2
\* Elsewhere the numbers of those who wait are the same.
<1>5. ASSUME NEW t \in Tabs, t # k.tab, Ordered(r, t)
      PROVE  Ordered(g, t)'
  <2>1. Ordered(g, t)
    <3>1. \A x \in Slots : Waits(x, t) => g[x] = r[x]
      BY <1>2, <1>3
    <3>2. tail[t] # None => tail[t] \in Slots
      BY DEF Typed
    <3>3. \A x \in Slots : Waits(x, t) /\ task[x].after # None =>
            task[x].after \in Slots /\ Waits(task[x].after, t)
      BY <1>5 DEF Ordered, Typed, Task
    <3> QED  BY <1>5, <3>1, <3>2, <3>3 DEF Ordered
  <2>2. tail'[t] = tail[t]
    BY <1>1, <1>5 DEF Typed
  <2>3. \A x \in Slots :
              /\ (task'[x].kind \in Queued /\ task'[x].phase \notin {"idle", "list"} /\ task'[x].tab = t)
                    <=> Waits(x, t)
              /\ Waits(x, t) => /\ task'[x].after = task[x].after
                                /\ task'[x].phase # "queued" =>
                                      task[x].phase # "queued" \/ task[x].after = None
    BY <1>1, <1>3, <1>5 DEF Waits
  <2> QED  BY <2>1, <2>2, <2>3, QueueStays
<1>6. ASSUME Ordered(r, k.tab)
      PROVE  Ordered(g, k.tab)'
  <2> PICK t \in Tabs : t = k.tab
    OBVIOUS
  <2>0. \A x \in Slots : r[x] \in Nat /\ g[x] \in Nat
    OBVIOUS
  <2>1. \A x \in Slots : Waits(x, t)' <=> Waits(x, t) \/ x = s
    BY <1>4
  <2>2. \A x \in Slots : Waits(x, t) => last # None /\ r[x] <= r[last]
    BY <1>6 DEF Ordered
  <2>3. \A x \in Slots : Waits(x, t) => x # s /\ g[x] = r[x] /\ g[x] < n
    <3>1. ASSUME NEW x \in Slots, Waits(x, t) PROVE g[x] < n
      <4>1. last \in Slots /\ r[x] <= r[last] /\ g[x] = r[x] /\ n = r[last] + 1
        BY <2>2, <3>1, <1>2, <1>3
      <4> QED  BY <4>1, <2>0
    <3> QED  BY <3>1, <1>2, <1>3
  <2>4. last # None => last \in Slots /\ Waits(last, t)
    BY <1>6 DEF Ordered
  <2>5. tail'[t] = s
    BY <1>1 DEF Typed
  <2>6. ASSUME NEW x \in Slots, NEW y \in Slots, Waits(x, t)', Waits(y, t)', g[x] = g[y]
        PROVE  x = y
    <3>1. (Waits(x, t) \/ x = s) /\ (Waits(y, t) \/ y = s)
      BY <2>1, <2>6
    <3>2. CASE Waits(x, t) /\ Waits(y, t)
      BY <3>2, <2>3, <2>6, <1>6 DEF Ordered
    <3>3. CASE x = s \/ y = s
      BY <3>1, <3>3, <2>0, <2>3, <2>6, <1>2
    <3> QED  BY <3>1, <3>2, <3>3
  <2>7. (tail[t] # None => Waits(tail[t], t))'
    <3>1. Waits(s, t)'
      BY <2>1
    <3>2. Waits(tail[t], t)' <=> Waits(s, t)'
      BY <2>5 DEF Waits
    <3> QED  BY <3>1, <3>2
  <2>8. ASSUME NEW x \in Slots, Waits(x, t)'
        PROVE  /\ task'[x].phase # "queued" => task'[x].after = None
               /\ task'[x].after = None => \A y \in Slots : Waits(y, t)' => g[x] <= g[y]
               /\ task'[x].after # None =>
                     /\ Waits(task[x].after, t)' /\ g[task'[x].after] < g[x]
                     /\ \A y \in Slots : Waits(y, t)' /\ g[y] < g[x] => g[y] <= g[task'[x].after]
               /\ tail'[t] # None /\ g[x] <= g[tail'[t]]
    <3> PICK a : a = task'[x].after
      OBVIOUS
    <3>a. Waits(task[x].after, t)' <=> Waits(a, t)'
      BY DEF Waits
    <3>1. CASE x = s
      <4>1. a = last /\ task'[x].phase = "queued"
        BY <1>1, <3>1
      <4>2. last = None => \A y \in Slots : Waits(y, t)' => y = s
        BY <2>1, <2>2
      <4>3. last # None => /\ Waits(last, t)' /\ g[last] = r[last] /\ g[last] < n
                           /\ \A y \in Slots : Waits(y, t)' /\ g[y] < n => g[y] <= g[last]
        <5> SUFFICES ASSUME last # None
                     PROVE  /\ Waits(last, t)' /\ g[last] = r[last] /\ g[last] < n
                            /\ \A y \in Slots : Waits(y, t)' /\ g[y] < n => g[y] <= g[last]
          OBVIOUS
        <5>1. Waits(last, t)' /\ g[last] = r[last] /\ g[last] < n
          BY <2>1, <2>3, <2>4
        <5>2. ASSUME NEW y \in Slots, Waits(y, t)', g[y] < n PROVE g[y] <= g[last]
          <6>1. y # s
            BY <5>2, <1>2, <2>0
          <6>2. Waits(y, t) /\ r[y] <= r[last] /\ g[y] = r[y]
            BY <5>2, <6>1, <2>1, <2>2, <2>3
          <6> QED  BY <5>1, <6>2
        <5> QED  BY <5>1, <5>2
      <4> QED  BY <3>1, <3>a, <4>1, <4>2, <4>3, <2>0, <2>5, <1>2
    <3>2. CASE x # s
      <4>1. Waits(x, t) /\ task'[x] = task[x]
        BY <2>1, <2>8, <3>2, <1>1
      <4>2. /\ task[x].phase # "queued" => a = None
            /\ a = None => \A y \in Slots : Waits(y, t) => r[x] <= r[y]
            /\ a # None => /\ Waits(a, t) /\ r[a] < r[x]
                           /\ \A y \in Slots : Waits(y, t) /\ r[y] < r[x] => r[y] <= r[a]
        BY <4>1, <1>6 DEF Ordered
      <4>3. a = None => \A y \in Slots : Waits(y, t)' => g[x] <= g[y]
        <5>1. ASSUME a = None, NEW y \in Slots, Waits(y, t)' PROVE g[x] <= g[y]
          <6>1. CASE y = s
            BY <6>1, <4>1, <2>0, <2>3, <1>2
          <6>2. CASE y # s
            BY <5>1, <6>2, <4>1, <4>2, <2>1, <2>3
          <6> QED  BY <6>1, <6>2
        <5> QED  BY <5>1
      <4>4. ASSUME a # None
            PROVE  /\ Waits(a, t)' /\ g[a] < g[x]
                   /\ \A y \in Slots : Waits(y, t)' /\ g[y] < g[x] => g[y] <= g[a]
        <5>1. a \in Slots /\ Waits(a, t) /\ g[a] = r[a] /\ g[x] = r[x]
          BY <4>1, <4>2, <4>4, <2>3 DEF Typed, Task
        <5>2. ASSUME NEW y \in Slots, Waits(y, t)', g[y] < g[x] PROVE g[y] <= g[a]
          <6>1. y # s
            <7>1. g[x] < n
              BY <4>1, <2>3
            <7> QED  BY <7>1, <5>2, <2>0, <1>2
          <6>2. Waits(y, t) /\ g[y] = r[y]
            BY <5>2, <6>1, <2>1, <2>3
          <6> QED  BY <4>2, <4>4, <5>1, <5>2, <6>2
        <5> QED  BY <5>1, <5>2, <4>2, <4>4, <2>1
      <4>5. tail'[t] # None /\ g[x] <= g[tail'[t]]
        BY <4>1, <2>0, <2>3, <2>5, <1>2
      <4> QED  BY <3>a, <4>1, <4>2, <4>3, <4>4, <4>5
    <3> QED  BY <3>1, <3>2
  <2>9. Ordered(g, t)'
    BY <2>6, <2>7, <2>8 DEF Ordered
  <2> QED  BY <2>9 DEF Ordered, Waits
<1>7. \A t \in Tabs : (tab[t].open => Ordered(g, t))'
  <2>1. ASSUME NEW t \in Tabs, tab'[t].open PROVE Ordered(g, t)'
    <3>1. Ordered(r, t)
      BY <2>1
    <3>2. CASE t = k.tab
      <4>1. Ordered(g, k.tab)'
        BY <3>1, <3>2, <1>6
      <4> QED  BY <3>2, <4>1 DEF Ordered, Waits
    <3> QED  BY <3>1, <3>2, <1>5
  <2> QED  BY <2>1
<1> QED  BY <1>7 DEF Queues

\* What a step does to all the queues.
LEMMA QueuesStay ==
    ASSUME Typed, Queues, \A t \in Tabs : tab'[t].open => tab[t].open /\ tail'[t] = tail[t],
           \A x \in Slots :
              \/ task'[x] = task[x]
              \/ /\ task[x].kind \notin Queued \/ task[x].phase \in {"idle", "list"}
                 /\ task'[x].kind \notin Queued \/ task'[x].phase \in {"idle", "list"}
              \/ /\ task'[x].kind = task[x].kind /\ task'[x].tab = task[x].tab
                 /\ task[x].phase \notin {"idle", "list"} /\ task'[x].phase \notin {"idle", "list"}
                 /\ task'[x].after = task[x].after
                 /\ task[x].phase # "queued" \/ task[x].after = None
    PROVE  Queues'
<1> PICK r \in [Slots -> Nat] : \A t \in Tabs : tab[t].open => Ordered(r, t)
  BY DEF Queues
<1>1. ASSUME NEW t \in Tabs, tab'[t].open PROVE Ordered(r, t)'
  <2>1. \A x \in Slots :
           /\ (task'[x].kind \in Queued /\ task'[x].phase \notin {"idle", "list"} /\ task'[x].tab = t)
                    <=> Waits(x, t)
           /\ Waits(x, t) => /\ task'[x].after = task[x].after
                             /\ task'[x].phase # "queued" =>
                                      task[x].phase # "queued" \/ task[x].after = None
    BY DEF Waits
  <2> QED  BY <1>1, <2>1, QueueStays
<1>2. \A t \in Tabs : (tab[t].open => Ordered(r, t))'
  BY <1>1
<1> QED  BY <1>2 DEF Queues

LEMMA QueuesLeft ==
    ASSUME Typed, Queues, NEW s \in Slots, Fits(s), Done(s), tab' = tab, task[s].phase # "idle",
           task[s].phase # "queued" \/ task[s].after = None
    PROVE  Queues'
<1> PICK r \in [Slots -> Nat] : \A t \in Tabs : tab[t].open => Ordered(r, t)
  BY DEF Queues
<1>1. ASSUME NEW t \in Tabs, tab'[t].open PROVE Ordered(r, t)'
  BY <1>1, QueueLeft
<1>2. \A t \in Tabs : (tab[t].open => Ordered(r, t))'
  BY <1>1
<1> QED  BY <1>2 DEF Queues

\* A slot goes on.
LEMMA QueuesGo ==
    ASSUME Typed, Queues, NEW s \in Slots, tab' = tab, tail' = tail,
           \A x \in Slots \ {s} : task'[x] = task[x],
           task'[s].kind = task[s].kind, task'[s].tab = task[s].tab, task'[s].after = task[s].after,
           task[s].phase \notin {"idle", "list"}, task'[s].phase \notin {"idle", "list"},
           task[s].phase # "queued" \/ task[s].after = None
    PROVE  Queues'
BY QueuesStay

LEMMA QueuesGoTo ==
    ASSUME Typed, Queues, NEW s \in Slots, tab' = tab, tail' = tail, NEW phase, Go(s, phase),
           task[s].phase \notin {"idle", "list"}, phase \notin {"idle", "list"},
           task[s].phase # "queued" \/ task[s].after = None
    PROVE  Queues'
<1>1. /\ \A x \in Slots \ {s} : task'[x] = task[x]
      /\ task'[s].kind = task[s].kind /\ task'[s].tab = task[s].tab /\ task'[s].after = task[s].after
      /\ task'[s].phase = phase
  BY DEF Go, Typed, Task
<1> QED  BY <1>1, QueuesGo

LEMMA QueuesOfSlots ==
    ASSUME Typed, Filed, Locked, Queues, NEW s \in Slots, Fits(s),
           Request(s) \/ Choose(s) \/ ApprovedCommand(s) \/ Steps(s) \/ StorageFails(s)
    PROVE  Queues'
<1> USE ConstantsAssumption DEF ConstantsAssumption
<1>1. CASE Request(s) \/ Choose(s) \/ ApprovedCommand(s)
  <2>1. PICK r \in Task : /\ Comes(s, r) /\ r.kind \in AllKinds
                          /\ r.kind \notin {"cancel", "revoke"} => r.tab \in Tabs
    BY <1>1, Requested
  <2>2. tab' = tab /\ task[s].phase = "idle" /\ task'[s].kind = r.kind /\ task'[s].phase = First(r.kind)
    BY <2>1, ComesEffect
  <2>3. CASE r.kind \in Queued \ {"complete"}
    <3>1. Enqueued(s, r) /\ r.tab \in Tabs
      BY <2>1, <2>3 DEF Comes, Queued
    <3> QED  BY <2>2, <2>3, <3>1, QueueJoined
  <2>4. CASE r.kind \notin Queued \ {"complete"}
    <3>1. task' = [task EXCEPT ![s] = [r EXCEPT !.phase = First(r.kind)]] /\ tail' = tail
      BY <2>1, <2>4 DEF Comes
    <3>2. \A x \in Slots \ {s} : task'[x] = task[x]
      BY <3>1 DEF Typed
    <3>3. task'[s].kind \notin Queued \/ task'[s].phase = "list"
      <4>1. r.kind = "complete" => First(r.kind) = "list"
        BY DEF First, Queued, Reading
      <4> QED  BY <2>2, <2>4, <4>1
    <3> QED  BY <2>2, <3>1, <3>2, <3>3, QueuesStay
  <2> QED  BY <2>3, <2>4
<1>2. CASE Guards(s)
  <2>1. task[s].phase = "queued" /\ task[s].after = None /\ tab' = tab
        /\ (Done(s) \/ (Go(s, "probe") /\ tail' = tail))
    BY <1>2 DEF Guards
  <2> QED  BY <2>1, QueuesLeft, QueuesGoTo
<1>3. CASE Probes(s)
  <2>1. task[s].phase = "probe" /\ tab' = tab
        /\ \/ Done(s)
           \/ Go(s, Cleared(s)) /\ tail' = tail /\ task[s].kind \notin {"resume", "read"}
    BY <1>3 DEF Probes
  <2>2. task[s].kind \notin {"resume", "read"} => Cleared(s) \in {"apply", "bind", "lock"}
    BY <2>1 DEF Cleared, Fits, Queued, Reading
  <2>3. CASE Done(s)
    BY <2>1, <2>3, QueuesLeft
  <2>4. CASE ~ Done(s)
    BY <2>1, <2>2, <2>4, QueuesGoTo
  <2> QED  BY <2>3, <2>4
<1>4. CASE Binds(s)
  <2>1. CASE Done(s)
    BY <1>4, <2>1, QueuesLeft DEF Binds
  <2>2. CASE ~ Done(s)
    <3> PICK i : i = [task[s].item EXCEPT !.epoch = tab[task[s].tab].epoch,
                        !.key = IF task[s].kind = "prepare" THEN task[s].tab ELSE SiteOf[task[s].tab]]
      OBVIOUS
    <3>1. /\ task[s].phase = "bind" /\ tab' = tab /\ tail' = tail
          /\ task' = [task EXCEPT ![s] = [task[s] EXCEPT !.phase = "lock", !.item = i]]
      BY <1>4, <2>2 DEF Binds
    <3>2. /\ \A x \in Slots \ {s} : task'[x] = task[x]
          /\ task'[s].kind = task[s].kind /\ task'[s].tab = task[s].tab
          /\ task'[s].after = task[s].after /\ task'[s].phase = "lock"
      BY <3>1 DEF Typed, Task
    <3> QED  BY <3>1, <3>2, QueuesGo
  <2> QED  BY <2>1, <2>2
<1>5. CASE Locks(s) \/ Loads(s)
  BY <1>5, QueuesStay DEF Locks, Loads
<1>6. CASE Previews(s)
  <2>1. task[s].phase = "list" /\ tab' = tab /\ (Done(s) \/ Enqueued(s, task[s]))
    BY <1>6 DEF Previews, CanWork
  <2>2. CASE Done(s)
    BY <2>1, <2>2, QueuesLeft
  <2>3. CASE Enqueued(s, task[s])
    <3> PICK k \in Task : k = task[s]
      BY DEF Typed
    <3>1. k.kind \in Queued /\ k.tab \in Tabs
      BY <2>1 DEF Fits, Queued
    <3>2. Enqueued(s, k)
      BY <2>3
    <3> QED  BY <2>1, <3>1, <3>2, QueueJoined
  <2> QED  BY <2>1, <2>2, <2>3
<1>7. CASE Adds(s)
  <2>1. CASE Done(s)
    BY <1>7, <2>1, QueuesLeft DEF Adds, CanWork
  <2>2. CASE ~ Done(s)
    <3> PICK i : i = IF task[s].kind = "prepare" THEN task[s].item
                     ELSE [task[s].item EXCEPT !.key = SiteOf[task[s].tab]]
      OBVIOUS
    <3> PICK items : items = IF task[s].kind = "grant" THEN mem.held[LedgerOf(task[s].kind)] ELSE {}
      OBVIOUS
    <3>1. /\ task[s].phase = "lock" /\ tab' = tab /\ tail' = tail
          /\ task' = [task EXCEPT ![s].phase = "save", ![s].item = i, ![s].undo = items]
      BY <1>7, <2>2 DEF Adds, CanWork, Change
    <3>2. /\ \A x \in Slots \ {s} : task'[x] = task[x]
          /\ task'[s].kind = task[s].kind /\ task'[s].tab = task[s].tab
          /\ task'[s].after = task[s].after /\ task'[s].phase = "save"
      BY <3>1 DEF Typed, Task
    <3> QED  BY <3>1, <3>2, QueuesGo
  <2> QED  BY <2>1, <2>2
<1>8. CASE Consumes(s)
  <2>1. CASE Done(s)
    BY <1>8, <2>1, QueuesLeft DEF Consumes, CanWork
  <2>2. CASE ~ Done(s)
    <3> PICK n : n = (CHOOSE x \in Wanted(s) : TRUE).id
      OBVIOUS
    <3>1. /\ task[s].phase = "lock" /\ tab' = tab /\ tail' = tail
          /\ task' = [task EXCEPT ![s].phase = "save", ![s].item.id = n]
      BY <1>8, <2>2 DEF Consumes, CanWork, Change
    <3>2. /\ \A x \in Slots \ {s} : task'[x] = task[x]
          /\ task'[s].kind = task[s].kind /\ task'[s].tab = task[s].tab
          /\ task'[s].after = task[s].after /\ task'[s].phase = "save"
      BY <3>1 DEF Typed, Task
    <3> QED  BY <3>1, <3>2, QueuesGo
  <2> QED  BY <2>1, <2>2
<1>9. CASE Revokes(s) \/ Sweeps(s)
  <2>1. /\ task[s].phase \in {"lock", "moved"} /\ tab' = tab
        /\ (Done(s) \/ (Go(s, "save") /\ tail' = tail))
    BY <1>9 DEF Revokes, Sweeps, CanWork, Change
  <2> QED  BY <2>1, QueuesLeft, QueuesGoTo
<1>10. CASE Saves(s)
  <2>1. /\ task[s].phase = "save" /\ tab' = tab
        /\ (Done(s) \/ (Go(s, "apply") /\ tail' = tail))
    BY <1>10 DEF Saves, Continue
  <2> QED  BY <2>1, QueuesLeft, QueuesGoTo
<1>11. CASE Applies(s)
  BY <1>11, QueuesLeft DEF Applies
<1>12. CASE StorageFails(s)
  <2>1. task[s].phase \in {"list", "lock", "moved", "save"}
    <3> PICK l \in Ledgers : l = LedgerOf(task[s].kind)
      BY LedgersOfKinds
    <3> QED  BY <1>12 DEF StorageFails, Locked
  <2> QED  BY <1>12, <2>1, QueuesLeft DEF StorageFails
<1> QED  BY <1>1, <1>2, <1>3, <1>4, <1>5, <1>6, <1>7, <1>8, <1>9, <1>10, <1>11, <1>12 DEF Steps

\* The sweeper is never in a queue.
LEMMA QueuesHold ==
    ASSUME Typed, \A s \in Slots : Fits(s), Filed, Locked, Queues, [Next]_vars
    PROVE  Queues'
<1>1. CASE UNCHANGED <<task, tail>> /\ \A t \in Tabs : tab'[t].open => tab[t].open
  BY <1>1, QueuesStay
<1>2. CASE UNCHANGED vars \/ SavesState \/ LoadsState
  BY <1>2, <1>1 DEF vars, SavesState, LoadsState
<1>3. CASE ShowsSign
  <2>1. PICK t \in Tabs, sign \in Signs : tab' = [tab EXCEPT ![t].sign = sign]
    BY <1>3 DEF ShowsSign
  <2>2. \A x \in Tabs : tab'[x].open => tab[x].open
    BY <2>1 DEF Typed
  <2> QED  BY <1>1, <1>3, <2>2 DEF ShowsSign
<1>4. CASE Navigates \/ Closes
  <2>1. PICK t \in Tabs :
          /\ \A x \in Tabs : tab'[x].open => tab[x].open /\ tail'[x] = tail[x]
          /\ Swept(t)
    <3>1. CASE Navigates
      <4>1. PICK t \in Tabs : /\ tab' = [tab EXCEPT ![t].epoch = @ + 1, ![t].sign = "clear"]
                              /\ Swept(t) /\ tail' = tail
        BY <3>1 DEF Navigates
      <4>2. \A x \in Tabs : tab'[x].open => tab[x].open
        BY <4>1 DEF Typed
      <4> QED  BY <4>1, <4>2
    <3>2. CASE Closes
      <4>1. PICK t \in Tabs : /\ tab' = [tab EXCEPT ![t].open = FALSE]
                              /\ Swept(t) /\ tail' = [tail EXCEPT ![t] = None]
        BY <3>2 DEF Closes
      <4>2. \A x \in Tabs : tab'[x].open => tab[x].open /\ tail'[x] = tail[x]
        BY <4>1 DEF Typed
      <4> QED  BY <4>1, <4>2
    <3> QED  BY <1>4, <3>1, <3>2
  <2>2. /\ Sweeper \in Slots /\ \A x \in Slots \ {Sweeper} : task'[x] = task[x]
        /\ task[Sweeper].phase = "idle" /\ task'[Sweeper].kind = "moved"
    BY <2>1, ConstantsAssumption DEF Swept, Typed, Idle, ConstantsAssumption
  <2>3. task'[Sweeper].kind \notin Queued
    BY <2>2 DEF Queued
  <2> QED  BY <2>1, <2>2, <2>3, QueuesStay
<1>5. CASE Kill
  <2>1. \A x \in Slots, t \in Tabs : ~ Waits(x, t)'
    BY <1>5 DEF Kill, Idle, Waits
  <2>2. \A t \in Tabs : tail'[t] = None
    BY <1>5 DEF Kill
  <2> PICK r \in [Slots -> Nat] : r = [x \in Slots |-> 0]
    OBVIOUS
  <2>3. \A t \in Tabs : Ordered(r, t)'
    BY <2>1, <2>2 DEF Ordered
  <2> QED  BY <2>3 DEF Queues
<1> QED  BY <1>2, <1>3, <1>4, <1>5, QueuesOfSlots DEF Next

-----------------------------------------------------------------------------
(* The invariant, and what it says of the worker. *)

LEMMA InitHolds == Init => ExecInv
<1> SUFFICES ASSUME Init PROVE ExecInv
  OBVIOUS
<1> USE ConstantsAssumption DEF ConstantsAssumption, Init
<1>1. \A s \in Slots : /\ task[s] = Idle /\ task[s].phase = "idle" /\ task[s].item.id = 0
                       /\ task[s].undo = {} /\ task[s].approval = None
  BY IdleFits
<1>2. Typed
  <2>1. tab \in [Tabs -> [epoch : Nat, sign : Signs, open : BOOLEAN]] /\ \A t \in Tabs : tab[t].epoch = 0
    BY DEF Signs
  <2>2. mem \in Memory
    BY StartedTyped DEF Memory
  <2>3. saved \in Storage
    BY DEF Storage, Whys
  <2>4. task \in [Slots -> Task]
    BY IdleFits
  <2>5. past \in History
    BY DEF History
  <2>6. count \in Counts /\ count.moves = 0
    BY DEF Counts
  <2>7. tail \in [Tabs -> Slots \cup {None}] /\ holder \in [Ledgers -> Slots \cup {None}]
    OBVIOUS
  <2> QED  BY <2>1, <2>2, <2>3, <2>4, <2>5, <2>6, <2>7 DEF Typed
<1>3. \A s \in Slots : Fits(s)
  BY <1>1 DEF Fits
<1>4. Filed
  <2>1. \A l \in Ledgers : mem.held[l] = {} /\ saved.held[l] = {}
    BY DEF Started
  <2> QED  BY <1>1, <2>1, LedgerEmpty DEF Filed
<1>5. Queues
  <2> PICK r \in [Slots -> Nat] : r = [x \in Slots |-> 0]
    OBVIOUS
  <2>1. \A s \in Slots, t \in Tabs : ~ Waits(s, t)
    BY <1>1 DEF Waits
  <2>2. \A t \in Tabs : Ordered(r, t)
    BY <2>1 DEF Ordered
  <2> QED  BY <2>2 DEF Queues
<1>6. Locked
  BY <1>1 DEF Locked
<1>e. /\ \A l \in Ledgers : mem.held[l] = {} /\ saved.held[l] = {}
      /\ mem.used = {} /\ count.tasks = 0
  BY DEF Started
<1>7. Homes
  <2> PICK h \in [Nat -> Ledgers] : h = [n \in Nat |-> "permission"]
    BY DEF Ledgers
  <2>1. At(h)
    BY <1>1, <1>e DEF At
  <2> QED  BY <2>1 DEF Homes
<1>8. Places
  <2>1. \A id : ~ Live(id)
    BY <1>1, <1>e DEF Live, Held
  <2>2. \A s \in Slots : ~ Pending(s)
    BY <1>1 DEF Pending
  <2> QED  BY <1>1, <2>1, <2>2
           DEF Places, NoneLeft, AppliedOnce, TakenOut, NotYet, NothingTwice
<1>9. Replays
  BY <1>1, <1>e DEF Replays
<1> QED  BY <1>2, <1>3, <1>4, <1>5, <1>6, <1>7, <1>8, <1>9 DEF ExecInv

LEMMA StepHolds == ExecInv /\ [Next]_vars => ExecInv'
<1> SUFFICES ASSUME ExecInv, [Next]_vars PROVE ExecInv'
  OBVIOUS
<1>0. Typed /\ (\A s \in Slots : Fits(s)) /\ Filed /\ Queues /\ Locked /\ Homes /\ Places /\ Replays
  BY DEF ExecInv
<1>1. Typed'
  BY <1>0, TypesHold
<1>2. Effect
  BY <1>0, StepEffects
<1>3. \A s \in Slots : Fits(s)'
  BY <1>0, FitsHold
<1>4. Filed' /\ Locked' /\ Homes' /\ Replays'
  BY <1>0, <1>2, FiledHolds, LockedHolds, HomesHold, ReplaysHold
<1>5. Queues'
  BY <1>0, QueuesHold
<1>6. Places'
  BY <1>0, <1>1, <1>2, <1>3, PlacesHold
<1> QED  BY <1>1, <1>3, <1>4, <1>5, <1>6 DEF ExecInv

\* Types, limits and bookkeeping: what a slot does fits how far it is, a ledger
\* never exceeds its limit nor holds two items for a tab or an origin, what is
\* saved is saved under the ledger's lock, and every credential is in one place.
THEOREM ExecInvariant == Spec => []ExecInv
BY InitHolds, StepHolds, PTL DEF Spec

\* runSerializedMutation(): two requests never act in one open tab at a time,
\* from the guard of one to its end, whatever fails, is closed or is killed.
THEOREM OneInATab == Spec => []OneAtATime
<1>1. ExecInv => OneAtATime
  <2> SUFFICES ASSUME ExecInv, NEW s \in Slots, NEW x \in Slots, s # x,
                      task[s].kind \in Queued, task[x].kind \in Queued,
                      task[s].phase \in {"probe", "bind", "lock", "load", "save", "apply"},
                      task[x].phase \in {"probe", "bind", "lock", "load", "save", "apply"},
                      tab[task[s].tab].open, task[s].tab = task[x].tab
               PROVE  FALSE
    BY DEF OneAtATime
  <2> PICK t \in Tabs : t = task[s].tab
    BY DEF ExecInv, Fits, Queued
  <2> PICK r \in [Slots -> Nat] : Ordered(r, t)
    BY DEF ExecInv, Queues
  <2>1. Waits(s, t) /\ Waits(x, t)
    BY DEF Waits
  <2>2. task[s].after = None /\ task[x].after = None
    BY <2>1 DEF Ordered
  <2>3. r[s] <= r[x] /\ r[x] <= r[s]
    BY <2>1, <2>2 DEF Ordered
  <2>4. r[s] = r[x]
    BY <2>3
  <2> QED  BY <2>1, <2>4 DEF Ordered
<1> QED  BY <1>1, ExecInvariant, PTL

\* The two credential stores and consumeSessionApproval(): a handoff or a
\* permission is applied at most once and a delivered approval acts at most
\* once, whatever save fails and wherever the worker is killed.
THEOREM UsedAtMostOnce == Spec => []UsedOnce
<1>1. ExecInv => TypeOK
  <2> SUFFICES ASSUME ExecInv PROVE TypeOK
    OBVIOUS
  <2>0. Typed /\ Filed
    BY DEF ExecInv
  <2>1. tab \in [Tabs -> [epoch : 0 .. MaxMoves, sign : Signs, open : BOOLEAN]]
    <3>1. \A t \in Tabs : tab[t].epoch \in 0 .. MaxMoves
      BY <2>0, ConstantsAssumption DEF Typed, Counts, ConstantsAssumption
    <3> QED  BY <2>0, <3>1 DEF Typed
  <2>2. /\ mem.why \in [Tabs -> Whys] /\ mem.paused \subseteq Origins /\ mem.used \subseteq Approvals
        /\ saved.why \in [Tabs -> Whys]
    BY <2>0 DEF Typed, Memory, Storage
  <2>3. \A l \in Ledgers :
          /\ mem.held[l] \subseteq Item /\ Cardinality(mem.held[l]) <= MaxHeld
          /\ saved.held[l] \subseteq Item
          /\ \A i, j \in mem.held[l] : i.key = j.key => i = j
    BY <2>0 DEF Typed, Memory, Storage, Filed, Ledger
  <2>4. \A s \in Slots : task[s].phase \in Phases /\ task[s].kind \in AllKinds \cup {None, "moved"}
    BY <2>0 DEF Typed, Task
  <2> QED  BY <2>0, <2>1, <2>2, <2>3, <2>4 DEF Typed, TypeOK
<1>2. ExecInv => SingleUse /\ ReplayRefused
  BY DEF ExecInv, Places, NothingTwice, Replays, SingleUse, ReplayRefused
<1> QED  BY <1>1, <1>2, ExecInvariant, PTL DEF UsedOnce

\* revokeLocalCredentialHandoff(), revokeRemoteCredentialPermission(): what the
\* user revoked is not consumed once the revocation was saved, whatever a
\* restarted worker reads back from storage.
THEOREM RevokedForGood == Spec => []RevokedStaysRevoked
<1>1. ExecInv => RevokedStaysRevoked
  BY DEF ExecInv, Places, NothingTwice, RevokedStaysRevoked
<1> QED  BY <1>1, ExecInvariant, PTL

=============================================================================
