------------------------- MODULE ManagedTabsProofs -------------------------
(***************************************************************************)
(* ManagedTabs keeps its promises for any agents, commands, allowances and *)
(* casts.                                                                  *)
(*                                                                         *)
(* Inv is inductive.  The lock is a queue of different commands of which   *)
(* only the first changes the ledger (Locked); a ledger, in memory or in   *)
(* storage, gives tabs to the agents they were opened for, within the      *)
(* allowances (Ledgers); no open tab leaves it (Accounted, Legacy).  What  *)
(* a command found out before it waits is still so when it acts, because   *)
(* tabs never change hands, open again or become blank again, and because  *)
(* it keeps the lock where it relies on the ledger (Relies).               *)
(*                                                                         *)
(* That no commands wait in a circle follows from numbers for those in the *)
(* mutation queues (Numbered), and from the order of the lock's queue.     *)
(***************************************************************************)
EXTENDS ManagedTabs, FiniteSetTheorems, SequenceTheorems,
        WellFoundedInduction, TLAPS

-----------------------------------------------------------------------------
\* The phases in which a command has the lock, and may change what it protects.
Held == {"creating", "created", "rollback", "sweep"}

\* The lock is a queue of different commands, the first of which has it.
Locked ==
    /\ \A j, k \in 1 .. Len(lock) : lock[j] = lock[k] => j = k
    /\ \A j \in 1 .. Len(lock) : task[lock[j]].pc \in Waiting \cup Held
    /\ \A t \in Tasks : task[t].pc \in Held => Holds(t) /\ loaded

\* A ledger gives every tab to the agent it was opened for.
Faithful(l) ==
    \A i \in DOMAIN l : i \in DOMAIN tabs /\ tabs[i].opener # User /\ l[i] = tabs[i].opener

\* A ledger is within the allowances.
Small(l, n) ==
    /\ Cardinality(DOMAIN l) <= MaxTotal
    /\ \A a \in Agents : Cardinality(OwnedBy(l, a)) <= n

Ledgers ==
    /\ Faithful(ledger) /\ Faithful(stored)
    /\ Small(Memory, MaxPerAgent) /\ Small(stored, MaxPerAgent)
    /\ ~ loaded => ledger = <<>>
    /\ \A i \in removed : i \in DOMAIN tabs /\ ~ tabs[i].open

\* Tabs of a version 1 ledger stay recorded as long as they exist.
Legacy ==
    \A i \in OpenTabs : tabs[i].opener = NoAgent => i \in DOMAIN stored /\ i \in DOMAIN Memory

\* An open tab that command t may drive, unless a kill made it an ordinary one.
Drivable(t, i) ==
    \/ tabs[i].opener = User
    \/ tabs[i].opener = AgentOf[t] /\ AgentOf[t] \in Agents

\* Command t was checked to own tab i.
Owns(t, i) ==
    i \in DOMAIN tabs /\ tabs[i].opener = AgentOf[t] /\ AgentOf[t] \in Agents

\* A tab that command t, a cleanup, may close.
Sweepable(t, i) ==
    /\ i \in DOMAIN tabs /\ tabs[i].opener # User
    /\ AgentOf[t] # Popup =>
         tabs[i].opener = NoAgent \/ (tabs[i].opener = AgentOf[t] /\ AgentOf[t] \in Agents)

\* The agent of command t has no open tab that is still blank.
NoBlank(t) ==
    \A i \in OpenTabs \ lost : tabs[i].opener = AgentOf[t] => ~ tabs[i].blank

\* What command t found out, in earlier steps, and still relies on.
Relies(t) ==
    LET op == task[t].op
        pc == task[t].pc
        i == task[t].tab
    IN  /\ pc \in {"guard", "queued"} /\ op = "drive" => i \in DOMAIN tabs
        /\ pc = "queued" /\ op = "drive" /\ i \in OpenTabs \ lost => Drivable(t, i)
        /\ pc = "create" => op = "new"
        /\ pc = "adopt" => op \in Opening \ {"new"}
        /\ pc \in {"creating", "created"} =>
              op \in Opening \ {"recheck"} /\ CanCreate(ledger, AgentOf[t])
        /\ pc = "creating" /\ op # "new" => NoBlank(t)
        /\ pc \in {"created", "navigate", "remove"} => Owns(t, i)
        /\ pc = "untrack" => i \in DOMAIN tabs /\ ~ tabs[i].open
        /\ pc \in {"cleanup", "sweep"} => (op = "popup" <=> AgentOf[t] = Popup)
        /\ pc = "sweep" => \A j \in task[t].chosen : Sweepable(t, j)

Reliable == \A t \in Tasks : Relies(t)

Inv == TypeOK /\ Locked /\ Ledgers /\ Legacy /\ Accounted /\ Reliable

-----------------------------------------------------------------------------
\* What the constants and the types say.
LEMMA Names ==
    /\ User \notin Agents /\ NoAgent \notin Agents /\ Popup \notin Agents
    /\ NoAgent # User /\ NoAgent # Popup /\ User # Popup
BY NamesAssumption

LEMMA CastType ==
    ASSUME TypeOK
    PROVE  /\ AgentOf \in [Tasks -> Agents \cup {NoAgent, Popup}]
           /\ MaxPerAgent \in Nat /\ cast.kills \in Nat
BY LimitsAssumption DEF TypeOK, Cast, AgentOf, MaxPerAgent

LEMMA TabType ==
    ASSUME TypeOK
    PROVE  /\ Len(tabs) \in Nat /\ DOMAIN tabs = 1 .. Len(tabs)
           /\ \A i \in DOMAIN tabs : tabs[i] \in Tab /\ i \in TabIds /\ i \in Nat /\ i # NoTab
           /\ \A i \in OpenTabs : i \in DOMAIN tabs
<1>1. tabs \in Seq(Tab) /\ Len(tabs) <= MaxTabs /\ MaxTabs \in Nat
  BY LimitsAssumption DEF TypeOK
<1>2. Len(tabs) \in Nat /\ DOMAIN tabs = 1 .. Len(tabs)
  BY <1>1
<1>3. \A i \in 1 .. Len(tabs) : tabs[i] \in Tab /\ i \in TabIds /\ i \in Nat /\ i # NoTab
  BY <1>1 DEF TabIds, NoTab
<1> QED BY <1>2, <1>3 DEF OpenTabs

LEMMA MemoryType ==
    ASSUME TypeOK
    PROVE  IsLedger(Memory) /\ IsLedger(ledger) /\ IsLedger(stored)
BY DEF TypeOK, Memory

LEMMA FiniteLedger ==
    ASSUME NEW l, IsLedger(l)
    PROVE  IsFiniteSet(DOMAIN l)
<1>1. IsFiniteSet(TabIds)
  BY FS_Interval, LimitsAssumption DEF TabIds
<1> QED BY <1>1, FS_Subset DEF IsLedger

-----------------------------------------------------------------------------
\* Part of a ledger.
Sub(l, m) == DOMAIN l \subseteq DOMAIN m /\ l = [i \in DOMAIN l |-> m[i]]

LEMMA SubLedger ==
    ASSUME NEW l, NEW m, IsLedger(m), Sub(l, m)
    PROVE  IsLedger(l)
BY DEF Sub, IsLedger

LEMMA SubSmall ==
    ASSUME NEW l, NEW m, IsLedger(m), Sub(l, m), NEW n \in Nat, Small(m, n)
    PROVE  Small(l, n)
<1>1. IsFiniteSet(DOMAIN m) /\ IsFiniteSet(DOMAIN l)
  BY FiniteLedger, SubLedger
<1>2. DOMAIN l \subseteq DOMAIN m /\ \A i \in DOMAIN l : l[i] = m[i]
  BY DEF Sub
<1>3. Cardinality(DOMAIN l) <= Cardinality(DOMAIN m)
  BY <1>1, <1>2, FS_Subset
<1>4. ASSUME NEW a \in Agents
      PROVE  Cardinality(OwnedBy(l, a)) <= n
  <2>1. OwnedBy(l, a) \subseteq OwnedBy(m, a) /\ OwnedBy(m, a) \subseteq DOMAIN m
    BY <1>2 DEF OwnedBy
  <2>2. IsFiniteSet(OwnedBy(m, a))
    BY <1>1, <2>1, FS_Subset
  <2>3. Cardinality(OwnedBy(l, a)) <= Cardinality(OwnedBy(m, a))
    BY <2>1, <2>2, FS_Subset
  <2>4. Cardinality(OwnedBy(m, a)) <= n
    BY DEF Small
  <2>5. Cardinality(OwnedBy(l, a)) \in Nat /\ Cardinality(OwnedBy(m, a)) \in Nat
    BY <2>1, <2>2, FS_Subset, FS_CardinalityType
  <2> QED BY <2>3, <2>4, <2>5
<1>5. Cardinality(DOMAIN m) \in Nat /\ Cardinality(DOMAIN l) \in Nat /\ MaxTotal \in Nat
  BY <1>1, FS_CardinalityType, LimitsAssumption
<1> QED BY <1>3, <1>4, <1>5 DEF Small

LEMMA SubEmpty ==
    ASSUME NEW m
    PROVE  Sub(<<>>, m)
<1>1. DOMAIN <<>> = {}
  OBVIOUS
<1>2. <<>> = [i \in {} |-> m[i]]
  OBVIOUS
<1> QED BY <1>1, <1>2 DEF Sub

LEMMA SubSelf ==
    ASSUME NEW m, IsLedger(m)
    PROVE  Sub(m, m)
BY DEF Sub, IsLedger

\* The ledger without some of its tabs.
LEMMA SubWithout ==
    ASSUME NEW m, NEW S
    PROVE  /\ Sub([i \in DOMAIN m \ S |-> m[i]], m)
           /\ Sub([i \in DOMAIN m \cap S |-> m[i]], m)
           /\ DOMAIN [i \in DOMAIN m \ S |-> m[i]] = DOMAIN m \ S
           /\ DOMAIN [i \in DOMAIN m \cap S |-> m[i]] = DOMAIN m \cap S
BY DEF Sub

LEMMA ReconciledType ==
    ASSUME TypeOK
    PROVE  /\ Sub(Reconciled, Memory) /\ IsLedger(Reconciled)
           /\ DOMAIN Reconciled = DOMAIN Memory \cap OpenTabs
           /\ \A i \in DOMAIN Reconciled : Reconciled[i] = Memory[i]
<1>1. Sub(Reconciled, Memory) /\ DOMAIN Reconciled = DOMAIN Memory \cap OpenTabs
  BY SubWithout DEF Reconciled
<1>2. IsLedger(Reconciled)
  BY <1>1, SubLedger, MemoryType
<1>3. \A i \in DOMAIN Reconciled : Reconciled[i] = Memory[i]
  BY DEF Reconciled
<1> QED BY <1>1, <1>2, <1>3

\* What is under way with the ledger in memory is with the one that counts.
LEMMA LedgerSub ==
    ASSUME TypeOK, Ledgers
    PROVE  Sub(ledger, Memory)
<1>1. CASE loaded
  BY <1>1, SubSelf, MemoryType DEF Memory
<1>2. CASE ~ loaded
  BY <1>2, SubEmpty DEF Ledgers
<1> QED BY <1>1, <1>2

-----------------------------------------------------------------------------
\* What a step may do to the browser's tabs: open one, close one, or take its
\* blank page.
TabsStep ==
    /\ tabs' \in Seq(Tab) /\ Len(tabs') <= MaxTabs
    /\ active' \in TabIds \cup {NoTab} /\ removed' \subseteq TabIds
    /\ DOMAIN tabs \subseteq DOMAIN tabs'
    /\ \A i \in DOMAIN tabs : /\ tabs'[i].opener = tabs[i].opener
                              /\ tabs'[i].open => tabs[i].open
                              /\ tabs'[i].blank => tabs[i].blank
    /\ \A i \in removed' : i \in removed \/ (i \in DOMAIN tabs /\ ~ tabs'[i].open)

\* No tab is opened.
NoneOpened == DOMAIN tabs' = DOMAIN tabs

LEMMA SameTabs ==
    ASSUME TypeOK, UNCHANGED <<tabs, active, removed>>
    PROVE  TabsStep /\ NoneOpened /\ OpenTabs' = OpenTabs
BY DEF TypeOK, TabsStep, NoneOpened, OpenTabs

LEMMA ClosesStep ==
    ASSUME TypeOK, NEW i, IsOpen(i), Closes(i)
    PROVE  /\ TabsStep /\ NoneOpened /\ i \in DOMAIN tabs /\ ~ tabs'[i].open
           /\ OpenTabs' = OpenTabs \ {i}
<1>1. i \in DOMAIN tabs /\ tabs[i] \in Tab /\ i \in TabIds
  BY TabType DEF IsOpen
<1>2. tabs' = [tabs EXCEPT ![i].open = FALSE, ![i].blank = FALSE]
  BY DEF Closes
<1>3. tabs' = [tabs EXCEPT ![i] = [tabs[i] EXCEPT !.open = FALSE, !.blank = FALSE]]
  BY <1>1, <1>2, TabType
<1> DEFINE r == [tabs[i] EXCEPT !.open = FALSE, !.blank = FALSE]
<1>4. r \in Tab /\ r.opener = tabs[i].opener /\ ~ r.open /\ ~ r.blank
  BY <1>1 DEF Tab
<1>5. tabs' = [tabs EXCEPT ![i] = r]
  BY <1>3
<1> HIDE DEF r
<1>6. tabs \in Seq(Tab) /\ Len(tabs) <= MaxTabs
  BY DEF TypeOK
<1>7. tabs' \in Seq(Tab) /\ Len(tabs') = Len(tabs) /\ DOMAIN tabs' = DOMAIN tabs
  BY <1>1, <1>4, <1>5, <1>6
<1>8. tabs'[i] = r /\ \A j \in DOMAIN tabs : j # i => tabs'[j] = tabs[j]
  BY <1>1, <1>5
<1>9. active' \in TabIds \cup {NoTab} /\ removed' = removed \cup {i}
  <2>1. OpenTabs \subseteq TabIds
    BY TabType
  <2> QED BY <2>1 DEF Closes, TypeOK
<1>10. removed' \subseteq TabIds
  BY <1>1, <1>9 DEF TypeOK
<1>11. OpenTabs' = OpenTabs \ {i}
  BY <1>4, <1>7, <1>8 DEF OpenTabs
<1> QED BY <1>1, <1>4, <1>6, <1>7, <1>8, <1>9, <1>10, <1>11 DEF TabsStep, NoneOpened

LEMMA BlankStep ==
    ASSUME TypeOK, NEW i, i \in DOMAIN tabs, tabs' = [tabs EXCEPT ![i].blank = FALSE],
           UNCHANGED <<active, removed>>
    PROVE  TabsStep /\ NoneOpened /\ OpenTabs' = OpenTabs
<1>1. tabs[i] \in Tab /\ i \in TabIds /\ i \in DOMAIN tabs
  BY TabType
<1> DEFINE r == [tabs[i] EXCEPT !.blank = FALSE]
<1>2. r \in Tab /\ r.opener = tabs[i].opener /\ r.open = tabs[i].open /\ ~ r.blank
  BY <1>1 DEF Tab
<1>3. tabs' = [tabs EXCEPT ![i] = r]
  BY <1>1, TabType
<1> HIDE DEF r
<1>4. tabs \in Seq(Tab) /\ Len(tabs) <= MaxTabs
  BY DEF TypeOK
<1>5. tabs' \in Seq(Tab) /\ Len(tabs') = Len(tabs) /\ DOMAIN tabs' = DOMAIN tabs
  <2>1. i \in 1 .. Len(tabs) /\ r \in Tab /\ tabs \in Seq(Tab)
    BY <1>1, <1>2, <1>4, TabType
  <2>2. [tabs EXCEPT ![i] = r] \in Seq(Tab) /\ Len([tabs EXCEPT ![i] = r]) = Len(tabs)
    BY <2>1
  <2> QED BY <1>3, <2>2
<1>6. tabs'[i] = r /\ \A j \in DOMAIN tabs : j # i => tabs'[j] = tabs[j]
  BY <1>1, <1>3
<1>7. OpenTabs' = OpenTabs
  BY <1>2, <1>5, <1>6 DEF OpenTabs
<1> QED BY <1>2, <1>4, <1>5, <1>6, <1>7 DEF TabsStep, NoneOpened, TypeOK

LEMMA OpenStep ==
    ASSUME TypeOK, NEW r \in Tab, tabs' = Append(tabs, r), Len(tabs) < MaxTabs,
           removed' = removed, active' \in {active, Len(tabs) + 1}
    PROVE  /\ TabsStep
           /\ DOMAIN tabs' = DOMAIN tabs \cup {Len(tabs) + 1} /\ tabs'[Len(tabs) + 1] = r
           /\ Len(tabs) + 1 \in TabIds
           /\ \A i \in DOMAIN tabs : tabs'[i] = tabs[i]
<1>1. tabs \in Seq(Tab) /\ Len(tabs) \in Nat /\ MaxTabs \in Nat /\ DOMAIN tabs = 1 .. Len(tabs)
  BY TabType, LimitsAssumption DEF TypeOK
<1>2. /\ tabs' \in Seq(Tab) /\ Len(tabs') = Len(tabs) + 1
      /\ \A i \in 1 .. Len(tabs) : tabs'[i] = tabs[i]
      /\ tabs'[Len(tabs) + 1] = r
  BY <1>1
<1>3. DOMAIN tabs' = DOMAIN tabs \cup {Len(tabs) + 1} /\ Len(tabs) + 1 \in TabIds
  BY <1>1, <1>2 DEF TabIds
<1> QED BY <1>1, <1>2, <1>3 DEF TabsStep, TypeOK

-----------------------------------------------------------------------------
\* What a step may do to the ledger other than record a new tab: some tabs leave
\* it, none of them open unless a kill loses it.
Shrinks ==
    /\ loaded' \in BOOLEAN
    /\ Sub(ledger', Memory)
    /\ stored' = stored \/ Sub(stored', Memory)
    /\ ~ loaded' => ledger' = <<>>
    /\ lost \subseteq lost'
    /\ \A i \in OpenTabs' : i \in DOMAIN Memory =>
          /\ i \in DOMAIN Memory' \/ i \in lost' \/ tabs[i].opener \notin Agents
          /\ i \in DOMAIN stored => i \in DOMAIN Memory' /\ i \in DOMAIN stored'

LEMMA SameWorker ==
    ASSUME TypeOK, Ledgers, UNCHANGED worker, lost' = lost
    PROVE  Shrinks
<1>1. ledger' = ledger /\ loaded' = loaded /\ stored' = stored
  BY DEF worker
<1>2. Memory' = Memory
  BY <1>1 DEF Memory
<1>3. Sub(ledger', Memory)
  BY <1>1, LedgerSub
<1>4. ~ loaded' => ledger' = <<>>
  BY <1>1 DEF Ledgers
<1> QED BY <1>1, <1>2, <1>3, <1>4 DEF Shrinks, TypeOK

LEMMA PreparedStep ==
    ASSUME TypeOK, Ledgers, Prepared, ledger' = Reconciled, tabs' = tabs, lost' = lost
    PROVE  Shrinks /\ loaded' /\ Memory' = Reconciled
<1>1. loaded' /\ stored' = IF Reconciled = Memory THEN stored ELSE Reconciled
  BY DEF Prepared
<1>2. Memory' = Reconciled
  BY <1>1 DEF Memory
<1>3. OpenTabs' = OpenTabs
  BY DEF OpenTabs
<1>4. /\ Sub(Reconciled, Memory)
      /\ DOMAIN Reconciled = DOMAIN Memory \cap OpenTabs
  BY ReconciledType
<1>5. loaded' = TRUE
  BY DEF Prepared
<1>6. ASSUME NEW i \in OpenTabs', i \in DOMAIN Memory
      PROVE  i \in DOMAIN Memory' /\ (i \in DOMAIN stored => i \in DOMAIN stored')
  BY <1>1, <1>2, <1>3, <1>4, <1>6
<1> QED BY <1>1, <1>2, <1>4, <1>5, <1>6 DEF Shrinks

LEMMA UnpreparedStep ==
    ASSUME TypeOK, Ledgers, Unprepared, tabs' = tabs, lost' = lost
    PROVE  Shrinks /\ (loaded => loaded')
<1>1. CASE UNCHANGED worker
  BY <1>1, SameWorker DEF worker
<1>2. CASE Reconciled # Memory /\ loaded' = TRUE /\ ledger' = Reconciled /\ UNCHANGED stored
  <2>1. OpenTabs' = OpenTabs /\ Memory' = Reconciled
    BY <1>2 DEF OpenTabs, Memory
  <2>2. /\ Sub(Reconciled, Memory)
        /\ DOMAIN Reconciled = DOMAIN Memory \cap OpenTabs
    BY ReconciledType
  <2> QED BY <1>2, <2>1, <2>2 DEF Shrinks
<1> QED BY <1>1, <1>2 DEF Unprepared

LEMMA UntracksStep ==
    ASSUME TypeOK, Ledgers, NEW i, ~ tabs[i].open, NEW saved \in BOOLEAN, Untracks(i, saved),
           tabs' = tabs, lost' = lost
    PROVE  Shrinks /\ loaded'
<1>1. /\ loaded' = TRUE
      /\ ledger' = [j \in DOMAIN Memory \ {i} |-> Memory[j]]
      /\ stored' = IF saved /\ i \in DOMAIN Memory THEN ledger' ELSE stored
  BY DEF Untracks
<1>2. Sub(ledger', Memory) /\ DOMAIN ledger' = DOMAIN Memory \ {i}
  BY <1>1, SubWithout
<1>3. i \notin OpenTabs' /\ Memory' = ledger'
  BY <1>1 DEF OpenTabs, Memory
<1> QED BY <1>1, <1>2, <1>3 DEF Shrinks

\* Tabs that are not open leave the ledger; or it is saved as it is.
LEMMA DropsStep ==
    ASSUME TypeOK, Ledgers, loaded, loaded' = loaded, lost' = lost, NEW S, S \cap OpenTabs' = {},
           ledger' = [j \in DOMAIN ledger \ S |-> ledger[j]], stored' = stored
    PROVE  Shrinks
<1>1. Memory = ledger /\ Memory' = ledger'
  BY DEF Memory
<1>2. Sub(ledger', Memory) /\ DOMAIN ledger' = DOMAIN ledger \ S
  BY <1>1, SubWithout
<1> QED BY <1>1, <1>2 DEF Shrinks, TypeOK

LEMMA SavesStep ==
    ASSUME TypeOK, Ledgers, loaded, loaded' = loaded, ledger' = ledger, lost' = lost,
           stored' \in {stored, ledger}
    PROVE  Shrinks
<1>1. Memory = ledger /\ Memory' = ledger
  BY DEF Memory
<1>2. Sub(ledger, Memory)
  BY LedgerSub
<1> QED BY <1>1, <1>2 DEF Shrinks, TypeOK

LEMMA KillStep ==
    ASSUME TypeOK, Ledgers, Kill
    PROVE  Shrinks
<1>1. /\ ledger' = <<>> /\ loaded' = FALSE /\ stored' = stored /\ tabs' = tabs
      /\ lost' = lost \cup {i \in OpenTabs \ DOMAIN stored : tabs[i].opener \in Agents}
  BY DEF Kill
<1>2. Memory' = stored /\ OpenTabs' = OpenTabs
  BY <1>1 DEF Memory, OpenTabs
<1>3. Sub(<<>>, Memory)
  BY SubEmpty
<1> QED BY <1>1, <1>2, <1>3 DEF Shrinks

-----------------------------------------------------------------------------
\* What such steps keep.
LEMMA FaithfulKept ==
    ASSUME TabsStep, NEW l, NEW m, Faithful(m), Sub(l, m)
    PROVE  \A i \in DOMAIN l : /\ i \in DOMAIN tabs' /\ tabs'[i].opener # User
                               /\ l[i] = tabs'[i].opener
BY DEF TabsStep, Faithful, Sub

LEMMA MemoryFaithful ==
    ASSUME Ledgers
    PROVE  Faithful(Memory) /\ Faithful(stored)
BY DEF Ledgers, Memory

LEMMA LedgersKept ==
    ASSUME TypeOK, Ledgers, TabsStep, Shrinks, cast' = cast
    PROVE  Ledgers' /\ IsLedger(ledger') /\ IsLedger(stored')
<1>1. IsLedger(Memory) /\ IsLedger(stored) /\ Faithful(Memory) /\ Faithful(stored)
  BY MemoryType, MemoryFaithful
<1>2. Sub(ledger', Memory)
  BY DEF Shrinks
<1>3. IsLedger(ledger')
  BY <1>1, <1>2, SubLedger
<1>4. stored' = stored \/ Sub(stored', Memory)
  BY DEF Shrinks
<1>5. IsLedger(stored')
  BY <1>1, <1>4, SubLedger
<1>6. Sub(stored, stored)
  BY <1>1, SubSelf
<1>7. Faithful(ledger)'
  BY <1>1, <1>2, FaithfulKept DEF Faithful
<1>8. Faithful(stored)'
  BY <1>1, <1>4, <1>6, FaithfulKept DEF Faithful
<1>9. MaxPerAgent \in Nat /\ MaxPerAgent' = MaxPerAgent
  BY CastType DEF MaxPerAgent
<1>10. Small(Memory, MaxPerAgent) /\ Small(stored, MaxPerAgent)
  BY DEF Ledgers
<1>11. Small(ledger', MaxPerAgent)
  BY <1>1, <1>2, <1>9, <1>10, SubSmall
<1>12. Small(stored', MaxPerAgent)
  BY <1>1, <1>4, <1>9, <1>10, SubSmall
<1>13. Memory' = ledger' \/ Memory' = stored'
  BY DEF Memory
<1>14. Small(Memory', MaxPerAgent') /\ Small(stored', MaxPerAgent')
  BY <1>9, <1>11, <1>12, <1>13
<1>15. (~ loaded => ledger = <<>>)'
  BY DEF Shrinks
<1>16. \A i \in removed' : i \in DOMAIN tabs' /\ ~ tabs'[i].open
  BY DEF TabsStep, Ledgers
<1> QED BY <1>3, <1>5, <1>7, <1>8, <1>14, <1>15, <1>16 DEF Ledgers

\* A tab of the agent of command t may be opened meanwhile.
LEMMA LegacyKept ==
    ASSUME TypeOK, Legacy, TabsStep, Shrinks,
           \A i \in DOMAIN tabs' \ DOMAIN tabs : tabs'[i].opener # NoAgent
    PROVE  Legacy'
<1> SUFFICES ASSUME NEW i \in OpenTabs', tabs'[i].opener = NoAgent
             PROVE  i \in DOMAIN stored' /\ i \in DOMAIN Memory'
  BY DEF Legacy
<1>1. i \in DOMAIN tabs' /\ tabs'[i].open
  BY DEF OpenTabs
<1>2. i \in OpenTabs /\ tabs[i].opener = NoAgent
  BY <1>1 DEF TabsStep, OpenTabs
<1>3. i \in DOMAIN stored /\ i \in DOMAIN Memory
  BY <1>2 DEF Legacy
<1> QED BY <1>3 DEF Shrinks

\* A tab that is just being recorded goes on to be, or is lost.
LEMMA AccountedKept ==
    ASSUME TypeOK, Ledgers, Ledgers', Accounted, TabsStep, Shrinks,
           \A u \in Tasks : task[u].pc = "created" =>
              \/ task'[u].pc = "created" /\ task'[u].tab = task[u].tab
              \/ task[u].tab \in DOMAIN Memory' \/ task[u].tab \in lost'
              \/ task[u].tab \notin OpenTabs',
           \A i \in DOMAIN tabs' \ DOMAIN tabs :
              \/ tabs'[i].opener \notin Agents
              \/ \E u \in Tasks : task'[u].pc = "created" /\ task'[u].tab = i
    PROVE  Accounted'
<1> SUFFICES ASSUME NEW i \in OpenTabs' \ lost', tabs'[i].opener \in Agents
             PROVE  \/ i \in DOMAIN Memory' /\ Memory'[i] = tabs'[i].opener
                    \/ \E u \in Tasks : task'[u].pc = "created" /\ task'[u].tab = i
  BY DEF Accounted
<1>1. i \in DOMAIN tabs' /\ tabs'[i].open
  BY DEF OpenTabs
<1>2. i \in DOMAIN Memory' => Memory'[i] = tabs'[i].opener
  BY DEF Memory, Ledgers, Faithful
<1>3. CASE i \notin DOMAIN tabs
  BY <1>1, <1>3
<1>4. CASE i \in DOMAIN tabs
  <2>1. i \in OpenTabs \ lost /\ tabs[i].opener = tabs'[i].opener
    BY <1>1, <1>4 DEF TabsStep, OpenTabs, Shrinks
  <2>2. CASE i \in DOMAIN Memory
    BY <1>2, <2>1, <2>2 DEF Shrinks
  <2>3. CASE \E u \in Tasks : task[u].pc = "created" /\ task[u].tab = i
    BY <1>2, <2>3
  <2> QED BY <2>1, <2>2, <2>3 DEF Accounted
<1> QED BY <1>3, <1>4

-----------------------------------------------------------------------------
\* What a step of command t does to the commands: the others at most stop
\* waiting for it.
Others(t) ==
    \A u \in Tasks \ {t} : task'[u] = task[u] \/ task'[u] = [task[u] EXCEPT !.after = NoTask]

Tails == [TabIds \cup {NoTab} -> Tasks \cup {NoTask}]

LEMMA TaskType ==
    ASSUME TypeOK, NEW t \in Tasks
    PROVE  /\ task[t] \in Task /\ task[t].pc \in Phases /\ task[t].op \in Ops
           /\ task[t].tab \in TabIds \cup {NoTab} /\ task[t].after \in Tasks \cup {NoTask}
           /\ task[t].chosen \subseteq TabIds
<1>1. task[t] \in Task
  BY DEF TypeOK
<1> QED BY <1>1 DEF Task

LEMMA IdleType == Idle \in Task /\ Idle.pc = "idle" /\ Idle.op = "drive" /\ Idle.tab = NoTab
<1>1. "idle" \in Phases /\ "drive" \in Ops /\ {} \in SUBSET TabIds
  BY DEF Phases, Ops
<1> QED BY <1>1 DEF Idle, Task

LEMMA EndsEffect ==
    ASSUME TypeOK, NEW t \in Tasks, Ends(t)
    PROVE  /\ task' \in [Tasks -> Task] /\ tail' \in Tails
           /\ task'[t] = Idle /\ Others(t)
<1>1. task \in [Tasks -> Task] /\ tail \in Tails
  BY DEF TypeOK, Tails
<1>2. task' = [u \in Tasks |-> IF u = t THEN Idle
                               ELSE IF task[u].after = t THEN [task[u] EXCEPT !.after = NoTask]
                               ELSE task[u]]
  BY DEF Ends
<1>3. \A u \in Tasks : [task[u] EXCEPT !.after = NoTask] \in Task
  BY <1>1 DEF Task
<1>4. task' \in [Tasks -> Task]
  BY <1>1, <1>2, <1>3, IdleType
<1>5. tail' \in Tails
  BY <1>1 DEF Ends, Tails
<1> QED BY <1>2, <1>4, <1>5 DEF Others

LEMMA MovesEffect ==
    ASSUME TypeOK, NEW t \in Tasks, NEW r \in Task, task' = [task EXCEPT ![t] = r]
    PROVE  task' \in [Tasks -> Task] /\ task'[t] = r /\ Others(t)
<1>1. task \in [Tasks -> Task]
  BY DEF TypeOK
<1> QED BY <1>1 DEF Others

LEMMA GoesEffect ==
    ASSUME TypeOK, NEW t \in Tasks, NEW p \in Phases, Goes(t, p)
    PROVE  /\ task' \in [Tasks -> Task] /\ Others(t)
           /\ task'[t].pc = p /\ task'[t].op = task[t].op /\ task'[t].tab = task[t].tab
           /\ task'[t].chosen = task[t].chosen
<1>1. task \in [Tasks -> Task] /\ task[t] \in Task
  BY DEF TypeOK
<1> DEFINE r == [task[t] EXCEPT !.pc = p]
<1>2. r \in Task /\ r.pc = p /\ r.op = task[t].op /\ r.tab = task[t].tab
      /\ r.chosen = task[t].chosen
  BY <1>1 DEF Task
<1>3. task' = [task EXCEPT ![t] = r]
  BY <1>1 DEF Goes
<1> HIDE DEF r
<1> QED BY <1>2, <1>3, MovesEffect

\* Besides its phase, a command changes the tab it is about, or its choice.
LEMMA GoesWithTab ==
    ASSUME TypeOK, NEW t \in Tasks, NEW p \in Phases, NEW i \in TabIds \cup {NoTab},
           task' = [task EXCEPT ![t].pc = p, ![t].tab = i]
    PROVE  /\ task' \in [Tasks -> Task] /\ Others(t)
           /\ task'[t].pc = p /\ task'[t].op = task[t].op /\ task'[t].tab = i
<1>1. task \in [Tasks -> Task] /\ task[t] \in Task
  BY DEF TypeOK
<1> DEFINE r == [task[t] EXCEPT !.pc = p, !.tab = i]
<1>2. r \in Task /\ r.pc = p /\ r.op = task[t].op /\ r.tab = i
  BY <1>1 DEF Task
<1>3. task' = [task EXCEPT ![t] = r]
  BY <1>1
<1> HIDE DEF r
<1> QED BY <1>2, <1>3, MovesEffect

LEMMA GoesWithChoice ==
    ASSUME TypeOK, NEW t \in Tasks, NEW p \in Phases, NEW S \in SUBSET TabIds,
           task' = [task EXCEPT ![t].pc = p, ![t].chosen = S]
    PROVE  /\ task' \in [Tasks -> Task] /\ Others(t)
           /\ task'[t].pc = p /\ task'[t].op = task[t].op /\ task'[t].chosen = S
<1>1. task \in [Tasks -> Task] /\ task[t] \in Task
  BY DEF TypeOK
<1> DEFINE r == [task[t] EXCEPT !.pc = p, !.chosen = S]
<1>2. r \in Task /\ r.pc = p /\ r.op = task[t].op /\ r.chosen = S
  BY <1>1 DEF Task
<1>3. task' = [task EXCEPT ![t] = r]
  BY <1>1
<1> HIDE DEF r
<1> QED BY <1>2, <1>3, MovesEffect

-----------------------------------------------------------------------------
\* The lock.
Busy == Waiting \cup Held

\* Command t keeps the lock or goes on without it, joins its queue, or leaves.
Stays(t) ==
    /\ lock' = lock
    /\ \/ Holds(t) /\ task'[t].pc \in Held /\ loaded'
       \/ task[t].pc \notin Busy /\ task'[t].pc \notin Busy

Joins(t) ==
    lock' = Append(lock, t) /\ task[t].pc \notin Busy /\ task'[t].pc \in Waiting

Leaves(t) ==
    lock' = Tail(lock) /\ Holds(t) /\ task'[t].pc \notin Busy

LockStep(t) == Stays(t) \/ Joins(t) \/ Leaves(t)

LEMMA LockType ==
    ASSUME TypeOK
    PROVE  /\ lock \in Seq(Tasks) /\ Len(lock) \in Nat
           /\ \A j \in 1 .. Len(lock) : lock[j] \in Tasks
           /\ \A t : Holds(t) <=> Len(lock) >= 1 /\ lock[1] = t
<1>1. lock \in Seq(Tasks)
  BY DEF TypeOK
<1>2. \A t : Holds(t) <=> Len(lock) >= 1 /\ lock[1] = t
  BY <1>1 DEF Holds
<1> QED BY <1>1, <1>2

\* Only one command holds the lock, and only it is in the middle of its work.
LEMMA OneHolder ==
    ASSUME TypeOK, Locked, NEW t \in Tasks, Holds(t), NEW u \in Tasks, u # t
    PROVE  ~ Holds(u) /\ task[u].pc \notin Held
<1>1. ~ Holds(u)
  BY LockType
<1> QED BY <1>1 DEF Locked

LEMMA LockedKept ==
    ASSUME TypeOK, Locked, NEW t \in Tasks, Others(t), LockStep(t),
           loaded => loaded'
    PROVE  Locked' /\ lock' \in Seq(Tasks)
<1>1. /\ lock \in Seq(Tasks) /\ Len(lock) \in Nat
      /\ \A j \in 1 .. Len(lock) : lock[j] \in Tasks
  BY LockType
<1>2. \A u \in Tasks \ {t} : task'[u].pc = task[u].pc
  <2> SUFFICES ASSUME NEW u \in Tasks \ {t}
               PROVE  task'[u].pc = task[u].pc
    OBVIOUS
  <2>1. task[u] \in Task
    BY TaskType
  <2> QED BY <2>1 DEF Others, Task
<1>3. /\ \A j, k \in 1 .. Len(lock) : lock[j] = lock[k] => j = k
      /\ \A j \in 1 .. Len(lock) : task[lock[j]].pc \in Busy
      /\ \A u \in Tasks : task[u].pc \in Held => Holds(u) /\ loaded
  BY DEF Locked, Busy
<1>4. CASE Stays(t)
  <2>1. lock' = lock
    BY <1>4 DEF Stays
  <2>2. ASSUME NEW j \in 1 .. Len(lock)
        PROVE  task'[lock[j]].pc \in Busy
    <3>1. CASE lock[j] = t
      <4>1. task[t].pc \in Busy
        BY <1>3, <3>1
      <4> QED BY <1>4, <4>1, <3>1 DEF Stays, Busy
    <3>2. CASE lock[j] # t
      BY <1>1, <1>2, <1>3, <3>2
    <3> QED BY <3>1, <3>2
  <2>3. ASSUME NEW u \in Tasks, task'[u].pc \in Held
        PROVE  Holds(u) /\ loaded'
    <3>1. CASE u = t
      BY <1>4, <2>3, <3>1 DEF Stays, Busy
    <3>2. CASE u # t
      BY <1>2, <1>3, <2>3, <3>2
    <3> QED BY <3>1, <3>2
  <2> QED BY <1>1, <1>3, <2>1, <2>2, <2>3 DEF Locked, Busy, Holds
<1>5. CASE Joins(t)
  <2>1. lock' = Append(lock, t) /\ task[t].pc \notin Busy /\ task'[t].pc \in Waiting
    BY <1>5 DEF Joins
  <2>2. /\ lock' \in Seq(Tasks) /\ Len(lock') = Len(lock) + 1
        /\ \A j \in 1 .. Len(lock) : lock'[j] = lock[j]
        /\ lock'[Len(lock) + 1] = t
    BY <1>1, <2>1
  <2>3. \A j \in 1 .. Len(lock) : lock[j] # t
    BY <1>3, <2>1
  <2>4. \A j, k \in 1 .. Len(lock') : lock'[j] = lock'[k] => j = k
    BY <1>1, <1>3, <2>2, <2>3
  <2>5. \A j \in 1 .. Len(lock') : task'[lock'[j]].pc \in Busy
    BY <1>1, <1>2, <1>3, <2>1, <2>2, <2>3 DEF Busy
  <2>6. ASSUME NEW u \in Tasks, task'[u].pc \in Held
        PROVE  lock' # <<>> /\ Head(lock') = u /\ loaded'
    <3>1. u # t
      BY <2>1, <2>6 DEF Waiting, Held
    <3>2. Holds(u) /\ loaded
      BY <1>2, <1>3, <2>6, <3>1
    <3>3. Len(lock) >= 1 /\ lock[1] = u
      BY <3>2, LockType
    <3> QED BY <1>1, <2>2, <3>2, <3>3
  <2> QED BY <2>2, <2>4, <2>5, <2>6 DEF Locked, Busy, Holds
<1>6. CASE Leaves(t)
  <2>1. lock' = Tail(lock) /\ Holds(t) /\ task'[t].pc \notin Busy
    BY <1>6 DEF Leaves
  <2>2. Len(lock) >= 1 /\ lock[1] = t
    BY <2>1, LockType
  <2>3. /\ lock' \in Seq(Tasks) /\ Len(lock') = Len(lock) - 1
        /\ \A j \in 1 .. Len(lock') : lock'[j] = lock[j + 1]
    BY <1>1, <2>1, <2>2
  <2>4. \A j, k \in 1 .. Len(lock') : lock'[j] = lock'[k] => j = k
    BY <1>1, <1>3, <2>2, <2>3
  <2>5. \A j \in 1 .. Len(lock') : lock'[j] # t /\ lock'[j] \in Tasks
    BY <1>1, <1>3, <2>2, <2>3
  <2>6. \A j \in 1 .. Len(lock') : task'[lock'[j]].pc \in Busy
    BY <1>1, <1>2, <1>3, <2>2, <2>3, <2>5
  <2>7. \A u \in Tasks : task'[u].pc \notin Held
    <3> SUFFICES ASSUME NEW u \in Tasks, u # t
                 PROVE  task'[u].pc \notin Held
      BY <2>1 DEF Busy
    <3> QED BY <1>2, <2>1, OneHolder
  <2> QED BY <2>3, <2>4, <2>6, <2>7 DEF Locked, Busy
<1> QED BY <1>4, <1>5, <1>6 DEF LockStep

-----------------------------------------------------------------------------
\* What a command relies on does not change under it.
LEMMA OtherRelies ==
    ASSUME TypeOK, NEW u \in Tasks, Relies(u), TabsStep, lost \subseteq lost', cast' = cast,
           task'[u] = task[u] \/ task'[u] = [task[u] EXCEPT !.after = NoTask],
           task[u].pc \in {"creating", "created"} => ledger' = ledger,
           task[u].pc = "creating" =>
              \A i \in DOMAIN tabs' \ DOMAIN tabs : tabs'[i].opener # AgentOf[u]
    PROVE  Relies(u)'
<1>1. task[u] \in Task
  BY TaskType
<1>2. /\ task'[u].pc = task[u].pc /\ task'[u].op = task[u].op
      /\ task'[u].tab = task[u].tab /\ task'[u].chosen = task[u].chosen
  BY <1>1 DEF Task
<1>3. AgentOf' = AgentOf /\ MaxPerAgent' = MaxPerAgent
  BY DEF AgentOf, MaxPerAgent
<1>4. \A i \in DOMAIN tabs : /\ i \in DOMAIN tabs' /\ tabs'[i].opener = tabs[i].opener
                             /\ i \in (OpenTabs \ lost)' => i \in OpenTabs \ lost
                             /\ ~ tabs[i].open => ~ tabs'[i].open
                             /\ ~ tabs[i].blank => ~ tabs'[i].blank
  BY DEF TabsStep, OpenTabs
<1>5. \A i \in DOMAIN tabs : (Drivable(u, i) => Drivable(u, i)') /\ (Owns(u, i) => Owns(u, i)')
  BY <1>3, <1>4 DEF Drivable, Owns
<1>6. \A i : (Owns(u, i) => Owns(u, i)') /\ (Sweepable(u, i) => Sweepable(u, i)')
  BY <1>3, <1>4, <1>5 DEF Owns, Sweepable
<1>7. ASSUME task[u].pc = "creating", NoBlank(u)
      PROVE  NoBlank(u)'
  <2> SUFFICES ASSUME NEW i \in (OpenTabs \ lost)', tabs'[i].opener = AgentOf[u]
               PROVE  ~ tabs'[i].blank
    BY <1>3 DEF NoBlank
  <2>1. i \in DOMAIN tabs'
    BY DEF OpenTabs
  <2>2. i \in DOMAIN tabs
    BY <1>7, <2>1
  <2> QED BY <1>4, <1>7, <2>2 DEF NoBlank
<1>8. task[u].pc \in {"creating", "created"} =>
        (CanCreate(ledger, AgentOf[u]) => CanCreate(ledger, AgentOf[u])')
  BY <1>3 DEF CanCreate, OwnedBy
<1>9. ASSUME task[u].pc \in {"guard", "queued"}, task[u].op = "drive"
      PROVE  task[u].tab \in DOMAIN tabs'
  BY <1>4, <1>9 DEF Relies
<1>10. ASSUME task[u].pc = "queued", task[u].op = "drive", task[u].tab \in (OpenTabs \ lost)'
       PROVE  Drivable(u, task[u].tab)'
  <2>1. task[u].tab \in DOMAIN tabs
    BY <1>10 DEF Relies
  <2>2. Drivable(u, task[u].tab)
    BY <1>4, <1>10, <2>1 DEF Relies
  <2> QED BY <1>2, <1>3, <1>4, <2>1, <2>2 DEF Drivable
<1>11. ASSUME task[u].pc = "untrack"
       PROVE  task[u].tab \in DOMAIN tabs' /\ ~ tabs'[task[u].tab].open
  BY <1>4, <1>11 DEF Relies
<1>12. ASSUME task[u].pc = "sweep", NEW j \in task[u].chosen
       PROVE  Sweepable(u, j)'
  BY <1>6, <1>12 DEF Relies
<1>13. ASSUME task[u].pc \in {"created", "navigate", "remove"}
       PROVE  Owns(u, task[u].tab)'
  <2>1. Owns(u, task[u].tab)
    BY <1>13 DEF Relies
  <2> QED BY <1>2, <1>3, <1>4, <2>1 DEF Owns
<1>14. /\ task[u].pc = "create" => task[u].op = "new"
       /\ task[u].pc = "adopt" => task[u].op \in Opening \ {"new"}
       /\ task[u].pc \in {"creating", "created"} =>
             task[u].op \in Opening \ {"recheck"} /\ CanCreate(ledger, AgentOf[u])
       /\ task[u].pc = "creating" /\ task[u].op # "new" => NoBlank(u)
       /\ task[u].pc \in {"cleanup", "sweep"} => (task[u].op = "popup" <=> AgentOf[u] = Popup)
  BY DEF Relies
<1> QED
  BY <1>2, <1>3, <1>7, <1>8, <1>9, <1>10, <1>11, <1>12, <1>13, <1>14 DEF Relies

-----------------------------------------------------------------------------
\* What remains to be shown of a step of one command.
LEMMA InvKept ==
    ASSUME Inv, cast' = cast, NEW t \in Tasks, TabsStep,
           loaded => loaded', loaded' \in BOOLEAN, lost' = lost, kills' = kills,
           task' \in [Tasks -> Task], tail' \in Tails, Others(t), LockStep(t),
           ledger' = ledger \/ Holds(t),
           \A i \in DOMAIN tabs' \ DOMAIN tabs :
              tabs'[i].opener = AgentOf[t] /\ task[t].pc = "creating",
           Ledgers', Legacy', Accounted', IsLedger(ledger'), IsLedger(stored'),
           Relies(t)'
    PROVE  Inv'
<1>1. TypeOK /\ Locked
  BY DEF Inv
<1>2. Locked' /\ lock' \in Seq(Tasks)
  BY <1>1, LockedKept
<1>3. TypeOK'
  <2>1. cast' \in Casts /\ kills' \in 0 .. cast'.kills /\ lost' \subseteq TabIds
    BY <1>1 DEF TypeOK
  <2>2. Cardinality(DOMAIN stored') <= MaxTotal
    BY DEF Ledgers, Small
  <2> QED BY <1>2, <2>1, <2>2 DEF TypeOK, TabsStep, Tails
<1>4. ASSUME NEW u \in Tasks, u # t
      PROVE  Relies(u)'
  <2>1. Relies(u)
    BY DEF Inv, Reliable
  <2>2. task[u].pc \in Held => Holds(u)
    BY <1>1 DEF Locked
  <2>3. task[t].pc = "creating" => Holds(t)
    BY <1>1 DEF Locked, Held
  <2>4. task[u].pc \in {"creating", "created"} => ledger' = ledger
    BY <1>1, <1>4, <2>2, OneHolder DEF Held
  <2>5. task[u].pc = "creating" =>
          \A i \in DOMAIN tabs' \ DOMAIN tabs : tabs'[i].opener # AgentOf[u]
    BY <1>1, <1>4, <2>2, <2>3, OneHolder DEF Held
  <2>6. task'[u] = task[u] \/ task'[u] = [task[u] EXCEPT !.after = NoTask]
    BY <1>4 DEF Others
  <2> QED BY <1>1, <2>1, <2>4, <2>5, <2>6, OtherRelies
<1>5. Reliable'
  BY <1>4 DEF Reliable
<1> QED BY <1>2, <1>3, <1>5 DEF Inv

\* Most steps record no tab.
LEMMA CommandStep ==
    ASSUME Inv, cast' = cast, NEW t \in Tasks, TabsStep, Shrinks,
           loaded => loaded', lost' = lost, kills' = kills,
           task' \in [Tasks -> Task], tail' \in Tails, Others(t), LockStep(t),
           ledger' = ledger \/ Holds(t), task[t].pc # "created",
           \A i \in DOMAIN tabs' \ DOMAIN tabs :
              /\ tabs'[i].opener = AgentOf[t] /\ task[t].pc = "creating"
              /\ task'[t].pc = "created" /\ task'[t].tab = i,
           Relies(t)'
    PROVE  Inv'
<1>1. TypeOK /\ Ledgers /\ Legacy /\ Accounted
  BY DEF Inv
<1>2. Ledgers' /\ IsLedger(ledger') /\ IsLedger(stored')
  BY <1>1, LedgersKept
<1>3. task[t].pc = "creating" => AgentOf[t] \in Agents
  BY DEF Inv, Reliable, Relies, CanCreate
<1>4. Legacy'
  BY <1>1, <1>3, LegacyKept, Names
<1>5. Accounted'
  <2>1. ASSUME NEW u \in Tasks, task[u].pc = "created"
        PROVE  task'[u].pc = "created" /\ task'[u].tab = task[u].tab
    <3>1. u # t /\ task[u] \in Task
      BY <1>1, <2>1, TaskType
    <3> QED BY <2>1, <3>1 DEF Others, Task
  <2> QED BY <1>1, <1>2, <2>1, AccountedKept
<1>6. loaded' \in BOOLEAN
  BY DEF Shrinks
<1> QED BY <1>2, <1>4, <1>5, <1>6, InvKept

\* A command that ended relies on nothing.
LEMMA IdleRelies ==
    ASSUME NEW t, task'[t] = Idle
    PROVE  Relies(t)'
BY IdleType DEF Relies, Idle

-----------------------------------------------------------------------------
\* The steps of a command, one by one.
Below == {p \in Nat \X Nat : p[1] < p[2]}

LEMMA BelowWellFounded == IsWellFoundedOn(Below, Nat)
BY NatLessThanWellFounded DEF OpToRel, Below

LEMMA LeastType ==
    ASSUME NEW S \in SUBSET TabIds, S # {}
    PROVE  Least(S) \in S
<1>1. S \in SUBSET Nat
  BY DEF TabIds
<1>2. PICK x \in S : \A y \in S : ~ (<<y, x>> \in Below)
  BY <1>1, BelowWellFounded, WFMin
<1>3. ASSUME NEW y \in S PROVE x <= y
  <2>1. x \in Nat /\ y \in Nat
    BY <1>1
  <2>2. ~ (y < x)
    BY <1>2, <2>1 DEF Below
  <2> QED BY <2>1, <2>2
<1> QED BY <1>3 DEF Least

\* Where a command is, is where the proofs need it to be.
LEMMA Places ==
    /\ Waiting \subseteq Phases /\ Held \subseteq Phases /\ Busy \subseteq Phases
    /\ {"idle", "queued", "navigate", "remove"} \subseteq Phases \ Busy
    /\ Waiting \cap Held = {} /\ Waiting \subseteq Busy /\ Held \subseteq Busy
    /\ {"guard", "create", "adopt", "closing", "untrack", "list", "cleanup"} = Waiting
    /\ {"creating", "created", "rollback", "sweep"} = Held
BY DEF Waiting, Held, Busy, Phases

\* A command that ends, with or without the lock, having recorded nothing.
LEMMA EndStep ==
    ASSUME Inv, cast' = cast, NEW t \in Tasks, Ends(t),
           (lock' = Tail(lock) /\ Holds(t)) \/ (lock' = lock /\ task[t].pc \notin Busy),
           TabsStep, NoneOpened, Shrinks, loaded => loaded', lost' = lost, kills' = kills,
           ledger' = ledger \/ Holds(t), task[t].pc # "created"
    PROVE  Inv'
<1>1. TypeOK
  BY DEF Inv
<1>2. task' \in [Tasks -> Task] /\ tail' \in Tails /\ task'[t] = Idle /\ Others(t)
  BY <1>1, EndsEffect
<1>3. task'[t].pc \notin Busy
  BY <1>2, IdleType, Places
<1>4. LockStep(t)
  BY <1>3 DEF LockStep, Stays, Leaves
<1>5. Relies(t)'
  BY <1>2, IdleRelies
<1> QED BY <1>2, <1>4, <1>5, CommandStep DEF NoneOpened

LEMMA StorageFailsKeeps ==
    ASSUME Inv, cast' = cast, NEW t \in Tasks, StorageFails(t)
    PROVE  Inv'
<1>1. TypeOK /\ Ledgers
  BY DEF Inv
<1>2. /\ Holds(t) /\ Unprepared /\ Ends(t) /\ lock' = Tail(lock) /\ task[t].pc # "created"
      /\ UNCHANGED <<tabs, active, removed>> /\ lost' = lost /\ kills' = kills
  BY Places DEF StorageFails, Release
<1>3. TabsStep /\ NoneOpened /\ Shrinks /\ (loaded => loaded')
  BY <1>1, <1>2, SameTabs, UnpreparedStep
<1> QED BY <1>2, <1>3, EndStep

\* A turn of the lock that begins with a reconciled ledger.
LEMMA ReconcilingStep ==
    ASSUME Inv, Prepared, ledger' = Reconciled, UNCHANGED <<tabs, active, removed, lost, kills>>
    PROVE  /\ TabsStep /\ NoneOpened /\ Shrinks /\ loaded' /\ lost' = lost /\ kills' = kills
           /\ OpenTabs' = OpenTabs /\ tabs' = tabs
BY SameTabs, PreparedStep DEF Inv

\* What the reconciled ledger says of an open tab that no kill made ordinary,
\* while nobody is recording one.
LEMMA ReconciledKnows ==
    ASSUME Inv, NEW t \in Tasks, Holds(t), task[t].pc \in Waiting
    PROVE  /\ \A i \in OpenTabs \ lost : tabs[i].opener # User =>
                 i \in DOMAIN Reconciled /\ Reconciled[i] = tabs[i].opener
           /\ \A i \in DOMAIN Reconciled : /\ i \in OpenTabs /\ i \in DOMAIN tabs
                                           /\ Reconciled[i] = tabs[i].opener
                                           /\ tabs[i].opener # User
<1>1. TypeOK /\ Locked /\ Ledgers /\ Legacy /\ Accounted
  BY DEF Inv
<1>2. /\ DOMAIN Reconciled = DOMAIN Memory \cap OpenTabs
      /\ \A i \in DOMAIN Reconciled : Reconciled[i] = Memory[i]
  BY <1>1, ReconciledType
<1>3. Faithful(Memory)
  BY <1>1, MemoryFaithful
<1>4. \A u \in Tasks : task[u].pc # "created"
  <2>1. task[t].pc \notin Held
    BY Places
  <2> QED BY <1>1, <2>1, OneHolder, Places
<1>5. ASSUME NEW i \in OpenTabs \ lost, tabs[i].opener # User
      PROVE  i \in DOMAIN Reconciled /\ Reconciled[i] = tabs[i].opener
  <2>1. tabs[i].opener \in Agents \cup {NoAgent}
    BY <1>1, <1>5, TabType DEF Tab
  <2>2. i \in DOMAIN Memory
    BY <1>1, <1>4, <2>1 DEF Legacy, Accounted
  <2> QED BY <1>2, <1>3, <2>2 DEF Faithful
<1>6. ASSUME NEW i \in DOMAIN Reconciled
      PROVE  /\ i \in OpenTabs /\ i \in DOMAIN tabs /\ Reconciled[i] = tabs[i].opener
             /\ tabs[i].opener # User
  BY <1>2, <1>3 DEF Faithful
<1> QED BY <1>5, <1>6

LEMMA GuardKeeps ==
    ASSUME Inv, cast' = cast, NEW t \in Tasks, Guard(t)
    PROVE  Inv'
<1>1. TypeOK /\ Relies(t)
  BY DEF Inv, Reliable
<1>2. /\ Holds(t) /\ task[t].pc = "guard" /\ Prepared /\ ledger' = Reconciled
      /\ lock' = Tail(lock) /\ UNCHANGED <<tabs, active, removed, lost, kills>>
      /\ IF Access(Reconciled, task[t].tab, AgentOf[t]) = "foreign"
         THEN Ends(t) ELSE Queues(t, task[t].tab)
  BY DEF Guard, Release
<1>3. /\ TabsStep /\ NoneOpened /\ Shrinks /\ loaded' /\ lost' = lost /\ kills' = kills
      /\ OpenTabs' = OpenTabs /\ tabs' = tabs
  BY <1>2, ReconcilingStep
<1>4. CASE Access(Reconciled, task[t].tab, AgentOf[t]) = "foreign"
  BY <1>2, <1>3, <1>4, EndStep
<1>5. CASE Access(Reconciled, task[t].tab, AgentOf[t]) # "foreign"
  <2>1. /\ task' = [task EXCEPT ![t].pc = "queued", ![t].after = tail[task[t].tab]]
        /\ tail' = [tail EXCEPT ![task[t].tab] = t]
    BY <1>2, <1>5 DEF Queues
  <2>2. task \in [Tasks -> Task] /\ tail \in Tails /\ task[t] \in Task
        /\ task[t].tab \in TabIds \cup {NoTab}
    BY <1>1, TaskType DEF TypeOK, Tails
  <2>3. tail[task[t].tab] \in Tasks \cup {NoTask} /\ tail' \in Tails
    BY <2>1, <2>2 DEF Tails
  <2> DEFINE r == [task[t] EXCEPT !.pc = "queued", !.after = tail[task[t].tab]]
  <2>4. "queued" \in Phases /\ "queued" \notin Busy
    BY Places
  <2>5. r \in Task /\ r.pc = "queued" /\ r.op = task[t].op /\ r.tab = task[t].tab
    BY <2>2, <2>3, <2>4 DEF Task
  <2>6. task' = [task EXCEPT ![t] = r]
    BY <2>1, <2>2
  <2> HIDE DEF r
  <2>7. task' \in [Tasks -> Task] /\ task'[t] = r /\ Others(t)
    BY <1>1, <2>5, <2>6, MovesEffect
  <2>8. LockStep(t)
    BY <1>2, <2>4, <2>5, <2>7 DEF LockStep, Leaves
  <2>9. task[t].op = "drive" => task[t].tab \in DOMAIN tabs
    BY <1>1, <1>2 DEF Relies
  <2>10. ASSUME task[t].op = "drive", task[t].tab \in OpenTabs \ lost
         PROVE  Drivable(t, task[t].tab)
    <3>1. ASSUME tabs[task[t].tab].opener # User
          PROVE  tabs[task[t].tab].opener = AgentOf[t] /\ AgentOf[t] \in Agents
      <4>1. /\ task[t].tab \in DOMAIN Reconciled
            /\ Reconciled[task[t].tab] = tabs[task[t].tab].opener
        BY <1>2, <2>10, <3>1, ReconciledKnows, Places
      <4>2. task[t].tab \in OwnedBy(Reconciled, AgentOf[t])
        BY <1>5, <4>1 DEF Access
      <4> QED BY <4>1, <4>2 DEF OwnedBy
    <3> QED BY <3>1 DEF Drivable
  <2>11. AgentOf' = AgentOf
    BY DEF AgentOf
  <2>12. Relies(t)'
    BY <1>2, <1>3, <2>5, <2>7, <2>9, <2>10, <2>11 DEF Relies, Drivable
  <2> QED BY <1>2, <1>3, <2>3, <2>7, <2>8, <2>12, CommandStep DEF NoneOpened
<1> QED BY <1>4, <1>5

LEMMA BeginOpeningKeeps ==
    ASSUME Inv, cast' = cast, NEW t \in Tasks, BeginOpening(t)
    PROVE  Inv'
<1>1. TypeOK /\ Ledgers
  BY DEF Inv
<1> DEFINE p == IF task[t].op = "new" THEN "create" ELSE "adopt"
<1>2. /\ task[t].pc = "queued" /\ task[t].op \in Opening
      /\ task' = [task EXCEPT ![t].pc = p, ![t].tab = NoTab]
      /\ lock' = Append(lock, t) /\ tail' = tail
      /\ UNCHANGED <<tabs, active, removed>> /\ UNCHANGED worker /\ lost' = lost /\ kills' = kills
  BY DEF BeginOpening, MyTurn, Enqueue
<1>3. p \in Waiting /\ p \in Phases /\ p \in {"create", "adopt"}
  BY Places
<1>4. p = "create" => task[t].op = "new"
  OBVIOUS
<1>5. p = "adopt" => task[t].op \in Opening \ {"new"}
  BY <1>2
<1> HIDE DEF p
<1>6. NoTab \in TabIds \cup {NoTab}
  OBVIOUS
<1>7. task' \in [Tasks -> Task] /\ Others(t) /\ task'[t].pc = p /\ task'[t].op = task[t].op
  BY <1>1, <1>2, <1>3, <1>6, GoesWithTab
<1>8. TabsStep /\ NoneOpened /\ Shrinks
  BY <1>1, <1>2, SameTabs, SameWorker
<1>9. LockStep(t)
  BY <1>2, <1>3, <1>7, Places DEF LockStep, Joins
<1>10. Relies(t)'
  BY <1>3, <1>4, <1>5, <1>7 DEF Relies
<1>11. ledger' = ledger /\ loaded' = loaded /\ tail' \in Tails
  BY <1>1, <1>2 DEF worker, TypeOK, Tails
<1> QED BY <1>2, <1>7, <1>8, <1>9, <1>10, <1>11, CommandStep DEF NoneOpened

LEMMA BeginCloseKeeps ==
    ASSUME Inv, cast' = cast, NEW t \in Tasks, BeginClose(t)
    PROVE  Inv'
<1>1. TypeOK /\ Ledgers
  BY DEF Inv
<1>2. /\ task[t].pc = "queued" /\ Goes(t, "closing")
      /\ lock' = Append(lock, t) /\ tail' = tail
      /\ UNCHANGED <<tabs, active, removed>> /\ UNCHANGED worker /\ lost' = lost /\ kills' = kills
  BY DEF BeginClose, MyTurn, Enqueue
<1>3. "closing" \in Waiting /\ "closing" \in Phases
  BY Places
<1>4. task' \in [Tasks -> Task] /\ Others(t) /\ task'[t].pc = "closing"
  BY <1>1, <1>2, <1>3, GoesEffect
<1>5. TabsStep /\ NoneOpened /\ Shrinks
  BY <1>1, <1>2, SameTabs, SameWorker
<1>6. LockStep(t)
  BY <1>2, <1>3, <1>4, Places DEF LockStep, Joins
<1>7. Relies(t)'
  BY <1>4 DEF Relies
<1>8. ledger' = ledger /\ loaded' = loaded /\ tail' \in Tails
  BY <1>1, <1>2 DEF worker, TypeOK, Tails
<1> QED BY <1>2, <1>4, <1>5, <1>6, <1>7, <1>8, CommandStep DEF NoneOpened

\* A command that holds nothing acts on its tab and ends.
LEMMA DriveKeeps ==
    ASSUME Inv, cast' = cast, NEW t \in Tasks, Drive(t) \/ TargetGone(t) \/ Navigate(t)
    PROVE  Inv'
<1>1. TypeOK /\ Ledgers
  BY DEF Inv
<1>2. /\ task[t].pc \in {"queued", "navigate"} /\ Ends(t)
      /\ UNCHANGED <<active, removed>> /\ UNCHANGED worker /\ lock' = lock
      /\ lost' = lost /\ kills' = kills
      /\ \/ tabs' = tabs
         \/ IsOpen(task[t].tab) /\ tabs' = [tabs EXCEPT ![task[t].tab].blank = FALSE]
  BY DEF Drive, TargetGone, Navigate, MyTurn
<1>3. TabsStep /\ NoneOpened
  <2>1. CASE tabs' = tabs
    BY <1>1, <1>2, <2>1, SameTabs
  <2>2. CASE IsOpen(task[t].tab) /\ tabs' = [tabs EXCEPT ![task[t].tab].blank = FALSE]
    <3>1. task[t].tab \in DOMAIN tabs
      BY <2>2 DEF IsOpen
    <3> QED BY <1>1, <1>2, <2>2, <3>1, BlankStep
  <2> QED BY <1>2, <2>1, <2>2
<1>4. Shrinks /\ ledger' = ledger /\ loaded' = loaded
  BY <1>1, <1>2, SameWorker DEF worker
<1>5. task[t].pc \notin Busy /\ task[t].pc # "created"
  BY <1>2, Places
<1> QED BY <1>2, <1>3, <1>4, <1>5, EndStep

\* The holder of the lock finds that a tab may be created.
LEMMA CreatingStep ==
    ASSUME Inv, cast' = cast, NEW t \in Tasks, Holds(t), task[t].pc \in Waiting, Prepared,
           ledger' = Reconciled, UNCHANGED <<tabs, active, removed, lost, kills>>,
           CanCreate(Reconciled, AgentOf[t]), Goes(t, "creating"), UNCHANGED <<lock, tail>>,
           task[t].op \in Opening \ {"recheck"}, task[t].op # "new" => NoBlank(t)
    PROVE  Inv'
<1>1. TypeOK
  BY DEF Inv
<1>2. /\ TabsStep /\ NoneOpened /\ Shrinks /\ loaded' /\ lost' = lost /\ kills' = kills
      /\ OpenTabs' = OpenTabs /\ tabs' = tabs
  BY ReconcilingStep
<1>3. "creating" \in Phases /\ "creating" \in Held
  BY Places
<1>4. /\ task' \in [Tasks -> Task] /\ Others(t)
      /\ task'[t].pc = "creating" /\ task'[t].op = task[t].op
  BY <1>1, <1>3, GoesEffect
<1>5. LockStep(t)
  BY <1>2, <1>3, <1>4 DEF LockStep, Stays
<1>6. AgentOf' = AgentOf /\ MaxPerAgent' = MaxPerAgent
  BY DEF AgentOf, MaxPerAgent
<1>7. CanCreate(ledger, AgentOf[t])'
  BY <1>6 DEF CanCreate, OwnedBy
<1>8. task[t].op # "new" => NoBlank(t)'
  BY <1>2, <1>6 DEF NoBlank
<1>9. Relies(t)'
  BY <1>4, <1>7, <1>8 DEF Relies
<1>10. tail' \in Tails
  BY <1>1 DEF TypeOK, Tails
<1>11. task[t].pc # "created"
  BY Places
<1> QED BY <1>2, <1>4, <1>5, <1>9, <1>10, <1>11, CommandStep DEF NoneOpened

LEMMA CreateKeeps ==
    ASSUME Inv, cast' = cast, NEW t \in Tasks, Create(t)
    PROVE  Inv'
<1>1. Relies(t)
  BY DEF Inv, Reliable
<1>2. /\ Holds(t) /\ task[t].pc = "create" /\ Prepared /\ ledger' = Reconciled
      /\ UNCHANGED <<tabs, active, removed, lost, kills>> /\ CreatesOrRefuses(t)
  BY DEF Create
<1>3. task[t].op = "new"
  BY <1>1, <1>2 DEF Relies
<1>4. "new" \in Opening \ {"recheck"} /\ task[t].pc \in Waiting /\ task[t].pc # "created"
  BY <1>2, Places DEF Opening
<1>5. CASE CanCreate(Reconciled, AgentOf[t])
  <2>1. Goes(t, "creating") /\ UNCHANGED <<lock, tail>>
    BY <1>2, <1>5 DEF CreatesOrRefuses
  <2> QED BY <1>2, <1>3, <1>4, <1>5, <2>1, CreatingStep
<1>6. CASE ~ CanCreate(Reconciled, AgentOf[t])
  <2>1. Ends(t) /\ lock' = Tail(lock)
    BY <1>2, <1>6 DEF CreatesOrRefuses, Release
  <2>2. TabsStep /\ NoneOpened /\ Shrinks /\ loaded' /\ lost' = lost /\ kills' = kills
    BY <1>2, ReconcilingStep
  <2> QED BY <1>2, <1>4, <2>1, <2>2, EndStep
<1> QED BY <1>5, <1>6

LEMMA AdoptKeeps ==
    ASSUME Inv, cast' = cast, NEW t \in Tasks, Adopt(t)
    PROVE  Inv'
<1> DEFINE blanks == Adoptable(Reconciled, AgentOf[t])
<1>1. TypeOK /\ Relies(t)
  BY DEF Inv, Reliable
<1>2. /\ Holds(t) /\ task[t].pc = "adopt" /\ Prepared /\ ledger' = Reconciled
      /\ UNCHANGED <<tabs, active, removed, lost, kills>>
  BY DEF Adopt
<1>3. task[t].op \in Opening \ {"new"} /\ task[t].pc \in Waiting /\ task[t].pc # "created"
  BY <1>1, <1>2, Places DEF Relies
<1>4. /\ TabsStep /\ NoneOpened /\ Shrinks /\ loaded' /\ lost' = lost /\ kills' = kills
      /\ OpenTabs' = OpenTabs /\ tabs' = tabs
  BY <1>2, ReconcilingStep
<1>5. /\ \A i \in OpenTabs \ lost : tabs[i].opener # User =>
            i \in DOMAIN Reconciled /\ Reconciled[i] = tabs[i].opener
      /\ \A i \in DOMAIN Reconciled : /\ i \in OpenTabs /\ i \in DOMAIN tabs
                                      /\ Reconciled[i] = tabs[i].opener
                                      /\ tabs[i].opener # User
  BY <1>2, <1>3, ReconciledKnows
<1>6. CASE blanks # {}
  <2>1. /\ task' = [task EXCEPT ![t].pc = "navigate", ![t].tab = Least(blanks)]
        /\ lock' = Tail(lock) /\ tail' = tail
    BY <1>6 DEF Adopt, Release
  <2>2. blanks \subseteq DOMAIN Reconciled /\ blanks \subseteq TabIds
    BY <1>1, <1>5, TabType DEF Adoptable, OwnedBy
  <2>3. Least(blanks) \in blanks
    BY <1>6, <2>2, LeastType
  <2>4. Owns(t, Least(blanks))
    BY <1>5, <2>2, <2>3 DEF Owns, Adoptable, OwnedBy
  <2>5. "navigate" \in Phases /\ "navigate" \notin Busy
    BY Places
  <2>6. Least(blanks) \in TabIds \cup {NoTab}
    BY <2>2, <2>3
  <2> HIDE DEF blanks
  <2>7. /\ task' \in [Tasks -> Task] /\ Others(t) /\ task'[t].pc = "navigate"
        /\ task'[t].op = task[t].op /\ task'[t].tab = Least(blanks)
    BY <1>1, <2>1, <2>5, <2>6, GoesWithTab
  <2>8. LockStep(t)
    BY <1>2, <2>1, <2>5, <2>7 DEF LockStep, Leaves
  <2>9. AgentOf' = AgentOf
    BY DEF AgentOf
  <2>10. Owns(t, task'[t].tab) /\ Owns(t, task[t].tab)'
    BY <1>4, <2>4, <2>7, <2>9 DEF Owns
  <2>11. Relies(t)'
    BY <1>3, <2>7, <2>10 DEF Relies
  <2>12. tail' \in Tails
    BY <1>1, <2>1 DEF TypeOK, Tails
  <2> QED BY <1>2, <1>3, <1>4, <2>7, <2>8, <2>11, <2>12, CommandStep DEF NoneOpened
<1>7. CASE blanks = {} /\ task[t].op = "recheck"
  <2>1. Ends(t) /\ lock' = Tail(lock)
    BY <1>7 DEF Adopt, Release
  <2> QED BY <1>2, <1>3, <1>4, <2>1, EndStep
<1>8. CASE blanks = {} /\ task[t].op # "recheck"
  <2>1. CreatesOrRefuses(t)
    BY <1>8 DEF Adopt
  <2>2. CASE CanCreate(Reconciled, AgentOf[t])
    <3>1. Goes(t, "creating") /\ UNCHANGED <<lock, tail>>
      BY <2>1, <2>2 DEF CreatesOrRefuses
    <3>2. NoBlank(t)
      <4> SUFFICES ASSUME NEW i \in OpenTabs \ lost, tabs[i].opener = AgentOf[t], tabs[i].blank
                   PROVE  FALSE
        BY DEF NoBlank
      <4>1. AgentOf[t] \in Agents /\ AgentOf[t] # User
        BY <2>2, Names DEF CanCreate
      <4>2. i \in DOMAIN Reconciled /\ Reconciled[i] = AgentOf[t]
        BY <1>5, <4>1
      <4>3. i \in blanks
        BY <4>1, <4>2 DEF Adoptable, OwnedBy, IsOpen, OpenTabs
      <4> QED BY <1>8, <4>3
    <3> QED BY <1>2, <1>3, <1>8, <2>2, <3>1, <3>2, CreatingStep
  <2>3. CASE ~ CanCreate(Reconciled, AgentOf[t])
    <3>1. Ends(t) /\ lock' = Tail(lock)
      BY <2>1, <2>3 DEF CreatesOrRefuses, Release
    <3> QED BY <1>2, <1>3, <1>4, <3>1, EndStep
  <2> QED BY <2>2, <2>3
<1> QED BY <1>6, <1>7, <1>8

LEMMA TabCreatedKeeps ==
    ASSUME Inv, cast' = cast, NEW t \in Tasks, TabCreated(t)
    PROVE  Inv'
<1> DEFINE new == Len(tabs) + 1
<1>1. TypeOK /\ Ledgers /\ Locked /\ Relies(t)
  BY DEF Inv, Reliable
<1>2. /\ task[t].pc = "creating" /\ Len(tabs) < MaxTabs /\ active' \in {active, new}
      /\ task' = [task EXCEPT ![t].pc = "created", ![t].tab = new]
      /\ removed' = removed /\ UNCHANGED worker /\ lock' = lock /\ tail' = tail
      /\ lost' = lost /\ kills' = kills
  BY DEF TabCreated
<1>3. PICK blank \in BOOLEAN : tabs' = Append(tabs, NewTab(AgentOf[t], blank))
  BY DEF TabCreated
<1>4. "created" \in Phases /\ "created" \in Held /\ "creating" \in Held
  BY Places
<1>5. Holds(t) /\ loaded
  BY <1>1, <1>2, <1>4 DEF Locked
<1>6. /\ task[t].op \in Opening \ {"recheck"} /\ CanCreate(ledger, AgentOf[t])
      /\ AgentOf[t] \in Agents
  BY <1>1, <1>2 DEF Relies, CanCreate
<1>7. NewTab(AgentOf[t], blank) \in Tab /\ NewTab(AgentOf[t], blank).opener = AgentOf[t]
  BY <1>6 DEF NewTab, Tab
<1>8. /\ TabsStep /\ DOMAIN tabs' = DOMAIN tabs \cup {new}
      /\ tabs'[new] = NewTab(AgentOf[t], blank) /\ new \in TabIds
  BY <1>1, <1>2, <1>3, <1>7, OpenStep
<1>9. Shrinks /\ ledger' = ledger /\ loaded' = loaded
  BY <1>1, <1>2, SameWorker DEF worker
<1>10. new \in TabIds \cup {NoTab}
  BY <1>8
<1> HIDE DEF new
<1>11. /\ task' \in [Tasks -> Task] /\ Others(t) /\ task'[t].pc = "created"
       /\ task'[t].op = task[t].op /\ task'[t].tab = new
  BY <1>1, <1>2, <1>4, <1>10, GoesWithTab
<1>12. LockStep(t)
  BY <1>2, <1>4, <1>5, <1>9, <1>11 DEF LockStep, Stays
<1>13. AgentOf' = AgentOf /\ MaxPerAgent' = MaxPerAgent
  BY DEF AgentOf, MaxPerAgent
<1>14. CanCreate(ledger, AgentOf[t])'
  BY <1>6, <1>9, <1>13 DEF CanCreate, OwnedBy
<1>15. Owns(t, task[t].tab)'
  BY <1>6, <1>7, <1>8, <1>11, <1>13 DEF Owns
<1>16. Relies(t)'
  BY <1>6, <1>11, <1>14, <1>15 DEF Relies
<1>17. tail' \in Tails
  BY <1>1, <1>2 DEF TypeOK, Tails
<1>18. \A i \in DOMAIN tabs' \ DOMAIN tabs :
          /\ tabs'[i].opener = AgentOf[t] /\ task[t].pc = "creating"
          /\ task'[t].pc = "created" /\ task'[t].tab = i
  BY <1>2, <1>7, <1>8, <1>11
<1>19. task[t].pc # "created"
  BY <1>2
<1> QED BY <1>2, <1>8, <1>9, <1>11, <1>12, <1>16, <1>17, <1>18, <1>19, CommandStep

LEMMA TabRefusedKeeps ==
    ASSUME Inv, cast' = cast, NEW t \in Tasks, TabRefused(t)
    PROVE  Inv'
<1>1. TypeOK /\ Ledgers /\ Locked
  BY DEF Inv
<1>2. /\ task[t].pc = "creating" /\ Ends(t) /\ lock' = Tail(lock)
      /\ UNCHANGED <<tabs, active, removed>> /\ UNCHANGED worker /\ lost' = lost /\ kills' = kills
  BY DEF TabRefused, Release
<1>3. Holds(t)
  BY <1>1, <1>2, Places DEF Locked
<1>4. TabsStep /\ NoneOpened /\ Shrinks /\ ledger' = ledger /\ loaded' = loaded
  BY <1>1, <1>2, SameTabs, SameWorker DEF worker
<1> QED BY <1>2, <1>3, <1>4, EndStep

\* A new tab is recorded for its agent, within the allowances.
LEMMA RecordedType ==
    ASSUME Inv, NEW t \in Tasks, task[t].pc = "created"
    PROVE  /\ Holds(t) /\ loaded /\ Owns(t, task[t].tab) /\ task[t].op \in Opening \ {"recheck"}
           /\ IsLedger(Recorded(t)) /\ Faithful(Recorded(t)) /\ Small(Recorded(t), MaxPerAgent)
           /\ DOMAIN Recorded(t) = DOMAIN ledger \cup {task[t].tab}
<1> DEFINE i == task[t].tab
<1> DEFINE a == AgentOf[t]
<1>1. TypeOK /\ Ledgers /\ Locked /\ Relies(t)
  BY DEF Inv, Reliable
<1>2. Holds(t) /\ loaded
  BY <1>1, Places DEF Locked
<1>3. /\ Owns(t, i) /\ task[t].op \in Opening \ {"recheck"} /\ CanCreate(ledger, a)
  BY <1>1 DEF Relies
<1>4. i \in DOMAIN tabs /\ i \in TabIds /\ a \in Agents /\ tabs[i].opener = a /\ a # User
  BY <1>1, <1>3, TabType, Names DEF Owns
<1>5. IsLedger(ledger) /\ Faithful(ledger) /\ Memory = ledger
  BY <1>1, <1>2, MemoryType DEF Ledgers, Memory
<1> HIDE DEF i, a
<1>6. Recorded(t) = [j \in DOMAIN ledger \cup {i} |-> IF j = i THEN a ELSE ledger[j]]
  BY DEF Recorded, i, a
<1>7. IsLedger(Recorded(t))
  BY <1>4, <1>5, <1>6 DEF IsLedger, Owners
<1>8. Faithful(Recorded(t))
  BY <1>4, <1>5, <1>6 DEF Faithful
<1>9. Small(Recorded(t), MaxPerAgent)
  <2>1. IsFiniteSet(DOMAIN ledger) /\ Cardinality(DOMAIN ledger) \in Nat
    BY <1>5, FiniteLedger, FS_CardinalityType
  <2>2. /\ DOMAIN Recorded(t) = DOMAIN ledger \cup {i}
        /\ Cardinality(DOMAIN ledger \cup {i}) <= Cardinality(DOMAIN ledger) + 1
    BY <1>6, <2>1, FS_AddElement
  <2>3. /\ Cardinality(DOMAIN ledger) < MaxTotal /\ MaxTotal \in Nat
        /\ Cardinality(OwnedBy(ledger, a)) < MaxPerAgent /\ MaxPerAgent \in Nat
    BY <1>1, <1>3, CastType, LimitsAssumption DEF CanCreate
  <2>4. Cardinality(DOMAIN ledger \cup {i}) \in Nat
    BY <2>1, FS_AddElement, FS_CardinalityType
  <2>5. Cardinality(DOMAIN Recorded(t)) <= MaxTotal
    BY <2>1, <2>2, <2>3, <2>4
  <2>6. ASSUME NEW b \in Agents
        PROVE  Cardinality(OwnedBy(Recorded(t), b)) <= MaxPerAgent
    <3>1. OwnedBy(ledger, b) \subseteq DOMAIN ledger
      BY DEF OwnedBy
    <3>2. IsFiniteSet(OwnedBy(ledger, b)) /\ Cardinality(OwnedBy(ledger, b)) \in Nat
      BY <2>1, <3>1, FS_Subset, FS_CardinalityType
    <3>3. CASE b = a
      <4>1. OwnedBy(Recorded(t), b) = OwnedBy(ledger, b) \cup {i}
        BY <1>4, <1>6, <3>3 DEF OwnedBy
      <4>2. Cardinality(OwnedBy(ledger, b) \cup {i}) <= Cardinality(OwnedBy(ledger, b)) + 1
        <5> DEFINE O == OwnedBy(ledger, b)
        <5>1. Cardinality(O \cup {i}) = IF i \in O THEN Cardinality(O) ELSE Cardinality(O) + 1
          BY <3>2, FS_AddElement
        <5>2. Cardinality(O) \in Nat
          BY <3>2
        <5> HIDE DEF O
        <5>3. Cardinality(O \cup {i}) <= Cardinality(O) + 1
          BY <5>1, <5>2
        <5> QED BY <5>3 DEF O
      <4>3. Cardinality(OwnedBy(ledger, b) \cup {i}) \in Nat
        BY <3>2, FS_AddElement, FS_CardinalityType
      <4> QED BY <2>3, <3>2, <3>3, <4>1, <4>2, <4>3
    <3>4. CASE b # a
      <4>1. OwnedBy(Recorded(t), b) \subseteq OwnedBy(ledger, b)
        BY <1>6, <3>4 DEF OwnedBy
      <4>2. /\ Cardinality(OwnedBy(Recorded(t), b)) <= Cardinality(OwnedBy(ledger, b))
            /\ Cardinality(OwnedBy(Recorded(t), b)) \in Nat
        BY <3>2, <4>1, FS_Subset, FS_CardinalityType
      <4>3. Cardinality(OwnedBy(ledger, b)) <= MaxPerAgent
        BY <1>1, <1>5 DEF Ledgers, Small
      <4> QED BY <2>3, <3>2, <4>2, <4>3
    <3> QED BY <3>3, <3>4
  <2> QED BY <2>5, <2>6 DEF Small
<1> QED BY <1>2, <1>3, <1>6, <1>7, <1>8, <1>9 DEF i

\* What recording it, in memory and perhaps in storage, leaves.
LEMMA RecordsStep ==
    ASSUME Inv, cast' = cast, NEW t \in Tasks, task[t].pc = "created", ledger' = Recorded(t),
           stored' \in {stored, Recorded(t)}, loaded' = loaded, lost' = lost, Others(t),
           UNCHANGED <<tabs, active, removed>>
    PROVE  /\ TabsStep /\ NoneOpened /\ Ledgers' /\ Legacy' /\ Accounted'
           /\ IsLedger(ledger') /\ IsLedger(stored')
<1>1. TypeOK /\ Ledgers /\ Locked /\ Legacy /\ Accounted
  BY DEF Inv
<1>2. TabsStep /\ NoneOpened /\ OpenTabs' = OpenTabs /\ tabs' = tabs
  BY <1>1, SameTabs
<1>3. /\ Holds(t) /\ loaded
      /\ IsLedger(Recorded(t)) /\ Faithful(Recorded(t)) /\ Small(Recorded(t), MaxPerAgent)
      /\ DOMAIN Recorded(t) = DOMAIN ledger \cup {task[t].tab}
  BY RecordedType
<1>4. Memory = ledger /\ Memory' = Recorded(t) /\ MaxPerAgent' = MaxPerAgent
  BY <1>3 DEF Memory, MaxPerAgent
<1>5. IsLedger(ledger') /\ IsLedger(stored')
  BY <1>1, <1>3, MemoryType
<1>6. Faithful(ledger)' /\ Faithful(stored)'
  BY <1>1, <1>2, <1>3 DEF Ledgers, Faithful
<1>7. Small(Memory', MaxPerAgent') /\ Small(stored', MaxPerAgent')
  BY <1>1, <1>3, <1>4 DEF Ledgers
<1>8. Ledgers'
  BY <1>1, <1>2, <1>3, <1>6, <1>7 DEF Ledgers
<1>9. Legacy'
  BY <1>1, <1>2, <1>3, <1>4 DEF Legacy
<1>10. Accounted'
  <2> SUFFICES ASSUME NEW i \in OpenTabs' \ lost', tabs'[i].opener \in Agents
               PROVE  i \in DOMAIN Memory' /\ Memory'[i] = tabs'[i].opener
    BY DEF Accounted
  <2>1. i \in DOMAIN Memory'
    <3>1. CASE i \in DOMAIN Memory
      BY <1>3, <1>4, <3>1
    <3>2. CASE \E u \in Tasks : task[u].pc = "created" /\ task[u].tab = i
      <4>1. task[t].tab = i
        BY <1>1, <1>3, <3>2, OneHolder, Places
      <4> QED BY <1>3, <1>4, <4>1
    <3> QED BY <1>1, <1>2, <3>1, <3>2 DEF Accounted
  <2> QED BY <1>3, <1>4, <1>2, <2>1 DEF Faithful
<1> QED BY <1>2, <1>5, <1>8, <1>9, <1>10

LEMMA SaveCreatedKeeps ==
    ASSUME Inv, cast' = cast, NEW t \in Tasks, SaveCreated(t)
    PROVE  Inv'
<1>1. TypeOK
  BY DEF Inv
<1>2. /\ task[t].pc = "created" /\ ledger' = Recorded(t) /\ stored' = Recorded(t)
      /\ lock' = Tail(lock) /\ UNCHANGED <<tabs, active, removed>>
      /\ loaded' = loaded /\ lost' = lost /\ kills' = kills
      /\ (Ends(t) \/ (Goes(t, "navigate") /\ tail' = tail))
  BY DEF SaveCreated, Release
<1>3. Holds(t) /\ loaded /\ Owns(t, task[t].tab) /\ task[t].op \in Opening
  BY <1>2, RecordedType
<1>4. "navigate" \in Phases /\ "navigate" \notin Busy
  BY Places
<1>5. /\ task' \in [Tasks -> Task] /\ tail' \in Tails /\ Others(t)
      /\ \/ task'[t] = Idle
         \/ /\ task'[t].pc = "navigate" /\ task'[t].op = task[t].op
            /\ task'[t].tab = task[t].tab
  <2>1. CASE Ends(t)
    BY <1>1, <2>1, EndsEffect
  <2>2. CASE Goes(t, "navigate") /\ tail' = tail
    BY <1>1, <1>4, <2>2, GoesEffect DEF TypeOK, Tails
  <2> QED BY <1>2, <2>1, <2>2
<1>6. /\ TabsStep /\ NoneOpened /\ Ledgers' /\ Legacy' /\ Accounted'
      /\ IsLedger(ledger') /\ IsLedger(stored')
  BY <1>2, <1>5, RecordsStep
<1>7. LockStep(t)
  BY <1>2, <1>3, <1>4, <1>5, IdleType, Places DEF LockStep, Leaves
<1>8. Relies(t)'
  <2>1. CASE task'[t] = Idle
    BY <2>1, IdleRelies
  <2>2. CASE task'[t].pc = "navigate" /\ task'[t].op = task[t].op /\ task'[t].tab = task[t].tab
    <3>1. Owns(t, task[t].tab)'
      BY <1>2, <1>3, <2>2 DEF Owns, AgentOf
    <3> QED BY <1>3, <2>2, <3>1 DEF Relies
  <2> QED BY <1>5, <2>1, <2>2
<1>9. loaded' \in BOOLEAN
  BY <1>1, <1>2 DEF TypeOK
<1> QED BY <1>2, <1>3, <1>5, <1>6, <1>7, <1>8, <1>9, InvKept DEF NoneOpened

LEMMA SaveCreatedFailsKeeps ==
    ASSUME Inv, cast' = cast, NEW t \in Tasks, SaveCreatedFails(t)
    PROVE  Inv'
<1>1. TypeOK
  BY DEF Inv
<1>2. /\ task[t].pc = "created" /\ ledger' = Recorded(t) /\ stored' = stored
      /\ Goes(t, "rollback") /\ UNCHANGED <<tabs, active, removed>>
      /\ lock' = lock /\ tail' = tail /\ loaded' = loaded /\ lost' = lost /\ kills' = kills
  BY DEF SaveCreatedFails
<1>3. Holds(t) /\ loaded
  BY <1>2, RecordedType
<1>4. "rollback" \in Phases /\ "rollback" \in Held
  BY Places
<1>5. task' \in [Tasks -> Task] /\ Others(t) /\ task'[t].pc = "rollback"
  BY <1>1, <1>2, <1>4, GoesEffect
<1>6. /\ TabsStep /\ NoneOpened /\ Ledgers' /\ Legacy' /\ Accounted'
      /\ IsLedger(ledger') /\ IsLedger(stored')
  BY <1>2, <1>5, RecordsStep
<1>7. LockStep(t)
  BY <1>2, <1>3, <1>4, <1>5 DEF LockStep, Stays
<1>8. Relies(t)'
  BY <1>5 DEF Relies
<1>9. loaded' \in BOOLEAN /\ tail' \in Tails
  BY <1>1, <1>2 DEF TypeOK, Tails
<1> QED BY <1>2, <1>3, <1>5, <1>6, <1>7, <1>8, <1>9, InvKept DEF NoneOpened

LEMMA RollBackKeeps ==
    ASSUME Inv, cast' = cast, NEW t \in Tasks, RollBack(t)
    PROVE  Inv'
<1> DEFINE i == task[t].tab
<1>1. TypeOK /\ Ledgers /\ Locked
  BY DEF Inv
<1>2. /\ task[t].pc = "rollback" /\ Ends(t) /\ lock' = Tail(lock)
      /\ loaded' = loaded /\ stored' = stored /\ lost' = lost /\ kills' = kills
  BY DEF RollBack, Release
<1>3. Holds(t) /\ loaded
  BY <1>1, <1>2, Places DEF Locked
<1>4. TabsStep /\ NoneOpened /\ Shrinks
  <2>1. CASE IsOpen(i) /\ Closes(i) /\ ledger' = [j \in DOMAIN ledger \ {i} |-> ledger[j]]
    <3>1. TabsStep /\ NoneOpened /\ OpenTabs' = OpenTabs \ {i}
      BY <1>1, <2>1, ClosesStep
    <3>2. {i} \cap OpenTabs' = {}
      BY <3>1
    <3>3. Shrinks
      BY <1>1, <1>2, <1>3, <2>1, <3>2, DropsStep
    <3> QED BY <3>1, <3>3
  <2>2. CASE UNCHANGED <<tabs, active, removed, ledger>>
    BY <1>1, <1>2, <2>2, SameTabs, SameWorker DEF worker
  <2> QED BY <2>1, <2>2 DEF RollBack
<1> QED BY <1>2, <1>3, <1>4, EndStep

\* A command sent now: it queues for the lock, or for its turn.
LEMMA SubmitKeeps ==
    ASSUME Inv, cast' = cast, NEW t \in Tasks, NEW op \in Ops, NEW i \in TabIds \cup {NoTab},
           Submit(t, op, i)
    PROVE  Inv'
<1> DEFINE begun == [Idle EXCEPT !.op = op, !.tab = i]
<1>1. TypeOK /\ Ledgers
  BY DEF Inv
<1>2. /\ task[t].pc = "idle" /\ (op \in Opening \/ IsOpen(i))
      /\ UNCHANGED <<tabs, active, removed>> /\ UNCHANGED worker /\ lost' = lost /\ kills' = kills
      /\ IF i = NoTab
         THEN /\ task' = [task EXCEPT ![t] = [begun EXCEPT !.pc = "queued",
                                                           !.after = tail[NoTab]]]
              /\ tail' = [tail EXCEPT ![NoTab] = t]
              /\ lock' = lock
         ELSE /\ task' = [task EXCEPT ![t] = [begun EXCEPT !.pc = "guard"]]
              /\ lock' = Append(lock, t)
              /\ tail' = tail
  BY DEF Submit, Enqueue
<1>3. op = "drive" => i \in DOMAIN tabs /\ i # NoTab
  BY <1>1, <1>2, TabType DEF IsOpen, Opening
<1>4. tail \in Tails /\ {} \in SUBSET TabIds /\ NoTask \in Tasks \cup {NoTask}
  BY <1>1 DEF TypeOK, Tails
<1>5. begun \in Task /\ begun.op = op /\ begun.tab = i
  <2>1. "idle" \in Phases
    BY Places
  <2> QED BY <1>4, <2>1 DEF Task, Idle
<1> HIDE DEF begun
<1>6. TabsStep /\ NoneOpened /\ Shrinks /\ ledger' = ledger /\ loaded' = loaded
  BY <1>1, <1>2, SameTabs, SameWorker DEF worker
<1>7. /\ "idle" \notin Busy /\ "queued" \in Phases /\ "queued" \notin Busy
      /\ "guard" \in Phases /\ "guard" \in Waiting
  BY Places
<1>8. tabs' = tabs
  BY <1>2
<1>9. CASE i = NoTab
  <2>1. tail[NoTab] \in Tasks \cup {NoTask} /\ tail' \in Tails
    BY <1>2, <1>4, <1>9 DEF Tails
  <2> DEFINE r == [begun EXCEPT !.pc = "queued", !.after = tail[NoTab]]
  <2>2. r \in Task /\ r.pc = "queued" /\ r.op = op
    BY <1>5, <1>7, <2>1 DEF Task
  <2>3. task' = [task EXCEPT ![t] = r] /\ lock' = lock
    BY <1>2, <1>9
  <2> HIDE DEF r
  <2>4. task' \in [Tasks -> Task] /\ task'[t] = r /\ Others(t)
    BY <1>1, <2>2, <2>3, MovesEffect
  <2>5. LockStep(t)
    BY <1>2, <1>7, <2>2, <2>3, <2>4 DEF LockStep, Stays
  <2>6. Relies(t)'
    BY <1>3, <1>9, <2>2, <2>4 DEF Relies
  <2>7. task[t].pc # "created"
    BY <1>2
  <2> QED BY <1>2, <1>6, <2>1, <2>4, <2>5, <2>6, <2>7, CommandStep DEF NoneOpened
<1>10. CASE i # NoTab
  <2> DEFINE r == [begun EXCEPT !.pc = "guard"]
  <2>1. r \in Task /\ r.pc = "guard" /\ r.op = op /\ r.tab = i
    BY <1>5, <1>7 DEF Task
  <2>2. task' = [task EXCEPT ![t] = r] /\ lock' = Append(lock, t) /\ tail' \in Tails
    BY <1>2, <1>4, <1>10
  <2> HIDE DEF r
  <2>3. task' \in [Tasks -> Task] /\ task'[t] = r /\ Others(t)
    BY <1>1, <2>1, <2>2, MovesEffect
  <2>4. LockStep(t)
    BY <1>2, <1>7, <2>1, <2>2, <2>3 DEF LockStep, Joins
  <2>5. Relies(t)'
    BY <1>3, <1>8, <2>1, <2>3 DEF Relies
  <2>6. task[t].pc # "created"
    BY <1>2
  <2> QED BY <1>2, <1>6, <2>2, <2>3, <2>4, <2>5, <2>6, CommandStep DEF NoneOpened
<1> QED BY <1>9, <1>10

LEMMA SubmitUnqueuedKeeps ==
    ASSUME Inv, cast' = cast, NEW t \in Tasks, NEW op \in Ops, SubmitUnqueued(t, op)
    PROVE  Inv'
<1> DEFINE p == IF op = "list" THEN "list" ELSE "cleanup"
<1> DEFINE r == [Idle EXCEPT !.op = op, !.pc = p]
<1>1. TypeOK /\ Ledgers
  BY DEF Inv
<1>2. /\ op = "popup" <=> AgentOf[t] = Popup
      /\ task[t].pc = "idle" /\ lock' = Append(lock, t) /\ tail' = tail
      /\ UNCHANGED <<tabs, active, removed>> /\ UNCHANGED worker /\ lost' = lost /\ kills' = kills
      /\ task' = [task EXCEPT ![t] = r]
  BY DEF SubmitUnqueued, Enqueue
<1>3. p \in Phases /\ p \in Waiting /\ p \in {"list", "cleanup"} /\ "idle" \notin Busy
  BY Places
<1> HIDE DEF p
<1>4. r \in Task /\ r.pc = p /\ r.op = op
  BY <1>3, IdleType DEF Task, Idle
<1> HIDE DEF r
<1>5. task' \in [Tasks -> Task] /\ task'[t] = r /\ Others(t)
  BY <1>1, <1>2, <1>4, MovesEffect
<1>6. TabsStep /\ NoneOpened /\ Shrinks /\ ledger' = ledger /\ loaded' = loaded
  BY <1>1, <1>2, SameTabs, SameWorker DEF worker
<1>7. LockStep(t)
  BY <1>2, <1>3, <1>4, <1>5 DEF LockStep, Joins
<1>8. AgentOf' = AgentOf
  BY DEF AgentOf
<1>9. Relies(t)'
  BY <1>2, <1>3, <1>4, <1>5, <1>8 DEF Relies
<1>10. tail' \in Tails /\ task[t].pc # "created"
  BY <1>1, <1>2 DEF TypeOK, Tails
<1> QED BY <1>2, <1>5, <1>6, <1>7, <1>9, <1>10, CommandStep DEF NoneOpened

LEMMA ClosingKeeps ==
    ASSUME Inv, cast' = cast, NEW t \in Tasks, Closing(t)
    PROVE  Inv'
<1>1. TypeOK
  BY DEF Inv
<1>2. /\ Holds(t) /\ task[t].pc = "closing" /\ Prepared /\ ledger' = Reconciled
      /\ lock' = Tail(lock) /\ UNCHANGED <<tabs, active, removed, lost, kills>>
  BY DEF Closing, Release
<1>3. /\ TabsStep /\ NoneOpened /\ Shrinks /\ loaded' /\ lost' = lost /\ kills' = kills
      /\ OpenTabs' = OpenTabs /\ tabs' = tabs
  BY <1>2, ReconcilingStep
<1>4. task[t].pc \in Waiting /\ task[t].pc # "created" /\ "remove" \in Phases /\ "remove" \notin Busy
  BY <1>2, Places
<1>5. CASE Access(Reconciled, task[t].tab, AgentOf[t]) = "owned"
  <2>1. Goes(t, "remove") /\ tail' = tail
    BY <1>5 DEF Closing
  <2>2. /\ task' \in [Tasks -> Task] /\ Others(t) /\ task'[t].pc = "remove"
        /\ task'[t].tab = task[t].tab
    BY <1>1, <1>4, <2>1, GoesEffect
  <2>3. task[t].tab \in OwnedBy(Reconciled, AgentOf[t])
    BY <1>5 DEF Access
  <2>4. Owns(t, task[t].tab)
    <3>1. /\ task[t].tab \in DOMAIN Reconciled /\ AgentOf[t] \in Agents
          /\ Reconciled[task[t].tab] = AgentOf[t]
      BY <2>3 DEF OwnedBy
    <3>2. task[t].tab \in DOMAIN tabs /\ Reconciled[task[t].tab] = tabs[task[t].tab].opener
      BY <1>2, <1>4, <3>1, ReconciledKnows
    <3> QED BY <3>1, <3>2 DEF Owns
  <2>5. Owns(t, task[t].tab)'
    BY <1>3, <2>2, <2>4 DEF Owns, AgentOf
  <2>6. Relies(t)'
    BY <2>2, <2>5 DEF Relies
  <2>7. LockStep(t)
    BY <1>2, <1>4, <2>2 DEF LockStep, Leaves
  <2>8. tail' \in Tails
    BY <1>1, <2>1 DEF TypeOK, Tails
  <2> QED BY <1>2, <1>3, <1>4, <2>2, <2>6, <2>7, <2>8, CommandStep DEF NoneOpened
<1>6. CASE Access(Reconciled, task[t].tab, AgentOf[t]) # "owned"
  <2>1. Ends(t)
    BY <1>6 DEF Closing, Access
  <2> QED BY <1>2, <1>3, <1>4, <2>1, EndStep
<1> QED BY <1>5, <1>6

LEMMA RemoveKeeps ==
    ASSUME Inv, cast' = cast, NEW t \in Tasks, Remove(t)
    PROVE  Inv'
<1> DEFINE i == task[t].tab
<1>1. TypeOK /\ Ledgers
  BY DEF Inv
<1>2. task[t].pc = "remove" /\ UNCHANGED worker /\ lost' = lost /\ kills' = kills
  BY DEF Remove
<1>3. Shrinks /\ ledger' = ledger /\ loaded' = loaded
  BY <1>1, <1>2, SameWorker DEF worker
<1>4. task[t].pc \notin Busy /\ "untrack" \in Phases /\ "untrack" \in Waiting
  BY <1>2, Places
<1>5. CASE /\ IsOpen(i) /\ Closes(i) /\ Goes(t, "untrack")
           /\ lock' = Append(lock, t) /\ tail' = tail
  <2>1. TabsStep /\ NoneOpened /\ i \in DOMAIN tabs /\ ~ tabs'[i].open
    BY <1>1, <1>5, ClosesStep
  <2>2. task' \in [Tasks -> Task] /\ Others(t) /\ task'[t].pc = "untrack" /\ task'[t].tab = i
    BY <1>1, <1>4, <1>5, GoesEffect
  <2>3. Relies(t)'
    BY <2>1, <2>2 DEF Relies, NoneOpened
  <2>4. LockStep(t)
    BY <1>4, <1>5, <2>2 DEF LockStep, Joins
  <2>5. tail' \in Tails /\ task[t].pc # "created"
    BY <1>1, <1>2, <1>5 DEF TypeOK, Tails
  <2> QED BY <1>2, <1>3, <2>1, <2>2, <2>3, <2>4, <2>5, CommandStep DEF NoneOpened
<1>6. CASE Ends(t) /\ UNCHANGED <<tabs, active, removed>> /\ lock' = lock
  <2>1. TabsStep /\ NoneOpened
    BY <1>1, <1>6, SameTabs
  <2> QED BY <1>2, <1>3, <1>4, <1>6, <2>1, EndStep
<1> QED BY <1>5, <1>6 DEF Remove, Enqueue

LEMMA UntrackKeeps ==
    ASSUME Inv, cast' = cast, NEW t \in Tasks, Untrack(t)
    PROVE  Inv'
<1>1. TypeOK /\ Ledgers /\ Relies(t)
  BY DEF Inv, Reliable
<1>2. /\ Holds(t) /\ task[t].pc = "untrack" /\ Ends(t) /\ lock' = Tail(lock)
      /\ UNCHANGED <<tabs, active, removed>> /\ lost' = lost /\ kills' = kills
      /\ \/ \E saved \in BOOLEAN : Untracks(task[t].tab, saved)
         \/ UNCHANGED worker
  BY DEF Untrack, Release
<1>3. ~ tabs[task[t].tab].open
  BY <1>1, <1>2 DEF Relies
<1>4. Shrinks /\ (loaded => loaded')
  <2>1. CASE \E saved \in BOOLEAN : Untracks(task[t].tab, saved)
    BY <1>1, <1>2, <1>3, <2>1, UntracksStep
  <2>2. CASE UNCHANGED worker
    BY <1>1, <1>2, <2>2, SameWorker DEF worker
  <2> QED BY <1>2, <2>1, <2>2
<1>5. TabsStep /\ NoneOpened
  BY <1>1, <1>2, SameTabs
<1> QED BY <1>2, <1>4, <1>5, EndStep

LEMMA ListKeeps ==
    ASSUME Inv, cast' = cast, NEW t \in Tasks, List(t) \/ SelectRefused(t)
    PROVE  Inv'
<1>1. /\ Holds(t) /\ task[t].pc \in {"list", "cleanup"} /\ Prepared /\ ledger' = Reconciled
      /\ Ends(t) /\ lock' = Tail(lock) /\ UNCHANGED <<tabs, active, removed, lost, kills>>
  BY DEF List, SelectRefused, Release
<1>2. TabsStep /\ NoneOpened /\ Shrinks /\ loaded' /\ lost' = lost /\ kills' = kills
  BY <1>1, ReconcilingStep
<1> QED BY <1>1, <1>2, EndStep

LEMMA SelectKeeps ==
    ASSUME Inv, cast' = cast, NEW t \in Tasks, Select(t)
    PROVE  Inv'
<1>1. TypeOK /\ Relies(t)
  BY DEF Inv, Reliable
<1>2. /\ Holds(t) /\ task[t].pc = "cleanup" /\ Prepared /\ ledger' = Reconciled
      /\ UNCHANGED <<tabs, active, removed, lost, kills>> /\ lock' = lock /\ tail' = tail
  BY DEF Select
<1>3. PICK S \in IF task[t].op = "popup" THEN {DOMAIN Reconciled}
                 ELSE SUBSET Collectable(Reconciled, AgentOf[t]) :
          task' = [task EXCEPT ![t].pc = "sweep", ![t].chosen = S]
  BY DEF Select
<1>4. /\ TabsStep /\ NoneOpened /\ Shrinks /\ loaded' /\ lost' = lost /\ kills' = kills
      /\ OpenTabs' = OpenTabs /\ tabs' = tabs
  BY <1>2, ReconcilingStep
<1>5. /\ task[t].pc \in Waiting /\ task[t].pc # "created"
      /\ "sweep" \in Phases /\ "sweep" \in Held
  BY <1>2, Places
<1>6. S \subseteq DOMAIN Reconciled /\ S \subseteq TabIds
  BY <1>1, <1>3, ReconciledType DEF Collectable, OwnedBy, IsLedger
<1>7. task[t].op = "popup" <=> AgentOf[t] = Popup
  BY <1>1, <1>2 DEF Relies
<1>8. ASSUME NEW j \in S
      PROVE  Sweepable(t, j)
  <2>1. j \in DOMAIN tabs /\ Reconciled[j] = tabs[j].opener /\ tabs[j].opener # User
    BY <1>2, <1>5, <1>6, <1>8, ReconciledKnows
  <2>2. ASSUME AgentOf[t] # Popup
        PROVE  tabs[j].opener = NoAgent \/ (tabs[j].opener = AgentOf[t] /\ AgentOf[t] \in Agents)
    BY <1>3, <1>7, <1>8, <2>1, <2>2 DEF Collectable, OwnedBy
  <2> QED BY <2>1, <2>2 DEF Sweepable
<1>9. /\ task' \in [Tasks -> Task] /\ Others(t) /\ task'[t].pc = "sweep"
      /\ task'[t].op = task[t].op /\ task'[t].chosen = S
  BY <1>1, <1>3, <1>5, <1>6, GoesWithChoice
<1>10. AgentOf' = AgentOf
  BY DEF AgentOf
<1>11. \A j \in S : Sweepable(t, j)'
  BY <1>4, <1>8, <1>10 DEF Sweepable
<1>12. Relies(t)'
  BY <1>7, <1>9, <1>10, <1>11 DEF Relies, Sweepable
<1>13. LockStep(t)
  BY <1>2, <1>4, <1>5, <1>9 DEF LockStep, Stays
<1>14. tail' \in Tails
  BY <1>1, <1>2 DEF TypeOK, Tails
<1> QED BY <1>2, <1>4, <1>5, <1>9, <1>12, <1>13, <1>14, CommandStep DEF NoneOpened

LEMMA SweepKeeps ==
    ASSUME Inv, cast' = cast, NEW t \in Tasks, Sweep(t)
    PROVE  Inv'
<1> DEFINE i == Least(task[t].chosen)
<1> DEFINE S == task[t].chosen \ {i}
<1>1. TypeOK /\ Ledgers /\ Locked /\ Relies(t)
  BY DEF Inv, Reliable
<1>2. /\ task[t].pc = "sweep" /\ loaded' = loaded /\ stored' = stored
      /\ lock' = lock /\ tail' = tail /\ lost' = lost /\ kills' = kills
      /\ task' = [task EXCEPT ![t].chosen = @ \ {i}]
  BY DEF Sweep
<1>3. "sweep" \in Phases /\ "sweep" \in Held
  BY Places
<1>4. Holds(t) /\ loaded
  BY <1>1, <1>2, <1>3 DEF Locked
<1>5. TabsStep /\ NoneOpened /\ Shrinks
  <2>1. CASE IsOpen(i) /\ Closes(i) /\ ledger' = [j \in DOMAIN ledger \ {i} |-> ledger[j]]
    <3>1. TabsStep /\ NoneOpened /\ OpenTabs' = OpenTabs \ {i}
      BY <1>1, <2>1, ClosesStep
    <3>2. {i} \cap OpenTabs' = {}
      BY <3>1
    <3>3. Shrinks
      BY <1>1, <1>2, <1>4, <2>1, <3>2, DropsStep
    <3> QED BY <3>1, <3>3
  <2>2. CASE /\ ledger' = [j \in DOMAIN ledger \ ({i} \ OpenTabs) |-> ledger[j]]
             /\ UNCHANGED <<tabs, active, removed>>
    <3>1. TabsStep /\ NoneOpened /\ OpenTabs' = OpenTabs
      BY <1>1, <2>2, SameTabs
    <3>2. ({i} \ OpenTabs) \cap OpenTabs' = {}
      BY <3>1
    <3>3. Shrinks
      BY <1>1, <1>2, <1>4, <2>2, <3>2, DropsStep
    <3> QED BY <3>1, <3>3
  <2> QED BY <2>1, <2>2 DEF Sweep
<1>6. task[t] \in Task /\ task \in [Tasks -> Task] /\ task[t].chosen \subseteq TabIds
  BY <1>1, TaskType DEF TypeOK
<1> DEFINE r == [task[t] EXCEPT !.chosen = S]
<1>7. task' = [task EXCEPT ![t] = r]
  BY <1>2, <1>6
<1>8. S \in SUBSET TabIds /\ S \subseteq task[t].chosen
  BY <1>6
<1> HIDE DEF S, i
<1>9. r \in Task /\ r.pc = "sweep" /\ r.op = task[t].op /\ r.chosen = S
  BY <1>2, <1>6, <1>8 DEF Task
<1> HIDE DEF r
<1>10. task' \in [Tasks -> Task] /\ task'[t] = r /\ Others(t)
  BY <1>1, <1>7, <1>9, MovesEffect
<1>11. AgentOf' = AgentOf
  BY DEF AgentOf
<1>12. ASSUME NEW j \in S
       PROVE  Sweepable(t, j)'
  <2>1. Sweepable(t, j)
    BY <1>1, <1>2, <1>8 DEF Relies
  <2> QED BY <1>5, <1>11, <2>1 DEF Sweepable, TabsStep
<1>13. (task[t].op = "popup" <=> AgentOf[t] = Popup)
  BY <1>1, <1>2 DEF Relies
<1>14. Relies(t)'
  BY <1>9, <1>10, <1>11, <1>12, <1>13 DEF Relies
<1>15. LockStep(t)
  BY <1>2, <1>3, <1>4, <1>9, <1>10 DEF LockStep, Stays
<1>16. tail' \in Tails /\ task[t].pc # "created"
  BY <1>1, <1>2 DEF TypeOK, Tails
<1> QED BY <1>2, <1>4, <1>5, <1>10, <1>14, <1>15, <1>16, CommandStep DEF NoneOpened

LEMMA SweptKeeps ==
    ASSUME Inv, cast' = cast, NEW t \in Tasks, Swept(t)
    PROVE  Inv'
<1>1. TypeOK /\ Ledgers /\ Locked
  BY DEF Inv
<1>2. /\ task[t].pc = "sweep" /\ Ends(t) /\ lock' = Tail(lock) /\ stored' \in {stored, ledger}
      /\ UNCHANGED <<tabs, active, removed>> /\ ledger' = ledger /\ loaded' = loaded
      /\ lost' = lost /\ kills' = kills
  BY DEF Swept, Release
<1>3. Holds(t) /\ loaded
  BY <1>1, <1>2, Places DEF Locked
<1>4. TabsStep /\ NoneOpened /\ Shrinks
  BY <1>1, <1>2, <1>3, SameTabs, SavesStep
<1> QED BY <1>2, <1>3, <1>4, EndStep

-----------------------------------------------------------------------------
\* The steps of the browser, which no command takes.
LEMMA BrowserStep ==
    ASSUME Inv, cast' = cast, TabsStep, Shrinks, loaded => loaded', lost' = lost, kills' = kills,
           lock' = lock, task' = task, tail' \in Tails,
           \A i \in DOMAIN tabs' \ DOMAIN tabs : tabs'[i].opener = User,
           ledger' = ledger \/ \A u \in Tasks : task[u].pc \notin Held
    PROVE  Inv'
<1>1. TypeOK /\ Locked /\ Ledgers /\ Legacy /\ Accounted
  BY DEF Inv
<1>2. Ledgers' /\ IsLedger(ledger') /\ IsLedger(stored')
  BY <1>1, LedgersKept
<1>3. Legacy'
  BY <1>1, LegacyKept, Names
<1>4. Accounted'
  BY <1>1, <1>2, AccountedKept, Names
<1>5. TypeOK'
  <2>1. cast' \in Casts /\ kills' \in 0 .. cast'.kills /\ lost' \subseteq TabIds
        /\ lock' \in Seq(Tasks) /\ task' \in [Tasks -> Task]
    BY <1>1 DEF TypeOK
  <2>2. Cardinality(DOMAIN stored') <= MaxTotal
    BY <1>2 DEF Ledgers, Small
  <2>3. loaded' \in BOOLEAN
    BY DEF Shrinks
  <2> QED BY <1>2, <2>1, <2>2, <2>3 DEF TypeOK, TabsStep, Tails
<1>6. Locked'
  BY <1>1 DEF Locked, Holds
<1>7. ASSUME NEW u \in Tasks
      PROVE  Relies(u)'
  <2>1. Relies(u)
    BY DEF Inv, Reliable
  <2>2. task[u].pc \in {"creating", "created"} => ledger' = ledger
    BY Places
  <2>3. task[u].pc = "creating" => AgentOf[u] # User
    BY <2>1, Names DEF Relies, CanCreate
  <2> QED BY <1>1, <2>1, <2>2, <2>3, OtherRelies
<1> QED BY <1>2, <1>3, <1>4, <1>5, <1>6, <1>7 DEF Inv, Reliable

LEMMA UserKeeps ==
    ASSUME Inv, cast' = cast,
           UserOpens \/ \E i \in TabIds : UserCloses(i) \/ UserActivates(i)
    PROVE  Inv'
<1>1. TypeOK /\ Ledgers
  BY DEF Inv
<1>2. /\ UNCHANGED worker /\ lost' = lost /\ kills' = kills /\ lock' = lock
      /\ task' = task /\ tail' = tail
  BY DEF UserOpens, UserCloses, UserActivates
<1>3. Shrinks /\ ledger' = ledger /\ loaded' = loaded /\ tail' \in Tails
  BY <1>1, <1>2, SameWorker DEF worker, TypeOK, Tails
<1>4. CASE UserOpens
  <2>1. /\ tabs' = Append(tabs, NewTab(User, FALSE)) /\ Len(tabs) < MaxTabs
        /\ removed' = removed /\ active' \in {active, Len(tabs) + 1}
    BY <1>4 DEF UserOpens
  <2>2. NewTab(User, FALSE) \in Tab /\ NewTab(User, FALSE).opener = User
    BY DEF NewTab, Tab
  <2>3. /\ TabsStep /\ DOMAIN tabs' = DOMAIN tabs \cup {Len(tabs) + 1}
        /\ tabs'[Len(tabs) + 1] = NewTab(User, FALSE)
    BY <1>1, <2>1, <2>2, OpenStep
  <2> QED BY <1>2, <1>3, <2>2, <2>3, BrowserStep
<1>5. ASSUME NEW i \in TabIds, UserCloses(i)
      PROVE  Inv'
  <2>1. TabsStep /\ NoneOpened
    BY <1>1, <1>5, ClosesStep DEF UserCloses
  <2> QED BY <1>2, <1>3, <2>1, BrowserStep DEF NoneOpened
<1>6. ASSUME NEW i \in TabIds, UserActivates(i)
      PROVE  Inv'
  <2>1. tabs' = tabs /\ removed' = removed /\ active' \in TabIds \cup {NoTab}
    BY <1>6 DEF UserActivates
  <2>2. TabsStep /\ NoneOpened
    BY <1>1, <2>1 DEF TypeOK, TabsStep, NoneOpened
  <2> QED BY <1>2, <1>3, <2>2, BrowserStep DEF NoneOpened
<1> QED BY <1>4, <1>5, <1>6

LEMMA ListenerKeeps ==
    ASSUME Inv, cast' = cast, NEW i \in TabIds, Listener(i)
    PROVE  Inv'
<1>1. TypeOK /\ Ledgers /\ Locked
  BY DEF Inv
<1>2. /\ i \in removed /\ (lock # <<>> => task[Head(lock)].pc \in Waiting)
      /\ removed' = removed \ {i} /\ tail' = [tail EXCEPT ![i] = NoTask]
      /\ tabs' = tabs /\ active' = active /\ lock' = lock /\ task' = task
      /\ lost' = lost /\ kills' = kills
      /\ \/ \E saved \in BOOLEAN : Untracks(i, saved)
         \/ UNCHANGED worker
  BY DEF Listener
<1>3. ~ tabs[i].open
  BY <1>1, <1>2 DEF Ledgers
<1>4. TabsStep /\ NoneOpened
  BY <1>1, <1>2 DEF TypeOK, TabsStep, NoneOpened
<1>5. Shrinks /\ (loaded => loaded')
  <2>1. CASE \E saved \in BOOLEAN : Untracks(i, saved)
    BY <1>1, <1>2, <1>3, <2>1, UntracksStep
  <2>2. CASE UNCHANGED worker
    BY <1>1, <1>2, <2>2, SameWorker DEF worker
  <2> QED BY <1>2, <2>1, <2>2
<1>6. \A u \in Tasks : task[u].pc \notin Held
  <2> SUFFICES ASSUME NEW u \in Tasks, task[u].pc \in Held
               PROVE  FALSE
    OBVIOUS
  <2>1. lock # <<>> /\ Head(lock) = u
    BY <1>1 DEF Locked, Holds
  <2> QED BY <1>2, <2>1, Places
<1>7. tail' \in Tails
  BY <1>1, <1>2 DEF TypeOK, Tails
<1> QED BY <1>2, <1>4, <1>5, <1>6, <1>7, BrowserStep DEF NoneOpened

LEMMA KillKeeps ==
    ASSUME Inv, cast' = cast, Kill
    PROVE  Inv'
<1>1. TypeOK /\ Locked /\ Ledgers /\ Legacy /\ Accounted /\ Reliable
  BY DEF Inv
<1>2. /\ kills < cast.kills /\ kills' = kills + 1 /\ ledger' = <<>> /\ loaded' = FALSE
      /\ lock' = <<>> /\ task' = [t \in Tasks |-> Idle]
      /\ tail' = [i \in DOMAIN tail |-> NoTask] /\ stored' = stored
      /\ lost' = lost \cup {i \in OpenTabs \ DOMAIN stored : tabs[i].opener \in Agents}
      /\ UNCHANGED <<tabs, active, removed>>
  BY DEF Kill
<1>3. TabsStep /\ NoneOpened /\ OpenTabs' = OpenTabs /\ tabs' = tabs
  BY <1>1, <1>2, SameTabs
<1>4. Shrinks
  BY <1>1, KillStep
<1>5. Ledgers' /\ IsLedger(ledger') /\ IsLedger(stored')
  BY <1>1, <1>3, <1>4, LedgersKept
<1>6. Legacy'
  BY <1>1, <1>3, <1>4, LegacyKept DEF NoneOpened
<1>7. Accounted'
  <2>1. ASSUME NEW u \in Tasks, task[u].pc = "created", task[u].tab \in OpenTabs'
        PROVE  task[u].tab \in DOMAIN Memory' \/ task[u].tab \in lost'
    <3>1. tabs[task[u].tab].opener \in Agents
      BY <1>1, <2>1 DEF Reliable, Relies, Owns
    <3>2. Memory' = stored
      BY <1>2 DEF Memory
    <3> QED BY <1>2, <1>3, <2>1, <3>1, <3>2
  <2> QED BY <1>1, <1>3, <1>4, <1>5, <2>1, AccountedKept DEF NoneOpened
<1>8. \A t \in Tasks : task'[t] = Idle
  BY <1>2
<1>9. TypeOK'
  <2>1. kills' \in 0 .. cast'.kills
    <3>1. kills \in 0 .. cast.kills /\ cast.kills \in Nat
      BY <1>1, CastType DEF TypeOK
    <3> QED BY <1>2, <3>1
  <2>2. task' \in [Tasks -> Task] /\ tail' \in [TabIds \cup {NoTab} -> Tasks \cup {NoTask}]
        /\ lock' \in Seq(Tasks)
    BY <1>1, <1>2, IdleType DEF TypeOK
  <2>3. OpenTabs \subseteq TabIds
    BY <1>1, TabType
  <2>4. cast' \in Casts /\ lost' \subseteq TabIds /\ loaded' \in BOOLEAN
    BY <1>1, <1>2, <2>3 DEF TypeOK
  <2>5. Cardinality(DOMAIN stored') <= MaxTotal
    BY <1>5 DEF Ledgers, Small
  <2> QED BY <1>3, <1>5, <2>1, <2>2, <2>4, <2>5 DEF TypeOK, TabsStep
<1>10. Locked'
  <2>1. Len(lock') = 0 /\ 1 .. 0 = {}
    BY <1>2
  <2>2. \A t \in Tasks : task'[t].pc \notin Held
    BY <1>8, IdleType, Places
  <2>3. 1 .. Len(lock') = {}
    BY <2>1
  <2> QED BY <2>2, <2>3 DEF Locked
<1>11. Reliable'
  BY <1>8, IdleRelies DEF Reliable
<1> QED BY <1>5, <1>6, <1>7, <1>9, <1>10, <1>11 DEF Inv

-----------------------------------------------------------------------------
LEMMA InitInv == Init => Inv
<1> SUFFICES ASSUME Init
             PROVE  Inv
  OBVIOUS
<1> DEFINE n == cast.legacy
<1>1. /\ cast \in Casts
      /\ tabs = [i \in 1 .. n + 1 |-> NewTab(IF i <= n THEN NoAgent ELSE User, FALSE)]
      /\ stored = [i \in 1 .. n |-> NoAgent]
      /\ active = n + 1 /\ removed = {} /\ ledger = <<>> /\ loaded = FALSE /\ lock = <<>>
      /\ task = [t \in Tasks |-> Idle] /\ tail = [i \in TabIds \cup {NoTab} |-> NoTask]
      /\ lost = {} /\ kills = 0
  BY DEF Init
<1>2. n \in Nat /\ n <= MaxTotal /\ n < MaxTabs /\ MaxTabs \in Nat /\ MaxTotal \in Nat
      /\ cast.perAgent \in Nat /\ cast.kills \in Nat
  <2>1. cast \in Cast /\ n < MaxTabs /\ MaxTotal \in Nat /\ MaxTabs \in Nat
    BY <1>1, LimitsAssumption
  <2> QED BY <2>1 DEF Cast
<1> HIDE DEF n
<1>3. \A x \in {NoAgent, User} : NewTab(x, FALSE) \in Tab
  BY DEF NewTab, Tab
<1>4. tabs \in Seq(Tab) /\ Len(tabs) = n + 1 /\ DOMAIN tabs = 1 .. n + 1
  <2> DEFINE first(i) == NewTab(IF i <= n THEN NoAgent ELSE User, FALSE)
  <2>1. ASSUME NEW i \in 1 .. n + 1
        PROVE  first(i) \in Tab
    <3>1. CASE i <= n
      BY <1>3, <3>1
    <3>2. CASE ~ (i <= n)
      BY <1>3, <3>2
    <3> QED BY <3>1, <3>2
  <2>2. tabs \in [1 .. n + 1 -> Tab] /\ n + 1 \in Nat
    <3>1. tabs = [i \in 1 .. n + 1 |-> first(i)]
      BY <1>1
    <3>2. n + 1 \in Nat
      BY <1>2
    <3> HIDE DEF first
    <3> QED BY <2>1, <3>1, <3>2
  <2>3. tabs \in Seq(Tab)
    <3>1. \E m \in Nat : tabs \in [1 .. m -> Tab]
      BY <2>2
    <3> QED BY <3>1, SeqDef
  <2>4. DOMAIN tabs = 1 .. n + 1 /\ Len(tabs) \in Nat /\ DOMAIN tabs = 1 .. Len(tabs)
    BY <2>2, <2>3
  <2> QED BY <2>2, <2>3, <2>4
<1>5. \A i \in DOMAIN tabs : tabs[i].opener = IF i <= n THEN NoAgent ELSE User
  BY <1>1, <1>4 DEF NewTab
<1>6. IsLedger(stored) /\ IsLedger(ledger) /\ DOMAIN stored = 1 .. n /\ DOMAIN ledger = {}
  <2>1. DOMAIN <<>> = {} /\ <<>> \in [{} -> Owners]
    OBVIOUS
  <2>2. 1 .. n \subseteq TabIds /\ stored \in [1 .. n -> Owners]
    BY <1>1, <1>2 DEF TabIds, Owners
  <2> QED BY <1>1, <2>1, <2>2 DEF IsLedger
<1>7. Cardinality(1 .. n) = n
  BY <1>2, FS_Interval
<1>8. Small(stored, MaxPerAgent)
  <2>1. ASSUME NEW a \in Agents
        PROVE  OwnedBy(stored, a) = {}
    BY <1>1, Names DEF OwnedBy
  <2>2. \A a \in Agents : Cardinality(OwnedBy(stored, a)) <= cast.perAgent
    <3>1. Cardinality({}) = 0
      BY FS_EmptySet
    <3> QED BY <1>2, <2>1, <3>1
  <2>3. Cardinality(DOMAIN stored) <= MaxTotal
    BY <1>2, <1>6, <1>7
  <2> QED BY <2>2, <2>3 DEF Small, MaxPerAgent
<1>9. \A t \in Tasks : task[t] = Idle
  BY <1>1
<1>10. TypeOK
  <2>1. task \in [Tasks -> Task] /\ lock \in Seq(Tasks)
    BY <1>1, IdleType
  <2>2. active \in TabIds \cup {NoTab} /\ kills \in 0 .. cast.kills
    BY <1>1, <1>2 DEF TabIds
  <2>3. tail \in [TabIds \cup {NoTab} -> Tasks \cup {NoTask}]
    BY <1>1
  <2>4. Len(tabs) <= MaxTabs /\ Cardinality(DOMAIN stored) <= MaxTotal
    BY <1>2, <1>4, <1>8 DEF Small
  <2> QED BY <1>1, <1>4, <1>6, <2>1, <2>2, <2>3, <2>4 DEF TypeOK
<1>11. Locked
  <2>1. 1 .. Len(lock) = {}
    BY <1>1
  <2> QED BY <1>9, <2>1, IdleType, Places DEF Locked
<1>12. Memory = stored
  BY <1>1 DEF Memory
<1>13. Faithful(stored) /\ Faithful(ledger)
  <2>1. Faithful(ledger)
    BY <1>6 DEF Faithful
  <2>2. \A i \in 1 .. n : i \in 1 .. n + 1 /\ i <= n
    BY <1>2
  <2>3. Faithful(stored)
    BY <1>1, <1>4, <1>5, <1>6, <2>2, Names DEF Faithful
  <2> QED BY <2>1, <2>3
<1>14. Ledgers
  BY <1>1, <1>8, <1>12, <1>13 DEF Ledgers
<1>15. Legacy
  BY <1>2, <1>4, <1>5, <1>6, <1>12, Names DEF Legacy, OpenTabs
<1>16. Accounted
  BY <1>4, <1>5, Names DEF Accounted, OpenTabs
<1>17. Reliable
  <2> SUFFICES ASSUME NEW t \in Tasks
               PROVE  Relies(t)
    BY DEF Reliable
  <2> QED BY <1>9, IdleType DEF Relies
<1> QED BY <1>10, <1>11, <1>14, <1>15, <1>16, <1>17 DEF Inv

LEMMA CommandKeeps ==
    ASSUME Inv, cast' = cast, NEW t \in Tasks, Asks(t) \/ Runs(t)
    PROVE  Inv'
<1>1. CASE Asks(t)
  <2>1. cast.sends[t] \subseteq Ops
    <3>1. cast \in Cast
      BY LimitsAssumption DEF Inv, TypeOK
    <3> QED BY <3>1 DEF Cast
  <2>2. ASSUME NEW op \in cast.sends[t], SubmitUnqueued(t, op)
        PROVE  Inv'
    BY <2>1, <2>2, SubmitUnqueuedKeeps
  <2>3. ASSUME NEW op \in cast.sends[t], NEW i \in TabIds \cup {NoTab}, Submit(t, op, i)
        PROVE  Inv'
    BY <2>1, <2>3, SubmitKeeps
  <2> QED BY <1>1, <2>2, <2>3 DEF Asks
<1>2. CASE Opens(t)
  BY <1>2, BeginOpeningKeeps, CreateKeeps, AdoptKeeps, TabCreatedKeeps, TabRefusedKeeps,
     SaveCreatedKeeps, SaveCreatedFailsKeeps, RollBackKeeps, DriveKeeps DEF Opens
<1>3. CASE ClosesTabs(t)
  BY <1>3, BeginCloseKeeps, ClosingKeeps, RemoveKeeps, UntrackKeeps, ListKeeps, SelectKeeps,
     SweepKeeps, SweptKeeps DEF ClosesTabs
<1>4. CASE StorageFails(t) \/ Guard(t) \/ List(t) \/ Drive(t) \/ TargetGone(t)
  BY <1>4, StorageFailsKeeps, GuardKeeps, ListKeeps, DriveKeeps
<1> QED BY <1>1, <1>2, <1>3, <1>4 DEF Runs

LEMMA StepKeeps == Inv /\ [Next]_vars => Inv'
<1> SUFFICES ASSUME Inv, [Next]_vars
             PROVE  Inv'
  OBVIOUS
<1>1. CASE UNCHANGED vars
  <2>1. /\ cast' = cast /\ UNCHANGED <<tabs, active, removed>> /\ UNCHANGED worker
        /\ lock' = lock /\ task' = task /\ tail' = tail /\ lost' = lost /\ kills' = kills
    BY <1>1 DEF vars, worker
  <2>2. TypeOK /\ Ledgers
    BY DEF Inv
  <2>3. TabsStep /\ NoneOpened /\ Shrinks /\ ledger' = ledger /\ loaded' = loaded
    BY <2>1, <2>2, SameTabs, SameWorker DEF worker
  <2>4. tail' \in Tails
    BY <2>1, <2>2 DEF TypeOK, Tails
  <2> QED BY <2>1, <2>3, <2>4, BrowserStep DEF NoneOpened
<1>2. CASE Next
  <2>1. cast' = cast
    BY <1>2 DEF Next
  <2>2. CASE Browser
    BY <2>1, <2>2, UserKeeps, ListenerKeeps DEF Browser
  <2>3. CASE Kill
    BY <2>1, <2>3, KillKeeps
  <2>4. CASE \E t \in Tasks : Asks(t) \/ Runs(t)
    BY <2>1, <2>4, CommandKeeps
  <2> QED BY <1>2, <2>2, <2>3, <2>4 DEF Next
<1> QED BY <1>1, <1>2

\* What managedTabsLock protects in managed-tabs.ts is never seen half done, and
\* what a command found out before it waited is still so when it acts.
THEOREM Invariance == Spec => []Inv
BY InitInv, StepKeeps, PTL DEF Spec

-----------------------------------------------------------------------------
\* For any agents, commands and storage failures: no agent drives or closes a tab
\* opened for another one, and no tab of the user is closed or taken over
\* (managedTabAccess and cleanupManagedTabs of managed-tabs.ts, and the checks of
\* executeCommandWithGuards and of close_tab in runtime.ts).
THEOREM Respected == Spec => []TabsRespected
<1>1. ASSUME Inv, NEW t \in Tasks, NEW i \in DOMAIN tabs, ActsOn(t, i)
      PROVE  /\ tabs[i].opener = User => task[t].op = "drive"
             /\ i \in OpenTabs \ lost /\ AgentOf[t] # Popup =>
                  \/ tabs[i].opener = User
                  \/ tabs[i].opener = AgentOf[t] /\ AgentOf[t] \in Agents
                  \/ tabs[i].opener = NoAgent /\ task[t].pc = "sweep"
  <2>1. Relies(t) /\ User \notin Agents
    BY <1>1, Names DEF Inv, Reliable
  <2>2. CASE MyTurn(t) /\ task[t].op = "drive" /\ i = task[t].tab
    BY <2>1, <2>2 DEF MyTurn, Relies, Drivable
  <2>3. CASE task[t].pc \in {"navigate", "remove"} /\ i = task[t].tab
    BY <2>1, <2>3 DEF Relies, Owns
  <2>4. CASE task[t].pc = "sweep" /\ i \in task[t].chosen
    BY <2>1, <2>4 DEF Relies, Sweepable
  <2> QED BY <1>1, <2>2, <2>3, <2>4 DEF ActsOn
<1>2. Inv => TabsRespected
  <2> SUFFICES ASSUME Inv
               PROVE  TabsRespected
    OBVIOUS
  <2>1. OthersTabsUntouched
    BY <1>1 DEF OthersTabsUntouched, OpenTabs
  <2>2. UserTabsKept
    BY <1>1 DEF UserTabsKept, AgentTabs
  <2> QED BY <2>1, <2>2 DEF TabsRespected
<1> QED BY <1>2, Invariance, PTL

\* A ledger that knows every open tab of an agent bounds them.
LEMMA Bounded ==
    ASSUME Inv, NEW l, IsLedger(l), Small(l, MaxPerAgent),
           \A i \in OpenTabs \ lost : tabs[i].opener \in Agents =>
              i \in DOMAIN l /\ l[i] = tabs[i].opener
    PROVE  WithinAllowance
<1> DEFINE here == {i \in OpenTabs \ lost : tabs[i].opener \in Agents}
<1>1. IsFiniteSet(DOMAIN l) /\ MaxTotal \in Nat /\ MaxPerAgent \in Nat
  BY FiniteLedger, CastType, LimitsAssumption DEF Inv
<1>2. here \subseteq DOMAIN l
  OBVIOUS
<1>3. Cardinality(here) <= MaxTotal
  <2>1. /\ Cardinality(here) <= Cardinality(DOMAIN l) /\ Cardinality(here) \in Nat
        /\ Cardinality(DOMAIN l) \in Nat
    BY <1>1, <1>2, FS_Subset, FS_CardinalityType
  <2>2. Cardinality(DOMAIN l) <= MaxTotal
    BY DEF Small
  <2> QED BY <1>1, <2>1, <2>2
<1>4. ASSUME NEW a \in Agents
      PROVE  Cardinality(here \cap AgentTabs(a)) <= MaxPerAgent
  <2>1. OwnedBy(l, a) \subseteq DOMAIN l /\ here \cap AgentTabs(a) \subseteq OwnedBy(l, a)
    BY <1>2 DEF OwnedBy, AgentTabs
  <2>2. IsFiniteSet(OwnedBy(l, a))
    BY <1>1, <2>1, FS_Subset
  <2>3. /\ Cardinality(here \cap AgentTabs(a)) <= Cardinality(OwnedBy(l, a))
        /\ Cardinality(here \cap AgentTabs(a)) \in Nat /\ Cardinality(OwnedBy(l, a)) \in Nat
    BY <2>1, <2>2, FS_Subset, FS_CardinalityType
  <2>4. Cardinality(OwnedBy(l, a)) <= MaxPerAgent
    BY DEF Small
  <2> QED BY <1>1, <2>3, <2>4
<1> QED BY <1>3, <1>4 DEF WithinAllowance

\* The allowances bound the tabs really open, and every one of them is recorded,
\* or just being recorded, for the agent it was opened for, through failed saves,
\* rollbacks, partial cleanups and reloads (createManagedTabUnlocked,
\* closeSelectedUnlocked and ensureManagedTabsLoadedUnlocked of managed-tabs.ts).
THEOREM Ledger == Spec => []LedgerTrue
<1>1. Inv => LedgerTrue
  <2> SUFFICES ASSUME Inv
               PROVE  LedgerTrue
    OBVIOUS
  <2>1. TypeOK /\ Locked /\ Ledgers /\ Accounted
    BY DEF Inv
  <2>2. CASE \A t \in Tasks : task[t].pc # "created"
    <3>1. IsLedger(Memory) /\ Small(Memory, MaxPerAgent)
      BY <2>1, MemoryType DEF Ledgers
    <3>2. \A i \in OpenTabs \ lost : tabs[i].opener \in Agents =>
             i \in DOMAIN Memory /\ Memory[i] = tabs[i].opener
      BY <2>1, <2>2 DEF Accounted
    <3>3. WithinAllowance
      BY <3>1, <3>2, Bounded
    <3> QED BY <2>1, <3>3 DEF LedgerTrue
  <2>3. ASSUME NEW t \in Tasks, task[t].pc = "created"
        PROVE  LedgerTrue
    <3>1. /\ Holds(t) /\ loaded
          /\ IsLedger(Recorded(t)) /\ Faithful(Recorded(t)) /\ Small(Recorded(t), MaxPerAgent)
          /\ DOMAIN Recorded(t) = DOMAIN ledger \cup {task[t].tab}
      BY <2>3, RecordedType
    <3>2. \A u \in Tasks : task[u].pc = "created" => u = t
      BY <2>1, <3>1, OneHolder, Places
    <3>3. ASSUME NEW i \in OpenTabs \ lost, tabs[i].opener \in Agents
          PROVE  i \in DOMAIN Recorded(t) /\ Recorded(t)[i] = tabs[i].opener
      <4>1. i \in DOMAIN Recorded(t)
        BY <2>1, <3>1, <3>2, <3>3 DEF Accounted, Memory
      <4> QED BY <3>1, <4>1 DEF Faithful
    <3>4. WithinAllowance
      BY <3>1, <3>3, Bounded
    <3> QED BY <2>1, <3>4 DEF LedgerTrue
  <2> QED BY <2>2, <2>3
<1> QED BY <1>1, Invariance, PTL

\* A retry of a risky new_tab takes the blank tab the first attempt left, however
\* many commands of its agent run at once (blankManagedTabForNavigation
\* of managed-tabs.ts, which looks and creates under one turn of the lock).
THEOREM BlanksReused == Spec => NoBlankLeaked
<1>1. Inv => ReusesBlank
  <2> SUFFICES ASSUME Inv, NEW t \in Tasks, task[t].pc = "creating", task[t].op # "new"
               PROVE  /\ task[t].op # "recheck"
                      /\ \A i \in (AgentTabs(AgentOf[t]) \cap OpenTabs) \ lost : ~ tabs[i].blank
    BY DEF ReusesBlank
  <2>1. task[t].op # "recheck" /\ NoBlank(t)
    BY DEF Inv, Reliable, Relies
  <2> QED BY <2>1 DEF NoBlank, AgentTabs
<1>2. Inv /\ [Next]_vars => [ReusesBlank]_vars
  BY <1>1
<1> QED BY <1>2, Invariance, PTL DEF Spec, NoBlankLeaked

-----------------------------------------------------------------------------
\* The mutation queues: who waits in one has only that to do, and waits for a
\* command that has queued before it; so the commands can be numbered.
Fresh == {"idle", "guard"}

Queued ==
    /\ \A u \in Tasks : task[u].after # NoTask =>
          task[u].pc = "queued" /\ task[task[u].after].pc \notin Fresh
    /\ \A i \in TabIds \cup {NoTab} : tail[i] # NoTask => task[tail[i]].pc \notin Fresh

Numbered ==
    \E f \in [Tasks -> Nat] :
        \A u \in Tasks : task[u].after # NoTask => f[task[u].after] < f[u]

Chained == Queued /\ Numbered

\* No command starts to wait.
Onward ==
    /\ \A u \in Tasks : task'[u].after = NoTask \/ (task'[u].after = task[u].after /\ task'[u].pc = task[u].pc)
    /\ \A i \in TabIds \cup {NoTab} : tail'[i] \in {tail[i], NoTask}
    /\ \A u \in Tasks : task'[u].pc \in Fresh /\ task[u].pc \notin Fresh =>
          /\ \A v \in Tasks : task'[v].after # u
          /\ \A i \in TabIds \cup {NoTab} : tail'[i] # u

\* Command t takes its place behind the last mutation of tab i.
Lines(t, i) ==
    /\ task[t].pc \in Fresh /\ task'[t].pc = "queued" /\ task'[t].after = tail[i]
    /\ \A u \in Tasks \ {t} : task'[u] = task[u]
    /\ tail' = [tail EXCEPT ![i] = t]

LEMMA OnwardChained ==
    ASSUME TypeOK, Chained, Onward
    PROVE  Chained'
<1>1. Numbered'
  <2>1. PICK f \in [Tasks -> Nat] :
           \A u \in Tasks : task[u].after # NoTask => f[task[u].after] < f[u]
    BY DEF Chained, Numbered
  <2>2. \A u \in Tasks : task'[u].after # NoTask => f[task'[u].after] < f[u]
    BY <2>1 DEF Onward
  <2> QED BY <2>2 DEF Numbered
<1>2. ASSUME NEW u \in Tasks, task'[u].after # NoTask
      PROVE  task'[u].pc = "queued" /\ task'[task'[u].after].pc \notin Fresh
  <2>1. /\ task'[u].after = task[u].after /\ task'[u].pc = task[u].pc /\ task[u].pc = "queued"
        /\ task[task[u].after].pc \notin Fresh /\ task[u].after \in Tasks
    BY <1>2, TaskType DEF Onward, Chained, Queued
  <2> QED BY <2>1 DEF Onward
<1>3. ASSUME NEW i \in TabIds \cup {NoTab}, tail'[i] # NoTask
      PROVE  task'[tail'[i]].pc \notin Fresh
  <2>1. tail'[i] = tail[i] /\ tail[i] \in Tasks /\ task[tail[i]].pc \notin Fresh
    BY <1>3 DEF Onward, Chained, Queued, TypeOK
  <2> QED BY <2>1 DEF Onward
<1> QED BY <1>1, <1>2, <1>3 DEF Chained, Queued

LEMMA LinesChained ==
    ASSUME TypeOK, Chained, NEW t \in Tasks, NEW i \in TabIds \cup {NoTab}, Lines(t, i)
    PROVE  Chained'
<1>1. /\ task[t].pc \in Fresh /\ task'[t].pc = "queued" /\ task'[t].after = tail[i]
      /\ \A u \in Tasks \ {t} : task'[u] = task[u]
      /\ tail' = [tail EXCEPT ![i] = t]
      /\ tail \in Tails /\ NoTask \notin Tasks /\ "queued" \notin Fresh
  BY NamesAssumption DEF Lines, TypeOK, Tails, Fresh
<1>2. tail[i] # t /\ tail[i] \in Tasks \cup {NoTask}
      /\ \A u \in Tasks : task[u].after # t /\ task[u].after \in Tasks \cup {NoTask}
  BY <1>1, TaskType DEF Chained, Queued, Tails
<1>3. Numbered'
  <2>1. PICK f \in [Tasks -> Nat] :
           \A u \in Tasks : task[u].after # NoTask => f[task[u].after] < f[u]
    BY DEF Chained, Numbered
  <2> DEFINE n == IF tail[i] = NoTask THEN 0 ELSE f[tail[i]] + 1
  <2> DEFINE g == [f EXCEPT ![t] = n]
  <2>2. n \in Nat /\ (tail[i] # NoTask => f[tail[i]] < n)
    BY <1>2, <2>1
  <2> HIDE DEF n
  <2>3. g \in [Tasks -> Nat] /\ g[t] = n /\ \A u \in Tasks \ {t} : g[u] = f[u]
    BY <2>1, <2>2
  <2> HIDE DEF g
  <2>4. \A u \in Tasks : task'[u].after # NoTask => g[task'[u].after] < g[u]
    <3> SUFFICES ASSUME NEW u \in Tasks, task'[u].after # NoTask
                 PROVE  g[task'[u].after] < g[u]
      OBVIOUS
    <3>1. CASE u = t
      BY <1>1, <1>2, <2>2, <2>3, <3>1
    <3>2. CASE u # t
      BY <1>1, <1>2, <2>1, <2>3, <3>2
    <3> QED BY <3>1, <3>2
  <2> QED BY <2>3, <2>4 DEF Numbered
<1>4. ASSUME NEW u \in Tasks, task'[u].after # NoTask
      PROVE  task'[u].pc = "queued" /\ task'[task'[u].after].pc \notin Fresh
  <2>1. CASE u = t
    BY <1>1, <1>2, <1>4, <2>1 DEF Chained, Queued
  <2>2. CASE u # t
    BY <1>1, <1>2, <1>4, <2>2 DEF Chained, Queued
  <2> QED BY <2>1, <2>2
<1>5. ASSUME NEW j \in TabIds \cup {NoTab}, tail'[j] # NoTask
      PROVE  task'[tail'[j]].pc \notin Fresh
  <2>1. CASE j = i
    BY <1>1, <2>1 DEF Tails
  <2>2. CASE j # i
    <3>1. tail'[j] = tail[j] /\ tail[j] \in Tasks /\ task[tail[j]].pc \notin Fresh
      BY <1>1, <1>5, <2>2 DEF Chained, Queued, Tails
    <3>2. tail[j] # t
      BY <1>1, <3>1
    <3> QED BY <1>1, <3>1, <3>2
  <2> QED BY <2>1, <2>2
<1> QED BY <1>3, <1>4, <1>5 DEF Chained, Queued

\* A command goes on that waits for none.
LEMMA MovesOnward ==
    ASSUME TypeOK, NEW t \in Tasks, NEW r, task' = [task EXCEPT ![t] = r], r.after = NoTask,
           task[t].pc \in Fresh \/ r.pc \notin Fresh, tail' = tail
    PROVE  Onward
<1>1. task'[t] = r /\ \A u \in Tasks \ {t} : task'[u] = task[u]
  BY DEF TypeOK
<1> QED BY <1>1 DEF Onward

LEMMA GoesOnward ==
    ASSUME TypeOK, Chained, NEW t \in Tasks, task[t].pc # "queued" \/ task[t].after = NoTask,
           NEW p \in Phases \ Fresh, tail' = tail,
           \/ Goes(t, p)
           \/ \E i : task' = [task EXCEPT ![t].pc = p, ![t].tab = i]
           \/ \E S : task' = [task EXCEPT ![t].pc = p, ![t].chosen = S]
           \/ \E S : p = task[t].pc /\ task' = [task EXCEPT ![t].chosen = S]
    PROVE  Onward
<1>1. task[t] \in Task /\ task \in [Tasks -> Task] /\ task[t].after = NoTask
  BY DEF TypeOK, Chained, Queued
<1>2. CASE Goes(t, p)
  <2> DEFINE r == [task[t] EXCEPT !.pc = p]
  <2>1. r.pc = p /\ r.after = NoTask /\ task' = [task EXCEPT ![t] = r]
    BY <1>1, <1>2 DEF Goes, Task
  <2> HIDE DEF r
  <2> QED BY <2>1, MovesOnward
<1>3. ASSUME NEW i, task' = [task EXCEPT ![t].pc = p, ![t].tab = i]
      PROVE  Onward
  <2> DEFINE r == [task[t] EXCEPT !.pc = p, !.tab = i]
  <2>1. r.pc = p /\ r.after = NoTask /\ task' = [task EXCEPT ![t] = r]
    BY <1>1, <1>3 DEF Task
  <2> HIDE DEF r
  <2> QED BY <2>1, MovesOnward
<1>4. ASSUME NEW S, task' = [task EXCEPT ![t].pc = p, ![t].chosen = S]
      PROVE  Onward
  <2> DEFINE r == [task[t] EXCEPT !.pc = p, !.chosen = S]
  <2>1. r.pc = p /\ r.after = NoTask /\ task' = [task EXCEPT ![t] = r]
    BY <1>1, <1>4 DEF Task
  <2> HIDE DEF r
  <2> QED BY <2>1, MovesOnward
<1>5. ASSUME NEW S, p = task[t].pc, task' = [task EXCEPT ![t].chosen = S]
      PROVE  Onward
  <2> DEFINE r == [task[t] EXCEPT !.chosen = S]
  <2>1. r.pc = p /\ r.after = NoTask /\ task' = [task EXCEPT ![t] = r]
    BY <1>1, <1>5 DEF Task
  <2> HIDE DEF r
  <2> QED BY <2>1, MovesOnward
<1> QED BY <1>2, <1>3, <1>4, <1>5

LEMMA EndsOnward ==
    ASSUME TypeOK, Chained, NEW t \in Tasks, Ends(t)
    PROVE  Onward
<1>1. task \in [Tasks -> Task] /\ tail \in Tails /\ NoTask \notin Tasks /\ Idle.after = NoTask
  BY NamesAssumption DEF TypeOK, Tails, Idle
<1>2. \A u \in Tasks : task'[u] = IF u = t THEN Idle
                                  ELSE IF task[u].after = t THEN [task[u] EXCEPT !.after = NoTask]
                                  ELSE task[u]
  BY DEF Ends
<1>3. \A i \in TabIds \cup {NoTab} : tail'[i] = IF tail[i] = t THEN NoTask ELSE tail[i]
  BY <1>1 DEF Ends, Tails
<1>4. ASSUME NEW u \in Tasks
      PROVE  /\ task'[u].after # t
             /\ u # t => task'[u].pc = task[u].pc /\ task'[u].after \in {task[u].after, NoTask}
             /\ u = t => task'[u].after = NoTask
  <2>1. task[u] \in Task
    BY <1>1
  <2>2. [task[u] EXCEPT !.after = NoTask].after = NoTask
        /\ [task[u] EXCEPT !.after = NoTask].pc = task[u].pc
    BY <2>1 DEF Task
  <2> QED BY <1>1, <1>2, <2>2
<1>5. \A i \in TabIds \cup {NoTab} : tail'[i] # t /\ tail'[i] \in {tail[i], NoTask}
  BY <1>1, <1>3
<1> QED BY <1>4, <1>5 DEF Onward

LEMMA WaitingPhases ==
    /\ {"create", "adopt", "creating", "created", "rollback", "navigate", "closing", "remove",
        "untrack", "sweep", "list", "cleanup"} \subseteq Phases \ Fresh
    /\ Fresh = {"idle", "guard"}
BY DEF Phases, Waiting, Fresh

LEMMA OpensOnward ==
    ASSUME TypeOK, Chained, NEW t \in Tasks, Opens(t)
    PROVE  Onward
<1>1. CASE BeginOpening(t)
  <2> DEFINE p == IF task[t].op = "new" THEN "create" ELSE "adopt"
  <2>1. /\ task[t].after = NoTask /\ tail' = tail
        /\ task' = [task EXCEPT ![t].pc = p, ![t].tab = NoTab]
    BY <1>1 DEF BeginOpening, MyTurn
  <2>2. p \in Phases \ Fresh
    BY WaitingPhases
  <2> HIDE DEF p
  <2> QED BY <2>1, <2>2, GoesOnward
<1>2. CASE Create(t) \/ Adopt(t)
  <2>1. task[t].pc # "queued"
    BY <1>2 DEF Create, Adopt
  <2>2. \/ Ends(t)
        \/ Goes(t, "creating") /\ tail' = tail
        \/ \E i : task' = [task EXCEPT ![t].pc = "navigate", ![t].tab = i] /\ tail' = tail
    BY <1>2 DEF Create, Adopt, CreatesOrRefuses
  <2> QED BY <2>1, <2>2, EndsOnward, GoesOnward, WaitingPhases
<1>3. CASE TabCreated(t)
  <2>1. /\ task[t].pc = "creating" /\ tail' = tail
        /\ task' = [task EXCEPT ![t].pc = "created", ![t].tab = Len(tabs) + 1]
    BY <1>3 DEF TabCreated
  <2>2. \E i : task' = [task EXCEPT ![t].pc = "created", ![t].tab = i]
    BY <2>1
  <2>3. task[t].pc # "queued"
    BY <2>1
  <2> QED BY <2>1, <2>2, <2>3, GoesOnward, WaitingPhases
<1>4. CASE TabRefused(t) \/ RollBack(t) \/ Navigate(t)
  BY <1>4, EndsOnward DEF TabRefused, RollBack, Navigate
<1>5. CASE SaveCreated(t) \/ SaveCreatedFails(t)
  <2>1. /\ task[t].pc # "queued"
        /\ Ends(t) \/ (Goes(t, "navigate") /\ tail' = tail) \/ (Goes(t, "rollback") /\ tail' = tail)
    BY <1>5 DEF SaveCreated, SaveCreatedFails
  <2> QED BY <2>1, EndsOnward, GoesOnward, WaitingPhases
<1> QED BY <1>1, <1>2, <1>3, <1>4, <1>5 DEF Opens

LEMMA ClosesOnward ==
    ASSUME TypeOK, Chained, NEW t \in Tasks, ClosesTabs(t)
    PROVE  Onward
<1>1. CASE BeginClose(t)
  <2>1. task[t].after = NoTask /\ tail' = tail /\ Goes(t, "closing")
    BY <1>1 DEF BeginClose, MyTurn
  <2> QED BY <2>1, GoesOnward, WaitingPhases
<1>2. CASE Closing(t)
  <2>1. task[t].pc # "queued" /\ (Ends(t) \/ (Goes(t, "remove") /\ tail' = tail))
    BY <1>2 DEF Closing, Access
  <2> QED BY <2>1, EndsOnward, GoesOnward, WaitingPhases
<1>3. CASE Remove(t)
  <2>1. task[t].pc # "queued" /\ (Ends(t) \/ (Goes(t, "untrack") /\ tail' = tail))
    BY <1>3 DEF Remove
  <2> QED BY <2>1, EndsOnward, GoesOnward, WaitingPhases
<1>4. CASE Untrack(t) \/ SelectRefused(t) \/ Swept(t)
  BY <1>4, EndsOnward DEF Untrack, SelectRefused, Swept
<1>5. CASE Select(t)
  <2>1. /\ task[t].pc # "queued" /\ tail' = tail
        /\ \E S : task' = [task EXCEPT ![t].pc = "sweep", ![t].chosen = S]
    BY <1>5 DEF Select
  <2> QED BY <2>1, GoesOnward, WaitingPhases
<1>6. CASE Sweep(t)
  <2>1. /\ task[t].pc = "sweep" /\ tail' = tail
        /\ \E S : task' = [task EXCEPT ![t].chosen = S]
    BY <1>6 DEF Sweep
  <2>2. "sweep" \in Phases \ Fresh /\ task[t].pc # "queued"
    BY <2>1, WaitingPhases
  <2> QED BY <2>1, <2>2, GoesOnward
<1> QED BY <1>1, <1>2, <1>3, <1>4, <1>5, <1>6 DEF ClosesTabs

LEMMA GuardChained ==
    ASSUME TypeOK, Chained, NEW t \in Tasks, Guard(t)
    PROVE  Chained'
<1>1. CASE Ends(t)
  BY <1>1, EndsOnward, OnwardChained
<1>2. CASE Queues(t, task[t].tab)
  <2>1. /\ task[t].pc = "guard"
        /\ task' = [task EXCEPT ![t].pc = "queued", ![t].after = tail[task[t].tab]]
        /\ tail' = [tail EXCEPT ![task[t].tab] = t]
    BY <1>2 DEF Guard, Queues
  <2>2. /\ task \in [Tasks -> Task] /\ task[t] \in Task /\ task[t].tab \in TabIds \cup {NoTab}
    BY TaskType DEF TypeOK
  <2> DEFINE r == [task[t] EXCEPT !.pc = "queued", !.after = tail[task[t].tab]]
  <2>3. r.pc = "queued" /\ r.after = tail[task[t].tab]
    BY <2>2 DEF Task
  <2>4. task' = [task EXCEPT ![t] = r]
    BY <2>1, <2>2
  <2> HIDE DEF r
  <2>5. Lines(t, task[t].tab)
    BY <2>1, <2>2, <2>3, <2>4, WaitingPhases DEF Lines
  <2> QED BY <2>2, <2>5, LinesChained
<1> QED BY <1>1, <1>2 DEF Guard

LEMMA AsksChained ==
    ASSUME TypeOK, Chained, NEW t \in Tasks, Asks(t)
    PROVE  Chained'
<1>1. task \in [Tasks -> Task] /\ NoTab \in TabIds \cup {NoTab}
  BY DEF TypeOK
<1>2. ASSUME NEW op, SubmitUnqueued(t, op)
      PROVE  Chained'
  <2> DEFINE r == [Idle EXCEPT !.op = op, !.pc = IF op = "list" THEN op ELSE "cleanup"]
  <2>1. task[t].pc = "idle" /\ tail' = tail /\ task' = [task EXCEPT ![t] = r]
    BY <1>2 DEF SubmitUnqueued
  <2>2. r.after = NoTask
    BY DEF Idle
  <2> HIDE DEF r
  <2>3. task[t].pc \in Fresh
    BY <2>1, WaitingPhases
  <2> QED BY <2>1, <2>2, <2>3, MovesOnward, OnwardChained
<1>3. ASSUME NEW op, NEW i, Submit(t, op, i)
      PROVE  Chained'
  <2> DEFINE begun == [Idle EXCEPT !.op = op, !.tab = i]
  <2>1. /\ task[t].pc = "idle"
        /\ \/ /\ task' = [task EXCEPT ![t] = [begun EXCEPT !.pc = "queued", !.after = tail[NoTab]]]
              /\ tail' = [tail EXCEPT ![NoTab] = t]
           \/ /\ task' = [task EXCEPT ![t] = [begun EXCEPT !.pc = "guard"]]
              /\ tail' = tail
    BY <1>3 DEF Submit
  <2>2. task[t].pc \in Fresh
    BY <2>1, WaitingPhases
  <2>3. CASE /\ task' = [task EXCEPT ![t] = [begun EXCEPT !.pc = "queued", !.after = tail[NoTab]]]
             /\ tail' = [tail EXCEPT ![NoTab] = t]
    <3> DEFINE r == [begun EXCEPT !.pc = "queued", !.after = tail[NoTab]]
    <3>1. r.pc = "queued" /\ r.after = tail[NoTab] /\ task' = [task EXCEPT ![t] = r]
      BY <2>3 DEF Idle
    <3> HIDE DEF r
    <3>2. Lines(t, NoTab)
      BY <1>1, <2>2, <2>3, <3>1 DEF Lines
    <3> QED BY <1>1, <3>2, LinesChained
  <2>4. CASE task' = [task EXCEPT ![t] = [begun EXCEPT !.pc = "guard"]] /\ tail' = tail
    <3> DEFINE r == [begun EXCEPT !.pc = "guard"]
    <3>1. r.after = NoTask /\ task' = [task EXCEPT ![t] = r]
      BY <2>4 DEF Idle
    <3> HIDE DEF r
    <3> QED BY <2>2, <2>4, <3>1, MovesOnward, OnwardChained
  <2> QED BY <2>1, <2>3, <2>4
<1> QED BY <1>2, <1>3 DEF Asks

LEMMA StepChained == TypeOK /\ Chained /\ [Next]_vars => Chained'
<1> SUFFICES ASSUME TypeOK, Chained, [Next]_vars
             PROVE  Chained'
  OBVIOUS
<1>1. CASE task' = task /\ \A i \in TabIds \cup {NoTab} : tail'[i] \in {tail[i], NoTask}
  <2>1. Onward
    BY <1>1 DEF Onward
  <2> QED BY <2>1, OnwardChained
<1>2. CASE Browser
  <2>1. task' = task /\ (tail' = tail \/ \E i \in TabIds : tail' = [tail EXCEPT ![i] = NoTask])
    BY <1>2 DEF Browser, UserOpens, UserCloses, UserActivates, Listener
  <2> QED BY <1>1, <2>1 DEF TypeOK
<1>3. CASE Kill
  <2>1. /\ \A u \in Tasks : task'[u] = Idle
        /\ \A i \in TabIds \cup {NoTab} : tail'[i] = NoTask
    BY <1>3 DEF Kill, TypeOK
  <2>2. Onward
    BY <2>1, NamesAssumption DEF Onward, Idle
  <2> QED BY <2>2, OnwardChained
<1>4. ASSUME NEW t \in Tasks, Runs(t)
      PROVE  Chained'
  <2>1. CASE StorageFails(t) \/ List(t) \/ Drive(t) \/ TargetGone(t)
    BY <2>1, EndsOnward, OnwardChained DEF StorageFails, List, Drive, TargetGone
  <2> QED BY <1>4, <2>1, GuardChained, OpensOnward, ClosesOnward, OnwardChained DEF Runs
<1>5. CASE UNCHANGED vars
  BY <1>1, <1>5 DEF vars
<1> QED BY <1>2, <1>3, <1>4, <1>5, AsksChained DEF Next

LEMMA InitChained == Init => Chained
<1> SUFFICES ASSUME Init
             PROVE  Chained
  OBVIOUS
<1>1. /\ \A u \in Tasks : task[u].after = NoTask
      /\ \A i \in TabIds \cup {NoTab} : tail[i] = NoTask
  BY DEF Init, Idle
<1>2. [u \in Tasks |-> 0] \in [Tasks -> Nat]
  OBVIOUS
<1> QED BY <1>1, <1>2 DEF Chained, Queued, Numbered

LEMMA Lowest ==
    ASSUME NEW N, N \subseteq Nat, N # {}
    PROVE  \E n \in N : \A m \in N : ~ (m < n)
<1>1. PICK x \in N : \A y \in N : ~ (<<y, x>> \in Below)
  BY BelowWellFounded, WFMin
<1> QED BY <1>1 DEF Below

\* No commands wait for each other in a circle (runSerializedMutation of runtime.ts
\* in front of withManagedTabsLock of managed-tabs.ts): of any commands, one that
\* is in the lock's queue waits for none that came after it, and one in a mutation
\* queue only for a command that queued before it.
THEOREM NoCircles == Spec => []NoCircle
<1>1. Spec => []Chained
  <2>1. Inv => TypeOK
    BY DEF Inv
  <2> QED BY <2>1, InitChained, StepChained, Invariance, PTL DEF Spec
<1>2. Inv /\ Chained => NoCircle
  <2> SUFFICES ASSUME Inv, Chained, NEW S \in SUBSET Running, S # {}
               PROVE  \E t \in S : \A u \in S : ~ WaitsFor(t, u)
    BY DEF NoCircle
  <2>1. TypeOK /\ Locked /\ S \subseteq Tasks
    BY DEF Inv, Running
  <2>2. /\ lock \in Seq(Tasks) /\ Len(lock) \in Nat /\ DOMAIN lock = 1 .. Len(lock)
        /\ \A j, k \in 1 .. Len(lock) : lock[j] = lock[k] => j = k
        /\ \A j \in 1 .. Len(lock) : task[lock[j]].pc \in Busy
    BY <2>1 DEF TypeOK, Locked, Busy
  <2>3. CASE \E j \in 1 .. Len(lock) : lock[j] \in S
    <3> DEFINE N == {j \in 1 .. Len(lock) : lock[j] \in S}
    <3>1. PICK j \in N : \A k \in N : ~ (k < j)
      <4>1. N \subseteq Nat /\ N # {}
        BY <2>2, <2>3
      <4> HIDE DEF N
      <4> QED BY <4>1, Lowest
    <3>2. lock[j] \in S /\ task[lock[j]].after = NoTask
      BY <2>1, <2>2, Places DEF Chained, Queued
    <3>3. ASSUME NEW u \in S, NEW k \in DOMAIN lock, NEW i \in 1 .. k - 1,
                 lock[i] = u, lock[k] = lock[j]
          PROVE  FALSE
      <4>1. k = j /\ i \in 1 .. Len(lock) /\ i < j
        BY <2>2, <3>3
      <4> QED BY <3>1, <3>3, <4>1
    <3>4. NoTask \notin S
      BY <2>1, NamesAssumption
    <3> QED BY <3>2, <3>3, <3>4 DEF WaitsFor
  <2>4. CASE \A j \in 1 .. Len(lock) : lock[j] \notin S
    <3>1. PICK f \in [Tasks -> Nat] :
             \A u \in Tasks : task[u].after # NoTask => f[task[u].after] < f[u]
      BY DEF Chained, Numbered
    <3> DEFINE N == {f[u] : u \in S}
    <3>2. PICK n \in N : \A m \in N : ~ (m < n)
      <4>1. N \subseteq Nat /\ N # {}
        BY <2>1
      <4> HIDE DEF N
      <4> QED BY <4>1, Lowest
    <3>3. PICK t \in S : n = f[t]
      OBVIOUS
    <3>4. \A u \in S : task[t].after # u
      BY <2>1, <3>1, <3>2, <3>3, NamesAssumption
    <3>5. \A k \in DOMAIN lock : lock[k] # t
      BY <2>2, <2>4
    <3> QED BY <3>4, <3>5 DEF WaitsFor
  <2> QED BY <2>3, <2>4
<1> QED BY <1>1, <1>2, Invariance, PTL

=============================================================================
