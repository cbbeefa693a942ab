---------------------------- MODULE Installation ----------------------------
(***************************************************************************)
(* What the command line leaves on the machine: the service with its       *)
(* systemd unit, the native launcher, the agent skill, the registration in *)
(* an MCP client and the managed copy of the extension, as setup, repair   *)
(* (local-install), the native helper and local-uninstall change them      *)
(* (cli/application.ts, native/, setup/).                                  *)
(*                                                                         *)
(* An artefact is absent, exactly what some version wrote, or Edited: not  *)
(* what any version wrote.  The skill is that of one agent.  The platform  *)
(* is Linux.  A step of a run is what it does between two waits: a look at *)
(* an artefact is one step, its replacement or removal is a later one.     *)
(***************************************************************************)
EXTENDS Naturals, Sequences

CONSTANTS
    Runs,      \* command lines that may run at once
    Versions,  \* versions of the package, a set of numbers
    None, Edited,
    Editable,  \* the artefacts that the user edits (model only)
    MaxRuns,   \* bound on the commands started (model only)
    MaxFaults  \* bound on edits, kills and failing steps (model only)

ASSUME ConstantsAssumption ==
    /\ None \notin Versions \cup {Edited} /\ Edited \notin Versions
    /\ Editable \subseteq {"skill", "client", "unit", "copy", "launcher"}
    /\ {MaxRuns, MaxFaults} \subseteq Nat

VARIABLES
    run,     \* each command line
    disk,    \* the artefacts
    service, \* systemd: the unit it has loaded, the code that runs
    taken,   \* a foreign program holds the ports
    count    \* what the bounds count

vars == <<run, disk, service, taken, count>>

Plan == [setup     |-> <<"skill", "client", "unit", "copy", "launcher">>,
         install   |-> <<"skill", "unit", "launcher", "copy">>,
         helper    |-> <<"unit">>,
         uninstall |-> <<"launcher", "unit">>]
Kinds == DOMAIN Plan
Artefacts == {"skill", "client", "unit", "copy", "launcher"}
Content == Versions \cup {None, Edited}

\* todo: the artefacts still to do; seen: what the inspection found; wrote: the
\* unit is this run's; failed: a step of the cleanup failed too.  History: alone,
\* nothing interfered and nothing was amiss at the start; orphan, a daemon ran at
\* the start that had no unit; since, the faults before it; late, the user has
\* edited the artefact since the run's last look at it.
Places == {"inspect", "authorize", "look", "write", "replace", "reload", "start",
           "health", "stop", "remove", "delete", "forget", "aside", "put", "verify",
           "add"}
Acts == {"replace", "delete", "aside", "verify"}  \* what follows a last look
Idle == [kind |-> None, version |-> None, todo |-> <<>>, at |-> "inspect",
         seen |-> None, backup |-> None, wrote |-> FALSE, cleanup |-> FALSE,
         failed |-> FALSE, alone |-> FALSE, orphan |-> FALSE, since |-> 0,
         late |-> FALSE, result |-> None]

Ended(result) == [Idle EXCEPT !.result = result]
Active(p) == run[p].kind # None
At(p, a, at) == Active(p) /\ Head(run[p].todo) = a /\ run[p].at = at
Installing(p) == run[p].kind \in {"setup", "install"}
Version(p) == run[p].version

\* The records of the other runs stay.
Becomes(p, r) == run' = [run EXCEPT ![p] = r]
Goes(p, at) == Becomes(p, [run[p] EXCEPT !.at = at, !.late = FALSE])
Fails(p) == Becomes(p, Ended("failed"))
Proceeds(p) ==
    Becomes(p, IF Len(run[p].todo) = 1 THEN Ended("ok")
               ELSE [run[p] EXCEPT !.todo = Tail(@), !.at = "inspect",
                                   !.seen = None, !.backup = None, !.late = FALSE])
Sees(p, a, at) == Becomes(p, [run[p] EXCEPT !.seen = disk[a], !.at = at])
Writes(a, content) == disk' = [disk EXCEPT ![a] = content]
Overwrites(p, a) == run[p].seen # None \/ disk[a] = None
Unchanged(p, a) == disk[a] = run[p].seen
New(p) == run[p].seen = None
Elsewhere == UNCHANGED <<service, taken, count>>

\* Something interfered with every run that is under way.
Disturbed == [p \in Runs |-> [run[p] EXCEPT !.alone = FALSE]]
Fault == count.faults < MaxFaults /\ count' = [count EXCEPT !.faults = @ + 1]

-----------------------------------------------------------------------------
(* runSetup(), localInstall(), the native helper, localUninstall().        *)

\* Nothing is edited and the ports are not taken: otherwise a command has to give
\* up.
InOrder == ~taken /\ \A a \in Artefacts : disk[a] # Edited

\* A daemon runs and its unit is gone: the user deleted it, or an uninstall went
\* on when "disable --now" had failed.
Orphan == service.running # None /\ disk["unit"] = None

Begins(p, kind, v) ==
    /\ ~Active(p) /\ (kind = "helper" => disk["launcher"] = v)
    /\ count.runs < MaxRuns /\ count' = [count EXCEPT !.runs = @ + 1]
    /\ run' = [Disturbed EXCEPT ![p] =
         [Idle EXCEPT !.kind = kind, !.version = v, !.todo = Plan[kind],
                      !.since = count.faults, !.orphan = Orphan,
                      !.alone = InOrder /\ \A q \in Runs : ~Active(q)]]
    /\ UNCHANGED <<disk, service, taken>>

-----------------------------------------------------------------------------
(* installBundledAgentSkills().                                            *)

SkillInspected(p) ==
    /\ At(p, "skill", "inspect")
    /\ \/ disk["skill"] = Edited /\ Fails(p)
       \/ disk["skill"] = Version(p) /\ Proceeds(p)
       \/ disk["skill"] = None /\ Sees(p, "skill", "put")
       \/ disk["skill"] \in Versions \ {Version(p)} /\ Sees(p, "skill", "look")
    /\ UNCHANGED disk /\ Elsewhere

\* installTarget(): the skill is inspected again, when the new one is ready.
SkillLookedAt(p) ==
    /\ At(p, "skill", "look")
    /\ IF Unchanged(p, "skill") THEN Goes(p, "aside") ELSE Fails(p)
    /\ UNCHANGED disk /\ Elsewhere

\* Whatever is there by then is set aside, to be removed with the backup.
SetAside(p, a, fails) ==
    /\ At(p, a, "aside")
    /\ \/ /\ disk[a] # None /\ Writes(a, None)
          /\ Becomes(p, [run[p] EXCEPT !.backup = disk[a], !.at = "put"])
       \/ disk[a] = None /\ fails /\ UNCHANGED disk
    /\ Elsewhere

SkillSetAside(p) == SetAside(p, "skill", Fails(p))

SkillPut(p) ==
    /\ At(p, "skill", "put")
    /\ \/ disk["skill"] = None /\ Writes("skill", Version(p)) /\ Proceeds(p)
       \/ disk["skill"] # None /\ Fails(p) /\ UNCHANGED disk
    /\ Elsewhere

-----------------------------------------------------------------------------
(* addCliManagedClient(): the client's own command changes its entry.      *)

ClientInspected(p) ==
    /\ At(p, "client", "inspect")
    /\ \/ disk["client"] = Edited /\ Fails(p)
       \/ disk["client"] = Version(p) /\ Proceeds(p)
       \/ disk["client"] = None /\ Sees(p, "client", "add")
       \/ disk["client"] \in Versions \ {Version(p)} /\ Sees(p, "client", "delete")
    /\ UNCHANGED disk /\ Elsewhere

ClientRemoved(p) ==
    /\ At(p, "client", "delete")
    /\ Writes("client", None) /\ Goes(p, "add") /\ Elsewhere

ClientAdded(p) ==
    /\ At(p, "client", "add")
    /\ \/ disk["client"] = None /\ Writes("client", Version(p)) /\ Proceeds(p)
       \/ disk["client"] # None /\ Fails(p) /\ UNCHANGED disk
    /\ Elsewhere

-----------------------------------------------------------------------------
(* prepareManagedExtension(): repair refreshes a copy that exists, and     *)
(* goes on when it cannot.                                                 *)

CopyFails(p) == IF run[p].kind = "install" THEN Proceeds(p) ELSE Fails(p)

CopyInspected(p) ==
    /\ At(p, "copy", "inspect")
    /\ \/ disk["copy"] = Edited /\ CopyFails(p)
       \/ disk["copy"] = Version(p) /\ Proceeds(p)
       \/ disk["copy"] = None
          /\ IF run[p].kind = "install" THEN Proceeds(p) ELSE Sees(p, "copy", "put")
       \/ disk["copy"] \in Versions \ {Version(p)} /\ Sees(p, "copy", "aside")
    /\ UNCHANGED disk /\ Elsewhere

CopySetAside(p) == SetAside(p, "copy", CopyFails(p))

CopyPut(p) ==
    /\ At(p, "copy", "put")
    /\ \/ disk["copy"] = None /\ Writes("copy", Version(p)) /\ Goes(p, "verify")
       \/ disk["copy"] # None /\ CopyFails(p) /\ UNCHANGED disk
    /\ Elsewhere

\* What does not verify is removed, and the backup takes its place again.
CopyVerified(p) ==
    /\ At(p, "copy", "verify")
    /\ \/ disk["copy"] = Version(p) /\ Proceeds(p) /\ UNCHANGED disk
       \/ disk["copy"] # Version(p) /\ Writes("copy", run[p].backup) /\ CopyFails(p)
    /\ Elsewhere

-----------------------------------------------------------------------------
(* installNativeHostRegistration(), uninstallNativeHostRegistration().     *)

LauncherInspected(p) ==
    /\ At(p, "launcher", "inspect") /\ Installing(p)
    /\ \/ disk["launcher"] = Edited /\ Fails(p)
       \/ disk["launcher"] = Version(p) /\ Proceeds(p)
       \/ disk["launcher"] \notin {Edited, Version(p)} /\ Sees(p, "launcher", "write")
    /\ UNCHANGED disk /\ Elsewhere

\* writeOwnedArtifact(): what was missing is linked, which fails where something
\* is by now; what was there is looked at again and then replaced by a rename.
LauncherWritten(p) ==
    /\ At(p, "launcher", "write")
    /\ \/ ~Unchanged(p, "launcher") /\ Fails(p) /\ UNCHANGED disk
       \/ /\ Unchanged(p, "launcher") /\ New(p)
          /\ Writes("launcher", Version(p)) /\ Proceeds(p)
       \/ Unchanged(p, "launcher") /\ ~New(p) /\ Goes(p, "replace") /\ UNCHANGED disk
    /\ Elsewhere

LauncherReplaced(p) ==
    /\ At(p, "launcher", "replace")
    /\ Writes("launcher", Version(p)) /\ Proceeds(p) /\ Elsewhere

UninstallReadsLauncher(p) ==
    /\ At(p, "launcher", "inspect") /\ run[p].kind = "uninstall"
    /\ \/ disk["launcher"] = Edited /\ Fails(p)
       \/ disk["launcher"] = None /\ Proceeds(p)
       \/ disk["launcher"] \in Versions /\ Goes(p, "delete")
    /\ UNCHANGED disk /\ Elsewhere

LauncherRemoved(p) ==
    /\ At(p, "launcher", "delete")
    /\ \/ disk["launcher"] # None /\ Writes("launcher", None) /\ Proceeds(p)
       \/ disk["launcher"] = None /\ Fails(p) /\ UNCHANGED disk
    /\ Elsewhere

-----------------------------------------------------------------------------
(* installService(), ensureExactOwnedServiceReady(), uninstallService().   *)

UnitInspected(p) ==
    /\ At(p, "unit", "inspect") /\ Installing(p)
    /\ IF disk["unit"] = Edited THEN Fails(p) ELSE Sees(p, "unit", "authorize")
    /\ UNCHANGED disk /\ Elsewhere

\* The native helper starts only the unit of its own version.
HelperInspected(p) ==
    /\ At(p, "unit", "inspect") /\ run[p].kind = "helper"
    /\ IF disk["unit"] = Version(p) THEN Sees(p, "unit", "authorize") ELSE Fails(p)
    /\ UNCHANGED disk /\ Elsewhere

UninstallInspected(p) ==
    /\ At(p, "unit", "inspect") /\ run[p].kind = "uninstall"
    /\ \/ disk["unit"] = None /\ Proceeds(p)
       \/ disk["unit"] = Edited /\ Fails(p)
       \/ disk["unit"] \in Versions /\ Sees(p, "unit", "stop")
    /\ UNCHANGED disk /\ Elsewhere

\* authorizeServiceMutation(): the daemon answers, or both ports are free.
Authorized(p) ==
    /\ At(p, "unit", "authorize") /\ Installing(p)
    /\ IF taken THEN Fails(p) ELSE Goes(p, "write")
    /\ UNCHANGED disk /\ Elsewhere

HelperAuthorized(p) ==
    /\ At(p, "unit", "authorize") /\ run[p].kind = "helper"
    /\ \/ service.running # None /\ Proceeds(p)
       \/ service.running = None /\ taken /\ Fails(p)
       \/ service.running = None /\ ~taken /\ Goes(p, "start")
    /\ UNCHANGED disk /\ Elsewhere

\* runManagedServiceInstallOperation(): what is new is cleaned up.
CleansUp(p) ==
    IF Installing(p) /\ New(p)
    THEN Becomes(p, [run[p] EXCEPT !.cleanup = TRUE, !.at = "stop"])
    ELSE Fails(p)

Puts(p) ==
    /\ Writes("unit", Version(p))
    /\ Becomes(p, [run[p] EXCEPT !.at = "reload", !.wrote = TRUE, !.late = FALSE])

\* writeManagedDefinition(): a unit that was exact is not looked at again, one
\* that was missing is linked, one of another version is looked at again.
UnitWritten(p) ==
    /\ At(p, "unit", "write")
    /\ \/ run[p].seen = Version(p) /\ Goes(p, "reload") /\ UNCHANGED disk
       \/ run[p].seen # Version(p) /\ ~Unchanged(p, "unit") /\ CleansUp(p) /\ UNCHANGED disk
       \/ New(p) /\ Unchanged(p, "unit") /\ Puts(p)
       \/ /\ run[p].seen \notin {None, Version(p)} /\ Unchanged(p, "unit")
          /\ Goes(p, "replace") /\ UNCHANGED disk
    /\ Elsewhere

\* Meanwhile the new unit was written and synced; the rename asks for nothing.
UnitReplaced(p) == At(p, "unit", "replace") /\ Puts(p) /\ Elsewhere

Reloaded(p) ==
    /\ At(p, "unit", "reload")
    /\ service' = [service EXCEPT !.unit = disk["unit"]]
    /\ Goes(p, "start")
    /\ UNCHANGED <<disk, taken, count>>

\* What runs after "start", which leaves a daemon that runs alone.
StartedCode == IF service.running # None THEN service.running
               ELSE IF taken THEN None ELSE service.unit
RestartedCode == IF taken THEN None ELSE service.unit

CommandsOnce(p) ==
    [service EXCEPT !.running = StartedCode, !.enabled = @ \/ Installing(p)]

\* serviceInstallCommands(): "enable --now" at first, later "restart".
Commands(p) ==
    [service EXCEPT !.running = IF run[p].kind = "helper" \/ New(p) THEN StartedCode
                                ELSE RestartedCode,
                    !.enabled = @ \/ (Installing(p) /\ New(p))]

Started(p) ==
    /\ At(p, "unit", "start")
    /\ \/ /\ service.unit \in Versions \cup {Edited} /\ service' = Commands(p)
          /\ Goes(p, "health")
       \/ service.unit = None /\ CleansUp(p) /\ UNCHANGED service
    /\ UNCHANGED <<disk, taken, count>>

\* waitForExactBridgeHealth().
Healthy(p) ==
    /\ At(p, "unit", "health")
    /\ \/ service.running # None /\ Proceeds(p)
       \/ service.running \notin Versions /\ CleansUp(p)
    /\ UNCHANGED disk /\ Elsewhere

Disabled == [service EXCEPT !.enabled = FALSE, !.running = None]

\* cleanupFailedNewServiceInstall(), and "disable --now" of an uninstall.
ServiceStopped(p) ==
    /\ At(p, "unit", "stop")
    /\ LET exact == disk["unit"] = Version(p) \/ run[p].kind = "uninstall"
           other == disk["unit"] \notin {None, Version(p)} /\ run[p].cleanup
       IN /\ service' = IF exact THEN Disabled ELSE service
          /\ Becomes(p, [run[p] EXCEPT !.at = "remove", !.failed = other])
    /\ UNCHANGED <<disk, taken, count>>

\* removeOwnedDefinition(): the unit is read once more, and then removed.
UninstallRemoves(p) ==
    /\ At(p, "unit", "remove") /\ ~run[p].cleanup
    /\ IF Unchanged(p, "unit") THEN Goes(p, "delete") ELSE Fails(p)
    /\ UNCHANGED disk /\ Elsewhere

CleanedUp(p, failed) == Becomes(p, Ended(IF failed THEN "unclean" ELSE "failed"))

CleanupRemoves(p) ==
    /\ At(p, "unit", "remove") /\ run[p].cleanup
    /\ \/ disk["unit"] = Version(p) /\ Goes(p, "delete")
       \/ disk["unit"] # Version(p) /\ CleanedUp(p, run[p].failed \/ disk["unit"] # None)
    /\ UNCHANGED disk /\ Elsewhere

RemovalRejects(p) == IF run[p].cleanup THEN CleanedUp(p, TRUE) ELSE Fails(p)

UnitRemoved(p) ==
    /\ At(p, "unit", "delete")
    /\ \/ disk["unit"] # None /\ Writes("unit", None) /\ Goes(p, "forget")
       \/ disk["unit"] = None /\ RemovalRejects(p) /\ UNCHANGED disk
    /\ Elsewhere

\* postUninstallCommands: "daemon-reload".
Forgotten(p) ==
    /\ At(p, "unit", "forget")
    /\ service' = [service EXCEPT !.unit = disk["unit"]]
    /\ IF run[p].cleanup THEN CleanedUp(p, run[p].failed) ELSE Proceeds(p)
    /\ UNCHANGED <<disk, taken, count>>

-----------------------------------------------------------------------------
(* What can go wrong.                                                      *)

\* The user edits or deletes a file.
Edits(a) ==
    /\ Fault
    /\ run' = [p \in Runs |-> [Disturbed[p] EXCEPT
                 !.late = @ \/ \E at \in Acts : At(p, a, at)]]
    /\ \E content \in {Edited, None} \ {disk[a]} : Writes(a, content)
    /\ UNCHANGED <<service, taken>>

\* The daemon stops for good, or crashes and systemd starts it again.
DaemonDies ==
    /\ service.running # None /\ Fault /\ run' = Disturbed
    /\ \E code \in {None, service.unit} : service' = [service EXCEPT !.running = code]
    /\ UNCHANGED <<disk, taken>>

PortsTaken ==
    /\ ~taken /\ service.running = None
    /\ Fault /\ run' = Disturbed /\ taken' = TRUE
    /\ UNCHANGED <<disk, service>>
PortsFreed ==
    /\ taken /\ taken' = FALSE /\ run' = Disturbed
    /\ UNCHANGED <<disk, service, count>>

Killed(p) ==
    /\ Active(p) /\ Fault /\ Becomes(p, Ended("killed"))
    /\ UNCHANGED <<disk, service, taken>>

\* A file operation or a program that a run started fails.
FileStepFails(p) ==
    /\ Fault
    /\ \/ \E a \in {"skill", "client", "launcher"} :
            /\ \E at \in {"aside", "add", "write", "replace", "delete"} : At(p, a, at)
            /\ Fails(p) /\ UNCHANGED disk
       \/ /\ At(p, "skill", "put") /\ Fails(p)
          /\ IF disk["skill"] = None THEN Writes("skill", run[p].backup)
             ELSE UNCHANGED disk
       \/ At(p, "copy", "aside") /\ CopyFails(p) /\ UNCHANGED disk
       \/ /\ At(p, "copy", "put") /\ CopyFails(p)
          /\ IF disk["copy"] = None THEN Writes("copy", run[p].backup)
             ELSE UNCHANGED disk
    /\ UNCHANGED <<service, taken>>

\* A command that fails may have done its work, a healthy daemon may not answer.
ServiceStepFails(p) ==
    /\ Fault /\ \E at \in {"write", "replace", "reload", "start", "health"} : At(p, "unit", at)
    /\ CleansUp(p)
    /\ \/ UNCHANGED service
       \/ /\ run[p].at = "start" /\ service.unit # None
          /\ service' = Commands(p)
    /\ UNCHANGED <<disk, taken>>

\* verifyNewNonWindowsServiceStopped(): the failure of "disable --now" is allowed.
NotStopped(p) == FALSE
StillRuns(p) == run[p].cleanup /\ service.running # None

StopFails(p) ==
    /\ Fault /\ At(p, "unit", "stop")
    /\ Becomes(p, [run[p] EXCEPT !.at = "remove", !.failed = StillRuns(p)])
    /\ UNCHANGED <<disk, service, taken>>

RemovalFails(p) ==
    /\ Fault /\ \E at \in {"delete", "forget"} : At(p, "unit", at)
    /\ RemovalRejects(p) /\ UNCHANGED <<disk, service, taken>>

-----------------------------------------------------------------------------
Nothing == [a \in Artefacts |-> None]

Init ==
    /\ run = [p \in Runs |-> Idle]
    /\ disk = Nothing
    /\ service = [unit |-> None, running |-> None, enabled |-> FALSE]
    /\ taken = FALSE
    /\ count = [runs |-> 0, faults |-> 0]

Steps(p) ==
    \/ SkillInspected(p) \/ SkillLookedAt(p) \/ SkillSetAside(p) \/ SkillPut(p)
    \/ ClientInspected(p) \/ ClientRemoved(p) \/ ClientAdded(p)
    \/ CopyInspected(p) \/ CopySetAside(p) \/ CopyPut(p) \/ CopyVerified(p)
    \/ LauncherInspected(p) \/ LauncherWritten(p) \/ LauncherReplaced(p)
    \/ UninstallReadsLauncher(p) \/ LauncherRemoved(p)
    \/ UnitInspected(p) \/ HelperInspected(p) \/ UninstallInspected(p)
    \/ Authorized(p) \/ HelperAuthorized(p) \/ UnitWritten(p) \/ UnitReplaced(p)
    \/ Reloaded(p) \/ Started(p) \/ Healthy(p) \/ ServiceStopped(p)
    \/ UninstallRemoves(p) \/ CleanupRemoves(p) \/ UnitRemoved(p) \/ Forgotten(p)

Next ==
    \/ \E p \in Runs :
         \/ \E kind \in Kinds, v \in Versions : Begins(p, kind, v)
         \/ Steps(p) \/ FileStepFails(p) \/ ServiceStepFails(p) \/ StopFails(p)
         \/ RemovalFails(p) \/ Killed(p)
    \/ \E a \in Editable : Edits(a)
    \/ DaemonDies \/ PortsTaken \/ PortsFreed

Spec == Init /\ [][Next]_vars

-----------------------------------------------------------------------------
TypeOK ==
    /\ run \in [Runs -> [kind : Kinds \cup {None}, version : Versions \cup {None},
                         todo : Seq(Artefacts), at : Places, seen : Content,
                         backup : Content, wrote : BOOLEAN, cleanup : BOOLEAN,
                         failed : BOOLEAN, alone : BOOLEAN, orphan : BOOLEAN,
                         since : Nat, late : BOOLEAN,
                         result : {None, "ok", "failed", "unclean", "killed"}]]
    /\ disk \in [Artefacts -> Content]
    /\ service \in [unit : Content, running : Content, enabled : BOOLEAN]
    /\ taken => service.running = None

\* A run ends in this step, and not by a fault.
Ends(p) == Active(p) /\ run'[p].kind = None /\ count' = count

\* No command line changes or removes anything that the user has edited, but in
\* one case: the edit came between the last look that the run takes at it and the
\* rename or removal that follows, which ask for nothing.  For the extension and a
\* client's entry that look is the first one; a copy that the run has just put is
\* looked at to remove it where it is not what it should be.
UserFilesKept ==
    []TypeOK /\ [][\A a \in Artefacts : disk[a] = Edited /\ disk'[a] # Edited =>
        Edits(a) \/ \E p \in Runs, at \in Acts : At(p, a, at) /\ run[p].late]_vars

\* From any state that earlier runs, crashes and failures left, but for a daemon
\* whose unit is gone, one undisturbed run of setup or repair ends with everything
\* at its version, the daemon running that code, and an uninstall with nothing left
\* and nothing running.
Repairs ==
    [][\A p \in Runs :
        Ends(p) /\ run[p].alone /\ ~run[p].orphan /\ count.faults = run[p].since =>
        /\ Installing(p) =>
             /\ run'[p].result = "ok" /\ service'.running = Version(p)
             /\ \A a \in {"skill", "unit", "launcher"} : disk'[a] = Version(p)
             /\ disk'["copy"] \in IF run[p].kind = "setup" THEN {Version(p)}
                                  ELSE {Version(p), None}
        /\ run[p].kind = "uninstall" =>
             /\ run'[p].result = "ok" /\ service'.running = None
             /\ disk'["unit"] = None /\ disk'["launcher"] = None]_vars

\* A first installation of the service that fails leaves neither its unit nor a
\* daemon that runs, or says that it could not clean up.
CleansUpAfterItself ==
    [][\A p \in Runs : Ends(p) /\ run[p].alone /\ ~run[p].orphan /\ run[p].cleanup
                          /\ run'[p].result # "unclean" =>
        disk'["unit"] = None /\ service'.running = None]_vars
=============================================================================
