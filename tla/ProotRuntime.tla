---------------------------- MODULE ProotRuntime ----------------------------
(***************************************************************************)
(* The proot runtime: the daemon's background bootstrap, and the commands  *)
(* that tools and clients run in proot meanwhile.  Every command first     *)
(* renews the native links, a directory all of them share, through one     *)
(* temporary name per link.  The daemon may be killed at any step, and     *)
(* started again by an updated app, whose libraries are in another place.  *)
(***************************************************************************)
EXTENDS Naturals, FiniteSets

CONSTANTS
  None,
  Bootstrap,    \* the command the bootstrap goroutine runs
  Callers,      \* commands of tools, of clients, of a diagnosis a client asks for
  Links,        \* nativeLinks: the versioned names of the libraries the app ships
  Essentials,   \* the packages main installs
  MaxAttempts,  \* attempts of the bootstrap: 3
  MaxStarts     \* bound: starts of the daemon

ASSUME ProotAssumption ==
  /\ Bootstrap \notin Callers
  /\ None \notin Nat /\ None \notin Links
  /\ MaxAttempts \in Nat \ {0} /\ MaxStarts \in Nat \ {0}

Commands == Callers \cup {Bootstrap}

VARIABLES
  app,        \* which installation of the app runs: its native library directory
  starts,     \* starts of the daemon
  link,       \* by link: None, or the installation it points into
  tmp,        \* the same of its temporary name
  cmd,        \* the commands: step, links to renew, the link at hand, and
              \* whether no other command has renewed links meanwhile
  disk,       \* the essentials whose binary is in the rootfs
  removed,    \* those a command has removed since the daemon began
  installed,  \* the runtime's map of them
  indexed,    \* its "__apk_index__"
  boot        \* the bootstrap: step, attempt, packages it has found missing

linkVars == <<link, tmp>>
packageVars == <<disk, removed, installed, indexed>>
vars == <<app, starts, linkVars, cmd, packageVars, boot>>

Idle == [at |-> "idle", todo |-> {}, name |-> None, alone |-> TRUE]
FirstBoot == [at |-> "diagnose", attempt |-> 1, missing |-> {}]

Init ==
  /\ app = 1 /\ starts = 1
  /\ link = [l \in Links |-> None] /\ tmp = [l \in Links |-> None]
  /\ cmd = [c \in Commands |-> Idle]
  /\ disk \in SUBSET Essentials /\ removed = {}
  /\ installed = disk /\ indexed = FALSE
  /\ boot = FirstBoot

-----------------------------------------------------------------------------
(***************************************************************************)
(* setupNativeLinks, at the start of every Exec.                           *)
(***************************************************************************)
At(c, step) == cmd[c].at = step
Renews(c) == cmd[c].at \in {"next", "remove", "symlink", "rename", "cleanup"}
Goes(c, step) == cmd' = [cmd EXCEPT ![c].at = step]

\* The commands the bootstrap waits for.
BootRuns == boot.at \in {"diagnose", "update", "add"}

Exec(c) ==
  /\ At(c, "idle")
  /\ c = Bootstrap => BootRuns
  /\ cmd' = [d \in Commands |->
       IF d = c THEN [at |-> "next", todo |-> Links, name |-> None,
                      alone |-> \A e \in Commands \ {c} : ~Renews(e)]
       ELSE [cmd[d] EXCEPT !.alone = @ /\ ~Renews(d)]]
  /\ UNCHANGED <<app, starts, linkVars, packageVars, boot>>

\* The next link, in the order of a map: any.
NextLink(c, l) ==
  /\ At(c, "next") /\ l \in cmd[c].todo
  /\ cmd' = [cmd EXCEPT ![c].at = "remove", ![c].todo = @ \ {l}, ![c].name = l]
  /\ UNCHANGED <<app, starts, linkVars, packageVars, boot>>

LinksDone(c) ==
  /\ At(c, "next") /\ cmd[c].todo = {}
  /\ Goes(c, "run")
  /\ UNCHANGED <<app, starts, linkVars, packageVars, boot>>

\* Faults: the temporary name of an earlier run stays; the link itself is
\* removed, to be made anew.
RemoveNothing(c) ==
  /\ At(c, "remove")
  /\ Goes(c, "symlink")
  /\ UNCHANGED <<app, starts, linkVars, packageVars, boot>>
RemoveLink(c) ==
  /\ At(c, "remove")
  /\ link' = [link EXCEPT ![cmd[c].name] = None]
  /\ tmp' = [tmp EXCEPT ![cmd[c].name] = None]
  /\ Goes(c, "symlink")
  /\ UNCHANGED <<app, starts, packageVars, boot>>

RemoveTmp(c) ==
  /\ At(c, "remove")
  /\ tmp' = [tmp EXCEPT ![cmd[c].name] = None]
  /\ Goes(c, "symlink")
  /\ UNCHANGED <<app, starts, link, packageVars, boot>>

\* It fails when the name is there, and this link is given up.
Symlink(c) ==
  /\ At(c, "symlink")
  /\ IF tmp[cmd[c].name] = None
     THEN tmp' = [tmp EXCEPT ![cmd[c].name] = app] /\ Goes(c, "rename")
     ELSE Goes(c, "next") /\ UNCHANGED tmp
  /\ UNCHANGED <<app, starts, link, packageVars, boot>>

\* It replaces the link in one step, and fails when the name is gone.
Rename(c) ==
  LET l == cmd[c].name IN
  /\ At(c, "rename")
  /\ IF tmp[l] # None
     THEN /\ link' = [link EXCEPT ![l] = tmp[l]]
          /\ tmp' = [tmp EXCEPT ![l] = None]
          /\ Goes(c, "next")
     ELSE Goes(c, "cleanup") /\ UNCHANGED linkVars
  /\ UNCHANGED <<app, starts, packageVars, boot>>

Cleanup(c) ==
  /\ At(c, "cleanup")
  /\ tmp' = [tmp EXCEPT ![cmd[c].name] = None]
  /\ Goes(c, "next")
  /\ UNCHANGED <<app, starts, link, packageVars, boot>>

-----------------------------------------------------------------------------
(***************************************************************************)
(* The commands.                                                           *)
(***************************************************************************)

\* A command of a caller may remove packages.
CallerEnds(c) ==
  /\ c \in Callers /\ At(c, "run")
  /\ cmd' = [cmd EXCEPT ![c] = Idle]
  /\ \E gone \in SUBSET disk : disk' = disk \ gone /\ removed' = removed \cup gone
  /\ UNCHANGED <<app, starts, linkVars, installed, indexed, boot>>

\* A command that was killed is waited for while a process it began holds its
\* output.
Hangs(c) ==
  /\ At(c, "run") /\ Goes(c, "held")
  /\ UNCHANGED <<app, starts, linkVars, packageVars, boot>>

\* How the bootstrap goes on when a command of its own returns.
BootGoes(step) == boot' = [boot EXCEPT !.at = step]
BootReturns(step) ==
  /\ boot.at = step /\ At(Bootstrap, "run")
  /\ cmd' = [cmd EXCEPT ![Bootstrap] = Idle]
  /\ UNCHANGED <<app, starts, linkVars>>

\* Diagnose: a runtime that is broken gets no packages.
Diagnosed ==
  /\ BootReturns("diagnose")
  /\ BootGoes("decide") \/ BootGoes("broken")
  /\ UNCHANGED packageVars

\* The proot binary or the rootfs is gone: nothing is run to find out.
Missing ==
  /\ boot.at = "diagnose" /\ At(Bootstrap, "idle")
  /\ BootGoes("broken")
  /\ UNCHANGED <<app, starts, linkVars, cmd, packageVars>>

\* InstallPackages, up to its first command.
Decide ==
  /\ boot.at = "decide"
  /\ LET missing == {p \in Essentials : p \notin installed /\ p \notin disk}
     IN boot' = [boot EXCEPT !.missing = missing,
                   !.at = IF missing = {} THEN "ready" ELSE IF indexed THEN "add" ELSE "update"]
  /\ UNCHANGED <<app, starts, linkVars, cmd, packageVars>>

\* Fault: attempts are not counted.
AttemptFailsUncounted == boot' = [boot EXCEPT !.at = "sleep"]

AttemptFails ==
  boot' = IF boot.attempt < MaxAttempts
          THEN [boot EXCEPT !.at = "sleep", !.attempt = @ + 1]
          ELSE [boot EXCEPT !.at = "failed"]

Updated ==
  /\ BootReturns("update")
  /\ \/ indexed' = TRUE /\ BootGoes("add")
     \/ indexed' = indexed /\ AttemptFails
  /\ UNCHANGED <<disk, removed, installed>>

Added ==
  /\ BootReturns("add")
  /\ disk' = disk \cup boot.missing /\ removed' = removed \ boot.missing
  /\ installed' = installed \cup boot.missing
  /\ BootGoes("ready")
  /\ UNCHANGED indexed

\* Fault: the map is told before apk has ended.
AddFailsMarked ==
  /\ BootReturns("add")
  /\ \E some \in SUBSET boot.missing : disk' = disk \cup some /\ removed' = removed \ some
  /\ installed' = installed \cup boot.missing
  /\ AttemptFails
  /\ UNCHANGED indexed

\* apk fails, in time or not, with some of the packages in place.
AddFails ==
  /\ BootReturns("add")
  /\ \E some \in SUBSET boot.missing : disk' = disk \cup some /\ removed' = removed \ some
  /\ AttemptFails
  /\ UNCHANGED <<installed, indexed>>

Wakes ==
  /\ boot.at = "sleep" /\ BootGoes("decide")
  /\ UNCHANGED <<app, starts, linkVars, cmd, packageVars>>

\* The daemon is killed and started again, perhaps after an update of the app.
\* NewProotRuntime fills the map from the disk.
Restart ==
  /\ starts < MaxStarts /\ starts' = starts + 1
  /\ app' \in {app, app + 1}
  /\ cmd' = [c \in Commands |-> Idle]
  /\ installed' = disk /\ removed' = {} /\ indexed' = FALSE
  /\ boot' = FirstBoot
  /\ UNCHANGED <<linkVars, disk>>

CommandStep(c) ==
  \/ \E l \in Links : NextLink(c, l)
  \/ LinksDone(c) \/ RemoveTmp(c) \/ Symlink(c) \/ Rename(c) \/ Cleanup(c)

BootStep ==
  \/ Exec(Bootstrap) \/ CommandStep(Bootstrap)
  \/ Diagnosed \/ Missing \/ Decide \/ Updated \/ Added \/ AddFails \/ Wakes

Next ==
  \/ BootStep
  \/ \E c \in Callers : Exec(c) \/ CommandStep(c) \/ CallerEnds(c)
  \/ \E c \in Commands : Hangs(c)
  \/ Restart

Spec == Init /\ [][Next]_vars

\* The bootstrap goroutine goes on, and the time limits of its commands pass.
FairSpec == Spec /\ WF_vars(BootStep)

-----------------------------------------------------------------------------
(***************************************************************************)
(* Properties.                                                             *)
(***************************************************************************)

\* A link that is there never goes, whoever renews it and whenever the daemon
\* dies: a program that runs in proot finds its libraries throughout.
LinkNeverVanishes ==
  [][\A l \in Links : link[l] # None => link'[l] # None]_vars

\* A command that renewed the links while no other did runs with all of them
\* in place and at this installation, whatever a killed daemon left behind.
\* (Of two that renew them at once, each may undo the other's temporary name,
\* and neither link may come to be.)
LoneSetupLinks ==
  \A c \in Commands : At(c, "run") /\ cmd[c].alone =>
    \A l \in Links : link[l] = app

\* When the bootstrap is through, the essentials are on the disk, except for
\* what a command has removed.
ReadyMeansInstalled ==
  boot.at = "ready" => Essentials \subseteq disk \cup removed

\* The bootstrap comes to an end, after three attempts at the latest, unless a
\* command of it is held.
BootstrapEnds ==
  boot.at \notin {"ready", "failed", "broken"} ~>
    boot.at \in {"ready", "failed", "broken"} \/ At(Bootstrap, "held")
=============================================================================
