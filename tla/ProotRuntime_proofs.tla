------------------------ MODULE ProotRuntime_proofs ------------------------
(***************************************************************************)
(* Proofs about the proot runtime, for any sets of links, packages and     *)
(* callers and any number of starts.                                       *)
(***************************************************************************)
EXTENDS ProotRuntime, TLAPS

(***************************************************************************)
(* Type correctness.                                                       *)
(***************************************************************************)
Steps == {"idle", "next", "remove", "symlink", "rename", "cleanup", "run", "held"}
OnLink == {"remove", "symlink", "rename", "cleanup"}
BootSteps == {"diagnose", "decide", "update", "add", "sleep", "ready", "failed", "broken"}

Command == [at : Steps, todo : SUBSET Links, name : Links \cup {None}, alone : BOOLEAN]

TypeInv ==
  /\ app \in Nat /\ starts \in Nat
  /\ link \in [Links -> Nat \cup {None}]
  /\ tmp \in [Links -> Nat \cup {None}]
  /\ cmd \in [Commands -> Command]
  /\ \A c \in Commands : cmd[c].at \in OnLink => cmd[c].name \in Links
  /\ disk \subseteq Essentials /\ removed \subseteq Essentials /\ installed \subseteq Essentials
  /\ indexed \in BOOLEAN
  /\ boot \in [at : BootSteps, attempt : Nat, missing : SUBSET Essentials]

LEMMA IdleType == Idle \in Command
  BY DEF Idle, Command, Steps

LEMMA InitType == Init => TypeInv
<1>1. ASSUME Init PROVE TypeInv
  <2>1. link \in [Links -> Nat \cup {None}] /\ tmp \in [Links -> Nat \cup {None}]
    BY <1>1 DEF Init
  <2>2. /\ cmd \in [Commands -> Command]
        /\ \A c \in Commands : cmd[c].at \notin OnLink
    BY <1>1, IdleType DEF Init, Idle, OnLink
  <2>3. boot \in [at : BootSteps, attempt : Nat, missing : SUBSET Essentials]
    BY <1>1 DEF Init, FirstBoot, BootSteps
  <2>4. QED
    BY <1>1, <2>1, <2>2, <2>3 DEF Init, TypeInv
<1>2. QED BY <1>1

\* The steps of a command's renewal.
LEMMA RenewalType ==
  ASSUME TypeInv, NEW c \in Commands, Exec(c) \/ CommandStep(c) \/ Hangs(c)
  PROVE  TypeInv'
<1>1. CASE Exec(c)
  <2> DEFINE news == \A e \in Commands \ {c} : ~Renews(e)
             still(d) == cmd[d].alone /\ ~Renews(d)
  <2>0. news \in BOOLEAN /\ \A d \in Commands : still(d) \in BOOLEAN
    OBVIOUS
  <2>1. cmd' \in [Commands -> Command]
    <3>1. cmd' = [d \in Commands |->
                   IF d = c THEN [at |-> "next", todo |-> Links, name |-> None, alone |-> news]
                   ELSE [cmd[d] EXCEPT !.alone = still(d)]]
      BY <1>1 DEF Exec
    <3> HIDE DEF news, still
    <3>2. ASSUME NEW d \in Commands PROVE [cmd[d] EXCEPT !.alone = still(d)] \in Command
      BY <2>0 DEF TypeInv, Command
    <3>3. [at |-> "next", todo |-> Links, name |-> None, alone |-> news] \in Command
      BY <2>0 DEF Command, Steps
    <3>4. QED BY <3>1, <3>2, <3>3
  <2>2. \A d \in Commands : cmd'[d].at \in OnLink => cmd'[d].name \in Links
    BY <1>1 DEF Exec, TypeInv, Command, OnLink
  <2>3. QED
    BY <1>1, <2>1, <2>2 DEF Exec, TypeInv, linkVars, packageVars
<1>2. ASSUME NEW l \in Links, NextLink(c, l) PROVE TypeInv'
  <2>1. cmd' \in [Commands -> Command]
    BY <1>2 DEF NextLink, TypeInv, Command, Steps
  <2>2. \A d \in Commands : cmd'[d].at \in OnLink => cmd'[d].name \in Links
    BY <1>2 DEF NextLink, TypeInv, Command, OnLink
  <2>3. QED
    BY <1>2, <2>1, <2>2 DEF NextLink, TypeInv, linkVars, packageVars
<1>3. ASSUME NEW step \in Steps, Goes(c, step), step \in OnLink => At(c, step) \/ cmd[c].at \in OnLink
      PROVE  /\ cmd' \in [Commands -> Command]
             /\ \A d \in Commands : cmd'[d].at \in OnLink => cmd'[d].name \in Links
  BY <1>3 DEF Goes, At, TypeInv, Command, OnLink
<1>4. CASE LinksDone(c) \/ Hangs(c)
  BY <1>4, <1>3 DEF LinksDone, Hangs, TypeInv, linkVars, packageVars, Steps, OnLink
<1>5. CASE RemoveTmp(c)
  BY <1>5, <1>3 DEF RemoveTmp, At, TypeInv, packageVars, Steps, OnLink
<1>6. CASE Symlink(c)
  BY <1>6, <1>3 DEF Symlink, At, TypeInv, packageVars, Steps, OnLink
<1>7. CASE Rename(c)
  BY <1>7, <1>3 DEF Rename, At, TypeInv, linkVars, packageVars, Steps, OnLink
<1>8. CASE Cleanup(c)
  BY <1>8, <1>3 DEF Cleanup, At, TypeInv, packageVars, Steps, OnLink
<1>9. QED
  BY <1>1, <1>2, <1>4, <1>5, <1>6, <1>7, <1>8 DEF CommandStep

\* A command that returns is idle.
LEMMA ReturnType ==
  ASSUME TypeInv, NEW c \in Commands, cmd' = [cmd EXCEPT ![c] = Idle]
  PROVE  /\ cmd' \in [Commands -> Command]
         /\ \A d \in Commands : cmd'[d].at \in OnLink => cmd'[d].name \in Links
  BY IdleType DEF TypeInv, Idle, OnLink

LEMMA BootType ==
  ASSUME TypeInv, NEW step \in BootSteps, BootGoes(step) \/ AttemptFails
  PROVE  /\ boot' \in [at : BootSteps, attempt : Nat, missing : SUBSET Essentials]
         /\ boot'.missing = boot.missing
         /\ boot'.at = step \/ boot'.at \in {"sleep", "failed"}
<1>1. boot \in [at : BootSteps, attempt : Nat, missing : SUBSET Essentials]
  BY DEF TypeInv
<1>2. CASE BootGoes(step)
  BY <1>1, <1>2 DEF BootGoes
<1>3. CASE AttemptFails /\ boot.attempt < MaxAttempts
  <2>1. boot' = [boot EXCEPT !.at = "sleep", !.attempt = @ + 1]
    BY <1>3 DEF AttemptFails
  <2>2. boot' = [at |-> "sleep", attempt |-> boot.attempt + 1, missing |-> boot.missing]
    BY <1>1, <2>1
  <2>3. QED BY <1>1, <2>2 DEF BootSteps
<1>4. CASE AttemptFails /\ ~(boot.attempt < MaxAttempts)
  BY <1>1, <1>4 DEF AttemptFails, BootSteps
<1>5. CASE BootGoes(step) \/ AttemptFails
  <2>1. boot.attempt < MaxAttempts \/ ~(boot.attempt < MaxAttempts)
    OBVIOUS
  <2>2. QED BY <1>5, <1>2, <1>3, <1>4, <2>1
<1>6. QED
  BY <1>5

LEMMA NextType == TypeInv /\ [Next]_vars => TypeInv'
<1> SUFFICES ASSUME TypeInv, [Next]_vars PROVE TypeInv'
  OBVIOUS
<1> USE DEF linkVars, packageVars
<1>b. Bootstrap \in Commands BY DEF Commands
<1>1. CASE \E c \in Commands : Exec(c) \/ CommandStep(c) \/ Hangs(c)
  BY <1>1, RenewalType
<1>2. ASSUME NEW c \in Callers, CallerEnds(c) PROVE TypeInv'
  <2>1. c \in Commands BY DEF Commands
  <2>2. QED BY <1>2, <2>1, ReturnType DEF CallerEnds, TypeInv
<1>3. CASE Diagnosed
  BY <1>3, <1>b, ReturnType, BootType DEF Diagnosed, BootReturns, TypeInv, BootSteps
<1>4. CASE Missing
  BY <1>4, BootType DEF Missing, TypeInv, BootSteps
<1>5. CASE Decide
  BY <1>5 DEF Decide, TypeInv, BootSteps
<1>6. CASE Updated
  BY <1>6, <1>b, ReturnType, BootType DEF Updated, BootReturns, TypeInv, BootSteps
<1>7. CASE Added
  <2>1. boot.missing \subseteq Essentials BY DEF TypeInv
  <2>2. QED BY <1>7, <2>1, <1>b, ReturnType, BootType DEF Added, BootReturns, TypeInv, BootSteps
<1>8. CASE AddFails
  <2>1. boot.missing \subseteq Essentials BY DEF TypeInv
  <2>2. QED BY <1>8, <2>1, <1>b, ReturnType, BootType DEF AddFails, BootReturns, TypeInv, BootSteps
<1>9. CASE Wakes
  BY <1>9, BootType DEF Wakes, TypeInv, BootSteps
<1>10. CASE Restart
  <2>1. /\ cmd' \in [Commands -> Command]
        /\ \A c \in Commands : cmd'[c].at \notin OnLink
    BY <1>10, IdleType DEF Restart, Idle, OnLink
  <2>2. boot' \in [at : BootSteps, attempt : Nat, missing : SUBSET Essentials]
    BY <1>10 DEF Restart, FirstBoot, BootSteps
  <2>3. app' \in Nat /\ starts' \in Nat
    BY <1>10 DEF Restart, TypeInv
  <2>4. /\ link' \in [Links -> Nat \cup {None}] /\ tmp' \in [Links -> Nat \cup {None}]
        /\ disk' \subseteq Essentials /\ removed' \subseteq Essentials
        /\ installed' \subseteq Essentials /\ indexed' \in BOOLEAN
    BY <1>10 DEF Restart, TypeInv
  <2>5. QED BY <2>1, <2>2, <2>3, <2>4 DEF TypeInv
<1>11. CASE UNCHANGED vars
  BY <1>11 DEF vars, TypeInv
<1>12. QED
  BY <1>1, <1>2, <1>3, <1>4, <1>5, <1>6, <1>7, <1>8, <1>9, <1>10, <1>11, <1>b
  DEF Next, BootStep, Commands

\* Every variable keeps its type.
THEOREM TypeCorrect == Spec => []TypeInv
  BY InitType, NextType, PTL DEF Spec

(***************************************************************************)
(* The links.  Only a rename changes one, and a rename needs what it puts  *)
(* in its place.                                                           *)
(***************************************************************************)
LEMMA LinkKept ==
  ASSUME TypeInv, [Next]_vars, NEW l \in Links, link[l] # None
  PROVE  link'[l] # None
<1> USE DEF linkVars, packageVars
<1>1. ASSUME NEW c \in Commands, Rename(c) PROVE link'[l] # None
  <2>1. CASE tmp[cmd[c].name] # None
    <3>1. link' = [link EXCEPT ![cmd[c].name] = tmp[cmd[c].name]]
      BY <1>1, <2>1 DEF Rename
    <3>2. QED BY <2>1, <3>1 DEF TypeInv
  <2>2. CASE tmp[cmd[c].name] = None
    BY <1>1, <2>2 DEF Rename
  <2>3. QED BY <2>1, <2>2
<1>2. ASSUME NEW c \in Commands, CommandStep(c), ~Rename(c) PROVE link' = link
  BY <1>2 DEF CommandStep, NextLink, LinksDone, RemoveTmp, Symlink, Cleanup
<1>3. CASE \E c \in Commands : Exec(c) \/ Hangs(c)
  BY <1>3 DEF Exec, Hangs
<1>4. CASE \E c \in Callers : CallerEnds(c)
  BY <1>4 DEF CallerEnds
<1>5. CASE Diagnosed \/ Missing \/ Decide \/ Updated \/ Added \/ AddFails \/ Wakes
  BY <1>5 DEF Diagnosed, Missing, Decide, Updated, Added, AddFails, Wakes, BootReturns
<1>6. CASE Restart
  BY <1>6 DEF Restart
<1>7. CASE UNCHANGED vars
  BY <1>7 DEF vars
<1>8. CASE \E c \in Commands : CommandStep(c)
  BY <1>8, <1>1, <1>2
<1>9. QED
  BY <1>3, <1>4, <1>5, <1>6, <1>7, <1>8 DEF Next, BootStep, Commands

\* No link that is there ever goes.
THEOREM LinksStay == Spec => LinkNeverVanishes
<1>1. TypeInv /\ [Next]_vars => [\A l \in Links : link[l] # None => link'[l] # None]_vars
  BY LinkKept
<1>2. QED
  BY <1>1, TypeCorrect, PTL DEF Spec, LinkNeverVanishes

(***************************************************************************)
(* A command that renews them alone.  A temporary name that a command is   *)
(* about to rename points at this installation or has been taken away by   *)
(* another; nobody takes that of a command that is alone.                  *)
(***************************************************************************)
Made(c) ==
  IF cmd[c].at \in {"remove", "symlink", "rename"}
  THEN Links \ (cmd[c].todo \cup {cmd[c].name})
  ELSE Links \ cmd[c].todo

LinksInv ==
  \A c \in Commands :
    /\ At(c, "rename") => tmp[cmd[c].name] \in {None, app}
    /\ cmd[c].alone /\ Renews(c) =>
         /\ \A d \in Commands \ {c} : ~Renews(d)
         /\ ~At(c, "cleanup")
         /\ At(c, "symlink") => tmp[cmd[c].name] = None
         /\ At(c, "rename") => tmp[cmd[c].name] = app
         /\ \A l \in Made(c) : link[l] = app
    /\ cmd[c].alone /\ At(c, "run") => \A l \in Links : link[l] = app

LEMMA LinksInit == Init => LinksInv
  BY DEF Init, LinksInv, Idle, At, Renews

\* A step that changes nothing of a renewal but the end of commands.
LEMMA LinksEnd ==
  ASSUME TypeInv, LinksInv, UNCHANGED <<app, linkVars>>,
         NEW c \in Commands,
         \/ UNCHANGED cmd
         \/ cmd' = [cmd EXCEPT ![c] = Idle]
         \/ At(c, "run") /\ Goes(c, "held")
  PROVE  LinksInv'
<1>1. ASSUME NEW d \in Commands
      PROVE  \/ cmd'[d] = cmd[d]
             \/ cmd'[d].at \in {"idle", "held"}
  BY DEF TypeInv, Command, Idle, Goes, At
<1>2. ASSUME NEW d \in Commands
      PROVE  Renews(d)' => Renews(d)
  BY <1>1 DEF Renews
<1>3. ASSUME NEW d \in Commands, cmd'[d] = cmd[d]
      PROVE  Made(d)' = Made(d)
  BY <1>3 DEF Made
<1>4. QED
  BY <1>1, <1>2, <1>3 DEF LinksInv, linkVars, At, Renews

\* A command begins to renew: those that do so already are not alone, nor is it.
LEMMA LinksExec ==
  ASSUME TypeInv, LinksInv, NEW c \in Commands, Exec(c)
  PROVE  LinksInv'
<1>1. /\ cmd'[c].at = "next" /\ cmd'[c].todo = Links
      /\ cmd'[c].alone => \A e \in Commands \ {c} : ~Renews(e)
  BY DEF Exec
<1>2. ASSUME NEW d \in Commands, d # c
      PROVE  /\ cmd'[d].at = cmd[d].at /\ cmd'[d].todo = cmd[d].todo
             /\ cmd'[d].name = cmd[d].name
             /\ cmd'[d].alone => cmd[d].alone /\ ~Renews(d)
  <2> DEFINE still == cmd[d].alone /\ ~Renews(d)
  <2>1. cmd'[d] = [cmd[d] EXCEPT !.alone = still]
    BY <1>2 DEF Exec
  <2> HIDE DEF still
  <2>2. cmd'[d].at = cmd[d].at /\ cmd'[d].todo = cmd[d].todo
        /\ cmd'[d].name = cmd[d].name /\ cmd'[d].alone = still
    BY <2>1 DEF TypeInv, Command
  <2>3. QED BY <2>2 DEF still
<1>3. UNCHANGED <<app, link, tmp>>
  BY DEF Exec, linkVars
<1>4. Made(c)' = {}
  BY <1>1 DEF Made
<1>5. ASSUME NEW d \in Commands, d # c
      PROVE  /\ At(d, "rename")' => tmp'[cmd'[d].name] \in {None, app'}
             /\ ~(cmd'[d].alone /\ Renews(d)')
             /\ cmd'[d].alone /\ At(d, "run")' => \A l \in Links : link'[l] = app'
  BY <1>2, <1>3, <1>5 DEF LinksInv, At, Renews
<1>6. \A d \in Commands \ {c} : Renews(d)' <=> Renews(d)
  BY <1>2 DEF Renews
<1>7. QED
  BY <1>1, <1>3, <1>4, <1>5, <1>6 DEF LinksInv, At, Renews

\* A renewal's step leaves the other commands as they are.
LEMMA OthersStay ==
  ASSUME TypeInv, NEW c \in Commands, CommandStep(c)
  PROVE  /\ Renews(c)
         /\ app' = app
         /\ \A d \in Commands \ {c} : cmd'[d] = cmd[d]
         /\ cmd'[c].alone = cmd[c].alone
         /\ At(c, "next") \/ (cmd'[c].todo = cmd[c].todo /\ cmd'[c].name = cmd[c].name)
         /\ Renews(c)' \/ At(c, "run")'
<1> USE DEF At, Renews, TypeInv, Command
<1>1. CASE \E l \in Links : NextLink(c, l)
  BY <1>1 DEF NextLink
<1>2. CASE LinksDone(c)
  BY <1>2 DEF LinksDone, Goes
<1>3. CASE RemoveTmp(c)
  BY <1>3 DEF RemoveTmp, Goes
<1>4. CASE Symlink(c)
  BY <1>4 DEF Symlink, Goes
<1>5. CASE Rename(c)
  BY <1>5 DEF Rename, Goes
<1>6. CASE Cleanup(c)
  BY <1>6 DEF Cleanup, Goes
<1>7. QED
  BY <1>1, <1>2, <1>3, <1>4, <1>5, <1>6 DEF CommandStep

\* What the renewal does for the command itself.
LEMMA LinksOwn ==
  ASSUME TypeInv, LinksInv, NEW c \in Commands, CommandStep(c)
  PROVE  /\ At(c, "rename")' => tmp'[cmd'[c].name] = app'
         /\ cmd[c].alone /\ Renews(c)' =>
              /\ ~At(c, "cleanup")'
              /\ At(c, "symlink")' => tmp'[cmd'[c].name] = None
              /\ \A l \in Made(c)' : link'[l] = app'
         /\ cmd[c].alone /\ At(c, "run")' => \A l \in Links : link'[l] = app'
<1>a. cmd[c].alone =>
        /\ ~At(c, "cleanup")
        /\ At(c, "symlink") => tmp[cmd[c].name] = None
        /\ At(c, "rename") => tmp[cmd[c].name] = app
        /\ \A l \in Made(c) : link[l] = app
  BY OthersStay DEF LinksInv
<1>b. cmd[c] \in Command /\ None \notin Nat /\ app \in Nat
  BY ProotAssumption DEF TypeInv, ProotAssumption
<1>1. ASSUME NEW l \in Links, NextLink(c, l)
      PROVE  cmd'[c].at = "remove" /\ Made(c)' = Made(c) /\ UNCHANGED <<app, link>>
  <2>1. cmd'[c].at = "remove" /\ cmd'[c].todo = cmd[c].todo \ {l} /\ cmd'[c].name = l
    BY <1>1 DEF NextLink, TypeInv, Command
  <2>2. cmd[c].at = "next" /\ l \in cmd[c].todo /\ UNCHANGED <<app, link>>
    BY <1>1 DEF NextLink, At, linkVars
  <2>3. Made(c) = Links \ cmd[c].todo
    BY <2>2 DEF Made
  <2>4. Made(c)' = Links \ ((cmd[c].todo \ {l}) \cup {l})
    BY <2>1 DEF Made
  <2>5. QED BY <2>1, <2>2, <2>3, <2>4
<1>2. CASE LinksDone(c)
  <2>1. cmd'[c].at = "run" /\ cmd[c].at = "next" /\ cmd[c].todo = {} /\ UNCHANGED <<app, link>>
    BY <1>2 DEF LinksDone, At, Goes, linkVars, TypeInv, Command
  <2>2. Made(c) = Links
    BY <2>1 DEF Made
  <2>3. QED BY <1>a, <2>1, <2>2 DEF At, Renews
<1>3. CASE RemoveTmp(c)
  <2>1. /\ cmd'[c] = [cmd[c] EXCEPT !.at = "symlink"] /\ cmd[c].at = "remove"
        /\ UNCHANGED <<app, link>> /\ tmp' = [tmp EXCEPT ![cmd[c].name] = None]
    BY <1>3 DEF RemoveTmp, At, Goes, TypeInv
  <2>2. tmp'[cmd'[c].name] = None
    BY <1>b, <2>1 DEF TypeInv, OnLink, Command
  <2>3. Made(c)' = Made(c)
    BY <1>b, <2>1 DEF Made, Command
  <2>4. QED BY <1>a, <1>b, <2>1, <2>2, <2>3 DEF At, Renews, Command
<1>4. CASE Symlink(c) /\ tmp[cmd[c].name] = None
  <2>1. /\ cmd'[c] = [cmd[c] EXCEPT !.at = "rename"] /\ cmd[c].at = "symlink"
        /\ UNCHANGED <<app, link>> /\ tmp' = [tmp EXCEPT ![cmd[c].name] = app]
    BY <1>4 DEF Symlink, At, Goes, TypeInv
  <2>2. tmp'[cmd'[c].name] = app
    BY <1>b, <2>1 DEF TypeInv, OnLink, Command
  <2>3. Made(c)' = Made(c)
    BY <1>b, <2>1 DEF Made, Command
  <2>4. QED BY <1>a, <1>b, <2>1, <2>2, <2>3 DEF At, Renews, Command
<1>5. CASE Symlink(c) /\ tmp[cmd[c].name] # None
  <2>1. cmd'[c] = [cmd[c] EXCEPT !.at = "next"] /\ cmd[c].at = "symlink"
    BY <1>5 DEF Symlink, At, Goes, TypeInv
  <2>2. ~cmd[c].alone
    BY <1>5, <1>a, <2>1 DEF At
  <2>3. QED BY <1>b, <2>1, <2>2 DEF At, Command
<1>6. CASE Rename(c) /\ tmp[cmd[c].name] # None
  <2>1. /\ cmd'[c] = [cmd[c] EXCEPT !.at = "next"] /\ cmd[c].at = "rename"
        /\ app' = app /\ link' = [link EXCEPT ![cmd[c].name] = tmp[cmd[c].name]]
    BY <1>6 DEF Rename, At, Goes, TypeInv
  <2>2. Made(c)' = Links \ cmd[c].todo /\ Made(c) = Links \ (cmd[c].todo \cup {cmd[c].name})
    BY <1>b, <2>1 DEF Made, Command
  <2>3. cmd[c].alone => \A l \in Made(c)' : link'[l] = app'
    BY <1>a, <2>1, <2>2 DEF At, TypeInv
  <2>4. QED BY <1>b, <2>1, <2>3 DEF At, Command
<1>7. CASE Rename(c) /\ tmp[cmd[c].name] = None
  <2>1. cmd'[c] = [cmd[c] EXCEPT !.at = "cleanup"] /\ cmd[c].at = "rename"
    BY <1>7 DEF Rename, At, Goes, TypeInv
  <2>2. ~cmd[c].alone
    BY <1>7, <1>a, <1>b, <2>1 DEF At
  <2>3. QED BY <1>b, <2>1, <2>2 DEF At, Command
<1>8. CASE Cleanup(c)
  <2>1. cmd'[c] = [cmd[c] EXCEPT !.at = "next"] /\ cmd[c].at = "cleanup"
    BY <1>8 DEF Cleanup, At, Goes, TypeInv
  <2>2. ~cmd[c].alone
    BY <1>a, <2>1 DEF At
  <2>3. QED BY <1>b, <2>1, <2>2 DEF At, Command
<1>9. CASE \E l \in Links : NextLink(c, l)
  BY <1>1, <1>9, <1>a DEF At
<1>10. QED
  BY <1>2, <1>3, <1>4, <1>5, <1>6, <1>7, <1>8, <1>9 DEF CommandStep

\* What it does for the others: a link, once at this installation, stays so,
\* and so does a temporary name, until it is taken away.
LEMMA LinksOther ==
  ASSUME TypeInv, LinksInv, NEW c \in Commands, CommandStep(c), NEW l \in Links
  PROVE  /\ link[l] = app => link'[l] = app'
         /\ tmp[l] \in {None, app} => tmp'[l] \in {None, app'}
<1>1. CASE Rename(c)
  <2>1. cmd[c].name \in Links /\ tmp[cmd[c].name] \in {None, app}
    BY <1>1 DEF Rename, LinksInv, TypeInv, At, OnLink
  <2>2. QED BY <1>1, <2>1 DEF Rename, TypeInv, linkVars
<1>2. CASE Symlink(c)
  BY <1>2 DEF Symlink, TypeInv
<1>3. CASE RemoveTmp(c) \/ Cleanup(c)
  BY <1>3 DEF RemoveTmp, Cleanup, TypeInv
<1>4. CASE LinksDone(c) \/ \E k \in Links : NextLink(c, k)
  BY <1>4 DEF LinksDone, NextLink, linkVars
<1>5. QED BY <1>1, <1>2, <1>3, <1>4 DEF CommandStep

LEMMA LinksCommand ==
  ASSUME TypeInv, LinksInv, NEW c \in Commands, CommandStep(c)
  PROVE  LinksInv'
<1>1. ASSUME NEW d \in Commands, d # c
      PROVE  /\ At(d, "rename")' => tmp'[cmd'[d].name] \in {None, app'}
             /\ ~(cmd'[d].alone /\ Renews(d)')
             /\ cmd'[d].alone /\ At(d, "run")' => \A l \in Links : link'[l] = app'
  <2>1. cmd'[d] = cmd[d] /\ Renews(c)
    BY <1>1, OthersStay
  <2>2. At(d, "rename") => cmd[d].name \in Links
    BY DEF TypeInv, At, OnLink
  <2>3. ~(cmd[d].alone /\ Renews(d))
    BY <1>1, <2>1 DEF LinksInv
  <2>4. QED BY <2>1, <2>2, <2>3, LinksOther DEF LinksInv, At, Renews
<1>2. /\ At(c, "rename")' => tmp'[cmd'[c].name] = app'
      /\ cmd'[c].alone /\ Renews(c)' =>
           /\ \A d \in Commands \ {c} : ~Renews(d)'
           /\ ~At(c, "cleanup")'
           /\ At(c, "symlink")' => tmp'[cmd'[c].name] = None
           /\ \A l \in Made(c)' : link'[l] = app'
      /\ cmd'[c].alone /\ At(c, "run")' => \A l \in Links : link'[l] = app'
  <2>1. cmd'[c].alone = cmd[c].alone /\ Renews(c)
        /\ \A d \in Commands \ {c} : cmd'[d] = cmd[d]
    BY OthersStay
  <2>2. cmd[c].alone => \A d \in Commands \ {c} : ~Renews(d)
    BY <2>1 DEF LinksInv
  <2>3. QED BY <2>1, <2>2, LinksOwn DEF Renews
<1>3. QED
  BY <1>1, <1>2 DEF LinksInv

LEMMA LinksNext == TypeInv /\ LinksInv /\ [Next]_vars => LinksInv'
<1> SUFFICES ASSUME TypeInv, LinksInv, [Next]_vars PROVE LinksInv'
  OBVIOUS
<1>b. Bootstrap \in Commands BY DEF Commands
<1>1. CASE \E c \in Commands : Exec(c) \/ CommandStep(c)
  BY <1>1, LinksExec, LinksCommand
<1>2. ASSUME NEW c \in Commands, Hangs(c) PROVE LinksInv'
  BY <1>2, LinksEnd DEF Hangs
<1>3. ASSUME NEW c \in Callers, CallerEnds(c) PROVE LinksInv'
  <2>1. c \in Commands BY DEF Commands
  <2>2. QED BY <1>3, <2>1, LinksEnd DEF CallerEnds
<1>4. CASE Diagnosed \/ Updated \/ Added \/ AddFails
  <2>1. UNCHANGED <<app, linkVars>> /\ cmd' = [cmd EXCEPT ![Bootstrap] = Idle]
    BY <1>4 DEF Diagnosed, Updated, Added, AddFails, BootReturns
  <2>2. QED BY <2>1, <1>b, LinksEnd
<1>5. CASE Missing \/ Decide \/ Wakes
  BY <1>5, <1>b, LinksEnd DEF Missing, Decide, Wakes
<1>6. CASE Restart
  BY <1>6 DEF Restart, LinksInv, Idle, At, Renews
<1>7. CASE UNCHANGED vars
  BY <1>7, <1>b, LinksEnd DEF vars
<1>8. QED
  BY <1>1, <1>2, <1>3, <1>4, <1>5, <1>6, <1>7, <1>b DEF Next, BootStep, Commands

\* A command that renewed the links alone runs with all of them in place.
THEOREM LoneSetup == Spec => []LoneSetupLinks
<1>1. LinksInv => LoneSetupLinks
  BY DEF LinksInv, LoneSetupLinks
<1>2. QED
  BY <1>1, LinksInit, LinksNext, TypeCorrect, PTL DEF Spec

(***************************************************************************)
(* The packages.                                                           *)
(***************************************************************************)
PackagesInv ==
  /\ installed \subseteq disk \cup removed
  /\ boot.at \in {"update", "add"} => Essentials \subseteq disk \cup removed \cup boot.missing
  /\ ReadyMeansInstalled

LEMMA PackagesNext == TypeInv /\ PackagesInv /\ [Next]_vars => PackagesInv'
<1> SUFFICES ASSUME TypeInv, PackagesInv, [Next]_vars PROVE PackagesInv'
  OBVIOUS
<1> USE DEF PackagesInv, ReadyMeansInstalled
<1>b. Bootstrap \in Commands BY DEF Commands
<1>r. /\ boot \in [at : BootSteps, attempt : Nat, missing : SUBSET Essentials]
      /\ disk \subseteq Essentials
  BY DEF TypeInv
<1>1. CASE \E c \in Commands : Exec(c) \/ CommandStep(c) \/ Hangs(c)
  <2>1. UNCHANGED <<disk, removed, installed, boot>>
    BY <1>1 DEF Exec, CommandStep, NextLink, LinksDone, RemoveTmp, Symlink, Rename, Cleanup,
                Hangs, packageVars
  <2>2. QED BY <2>1
<1>2. ASSUME NEW c \in Callers, CallerEnds(c) PROVE PackagesInv'
  BY <1>2 DEF CallerEnds
<1>3. CASE Diagnosed
  BY <1>3, <1>r DEF Diagnosed, packageVars, BootGoes
<1>4. CASE Missing
  BY <1>4, <1>r DEF Missing, packageVars, BootGoes
<1>5. CASE Decide
  BY <1>5, <1>r DEF Decide, packageVars
<1>6. CASE Wakes
  BY <1>6, <1>r DEF Wakes, packageVars, BootGoes
<1>7. CASE Updated /\ BootGoes("add")
  BY <1>7, <1>r DEF Updated, BootReturns, BootGoes
<1>f. ASSUME AttemptFails PROVE boot'.at \in {"sleep", "failed"}
  BY <1>f, <1>r DEF AttemptFails
<1>8. CASE Updated /\ AttemptFails
  BY <1>8, <1>f DEF Updated
<1>9. CASE Added
  BY <1>9, <1>r DEF Added, BootReturns, BootGoes
<1>10. CASE AddFails
  BY <1>10, <1>f DEF AddFails
<1>11. CASE Restart
  BY <1>11, <1>r DEF Restart, FirstBoot
<1>12. CASE UNCHANGED vars
  BY <1>12 DEF vars, packageVars
<1>13. QED
  BY <1>1, <1>2, <1>3, <1>4, <1>5, <1>6, <1>7, <1>8, <1>9, <1>10, <1>11, <1>12, <1>b
  DEF Next, BootStep, Commands, Updated

\* The bootstrap is through with the essentials on the disk.
THEOREM ReadyInstalled == Spec => []ReadyMeansInstalled
<1>1. Init => PackagesInv
  BY DEF Init, FirstBoot, PackagesInv, ReadyMeansInstalled
<1>2. PackagesInv => ReadyMeansInstalled
  BY DEF PackagesInv
<1>3. QED
  BY <1>1, <1>2, PackagesNext, TypeCorrect, PTL DEF Spec
=============================================================================
