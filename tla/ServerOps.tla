------------------------------- MODULE ServerOps -------------------------------
(***************************************************************************)
(* The operator's scripts: update-server.sh and set-password.sh on an      *)
(* installed server, install-from-source.sh and install.sh on any machine. *)
(* They share one lock.                                                    *)
(*                                                                         *)
(* The first and the two installers deploy a commit: they prepare it on    *)
(* the side, then change what is installed command by command, (re)start   *)
(* the service and ask it for its health.  Whenever one stops before that  *)
(* is done (a command or a check fails, INT or TERM arrives between two    *)
(* commands) its EXIT trap undoes what was done.  A second signal kills    *)
(* the rollback where it is.  A change of the password replaces the        *)
(* configuration, restarts the service and restores the old file if that   *)
(* fails.                                                                  *)
(*                                                                         *)
(* Each command that changes the disk or the service is a step.  systemctl *)
(* stop and the commands of the rollbacks themselves are taken to work.    *)
(* Directories are not modelled, nor what set-password.sh does on signals. *)
(***************************************************************************)
CONSTANTS
  Updates,         \* runs of update-server.sh
  Installs,        \* runs of install-from-source.sh
  Releases,        \* runs of install.sh, which has no source tree
  PasswordChanges, \* runs of set-password.sh
  Commits,         \* what may be installed
  Configs,         \* contents of config.toml
  Fresh,           \* the one an installer writes if there is none
  Sound,           \* the pairs of Commits \X Configs that start and are healthy
  None

Installers == Installs \cup Releases
Deploys == Updates \cup Installers
Ops == Deploys \cup PasswordChanges

ASSUME OpsAssumption ==
  /\ Updates \cap Installers = {} /\ Installs \cap Releases = {}
  /\ Deploys \cap PasswordChanges = {}
  /\ Fresh \in Configs
  /\ Sound \subseteq Commits \X Configs
  /\ None \notin Ops \cup Commits \cup Configs \cup (Commits \X Configs)

VARIABLES
  disk,    \* what is installed: see Bare
  serving, \* <<commit, config>> the running service was started with, or None
  lock,    \* who has /run/network-ultra-server-update/update.lock
  at,      \* [Ops -> the step each script is about to take, or "idle"]
  mem,     \* [Ops -> what each script remembers: see Blank]
  before,  \* history: disk and serving when the lock was last taken
  killed,  \* history: a rollback was killed and nothing was deployed since
  released \* history: what was deployed last is a release, without a source tree

vars == <<disk, serving, lock, at, mem, before, killed, released>>
history == <<before, killed, released>>

\* SRC_DIR, BIN_PATH, SVC_FILE (by the commit they belong to), CFG_FILE, whether
\* the unit is enabled, and whether SERVICE_USER exists.
Bare == [src |-> None, bin |-> None, unit |-> None, cfg |-> None, enabled |-> FALSE,
         user |-> FALSE]

\* The commit or config to install; WAS_ACTIVE, WAS_ENABLED, ORIGINAL_SRC_PRESENT,
\* CREATED_USER; the copies of binary, unit and configuration (None: there was
\* none, HAD_OLD_* is 0); OLD_SRC.
Blank == [goal |-> None, active |-> FALSE, enabled |-> FALSE, present |-> FALSE,
          created |-> FALSE, bin |-> None, unit |-> None, cfg |-> None, oldSrc |-> None]

Loaded == <<disk.bin, disk.cfg>>

Disk == [src : Commits \cup {None}, bin : Commits \cup {None}, unit : Commits \cup {None},
         cfg : Configs \cup {None}, enabled : BOOLEAN, user : BOOLEAN]
Running == ((Commits \cup {None}) \X (Configs \cup {None})) \cup {None}
Memory == [goal : Commits \cup Configs \cup {None}, active : BOOLEAN, enabled : BOOLEAN,
           present : BOOLEAN, created : BOOLEAN, bin : Commits \cup {None},
           unit : Commits \cup {None}, cfg : Configs \cup {None}, oldSrc : Commits \cup {None}]

\* Nothing, or an installation that works; the service runs or not, and the unit
\* may be gone.
Init ==
  /\ \/ disk = Bare
     \/ \E c \in Commits, f \in Configs, u \in Commits \cup {None}, e \in BOOLEAN :
          /\ u \in {c, None}
          /\ <<c, f>> \in Sound
          /\ e => u # None
          /\ disk = [src |-> c, bin |-> c, unit |-> u, cfg |-> f, enabled |-> e, user |-> TRUE]
  /\ serving \in {None, IF disk.unit = None THEN None ELSE Loaded}
  /\ lock = None
  /\ at = [o \in Ops |-> "idle"]
  /\ mem = [o \in Ops |-> Blank]
  /\ before = [disk |-> disk, serving |-> serving]
  /\ killed = FALSE /\ released = FALSE

-----------------------------------------------------------------------------
(* The order of the commands *)

\* The step after each of the deployment, and of its rollback.  An update leaves a
\* service alone that was not running.
UpdateOrder(started) ==
  [stage |-> "backup", backup |-> "stop", stop |-> "moveOld", moveOld |-> "moveNew",
   moveNew |-> "binary", binary |-> "unit", unit |-> "enable",
   enable |-> IF started THEN "start" ELSE "commit", start |-> "health",
   health |-> "commit", commit |-> "clean",
   undoStop |-> "undoBinary", undoBinary |-> "undoUnit", undoUnit |-> "undoSource",
   undoSource |-> "undoMove", undoMove |-> "undoEnable", undoEnable |-> "undoStart",
   undoStart |-> "undoClean"]
InstallOrder ==
  [stage |-> "backup", backup |-> "user", user |-> "mark", mark |-> "config",
   config |-> "stop", stop |-> "moveOld", moveOld |-> "moveNew", moveNew |-> "binary",
   binary |-> "unit", unit |-> "enable", enable |-> "start", start |-> "health",
   health |-> "commit", commit |-> "clean",
   undoStop |-> "undoBinary", undoBinary |-> "undoSource", undoSource |-> "undoMove",
   undoMove |-> "undoUnit", undoUnit |-> "undoRemove", undoRemove |-> "undoCopy",
   undoCopy |-> "undoEnable", undoEnable |-> "undoStart", undoStart |-> "undoUser",
   undoUser |-> "undoClean"]
ReleaseOrder ==
  [stage |-> "backup", backup |-> "user", user |-> "mark", mark |-> "config",
   config |-> "binary", binary |-> "unit", unit |-> "enable", enable |-> "start",
   start |-> "health", health |-> "commit", commit |-> "clean",
   undoStop |-> "undoBinary", undoBinary |-> "undoUnit", undoUnit |-> "undoRemove",
   undoRemove |-> "undoCopy", undoCopy |-> "undoEnable", undoEnable |-> "undoStart",
   undoStart |-> "undoUser", undoUser |-> "undoClean"]

Order(o) ==
  IF o \in Updates THEN UpdateOrder(mem[o].active)
  ELSE IF o \in Installs THEN InstallOrder
  ELSE ReleaseOrder

Swapping == {"user", "mark", "config", "stop", "moveOld", "moveNew", "binary", "unit",
             "enable", "start", "health", "commit"}
Undoing == {"undoStop", "undoBinary", "undoUnit", "undoSource", "undoMove", "undoRemove",
            "undoCopy", "undoEnable", "undoStart", "undoUser", "undoClean"}
Deploying == {"stage", "backup"} \cup Swapping \cup Undoing

InstallersOnly == {"user", "mark", "config", "undoRemove", "undoCopy", "undoUser"}
SourceOnly == {"stop", "moveOld", "moveNew", "undoSource", "undoMove"}
PasswordSteps == {"write", "replace", "restart", "check", "undoConfig", "undoRestart"}

\* Types; a script is at a step it has.
TypeOK ==
  /\ disk \in Disk
  /\ serving \in Running
  /\ lock \in Ops \cup {None}
  /\ at \in [Ops -> {"idle", "clean"} \cup Deploying \cup PasswordSteps]
  /\ \A o \in Deploys : at[o] \notin PasswordSteps
  /\ \A p \in PasswordChanges : at[p] \in {"idle"} \cup PasswordSteps
  /\ \A o \in Updates : at[o] \notin InstallersOnly
  /\ \A o \in Releases : at[o] \notin SourceOnly
  /\ mem \in [Ops -> Memory]
  /\ before \in [disk : Disk, serving : Running]
  /\ killed \in BOOLEAN
  /\ released \in BOOLEAN

Goto(o, from, to) == at[o] = from /\ at' = [at EXCEPT ![o] = to]
Pass(o, step) == Goto(o, step, Order(o)[step])
Keep(o, field, value) == mem' = [mem EXCEPT ![o][field] = value]
Install(field, value) == disk' = [disk EXCEPT ![field] = value]

\* flock -n
LockIsFree == lock = None

TakeLock(o) ==
  /\ LockIsFree
  /\ Goto(o, "idle", IF o \in Deploys THEN "stage" ELSE "write")
  /\ lock' = o
  /\ before' = [disk |-> disk, serving |-> serving]
  /\ UNCHANGED <<disk, serving, mem, killed, released>>

\* The process exits; its variables, its stage and its lock go with it.
Exit(o, from) ==
  /\ Goto(o, from, "idle")
  /\ mem' = [mem EXCEPT ![o] = Blank]
  /\ lock' = None
  /\ UNCHANGED <<disk, before, released>>

-----------------------------------------------------------------------------
(* update-server.sh, install-from-source.sh, install.sh *)

\* Read what is there; fetch, verify, test and build (or download) commit c, and
\* ask it for its health URL.  An update needs something to update.
Stage(o, c) ==
  /\ Pass(o, "stage")
  /\ o \in Updates => None \notin {disk.src, disk.bin, disk.cfg}
  /\ mem' = [mem EXCEPT ![o].goal = c, ![o].active = (serving # None),
                        ![o].enabled = disk.enabled, ![o].present = (disk.src # None)]
  /\ UNCHANGED <<disk, serving, lock, history>>

\* Copy what will be replaced; MUTATED=1.
Backup(o) ==
  /\ Pass(o, "backup")
  /\ mem' = [mem EXCEPT ![o].bin = disk.bin, ![o].unit = disk.unit,
                        ![o].cfg = IF o \in Installers THEN disk.cfg ELSE None]
  /\ UNCHANGED <<disk, serving, lock, history>>

\* useradd, and only then CREATED_USER=1.
User(o) ==
  /\ IF disk.user THEN Goto(o, "user", "config") ELSE Pass(o, "user")
  /\ Install("user", TRUE)
  /\ UNCHANGED <<serving, lock, mem, history>>

Mark(o) ==
  /\ Pass(o, "mark")
  /\ Keep(o, "created", TRUE)
  /\ UNCHANGED <<disk, serving, lock, history>>

Config(o) ==
  /\ Pass(o, "config")
  /\ IF disk.cfg = None THEN Install("cfg", Fresh) ELSE UNCHANGED disk
  /\ UNCHANGED <<serving, lock, mem, history>>

StopService(o) ==
  /\ Pass(o, "stop")
  /\ serving' = None
  /\ UNCHANGED <<disk, lock, mem, history>>

\* An installer finds a tree to move aside, or none.
MoveOld(o) ==
  /\ Pass(o, "moveOld")
  /\ Keep(o, "oldSrc", disk.src)
  /\ Install("src", None)
  /\ UNCHANGED <<serving, lock, history>>

MoveNew(o) ==
  /\ Pass(o, "moveNew")
  /\ Install("src", mem[o].goal)
  /\ UNCHANGED <<serving, lock, mem, history>>

Binary(o) ==
  /\ Pass(o, "binary")
  /\ Install("bin", mem[o].goal)
  /\ UNCHANGED <<serving, lock, mem, history>>

Unit(o) ==
  /\ Pass(o, "unit")
  /\ Install("unit", mem[o].goal)
  /\ UNCHANGED <<serving, lock, mem, history>>

Enable(o) ==
  /\ Pass(o, "enable")
  /\ Install("enabled", o \in Installers \/ mem[o].enabled)
  /\ UNCHANGED <<serving, lock, mem, history>>

Start(o) ==
  /\ Pass(o, "start")
  /\ serving' = Loaded
  /\ UNCHANGED <<disk, lock, mem, history>>

\* One of ten probes finds the service active and answering with this version.
Healthy == serving \in Sound

Health(o) ==
  /\ Pass(o, "health")
  /\ Healthy
  /\ UNCHANGED <<disk, serving, lock, mem, history>>

\* SUCCESS=1: the trap will not undo the deployment any more.
Commit(o) ==
  /\ Pass(o, "commit")
  /\ killed' = FALSE
  /\ released' = (o \in Releases)
  /\ UNCHANGED <<disk, serving, lock, mem, before>>

\* rm -rf OLD_SRC and STAGE, or the EXIT trap before that: after SUCCESS=1 it undoes
\* nothing, the new version stays, and what is left of OLD_SRC with it.
Clean(o) ==
  /\ Exit(o, "clean")
  /\ UNCHANGED <<serving, killed>>

\* A command or a check fails, or INT or TERM arrives: the EXIT trap runs.  Before
\* MUTATED=1 there is nothing to undo.  install-from-source.sh defers a signal
\* between its two renames, so that only a failure stops it there.
Stops(o) ==
  /\ \/ at[o] \in Swapping /\ Goto(o, at[o], "undoStop")
     \/ at[o] \in {"stage", "backup"} /\ Goto(o, at[o], "undoClean")
  /\ UNCHANGED <<disk, serving, lock, mem, history>>

-----------------------------------------------------------------------------
(* rollback_update, rollback_install, rollback_release_install *)

UndoStop(o) ==
  /\ Pass(o, "undoStop")
  /\ serving' = None
  /\ UNCHANGED <<disk, lock, mem, history>>

UndoBinary(o) ==
  /\ Pass(o, "undoBinary")
  /\ Install("bin", mem[o].bin)
  /\ UNCHANGED <<serving, lock, mem, history>>

\* Without an old unit the new one is removed; what is gone is not enabled.
UndoUnit_IfHad(o) ==
  /\ Pass(o, "undoUnit")
  /\ IF mem[o].unit # None THEN Install("unit", mem[o].unit) ELSE UNCHANGED disk
  /\ UNCHANGED <<serving, lock, mem, history>>
UndoUnit(o) ==
  /\ Pass(o, "undoUnit")
  /\ disk' = [disk EXCEPT !.unit = mem[o].unit, !.enabled = @ /\ mem[o].unit # None]
  /\ UNCHANGED <<serving, lock, mem, history>>

\* restore_source_tree: what is in the place of OLD_SRC is removed, and so is a new
\* tree where there was none.
UndoSource_Unchecked(o) ==
  /\ Pass(o, "undoSource")
  /\ Install("src", None)
  /\ UNCHANGED <<serving, lock, mem, history>>
UndoSource(o) ==
  /\ Pass(o, "undoSource")
  /\ IF mem[o].oldSrc # None \/ ~mem[o].present THEN Install("src", None) ELSE UNCHANGED disk
  /\ UNCHANGED <<serving, lock, mem, history>>

UndoMove(o) ==
  /\ Pass(o, "undoMove")
  /\ IF mem[o].oldSrc # None THEN Install("src", mem[o].oldSrc) ELSE UNCHANGED disk
  /\ Keep(o, "oldSrc", None)
  /\ UNCHANGED <<serving, lock, history>>

UndoRemove(o) ==
  /\ Pass(o, "undoRemove")
  /\ Install("cfg", None)
  /\ UNCHANGED <<serving, lock, mem, history>>

UndoCopy(o) ==
  /\ Pass(o, "undoCopy")
  /\ Install("cfg", mem[o].cfg)
  /\ UNCHANGED <<serving, lock, mem, history>>

UndoEnable(o) ==
  /\ Pass(o, "undoEnable")
  /\ Install("enabled", mem[o].enabled)
  /\ UNCHANGED <<serving, lock, mem, history>>

UndoStart_Always(o) ==
  /\ Pass(o, "undoStart")
  /\ serving' = Loaded
  /\ UNCHANGED <<disk, lock, mem, history>>
UndoStart(o) ==
  /\ Pass(o, "undoStart")
  /\ serving' = IF mem[o].active THEN Loaded ELSE None
  /\ UNCHANGED <<disk, lock, mem, history>>

UndoUser(o) ==
  /\ Pass(o, "undoUser")
  /\ Install("user", disk.user /\ ~mem[o].created)
  /\ UNCHANGED <<serving, lock, mem, history>>

\* Remove NEW_BIN and STAGE, with the copies in it.
UndoClean(o) ==
  /\ Exit(o, "undoClean")
  /\ UNCHANGED <<serving, killed>>

\* The second signal.  STAGE and OLD_SRC stay where they are, but no script will
\* look at them again.
Killed(o) ==
  /\ at[o] \in Undoing
  /\ Exit(o, at[o])
  /\ killed' = TRUE
  /\ UNCHANGED serving

-----------------------------------------------------------------------------
(* set-password.sh *)

\* Write the new file f beside the old one, and back the old one up.
Write(p, f) ==
  /\ Goto(p, "write", "replace")
  /\ None \notin {disk.bin, disk.cfg}
  /\ mem' = [mem EXCEPT ![p].goal = f, ![p].cfg = disk.cfg]
  /\ UNCHANGED <<disk, serving, lock, history>>

Replace(p) ==
  /\ Goto(p, "replace", "restart")
  /\ Install("cfg", mem[p].goal)
  /\ UNCHANGED <<serving, lock, mem, history>>

\* systemctl restart needs a unit.
Restarted == serving' = IF disk.unit = None THEN serving ELSE Loaded

Restart(p) ==
  /\ Goto(p, "restart", "check")
  /\ disk.unit # None
  /\ Restarted
  /\ UNCHANGED <<disk, lock, mem, history>>

Check(p) ==
  /\ Exit(p, "check")
  /\ Healthy
  /\ UNCHANGED <<serving, killed>>

\* A command or the health check fails.
PasswordFails(p) ==
  \/ /\ at[p] \in {"write", "replace"}
     /\ Exit(p, at[p])
     /\ UNCHANGED <<serving, killed>>
  \/ /\ at[p] \in {"restart", "check"}
     /\ Goto(p, at[p], "undoConfig")
     /\ UNCHANGED <<disk, serving, lock, mem, history>>

UndoConfig(p) ==
  /\ Goto(p, "undoConfig", "undoRestart")
  /\ Install("cfg", mem[p].cfg)
  /\ UNCHANGED <<serving, lock, mem, history>>

UndoRestart_Skipped(p) ==
  /\ Exit(p, "undoRestart")
  /\ UNCHANGED <<serving, killed>>
UndoRestart(p) ==
  /\ Exit(p, "undoRestart")
  /\ Restarted
  /\ UNCHANGED killed

-----------------------------------------------------------------------------
Deploy(o) ==
  \/ \E c \in Commits : Stage(o, c)
  \/ Backup(o) \/ User(o) \/ Mark(o) \/ Config(o) \/ StopService(o)
  \/ MoveOld(o) \/ MoveNew(o) \/ Binary(o) \/ Unit(o) \/ Enable(o)
  \/ Start(o) \/ Health(o) \/ Commit(o) \/ Clean(o)

Rollback(o) ==
  \/ UndoStop(o) \/ UndoBinary(o) \/ UndoUnit(o) \/ UndoSource(o) \/ UndoMove(o)
  \/ UndoRemove(o) \/ UndoCopy(o) \/ UndoEnable(o) \/ UndoStart(o) \/ UndoUser(o)
  \/ UndoClean(o)

SetPassword(p) ==
  \/ \E f \in Configs : Write(p, f)
  \/ Replace(p) \/ Restart(p) \/ Check(p)
  \/ PasswordFails(p) \/ UndoConfig(p) \/ UndoRestart(p)

Next ==
  \/ \E o \in Ops : TakeLock(o)
  \/ \E o \in Deploys : Deploy(o) \/ Stops(o) \/ Rollback(o) \/ Killed(o)
  \/ \E p \in PasswordChanges : SetPassword(p)

Spec == Init /\ [][Next]_vars

-----------------------------------------------------------------------------
(* Safety *)

AtRest == lock = None /\ ~killed

\* Between operations source tree, binary and unit are of one commit, wherever the
\* operations before were stopped; a release that was installed has left the tree
\* of another alone (update-server.sh:112-146, 190-221, install-from-source.sh:16-50,
\* 179-196, install.sh:86-102).
OneVersion ==
  AtRest =>
    /\ disk.unit \in {disk.bin, None}
    /\ disk.src = disk.bin \/ released

\* Between operations the service, if it runs, runs what is installed; and a
\* healthy service is healthy still, whatever failed (update-server.sh:134-138,
\* 202-219, set-password.sh:27-36, install-from-source.sh:193, 310-324).  A stopped
\* one is updated without being asked for its health: nothing is promised for when
\* it is started.
ServiceStaysHealthy ==
  AtRest =>
    /\ serving \in {None, Loaded}
    /\ before.serving \in Sound => serving \in Sound

\* As long as a deployment has not ended, its copies hold whatever it has replaced
\* or removed: killed anywhere, even in its rollback, it loses nothing
\* (update-server.sh:118-127, 184-194, install-from-source.sh:181-189, 226-228,
\* install.sh:88-95, 159-161).
NothingIsLost ==
  \A o \in Deploys :
    at[o] \in Deploying =>
      LET old == before.disk IN
      /\ old.src \in {disk.src, mem[o].oldSrc}
      /\ old.bin \in {disk.bin, mem[o].bin}
      /\ old.unit \in {disk.unit, mem[o].unit}
      /\ old.cfg \in {disk.cfg, mem[o].cfg}

-----------------------------------------------------------------------------
(* Action properties *)

\* What there was, but for an account made just before the script stopped; and the
\* service, if that ran what was on the disk: only a change of the password may have
\* started it.
Restored(o) ==
  /\ \/ disk' = before.disk
     \/ /\ o \in Installers /\ ~mem[o].created
        /\ disk' = [before.disk EXCEPT !.user = TRUE]
  /\ before.serving \in {None, <<before.disk.bin, before.disk.cfg>>} =>
       serving' = before.serving \/ (o \in PasswordChanges /\ serving' = Loaded')

\* The last steps of an operation that has failed.
LastSteps == {"undoClean", "undoRestart", "write", "replace"}

\* An operation that fails leaves the disk and the service as it found them
\* (update-server.sh:112-143, install-from-source.sh:179-196, install.sh:86-102).
FailureChangesNothing ==
  [][\A o \in Ops :
       lock = o /\ lock' = None /\ at[o] \in LastSteps => Restored(o)]_vars
=============================================================================
