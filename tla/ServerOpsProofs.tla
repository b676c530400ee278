--------------------------- MODULE ServerOpsProofs ---------------------------
(***************************************************************************)
(* Proofs about ServerOps, for any number of scripts of each kind, any     *)
(* commits and configurations, and whichever of them start.                *)
(*                                                                         *)
(* Whoever has the lock works alone, so that all is said of its state: at  *)
(* each of its steps, what every part of the disk is by then, compared     *)
(* with what there was when it took the lock (before), with what it is to  *)
(* install, and with its copies.                                           *)
(***************************************************************************)
EXTENDS ServerOps, TLAPS

\* Only the holder of the lock is on its way or remembers anything.
LockInv ==
  /\ \A o \in Ops : o # lock => at[o] = "idle" /\ mem[o] = Blank
  /\ lock # None => at[lock] # "idle"

\* What is true between operations if no rollback was killed, of a disk and of what
\* the service runs.
Whole(d, s) ==
  /\ d.unit \in {d.bin, None}
  /\ d.src = d.bin \/ released
  /\ s \in {None, <<d.bin, d.cfg>>}

Old == before.disk
OldServing == before.serving

\* Before the first command that changes anything.
Untouched == disk = Old /\ serving = OldServing

\* What Stage and Backup have put down.
Staged(m) ==
  /\ m.goal \in Commits
  /\ m.active = (OldServing # None) /\ m.enabled = Old.enabled /\ m.present = (Old.src # None)
Copied(o, m) ==
  /\ Staged(m)
  /\ m.bin = Old.bin /\ m.unit = Old.unit
  /\ o \in Installers => m.cfg = Old.cfg

\* The steps of a deployment before which a part of the disk has been replaced, and
\* those of its rollback before which it has been put back.
BeforeMove == {"user", "mark", "config", "stop", "moveOld"}
SrcNew == {"binary", "unit", "enable", "start", "health", "commit", "clean"}
BinNew == SrcNew \ {"binary"}
UnitNew == BinNew \ {"unit"}
Final == {"commit", "clean"}

LastUndone == {"undoEnable", "undoStart", "undoUser"}
BinOld == Undoing \ {"undoStop", "undoBinary", "undoClean"}
UnitOld(o) ==
  LastUndone \cup (IF o \in Updates THEN {"undoSource", "undoMove"} ELSE {"undoRemove", "undoCopy"})
SrcOld(o) ==
  LastUndone \cup (IF o \in Installs THEN {"undoUnit", "undoRemove", "undoCopy"} ELSE {})

\* The source tree: moved aside first, and moved back last.
SrcInv(o, s, m) ==
  /\ o \in Releases => disk.src = Old.src /\ m.oldSrc = None
  /\ o \notin Releases =>
       /\ s \in BeforeMove => disk.src = Old.src /\ m.oldSrc = None
       /\ s = "moveNew" => disk.src = None /\ m.oldSrc = Old.src
       /\ s \in SrcNew => disk.src = m.goal
       /\ \/ m.oldSrc = Old.src
          \/ m.oldSrc = None /\ disk.src = Old.src
       /\ s = "undoMove" /\ m.oldSrc # None => disk.src = None
       /\ s = "undoMove" /\ m.oldSrc = None => disk.src = Old.src
       /\ s \in SrcOld(o) => disk.src = Old.src

BinInv(s, m) ==
  /\ s \in BinNew => disk.bin = m.goal
  /\ s \in BinOld => disk.bin = Old.bin

UnitInv(o, s, m) ==
  /\ s \in UnitNew => disk.unit = m.goal
  /\ s \in UnitOld(o) => disk.unit = Old.unit

\* A configuration is written where there was none, and never replaced.
CfgInv(o, s) ==
  /\ o \in Updates => disk.cfg = Old.cfg
  /\ s \in LastUndone => disk.cfg = Old.cfg

EnabledInv(s) == s \in {"undoStart", "undoUser"} => disk.enabled = Old.enabled

\* The account: an installer may stop between making it and noting that it did.
UserInv(o, s, m) ==
  /\ o \in Updates => disk.user = Old.user
  /\ Old.user => disk.user
  /\ m.created => disk.user /\ ~Old.user
  /\ s = "user" => disk.user = Old.user
  /\ s = "mark" => disk.user /\ ~Old.user

ServingInv(o, s, m) ==
  /\ s = "health" => serving = Loaded
  /\ s \in Final =>
       \/ serving = Loaded /\ Loaded \in Sound
       \/ serving = None /\ ~m.active
  /\ s \in {"moveOld", "moveNew", "binary", "unit", "enable", "start"} /\ o \in Updates =>
       serving = None
  /\ s = "undoUser" => serving = IF m.active THEN Loaded ELSE None

\* A deployment has failed and everything is as it was, but for an account made just
\* before it stopped; the service was started again if it ran.
RolledBack(o, m) ==
  /\ \/ disk = Old
     \/ o \in Installers /\ ~m.created /\ disk = [Old EXCEPT !.user = TRUE]
  /\ serving \in {OldServing, IF OldServing = None THEN None ELSE <<Old.bin, Old.cfg>>}

PartsInv(o, s, m) ==
  /\ Copied(o, m)
  /\ SrcInv(o, s, m) /\ BinInv(s, m) /\ UnitInv(o, s, m) /\ CfgInv(o, s)
  /\ EnabledInv(s) /\ UserInv(o, s, m) /\ ServingInv(o, s, m)

DeployInv(o) ==
  LET s == at[o]
      m == mem[o] IN
  /\ s \in {"stage", "backup"} => Untouched /\ m.oldSrc = None /\ ~m.created
  /\ s = "backup" => Staged(m)
  /\ s \in Swapping \cup {"clean"} \cup (Undoing \ {"undoClean"}) => PartsInv(o, s, m)
  /\ s = "undoClean" => RolledBack(o, m)
  /\ s = "clean" => ~killed /\ released = (o \in Releases)

PasswordInv(p) ==
  LET s == at[p]
      m == mem[p] IN
  /\ s \in {"write", "replace"} => Untouched
  /\ s \in {"replace", "restart", "check", "undoConfig"} =>
       m.goal \in Configs /\ m.cfg = Old.cfg
  /\ s \in {"restart", "check", "undoConfig"} => disk = [Old EXCEPT !.cfg = m.goal]
  /\ s = "restart" => serving = OldServing
  /\ s = "check" => Old.unit # None /\ serving = Loaded
  /\ s \in {"undoConfig", "undoRestart"} => serving = OldServing \/ Old.unit # None
  /\ s = "undoRestart" => disk = Old

\* What was deployed last is not decided before SUCCESS=1.
BeforeInv ==
  lock # None /\ at[lock] # "clean" /\ ~killed => Whole(Old, OldServing)

AtRestInv ==
  AtRest =>
    /\ Whole(disk, serving)
    /\ OldServing \in Sound => serving \in Sound

IInv ==
  /\ TypeOK
  /\ LockInv
  /\ BeforeInv
  /\ AtRestInv
  /\ lock \in Deploys => DeployInv(lock)
  /\ lock \in PasswordChanges => PasswordInv(lock)

-----------------------------------------------------------------------------
(* Facts about the definitions *)

LEMMA OpsAreDisjoint ==
  /\ \A o \in Updates : o \notin Installers /\ o \notin Installs /\ o \notin Releases
  /\ \A o \in Installs : o \notin Releases
  /\ \A o \in Deploys : o \in Ops /\ o \notin PasswordChanges /\ o # None
  /\ \A p \in PasswordChanges : p \in Ops /\ p \notin Deploys /\ p # None
  /\ \A o \in Deploys : o \in Updates \/ o \in Installs \/ o \in Releases
  /\ \A o \in Deploys : o \in Installers <=> o \notin Updates
  /\ Installers \subseteq Deploys /\ Updates \subseteq Ops /\ Releases \subseteq Ops
BY OpsAssumption DEF Ops, Deploys, Installers

LEMMA DiskIsItsParts ==
  ASSUME NEW d \in Disk, NEW e \in Disk, d.src = e.src, d.bin = e.bin, d.unit = e.unit,
         d.cfg = e.cfg, d.enabled = e.enabled, d.user = e.user
  PROVE  d = e
BY DEF Disk

\* What holds at rest, at the start and whenever the lock is given back.
LEMMA InitIInv == Init => IInv
<1> SUFFICES ASSUME Init PROVE IInv
  OBVIOUS
<1> USE OpsAssumption DEF Init
<1>1. disk \in Disk /\ disk.unit \in {disk.bin, None} /\ disk.src = disk.bin
  <2>1. CASE disk = Bare
    BY <2>1 DEF Bare, Disk
  <2>2. ASSUME NEW c \in Commits, NEW f \in Configs, NEW u \in {c, None}, NEW e \in BOOLEAN,
               disk = [src |-> c, bin |-> c, unit |-> u, cfg |-> f, enabled |-> e, user |-> TRUE]
        PROVE  disk \in Disk /\ disk.unit \in {disk.bin, None} /\ disk.src = disk.bin
    BY <2>2 DEF Disk
  <2> QED BY <2>1, <2>2
<1>2. serving \in Running /\ Whole(disk, serving)
  BY <1>1 DEF Running, Whole, Loaded, Disk
<1>3. Blank \in Memory
  BY DEF Blank, Memory
<1>4. TypeOK
  BY <1>1, <1>2, <1>3, OpsAreDisjoint DEF TypeOK, InstallersOnly, SourceOnly, PasswordSteps
<1>5. LockInv /\ BeforeInv
  BY DEF LockInv, BeforeInv
<1>6. AtRestInv
  BY <1>2 DEF AtRestInv, AtRest, OldServing
<1> QED BY <1>4, <1>5, <1>6, OpsAreDisjoint DEF IInv

\* A step of the holder of the lock that leaves it with the lock.
LEMMA HolderKeepsLock ==
  ASSUME IInv, NEW o \in Ops, at[o] # "idle", at' = [at EXCEPT ![o] = at'[o]],
         disk' \in Disk, serving' \in Running,
         mem' \in [Ops -> Memory], \A x \in Ops : x # o => mem'[x] = mem[x],
         lock' = lock, before' = before, killed' \in BOOLEAN, released' \in BOOLEAN,
         \/ at'[o] = "clean"
         \/ at[o] # "clean" /\ killed' = killed /\ released' = released,
         \/ /\ o \in Deploys
            /\ at'[o] \in {"clean"} \cup Deploying
            /\ o \in Updates => at'[o] \notin InstallersOnly
            /\ o \in Releases => at'[o] \notin SourceOnly
            /\ DeployInv(o)'
         \/ o \in PasswordChanges /\ at'[o] \in PasswordSteps /\ PasswordInv(o)'
  PROVE  IInv'
<1>0. /\ lock = o /\ at'[o] # "idle" /\ at'[o] \in {"clean"} \cup Deploying \cup PasswordSteps
      /\ o \in Deploys => at'[o] \notin PasswordSteps
  BY OpsAreDisjoint DEF IInv, LockInv, PasswordSteps, Deploying, Swapping, Undoing, Ops
<1>1. LockInv'
  BY <1>0 DEF IInv, TypeOK, LockInv
<1>2. BeforeInv'
  BY <1>0 DEF IInv, BeforeInv, Whole, Old, OldServing, TypeOK
<1>3. AtRestInv'
  BY <1>0, OpsAssumption DEF AtRestInv, AtRest
<1>4. TypeOK'
  <2>1. /\ at' \in [Ops -> {"idle", "clean"} \cup Deploying \cup PasswordSteps]
        /\ \A x \in Ops : x # o => at'[x] = at[x]
    BY <1>0 DEF IInv, TypeOK
  <2>2. TypeOK
    BY DEF IInv
  <2>3. ASSUME NEW x \in Deploys
        PROVE  /\ at'[x] \notin PasswordSteps
               /\ x \in Updates => at'[x] \notin InstallersOnly
               /\ x \in Releases => at'[x] \notin SourceOnly
    BY <1>0, <2>1, <2>2, OpsAreDisjoint DEF TypeOK
  <2>4. ASSUME NEW p \in PasswordChanges PROVE at'[p] \in {"idle"} \cup PasswordSteps
    BY <1>0, <2>1, <2>2, OpsAreDisjoint DEF TypeOK
  <2> QED BY <1>0, <2>1, <2>2, <2>3, <2>4 DEF TypeOK, Deploys, Installers
<1> QED BY <1>0, <1>1, <1>2, <1>3, <1>4, OpsAreDisjoint DEF IInv

\* The holder is on its way, and everything said of its state holds.
LEMMA Holding ==
  ASSUME IInv, NEW o \in Deploys, at[o] # "idle"
  PROVE  /\ lock = o /\ o \in Ops /\ TypeOK /\ DeployInv(o)
         /\ disk \in Disk /\ Old \in Disk /\ mem[o] \in Memory
BY OpsAreDisjoint DEF IInv, LockInv, TypeOK, Old

LEMMA StageKeepsIInv ==
  ASSUME IInv, NEW o \in Deploys, NEW c \in Commits, Stage(o, c)
  PROVE  IInv'
<1>0. at[o] = "stage"
  BY DEF Stage, Pass, Goto
<1>1. lock = o /\ o \in Ops /\ TypeOK /\ DeployInv(o)
  BY <1>0, Holding
<1>2. Untouched /\ mem[o].oldSrc = None /\ ~mem[o].created
  BY <1>0, <1>1 DEF DeployInv
<1> DEFINE m == [mem[o] EXCEPT !.goal = c, !.active = (serving # None),
                        !.enabled = disk.enabled, !.present = (disk.src # None)]
<1>3. mem' = [mem EXCEPT ![o] = m] /\ mem'[o] = m /\ m \in Memory
  <2>1. (serving # None) \in BOOLEAN /\ (disk.src # None) \in BOOLEAN /\ disk.enabled \in BOOLEAN
    BY <1>1 DEF TypeOK, Disk
  <2>2. mem \in [Ops -> Memory] /\ mem[o] \in Memory /\ mem' = [mem EXCEPT ![o] = m]
    BY <1>1 DEF Stage, TypeOK
  <2> QED BY <1>1, <2>1, <2>2 DEF Memory
<1>8. /\ m.goal = c /\ m.active = (OldServing # None) /\ m.enabled = Old.enabled
      /\ m.present = (Old.src # None) /\ m.oldSrc = None /\ ~m.created
  BY <1>1, <1>2 DEF TypeOK, Memory, Untouched, Old, OldServing
<1> HIDE DEF m
<1>4. at' = [at EXCEPT ![o] = "backup"] /\ at'[o] = "backup"
  BY <1>1, OpsAreDisjoint
  DEF Stage, Pass, Goto, TypeOK, Order, UpdateOrder, InstallOrder, ReleaseOrder
<1>5. UNCHANGED <<disk, serving, lock, before, killed, released>>
  BY DEF Stage, history
<1>6. DeployInv(o)'
  BY <1>1, <1>2, <1>3, <1>4, <1>5, <1>8
  DEF DeployInv, Untouched, Old, OldServing, Staged, Swapping, Undoing
<1>7. mem' \in [Ops -> Memory] /\ \A x \in Ops : x # o => mem'[x] = mem[x]
  BY <1>1, <1>3 DEF TypeOK
<1> QED
  BY <1>0, <1>1, <1>4, <1>5, <1>6, <1>7, HolderKeepsLock
  DEF TypeOK, Deploying, InstallersOnly, SourceOnly

\* What is known of the holder at a step at which all parts are accounted for.
Holds(o, step) ==
  /\ lock = o /\ o \in Ops /\ at[o] = step /\ PartsInv(o, step, mem[o])
  /\ disk \in Disk /\ Old \in Disk /\ serving \in Running
  /\ mem \in [Ops -> Memory] /\ mem[o] \in Memory
  /\ at \in [Ops -> {"idle", "clean"} \cup Deploying \cup PasswordSteps]
  /\ step \in Deploying
  /\ o \in Updates => step \notin InstallersOnly
  /\ o \in Releases => step \notin SourceOnly

LEMMA HoldsAtStep ==
  ASSUME IInv, NEW o \in Deploys, at[o] \in Swapping \cup (Undoing \ {"undoClean"})
  PROVE  Holds(o, at[o])
<1>1. at[o] # "idle" /\ at[o] \in Deploying
  BY DEF Swapping, Undoing, Deploying
<1>2. lock = o /\ o \in Ops /\ TypeOK /\ DeployInv(o)
  BY <1>1, Holding
<1>3. PartsInv(o, at[o], mem[o])
  BY <1>2 DEF DeployInv
<1> QED BY <1>1, <1>2, <1>3 DEF TypeOK, Holds, Old

\* A step that leads on to another at which all parts are accounted for, or to the
\* end of the rollback.
LEMMA StepKeepsIInv ==
  ASSUME IInv, NEW o \in Deploys, at[o] \in Deploying, at' = [at EXCEPT ![o] = at'[o]],
         at'[o] \in {"clean"} \cup Swapping \cup Undoing,
         o \in Updates => at'[o] \notin InstallersOnly,
         o \in Releases => at'[o] \notin SourceOnly,
         disk' \in Disk, serving' \in Running,
         mem' \in [Ops -> Memory], \A x \in Ops : x # o => mem'[x] = mem[x],
         lock' = lock, before' = before,
         IF at'[o] = "clean" THEN killed' = FALSE /\ released' = (o \in Releases)
         ELSE killed' = killed /\ released' = released,
         IF at'[o] = "undoClean" THEN RolledBack(o, mem[o])' ELSE PartsInv(o, at[o], mem[o])'
  PROVE  IInv'
<1>1. at[o] # "idle" /\ at[o] # "clean"
  BY DEF Deploying, Swapping, Undoing
<1>2. at'[o] \in {"clean"} \cup Deploying
  BY DEF Deploying
<1>3. DeployInv(o)'
  BY <1>1 DEF DeployInv, Swapping, Undoing
<1>4. killed' \in BOOLEAN /\ released' \in BOOLEAN
  <2>1. killed \in BOOLEAN /\ released \in BOOLEAN
    BY DEF IInv, TypeOK
  <2>2. CASE at'[o] = "clean"
    <3>1. killed' = FALSE /\ released' = (o \in Releases)
      BY <2>2
    <3>2. (o \in Releases) \in BOOLEAN
      OBVIOUS
    <3> HIDE <2>2
    <3> QED BY <3>1, <3>2
  <2>3. CASE at'[o] # "clean"
    BY <2>1, <2>3
  <2> QED BY <2>2, <2>3
<1> QED BY <1>1, <1>2, <1>3, <1>4, HolderKeepsLock, OpsAreDisjoint

LEMMA UserKeepsIInv ==
  ASSUME IInv, NEW o \in Deploys, User(o) PROVE IInv'
<1>1. Holds(o, "user")
  BY HoldsAtStep DEF User, Pass, Goto, Swapping, Undoing
<1>2. at' = [at EXCEPT ![o] = at'[o]] /\ at'[o] = IF disk.user THEN "config" ELSE "mark"
  BY <1>1, OpsAreDisjoint
  DEF User, Pass, Goto, Holds, Order, UpdateOrder, InstallOrder, ReleaseOrder, InstallersOnly, SourceOnly
<1>3. o \in Installers /\ o \notin Updates
  BY <1>1, OpsAreDisjoint DEF Holds, InstallersOnly
<1>4. /\ at'[o] \in {"clean"} \cup Swapping \cup (Undoing \ {"undoClean"})
      /\ o \in Updates => at'[o] \notin InstallersOnly
      /\ o \in Releases => at'[o] \notin SourceOnly
  BY <1>2, <1>3, OpsAreDisjoint DEF Swapping, Undoing, InstallersOnly, SourceOnly
<1>5. /\ disk' = [disk EXCEPT !.user = TRUE]
      /\ UNCHANGED <<lock, before, killed, released, serving, mem>>
  BY <1>1 DEF User, Install, Keep, history, Holds
<1>6. PartsInv(o, at[o], mem[o])'
  <2> USE <1>1, <1>2, <1>5, <1>3, OpsAreDisjoint DEF Holds, PartsInv
  <2>1. Copied(o, mem[o])'
    BY DEF Copied, Staged, Old, OldServing, Memory
  <2>2. SrcInv(o, at[o], mem[o])'
    BY DEF SrcInv, Copied, Staged, Old, BeforeMove, SrcNew, SrcOld, LastUndone, Disk, Memory
  <2>3. BinInv(at[o], mem[o])' /\ UnitInv(o, at[o], mem[o])'
    BY DEF BinInv, UnitInv, Copied, Old, BinNew, SrcNew, UnitNew, BinOld, Undoing, UnitOld,
       LastUndone, Disk, Memory
  <2>4. CfgInv(o, at[o])' /\ EnabledInv(at[o])'
    BY DEF CfgInv, EnabledInv, Copied, Old, LastUndone, Disk, Memory
  <2>5. UserInv(o, at[o], mem[o])'
    BY DEF UserInv, Old, Disk, Memory
  <2>6. ServingInv(o, at[o], mem[o])'
    BY DEF ServingInv, Final, Loaded, Disk, Memory
  <2> QED BY <2>1, <2>2, <2>3, <2>4, <2>5, <2>6
<1>7. disk' \in Disk /\ serving' \in Running /\ mem' \in [Ops -> Memory]
      /\ \A x \in Ops : x # o => mem'[x] = mem[x]
  BY <1>1, <1>5, OpsAssumption
  DEF Holds, PartsInv, Copied, Staged, Disk, Memory, Running, Loaded
<1> QED
  BY <1>1, <1>2, <1>5, <1>6, <1>7, <1>4, StepKeepsIInv DEF Holds

LEMMA MarkKeepsIInv ==
  ASSUME IInv, NEW o \in Deploys, Mark(o) PROVE IInv'
<1>1. Holds(o, "mark")
  BY HoldsAtStep DEF Mark, Pass, Goto, Swapping, Undoing
<1>2. at' = [at EXCEPT ![o] = at'[o]] /\ at'[o] = "config"
  BY <1>1, OpsAreDisjoint
  DEF Mark, Pass, Goto, Holds, Order, UpdateOrder, InstallOrder, ReleaseOrder, InstallersOnly, SourceOnly
<1>3. o \in Installers /\ o \notin Updates
  BY <1>1, OpsAreDisjoint DEF Holds, InstallersOnly
<1>4. /\ at'[o] \in {"clean"} \cup Swapping \cup (Undoing \ {"undoClean"})
      /\ o \in Updates => at'[o] \notin InstallersOnly
      /\ o \in Releases => at'[o] \notin SourceOnly
  BY <1>2, <1>3, OpsAreDisjoint DEF Swapping, Undoing, InstallersOnly, SourceOnly
<1>5. /\ mem' = [mem EXCEPT ![o] = [mem[o] EXCEPT !.created = TRUE]] /\ mem'[o] = [mem[o] EXCEPT !.created = TRUE]
      /\ UNCHANGED <<lock, before, killed, released, disk, serving>>
  BY <1>1 DEF Mark, Install, Keep, history, Holds
<1>6. PartsInv(o, at[o], mem[o])'
  <2> USE <1>1, <1>2, <1>5, <1>3, OpsAreDisjoint DEF Holds, PartsInv
  <2>1. Copied(o, mem[o])'
    BY DEF Copied, Staged, Old, OldServing, Memory
  <2>2. SrcInv(o, at[o], mem[o])'
    BY DEF SrcInv, Copied, Staged, Old, BeforeMove, SrcNew, SrcOld, LastUndone, Disk, Memory
  <2>3. BinInv(at[o], mem[o])' /\ UnitInv(o, at[o], mem[o])'
    BY DEF BinInv, UnitInv, Copied, Old, BinNew, SrcNew, UnitNew, BinOld, Undoing, UnitOld,
       LastUndone, Disk, Memory
  <2>4. CfgInv(o, at[o])' /\ EnabledInv(at[o])'
    BY DEF CfgInv, EnabledInv, Copied, Old, LastUndone, Disk, Memory
  <2>5. UserInv(o, at[o], mem[o])'
    BY DEF UserInv, Old, Disk, Memory
  <2>6. ServingInv(o, at[o], mem[o])'
    BY DEF ServingInv, Final, Loaded, Disk, Memory
  <2> QED BY <2>1, <2>2, <2>3, <2>4, <2>5, <2>6
<1>7. disk' \in Disk /\ serving' \in Running /\ mem' \in [Ops -> Memory]
      /\ \A x \in Ops : x # o => mem'[x] = mem[x]
  BY <1>1, <1>5, OpsAssumption
  DEF Holds, PartsInv, Copied, Staged, Disk, Memory, Running, Loaded
<1> QED
  BY <1>1, <1>2, <1>5, <1>6, <1>7, <1>4, StepKeepsIInv DEF Holds

LEMMA ConfigKeepsIInv ==
  ASSUME IInv, NEW o \in Deploys, Config(o) PROVE IInv'
<1>1. Holds(o, "config")
  BY HoldsAtStep DEF Config, Pass, Goto, Swapping, Undoing
<1>2. at' = [at EXCEPT ![o] = at'[o]] /\ at'[o] = IF o \in Installs THEN "stop" ELSE "binary"
  BY <1>1, OpsAreDisjoint
  DEF Config, Pass, Goto, Holds, Order, UpdateOrder, InstallOrder, ReleaseOrder, InstallersOnly, SourceOnly
<1>3. o \in Installers /\ o \notin Updates
  BY <1>1, OpsAreDisjoint DEF Holds, InstallersOnly
<1>4. /\ at'[o] \in {"clean"} \cup Swapping \cup (Undoing \ {"undoClean"})
      /\ o \in Updates => at'[o] \notin InstallersOnly
      /\ o \in Releases => at'[o] \notin SourceOnly
  BY <1>2, <1>3, OpsAreDisjoint DEF Swapping, Undoing, InstallersOnly, SourceOnly
<1>5. /\ disk' = IF disk.cfg = None THEN [disk EXCEPT !.cfg = Fresh] ELSE disk
      /\ UNCHANGED <<lock, before, killed, released, serving, mem>>
  BY <1>1 DEF Config, Install, Keep, history, Holds
<1>6. PartsInv(o, at[o], mem[o])'
  <2> USE <1>1, <1>2, <1>5, <1>3, OpsAreDisjoint DEF Holds, PartsInv
  <2>1. Copied(o, mem[o])'
    BY DEF Copied, Staged, Old, OldServing, Memory
  <2>2. SrcInv(o, at[o], mem[o])'
    BY DEF SrcInv, Copied, Staged, Old, BeforeMove, SrcNew, SrcOld, LastUndone, Disk, Memory
  <2>3. BinInv(at[o], mem[o])' /\ UnitInv(o, at[o], mem[o])'
    BY DEF BinInv, UnitInv, Copied, Old, BinNew, SrcNew, UnitNew, BinOld, Undoing, UnitOld,
       LastUndone, Disk, Memory
  <2>4. CfgInv(o, at[o])' /\ EnabledInv(at[o])'
    BY DEF CfgInv, EnabledInv, Copied, Old, LastUndone, Disk, Memory
  <2>5. UserInv(o, at[o], mem[o])'
    BY DEF UserInv, Old, Disk, Memory
  <2>6. ServingInv(o, at[o], mem[o])'
    BY DEF ServingInv, Final, Loaded, Disk, Memory
  <2> QED BY <2>1, <2>2, <2>3, <2>4, <2>5, <2>6
<1>7. disk' \in Disk /\ serving' \in Running /\ mem' \in [Ops -> Memory]
      /\ \A x \in Ops : x # o => mem'[x] = mem[x]
  BY <1>1, <1>5, OpsAssumption
  DEF Holds, PartsInv, Copied, Staged, Disk, Memory, Running, Loaded
<1> QED
  BY <1>1, <1>2, <1>5, <1>6, <1>7, <1>4, StepKeepsIInv DEF Holds

LEMMA StopServiceKeepsIInv ==
  ASSUME IInv, NEW o \in Deploys, StopService(o) PROVE IInv'
<1>1. Holds(o, "stop")
  BY HoldsAtStep DEF StopService, Pass, Goto, Swapping, Undoing
<1>2. at' = [at EXCEPT ![o] = at'[o]] /\ at'[o] = "moveOld"
  BY <1>1, OpsAreDisjoint
  DEF StopService, Pass, Goto, Holds, Order, UpdateOrder, InstallOrder, ReleaseOrder, InstallersOnly, SourceOnly
<1>3. o \notin Releases
  BY <1>1, OpsAreDisjoint DEF Holds, SourceOnly
<1>4. /\ at'[o] \in {"clean"} \cup Swapping \cup (Undoing \ {"undoClean"})
      /\ o \in Updates => at'[o] \notin InstallersOnly
      /\ o \in Releases => at'[o] \notin SourceOnly
  BY <1>2, <1>3, OpsAreDisjoint DEF Swapping, Undoing, InstallersOnly, SourceOnly
<1>5. /\ serving' = None
      /\ UNCHANGED <<lock, before, killed, released, disk, mem>>
  BY <1>1 DEF StopService, Install, Keep, history, Holds
<1>6. PartsInv(o, at[o], mem[o])'
  <2> USE <1>1, <1>2, <1>5, <1>3, OpsAreDisjoint DEF Holds, PartsInv
  <2>1. Copied(o, mem[o])'
    BY DEF Copied, Staged, Old, OldServing, Memory
  <2>2. SrcInv(o, at[o], mem[o])'
    BY DEF SrcInv, Copied, Staged, Old, BeforeMove, SrcNew, SrcOld, LastUndone, Disk, Memory
  <2>3. BinInv(at[o], mem[o])' /\ UnitInv(o, at[o], mem[o])'
    BY DEF BinInv, UnitInv, Copied, Old, BinNew, SrcNew, UnitNew, BinOld, Undoing, UnitOld,
       LastUndone, Disk, Memory
  <2>4. CfgInv(o, at[o])' /\ EnabledInv(at[o])'
    BY DEF CfgInv, EnabledInv, Copied, Old, LastUndone, Disk, Memory
  <2>5. UserInv(o, at[o], mem[o])'
    BY DEF UserInv, Old, Disk, Memory
  <2>6. ServingInv(o, at[o], mem[o])'
    BY DEF ServingInv, Final, Loaded, Disk, Memory
  <2> QED BY <2>1, <2>2, <2>3, <2>4, <2>5, <2>6
<1>7. disk' \in Disk /\ serving' \in Running /\ mem' \in [Ops -> Memory]
      /\ \A x \in Ops : x # o => mem'[x] = mem[x]
  BY <1>1, <1>5, OpsAssumption
  DEF Holds, PartsInv, Copied, Staged, Disk, Memory, Running, Loaded
<1> QED
  BY <1>1, <1>2, <1>5, <1>6, <1>7, <1>4, StepKeepsIInv DEF Holds

LEMMA MoveOldKeepsIInv ==
  ASSUME IInv, NEW o \in Deploys, MoveOld(o) PROVE IInv'
<1>1. Holds(o, "moveOld")
  BY HoldsAtStep DEF MoveOld, Pass, Goto, Swapping, Undoing
<1>2. at' = [at EXCEPT ![o] = at'[o]] /\ at'[o] = "moveNew"
  BY <1>1, OpsAreDisjoint
  DEF MoveOld, Pass, Goto, Holds, Order, UpdateOrder, InstallOrder, ReleaseOrder, InstallersOnly, SourceOnly
<1>3. o \notin Releases
  BY <1>1, OpsAreDisjoint DEF Holds, SourceOnly
<1>4. /\ at'[o] \in {"clean"} \cup Swapping \cup (Undoing \ {"undoClean"})
      /\ o \in Updates => at'[o] \notin InstallersOnly
      /\ o \in Releases => at'[o] \notin SourceOnly
  BY <1>2, <1>3, OpsAreDisjoint DEF Swapping, Undoing, InstallersOnly, SourceOnly
<1>5. /\ disk' = [disk EXCEPT !.src = None]
      /\ mem' = [mem EXCEPT ![o] = [mem[o] EXCEPT !.oldSrc = disk.src]] /\ mem'[o] = [mem[o] EXCEPT !.oldSrc = disk.src]
      /\ UNCHANGED <<lock, before, killed, released, serving>>
  BY <1>1 DEF MoveOld, Install, Keep, history, Holds
<1>6. PartsInv(o, at[o], mem[o])'
  <2> USE <1>1, <1>2, <1>5, <1>3, OpsAreDisjoint DEF Holds, PartsInv
  <2>1. Copied(o, mem[o])'
    BY DEF Copied, Staged, Old, OldServing, Memory
  <2>2. SrcInv(o, at[o], mem[o])'
    BY DEF SrcInv, Copied, Staged, Old, BeforeMove, SrcNew, SrcOld, LastUndone, Disk, Memory
  <2>3. BinInv(at[o], mem[o])' /\ UnitInv(o, at[o], mem[o])'
    BY DEF BinInv, UnitInv, Copied, Old, BinNew, SrcNew, UnitNew, BinOld, Undoing, UnitOld,
       LastUndone, Disk, Memory
  <2>4. CfgInv(o, at[o])' /\ EnabledInv(at[o])'
    BY DEF CfgInv, EnabledInv, Copied, Old, LastUndone, Disk, Memory
  <2>5. UserInv(o, at[o], mem[o])'
    BY DEF UserInv, Old, Disk, Memory
  <2>6. ServingInv(o, at[o], mem[o])'
    BY DEF ServingInv, Final, Loaded, Disk, Memory
  <2> QED BY <2>1, <2>2, <2>3, <2>4, <2>5, <2>6
<1>7. disk' \in Disk /\ serving' \in Running /\ mem' \in [Ops -> Memory]
      /\ \A x \in Ops : x # o => mem'[x] = mem[x]
  BY <1>1, <1>5, OpsAssumption
  DEF Holds, PartsInv, Copied, Staged, Disk, Memory, Running, Loaded
<1> QED
  BY <1>1, <1>2, <1>5, <1>6, <1>7, <1>4, StepKeepsIInv DEF Holds

LEMMA MoveNewKeepsIInv ==
  ASSUME IInv, NEW o \in Deploys, MoveNew(o) PROVE IInv'
<1>1. Holds(o, "moveNew")
  BY HoldsAtStep DEF MoveNew, Pass, Goto, Swapping, Undoing
<1>2. at' = [at EXCEPT ![o] = at'[o]] /\ at'[o] = "binary"
  BY <1>1, OpsAreDisjoint
  DEF MoveNew, Pass, Goto, Holds, Order, UpdateOrder, InstallOrder, ReleaseOrder, InstallersOnly, SourceOnly
<1>3. o \notin Releases
  BY <1>1, OpsAreDisjoint DEF Holds, SourceOnly
<1>4. /\ at'[o] \in {"clean"} \cup Swapping \cup (Undoing \ {"undoClean"})
      /\ o \in Updates => at'[o] \notin InstallersOnly
      /\ o \in Releases => at'[o] \notin SourceOnly
  BY <1>2, <1>3, OpsAreDisjoint DEF Swapping, Undoing, InstallersOnly, SourceOnly
<1>5. /\ disk' = [disk EXCEPT !.src = mem[o].goal]
      /\ UNCHANGED <<lock, before, killed, released, serving, mem>>
  BY <1>1 DEF MoveNew, Install, Keep, history, Holds
<1>6. PartsInv(o, at[o], mem[o])'
  <2> USE <1>1, <1>2, <1>5, <1>3, OpsAreDisjoint DEF Holds, PartsInv
  <2>1. Copied(o, mem[o])'
    BY DEF Copied, Staged, Old, OldServing, Memory
  <2>2. SrcInv(o, at[o], mem[o])'
    BY DEF SrcInv, Copied, Staged, Old, BeforeMove, SrcNew, SrcOld, LastUndone, Disk, Memory
  <2>3. BinInv(at[o], mem[o])' /\ UnitInv(o, at[o], mem[o])'
    BY DEF BinInv, UnitInv, Copied, Old, BinNew, SrcNew, UnitNew, BinOld, Undoing, UnitOld,
       LastUndone, Disk, Memory
  <2>4. CfgInv(o, at[o])' /\ EnabledInv(at[o])'
    BY DEF CfgInv, EnabledInv, Copied, Old, LastUndone, Disk, Memory
  <2>5. UserInv(o, at[o], mem[o])'
    BY DEF UserInv, Old, Disk, Memory
  <2>6. ServingInv(o, at[o], mem[o])'
    BY DEF ServingInv, Final, Loaded, Disk, Memory
  <2> QED BY <2>1, <2>2, <2>3, <2>4, <2>5, <2>6
<1>7. disk' \in Disk /\ serving' \in Running /\ mem' \in [Ops -> Memory]
      /\ \A x \in Ops : x # o => mem'[x] = mem[x]
  BY <1>1, <1>5, OpsAssumption
  DEF Holds, PartsInv, Copied, Staged, Disk, Memory, Running, Loaded
<1> QED
  BY <1>1, <1>2, <1>5, <1>6, <1>7, <1>4, StepKeepsIInv DEF Holds

LEMMA BinaryKeepsIInv ==
  ASSUME IInv, NEW o \in Deploys, Binary(o) PROVE IInv'
<1>1. Holds(o, "binary")
  BY HoldsAtStep DEF Binary, Pass, Goto, Swapping, Undoing
<1>2. at' = [at EXCEPT ![o] = at'[o]] /\ at'[o] = "unit"
  BY <1>1, OpsAreDisjoint
  DEF Binary, Pass, Goto, Holds, Order, UpdateOrder, InstallOrder, ReleaseOrder, InstallersOnly, SourceOnly
<1>3. /\ at'[o] \in {"clean"} \cup Swapping \cup (Undoing \ {"undoClean"})
      /\ o \in Updates => at'[o] \notin InstallersOnly
      /\ o \in Releases => at'[o] \notin SourceOnly
  BY <1>2, OpsAreDisjoint DEF Swapping, Undoing, InstallersOnly, SourceOnly
<1>4. /\ disk' = [disk EXCEPT !.bin = mem[o].goal]
      /\ UNCHANGED <<lock, before, killed, released, serving, mem>>
  BY <1>1 DEF Binary, Install, Keep, history, Holds
<1>5. PartsInv(o, at[o], mem[o])'
  BY <1>1, <1>2, <1>4, OpsAreDisjoint DEF Holds, PartsInv, Copied, Staged, SrcInv, BinInv, UnitInv, CfgInv,
     EnabledInv, UserInv, ServingInv, Old, OldServing, BeforeMove, SrcNew, BinNew, UnitNew,
     Final, LastUndone, BinOld, Undoing, UnitOld, SrcOld, Disk, Memory, Loaded
<1>6. disk' \in Disk /\ serving' \in Running /\ mem' \in [Ops -> Memory]
      /\ \A x \in Ops : x # o => mem'[x] = mem[x]
  BY <1>1, <1>4, OpsAssumption
  DEF Holds, PartsInv, Copied, Staged, Disk, Memory, Running, Loaded
<1> QED
  BY <1>1, <1>2, <1>4, <1>5, <1>6, <1>3, StepKeepsIInv DEF Holds

LEMMA UnitKeepsIInv ==
  ASSUME IInv, NEW o \in Deploys, Unit(o) PROVE IInv'
<1>1. Holds(o, "unit")
  BY HoldsAtStep DEF Unit, Pass, Goto, Swapping, Undoing
<1>2. at' = [at EXCEPT ![o] = at'[o]] /\ at'[o] = "enable"
  BY <1>1, OpsAreDisjoint
  DEF Unit, Pass, Goto, Holds, Order, UpdateOrder, InstallOrder, ReleaseOrder, InstallersOnly, SourceOnly
<1>3. /\ at'[o] \in {"clean"} \cup Swapping \cup (Undoing \ {"undoClean"})
      /\ o \in Updates => at'[o] \notin InstallersOnly
      /\ o \in Releases => at'[o] \notin SourceOnly
  BY <1>2, OpsAreDisjoint DEF Swapping, Undoing, InstallersOnly, SourceOnly
<1>4. /\ disk' = [disk EXCEPT !.unit = mem[o].goal]
      /\ UNCHANGED <<lock, before, killed, released, serving, mem>>
  BY <1>1 DEF Unit, Install, Keep, history, Holds
<1>5. PartsInv(o, at[o], mem[o])'
  BY <1>1, <1>2, <1>4, OpsAreDisjoint DEF Holds, PartsInv, Copied, Staged, SrcInv, BinInv, UnitInv, CfgInv,
     EnabledInv, UserInv, ServingInv, Old, OldServing, BeforeMove, SrcNew, BinNew, UnitNew,
     Final, LastUndone, BinOld, Undoing, UnitOld, SrcOld, Disk, Memory, Loaded
<1>6. disk' \in Disk /\ serving' \in Running /\ mem' \in [Ops -> Memory]
      /\ \A x \in Ops : x # o => mem'[x] = mem[x]
  BY <1>1, <1>4, OpsAssumption
  DEF Holds, PartsInv, Copied, Staged, Disk, Memory, Running, Loaded
<1> QED
  BY <1>1, <1>2, <1>4, <1>5, <1>6, <1>3, StepKeepsIInv DEF Holds

LEMMA EnableKeepsIInv ==
  ASSUME IInv, NEW o \in Deploys, Enable(o) PROVE IInv'
<1>1. Holds(o, "enable")
  BY HoldsAtStep DEF Enable, Pass, Goto, Swapping, Undoing
<1>2. at' = [at EXCEPT ![o] = at'[o]] /\ at'[o] = IF o \in Updates /\ ~mem[o].active THEN "commit" ELSE "start"
  BY <1>1, OpsAreDisjoint
  DEF Enable, Pass, Goto, Holds, Order, UpdateOrder, InstallOrder, ReleaseOrder, InstallersOnly, SourceOnly
<1>3. /\ at'[o] \in {"clean"} \cup Swapping \cup (Undoing \ {"undoClean"})
      /\ o \in Updates => at'[o] \notin InstallersOnly
      /\ o \in Releases => at'[o] \notin SourceOnly
  BY <1>2, OpsAreDisjoint DEF Swapping, Undoing, InstallersOnly, SourceOnly
<1>4. /\ disk' = [disk EXCEPT !.enabled = (o \in Installers \/ mem[o].enabled)]
      /\ UNCHANGED <<lock, before, killed, released, serving, mem>>
  BY <1>1 DEF Enable, Install, Keep, history, Holds
<1>5. PartsInv(o, at[o], mem[o])'
  BY <1>1, <1>2, <1>4, OpsAreDisjoint DEF Holds, PartsInv, Copied, Staged, SrcInv, BinInv, UnitInv, CfgInv,
     EnabledInv, UserInv, ServingInv, Old, OldServing, BeforeMove, SrcNew, BinNew, UnitNew,
     Final, LastUndone, BinOld, Undoing, UnitOld, SrcOld, Disk, Memory, Loaded
<1>6. disk' \in Disk /\ serving' \in Running /\ mem' \in [Ops -> Memory]
      /\ \A x \in Ops : x # o => mem'[x] = mem[x]
  BY <1>1, <1>4, OpsAssumption
  DEF Holds, PartsInv, Copied, Staged, Disk, Memory, Running, Loaded
<1> QED
  BY <1>1, <1>2, <1>4, <1>5, <1>6, <1>3, StepKeepsIInv DEF Holds

LEMMA StartKeepsIInv ==
  ASSUME IInv, NEW o \in Deploys, Start(o) PROVE IInv'
<1>1. Holds(o, "start")
  BY HoldsAtStep DEF Start, Pass, Goto, Swapping, Undoing
<1>2. at' = [at EXCEPT ![o] = at'[o]] /\ at'[o] = "health"
  BY <1>1, OpsAreDisjoint
  DEF Start, Pass, Goto, Holds, Order, UpdateOrder, InstallOrder, ReleaseOrder, InstallersOnly, SourceOnly
<1>3. /\ at'[o] \in {"clean"} \cup Swapping \cup (Undoing \ {"undoClean"})
      /\ o \in Updates => at'[o] \notin InstallersOnly
      /\ o \in Releases => at'[o] \notin SourceOnly
  BY <1>2, OpsAreDisjoint DEF Swapping, Undoing, InstallersOnly, SourceOnly
<1>4. /\ serving' = Loaded
      /\ UNCHANGED <<lock, before, killed, released, disk, mem>>
  BY <1>1 DEF Start, Install, Keep, history, Holds
<1>5. PartsInv(o, at[o], mem[o])'
  BY <1>1, <1>2, <1>4, OpsAreDisjoint DEF Holds, PartsInv, Copied, Staged, SrcInv, BinInv, UnitInv, CfgInv,
     EnabledInv, UserInv, ServingInv, Old, OldServing, BeforeMove, SrcNew, BinNew, UnitNew,
     Final, LastUndone, BinOld, Undoing, UnitOld, SrcOld, Disk, Memory, Loaded
<1>6. disk' \in Disk /\ serving' \in Running /\ mem' \in [Ops -> Memory]
      /\ \A x \in Ops : x # o => mem'[x] = mem[x]
  BY <1>1, <1>4, OpsAssumption
  DEF Holds, PartsInv, Copied, Staged, Disk, Memory, Running, Loaded
<1> QED
  BY <1>1, <1>2, <1>4, <1>5, <1>6, <1>3, StepKeepsIInv DEF Holds

LEMMA HealthKeepsIInv ==
  ASSUME IInv, NEW o \in Deploys, Health(o) PROVE IInv'
<1>1. Holds(o, "health")
  BY HoldsAtStep DEF Health, Pass, Goto, Swapping, Undoing
<1>2. at' = [at EXCEPT ![o] = at'[o]] /\ at'[o] = "commit"
  BY <1>1, OpsAreDisjoint
  DEF Health, Pass, Goto, Holds, Order, UpdateOrder, InstallOrder, ReleaseOrder, InstallersOnly, SourceOnly
<1>3. /\ at'[o] \in {"clean"} \cup Swapping \cup (Undoing \ {"undoClean"})
      /\ o \in Updates => at'[o] \notin InstallersOnly
      /\ o \in Releases => at'[o] \notin SourceOnly
  BY <1>2, OpsAreDisjoint DEF Swapping, Undoing, InstallersOnly, SourceOnly
<1>4. /\ serving \in Sound
      /\ UNCHANGED <<lock, before, killed, released, disk, serving, mem>>
  BY <1>1 DEF Health, Install, Keep, history, Holds, Healthy
<1>5. PartsInv(o, at[o], mem[o])'
  BY <1>1, <1>2, <1>4, OpsAreDisjoint DEF Holds, PartsInv, Copied, Staged, SrcInv, BinInv, UnitInv, CfgInv,
     EnabledInv, UserInv, ServingInv, Old, OldServing, BeforeMove, SrcNew, BinNew, UnitNew,
     Final, LastUndone, BinOld, Undoing, UnitOld, SrcOld, Disk, Memory, Loaded
<1>6. disk' \in Disk /\ serving' \in Running /\ mem' \in [Ops -> Memory]
      /\ \A x \in Ops : x # o => mem'[x] = mem[x]
  BY <1>1, <1>4, OpsAssumption
  DEF Holds, PartsInv, Copied, Staged, Disk, Memory, Running, Loaded
<1> QED
  BY <1>1, <1>2, <1>4, <1>5, <1>6, <1>3, StepKeepsIInv DEF Holds

LEMMA CommitKeepsIInv ==
  ASSUME IInv, NEW o \in Deploys, Commit(o) PROVE IInv'
<1>1. Holds(o, "commit")
  BY HoldsAtStep DEF Commit, Pass, Goto, Swapping, Undoing
<1>2. at' = [at EXCEPT ![o] = at'[o]] /\ at'[o] = "clean"
  BY <1>1, OpsAreDisjoint
  DEF Commit, Pass, Goto, Holds, Order, UpdateOrder, InstallOrder, ReleaseOrder, InstallersOnly, SourceOnly
<1>3. /\ at'[o] \in {"clean"} \cup Swapping \cup (Undoing \ {"undoClean"})
      /\ o \in Updates => at'[o] \notin InstallersOnly
      /\ o \in Releases => at'[o] \notin SourceOnly
  BY <1>2, OpsAreDisjoint DEF Swapping, Undoing, InstallersOnly, SourceOnly
<1>4. /\ killed' = FALSE /\ released' = (o \in Releases)
      /\ UNCHANGED <<lock, before, disk, serving, mem>>
  BY <1>1 DEF Commit, Install, Keep, history, Holds
<1>5. PartsInv(o, at[o], mem[o])'
  BY <1>1, <1>2, <1>4, OpsAreDisjoint DEF Holds, PartsInv, Copied, Staged, SrcInv, BinInv, UnitInv, CfgInv,
     EnabledInv, UserInv, ServingInv, Old, OldServing, BeforeMove, SrcNew, BinNew, UnitNew,
     Final, LastUndone, BinOld, Undoing, UnitOld, SrcOld, Disk, Memory, Loaded
<1>6. disk' \in Disk /\ serving' \in Running /\ mem' \in [Ops -> Memory]
      /\ \A x \in Ops : x # o => mem'[x] = mem[x]
  BY <1>1, <1>4, OpsAssumption
  DEF Holds, PartsInv, Copied, Staged, Disk, Memory, Running, Loaded
<1> QED
  BY <1>1, <1>2, <1>4, <1>5, <1>6, <1>3, StepKeepsIInv DEF Holds

LEMMA UndoStopKeepsIInv ==
  ASSUME IInv, NEW o \in Deploys, UndoStop(o) PROVE IInv'
<1>1. Holds(o, "undoStop")
  BY HoldsAtStep DEF UndoStop, Pass, Goto, Swapping, Undoing
<1>2. at' = [at EXCEPT ![o] = at'[o]] /\ at'[o] = "undoBinary"
  BY <1>1, OpsAreDisjoint
  DEF UndoStop, Pass, Goto, Holds, Order, UpdateOrder, InstallOrder, ReleaseOrder, InstallersOnly, SourceOnly
<1>3. /\ at'[o] \in {"clean"} \cup Swapping \cup (Undoing \ {"undoClean"})
      /\ o \in Updates => at'[o] \notin InstallersOnly
      /\ o \in Releases => at'[o] \notin SourceOnly
  BY <1>2, OpsAreDisjoint DEF Swapping, Undoing, InstallersOnly, SourceOnly
<1>4. /\ serving' = None
      /\ UNCHANGED <<lock, before, killed, released, disk, mem>>
  BY <1>1 DEF UndoStop, Install, Keep, history, Holds
<1>5. PartsInv(o, at[o], mem[o])'
  BY <1>1, <1>2, <1>4, OpsAreDisjoint DEF Holds, PartsInv, Copied, Staged, SrcInv, BinInv, UnitInv, CfgInv,
     EnabledInv, UserInv, ServingInv, Old, OldServing, BeforeMove, SrcNew, BinNew, UnitNew,
     Final, LastUndone, BinOld, Undoing, UnitOld, SrcOld, Disk, Memory, Loaded
<1>6. disk' \in Disk /\ serving' \in Running /\ mem' \in [Ops -> Memory]
      /\ \A x \in Ops : x # o => mem'[x] = mem[x]
  BY <1>1, <1>4, OpsAssumption
  DEF Holds, PartsInv, Copied, Staged, Disk, Memory, Running, Loaded
<1> QED
  BY <1>1, <1>2, <1>4, <1>5, <1>6, <1>3, StepKeepsIInv DEF Holds

LEMMA UndoBinaryKeepsIInv ==
  ASSUME IInv, NEW o \in Deploys, UndoBinary(o) PROVE IInv'
<1>1. Holds(o, "undoBinary")
  BY HoldsAtStep DEF UndoBinary, Pass, Goto, Swapping, Undoing
<1>2. at' = [at EXCEPT ![o] = at'[o]] /\ at'[o] = IF o \in Installs THEN "undoSource" ELSE "undoUnit"
  BY <1>1, OpsAreDisjoint
  DEF UndoBinary, Pass, Goto, Holds, Order, UpdateOrder, InstallOrder, ReleaseOrder, InstallersOnly, SourceOnly
<1>3. /\ at'[o] \in {"clean"} \cup Swapping \cup (Undoing \ {"undoClean"})
      /\ o \in Updates => at'[o] \notin InstallersOnly
      /\ o \in Releases => at'[o] \notin SourceOnly
  BY <1>2, OpsAreDisjoint DEF Swapping, Undoing, InstallersOnly, SourceOnly
<1>4. /\ disk' = [disk EXCEPT !.bin = mem[o].bin]
      /\ UNCHANGED <<lock, before, killed, released, serving, mem>>
  BY <1>1 DEF UndoBinary, Install, Keep, history, Holds
<1>5. PartsInv(o, at[o], mem[o])'
  BY <1>1, <1>2, <1>4, OpsAreDisjoint DEF Holds, PartsInv, Copied, Staged, SrcInv, BinInv, UnitInv, CfgInv,
     EnabledInv, UserInv, ServingInv, Old, OldServing, BeforeMove, SrcNew, BinNew, UnitNew,
     Final, LastUndone, BinOld, Undoing, UnitOld, SrcOld, Disk, Memory, Loaded
<1>6. disk' \in Disk /\ serving' \in Running /\ mem' \in [Ops -> Memory]
      /\ \A x \in Ops : x # o => mem'[x] = mem[x]
  BY <1>1, <1>4, OpsAssumption
  DEF Holds, PartsInv, Copied, Staged, Disk, Memory, Running, Loaded
<1> QED
  BY <1>1, <1>2, <1>4, <1>5, <1>6, <1>3, StepKeepsIInv DEF Holds

LEMMA UndoUnitKeepsIInv ==
  ASSUME IInv, NEW o \in Deploys, UndoUnit(o) PROVE IInv'
<1>1. Holds(o, "undoUnit")
  BY HoldsAtStep DEF UndoUnit, Pass, Goto, Swapping, Undoing
<1>2. at' = [at EXCEPT ![o] = at'[o]] /\ at'[o] = IF o \in Updates THEN "undoSource" ELSE "undoRemove"
  BY <1>1, OpsAreDisjoint
  DEF UndoUnit, Pass, Goto, Holds, Order, UpdateOrder, InstallOrder, ReleaseOrder, InstallersOnly, SourceOnly
<1>3. /\ at'[o] \in {"clean"} \cup Swapping \cup (Undoing \ {"undoClean"})
      /\ o \in Updates => at'[o] \notin InstallersOnly
      /\ o \in Releases => at'[o] \notin SourceOnly
  BY <1>2, OpsAreDisjoint DEF Swapping, Undoing, InstallersOnly, SourceOnly
<1>4. /\ disk' = [disk EXCEPT !.unit = mem[o].unit, !.enabled = @ /\ mem[o].unit # None]
      /\ UNCHANGED <<lock, before, killed, released, serving, mem>>
  BY <1>1 DEF UndoUnit, Install, Keep, history, Holds
<1>5. PartsInv(o, at[o], mem[o])'
  BY <1>1, <1>2, <1>4, OpsAreDisjoint DEF Holds, PartsInv, Copied, Staged, SrcInv, BinInv, UnitInv, CfgInv,
     EnabledInv, UserInv, ServingInv, Old, OldServing, BeforeMove, SrcNew, BinNew, UnitNew,
     Final, LastUndone, BinOld, Undoing, UnitOld, SrcOld, Disk, Memory, Loaded
<1>6. disk' \in Disk /\ serving' \in Running /\ mem' \in [Ops -> Memory]
      /\ \A x \in Ops : x # o => mem'[x] = mem[x]
  BY <1>1, <1>4, OpsAssumption
  DEF Holds, PartsInv, Copied, Staged, Disk, Memory, Running, Loaded
<1> QED
  BY <1>1, <1>2, <1>4, <1>5, <1>6, <1>3, StepKeepsIInv DEF Holds

LEMMA UndoSourceKeepsIInv ==
  ASSUME IInv, NEW o \in Deploys, UndoSource(o) PROVE IInv'
<1>1. Holds(o, "undoSource")
  BY HoldsAtStep DEF UndoSource, Pass, Goto, Swapping, Undoing
<1>2. at' = [at EXCEPT ![o] = at'[o]] /\ at'[o] = "undoMove"
  BY <1>1, OpsAreDisjoint
  DEF UndoSource, Pass, Goto, Holds, Order, UpdateOrder, InstallOrder, ReleaseOrder, InstallersOnly, SourceOnly
<1>3. o \notin Releases
  BY <1>1, OpsAreDisjoint DEF Holds, SourceOnly
<1>4. /\ at'[o] \in {"clean"} \cup Swapping \cup (Undoing \ {"undoClean"})
      /\ o \in Updates => at'[o] \notin InstallersOnly
      /\ o \in Releases => at'[o] \notin SourceOnly
  BY <1>2, <1>3, OpsAreDisjoint DEF Swapping, Undoing, InstallersOnly, SourceOnly
<1>5. /\ disk' = IF mem[o].oldSrc # None \/ ~mem[o].present THEN [disk EXCEPT !.src = None] ELSE disk
      /\ UNCHANGED <<lock, before, killed, released, serving, mem>>
  BY <1>1 DEF UndoSource, Install, Keep, history, Holds
<1>6. PartsInv(o, at[o], mem[o])'
  <2> USE <1>1, <1>2, <1>5, <1>3, OpsAreDisjoint DEF Holds, PartsInv
  <2>1. Copied(o, mem[o])'
    BY DEF Copied, Staged, Old, OldServing, Memory
  <2>2. SrcInv(o, at[o], mem[o])'
    BY DEF SrcInv, Copied, Staged, Old, BeforeMove, SrcNew, SrcOld, LastUndone, Disk, Memory
  <2>3. BinInv(at[o], mem[o])' /\ UnitInv(o, at[o], mem[o])'
    BY DEF BinInv, UnitInv, Copied, Old, BinNew, SrcNew, UnitNew, BinOld, Undoing, UnitOld,
       LastUndone, Disk, Memory
  <2>4. CfgInv(o, at[o])' /\ EnabledInv(at[o])'
    BY DEF CfgInv, EnabledInv, Copied, Old, LastUndone, Disk, Memory
  <2>5. UserInv(o, at[o], mem[o])'
    BY DEF UserInv, Old, Disk, Memory
  <2>6. ServingInv(o, at[o], mem[o])'
    BY DEF ServingInv, Final, Loaded, Disk, Memory
  <2> QED BY <2>1, <2>2, <2>3, <2>4, <2>5, <2>6
<1>7. disk' \in Disk /\ serving' \in Running /\ mem' \in [Ops -> Memory]
      /\ \A x \in Ops : x # o => mem'[x] = mem[x]
  BY <1>1, <1>5, OpsAssumption
  DEF Holds, PartsInv, Copied, Staged, Disk, Memory, Running, Loaded
<1> QED
  BY <1>1, <1>2, <1>5, <1>6, <1>7, <1>4, StepKeepsIInv DEF Holds

LEMMA UndoMoveKeepsIInv ==
  ASSUME IInv, NEW o \in Deploys, UndoMove(o) PROVE IInv'
<1>1. Holds(o, "undoMove")
  BY HoldsAtStep DEF UndoMove, Pass, Goto, Swapping, Undoing
<1>2. at' = [at EXCEPT ![o] = at'[o]] /\ at'[o] = IF o \in Updates THEN "undoEnable" ELSE "undoUnit"
  BY <1>1, OpsAreDisjoint
  DEF UndoMove, Pass, Goto, Holds, Order, UpdateOrder, InstallOrder, ReleaseOrder, InstallersOnly, SourceOnly
<1>3. o \notin Releases
  BY <1>1, OpsAreDisjoint DEF Holds, SourceOnly
<1>4. /\ at'[o] \in {"clean"} \cup Swapping \cup (Undoing \ {"undoClean"})
      /\ o \in Updates => at'[o] \notin InstallersOnly
      /\ o \in Releases => at'[o] \notin SourceOnly
  BY <1>2, <1>3, OpsAreDisjoint DEF Swapping, Undoing, InstallersOnly, SourceOnly
<1>5. /\ disk' = IF mem[o].oldSrc # None THEN [disk EXCEPT !.src = mem[o].oldSrc] ELSE disk
      /\ mem' = [mem EXCEPT ![o] = [mem[o] EXCEPT !.oldSrc = None]] /\ mem'[o] = [mem[o] EXCEPT !.oldSrc = None]
      /\ UNCHANGED <<lock, before, killed, released, serving>>
  BY <1>1 DEF UndoMove, Install, Keep, history, Holds
<1>6. PartsInv(o, at[o], mem[o])'
  <2> USE <1>1, <1>2, <1>5, <1>3, OpsAreDisjoint DEF Holds, PartsInv
  <2>1. Copied(o, mem[o])'
    BY DEF Copied, Staged, Old, OldServing, Memory
  <2>2. SrcInv(o, at[o], mem[o])'
    BY DEF SrcInv, Copied, Staged, Old, BeforeMove, SrcNew, SrcOld, LastUndone, Disk, Memory
  <2>3. BinInv(at[o], mem[o])' /\ UnitInv(o, at[o], mem[o])'
    BY DEF BinInv, UnitInv, Copied, Old, BinNew, SrcNew, UnitNew, BinOld, Undoing, UnitOld,
       LastUndone, Disk, Memory
  <2>4. CfgInv(o, at[o])' /\ EnabledInv(at[o])'
    BY DEF CfgInv, EnabledInv, Copied, Old, LastUndone, Disk, Memory
  <2>5. UserInv(o, at[o], mem[o])'
    BY DEF UserInv, Old, Disk, Memory
  <2>6. ServingInv(o, at[o], mem[o])'
    BY DEF ServingInv, Final, Loaded, Disk, Memory
  <2> QED BY <2>1, <2>2, <2>3, <2>4, <2>5, <2>6
<1>7. disk' \in Disk /\ serving' \in Running /\ mem' \in [Ops -> Memory]
      /\ \A x \in Ops : x # o => mem'[x] = mem[x]
  BY <1>1, <1>5, OpsAssumption
  DEF Holds, PartsInv, Copied, Staged, Disk, Memory, Running, Loaded
<1> QED
  BY <1>1, <1>2, <1>5, <1>6, <1>7, <1>4, StepKeepsIInv DEF Holds

LEMMA UndoRemoveKeepsIInv ==
  ASSUME IInv, NEW o \in Deploys, UndoRemove(o) PROVE IInv'
<1>1. Holds(o, "undoRemove")
  BY HoldsAtStep DEF UndoRemove, Pass, Goto, Swapping, Undoing
<1>2. at' = [at EXCEPT ![o] = at'[o]] /\ at'[o] = "undoCopy"
  BY <1>1, OpsAreDisjoint
  DEF UndoRemove, Pass, Goto, Holds, Order, UpdateOrder, InstallOrder, ReleaseOrder, InstallersOnly, SourceOnly
<1>3. o \in Installers /\ o \notin Updates
  BY <1>1, OpsAreDisjoint DEF Holds, InstallersOnly
<1>4. /\ at'[o] \in {"clean"} \cup Swapping \cup (Undoing \ {"undoClean"})
      /\ o \in Updates => at'[o] \notin InstallersOnly
      /\ o \in Releases => at'[o] \notin SourceOnly
  BY <1>2, <1>3, OpsAreDisjoint DEF Swapping, Undoing, InstallersOnly, SourceOnly
<1>5. /\ disk' = [disk EXCEPT !.cfg = None]
      /\ UNCHANGED <<lock, before, killed, released, serving, mem>>
  BY <1>1 DEF UndoRemove, Install, Keep, history, Holds
<1>6. PartsInv(o, at[o], mem[o])'
  <2> USE <1>1, <1>2, <1>5, <1>3, OpsAreDisjoint DEF Holds, PartsInv
  <2>1. Copied(o, mem[o])'
    BY DEF Copied, Staged, Old, OldServing, Memory
  <2>2. SrcInv(o, at[o], mem[o])'
    BY DEF SrcInv, Copied, Staged, Old, BeforeMove, SrcNew, SrcOld, LastUndone, Disk, Memory
  <2>3. BinInv(at[o], mem[o])' /\ UnitInv(o, at[o], mem[o])'
    BY DEF BinInv, UnitInv, Copied, Old, BinNew, SrcNew, UnitNew, BinOld, Undoing, UnitOld,
       LastUndone, Disk, Memory
  <2>4. CfgInv(o, at[o])' /\ EnabledInv(at[o])'
    BY DEF CfgInv, EnabledInv, Copied, Old, LastUndone, Disk, Memory
  <2>5. UserInv(o, at[o], mem[o])'
    BY DEF UserInv, Old, Disk, Memory
  <2>6. ServingInv(o, at[o], mem[o])'
    BY DEF ServingInv, Final, Loaded, Disk, Memory
  <2> QED BY <2>1, <2>2, <2>3, <2>4, <2>5, <2>6
<1>7. disk' \in Disk /\ serving' \in Running /\ mem' \in [Ops -> Memory]
      /\ \A x \in Ops : x # o => mem'[x] = mem[x]
  BY <1>1, <1>5, OpsAssumption
  DEF Holds, PartsInv, Copied, Staged, Disk, Memory, Running, Loaded
<1> QED
  BY <1>1, <1>2, <1>5, <1>6, <1>7, <1>4, StepKeepsIInv DEF Holds

LEMMA UndoCopyKeepsIInv ==
  ASSUME IInv, NEW o \in Deploys, UndoCopy(o) PROVE IInv'
<1>1. Holds(o, "undoCopy")
  BY HoldsAtStep DEF UndoCopy, Pass, Goto, Swapping, Undoing
<1>2. at' = [at EXCEPT ![o] = at'[o]] /\ at'[o] = "undoEnable"
  BY <1>1, OpsAreDisjoint
  DEF UndoCopy, Pass, Goto, Holds, Order, UpdateOrder, InstallOrder, ReleaseOrder, InstallersOnly, SourceOnly
<1>3. o \in Installers /\ o \notin Updates
  BY <1>1, OpsAreDisjoint DEF Holds, InstallersOnly
<1>4. /\ at'[o] \in {"clean"} \cup Swapping \cup (Undoing \ {"undoClean"})
      /\ o \in Updates => at'[o] \notin InstallersOnly
      /\ o \in Releases => at'[o] \notin SourceOnly
  BY <1>2, <1>3, OpsAreDisjoint DEF Swapping, Undoing, InstallersOnly, SourceOnly
<1>5. /\ disk' = [disk EXCEPT !.cfg = mem[o].cfg]
      /\ UNCHANGED <<lock, before, killed, released, serving, mem>>
  BY <1>1 DEF UndoCopy, Install, Keep, history, Holds
<1>6. PartsInv(o, at[o], mem[o])'
  <2> USE <1>1, <1>2, <1>5, <1>3, OpsAreDisjoint DEF Holds, PartsInv
  <2>1. Copied(o, mem[o])'
    BY DEF Copied, Staged, Old, OldServing, Memory
  <2>2. SrcInv(o, at[o], mem[o])'
    BY DEF SrcInv, Copied, Staged, Old, BeforeMove, SrcNew, SrcOld, LastUndone, Disk, Memory
  <2>3. BinInv(at[o], mem[o])' /\ UnitInv(o, at[o], mem[o])'
    BY DEF BinInv, UnitInv, Copied, Old, BinNew, SrcNew, UnitNew, BinOld, Undoing, UnitOld,
       LastUndone, Disk, Memory
  <2>4. CfgInv(o, at[o])' /\ EnabledInv(at[o])'
    BY DEF CfgInv, EnabledInv, Copied, Old, LastUndone, Disk, Memory
  <2>5. UserInv(o, at[o], mem[o])'
    BY DEF UserInv, Old, Disk, Memory
  <2>6. ServingInv(o, at[o], mem[o])'
    BY DEF ServingInv, Final, Loaded, Disk, Memory
  <2> QED BY <2>1, <2>2, <2>3, <2>4, <2>5, <2>6
<1>7. disk' \in Disk /\ serving' \in Running /\ mem' \in [Ops -> Memory]
      /\ \A x \in Ops : x # o => mem'[x] = mem[x]
  BY <1>1, <1>5, OpsAssumption
  DEF Holds, PartsInv, Copied, Staged, Disk, Memory, Running, Loaded
<1> QED
  BY <1>1, <1>2, <1>5, <1>6, <1>7, <1>4, StepKeepsIInv DEF Holds

LEMMA UndoEnableKeepsIInv ==
  ASSUME IInv, NEW o \in Deploys, UndoEnable(o) PROVE IInv'
<1>1. Holds(o, "undoEnable")
  BY HoldsAtStep DEF UndoEnable, Pass, Goto, Swapping, Undoing
<1>2. at' = [at EXCEPT ![o] = at'[o]] /\ at'[o] = "undoStart"
  BY <1>1, OpsAreDisjoint
  DEF UndoEnable, Pass, Goto, Holds, Order, UpdateOrder, InstallOrder, ReleaseOrder, InstallersOnly, SourceOnly
<1>3. /\ at'[o] \in {"clean"} \cup Swapping \cup (Undoing \ {"undoClean"})
      /\ o \in Updates => at'[o] \notin InstallersOnly
      /\ o \in Releases => at'[o] \notin SourceOnly
  BY <1>2, OpsAreDisjoint DEF Swapping, Undoing, InstallersOnly, SourceOnly
<1>4. /\ disk' = [disk EXCEPT !.enabled = mem[o].enabled]
      /\ UNCHANGED <<lock, before, killed, released, serving, mem>>
  BY <1>1 DEF UndoEnable, Install, Keep, history, Holds
<1>5. PartsInv(o, at[o], mem[o])'
  BY <1>1, <1>2, <1>4, OpsAreDisjoint DEF Holds, PartsInv, Copied, Staged, SrcInv, BinInv, UnitInv, CfgInv,
     EnabledInv, UserInv, ServingInv, Old, OldServing, BeforeMove, SrcNew, BinNew, UnitNew,
     Final, LastUndone, BinOld, Undoing, UnitOld, SrcOld, Disk, Memory, Loaded
<1>6. disk' \in Disk /\ serving' \in Running /\ mem' \in [Ops -> Memory]
      /\ \A x \in Ops : x # o => mem'[x] = mem[x]
  BY <1>1, <1>4, OpsAssumption
  DEF Holds, PartsInv, Copied, Staged, Disk, Memory, Running, Loaded
<1> QED
  BY <1>1, <1>2, <1>4, <1>5, <1>6, <1>3, StepKeepsIInv DEF Holds

-----------------------------------------------------------------------------
(* Into the rollback, and out of it *)

\* The copies are complete, and nothing has been replaced yet.
LEMMA BackupKeepsIInv ==
  ASSUME IInv, NEW o \in Deploys, Backup(o) PROVE IInv'
<1>1. at[o] = "backup" /\ at[o] \in Deploying
  BY DEF Backup, Pass, Goto, Deploying
<1>2. lock = o /\ o \in Ops /\ TypeOK /\ DeployInv(o) /\ disk \in Disk /\ mem[o] \in Memory
  BY <1>1, Holding
<1>3. Untouched /\ Staged(mem[o]) /\ mem[o].oldSrc = None /\ ~mem[o].created
  BY <1>1, <1>2 DEF DeployInv
<1>4. /\ at' = [at EXCEPT ![o] = at'[o]] /\ at'[o] = IF o \in Updates THEN "stop" ELSE "user"
  BY <1>1, <1>2, OpsAreDisjoint
  DEF Backup, Pass, Goto, TypeOK, Order, UpdateOrder, InstallOrder, ReleaseOrder
<1> DEFINE m == [mem[o] EXCEPT !.bin = disk.bin, !.unit = disk.unit,
                               !.cfg = IF o \in Installers THEN disk.cfg ELSE None]
<1>5. mem' = [mem EXCEPT ![o] = m] /\ mem'[o] = m /\ m \in Memory
  BY <1>2 DEF Backup, TypeOK, Disk, Memory
<1>6. /\ m.bin = Old.bin /\ m.unit = Old.unit /\ (o \in Installers => m.cfg = Old.cfg)
      /\ Staged(m) /\ m.oldSrc = None /\ ~m.created
  BY <1>2, <1>3 DEF Memory, Untouched, Old, Staged
<1> HIDE DEF m
<1>7. UNCHANGED <<disk, serving, lock, before, killed, released>>
  BY DEF Backup, history
<1>8. PartsInv(o, at[o], mem[o])'
  BY <1>2, <1>3, <1>4, <1>5, <1>6, <1>7, OpsAreDisjoint
  DEF PartsInv, Copied, Staged, SrcInv, BinInv, UnitInv, CfgInv, EnabledInv, UserInv,
      ServingInv, Old, OldServing, Untouched, BeforeMove, SrcNew, BinNew, UnitNew, Final,
      LastUndone, BinOld, Undoing, UnitOld, SrcOld, Disk
<1>9. /\ at'[o] \in {"clean"} \cup Swapping \cup (Undoing \ {"undoClean"})
      /\ o \in Updates => at'[o] \notin InstallersOnly
      /\ o \in Releases => at'[o] \notin SourceOnly
  BY <1>4, OpsAreDisjoint DEF Swapping, Undoing, InstallersOnly, SourceOnly
<1>10. mem' \in [Ops -> Memory] /\ \A x \in Ops : x # o => mem'[x] = mem[x]
  BY <1>2, <1>5 DEF TypeOK
<1> QED BY <1>1, <1>2, <1>4, <1>7, <1>8, <1>9, <1>10, StepKeepsIInv DEF TypeOK

LEMMA StopsKeepsIInv ==
  ASSUME IInv, NEW o \in Deploys, Stops(o) PROVE IInv'
<1>1. UNCHANGED <<disk, serving, lock, mem, before, killed, released>>
  BY DEF Stops, history
<1>2. TypeOK
  BY DEF IInv
<1>3. CASE at[o] \in Swapping /\ Goto(o, at[o], "undoStop")
  <2>1. Holds(o, at[o])
    BY <1>3, HoldsAtStep
  <2>2. at' = [at EXCEPT ![o] = "undoStop"] /\ at'[o] = "undoStop"
    BY <1>3, <2>1 DEF Goto, Holds
  <2>3. PartsInv(o, at[o], mem[o])'
    <3> USE <1>1, <1>3, <2>1, <2>2, OpsAreDisjoint DEF Holds, PartsInv
    <3>1. Copied(o, mem[o])' /\ SrcInv(o, at[o], mem[o])'
      BY DEF Copied, Staged, SrcInv, Old, OldServing, BeforeMove, SrcNew, SrcOld, LastUndone,
         Swapping
    <3>2. BinInv(at[o], mem[o])' /\ UnitInv(o, at[o], mem[o])' /\ CfgInv(o, at[o])'
      BY DEF BinInv, UnitInv, CfgInv, BinNew, SrcNew, UnitNew, BinOld, UnitOld, LastUndone, Old
    <3>3. EnabledInv(at[o])' /\ UserInv(o, at[o], mem[o])' /\ ServingInv(o, at[o], mem[o])'
      BY DEF EnabledInv, UserInv, ServingInv, Final, Old
    <3> QED BY <3>1, <3>2, <3>3
  <2>4. mem' \in [Ops -> Memory] /\ \A x \in Ops : x # o => mem'[x] = mem[x]
    BY <1>1, <1>2 DEF TypeOK
  <2> QED
    BY <1>1, <2>1, <2>2, <2>3, <2>4, StepKeepsIInv
    DEF Holds, Undoing, InstallersOnly, SourceOnly
<1>4. CASE at[o] \in {"stage", "backup"} /\ Goto(o, at[o], "undoClean")
  <2>1. at[o] \in Deploying /\ lock = o /\ o \in Ops /\ DeployInv(o)
    BY <1>4, Holding DEF Deploying
  <2>2. at' = [at EXCEPT ![o] = "undoClean"] /\ at'[o] = "undoClean"
    BY <1>2, <1>4, <2>1 DEF Goto, TypeOK
  <2>3. RolledBack(o, mem[o])'
    BY <1>1, <1>4, <2>1 DEF DeployInv, Untouched, RolledBack, Old, OldServing
  <2>4. mem' \in [Ops -> Memory] /\ \A x \in Ops : x # o => mem'[x] = mem[x]
    BY <1>1, <1>2 DEF TypeOK
  <2> QED
    BY <1>1, <1>2, <2>1, <2>2, <2>3, <2>4, StepKeepsIInv
    DEF TypeOK, Undoing, InstallersOnly, SourceOnly
<1> QED BY <1>3, <1>4 DEF Stops

\* Everything is back by the time the service is started again, but maybe the account.
LEMMA PartsAreBack ==
  ASSUME NEW o \in Deploys, Holds(o, at[o]), at[o] \in {"undoStart", "undoUser"}
  PROVE  /\ disk.src = Old.src /\ disk.bin = Old.bin /\ disk.unit = Old.unit
         /\ disk.cfg = Old.cfg /\ disk.enabled = Old.enabled
BY OpsAreDisjoint
DEF Holds, PartsInv, SrcInv, BinInv, UnitInv, CfgInv, EnabledInv, BinOld, UnitOld, SrcOld,
    LastUndone, Undoing

LEMMA UndoStartKeepsIInv ==
  ASSUME IInv, NEW o \in Deploys, UndoStart(o) PROVE IInv'
<1>1. Holds(o, "undoStart")
  BY HoldsAtStep DEF UndoStart, Pass, Goto, Swapping, Undoing
<1>2. at' = [at EXCEPT ![o] = at'[o]]
      /\ at'[o] = IF o \in Updates THEN "undoClean" ELSE "undoUser"
  BY <1>1, OpsAreDisjoint
  DEF UndoStart, Pass, Goto, Holds, Order, UpdateOrder, InstallOrder, ReleaseOrder
<1>3. /\ serving' = IF mem[o].active THEN Loaded ELSE None
      /\ UNCHANGED <<disk, lock, mem, before, killed, released>>
  BY DEF UndoStart, history
<1>4. ASSUME o \in Updates PROVE RolledBack(o, mem[o])'
  <2>1. disk.user = Old.user /\ mem[o].active = (OldServing # None)
    BY <1>1, <1>4 DEF Holds, PartsInv, Copied, Staged, UserInv
  <2>2. disk = Old
    BY <1>1, <2>1, PartsAreBack, DiskIsItsParts DEF Holds
  <2>3. serving' = IF OldServing = None THEN None ELSE <<Old.bin, Old.cfg>>
    BY <1>3, <2>1, <2>2 DEF Loaded
  <2> QED BY <1>3, <2>2, <2>3 DEF RolledBack, Old, OldServing
<1>5. ASSUME o \notin Updates PROVE PartsInv(o, at[o], mem[o])'
  BY <1>1, <1>2, <1>3, <1>5, OpsAreDisjoint
  DEF Holds, PartsInv, Copied, Staged, SrcInv, BinInv, UnitInv, CfgInv, EnabledInv, UserInv,
      ServingInv, Old, OldServing, BeforeMove, SrcNew, BinNew, UnitNew, Final, LastUndone,
      BinOld, Undoing, UnitOld, SrcOld, Loaded
<1>6. serving' \in Running /\ mem' \in [Ops -> Memory] /\ \A x \in Ops : x # o => mem'[x] = mem[x]
  BY <1>1, <1>3 DEF Holds, Running, Loaded, Disk
<1> QED
  BY <1>1, <1>2, <1>3, <1>4, <1>5, <1>6, StepKeepsIInv
  DEF Holds, Undoing, InstallersOnly, SourceOnly

LEMMA UndoUserKeepsIInv ==
  ASSUME IInv, NEW o \in Deploys, UndoUser(o) PROVE IInv'
<1>1. Holds(o, "undoUser")
  BY HoldsAtStep DEF UndoUser, Pass, Goto, Swapping, Undoing
<1>2. o \in Installers /\ o \notin Updates
  BY <1>1, OpsAreDisjoint DEF Holds, InstallersOnly
<1>3. at' = [at EXCEPT ![o] = "undoClean"] /\ at'[o] = "undoClean"
  BY <1>1, <1>2, OpsAreDisjoint
  DEF UndoUser, Pass, Goto, Holds, Order, InstallOrder, ReleaseOrder
<1>4. /\ disk' = [disk EXCEPT !.user = disk.user /\ ~mem[o].created]
      /\ UNCHANGED <<serving, lock, mem, before, killed, released>>
  BY DEF UndoUser, Install, history
<1>5. /\ disk.src = Old.src /\ disk.bin = Old.bin /\ disk.unit = Old.unit
      /\ disk.cfg = Old.cfg /\ disk.enabled = Old.enabled
  BY <1>1, PartsAreBack DEF Holds
<1>6. disk' \in Disk
  BY <1>1, <1>4 DEF Holds, Disk
<1>7. RolledBack(o, mem[o])'
  <2>1. /\ mem[o].active = (OldServing # None)
        /\ serving = IF mem[o].active THEN Loaded ELSE None
        /\ Old.user => disk.user
        /\ mem[o].created => ~Old.user
    BY <1>1 DEF Holds, PartsInv, Copied, Staged, UserInv, ServingInv
  <2>2. serving = IF OldServing = None THEN None ELSE <<Old.bin, Old.cfg>>
    BY <1>5, <2>1 DEF Loaded
  <2>3. CASE mem[o].created \/ disk.user = Old.user
    <3>1. disk'.user = Old.user
      BY <1>1, <1>4, <2>1, <2>3 DEF Holds, Disk, Memory
    <3>2. disk' = Old
      BY <1>1, <1>4, <1>5, <1>6, <3>1, DiskIsItsParts DEF Holds, Disk
    <3> QED BY <1>4, <2>2, <3>2 DEF RolledBack, Old, OldServing
  <2>4. CASE ~mem[o].created /\ disk.user # Old.user
    <3>1. disk.user = TRUE
      BY <1>1, <2>1, <2>4 DEF Holds, Disk
    <3>2. disk'.user = TRUE
      BY <1>1, <1>4, <2>4, <3>1 DEF Holds, Disk, Memory
    <3>3. disk' = [Old EXCEPT !.user = TRUE]
      <4> DEFINE d == [Old EXCEPT !.user = TRUE]
      <4>1. d \in Disk /\ d.src = Old.src /\ d.bin = Old.bin /\ d.unit = Old.unit
            /\ d.cfg = Old.cfg /\ d.enabled = Old.enabled /\ d.user = TRUE
        BY <1>1 DEF Holds, Disk
      <4>2. disk'.src = disk.src /\ disk'.bin = disk.bin /\ disk'.unit = disk.unit
            /\ disk'.cfg = disk.cfg /\ disk'.enabled = disk.enabled
        BY <1>1, <1>4 DEF Holds, Disk
      <4> HIDE DEF d
      <4>3. disk' = d
        BY <1>5, <1>6, <3>2, <4>1, <4>2, DiskIsItsParts
      <4> QED BY <4>3 DEF d
    <3> QED BY <1>2, <1>4, <2>2, <2>4, <3>3 DEF RolledBack, Old, OldServing
  <2> QED BY <2>3, <2>4
<1>8. mem' \in [Ops -> Memory] /\ \A x \in Ops : x # o => mem'[x] = mem[x]
  BY <1>1, <1>4 DEF Holds
<1> QED
  BY <1>1, <1>3, <1>4, <1>6, <1>7, <1>8, StepKeepsIInv
  DEF Holds, Undoing, InstallersOnly, SourceOnly

-----------------------------------------------------------------------------
(* The lock is given back, or taken *)

LEMMA LockReturned ==
  ASSUME IInv, NEW o \in Ops, at[o] # "idle", Exit(o, at[o]), serving' \in Running,
         killed' \in BOOLEAN,
         ~killed' => /\ Whole(disk, serving')
                     /\ OldServing \in Sound => serving' \in Sound
  PROVE  IInv'
<1>1. /\ lock = o /\ lock' = None /\ UNCHANGED <<disk, before, released>>
      /\ at' = [at EXCEPT ![o] = "idle"] /\ mem' = [mem EXCEPT ![o] = Blank]
  BY DEF Exit, Goto, IInv, LockInv
<1>2. Blank \in Memory
  BY DEF Blank, Memory
<1>3. TypeOK'
  <2>1. TypeOK
    BY DEF IInv
  <2>2. /\ at' \in [Ops -> {"idle", "clean"} \cup Deploying \cup PasswordSteps]
        /\ mem' \in [Ops -> Memory]
        /\ \A x \in Ops : at'[x] = "idle" \/ at'[x] = at[x]
    BY <1>1, <1>2, <2>1 DEF TypeOK
  <2>3. "idle" \notin PasswordSteps /\ "idle" \notin InstallersOnly /\ "idle" \notin SourceOnly
    BY DEF PasswordSteps, InstallersOnly, SourceOnly
  <2>4. ASSUME NEW x \in Deploys
        PROVE  /\ at'[x] \notin PasswordSteps
               /\ x \in Updates => at'[x] \notin InstallersOnly
               /\ x \in Releases => at'[x] \notin SourceOnly
    BY <2>1, <2>2, <2>3, OpsAreDisjoint DEF TypeOK
  <2>5. ASSUME NEW p \in PasswordChanges PROVE at'[p] \in {"idle"} \cup PasswordSteps
    BY <2>1, <2>2, OpsAreDisjoint DEF TypeOK
  <2> QED BY <1>1, <2>1, <2>2, <2>4, <2>5 DEF TypeOK, Deploys, Installers
<1>4. LockInv'
  BY <1>1 DEF IInv, TypeOK, LockInv
<1>5. BeforeInv'
  BY <1>1 DEF BeforeInv
<1>6. AtRestInv'
  BY <1>1 DEF AtRestInv, AtRest, Whole, OldServing
<1> QED BY <1>1, <1>3, <1>4, <1>5, <1>6, OpsAreDisjoint DEF IInv

LEMMA CleanKeepsIInv ==
  ASSUME IInv, NEW o \in Deploys, Clean(o) PROVE IInv'
<1>1. at[o] = "clean" /\ Exit(o, at[o]) /\ UNCHANGED <<serving, killed>>
  BY DEF Clean, Exit, Goto
<1>2. lock = o /\ o \in Ops /\ TypeOK /\ DeployInv(o)
  BY <1>1, Holding
<1>3. PartsInv(o, "clean", mem[o]) /\ ~killed /\ released = (o \in Releases)
  BY <1>1, <1>2 DEF DeployInv
<1>4. disk.bin = mem[o].goal /\ disk.unit = disk.bin
  BY <1>3 DEF PartsInv, BinInv, UnitInv, BinNew, SrcNew, UnitNew
<1>5. disk.src = disk.bin \/ released
  BY <1>3, <1>4 DEF PartsInv, SrcInv, SrcNew
<1>6. \/ serving = Loaded /\ Loaded \in Sound
      \/ serving = None /\ OldServing = None
  BY <1>3 DEF PartsInv, ServingInv, Final, Copied, Staged
<1>7. Whole(disk, serving) /\ (OldServing \in Sound => serving \in Sound)
  BY <1>4, <1>5, <1>6, OpsAssumption DEF Whole, Loaded
<1> QED BY <1>1, <1>2, <1>7, LockReturned DEF TypeOK

\* After a rollback that was not killed the disk and the service are sound as before.
LEMMA RolledBackIsWhole ==
  ASSUME RolledBack(lock, mem[lock]), Whole(Old, OldServing), Old \in Disk
  PROVE  Whole(disk, serving) /\ (OldServing \in Sound => serving \in Sound)
<1>1. /\ disk.src = Old.src /\ disk.bin = Old.bin /\ disk.unit = Old.unit /\ disk.cfg = Old.cfg
  BY DEF RolledBack, Disk
<1>2. serving = OldServing
  BY DEF RolledBack, Whole
<1> QED BY <1>1, <1>2 DEF Whole

LEMMA UndoCleanKeepsIInv ==
  ASSUME IInv, NEW o \in Deploys, UndoClean(o) PROVE IInv'
<1>1. at[o] = "undoClean" /\ Exit(o, at[o]) /\ UNCHANGED <<serving, killed>>
  BY DEF UndoClean, Exit, Goto
<1>2. lock = o /\ o \in Ops /\ TypeOK /\ DeployInv(o) /\ o # None /\ Old \in Disk
  BY <1>1, Holding, OpsAreDisjoint
<1>3. RolledBack(o, mem[o])
  BY <1>1, <1>2 DEF DeployInv
<1>4. ~killed => Whole(Old, OldServing)
  BY <1>1, <1>2 DEF IInv, BeforeInv
<1>5. ~killed => Whole(disk, serving) /\ (OldServing \in Sound => serving \in Sound)
  BY <1>2, <1>3, <1>4, RolledBackIsWhole
<1>6. ~killed' => Whole(disk, serving') /\ (OldServing \in Sound => serving' \in Sound)
  BY <1>1, <1>5
<1> QED BY <1>1, <1>2, <1>6, LockReturned DEF TypeOK

LEMMA KilledKeepsIInv ==
  ASSUME IInv, NEW o \in Deploys, Killed(o) PROVE IInv'
<1>1. at[o] # "idle" /\ Exit(o, at[o]) /\ killed' = TRUE /\ UNCHANGED serving
  BY DEF Killed, Undoing
<1> QED BY <1>1, LockReturned, OpsAreDisjoint DEF IInv, TypeOK

LEMMA TakeLockKeepsIInv ==
  ASSUME IInv, NEW o \in Ops, TakeLock(o) PROVE IInv'
<1>1. /\ lock = None /\ lock' = o /\ before' = [disk |-> disk, serving |-> serving]
      /\ at' = [at EXCEPT ![o] = IF o \in Deploys THEN "stage" ELSE "write"]
      /\ UNCHANGED <<disk, serving, mem, killed, released>>
  BY DEF TakeLock, LockIsFree, Goto
<1>2. TypeOK /\ o # None
  BY OpsAssumption DEF IInv
<1>3. \A x \in Ops : at[x] = "idle" /\ mem[x] = Blank
  BY <1>1, OpsAssumption DEF IInv, LockInv
<1>4. /\ at'[o] = IF o \in Deploys THEN "stage" ELSE "write"
      /\ \A x \in Ops : x # o => at'[x] = "idle"
  BY <1>1, <1>2, <1>3 DEF TypeOK
<1>5. TypeOK'
  <2>1. /\ "stage" \notin PasswordSteps /\ "write" \in PasswordSteps /\ "stage" \in Deploying
        /\ "idle" \notin PasswordSteps
    BY DEF PasswordSteps, Deploying
  <2>2. \A x \in {"idle", "stage"} : x \notin InstallersOnly /\ x \notin SourceOnly
    BY DEF InstallersOnly, SourceOnly
  <2>3. at' \in [Ops -> {"idle", "clean"} \cup Deploying \cup PasswordSteps]
    BY <1>1, <1>2, <2>1 DEF TypeOK
  <2>4. ASSUME NEW x \in Deploys
        PROVE  at'[x] \notin PasswordSteps /\ at'[x] \notin InstallersOnly /\ at'[x] \notin SourceOnly
    BY <1>4, <2>1, <2>2, OpsAreDisjoint
  <2>5. ASSUME NEW p \in PasswordChanges PROVE at'[p] \in {"idle"} \cup PasswordSteps
    BY <1>4, <2>1, OpsAreDisjoint
  <2> QED BY <1>1, <1>2, <2>3, <2>4, <2>5 DEF TypeOK, Deploys, Installers
<1>6. LockInv'
  BY <1>1, <1>3, <1>4 DEF LockInv
<1>7. BeforeInv'
  BY <1>1 DEF IInv, AtRestInv, AtRest, BeforeInv, Whole, Old, OldServing
<1>8. AtRestInv'
  BY <1>1, <1>2 DEF AtRestInv, AtRest
<1>9. o \in Deploys => DeployInv(o)'
  BY <1>1, <1>3, <1>4 DEF DeployInv, Untouched, Old, OldServing, Blank, Swapping, Undoing
<1>10. o \in PasswordChanges => PasswordInv(o)'
  BY <1>1, <1>4, OpsAreDisjoint DEF PasswordInv, Untouched, Old, OldServing
<1> QED BY <1>1, <1>5, <1>6, <1>7, <1>8, <1>9, <1>10 DEF IInv

-----------------------------------------------------------------------------
(* A change of the password *)

LEMMA HoldingPassword ==
  ASSUME IInv, NEW p \in PasswordChanges, at[p] # "idle"
  PROVE  /\ lock = p /\ p \in Ops /\ TypeOK /\ PasswordInv(p) /\ at[p] # "clean"
         /\ disk \in Disk /\ Old \in Disk /\ serving \in Running /\ OldServing \in Running
         /\ mem \in [Ops -> Memory] /\ mem[p] \in Memory
BY OpsAreDisjoint DEF IInv, LockInv, TypeOK, Old, OldServing, PasswordSteps

LEMMA PasswordStepKeepsIInv ==
  ASSUME IInv, NEW p \in PasswordChanges, NEW to \in PasswordSteps, Goto(p, at[p], to),
         at[p] # "idle", disk' \in Disk, serving' \in Running, mem' \in [Ops -> Memory],
         \A x \in Ops : x # p => mem'[x] = mem[x],
         UNCHANGED <<lock, before, killed, released>>,
         at'[p] = to => PasswordInv(p)'
  PROVE  IInv'
<1>1. p \in Ops /\ TypeOK /\ at[p] # "clean"
  BY HoldingPassword
<1>2. at' = [at EXCEPT ![p] = at'[p]] /\ at'[p] = to
  BY <1>1 DEF Goto, TypeOK
<1> QED BY <1>1, <1>2, HolderKeepsLock DEF TypeOK

LEMMA WriteKeepsIInv ==
  ASSUME IInv, NEW p \in PasswordChanges, NEW f \in Configs, Write(p, f) PROVE IInv'
<1>1. /\ at[p] = "write" /\ Goto(p, at[p], "replace")
      /\ mem' = [mem EXCEPT ![p].goal = f, ![p].cfg = disk.cfg]
      /\ UNCHANGED <<disk, serving, lock, before, killed, released>>
  BY DEF Write, Goto, history
<1>2. /\ p \in Ops /\ Untouched /\ disk \in Disk /\ serving \in Running
      /\ mem \in [Ops -> Memory] /\ mem[p] \in Memory
  BY <1>1, HoldingPassword DEF PasswordInv
<1> DEFINE m == [mem[p] EXCEPT !.goal = f, !.cfg = disk.cfg]
<1>3. mem' = [mem EXCEPT ![p] = m] /\ m \in Memory /\ m.goal = f /\ m.cfg = disk.cfg
  BY <1>1, <1>2 DEF Memory, Disk
<1> HIDE DEF m
<1>4. mem' \in [Ops -> Memory] /\ mem'[p] = m /\ \A x \in Ops : x # p => mem'[x] = mem[x]
  BY <1>2, <1>3
<1>5. at'[p] = "replace" => PasswordInv(p)'
  BY <1>1, <1>2, <1>3, <1>4 DEF PasswordInv, Untouched, Old, OldServing
<1> QED BY <1>1, <1>2, <1>4, <1>5, PasswordStepKeepsIInv DEF PasswordSteps

LEMMA ReplaceKeepsIInv ==
  ASSUME IInv, NEW p \in PasswordChanges, Replace(p) PROVE IInv'
<1>1. /\ at[p] = "replace" /\ Goto(p, at[p], "restart")
      /\ disk' = [disk EXCEPT !.cfg = mem[p].goal]
      /\ UNCHANGED <<serving, lock, mem, before, killed, released>>
  BY DEF Replace, Install, Goto, history
<1>2. /\ p \in Ops /\ Untouched /\ disk \in Disk /\ serving \in Running
      /\ mem \in [Ops -> Memory] /\ mem[p].goal \in Configs /\ mem[p].cfg = Old.cfg
  BY <1>1, HoldingPassword DEF PasswordInv
<1>3. disk' \in Disk
  BY <1>1, <1>2 DEF Disk
<1>4. at'[p] = "restart" => PasswordInv(p)'
  BY <1>1, <1>2 DEF PasswordInv, Untouched, Old, OldServing
<1> QED BY <1>1, <1>2, <1>3, <1>4, PasswordStepKeepsIInv DEF PasswordSteps

LEMMA RestartKeepsIInv ==
  ASSUME IInv, NEW p \in PasswordChanges, Restart(p) PROVE IInv'
<1>1. /\ at[p] = "restart" /\ Goto(p, at[p], "check") /\ disk.unit # None
      /\ serving' = Loaded
      /\ UNCHANGED <<disk, lock, mem, before, killed, released>>
  BY DEF Restart, Restarted, Goto, history
<1>2. /\ p \in Ops /\ disk \in Disk /\ Old \in Disk /\ mem \in [Ops -> Memory]
      /\ mem[p].goal \in Configs /\ mem[p].cfg = Old.cfg /\ disk = [Old EXCEPT !.cfg = mem[p].goal]
  BY <1>1, HoldingPassword DEF PasswordInv
<1>3. serving' \in Running /\ Old.unit # None
  BY <1>1, <1>2 DEF Running, Loaded, Disk
<1>4. at'[p] = "check" => PasswordInv(p)'
  BY <1>1, <1>2, <1>3 DEF PasswordInv, Old, OldServing, Loaded
<1> QED BY <1>1, <1>2, <1>3, <1>4, PasswordStepKeepsIInv DEF PasswordSteps

LEMMA CheckKeepsIInv ==
  ASSUME IInv, NEW p \in PasswordChanges, Check(p) PROVE IInv'
<1>1. at[p] = "check" /\ Exit(p, at[p]) /\ serving \in Sound /\ UNCHANGED <<serving, killed>>
  BY DEF Check, Healthy, Exit, Goto
<1>2. /\ lock = p /\ p \in Ops /\ TypeOK /\ Old \in Disk /\ disk = [Old EXCEPT !.cfg = mem[p].goal]
      /\ serving = Loaded
  BY <1>1, HoldingPassword DEF PasswordInv
<1>3. ~killed => Whole(Old, OldServing)
  BY <1>1, <1>2, OpsAreDisjoint DEF IInv, BeforeInv
<1>4. disk.unit = Old.unit /\ disk.bin = Old.bin /\ disk.src = Old.src
  BY <1>2 DEF Disk
<1>5. ~killed => Whole(disk, serving)
  BY <1>2, <1>3, <1>4 DEF Whole, Loaded
<1> QED BY <1>1, <1>2, <1>5, LockReturned DEF TypeOK

LEMMA PasswordFailsKeepsIInv ==
  ASSUME IInv, NEW p \in PasswordChanges, PasswordFails(p) PROVE IInv'
<1>1. CASE at[p] \in {"write", "replace"} /\ Exit(p, at[p]) /\ UNCHANGED <<serving, killed>>
  <2>1. lock = p /\ p \in Ops /\ TypeOK /\ Untouched
    BY <1>1, HoldingPassword DEF PasswordInv
  <2>2. ~killed => Whole(Old, OldServing)
    BY <1>1, <2>1, OpsAreDisjoint DEF IInv, BeforeInv
  <2> QED BY <1>1, <2>1, <2>2, LockReturned DEF TypeOK, Untouched
<1>2. CASE /\ at[p] \in {"restart", "check"} /\ Goto(p, at[p], "undoConfig")
           /\ UNCHANGED <<disk, serving, lock, mem, history>>
  <2>1. /\ p \in Ops /\ TypeOK /\ PasswordInv(p)
    BY <1>2, HoldingPassword
  <2>2. at'[p] = "undoConfig" => PasswordInv(p)'
    BY <1>2, <2>1 DEF PasswordInv, Old, OldServing, history
  <2> QED BY <1>2, <2>1, <2>2, PasswordStepKeepsIInv DEF PasswordSteps, TypeOK, history
<1> QED BY <1>1, <1>2 DEF PasswordFails

LEMMA UndoConfigKeepsIInv ==
  ASSUME IInv, NEW p \in PasswordChanges, UndoConfig(p) PROVE IInv'
<1>1. /\ at[p] = "undoConfig" /\ Goto(p, at[p], "undoRestart")
      /\ disk' = [disk EXCEPT !.cfg = mem[p].cfg]
      /\ UNCHANGED <<serving, lock, mem, before, killed, released>>
  BY DEF UndoConfig, Install, Goto, history
<1>2. /\ p \in Ops /\ disk \in Disk /\ Old \in Disk /\ serving \in Running
      /\ mem \in [Ops -> Memory] /\ mem[p].cfg = Old.cfg
      /\ disk = [Old EXCEPT !.cfg = mem[p].goal] /\ (serving = OldServing \/ Old.unit # None)
  BY <1>1, HoldingPassword DEF PasswordInv
<1>3. disk' \in Disk /\ disk' = Old
  BY <1>1, <1>2, DiskIsItsParts DEF Disk
<1>4. at'[p] = "undoRestart" => PasswordInv(p)'
  BY <1>1, <1>2, <1>3 DEF PasswordInv, Old, OldServing
<1> QED BY <1>1, <1>2, <1>3, <1>4, PasswordStepKeepsIInv DEF PasswordSteps

\* The last step of a failed change: it starts what is restored, or leaves a service
\* without a unit alone.
LEMMA UndoRestartEffect ==
  ASSUME IInv, NEW p \in PasswordChanges, UndoRestart(p)
  PROVE  /\ lock = p /\ p \in Ops /\ at[p] = "undoRestart" /\ Exit(p, at[p]) /\ killed' = killed
         /\ TypeOK /\ disk = Old
         /\ serving' = IF Old.unit = None THEN OldServing ELSE Loaded
BY HoldingPassword DEF UndoRestart, Restarted, Exit, Goto, PasswordInv

LEMMA UndoRestartKeepsIInv ==
  ASSUME IInv, NEW p \in PasswordChanges, UndoRestart(p) PROVE IInv'
<1>1. /\ lock = p /\ p \in Ops /\ at[p] = "undoRestart" /\ Exit(p, at[p]) /\ killed' = killed
      /\ TypeOK /\ disk = Old /\ serving' = IF Old.unit = None THEN OldServing ELSE Loaded
  BY UndoRestartEffect
<1>2. ~killed => Whole(Old, OldServing)
  BY <1>1, OpsAreDisjoint DEF IInv, BeforeInv
<1>3. ~killed => Whole(disk, serving') /\ (OldServing \in Sound => serving' \in Sound)
  BY <1>1, <1>2, OpsAssumption DEF Whole, Loaded
<1>4. serving' \in Running
  BY <1>1 DEF TypeOK, Running, Loaded, Disk, OldServing
<1> QED BY <1>1, <1>3, <1>4, LockReturned DEF TypeOK

-----------------------------------------------------------------------------
(* The theorems *)

LEMMA DeployKeepsIInv ==
  ASSUME IInv, NEW o \in Deploys, Deploy(o) \/ Stops(o) \/ Rollback(o) \/ Killed(o)
  PROVE  IInv'
<1>1. CASE Deploy(o)
  BY <1>1, StageKeepsIInv, BackupKeepsIInv, UserKeepsIInv, MarkKeepsIInv, ConfigKeepsIInv,
     StopServiceKeepsIInv, MoveOldKeepsIInv, MoveNewKeepsIInv, BinaryKeepsIInv,
     UnitKeepsIInv, EnableKeepsIInv, StartKeepsIInv, HealthKeepsIInv, CommitKeepsIInv,
     CleanKeepsIInv
  DEF Deploy
<1>2. CASE Rollback(o)
  BY <1>2, UndoStopKeepsIInv, UndoBinaryKeepsIInv, UndoUnitKeepsIInv, UndoSourceKeepsIInv,
     UndoMoveKeepsIInv, UndoRemoveKeepsIInv, UndoCopyKeepsIInv, UndoEnableKeepsIInv,
     UndoStartKeepsIInv, UndoUserKeepsIInv, UndoCleanKeepsIInv
  DEF Rollback
<1> QED BY <1>1, <1>2, StopsKeepsIInv, KilledKeepsIInv

LEMMA SetPasswordKeepsIInv ==
  ASSUME IInv, NEW p \in PasswordChanges, SetPassword(p) PROVE IInv'
BY WriteKeepsIInv, ReplaceKeepsIInv, RestartKeepsIInv, CheckKeepsIInv, PasswordFailsKeepsIInv,
   UndoConfigKeepsIInv, UndoRestartKeepsIInv
DEF SetPassword

LEMMA NextKeepsIInv == IInv /\ [Next]_vars => IInv'
<1> SUFFICES ASSUME IInv, [Next]_vars PROVE IInv'
  OBVIOUS
<1>1. CASE Next
  BY <1>1, TakeLockKeepsIInv, DeployKeepsIInv, SetPasswordKeepsIInv DEF Next
<1>2. CASE UNCHANGED vars
  <2>1. \A o : PartsInv(o, at[o], mem[o])' <=> PartsInv(o, at[o], mem[o])
    BY <1>2
    DEF vars, PartsInv, Copied, Staged, SrcInv, BinInv, UnitInv, CfgInv, EnabledInv, UserInv,
        ServingInv, Loaded, Old, OldServing
  <2>2. (lock \in Deploys => DeployInv(lock))' /\ (lock \in PasswordChanges => PasswordInv(lock))'
    BY <1>2, <2>1
    DEF vars, IInv, DeployInv, PasswordInv, Untouched, Staged, RolledBack, Old, OldServing, Loaded
  <2>3. TypeOK' /\ LockInv' /\ BeforeInv' /\ AtRestInv'
    BY <1>2
    DEF vars, IInv, TypeOK, LockInv, BeforeInv, AtRestInv, AtRest, Whole, Old, OldServing
  <2> QED BY <2>2, <2>3 DEF IInv
<1> QED BY <1>1, <1>2

\* The invariant of every reachable state; it includes the types.
THEOREM OpsInvariant == Spec => [](TypeOK /\ IInv)
<1>1. IInv => TypeOK
  BY DEF IInv
<1> QED BY InitIInv, NextKeepsIInv, <1>1, PTL DEF Spec

\* Source tree, binary and unit are of one commit between operations, wherever the
\* operations before were stopped (update-server.sh:112-146, 190-221,
\* install-from-source.sh:16-50, 179-196, install.sh:86-102).
THEOREM OneVersionIsInstalled == Spec => []OneVersion
<1>1. IInv => OneVersion
  BY DEF IInv, AtRestInv, Whole, OneVersion
<1> QED BY OpsInvariant, <1>1, PTL

\* The service runs what is installed, and a healthy one is healthy still, between
\* operations (update-server.sh:134-138, 202-219, set-password.sh:27-36).
THEOREM HealthIsKept == Spec => []ServiceStaysHealthy
<1>1. IInv => ServiceStaysHealthy
  BY DEF IInv, AtRestInv, Whole, ServiceStaysHealthy, Loaded, OldServing
<1> QED BY OpsInvariant, <1>1, PTL

\* A deployment that has not ended has a copy of all it has replaced
\* (update-server.sh:118-127, 184-194, install-from-source.sh:181-189, 226-228,
\* install.sh:88-95, 159-161).
THEOREM CopiesAreComplete == Spec => []NothingIsLost
<1>1. IInv => NothingIsLost
  <2> SUFFICES ASSUME IInv, NEW o \in Deploys, at[o] \in Deploying
               PROVE  /\ Old.src \in {disk.src, mem[o].oldSrc}
                      /\ Old.bin \in {disk.bin, mem[o].bin}
                      /\ Old.unit \in {disk.unit, mem[o].unit}
                      /\ Old.cfg \in {disk.cfg, mem[o].cfg}
    BY DEF NothingIsLost, Old
  <2>1. DeployInv(o) /\ Old \in Disk
    BY Holding DEF Deploying, Swapping, Undoing
  <2>2. CASE at[o] \in {"stage", "backup"}
    BY <2>1, <2>2 DEF DeployInv, Untouched
  <2>3. CASE at[o] = "undoClean"
    BY <2>1, <2>3 DEF DeployInv, RolledBack, Disk
  <2>4. CASE at[o] \in Swapping \cup (Undoing \ {"undoClean"})
    <3>1. PartsInv(o, at[o], mem[o])
      BY <2>1, <2>4 DEF DeployInv
    <3> QED BY <3>1, OpsAreDisjoint DEF PartsInv, Copied, SrcInv, CfgInv
  <2> QED BY <2>2, <2>3, <2>4 DEF Deploying
<1> QED BY OpsInvariant, <1>1, PTL

\* Which steps give the lock back.
LEMMA LastStepIsExit ==
  ASSUME IInv, Next, NEW o \in Ops, lock = o, lock' = None, at[o] \in LastSteps
  PROVE  \/ o \in Deploys /\ (UndoClean(o) \/ Killed(o))
         \/ o \in PasswordChanges /\ (PasswordFails(o) \/ UndoRestart(o))
<1>1. o # None /\ \A x \in Ops : at[x] # "idle" => x = o
  BY OpsAssumption DEF IInv, LockInv
<1>2. ASSUME NEW x \in Ops, TakeLock(x) PROVE FALSE
  BY <1>1, <1>2 DEF TakeLock, LockIsFree
<1>3. ASSUME NEW x \in Deploys, Deploy(x) PROVE FALSE
  <2>1. Clean(x)
    BY <1>1, <1>3
    DEF Deploy, Stage, Backup, User, Mark, Config, StopService, MoveOld, MoveNew, Binary,
        Unit, Enable, Start, Health, Commit
  <2>2. at[x] = "clean" /\ x = o
    BY <1>1, <2>1, OpsAreDisjoint DEF Clean, Exit, Goto
  <2> QED BY <2>2 DEF LastSteps
<1>4. ASSUME NEW x \in Deploys, Stops(x) PROVE FALSE
  BY <1>1, <1>4 DEF Stops
<1>5. ASSUME NEW x \in Deploys, Rollback(x) PROVE x = o /\ UndoClean(o)
  <2>1. UndoClean(x)
    BY <1>1, <1>5
    DEF Rollback, UndoStop, UndoBinary, UndoUnit, UndoSource, UndoMove, UndoRemove, UndoCopy,
        UndoEnable, UndoStart, UndoUser
  <2>2. at[x] = "undoClean"
    BY <2>1 DEF UndoClean, Exit, Goto
  <2> QED BY <1>1, <2>1, <2>2, OpsAreDisjoint
<1>6. ASSUME NEW x \in Deploys, Killed(x) PROVE x = o /\ Killed(o)
  BY <1>1, <1>6, OpsAreDisjoint DEF Killed, Undoing
<1>7. ASSUME NEW x \in PasswordChanges, SetPassword(x)
      PROVE  x = o /\ (PasswordFails(o) \/ UndoRestart(o))
  <2>1. Check(x) \/ PasswordFails(x) \/ UndoRestart(x)
    BY <1>1, <1>7 DEF SetPassword, Write, Replace, Restart, UndoConfig
  <2>2. at[x] # "idle"
    BY <2>1 DEF Check, PasswordFails, UndoRestart, Exit, Goto
  <2>3. x = o
    BY <1>1, <2>2, OpsAreDisjoint
  <2>4. ~Check(x)
    BY <2>3 DEF Check, Exit, Goto, LastSteps
  <2> QED BY <2>1, <2>3, <2>4
<1> QED BY <1>2, <1>3, <1>4, <1>5, <1>6, <1>7 DEF Next

\* An operation that fails, at whichever command, leaves the disk and the service as it
\* found them (update-server.sh:112-143, install-from-source.sh:179-196,
\* install.sh:86-102, set-password.sh:27-37).
THEOREM FailuresAreUndone == Spec => FailureChangesNothing
<1>1. IInv /\ [Next]_vars =>
        \A o \in Ops : lock = o /\ lock' = None /\ at[o] \in LastSteps => Restored(o)
  <2> SUFFICES ASSUME IInv, [Next]_vars, NEW o \in Ops, lock = o, lock' = None,
                      at[o] \in LastSteps
               PROVE  Restored(o)
    OBVIOUS
  <2>1. Next
    BY OpsAssumption DEF vars
  <2>2. CASE o \in Deploys /\ (UndoClean(o) \/ Killed(o))
    <3>1. at[o] = "undoClean" /\ UNCHANGED <<disk, serving>>
      BY <2>2 DEF UndoClean, Killed, Exit, Goto, LastSteps, Undoing
    <3>2. RolledBack(o, mem[o])
      BY <2>2, <3>1, Holding DEF DeployInv
    <3> QED BY <3>1, <3>2 DEF RolledBack, Restored, Old, OldServing
  <2>3. CASE o \in PasswordChanges /\ PasswordFails(o)
    <3>1. at[o] \in {"write", "replace"} /\ UNCHANGED <<disk, serving>>
      BY <2>3, OpsAssumption DEF PasswordFails, Exit, Goto
    <3>2. Untouched
      BY <2>3, <3>1, HoldingPassword DEF PasswordInv
    <3> QED BY <3>1, <3>2 DEF Untouched, Restored, Old, OldServing
  <2>4. CASE o \in PasswordChanges /\ UndoRestart(o)
    <3>1. disk = Old /\ disk' = disk /\ serving' = IF Old.unit = None THEN OldServing ELSE Loaded
      BY <2>4, UndoRestartEffect DEF Exit
    <3> QED BY <2>4, <3>1 DEF Restored, Old, OldServing, Loaded
  <2> QED BY <2>1, <2>2, <2>3, <2>4, LastStepIsExit
<1> QED BY <1>1, OpsInvariant, PTL DEF Spec, FailureChangesNothing
=============================================================================
