---------------------------- MODULE DesktopProofs ----------------------------
(***************************************************************************)
(* The desktop program beside its sessions, for any number of releases,    *)
(* downloads, devices, crashes, copies, keys, strokes and displays: an     *)
(* update only ever goes forward, a start gives the program back what it   *)
(* was, what was applied to the clipboard stays whole, on macOS both       *)
(* devices know what is pressed and the cursor comes back, and the mouse   *)
(* pointers stay on their desks.                                           *)
(***************************************************************************)
EXTENDS Updates, ConfigFiles, OsClipboard, MacInput, Pointer, WellFoundedInduction,
        SequenceTheorems, FiniteSetTheorems, TLAPS

--------------------------------------------------------------------------------
(* Numbers.                                                                *)

LEMMA LeastExists ==
    ASSUME NEW T \in SUBSET Nat, T # {}
    PROVE  \E x \in T : \A y \in T : x <= y
<1>1. IsWellFoundedOn(OpToRel(<, Nat), Nat)
  BY NatLessThanWellFounded
<1>2. PICK x \in T : \A y \in T : <<y, x>> \notin OpToRel(<, Nat)
  BY <1>1, WFMin
<1>3. \A y \in T : ~(y < x)
  BY <1>2 DEF OpToRel
<1>4. QED  BY <1>3

(* The greatest of some releases is one of them.                           *)
LEMMA MaxFacts ==
    ASSUME NEW S \in SUBSET Versions, S # {}
    PROVE  Max(S) \in S
<1>0. MaxVersion \in Nat
  BY UpdatesAssumption
<1> DEFINE T == {n \in Nat : MaxVersion - n \in S}
<1>1. T # {}
  <2>1. PICK v \in S : TRUE
    OBVIOUS
  <2>2. v \in 1 .. MaxVersion
    BY <2>1 DEF Versions
  <2>3. MaxVersion - v \in Nat /\ MaxVersion - (MaxVersion - v) = v
    BY <1>0, <2>2
  <2>4. MaxVersion - v \in T
    BY <2>1, <2>3
  <2>5. QED  BY <2>4
<1>2. PICK least \in T : \A n \in T : least <= n
  BY <1>1, LeastExists
<1>3. MaxVersion - least \in S
  BY <1>2
<1>4. ASSUME NEW v \in S
      PROVE  MaxVersion - least >= v
  <2>1. v \in 1 .. MaxVersion
    BY <1>4 DEF Versions
  <2>2. MaxVersion - v \in Nat /\ MaxVersion - (MaxVersion - v) = v
    BY <1>0, <2>1
  <2>3. MaxVersion - v \in T
    BY <2>2
  <2>4. least <= MaxVersion - v
    BY <2>3, <1>2
  <2>5. least \in Nat
    BY <1>2
  <2>6. QED  BY <2>1, <2>4, <2>5, <1>0
<1>5. \E x \in S : \A y \in S : x >= y
  BY <1>3, <1>4
<1>6. QED  BY <1>5 DEF Max

--------------------------------------------------------------------------------
(* The updater.                                                            *)

Known == 0 .. MaxVersion        \* a release, or 0 if there is none
Stored0 == {"none", "some", "bad", "whole"}
Phases == Busy \cup {"Idle", "UpToDate", "Available", "ReadyToRestart", "HandedOff", "DmgOpened", "Failed"}
Updaters == [phase : Phases, release : Known, ready : Known, tag : Known,
             gen : 0 .. MaxFetches, download : 0 .. MaxFetches]
FetchTasks == [at : {"none", "queued", "asking", "writing", "digest", "verified", "kept"}, of : Known]
Installers == [at : {"none", "waiting", "done", "failed", "vain"}, of : Known, from : Known,
               start : Nat, verified : BOOLEAN]

UpdatesTypes ==
    /\ latest \in Versions
    /\ program \in [installed : Versions, running : Known, start : Nat]
    /\ updater \in Updaters /\ skipped \in Known /\ shown \in Phases
    /\ looking \in [on : BOOLEAN, manual : BOOLEAN, skipped : Known]
    /\ restoring \in [at : {"none", "todo", "digest"}, of : Known]
    /\ fetches \in [Fetches -> FetchTasks]
    /\ applying \in [at : {"none", "record", "spawn", "spawned", "opened", "failed"},
                     of : Known, tag : Known]
    /\ part \in [Versions -> Stored0] /\ package \in [Versions -> Stored0]
    /\ sums \in Known /\ pending \in Known
    /\ installers \in [Handoffs -> Installers] /\ clicks \in Nat

(* Every version that some task of the program holds is newer than the one *)
(* that runs: the release known, the package that is ready, the one that   *)
(* is taken up again, fetched or handed over.                              *)
NothingOld ==
    /\ updater.release # 0 => IsNewer(updater.release)
    /\ updater.ready # 0 => IsNewer(updater.ready)
    /\ restoring.at = "digest" => IsNewer(restoring.of)
    /\ \A g \in Fetches : fetches[g].at \notin {"none", "queued"} => IsNewer(fetches[g].of)
    /\ applying.at # "none" => IsNewer(applying.of)

(* No task outlives the program, so that none meets the next version of it. *)
NothingOutlives ==
    ~IsUp => /\ updater = Fresh /\ ~looking.on /\ restoring = NoRestore /\ applying.at = "none"
             /\ \A g \in Fetches : fetches[g] = NoFetch

UpdatesInv == UpdatesTypes /\ NothingOld /\ NothingOutlives /\ NoReinstall

LEMMA UpdatesNumbers ==
    /\ MaxVersion \in Nat /\ MaxFetches \in Nat /\ MaxClicks \in Nat /\ MaxStarts \in Nat
    /\ 1 \in Versions /\ Versions \subseteq Known /\ 0 \in Known /\ 0 \in 0 .. MaxFetches
BY UpdatesAssumption DEF Versions, Known

LEMMA UpdatesInitHolds == UpdatesInit => UpdatesInv
<1> SUFFICES ASSUME UpdatesInit PROVE UpdatesInv
  OBVIOUS
<1>1. UpdatesTypes
  <2>1. updater \in Updaters
    BY UpdatesNumbers DEF UpdatesInit, Fresh, Updaters, Phases
  <2>2. fetches \in [Fetches -> FetchTasks] /\ installers \in [Handoffs -> Installers]
    BY UpdatesNumbers DEF UpdatesInit, NoFetch, NoInstaller, FetchTasks, Installers
  <2>3. QED  BY <2>1, <2>2, UpdatesNumbers DEF UpdatesInit, UpdatesTypes, NoCheck, NoRestore, Phases,
                Stored0
<1>2. NothingOld
  BY DEF UpdatesInit, NothingOld, Fresh, NoRestore, NoFetch
<1>3. NothingOutlives
  BY DEF UpdatesInit, NothingOutlives, IsUp
<1>4. NoReinstall
  BY DEF UpdatesInit, NoReinstall, NoInstaller
<1>5. QED  BY <1>1, <1>2, <1>3, <1>4 DEF UpdatesInv

(* What the steps do that touch the updater, the fetches or the handover   *)
(* only: the invariant speaks of little else.                              *)
LEMMA CheckKeeps ==
    ASSUME UpdatesInv, NEW manual \in BOOLEAN, Check(manual)
    PROVE  UpdatesInv'
<1>1. updater' \in Updaters /\ updater'.release = updater.release /\ updater'.ready = updater.ready
  BY UpdatesNumbers DEF UpdatesInv, UpdatesTypes, Check, Updaters, Phases, Busy
<1>2. UpdatesTypes'
  BY <1>1, UpdatesNumbers DEF UpdatesInv, UpdatesTypes, Check, disk
<1>3. NothingOld' /\ NothingOutlives' /\ NoReinstall'
  BY <1>1 DEF UpdatesInv, NothingOld, NothingOutlives, NoReinstall, Check, IsNewer, IsUp
<1>4. QED  BY <1>2, <1>3 DEF UpdatesInv

LEMMA CheckEndsKeeps ==
    ASSUME UpdatesInv, CheckEnds
    PROVE  UpdatesInv'
<1>1. /\ updater' \in Updaters /\ updater'.ready = updater.ready
      /\ updater'.release # 0 => IsNewer(updater'.release)
  <2>0. updater \in Updaters /\ latest \in Known /\ (updater.release # 0 => IsNewer(updater.release))
    BY UpdatesNumbers DEF UpdatesInv, UpdatesTypes, NothingOld
  <2>1. CASE updater' = [updater EXCEPT !.phase = "Failed"]
    BY <2>0, <2>1 DEF Updaters, Phases
  <2>2. CASE updater' = [updater EXCEPT !.phase = "UpToDate", !.release = 0]
    BY <2>0, <2>2, UpdatesNumbers DEF Updaters, Phases
  <2>3. CASE \E p \in {"UpToDate", "Available"} : IsNewer(latest) /\
                 updater' = [updater EXCEPT !.release = latest, !.tag = latest, !.phase = p]
    BY <2>0, <2>3 DEF Updaters, Phases
  <2>4. QED  BY <2>1, <2>2, <2>3 DEF CheckEnds
<1>2. IsUp /\ looking.on /\ looking' = NoCheck
  BY DEF UpdatesInv, NothingOutlives, CheckEnds
<1>3. UpdatesTypes'
  BY <1>1, <1>2, UpdatesNumbers DEF UpdatesInv, UpdatesTypes, CheckEnds, disk, NoCheck
<1>4. NothingOld' /\ NothingOutlives' /\ NoReinstall'
  BY <1>1, <1>2 DEF UpdatesInv, NothingOld, NothingOutlives, NoReinstall, CheckEnds, IsNewer, IsUp
<1>5. QED  BY <1>3, <1>4 DEF UpdatesInv

(* A step of the buttons that leaves the versions alone.                   *)
LEMMA SkipKeeps ==
    ASSUME UpdatesInv, Skip
    PROVE  UpdatesInv'
<1>1. updater' \in Updaters /\ updater'.release = updater.release /\ updater'.ready = updater.ready
  BY UpdatesNumbers DEF UpdatesInv, UpdatesTypes, Skip, Updaters, Phases
<1>2. skipped' \in Known
  BY DEF UpdatesInv, UpdatesTypes, Skip, Updaters
<1>3. UpdatesTypes'
  BY <1>1, <1>2, UpdatesNumbers DEF UpdatesInv, UpdatesTypes, Skip, disk
<1>4. NothingOld' /\ NothingOutlives' /\ NoReinstall'
  BY <1>1 DEF UpdatesInv, NothingOld, NothingOutlives, NoReinstall, Skip, IsNewer, IsUp
<1>5. QED  BY <1>3, <1>4 DEF UpdatesInv

LEMMA DownloadKeeps ==
    ASSUME UpdatesInv, Download
    PROVE  UpdatesInv'
<1>0. updater \in Updaters /\ fetches \in [Fetches -> FetchTasks]
  BY DEF UpdatesInv, UpdatesTypes
<1>1. updater' \in Updaters /\ updater'.release = updater.release /\ updater'.ready = updater.ready
  <2>1. updater.gen + 1 \in 0 .. MaxFetches
    BY <1>0, UpdatesNumbers DEF Download, Updaters
  <2>2. QED  BY <1>0, <2>1 DEF Download, Updaters, Phases, Busy
<1>2. /\ fetches' \in [Fetches -> FetchTasks]
      /\ \A g \in Fetches : fetches'[g] = fetches[g] \/ fetches'[g].at = "queued"
  <2>1. [at |-> "queued", of |-> 0] \in FetchTasks
    BY UpdatesNumbers DEF FetchTasks
  <2>2. QED  BY <1>0, <2>1 DEF Download
<1>3. UpdatesTypes'
  BY <1>1, <1>2, UpdatesNumbers DEF UpdatesInv, UpdatesTypes, Download, disk
<1>4. NothingOld' /\ NothingOutlives' /\ NoReinstall'
  BY <1>1, <1>2 DEF UpdatesInv, NothingOld, NothingOutlives, NoReinstall, Download, IsNewer, IsUp
<1>5. QED  BY <1>3, <1>4 DEF UpdatesInv

LEMMA CancelKeeps ==
    ASSUME UpdatesInv, CancelDownload
    PROVE  UpdatesInv'
<1>0. updater \in Updaters /\ fetches \in [Fetches -> FetchTasks]
  BY DEF UpdatesInv, UpdatesTypes
<1>1. updater' \in Updaters /\ updater'.release = updater.release /\ updater'.ready = updater.ready
  BY <1>0, UpdatesNumbers DEF CancelDownload, Updaters, Phases, Busy
<1>2. /\ fetches' \in [Fetches -> FetchTasks]
      /\ \A g \in Fetches : fetches'[g] = fetches[g] \/ fetches'[g].at = "none"
  <2>1. NoFetch \in FetchTasks /\ NoFetch.at = "none"
    BY UpdatesNumbers DEF FetchTasks, NoFetch
  <2>2. QED  BY <1>0, <2>1 DEF CancelDownload
<1>3. UpdatesTypes'
  BY <1>1, <1>2, UpdatesNumbers DEF UpdatesInv, UpdatesTypes, CancelDownload, disk
<1>4. NothingOld' /\ NothingOutlives' /\ NoReinstall'
  BY <1>1, <1>2 DEF UpdatesInv, NothingOld, NothingOutlives, NoReinstall, CancelDownload, IsNewer, IsUp
<1>5. QED  BY <1>3, <1>4 DEF UpdatesInv

(* Of a step of a download it is enough to know what it makes of its task, *)
(* of the updater and of the files.                                        *)
LEMMA FetchStepKeeps ==
    ASSUME UpdatesInv, NEW g \in Fetches, fetches[g].at # "none",
           updater' \in Updaters, updater'.release = updater.release,
           updater'.ready \in {updater.ready, fetches[g].of},
           updater'.ready # updater.ready => fetches[g].at \notin {"none", "queued"},
           NEW t \in FetchTasks, fetches' = [fetches EXCEPT ![g] = t],
           \/ t.at \in {"none", "queued"}
           \/ t.of = fetches[g].of /\ fetches[g].at # "queued"
           \/ IsNewer(t.of),
           part' \in [Versions -> Stored0], package' \in [Versions -> Stored0], sums' \in Known,
           UNCHANGED <<latest, program, skipped, shown, looking, restoring, applying, pending,
                       installers, clicks>>
    PROVE  UpdatesInv'
<1>0. fetches \in [Fetches -> FetchTasks]
  BY DEF UpdatesInv, UpdatesTypes
<1>1. IsUp
  BY DEF UpdatesInv, NothingOutlives, NoFetch
<1>2. fetches' \in [Fetches -> FetchTasks]
  BY <1>0
<1>3. UpdatesTypes'
  BY <1>2 DEF UpdatesInv, UpdatesTypes
<1>4. \A h \in Fetches : fetches'[h].at \notin {"none", "queued"} => IsNewer(fetches'[h].of)
  <2> SUFFICES ASSUME NEW h \in Fetches, fetches'[h].at \notin {"none", "queued"}
               PROVE  IsNewer(fetches'[h].of)
    OBVIOUS
  <2>1. CASE h = g
    BY <1>0, <2>1 DEF UpdatesInv, NothingOld
  <2>2. CASE h # g
    BY <1>0, <2>2 DEF UpdatesInv, NothingOld
  <2>3. QED  BY <2>1, <2>2
<1>5. updater'.ready # 0 => IsNewer(updater'.ready)
  BY DEF UpdatesInv, NothingOld
<1>6. NothingOld'
  BY <1>4, <1>5 DEF UpdatesInv, NothingOld, IsNewer
<1>7. NothingOutlives' /\ NoReinstall'
  BY <1>1 DEF UpdatesInv, NothingOutlives, NoReinstall, IsUp
<1>8. QED  BY <1>3, <1>6, <1>7 DEF UpdatesInv

LEMMA FailFacts ==
    ASSUME UpdatesInv, NEW g \in Fetches, Fail(g)
    PROVE  /\ updater' \in Updaters /\ updater'.release = updater.release /\ updater'.ready = updater.ready
           /\ fetches' = [fetches EXCEPT ![g] = NoFetch] /\ NoFetch \in FetchTasks /\ NoFetch.at = "none"
<1>1. updater \in Updaters
  BY DEF UpdatesInv, UpdatesTypes
<1>2. QED  BY <1>1, UpdatesNumbers DEF Fail, Updaters, Phases, FetchTasks, NoFetch

LEMMA MovesOn ==
    ASSUME UpdatesInv, NEW g \in Fetches,
           NEW at \in {"asking", "writing", "digest", "verified", "kept"},
           fetches' = [fetches EXCEPT ![g].at = at]
    PROVE  /\ fetches' = [fetches EXCEPT ![g] = [at |-> at, of |-> fetches[g].of]]
           /\ [at |-> at, of |-> fetches[g].of] \in FetchTasks
<1>1. fetches[g] \in FetchTasks
  BY DEF UpdatesInv, UpdatesTypes
<1>2. ASSUME NEW t \in FetchTasks
      PROVE  [t EXCEPT !.at = at] = [at |-> at, of |-> t.of] /\ [at |-> at, of |-> t.of] \in FetchTasks
  BY DEF FetchTasks
<1>3. fetches' = [fetches EXCEPT ![g] = [fetches[g] EXCEPT !.at = at]]
  OBVIOUS
<1>4. QED  BY <1>1, <1>2, <1>3

LEMMA FetchTaskKeeps ==
    ASSUME UpdatesInv, NEW g \in Fetches, Fetch(g)
    PROVE  UpdatesInv'
<1>0. /\ updater \in Updaters /\ fetches[g] \in FetchTasks
      /\ part \in [Versions -> Stored0] /\ package \in [Versions -> Stored0] /\ sums \in Known
      /\ NoFetch \in FetchTasks /\ NoFetch.at = "none"
  BY UpdatesNumbers DEF UpdatesInv, UpdatesTypes, FetchTasks, NoFetch
<1>1. CASE FetchBegins(g)
  <2>1. fetches[g].at # "none" /\ UNCHANGED <<updater, part, package, sums>>
    BY <1>1 DEF FetchBegins, disk
  <2>2. UNCHANGED <<latest, program, skipped, shown, looking, restoring, applying, pending,
                    installers, clicks>>
    BY <1>1 DEF FetchBegins, disk
  <2>3. CASE /\ updater.release # 0
             /\ fetches' = [fetches EXCEPT ![g] = [at |-> "asking", of |-> updater.release]]
    <3>1. IsNewer(updater.release)
      BY <2>3 DEF UpdatesInv, NothingOld
    <3>2. [at |-> "asking", of |-> updater.release] \in FetchTasks
      BY <1>0 DEF FetchTasks, Updaters
    <3>3. QED  BY <1>0, <2>1, <2>2, <2>3, <3>1, <3>2, FetchStepKeeps
  <2>4. CASE fetches' = [fetches EXCEPT ![g] = NoFetch]
    <3>1. PICK t \in FetchTasks : t.at = "none" /\ fetches' = [fetches EXCEPT ![g] = t]
      BY <1>0, <2>4
    <3>2. /\ updater' \in Updaters /\ updater'.release = updater.release
          /\ updater'.ready \in {updater.ready, fetches[g].of} /\ updater'.ready = updater.ready
          /\ part' \in [Versions -> Stored0] /\ package' \in [Versions -> Stored0] /\ sums' \in Known
      BY <1>0, <2>1
    <3>3. QED  BY <2>1, <2>2, <3>1, <3>2, FetchStepKeeps
  <2>5. QED  BY <1>1, <2>3, <2>4 DEF FetchBegins
<1>2. CASE FetchAsks(g)
  <2>1. fetches[g].at = "asking"
    BY <1>2 DEF FetchAsks
  <2>2. part' \in [Versions -> Stored0]
    BY <1>0, <1>2 DEF FetchAsks, Stored0
  <2>3. CASE Fail(g)
    BY <1>0, <1>2, <2>1, <2>2, <2>3, FailFacts, FetchStepKeeps DEF FetchAsks
  <2>4. CASE fetches' = [fetches EXCEPT ![g].at = "writing"] /\ UNCHANGED updater
    <3>1. /\ fetches' = [fetches EXCEPT ![g] = [at |-> "writing", of |-> fetches[g].of]]
          /\ [at |-> "writing", of |-> fetches[g].of] \in FetchTasks
      BY <2>4, MovesOn
    <3>2. QED  BY <1>0, <1>2, <2>1, <2>2, <2>4, <3>1, FetchStepKeeps DEF FetchAsks
  <2>5. QED  BY <1>2, <2>3, <2>4 DEF FetchAsks
<1>3. CASE FetchWrites(g)
  <2>1. fetches[g].at = "writing"
    BY <1>3 DEF FetchWrites
  <2>2. part' \in [Versions -> Stored0]
    BY <1>0, <1>3 DEF FetchWrites, Stored0
  <2>3. CASE Fail(g)
    BY <1>0, <1>3, <2>1, <2>2, <2>3, FailFacts, FetchStepKeeps DEF FetchWrites
  <2>4. CASE fetches' = [fetches EXCEPT ![g].at = "digest"] /\ UNCHANGED updater
    <3>1. /\ fetches' = [fetches EXCEPT ![g] = [at |-> "digest", of |-> fetches[g].of]]
          /\ [at |-> "digest", of |-> fetches[g].of] \in FetchTasks
      BY <2>4, MovesOn
    <3>2. QED  BY <1>0, <1>3, <2>1, <2>2, <2>4, <3>1, FetchStepKeeps DEF FetchWrites
  <2>5. CASE UNCHANGED <<fetches, updater>>
    <3>1. fetches' = [fetches EXCEPT ![g] = fetches[g]]
      BY <2>5 DEF UpdatesInv, UpdatesTypes
    <3>2. QED  BY <1>0, <1>3, <2>1, <2>2, <2>5, <3>1, FetchStepKeeps DEF FetchWrites
  <2>6. QED  BY <1>3, <2>3, <2>4, <2>5 DEF FetchWrites
<1>4. CASE FetchVerifies(g)
  <2>1. fetches[g].at = "digest"
    BY <1>4 DEF FetchVerifies
  <2>2. part' \in [Versions -> Stored0]
    BY <1>0, <1>4 DEF FetchVerifies, Stored0
  <2>3. CASE Fail(g)
    BY <1>0, <1>4, <2>1, <2>2, <2>3, FailFacts, FetchStepKeeps DEF FetchVerifies
  <2>4. CASE fetches' = [fetches EXCEPT ![g].at = "verified"] /\ UNCHANGED updater
    <3>1. /\ fetches' = [fetches EXCEPT ![g] = [at |-> "verified", of |-> fetches[g].of]]
          /\ [at |-> "verified", of |-> fetches[g].of] \in FetchTasks
      BY <2>4, MovesOn
    <3>2. QED  BY <1>0, <1>4, <2>1, <2>2, <2>4, <3>1, FetchStepKeeps DEF FetchVerifies
  <2>5. QED  BY <1>4, <2>3, <2>4 DEF FetchVerifies
<1>5. CASE FetchKeeps(g)
  <2>1. fetches[g].at = "verified"
    BY <1>5 DEF FetchKeeps
  <2>2. part' \in [Versions -> Stored0] /\ package' \in [Versions -> Stored0]
    BY <1>0, <1>5 DEF FetchKeeps, Stored0
  <2>3. CASE Fail(g)
    BY <1>0, <1>5, <2>1, <2>2, <2>3, FailFacts, FetchStepKeeps DEF FetchKeeps
  <2>4. CASE fetches' = [fetches EXCEPT ![g] = NoFetch] /\ UNCHANGED updater
    BY <1>0, <1>5, <2>1, <2>2, <2>4, FetchStepKeeps DEF FetchKeeps
  <2>5. CASE fetches' = [fetches EXCEPT ![g].at = "kept"] /\ UNCHANGED updater
    <3>1. /\ fetches' = [fetches EXCEPT ![g] = [at |-> "kept", of |-> fetches[g].of]]
          /\ [at |-> "kept", of |-> fetches[g].of] \in FetchTasks
      BY <2>5, MovesOn
    <3>2. QED  BY <1>0, <1>5, <2>1, <2>2, <2>5, <3>1, FetchStepKeeps DEF FetchKeeps
  <2>6. QED  BY <1>5, <2>3, <2>4, <2>5 DEF FetchKeeps
<1>6. CASE FetchEnds(g)
  <2>1. fetches[g].at = "kept" /\ sums' \in Known
    BY <1>0, <1>6 DEF FetchEnds, FetchTasks
  <2>2. /\ updater' \in Updaters /\ updater'.release = updater.release
        /\ updater'.ready \in {updater.ready, fetches[g].of}
    BY <1>0, <1>6 DEF FetchEnds, FetchTasks, Updaters, Phases
  <2>3. QED  BY <1>0, <1>6, <2>1, <2>2, FetchStepKeeps DEF FetchEnds
<1>7. QED  BY <1>1, <1>2, <1>3, <1>4, <1>5, <1>6 DEF Fetch

LEMMA RestoreKeeps ==
    ASSUME UpdatesInv, RestoreLooks \/ RestoreEnds
    PROVE  UpdatesInv'
<1>0. updater \in Updaters /\ NoRestore \in [at : {"none", "todo", "digest"}, of : Known] /\ IsUp
  BY UpdatesNumbers DEF UpdatesInv, UpdatesTypes, NoRestore, NothingOutlives, RestoreLooks, RestoreEnds
<1>1. CASE RestoreLooks
  <2>1. /\ restoring' \in [at : {"none", "todo", "digest"}, of : Known]
        /\ restoring'.at = "digest" => IsNewer(restoring'.of)
    <3>1. CASE restoring' = NoRestore
      BY <1>0, <3>1 DEF NoRestore
    <3> DEFINE found == {v \in Versions : package[v] # "none"}
    <3>2. CASE found # {} /\ IsNewer(Max(found)) /\ restoring' = Digesting(Max(found))
      <4>1. Max(found) \in Versions
        BY <3>2, MaxFacts
      <4>2. QED  BY <3>2, <4>1, UpdatesNumbers DEF Digesting
    <3>3. QED  BY <1>1, <3>1, <3>2 DEF RestoreLooks
  <2>2. UpdatesTypes'
    BY <1>1, <2>1, UpdatesNumbers DEF UpdatesInv, UpdatesTypes, RestoreLooks, disk
  <2>3. NothingOld' /\ NothingOutlives' /\ NoReinstall'
    BY <1>0, <1>1, <2>1 DEF UpdatesInv, NothingOld, NothingOutlives, NoReinstall, RestoreLooks, IsNewer, IsUp
  <2>4. QED  BY <2>2, <2>3 DEF UpdatesInv
<1>2. CASE RestoreEnds
  <2>1. /\ updater' \in Updaters /\ updater'.release = updater.release
        /\ updater'.ready \in {updater.ready, restoring.of}
    BY <1>0, <1>2 DEF RestoreEnds, Updaters, Phases, UpdatesInv, UpdatesTypes
  <2>2. UpdatesTypes'
    BY <1>0, <1>2, <2>1, UpdatesNumbers DEF UpdatesInv, UpdatesTypes, RestoreEnds, disk
  <2>3. updater'.ready # 0 => IsNewer(updater'.ready)
    BY <1>2, <2>1 DEF UpdatesInv, NothingOld, RestoreEnds
  <2>4. NothingOld' /\ NothingOutlives' /\ NoReinstall'
    BY <1>0, <1>2, <2>1, <2>3
    DEF UpdatesInv, NothingOld, NothingOutlives, NoReinstall, RestoreEnds, NoRestore, IsNewer, IsUp
  <2>5. QED  BY <2>2, <2>4 DEF UpdatesInv
<1>3. QED  BY <1>1, <1>2

(* The handover: the installer gets the package that was ready.            *)
LEMMA InstallKeeps ==
    ASSUME UpdatesInv, Install
    PROVE  UpdatesInv'
<1>1. /\ updater' \in Updaters /\ updater'.release = updater.release /\ updater'.ready = updater.ready
      /\ applying' = [at |-> "record", of |-> updater.ready, tag |-> updater.tag]
      /\ updater.ready \in Known /\ updater.tag \in Known /\ updater.ready # 0
  BY DEF UpdatesInv, UpdatesTypes, Install, Updaters, Phases, Busy
<1>2. UpdatesTypes'
  BY <1>1, UpdatesNumbers DEF UpdatesInv, UpdatesTypes, Install, disk
<1>3. NothingOld' /\ NothingOutlives' /\ NoReinstall'
  BY <1>1 DEF UpdatesInv, NothingOld, NothingOutlives, NoReinstall, Install, IsNewer, IsUp
<1>4. QED  BY <1>2, <1>3 DEF UpdatesInv

Handovers == [at : {"none", "record", "spawn", "spawned", "opened", "failed"}, of : Known, tag : Known]

LEMMA ApplyKeeps ==
    ASSUME UpdatesInv, Apply
    PROVE  UpdatesInv'
<1>0. applying \in Handovers /\ updater \in Updaters /\ installers \in [Handoffs -> Installers]
  BY DEF UpdatesInv, UpdatesTypes, Handovers
<1>1. CASE ApplyFails
  <2>1. /\ applying' \in Handovers /\ applying'.of = applying.of /\ applying.at # "none"
    BY <1>0, <1>1 DEF ApplyFails, Handovers
  <2>2. UpdatesTypes'
    BY <1>1, <2>1 DEF UpdatesInv, UpdatesTypes, ApplyFails, disk, Handovers
  <2>3. NothingOld' /\ NothingOutlives' /\ NoReinstall'
    BY <1>1, <2>1 DEF UpdatesInv, NothingOld, NothingOutlives, NoReinstall, ApplyFails, IsNewer, IsUp
  <2>4. QED  BY <2>2, <2>3 DEF UpdatesInv
<1>2. CASE ApplyRecords
  <2>1. /\ applying' \in Handovers /\ applying'.of = applying.of /\ applying.at # "none"
        /\ applying.tag \in Known
    BY <1>0, <1>2 DEF ApplyRecords, Handovers
  <2>2. UpdatesTypes'
    BY <1>2, <2>1 DEF UpdatesInv, UpdatesTypes, ApplyRecords, Handovers
  <2>3. NothingOld' /\ NothingOutlives' /\ NoReinstall'
    BY <1>2, <2>1 DEF UpdatesInv, NothingOld, NothingOutlives, NoReinstall, ApplyRecords, IsNewer, IsUp
  <2>4. QED  BY <2>2, <2>3 DEF UpdatesInv
<1>3. CASE ApplyEnds
  <2>1. /\ applying' \in Handovers /\ applying'.at = "none"
    BY <1>0, <1>3 DEF ApplyEnds, Handovers
  <2>2. updater' \in Updaters /\ updater'.release = updater.release /\ updater'.ready = updater.ready
    <3>1. Outcome[applying.at] \in Phases
      BY <1>3 DEF ApplyEnds, Outcome, Phases
    <3>2. QED  BY <1>0, <1>3, <3>1 DEF ApplyEnds, Updaters
  <2>3. UpdatesTypes'
    BY <1>3, <2>1, <2>2 DEF UpdatesInv, UpdatesTypes, ApplyEnds, disk, Handovers
  <2>4. IsUp
    BY <1>3 DEF UpdatesInv, NothingOutlives, ApplyEnds, Outcome
  <2>5. NothingOld' /\ NothingOutlives' /\ NoReinstall'
    BY <1>3, <2>1, <2>2, <2>4
    DEF UpdatesInv, NothingOld, NothingOutlives, NoReinstall, ApplyEnds, IsNewer, IsUp
  <2>6. QED  BY <2>3, <2>5 DEF UpdatesInv
<1>4. CASE \E h \in Handoffs : ApplySpawns(h)
  <2>1. PICK h \in Handoffs : ApplySpawns(h)
    BY <1>4
  <2> DEFINE new == [at |-> "waiting", of |-> applying.of, from |-> program.running,
                     start |-> program.start, verified |-> package[applying.of] = "whole"]
  <2>2. /\ applying' \in Handovers /\ applying'.of = applying.of /\ applying.at # "none"
        /\ applying.of \in Known
    BY <1>0, <2>1 DEF ApplySpawns, Handovers
  <2>3. new \in Installers
    <3>1. program.running \in Known /\ program.start \in Nat
      BY DEF UpdatesInv, UpdatesTypes
    <3>2. (package[applying.of] = "whole") \in BOOLEAN
      OBVIOUS
    <3>3. QED  BY <2>2, <3>1, <3>2 DEF Installers
  <2>4. installers' = [installers EXCEPT ![h] = new]
    BY <2>1 DEF ApplySpawns
  <2>5. new.of > new.from
    BY <2>2 DEF UpdatesInv, NothingOld, IsNewer
  <2> HIDE DEF new
  <2>6. installers' \in [Handoffs -> Installers] /\ NoReinstall'
    BY <1>0, <2>3, <2>4, <2>5 DEF UpdatesInv, NoReinstall
  <2>7. UpdatesTypes'
    BY <2>1, <2>2, <2>6 DEF UpdatesInv, UpdatesTypes, ApplySpawns, disk, Handovers
  <2>8. NothingOld' /\ NothingOutlives'
    BY <2>1, <2>2 DEF UpdatesInv, NothingOld, NothingOutlives, ApplySpawns, IsNewer, IsUp
  <2>9. QED  BY <2>6, <2>7, <2>8 DEF UpdatesInv
<1>5. QED  BY <1>1, <1>2, <1>3, <1>4 DEF Apply

(* The end of the program leaves nothing that the next start could meet.   *)
LEMMA OverKeeps ==
    ASSUME UpdatesInv, Over
    PROVE  UpdatesInv'
<1>1. /\ updater' = Fresh /\ Fresh \in Updaters /\ Fresh.release = 0 /\ Fresh.ready = 0
      /\ NoRestore \in [at : {"none", "todo", "digest"}, of : Known] /\ NoRestore.at = "none"
      /\ NoFetch \in FetchTasks /\ NoFetch.at = "none"
  BY UpdatesNumbers DEF Over, Fresh, Updaters, Phases, NoRestore, NoFetch, FetchTasks
<1>2. program' \in [installed : Versions, running : Known, start : Nat]
  BY UpdatesNumbers DEF UpdatesInv, UpdatesTypes, Over
<1>3. UpdatesTypes'
  BY <1>1, <1>2, UpdatesNumbers DEF UpdatesInv, UpdatesTypes, Over, disk, NoCheck, Phases
<1>4. NothingOld'
  BY <1>1 DEF Over, NothingOld
<1>5. NothingOutlives' /\ NoReinstall'
  BY <1>1 DEF UpdatesInv, Over, NothingOutlives, NoReinstall, NoCheck
<1>6. QED  BY <1>3, <1>4, <1>5 DEF UpdatesInv

LEMMA PresentKeeps ==
    ASSUME UpdatesInv, Present
    PROVE  UpdatesInv'
<1>1. CASE Over
  BY <1>1, OverKeeps
<1>2. CASE /\ shown' = Offer(updater.phase)
           /\ UNCHANGED <<latest, program, updater, skipped, looking, restoring, fetches, applying,
                          disk, installers, clicks>>
  <2>1. shown' \in Phases
    BY <1>2 DEF Offer, Phases, Busy
  <2>2. QED  BY <1>2, <2>1 DEF UpdatesInv, UpdatesTypes, NothingOld, NothingOutlives, NoReinstall,
                IsNewer, IsUp, disk
<1>3. QED  BY <1>1, <1>2 DEF Present

(* A start runs what is installed, and begins without a version.           *)
LEMMA StartUpKeeps ==
    ASSUME UpdatesInv, StartUp
    PROVE  UpdatesInv'
<1>1. /\ updater' \in Updaters /\ updater'.release = 0 /\ updater'.ready = 0
  BY UpdatesNumbers DEF StartUp, Fresh, Updaters, Phases
<1>2. /\ restoring' \in [at : {"none", "todo", "digest"}, of : Known] /\ restoring'.at = "todo"
  BY UpdatesNumbers DEF StartUp, NoRestore
<1>3. /\ program' \in [installed : Versions, running : Known, start : Nat] /\ program'.running # 0
      /\ pending' = 0
  <2>1. ASSUME NEW p \in [installed : Versions, running : Known, start : Nat],
               NEW r \in Known, NEW n \in Nat
        PROVE  /\ [p EXCEPT !.running = r, !.start = n]
                      \in [installed : Versions, running : Known, start : Nat]
               /\ [p EXCEPT !.running = r, !.start = n].running = r
    OBVIOUS
  <2>2. program \in [installed : Versions, running : Known, start : Nat]
    BY DEF UpdatesInv, UpdatesTypes
  <2>3. program.installed \in Known /\ program.installed # 0 /\ program.start + 1 \in Nat
    BY <2>2, UpdatesNumbers DEF Versions
  <2>4. program' = [program EXCEPT !.running = program.installed, !.start = program.start + 1]
    BY DEF StartUp
  <2>5. QED  BY <2>1, <2>2, <2>3, <2>4 DEF StartUp
<1>4. /\ applying.at = "none" /\ ~looking.on
      /\ \A g \in Fetches : fetches[g].at = "none"
  BY DEF UpdatesInv, NothingOutlives, StartUp, NoFetch
<1>5. UpdatesTypes'
  BY <1>1, <1>2, <1>3, UpdatesNumbers DEF UpdatesInv, UpdatesTypes, StartUp
<1>6. NothingOld' /\ NoReinstall'
  BY <1>1, <1>2, <1>4 DEF UpdatesInv, NothingOld, NoReinstall, StartUp
<1>7. NothingOutlives'
  BY <1>3 DEF NothingOutlives, IsUp
<1>8. QED  BY <1>5, <1>6, <1>7 DEF UpdatesInv

(* The world: a release, and the end of an installer.                      *)
LEMMA WorldKeeps ==
    ASSUME UpdatesInv, Publish \/ \E h \in Handoffs : InstallerEnds(h) \/ InstallerGivesUp(h)
    PROVE  UpdatesInv'
<1>0. /\ installers \in [Handoffs -> Installers]
      /\ program \in [installed : Versions, running : Known, start : Nat]
  BY DEF UpdatesInv, UpdatesTypes
<1>1. CASE Publish
  <2>1. latest' \in Versions
    BY <1>1, UpdatesNumbers DEF UpdatesInv, UpdatesTypes, Publish, Versions
  <2>2. QED  BY <1>1, <2>1 DEF UpdatesInv, UpdatesTypes, NothingOld, NothingOutlives, NoReinstall,
                Publish, IsNewer, IsUp, disk
<1>2. ASSUME NEW h \in Handoffs, InstallerEnds(h) \/ InstallerGivesUp(h)
      PROVE  UpdatesInv'
  <2>1. PICK at \in {"done", "failed", "vain"} :
            installers' = [installers EXCEPT ![h].at = at] /\ installers[h].at = "waiting"
    BY <1>2 DEF InstallerEnds, InstallerGivesUp
  <2>2. ASSUME NEW i \in Installers
        PROVE  /\ [i EXCEPT !.at = at] \in Installers
               /\ [i EXCEPT !.at = at].of = i.of /\ [i EXCEPT !.at = at].from = i.from
    BY DEF Installers
  <2>3. /\ installers' \in [Handoffs -> Installers]
        /\ \A i \in Handoffs : /\ installers'[i].of = installers[i].of
                               /\ installers'[i].from = installers[i].from
                               /\ installers'[i].at # "none" => installers[i].at # "none"
    <3>1. installers' = [installers EXCEPT ![h] = [installers[h] EXCEPT !.at = at]]
      BY <2>1
    <3>2. QED  BY <1>0, <2>1, <2>2, <3>1
  <2>4. installers[h].of \in Versions
    <3>1. installers[h].of > installers[h].from
      BY <2>1 DEF UpdatesInv, NoReinstall
    <3>2. installers[h].of \in Known /\ installers[h].from \in Known
      BY <1>0 DEF Installers
    <3>3. QED  BY <3>1, <3>2, UpdatesNumbers DEF Known, Versions
  <2>5. program' \in [installed : Versions, running : Known, start : Nat] /\ program'.running = program.running
    BY <1>0, <1>2, <2>4 DEF InstallerEnds, InstallerGivesUp
  <2>6. UNCHANGED <<latest, updater, skipped, shown, looking, restoring, fetches, applying, part,
                    package, sums, pending, clicks>>
    BY <1>2 DEF InstallerEnds, InstallerGivesUp, disk
  <2>7. UpdatesTypes'
    BY <2>3, <2>5, <2>6 DEF UpdatesInv, UpdatesTypes
  <2>8. NothingOld' /\ NothingOutlives'
    BY <2>5, <2>6 DEF UpdatesInv, NothingOld, NothingOutlives, IsNewer, IsUp
  <2>9. NoReinstall'
    BY <2>3 DEF UpdatesInv, NoReinstall
  <2>10. QED  BY <2>7, <2>8, <2>9 DEF UpdatesInv
<1>3. QED  BY <1>1, <1>2

LEMMA UpdatesStep == UpdatesInv /\ [UpdatesNext]_updateVars => UpdatesInv'
<1> SUFFICES ASSUME UpdatesInv, [UpdatesNext]_updateVars PROVE UpdatesInv'
  OBVIOUS
<1>1. CASE \E manual \in BOOLEAN : Check(manual)
  BY <1>1, CheckKeeps
<1>2. CASE CheckEnds
  BY <1>2, CheckEndsKeeps
<1>3. CASE Skip
  BY <1>3, SkipKeeps
<1>4. CASE Download \/ CancelDownload
  BY <1>4, DownloadKeeps, CancelKeeps
<1>5. CASE \E g \in Fetches : Fetch(g)
  BY <1>5, FetchTaskKeeps
<1>6. CASE RestoreLooks \/ RestoreEnds
  BY <1>6, RestoreKeeps
<1>7. CASE Install \/ Apply
  BY <1>7, InstallKeeps, ApplyKeeps
<1>8. CASE Present
  BY <1>8, PresentKeeps
<1>9. CASE Quit
  BY <1>9, OverKeeps DEF Quit
<1>10. CASE StartUp
  BY <1>10, StartUpKeeps
<1>11. CASE Publish \/ \E h \in Handoffs : InstallerEnds(h) \/ InstallerGivesUp(h)
  BY <1>11, WorldKeeps
<1>12. CASE UNCHANGED updateVars
  BY <1>12 DEF updateVars, UpdatesInv, UpdatesTypes, NothingOld, NothingOutlives, NoReinstall, IsNewer, IsUp
<1>13. QED
  BY <1>1, <1>2, <1>3, <1>4, <1>5, <1>6, <1>7, <1>8, <1>9, <1>10, <1>11, <1>12 DEF UpdatesNext

(* The variables of the updater have their types.                          *)
THEOREM UpdatesTypeCorrect == UpdatesSpec => []UpdatesTypes
<1>1. UpdatesInv => UpdatesTypes
  BY DEF UpdatesInv
<1>2. QED  BY <1>1, UpdatesInitHolds, UpdatesStep, PTL DEF UpdatesSpec

(* An installer is only ever started with a package that is newer than the *)
(* program that starts it (src/update/): however many releases, downloads, *)
(* starts, crashes and earlier installers there were, and whatever they    *)
(* left in the download directory.                                         *)
THEOREM UpdatesGoForward == UpdatesSpec => []NoReinstall
<1>1. UpdatesInv => NoReinstall
  BY DEF UpdatesInv
<1>2. QED  BY <1>1, UpdatesInitHolds, UpdatesStep, PTL DEF UpdatesSpec

--------------------------------------------------------------------------------
(* The files of the configuration.                                         *)

FileNames == {"gui", "identity", "trusted", "main"}
Windows == {"default", "user"}
FileStates == [main : {"none", "legacy", "current"}, gui : Windows \cup {"none"}, identity : Nat,
               trusted : [there : BOOLEAN, of : SUBSET Peers]]
Configs == [identity : Nat, gui : Windows \cup {"none"}, trusted : SUBSET Peers]
Writings == [on : BOOLEAN, of : SUBSET Peers, about : SUBSET Peers]

ConfigTypes ==
    /\ files \in FileStates /\ origin \in [identity : Nat, gui : Windows]
    /\ process \in [at : {"off", "loading", "up"}, rest : Seq(FileNames)]
    /\ config \in Configs /\ copy \in [on : BOOLEAN, host : BOOLEAN, trusted : SUBSET Peers]
    /\ saves \in [Owners -> Writings] /\ told \in Seq(Peers)
    /\ spent \in [saves : Nat, crashes : Nat]
    /\ revoked \in SUBSET Peers /\ paired \in SUBSET Peers

IsToWrite(file) == \E i \in DOMAIN process.rest : process.rest[i] = file

(* A load writes the window state before anything else, so that a file of  *)
(* the old version, which has it too, is not given up before.              *)
WindowGoesFirst == \A i \in DOMAIN process.rest : process.rest[i] = "gui" => i = 1

(* What the disk holds at any moment, and so after any crash: nothing that *)
(* differs from what the user began with, and as long as the window state  *)
(* has no file, it is in the main file of the old version or was never set. *)
DiskAgrees ==
    /\ origin.identity # 0 => files.identity = origin.identity
    /\ files.gui # "none" => files.gui = origin.gui
    /\ files.gui = "none" => (files.main = "legacy" <=> origin.gui = "user")

(* What a load has read is what the disk holds, or goes to it yet.         *)
MemoryAgrees ==
    process.at # "off" =>
        /\ config.gui = origin.gui /\ config.identity # 0
        /\ files.identity # 0 => config.identity = files.identity
        /\ ~IsToWrite("identity") => files.identity # 0
        /\ ~IsToWrite("gui") => files.gui # "none"

StartIsWhole == Up => process.rest = <<>> /\ origin.identity # 0

ConfigInv == ConfigTypes /\ WindowGoesFirst /\ DiskAgrees /\ MemoryAgrees /\ StartIsWhole

LEMMA ConfigInitHolds == ConfigInit => ConfigInv
<1> SUFFICES ASSUME ConfigInit PROVE ConfigInv
  OBVIOUS
<1>1. files \in FileStates /\ origin \in [identity : Nat, gui : Windows]
  <2>1. Nothing \in [there : BOOLEAN, of : SUBSET Peers] /\ Writes({}) \in [there : BOOLEAN, of : SUBSET Peers]
    BY DEF Nothing, Writes
  <2>2. CASE /\ files = [main |-> "none", gui |-> "none", identity |-> 0, trusted |-> Nothing]
             /\ origin = [identity |-> 0, gui |-> "default"]
    BY <2>1, <2>2 DEF FileStates, Windows
  <2>3. CASE /\ files = [main |-> "legacy", gui |-> "none", identity |-> 1, trusted |-> Writes({})]
             /\ origin = [identity |-> 1, gui |-> "user"]
    BY <2>1, <2>3 DEF FileStates, Windows
  <2>4. QED  BY <2>2, <2>3 DEF ConfigInit
<1>2. saves \in [Owners -> Writings]
  BY DEF ConfigInit, Idle0, Writings
<1>3. ConfigTypes
  BY <1>1, <1>2 DEF ConfigInit, ConfigTypes, Nobody0, NoCopy, Configs
<1>4. WindowGoesFirst /\ DiskAgrees /\ MemoryAgrees /\ StartIsWhole
  BY DEF ConfigInit, WindowGoesFirst, DiskAgrees, MemoryAgrees, StartIsWhole, Up
<1>5. QED  BY <1>3, <1>4 DEF ConfigInv

(* The files a load writes: those that are missing, the window state first. *)
LEMMA ConcatFacts ==
    ASSUME NEW s \in Seq(FileNames), NEW t \in Seq(FileNames)
    PROVE  /\ s \o t \in Seq(FileNames) /\ Len(s \o t) = Len(s) + Len(t)
           /\ \A i \in 1 .. Len(s \o t) : (s \o t)[i] = IF i <= Len(s) THEN s[i] ELSE t[i - Len(s)]
           /\ Len(s) \in Nat /\ Len(t) \in Nat
OBVIOUS

LEMMA OrderFacts ==
    ASSUME NEW gui \in Seq(FileNames), NEW identity \in Seq(FileNames),
           NEW trusted \in Seq(FileNames), NEW main \in Seq(FileNames),
           Len(gui) \in {0, 1}, Len(identity) \in {0, 1}, Len(trusted) \in {0, 1}, Len(main) \in {0, 1},
           \A i \in DOMAIN identity : identity[i] = "identity",
           \A i \in DOMAIN trusted : trusted[i] = "trusted",
           \A i \in DOMAIN main : main[i] = "main"
    PROVE  LET rest == WriteOrder(gui, identity, trusted, main)
           IN /\ rest \in Seq(FileNames)
              /\ \A i \in DOMAIN rest : rest[i] = "gui" => i = 1
              /\ gui # <<>> => 1 \in DOMAIN rest /\ rest[1] = gui[1]
              /\ identity # <<>> => \E i \in DOMAIN rest : rest[i] = identity[1]
<1> DEFINE two == gui \o identity
           three == two \o trusted
           rest == three \o main
<1>1. /\ two \in Seq(FileNames) /\ Len(two) = Len(gui) + Len(identity)
      /\ \A i \in 1 .. Len(two) : two[i] = IF i <= Len(gui) THEN gui[i] ELSE identity[i - Len(gui)]
  BY ConcatFacts
<1> HIDE DEF two
<1>2. /\ three \in Seq(FileNames) /\ Len(three) = Len(two) + Len(trusted)
      /\ \A i \in 1 .. Len(three) : three[i] = IF i <= Len(two) THEN two[i] ELSE trusted[i - Len(two)]
  BY <1>1, ConcatFacts
<1> HIDE DEF three
<1>3. /\ rest \in Seq(FileNames) /\ Len(rest) = Len(three) + Len(main)
      /\ \A i \in 1 .. Len(rest) : rest[i] = IF i <= Len(three) THEN three[i] ELSE main[i - Len(three)]
  BY <1>2, ConcatFacts
<1>4. rest = WriteOrder(gui, identity, trusted, main)
  BY DEF two, three, WriteOrder
<1> HIDE DEF rest
<1>5. \A i \in DOMAIN rest : rest[i] = "gui" => i = 1
  <2> SUFFICES ASSUME NEW i \in 1 .. Len(rest), i # 1 PROVE rest[i] # "gui"
    BY <1>3
  <2>1. CASE i > Len(three)
    <3>1. i - Len(three) \in 1 .. Len(main)
      BY <1>2, <1>3, <2>1
    <3>2. QED  BY <1>3, <2>1, <3>1
  <2>2. CASE i <= Len(three) /\ i > Len(two)
    <3>1. i - Len(two) \in DOMAIN trusted /\ i \in 1 .. Len(three)
      BY <1>1, <1>2, <1>3, <2>2
    <3>2. rest[i] = trusted[i - Len(two)]
      BY <1>2, <1>3, <2>2, <3>1
    <3>3. QED  BY <3>1, <3>2
  <2>3. CASE i <= Len(two)
    <3>a. Len(gui) \in {0, 1} /\ Len(identity) \in Nat /\ Len(trusted) \in Nat /\ Len(rest) \in Nat
      BY <1>3
    <3>b. i \in Nat /\ i > 1
      BY <3>a
    <3>0. /\ i \in Nat /\ i > 1 /\ Len(gui) <= 1 /\ Len(gui) \in Nat /\ Len(identity) \in Nat
          /\ Len(trusted) \in Nat /\ Len(two) \in Nat
      BY <1>1, <3>a, <3>b
    <3>1. i \in 1 .. Len(two) /\ i \in 1 .. Len(three) /\ ~(i <= Len(gui)) /\ i <= Len(three)
      BY <1>2, <2>3, <3>0
    <3>2. rest[i] = identity[i - Len(gui)]
      BY <1>1, <1>2, <1>3, <2>3, <3>1
    <3>3. i - Len(gui) \in DOMAIN identity
      BY <1>1, <2>3, <3>0
    <3>4. QED  BY <3>2, <3>3
  <2>4. QED  BY <1>1, <1>2, <2>1, <2>2, <2>3
<1>6. gui # <<>> => 1 \in DOMAIN rest /\ rest[1] = gui[1]
  <2> SUFFICES ASSUME gui # <<>> PROVE 1 \in DOMAIN rest /\ rest[1] = gui[1]
    OBVIOUS
  <2>1. Len(gui) = 1
    OBVIOUS
  <2>2. QED  BY <1>1, <1>2, <1>3, <2>1, SMTT(30)
<1>7. identity # <<>> => \E i \in DOMAIN rest : rest[i] = identity[1]
  <2> SUFFICES ASSUME identity # <<>> PROVE \E i \in DOMAIN rest : rest[i] = identity[1]
    OBVIOUS
  <2>1. Len(identity) = 1
    OBVIOUS
  <2>2. Len(two) \in 1 .. Len(rest) /\ rest[Len(two)] = identity[1]
    BY <1>1, <1>2, <1>3, <2>1, SMTT(30)
  <2>3. QED  BY <1>3, <2>2
<1>8. QED  BY <1>3, <1>4, <1>5, <1>6, <1>7

LEMMA LoadKeeps ==
    ASSUME ConfigInv, Load
    PROVE  ConfigInv'
<1> DEFINE noIdentity == files.identity = 0 \/ files.main = "legacy"
           noTrusted == ~files.trusted.there \/ files.main = "legacy"
           g == Missing("gui", files.gui = "none")
           d == Missing("identity", noIdentity)
           t == Missing("trusted", noTrusted)
           m == Missing("main", files.main # "current")
           rest == WriteOrder(g, d, t, m)
<1>0. files \in FileStates /\ ConfigTypes /\ DiskAgrees
  BY DEF ConfigInv, ConfigTypes
<1>1. /\ g \in Seq(FileNames) /\ d \in Seq(FileNames) /\ t \in Seq(FileNames) /\ m \in Seq(FileNames)
      /\ Len(g) \in {0, 1} /\ Len(d) \in {0, 1} /\ Len(t) \in {0, 1} /\ Len(m) \in {0, 1}
      /\ \A i \in DOMAIN d : d[i] = "identity"
      /\ \A i \in DOMAIN t : t[i] = "trusted"
      /\ \A i \in DOMAIN m : m[i] = "main"
      /\ files.gui = "none" => g # <<>> /\ g[1] = "gui"
      /\ files.identity = 0 => d # <<>> /\ d[1] = "identity"
  <2>1. /\ g = <<>> \/ g = <<"gui">>
        /\ d = <<>> \/ d = <<"identity">>
        /\ t = <<>> \/ t = <<"trusted">>
        /\ m = <<>> \/ m = <<"main">>
    BY DEF Missing
  <2>2. files.gui = "none" => g = <<"gui">>
    BY DEF Missing
  <2>3. files.identity = 0 => d = <<"identity">>
    BY DEF Missing
  <2> HIDE DEF g, d, t, m
  <2>4. ASSUME NEW file \in FileNames, NEW s, s = <<>> \/ s = <<file>>
        PROVE  /\ s \in Seq(FileNames) /\ Len(s) \in {0, 1} /\ \A i \in DOMAIN s : s[i] = file
               /\ s = <<file>> => s # <<>> /\ s[1] = file
    <3>1. CASE s = <<>>
      BY <3>1
    <3>2. CASE s = <<file>>
      BY <3>2
    <3>3. QED  BY <2>4, <3>1, <3>2
  <2>5. {"gui", "identity", "trusted", "main"} \subseteq FileNames
    BY DEF FileNames
  <2>6. QED  BY <2>1, <2>2, <2>3, <2>4, <2>5
<1>2. process' = [at |-> "loading", rest |-> rest]
  BY DEF Load
<1> HIDE DEF g, d, t, m
<1>3. /\ rest \in Seq(FileNames)
      /\ \A i \in DOMAIN rest : rest[i] = "gui" => i = 1
      /\ g # <<>> => 1 \in DOMAIN rest /\ rest[1] = g[1]
      /\ d # <<>> => \E i \in DOMAIN rest : rest[i] = d[1]
  BY <1>1, OrderFacts
<1> HIDE DEF rest
<1>4. /\ config' \in Configs
      /\ config'.gui = origin.gui /\ config'.identity # 0
      /\ files.identity # 0 => config'.identity = files.identity
  <2>1. spent.crashes + 2 \in Nat /\ spent.crashes + 2 # 0
    BY <1>0 DEF ConfigTypes
  <2>2. files.trusted.of \in SUBSET Peers /\ files.identity \in Nat /\ files.gui \in Windows \cup {"none"}
    BY <1>0 DEF FileStates
  <2>3. origin.gui \in Windows
    BY <1>0 DEF ConfigTypes
  <2>4. PICK i \in Nat, w \in Windows : config' = [identity |-> i, gui |-> w, trusted |-> files.trusted.of]
                  /\ i # 0 /\ (files.identity # 0 => i = files.identity) /\ w = origin.gui
    <3>1. CASE files.identity = 0
      BY <1>0, <2>1, <2>2, <2>3, <3>1 DEF Load, DiskAgrees, Windows
    <3>2. CASE files.identity # 0
      BY <1>0, <2>1, <2>2, <2>3, <3>2 DEF Load, DiskAgrees, Windows
    <3>3. QED  BY <3>1, <3>2
  <2>5. QED  BY <2>2, <2>4 DEF Configs
<1>5. ConfigTypes'
  <2>1. revoked' \in SUBSET Peers
    BY <1>0 DEF Load, ConfigTypes
  <2>2. process' \in [at : {"off", "loading", "up"}, rest : Seq(FileNames)]
    BY <1>2, <1>3
  <2>3. QED  BY <1>0, <1>4, <2>1, <2>2 DEF ConfigTypes, Load
<1>6. WindowGoesFirst'
  BY <1>2, <1>3 DEF WindowGoesFirst
<1>7. DiskAgrees'
  BY <1>0 DEF DiskAgrees, Load
<1>8. MemoryAgrees'
  <2>1. files' = files /\ origin' = origin
    BY DEF Load
  <2>2. files.identity = 0 => IsToWrite("identity")'
    BY <1>1, <1>2, <1>3 DEF IsToWrite
  <2>3. files.gui = "none" => IsToWrite("gui")'
    BY <1>1, <1>2, <1>3 DEF IsToWrite
  <2>4. QED  BY <1>4, <2>1, <2>2, <2>3 DEF MemoryAgrees
<1>9. StartIsWhole'
  BY <1>2 DEF StartIsWhole, Up
<1>10. QED  BY <1>5, <1>6, <1>7, <1>8, <1>9 DEF ConfigInv

LEMMA TailFacts ==
    ASSUME NEW s \in Seq(FileNames), s # <<>>
    PROVE  /\ Tail(s) \in Seq(FileNames) /\ Len(Tail(s)) = Len(s) - 1
           /\ \A i \in DOMAIN Tail(s) : i + 1 \in DOMAIN s /\ Tail(s)[i] = s[i + 1]
           /\ 1 \in DOMAIN s /\ Head(s) = s[1] /\ Head(s) \in FileNames
OBVIOUS

(* One file of the load: what is still to write afterwards is what was,    *)
(* but for the file that has just been written.                            *)
LEMMA LoadWritesKeeps ==
    ASSUME ConfigInv, LoadWrites
    PROVE  ConfigInv'
<1>0. /\ ConfigTypes /\ WindowGoesFirst /\ DiskAgrees /\ MemoryAgrees
      /\ process.rest \in Seq(FileNames) /\ process.rest # <<>> /\ process.at = "loading"
      /\ files \in FileStates /\ config \in Configs
  BY DEF ConfigInv, ConfigTypes, LoadWrites
<1> DEFINE head == Head(process.rest)
<1>1. /\ Tail(process.rest) \in Seq(FileNames)
      /\ \A i \in DOMAIN Tail(process.rest) :
             i \in Nat /\ i > 0 /\ i + 1 \in DOMAIN process.rest /\ Tail(process.rest)[i] = process.rest[i + 1]
      /\ 1 \in DOMAIN process.rest /\ head = process.rest[1] /\ head \in FileNames
  BY <1>0, TailFacts
<1>2. process' = [at |-> "loading", rest |-> Tail(process.rest)]
  BY <1>0 DEF LoadWrites, ConfigTypes
<1>3. UNCHANGED <<config, copy, saves, told, spent, origin, revoked, paired>>
  BY DEF LoadWrites, memory, history
<1>4. \A file : IsToWrite(file) => head = file \/ IsToWrite(file)'
  <2> SUFFICES ASSUME NEW file, NEW i \in DOMAIN process.rest, process.rest[i] = file, head # file
               PROVE  IsToWrite(file)'
    BY DEF IsToWrite
  <2>1. i - 1 \in DOMAIN Tail(process.rest) /\ Tail(process.rest)[i - 1] = process.rest[i]
    BY <1>0, <1>1
  <2>2. QED  BY <1>2, <2>1 DEF IsToWrite
<1>5. WindowGoesFirst'
  BY <1>0, <1>1, <1>2 DEF WindowGoesFirst
<1>6. ~IsToWrite("gui")'
  BY <1>0, <1>1, <1>2 DEF WindowGoesFirst, IsToWrite
<1>7. head # "gui" => files.gui # "none"
  <2>1. head # "gui" => ~IsToWrite("gui")
    BY <1>0, <1>1 DEF WindowGoesFirst, IsToWrite
  <2>2. QED  BY <1>0, <2>1 DEF MemoryAgrees
<1>8. config.gui = origin.gui /\ config.identity # 0 /\ origin.gui \in Windows
  BY <1>0 DEF MemoryAgrees, ConfigTypes
<1>9. /\ files' \in FileStates
      /\ files'.gui = (IF head = "gui" THEN config.gui ELSE files.gui)
      /\ files'.identity = (IF head = "identity" THEN config.identity ELSE files.identity)
      /\ files'.main = (IF head = "main" THEN "current" ELSE files.main)
  <2>1. CASE head = "gui"
    <3>1. files' = [files EXCEPT !.gui = config.gui]
      BY <2>1 DEF LoadWrites
    <3>2. QED  BY <1>0, <2>1, <3>1 DEF FileStates, Configs
  <2>2. CASE head = "identity"
    <3>1. files' = [files EXCEPT !.identity = config.identity]
      BY <2>2 DEF LoadWrites
    <3>2. QED  BY <1>0, <2>2, <3>1 DEF FileStates, Configs
  <2>3. CASE head = "trusted"
    <3>1. files' = [files EXCEPT !.trusted = Writes(config.trusted)]
      BY <2>3 DEF LoadWrites
    <3>2. QED  BY <1>0, <2>3, <3>1 DEF FileStates, Configs, Writes
  <2>4. CASE head = "main"
    <3>1. files' = [files EXCEPT !.main = "current"]
      BY <2>4 DEF LoadWrites
    <3>2. QED  BY <1>0, <2>4, <3>1 DEF FileStates, Configs
  <2>5. QED  BY <1>1, <2>1, <2>2, <2>3, <2>4 DEF FileNames
<1> HIDE DEF head
<1>10. files'.gui # "none" /\ files'.gui = origin.gui
  BY <1>0, <1>7, <1>8, <1>9 DEF DiskAgrees, Windows
<1>11. /\ origin.identity # 0 => files'.identity = origin.identity
       /\ files'.identity # 0 => config.identity = files'.identity
  BY <1>0, <1>9 DEF DiskAgrees, MemoryAgrees
<1>12. ~IsToWrite("identity")' => files'.identity # 0
  BY <1>0, <1>4, <1>8, <1>9 DEF MemoryAgrees
<1>13. ConfigTypes'
  BY <1>0, <1>1, <1>2, <1>3, <1>9 DEF ConfigTypes
<1>14. DiskAgrees' /\ MemoryAgrees' /\ StartIsWhole'
  BY <1>2, <1>3, <1>8, <1>10, <1>11, <1>12 DEF DiskAgrees, MemoryAgrees, StartIsWhole, Up
<1>15. QED  BY <1>5, <1>13, <1>14 DEF ConfigInv

LEMMA LoadedKeeps ==
    ASSUME ConfigInv, Loaded
    PROVE  ConfigInv'
<1>0. ConfigTypes /\ DiskAgrees /\ MemoryAgrees /\ process.rest = <<>> /\ process.at = "loading"
  BY DEF ConfigInv, Loaded
<1>1. process' = [at |-> "up", rest |-> <<>>]
  BY <1>0 DEF Loaded, ConfigTypes
<1>2. ~IsToWrite("identity") /\ ~IsToWrite("gui")
  BY <1>0 DEF IsToWrite
<1>3. /\ config.identity # 0 /\ files.identity = config.identity /\ config.gui = origin.gui
      /\ files.gui # "none"
  BY <1>0, <1>2 DEF MemoryAgrees
<1>4. /\ origin' \in [identity : Nat, gui : Windows]
      /\ origin'.identity = config.identity /\ origin'.gui = origin.gui
  <2>1. config.identity \in Nat /\ origin \in [identity : Nat, gui : Windows]
    BY <1>0 DEF ConfigTypes, Configs
  <2>2. origin.identity # 0 => origin.identity = config.identity
    BY <1>0, <1>3 DEF DiskAgrees
  <2>3. origin' = [origin EXCEPT !.identity = config.identity]
    BY <2>1, <2>2 DEF Loaded
  <2>4. QED  BY <2>1, <2>3
<1>5. UNCHANGED <<files, config, copy, saves, told, spent, revoked, paired>>
  BY DEF Loaded, memory
<1>6. ConfigTypes'
  BY <1>0, <1>1, <1>4, <1>5 DEF ConfigTypes
<1>7. WindowGoesFirst'
  BY <1>1 DEF WindowGoesFirst
<1>8. DiskAgrees' /\ MemoryAgrees' /\ StartIsWhole'
  BY <1>0, <1>1, <1>3, <1>4, <1>5 DEF DiskAgrees, MemoryAgrees, StartIsWhole, IsToWrite
<1>9. QED  BY <1>6, <1>7, <1>8 DEF ConfigInv

LEMMA EndsKeeps ==
    ASSUME ConfigInv, Ends
    PROVE  ConfigInv'
<1>0. ConfigTypes /\ DiskAgrees
  BY DEF ConfigInv
<1>1. process' = [at |-> "off", rest |-> <<>>] /\ UNCHANGED <<files, origin, revoked, paired>>
  BY DEF Ends, history
<1>2. config' \in Configs /\ copy' \in [on : BOOLEAN, host : BOOLEAN, trusted : SUBSET Peers]
  BY DEF Ends, Nobody0, NoCopy, Configs
<1>3. saves' \in [Owners -> Writings] /\ told' \in Seq(Peers)
  BY DEF Ends, Idle0, Writings
<1>4. spent' \in [saves : Nat, crashes : Nat]
  BY <1>0 DEF Ends, ConfigTypes
<1>5. ConfigTypes'
  BY <1>0, <1>1, <1>2, <1>3, <1>4 DEF ConfigTypes
<1>6. WindowGoesFirst' /\ DiskAgrees' /\ MemoryAgrees' /\ StartIsWhole'
  BY <1>0, <1>1 DEF WindowGoesFirst, DiskAgrees, MemoryAgrees, StartIsWhole, Up
<1>7. QED  BY <1>5, <1>6 DEF ConfigInv

(* The steps of the sessions and of the user change the lists of trusted   *)
(* devices, in memory and on the disk, and nothing else that is kept.      *)
LEMMA TrustKeeps ==
    ASSUME ConfigInv,
           UNCHANGED process, origin' = origin,
           files' \in FileStates, files'.identity = files.identity, files'.gui = files.gui,
           files'.main = files.main,
           config' \in Configs, config'.identity = config.identity, config'.gui = config.gui,
           copy' \in [on : BOOLEAN, host : BOOLEAN, trusted : SUBSET Peers],
           saves' \in [Owners -> Writings], told' \in Seq(Peers),
           spent' \in [saves : Nat, crashes : Nat],
           revoked' \in SUBSET Peers, paired' \in SUBSET Peers
    PROVE  ConfigInv'
<1>1. ConfigTypes'
  BY DEF ConfigInv, ConfigTypes
<1>2. WindowGoesFirst' /\ DiskAgrees' /\ MemoryAgrees' /\ StartIsWhole'
  BY DEF ConfigInv, WindowGoesFirst, DiskAgrees, MemoryAgrees, StartIsWhole, Up, IsToWrite
<1>3. QED  BY <1>1, <1>2 DEF ConfigInv

LEMMA SessionKeeps ==
    ASSUME ConfigInv, StopSession \/ \E host \in BOOLEAN : StartSession(host)
    PROVE  ConfigInv'
<1>0. /\ files \in FileStates /\ config \in Configs /\ saves \in [Owners -> Writings]
      /\ told \in Seq(Peers) /\ spent \in [saves : Nat, crashes : Nat]
      /\ revoked \in SUBSET Peers /\ paired \in SUBSET Peers
  BY DEF ConfigInv, ConfigTypes
<1>1. CASE StopSession
  <2>a. copy' \in [on : BOOLEAN, host : BOOLEAN, trusted : SUBSET Peers] /\ told' \in Seq(Peers)
    BY <1>1 DEF StopSession, NoCopy
  <2>b. saves' \in [Owners -> Writings]
    <3>1. Idle0 \in Writings
      BY DEF Idle0, Writings
    <3>2. QED  BY <1>0, <1>1, <3>1 DEF StopSession
  <2>1. spent' \in [saves : Nat, crashes : Nat]
    BY <1>0, <1>1 DEF StopSession
  <2>2. UNCHANGED <<files, process, config, origin, revoked, paired>>
    BY <1>1 DEF StopSession, history
  <2>3. QED  BY <1>0, <2>a, <2>b, <2>1, <2>2, TrustKeeps
<1>2. ASSUME NEW host \in BOOLEAN, StartSession(host)
      PROVE  ConfigInv'
  <2>1. copy' \in [on : BOOLEAN, host : BOOLEAN, trusted : SUBSET Peers]
    BY <1>0, <1>2 DEF StartSession, Configs
  <2>2. UNCHANGED <<files, process, config, saves, told, spent, origin, revoked, paired>>
    BY <1>2 DEF StartSession, history
  <2>3. QED  BY <1>0, <2>1, <2>2, TrustKeeps
<1>3. QED  BY <1>1, <1>2

LEMMA ListKeeps ==
    ASSUME ConfigInv, NEW d \in Peers, Remember(d) \/ Note(d) \/ Revoke(d)
    PROVE  ConfigInv'
<1>0. /\ files \in FileStates /\ config \in Configs /\ saves \in [Owners -> Writings]
      /\ copy \in [on : BOOLEAN, host : BOOLEAN, trusted : SUBSET Peers]
      /\ told \in Seq(Peers) /\ spent \in [saves : Nat, crashes : Nat]
      /\ revoked \in SUBSET Peers /\ paired \in SUBSET Peers
  BY DEF ConfigInv, ConfigTypes
<1>1. spent' \in [saves : Nat, crashes : Nat]
  BY <1>0 DEF Remember, Note, Revoke
<1>2. ASSUME NEW list \in SUBSET Peers, NEW devices \in SUBSET Peers
      PROVE  Saving(list, devices) \in Writings
  BY DEF Saving, Writings
<1>3. CASE Remember(d)
  <2>1. Saving(copy.trusted \cup {d}, {d}) \in Writings
    BY <1>0, <1>2
  <2>2. /\ copy' \in [on : BOOLEAN, host : BOOLEAN, trusted : SUBSET Peers]
        /\ saves' \in [Owners -> Writings] /\ revoked' \in SUBSET Peers
    BY <1>0, <1>3, <2>1 DEF Remember
  <2>3. UNCHANGED <<files, process, config, told, origin, paired>>
    BY <1>3 DEF Remember
  <2>4. QED  BY <1>0, <1>1, <2>2, <2>3, TrustKeeps
<1>4. CASE Note(d)
  <2>1. Saving(copy.trusted, {}) \in Writings
    BY <1>0, <1>2
  <2>2. saves' \in [Owners -> Writings]
    BY <1>0, <1>4, <2>1 DEF Note
  <2>3. UNCHANGED <<files, process, config, copy, told, origin, revoked, paired>>
    BY <1>4 DEF Note, history
  <2>4. QED  BY <1>0, <1>1, <2>2, <2>3, TrustKeeps
<1>5. CASE Revoke(d)
  <2>1. Saving(config.trusted \ {d}, {d}) \in Writings
    BY <1>0, <1>2 DEF Configs
  <2>2. saves' \in [Owners -> Writings] /\ paired' \in SUBSET Peers
    BY <1>0, <1>5, <2>1 DEF Revoke
  <2>3. /\ config' \in Configs /\ config'.identity = config.identity /\ config'.gui = config.gui
    <3>1. config' = [config EXCEPT !.trusted = config.trusted \ {d}]
      BY <1>5 DEF Revoke
    <3>2. QED  BY <1>0, <3>1 DEF Configs
  <2>4. UNCHANGED <<files, process, copy, told, origin, revoked>>
    BY <1>5 DEF Revoke
  <2>5. QED  BY <1>0, <1>1, <2>2, <2>3, <2>4, TrustKeeps
<1>6. QED  BY <1>3, <1>4, <1>5

(* SetToSeq chooses a sequence; of the devices of a list there is one.     *)
LEMMA SetToSeqFacts ==
    ASSUME NEW S, IsFiniteSet(S)
    PROVE  SetToSeq(S) \in Seq(S)
<1>1. /\ Cardinality(S) \in Nat
      /\ \E f : f \in Bijection(1 .. Cardinality(S), S)
  BY FS_CardinalityType DEF ExistsBijection
<1>2. PICK f \in [1 .. Cardinality(S) -> S] : IsInjective(f)
  BY <1>1, ZenonT(30) DEF Bijection, Injection, Surjection, IsInjective
<1>3. SetToSeq(S) \in [1 .. Cardinality(S) -> S]
  BY <1>2 DEF SetToSeq
<1>4. QED  BY <1>1, <1>3

LEMMA SavedKeeps ==
    ASSUME ConfigInv, NEW o \in Owners, Saved(o)
    PROVE  ConfigInv'
<1>0. /\ files \in FileStates /\ config \in Configs /\ saves \in [Owners -> Writings]
      /\ copy \in [on : BOOLEAN, host : BOOLEAN, trusted : SUBSET Peers]
      /\ told \in Seq(Peers) /\ spent \in [saves : Nat, crashes : Nat]
      /\ revoked \in SUBSET Peers /\ paired \in SUBSET Peers
      /\ saves[o].of \in SUBSET Peers /\ saves[o].about \in SUBSET Peers
  BY DEF ConfigInv, ConfigTypes, Writings
<1>1. /\ files' \in FileStates /\ files'.identity = files.identity /\ files'.gui = files.gui
      /\ files'.main = files.main
  <2>1. CASE files' = files
    BY <1>0, <2>1
  <2>2. CASE files' = [files EXCEPT !.trusted = Writes(saves[o].of)]
    BY <1>0, <2>2 DEF FileStates, Writes
  <2>3. QED  BY <2>1, <2>2 DEF Saved
<1>2. saves' \in [Owners -> Writings]
  <2>1. Idle0 \in Writings
    BY DEF Idle0, Writings
  <2>2. QED  BY <1>0, <2>1 DEF Saved
<1>3. revoked' \in SUBSET Peers /\ paired' \in SUBSET Peers
  BY <1>0 DEF Saved
<1>4. told' \in Seq(Peers)
  <2>1. SetToSeq(saves[o].about) \in Seq(Peers)
    <3>1. IsFiniteSet(saves[o].about)
      BY <1>0, ConfigAssumption, FS_Subset
    <3>2. SetToSeq(saves[o].about) \in Seq(saves[o].about)
      BY <3>1, SetToSeqFacts
    <3>3. QED  BY <1>0, <3>2
  <2>2. QED  BY <1>0, <2>1 DEF Saved
<1>5. UNCHANGED <<process, config, copy, spent, origin>>
  BY DEF Saved
<1>6. QED  BY <1>0, <1>1, <1>2, <1>3, <1>4, <1>5, TrustKeeps

LEMMA HearKeeps ==
    ASSUME ConfigInv, Hear
    PROVE  ConfigInv'
<1>0. /\ files \in FileStates /\ config \in Configs /\ saves \in [Owners -> Writings]
      /\ copy \in [on : BOOLEAN, host : BOOLEAN, trusted : SUBSET Peers]
      /\ told \in Seq(Peers) /\ spent \in [saves : Nat, crashes : Nat]
      /\ revoked \in SUBSET Peers /\ paired \in SUBSET Peers
  BY DEF ConfigInv, ConfigTypes
<1>1. /\ copy' \in [on : BOOLEAN, host : BOOLEAN, trusted : SUBSET Peers]
      /\ told' \in Seq(Peers)
  BY <1>0 DEF Hear
<1>2. UNCHANGED <<files, process, config, saves, spent, origin, revoked, paired>>
  BY DEF Hear, history
<1>3. QED  BY <1>0, <1>1, <1>2, TrustKeeps

LEMMA ConfigStep == ConfigInv /\ [ConfigNext]_configVars => ConfigInv'
<1> SUFFICES ASSUME ConfigInv, [ConfigNext]_configVars PROVE ConfigInv'
  OBVIOUS
<1>1. CASE Load \/ LoadWrites
  BY <1>1, LoadKeeps, LoadWritesKeeps
<1>2. CASE Loaded \/ Ends
  BY <1>2, LoadedKeeps, EndsKeeps
<1>3. CASE StopSession \/ \E host \in BOOLEAN : StartSession(host)
  BY <1>3, SessionKeeps
<1>4. CASE \E d \in Peers : Remember(d) \/ Note(d) \/ Revoke(d)
  BY <1>4, ListKeeps
<1>5. CASE \E o \in Owners : Saved(o)
  BY <1>5, SavedKeeps
<1>6. CASE Hear
  BY <1>6, HearKeeps
<1>7. CASE UNCHANGED configVars
  BY <1>7 DEF configVars, ConfigInv, ConfigTypes, WindowGoesFirst, DiskAgrees, MemoryAgrees,
              StartIsWhole, Up, IsToWrite
<1>8. QED  BY <1>1, <1>2, <1>3, <1>4, <1>5, <1>6, <1>7 DEF ConfigNext

(* The variables of the configuration have their types.                    *)
THEOREM ConfigTypeCorrect == ConfigSpec => []ConfigTypes
<1>1. ConfigInv => ConfigTypes
  BY DEF ConfigInv
<1>2. QED  BY <1>1, ConfigInitHolds, ConfigStep, PTL DEF ConfigSpec

(* A program that has started (src/config/) is the device it was before,   *)
(* with the window the user left, whichever starts before it were cut      *)
(* short between any two of its files, and however many devices were       *)
(* trusted and revoked meanwhile.                                          *)
THEOREM StartsAsItWas == ConfigSpec => []NothingForgotten
<1>1. ConfigInv => NothingForgotten
  <2> SUFFICES ASSUME ConfigInv, Up PROVE NothingForgotten
    BY DEF NothingForgotten
  <2>1. ~IsToWrite("identity") /\ ~IsToWrite("gui") /\ process.at # "off" /\ origin.identity # 0
    BY DEF ConfigInv, StartIsWhole, IsToWrite, Up
  <2>2. QED  BY <2>1 DEF ConfigInv, MemoryAgrees, DiskAgrees, NothingForgotten
<1>2. QED  BY <1>1, ConfigInitHolds, ConfigStep, PTL DEF ConfigSpec

--------------------------------------------------------------------------------
(* The clipboard of the system.                                            *)

Numbers == 0 .. MaxApplications     \* the user, or an application
Contents == [text : 0 .. 2, files : SUBSET Files]
Readings == [payload : Contents, by : Numbers]
Boards == [text : 0 .. 2, files : SUBSET Files, batch : Numbers, by : Numbers]
Jobs == [at : {"idle", "compare", "store", "set", "note", "gone"}, id : Numbers, payload : Contents,
         strict : BOOLEAN, written : SUBSET Files, batch : Numbers, tries : Nat]

OsTypes ==
    /\ windows \in BOOLEAN /\ board \in Boards /\ job \in Jobs
    /\ \A b \in cache : b.id \in Numbers
    /\ result \in [id : Numbers, payload : Contents, strict : BOOLEAN, ok : BOOLEAN]
    /\ sync \in [last : Contents, suppress : Contents]
    /\ watch \in [on : BOOLEAN, unread : BOOLEAN]
    /\ reports \in Seq(Readings) /\ passed \in Numbers
    /\ used \in [applications : Numbers, copies : Nat]

(* Applications are numbered in the order in which they come, the clipboard *)
(* was written by an earlier one until the one under way writes it.        *)
NumbersGrow ==
    /\ board.by <= used.applications /\ result.id <= used.applications
    /\ result.strict => result.id # 0
    /\ job.at # "idle" => job.id = used.applications /\ result.id < job.id
    /\ job.at \in {"compare", "store", "set"} => board.by < job.id

(* What is on its way to the clipboard: the files of a strict payload are  *)
(* complete, and their batch is in the cache, which only the next          *)
(* application prunes.                                                     *)
WorkIsWhole ==
    /\ job.at \in {"set", "note"} =>
           /\ job.batch = 0 \/ job.batch \in Ids
           /\ job.strict => job.written = Stored(job.payload.files)
    /\ job.at = "note" /\ board.by = job.id =>
           board.text = job.payload.text /\ board.files = job.written /\ board.batch = job.batch

OsInv == OsTypes /\ NumbersGrow /\ WorkIsWhole /\ ConfirmedIsWhole

LEMMA OsNumbers ==
    /\ MaxApplications \in Nat /\ MaxCopies \in Nat /\ 0 \in Numbers
    /\ Copies \subseteq Contents /\ Payloads \subseteq Contents
    /\ NoContent \in Contents /\ NoSignature \in Contents
<1>1. \A f \in {Renamed, "one", "two", "large"} : f \in Files
  BY OsAssumption
<1>2. Twins \in SUBSET Files
  BY OsAssumption
<1>3. \A t \in 0 .. 2, s \in SUBSET Files : Payload(t, s) \in Contents
  BY DEF Payload, Contents
<1>4. QED
  BY <1>1, <1>2, <1>3, OsAssumption DEF Copies, Payloads, NoContent, NoSignature, NoText, Numbers

LEMMA StoredType == ASSUME NEW s \in SUBSET Files PROVE Stored(s) \in SUBSET Files
BY OsAssumption DEF Stored

LEMMA CapturedType == ASSUME OsInv PROVE Captured \in Contents
<1>1. board.text \in 0 .. 2 /\ board.files \in SUBSET Files
  BY DEF OsInv, OsTypes, Boards
<1>2. \A t \in 0 .. 2, s \in SUBSET Files : Payload(t, s) \in Contents
  BY DEF Payload, Contents
<1>3. {f \in board.files : IsLeft /\ Weight[f] <= MaxFileBytes} \in SUBSET Files
  BY <1>1
<1>4. QED  BY <1>1, <1>2, <1>3 DEF Captured, NoText

LEMMA OsInitHolds == OsInit => OsInv
<1> SUFFICES ASSUME OsInit PROVE OsInv
  OBVIOUS
<1>1. board \in Boards /\ job \in Jobs
  BY OsNumbers DEF OsInit, Boards, Jobs, NoJob, User
<1>2. OsTypes
  BY <1>1, OsNumbers DEF OsInit, OsTypes, User
<1>3. NumbersGrow /\ WorkIsWhole /\ ConfirmedIsWhole
  BY OsNumbers DEF OsInit, NumbersGrow, WorkIsWhole, ConfirmedIsWhole, NoJob, User
<1>4. QED  BY <1>2, <1>3 DEF OsInv

(* Reading changes neither the clipboard nor the application under way.    *)
LEMMA ReadingKeeps ==
    ASSUME OsInv, UNCHANGED <<windows, board, cache, job, result, used>>,
           sync' \in [last : Contents, suppress : Contents],
           watch' \in [on : BOOLEAN, unread : BOOLEAN],
           reports' \in Seq(Readings), passed' \in Numbers
    PROVE  OsInv'
<1>1. OsTypes'
  BY DEF OsInv, OsTypes
<1>2. NumbersGrow' /\ WorkIsWhole' /\ ConfirmedIsWhole'
  BY DEF OsInv, NumbersGrow, WorkIsWhole, ConfirmedIsWhole, Ids, IsLeft
<1>3. QED  BY <1>1, <1>2 DEF OsInv

LEMMA PassOnFacts ==
    ASSUME OsInv, NEW p \in Contents, NEW by \in Numbers, PassOn(p, by)
    PROVE  sync' \in [last : Contents, suppress : Contents] /\ passed' \in Numbers
<1>1. sync \in [last : Contents, suppress : Contents] /\ passed \in Numbers
  BY DEF OsInv, OsTypes
<1>2. sync' \in [last : Contents, suppress : Contents]
  BY <1>1, OsNumbers DEF PassOn, NoteLocal
<1>3. passed' \in {passed, by}
  BY DEF PassOn
<1>4. QED  BY <1>1, <1>2, <1>3

LEMMA WatcherKeeps ==
    ASSUME OsInv, StartWatcher \/ StopWatcher \/ WatcherReads \/ TakeReport
    PROVE  OsInv'
<1>0. /\ Captured \in Contents /\ board.by \in Numbers /\ passed \in Numbers
      /\ sync \in [last : Contents, suppress : Contents]
      /\ watch \in [on : BOOLEAN, unread : BOOLEAN]
      /\ reports \in Seq(Readings)
  BY CapturedType DEF OsInv, OsTypes, Boards
<1>1. CASE StartWatcher
  <2>1. sync' \in [last : Contents, suppress : Contents] /\ passed' \in Numbers
    <3>1. CASE UNCHANGED <<sync, passed>>
      BY <1>0, <3>1
    <3>2. CASE PassOn(Captured, board.by)
      BY <1>0, <3>2, PassOnFacts
    <3>3. QED  BY <1>1, <3>1, <3>2 DEF StartWatcher
  <2>2. watch' \in [on : BOOLEAN, unread : BOOLEAN]
    BY <1>1 DEF StartWatcher
  <2>3. UNCHANGED <<windows, board, cache, job, result, used, reports>>
    BY <1>1 DEF StartWatcher
  <2>4. QED  BY <1>0, <2>1, <2>2, <2>3, ReadingKeeps
<1>2. CASE StopWatcher
  <2>1. watch' \in [on : BOOLEAN, unread : BOOLEAN] /\ reports' = <<>>
    BY <1>2 DEF StopWatcher
  <2>2. UNCHANGED <<windows, board, cache, job, result, used, sync, passed>>
    BY <1>2 DEF StopWatcher
  <2>3. reports' \in Seq(Readings)
    BY <2>1
  <2>4. QED  BY <1>0, <2>1, <2>2, <2>3, ReadingKeeps
<1>3. CASE WatcherReads
  <2>1. watch' \in [on : BOOLEAN, unread : BOOLEAN]
    BY <1>0, <1>3 DEF WatcherReads
  <2>2. UNCHANGED <<windows, board, cache, job, result, used, sync, passed>>
    BY <1>3 DEF WatcherReads
  <2>3. reports' \in Seq(Readings)
    <3>1. [payload |-> Captured, by |-> board.by] \in Readings
      BY <1>0 DEF Readings
    <3>2. reports' = reports \/ reports' = Append(reports, [payload |-> Captured, by |-> board.by])
      BY <1>3 DEF WatcherReads
    <3>3. QED  BY <1>0, <3>1, <3>2
  <2>4. QED  BY <1>0, <2>1, <2>2, <2>3, ReadingKeeps
<1>4. CASE TakeReport
  <2>1. /\ Head(reports) \in Readings
        /\ reports' \in Seq(Readings)
    BY <1>0, <1>4 DEF TakeReport
  <2>2. sync' \in [last : Contents, suppress : Contents] /\ passed' \in Numbers
    BY <1>4, <2>1, PassOnFacts DEF TakeReport, Readings
  <2>3. UNCHANGED <<windows, board, cache, job, result, used, watch>>
    BY <1>4 DEF TakeReport
  <2>4. QED  BY <1>0, <2>1, <2>2, <2>3, ReadingKeeps
<1>5. QED  BY <1>1, <1>2, <1>3, <1>4

(* What the user copies is nobody's application.                           *)
LEMMA CopyKeeps ==
    ASSUME OsInv, NEW p \in Copies, UserCopies(p)
    PROVE  OsInv'
<1>0. p \in Contents /\ used \in [applications : Numbers, copies : Nat] /\ job \in Jobs
      /\ watch \in [on : BOOLEAN, unread : BOOLEAN]
  BY OsNumbers DEF OsInv, OsTypes
<1>1. board' = [text |-> p.text, files |-> p.files, batch |-> 0, by |-> 0]
  BY DEF UserCopies, PutOnBoard, User
<1>2. board' \in Boards /\ board'.by = 0
  BY <1>0, <1>1, OsNumbers DEF Boards, Contents
<1>3. watch' \in [on : BOOLEAN, unread : BOOLEAN]
  BY <1>0 DEF UserCopies, PutOnBoard
<1>4. used' \in [applications : Numbers, copies : Nat] /\ used'.applications = used.applications
  BY <1>0, OsNumbers DEF UserCopies
<1>5. UNCHANGED <<windows, cache, job, result, sync, reports, passed>>
  BY DEF UserCopies
<1>6. OsTypes'
  BY <1>2, <1>3, <1>4, <1>5 DEF OsInv, OsTypes
<1>7. job.id \in Nat /\ result.id \in Nat /\ used.applications \in Nat
  BY OsNumbers DEF OsInv, OsTypes, Jobs, Numbers
<1>8. NumbersGrow'
  BY <1>2, <1>4, <1>5, <1>7 DEF OsInv, NumbersGrow
<1>9. job.at # "idle" => job.id # 0
  BY <1>7 DEF OsInv, NumbersGrow
<1>10. WorkIsWhole' /\ ConfirmedIsWhole'
  BY <1>2, <1>5, <1>9 DEF OsInv, WorkIsWhole, ConfirmedIsWhole, NumbersGrow, Ids
<1>11. QED  BY <1>6, <1>8, <1>10 DEF OsInv

(* The steps of the application under way change what it is, what it said  *)
(* when it was over, and sync.                                             *)
LEMMA JobTypes ==
    ASSUME OsInv, board' \in Boards, job' \in Jobs, \A b \in cache' : b.id \in Numbers,
           result' \in [id : Numbers, payload : Contents, strict : BOOLEAN, ok : BOOLEAN],
           sync' \in [last : Contents, suppress : Contents],
           watch' \in [on : BOOLEAN, unread : BOOLEAN],
           used' \in [applications : Numbers, copies : Nat],
           UNCHANGED <<windows, reports, passed>>
    PROVE  OsTypes'
BY DEF OsInv, OsTypes

LEMMA OsFacts ==
    ASSUME OsInv
    PROVE  /\ board \in Boards /\ job \in Jobs /\ \A b \in cache : b.id \in Numbers
           /\ result \in [id : Numbers, payload : Contents, strict : BOOLEAN, ok : BOOLEAN]
           /\ sync \in [last : Contents, suppress : Contents]
           /\ watch \in [on : BOOLEAN, unread : BOOLEAN]
           /\ used \in [applications : Numbers, copies : Nat]
           /\ Numbers \subseteq Nat /\ 0 \in Numbers
           /\ job.id \in Nat /\ result.id \in Nat /\ board.by \in Nat /\ used.applications \in Nat
           /\ job.payload \in Contents /\ job.strict \in BOOLEAN /\ job.id \in Numbers
           /\ NoJob \in Jobs /\ NoJob.at = "idle" /\ NoSignature \in Contents
<1>1. Numbers \subseteq Nat
  BY OsNumbers DEF Numbers
<1>2. board \in Boards /\ job \in Jobs /\ OsTypes
  BY DEF OsInv, OsTypes
<1>3. NoJob \in Jobs /\ NoJob.at = "idle"
  BY OsNumbers DEF NoJob, Jobs
<1>4. QED  BY <1>1, <1>2, <1>3, OsNumbers DEF OsTypes, Jobs, Boards

LEMMA JobEndsFacts ==
    ASSUME OsInv, NEW ok \in BOOLEAN, JobEnds(ok)
    PROVE  /\ result' \in [id : Numbers, payload : Contents, strict : BOOLEAN, ok : BOOLEAN]
           /\ result'.id = job.id /\ result'.ok = ok /\ result'.strict = job.strict
           /\ result'.payload = job.payload
           /\ job' \in Jobs /\ job'.at = "idle"
BY OsFacts DEF JobEnds

LEMMA ApplyPayloadKeeps ==
    ASSUME OsInv, NEW p \in Payloads, NEW strict \in BOOLEAN, ApplyPayload(p, strict)
    PROVE  OsInv'
<1> DEFINE id == used.applications + 1
           kept == [p EXCEPT !.files = {f \in @ : IsSmall(f)}]
<1>1. /\ job.at = "idle" /\ id \in Numbers /\ id > used.applications
      /\ used' = [used EXCEPT !.applications = id]
      /\ UNCHANGED <<windows, board, cache, sync, watch, reports, passed>>
  BY OsFacts, OsNumbers DEF ApplyPayload, Numbers
<1>2. p \in Contents /\ kept \in Contents
  BY OsNumbers DEF Contents
<1>3. used' \in [applications : Numbers, copies : Nat] /\ used'.applications = id
  BY <1>1, OsFacts
<1> HIDE DEF id, kept
<1>4. board.by < id /\ result.id < id
  BY <1>1, OsFacts DEF OsInv, NumbersGrow
<1>5. CASE /\ UNCHANGED job
           /\ \E ok \in BOOLEAN : result' = [id |-> id, payload |-> p, strict |-> strict, ok |-> ok]
  <2>1. /\ result' \in [id : Numbers, payload : Contents, strict : BOOLEAN, ok : BOOLEAN]
        /\ result'.id = id
    BY <1>1, <1>2, <1>5
  <2>2. OsTypes'
    BY <1>1, <1>3, <1>5, <2>1, OsFacts, JobTypes
  <2>3. NumbersGrow' /\ WorkIsWhole' /\ ConfirmedIsWhole'
    BY <1>1, <1>3, <1>4, <1>5, <2>1, OsFacts
    DEF OsInv, NumbersGrow, WorkIsWhole, ConfirmedIsWhole
  <2>4. QED  BY <2>2, <2>3 DEF OsInv
<1>6. CASE /\ UNCHANGED result
           /\ job' = [NoJob EXCEPT !.at = "compare", !.id = id, !.payload = kept, !.strict = strict]
  <2>1. /\ job' \in Jobs /\ job'.at = "compare" /\ job'.id = id
    <3>1. ASSUME NEW j \in Jobs
          PROVE  LET n == [j EXCEPT !.at = "compare", !.id = id, !.payload = kept, !.strict = strict]
                 IN n \in Jobs /\ n.at = "compare" /\ n.id = id
      BY <1>1, <1>2 DEF Jobs
    <3>2. QED  BY <1>6, <3>1, OsFacts
  <2>2. OsTypes'
    BY <1>1, <1>3, <1>6, <2>1, OsFacts, JobTypes
  <2>3. NumbersGrow' /\ WorkIsWhole' /\ ConfirmedIsWhole'
    BY <1>1, <1>3, <1>4, <1>6, <2>1, OsFacts
    DEF OsInv, NumbersGrow, WorkIsWhole, ConfirmedIsWhole
  <2>4. QED  BY <2>2, <2>3 DEF OsInv
<1>7. QED
  BY <1>5, <1>6 DEF ApplyPayload, id, kept

(* A payload that is there already is confirmed with the number of an      *)
(* application that wrote nothing.                                         *)
LEMMA CompareKeeps ==
    ASSUME OsInv, Compare
    PROVE  OsInv'
<1>1. job.at = "compare" /\ UNCHANGED <<windows, board, cache, watch, reports, passed, used>>
  BY DEF Compare
<1>2. CASE JobEnds(TRUE) /\ sync' = [last |-> job.payload, suppress |-> NoSignature]
  <2>1. OsTypes'
    BY <1>1, <1>2, OsFacts, JobEndsFacts, JobTypes
  <2>2. board.by < result'.id /\ result'.id = used.applications
    BY <1>1, <1>2, JobEndsFacts DEF OsInv, NumbersGrow
  <2>3. job'.at = "idle" /\ board' = board /\ used' = used /\ board.by \in Nat /\ used.applications \in Nat
    BY <1>1, <1>2, OsFacts, JobEndsFacts
  <2>4. NumbersGrow' /\ WorkIsWhole' /\ ConfirmedIsWhole'
    BY <2>2, <2>3 DEF NumbersGrow, WorkIsWhole, ConfirmedIsWhole
  <2>5. QED  BY <2>1, <2>4 DEF OsInv
<1>3. CASE job' = [job EXCEPT !.at = "store"] /\ UNCHANGED <<result, sync>>
  <2>1. job' \in Jobs /\ job'.at = "store" /\ job'.id = job.id
    BY <1>3, OsFacts DEF Jobs
  <2>2. OsTypes'
    BY <1>1, <1>3, <2>1, OsFacts, JobTypes
  <2>3. NumbersGrow' /\ WorkIsWhole' /\ ConfirmedIsWhole'
    BY <1>1, <1>3, <2>1 DEF OsInv, NumbersGrow, WorkIsWhole, ConfirmedIsWhole
  <2>4. QED  BY <2>2, <2>3 DEF OsInv
<1>4. QED  BY <1>2, <1>3 DEF Compare

(* An application that failed confirms nothing.                            *)
LEMMA FailedKeeps ==
    ASSUME OsInv, job.at \in {"store", "set"}, JobEnds(FALSE),
           \A b \in cache' : b.id \in Numbers,
           UNCHANGED <<windows, board, sync, watch, reports, passed, used>>
    PROVE  OsInv'
<1>1. OsTypes'
  BY OsFacts, JobEndsFacts, JobTypes
<1>2. board.by < result'.id /\ result'.id = used.applications /\ ~result'.ok
  BY JobEndsFacts DEF OsInv, NumbersGrow
<1>3. job'.at = "idle" /\ board.by \in Nat /\ used.applications \in Nat
  BY OsFacts, JobEndsFacts
<1>4. NumbersGrow' /\ WorkIsWhole' /\ ConfirmedIsWhole'
  BY <1>2, <1>3 DEF NumbersGrow, WorkIsWhole, ConfirmedIsWhole
<1>5. QED  BY <1>1, <1>4 DEF OsInv

(* Pruning spares the batch in use, whatever else it removes.              *)
LEMMA PrunedFacts ==
    ASSUME NEW batches, NEW active, NEW k
    PROVE  /\ Pruned(batches, active, k) \subseteq batches
           /\ \A b \in batches : b.id = active => b \in Pruned(batches, active, k)
BY DEF Pruned, Removable

LEMMA StoreKeeps ==
    ASSUME OsInv, Store
    PROVE  OsInv'
<1>1. PICK written \in SUBSET job.payload.files, k \in 0 .. MaxApplications :
          LET batch == IF written = {} THEN 0 ELSE job.id
              added == IF written = {} THEN cache
                       ELSE cache \cup {[id |-> batch, size |-> SizeOf(written)]}
          IN /\ cache' = Pruned(added, batch, k)
             /\ IF ~IsPruned(cache', batch) \/ ~IsComplete(written) THEN JobEnds(FALSE)
                ELSE /\ job' = [job EXCEPT !.at = "set", !.written = Stored(written), !.batch = batch]
                     /\ UNCHANGED result
  BY DEF Store
<1>2. job.at = "store" /\ UNCHANGED <<windows, board, sync, watch, reports, passed, used>>
  BY DEF Store
<1> DEFINE batch == IF written = {} THEN 0 ELSE job.id
           new == [id |-> batch, size |-> SizeOf(written)]
           added == IF written = {} THEN cache ELSE cache \cup {new}
<1>3. batch \in Numbers /\ new.id = batch
  BY OsFacts
<1>4. cache' = Pruned(added, batch, k)
  BY <1>1
<1>5. \/ JobEnds(FALSE)
      \/ /\ IsComplete(written) /\ UNCHANGED result
         /\ job' = [job EXCEPT !.at = "set", !.written = Stored(written), !.batch = batch]
  BY <1>1
<1> HIDE DEF new
<1>6. (\A b \in added : b.id \in Numbers) /\ (batch = 0 \/ new \in added)
  BY <1>3, OsFacts
<1> HIDE DEF batch, added
<1>7. (\A b \in cache' : b.id \in Numbers) /\ (batch = 0 \/ batch \in Ids')
  <2>1. \A b \in cache' : b.id \in Numbers
    BY <1>4, <1>6, PrunedFacts
  <2>2. batch # 0 => new \in cache'
    BY <1>3, <1>4, <1>6, PrunedFacts
  <2>3. QED  BY <1>3, <2>1, <2>2 DEF Ids
<1>8. CASE JobEnds(FALSE)
  BY <1>2, <1>7, <1>8, FailedKeeps
<1>9. CASE /\ IsComplete(written) /\ UNCHANGED result
           /\ job' = [job EXCEPT !.at = "set", !.written = Stored(written), !.batch = batch]
  <2>1. Stored(written) \in SUBSET Files
    BY OsFacts, StoredType DEF Contents
  <2>2. /\ job' \in Jobs /\ job'.at = "set" /\ job'.id = job.id /\ job'.strict = job.strict
        /\ job'.payload = job.payload /\ job'.written = Stored(written) /\ job'.batch = batch
    BY <1>3, <1>9, <2>1, OsFacts DEF Jobs
  <2>3. OsTypes'
    BY <1>2, <1>7, <1>9, <2>2, OsFacts, JobTypes
  <2>4. NumbersGrow'
    BY <1>2, <1>9, <2>2 DEF OsInv, NumbersGrow
  <2>5. job.strict => Stored(written) = Stored(job.payload.files)
    BY <1>9 DEF IsComplete
  <2>6. WorkIsWhole' /\ ConfirmedIsWhole'
    BY <1>7, <2>2, <2>5 DEF WorkIsWhole, ConfirmedIsWhole
  <2>7. QED  BY <2>3, <2>4, <2>6 DEF OsInv
<1>10. QED  BY <1>5, <1>8, <1>9

LEMMA SetKeeps ==
    ASSUME OsInv, SetBoard \/ SetFails
    PROVE  OsInv'
<1>0. job.at = "set" /\ UNCHANGED <<windows, cache, sync, reports, passed, used>>
  BY DEF SetBoard, SetFails
<1>1. CASE SetBoard
  <2>1. job' = [job EXCEPT !.at = "note"] /\ UNCHANGED result
    BY <1>1 DEF SetBoard
  <2>2. /\ job' \in Jobs /\ job'.at = "note" /\ job'.id = job.id /\ job'.strict = job.strict
        /\ job'.payload = job.payload /\ job'.written = job.written /\ job'.batch = job.batch
    BY <2>1, OsFacts DEF Jobs
  <2>3. board.by < job.id /\ job.id = used.applications
    BY <1>0 DEF OsInv, NumbersGrow
  <2>4. CASE UNCHANGED <<board, watch>>
    <3>1. OsTypes'
      BY <1>0, <2>1, <2>2, <2>4, OsFacts, JobTypes
    <3>2. NumbersGrow'
      BY <1>0, <2>1, <2>2, <2>3, <2>4 DEF OsInv, NumbersGrow
    <3>3. board'.by # job'.id
      BY <2>2, <2>3, <2>4, OsFacts
    <3>4. WorkIsWhole' /\ ConfirmedIsWhole'
      BY <1>0, <2>2, <3>3 DEF OsInv, WorkIsWhole, ConfirmedIsWhole, Ids
    <3>5. QED  BY <3>1, <3>2, <3>4 DEF OsInv
  <2>5. CASE PutOnBoard(Payload(job.payload.text, job.written), job.batch, job.id)
    <3>1. /\ board' = [text |-> job.payload.text, files |-> job.written, batch |-> job.batch, by |-> job.id]
          /\ watch' = [watch EXCEPT !.unread = watch.on]
      BY <2>5 DEF PutOnBoard, Payload
    <3>2. board' \in Boards /\ watch' \in [on : BOOLEAN, unread : BOOLEAN]
      BY <3>1, OsFacts DEF Boards, Jobs, Contents
    <3>3. OsTypes'
      BY <1>0, <2>1, <2>2, <3>2, OsFacts, JobTypes
    <3>4. NumbersGrow'
      BY <1>0, <2>1, <2>2, <2>3, <3>1, OsFacts DEF OsInv, NumbersGrow
    <3>5. WorkIsWhole' /\ ConfirmedIsWhole'
      BY <1>0, <2>2, <3>1 DEF OsInv, WorkIsWhole, ConfirmedIsWhole, Ids
    <3>6. QED  BY <3>3, <3>4, <3>5 DEF OsInv
  <2>6. QED  BY <1>1, <2>4, <2>5 DEF SetBoard
<1>2. CASE SetFails
  <2>1. UNCHANGED <<board, watch>>
    BY <1>2 DEF SetFails
  <2>2. CASE JobEnds(FALSE)
    BY <1>0, <2>1, <2>2, FailedKeeps, OsFacts
  <2>3. CASE job' = [job EXCEPT !.tries = job.tries + 1] /\ UNCHANGED result
    <3>1. ASSUME NEW n \in Nat, NEW j \in Jobs
          PROVE  LET m == [j EXCEPT !.tries = n]
                 IN /\ m \in Jobs /\ m.at = j.at /\ m.id = j.id /\ m.strict = j.strict
                    /\ m.payload = j.payload /\ m.written = j.written /\ m.batch = j.batch
      BY DEF Jobs
    <3>2. job.tries + 1 \in Nat
      BY OsFacts DEF Jobs
    <3>3. /\ job' \in Jobs /\ job'.at = job.at /\ job'.id = job.id /\ job'.strict = job.strict
          /\ job'.payload = job.payload /\ job'.written = job.written /\ job'.batch = job.batch
      BY <2>3, <3>1, <3>2, OsFacts
    <3>4. OsTypes'
      BY <1>0, <2>1, <2>3, <3>3, OsFacts, JobTypes
    <3>5. NumbersGrow' /\ WorkIsWhole' /\ ConfirmedIsWhole'
      BY <1>0, <2>1, <2>3, <3>3 DEF OsInv, NumbersGrow, WorkIsWhole, ConfirmedIsWhole, Ids
    <3>6. QED  BY <3>4, <3>5 DEF OsInv
  <2>4. QED  BY <1>2, <2>2, <2>3 DEF SetFails
<1>3. QED  BY <1>1, <1>2

(* The confirmation: if the clipboard still has what the application wrote, *)
(* it has all of it.                                                       *)
LEMMA NoteKeeps ==
    ASSUME OsInv, NoteRemote
    PROVE  OsInv'
<1>1. /\ job.at = "note" /\ JobEnds(TRUE)
      /\ sync' = [last |-> job.payload, suppress |-> job.payload]
      /\ UNCHANGED <<windows, board, cache, watch, reports, passed, used>>
  BY DEF NoteRemote
<1>2. OsTypes'
  BY <1>1, OsFacts, JobEndsFacts, JobTypes
<1>3. /\ result'.id = job.id /\ result'.payload = job.payload /\ result'.strict = job.strict
      /\ job'.at = "idle"
  BY <1>1, JobEndsFacts
<1>4. job.id = used.applications /\ result.id < job.id
  BY <1>1 DEF OsInv, NumbersGrow
<1>5. NumbersGrow'
  BY <1>1, <1>3, <1>4, OsFacts DEF OsInv, NumbersGrow
<1>6. ConfirmedIsWhole'
  BY <1>1, <1>3 DEF OsInv, WorkIsWhole, ConfirmedIsWhole, IsLeft, Ids
<1>7. WorkIsWhole'
  BY <1>3 DEF WorkIsWhole
<1>8. QED  BY <1>2, <1>5, <1>6, <1>7 DEF OsInv

LEMMA OsStep == OsInv /\ [OsNext]_osVars => OsInv'
<1> SUFFICES ASSUME OsInv, [OsNext]_osVars PROVE OsInv'
  OBVIOUS
<1>1. CASE StartWatcher \/ StopWatcher \/ WatcherReads \/ TakeReport
  BY <1>1, WatcherKeeps
<1>2. CASE \E p \in Copies : UserCopies(p)
  BY <1>2, CopyKeeps
<1>3. CASE \E p \in Payloads, strict \in BOOLEAN : ApplyPayload(p, strict)
  BY <1>3, ApplyPayloadKeeps
<1>4. CASE Compare
  BY <1>4, CompareKeeps
<1>5. CASE Store
  BY <1>5, StoreKeeps
<1>6. CASE SetBoard \/ SetFails
  BY <1>6, SetKeeps
<1>7. CASE NoteRemote
  BY <1>7, NoteKeeps
<1>8. CASE UNCHANGED osVars
  BY <1>8 DEF osVars, OsInv, OsTypes, NumbersGrow, WorkIsWhole, ConfirmedIsWhole, IsLeft, Ids
<1>9. QED  BY <1>1, <1>2, <1>3, <1>4, <1>5, <1>6, <1>7, <1>8 DEF OsNext

(* The variables of the clipboard have their types.                        *)
THEOREM ClipboardTypeCorrect == OsSpec => []OsTypes
<1>1. OsInv => OsTypes
  BY DEF OsInv
<1>2. QED  BY <1>1, OsInitHolds, OsStep, PTL DEF OsSpec

(* What apply_payload_to_clipboard has confirmed of a reliable payload can *)
(* be pasted whole until something else is copied or applied (clipboard.rs): *)
(* none of its files is missing, and prune_clipboard_cache has removed none, *)
(* for any sizes, limits and numbers of payloads and copies.               *)
THEOREM ConfirmedStaysWhole == OsSpec => []ConfirmedIsWhole
<1>1. OsInv => ConfirmedIsWhole
  BY DEF OsInv
<1>2. QED  BY <1>1, OsInitHolds, OsStep, PTL DEF OsSpec

--------------------------------------------------------------------------------
(* Input on macOS.                                                         *)

MacRecords == [tap : {"off", "on", "paused"}, active : BOOLEAN, pressed : SUBSET Inputs,
               injected : SUBSET Inputs]
Struck == [of : Macs, key : Inputs, down : BOOLEAN, active : BOOLEAN, chord : BOOLEAN]
MailInputs == [is : {"input"}, key : Inputs, down : BOOLEAN]
MailEvents == [is : {"emergency", "failed"}] \cup MailInputs
SenderAt == {"crossing", "snapped", "hiding", "keeping", "sending", "swapping", "showing"}
Stages == SenderAt \cup {"watching", "posting", "toClean", "stopping", "gone"}
LoopRecords == [of : Macs, role : {"send", "receive"}, at : Stages,
                blocks : BOOLEAN, pressed : SUBSET Inputs, told : SUBSET Inputs,
                missed : SUBSET Inputs, secure : BOOLEAN, ends : BOOLEAN,
                next : {"none", "watching", "toClean"}]
Spares == [{"strokes", "turns", "mishaps", "faults"} -> Nat]
Keyboards == [down : SUBSET Inputs, local : SUBSET Inputs, held : SUBSET Inputs,
           unheard : SUBSET Inputs, blurred : SUBSET Inputs, lost : SUBSET Inputs]
Pointers == [hides : Nat, forced : BOOLEAN, coupled : BOOLEAN, failed : BOOLEAN]
Keepers == [of : Macs, at : {"looks", "asserts"}] \cup {[of |-> 0, at |-> "none"]}

\* Either role is only where its loop goes.
RightStage(s) ==
    /\ s.role = "receive" => s.at \notin SenderAt
    /\ s.role = "send" => s.at # "posting"
    /\ s.at \in {"swapping", "showing"} => s.next # "none"

MacTypes ==
    /\ mac \in [Macs -> MacRecords] /\ keepers \in [DOMAIN keepers -> Keepers]
    /\ pointer0 \in Pointers /\ board0 \in Keyboards
    /\ tapped = <<>> \/ \E e \in Struck : tapped = <<e>> /\ (e.chord => e.key = MacHotkey)
    /\ side \in LoopRecords /\ RightStage(side)
    /\ mail \in Seq(MailEvents) /\ secure \in BOOLEAN /\ macSpare \in Spares

\* The callback of k is under way.
Striking(k) == tapped # <<>> /\ tapped[1].key = k

\* Of a modifier the system knows what the user holds.
LocalInv == \A k \in MacModifiers : Striking(k) \/ (k \in board0.local <=> k \in board0.down)

\* What was posted and not yet let go of is noted, or was refused.
LetGo == {"watching", "stopping", "gone"}
InjectedInv ==
    side.role = "receive" =>
        /\ board0.held \subseteq board0.lost \cup MyMac.injected
        /\ side.at \in LetGo => MyMac.injected = {}

\* Only the platform of the loop captures.  While the cursor is hidden a keeper keeps it so; how
\* deep it is hidden grows only with the calls that fail.
CaptureOn == {"hiding", "keeping", "sending", "swapping"}
ActiveInv == \A i \in Macs : mac[i].active <=> (i = side.of /\ side.at \in CaptureOn)
Calm == {"watching", "posting", "toClean", "stopping", "gone", "crossing", "snapped"}
Deep == {"keeping", "sending", "swapping", "showing"}
HiddenInv ==
    /\ side.at \in {"keeping", "sending", "swapping"} => pointer0.hides > 0 /\ ~pointer0.coupled
    /\ side.at = "sending" => \E n \in DOMAIN keepers : keepers[n].of = side.of /\ keepers[n].at # "none"
    /\ side.at \in Calm => pointer0.failed \/ (Visible(pointer0) /\ pointer0.coupled)
DepthInv ==
    /\ macSpare.faults <= 7
    /\ pointer0.hides + macSpare.faults <= IF side.at \in Deep THEN 9 ELSE 8

\* What the mail says of k when it is read.
Speaks(k, i) == mail[i].is = "input" /\ mail[i].key = k
Silent(k) == \A i \in DOMAIN mail : ~Speaks(k, i)
Says(k, v) == \E i \in DOMAIN mail : /\ Speaks(k, i) /\ mail[i].down = v
                                     /\ \A j \in DOMAIN mail : i < j => ~Speaks(k, j)

\* A callback reports what is so, what is heard is noted, what the mail says in the crossing is
\* noted and of buttons, and from the snapshot on the peer knows it or will.
RingsTrue == \A k \in Inputs : Striking(k) /\ k \notin board0.blurred =>
                                   (tapped[1].down <=> k \in board0.down)
Clear(k) == ~(Striking(k) /\ tapped[1].of = side.of) /\ k \notin board0.unheard \cup board0.blurred
NotedInv ==
    /\ RingsTrue
    /\ ~side.blocks => \A k \in Mapped : Clear(k) => (k \in MyMac.pressed <=> k \in board0.down)
CrossingInv ==
    side.at = "crossing" =>
        /\ tapped # <<>> => ~tapped[1].active
        /\ \A k \in Mapped : \/ Silent(k)
                             \/ k \in MacButtons /\ \E v \in BOOLEAN : (v <=> k \in MyMac.pressed) /\ Says(k, v)
Telling == {"snapped", "hiding", "keeping", "sending"}
ToldInv ==
    side.at \in Telling /\ ~side.blocks =>
        \A k \in Mapped \ side.missed : Clear(k) =>
            \E v \in BOOLEAN : /\ v <=> k \in board0.down
                               /\ Says(k, v) \/ (Silent(k) /\ (k \in side.told <=> v))

HeardInv == NotedInv /\ CrossingInv /\ ToldInv
CursorInv == HiddenInv /\ DepthInv
MacInv == MacTypes /\ LocalInv /\ InjectedInv /\ ActiveInv /\ HeardInv

LEMMA SpendsSpare ==
    ASSUME macSpare \in Spares, NEW what \in {"strokes", "turns", "mishaps", "faults"}, MacSpends(what)
    PROVE  /\ macSpare' \in Spares /\ macSpare'.faults <= macSpare.faults
           /\ what = "faults" => macSpare'.faults + 1 = macSpare.faults
<1>1. macSpare[what] \in Nat /\ macSpare[what] > 0
  BY DEF MacSpends, Spares
<1>2. PICK n \in Nat : n = macSpare[what] - 1
  BY <1>1
<1>3. macSpare' = [macSpare EXCEPT ![what] = n]
  BY <1>2 DEF MacSpends
<1>4. macSpare' \in Spares
  BY <1>3 DEF Spares
<1>5. macSpare.faults \in Nat
  BY DEF Spares
<1>6. QED  BY <1>1, <1>2, <1>3, <1>4, <1>5 DEF Spares

\* The loop moves on, and nothing else of it.
LEMMA SideMoves ==
    ASSUME side \in LoopRecords, NEW stage \in Stages, SideAt(stage)
    PROVE  /\ side' \in LoopRecords /\ side'.at = stage /\ side'.of = side.of /\ side'.role = side.role
           /\ side'.blocks = side.blocks /\ side'.pressed = side.pressed /\ side'.told = side.told
           /\ side'.missed = side.missed /\ side'.secure = side.secure /\ side'.next = side.next
BY DEF SideAt, LoopRecords

\* One platform is changed.
LEMMA MacMoves ==
    ASSUME mac \in [Macs -> MacRecords], NEW i \in Macs, NEW m \in MacRecords,
           mac' = [mac EXCEPT ![i] = m]
    PROVE  /\ mac' \in [Macs -> MacRecords] /\ mac'[i] = m
           /\ \A j \in Macs : j # i => mac'[j] = mac[j]
OBVIOUS

LEMMA TypeFacts ==
    ASSUME MacTypes
    PROVE  /\ mac \in [Macs -> MacRecords] /\ board0 \in Keyboards /\ pointer0 \in Pointers
           /\ keepers \in [DOMAIN keepers -> Keepers] /\ mail \in Seq(MailEvents)
           /\ macSpare \in Spares /\ side \in LoopRecords /\ side.of \in Macs /\ side.at \in Stages
           /\ side.next \in {"none", "watching", "toClean"} /\ MyMac \in MacRecords
           /\ side.role \in {"send", "receive"} /\ secure \in BOOLEAN
BY DEF MacTypes, LoopRecords, MyMac

--------------------------------------------------------------------------------
(* What a step keeps when it leaves alone what a part of the invariant is  *)
(* about.                                                                  *)

LEMMA LocalKept ==
    ASSUME LocalInv, UNCHANGED tapped, board0'.local = board0.local, board0'.down = board0.down
    PROVE  LocalInv'
BY DEF LocalInv, Striking

LEMMA InjectedKept ==
    ASSUME InjectedInv, side'.role = side.role, board0'.held = board0.held, board0'.lost = board0.lost,
           mac'[side'.of].injected = mac[side.of].injected,
           side.role = "receive" /\ side'.at \in LetGo => side.at \in LetGo
    PROVE  InjectedInv'
BY DEF InjectedInv, MyMac

LEMMA ActiveKept ==
    ASSUME ActiveInv, side'.of = side.of, \A i \in Macs : mac'[i].active = mac[i].active,
           side'.at \in CaptureOn <=> side.at \in CaptureOn
    PROVE  ActiveInv'
BY DEF ActiveInv

\* What the peer is told stays right.
LEMMA HeardKept ==
    ASSUME HeardInv, UNCHANGED <<tapped, mail>>, side'.of = side.of, side'.blocks = side.blocks,
           side'.told = side.told, side'.missed = side.missed,
           board0'.down = board0.down, board0'.unheard = board0.unheard, board0'.blurred = board0.blurred,
           mac'[side.of].pressed = mac[side.of].pressed,
           side'.at = "crossing" => side.at = "crossing",
           side'.at \in Telling => side.at \in Telling
    PROVE  HeardInv'
<1>1. \A k : Clear(k)' <=> Clear(k)
  BY DEF Clear, Striking
<1>2. \A k : Silent(k)' <=> Silent(k)
  BY DEF Silent, Speaks
<1>3. \A k, v : Says(k, v)' <=> Says(k, v)
  BY DEF Says, Speaks
<1>4. MyMac'.pressed = MyMac.pressed
  BY DEF MyMac
<1>5. RingsTrue'
  BY DEF HeardInv, NotedInv, RingsTrue, Striking
<1>6. QED  BY <1>1, <1>2, <1>3, <1>4, <1>5 DEF HeardInv, NotedInv, CrossingInv, ToldInv

LEMMA CursorKept ==
    ASSUME MacTypes, CursorInv, UNCHANGED <<pointer0, keepers>>, side'.of = side.of,
           macSpare' \in Spares, macSpare'.faults <= macSpare.faults,
           side'.at \in {"keeping", "sending", "swapping"} => side.at \in {"keeping", "sending", "swapping"},
           side'.at = "sending" => side.at = "sending",
           side'.at \in Calm => side.at \in Calm,
           side.at \in Deep => side'.at \in Deep
    PROVE  CursorInv'
<1>1. HiddenInv'
  BY DEF CursorInv, HiddenInv
<1>2. /\ macSpare.faults \in Nat /\ macSpare'.faults \in Nat /\ pointer0.hides \in Nat
      /\ pointer0'.hides = pointer0.hides
  BY TypeFacts DEF Spares, Pointers
<1>3. DepthInv'
  BY <1>2 DEF CursorInv, DepthInv
<1>4. QED  BY <1>1, <1>3 DEF CursorInv

--------------------------------------------------------------------------------
(* set_capture, and the cursor.                                            *)

\* The loop goes on, with capture on or off.
LEMMA LoopGoes ==
    ASSUME MacInv, UNCHANGED <<board0, tapped, mail, secure>>,
           pointer0' \in Pointers, keepers' \in [DOMAIN keepers' -> Keepers], macSpare' \in Spares,
           side' \in LoopRecords, RightStage(side'), side'.of = side.of, side'.role = side.role,
           side'.blocks = side.blocks, side'.told = side.told, side'.missed = side.missed,
           side.role = "receive" /\ side'.at \in LetGo => side.at \in LetGo,
           side'.at = "crossing" => side.at = "crossing",
           side'.at \in Telling => side.at \in Telling,
           mac' \in [Macs -> MacRecords], ActiveInv',
           mac'[side.of].injected = mac[side.of].injected, mac'[side.of].pressed = mac[side.of].pressed
    PROVE  MacInv'
<1>1. MacTypes'
  BY DEF MacInv, MacTypes
<1>2. LocalInv'
  BY LocalKept DEF MacInv
<1>3. InjectedInv'
  BY InjectedKept DEF MacInv
<1>4. HeardInv'
  BY HeardKept DEF MacInv
<1>5. QED  BY <1>1, <1>2, <1>3, <1>4 DEF MacInv

\* Capture goes on or off.
LEMMA Switched ==
    ASSUME MacTypes, NEW b \in BOOLEAN, mac' = [mac EXCEPT ![side.of].active = b]
    PROVE  /\ mac' \in [Macs -> MacRecords]
           /\ mac'[side.of].active = b /\ \A i \in Macs : i # side.of => mac'[i].active = mac[i].active
           /\ \A i \in Macs : mac'[i].injected = mac[i].injected /\ mac'[i].pressed = mac[i].pressed
<1>1. mac \in [Macs -> MacRecords] /\ side.of \in Macs /\ mac[side.of] \in MacRecords
  BY TypeFacts DEF MyMac
<1>2. PICK m \in MacRecords : /\ m = [mac[side.of] EXCEPT !.active = b] /\ m.active = b
                              /\ m.injected = mac[side.of].injected /\ m.pressed = mac[side.of].pressed
  BY <1>1 DEF MacRecords
<1>3. mac' = [mac EXCEPT ![side.of] = m]
  BY <1>2
<1>4. QED  BY <1>1, <1>2, <1>3, MacMoves

LEMMA SwapStep ==
    ASSUME MacInv, SwapOn \/ SwapOff
    PROVE  MacInv' /\ (CursorInv => CursorInv')
<1>1. /\ MacTypes /\ RightStage(side) /\ side \in LoopRecords /\ side.at \in Stages
      /\ pointer0 \in Pointers /\ keepers \in [DOMAIN keepers -> Keepers] /\ macSpare \in Spares
      /\ side.next \in {"none", "watching", "toClean"}
  BY TypeFacts DEF MacInv, MacTypes
<1>2. UNCHANGED <<keepers, pointer0, board0, tapped, mail, secure, macSpare>>
  BY DEF SwapOn, SwapOff, LoopOnly
<1>3. /\ pointer0' \in Pointers /\ keepers' \in [DOMAIN keepers' -> Keepers] /\ macSpare' \in Spares
      /\ macSpare'.faults <= macSpare.faults
  BY <1>1, <1>2 DEF Spares
<1>4. CASE SwapOn
  <2>1. side.at = "snapped" /\ SideAt("hiding") /\ mac' = [mac EXCEPT ![side.of].active = TRUE]
    BY <1>4 DEF SwapOn
  <2>2. /\ side' \in LoopRecords /\ side'.at = "hiding" /\ side'.of = side.of /\ side'.role = side.role
        /\ side'.blocks = side.blocks /\ side'.told = side.told /\ side'.missed = side.missed
        /\ side'.next = side.next
    BY <1>1, <2>1, SideMoves DEF Stages, SenderAt
  <2>3. RightStage(side')
    BY <1>1, <2>1, <2>2 DEF RightStage, SenderAt
  <2>4. mac' \in [Macs -> MacRecords]
        /\ mac'[side.of].active /\ (\A i \in Macs : i # side.of => mac'[i].active = mac[i].active)
        /\ (\A i \in Macs : mac'[i].injected = mac[i].injected /\ mac'[i].pressed = mac[i].pressed)
    BY <1>1, <2>1, Switched
  <2>5. ActiveInv'
    BY <2>1, <2>2, <2>4 DEF MacInv, ActiveInv, CaptureOn
  <2>6. MacInv'
    BY <1>1, <1>2, <1>3, <2>1, <2>2, <2>3, <2>4, <2>5, LoopGoes, TypeFacts DEF LetGo, Telling
  <2>7. CursorInv => CursorInv'
    BY <1>1, <1>2, <1>3, <2>1, <2>2, CursorKept DEF Calm, Deep
  <2>8. QED  BY <2>6, <2>7
<1>5. CASE SwapOff
  <2> DEFINE stage == IF MyMac.active THEN "showing" ELSE side.next
  <2>1. side.at = "swapping" /\ SideAt(stage) /\ mac' = [mac EXCEPT ![side.of].active = FALSE]
    BY <1>5 DEF SwapOff
  <2>2. MyMac.active
    BY <1>1, <2>1, TypeFacts DEF MacInv, ActiveInv, CaptureOn, MyMac
  <2>3. stage = "showing"
    BY <2>2
  <2> HIDE DEF stage
  <2>4. /\ side' \in LoopRecords /\ side'.at = "showing" /\ side'.of = side.of /\ side'.role = side.role
        /\ side'.blocks = side.blocks /\ side'.told = side.told /\ side'.missed = side.missed
        /\ side'.next = side.next
    BY <1>1, <2>1, <2>3, SideMoves DEF Stages, SenderAt
  <2>5. RightStage(side')
    BY <1>1, <2>1, <2>4 DEF RightStage, SenderAt
  <2>6. mac' \in [Macs -> MacRecords]
        /\ ~mac'[side.of].active /\ (\A i \in Macs : i # side.of => mac'[i].active = mac[i].active)
        /\ (\A i \in Macs : mac'[i].injected = mac[i].injected /\ mac'[i].pressed = mac[i].pressed)
    BY <1>1, <2>1, Switched
  <2>7. ActiveInv'
    BY <2>1, <2>4, <2>6 DEF MacInv, ActiveInv, CaptureOn
  <2>8. MacInv'
    BY <1>1, <1>2, <1>3, <2>1, <2>4, <2>5, <2>6, <2>7, LoopGoes, TypeFacts DEF LetGo, Telling
  <2>9. CursorInv => CursorInv'
    BY <1>1, <1>2, <1>3, <2>1, <2>4, CursorKept DEF Calm, Deep
  <2>10. QED  BY <2>8, <2>9
<1>6. QED  BY <1>4, <1>5

\* The pointer after the calls of the system.
LEMMA PointerCalls ==
    ASSUME NEW p \in Pointers
    PROVE  /\ HideCursor(p) \in Pointers /\ HideCursor(p).hides = p.hides + 1 /\ HideCursor(p).coupled = p.coupled
           /\ ShowCursor(p) \in Pointers /\ ShowCursor(p).hides <= p.hides /\ ShowCursor(p).coupled = p.coupled
           /\ p.hides > 0 => ShowCursor(p).hides + 1 = p.hides
           /\ p.hides = 0 => ShowCursor(p).hides = 0
           /\ \A b \in BOOLEAN : /\ Coupled(p, b) \in Pointers /\ Coupled(p, b).hides = p.hides
                                 /\ Coupled(p, b).coupled = b /\ Coupled(p, b).forced = p.forced
                                 /\ [p EXCEPT !.failed = b] \in Pointers
                                 /\ [p EXCEPT !.failed = b].hides = p.hides
                                 /\ [p EXCEPT !.failed = b].coupled = p.coupled
                                 /\ [p EXCEPT !.failed = b].forced = p.forced
                                 /\ [p EXCEPT !.failed = b].failed = b
<1>0. PICK m \in Nat : m = p.hides + 1
  BY DEF Pointers
<1>1. /\ HideCursor(p) \in Pointers /\ HideCursor(p).hides = p.hides + 1 /\ HideCursor(p).coupled = p.coupled
  <2>1. HideCursor(p) = [p EXCEPT !.hides = m, !.forced = FALSE]
    BY <1>0 DEF HideCursor
  <2>2. QED  BY <1>0, <2>1 DEF Pointers
<1>2. PICK n \in Nat : n = (IF p.hides = 0 THEN 0 ELSE p.hides - 1)
  BY DEF Pointers
<1>3. /\ n <= p.hides /\ (p.hides > 0 => n + 1 = p.hides) /\ (p.hides = 0 => n = 0)
  BY <1>2 DEF Pointers
<1>4. ShowCursor(p) = [p EXCEPT !.hides = n]
  BY <1>2 DEF ShowCursor
<1>5. /\ ShowCursor(p) \in Pointers /\ ShowCursor(p).hides = n /\ ShowCursor(p).coupled = p.coupled
  BY <1>4 DEF Pointers
<1>6. ASSUME NEW b \in BOOLEAN
      PROVE  /\ Coupled(p, b) \in Pointers /\ Coupled(p, b).hides = p.hides
             /\ Coupled(p, b).coupled = b /\ Coupled(p, b).forced = p.forced
             /\ [p EXCEPT !.failed = b] \in Pointers
             /\ [p EXCEPT !.failed = b].hides = p.hides
             /\ [p EXCEPT !.failed = b].coupled = p.coupled
             /\ [p EXCEPT !.failed = b].forced = p.forced
             /\ [p EXCEPT !.failed = b].failed = b
  BY DEF Coupled, Pointers
<1>7. QED  BY <1>1, <1>3, <1>5, <1>6

\* As long as the calls that fail are few, the cursor is seen after eight attempts.
LEMMA ShownInTime ==
    ASSUME NEW p \in Pointers, p.hides <= 8
    PROVE  /\ ShownUntilVisible(p) \in Pointers /\ Visible(ShownUntilVisible(p))
           /\ ShownUntilVisible(p).hides <= p.hides /\ ShownUntilVisible(p).coupled = p.coupled
<1>1. CASE Visible(p)
  <2>1. ShownUntilVisible(p) = p
    BY <1>1 DEF ShownUntilVisible
  <2>2. QED  BY <1>1, <2>1 DEF Pointers
<1>2. CASE ~Visible(p)
  <2>1. ShownUntilVisible(p) = [p EXCEPT !.hides = 0]
    BY <1>2 DEF ShownUntilVisible, Pointers
  <2>2. QED  BY <2>1 DEF Pointers, Visible
<1>3. QED  BY <1>1, <1>2

LEMMA ShownTyped ==
    ASSUME NEW p \in Pointers
    PROVE  ShownUntilVisible(p) \in Pointers
BY DEF ShownUntilVisible, Pointers

LEMMA HidingStep ==
    ASSUME MacInv, Hiding
    PROVE  MacInv' /\ (CursorInv => CursorInv')
<1>1. /\ MacTypes /\ RightStage(side) /\ side \in LoopRecords /\ side.at = "hiding"
      /\ pointer0 \in Pointers /\ keepers \in [DOMAIN keepers -> Keepers] /\ macSpare \in Spares
      /\ side.next \in {"none", "watching", "toClean"}
  BY TypeFacts DEF MacInv, MacTypes, Hiding
<1>2. UNCHANGED <<keepers, board0, tapped, mail, secure>> /\ keepers' \in [DOMAIN keepers' -> Keepers]
  BY <1>1 DEF Hiding
<1>3. CASE pointer0' = Coupled(HideCursor(pointer0), FALSE) /\ SideAt("keeping") /\ UNCHANGED <<mac, macSpare>>
  <2>1. /\ side' \in LoopRecords /\ side'.at = "keeping" /\ side'.of = side.of /\ side'.role = side.role
        /\ side'.blocks = side.blocks /\ side'.told = side.told /\ side'.missed = side.missed
        /\ side'.next = side.next
    BY <1>1, <1>3, SideMoves DEF Stages, SenderAt
  <2>2. RightStage(side')
    BY <1>1, <2>1 DEF RightStage, SenderAt
  <2>3. HideCursor(pointer0) \in Pointers /\ HideCursor(pointer0).hides = pointer0.hides + 1
    BY <1>1, PointerCalls
  <2>4. pointer0' \in Pointers /\ pointer0'.hides = pointer0.hides + 1 /\ pointer0'.coupled = FALSE
    BY <1>3, <2>3, PointerCalls
  <2>5. ActiveInv'
    BY <1>1, <1>3, <2>1, ActiveKept DEF MacInv, CaptureOn
  <2>6. MacInv'
    BY <1>1, <1>2, <1>3, <2>1, <2>2, <2>4, <2>5, LoopGoes, TypeFacts DEF LetGo, Telling
  <2>7. ASSUME CursorInv PROVE CursorInv'
    <3>1. macSpare.faults \in Nat /\ pointer0.hides \in Nat /\ macSpare.faults <= 7
          /\ pointer0.hides + macSpare.faults <= 8
      BY <1>1, <2>7 DEF CursorInv, DepthInv, Spares, Pointers, Deep
    <3>2. DepthInv'
      <4>1. macSpare' = macSpare
        BY <1>3
      <4>2. pointer0'.hides + macSpare'.faults <= 9
        BY <2>4, <3>1, <4>1
      <4>3. QED  BY <2>1, <3>1, <4>1, <4>2 DEF DepthInv, Deep
    <3>3. HiddenInv'
      BY <2>1, <2>4, <3>1 DEF HiddenInv, Calm
    <3>4. QED  BY <3>2, <3>3 DEF CursorInv
  <2>8. QED  BY <2>6, <2>7
<1>4. CASE /\ MacSpends("faults")
           /\ \E hidden \in {pointer0, HideCursor(pointer0)} :
                 pointer0' = [Coupled(ShowCursor(hidden), TRUE) EXCEPT !.failed = TRUE]
           /\ mac' = [mac EXCEPT ![side.of].active = FALSE]
           /\ SideAt("toClean")
  <2>1. /\ side' \in LoopRecords /\ side'.at = "toClean" /\ side'.of = side.of /\ side'.role = side.role
        /\ side'.blocks = side.blocks /\ side'.told = side.told /\ side'.missed = side.missed
        /\ side'.next = side.next
    BY <1>1, <1>4, SideMoves DEF Stages, SenderAt
  <2>2. RightStage(side')
    BY <1>1, <2>1 DEF RightStage, SenderAt
  <2>3. PICK hidden \in {pointer0, HideCursor(pointer0)} :
           pointer0' = [Coupled(ShowCursor(hidden), TRUE) EXCEPT !.failed = TRUE]
    BY <1>4
  <2>4. HideCursor(pointer0) \in Pointers /\ HideCursor(pointer0).hides = pointer0.hides + 1
    BY <1>1, PointerCalls
  <2>5. /\ ShowCursor(hidden) \in Pointers /\ ShowCursor(hidden).hides <= pointer0.hides
    <3>1. hidden = pointer0 \/ hidden = HideCursor(pointer0)
      BY <2>3
    <3>2. hidden \in Pointers /\ pointer0.hides \in Nat /\ hidden.hides \in Nat
      BY <1>1, <2>4, <3>1 DEF Pointers
    <3>3. /\ ShowCursor(hidden) \in Pointers /\ ShowCursor(hidden).hides <= hidden.hides
          /\ hidden.hides > 0 => ShowCursor(hidden).hides + 1 = hidden.hides
      BY <3>2, PointerCalls
    <3>4. CASE hidden = pointer0
      BY <3>3, <3>4
    <3>5. CASE hidden = HideCursor(pointer0)
      <4>1. hidden.hides = pointer0.hides + 1
        BY <2>4, <3>5
      <4>2. ShowCursor(hidden).hides \in Nat
        BY <3>3 DEF Pointers
      <4>3. QED  BY <3>2, <3>3, <4>1, <4>2
    <3>6. QED  BY <3>1, <3>4, <3>5
  <2>6. /\ Coupled(ShowCursor(hidden), TRUE) \in Pointers
        /\ Coupled(ShowCursor(hidden), TRUE).hides <= pointer0.hides
    BY <2>5, PointerCalls
  <2>7. pointer0' \in Pointers /\ pointer0'.hides <= pointer0.hides /\ pointer0'.failed
    BY <2>3, <2>6, PointerCalls
  <2>8. /\ macSpare' \in Spares /\ macSpare'.faults + 1 = macSpare.faults
    BY <1>1, <1>4, SpendsSpare
  <2>9. /\ mac' \in [Macs -> MacRecords]
        /\ ~mac'[side.of].active /\ (\A i \in Macs : i # side.of => mac'[i].active = mac[i].active)
        /\ (\A i \in Macs : mac'[i].injected = mac[i].injected /\ mac'[i].pressed = mac[i].pressed)
    BY <1>1, <1>4, Switched
  <2>10. ActiveInv'
    BY <2>1, <2>9 DEF MacInv, ActiveInv, CaptureOn
  <2>11. side.role # "receive"
    BY <1>1 DEF RightStage, SenderAt
  <2>12. MacInv'
    BY <1>1, <1>2, <2>1, <2>2, <2>7, <2>8, <2>9, <2>10, <2>11, LoopGoes, TypeFacts DEF LetGo, Telling
  <2>13. ASSUME CursorInv PROVE CursorInv'
    <3>1. macSpare.faults \in Nat /\ macSpare'.faults \in Nat /\ pointer0'.hides \in Nat
          /\ pointer0.hides \in Nat /\ macSpare.faults <= 7 /\ pointer0.hides + macSpare.faults <= 8
      BY <1>1, <2>7, <2>8, <2>13 DEF CursorInv, DepthInv, Spares, Pointers, Deep
    <3>2. DepthInv'
      BY <2>1, <2>7, <2>8, <3>1 DEF DepthInv, Deep
    <3>3. HiddenInv'
      BY <2>1, <2>7 DEF HiddenInv, Calm
    <3>4. QED  BY <3>2, <3>3 DEF CursorInv
  <2>14. QED  BY <2>12, <2>13
<1>5. QED  BY <1>3, <1>4 DEF Hiding

LEMMA KeepingStep ==
    ASSUME MacInv, Keeping
    PROVE  MacInv' /\ (CursorInv => CursorInv')
<1>1. /\ MacTypes /\ RightStage(side) /\ side \in LoopRecords /\ side.at = "keeping" /\ side.of \in Macs
      /\ pointer0 \in Pointers /\ keepers \in [DOMAIN keepers -> Keepers] /\ macSpare \in Spares
      /\ mac \in [Macs -> MacRecords] /\ MaxMacs \in Nat
  BY TypeFacts, MacAssumption DEF MacInv, MacTypes, Keeping
<1>2. UNCHANGED <<mac, pointer0, board0, tapped, mail, secure>>
  BY DEF Keeping
<1>3. side.role # "receive"
  BY <1>1 DEF RightStage, SenderAt
<1>4. CASE \E n \in DOMAIN keepers :
             /\ keepers[n].at = "none" /\ \A k \in 1..n - 1 : keepers[k].at # "none"
             /\ keepers' = [keepers EXCEPT ![n] = [of |-> side.of, at |-> "looks"]]
             /\ SideAt("sending") /\ UNCHANGED macSpare
  <2>1. PICK n \in DOMAIN keepers : /\ keepers' = [keepers EXCEPT ![n] = [of |-> side.of, at |-> "looks"]]
                                    /\ SideAt("sending") /\ UNCHANGED macSpare
    BY <1>4
  <2>2. /\ side' \in LoopRecords /\ side'.at = "sending" /\ side'.of = side.of /\ side'.role = side.role
        /\ side'.blocks = side.blocks /\ side'.told = side.told /\ side'.missed = side.missed
    BY <1>1, <2>1, SideMoves DEF Stages, SenderAt
  <2>3. RightStage(side')
    BY <1>1, <2>2 DEF RightStage, SenderAt
  <2>4. [of |-> side.of, at |-> "looks"] \in Keepers
    BY <1>1 DEF Keepers, Macs
  <2>5. /\ DOMAIN keepers' = DOMAIN keepers /\ keepers' \in [DOMAIN keepers' -> Keepers]
        /\ keepers'[n] = [of |-> side.of, at |-> "looks"]
    BY <1>1, <2>1, <2>4
  <2>6. ActiveInv'
    BY <1>1, <1>2, <2>2, ActiveKept DEF MacInv, CaptureOn
  <2>7. MacInv'
    BY <1>1, <1>2, <1>3, <2>1, <2>2, <2>3, <2>5, <2>6, LoopGoes DEF LetGo, Telling
  <2>8. ASSUME CursorInv PROVE CursorInv'
    <3>1. DepthInv'
      BY <1>1, <1>2, <2>1, <2>2, <2>8 DEF CursorInv, DepthInv, Deep
    <3>2. keepers'[n].of = side'.of /\ keepers'[n].at # "none" /\ n \in DOMAIN keepers'
      BY <2>2, <2>5
    <3>3. HiddenInv'
      BY <1>1, <1>2, <2>2, <3>2, <2>8 DEF CursorInv, HiddenInv, Calm
    <3>4. QED  BY <3>1, <3>3 DEF CursorInv
  <2>9. QED  BY <2>7, <2>8
<1>5. CASE /\ MacSpends("faults") /\ UNCHANGED keepers
           /\ side' = [side EXCEPT !.at = "swapping", !.next = "toClean"]
  <2>1. /\ side' \in LoopRecords /\ side'.at = "swapping" /\ side'.of = side.of /\ side'.role = side.role
        /\ side'.blocks = side.blocks /\ side'.told = side.told /\ side'.missed = side.missed
        /\ side'.next = "toClean"
    BY <1>1, <1>5 DEF LoopRecords, Stages, SenderAt
  <2>2. RightStage(side')
    BY <1>1, <2>1 DEF RightStage, SenderAt
  <2>3. /\ macSpare' \in Spares /\ macSpare'.faults <= macSpare.faults
    BY <1>1, <1>5, SpendsSpare
  <2>4. ActiveInv'
    BY <1>1, <1>2, <2>1, ActiveKept DEF MacInv, CaptureOn
  <2>5. MacInv'
    BY <1>1, <1>2, <1>3, <1>5, <2>1, <2>2, <2>3, <2>4, LoopGoes DEF LetGo, Telling
  <2>6. CursorInv => CursorInv'
    BY <1>1, <1>2, <1>5, <2>1, <2>3, CursorKept DEF Calm, Deep
  <2>7. QED  BY <2>5, <2>6
<1>6. QED  BY <1>4, <1>5 DEF Keeping

LEMMA ShowingStep ==
    ASSUME MacInv, Showing
    PROVE  MacInv' /\ (CursorInv => CursorInv')
<1>1. /\ MacTypes /\ RightStage(side) /\ side \in LoopRecords /\ side.at = "showing" /\ side.of \in Macs
      /\ pointer0 \in Pointers /\ keepers \in [DOMAIN keepers -> Keepers] /\ macSpare \in Spares
      /\ mac \in [Macs -> MacRecords] /\ side.next \in {"watching", "toClean"}
  BY TypeFacts DEF MacInv, MacTypes, Showing, RightStage
<1>2. UNCHANGED <<mac, keepers, board0, tapped, mail, secure>>
  BY DEF Showing
<1>3. side.role # "receive"
  BY <1>1 DEF RightStage, SenderAt
<1>4. ASSUME NEW stage \in {"watching", "toClean"}, SideAt(stage), pointer0' \in Pointers,
             macSpare' \in Spares
      PROVE  MacInv' /\ side'.at \in Calm \ Deep
  <2>1. /\ side' \in LoopRecords /\ side'.at = stage /\ side'.of = side.of /\ side'.role = side.role
        /\ side'.blocks = side.blocks /\ side'.told = side.told /\ side'.missed = side.missed
        /\ side'.next = side.next
    BY <1>1, <1>4, SideMoves DEF Stages, SenderAt
  <2>2. RightStage(side')
    BY <1>1, <2>1 DEF RightStage, SenderAt
  <2>3. ActiveInv'
    BY <1>1, <1>2, <2>1, ActiveKept DEF MacInv, CaptureOn
  <2>4. MacInv'
    BY <1>1, <1>2, <1>3, <1>4, <2>1, <2>2, <2>3, LoopGoes DEF LetGo, Telling
  <2>5. QED  BY <2>1, <2>4 DEF Calm, Deep
<1>5. ASSUME NEW p \in Pointers, p.hides <= pointer0.hides,
             side'.at \in Calm \ Deep, pointer0' = p, macSpare' \in Spares,
             p.failed \/ (Visible(p) /\ p.coupled),
             macSpare'.faults <= macSpare.faults,
             p.hides + macSpare'.faults <= 8, CursorInv
      PROVE  CursorInv'
  <2>1. macSpare.faults \in Nat /\ macSpare'.faults \in Nat /\ macSpare.faults <= 7
    BY <1>1, <1>5 DEF Spares, CursorInv, DepthInv
  <2>2. DepthInv'
    BY <1>5, <2>1 DEF DepthInv
  <2>3. HiddenInv'
    BY <1>5 DEF HiddenInv, Calm, Deep
  <2>4. QED  BY <2>2, <2>3 DEF CursorInv
<1>6. /\ macSpare.faults \in Nat /\ pointer0.hides \in Nat
      /\ CursorInv => pointer0.hides + macSpare.faults <= 9 /\ macSpare.faults <= 7
  BY <1>1 DEF Spares, Pointers, CursorInv, DepthInv, Deep
<1>7. CASE /\ pointer0' = [ShownUntilVisible(Coupled(ShowCursor(pointer0), TRUE)) EXCEPT !.failed = FALSE]
           /\ SideAt(side.next) /\ UNCHANGED macSpare
  <2> DEFINE q == Coupled(ShowCursor(pointer0), TRUE)
  <2>1. /\ ShowCursor(pointer0) \in Pointers /\ ShowCursor(pointer0).hides <= pointer0.hides
        /\ pointer0.hides > 0 => ShowCursor(pointer0).hides + 1 = pointer0.hides
        /\ pointer0.hides = 0 => ShowCursor(pointer0).hides = 0
    BY <1>1, PointerCalls
  <2>2. q \in Pointers /\ q.hides = ShowCursor(pointer0).hides /\ q.coupled
    BY <2>1, PointerCalls
  <2> HIDE DEF q
  <2>3. pointer0' = [ShownUntilVisible(q) EXCEPT !.failed = FALSE]
    BY <1>7 DEF q
  <2>4. ShownUntilVisible(q) \in Pointers
    BY <2>2, ShownTyped
  <2>5. /\ pointer0' \in Pointers /\ pointer0'.hides = ShownUntilVisible(q).hides
        /\ pointer0'.coupled = ShownUntilVisible(q).coupled /\ pointer0'.forced = ShownUntilVisible(q).forced
    BY <2>3, <2>4, PointerCalls
  <2>6. MacInv' /\ side'.at \in Calm \ Deep
    BY <1>1, <1>4, <1>7, <2>5
  <2>7. ASSUME CursorInv PROVE CursorInv'
    <3>1. q.hides \in Nat /\ q.hides + macSpare.faults <= 8 /\ q.hides <= 8 /\ q.hides <= pointer0.hides
      <4>1. q.hides \in Nat
        BY <2>2 DEF Pointers
      <4>2. QED  BY <1>6, <2>1, <2>2, <2>7, <4>1
    <3>2. Visible(ShownUntilVisible(q)) /\ ShownUntilVisible(q).hides <= q.hides /\ ShownUntilVisible(q).coupled
      BY <2>2, <3>1, ShownInTime
    <3>3. Visible(pointer0') /\ pointer0'.coupled /\ pointer0'.hides <= q.hides
      BY <2>5, <3>2 DEF Visible
    <3>4. pointer0'.hides \in Nat
      BY <2>5 DEF Pointers
    <3>5. pointer0'.hides + macSpare'.faults <= 8 /\ pointer0'.hides <= pointer0.hides
          /\ macSpare' \in Spares /\ macSpare'.faults <= macSpare.faults
      <4>1. macSpare' = macSpare
        BY <1>7
      <4>2. pointer0'.hides + macSpare.faults <= 8 /\ pointer0'.hides <= pointer0.hides
        BY <1>6, <3>1, <3>3, <3>4
      <4>3. QED  BY <1>1, <1>6, <4>1, <4>2
    <3>6. QED  BY <1>5, <2>5, <2>6, <2>7, <3>3, <3>5
  <2>8. QED  BY <2>6, <2>7
<1>8. CASE /\ MacSpends("faults")
           /\ pointer0' \in {[p EXCEPT !.failed = TRUE] :
                              p \in {Coupled(pointer0, TRUE), ShowCursor(pointer0)}}
           /\ SideAt(IF side.ends THEN "toClean" ELSE side.next)
  <2>1. PICK p \in {Coupled(pointer0, TRUE), ShowCursor(pointer0)} : pointer0' = [p EXCEPT !.failed = TRUE]
    BY <1>8
  <2>2. p \in Pointers /\ p.hides <= pointer0.hides
    <3>2. ShowCursor(pointer0) \in Pointers /\ ShowCursor(pointer0).hides <= pointer0.hides
      BY <1>1, PointerCalls
    <3>3. p = Coupled(pointer0, TRUE) \/ p = ShowCursor(pointer0)
      BY <2>1
    <3>4. CASE p = Coupled(pointer0, TRUE)
      <4>1. PICK b \in BOOLEAN : b = TRUE
        OBVIOUS
      <4>2. p = Coupled(pointer0, b)
        BY <3>4, <4>1
      <4>3. Coupled(pointer0, b) \in Pointers /\ Coupled(pointer0, b).hides = pointer0.hides
        BY <1>1 DEF Coupled, Pointers
      <4>4. QED  BY <1>6, <4>2, <4>3
    <3>5. CASE p = ShowCursor(pointer0)
      BY <1>6, <3>2, <3>5
    <3>6. QED  BY <3>3, <3>4, <3>5
  <2>3. pointer0' \in Pointers /\ pointer0'.hides <= pointer0.hides /\ pointer0'.failed
    BY <2>1, <2>2, PointerCalls
  <2>4. PICK stage \in {"watching", "toClean"} : SideAt(stage)
    BY <1>1, <1>8
  <2>5. /\ macSpare' \in Spares /\ macSpare'.faults + 1 = macSpare.faults
    BY <1>1, <1>8, SpendsSpare
  <2>6. MacInv' /\ side'.at \in Calm \ Deep
    BY <1>4, <2>3, <2>4, <2>5
  <2>7. ASSUME CursorInv PROVE CursorInv'
    <3>1. pointer0'.hides \in Nat /\ macSpare'.faults \in Nat
      BY <2>3, <2>5 DEF Pointers, Spares
    <3>2. pointer0'.hides + macSpare'.faults <= 8 /\ macSpare'.faults <= macSpare.faults
      BY <1>6, <2>3, <2>5, <2>7, <3>1
    <3>3. QED  BY <1>5, <2>3, <2>5, <2>6, <2>7, <3>2
  <2>8. QED  BY <2>6, <2>7
<1>9. QED  BY <1>7, <1>8 DEF Showing

LEMMA ForcedStep ==
    ASSUME MacInv, Forced
    PROVE  MacInv' /\ (CursorInv => CursorInv')
<1>1. /\ MacTypes /\ RightStage(side) /\ side \in LoopRecords
      /\ pointer0 \in Pointers /\ keepers \in [DOMAIN keepers -> Keepers] /\ macSpare \in Spares
      /\ mac \in [Macs -> MacRecords]
  BY TypeFacts DEF MacInv, MacTypes
<1>2. UNCHANGED <<mac, keepers, board0, tapped, side, mail, secure>>
  BY DEF Forced
<1>3. pointer0' = [pointer0 EXCEPT !.forced = TRUE] /\ pointer0.hides > 0 /\ MacSpends("mishaps")
  BY DEF Forced
<1>4. /\ pointer0' \in Pointers /\ pointer0'.hides = pointer0.hides /\ pointer0'.coupled = pointer0.coupled
      /\ pointer0'.failed = pointer0.failed /\ pointer0'.forced
  BY <1>1, <1>3 DEF Pointers
<1>5. macSpare' \in Spares /\ macSpare'.faults <= macSpare.faults
  BY <1>1, <1>3, SpendsSpare
<1>6. ActiveInv'
  BY <1>2, ActiveKept DEF MacInv
<1>7. MacInv'
  BY <1>1, <1>2, <1>4, <1>5, <1>6, LoopGoes
<1>8. ASSUME CursorInv PROVE CursorInv'
  <2>1. macSpare.faults \in Nat /\ macSpare'.faults \in Nat /\ pointer0.hides \in Nat
    BY <1>1, <1>5 DEF Spares, Pointers
  <2>2. DepthInv'
    BY <1>2, <1>4, <1>5, <1>8, <2>1 DEF CursorInv, DepthInv
  <2>3. HiddenInv'
    BY <1>2, <1>4, <1>8 DEF CursorInv, HiddenInv, Visible
  <2>4. QED  BY <2>2, <2>3 DEF CursorInv
<1>9. QED  BY <1>7, <1>8

\* A keeper keeps its platform while it hides the cursor for it; it ends only once capture is off.
LEMMA KeeperStep ==
    ASSUME MacInv, NEW n \in DOMAIN keepers, KeeperLooks(n) \/ KeeperAsserts(n)
    PROVE  MacInv' /\ (CursorInv => CursorInv')
<1>1. /\ MacTypes /\ RightStage(side) /\ side \in LoopRecords /\ ActiveInv
      /\ pointer0 \in Pointers /\ keepers \in [DOMAIN keepers -> Keepers] /\ macSpare \in Spares
      /\ mac \in [Macs -> MacRecords] /\ side.of \in Macs /\ keepers[n] \in Keepers
  BY TypeFacts DEF MacInv, MacTypes
<1>2. UNCHANGED <<mac, board0, tapped, side, mail, secure, macSpare>>
  BY DEF KeeperLooks, KeeperAsserts
<1>3. macSpare' \in Spares /\ macSpare'.faults <= macSpare.faults
  BY <1>1, <1>2 DEF Spares
<1>4. ActiveInv'
  BY <1>2, ActiveKept DEF MacInv
<1>5. ASSUME pointer0' \in Pointers, keepers' \in [DOMAIN keepers' -> Keepers]
      PROVE  MacInv'
  BY <1>1, <1>2, <1>3, <1>4, <1>5, LoopGoes
<1>6. ASSUME CursorInv,
             \A k \in DOMAIN keepers : keepers[k].of = side.of /\ keepers[k].at # "none" /\ side.at = "sending" =>
                k \in DOMAIN keepers' /\ keepers'[k].of = side.of /\ keepers'[k].at # "none",
             \/ pointer0' = pointer0
             \/ /\ side.at \in CaptureOn /\ ~pointer0'.coupled /\ pointer0'.hides > 0 /\ pointer0' \in Pointers
                /\ pointer0'.hides = pointer0.hides \/ (pointer0.hides = 0 /\ pointer0'.hides = 1)
      PROVE  CursorInv'
  <2>1. macSpare.faults \in Nat /\ pointer0.hides \in Nat
    BY <1>1 DEF Spares, Pointers
  <2>2. HiddenInv'
    <3>1. side'.at = "sending" => \E k \in DOMAIN keepers' : keepers'[k].of = side'.of /\ keepers'[k].at # "none"
      BY <1>2, <1>6 DEF CursorInv, HiddenInv
    <3>2. CASE pointer0' = pointer0
      BY <1>2, <1>6, <3>1, <3>2 DEF CursorInv, HiddenInv
    <3>3. CASE pointer0' # pointer0
      BY <1>2, <1>6, <3>1, <3>3 DEF HiddenInv, CaptureOn, Calm
    <3>4. QED  BY <3>2, <3>3
  <2>3. DepthInv'
    <3>1. CASE pointer0'.hides = pointer0.hides
      BY <1>2, <1>6, <3>1 DEF CursorInv, DepthInv
    <3>2. CASE pointer0.hides = 0 /\ pointer0'.hides = 1
      <4>1. pointer0'.hides + macSpare'.faults <= 8 /\ macSpare'.faults <= 7
        BY <1>2, <1>6, <2>1, <3>2 DEF CursorInv, DepthInv
      <4>2. macSpare' = macSpare
        BY <1>2
      <4>3. pointer0'.hides + macSpare'.faults <= 9
        BY <4>1, <4>2, <2>1, <3>2
      <4>4. QED  BY <4>1, <4>3 DEF DepthInv
    <3>3. QED  BY <1>6, <3>1, <3>2
  <2>4. QED  BY <2>2, <2>3 DEF CursorInv
<1>7. CASE KeeperLooks(n)
  <2>1. UNCHANGED pointer0 /\ pointer0' \in Pointers
    BY <1>1, <1>7 DEF KeeperLooks
  <2>2. keepers[n].at = "looks"
    BY <1>7 DEF KeeperLooks
  <2>3. CASE mac[keepers[n].of].active
    <3>1. PICK r \in Keepers : r = [keepers[n] EXCEPT !.at = "asserts"] /\ r.at = "asserts" /\ r.of = keepers[n].of
      <4>1. keepers[n] \in [of : Macs, at : {"looks", "asserts"}]
        BY <1>1, <2>2 DEF Keepers
      <4>2. [keepers[n] EXCEPT !.at = "asserts"] \in [of : Macs, at : {"looks", "asserts"}]
        BY <4>1
      <4>3. QED  BY <4>1, <4>2 DEF Keepers
    <3>2. keepers' = [keepers EXCEPT ![n] = r]
      BY <1>1, <1>7, <2>3, <3>1 DEF KeeperLooks
    <3>3. /\ DOMAIN keepers' = DOMAIN keepers /\ keepers' \in [DOMAIN keepers' -> Keepers]
          /\ keepers'[n] = r /\ (\A k \in DOMAIN keepers : k # n => keepers'[k] = keepers[k])
      BY <1>1, <3>1, <3>2
    <3>4. MacInv'
      BY <1>5, <2>1, <3>3
    <3>5. CursorInv => CursorInv'
      BY <1>6, <2>1, <3>1, <3>3
    <3>6. QED  BY <3>4, <3>5
  <2>4. CASE ~mac[keepers[n].of].active
    <3>1. [of |-> 0, at |-> "none"] \in Keepers
      BY MacAssumption DEF Keepers
    <3>2. keepers' = [keepers EXCEPT ![n] = [of |-> 0, at |-> "none"]]
      BY <1>1, <1>7, <2>4 DEF KeeperLooks
    <3>3. /\ DOMAIN keepers' = DOMAIN keepers /\ keepers' \in [DOMAIN keepers' -> Keepers]
          /\ (\A k \in DOMAIN keepers : k # n => keepers'[k] = keepers[k])
      BY <1>1, <3>1, <3>2
    <3>4. keepers[n].of = side.of => side.at # "sending"
      BY <1>1, <2>4 DEF ActiveInv, CaptureOn
    <3>5. MacInv'
      BY <1>5, <2>1, <3>3
    <3>6. CursorInv => CursorInv'
      BY <1>6, <2>1, <3>3, <3>4
    <3>7. QED  BY <3>5, <3>6
  <2>5. QED  BY <2>3, <2>4
<1>8. CASE KeeperAsserts(n)
  <2>1. keepers[n].at = "asserts" /\ keepers' = [keepers EXCEPT ![n].at = "looks"]
    BY <1>8 DEF KeeperAsserts
  <2>2. PICK r \in Keepers : r = [keepers[n] EXCEPT !.at = "looks"] /\ r.at = "looks" /\ r.of = keepers[n].of
    <3>1. keepers[n] \in [of : Macs, at : {"looks", "asserts"}]
      BY <1>1, <2>1 DEF Keepers
    <3>2. [keepers[n] EXCEPT !.at = "looks"] \in [of : Macs, at : {"looks", "asserts"}]
      BY <3>1
    <3>3. QED  BY <3>1, <3>2 DEF Keepers
  <2>3. keepers' = [keepers EXCEPT ![n] = r]
    BY <2>1, <2>2
  <2>4. /\ DOMAIN keepers' = DOMAIN keepers /\ keepers' \in [DOMAIN keepers' -> Keepers]
        /\ keepers'[n] = r /\ (\A k \in DOMAIN keepers : k # n => keepers'[k] = keepers[k])
    BY <1>1, <2>2, <2>3
  <2>5. \A k \in DOMAIN keepers : keepers[k].of = side.of /\ keepers[k].at # "none" =>
            k \in DOMAIN keepers' /\ keepers'[k].of = side.of /\ keepers'[k].at # "none"
    BY <2>2, <2>4
  <2>6. CASE ~Capturing(keepers[n].of)
    <3>1. pointer0' = pointer0
      BY <1>8, <2>6 DEF KeeperAsserts
    <3>2. MacInv'
      BY <1>1, <1>5, <2>4, <3>1
    <3>3. CursorInv => CursorInv'
      BY <1>6, <2>5, <3>1
    <3>4. QED  BY <3>2, <3>3
  <2>7. CASE Capturing(keepers[n].of)
    <3> DEFINE apart == Coupled(pointer0, FALSE)
    <3>1. apart \in Pointers /\ apart.hides = pointer0.hides /\ apart.coupled = FALSE
      BY <1>1, PointerCalls
    <3>2. pointer0' = IF Visible(apart) THEN HideCursor(ShowCursor(apart)) ELSE apart
      BY <1>8, <2>7 DEF KeeperAsserts
    <3> HIDE DEF apart
    <3>3. /\ ShowCursor(apart) \in Pointers /\ ShowCursor(apart).coupled = FALSE
          /\ apart.hides > 0 => ShowCursor(apart).hides + 1 = apart.hides
          /\ apart.hides = 0 => ShowCursor(apart).hides = 0
      BY <3>1, PointerCalls
    <3>4. /\ HideCursor(ShowCursor(apart)) \in Pointers /\ HideCursor(ShowCursor(apart)).coupled = FALSE
          /\ HideCursor(ShowCursor(apart)).hides = ShowCursor(apart).hides + 1
      BY <3>3, PointerCalls
    <3>5. pointer0.hides \in Nat /\ pointer0.coupled \in BOOLEAN
      BY <1>1 DEF Pointers
    <3>6. /\ pointer0' \in Pointers /\ ~pointer0'.coupled /\ pointer0'.hides > 0
          /\ pointer0'.hides = pointer0.hides \/ (pointer0.hides = 0 /\ pointer0'.hides = 1)
      <4>1. CASE Visible(apart)
        <5>1. pointer0' = HideCursor(ShowCursor(apart))
          BY <3>2, <4>1
        <5>2. CASE apart.hides = 0
          BY <3>1, <3>3, <3>4, <3>5, <5>1, <5>2
        <5>3. CASE apart.hides # 0
          BY <3>1, <3>3, <3>4, <3>5, <5>1, <5>3
        <5>4. QED  BY <5>2, <5>3
      <4>2. CASE ~Visible(apart)
        BY <3>1, <3>2, <3>5, <4>2 DEF Visible
      <4>3. QED  BY <4>1, <4>2
    <3>7. side.at \in CaptureOn
      <4>1. keepers[n].of \in Macs
        BY <1>1, <2>1 DEF Keepers
      <4>2. QED  BY <1>1, <2>7, <4>1 DEF ActiveInv, Capturing
    <3>8. MacInv'
      BY <1>5, <2>4, <3>6
    <3>9. CursorInv => CursorInv'
      BY <1>6, <2>5, <3>6, <3>7
    <3>10. QED  BY <3>8, <3>9
  <2>8. QED  BY <2>6, <2>7
<1>9. QED  BY <1>7, <1>8

--------------------------------------------------------------------------------
(* The loop comes and goes.                                                *)

\* What was noted stays so.
LEMMA NotedKept ==
    ASSUME NotedInv, UNCHANGED tapped, side'.of = side.of, side'.blocks = side.blocks,
           board0'.down = board0.down, board0'.unheard = board0.unheard, board0'.blurred = board0.blurred,
           mac'[side.of].pressed = mac[side.of].pressed
    PROVE  NotedInv'
<1>1. \A k : Clear(k)' <=> Clear(k)
  BY DEF Clear, Striking
<1>2. MyMac'.pressed = MyMac.pressed
  BY DEF MyMac
<1>3. RingsTrue'
  BY DEF NotedInv, RingsTrue, Striking
<1>4. QED  BY <1>1, <1>2, <1>3 DEF NotedInv

\* Away from the crossing and the peer, only what is noted counts.
LEMMA HeardAway ==
    ASSUME NotedInv', side'.at # "crossing", side'.at \notin Telling
    PROVE  HeardInv'
BY DEF HeardInv, CrossingInv, ToldInv

\* The tap of a platform is started, stopped or left as it is.
LEMMA TapMoves ==
    ASSUME mac \in [Macs -> MacRecords], NEW i \in Macs, NEW t \in {"off", "on", "paused"},
           mac' = [mac EXCEPT ![i].tap = t]
    PROVE  /\ mac' \in [Macs -> MacRecords]
           /\ \A j \in Macs : /\ mac'[j].active = mac[j].active /\ mac'[j].injected = mac[j].injected
                              /\ mac'[j].pressed = mac[j].pressed
<1>1. PICK m \in MacRecords : /\ m = [mac[i] EXCEPT !.tap = t] /\ m.active = mac[i].active
                              /\ m.injected = mac[i].injected /\ m.pressed = mac[i].pressed
  BY DEF MacRecords
<1>2. mac' = [mac EXCEPT ![i] = m]
  BY <1>1
<1>3. mac' \in [Macs -> MacRecords] /\ mac'[i] = m /\ \A j \in Macs : j # i => mac'[j] = mac[j]
  BY <1>1, <1>2, MacMoves
<1>4. QED  BY <1>1, <1>3

LEMMA CrossStep ==
    ASSUME MacInv, MacCross
    PROVE  MacInv' /\ (CursorInv => CursorInv')
<1>1. /\ MacTypes /\ RightStage(side) /\ side \in LoopRecords /\ macSpare \in Spares /\ side.of \in Macs
  BY TypeFacts DEF MacInv, MacTypes
<1>2. /\ side.role = "send" /\ side.at = "watching" /\ mail = <<>> /\ MacSpends("turns") /\ SideAt("crossing")
      /\ UNCHANGED <<mac, keepers, pointer0, board0, tapped, mail, secure>>
  BY DEF MacCross, LoopOnly
<1>3. /\ side' \in LoopRecords /\ side'.at = "crossing" /\ side'.of = side.of /\ side'.role = side.role
      /\ side'.blocks = side.blocks
  BY <1>1, <1>2, SideMoves DEF Stages, SenderAt
<1>4. macSpare' \in Spares /\ macSpare'.faults <= macSpare.faults
  BY <1>1, <1>2, SpendsSpare
<1>5. MacTypes'
  BY <1>1, <1>2, <1>3, <1>4 DEF MacTypes, RightStage
<1>6. LocalInv'
  BY <1>2, LocalKept DEF MacInv
<1>7. InjectedInv'
  BY <1>2, <1>3 DEF InjectedInv
<1>8. ActiveInv'
  BY <1>2, <1>3, ActiveKept DEF MacInv, CaptureOn
<1>9. HeardInv'
  <2>1. NotedInv'
    BY <1>2, <1>3, NotedKept DEF MacInv, HeardInv
  <2>2. CrossingInv'
    <3>1. tapped # <<>> => ~tapped[1].active
      <4>1. CASE tapped = <<>>
        BY <4>1
      <4>2. ASSUME NEW e \in Struck, tapped = <<e>>
            PROVE  ~tapped[1].active
        BY <4>2 DEF MacCross
      <4>3. QED  BY <1>1, <4>1, <4>2 DEF MacTypes
    <3>2. \A k : Silent(k)'
      BY <1>2 DEF Silent
    <3>3. QED  BY <1>2, <3>1, <3>2 DEF CrossingInv
  <2>3. ToldInv'
    BY <1>3 DEF ToldInv, Telling
  <2>4. QED  BY <2>1, <2>2, <2>3 DEF HeardInv
<1>10. MacInv'
  BY <1>5, <1>6, <1>7, <1>8, <1>9 DEF MacInv
<1>11. CursorInv => CursorInv'
  BY <1>1, <1>2, <1>3, <1>4, CursorKept DEF Calm, Deep
<1>12. QED  BY <1>10, <1>11

LEMMA ComeBackStep ==
    ASSUME MacInv, MacComeBack
    PROVE  MacInv' /\ (CursorInv => CursorInv')
<1>1. /\ MacTypes /\ RightStage(side) /\ side \in LoopRecords /\ macSpare \in Spares /\ side.of \in Macs
      /\ pointer0 \in Pointers /\ keepers \in [DOMAIN keepers -> Keepers] /\ mac \in [Macs -> MacRecords]
  BY TypeFacts DEF MacInv, MacTypes
<1>2. /\ side.role = "send" /\ side.at = "sending"
      /\ UNCHANGED <<mac, keepers, pointer0, board0, tapped, mail, secure>>
  BY DEF MacComeBack, LoopOnly, InCharge
<1>3. PICK next \in {"watching", "toClean"}, ends \in BOOLEAN :
        /\ side' = [side EXCEPT !.at = "swapping", !.next = next, !.ends = ends]
        /\ UNCHANGED macSpare \/ MacSpends("faults")
  BY DEF MacComeBack, Returning
<1>4. /\ side' \in LoopRecords /\ side'.at = "swapping" /\ side'.of = side.of /\ side'.role = side.role
      /\ side'.blocks = side.blocks /\ side'.told = side.told /\ side'.missed = side.missed
      /\ side'.next # "none"
  BY <1>1, <1>3 DEF LoopRecords, Stages, SenderAt
<1>5. RightStage(side')
  BY <1>2, <1>4 DEF RightStage
<1>6. macSpare' \in Spares /\ macSpare'.faults <= macSpare.faults
  BY <1>1, <1>3, SpendsSpare DEF Spares
<1>7. ActiveInv'
  BY <1>2, <1>4, ActiveKept DEF MacInv, CaptureOn
<1>8. MacInv'
  BY <1>1, <1>2, <1>4, <1>5, <1>6, <1>7, LoopGoes DEF LetGo, Telling
<1>9. CursorInv => CursorInv'
  BY <1>1, <1>2, <1>4, <1>6, CursorKept DEF Calm, Deep
<1>10. QED  BY <1>8, <1>9

LEMMA EndsStep ==
    ASSUME MacInv, MacEnds
    PROVE  MacInv' /\ (CursorInv => CursorInv')
<1>1. /\ MacTypes /\ RightStage(side) /\ side \in LoopRecords /\ macSpare \in Spares /\ side.of \in Macs
      /\ pointer0 \in Pointers /\ keepers \in [DOMAIN keepers -> Keepers] /\ mac \in [Macs -> MacRecords]
  BY TypeFacts DEF MacInv, MacTypes
<1>2. /\ side.at \in {"watching", "posting"} /\ SideAt("toClean")
      /\ UNCHANGED <<mac, keepers, pointer0, board0, tapped, mail, secure, macSpare>>
  BY DEF MacEnds, LoopOnly
<1>3. /\ side' \in LoopRecords /\ side'.at = "toClean" /\ side'.of = side.of /\ side'.role = side.role
      /\ side'.blocks = side.blocks /\ side'.told = side.told /\ side'.missed = side.missed
  BY <1>1, <1>2, SideMoves DEF Stages
<1>4. RightStage(side')
  BY <1>1, <1>3 DEF RightStage, SenderAt
<1>5. macSpare' \in Spares /\ macSpare'.faults <= macSpare.faults
  BY <1>1, <1>2 DEF Spares
<1>6. ActiveInv'
  BY <1>2, <1>3, ActiveKept DEF MacInv, CaptureOn
<1>7. MacInv'
  BY <1>1, <1>2, <1>3, <1>4, <1>5, <1>6, LoopGoes DEF LetGo, Telling
<1>8. CursorInv => CursorInv'
  BY <1>1, <1>2, <1>3, <1>5, CursorKept DEF Calm, Deep
<1>9. QED  BY <1>7, <1>8

LEMMA SecureStep ==
    ASSUME MacInv, SecureBegins \/ SecureEnds
    PROVE  MacInv' /\ (CursorInv => CursorInv')
<1>1. /\ MacTypes /\ side \in LoopRecords /\ macSpare \in Spares /\ side.of \in Macs
      /\ mac \in [Macs -> MacRecords]
  BY TypeFacts DEF MacInv
<1>2. /\ UNCHANGED <<keepers, pointer0, board0, tapped, side, mail>> /\ secure' \in BOOLEAN
  BY DEF SecureBegins, SecureEnds
<1>3. macSpare' \in Spares /\ macSpare'.faults <= macSpare.faults
  <2>1. MacSpends("mishaps") \/ UNCHANGED macSpare
    BY DEF SecureBegins, SecureEnds
  <2>2. QED  BY <1>1, <2>1, SpendsSpare DEF Spares
<1>4. /\ mac' \in [Macs -> MacRecords]
      /\ \A i \in Macs : /\ mac'[i].active = mac[i].active /\ mac'[i].injected = mac[i].injected
                         /\ mac'[i].pressed = mac[i].pressed
  <2>1. CASE mac' = mac
    BY <1>1, <2>1
  <2>2. CASE mac' = [i \in Macs |-> IF mac[i].tap = "on" THEN [mac[i] EXCEPT !.tap = "paused"] ELSE mac[i]]
    <3>1. ASSUME NEW i \in Macs
          PROVE  /\ mac'[i] \in MacRecords /\ mac'[i].active = mac[i].active
                 /\ mac'[i].injected = mac[i].injected /\ mac'[i].pressed = mac[i].pressed
      <4>1. mac[i] \in MacRecords /\ mac'[i] = IF mac[i].tap = "on" THEN [mac[i] EXCEPT !.tap = "paused"] ELSE mac[i]
        BY <1>1, <2>2
      <4>2. QED  BY <4>1 DEF MacRecords
    <3>2. mac' = [i \in Macs |-> mac'[i]]
      BY <2>2
    <3>3. QED  BY <3>1, <3>2
  <2>3. QED  BY <2>1, <2>2 DEF SecureBegins, SecureEnds
<1>5. MacTypes'
  BY <1>1, <1>2, <1>3, <1>4 DEF MacTypes
<1>6. LocalInv' /\ InjectedInv' /\ ActiveInv' /\ HeardInv'
  BY <1>1, <1>2, <1>4, LocalKept, InjectedKept, ActiveKept, HeardKept DEF MacInv
<1>7. CursorInv => CursorInv'
  BY <1>1, <1>2, <1>3, CursorKept
<1>8. QED  BY <1>5, <1>6, <1>7 DEF MacInv

LEMMA DropStep ==
    ASSUME MacInv, MacDrop
    PROVE  MacInv' /\ (CursorInv => CursorInv')
<1>1. /\ MacTypes /\ RightStage(side) /\ side \in LoopRecords /\ macSpare \in Spares /\ side.of \in Macs
      /\ mac \in [Macs -> MacRecords]
  BY TypeFacts DEF MacInv, MacTypes
<1>2. /\ side.at = "stopping" /\ SideAt("gone") /\ mail' = <<>> /\ mac' = [mac EXCEPT ![side.of].tap = "off"]
      /\ UNCHANGED <<keepers, pointer0, tapped, secure, board0, macSpare>>
  BY DEF MacDrop, ReceiverOnly
<1>3. /\ side' \in LoopRecords /\ side'.at = "gone" /\ side'.of = side.of /\ side'.role = side.role
      /\ side'.blocks = side.blocks
  BY <1>1, <1>2, SideMoves DEF Stages
<1>4. /\ mac' \in [Macs -> MacRecords]
      /\ \A i \in Macs : /\ mac'[i].active = mac[i].active /\ mac'[i].injected = mac[i].injected
                         /\ mac'[i].pressed = mac[i].pressed
  BY <1>1, <1>2, TapMoves
<1>5. MacTypes'
  <2>1. RightStage(side')
    BY <1>3 DEF RightStage, SenderAt
  <2>2. mail' \in Seq(MailEvents)
    BY <1>2
  <2>3. QED  BY <1>1, <1>2, <1>3, <1>4, <2>1, <2>2 DEF MacTypes
<1>6. LocalInv' /\ ActiveInv'
  BY <1>1, <1>2, <1>3, <1>4, LocalKept, ActiveKept DEF MacInv, CaptureOn
<1>7. InjectedInv'
  BY <1>1, <1>2, <1>3, <1>4, InjectedKept DEF MacInv, LetGo
<1>8. HeardInv'
  <2>1. NotedInv'
    BY <1>1, <1>2, <1>3, <1>4, NotedKept DEF MacInv, HeardInv
  <2>2. QED  BY <1>3, <2>1, HeardAway DEF Telling
<1>9. CursorInv => CursorInv'
  BY <1>1, <1>2, <1>3, CursorKept DEF Calm, Deep, Spares
<1>10. QED  BY <1>5, <1>6, <1>7, <1>8, <1>9 DEF MacInv

LEMMA RestartStep ==
    ASSUME MacInv, MacRestart
    PROVE  MacInv' /\ (CursorInv => CursorInv')
<1>1. /\ MacTypes /\ RightStage(side) /\ side \in LoopRecords /\ macSpare \in Spares /\ side.of \in Macs
      /\ mac \in [Macs -> MacRecords] /\ board0 \in Keyboards /\ MyMac \in MacRecords
  BY TypeFacts DEF MacInv, MacTypes
<1> DEFINE r == [NoMac EXCEPT !.tap = IF secure THEN "paused" ELSE "on"]
<1>2. /\ side.at = "gone" /\ side.of < MaxMacs /\ side' = NewSide(side.of + 1, side.role, side.blocks)
      /\ mac' = [mac EXCEPT ![side.of + 1] = r]
      /\ board0' = [board0 EXCEPT !.unheard = @ \cup board0.down]
      /\ UNCHANGED <<keepers, pointer0, tapped, secure, mail, macSpare>>
  BY DEF MacRestart, ReceiverOnly
<1>3. r \in MacRecords /\ r.active = FALSE /\ r.pressed = {} /\ r.injected = {}
  BY DEF NoMac, MacRecords
<1> HIDE DEF r
<1>4. PICK j \in Macs : j = side.of + 1 /\ j # side.of
  BY <1>1, <1>2, MacAssumption DEF Macs
<1>5. /\ mac' \in [Macs -> MacRecords] /\ mac'[j] = r
      /\ \A i \in Macs : i # j => mac'[i] = mac[i]
  BY <1>1, <1>2, <1>3, <1>4, MacMoves
<1>6. /\ side' \in LoopRecords /\ side'.at = "watching" /\ side'.of = j /\ side'.role = side.role
      /\ side'.blocks = side.blocks /\ side'.next = "none"
  BY <1>1, <1>2, <1>4 DEF NewSide, LoopRecords, Stages
<1>7. /\ board0' \in Keyboards /\ board0'.down = board0.down /\ board0'.local = board0.local
      /\ board0'.held = board0.held /\ board0'.lost = board0.lost
      /\ board0'.unheard = board0.unheard \cup board0.down
  BY <1>1, <1>2 DEF Keyboards
<1>8. MacTypes'
  <2>1. RightStage(side')
    BY <1>6 DEF RightStage, SenderAt
  <2>2. QED  BY <1>1, <1>2, <1>5, <1>6, <1>7, <2>1 DEF MacTypes
<1>9. LocalInv'
  BY <1>2, <1>7, LocalKept DEF MacInv
<1>10. ActiveInv'
  BY <1>1, <1>2, <1>3, <1>5, <1>6 DEF MacInv, ActiveInv, CaptureOn
<1>11. InjectedInv'
  <2>1. side.role = "receive" => board0.held \subseteq board0.lost
    BY <1>2 DEF MacInv, InjectedInv, LetGo
  <2>2. MyMac'.injected = {}
    BY <1>3, <1>5, <1>6 DEF MyMac
  <2>3. QED  BY <1>6, <1>7, <2>1, <2>2 DEF InjectedInv
<1>12. HeardInv'
  <2>1. NotedInv'
    <3>1. MyMac'.pressed = {}
      BY <1>3, <1>5, <1>6 DEF MyMac
    <3>2. \A k : Clear(k)' => k \notin board0'.down
      BY <1>7 DEF Clear
    <3>3. RingsTrue'
      BY <1>2, <1>7, <1>1 DEF MacInv, HeardInv, NotedInv, RingsTrue, Striking, Keyboards
    <3>4. QED  BY <3>1, <3>2, <3>3 DEF NotedInv
  <2>2. QED  BY <1>6, <2>1, HeardAway DEF Telling
<1>13. CursorInv => CursorInv'
  <2>1. ASSUME CursorInv PROVE HiddenInv'
    BY <1>2, <1>6, <2>1 DEF CursorInv, HiddenInv, Calm
  <2>2. ASSUME CursorInv PROVE DepthInv'
    BY <1>2, <1>6, <2>2 DEF CursorInv, DepthInv, Deep
  <2>3. QED  BY <2>1, <2>2 DEF CursorInv
<1>14. QED  BY <1>8, <1>9, <1>10, <1>11, <1>12, <1>13 DEF MacInv

--------------------------------------------------------------------------------
(* The event tap.                                                          *)

\* What the mail says when one event more is in it.
LEMMA MailAppended ==
    ASSUME mail \in Seq(MailEvents), NEW e \in MailEvents, mail' = Append(mail, e), NEW k
    PROVE  /\ mail' \in Seq(MailEvents)
           /\ e.is = "input" /\ e.key = k => Says(k, e.down)'
           /\ e.is # "input" \/ e.key # k =>
                 (Silent(k)' <=> Silent(k)) /\ (\A v : Says(k, v)' <=> Says(k, v))
<1>1. /\ Len(mail) \in Nat /\ DOMAIN mail = 1..Len(mail)
      /\ Len(mail') = Len(mail) + 1 /\ DOMAIN mail' = 1..Len(mail) + 1
      /\ mail'[Len(mail) + 1] = e /\ \A i \in 1..Len(mail) : mail'[i] = mail[i]
  OBVIOUS
<1>0. PICK n \in Nat : n = Len(mail) + 1
  BY <1>1
<1>2. mail' \in Seq(MailEvents)
  OBVIOUS
<1>3. \A i \in 1..Len(mail) : Speaks(k, i)' <=> Speaks(k, i)
  BY <1>1 DEF Speaks
<1>4. ASSUME e.is = "input", e.key = k PROVE Says(k, e.down)'
  <2>1. Speaks(k, n)' /\ mail'[n].down = e.down
    BY <1>0, <1>1, <1>4 DEF Speaks
  <2>2. n \in DOMAIN mail' /\ \A j \in DOMAIN mail' : ~(n < j)
    BY <1>0, <1>1
  <2>3. QED  BY <2>1, <2>2 DEF Says, Speaks
<1>5. ASSUME e.is # "input" \/ e.key # k
      PROVE  (Silent(k)' <=> Silent(k)) /\ (\A v : Says(k, v)' <=> Says(k, v))
  <2>1. ~Speaks(k, n)'
    BY <1>0, <1>1, <1>5 DEF Speaks
  <2>2. \A j \in DOMAIN mail' : j \in DOMAIN mail \/ j = n
    BY <1>0, <1>1
  <2>3. \A j \in DOMAIN mail : j \in DOMAIN mail' /\ mail'[j] = mail[j] /\ (Speaks(k, j)' <=> Speaks(k, j))
    BY <1>1, <1>3
  <2>4. Silent(k)' <=> Silent(k)
    BY <2>1, <2>2, <2>3 DEF Silent, Speaks
  <2>5. ASSUME NEW v, Says(k, v) PROVE Says(k, v)'
    <3>1. PICK i \in DOMAIN mail : /\ Speaks(k, i) /\ mail[i].down = v
                                   /\ \A j \in DOMAIN mail : i < j => ~Speaks(k, j)
      BY <2>5 DEF Says
    <3>2. \A j \in DOMAIN mail' : i < j => ~Speaks(k, j)'
      BY <2>1, <2>2, <2>3, <3>1
    <3>3. i \in DOMAIN mail' /\ Speaks(k, i)' /\ mail'[i].down = v
      BY <2>3, <3>1
    <3>4. QED  BY <3>2, <3>3 DEF Says, Speaks
  <2>6. ASSUME NEW v, Says(k, v)' PROVE Says(k, v)
    <3>1. PICK i \in DOMAIN mail' : /\ Speaks(k, i)' /\ mail'[i].down = v
                                    /\ \A j \in DOMAIN mail' : i < j => ~Speaks(k, j)'
      BY <2>6 DEF Says, Speaks
    <3>2. i \in DOMAIN mail /\ Speaks(k, i) /\ mail[i].down = v
      BY <2>1, <2>2, <2>3, <3>1
    <3>3. \A j \in DOMAIN mail : i < j => ~Speaks(k, j)
      BY <2>3, <3>1
    <3>4. QED  BY <3>2, <3>3 DEF Says
  <2>7. QED  BY <2>4, <2>5, <2>6
<1>6. QED  BY <1>2, <1>4, <1>5

\* What the mail says when its first event is read.
LEMMA MailRead ==
    ASSUME mail \in Seq(MailEvents), mail # <<>>, mail' = Tail(mail), NEW k
    PROVE  /\ mail' \in Seq(MailEvents) /\ Head(mail) \in MailEvents
           /\ Silent(k) => Silent(k)' /\ ~(Head(mail).is = "input" /\ Head(mail).key = k)
           /\ \A v : Says(k, v) =>
                 \/ Says(k, v)'
                 \/ Silent(k)' /\ Head(mail).is = "input" /\ Head(mail).key = k /\ Head(mail).down = v
<1>1. /\ Len(mail) \in Nat \ {0} /\ DOMAIN mail = 1..Len(mail) /\ Head(mail) = mail[1]
      /\ Len(mail') = Len(mail) - 1 /\ DOMAIN mail' = 1..Len(mail) - 1
      /\ \A i \in 1..Len(mail) - 1 : mail'[i] = mail[i + 1]
  OBVIOUS
<1>2. mail' \in Seq(MailEvents) /\ Head(mail) \in MailEvents
  OBVIOUS
<1>3. \A i \in DOMAIN mail' : i + 1 \in DOMAIN mail /\ i \in Int /\ (Speaks(k, i)' <=> Speaks(k, i + 1))
  BY <1>1 DEF Speaks
<1>4. 1 \in DOMAIN mail /\ (Speaks(k, 1) <=> Head(mail).is = "input" /\ Head(mail).key = k)
  BY <1>1 DEF Speaks
<1>5. Silent(k) => Silent(k)' /\ ~(Head(mail).is = "input" /\ Head(mail).key = k)
  BY <1>3, <1>4 DEF Silent, Speaks
<1>6. ASSUME NEW v, Says(k, v)
      PROVE  \/ Says(k, v)'
             \/ Silent(k)' /\ Head(mail).is = "input" /\ Head(mail).key = k /\ Head(mail).down = v
  <2>1. PICK i \in DOMAIN mail : /\ Speaks(k, i) /\ mail[i].down = v
                                 /\ \A j \in DOMAIN mail : i < j => ~Speaks(k, j)
    BY <1>6 DEF Says
  <2>2. CASE i = 1
    <3>1. \A j \in DOMAIN mail' : i < j + 1
      BY <1>1, <2>2
    <3>2. Silent(k)'
      BY <1>3, <2>1, <3>1 DEF Silent, Speaks
    <3>3. QED  BY <1>1, <1>4, <2>1, <2>2, <3>2
  <2>3. CASE i # 1
    <3>1. PICK m \in DOMAIN mail' : m + 1 = i
      <4>1. i - 1 \in 1..Len(mail) - 1 /\ (i - 1) + 1 = i
        BY <1>1, <2>1, <2>3
      <4>2. QED  BY <1>1, <4>1
    <3>2. Speaks(k, m)' /\ mail'[m].down = v
      BY <1>1, <1>3, <2>1, <3>1
    <3>3. \A j \in DOMAIN mail' : m < j => i < j + 1
      BY <1>1, <3>1
    <3>4. \A j \in DOMAIN mail' : m < j => ~Speaks(k, j)'
      BY <1>3, <2>1, <3>3
    <3>5. Says(k, v)'
      BY <3>2, <3>4 DEF Says, Speaks
    <3>6. QED  BY <3>5
  <2>4. QED  BY <2>2, <2>3
<1>7. QED  BY <1>2, <1>5, <1>6

LEMMA TapStoppedStep ==
    ASSUME MacInv, TapStopped
    PROVE  MacInv' /\ (CursorInv => CursorInv')
<1>1. /\ MacTypes /\ side \in LoopRecords /\ macSpare \in Spares /\ side.of \in Macs
      /\ mac \in [Macs -> MacRecords] /\ mail \in Seq(MailEvents)
  BY TypeFacts DEF MacInv
<1> DEFINE e == [is |-> "failed"]
<1>2. /\ mac' = [mac EXCEPT ![side.of].tap = "paused"] /\ mail' = Append(mail, e) /\ MacSpends("mishaps")
      /\ UNCHANGED <<keepers, pointer0, board0, tapped, side, secure>>
  BY DEF TapStopped
<1>3. e \in MailEvents /\ e.is # "input"
  BY DEF MailEvents
<1> HIDE DEF e
<1>4. /\ mac' \in [Macs -> MacRecords]
      /\ \A i \in Macs : /\ mac'[i].active = mac[i].active /\ mac'[i].injected = mac[i].injected
                         /\ mac'[i].pressed = mac[i].pressed
  BY <1>1, <1>2, TapMoves
<1>5. macSpare' \in Spares /\ macSpare'.faults <= macSpare.faults
  BY <1>1, <1>2, SpendsSpare
<1>6. mail' \in Seq(MailEvents)
  BY <1>1, <1>2, <1>3
<1>7. MacTypes'
  BY <1>1, <1>2, <1>4, <1>5, <1>6 DEF MacTypes
<1>8. LocalInv' /\ InjectedInv' /\ ActiveInv'
  BY <1>1, <1>2, <1>4, LocalKept, InjectedKept, ActiveKept DEF MacInv
<1>9. HeardInv'
  <2>1. NotedInv'
    BY <1>1, <1>2, <1>4, NotedKept DEF MacInv, HeardInv
  <2>2. \A k : /\ Silent(k)' <=> Silent(k)
               /\ \A v : Says(k, v)' <=> Says(k, v)
    BY <1>1, <1>2, <1>3, MailAppended
  <2>3. \A k : Clear(k)' <=> Clear(k)
    BY <1>2 DEF Clear, Striking
  <2>4. MyMac'.pressed = MyMac.pressed
    BY <1>1, <1>2, <1>4 DEF MyMac
  <2>5. CrossingInv'
    BY <1>2, <2>2, <2>4 DEF MacInv, HeardInv, CrossingInv
  <2>6. ToldInv'
    BY <1>2, <2>2, <2>3 DEF MacInv, HeardInv, ToldInv
  <2>7. QED  BY <2>1, <2>5, <2>6 DEF HeardInv
<1>10. CursorInv => CursorInv'
  BY <1>1, <1>2, <1>5, CursorKept
<1>11. QED  BY <1>7, <1>8, <1>9, <1>10 DEF MacInv

LEMMA PlaceFacts ==
    ASSUME NEW S, NEW T \in SUBSET S, NEW k \in S, NEW b \in BOOLEAN
    PROVE  /\ Place0(T, k, b) \in SUBSET S /\ (k \in Place0(T, k, b) <=> b)
           /\ \A j : j # k => (j \in Place0(T, k, b) <=> j \in T)
BY DEF Place0

\* What a callback reports of a key differs from what is so only for a modifier whose other key
\* is held.
LEMMA ReportedFacts ==
    ASSUME MacAssumption, NEW held \in SUBSET Inputs, NEW k \in Inputs
    PROVE  /\ Reported(k, held) \in BOOLEAN
           /\ k \in held => Reported(k, held)
<1>1. CASE k \in MacModifiers
  <2>1. Reported(k, held) = (MacModifiers \cap held # {})
    BY <1>1 DEF Reported
  <2>2. k \in held => MacModifiers \cap held # {}
    BY <1>1
  <2>3. (MacModifiers \cap held # {}) \in BOOLEAN
    OBVIOUS
  <2>4. QED  BY <2>1, <2>2, <2>3
<1>2. CASE k \notin MacModifiers
  <2>1. PICK b \in BOOLEAN : b <=> k \in held
    OBVIOUS
  <2>2. Reported(k, held) <=> k \in held
    BY <1>2 DEF Reported
  <2>3. Reported(k, held) \in BOOLEAN
    BY <1>2 DEF Reported
  <2>4. QED  BY <2>2, <2>3
<1>3. QED  BY <1>1, <1>2

LEMMA StrikeStep ==
    ASSUME MacInv, NEW k \in Inputs, Strike(k)
    PROVE  MacInv' /\ (CursorInv => CursorInv')
<1> DEFINE down == k \notin board0.down
           held == Place0(board0.down, k, down)
           heard == MyMac.tap = "on"
<1>1. /\ MacTypes /\ side \in LoopRecords /\ macSpare \in Spares /\ side.of \in Macs
      /\ mac \in [Macs -> MacRecords] /\ board0 \in Keyboards /\ MyMac \in MacRecords
  BY TypeFacts DEF MacInv
<1>2. /\ tapped = <<>> /\ MacSpends("strokes")
      /\ UNCHANGED <<mac, keepers, pointer0, side, mail, secure>>
  BY DEF Strike
<1>3. /\ board0' = [board0 EXCEPT !.down = held,
                                  !.local = IF heard THEN @ ELSE Place0(@, k, down),
                                  !.unheard = Place0(@, k, ~heard),
                                  !.blurred = Place0(@, k, heard /\ ~down /\ Reported(k, held))]
      /\ tapped' = IF heard THEN <<[of |-> side.of, key |-> k, down |-> Reported(k, held),
                                    active |-> MyMac.active,
                                    chord |-> k = MacHotkey /\ MacModifiers \cap held # {}]>>
                   ELSE <<>>
  BY DEF Strike
<1>4. /\ board0.down \in SUBSET Inputs /\ board0.local \in SUBSET Inputs
      /\ board0.unheard \in SUBSET Inputs /\ board0.blurred \in SUBSET Inputs
  BY <1>1 DEF Keyboards
<1>5. /\ held \in SUBSET Inputs /\ (k \in held <=> down) /\ (\A j : j # k => (j \in held <=> j \in board0.down))
  BY <1>4 DEF Place0
<1>6. PICK hd \in BOOLEAN, dn \in BOOLEAN, rp \in BOOLEAN, bl \in BOOLEAN :
         hd = heard /\ dn = down /\ rp = Reported(k, held) /\ bl = (heard /\ ~down /\ Reported(k, held))
  <2>1. Reported(k, held) \in BOOLEAN
    BY <1>5, ReportedFacts, MacAssumption
  <2>2. QED  BY <2>1
<1>7. /\ rp # dn => bl \/ ~hd
  <2>1. /\ k \in held => Reported(k, held)
    BY <1>5, ReportedFacts, MacAssumption
  <2>2. QED  BY <1>5, <1>6, <2>1
<1>8. /\ board0' = [board0 EXCEPT !.down = held, !.local = IF hd THEN @ ELSE Place0(@, k, dn),
                                  !.unheard = Place0(@, k, ~hd), !.blurred = Place0(@, k, bl)]
      /\ tapped' = IF hd THEN <<[of |-> side.of, key |-> k, down |-> rp, active |-> MyMac.active,
                                 chord |-> k = MacHotkey /\ MacModifiers \cap held # {}]>>
                   ELSE <<>>
  BY <1>3, <1>6
<1> HIDE DEF heard
<1>9. PICK ch \in BOOLEAN : ch = (k = MacHotkey /\ MacModifiers \cap held # {})
  OBVIOUS
<1>10. (k \in held <=> dn) /\ (dn <=> k \notin board0.down) /\ (ch => k = MacHotkey)
  BY <1>5, <1>6, <1>9
<1> HIDE DEF held, down
<1>11. PICK l \in SUBSET Inputs : l = IF hd THEN board0.local ELSE Place0(board0.local, k, dn)
  BY <1>4, PlaceFacts
<1>12. PICK u \in SUBSET Inputs, b \in SUBSET Inputs :
         /\ u = Place0(board0.unheard, k, ~hd) /\ b = Place0(board0.blurred, k, bl)
  <2>1. Place0(board0.unheard, k, ~hd) \in SUBSET Inputs /\ Place0(board0.blurred, k, bl) \in SUBSET Inputs
    BY <1>4 DEF Place0
  <2>2. QED  BY <2>1
<1>13. /\ (k \in u <=> ~hd) /\ (k \in b <=> bl) /\ (~hd => (k \in l <=> dn))
       /\ \A j : j # k => (j \in u <=> j \in board0.unheard) /\ (j \in b <=> j \in board0.blurred)
                          /\ (j \in l <=> j \in board0.local)
  <2>1. /\ (k \in u <=> ~hd) /\ \A j : j # k => (j \in u <=> j \in board0.unheard)
    BY <1>4, <1>12 DEF Place0
  <2>2. /\ (k \in b <=> bl) /\ \A j : j # k => (j \in b <=> j \in board0.blurred)
    BY <1>4, <1>12, PlaceFacts
  <2>3. /\ (~hd => (k \in l <=> dn)) /\ \A j : j # k => (j \in l <=> j \in board0.local)
    BY <1>4, <1>11, PlaceFacts
  <2>4. QED  BY <2>1, <2>2, <2>3
<1>14. board0' = [board0 EXCEPT !.down = held, !.local = l, !.unheard = u, !.blurred = b]
  BY <1>8, <1>11, <1>12
<1>15. /\ board0' \in Keyboards /\ board0'.down = held /\ board0'.local = l /\ board0'.unheard = u
       /\ board0'.blurred = b /\ board0'.held = board0.held /\ board0'.lost = board0.lost
  BY <1>1, <1>5, <1>14 DEF Keyboards
<1>16. PICK ac \in BOOLEAN : ac = MyMac.active
  BY <1>1 DEF MacRecords
<1> DEFINE e == [of |-> side.of, key |-> k, down |-> rp, active |-> ac, chord |-> ch]
<1>17. /\ e \in Struck /\ e.of = side.of /\ e.key = k /\ e.down = rp /\ e.active = ac /\ e.chord = ch
       /\ tapped' = IF hd THEN <<e>> ELSE <<>>
  BY <1>1, <1>8, <1>9, <1>16 DEF Struck
<1> HIDE DEF e
<1>18. macSpare' \in Spares /\ macSpare'.faults <= macSpare.faults
  BY <1>1, <1>2, SpendsSpare
<1>19. MacTypes'
  <2>1. tapped' = <<>> \/ \E x \in Struck : tapped' = <<x>> /\ (x.chord => x.key = MacHotkey)
    BY <1>10, <1>17
  <2>2. QED  BY <1>1, <1>2, <1>15, <1>18, <2>1 DEF MacTypes
<1>20. \A j : /\ Striking(j)' <=> hd /\ j = k
              /\ ~Striking(j)
  BY <1>2, <1>17 DEF Striking
<1>21. LocalInv'
  <2>1. ASSUME NEW m \in MacModifiers, ~Striking(m)'
        PROVE  m \in board0'.local <=> m \in board0'.down
    <3>1. CASE m = k
      BY <1>10, <1>13, <1>15, <1>20, <2>1, <3>1
    <3>2. CASE m # k
      BY <1>5, <1>13, <1>15, <1>20, <3>2 DEF MacInv, LocalInv, held
    <3>3. QED  BY <3>1, <3>2
  <2>2. QED  BY <2>1 DEF LocalInv
<1>22. InjectedInv' /\ ActiveInv'
  BY <1>1, <1>2, <1>15, InjectedKept, ActiveKept DEF MacInv
<1>23. \A j : Clear(j)' => j # k /\ Clear(j) /\ (j \in board0'.down <=> j \in board0.down)
  <2>1. ASSUME NEW j, Clear(j)' PROVE j # k
    BY <1>2, <1>13, <1>15, <1>17, <1>20, <2>1 DEF Clear
  <2>2. ASSUME NEW j, Clear(j)' PROVE Clear(j)
    BY <1>13, <1>15, <1>20, <2>1, <2>2 DEF Clear
  <2>3. \A j : j # k => (j \in board0'.down <=> j \in board0.down)
    BY <1>5, <1>15
  <2>4. QED  BY <2>1, <2>2, <2>3
<1>24. \A j : /\ Silent(j)' <=> Silent(j)
              /\ \A v : Says(j, v)' <=> Says(j, v)
  BY <1>2 DEF Silent, Says, Speaks
<1>25. HeardInv'
  <2>1. RingsTrue'
    <3>1. ASSUME NEW j \in Inputs, Striking(j)', j \notin board0'.blurred
          PROVE  tapped'[1].down <=> j \in board0'.down
      BY <1>7, <1>10, <1>13, <1>15, <1>17, <1>20, <3>1
    <3>2. QED  BY <3>1 DEF RingsTrue
  <2>2. MyMac' = MyMac
    BY <1>2 DEF MyMac
  <2>3. NotedInv'
    BY <1>2, <1>23, <2>1, <2>2 DEF MacInv, HeardInv, NotedInv
  <2>4. CrossingInv'
    <3>1. side.at = "crossing" => ~ac
      BY <1>1, <1>16 DEF MacInv, ActiveInv, MyMac, CaptureOn
    <3>2. side.at = "crossing" /\ tapped' # <<>> => ~tapped'[1].active
      BY <1>17, <3>1
    <3>3. QED  BY <1>2, <1>24, <2>2, <3>2 DEF MacInv, HeardInv, CrossingInv
  <2>5. ToldInv'
    <3>2. QED  BY <1>2, <1>23, <1>24 DEF MacInv, HeardInv, ToldInv
  <2>6. QED  BY <2>3, <2>4, <2>5 DEF HeardInv
<1>26. CursorInv => CursorInv'
  BY <1>1, <1>2, <1>18, CursorKept
<1>27. QED  BY <1>19, <1>21, <1>22, <1>25, <1>26 DEF MacInv

LEMMA CallbackStep ==
    ASSUME MacInv, Callback
    PROVE  MacInv' /\ (CursorInv => CursorInv')
<1>1. /\ MacTypes /\ RightStage(side) /\ side \in LoopRecords /\ macSpare \in Spares /\ side.of \in Macs
      /\ mac \in [Macs -> MacRecords] /\ board0 \in Keyboards /\ MyMac \in MacRecords
      /\ mail \in Seq(MailEvents) /\ tapped # <<>>
  BY TypeFacts DEF MacInv, MacTypes, Callback
<1>2. PICK e \in Struck : tapped = <<e>> /\ (e.chord => e.key = MacHotkey)
  BY <1>1 DEF MacTypes
<1>3. /\ e.of \in Macs /\ e.key \in Inputs /\ e.down \in BOOLEAN /\ e.active \in BOOLEAN
      /\ e.chord \in BOOLEAN
  BY DEF Struck
<1>4. /\ tapped' = <<>>
      /\ mac' = IF Notes(e) THEN [mac EXCEPT ![e.of].pressed = Place0(@, e.key, e.down)] ELSE mac
      /\ board0' = IF Swallows(e) THEN board0 ELSE [board0 EXCEPT !.local = Place0(@, e.key, e.key \in board0.down)]
      /\ UNCHANGED <<keepers, pointer0, secure, macSpare>>
  BY <1>2 DEF Callback
<1>5. \A j : Striking(j) <=> j = e.key
  BY <1>2 DEF Striking
<1>6. \A j : ~Striking(j)'
  BY <1>4 DEF Striking
<1>7. /\ mac' \in [Macs -> MacRecords]
      /\ \A i \in Macs : /\ mac'[i].active = mac[i].active /\ mac'[i].injected = mac[i].injected
                         /\ i # e.of => mac'[i].pressed = mac[i].pressed
                         /\ \A j : j # e.key => (j \in mac'[i].pressed <=> j \in mac[i].pressed)
      /\ e.key # MacUnmapped => (e.key \in mac'[e.of].pressed <=> e.down)
  <2>1. CASE Notes(e)
    <3>1. mac[e.of] \in MacRecords /\ mac[e.of].pressed \in SUBSET Inputs
      BY <1>1, <1>3 DEF MacRecords
    <3>2. PICK p \in SUBSET Inputs : p = Place0(mac[e.of].pressed, e.key, e.down)
      BY <1>3, <3>1, PlaceFacts
    <3>3. (e.key \in p <=> e.down) /\ \A j : j # e.key => (j \in p <=> j \in mac[e.of].pressed)
      BY <1>3, <3>1, <3>2, PlaceFacts
    <3>4. PICK m \in MacRecords : /\ m = [mac[e.of] EXCEPT !.pressed = p] /\ m.pressed = p
                                  /\ m.active = mac[e.of].active /\ m.injected = mac[e.of].injected
      <4>1. [mac[e.of] EXCEPT !.pressed = p] \in MacRecords
        BY <3>1, <3>2 DEF MacRecords
      <4>2. QED  BY <3>1, <4>1 DEF MacRecords
    <3>5. mac' = [mac EXCEPT ![e.of] = m]
      BY <1>4, <2>1, <3>2, <3>4
    <3>6. mac' \in [Macs -> MacRecords] /\ mac'[e.of] = m /\ \A j \in Macs : j # e.of => mac'[j] = mac[j]
      BY <1>1, <1>3, <3>4, <3>5, MacMoves
    <3>7. QED  BY <3>3, <3>4, <3>6
  <2>2. CASE ~Notes(e)
    BY <1>1, <1>4, <2>2 DEF Notes
  <2>3. QED  BY <2>1, <2>2
<1>8. /\ board0' \in Keyboards /\ board0'.down = board0.down /\ board0'.held = board0.held
      /\ board0'.lost = board0.lost /\ board0'.unheard = board0.unheard /\ board0'.blurred = board0.blurred
      /\ \A j : j # e.key => (j \in board0'.local <=> j \in board0.local)
      /\ e.key \in MacModifiers => (e.key \in board0'.local <=> e.key \in board0.down)
  <2>1. CASE Swallows(e)
    <3>1. e.key \notin MacModifiers
      BY <1>2, <2>1, MacAssumption DEF Swallows
    <3>2. QED  BY <1>1, <1>4, <2>1, <3>1
  <2>2. CASE ~Swallows(e)
    <3>1. board0.local \in SUBSET Inputs
      BY <1>1 DEF Keyboards
    <3>2. PICK l \in SUBSET Inputs : l = Place0(board0.local, e.key, e.key \in board0.down)
      BY <1>3, <3>1 DEF Place0
    <3>3. /\ e.key \in l <=> e.key \in board0.down
          /\ \A j : j # e.key => (j \in l <=> j \in board0.local)
      BY <3>2 DEF Place0
    <3>4. board0' = [board0 EXCEPT !.local = l]
      BY <1>4, <2>2, <3>2
    <3>5. QED  BY <1>1, <3>3, <3>4 DEF Keyboards
  <2>3. QED  BY <2>1, <2>2
<1>9. PICK m \in BOOLEAN : m = (e.of # side.of \/ side.at = "gone")
  OBVIOUS
<1>10. PICK em \in BOOLEAN : em = Emits(e)
  BY DEF Emits
<1>11. ASSUME m PROVE UNCHANGED <<mail, side>>
  BY <1>2, <1>9, <1>11 DEF Callback
<1>12. ASSUME ~m
       PROVE  /\ e.of = side.of /\ side.at # "gone"
              /\ mail' = IF e.chord /\ e.down THEN Append(mail, [is |-> "emergency"])
                         ELSE IF em THEN Append(mail, [is |-> "input", key |-> e.key, down |-> e.down])
                         ELSE mail
              /\ side' = IF side.at \in {"watching", "crossing"} THEN side
                         ELSE [side EXCEPT !.missed = Place0(@, e.key, ~em)]
  BY <1>2, <1>9, <1>10, <1>12 DEF Callback
<1>13. e.key \in MacButtons => em
  BY <1>10 DEF Emits
<1>14. em => (e.chord /\ e.down => FALSE)
  <2>1. MacHotkey \notin MacButtons
    BY MacAssumption
  <2>2. QED  BY <1>2, <1>10, <2>1 DEF Emits
\* What the mail says now.
<1>15. /\ mail' \in Seq(MailEvents)
       /\ \A j : j # e.key \/ m \/ ~em => /\ Silent(j)' <=> Silent(j)
                                          /\ \A v : Says(j, v)' <=> Says(j, v)
       /\ ~m /\ em => Says(e.key, e.down)'
  <2>1. CASE m \/ (~em /\ ~(e.chord /\ e.down))
    <3>1. mail' = mail
      BY <1>11, <1>12, <2>1
    <3>2. QED  BY <1>1, <2>1, <3>1 DEF Silent, Says, Speaks
  <2>2. CASE ~m /\ e.chord /\ e.down
    <3> DEFINE x == [is |-> "emergency"]
    <3>1. x \in MailEvents /\ x.is # "input"
      BY DEF MailEvents
    <3>2. mail' = Append(mail, x)
      BY <1>12, <2>2
    <3> HIDE DEF x
    <3>3. \A j : (Silent(j)' <=> Silent(j)) /\ (\A v : Says(j, v)' <=> Says(j, v))
      BY <1>1, <3>1, <3>2, MailAppended
    <3>4. mail' \in Seq(MailEvents)
      BY <1>1, <3>1, <3>2
    <3>5. QED  BY <1>14, <2>2, <3>3, <3>4
  <2>3. CASE ~m /\ em
    <3> DEFINE x == [is |-> "input", key |-> e.key, down |-> e.down]
    <3>1. x \in MailEvents /\ x.is = "input" /\ x.key = e.key /\ x.down = e.down
      BY <1>3 DEF MailEvents, MailInputs
    <3>2. mail' = Append(mail, x)
      BY <1>12, <1>14, <2>3
    <3> HIDE DEF x
    <3>3. \A j : j # e.key => (Silent(j)' <=> Silent(j)) /\ (\A v : Says(j, v)' <=> Says(j, v))
      BY <1>1, <3>1, <3>2, MailAppended
    <3>4. Says(e.key, x.down)'
      BY <1>1, <3>1, <3>2, MailAppended
    <3>5. mail' \in Seq(MailEvents)
      BY <1>1, <3>1, <3>2
    <3>6. PICK d \in BOOLEAN : d = e.down /\ d = x.down
      BY <1>3, <3>1
    <3>7. Says(e.key, d)'
      BY <3>4, <3>6
    <3>8. Says(e.key, e.down)'
      BY <3>6, <3>7
    <3>9. QED  BY <2>3, <3>3, <3>5, <3>8
  <2>4. QED  BY <2>1, <2>2, <2>3
<1>16. /\ side' \in LoopRecords /\ side'.of = side.of /\ side'.role = side.role /\ side'.at = side.at
       /\ side'.blocks = side.blocks /\ side'.told = side.told /\ side'.next = side.next
       /\ \A j : j # e.key => (j \in side'.missed <=> j \in side.missed)
       /\ m => side'.missed = side.missed
       /\ ~m /\ side.at \notin {"watching", "crossing"} => (e.key \in side'.missed <=> ~em)
  <2>1. CASE side' = side /\ (m \/ side.at \in {"watching", "crossing"})
    BY <1>1, <2>1
  <2>2. CASE ~m /\ side.at \notin {"watching", "crossing"}
    <3>1. side.missed \in SUBSET Inputs
      BY <1>1 DEF LoopRecords
    <3>2. PICK s \in SUBSET Inputs : s = Place0(side.missed, e.key, ~em)
      BY <1>3, <3>1 DEF Place0
    <3>3. (e.key \in s <=> ~em) /\ \A j : j # e.key => (j \in s <=> j \in side.missed)
      BY <3>2 DEF Place0
    <3>4. side' = [side EXCEPT !.missed = s]
      BY <1>12, <2>2, <3>2
    <3>5. QED  BY <1>1, <2>2, <3>3, <3>4 DEF LoopRecords
  <2>3. QED  BY <1>11, <1>12, <2>1, <2>2
<1>17. MacTypes'
  <2>1. RightStage(side')
    BY <1>1, <1>16 DEF RightStage
  <2>2. QED  BY <1>1, <1>4, <1>7, <1>8, <1>15, <1>16, <2>1 DEF MacTypes
<1>18. LocalInv'
  <2>1. ASSUME NEW k \in MacModifiers PROVE k \in board0'.local <=> k \in board0'.down
    BY <1>5, <1>8, <2>1 DEF MacInv, LocalInv
  <2>2. QED  BY <2>1 DEF LocalInv
<1>19. InjectedInv' /\ ActiveInv'
  BY <1>1, <1>7, <1>8, <1>16, InjectedKept, ActiveKept DEF MacInv
<1>20. \A j : Clear(j)' => /\ j \notin board0.unheard \cup board0.blurred
                           /\ j # e.key => Clear(j)
  BY <1>5, <1>8 DEF Clear
<1>21. \A j : Clear(j)' /\ j = e.key /\ e.of # side.of => Clear(j)
  BY <1>2, <1>8 DEF Clear
<1>22. e.key \notin board0.blurred => (e.down <=> e.key \in board0.down)
  BY <1>2, <1>3, <1>5 DEF MacInv, HeardInv, NotedInv, RingsTrue
<1>23. NotedInv'
  <2>1. RingsTrue'
    BY <1>6 DEF RingsTrue
  <2>2. ASSUME ~side'.blocks, NEW k \in Mapped, Clear(k)'
        PROVE  k \in MyMac'.pressed <=> k \in board0'.down
    <3>1. MyMac' = mac'[side.of] /\ MyMac = mac[side.of]
      BY <1>16 DEF MyMac
    <3>2. CASE k # e.key \/ e.of # side.of
      <4>1. Clear(k)
        BY <1>20, <1>21, <2>2, <3>2
      <4>2. k \in MyMac.pressed <=> k \in board0.down
        BY <1>16, <2>2, <4>1 DEF MacInv, HeardInv, NotedInv
      <4>3. k \in mac'[side.of].pressed <=> k \in mac[side.of].pressed
        BY <1>1, <1>7, <3>2
      <4>4. QED  BY <1>8, <3>1, <4>2, <4>3
    <3>3. CASE k = e.key /\ e.of = side.of
      <4>1. e.key \notin board0.blurred /\ e.key # MacUnmapped
        BY <1>20, <2>2, <3>3 DEF Mapped
      <4>2. QED  BY <1>7, <1>8, <1>22, <3>1, <3>3, <4>1
    <3>4. QED  BY <3>2, <3>3
  <2>3. QED  BY <2>1, <2>2 DEF NotedInv
<1>24. CrossingInv'
  <2>1. SUFFICES ASSUME side'.at = "crossing", NEW k \in Mapped
                 PROVE  (\/ Silent(k)
                         \/ k \in MacButtons /\ \E v \in BOOLEAN : (v <=> k \in MyMac.pressed) /\ Says(k, v))'
    BY <1>4 DEF CrossingInv
  <2>2. MyMac' = mac'[side.of] /\ MyMac = mac[side.of]
    BY <1>16 DEF MyMac
  <2>3. /\ side.at = "crossing" /\ ~e.active
        /\ \/ Silent(k)
           \/ k \in MacButtons /\ \E v \in BOOLEAN : (v <=> k \in MyMac.pressed) /\ Says(k, v)
    BY <1>2, <1>16, <2>1 DEF MacInv, HeardInv, CrossingInv
  <2>4. CASE k # e.key \/ e.of # side.of
    <3>1. k \in MyMac'.pressed <=> k \in MyMac.pressed
      BY <1>1, <1>7, <2>2, <2>4
    <3>2. (Silent(k)' <=> Silent(k)) /\ \A v : Says(k, v)' <=> Says(k, v)
      BY <1>9, <1>15, <2>4
    <3>3. QED  BY <2>3, <3>1, <3>2
  <2>5. CASE k = e.key /\ e.of = side.of
    <3>1. ~m /\ e.key # MacUnmapped
      BY <1>9, <2>1, <2>3, <2>5 DEF Mapped
    <3>2. CASE e.key \in MacButtons
      <4>1. PICK d \in BOOLEAN : d = e.down
        BY <1>3
      <4>2. Says(k, d)'
        BY <1>13, <1>15, <2>5, <3>1, <3>2, <4>1
      <4>3. d <=> k \in MyMac'.pressed
        BY <1>7, <2>2, <2>5, <3>1, <4>1
      <4>4. QED  BY <2>5, <3>2, <4>2, <4>3
    <3>3. CASE e.key \notin MacButtons
      <4>1. ~em
        BY <1>10, <2>3, <3>3 DEF Emits
      <4>2. Silent(k)
        BY <2>3, <2>5, <3>3
      <4>3. Silent(k)'
        BY <1>15, <4>1, <4>2
      <4>4. QED  BY <4>3
    <3>4. QED  BY <3>2, <3>3
  <2>6. QED  BY <2>4, <2>5
<1>25. ToldInv'
  <2>1. SUFFICES ASSUME side'.at \in Telling, ~side'.blocks, NEW k \in Mapped, k \notin side'.missed, Clear(k)'
                 PROVE  (\E v \in BOOLEAN : /\ v <=> k \in board0.down
                                            /\ Says(k, v) \/ (Silent(k) /\ (k \in side.told <=> v)))'
    BY DEF ToldInv
  <2>2. CASE k # e.key \/ m
    <3>1. Clear(k) /\ k \notin side.missed
      <4>1. side.at # "gone"
        BY <1>16, <2>1 DEF Telling
      <4>2. k # e.key \/ e.of # side.of
        BY <1>9, <2>2, <4>1
      <4>3. QED  BY <1>16, <1>20, <1>21, <2>1, <2>2, <4>2
    <3>2. (Silent(k)' <=> Silent(k)) /\ \A v : Says(k, v)' <=> Says(k, v)
      BY <1>15, <2>2
    <3>3. \E v \in BOOLEAN : /\ v <=> k \in board0.down
                             /\ Says(k, v) \/ (Silent(k) /\ (k \in side.told <=> v))
      BY <1>16, <2>1, <3>1 DEF MacInv, HeardInv, ToldInv
    <3>4. QED  BY <1>8, <1>16, <3>2, <3>3
  <2>3. CASE k = e.key /\ ~m
    <3>1. em
      BY <1>16, <2>1, <2>3 DEF Telling
    <3>2. PICK d \in BOOLEAN : d = e.down
      BY <1>3
    <3>3. Says(k, d)'
      BY <1>15, <2>3, <3>1, <3>2
    <3>4. d <=> k \in board0'.down
      BY <1>8, <1>20, <1>22, <2>1, <2>3, <3>2
    <3>5. QED  BY <3>3, <3>4
  <2>4. QED  BY <2>2, <2>3
<1>26. CursorInv => CursorInv'
  <2>1. macSpare' \in Spares /\ macSpare'.faults <= macSpare.faults
    BY <1>1, <1>4 DEF Spares
  <2>2. QED  BY <1>1, <1>4, <1>16, <2>1, CursorKept
<1>27. QED  BY <1>17, <1>18, <1>19, <1>23, <1>24, <1>25, <1>26 DEF MacInv, HeardInv

--------------------------------------------------------------------------------
(* The sender.                                                             *)

\* What is noted as pressed is looked at again.
LEMMA Relisted ==
    ASSUME mac \in [Macs -> MacRecords], side.of \in Macs, NEW p \in SUBSET Inputs,
           mac' = [mac EXCEPT ![side.of].pressed = p]
    PROVE  /\ mac' \in [Macs -> MacRecords] /\ mac'[side.of].pressed = p
           /\ \A i \in Macs : mac'[i].active = mac[i].active /\ mac'[i].injected = mac[i].injected
<1>1. mac[side.of] \in MacRecords
  OBVIOUS
<1>2. [mac[side.of] EXCEPT !.pressed = p] \in MacRecords
  BY <1>1 DEF MacRecords
<1>3. PICK m \in MacRecords : /\ m = [mac[side.of] EXCEPT !.pressed = p] /\ m.pressed = p
                              /\ m.active = mac[side.of].active /\ m.injected = mac[side.of].injected
  BY <1>1, <1>2 DEF MacRecords
<1>4. mac' = [mac EXCEPT ![side.of] = m]
  BY <1>3
<1>5. mac' \in [Macs -> MacRecords] /\ mac'[side.of] = m /\ \A j \in Macs : j # side.of => mac'[j] = mac[j]
  BY <1>3, <1>4, MacMoves
<1>6. QED  BY <1>3, <1>5

LEMMA RefreshStep ==
    ASSUME MacInv, MacRefresh
    PROVE  MacInv' /\ (CursorInv => CursorInv')
<1>1. /\ MacTypes /\ RightStage(side) /\ side \in LoopRecords /\ macSpare \in Spares /\ side.of \in Macs
      /\ mac \in [Macs -> MacRecords] /\ MyMac \in MacRecords
  BY TypeFacts DEF MacInv, MacTypes
<1>2. PICK p \in SUBSET Inputs : p = Recent(MyMac.pressed)
  BY <1>1 DEF Recent, MacRecords
<1>3. /\ side.role = "send" /\ side.blocks /\ side.at \in {"watching", "sending"}
      /\ mac' = [mac EXCEPT ![side.of].pressed = p]
      /\ side' = [side EXCEPT !.pressed = p]
      /\ UNCHANGED <<keepers, pointer0, board0, tapped, mail, secure, macSpare>>
  BY <1>2 DEF MacRefresh, LoopOnly, MyMac
<1>4. /\ mac' \in [Macs -> MacRecords]
      /\ \A i \in Macs : mac'[i].active = mac[i].active /\ mac'[i].injected = mac[i].injected
  BY <1>1, <1>3, Relisted
<1>5. /\ side' \in LoopRecords /\ side'.of = side.of /\ side'.role = side.role /\ side'.at = side.at
      /\ side'.blocks = side.blocks /\ side'.next = side.next
  BY <1>1, <1>3 DEF LoopRecords
<1>6. MacTypes'
  <2>1. RightStage(side')
    BY <1>1, <1>5 DEF RightStage
  <2>2. QED  BY <1>1, <1>3, <1>4, <1>5, <2>1 DEF MacTypes
<1>7. LocalInv' /\ InjectedInv' /\ ActiveInv'
  BY <1>1, <1>3, <1>4, <1>5, LocalKept, InjectedKept, ActiveKept DEF MacInv
<1>8. HeardInv'
  <2>1. RingsTrue'
    BY <1>3 DEF MacInv, HeardInv, NotedInv, RingsTrue, Striking
  <2>2. QED  BY <1>3, <1>5, <2>1 DEF HeardInv, NotedInv, CrossingInv, ToldInv
<1>9. CursorInv => CursorInv'
  BY <1>1, <1>3, <1>5, CursorKept DEF Spares
<1>10. QED  BY <1>6, <1>7, <1>8, <1>9 DEF MacInv

LEMMA SnapshotStep ==
    ASSUME MacInv, MacSnapshot
    PROVE  MacInv' /\ (CursorInv => CursorInv')
<1>1. /\ MacTypes /\ RightStage(side) /\ side \in LoopRecords /\ macSpare \in Spares /\ side.of \in Macs
      /\ mac \in [Macs -> MacRecords] /\ MyMac \in MacRecords /\ side.at = "crossing"
  BY TypeFacts DEF MacInv, MacTypes, MacSnapshot
<1>2. MyMac.pressed \in SUBSET Inputs
  BY <1>1 DEF MacRecords
<1>3. PICK p \in SUBSET Inputs : p = IF side.blocks THEN Recent(MyMac.pressed) ELSE MyMac.pressed
  BY <1>2 DEF Recent
<1>4. /\ mac' = [mac EXCEPT ![side.of].pressed = p]
      /\ side' = IF side.blocks /\ p # {}
                 THEN [side EXCEPT !.at = "watching", !.pressed = p]
                 ELSE [side EXCEPT !.at = "snapped", !.pressed = p, !.missed = {}, !.told = p]
      /\ UNCHANGED <<keepers, pointer0, board0, tapped, mail, secure, macSpare>>
  BY <1>3 DEF MacSnapshot, LoopOnly
<1>5. /\ mac' \in [Macs -> MacRecords] /\ mac'[side.of].pressed = p
      /\ \A i \in Macs : mac'[i].active = mac[i].active /\ mac'[i].injected = mac[i].injected
  BY <1>1, <1>4, Relisted
<1>6. /\ side' \in LoopRecords /\ side'.of = side.of /\ side'.role = side.role
      /\ side'.blocks = side.blocks /\ side'.next = side.next
      /\ side'.at \in {"watching", "snapped"}
      /\ ~side.blocks => side'.told = p /\ side'.missed = {}
  <2>1. CASE side.blocks /\ p # {}
    <3>1. side' = [side EXCEPT !.at = "watching", !.pressed = p]
      BY <1>4, <2>1
    <3>2. QED  BY <1>1, <2>1, <3>1 DEF LoopRecords, Stages
  <2>2. CASE ~(side.blocks /\ p # {})
    <3>1. side' = [side EXCEPT !.at = "snapped", !.pressed = p, !.missed = {}, !.told = p]
      BY <1>4, <2>2
    <3>2. QED  BY <1>1, <3>1 DEF LoopRecords, Stages, SenderAt
  <2>3. QED  BY <2>1, <2>2
<1>7. side.role = "send"
  BY <1>1 DEF RightStage, SenderAt, LoopRecords
<1>8. MacTypes'
  <2>1. RightStage(side')
    BY <1>6, <1>7 DEF RightStage
  <2>2. QED  BY <1>1, <1>4, <1>5, <1>6, <2>1 DEF MacTypes
<1>9. LocalInv' /\ ActiveInv'
  BY <1>1, <1>4, <1>5, <1>6, LocalKept, ActiveKept DEF MacInv, CaptureOn
<1>10. InjectedInv'
  BY <1>6, <1>7 DEF InjectedInv
<1>11. HeardInv'
  <2>1. RingsTrue'
    BY <1>4 DEF MacInv, HeardInv, NotedInv, RingsTrue, Striking
  <2>2. /\ MyMac'.pressed = p
        /\ ~side.blocks => p = MyMac.pressed
    BY <1>3, <1>5, <1>6 DEF MyMac
  <2>3. \A k : Clear(k)' <=> Clear(k)
    BY <1>4, <1>6 DEF Clear, Striking
  <2>4. NotedInv'
    BY <1>4, <1>6, <2>1, <2>2, <2>3 DEF MacInv, HeardInv, NotedInv
  <2>5. CrossingInv'
    BY <1>6 DEF CrossingInv
  <2>6. ToldInv'
    <3>1. SUFFICES ASSUME ~side.blocks, NEW k \in Mapped, Clear(k)
                   PROVE  (\E v \in BOOLEAN : /\ v <=> k \in board0.down
                                              /\ Says(k, v) \/ (Silent(k) /\ (k \in side.told <=> v)))'
      BY <1>6, <2>3 DEF ToldInv
    <3>2. k \in MyMac.pressed <=> k \in board0.down
      BY <3>1 DEF MacInv, HeardInv, NotedInv
    <3>3. Silent(k) \/ \E v \in BOOLEAN : (v <=> k \in MyMac.pressed) /\ Says(k, v)
      BY <1>1, <3>1 DEF MacInv, HeardInv, CrossingInv
    <3>4. (Silent(k)' <=> Silent(k)) /\ \A v : Says(k, v)' <=> Says(k, v)
      BY <1>4 DEF Silent, Says, Speaks
    <3>5. k \in side'.told <=> k \in MyMac.pressed
      BY <1>6, <2>2, <3>1
    <3>6. PICK d \in BOOLEAN : d <=> k \in board0.down
      OBVIOUS
    <3>7. QED  BY <1>4, <3>2, <3>3, <3>4, <3>5, <3>6
  <2>7. QED  BY <2>4, <2>5, <2>6 DEF HeardInv
<1>12. CursorInv => CursorInv'
  BY <1>1, <1>4, <1>6, CursorKept DEF Calm, Deep, Spares
<1>13. QED  BY <1>8, <1>9, <1>10, <1>11, <1>12 DEF MacInv

LEMMA ReadsStep ==
    ASSUME MacInv, MacReads
    PROVE  MacInv' /\ (CursorInv => CursorInv')
<1>1. /\ MacTypes /\ RightStage(side) /\ side \in LoopRecords /\ macSpare \in Spares /\ side.of \in Macs
      /\ mac \in [Macs -> MacRecords] /\ MyMac \in MacRecords /\ mail \in Seq(MailEvents)
  BY TypeFacts DEF MacInv, MacTypes
<1>2. PICK e : e = Head(mail)
  OBVIOUS
<1>3. /\ side.role = "send" /\ side.at \in {"watching", "sending"} /\ mail # <<>> /\ mail' = Tail(mail)
      /\ UNCHANGED <<mac, keepers, pointer0, board0, tapped, secure, macSpare>>
  BY DEF MacReads
<1>4. side' = IF e.is # "input"
              THEN IF side.at = "sending" THEN [side EXCEPT !.at = "swapping", !.next = "toClean", !.ends = FALSE]
                   ELSE [side EXCEPT !.at = "toClean"]
              ELSE IF side.at = "sending"
              THEN [[side EXCEPT !.pressed = Place0(@, e.key, e.down)] EXCEPT !.told = Place0(@, e.key, e.down)]
              ELSE IF e.key \in MacButtons THEN [side EXCEPT !.pressed = Place0(@, e.key, e.down)] ELSE side
  BY <1>2, <1>3 DEF MacReads, InCharge, Returning
<1>5. e \in MailEvents /\ mail' \in Seq(MailEvents)
  BY <1>1, <1>2, <1>3, MailRead
<1>6. e.is = "input" => e \in MailInputs /\ e.key \in Inputs /\ e.down \in BOOLEAN
  BY <1>5 DEF MailEvents, MailInputs
<1>7. /\ side' \in LoopRecords /\ side'.of = side.of /\ side'.role = side.role
      /\ side'.blocks = side.blocks /\ side'.missed = side.missed
      /\ \/ side'.at = side.at /\ e.is = "input" /\ side'.next = side.next
         \/ side'.at = "swapping" /\ side.at = "sending" /\ side'.next = "toClean"
         \/ side'.at = "toClean" /\ side.at = "watching"
      /\ side'.at = "sending" => /\ e.key \in side'.told <=> e.down
                                 /\ \A j : j # e.key => (j \in side'.told <=> j \in side.told)
  <2>1. CASE e.is # "input" /\ side.at = "sending"
    <3>1. side' = [side EXCEPT !.at = "swapping", !.next = "toClean", !.ends = FALSE]
      BY <1>4, <2>1
    <3>2. QED  BY <1>1, <2>1, <3>1 DEF LoopRecords, Stages, SenderAt
  <2>2. CASE e.is # "input" /\ side.at = "watching"
    <3>1. side' = [side EXCEPT !.at = "toClean"]
      BY <1>4, <2>2
    <3>2. QED  BY <1>1, <2>2, <3>1 DEF LoopRecords, Stages, SenderAt
  <2>3. ASSUME e.is = "input"
        PROVE  \E p \in SUBSET Inputs, t \in SUBSET Inputs :
                  /\ p = Place0(side.pressed, e.key, e.down) /\ t = Place0(side.told, e.key, e.down)
                  /\ e.key \in t <=> e.down
                  /\ \A j : j # e.key => (j \in t <=> j \in side.told)
    <3>1. side.pressed \in SUBSET Inputs /\ side.told \in SUBSET Inputs
      BY <1>1 DEF LoopRecords
    <3>2. Place0(side.pressed, e.key, e.down) \in SUBSET Inputs
      BY <1>6, <2>3, <3>1, PlaceFacts
    <3>3. /\ Place0(side.told, e.key, e.down) \in SUBSET Inputs
          /\ e.key \in Place0(side.told, e.key, e.down) <=> e.down
          /\ \A j : j # e.key => (j \in Place0(side.told, e.key, e.down) <=> j \in side.told)
      BY <1>6, <2>3, <3>1, PlaceFacts
    <3>4. QED  BY <3>2, <3>3
  <2>4. CASE e.is = "input" /\ side.at = "sending"
    <3>1. PICK p \in SUBSET Inputs, t \in SUBSET Inputs :
                  /\ p = Place0(side.pressed, e.key, e.down) /\ t = Place0(side.told, e.key, e.down)
                  /\ e.key \in t <=> e.down
                  /\ \A j : j # e.key => (j \in t <=> j \in side.told)
      BY <2>3, <2>4
    <3>2. PICK s \in LoopRecords : s = [side EXCEPT !.pressed = p] /\ s.told = side.told /\ s.of = side.of
             /\ s.role = side.role /\ s.blocks = side.blocks /\ s.missed = side.missed /\ s.at = side.at
             /\ s.next = side.next
      <4>1. [side EXCEPT !.pressed = p] \in LoopRecords
        BY <1>1 DEF LoopRecords
      <4>2. QED  BY <1>1, <4>1 DEF LoopRecords
    <3>3. side' = [s EXCEPT !.told = t]
      BY <1>4, <2>4, <3>1, <3>2
    <3>4. [s EXCEPT !.told = t] \in LoopRecords
      BY <3>1, <3>2 DEF LoopRecords
    <3>5. /\ side' \in LoopRecords /\ side'.told = t /\ side'.of = s.of /\ side'.role = s.role
          /\ side'.blocks = s.blocks /\ side'.missed = s.missed /\ side'.at = s.at /\ side'.next = s.next
      BY <3>2, <3>3, <3>4 DEF LoopRecords
    <3>6. QED  BY <2>4, <3>1, <3>2, <3>5
  <2>5. CASE e.is = "input" /\ side.at = "watching"
    <3>1. PICK p \in SUBSET Inputs : p = Place0(side.pressed, e.key, e.down)
      BY <2>3, <2>5
    <3>2. side' = [side EXCEPT !.pressed = p] \/ side' = side
      BY <1>4, <2>5, <3>1
    <3>3. QED  BY <1>1, <2>5, <3>2 DEF LoopRecords
  <2>6. QED  BY <1>3, <2>1, <2>2, <2>4, <2>5
<1>8. MacTypes'
  <2>1. RightStage(side')
    BY <1>1, <1>3, <1>7 DEF RightStage
  <2>2. QED  BY <1>1, <1>3, <1>5, <1>7, <2>1 DEF MacTypes
<1>9. LocalInv'
  BY <1>3, LocalKept DEF MacInv
<1>10. InjectedInv'
  BY <1>3, <1>7 DEF InjectedInv
<1>11. ActiveInv'
  BY <1>3, <1>7, ActiveKept DEF MacInv, CaptureOn
<1>12. NotedInv'
  BY <1>3, <1>7, NotedKept DEF MacInv, HeardInv
<1>13. CrossingInv'
  BY <1>3, <1>7 DEF CrossingInv
<1>14. ToldInv'
  <2>1. SUFFICES ASSUME side'.at \in Telling, ~side'.blocks, NEW k \in Mapped, k \notin side'.missed, Clear(k)'
                 PROVE  (\E v \in BOOLEAN : /\ v <=> k \in board0.down
                                            /\ Says(k, v) \/ (Silent(k) /\ (k \in side.told <=> v)))'
    BY DEF ToldInv
  <2>2. side'.at = "sending" /\ side.at = "sending" /\ e.is = "input"
    BY <1>3, <1>7, <2>1 DEF Telling
  <2>3. Clear(k)
    BY <1>3, <1>7, <2>1 DEF Clear, Striking
  <2>4. PICK v \in BOOLEAN : /\ v <=> k \in board0.down
                             /\ Says(k, v) \/ (Silent(k) /\ (k \in side.told <=> v))
    BY <1>7, <2>1, <2>2, <2>3 DEF MacInv, HeardInv, ToldInv, Telling
  <2>5. CASE Says(k, v)
    <3>1. Says(k, v)' \/ (Silent(k)' /\ e.key = k /\ e.down = v)
      BY <1>1, <1>2, <1>3, <2>5, MailRead
    <3>2. Silent(k)' /\ e.key = k /\ e.down = v => (k \in side'.told <=> v)
      BY <1>7, <2>2
    <3>3. QED  BY <1>3, <2>4, <3>1, <3>2
  <2>6. CASE Silent(k) /\ (k \in side.told <=> v)
    <3>1. Silent(k)' /\ e.key # k
      BY <1>1, <1>2, <1>3, <2>2, <2>6, MailRead
    <3>2. QED  BY <1>3, <1>7, <2>2, <2>4, <2>6, <3>1
  <2>7. QED  BY <2>4, <2>5, <2>6
<1>15. CursorInv => CursorInv'
  BY <1>1, <1>3, <1>7, CursorKept DEF Calm, Deep, Spares
<1>16. QED  BY <1>8, <1>9, <1>10, <1>11, <1>12, <1>13, <1>14, <1>15 DEF MacInv, HeardInv

--------------------------------------------------------------------------------
(* The receiver, and both.                                                 *)

\* What one platform holds down for the peer is replaced.
LEMMA Holds ==
    ASSUME NEW m \in [Macs -> MacRecords], side.of \in Macs, NEW p \in SUBSET Inputs,
           mac' = [m EXCEPT ![side.of].injected = p]
    PROVE  /\ mac' \in [Macs -> MacRecords] /\ mac'[side.of].injected = p
           /\ \A i \in Macs : mac'[i].active = m[i].active /\ mac'[i].pressed = m[i].pressed
<1>1. m[side.of] \in MacRecords
  OBVIOUS
<1>2. [m[side.of] EXCEPT !.injected = p] \in MacRecords
  BY <1>1 DEF MacRecords
<1>3. PICK r \in MacRecords : /\ r = [m[side.of] EXCEPT !.injected = p] /\ r.injected = p
                              /\ r.active = m[side.of].active /\ r.pressed = m[side.of].pressed
  BY <1>1, <1>2 DEF MacRecords
<1>4. mac' = [m EXCEPT ![side.of] = r]
  BY <1>3
<1>5. mac' \in [Macs -> MacRecords] /\ mac'[side.of] = r /\ \A j \in Macs : j # side.of => mac'[j] = m[j]
  BY <1>4
<1>6. QED  BY <1>3, <1>5

\* A step of the loop away from the peer, or one that only posts or lets go of keys.
LEMMA QuietStep ==
    ASSUME MacInv, UNCHANGED <<keepers, pointer0, tapped>>, secure' \in BOOLEAN,
           side' \in LoopRecords, RightStage(side'), side'.of = side.of, side'.role = side.role,
           side'.blocks = side.blocks, side.at \in Calm, side'.at \in Calm,
           side'.at \notin Telling \cup {"crossing"},
           board0' \in Keyboards, board0'.down = board0.down, board0'.local = board0.local,
           board0'.unheard = board0.unheard, board0'.blurred = board0.blurred,
           mac' \in [Macs -> MacRecords], mail' \in Seq(MailEvents),
           \A i \in Macs : mac'[i].active = mac[i].active /\ mac'[i].pressed = mac[i].pressed,
           macSpare' \in Spares, macSpare'.faults <= macSpare.faults, InjectedInv'
    PROVE  MacInv' /\ (CursorInv => CursorInv')
<1>1. MacTypes /\ side.of \in Macs
  BY TypeFacts DEF MacInv
<1>2. MacTypes'
  BY <1>1 DEF MacTypes
<1>3. LocalInv'
  BY LocalKept DEF MacInv
<1>4. ActiveInv'
  BY ActiveKept DEF MacInv, CaptureOn, Calm
<1>5. NotedInv'
  BY <1>1, NotedKept DEF MacInv, HeardInv
<1>6. HeardInv'
  BY <1>5, HeardAway
<1>7. CursorInv => CursorInv'
  BY <1>1, CursorKept DEF Calm, Deep
<1>8. QED  BY <1>2, <1>3, <1>4, <1>6, <1>7 DEF MacInv

\* release_all lets go of what it can, and of nothing else.
LEMMA ReleaseFacts ==
    ASSUME MacInv, NEW m \in [Macs -> MacRecords], ReleaseAll(m),
           m[side.of].injected = MyMac.injected
    PROVE  /\ mac' \in [Macs -> MacRecords] /\ mac'[side.of].injected = {}
           /\ \A i \in Macs : mac'[i].active = m[i].active /\ mac'[i].pressed = m[i].pressed
           /\ board0' \in Keyboards /\ board0'.down = board0.down /\ board0'.local = board0.local
           /\ board0'.unheard = board0.unheard /\ board0'.blurred = board0.blurred
           /\ side.role = "receive" => board0'.held \subseteq board0'.lost
           /\ macSpare' \in Spares /\ macSpare'.faults <= macSpare.faults
<1>1. /\ side.of \in Macs /\ board0 \in Keyboards /\ macSpare \in Spares /\ MyMac.injected \in SUBSET Inputs
  BY TypeFacts DEF MacInv, MacRecords
<1>2. PICK left \in SUBSET Inputs :
         /\ mac' = [m EXCEPT ![side.of].injected = {}]
         /\ board0' = [board0 EXCEPT !.held = (@ \ MyMac.injected) \cup left, !.lost = @ \cup left]
         /\ UNCHANGED macSpare \/ MacSpends("faults")
  <2>1. PICK left \in SUBSET MyMac.injected : Released(m, left) /\ (UNCHANGED macSpare \/ MacSpends("faults"))
    BY DEF ReleaseAll
  <2>2. QED  BY <1>1, <2>1 DEF Released
<1>3. /\ mac' \in [Macs -> MacRecords] /\ mac'[side.of].injected = {}
      /\ \A i \in Macs : mac'[i].active = m[i].active /\ mac'[i].pressed = m[i].pressed
  <2>1. PICK p \in SUBSET Inputs : p = {}
    OBVIOUS
  <2>2. mac' = [m EXCEPT ![side.of].injected = p]
    BY <1>2, <2>1
  <2>3. /\ mac' \in [Macs -> MacRecords] /\ mac'[side.of].injected = p
        /\ \A i \in Macs : mac'[i].active = m[i].active /\ mac'[i].pressed = m[i].pressed
    BY <1>1, <2>2, Holds
  <2>4. QED  BY <2>1, <2>3
<1>4. board0.held \in SUBSET Inputs /\ board0.lost \in SUBSET Inputs
  BY <1>1 DEF Keyboards
<1>5. PICK h \in SUBSET Inputs, l \in SUBSET Inputs :
         h = (board0.held \ MyMac.injected) \cup left /\ l = board0.lost \cup left
  BY <1>4
<1>6. board0' = [board0 EXCEPT !.held = h, !.lost = l]
  BY <1>2, <1>5
<1>7. /\ board0' \in Keyboards /\ board0'.down = board0.down /\ board0'.local = board0.local
      /\ board0'.unheard = board0.unheard /\ board0'.blurred = board0.blurred
      /\ board0'.held = h /\ board0'.lost = l
  BY <1>1, <1>6 DEF Keyboards
<1>8. side.role = "receive" => board0'.held \subseteq board0'.lost
  BY <1>5, <1>7 DEF MacInv, InjectedInv
<1>9. macSpare' \in Spares /\ macSpare'.faults <= macSpare.faults
  BY <1>1, <1>2, SpendsSpare DEF Spares
<1>10. QED  BY <1>3, <1>7, <1>8, <1>9

\* All is let go of, and the loop stays or goes where it may.
LEMMA AllReleased ==
    ASSUME side.role = side'.role, mac'[side'.of].injected = {},
           side.role = "receive" => board0'.held \subseteq board0'.lost
    PROVE  InjectedInv'
BY DEF InjectedInv, MyMac

LEMMA AcceptStep ==
    ASSUME MacInv, MacAccept
    PROVE  MacInv' /\ (CursorInv => CursorInv')
<1>1. /\ MacTypes /\ RightStage(side) /\ side \in LoopRecords /\ macSpare \in Spares /\ side.of \in Macs
      /\ mac \in [Macs -> MacRecords] /\ MyMac.injected \in SUBSET Inputs /\ board0 \in Keyboards
      /\ mail \in Seq(MailEvents) /\ secure \in BOOLEAN
  BY TypeFacts DEF MacInv, MacTypes, MacRecords
<1>2. /\ side.role = "receive" /\ side.at \in {"watching", "posting"} /\ macSpare.turns > 0
      /\ UNCHANGED <<keepers, pointer0, tapped, secure, mail>>
  BY DEF MacAccept, ReceiverOnly
<1>3. PICK left \in SUBSET Inputs, done \in SUBSET Inputs, misses \in {0, 1}, stage \in {"toClean", "posting"} :
         /\ macSpare.faults >= misses
         /\ macSpare' = [macSpare EXCEPT !.turns = @ - 1, !.faults = @ - misses]
         /\ mac' = [mac EXCEPT ![side.of].injected = done]
         /\ board0' = [board0 EXCEPT !.held = (@ \ MyMac.injected) \cup left \cup done, !.lost = @ \cup left]
         /\ SideAt(stage)
  <2>1. PICK snapshot \in SUBSET Inputs, left \in SUBSET MyMac.injected, fails \in BOOLEAN :
          LET ends == fails \/ MacUnmapped \in snapshot
              misses == IF fails \/ left # {} THEN 1 ELSE 0
          IN \E done \in IF ends THEN SUBSET (snapshot \cap Mapped) ELSE {snapshot} :
                /\ macSpare.faults >= misses
                /\ macSpare' = [macSpare EXCEPT !.turns = @ - 1, !.faults = @ - misses]
                /\ mac' = [mac EXCEPT ![side.of].injected = done]
                /\ board0' = [board0 EXCEPT !.held = (@ \ MyMac.injected) \cup left \cup done,
                                            !.lost = @ \cup left]
                /\ SideAt(IF ends THEN "toClean" ELSE "posting")
    BY DEF MacAccept
  <2>2. PICK ends \in BOOLEAN : ends = (fails \/ MacUnmapped \in snapshot)
    OBVIOUS
  <2>3. PICK done \in SUBSET Inputs :
                /\ macSpare.faults >= IF fails \/ left # {} THEN 1 ELSE 0
                /\ macSpare' = [macSpare EXCEPT !.turns = @ - 1, !.faults = @ - IF fails \/ left # {} THEN 1 ELSE 0]
                /\ mac' = [mac EXCEPT ![side.of].injected = done]
                /\ board0' = [board0 EXCEPT !.held = (@ \ MyMac.injected) \cup left \cup done,
                                            !.lost = @ \cup left]
                /\ SideAt(IF ends THEN "toClean" ELSE "posting")
    BY <2>1, <2>2
  <2>4. QED  BY <1>1, <2>3
<1>4. /\ side' \in LoopRecords /\ side'.at = stage /\ side'.of = side.of /\ side'.role = side.role
      /\ side'.blocks = side.blocks
  BY <1>1, <1>3, SideMoves DEF Stages
<1>5. RightStage(side')
  BY <1>2, <1>4 DEF RightStage, SenderAt
<1>6. /\ mac' \in [Macs -> MacRecords] /\ mac'[side.of].injected = done
      /\ \A i \in Macs : mac'[i].active = mac[i].active /\ mac'[i].pressed = mac[i].pressed
  BY <1>1, <1>3, Holds
<1>7. macSpare' \in Spares /\ macSpare'.faults <= macSpare.faults
  <2>1. macSpare.turns \in Nat /\ macSpare.faults \in Nat
    BY <1>1 DEF Spares
  <2>2. PICK a \in Nat, b \in Nat : a = macSpare.turns - 1 /\ b = macSpare.faults - misses /\ b <= macSpare.faults
    BY <1>2, <1>3, <2>1
  <2>3. macSpare' = [macSpare EXCEPT !.turns = a, !.faults = b]
    BY <1>3, <2>2
  <2>4. QED  BY <1>1, <2>2, <2>3 DEF Spares
<1>8. board0.held \in SUBSET Inputs /\ board0.lost \in SUBSET Inputs
  BY <1>1 DEF Keyboards
<1>9. PICK h \in SUBSET Inputs, l \in SUBSET Inputs :
         h = (board0.held \ MyMac.injected) \cup left \cup done /\ l = board0.lost \cup left
  BY <1>3, <1>8
<1>10. board0' = [board0 EXCEPT !.held = h, !.lost = l]
  BY <1>3, <1>9
<1>11. /\ board0' \in Keyboards /\ board0'.down = board0.down /\ board0'.local = board0.local
       /\ board0'.unheard = board0.unheard /\ board0'.blurred = board0.blurred
       /\ board0'.held = h /\ board0'.lost = l
  BY <1>1, <1>10 DEF Keyboards
<1>12. InjectedInv'
  <2>1. board0.held \subseteq board0.lost \cup MyMac.injected
    BY <1>2 DEF MacInv, InjectedInv
  <2>2. h \subseteq l \cup done
    BY <1>9, <2>1
  <2>3. MyMac'.injected = done
    BY <1>4, <1>6 DEF MyMac
  <2>4. QED  BY <1>4, <1>11, <2>2, <2>3 DEF InjectedInv, LetGo
<1>13. QED  BY <1>1, <1>2, <1>4, <1>5, <1>6, <1>7, <1>11, <1>12, QuietStep DEF Calm, Telling

LEMMA InjectStep ==
    ASSUME MacInv, NEW k \in Mapped, NEW down \in BOOLEAN, MacInject(k, down)
    PROVE  MacInv' /\ (CursorInv => CursorInv')
<1>1. /\ MacTypes /\ RightStage(side) /\ side \in LoopRecords /\ macSpare \in Spares /\ side.of \in Macs
      /\ mac \in [Macs -> MacRecords] /\ MyMac.injected \in SUBSET Inputs /\ board0 \in Keyboards
      /\ mail \in Seq(MailEvents) /\ secure \in BOOLEAN /\ k \in Inputs
  BY TypeFacts DEF MacInv, MacTypes, MacRecords, Mapped
<1>2. /\ side.role = "receive" /\ side.at = "posting"
      /\ mac' = [mac EXCEPT ![side.of].injected = Place0(@, k, down)]
      /\ board0' = [board0 EXCEPT !.held = Place0(@, k, down)]
      /\ UNCHANGED <<keepers, pointer0, tapped, secure, mail, side, macSpare>>
  BY DEF MacInject, Posting, ReceiverOnly
<1>3. board0.held \in SUBSET Inputs
  BY <1>1 DEF Keyboards
<1>4. PICK p \in SUBSET Inputs, h \in SUBSET Inputs :
        /\ p = Place0(MyMac.injected, k, down) /\ h = Place0(board0.held, k, down)
  BY <1>1, <1>3, PlaceFacts
<1>5. mac' = [mac EXCEPT ![side.of].injected = p] /\ board0' = [board0 EXCEPT !.held = h]
  BY <1>2, <1>4 DEF MyMac
<1>6. /\ mac' \in [Macs -> MacRecords] /\ mac'[side.of].injected = p
      /\ \A i \in Macs : mac'[i].active = mac[i].active /\ mac'[i].pressed = mac[i].pressed
  BY <1>1, <1>5, Holds
<1>7. /\ board0' \in Keyboards /\ board0'.down = board0.down /\ board0'.local = board0.local
      /\ board0'.unheard = board0.unheard /\ board0'.blurred = board0.blurred
      /\ board0'.held = h /\ board0'.lost = board0.lost
  BY <1>1, <1>5 DEF Keyboards
<1>8. InjectedInv'
  <2>1. board0.held \subseteq board0.lost \cup MyMac.injected
    BY <1>2 DEF MacInv, InjectedInv
  <2>2. h \subseteq board0.lost \cup p
    BY <1>4, <2>1 DEF Place0
  <2>3. MyMac'.injected = p
    BY <1>2, <1>6 DEF MyMac
  <2>4. QED  BY <1>2, <1>7, <2>2, <2>3 DEF InjectedInv, LetGo
<1>9. macSpare' \in Spares /\ macSpare'.faults <= macSpare.faults
  BY <1>1, <1>2 DEF Spares
<1>10. QED  BY <1>1, <1>2, <1>6, <1>7, <1>8, <1>9, QuietStep DEF Calm, Telling

LEMMA LetsGoStep ==
    ASSUME MacInv, MacLetsGo \/ MacClean
    PROVE  MacInv' /\ (CursorInv => CursorInv')
<1>1. /\ MacTypes /\ RightStage(side) /\ side \in LoopRecords /\ side.of \in Macs
      /\ mac \in [Macs -> MacRecords] /\ mail \in Seq(MailEvents) /\ secure \in BOOLEAN
  BY TypeFacts DEF MacInv, MacTypes
<1>2. PICK stage \in {"watching", "stopping"} :
        /\ side.at \in {"posting", "toClean"} /\ SideAt(stage) /\ ReleaseAll(mac)
        /\ UNCHANGED <<keepers, pointer0, tapped, secure, mail>>
  BY DEF MacLetsGo, MacClean, Posting, ReceiverOnly
<1>3. /\ side' \in LoopRecords /\ side'.at = stage /\ side'.of = side.of /\ side'.role = side.role
      /\ side'.blocks = side.blocks
  BY <1>1, <1>2, SideMoves DEF Stages
<1>4. RightStage(side')
  BY <1>1, <1>3 DEF RightStage, SenderAt
<1>5. /\ mac' \in [Macs -> MacRecords] /\ mac'[side.of].injected = {}
      /\ \A i \in Macs : mac'[i].active = mac[i].active /\ mac'[i].pressed = mac[i].pressed
      /\ board0' \in Keyboards /\ board0'.down = board0.down /\ board0'.local = board0.local
      /\ board0'.unheard = board0.unheard /\ board0'.blurred = board0.blurred
      /\ side.role = "receive" => board0'.held \subseteq board0'.lost
      /\ macSpare' \in Spares /\ macSpare'.faults <= macSpare.faults
  BY <1>1, <1>2, ReleaseFacts DEF MyMac
<1>6. InjectedInv'
  BY <1>3, <1>5, AllReleased
<1>7. QED  BY <1>1, <1>2, <1>3, <1>4, <1>5, <1>6, QuietStep DEF Calm, Telling

LEMMA HearsStep ==
    ASSUME MacInv, MacHears
    PROVE  MacInv' /\ (CursorInv => CursorInv')
<1>1. /\ MacTypes /\ RightStage(side) /\ side \in LoopRecords /\ side.of \in Macs /\ macSpare \in Spares
      /\ mac \in [Macs -> MacRecords] /\ mail \in Seq(MailEvents) /\ secure \in BOOLEAN /\ board0 \in Keyboards
  BY TypeFacts DEF MacInv, MacTypes
<1>2. /\ side.role = "receive" /\ side.at \in {"watching", "posting"} /\ mail # <<>> /\ mail' = Tail(mail)
      /\ UNCHANGED <<keepers, pointer0, tapped, secure>>
  BY DEF MacHears, ReceiverOnly
<1>3. mail' \in Seq(MailEvents)
  BY <1>1, <1>2, MailRead
<1>4. CASE UNCHANGED <<mac, board0, macSpare>> /\ (side' = side \/ SideAt("toClean"))
  <2>1. /\ side' \in LoopRecords /\ side'.at \in {side.at, "toClean"} /\ side'.of = side.of
        /\ side'.role = side.role /\ side'.blocks = side.blocks
    BY <1>1, <1>4, SideMoves DEF Stages
  <2>2. RightStage(side')
    BY <1>1, <1>2, <2>1 DEF RightStage, SenderAt
  <2>3. InjectedInv'
    BY <1>1, <1>4, <2>1, InjectedKept DEF MacInv, LetGo
  <2>4. macSpare' \in Spares /\ macSpare'.faults <= macSpare.faults
    BY <1>1, <1>4 DEF Spares
  <2>5. QED  BY <1>1, <1>2, <1>3, <1>4, <2>1, <2>2, <2>3, <2>4, QuietStep DEF Calm, Telling
<1>5. CASE SideAt("toClean") /\ ReleaseAll(mac)
  <2>1. /\ side' \in LoopRecords /\ side'.at = "toClean" /\ side'.of = side.of
        /\ side'.role = side.role /\ side'.blocks = side.blocks
    BY <1>1, <1>5, SideMoves DEF Stages
  <2>2. RightStage(side')
    BY <1>1, <1>2, <2>1 DEF RightStage, SenderAt
  <2>3. /\ mac' \in [Macs -> MacRecords] /\ mac'[side.of].injected = {}
        /\ \A i \in Macs : mac'[i].active = mac[i].active /\ mac'[i].pressed = mac[i].pressed
        /\ board0' \in Keyboards /\ board0'.down = board0.down /\ board0'.local = board0.local
        /\ board0'.unheard = board0.unheard /\ board0'.blurred = board0.blurred
        /\ side.role = "receive" => board0'.held \subseteq board0'.lost
        /\ macSpare' \in Spares /\ macSpare'.faults <= macSpare.faults
    BY <1>1, <1>5, ReleaseFacts DEF MyMac
  <2>4. InjectedInv'
    BY <2>1, <2>3, AllReleased
  <2>5. QED  BY <1>1, <1>2, <1>3, <2>1, <2>2, <2>3, <2>4, QuietStep DEF Calm, Telling
<1>6. QED  BY <1>4, <1>5 DEF MacHears

LEMMA PollStep ==
    ASSUME MacInv, MacPoll
    PROVE  MacInv' /\ (CursorInv => CursorInv')
<1>1. /\ MacTypes /\ RightStage(side) /\ side \in LoopRecords /\ side.of \in Macs /\ macSpare \in Spares
      /\ mac \in [Macs -> MacRecords] /\ mail \in Seq(MailEvents) /\ secure \in BOOLEAN /\ board0 \in Keyboards
      /\ pointer0 \in Pointers /\ keepers \in [DOMAIN keepers -> Keepers] /\ mac[side.of] \in MacRecords
  BY TypeFacts DEF MacInv, MacTypes, MyMac
<1>2. PICK t \in {"off", "on", "paused"} :
         t = IF side.secure /\ mac[side.of].tap = "paused" THEN "on" ELSE mac[side.of].tap
  BY <1>1 DEF MacRecords
<1>3. PICK r : r = [mac EXCEPT ![side.of].tap = t]
  OBVIOUS
<1>4. /\ r \in [Macs -> MacRecords]
      /\ \A j \in Macs : /\ r[j].active = mac[j].active /\ r[j].injected = mac[j].injected
                         /\ r[j].pressed = mac[j].pressed
  <2>1. [mac[side.of] EXCEPT !.tap = t] \in MacRecords
    BY <1>1 DEF MacRecords
  <2>2. PICK m \in MacRecords : /\ m = [mac[side.of] EXCEPT !.tap = t] /\ m.active = mac[side.of].active
                                /\ m.injected = mac[side.of].injected /\ m.pressed = mac[side.of].pressed
    BY <1>1, <2>1 DEF MacRecords
  <2>3. r = [mac EXCEPT ![side.of] = m]
    BY <1>3, <2>2
  <2>4. r \in [Macs -> MacRecords] /\ r[side.of] = m /\ \A j \in Macs : j # side.of => r[j] = mac[j]
    BY <1>1, <2>2, <2>3
  <2>5. QED  BY <2>2, <2>4
<1>5. /\ side.at \in {"watching", "sending", "posting"}
      /\ IF secure /\ Posting THEN ReleaseAll(r) ELSE mac' = r /\ UNCHANGED <<board0, macSpare>>
      /\ side' = [(IF ~secure THEN side ELSE IF InCharge THEN Returning("watching", FALSE)
                   ELSE [side EXCEPT !.at = "watching"]) EXCEPT !.secure = secure]
      /\ UNCHANGED <<keepers, pointer0, tapped, secure, mail>>
  BY <1>2, <1>3 DEF MacPoll, ReceiverOnly
<1>6. /\ side' \in LoopRecords /\ side'.of = side.of /\ side'.role = side.role
      /\ side'.blocks = side.blocks /\ side'.told = side.told /\ side'.missed = side.missed
      /\ secure /\ Posting => side'.at = "watching"
      /\ ~(secure /\ Posting) =>
            \/ side'.at = side.at /\ side'.next = side.next
            \/ side.at = "sending" /\ side'.at = "swapping" /\ side'.next = "watching"
  <2>1. CASE ~secure
    <3>1. side' = [side EXCEPT !.secure = secure]
      BY <1>5, <2>1
    <3>2. QED  BY <1>1, <2>1, <3>1 DEF LoopRecords
  <2>2. CASE secure /\ InCharge
    <3>1. side' = [side EXCEPT !.at = "swapping", !.next = "watching", !.ends = FALSE, !.secure = secure]
      BY <1>5, <2>2 DEF Returning
    <3>2. QED  BY <1>1, <2>2, <3>1 DEF LoopRecords, InCharge, Posting, Stages, SenderAt
  <2>3. CASE secure /\ ~InCharge
    <3>1. side' = [side EXCEPT !.at = "watching", !.secure = secure]
      BY <1>5, <2>3
    <3>2. side.at = "watching" \/ Posting
      BY <1>1, <1>5, <2>3 DEF RightStage, SenderAt, InCharge, Posting, LoopRecords
    <3>3. /\ side' \in LoopRecords /\ side'.at = "watching" /\ side'.of = side.of
          /\ side'.role = side.role /\ side'.blocks = side.blocks /\ side'.told = side.told
          /\ side'.missed = side.missed /\ side'.next = side.next
      BY <1>1, <3>1 DEF LoopRecords, Stages
    <3>4. QED  BY <2>3, <3>2, <3>3
  <2>4. QED  BY <2>1, <2>2, <2>3
<1>7. CASE secure /\ Posting
  <2>1. /\ mac' \in [Macs -> MacRecords] /\ mac'[side.of].injected = {}
        /\ \A i \in Macs : mac'[i].active = r[i].active /\ mac'[i].pressed = r[i].pressed
        /\ board0' \in Keyboards /\ board0'.down = board0.down /\ board0'.local = board0.local
        /\ board0'.unheard = board0.unheard /\ board0'.blurred = board0.blurred
        /\ side.role = "receive" => board0'.held \subseteq board0'.lost
        /\ macSpare' \in Spares /\ macSpare'.faults <= macSpare.faults
    BY <1>1, <1>4, <1>5, <1>7, ReleaseFacts DEF MyMac
  <2>2. InjectedInv'
    BY <1>6, <2>1, AllReleased
  <2>3. RightStage(side')
    BY <1>6, <1>7 DEF RightStage, SenderAt
  <2>4. side.at = "posting"
    BY <1>7 DEF Posting
  <2>5. QED  BY <1>1, <1>4, <1>5, <1>6, <1>7, <2>1, <2>2, <2>3, <2>4, QuietStep DEF Calm, Telling
<1>8. CASE ~(secure /\ Posting)
  <2>1. mac' = r /\ UNCHANGED <<board0, macSpare>>
    BY <1>5, <1>8
  <2>2. RightStage(side')
    BY <1>1, <1>6, <1>8 DEF RightStage, SenderAt
  <2>3. ActiveInv'
    BY <1>4, <1>6, <1>8, <2>1, ActiveKept DEF MacInv, CaptureOn
  <2>4. macSpare' \in Spares /\ macSpare'.faults <= macSpare.faults
    BY <1>1, <2>1 DEF Spares
  <2>5. MacInv'
    BY <1>1, <1>4, <1>5, <1>6, <1>8, <2>1, <2>2, <2>3, <2>4, LoopGoes DEF LetGo, Telling
  <2>6. CursorInv => CursorInv'
    BY <1>1, <1>5, <1>6, <1>8, <2>4, CursorKept DEF Calm, Deep
  <2>7. QED  BY <2>5, <2>6
<1>9. QED  BY <1>7, <1>8

LEMMA MacStutters ==
    ASSUME MacInv, UNCHANGED macVars
    PROVE  MacInv' /\ (CursorInv => CursorInv')
<1>1. MacInv'
  BY DEF macVars, MacInv, MacTypes, LocalInv, InjectedInv, ActiveInv, HeardInv, NotedInv, RingsTrue, CrossingInv,
         ToldInv, Striking, Clear, Says, Silent, Speaks, MyMac
<1>2. CursorInv => CursorInv'
  BY DEF macVars, CursorInv, HiddenInv, DepthInv
<1>3. QED  BY <1>1, <1>2

LEMMA MacStep ==
    ASSUME MacInv, [MacNext]_macVars
    PROVE  MacInv' /\ (CursorInv => CursorInv')
<1>1. CASE SystemStep
  BY <1>1, ForcedStep, SecureStep, TapStoppedStep, StrikeStep DEF SystemStep
<1>2. CASE Callback
  BY <1>2, CallbackStep
<1>3. CASE SenderStep
  BY <1>3, SwapStep, HidingStep, KeepingStep, ShowingStep, RefreshStep, CrossStep, SnapshotStep,
     ComeBackStep, ReadsStep DEF SenderStep
<1>4. CASE ReceiverStep
  BY <1>4, AcceptStep, InjectStep, LetsGoStep, HearsStep DEF ReceiverStep
<1>5. CASE \E n \in DOMAIN keepers : KeeperLooks(n) \/ KeeperAsserts(n)
  BY <1>5, KeeperStep
<1>6. CASE MacPoll \/ MacEnds \/ MacClean \/ MacDrop \/ MacRestart
  BY <1>6, PollStep, EndsStep, LetsGoStep, DropStep, RestartStep
<1>7. CASE UNCHANGED macVars
  BY <1>7, MacStutters
<1>8. QED  BY <1>1, <1>2, <1>3, <1>4, <1>5, <1>6, <1>7 DEF MacNext

\* Few enough of the calls fail that eight attempts always show the cursor again.
FewMistakes == \A s \in MacStarts : s.spare.faults <= 7

LEMMA MacBegins ==
    ASSUME MacInit
    PROVE  MacInv /\ (FewMistakes => CursorInv)
<1>1. PICK s \in MacStarts :
    /\ mac = [i \in Macs |-> IF i = s.first THEN MacStarted ELSE NoMac]
    /\ keepers = [n \in 1..s.spare.turns |-> [of |-> 0, at |-> "none"]]
    /\ pointer0 = [hides |-> 0, forced |-> FALSE, coupled |-> TRUE, failed |-> FALSE]
    /\ board0 = [down |-> {}, local |-> {}, held |-> {}, unheard |-> {}, blurred |-> {}, lost |-> {}]
    /\ tapped = <<>> /\ mail = <<>> /\ secure = FALSE
    /\ side = NewSide(s.first, s.role, s.blocks)
    /\ macSpare = s.spare
  BY DEF MacInit
<1>2. s.first \in Macs /\ s.role \in {"send", "receive"} /\ s.blocks \in BOOLEAN /\ s.spare \in Spares
  BY MacAssumption DEF Macs, Spares
<1>3. /\ mac \in [Macs -> MacRecords]
      /\ \A i \in Macs : ~mac[i].active /\ mac[i].pressed = {} /\ mac[i].injected = {}
  <2>1. /\ MacStarted \in MacRecords /\ NoMac \in MacRecords
        /\ ~MacStarted.active /\ MacStarted.pressed = {} /\ MacStarted.injected = {}
        /\ ~NoMac.active /\ NoMac.pressed = {} /\ NoMac.injected = {}
    BY DEF MacStarted, NoMac, MacRecords
  <2>2. \A i \in Macs : mac[i] = MacStarted \/ mac[i] = NoMac
    BY <1>1
  <2>3. mac \in [Macs -> MacRecords]
    BY <1>1, <2>1
  <2>4. QED  BY <2>1, <2>2, <2>3
<1>4. /\ side \in LoopRecords /\ side.at = "watching" /\ side.of = s.first /\ side.next = "none"
      /\ side.role = s.role
  BY <1>1, <1>2 DEF NewSide, LoopRecords, Stages
<1>5. keepers \in [DOMAIN keepers -> Keepers]
  BY <1>1 DEF Keepers
<1>6. pointer0 \in Pointers /\ pointer0.hides = 0 /\ ~pointer0.forced /\ pointer0.coupled
  BY <1>1 DEF Pointers
<1>7. /\ board0 \in Keyboards /\ board0.down = {} /\ board0.local = {} /\ board0.held = {}
  BY <1>1 DEF Keyboards
<1>8. MacTypes
  <2>1. RightStage(side)
    BY <1>4 DEF RightStage, SenderAt
  <2>2. mail \in Seq(MailEvents)
    BY <1>1
  <2>3. QED  BY <1>1, <1>2, <1>3, <1>4, <1>5, <1>6, <1>7, <2>1, <2>2 DEF MacTypes
<1>9. \A k : ~Striking(k)
  BY <1>1 DEF Striking
<1>10. LocalInv
  BY <1>7 DEF LocalInv
<1>11. InjectedInv
  BY <1>2, <1>3, <1>4, <1>7 DEF InjectedInv, MyMac
<1>12. ActiveInv
  BY <1>3, <1>4 DEF ActiveInv, CaptureOn
<1>13. HeardInv
  <2>1. NotedInv
    BY <1>2, <1>3, <1>4, <1>7, <1>9 DEF NotedInv, RingsTrue, MyMac
  <2>2. CrossingInv /\ ToldInv
    BY <1>4 DEF CrossingInv, ToldInv, Telling
  <2>3. QED  BY <2>1, <2>2 DEF HeardInv
<1>14. ASSUME FewMistakes PROVE CursorInv
  <2>1. HiddenInv
    BY <1>4, <1>6 DEF HiddenInv, Visible, Calm
  <2>2. macSpare.faults \in Nat /\ macSpare.faults <= 7
    BY <1>1, <1>2, <1>14 DEF FewMistakes, Spares
  <2>3. DepthInv
    BY <1>4, <1>6, <2>2 DEF DepthInv, Deep
  <2>4. QED  BY <2>1, <2>3 DEF CursorInv
<1>15. QED  BY <1>8, <1>10, <1>11, <1>12, <1>13, <1>14 DEF MacInv

\* What the peer was told while it is in control follows from what the mail still says.
LEMMA HeardIsTold ==
    ASSUME MacInv
    PROVE  MacPeerIsTold /\ ModifiersAreLocal /\ InjectedAreReleased
<1>1. MacPeerIsTold
  <2>1. SUFFICES ASSUME NEW k \in Mapped \ (board0.unheard \cup side.missed \cup board0.blurred),
                        InCharge, ~side.blocks, mail = <<>>, tapped = <<>>
                 PROVE  k \in side.told <=> k \in board0.down
    BY DEF MacPeerIsTold, Told
  <2>2. Clear(k)
    BY <2>1 DEF Clear, Striking
  <2>3. \A v : ~Says(k, v)
    BY <2>1 DEF Says
  <2>4. QED  BY <2>1, <2>2, <2>3 DEF MacInv, HeardInv, ToldInv, Telling, InCharge
<1>2. ModifiersAreLocal
  <2>1. ASSUME tapped = <<>>, NEW k \in MacModifiers PROVE k \in board0.local <=> k \in board0.down
    BY <2>1 DEF MacInv, LocalInv, Striking
  <2>2. QED  BY <2>1 DEF ModifiersAreLocal
<1>3. InjectedAreReleased
  BY DEF MacInv, InjectedInv, InjectedAreReleased, LetGo
<1>4. QED  BY <1>1, <1>2, <1>3

LEMMA CursorComesBack ==
    ASSUME CursorInv
    PROVE  CursorIsBack
BY DEF CursorInv, HiddenInv, CursorIsBack, Calm, InCharge

\* For any sets of keys, modifiers and buttons, and any number of strokes, turns, mishaps and
\* calls that fail: what the peer was told is what the user holds, the system knows of the
\* modifiers that are held, and what was posted for the peer is let go of.
THEOREM KeysStayTrue == MacSpec => [](MacPeerIsTold /\ ModifiersAreLocal /\ InjectedAreReleased)
<1>1. MacInit => MacInv
  BY MacBegins
<1>2. MacInv /\ [MacNext]_macVars => MacInv'
  BY MacStep
<1>3. MacInv => MacPeerIsTold /\ ModifiersAreLocal /\ InjectedAreReleased
  BY HeardIsTold
<1>4. QED  BY <1>1, <1>2, <1>3, PTL DEF MacSpec

\* With at most seven calls of the system that fail, the cursor comes back too: a release shows
\* it up to eight times more (show_macos_cursor_until_visible); each call that fails can leave it
\* hidden once more, and so can a keeper that has not ended yet.
THEOREM MacStaysTrue ==
    ASSUME FewMistakes
    PROVE  MacSpec => []MacIsTrue
<1>1. MacInit => MacInv /\ CursorInv
  BY MacBegins
<1>2. MacInv /\ CursorInv /\ [MacNext]_macVars => (MacInv /\ CursorInv)'
  BY MacStep
<1>3. MacInv /\ CursorInv => MacIsTrue
  BY HeardIsTold, CursorComesBack DEF MacIsTrue
<1>4. QED  BY <1>1, <1>2, <1>3, PTL DEF MacSpec

--------------------------------------------------------------------------------
(* The pointer over two desks.                                             *)

PointerPositions ==
    {Start0} \cup UNION {UNION {{PositionOf(desk, e, hits) : hits \in SUBSET Places(desk, e)} :
                                e \in Edges} :
                         desk \in {Here, There}}
MotionsSent == [by : Points, n : Nat]
PointerMessages ==
    [kind : {"motion"}, gen : Nat, motion : MotionsSent]
    \cup [kind : {"button"}, gen : Nat, after : Nat]
    \cup [kind : {"return", "deactivate"}, gen : Nat]
    \cup [kind : {"activate"}, gen : Nat, position : PointerPositions]
Leaders ==
    [gen : Nat, active : BOOLEAN, cooling : BOOLEAN, armed : PointerPositions, over : BOOLEAN]
Readers == [gen : Nat, gathered : MotionsSent, holds : Seq(PointerMessages)]
Followers ==
    [gen : Nat, active : BOOLEAN, cursor : Points \cup {NoPoint}, game : BOOLEAN, secure : BOOLEAN,
     primary : There \cup {NoDisplay}, idle : BOOLEAN, over : BOOLEAN]
Trips ==
    [sent : MotionsSent, moved : MotionsSent, left : PointerPositions, straight : BOOLEAN,
     back : BOOLEAN, loose : SUBSET Nat, early : BOOLEAN]

\* What the two ends keep and what travels between them.
PointerTypes ==
    /\ here \in Points /\ there \in Points
    /\ sample \in [by : Points, at : Points \cup {NoPoint}]
    /\ leader \in Leaders /\ reader \in Readers /\ follower \in Followers /\ trip \in Trips
    /\ wire \in Seq(PointerMessages) /\ queue \in Seq(PointerMessages)

PointerInv == PointerTypes /\ PointersOnDesk

(* A clamped point is on the display.                                      *)
LEMMA ClampedIsWithin ==
    ASSUME NEW desk \in {Here, There}, NEW d \in desk, NEW p \in Points
    PROVE  Clamp(p, d) \in Points /\ Within(d, Clamp(p, d)) /\ OnDesk(desk, Clamp(p, d))
<1>1. d \in [Axes -> [from : Int, to : Int]] /\ \A a \in Axes : d[a].from < d[a].to
  BY PointerAssumption DEF Desks
<1>2. ASSUME NEW a \in Axes
      PROVE  Clamp(p, d)[a] \in Int /\ d[a].from <= Clamp(p, d)[a] /\ Clamp(p, d)[a] < d[a].to
  <2>1. p[a] \in Int /\ d[a].from \in Int /\ d[a].to \in Int /\ d[a].from < d[a].to
    BY <1>1 DEF Points
  <2>2. Clamp(p, d)[a] = IF p[a] < d[a].from THEN d[a].from
                         ELSE IF p[a] >= d[a].to THEN d[a].to - 1 ELSE p[a]
    BY DEF Clamp
  <2>3. QED  BY <2>1, <2>2
<1>3. Clamp(p, d) \in Points
  BY <1>2 DEF Points, Clamp
<1>4. QED  BY <1>2, <1>3 DEF Within, OnDesk

LEMMA ShiftedIsPoint ==
    ASSUME NEW p \in Points, NEW m \in Points
    PROVE  Shift(p, m) \in Points
BY DEF Points, Shift

(* A move within a desk ends on it.                                        *)
LEMMA MovedIsOnDesk ==
    ASSUME NEW desk \in {Here, There}, NEW p \in Points, NEW m \in Points,
           NEW q \in MoveWithin(desk, p, m)
    PROVE  q \in Points /\ OnDesk(desk, q)
<1>1. PICK d \in desk : q = Clamp(Shift(p, m), d)
  BY DEF MoveWithin
<1>2. QED  BY <1>1, ShiftedIsPoint, ClampedIsWithin

(* The place where a pointer enters is on the desk: the inset does not     *)
(* reach through the display the edge belongs to.                          *)
LEMMA EntryIsOnDesk ==
    ASSUME NEW desk \in {Here, There}, NEW e \in {Crossing, Opposite(Crossing)},
           NEW position, NEW q \in Entries(desk, e, position)
    PROVE  q \in Points /\ OnDesk(desk, q)
<1>0. Inset \in Nat /\ Crossing \in Edges
  BY PointerAssumption
<1>1. e \in Edges /\ e.axis = Crossing.axis
  BY <1>0 DEF Opposite, Edges
<1>2. PICK s \in Places(desk, e) : q = Inside(e, s)
  BY DEF Entries
<1>3. PICK d \in desk : \E i \in d[Along(e)].from .. d[Along(e)].to - 1 : s = [of |-> d, at |-> i]
  BY <1>2 DEF Places
<1>4. d \in [Axes -> [from : Int, to : Int]] /\ \A a \in Axes : d[a].from < d[a].to
  BY PointerAssumption DEF Desks
<1>5. d[e.axis].to - d[e.axis].from > Inset
  BY PointerAssumption, <1>1
<1>6. e.axis \in Axes /\ Along(e) \in Axes /\ \A a \in Axes : a # e.axis => a = Along(e)
  BY <1>1 DEF Edges, Along, Axes
<1>7. ASSUME NEW a \in Axes
      PROVE  q[a] \in Int /\ d[a].from <= q[a] /\ q[a] < d[a].to
  <2>0. d[a].from \in Int /\ d[a].to \in Int
    BY <1>4
  <2>1. CASE a # e.axis
    <3>1. q[a] = s.at
      BY <1>2, <2>1 DEF Inside
    <3>2. s.at \in d[a].from .. d[a].to - 1
      BY <1>3, <1>6, <2>1
    <3>3. QED  BY <3>1, <3>2, <2>0
  <2>2. CASE a = e.axis
    <3>1. q[a] = IF e.high THEN d[a].to - Inset - 1 ELSE d[a].from + Inset
      BY <1>2, <1>3, <2>2 DEF Inside, Line
    <3>2. QED  BY <3>1, <2>0, <2>2, <1>0, <1>5
  <2>3. QED  BY <2>1, <2>2
<1>8. q \in Points
  BY <1>7, <1>2 DEF Points, Inside
<1>9. QED  BY <1>7, <1>8 DEF Within, OnDesk

LEMMA PositionsAreTyped ==
    ASSUME NEW desk \in {Here, There}, NEW e \in Edges, NEW hits \in SUBSET Places(desk, e)
    PROVE  PositionOf(desk, e, hits) \in PointerPositions
<1> DEFINE Of(d, f) == {PositionOf(d, f, h) : h \in SUBSET Places(d, f)}
           On(d) == UNION {Of(d, f) : f \in Edges}
<1>1. PositionOf(desk, e, hits) \in Of(desk, e)
  OBVIOUS
<1>2. PositionOf(desk, e, hits) \in On(desk)
  <2> HIDE DEF Of
  <2>1. QED  BY <1>1
<1>3. PositionOf(desk, e, hits) \in UNION {On(d) : d \in {Here, There}}
  <2> HIDE DEF On
  <2>1. QED  BY <1>2
<1>4. QED  BY <1>3 DEF PointerPositions

(* What an activation names is a position.                                 *)
LEMMA ActivationIsTyped ==
    ASSUME NEW p, NEW m, NEW position \in Activation(p, m)
    PROVE  position \in PointerPositions
<1>0. Crossing \in Edges
  BY PointerAssumption
<1>1. CASE JumpZone(Here, Crossing, p)
  <2>1. position = EdgePosition(Here, Crossing, p)
    BY <1>1 DEF Activation
  <2>2. QED  BY <2>1, <1>0, PositionsAreTyped DEF EdgePosition
<1>2. CASE ~JumpZone(Here, Crossing, p)
  <2>1. position \in Leaves(Here, Crossing, p, m)
    BY <1>2 DEF Activation
  <2>2. PICK q : position = EdgePosition(Here, Crossing, q)
    BY <2>1 DEF Leaves
  <2>3. QED  BY <2>2, <1>0, PositionsAreTyped DEF EdgePosition
<1>3. QED  BY <1>1, <1>2

LEMMA MotionFacts ==
    /\ NoMotion \in MotionsSent /\ Stays \in Points
    /\ \A u, v \in MotionsSent : Plus(u, v) \in MotionsSent
<1>1. Stays \in Points
  BY DEF Stays, Points
<1>2. NoMotion \in MotionsSent
  BY <1>1 DEF NoMotion, MotionsSent
<1>3. ASSUME NEW u \in MotionsSent, NEW v \in MotionsSent
      PROVE  Plus(u, v) \in MotionsSent
  <2>1. Shift(u.by, v.by) \in Points
    BY ShiftedIsPoint DEF MotionsSent
  <2>2. u.n + v.n \in Nat
    BY DEF MotionsSent
  <2>3. QED  BY <2>1, <2>2 DEF Plus, MotionsSent
<1>4. QED  BY <1>1, <1>2, <1>3

(* What the loops do to a message they add, take or pass.                  *)
LEMMA MessagesAreTyped ==
    /\ \A gen \in Nat, motion \in MotionsSent :
           [kind |-> "motion", gen |-> gen, motion |-> motion] \in PointerMessages
    /\ \A gen \in Nat, after \in Nat :
           [kind |-> "button", gen |-> gen, after |-> after] \in PointerMessages
    /\ \A gen \in Nat : [kind |-> "return", gen |-> gen] \in PointerMessages
    /\ \A gen \in Nat : [kind |-> "deactivate", gen |-> gen] \in PointerMessages
    /\ \A gen \in Nat, position \in PointerPositions :
           [kind |-> "activate", gen |-> gen, position |-> position] \in PointerMessages
    /\ \A m \in PointerMessages : m.gen \in Nat /\ (m.kind = "motion" => m.motion \in MotionsSent)
BY DEF PointerMessages

--------------------------------------------------------------------------------

LEMMA PointerBegins ==
    PointerInit => PointerInv
<1> SUFFICES ASSUME PointerInit
             PROVE  PointerInv
  OBVIOUS
<1>1. PICK o \in Openings :
        /\ here = o.here /\ there = o.there /\ raw = o.raw /\ happened = o.happened
        /\ sample = [by |-> Stays, at |-> NoPoint] /\ presses = 0
        /\ leader = [gen |-> 0, active |-> FALSE, cooling |-> FALSE, armed |-> Start0, over |-> FALSE]
        /\ wire = <<>> /\ back = <<>> /\ queue = <<>>
        /\ reader = [gen |-> 0, gathered |-> NoMotion, holds |-> <<>>]
        /\ follower = [gen |-> 0, active |-> FALSE, cursor |-> NoPoint, game |-> o.game,
                       secure |-> FALSE, primary |-> o.primary, idle |-> FALSE, over |-> FALSE]
        /\ trip = [sent |-> NoMotion, moved |-> NoMotion, left |-> Start0, straight |-> FALSE,
                   back |-> FALSE, loose |-> {}, early |-> FALSE]
  BY DEF PointerInit
<1>2. /\ o.here \in Points /\ OnDesk(Here, o.here) /\ o.there \in Points /\ OnDesk(There, o.there)
      /\ o.game \in BOOLEAN /\ o.primary \in There \cup {NoDisplay}
  BY PointerAssumption
<1>3. Start0 \in PointerPositions
  BY DEF PointerPositions
<1>4. <<>> \in Seq(PointerMessages)
  OBVIOUS
<1>5. here \in Points /\ there \in Points /\ PointersOnDesk
  BY <1>1, <1>2 DEF PointersOnDesk
<1>6. /\ sample \in [by : Points, at : Points \cup {NoPoint}] /\ reader \in Readers
      /\ wire \in Seq(PointerMessages) /\ queue \in Seq(PointerMessages)
  BY <1>1, <1>4, MotionFacts DEF Readers
<1>7. leader \in Leaders
  BY <1>1, <1>3 DEF Leaders
<1>8. follower \in Followers
  BY <1>1, <1>2 DEF Followers
<1>9. trip \in Trips
  BY <1>1, <1>3, MotionFacts DEF Trips
<1>10. QED  BY <1>5, <1>6, <1>7, <1>8, <1>9 DEF PointerInv, PointerTypes

(* The user.                                                               *)
LEMMA PointerPushed ==
    ASSUME PointerInv, \/ \E m \in Shoves : Push(m)
                       \/ Click
    PROVE  PointerInv'
<1> USE DEF PointerInv, PointerTypes
<1>1. CASE Click
  BY <1>1 DEF Click, PointersOnDesk
<1>2. ASSUME NEW m \in Shoves, Push(m)
      PROVE  PointerInv'
  <2>0. m \in Points
    BY PointerAssumption
  <2>1. /\ UNCHANGED <<there, leader, wire, reader, queue, follower>>
        /\ trip' = IF leader.active THEN trip ELSE [trip EXCEPT !.back = FALSE]
    BY <1>2 DEF Push
  <2>2. Shift(sample.by, m) \in Points /\ Shift(here, m) \in Points
    BY <2>0, ShiftedIsPoint
  <2>3. here' \in Points /\ OnDesk(Here, here')
    <3>1. CASE leader.active
      BY <1>2, <3>1 DEF Push, PointersOnDesk
    <3>2. CASE ~leader.active
      <4>1. here' \in MoveWithin(Here, here, m)
        BY <1>2, <3>2 DEF Push
      <4>2. QED  BY <4>1, <2>0, MovedIsOnDesk
    <3>3. QED  BY <3>1, <3>2
  <2>4. sample' \in [by : Points, at : Points \cup {NoPoint}]
    <3>1. CASE leader.active
      BY <1>2, <3>1, <2>2 DEF Push
    <3>2. CASE ~leader.active
      BY <1>2, <3>2, <2>2, <2>3 DEF Push
    <3>3. QED  BY <3>1, <3>2
  <2>5. trip' \in Trips
    BY <2>1 DEF Trips
  <2>6. QED  BY <2>1, <2>3, <2>4, <2>5 DEF PointersOnDesk
<1>3. QED  BY <1>1, <1>2

(* Messages are added at the end and taken from the front.                 *)
LEMMA PointerQueues ==
    /\ <<>> \in Seq(PointerMessages)
    /\ \A s \in Seq(PointerMessages), m \in PointerMessages :
           Append(s, m) \in Seq(PointerMessages) /\ <<m>> \in Seq(PointerMessages)
    /\ \A s, t \in Seq(PointerMessages) : s \o t \in Seq(PointerMessages)
    /\ \A s \in Seq(PointerMessages) :
           s # <<>> => Head(s) \in PointerMessages /\ Tail(s) \in Seq(PointerMessages)
<1>1. \A s \in Seq(PointerMessages), m \in PointerMessages :
          Append(s, m) \in Seq(PointerMessages) /\ <<m>> \in Seq(PointerMessages)
  OBVIOUS
<1>2. \A s, t \in Seq(PointerMessages) : s \o t \in Seq(PointerMessages)
  OBVIOUS
<1>3. \A s \in Seq(PointerMessages) :
          s # <<>> => Head(s) \in PointerMessages /\ Tail(s) \in Seq(PointerMessages)
  BY HeadTailProperties
<1>4. QED  BY <1>1, <1>2, <1>3

(* The loop of the sender takes motion, or the pointer reaches the edge.   *)
LEMMA SampleTaken ==
    ASSUME PointerInv, TakeSample
    PROVE  PointerInv'
<1> USE DEF PointerInv, PointerTypes
<1>1. /\ UNCHANGED <<here, there, reader, queue, follower>>
      /\ sample' = [by |-> Stays, at |-> NoPoint]
  BY DEF TakeSample, LeaderTurn
<1>2. sample' \in [by : Points, at : Points \cup {NoPoint}]
  BY <1>1, MotionFacts
<1>3. leader' \in Leaders /\ wire' \in Seq(PointerMessages) /\ trip' \in Trips
  <2>1. CASE leader.active
    <3>1. /\ wire' = Append(wire, [kind |-> "motion", gen |-> leader.gen,
                                   motion |-> [by |-> sample.by, n |-> 1]])
          /\ trip' = [trip EXCEPT !.sent = Plus(@, [by |-> sample.by, n |-> 1])]
          /\ UNCHANGED leader
      BY <2>1 DEF TakeSample
    <3>2. [by |-> sample.by, n |-> 1] \in MotionsSent /\ leader.gen \in Nat
      BY DEF MotionsSent, Leaders
    <3>3. [kind |-> "motion", gen |-> leader.gen, motion |-> [by |-> sample.by, n |-> 1]]
              \in PointerMessages
      BY <3>2, MessagesAreTyped
    <3>4. Plus(trip.sent, [by |-> sample.by, n |-> 1]) \in MotionsSent
      BY <3>2, MotionFacts DEF Trips
    <3>5. wire' \in Seq(PointerMessages)
      BY <3>1, <3>3, PointerQueues
    <3>6. trip' \in Trips
      BY <3>1, <3>4 DEF Trips
    <3>7. QED  BY <3>1, <3>5, <3>6
  <2>2. CASE ~leader.active /\ UNCHANGED <<leader, wire, trip>>
    BY <2>2
  <2>3. CASE ~leader.active /\ ~UNCHANGED <<leader, wire, trip>>
    <3> DEFINE point == IF sample.at # NoPoint THEN sample.at ELSE here
               reached == IF leader.cooling THEN {} ELSE Activation(point, sample.by)
    <3>1. PICK position \in reached : Activate(position)
      BY <2>3 DEF TakeSample
    <3>2. position \in PointerPositions
      BY ActivationIsTyped
    <3>3. leader.gen \in Nat /\ leader.gen + 1 \in Nat
      BY DEF Leaders
    <3> HIDE DEF reached
    <3>4. leader' \in Leaders
      BY <3>1, <3>2, <3>3 DEF Activate, Leaders
    <3>5. [kind |-> "activate", gen |-> leader.gen + 1, position |-> position] \in PointerMessages
      BY <3>2, <3>3, MessagesAreTyped
    <3>6. wire' \in Seq(PointerMessages)
      BY <3>1, <3>5, PointerQueues DEF Activate
    <3>7. trip' \in Trips
      BY <3>1, <3>2, MotionFacts DEF Activate, Trips
    <3>8. QED  BY <3>4, <3>6, <3>7
  <2>4. QED  BY <2>1, <2>2, <2>3
<1>4. QED  BY <1>1, <1>2, <1>3 DEF PointersOnDesk

(* The rest of what the loop of the sender does.                           *)
LEMMA LeaderKeeps ==
    ASSUME PointerInv, PassClick \/ LeaderHears \/ Cooled \/ LeaderEnds
    PROVE  PointerInv'
<1> USE DEF PointerInv, PointerTypes
<1>0. leader.gen \in Nat /\ Home \in Leaders /\ [Home EXCEPT !.over = TRUE] \in Leaders
  BY DEF Home, Leaders
<1>1. CASE PassClick
  <2>1. UNCHANGED <<here, there, sample, leader, reader, queue, follower, trip>>
    BY <1>1 DEF PassClick, LeaderTurn
  <2>2. trip.sent.n \in Nat
    BY DEF Trips, MotionsSent
  <2>3. [kind |-> "button", gen |-> leader.gen, after |-> trip.sent.n] \in PointerMessages
    BY <1>0, <2>2, MessagesAreTyped
  <2>4. wire' \in Seq(PointerMessages)
    BY <1>1, <2>3, PointerQueues DEF PassClick
  <2>5. QED  BY <2>1, <2>4 DEF PointersOnDesk
<1>2. CASE LeaderHears
  <2>1. UNCHANGED <<there, sample, reader, queue, follower>>
    BY <1>2 DEF LeaderHears, LeaderTurn
  <2> DEFINE m == Head(back)
  <2>2. CASE leader.active /\ m.gen = leader.gen
    <3>1. /\ wire' = IF m.kind = "ask" THEN Append(wire, [kind |-> "return", gen |-> m.gen]) ELSE wire
          /\ here' \in Entries(Here, Crossing, m.position)
          /\ leader' = Home
          /\ trip' = [trip EXCEPT !.back = (m.kind = "ask" /\ m.straight)]
      BY <1>2, <2>2 DEF LeaderHears
    <3>2. here' \in Points /\ OnDesk(Here, here')
      BY <3>1, EntryIsOnDesk
    <3>3. [kind |-> "return", gen |-> m.gen] \in PointerMessages
      BY <1>0, <2>2, MessagesAreTyped
    <3>4. wire' \in Seq(PointerMessages)
      <4> HIDE DEF m
      <4>1. QED  BY <3>1, <3>3, PointerQueues
    <3>5. trip' \in Trips
      <4> DEFINE straight == m.kind = "ask" /\ m.straight
      <4>1. trip' = [trip EXCEPT !.back = straight]
        BY <3>1
      <4>2. straight \in BOOLEAN
        OBVIOUS
      <4> HIDE DEF straight
      <4>3. QED  BY <4>1, <4>2 DEF Trips
    <3>6. QED  BY <1>0, <2>1, <3>1, <3>2, <3>4, <3>5 DEF PointersOnDesk
  <2>3. CASE ~(leader.active /\ m.gen = leader.gen)
    <3>1. UNCHANGED <<here, wire, leader, trip>>
      BY <1>2, <2>3 DEF LeaderHears
    <3>2. QED  BY <2>1, <3>1 DEF PointersOnDesk
  <2>4. QED  BY <2>2, <2>3
<1>3. CASE Cooled
  <2>1. UNCHANGED <<here, there, sample, wire, reader, queue, follower, trip>>
    BY <1>3 DEF Cooled, LeaderTurn
  <2>2. leader' \in Leaders
    BY <1>3 DEF Cooled, Leaders
  <2>3. QED  BY <2>1, <2>2 DEF PointersOnDesk
<1>4. CASE LeaderEnds
  <2>1. /\ UNCHANGED <<there, sample, reader, queue, follower, trip>>
        /\ leader' = [Home EXCEPT !.over = TRUE]
    BY <1>4 DEF LeaderEnds, LeaderTurn
  <2>2. here' \in Points /\ OnDesk(Here, here')
    <3>1. CASE leader.active
      <4>1. here' \in Entries(Here, Crossing, leader.armed)
        BY <1>4, <3>1 DEF LeaderEnds
      <4>2. QED  BY <4>1, EntryIsOnDesk
    <3>2. CASE ~leader.active
      BY <1>4, <3>2 DEF LeaderEnds, PointersOnDesk
    <3>3. QED  BY <3>1, <3>2
  <2>3. [kind |-> "deactivate", gen |-> leader.gen] \in PointerMessages
    BY <1>0, MessagesAreTyped
  <2>4. wire' \in Seq(PointerMessages)
    BY <1>4, <2>3, PointerQueues DEF LeaderEnds
  <2>5. QED  BY <1>0, <2>1, <2>2, <2>4 DEF PointersOnDesk
<1>5. QED  BY <1>1, <1>2, <1>3, <1>4

(* The reader of the receiver.                                             *)
LEMMA ReaderKeeps ==
    ASSUME PointerInv, ReadOn \/ Deliver
    PROVE  PointerInv'
<1> USE DEF PointerInv, PointerTypes
<1>1. UNCHANGED <<here, there, sample, leader, follower>>
  BY DEF ReadOn, Deliver, ReaderTurn
<1>2. reader.gen \in Nat /\ reader.gathered \in MotionsSent /\ reader.holds \in Seq(PointerMessages)
  BY DEF Readers
<1>3. CASE Deliver
  <2>1. queue' = queue \o reader.holds /\ reader' = [reader EXCEPT !.holds = <<>>]
        /\ UNCHANGED <<wire, trip>>
    BY <1>3 DEF Deliver
  <2>2. queue' \in Seq(PointerMessages)
    BY <2>1, <1>2, PointerQueues
  <2>3. reader' \in Readers
    BY <2>1, PointerQueues DEF Readers
  <2>4. QED  BY <1>1, <2>1, <2>2, <2>3 DEF PointersOnDesk
<1>4. CASE ReadOn
  <2> DEFINE m == Head(wire)
  <2>1. m \in PointerMessages /\ wire' \in Seq(PointerMessages)
    BY <1>4, PointerQueues DEF ReadOn
  <2>2. m.gen \in Nat /\ (m.kind = "motion" => m.motion \in MotionsSent)
    BY <2>1, MessagesAreTyped
  <2>3. <<m>> \in Seq(PointerMessages)
    BY <2>1, PointerQueues
  <2>4. \/ m.kind = "motion" /\ reader' = Gather(reader, m.gen, m.motion) /\ UNCHANGED <<queue, trip>>
        \/ reader' = [reader EXCEPT !.holds = <<m>>] /\ UNCHANGED <<queue, trip>>
        \/ /\ queue' = Append(queue, [kind |-> "motion", gen |-> reader.gen,
                                      motion |-> reader.gathered])
           /\ reader' = [Emptied EXCEPT !.holds = <<m>>] /\ UNCHANGED trip
        \/ /\ reader' = [reader EXCEPT !.holds = <<m>>]
           /\ trip' = [trip EXCEPT !.loose = @ \cup {reader.gen}] /\ UNCHANGED queue
    BY <1>4 DEF ReadOn
  <2> HIDE DEF m
  <2>5. reader' \in Readers
    <3>1. CASE m.kind = "motion" /\ reader' = Gather(reader, m.gen, m.motion)
      <4>1. Plus(reader.gathered, m.motion) \in MotionsSent
        BY <1>2, <2>2, <3>1, MotionFacts
      <4>2. QED  BY <2>2, <3>1, <4>1 DEF Gather, Readers
    <3>2. CASE reader' = [reader EXCEPT !.holds = <<m>>]
      BY <2>3, <3>2 DEF Readers
    <3>3. CASE reader' = [Emptied EXCEPT !.holds = <<m>>]
      BY <2>3, <3>3, MotionFacts DEF Readers, Emptied
    <3>4. QED  BY <2>4, <3>1, <3>2, <3>3
  <2>6. queue' \in Seq(PointerMessages)
    <3>1. [kind |-> "motion", gen |-> reader.gen, motion |-> reader.gathered] \in PointerMessages
      BY <1>2, MessagesAreTyped
    <3>2. QED  BY <2>4, <3>1, PointerQueues
  <2>7. trip' \in Trips
    <3>1. trip' = trip \/ trip' = [trip EXCEPT !.loose = trip.loose \cup {reader.gen}]
      BY <2>4
    <3>2. trip.loose \cup {reader.gen} \in SUBSET Nat
      BY <1>2 DEF Trips
    <3>3. QED  BY <3>1, <3>2 DEF Trips
  <2>8. QED  BY <1>1, <2>1, <2>5, <2>6, <2>7 DEF PointersOnDesk
<1>5. QED  BY <1>3, <1>4

\* What concerns the loop of the receiver.
FollowerStands ==
    /\ there \in Points /\ OnDesk(There, there) /\ follower \in Followers /\ trip \in Trips
    /\ follower.cursor # NoPoint => OnDesk(There, follower.cursor)

(* A pointer kept to the primary display is on the desk.                   *)
LEMMA ClampedOnDesk ==
    ASSUME NEW p \in Points, OnDesk(There, p), NEW display \in There \cup {NoDisplay}
    PROVE  Clamped(p, display) \in Points /\ OnDesk(There, Clamped(p, display))
<1>1. CASE display = NoDisplay
  BY <1>1 DEF Clamped
<1>2. CASE display # NoDisplay
  BY <1>2, ClampedIsWithin DEF Clamped
<1>3. QED  BY <1>1, <1>2

(* The way the trip goes on is typed.                                      *)
LEMMA TripFacts ==
    /\ \A t \in Trips, motion \in MotionsSent, b \in BOOLEAN :
           [t EXCEPT !.moved = Plus(@, motion), !.straight = @ /\ b] \in Trips
    /\ \A t \in Trips, b \in BOOLEAN : [t EXCEPT !.moved = NoMotion, !.straight = @ /\ b] \in Trips
    /\ \A t \in Trips : [t EXCEPT !.straight = FALSE] \in Trips
    /\ \A t \in Trips, b \in BOOLEAN : [t EXCEPT !.early = @ \/ b] \in Trips
    /\ \A t \in Trips, gen \in Nat : [t EXCEPT !.loose = @ \cup {gen}] \in Trips
<1>1. ASSUME NEW t \in Trips, NEW motion \in MotionsSent, NEW b \in BOOLEAN
      PROVE  [t EXCEPT !.moved = Plus(@, motion), !.straight = @ /\ b] \in Trips
  <2>1. Plus(t.moved, motion) \in MotionsSent
    BY MotionFacts DEF Trips
  <2>2. QED  BY <2>1 DEF Trips
<1>2. ASSUME NEW t \in Trips, NEW b \in BOOLEAN
      PROVE  [t EXCEPT !.moved = NoMotion, !.straight = @ /\ b] \in Trips
  BY MotionFacts DEF Trips
<1>3. ASSUME NEW t \in Trips
      PROVE  [t EXCEPT !.straight = FALSE] \in Trips
  BY DEF Trips
<1>4. ASSUME NEW t \in Trips, NEW b \in BOOLEAN
      PROVE  [t EXCEPT !.early = @ \/ b] \in Trips
  BY DEF Trips
<1>5. ASSUME NEW t \in Trips, NEW gen \in Nat
      PROVE  [t EXCEPT !.loose = @ \cup {gen}] \in Trips
  <2>1. t.loose \cup {gen} \in SUBSET Nat
    BY DEF Trips
  <2>2. QED  BY <2>1 DEF Trips
<1>6. QED  BY <1>1, <1>2, <1>3, <1>4, <1>5

(* Motion moves the pointer within the desk of the receiver.               *)
LEMMA MotionApplied ==
    ASSUME FollowerStands, NEW motion \in MotionsSent, ApplyMotion(motion)
    PROVE  FollowerStands'
<1> USE DEF FollowerStands
<1>0. motion.by \in Points
  BY DEF MotionsSent
<1>1. CASE follower.game
  <2>1. /\ there' \in {there} \cup MoveWithin(There, there, motion.by)
        /\ trip' = [trip EXCEPT !.moved = Plus(@, motion), !.straight = FALSE]
        /\ follower' = [follower EXCEPT !.idle = FALSE]
    BY <1>1 DEF ApplyMotion
  <2>2. there' \in Points /\ OnDesk(There, there')
    BY <2>1, <1>0, MovedIsOnDesk
  <2>3. trip' \in Trips
    <3>1. Plus(trip.moved, motion) \in MotionsSent
      BY MotionFacts DEF Trips
    <3>2. QED  BY <2>1, <3>1 DEF Trips
  <2>4. follower' \in Followers /\ follower'.cursor = follower.cursor
    BY <2>1 DEF Followers
  <2>5. QED  BY <2>2, <2>3, <2>4
<1>2. CASE ~follower.game /\ follower.cursor = NoPoint
  <2>1. /\ follower' = [follower EXCEPT !.active = FALSE, !.over = TRUE]
        /\ UNCHANGED <<there, trip>>
    BY <1>2 DEF ApplyMotion
  <2>2. follower' \in Followers /\ follower'.cursor = follower.cursor
    BY <2>1 DEF Followers
  <2>3. QED  BY <2>1, <2>2
<1>3. CASE ~follower.game /\ follower.cursor # NoPoint
  <2> DEFINE out == Leaves(There, Away, follower.cursor, motion.by)
             Lands(target) == IF out = {} THEN Clamped(target, follower.primary) ELSE target
             Even(point) == point[Along(Away)] = follower.cursor[Along(Away)]
  <2>1. PICK target \in MoveWithin(There, follower.cursor, motion.by) :
            /\ there' = Lands(target)
            /\ follower' = [follower EXCEPT !.cursor = Lands(target), !.idle = FALSE]
            /\ trip' = [trip EXCEPT !.moved = Plus(@, motion), !.straight = @ /\ Even(Lands(target))]
    BY <1>3 DEF ApplyMotion
  <2>2. follower.cursor \in Points /\ follower.primary \in There \cup {NoDisplay}
    BY <1>3 DEF Followers
  <2>3. target \in Points /\ OnDesk(There, target)
    BY <1>0, <2>2, MovedIsOnDesk
  <2>4. Lands(target) \in Points /\ OnDesk(There, Lands(target))
    BY <2>2, <2>3, ClampedOnDesk
  <2>5. Even(Lands(target)) \in BOOLEAN
    OBVIOUS
  <2> HIDE DEF Lands, Even, out
  <2>6. trip' \in Trips
    BY <2>1, <2>5, TripFacts
  <2>7. follower' \in Followers /\ follower'.cursor = Lands(target)
    BY <2>1, <2>4 DEF Followers
  <2>8. QED  BY <2>1, <2>4, <2>6, <2>7
<1>4. QED  BY <1>1, <1>2, <1>3

(* An activation places the pointer at the edge, on the desk.              *)
LEMMA TakenOver ==
    ASSUME FollowerStands, NEW m \in PointerMessages, TakeOver(m)
    PROVE  FollowerStands'
<1> USE DEF FollowerStands
<1> DEFINE f == [follower EXCEPT !.gen = m.gen, !.active = TRUE, !.idle = FALSE]
<1>1. f \in Followers /\ f.cursor = follower.cursor /\ follower.primary \in There \cup {NoDisplay}
  BY MessagesAreTyped DEF Followers
<1>2. trip' \in Trips
  <2> DEFINE straight == ~follower.game /\ ~follower.secure
  <2>1. trip' = [trip EXCEPT !.moved = NoMotion, !.straight = @ /\ straight]
    BY DEF TakeOver
  <2>2. straight \in BOOLEAN
    OBVIOUS
  <2> HIDE DEF straight
  <2>3. QED  BY <2>1, <2>2, TripFacts
<1>3. \A q \in Entries(There, Away, m.position) : q \in Points /\ OnDesk(There, q)
  BY EntryIsOnDesk DEF Away
<1>4. \/ follower' = f /\ UNCHANGED there
      \/ /\ UNCHANGED there
         /\ \E p \in {there} \cup Entries(There, Away, m.position) :
               follower' = [f EXCEPT !.cursor = Clamped(p, follower.primary)]
      \/ /\ there' \in Entries(There, Away, m.position)
         /\ follower' = [f EXCEPT !.cursor = there']
      \/ UNCHANGED there /\ follower' = [f EXCEPT !.game = TRUE]
  BY DEF TakeOver
<1> HIDE DEF f
<1>5. CASE follower' = f /\ UNCHANGED there
  BY <1>1, <1>2, <1>5
<1>6. CASE /\ UNCHANGED there
           /\ \E p \in {there} \cup Entries(There, Away, m.position) :
                 follower' = [f EXCEPT !.cursor = Clamped(p, follower.primary)]
  <2>1. PICK p \in {there} \cup Entries(There, Away, m.position) :
            follower' = [f EXCEPT !.cursor = Clamped(p, follower.primary)]
    BY <1>6
  <2>2. p \in Points /\ OnDesk(There, p)
    BY <1>3
  <2>3. Clamped(p, follower.primary) \in Points /\ OnDesk(There, Clamped(p, follower.primary))
    BY <1>1, <2>2, ClampedOnDesk
  <2>4. follower' \in Followers /\ follower'.cursor = Clamped(p, follower.primary)
    BY <1>1, <2>1, <2>3 DEF Followers
  <2>5. QED  BY <1>2, <1>6, <2>3, <2>4
<1>7. CASE /\ there' \in Entries(There, Away, m.position)
           /\ follower' = [f EXCEPT !.cursor = there']
  <2>1. there' \in Points /\ OnDesk(There, there')
    BY <1>3, <1>7
  <2>2. follower' \in Followers /\ follower'.cursor = there'
    BY <1>1, <1>7, <2>1 DEF Followers
  <2>3. QED  BY <1>2, <2>1, <2>2
<1>8. CASE UNCHANGED there /\ follower' = [f EXCEPT !.game = TRUE]
  <2>1. follower' \in Followers /\ follower'.cursor = f.cursor
    BY <1>1, <1>8 DEF Followers
  <2>2. QED  BY <1>1, <1>2, <1>8, <2>1
<1>9. QED  BY <1>4, <1>5, <1>6, <1>7, <1>8

(* A loop of the receiver that only wakes, or lets the pointer go.         *)
LEMMA FollowerRests ==
    ASSUME FollowerStands
    PROVE  /\ \A f \in {Woken, Freed, [Freed EXCEPT !.over = TRUE], [Woken EXCEPT !.game = TRUE],
                        [follower EXCEPT !.idle = TRUE]} :
                  f \in Followers /\ f.cursor \in {NoPoint, follower.cursor}
           /\ [Woken EXCEPT !.game = FALSE] \in Followers
           /\ [Woken EXCEPT !.secure = FALSE, !.primary = NoDisplay] \in Followers
BY DEF FollowerStands, Woken, Freed, Followers

(* The pointer is where the system says it is, or where it was.            *)
LEMMA AnchorsStand ==
    ASSUME FollowerStands, NEW f \in Followers, f.cursor = follower.cursor, NEW g \in Anchors(f)
    PROVE  g \in Followers /\ (g.cursor # NoPoint => OnDesk(There, g.cursor))
BY DEF FollowerStands, Anchors, Followers

(* The loop of the receiver takes a message.                               *)
LEMMA HeardStands ==
    ASSUME FollowerStands, queue \in Seq(PointerMessages), FollowerHears
    PROVE  FollowerStands'
<1> DEFINE m == Head(queue)
           mine == follower.active /\ m.gen = follower.gen
           early == m.after > trip.moved.n /\ m.gen \notin trip.loose
<1>1. m \in PointerMessages
  BY PointerQueues DEF FollowerHears
<1>2. \/ m.kind = "activate" /\ TakeOver(m)
      \/ m.kind = "motion" /\ ApplyMotion(m.motion)
      \/ trip' = [trip EXCEPT !.early = @ \/ early] /\ follower' = Woken /\ UNCHANGED there
      \/ follower' = Freed /\ UNCHANGED <<there, trip>>
      \/ follower' = Woken /\ UNCHANGED <<there, trip>>
  BY DEF FollowerHears
<1>3. early \in BOOLEAN
  OBVIOUS
<1> HIDE DEF m, early
<1>4. CASE m.kind = "activate" /\ TakeOver(m)
  BY <1>1, <1>4, TakenOver
<1>5. CASE m.kind = "motion" /\ ApplyMotion(m.motion)
  <2>1. m.motion \in MotionsSent
    BY <1>1, <1>5, MessagesAreTyped
  <2>2. QED  BY <1>5, <2>1, MotionApplied
<1>6. CASE trip' = [trip EXCEPT !.early = @ \/ early] /\ follower' = Woken /\ UNCHANGED there
  <2>1. trip' \in Trips
    BY <1>3, <1>6, TripFacts DEF FollowerStands
  <2>2. QED  BY <1>6, <2>1, FollowerRests DEF FollowerStands
<1>7. CASE follower' = Freed /\ UNCHANGED <<there, trip>>
  BY <1>7, FollowerRests DEF FollowerStands
<1>8. CASE follower' = Woken /\ UNCHANGED <<there, trip>>
  BY <1>8, FollowerRests DEF FollowerStands
<1>9. QED  BY <1>2, <1>4, <1>5, <1>6, <1>7, <1>8

(* Its timer takes the motion gathered.                                    *)
LEMMA TickStands ==
    ASSUME FollowerStands, reader \in Readers, FollowerTicks
    PROVE  FollowerStands' /\ reader' \in Readers
<1>1. reader.gen \in Nat /\ reader.gathered \in MotionsSent
  BY DEF Readers
<1>2. reader' \in Readers
  BY MotionFacts DEF FollowerTicks, Emptied, Readers
<1>3. CASE follower.active /\ reader.gen = follower.gen
  <2>1. ApplyMotion(reader.gathered)
    BY <1>3 DEF FollowerTicks
  <2>2. QED  BY <1>1, <1>2, <2>1, MotionApplied
<1>4. CASE ~(follower.active /\ reader.gen = follower.gen)
  <2>1. /\ follower' = Woken /\ UNCHANGED there
        /\ trip' = IF queue = <<>> THEN trip ELSE [trip EXCEPT !.loose = @ \cup {reader.gen}]
    BY <1>4 DEF FollowerTicks
  <2>2. trip' \in Trips
    BY <1>1, <2>1, TripFacts DEF FollowerStands
  <2>3. QED  BY <1>2, <2>1, <2>2, FollowerRests DEF FollowerStands
<1>5. QED  BY <1>3, <1>4

(* Games, the secure desktop and the hotkey.                               *)
LEMMA SurpriseStands ==
    ASSUME FollowerStands, Monitor \/ Secure \/ FollowerEnds \/ FindsNothing
    PROVE  FollowerStands'
<1>1. CASE Monitor
  <2>1. /\ UNCHANGED there /\ trip' = [trip EXCEPT !.straight = FALSE]
        /\ follower' \in IF follower.game THEN Anchors([Woken EXCEPT !.game = FALSE])
                         ELSE {[Woken EXCEPT !.game = TRUE]}
    BY <1>1 DEF Monitor
  <2>2. trip' \in Trips
    BY <2>1, TripFacts DEF FollowerStands
  <2>3. [Woken EXCEPT !.game = FALSE] \in Followers
        /\ [Woken EXCEPT !.game = FALSE].cursor = follower.cursor
    BY FollowerRests DEF FollowerStands, Woken, Followers
  <2>4. CASE follower.game
    BY <2>1, <2>2, <2>3, <2>4, AnchorsStand DEF FollowerStands
  <2>5. CASE ~follower.game
    BY <2>1, <2>2, <2>5, FollowerRests DEF FollowerStands
  <2>6. QED  BY <2>4, <2>5
<1>2. CASE Secure
  <2>0. UNCHANGED there /\ trip' = [trip EXCEPT !.straight = FALSE]
    BY <1>2 DEF Secure
  <2>1. trip' \in Trips
    BY <2>0, TripFacts DEF FollowerStands
  <2>2. CASE follower.secure
    <3> DEFINE f == [Woken EXCEPT !.secure = FALSE, !.primary = NoDisplay]
    <3>1. follower' \in IF f.cursor = NoPoint THEN {f} ELSE Anchors(f)
      BY <1>2, <2>2 DEF Secure
    <3>2. f \in Followers /\ f.cursor = follower.cursor
      BY FollowerRests DEF FollowerStands, Woken, Followers
    <3> HIDE DEF f
    <3>3. QED  BY <2>0, <2>1, <3>1, <3>2, AnchorsStand DEF FollowerStands
  <2>3. CASE ~follower.secure
    <3>1. PICK primary \in There \cup {NoDisplay} :
              follower' = [Woken EXCEPT !.secure = TRUE, !.primary = primary,
                                       !.cursor = IF @ = NoPoint THEN @ ELSE Clamped(@, primary)]
      BY <1>2, <2>3 DEF Secure
    <3> DEFINE cursor == IF follower.cursor = NoPoint THEN NoPoint
                         ELSE Clamped(follower.cursor, primary)
    <3>2. Woken \in Followers /\ Woken.cursor = follower.cursor
      BY FollowerRests DEF FollowerStands, Woken, Followers
    <3>3. follower' = [Woken EXCEPT !.secure = TRUE, !.primary = primary, !.cursor = cursor]
      BY <3>1, <3>2
    <3>4. cursor \in Points \cup {NoPoint} /\ (cursor # NoPoint => OnDesk(There, cursor))
      <4>1. CASE follower.cursor = NoPoint
        BY <4>1
      <4>2. CASE follower.cursor # NoPoint
        <5>1. follower.cursor \in Points /\ OnDesk(There, follower.cursor)
          BY <4>2 DEF FollowerStands, Followers
        <5>2. QED  BY <4>2, <5>1, ClampedOnDesk
      <4>3. QED  BY <4>1, <4>2
    <3> HIDE DEF cursor
    <3>5. follower' \in Followers /\ follower'.cursor = cursor
      BY <3>2, <3>3, <3>4 DEF Followers
    <3>6. QED  BY <2>0, <2>1, <3>4, <3>5 DEF FollowerStands
  <2>4. QED  BY <2>2, <2>3
<1>3. CASE FollowerEnds
  BY <1>3, FollowerRests DEF FollowerEnds, FollowerStands
<1>4. CASE FindsNothing
  BY <1>4, FollowerRests DEF FindsNothing, FollowerStands
<1>5. QED  BY <1>1, <1>2, <1>3, <1>4

(* Whatever the loop of the receiver does.                                 *)
LEMMA FollowerKeeps ==
    ASSUME PointerInv,
           FollowerHears \/ FollowerTicks \/ Monitor \/ Secure \/ FollowerEnds \/ FindsNothing
    PROVE  PointerInv'
<1>0. FollowerStands /\ OnDesk(Here, here) /\ queue \in Seq(PointerMessages) /\ reader \in Readers
  BY DEF PointerInv, PointerTypes, PointersOnDesk, FollowerStands
<1>1. UNCHANGED <<here, sample, leader, wire>>
  BY DEF FollowerHears, FollowerTicks, Monitor, Secure, FollowerEnds, FindsNothing, FollowerTurn
<1>2. FollowerStands'
  BY <1>0, HeardStands, TickStands, SurpriseStands
<1>3. reader' \in Readers
  <2>1. CASE FollowerTicks
    BY <1>0, <2>1, TickStands
  <2>2. CASE ~FollowerTicks
    BY <1>0, <2>2 DEF FollowerHears, Monitor, Secure, FollowerEnds, FindsNothing
  <2>3. QED  BY <2>1, <2>2
<1>4. queue' \in Seq(PointerMessages)
  <2>1. CASE FollowerHears
    BY <1>0, <2>1, PointerQueues DEF FollowerHears
  <2>2. CASE ~FollowerHears
    BY <1>0, <2>2 DEF FollowerTicks, Monitor, Secure, FollowerEnds, FindsNothing
  <2>3. QED  BY <2>1, <2>2
<1>5. QED  BY <1>0, <1>1, <1>2, <1>3, <1>4 DEF PointerInv, PointerTypes, PointersOnDesk, FollowerStands

LEMMA PointerSteps ==
    ASSUME PointerInv, [PointerNext]_pointerVars
    PROVE  PointerInv'
<1>1. CASE UNCHANGED pointerVars
  BY <1>1 DEF pointerVars, PointerInv, PointerTypes, PointersOnDesk
<1>2. CASE PointerNext
  BY <1>2, PointerPushed, SampleTaken, LeaderKeeps, ReaderKeeps, FollowerKeeps DEF PointerNext
<1>3. QED  BY <1>1, <1>2

(* Both pointers, and the one the receiver reckons with, stay on a display *)
(* whatever the layouts, motion and surprises: crossing_coordinate,        *)
(* move_within_layout, point_inside_edge and clamp_secure_target compose.  *)
THEOREM PointersStayOnDesk ==
    PointerSpec => []PointersOnDesk
<1>1. PointerInit => PointerInv
  BY PointerBegins
<1>2. PointerInv /\ [PointerNext]_pointerVars => PointerInv'
  BY PointerSteps
<1>3. PointerInv => PointersOnDesk
  BY DEF PointerInv
<1>4. QED  BY <1>1, <1>2, <1>3, PTL DEF PointerSpec

(* The state of the pointer is typed.                                      *)
THEOREM PointerTyped ==
    PointerSpec => []PointerTypeOK
<1>1. PointerInit => PointerInv
  BY PointerBegins
<1>2. PointerInv /\ [PointerNext]_pointerVars => PointerInv'
  BY PointerSteps
<1>3. PointerInv => PointerTypeOK
  BY DEF PointerInv, PointerTypes, PointerTypeOK, Leaders, Readers, Followers, Trips, MotionsSent
<1>4. QED  BY <1>1, <1>2, <1>3, PTL DEF PointerSpec
=============================================================================
