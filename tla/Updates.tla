------------------------------ MODULE Updates ------------------------------
(***************************************************************************)
(* The updater of the desktop program (src/update/): it looks for a        *)
(* release, downloads its package into a .part file that survives a        *)
(* crash, hands the package to an installer that lives on without the      *)
(* program, and learns at its next start how that ended.  Its tasks share  *)
(* one locked phase.  The buttons follow the phase with a delay, so a      *)
(* click may meet another phase than the one that was shown.               *)
(***************************************************************************)
EXTENDS Naturals, FiniteSets, FiniteSetsExt

CONSTANTS MaxVersion,   \* bound: releases that are ever published
          MaxFetches,   \* bound: downloads started
          MaxHandoffs,  \* bound: installers started
          MaxClicks,    \* bound: clicks that look for a release, skip or cancel one
          MaxStarts     \* bound: starts of the program

ASSUME UpdatesAssumption ==
    /\ {MaxFetches, MaxHandoffs, MaxClicks} \subseteq Nat
    /\ {MaxVersion, MaxStarts} \subseteq Nat \ {0}

VARIABLES
    latest,     \* the newest release published, never drawn back
    program,    \* installed version, running version (0 if none), number of the start
    updater,    \* phase, release known, package ready, tag shown, download generation
    skipped,    \* the release the user does not want, kept in the configuration
    shown,      \* the phase whose buttons the window offers
    looking,    \* the check task and, while it runs, what it read when it began
    restoring,  \* the task that takes up the package of an earlier run
    fetches,    \* the download tasks by generation
    applying,   \* the task that hands the package over
    part, package, \* the download directory: .part file and package of each version
    sums,       \* the version whose SHA256SUMS is kept there, 0 if none
    pending,    \* the version named in apply-update.pending, 0 if there is none
    installers, \* the installers started
    clicks

updateVars == <<latest, program, updater, skipped, shown, looking, restoring, fetches, applying,
                part, package, sums, pending, installers, clicks>>
disk == <<part, package, sums, pending>>

Versions == 1..MaxVersion
Fetches == 1..MaxFetches
Handoffs == 1..MaxHandoffs
Busy == {"Checking", "Downloading", "Applying"}

NoCheck == [on |-> FALSE, manual |-> FALSE, skipped |-> 0]
NoRestore == [at |-> "none", of |-> 0]
NoFetch == [at |-> "none", of |-> 0]
NoInstaller == [at |-> "none", of |-> 0, from |-> 0, start |-> 0, verified |-> FALSE]
Fresh == [phase |-> "Idle", release |-> 0, ready |-> 0, tag |-> 0, gen |-> 0, download |-> 0]

\* start() after the installation, with an empty download directory.
UpdatesInit ==
    /\ latest = 1 /\ program = [installed |-> 1, running |-> 1, start |-> 1]
    /\ updater = Fresh /\ skipped = 0 /\ shown = "Idle"
    /\ looking = NoCheck /\ restoring = [NoRestore EXCEPT !.at = "todo"]
    /\ fetches = [g \in Fetches |-> NoFetch] /\ applying = [at |-> "none", of |-> 0, tag |-> 0]
    /\ part = [v \in Versions |-> "none"] /\ package = [v \in Versions |-> "none"]
    /\ sums = 0 /\ pending = 0
    /\ installers = [h \in Handoffs |-> NoInstaller] /\ clicks = 0

IsNewer(v) == v > program.running
IsUp == program.running # 0

\* A download may change what is shown while it is the last one and not cancelled.
IsActive(g) == updater.download = g /\ updater.phase = "Downloading"

-----------------------------------------------------------------------------
(* Looking for a release.                                                  *)

\* check(): by the user from the window or the tray at any time, and once by
\* the timer of the start.  A check that still runs is aborted.
Check(manual) ==
    /\ IsUp /\ updater.phase \notin {"Checking", "Downloading"}
    /\ clicks < MaxClicks /\ clicks' = clicks + 1
    /\ updater' = [updater EXCEPT !.phase = "Checking"]
    /\ looking' = [on |-> TRUE, manual |-> manual, skipped |-> skipped]
    /\ UNCHANGED <<latest, program, skipped, shown, restoring, fetches, applying, disk, installers>>

\* run_check after its request: no answer, nothing newer, or a newer release,
\* written over whatever phase there is by now.
CheckEnds ==
    /\ looking.on /\ looking' = NoCheck
    /\ \/ updater' = [updater EXCEPT !.phase = "Failed"]
       \/ /\ ~IsNewer(latest)
          /\ updater' = [updater EXCEPT !.phase = "UpToDate", !.release = 0]
       \/ /\ IsNewer(latest)
          /\ updater' = [updater EXCEPT !.release = latest, !.tag = latest,
                 !.phase = IF looking.skipped = latest /\ ~looking.manual
                           THEN "UpToDate" ELSE "Available"]
    /\ UNCHANGED <<latest, program, skipped, shown, restoring, fetches, applying, disk, installers, clicks>>

\* skip_current, offered while a release is.
Skip ==
    /\ IsUp /\ shown = "Available" /\ updater.release # 0
    /\ clicks < MaxClicks /\ clicks' = clicks + 1
    /\ skipped' = updater.release
    /\ updater' = [updater EXCEPT !.phase = "UpToDate"]
    /\ UNCHANGED <<latest, program, shown, looking, restoring, fetches, applying, disk, installers>>

-----------------------------------------------------------------------------
(* The download: a task per generation.                                    *)

Download ==
    /\ IsUp /\ shown = "Available" /\ updater.release # 0 /\ updater.phase # "Downloading"
    /\ updater.gen < MaxFetches
    /\ updater' = [updater EXCEPT !.phase = "Downloading", !.gen = @ + 1, !.download = updater.gen + 1]
    /\ fetches' = [fetches EXCEPT ![updater.gen + 1] = [at |-> "queued", of |-> 0]]
    /\ UNCHANGED <<latest, program, skipped, shown, looking, restoring, applying, disk, installers, clicks>>

\* cancel_download aborts the last task; its .part file stays.
CancelDownload ==
    /\ IsUp /\ shown = "Downloading" /\ updater.phase = "Downloading"
    /\ clicks < MaxClicks /\ clicks' = clicks + 1
    /\ updater' = [updater EXCEPT !.phase = "Available", !.download = 0]
    /\ fetches' = [fetches EXCEPT ![updater.gen] = NoFetch]
    /\ UNCHANGED <<latest, program, skipped, shown, looking, restoring, applying, disk, installers>>

\* fail(): the task is over, and says so if it is still the one awaited.
Fail(g) ==
    /\ fetches' = [fetches EXCEPT ![g] = NoFetch]
    /\ updater' = IF IsActive(g) THEN [updater EXCEPT !.phase = "Failed"] ELSE updater

FetchBegins(g) ==
    /\ fetches[g].at = "queued"
    /\ fetches' = [fetches EXCEPT ![g] =
           IF IsActive(g) /\ updater.release # 0 THEN [at |-> "asking", of |-> updater.release] ELSE NoFetch]
    /\ UNCHANGED <<latest, program, updater, skipped, shown, looking, restoring, applying, disk,
                   installers, clicks>>

\* The checksums and the request: what there is of the .part file is continued
\* where the server allows it; a whole one cannot be continued and goes.
FetchAsks(g) ==
    /\ fetches[g].at = "asking"
    /\ \/ Fail(g) /\ UNCHANGED part
       \/ /\ fetches' = [fetches EXCEPT ![g].at = "writing"]
          /\ part' \in {[part EXCEPT ![fetches[g].of] = "some"]} \cup
                 (IF part[fetches[g].of] \in {"some", "bad"} THEN {part} ELSE {})
          /\ UNCHANGED updater
    /\ UNCHANGED <<latest, program, skipped, shown, looking, restoring, applying, package, sums,
                   pending, installers, clicks>>

\* The body arrives, whole or damaged, or breaks off.  Another task that writes
\* the same file spoils it, or not.
FetchWrites(g) ==
    /\ fetches[g].at = "writing"
    /\ LET v == fetches[g].of
           alone == \A h \in Fetches \ {g} : fetches[h] # fetches[g]
       IN  \/ Fail(g) /\ UNCHANGED part
           \/ /\ fetches' = [fetches EXCEPT ![g].at = "digest"]
              /\ part' \in {[part EXCEPT ![v] = "bad"]} \cup
                     (IF part[v] = "bad" THEN {} ELSE {[part EXCEPT ![v] = "whole"]})
              /\ UNCHANGED updater
           \/ ~alone /\ part' = [part EXCEPT ![v] = "bad"] /\ UNCHANGED <<fetches, updater>>
    /\ UNCHANGED <<latest, program, skipped, shown, looking, restoring, applying, package, sums,
                   pending, installers, clicks>>

\* The digest of the .part file decides; a wrong file is removed.
FetchVerifies(g) ==
    /\ fetches[g].at = "digest"
    /\ IF part[fetches[g].of] = "whole"
       THEN fetches' = [fetches EXCEPT ![g].at = "verified"] /\ UNCHANGED <<part, updater>>
       ELSE part' = [part EXCEPT ![fetches[g].of] = "none"] /\ Fail(g)
    /\ UNCHANGED <<latest, program, skipped, shown, looking, restoring, applying, package, sums,
                   pending, installers, clicks>>

\* The .part file becomes the package.
FetchKeeps(g) ==
    /\ fetches[g].at = "verified"
    /\ LET v == fetches[g].of IN
       IF ~IsActive(g) THEN fetches' = [fetches EXCEPT ![g] = NoFetch] /\ UNCHANGED <<updater, part, package>>
       ELSE IF part[v] = "none" THEN Fail(g) /\ UNCHANGED <<part, package>>
       ELSE /\ package' = [package EXCEPT ![v] = part[v]] /\ part' = [part EXCEPT ![v] = "none"]
            /\ fetches' = [fetches EXCEPT ![g].at = "kept"] /\ UNCHANGED updater
    /\ UNCHANGED <<latest, program, skipped, shown, looking, restoring, applying, sums, pending,
                   installers, clicks>>

\* The checksums are kept too, if they can be, and the user may restart.
FetchEnds(g) ==
    /\ fetches[g].at = "kept"
    /\ sums' \in {sums, fetches[g].of}
    /\ updater' = IF IsActive(g)
                  THEN [updater EXCEPT !.phase = "ReadyToRestart", !.ready = fetches[g].of] ELSE updater
    /\ fetches' = [fetches EXCEPT ![g] = NoFetch]
    /\ UNCHANGED <<latest, program, skipped, shown, looking, restoring, applying, part, package,
                   pending, installers, clicks>>

-----------------------------------------------------------------------------
(* The package of an earlier run.                                          *)

Digesting(v) == [at |-> "digest", of |-> v]

\* Mutant: the version of the package is not compared with the program's.
RestoreAny ==
    /\ restoring.at = "todo"
    /\ LET found == {v \in Versions : package[v] # "none"} IN
       restoring' = IF found # {} /\ updater.ready = 0 /\ sums = Max(found)
                    THEN Digesting(Max(found)) ELSE NoRestore
    /\ UNCHANGED <<latest, program, updater, skipped, shown, looking, fetches, applying, disk,
                   installers, clicks>>

\* locate_local_package: the newest package found, if it is newer than the
\* program and the checksums kept are its own.
RestoreLooks ==
    /\ restoring.at = "todo"
    /\ LET found == {v \in Versions : package[v] # "none"} IN
       restoring' = IF found # {} /\ updater.ready = 0 /\ IsNewer(Max(found)) /\ sums = Max(found)
                    THEN Digesting(Max(found)) ELSE NoRestore
    /\ UNCHANGED <<latest, program, updater, skipped, shown, looking, fetches, applying, disk,
                   installers, clicks>>

\* The package verified is taken up while nothing else is shown.
RestoreEnds ==
    /\ restoring.at = "digest" /\ restoring' = NoRestore
    /\ updater' = IF package[restoring.of] = "whole" /\ updater.ready = 0 /\ updater.phase \in {"Idle", "UpToDate"}
                  THEN [updater EXCEPT !.phase = "ReadyToRestart", !.ready = restoring.of, !.tag = restoring.of]
                  ELSE updater
    /\ UNCHANGED <<latest, program, skipped, shown, looking, fetches, applying, disk, installers, clicks>>

-----------------------------------------------------------------------------
(* The handover to the installer.                                          *)

Install ==
    /\ IsUp /\ shown = "ReadyToRestart" /\ updater.phase = "ReadyToRestart" /\ updater.ready # 0
    /\ updater' = [updater EXCEPT !.phase = "Applying"]
    /\ applying' = [at |-> "record", of |-> updater.ready, tag |-> updater.tag]
    /\ UNCHANGED <<latest, program, skipped, shown, looking, restoring, fetches, disk, installers, clicks>>

\* The installer does not start; or the program is not an installed one, and the
\* package is opened for the user instead.
ApplyFails ==
    /\ \/ applying.at \in {"record", "spawn"} /\ applying' = [applying EXCEPT !.at = "failed"]
       \/ applying.at = "record" /\ applying' = [applying EXCEPT !.at = "opened"]
    /\ UNCHANGED <<latest, program, updater, skipped, shown, looking, restoring, fetches, disk,
                   installers, clicks>>

\* apply-update.pending is written before the installer starts.
ApplyRecords ==
    /\ applying.at = "record" /\ applying' = [applying EXCEPT !.at = "spawn"]
    /\ pending' = applying.tag
    /\ UNCHANGED <<latest, program, updater, skipped, shown, looking, restoring, fetches, part,
                   package, sums, installers, clicks>>

ApplySpawns(h) ==
    /\ applying.at = "spawn" /\ applying' = [applying EXCEPT !.at = "spawned"]
    /\ \A i \in Handoffs : i < h <=> installers[i].at # "none"
    /\ installers' = [installers EXCEPT ![h] =
           [at |-> "waiting", of |-> applying.of, from |-> program.running, start |-> program.start,
            verified |-> package[applying.of] = "whole"]]
    /\ UNCHANGED <<latest, program, updater, skipped, shown, looking, restoring, fetches, disk, clicks>>

\* Back in run_apply, which leaves a phase alone that is no longer its own.
Outcome == [spawned |-> "HandedOff", opened |-> "DmgOpened", failed |-> "Failed"]

ApplyEnds ==
    /\ applying.at \in DOMAIN Outcome /\ applying' = [applying EXCEPT !.at = "none"]
    /\ updater' = IF updater.phase # "Applying" THEN updater
                  ELSE [updater EXCEPT !.phase = Outcome[applying.at]]
    /\ UNCHANGED <<latest, program, skipped, shown, looking, restoring, fetches, disk, installers, clicks>>

-----------------------------------------------------------------------------
(* The program leaves and starts again.                                    *)

Over ==
    /\ program' = [program EXCEPT !.running = 0]
    /\ updater' = Fresh /\ shown' = "Idle" /\ looking' = NoCheck /\ restoring' = NoRestore
    /\ fetches' = [g \in Fetches |-> NoFetch] /\ applying' = [at |-> "none", of |-> 0, tag |-> 0]
    /\ UNCHANGED <<latest, skipped, disk, installers, clicks>>

\* The window follows the phase; a handover ends the program.
Offer(phase) == IF phase \in {"Available", "Downloading", "ReadyToRestart"} THEN phase ELSE "Idle"

Present ==
    /\ IsUp
    /\ \/ updater.phase = "HandedOff" /\ Over
       \/ /\ updater.phase # "HandedOff"
          /\ shown # Offer(updater.phase) /\ shown' = Offer(updater.phase)
          /\ UNCHANGED <<latest, program, updater, skipped, looking, restoring, fetches, applying,
                         disk, installers, clicks>>

\* The user leaves the program, or it crashes.
Quit == IsUp /\ program.start < MaxStarts /\ Over

\* start() with what the last run left: the record of a handover is taken, and
\* tells whether the version aimed at is there.
StartUp ==
    /\ ~IsUp /\ program.start < MaxStarts
    /\ program' = [program EXCEPT !.running = program.installed, !.start = @ + 1]
    /\ pending' = 0
    /\ updater' = [Fresh EXCEPT !.phase = IF pending > program.installed THEN "Failed" ELSE "Idle"]
    /\ restoring' = [NoRestore EXCEPT !.at = "todo"]
    /\ UNCHANGED <<latest, skipped, shown, looking, fetches, applying, part, package, sums, installers, clicks>>

-----------------------------------------------------------------------------
(* The world: releases and installers.                                     *)

Publish ==
    /\ latest < MaxVersion /\ latest' = latest + 1
    /\ UNCHANGED <<program, updater, skipped, shown, looking, restoring, fetches, applying, disk,
                   installers, clicks>>

\* The installer waits a minute for the process that started it, then replaces
\* the program or reports that it could not.
InstallerEnds(h) ==
    /\ installers[h].at = "waiting"
    /\ ~(IsUp /\ program.start = installers[h].start)
    /\ \/ installers' = [installers EXCEPT ![h].at = "done"]
          /\ program' = [program EXCEPT !.installed = installers[h].of]
       \/ installers' = [installers EXCEPT ![h].at = "failed"] /\ UNCHANGED program
    /\ UNCHANGED <<latest, updater, skipped, shown, looking, restoring, fetches, applying, disk, clicks>>

\* A minute is longer than the program takes to leave once it is asked to.
InstallerGivesUp(h) ==
    /\ installers[h].at = "waiting"
    /\ IsUp /\ program.start = installers[h].start
    /\ applying.at # "spawned" /\ updater.phase # "HandedOff"
    /\ installers' = [installers EXCEPT ![h].at = "vain"]
    /\ UNCHANGED <<latest, program, updater, skipped, shown, looking, restoring, fetches, applying,
                   disk, clicks>>

Fetch(g) ==
    \/ FetchBegins(g) \/ FetchAsks(g) \/ FetchWrites(g) \/ FetchVerifies(g)
    \/ FetchKeeps(g) \/ FetchEnds(g)

Apply == ApplyFails \/ ApplyRecords \/ ApplyEnds \/ \E h \in Handoffs : ApplySpawns(h)

UpdatesNext ==
    \/ \E manual \in BOOLEAN : Check(manual)
    \/ CheckEnds \/ Skip \/ Download \/ CancelDownload
    \/ \E g \in Fetches : Fetch(g)
    \/ RestoreLooks \/ RestoreEnds \/ Install \/ Apply
    \/ Present \/ Quit \/ StartUp \/ Publish
    \/ \E h \in Handoffs : InstallerEnds(h) \/ InstallerGivesUp(h)

\* The tasks of the runtime run on, and a request ends, if only by an error.
UpdatesFairness ==
    /\ WF_updateVars(CheckEnds) /\ WF_updateVars(Apply)
    /\ \A g \in Fetches : WF_updateVars(Fetch(g))

UpdatesSpec == UpdatesInit /\ [][UpdatesNext]_updateVars /\ UpdatesFairness

-----------------------------------------------------------------------------
(* Properties.                                                             *)

\* An installer is only ever started with a package newer than the program, also
\* when the package was left over from an update that has long landed.
NoReinstall == \A h \in Handoffs : installers[h].at # "none" => installers[h].of > installers[h].from

\* What an installer is given has passed the digest, though downloads are
\* continued after crashes and an abandoned one may write the same file.
OnlyVerified == \A h \in Handoffs : installers[h].at # "none" => installers[h].verified

\* No installer waits for a program that does not leave.
ProgramLeaves == \A h \in Handoffs : installers[h].at # "vain"

\* A package that is here and verified is not downloaded again.
NoSecondDownload ==
    \A g \in Fetches : fetches[g].at = "asking" =>
        ~(package[fetches[g].of] = "whole" /\ sums = fetches[g].of)
=============================================================================
