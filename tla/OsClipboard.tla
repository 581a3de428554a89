---------------------------- MODULE OsClipboard ----------------------------
(***************************************************************************)
(* The clipboard of the system as the desktop program uses it              *)
(* (clipboard.rs, ClipboardSync): the thread that watches it, and the      *)
(* application of a payload of the other device, which stores its files in *)
(* a cache of limited size and leaves their paths on the clipboard.  The   *)
(* user copies at any time.                                                *)
(*                                                                         *)
(* A payload is some text or none, and files.  A file is its size; the two *)
(* of Twins have one name and one size, and the second of them, stored     *)
(* beside the first, gets another name: it is read back as Renamed.        *)
(***************************************************************************)
EXTENDS Naturals, Sequences, SequencesExt, FiniteSets, FiniteSetsExt

CONSTANTS
    Files, Weight,    \* the files, and the size of each
    MaxFileBytes,     \* max_file_bytes
    MaxCacheBytes,    \* max_cache_bytes
    Attempts,         \* APPLY_ATTEMPTS
    MaxApplications,  \* bound: payloads of the other device
    MaxCopies,        \* bound: what the user copies
    MaxReports        \* bound: reports that wait for the hub

Twins == {"twin", "twin of the other"}
Renamed == "twin-2"
Stored(files) == IF Twins \subseteq files THEN (files \ {"twin of the other"}) \cup {Renamed} ELSE files

ASSUME OsAssumption ==
    /\ Twins \cup {Renamed, "one", "two", "large"} \subseteq Files /\ Weight \in [Files -> Nat]
    /\ {MaxFileBytes, MaxCacheBytes, MaxApplications, MaxCopies, MaxReports} \subseteq Nat
    /\ Attempts \in Nat \ {0}

VARIABLES
    windows, \* the platform: access is serialized, and writing is tried again
    board,   \* what the clipboard has: its text, its files, their batch (0: the user's), who wrote it
    cache,   \* the batches of the cache, each the application that stored it, and its size
    job,     \* the application under way
    result,    \* the last one that was over: its number, its payload, strict, and whether it succeeded
    sync,    \* ClipboardSyncState
    watch,   \* the watcher runs, and a change is waiting for it
    reports, \* what it read, and who had written it
    passed,  \* who wrote what was last passed on to the others
    used

osVars == <<windows, board, cache, job, result, sync, watch, reports, passed, used>>

NoText == 0
User == 0        \* the user; an application is its number
Payload(text, files) == [text |-> text, files |-> files]
NoContent == Payload(NoText, {})
NoSignature == Payload(2, {})
Payloads == {Payload(1, {}), Payload(NoText, Twins), Payload(1, {"one", "two"}),
             Payload(NoText, {"one", "large"})}
Copies == {Payload(1, {}), Payload(NoText, {"one"})}

NoJob == [at |-> "idle", id |-> 0, payload |-> NoContent, strict |-> FALSE,
          written |-> {}, batch |-> 0, tries |-> 0]

OsInit ==
    /\ windows \in BOOLEAN
    /\ board = [text |-> 1, files |-> {}, batch |-> 0, by |-> User]
    /\ cache = {} /\ job = NoJob
    /\ result = [id |-> 0, payload |-> NoContent, strict |-> FALSE, ok |-> TRUE]
    /\ sync = [last |-> NoSignature, suppress |-> NoSignature]
    /\ watch = [on |-> FALSE, unread |-> FALSE]
    /\ reports = <<>> /\ passed = User
    /\ used = [applications |-> 0, copies |-> 0]

-----------------------------------------------------------------------------
(* Reading.                                                                *)

Ids == {b.id : b \in cache}
IsLeft == board.batch = 0 \/ board.batch \in Ids

\* capture_clipboard: files exclude everything else, those that are gone or too
\* large are left out, and nothing remains of a payload of which no file does.
Captured ==
    IF board.files = {} THEN Payload(board.text, {})
    ELSE Payload(NoText, {f \in board.files : IsLeft /\ Weight[f] <= MaxFileBytes})

\* On Windows what reads waits for what writes.
MayRead == windows => job.at = "idle"

\* note_local_payload: whether the payload is passed on.
IsNews(p) == p \notin {sync.suppress, sync.last}
NoteLocal(p) ==
    sync' = [last |-> p, suppress |-> IF sync.suppress = p THEN NoSignature ELSE sync.suppress]
PassOn(p, by) == NoteLocal(p) /\ passed' = IF IsNews(p) THEN by ELSE passed

\* start_local_watcher, then publish_initial_payload.
StartWatcher ==
    /\ ~watch.on /\ MayRead /\ watch' = [on |-> TRUE, unread |-> FALSE]
    /\ IF Captured = NoContent THEN UNCHANGED <<sync, passed>> ELSE PassOn(Captured, board.by)
    /\ UNCHANGED <<windows, board, cache, job, result, reports, used>>

\* The handle is dropped: the thread is result to end and waited for.
StopWatcher ==
    /\ watch.on /\ watch' = [on |-> FALSE, unread |-> FALSE] /\ reports' = <<>>
    /\ UNCHANGED <<windows, board, cache, job, result, sync, passed, used>>

\* on_clipboard_change reads some time after the change; the system may refuse.
WatcherReads ==
    /\ watch.unread /\ MayRead /\ Len(reports) < MaxReports /\ watch' = [watch EXCEPT !.unread = FALSE]
    /\ \/ UNCHANGED reports
       \/ /\ Captured # NoContent
          /\ reports' = Append(reports, [payload |-> Captured, by |-> board.by])
    /\ UNCHANGED <<windows, board, cache, job, result, sync, passed, used>>

\* The hub takes a report, when no application is under way.
TakeReport ==
    /\ reports # <<>> /\ job.at = "idle" /\ reports' = Tail(reports)
    /\ PassOn(Head(reports).payload, Head(reports).by)
    /\ UNCHANGED <<windows, board, cache, job, result, watch, used>>

PutOnBoard(content, batch, by) ==
    /\ board' = [text |-> content.text, files |-> content.files, batch |-> batch, by |-> by]
    /\ watch' = [watch EXCEPT !.unread = watch.on]

UserCopies(p) ==
    /\ used.copies < MaxCopies /\ used' = [used EXCEPT !.copies = @ + 1]
    /\ PutOnBoard(p, 0, User)
    /\ UNCHANGED <<windows, cache, job, result, sync, reports, passed>>

-----------------------------------------------------------------------------
(* Applying.                                                               *)

JobEnds(ok) ==
    /\ result' = [id |-> job.id, payload |-> job.payload, strict |-> job.strict, ok |-> ok]
    /\ job' = NoJob

IsSmall(f) == Weight[f] <= MaxFileBytes

\* validate_complete_payload refuses the whole for one file that is too large,
\* sanitize_remote_payload leaves such files out.
ApplyPayload(p, strict) ==
    LET id == used.applications + 1
        kept == [p EXCEPT !.files = {f \in @ : IsSmall(f)}]
        refused == strict /\ \E f \in p.files : ~IsSmall(f)
    IN /\ job.at = "idle" /\ id <= MaxApplications /\ used' = [used EXCEPT !.applications = id]
       /\ IF refused \/ kept = NoContent
          THEN /\ result' = [id |-> id, payload |-> p, strict |-> strict, ok |-> ~refused] /\ UNCHANGED job
          ELSE /\ job' = [NoJob EXCEPT !.at = "compare", !.id = id, !.payload = kept, !.strict = strict]
               /\ UNCHANGED result
       /\ UNCHANGED <<windows, board, cache, sync, watch, reports, passed>>

\* The payload that is there already is not written again.
Compare ==
    /\ job.at = "compare"
    /\ IF Captured = job.payload
       THEN JobEnds(TRUE) /\ sync' = [last |-> job.payload, suppress |-> NoSignature]
       ELSE job' = [job EXCEPT !.at = "store"] /\ UNCHANGED <<result, sync>>
    /\ UNCHANGED <<windows, board, cache, watch, reports, passed, used>>

Size(batches) == MapThenSumSet(LAMBDA b : b.size, batches)
SizeOf(files) == MapThenSumSet(LAMBDA f : Weight[f], files)

\* Mutant: the batch that has just been written is as good as any other.
RemovableAny(batches, active) == batches

\* prune_clipboard_cache never removes the batch in use.
Removable(batches, active) == {b \in batches : b.id # active}

\* It removes the oldest first, and stops once the rest fits or nothing can go.
Pruned(batches, active, k) == batches \ {b \in Removable(batches, active) : b.id <= k}
IsPruned(batches, active) == Size(batches) <= MaxCacheBytes \/ Removable(batches, active) = {}

\* Mutant: files that could not be written are passed over.
IsTaken(written) == TRUE

\* Of a reliable payload every file must have been written.
IsComplete(written) == job.strict => written = job.payload.files

\* write_clipboard_files_to_cache: some of the files may fail to be written, and
\* the removal of an older batch may fail, which ends the application.
Store ==
    /\ job.at = "store"
    /\ \E written \in SUBSET job.payload.files, k \in 0 .. MaxApplications :
           LET batch == IF written = {} THEN 0 ELSE job.id
               added == IF written = {} THEN cache
                        ELSE cache \cup {[id |-> batch, size |-> SizeOf(written)]}
           IN /\ \A j \in 0 .. k - 1 : ~IsPruned(Pruned(added, batch, j), batch)
              /\ cache' = Pruned(added, batch, k)
              /\ IF ~IsPruned(cache', batch) \/ ~IsComplete(written) THEN JobEnds(FALSE)
                 ELSE /\ job' = [job EXCEPT !.at = "set", !.written = Stored(written), !.batch = batch]
                      /\ UNCHANGED result
    /\ UNCHANGED <<windows, board, sync, watch, reports, passed, used>>

\* set_clipboard_contents: nothing is written of a payload without contents.
SetBoard ==
    /\ job.at = "set" /\ job' = [job EXCEPT !.at = "note"]
    /\ IF job.payload.text = NoText /\ job.written = {} THEN UNCHANGED <<board, watch>>
       ELSE PutOnBoard(Payload(job.payload.text, job.written), job.batch, job.id)
    /\ UNCHANGED <<windows, cache, result, sync, reports, passed, used>>

\* Another program has the clipboard open.
SetFails ==
    /\ job.at = "set"
    /\ IF windows /\ job.tries + 1 < Attempts
       THEN job' = [job EXCEPT !.tries = @ + 1] /\ UNCHANGED result
       ELSE JobEnds(FALSE)
    /\ UNCHANGED <<windows, board, cache, sync, watch, reports, passed, used>>

NoteRemote ==
    /\ job.at = "note" /\ JobEnds(TRUE)
    /\ sync' = [last |-> job.payload, suppress |-> job.payload]
    /\ UNCHANGED <<windows, board, cache, watch, reports, passed, used>>

OsNext ==
    \/ StartWatcher \/ StopWatcher \/ WatcherReads \/ TakeReport
    \/ \E p \in Copies : UserCopies(p)
    \/ \E p \in Payloads, strict \in BOOLEAN : ApplyPayload(p, strict)
    \/ Compare \/ Store \/ SetBoard \/ SetFails \/ NoteRemote

OsSpec == OsInit /\ [][OsNext]_osVars

-----------------------------------------------------------------------------
\* What was confirmed as applied can be pasted, whole, until something else is
\* copied or applied: no file is missing, and none was removed from the cache.
ConfirmedIsWhole ==
    result.strict /\ result.ok /\ job.at = "idle" /\ board.by = result.id =>
        /\ IsLeft
        /\ board.text = result.payload.text /\ board.files = Stored(result.payload.files)

\* What the user copies is passed on, unless the others have it already (the
\* test at clipboard.rs:1020). It is not: see the findings.
CopyIsPassedOn ==
    [][TakeReport /\ Head(reports).by = User /\ sync.last # Head(reports).payload
           => IsNews(Head(reports).payload)]_osVars

\* What was applied for another device is not passed on as a change of this one
\* (clipboard_hub.rs:26). It is: see the findings.
EchoIsHeld == passed = User

\* The files on the clipboard are there. They are not: see the findings.
FilesAreThere == job.at = "idle" => IsLeft
=============================================================================
