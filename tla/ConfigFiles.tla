---------------------------- MODULE ConfigFiles ----------------------------
(***************************************************************************)
(* The files of the configuration (src/config/) and their two owners: the  *)
(* supervisor keeps the configuration it loaded, every session runs on a   *)
(* copy of it, and each saves its whole list of trusted devices.  A file   *)
(* is replaced in two steps, and the program may crash between any two, or *)
(* while it brings the files of an older version up to date.               *)
(***************************************************************************)
EXTENDS Naturals, Sequences, FiniteSets, SequencesExt

CONSTANTS Peers,      \* the devices that may be trusted
          MaxSaves,   \* bound: pairings and revocations
          MaxCrashes  \* bound: ends of the program, and of a session

ASSUME ConfigAssumption == IsFiniteSet(Peers) /\ {MaxSaves, MaxCrashes} \subseteq Nat

VARIABLES
    files,     \* what each file holds
    process,   \* what the program is doing, and what its load has still to write
    config,    \* the supervisor's identity, window state and trusted devices
    copy,      \* the session's: whether it runs, as a host, its trusted devices
    saves,     \* by owner, the list it is writing
    told,      \* commands on their way to the session
    spent,
    origin,    \* the identity and the window state the user began with
    revoked,   \* the devices the user revoked and no pairing or file brought back
    paired     \* the devices remembered and not revoked

configVars == <<files, process, config, copy, saves, told, spent, origin, revoked, paired>>
memory == <<config, copy, saves, told>>
history == <<origin, revoked, paired>>

Owners == {"supervisor", "session"}
Nothing == [there |-> FALSE, of |-> {}]
Writes(list) == [there |-> TRUE, of |-> list]
Idle0 == [on |-> FALSE, of |-> {}, about |-> {}]
Saving(list, devices) == [on |-> TRUE, of |-> list, about |-> devices]
Nobody0 == [identity |-> 0, gui |-> "none", trusted |-> {}]
NoCopy == [on |-> FALSE, host |-> FALSE, trusted |-> {}]

\* A first start, or the files of a version that kept the window state in the
\* main file.
ConfigInit ==
    /\ \/ /\ files = [main |-> "none", gui |-> "none", identity |-> 0, trusted |-> Nothing]
          /\ origin = [identity |-> 0, gui |-> "default"]
       \/ /\ files = [main |-> "legacy", gui |-> "none", identity |-> 1, trusted |-> Writes({})]
          /\ origin = [identity |-> 1, gui |-> "user"]
    /\ process = [at |-> "off", rest |-> <<>>]
    /\ config = Nobody0 /\ copy = NoCopy
    /\ saves = [o \in Owners |-> Idle0] /\ told = <<>>
    /\ spent = [saves |-> 0, crashes |-> 0] /\ revoked = {} /\ paired = {}

Up == process.at = "up"

-----------------------------------------------------------------------------
(* The start.                                                              *)

\* Mutant: the main file, which says what version the others have, goes first.
MainFirst(gui, identity, trusted, main) == main \o gui \o identity \o trusted

\* The order of load_or_create_in_dir.
WriteOrder(gui, identity, trusted, main) == gui \o identity \o trusted \o main

Missing(file, isMissing) == IF isMissing THEN <<file>> ELSE <<>>

\* It reads all the files first: an identity is made if there is none, and the
\* window state comes from its own file, or from a main file of the old version.
Load ==
    /\ process.at = "off"
    /\ config' = [identity |-> IF files.identity = 0 THEN spent.crashes + 2 ELSE files.identity,
                  gui |-> IF files.gui # "none" THEN files.gui
                          ELSE IF files.main = "legacy" THEN "user" ELSE "default",
                  trusted |-> files.trusted.of]
    /\ process' = [at |-> "loading", rest |->
           WriteOrder(Missing("gui", files.gui = "none"),
                      Missing("identity", files.identity = 0 \/ files.main = "legacy"),
                      Missing("trusted", ~files.trusted.there \/ files.main = "legacy"),
                      Missing("main", files.main # "current"))]
    /\ revoked' = revoked \ files.trusted.of
    /\ UNCHANGED <<files, copy, saves, told, spent, origin, paired>>

\* write_toml_atomic: the temporary file, whole, takes the place of the old one.
LoadWrites ==
    /\ process.at = "loading" /\ process.rest # <<>>
    /\ files' = CASE Head(process.rest) = "gui" -> [files EXCEPT !.gui = config.gui]
                  [] Head(process.rest) = "identity" -> [files EXCEPT !.identity = config.identity]
                  [] Head(process.rest) = "trusted" -> [files EXCEPT !.trusted = Writes(config.trusted)]
                  [] Head(process.rest) = "main" -> [files EXCEPT !.main = "current"]
    /\ process' = [process EXCEPT !.rest = Tail(@)]
    /\ UNCHANGED <<memory, spent, history>>

\* From here on other devices learn who this one is.
Loaded ==
    /\ process.at = "loading" /\ process.rest = <<>>
    /\ process' = [process EXCEPT !.at = "up"]
    /\ origin' = [origin EXCEPT !.identity = IF @ = 0 THEN config.identity ELSE @]
    /\ UNCHANGED <<files, memory, spent, revoked, paired>>

\* A crash, a write that fails during the load, or the end of the program.
Ends ==
    /\ process.at # "off" /\ spent.crashes < MaxCrashes
    /\ process' = [at |-> "off", rest |-> <<>>]
    /\ config' = Nobody0 /\ copy' = NoCopy /\ saves' = [o \in Owners |-> Idle0] /\ told' = <<>>
    /\ spent' = [spent EXCEPT !.crashes = @ + 1]
    /\ UNCHANGED <<files, history>>

-----------------------------------------------------------------------------
(* Trust.                                                                  *)

\* start_session: the session gets a copy of the supervisor's configuration.
StartSession(host) ==
    /\ Up /\ ~copy.on /\ ~saves["supervisor"].on
    /\ copy' = [on |-> TRUE, host |-> host, trusted |-> config.trusted]
    /\ UNCHANGED <<files, process, config, saves, told, spent, history>>

StopSession ==
    /\ Up /\ copy.on /\ spent.crashes < MaxCrashes
    /\ copy' = NoCopy /\ told' = <<>> /\ saves' = [saves EXCEPT !["session"] = Idle0]
    /\ spent' = [spent EXCEPT !.crashes = @ + 1]
    /\ UNCHANGED <<files, process, config, history>>

\* remember_trusted_device and save_trusted_devices, in the session.
Remember(d) ==
    /\ Up /\ copy.on /\ ~saves["session"].on /\ spent.saves < MaxSaves
    /\ copy' = [copy EXCEPT !.trusted = @ \cup {d}]
    /\ saves' = [saves EXCEPT !["session"] = Saving(copy.trusted \cup {d}, {d})]
    /\ spent' = [spent EXCEPT !.saves = @ + 1]
    /\ revoked' = revoked \ {d}
    /\ UNCHANGED <<files, process, config, told, origin, paired>>

\* note_trusted_device_session: a known device connects, and the list is saved.
Note(d) ==
    /\ Up /\ copy.on /\ d \in copy.trusted /\ ~saves["session"].on
    /\ spent.saves < MaxSaves /\ spent' = [spent EXCEPT !.saves = @ + 1]
    /\ saves' = [saves EXCEPT !["session"] = Saving(copy.trusted, {})]
    /\ UNCHANGED <<files, process, config, copy, told, history>>

\* AppCommand::RevokeTrust, for a device of the supervisor's list.
Revoke(d) ==
    /\ Up /\ d \in config.trusted /\ ~saves["supervisor"].on
    /\ spent.saves < MaxSaves /\ spent' = [spent EXCEPT !.saves = @ + 1]
    /\ config' = [config EXCEPT !.trusted = @ \ {d}]
    /\ saves' = [saves EXCEPT !["supervisor"] = Saving(config.trusted \ {d}, {d})]
    /\ paired' = paired \ {d}
    /\ UNCHANGED <<files, process, copy, told, origin, revoked>>

\* The new list replaces the file, or the disk refuses and the old one stays;
\* then the supervisor tells the session.
Saved(o) ==
    /\ saves[o].on
    /\ saves' = [saves EXCEPT ![o] = Idle0]
    /\ \/ /\ files' = [files EXCEPT !.trusted = Writes(saves[o].of)]
          /\ revoked' = IF o = "supervisor" THEN revoked \cup saves[o].about ELSE revoked
          /\ paired' = IF o = "session" THEN paired \cup saves[o].about ELSE paired
       \/ UNCHANGED <<files, revoked, paired>>
    /\ told' = IF o = "supervisor" /\ copy.on THEN told \o SetToSeq(saves[o].about) ELSE told
    /\ UNCHANGED <<process, config, copy, spent, origin>>

\* RuntimeCommand::RevokeTrust in the host, once no pairing holds the list; a
\* client has nobody who takes commands.
Hear ==
    /\ told # <<>> /\ told' = Tail(told)
    /\ IF copy.host THEN ~saves["session"].on ELSE TRUE
    /\ copy' = IF copy.host THEN [copy EXCEPT !.trusted = @ \ {Head(told)}] ELSE copy
    /\ UNCHANGED <<files, process, config, saves, spent, history>>

-----------------------------------------------------------------------------
ConfigNext ==
    \/ Load \/ LoadWrites \/ Loaded \/ Ends
    \/ \E host \in BOOLEAN : StartSession(host)
    \/ StopSession
    \/ \E d \in Peers : Remember(d) \/ Note(d) \/ Revoke(d)
    \/ \E o \in Owners : Saved(o)
    \/ Hear

ConfigSpec == ConfigInit /\ [][ConfigNext]_configVars

-----------------------------------------------------------------------------
\* A program that has started is the device it was before, with the window the
\* user left, whatever start before it was cut short and between which files.
NothingForgotten ==
    Up => /\ config.identity = origin.identity /\ files.identity = origin.identity
          /\ config.gui = origin.gui /\ files.gui = origin.gui

\* "Later connections will use long-term mTLS" (app.rs:1402): a device that was
\* remembered is in the file from which the next start takes its list.
PairedIsKept ==
    (\A o \in Owners : ~saves[o].on) /\ process.at = "off" => paired \subseteq files.trusted.of

\* A device that was revoked is not in the file.
RevokedStaysOut ==
    (\A o \in Owners : ~saves[o].on) /\ told = <<>> => revoked \cap files.trusted.of = {}
=============================================================================
