----------------------------- MODULE MCPrograms -----------------------------
(***************************************************************************)
(* The programs around a session: the supervisor of the desktop program,   *)
(* the engine of the Android application, the client of the core library   *)
(* under it, and the host that serves several devices.  They share no      *)
(* state; a behaviour is one of one of them, with the others over, so that *)
(* one run checks them all at the price of their sum.                      *)
(***************************************************************************)
EXTENDS Supervisor, MobileClient, HostSessions, ClientSession

CONSTANTS a, b, c, d1, d2

\* A client is started on Bluetooth, unknown, known or with another device trusted; on the
\* LAN, with the device it trusts or with whichever one it trusts.
SpareOf(orders0, sets, links0, moves, begun) ==
    [wish |-> orders0, desk |-> sets, link |-> links0, place |-> moves, session |-> begun]
TargetOf(device, list, bluetooth, spares) ==
    [id |-> device, trusted |-> list, addresses |-> {"p"}, radio |-> bluetooth, spare |-> spares,
     where |-> [p |-> d1, q |-> NoDesk, r |-> d1]]
PhoneTargets ==
    {TargetOf(d1, {}, "r", SpareOf(1, 1, 0, 0, 2)), TargetOf(d1, {d1}, "r", SpareOf(1, 1, 0, 0, 1)),
     TargetOf(NoDesk, {d2}, "r", SpareOf(1, 0, 0, 1, 2)),
     TargetOf(d1, {d1}, NoDesk, SpareOf(1, 1, 1, 0, 1)), TargetOf(d1, {d1}, NoDesk, SpareOf(2, 0, 0, 0, 1)),
     TargetOf(d1, {d1}, NoDesk, SpareOf(1, 0, 0, 2, 2)), TargetOf(NoDesk, {d1}, NoDesk, SpareOf(1, 0, 0, 1, 2))}

SupervisorOver ==
    /\ turn = "gone" /\ session = 0 /\ desired = "off" /\ responders = {}
    /\ snap = [IdleSnapshot EXCEPT !.life = "Stopping"]
    /\ scan = [epoch |-> 0, on |-> FALSE, late |-> {}]
    /\ runs = [r \in Runs |-> Unstarted] /\ reports = [r \in Runs |-> <<>>]
    /\ commands = 0 /\ prompts = 0

MobileOver ==
    /\ engine = [gen |-> 0, handle |-> 0, target |-> FALSE, starts |-> {}]
    /\ ui = Blank /\ store = {} /\ reading = {}
    /\ clients = [k \in Clients |-> Unborn] /\ taps = MaxTaps

HostOver ==
    /\ loop = Ready /\ slot = WithPreferred(Nobody) /\ pairing = NoPairing /\ queue = <<>>
    /\ sessions = [d \in Devices |-> 0] /\ tasks = [i \in Instances |-> NoTask]
    /\ trusted = Saved
    /\ count = [instances |-> MaxInstances, pairings |-> MaxPairings, commands |-> MaxCommands]

ClientOver ==
    /\ phone = [at |-> "over", how |-> "none", peer |-> NoDesk, offer |-> {}, theirs |-> {},
                late |-> FALSE, set |-> Plain, trusted |-> {}, wanted |-> NoDesk, id |-> NoDesk,
                addresses |-> {}, radio |-> NoDesk]
    /\ wishes = Plain /\ orders = <<>> /\ desks = [d \in Desks |-> Plain]
    /\ where = [p \in {} |-> NoDesk] /\ ends = NoEnds /\ wire = NoFrames
    /\ spare = SpareOf(0, 0, 0, 0, 0)

ProgramsInit ==
    \/ SupervisorInit /\ MobileOver /\ HostOver /\ ClientOver
    \/ SupervisorOver /\ MobileInit /\ HostOver /\ ClientOver
    \/ SupervisorOver /\ MobileOver /\ Init /\ ClientOver
    \/ SupervisorOver /\ MobileOver /\ HostOver /\ ClientInit

ProgramsNext ==
    \/ SupervisorNext /\ UNCHANGED <<mobileVars, vars, clientVars>>
    \/ MobileNext /\ UNCHANGED <<supervisorVars, vars, clientVars>>
    \/ Next /\ UNCHANGED <<supervisorVars, mobileVars, clientVars>>
    \/ ClientNext /\ UNCHANGED <<supervisorVars, mobileVars, vars>>

programsVars == <<supervisorVars, mobileVars, vars, clientVars>>

ProgramsSpec ==
    /\ ProgramsInit /\ [][ProgramsNext]_programsVars
    /\ SupervisorFairness /\ MobileFairness
=============================================================================
