----------------------------- MODULE Lifecycle -----------------------------
(***************************************************************************)
(* The life of the daemon: Main.c from its label "start" to its return or   *)
(* its jump back, the signal handler, the scheduled job, what a first start  *)
(* leaves on disk, and crashes.                                             *)
(*                                                                         *)
(* Main's thread is a process whose position is pc.  A signal is handled in  *)
(* one step between any two of Main's: it reaches the thread of a request    *)
(* (RouteProcControl raises it there) or Main's own.  The handlers, once     *)
(* installed, outlive the jump to "start".                                  *)
(*                                                                         *)
(* HttpServer, Cron and Db are a library that Main uses: HttpServerJoin      *)
(* returns once the server was told to stop, CronStop waits for the running  *)
(* job, DbCreate leaves a file that is filled when it is unlocked.           *)
(***************************************************************************)
EXTENDS Naturals, Sequences

CONSTANTS
    Listeners,     \* how many listeners the configuration has
    Null           \* httpServers before its creation and after its release

ASSUME LifecycleAssumption == Listeners \in Nat \ {0}

VARIABLES
    pc,            \* where Main is
    httpServers,   \* the static array: Null or a sequence of servers
    index,         \* how many servers a loop of Main is done with
    restart,       \* the static flag
    handlers,      \* the signal handlers are installed
    tConfig,       \* Main's "ok" and, with it, the lock on the configuration
    token,         \* Main has a new token to print
    cron,          \* the scheduler runs
    job,           \* UiaCleanup is under way
    db,            \* the database is open
    configFile,    \* config.json
    tokenFile,     \* the administrator's registration token
    announced,     \* that token was printed to the log
    created,       \* administrator tokens created so far
    shutdown       \* SIGTERM or SIGINT was handled in this process

disk == <<configFile, tokenFile, announced, created>>
servers == <<httpServers, index>>
local == <<tConfig, token, cron, db>>
async == <<restart, handlers, job, shutdown>>
vars == <<pc, disk, servers, local, async>>

-----------------------------------------------------------------------------
(* Types *)

Server == [state: {"bound", "running", "freed"}, stop: BOOLEAN]

Position ==
    {"start", "open", "bootstrap", "createToken", "closeToken", "load", "log",
     "pid", "bind", "jobs", "router", "serve", "join",
     "finish", "stopJobs", "unlock", "close", "exited", "killed"}

File == {"missing", "incomplete", "complete"}

TypeOK ==
    /\ pc \in Position
    /\ httpServers = Null \/ httpServers \in Seq(Server)
    /\ index \in 0..Listeners
    /\ restart \in BOOLEAN /\ handlers \in BOOLEAN /\ shutdown \in BOOLEAN
    /\ token \in BOOLEAN /\ announced \in BOOLEAN
    /\ cron \in BOOLEAN /\ job \in BOOLEAN /\ db \in BOOLEAN
    /\ tConfig \in {"unset", "ok", "notOk"}
    /\ {configFile, tokenFile} \subseteq File
    /\ created \in Nat

Alive == pc \notin {"exited", "killed"}

\* Main goes on, or logs an error and goes to its label "finish".
At(here) == pc = here
Goto(there) == pc' = there
Fail == Goto("finish")

-----------------------------------------------------------------------------
(* Starting *)

Start ==
    /\ At("start") /\ Goto("open")
    /\ httpServers' = Null
    /\ index' = 0
    /\ restart' = FALSE
    /\ cron' = FALSE
    /\ token' = FALSE
    /\ db' = FALSE
    /\ UNCHANGED <<disk, tConfig, handlers, job, shutdown>>

\* Arguments, working directory, database.
Open ==
    /\ At("open")
    /\ (Goto("bootstrap") /\ db' = TRUE) \/ (Fail /\ UNCHANGED db)
    /\ UNCHANGED <<disk, servers, tConfig, token, cron, async>>

\* Faulty variant: every start creates a token.
BootstrapAlways ==
    /\ At("bootstrap") /\ Goto("createToken")
    /\ configFile' = "incomplete"
    /\ UNCHANGED <<tokenFile, announced, created, servers, local, async>>

\* ConfigExists; the DbCreate of ConfigCreateDefault, which may fail.
Bootstrap ==
    /\ At("bootstrap")
    /\ IF configFile # "missing"
       THEN Goto("load") /\ UNCHANGED configFile
       ELSE \/ Goto("createToken") /\ configFile' = "incomplete"
            \/ Fail /\ UNCHANGED configFile
    /\ UNCHANGED <<tokenFile, announced, created, servers, local, async>>

\* The configuration is written, then RegTokenCreate.
CreateToken ==
    /\ At("createToken")
    /\ configFile' = "complete"
    /\ \/ /\ Goto("closeToken")
          /\ tokenFile' = "incomplete"
          /\ created' = created + 1
       \/ Fail /\ UNCHANGED <<tokenFile, created>>
    /\ UNCHANGED <<announced, servers, local, async>>

\* RegTokenClose
CloseToken ==
    /\ At("closeToken") /\ Goto("load")
    /\ tokenFile' = "complete"
    /\ token' = TRUE
    /\ UNCHANGED <<configFile, announced, created, servers, tConfig, cron, db, async>>

\* ConfigLock: an incomplete file is no configuration.
Load ==
    /\ At("load")
    /\ IF configFile = "complete"
       THEN Goto("log") /\ tConfig' = "ok"
       ELSE Fail /\ tConfig' = "notOk"
    /\ UNCHANGED <<disk, servers, token, cron, db, async>>

\* The log file is opened and a new token printed to it.
OpenLog ==
    /\ At("log")
    /\ \/ /\ Goto("pid")
          /\ announced' = (announced \/ token)
          /\ token' = FALSE
       \/ Fail /\ UNCHANGED <<announced, token>>
    /\ UNCHANGED <<configFile, tokenFile, created, servers, tConfig, cron, db, async>>

\* The file of the process id; the array of servers.
WritePid ==
    /\ At("pid")
    /\ (Goto("bind") /\ httpServers' = <<>>) \/ (Fail /\ UNCHANGED httpServers)
    /\ UNCHANGED <<disk, index, local, async>>

\* HttpServerCreate, one listener after the other.
Bind ==
    /\ At("bind")
    /\ Len(httpServers) < Listeners
    /\ \/ /\ httpServers' = Append(httpServers, [state |-> "bound", stop |-> FALSE])
          /\ UNCHANGED pc
       \/ Fail /\ UNCHANGED httpServers
    /\ UNCHANGED <<disk, index, local, async>>

\* Faulty variant: the configuration stays locked.
DropPrivilegesLocked ==
    /\ At("bind") /\ Goto("jobs")
    /\ Len(httpServers) = Listeners
    /\ UNCHANGED <<disk, servers, local, async>>

\* The user and group change, then ConfigUnlock.
DropPrivileges ==
    /\ At("bind")
    /\ Len(httpServers) = Listeners
    /\ (Goto("jobs") /\ tConfig' = "notOk") \/ (Fail /\ UNCHANGED tConfig)
    /\ UNCHANGED <<disk, servers, token, cron, db, async>>

StartJobs ==
    /\ At("jobs")
    /\ (Goto("router") /\ cron' = TRUE) \/ (Fail /\ UNCHANGED cron)
    /\ UNCHANGED <<disk, servers, tConfig, token, db, async>>

BuildRouter ==
    /\ At("router")
    /\ Goto("serve") \/ Fail
    /\ UNCHANGED <<disk, servers, local, async>>

\* HttpServerStart, one server after the other.
Serve ==
    /\ At("serve")
    /\ index < Listeners
    /\ \/ /\ httpServers' = [httpServers EXCEPT ![index + 1].state = "running"]
          /\ index' = index + 1
          /\ UNCHANGED pc
       \/ Fail /\ index' = 0 /\ UNCHANGED httpServers
    /\ UNCHANGED <<disk, local, async>>

\* The four calls of sigaction.
InstallHandlers ==
    /\ At("serve")
    /\ index = Listeners
    /\ index' = 0
    /\ (Goto("join") /\ handlers' = TRUE) \/ (Fail /\ UNCHANGED handlers)
    /\ UNCHANGED <<disk, httpServers, local, restart, job, shutdown>>

-----------------------------------------------------------------------------
(* Stopping *)

\* HttpServerJoin, one server after the other.
Join ==
    /\ At("join")
    /\ IF index < Listeners
       THEN /\ httpServers[index + 1].stop
            /\ index' = index + 1
            /\ UNCHANGED pc
       ELSE Goto("finish") /\ index' = 0
    /\ UNCHANGED <<disk, httpServers, local, async>>

FreeServer ==
    /\ At("finish")
    /\ httpServers # Null
    /\ index < Len(httpServers)
    /\ httpServers' = [httpServers EXCEPT ![index + 1] =
                         [state |-> "freed", stop |-> TRUE]]
    /\ index' = index + 1
    /\ UNCHANGED <<pc, disk, local, async>>

FreeServers ==
    /\ At("finish") /\ Goto("stopJobs")
    /\ httpServers # Null => index = Len(httpServers)
    /\ httpServers' = Null
    /\ index' = 0
    /\ UNCHANGED <<disk, local, async>>

\* Faulty variant: CronStop does not wait.
StopJobsAtOnce ==
    /\ At("stopJobs") /\ Goto("unlock")
    /\ cron' = FALSE
    /\ UNCHANGED <<disk, servers, tConfig, token, db, async>>

\* CronStop
StopJobs ==
    /\ At("stopJobs") /\ Goto("unlock")
    /\ ~job
    /\ cron' = FALSE
    /\ UNCHANGED <<disk, servers, tConfig, token, db, async>>

\* ConfigUnlock reads "ok": when nothing ever set it, a random value may send
\* it to a random pointer.
Unlock ==
    /\ At("unlock")
    /\ IF tConfig = "unset"
       THEN (Goto("close") \/ Goto("killed")) /\ UNCHANGED tConfig
       ELSE Goto("close") /\ tConfig' = "notOk"
    /\ UNCHANGED <<disk, servers, token, cron, db, async>>

\* DbClose; the jump back or the return.
Close ==
    /\ At("close") /\ Goto(IF restart THEN "start" ELSE "exited")
    /\ db' = FALSE
    /\ UNCHANGED <<disk, servers, tConfig, token, cron, async>>

Main ==
    \/ Start \/ Open \/ Bootstrap \/ CreateToken \/ CloseToken \/ Load \/ OpenLog
    \/ WritePid \/ Bind \/ DropPrivileges \/ StartJobs \/ BuildRouter \/ Serve
    \/ InstallHandlers \/ Join \/ FreeServer \/ FreeServers \/ StopJobs \/ Unlock
    \/ Close

-----------------------------------------------------------------------------
(* What happens to Main *)

Stopped(server) == [server EXCEPT !.stop = TRUE]

\* Faulty variants: the state is set instead of the flag; the loop begins at 1.
StopServersWrongFlag ==
    [k \in DOMAIN httpServers |-> [httpServers[k] EXCEPT !.state = "stopped"]]
StopServersButFirst ==
    [k \in DOMAIN httpServers |->
        IF k = 1 THEN httpServers[k] ELSE Stopped(httpServers[k])]

StopServers == [k \in DOMAIN httpServers |-> Stopped(httpServers[k])]

\* SignalHandler on SIGUSR1, SIGTERM or SIGINT.  To stop a freed server is
\* undefined: nothing happens, or the process dies.
SignalHandler(signal) ==
    /\ Alive
    /\ handlers
    /\ restart' = (restart \/ signal = "USR1")
    /\ shutdown' = (shutdown \/ signal # "USR1")
    /\ IF httpServers = Null
       THEN UNCHANGED <<pc, httpServers>>
       ELSE /\ httpServers' = StopServers
            /\ \/ UNCHANGED pc
               \/ /\ \E k \in DOMAIN httpServers : httpServers[k].state = "freed"
                  /\ Goto("killed")
    /\ UNCHANGED <<disk, index, local, handlers, job>>

\* The job runs in a thread of the scheduler; once CronStop is called no new
\* one begins.
JobBegin ==
    /\ Alive /\ cron /\ ~job
    /\ ~At("stopJobs")
    /\ job' = TRUE
    /\ UNCHANGED <<pc, disk, servers, local, restart, handlers, shutdown>>

JobEnd ==
    /\ Alive /\ job
    /\ job' = FALSE
    /\ UNCHANGED <<pc, disk, servers, local, restart, handlers, shutdown>>

\* The machine stops, or a signal comes before its handler is installed.
Crash ==
    /\ Alive /\ Goto("killed")
    /\ UNCHANGED <<disk, servers, local, async>>

\* Somebody starts the program again.
Boot ==
    /\ ~Alive /\ Goto("start")
    /\ httpServers' = Null
    /\ index' = 0
    /\ tConfig' = "unset"
    /\ restart' = FALSE /\ handlers' = FALSE /\ shutdown' = FALSE
    /\ token' = FALSE /\ cron' = FALSE /\ job' = FALSE /\ db' = FALSE
    /\ UNCHANGED disk

-----------------------------------------------------------------------------

Init ==
    /\ pc = "start"
    /\ httpServers = Null
    /\ index = 0
    /\ tConfig = "unset"
    /\ restart = FALSE /\ handlers = FALSE /\ shutdown = FALSE
    /\ token = FALSE /\ cron = FALSE /\ job = FALSE /\ db = FALSE
    /\ configFile = "missing" /\ tokenFile = "missing"
    /\ announced = FALSE
    /\ created = 0

Next ==
    \/ Main
    \/ \E signal \in {"USR1", "TERM"} : SignalHandler(signal)
    \/ JobBegin \/ JobEnd
    \/ Crash \/ Boot

\* Main's thread runs and the job ends; signals, crashes and new starts come or
\* do not.
Spec == Init /\ [][Next]_vars /\ WF_vars(Main) /\ WF_vars(JobEnd)

-----------------------------------------------------------------------------
(* Properties *)

\* However often the program crashes and starts, it creates one token of all
\* privileges at most (Main.c:233-262).
OneAdminToken == created <= 1

\* The scheduled job never works on a closed database (Main.c:599-613).
JobsHaveDatabase == job /\ Alive => db

\* While a server answers requests Main does not hold the configuration's
\* lock, which each of them needs (Main.c:270, 503 and 531-549).
RequestsCanLock ==
    httpServers # Null /\ (\E k \in DOMAIN httpServers : httpServers[k].state = "running")
        => tConfig # "ok"

\* The program serves only with everything in place: from the first server on
\* the lock is free, and Main waits for signals only when all listeners run, the
\* scheduler runs, the database is open and the handlers are there.
ServingMeansReady ==
    /\ RequestsCanLock
    /\ pc = "join" =>
        /\ Len(httpServers) = Listeners
        /\ \A k \in 1..Listeners : httpServers[k].state = "running"
        /\ cron /\ db /\ handlers
        /\ configFile = "complete"

\* A process that returns from Main leaves no thread, no server and no lock
\* behind, through whichever jump to "finish" (Main.c:584-632).
CleanExit ==
    pc = "exited" => httpServers = Null /\ ~cron /\ ~job /\ ~db /\ tConfig # "ok"

\* A signal handled while all listeners serve ends this life of the program:
\* the last server is told to stop after all others, and the joins, the job and
\* the rest of "finish" follow (docs/user/usage.md:41-46).
SignalEndsLife ==
    (pc = "join" /\ httpServers[Listeners].stop) ~> pc \in {"start", "exited", "killed"}

\* docs/user/usage.md:44 and docs/user/admin/proc.md:37: SIGTERM and SIGINT
\* "perform a clean shutdown", "the Telodendria process exits"; it does not
\* begin another life.
ShutdownHonoured == shutdown => pc # "start"

\* Main.c:237-242 and docs/user/setup.md:22-28: with the default configuration
\* comes a token that lets an administrator register, found in the log.
AdminTokenAvailable == pc = "join" => tokenFile = "complete" /\ announced
=============================================================================
