-------------------------- MODULE Lifecycle_proofs --------------------------
(***************************************************************************)
(* Proofs about module Lifecycle, for any number of listeners, starts,     *)
(* restarts, signals, errors and crashes.                                  *)
(***************************************************************************)
EXTENDS Lifecycle, TLAPS

\* Positions before there are servers.
Early == {"open", "bootstrap", "createToken", "closeToken", "load", "log", "pid"}

\* The two halves of TypeOK, the second with the number of servers.
FlagsInv ==
    /\ pc \in Position
    /\ restart \in BOOLEAN /\ handlers \in BOOLEAN /\ shutdown \in BOOLEAN
    /\ token \in BOOLEAN /\ announced \in BOOLEAN
    /\ cron \in BOOLEAN /\ job \in BOOLEAN /\ db \in BOOLEAN
    /\ tConfig \in {"unset", "ok", "notOk"}
    /\ configFile \in File /\ tokenFile \in File

ServersInv ==
    /\ httpServers # Null =>
          httpServers \in Seq(Server) /\ Len(httpServers) <= Listeners
    /\ index \in 0..Listeners

\* The missing configuration stands for the token still to be created.
TokenOnce ==
    /\ created \in 0..1
    /\ configFile = "missing" \/ pc = "createToken" => created = 0

\* Nothing is left of the servers once the jobs are stopped.
CleanServers ==
    pc \in {"stopJobs", "unlock", "close", "exited"} => httpServers = Null

\* The lock is only taken while there are no servers, and given back before
\* the first one runs.
LockInv ==
    /\ RequestsCanLock
    /\ CleanServers
    /\ pc \in Early => httpServers = Null
    /\ pc = "bind" => \A k \in DOMAIN httpServers : httpServers[k].state = "bound"
    /\ pc \in {"jobs", "router", "serve", "join", "close", "exited"} => tConfig # "ok"

\* The scheduler lives between StartJobs and StopJobs, the job no longer.
JobInv ==
    /\ Alive /\ (cron \/ job) => db
    /\ pc \in Early \union {"start", "bind", "jobs", "unlock", "close", "exited"}
          => ~cron /\ ~job
    /\ pc \in (Early \ {"open"}) \union {"bind", "jobs", "router", "serve", "join"}
          => db
    /\ pc = "exited" => ~db

\* What the positions from "bind" to "join" have reached.
ReadyInv ==
    /\ pc \in Early \union {"bind", "jobs", "router"} => index = 0
    /\ pc = "bind" => httpServers \in Seq(Server) /\ Len(httpServers) <= Listeners
    /\ pc \in {"jobs", "router", "serve", "join"} =>
          httpServers \in Seq(Server) /\ Len(httpServers) = Listeners
    /\ pc = "serve" => \A k \in 1..index : httpServers[k].state = "running"
    /\ pc = "join" =>
          handlers /\ \A k \in 1..Listeners : httpServers[k].state = "running"
    /\ pc \in {"router", "serve", "join"} => cron
    /\ pc \in {"log", "pid", "bind", "jobs", "router", "serve", "join"}
          => configFile = "complete"

\* The inductive invariant: what each property needs to know of the positions
\* before it, and of the array of servers.
IInv == FlagsInv /\ ServersInv /\ TokenOnce /\ LockInv /\ JobInv /\ ReadyInv

USE LifecycleAssumption DEF At, Goto, Fail, disk, servers, local, async

-----------------------------------------------------------------------------

\* The signal handler only sets flags: no server comes, goes or changes state.
LEMMA StopServersKeeps ==
  ASSUME httpServers \in Seq(Server)
  PROVE  /\ StopServers \in Seq(Server)
         /\ Len(StopServers) = Len(httpServers)
         /\ DOMAIN StopServers = DOMAIN httpServers
         /\ \A k \in DOMAIN httpServers :
               StopServers[k].state = httpServers[k].state
<1>1. \A k \in DOMAIN httpServers : httpServers[k] \in Server
  OBVIOUS
<1>2. \A s \in Server : Stopped(s) \in Server /\ Stopped(s).state = s.state
  BY DEF Server, Stopped
<1>3. DOMAIN httpServers = 1..Len(httpServers) /\ Len(httpServers) \in Nat
  OBVIOUS
<1>4. StopServers \in [1..Len(httpServers) -> Server]
  BY <1>1, <1>2, <1>3 DEF StopServers
<1>5. StopServers \in Seq(Server) /\ Len(StopServers) = Len(httpServers)
  BY <1>3, <1>4
<1> QED BY <1>1, <1>2, <1>3, <1>5 DEF StopServers

\* A new server comes to the end of the array.
LEMMA AppendServer ==
  ASSUME NEW s \in Seq(Server)
  PROVE  LET t == Append(s, [state |-> "bound", stop |-> FALSE])
         IN  /\ t \in Seq(Server)
             /\ Len(t) = Len(s) + 1
             /\ \A k \in 1..Len(s) : t[k] = s[k]
             /\ t[Len(s) + 1].state = "bound"
<1>1. [state |-> "bound", stop |-> FALSE] \in Server
  BY DEF Server
<1> QED BY <1>1

\* The array is there and empty, or Main gives up.
LEMMA WritePidStep ==
  ASSUME WritePid
  PROVE  /\ pc = "pid"
         /\ UNCHANGED <<index, handlers, tConfig, cron, configFile>>
         /\ \/ /\ pc' = "bind"
               /\ httpServers' \in Seq(Server) /\ Len(httpServers') = 0
               /\ DOMAIN httpServers' = {}
            \/ pc' = "finish" /\ UNCHANGED httpServers
<1>1. <<>> \in Seq(Server) /\ Len(<<>>) = 0
  OBVIOUS
<1>2. CASE pc' = "bind" /\ httpServers' = <<>>
  <2>1. /\ httpServers' \in Seq(Server) /\ Len(httpServers') = 0
        /\ DOMAIN httpServers' = {}
    BY <1>1, <1>2
  <2> QED BY <2>1, <1>2 DEF WritePid
<1>3. CASE pc' = "finish" /\ UNCHANGED httpServers
  BY <1>3 DEF WritePid
<1> QED BY <1>2, <1>3 DEF WritePid

\* An assignment to one server leaves the others alone.
LEMMA ReplaceServer ==
  ASSUME NEW s \in Seq(Server), NEW k \in 1..Len(s), NEW v \in Server
  PROVE  LET t == [s EXCEPT ![k] = v]
         IN  /\ t \in Seq(Server)
             /\ Len(t) = Len(s)
             /\ t[k] = v
             /\ \A j \in 1..Len(s) : j # k => t[j] = s[j]
  OBVIOUS

\* The same for the change of its state that HttpServerStart makes.
LEMMA RunServer ==
  ASSUME NEW s \in Seq(Server), NEW k \in 1..Len(s)
  PROVE  LET t == [s EXCEPT ![k].state = "running"]
         IN  /\ t \in Seq(Server)
             /\ Len(t) = Len(s)
             /\ t[k].state = "running"
             /\ \A j \in 1..Len(s) : j # k => t[j] = s[j]
<1> DEFINE v == [s[k] EXCEPT !.state = "running"]
<1>1. s[k] \in Server
  OBVIOUS
<1>2. v \in Server /\ v.state = "running"
  BY <1>1 DEF Server
<1>3. [s EXCEPT ![k].state = "running"] = [s EXCEPT ![k] = v]
  OBVIOUS
<1> HIDE DEF v
<1> QED BY <1>2, <1>3, ReplaceServer

\* The same for HttpServerFree.
LEMMA FreeOneServer ==
  ASSUME NEW s \in Seq(Server), NEW k \in 1..Len(s)
  PROVE  LET t == [s EXCEPT ![k] = [state |-> "freed", stop |-> TRUE]]
         IN  t \in Seq(Server) /\ Len(t) = Len(s)
<1>1. [state |-> "freed", stop |-> TRUE] \in Server
  BY DEF Server
<1> QED BY <1>1, ReplaceServer

\* One more server is there, or Main gives up.
LEMMA BindStep ==
  ASSUME Bind, httpServers \in Seq(Server)
  PROVE  /\ pc = "bind"
         /\ UNCHANGED <<index, handlers, tConfig, cron, configFile>>
         /\ httpServers' \in Seq(Server)
         /\ DOMAIN httpServers = 1..Len(httpServers)
         /\ DOMAIN httpServers' = 1..Len(httpServers')
         /\ \/ /\ pc' = pc
               /\ Len(httpServers') = Len(httpServers) + 1
               /\ Len(httpServers') <= Listeners
               /\ \A k \in 1..Len(httpServers) : httpServers'[k] = httpServers[k]
               /\ httpServers'[Len(httpServers) + 1].state = "bound"
            \/ pc' = "finish" /\ UNCHANGED httpServers
<1> DEFINE t == Append(httpServers, [state |-> "bound", stop |-> FALSE])
<1>1. /\ t \in Seq(Server) /\ Len(t) = Len(httpServers) + 1
      /\ \A k \in 1..Len(httpServers) : t[k] = httpServers[k]
      /\ t[Len(httpServers) + 1].state = "bound"
  BY AppendServer
<1>2. /\ pc = "bind" /\ Len(httpServers) < Listeners
      /\ UNCHANGED <<index, handlers, tConfig, cron, configFile>>
      /\ \/ httpServers' = t /\ UNCHANGED pc
         \/ pc' = "finish" /\ UNCHANGED httpServers
  BY DEF Bind
<1>3. DOMAIN httpServers = 1..Len(httpServers)
  OBVIOUS
<1>4. DOMAIN t = 1..Len(t)
  BY <1>1
<1> HIDE DEF t
<1> QED BY <1>1, <1>2, <1>3, <1>4

\* One more server runs, or Main gives up.
LEMMA ServeStep ==
  ASSUME Serve, httpServers \in Seq(Server), Len(httpServers) = Listeners,
         index \in Nat
  PROVE  /\ pc = "serve"
         /\ UNCHANGED <<handlers, cron, configFile>>
         /\ httpServers' \in Seq(Server) /\ Len(httpServers') = Listeners
         /\ \/ /\ pc' = "finish" /\ index' = 0
            \/ /\ pc' = pc /\ index' = index + 1 /\ index' <= Listeners
               /\ httpServers'[index'].state = "running"
               /\ \A k \in 1..index : httpServers'[k] = httpServers[k]
<1>1. index < Listeners /\ pc = "serve" /\ UNCHANGED <<handlers, cron, configFile>>
  BY DEF Serve
<1>2. CASE Fail /\ index' = 0 /\ UNCHANGED httpServers
  BY <1>1, <1>2
<1>3. CASE /\ httpServers' = [httpServers EXCEPT ![index + 1].state = "running"]
           /\ index' = index + 1
           /\ UNCHANGED pc
  <2>1. index + 1 \in 1..Len(httpServers)
    BY <1>1
  <2> DEFINE t == [httpServers EXCEPT ![index + 1].state = "running"]
  <2>2. /\ t \in Seq(Server) /\ Len(t) = Len(httpServers)
        /\ t[index + 1].state = "running"
        /\ \A j \in 1..Len(httpServers) : j # index + 1 => t[j] = httpServers[j]
    BY <2>1, RunServer
  <2> HIDE DEF t
  <2> QED BY <1>1, <1>3, <2>2 DEF t
<1> QED BY <1>2, <1>3 DEF Serve

\* The program starts in the invariant.
LEMMA InitHolds == Init => IInv
<1> SUFFICES ASSUME Init PROVE IInv
  OBVIOUS
<1> USE DEF Init, Early, Alive
<1>1. FlagsInv
  BY DEF FlagsInv, Position, File
<1>2. ServersInv
  BY DEF ServersInv
<1>3. TokenOnce
  BY DEF TokenOnce
<1>4. LockInv
  BY DEF LockInv, RequestsCanLock, CleanServers
<1>5. JobInv
  BY DEF JobInv
<1>6. ReadyInv
  BY DEF ReadyInv
<1> QED BY <1>1, <1>2, <1>3, <1>4, <1>5, <1>6 DEF IInv

\* Every step keeps the types of what is no server.
LEMMA FlagsKept == IInv /\ [Next]_vars => FlagsInv'
<1> SUFFICES ASSUME IInv, [Next]_vars PROVE FlagsInv'
  OBVIOUS
<1> USE DEF IInv, FlagsInv, Position, File
<1>1. CASE Start
  BY <1>1 DEF Start
<1>2. CASE Open
  <2>1. UNCHANGED <<restart, handlers, shutdown, token, announced,
                    cron, job, tConfig, configFile, tokenFile>>
    BY <1>2 DEF Open
  <2>2. pc' \in Position
    BY <1>2 DEF Open
  <2>3. db' \in BOOLEAN
    BY <1>2 DEF Open
  <2> QED BY <2>1, <2>2, <2>3
<1>3. CASE Bootstrap
  BY <1>3 DEF Bootstrap
<1>4. CASE CreateToken
  BY <1>4 DEF CreateToken
<1>5. CASE CloseToken
  BY <1>5 DEF CloseToken
<1>6. CASE Load
  BY <1>6 DEF Load
<1>7. CASE OpenLog
  <2>1. UNCHANGED <<restart, handlers, shutdown, cron,
                    job, db, tConfig, configFile, tokenFile>>
    BY <1>7 DEF OpenLog
  <2>2. pc' \in Position
    BY <1>7 DEF OpenLog
  <2>3. token' \in BOOLEAN
    BY <1>7 DEF OpenLog
  <2>4. announced' \in BOOLEAN
    BY <1>7 DEF OpenLog
  <2> QED BY <2>1, <2>2, <2>3, <2>4
<1>8. CASE WritePid
  BY <1>8 DEF WritePid
<1>9. CASE Bind
  BY <1>9 DEF Bind
<1>10. CASE DropPrivileges
  BY <1>10 DEF DropPrivileges
<1>11. CASE StartJobs
  <2>1. UNCHANGED <<restart, handlers, shutdown, token, announced,
                    job, db, tConfig, configFile, tokenFile>>
    BY <1>11 DEF StartJobs
  <2>2. pc' \in Position
    BY <1>11 DEF StartJobs
  <2>3. cron' \in BOOLEAN
    BY <1>11 DEF StartJobs
  <2> QED BY <2>1, <2>2, <2>3
<1>12. CASE BuildRouter
  BY <1>12 DEF BuildRouter
<1>13. CASE Serve
  BY <1>13 DEF Serve
<1>14. CASE InstallHandlers
  <2>1. UNCHANGED <<restart, shutdown, token, announced, cron,
                    job, db, tConfig, configFile, tokenFile>>
    BY <1>14 DEF InstallHandlers
  <2>2. pc' \in Position
    BY <1>14 DEF InstallHandlers
  <2>3. handlers' \in BOOLEAN
    BY <1>14 DEF InstallHandlers
  <2> QED BY <2>1, <2>2, <2>3
<1>15. CASE Join
  BY <1>15 DEF Join
<1>16. CASE FreeServer
  BY <1>16 DEF FreeServer
<1>17. CASE FreeServers
  BY <1>17 DEF FreeServers
<1>18. CASE StopJobs
  BY <1>18 DEF StopJobs
<1>19. CASE Unlock
  BY <1>19 DEF Unlock
<1>20. CASE Close
  <2>1. UNCHANGED <<restart, handlers, shutdown, token, announced, cron,
                    job, tConfig, configFile, tokenFile>>
    BY <1>20 DEF Close
  <2>2. pc' \in Position
    BY <1>20 DEF Close
  <2>3. db' \in BOOLEAN
    BY <1>20 DEF Close
  <2> QED BY <2>1, <2>2, <2>3
<1>21. ASSUME NEW signal \in {"USR1", "TERM"}, SignalHandler(signal)
      PROVE  FlagsInv'
  BY <1>21 DEF SignalHandler
<1>22. CASE JobBegin
  BY <1>22 DEF JobBegin
<1>23. CASE JobEnd
  <2>1. UNCHANGED <<pc, restart, handlers, shutdown, token,
                    announced, cron, db, tConfig, configFile, tokenFile>>
    BY <1>23 DEF JobEnd
  <2>2. job' \in BOOLEAN
    BY <1>23 DEF JobEnd
  <2> QED BY <2>1, <2>2
<1>24. CASE Crash
  BY <1>24 DEF Crash
<1>25. CASE Boot
  BY <1>25 DEF Boot
<1>26. CASE UNCHANGED vars
  BY <1>26 DEF vars
<1> QED
  BY <1>1, <1>2, <1>3, <1>4, <1>5, <1>6, <1>7, <1>8, <1>9, <1>10, <1>11,
     <1>12, <1>13, <1>14, <1>15, <1>16, <1>17, <1>18, <1>19, <1>20, <1>21,
     <1>22, <1>23, <1>24, <1>25, <1>26
  DEF Next, Main

\* The loops of Main stay within their array, and a signal keeps its length.
LEMMA ServersKept == IInv /\ [Next]_vars => ServersInv'
<1> SUFFICES ASSUME IInv, [Next]_vars PROVE ServersInv'
  OBVIOUS
<1> USE DEF IInv, ServersInv
<1>1. CASE Start
  BY <1>1 DEF Start
<1>2. CASE Open
  BY <1>2 DEF Open
<1>3. CASE Bootstrap
  BY <1>3 DEF Bootstrap
<1>4. CASE CreateToken
  BY <1>4 DEF CreateToken
<1>5. CASE CloseToken
  BY <1>5 DEF CloseToken
<1>6. CASE Load
  BY <1>6 DEF Load
<1>7. CASE OpenLog
  BY <1>7 DEF OpenLog
<1>8. CASE WritePid
  BY <1>8, WritePidStep
<1>9. CASE Bind
  <2>1. pc = "bind"
    BY <1>9 DEF Bind
  <2>2. httpServers \in Seq(Server)
    BY <2>1 DEF ReadyInv
  <2> QED BY <1>9, <2>1, <2>2, BindStep DEF ReadyInv
<1>10. CASE DropPrivileges
  BY <1>10 DEF DropPrivileges
<1>11. CASE StartJobs
  BY <1>11 DEF StartJobs
<1>12. CASE BuildRouter
  BY <1>12 DEF BuildRouter
<1>13. CASE Serve
  <2>1. pc = "serve"
    BY <1>13 DEF Serve
  <2>2. httpServers \in Seq(Server) /\ Len(httpServers) = Listeners /\ index \in Nat
    BY <2>1 DEF ReadyInv
  <2> QED BY <1>13, <2>1, <2>2, ServeStep DEF ReadyInv
<1>14. CASE InstallHandlers
  BY <1>14 DEF InstallHandlers
<1>15. CASE Join
  BY <1>15 DEF Join
<1>16. CASE FreeServer
  BY <1>16, FreeOneServer DEF FreeServer
<1>17. CASE FreeServers
  BY <1>17 DEF FreeServers
<1>18. CASE StopJobs
  BY <1>18 DEF StopJobs
<1>19. CASE Unlock
  BY <1>19 DEF Unlock
<1>20. CASE Close
  BY <1>20 DEF Close
<1>21. ASSUME NEW signal \in {"USR1", "TERM"}, SignalHandler(signal)
      PROVE  ServersInv'
  BY <1>21, StopServersKeeps DEF SignalHandler
<1>22. CASE JobBegin
  BY <1>22 DEF JobBegin
<1>23. CASE JobEnd
  BY <1>23 DEF JobEnd
<1>24. CASE Crash
  BY <1>24 DEF Crash
<1>25. CASE Boot
  BY <1>25 DEF Boot
<1>26. CASE UNCHANGED vars
  BY <1>26 DEF vars
<1> QED
  BY <1>1, <1>2, <1>3, <1>4, <1>5, <1>6, <1>7, <1>8, <1>9, <1>10, <1>11,
     <1>12, <1>13, <1>14, <1>15, <1>16, <1>17, <1>18, <1>19, <1>20, <1>21,
     <1>22, <1>23, <1>24, <1>25, <1>26
  DEF Next, Main

\* Only a start that finds no configuration creates a token, and it leaves one.
LEMMA TokenKept == IInv /\ [Next]_vars => TokenOnce'
<1> SUFFICES ASSUME IInv, [Next]_vars PROVE TokenOnce'
  OBVIOUS
<1> USE DEF IInv, TokenOnce
<1>1. CASE Start
  BY <1>1 DEF Start
<1>2. CASE Open
  BY <1>2 DEF Open
<1>3. CASE Bootstrap
  BY <1>3 DEF Bootstrap
<1>4. CASE CreateToken
  BY <1>4 DEF CreateToken
<1>5. CASE CloseToken
  BY <1>5 DEF CloseToken
<1>6. CASE Load
  BY <1>6 DEF Load
<1>7. CASE OpenLog
  BY <1>7 DEF OpenLog
<1>8. CASE WritePid
  BY <1>8 DEF WritePid
<1>9. CASE Bind
  BY <1>9 DEF Bind
<1>10. CASE DropPrivileges
  BY <1>10 DEF DropPrivileges
<1>11. CASE StartJobs
  BY <1>11 DEF StartJobs
<1>12. CASE BuildRouter
  BY <1>12 DEF BuildRouter
<1>13. CASE Serve
  BY <1>13 DEF Serve
<1>14. CASE InstallHandlers
  BY <1>14 DEF InstallHandlers
<1>15. CASE Join
  BY <1>15 DEF Join
<1>16. CASE FreeServer
  BY <1>16 DEF FreeServer
<1>17. CASE FreeServers
  BY <1>17 DEF FreeServers
<1>18. CASE StopJobs
  BY <1>18 DEF StopJobs
<1>19. CASE Unlock
  BY <1>19 DEF Unlock
<1>20. CASE Close
  BY <1>20 DEF Close
<1>21. ASSUME NEW signal \in {"USR1", "TERM"}, SignalHandler(signal)
      PROVE  TokenOnce'
  BY <1>21 DEF SignalHandler
<1>22. CASE JobBegin
  BY <1>22 DEF JobBegin
<1>23. CASE JobEnd
  BY <1>23 DEF JobEnd
<1>24. CASE Crash
  BY <1>24 DEF Crash
<1>25. CASE Boot
  BY <1>25 DEF Boot
<1>26. CASE UNCHANGED vars
  BY <1>26 DEF vars
<1> QED
  BY <1>1, <1>2, <1>3, <1>4, <1>5, <1>6, <1>7, <1>8, <1>9, <1>10, <1>11,
     <1>12, <1>13, <1>14, <1>15, <1>16, <1>17, <1>18, <1>19, <1>20, <1>21,
     <1>22, <1>23, <1>24, <1>25, <1>26
  DEF Next, Main

\* No step makes a server run behind a held lock, or leaves one to the end.
LEMMA LockKept == IInv /\ [Next]_vars => LockInv'
<1> SUFFICES ASSUME IInv, [Next]_vars PROVE LockInv'
  OBVIOUS
<1> USE DEF IInv, ServersInv, LockInv, RequestsCanLock, CleanServers, Early, Alive
<1>1. CASE Start
  BY <1>1 DEF Start
<1>2. CASE Open
  BY <1>2 DEF Open
<1>3. CASE Bootstrap
  BY <1>3 DEF Bootstrap
<1>4. CASE CreateToken
  BY <1>4 DEF CreateToken
<1>5. CASE CloseToken
  BY <1>5 DEF CloseToken
<1>6. CASE Load
  BY <1>6 DEF Load
<1>7. CASE OpenLog
  BY <1>7 DEF OpenLog
<1>8. CASE WritePid
  BY <1>8, WritePidStep
<1>9. CASE Bind
  <2>1. pc = "bind"
    BY <1>9 DEF Bind
  <2>2. httpServers \in Seq(Server)
    BY <2>1 DEF ReadyInv
  <2>3. CASE pc' = "finish" /\ UNCHANGED httpServers
    BY <1>9, <2>1, <2>2, <2>3, BindStep
  <2>4. CASE pc' = pc /\ ~UNCHANGED httpServers
    <3>1. \A k \in DOMAIN httpServers' : httpServers'[k].state = "bound"
      BY <1>9, <2>1, <2>2, <2>4, BindStep
    <3> QED BY <2>1, <2>4, <3>1
  <2> QED BY <1>9, <2>1, <2>2, <2>3, <2>4, BindStep
<1>10. CASE DropPrivileges
  BY <1>10 DEF DropPrivileges
<1>11. CASE StartJobs
  BY <1>11 DEF StartJobs
<1>12. CASE BuildRouter
  BY <1>12 DEF BuildRouter
<1>13. CASE Serve
  BY <1>13 DEF Serve
<1>14. CASE InstallHandlers
  BY <1>14 DEF InstallHandlers
<1>15. CASE Join
  BY <1>15 DEF Join
<1>16. CASE FreeServer
  BY <1>16 DEF FreeServer
<1>17. CASE FreeServers
  BY <1>17 DEF FreeServers
<1>18. CASE StopJobs
  BY <1>18 DEF StopJobs
<1>19. CASE Unlock
  BY <1>19 DEF Unlock
<1>20. CASE Close
  BY <1>20 DEF Close
<1>21. ASSUME NEW signal \in {"USR1", "TERM"}, SignalHandler(signal)
      PROVE  LockInv'
  BY <1>21, StopServersKeeps DEF SignalHandler
<1>22. CASE JobBegin
  BY <1>22 DEF JobBegin
<1>23. CASE JobEnd
  BY <1>23 DEF JobEnd
<1>24. CASE Crash
  BY <1>24 DEF Crash
<1>25. CASE Boot
  BY <1>25 DEF Boot
<1>26. CASE UNCHANGED vars
  BY <1>26 DEF vars
<1> QED
  BY <1>1, <1>2, <1>3, <1>4, <1>5, <1>6, <1>7, <1>8, <1>9, <1>10, <1>11,
     <1>12, <1>13, <1>14, <1>15, <1>16, <1>17, <1>18, <1>19, <1>20, <1>21,
     <1>22, <1>23, <1>24, <1>25, <1>26
  DEF Next, Main

\* Whatever the job does, it is gone before the database is closed.
LEMMA JobsKept == IInv /\ [Next]_vars => JobInv'
<1> SUFFICES ASSUME IInv, [Next]_vars PROVE JobInv'
  OBVIOUS
<1> USE DEF IInv, FlagsInv, JobInv, Early, Alive
<1>1. CASE Start
  BY <1>1 DEF Start
<1>2. CASE Open
  BY <1>2 DEF Open
<1>3. CASE Bootstrap
  BY <1>3 DEF Bootstrap
<1>4. CASE CreateToken
  BY <1>4 DEF CreateToken
<1>5. CASE CloseToken
  BY <1>5 DEF CloseToken
<1>6. CASE Load
  BY <1>6 DEF Load
<1>7. CASE OpenLog
  BY <1>7 DEF OpenLog
<1>8. CASE WritePid
  BY <1>8 DEF WritePid
<1>9. CASE Bind
  BY <1>9 DEF Bind
<1>10. CASE DropPrivileges
  BY <1>10 DEF DropPrivileges
<1>11. CASE StartJobs
  BY <1>11 DEF StartJobs
<1>12. CASE BuildRouter
  BY <1>12 DEF BuildRouter
<1>13. CASE Serve
  BY <1>13 DEF Serve
<1>14. CASE InstallHandlers
  BY <1>14 DEF InstallHandlers
<1>15. CASE Join
  BY <1>15 DEF Join
<1>16. CASE FreeServer
  BY <1>16 DEF FreeServer
<1>17. CASE FreeServers
  BY <1>17 DEF FreeServers
<1>18. CASE StopJobs
  BY <1>18 DEF StopJobs
<1>19. CASE Unlock
  BY <1>19 DEF Unlock
<1>20. CASE Close
  BY <1>20 DEF Close
<1>21. ASSUME NEW signal \in {"USR1", "TERM"}, SignalHandler(signal)
      PROVE  JobInv'
  BY <1>21 DEF SignalHandler
<1>22. CASE JobBegin
  BY <1>22 DEF JobBegin
<1>23. CASE JobEnd
  BY <1>23 DEF JobEnd
<1>24. CASE Crash
  BY <1>24 DEF Crash
<1>25. CASE Boot
  BY <1>25 DEF Boot
<1>26. CASE UNCHANGED vars
  BY <1>26 DEF vars
<1> QED
  BY <1>1, <1>2, <1>3, <1>4, <1>5, <1>6, <1>7, <1>8, <1>9, <1>10, <1>11,
     <1>12, <1>13, <1>14, <1>15, <1>16, <1>17, <1>18, <1>19, <1>20, <1>21,
     <1>22, <1>23, <1>24, <1>25, <1>26
  DEF Next, Main

\* Bind and Serve leave no server out, and a signal takes none away.
LEMMA ReadyKept == IInv /\ [Next]_vars => ReadyInv'
<1> SUFFICES ASSUME IInv, [Next]_vars PROVE ReadyInv'
  OBVIOUS
<1> USE DEF IInv, ServersInv, ReadyInv, Early
<1>1. CASE Start
  BY <1>1 DEF Start
<1>2. CASE Open
  BY <1>2 DEF Open
<1>3. CASE Bootstrap
  BY <1>3 DEF Bootstrap
<1>4. CASE CreateToken
  BY <1>4 DEF CreateToken
<1>5. CASE CloseToken
  BY <1>5 DEF CloseToken
<1>6. CASE Load
  BY <1>6 DEF Load
<1>7. CASE OpenLog
  BY <1>7 DEF OpenLog
<1>8. CASE WritePid
  BY <1>8, WritePidStep
<1>9. CASE Bind
  <2>1. pc = "bind"
    BY <1>9 DEF Bind
  <2>2. httpServers \in Seq(Server)
    BY <2>1
  <2> QED BY <1>9, <2>1, <2>2, BindStep
<1>10. CASE DropPrivileges
  BY <1>10 DEF DropPrivileges
<1>11. CASE StartJobs
  BY <1>11 DEF StartJobs
<1>12. CASE BuildRouter
  BY <1>12 DEF BuildRouter
<1>13. CASE Serve
  <2>1. pc = "serve"
    BY <1>13 DEF Serve
  <2>2. httpServers \in Seq(Server) /\ Len(httpServers) = Listeners /\ index \in Nat
    BY <2>1
  <2> QED BY <1>13, <2>1, <2>2, ServeStep
<1>14. CASE InstallHandlers
  BY <1>14 DEF InstallHandlers
<1>15. CASE Join
  BY <1>15 DEF Join
<1>16. CASE FreeServer
  BY <1>16 DEF FreeServer
<1>17. CASE FreeServers
  BY <1>17 DEF FreeServers
<1>18. CASE StopJobs
  BY <1>18 DEF StopJobs
<1>19. CASE Unlock
  BY <1>19 DEF Unlock
<1>20. CASE Close
  BY <1>20 DEF Close
<1>21. ASSUME NEW signal \in {"USR1", "TERM"}, SignalHandler(signal)
      PROVE  ReadyInv'
  BY <1>21, StopServersKeeps DEF SignalHandler
<1>22. CASE JobBegin
  BY <1>22 DEF JobBegin
<1>23. CASE JobEnd
  BY <1>23 DEF JobEnd
<1>24. CASE Crash
  BY <1>24 DEF Crash
<1>25. CASE Boot
  BY <1>25 DEF Boot
<1>26. CASE UNCHANGED vars
  BY <1>26 DEF vars
<1> QED
  BY <1>1, <1>2, <1>3, <1>4, <1>5, <1>6, <1>7, <1>8, <1>9, <1>10, <1>11,
     <1>12, <1>13, <1>14, <1>15, <1>16, <1>17, <1>18, <1>19, <1>20, <1>21,
     <1>22, <1>23, <1>24, <1>25, <1>26
  DEF Next, Main

-----------------------------------------------------------------------------

\* The inductive invariant holds of every behaviour of the daemon.
THEOREM LifecycleInvariant == Spec => []IInv
<1>1. IInv /\ [Next]_vars => IInv'
  BY FlagsKept, ServersKept, TokenKept, LockKept, JobsKept, ReadyKept DEF IInv
<1> QED BY <1>1, InitHolds, PTL DEF Spec

\* Every variable of Main keeps its type.
THEOREM LifecycleTypes == Spec => []TypeOK
<1>1. IInv => TypeOK
  BY DEF IInv, FlagsInv, ServersInv, TypeOK, TokenOnce
<1> QED BY <1>1, LifecycleInvariant, PTL

\* However often the program crashes and starts, it creates one administrator
\* token at most (Main.c:233-262).
THEOREM TokenCreatedOnce == Spec => []OneAdminToken
<1>1. IInv => OneAdminToken
  BY DEF IInv, TokenOnce, OneAdminToken
<1> QED BY <1>1, LifecycleInvariant, PTL

\* The database outlives the scheduled job (Main.c:600-606).
THEOREM JobsSafe == Spec => []JobsHaveDatabase
<1>1. IInv => JobsHaveDatabase
  BY DEF IInv, JobInv, JobsHaveDatabase
<1> QED BY <1>1, LifecycleInvariant, PTL

\* Nothing outlives a return from Main (Main.c:584-632).
THEOREM CleanEnd == Spec => []CleanExit
<1>1. IInv => CleanExit
  BY DEF IInv, JobInv, LockInv, CleanServers, CleanExit
<1> QED BY <1>1, LifecycleInvariant, PTL

\* With any number of listeners, no server runs behind a lock that Main keeps,
\* and Main waits for signals only when all of them run and everything is in
\* place (Main.c:503-577).
THEOREM ReadyWhenServing == Spec => []ServingMeansReady
<1>1. IInv => ServingMeansReady
  BY DEF IInv, LockInv, JobInv, ReadyInv, ServingMeansReady
<1> QED BY <1>1, LifecycleInvariant, PTL
=============================================================================
