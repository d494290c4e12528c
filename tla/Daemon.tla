------------------------------- MODULE Daemon -------------------------------
(***************************************************************************)
(* The storage daemon and the shells that share it: how a shell finds,     *)
(* replaces or starts a daemon (pkg/daemon/activate.go), how its client    *)
(* reconnects (pkg/daemon/client.go), and how a daemon lives and ends      *)
(* (pkg/daemon/server.go).  Shells and daemons are processes that meet     *)
(* through one socket file and one database lock.                          *)
(***************************************************************************)
EXTENDS Naturals, FiniteSets

CONSTANTS
    Shells,
    NDaemons,     \* bound: daemon processes that may be spawned
    Outdated,     \* the daemon of an older version that may run when a behaviour starts
    None,
    Scenarios     \* what behaviours start with: whether an outdated daemon runs, whether
                  \* daemons come up and end within the time limits of Activate, and how
                  \* many other faults (crashes, failing calls of spawn and Accept) happen

Daemons == 1..NDaemons

ASSUME DaemonAssumption ==
    /\ NDaemons \in Nat /\ Outdated \subseteq Daemons /\ Cardinality(Outdated) <= 1
    /\ None \notin Daemons \cup Shells
    /\ Scenarios \subseteq [outdated : BOOLEAN, timely : BOOLEAN, faults : Nat]
    /\ \A sc \in Scenarios : sc.outdated => Outdated # {}

VARIABLES
    file,       \* the daemon that bound the socket file, or None if there is no file
    lock,       \* the daemon that holds the lock of the database, or None
    dpc,        \* where each daemon is
    store,      \* daemons that opened the database
    deaf,       \* daemons whose accepting goroutine has ended
    signals,    \* daemons with a SIGINT in sigCh
    backlog,    \* connections the kernel keeps for a daemon, each named by its shell
    connCh, conns,   \* the channel and the map of that name in Serve
    spc,        \* where each shell is
    rpc,        \* the remote method detectDaemon or killDaemon is calling
    attempt,    \* the attempt of client.call
    spawned,    \* whether the shell is in the loop that waits for a spawned daemon
    conn,       \* the daemon client.rpcClient is connected to, or None
    target,     \* the pid killDaemon has got
    timely,     \* no time limit of Activate expires
    faults,     \* how many other faults may still happen
    served      \* history: the daemons that have served a shell

env == <<timely, faults, served>>
daemonVars == <<dpc, store, deaf, signals, backlog, connCh, conns>>
serverVars == <<daemonVars, env>>
shellVars == <<spc, rpc, attempt, spawned, conn, target>>
vars == <<file, lock, serverVars, shellVars>>

retriesOnShutdown == 3

TypeOK ==
    /\ file \in Daemons \cup {None} /\ lock \in Daemons \cup {None}
    /\ dpc \in [Daemons -> {"unborn", "bind", "listen", "open", "serve", "remove",
                            "closeStore", "closeListener", "dead"}]
    /\ store \subseteq Daemons /\ deaf \subseteq Daemons /\ signals \subseteq Daemons
    /\ backlog \in [Daemons -> SUBSET Shells]
    /\ connCh \in [Daemons -> SUBSET Shells] /\ conns \in [Daemons -> SUBSET (Shells \cup {None})]
    /\ \A d \in Daemons : backlog[d] \cap connCh[d] = {}
                          /\ (backlog[d] \cup connCh[d]) \cap conns[d] = {}
    /\ spc \in [Shells -> {"lstat", "dial", "call", "remove", "signal", "killwait",
                           "spawn", "poll", "ok", "failed", "gone"}]
    /\ rpc \in [Shells -> {"Version", "Pid"}]
    /\ attempt \in [Shells -> 0..retriesOnShutdown - 1]
    /\ spawned \in [Shells -> BOOLEAN]
    /\ conn \in [Shells -> Daemons \cup {None}] /\ target \in [Shells -> Daemons \cup {None}]
    /\ faults \in Nat /\ timely \in BOOLEAN /\ served \subseteq Daemons

\* Either no daemon runs, or an outdated one serves a shell of its own version, which is
\* no further modelled and stands as None among its connections.
Init ==
    /\ \E sc \in Scenarios :
         /\ file \in (IF sc.outdated THEN Outdated ELSE {None})
         /\ timely = sc.timely /\ faults = sc.faults
    /\ dpc = [d \in Daemons |-> IF d = file THEN "serve" ELSE IF d \in Outdated THEN "dead" ELSE "unborn"]
    /\ lock = file /\ store = {file} \ {None} /\ served = store /\ deaf = {} /\ signals = {}
    /\ backlog = [d \in Daemons |-> {}]
    /\ connCh = [d \in Daemons |-> {}] /\ conns = [d \in Daemons |-> IF d = file THEN {None} ELSE {}]
    /\ spc = [s \in Shells |-> "lstat"] /\ rpc = [s \in Shells |-> "Version"]
    /\ attempt = [s \in Shells |-> 0] /\ spawned = [s \in Shells |-> FALSE]
    /\ conn = [s \in Shells |-> None] /\ target = [s \in Shells |-> None]

\* One of the faults that are counted.
Fault == faults > 0 /\ faults' = faults - 1 /\ UNCHANGED <<timely, served>>

-----------------------------------------------------------------------------
(* Activate, in a shell.                                                   *)

Goto(s, l) == spc' = [spc EXCEPT ![s] = l]

\* What detectDaemon reports of a missing socket file, in Activate and in its loop.
WhenMissing(s) == IF spawned[s] THEN "poll" ELSE "spawn"

\* detectDaemon: os.Lstat.
Lstat(s) ==
    /\ spc[s] = "lstat"
    /\ Goto(s, IF file = None THEN WhenMissing(s) ELSE "dial")
    /\ rpc' = [rpc EXCEPT ![s] = "Version"] /\ attempt' = [attempt EXCEPT ![s] = 0]
    /\ UNCHANGED <<file, lock, serverVars, spawned, conn, target>>

\* os.Lstat fails for another reason than a missing file, in detectDaemon or in killDaemon.
LstatFails(s) ==
    /\ spc[s] \in {"lstat", "killwait"} /\ Fault
    /\ Goto(s, "failed")
    /\ UNCHANGED <<file, lock, daemonVars, rpc, attempt, spawned, conn, target>>

\* A socket file accepts connections from listen(2) until its daemon ends.
Listening(d) == dpc[d] \notin {"unborn", "bind", "listen", "dead"}

\* Mutant: a socket file that refuses connections is left alone.
WhenRefused_giveUp(s) == IF rpc[s] = "Version" /\ spawned[s] THEN "poll" ELSE "failed"

\* What a refused connection leads to: the first detectDaemon has the file removed, the
\* loop goes on waiting, killDaemon fails.
WhenRefused(s) ==
    IF rpc[s] = "Pid" THEN "failed" ELSE IF spawned[s] THEN "poll" ELSE "remove"

\* client.call: net.Dial.
Dial(s) ==
    /\ spc[s] = "dial"
    /\ IF file # None /\ Listening(file)
         THEN /\ conn' = [conn EXCEPT ![s] = file]
              /\ backlog' = [backlog EXCEPT ![file] = @ \cup {s}]
              /\ Goto(s, "call")
         ELSE /\ Goto(s, IF file = None THEN "failed" ELSE WhenRefused(s))
              /\ UNCHANGED <<conn, backlog>>
    /\ UNCHANGED <<file, lock, dpc, store, deaf, signals, connCh, conns, env,
                   rpc, attempt, spawned, target>>

\* Mutant: any version will do.
WhenVersion_any(s, d) == "ok"

\* What the version leads to: an outdated daemon is asked for its pid, unless it should
\* have been the newly spawned one.
WhenVersion(s, d) ==
    IF d \notin Outdated THEN "ok" ELSE IF spawned[s] THEN "failed" ELSE "call"

\* The daemon answers Version.
GotVersion(s) ==
    /\ spc[s] = "call" /\ rpc[s] = "Version" /\ s \in conns[conn[s]]
    /\ Goto(s, WhenVersion(s, conn[s]))
    /\ rpc' = [rpc EXCEPT ![s] = IF WhenVersion(s, conn[s]) = "call" THEN "Pid" ELSE @]
    /\ attempt' = [attempt EXCEPT ![s] = 0]
    /\ UNCHANGED <<file, lock, serverVars, spawned, conn, target>>

\* The daemon answers Pid.
GotPid(s) ==
    /\ spc[s] = "call" /\ rpc[s] = "Pid" /\ s \in conns[conn[s]]
    /\ target' = [target EXCEPT ![s] = conn[s]]
    /\ Goto(s, "signal")
    /\ rpc' = [rpc EXCEPT ![s] = "Version"] /\ attempt' = [attempt EXCEPT ![s] = 0]
    /\ UNCHANGED <<file, lock, serverVars, spawned, conn>>

\* The daemon has closed the connection of s, or has ended.
Lost(s) ==
    /\ conn[s] # None
    /\ s \notin backlog[conn[s]] \cup connCh[conn[s]] \cup conns[conn[s]]

\* client.call when the call fails with rpc.ErrShutdown: dial again, three times at most.
Retry(s) ==
    /\ conn' = [conn EXCEPT ![s] = None]
    /\ IF attempt[s] < retriesOnShutdown - 1
         THEN attempt' = [attempt EXCEPT ![s] = @ + 1] /\ Goto(s, "dial")
         ELSE UNCHANGED attempt /\ Goto(s, "failed")

\* The connection breaks under a call: ErrShutdown if the client knows before it sends
\* the request, another error, which is returned, if it finds out later.
CallBroken(s) ==
    /\ spc[s] = "call" /\ Lost(s)
    /\ \/ Retry(s)
       \/ Goto(s, "failed") /\ UNCHANGED <<attempt, conn>>
    /\ UNCHANGED <<file, lock, serverVars, rpc, spawned, target>>

\* Activate: os.Remove of a socket file that refuses connections.
RemoveStale(s) ==
    /\ spc[s] = "remove"
    /\ file' = None
    /\ Goto(s, IF file = None THEN "failed" ELSE "spawn")
    /\ UNCHANGED <<lock, serverVars, rpc, attempt, spawned, conn, target>>

\* killDaemon: process.Signal, which fails if the process has ended.
Signal(s) ==
    /\ spc[s] = "signal"
    /\ IF dpc[target[s]] = "dead"
         THEN Goto(s, "failed") /\ UNCHANGED signals
         ELSE Goto(s, "killwait") /\ signals' = signals \cup {target[s]}
    /\ target' = [target EXCEPT ![s] = None]
    /\ UNCHANGED <<file, lock, dpc, store, deaf, backlog, connCh, conns, env,
                   rpc, attempt, spawned, conn>>

\* killDaemon: the socket file has gone.
KillWait(s) ==
    /\ spc[s] = "killwait" /\ file = None
    /\ Goto(s, "spawn")
    /\ UNCHANGED <<file, lock, serverVars, rpc, attempt, spawned, conn, target>>

\* spawn, whose process starts with Serve.
Spawn(s) ==
    /\ spc[s] = "spawn"
    /\ \E d \in Daemons :
         /\ dpc[d] = "unborn" /\ \A e \in Daemons : dpc[e] = "unborn" => d <= e
         /\ dpc' = [dpc EXCEPT ![d] = "bind"]
    /\ spawned' = [spawned EXCEPT ![s] = TRUE] /\ Goto(s, "poll")
    /\ UNCHANGED <<file, lock, store, deaf, signals, backlog, connCh, conns, env,
                   rpc, attempt, conn, target>>

\* spawn returns an error.
SpawnFails(s) ==
    /\ spc[s] = "spawn" /\ Fault
    /\ Goto(s, "failed")
    /\ UNCHANGED <<file, lock, daemonVars, rpc, attempt, spawned, conn, target>>

\* The loop that waits for the daemon: ResetConn and detectDaemon again.
Poll(s) ==
    /\ spc[s] = "poll"
    /\ conn' = [conn EXCEPT ![s] = None] /\ Goto(s, "lstat")
    /\ UNCHANGED <<file, lock, serverVars, rpc, attempt, spawned, target>>

\* Mutant: nothing limits the wait for the socket file to go.
Timeout_spawnOnly(s) ==
    /\ ~timely /\ spc[s] = "poll"
    /\ Goto(s, "failed")
    /\ UNCHANGED <<file, lock, serverVars, rpc, attempt, spawned, conn, target>>

\* daemonKillTimeout and daemonSpawnTimeout.
Timeout(s) ==
    /\ ~timely /\ spc[s] \in {"killwait", "poll"}
    /\ Goto(s, "failed")
    /\ UNCHANGED <<file, lock, serverVars, rpc, attempt, spawned, conn, target>>

-----------------------------------------------------------------------------
(* The client in use, whether or not Activate succeeded.                   *)

\* A request after the connection was lost, or before there was one, dials again.
Reconnect(s) ==
    /\ spc[s] \in {"ok", "failed"} /\ (conn[s] = None \/ Lost(s))
    /\ IF file # None /\ Listening(file)
         THEN /\ conn' = [conn EXCEPT ![s] = file]
              /\ backlog' = [backlog EXCEPT ![file] = @ \cup {s}]
         ELSE conn' = [conn EXCEPT ![s] = None] /\ UNCHANGED backlog
    /\ UNCHANGED <<file, lock, dpc, store, deaf, signals, connCh, conns, env,
                   spc, rpc, attempt, spawned, target>>

\* The connection is closed, and the variables of Activate are no more.
Forget(s) ==
    /\ conn' = [conn EXCEPT ![s] = None] /\ target' = [target EXCEPT ![s] = None]
    /\ rpc' = [rpc EXCEPT ![s] = "Version"] /\ attempt' = [attempt EXCEPT ![s] = 0]
    /\ spawned' = [spawned EXCEPT ![s] = FALSE]

\* The shell exits: client.Close.
Exit(s) ==
    /\ spc[s] \in {"ok", "failed"}
    /\ Forget(s) /\ Goto(s, "gone")
    /\ UNCHANGED <<file, lock, serverVars>>

\* The shell is killed while it activates the daemon.
Die(s) ==
    /\ spc[s] \notin {"ok", "failed", "gone"} /\ Fault
    /\ Forget(s) /\ Goto(s, "gone")
    /\ UNCHANGED <<file, lock, daemonVars>>

-----------------------------------------------------------------------------
(* Serve, in a daemon.                                                     *)

\* net.Listen: bind(2), which fails if the file exists, whoever created it.
Bind(d) ==
    /\ dpc[d] = "bind"
    /\ IF file = None THEN file' = d /\ dpc' = [dpc EXCEPT ![d] = "listen"]
                      ELSE UNCHANGED file /\ dpc' = [dpc EXCEPT ![d] = "dead"]
    /\ UNCHANGED <<lock, store, deaf, signals, backlog, connCh, conns, env, shellVars>>

\* net.Listen: listen(2).
Listen(d) ==
    /\ dpc[d] = "listen" /\ dpc' = [dpc EXCEPT ![d] = "open"]
    /\ UNCHANGED <<file, lock, store, deaf, signals, backlog, connCh, conns, env, shellVars>>

\* store.NewStore: waits a second for the lock, and serves without a store if it cannot
\* have it.
OpenStore(d) ==
    /\ dpc[d] = "open" /\ dpc' = [dpc EXCEPT ![d] = "serve"]
    /\ \/ lock = None /\ lock' = d /\ store' = store \cup {d}
       \/ lock # None /\ UNCHANGED <<lock, store>>
    /\ UNCHANGED <<file, deaf, signals, backlog, connCh, conns, env, shellVars>>

\* The goroutine that accepts connections, which runs until the listener is closed.
Accept(d, s) ==
    /\ dpc[d] \in {"serve", "remove", "closeStore", "closeListener"} /\ d \notin deaf
    /\ s \in backlog[d]
    /\ backlog' = [backlog EXCEPT ![d] = @ \ {s}] /\ connCh' = [connCh EXCEPT ![d] = @ \cup {s}]
    /\ UNCHANGED <<file, lock, dpc, store, deaf, signals, conns, env, shellVars>>

\* listener.Accept fails.
AcceptFails(d) ==
    /\ dpc[d] = "serve" /\ d \notin deaf /\ Fault
    /\ deaf' = deaf \cup {d}
    /\ UNCHANGED <<file, lock, dpc, store, signals, backlog, connCh, conns, shellVars>>

\* Mutant: a connection that is served stays in the queue.
ServeConn_again(d, s) ==
    /\ dpc[d] = "serve" /\ s \in connCh[d]
    /\ conns' = [conns EXCEPT ![d] = @ \cup {s}] /\ served' = served \cup {d}
    /\ UNCHANGED <<file, lock, dpc, store, deaf, signals, backlog, connCh, timely, faults, shellVars>>

\* The loop: a connection from connCh.
ServeConn(d, s) ==
    /\ dpc[d] = "serve" /\ s \in connCh[d]
    /\ connCh' = [connCh EXCEPT ![d] = @ \ {s}] /\ conns' = [conns EXCEPT ![d] = @ \cup {s}]
    /\ served' = served \cup {d}
    /\ UNCHANGED <<file, lock, dpc, store, deaf, signals, backlog, timely, faults, shellVars>>

\* Mutant: the daemon exits only when it is told to.
AfterConnDone_stay(d, left) == dpc[d]

\* Where the loop goes when a connection has ended and the ones in left remain.
AfterConnDone(d, left) == IF left = {} THEN "remove" ELSE dpc[d]

\* The loop: a connection whose client has closed it.
ConnDone(d, s) ==
    /\ dpc[d] = "serve" /\ s \in conns[d] /\ conn[s] # d
    /\ conns' = [conns EXCEPT ![d] = @ \ {s}]
    /\ dpc' = [dpc EXCEPT ![d] = AfterConnDone(d, conns[d] \ {s})]
    /\ UNCHANGED <<file, lock, store, deaf, signals, backlog, connCh, env, shellVars>>

\* The same for the shell of the older version.
OldConnDone(d) ==
    /\ dpc[d] = "serve" /\ None \in conns[d]
    /\ conns' = [conns EXCEPT ![d] = @ \ {None}]
    /\ dpc' = [dpc EXCEPT ![d] = AfterConnDone(d, conns[d] \ {None})]
    /\ UNCHANGED <<file, lock, store, deaf, signals, backlog, connCh, env, shellVars>>

\* The loop: an error from listenErrCh, which is closed after it and so stays ready.
ListenErr(d) ==
    /\ dpc[d] = "serve" /\ d \in deaf /\ conns[d] = {}
    /\ dpc' = [dpc EXCEPT ![d] = "remove"]
    /\ UNCHANGED <<file, lock, store, deaf, signals, backlog, connCh, conns, env, shellVars>>

\* The loop: a signal; interrupt closes the connections.
HandleSignal(d) ==
    /\ dpc[d] = "serve" /\ d \in signals
    /\ signals' = signals \ {d} /\ conns' = [conns EXCEPT ![d] = {}]
    /\ dpc' = [dpc EXCEPT ![d] = "remove"]
    /\ UNCHANGED <<file, lock, store, deaf, backlog, connCh, env, shellVars>>

\* After the loop: os.Remove(sockpath).
RemoveSock(d) ==
    /\ dpc[d] = "remove" /\ dpc' = [dpc EXCEPT ![d] = "closeStore"]
    /\ file' = None
    /\ UNCHANGED <<lock, store, deaf, signals, backlog, connCh, conns, env, shellVars>>

\* The lock is free once its holder has closed the database or has ended.
Unlock(d) == lock' = IF lock = d THEN None ELSE lock

\* After the loop: st.Close.
CloseStore(d) ==
    /\ dpc[d] = "closeStore" /\ dpc' = [dpc EXCEPT ![d] = "closeListener"]
    /\ Unlock(d)
    /\ UNCHANGED <<file, store, deaf, signals, backlog, connCh, conns, env, shellVars>>

\* The connections that end with the process.
NoConns(d) ==
    /\ backlog' = [backlog EXCEPT ![d] = {}]
    /\ connCh' = [connCh EXCEPT ![d] = {}] /\ conns' = [conns EXCEPT ![d] = {}]

\* After the loop: listener.Close, which unlinks the path the listener was bound to (the
\* net package does so for a listener made by net.Listen), and the return from Serve.
CloseListener(d) ==
    /\ dpc[d] = "closeListener" /\ dpc' = [dpc EXCEPT ![d] = "dead"]
    /\ file' = None /\ NoConns(d)
    /\ UNCHANGED <<lock, store, deaf, signals, env, shellVars>>

\* The process ends without any of that.
Crash(d) ==
    /\ dpc[d] \notin {"unborn", "dead"} /\ Fault
    /\ dpc' = [dpc EXCEPT ![d] = "dead"] /\ NoConns(d)
    /\ Unlock(d)
    /\ UNCHANGED <<file, store, deaf, signals, shellVars>>

-----------------------------------------------------------------------------
ActivateStep(s) ==
    \/ Lstat(s) \/ Dial(s) \/ GotVersion(s) \/ GotPid(s) \/ CallBroken(s)
    \/ RemoveStale(s) \/ Signal(s) \/ KillWait(s) \/ Spawn(s) \/ Poll(s)

ShellStep(s) ==
    \/ ActivateStep(s) \/ LstatFails(s) \/ SpawnFails(s) \/ Timeout(s)
    \/ Reconnect(s) \/ Exit(s) \/ Die(s)

LoopStep(d) ==
    \/ \E s \in Shells : ServeConn(d, s) \/ ConnDone(d, s)
    \/ ListenErr(d) \/ HandleSignal(d)

DaemonStep(d) ==
    \/ Bind(d) \/ Listen(d) \/ OpenStore(d) \/ LoopStep(d)
    \/ RemoveSock(d) \/ CloseStore(d) \/ CloseListener(d)

Next ==
    \/ \E s \in Shells : ShellStep(s)
    \/ \E d \in Daemons : DaemonStep(d) \/ OldConnDone(d) \/ AcceptFails(d) \/ Crash(d)
    \/ \E d \in Daemons, s \in Shells : Accept(d, s)

Spec == Init /\ [][Next]_vars

\* Every process makes progress, and a shell that runs exits some day.  A shell and a
\* daemon meet finitely many events, so that each of them that stays possible happens in
\* the end.  A timeout expires if what it limits goes on forever.
Fairness ==
    /\ \A s \in Shells : WF_vars(ActivateStep(s) \/ Exit(s)) /\ SF_vars(Timeout(s))
    /\ \A d \in Daemons : WF_vars(DaemonStep(d) \/ \E s \in Shells : Accept(d, s))

FairSpec == Spec /\ Fairness

-----------------------------------------------------------------------------
\* A shell whose Activate succeeded never talks to an outdated daemon, not even after
\* the daemon it found has crashed and its client has reconnected by itself.
ConnectedUpToDate == \A s \in Shells : spc[s] = "ok" => conn[s] \notin Outdated

\* Activate always returns, in every shell, whatever daemons and other shells do meanwhile
\* (only if the time limits can expire: they are what ends the waiting).
ActivateEnds == <>(timely \/ \A s \in Shells : spc[s] \in {"ok", "failed", "gone"})

\* A daemon that has served a client does not outlive the shells: the end of the last
\* connection is never missed, even if it ends while another one is being accepted.
DaemonEndsWithShells ==
    <>[]((\A s \in Shells : spc[s] = "gone") => \A d \in served : conns[d] = {None} \/ dpc[d] = "dead")

\* No other process is at work: the other shells have exited, every daemon has ended or
\* serves, and no fault is left.
Quiet(s) ==
    /\ \A t \in Shells \ {s} : spc[t] = "gone"
    /\ \A d \in Daemons : /\ dpc[d] \in {"unborn", "serve", "dead"}
                          /\ backlog[d] \cup connCh[d] \cup conns[d] = {}
                          /\ dpc[d] = "serve" => d \notin deaf
    /\ signals = {} /\ faults = 0

\* Whatever earlier shells and faults have left behind (a stale socket file, an orphan
\* daemon), the next shell that starts alone gets a daemon.
RecoversWhenQuiet ==
    (timely /\ \E s \in Shells : Quiet(s) /\ spc[s] = "lstat" /\ ~spawned[s])
        ~> \E s \in Shells : spc[s] = "ok"

\* "Wait until the old daemon has removed the socket file, so that it doesn't
\* inadvertently remove the socket file of the new daemon we will start." (activate.go):
\* a daemon that ends removes no socket file but its own.
SocketRemovedByOwner ==
    [][\A d \in Daemons :
          dpc[d] \in {"remove", "closeListener"} /\ dpc'[d] # dpc[d] => file \in {None, d}]_vars
=============================================================================
