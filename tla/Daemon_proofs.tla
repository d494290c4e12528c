---------------------------- MODULE Daemon_proofs ----------------------------
(***************************************************************************)
(* Theorems about Daemon, for any number of shells and daemon processes.   *)
(*                                                                         *)
(* A daemon binds the socket file once, when there is none.  So as long as *)
(* the file is that of an outdated daemon no other one has ever bound it,  *)
(* opened the database or served a shell: a shell that has talked to a     *)
(* daemon of its own version knows that the outdated one is out of reach   *)
(* for good.                                                               *)
(***************************************************************************)
EXTENDS Daemon, TLAPS

-----------------------------------------------------------------------------
(* The inductive invariant.                                                *)

\* The connections a daemon has or has yet to accept.
Of(d) == backlog[d] \cup connCh[d] \cup conns[d]

\* A daemon that has not tried to bind the socket file.
Before(d) == dpc[d] \in {"unborn", "bind"}

\* Outdated daemons never bind the file again, and a daemon that has not bound it has no
\* connections.
BoundOnce ==
    \A d \in Daemons : Before(d) => d \notin Outdated /\ file # d /\ Of(d) = {}

\* As long as the file is that of an outdated daemon, no other one can be reached.
OutdatedFirst ==
    file \in Outdated =>
        /\ \A d \in Daemons \ Outdated : Of(d) = {} /\ dpc[d] \in {"unborn", "bind", "dead"}
        /\ \A s \in Shells : spc[s] # "ok" /\ conn[s] \in Outdated \cup {None}

\* What a shell has at each place of Activate.
ShellOK ==
    \A s \in Shells :
        /\ conn[s] # None => ~Before(conn[s])
        /\ spc[s] = "call" => conn[s] # None
        /\ spc[s] = "signal" => target[s] # None
        /\ spc[s] \in {"lstat", "dial", "remove"} => conn[s] = None
        /\ spc[s] \in {"spawn", "poll"} => conn[s] = None \/ conn[s] # file

\* A connection that its shell has forgotten belongs to a daemon that has lost its file.
ForgottenOK ==
    \A s \in Shells, d \in Daemons :
        s \in Of(d) /\ conn[s] # d /\ spc[s] # "gone" => file # d

DaemonInv == TypeOK /\ BoundOnce /\ OutdatedFirst /\ ShellOK /\ ForgottenOK /\ ConnectedUpToDate

-----------------------------------------------------------------------------
(* The steps.                                                              *)

\* The look for the socket file preserves the invariant.
LEMMA LstatPreserves ==
  ASSUME DaemonInv, NEW s \in Shells, Lstat(s)
  PROVE  DaemonInv'
<1> USE DaemonAssumption DEF DaemonInv, env, daemonVars, serverVars, shellVars
<1>1. TypeOK'
  BY DEF Lstat, Goto, WhenMissing, TypeOK, retriesOnShutdown
<1>2. BoundOnce'
  BY DEF Lstat, Goto, WhenMissing, BoundOnce, TypeOK, Before, Of
<1>3. OutdatedFirst'
  BY DEF Lstat, Goto, WhenMissing, OutdatedFirst, TypeOK, Of
<1>4. ShellOK'
  BY DEF Lstat, Goto, WhenMissing, ShellOK, TypeOK, Before
<1>5. ForgottenOK'
  BY DEF Lstat, Goto, WhenMissing, ForgottenOK, TypeOK, Of
<1>6. ConnectedUpToDate'
  BY DEF Lstat, Goto, WhenMissing, ConnectedUpToDate, TypeOK
<1> QED
  BY <1>1, <1>2, <1>3, <1>4, <1>5, <1>6

\* A shell that dials has no connection that the daemon of the file still knows.
LEMMA DialPreserves ==
  ASSUME DaemonInv, NEW s \in Shells, Dial(s)
  PROVE  DaemonInv'
<1> USE DaemonAssumption DEF DaemonInv, env, daemonVars, serverVars, shellVars
<1>1. TypeOK'
  BY DEF Dial, Goto, WhenRefused, Listening, TypeOK, retriesOnShutdown, ShellOK, ForgottenOK, Of
<1>2. BoundOnce'
  BY DEF Dial, Goto, WhenRefused, Listening, BoundOnce, TypeOK, Before, Of
<1>3. OutdatedFirst'
  BY DEF Dial, Goto, WhenRefused, Listening, OutdatedFirst, TypeOK, Of
<1>4. ShellOK'
  BY DEF Dial, Goto, WhenRefused, Listening, ShellOK, TypeOK, Before
<1>5. ForgottenOK'
  BY DEF Dial, Goto, WhenRefused, Listening, ForgottenOK, TypeOK, Of
<1>6. ConnectedUpToDate'
  BY DEF Dial, Goto, WhenRefused, Listening, ConnectedUpToDate, TypeOK
<1> QED
  BY <1>1, <1>2, <1>3, <1>4, <1>5, <1>6

\* A shell succeeds only with a daemon that could be reached, so not before the file is new.
LEMMA GotVersionPreserves ==
  ASSUME DaemonInv, NEW s \in Shells, GotVersion(s)
  PROVE  DaemonInv'
<1> USE DaemonAssumption DEF DaemonInv, env, daemonVars, serverVars, shellVars
<1>1. TypeOK'
  BY DEF GotVersion, Goto, WhenVersion, TypeOK, retriesOnShutdown
<1>2. BoundOnce'
  BY DEF GotVersion, Goto, WhenVersion, BoundOnce, TypeOK, Before, Of
<1>3. OutdatedFirst'
  BY DEF GotVersion, Goto, WhenVersion, OutdatedFirst, TypeOK, Of, ShellOK
<1>4. ShellOK'
  BY DEF GotVersion, Goto, WhenVersion, ShellOK, TypeOK, Before
<1>5. ForgottenOK'
  BY DEF GotVersion, Goto, WhenVersion, ForgottenOK, TypeOK, Of
<1>6. ConnectedUpToDate'
  BY DEF GotVersion, Goto, WhenVersion, ConnectedUpToDate, TypeOK
<1> QED
  BY <1>1, <1>2, <1>3, <1>4, <1>5, <1>6

\* The daemon that answers Pid has bound the file, if only once.
LEMMA GotPidPreserves ==
  ASSUME DaemonInv, NEW s \in Shells, GotPid(s)
  PROVE  DaemonInv'
<1> USE DaemonAssumption DEF DaemonInv, env, daemonVars, serverVars, shellVars
<1>1. TypeOK'
  BY DEF GotPid, Goto, TypeOK, retriesOnShutdown
<1>2. BoundOnce'
  BY DEF GotPid, Goto, BoundOnce, TypeOK, Before, Of
<1>3. OutdatedFirst'
  BY DEF GotPid, Goto, OutdatedFirst, TypeOK, Of
<1>4. ShellOK'
  BY DEF GotPid, Goto, ShellOK, TypeOK, Before
<1>5. ForgottenOK'
  BY DEF GotPid, Goto, ForgottenOK, TypeOK, Of
<1>6. ConnectedUpToDate'
  BY DEF GotPid, Goto, ConnectedUpToDate, TypeOK
<1> QED
  BY <1>1, <1>2, <1>3, <1>4, <1>5, <1>6

\* A client that dials again has lost its connection.
LEMMA CallBrokenPreserves ==
  ASSUME DaemonInv, NEW s \in Shells, CallBroken(s)
  PROVE  DaemonInv'
<1> USE DaemonAssumption DEF DaemonInv, env, daemonVars, serverVars, shellVars
<1>1. TypeOK'
  BY DEF CallBroken, Goto, Retry, Lost, retriesOnShutdown, TypeOK
<1>2. BoundOnce'
  BY DEF CallBroken, Goto, Retry, Lost, retriesOnShutdown, BoundOnce, TypeOK, Before, Of
<1>3. OutdatedFirst'
  BY DEF CallBroken, Goto, Retry, Lost, retriesOnShutdown, OutdatedFirst, TypeOK, Of
<1>4. ShellOK'
  BY DEF CallBroken, Goto, Retry, Lost, retriesOnShutdown, ShellOK, TypeOK, Before
<1>5. ForgottenOK'
  BY DEF CallBroken, Goto, Retry, Lost, retriesOnShutdown, ForgottenOK, TypeOK, Of
<1>6. ConnectedUpToDate'
  BY DEF CallBroken, Goto, Retry, Lost, retriesOnShutdown, ConnectedUpToDate, TypeOK
<1> QED
  BY <1>1, <1>2, <1>3, <1>4, <1>5, <1>6

\* Removing a socket file, whoever has bound it, preserves the invariant.
LEMMA RemoveStalePreserves ==
  ASSUME DaemonInv, NEW s \in Shells, RemoveStale(s)
  PROVE  DaemonInv'
<1> USE DaemonAssumption DEF DaemonInv, env, daemonVars, serverVars, shellVars
<1>1. TypeOK'
  BY DEF RemoveStale, Goto, TypeOK, retriesOnShutdown
<1>2. BoundOnce'
  BY DEF RemoveStale, Goto, BoundOnce, TypeOK, Before, Of
<1>3. OutdatedFirst'
  BY DEF RemoveStale, Goto, OutdatedFirst, TypeOK, Of
<1>4. ShellOK'
  BY DEF RemoveStale, Goto, ShellOK, TypeOK, Before
<1>5. ForgottenOK'
  BY DEF RemoveStale, Goto, ForgottenOK, TypeOK, Of
<1>6. ConnectedUpToDate'
  BY DEF RemoveStale, Goto, ConnectedUpToDate, TypeOK
<1> QED
  BY <1>1, <1>2, <1>3, <1>4, <1>5, <1>6

\* A signal to the daemon that answered Pid preserves the invariant.
LEMMA SignalPreserves ==
  ASSUME DaemonInv, NEW s \in Shells, Signal(s)
  PROVE  DaemonInv'
<1> USE DaemonAssumption DEF DaemonInv, env, daemonVars, serverVars, shellVars
<1>1. TypeOK'
  BY DEF Signal, Goto, TypeOK, retriesOnShutdown, ShellOK
<1>2. BoundOnce'
  BY DEF Signal, Goto, BoundOnce, TypeOK, Before, Of
<1>3. OutdatedFirst'
  BY DEF Signal, Goto, OutdatedFirst, TypeOK, Of
<1>4. ShellOK'
  BY DEF Signal, Goto, ShellOK, TypeOK, Before
<1>5. ForgottenOK'
  BY DEF Signal, Goto, ForgottenOK, TypeOK, Of
<1>6. ConnectedUpToDate'
  BY DEF Signal, Goto, ConnectedUpToDate, TypeOK
<1> QED
  BY <1>1, <1>2, <1>3, <1>4, <1>5, <1>6

\* When the file has gone, the daemon it belonged to will not have it again.
LEMMA KillWaitPreserves ==
  ASSUME DaemonInv, NEW s \in Shells, KillWait(s)
  PROVE  DaemonInv'
<1> USE DaemonAssumption DEF DaemonInv, env, daemonVars, serverVars, shellVars
<1>1. TypeOK'
  BY DEF KillWait, Goto, TypeOK, retriesOnShutdown
<1>2. BoundOnce'
  BY DEF KillWait, Goto, BoundOnce, TypeOK, Before, Of
<1>3. OutdatedFirst'
  BY DEF KillWait, Goto, OutdatedFirst, TypeOK, Of
<1>4. ShellOK'
  BY DEF KillWait, Goto, ShellOK, TypeOK, Before
<1>5. ForgottenOK'
  BY DEF KillWait, Goto, ForgottenOK, TypeOK, Of
<1>6. ConnectedUpToDate'
  BY DEF KillWait, Goto, ConnectedUpToDate, TypeOK
<1> QED
  BY <1>1, <1>2, <1>3, <1>4, <1>5, <1>6

\* A spawned daemon has not bound the file.
LEMMA SpawnPreserves ==
  ASSUME DaemonInv, NEW s \in Shells, Spawn(s)
  PROVE  DaemonInv'
<1> USE DaemonAssumption DEF DaemonInv, env, daemonVars, serverVars, shellVars
<1>1. TypeOK'
  BY DEF Spawn, Goto, TypeOK, retriesOnShutdown
<1>2. BoundOnce'
  BY DEF Spawn, Goto, BoundOnce, TypeOK, Before, Of
<1>3. OutdatedFirst'
  BY DEF Spawn, Goto, OutdatedFirst, TypeOK, Of
<1>4. ShellOK'
  BY DEF Spawn, Goto, ShellOK, TypeOK, Before
<1>5. ForgottenOK'
  BY DEF Spawn, Goto, ForgottenOK, TypeOK, Of
<1>6. ConnectedUpToDate'
  BY DEF Spawn, Goto, ConnectedUpToDate, TypeOK
<1> QED
  BY <1>1, <1>2, <1>3, <1>4, <1>5, <1>6

\* A spawn that fails preserves the invariant.
LEMMA SpawnFailsPreserves ==
  ASSUME DaemonInv, NEW s \in Shells, SpawnFails(s)
  PROVE  DaemonInv'
<1> USE DaemonAssumption DEF DaemonInv, env, daemonVars, serverVars, shellVars
<1>1. TypeOK'
  BY DEF SpawnFails, Goto, Fault, TypeOK, retriesOnShutdown
<1>2. BoundOnce'
  BY DEF SpawnFails, Goto, Fault, BoundOnce, TypeOK, Before, Of
<1>3. OutdatedFirst'
  BY DEF SpawnFails, Goto, Fault, OutdatedFirst, TypeOK, Of
<1>4. ShellOK'
  BY DEF SpawnFails, Goto, Fault, ShellOK, TypeOK, Before
<1>5. ForgottenOK'
  BY DEF SpawnFails, Goto, Fault, ForgottenOK, TypeOK, Of
<1>6. ConnectedUpToDate'
  BY DEF SpawnFails, Goto, Fault, ConnectedUpToDate, TypeOK
<1> QED
  BY <1>1, <1>2, <1>3, <1>4, <1>5, <1>6

\* A look for the socket file that fails preserves the invariant.
LEMMA LstatFailsPreserves ==
  ASSUME DaemonInv, NEW s \in Shells, LstatFails(s)
  PROVE  DaemonInv'
<1> USE DaemonAssumption DEF DaemonInv, env, daemonVars, serverVars, shellVars
<1>1. TypeOK'
  BY DEF LstatFails, Goto, Fault, TypeOK, retriesOnShutdown
<1>2. BoundOnce'
  BY DEF LstatFails, Goto, Fault, BoundOnce, TypeOK, Before, Of
<1>3. OutdatedFirst'
  BY DEF LstatFails, Goto, Fault, OutdatedFirst, TypeOK, Of
<1>4. ShellOK'
  BY DEF LstatFails, Goto, Fault, ShellOK, TypeOK, Before
<1>5. ForgottenOK'
  BY DEF LstatFails, Goto, Fault, ForgottenOK, TypeOK, Of
<1>6. ConnectedUpToDate'
  BY DEF LstatFails, Goto, Fault, ConnectedUpToDate, TypeOK
<1> QED
  BY <1>1, <1>2, <1>3, <1>4, <1>5, <1>6

\* The loop that waits forgets only connections to daemons that have lost their file.
LEMMA PollPreserves ==
  ASSUME DaemonInv, NEW s \in Shells, Poll(s)
  PROVE  DaemonInv'
<1> USE DaemonAssumption DEF DaemonInv, env, daemonVars, serverVars, shellVars
<1>1. TypeOK'
  BY DEF Poll, Goto, TypeOK, retriesOnShutdown
<1>2. BoundOnce'
  BY DEF Poll, Goto, BoundOnce, TypeOK, Before, Of
<1>3. OutdatedFirst'
  BY DEF Poll, Goto, OutdatedFirst, TypeOK, Of
<1>4. ShellOK'
  BY DEF Poll, Goto, ShellOK, TypeOK, Before
<1>5. ForgottenOK'
  BY DEF Poll, Goto, ForgottenOK, TypeOK, Of, ShellOK
<1>6. ConnectedUpToDate'
  BY DEF Poll, Goto, ConnectedUpToDate, TypeOK
<1> QED
  BY <1>1, <1>2, <1>3, <1>4, <1>5, <1>6

\* A timeout of Activate preserves the invariant.
LEMMA TimeoutPreserves ==
  ASSUME DaemonInv, NEW s \in Shells, Timeout(s)
  PROVE  DaemonInv'
<1> USE DaemonAssumption DEF DaemonInv, env, daemonVars, serverVars, shellVars
<1>1. TypeOK'
  BY DEF Timeout, Goto, TypeOK, retriesOnShutdown
<1>2. BoundOnce'
  BY DEF Timeout, Goto, BoundOnce, TypeOK, Before, Of
<1>3. OutdatedFirst'
  BY DEF Timeout, Goto, OutdatedFirst, TypeOK, Of
<1>4. ShellOK'
  BY DEF Timeout, Goto, ShellOK, TypeOK, Before
<1>5. ForgottenOK'
  BY DEF Timeout, Goto, ForgottenOK, TypeOK, Of
<1>6. ConnectedUpToDate'
  BY DEF Timeout, Goto, ConnectedUpToDate, TypeOK
<1> QED
  BY <1>1, <1>2, <1>3, <1>4, <1>5, <1>6

\* A shell in use that reconnects by itself finds no outdated daemon.
LEMMA ReconnectPreserves ==
  ASSUME DaemonInv, NEW s \in Shells, Reconnect(s)
  PROVE  DaemonInv'
<1> USE DaemonAssumption DEF DaemonInv, env, daemonVars, serverVars, shellVars
<1>1. TypeOK'
  BY DEF Reconnect, Listening, Lost, TypeOK, retriesOnShutdown, ForgottenOK, Of
<1>2. BoundOnce'
  BY DEF Reconnect, Listening, Lost, BoundOnce, TypeOK, Before, Of
<1>3. OutdatedFirst'
  BY DEF Reconnect, Listening, Lost, OutdatedFirst, TypeOK, Of
<1>4. ShellOK'
  BY DEF Reconnect, Listening, Lost, ShellOK, TypeOK, Before
<1>5. ForgottenOK'
  BY DEF Reconnect, Listening, Lost, ForgottenOK, TypeOK, Of
<1>6. ConnectedUpToDate'
  BY DEF Reconnect, Listening, Lost, ConnectedUpToDate, TypeOK, OutdatedFirst
<1> QED
  BY <1>1, <1>2, <1>3, <1>4, <1>5, <1>6

\* The exit of a shell preserves the invariant.
LEMMA ExitPreserves ==
  ASSUME DaemonInv, NEW s \in Shells, Exit(s)
  PROVE  DaemonInv'
<1> USE DaemonAssumption DEF DaemonInv, env, daemonVars, serverVars, shellVars
<1>1. TypeOK'
  BY DEF Exit, Goto, Forget, TypeOK, retriesOnShutdown
<1>2. BoundOnce'
  BY DEF Exit, Goto, Forget, BoundOnce, TypeOK, Before, Of
<1>3. OutdatedFirst'
  BY DEF Exit, Goto, Forget, OutdatedFirst, TypeOK, Of
<1>4. ShellOK'
  BY DEF Exit, Goto, Forget, ShellOK, TypeOK, Before
<1>5. ForgottenOK'
  BY DEF Exit, Goto, Forget, ForgottenOK, TypeOK, Of
<1>6. ConnectedUpToDate'
  BY DEF Exit, Goto, Forget, ConnectedUpToDate, TypeOK
<1> QED
  BY <1>1, <1>2, <1>3, <1>4, <1>5, <1>6

\* The end of a shell inside of Activate preserves the invariant.
LEMMA DiePreserves ==
  ASSUME DaemonInv, NEW s \in Shells, Die(s)
  PROVE  DaemonInv'
<1> USE DaemonAssumption DEF DaemonInv, env, daemonVars, serverVars, shellVars
<1>1. TypeOK'
  BY DEF Die, Goto, Forget, Fault, TypeOK, retriesOnShutdown
<1>2. BoundOnce'
  BY DEF Die, Goto, Forget, Fault, BoundOnce, TypeOK, Before, Of
<1>3. OutdatedFirst'
  BY DEF Die, Goto, Forget, Fault, OutdatedFirst, TypeOK, Of
<1>4. ShellOK'
  BY DEF Die, Goto, Forget, Fault, ShellOK, TypeOK, Before
<1>5. ForgottenOK'
  BY DEF Die, Goto, Forget, Fault, ForgottenOK, TypeOK, Of
<1>6. ConnectedUpToDate'
  BY DEF Die, Goto, Forget, Fault, ConnectedUpToDate, TypeOK
<1> QED
  BY <1>1, <1>2, <1>3, <1>4, <1>5, <1>6

\* A daemon that binds the file is not outdated, and has no connections.
LEMMA BindPreserves ==
  ASSUME DaemonInv, NEW d \in Daemons, Bind(d)
  PROVE  DaemonInv'
<1> USE DaemonAssumption DEF DaemonInv, env, daemonVars, serverVars, shellVars
<1>1. TypeOK'
  BY DEF Bind, TypeOK, retriesOnShutdown
<1>2. BoundOnce'
  BY DEF Bind, BoundOnce, TypeOK, Before, Of
<1>3. OutdatedFirst'
  BY DEF Bind, OutdatedFirst, TypeOK, Of, BoundOnce, Before
<1>4. ShellOK'
  BY DEF Bind, ShellOK, TypeOK, Before
<1>5. ForgottenOK'
  BY DEF Bind, ForgottenOK, TypeOK, Of, BoundOnce, Before
<1>6. ConnectedUpToDate'
  BY DEF Bind, ConnectedUpToDate, TypeOK
<1> QED
  BY <1>1, <1>2, <1>3, <1>4, <1>5, <1>6

\* listen(2) preserves the invariant.
LEMMA ListenPreserves ==
  ASSUME DaemonInv, NEW d \in Daemons, Listen(d)
  PROVE  DaemonInv'
<1> USE DaemonAssumption DEF DaemonInv, env, daemonVars, serverVars, shellVars
<1>1. TypeOK'
  BY DEF Listen, TypeOK, retriesOnShutdown
<1>2. BoundOnce'
  BY DEF Listen, BoundOnce, TypeOK, Before, Of
<1>3. OutdatedFirst'
  BY DEF Listen, OutdatedFirst, TypeOK, Of
<1>4. ShellOK'
  BY DEF Listen, ShellOK, TypeOK, Before
<1>5. ForgottenOK'
  BY DEF Listen, ForgottenOK, TypeOK, Of
<1>6. ConnectedUpToDate'
  BY DEF Listen, ConnectedUpToDate, TypeOK
<1> QED
  BY <1>1, <1>2, <1>3, <1>4, <1>5, <1>6

\* The opening of the database preserves the invariant.
LEMMA OpenStorePreserves ==
  ASSUME DaemonInv, NEW d \in Daemons, OpenStore(d)
  PROVE  DaemonInv'
<1> USE DaemonAssumption DEF DaemonInv, env, daemonVars, serverVars, shellVars
<1>1. TypeOK'
  BY DEF OpenStore, TypeOK, retriesOnShutdown
<1>2. BoundOnce'
  BY DEF OpenStore, BoundOnce, TypeOK, Before, Of
<1>3. OutdatedFirst'
  BY DEF OpenStore, OutdatedFirst, TypeOK, Of
<1>4. ShellOK'
  BY DEF OpenStore, ShellOK, TypeOK, Before
<1>5. ForgottenOK'
  BY DEF OpenStore, ForgottenOK, TypeOK, Of
<1>6. ConnectedUpToDate'
  BY DEF OpenStore, ConnectedUpToDate, TypeOK
<1> QED
  BY <1>1, <1>2, <1>3, <1>4, <1>5, <1>6

\* Accepting a connection moves it from the backlog to connCh.
LEMMA AcceptPreserves ==
  ASSUME DaemonInv, NEW d \in Daemons, NEW s \in Shells, Accept(d, s)
  PROVE  DaemonInv'
<1> USE DaemonAssumption DEF DaemonInv, env, daemonVars, serverVars, shellVars
<1>1. TypeOK'
  BY DEF Accept, TypeOK, retriesOnShutdown
<1>2. BoundOnce'
  BY DEF Accept, BoundOnce, TypeOK, Before, Of
<1>3. OutdatedFirst'
  BY DEF Accept, OutdatedFirst, TypeOK, Of
<1>4. ShellOK'
  BY DEF Accept, ShellOK, TypeOK, Before
<1>5. ForgottenOK'
  BY DEF Accept, ForgottenOK, TypeOK, Of
<1>6. ConnectedUpToDate'
  BY DEF Accept, ConnectedUpToDate, TypeOK
<1> QED
  BY <1>1, <1>2, <1>3, <1>4, <1>5, <1>6

\* The end of the accepting goroutine preserves the invariant.
LEMMA AcceptFailsPreserves ==
  ASSUME DaemonInv, NEW d \in Daemons, AcceptFails(d)
  PROVE  DaemonInv'
<1> USE DaemonAssumption DEF DaemonInv, env, daemonVars, serverVars, shellVars
<1>1. TypeOK'
  BY DEF AcceptFails, Fault, TypeOK, retriesOnShutdown
<1>2. BoundOnce'
  BY DEF AcceptFails, Fault, BoundOnce, TypeOK, Before, Of
<1>3. OutdatedFirst'
  BY DEF AcceptFails, Fault, OutdatedFirst, TypeOK, Of
<1>4. ShellOK'
  BY DEF AcceptFails, Fault, ShellOK, TypeOK, Before
<1>5. ForgottenOK'
  BY DEF AcceptFails, Fault, ForgottenOK, TypeOK, Of
<1>6. ConnectedUpToDate'
  BY DEF AcceptFails, Fault, ConnectedUpToDate, TypeOK
<1> QED
  BY <1>1, <1>2, <1>3, <1>4, <1>5, <1>6

\* Serving a connection moves it from connCh to conns.
LEMMA ServeConnPreserves ==
  ASSUME DaemonInv, NEW d \in Daemons, NEW s \in Shells, ServeConn(d, s)
  PROVE  DaemonInv'
<1> USE DaemonAssumption DEF DaemonInv, env, daemonVars, serverVars, shellVars
<1>1. TypeOK'
  BY DEF ServeConn, TypeOK, retriesOnShutdown
<1>2. BoundOnce'
  BY DEF ServeConn, BoundOnce, TypeOK, Before, Of
<1>3. OutdatedFirst'
  BY DEF ServeConn, OutdatedFirst, TypeOK, Of
<1>4. ShellOK'
  BY DEF ServeConn, ShellOK, TypeOK, Before
<1>5. ForgottenOK'
  BY DEF ServeConn, ForgottenOK, TypeOK, Of
<1>6. ConnectedUpToDate'
  BY DEF ServeConn, ConnectedUpToDate, TypeOK
<1> QED
  BY <1>1, <1>2, <1>3, <1>4, <1>5, <1>6

\* The end of a connection preserves the invariant.
LEMMA ConnDonePreserves ==
  ASSUME DaemonInv, NEW d \in Daemons, NEW s \in Shells, ConnDone(d, s)
  PROVE  DaemonInv'
<1> USE DaemonAssumption DEF DaemonInv, env, daemonVars, serverVars, shellVars
<1>1. TypeOK'
  BY DEF ConnDone, AfterConnDone, TypeOK, retriesOnShutdown
<1>2. BoundOnce'
  BY DEF ConnDone, AfterConnDone, BoundOnce, TypeOK, Before, Of
<1>3. OutdatedFirst'
  BY DEF ConnDone, AfterConnDone, OutdatedFirst, TypeOK, Of
<1>4. ShellOK'
  BY DEF ConnDone, AfterConnDone, ShellOK, TypeOK, Before
<1>5. ForgottenOK'
  BY DEF ConnDone, AfterConnDone, ForgottenOK, TypeOK, Of
<1>6. ConnectedUpToDate'
  BY DEF ConnDone, AfterConnDone, ConnectedUpToDate, TypeOK
<1> QED
  BY <1>1, <1>2, <1>3, <1>4, <1>5, <1>6

\* The end of a connection of an older shell preserves the invariant.
LEMMA OldConnDonePreserves ==
  ASSUME DaemonInv, NEW d \in Daemons, OldConnDone(d)
  PROVE  DaemonInv'
<1> USE DaemonAssumption DEF DaemonInv, env, daemonVars, serverVars, shellVars
<1>1. TypeOK'
  BY DEF OldConnDone, AfterConnDone, TypeOK, retriesOnShutdown
<1>2. BoundOnce'
  BY DEF OldConnDone, AfterConnDone, BoundOnce, TypeOK, Before, Of
<1>3. OutdatedFirst'
  BY DEF OldConnDone, AfterConnDone, OutdatedFirst, TypeOK, Of
<1>4. ShellOK'
  BY DEF OldConnDone, AfterConnDone, ShellOK, TypeOK, Before
<1>5. ForgottenOK'
  BY DEF OldConnDone, AfterConnDone, ForgottenOK, TypeOK, Of
<1>6. ConnectedUpToDate'
  BY DEF OldConnDone, AfterConnDone, ConnectedUpToDate, TypeOK
<1> QED
  BY <1>1, <1>2, <1>3, <1>4, <1>5, <1>6

\* An error from the listener preserves the invariant.
LEMMA ListenErrPreserves ==
  ASSUME DaemonInv, NEW d \in Daemons, ListenErr(d)
  PROVE  DaemonInv'
<1> USE DaemonAssumption DEF DaemonInv, env, daemonVars, serverVars, shellVars
<1>1. TypeOK'
  BY DEF ListenErr, TypeOK, retriesOnShutdown
<1>2. BoundOnce'
  BY DEF ListenErr, BoundOnce, TypeOK, Before, Of
<1>3. OutdatedFirst'
  BY DEF ListenErr, OutdatedFirst, TypeOK, Of
<1>4. ShellOK'
  BY DEF ListenErr, ShellOK, TypeOK, Before
<1>5. ForgottenOK'
  BY DEF ListenErr, ForgottenOK, TypeOK, Of
<1>6. ConnectedUpToDate'
  BY DEF ListenErr, ConnectedUpToDate, TypeOK
<1> QED
  BY <1>1, <1>2, <1>3, <1>4, <1>5, <1>6

\* A signal, which closes the connections, preserves the invariant.
LEMMA HandleSignalPreserves ==
  ASSUME DaemonInv, NEW d \in Daemons, HandleSignal(d)
  PROVE  DaemonInv'
<1> USE DaemonAssumption DEF DaemonInv, env, daemonVars, serverVars, shellVars
<1>1. TypeOK'
  BY DEF HandleSignal, TypeOK, retriesOnShutdown
<1>2. BoundOnce'
  BY DEF HandleSignal, BoundOnce, TypeOK, Before, Of
<1>3. OutdatedFirst'
  BY DEF HandleSignal, OutdatedFirst, TypeOK, Of
<1>4. ShellOK'
  BY DEF HandleSignal, ShellOK, TypeOK, Before
<1>5. ForgottenOK'
  BY DEF HandleSignal, ForgottenOK, TypeOK, Of
<1>6. ConnectedUpToDate'
  BY DEF HandleSignal, ConnectedUpToDate, TypeOK
<1> QED
  BY <1>1, <1>2, <1>3, <1>4, <1>5, <1>6

\* The removal of the file, even that of another daemon, preserves the invariant.
LEMMA RemoveSockPreserves ==
  ASSUME DaemonInv, NEW d \in Daemons, RemoveSock(d)
  PROVE  DaemonInv'
<1> USE DaemonAssumption DEF DaemonInv, env, daemonVars, serverVars, shellVars
<1>1. TypeOK'
  BY DEF RemoveSock, TypeOK, retriesOnShutdown
<1>2. BoundOnce'
  BY DEF RemoveSock, BoundOnce, TypeOK, Before, Of
<1>3. OutdatedFirst'
  BY DEF RemoveSock, OutdatedFirst, TypeOK, Of
<1>4. ShellOK'
  BY DEF RemoveSock, ShellOK, TypeOK, Before
<1>5. ForgottenOK'
  BY DEF RemoveSock, ForgottenOK, TypeOK, Of
<1>6. ConnectedUpToDate'
  BY DEF RemoveSock, ConnectedUpToDate, TypeOK
<1> QED
  BY <1>1, <1>2, <1>3, <1>4, <1>5, <1>6

\* Closing the database preserves the invariant.
LEMMA CloseStorePreserves ==
  ASSUME DaemonInv, NEW d \in Daemons, CloseStore(d)
  PROVE  DaemonInv'
<1> USE DaemonAssumption DEF DaemonInv, env, daemonVars, serverVars, shellVars
<1>1. TypeOK'
  BY DEF CloseStore, Unlock, TypeOK, retriesOnShutdown
<1>2. BoundOnce'
  BY DEF CloseStore, Unlock, BoundOnce, TypeOK, Before, Of
<1>3. OutdatedFirst'
  BY DEF CloseStore, Unlock, OutdatedFirst, TypeOK, Of
<1>4. ShellOK'
  BY DEF CloseStore, Unlock, ShellOK, TypeOK, Before
<1>5. ForgottenOK'
  BY DEF CloseStore, Unlock, ForgottenOK, TypeOK, Of
<1>6. ConnectedUpToDate'
  BY DEF CloseStore, Unlock, ConnectedUpToDate, TypeOK
<1> QED
  BY <1>1, <1>2, <1>3, <1>4, <1>5, <1>6

\* Closing the listener, which removes whatever file there is, preserves the invariant.
LEMMA CloseListenerPreserves ==
  ASSUME DaemonInv, NEW d \in Daemons, CloseListener(d)
  PROVE  DaemonInv'
<1> USE DaemonAssumption DEF DaemonInv, env, daemonVars, serverVars, shellVars
<1>1. TypeOK'
  BY DEF CloseListener, NoConns, TypeOK, retriesOnShutdown
<1>2. BoundOnce'
  BY DEF CloseListener, NoConns, BoundOnce, TypeOK, Before, Of
<1>3. OutdatedFirst'
  BY DEF CloseListener, NoConns, OutdatedFirst, TypeOK, Of
<1>4. ShellOK'
  BY DEF CloseListener, NoConns, ShellOK, TypeOK, Before
<1>5. ForgottenOK'
  BY DEF CloseListener, NoConns, ForgottenOK, TypeOK, Of
<1>6. ConnectedUpToDate'
  BY DEF CloseListener, NoConns, ConnectedUpToDate, TypeOK
<1> QED
  BY <1>1, <1>2, <1>3, <1>4, <1>5, <1>6

\* The crash of a daemon preserves the invariant.
LEMMA CrashPreserves ==
  ASSUME DaemonInv, NEW d \in Daemons, Crash(d)
  PROVE  DaemonInv'
<1> USE DaemonAssumption DEF DaemonInv, env, daemonVars, serverVars, shellVars
<1>1. TypeOK'
  BY DEF Crash, Fault, NoConns, Unlock, TypeOK, retriesOnShutdown
<1>2. BoundOnce'
  BY DEF Crash, Fault, NoConns, Unlock, BoundOnce, TypeOK, Before, Of
<1>3. OutdatedFirst'
  BY DEF Crash, Fault, NoConns, Unlock, OutdatedFirst, TypeOK, Of
<1>4. ShellOK'
  BY DEF Crash, Fault, NoConns, Unlock, ShellOK, TypeOK, Before
<1>5. ForgottenOK'
  BY DEF Crash, Fault, NoConns, Unlock, ForgottenOK, TypeOK, Of
<1>6. ConnectedUpToDate'
  BY DEF Crash, Fault, NoConns, Unlock, ConnectedUpToDate, TypeOK
<1> QED
  BY <1>1, <1>2, <1>3, <1>4, <1>5, <1>6

-----------------------------------------------------------------------------
(* The theorems.                                                           *)

\* With at most an outdated daemon running the invariant holds.
LEMMA DaemonInitInv == Init => DaemonInv
<1> SUFFICES ASSUME Init
             PROVE  DaemonInv
  OBVIOUS
<1> USE DaemonAssumption DEF Init
<1>1. file \in Outdated \cup {None} /\ faults \in Nat /\ timely \in BOOLEAN
  OBVIOUS
<1>2. TypeOK
  BY <1>1 DEF TypeOK, retriesOnShutdown
<1>3. BoundOnce
  BY <1>1 DEF BoundOnce, Before, Of
<1>4. OutdatedFirst
  BY <1>1 DEF OutdatedFirst, Of
<1>5. ShellOK /\ ForgottenOK /\ ConnectedUpToDate
  BY <1>1 DEF ShellOK, ForgottenOK, ConnectedUpToDate, Of
<1> QED
  BY <1>2, <1>3, <1>4, <1>5 DEF DaemonInv

\* The invariant is inductive.
LEMMA DaemonInductive == DaemonInv /\ [Next]_vars => DaemonInv'
<1> SUFFICES ASSUME DaemonInv, [Next]_vars
             PROVE  DaemonInv'
  OBVIOUS
<1>1. ASSUME NEW s \in Shells, ShellStep(s)
      PROVE  DaemonInv'
  <2>1. CASE ActivateStep(s)
    BY <2>1, LstatPreserves, DialPreserves, GotVersionPreserves, GotPidPreserves, CallBrokenPreserves,
       RemoveStalePreserves, SignalPreserves, KillWaitPreserves, SpawnPreserves, PollPreserves DEF ActivateStep
  <2> QED
    BY <1>1, <2>1, LstatFailsPreserves, SpawnFailsPreserves, TimeoutPreserves, ReconnectPreserves, ExitPreserves, DiePreserves
       DEF ShellStep
<1>2. ASSUME NEW d \in Daemons, DaemonStep(d) \/ OldConnDone(d) \/ AcceptFails(d) \/ Crash(d)
      PROVE  DaemonInv'
  <2>1. CASE LoopStep(d)
    BY <2>1, ServeConnPreserves, ConnDonePreserves, ListenErrPreserves, HandleSignalPreserves DEF LoopStep
  <2> QED
    BY <1>2, <2>1, BindPreserves, ListenPreserves, OpenStorePreserves, RemoveSockPreserves,
       CloseStorePreserves, CloseListenerPreserves, OldConnDonePreserves, AcceptFailsPreserves,
       CrashPreserves DEF DaemonStep
<1>3. ASSUME NEW d \in Daemons, NEW s \in Shells, Accept(d, s)
      PROVE  DaemonInv'
  BY <1>3, AcceptPreserves
<1>4. CASE UNCHANGED vars
  <2> USE <1>4 DEF DaemonInv, vars, serverVars, daemonVars, shellVars, env
  <2>1. TypeOK'
    BY DEF TypeOK
  <2>2. BoundOnce' /\ OutdatedFirst'
    BY DEF BoundOnce, OutdatedFirst, Before, Of
  <2>3. ShellOK' /\ ForgottenOK' /\ ConnectedUpToDate'
    BY DEF ShellOK, ForgottenOK, ConnectedUpToDate, Before, Of
  <2> QED
    BY <2>1, <2>2, <2>3
<1> QED
  BY <1>1, <1>2, <1>3, <1>4 DEF Next

\* Every state of shells and daemons is as declared; in particular no shell stands twice
\* among the connections of a daemon, so that the end of the one is never taken for the
\* end of the other.
THEOREM DaemonTypeCorrect == Spec => []TypeOK
<1>1. DaemonInv => TypeOK
  BY DEF DaemonInv
<1> QED
  BY <1>1, DaemonInitInv, DaemonInductive, PTL DEF Spec

\* A shell whose Activate succeeded never talks to an outdated daemon, though its client
\* reconnects without asking for the version, for any number of shells that start, kill
\* and replace daemons, and of daemons that remove each other's socket files.
THEOREM DaemonConnectedUpToDate == Spec => []ConnectedUpToDate
<1>1. DaemonInv => ConnectedUpToDate
  BY DEF DaemonInv
<1> QED
  BY <1>1, DaemonInitInv, DaemonInductive, PTL DEF Spec

\* An outdated daemon that has the socket file has never been replaced: no daemon of the
\* shells' own version has served one of them or opened the database, and no Activate has
\* succeeded.
ReplacedForGood ==
    file \in Outdated =>
        served \cup store \subseteq Outdated /\ \A s \in Shells : spc[s] # "ok"

\* Replacing a daemon is for good: once a daemon of the new version has served a shell or
\* opened the database, or Activate has succeeded in any shell, the socket file is never
\* again that of the outdated daemon, so no client can be led back to it, whichever
\* processes crash, remove the file or bind it meanwhile.
THEOREM DaemonReplacedForGood == Spec => []ReplacedForGood
<1>1. Init => ReplacedForGood
  BY DaemonAssumption DEF Init, ReplacedForGood
<1>2. DaemonInv /\ ReplacedForGood /\ [Next]_vars => ReplacedForGood'
  <2> SUFFICES ASSUME DaemonInv, DaemonInv', ReplacedForGood, [Next]_vars, file' \in Outdated
               PROVE  (served \cup store)' \subseteq Outdated
    BY DaemonInductive DEF ReplacedForGood, DaemonInv, OutdatedFirst
  <2> USE DEF env, daemonVars, serverVars, shellVars
  <2>1. file' \in {file, None} \/ \E d \in Daemons : Bind(d)
    BY DEF vars, Next, ShellStep, ActivateStep, DaemonStep, LoopStep, Lstat, LstatFails, Dial, GotVersion,
       GotPid, CallBroken, RemoveStale, Signal, KillWait, Spawn, SpawnFails, Poll, Timeout, Reconnect, Exit,
       Die, Listen, OpenStore, Accept, AcceptFails, ServeConn, ConnDone, OldConnDone, ListenErr,
       HandleSignal, RemoveSock, CloseStore, CloseListener, Crash
  <2>2. file' = file
    BY <2>1, DaemonAssumption DEF DaemonInv, BoundOnce, Before, Bind
  <2>3. served \cup store \subseteq Outdated
    BY <2>2 DEF ReplacedForGood
  <2>4. \A d \in Daemons \ Outdated : Of(d) = {} /\ dpc[d] \in {"unborn", "bind", "dead"}
    BY <2>2 DEF DaemonInv, OutdatedFirst
  <2>5. \/ <<served, store>>' = <<served, store>>
        \/ \E d \in Daemons : OpenStore(d)
        \/ \E d \in Daemons, s \in Shells : ServeConn(d, s)
    BY DEF vars, Next, ShellStep, ActivateStep, DaemonStep, LoopStep, Lstat, LstatFails, Fault, Dial,
       GotVersion, GotPid, CallBroken, RemoveStale, Signal, KillWait, Spawn, SpawnFails, Poll, Timeout,
       Reconnect, Exit, Die, Bind, Listen, Accept, AcceptFails, ConnDone, OldConnDone, ListenErr,
       HandleSignal, RemoveSock, CloseStore, CloseListener, Crash
  <2>6. ASSUME NEW d \in Daemons, OpenStore(d)
        PROVE  (served \cup store)' \subseteq Outdated
    BY <2>3, <2>4, <2>6 DEF OpenStore
  <2>7. ASSUME NEW d \in Daemons, NEW s \in Shells, ServeConn(d, s)
        PROVE  (served \cup store)' \subseteq Outdated
    BY <2>3, <2>4, <2>7 DEF ServeConn
  <2> QED
    BY <2>3, <2>5, <2>6, <2>7
<1> QED
  BY <1>1, <1>2, DaemonInitInv, DaemonInductive, PTL DEF Spec
=============================================================================
