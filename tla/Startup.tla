------------------------------- MODULE Startup ------------------------------
(***************************************************************************)
(* The launches of the application on one machine: the permanent lock file *)
(* that elects a primary, the start of a primary, the runtime descriptor   *)
(* it publishes, the secondary that finds it, the launch tokens and        *)
(* sessions of each instance, the shutdown sequence with its marker, and   *)
(* the crash of a process at any step.  The lock belongs to the open file, *)
(* of which the process and its HTTP server each keep a handle (`lease');  *)
(* the files survive the process.                                          *)
(*                                                                         *)
(* A process is one launch, and stands for its instance id, its process id *)
(* and its launcher secret, which are fresh in each.  The operating system *)
(* reuses process ids and ports: a process id that is free may look alive, *)
(* and the port of an old descriptor may belong to another instance.       *)
(* Deadlines are steps that may come at any time.                          *)
(***************************************************************************)
EXTENDS Naturals, FiniteSets

CONSTANTS
  Launches,         \* processes started on this machine
  Ports             \* ports the operating system gives to listeners

Nobody == "nobody"
NoPort == "no_port"
UncleanShutdown == "unclean-shutdown.json"  \* PlatformPaths.unclean_shutdown

ASSUME StartupAssumption ==
  /\ {Nobody, UncleanShutdown} \cap Launches = {}
  /\ NoPort \notin Ports

VARIABLES
  stage,            \* how far each process is in `launch' or in its shutdown
  lease,            \* the handles each process keeps on the locked file
  server,           \* ServerRuntime.task
  port,             \* the port of the listener each process has bound
  ready,            \* StartupPhaseController
  gateClosed,       \* MutationLifecycle.closed
  tokens,           \* SecurityState.launch_tokens, by the launch each was made for
  sessions,         \* SecurityState.sessions, counted by the token they came from
  tab,              \* the URL each launch opened in a browser
  seen,             \* the descriptor a secondary is working with
  marker,           \* the worker that writes the shutdown marker
  outcome,          \* ShutdownOutcome
  descriptor,       \* instance.json
  temporaries,      \* instance.json.*.tmp
  markers,          \* unclean-shutdown.json and its per-instance files
  unsettled         \* history: who may have left tasks Queued or Running in the store

fileVars     == <<descriptor, temporaries, markers>>
securityVars == <<tokens, sessions, tab>>
shutdownVars == <<gateClosed, marker, outcome>>
vars == <<stage, lease, server, port, ready, seen, unsettled,
          fileVars, securityVars, shutdownVars>>

StartStages ==
  {"locked", "swept", "recovered", "cleared", "bound", "serving", "ready", "written",
   "published"}
SecondaryStages == {"looking", "probing", "reopening", "granted"}
ShutdownStages == {"quiescing", "draining", "stopping", "removing", "releasing"}
Stages ==
  {"new", "running", "failing", "failed", "opened", "released", "gone"}
    \cup StartStages \cup SecondaryStages \cup ShutdownStages

Alive(p) == stage[p] \notin {"new", "gone"}
Locked == \E p \in Launches : lease[p] # {}
ServerIsUp(p) == server[p] \in {"running", "stopping"}
Listens(p) == stage[p] = "bound" \/ ServerIsUp(p)

NoTab == [port |-> NoPort, by |-> Nobody]

Init ==
  /\ stage = [p \in Launches |-> "new"]
  /\ lease = [p \in Launches |-> {}]
  /\ server = [p \in Launches |-> "none"]
  /\ port = [p \in Launches |-> NoPort]
  /\ ready = [p \in Launches |-> FALSE]
  /\ gateClosed = [p \in Launches |-> FALSE]
  /\ tokens = [p \in Launches |-> {}]
  /\ sessions = [p \in Launches |-> 0]
  /\ tab = [p \in Launches |-> NoTab]
  /\ seen = [p \in Launches |-> Nobody]
  /\ marker = [p \in Launches |-> "none"]
  /\ outcome = [p \in Launches |-> "none"]
  /\ descriptor = Nobody /\ temporaries = {}
  \* an older version may have left a shutdown marker under the plain name
  /\ markers \in SUBSET {UncleanShutdown}
  /\ unsettled = markers

Goto(p, s) == stage' = [stage EXCEPT ![p] = s]
Drop(p, handle) == lease' = [lease EXCEPT ![p] = @ \ {handle}]

\* Cancelling or aborting the server leaves it `stopping' until its task has ended.
StopServer(p) ==
  server' = [server EXCEPT ![p] = IF @ = "running" THEN "stopping" ELSE @]

-----------------------------------------------------------------------------
(* launch: one attempt at the lock decides what the process is.            *)

BecomePrimary(p) ==
  /\ stage[p] = "new"
  /\ ~Locked
  /\ lease' = [lease EXCEPT ![p] = {"owner"}]
  /\ Goto(p, "locked")
  /\ UNCHANGED <<server, port, ready, seen, unsettled, fileVars, securityVars, shutdownVars>>

BecomeSecondary(p) ==
  /\ stage[p] = "new"
  /\ Locked
  /\ Goto(p, "looking")
  /\ UNCHANGED <<lease, server, port, ready, seen, unsettled,
                 fileVars, securityVars, shutdownVars>>

\* The paths cannot be prepared, or the lock file is not a private regular file.
LaunchFails(p) ==
  /\ stage[p] = "new"
  /\ Goto(p, "failed")
  /\ UNCHANGED <<lease, server, port, ready, seen, unsettled,
                 fileVars, securityVars, shutdownVars>>

-----------------------------------------------------------------------------
(* start_primary.                                                          *)

\* Mutant: the leftovers are swept together with the markers.
RemoveStaleDescriptors_Mutant(p) ==
  /\ stage[p] = "locked"
  /\ descriptor' = Nobody /\ temporaries' = {} /\ markers' = {}
  /\ Goto(p, "swept")
  /\ UNCHANGED <<lease, server, port, ready, seen, unsettled, securityVars, shutdownVars>>

RemoveStaleDescriptors(p) ==
  /\ stage[p] = "locked"
  /\ descriptor' = Nobody /\ temporaries' = {}
  /\ Goto(p, "swept")
  /\ UNCHANGED <<lease, server, port, ready, seen, unsettled, markers,
                 securityVars, shutdownVars>>

\* The store is opened and migrated, and every incomplete task interrupted, in
\* one transaction.
RecoverIncomplete(p) ==
  /\ stage[p] = "swept"
  /\ unsettled' = {}
  /\ Goto(p, "recovered")
  /\ UNCHANGED <<lease, server, port, ready, seen, fileVars, securityVars, shutdownVars>>

\* A file that cannot be removed is left behind; the start goes on.
RemoveRecoveredMarkers(p) ==
  /\ stage[p] = "recovered"
  /\ \E kept \in SUBSET markers : markers' = kept
  /\ Goto(p, "cleared")
  /\ UNCHANGED <<lease, server, port, ready, seen, unsettled, descriptor, temporaries,
                 securityVars, shutdownVars>>

\* The system gives a listener a port that no other listener has.
FreePort(n) == \A q \in Launches : Listens(q) => port[q] # n

\* A token of instance `q' for the launch `l', in a map of its own.
IssueLaunchToken(q, l) ==
  tokens' = [tokens EXCEPT ![q] = @ \cup {l}]

\* SecuritySeed, the listener, and the SecurityManager with its initial token.
BindLoopback(p) ==
  /\ stage[p] = "cleared"
  /\ \E n \in Ports :
       /\ FreePort(n)
       /\ port' = [port EXCEPT ![p] = n]
  /\ IssueLaunchToken(p, p)
  /\ Goto(p, "bound")
  /\ UNCHANGED <<lease, server, ready, seen, unsettled, fileVars, sessions, tab,
                 shutdownVars>>

\* Mutant: the server keeps no handle of the lock.
SpawnServer_Mutant(p) ==
  /\ stage[p] = "bound"
  /\ server' = [server EXCEPT ![p] = "running"]
  /\ Goto(p, "serving")
  /\ UNCHANGED <<lease, port, ready, seen, unsettled, fileVars, securityVars, shutdownVars>>

\* The actors, the router and the server, which keeps the lock for itself too.
SpawnServer(p) ==
  /\ stage[p] = "bound"
  /\ server' = [server EXCEPT ![p] = "running"]
  /\ lease' = [lease EXCEPT ![p] = @ \cup {"server"}]
  /\ Goto(p, "serving")
  /\ UNCHANGED <<port, ready, seen, unsettled, fileVars, securityVars, shutdownVars>>

\* The process asks itself over its own listener, then opens the public routes.
SelfProbe(p) ==
  /\ stage[p] = "serving"
  /\ server[p] = "running"
  /\ ~ready[p]
  /\ ready' = [ready EXCEPT ![p] = TRUE]
  /\ Goto(p, "ready")
  /\ UNCHANGED <<lease, server, port, seen, unsettled, fileVars, securityVars, shutdownVars>>

\* RuntimeDescriptor::publish: a synced temporary file takes the place of the
\* descriptor in one step.
WriteTemporary(p) ==
  /\ stage[p] = "ready"
  /\ temporaries' = temporaries \cup {p}
  /\ Goto(p, "written")
  /\ UNCHANGED <<lease, server, port, ready, seen, unsettled, descriptor, markers,
                 securityVars, shutdownVars>>

ReplaceDescriptor(p) ==
  /\ stage[p] = "written"
  /\ descriptor' = p
  /\ temporaries' = temporaries \ {p}
  /\ Goto(p, "published")
  /\ UNCHANGED <<lease, server, port, ready, seen, unsettled, markers,
                 securityVars, shutdownVars>>

\* publish fails at the temporary file, the rename or the sync that follows it.
PublishFails(p) ==
  /\ stage[p] \in {"ready", "written", "published"}
  /\ temporaries' = temporaries \ {p}
  /\ descriptor' = Nobody
  /\ Goto(p, "failing")
  /\ UNCHANGED <<lease, server, port, ready, seen, unsettled, markers,
                 securityVars, shutdownVars>>

\* The browser gets the initial token, or the user the URL in a native message.
OpenInitialTab(p) ==
  /\ stage[p] = "published"
  /\ tab' = [tab EXCEPT ![p] = [port |-> port[p], by |-> p]]
  /\ Goto(p, "running")
  /\ UNCHANGED <<lease, server, port, ready, seen, unsettled, fileVars, tokens, sessions,
                 shutdownVars>>

\* Any step before the descriptor fails: the store, the random source, the
\* listener, an actor, the self probe; or the launch is dropped while it waits.
StartFails(p) ==
  /\ stage[p] \in {"locked", "swept", "recovered", "cleared", "bound", "serving"}
  /\ Goto(p, "failing")
  /\ UNCHANGED <<lease, server, port, ready, seen, unsettled,
                 fileVars, securityVars, shutdownVars>>

\* What start_primary had built is dropped: the server is aborted, the lock let go.
DropStart(p) ==
  /\ stage[p] = "failing"
  /\ StopServer(p)
  /\ Drop(p, "owner")
  /\ Goto(p, "failed")
  /\ UNCHANGED <<port, ready, seen, unsettled, fileVars, securityVars, shutdownVars>>

-----------------------------------------------------------------------------
(* The local endpoints of a server, and start_secondary.                   *)

\* Mutant: any launcher on this machine is trusted.
AuthorizeLauncher_Mutant(q, d) == TRUE

\* The launcher secret of descriptor `d' is the one of the server `q'.
AuthorizeLauncher(q, d) == q = d

\* The server that answers at the port of the descriptor `s' has read.
Answers(q, s) == ServerIsUp(q) /\ port[q] = port[seen[s]]

\* A process that lives is never taken for dead; one that is over may be taken
\* for alive, since its id may have been given to another process.
ReadDescriptor(s) ==
  /\ stage[s] = "looking"
  /\ descriptor # Nobody
  /\ seen' = [seen EXCEPT ![s] = descriptor]
  /\ Goto(s, "probing")
  /\ UNCHANGED <<lease, server, port, ready, unsettled, fileVars, securityVars, shutdownVars>>

\* local_ready: the caller's secret, then the id of the instance and its phase.
ProbeReady(s) ==
  /\ stage[s] = "probing"
  /\ \E q \in Launches :
       /\ Answers(q, s)
       /\ AuthorizeLauncher(q, seen[s])
       /\ q = seen[s] /\ ready[q]
  /\ Goto(s, "reopening")
  /\ UNCHANGED <<lease, server, port, ready, seen, unsettled,
                 fileVars, securityVars, shutdownVars>>

\* local_reopen: a token for the launch that asks.
RequestReopen(s) ==
  /\ stage[s] = "reopening"
  /\ \E q \in Launches :
       /\ Answers(q, s)
       /\ AuthorizeLauncher(q, seen[s])
       /\ ready[q]
       /\ IssueLaunchToken(q, s)
       /\ tab' = [tab EXCEPT ![s] = [port |-> port[seen[s]], by |-> q]]
  /\ Goto(s, "granted")
  /\ UNCHANGED <<lease, server, port, ready, seen, unsettled, fileVars, sessions,
                 shutdownVars>>

\* validate_reopen_grant refuses a token that has lost ten seconds of its life.
OpenGrantedTab(s) ==
  /\ stage[s] = "granted"
  /\ s \in tokens[tab[s].by]
  /\ Goto(s, "opened")
  /\ UNCHANGED <<lease, server, port, ready, seen, unsettled,
                 fileVars, securityVars, shutdownVars>>

\* A refusal, another instance's answer, a lost or a late one: the descriptor is
\* read again after a delay.
TryAgain(s) ==
  /\ stage[s] \in {"probing", "reopening", "granted"}
  /\ tab' = [tab EXCEPT ![s] = NoTab]
  /\ seen' = [seen EXCEPT ![s] = Nobody]
  /\ Goto(s, "looking")
  /\ UNCHANGED <<lease, server, port, ready, unsettled, fileVars, tokens, sessions,
                 shutdownVars>>

\* SECONDARY_DEADLINE: the lock is taken and no primary could be verified.
PrimaryUnverified(s) ==
  /\ stage[s] \in SecondaryStages
  /\ tab' = [tab EXCEPT ![s] = NoTab]
  /\ Goto(s, "failed")
  /\ UNCHANGED <<lease, server, port, ready, seen, unsettled, fileVars, tokens, sessions,
                 shutdownVars>>

-----------------------------------------------------------------------------
(* The URL in a browser: the token is exchanged for a session.             *)

\* runtime_guard: the public routes are closed while the process starts.
Serves(q) == ServerIsUp(q) /\ ready[q]

\* Mutant: the token is compared and left in the map.
Exchange_Mutant(l) ==
  /\ stage[l] \notin {"new", "granted"}
  /\ \E q \in Launches :
       /\ Serves(q) /\ port[q] = tab[l].port
       /\ tab[l].by = q /\ l \in tokens[q]
  /\ sessions' \in {sessions, [sessions EXCEPT ![l] = @ + 1]}
  /\ UNCHANGED <<stage, lease, server, port, ready, seen, unsettled, fileVars, tokens, tab,
                 shutdownVars>>

\* consume_launch_token and create_session; the random source may fail between
\* them, and the token is lost.
Exchange(l) ==
  /\ stage[l] \notin {"new", "granted"}
  /\ \E q \in Launches :
       /\ Serves(q) /\ port[q] = tab[l].port
       /\ tab[l].by = q /\ l \in tokens[q]
       /\ tokens' = [tokens EXCEPT ![q] = @ \ {l}]
  /\ sessions' \in {sessions, [sessions EXCEPT ![l] = @ + 1]}
  /\ UNCHANGED <<stage, lease, server, port, ready, seen, unsettled, fileVars, tab,
                 shutdownVars>>

\* LAUNCH_TOKEN_LIFETIME: an expired record is dropped before any is compared.
ExpireToken(q, l) ==
  /\ l \in tokens[q]
  /\ tokens' = [tokens EXCEPT ![q] = @ \ {l}]
  /\ UNCHANGED <<stage, lease, server, port, ready, seen, unsettled, fileVars, sessions,
                 tab, shutdownVars>>

\* A mutation of a session passes the gate; the connection it came on is a task
\* of its own and outlives the server.
AdmitMutation(q) ==
  /\ Alive(q) /\ ready[q]
  /\ ~gateClosed[q]
  /\ \E l \in Launches : tab[l].by = q /\ sessions[l] > 0
  /\ unsettled' = unsettled \cup {q}
  /\ UNCHANGED <<stage, lease, server, port, ready, seen, fileVars, securityVars,
                 shutdownVars>>

-----------------------------------------------------------------------------
(* Shutdown: ShutdownCoordinator, RuntimeShutdown, PrimaryRuntimeCleanup.  *)

\* A signal or the quit request of the web UI; the gate is closed first.
Quit(p) ==
  /\ stage[p] = "running"
  /\ gateClosed' = [gateClosed EXCEPT ![p] = TRUE]
  /\ Goto(p, "quiescing")
  /\ UNCHANGED <<lease, server, port, ready, seen, unsettled, fileVars, securityVars,
                 marker, outcome>>

\* Mutant: the cleanup of a drop forgets the gate.
DropRuntime_Mutant(p) ==
  /\ stage[p] = "running"
  /\ outcome' = [outcome EXCEPT ![p] = "Degraded"]
  /\ StopServer(p)
  /\ Goto(p, "removing")
  /\ UNCHANGED <<lease, port, ready, seen, unsettled, fileVars, securityVars, gateClosed,
                 marker>>

\* The PrimaryRuntime is dropped without a shutdown (the dialog host of the main
\* thread stopped): the gate is closed, the server aborted, nothing is awaited.
DropRuntime(p) ==
  /\ stage[p] = "running"
  /\ gateClosed' = [gateClosed EXCEPT ![p] = TRUE]
  /\ outcome' = [outcome EXCEPT ![p] = "Degraded"]
  /\ StopServer(p)
  /\ Goto(p, "removing")
  /\ UNCHANGED <<lease, port, ready, seen, unsettled, fileVars, securityVars, marker>>

\* Every task is settled in the store within SHUTDOWN_PERSISTENCE_BUDGET.
QuiesceDurable(p) ==
  /\ stage[p] = "quiescing"
  /\ unsettled' = unsettled \ {p}
  /\ outcome' = [outcome EXCEPT ![p] = "Clean"]
  /\ Goto(p, "draining")
  /\ UNCHANGED <<lease, server, port, ready, seen, fileVars, securityVars, gateClosed, marker>>

\* The marker writer is started and the server stopped at once.
StopDegraded(p) ==
  /\ outcome' = [outcome EXCEPT ![p] = "Degraded"]
  /\ marker' = [marker EXCEPT ![p] = IF @ = "none" THEN "writing" ELSE @]
  /\ StopServer(p)
  /\ Goto(p, "stopping")
  /\ UNCHANGED <<lease, port, ready, seen, unsettled, fileVars, securityVars, gateClosed>>

QuiesceFails(p) == stage[p] = "quiescing" /\ StopDegraded(p)

\* The runners, the dispatcher and the checkpoint have had their time: the server
\* is told to finish its connections.
StopHttp(p) ==
  /\ stage[p] = "draining"
  /\ StopServer(p)
  /\ Goto(p, "stopping")
  /\ UNCHANGED <<lease, port, ready, seen, unsettled, fileVars, securityVars, shutdownVars>>

\* emergency_shutdown: the shutdown task panicked.
ShutdownPanics(p) ==
  /\ stage[p] \in {"quiescing", "draining", "stopping"}
  /\ outcome[p] # "Degraded"
  /\ StopDegraded(p)

\* So did emergency_shutdown: all that is left is the cleanup.
EmergencyPanics(p) ==
  /\ stage[p] = "stopping" /\ outcome[p] = "Degraded"
  /\ StopServer(p)
  /\ Goto(p, "removing")
  /\ UNCHANGED <<lease, port, ready, seen, unsettled, fileVars, securityVars, shutdownVars>>

\* The server's task has ended, by itself or aborted; its handle of the lock goes.
ServerEnds(p) ==
  /\ server[p] = "stopping"
  /\ server' = [server EXCEPT ![p] = "ended"]
  /\ Drop(p, "server")
  /\ UNCHANGED <<stage, port, ready, seen, unsettled, fileVars, securityVars, shutdownVars>>

\* The blocking worker of the marker; create_new of a file of its own.
WriteMarker(p) ==
  /\ Alive(p) /\ marker[p] = "writing"
  /\ marker' = [marker EXCEPT ![p] = "written"]
  /\ markers' = markers \cup {p}
  /\ UNCHANGED <<stage, lease, server, port, ready, seen, unsettled, descriptor,
                 temporaries, securityVars, gateClosed, outcome>>

MarkerFails(p) ==
  /\ Alive(p) /\ marker[p] = "writing"
  /\ marker' = [marker EXCEPT ![p] = "failed"]
  /\ UNCHANGED <<stage, lease, server, port, ready, seen, unsettled, fileVars,
                 securityVars, gateClosed, outcome>>

\* The worker is awaited to its deadline only, and may write after it.
FinishShutdown(p) ==
  /\ stage[p] = "stopping"
  /\ server[p] = "ended"
  /\ Goto(p, "removing")
  /\ UNCHANGED <<lease, server, port, ready, seen, unsettled,
                 fileVars, securityVars, shutdownVars>>

\* Mutant: the cleanup runs again when the runtime is dropped after its shutdown.
RemoveDescriptor_Mutant(p) ==
  /\ stage[p] \in {"removing", "released"}
  /\ descriptor' = Nobody
  /\ Goto(p, "releasing")
  /\ UNCHANGED <<lease, server, port, ready, seen, unsettled, temporaries, markers,
                 securityVars, shutdownVars>>

\* force_cleanup: under the lock, whatever instance.json is there is removed,
RemoveDescriptor(p) ==
  /\ stage[p] = "removing"
  /\ descriptor' = Nobody
  /\ Goto(p, "releasing")
  /\ UNCHANGED <<lease, server, port, ready, seen, unsettled, temporaries, markers,
                 securityVars, shutdownVars>>

\* then the lock is let go; a cleanup without the lock does nothing.
ReleaseLock(p) ==
  /\ stage[p] = "releasing"
  /\ Drop(p, "owner")
  /\ Goto(p, "released")
  /\ UNCHANGED <<server, port, ready, seen, unsettled, fileVars, securityVars, shutdownVars>>

-----------------------------------------------------------------------------
(* The process is over: the operating system closes its files and sockets, *)
(* its tokens and sessions are forgotten, a grant never becomes a tab.      *)

Vanish(p) ==
  /\ Goto(p, "gone")
  /\ lease' = [lease EXCEPT ![p] = {}]
  /\ server' = [server EXCEPT ![p] = "ended"]
  /\ tokens' = [tokens EXCEPT ![p] = {}]
  /\ sessions' = [l \in Launches |-> IF tab[l].by = p THEN 0 ELSE sessions[l]]
  /\ tab' = IF stage[p] = "granted" THEN [tab EXCEPT ![p] = NoTab] ELSE tab
  /\ UNCHANGED <<port, ready, seen, unsettled, fileVars, shutdownVars>>

Exit(p) == stage[p] \in {"released", "failed", "opened"} /\ Vanish(p)

Crash(p) == Alive(p) /\ Vanish(p)

-----------------------------------------------------------------------------

PrimaryStep(p) ==
  \/ RemoveStaleDescriptors(p) \/ RecoverIncomplete(p) \/ RemoveRecoveredMarkers(p)
  \/ BindLoopback(p) \/ SpawnServer(p) \/ SelfProbe(p)
  \/ WriteTemporary(p) \/ ReplaceDescriptor(p) \/ OpenInitialTab(p)
  \/ PublishFails(p) \/ StartFails(p) \/ DropStart(p)

SecondaryStep(p) ==
  \/ ReadDescriptor(p) \/ ProbeReady(p) \/ RequestReopen(p) \/ OpenGrantedTab(p)
  \/ TryAgain(p)

ShutdownStep(p) ==
  \/ QuiesceDurable(p) \/ QuiesceFails(p) \/ StopHttp(p) \/ FinishShutdown(p)
  \/ ShutdownPanics(p) \/ EmergencyPanics(p) \/ RemoveDescriptor(p) \/ ReleaseLock(p)

Next ==
  \E p \in Launches :
    \/ BecomePrimary(p) \/ BecomeSecondary(p) \/ LaunchFails(p)
    \/ PrimaryStep(p) \/ SecondaryStep(p) \/ PrimaryUnverified(p)
    \/ Quit(p) \/ DropRuntime(p) \/ ShutdownStep(p)
    \/ ServerEnds(p) \/ WriteMarker(p) \/ MarkerFails(p)
    \/ Exchange(p) \/ AdmitMutation(p) \/ \E q \in Launches : ExpireToken(q, p)
    \/ Exit(p) \/ Crash(p)

Spec == Init /\ [][Next]_vars

-----------------------------------------------------------------------------
(* Properties.                                                             *)

\* Every variable keeps its type, and a listener has a real port.
StartupTypeOK ==
  /\ stage \in [Launches -> Stages]
  /\ lease \in [Launches -> SUBSET {"owner", "server"}]
  /\ server \in [Launches -> {"none", "running", "stopping", "ended"}]
  /\ port \in [Launches -> Ports \cup {NoPort}]
  /\ \A p \in Launches : Listens(p) => port[p] \in Ports
  /\ ready \in [Launches -> BOOLEAN] /\ gateClosed \in [Launches -> BOOLEAN]
  /\ tokens \in [Launches -> SUBSET Launches] /\ sessions \in [Launches -> Nat]
  /\ tab \in [Launches -> [port : Ports \cup {NoPort}, by : Launches \cup {Nobody}]]
  /\ seen \in [Launches -> Launches \cup {Nobody}]
  /\ marker \in [Launches -> {"none", "writing", "written", "failed"}]
  /\ outcome \in [Launches -> {"none", "Clean", "Degraded"}]
  /\ descriptor \in Launches \cup {Nobody} /\ temporaries \in SUBSET Launches
  /\ markers \in SUBSET (Launches \cup {UncleanShutdown})
  /\ unsettled \in SUBSET (Launches \cup {UncleanShutdown})

\* The processes between the lock and the end of their shutdown.
OwnerStages == StartStages \cup {"running", "failing"} \cup ShutdownStages

\* While a process starts on the store, serves or shuts down, no other process is
\* in one of these stages and no other server answers, not even one whose process
\* has already let the lock go: a store is recovered when nobody serves from it.
OwnerIsAlone ==
  \A p, q \in Launches :
    p # q /\ stage[p] \in OwnerStages => stage[q] \notin OwnerStages /\ ~ServerIsUp(q)

\* A primary that has run admits no work once another process owns the store: what
\* a recovery has settled stays settled, although connections outlive the server.
NoWorkBehindTheOwner ==
  [][\A q \in unsettled' \ unsettled :
       tab[q].by = q => \A p \in Launches \ {q} : stage[p] \notin OwnerStages]_vars

\* As long as a primary runs, instance.json names it and no half written or
\* forgotten descriptor lies beside: no cleanup of an earlier process, no failing
\* start and no secondary takes away what the next launch needs to find it.
PrimaryIsFindable ==
  \A p \in Launches :
    stage[p] = "running" => descriptor = p /\ temporaries = {}

\* The marker of a shutdown stays until a recovery has settled what that shutdown
\* left behind; a start that fails before leaves the marker where it was.
MarkersOutliveRecovery ==
  [][\A m \in markers \ markers' : m \notin unsettled]_vars

\* Every tab leads to the instance its token is from and, opened by a secondary,
\* to the instance the secondary has verified, which had recovered the store and
\* published itself: no old descriptor and no reused port sends it elsewhere.
TabsReachTheirIssuer ==
  \A l \in Launches :
    tab[l] # NoTab =>
      /\ tab[l].port = port[tab[l].by]
      /\ ready[tab[l].by]
      /\ tab[l].by \in {l, seen[l]}

\* However often a URL is opened, its token makes at most one session.
OneSessionPerToken == \A l \in Launches : sessions[l] <= 1
=============================================================================
