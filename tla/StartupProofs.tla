---------------------------- MODULE StartupProofs ---------------------------
(* What holds of any number of launches on one machine, whatever ports the     *)
(* system has and wherever each process crashes: the lock makes its owner the  *)
(* only process that starts, serves or stops on the store.                     *)
EXTENDS Startup, TLAPS

-----------------------------------------------------------------------------
(* Types.                                                                    *)

\* What a step changes keeps its type.
LEMMA TypeStep ==
  ASSUME StartupTypeOK, [Next]_vars
  PROVE  StartupTypeOK'
<1> USE DEF StartupTypeOK, Stages, StartStages, SecondaryStages, ShutdownStages,
            fileVars, securityVars, shutdownVars, Listens, ServerIsUp, Goto, Drop, StopServer
<1>1. CASE UNCHANGED vars
  BY <1>1 DEF vars
<1>2. ASSUME NEW p \in Launches,
             BecomePrimary(p) \/ BecomeSecondary(p) \/ LaunchFails(p)
      PROVE  StartupTypeOK'
  BY <1>2, SMTT(30) DEF BecomePrimary, BecomeSecondary, LaunchFails
<1>3. ASSUME NEW p \in Launches, PrimaryStep(p)
      PROVE  StartupTypeOK'
  <2>1. CASE RemoveStaleDescriptors(p) \/ RecoverIncomplete(p) \/ RemoveRecoveredMarkers(p)
    BY <2>1, SMTT(30) DEF RemoveStaleDescriptors, RecoverIncomplete, RemoveRecoveredMarkers
  <2>2. CASE BindLoopback(p)
    BY <2>2, StartupAssumption DEF BindLoopback, IssueLaunchToken
  <2>3. CASE SpawnServer(p)
    BY <2>3 DEF SpawnServer
  <2>6. CASE SelfProbe(p)
    BY <2>6 DEF SelfProbe
  <2>4. CASE WriteTemporary(p) \/ ReplaceDescriptor(p) \/ PublishFails(p) \/ StartFails(p)
    BY <2>4, SMTT(30) DEF WriteTemporary, ReplaceDescriptor, PublishFails, StartFails
  <2>5. CASE OpenInitialTab(p) \/ DropStart(p)
    BY <2>5, SMTT(30) DEF OpenInitialTab, DropStart
  <2> QED
    BY <1>3, <2>1, <2>2, <2>3, <2>4, <2>5, <2>6 DEF PrimaryStep
<1>4. ASSUME NEW p \in Launches, SecondaryStep(p) \/ PrimaryUnverified(p)
      PROVE  StartupTypeOK'
  <2>1. CASE ReadDescriptor(p)
    BY <2>1 DEF ReadDescriptor
  <2>2. CASE ProbeReady(p)
    BY <2>2 DEF ProbeReady
  <2>3. CASE RequestReopen(p)
    BY <2>3 DEF RequestReopen, IssueLaunchToken, AuthorizeLauncher
  <2>4. CASE OpenGrantedTab(p)
    BY <2>4 DEF OpenGrantedTab
  <2>5. CASE TryAgain(p)
    BY <2>5 DEF TryAgain, NoTab
  <2>6. CASE PrimaryUnverified(p)
    BY <2>6 DEF PrimaryUnverified, NoTab
  <2> QED
    BY <1>4, <2>1, <2>2, <2>3, <2>4, <2>5, <2>6 DEF SecondaryStep
<1>5. ASSUME NEW p \in Launches, Quit(p) \/ DropRuntime(p) \/ ShutdownStep(p)
      PROVE  StartupTypeOK'
  <2>1. CASE Quit(p)
    BY <2>1 DEF Quit
  <2>2. CASE DropRuntime(p)
    BY <2>2 DEF DropRuntime
  <2>3. CASE QuiesceDurable(p)
    BY <2>3 DEF QuiesceDurable
  <2>4. CASE QuiesceFails(p)
    BY <2>4 DEF QuiesceFails, StopDegraded
  <2>5. CASE StopHttp(p)
    BY <2>5 DEF StopHttp
  <2>6. CASE FinishShutdown(p)
    BY <2>6 DEF FinishShutdown
  <2>7. CASE ShutdownPanics(p)
    BY <2>7 DEF ShutdownPanics, StopDegraded
  <2>8. CASE EmergencyPanics(p)
    BY <2>8 DEF EmergencyPanics
  <2>9. CASE RemoveDescriptor(p)
    BY <2>9 DEF RemoveDescriptor
  <2>10. CASE ReleaseLock(p)
    BY <2>10 DEF ReleaseLock
  <2> QED
    BY <1>5, <2>1, <2>2, <2>3, <2>4, <2>5, <2>6, <2>7, <2>8, <2>9, <2>10 DEF ShutdownStep
<1>6. ASSUME NEW p \in Launches,
             \/ ServerEnds(p) \/ WriteMarker(p) \/ MarkerFails(p) \/ AdmitMutation(p)
      PROVE  StartupTypeOK'
  <2>1. CASE ServerEnds(p)
    BY <2>1 DEF ServerEnds
  <2>2. CASE WriteMarker(p)
    BY <2>2 DEF WriteMarker
  <2>3. CASE MarkerFails(p)
    BY <2>3 DEF MarkerFails
  <2>4. CASE AdmitMutation(p)
    BY <2>4 DEF AdmitMutation
  <2> QED
    BY <1>6, <2>1, <2>2, <2>3, <2>4
<1>7. ASSUME NEW p \in Launches, Exchange(p) \/ \E q \in Launches : ExpireToken(q, p)
      PROVE  StartupTypeOK'
  <2>1. CASE Exchange(p)
    <3>1. sessions' \in [Launches -> Nat]
      BY <2>1 DEF Exchange
    <3>2. tokens' \in [Launches -> SUBSET Launches]
      BY <2>1 DEF Exchange
    <3> QED
      BY <2>1, <3>1, <3>2 DEF Exchange
  <2>2. CASE \E q \in Launches : ExpireToken(q, p)
    BY <2>2 DEF ExpireToken
  <2> QED
    BY <1>7, <2>1, <2>2
<1>8. ASSUME NEW p \in Launches, Exit(p) \/ Crash(p)
      PROVE  StartupTypeOK'
  <2>1. Vanish(p)
    BY <1>8 DEF Exit, Crash
  <2> QED
    BY <2>1 DEF Vanish, NoTab
<1> QED
  BY <1>1, <1>2, <1>3, <1>4, <1>5, <1>6, <1>7, <1>8 DEF Next

\* A process is in one stage, a listener has a port, every variable its type.
THEOREM StartupTypes == Spec => []StartupTypeOK
<1>1. Init => StartupTypeOK
  BY DEF Init, StartupTypeOK, Stages, NoTab, Listens, ServerIsUp
<1> QED
  BY <1>1, TypeStep, PTL DEF Spec

-----------------------------------------------------------------------------
(* The lock.                                                                 *)

\* One process at most keeps handles of the locked file: one that starts, runs
\* or shuts down has the owner's, one whose server may answer has the server's.
OnlyOneHolds ==
  /\ \A p, q \in Launches : lease[p] # {} /\ lease[q] # {} => p = q
  /\ \A p \in Launches : ServerIsUp(p) => "server" \in lease[p]
  /\ \A p \in Launches : stage[p] \in OwnerStages => "owner" \in lease[p]

\* The steps that leave the handles, the servers and the owners as they are.
LEMMA SameOwners ==
  ASSUME StartupTypeOK, OnlyOneHolds, lease' = lease, server' = server,
         \A p \in Launches : stage'[p] \in OwnerStages => stage[p] \in OwnerStages
  PROVE  OnlyOneHolds'
BY DEF OnlyOneHolds, ServerIsUp, OwnerStages, StartStages, ShutdownStages

\* Stopping a server that has its handle changes neither.
LEMMA StoppedServerHolds ==
  ASSUME StartupTypeOK, OnlyOneHolds, NEW p \in Launches, StopServer(p), lease' = lease,
         \A q \in Launches : stage'[q] \in OwnerStages => stage[q] \in OwnerStages
  PROVE  OnlyOneHolds'
BY DEF StartupTypeOK, OnlyOneHolds, ServerIsUp, StopServer, OwnerStages, StartStages,
       ShutdownStages

LEMMA LockStep ==
  ASSUME StartupTypeOK, OnlyOneHolds, [Next]_vars
  PROVE  OnlyOneHolds'
<1> USE DEF OwnerStages, StartStages, ShutdownStages, Goto
<1>1. CASE UNCHANGED vars
  BY <1>1 DEF vars, OnlyOneHolds, ServerIsUp
<1>2. ASSUME NEW p \in Launches, BecomePrimary(p)
      PROVE  OnlyOneHolds'
  BY <1>2 DEF StartupTypeOK, OnlyOneHolds, ServerIsUp, BecomePrimary, Locked
<1>3. ASSUME NEW p \in Launches,
             \/ BecomeSecondary(p) \/ LaunchFails(p) \/ SecondaryStep(p)
             \/ PrimaryUnverified(p)
      PROVE  OnlyOneHolds'
  BY <1>3, SameOwners
  DEF StartupTypeOK, Stages, BecomeSecondary, LaunchFails, SecondaryStep, PrimaryUnverified, ReadDescriptor,
      ProbeReady, RequestReopen, OpenGrantedTab, TryAgain
<1>4. ASSUME NEW p \in Launches, SpawnServer(p)
      PROVE  OnlyOneHolds'
  BY <1>4 DEF StartupTypeOK, OnlyOneHolds, ServerIsUp, SpawnServer
<1>5. ASSUME NEW p \in Launches, DropStart(p)
      PROVE  OnlyOneHolds'
  BY <1>5 DEF StartupTypeOK, OnlyOneHolds, ServerIsUp, DropStart, Drop, StopServer
<1>6. ASSUME NEW p \in Launches,
             PrimaryStep(p), ~SpawnServer(p), ~DropStart(p)
      PROVE  OnlyOneHolds'
  BY <1>6, SameOwners
  DEF StartupTypeOK, PrimaryStep, RemoveStaleDescriptors, RecoverIncomplete,
      RemoveRecoveredMarkers, BindLoopback, SelfProbe, WriteTemporary, ReplaceDescriptor,
      OpenInitialTab, PublishFails, StartFails
<1>7. ASSUME NEW p \in Launches,
             \/ Quit(p) \/ QuiesceDurable(p) \/ FinishShutdown(p) \/ RemoveDescriptor(p)
      PROVE  OnlyOneHolds'
  BY <1>7, SameOwners
  DEF StartupTypeOK, Quit, QuiesceDurable, FinishShutdown, RemoveDescriptor
<1>8. ASSUME NEW p \in Launches,
             \/ DropRuntime(p) \/ QuiesceFails(p) \/ StopHttp(p) \/ ShutdownPanics(p)
             \/ EmergencyPanics(p)
      PROVE  OnlyOneHolds'
  BY <1>8, StoppedServerHolds
  DEF StartupTypeOK, DropRuntime, QuiesceFails, StopHttp, ShutdownPanics, EmergencyPanics,
      StopDegraded
<1>9. ASSUME NEW p \in Launches, ReleaseLock(p)
      PROVE  OnlyOneHolds'
  BY <1>9 DEF StartupTypeOK, OnlyOneHolds, ServerIsUp, ReleaseLock, Drop
<1>10. ASSUME NEW p \in Launches, ServerEnds(p)
       PROVE  OnlyOneHolds'
  BY <1>10 DEF StartupTypeOK, OnlyOneHolds, ServerIsUp, ServerEnds, Drop
<1>11. ASSUME NEW p \in Launches,
              \/ WriteMarker(p) \/ MarkerFails(p) \/ AdmitMutation(p) \/ Exchange(p)
              \/ \E q \in Launches : ExpireToken(q, p)
       PROVE  OnlyOneHolds'
  BY <1>11, SameOwners DEF WriteMarker, MarkerFails, AdmitMutation, Exchange, ExpireToken
<1>12. ASSUME NEW p \in Launches, Exit(p) \/ Crash(p)
       PROVE  OnlyOneHolds'
  <2>1. Vanish(p)
    BY <1>12 DEF Exit, Crash
  <2>2. /\ stage' = [stage EXCEPT ![p] = "gone"]
        /\ lease' = [lease EXCEPT ![p] = {}]
        /\ server' = [server EXCEPT ![p] = "ended"]
    BY <2>1 DEF Vanish
  <2> QED
    BY <2>2 DEF StartupTypeOK, OnlyOneHolds, ServerIsUp
<1> QED
  BY <1>1, <1>2, <1>3, <1>4, <1>5, <1>6, <1>7, <1>8, <1>9, <1>10, <1>11, <1>12
  DEF Next, ShutdownStep

\* The lock elects: who owns the store is alone, and no server of an earlier
\* owner answers any more.
LEMMA HolderIsAlone ==
  ASSUME OnlyOneHolds
  PROVE  OwnerIsAlone
BY DEF OnlyOneHolds, OwnerIsAlone

LEMMA LockHolds == Spec => [](StartupTypeOK /\ OnlyOneHolds)
<1>1. Init => OnlyOneHolds
  BY DEF Init, OnlyOneHolds, ServerIsUp, OwnerStages, StartStages, ShutdownStages
<1> QED
  BY <1>1, StartupTypes, LockStep, PTL DEF Spec

\* OwnerIsAlone, for any launches and any crashes.
THEOREM OwnersAreAlone == Spec => []OwnerIsAlone
BY LockHolds, HolderIsAlone, PTL

-----------------------------------------------------------------------------
(* The runtime descriptor.                                                   *)

Swept == {"swept", "recovered", "cleared", "bound", "serving", "ready"}
Published == {"published", "running"}

\* The files of the descriptor are those its owner has left in them.
FilesAreTheOwners ==
  \A p \in Launches :
    /\ stage[p] \in Swept => temporaries = {}
    /\ stage[p] = "written" => temporaries \subseteq {p}
    /\ stage[p] \in Published => descriptor = p /\ temporaries = {}

LEMMA SameFiles ==
  ASSUME FilesAreTheOwners, descriptor' = descriptor, temporaries' = temporaries,
         \A p \in Launches :
           /\ stage'[p] \in Swept => stage[p] \in Swept
           /\ stage'[p] = "written" => stage[p] = "written"
           /\ stage'[p] \in Published => stage[p] \in Published
  PROVE  FilesAreTheOwners'
BY DEF FilesAreTheOwners

\* A step of an owner touches no other owner's files: there is none.
LEMMA OwnFiles ==
  ASSUME StartupTypeOK, OwnerIsAlone, FilesAreTheOwners, NEW p \in Launches,
         \/ RemoveStaleDescriptors(p) \/ WriteTemporary(p) \/ ReplaceDescriptor(p)
         \/ PublishFails(p) \/ RemoveDescriptor(p)
  PROVE  FilesAreTheOwners'
<1>1. \A q \in Launches \ {p} :
        stage'[q] = stage[q] /\ stage[q] \notin Swept \cup Published \cup {"written"}
  BY DEF StartupTypeOK, OwnerIsAlone, OwnerStages, StartStages, ShutdownStages, Swept,
         Published, Goto, RemoveStaleDescriptors, WriteTemporary, ReplaceDescriptor,
         PublishFails, RemoveDescriptor
<1>2. CASE RemoveStaleDescriptors(p)
  BY <1>1, <1>2
  DEF StartupTypeOK, FilesAreTheOwners, Swept, Published, Goto, RemoveStaleDescriptors
<1>3. CASE WriteTemporary(p)
  BY <1>1, <1>3 DEF StartupTypeOK, FilesAreTheOwners, Swept, Published, Goto, WriteTemporary
<1>4. CASE ReplaceDescriptor(p)
  BY <1>1, <1>4
  DEF StartupTypeOK, FilesAreTheOwners, Swept, Published, Goto, ReplaceDescriptor
<1>5. CASE PublishFails(p) \/ RemoveDescriptor(p)
  BY <1>1, <1>5
  DEF StartupTypeOK, FilesAreTheOwners, Swept, Published, Goto, PublishFails,
      RemoveDescriptor
<1> QED
  BY <1>2, <1>3, <1>4, <1>5

LEMMA FilesStep ==
  ASSUME StartupTypeOK, OwnerIsAlone, FilesAreTheOwners, [Next]_vars
  PROVE  FilesAreTheOwners'
<1> USE DEF Swept, Published, Goto, fileVars
<1>1. CASE UNCHANGED vars
  BY <1>1, SameFiles DEF vars
<1>2. ASSUME NEW p \in Launches,
             \/ BecomePrimary(p) \/ BecomeSecondary(p) \/ LaunchFails(p) \/ SecondaryStep(p)
             \/ PrimaryUnverified(p)
      PROVE  FilesAreTheOwners'
  BY <1>2, SameFiles
  DEF StartupTypeOK, BecomePrimary, BecomeSecondary, LaunchFails, SecondaryStep,
      PrimaryUnverified, ReadDescriptor, ProbeReady, RequestReopen, OpenGrantedTab, TryAgain
<1>3. ASSUME NEW p \in Launches,
             \/ RemoveStaleDescriptors(p) \/ WriteTemporary(p) \/ ReplaceDescriptor(p)
             \/ PublishFails(p) \/ RemoveDescriptor(p)
      PROVE  FilesAreTheOwners'
  BY <1>3, OwnFiles
<1>4. ASSUME NEW p \in Launches,
             \/ RecoverIncomplete(p) \/ RemoveRecoveredMarkers(p) \/ BindLoopback(p)
             \/ SpawnServer(p) \/ SelfProbe(p) \/ OpenInitialTab(p) \/ StartFails(p)
             \/ DropStart(p)
      PROVE  FilesAreTheOwners'
  BY <1>4, SameFiles
  DEF StartupTypeOK, RecoverIncomplete, RemoveRecoveredMarkers, BindLoopback, SpawnServer,
      SelfProbe, OpenInitialTab, StartFails, DropStart
<1>5. ASSUME NEW p \in Launches,
             \/ Quit(p) \/ DropRuntime(p) \/ QuiesceDurable(p) \/ QuiesceFails(p) \/ StopHttp(p)
             \/ FinishShutdown(p) \/ ShutdownPanics(p) \/ EmergencyPanics(p) \/ ReleaseLock(p)
      PROVE  FilesAreTheOwners'
  BY <1>5, SameFiles
  DEF StartupTypeOK, Quit, DropRuntime, QuiesceDurable, QuiesceFails, StopHttp,
      FinishShutdown, ShutdownPanics, EmergencyPanics, ReleaseLock, StopDegraded
<1>6. ASSUME NEW p \in Launches,
             \/ ServerEnds(p) \/ WriteMarker(p) \/ MarkerFails(p) \/ AdmitMutation(p)
             \/ Exchange(p) \/ \E q \in Launches : ExpireToken(q, p)
      PROVE  FilesAreTheOwners'
  BY <1>6, SameFiles
  DEF ServerEnds, WriteMarker, MarkerFails, AdmitMutation, Exchange, ExpireToken
<1>7. ASSUME NEW p \in Launches, Exit(p) \/ Crash(p)
      PROVE  FilesAreTheOwners'
  BY <1>7, SameFiles DEF StartupTypeOK, Exit, Crash, Vanish
<1> QED
  BY <1>1, <1>2, <1>3, <1>4, <1>5, <1>6, <1>7 DEF Next, PrimaryStep, ShutdownStep

\* PrimaryIsFindable: the next launch finds the descriptor of the one that runs.
THEOREM PrimariesAreFindable == Spec => []PrimaryIsFindable
<1>1. Init => FilesAreTheOwners
  BY DEF Init, FilesAreTheOwners, Swept, Published
<1>2. FilesAreTheOwners => PrimaryIsFindable
  BY DEF FilesAreTheOwners, PrimaryIsFindable, Published
<1> QED
  BY <1>1, <1>2, FilesStep, StartupTypes, OwnersAreAlone, PTL DEF Spec

-----------------------------------------------------------------------------
(* The tabs and their tokens.                                                *)

Unpublished ==
  {"new", "locked", "swept", "recovered", "cleared", "bound", "serving"}
    \cup SecondaryStages
Publishing == {"ready", "written", "published"}
NotYetATab == {"new", "looking", "probing", "reopening"} \cup StartStages

\* The public routes open once, before the descriptor is written.
ReadyOnce ==
  \A p \in Launches :
    /\ stage[p] \in Unpublished => ~ready[p]
    /\ stage[p] \in Publishing => ready[p]

\* A launch that has no grant yet and has published nothing has no tab.
TabsComeLast ==
  \A l \in Launches : stage[l] \in NotYetATab => tab[l] = NoTab

\* The token a session was made from is gone, and no other will be issued.
TokensAreSpent ==
  \A l \in Launches :
    sessions[l] # 0 =>
      /\ sessions[l] = 1
      /\ tab[l].by \in Launches /\ l \notin tokens[tab[l].by]
      /\ stage[l] \notin NotYetATab \cup {"granted"}

TabInv == ReadyOnce /\ TabsComeLast /\ TokensAreSpent /\ TabsReachTheirIssuer

LEMMA SameTabs ==
  ASSUME TabInv, UNCHANGED <<ready, port, seen, securityVars>>,
         \A p \in Launches :
           /\ stage'[p] \in Unpublished => stage[p] \in Unpublished
           /\ stage'[p] \in Publishing => stage[p] \in Publishing
           /\ stage'[p] \in NotYetATab => stage[p] \in NotYetATab
           /\ stage'[p] = "granted" => stage[p] = "granted"
  PROVE  TabInv'
<1>1. ReadyOnce' /\ TabsComeLast'
  BY DEF TabInv, ReadyOnce, TabsComeLast, securityVars, NoTab
<1>2. TokensAreSpent'
  BY DEF TabInv, TokensAreSpent, securityVars
<1>3. TabsReachTheirIssuer'
  BY DEF TabInv, TabsReachTheirIssuer, securityVars, NoTab
<1> QED
  BY <1>1, <1>2, <1>3 DEF TabInv

LEMMA TabStep ==
  ASSUME StartupTypeOK, TabInv, [Next]_vars
  PROVE  TabInv'
<1> USE DEF Unpublished, Publishing, NotYetATab, StartStages, SecondaryStages, Goto,
            securityVars
<1>1. CASE UNCHANGED vars
  BY <1>1, SameTabs DEF vars
<1>2. ASSUME NEW p \in Launches,
             \/ BecomePrimary(p) \/ BecomeSecondary(p) \/ LaunchFails(p)
             \/ RemoveStaleDescriptors(p) \/ RecoverIncomplete(p)
             \/ RemoveRecoveredMarkers(p) \/ SpawnServer(p) \/ WriteTemporary(p)
             \/ ReplaceDescriptor(p) \/ PublishFails(p) \/ StartFails(p) \/ DropStart(p)
             \/ ProbeReady(p)
      PROVE  TabInv'
  BY <1>2, SameTabs
  DEF StartupTypeOK, BecomePrimary, BecomeSecondary, LaunchFails, RemoveStaleDescriptors,
      RecoverIncomplete, RemoveRecoveredMarkers, SpawnServer, WriteTemporary,
      ReplaceDescriptor, PublishFails, StartFails, DropStart, ProbeReady
<1>3. ASSUME NEW p \in Launches,
             \/ Quit(p) \/ DropRuntime(p) \/ ShutdownStep(p)
             \/ ServerEnds(p) \/ WriteMarker(p) \/ MarkerFails(p) \/ AdmitMutation(p)
      PROVE  TabInv'
  BY <1>3, SameTabs
  DEF StartupTypeOK, Quit, DropRuntime, ShutdownStep, QuiesceDurable, QuiesceFails, StopHttp,
      FinishShutdown, ShutdownPanics, EmergencyPanics, RemoveDescriptor, ReleaseLock,
      StopDegraded, ServerEnds, WriteMarker, MarkerFails, AdmitMutation
<1>4. ASSUME NEW p \in Launches, BindLoopback(p)
      PROVE  TabInv'
  <2>1. \A l \in Launches : tab[l].by # p \/ tab[l] = NoTab
    BY <1>4 DEF BindLoopback, TabInv, ReadyOnce, TabsReachTheirIssuer
  <2>2. sessions[p] = 0
    BY <1>4 DEF BindLoopback, TabInv, TokensAreSpent
  <2>3. ReadyOnce' /\ TabsComeLast'
    BY <1>4 DEF BindLoopback, StartupTypeOK, TabInv, ReadyOnce, TabsComeLast, NoTab
  <2>4. TokensAreSpent'
    BY <1>4, <2>2
    DEF BindLoopback, IssueLaunchToken, StartupTypeOK, TabInv, TokensAreSpent
  <2>5. TabsReachTheirIssuer'
    BY <1>4, <2>1
    DEF BindLoopback, StartupTypeOK, TabInv, TabsReachTheirIssuer, NoTab
  <2> QED
    BY <2>3, <2>4, <2>5 DEF TabInv
<1>5. ASSUME NEW p \in Launches, SelfProbe(p)
      PROVE  TabInv'
  <2>1. ReadyOnce' /\ TabsComeLast'
    BY <1>5 DEF SelfProbe, StartupTypeOK, TabInv, ReadyOnce, TabsComeLast, NoTab
  <2>2. TokensAreSpent'
    BY <1>5 DEF SelfProbe, StartupTypeOK, TabInv, TokensAreSpent
  <2>3. TabsReachTheirIssuer'
    BY <1>5 DEF SelfProbe, StartupTypeOK, TabInv, TabsReachTheirIssuer, NoTab
  <2> QED
    BY <2>1, <2>2, <2>3 DEF TabInv
<1>6. ASSUME NEW p \in Launches, OpenInitialTab(p)
      PROVE  TabInv'
  <2>1. ready[p] /\ sessions[p] = 0
    BY <1>6 DEF OpenInitialTab, TabInv, ReadyOnce, TokensAreSpent
  <2>2. ReadyOnce' /\ TabsComeLast'
    BY <1>6 DEF OpenInitialTab, StartupTypeOK, TabInv, ReadyOnce, TabsComeLast, NoTab
  <2>3. TokensAreSpent'
    BY <1>6, <2>1 DEF OpenInitialTab, StartupTypeOK, TabInv, TokensAreSpent
  <2>4. TabsReachTheirIssuer'
    BY <1>6, <2>1 DEF OpenInitialTab, StartupTypeOK, TabInv, TabsReachTheirIssuer, NoTab
  <2> QED
    BY <2>2, <2>3, <2>4 DEF TabInv
<1>7. ASSUME NEW s \in Launches, ReadDescriptor(s)
      PROVE  TabInv'
  <2>1. tab[s] = NoTab
    BY <1>7 DEF ReadDescriptor, TabInv, TabsComeLast
  <2>2. ReadyOnce' /\ TabsComeLast'
    BY <1>7 DEF ReadDescriptor, StartupTypeOK, TabInv, ReadyOnce, TabsComeLast, NoTab
  <2>3. TokensAreSpent'
    BY <1>7 DEF ReadDescriptor, StartupTypeOK, TabInv, TokensAreSpent
  <2>4. TabsReachTheirIssuer'
    BY <1>7, <2>1 DEF ReadDescriptor, StartupTypeOK, TabInv, TabsReachTheirIssuer, NoTab
  <2> QED
    BY <2>2, <2>3, <2>4 DEF TabInv
<1>8. ASSUME NEW s \in Launches, RequestReopen(s)
      PROVE  TabInv'
  <2>1. sessions[s] = 0
    BY <1>8 DEF RequestReopen, TabInv, TokensAreSpent
  <2>2. ReadyOnce' /\ TabsComeLast'
    BY <1>8 DEF RequestReopen, StartupTypeOK, TabInv, ReadyOnce, TabsComeLast, NoTab
  <2>3. TokensAreSpent'
    BY <1>8, <2>1 DEF RequestReopen, IssueLaunchToken, StartupTypeOK, TabInv, TokensAreSpent
  <2>4. TabsReachTheirIssuer'
    BY <1>8
    DEF RequestReopen, AuthorizeLauncher, StartupTypeOK, TabInv, TabsReachTheirIssuer, NoTab
  <2> QED
    BY <2>2, <2>3, <2>4 DEF TabInv
<1>9. ASSUME NEW s \in Launches, OpenGrantedTab(s)
      PROVE  TabInv'
  <2>1. ReadyOnce' /\ TabsComeLast'
    BY <1>9 DEF OpenGrantedTab, StartupTypeOK, TabInv, ReadyOnce, TabsComeLast, NoTab
  <2>2. TokensAreSpent' /\ TabsReachTheirIssuer'
    BY <1>9
    DEF OpenGrantedTab, StartupTypeOK, TabInv, TokensAreSpent, TabsReachTheirIssuer, NoTab
  <2> QED
    BY <2>1, <2>2 DEF TabInv
<1>10. ASSUME NEW s \in Launches, TryAgain(s) \/ PrimaryUnverified(s)
       PROVE  TabInv'
  <2>1. /\ sessions[s] = 0
        /\ tab' = [tab EXCEPT ![s] = NoTab]
        /\ \A l \in Launches \ {s} : stage'[l] = stage[l] /\ seen'[l] = seen[l]
    BY <1>10 DEF TryAgain, PrimaryUnverified, StartupTypeOK, TabInv, TokensAreSpent
  <2>2. ReadyOnce' /\ TabsComeLast'
    BY <1>10, <2>1
    DEF TryAgain, PrimaryUnverified, StartupTypeOK, TabInv, ReadyOnce, TabsComeLast, NoTab
  <2>3. TokensAreSpent'
    BY <1>10, <2>1
    DEF TryAgain, PrimaryUnverified, StartupTypeOK, TabInv, TokensAreSpent, NoTab
  <2>4. TabsReachTheirIssuer'
    BY <1>10, <2>1
    DEF TryAgain, PrimaryUnverified, StartupTypeOK, TabInv, TabsReachTheirIssuer, NoTab
  <2> QED
    BY <2>2, <2>3, <2>4 DEF TabInv
<1>11. ASSUME NEW l \in Launches, Exchange(l)
       PROVE  TabInv'
  <2>1. PICK q \in Launches : /\ tab[l].by = q /\ l \in tokens[q]
                              /\ tokens' = [tokens EXCEPT ![q] = @ \ {l}]
    BY <1>11 DEF Exchange
  <2>2. /\ sessions[l] = 0 /\ tab[l] # NoTab
        /\ stage[l] \notin NotYetATab \cup {"granted"}
    BY <1>11, <2>1, StartupAssumption
    DEF Exchange, StartupTypeOK, TabInv, TabsComeLast, TokensAreSpent, NoTab
  <2>3. UNCHANGED <<stage, ready, port, seen, tab>>
    BY <1>11 DEF Exchange
  <2>4. ReadyOnce' /\ TabsComeLast' /\ TabsReachTheirIssuer'
    BY <2>3 DEF TabInv, ReadyOnce, TabsComeLast, TabsReachTheirIssuer, NoTab
  <2>5. sessions' = sessions \/ sessions' = [sessions EXCEPT ![l] = @ + 1]
    BY <1>11 DEF Exchange
  <2>6. TokensAreSpent'
    BY <2>1, <2>2, <2>3, <2>5 DEF StartupTypeOK, TabInv, TokensAreSpent
  <2> QED
    BY <2>4, <2>6 DEF TabInv
<1>12. ASSUME NEW p \in Launches, NEW q \in Launches, ExpireToken(q, p)
       PROVE  TabInv'
  <2>1. ReadyOnce' /\ TabsComeLast' /\ TabsReachTheirIssuer'
    BY <1>12 DEF ExpireToken, TabInv, ReadyOnce, TabsComeLast, TabsReachTheirIssuer, NoTab
  <2>2. TokensAreSpent'
    BY <1>12 DEF ExpireToken, StartupTypeOK, TabInv, TokensAreSpent
  <2> QED
    BY <2>1, <2>2 DEF TabInv
<1>13. ASSUME NEW p \in Launches, Exit(p) \/ Crash(p)
       PROVE  TabInv'
  <2>1. Vanish(p)
    BY <1>13 DEF Exit, Crash
  <2>2. ReadyOnce' /\ TabsComeLast'
    BY <2>1 DEF Vanish, StartupTypeOK, TabInv, ReadyOnce, TabsComeLast, NoTab
  <2>3. /\ \A l \in Launches : sessions'[l] # 0 => sessions'[l] = sessions[l] /\ tab[l].by # p
        /\ \A l \in Launches : tab'[l] = tab[l] \/ (l = p /\ stage[p] = "granted")
        /\ \A q \in Launches \ {p} : tokens'[q] = tokens[q] /\ stage'[q] = stage[q]
        /\ stage'[p] = "gone"
    BY <2>1 DEF Vanish, StartupTypeOK
  <2>4. TokensAreSpent'
    BY <2>3 DEF StartupTypeOK, TabInv, TokensAreSpent
  <2>5. TabsReachTheirIssuer'
    BY <2>1 DEF Vanish, StartupTypeOK, TabInv, TabsReachTheirIssuer, NoTab
  <2> QED
    BY <2>2, <2>4, <2>5 DEF TabInv
<1> QED
  BY <1>1, <1>2, <1>3, <1>4, <1>5, <1>6, <1>7, <1>8, <1>9, <1>10, <1>11, <1>12, <1>13
  DEF Next, PrimaryStep, SecondaryStep

LEMMA TabsHold == Spec => [](StartupTypeOK /\ TabInv)
<1>1. Init => TabInv
  BY DEF Init, TabInv, ReadyOnce, TabsComeLast, TokensAreSpent, TabsReachTheirIssuer,
         Unpublished, Publishing, SecondaryStages
<1> QED
  BY <1>1, StartupTypes, TabStep, PTL DEF Spec

\* TabsReachTheirIssuer: no old descriptor and no reused port misleads a tab.
THEOREM TabsAreFaithful == Spec => []TabsReachTheirIssuer
BY TabsHold, PTL DEF TabInv

\* OneSessionPerToken, however often a URL is opened and the store is asked again.
THEOREM TokensAreSingleUse == Spec => []OneSessionPerToken
<1>1. StartupTypeOK /\ TabInv => OneSessionPerToken
  BY DEF TabInv, TokensAreSpent, OneSessionPerToken
<1> QED
  BY <1>1, TabsHold, PTL

-----------------------------------------------------------------------------
(* The gate, the markers and what a recovery settles.                        *)

Past == {"running", "released", "gone"} \cup ShutdownStages
NeverPrimary == {"new", "opened"} \cup SecondaryStages

\* A launch never looks for itself: the descriptor names one that was a primary.
SeenOthers ==
  /\ descriptor # Nobody => stage[descriptor] \notin NeverPrimary
  /\ \A p \in Launches : seen[p] # p

\* Who has a tab of its own has run, and a shutdown closes the gate before it
\* writes a marker.
GatesClose ==
  \A p \in Launches :
    /\ tab[p].by = p => stage[p] \in Past
    /\ stage[p] \in ShutdownStages \cup {"released"} => gateClosed[p]
    /\ marker[p] # "none" \/ p \in markers => gateClosed[p]

\* Between a recovery and the removal of the markers, work comes from processes
\* only that have written none.
RecoverySettles ==
  \A p \in Launches :
    stage[p] = "recovered" => \A q \in unsettled : q \in Launches /\ ~gateClosed[q]

GateInv == SeenOthers /\ GatesClose /\ RecoverySettles

LEMMA SameGates ==
  ASSUME StartupTypeOK, GateInv,
         UNCHANGED <<descriptor, seen, tab, gateClosed, marker, markers, unsettled>>,
         \A p \in Launches :
           /\ stage'[p] \in NeverPrimary => stage[p] \in NeverPrimary
           /\ stage[p] \in Past => stage'[p] \in Past
           /\ stage'[p] \in ShutdownStages \cup {"released"} =>
                stage[p] \in ShutdownStages \cup {"released"}
           /\ stage'[p] = "recovered" => stage[p] = "recovered"
  PROVE  GateInv'
<1>1. SeenOthers'
  BY DEF GateInv, SeenOthers, StartupTypeOK
<1>2. GatesClose' /\ RecoverySettles'
  BY DEF GateInv, GatesClose, RecoverySettles
<1> QED
  BY <1>1, <1>2 DEF GateInv

LEMMA GateStep ==
  ASSUME StartupTypeOK, OwnerIsAlone, GateInv, [Next]_vars
  PROVE  GateInv'
<1> USE DEF Past, NeverPrimary, ShutdownStages, SecondaryStages, Goto, fileVars,
            securityVars, shutdownVars
<1>1. CASE UNCHANGED vars
  BY <1>1, SameGates DEF vars
<1>2. ASSUME NEW p \in Launches,
             \/ BecomePrimary(p) \/ BecomeSecondary(p) \/ LaunchFails(p) \/ BindLoopback(p)
             \/ SpawnServer(p) \/ SelfProbe(p) \/ WriteTemporary(p) \/ StartFails(p)
             \/ DropStart(p) \/ ProbeReady(p)
      PROVE  GateInv'
  BY <1>2, SameGates
  DEF StartupTypeOK, BecomePrimary, BecomeSecondary, LaunchFails, BindLoopback, SpawnServer,
      SelfProbe, WriteTemporary, StartFails, DropStart, ProbeReady
<1>3. ASSUME NEW p \in Launches,
             StopHttp(p) \/ FinishShutdown(p) \/ ReleaseLock(p) \/ ServerEnds(p)
               \/ Exchange(p) \/ \E q \in Launches : ExpireToken(q, p)
      PROVE  GateInv'
  BY <1>3, SameGates
  DEF StartupTypeOK, StopHttp, FinishShutdown, ReleaseLock, ServerEnds, Exchange, ExpireToken
<1>4. ASSUME NEW p \in Launches,
             RemoveStaleDescriptors(p) \/ PublishFails(p) \/ RemoveDescriptor(p)
      PROVE  GateInv'
  <2>1. SeenOthers'
    BY <1>4
    DEF GateInv, SeenOthers, RemoveStaleDescriptors, PublishFails, RemoveDescriptor
  <2>2. GatesClose' /\ RecoverySettles'
    BY <1>4
    DEF StartupTypeOK, GateInv, GatesClose, RecoverySettles, RemoveStaleDescriptors,
        PublishFails, RemoveDescriptor
  <2> QED
    BY <2>1, <2>2 DEF GateInv
<1>5. ASSUME NEW p \in Launches, ReplaceDescriptor(p)
      PROVE  GateInv'
  <2>1. SeenOthers'
    BY <1>5 DEF StartupTypeOK, GateInv, SeenOthers, ReplaceDescriptor
  <2>2. GatesClose' /\ RecoverySettles'
    BY <1>5 DEF StartupTypeOK, GateInv, GatesClose, RecoverySettles, ReplaceDescriptor
  <2> QED
    BY <2>1, <2>2 DEF GateInv
<1>6. ASSUME NEW p \in Launches, RecoverIncomplete(p) \/ RemoveRecoveredMarkers(p)
      PROVE  GateInv'
  <2>1. SeenOthers'
    BY <1>6
    DEF StartupTypeOK, GateInv, SeenOthers, RecoverIncomplete, RemoveRecoveredMarkers
  <2>2. GatesClose' /\ RecoverySettles'
    BY <1>6
    DEF StartupTypeOK, GateInv, GatesClose, RecoverySettles, RecoverIncomplete,
        RemoveRecoveredMarkers
  <2> QED
    BY <2>1, <2>2 DEF GateInv
<1>7. ASSUME NEW p \in Launches, OpenInitialTab(p)
      PROVE  GateInv'
  <2>1. SeenOthers'
    BY <1>7 DEF StartupTypeOK, GateInv, SeenOthers, OpenInitialTab
  <2>2. GatesClose' /\ RecoverySettles'
    BY <1>7 DEF StartupTypeOK, GateInv, GatesClose, RecoverySettles, OpenInitialTab
  <2> QED
    BY <2>1, <2>2 DEF GateInv
<1>8. ASSUME NEW s \in Launches, ReadDescriptor(s)
      PROVE  GateInv'
  <2>1. SeenOthers'
    BY <1>8, StartupAssumption DEF StartupTypeOK, GateInv, SeenOthers, ReadDescriptor
  <2>2. GatesClose' /\ RecoverySettles'
    BY <1>8 DEF StartupTypeOK, GateInv, GatesClose, RecoverySettles, ReadDescriptor
  <2> QED
    BY <2>1, <2>2 DEF GateInv
<1>9. ASSUME NEW s \in Launches, RequestReopen(s) \/ OpenGrantedTab(s)
      PROVE  GateInv'
  <2>1. SeenOthers'
    BY <1>9 DEF StartupTypeOK, GateInv, SeenOthers, RequestReopen, OpenGrantedTab
  <2>2. tab'[s].by # s
    BY <1>9
    DEF StartupTypeOK, GateInv, SeenOthers, GatesClose, RequestReopen, OpenGrantedTab,
        AuthorizeLauncher
  <2>3. \A l \in Launches \ {s} : tab'[l] = tab[l]
    BY <1>9 DEF StartupTypeOK, RequestReopen, OpenGrantedTab
  <2>4. GatesClose' /\ RecoverySettles'
    BY <1>9, <2>2, <2>3
    DEF StartupTypeOK, GateInv, GatesClose, RecoverySettles, RequestReopen, OpenGrantedTab
  <2> QED
    BY <2>1, <2>4 DEF GateInv
<1>10. ASSUME NEW s \in Launches, TryAgain(s) \/ PrimaryUnverified(s)
       PROVE  GateInv'
  <2>1. SeenOthers'
    BY <1>10, StartupAssumption
    DEF StartupTypeOK, GateInv, SeenOthers, TryAgain, PrimaryUnverified
  <2>2. tab'[s].by # s
    BY <1>10, StartupAssumption DEF StartupTypeOK, TryAgain, PrimaryUnverified, NoTab
  <2>3. \A l \in Launches \ {s} : tab'[l] = tab[l]
    BY <1>10 DEF StartupTypeOK, TryAgain, PrimaryUnverified
  <2>4. GatesClose' /\ RecoverySettles'
    BY <1>10, <2>2, <2>3, SMTT(30)
    DEF StartupTypeOK, GateInv, GatesClose, RecoverySettles, TryAgain, PrimaryUnverified
  <2> QED
    BY <2>1, <2>4 DEF GateInv
<1>11. ASSUME NEW p \in Launches, Quit(p) \/ DropRuntime(p)
       PROVE  GateInv'
  <2>1. \A q \in Launches : stage[q] # "recovered"
    BY <1>11 DEF OwnerIsAlone, OwnerStages, StartStages, Quit, DropRuntime
  <2>2. SeenOthers'
    BY <1>11 DEF StartupTypeOK, GateInv, SeenOthers, Quit, DropRuntime
  <2>3. GatesClose' /\ RecoverySettles'
    BY <1>11, <2>1
    DEF StartupTypeOK, GateInv, GatesClose, RecoverySettles, Quit, DropRuntime
  <2> QED
    BY <2>2, <2>3 DEF GateInv
<1>12. ASSUME NEW p \in Launches,
              \/ QuiesceDurable(p) \/ QuiesceFails(p) \/ ShutdownPanics(p)
              \/ EmergencyPanics(p)
       PROVE  GateInv'
  <2>1. SeenOthers'
    BY <1>12
    DEF StartupTypeOK, GateInv, SeenOthers, QuiesceDurable, QuiesceFails, ShutdownPanics,
        EmergencyPanics, StopDegraded
  <2>2. GatesClose' /\ RecoverySettles'
    BY <1>12
    DEF StartupTypeOK, GateInv, GatesClose, RecoverySettles, QuiesceDurable, QuiesceFails,
        ShutdownPanics, EmergencyPanics, StopDegraded
  <2> QED
    BY <2>1, <2>2 DEF GateInv
<1>13. ASSUME NEW p \in Launches, WriteMarker(p) \/ MarkerFails(p) \/ AdmitMutation(p)
       PROVE  GateInv'
  <2>1. SeenOthers'
    BY <1>13 DEF GateInv, SeenOthers, WriteMarker, MarkerFails, AdmitMutation
  <2>2. GatesClose' /\ RecoverySettles'
    BY <1>13
    DEF StartupTypeOK, GateInv, GatesClose, RecoverySettles, WriteMarker, MarkerFails,
        AdmitMutation
  <2> QED
    BY <2>1, <2>2 DEF GateInv
<1>14. ASSUME NEW p \in Launches, Exit(p) \/ Crash(p)
       PROVE  GateInv'
  <2>1. /\ stage' = [stage EXCEPT ![p] = "gone"]
        /\ UNCHANGED <<descriptor, seen, gateClosed, marker, markers, unsettled>>
        /\ \A l \in Launches \ {p} : tab'[l] = tab[l]
    BY <1>14 DEF StartupTypeOK, Exit, Crash, Vanish
  <2>2. SeenOthers'
    BY <2>1 DEF StartupTypeOK, GateInv, SeenOthers
  <2>3. GatesClose' /\ RecoverySettles'
    BY <2>1 DEF StartupTypeOK, GateInv, GatesClose, RecoverySettles
  <2> QED
    BY <2>2, <2>3 DEF GateInv
<1> QED
  BY <1>1, <1>2, <1>3, <1>4, <1>5, <1>6, <1>7, <1>8, <1>9, <1>10, <1>11, <1>12, <1>13,
     <1>14
  DEF Next, PrimaryStep, SecondaryStep, ShutdownStep

LEMMA GatesHold == Spec => [](StartupTypeOK /\ OwnerIsAlone /\ GateInv)
<1>1. Init => GateInv
  BY StartupAssumption
  DEF Init, GateInv, SeenOthers, GatesClose, RecoverySettles, NoTab, ShutdownStages
<1> QED
  BY <1>1, StartupTypes, OwnersAreAlone, GateStep, PTL DEF Spec

\* Only the admission of a mutation leaves work to settle.
LEMMA WorkIsAdmitted ==
  ASSUME StartupTypeOK, Next, NEW q \in unsettled', q \notin unsettled
  PROVE  q \in Launches /\ AdmitMutation(q)
<1> USE DEF fileVars, securityVars, shutdownVars
<1>1. PICK p \in Launches :
        \/ AdmitMutation(p)
        \/ RecoverIncomplete(p) \/ QuiesceDurable(p)
        \/ UNCHANGED unsettled
  <2>1. PICK p \in Launches :
          \/ BecomePrimary(p) \/ BecomeSecondary(p) \/ LaunchFails(p)
          \/ PrimaryStep(p) \/ SecondaryStep(p) \/ PrimaryUnverified(p)
          \/ Quit(p) \/ DropRuntime(p) \/ ShutdownStep(p)
          \/ ServerEnds(p) \/ WriteMarker(p) \/ MarkerFails(p)
          \/ Exchange(p) \/ AdmitMutation(p) \/ \E r \in Launches : ExpireToken(r, p)
          \/ Exit(p) \/ Crash(p)
    BY DEF Next
  <2>2. CASE PrimaryStep(p)
    BY <2>2
    DEF PrimaryStep, RemoveStaleDescriptors, RemoveRecoveredMarkers, BindLoopback,
        SpawnServer, SelfProbe, WriteTemporary, ReplaceDescriptor, OpenInitialTab,
        PublishFails, StartFails, DropStart
  <2>3. CASE SecondaryStep(p) \/ PrimaryUnverified(p)
    BY <2>3
    DEF SecondaryStep, ReadDescriptor, ProbeReady, RequestReopen, OpenGrantedTab, TryAgain,
        PrimaryUnverified
  <2>4. CASE ShutdownStep(p)
    BY <2>4
    DEF ShutdownStep, QuiesceFails, StopHttp, FinishShutdown, ShutdownPanics,
        EmergencyPanics, RemoveDescriptor, ReleaseLock, StopDegraded
  <2>5. CASE \/ BecomePrimary(p) \/ BecomeSecondary(p) \/ LaunchFails(p) \/ Quit(p)
             \/ DropRuntime(p) \/ ServerEnds(p) \/ WriteMarker(p) \/ MarkerFails(p)
             \/ Exchange(p) \/ \E r \in Launches : ExpireToken(r, p)
             \/ Exit(p) \/ Crash(p)
    BY <2>5
    DEF BecomePrimary, BecomeSecondary, LaunchFails, Quit, DropRuntime, ServerEnds,
        WriteMarker, MarkerFails, Exchange, ExpireToken, Exit, Crash, Vanish
  <2> QED
    BY <2>1, <2>2, <2>3, <2>4, <2>5
<1> QED
  BY <1>1 DEF AdmitMutation, RecoverIncomplete, QuiesceDurable

\* NoWorkBehindTheOwner: a primary that has run closes its gate before it lets the
\* lock go.
THEOREM NobodyWorksBehindTheOwner == Spec => NoWorkBehindTheOwner
<1> DEFINE Step == \A q \in unsettled' \ unsettled :
                     tab[q].by = q => \A p \in Launches \ {q} : stage[p] \notin OwnerStages
<1>1. ASSUME StartupTypeOK, OwnerIsAlone, GateInv, [Next]_vars
      PROVE  [Step]_vars
  <2>1. CASE UNCHANGED vars
    BY <2>1
  <2>2. CASE Next
    <3> SUFFICES ASSUME NEW q \in unsettled' \ unsettled, tab[q].by = q,
                        NEW p \in Launches \ {q}
                 PROVE  stage[p] \notin OwnerStages
      OBVIOUS
    <3>1. q \in Launches /\ AdmitMutation(q)
      BY <1>1, <2>2, WorkIsAdmitted
    <3>2. stage[q] = "running"
      BY <1>1, <3>1 DEF AdmitMutation, Alive, GateInv, GatesClose, Past
    <3> QED
      BY <1>1, <3>1, <3>2 DEF OwnerIsAlone, OwnerStages
  <2> QED
    BY <1>1, <2>1, <2>2
<1> QED
  BY <1>1, GatesHold, PTL DEF Spec, NoWorkBehindTheOwner

\* Only the start that has recovered the store removes markers.
LEMMA MarkersAreCleared ==
  ASSUME Next, NEW m \in markers, m \notin markers'
  PROVE  \E p \in Launches : RemoveRecoveredMarkers(p)
<1> USE DEF fileVars, securityVars, shutdownVars
<1>1. PICK p \in Launches :
        \/ BecomePrimary(p) \/ BecomeSecondary(p) \/ LaunchFails(p)
        \/ PrimaryStep(p) \/ SecondaryStep(p) \/ PrimaryUnverified(p)
        \/ Quit(p) \/ DropRuntime(p) \/ ShutdownStep(p)
        \/ ServerEnds(p) \/ WriteMarker(p) \/ MarkerFails(p)
        \/ Exchange(p) \/ AdmitMutation(p) \/ \E r \in Launches : ExpireToken(r, p)
        \/ Exit(p) \/ Crash(p)
  BY DEF Next
<1>2. CASE PrimaryStep(p)
  BY <1>2
  DEF PrimaryStep, RemoveStaleDescriptors, RecoverIncomplete, BindLoopback,
      SpawnServer, SelfProbe, WriteTemporary, ReplaceDescriptor, OpenInitialTab,
      PublishFails, StartFails, DropStart
<1>3. CASE SecondaryStep(p) \/ PrimaryUnverified(p)
  BY <1>3
  DEF SecondaryStep, ReadDescriptor, ProbeReady, RequestReopen, OpenGrantedTab, TryAgain,
      PrimaryUnverified
<1>4. CASE ShutdownStep(p)
  BY <1>4
  DEF ShutdownStep, QuiesceDurable, QuiesceFails, StopHttp, FinishShutdown, ShutdownPanics,
      EmergencyPanics, RemoveDescriptor, ReleaseLock, StopDegraded
<1>5. CASE \/ BecomePrimary(p) \/ BecomeSecondary(p) \/ LaunchFails(p) \/ Quit(p)
           \/ DropRuntime(p) \/ ServerEnds(p) \/ WriteMarker(p) \/ MarkerFails(p)
           \/ Exchange(p) \/ AdmitMutation(p) \/ \E r \in Launches : ExpireToken(r, p)
           \/ Exit(p) \/ Crash(p)
  BY <1>5
  DEF BecomePrimary, BecomeSecondary, LaunchFails, Quit, DropRuntime, ServerEnds,
      WriteMarker, MarkerFails, Exchange, AdmitMutation, ExpireToken, Exit, Crash, Vanish
<1> QED
  BY <1>1, <1>2, <1>3, <1>4, <1>5

\* MarkersOutliveRecovery: a marker goes when what it stands for is settled.
THEOREM RecoveryGoesFirst == Spec => MarkersOutliveRecovery
<1> DEFINE Step == \A m \in markers \ markers' : m \notin unsettled
<1>1. ASSUME GateInv, [Next]_vars
      PROVE  [Step]_vars
  <2>1. CASE UNCHANGED vars
    BY <2>1
  <2>2. CASE Next
    BY <1>1, <2>2, MarkersAreCleared
    DEF RemoveRecoveredMarkers, GateInv, GatesClose, RecoverySettles
  <2> QED
    BY <1>1, <2>1, <2>2
<1> QED
  BY <1>1, GatesHold, PTL DEF Spec, MarkersOutliveRecovery

=============================================================================
