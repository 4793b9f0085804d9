------------------------- MODULE VpnLifecycle_proofs -------------------------
(***************************************************************************)
(* What holds of connecting and disconnecting for any number of calls,     *)
(* however they overlap, whatever fails and wherever the process dies.     *)
(***************************************************************************)
EXTENDS VpnLifecycle, TLAPS

LEMMA TypeInit == Init => TypeOK
  BY NamesAssumption, PortAssumption DEF Init, TypeOK, Statuses, ConnectSteps

LEMMA TypeStep == TypeOK /\ [Next]_vars => TypeOK'
<1> SUFFICES ASSUME TypeOK, [Next]_vars PROVE TypeOK'
  OBVIOUS
<1> USE NamesAssumption
        DEF TypeOK, Statuses, ConnectSteps, DisconnectSteps, Tasks, Goto, At, MayStart,
            appVars, callVars, taskVars, osVars
<1>1. CASE UNCHANGED vars
  BY <1>1 DEF vars
<1>2. ASSUME NEW t \in Toggles, Disconnect(t) PROVE TypeOK'
  BY <1>2 DEF Disconnect
<1>3. ASSUME NEW t \in Toggles, Quit(t) PROVE TypeOK'
  BY <1>3 DEF Quit
<1>4. ASSUME NEW t \in Toggles, Activated(t) PROVE TypeOK'
  BY <1>4 DEF Activated
<1>5. ASSUME NEW t \in Toggles, ActivateFailed(t) PROVE TypeOK'
  BY <1>5 DEF ActivateFailed
<1>6. ASSUME NEW t \in Toggles, Resolved(t) PROVE TypeOK'
  BY <1>6 DEF Resolved
<1>7. ASSUME NEW t \in Toggles, ResolveFailed(t) PROVE TypeOK'
  BY <1>7 DEF ResolveFailed
<1>8. ASSUME NEW t \in Toggles, ConfigureStep(t) PROVE TypeOK'
  BY <1>8 DEF ConfigureStep, Install, RoutingPlan
<1>9. ASSUME NEW t \in Toggles, ConfigureFailed(t) PROVE TypeOK'
  BY <1>9 DEF ConfigureFailed
<1>10. ASSUME NEW t \in Toggles, KeepIp(t) PROVE TypeOK'
  BY <1>10 DEF KeepIp
<1>11. ASSUME NEW t \in Toggles, Store(t) PROVE TypeOK'
  BY <1>11 DEF Store
<1>12. ASSUME NEW t \in Toggles, PortFree(t) PROVE TypeOK'
  BY <1>12 DEF PortFree
<1>13. ASSUME NEW t \in Toggles, StopDnscache(t) PROVE TypeOK'
  BY <1>13, ZenonT(30) DEF StopDnscache
<1>14. ASSUME NEW t \in Toggles, PortTaken(t) PROVE TypeOK'
  BY <1>14 DEF PortTaken
<1>15. ASSUME NEW t \in Toggles, SpawnDns(t) PROVE TypeOK'
  BY <1>15 DEF SpawnDns, Spawn
<1>16. ASSUME NEW t \in Toggles, RegisterDns(t) PROVE TypeOK'
  BY <1>16 DEF RegisterDns, Register
<1>17. ASSUME NEW t \in Toggles, SpawnDispatch(t) PROVE TypeOK'
  BY <1>17 DEF SpawnDispatch, Spawn
<1>18. ASSUME NEW t \in Toggles, RegisterDispatch(t) PROVE TypeOK'
  BY <1>18 DEF RegisterDispatch, Register
<1>19. ASSUME NEW t \in Toggles, Finish(t) PROVE TypeOK'
  BY <1>19 DEF Finish
<1>20. ASSUME NEW t \in Toggles, AbortTasks(t) PROVE TypeOK'
  BY <1>20 DEF AbortTasks
<1>21. ASSUME NEW t \in Toggles, TakeTunnel(t) PROVE TypeOK'
  BY <1>21 DEF TakeTunnel
<1>22. ASSUME NEW t \in Toggles, NoTunnel(t) PROVE TypeOK'
  BY <1>22 DEF NoTunnel, Exit, ProcessEnds
<1>23. ASSUME NEW t \in Toggles, ReadIp(t) PROVE TypeOK'
  BY <1>23 DEF ReadIp
<1>24. ASSUME NEW t \in Toggles, UndoStep(t) PROVE TypeOK'
  BY <1>24 DEF UndoStep, Remove, RoutingPlan
<1>25. ASSUME NEW t \in Toggles, Deactivate(t) PROVE TypeOK'
  BY <1>25 DEF Deactivate, Exit, ProcessEnds
<1>26. ASSUME NEW t \in Toggles, StartDnscache(t) PROVE TypeOK'
  BY <1>26 DEF StartDnscache
<1>27. ASSUME NEW t \in Toggles, ForgetIp(t) PROVE TypeOK'
  BY <1>27 DEF ForgetIp
<1>28. ASSUME NEW t \in Toggles, Settle(t) PROVE TypeOK'
  BY <1>28 DEF Settle
<1>29. ASSUME NEW t \in Toggles, DnsBinds(t) PROVE TypeOK'
  BY <1>29 DEF DnsBinds
<1>30. ASSUME NEW t \in Toggles, DnsDies(t) PROVE TypeOK'
  BY <1>30 DEF DnsDies
<1>31. ASSUME NEW t \in Toggles, DispatchEnds(t) PROVE TypeOK'
  BY <1>31 DEF DispatchEnds
<1>32. ASSUME NEW t \in Toggles, NEW s \in Servers, Connect(t, s) PROVE TypeOK'
  BY <1>32 DEF Connect
<1>33. CASE DnscacheReleases
  BY <1>33 DEF DnscacheReleases
<1>34. CASE Crash
  BY <1>34 DEF Crash, ProcessEnds
<1>35. ASSUME NEW t \in Toggles, FlowsOpen(t) PROVE TypeOK'
  BY <1>35 DEF FlowsOpen
<1>36. ASSUME NEW t \in Toggles, FlowsEnd(t) PROVE TypeOK'
  BY <1>36 DEF FlowsEnd
<1> QED
  BY <1>1, <1>2, <1>3, <1>4, <1>5, <1>6, <1>7, <1>8, <1>9, <1>10, <1>11,
     <1>12, <1>13, <1>14, <1>15, <1>16, <1>17, <1>18, <1>19, <1>20, <1>21,
     <1>22, <1>23, <1>24, <1>25, <1>26, <1>27, <1>28, <1>29, <1>30, <1>31,
     <1>32, <1>33, <1>34, <1>35, <1>36
     DEF Next, Background, AllEnded, Start, Proceed

(* The state stays well formed: in particular an undo always works on a     *)
(* server's route, never on the absent one.                                 *)
THEOREM TypeCorrect == Spec => []TypeOK
  BY TypeInit, TypeStep, PTL DEF Spec

-----------------------------------------------------------------------------
(* The mutex of AppState.tunnel.  RollbackExclusive is inductive once it is *)
(* known who holds the mutex: only a call that rolls back does, and while   *)
(* it does no other call can store an adapter or take one.                  *)
LEMMA RollbackStep ==
  TypeOK /\ RollbackExclusive /\ [Next]_vars => RollbackExclusive'
<1> SUFFICES ASSUME TypeOK, RollbackExclusive, [Next]_vars PROVE RollbackExclusive'
  OBVIOUS
<1> USE NamesAssumption
        DEF TypeOK, ConnectSteps, DisconnectSteps, RollbackExclusive, InRollback, Goto,
            At, MayStart, appVars, callVars, taskVars, osVars
<1>1. CASE UNCHANGED vars
  BY <1>1 DEF vars
<1>2. ASSUME NEW t \in Toggles, Disconnect(t) PROVE RollbackExclusive'
  BY <1>2 DEF Disconnect
<1>3. ASSUME NEW t \in Toggles, Quit(t) PROVE RollbackExclusive'
  BY <1>3 DEF Quit
<1>4. ASSUME NEW t \in Toggles, Activated(t) PROVE RollbackExclusive'
  BY <1>4 DEF Activated
<1>5. ASSUME NEW t \in Toggles, ActivateFailed(t) PROVE RollbackExclusive'
  BY <1>5 DEF ActivateFailed
<1>6. ASSUME NEW t \in Toggles, Resolved(t) PROVE RollbackExclusive'
  BY <1>6 DEF Resolved
<1>7. ASSUME NEW t \in Toggles, ResolveFailed(t) PROVE RollbackExclusive'
  BY <1>7 DEF ResolveFailed
<1>8. ASSUME NEW t \in Toggles, ConfigureStep(t) PROVE RollbackExclusive'
  BY <1>8 DEF ConfigureStep
<1>9. ASSUME NEW t \in Toggles, ConfigureFailed(t) PROVE RollbackExclusive'
  BY <1>9 DEF ConfigureFailed
<1>10. ASSUME NEW t \in Toggles, KeepIp(t) PROVE RollbackExclusive'
  BY <1>10 DEF KeepIp
<1>11. ASSUME NEW t \in Toggles, Store(t) PROVE RollbackExclusive'
  BY <1>11 DEF Store
<1>12. ASSUME NEW t \in Toggles, PortFree(t) PROVE RollbackExclusive'
  BY <1>12 DEF PortFree
<1>13. ASSUME NEW t \in Toggles, StopDnscache(t) PROVE RollbackExclusive'
  BY <1>13 DEF StopDnscache
<1>14. ASSUME NEW t \in Toggles, PortTaken(t) PROVE RollbackExclusive'
  BY <1>14 DEF PortTaken
<1>15. ASSUME NEW t \in Toggles, SpawnDns(t) PROVE RollbackExclusive'
  BY <1>15 DEF SpawnDns, Spawn
<1>16. ASSUME NEW t \in Toggles, RegisterDns(t) PROVE RollbackExclusive'
  BY <1>16 DEF RegisterDns, Register
<1>17. ASSUME NEW t \in Toggles, SpawnDispatch(t) PROVE RollbackExclusive'
  BY <1>17 DEF SpawnDispatch, Spawn
<1>18. ASSUME NEW t \in Toggles, RegisterDispatch(t) PROVE RollbackExclusive'
  BY <1>18 DEF RegisterDispatch, Register
<1>19. ASSUME NEW t \in Toggles, Finish(t) PROVE RollbackExclusive'
  BY <1>19 DEF Finish
<1>20. ASSUME NEW t \in Toggles, AbortTasks(t) PROVE RollbackExclusive'
  BY <1>20 DEF AbortTasks
<1>21. ASSUME NEW t \in Toggles, TakeTunnel(t) PROVE RollbackExclusive'
  BY <1>21 DEF TakeTunnel
<1>22. ASSUME NEW t \in Toggles, NoTunnel(t) PROVE RollbackExclusive'
  BY <1>22 DEF NoTunnel, Exit, ProcessEnds
<1>23. ASSUME NEW t \in Toggles, ReadIp(t) PROVE RollbackExclusive'
  BY <1>23 DEF ReadIp
<1>24. ASSUME NEW t \in Toggles, UndoStep(t) PROVE RollbackExclusive'
  BY <1>24 DEF UndoStep
<1>25. ASSUME NEW t \in Toggles, Deactivate(t) PROVE RollbackExclusive'
  BY <1>25 DEF Deactivate, Exit, ProcessEnds
<1>26. ASSUME NEW t \in Toggles, StartDnscache(t) PROVE RollbackExclusive'
  BY <1>26 DEF StartDnscache
<1>27. ASSUME NEW t \in Toggles, ForgetIp(t) PROVE RollbackExclusive'
  BY <1>27 DEF ForgetIp
<1>28. ASSUME NEW t \in Toggles, Settle(t) PROVE RollbackExclusive'
  BY <1>28 DEF Settle
<1>29. ASSUME NEW t \in Toggles, DnsBinds(t) PROVE RollbackExclusive'
  BY <1>29 DEF DnsBinds
<1>30. ASSUME NEW t \in Toggles, DnsDies(t) PROVE RollbackExclusive'
  BY <1>30 DEF DnsDies
<1>31. ASSUME NEW t \in Toggles, DispatchEnds(t) PROVE RollbackExclusive'
  BY <1>31 DEF DispatchEnds
<1>32. ASSUME NEW t \in Toggles, NEW s \in Servers, Connect(t, s) PROVE RollbackExclusive'
  BY <1>32 DEF Connect
<1>33. CASE DnscacheReleases
  BY <1>33 DEF DnscacheReleases
<1>34. CASE Crash
  BY <1>34 DEF Crash, ProcessEnds
<1>35. ASSUME NEW t \in Toggles, FlowsOpen(t) PROVE RollbackExclusive'
  BY <1>35 DEF FlowsOpen
<1>36. ASSUME NEW t \in Toggles, FlowsEnd(t) PROVE RollbackExclusive'
  BY <1>36 DEF FlowsEnd
<1> QED
  BY <1>1, <1>2, <1>3, <1>4, <1>5, <1>6, <1>7, <1>8, <1>9, <1>10, <1>11,
     <1>12, <1>13, <1>14, <1>15, <1>16, <1>17, <1>18, <1>19, <1>20, <1>21,
     <1>22, <1>23, <1>24, <1>25, <1>26, <1>27, <1>28, <1>29, <1>30, <1>31,
     <1>32, <1>33, <1>34, <1>35, <1>36
     DEF Next, Background, AllEnded, Start, Proceed

(* At most one call at a time is between taking the stored adapter and      *)
(* shutting it down, and the stored adapter stays what it took.             *)
THEOREM RollbacksExclude == Spec => []RollbackExclusive
<1>1. Init => TypeOK /\ RollbackExclusive
  BY TypeInit DEF Init, RollbackExclusive, InRollback
<1>2. TypeOK /\ RollbackExclusive /\ [Next]_vars => (TypeOK /\ RollbackExclusive)'
  BY TypeStep, RollbackStep
<1> QED
  BY <1>1, <1>2, PTL DEF Spec

-----------------------------------------------------------------------------
(* Waiting for the mutex.  Who holds it is between taking the adapter and    *)
(* shutting it down, where no step waits for anything.                      *)
HolderRollsBack == tunnel_lock # Nobody => InRollback(tunnel_lock)

LEMMA HolderStep ==
  TypeOK /\ HolderRollsBack /\ [Next]_vars => HolderRollsBack'
<1> SUFFICES ASSUME TypeOK, HolderRollsBack, [Next]_vars PROVE HolderRollsBack'
  OBVIOUS
<1> USE NamesAssumption
        DEF TypeOK, ConnectSteps, DisconnectSteps, HolderRollsBack, InRollback, Goto,
            At, MayStart, appVars, callVars, taskVars, osVars
<1>1. CASE UNCHANGED vars
  BY <1>1 DEF vars
<1>2. ASSUME NEW t \in Toggles, Disconnect(t) PROVE HolderRollsBack'
  BY <1>2 DEF Disconnect
<1>3. ASSUME NEW t \in Toggles, Quit(t) PROVE HolderRollsBack'
  BY <1>3 DEF Quit
<1>4. ASSUME NEW t \in Toggles, Activated(t) PROVE HolderRollsBack'
  BY <1>4 DEF Activated
<1>5. ASSUME NEW t \in Toggles, ActivateFailed(t) PROVE HolderRollsBack'
  BY <1>5 DEF ActivateFailed
<1>6. ASSUME NEW t \in Toggles, Resolved(t) PROVE HolderRollsBack'
  BY <1>6 DEF Resolved
<1>7. ASSUME NEW t \in Toggles, ResolveFailed(t) PROVE HolderRollsBack'
  BY <1>7 DEF ResolveFailed
<1>8. ASSUME NEW t \in Toggles, ConfigureStep(t) PROVE HolderRollsBack'
  BY <1>8 DEF ConfigureStep, Install
<1>9. ASSUME NEW t \in Toggles, ConfigureFailed(t) PROVE HolderRollsBack'
  BY <1>9 DEF ConfigureFailed
<1>10. ASSUME NEW t \in Toggles, KeepIp(t) PROVE HolderRollsBack'
  BY <1>10 DEF KeepIp
<1>11. ASSUME NEW t \in Toggles, Store(t) PROVE HolderRollsBack'
  BY <1>11 DEF Store
<1>12. ASSUME NEW t \in Toggles, PortFree(t) PROVE HolderRollsBack'
  BY <1>12 DEF PortFree
<1>13. ASSUME NEW t \in Toggles, StopDnscache(t) PROVE HolderRollsBack'
  BY <1>13 DEF StopDnscache
<1>14. ASSUME NEW t \in Toggles, PortTaken(t) PROVE HolderRollsBack'
  BY <1>14 DEF PortTaken
<1>15. ASSUME NEW t \in Toggles, SpawnDns(t) PROVE HolderRollsBack'
  BY <1>15 DEF SpawnDns, Spawn
<1>16. ASSUME NEW t \in Toggles, RegisterDns(t) PROVE HolderRollsBack'
  BY <1>16 DEF RegisterDns, Register
<1>17. ASSUME NEW t \in Toggles, SpawnDispatch(t) PROVE HolderRollsBack'
  BY <1>17 DEF SpawnDispatch, Spawn
<1>18. ASSUME NEW t \in Toggles, RegisterDispatch(t) PROVE HolderRollsBack'
  BY <1>18 DEF RegisterDispatch, Register
<1>19. ASSUME NEW t \in Toggles, Finish(t) PROVE HolderRollsBack'
  BY <1>19 DEF Finish
<1>20. ASSUME NEW t \in Toggles, AbortTasks(t) PROVE HolderRollsBack'
  BY <1>20 DEF AbortTasks
<1>21. ASSUME NEW t \in Toggles, TakeTunnel(t) PROVE HolderRollsBack'
  BY <1>21 DEF TakeTunnel
<1>22. ASSUME NEW t \in Toggles, NoTunnel(t) PROVE HolderRollsBack'
  BY <1>22 DEF NoTunnel, Exit, ProcessEnds
<1>23. ASSUME NEW t \in Toggles, ReadIp(t) PROVE HolderRollsBack'
  BY <1>23 DEF ReadIp
<1>24. ASSUME NEW t \in Toggles, UndoStep(t) PROVE HolderRollsBack'
  BY <1>24 DEF UndoStep, Remove
<1>25. ASSUME NEW t \in Toggles, Deactivate(t) PROVE HolderRollsBack'
  BY <1>25 DEF Deactivate, Exit, ProcessEnds
<1>26. ASSUME NEW t \in Toggles, StartDnscache(t) PROVE HolderRollsBack'
  BY <1>26 DEF StartDnscache
<1>27. ASSUME NEW t \in Toggles, ForgetIp(t) PROVE HolderRollsBack'
  BY <1>27 DEF ForgetIp
<1>28. ASSUME NEW t \in Toggles, Settle(t) PROVE HolderRollsBack'
  BY <1>28 DEF Settle
<1>29. ASSUME NEW t \in Toggles, DnsBinds(t) PROVE HolderRollsBack'
  BY <1>29 DEF DnsBinds
<1>30. ASSUME NEW t \in Toggles, DnsDies(t) PROVE HolderRollsBack'
  BY <1>30 DEF DnsDies
<1>31. ASSUME NEW t \in Toggles, DispatchEnds(t) PROVE HolderRollsBack'
  BY <1>31 DEF DispatchEnds
<1>32. ASSUME NEW t \in Toggles, FlowsOpen(t) PROVE HolderRollsBack'
  BY <1>32 DEF FlowsOpen
<1>33. ASSUME NEW t \in Toggles, FlowsEnd(t) PROVE HolderRollsBack'
  BY <1>33 DEF FlowsEnd
<1>34. ASSUME NEW t \in Toggles, NEW s \in Servers, Connect(t, s) PROVE HolderRollsBack'
  BY <1>34 DEF Connect
<1>35. CASE DnscacheReleases
  BY <1>35 DEF DnscacheReleases
<1>36. CASE Crash
  BY <1>36 DEF Crash, ProcessEnds
<1> QED
  BY <1>1, <1>2, <1>3, <1>4, <1>5, <1>6, <1>7, <1>8, <1>9, <1>10, <1>11, <1>12,
     <1>13, <1>14, <1>15, <1>16, <1>17, <1>18, <1>19, <1>20, <1>21, <1>22, <1>23,
     <1>24, <1>25, <1>26, <1>27, <1>28, <1>29, <1>30, <1>31, <1>32, <1>33, <1>34,
     <1>35, <1>36
     DEF Next, Background, AllEnded, Start, Proceed

(* However many calls overlap, whoever waits for the mutex waits for another *)
(* call that is undoing routes or about to: no call waits for one that has  *)
(* ended, for one that waits, or for itself.                                *)
THEOREM WaitsAreForRollbacks ==
  Spec => [](\A t \in Toggles :
                (pc[t] \in {"store", "lock"} /\ tunnel_lock # Nobody) =>
                   tunnel_lock # t /\ InRollback(tunnel_lock))
<1>1. Init => TypeOK /\ HolderRollsBack
  BY TypeInit DEF Init, HolderRollsBack
<1>2. TypeOK /\ HolderRollsBack /\ [Next]_vars => (TypeOK /\ HolderRollsBack)'
  BY TypeStep, HolderStep
<1>3. HolderRollsBack => \A t \in Toggles :
                (pc[t] \in {"store", "lock"} /\ tunnel_lock # Nobody) =>
                   tunnel_lock # t /\ InRollback(tunnel_lock)
  BY DEF HolderRollsBack, InRollback
<1> QED
  BY <1>1, <1>2, <1>3, PTL DEF Spec

-----------------------------------------------------------------------------
(* How many steps a call has before it at the most.  The polls of port 53    *)
(* are one step (see PortFree and PortTaken).                               *)
Rank ==
    [new |-> 16, activate |-> 15, resolve |-> 14, configure |-> 14, keep_ip |-> 9,
     store |-> 8, port |-> 7, poll |-> 6, spawn_dns |-> 5, register_dns |-> 4,
     spawn_dispatch |-> 3, register_dispatch |-> 2, finish |-> 1,
     abort |-> 11, lock |-> 10, read_ip |-> 9, undo |-> 9, deactivate |-> 4,
     start_dnscache |-> 3, forget_ip |-> 2, settle |-> 1, ended |-> 0]

StepsLeft(t) == IF pc[t] \in {"configure", "undo"} THEN Rank[pc[t]] - step[t] ELSE Rank[pc[t]]

(* Call t is a step further, and no other call has moved. *)
OneOnward(t) ==
    /\ StepsLeft(t)' < StepsLeft(t)
    /\ \A u \in Toggles : u # t => StepsLeft(u)' = StepsLeft(u)

(* A call that has a step left is not over.                                 *)
LEMMA LeftNat == ASSUME TypeOK, NEW t \in Toggles PROVE StepsLeft(t) \in Nat
  BY DEF TypeOK, StepsLeft, Rank, ConnectSteps, DisconnectSteps

LEMMA OnwardStep ==
  ASSUME TypeOK, NEW t \in Toggles, Start(t) \/ Proceed(t)
  PROVE  OneOnward(t)
<1> USE DEF TypeOK, ConnectSteps, DisconnectSteps, StepsLeft, OneOnward, Rank, Goto, At,
            MayStart, appVars, callVars
<1>1. CASE Disconnect(t)
  BY <1>1 DEF Disconnect
<1>2. CASE Quit(t)
  BY <1>2 DEF Quit
<1>3. CASE Activated(t)
  BY <1>3 DEF Activated
<1>4. CASE ActivateFailed(t)
  BY <1>4 DEF ActivateFailed
<1>5. CASE Resolved(t)
  BY <1>5 DEF Resolved
<1>6. CASE ResolveFailed(t)
  BY <1>6 DEF ResolveFailed
<1>7. CASE ConfigureStep(t)
  BY <1>7 DEF ConfigureStep, Install
<1>8. CASE ConfigureFailed(t)
  BY <1>8 DEF ConfigureFailed
<1>9. CASE KeepIp(t)
  BY <1>9 DEF KeepIp
<1>10. CASE Store(t)
  BY <1>10 DEF Store
<1>11. CASE PortFree(t)
  BY <1>11 DEF PortFree
<1>12. CASE StopDnscache(t)
  BY <1>12 DEF StopDnscache
<1>13. CASE PortTaken(t)
  BY <1>13 DEF PortTaken
<1>14. CASE SpawnDns(t)
  BY <1>14 DEF SpawnDns, Spawn
<1>15. CASE RegisterDns(t)
  BY <1>15 DEF RegisterDns, Register
<1>16. CASE SpawnDispatch(t)
  BY <1>16 DEF SpawnDispatch, Spawn
<1>17. CASE RegisterDispatch(t)
  BY <1>17 DEF RegisterDispatch, Register
<1>18. CASE Finish(t)
  BY <1>18 DEF Finish
<1>19. CASE AbortTasks(t)
  BY <1>19 DEF AbortTasks
<1>20. CASE TakeTunnel(t)
  BY <1>20 DEF TakeTunnel
<1>21. CASE NoTunnel(t)
  BY <1>21 DEF NoTunnel, Exit, ProcessEnds
<1>22. CASE ReadIp(t)
  BY <1>22 DEF ReadIp
<1>23. CASE UndoStep(t)
  BY <1>23 DEF UndoStep, Remove
<1>24. CASE Deactivate(t)
  BY <1>24 DEF Deactivate, Exit, ProcessEnds
<1>25. CASE StartDnscache(t)
  BY <1>25 DEF StartDnscache
<1>26. CASE ForgetIp(t)
  BY <1>26 DEF ForgetIp
<1>27. CASE Settle(t)
  BY <1>27 DEF Settle
<1>28. ASSUME NEW s \in Servers, Connect(t, s) PROVE OneOnward(t)
  BY <1>28 DEF Connect
<1> QED
  BY <1>1, <1>2, <1>3, <1>4, <1>5, <1>6, <1>7, <1>8, <1>9, <1>10, <1>11, <1>12,
     <1>13, <1>14, <1>15, <1>16, <1>17, <1>18, <1>19, <1>20, <1>21, <1>22, <1>23,
     <1>24, <1>25, <1>26, <1>27, <1>28
     DEF Start, Proceed

(* What happens behind the calls' back takes no call back either. *)
LEMMA OthersStep ==
  ASSUME TypeOK, Background \/ UNCHANGED vars, NEW t \in Toggles
  PROVE  StepsLeft(t)' <= StepsLeft(t)
<1> USE DEF TypeOK, ConnectSteps, DisconnectSteps, callVars
<1>1. CASE UNCHANGED <<pc, step>>
  <2>1. StepsLeft(t)' = StepsLeft(t)
    BY <1>1 DEF StepsLeft
  <2> QED
    BY <2>1, LeftNat
<1>2. CASE Crash
  <2>1. step' = step /\ pc'[t] \in {pc[t], "ended"} /\ (pc[t] = "new" => pc'[t] = "new")
    BY <1>2 DEF Crash
  <2>2. StepsLeft(t)' \in {StepsLeft(t), 0}
    BY <2>1 DEF StepsLeft, Rank
  <2> QED
    BY <2>2, LeftNat
<1>3. Background \/ UNCHANGED vars => Crash \/ UNCHANGED <<pc, step>>
  BY DEF Background, vars, DnscacheReleases, DnsBinds, DnsDies, DispatchEnds, FlowsOpen,
         FlowsEnd
<1> QED
  BY <1>1, <1>2, <1>3

(* However calls overlap and whatever fails, no call goes back: each of its  *)
(* steps, of which it has 16 at the most, brings it nearer to its end, and  *)
(* nothing else takes it further from it, so that it ends or waits.         *)
THEOREM CallsOnlyAdvance ==
  Spec => [][/\ \A t \in Toggles : StepsLeft(t)' \in 0 .. StepsLeft(t)
             /\ \A t \in Toggles : Start(t) \/ Proceed(t) => OneOnward(t)]_vars
<1> DEFINE Advance == /\ \A t \in Toggles : StepsLeft(t)' \in 0 .. StepsLeft(t)
                      /\ \A t \in Toggles : Start(t) \/ Proceed(t) => OneOnward(t)
<1>1. ASSUME TypeOK, TypeOK', [Next]_vars PROVE Advance
  <2>1. ASSUME NEW t \in Toggles PROVE StepsLeft(t) \in Nat /\ StepsLeft(t)' \in Nat
    <3>1. StepsLeft(t)' \in Nat
      BY <1>1 DEF TypeOK, StepsLeft, Rank, ConnectSteps, DisconnectSteps
    <3> QED
      BY <1>1, <3>1, LeftNat
  <2>2. ASSUME NEW t \in Toggles, Start(t) \/ Proceed(t) PROVE OneOnward(t)
    BY <1>1, <2>2, OnwardStep
  <2>3. ASSUME NEW t \in Toggles PROVE StepsLeft(t)' <= StepsLeft(t)
    <3>1. CASE \E u \in Toggles : Start(u) \/ Proceed(u)
      BY <2>1, <2>2, <3>1 DEF OneOnward
    <3>2. CASE Background \/ UNCHANGED vars
      BY <1>1, <3>2, OthersStep
    <3> QED
      BY <1>1, <3>1, <3>2 DEF Next, AllEnded
  <2> QED
    BY <2>1, <2>2, <2>3
<1>2. TypeOK /\ TypeOK' /\ [Next]_vars => [Advance]_vars
  BY <1>1
<1> QED
  BY <1>2, TypeCorrect, PTL DEF Spec

-----------------------------------------------------------------------------
(* Background tasks.  A dead process runs none, so the steps of a call may  *)
(* be assumed to be those of a process that is there.                       *)
LEMMA OrphanStep ==
  TypeOK /\ NoOrphanTasks /\ [Next]_vars => NoOrphanTasks'
<1> SUFFICES ASSUME TypeOK, NoOrphanTasks, [Next]_vars PROVE NoOrphanTasks'
  OBVIOUS
<1> USE NamesAssumption
        DEF TypeOK, ConnectSteps, DisconnectSteps, NoOrphanTasks, Tasks, Goto, At,
            MayStart, appVars, callVars, taskVars, osVars
<1>1. CASE UNCHANGED vars
  BY <1>1 DEF vars
<1>2. ASSUME NEW t \in Toggles, Disconnect(t) PROVE NoOrphanTasks'
  BY <1>2 DEF Disconnect
<1>3. ASSUME NEW t \in Toggles, Quit(t) PROVE NoOrphanTasks'
  BY <1>3 DEF Quit
<1>4. ASSUME NEW t \in Toggles, Activated(t) PROVE NoOrphanTasks'
  BY <1>4 DEF Activated
<1>5. ASSUME NEW t \in Toggles, ActivateFailed(t) PROVE NoOrphanTasks'
  BY <1>5 DEF ActivateFailed
<1>6. ASSUME NEW t \in Toggles, Resolved(t) PROVE NoOrphanTasks'
  BY <1>6 DEF Resolved
<1>7. ASSUME NEW t \in Toggles, ResolveFailed(t) PROVE NoOrphanTasks'
  BY <1>7 DEF ResolveFailed
<1>8. ASSUME NEW t \in Toggles, ConfigureStep(t) PROVE NoOrphanTasks'
  BY <1>8 DEF ConfigureStep
<1>9. ASSUME NEW t \in Toggles, ConfigureFailed(t) PROVE NoOrphanTasks'
  BY <1>9 DEF ConfigureFailed
<1>10. ASSUME NEW t \in Toggles, KeepIp(t) PROVE NoOrphanTasks'
  BY <1>10 DEF KeepIp
<1>11. ASSUME NEW t \in Toggles, Store(t) PROVE NoOrphanTasks'
  BY <1>11 DEF Store
<1>12. ASSUME NEW t \in Toggles, PortFree(t) PROVE NoOrphanTasks'
  BY <1>12 DEF PortFree
<1>13. ASSUME NEW t \in Toggles, StopDnscache(t) PROVE NoOrphanTasks'
  BY <1>13 DEF StopDnscache
<1>14. ASSUME NEW t \in Toggles, PortTaken(t) PROVE NoOrphanTasks'
  BY <1>14 DEF PortTaken
<1>15. ASSUME NEW t \in Toggles, SpawnDns(t) PROVE NoOrphanTasks'
  BY <1>15 DEF SpawnDns, Spawn
<1>16. ASSUME NEW t \in Toggles, RegisterDns(t) PROVE NoOrphanTasks'
  BY <1>16 DEF RegisterDns, Register
<1>17. ASSUME NEW t \in Toggles, SpawnDispatch(t) PROVE NoOrphanTasks'
  BY <1>17 DEF SpawnDispatch, Spawn
<1>18. ASSUME NEW t \in Toggles, RegisterDispatch(t) PROVE NoOrphanTasks'
  BY <1>18 DEF RegisterDispatch, Register
<1>19. ASSUME NEW t \in Toggles, Finish(t) PROVE NoOrphanTasks'
  BY <1>19 DEF Finish
<1>20. ASSUME NEW t \in Toggles, AbortTasks(t) PROVE NoOrphanTasks'
  BY <1>20 DEF AbortTasks
<1>21. ASSUME NEW t \in Toggles, TakeTunnel(t) PROVE NoOrphanTasks'
  BY <1>21 DEF TakeTunnel
<1>22. ASSUME NEW t \in Toggles, NoTunnel(t) PROVE NoOrphanTasks'
  BY <1>22 DEF NoTunnel, Exit, ProcessEnds
<1>23. ASSUME NEW t \in Toggles, ReadIp(t) PROVE NoOrphanTasks'
  BY <1>23 DEF ReadIp
<1>24. ASSUME NEW t \in Toggles, UndoStep(t) PROVE NoOrphanTasks'
  BY <1>24 DEF UndoStep
<1>25. ASSUME NEW t \in Toggles, Deactivate(t) PROVE NoOrphanTasks'
  BY <1>25 DEF Deactivate, Exit, ProcessEnds
<1>26. ASSUME NEW t \in Toggles, StartDnscache(t) PROVE NoOrphanTasks'
  BY <1>26 DEF StartDnscache
<1>27. ASSUME NEW t \in Toggles, ForgetIp(t) PROVE NoOrphanTasks'
  BY <1>27 DEF ForgetIp
<1>28. ASSUME NEW t \in Toggles, Settle(t) PROVE NoOrphanTasks'
  BY <1>28 DEF Settle
<1>29. ASSUME NEW t \in Toggles, DnsBinds(t) PROVE NoOrphanTasks'
  BY <1>29 DEF DnsBinds
<1>30. ASSUME NEW t \in Toggles, DnsDies(t) PROVE NoOrphanTasks'
  BY <1>30 DEF DnsDies
<1>31. ASSUME NEW t \in Toggles, DispatchEnds(t) PROVE NoOrphanTasks'
  BY <1>31 DEF DispatchEnds
<1>32. ASSUME NEW t \in Toggles, NEW s \in Servers, Connect(t, s) PROVE NoOrphanTasks'
  BY <1>32 DEF Connect
<1>33. CASE DnscacheReleases
  BY <1>33 DEF DnscacheReleases
<1>34. CASE Crash
  BY <1>34 DEF Crash, ProcessEnds
<1>35. ASSUME NEW t \in Toggles, FlowsOpen(t) PROVE NoOrphanTasks'
  BY <1>35 DEF FlowsOpen
<1>36. ASSUME NEW t \in Toggles, FlowsEnd(t) PROVE NoOrphanTasks'
  BY <1>36 DEF FlowsEnd
<1> QED
  BY <1>1, <1>2, <1>3, <1>4, <1>5, <1>6, <1>7, <1>8, <1>9, <1>10, <1>11,
     <1>12, <1>13, <1>14, <1>15, <1>16, <1>17, <1>18, <1>19, <1>20, <1>21,
     <1>22, <1>23, <1>24, <1>25, <1>26, <1>27, <1>28, <1>29, <1>30, <1>31,
     <1>32, <1>33, <1>34, <1>35, <1>36
     DEF Next, Background, AllEnded, Start, Proceed

(* No background task ever escapes the list that disconnecting aborts.      *)
THEOREM NoTaskEscapes == Spec => []NoOrphanTasks
<1>1. Init => TypeOK /\ NoOrphanTasks
  BY TypeInit DEF Init, NoOrphanTasks
<1>2. TypeOK /\ NoOrphanTasks /\ [Next]_vars => (TypeOK /\ NoOrphanTasks)'
  BY TypeStep, OrphanStep
<1> QED
  BY <1>1, <1>2, PTL DEF Spec

-----------------------------------------------------------------------------
(* No call beside a connect, and an adapter that admits one session.        *)
ConnectsApart == ConnectsAlone /\ ExclusiveSession

Opening == {"resolve", "configure", "keep_ip", "store"}
Serving == {"port", "poll", "spawn_dns", "register_dns", "spawn_dispatch",
            "register_dispatch", "finish"}
Closing == {"lock", "read_ip", "undo", "deactivate"}
Closed  == {"start_dnscache", "forget_ip", "settle"}

(* While a connect runs, no other call does. *)
ConnectAlone ==
    \A t, u \in Toggles :
       (pc[t] \in ConnectSteps /\ u # t) => pc[u] \in {"new", "ended"}

(* The one session is that of the stored adapter, or of the connect that is *)
(* about to store its own.                                                  *)
SessionOfTunnel ==
    /\ \A t \in Toggles : pc[t] \in Opening => sessions = {t} /\ tunnel = Nobody
    /\ \A t \in Toggles : pc[t] \in Serving => tunnel = t
    /\ \A t \in Toggles : pc[t] \in Closed => tunnel = Nobody
    /\ tunnel # Nobody => sessions = {tunnel}
    /\ (tunnel = Nobody /\ \A t \in Toggles : pc[t] \notin Opening) => sessions = {}

(* The background tasks are those of the stored adapter; a connect finds   *)
(* those it has spawned still running, a disconnect has stopped them all.  *)
TasksFor(t) ==
    /\ pc[t] \in Closing \cup Closed => live = {}
    /\ pc[t] \in {"forget_ip", "settle"} => ("sc_start" \in MayFail \/ dnscache)
    /\ pc[t] \in Serving \ {"port", "poll"} => port53 \in {"free", t}
    /\ pc[t] \in Serving \ {"port", "poll", "spawn_dns"} => <<"dns", t>> \in live
    /\ pc[t] \in {"register_dispatch", "finish"} => <<"dispatch", t>> \in live

TasksOfTunnel ==
    /\ \A task \in live : task[2] = tunnel
    /\ \A t \in Toggles : TasksFor(t)

ServedWhenConnected ==
    (Running = {} /\ status = "Connected") =>
       /\ tunnel # Nobody
       /\ port53 \in {"free", tunnel}
       /\ {<<"dns", tunnel>>, <<"dispatch", tunnel>>} \subseteq live

SessionInv ==
    process # "gone" =>
       ConnectAlone /\ SessionOfTunnel /\ TasksOfTunnel /\ ServedWhenConnected

(* ConnectsAlone sees to it, and no step of a dead process starts a call.    *)
LEMMA ConnectAloneStep ==
  ASSUME TypeOK, ConnectsApart, process # "gone" => ConnectAlone, [Next]_vars
  PROVE  process' # "gone" => ConnectAlone'
<1> USE NamesAssumption
        DEF TypeOK, ConnectSteps, DisconnectSteps, Goto, At, MayStart, appVars,
            callVars, taskVars, osVars, ConnectsApart, ConnectAlone, Running
<1>1. CASE UNCHANGED vars
  BY <1>1 DEF vars
<1>2. ASSUME NEW t \in Toggles, Disconnect(t) PROVE process' # "gone" => ConnectAlone'
  BY <1>2 DEF Disconnect
<1>3. ASSUME NEW t \in Toggles, Quit(t) PROVE process' # "gone" => ConnectAlone'
  BY <1>3 DEF Quit
<1>4. ASSUME NEW t \in Toggles, Activated(t) PROVE process' # "gone" => ConnectAlone'
  BY <1>4 DEF Activated
<1>5. ASSUME NEW t \in Toggles, ActivateFailed(t) PROVE process' # "gone" => ConnectAlone'
  BY <1>5 DEF ActivateFailed
<1>6. ASSUME NEW t \in Toggles, Resolved(t) PROVE process' # "gone" => ConnectAlone'
  BY <1>6 DEF Resolved
<1>7. ASSUME NEW t \in Toggles, ResolveFailed(t) PROVE process' # "gone" => ConnectAlone'
  BY <1>7 DEF ResolveFailed
<1>8. ASSUME NEW t \in Toggles, ConfigureStep(t) PROVE process' # "gone" => ConnectAlone'
  BY <1>8 DEF ConfigureStep, Install
<1>9. ASSUME NEW t \in Toggles, ConfigureFailed(t) PROVE process' # "gone" => ConnectAlone'
  BY <1>9 DEF ConfigureFailed
<1>10. ASSUME NEW t \in Toggles, KeepIp(t) PROVE process' # "gone" => ConnectAlone'
  BY <1>10 DEF KeepIp
<1>11. ASSUME NEW t \in Toggles, Store(t) PROVE process' # "gone" => ConnectAlone'
  BY <1>11 DEF Store
<1>12. ASSUME NEW t \in Toggles, PortFree(t) PROVE process' # "gone" => ConnectAlone'
  BY <1>12 DEF PortFree
<1>13. ASSUME NEW t \in Toggles, StopDnscache(t) PROVE process' # "gone" => ConnectAlone'
  BY <1>13 DEF StopDnscache
<1>14. ASSUME NEW t \in Toggles, PortTaken(t) PROVE process' # "gone" => ConnectAlone'
  BY <1>14 DEF PortTaken
<1>15. ASSUME NEW t \in Toggles, SpawnDns(t) PROVE process' # "gone" => ConnectAlone'
  BY <1>15 DEF SpawnDns, Spawn
<1>16. ASSUME NEW t \in Toggles, RegisterDns(t) PROVE process' # "gone" => ConnectAlone'
  BY <1>16 DEF RegisterDns, Register
<1>17. ASSUME NEW t \in Toggles, SpawnDispatch(t) PROVE process' # "gone" => ConnectAlone'
  BY <1>17 DEF SpawnDispatch, Spawn
<1>18. ASSUME NEW t \in Toggles, RegisterDispatch(t) PROVE process' # "gone" => ConnectAlone'
  BY <1>18 DEF RegisterDispatch, Register
<1>19. ASSUME NEW t \in Toggles, Finish(t) PROVE process' # "gone" => ConnectAlone'
  BY <1>19 DEF Finish
<1>20. ASSUME NEW t \in Toggles, AbortTasks(t) PROVE process' # "gone" => ConnectAlone'
  BY <1>20 DEF AbortTasks
<1>21. ASSUME NEW t \in Toggles, TakeTunnel(t) PROVE process' # "gone" => ConnectAlone'
  BY <1>21 DEF TakeTunnel
<1>22. ASSUME NEW t \in Toggles, NoTunnel(t) PROVE process' # "gone" => ConnectAlone'
  BY <1>22 DEF NoTunnel, Exit, ProcessEnds
<1>23. ASSUME NEW t \in Toggles, ReadIp(t) PROVE process' # "gone" => ConnectAlone'
  BY <1>23 DEF ReadIp
<1>24. ASSUME NEW t \in Toggles, UndoStep(t) PROVE process' # "gone" => ConnectAlone'
  BY <1>24 DEF UndoStep, Remove
<1>25. ASSUME NEW t \in Toggles, Deactivate(t) PROVE process' # "gone" => ConnectAlone'
  BY <1>25 DEF Deactivate, Exit, ProcessEnds
<1>26. ASSUME NEW t \in Toggles, StartDnscache(t) PROVE process' # "gone" => ConnectAlone'
  BY <1>26 DEF StartDnscache
<1>27. ASSUME NEW t \in Toggles, ForgetIp(t) PROVE process' # "gone" => ConnectAlone'
  BY <1>27 DEF ForgetIp
<1>28. ASSUME NEW t \in Toggles, Settle(t) PROVE process' # "gone" => ConnectAlone'
  BY <1>28 DEF Settle
<1>29. ASSUME NEW t \in Toggles, DnsBinds(t) PROVE process' # "gone" => ConnectAlone'
  BY <1>29 DEF DnsBinds
<1>30. ASSUME NEW t \in Toggles, DnsDies(t) PROVE process' # "gone" => ConnectAlone'
  BY <1>30 DEF DnsDies
<1>31. ASSUME NEW t \in Toggles, DispatchEnds(t) PROVE process' # "gone" => ConnectAlone'
  BY <1>31 DEF DispatchEnds
<1>32. ASSUME NEW t \in Toggles, NEW s \in Servers, Connect(t, s)
      PROVE  process' # "gone" => ConnectAlone'
  BY <1>32 DEF Connect
<1>33. CASE DnscacheReleases
  BY <1>33 DEF DnscacheReleases
<1>34. CASE Crash
  BY <1>34 DEF Crash, ProcessEnds
<1>35. ASSUME NEW t \in Toggles, FlowsOpen(t) PROVE process' # "gone" => ConnectAlone'
  BY <1>35 DEF FlowsOpen
<1>36. ASSUME NEW t \in Toggles, FlowsEnd(t) PROVE process' # "gone" => ConnectAlone'
  BY <1>36 DEF FlowsEnd
<1> QED
  BY <1>1, <1>2, <1>3, <1>4, <1>5, <1>6, <1>7, <1>8, <1>9, <1>10, <1>11,
     <1>12, <1>13, <1>14, <1>15, <1>16, <1>17, <1>18, <1>19, <1>20, <1>21,
     <1>22, <1>23, <1>24, <1>25, <1>26, <1>27, <1>28, <1>29, <1>30, <1>31,
     <1>32, <1>33, <1>34, <1>35, <1>36
     DEF Next, Background, AllEnded, Start, Proceed

(* ExclusiveSession refuses a second session, RollbackExclusive ties a       *)
(* rollback to the stored adapter.                                          *)
LEMMA SessionStep ==
  ASSUME TypeOK, ConnectsApart, RollbackExclusive,
         process # "gone" => ConnectAlone /\ SessionOfTunnel, [Next]_vars
  PROVE  process' # "gone" => SessionOfTunnel'
<1> USE NamesAssumption
        DEF TypeOK, ConnectSteps, DisconnectSteps, Goto, At, MayStart, appVars,
            callVars, taskVars, osVars, ConnectsApart, ConnectAlone, Running, SessionOfTunnel,
            Opening, Serving, Closed
<1>1. CASE UNCHANGED vars
  BY <1>1 DEF vars
<1>2. ASSUME NEW t \in Toggles, Disconnect(t) PROVE process' # "gone" => SessionOfTunnel'
  BY <1>2 DEF Disconnect
<1>3. ASSUME NEW t \in Toggles, Quit(t) PROVE process' # "gone" => SessionOfTunnel'
  BY <1>3 DEF Quit
<1>4. ASSUME NEW t \in Toggles, Activated(t) PROVE process' # "gone" => SessionOfTunnel'
  BY <1>4 DEF Activated
<1>5. ASSUME NEW t \in Toggles, ActivateFailed(t) PROVE process' # "gone" => SessionOfTunnel'
  BY <1>5 DEF ActivateFailed
<1>6. ASSUME NEW t \in Toggles, Resolved(t) PROVE process' # "gone" => SessionOfTunnel'
  BY <1>6 DEF Resolved
<1>7. ASSUME NEW t \in Toggles, ResolveFailed(t) PROVE process' # "gone" => SessionOfTunnel'
  BY <1>7 DEF ResolveFailed
<1>8. ASSUME NEW t \in Toggles, ConfigureStep(t) PROVE process' # "gone" => SessionOfTunnel'
  BY <1>8 DEF ConfigureStep, Install
<1>9. ASSUME NEW t \in Toggles, ConfigureFailed(t) PROVE process' # "gone" => SessionOfTunnel'
  BY <1>9 DEF ConfigureFailed
<1>10. ASSUME NEW t \in Toggles, KeepIp(t) PROVE process' # "gone" => SessionOfTunnel'
  BY <1>10 DEF KeepIp
<1>11. ASSUME NEW t \in Toggles, Store(t) PROVE process' # "gone" => SessionOfTunnel'
  BY <1>11 DEF Store
<1>12. ASSUME NEW t \in Toggles, PortFree(t) PROVE process' # "gone" => SessionOfTunnel'
  BY <1>12 DEF PortFree
<1>13. ASSUME NEW t \in Toggles, StopDnscache(t) PROVE process' # "gone" => SessionOfTunnel'
  BY <1>13 DEF StopDnscache
<1>14. ASSUME NEW t \in Toggles, PortTaken(t) PROVE process' # "gone" => SessionOfTunnel'
  BY <1>14 DEF PortTaken
<1>15. ASSUME NEW t \in Toggles, SpawnDns(t) PROVE process' # "gone" => SessionOfTunnel'
  BY <1>15 DEF SpawnDns, Spawn
<1>16. ASSUME NEW t \in Toggles, RegisterDns(t) PROVE process' # "gone" => SessionOfTunnel'
  BY <1>16 DEF RegisterDns, Register
<1>17. ASSUME NEW t \in Toggles, SpawnDispatch(t) PROVE process' # "gone" => SessionOfTunnel'
  BY <1>17 DEF SpawnDispatch, Spawn
<1>18. ASSUME NEW t \in Toggles, RegisterDispatch(t) PROVE process' # "gone" => SessionOfTunnel'
  BY <1>18 DEF RegisterDispatch, Register
<1>19. ASSUME NEW t \in Toggles, Finish(t) PROVE process' # "gone" => SessionOfTunnel'
  BY <1>19 DEF Finish
<1>20. ASSUME NEW t \in Toggles, AbortTasks(t) PROVE process' # "gone" => SessionOfTunnel'
  BY <1>20 DEF AbortTasks
<1>21. ASSUME NEW t \in Toggles, TakeTunnel(t) PROVE process' # "gone" => SessionOfTunnel'
  BY <1>21 DEF TakeTunnel
<1>22. ASSUME NEW t \in Toggles, NoTunnel(t) PROVE process' # "gone" => SessionOfTunnel'
  BY <1>22 DEF NoTunnel, Exit, ProcessEnds
<1>23. ASSUME NEW t \in Toggles, ReadIp(t) PROVE process' # "gone" => SessionOfTunnel'
  BY <1>23 DEF ReadIp
<1>24. ASSUME NEW t \in Toggles, UndoStep(t) PROVE process' # "gone" => SessionOfTunnel'
  BY <1>24 DEF UndoStep, Remove
<1>25. ASSUME NEW t \in Toggles, Deactivate(t) PROVE process' # "gone" => SessionOfTunnel'
  BY <1>25 DEF Deactivate, Exit, ProcessEnds
<1>26. ASSUME NEW t \in Toggles, StartDnscache(t) PROVE process' # "gone" => SessionOfTunnel'
  BY <1>26 DEF StartDnscache
<1>27. ASSUME NEW t \in Toggles, ForgetIp(t) PROVE process' # "gone" => SessionOfTunnel'
  BY <1>27 DEF ForgetIp
<1>28. ASSUME NEW t \in Toggles, Settle(t) PROVE process' # "gone" => SessionOfTunnel'
  BY <1>28 DEF Settle
<1>29. ASSUME NEW t \in Toggles, DnsBinds(t) PROVE process' # "gone" => SessionOfTunnel'
  BY <1>29 DEF DnsBinds
<1>30. ASSUME NEW t \in Toggles, DnsDies(t) PROVE process' # "gone" => SessionOfTunnel'
  BY <1>30 DEF DnsDies
<1>31. ASSUME NEW t \in Toggles, DispatchEnds(t) PROVE process' # "gone" => SessionOfTunnel'
  BY <1>31 DEF DispatchEnds
<1>32. ASSUME NEW t \in Toggles, NEW s \in Servers, Connect(t, s)
      PROVE  process' # "gone" => SessionOfTunnel'
  BY <1>32 DEF Connect
<1>33. CASE DnscacheReleases
  BY <1>33 DEF DnscacheReleases
<1>34. CASE Crash
  BY <1>34 DEF Crash, ProcessEnds
<1>35. ASSUME NEW t \in Toggles, FlowsOpen(t) PROVE process' # "gone" => SessionOfTunnel'
  BY <1>35 DEF FlowsOpen
<1>36. ASSUME NEW t \in Toggles, FlowsEnd(t) PROVE process' # "gone" => SessionOfTunnel'
  BY <1>36 DEF FlowsEnd
<1> QED
  BY <1>1, <1>2, <1>3, <1>4, <1>5, <1>6, <1>7, <1>8, <1>9, <1>10, <1>11,
     <1>12, <1>13, <1>14, <1>15, <1>16, <1>17, <1>18, <1>19, <1>20, <1>21,
     <1>22, <1>23, <1>24, <1>25, <1>26, <1>27, <1>28, <1>29, <1>30, <1>31,
     <1>32, <1>33, <1>34, <1>35, <1>36
     DEF Next, Background, AllEnded, Start, Proceed

(* Every task is registered when a disconnect aborts: no other call can be   *)
(* between a spawn and its registration.                                    *)
LEMMA TasksStep ==
  ASSUME TypeOK, ConnectsApart, NoOrphanTasks,
         process # "gone" => ConnectAlone /\ SessionOfTunnel /\ TasksOfTunnel,
         [Next]_vars
  PROVE  process' # "gone" => TasksOfTunnel'
<1> USE NamesAssumption
        DEF TypeOK, ConnectSteps, DisconnectSteps, Goto, At, MayStart, appVars,
            callVars, taskVars, osVars, ConnectAlone, Running, TasksOfTunnel, TasksFor,
            Serving, Closing, Closed
<1>a. \A task \in live : task[2] \in Toggles
  BY DEF Tasks
<1>b. ASSUME NEW t \in Toggles, process # "gone", pc[t] \in ConnectSteps
      PROVE  \A u \in Toggles : u # t => pc[u] \in {"new", "ended"}
  BY <1>b
<1>c. ASSUME NEW t \in Toggles, process # "gone", pc[t] \in DisconnectSteps
      PROVE  \A u \in Toggles : pc[u] \notin ConnectSteps
  BY <1>c
<1>1. CASE UNCHANGED vars
  BY <1>1 DEF vars
<1>2. ASSUME NEW t \in Toggles, Disconnect(t) PROVE process' # "gone" => TasksOfTunnel'
  BY <1>2 DEF Disconnect
<1>3. ASSUME NEW t \in Toggles, Quit(t) PROVE process' # "gone" => TasksOfTunnel'
  BY <1>3 DEF Quit
<1>4. ASSUME NEW t \in Toggles, Activated(t) PROVE process' # "gone" => TasksOfTunnel'
  BY <1>4 DEF Activated
<1>5. ASSUME NEW t \in Toggles, ActivateFailed(t) PROVE process' # "gone" => TasksOfTunnel'
  BY <1>5 DEF ActivateFailed
<1>6. ASSUME NEW t \in Toggles, Resolved(t) PROVE process' # "gone" => TasksOfTunnel'
  BY <1>6 DEF Resolved
<1>7. ASSUME NEW t \in Toggles, ResolveFailed(t) PROVE process' # "gone" => TasksOfTunnel'
  BY <1>7 DEF ResolveFailed
<1>8. ASSUME NEW t \in Toggles, ConfigureStep(t) PROVE process' # "gone" => TasksOfTunnel'
  BY <1>8 DEF ConfigureStep, Install
<1>9. ASSUME NEW t \in Toggles, ConfigureFailed(t) PROVE process' # "gone" => TasksOfTunnel'
  BY <1>9 DEF ConfigureFailed
<1>10. ASSUME NEW t \in Toggles, KeepIp(t) PROVE process' # "gone" => TasksOfTunnel'
  BY <1>10 DEF KeepIp
<1>11. ASSUME NEW t \in Toggles, Store(t) PROVE process' # "gone" => TasksOfTunnel'
  <2>1. tunnel = Nobody /\ process # "gone"
    BY <1>11 DEF Store, SessionOfTunnel, Opening
  <2>2. live = {}
    BY <1>a, <2>1
  <2> QED
    BY <1>11, <2>2 DEF Store
<1>12. ASSUME NEW t \in Toggles, PortFree(t) PROVE process' # "gone" => TasksOfTunnel'
  BY <1>12 DEF PortFree
<1>13. ASSUME NEW t \in Toggles, StopDnscache(t) PROVE process' # "gone" => TasksOfTunnel'
  BY <1>13 DEF StopDnscache
<1>14. ASSUME NEW t \in Toggles, PortTaken(t) PROVE process' # "gone" => TasksOfTunnel'
  BY <1>14 DEF PortTaken
<1>15. ASSUME NEW t \in Toggles, SpawnDns(t) PROVE process' # "gone" => TasksOfTunnel'
  <2>1. tunnel = t /\ process # "gone" /\ UNCHANGED <<tunnel, port53, dnscache>>
    BY <1>15 DEF SpawnDns, Spawn, SessionOfTunnel
  <2>2. live' = live \cup {<<"dns", t>>}
    BY <1>15 DEF SpawnDns, Spawn
  <2>3. \A task \in live' : task[2] = tunnel'
    <3>1. <<"dns", t>>[2] = t
      OBVIOUS
    <3> QED
      BY <2>1, <2>2, <3>1
  <2>4. \A u \in Toggles : u # t => pc'[u] \in {"new", "ended"}
    BY <1>15, <1>b DEF SpawnDns, Spawn
  <2>5. TasksFor(t)'
    <3>1. pc'[t] = "register_dns" /\ port53' = port53
      BY <1>15 DEF SpawnDns, Spawn
    <3>2. <<"dns", t>> \in live'
      BY <1>15, <2>2 DEF SpawnDns
    <3>3. port53 \in {"free", t}
      BY <1>15 DEF SpawnDns
    <3> QED
      BY <2>2, <3>1, <3>2, <3>3
  <2>6. \A u \in Toggles : u # t => TasksFor(u)'
    BY <2>4
  <2> QED
    BY <2>3, <2>5, <2>6
<1>16. ASSUME NEW t \in Toggles, RegisterDns(t) PROVE process' # "gone" => TasksOfTunnel'
  BY <1>16 DEF RegisterDns, Register
<1>17. ASSUME NEW t \in Toggles, SpawnDispatch(t) PROVE process' # "gone" => TasksOfTunnel'
  <2>1. tunnel = t /\ process # "gone" /\ UNCHANGED <<tunnel, port53, dnscache>>
    BY <1>17 DEF SpawnDispatch, Spawn, SessionOfTunnel
  <2>2. live' = live \cup {<<"dispatch", t>>}
    BY <1>17 DEF SpawnDispatch, Spawn
  <2>3. \A task \in live' : task[2] = tunnel'
    <3>1. <<"dispatch", t>>[2] = t
      OBVIOUS
    <3> QED
      BY <2>1, <2>2, <3>1
  <2>4. \A u \in Toggles : u # t => pc'[u] \in {"new", "ended"}
    BY <1>17, <1>b DEF SpawnDispatch, Spawn
  <2>5. TasksFor(t)'
    <3>1. pc'[t] = "register_dispatch" /\ port53' = port53
      BY <1>17 DEF SpawnDispatch, Spawn
    <3>2. <<"dns", t>> \in live'
      BY <1>17, <2>2 DEF SpawnDispatch
    <3>3. port53 \in {"free", t}
      BY <1>17 DEF SpawnDispatch
    <3> QED
      BY <2>2, <3>1, <3>2, <3>3
  <2>6. \A u \in Toggles : u # t => TasksFor(u)'
    BY <2>4
  <2> QED
    BY <2>3, <2>5, <2>6
<1>18. ASSUME NEW t \in Toggles, RegisterDispatch(t) PROVE process' # "gone" => TasksOfTunnel'
  BY <1>18 DEF RegisterDispatch, Register
<1>19. ASSUME NEW t \in Toggles, Finish(t) PROVE process' # "gone" => TasksOfTunnel'
  BY <1>19 DEF Finish
<1>20. ASSUME NEW t \in Toggles, AbortTasks(t) PROVE process' # "gone" => TasksOfTunnel'
  <2>1. live \ task_handles = {}
    <3> SUFFICES ASSUME NEW task \in live PROVE task \in task_handles
      OBVIOUS
    <3>1. pc[task[2]] \notin ConnectSteps
      BY <1>20, <1>a, <1>c DEF AbortTasks
    <3> QED
      BY <3>1 DEF NoOrphanTasks
  <2>2. live' = {}
    BY <1>20, <2>1 DEF AbortTasks
  <2>3. \A u \in Toggles : u # t => pc'[u] \notin ConnectSteps /\ pc'[u] = pc[u]
    BY <1>20, <1>c DEF AbortTasks
  <2>4. pc'[t] = "lock" /\ dnscache' = dnscache /\ process # "gone"
    BY <1>20 DEF AbortTasks
  <2> QED
    BY <2>2, <2>3, <2>4, ZenonT(30)
<1>21. ASSUME NEW t \in Toggles, TakeTunnel(t) PROVE process' # "gone" => TasksOfTunnel'
  BY <1>21 DEF TakeTunnel
<1>22. ASSUME NEW t \in Toggles, NoTunnel(t) PROVE process' # "gone" => TasksOfTunnel'
  BY <1>22 DEF NoTunnel, Exit, ProcessEnds
<1>23. ASSUME NEW t \in Toggles, ReadIp(t) PROVE process' # "gone" => TasksOfTunnel'
  BY <1>23 DEF ReadIp
<1>24. ASSUME NEW t \in Toggles, UndoStep(t) PROVE process' # "gone" => TasksOfTunnel'
  BY <1>24 DEF UndoStep, Remove
<1>25. ASSUME NEW t \in Toggles, Deactivate(t) PROVE process' # "gone" => TasksOfTunnel'
  <2>1. live = {} /\ process # "gone"
    BY <1>25 DEF Deactivate
  <2>2. live' = {}
    BY <1>25, <2>1 DEF Deactivate, Exit, ProcessEnds
  <2>3. \A u \in Toggles : u # t => pc'[u] \notin ConnectSteps /\ pc'[u] = pc[u]
    BY <1>25, <1>c DEF Deactivate
  <2>4. pc'[t] \in {"ended", "start_dnscache"} /\ dnscache' = dnscache
    BY <1>25 DEF Deactivate, Exit
  <2> QED
    BY <2>1, <2>2, <2>3, <2>4
<1>26. ASSUME NEW t \in Toggles, StartDnscache(t) PROVE process' # "gone" => TasksOfTunnel'
  BY <1>26 DEF StartDnscache
<1>27. ASSUME NEW t \in Toggles, ForgetIp(t) PROVE process' # "gone" => TasksOfTunnel'
  BY <1>27 DEF ForgetIp
<1>28. ASSUME NEW t \in Toggles, Settle(t) PROVE process' # "gone" => TasksOfTunnel'
  BY <1>28 DEF Settle
<1>29. ASSUME NEW t \in Toggles, DnsBinds(t) PROVE process' # "gone" => TasksOfTunnel'
  <2>1. t = tunnel /\ port53' = t /\ UNCHANGED <<pc, live, tunnel, dnscache, process>>
    BY <1>29 DEF DnsBinds
  <2>2. \A u \in Toggles : pc[u] \in Serving => u = t
    BY <1>29, <2>1 DEF DnsBinds, SessionOfTunnel
  <2> QED
    BY <1>29, <2>1, <2>2 DEF DnsBinds
<1>30. ASSUME NEW t \in Toggles, DnsDies(t) PROVE process' # "gone" => TasksOfTunnel'
  BY <1>30 DEF DnsDies
<1>31. ASSUME NEW t \in Toggles, DispatchEnds(t) PROVE process' # "gone" => TasksOfTunnel'
  <2>1. FALSE
    BY <1>31 DEF DispatchEnds, SessionOfTunnel
  <2> QED
    BY <2>1
<1>32. ASSUME NEW t \in Toggles, NEW s \in Servers, Connect(t, s)
      PROVE  process' # "gone" => TasksOfTunnel'
  BY <1>32 DEF Connect
<1>33. CASE DnscacheReleases
  BY <1>33 DEF DnscacheReleases
<1>34. CASE Crash
  BY <1>34 DEF Crash, ProcessEnds
<1>35. ASSUME NEW t \in Toggles, FlowsOpen(t) PROVE process' # "gone" => TasksOfTunnel'
  BY <1>35 DEF FlowsOpen
<1>36. ASSUME NEW t \in Toggles, FlowsEnd(t) PROVE process' # "gone" => TasksOfTunnel'
  BY <1>36 DEF FlowsEnd
<1> QED
  BY <1>1, <1>2, <1>3, <1>4, <1>5, <1>6, <1>7, <1>8, <1>9, <1>10, <1>11,
     <1>12, <1>13, <1>14, <1>15, <1>16, <1>17, <1>18, <1>19, <1>20, <1>21,
     <1>22, <1>23, <1>24, <1>25, <1>26, <1>27, <1>28, <1>29, <1>30, <1>31,
     <1>32, <1>33, <1>34, <1>35, <1>36
     DEF Next, Background, AllEnded, Start, Proceed

(* "Connected" is set last, after everything it promises; port 53 is the     *)
(* connect's or free then, so that no bind of its DNS proxy can fail.       *)
LEMMA ServedStep ==
  ASSUME TypeOK, ConnectsApart,
         process # "gone" => ConnectAlone /\ SessionOfTunnel /\ TasksOfTunnel /\ ServedWhenConnected,
         [Next]_vars
  PROVE  process' # "gone" => ServedWhenConnected'
<1> USE NamesAssumption
        DEF TypeOK, ConnectSteps, DisconnectSteps, Goto, At, MayStart, appVars,
            callVars, taskVars, osVars, Running, ServedWhenConnected
<1>1. CASE UNCHANGED vars
  BY <1>1 DEF vars
<1>2. ASSUME NEW t \in Toggles, Disconnect(t) PROVE process' # "gone" => ServedWhenConnected'
  BY <1>2 DEF Disconnect
<1>3. ASSUME NEW t \in Toggles, Quit(t) PROVE process' # "gone" => ServedWhenConnected'
  BY <1>3 DEF Quit
<1>4. ASSUME NEW t \in Toggles, Activated(t) PROVE process' # "gone" => ServedWhenConnected'
  BY <1>4 DEF Activated
<1>5. ASSUME NEW t \in Toggles, ActivateFailed(t) PROVE process' # "gone" => ServedWhenConnected'
  BY <1>5 DEF ActivateFailed
<1>6. ASSUME NEW t \in Toggles, Resolved(t) PROVE process' # "gone" => ServedWhenConnected'
  BY <1>6 DEF Resolved
<1>7. ASSUME NEW t \in Toggles, ResolveFailed(t) PROVE process' # "gone" => ServedWhenConnected'
  BY <1>7 DEF ResolveFailed
<1>8. ASSUME NEW t \in Toggles, ConfigureStep(t) PROVE process' # "gone" => ServedWhenConnected'
  BY <1>8 DEF ConfigureStep, Install
<1>9. ASSUME NEW t \in Toggles, ConfigureFailed(t) PROVE process' # "gone" => ServedWhenConnected'
  BY <1>9 DEF ConfigureFailed
<1>10. ASSUME NEW t \in Toggles, KeepIp(t) PROVE process' # "gone" => ServedWhenConnected'
  BY <1>10 DEF KeepIp
<1>11. ASSUME NEW t \in Toggles, Store(t) PROVE process' # "gone" => ServedWhenConnected'
  BY <1>11 DEF Store
<1>12. ASSUME NEW t \in Toggles, PortFree(t) PROVE process' # "gone" => ServedWhenConnected'
  BY <1>12 DEF PortFree
<1>13. ASSUME NEW t \in Toggles, StopDnscache(t) PROVE process' # "gone" => ServedWhenConnected'
  BY <1>13 DEF StopDnscache
<1>14. ASSUME NEW t \in Toggles, PortTaken(t) PROVE process' # "gone" => ServedWhenConnected'
  BY <1>14 DEF PortTaken
<1>15. ASSUME NEW t \in Toggles, SpawnDns(t) PROVE process' # "gone" => ServedWhenConnected'
  BY <1>15 DEF SpawnDns, Spawn
<1>16. ASSUME NEW t \in Toggles, RegisterDns(t) PROVE process' # "gone" => ServedWhenConnected'
  BY <1>16 DEF RegisterDns, Register
<1>17. ASSUME NEW t \in Toggles, SpawnDispatch(t) PROVE process' # "gone" => ServedWhenConnected'
  BY <1>17 DEF SpawnDispatch, Spawn
<1>18. ASSUME NEW t \in Toggles, RegisterDispatch(t) PROVE process' # "gone" => ServedWhenConnected'
  BY <1>18 DEF RegisterDispatch, Register
<1>19. ASSUME NEW t \in Toggles, Finish(t) PROVE process' # "gone" => ServedWhenConnected'
  <2>1. tunnel = t /\ port53 \in {"free", t} /\ {<<"dns", t>>, <<"dispatch", t>>} \subseteq live
    BY <1>19 DEF Finish, SessionOfTunnel, TasksOfTunnel, TasksFor, Serving
  <2> QED
    BY <1>19, <2>1 DEF Finish
<1>20. ASSUME NEW t \in Toggles, AbortTasks(t) PROVE process' # "gone" => ServedWhenConnected'
  BY <1>20 DEF AbortTasks
<1>21. ASSUME NEW t \in Toggles, TakeTunnel(t) PROVE process' # "gone" => ServedWhenConnected'
  BY <1>21 DEF TakeTunnel
<1>22. ASSUME NEW t \in Toggles, NoTunnel(t) PROVE process' # "gone" => ServedWhenConnected'
  BY <1>22 DEF NoTunnel, Exit, ProcessEnds
<1>23. ASSUME NEW t \in Toggles, ReadIp(t) PROVE process' # "gone" => ServedWhenConnected'
  BY <1>23 DEF ReadIp
<1>24. ASSUME NEW t \in Toggles, UndoStep(t) PROVE process' # "gone" => ServedWhenConnected'
  BY <1>24 DEF UndoStep, Remove
<1>25. ASSUME NEW t \in Toggles, Deactivate(t) PROVE process' # "gone" => ServedWhenConnected'
  BY <1>25 DEF Deactivate, Exit, ProcessEnds
<1>26. ASSUME NEW t \in Toggles, StartDnscache(t) PROVE process' # "gone" => ServedWhenConnected'
  BY <1>26 DEF StartDnscache
<1>27. ASSUME NEW t \in Toggles, ForgetIp(t) PROVE process' # "gone" => ServedWhenConnected'
  BY <1>27 DEF ForgetIp
<1>28. ASSUME NEW t \in Toggles, Settle(t) PROVE process' # "gone" => ServedWhenConnected'
  BY <1>28 DEF Settle
<1>29. ASSUME NEW t \in Toggles, DnsBinds(t) PROVE process' # "gone" => ServedWhenConnected'
  <2>1. t = tunnel /\ port53' = t /\ UNCHANGED <<pc, live, tunnel, status, process>>
    BY <1>29 DEF DnsBinds, TasksOfTunnel
  <2> QED
    BY <1>29, <2>1 DEF DnsBinds
<1>30. ASSUME NEW t \in Toggles, DnsDies(t) PROVE process' # "gone" => ServedWhenConnected'
  <2>1. t = tunnel /\ port53 \notin {"free", tunnel} /\ UNCHANGED <<pc, status>>
    BY <1>30 DEF DnsDies, TasksOfTunnel
  <2> QED
    BY <1>30, <2>1 DEF DnsDies
<1>31. ASSUME NEW t \in Toggles, DispatchEnds(t) PROVE process' # "gone" => ServedWhenConnected'
  <2>1. FALSE
    BY <1>31 DEF DispatchEnds, SessionOfTunnel, TasksOfTunnel
  <2> QED
    BY <2>1
<1>32. ASSUME NEW t \in Toggles, NEW s \in Servers, Connect(t, s)
      PROVE  process' # "gone" => ServedWhenConnected'
  BY <1>32 DEF Connect
<1>33. CASE DnscacheReleases
  BY <1>33 DEF DnscacheReleases
<1>34. CASE Crash
  BY <1>34 DEF Crash, ProcessEnds
<1>35. ASSUME NEW t \in Toggles, FlowsOpen(t) PROVE process' # "gone" => ServedWhenConnected'
  BY <1>35 DEF FlowsOpen
<1>36. ASSUME NEW t \in Toggles, FlowsEnd(t) PROVE process' # "gone" => ServedWhenConnected'
  BY <1>36 DEF FlowsEnd
<1> QED
  BY <1>1, <1>2, <1>3, <1>4, <1>5, <1>6, <1>7, <1>8, <1>9, <1>10, <1>11,
     <1>12, <1>13, <1>14, <1>15, <1>16, <1>17, <1>18, <1>19, <1>20, <1>21,
     <1>22, <1>23, <1>24, <1>25, <1>26, <1>27, <1>28, <1>29, <1>30, <1>31,
     <1>32, <1>33, <1>34, <1>35, <1>36
     DEF Next, Background, AllEnded, Start, Proceed

LEMMA SessionInvInit == Init => SessionInv
  BY NamesAssumption
     DEF Init, SessionInv, ConnectAlone, Running, SessionOfTunnel, TasksOfTunnel, TasksFor,
         ServedWhenConnected, Opening, Serving, Closing, Closed

LEMMA SessionInvStep ==
  TypeOK /\ ConnectsApart /\ RollbackExclusive /\ NoOrphanTasks /\ SessionInv /\ [Next]_vars
     => SessionInv'
  BY ConnectAloneStep, SessionStep, TasksStep, ServedStep DEF SessionInv

LEMMA SessionInvariant == ASSUME ConnectsApart PROVE Spec => []SessionInv
<1>1. Init => TypeOK /\ SessionInv
  BY TypeInit, SessionInvInit
<1>2. TypeOK /\ RollbackExclusive /\ NoOrphanTasks /\ SessionInv /\ [Next]_vars
         => (TypeOK /\ SessionInv)'
  BY TypeStep, SessionInvStep
<1> QED
  BY <1>1, <1>2, RollbacksExclude, NoTaskEscapes, PTL DEF Spec

(* No call beside a connect: "Connected" is only shown while the            *)
(* stored adapter has its session and both its background tasks.            *)
THEOREM ConnectedIsServed == ASSUME ConnectsApart PROVE Spec => []ConnectedMeansServed
<1>1. SessionInv => ConnectedMeansServed
  BY DEF SessionInv, SessionOfTunnel, ServedWhenConnected, ConnectedMeansServed
<1> QED
  BY <1>1, SessionInvariant, PTL

(* No call beside a connect: when a disconnect says so, no task runs,       *)
(* no session is open, no adapter is stored, and Dnscache, started, runs.   *)
THEOREM DisconnectLeavesNothing == ASSUME ConnectsApart PROVE Spec => DisconnectEndsAll
<1>1. ASSUME TypeOK, SessionInv, NEW t \in Toggles, Settle(t)
      PROVE  /\ live = {} /\ sessions = {} /\ tunnel = Nobody
             /\ "sc_start" \notin MayFail => dnscache
  <2>1. process # "gone" /\ pc[t] = "settle"
    BY <1>1 DEF Settle, At
  <2>2. live = {} /\ ("sc_start" \notin MayFail => dnscache)
    BY <1>1, <2>1 DEF SessionInv, TasksOfTunnel, TasksFor, Closing, Closed
  <2>3. tunnel = Nobody
    BY <1>1, <2>1 DEF SessionInv, SessionOfTunnel, Closed
  <2>4. \A u \in Toggles : pc[u] \notin Opening
    BY <1>1, <2>1 DEF SessionInv, ConnectAlone, ConnectSteps, Opening
  <2>5. sessions = {}
    BY <1>1, <2>1, <2>3, <2>4 DEF SessionInv, SessionOfTunnel
  <2> QED
    BY <2>2, <2>3, <2>5
<1>2. TypeOK /\ SessionInv /\ [Next]_vars
         => [\A t \in Toggles : Settle(t) =>
                /\ live = {} /\ sessions = {} /\ tunnel = Nobody
                /\ "sc_start" \notin MayFail => dnscache]_vars
  BY <1>1
<1> QED
  BY <1>2, TypeCorrect, SessionInvariant, PTL DEF Spec, DisconnectEndsAll

-----------------------------------------------------------------------------
(* What the first k - 1 steps of the plan install, and what the others do. *)
Before(s, k) == {RoutingPlan(s)[i] : i \in 1 .. (k - 1)}
From(s, k)   == {RoutingPlan(s)[i] : i \in k .. 4}

(* Routes that can be undone with address s, and that do not lead the       *)
(* connections to s into the tunnel.                                        *)
UndoableWith(s) ==
    /\ netconf \subseteq AdapterRoutes \cup {s}
    /\ netconf \cap {"low", "high"} # {} => s \in netconf

RoutesOfFresh ==
    /\ (tunnel = Nobody /\ \A t \in Toggles : pc[t] \notin Opening) => netconf = {}
    /\ (\A t \in Toggles : pc[t] \notin {"configure", "keep_ip", "undo"}) =>
          IF proxy_ip = NoServer THEN netconf = {} ELSE UndoableWith(proxy_ip)
    /\ \A t \in Toggles :
          /\ pc[t] = "resolve" => netconf = {}
          /\ pc[t] = "configure" => netconf = Before(server[t], step[t])
          /\ pc[t] = "keep_ip" => UndoableWith(server[t])
          /\ pc[t] = "undo" => netconf \subseteq From(server[t], step[t])
          /\ pc[t] = "deactivate" => netconf = {}

(* Also after a crash, for the routes to a server whose address is known. *)
UndoneSoFar ==
    \A t \in Toggles :
       /\ pc[t] \in {"new", "activate", "resolve", "read_ip"} => step[t] = 1
       /\ pc[t] = "undo" => netconf \cap Before(server[t], step[t]) = {}
       /\ (pc[t] = "deactivate" /\ server[t] # NoServer) =>
             netconf \cap (AdapterRoutes \cup {server[t]}) = {}

RouteInv == UndoneSoFar /\ (process = "fresh" => RoutesOfFresh)

(* The sets of routes before and after a step of the plan, step by step. *)
LEMMA PlanBefore ==
  ASSUME NEW s
  PROVE  /\ Before(s, 1) = {}
         /\ \A k \in 1 .. 4 : Before(s, k + 1) = Before(s, k) \cup {RoutingPlan(s)[k]}
         /\ Before(s, 5) = {s, "low", "high", "dns"}
<1>1. Before(s, 1) = {}
  BY DEF Before
<1>2. ASSUME NEW k \in 1 .. 4 PROVE Before(s, k + 1) = Before(s, k) \cup {RoutingPlan(s)[k]}
  <2>1. 1 .. ((k + 1) - 1) = (1 .. (k - 1)) \cup {k}
    OBVIOUS
  <2> QED
    BY <2>1 DEF Before
<1>3. Before(s, 5) = {s, "low", "high", "dns"}
  <2>1. 1 .. (5 - 1) = {1, 2, 3, 4}
    OBVIOUS
  <2>2. RoutingPlan(s)[1] = s /\ RoutingPlan(s)[2] = "low" /\ RoutingPlan(s)[3] = "high"
        /\ RoutingPlan(s)[4] = "dns"
    BY DEF RoutingPlan
  <2> QED
    BY <2>1, <2>2 DEF Before
<1> QED
  BY <1>1, <1>2, <1>3

(* What is left to remove, step by step.                                    *)
LEMMA PlanFrom ==
  ASSUME NEW s
  PROVE  /\ From(s, 1) = {s, "low", "high", "dns"}
         /\ \A k \in 1 .. 3 : From(s, k) \ {RoutingPlan(s)[k]} \subseteq From(s, k + 1)
         /\ From(s, 4) = {RoutingPlan(s)[4]}
<1>1. From(s, 1) = {s, "low", "high", "dns"}
  <2>1. 1 .. 4 = {1, 2, 3, 4}
    OBVIOUS
  <2>2. RoutingPlan(s)[1] = s /\ RoutingPlan(s)[2] = "low" /\ RoutingPlan(s)[3] = "high"
        /\ RoutingPlan(s)[4] = "dns"
    BY DEF RoutingPlan
  <2> QED
    BY <2>1, <2>2 DEF From
<1>2. ASSUME NEW k \in 1 .. 3 PROVE From(s, k) \ {RoutingPlan(s)[k]} \subseteq From(s, k + 1)
  <2>1. k .. 4 = {k} \cup ((k + 1) .. 4)
    OBVIOUS
  <2> QED
    BY <2>1 DEF From
<1>3. From(s, 4) = {RoutingPlan(s)[4]}
  <2>1. 4 .. 4 = {4}
    OBVIOUS
  <2> QED
    BY <2>1 DEF From
<1> QED
  BY <1>1, <1>2, <1>3

(* The exclusion of the server comes before the halves of the default route. *)
LEMMA PlanPrefix ==
  ASSUME NEW s, s \notin {"low", "high", "dns"}, NEW k \in 1 .. 4
  PROVE  /\ Before(s, k) \subseteq AdapterRoutes \cup {s}
         /\ Before(s, k) \cap {"low", "high"} # {} => s \in Before(s, k)
<1>1. RoutingPlan(s)[1] = s /\ RoutingPlan(s)[2] = "low" /\ RoutingPlan(s)[3] = "high"
      /\ RoutingPlan(s)[4] = "dns"
  BY DEF RoutingPlan
<1>2. ASSUME NEW r \in Before(s, k) PROVE r \in AdapterRoutes \cup {s}
  <2>1. PICK i \in 1 .. (k - 1) : r = RoutingPlan(s)[i]
    BY DEF Before
  <2>2. i \in {1, 2, 3, 4}
    OBVIOUS
  <2> QED
    BY <1>1, <2>1, <2>2 DEF AdapterRoutes
<1>3. ASSUME NEW r \in Before(s, k) PROVE s \in Before(s, k)
  <2>1. PICK i \in 1 .. (k - 1) : r = RoutingPlan(s)[i]
    BY DEF Before
  <2>2. 1 \in 1 .. (k - 1)
    OBVIOUS
  <2> QED
    BY <1>1, <2>2 DEF Before
<1> QED
  BY <1>2, <1>3

(* An undo advances over what it has removed, step by step.                 *)
LEMMA UndoneStep ==
  ASSUME TypeOK, "undo" \notin MayFail, RollbackExclusive,
         process # "gone" => ConnectAlone, UndoneSoFar, [Next]_vars
  PROVE  UndoneSoFar'
<1> USE NamesAssumption
        DEF TypeOK, ConnectSteps, DisconnectSteps, Goto, At, MayStart, appVars,
            callVars, taskVars, osVars, UndoneSoFar
<1>b. ASSUME NEW t \in Toggles, process # "gone", pc[t] \in ConnectSteps
      PROVE  \A u \in Toggles : u # t => pc[u] \in {"new", "ended"}
  BY <1>b DEF ConnectAlone
<1>c. ASSUME NEW t \in Toggles, process # "gone", pc[t] \in DisconnectSteps
      PROVE  \A u \in Toggles : pc[u] \notin ConnectSteps
  BY <1>c DEF ConnectAlone
<1>1. CASE UNCHANGED vars
  BY <1>1 DEF vars
<1>2. ASSUME NEW t \in Toggles, Disconnect(t) PROVE UndoneSoFar'
  BY <1>2 DEF Disconnect
<1>3. ASSUME NEW t \in Toggles, Quit(t) PROVE UndoneSoFar'
  BY <1>3 DEF Quit
<1>4. ASSUME NEW t \in Toggles, Activated(t) PROVE UndoneSoFar'
  BY <1>4 DEF Activated
<1>5. ASSUME NEW t \in Toggles, ActivateFailed(t) PROVE UndoneSoFar'
  BY <1>5 DEF ActivateFailed
<1>6. ASSUME NEW t \in Toggles, Resolved(t) PROVE UndoneSoFar'
  BY <1>6 DEF Resolved
<1>7. ASSUME NEW t \in Toggles, ResolveFailed(t) PROVE UndoneSoFar'
  BY <1>7 DEF ResolveFailed
<1>8. ASSUME NEW t \in Toggles, ConfigureStep(t) PROVE UndoneSoFar'
  <2>1. \A u \in Toggles : u # t => pc[u] \in {"new", "ended"}
    BY <1>8, <1>b DEF ConfigureStep
  <2>2. /\ server' = server
        /\ pc'[t] \in {"configure", "keep_ip"}
        /\ \A u \in Toggles : u # t => pc'[u] = pc[u] /\ step'[u] = step[u]
    BY <1>8 DEF ConfigureStep
  <2> QED
    BY <2>1, <2>2 DEF UndoneSoFar
<1>9. ASSUME NEW t \in Toggles, ConfigureFailed(t) PROVE UndoneSoFar'
  BY <1>9 DEF ConfigureFailed
<1>10. ASSUME NEW t \in Toggles, KeepIp(t) PROVE UndoneSoFar'
  BY <1>10 DEF KeepIp
<1>11. ASSUME NEW t \in Toggles, Store(t) PROVE UndoneSoFar'
  BY <1>11 DEF Store
<1>12. ASSUME NEW t \in Toggles, PortFree(t) PROVE UndoneSoFar'
  BY <1>12 DEF PortFree
<1>13. ASSUME NEW t \in Toggles, StopDnscache(t) PROVE UndoneSoFar'
  BY <1>13 DEF StopDnscache
<1>14. ASSUME NEW t \in Toggles, PortTaken(t) PROVE UndoneSoFar'
  BY <1>14 DEF PortTaken
<1>15. ASSUME NEW t \in Toggles, SpawnDns(t) PROVE UndoneSoFar'
  BY <1>15 DEF SpawnDns, Spawn
<1>16. ASSUME NEW t \in Toggles, RegisterDns(t) PROVE UndoneSoFar'
  BY <1>16 DEF RegisterDns, Register
<1>17. ASSUME NEW t \in Toggles, SpawnDispatch(t) PROVE UndoneSoFar'
  BY <1>17 DEF SpawnDispatch, Spawn
<1>18. ASSUME NEW t \in Toggles, RegisterDispatch(t) PROVE UndoneSoFar'
  BY <1>18 DEF RegisterDispatch, Register
<1>19. ASSUME NEW t \in Toggles, Finish(t) PROVE UndoneSoFar'
  BY <1>19 DEF Finish
<1>20. ASSUME NEW t \in Toggles, AbortTasks(t) PROVE UndoneSoFar'
  BY <1>20 DEF AbortTasks
<1>21. ASSUME NEW t \in Toggles, TakeTunnel(t) PROVE UndoneSoFar'
  BY <1>21 DEF TakeTunnel
<1>22. ASSUME NEW t \in Toggles, NoTunnel(t) PROVE UndoneSoFar'
  BY <1>22 DEF NoTunnel, Exit, ProcessEnds
<1>23. ASSUME NEW t \in Toggles, ReadIp(t) PROVE UndoneSoFar'
  <2>1. /\ netconf' = netconf /\ step' = step /\ step[t] = 1
        /\ server' = [server EXCEPT ![t] = proxy_ip]
        /\ \A u \in Toggles : u # t => pc'[u] = pc[u]
        /\ pc'[t] = IF proxy_ip = NoServer THEN "deactivate" ELSE "undo"
    BY <1>23 DEF ReadIp, UndoneSoFar
  <2>2. netconf' \cap Before(server'[t], 1) = {}
    BY PlanBefore
  <2> QED
    BY <2>1, <2>2 DEF UndoneSoFar
<1>24. ASSUME NEW t \in Toggles, UndoStep(t) PROVE UndoneSoFar'
  <2> DEFINE s == server[t]
            k == step[t]
  <2>1. /\ server' = server /\ netconf' = netconf \ {RoutingPlan(s)[k]}
        /\ netconf \cap Before(s, k) = {} /\ k \in 1 .. 4 /\ s # NoServer
    BY <1>24 DEF UndoStep, Remove, UndoneSoFar
  <2>2. \A u \in Toggles : u # t => /\ pc[u] \notin {"read_ip", "undo", "deactivate"}
                                   /\ pc'[u] = pc[u]
                                   /\ step'[u] = step[u]
    BY <1>24 DEF UndoStep, RollbackExclusive, InRollback
  <2>3. netconf' \cap Before(s, k + 1) = {}
    BY <2>1, PlanBefore
  <2>4. CASE k = 4
    <3>1. pc'[t] = "deactivate"
      BY <1>24, <2>4 DEF UndoStep
    <3>2. netconf' \cap Before(s, 5) = {}
      BY <2>3, <2>4
    <3>3. netconf' \cap (AdapterRoutes \cup {s}) = {}
      BY <3>2, PlanBefore DEF AdapterRoutes
    <3> QED
      BY <2>1, <2>2, <3>1, <3>3 DEF UndoneSoFar
  <2>5. CASE k # 4
    <3>1. pc'[t] = "undo" /\ step'[t] = k + 1
      BY <1>24, <2>5 DEF UndoStep
    <3> QED
      BY <2>1, <2>2, <2>3, <3>1 DEF UndoneSoFar
  <2> QED
    BY <2>4, <2>5
<1>25. ASSUME NEW t \in Toggles, Deactivate(t) PROVE UndoneSoFar'
  BY <1>25 DEF Deactivate, Exit, ProcessEnds
<1>26. ASSUME NEW t \in Toggles, StartDnscache(t) PROVE UndoneSoFar'
  BY <1>26 DEF StartDnscache
<1>27. ASSUME NEW t \in Toggles, ForgetIp(t) PROVE UndoneSoFar'
  BY <1>27 DEF ForgetIp
<1>28. ASSUME NEW t \in Toggles, Settle(t) PROVE UndoneSoFar'
  BY <1>28 DEF Settle
<1>29. ASSUME NEW t \in Toggles, DnsBinds(t) PROVE UndoneSoFar'
  BY <1>29 DEF DnsBinds
<1>30. ASSUME NEW t \in Toggles, DnsDies(t) PROVE UndoneSoFar'
  BY <1>30 DEF DnsDies
<1>31. ASSUME NEW t \in Toggles, DispatchEnds(t) PROVE UndoneSoFar'
  BY <1>31 DEF DispatchEnds
<1>32. ASSUME NEW t \in Toggles, NEW s \in Servers, Connect(t, s)
      PROVE  UndoneSoFar'
  BY <1>32 DEF Connect
<1>33. CASE DnscacheReleases
  BY <1>33 DEF DnscacheReleases
<1>34. CASE Crash
  BY <1>34 DEF Crash, ProcessEnds
<1>35. ASSUME NEW t \in Toggles, FlowsOpen(t) PROVE UndoneSoFar'
  BY <1>35 DEF FlowsOpen
<1>36. ASSUME NEW t \in Toggles, FlowsEnd(t) PROVE UndoneSoFar'
  BY <1>36 DEF FlowsEnd
<1> QED
  BY <1>1, <1>2, <1>3, <1>4, <1>5, <1>6, <1>7, <1>8, <1>9, <1>10, <1>11,
     <1>12, <1>13, <1>14, <1>15, <1>16, <1>17, <1>18, <1>19, <1>20, <1>21,
     <1>22, <1>23, <1>24, <1>25, <1>26, <1>27, <1>28, <1>29, <1>30, <1>31,
     <1>32, <1>33, <1>34, <1>35, <1>36
     DEF Next, Background, AllEnded, Start, Proceed

(* A connect advances over what it has installed, and remembers the server   *)
(* before anything but the next disconnect can run.                         *)
LEMMA RoutesStep ==
  ASSUME TypeOK, ConnectsApart, "undo" \notin MayFail, RollbackExclusive,
         process # "gone" => ConnectAlone /\ SessionOfTunnel, UndoneSoFar,
         process = "fresh" => RoutesOfFresh, [Next]_vars
  PROVE  process' = "fresh" => RoutesOfFresh'
<1> USE NamesAssumption
        DEF TypeOK, ConnectSteps, DisconnectSteps, Goto, At, MayStart, appVars,
            callVars, taskVars, osVars, RoutesOfFresh, UndoableWith, AdapterRoutes, Opening
<1>b. ASSUME NEW t \in Toggles, process # "gone", pc[t] \in ConnectSteps
      PROVE  \A u \in Toggles : u # t => pc[u] \in {"new", "ended"}
  BY <1>b DEF ConnectAlone
<1>c. ASSUME NEW t \in Toggles, process # "gone", pc[t] \in DisconnectSteps
      PROVE  \A u \in Toggles : pc[u] \notin ConnectSteps
  BY <1>c DEF ConnectAlone
<1>1. CASE UNCHANGED vars
  BY <1>1 DEF vars
<1>2. ASSUME NEW t \in Toggles, Disconnect(t) PROVE process' = "fresh" => RoutesOfFresh'
  BY <1>2 DEF Disconnect
<1>3. ASSUME NEW t \in Toggles, Quit(t) PROVE process' = "fresh" => RoutesOfFresh'
  BY <1>3 DEF Quit
<1>4. ASSUME NEW t \in Toggles, Activated(t) PROVE process' = "fresh" => RoutesOfFresh'
  <2> HAVE process' = "fresh"
  <2>0. process = "fresh" /\ RoutesOfFresh
    BY <1>4 DEF Activated
  <2> USE <2>0
  <2>1. \A u \in Toggles : u # t => pc[u] \in {"new", "ended"}
    BY <1>4, <1>b DEF Activated
  <2>2. pc[t] = "activate" /\ tunnel = Nobody
    BY <1>4 DEF Activated, ConnectsApart, SessionOfTunnel
  <2>3. netconf = {}
    BY <2>1, <2>2 DEF RoutesOfFresh, Opening
  <2>4. \A u \in Toggles : pc'[u] \notin {"configure", "keep_ip", "undo"}
    BY <1>4, <2>1 DEF Activated
  <2>5. UNCHANGED netconf
    BY <1>4 DEF Activated
  <2> QED
    BY <2>3, <2>4, <2>5 DEF RoutesOfFresh, UndoableWith
<1>5. ASSUME NEW t \in Toggles, ActivateFailed(t) PROVE process' = "fresh" => RoutesOfFresh'
  BY <1>5 DEF ActivateFailed
<1>6. ASSUME NEW t \in Toggles, Resolved(t) PROVE process' = "fresh" => RoutesOfFresh'
  <2> HAVE process' = "fresh"
  <2>0. process = "fresh" /\ RoutesOfFresh
    BY <1>6 DEF Resolved
  <2> USE <2>0
  <2>1. \A u \in Toggles : u # t => pc'[u] \in {"new", "ended"}
    BY <1>6, <1>b DEF Resolved
  <2>2. /\ netconf' = {} /\ pc'[t] = "configure" /\ step'[t] = 1
        /\ server' = server
    BY <1>6 DEF Resolved, RoutesOfFresh, UndoneSoFar
  <2>3. netconf' = Before(server'[t], step'[t])
    BY <2>2, PlanBefore
  <2> QED
    BY <2>1, <2>2, <2>3 DEF RoutesOfFresh, Opening
<1>7. ASSUME NEW t \in Toggles, ResolveFailed(t) PROVE process' = "fresh" => RoutesOfFresh'
  BY <1>7 DEF ResolveFailed
<1>8. ASSUME NEW t \in Toggles, ConfigureStep(t) PROVE process' = "fresh" => RoutesOfFresh'
  <2> HAVE process' = "fresh"
  <2>0. process = "fresh" /\ RoutesOfFresh
    BY <1>8 DEF ConfigureStep
  <2> USE <2>0
  <2> DEFINE s == server[t]
            k == step[t]
  <2>1. \A u \in Toggles : u # t => pc'[u] \in {"new", "ended"}
    BY <1>8, <1>b DEF ConfigureStep
  <2>2. /\ netconf' = Before(s, k) \cup {RoutingPlan(s)[k]} /\ server' = server
        /\ k \in 1 .. 4
    BY <1>8 DEF ConfigureStep, Install, RoutesOfFresh
  <2>3. netconf' = Before(s, k + 1)
    BY <2>2, PlanBefore
  <2>4. CASE k = 4
    <3>1. pc'[t] = "keep_ip"
      BY <1>8, <2>4 DEF ConfigureStep
    <3>2. netconf' = Before(s, 5)
      BY <2>3, <2>4
    <3>3. UndoableWith(s)'
      BY <2>2, <3>2, PlanBefore, SMTT(30) DEF UndoableWith, AdapterRoutes
    <3> QED
      BY <2>1, <2>2, <3>1, <3>3 DEF RoutesOfFresh, Opening, UndoableWith
  <2>5. CASE k # 4
    <3>1. pc'[t] = "configure" /\ step'[t] = k + 1
      BY <1>8, <2>5 DEF ConfigureStep
    <3> QED
      BY <2>1, <2>2, <2>3, <3>1 DEF RoutesOfFresh, Opening
  <2> QED
    BY <2>4, <2>5
<1>9. ASSUME NEW t \in Toggles, ConfigureFailed(t) PROVE process' = "fresh" => RoutesOfFresh'
  <2> HAVE process' = "fresh"
  <2>0. process = "fresh" /\ RoutesOfFresh
    BY <1>9 DEF ConfigureFailed
  <2> USE <2>0
  <2> DEFINE s == server[t]
  <2>1. \A u \in Toggles : u # t => pc'[u] \in {"new", "ended"}
    BY <1>9, <1>b DEF ConfigureFailed
  <2>2. /\ netconf' = Before(s, step[t]) /\ step[t] \in 1 .. 4 /\ s \in Servers
        /\ server' = server
        /\ pc'[t] = "keep_ip"
    BY <1>9 DEF ConfigureFailed, RoutesOfFresh
  <2>3. s \notin {"low", "high", "dns"}
    BY <2>2
  <2>4. UndoableWith(s)'
    BY <2>2, <2>3, PlanPrefix DEF UndoableWith
  <2> QED
    BY <2>1, <2>2, <2>4 DEF RoutesOfFresh, Opening, UndoableWith
<1>10. ASSUME NEW t \in Toggles, KeepIp(t) PROVE process' = "fresh" => RoutesOfFresh'
  BY <1>10 DEF KeepIp
<1>11. ASSUME NEW t \in Toggles, Store(t) PROVE process' = "fresh" => RoutesOfFresh'
  BY <1>11 DEF Store
<1>12. ASSUME NEW t \in Toggles, PortFree(t) PROVE process' = "fresh" => RoutesOfFresh'
  BY <1>12 DEF PortFree
<1>13. ASSUME NEW t \in Toggles, StopDnscache(t) PROVE process' = "fresh" => RoutesOfFresh'
  BY <1>13 DEF StopDnscache
<1>14. ASSUME NEW t \in Toggles, PortTaken(t) PROVE process' = "fresh" => RoutesOfFresh'
  BY <1>14 DEF PortTaken
<1>15. ASSUME NEW t \in Toggles, SpawnDns(t) PROVE process' = "fresh" => RoutesOfFresh'
  BY <1>15 DEF SpawnDns, Spawn
<1>16. ASSUME NEW t \in Toggles, RegisterDns(t) PROVE process' = "fresh" => RoutesOfFresh'
  BY <1>16 DEF RegisterDns, Register
<1>17. ASSUME NEW t \in Toggles, SpawnDispatch(t) PROVE process' = "fresh" => RoutesOfFresh'
  BY <1>17 DEF SpawnDispatch, Spawn
<1>18. ASSUME NEW t \in Toggles, RegisterDispatch(t) PROVE process' = "fresh" => RoutesOfFresh'
  BY <1>18 DEF RegisterDispatch, Register
<1>19. ASSUME NEW t \in Toggles, Finish(t) PROVE process' = "fresh" => RoutesOfFresh'
  BY <1>19 DEF Finish
<1>20. ASSUME NEW t \in Toggles, AbortTasks(t) PROVE process' = "fresh" => RoutesOfFresh'
  BY <1>20 DEF AbortTasks
<1>21. ASSUME NEW t \in Toggles, TakeTunnel(t) PROVE process' = "fresh" => RoutesOfFresh'
  BY <1>21 DEF TakeTunnel
<1>22. ASSUME NEW t \in Toggles, NoTunnel(t) PROVE process' = "fresh" => RoutesOfFresh'
  BY <1>22 DEF NoTunnel, Exit, ProcessEnds
<1>23. ASSUME NEW t \in Toggles, ReadIp(t) PROVE process' = "fresh" => RoutesOfFresh'
  <2> HAVE process' = "fresh"
  <2>0. process = "fresh" /\ RoutesOfFresh
    BY <1>23 DEF ReadIp
  <2> USE <2>0
  <2>1. \A u \in Toggles : u # t => /\ pc[u] \notin ConnectSteps
                                   /\ pc[u] \notin {"read_ip", "undo", "deactivate"}
    BY <1>23, <1>c DEF ReadIp, RollbackExclusive, InRollback
  <2>2. /\ pc[t] = "read_ip" /\ tunnel # Nobody
        /\ UNCHANGED <<netconf, tunnel, proxy_ip, step>>
        /\ server' = [server EXCEPT ![t] = proxy_ip]
        /\ \A u \in Toggles : u # t => pc'[u] = pc[u]
    BY <1>23 DEF ReadIp, RollbackExclusive, InRollback
  <2>3. IF proxy_ip = NoServer THEN netconf = {} ELSE UndoableWith(proxy_ip)
    BY <2>1, <2>2 DEF RoutesOfFresh
  <2>4. CASE proxy_ip = NoServer
    <3>1. pc'[t] = "deactivate"
      BY <1>23, <2>4 DEF ReadIp
    <3> QED
      BY <2>1, <2>2, <2>3, <2>4, <3>1 DEF RoutesOfFresh
  <2>5. CASE proxy_ip # NoServer
    <3>1. pc'[t] = "undo" /\ step'[t] = 1 /\ server'[t] = proxy_ip
      BY <1>23, <2>2, <2>5 DEF ReadIp, UndoneSoFar
    <3>2. netconf' \subseteq From(server'[t], step'[t])
      BY <2>2, <2>3, <2>5, <3>1, PlanFrom DEF UndoableWith, AdapterRoutes
    <3> QED
      BY <2>1, <2>2, <3>1, <3>2 DEF RoutesOfFresh
  <2> QED
    BY <2>4, <2>5
<1>24. ASSUME NEW t \in Toggles, UndoStep(t) PROVE process' = "fresh" => RoutesOfFresh'
  <2> HAVE process' = "fresh"
  <2>0. process = "fresh" /\ RoutesOfFresh
    BY <1>24 DEF UndoStep
  <2> USE <2>0
  <2> DEFINE s == server[t]
            k == step[t]
  <2>1. \A u \in Toggles : u # t => /\ pc'[u] \notin ConnectSteps
                                   /\ pc'[u] \notin {"read_ip", "undo", "deactivate"}
    BY <1>24, <1>c DEF UndoStep, RollbackExclusive, InRollback
  <2>2. /\ netconf' = netconf \ {RoutingPlan(s)[k]} /\ netconf \subseteq From(s, k)
        /\ k \in 1 .. 4 /\ server' = server /\ tunnel' # Nobody
    BY <1>24 DEF UndoStep, Remove, RoutesOfFresh, RollbackExclusive, InRollback
  <2>3. CASE k = 4
    <3>1. pc'[t] = "deactivate"
      BY <1>24, <2>3 DEF UndoStep
    <3>2. netconf' = {}
      BY <2>2, <2>3, PlanFrom
    <3> QED
      BY <2>1, <3>1, <3>2 DEF RoutesOfFresh, UndoableWith
  <2>4. CASE k # 4
    <3>1. pc'[t] = "undo" /\ step'[t] = k + 1
      BY <1>24, <2>4 DEF UndoStep
    <3>2. k \in 1 .. 3
      BY <2>2, <2>4
    <3>3. netconf' \subseteq From(s, k + 1)
      BY <2>2, <3>2, PlanFrom
    <3> QED
      BY <2>1, <2>2, <3>1, <3>3 DEF RoutesOfFresh
  <2> QED
    BY <2>3, <2>4
<1>25. ASSUME NEW t \in Toggles, Deactivate(t) PROVE process' = "fresh" => RoutesOfFresh'
  BY <1>25 DEF Deactivate, Exit, ProcessEnds
<1>26. ASSUME NEW t \in Toggles, StartDnscache(t) PROVE process' = "fresh" => RoutesOfFresh'
  BY <1>26 DEF StartDnscache
<1>27. ASSUME NEW t \in Toggles, ForgetIp(t) PROVE process' = "fresh" => RoutesOfFresh'
  <2> HAVE process' = "fresh"
  <2>0. process = "fresh" /\ RoutesOfFresh
    BY <1>27 DEF ForgetIp
  <2> USE <2>0
  <2>1. \A u \in Toggles : /\ pc[u] \notin ConnectSteps
                          /\ pc[u] \notin {"read_ip", "undo", "deactivate"}
    <3>1. tunnel = Nobody
      BY <1>27 DEF ForgetIp, SessionOfTunnel, Closed
    <3> QED
      BY <1>27, <1>c, <3>1 DEF ForgetIp, RollbackExclusive, InRollback
  <2>2. pc[t] = "forget_ip" /\ tunnel = Nobody /\ UNCHANGED <<netconf, server, step>>
        /\ pc'[t] = "settle" /\ proxy_ip' = NoServer
        /\ \A u \in Toggles : u # t => pc'[u] = pc[u]
    BY <1>27 DEF ForgetIp, SessionOfTunnel, Closed
  <2>3. netconf = {}
    BY <2>1, <2>2 DEF RoutesOfFresh, Opening
  <2> QED
    BY <2>1, <2>2, <2>3 DEF RoutesOfFresh, UndoableWith
<1>28. ASSUME NEW t \in Toggles, Settle(t) PROVE process' = "fresh" => RoutesOfFresh'
  BY <1>28 DEF Settle
<1>29. ASSUME NEW t \in Toggles, DnsBinds(t) PROVE process' = "fresh" => RoutesOfFresh'
  BY <1>29 DEF DnsBinds
<1>30. ASSUME NEW t \in Toggles, DnsDies(t) PROVE process' = "fresh" => RoutesOfFresh'
  BY <1>30 DEF DnsDies
<1>31. ASSUME NEW t \in Toggles, DispatchEnds(t) PROVE process' = "fresh" => RoutesOfFresh'
  BY <1>31 DEF DispatchEnds
<1>32. ASSUME NEW t \in Toggles, NEW s \in Servers, Connect(t, s)
      PROVE  process' = "fresh" => RoutesOfFresh'
  BY <1>32 DEF Connect
<1>33. CASE DnscacheReleases
  BY <1>33 DEF DnscacheReleases
<1>34. CASE Crash
  BY <1>34 DEF Crash, ProcessEnds
<1>35. ASSUME NEW t \in Toggles, FlowsOpen(t) PROVE process' = "fresh" => RoutesOfFresh'
  BY <1>35 DEF FlowsOpen
<1>36. ASSUME NEW t \in Toggles, FlowsEnd(t) PROVE process' = "fresh" => RoutesOfFresh'
  BY <1>36 DEF FlowsEnd
<1> QED
  BY <1>1, <1>2, <1>3, <1>4, <1>5, <1>6, <1>7, <1>8, <1>9, <1>10, <1>11,
     <1>12, <1>13, <1>14, <1>15, <1>16, <1>17, <1>18, <1>19, <1>20, <1>21,
     <1>22, <1>23, <1>24, <1>25, <1>26, <1>27, <1>28, <1>29, <1>30, <1>31,
     <1>32, <1>33, <1>34, <1>35, <1>36
     DEF Next, Background, AllEnded, Start, Proceed

LEMMA RouteInvInit == Init => RouteInv
  BY DEF Init, RouteInv, UndoneSoFar, RoutesOfFresh

LEMMA RouteInvStep ==
  ASSUME ConnectsApart, "undo" \notin MayFail,
         TypeOK, RollbackExclusive, SessionInv, RouteInv, [Next]_vars
  PROVE  RouteInv'
<1>1. UndoneSoFar'
  BY UndoneStep DEF SessionInv, RouteInv
<1>2. process' = "fresh" => RoutesOfFresh'
  BY RoutesStep DEF SessionInv, RouteInv
<1> QED
  BY <1>1, <1>2 DEF RouteInv

LEMMA RouteInvariant ==
  ASSUME ConnectsApart, "undo" \notin MayFail PROVE Spec => []RouteInv
<1>1. Init => RouteInv
  BY RouteInvInit
<1>2. TypeOK /\ RollbackExclusive /\ SessionInv /\ RouteInv /\ [Next]_vars => RouteInv'
  BY RouteInvStep
<1> QED
  BY <1>1, <1>2, TypeCorrect, RollbacksExclude, SessionInvariant, PTL DEF Spec

(* No call beside a connect: whatever failed while it was set up, the       *)
(* routing of a connected adapter is what the next disconnect will undo.    *)
THEOREM ConnectedCanBeUndone ==
  ASSUME ConnectsApart, "undo" \notin MayFail PROVE Spec => []ConnectedIsUndoable
<1>1. RouteInv => ConnectedIsUndoable
  BY DEF RouteInv, RoutesOfFresh, UndoableWith, ConnectedIsUndoable, Running
<1> QED
  BY <1>1, RouteInvariant, PTL

(* No call beside a connect: no order of steps and no failure sends         *)
(* the connections to the proxy in use into the tunnel.                     *)
THEOREM ProxyStaysOutside ==
  ASSUME ConnectsApart, "undo" \notin MayFail PROVE Spec => []ProxyNotTunnelled
<1>1. ASSUME TypeOK, RouteInv PROVE ProxyNotTunnelled
  <2> DEFINE configuring == {t \in Toggles : At(t, "configure") \/ At(t, "keep_ip")}
             inUse       == {proxy_ip} \cup {server[t] : t \in configuring}
  <2> SUFFICES ASSUME process = "fresh", \A t \in Toggles : ~At(t, "undo"),
                      netconf \cap {"low", "high"} # {}
               PROVE  netconf \cap inUse # {}
    BY DEF ProxyNotTunnelled
  <2>1. RoutesOfFresh
    BY <1>1 DEF RouteInv
  <2>2. CASE \E t \in Toggles : pc[t] = "configure"
    <3>1. PICK t \in Toggles : pc[t] = "configure"
      BY <2>2
    <3>2. /\ netconf = Before(server[t], step[t]) /\ step[t] \in 1 .. 4
          /\ server[t] \in Servers
      BY <1>1, <2>1, <3>1 DEF RoutesOfFresh, TypeOK, ConnectSteps
    <3>3. server[t] \in netconf
      BY <3>2, PlanPrefix, NamesAssumption
    <3>4. server[t] \in inUse
      BY <3>1 DEF At
    <3> QED
      BY <3>3, <3>4
  <2>3. CASE \E t \in Toggles : pc[t] = "keep_ip"
    <3>1. PICK t \in Toggles : pc[t] = "keep_ip"
      BY <2>3
    <3>2. server[t] \in netconf
      BY <2>1, <3>1 DEF RoutesOfFresh, UndoableWith
    <3>3. server[t] \in inUse
      BY <3>1 DEF At
    <3> QED
      BY <3>2, <3>3
  <2>4. CASE \A t \in Toggles : pc[t] \notin {"configure", "keep_ip"}
    <3>1. \A t \in Toggles : pc[t] \notin {"configure", "keep_ip", "undo"}
      BY <2>4 DEF At
    <3>2. proxy_ip \in netconf
      BY <2>1, <3>1 DEF RoutesOfFresh, UndoableWith
    <3> QED
      BY <3>2
  <2> QED
    BY <2>2, <2>3, <2>4
<1> QED
  BY <1>1, TypeCorrect, RouteInvariant, PTL

(* No call beside a connect: no route and no DNS setting leads into         *)
(* an adapter any more when it is shut down.                                *)
THEOREM RoutesAreUndoneFirst ==
  ASSUME ConnectsApart, "undo" \notin MayFail PROVE Spec => RoutesGoFirst
<1>1. ASSUME RouteInv, NEW t \in Toggles, Deactivate(t)
      PROVE  /\ process = "fresh" => netconf = {}
             /\ server[t] # NoServer => netconf \cap (AdapterRoutes \cup {server[t]}) = {}
  BY <1>1 DEF Deactivate, At, RouteInv, RoutesOfFresh, UndoneSoFar
<1>2. RouteInv /\ [Next]_vars
         => [\A t \in Toggles : Deactivate(t) =>
                /\ process = "fresh" => netconf = {}
                /\ server[t] # NoServer =>
                      netconf \cap (AdapterRoutes \cup {server[t]}) = {}]_vars
  BY <1>1
<1> QED
  BY <1>2, RouteInvariant, PTL DEF Spec, RoutesGoFirst
=============================================================================
