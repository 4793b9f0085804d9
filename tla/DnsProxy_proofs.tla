--------------------------- MODULE DnsProxy_proofs --------------------------
(***************************************************************************)
(* What FakeIpManager guarantees for every pool size, every set of domains *)
(* and any number of concurrent callers; and then DnsProxy, for any number *)
(* of handlers and of sessions: the names clients are told are exclusive   *)
(* and lead back, the tables stay paired, and the first session implements *)
(* FakeNames.                                                              *)
(***************************************************************************)
EXTENDS DnsProxy, TLAPS

-----------------------------------------------------------------------------
(* The allocator. *)
(* The value every caller's locals start with exists. *)
LEMMA Defaults == AnyManager \in Managers /\ AnyDomain \in Domains
  BY NonEmptyAssumption DEF AnyManager, AnyDomain

(* Type correctness: the tables stay functions into the pool, and a caller *)
(* that holds an address holds one of the pool, never the scan's end.      *)
LEMMA TypeInit == FimInit => FimTypeOK
  BY PoolAssumption, NoDomainAssumption, Defaults
     DEF FimInit, FimTypeOK, Calls, Pool, NoIp

LEMMA FimTypeStep == FimTypeOK /\ [FimNext]_fimVars => FimTypeOK'
<1> SUFFICES ASSUME FimTypeOK, [FimNext]_fimVars PROVE FimTypeOK'
  OBVIOUS
<1> USE PoolAssumption, NoDomainAssumption, Defaults
        DEF FimTypeOK, Calls, Pool, NoIp, Goto, Leave, managerVars
<1>1. CASE UNCHANGED fimVars
  BY <1>1 DEF fimVars
<1>2. ASSUME NEW t \in Callers, NEW m \in Managers, NEW d \in Domains,
             Resolve(t, m, d)
      PROVE  FimTypeOK'
  BY <1>2 DEF Resolve
<1>3. ASSUME NEW t \in Callers, LookupHit(t) PROVE FimTypeOK'
  BY <1>3 DEF LookupHit
<1>4. ASSUME NEW t \in Callers, LookupMiss(t) PROVE FimTypeOK'
  BY <1>4 DEF LookupMiss
<1>5. ASSUME NEW t \in Callers, ScanTaken(t) PROVE FimTypeOK'
  BY <1>5 DEF ScanTaken
<1>6. ASSUME NEW t \in Callers, ScanFree(t) PROVE FimTypeOK'
  BY <1>6 DEF ScanFree
<1>7. ASSUME NEW t \in Callers, ScanEnd(t) PROVE FimTypeOK'
  BY <1>7 DEF ScanEnd
<1>8. ASSUME NEW t \in Callers, PutDomain(t) PROVE FimTypeOK'
  BY <1>8 DEF PutDomain
<1>9. ASSUME NEW t \in Callers, PutIp(t) PROVE FimTypeOK'
  BY <1>9 DEF PutIp
<1>10. ASSUME NEW t \in Callers, Return(t) PROVE FimTypeOK'
  BY <1>10 DEF Return
<1>11. ASSUME NEW t \in Callers, NEW m \in Managers, NEW d \in Domains,
              Release(t, m, d)
       PROVE  FimTypeOK'
  BY <1>11 DEF Release
<1>12. ASSUME NEW t \in Callers, DropIp(t) PROVE FimTypeOK'
  BY <1>12 DEF DropIp
<1>13. ASSUME NEW t \in Callers, DropUsed(t) PROVE FimTypeOK'
  BY <1>13 DEF DropUsed
<1> QED
  BY <1>1, <1>2, <1>3, <1>4, <1>5, <1>6, <1>7, <1>8, <1>9, <1>10, <1>11,
     <1>12, <1>13 DEF FimNext, InCall

THEOREM TypeCorrect == FimSpec => []FimTypeOK
  BY TypeInit, FimTypeStep, PTL DEF FimSpec
-----------------------------------------------------------------------------
(* Exclusive allocation, with release_ip running.  BoundOnce alone is not  *)
(* inductive: a task about to bind an address, or one taking an address    *)
(* out of the tables, must be known to hold it alone (HeldOnce), and a     *)
(* bound address must be reserved (BoundIsUsed) so that no scan takes it.  *)
Exclusive == BoundOnce /\ HeldOnce /\ BoundIsUsed

LEMMA ExclusiveInit == FimInit => Exclusive
  BY PoolAssumption
     DEF FimInit, Exclusive, BoundOnce, HeldOnce, BoundIsUsed, Holding, Taking,
         Releasing, Pool, NoIp

LEMMA ExclusiveStep ==
  FimTypeOK /\ Exclusive /\ [FimNext]_fimVars => Exclusive'
<1> SUFFICES ASSUME FimTypeOK, Exclusive, [FimNext]_fimVars PROVE Exclusive'
  OBVIOUS
<1> USE PoolAssumption, Defaults
        DEF FimTypeOK, Exclusive, BoundOnce, HeldOnce, BoundIsUsed, Holding,
            Taking, Releasing, Calls, Pool, NoIp, Goto, Leave, managerVars
<1>1. CASE UNCHANGED fimVars
  BY <1>1 DEF fimVars
<1>2. ASSUME NEW t \in Callers, NEW m \in Managers, NEW d \in Domains,
             Resolve(t, m, d)
      PROVE  Exclusive'
  BY <1>2 DEF Resolve
<1>3. ASSUME NEW t \in Callers, LookupHit(t) PROVE Exclusive'
  BY <1>3 DEF LookupHit
<1>4. ASSUME NEW t \in Callers, LookupMiss(t) PROVE Exclusive'
  BY <1>4 DEF LookupMiss
<1>5. ASSUME NEW t \in Callers, ScanTaken(t) PROVE Exclusive'
  BY <1>5 DEF ScanTaken
<1>6. ASSUME NEW t \in Callers, ScanFree(t) PROVE Exclusive'
  BY <1>6 DEF ScanFree
<1>7. ASSUME NEW t \in Callers, ScanEnd(t) PROVE Exclusive'
  BY <1>7 DEF ScanEnd
<1>8. ASSUME NEW t \in Callers, PutDomain(t) PROVE Exclusive'
  BY <1>8 DEF PutDomain
<1>9. ASSUME NEW t \in Callers, PutIp(t) PROVE Exclusive'
  BY <1>9 DEF PutIp
<1>10. ASSUME NEW t \in Callers, Return(t) PROVE Exclusive'
  BY <1>10 DEF Return
<1>11. ASSUME NEW t \in Callers, NEW m \in Managers, NEW d \in Domains,
             Release(t, m, d)
      PROVE  Exclusive'
  BY <1>11 DEF Release
<1>12. ASSUME NEW t \in Callers, DropIp(t) PROVE Exclusive'
  BY <1>12 DEF DropIp
<1>13. ASSUME NEW t \in Callers, DropUsed(t) PROVE Exclusive'
  BY <1>13 DEF DropUsed
<1> QED
  BY <1>1, <1>2, <1>3, <1>4, <1>5, <1>6, <1>7, <1>8, <1>9, <1>10, <1>11,
     <1>12, <1>13 DEF FimNext, InCall

(* No two domains are ever bound to one address, and an address that is    *)
(* being bound or released is in one task's hands, whatever calls overlap. *)
THEOREM ExclusiveAllocation == FimSpec => [](BoundOnce /\ HeldOnce /\ BoundIsUsed)
<1>1. FimInit => FimTypeOK /\ Exclusive
  BY TypeInit, ExclusiveInit
<1>2. FimTypeOK /\ Exclusive /\ [FimNext]_fimVars => (FimTypeOK /\ Exclusive)'
  BY FimTypeStep, ExclusiveStep
<1>3. FimTypeOK /\ Exclusive => BoundOnce /\ HeldOnce /\ BoundIsUsed
  BY DEF Exclusive
<1> QED
  BY <1>1, <1>2, <1>3, PTL DEF FimSpec

(* The set of used addresses never falls behind the tables (TablesAgree).  *)
THEOREM ReservationsHold == FimSpec => []TablesAgree
<1>1. BoundOnce /\ HeldOnce /\ BoundIsUsed => TablesAgree
  BY DEF TablesAgree
<1> QED
  BY <1>1, ExclusiveAllocation, PTL

-----------------------------------------------------------------------------
(* How many steps a call has before it at the most, the scan of the whole  *)
(* pool included.                                                          *)
CallEnd == [put_domain |-> 3, put_ip |-> 2, done |-> 1, failed |-> 1,
            drop_ip |-> 2, drop_used |-> 1, idle |-> 0]
CallLeft(t) == CASE pc[t] = "lookup" -> PoolSize + 5
                 [] pc[t] = "scan"   -> PoolSize - ip[t] + 4
                 [] OTHER            -> CallEnd[pc[t]]

CallsInRange == \A t \in Callers : CallLeft(t) \in 0 .. (PoolSize + 5)

LEMMA CallLeftRange == FimTypeOK => CallsInRange
<1> SUFFICES ASSUME FimTypeOK, NEW t \in Callers PROVE CallLeft(t) \in 0 .. (PoolSize + 5)
  BY DEF CallsInRange
<1> USE PoolAssumption DEF FimTypeOK, Calls, Pool, NoIp
<1>1. CASE pc[t] = "lookup"
  BY <1>1 DEF CallLeft
<1>2. CASE pc[t] = "scan"
  <2>1. ip[t] \in 0 .. PoolSize
    OBVIOUS
  <2> QED
    BY <1>2, <2>1 DEF CallLeft
<1>3. CASE pc[t] \notin {"lookup", "scan"}
  <2>1. CallEnd[pc[t]] \in 0 .. 3
    BY <1>3 DEF CallEnd
  <2> QED
    BY <1>3, <2>1 DEF CallLeft
<1> QED
  BY <1>1, <1>2, <1>3

LEMMA CallLeftRangeNext == FimTypeOK' => CallsInRange'
  BY CallLeftRange, PTL

LEMMA CallStep ==
  ASSUME FimTypeOK, NEW t \in Callers, InCall(t) \/ Return(t)
  PROVE  /\ CallLeft(t)' < CallLeft(t)
         /\ \A u \in Callers : u # t => CallLeft(u)' = CallLeft(u)
<1> USE PoolAssumption DEF FimTypeOK, Calls, Pool, NoIp, Goto, Leave
<1>1. ASSUME NEW u \in Callers, u # t PROVE pc'[u] = pc[u] /\ ip'[u] = ip[u]
  BY <1>1 DEF InCall, LookupHit, LookupMiss, ScanTaken, ScanFree, ScanEnd, PutDomain,
              PutIp, Return, DropIp, DropUsed
<1>2. ASSUME NEW u \in Callers, u # t PROVE CallLeft(u)' = CallLeft(u)
  BY <1>1, <1>2 DEF CallLeft
<1>3. CallLeft(t)' < CallLeft(t)
  <2> USE DEF CallLeft, CallEnd
  <2>1. CASE LookupHit(t)
    BY <2>1 DEF LookupHit
  <2>2. CASE LookupMiss(t)
    BY <2>2 DEF LookupMiss
  <2>3. CASE ScanTaken(t)
    BY <2>3 DEF ScanTaken
  <2>4. CASE ScanFree(t)
    BY <2>4 DEF ScanFree
  <2>5. CASE ScanEnd(t)
    BY <2>5 DEF ScanEnd
  <2>6. CASE PutDomain(t)
    BY <2>6 DEF PutDomain
  <2>7. CASE PutIp(t)
    BY <2>7 DEF PutIp
  <2>8. CASE DropIp(t)
    BY <2>8 DEF DropIp
  <2>9. CASE DropUsed(t)
    BY <2>9 DEF DropUsed
  <2>10. CASE Return(t)
    BY <2>10 DEF Return
  <2> QED
    BY <2>1, <2>2, <2>3, <2>4, <2>5, <2>6, <2>7, <2>8, <2>9, <2>10 DEF InCall
<1> QED
  BY <1>2, <1>3

(* A call that runs is only brought nearer to its end, of which it is never *)
(* more than PoolSize + 5 steps away: tasks that take addresses in front of *)
(* a scan, or release the ones behind it, do not keep it running.           *)
THEOREM CallsOnlyAdvance ==
  FimSpec => [][\A t \in Callers :
                   /\ pc[t] # "idle" => CallLeft(t)' \in 0 .. CallLeft(t)
                   /\ InCall(t) \/ Return(t) => CallLeft(t)' < CallLeft(t)
                   /\ CallLeft(t) <= PoolSize + 5]_fimVars
<1> DEFINE Advance(t) == /\ pc[t] # "idle" => CallLeft(t)' \in 0 .. CallLeft(t)
                         /\ InCall(t) \/ Return(t) => CallLeft(t)' < CallLeft(t)
                         /\ CallLeft(t) <= PoolSize + 5
<1>1. ASSUME FimTypeOK, FimTypeOK', FimNext, NEW t \in Callers PROVE Advance(t)
  <2>1. CallLeft(t) \in 0 .. (PoolSize + 5) /\ CallLeft(t)' \in 0 .. (PoolSize + 5)
    BY <1>1, CallLeftRange, CallLeftRangeNext DEF CallsInRange
  <2>2. InCall(t) \/ Return(t) => CallLeft(t)' < CallLeft(t)
    BY <1>1, CallStep
  <2>3. ASSUME pc[t] # "idle" PROVE CallLeft(t)' <= CallLeft(t)
    <3>1. CASE \E u \in Callers : InCall(u) \/ Return(u)
      BY <1>1, <2>1, <3>1, CallStep, PoolAssumption
    <3>2. ASSUME NEW u \in Callers, NEW m \in Managers, NEW d \in Domains,
                 Resolve(u, m, d) \/ Release(u, m, d)
          PROVE  CallLeft(t)' <= CallLeft(t)
      <4>1. pc'[t] = pc[t] /\ ip'[t] = ip[t]
        BY <1>1, <2>3, <3>2 DEF Resolve, Release, Goto, FimTypeOK
      <4>2. CallLeft(t)' = CallLeft(t)
        BY <4>1 DEF CallLeft
      <4> QED
        BY <2>1, <4>2, PoolAssumption
    <3> QED
      BY <1>1, <3>1, <3>2 DEF FimNext
  <2> QED
    BY <2>1, <2>2, <2>3, PoolAssumption
<1>2. FimTypeOK /\ FimTypeOK' /\ [FimNext]_fimVars => [\A t \in Callers : Advance(t)]_fimVars
  BY <1>1
<1> QED
  BY <1>2, TypeCorrect, PTL DEF FimSpec

-----------------------------------------------------------------------------
(* The program's use of the allocator: release_ip is never called.         *)
NoRelease == Releasers = {}

(* A claimed address is reserved, so a scan never takes it for another     *)
(* domain; a scan has only addresses in use behind it.                     *)
ClaimedIsUsed ==
    \A m \in Managers, i \in Pool, d \in Domains :
       Claims(m, i, d) => i \in used_ips[m]

ScanBehind ==
    \A t \in Callers : pc[t] = "scan" =>
       \A i \in Pool : i < ip[t] => i \in used_ips[mgr[t]]

NeverReleasing == \A t \in Callers : ~Releasing(t)

ClaimInv == /\ OneDomainPerIp
            /\ ClaimedIsUsed
            /\ ScanBehind
            /\ NeverReleasing

LEMMA ClaimInit == FimInit => ClaimInv
  BY PoolAssumption, NoDomainAssumption
     DEF FimInit, ClaimInv, OneDomainPerIp, ClaimedIsUsed, ScanBehind,
         NeverReleasing, Claims, Releasing, Pool, NoIp

(* Every action but ScanFree only passes a claim on or drops it. *)
NoNewClaim ==
    \A m \in Managers, i \in Pool, d \in Domains :
       Claims(m, i, d)' => Claims(m, i, d)

LEMMA ClaimsPassedOn ==
  ASSUME ClaimInv, NoNewClaim, UNCHANGED used_ips
  PROVE  OneDomainPerIp' /\ ClaimedIsUsed'
  BY DEF ClaimInv, NoNewClaim, OneDomainPerIp, ClaimedIsUsed

LEMMA ClaimStep ==
  ASSUME NoRelease, FimTypeOK, ClaimInv, [FimNext]_fimVars
  PROVE  ClaimInv'
<1> USE PoolAssumption, Defaults DEF FimTypeOK, Calls, Pool, NoIp, Goto, Leave, managerVars
<1>1. CASE UNCHANGED fimVars
  BY <1>1 DEF fimVars, ClaimInv, OneDomainPerIp, ClaimedIsUsed, ScanBehind,
              NeverReleasing, Releasing, Claims
<1>2. ASSUME NEW t \in Callers, NEW m \in Managers, NEW d \in Domains,
             Resolve(t, m, d)
      PROVE  ClaimInv'
  <2>1. NoNewClaim /\ UNCHANGED used_ips
    BY <1>2, NoDomainAssumption DEF Resolve, NoNewClaim, Claims
  <2>2. ScanBehind' /\ NeverReleasing'
    BY <1>2 DEF Resolve, ClaimInv, ScanBehind, NeverReleasing, Releasing
  <2> QED
    BY <2>1, <2>2, ClaimsPassedOn DEF ClaimInv
<1>3. ASSUME NEW t \in Callers, LookupHit(t) PROVE ClaimInv'
  <2>1. NoNewClaim /\ UNCHANGED used_ips
    BY <1>3, NoDomainAssumption DEF LookupHit, NoNewClaim, Claims
  <2>2. ScanBehind' /\ NeverReleasing'
    BY <1>3 DEF LookupHit, ClaimInv, ScanBehind, NeverReleasing, Releasing
  <2> QED
    BY <2>1, <2>2, ClaimsPassedOn DEF ClaimInv
<1>4. ASSUME NEW t \in Callers, LookupMiss(t) PROVE ClaimInv'
  <2>1. NoNewClaim /\ UNCHANGED used_ips
    BY <1>4, NoDomainAssumption DEF LookupMiss, NoNewClaim, Claims
  <2>2. ScanBehind' /\ NeverReleasing'
    BY <1>4 DEF LookupMiss, ClaimInv, ScanBehind, NeverReleasing, Releasing
  <2> QED
    BY <2>1, <2>2, ClaimsPassedOn DEF ClaimInv
<1>5. ASSUME NEW t \in Callers, ScanTaken(t) PROVE ClaimInv'
  <2>1. NoNewClaim /\ UNCHANGED used_ips
    BY <1>5, NoDomainAssumption DEF ScanTaken, NoNewClaim, Claims
  <2>2. ScanBehind' /\ NeverReleasing'
    BY <1>5 DEF ScanTaken, ClaimInv, ScanBehind, NeverReleasing, Releasing
  <2> QED
    BY <2>1, <2>2, ClaimsPassedOn DEF ClaimInv
<1>6. ASSUME NEW t \in Callers, ScanEnd(t) PROVE ClaimInv'
  <2>1. NoNewClaim /\ UNCHANGED used_ips
    BY <1>6, NoDomainAssumption DEF ScanEnd, NoNewClaim, Claims
  <2>2. ScanBehind' /\ NeverReleasing'
    BY <1>6 DEF ScanEnd, ClaimInv, ScanBehind, NeverReleasing, Releasing
  <2> QED
    BY <2>1, <2>2, ClaimsPassedOn DEF ClaimInv
<1>7. ASSUME NEW t \in Callers, PutDomain(t) PROVE ClaimInv'
  <2>1. NoNewClaim /\ UNCHANGED used_ips
    BY <1>7, NoDomainAssumption DEF PutDomain, NoNewClaim, Claims
  <2>2. ScanBehind' /\ NeverReleasing'
    BY <1>7 DEF PutDomain, ClaimInv, ScanBehind, NeverReleasing, Releasing
  <2> QED
    BY <2>1, <2>2, ClaimsPassedOn DEF ClaimInv
<1>8. ASSUME NEW t \in Callers, PutIp(t) PROVE ClaimInv'
  <2>1. NoNewClaim /\ UNCHANGED used_ips
    BY <1>8, NoDomainAssumption DEF PutIp, NoNewClaim, Claims
  <2>2. ScanBehind' /\ NeverReleasing'
    BY <1>8 DEF PutIp, ClaimInv, ScanBehind, NeverReleasing, Releasing
  <2> QED
    BY <2>1, <2>2, ClaimsPassedOn DEF ClaimInv
<1>9. ASSUME NEW t \in Callers, Return(t) PROVE ClaimInv'
  <2>1. NoNewClaim /\ UNCHANGED used_ips
    BY <1>9, NoDomainAssumption DEF Return, NoNewClaim, Claims
  <2>2. ScanBehind' /\ NeverReleasing'
    BY <1>9 DEF Return, ClaimInv, ScanBehind, NeverReleasing, Releasing
  <2> QED
    BY <2>1, <2>2, ClaimsPassedOn DEF ClaimInv
<1>10. ASSUME NEW t \in Callers, ScanFree(t) PROVE ClaimInv'
  <2>1. \A m \in Managers, i \in Pool, d \in Domains :
           Claims(m, i, d)' => \/ Claims(m, i, d)
                              \/ (m = mgr[t] /\ i = ip[t] /\ d = dom[t])
    BY <1>10 DEF ScanFree, Claims
  <2>2. \A d \in Domains : ~Claims(mgr[t], ip[t], d)
    BY <1>10 DEF ScanFree, ClaimInv, ClaimedIsUsed
  <2>3. OneDomainPerIp'
    BY <2>1, <2>2 DEF ClaimInv, OneDomainPerIp
  <2>4. ClaimedIsUsed'
    <3> SUFFICES ASSUME NEW m \in Managers, NEW i \in Pool, NEW d \in Domains,
                        Claims(m, i, d)'
                 PROVE  i \in used_ips'[m]
      BY DEF ClaimedIsUsed
    <3>1. CASE Claims(m, i, d)
      BY <1>10, <3>1 DEF ScanFree, ClaimInv, ClaimedIsUsed
    <3>2. CASE m = mgr[t] /\ i = ip[t]
      BY <1>10, <3>2 DEF ScanFree
    <3> QED
      BY <2>1, <3>1, <3>2
  <2>5. ScanBehind' /\ NeverReleasing'
    BY <1>10 DEF ScanFree, ClaimInv, ScanBehind, NeverReleasing, Releasing
  <2> QED
    BY <2>3, <2>4, <2>5 DEF ClaimInv
<1>11. ASSUME NEW t \in Callers PROVE ~DropIp(t) /\ ~DropUsed(t)
  BY DEF ClaimInv, NeverReleasing, Releasing, DropIp, DropUsed
<1>12. ASSUME NEW t \in Callers, NEW m \in Managers, NEW d \in Domains
       PROVE  ~Release(t, m, d)
  BY DEF NoRelease, Release
<1> QED
  BY <1>1, <1>2, <1>3, <1>4, <1>5, <1>6, <1>7, <1>8, <1>9, <1>10, <1>11, <1>12
     DEF FimNext, InCall

(* An address leads to one domain, in both tables and in every result.     *)
THEOREM OneDomain ==
  ASSUME NoRelease
  PROVE  FimSpec => []OneDomainPerIp
<1>1. FimInit => FimTypeOK /\ ClaimInv
  BY TypeInit, ClaimInit
<1>2. FimTypeOK /\ ClaimInv /\ [FimNext]_fimVars => (FimTypeOK /\ ClaimInv)'
  BY FimTypeStep, ClaimStep
<1>3. FimTypeOK /\ ClaimInv => OneDomainPerIp
  BY DEF ClaimInv
<1> QED
  BY <1>1, <1>2, <1>3, PTL DEF FimSpec

(* A reverse entry is written once and stays: the only action that writes  *)
(* one rewrites it for a domain that claims the address already.           *)
THEOREM ReverseEntriesStay ==
  ASSUME NoRelease
  PROVE  FimSpec => ReverseStable
<1> DEFINE Stays == \A m \in Managers, i \in Pool :
                       ip_to_domain[m][i] # NoDomain
                          => ip_to_domain'[m][i] = ip_to_domain[m][i]
<1>1. FimInit => FimTypeOK /\ ClaimInv
  BY TypeInit, ClaimInit
<1>2. FimTypeOK /\ ClaimInv /\ [FimNext]_fimVars => (FimTypeOK /\ ClaimInv)'
  BY FimTypeStep, ClaimStep
<1>3. FimTypeOK /\ ClaimInv /\ [FimNext]_fimVars => [Stays]_fimVars
  <2> SUFFICES ASSUME FimTypeOK, ClaimInv, FimNext PROVE Stays
    BY DEF fimVars
  <2>1. CASE UNCHANGED ip_to_domain
    BY <2>1
  <2>2. ASSUME NEW t \in Callers, PutIp(t) PROVE Stays
    <3>1. ip[t] \in Pool /\ mgr[t] \in Managers /\ dom[t] \in Domains
      BY <2>2 DEF FimTypeOK, PutIp
    <3>2. Claims(mgr[t], ip[t], dom[t])
      BY <2>2 DEF PutIp, Claims
    <3>3. ip_to_domain[mgr[t]][ip[t]] \in {dom[t], NoDomain}
      BY <3>1, <3>2 DEF ClaimInv, OneDomainPerIp, Claims, FimTypeOK
    <3> QED
      BY <2>2, <3>1, <3>3 DEF PutIp, FimTypeOK
  <2>3. ASSUME NEW t \in Callers PROVE ~DropIp(t)
    BY DEF ClaimInv, NeverReleasing, Releasing, DropIp
  <2> QED
    BY <2>1, <2>2, <2>3
       DEF FimNext, InCall, Resolve, LookupHit, LookupMiss, ScanTaken, ScanFree,
           ScanEnd, PutDomain, Return, Release, DropUsed, managerVars
<1> QED
  BY <1>1, <1>2, <1>3, PTL DEF FimSpec, ReverseStable

(* A caller is told the pool is exhausted only when it is.                 *)
THEOREM ExhaustionIsReal ==
  ASSUME NoRelease
  PROVE  FimSpec => ExhaustedOnlyWhenFull
<1> DEFINE Real == \A t \in Callers : ScanEnd(t) => used_ips[mgr[t]] = Pool
<1>1. FimInit => FimTypeOK /\ ClaimInv
  BY TypeInit, ClaimInit
<1>2. FimTypeOK /\ ClaimInv /\ [FimNext]_fimVars => (FimTypeOK /\ ClaimInv)'
  BY FimTypeStep, ClaimStep
<1>3. FimTypeOK /\ ClaimInv => [Real]_fimVars
  <2> SUFFICES ASSUME FimTypeOK, ClaimInv, NEW t \in Callers, ScanEnd(t)
               PROVE  used_ips[mgr[t]] = Pool
    BY DEF fimVars
  <2>1. \A i \in Pool : i \in used_ips[mgr[t]]
    BY PoolAssumption DEF ClaimInv, ScanBehind, ScanEnd, Pool, NoIp
  <2> QED
    BY <2>1 DEF FimTypeOK
<1> QED
  BY <1>1, <1>2, <1>3, PTL DEF FimSpec, ExhaustedOnlyWhenFull

-----------------------------------------------------------------------------
(* The DNS proxy. *)
(* release_ip has no caller in the program.                                *)
LEMMA NeverReleased == NoRelease
  BY ProgramUse DEF NoRelease

(* A claim that no step can take back: the reverse entry, or the handler   *)
(* that has reserved the address and is about to write it.                 *)
Solid(m, i, d) ==
    \/ ip_to_domain[m][i] = d
    \/ \E t \in Callers : /\ pc[t] \in {"put_domain", "put_ip"}
                          /\ mgr[t] = m /\ ip[t] = i /\ dom[t] = d

ClaimsSolid ==
    \A m \in Managers, i \in Pool, d \in Domains : Claims(m, i, d) => Solid(m, i, d)

ClaimsKept ==
    \A m \in Managers, i \in Pool, d \in Domains : Claims(m, i, d) => Claims(m, i, d)'

(* The allocator's part of the invariant. *)
AllocatorInv == FimTypeOK /\ ClaimInv /\ ClaimsSolid

(* A new allocator has made no claim.                                      *)
LEMMA AllocatorInit == FimInit => AllocatorInv
<1>1. FimInit => ClaimsSolid
  BY PoolAssumption, NoDomainAssumption
     DEF FimInit, ClaimsSolid, Claims, Pool, NoIp
<1> QED
  BY <1>1, TypeInit, ClaimInit DEF AllocatorInv

(* Claims are never taken back, and a step of the allocator adds at most    *)
(* the claim of the handler whose used_ips.insert returned true.            *)
Adds(t) ==
    \A m \in Managers, i \in Pool, d \in Domains :
       Claims(m, i, d)' <=> \/ Claims(m, i, d)
                            \/ m = mgr[t] /\ i = ip[t] /\ d = dom[t]

SolidKept ==
    \A m \in Managers, i \in Pool, d \in Domains : Solid(m, i, d) => Solid(m, i, d)'

(* No step undoes a reverse entry or an allocation under way: PutIp only   *)
(* rewrites an entry for the name that claims the address already.         *)
LEMMA SolidStep ==
  ASSUME AllocatorInv, [FimNext]_fimVars
  PROVE  SolidKept
<1> USE PoolAssumption, NoDomainAssumption, Defaults
        DEF AllocatorInv, FimTypeOK, Calls, Pool, NoIp, Goto, Leave, managerVars,
            SolidKept, Solid
<1>1. CASE UNCHANGED fimVars
  BY <1>1 DEF fimVars
<1>2. ASSUME NEW t \in Callers, NEW m \in Managers, NEW d \in Domains,
             Resolve(t, m, d)
      PROVE  SolidKept
  BY <1>2 DEF Resolve
<1>3. ASSUME NEW t \in Callers, LookupHit(t) \/ LookupMiss(t)
      PROVE  SolidKept
  <2>1. CASE LookupHit(t)
    BY <2>1 DEF LookupHit
  <2>2. CASE LookupMiss(t)
    BY <2>2 DEF LookupMiss
  <2> QED
    BY <1>3, <2>1, <2>2
<1>4. ASSUME NEW t \in Callers, ScanTaken(t) \/ ScanFree(t) \/ ScanEnd(t)
      PROVE  SolidKept
  <2>1. CASE ScanTaken(t)
    BY <2>1 DEF ScanTaken
  <2>2. CASE ScanFree(t)
    BY <2>2 DEF ScanFree
  <2>3. CASE ScanEnd(t)
    BY <2>3 DEF ScanEnd
  <2> QED
    BY <1>4, <2>1, <2>2, <2>3
<1>5. ASSUME NEW t \in Callers, PutDomain(t) PROVE SolidKept
  BY <1>5 DEF PutDomain
<1>6. ASSUME NEW t \in Callers, PutIp(t) PROVE SolidKept
  <2>1. Claims(mgr[t], ip[t], dom[t])
    BY <1>6 DEF PutIp, Claims
  <2>2. \A m \in Managers, i \in Pool, d \in Domains :
           ip_to_domain[m][i] = d => ip_to_domain'[m][i] = d
    BY <1>6, <2>1 DEF PutIp, ClaimInv, OneDomainPerIp, Claims
  <2> QED
    BY <1>6, <2>2 DEF PutIp
<1>7. ASSUME NEW t \in Callers, Return(t) PROVE SolidKept
  BY <1>7 DEF Return
<1>8. ASSUME NEW t \in Callers PROVE ~DropIp(t) /\ ~DropUsed(t)
  BY DEF ClaimInv, NeverReleasing, Releasing, DropIp, DropUsed
<1>9. ASSUME NEW t \in Callers, NEW m \in Managers, NEW d \in Domains
      PROVE  ~Release(t, m, d)
  BY NeverReleased DEF NoRelease, Release
<1> QED
  BY <1>1, <1>2, <1>3, <1>4, <1>5, <1>6, <1>7, <1>8, <1>9 DEF FimNext, InCall

(* The only step that makes a claim is a used_ips.insert that succeeds.    *)
LEMMA ClaimsStep ==
  ASSUME AllocatorInv, [FimNext]_fimVars
  PROVE  \/ NoNewClaim
         \/ \E t \in Callers : ScanFree(t) /\ Adds(t)
<1> USE PoolAssumption, NoDomainAssumption, Defaults
        DEF AllocatorInv, FimTypeOK, Calls, Pool, NoIp, Goto, Leave, managerVars
<1>1. CASE UNCHANGED fimVars
  BY <1>1 DEF fimVars, NoNewClaim, Claims
<1>2. ASSUME NEW t \in Callers, NEW m \in Managers, NEW d \in Domains,
             Resolve(t, m, d)
      PROVE  NoNewClaim
  BY <1>2 DEF Resolve, NoNewClaim, Claims
<1>3. ASSUME NEW t \in Callers, LookupHit(t) PROVE NoNewClaim
  BY <1>3 DEF LookupHit, NoNewClaim, Claims
<1>4. ASSUME NEW t \in Callers, LookupMiss(t) \/ ScanTaken(t) \/ ScanEnd(t)
      PROVE  NoNewClaim
  <2>1. CASE LookupMiss(t)
    BY <2>1 DEF LookupMiss, NoNewClaim, Claims
  <2>2. CASE ScanTaken(t)
    BY <2>2 DEF ScanTaken, NoNewClaim, Claims
  <2>3. CASE ScanEnd(t)
    BY <2>3 DEF ScanEnd, NoNewClaim, Claims
  <2> QED
    BY <1>4, <2>1, <2>2, <2>3
<1>5. ASSUME NEW t \in Callers, PutDomain(t) PROVE NoNewClaim
  BY <1>5 DEF PutDomain, NoNewClaim, Claims
<1>6. ASSUME NEW t \in Callers, PutIp(t) PROVE NoNewClaim
  BY <1>6 DEF PutIp, NoNewClaim, Claims
<1>7. ASSUME NEW t \in Callers, Return(t) PROVE NoNewClaim
  BY <1>7 DEF Return, NoNewClaim, Claims
<1>8. ASSUME NEW t \in Callers, ScanFree(t) PROVE Adds(t)
  BY <1>8 DEF ScanFree, Adds, Claims
<1>9. ASSUME NEW t \in Callers PROVE ~DropIp(t) /\ ~DropUsed(t)
  BY DEF ClaimInv, NeverReleasing, Releasing, DropIp, DropUsed
<1>10. ASSUME NEW t \in Callers, NEW m \in Managers, NEW d \in Domains
       PROVE  ~Release(t, m, d)
  BY NeverReleased DEF NoRelease, Release
<1> QED
  BY <1>1, <1>2, <1>3, <1>4, <1>5, <1>6, <1>7, <1>8, <1>9, <1>10
     DEF FimNext, InCall

(* The allocator keeps its invariant, and every claim it has made.         *)
LEMMA AllocatorStep ==
  ASSUME AllocatorInv, [FimNext]_fimVars
  PROVE  AllocatorInv' /\ ClaimsKept
<1>1. FimTypeOK' /\ ClaimInv'
  BY NeverReleased, FimTypeStep, ClaimStep DEF AllocatorInv
<1>2. \A m \in Managers, i \in Pool, d \in Domains : Solid(m, i, d)' => Claims(m, i, d)'
  BY DEF Solid, Claims
<1>3. ClaimsKept
  BY <1>2, SolidStep DEF AllocatorInv, ClaimsSolid, SolidKept, ClaimsKept
<1>4. CASE NoNewClaim
  BY <1>1, <1>3, <1>4, SolidStep
     DEF AllocatorInv, ClaimsSolid, SolidKept, NoNewClaim
<1>5. ASSUME NEW t \in Callers, ScanFree(t), Adds(t) PROVE AllocatorInv' /\ ClaimsKept
  <2>1. ASSUME NEW m \in Managers, NEW i \in Pool, NEW d \in Domains, Claims(m, i, d)'
        PROVE  Solid(m, i, d)'
    <3>1. CASE Claims(m, i, d)
      BY <3>1, SolidStep DEF AllocatorInv, ClaimsSolid, SolidKept
    <3>2. CASE m = mgr[t] /\ i = ip[t] /\ d = dom[t]
      BY <1>5, <3>2 DEF ScanFree, Goto, Solid, AllocatorInv, FimTypeOK
    <3> QED
      BY <1>5, <2>1, <3>1, <3>2 DEF Adds
  <2> QED
    BY <1>1, <1>3, <2>1 DEF AllocatorInv, ClaimsSolid
<1> QED
  BY <1>4, <1>5, ClaimsStep

(* Every step of DnsProxy is a step of the allocator or leaves it alone.   *)
LEMMA AllocatorSteps ==
  ASSUME DnsNext, qsess \in [Handlers -> Managers], qdom \in [Handlers -> Domains]
  PROVE  [FimNext]_fimVars
<1>1. ASSUME NEW h \in Handlers, CheckMiss(h) PROVE FimNext
  BY <1>1 DEF CheckMiss, FimNext, Handlers
<1>2. ASSUME NEW h \in Handlers, Allocator(h) \/ PutForward(h) \/ GiveUp(h)
      PROVE  FimNext
  BY <1>2 DEF Allocator, PutForward, GiveUp, FimNext, Handlers
<1> QED
  BY <1>1, <1>2
     DEF DnsNext, Handle, Bind, AbortLoop, ClearForward, ClearReverse, RecvOther,
         Recv, AnswerNxdomain, CheckHit, PutReverse, Answer
-----------------------------------------------------------------------------
(* The variables of DnsProxy itself. *)
DnsTyped ==
    /\ domain_to_fake_ip \in [Domains -> Pool \cup {NoIp}]
    /\ fake_ip_to_domain \in [Pool -> Domains \cup {NoDomain}]
    /\ session    \in 0 .. MaxSessions
    /\ listening  \in BOOLEAN
    /\ clearing   \in {"no", "forward", "reverse"}
    /\ stage      \in [Handlers -> Stages]
    /\ qsess      \in [Handlers -> Managers]
    /\ qdom       \in [Handlers -> Domains]
    /\ qip        \in [Handlers -> Pool \cup {NoIp}]
    /\ overlapped \in BOOLEAN
    /\ \A a \in answers : a[1] \in Managers /\ a[2] \in Domains /\ a[3] \in Pool

(* A handler is inside the allocator exactly while it resolves, with the   *)
(* session and the name of its query; those that use the tables belong to  *)
(* the last session, whose loop could not be bound before they were gone.  *)
HandlerOK(h) ==
    /\ pc[h] # "idle" <=> stage[h] = "resolve"
    /\ stage[h] = "resolve" => mgr[h] = qsess[h] /\ dom[h] = qdom[h]
    /\ stage[h] \in Stages \ {"none", "nxdomain"} => qsess[h] = session
    /\ stage[h] \in {"put_reverse", "answer"} => qip[h] \in Pool

HandlersOK == \A h \in Handlers : HandlerOK(h)

ForwardEmpty == \A d \in Domains : domain_to_fake_ip[d] = NoIp

(* Between sessions, before the first and after an undisturbed clear_cache, *)
(* no handler is left and the forward table is empty.                       *)
SessionsOK ==
    /\ listening => session # 0
    /\ \A a \in answers : a[1] <= session
    /\ ~overlapped /\ clearing # "no" => ~listening
    /\ session = 0 => ForwardEmpty /\ InFlight = {}
    /\ ~overlapped /\ ~listening /\ clearing # "forward"
          => ForwardEmpty /\ InFlight = {}

(* What the tables and the handlers know is what the session's allocator   *)
(* has bound: in the first session always, in a later one unless leftovers *)
(* escaped clear_cache.                                                    *)
Trusted == session = 1 \/ ~overlapped

ForwardOwned ==
    \A m \in Managers, i \in Pool, d \in Domains :
       session = m /\ domain_to_fake_ip[d] = i => Claims(m, i, d)

CarriedOwned ==
    \A h \in Handlers : stage[h] \in {"put_reverse", "answer"} =>
       \A m \in Managers, i \in Pool, d \in Domains :
          session = m /\ qip[h] = i /\ qdom[h] = d => Claims(m, i, d)

Owned == Trusted => ForwardOwned /\ CarriedOwned

AnswersOwned ==
    ~overlapped => \A a \in answers :
       \A m \in Managers, i \in Pool, d \in Domains :
          a[1] = m /\ a[3] = i /\ a[2] = d => Claims(m, i, d)

(* An address leads back to a name, or is about to. *)
Led(i, d) ==
    \/ fake_ip_to_domain[i] = d
    \/ \E h \in Handlers : stage[h] = "put_reverse" /\ qip[h] = i /\ qdom[h] = d

ForwardLed ==
    \A i \in Pool, d \in Domains : domain_to_fake_ip[d] = i => Led(i, d)

CarriedLed ==
    \A h \in Handlers : stage[h] = "answer" =>
       \A i \in Pool, d \in Domains : qip[h] = i /\ qdom[h] = d => Led(i, d)

AnswersLed ==
    listening => \A a \in answers : a[1] = session =>
       \A i \in Pool, d \in Domains : a[3] = i /\ a[2] = d => Led(i, d)

LedBack == ~overlapped /\ clearing # "reverse" => ForwardLed /\ CarriedLed /\ AnswersLed

DnsInv == /\ AllocatorInv
          /\ DnsTyped
          /\ HandlersOK
          /\ SessionsOK
          /\ Owned
          /\ AnswersOwned
          /\ LedBack

(* The tables start empty, before the first session.                       *)
LEMMA DnsInvInit == DnsInit => DnsInv
<1> SUFFICES ASSUME DnsInit PROVE DnsInv
  OBVIOUS
<1>1. AllocatorInv
  BY AllocatorInit DEF DnsInit
<1>2. DnsTyped
  <2>1. session \in 0 .. MaxSessions
    BY SessionsAssumption DEF DnsInit
  <2>2. /\ domain_to_fake_ip \in [Domains -> Pool \cup {NoIp}]
        /\ fake_ip_to_domain \in [Pool -> Domains \cup {NoDomain}]
    BY DEF DnsInit
  <2> QED
    BY <2>1, <2>2, Defaults DEF DnsInit, DnsTyped, Stages, Handlers
<1>3. HandlersOK
  BY DEF DnsInit, FimInit, HandlersOK, HandlerOK, Stages, Handlers
<1>4. SessionsOK
  BY DEF DnsInit, SessionsOK, ForwardEmpty, InFlight
<1>5. Owned /\ AnswersOwned /\ LedBack
  BY PoolAssumption
     DEF DnsInit, Owned, ForwardOwned, CarriedOwned, AnswersOwned, LedBack,
         ForwardLed, CarriedLed, AnswersLed, Pool, NoIp
<1> QED
  BY <1>1, <1>2, <1>3, <1>4, <1>5 DEF DnsInv

(* Every step keeps the types of the tables, the loop and the handlers.    *)
LEMMA DnsTypedStep ==
  ASSUME DnsInv, DnsNext
  PROVE  DnsTyped'
<1> USE PoolAssumption, NoDomainAssumption, Defaults, SessionsAssumption
        DEF DnsInv, DnsTyped, Stages, To, Finish, Handlers, fimVars, appVars,
            loopVars, taskVars, histVars
<1>1. CASE Bind
  BY <1>1 DEF Bind
<1>2. CASE AbortLoop
  BY <1>2 DEF AbortLoop
<1>3. CASE ClearForward
  BY <1>3 DEF ClearForward
<1>4. CASE ClearReverse
  BY <1>4 DEF ClearReverse
<1>5. ASSUME NEW h \in Handlers, RecvOther(h) PROVE DnsTyped'
  BY <1>5 DEF RecvOther
<1>6. ASSUME NEW h \in Handlers, AnswerNxdomain(h) PROVE DnsTyped'
  BY <1>6 DEF AnswerNxdomain
<1>7. ASSUME NEW h \in Handlers, CheckHit(h) PROVE DnsTyped'
  BY <1>7 DEF CheckHit
<1>8. ASSUME NEW h \in Handlers, CheckMiss(h) PROVE DnsTyped'
  BY <1>8 DEF CheckMiss
<1>9. ASSUME NEW h \in Handlers, Allocator(h) PROVE DnsTyped'
  BY <1>9 DEF Allocator
<1>10. ASSUME NEW h \in Handlers, PutForward(h) PROVE DnsTyped'
  BY <1>10 DEF PutForward, AllocatorInv, FimTypeOK
<1>11. ASSUME NEW h \in Handlers, GiveUp(h) PROVE DnsTyped'
  BY <1>11 DEF GiveUp
<1>12. ASSUME NEW h \in Handlers, PutReverse(h) PROVE DnsTyped'
  BY <1>12 DEF PutReverse, HandlersOK, HandlerOK
<1>13. ASSUME NEW h \in Handlers, Answer(h) PROVE DnsTyped'
  BY <1>13 DEF Answer, HandlersOK, HandlerOK
<1>14. ASSUME NEW h \in Handlers, NEW d \in Domains, Recv(h, d) PROVE DnsTyped'
  BY <1>14 DEF Recv, SessionsOK
<1> QED
  BY <1>1, <1>2, <1>3, <1>4, <1>5, <1>6, <1>7, <1>8, <1>9, <1>10, <1>11,
     <1>12, <1>13, <1>14 DEF DnsNext, Handle

(* A step inside the allocator moves one handler's pc, and not to idle.    *)
LEMMA InCallLocal ==
  ASSUME AllocatorInv, NEW h \in Handlers, InCall(h)
  PROVE  /\ pc[h] # "idle" /\ pc'[h] # "idle"
         /\ \A g \in Handlers : g # h => pc'[g] = pc[g]
         /\ mgr' = mgr /\ dom' = dom
<1> USE DEF Handlers, AllocatorInv, FimTypeOK, Goto
<1>1. CASE LookupHit(h) \/ LookupMiss(h)
  BY <1>1 DEF LookupHit, LookupMiss
<1>2. CASE ScanTaken(h) \/ ScanFree(h) \/ ScanEnd(h)
  BY <1>2 DEF ScanTaken, ScanFree, ScanEnd
<1>3. CASE PutDomain(h) \/ PutIp(h)
  BY <1>3 DEF PutDomain, PutIp
<1>4. ~DropIp(h) /\ ~DropUsed(h)
  BY DEF ClaimInv, NeverReleasing, Releasing, DropIp, DropUsed
<1> QED
  BY <1>1, <1>2, <1>3, <1>4 DEF InCall

(* A handler enters the allocator with its own session and name, and leaves*)
(* it before it touches the tables of AppState.                            *)
LEMMA HandlersStep ==
  ASSUME DnsInv, DnsNext
  PROVE  HandlersOK'
<1> USE DEF DnsInv, DnsTyped, AllocatorInv, FimTypeOK, Stages, To, Finish, HandlersOK,
            HandlerOK, Handlers, fimVars, loopVars, taskVars
<1>1. CASE Bind
  BY <1>1 DEF Bind, InFlight
<1>2. CASE AbortLoop \/ ClearForward \/ ClearReverse
  BY <1>2 DEF AbortLoop, ClearForward, ClearReverse
<1>3. ASSUME NEW h \in Handlers, RecvOther(h) \/ AnswerNxdomain(h) PROVE HandlersOK'
  BY <1>3 DEF RecvOther, AnswerNxdomain
<1>4. ASSUME NEW h \in Handlers, CheckHit(h) PROVE HandlersOK'
  BY <1>4 DEF CheckHit
<1>5. ASSUME NEW h \in Handlers, CheckMiss(h) PROVE HandlersOK'
  BY <1>5 DEF CheckMiss, Resolve, Goto
<1>6. ASSUME NEW h \in Handlers, Allocator(h) PROVE HandlersOK'
  BY <1>6, InCallLocal DEF Allocator
<1>7. ASSUME NEW h \in Handlers, PutForward(h) PROVE HandlersOK'
  BY <1>7 DEF PutForward, Return, Leave, Goto
<1>8. ASSUME NEW h \in Handlers, GiveUp(h) PROVE HandlersOK'
  BY <1>8 DEF GiveUp, Return, Leave, Goto
<1>9. ASSUME NEW h \in Handlers, PutReverse(h) PROVE HandlersOK'
  BY <1>9 DEF PutReverse
<1>10. ASSUME NEW h \in Handlers, Answer(h) PROVE HandlersOK'
  BY <1>10 DEF Answer
<1>11. ASSUME NEW h \in Handlers, NEW d \in Domains, Recv(h, d) PROVE HandlersOK'
  BY <1>11 DEF Recv
<1> QED
  BY <1>1, <1>2, <1>3, <1>4, <1>5, <1>6, <1>7, <1>8, <1>9, <1>10, <1>11
     DEF DnsNext, Handle

(* A loop is bound only when the handlers of the last one are gone.        *)
LEMMA SessionsStep ==
  ASSUME DnsInv, DnsNext
  PROVE  SessionsOK'
<1> USE DEF DnsInv, DnsTyped, Stages, To, Finish, SessionsOK, ForwardEmpty, InFlight,
            appVars, loopVars, taskVars, histVars
<1>1. CASE Bind
  <2>1. /\ session' = session + 1 /\ session' # 0
        /\ listening' = TRUE /\ answers' = answers
    BY <1>1, SessionsAssumption DEF Bind
  <2>2. \A a \in answers : a[1] <= session + 1
    BY SessionsAssumption
  <2>3. ~overlapped' => clearing' = "no"
    BY <1>1 DEF Bind
  <2> QED
    BY <2>1, <2>2, <2>3
<1>2. CASE AbortLoop
  BY <1>2 DEF AbortLoop
<1>3. CASE ClearForward
  BY <1>3 DEF ClearForward
<1>4. CASE ClearReverse
  BY <1>4 DEF ClearReverse
<1>5. ASSUME NEW h \in Handlers, RecvOther(h) \/ \E d \in Domains : Recv(h, d)
      PROVE  SessionsOK'
  BY <1>5 DEF RecvOther, Recv
<1>6. ASSUME NEW h \in Handlers, Handle(h)
      PROVE  /\ h \in InFlight
             /\ UNCHANGED <<session, listening, clearing, overlapped>>
  BY <1>6 DEF Handle, AnswerNxdomain, CheckHit, CheckMiss, Allocator, PutForward,
              GiveUp, PutReverse, Answer
<1>7. ASSUME NEW h \in Handlers, Answer(h) PROVE SessionsOK'
  BY <1>6, <1>7 DEF Handle, Answer, HandlersOK, HandlerOK
<1>8. ASSUME NEW h \in Handlers, Handle(h), UNCHANGED answers PROVE SessionsOK'
  BY <1>6, <1>8
<1>9. ASSUME NEW h \in Handlers, Handle(h) PROVE Answer(h) \/ UNCHANGED answers
  BY <1>9 DEF Handle, AnswerNxdomain, CheckHit, CheckMiss, Allocator, PutForward,
              GiveUp, PutReverse
<1> QED
  BY <1>1, <1>2, <1>3, <1>4, <1>5, <1>7, <1>8, <1>9 DEF DnsNext

(* The absent address is none of the pool.                                 *)
LEMMA NoIpFree == NoIp \notin Pool
  BY PoolAssumption DEF NoIp, Pool

(* What is claimed stays claimed through a step of DnsProxy.               *)
LEMMA AllocatorKept ==
  ASSUME DnsInv, DnsNext
  PROVE  AllocatorInv' /\ ClaimsKept
  BY AllocatorSteps, AllocatorStep DEF DnsInv, DnsTyped

(* Handlers and the forward table pass on what the allocator has bound.    *)
LEMMA OwnedStep ==
  ASSUME DnsInv, DnsNext
  PROVE  Owned'
<1> USE AllocatorKept, NoIpFree
        DEF DnsInv, DnsTyped, Stages, To, Finish, Trusted, Owned, ForwardOwned,
            CarriedOwned, ClaimsKept, appVars, loopVars, taskVars, histVars
<1>1. CASE Bind
  <2>1. session = 0 \/ session' # 1
    BY <1>1, SessionsAssumption DEF Bind
  <2>2. Trusted' => ForwardEmpty /\ InFlight = {}
    BY <1>1, <2>1 DEF Bind, SessionsOK
  <2> QED
    BY <1>1, <2>2 DEF Bind, ForwardEmpty, InFlight
<1>2. CASE AbortLoop \/ ClearForward \/ ClearReverse
  BY <1>2 DEF AbortLoop, ClearForward, ClearReverse
<1>3. ASSUME NEW h \in Handlers, RecvOther(h) \/ AnswerNxdomain(h) PROVE Owned'
  BY <1>3 DEF RecvOther, AnswerNxdomain
<1>4. ASSUME NEW h \in Handlers, CheckHit(h) PROVE Owned'
  BY <1>4 DEF CheckHit
<1>5. ASSUME NEW h \in Handlers, CheckMiss(h) \/ Allocator(h) PROVE Owned'
  BY <1>5 DEF CheckMiss, Allocator
<1>6. ASSUME NEW h \in Handlers, PutForward(h) PROVE Owned'
  <2>1. /\ pc[h] = "done" /\ dom[h] = qdom[h] /\ mgr[h] = session
        /\ domain_to_fake_ip' = [domain_to_fake_ip EXCEPT ![qdom[h]] = ip[h]]
        /\ qip' = [qip EXCEPT ![h] = ip[h]]
        /\ UNCHANGED <<session, overlapped, qdom>>
    BY <1>6 DEF PutForward, HandlersOK, HandlerOK
  <2>2. \A m \in Managers, i \in Pool, d \in Domains :
           mgr[h] = m /\ ip[h] = i /\ dom[h] = d => Claims(m, i, d)
    BY <2>1 DEF Claims, Handlers
  <2> QED
    BY <1>6, <2>1, <2>2 DEF PutForward
<1>7. ASSUME NEW h \in Handlers, GiveUp(h) PROVE Owned'
  BY <1>7 DEF GiveUp
<1>8. ASSUME NEW h \in Handlers, PutReverse(h) PROVE Owned'
  BY <1>8 DEF PutReverse
<1>9. ASSUME NEW h \in Handlers, Answer(h) PROVE Owned'
  BY <1>9 DEF Answer
<1>10. ASSUME NEW h \in Handlers, NEW d \in Domains, Recv(h, d) PROVE Owned'
  BY <1>10 DEF Recv
<1> QED
  BY <1>1, <1>2, <1>3, <1>4, <1>5, <1>6, <1>7, <1>8, <1>9, <1>10
     DEF DnsNext, Handle

(* An answer is sent for an address its name has claimed for good.         *)
LEMMA AnswersOwnedStep ==
  ASSUME DnsInv, DnsNext
  PROVE  AnswersOwned'
<1> USE AllocatorKept DEF DnsInv, AnswersOwned, ClaimsKept
<1>1. overlapped => overlapped'
  BY DEF DnsNext, Bind, AbortLoop, ClearForward, ClearReverse, RecvOther, Handle,
         AnswerNxdomain, CheckHit, CheckMiss, Allocator, PutForward, GiveUp,
         PutReverse, Answer, Recv, histVars
<1>2. ASSUME NEW h \in Handlers, Answer(h) PROVE AnswersOwned'
  <2>1. \A a \in answers' : a \in answers \/ a = <<qsess[h], qdom[h], qip[h]>>
    BY <1>2 DEF Answer
  <2>2. qsess[h] = session /\ stage[h] = "answer"
    BY <1>2 DEF Answer, HandlersOK, HandlerOK, Stages
  <2> QED
    BY <1>1, <2>1, <2>2 DEF Owned, Trusted, CarriedOwned
<1>3. CASE UNCHANGED answers
  BY <1>1, <1>3
<1> QED
  BY <1>2, <1>3
     DEF DnsNext, Bind, AbortLoop, ClearForward, ClearReverse, RecvOther, Handle,
         AnswerNxdomain, CheckHit, CheckMiss, Allocator, PutForward, GiveUp,
         PutReverse, Recv, histVars

(* No address that leads back to a name stops doing so. *)
LedKept ==
    \A i \in Pool, d \in Domains : Led(i, d) => Led(i, d)'

(* A reverse entry is written before its address is answered, or by the    *)
(* handler that put it in the forward table.                               *)
LEMMA LedBackStep ==
  ASSUME DnsInv, DnsNext
  PROVE  LedBack'
<1> USE NoIpFree
        DEF DnsInv, DnsTyped, Stages, To, Finish, LedBack, ForwardLed, CarriedLed,
            AnswersLed, appVars, loopVars, taskVars, histVars
<1>1. CASE Bind
  <2>1. LedBack' \/ (ForwardEmpty /\ InFlight = {})
    BY <1>1 DEF Bind, SessionsOK
  <2>2. \A a \in answers' : a[1] # session'
    BY <1>1, SessionsAssumption DEF Bind, SessionsOK
  <2> QED
    BY <1>1, <2>1, <2>2 DEF Bind, ForwardEmpty, InFlight
<1>2. CASE AbortLoop
  BY <1>2 DEF AbortLoop, Led
<1>3. CASE ClearForward
  BY <1>3 DEF ClearForward
<1>4. CASE ClearReverse
  BY <1>4 DEF ClearReverse, SessionsOK, ForwardEmpty, InFlight
<1>5. ASSUME NEW h \in Handlers, RecvOther(h) \/ AnswerNxdomain(h) PROVE LedBack'
  <2>1. LedKept
    BY <1>5 DEF RecvOther, AnswerNxdomain, LedKept, Led
  <2> QED
    BY <1>5, <2>1 DEF RecvOther, AnswerNxdomain, LedKept
<1>6. ASSUME NEW h \in Handlers, NEW d \in Domains, Recv(h, d) PROVE LedBack'
  <2>1. LedKept
    BY <1>6 DEF Recv, LedKept, Led
  <2> QED
    BY <1>6, <2>1 DEF Recv, LedKept
<1>7. ASSUME NEW h \in Handlers, CheckHit(h) PROVE LedBack'
  <2>1. LedKept
    BY <1>7 DEF CheckHit, LedKept, Led
  <2> QED
    BY <1>7, <2>1 DEF CheckHit, LedKept
<1>8. ASSUME NEW h \in Handlers, CheckMiss(h) \/ Allocator(h) PROVE LedBack'
  <2>1. LedKept
    BY <1>8 DEF CheckMiss, Allocator, LedKept, Led
  <2> QED
    BY <1>8, <2>1 DEF CheckMiss, Allocator, LedKept
<1>9. ASSUME NEW h \in Handlers, PutForward(h) PROVE LedBack'
  <2>1. LedKept
    BY <1>9 DEF PutForward, LedKept, Led
  <2>2. \A i \in Pool, d \in Domains : qip'[h] = i /\ qdom[h] = d => Led(i, d)'
    BY <1>9 DEF PutForward, Led
  <2> QED
    BY <1>9, <2>1, <2>2 DEF PutForward, LedKept
<1>10. ASSUME NEW h \in Handlers, GiveUp(h) PROVE LedBack'
  <2>1. LedKept
    BY <1>10 DEF GiveUp, LedKept, Led
  <2> QED
    BY <1>10, <2>1 DEF GiveUp, LedKept
<1>11. ASSUME NEW h \in Handlers, PutReverse(h) PROVE LedBack'
  <2>1. /\ stage[h] = "put_reverse" /\ qip[h] \in Pool /\ session \in Managers
        /\ fake_ip_to_domain' = [fake_ip_to_domain EXCEPT ![qip[h]] = qdom[h]]
        /\ stage' = [stage EXCEPT ![h] = "answer"]
        /\ UNCHANGED <<domain_to_fake_ip, loopVars, qsess, qdom, qip, histVars>>
    BY <1>11 DEF PutReverse, HandlersOK, HandlerOK
  <2>2. \A i \in Pool, d \in Domains :
           Trusted /\ qip[h] = i /\ Claims(session, i, d) => d = qdom[h]
    BY <2>1 DEF AllocatorInv, ClaimInv, OneDomainPerIp, Owned, CarriedOwned
  <2>3. \A i \in Pool, d \in Domains :
           Led(i, d) /\ (qip[h] = i => d = qdom[h]) => Led(i, d)'
    BY <2>1 DEF Led
  <2>4. \A i \in Pool, d \in Domains : qip[h] = i /\ qdom[h] = d => Led(i, d)'
    BY <2>1 DEF Led
  <2>5. ~overlapped => Trusted
    BY DEF Trusted
  <2>6. ~overlapped /\ clearing # "reverse" => ForwardLed'
    BY <2>1, <2>2, <2>3, <2>5 DEF Owned, ForwardOwned
  <2>7. ~overlapped /\ clearing # "reverse" => CarriedLed'
    BY <2>1, <2>2, <2>3, <2>4, <2>5 DEF Owned, CarriedOwned
  <2>8. ~overlapped /\ clearing # "reverse" => AnswersLed'
    BY <2>1, <2>2, <2>3, <2>5 DEF AnswersOwned
  <2> QED
    BY <2>1, <2>6, <2>7, <2>8
<1>12. ASSUME NEW h \in Handlers, Answer(h) PROVE LedBack'
  <2>1. LedKept
    BY <1>12 DEF Answer, LedKept, Led
  <2>2. \A a \in answers' : a \in answers \/ a = <<qsess[h], qdom[h], qip[h]>>
    BY <1>12 DEF Answer
  <2> QED
    BY <1>12, <2>1, <2>2 DEF Answer, LedKept
<1> QED
  BY <1>1, <1>2, <1>3, <1>4, <1>5, <1>6, <1>7, <1>8, <1>9, <1>10, <1>11, <1>12
     DEF DnsNext, Handle

(* The invariant is inductive.                                             *)
LEMMA DnsInvStep == DnsInv /\ [DnsNext]_dnsVars => DnsInv'
<1>1. ASSUME DnsInv, DnsNext PROVE DnsInv'
  BY <1>1, AllocatorKept, DnsTypedStep, HandlersStep, SessionsStep, OwnedStep,
     AnswersOwnedStep, LedBackStep DEF DnsInv
<1>2. ASSUME DnsInv, UNCHANGED dnsVars PROVE DnsInv'
  <2> USE <1>2 DEF DnsInv, dnsVars, appVars, loopVars, taskVars, histVars
  <2>1. AllocatorInv' /\ ClaimsKept
    BY AllocatorStep
  <2>2. DnsTyped' /\ SessionsOK'
    BY DEF DnsTyped, SessionsOK, ForwardEmpty, InFlight
  <2>3. HandlersOK'
    BY DEF HandlersOK, HandlerOK, fimVars
  <2>4. Owned' /\ AnswersOwned'
    BY <2>1 DEF Owned, Trusted, ForwardOwned, CarriedOwned, AnswersOwned, ClaimsKept
  <2>5. LedBack'
    BY DEF LedBack, ForwardLed, CarriedLed, AnswersLed, Led
  <2> QED
    BY <2>1, <2>2, <2>3, <2>4, <2>5
<1> QED
  BY <1>1, <1>2

(* It holds in every reachable state.                                      *)
LEMMA DnsInvariant == DnsSpec => []DnsInv
  BY DnsInvInit, DnsInvStep, PTL DEF DnsSpec
-----------------------------------------------------------------------------
(* How many steps a handler has before it at the most.                     *)
StageEnd == [none |-> 0, nxdomain |-> 1, answer |-> 1, put_reverse |-> 2]
HandlerLeft(h) == CASE stage[h] = "check"   -> PoolSize + 8
                    [] stage[h] = "resolve" -> CallLeft(h) + 2
                    [] OTHER                -> StageEnd[stage[h]]

HandlersInRange == \A h \in Handlers : HandlerLeft(h) \in 0 .. (PoolSize + 8)

LEMMA HandlerLeftRange == DnsInv => HandlersInRange
<1> SUFFICES ASSUME DnsInv, NEW h \in Handlers
             PROVE  HandlerLeft(h) \in 0 .. (PoolSize + 8)
  BY DEF HandlersInRange
<1> USE PoolAssumption DEF Handlers
<1>1. CallLeft(h) \in 0 .. (PoolSize + 5)
  BY CallLeftRange DEF DnsInv, AllocatorInv, CallsInRange
<1>2. stage[h] \in Stages
  BY DEF DnsInv, DnsTyped
<1>3. CASE stage[h] \in {"check", "resolve"}
  BY <1>1, <1>3 DEF HandlerLeft
<1>4. CASE stage[h] \notin {"check", "resolve"}
  <2>1. StageEnd[stage[h]] \in 0 .. 2
    BY <1>2, <1>4 DEF StageEnd, Stages
  <2> QED
    BY <1>4, <2>1 DEF HandlerLeft
<1> QED
  BY <1>3, <1>4

LEMMA HandlerLeftRangeNext == DnsInv' => HandlersInRange'
  BY HandlerLeftRange, PTL

LEMMA HandleStep ==
  ASSUME DnsInv, DnsInv', NEW h \in Handlers, Handle(h)
  PROVE  /\ HandlerLeft(h)' < HandlerLeft(h)
         /\ \A g \in Handlers : g # h => HandlerLeft(g)' = HandlerLeft(g)
<1> USE PoolAssumption DEF Handlers
<1>1. /\ CallLeft(h) \in 0 .. (PoolSize + 5)
      /\ InCall(h) \/ Return(h) => /\ CallLeft(h)' < CallLeft(h)
                                   /\ \A g \in Callers : g # h => CallLeft(g)' = CallLeft(g)
  BY CallLeftRange, CallStep DEF DnsInv, AllocatorInv, CallsInRange
<1>2. stage \in [Handlers -> Stages]
  BY DEF DnsInv, DnsTyped
<1>3. CASE AnswerNxdomain(h) \/ CheckHit(h) \/ PutReverse(h) \/ Answer(h)
  <2>1. UNCHANGED <<pc, ip>>
    BY <1>3 DEF AnswerNxdomain, CheckHit, PutReverse, Answer, fimVars
  <2>2. \A g \in Handlers : CallLeft(g)' = CallLeft(g)
    BY <2>1 DEF CallLeft
  <2>3. \A g \in Handlers : g # h => stage'[g] = stage[g]
    BY <1>2, <1>3 DEF AnswerNxdomain, CheckHit, PutReverse, Answer, To, Finish
  <2>4. \/ stage[h] = "check" /\ stage'[h] = "answer"
        \/ stage[h] = "put_reverse" /\ stage'[h] = "answer"
        \/ stage[h] \in {"answer", "nxdomain"} /\ stage'[h] = "none"
    BY <1>2, <1>3 DEF AnswerNxdomain, CheckHit, PutReverse, Answer, To, Finish
  <2>5. HandlerLeft(h)' < HandlerLeft(h)
    BY <2>4 DEF HandlerLeft, StageEnd
  <2> QED
    BY <2>2, <2>3, <2>5 DEF HandlerLeft
<1>4. CASE CheckMiss(h)
  <2>1. stage[h] = "check" /\ stage'[h] = "resolve" /\ pc'[h] = "lookup"
    BY <1>2, <1>4 DEF CheckMiss, Resolve, To, Goto, DnsInv, AllocatorInv, FimTypeOK
  <2>2. \A g \in Handlers : g # h => /\ stage'[g] = stage[g]
                                     /\ pc'[g] = pc[g] /\ ip'[g] = ip[g]
    BY <1>2, <1>4 DEF CheckMiss, Resolve, To, Goto, DnsInv, AllocatorInv, FimTypeOK
  <2>3. HandlerLeft(h)' = PoolSize + 7 /\ HandlerLeft(h) = PoolSize + 8
    BY <2>1 DEF HandlerLeft, CallLeft
  <2> QED
    BY <2>2, <2>3 DEF HandlerLeft, CallLeft
<1>5. CASE Allocator(h)
  <2>1. stage' = stage /\ stage[h] = "resolve" /\ InCall(h)
    BY <1>5 DEF Allocator, taskVars
  <2>2. CallLeft(h)' \in 0 .. (PoolSize + 5)
    BY CallLeftRangeNext DEF DnsInv, AllocatorInv, CallsInRange
  <2> QED
    BY <1>1, <2>1, <2>2 DEF HandlerLeft
<1>6. CASE PutForward(h) \/ GiveUp(h)
  <2>1. /\ stage[h] = "resolve" /\ stage'[h] \in {"put_reverse", "none"}
        /\ pc[h] \in {"done", "failed"} /\ Return(h)
        /\ \A g \in Handlers : g # h => stage'[g] = stage[g]
    BY <1>2, <1>6 DEF PutForward, GiveUp, To, Finish
  <2>2. HandlerLeft(h)' \in 0 .. 2 /\ HandlerLeft(h) = 3
    BY <2>1 DEF HandlerLeft, StageEnd, CallLeft, CallEnd
  <2> QED
    BY <1>1, <2>1, <2>2 DEF HandlerLeft
<1> QED
  BY <1>3, <1>4, <1>5, <1>6 DEF Handle

(* A handler that was spawned is only brought nearer to its end, by its own *)
(* steps and by nobody else: at the most PoolSize + 8 of them after its     *)
(* query came in it is over, whatever other handlers, the receive loop and  *)
(* a disconnect do.                                                        *)
THEOREM HandlersOnlyAdvance ==
  DnsSpec => [][\A h \in Handlers :
                   /\ stage[h] # "none" => HandlerLeft(h)' \in 0 .. HandlerLeft(h)
                   /\ Handle(h) => HandlerLeft(h)' < HandlerLeft(h)
                   /\ HandlerLeft(h) <= PoolSize + 8]_dnsVars
<1> DEFINE Advance(h) == /\ stage[h] # "none" => HandlerLeft(h)' \in 0 .. HandlerLeft(h)
                         /\ Handle(h) => HandlerLeft(h)' < HandlerLeft(h)
                         /\ HandlerLeft(h) <= PoolSize + 8
<1>1. ASSUME DnsInv, DnsInv', DnsNext, NEW h \in Handlers PROVE Advance(h)
  <2>1. HandlerLeft(h) \in 0 .. (PoolSize + 8)
    BY <1>1, HandlerLeftRange DEF HandlersInRange
  <2>2. HandlerLeft(h)' \in 0 .. (PoolSize + 8)
    BY <1>1, HandlerLeftRangeNext DEF HandlersInRange
  <2>3. Handle(h) => HandlerLeft(h)' < HandlerLeft(h)
    BY <1>1, HandleStep
  <2>4. ASSUME stage[h] # "none" PROVE HandlerLeft(h)' <= HandlerLeft(h)
    <3>1. CASE \E g \in Handlers : Handle(g)
      BY <1>1, <2>1, <2>2, <3>1, HandleStep, PoolAssumption
    <3>2. ASSUME ~ \E g \in Handlers : Handle(g)
          PROVE  stage'[h] = stage[h] /\ UNCHANGED <<pc, ip>>
      BY <1>1, <2>4, <3>2
         DEF DnsNext, Bind, AbortLoop, ClearForward, ClearReverse, RecvOther, Recv, To,
             fimVars, taskVars, DnsInv, DnsTyped
    <3>3. CASE ~ \E g \in Handlers : Handle(g)
      <4>1. HandlerLeft(h)' = HandlerLeft(h)
        BY <3>2, <3>3 DEF HandlerLeft, CallLeft
      <4> QED
        BY <2>1, <4>1, PoolAssumption
    <3> QED
      BY <3>1, <3>3
  <2> QED
    BY <2>1, <2>2, <2>3, <2>4, PoolAssumption
<1>2. DnsInv /\ DnsInv' /\ [DnsNext]_dnsVars => [\A h \in Handlers : Advance(h)]_dnsVars
  BY <1>1
<1> QED
  BY <1>2, DnsInvariant, PTL DEF DnsSpec
-----------------------------------------------------------------------------
(* A DNS proxy uses its allocators as FakeIpManager lets callers use them. *)
THEOREM UsesAllocator == DnsSpec => FimSpec
<1>1. DnsInit => FimInit
  BY DEF DnsInit
<1>2. DnsInv /\ [DnsNext]_dnsVars => [FimNext]_fimVars
  <2>1. DnsInv /\ DnsNext => [FimNext]_fimVars
    BY AllocatorSteps DEF DnsInv, DnsTyped
  <2>2. UNCHANGED dnsVars => UNCHANGED fimVars
    BY DEF dnsVars
  <2> QED
    BY <2>1, <2>2
<1> QED
  BY <1>1, <1>2, DnsInvariant, PTL DEF DnsSpec, FimSpec

(* An address leads to one domain, in the allocator's tables and in every  *)
(* result, however the handlers of a session overlap.                      *)
THEOREM SessionOneDomain == DnsSpec => []OneDomainPerIp
  BY UsesAllocator, OneDomain, NeverReleased, PTL

(* A handler is refused an address only when the session's pool is full.   *)
THEOREM SessionExhaustionIsReal == DnsSpec => ExhaustedOnlyWhenFull
  BY UsesAllocator, ExhaustionIsReal, NeverReleased, PTL

(* The clients of a session are never told one address for two names, in   *)
(* any session, if clear_cache always had the tables to itself.            *)
THEOREM AnswersStayExclusive == DnsSpec => []AnswersExclusive
<1>1. DnsInv => AnswersExclusive
  <2> SUFFICES ASSUME DnsInv, ~overlapped, NEW a \in answers, NEW b \in answers,
                      a[1] = b[1], a[3] = b[3]
               PROVE  a[2] = b[2]
    BY DEF AnswersExclusive
  <2>1. a[1] \in Managers /\ a[3] \in Pool /\ a[2] \in Domains /\ b[2] \in Domains
    BY DEF DnsInv, DnsTyped
  <2>2. Claims(a[1], a[3], a[2]) /\ Claims(a[1], a[3], b[2])
    BY <2>1 DEF DnsInv, AnswersOwned
  <2> QED
    BY <2>1, <2>2 DEF DnsInv, AllocatorInv, ClaimInv, OneDomainPerIp
<1> QED
  BY <1>1, DnsInvariant, PTL

(* When no handler is at work every answer of the running session leads    *)
(* back through the reverse table to the name that was asked for.          *)
THEOREM AnswersAlwaysLeadBack == DnsSpec => []AnswersLeadBack
<1>1. DnsInv => AnswersLeadBack
  <2> SUFFICES ASSUME DnsInv, listening, InFlight = {}, ~overlapped,
                      NEW a \in answers, a[1] = session
               PROVE  fake_ip_to_domain[a[3]] = a[2]
    BY DEF AnswersLeadBack
  <2>1. Led(a[3], a[2])
    BY DEF DnsInv, DnsTyped, SessionsOK, LedBack, AnswersLed
  <2> QED
    BY <2>1 DEF Led, InFlight
<1> QED
  BY <1>1, DnsInvariant, PTL

(* With the handlers done, the forward table sends no query to an address  *)
(* whose reverse entry is missing or another name's.                       *)
THEOREM TablesStayPaired == DnsSpec => []TablesPaired
<1>1. DnsInv => TablesPaired
  <2> SUFFICES ASSUME DnsInv, InFlight = {}, clearing = "no", ~overlapped,
                      NEW d \in Domains, domain_to_fake_ip[d] # NoIp
               PROVE  fake_ip_to_domain[domain_to_fake_ip[d]] = d
    BY DEF TablesPaired
  <2>1. domain_to_fake_ip[d] \in Pool
    BY DEF DnsInv, DnsTyped
  <2>2. Led(domain_to_fake_ip[d], d)
    BY <2>1 DEF DnsInv, LedBack, ForwardLed
  <2> QED
    BY <2>2 DEF Led, InFlight
<1> QED
  BY <1>1, DnsInvariant, PTL
-----------------------------------------------------------------------------
(* The refinement: an address is owned by the one name that claims it.     *)
OwnerReads ==
    \A m \in Managers, i \in Pool :
       /\ \A d \in Domains : Claims(m, i, d) <=> OwnerIn(m)[i] = d
       /\ OwnerIn(m)[i] = NoDomain <=> \A d \in Domains : ~Claims(m, i, d)

(* An address with a claim is owned by the claimant, any other by nobody.  *)
LEMMA OwnerIsClaimant == OneDomainPerIp => OwnerReads
<1> SUFFICES ASSUME OneDomainPerIp, NEW m \in Managers, NEW i \in Pool
             PROVE  /\ \A d \in Domains : Claims(m, i, d) <=> OwnerIn(m)[i] = d
                    /\ OwnerIn(m)[i] = NoDomain <=> \A d \in Domains : ~Claims(m, i, d)
  BY DEF OwnerReads
<1>1. CASE \E e \in Domains : Claims(m, i, e)
  <2>1. PICK e \in Domains : Claims(m, i, e)
    BY <1>1
  <2>2. \A f \in Domains : Claims(m, i, f) <=> f = e
    BY <2>1 DEF OneDomainPerIp
  <2>3. OwnerIn(m)[i] = e
    BY <2>2 DEF OwnerIn
  <2> QED
    BY <2>2, <2>3, NoDomainAssumption
<1>2. CASE \A e \in Domains : ~Claims(m, i, e)
  BY <1>2, NoDomainAssumption DEF OwnerIn
<1> QED
  BY <1>1, <1>2

(* The same after a step.                                                  *)
LEMMA OwnerIsClaimantNext == OneDomainPerIp' => OwnerReads'
  BY OwnerIsClaimant, PTL

(* The owners of two states are functions on the pool.                     *)
LEMMA OwnersAgree ==
  ASSUME NEW m \in Managers
  PROVE  /\ OwnerIn(m) = [i \in Pool |-> OwnerIn(m)[i]]
         /\ OwnerIn(m)' = [i \in Pool |-> OwnerIn(m)'[i]]
  BY DEF OwnerIn

(* A step without a new claim changes no owner,                            *)
LEMMA OwnersKept ==
  ASSUME DnsInv, DnsNext, NoNewClaim, NEW m \in Managers
  PROVE  OwnerIn(m)' = OwnerIn(m)
<1>1. OwnerReads /\ OwnerReads'
  BY AllocatorKept, OwnerIsClaimant, OwnerIsClaimantNext
     DEF DnsInv, AllocatorInv, ClaimInv
<1>2. \A i \in Pool, d \in Domains : Claims(m, i, d)' <=> Claims(m, i, d)
  BY AllocatorKept DEF NoNewClaim, ClaimsKept
<1>3. \A i \in Pool : OwnerIn(m)'[i] = OwnerIn(m)[i]
  BY <1>1, <1>2 DEF OwnerReads
<1> QED
  BY <1>3, OwnersAgree

(* and one with a new claim makes its name the owner of a free address.    *)
LEMMA OwnersAssigned ==
  ASSUME DnsInv, DnsNext, NEW t \in Callers, ScanFree(t), Adds(t), NEW m \in Managers
  PROVE  IF m = mgr[t]
         THEN /\ OwnerIn(m)[ip[t]] = NoDomain
              /\ OwnerIn(m)' = [OwnerIn(m) EXCEPT ![ip[t]] = dom[t]]
         ELSE OwnerIn(m)' = OwnerIn(m)
<1>1. OwnerReads /\ OwnerReads'
  BY AllocatorKept, OwnerIsClaimant, OwnerIsClaimantNext
     DEF DnsInv, AllocatorInv, ClaimInv
<1>2. ip[t] \in Pool /\ dom[t] \in Domains /\ ip[t] \notin used_ips[mgr[t]]
  BY DEF ScanFree, DnsInv, AllocatorInv, FimTypeOK
<1>3. \A i \in Pool, d \in Domains :
         Claims(m, i, d)' <=> \/ Claims(m, i, d)
                              \/ m = mgr[t] /\ i = ip[t] /\ d = dom[t]
  BY DEF Adds
<1>4. ASSUME NEW i \in Pool, i # ip[t] \/ m # mgr[t]
      PROVE  OwnerIn(m)'[i] = OwnerIn(m)[i]
  <2>1. \A d \in Domains : Claims(m, i, d)' <=> Claims(m, i, d)
    BY <1>3, <1>4
  <2> QED
    BY <1>1, <2>1 DEF OwnerReads
<1>5. m = mgr[t] => OwnerIn(m)[ip[t]] = NoDomain
  BY <1>1, <1>2 DEF OwnerReads, DnsInv, AllocatorInv, ClaimInv, ClaimedIsUsed
<1>6. ASSUME NEW i \in Pool, NEW d \in Domains, m = mgr[t], i = ip[t], d = dom[t]
      PROVE  OwnerIn(m)'[i] = d
  <2>1. Claims(m, i, d)'
    BY <1>3, <1>6
  <2> QED
    BY <1>1, <2>1 DEF OwnerReads
<1> QED
  BY <1>2, <1>4, <1>5, <1>6, OwnersAgree

(* The first session of DnsProxy implements FakeNames: a step of the        *)
(* allocator that reserves an address assigns it, an answer tells a name    *)
(* an address it owns, and every other step leaves both alone.              *)
THEOREM FirstSessionKeepsItsPromise == DnsSpec => ImplementsFakeNames
<1>0. 1 \in Managers
  BY SessionsAssumption
<1>1. DnsInit => FirstSession!NamesInit
  <2> SUFFICES ASSUME DnsInit PROVE FirstSession!NamesInit
    OBVIOUS
  <2>1. \A i \in Pool, d \in Domains : ~Claims(1, i, d)
    BY <1>0, PoolAssumption, NoDomainAssumption
       DEF DnsInit, FimInit, Claims, Pool, NoIp
  <2>2. OwnerIn(1) = [i \in Pool |-> NoDomain]
    BY <2>1 DEF OwnerIn
  <2>3. ToldIn(1) = {}
    BY DEF ToldIn, DnsInit
  <2> QED
    BY <2>2, <2>3 DEF FirstSession!NamesInit
<1>2. DnsInv /\ [DnsNext]_dnsVars => [FirstSession!NamesNext]_(FirstSession!namesVars)
  <2> SUFFICES ASSUME DnsInv, [DnsNext]_dnsVars
               PROVE  [FirstSession!NamesNext]_(FirstSession!namesVars)
    OBVIOUS
  <2>1. ASSUME NEW h \in Handlers, Answer(h)
        PROVE  [FirstSession!NamesNext]_(FirstSession!namesVars)
    <3>1. OwnerIn(1)' = OwnerIn(1)
      BY <2>1 DEF Answer, fimVars, OwnerIn, Claims
    <3>2. CASE qsess[h] = 1
      <4>1. qdom[h] \in Domains /\ qip[h] \in Pool /\ session = 1
        BY <2>1, <3>2 DEF Answer, DnsInv, DnsTyped, HandlersOK, HandlerOK, Stages
      <4>2. Claims(1, qip[h], qdom[h])
        BY <1>0, <2>1, <4>1 DEF Answer, DnsInv, Owned, Trusted, CarriedOwned
      <4>3. OwnerIn(1)[qip[h]] = qdom[h]
        BY <1>0, <4>1, <4>2, OwnerIsClaimant
           DEF OwnerReads, DnsInv, AllocatorInv, ClaimInv
      <4>4. ToldIn(1)' = ToldIn(1) \cup {<<qdom[h], qip[h]>>}
        <5> DEFINE new == <<qsess[h], qdom[h], qip[h]>>
        <5>1. answers' = answers \cup {new}
          BY <2>1 DEF Answer
        <5>2. new[1] = 1 /\ new[2] = qdom[h] /\ new[3] = qip[h]
          BY <3>2
        <5> HIDE DEF new
        <5>3. {b \in answers' : b[1] = 1} = {b \in answers : b[1] = 1} \cup {new}
          BY <5>1, <5>2
        <5> QED
          BY <5>2, <5>3 DEF ToldIn
      <4> QED
        BY <3>1, <4>1, <4>3, <4>4 DEF FirstSession!NamesNext, FirstSession!Tell
    <3>3. CASE qsess[h] # 1
      <4>1. ToldIn(1)' = ToldIn(1)
        BY <2>1, <3>3 DEF Answer, ToldIn
      <4> QED
        BY <3>1, <4>1 DEF FirstSession!namesVars
    <3> QED
      BY <3>2, <3>3
  <2>2. ASSUME DnsNext, UNCHANGED answers
        PROVE  [FirstSession!NamesNext]_(FirstSession!namesVars)
    <3>1. ToldIn(1)' = ToldIn(1)
      BY <2>2 DEF ToldIn
    <3>2. CASE NoNewClaim
      BY <1>0, <2>2, <3>1, <3>2, OwnersKept DEF FirstSession!namesVars
    <3>3. ASSUME NEW t \in Callers, ScanFree(t), Adds(t)
          PROVE  [FirstSession!NamesNext]_(FirstSession!namesVars)
      <4>1. ip[t] \in Pool /\ dom[t] \in Domains
        BY <3>3 DEF ScanFree, DnsInv, AllocatorInv, FimTypeOK
      <4> QED
        BY <1>0, <2>2, <3>1, <3>3, <4>1, OwnersAssigned
           DEF FirstSession!NamesNext, FirstSession!Assign, FirstSession!namesVars
    <3> QED
      BY <2>2, <3>2, <3>3, ClaimsStep, AllocatorSteps DEF DnsInv, DnsTyped
  <2>3. CASE UNCHANGED dnsVars
    BY <2>3 DEF dnsVars, fimVars, histVars, OwnerIn, Claims, ToldIn,
                FirstSession!namesVars
  <2>4. DnsNext => (\E h \in Handlers : Answer(h)) \/ UNCHANGED answers
    BY DEF DnsNext, Bind, AbortLoop, ClearForward, ClearReverse, RecvOther, Handle,
           AnswerNxdomain, CheckHit, CheckMiss, Allocator, PutForward, GiveUp,
           PutReverse, Recv, histVars
  <2> QED
    BY <2>1, <2>2, <2>3, <2>4
<1> QED
  BY <1>1, <1>2, DnsInvariant, PTL
     DEF DnsSpec, ImplementsFakeNames, FirstSession!NamesSpec
=============================================================================
