---------------------------- MODULE FakeIpManager ----------------------------
(***************************************************************************)
(* The FakeIP allocator of src/src/network/dns.rs (struct FakeIpManager).  *)
(* A manager hands a domain an address of the pool 198.18.0.0/16 and keeps *)
(* two DashMaps and a DashSet.  Its methods take &self, so any number of   *)
(* tasks run them at once; what is atomic is one operation on one map.     *)
(* Every action below is exactly one such operation, with the local        *)
(* computation up to the next one.                                         *)
(*                                                                         *)
(* An address is its offset in the pool.  A DashMap is a total function    *)
(* whose absent keys map to NoIp or NoDomain.                              *)
(***************************************************************************)
EXTENDS Integers

CONSTANTS
    Managers,   \* the FakeIpManager objects alive (one per VPN session)
    Callers,    \* the tasks that call them
    Releasers,  \* the callers that also call release_ip; {} in the program
    Domains,    \* the names asked for
    NoDomain,   \* the absent value of ip_to_domain
    PoolSize    \* number of addresses of the pool; 65536 in the program

ASSUME PoolAssumption     == PoolSize \in Nat \ {0}
ASSUME NoDomainAssumption == NoDomain \notin Domains
ASSUME NonEmptyAssumption == Managers # {} /\ Domains # {}
ASSUME ReleaserAssumption == Releasers \subseteq Callers

VARIABLES
    used_ips,       \* used_ips[m]: the DashSet of addresses handed out
    domain_to_ip,   \* domain_to_ip[m][d]
    ip_to_domain,   \* ip_to_domain[m][i]
    pc,             \* pc[t]: where caller t is in the method it runs
    mgr,            \* mgr[t]: the manager it runs it on
    dom,            \* dom[t]: the method's domain argument
    ip              \* ip[t]: the scan position, then the address it holds

managerVars == <<used_ips, domain_to_ip, ip_to_domain>>
callerVars  == <<pc, mgr, dom, ip>>
fimVars     == <<used_ips, domain_to_ip, ip_to_domain, pc, mgr, dom, ip>>

Pool == 0 .. PoolSize - 1
NoIp == PoolSize

Calls == {"idle",                                    \* not in a method
          "lookup", "scan", "put_domain", "put_ip",  \* resolve_to_fake_ip
          "done", "failed",                          \* its Ok and Err results
          "drop_ip", "drop_used"}                    \* release_ip

FimTypeOK ==
    /\ used_ips     \in [Managers -> SUBSET Pool]
    /\ domain_to_ip \in [Managers -> [Domains -> Pool \cup {NoIp}]]
    /\ ip_to_domain \in [Managers -> [Pool -> Domains \cup {NoDomain}]]
    /\ pc  \in [Callers -> Calls]
    /\ mgr \in [Callers -> Managers]
    /\ dom \in [Callers -> Domains]
    /\ ip  \in [Callers -> Pool \cup {NoIp}]
    /\ \A t \in Callers :
          pc[t] \in {"put_domain", "put_ip", "done", "drop_ip", "drop_used"}
             => ip[t] \in Pool

(* The locals of a caller that has not called yet: any values. *)
AnyManager == CHOOSE m \in Managers : TRUE
AnyDomain  == CHOOSE d \in Domains : TRUE

(* FakeIpManager::new *)
FimInit ==
    /\ used_ips     = [m \in Managers |-> {}]
    /\ domain_to_ip = [m \in Managers |-> [d \in Domains |-> NoIp]]
    /\ ip_to_domain = [m \in Managers |-> [i \in Pool |-> NoDomain]]
    /\ pc  = [t \in Callers |-> "idle"]
    /\ mgr = [t \in Callers |-> AnyManager]
    /\ dom = [t \in Callers |-> AnyDomain]
    /\ ip  = [t \in Callers |-> NoIp]

Goto(t, to) == pc' = [pc EXCEPT ![t] = to]

(* The method is left: its locals are gone. *)
Leave(t) ==
    /\ Goto(t, "idle")
    /\ mgr' = [mgr EXCEPT ![t] = AnyManager]
    /\ dom' = [dom EXCEPT ![t] = AnyDomain]
    /\ ip'  = [ip EXCEPT ![t] = NoIp]

-----------------------------------------------------------------------------
(* resolve_to_fake_ip *)

Resolve(t, m, d) ==
    /\ pc[t] = "idle"
    /\ Goto(t, "lookup")
    /\ mgr' = [mgr EXCEPT ![t] = m]
    /\ dom' = [dom EXCEPT ![t] = d]
    /\ ip'  = [ip EXCEPT ![t] = NoIp]
    /\ UNCHANGED managerVars

(* if let Some(ip) = self.domain_to_ip.get(domain) { return Ok(..) } *)
LookupHit(t) ==
    /\ pc[t] = "lookup"
    /\ domain_to_ip[mgr[t]][dom[t]] # NoIp
    /\ ip' = [ip EXCEPT ![t] = domain_to_ip[mgr[t]][dom[t]]]
    /\ Goto(t, "done")
    /\ UNCHANGED <<used_ips, domain_to_ip, ip_to_domain, mgr, dom>>

(* ... else allocate_ip starts at the head of the pool. *)
LookupMiss(t) ==
    /\ pc[t] = "lookup"
    /\ domain_to_ip[mgr[t]][dom[t]] = NoIp
    /\ ip' = [ip EXCEPT ![t] = 0]
    /\ Goto(t, "scan")
    /\ UNCHANGED <<used_ips, domain_to_ip, ip_to_domain, mgr, dom>>

(* Mutant of ScanTaken: `current += 1` is missing. *)
ScanTaken_NoAdvance(t) ==
    /\ pc[t] = "scan"
    /\ ip[t] \in used_ips[mgr[t]]
    /\ UNCHANGED fimVars

(* allocate_ip: used_ips.insert returns false, try the next address. *)
ScanTaken(t) ==
    /\ pc[t] = "scan"
    /\ ip[t] \in used_ips[mgr[t]]
    /\ ip' = [ip EXCEPT ![t] = @ + 1]
    /\ UNCHANGED <<used_ips, domain_to_ip, ip_to_domain, pc, mgr, dom>>

(* Mutant of ScanFree: the answer of used_ips.insert is not looked at. *)
ScanFree_Unchecked(t) ==
    /\ pc[t] = "scan"
    /\ ip[t] \in Pool
    /\ used_ips' = [used_ips EXCEPT ![mgr[t]] = @ \cup {ip[t]}]
    /\ Goto(t, "put_domain")
    /\ UNCHANGED <<domain_to_ip, ip_to_domain, mgr, dom, ip>>

(* allocate_ip: used_ips.insert returns true. *)
ScanFree(t) ==
    /\ pc[t] = "scan"
    /\ ip[t] \in Pool
    /\ ip[t] \notin used_ips[mgr[t]]
    /\ used_ips' = [used_ips EXCEPT ![mgr[t]] = @ \cup {ip[t]}]
    /\ Goto(t, "put_domain")
    /\ UNCHANGED <<domain_to_ip, ip_to_domain, mgr, dom, ip>>

(* Mutant of ScanEnd: `current < end` instead of `current <= end`. *)
ScanEnd_Early(t) ==
    /\ pc[t] = "scan"
    /\ ip[t] = NoIp - 1
    /\ Goto(t, "failed")
    /\ UNCHANGED <<used_ips, domain_to_ip, ip_to_domain, mgr, dom, ip>>

(* allocate_ip: the position passed ip_pool_end, "IP pool exhausted". *)
ScanEnd(t) ==
    /\ pc[t] = "scan"
    /\ ip[t] = NoIp
    /\ Goto(t, "failed")
    /\ UNCHANGED <<used_ips, domain_to_ip, ip_to_domain, mgr, dom, ip>>

PutDomain(t) ==
    /\ pc[t] = "put_domain"
    /\ domain_to_ip' = [domain_to_ip EXCEPT ![mgr[t]] =
                          [@ EXCEPT ![dom[t]] = ip[t]]]
    /\ Goto(t, "put_ip")
    /\ UNCHANGED <<used_ips, ip_to_domain, mgr, dom, ip>>

PutIp(t) ==
    /\ pc[t] = "put_ip"
    /\ ip_to_domain' = [ip_to_domain EXCEPT ![mgr[t]] =
                          [@ EXCEPT ![ip[t]] = dom[t]]]
    /\ Goto(t, "done")
    /\ UNCHANGED <<used_ips, domain_to_ip, mgr, dom, ip>>

(* The method has returned and its caller has gone on. *)
Return(t) ==
    /\ pc[t] \in {"done", "failed"}
    /\ Leave(t)
    /\ UNCHANGED managerVars

-----------------------------------------------------------------------------
(* release_ip: three removals, the first of which decides who does it. *)

(* Mutant of Release: the domain's entry is read, not removed. *)
Release_KeepsEntry(t, m, d) ==
    /\ t \in Releasers
    /\ pc[t] = "idle"
    /\ domain_to_ip[m][d] # NoIp
    /\ mgr' = [mgr EXCEPT ![t] = m]
    /\ dom' = [dom EXCEPT ![t] = d]
    /\ ip'  = [ip EXCEPT ![t] = domain_to_ip[m][d]]
    /\ Goto(t, "drop_ip")
    /\ UNCHANGED managerVars

Release(t, m, d) ==
    /\ t \in Releasers
    /\ pc[t] = "idle"
    /\ domain_to_ip[m][d] # NoIp
    /\ domain_to_ip' = [domain_to_ip EXCEPT ![m] = [@ EXCEPT ![d] = NoIp]]
    /\ mgr' = [mgr EXCEPT ![t] = m]
    /\ dom' = [dom EXCEPT ![t] = d]
    /\ ip'  = [ip EXCEPT ![t] = domain_to_ip[m][d]]
    /\ Goto(t, "drop_ip")
    /\ UNCHANGED <<used_ips, ip_to_domain>>

DropIp(t) ==
    /\ pc[t] = "drop_ip"
    /\ ip_to_domain' = [ip_to_domain EXCEPT ![mgr[t]] =
                          [@ EXCEPT ![ip[t]] = NoDomain]]
    /\ Goto(t, "drop_used")
    /\ UNCHANGED <<used_ips, domain_to_ip, mgr, dom, ip>>

DropUsed(t) ==
    /\ pc[t] = "drop_used"
    /\ used_ips' = [used_ips EXCEPT ![mgr[t]] = @ \ {ip[t]}]
    /\ Leave(t)
    /\ UNCHANGED <<domain_to_ip, ip_to_domain>>

-----------------------------------------------------------------------------
(* The steps of a method that has been called. *)
InCall(t) ==
    \/ LookupHit(t)
    \/ LookupMiss(t)
    \/ ScanTaken(t)
    \/ ScanFree(t)
    \/ ScanEnd(t)
    \/ PutDomain(t)
    \/ PutIp(t)
    \/ DropIp(t)
    \/ DropUsed(t)

FimNext ==
    \E t \in Callers :
       \/ InCall(t)
       \/ Return(t)
       \/ \E m \in Managers, d \in Domains : Resolve(t, m, d) \/ Release(t, m, d)

FimSpec == FimInit /\ [][FimNext]_fimVars

-----------------------------------------------------------------------------
(* Properties *)

(* Who answers for an address of m: the task that took it and has not yet  *)
(* recorded it, the task that is releasing it, the domain it is bound to.  *)
Taking(t)    == pc[t] = "put_domain"
Releasing(t) == pc[t] \in {"drop_ip", "drop_used"}
Holding(t)   == Taking(t) \/ Releasing(t)

(* No address is bound to two domains, whatever resolve_to_fake_ip and     *)
(* release_ip calls overlap.  The code never checks this: it rests on      *)
(* used_ips.insert deciding allocation and domain_to_ip.remove deciding    *)
(* release, though the two tables change one at a time.                    *)
BoundOnce ==
    \A m \in Managers : \A d, e \in Domains :
       (domain_to_ip[m][d] # NoIp /\ domain_to_ip[m][d] = domain_to_ip[m][e])
          => d = e

(* An address that some task is about to bind, or is taking out of the     *)
(* tables, is reserved in used_ips and in no other task's hands: a release *)
(* can not free an address that was handed out again in the meantime.      *)
HeldOnce ==
    \A t \in Callers : Holding(t) =>
       /\ ip[t] \in used_ips[mgr[t]]
       /\ \A d \in Domains : domain_to_ip[mgr[t]][d] # ip[t]
       /\ \A u \in Callers :
             (Holding(u) /\ mgr[u] = mgr[t] /\ ip[u] = ip[t]) => u = t

(* Every bound address is reserved. *)
BoundIsUsed ==
    \A m \in Managers : \A d \in Domains :
       domain_to_ip[m][d] # NoIp => domain_to_ip[m][d] \in used_ips[m]

(* The set of used addresses never falls behind the tables: a bound address *)
(* is reserved, and an address between two table operations is held by the  *)
(* one task that takes it or releases it.                                   *)
TablesAgree == BoundIsUsed /\ HeldOnce

(* Address i of m is claimed for domain d by the forward table, by the     *)
(* reverse table, or by a result on its way to a caller.                   *)
Claims(m, i, d) ==
    \/ domain_to_ip[m][d] = i
    \/ ip_to_domain[m][i] = d
    \/ \E t \in Callers : /\ pc[t] \in {"put_domain", "put_ip", "done"}
                          /\ mgr[t] = m /\ ip[t] = i /\ dom[t] = d

(* With no release_ip in flight (the program never calls it) an address    *)
(* means one domain, for tables and callers alike: however handlers        *)
(* overlap, no caller is given an address that leads back to another name. *)
OneDomainPerIp ==
    \A m \in Managers, i \in Pool : \A d, e \in Domains :
       (Claims(m, i, d) /\ Claims(m, i, e)) => d = e

(* A reverse entry, once written, is never redirected or lost: a client    *)
(* may keep using the address it was given.                                *)
ReverseStable ==
    [][\A m \in Managers, i \in Pool :
          ip_to_domain[m][i] # NoDomain
             => ip_to_domain'[m][i] = ip_to_domain[m][i]]_fimVars

(* "IP pool exhausted" is reported only when every address is taken, also  *)
(* when other tasks take addresses while this one scans (no release_ip).   *)
ExhaustedOnlyWhenFull ==
    [][\A t \in Callers : ScanEnd(t) => used_ips[mgr[t]] = Pool]_fimVars

(* A lookup always returns: the scan cannot be kept running by other tasks *)
(* that take addresses in front of it.                                     *)
CallReturns == \A t \in Callers : pc[t] = "lookup" ~> pc[t] = "idle"
=============================================================================
