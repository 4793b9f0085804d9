------------------------------ MODULE DnsProxy ------------------------------
(***************************************************************************)
(* The DNS interceptor: DnsProxy of src/src/network/dns.rs with the two    *)
(* FakeIP tables it keeps in AppState (src/src/state.rs), over successive  *)
(* VPN sessions.                                                           *)
(*                                                                         *)
(* The receive loop spawns a task per query (Recv) and never waits for it: *)
(* disconnecting aborts the loop, not the handlers.  A handler runs        *)
(* handle_dns_query, which touches four DashMaps one operation at a time.  *)
(* Each session has an allocator of its own (DnsProxy::new), while the     *)
(* tables outlive it and are emptied by clear_cache.                       *)
(*                                                                         *)
(* DashMap::clear empties one shard after the other.  It is one step here: *)
(* every insertion is before or after the emptying of its own shard.       *)
(***************************************************************************)
EXTENDS FakeIpManager, FiniteSets

CONSTANTS
    MaxSessions   \* bound on the number of sessions

ASSUME SessionsAssumption == MaxSessions \in Nat \ {0} /\ Managers = 1 .. MaxSessions
ASSUME ProgramUse         == Releasers = {}

VARIABLES
    domain_to_fake_ip,  \* AppState.domain_to_fake_ip
    fake_ip_to_domain,  \* AppState.fake_ip_to_domain
    session,            \* number of the last session, 0 before the first
    listening,          \* the receive loop of that session runs
    clearing,           \* how far a disconnect is from the end of clear_cache
    stage,              \* stage[h]: where handler task h is
    qsess,              \* qsess[h]: the session whose loop spawned h
    qdom,               \* qdom[h]: the name asked for
    qip,                \* qip[h]: fake_ip, once known
    answers,            \* history: the A answers sent, <<session, name, ip>>
    overlapped          \* history: a clear_cache overlapped other activity

appVars  == <<domain_to_fake_ip, fake_ip_to_domain>>
loopVars == <<session, listening, clearing>>
taskVars == <<stage, qsess, qdom, qip>>
histVars == <<answers, overlapped>>
dnsVars  == <<fimVars, appVars, loopVars, taskVars, histVars>>

Handlers == Callers
Stages   == {"none", "check", "resolve", "put_reverse", "answer", "nxdomain"}
InFlight == {h \in Handlers : stage[h] # "none"}

DnsInit ==
    /\ FimInit
    /\ domain_to_fake_ip = [d \in Domains |-> NoIp]
    /\ fake_ip_to_domain = [i \in Pool |-> NoDomain]
    /\ session    = 0
    /\ listening  = FALSE
    /\ clearing   = "no"
    /\ stage      = [h \in Handlers |-> "none"]
    /\ qsess      = [h \in Handlers |-> AnyManager]
    /\ qdom       = [h \in Handlers |-> AnyDomain]
    /\ qip        = [h \in Handlers |-> NoIp]
    /\ answers    = {}
    /\ overlapped = FALSE

To(h, s) == stage' = [stage EXCEPT ![h] = s]

(* The handler task is over: its locals are gone. *)
Finish(h) ==
    /\ To(h, "none")
    /\ qsess' = [qsess EXCEPT ![h] = AnyManager]
    /\ qdom'  = [qdom EXCEPT ![h] = AnyDomain]
    /\ qip'   = [qip EXCEPT ![h] = NoIp]

-----------------------------------------------------------------------------
(* DnsProxy::run.  A handler keeps the socket open (socket_clone), so the  *)
(* port can be bound again only when those of the last session are gone.   *)
Bind ==
    /\ ~listening
    /\ session < MaxSessions
    /\ InFlight = {}
    /\ session'    = session + 1
    /\ listening'  = TRUE
    /\ overlapped' = (overlapped \/ clearing # "no")
    /\ UNCHANGED <<fimVars, appVars, clearing, taskVars, answers>>

Recv(h, d) ==
    /\ listening
    /\ stage[h] = "none"
    /\ To(h, "check")
    /\ qsess' = [qsess EXCEPT ![h] = session]
    /\ qdom'  = [qdom EXCEPT ![h] = d]
    /\ UNCHANGED <<fimVars, appVars, loopVars, qip, histVars>>

(* A query of another type than A is answered without any table. *)
RecvOther(h) ==
    /\ listening
    /\ stage[h] = "none"
    /\ To(h, "nxdomain")
    /\ UNCHANGED <<fimVars, appVars, loopVars, qsess, qdom, qip, histVars>>

AnswerNxdomain(h) ==
    /\ stage[h] = "nxdomain"
    /\ Finish(h)
    /\ UNCHANGED <<fimVars, appVars, loopVars, histVars>>

-----------------------------------------------------------------------------
(* handle_dns_query *)

CheckHit(h) ==
    /\ stage[h] = "check"
    /\ domain_to_fake_ip[qdom[h]] # NoIp
    /\ qip' = [qip EXCEPT ![h] = domain_to_fake_ip[qdom[h]]]
    /\ To(h, "answer")
    /\ UNCHANGED <<fimVars, appVars, loopVars, qsess, qdom, histVars>>

CheckMiss(h) ==
    /\ stage[h] = "check"
    /\ domain_to_fake_ip[qdom[h]] = NoIp
    /\ Resolve(h, qsess[h], qdom[h])
    /\ To(h, "resolve")
    /\ UNCHANGED <<appVars, loopVars, qsess, qdom, qip, histVars>>

Allocator(h) ==
    /\ stage[h] = "resolve"
    /\ InCall(h)
    /\ UNCHANGED <<appVars, loopVars, taskVars, histVars>>

PutForward(h) ==
    /\ stage[h] = "resolve"
    /\ pc[h] = "done"
    /\ Return(h)
    /\ qip' = [qip EXCEPT ![h] = ip[h]]
    /\ domain_to_fake_ip' = [domain_to_fake_ip EXCEPT ![qdom[h]] = ip[h]]
    /\ To(h, "put_reverse")
    /\ UNCHANGED <<fake_ip_to_domain, loopVars, qsess, qdom, histVars>>

(* allocator.resolve_to_fake_ip(..).ok()? : the query gets no answer. *)
GiveUp(h) ==
    /\ stage[h] = "resolve"
    /\ pc[h] = "failed"
    /\ Return(h)
    /\ Finish(h)
    /\ UNCHANGED <<appVars, loopVars, histVars>>

(* Mutant of PutReverse: fake_ip_to_domain.insert is forgotten. *)
PutReverse_Skipped(h) ==
    /\ stage[h] = "put_reverse"
    /\ To(h, "answer")
    /\ UNCHANGED <<fimVars, appVars, loopVars, qsess, qdom, qip, histVars>>

PutReverse(h) ==
    /\ stage[h] = "put_reverse"
    /\ fake_ip_to_domain' = [fake_ip_to_domain EXCEPT ![qip[h]] = qdom[h]]
    /\ To(h, "answer")
    /\ UNCHANGED <<fimVars, domain_to_fake_ip, loopVars, qsess, qdom, qip, histVars>>

Answer(h) ==
    /\ stage[h] = "answer"
    /\ answers' = answers \cup {<<qsess[h], qdom[h], qip[h]>>}
    /\ Finish(h)
    /\ UNCHANGED <<fimVars, appVars, loopVars, overlapped>>

-----------------------------------------------------------------------------
(* The part of toggle_vpn(false) that concerns DNS: abort the loop if one  *)
(* runs, then, some time later, clear_cache.                               *)
AbortLoop ==
    /\ clearing = "no"
    /\ listening' = FALSE
    /\ clearing'  = "forward"
    /\ UNCHANGED <<fimVars, appVars, session, taskVars, histVars>>

(* Mutant of ClearForward: clear_cache empties the reverse table only. *)
ClearForward_Skipped ==
    /\ clearing = "forward"
    /\ clearing'   = "reverse"
    /\ overlapped' = (overlapped \/ InFlight # {})
    /\ UNCHANGED <<fimVars, appVars, session, listening, taskVars, answers>>

ClearForward ==
    /\ clearing = "forward"
    /\ domain_to_fake_ip' = [d \in Domains |-> NoIp]
    /\ clearing'   = "reverse"
    /\ overlapped' = (overlapped \/ InFlight # {})
    /\ UNCHANGED <<fimVars, fake_ip_to_domain, session, listening, taskVars, answers>>

ClearReverse ==
    /\ clearing = "reverse"
    /\ fake_ip_to_domain' = [i \in Pool |-> NoDomain]
    /\ clearing'   = "no"
    /\ overlapped' = (overlapped \/ InFlight # {})
    /\ UNCHANGED <<fimVars, domain_to_fake_ip, session, listening, taskVars, answers>>

-----------------------------------------------------------------------------
Handle(h) ==
    \/ AnswerNxdomain(h)
    \/ CheckHit(h)
    \/ CheckMiss(h)
    \/ Allocator(h)
    \/ PutForward(h)
    \/ GiveUp(h)
    \/ PutReverse(h)
    \/ Answer(h)

DnsNext ==
    \/ Bind
    \/ AbortLoop
    \/ ClearForward
    \/ ClearReverse
    \/ \E h \in Handlers :
          \/ RecvOther(h)
          \/ Handle(h)
          \/ \E d \in Domains : Recv(h, d)

DnsSpec == DnsInit /\ [][DnsNext]_dnsVars

(* A spawned handler never blocks and is run to its end by the executor.   *)
DnsFairness == \A h \in Handlers : WF_dnsVars(Handle(h))
DnsFairSpec == DnsSpec /\ DnsFairness

-----------------------------------------------------------------------------
(* Properties *)

(* Clients of one session are never told one address for two names, as     *)
(* long as clear_cache had the tables to itself: an address left over from *)
(* the session before would be handed out again by the new allocator.      *)
AnswersExclusive ==
    ~overlapped =>
       \A a, b \in answers : (a[1] = b[1] /\ a[3] = b[3]) => a[2] = b[2]

(* When no handler is at work, everything a client of the running session  *)
(* was told leads back to the name it asked for: dispatch will find it.    *)
AnswersLeadBack ==
    (listening /\ InFlight = {} /\ ~overlapped) =>
       \A a \in answers : a[1] = session => fake_ip_to_domain[a[3]] = a[2]

(* The forward table never sends later queries to an address whose reverse *)
(* entry is missing or someone else's, once the handlers are done.         *)
TablesPaired ==
    (InFlight = {} /\ clearing = "no" /\ ~overlapped) =>
       \A d \in Domains :
          domain_to_fake_ip[d] # NoIp
             => fake_ip_to_domain[domain_to_fake_ip[d]] = d

(* An answer that overtook the reverse entry of another handler's address  *)
(* is made good: the entry appears while the session lasts, unless a late  *)
(* clear_cache took it from under the handlers.                            *)
AnswerComesTrue ==
    \A d \in Domains, i \in Pool :
       (session = 1 /\ listening /\ <<1, d, i>> \in answers)
          ~> (fake_ip_to_domain[i] = d \/ ~listening \/ overlapped)

(* A session is an instance of FakeNames: its allocator's addresses are    *)
(* owned by the name that claims them, its answers are what clients heard. *)
OwnerIn(m) ==
    [i \in Pool |-> IF \E d \in Domains : Claims(m, i, d)
                    THEN CHOOSE d \in Domains : Claims(m, i, d)
                    ELSE NoDomain]
ToldIn(m) == {<<a[2], a[3]>> : a \in {b \in answers : b[1] = m}}

FirstSession == INSTANCE FakeNames WITH owner <- OwnerIn(1), told <- ToldIn(1)
ImplementsFakeNames == FirstSession!NamesSpec

(* README.md:35 says that disconnecting "clears FakeIP cache". *)
ClearedByDisconnect ==
    (session > 0 /\ ~listening /\ clearing = "no") =>
       /\ \A d \in Domains : domain_to_fake_ip[d] = NoIp
       /\ \A i \in Pool : fake_ip_to_domain[i] = NoDomain
=============================================================================
