------------------------------ MODULE Profiles ------------------------------
(***************************************************************************)
(* The list of proxy profiles, in four places: AppState (state.rs), the    *)
(* file profiles.json (config.rs), the window (App.tsx), and the calls that *)
(* carry one from here to there (commands.rs).  A subscription text stands *)
(* for the servers that are parsed from it; Subscription.tla has the        *)
(* parsing.  The process may die between any two steps and start again.     *)
(***************************************************************************)
EXTENDS Integers, Sequences

CONSTANTS
    Texts,     \* what a user may paste
    Servers,
    Parsed,    \* Parsed[t]: the servers of text t in order; <<>> for an error
    Adders,    \* concurrent add_subscription calls
    Users,     \* concurrent calls that select a profile or look one up
    NoServer,
    MaxAdded   \* bound on the lists ever parsed

ASSUME ParsedAssumption == Parsed \in [Texts -> Seq(Servers)]
ASSUME AbsentAssumption == NoServer \notin Servers
ASSUME AddedAssumption  == MaxAdded \in Nat

VARIABLES
    profiles,    \* AppState.profiles
    profile_id,  \* AppState.profile_id
    file,        \* profiles.json
    shown,       \* the window's list
    mounted,     \* the window has asked for the list
    adder,       \* adder[c]: where call c of add_subscription is
    new,         \* new[c]: the list it has parsed
    user,        \* user[u]: where set_profile, toggle_vpn or open_flow is
    held,        \* held[u]: the id it holds
    added,       \* history: the texts parsed so far, one for each list
    meant,       \* history: the server the window showed for profile_id
    want,        \* history: the same for held[u]
    alone,       \* history: no other call has run beside c
    had,         \* history: the list the user has, as told by the last call that returned
    lapse        \* history: what keeps the file from being it, see Lapses

listVars == <<profiles, file, shown, mounted>>
addVars  == <<adder, new, added, alone, had, lapse>>
userVars == <<profile_id, meant, user, held, want>>
profVars == <<listVars, addVars, userVars>>

Id(list, entry) == [list |-> list, entry |-> entry]
NoId  == Id(0, 0)
Ids   == [list : Nat, entry : Nat]
Entry == [id : Ids, server : Servers]

(* A file that exists may hold no list: it is truncated before it is        *)
(* written, and overlapping writers may leave a mixture.                    *)
File(state, list) == [state |-> state, list |-> list]

(* The last save failed, had another call beside it, or was cut off by the  *)
(* end of the process with the file truncated.                              *)
Lapses == {"none", "failed", "overlap", "torn"}

ProfTypeOK ==
    /\ profiles \in Seq(Entry) /\ shown \in Seq(Entry)
    /\ profile_id \in Ids
    /\ file \in [state : {"absent", "empty", "garbled", "list"}, list : Seq(Entry)]
    /\ adder \in [Adders -> {"idle", "set", "save", "write", "return"}]
    /\ new   \in [Adders -> Seq(Entry)]
    /\ user  \in [Users -> {"idle", "select", "find"}]
    /\ held  \in [Users -> Ids]
    /\ added \in Seq(Texts)
    /\ mounted \in BOOLEAN
    /\ had \in Seq(Entry) /\ lapse \in Lapses
    /\ alone \in [Adders -> BOOLEAN]
    /\ meant \in Servers \cup {NoServer}
    /\ want  \in [Users -> Servers \cup {NoServer}]

ProfInit ==
    /\ profiles = <<>> /\ shown = <<>>
    /\ file = File("absent", <<>>)
    /\ mounted = FALSE
    /\ adder = [c \in Adders |-> "idle"]
    /\ new   = [c \in Adders |-> <<>>]
    /\ user  = [u \in Users |-> "idle"]
    /\ held  = [u \in Users |-> NoId]
    /\ want  = [u \in Users |-> NoServer]
    /\ profile_id = NoId /\ meant = NoServer
    /\ added = <<>>
    /\ alone = [c \in Adders |-> TRUE]
    /\ had = <<>> /\ lapse = "none"

Moves(c, from, to) == adder[c] = from /\ adder' = [adder EXCEPT ![c] = to]

-----------------------------------------------------------------------------
(* add_subscription *)

Others(c) == \E d \in Adders \ {c} : adder[d] # "idle"

(* Mutant of NewId: entries are numbered instead of given a Uuid. *)
NewId_Position(i) == Id(1, i)

(* Uuid::new_v4: an id that no entry of any list has had.                  *)
NewId(i) == Id(Len(added) + 1, i)

(* A text that is in error changes nothing.                                *)
Parse(c, t) ==
    /\ Parsed[t] # <<>>
    /\ Moves(c, "idle", "set")
    /\ new' = [new EXCEPT ![c] =
          [i \in DOMAIN Parsed[t] |-> [id |-> NewId(i), server |-> Parsed[t][i]]]]
    /\ added' = Append(added, t)
    /\ alone' = [d \in Adders |-> IF Others(c) THEN FALSE ELSE d = c \/ alone[d]]
    /\ UNCHANGED <<listVars, had, lapse, userVars>>

(* Mutant of SetProfiles: the file is opened, and so truncated, beforehand. *)
SetProfiles_OpensFile(c) ==
    /\ Moves(c, "set", "save")
    /\ profiles' = new[c]
    /\ file' = File("empty", <<>>)
    /\ UNCHANGED <<shown, mounted, new, added, alone, had, lapse, userVars>>

SetProfiles(c) ==
    /\ Moves(c, "set", "save")
    /\ profiles' = new[c]
    /\ UNCHANGED <<file, shown, mounted, new, added, alone, had, lapse, userVars>>

(* std::fs::write opens the file, which truncates it.                      *)
Truncate(c) ==
    /\ Moves(c, "save", "write")
    /\ file' = File("empty", <<>>)
    /\ UNCHANGED <<profiles, shown, mounted, new, added, alone, had, lapse, userVars>>

(* A shorter list over a longer one leaves the end of that.                *)
Write(c) ==
    /\ Moves(c, "write", "return")
    /\ file' \in IF file.state = "empty" THEN {File("list", new[c])}
                 ELSE {File("list", new[c]), File("garbled", <<>>)}
    /\ lapse' = IF alone[c] THEN "none" ELSE "overlap"
    /\ UNCHANGED <<profiles, shown, mounted, new, added, alone, had, userVars>>

(* The directory, the file or part of the text can not be written; the      *)
(* error is dropped (`.ok()`).                                              *)
SaveFails(c) ==
    /\ \/ Moves(c, "save", "return")  /\ UNCHANGED file
       \/ Moves(c, "write", "return") /\ file' = File("garbled", <<>>)
    /\ lapse' = "failed"
    /\ UNCHANGED <<profiles, shown, mounted, new, added, alone, had, userVars>>

(* setProfiles(newProfiles) in the window.                                 *)
Added(c) ==
    /\ Moves(c, "return", "idle")
    /\ shown' = new[c]
    /\ had'   = new[c]
    /\ new'   = [new EXCEPT ![c] = <<>>]
    /\ UNCHANGED <<profiles, file, mounted, added, alone, lapse, userVars>>

-----------------------------------------------------------------------------
(* The window asks for the list once, when it is built.                    *)
Mount ==
    /\ ~mounted
    /\ mounted' = TRUE
    /\ shown' = profiles
    /\ UNCHANGED <<profiles, file, addVars, userVars>>

Holds(u, id, server) ==
    /\ held' = [held EXCEPT ![u] = id]
    /\ want' = [want EXCEPT ![u] = server]

Find(id) == {k \in DOMAIN profiles : profiles[k].id = id}

(* set_profile for an entry of the window: find_profile, then the id.      *)
SelectFind(u, k) ==
    /\ user[u] = "idle"
    /\ k \in DOMAIN shown
    /\ Find(shown[k].id) # {}
    /\ user' = [user EXCEPT ![u] = "select"]
    /\ Holds(u, shown[k].id, shown[k].server)
    /\ UNCHANGED <<listVars, addVars, profile_id, meant>>

SelectSet(u) ==
    /\ user[u] = "select"
    /\ user' = [user EXCEPT ![u] = "idle"]
    /\ profile_id' = held[u] /\ meant' = want[u]
    /\ UNCHANGED <<listVars, addVars, held, want>>

(* toggle_vpn and open_flow: get_profile_id, then find_profile, which may   *)
(* come back with nothing.                                                  *)
LookupId(u) ==
    /\ user[u] = "idle"
    /\ profile_id # NoId
    /\ user' = [user EXCEPT ![u] = "find"]
    /\ Holds(u, profile_id, meant)
    /\ UNCHANGED <<listVars, addVars, profile_id, meant>>

LookupFind(u) ==
    /\ user[u] = "find"
    /\ user' = [user EXCEPT ![u] = "idle"]
    /\ UNCHANGED <<listVars, addVars, profile_id, meant, held, want>>

-----------------------------------------------------------------------------
(* load_profiles: an absent file is an empty list, an unreadable one an     *)
(* error that load_saved_profiles_impl ignores.                             *)
Loaded(f) == IF f.state = "list" THEN f.list ELSE <<>>

InWrite == {c \in Adders : adder[c] = "write"}
ToAnswer == {c \in Adders : adder[c] = "return"}

(* The process dies, in the middle of whatever it does, and is started.  A  *)
(* list that was written by then is the user's, if not answered yet; what a *)
(* death loses stays the user's too: no start gives `had` another value to  *)
(* agree with what it found.                                                *)
Restart ==
    /\ profiles' = Loaded(file)
    /\ shown' = <<>> /\ mounted' = FALSE
    /\ adder' = [c \in Adders |-> "idle"]
    /\ new'   = [c \in Adders |-> <<>>]
    /\ user'  = [u \in Users |-> "idle"]
    /\ held'  = [u \in Users |-> NoId]
    /\ want'  = [u \in Users |-> NoServer]
    /\ profile_id' = NoId /\ meant' = NoServer
    /\ had'   = IF InWrite = {} /\ ToAnswer # {} THEN Loaded(file) ELSE had
    /\ lapse' = IF InWrite # {} /\ lapse = "none" THEN "torn" ELSE lapse
    /\ UNCHANGED <<file, added, alone>>

AddStep(c) == SetProfiles(c) \/ Truncate(c) \/ Write(c) \/ SaveFails(c) \/ Added(c)

ProfNext ==
    \/ \E c \in Adders, t \in Texts : Len(added) < MaxAdded /\ Parse(c, t)
    \/ \E c \in Adders : AddStep(c)
    \/ \E u \in Users, k \in DOMAIN shown : SelectFind(u, k)
    \/ \E u \in Users : SelectSet(u) \/ LookupId(u) \/ LookupFind(u)
    \/ Mount
    \/ Restart

ProfSpec == ProfInit /\ [][ProfNext]_profVars

-----------------------------------------------------------------------------
(* Properties *)

(* What a start would bring back were the process to die now, whatever died *)
(* or was in error before: the list the user was last given or, from the    *)
(* write on, that of the call still to answer.  Between truncating the file *)
(* and writing it, there is nothing in it: this is the one time at which a  *)
(* death loses the list (to "torn", until the next save), and it leaves no  *)
(* list but the empty one.  With no call under way the list in memory is    *)
(* the user's.  After a save that failed without a word, or had another    *)
(* call beside it, the code promises nothing.                               *)
StartBringsBack ==
    /\ lapse = "none" =>
          /\ InWrite = {} /\ ToAnswer = {} => Loaded(file) = had
          /\ InWrite = {} => \A c \in ToAnswer : Loaded(file) = new[c]
          /\ InWrite # {} => Loaded(file) = <<>>
          /\ (\A c \in Adders : adder[c] = "idle") => profiles = had
    /\ lapse = "torn" => Loaded(file) = <<>>

MeansIt(id, server) ==
    \A k \in DOMAIN profiles : profiles[k].id = id => profiles[k].server = server

(* Whatever is added, replaced, restored or overlaps between a click on an  *)
(* entry of the window and its use, the id leads to the server shown then   *)
(* or to none.                                                              *)
SelectionMeansIt ==
    /\ MeansIt(profile_id, meant)
    /\ \A u \in Users : user[u] # "idle" => MeansIt(held[u], want[u])
=============================================================================
