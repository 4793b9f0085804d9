--------------------------- MODULE Profiles_proofs ---------------------------
(***************************************************************************)
(* For any texts, any parsing of them, and any number of calls and of       *)
(* restarts: ids mean what they were shown to mean, and a start brings back *)
(* the list the user had.  And what a text is parsed into is what it says,  *)
(* for any text.                                                           *)
(***************************************************************************)
EXTENDS Profiles, Subscription, TLAPS, FiniteSetTheorems, WellFoundedInduction

(* The profiles. *)

(* An id was given to one entry of one text that was parsed.               *)
Known(id, server) ==
    /\ id.list \in 1 .. Len(added)
    /\ server = Parsed[added[id.list]][id.entry]

Genuine(l) == \A k \in DOMAIN l : Known(l[k].id, l[k].server)

Chosen(id, server) == id = NoId \/ Known(id, server)

AllGenuine ==
    /\ Genuine(profiles) /\ Genuine(shown) /\ Genuine(file.list)
    /\ \A c \in Adders : Genuine(new[c])
    /\ Chosen(profile_id, meant)
    /\ \A u \in Users : Chosen(held[u], want[u])

(* How far a call that runs alone has come, and what the file and AppState  *)
(* hold by then.                                                           *)
Idle(c)  == adder[c] = "idle"
Sole(c)  == \A d \in Adders : d # c => Idle(d)

AloneIsAlone == \A c \in Adders : alone[c] /\ ~Idle(c) => Sole(c)
AloneHasSet  == \A c \in Adders :
                   alone[c] /\ adder[c] \in {"save", "write"} => profiles = new[c]
AloneHasFile == \A c \in Adders : alone[c] /\ adder[c] = "write" => file.state = "empty"

(* As long as no save has failed or overlapped: whose list is in the file   *)
(* and in memory.                                                          *)
NoneWrites == \A c \in Adders : adder[c] # "write"
OneReturns == \A c, d \in Adders : adder[c] = "return" /\ adder[d] = "return" => c = d
FileOfUser == NoneWrites /\ (\A c \in Adders : adder[c] # "return") => Loaded(file) = had
FileOfCall == NoneWrites => \A c \in Adders : adder[c] = "return" => Loaded(file) = new[c]
FileIsCut  == ~NoneWrites => Loaded(file) = <<>>
MemoryOfCall == \A c \in Adders : adder[c] = "return" /\ Sole(c) => profiles = new[c]
MemoryOfUser == (\A c \in Adders : Idle(c)) => profiles = had

Lapsed == /\ lapse = "none" => /\ OneReturns /\ FileOfUser /\ FileOfCall
                               /\ FileIsCut /\ MemoryOfCall /\ MemoryOfUser
          /\ lapse = "torn" => Loaded(file) = <<>>

Saving == AloneIsAlone /\ AloneHasSet /\ AloneHasFile /\ Lapsed

ProfInv == ProfTypeOK /\ AllGenuine /\ Saving

-----------------------------------------------------------------------------
(* ProfInv holds at the start. *)
LEMMA ProfInitHolds == ProfInit => ProfInv
<1> SUFFICES ASSUME ProfInit PROVE ProfInv
  OBVIOUS
<1> USE DEF ProfInit, File, NoId, Id
<1>0. <<>> \in Seq(Entry) /\ <<>> \in Seq(Texts) /\ NoId \in Ids
  BY DEF Ids
<1>1. ProfTypeOK
  BY <1>0 DEF ProfTypeOK, Lapses
<1>2. AllGenuine
  BY DEF AllGenuine, Genuine, Chosen
<1>3. Saving
  BY DEF Saving, AloneIsAlone, AloneHasSet, AloneHasFile, Lapsed, OneReturns, FileOfUser,
         FileOfCall, FileIsCut, MemoryOfCall, MemoryOfUser, NoneWrites,
         Idle, Sole, Loaded
<1> QED BY <1>1, <1>2, <1>3 DEF ProfInv

(* An entry of a list has an id and a server. *)
LEMMA ListsAreTyped ==
  ASSUME ProfTypeOK, NEW l \in Seq(Entry), NEW k \in DOMAIN l
  PROVE  l[k] \in Entry /\ l[k].id \in Ids /\ l[k].server \in Servers
<1>1. l[k] \in Entry
  OBVIOUS
<1> QED BY <1>1 DEF Entry

(* What is known stays known when one more text has been parsed.           *)
LEMMA KnownStays ==
  ASSUME added \in Seq(Texts), NEW t \in Texts, added' = Append(added, t),
         NEW id, NEW server, Known(id, server)
  PROVE  Known(id, server)'
  BY DEF Known

(* The list that is parsed has the ids of its own text. *)
LEMMA NewIsGenuine ==
  ASSUME ProfTypeOK, NEW c \in Adders, NEW t \in Texts, Parse(c, t)
  PROVE  /\ added' \in Seq(Texts)
         /\ new'[c] \in Seq(Entry)
         /\ Genuine(new[c])'
<1>1. /\ added \in Seq(Texts) /\ added' = Append(added, t)
      /\ new'[c] = [i \in DOMAIN Parsed[t] |-> [id |-> NewId(i), server |-> Parsed[t][i]]]
  BY DEF ProfTypeOK, Parse
<1>2. Parsed[t] \in Seq(Servers)
  BY ParsedAssumption
<1>3. Len(added') = Len(added) + 1 /\ added'[Len(added) + 1] = t /\ added' \in Seq(Texts)
      /\ Len(added) \in Nat
  BY <1>1
<1>4. \A i \in DOMAIN Parsed[t] :
        /\ NewId(i) \in Ids
        /\ NewId(i).list = Len(added) + 1 /\ NewId(i).entry = i
        /\ Parsed[t][i] \in Servers
  BY <1>2, <1>3 DEF NewId, Id, Ids
<1>5. new'[c] \in Seq(Entry)
  <2>1. \A i \in DOMAIN Parsed[t] : [id |-> NewId(i), server |-> Parsed[t][i]] \in Entry
    BY <1>4 DEF Entry
  <2>2. DOMAIN Parsed[t] = 1 .. Len(Parsed[t]) /\ Len(Parsed[t]) \in Nat
    BY <1>2
  <2> QED BY <1>1, <2>1, <2>2
<1>6. ASSUME NEW k \in DOMAIN (new'[c])
      PROVE  Known(new[c][k].id, new[c][k].server)'
  <2>1. k \in DOMAIN Parsed[t] /\ new'[c][k].id = NewId(k) /\ new'[c][k].server = Parsed[t][k]
    BY <1>1, <1>6
  <2> QED BY <1>3, <1>4, <2>1 DEF Known
<1> QED BY <1>3, <1>5, <1>6 DEF Genuine

-----------------------------------------------------------------------------
(* ProfTypeOK is inductive. *)
LEMMA TypeHolds == ProfTypeOK /\ [ProfNext]_profVars => ProfTypeOK'
<1> SUFFICES ASSUME ProfTypeOK, [ProfNext]_profVars PROVE ProfTypeOK'
  OBVIOUS
<1> USE DEF ProfTypeOK, Moves, Lapses
<1>0. <<>> \in Seq(Entry) /\ NoId \in Ids
  BY DEF NoId, Id, Ids
<1>1. ASSUME NEW c \in Adders, NEW t \in Texts, Parse(c, t) PROVE ProfTypeOK'
  <2>1. /\ added' \in Seq(Texts) /\ new' \in [Adders -> Seq(Entry)]
    BY <1>1, NewIsGenuine DEF Parse
  <2>2. alone' \in [Adders -> BOOLEAN] /\ adder' \in [Adders -> {"idle", "set", "save", "write", "return"}]
    BY <1>1 DEF Parse, Others
  <2>3. UNCHANGED <<profiles, file, shown, mounted, had, lapse, profile_id, meant, user, held, want>>
    BY <1>1 DEF Parse, listVars, userVars
  <2> QED BY <2>1, <2>2, <2>3
<1>2. ASSUME NEW c \in Adders, SetProfiles(c) PROVE ProfTypeOK'
  BY <1>2 DEF SetProfiles, userVars
<1>3. ASSUME NEW c \in Adders, Truncate(c) PROVE ProfTypeOK'
  BY <1>0, <1>3 DEF Truncate, userVars, File
<1>4. ASSUME NEW c \in Adders, Write(c) PROVE ProfTypeOK'
  <2>1. file' \in {File("list", new[c]), File("garbled", <<>>)}
    BY <1>4 DEF Write
  <2>2. file' \in [state : {"absent", "empty", "garbled", "list"}, list : Seq(Entry)]
    <3>1. new[c] \in Seq(Entry)
      OBVIOUS
    <3>2. ASSUME NEW s \in {"garbled", "list"}, NEW l \in Seq(Entry)
          PROVE  File(s, l) \in [state : {"absent", "empty", "garbled", "list"},
                                 list : Seq(Entry)]
      BY DEF File
    <3> HIDE DEF ProfTypeOK
    <3> QED BY <1>0, <2>1, <3>1, <3>2
  <2> QED BY <1>4, <2>2 DEF Write, userVars
<1>5. ASSUME NEW c \in Adders, SaveFails(c) PROVE ProfTypeOK'
  <2>1. File("garbled", <<>>) \in [state : {"absent", "empty", "garbled", "list"},
                                   list : Seq(Entry)]
    BY <1>0 DEF File
  <2>2. file' = file \/ file' = File("garbled", <<>>)
    BY <1>5 DEF SaveFails
  <2>3. file' \in [state : {"absent", "empty", "garbled", "list"}, list : Seq(Entry)]
    BY <2>1, <2>2
  <2>4. adder' = [adder EXCEPT ![c] = "return"]
    BY <1>5 DEF SaveFails
  <2>5. /\ lapse' = "failed"
        /\ UNCHANGED <<profiles, shown, mounted, new, added, alone, had, profile_id, meant,
                       user, held, want>>
    BY <1>5 DEF SaveFails, userVars
  <2>6. adder' \in [Adders -> {"idle", "set", "save", "write", "return"}]
    BY <2>4
  <2> QED BY <2>3, <2>5, <2>6
<1>6. ASSUME NEW c \in Adders, Added(c) PROVE ProfTypeOK'
  BY <1>0, <1>6 DEF Added, userVars
<1>7. ASSUME NEW u \in Users, NEW k \in DOMAIN shown, SelectFind(u, k) PROVE ProfTypeOK'
  <2>1. shown[k].id \in Ids /\ shown[k].server \in Servers
    BY ListsAreTyped
  <2> QED BY <1>7, <2>1 DEF SelectFind, Holds, listVars, addVars
<1>8. ASSUME NEW u \in Users, SelectSet(u) PROVE ProfTypeOK'
  BY <1>8 DEF SelectSet, listVars, addVars
<1>9. ASSUME NEW u \in Users, LookupId(u) PROVE ProfTypeOK'
  BY <1>9 DEF LookupId, Holds, listVars, addVars
<1>10. ASSUME NEW u \in Users, LookupFind(u) PROVE ProfTypeOK'
  BY <1>10 DEF LookupFind, listVars, addVars
<1>11. CASE Mount
  BY <1>11 DEF Mount, addVars, userVars
<1>12. CASE Restart
  BY <1>0, <1>12 DEF Restart, Loaded
<1>13. CASE UNCHANGED profVars
  BY <1>13 DEF profVars, listVars, addVars, userVars
<1> QED BY <1>1, <1>2, <1>3, <1>4, <1>5, <1>6, <1>7, <1>8, <1>9, <1>10, <1>11, <1>12, <1>13
        DEF ProfNext, AddStep

-----------------------------------------------------------------------------
(* Steps that parse nothing leave what is known as it is.                  *)
LEMMA GenuineHolds == ProfTypeOK /\ AllGenuine /\ [ProfNext]_profVars => AllGenuine'
<1> SUFFICES ASSUME ProfTypeOK, AllGenuine, [ProfNext]_profVars PROVE AllGenuine'
  OBVIOUS
<1> USE DEF AllGenuine, Moves
<1>1. ASSUME NEW c \in Adders, NEW t \in Texts, Parse(c, t) PROVE AllGenuine'
  <2>1. added \in Seq(Texts) /\ added' = Append(added, t) /\ new \in [Adders -> Seq(Entry)]
    BY <1>1 DEF ProfTypeOK, Parse
  <2>2. \A id, server : Known(id, server) => Known(id, server)'
    BY <2>1, KnownStays
  <2>3. UNCHANGED <<profiles, file, shown, profile_id, meant, held, want>>
    BY <1>1 DEF Parse, listVars, userVars
  <2>4. Genuine(profiles)' /\ Genuine(shown)' /\ Genuine(file.list)'
    BY <2>2, <2>3 DEF Genuine
  <2>5. Chosen(profile_id, meant)' /\ \A u \in Users : Chosen(held[u], want[u])'
    BY <2>2, <2>3 DEF Chosen
  <2>6. ASSUME NEW d \in Adders PROVE Genuine(new[d])'
    <3>1. CASE d = c
      BY <1>1, <3>1, NewIsGenuine
    <3>2. CASE d # c
      <4>1. new'[d] = new[d]
        BY <1>1, <2>1, <3>2 DEF Parse
      <4> QED BY <2>2, <4>1 DEF Genuine
    <3> QED BY <3>1, <3>2
  <2> QED BY <2>4, <2>5, <2>6
<1>a. ASSUME UNCHANGED added
      PROVE  \A id, server : Known(id, server) => Known(id, server)'
  BY <1>a DEF Known
<1> USE DEF Genuine, Chosen
<1>2. ASSUME NEW c \in Adders, SetProfiles(c) PROVE AllGenuine'
  BY <1>a, <1>2 DEF SetProfiles, userVars
<1>3. ASSUME NEW c \in Adders, Truncate(c) PROVE AllGenuine'
  BY <1>a, <1>3 DEF Truncate, userVars, File
<1>4. ASSUME NEW c \in Adders, Write(c) PROVE AllGenuine'
  <2>1. file'.list = new[c] \/ file'.list = <<>>
    BY <1>4 DEF Write, File
  <2> QED BY <1>a, <1>4, <2>1 DEF Write, userVars
<1>5. ASSUME NEW c \in Adders, SaveFails(c) PROVE AllGenuine'
  BY <1>a, <1>5 DEF SaveFails, userVars, File
<1>6. ASSUME NEW c \in Adders, Added(c) PROVE AllGenuine'
  <2>1. \A d \in Adders : new'[d] = IF d = c THEN <<>> ELSE new[d]
    BY <1>6 DEF Added, ProfTypeOK
  <2> QED BY <1>a, <1>6, <2>1 DEF Added, userVars
<1>7. ASSUME NEW u \in Users, NEW k \in DOMAIN shown, SelectFind(u, k) PROVE AllGenuine'
  <2>1. \A v \in Users :
           \/ held'[v] = shown[k].id /\ want'[v] = shown[k].server
           \/ held'[v] = held[v] /\ want'[v] = want[v]
    BY <1>7 DEF SelectFind, Holds, ProfTypeOK
  <2> QED BY <1>a, <1>7, <2>1 DEF SelectFind, listVars, addVars
<1>8. ASSUME NEW u \in Users, SelectSet(u) PROVE AllGenuine'
  BY <1>a, <1>8 DEF SelectSet, listVars, addVars
<1>9. ASSUME NEW u \in Users, LookupId(u) PROVE AllGenuine'
  <2>1. \A v \in Users :
           \/ held'[v] = profile_id /\ want'[v] = meant
           \/ held'[v] = held[v] /\ want'[v] = want[v]
    BY <1>9 DEF LookupId, Holds, ProfTypeOK
  <2> QED BY <1>a, <1>9, <2>1 DEF LookupId, listVars, addVars
<1>10. ASSUME NEW u \in Users, LookupFind(u) PROVE AllGenuine'
  BY <1>a, <1>10 DEF LookupFind, listVars, addVars
<1>11. CASE Mount
  BY <1>a, <1>11 DEF Mount, addVars, userVars
<1>12. CASE Restart
  BY <1>a, <1>12 DEF Restart, Loaded
<1>13. CASE UNCHANGED profVars
  BY <1>a, <1>13 DEF profVars, listVars, addVars, userVars
<1> QED BY <1>1, <1>2, <1>3, <1>4, <1>5, <1>6, <1>7, <1>8, <1>9, <1>10, <1>11, <1>12, <1>13
        DEF ProfNext, AddStep

(* An id that is known leads to one server.                                *)
LEMMA GenuineMeansIt == ProfTypeOK /\ AllGenuine => SelectionMeansIt
<1> SUFFICES ASSUME ProfTypeOK, AllGenuine,
                    NEW id, NEW server, Chosen(id, server) PROVE MeansIt(id, server)
  BY DEF SelectionMeansIt, AllGenuine
<1>1. ASSUME NEW k \in DOMAIN profiles, profiles[k].id = id
      PROVE  profiles[k].server = server
  <2>1. Known(id, profiles[k].server)
    BY <1>1 DEF AllGenuine, Genuine
  <2>2. id # NoId
    BY <2>1 DEF Known, NoId, Id, ProfTypeOK
  <2> QED BY <2>1, <2>2 DEF Chosen, Known
<1> QED BY <1>1 DEF MeansIt

-----------------------------------------------------------------------------
(* What a call that runs alone has set and written is there until it ends:  *)
(* whoever starts beside it takes its `alone` away.                         *)
LEMMA SavingHolds == ProfTypeOK /\ Saving /\ [ProfNext]_profVars => Saving'
<1> SUFFICES ASSUME ProfTypeOK, Saving, [ProfNext]_profVars PROVE Saving'
  OBVIOUS
<1>0. /\ adder \in [Adders -> {"idle", "set", "save", "write", "return"}]
      /\ new \in [Adders -> Seq(Entry)] /\ alone \in [Adders -> BOOLEAN]
  BY DEF ProfTypeOK
<1> USE DEF Saving, AloneIsAlone, AloneHasSet, AloneHasFile, Lapsed, NoneWrites, OneReturns,
            FileOfUser, FileOfCall, FileIsCut, MemoryOfCall, MemoryOfUser, Idle, Sole
<1>1. ASSUME NEW c \in Adders, NEW t \in Texts, Parse(c, t) PROVE Saving'
  <2>1. /\ adder[c] = "idle" /\ adder' = [adder EXCEPT ![c] = "set"]
        /\ UNCHANGED <<profiles, file, had, lapse>>
        /\ \A d \in Adders : d # c => new'[d] = new[d]
    BY <1>0, <1>1 DEF Parse, Moves, listVars
  <2>2. \A d \in Adders : alone'[d] <=> ~Others(c) /\ (d = c \/ alone[d])
    BY <1>0, <1>1 DEF Parse
  <2>3. UNCHANGED Loaded(file)
    BY <2>1 DEF Loaded
  <2>4. AloneIsAlone'
    BY <1>0, <2>1, <2>2 DEF Others
  <2>5. AloneHasSet' /\ AloneHasFile'
    BY <1>0, <2>1, <2>2
  <2>6. Lapsed'
    BY <1>0, <2>1, <2>3
  <2> QED BY <2>4, <2>5, <2>6
<1>2. ASSUME NEW c \in Adders, SetProfiles(c) PROVE Saving'
  <2>1. /\ adder[c] = "set" /\ adder' = [adder EXCEPT ![c] = "save"]
        /\ profiles' = new[c] /\ UNCHANGED <<new, alone, file, had, lapse>>
    BY <1>2 DEF SetProfiles, Moves
  <2>2. UNCHANGED Loaded(file)
    BY <2>1 DEF Loaded
  <2>3. AloneIsAlone' /\ AloneHasSet' /\ AloneHasFile'
    BY <1>0, <2>1
  <2>4. Lapsed'
    BY <1>0, <2>1, <2>2
  <2> QED BY <2>3, <2>4
<1>3. ASSUME NEW c \in Adders, Truncate(c) PROVE Saving'
  <2>1. /\ adder[c] = "save" /\ adder' = [adder EXCEPT ![c] = "write"]
        /\ file'.state = "empty" /\ UNCHANGED <<profiles, new, alone, had, lapse>>
    BY <1>3 DEF Truncate, Moves, File
  <2>2. Loaded(file)' = <<>>
    BY <2>1 DEF Loaded
  <2>3. AloneIsAlone' /\ AloneHasSet' /\ AloneHasFile'
    BY <1>0, <2>1
  <2>4. Lapsed'
    BY <1>0, <2>1, <2>2
  <2> QED BY <2>3, <2>4
<1>4. ASSUME NEW c \in Adders, Write(c) PROVE Saving'
  <2>1. /\ adder[c] = "write" /\ adder' = [adder EXCEPT ![c] = "return"]
        /\ lapse' = IF alone[c] THEN "none" ELSE "overlap"
        /\ UNCHANGED <<profiles, new, alone, had>>
    BY <1>4 DEF Write, Moves
  <2>2. ASSUME alone[c] PROVE Loaded(file)' = new[c] /\ profiles = new[c]
    <3>1. file.state = "empty" /\ profiles = new[c]
      BY <1>0, <2>1, <2>2
    <3>2. file' = File("list", new[c])
      BY <1>4, <3>1 DEF Write
    <3> QED BY <3>1, <3>2 DEF Loaded, File
  <2>3. ASSUME alone[c] PROVE \A d \in Adders : d # c => adder[d] = "idle"
    BY <1>0, <2>1, <2>3
  <2>4. AloneIsAlone' /\ AloneHasSet' /\ AloneHasFile'
    BY <1>0, <2>1, <2>3
  <2>5. Lapsed'
    BY <1>0, <2>1, <2>2, <2>3
  <2> QED BY <2>4, <2>5
<1>5. ASSUME NEW c \in Adders, SaveFails(c) PROVE Saving'
  <2>1. /\ adder[c] \in {"save", "write"} /\ adder' = [adder EXCEPT ![c] = "return"]
        /\ lapse' = "failed" /\ UNCHANGED <<profiles, new, alone>>
    BY <1>5 DEF SaveFails, Moves
  <2>2. \A d \in Adders : adder'[d] = "write" /\ alone[d] => FALSE
    BY <1>0, <2>1
  <2> QED BY <1>0, <2>1, <2>2
<1>6. ASSUME NEW c \in Adders, Added(c) PROVE Saving'
  <2>1. /\ adder[c] = "return" /\ adder' = [adder EXCEPT ![c] = "idle"]
        /\ had' = new[c] /\ \A d \in Adders : d # c => new'[d] = new[d]
        /\ UNCHANGED <<profiles, file, alone, lapse>>
    BY <1>0, <1>6 DEF Added, Moves
  <2>2. UNCHANGED Loaded(file)
    BY <2>1 DEF Loaded
  <2>3. AloneIsAlone' /\ AloneHasSet' /\ AloneHasFile'
    BY <1>0, <2>1
  <2>4. lapse = "none" => \A d \in Adders : adder'[d] # "return"
    BY <1>0, <2>1
  <2>5. Lapsed'
    BY <1>0, <2>1, <2>2, <2>4
  <2> QED BY <2>3, <2>5
<1>7. ASSUME UNCHANGED <<profiles, file, addVars>> PROVE Saving'
  BY <1>7 DEF addVars, Loaded
<1>8. CASE \/ \E u \in Users, k \in DOMAIN shown : SelectFind(u, k)
           \/ \E u \in Users : SelectSet(u) \/ LookupId(u) \/ LookupFind(u)
           \/ Mount \/ UNCHANGED profVars
  BY <1>7, <1>8 DEF SelectFind, SelectSet, LookupId, LookupFind, Mount, profVars, listVars
<1>9. CASE Restart
  <2>1. /\ \A c \in Adders : adder'[c] = "idle"
        /\ profiles' = Loaded(file) /\ UNCHANGED <<file, alone>>
    BY <1>9 DEF Restart
  <2>2. /\ NoneWrites => lapse' = lapse
        /\ ~NoneWrites => lapse' = IF lapse = "none" THEN "torn" ELSE lapse
        /\ NoneWrites /\ (\E c \in Adders : adder[c] = "return") => had' = Loaded(file)
        /\ NoneWrites /\ (\A c \in Adders : adder[c] # "return") => had' = had
    BY <1>9 DEF Restart, InWrite, ToAnswer
  <2>3. UNCHANGED Loaded(file)
    BY <2>1 DEF Loaded
  <2>4. lapse' = "none" => profiles' = had' /\ Loaded(file)' = had'
    BY <2>1, <2>2, <2>3
  <2>5. lapse' = "torn" => Loaded(file)' = <<>>
    BY <2>2, <2>3
  <2> QED BY <2>1, <2>4, <2>5
<1> QED BY <1>1, <1>2, <1>3, <1>4, <1>5, <1>6, <1>8, <1>9 DEF ProfNext, AddStep

-----------------------------------------------------------------------------
(* ProfInv holds in every state. *)
LEMMA ProfInvHolds == ProfSpec => []ProfInv
<1>1. ProfInv /\ [ProfNext]_profVars => ProfInv'
  BY TypeHolds, GenuineHolds, SavingHolds DEF ProfInv
<1> QED BY <1>1, ProfInitHolds, PTL DEF ProfSpec

(* The lists in the four places keep their types, over every restart.      *)
THEOREM ProfilesTyped == ProfSpec => []ProfTypeOK
<1>1. ProfInv => ProfTypeOK
  BY DEF ProfInv
<1> QED BY <1>1, ProfInvHolds, PTL

(* The id a user selected leads to the server the window showed for it, or  *)
(* to none.                                                                 *)
THEOREM SelectionIsMeant == ProfSpec => []SelectionMeansIt
<1>1. ProfInv => SelectionMeansIt
  BY GenuineMeansIt DEF ProfInv
<1> QED BY <1>1, ProfInvHolds, PTL

(* At any moment, after any deaths and errors, a start would bring back what *)
(* StartBringsBack says: the user's list, the one just written, or, with   *)
(* the file truncated, none.                                               *)
THEOREM StartsBringBack == ProfSpec => []StartBringsBack
<1>1. ProfInv => StartBringsBack
  BY DEF ProfInv, Saving, Lapsed, NoneWrites, FileOfUser, FileOfCall, FileIsCut, MemoryOfUser,
         Idle, InWrite, ToAnswer, StartBringsBack
<1> QED BY <1>1, ProfInvHolds, PTL

-----------------------------------------------------------------------------
(* What a text is parsed into. *)

(* A set of numbers has a least one.                                        *)
LEMMA LeastPlace ==
  ASSUME NEW T, T \subseteq Nat, T # {}
  PROVE  \E m \in T : \A n \in T : m <= n
<1> DEFINE Less == {p \in Nat \X Nat : p[1] < p[2]}
<1>1. IsWellFoundedOn(Less, Nat)
  BY NatLessThanWellFounded DEF OpToRel
<1>2. PICK m \in T : \A n \in T : <<n, m>> \notin Less
  <2> HIDE DEF Less
  <2> QED BY <1>1, WFMin
<1>3. ASSUME NEW n \in T PROVE m <= n
  <2>1. <<n, m>> \in Nat \X Nat /\ <<n, m>>[1] = n /\ <<n, m>>[2] = m
    OBVIOUS
  <2>2. ~(n < m)
    BY <1>2, <2>1
  <2> QED
    BY <2>2
<1> QED
  BY <1>3

(* Induction up to n: what holds of 0, and of a number after another.       *)
LEMMA PlacesUpwards ==
  ASSUME NEW n \in Nat, NEW S, 0 \in S, \A k \in 0 .. n - 1 : k \in S => k + 1 \in S
  PROVE  0 .. n \subseteq S
<1> DEFINE T == {k \in 0 .. n : k \notin S}
<1> SUFFICES ASSUME T # {} PROVE FALSE
  OBVIOUS
<1>0. T \subseteq Nat
  OBVIOUS
<1>1. PICK m \in T : \A k \in T : m <= k
  <2> HIDE DEF T
  <2> QED BY <1>0, LeastPlace
<1>2. m \in 0 .. n /\ m \notin S /\ m # 0
  OBVIOUS
<1>3. m - 1 \in 0 .. n - 1 /\ m - 1 \notin T
  BY <1>1, <1>2
<1>4. m - 1 \in S
  BY <1>3
<1>5. (m - 1) + 1 \in S
  BY <1>3, <1>4
<1>6. (m - 1) + 1 = m
  BY <1>2
<1> QED
  BY <1>2, <1>5, <1>6

(* Sequences with the same elements are the same.                           *)
LEMMA SameText ==
  \A S : \A a, b \in Seq(S) :
     (Len(a) = Len(b) /\ \A i \in 1 .. Len(a) : a[i] = b[i]) => a = b
<1> TAKE S
<1> TAKE a, b \in Seq(S)
<1> HAVE Len(a) = Len(b) /\ \A i \in 1 .. Len(a) : a[i] = b[i]
<1> QED OBVIOUS

(* A part of a sequence. *)
LEMMA PartOfText ==
  ASSUME NEW S, NEW w \in Seq(S), NEW m \in Nat, NEW n \in Nat, m <= n, n <= Len(w)
  PROVE  /\ SubSeq(w, m + 1, n) \in Seq(S)
         /\ Len(SubSeq(w, m + 1, n)) = n - m
         /\ \A i \in 1 .. n - m : SubSeq(w, m + 1, n)[i] = w[m + i]
<1>1. \A i \in m + 1 .. n : w[i] \in S
  OBVIOUS
<1>2. SubSeq(w, m + 1, n) \in Seq(S)
  BY <1>1
<1>3. Len(SubSeq(w, m + 1, n)) = n - m
  OBVIOUS
<1>4. \A i \in 1 .. n - m : SubSeq(w, m + 1, n)[i] = w[m + i]
  <2> TAKE i \in 1 .. n - m
  <2>1. i + (m + 1) - 1 = m + i
    OBVIOUS
  <2> QED
    BY <2>1
<1> QED
  BY <1>2, <1>3, <1>4

(* The number of elements of D that are at most i.                         *)
Rank(D, i) == Cardinality({j \in D : j <= i})

(* Ranks go up by one at each element of D. *)
LEMMA RankFacts ==
  ASSUME NEW n \in Nat, NEW D, D \subseteq 1 .. n
  PROVE  /\ IsFiniteSet(D) /\ Rank(D, 0) = 0 /\ Rank(D, n) = Cardinality(D)
         /\ \A i \in 0 .. n : Rank(D, i) \in Nat
         /\ \A i \in 1 .. n : Rank(D, i) = Rank(D, i - 1) + (IF i \in D THEN 1 ELSE 0)
         /\ \A i, k \in 0 .. n : i <= k => Rank(D, i) <= Rank(D, k)
<1>0. \A j \in D : j \in Int /\ 0 < j /\ j <= n
  OBVIOUS
<1>1. IsFiniteSet(D)
  <2>1. IsFiniteSet(1 .. n)
    BY FS_Interval
  <2> QED
    BY <2>1, FS_Subset
<1>2. ASSUME NEW i \in 0 .. n
      PROVE  IsFiniteSet({j \in D : j <= i}) /\ Rank(D, i) \in Nat
  BY <1>1, FS_Subset, FS_CardinalityType DEF Rank
<1>3. Rank(D, 0) = 0
  <2>1. {j \in D : j <= 0} = {}
    <3>1. \A j \in D : ~(j <= 0)
      BY <1>0
    <3> QED
      BY <3>1
  <2> QED
    BY <2>1, FS_EmptySet DEF Rank
<1>4. Rank(D, n) = Cardinality(D)
  <2>1. {j \in D : j <= n} = D
    BY <1>0
  <2> QED
    BY <2>1 DEF Rank
<1>5. ASSUME NEW i \in 1 .. n
      PROVE  Rank(D, i) = Rank(D, i - 1) + (IF i \in D THEN 1 ELSE 0)
  <2> DEFINE L == {j \in D : j <= i - 1}
  <2>0. i \in Int /\ i - 1 \in 0 .. n /\ \A j \in D : j <= i <=> (j <= i - 1 \/ j = i)
    BY <1>0
  <2>1. IsFiniteSet(L) /\ i \notin L /\ Cardinality(L) \in Nat /\ Cardinality(L) = Rank(D, i - 1)
    <3>1. i \notin L
      BY <2>0
    <3>2. Cardinality(L) = Rank(D, i - 1)
      BY DEF Rank
    <3> QED
      BY <1>2, <2>0, <3>1, <3>2
  <2>2. CASE i \in D
    <3>1. {j \in D : j <= i} = L \cup {i}
      BY <2>0, <2>2
    <3> HIDE DEF L
    <3> QED
      BY <2>1, <2>2, <3>1, FS_AddElement DEF Rank, L
  <2>3. CASE i \notin D
    <3>1. {j \in D : j <= i} = L
      BY <2>0, <2>3
    <3>2. Rank(D, i) = Cardinality(L)
      BY <3>1 DEF Rank
    <3> HIDE DEF L
    <3> QED
      BY <2>1, <2>3, <3>2
  <2> QED
    BY <2>2, <2>3
<1>6. ASSUME NEW i \in 0 .. n, NEW k \in 0 .. n, i <= k PROVE Rank(D, i) <= Rank(D, k)
  <2>1. {j \in D : j <= i} \subseteq {j \in D : j <= k}
    <3>1. \A j \in D : j <= i => j <= k
      BY <1>0, <1>6
    <3> QED
      BY <3>1
  <2> QED
    BY <1>2, <2>1, FS_Subset DEF Rank
<1> QED
  BY <1>1, <1>2, <1>3, <1>4, <1>5, <1>6

(* There is a function over 0 .. n that starts with a and goes on with g.   *)
Looped(n, T, a, g) ==
    \E f \in [0 .. n -> T] : f[0] = a /\ \A i \in 1 .. n : f[i] = g[i][f[i - 1]]

(* Such a function exists, by induction on its length.                      *)
LEMMA Loops ==
  ASSUME NEW n \in Nat, NEW T, NEW a \in T, NEW g \in [1 .. n -> [T -> T]]
  PROVE  Looped(n, T, a, g)
<1> DEFINE Upto(f, k) == f[0] = a /\ \A i \in 1 .. k : f[i] = g[i][f[i - 1]]
           S == {k \in Nat : \E f \in [0 .. k -> T] : Upto(f, k)}
<1>1. 0 \in S
  <2>1. [i \in 0 .. 0 |-> a] \in [0 .. 0 -> T] /\ Upto([i \in 0 .. 0 |-> a], 0)
    OBVIOUS
  <2> QED
    BY <2>1
<1>2. ASSUME NEW k \in 0 .. n - 1, k \in S PROVE k + 1 \in S
  <2>1. PICK f \in [0 .. k -> T] : Upto(f, k)
    BY <1>2
  <2> DEFINE h == [i \in 0 .. k + 1 |-> IF i \in 0 .. k THEN f[i] ELSE g[k + 1][f[k]]]
  <2>2. k \in Nat /\ k \in 0 .. k /\ k + 1 \in 1 .. n
    OBVIOUS
  <2>3. h \in [0 .. k + 1 -> T]
    <3>1. f[k] \in T /\ g[k + 1] \in [T -> T]
      BY <2>2
    <3> QED
      BY <3>1
  <2>4. h[0] = a
    BY <2>1, <2>2
  <2>5. ASSUME NEW i \in 1 .. k + 1 PROVE h[i] = g[i][h[i - 1]]
    <3>1. CASE i \in 1 .. k
      <4>1. i - 1 \in 0 .. k /\ i - 1 \in 0 .. k + 1 /\ i \in 0 .. k /\ i \in 0 .. k + 1
        BY <2>2, <3>1
      <4>2. h[i] = f[i] /\ h[i - 1] = f[i - 1]
        BY <4>1
      <4> QED
        BY <2>1, <3>1, <4>2
    <3>2. CASE i = k + 1
      <4>1. i - 1 = k /\ k \in 0 .. k + 1 /\ i \notin 0 .. k /\ i \in 0 .. k + 1
        BY <2>2, <3>2
      <4>2. h[i] = g[i][f[k]] /\ h[i - 1] = f[k]
        BY <2>2, <3>2, <4>1
      <4> QED
        BY <4>2
    <3>3. i \in 1 .. k \/ i = k + 1
      BY <2>2
    <3> QED
      BY <3>1, <3>2, <3>3
  <2> HIDE DEF h
  <2>6. \E r \in [0 .. k + 1 -> T] : Upto(r, k + 1)
    BY <2>3, <2>4, <2>5
  <2> QED
    <3>1. k + 1 \in Nat
      BY <2>2
    <3> QED
      BY <2>6, <3>1
<1>3. n \in S
  <2> HIDE DEF S
  <2>1. 0 .. n \subseteq S
    BY <1>1, <1>2, PlacesUpwards
  <2> QED
    BY <2>1
<1> QED
  BY <1>3 DEF Looped

(* parse_singbox_json: by the i-th outbound, the pairs seen are those of    *)
(* the usable outbounds so far, and the list has one entry for each.        *)
LEMMA DocumentsOnce ==
  ASSUME NEW O, NEW outs \in Seq(O)
  PROVE  ListsOnce(ParseSingbox(outs), outs)
<1> DEFINE n      == Len(outs)
           key(i) == <<outs[i].server, outs[i].port>>
           S      == {key(i) : i \in 1 .. n}
           P      == {Outbound(outs[i]) : i \in 1 .. n}
           T      == [seen : SUBSET S, list : Seq(P)]
           a      == [seen |-> {}, list |-> <<>>]
           D      == {i \in 1 .. n : /\ Usable(outs[i])
                                     /\ \A j \in 1 .. i - 1 : Usable(outs[j]) => key(i) # key(j)}
<1>1. n \in Nat /\ DOMAIN outs = 1 .. n /\ a \in T
  <2>1. <<>> \in Seq(P)
    OBVIOUS
  <2> QED
    BY <2>1
<1>2. ASSUME NEW t \in T, NEW i \in 1 .. n PROVE Taken(t, outs[i]) \in T
  <2>1. t.seen \subseteq S /\ t.list \in Seq(P) /\ key(i) \in S /\ Outbound(outs[i]) \in P
    OBVIOUS
  <2> HIDE DEF S, P
  <2>2. Append(t.list, Outbound(outs[i])) \in Seq(P)
    BY <2>1
  <2> QED
    BY <2>1, <2>2 DEF Taken
<1>3. PICK A : /\ ParseSingbox(outs) = A[n].list /\ A[0] = a
               /\ \A i \in 1 .. n : A[i] = Taken(A[i - 1], outs[i])
  <2> DEFINE g == [i \in 1 .. n |-> [t \in T |-> Taken(t, outs[i])]]
  <2>1. g \in [1 .. n -> [T -> T]] /\ \A i \in 1 .. n, t \in T : g[i][t] = Taken(t, outs[i])
    <3> HIDE DEF T
    <3> QED
      BY <1>2
  <2> HIDE DEF T, g, a
  <2>2. Looped(n, T, a, g)
    BY <1>1, <2>1, Loops
  <2>3. PICK f \in [0 .. n -> T] : f[0] = a /\ \A i \in 1 .. n : f[i] = g[i][f[i - 1]]
    BY <2>2 DEF Looped
  <2>4. ASSUME NEW i \in 0 .. n
        PROVE  f[i] = IF i = 0 THEN a ELSE Taken(f[i - 1], outs[i])
    <3>1. CASE i = 0
      BY <2>3, <3>1
    <3>2. CASE i # 0
      <4>1. i \in 1 .. n /\ i - 1 \in 0 .. n
        BY <1>1, <3>2
      <4>2. f[i] = g[i][f[i - 1]] /\ f[i - 1] \in T
        BY <2>3, <4>1
      <4> QED
        BY <2>1, <3>2, <4>1, <4>2
    <3> QED
      BY <3>1, <3>2
  <2> DEFINE A == CHOOSE acc : acc = [i \in 0 .. n |-> IF i = 0 THEN a ELSE Taken(acc[i - 1], outs[i])]
  <2>5. f = [i \in 0 .. n |-> IF i = 0 THEN a ELSE Taken(f[i - 1], outs[i])]
    BY <2>3, <2>4
  <2>6. A = [i \in 0 .. n |-> IF i = 0 THEN a ELSE Taken(A[i - 1], outs[i])]
    BY <2>5
  <2>7. ParseSingbox(outs) = A[n].list
    BY DEF ParseSingbox, a
  <2> HIDE DEF A
  <2>8. ASSUME NEW i \in 0 .. n PROVE A[i] = IF i = 0 THEN a ELSE Taken(A[i - 1], outs[i])
    BY <2>6, Zenon
  <2>9. A[0] = a /\ \A i \in 1 .. n : A[i] = Taken(A[i - 1], outs[i])
    BY <1>1, <2>8
  <2> QED
    BY <2>7, <2>9

<1> DEFINE Seen(k)    == {key(j) : j \in {i \in 1 .. k : Usable(outs[i])}}
           Listed(k)  == /\ A[k].seen = Seen(k)
                         /\ A[k].list \in Seq(P) /\ Len(A[k].list) = Rank(D, k)
                         /\ \A i \in D : i <= k => A[k].list[Rank(D, i)] = Outbound(outs[i])
           K          == {k \in 0 .. n : Listed(k)}
<1>4. D \subseteq 1 .. n
  OBVIOUS
<1>5. /\ Rank(D, 0) = 0 /\ Rank(D, n) = Cardinality(D)
      /\ \A i \in 0 .. n : Rank(D, i) \in Nat
      /\ \A i \in 1 .. n : Rank(D, i) = Rank(D, i - 1) + (IF i \in D THEN 1 ELSE 0)
      /\ \A i, k \in 0 .. n : i <= k => Rank(D, i) <= Rank(D, k)
  <2> HIDE DEF D, n
  <2> QED
    BY <1>1, <1>4, RankFacts
<1>6. 0 \in K
  <2>1. 0 \in 0 .. n /\ A[0].seen = {} /\ A[0].list = <<>> /\ <<>> \in Seq(P) /\ Len(<<>>) = 0
    BY <1>1, <1>3
  <2>2. Seen(0) = {}
    OBVIOUS
  <2>3. \A i \in D : ~(i <= 0)
    BY <1>4
  <2> HIDE DEF D, P, Seen
  <2> QED
    BY <1>5, <2>1, <2>2, <2>3
<1>7. ASSUME NEW k \in 0 .. n - 1, k \in K PROVE k + 1 \in K
  <2> DEFINE o == outs[k + 1]
             l == A[k].list
  <2>1. /\ k + 1 \in 1 .. n /\ k \in 0 .. n /\ k + 1 \in 0 .. n /\ (k + 1) - 1 = k
        /\ k \in Nat /\ \A i \in D : i \in Nat /\ (i <= k + 1 <=> (i <= k \/ i = k + 1))
    BY <1>1, <1>4
  <2>2. Listed(k) /\ l \in Seq(P) /\ Len(l) = Rank(D, k) /\ Outbound(o) \in P
    BY <1>7, <2>1
  <2>3. A[k + 1] = Taken(A[k], o) /\ Rank(D, k + 1) = Rank(D, k) + (IF k + 1 \in D THEN 1 ELSE 0)
    BY <1>3, <1>5, <2>1
  <2>4. Seen(k + 1) = IF Usable(o) THEN Seen(k) \cup {key(k + 1)} ELSE Seen(k)
    <3>1. \A i : i \in 1 .. k + 1 <=> (i \in 1 .. k \/ i = k + 1)
      BY <2>1
    <3> QED
      BY <3>1
  <2>5. k + 1 \in D <=> Usable(o) /\ key(k + 1) \notin Seen(k)
    BY <2>1
  <2>6. A[k].seen = Seen(k) /\ key(k + 1) = <<o.server, o.port>>
    BY <2>2
  <2>7. ASSUME NEW i \in D, i <= k PROVE Rank(D, i) \in 1 .. Rank(D, k)
    <3>1. i \in 1 .. n /\ i - 1 \in 0 .. n /\ i \in 0 .. n
      BY <1>1, <1>4
    <3>2. Rank(D, i) = Rank(D, i - 1) + 1 /\ Rank(D, i - 1) \in Nat
      BY <1>5, <2>7, <3>1
    <3>3. Rank(D, i) <= Rank(D, k) /\ Rank(D, k) \in Nat
      BY <1>5, <2>1, <2>7, <3>1
    <3> QED
      BY <3>2, <3>3
  <2>8. CASE k + 1 \in D
    <3>1. A[k + 1].seen = Seen(k) \cup {key(k + 1)} /\ A[k + 1].list = Append(l, Outbound(o))
      BY <2>3, <2>5, <2>6, <2>8 DEF Taken, IsNew
    <3>2. Rank(D, k + 1) = Rank(D, k) + 1 /\ Rank(D, k) \in Nat
      BY <1>5, <2>1, <2>3, <2>8
    <3> HIDE DEF l, o, D, P, Seen
    <3>3. /\ Append(l, Outbound(o)) \in Seq(P)
          /\ Len(Append(l, Outbound(o))) = Rank(D, k + 1)
          /\ \A r \in 1 .. Rank(D, k) : Append(l, Outbound(o))[r] = l[r]
          /\ Append(l, Outbound(o))[Rank(D, k + 1)] = Outbound(o)
      BY <2>2, <3>2
    <3>4. ASSUME NEW i \in D, i <= k + 1
          PROVE  A[k + 1].list[Rank(D, i)] = Outbound(outs[i])
      <4>1. CASE i <= k
        <5>1. l[Rank(D, i)] = Outbound(outs[i])
          BY <2>2, <4>1 DEF l
        <5> QED
          BY <2>7, <3>1, <3>3, <4>1, <5>1
      <4>2. CASE i = k + 1
        BY <3>1, <3>3, <4>2 DEF o
      <4> QED
        BY <2>1, <3>4, <4>1, <4>2
    <3>5. A[k + 1].seen = Seen(k + 1)
      BY <2>4, <2>5, <2>8, <3>1
    <3> QED
      BY <2>1, <3>1, <3>3, <3>4, <3>5
  <2>9. CASE k + 1 \notin D
    <3>1. A[k + 1] = A[k]
      BY <2>3, <2>5, <2>6, <2>9 DEF Taken, IsNew
    <3>2. Seen(k + 1) = Seen(k)
      BY <2>4, <2>5, <2>9
    <3>3. \A i \in D : i <= k + 1 => i <= k
      BY <2>1, <2>9
    <3>4. Rank(D, k + 1) = Rank(D, k)
      BY <1>5, <2>1, <2>3, <2>9
    <3> HIDE DEF D, P, Seen
    <3> QED
      BY <2>1, <2>2, <3>1, <3>2, <3>3, <3>4
  <2> QED
    BY <2>8, <2>9
<1>8. n \in K
  <2> HIDE DEF K
  <2>1. 0 .. n \subseteq K
    BY <1>1, <1>6, <1>7, PlacesUpwards
  <2> QED
    BY <1>1, <2>1
<1>9. \A i \in D : i <= n
  BY <1>1, <1>4
<1>10. /\ Len(ParseSingbox(outs)) = Cardinality(D)
       /\ \A i \in D : ParseSingbox(outs)[Rank(D, i)] = Outbound(outs[i])
  BY <1>3, <1>5, <1>8, <1>9
<1> QED
  BY <1>1, <1>10 DEF ListsOnce, Rank

(* The lines of a page: a profile for each good one, unless one is bad.     *)
LEMMA PagesCounted ==
  ASSUME NEW lines \in Seq({"blank", "good", "bad"})
  PROVE  Len(ParseLines(lines)) =
           IF \E i \in DOMAIN lines : lines[i] = "bad" THEN 0
           ELSE Cardinality({i \in DOMAIN lines : lines[i] = "good"})
<1> DEFINE n       == Len(lines)
           W       == {"blank", "good", "bad"}
           T       == Seq(W)
           a       == <<>>
           D       == {i \in DOMAIN lines : lines[i] = "good"}
           Joined(t, x) == IF x = "blank" THEN t ELSE Append(t, x)
<1>1. n \in Nat /\ DOMAIN lines = 1 .. n /\ a \in T /\ D \subseteq 1 .. n
      /\ \A i \in 1 .. n : lines[i] \in W
  OBVIOUS
<1>2. CASE \E i \in DOMAIN lines : lines[i] = "bad"
  <2>1. ParseLines(lines) = <<>>
    BY <1>2 DEF ParseLines
  <2> QED
    BY <1>2, <2>1
<1>3. CASE ~ \E i \in DOMAIN lines : lines[i] = "bad"
  <2>1. ASSUME NEW t \in T, NEW i \in 1 .. n PROVE Joined(t, lines[i]) \in T
    <3>1. Append(t, lines[i]) \in Seq(W)
      BY <1>1
    <3> QED
      BY <3>1
  <2>2. PICK A : /\ ParseLines(lines) = A[n] /\ A[0] = a
                 /\ \A i \in 1 .. n : A[i] = Joined(A[i - 1], lines[i])
    <3> DEFINE g == [i \in 1 .. n |-> [t \in T |-> Joined(t, lines[i])]]
    <3>1. g \in [1 .. n -> [T -> T]] /\ \A i \in 1 .. n, t \in T : g[i][t] = Joined(t, lines[i])
      <4> HIDE DEF T, Joined
      <4> QED
        BY <2>1
    <3> HIDE DEF T, g, a, Joined
    <3>2. Looped(n, T, a, g)
      BY <1>1, <3>1, Loops
    <3>3. PICK f \in [0 .. n -> T] : f[0] = a /\ \A i \in 1 .. n : f[i] = g[i][f[i - 1]]
      BY <3>2 DEF Looped
    <3>4. ASSUME NEW i \in 0 .. n
          PROVE  f[i] = IF i = 0 THEN a ELSE Joined(f[i - 1], lines[i])
      <4>1. CASE i = 0
        BY <3>3, <4>1
      <4>2. CASE i # 0
        <5>1. i \in 1 .. n /\ i - 1 \in 0 .. n
          BY <1>1, <4>2
        <5>2. f[i] = g[i][f[i - 1]] /\ f[i - 1] \in T
          BY <3>3, <5>1
        <5> QED
          BY <3>1, <4>2, <5>1, <5>2
      <4> QED
        BY <4>1, <4>2
    <3> DEFINE A == CHOOSE r : r = [i \in 0 .. n |-> IF i = 0 THEN a ELSE Joined(r[i - 1], lines[i])]
    <3>5. f = [i \in 0 .. n |-> IF i = 0 THEN a ELSE Joined(f[i - 1], lines[i])]
      BY <3>3, <3>4
    <3>6. A = [i \in 0 .. n |-> IF i = 0 THEN a ELSE Joined(A[i - 1], lines[i])]
      BY <3>5
    <3>7. ParseLines(lines) = A[n]
      BY <1>3 DEF ParseLines, a, Joined
    <3> HIDE DEF A
    <3>8. ASSUME NEW i \in 0 .. n PROVE A[i] = IF i = 0 THEN a ELSE Joined(A[i - 1], lines[i])
      BY <3>6, Zenon
    <3>9. A[0] = a /\ \A i \in 1 .. n : A[i] = Joined(A[i - 1], lines[i])
      BY <1>1, <3>8
    <3> QED
      BY <3>7, <3>9
  <2> DEFINE K == {k \in 0 .. n : A[k] \in Seq(W) /\ Len(A[k]) = Rank(D, k)}
  <2>3. /\ Rank(D, 0) = 0 /\ Rank(D, n) = Cardinality(D)
        /\ \A i \in 0 .. n : Rank(D, i) \in Nat
        /\ \A i \in 1 .. n : Rank(D, i) = Rank(D, i - 1) + (IF i \in D THEN 1 ELSE 0)
    <3> HIDE DEF D, n
    <3> QED
      BY <1>1, RankFacts
  <2>4. 0 \in K
    <3>1. A[0] = <<>> /\ 0 \in 0 .. n /\ <<>> \in Seq(W) /\ Len(<<>>) = 0
      BY <1>1, <2>2
    <3> HIDE DEF D, W
    <3> QED
      BY <2>3, <3>1
  <2>5. ASSUME NEW k \in 0 .. n - 1, k \in K PROVE k + 1 \in K
    <3>1. k + 1 \in 1 .. n /\ k \in 0 .. n /\ k + 1 \in 0 .. n /\ (k + 1) - 1 = k
      BY <1>1
    <3>2. /\ A[k] \in Seq(W) /\ Len(A[k]) = Rank(D, k) /\ Rank(D, k) \in Nat
          /\ A[k + 1] = Joined(A[k], lines[k + 1])
          /\ Rank(D, k + 1) = Rank(D, k) + (IF k + 1 \in D THEN 1 ELSE 0)
      BY <2>2, <2>3, <2>5, <3>1
    <3>3. /\ lines[k + 1] \in W /\ lines[k + 1] # "bad"
          /\ k + 1 \in D <=> lines[k + 1] = "good"
      BY <1>1, <1>3, <3>1
    <3>4. CASE lines[k + 1] = "blank"
      BY <3>1, <3>2, <3>3, <3>4
    <3>5. CASE lines[k + 1] = "good"
      <4>1. A[k + 1] = Append(A[k], "good") /\ Rank(D, k + 1) = Rank(D, k) + 1
        BY <3>2, <3>3, <3>5
      <4>2. Append(A[k], "good") \in Seq(W) /\ Len(Append(A[k], "good")) = Len(A[k]) + 1
        <5>1. "good" \in W
          OBVIOUS
        <5> HIDE DEF W
        <5> QED
          BY <3>2, <5>1
      <4> HIDE DEF D, W
      <4> QED
        BY <3>1, <3>2, <4>1, <4>2
    <3> QED
      BY <3>3, <3>4, <3>5
  <2>6. n \in K
    <3> HIDE DEF K
    <3>1. 0 .. n \subseteq K
      BY <1>1, <2>4, <2>5, PlacesUpwards
    <3> QED
      BY <1>1, <3>1
  <2> QED
    BY <1>3, <2>2, <2>3, <2>6
<1> QED
  BY <1>2, <1>3

-----------------------------------------------------------------------------
(* Where the first c of a text is.                                         *)
LEMMA FirstFacts ==
  ASSUME NEW S, NEW text \in Seq(S), NEW c
  PROVE  /\ FirstOf(text, c) \in 0 .. Len(text)
         /\ FirstOf(text, c) = 0 <=> \A i \in 1 .. Len(text) : text[i] # c
         /\ FirstOf(text, c) # 0 => /\ text[FirstOf(text, c)] = c
                                    /\ \A i \in 1 .. FirstOf(text, c) - 1 : text[i] # c
<1> DEFINE P == Places(text, c)
<1>1. Len(text) \in Nat /\ P \subseteq 1 .. Len(text) /\ P \subseteq Nat
      /\ \A i \in 1 .. Len(text) : i \in P <=> text[i] = c
  BY DEF Places
<1>2. CASE P = {}
  <2>1. FirstOf(text, c) = 0
    BY <1>2 DEF FirstOf
  <2> HIDE DEF P
  <2> QED
    BY <1>1, <1>2, <2>1
<1>3. CASE P # {}
  <2> DEFINE f == CHOOSE i \in P : \A j \in P : i <= j
  <2>1. FirstOf(text, c) = f
    BY <1>3 DEF FirstOf
  <2> HIDE DEF P
  <2>2. f \in P /\ \A j \in P : f <= j
    <3>1. \E i \in P : \A j \in P : i <= j
      BY <1>1, <1>3, LeastPlace
    <3> QED
      BY <3>1
  <2> HIDE DEF f
  <2>3. f \in 1 .. Len(text) /\ f # 0 /\ text[f] = c
    BY <1>1, <2>2
  <2>4. \A i \in 1 .. f - 1 : text[i] # c
    <3> TAKE i \in 1 .. f - 1
    <3>1. i \in 1 .. Len(text) /\ ~(f <= i)
      BY <1>1, <2>3
    <3> QED
      BY <1>1, <2>2, <3>1
  <2> QED
    BY <1>1, <2>1, <2>3, <2>4
<1> QED
  BY <1>2, <1>3

(* And the last one.                                                       *)
LEMMA LastFacts ==
  ASSUME NEW S, NEW text \in Seq(S), NEW c
  PROVE  /\ LastOf(text, c) \in 0 .. Len(text)
         /\ LastOf(text, c) = 0 <=> \A i \in 1 .. Len(text) : text[i] # c
         /\ LastOf(text, c) # 0 =>
               /\ text[LastOf(text, c)] = c
               /\ \A i \in LastOf(text, c) + 1 .. Len(text) : text[i] # c
<1> DEFINE P == Places(text, c)
<1>1. Len(text) \in Nat /\ P \subseteq 1 .. Len(text) /\ P \subseteq Nat
      /\ \A i \in 1 .. Len(text) : i \in P <=> text[i] = c
  BY DEF Places
<1>2. CASE P = {}
  <2>1. LastOf(text, c) = 0
    BY <1>2 DEF LastOf
  <2> HIDE DEF P
  <2> QED
    BY <1>1, <1>2, <2>1
<1>3. CASE P # {}
  <2> DEFINE f == CHOOSE i \in P : \A j \in P : j <= i
  <2>1. LastOf(text, c) = f
    BY <1>3 DEF LastOf
  <2> HIDE DEF P
  <2>2. f \in P /\ \A j \in P : j <= f
    <3> DEFINE R == {Len(text) - i : i \in P}
    <3>1. R \subseteq Nat /\ R # {}
      <4>1. \A i \in P : Len(text) - i \in Nat
        BY <1>1
      <4> QED
        BY <1>3, <4>1
    <3>2. PICK m \in R : \A r \in R : m <= r
      <4> HIDE DEF R
      <4> QED
        BY <3>1, LeastPlace
    <3>3. PICK i \in P : m = Len(text) - i
      BY <3>2
    <3>4. \A j \in P : j <= i
      <4> TAKE j \in P
      <4>1. Len(text) - j \in R
        OBVIOUS
      <4>2. Len(text) - i <= Len(text) - j
        BY <3>2, <3>3, <4>1
      <4>3. i \in Int /\ j \in Int
        BY <1>1
      <4> HIDE DEF R
      <4> QED
        BY <1>1, <4>2, <4>3
    <3> QED
      BY <3>4
  <2> HIDE DEF f
  <2>3. f \in 1 .. Len(text) /\ f # 0 /\ text[f] = c
    BY <1>1, <2>2
  <2>4. \A i \in f + 1 .. Len(text) : text[i] # c
    <3> TAKE i \in f + 1 .. Len(text)
    <3>1. i \in 1 .. Len(text) /\ ~(i <= f)
      BY <1>1, <2>3
    <3> QED
      BY <1>1, <2>2, <3>1
  <2> QED
    BY <1>1, <2>1, <2>3, <2>4
<1> QED
  BY <1>2, <1>3

(* A part of a part.                                                       *)
LEMMA Inner ==
  ASSUME NEW S, NEW s \in Seq(S), NEW u \in Nat, NEW v \in Nat, u <= v, v <= Len(s),
         NEW x \in Nat, NEW y \in Nat, x <= y, y <= v - u
  PROVE  SubSeq(SubSeq(s, u + 1, v), x + 1, y) = SubSeq(s, u + x + 1, u + y)
<1> DEFINE a == SubSeq(s, u + 1, v)
           b == SubSeq(a, x + 1, y)
           d == SubSeq(s, u + x + 1, u + y)
<1>1. a \in Seq(S) /\ Len(a) = v - u /\ \A i \in 1 .. v - u : a[i] = s[u + i]
  BY PartOfText
<1>2. /\ u + x \in Nat /\ u + y \in Nat /\ u + x <= u + y /\ u + y <= Len(s)
      /\ (u + y) - (u + x) = y - x /\ y <= Len(s) /\ y - x \in Nat
  OBVIOUS
<1>3. d \in Seq(S) /\ Len(d) = y - x /\ \A i \in 1 .. y - x : d[i] = s[u + x + i]
  BY <1>2, PartOfText
<1> HIDE DEF a, d
<1>4. b \in Seq(S) /\ Len(b) = y - x /\ \A i \in 1 .. y - x : b[i] = a[x + i]
  BY <1>1, <1>2, PartOfText
<1>5. \A i \in 1 .. y - x : b[i] = d[i]
  <2> TAKE i \in 1 .. y - x
  <2>1. x + i \in 1 .. v - u /\ u + (x + i) = u + x + i
    OBVIOUS
  <2> QED
    BY <1>1, <1>3, <1>4, <2>1
<1>6. b = d
  <2> HIDE DEF b
  <2> QED
    BY <1>3, <1>4, <1>5, SameText
<1> QED
  BY <1>6 DEF a, d

(* What strip_query_and_fragment leaves by splitting.                      *)
LEMMA UntilFacts ==
  ASSUME NEW S, NEW text \in Seq(S), NEW c
  PROVE  Until(text, c) = SubSeq(text, 1, (IF FirstOf(text, c) = 0 THEN Len(text) + 1
                                           ELSE FirstOf(text, c)) - 1)
<1>1. CASE FirstOf(text, c) = 0
  <2>1. SubSeq(text, 1, Len(text)) = text
    <3> DEFINE r == SubSeq(text, 0 + 1, Len(text))
    <3>1. r \in Seq(S) /\ Len(r) = Len(text) /\ \A i \in 1 .. Len(text) : r[i] = text[i]
      <4>1. Len(text) \in Nat /\ 0 \in Nat /\ Len(text) - 0 = Len(text)
        OBVIOUS
      <4>2. r \in Seq(S) /\ Len(r) = Len(text) - 0
            /\ \A i \in 1 .. Len(text) - 0 : r[i] = text[0 + i]
        BY <4>1, PartOfText
      <4> HIDE DEF r
      <4> QED
        BY <4>1, <4>2
    <3>2. r = text
      <4> HIDE DEF r
      <4> QED
        BY <3>1, SameText
    <3> QED
      BY <3>2
  <2>2. (Len(text) + 1) - 1 = Len(text)
    OBVIOUS
  <2> QED
    BY <1>1, <2>1, <2>2 DEF Until
<1>2. CASE FirstOf(text, c) # 0
  BY <1>2 DEF Until, Before
<1> QED
  BY <1>1, <1>2

(* parse_subscription_url and its helpers find the parts of a link where    *)
(* they are written, wherever else there are delimiters.                    *)
LEMMA LinksAsWritten ==
  ASSUME NEW scheme, NEW rest \in Seq(Tokens)
  PROVE  /\ Len(ParseLink(scheme, rest)) = Cardinality(Written(scheme, rest))
         /\ \A p \in Written(scheme, rest) : ParseLink(scheme, rest) = <<p>>
<1> DEFINE n     == Len(rest)
           hash  == {i \in 1 .. n : rest[i] = "#"}
           stops == {i \in 1 .. n : rest[i] \in {"?", "#"}}
           ends  == IF stops = {} THEN n + 1 ELSE CHOOSE i \in stops : \A j \in stops : i <= j
           mark  == IF hash = {} THEN n + 1 ELSE CHOOSE i \in hash : \A j \in hash : i <= j
           part(i, j) == SubSeq(rest, i + 1, j - 1)
           Q     == {q \in (1 .. ends - 1) \X (1 .. ends - 1) :
                       /\ rest[q[1]] = "@" /\ rest[q[2]] = ":" /\ q[1] + 1 < q[2]
                       /\ \A i \in 1 .. q[1] - 1 : rest[i] # "@"
                       /\ part(q[2], ends) = <<Digits>>
                       /\ Credentials(scheme, part(0, q[1]))}
           Rec(p) == [protocol |-> scheme, user |-> part(0, p[1]), server |-> part(p[1], p[2]),
                      name   |-> IF hash = {} THEN part(p[1], p[2]) ELSE part(mark, n + 1),
                      params |-> IF scheme = "vless" /\ ends < mark /\ ends <= n
                                 THEN {part(ends, mark)} ELSE {}]
           f     == FirstOf(rest, "#")
           text1 == Until(rest, "#")
           query == FirstOf(text1, "?")
           body  == StripQueryAndFragment(rest)
           at    == FirstOf(body, "@")
           userInfo == Before(body, at)
           text  == After(body, at)
           h     == HostEnd(text)
           host  == Before(text, h)
           port  == After(text, h)
           Good  == ~(\/ at = 0 \/ ~Credentials(scheme, userInfo)
                      \/ h = 0 \/ port # <<Digits>> \/ host = <<>>)
<1>1. Written(scheme, rest) = {Rec(p) : p \in Q}
  BY DEF Written
<1>2. ParseLink(scheme, rest) = IF Good THEN <<Profile(scheme, userInfo, host, rest)>> ELSE <<>>
  BY DEF ParseLink
<1>3. /\ n \in Nat /\ f \in 0 .. n
      /\ f = 0 <=> \A i \in 1 .. n : rest[i] # "#"
      /\ f # 0 => rest[f] = "#" /\ \A i \in 1 .. f - 1 : rest[i] # "#"
  BY FirstFacts
<1>4. /\ mark = IF f = 0 THEN n + 1 ELSE f
      /\ hash = {} <=> f = 0
  <2>2. f = IF hash = {} THEN 0 ELSE CHOOSE i \in hash : \A j \in hash : i <= j
    BY DEF FirstOf, Places
  <2>3. hash = {} <=> f = 0
    BY <1>3
  <2> HIDE DEF hash, f
  <2> QED
    BY <2>2, <2>3
<1> HIDE DEF f
<1>5. /\ mark \in 1 .. n + 1 /\ mark - 1 <= n /\ mark - 1 \in Nat
      /\ \A i \in 1 .. mark - 1 : rest[i] # "#"
      /\ mark <= n => rest[mark] = "#"
  <2> HIDE DEF mark
  <2> QED
    BY <1>3, <1>4
<1>6. /\ text1 = SubSeq(rest, 1, mark - 1) /\ text1 \in Seq(Tokens) /\ Len(text1) = mark - 1
      /\ \A i \in 1 .. mark - 1 : text1[i] = rest[i]
  <2>1. text1 = SubSeq(rest, 0 + 1, mark - 1)
    <3>1. text1 = SubSeq(rest, 1, (IF FirstOf(rest, "#") = 0 THEN Len(rest) + 1
                                   ELSE FirstOf(rest, "#")) - 1)
      BY UntilFacts
    <3>2. mark = IF FirstOf(rest, "#") = 0 THEN Len(rest) + 1 ELSE FirstOf(rest, "#")
      BY <1>4 DEF f
    <3> HIDE DEF mark, text1
    <3>3. text1 = SubSeq(rest, 1, mark - 1) /\ 0 + 1 = 1
      BY <3>1, <3>2
    <3> QED
      BY <3>3
  <2>2. (mark - 1) - 0 = mark - 1 /\ 0 \in Nat /\ 0 + 1 = 1
    BY <1>5
  <2> HIDE DEF text1, mark
  <2>3. SubSeq(rest, 0 + 1, mark - 1) \in Seq(Tokens)
        /\ Len(SubSeq(rest, 0 + 1, mark - 1)) = (mark - 1) - 0
        /\ \A i \in 1 .. (mark - 1) - 0 : SubSeq(rest, 0 + 1, mark - 1)[i] = rest[0 + i]
    BY <1>3, <1>5, <2>2, PartOfText
  <2>4. \A i \in 1 .. mark - 1 : 0 + i = i
    BY <1>5
  <2> QED
    BY <2>1, <2>2, <2>3, <2>4
<1> HIDE DEF mark, hash, text1
<1>7. /\ query \in 0 .. mark - 1
      /\ query = 0 <=> \A i \in 1 .. mark - 1 : rest[i] # "?"
      /\ query # 0 => rest[query] = "?" /\ \A i \in 1 .. query - 1 : rest[i] # "?"
  <2>1. /\ query \in 0 .. Len(text1)
        /\ query = 0 <=> \A i \in 1 .. Len(text1) : text1[i] # "?"
        /\ query # 0 => text1[query] = "?" /\ \A i \in 1 .. query - 1 : text1[i] # "?"
    <3>1. text1 \in Seq(Tokens)
      BY <1>6
    <3> QED
      BY <3>1, FirstFacts
  <2> HIDE DEF query
  <2>2. \A i \in 1 .. query - 1 : i \in 1 .. mark - 1
    BY <1>5, <1>6, <2>1
  <2>3. query # 0 => query \in 1 .. mark - 1
    BY <1>5, <1>6, <2>1
  <2> QED
    BY <1>6, <2>1, <2>2, <2>3
<1> DEFINE e == IF query = 0 THEN mark ELSE query
<1>8. /\ e \in 1 .. mark /\ e \in 1 .. n + 1 /\ e - 1 \in Nat /\ e - 1 <= n /\ e - 1 <= mark - 1
      /\ \A i \in 1 .. e - 1 : rest[i] \notin {"?", "#"}
      /\ e <= n => rest[e] \in {"?", "#"}
      /\ e < mark <=> query # 0
  <2> HIDE DEF query
  <2>1. /\ e \in 1 .. mark /\ e \in 1 .. n + 1 /\ e - 1 \in Nat /\ e - 1 <= n /\ e - 1 <= mark - 1
        /\ e < mark <=> query # 0
    BY <1>3, <1>5, <1>7
  <2>2. ASSUME NEW i \in 1 .. e - 1 PROVE rest[i] \notin {"?", "#"}
    <3>1. i \in 1 .. mark - 1
      BY <1>5, <2>1
    <3>2. rest[i] # "?"
      BY <1>7, <3>1
    <3> QED
      BY <1>5, <3>1, <3>2
  <2>3. e <= n => rest[e] \in {"?", "#"}
    BY <1>5, <1>7
  <2> QED
    BY <2>1, <2>2, <2>3
<1>9. ends = e
  <2> HIDE DEF e
  <2>1. CASE e = n + 1
    <3>1. stops = {}
      BY <1>8, <2>1
    <3> QED
      BY <2>1, <3>1
  <2>2. CASE e # n + 1
    <3>1. e \in stops
      BY <1>3, <1>8, <2>2
    <3>2. \A j \in stops : j \in Int /\ e <= j
      <4> TAKE j \in stops
      <4>1. j \in 1 .. n /\ rest[j] \in {"?", "#"}
        OBVIOUS
      <4>2. ~(j \in 1 .. e - 1)
        BY <1>8, <4>1
      <4> QED
        BY <1>8, <4>1, <4>2
    <3> HIDE DEF stops
    <3>3. \A i \in stops : (\A j \in stops : i <= j) <=> i = e
      <4> TAKE i \in stops
      <4> QED
        BY <1>8, <3>1, <3>2
    <3>4. (CHOOSE i \in stops : \A j \in stops : i <= j) = e
      BY <3>1, <3>3
    <3> QED
      BY <3>1, <3>4
  <2> QED
    BY <2>1, <2>2
<1> HIDE DEF stops, ends, e

<1>10. /\ body = SubSeq(rest, 1, ends - 1) /\ body \in Seq(Tokens) /\ Len(body) = ends - 1
       /\ \A i \in 1 .. ends - 1 : body[i] = rest[i]
  <2>1. body = SubSeq(text1, 1, e - 1)
    <3>1. body = Until(text1, "?")
      BY DEF StripQueryAndFragment, text1
    <3>2. Until(text1, "?") = SubSeq(text1, 1, (IF FirstOf(text1, "?") = 0 THEN Len(text1) + 1
                                                ELSE FirstOf(text1, "?")) - 1)
      BY <1>6, UntilFacts
    <3>3. Len(text1) + 1 = mark
      BY <1>5, <1>6
    <3> HIDE DEF body
    <3> QED
      BY <3>1, <3>2, <3>3 DEF e
  <2>2. SubSeq(SubSeq(rest, 0 + 1, mark - 1), 0 + 1, e - 1) = SubSeq(rest, 0 + 0 + 1, 0 + (e - 1))
    <3>1. 0 \in Nat /\ 0 <= mark - 1 /\ 0 <= e - 1 /\ e - 1 <= (mark - 1) - 0
      BY <1>5, <1>8
    <3> QED
      BY <1>5, <1>8, <3>1, Inner
  <2>3. 0 + 1 = 1 /\ 0 + 0 + 1 = 1 /\ 0 + (e - 1) = e - 1 /\ (e - 1) - 0 = e - 1
        /\ \A i \in 1 .. e - 1 : 0 + i = i
    BY <1>8
  <2>4. body = SubSeq(rest, 1, e - 1)
    <3> HIDE DEF body
    <3> QED
      BY <1>6, <2>1, <2>2, <2>3
  <2>5. SubSeq(rest, 0 + 1, e - 1) \in Seq(Tokens)
        /\ Len(SubSeq(rest, 0 + 1, e - 1)) = (e - 1) - 0
        /\ \A i \in 1 .. (e - 1) - 0 : SubSeq(rest, 0 + 1, e - 1)[i] = rest[0 + i]
    <3>1. 0 \in Nat /\ 0 <= e - 1
      BY <1>8
    <3> QED
      BY <1>8, <3>1, PartOfText
  <2> HIDE DEF body
  <2> QED
    BY <1>9, <2>3, <2>4, <2>5
<1> HIDE DEF body
<1>11. /\ at \in 0 .. ends - 1
       /\ at = 0 <=> \A i \in 1 .. ends - 1 : rest[i] # "@"
       /\ at # 0 => rest[at] = "@" /\ \A i \in 1 .. at - 1 : rest[i] # "@"
       /\ ends - 1 \in Nat /\ ends - 1 <= n /\ at \in Nat
  <2>0. body \in Seq(Tokens)
    BY <1>10
  <2>1. /\ at \in 0 .. Len(body)
        /\ at = 0 <=> \A i \in 1 .. Len(body) : body[i] # "@"
        /\ at # 0 => body[at] = "@" /\ \A i \in 1 .. at - 1 : body[i] # "@"
    BY <2>0, FirstFacts
  <2>2. ends - 1 \in Nat /\ ends - 1 <= n
    BY <1>8, <1>9
  <2> HIDE DEF at
  <2>3. at \in 0 .. ends - 1 /\ (at # 0 => at \in 1 .. ends - 1)
        /\ \A i \in 1 .. at - 1 : i \in 1 .. ends - 1
    BY <1>10, <2>1, <2>2
  <2> QED
    BY <1>10, <2>1, <2>2, <2>3
<1> HIDE DEF at
<1>12. CASE at = 0
  <2>1. Q = {}
    <3> SUFFICES ASSUME NEW q \in Q PROVE FALSE
      OBVIOUS
    <3>1. q[1] \in 1 .. ends - 1 /\ rest[q[1]] = "@"
      OBVIOUS
    <3> QED
      BY <1>11, <1>12, <3>1
  <2>2. ~Good
    BY <1>12
  <2> HIDE DEF Good, Q, Rec
  <2>3. Written(scheme, rest) = {} /\ ParseLink(scheme, rest) = <<>>
    BY <1>1, <1>2, <2>1, <2>2
  <2> QED
    BY <2>3, FS_EmptySet

<1>13. CASE at # 0
  <2> DEFINE m == ends - 1
  <2>1. /\ at \in 1 .. m /\ m \in Nat /\ m <= n /\ at - 1 \in Nat /\ m - at \in Nat
        /\ rest[at] = "@" /\ \A i \in 1 .. at - 1 : rest[i] # "@"
    BY <1>11, <1>13
  <2> HIDE DEF m
  <2>2. userInfo = part(0, at)
    <3>1. SubSeq(SubSeq(rest, 0 + 1, m), 0 + 1, at - 1) = SubSeq(rest, 0 + 0 + 1, 0 + (at - 1))
      <4>1. 0 \in Nat /\ 0 <= m /\ 0 <= at - 1 /\ at - 1 <= m - 0
        BY <2>1
      <4> QED
        BY <2>1, <4>1, Inner
    <3>2. 0 + 1 = 1 /\ 0 + 0 + 1 = 1 /\ 0 + (at - 1) = at - 1
      BY <2>1
    <3> QED
      BY <1>10, <3>1, <3>2 DEF Before, m
  <2>3. /\ text \in Seq(Tokens) /\ Len(text) = m - at
        /\ \A i \in 1 .. m - at : text[i] = rest[at + i]
    <3>1. text = SubSeq(body, at + 1, m)
      BY <1>10 DEF After, m
    <3>2. /\ SubSeq(body, at + 1, m) \in Seq(Tokens) /\ Len(SubSeq(body, at + 1, m)) = m - at
          /\ \A i \in 1 .. m - at : SubSeq(body, at + 1, m)[i] = body[at + i]
      <4>1. body \in Seq(Tokens) /\ at \in Nat /\ at <= m /\ m <= Len(body)
        BY <1>10, <2>1 DEF m
      <4> QED
        BY <2>1, <4>1, PartOfText
    <3>3. \A i \in 1 .. m - at : body[at + i] = rest[at + i]
      <4> TAKE i \in 1 .. m - at
      <4>1. at + i \in 1 .. ends - 1
        BY <2>1 DEF m
      <4> QED
        BY <1>10, <4>1
    <3> HIDE DEF text
    <3> QED
      BY <3>1, <3>2, <3>3
  <2>4. \A x, y \in Nat : x <= y /\ y <= m - at =>
           SubSeq(text, x + 1, y) = SubSeq(rest, at + x + 1, at + y)
    <3> TAKE x, y \in Nat
    <3> HAVE x <= y /\ y <= m - at
    <3>1. SubSeq(SubSeq(body, at + 1, m), x + 1, y) = SubSeq(body, at + x + 1, at + y)
      <4>1. body \in Seq(Tokens) /\ at \in Nat /\ at <= m /\ m <= Len(body)
        BY <1>10, <2>1 DEF m
      <4> QED
        BY <2>1, <4>1, Inner
    <3>2. SubSeq(SubSeq(rest, 0 + 1, m), (at + x) + 1, at + y)
            = SubSeq(rest, 0 + (at + x) + 1, 0 + (at + y))
      <4>1. /\ 0 \in Nat /\ 0 <= m /\ at + x \in Nat /\ at + y \in Nat /\ at + x <= at + y
            /\ at + y <= m - 0
        BY <2>1
      <4> QED
        BY <2>1, <4>1, Inner
    <3>3. 0 + 1 = 1 /\ 0 + (at + x) + 1 = at + x + 1 /\ 0 + (at + y) = at + y
      BY <2>1
    <3>4. text = SubSeq(body, at + 1, m) /\ body = SubSeq(rest, 1, m)
      BY <1>10 DEF After, m
    <3> HIDE DEF text
    <3> QED
      BY <3>1, <3>2, <3>3, <3>4
  <2> HIDE DEF text
  <2>5. /\ h \in 0 .. m - at /\ h \in Nat
        /\ h = 0 <=> \A i \in 1 .. m - at : rest[at + i] # ":"
        /\ h # 0 => rest[at + h] = ":" /\ \A i \in h + 1 .. m - at : rest[at + i] # ":"
    <3>0. text \in Seq(Tokens)
      BY <2>3
    <3>1. /\ h \in 0 .. Len(text)
          /\ h = 0 <=> \A i \in 1 .. Len(text) : text[i] # ":"
          /\ h # 0 => text[h] = ":" /\ \A i \in h + 1 .. Len(text) : text[i] # ":"
      BY <3>0, LastFacts DEF HostEnd
    <3> HIDE DEF h
    <3>2. /\ h \in 0 .. m - at /\ h \in Nat /\ (h # 0 => h \in 1 .. m - at)
          /\ \A i \in h + 1 .. m - at : i \in 1 .. m - at
      BY <2>1, <2>3, <3>1
    <3> QED
      BY <2>3, <3>1, <3>2
  <2> HIDE DEF h
  <2>6. h # 0 => /\ host = part(at, at + h) /\ port = part(at + h, ends)
                 /\ host = <<>> <=> h = 1
    <3> SUFFICES ASSUME h # 0
                 PROVE  /\ host = part(at, at + h) /\ port = part(at + h, ends)
                        /\ host = <<>> <=> h = 1
      OBVIOUS
    <3>1. h \in 1 .. m - at /\ h - 1 \in Nat /\ 0 \in Nat /\ 0 <= h - 1 /\ h - 1 <= m - at
          /\ h <= m - at /\ at + h \in Nat
      BY <2>1, <2>5
    <3>2. SubSeq(text, 0 + 1, h - 1) = SubSeq(rest, at + 0 + 1, at + (h - 1))
      BY <2>4, <3>1
    <3>3. SubSeq(text, h + 1, m - at) = SubSeq(rest, at + h + 1, at + (m - at))
      <4>1. h \in Nat /\ m - at \in Nat /\ h <= m - at /\ m - at <= m - at
        BY <2>1, <2>5, <3>1
      <4> HIDE DEF host, port
      <4> QED
        BY <2>4, <4>1
    <3>4. /\ 0 + 1 = 1 /\ at + 0 + 1 = at + 1 /\ at + (h - 1) = (at + h) - 1
          /\ at + (m - at) = m /\ (h - 1) - 0 = h - 1
      BY <2>1, <3>1
    <3>5. host = SubSeq(text, 1, h - 1) /\ port = SubSeq(text, h + 1, m - at)
      BY <2>3 DEF Before, After
    <3>6. Len(SubSeq(text, 0 + 1, h - 1)) = (h - 1) - 0 /\ SubSeq(text, 0 + 1, h - 1) \in Seq(Tokens)
      <4>1. text \in Seq(Tokens) /\ h - 1 <= Len(text)
        BY <2>3, <3>1
      <4> QED
        BY <3>1, <4>1, PartOfText
    <3> HIDE DEF host, port
    <3>7. host \in Seq(Tokens) /\ Len(host) = h - 1
      BY <3>4, <3>5, <3>6
    <3>8. host = <<>> <=> h = 1
      <4>1. host = <<>> <=> Len(host) = 0
        <5>1. <<>> \in Seq(Tokens) /\ Len(<<>>) = 0 /\ \A i : i \notin 1 .. 0
          OBVIOUS
        <5>2. Len(host) = 0 => host = <<>>
          BY <3>7, <5>1, SameText
        <5> QED
          BY <5>1, <5>2
      <4> QED
        BY <3>1, <3>7, <4>1
    <3> QED
      BY <3>2, <3>3, <3>4, <3>5, <3>8 DEF m
  <2> HIDE DEF host, port, userInfo
  <2>7. ASSUME NEW q \in Q PROVE Good /\ q = <<at, at + h>>
    <3> DEFINE i == q[1]
               j == q[2]
    <3>1. /\ q = <<i, j>> /\ i \in 1 .. m /\ j \in 1 .. m /\ rest[i] = "@" /\ rest[j] = ":"
          /\ i + 1 < j /\ part(j, ends) = <<Digits>> /\ Credentials(scheme, part(0, i))
          /\ \A k \in 1 .. i - 1 : rest[k] # "@"
      BY DEF m
    <3> HIDE DEF i, j, Q
    <3>2. i = at
      <4>1. ~(i \in 1 .. at - 1) /\ ~(at \in 1 .. i - 1)
        BY <2>1, <3>1
      <4> QED
        BY <2>1, <3>1, <4>1
    <3>3. j = m - 1 /\ rest[m] = Digits
      <4>1. part(j, ends) = SubSeq(rest, j + 1, m)
        BY DEF m
      <4>2. /\ Len(SubSeq(rest, j + 1, m)) = m - j
            /\ \A k \in 1 .. m - j : SubSeq(rest, j + 1, m)[k] = rest[j + k]
        <5>1. j \in Nat /\ j <= m /\ m <= Len(rest)
          BY <2>1, <3>1
        <5> QED
          BY <2>1, <5>1, PartOfText
      <4>3. Len(<<Digits>>) = 1 /\ <<Digits>>[1] = Digits
        OBVIOUS
      <4>4. m - j = 1
        BY <3>1, <4>1, <4>2, <4>3
      <4>5. rest[j + 1] = Digits
        <5>1. 1 \in 1 .. m - j
          BY <4>4
        <5>2. SubSeq(rest, j + 1, m)[1] = rest[j + 1]
          BY <4>2, <5>1
        <5>3. SubSeq(rest, j + 1, m) = <<Digits>>
          BY <3>1, <4>1
        <5> QED
          BY <4>3, <5>2, <5>3
      <4> QED
        BY <2>1, <3>1, <4>4, <4>5
    <3>4. h = j - at
      <4>1. j - at \in 1 .. m - at /\ at + (j - at) = j
        BY <2>1, <3>1, <3>2
      <4>2. h # 0
        BY <2>5, <3>1, <4>1
      <4>3. ~(j - at \in h + 1 .. m - at)
        BY <2>5, <3>1, <4>1, <4>2
      <4>4. h <= j - at \/ h = m - at
        BY <2>1, <2>5, <3>1, <3>3
      <4>5. h # m - at
        <5>1. h = m - at => at + h = m
          BY <2>1
        <5>2. Digits # ":"
          BY DEF Digits
        <5> QED
          BY <2>5, <3>3, <4>2, <5>1, <5>2
      <4> QED
        BY <2>1, <2>5, <4>1, <4>3, <4>4, <4>5
    <3>5. at + h = j /\ h # 0 /\ h # 1
      BY <2>1, <3>1, <3>2, <3>4
    <3> QED
      BY <1>13, <2>2, <2>6, <3>1, <3>2, <3>5
  <2>8. ASSUME Good PROVE <<at, at + h>> \in Q
    <3>1. h # 0 /\ h # 1 /\ Credentials(scheme, part(0, at)) /\ part(at + h, ends) = <<Digits>>
      BY <2>2, <2>6, <2>8
    <3>2. at \in 1 .. ends - 1 /\ at + h \in 1 .. ends - 1 /\ at + 1 < at + h
      BY <2>1, <2>5, <3>1 DEF m
    <3> DEFINE q == <<at, at + h>>
    <3>3. q \in (1 .. ends - 1) \X (1 .. ends - 1) /\ q[1] = at /\ q[2] = at + h
      BY <3>2
    <3> HIDE DEF q
    <3>4. q \in Q
      BY <2>1, <2>5, <3>1, <3>2, <3>3
    <3> QED
      BY <3>4 DEF q
  <2>9. ASSUME Good PROVE Rec(<<at, at + h>>) = Profile(scheme, userInfo, host, rest)
    <3>0. h # 0
      BY <2>9
    <3> DEFINE q == <<at, at + h>>
    <3>1. q[1] = at /\ q[2] = at + h
      OBVIOUS
    <3> HIDE DEF q
    <3>2. part(0, q[1]) = userInfo /\ part(q[1], q[2]) = host
      <4> HIDE DEF part
      <4> QED
        BY <2>2, <2>6, <3>0, <3>1
    <3>3. (IF hash = {} THEN host ELSE part(mark, n + 1)) = NameOf(rest, host)
      <4>1. (n + 1) - 1 = n
        BY <1>3
      <4> QED
        BY <1>4, <4>1 DEF NameOf, After, f
    <3>4. (IF scheme = "vless" /\ ends < mark /\ ends <= n THEN {part(ends, mark)} ELSE {})
            = IF scheme = "vless" THEN QueryOf(rest) ELSE {}
      <4>1. QueryOf(rest) = IF query = 0 THEN {} ELSE {After(text1, query)}
        BY DEF QueryOf, text1
      <4>2. CASE query = 0
        <5>1. ~(ends < mark)
          BY <1>8, <1>9, <4>2
        <5> QED
          BY <4>1, <4>2, <5>1
      <4>3. CASE query # 0
        <5>1. ends < mark /\ ends <= n /\ ends = query /\ query \in Nat /\ query <= mark - 1
          BY <1>3, <1>5, <1>7, <1>8, <1>9, <4>3 DEF e
        <5> HIDE DEF query
        <5>2. After(text1, query) = part(ends, mark)
          <6>1. After(text1, query) = SubSeq(SubSeq(rest, 0 + 1, mark - 1), query + 1, mark - 1)
            <7>1. 0 + 1 = 1
              OBVIOUS
            <7> QED
              BY <1>6, <7>1 DEF After
          <6>2. SubSeq(SubSeq(rest, 0 + 1, mark - 1), query + 1, mark - 1)
                  = SubSeq(rest, 0 + query + 1, 0 + (mark - 1))
            <7>1. 0 \in Nat /\ 0 <= mark - 1 /\ mark - 1 <= (mark - 1) - 0
              BY <1>5
            <7> QED
              BY <1>5, <5>1, <7>1, Inner
          <6>3. 0 + query + 1 = query + 1 /\ 0 + (mark - 1) = mark - 1
            BY <1>5, <5>1
          <6> QED
            BY <5>1, <6>1, <6>2, <6>3
        <5> QED
          BY <4>1, <4>3, <5>1, <5>2
      <4> QED
        BY <4>2, <4>3
    <3>5. Rec(q) = Profile(scheme, userInfo, host, rest)
      <4> HIDE DEF part
      <4> QED
        BY <3>2, <3>3, <3>4 DEF Profile
    <3> QED
      BY <3>5 DEF q
  <2> HIDE DEF Good, Q, Rec
  <2>10. CASE Good
    <3>1. Q = {<<at, at + h>>}
      BY <2>7, <2>8, <2>10
    <3>2. Written(scheme, rest) = {Profile(scheme, userInfo, host, rest)}
      BY <1>1, <2>9, <2>10, <3>1
    <3>3. ParseLink(scheme, rest) = <<Profile(scheme, userInfo, host, rest)>>
      BY <1>2, <2>10
    <3> QED
      BY <3>2, <3>3, FS_Singleton
  <2>11. CASE ~Good
    <3>1. Q = {}
      BY <2>7, <2>11
    <3>2. Written(scheme, rest) = {} /\ ParseLink(scheme, rest) = <<>>
      BY <1>1, <1>2, <2>11, <3>1
    <3> QED
      BY <3>2, FS_EmptySet
  <2> QED
    BY <2>10, <2>11
<1> QED
  BY <1>12, <1>13

(* Whatever text was pasted, add_subscription makes of it what it says: the *)
(* parts of a link are found where they are written; a document, of any     *)
(* length, gives one profile for each address and port, in order, of the    *)
(* first outbound with them; a page one for each line, or an error.         *)
THEOREM TextsReadAsWritten == SubSpec => []ParsedAsWritten
<1> DEFINE Inputs == Links \cup Documents \cup Pages
           Inv    == input \in Inputs /\ ParsedAsWritten
<1>1. SubInit => Inv
  BY DEF SubInit, ParsedAsWritten
<1>2. Inv /\ [Add]_subVars => Inv'
  <2> SUFFICES ASSUME Inv, [Add]_subVars PROVE Inv'
    OBVIOUS
  <2>1. CASE UNCHANGED subVars
    BY <2>1 DEF subVars, ParsedAsWritten
  <2>2. CASE Add
    <3>1. input' = input /\ input \in Inputs
      BY <2>2 DEF Add
    <3>2. CASE input \in Links
      <4>1. input.kind = "link" /\ input.rest \in Seq(Tokens)
        BY <3>2, TextsAssumption
      <4>2. output' = ParseLink(input.scheme, input.rest)
        BY <2>2, <4>1 DEF Add
      <4>3. ParsedAsWritten'
        BY <3>1, <4>1, <4>2, LinksAsWritten DEF ParsedAsWritten
      <4> QED
        BY <3>1, <4>3
    <3>3. CASE input \in Documents
      <4>1. input.kind = "json" /\ input.outbounds \in Seq(Outbounds)
        BY <3>3, TextsAssumption
      <4>2. output' = ParseSingbox(input.outbounds)
        BY <2>2, <4>1 DEF Add
      <4>3. ParsedAsWritten'
        BY <3>1, <4>1, <4>2, DocumentsOnce DEF ParsedAsWritten
      <4> QED
        BY <3>1, <4>3
    <3>4. CASE input \in Pages
      <4>1. input.kind = "lines" /\ input.lines \in Seq({"blank", "good", "bad"})
        BY <3>4, TextsAssumption
      <4>2. output' = ParseLines(input.lines)
        BY <2>2, <4>1 DEF Add
      <4>3. ParsedAsWritten'
        BY <3>1, <4>1, <4>2, PagesCounted DEF ParsedAsWritten
      <4> QED
        BY <3>1, <4>3
    <3> QED
      BY <3>1, <3>2, <3>3, <3>4
  <2> QED
    BY <2>1, <2>2
<1> QED
  BY <1>1, <1>2, PTL DEF SubSpec
=============================================================================
