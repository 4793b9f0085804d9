----------------------------- MODULE Units_proofs -----------------------------
(***************************************************************************)
(* The run of MCUnits checks seven specifications at once.  Its behaviours *)
(* are behaviours of each of them, for any values of the constants: what   *)
(* it finds is about the modules it instantiates, and what is proved of    *)
(* these modules holds in it.                                              *)
(***************************************************************************)
EXTENDS MCUnits, DnsProxy_proofs, RealityHandshake_proofs, ProxyLayers_proofs,
        Profiles_proofs

(* A step of one unit leaves the others as they are. *)
LEMMA OneUnitSteps ==
  ASSUME UnitsNext
  PROVE  /\ UNCHANGED unit
         /\ (FimNext /\ unit = "allocator") \/ UNCHANGED fimVars
         /\ (TlsNext /\ unit = "handshake") \/ UNCHANGED tlsVars
         /\ (ReadNext /\ unit = "reader") \/ UNCHANGED readVars
         /\ (CipherNext /\ unit = "cipher") \/ UNCHANGED cipherVars
         /\ (SessionNext /\ unit = "session") \/ UNCHANGED sessionVars
         /\ (ProfNext /\ unit = "profiles") \/ UNCHANGED profVars
         /\ (Add /\ unit = "subscription") \/ UNCHANGED subVars
<1>1. ClientStep \/ ServerStep \/ ServerMay \/ Close => TlsNext
  BY DEF TlsNext
<1> QED
  BY <1>1, Zenon
     DEF UnitsNext, AllocatorRuns, ClientRuns, ServerRuns, NetworkRuns, ReaderRuns,
         CipherRuns, SessionRuns, ProfilesRun, SubscriptionRuns

LEMMA UnitsStep ==
  [UnitsNext]_unitsVars =>
     /\ UNCHANGED unit
     /\ [FimNext]_fimVars /\ [TlsNext]_tlsVars /\ [ReadNext]_readVars
     /\ [CipherNext]_cipherVars /\ [SessionNext]_sessionVars /\ [ProfNext]_profVars
     /\ [Add]_subVars /\ (unit # "subscription" => UNCHANGED subVars)
<1>1. CASE UnitsNext
  BY <1>1, OneUnitSteps
<1>2. CASE UNCHANGED unitsVars
  BY <1>2 DEF unitsVars
<1> QED
  BY <1>1, <1>2

LEMMA UnitsStart ==
  UnitsInit =>
     /\ FimInit /\ TlsInit /\ ReadInit /\ CipherInit /\ SessionInit /\ ProfInit
     /\ (unit = "subscription" => SubInit)
     /\ parsed = FALSE /\ unit \in Units
BY DEF UnitsInit, SubInit

(* Each unit runs as its own specification says, in the run of MCUnits that *)
(* chooses it and in those that do not.                                    *)
THEOREM UnitsRunTheirOwn ==
  UnitsSpec => /\ FimSpec /\ TlsSpec /\ ReadSpec /\ CipherSpec /\ SessionSpec /\ ProfSpec
               /\ unit = "subscription" => SubSpec
BY UnitsStart, UnitsStep, PTL
   DEF UnitsSpec, FimSpec, TlsSpec, ReadSpec, CipherSpec, SessionSpec, ProfSpec, SubSpec

(* The variables of the unit that runs keep their types, with the locals    *)
(* that each place in its methods needs.                                   *)
THEOREM UnitsTyped == UnitsSpec => []UnitsTypeOK
<1> DEFINE Kept == unit \in Units /\ parsed \in BOOLEAN
<1>1. UnitsInit => Kept
  BY UnitsStart
<1>2. Kept /\ [UnitsNext]_unitsVars => Kept'
  BY UnitsStep DEF subVars, Add
<1>3. Kept /\ FimTypeOK /\ TlsTypeOK /\ ReadTypeOK /\ CipherTypeOK /\ SessionTypeOK
        /\ ProfTypeOK => UnitsTypeOK
  BY DEF UnitsTypeOK, Units
<1>4. UnitsSpec => []Kept
  BY <1>1, <1>2, PTL DEF UnitsSpec
<1> HIDE DEF Kept
<1> QED
  BY <1>3, <1>4, UnitsRunTheirOwn, TypeCorrect, HandshakeTypes, ReadersTyped,
     CipherTypesHold, SessionTyped, ProfilesTyped, PTL
=============================================================================
