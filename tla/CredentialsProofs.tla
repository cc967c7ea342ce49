-------------------------- MODULE CredentialsProofs --------------------------
(* Proofs about Credentials, for any set of servers and any number of starts. *)
EXTENDS Credentials, TLAPS

-----------------------------------------------------------------------------
(* Types *)

\* A server that writes has made the pair it writes.
TypeInv ==
    /\ TypeOK
    /\ \A s \in Servers : pc[s] \in Generating \ {"readCa"} => pair[s] \in Pairs

\* Every step keeps the types.
LEMMA TypeStep == TypeInv /\ [Next]_vars => TypeInv'
<1> SUFFICES ASSUME TypeInv, [Next]_vars PROVE TypeInv'
  OBVIOUS
<1> USE BoundsAssumption, FilesAssumption DEF TypeInv, TypeOK, Files, Pairs, Goto,
        Loading, Generating, Ended, Nothing
<1>1. CASE WriteCa
  BY <1>1 DEF WriteCa
<1>2. ASSUME NEW s \in Servers, Start(s) PROVE TypeInv'
  BY <1>2 DEF Start
<1>3. ASSUME NEW s \in Servers, Check(s) PROVE TypeInv'
  BY <1>3 DEF Check
<1>4. ASSUME NEW s \in Servers, ReadCa(s) PROVE TypeInv'
  BY <1>4 DEF ReadCa
<1>5. ASSUME NEW s \in Servers, CreateCert(s) \/ CreateKey(s) PROVE TypeInv'
  BY <1>5 DEF CreateCert, CreateKey
<1>6. ASSUME NEW s \in Servers, FillCert(s) PROVE TypeInv'
  BY <1>6 DEF FillCert, Filled
<1>7. ASSUME NEW s \in Servers, FillKey(s) PROVE TypeInv'
  BY <1>7 DEF FillKey, Filled
<1>8. ASSUME NEW s \in Servers, WriteFails(s) PROVE TypeInv'
  <2>1. /\ faults' \in 0 .. MaxFaults /\ disturbed' \in BOOLEAN
        /\ pc' = [pc EXCEPT ![s] = "unwritten"]
        /\ UNCHANGED <<cert, key, ca, pair, read, served, starts, made>>
    BY <1>8 DEF WriteFails
  <2> QED
    BY <2>1
<1>9. ASSUME NEW s \in Servers, ReadCert(s) \/ LoadFails(s) PROVE TypeInv'
  <2>1. /\ read' \in [Servers -> Files]
        /\ pc' = [pc EXCEPT ![s] = "readKey"] \/ pc' = [pc EXCEPT ![s] = "badPair"]
        /\ UNCHANGED <<cert, key, ca, pair, served, starts, made, faults, disturbed>>
    BY <1>9 DEF ReadCert, LoadFails
  <2> QED
    BY <2>1
<1>10. ASSUME NEW s \in Servers, Load(s) PROVE TypeInv'
  BY <1>10 DEF Load
<1>11. ASSUME NEW s \in Servers, Stop(s) PROVE TypeInv'
  BY <1>11 DEF Stop
<1>12. CASE UNCHANGED vars
  BY <1>12 DEF vars
<1> QED
  BY <1>1, <1>2, <1>3, <1>4, <1>5, <1>6, <1>7, <1>8, <1>9, <1>10, <1>11, <1>12 DEF Next, Step

-----------------------------------------------------------------------------
(* The two files while no start has overlapped another or ended in the key *)

\* At most one server makes a pair.
OneMaker == \A s, t \in Servers : pc[s] \in Generating /\ pc[t] \in Generating => s = t

\* The files of a server that makes a pair: no key until it writes one.
MakerFiles ==
    \A s \in Servers :
        /\ pc[s] \in Generating => key = IF pc[s] = "fillKey" THEN Torn ELSE Absent
        /\ pc[s] = "fillCert" => cert = Torn
        /\ pc[s] \in {"createKey", "fillKey"} => cert = pair[s]

\* The files at rest: no key yet, or the key of the certificate.
RestFiles ==
    (\A s \in Servers : pc[s] \notin Generating) => key = Absent \/ (key \in Pairs /\ cert = key)

\* A server that loads the pair finds a whole one.
LoaderFiles ==
    \A s \in Servers :
        /\ pc[s] \in Loading => key \in Pairs /\ cert = key
        /\ pc[s] = "readKey" => read[s] = cert
        /\ pc[s] # "badPair"

\* What is served is what is in the files.
ServedFiles ==
    \A s \in Servers :
        served[s] # Nothing => served[s] = [cert |-> cert, key |-> key] /\ key \in Pairs

Calm == OneMaker /\ MakerFiles /\ RestFiles /\ LoaderFiles /\ ServedFiles

CalmInv == TypeInv /\ (disturbed \/ Calm)

\* Every step but an accident keeps them so.
LEMMA CalmStep == CalmInv /\ [Next]_vars => (disturbed \/ Calm)'
<1> SUFFICES ASSUME CalmInv, [Next]_vars, ~disturbed' PROVE Calm'
  OBVIOUS
<1> USE FilesAssumption, BoundsAssumption DEF CalmInv, TypeInv, TypeOK, Pairs, Goto,
        Loading, Generating, Ended, Nothing
<1>0. ~disturbed /\ Calm
  BY DEF Next, Step, vars, WriteCa, Start, Check, ReadCa, CreateCert, FillCert, CreateKey,
         FillKey, WriteFails, ReadCert, Load, LoadFails, Stop
<1> USE <1>0 DEF Calm, OneMaker, MakerFiles, RestFiles, LoaderFiles, ServedFiles
<1>1. CASE WriteCa \/ UNCHANGED vars
  BY <1>1 DEF WriteCa, vars
<1>2. ASSUME NEW s \in Servers, Start(s) PROVE Calm'
  BY <1>2 DEF Start
<1>3. ASSUME NEW s \in Servers, Check(s) PROVE Calm'
  <2>1. \A t \in Servers \ {s} : pc[t] \notin Generating
    BY <1>3 DEF Check
  <2>2. pc[s] \notin Generating /\ \A t \in Servers : pc[t] \notin Generating
    BY <1>3, <2>1 DEF Check
  <2>3. key = Absent \/ (key \in Pairs /\ cert = key)
    BY <2>2
  <2> QED
    BY <1>3, <2>2, <2>3 DEF Check
<1>4. ASSUME NEW s \in Servers, ReadCa(s) PROVE Calm'
  BY <1>4 DEF ReadCa
<1>5. ASSUME NEW s \in Servers, CreateCert(s) PROVE Calm'
  BY <1>5 DEF CreateCert
<1>6. ASSUME NEW s \in Servers, FillCert(s) PROVE Calm'
  BY <1>6 DEF FillCert, Filled
<1>7. ASSUME NEW s \in Servers, CreateKey(s) PROVE Calm'
  BY <1>7 DEF CreateKey
<1>8. ASSUME NEW s \in Servers, FillKey(s) PROVE Calm'
  BY <1>8 DEF FillKey, Filled
<1>9. ASSUME NEW s \in Servers, WriteFails(s) PROVE Calm'
  BY <1>9 DEF WriteFails
<1>10. ASSUME NEW s \in Servers, ReadCert(s) PROVE Calm'
  BY <1>10 DEF ReadCert
<1>11. ASSUME NEW s \in Servers, Load(s) PROVE Calm'
  BY <1>11 DEF Load
<1>12. ASSUME NEW s \in Servers, LoadFails(s) PROVE Calm'
  BY <1>12 DEF LoadFails
<1>13. ASSUME NEW s \in Servers, Stop(s) PROVE Calm'
  BY <1>13 DEF Stop
<1> QED
  BY <1>1, <1>2, <1>3, <1>4, <1>5, <1>6, <1>7, <1>8, <1>9, <1>10, <1>11, <1>12, <1>13 DEF Next, Step

\* The initial state has no files and no server.
LEMMA CalmInit == Init => CalmInv /\ ServedPairMatches
<1> SUFFICES ASSUME Init PROVE CalmInv /\ ServedPairMatches
  OBVIOUS
<1> USE BoundsAssumption DEF Init
<1>1. \A s \in Servers : pc[s] = "down" /\ served[s] = Nothing
  OBVIOUS
<1>2. TypeInv
  <2>1. Absent \in Files /\ Nothing \in [cert : Files, key : Files]
    BY DEF Files, Nothing
  <2>2. pc \in [Servers -> {"check", "serving"} \cup Loading \cup Generating \cup Ended]
    BY DEF Ended
  <2>3. /\ pair \in [Servers -> 0 .. MaxStarts]
        /\ read \in [Servers -> Files]
        /\ served \in [Servers -> [cert : Files, key : Files]]
    BY <2>1
  <2>4. \A s \in Servers : pc[s] \notin Generating
    BY <1>1 DEF Generating
  <2>5. cert \in Files /\ key \in Files
    BY <2>1
  <2>6. starts \in 0 .. MaxStarts /\ made \in 0 .. MaxStarts /\ faults \in 0 .. MaxFaults
    OBVIOUS
  <2>7. TypeOK
    BY <2>2, <2>3, <2>5, <2>6 DEF TypeOK
  <2> QED
    BY <2>4, <2>7 DEF TypeInv
<1>3. Calm
  BY <1>1 DEF Calm, OneMaker, MakerFiles, RestFiles, LoaderFiles, ServedFiles, Loading, Generating
<1>4. ServedPairMatches
  BY <1>1 DEF ServedPairMatches, Nothing
<1> QED
  BY <1>2, <1>3, <1>4 DEF CalmInv

\* The types of Credentials hold in every reachable state.
THEOREM TypeCorrect == Spec => []TypeOK
<1>1. Init => TypeInv
  BY CalmInit DEF CalmInv
<1>2. TypeInv => TypeOK
  BY DEF TypeInv
<1> QED
  BY <1>1, <1>2, TypeStep, PTL DEF Spec

\* The invariant behind the properties of load_or_generate_ca_signed_cert.
THEOREM CalmCorrect == Spec => []CalmInv
<1>1. CalmInv /\ [Next]_vars => CalmInv'
  BY TypeStep, CalmStep DEF CalmInv
<1>2. Init => CalmInv
  BY CalmInit
<1> QED
  BY <1>1, <1>2, PTL DEF Spec

\* build_server_config: no server answers with a key that is not its
\* certificate's, whatever overlapping or interrupted starts left in the files.
THEOREM ServedPair == Spec => []ServedPairMatches
<1>1. ServedPairMatches /\ TypeOK /\ [Next]_vars => ServedPairMatches'
  BY DEF ServedPairMatches, TypeOK, Next, Step, vars, WriteCa, Start, Check, ReadCa, CreateCert,
         FillCert, CreateKey, FillKey, WriteFails, ReadCert, Load, LoadFails, Stop
<1>2. Init => ServedPairMatches
  BY CalmInit
<1> QED
  BY <1>1, <1>2, TypeCorrect, PTL DEF Spec

\* A start fails on the files it finds only after two starts overlapped or one
\* ended between creating the key file and filling it.
THEOREM StartFails == Spec => []StartFailsOnlyIfTorn
<1>1. CalmInv => StartFailsOnlyIfTorn
  BY DEF CalmInv, Calm, LoaderFiles, StartFailsOnlyIfTorn
<1> QED
  BY <1>1, CalmCorrect, PTL

\* But for such an accident every server of the directory, over all its
\* restarts, serves the one pair that is in the files.
THEOREM IdentityReused == Spec => []IdentityIsReused
<1>1. CalmInv => IdentityIsReused
  BY DEF CalmInv, Calm, ServedFiles, IdentityIsReused
<1> QED
  BY <1>1, CalmCorrect, PTL
=============================================================================
