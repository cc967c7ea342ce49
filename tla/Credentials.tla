----------------------------- MODULE Credentials -----------------------------
(***************************************************************************)
(* The certificate and the key that a server starts with.                  *)
(*                                                                         *)
(* Servers that share a certs directory look for engine.rag.crt and        *)
(* engine.rag.key.  If both files exist they are loaded; otherwise the     *)
(* server makes a new pair, signed by the CA that the orchestrator keeps   *)
(* in the same directory, and writes first one file, then the other.  A    *)
(* write creates or truncates the file and then fills it.  A server may    *)
(* end at any point and be started again, and two may start at once.       *)
(*                                                                         *)
(* A file is absent, torn (empty or in part) or holds one half of a pair;  *)
(* pairs are numbered as they are made.                                    *)
(***************************************************************************)
EXTENDS Integers

CONSTANTS Servers,
          Absent, Torn,   \* states of a file that are not a pair
          MaxStarts,      \* bound on the starts of all servers
          MaxFaults       \* bound on writes that fail

ASSUME FilesAssumption  == Absent # Torn /\ Absent \notin Nat /\ Torn \notin Nat
ASSUME BoundsAssumption == MaxStarts \in Nat /\ MaxFaults \in Nat

Pairs == 1 .. MaxStarts
Files == Pairs \cup {Absent, Torn}

VARIABLES
    cert, key,       \* engine.rag.crt and engine.rag.key
    ca,              \* the CA's files: "absent", "torn" or "present"
    pc,              \* what each server does next
    pair,            \* the pair it has made
    read,            \* the certificate it has loaded
    served,          \* the certificate and key it serves, or served last
    starts, made, faults,
    disturbed        \* history: two starts overlapped, or one ended in writing the key

vars == <<cert, key, ca, pc, pair, read, served, starts, made, faults, disturbed>>

Loading    == {"readCert", "readKey"}
Generating == {"readCa", "createCert", "fillCert", "createKey", "fillKey"}
Ended      == {"down", "noCa", "unwritten", "badPair"}
Nothing    == [cert |-> Absent, key |-> Absent]

TypeOK ==
    /\ cert \in Files /\ key \in Files
    /\ ca \in {"absent", "torn", "present"}
    /\ pc \in [Servers -> {"check", "serving"} \cup Loading \cup Generating \cup Ended]
    /\ pair \in [Servers -> 0 .. MaxStarts]
    /\ read \in [Servers -> Files]
    /\ served \in [Servers -> [cert : Files, key : Files]]
    /\ starts \in 0 .. MaxStarts /\ made \in 0 .. MaxStarts /\ faults \in 0 .. MaxFaults
    /\ disturbed \in BOOLEAN

Init ==
    /\ cert = Absent /\ key = Absent /\ ca = "absent"
    /\ pc = [s \in Servers |-> "down"]
    /\ pair = [s \in Servers |-> 0]
    /\ read = [s \in Servers |-> Absent]
    /\ served = [s \in Servers |-> Nothing]
    /\ starts = 0 /\ made = 0 /\ faults = 0
    /\ disturbed = FALSE

Goto(s, next) == pc' = [pc EXCEPT ![s] = next]

-----------------------------------------------------------------------------
(* The orchestrator *)

\* It makes the CA, once.
WriteCa ==
    /\ \/ ca = "absent" /\ ca' = "torn"
       \/ ca = "torn" /\ ca' = "present"
    /\ UNCHANGED <<cert, key, pc, pair, read, served, starts, made, faults, disturbed>>

Start(s) ==
    /\ pc[s] \in Ended
    /\ starts < MaxStarts
    /\ starts' = starts + 1
    /\ Goto(s, "check")
    /\ UNCHANGED <<cert, key, ca, pair, read, served, made, faults, disturbed>>

-----------------------------------------------------------------------------
(* load_or_generate_ca_signed_cert *)

\* Mutation: it is enough that the certificate exists.
CheckCertOnly(s) ==
    /\ pc[s] = "check"
    /\ Goto(s, IF cert # Absent THEN "readCert" ELSE "readCa")
    /\ disturbed' = (disturbed \/ \E t \in Servers \ {s} : pc[t] \in Generating)
    /\ UNCHANGED <<cert, key, ca, pair, read, served, starts, made, faults>>

\* Mutation: a pair is made on every start.
CheckNothing(s) ==
    /\ pc[s] = "check"
    /\ Goto(s, "readCa")
    /\ disturbed' = (disturbed \/ \E t \in Servers \ {s} : pc[t] \in Generating)
    /\ UNCHANGED <<cert, key, ca, pair, read, served, starts, made, faults>>

\* The files are never removed, so the two questions whether they exist can be
\* taken together.
Check(s) ==
    /\ pc[s] = "check"
    /\ Goto(s, IF cert # Absent /\ key # Absent THEN "readCert" ELSE "readCa")
    /\ disturbed' = (disturbed \/ \E t \in Servers \ {s} : pc[t] \in Generating)
    /\ UNCHANGED <<cert, key, ca, pair, read, served, starts, made, faults>>

\* A CA that is not there, or cannot be parsed, ends the start.
ReadCa(s) ==
    /\ pc[s] = "readCa"
    /\ \/ /\ ca = "present" /\ made < MaxStarts
          /\ made' = made + 1
          /\ pair' = [pair EXCEPT ![s] = made + 1]
          /\ Goto(s, "createCert")
       \/ /\ ca # "present"
          /\ Goto(s, "noCa")
          /\ UNCHANGED <<made, pair>>
    /\ UNCHANGED <<cert, key, ca, read, served, starts, faults, disturbed>>

CreateCert(s) ==
    /\ pc[s] = "createCert"
    /\ cert' = Torn
    /\ Goto(s, "fillCert")
    /\ UNCHANGED <<key, ca, pair, read, served, starts, made, faults, disturbed>>

\* Written over another server's bytes, which may be the longer.
Filled(file, s) == IF file = Torn THEN {pair[s]} ELSE {pair[s], Torn}

FillCert(s) ==
    /\ pc[s] = "fillCert"
    /\ cert' \in Filled(cert, s)
    /\ Goto(s, "createKey")
    /\ UNCHANGED <<key, ca, pair, read, served, starts, made, faults, disturbed>>

CreateKey(s) ==
    /\ pc[s] = "createKey"
    /\ key' = Torn
    /\ Goto(s, "fillKey")
    /\ UNCHANGED <<cert, ca, pair, read, served, starts, made, faults, disturbed>>

\* The pair is served as it was made, whatever the files hold.
FillKey(s) ==
    /\ pc[s] = "fillKey"
    /\ key' \in Filled(key, s)
    /\ served' = [served EXCEPT ![s] = [cert |-> pair[s], key |-> pair[s]]]
    /\ Goto(s, "serving")
    /\ UNCHANGED <<cert, ca, pair, read, starts, made, faults, disturbed>>

\* A file that cannot be created or filled ends the start.
WriteFails(s) ==
    /\ pc[s] \in Generating \ {"readCa"}
    /\ faults < MaxFaults
    /\ faults' = faults + 1
    /\ disturbed' = (disturbed \/ pc[s] = "fillKey")
    /\ Goto(s, "unwritten")
    /\ UNCHANGED <<cert, key, ca, pair, read, served, starts, made>>

-----------------------------------------------------------------------------
(* load_pem_cert_and_key, and the check of the TLS configuration *)

\* An empty certificate file is an empty chain, no error yet.
ReadCert(s) ==
    /\ pc[s] = "readCert"
    /\ read' = [read EXCEPT ![s] = cert]
    /\ Goto(s, "readKey")
    /\ UNCHANGED <<cert, key, ca, pair, served, starts, made, faults, disturbed>>

\* Mutation: the key is not compared with the certificate.
LoadUnchecked(s) ==
    /\ pc[s] = "readKey"
    /\ key # Torn /\ read[s] # Torn
    /\ served' = [served EXCEPT ![s] = [cert |-> read[s], key |-> key]]
    /\ Goto(s, "serving")
    /\ UNCHANGED <<cert, key, ca, pair, read, starts, made, faults, disturbed>>

Load(s) ==
    /\ pc[s] = "readKey"
    /\ key # Torn /\ read[s] = key
    /\ served' = [served EXCEPT ![s] = [cert |-> read[s], key |-> key]]
    /\ Goto(s, "serving")
    /\ UNCHANGED <<cert, key, ca, pair, read, starts, made, faults, disturbed>>

\* No key, no certificate, or two that do not belong together.
LoadFails(s) ==
    /\ pc[s] = "readKey"
    /\ key = Torn \/ read[s] # key
    /\ Goto(s, "badPair")
    /\ UNCHANGED <<cert, key, ca, pair, read, served, starts, made, faults, disturbed>>

-----------------------------------------------------------------------------
\* The server is stopped, or its process ends.
Stop(s) ==
    /\ pc[s] \notin Ended
    /\ disturbed' = (disturbed \/ pc[s] = "fillKey")
    /\ Goto(s, "down")
    /\ UNCHANGED <<cert, key, ca, pair, read, served, starts, made, faults>>

Step(s) ==
    \/ Start(s) \/ Check(s) \/ ReadCa(s)
    \/ CreateCert(s) \/ FillCert(s) \/ CreateKey(s) \/ FillKey(s) \/ WriteFails(s)
    \/ ReadCert(s) \/ Load(s) \/ LoadFails(s) \/ Stop(s)

Next == WriteCa \/ \E s \in Servers : Step(s)

Spec == Init /\ [][Next]_vars

-----------------------------------------------------------------------------
(* Properties *)

\* No server ever answers with a key that is not its certificate's, whatever
\* two starts at once have left in the files.
ServedPairMatches == \A s \in Servers : served[s].cert = served[s].key

\* A start fails on the files it finds only after two starts overlapped or one
\* ended between creating the key file and filling it: a start that ends
\* anywhere else leaves files that the next start loads or makes anew.
StartFailsOnlyIfTorn == \A s \in Servers : pc[s] = "badPair" => disturbed

\* server.rs:279 keeps the pair for reuse across restarts: but for such an
\* accident all servers of the directory, and one server over its restarts,
\* serve the same pair, and it is the one in the files.
IdentityIsReused ==
    ~disturbed => \A s \in Servers :
        served[s] # Nothing => served[s] = [cert |-> cert, key |-> key]
=============================================================================
