----------------------------- MODULE CertProofs ------------------------------
(***************************************************************************)
(* For any number of nodes that share a certificate, any interleaving of   *)
(* their starts, renewals and file writes, and any crashes and failures:   *)
(* damaged files have a cause, and the number of orders is bounded by what *)
(* happened to the certificate and to the process.                         *)
(***************************************************************************)
EXTENDS Cert, FiniteSetTheorems, TLAPS

USE NodesAssumption, ModesAssumption

Steps == {"idle", "lego", "register", "save", "order", "obtain", "cert", "certCut", "key",
          "keyCut", "load"}

(* The state of the nodes and the files is well typed. *)
CertType ==
    /\ mode \in {"file", "self", "http"}
    /\ issued \in Nat
    /\ certFile \in Int /\ certFile >= Torn /\ certFile <= issued
    /\ keyFile \in Int
    /\ account \in {None, Torn, 1}
    /\ boot \in Nat
    /\ pc \in [Nodes -> Steps]
    /\ held \in [Nodes -> Int]
    /\ mem \in [Nodes -> [cert : Int, key : Int]]
    /\ served \in [Nodes -> Int]
    /\ dirty \in [Nodes -> SUBSET {"cert", "key"}]
    /\ \A d \in due : d \in Nat /\ d > 0 /\ d <= issued
    /\ ages \in Nat /\ crashes \in Nat /\ faults \in Nat
    /\ hurt \in BOOLEAN

(* requestCert finds both files. *)
Found == certFile # None /\ keyFile # None

(* The nodes are started one after the other: only the next one is in       *)
(* requestCert, and the files are there once a node has loaded them.        *)
StartInv ==
    /\ \A n \in Nodes : n <= boot => Renewing(n)
    /\ \A n \in Nodes : pc[n] # "idle" \/ Renewing(n) => n <= boot + 1
    /\ \A n \in Nodes : ~Renewing(n) /\ pc[n] # "idle" => n = boot + 1
    /\ \A n \in Nodes : ~Renewing(n) /\ pc[n] \in {"lego", "register", "save", "order", "obtain"} => ~Found
    /\ \A n \in Nodes : Renewing(n) \/ pc[n] = "load" => Found
    /\ \A n \in Nodes : pc[n] = "load" => ~Renewing(n)
    /\ \A n \in Nodes : dirty[n] # {} => Renewing(n)
    /\ \A n \in Nodes : Writing(n) => certFile # None
    /\ \A n \in Nodes : pc[n] = "keyCut" => keyFile # None
    /\ mode = "file" => Found

(* A pair that has not been written yet is nobody else's and not due. *)
HeldInv ==
    /\ \A n \in Nodes : pc[n] \in {"cert", "certCut", "key", "keyCut"} =>
          held[n] > 0 /\ held[n] <= issued
    /\ \A n \in Nodes : pc[n] \in {"cert", "certCut"} =>
          /\ held[n] \notin due /\ held[n] # certFile
          /\ \A m \in Nodes \ {n} : pc[m] \in {"cert", "certCut"} => held[m] # held[n]

(* As long as no write was cut short or overlapped, the files are what the  *)
(* one node that writes has made of them.                                   *)
FilesInv ==
    ~hurt =>
        /\ \A m, n \in Nodes : Writing(m) /\ Writing(n) => m = n
        /\ \A n \in Nodes : pc[n] \in {"key", "keyCut"} => certFile = held[n]
        /\ (\A n \in Nodes : ~Writing(n)) => certFile = keyFile /\ certFile # Torn
        /\ account = Torn => \E n \in Nodes : pc[n] = "save"

(* A node can be or come up and look at the certificate on disk. *)
Hope == certFile = keyFile \/ \E m \in Nodes : Renewing(m) \/ Writing(m)

(* Whether n may order a certificate although nothing more goes wrong and   *)
(* no certificate comes due: it is about to, or it is the next to start and *)
(* a file is missing, or the certificate is due and n has not replaced it.  *)
MayOrder(n) ==
    \/ pc[n] = "obtain"
    \/ n = boot + 1 /\ ~Found /\ pc[n] \notin {"cert", "certCut", "key", "keyCut"}
    \/ certFile \in due /\ Hope /\ pc[n] # "cert"

Orderers == {n \in Nodes : MayOrder(n)}

OrdersInv == issued + Cardinality(Orderers) <= 1 + N * (ages + faults + crashes)

-----------------------------------------------------------------------------
(* A subset of a set of nodes has no more elements. *)
LEMMA FewerNodes ==
    ASSUME NEW S \in SUBSET Nodes, NEW T \in SUBSET S
    PROVE  /\ Cardinality(S) \in Nat /\ Cardinality(T) \in Nat
           /\ Cardinality(T) <= Cardinality(S) /\ Cardinality(S) <= N
<1>1. IsFiniteSet(Nodes) /\ Cardinality(Nodes) = N
    BY FS_Interval DEF Nodes
<1>2. IsFiniteSet(S) /\ Cardinality(S) <= Cardinality(Nodes)
    BY <1>1, FS_Subset
<1>3. IsFiniteSet(T) /\ Cardinality(T) <= Cardinality(S)
    BY <1>2, FS_Subset
<1> QED
    BY <1>1, <1>2, <1>3, FS_CardinalityType

(* Without one of its elements a set has one element less. *)
LEMMA OneNodeLess ==
    ASSUME NEW S \in SUBSET Nodes, NEW n \in S, NEW T \in SUBSET (S \ {n})
    PROVE  Cardinality(T) + 1 <= Cardinality(S)
<1>1. S \ {n} \in SUBSET Nodes /\ S \in SUBSET S
    OBVIOUS
<1>2. IsFiniteSet(S)
    <2>1. IsFiniteSet(Nodes)
        BY FS_Interval DEF Nodes
    <2> QED
        BY <2>1, FS_Subset
<1>3. Cardinality(S \ {n}) = Cardinality(S) - 1
    BY <1>2, FS_RemoveElement
<1>4. Cardinality(T) <= Cardinality(S \ {n}) /\ Cardinality(T) \in Nat
    BY <1>1, FewerNodes
<1>5. Cardinality(S) \in Nat
    BY <1>1, FewerNodes
<1> QED
    BY <1>3, <1>4, <1>5

(* A set of one node is no larger than a set that is not empty. *)
LEMMA OneForAnother ==
    ASSUME NEW S \in SUBSET Nodes, S # {}, NEW x \in Nodes, NEW T \in SUBSET {x}
    PROVE  Cardinality(T) <= Cardinality(S)
<1>1. Cardinality({x}) = 1 /\ Cardinality({}) = 0
    BY FS_Singleton, FS_EmptySet
<1>2. PICK n \in S : TRUE
    OBVIOUS
<1>3. Cardinality({}) + 1 <= Cardinality(S)
    BY <1>2, OneNodeLess
<1>4. Cardinality(T) <= Cardinality({x}) /\ Cardinality(T) \in Nat /\ Cardinality(S) \in Nat
    BY FewerNodes
<1> QED
    BY <1>1, <1>3, <1>4

Causes == ages + faults + crashes

(* A certificate that comes due, a failure or a crash allows an order more  *)
(* to every node.                                                           *)
LEMMA OrdersCounted ==
    ASSUME CertType, OrdersInv, issued' = issued, Causes' = Causes + 1
    PROVE  OrdersInv'
<1>1. Orderers \in SUBSET Nodes /\ Orderers' \in SUBSET Nodes
    BY DEF Orderers
<1>2. /\ Cardinality(Orderers) \in Nat /\ Cardinality(Orderers') \in Nat
      /\ Cardinality(Orderers') <= N
    BY <1>1, FewerNodes
<1>3. issued \in Nat /\ Causes \in Nat /\ N \in Nat
    BY DEF CertType, Causes
<1>4. issued + Cardinality(Orderers) <= 1 + N * Causes
    BY DEF OrdersInv, Causes
<1>5. N * (Causes + 1) = N * Causes + N /\ N * Causes \in Nat
    BY <1>3
<1>6. issued + Cardinality(Orderers') <= 1 + (N * Causes + N)
    BY <1>2, <1>3, <1>4, <1>5
<1> QED
    BY <1>5, <1>6 DEF OrdersInv, Causes

(* Any other step must not make a node order that would not have done so. *)
LEMMA OrdersKept ==
    ASSUME CertType, OrdersInv, issued' = issued, Causes' = Causes,
           \/ \A n \in Nodes : MayOrder(n)' => MayOrder(n)
           \/ \E m \in Nodes : MayOrder(m) /\ \A n \in Nodes : MayOrder(n)' => n = 1
    PROVE  OrdersInv'
<1>1. Orderers \in SUBSET Nodes /\ Orderers' \in SUBSET Nodes
    BY DEF Orderers
<1>2. Cardinality(Orderers') <= Cardinality(Orderers)
    <2>1. CASE \A n \in Nodes : MayOrder(n)' => MayOrder(n)
        <3>1. Orderers' \in SUBSET Orderers
            BY <2>1 DEF Orderers
        <3> QED
            BY <1>1, <3>1, FewerNodes
    <2>2. CASE \E m \in Nodes : MayOrder(m) /\ \A n \in Nodes : MayOrder(n)' => n = 1
        <3>1. Orderers # {} /\ Orderers' \in SUBSET {1} /\ 1 \in Nodes
            BY <2>2 DEF Orderers, Nodes
        <3> QED
            BY <1>1, <3>1, OneForAnother
    <2> QED
        BY <2>1, <2>2
<1>3. Cardinality(Orderers) \in Nat /\ Cardinality(Orderers') \in Nat
    BY <1>1, FewerNodes
<1>4. issued \in Nat /\ Causes \in Nat /\ N * Causes \in Nat
    BY DEF CertType, Causes
<1>5. issued + Cardinality(Orderers) <= 1 + N * Causes
    BY DEF OrdersInv, Causes
<1>6. issued' + Cardinality(Orderers') <= 1 + N * Causes
    BY <1>2, <1>3, <1>4, <1>5
<1> QED
    BY <1>6 DEF OrdersInv, Causes

(* A node that orders gives up its right to. *)
LEMMA OrdersPlaced ==
    ASSUME CertType, OrdersInv, issued' = issued + 1, Causes' = Causes,
           NEW n \in Nodes, MayOrder(n), ~MayOrder(n)',
           \A m \in Nodes : MayOrder(m)' => MayOrder(m)
    PROVE  OrdersInv'
<1>1. /\ Orderers \in SUBSET Nodes /\ n \in Orderers
      /\ Orderers' \in SUBSET (Orderers \ {n})
    BY DEF Orderers
<1>2. Cardinality(Orderers') + 1 <= Cardinality(Orderers)
    BY <1>1, OneNodeLess
<1>3. Cardinality(Orderers) \in Nat /\ Cardinality(Orderers') \in Nat
    BY <1>1, FewerNodes
<1>4. issued \in Nat /\ Causes \in Nat /\ N * Causes \in Nat
    BY DEF CertType, Causes
<1>5. issued + Cardinality(Orderers) <= 1 + N * Causes
    BY DEF OrdersInv, Causes
<1>6. issued' + Cardinality(Orderers') <= 1 + N * Causes
    BY <1>2, <1>3, <1>4, <1>5
<1> QED
    BY <1>6 DEF OrdersInv, Causes

-----------------------------------------------------------------------------
Base == CertType /\ StartInv /\ HeldInv /\ FilesInv

(* The counters stay natural numbers. *)
Counters == ages \in Nat /\ crashes \in Nat /\ faults \in Nat

(* Pairs held by nodes that go on writing stay as they are. *)
LEMMA HeldKept ==
    ASSUME HeldInv, UNCHANGED <<certFile, issued, due>>,
           \A m \in Nodes : pc'[m] \in {"cert", "certCut", "key", "keyCut"} =>
               pc'[m] = pc[m] /\ held'[m] = held[m]
    PROVE  HeldInv'
<1>1. \A n \in Nodes : pc'[n] \in {"cert", "certCut", "key", "keyCut"} =>
          held'[n] > 0 /\ held'[n] <= issued'
    BY ZenonT(60) DEF HeldInv
<1>2. ASSUME NEW n \in Nodes, pc'[n] \in {"cert", "certCut"}
      PROVE  /\ held'[n] \notin due' /\ held'[n] # certFile'
             /\ \A m \in Nodes \ {n} : pc'[m] \in {"cert", "certCut"} => held'[m] # held'[n]
    <2>1. pc[n] \in {"cert", "certCut"} /\ held'[n] = held[n]
        BY ZenonT(60), <1>2
    <2>2. \A m \in Nodes : pc'[m] \in {"cert", "certCut"} =>
              pc[m] \in {"cert", "certCut"} /\ held'[m] = held[m]
        BY ZenonT(60)
    <2> QED
        BY ZenonT(60), <2>1, <2>2 DEF HeldInv
<1> QED
    BY ZenonT(60), <1>1, <1>2 DEF HeldInv

(* The end of the process leaves the files as they are. *)
LEMMA DiesKeeps ==
    ASSUME Base, Dies, UNCHANGED <<mode, certFile, keyFile, account, issued, due>>, Counters'
    PROVE  Base'
<1>1. /\ boot' = 0 /\ pc' = [n \in Nodes |-> "idle"] /\ held' = [n \in Nodes |-> None]
      /\ mem' = [n \in Nodes |-> Unread] /\ served' = [n \in Nodes |-> None]
      /\ dirty' = [n \in Nodes |-> {}]
      /\ hurt' = (hurt \/ \E n \in Nodes : Writing(n) \/ pc[n] = "save")
    BY ZenonT(60) DEF Dies
<1>2. CertType'
    BY <1>1 DEF Base, CertType, Counters, Steps, Unread, None, Torn
<1>3. \A n \in Nodes : pc'[n] = "idle" /\ served'[n] = None /\ dirty'[n] = {}
    BY ZenonT(60), <1>1
<1>4. StartInv'
    <2>1. \A n \in Nodes : ~(n <= boot')
        BY <1>1 DEF Nodes
    <2> QED
        BY ZenonT(60), <1>3, <2>1 DEF Base, StartInv, Found, Renewing, Writing
<1>5. HeldInv'
    BY ZenonT(60), <1>3 DEF HeldInv
<1>6. FilesInv'
    <2>1. \A n \in Nodes : ~Writing(n)'
        BY ZenonT(60), <1>3 DEF Writing
    <2>2. \A n \in Nodes : pc'[n] \notin {"key", "keyCut"}
        BY ZenonT(60), <1>3
    <2>3. ~hurt' => ~hurt /\ \A n \in Nodes : ~Writing(n) /\ pc[n] # "save"
        BY ZenonT(60), <1>1
    <2>4. ~hurt' => certFile = keyFile /\ certFile # Torn /\ account # Torn
        BY ZenonT(60), <2>3 DEF Base, FilesInv
    <2> QED
        BY ZenonT(60), <2>1, <2>2, <2>4 DEF FilesInv
<1> QED
    BY ZenonT(60), <1>2, <1>4, <1>5, <1>6 DEF Base

(* The renewal of a node ends, with an error or because nothing is due; the *)
(* error of a write that has begun hurts.                                   *)
Ends(n) ==
    /\ Renewing(n) /\ pc[n] # "idle" /\ Returns(n)
    /\ held' \in [Nodes -> Int] /\ \A m \in Nodes \ {n} : held'[m] = held[m]
    /\ hurt' = (hurt \/ Writing(n) \/ pc[n] = "save")
    /\ UNCHANGED <<mode, certFile, keyFile, account, issued, due, inbound, dirty>>

(* Node n is the last one started, or it was started before. *)
LEMMA EndsBoots ==
    ASSUME Base, NEW n \in Nodes, Ends(n)
    PROVE  /\ boot' \in Nat /\ boot <= boot'
           /\ boot' = boot \/ (boot' = n /\ n = boot + 1)
<1>1. boot \in Nat /\ n <= boot + 1 /\ boot' = IF n > boot THEN n ELSE boot
    BY ZenonT(60) DEF Base, CertType, StartInv, Ends, Returns
<1> QED
    BY <1>1 DEF Nodes

(* It leaves everything else as it was. *)
LEMMA EndsKeeps ==
    ASSUME Base, NEW n \in Nodes, Ends(n), Counters'
    PROVE  Base'
<1>1. /\ pc' = [pc EXCEPT ![n] = "idle"] /\ pc \in [Nodes -> Steps]
      /\ UNCHANGED <<mode, certFile, keyFile, account, issued, due, mem, served, dirty>>
      /\ hurt' = (hurt \/ Writing(n) \/ pc[n] = "save")
    BY ZenonT(60) DEF Ends, Returns, Goto, inbound, Base, CertType
<1>2. /\ pc'[n] = "idle" /\ \A m \in Nodes \ {n} : pc'[m] = pc[m]
      /\ \A m \in Nodes : Renewing(m)' <=> Renewing(m)
    BY ZenonT(60), <1>1 DEF Renewing
<1>3. CertType'
    <2>1. pc' \in [Nodes -> Steps] /\ hurt' \in BOOLEAN
        BY ZenonT(60), <1>1 DEF Steps
    <2> QED
        BY ZenonT(60), <1>1, <2>1, EndsBoots DEF Base, CertType, Counters, Ends
<1>4. StartInv'
    <2>1. \A m \in Nodes : ~Renewing(m) /\ pc[m] # "idle" => boot' = boot
        <3> SUFFICES ASSUME NEW m \in Nodes, ~Renewing(m), pc[m] # "idle"
                     PROVE  boot' = boot
            BY ZenonT(60)
        <3>1. m = boot + 1 /\ m # n
            BY ZenonT(60) DEF Base, StartInv, Ends
        <3> QED
            BY ZenonT(60), <3>1, EndsBoots
    <2>2. \A m \in Nodes : m <= boot + 1 => m <= boot' + 1
        <3>1. boot \in Nat
            BY ZenonT(60) DEF Base, CertType
        <3> QED
            BY <3>1, EndsBoots DEF Nodes
    <2>3. \A m \in Nodes : pc'[m] # "idle" => pc'[m] = pc[m]
        BY ZenonT(60), <1>2
    <2>4. /\ \A m \in Nodes : pc'[m] # "idle" \/ Renewing(m)' => m <= boot' + 1
          /\ \A m \in Nodes : ~Renewing(m)' /\ pc'[m] # "idle" => m = boot' + 1
        BY ZenonT(60), <1>2, <2>1, <2>2, <2>3 DEF Base, StartInv
    <2>5. /\ \A m \in Nodes : ~Renewing(m)' /\ pc'[m] \in {"lego", "register", "save", "order", "obtain"}
                => ~Found
          /\ \A m \in Nodes : Renewing(m)' \/ pc'[m] = "load" => Found
          /\ \A m \in Nodes : pc'[m] = "load" => ~Renewing(m)'
        BY ZenonT(60), <1>2, <2>3 DEF Base, StartInv
    <2>6. /\ \A m \in Nodes : Writing(m)' => certFile # None
          /\ \A m \in Nodes : pc'[m] = "keyCut" => keyFile # None
        BY ZenonT(60), <2>3 DEF Base, StartInv, Writing
    <2>7. \A m \in Nodes : m <= boot' => Renewing(m)'
        <3>1. \A m \in Nodes : m <= boot' => m <= boot \/ m = n
            <4>1. boot \in Nat
                BY ZenonT(60) DEF Base, CertType
            <4> QED
                BY <4>1, EndsBoots DEF Nodes
        <3> QED
            BY ZenonT(60), <1>2, <3>1 DEF Base, StartInv, Ends
    <2> QED
        BY ZenonT(60), <1>1, <1>2, <2>4, <2>5, <2>6, <2>7 DEF Base, StartInv, Found
<1>5. HeldInv'
    <2>1. \A m \in Nodes : pc'[m] \in {"cert", "certCut", "key", "keyCut"} =>
              pc'[m] = pc[m] /\ held'[m] = held[m]
        BY ZenonT(60), <1>2 DEF Ends
    <2> QED
        BY ZenonT(60), <1>1, <2>1, HeldKept DEF Base
<1>6. FilesInv'
    <2> SUFFICES ASSUME ~hurt'
                 PROVE  /\ \A k, m \in Nodes : Writing(k)' /\ Writing(m)' => k = m
                        /\ \A m \in Nodes : pc'[m] \in {"key", "keyCut"} => certFile' = held'[m]
                        /\ (\A m \in Nodes : ~Writing(m)') => certFile' = keyFile' /\ certFile' # Torn
                        /\ account' = Torn => \E m \in Nodes : pc'[m] = "save"
        BY ZenonT(60) DEF FilesInv
    <2>1. ~hurt /\ ~Writing(n) /\ pc[n] # "save"
        BY ZenonT(60), <1>1
    <2>2. \A m \in Nodes : Writing(m)' <=> Writing(m)
        BY ZenonT(60), <1>2, <2>1 DEF Writing
    <2> QED
        BY ZenonT(60), <1>1, <1>2, <2>1, <2>2 DEF Base, FilesInv, Ends
<1> QED
    BY ZenonT(60), <1>3, <1>4, <1>5, <1>6 DEF Base

(* Whatever fails, the error ends the renewal or the process. *)
LEMMA AbortsKeeps ==
    ASSUME Base, NEW n \in Nodes, pc[n] # "idle", Aborts(n), Counters',
           UNCHANGED <<mode, certFile, keyFile, account, issued, due>>
    PROVE  Base'
<1>1. CASE ~Renewing(n)
    BY ZenonT(60), <1>1, DiesKeeps DEF Aborts
<1>2. CASE Renewing(n)
    <2>1. Returns(n) /\ held' = [held EXCEPT ![n] = None] /\ held \in [Nodes -> Int]
          /\ hurt' = (hurt \/ Writing(n) \/ pc[n] = "save") /\ UNCHANGED <<inbound, dirty>>
        BY ZenonT(60), <1>2 DEF Aborts, Base, CertType
    <2>2. held' \in [Nodes -> Int] /\ \A m \in Nodes \ {n} : held'[m] = held[m]
        BY <2>1 DEF None
    <2>3. Ends(n)
        BY ZenonT(60), <1>2, <2>1, <2>2 DEF Ends
    <2> QED
        BY ZenonT(60), <2>3, EndsKeeps
<1> QED
    BY ZenonT(60), <1>1, <1>2

-----------------------------------------------------------------------------
(* Node n goes on in Start or in its renewal, before anything is ordered    *)
(* and with no file but that of the account touched.                        *)
Walks(n, to) ==
    /\ pc[n] \in {"idle", "lego", "register", "save", "order"}
    /\ to \in {"lego", "register", "save", "order", "obtain", "load"}
    /\ pc' = [pc EXCEPT ![n] = to]
    /\ UNCHANGED <<mode, certFile, keyFile, boot, held, mem, served, dirty, issued, due,
                   ages, crashes, faults>>
    /\ account' \in {None, Torn, 1} /\ hurt' \in BOOLEAN /\ (hurt => hurt')
    /\ account' = Torn => to = "save" \/ (account = Torn /\ pc[n] # "save") \/ hurt'
    /\ n <= boot + 1 /\ (~Renewing(n) => n = boot + 1)
    /\ ~Renewing(n) /\ to # "load" => ~Found
    /\ to = "load" => Found /\ ~Renewing(n)

(* Which keeps the order of the starts and the state of the files. *)
LEMMA WalksKeeps ==
    ASSUME Base, NEW n \in Nodes, NEW to, Walks(n, to)
    PROVE  Base'
<1>1. /\ pc'[n] = to /\ to \in {"lego", "register", "save", "order", "obtain", "load"}
      /\ \A m \in Nodes \ {n} : pc'[m] = pc[m]
      /\ pc' \in [Nodes -> Steps]
    BY ZenonT(60) DEF Walks, Base, CertType, Steps
<1>2. /\ \A m \in Nodes : Renewing(m)' <=> Renewing(m)
      /\ \A m \in Nodes : Writing(m)' <=> Writing(m)
      /\ Found' <=> Found
    BY ZenonT(60), <1>1 DEF Walks, Renewing, Writing, Found
<1>3. CertType'
    BY ZenonT(60), <1>1 DEF Base, CertType, Walks
<1>4. StartInv'
    <2>1. /\ \A m \in Nodes : m <= boot' => Renewing(m)'
          /\ mode' = "file" => Found'
          /\ \A m \in Nodes : dirty'[m] # {} => Renewing(m)'
          /\ \A m \in Nodes : Writing(m)' => certFile' # None
        BY ZenonT(60), <1>2 DEF Base, StartInv, Walks
    <2>2. ASSUME NEW m \in Nodes
          PROVE  /\ pc'[m] # "idle" \/ Renewing(m)' => m <= boot' + 1
                 /\ ~Renewing(m)' /\ pc'[m] # "idle" => m = boot' + 1
                 /\ ~Renewing(m)' /\ pc'[m] \in {"lego", "register", "save", "order", "obtain"} => ~Found'
                 /\ Renewing(m)' \/ pc'[m] = "load" => Found'
                 /\ pc'[m] = "load" => ~Renewing(m)'
                 /\ pc'[m] = "keyCut" => keyFile' # None
        <3>1. CASE m = n
            BY ZenonT(60), <1>1, <1>2, <3>1 DEF Base, StartInv, Walks
        <3>2. CASE m # n
            BY ZenonT(60), <1>1, <1>2, <3>2 DEF Base, StartInv, Walks
        <3> QED
            BY ZenonT(60), <3>1, <3>2
    <2> QED
        BY ZenonT(60), <2>1, <2>2 DEF StartInv
<1>5. HeldInv'
    <2>1. \A m \in Nodes : pc'[m] \in {"cert", "certCut", "key", "keyCut"} =>
              pc'[m] = pc[m] /\ held'[m] = held[m]
        BY ZenonT(60), <1>1 DEF Walks
    <2> QED
        BY ZenonT(60), <2>1, HeldKept DEF Base, Walks
<1>6. FilesInv'
    <2>1. UNCHANGED <<certFile, keyFile, held>> /\ (~hurt' => ~hurt)
        BY ZenonT(60) DEF Walks
    <2>2. \A m \in Nodes : pc'[m] \in {"key", "keyCut"} => pc[m] = pc'[m]
        BY ZenonT(60), <1>1
    <2>3. ~hurt' /\ account' = Torn => \E m \in Nodes : pc'[m] = "save"
        <3>1. CASE to = "save"
            BY ZenonT(60), <1>1, <3>1
        <3>2. CASE to # "save"
            BY ZenonT(60), <1>1, <2>1, <3>2 DEF Base, FilesInv, Walks
        <3> QED
            BY ZenonT(60), <3>1, <3>2
    <2> QED
        BY ZenonT(60), <1>2, <2>1, <2>2, <2>3 DEF Base, FilesInv
<1> QED
    BY ZenonT(60), <1>3, <1>4, <1>5, <1>6 DEF Base

(* It makes no node order that would not have done so. *)
LEMMA WalksOrders ==
    ASSUME Base, OrdersInv, NEW n \in Nodes, NEW to, Walks(n, to),
           to = "obtain" => MayOrder(n)
    PROVE  OrdersInv'
<1>1. /\ pc'[n] = to /\ to \in {"lego", "register", "save", "order", "obtain", "load"}
      /\ \A m \in Nodes \ {n} : pc'[m] = pc[m]
      /\ pc[n] \in {"idle", "lego", "register", "save", "order"}
    BY ZenonT(60) DEF Walks, Base, CertType, Steps
<1>2. Hope' <=> Hope
    BY ZenonT(60), <1>1 DEF Walks, Hope, Renewing, Writing
<1>3. \A m \in Nodes : MayOrder(m)' => MayOrder(m)
    <2> SUFFICES ASSUME NEW m \in Nodes, MayOrder(m)' PROVE MayOrder(m)
        BY ZenonT(60)
    <2>1. UNCHANGED <<certFile, keyFile, boot, due>> /\ (Found' <=> Found)
        BY ZenonT(60) DEF Walks, Found
    <2>2. CASE m = n
        <3>1. CASE to = "obtain"
            BY ZenonT(60), <2>2, <3>1
        <3>2. CASE to # "obtain"
            <4>1. \/ m = boot + 1 /\ ~Found
                  \/ certFile \in due /\ Hope
                BY ZenonT(60), <1>1, <1>2, <2>1, <2>2, <3>2 DEF MayOrder
            <4>2. pc[m] \notin {"cert", "certCut", "key", "keyCut"}
                BY ZenonT(60), <1>1, <2>2
            <4>3. pc[m] # "cert"
                BY ZenonT(60), <4>2
            <4> QED
                BY ZenonT(60), <4>1, <4>2, <4>3 DEF MayOrder
        <3> QED
            BY ZenonT(60), <3>1, <3>2
    <2>3. CASE m # n
        <3>1. pc'[m] = pc[m]
            BY ZenonT(60), <1>1, <2>3
        <3> QED
            BY ZenonT(60), <1>2, <2>1, <3>1 DEF MayOrder
    <2> QED
        BY ZenonT(60), <2>2, <2>3
<1>4. issued' = issued /\ Causes' = Causes
    BY ZenonT(60) DEF Walks, Causes
<1> QED
    BY ZenonT(60), <1>3, <1>4, OrdersKept DEF Base

(* The renewal of a node that ends changes nobody's right to order, and a   *)
(* failure is counted.                                                      *)
LEMMA EndsOrders ==
    ASSUME Base, OrdersInv, NEW n \in Nodes, Ends(n), Causes' = Causes, pc[n] # "cert"
    PROVE  OrdersInv'
<1>1. pc'[n] = "idle" /\ \A m \in Nodes \ {n} : pc'[m] = pc[m]
    BY ZenonT(60) DEF Ends, Returns, Goto, Base, CertType
<1>2. Found /\ Hope /\ UNCHANGED <<certFile, keyFile, due, issued>>
    BY ZenonT(60) DEF Ends, Base, StartInv, Hope
<1>3. \A m \in Nodes : MayOrder(m)' => MayOrder(m)
    <2> SUFFICES ASSUME NEW m \in Nodes, MayOrder(m)' PROVE MayOrder(m)
        BY ZenonT(60)
    <2>1. Found'
        BY ZenonT(60), <1>2 DEF Found
    <2>2. pc'[m] = "obtain" \/ (certFile \in due /\ pc'[m] # "cert")
        BY ZenonT(60), <1>2, <2>1 DEF MayOrder
    <2> QED
        BY ZenonT(60), <1>1, <1>2, <2>2 DEF MayOrder
<1> QED
    BY ZenonT(60), <1>2, <1>3, OrdersKept DEF Base

-----------------------------------------------------------------------------
CInv == Base /\ OrdersInv

(* The failure of a request or of a write is counted. *)
LEMMA FailsCounted ==
    ASSUME CertType, Fails, UNCHANGED <<ages, crashes>>
    PROVE  Counters' /\ Causes' = Causes + 1
<1>1. /\ ages \in Nat /\ crashes \in Nat /\ faults \in Nat
      /\ faults' = faults + 1 /\ ages' = ages /\ crashes' = crashes
    BY ZenonT(60) DEF CertType, Fails
<1> QED
    BY <1>1 DEF Counters, Causes

(* A step that fails keeps the invariant. *)
LEMMA FailsInv ==
    ASSUME CInv, NEW n \in Nodes, pc[n] # "idle", Fails, Aborts(n),
           UNCHANGED <<mode, certFile, keyFile, account, issued, due, ages, crashes>>
    PROVE  CInv'
<1>1. Counters' /\ Causes' = Causes + 1
    BY ZenonT(60), FailsCounted DEF CInv, Base
<1>2. Base'
    BY ZenonT(60), <1>1, AbortsKeeps DEF CInv
<1>3. OrdersInv'
    BY ZenonT(60), <1>1, OrdersCounted DEF CInv, Base
<1> QED
    BY ZenonT(60), <1>2, <1>3 DEF CInv

(* requestCert and the renewal timer. *)
LEMMA StartsInv ==
    ASSUME CInv, NEW n \in Nodes, RequestCert(n) \/ RenewCertTask(n)
    PROVE  CInv'
<1>1. boot \in Nat /\ account \in {None, Torn, 1} /\ hurt \in BOOLEAN
    BY ZenonT(60) DEF CInv, Base, CertType
<1>2. CASE RequestCert(n)
    <2>1. /\ n = boot + 1 /\ pc[n] = "idle" /\ ~Renewing(n)
          /\ UNCHANGED <<mode, certFile, keyFile, account, boot, held, mem, served, dirty,
                         issued, due, ages, crashes, faults, hurt>>
        BY ZenonT(60), <1>2 DEF RequestCert, disk, inbound, history
    <2>2. n <= boot + 1
        BY <1>1, <2>1
    <2>3. CASE pc' = [pc EXCEPT ![n] = "load"] /\ Found
        <3>1. Walks(n, "load")
            BY ZenonT(60), <1>1, <2>1, <2>2, <2>3 DEF Walks
        <3> QED
            BY ZenonT(60), <3>1, WalksKeeps, WalksOrders DEF CInv
    <2>4. ASSUME NEW to \in {"obtain", "lego"}, pc' = [pc EXCEPT ![n] = to], ~Found PROVE CInv'
        <3>1. Walks(n, to)
            BY ZenonT(60), <1>1, <2>1, <2>2, <2>4 DEF Walks
        <3>2. MayOrder(n)
            BY ZenonT(60), <2>1, <2>4 DEF MayOrder
        <3> QED
            BY ZenonT(60), <3>1, <3>2, WalksKeeps, WalksOrders DEF CInv
    <2>5. \/ pc' = [pc EXCEPT ![n] = "load"] /\ Found
          \/ ~Found /\ \E to \in {"obtain", "lego"} : pc' = [pc EXCEPT ![n] = to]
        BY ZenonT(60), <1>2 DEF RequestCert, Goto, Found, CInv, Base, StartInv
    <2> QED
        BY ZenonT(60), <2>3, <2>4, <2>5
<1>3. CASE RenewCertTask(n)
    <2>1. /\ n <= boot /\ pc[n] = "idle" /\ pc' = [pc EXCEPT ![n] = "lego"]
          /\ UNCHANGED <<mode, certFile, keyFile, account, boot, held, mem, served, dirty,
                         issued, due, ages, crashes, faults, hurt>>
        BY ZenonT(60), <1>3 DEF RenewCertTask, disk, inbound, history, Goto
    <2>2. n <= boot + 1
        BY <1>1, <2>1 DEF Nodes
    <2>3. Renewing(n)
        BY ZenonT(60), <2>1 DEF CInv, Base, StartInv
    <2>4. Walks(n, "lego")
        BY ZenonT(60), <1>1, <2>1, <2>2, <2>3 DEF Walks
    <2> QED
        BY ZenonT(60), <2>4, WalksKeeps, WalksOrders DEF CInv
<1> QED
    BY ZenonT(60), <1>2, <1>3

(* The place of a node that is past its first step. *)
LEMMA PlaceOf ==
    ASSUME Base, NEW n \in Nodes, pc[n] \in {"lego", "register", "save", "order"}
    PROVE  n <= boot + 1 /\ (~Renewing(n) => n = boot + 1 /\ ~Found)
BY ZenonT(60) DEF Base, StartInv

(* A node that starts although the account is unreadable ends the process,  *)
(* and the next process is as far from its first order.                     *)
LEMMA UnreadableDies ==
    ASSUME CInv, NEW n \in Nodes, pc[n] = "lego", ~Renewing(n), Dies,
           UNCHANGED <<mode, certFile, keyFile, account, issued, due, ages, crashes, faults>>
    PROVE  CInv'
<1>1. n = boot + 1 /\ ~Found
    BY ZenonT(60), PlaceOf DEF CInv
<1>2. MayOrder(n)
    BY ZenonT(60), <1>1 DEF MayOrder
<1>3. boot' = 0 /\ \A m \in Nodes : pc'[m] = "idle" /\ served'[m] = None
    BY ZenonT(60) DEF Dies
<1>4. certFile \in due => certFile # keyFile
    <2>1. certFile \in due => certFile > 0 /\ certFile \in Nat
        BY ZenonT(60) DEF CInv, Base, CertType
    <2>2. certFile = 0 \/ keyFile = 0
        BY ZenonT(60), <1>1 DEF Found, None
    <2> QED
        BY <2>1, <2>2
<1>5. \A m \in Nodes : MayOrder(m)' => m = 1
    <2>1. certFile \in due => ~Hope'
        BY ZenonT(60), <1>3, <1>4 DEF Hope, Renewing, Writing
    <2>2. boot' + 1 = 1
        BY <1>3
    <2> QED
        BY ZenonT(60), <1>3, <2>1, <2>2 DEF MayOrder
<1>6. Counters' /\ Causes' = Causes /\ issued' = issued
    BY ZenonT(60) DEF CInv, Base, CertType, Counters, Causes
<1> QED
    BY ZenonT(60), <1>2, <1>5, <1>6, DiesKeeps, OrdersKept DEF CInv, Base

(* NewLego. *)
LEMMA NewLegoInv == ASSUME CInv, NEW n \in Nodes, NewLego(n) PROVE CInv'
<1>1. /\ pc[n] = "lego" /\ account \in {None, Torn, 1} /\ hurt \in BOOLEAN
      /\ n <= boot + 1 /\ (~Renewing(n) => n = boot + 1 /\ ~Found)
      /\ UNCHANGED <<mode, certFile, keyFile, account, issued, due, ages, crashes>>
    <2>1. /\ pc[n] = "lego"
          /\ UNCHANGED <<mode, certFile, keyFile, account, issued, due, ages, crashes>>
        BY ZenonT(60) DEF NewLego, disk
    <2> QED
        BY ZenonT(60), <2>1, PlaceOf DEF CInv, Base, CertType
<1>2. ASSUME NEW to \in {"register", "order"}, pc' = [pc EXCEPT ![n] = to],
             UNCHANGED <<boot, held, mem, served, dirty, faults, hurt>>
      PROVE  CInv'
    <2>1. Walks(n, to)
        BY ZenonT(60), <1>1, <1>2 DEF Walks
    <2>2. to # "obtain"
        BY ZenonT(60)
    <2> QED
        BY ZenonT(60), <2>1, <2>2, WalksKeeps, WalksOrders DEF CInv
<1>3. CASE Aborts(n) /\ UNCHANGED faults
    <2>1. Counters' /\ Causes' = Causes
        BY ZenonT(60), <1>1, <1>3 DEF CInv, Base, CertType, Counters, Causes
    <2>2. CASE ~Renewing(n)
        BY ZenonT(60), <1>1, <1>3, <2>2, UnreadableDies DEF Aborts
    <2>3. CASE Renewing(n)
        <3>1. /\ Returns(n) /\ held' = [held EXCEPT ![n] = None] /\ held \in [Nodes -> Int]
              /\ hurt' = (hurt \/ Writing(n) \/ pc[n] = "save") /\ UNCHANGED <<inbound, dirty>>
            BY ZenonT(60), <1>3, <2>3 DEF Aborts, CInv, Base, CertType
        <3>2. held' \in [Nodes -> Int] /\ \A m \in Nodes \ {n} : held'[m] = held[m]
            BY <3>1 DEF None
        <3>3. Ends(n)
            BY ZenonT(60), <1>1, <1>3, <2>3, <3>1, <3>2 DEF Ends
        <3> QED
            BY ZenonT(60), <1>1, <2>1, <3>3, EndsKeeps, EndsOrders DEF CInv
    <2> QED
        BY ZenonT(60), <2>2, <2>3
<1>4. CASE Fails /\ Aborts(n)
    BY ZenonT(60), <1>1, <1>4, FailsInv
<1> QED
    BY ZenonT(60), <1>2, <1>3, <1>4 DEF NewLego, Goto, inbound

(* registerUser, up to the truncated file. *)
LEMMA RegisterUserInv == ASSUME CInv, NEW n \in Nodes, RegisterUser(n) PROVE CInv'
<1>1. /\ pc[n] = "register" /\ hurt \in BOOLEAN
      /\ n <= boot + 1 /\ (~Renewing(n) => n = boot + 1 /\ ~Found)
      /\ UNCHANGED <<mode, certFile, keyFile, issued, due, ages, crashes>>
    <2>1. pc[n] = "register" /\ UNCHANGED <<mode, certFile, keyFile, issued, due, ages, crashes>>
        BY ZenonT(60) DEF RegisterUser
    <2> QED
        BY ZenonT(60), <2>1, PlaceOf DEF CInv, Base, CertType
<1>2. CASE /\ pc' = [pc EXCEPT ![n] = "save"] /\ account' = Torn
           /\ UNCHANGED <<boot, held, mem, served, dirty, faults, hurt>>
    <2>1. Walks(n, "save")
        BY ZenonT(60), <1>1, <1>2 DEF Walks
    <2> QED
        BY ZenonT(60), <2>1, WalksKeeps, WalksOrders DEF CInv
<1>3. CASE Fails /\ Aborts(n) /\ UNCHANGED account
    BY ZenonT(60), <1>1, <1>3, FailsInv
<1> QED
    BY ZenonT(60), <1>2, <1>3 DEF RegisterUser, Goto, inbound

(* User.Save. *)
LEMMA SaveUserInv == ASSUME CInv, NEW n \in Nodes, SaveUser(n) PROVE CInv'
<1>1. /\ pc[n] = "save" /\ hurt \in BOOLEAN
      /\ n <= boot + 1 /\ (~Renewing(n) => n = boot + 1 /\ ~Found)
      /\ UNCHANGED <<mode, certFile, keyFile, issued, due, ages, crashes>>
    <2>1. pc[n] = "save" /\ UNCHANGED <<mode, certFile, keyFile, issued, due, ages, crashes>>
        BY ZenonT(60) DEF SaveUser
    <2> QED
        BY ZenonT(60), <2>1, PlaceOf DEF CInv, Base, CertType
<1>2. CASE /\ pc' = [pc EXCEPT ![n] = "order"]
           /\ account' \in IF account = 1 THEN {1, Torn} ELSE {1}
           /\ hurt' = (hurt \/ account' = Torn)
           /\ UNCHANGED <<boot, held, mem, served, dirty, faults>>
    <2>1. account' \in {1, Torn} /\ hurt' \in BOOLEAN
        BY ZenonT(60), <1>1, <1>2
    <2>2. (hurt => hurt') /\ (account' = Torn => hurt')
        BY ZenonT(60), <1>2
    <2>3. Walks(n, "order")
        BY ZenonT(60), <1>1, <1>2, <2>1, <2>2 DEF Walks
    <2> QED
        BY ZenonT(60), <2>3, WalksKeeps, WalksOrders DEF CInv
<1>3. CASE Fails /\ Aborts(n) /\ UNCHANGED account
    BY ZenonT(60), <1>1, <1>3, FailsInv
<1> QED
    BY ZenonT(60), <1>2, <1>3 DEF SaveUser, Goto, inbound

(* CreateCert and RenewCert, up to the order. *)
LEMMA OrderInv == ASSUME CInv, NEW n \in Nodes, Order(n) PROVE CInv'
<1>1. /\ pc[n] = "order" /\ n <= boot + 1 /\ (~Renewing(n) => n = boot + 1 /\ ~Found)
      /\ account \in {None, Torn, 1} /\ held \in [Nodes -> Int] /\ hurt \in BOOLEAN
      /\ UNCHANGED <<mode, certFile, keyFile, account, held, mem, served, dirty, issued, due,
                     ages, crashes, faults, hurt>>
    <2>1. /\ pc[n] = "order"
          /\ UNCHANGED <<mode, certFile, keyFile, account, held, mem, served, dirty, issued,
                         due, ages, crashes, faults, hurt>>
        BY ZenonT(60) DEF Order, disk, inbound, history
    <2> QED
        BY ZenonT(60), <2>1, PlaceOf DEF CInv, Base, CertType
<1>2. CASE (~Renewing(n) \/ CheckCert) /\ pc' = [pc EXCEPT ![n] = "obtain"] /\ UNCHANGED boot
    <2>1. Walks(n, "obtain")
        BY ZenonT(60), <1>1, <1>2 DEF Walks
    <2>2. MayOrder(n)
        <3>1. CASE Renewing(n)
            BY ZenonT(60), <1>1, <1>2, <3>1 DEF MayOrder, CheckCert, Hope
        <3>2. CASE ~Renewing(n)
            BY ZenonT(60), <1>1, <3>2 DEF MayOrder
        <3> QED
            BY ZenonT(60), <3>1, <3>2
    <2> QED
        BY ZenonT(60), <2>1, <2>2, WalksKeeps, WalksOrders DEF CInv
<1>3. CASE Renewing(n) /\ Returns(n)
    <2>1. Counters' /\ Causes' = Causes
        BY ZenonT(60), <1>1 DEF CInv, Base, CertType, Counters, Causes
    <2>2. hurt' = (hurt \/ Writing(n) \/ pc[n] = "save")
        <3>1. hurt \in BOOLEAN /\ ~Writing(n)
            BY ZenonT(60), <1>1 DEF CInv, Base, CertType, Writing
        <3> QED
            BY ZenonT(60), <1>1, <3>1
    <2>3. Ends(n)
        BY ZenonT(60), <1>1, <1>3, <2>2 DEF Ends, inbound
    <2> QED
        BY ZenonT(60), <1>1, <2>1, <2>3, EndsKeeps, EndsOrders DEF CInv
<1> QED
    BY ZenonT(60), <1>2, <1>3 DEF Order, Goto

(* A new pair is one more than all pairs so far, so nobody has it. *)
LEMMA ObtainInv == ASSUME CInv, NEW n \in Nodes, Obtain(n) PROVE CInv'
<1>1. /\ pc[n] = "obtain"
      /\ UNCHANGED <<mode, certFile, keyFile, account, due, ages, crashes>>
    BY ZenonT(60) DEF Obtain, disk
<1>2. CASE Fails /\ Aborts(n) /\ UNCHANGED issued
    BY ZenonT(60), <1>1, <1>2, FailsInv
<1>3. CASE /\ issued' = issued + 1 /\ held' = [held EXCEPT ![n] = issued + 1]
           /\ pc' = [pc EXCEPT ![n] = "cert"]
           /\ UNCHANGED <<boot, mem, served, dirty, faults, hurt>>
    <2>1. /\ issued \in Nat /\ held \in [Nodes -> Int] /\ pc \in [Nodes -> Steps]
          /\ certFile \in Int /\ certFile >= Torn /\ certFile <= issued
          /\ \A d \in due : d \in Nat /\ d > 0 /\ d <= issued
        BY ZenonT(60) DEF CInv, Base, CertType
    <2>2. /\ issued' \in Nat /\ issued' > 0 /\ issued' \in Int
          /\ certFile <= issued' /\ issued' # certFile
          /\ \A d \in due : d <= issued' /\ d # issued'
          /\ \A h \in Int : h <= issued => h <= issued' /\ h # issued'
          /\ issued' <= issued'
        BY <1>3, <2>1
    <2>3. /\ pc'[n] = "cert" /\ held'[n] = issued'
          /\ \A m \in Nodes \ {n} : pc'[m] = pc[m] /\ held'[m] = held[m]
          /\ pc' \in [Nodes -> Steps] /\ held' \in [Nodes -> Int]
        BY ZenonT(60), <1>3, <2>1, <2>2 DEF Steps
    <2>4. /\ \A m \in Nodes : Renewing(m)' <=> Renewing(m)
          /\ \A m \in Nodes : Writing(m)' <=> Writing(m)
          /\ Found' <=> Found
        BY ZenonT(60), <1>1, <1>3, <2>3 DEF Renewing, Writing, Found
    <2>5. CertType'
        BY ZenonT(60), <1>1, <1>3, <2>2, <2>3 DEF CInv, Base, CertType
    <2>6. StartInv'
        BY ZenonT(60), <1>1, <1>3, <2>3, <2>4 DEF CInv, Base, StartInv
    <2>7. HeldInv'
        <3>1. ASSUME NEW m \in Nodes, pc'[m] \in {"cert", "certCut", "key", "keyCut"}, m # n
              PROVE  /\ held'[m] = held[m] /\ held[m] # issued' /\ held[m] > 0
                     /\ held[m] <= issued'
                     /\ pc[m] = pc'[m]
            <4>1. held[m] \in Int /\ held[m] > 0 /\ held[m] <= issued /\ pc[m] = pc'[m]
                BY ZenonT(60), <2>1, <2>3, <3>1 DEF CInv, Base, HeldInv
            <4> QED
                BY ZenonT(60), <2>2, <2>3, <3>1, <4>1
        <3>2. \A m \in Nodes : pc'[m] \in {"cert", "certCut", "key", "keyCut"} =>
                  held'[m] > 0 /\ held'[m] <= issued'
            BY ZenonT(60), <2>2, <2>3, <3>1
        <3>3. ASSUME NEW k \in Nodes, pc'[k] \in {"cert", "certCut"}
              PROVE  /\ held'[k] \notin due' /\ held'[k] # certFile'
                     /\ \A m \in Nodes \ {k} : pc'[m] \in {"cert", "certCut"} =>
                            held'[m] # held'[k]
            <4>1. CASE k = n
                <5>1. \A m \in Nodes \ {n} : pc'[m] \in {"cert", "certCut"} => held'[m] # issued'
                    BY ZenonT(60), <3>1
                <5> QED
                    BY ZenonT(60), <1>1, <2>2, <2>3, <4>1, <5>1
            <4>2. CASE k # n
                <5>1. pc[k] \in {"cert", "certCut"} /\ held'[k] = held[k] /\ held[k] # issued'
                    BY ZenonT(60), <3>1, <3>3, <4>2
                <5>2. \A m \in Nodes \ {k} : pc'[m] \in {"cert", "certCut"} => held'[m] # held[k]
                    BY ZenonT(60), <2>3, <5>1 DEF CInv, Base, HeldInv
                <5>3. held[k] \notin due /\ held[k] # certFile
                    BY ZenonT(60), <5>1 DEF CInv, Base, HeldInv
                <5> QED
                    BY ZenonT(60), <1>1, <5>1, <5>2, <5>3
            <4> QED
                BY ZenonT(60), <4>1, <4>2
        <3> QED
            BY ZenonT(60), <3>2, <3>3 DEF HeldInv
    <2>8. FilesInv'
        <3>1. \A m \in Nodes : pc'[m] \in {"key", "keyCut"} => pc[m] = pc'[m] /\ held'[m] = held[m]
            BY ZenonT(60), <2>3
        <3>2. \A m \in Nodes : pc[m] = "save" => pc'[m] = "save"
            BY ZenonT(60), <1>1, <2>3
        <3> QED
            BY ZenonT(60), <1>1, <1>3, <2>4, <3>1, <3>2 DEF CInv, Base, FilesInv
    <2>9. OrdersInv'
        <3>1. Hope' <=> Hope
            BY ZenonT(60), <1>1, <2>4 DEF Hope
        <3>2. MayOrder(n) /\ ~MayOrder(n)'
            BY ZenonT(60), <1>1, <2>3 DEF MayOrder
        <3>3. ASSUME NEW m \in Nodes, MayOrder(m)' PROVE MayOrder(m)
            <4>1. CASE m = n
                BY ZenonT(60), <3>2, <4>1
            <4>2. CASE m # n
                <5>1. pc'[m] = pc[m]
                    BY ZenonT(60), <2>3, <4>2
                <5> QED
                    BY ZenonT(60), <1>1, <1>3, <2>4, <3>1, <3>3, <5>1 DEF MayOrder
            <4> QED
                BY ZenonT(60), <4>1, <4>2
        <3>4. Causes' = Causes
            BY ZenonT(60), <1>1, <1>3 DEF Causes
        <3> QED
            BY ZenonT(60), <1>3, <3>2, <3>3, <3>4, OrdersPlaced DEF CInv, Base
    <2> QED
        BY ZenonT(60), <2>5, <2>6, <2>7, <2>8, <2>9 DEF CInv, Base
<1> QED
    BY ZenonT(60), <1>2, <1>3 DEF Obtain, Goto, inbound

-----------------------------------------------------------------------------
(* A step of writeCert that succeeds: n writes one of the files and, with   *)
(* the key written, goes back to the timer or on to AddNode.                *)
Writes(n) ==
    /\ pc[n] \in {"cert", "certCut", "key", "keyCut"}
    /\ pc'[n] \in {"certCut", "key", "keyCut", "idle", "load"}
    /\ \A m \in Nodes \ {n} : pc'[m] = pc[m] /\ held'[m] = held[m]
    /\ pc' \in [Nodes -> Steps] /\ held' \in [Nodes -> Int]
    /\ pc'[n] = "idle" => Renewing(n)
    /\ pc'[n] = "load" => ~Renewing(n)
    /\ boot' \in Nat
    /\ boot' = boot \/ (Renewing(n) /\ boot' = n /\ n = boot + 1)
    /\ certFile' # None /\ certFile' \in Int /\ certFile' >= Torn /\ certFile' <= issued
    /\ keyFile' \in Int /\ (keyFile # None => keyFile' # None)
    /\ pc'[n] \in {"keyCut", "idle", "load"} => keyFile' # None
    /\ Touches("cert") \/ Touches("key")
    /\ UNCHANGED <<mode, account, issued, due, mem, served, ages, crashes, faults>>

(* It keeps the types and the order of the starts. *)
LEMMA WritesStart ==
    ASSUME Base, NEW n \in Nodes, Writes(n), hurt' \in BOOLEAN
    PROVE  CertType' /\ StartInv'
<1>1. /\ pc[n] \in {"cert", "certCut", "key", "keyCut"} /\ pc[n] # "idle"
      /\ pc'[n] \in {"certCut", "key", "keyCut", "idle", "load"}
      /\ \A m \in Nodes \ {n} : pc'[m] = pc[m]
      /\ pc'[n] = "idle" => Renewing(n)
      /\ pc'[n] = "load" => ~Renewing(n)
      /\ boot' = boot \/ (Renewing(n) /\ boot' = n /\ n = boot + 1)
      /\ boot \in Nat
      /\ UNCHANGED <<mode, served>>
    BY ZenonT(60) DEF Writes, Base, CertType
<1>2. \A m \in Nodes : Renewing(m)' <=> Renewing(m)
    BY ZenonT(60), <1>1 DEF Renewing
<1>3. /\ Found => Found'
      /\ pc'[n] \in {"idle", "load"} => Found'
    BY ZenonT(60) DEF Writes, Found
<1>4. dirty' \in [Nodes -> SUBSET {"cert", "key"}] /\ \A m \in Nodes : dirty'[m] # {} => Renewing(m)
    <2>1. /\ dirty \in [Nodes -> SUBSET {"cert", "key"}]
          /\ \A m \in Nodes : dirty[m] # {} => served[m] # None
        BY ZenonT(60) DEF Base, CertType, StartInv, Renewing
    <2>2. PICK name \in {"cert", "key"} : Touches(name)
        BY ZenonT(60) DEF Writes
    <2> QED
        BY <2>1, <2>2 DEF Touches, Renewing
<1>5. CertType'
    BY ZenonT(60), <1>4 DEF Base, CertType, Writes
<1>6. StartInv'
    <2>1. \A m \in Nodes : m <= boot' => Renewing(m)
        <3>1. \A m \in Nodes : m <= boot' => m <= boot \/ (m = n /\ Renewing(n))
            BY <1>1 DEF Nodes
        <3> QED
            BY ZenonT(60), <3>1 DEF Base, StartInv
    <2>2. \A m \in Nodes : pc'[m] # "idle" \/ Renewing(m) => m <= boot' + 1
        <3>1. \A m \in Nodes : pc'[m] # "idle" \/ Renewing(m) => m <= boot + 1
            BY ZenonT(60), <1>1 DEF Base, StartInv
        <3>2. \A m \in Nodes : m <= boot + 1 => m <= boot' + 1
            BY <1>1 DEF Nodes
        <3> QED
            BY ZenonT(60), <3>1, <3>2
    <2>3. \A m \in Nodes : ~Renewing(m) /\ pc'[m] # "idle" => m = boot' + 1
        <3>1. \A m \in Nodes : ~Renewing(m) /\ pc'[m] # "idle" => m = boot + 1
            BY ZenonT(60), <1>1 DEF Base, StartInv
        <3>2. \A m \in Nodes : ~Renewing(m) /\ m = boot + 1 => m = boot' + 1
            BY ZenonT(60), <1>1
        <3> QED
            BY ZenonT(60), <3>1, <3>2
    <2>4. \A m \in Nodes : pc'[m] \in {"lego", "register", "save", "order", "obtain"} => Renewing(m)
        <3> SUFFICES ASSUME NEW m \in Nodes, pc'[m] \in {"lego", "register", "save", "order", "obtain"},
                            ~Renewing(m)
                     PROVE  FALSE
            OBVIOUS
        <3>1. m # n
            BY ZenonT(60), <1>1
        <3>2. pc[m] \in {"lego", "register", "save", "order", "obtain"} /\ pc[m] # "idle"
            BY ZenonT(60), <1>1, <3>1
        <3>3. m = boot + 1 /\ ~Found
            BY ZenonT(60), <3>2 DEF Base, StartInv
        <3>4. ~Renewing(n)
            BY ZenonT(60), <3>3 DEF Base, StartInv
        <3>5. n = boot + 1
            BY ZenonT(60), <1>1, <3>4 DEF Base, StartInv
        <3> QED
            BY ZenonT(60), <3>1, <3>3, <3>5
    <2>5. \A m \in Nodes : Renewing(m) \/ pc'[m] = "load" => Found'
        <3>1. \A m \in Nodes : Renewing(m) \/ pc[m] = "load" => Found
            BY ZenonT(60) DEF Base, StartInv
        <3> QED
            BY ZenonT(60), <1>1, <1>3, <3>1
    <2>6. \A m \in Nodes : pc'[m] = "load" => ~Renewing(m)
        BY ZenonT(60), <1>1 DEF Base, StartInv
    <2>7. certFile' # None
        BY ZenonT(60) DEF Writes
    <2>8. \A m \in Nodes : pc'[m] = "keyCut" => keyFile' # None
        <3>1. /\ pc'[n] = "keyCut" => keyFile' # None
              /\ keyFile # None => keyFile' # None
            BY ZenonT(60) DEF Writes
        <3>2. \A m \in Nodes : pc[m] = "keyCut" => keyFile # None
            BY ZenonT(60) DEF Base, StartInv
        <3> QED
            BY ZenonT(60), <1>1, <3>1, <3>2
    <2>9. mode' = "file" => Found'
        BY ZenonT(60), <1>1, <1>3 DEF Base, StartInv
    <2> QED
        BY ZenonT(60), <1>2, <1>4, <2>1, <2>2, <2>3, <2>4, <2>5, <2>6, <2>7, <2>8, <2>9
        DEF StartInv
<1> QED
    BY ZenonT(60), <1>5, <1>6

(* It lets nobody order who could not before. *)
LEMMA WritesOrders ==
    ASSUME Base, OrdersInv, NEW n \in Nodes, Writes(n),
           certFile' \notin due \/ (certFile' = certFile /\ Writing(n))
    PROVE  OrdersInv'
<1>1. /\ pc[n] \in {"cert", "certCut", "key", "keyCut"}
      /\ pc'[n] \in {"certCut", "key", "keyCut", "idle", "load"}
      /\ \A m \in Nodes \ {n} : pc'[m] = pc[m]
      /\ boot' = boot \/ Renewing(n)
      /\ due' = due /\ issued' = issued
    BY ZenonT(60) DEF Writes
<1>2. /\ Found => Found'
      /\ pc'[n] \in {"idle", "load"} => Found'
      /\ Renewing(n) => Found
    BY ZenonT(60) DEF Writes, Found, Base, StartInv
<1>3. ASSUME NEW m \in Nodes, MayOrder(m)' PROVE MayOrder(m)
    <2>1. CASE pc'[m] = "obtain"
        BY ZenonT(60), <1>1, <2>1 DEF MayOrder
    <2>2. CASE /\ m = boot' + 1 /\ ~Found'
               /\ pc'[m] \notin {"cert", "certCut", "key", "keyCut"}
        <3>1. m # n /\ boot' = boot /\ ~Found
            BY ZenonT(60), <1>1, <1>2, <2>2
        <3>2. pc[m] = pc'[m]
            BY ZenonT(60), <1>1, <3>1
        <3> QED
            BY ZenonT(60), <2>2, <3>1, <3>2 DEF MayOrder
    <2>3. CASE certFile' \in due' /\ pc'[m] # "cert"
        <3>1. certFile' = certFile /\ Writing(n) /\ certFile \in due
            BY ZenonT(60), <1>1, <2>3
        <3>2. Hope
            BY ZenonT(60), <3>1 DEF Hope
        <3>3. pc[m] # "cert"
            <4>1. pc[n] # "cert"
                BY ZenonT(60), <3>1 DEF Writing
            <4> QED
                BY ZenonT(60), <1>1, <2>3, <4>1
        <3> QED
            BY ZenonT(60), <3>1, <3>2, <3>3 DEF MayOrder
    <2> QED
        BY ZenonT(60), <1>3, <2>1, <2>2, <2>3 DEF MayOrder
<1>4. Causes' = Causes
    BY ZenonT(60) DEF Writes, Causes
<1> QED
    BY ZenonT(60), <1>1, <1>3, <1>4, OrdersKept DEF Base

(* A pair that n holds has a number, and it is neither None nor Torn. *)
LEMMA HeldPair ==
    ASSUME Base, NEW n \in Nodes, pc[n] \in {"cert", "certCut", "key", "keyCut"}
    PROVE  /\ held[n] \in Int /\ held[n] # None /\ held[n] # Torn
           /\ held[n] >= Torn /\ held[n] <= issued
<1>1. held[n] \in Int /\ held[n] > 0 /\ held[n] <= issued
    BY ZenonT(60) DEF Base, CertType, HeldInv
<1> QED
    BY <1>1 DEF None, Torn

(* Torn is no certificate that is due. *)
LEMMA TornNotDue == ASSUME CertType PROVE Torn \notin due
<1>1. \A d \in due : d \in Nat
    BY ZenonT(60) DEF CertType
<1> QED
    BY <1>1 DEF Torn

(* The certificate file of n is truncated. *)
LEMMA CertCut ==
    ASSUME CInv, NEW n \in Nodes, pc[n] = "cert", certFile' = Torn,
           pc' = [pc EXCEPT ![n] = "certCut"],
           hurt' = (hurt \/ \E m \in Nodes : Writing(m)), Touches("cert"),
           UNCHANGED <<mode, keyFile, account, boot, held, mem, served, issued, due,
                       ages, crashes, faults>>
    PROVE  CInv'
<1>1. /\ pc \in [Nodes -> Steps] /\ held \in [Nodes -> Int] /\ boot \in Nat /\ issued \in Nat
      /\ keyFile \in Int /\ hurt \in BOOLEAN /\ CertType
    BY ZenonT(60) DEF CInv, Base, CertType
<1>2. pc'[n] = "certCut" /\ \A m \in Nodes \ {n} : pc'[m] = pc[m]
    BY ZenonT(60), <1>1
<1>3. certFile' # None /\ certFile' \in Int /\ certFile' >= Torn /\ certFile' <= issued
    BY <1>1 DEF None, Torn
<1>4. Writes(n) /\ hurt' \in BOOLEAN
    <2>1. pc' \in [Nodes -> Steps]
        BY ZenonT(60), <1>1 DEF Steps
    <2> QED
        BY ZenonT(60), <1>1, <1>2, <1>3, <2>1 DEF Writes
<1>5. HeldInv'
    <2>1. \A m \in Nodes : pc'[m] \in {"cert", "certCut", "key", "keyCut"} =>
              /\ pc[m] \in {"cert", "certCut", "key", "keyCut"} /\ held[m] # Torn
              /\ pc'[m] \in {"cert", "certCut"} => pc[m] \in {"cert", "certCut"}
        <3>1. \A m \in Nodes : pc'[m] \in {"cert", "certCut", "key", "keyCut"} =>
                  /\ pc[m] \in {"cert", "certCut", "key", "keyCut"}
                  /\ pc'[m] \in {"cert", "certCut"} => pc[m] \in {"cert", "certCut"}
            BY ZenonT(60), <1>2
        <3> QED
            BY ZenonT(60), <3>1, HeldPair DEF CInv
    <2> QED
        BY ZenonT(60), <2>1 DEF CInv, Base, HeldInv
<1>6. FilesInv'
    <2> SUFFICES ASSUME ~hurt' PROVE FilesInv'
        BY ZenonT(60) DEF FilesInv
    <2>1. ~hurt /\ \A m \in Nodes : ~Writing(m)
        BY ZenonT(60)
    <2>2. \A m \in Nodes : (Writing(m)' => m = n) /\ pc'[m] \notin {"key", "keyCut"}
        BY ZenonT(60), <1>2, <2>1 DEF Writing
    <2>3. Writing(n)'
        BY ZenonT(60), <1>2 DEF Writing
    <2>4. account = Torn => \E m \in Nodes : pc'[m] = "save"
        <3>1. account = Torn => \E m \in Nodes : pc[m] = "save"
            BY ZenonT(60), <2>1 DEF CInv, Base, FilesInv
        <3> QED
            BY ZenonT(60), <1>2, <3>1
    <2> QED
        BY ZenonT(60), <2>2, <2>3, <2>4 DEF FilesInv
<1> QED
    BY ZenonT(60), <1>1, <1>4, <1>5, <1>6, TornNotDue, WritesStart, WritesOrders DEF CInv, Base

(* It is written. *)
LEMMA CertWritten ==
    ASSUME CInv, NEW n \in Nodes, pc[n] = "certCut", certFile' = held[n],
           pc' = [pc EXCEPT ![n] = "key"], Touches("cert"),
           UNCHANGED <<mode, keyFile, account, boot, held, mem, served, issued, due,
                       ages, crashes, faults, hurt>>
    PROVE  CInv'
<1>1. /\ pc \in [Nodes -> Steps] /\ held \in [Nodes -> Int] /\ boot \in Nat /\ issued \in Nat
      /\ keyFile \in Int /\ hurt \in BOOLEAN
    BY ZenonT(60) DEF CInv, Base, CertType
<1>2. pc'[n] = "key" /\ \A m \in Nodes \ {n} : pc'[m] = pc[m]
    BY ZenonT(60), <1>1
<1>3. certFile' # None /\ certFile' \in Int /\ certFile' >= Torn /\ certFile' <= issued
    BY ZenonT(60), HeldPair DEF CInv
<1>4. Writes(n) /\ hurt' \in BOOLEAN
    <2>1. pc' \in [Nodes -> Steps]
        BY ZenonT(60), <1>1 DEF Steps
    <2> QED
        BY ZenonT(60), <1>1, <1>2, <1>3, <2>1 DEF Writes
<1>5. held[n] \notin due /\ \A m \in Nodes \ {n} : pc[m] \in {"cert", "certCut"} => held[m] # held[n]
    BY ZenonT(60) DEF CInv, Base, HeldInv
<1>6. HeldInv'
    <2>1. \A m \in Nodes : pc'[m] \in {"cert", "certCut", "key", "keyCut"} =>
              pc[m] \in {"cert", "certCut", "key", "keyCut"}
        BY ZenonT(60), <1>2
    <2>2. \A m \in Nodes : pc'[m] \in {"cert", "certCut"} => m # n /\ pc[m] \in {"cert", "certCut"}
        BY ZenonT(60), <1>2
    <2>3. \A m \in Nodes : pc'[m] \in {"cert", "certCut"} => held[m] # certFile'
        BY ZenonT(60), <1>5, <2>2
    <2> QED
        BY ZenonT(60), <2>1, <2>2, <2>3 DEF CInv, Base, HeldInv
<1>7. FilesInv'
    <2> SUFFICES ASSUME ~hurt' PROVE FilesInv'
        BY ZenonT(60) DEF FilesInv
    <2>1. \A m \in Nodes : Writing(m) => m = n
        <3>1. Writing(n)
            BY ZenonT(60) DEF Writing
        <3> QED
            BY ZenonT(60), <3>1 DEF CInv, Base, FilesInv
    <2>2. \A m \in Nodes : Writing(m)' => m = n
        BY ZenonT(60), <1>2, <2>1 DEF Writing
    <2>3. \A m \in Nodes : pc'[m] \in {"key", "keyCut"} => certFile' = held'[m]
        BY ZenonT(60), <2>2 DEF Writing
    <2>4. Writing(n)'
        BY ZenonT(60), <1>2 DEF Writing
    <2>5. account = Torn => \E m \in Nodes : pc'[m] = "save"
        <3>1. account = Torn => \E m \in Nodes : pc[m] = "save"
            BY ZenonT(60) DEF CInv, Base, FilesInv
        <3> QED
            BY ZenonT(60), <1>2, <3>1
    <2> QED
        BY ZenonT(60), <2>2, <2>3, <2>4, <2>5 DEF FilesInv
<1> QED
    BY ZenonT(60), <1>4, <1>5, <1>6, <1>7, WritesStart, WritesOrders DEF CInv, Base

(* WriteFile of the certificate. *)
LEMMA WriteCertFileInv == ASSUME CInv, NEW n \in Nodes, WriteCertFile(n) PROVE CInv'
<1>1. pc[n] # "idle" /\ UNCHANGED <<mode, account, issued, due, ages, crashes>>
    BY ZenonT(60) DEF WriteCertFile
<1>2. CASE WriteFails(n)
    BY ZenonT(60), <1>1, <1>2, FailsInv DEF WriteFails
<1>3. CASE pc[n] = "cert" /\ ~WriteFails(n)
    BY ZenonT(60), <1>1, <1>3, CertCut DEF WriteCertFile, Goto, Stays, inbound
<1>4. CASE pc[n] = "certCut" /\ ~WriteFails(n)
    BY ZenonT(60), <1>1, <1>4, CertWritten DEF WriteCertFile, Goto, Stays, inbound
<1> QED
    BY ZenonT(60), <1>2, <1>3, <1>4 DEF WriteCertFile

(* The key file of n is truncated. *)
LEMMA KeyCut ==
    ASSUME CInv, NEW n \in Nodes, pc[n] = "key", keyFile' = Torn,
           pc' = [pc EXCEPT ![n] = "keyCut"], Touches("key"),
           UNCHANGED <<mode, certFile, account, boot, held, mem, served, issued, due,
                       ages, crashes, faults, hurt>>
    PROVE  CInv'
<1>1. /\ pc \in [Nodes -> Steps] /\ held \in [Nodes -> Int] /\ boot \in Nat /\ issued \in Nat
      /\ certFile \in Int /\ certFile >= Torn /\ certFile <= issued /\ hurt \in BOOLEAN
    BY ZenonT(60) DEF CInv, Base, CertType
<1>2. pc'[n] = "keyCut" /\ \A m \in Nodes \ {n} : pc'[m] = pc[m]
    BY ZenonT(60), <1>1
<1>3. keyFile' # None /\ keyFile' \in Int
    BY DEF None, Torn
<1>4. Writing(n) /\ certFile # None
    BY ZenonT(60) DEF Writing, CInv, Base, StartInv
<1>5. Writes(n) /\ hurt' \in BOOLEAN
    <2>1. pc' \in [Nodes -> Steps]
        BY ZenonT(60), <1>1 DEF Steps
    <2> QED
        BY ZenonT(60), <1>1, <1>2, <1>3, <1>4, <2>1 DEF Writes
<1>6. HeldInv'
    <2>1. \A m \in Nodes : pc'[m] \in {"cert", "certCut", "key", "keyCut"} =>
              pc[m] \in {"cert", "certCut", "key", "keyCut"}
        BY ZenonT(60), <1>2
    <2>2. \A m \in Nodes : pc'[m] \in {"cert", "certCut"} => pc[m] \in {"cert", "certCut"}
        BY ZenonT(60), <1>2
    <2> QED
        BY ZenonT(60), <2>1, <2>2 DEF CInv, Base, HeldInv
<1>7. FilesInv'
    <2>1. \A m \in Nodes : Writing(m)' <=> Writing(m)
        BY ZenonT(60), <1>2, <1>4 DEF Writing
    <2>2. \A m \in Nodes : pc'[m] \in {"key", "keyCut"} => pc[m] \in {"key", "keyCut"}
        BY ZenonT(60), <1>2
    <2>3. \A m \in Nodes : pc[m] = "save" => pc'[m] = "save"
        BY ZenonT(60), <1>2
    <2> QED
        BY ZenonT(60), <1>4, <2>1, <2>2, <2>3 DEF CInv, Base, FilesInv
<1> QED
    BY ZenonT(60), <1>4, <1>5, <1>6, <1>7, WritesStart, WritesOrders DEF CInv, Base

(* It is written, and the pair is complete. *)
LEMMA KeyWritten ==
    ASSUME CInv, NEW n \in Nodes, pc[n] = "keyCut", keyFile' = held[n], Written(n),
           Touches("key"),
           UNCHANGED <<mode, certFile, account, mem, served, issued, due,
                       ages, crashes, faults, hurt>>
    PROVE  CInv'
<1>1. /\ pc \in [Nodes -> Steps] /\ held \in [Nodes -> Int] /\ boot \in Nat /\ issued \in Nat
      /\ certFile \in Int /\ certFile >= Torn /\ certFile <= issued /\ hurt \in BOOLEAN
    BY ZenonT(60) DEF CInv, Base, CertType
<1>2. /\ pc' = [pc EXCEPT ![n] = IF Renewing(n) THEN "idle" ELSE "load"]
      /\ held' = [held EXCEPT ![n] = None]
      /\ boot' = IF Renewing(n) /\ n > boot THEN n ELSE boot
    BY ZenonT(60) DEF Written, Returns, Goto
<1>3. /\ pc'[n] = IF Renewing(n) THEN "idle" ELSE "load"
      /\ \A m \in Nodes \ {n} : pc'[m] = pc[m] /\ held'[m] = held[m]
      /\ pc' \in [Nodes -> Steps]
    BY ZenonT(60), <1>1, <1>2 DEF Steps
<1>4. held' \in [Nodes -> Int]
    BY <1>1, <1>2 DEF None
<1>5. boot' \in Nat /\ (boot' = boot \/ (Renewing(n) /\ boot' = n /\ n = boot + 1))
    <2>1. n <= boot + 1
        BY ZenonT(60) DEF CInv, Base, StartInv
    <2> QED
        BY <1>1, <1>2, <2>1 DEF Nodes
<1>6. keyFile' # None /\ keyFile' \in Int /\ held[n] # Torn
    BY ZenonT(60), HeldPair DEF CInv
<1>7. Writing(n) /\ certFile # None
    BY ZenonT(60) DEF Writing, CInv, Base, StartInv
<1>8. Writes(n) /\ hurt' \in BOOLEAN
    <2>1. /\ pc'[n] \in {"idle", "load"}
          /\ pc'[n] = "idle" => Renewing(n)
          /\ pc'[n] = "load" => ~Renewing(n)
        BY ZenonT(60), <1>3
    <2> QED
        BY ZenonT(60), <1>1, <1>3, <1>4, <1>5, <1>6, <1>7, <2>1 DEF Writes
<1>9. pc'[n] \in {"idle", "load"}
    BY ZenonT(60), <1>3
<1>10. HeldInv'
    BY ZenonT(60), <1>3, <1>9, HeldKept DEF CInv, Base
<1>11. FilesInv'
    <2> SUFFICES ASSUME ~hurt' PROVE FilesInv'
        BY ZenonT(60) DEF FilesInv
    <2>1. certFile = held[n] /\ \A m \in Nodes : Writing(m) => m = n
        BY ZenonT(60), <1>7 DEF CInv, Base, FilesInv
    <2>2. \A m \in Nodes : ~Writing(m)'
        BY ZenonT(60), <1>3, <1>9, <2>1 DEF Writing
    <2>3. \A m \in Nodes : pc'[m] \notin {"key", "keyCut"}
        BY ZenonT(60), <2>2 DEF Writing
    <2>4. account = Torn => \E m \in Nodes : pc'[m] = "save"
        <3>1. account = Torn => \E m \in Nodes : pc[m] = "save"
            BY ZenonT(60) DEF CInv, Base, FilesInv
        <3> QED
            BY ZenonT(60), <1>3, <3>1
    <2> QED
        BY ZenonT(60), <1>6, <2>1, <2>2, <2>3, <2>4 DEF FilesInv
<1> QED
    BY ZenonT(60), <1>7, <1>8, <1>10, <1>11, WritesStart, WritesOrders DEF CInv, Base

(* WriteFile of the key. *)
LEMMA WriteKeyFileInv == ASSUME CInv, NEW n \in Nodes, WriteKeyFile(n) PROVE CInv'
<1>1. pc[n] # "idle" /\ UNCHANGED <<mode, account, issued, due, ages, crashes>>
    BY ZenonT(60) DEF WriteKeyFile
<1>2. CASE WriteFails(n)
    BY ZenonT(60), <1>1, <1>2, FailsInv DEF WriteFails
<1>3. CASE pc[n] = "key" /\ ~WriteFails(n)
    BY ZenonT(60), <1>1, <1>3, KeyCut DEF WriteKeyFile, Goto, Stays, inbound
<1>4. CASE pc[n] = "keyCut" /\ ~WriteFails(n)
    BY ZenonT(60), <1>1, <1>4, KeyWritten DEF WriteKeyFile, inbound
<1> QED
    BY ZenonT(60), <1>2, <1>3, <1>4 DEF WriteKeyFile

-----------------------------------------------------------------------------
(* AddNode of a node whose pair fits: the first to look at the certificate  *)
(* has as much reason to order as before.                                   *)
LEMMA PairAdded ==
    ASSUME CInv, NEW n \in Nodes, pc[n] = "load", certFile > 0, certFile = keyFile,
           mem' = [mem EXCEPT ![n] = [cert |-> certFile, key |-> keyFile]],
           served' = [served EXCEPT ![n] = certFile],
           \/ pc' = [pc EXCEPT ![n] = "lego"] /\ boot' = boot
           \/ Returns(n),
           UNCHANGED <<mode, certFile, keyFile, account, held, dirty, issued, due,
                       ages, crashes, faults, hurt>>
    PROVE  CInv'
<1>1. /\ pc \in [Nodes -> Steps] /\ boot \in Nat /\ served \in [Nodes -> Int]
      /\ mem \in [Nodes -> [cert : Int, key : Int]] /\ certFile \in Int
    BY ZenonT(60) DEF CInv, Base, CertType
<1>2. ~Renewing(n) /\ n = boot + 1 /\ Found
    BY ZenonT(60) DEF CInv, Base, StartInv
<1>3. certFile # None
    BY ZenonT(60), <1>2 DEF Found
<1>4. /\ pc'[n] \in {"lego", "idle"} /\ \A m \in Nodes \ {n} : pc'[m] = pc[m]
      /\ pc' \in [Nodes -> Steps]
    BY ZenonT(60), <1>1 DEF Returns, Goto, Steps
<1>5. /\ Renewing(n)' /\ \A m \in Nodes \ {n} : Renewing(m)' <=> Renewing(m)
      /\ \A m \in Nodes : Renewing(m) => Renewing(m)'
      /\ served' \in [Nodes -> Int]
    BY ZenonT(60), <1>1, <1>3 DEF Renewing
<1>6. boot' \in Nat /\ (boot' = boot \/ boot' = boot + 1)
    BY <1>1, <1>2 DEF Returns
<1>7. CertType'
    <2>1. mem' \in [Nodes -> [cert : Int, key : Int]]
        BY <1>1
    <2> QED
        BY ZenonT(60), <1>4, <1>5, <1>6, <2>1 DEF CInv, Base, CertType
<1>8. \A m \in Nodes : Writing(m)' <=> Writing(m)
    BY ZenonT(60), <1>4 DEF Writing
<1>9. StartInv'
    <2>1. Found'
        BY ZenonT(60), <1>2 DEF Found
    <2>2. \A m \in Nodes : m <= boot' => Renewing(m)'
        <3>1. \A m \in Nodes : m <= boot' => m <= boot \/ m = n
            BY <1>1, <1>2, <1>6 DEF Nodes
        <3>2. \A m \in Nodes : m <= boot => Renewing(m)
            BY ZenonT(60) DEF CInv, Base, StartInv
        <3> QED
            BY ZenonT(60), <1>5, <3>1, <3>2
    <2>3. \A m \in Nodes : pc'[m] # "idle" \/ Renewing(m)' => m <= boot' + 1
        <3>1. \A m \in Nodes \ {n} : pc[m] # "idle" \/ Renewing(m) => m <= boot + 1
            BY ZenonT(60) DEF CInv, Base, StartInv
        <3>2. \A m \in Nodes : m <= boot + 1 \/ m = n => m <= boot' + 1
            <4>1. Nodes \subseteq Nat
                BY DEF Nodes
            <4>2. n = boot + 1 /\ n \in Nat
                BY ZenonT(60), <1>2, <4>1
            <4>3. ASSUME NEW b \in Nat, NEW c \in Nat, c = b \/ c = b + 1
                  PROVE  b + 1 <= c + 1 /\ \A m \in Nat : m <= b + 1 => m <= c + 1
                BY <4>3
            <4> QED
                BY ZenonT(60), <1>1, <1>6, <4>1, <4>2, <4>3
        <3> QED
            BY ZenonT(60), <1>4, <1>5, <3>1, <3>2
    <2>4. \A m \in Nodes : ~Renewing(m)' => pc'[m] = "idle"
        <3> SUFFICES ASSUME NEW m \in Nodes, ~Renewing(m)', pc'[m] # "idle" PROVE FALSE
            OBVIOUS
        <3>1. m # n /\ ~Renewing(m)
            BY ZenonT(60), <1>5
        <3>2. pc[m] # "idle"
            BY ZenonT(60), <1>4, <3>1
        <3>3. m = boot + 1
            BY ZenonT(60), <3>1, <3>2 DEF CInv, Base, StartInv
        <3> QED
            BY ZenonT(60), <1>2, <3>1, <3>3
    <2>5. \A m \in Nodes : pc'[m] = "load" => ~Renewing(m)'
        <3>1. \A m \in Nodes : pc[m] = "load" => ~Renewing(m)
            BY ZenonT(60) DEF CInv, Base, StartInv
        <3> QED
            BY ZenonT(60), <1>4, <1>5, <3>1
    <2>6. \A m \in Nodes : dirty'[m] # {} => Renewing(m)'
        BY ZenonT(60), <1>5 DEF CInv, Base, StartInv
    <2>7. \A m \in Nodes : pc'[m] = "keyCut" => keyFile' # None
        BY ZenonT(60), <1>3
    <2> QED
        BY ZenonT(60), <1>3, <2>1, <2>2, <2>3, <2>4, <2>5, <2>6, <2>7 DEF StartInv
<1>10. HeldInv'
    BY ZenonT(60), <1>4, HeldKept DEF CInv, Base
<1>11. FilesInv'
    <2>1. \A m \in Nodes : pc'[m] \in {"key", "keyCut"} => pc[m] \in {"key", "keyCut"}
        BY ZenonT(60), <1>4
    <2>2. \A m \in Nodes : pc[m] = "save" => pc'[m] = "save"
        BY ZenonT(60), <1>4
    <2> QED
        BY ZenonT(60), <1>8, <2>1, <2>2 DEF CInv, Base, FilesInv
<1>12. OrdersInv'
    <2>1. Hope /\ Found'
        BY ZenonT(60), <1>2 DEF Hope, Found
    <2>2. \A m \in Nodes : /\ pc'[m] = "obtain" => pc[m] = "obtain"
                           /\ pc'[m] # "cert" => pc[m] # "cert"
        BY ZenonT(60), <1>4
    <2>3. \A m \in Nodes : MayOrder(m)' => MayOrder(m)
        BY ZenonT(60), <2>1, <2>2 DEF MayOrder
    <2>4. Causes' = Causes /\ issued' = issued
        BY ZenonT(60) DEF Causes
    <2> QED
        BY ZenonT(60), <2>3, <2>4, OrdersKept DEF CInv, Base
<1> QED
    BY ZenonT(60), <1>7, <1>9, <1>10, <1>11, <1>12 DEF CInv, Base

(* AddNode.  A pair that does not fit ends the process; the next process    *)
(* does not come as far as the check of the certificate either.             *)
LEMMA AddNodeInv == ASSUME CInv, NEW n \in Nodes, AddNode(n) PROVE CInv'
<1>1. pc[n] = "load" /\ UNCHANGED <<mode, certFile, keyFile, account, issued, due, ages, crashes, faults>>
    BY ZenonT(60) DEF AddNode, disk
<1>2. CASE certFile > 0 /\ certFile = keyFile
    <2>1. Pair([cert |-> certFile, key |-> keyFile])
        BY <1>2 DEF Pair
    <2>2. /\ mem' = [mem EXCEPT ![n] = [cert |-> certFile, key |-> keyFile]]
          /\ served' = [served EXCEPT ![n] = certFile]
          /\ \/ pc' = [pc EXCEPT ![n] = "lego"] /\ boot' = boot
             \/ Returns(n)
          /\ UNCHANGED <<held, dirty, hurt>>
        BY ZenonT(60), <2>1 DEF AddNode, Goto
    <2> QED
        BY ZenonT(60), <1>1, <1>2, <2>2, PairAdded
<1>3. CASE ~(certFile > 0 /\ certFile = keyFile)
    <2>1. ~Pair([cert |-> certFile, key |-> keyFile])
        BY <1>3 DEF Pair
    <2>2. Dies
        BY ZenonT(60), <2>1 DEF AddNode
    <2>3. Counters' /\ Causes' = Causes
        BY ZenonT(60), <1>1 DEF CInv, Base, CertType, Counters, Causes
    <2>4. \A m \in Nodes : pc'[m] = "idle" /\ served'[m] = None
        BY ZenonT(60), <2>2 DEF Dies
    <2>5. Found'
        BY ZenonT(60), <1>1 DEF Found, CInv, Base, StartInv
    <2>6. ~(certFile' \in due' /\ Hope')
        <3>1. certFile \in due => certFile # keyFile
            BY ZenonT(60), <1>3 DEF CInv, Base, CertType
        <3> QED
            BY ZenonT(60), <1>1, <2>4, <3>1 DEF Hope, Renewing, Writing
    <2>7. \A m \in Nodes : ~MayOrder(m)'
        BY ZenonT(60), <2>4, <2>5, <2>6 DEF MayOrder
    <2> QED
        BY ZenonT(60), <1>1, <2>2, <2>3, <2>7, DiesKeeps, OrdersKept DEF CInv, Base
<1> QED
    BY ZenonT(60), <1>2, <1>3

(* certificateUpdated leaves an inbound serving. *)
LEMMA CertificateUpdatedInv ==
    ASSUME CInv, NEW n \in Nodes, NEW name \in {"cert", "key"}, CertificateUpdated(n, name)
    PROVE  CInv'
<1> DEFINE m == IF name = "cert" THEN [mem[n] EXCEPT !.cert = certFile]
                                 ELSE [mem[n] EXCEPT !.key = keyFile]
<1>1. /\ name \in dirty[n]
      /\ dirty' = [dirty EXCEPT ![n] = @ \ {name}]
      /\ mem' = [mem EXCEPT ![n] = m]
      /\ served' = [served EXCEPT ![n] = IF Pair(m) THEN m.cert ELSE @]
      /\ UNCHANGED <<mode, certFile, keyFile, account, boot, pc, held, issued, due,
                     ages, crashes, faults, hurt>>
    BY ZenonT(60) DEF CertificateUpdated, disk, history
<1>2. /\ mem \in [Nodes -> [cert : Int, key : Int]] /\ served \in [Nodes -> Int]
      /\ dirty \in [Nodes -> SUBSET {"cert", "key"}] /\ certFile \in Int /\ keyFile \in Int
    BY ZenonT(60) DEF CInv, Base, CertType
<1>3. m \in [cert : Int, key : Int]
    BY <1>2
<1>4. served[n] # None
    BY ZenonT(60), <1>1 DEF CInv, Base, StartInv, Renewing
<1> HIDE DEF m
<1>5. /\ mem' \in [Nodes -> [cert : Int, key : Int]] /\ served' \in [Nodes -> Int]
      /\ dirty' \in [Nodes -> SUBSET {"cert", "key"}]
      /\ \A k \in Nodes : dirty'[k] # {} => dirty[k] # {}
    BY <1>1, <1>2, <1>3
<1>6. \A k \in Nodes : Renewing(k)' <=> Renewing(k)
    BY <1>1, <1>2, <1>3, <1>4 DEF Renewing, Pair, None
<1>7. /\ \A k \in Nodes : Writing(k)' <=> Writing(k)
      /\ Found' <=> Found
      /\ UNCHANGED <<mode, certFile, keyFile, account, boot, pc, held, issued, due,
                     ages, crashes, faults, hurt>>
    BY ZenonT(60), <1>1 DEF Writing, Found
<1>8. CertType'
    BY ZenonT(60), <1>5, <1>7 DEF CInv, Base, CertType
<1>9. StartInv'
    BY ZenonT(60), <1>5, <1>6, <1>7 DEF CInv, Base, StartInv
<1>10. HeldInv' /\ FilesInv'
    BY ZenonT(60), <1>7 DEF CInv, Base, HeldInv, FilesInv
<1>11. OrdersInv'
    <2>1. Hope' <=> Hope
        BY ZenonT(60), <1>6, <1>7 DEF Hope
    <2>2. \A k \in Nodes : MayOrder(k)' => MayOrder(k)
        BY ZenonT(60), <1>7, <2>1 DEF MayOrder
    <2>3. Causes' = Causes
        BY ZenonT(60), <1>7 DEF Causes
    <2> QED
        BY ZenonT(60), <1>7, <2>2, <2>3, OrdersKept DEF CInv, Base
<1> QED
    BY ZenonT(60), <1>8, <1>9, <1>10, <1>11 DEF CInv, Base

(* A step that changes nothing of it. *)
LEMMA StaysInv ==
    ASSUME CInv, UNCHANGED <<mode, certFile, keyFile, account, boot, pc, held, mem, served,
                             dirty, issued, due, ages, crashes, faults, hurt>>
    PROVE  CInv'
<1>1. CertType' /\ StartInv'
    BY ZenonT(60) DEF CInv, Base, CertType, StartInv, Renewing, Writing, Found
<1>2. HeldInv' /\ FilesInv'
    BY ZenonT(60) DEF CInv, Base, HeldInv, FilesInv, Writing
<1>3. \A m \in Nodes : MayOrder(m)' => MayOrder(m)
    BY ZenonT(60) DEF MayOrder, Hope, Found, Renewing, Writing
<1>4. Causes' = Causes
    BY ZenonT(60) DEF Causes
<1> QED
    BY ZenonT(60), <1>1, <1>2, <1>3, <1>4, OrdersKept DEF CInv, Base

(* A crash. *)
LEMMA CrashInv == ASSUME CInv, Crash PROVE CInv'
<1>1. /\ Dies /\ crashes' = crashes + 1
      /\ UNCHANGED <<mode, certFile, keyFile, account, issued, due, ages, faults>>
    BY ZenonT(60) DEF Crash, disk
<1>2. ages \in Nat /\ crashes \in Nat /\ faults \in Nat
    BY ZenonT(60) DEF CInv, Base, CertType
<1>3. Counters' /\ Causes' = Causes + 1
    BY <1>1, <1>2 DEF Counters, Causes
<1> QED
    BY ZenonT(60), <1>1, <1>3, DiesKeeps, OrdersCounted DEF CInv, Base

(* The certificate on disk comes due; a pair not yet written is another. *)
LEMMA AgeInv == ASSUME CInv, Age PROVE CInv'
<1>1. /\ certFile > 0 /\ due' = due \cup {certFile} /\ ages' = ages + 1
      /\ UNCHANGED <<mode, certFile, keyFile, account, boot, pc, held, mem, served, dirty,
                     issued, crashes, faults, hurt>>
    BY ZenonT(60) DEF Age, disk, inbound
<1>2. /\ ages \in Nat /\ crashes \in Nat /\ faults \in Nat
      /\ certFile \in Int /\ certFile <= issued
      /\ \A d \in due : d \in Nat /\ d > 0 /\ d <= issued
    BY ZenonT(60) DEF CInv, Base, CertType
<1>3. Counters' /\ Causes' = Causes + 1
    BY <1>1, <1>2 DEF Counters, Causes
<1>4. \A d \in due' : d \in Nat /\ d > 0 /\ d <= issued
    BY <1>1, <1>2
<1>5. CertType'
    BY ZenonT(60), <1>1, <1>3, <1>4 DEF CInv, Base, CertType, Counters
<1>6. StartInv' /\ FilesInv'
    BY ZenonT(60), <1>1 DEF CInv, Base, StartInv, FilesInv, Renewing, Writing, Found
<1>7. HeldInv'
    BY ZenonT(60), <1>1 DEF CInv, Base, HeldInv
<1>8. OrdersInv'
    BY ZenonT(60), <1>1, <1>3, OrdersCounted DEF CInv, Base
<1> QED
    BY ZenonT(60), <1>5, <1>6, <1>7, <1>8 DEF CInv, Base

(* Before the first start only node 1 may order, and only if no pair was    *)
(* put there.                                                               *)
LEMMA InitCInv == Init => CInv
<1> SUFFICES ASSUME Init PROVE CInv
    OBVIOUS
<1>1. /\ mode \in {"file", "self", "http"} /\ issued \in (IF mode = "file" THEN {1} ELSE {0, 1})
      /\ certFile = issued /\ keyFile = issued /\ account = None /\ boot = 0
      /\ pc = [n \in Nodes |-> "idle"] /\ held = [n \in Nodes |-> None]
      /\ mem = [n \in Nodes |-> Unread] /\ served = [n \in Nodes |-> None]
      /\ dirty = [n \in Nodes |-> {}] /\ due = {} /\ ages = 0 /\ crashes = 0 /\ faults = 0
      /\ hurt = FALSE
    BY ZenonT(60) DEF Init
<1>2. CertType
    <2>1. /\ issued \in Nat /\ certFile \in Int /\ certFile >= Torn /\ certFile <= issued
          /\ keyFile \in Int /\ boot \in Nat
          /\ ages \in Nat /\ crashes \in Nat /\ faults \in Nat
        BY <1>1 DEF Torn
    <2>2. Unread \in [cert : Int, key : Int] /\ None \in Int
        BY DEF Unread, None
    <2>3. /\ pc \in [Nodes -> Steps] /\ held \in [Nodes -> Int] /\ served \in [Nodes -> Int]
          /\ mem \in [Nodes -> [cert : Int, key : Int]]
          /\ dirty \in [Nodes -> SUBSET {"cert", "key"}]
        BY ZenonT(60), <1>1, <2>2 DEF Steps
    <2> QED
        BY ZenonT(60), <1>1, <2>1, <2>3 DEF CertType
<1>3. \A n \in Nodes : pc[n] = "idle" /\ served[n] = None /\ dirty[n] = {}
    BY ZenonT(60), <1>1
<1>4. (mode = "file" => Found) /\ certFile # Torn /\ None # Torn /\ \A n \in Nodes : ~(n <= boot)
    BY <1>1 DEF Found, None, Torn, Nodes
<1>5. StartInv
    BY ZenonT(60), <1>3, <1>4 DEF StartInv, Renewing, Writing
<1>6. HeldInv /\ FilesInv
    BY ZenonT(60), <1>1, <1>3, <1>4 DEF HeldInv, FilesInv, Writing
<1>7. OrdersInv
    <2>1. Orderers \in SUBSET {1} /\ 1 \in Nodes
        BY <1>1, <1>3 DEF Orderers, MayOrder, Nodes
    <2>2. Cardinality({1}) = 1 /\ Cardinality({}) = 0
        BY FS_Singleton, FS_EmptySet
    <2>3. Cardinality(Orderers) <= 1 /\ Cardinality(Orderers) \in Nat
        BY <2>1, <2>2, FewerNodes
    <2>4. CASE issued = 1
        <3>1. Orderers = {}
            <4>1. Found /\ \A n \in Nodes : pc[n] # "obtain"
                <5>1. Found
                    BY <1>1, <2>4 DEF Found, None
                <5> QED
                    BY ZenonT(60), <1>3, <5>1
            <4> QED
                BY ZenonT(60), <1>1, <4>1 DEF Orderers, MayOrder
        <3> QED
            BY <1>1, <2>2, <2>4, <3>1 DEF OrdersInv
    <2>5. CASE issued = 0
        BY <1>1, <2>3, <2>5 DEF OrdersInv
    <2> QED
        BY ZenonT(60), <1>1, <2>4, <2>5
<1> QED
    BY ZenonT(60), <1>2, <1>5, <1>6, <1>7 DEF CInv, Base

LEMMA NextCInv == CInv /\ [Next]_vars => CInv'
<1> SUFFICES ASSUME CInv, [Next]_vars PROVE CInv'
    OBVIOUS
<1>1. CASE UNCHANGED vars
    BY ZenonT(60), <1>1, StaysInv DEF vars, disk, inbound, history
<1>2. ASSUME NEW n \in Nodes, NodeStep(n) PROVE CInv'
    BY ZenonT(60), <1>2, StartsInv, NewLegoInv, RegisterUserInv, SaveUserInv, OrderInv, ObtainInv,
       WriteCertFileInv, WriteKeyFileInv, AddNodeInv DEF NodeStep
<1>3. ASSUME NEW n \in Nodes, NEW name \in {"cert", "key"}, CertificateUpdated(n, name)
      PROVE  CInv'
    BY ZenonT(60), <1>3, CertificateUpdatedInv
<1>4. CASE Launch
    BY ZenonT(60), <1>4, StaysInv DEF Launch, disk, inbound, history
<1> QED
    BY ZenonT(60), <1>1, <1>2, <1>3, <1>4, CrashInv, AgeInv DEF Next

LEMMA CertHolds == Spec => []CInv
BY InitCInv, NextCInv, PTL DEF Spec

(* With any number of nodes on one pair of files, a certificate without its *)
(* key, a torn file or an unreadable account is only ever left behind by a  *)
(* write of writeCert or User.Save that failed, was cut by the end of the   *)
(* process, or overlapped with the write of another node.                   *)
THEOREM DamageIsCaused == Spec => []DamageHasCause
<1>1. CInv => DamageHasCause
    BY ZenonT(60) DEF CInv, Base, FilesInv, DamageHasCause, Quiet, Damaged
<1> QED
    BY <1>1, CertHolds, PTL

(* The certificate authority gets one order for the first start and at most *)
(* one per node for every certificate that comes due, every failure and     *)
(* every crash: CheckCert and the files found by requestCert keep the nodes *)
(* from ordering over and over.                                             *)
THEOREM OrdersAreBounded == Spec => []OrdersBounded
<1>1. CInv => OrdersBounded
    <2> SUFFICES ASSUME CInv PROVE OrdersBounded
        OBVIOUS
    <2>1. Orderers \in SUBSET Nodes /\ Orderers \in SUBSET Orderers
        BY ZenonT(60) DEF Orderers
    <2>2. Cardinality(Orderers) \in Nat
        BY <2>1, FewerNodes
    <2>3. issued \in Nat /\ ages + faults + crashes \in Nat /\ N * (ages + faults + crashes) \in Int
        BY DEF CInv, Base, CertType
    <2>4. issued + Cardinality(Orderers) <= 1 + N * (ages + faults + crashes)
        BY ZenonT(60) DEF CInv, OrdersInv
    <2> DEFINE K == N * (ages + faults + crashes)
    <2>5. issued + Cardinality(Orderers) <= 1 + K /\ K \in Int
        BY ZenonT(60), <2>3, <2>4
    <2> HIDE DEF K
    <2>6. issued <= 1 + K
        BY <2>2, <2>3, <2>5
    <2> QED
        BY ZenonT(60), <2>6 DEF K, OrdersBounded
<1> QED
    BY <1>1, CertHolds, PTL

=============================================================================
