-------------------------------- MODULE Cert --------------------------------
(***************************************************************************)
(* The TLS certificate of nodes that are configured with the same          *)
(* certificate and key file (node/cert.go, node/lego.go): requested while  *)
(* a node starts, renewed by a task of every node, written in two files,   *)
(* and reloaded by the running inbounds (std_server.go of the sing-box     *)
(* fork).  The process may crash at every step and is restarted; what is   *)
(* on disk stays.                                                          *)
(*                                                                         *)
(* A certificate and its key are one number, in the order of issue.        *)
(* WriteFile truncates and then writes, so a file is Torn in between.  The *)
(* self mode opens without truncation: a file is Torn from its first write *)
(* to its last, and what a longer old file leaves behind the new PEM block *)
(* is not read.                                                            *)
(* Nodes 1..N are started in this order.                                   *)
(***************************************************************************)
EXTENDS Integers, FiniteSets

CONSTANTS
    N,              \* how many nodes share the files
    Modes,          \* values of CertMode; http and dns behave alike
    MaxAges,        \* bound: certificates that come within 30 days of expiry
    MaxTroubles     \* bound: crashes, and requests and file writes that fail

ASSUME NodesAssumption == N \in Nat \ {0}
ASSUME ModesAssumption == Modes \subseteq {"file", "self", "http"}

Nodes == 1..N
None == 0
Torn == -1

VARIABLES
    mode,       \* CertConfig.CertMode
    certFile, keyFile,  \* on disk: None, Torn or the number of a pair
    account,    \* user-<email>.json: None, Torn or 1
    running,    \* the process is up
    boot,       \* how many nodes Node.Start has started
    pc,         \* where the node's Start or renewal task is
    held,       \* the pair it has been issued and not yet written
    mem,        \* certificate and key bytes the inbound has read
    served,     \* the pair the inbound uses; None before AddNode
    dirty,      \* file events the inbound's watcher has not handled
    issued,     \* pairs issued so far
    due,        \* those that expire in 30 days or less
    ages, crashes, faults,
    hurt        \* history: a write was cut short or two overlapped

disk == <<certFile, keyFile, account>>
inbound == <<mem, served>>
history == <<ages, crashes, faults, hurt>>
vars == <<mode, disk, running, boot, pc, held, inbound, dirty, issued, due,
          history>>

Unread == [cert |-> None, key |-> None]

\* CertMode file: the administrator has put a pair there; in the other modes
\* there may be one, without an account.
Init ==
    /\ mode \in Modes
    /\ issued \in IF mode = "file" THEN {1} ELSE {0, 1}
    /\ certFile = issued
    /\ keyFile = issued
    /\ account = None
    /\ running = FALSE
    /\ boot = 0
    /\ pc = [n \in Nodes |-> "idle"]
    /\ held = [n \in Nodes |-> None]
    /\ mem = [n \in Nodes |-> Unread]
    /\ served = [n \in Nodes |-> None]
    /\ dirty = [n \in Nodes |-> {}]
    /\ due = {}
    /\ ages = 0 /\ crashes = 0 /\ faults = 0
    /\ hurt = FALSE

-----------------------------------------------------------------------------
Goto(n, where) == pc' = [pc EXCEPT ![n] = where]
Trouble == crashes + faults < MaxTroubles
Fails == Trouble /\ faults' = faults + 1

\* Between the truncation of the certificate file and the end of the key.
Writing(n) == pc[n] \in {"certCut", "key", "keyCut"}
Renewing(n) == served[n] # None

\* The process is gone, and with it all memory and every unfinished write.
Dies ==
    /\ running' = FALSE
    /\ boot' = 0
    /\ pc' = [n \in Nodes |-> "idle"]
    /\ held' = [n \in Nodes |-> None]
    /\ mem' = [n \in Nodes |-> Unread]
    /\ served' = [n \in Nodes |-> None]
    /\ dirty' = [n \in Nodes |-> {}]
    /\ hurt' = (hurt \/ \E n \in Nodes : Writing(n) \/ pc[n] = "save")

\* Start(true) of the renewal task calls it in the node's Start, which then
\* returns; a later run returns to the timer.
Returns(n) ==
    /\ Goto(n, "idle")
    /\ boot' = IF n > boot THEN n ELSE boot

\* An error of the renewal is logged; one of Start ends serverHandle.
Aborts(n) ==
    \/ /\ Renewing(n)
       /\ Returns(n)
       /\ held' = [held EXCEPT ![n] = None]
       /\ hurt' = (hurt \/ Writing(n) \/ pc[n] = "save")
       /\ UNCHANGED <<running, inbound, dirty>>
    \/ /\ ~Renewing(n)
       /\ Dies

-----------------------------------------------------------------------------
\* Controller.Start of the next node calls requestCert.
RequestCert(n) ==
    /\ running /\ n = boot + 1 /\ pc[n] = "idle" /\ ~Renewing(n)
    /\ LET found == certFile # None /\ keyFile # None
       IN  \/ /\ mode = "file" \/ found
              /\ Goto(n, "load")
           \/ /\ mode # "file" /\ ~found
              /\ Goto(n, IF mode = "self" THEN "obtain" ELSE "lego")
    /\ UNCHANGED <<mode, disk, running, boot, held, inbound, dirty, issued,
                   due, history>>

\* The 24 hour timer fires.
RenewCertTask(n) ==
    /\ running /\ n <= boot /\ pc[n] = "idle" /\ mode = "http"
    /\ Goto(n, "lego")
    /\ UNCHANGED <<mode, disk, running, boot, held, inbound, dirty, issued,
                   due, history>>

\* User.Load: the account file decodes.
Loads == account = 1

\* NewLego: load the account if there is a file, or register one.
NewLego(n) ==
    /\ pc[n] = "lego"
    /\ \/ /\ Loads
          /\ Goto(n, "order")
          /\ UNCHANGED <<running, boot, held, inbound, dirty, faults, hurt>>
       \/ /\ account = None
          /\ Goto(n, "register")
          /\ UNCHANGED <<running, boot, held, inbound, dirty, faults, hurt>>
       \/ /\ account # None /\ ~Loads
          /\ Aborts(n)
          /\ UNCHANGED faults
       \/ /\ Fails
          /\ Aborts(n)
    /\ UNCHANGED <<mode, disk, issued, due, ages, crashes>>

\* registerUser: Register of the ACME client, and User.Save opens the file,
\* truncated, whatever another node has put there meanwhile.
RegisterUser(n) ==
    /\ pc[n] = "register"
    /\ \/ /\ account' = Torn
          /\ Goto(n, "save")
          /\ UNCHANGED <<running, boot, held, inbound, dirty, faults, hurt>>
       \/ /\ Fails
          /\ Aborts(n)
          /\ UNCHANGED account
    /\ UNCHANGED <<mode, certFile, keyFile, issued, due, ages, crashes>>

\* User.Save encodes the account into the file.  Over one that another node has
\* saved since, a shorter account leaves a tail that does not decode.
SaveUser(n) ==
    /\ pc[n] = "save"
    /\ \/ /\ account' \in IF account = 1 THEN {1, Torn} ELSE {1}
          /\ hurt' = (hurt \/ account' = Torn)
          /\ Goto(n, "order")
          /\ UNCHANGED <<running, boot, held, inbound, dirty, faults>>
       \/ /\ Fails
          /\ Aborts(n)
          /\ UNCHANGED account
    /\ UNCHANGED <<mode, certFile, keyFile, issued, due, ages, crashes>>

\* Mutant: CheckCert always finds that the certificate has to be renewed.
CheckCertAlways == certFile > 0

\* CheckCert: the file parses and its days left are not more than 30.
CheckCert == certFile \in due

\* CreateCert orders at once; RenewCert reads the file and checks it first.
\* It returns without an error when the file does not parse.
Order(n) ==
    /\ pc[n] = "order"
    /\ \/ /\ ~Renewing(n) \/ CheckCert
          /\ Goto(n, "obtain")
          /\ UNCHANGED boot
       \/ /\ Renewing(n) /\ ~CheckCert
          /\ Returns(n)
    /\ UNCHANGED <<mode, disk, running, held, inbound, dirty, issued, due,
                   history>>

\* Obtain and Renew of the ACME client, or generateSelfSslCertificate: a new
\* certificate for a new key.
Obtain(n) ==
    /\ pc[n] = "obtain"
    /\ \/ /\ issued' = issued + 1
          /\ held' = [held EXCEPT ![n] = issued + 1]
          /\ Goto(n, "cert")
          /\ UNCHANGED <<running, boot, inbound, dirty, faults, hurt>>
       \/ /\ Fails
          /\ Aborts(n)
          /\ UNCHANGED issued
    /\ UNCHANGED <<mode, disk, due, ages, crashes>>

\* A file changes under the watchers of the running inbounds.
Touches(name) ==
    dirty' = [m \in Nodes |-> IF served[m] = None THEN dirty[m]
                                                 ELSE dirty[m] \cup {name}]

Stays == UNCHANGED <<running, boot, held, inbound, faults>>

\* A step of writeCert fails and the file stays as it is.
WriteFails(n) ==
    /\ Fails
    /\ Aborts(n)
    /\ UNCHANGED <<certFile, keyFile>>

\* writeCert, file by file: WriteFile truncates, then writes.
WriteCertFile(n) ==
    /\ \/ /\ pc[n] = "cert"
          /\ \/ /\ certFile' = Torn
                /\ Goto(n, "certCut")
                /\ hurt' = (hurt \/ \E m \in Nodes : Writing(m))
                /\ Touches("cert")
                /\ Stays
                /\ UNCHANGED keyFile
             \/ WriteFails(n)
       \/ /\ pc[n] = "certCut"
          /\ \/ /\ certFile' = held[n]
                /\ Goto(n, "key")
                /\ Touches("cert")
                /\ Stays
                /\ UNCHANGED <<keyFile, hurt>>
             \/ WriteFails(n)
    /\ UNCHANGED <<mode, account, issued, due, ages, crashes>>

\* The key is on disk: Start goes on to AddNode, the renewal returns.
Written(n) ==
    /\ held' = [held EXCEPT ![n] = None]
    /\ IF Renewing(n) THEN Returns(n) ELSE Goto(n, "load") /\ UNCHANGED boot

\* Mutant: an existing key is kept.
WriteKeyFileOnce(n) ==
    /\ \/ /\ pc[n] = "key"
          /\ keyFile = None
          /\ keyFile' = Torn
          /\ Goto(n, "keyCut")
          /\ Touches("key")
          /\ Stays
       \/ /\ pc[n] = "keyCut" \/ (pc[n] = "key" /\ keyFile # None)
          /\ keyFile' = IF pc[n] = "keyCut" THEN held[n] ELSE keyFile
          /\ Written(n)
          /\ Touches("key")
          /\ UNCHANGED <<running, inbound, faults>>
    /\ UNCHANGED <<mode, certFile, account, issued, due, ages, crashes, hurt>>

WriteKeyFile(n) ==
    /\ \/ /\ pc[n] = "key"
          /\ \/ /\ keyFile' = Torn
                /\ Goto(n, "keyCut")
                /\ Touches("key")
                /\ Stays
                /\ UNCHANGED <<certFile, hurt>>
             \/ WriteFails(n)
       \/ /\ pc[n] = "keyCut"
          /\ \/ /\ keyFile' = held[n]
                /\ Written(n)
                /\ Touches("key")
                /\ UNCHANGED <<certFile, running, inbound, faults, hurt>>
             \/ WriteFails(n)
    /\ UNCHANGED <<mode, account, issued, due, ages, crashes>>

\* tls.X509KeyPair accepts a certificate and the key it was issued for.
Pair(m) == m.cert > 0 /\ m.cert = m.key

\* AddNode builds the inbound from the two files, then startTasks.
AddNode(n) ==
    /\ pc[n] = "load"
    /\ LET m == [cert |-> certFile, key |-> keyFile]
       IN  \/ /\ Pair(m)
              /\ mem' = [mem EXCEPT ![n] = m]
              /\ served' = [served EXCEPT ![n] = certFile]
              /\ IF mode = "http" THEN Goto(n, "lego") /\ UNCHANGED boot
                                  ELSE Returns(n)
              /\ UNCHANGED <<running, held, dirty, hurt>>
           \/ /\ ~Pair(m)
              /\ Dies
    /\ UNCHANGED <<mode, disk, issued, due, ages, crashes, faults>>

\* Mutant: a certificate event is handled together with the next key event.
CertificateUpdatedKeyOnly(n, name) ==
    /\ running /\ name \in dirty[n]
    /\ dirty' = [dirty EXCEPT ![n] = @ \ {name}]
    /\ LET m == IF name = "cert" THEN mem[n]
                                 ELSE [mem[n] EXCEPT !.key = keyFile]
       IN  /\ mem' = [mem EXCEPT ![n] = m]
           /\ served' = [served EXCEPT ![n] = IF Pair(m) THEN m.cert ELSE @]
    /\ UNCHANGED <<mode, disk, running, boot, pc, held, issued, due, history>>

\* certificateUpdated: read the file of the event; a pair that fits is used.
CertificateUpdated(n, name) ==
    /\ running /\ name \in dirty[n]
    /\ dirty' = [dirty EXCEPT ![n] = @ \ {name}]
    /\ LET m == IF name = "cert" THEN [mem[n] EXCEPT !.cert = certFile]
                                 ELSE [mem[n] EXCEPT !.key = keyFile]
       IN  /\ mem' = [mem EXCEPT ![n] = m]
           /\ served' = [served EXCEPT ![n] = IF Pair(m) THEN m.cert ELSE @]
    /\ UNCHANGED <<mode, disk, running, boot, pc, held, issued, due, history>>

-----------------------------------------------------------------------------
\* The service manager starts the process again.
Launch ==
    /\ ~running
    /\ running' = TRUE
    /\ UNCHANGED <<mode, disk, boot, pc, held, inbound, dirty, issued, due,
                   history>>

Crash ==
    /\ running /\ Trouble
    /\ Dies
    /\ crashes' = crashes + 1
    /\ UNCHANGED <<mode, disk, issued, due, ages, faults>>

\* The certificate on disk gets within 30 days of its end.
Age ==
    /\ mode = "http" /\ ages < MaxAges
    /\ certFile > 0 /\ certFile \notin due
    /\ due' = due \cup {certFile}
    /\ ages' = ages + 1
    /\ UNCHANGED <<mode, disk, running, boot, pc, held, inbound, dirty, issued,
                   crashes, faults, hurt>>

NodeStep(n) ==
    \/ RequestCert(n) \/ RenewCertTask(n) \/ NewLego(n) \/ RegisterUser(n)
    \/ SaveUser(n) \/ Order(n) \/ Obtain(n) \/ WriteCertFile(n) \/ WriteKeyFile(n)
    \/ AddNode(n)

Next ==
    \/ \E n \in Nodes : NodeStep(n)
    \/ \E n \in Nodes, name \in {"cert", "key"} : CertificateUpdated(n, name)
    \/ Launch \/ Crash \/ Age

Spec == Init /\ [][Next]_vars

\* Goroutines, timers and watchers run on, and the process is restarted.
FairSpec ==
    /\ Spec
    /\ \A n \in Nodes :
          /\ WF_vars(NodeStep(n))
          /\ WF_vars(\E name \in {"cert", "key"} : CertificateUpdated(n, name))
    /\ WF_vars(Launch)

-----------------------------------------------------------------------------
Damaged == certFile # keyFile \/ certFile = Torn \/ account = Torn
Quiet == \A n \in Nodes : ~Writing(n) /\ pc[n] # "save"

(* writeCert and User.Save leave a certificate with its key and a readable *)
(* account behind, unless one of them was cut short by a failing write or  *)
(* the end of the process, or two nodes wrote the same file at once.       *)
DamageHasCause == Quiet /\ Damaged => hurt

(* Orders to the certificate authority, which limits them, have causes:    *)
(* one for the first start, and one per node for every certificate that    *)
(* comes due, every failure and every crash.                               *)
OrdersBounded == issued <= 1 + N * (ages + faults + crashes)

(* Automatic request and renewal: in the end every node is up and its      *)
(* inbound serves the pair on disk, which does not need renewal, however   *)
(* often the process crashed and requests failed, unless the files it left *)
(* are damaged.                                                            *)
RenewedAndServed ==
    <>[](Damaged \/ (/\ boot = N /\ certFile \notin due
                     /\ \A n \in Nodes : served[n] = certFile))
=============================================================================
