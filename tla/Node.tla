-------------------------------- MODULE Node --------------------------------
(***************************************************************************)
(* The life of a node around its inference: an ApiServer is started with   *)
(* some configuration and passphrase, finds or makes the identity in its   *)
(* key file, boots, serves, is stopped by another thread, dies and is      *)
(* started again.  The foreign function interface starts, asks and stops   *)
(* one under its mutex.                                                    *)
(***************************************************************************)
EXTENDS Inference

CONSTANTS
    Passphrases,   \* m_nodeKeyPassphrase
    MaxStarts      \* bound: processes

ASSUME NodeAssumption == MaxStarts \in Nat

VARIABLES
    keyFile,      \* m_nodeKeyFile
    passphrase,   \* of the running process
    key,          \* m_identity
    running,      \* m_running
    serve,        \* where a call of Serve is
    stop,         \* where a call of Stop is
    starts,
    made,         \* the number of keys generated
    former,       \* history: the identity last taken into use
    faulty        \* bound and history: the key file could not be opened or written, once

keyVars == <<keyFile, key, made, former, faulty>>
stopVars == <<running, serve, stop>>
nodeVars == <<inferenceVars, keyVars, stopVars, passphrase, starts>>

NoKey == 0
Keys == 1..MaxStarts + 1

Absent == [is |-> "absent"]
Empty == [is |-> "empty"]
Part == [is |-> "part"]
Plain(k) == [is |-> "plain", key |-> k]
Encrypted(k, p) == [is |-> "encrypted", key |-> k, passphrase |-> p]
KeyFiles == {Absent, Empty, Part} \cup {Plain(k) : k \in Keys}
                \cup {Encrypted(k, p) : k \in Keys, p \in Passphrases}
WholeFile == keyFile.is \in {"plain", "encrypted"}

\* A node of an older version left its key in plaintext.
NodeInit ==
    /\ InferenceInit
    /\ \E plain \in BOOLEAN :
          /\ keyFile = IF plain THEN Plain(1) ELSE Absent
          /\ made = IF plain THEN 1 ELSE 0
          /\ former = IF plain THEN 1 ELSE NoKey
    /\ passphrase \in Passphrases
    /\ key = NoKey /\ faulty = FALSE
    /\ running = FALSE /\ serve = "out" /\ stop = "no"
    /\ starts = 0

-----------------------------------------------------------------------------
(* The identity *)

\* main, or GeniusElmInit without a server.
Start ==
    /\ boot.at = "down" /\ starts < MaxStarts
    /\ cfg' \in Configs /\ passphrase' \in Passphrases
    /\ boot' = At("identity")
    /\ starts' = starts + 1
    /\ UNCHANGED <<engine, loaded, client, callVars, keyVars, stopVars>>

Uses(k) ==
    /\ key' = k
    /\ former' = k
    /\ boot' = At("engine")

\* Mutant of ReadKey: bytes that are no hexadecimal number are no key, and no more.
ReadKeyOrNone ==
    /\ boot.at = "identity"
    /\ \/ /\ keyFile.is = "plain" \/ (keyFile.is = "encrypted" /\ keyFile.passphrase = passphrase)
          /\ Uses(keyFile.key)
       \/ /\ ~WholeFile \/ (keyFile.is = "encrypted" /\ keyFile.passphrase # passphrase)
          /\ boot' = At("generate")
          /\ UNCHANGED <<key, former>>
    /\ UNCHANGED <<cfg, engine, loaded, client, callVars, keyFile, made, faulty, stopVars,
                   passphrase, starts>>

\* Mutant of ReadKey: no plaintext.
ReadKeyEncrypted ==
    /\ boot.at = "identity"
    /\ \/ /\ keyFile.is = "encrypted" /\ keyFile.passphrase = passphrase
          /\ Uses(keyFile.key)
       \/ /\ keyFile.is = "encrypted" => keyFile.passphrase # passphrase
          /\ boot' = At("generate")
          /\ UNCHANGED <<key, former>>
    /\ UNCHANGED <<cfg, engine, loaded, client, callVars, keyFile, made, faulty, stopVars,
                   passphrase, starts>>

\* LoadEncrypted, and if it fails LoadFromFile.  FromHex throws when it is given the
\* bytes of an encrypted file, and nothing catches it: the process ends.  Of a part
\* that is too short for that no key is made; nor of a file that cannot be opened.
ReadKey ==
    /\ boot.at = "identity"
    /\ \/ /\ keyFile.is = "plain" \/ (keyFile.is = "encrypted" /\ keyFile.passphrase = passphrase)
          /\ Uses(keyFile.key)
          /\ UNCHANGED faulty
       \/ /\ \/ ~WholeFile /\ UNCHANGED faulty
             \/ ~faulty /\ faulty' = TRUE
          /\ boot' = At("generate")
          /\ UNCHANGED <<key, former>>
       \/ /\ keyFile.is = "part" \/ (keyFile.is = "encrypted" /\ keyFile.passphrase # passphrase)
          /\ boot' = At("terminated")
          /\ UNCHANGED <<key, former, faulty>>
    /\ UNCHANGED <<cfg, engine, loaded, client, callVars, keyFile, made, stopVars, passphrase,
                   starts>>

Generate ==
    /\ boot.at = "generate"
    /\ key' = made + 1 /\ made' = made + 1
    /\ boot' = At("save")
    /\ UNCHANGED <<cfg, engine, loaded, client, callVars, keyFile, former, faulty, stopVars,
                   passphrase, starts>>

\* SaveEncrypted; ApiServer ignores whether it succeeds.
SaveOpen ==
    /\ boot.at = "save"
    /\ \/ /\ keyFile' = Empty
          /\ boot' = At("write")
          /\ UNCHANGED <<key, former, faulty>>
       \/ /\ ~faulty
          /\ faulty' = TRUE
          /\ Uses(key)
          /\ UNCHANGED keyFile
    /\ UNCHANGED <<cfg, engine, loaded, client, callVars, made, stopVars, passphrase, starts>>

\* Mutant of SaveWrite: after a save that failed, a new key.
SaveWriteAgain ==
    /\ boot.at = "write"
    /\ \/ keyFile' = Encrypted(key, passphrase) /\ Uses(key)
       \/ keyFile' \in {Empty, Part} /\ boot' = At("generate") /\ UNCHANGED <<key, former>>
    /\ UNCHANGED <<cfg, engine, loaded, client, callVars, made, faulty, stopVars, passphrase,
                   starts>>

SaveWrite ==
    /\ boot.at = "write"
    /\ Uses(key)
    /\ \/ keyFile' = Encrypted(key, passphrase) /\ UNCHANGED faulty
       \/ ~faulty /\ faulty' = TRUE /\ keyFile' \in {Empty, Part}
    /\ UNCHANGED <<cfg, engine, loaded, client, callVars, made, stopVars, passphrase, starts>>

Identity == ReadKey \/ Generate \/ SaveOpen \/ SaveWrite

-----------------------------------------------------------------------------
(* Serve, in the request thread, and Stop, in any other *)

Serve ==
    /\ boot.at = "ready" /\ call["request"] = Idle /\ serve = "out"
    /\ running' = TRUE
    /\ serve' = "checks"
    /\ UNCHANGED <<inferenceVars, keyVars, stop, passphrase, starts>>

\* The predicate of the wait, under m_stopMutex.
Checks ==
    /\ serve = "checks"
    /\ serve' = IF running THEN "sleeps" ELSE "returned"
    /\ UNCHANGED <<inferenceVars, keyVars, running, stop, passphrase, starts>>

Sleeps ==
    /\ serve = "sleeps"
    /\ serve' = "asleep"
    /\ UNCHANGED <<inferenceVars, keyVars, running, stop, passphrase, starts>>

\* Stop; under the mutex of the foreign function interface, which a request holds
\* until it has its answer.
StopRunning ==
    /\ boot.at = "ready" /\ stop = "no" /\ call["request"] = Idle
    /\ running' = FALSE
    /\ stop' = "notify"
    /\ UNCHANGED <<inferenceVars, keyVars, serve, passphrase, starts>>

\* Mutant of Notify: nobody is notified.
NotifyNobody ==
    /\ stop = "notify"
    /\ stop' = "disconnect"
    /\ UNCHANGED <<inferenceVars, keyVars, running, serve, passphrase, starts>>

Notify ==
    /\ stop = "notify"
    /\ stop' = "disconnect"
    /\ serve' = IF serve = "asleep" THEN "checks" ELSE serve
    /\ UNCHANGED <<inferenceVars, keyVars, running, passphrase, starts>>

\* The gossip threads are gone before the client is.
Disconnect ==
    /\ stop = "disconnect" /\ call["gossip"] = Idle
    /\ stop' = "stopped"
    /\ client' = "none" /\ jobs' = <<>> /\ sdkOn' = TRUE
    /\ UNCHANGED <<cfg, boot, engine, loaded, call, asked, keyVars, running, serve,
                   passphrase, starts>>

\* The process ends or dies, at any moment.
Dies ==
    /\ boot.at # "down"
    /\ boot' = At("down") /\ engine' = NoEngine /\ loaded' = {} /\ client' = "none"
    /\ jobs' = <<>> /\ sdkOn' = TRUE /\ call' = [t \in Threads |-> Idle]
    /\ asked' = 0 /\ key' = NoKey /\ running' = FALSE /\ serve' = "out" /\ stop' = "no"
    /\ UNCHANGED <<cfg, keyFile, made, former, faulty, passphrase, starts>>

Server == Boot \/ \E t \in Threads : Work(t)

Asks(t) == stop = "no" /\ (t = "request" => serve = "out") /\ Ask(t)

NodeNext ==
    \/ Start \/ Identity \/ Dies
    \/ Serve \/ Checks \/ Sleeps \/ StopRunning \/ Notify \/ Disconnect
    \/ /\ Server \/ Sdk \/ \E t \in Threads : Asks(t)
       /\ UNCHANGED <<keyVars, stopVars, passphrase, starts>>

\* Threads that have work to do go on; nothing else has to happen.
NodeFairness ==
    /\ \A t \in Threads : WF_nodeVars(Work(t) /\ UNCHANGED <<keyVars, stopVars, passphrase, starts>>)
    /\ WF_nodeVars(Checks) /\ WF_nodeVars(Notify)

NodeSpec == NodeInit /\ [][NodeNext]_nodeVars /\ NodeFairness

-----------------------------------------------------------------------------
(* Properties *)

NodeTypeOK ==
    /\ InferenceTypeOK
    /\ keyFile \in KeyFiles
    /\ key \in {NoKey} \cup Keys /\ former \in {NoKey} \cup Keys
    /\ made \in {0} \cup Keys
    /\ serve \in {"out", "checks", "sleeps", "asleep", "returned"}
    /\ stop \in {"no", "notify", "disconnect", "stopped"}
    /\ starts \in 0..MaxStarts
    /\ running \in BOOLEAN /\ faulty \in BOOLEAN
    /\ boot.at \in {"down", "identity", "generate", "save", "write", "engine", "grammar",
                    "math", "network", "grounding", "elms", "ready", "failed", "terminated"}

\* A key that was saved whole is not overwritten, not by a start with another
\* passphrase either, as long as the file can be opened (ApiServer::Initialize
\* generates a key when it finds none it can read, and SaveEncrypted truncates).
KeysAreKept == [][WholeFile /\ ~faulty => keyFile' = keyFile]_nodeVars

\* A node that comes back is the same node, whatever died, if its key file could
\* always be opened and written.
SameNodeAgain == [][former # NoKey /\ ~faulty => former' = former]_nodeVars

\* A thread that sleeps in Serve when Stop clears m_running returns (one that is between
\* its check and its sleep, or calls Serve after that, may not).
StopEndsServe ==
    serve = "asleep" /\ stop = "notify" /\ ~running ~> serve = "returned" \/ boot.at = "down"
=============================================================================
