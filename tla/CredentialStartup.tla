-------------------------- MODULE CredentialStartup --------------------------
(***************************************************************************)
(* Clients of one proxy context: each runs the credential command          *)
(* (credential.go), which takes the lock of the state file, and starts a   *)
(* serve process if none answers.  Serve processes load the state, listen, *)
(* are replaced when a file changes, and end with their TTL (serve.go, of  *)
(* which ServeLoop has the details).  add-context rewrites the state file  *)
(* meanwhile, delete-context removes it, and any process may be killed.    *)
(*                                                                         *)
(* A serve process is named after the client whose command started it.     *)
(***************************************************************************)
EXTENDS Integers, FiniteSets

CONSTANTS
    Clients,      \* clients, each of which runs the credential command once
    Addresses,    \* listen addresses
    TTL,          \* the proxy TTL, in ticks
    MaxSkew,      \* ten seconds, in ticks
    Checks,       \* readiness checks that fit into credentialStartupTimeout
    MaxSaves,     \* bound on the profiles written, the first one included
    MaxReloads,   \* bound on the changes of source kubeconfigs
    Absent        \* no state file; no profile; no server

(* A profile is told apart by the write that made it: each has its own     *)
(* token and certificate.                                                  *)
Profile == [id : 1..MaxSaves, listen : Addresses]

ASSUME CredentialAssumption ==
    /\ IsFiniteSet(Clients) /\ Addresses # {}
    /\ TTL \in Nat \ {0} /\ MaxSkew \in Nat \ {0} /\ Checks \in Nat \ {0}
    /\ MaxSaves \in Nat \ {0} /\ MaxReloads \in Nat
    /\ Absent \notin Profile \cup Clients

VARIABLES
    stateFile,   \* the profile in the state file, or Absent
    saves,       \* profiles written so far
    lockFile,    \* the file now at <state>.lock, numbered; 0 when there is none
    lockFiles,   \* lock files created so far
    reloads,     \* changes of source kubeconfigs so far
    client,      \* where each client's credential command stands
    handle,      \* the lock file it has open, or 0
    seen,        \* the profile it has loaded
    checks,      \* the readiness checks left until its deadline
    missed,      \* history: servers between exec and listening at its first check or since
    serve,       \* where the serve process it started stands
    running,     \* the profile that process runs
    idleFor,     \* ticks since the last request to that process, while it is open
    validFor,    \* ticks until the client's credential expires
    usedWith     \* history: the server that accepted its last request, while it is valid

fileVars == <<stateFile, saves, lockFile, lockFiles, reloads>>
commandVars == <<client, handle, seen, checks, missed>>
serverVars == <<serve, running, idleFor>>
holderVars == <<validFor, usedWith>>
vars == <<fileVars, commandVars, serverVars, holderVars>>

Waiting == {"poll", "select"}
Locked == {"load", "check", "start", "answer"} \cup Waiting
ComingUp == {"load", "bind"}
Listening == {"open", "draining", "stopping"}
Answering == {"open", "stopping"}
Leaving == {"draining", "shutdown", "stopping", "closed"}
Living == ComingUp \cup {"open"} \cup Leaving

TypeOK ==
    /\ stateFile \in Profile \cup {Absent}
    /\ saves \in 1..MaxSaves /\ reloads \in 0..MaxReloads
    /\ lockFile \in Nat /\ lockFiles \in Nat
    /\ client \in [Clients -> {"new", "lock", "ok", "failed"} \cup Locked]
    /\ handle \in [Clients -> Nat]
    /\ seen \in [Clients -> Profile \cup {Absent}]
    /\ checks \in [Clients -> 0..Checks]
    /\ missed \in [Clients -> SUBSET Clients]
    /\ serve \in [Clients -> {"none", "ended"} \cup Living]
    /\ running \in [Clients -> Profile \cup {Absent}]
    /\ idleFor \in [Clients -> 0..(TTL + 1)]
    /\ validFor \in [Clients -> 0..TTL]
    /\ usedWith \in [Clients -> Clients \cup {Absent}]

(* expirationForExecCredential.                                            *)
ValidFor(ttl) ==
    LET tenth == IF ttl \div 10 > MaxSkew THEN MaxSkew ELSE ttl \div 10
        skew == IF tenth <= 0 THEN ttl \div 2 ELSE tenth
    IN IF ttl - skew <= 0 THEN ttl \div 2 ELSE ttl - skew

Init ==
    /\ stateFile = [id |-> 1, listen |-> CHOOSE a \in Addresses : TRUE]
    /\ saves = 1 /\ reloads = 0
    /\ lockFile = 0 /\ lockFiles = 0
    /\ client = [c \in Clients |-> "new"]
    /\ handle = [c \in Clients |-> 0]
    /\ seen = [c \in Clients |-> Absent]
    /\ checks = [c \in Clients |-> Checks]
    /\ missed = [c \in Clients |-> {}]
    /\ serve = [c \in Clients |-> "none"]
    /\ running = [c \in Clients |-> Absent]
    /\ idleFor = [c \in Clients |-> 0]
    /\ validFor = [c \in Clients |-> 0]
    /\ usedWith = [c \in Clients |-> Absent]
------------------------------------------------------------------------------
(* The credential command.                                                 *)

Becomes(c, where) ==
    /\ client' = [client EXCEPT ![c] = where]
    /\ missed' = [missed EXCEPT ![c] = IF where = "start" THEN {s \in Clients : serve[s] \in ComingUp}
                                                         ELSE {}]
    /\ UNCHANGED <<handle, seen, checks>>

(* The process ends, and with it its hold on the lock; what it has read    *)
(* stays with the client only as its credential.                           *)
Returns(c, how) ==
    /\ client' = [client EXCEPT ![c] = how]
    /\ seen' = [seen EXCEPT ![c] = IF how = "ok" THEN @ ELSE Absent]
    /\ handle' = [handle EXCEPT ![c] = 0]
    /\ checks' = [checks EXCEPT ![c] = Checks]
    /\ missed' = [missed EXCEPT ![c] = {}]

(* lockState opens the lock file, which creates it if there is none.       *)
OpenLock(c) ==
    /\ client[c] = "new"
    /\ client' = [client EXCEPT ![c] = "lock"]
    /\ lockFiles' = IF lockFile = 0 THEN lockFiles + 1 ELSE lockFiles
    /\ lockFile' = IF lockFile = 0 THEN lockFiles + 1 ELSE lockFile
    /\ handle' = [handle EXCEPT ![c] = lockFile']
    /\ UNCHANGED <<stateFile, saves, reloads, seen, checks, missed, serverVars, holderVars>>

(* flock waits for the holder of the same file, whatever its path is now.  *)
Lock(c) ==
    /\ client[c] = "lock"
    /\ \A d \in Clients : client[d] \in Locked => handle[d] # handle[c]
    /\ Becomes(c, "load")
    /\ UNCHANGED <<fileVars, serverVars, holderVars>>

LoadProfile(c) ==
    /\ client[c] = "load"
    /\ \/ stateFile = Absent /\ Returns(c, "failed")
       \/ /\ stateFile # Absent
          /\ client' = [client EXCEPT ![c] = "check"]
          /\ seen' = [seen EXCEPT ![c] = stateFile]
          /\ UNCHANGED <<handle, checks, missed>>
    /\ UNCHANGED <<fileVars, serverVars, holderVars>>

(* checkReady: the certificate and the token must be those of the profile, *)
(* and the server must not drain.  A server that ends for another reason   *)
(* answers until its listener is closed.                                   *)
ReadyFor(s, c) == serve[s] \in Answering /\ running[s] = seen[c]

CheckFirst(c) ==
    /\ client[c] = "check"
    /\ Becomes(c, IF \E s \in Clients : ReadyFor(s, c) THEN "answer" ELSE "start")
    /\ UNCHANGED <<fileVars, serverVars, holderVars>>

(* startDetachedServe may fail to find or to run the executable.           *)
StartServe(c) ==
    /\ client[c] = "start"
    /\ \/ serve' = [serve EXCEPT ![c] = "load"] /\ Becomes(c, "poll")
       \/ Returns(c, "failed") /\ UNCHANGED serve
    /\ UNCHANGED <<fileVars, running, idleFor, holderVars>>

(* waitReadyWithServeExit: a check as long as the deadline has not passed. *)
Poll(c) ==
    /\ client[c] = "poll" /\ checks[c] > 0
    /\ checks' = [checks EXCEPT ![c] = @ - 1]
    /\ client' = [client EXCEPT ![c] = IF \E s \in Clients : ReadyFor(s, c) THEN "answer" ELSE "select"]
    /\ UNCHANGED <<fileVars, handle, seen, missed, serverVars, holderVars>>

(* Mutant: the wait goes on for as long as the server has not exited.      *)
SelectForEver(c) ==
    /\ client[c] = "select"
    /\ \/ /\ client' = [client EXCEPT ![c] = "poll"]
          /\ checks' = [checks EXCEPT ![c] = Checks]
          /\ UNCHANGED <<handle, seen, missed>>
       \/ serve[c] = "ended" /\ Returns(c, "failed")
    /\ UNCHANGED <<fileVars, serverVars, holderVars>>

(* The select between two checks: the server has exited, or time passes.   *)
Select(c) ==
    /\ client[c] = "select"
    /\ \/ checks[c] > 0 /\ Becomes(c, "poll")
       \/ (checks[c] = 0 \/ serve[c] = "ended") /\ Returns(c, "failed")
    /\ UNCHANGED <<fileVars, serverVars, holderVars>>

(* writeExecCredential; the lock is released on return.                    *)
Answer(c) ==
    /\ client[c] = "answer"
    /\ Returns(c, "ok")
    /\ validFor' = [validFor EXCEPT ![c] = ValidFor(TTL)]
    /\ UNCHANGED <<fileVars, serverVars, usedWith>>

(* The kernel releases the lock of a killed command; the server it started *)
(* lives on.  A command killed before it has the lock leaves nothing.      *)
KillCommand(c) ==
    /\ client[c] \in Locked
    /\ Returns(c, "failed")
    /\ UNCHANGED <<fileVars, serverVars, holderVars>>
------------------------------------------------------------------------------
(* A serve process.                                                        *)

ServeKept == <<fileVars, commandVars, holderVars>>

Goes(s, where) ==
    /\ serve' = [serve EXCEPT ![s] = where]
    /\ idleFor' = [idleFor EXCEPT ![s] = 0]

Ends(s) ==
    /\ Goes(s, "ended")
    /\ running' = [running EXCEPT ![s] = Absent]

(* loadServeRuntime.                                                       *)
LoadState(s) ==
    /\ serve[s] = "load"
    /\ \/ stateFile = Absent /\ Ends(s)
       \/ /\ stateFile # Absent
          /\ Goes(s, "bind")
          /\ running' = [running EXCEPT ![s] = stateFile]
    /\ UNCHANGED ServeKept

(* Mutant: two processes may share an address.                             *)
BindAnyway(s) ==
    /\ serve[s] = "bind"
    /\ Goes(s, "open")
    /\ UNCHANGED <<ServeKept, running>>

(* net.Listen fails while another process listens on the address.          *)
Bind(s) ==
    /\ serve[s] = "bind"
    /\ IF \E t \in Clients : serve[t] \in Listening /\ running[t].listen = running[s].listen
         THEN Ends(s)
         ELSE Goes(s, "open") /\ UNCHANGED running
    /\ UNCHANGED ServeKept

(* beginDrainIfIdle after the state file changed.                          *)
DrainForState(s) ==
    /\ serve[s] = "open" /\ stateFile \notin {Absent, running[s]}
    /\ Goes(s, "draining")
    /\ UNCHANGED <<ServeKept, running>>

(* The same after a source kubeconfig changed.                             *)
DrainForKubeconfig(s) ==
    /\ serve[s] = "open" /\ reloads < MaxReloads
    /\ reloads' = reloads + 1
    /\ Goes(s, "draining")
    /\ UNCHANGED <<stateFile, saves, lockFile, lockFiles, commandVars, holderVars, running>>

(* The removed state file is reported as an error, which ends the server.  *)
StateIsGone(s) ==
    /\ serve[s] = "open" /\ stateFile = Absent
    /\ Goes(s, "stopping")
    /\ UNCHANGED <<ServeKept, running>>

TTLEnds(s) ==
    /\ serve[s] = "open" /\ idleFor[s] > TTL
    /\ Goes(s, "stopping")
    /\ UNCHANGED <<ServeKept, running>>

(* Shutdown closes the listener first, and then waits for connections.     *)
CloseListener(s) ==
    /\ \/ serve[s] = "draining" /\ Goes(s, "shutdown")
       \/ serve[s] = "stopping" /\ Goes(s, "closed")
    /\ UNCHANGED <<ServeKept, running>>

(* Exec keeps the process; its starter does not see it end.                *)
Replace(s) ==
    /\ serve[s] = "shutdown"
    /\ Goes(s, "load")
    /\ running' = [running EXCEPT ![s] = Absent]
    /\ missed' = [c \in Clients |-> IF client[c] = "start" THEN missed[c] \cup {s} ELSE missed[c]]
    /\ UNCHANGED <<fileVars, client, handle, seen, checks, holderVars>>

Stop(s) ==
    /\ serve[s] = "closed"
    /\ Ends(s)
    /\ UNCHANGED ServeKept

(* Any error before the server listens, a failed Shutdown or exec, a       *)
(* signal, or a crash.                                                     *)
ServeFails(s) ==
    /\ serve[s] \in Living
    /\ Ends(s)
    /\ UNCHANGED ServeKept
------------------------------------------------------------------------------
(* The other commands, the clients' requests, and time.                    *)

(* state.Save renames a complete file into place.                          *)
SaveState ==
    /\ saves < MaxSaves
    /\ saves' = saves + 1
    /\ \E a \in Addresses : stateFile' = [id |-> saves + 1, listen |-> a]
    /\ UNCHANGED <<lockFile, lockFiles, reloads, commandVars, serverVars, holderVars>>

(* Mutant: delete-context tidies the lock file away as well.               *)
RemoveStateAndLock ==
    /\ stateFile # Absent
    /\ stateFile' = Absent
    /\ lockFile' = 0
    /\ UNCHANGED <<saves, lockFiles, reloads, commandVars, serverVars, holderVars>>

(* removeStateArtifacts keeps the lock file.                               *)
RemoveState ==
    /\ stateFile # Absent
    /\ stateFile' = Absent
    /\ UNCHANGED <<saves, lockFile, lockFiles, reloads, commandVars, serverVars, holderVars>>

(* Mutant: a request does not count as activity.                           *)
RequestUnnoticed(c) ==
    /\ client[c] = "ok" /\ validFor[c] > 0
    /\ \E s \in Clients :
         /\ ReadyFor(s, c)
         /\ usedWith' = [usedWith EXCEPT ![c] = s]
    /\ UNCHANGED <<fileVars, commandVars, serverVars, validFor>>

(* A client sends a request with a credential that has not expired.        *)
Request(c) ==
    /\ client[c] = "ok" /\ validFor[c] > 0
    /\ \E s \in Clients :
         /\ ReadyFor(s, c)
         /\ idleFor' = [idleFor EXCEPT ![s] = 0]
         /\ usedWith' = [usedWith EXCEPT ![c] = s]
    /\ UNCHANGED <<fileVars, commandVars, serve, running, validFor>>

Tick ==
    /\ idleFor' = [s \in Clients |->
                     IF serve[s] = "open" /\ idleFor[s] <= TTL THEN idleFor[s] + 1 ELSE idleFor[s]]
    /\ validFor' = [c \in Clients |-> IF validFor[c] > 0 THEN validFor[c] - 1 ELSE 0]
    /\ usedWith' = [c \in Clients |-> IF validFor'[c] > 0 THEN usedWith[c] ELSE Absent]
    /\ UNCHANGED <<fileVars, commandVars, serve, running>>

CommandStep(c) ==
    OpenLock(c) \/ Lock(c) \/ LoadProfile(c) \/ CheckFirst(c) \/ StartServe(c) \/ Poll(c) \/ Select(c) \/ Answer(c)

ServeStep(s) ==
    \/ LoadState(s) \/ Bind(s) \/ StateIsGone(s)
    \/ CloseListener(s) \/ Replace(s) \/ Stop(s)

Next ==
    \/ \E c \in Clients :
          \/ CommandStep(c) \/ KillCommand(c) \/ Request(c)
          \/ ServeStep(c) \/ DrainForState(c) \/ DrainForKubeconfig(c) \/ TTLEnds(c) \/ ServeFails(c)
    \/ SaveState \/ RemoveState \/ Tick

Spec == Init /\ [][Next]_vars

(* Processes run: a flock that is free goes to a waiter, and a server      *)
(* loads, listens, notices that its state file is gone and, once it ends   *)
(* or is replaced, gets through Shutdown, which has a timeout.  Nothing is *)
(* assumed of the share each process gets, nor that a server ever finds    *)
(* the idle moment a replacement waits for, that a command is run or       *)
(* killed, a file written, a request sent or that time passes.             *)
Fairness == WF_vars(\E c \in Clients : CommandStep(c) \/ ServeStep(c))

FairSpec == Spec /\ Fairness
------------------------------------------------------------------------------
(* Correctness.                                                            *)

(* A server that the command of c starts is one too many beside s: s is up *)
(* with the profile of c or on its way up, and a command still waits for   *)
(* it, or it has been listening since before the check of c.               *)
Doubles(c, s) ==
    /\ serve[s] \in ComingUp \/ (serve[s] = "open" /\ running[s] = seen[c])
    /\ client[s] \in Waiting \/ s \notin missed[c]

(* ARCHITECTURE.md:179-180 "so concurrent clients do not start duplicate   *)
(* servers", credential.go:43-65 -- what the lock gives: whatever happens  *)
(* to the state file, no command starts a server beside one that another   *)
(* command is starting, nor beside one that could have answered its check. *)
(* It is not more than that.  A server between exec and listening that no  *)
(* command waits for is doubled: it is replacing itself, or its starter    *)
(* was killed, gave up or was answered by another server.  So is one that  *)
(* is leaving or runs another profile, and may yet return with this one.   *)
(* OneServerInTheEnd says what becomes of those.                           *)
NoDuplicateStarts ==
    [][\A c \in Clients : serve[c] = "none" /\ serve'[c] # "none" =>
         \A s \in Clients \ {c} : ~Doubles(c, s)]_vars

(* credential.go:95-118 -- no command waits for ever, neither for the lock *)
(* nor for a server that lives and never becomes ready.                    *)
CredentialEnds ==
    \A c \in Clients : client[c] = "lock" ~> client[c] \in {"ok", "failed"}

(* A server whose state file changed finds the five idle seconds its       *)
(* replacement waits for.  Long requests can deny them for ever            *)
(* (ARCHITECTURE.md:211-212, README.md:184-186).                           *)
IdleWindows == \A s \in Clients : WF_vars(DrainForState(s))

(* serve.go:144 and :205-227 -- whatever was started beside each other, on *)
(* the same address or on the addresses of different profiles, in the end  *)
(* at most one server is left, if no request keeps an old one from its     *)
(* replacement.                                                            *)
OneServerInTheEnd ==
    IdleWindows => <>[](Cardinality({s \in Clients : serve[s] \in Living}) <= 1)

(* ARCHITECTURE.md:188-190 -- the TTL never ends a server under a client   *)
(* that has used its credential and whose credential is still valid.       *)
TTLSparesUsedCredentials ==
    [][\A s \in Clients :
         serve[s] = "open" /\ serve'[s] = "stopping" /\ stateFile # Absent =>
             \A c \in Clients : validFor[c] > 0 => usedWith[c] # s]_vars
=============================================================================
