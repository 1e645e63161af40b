------------------------ MODULE CredentialStartupProofs ------------------------
(***************************************************************************)
(* What holds of the credential command for any number of clients, any     *)
(* TTL and any number of profiles.                                         *)
(***************************************************************************)
EXTENDS CredentialStartup, TLAPS

(* credential.go:209-223 -- a credential is valid for some time, never     *)
(* longer than the server outlives its last request, and for less unless   *)
(* the TTL is a single tick.                                               *)
THEOREM ExpiresInTime ==
    ASSUME NEW ttl \in Nat \ {0}
    PROVE  ValidFor(ttl) \in 1..ttl /\ (ttl > 1 => ValidFor(ttl) < ttl)
<1>1. MaxSkew \in Nat \ {0}
  BY CredentialAssumption
<1>2. PICK tenth \in Nat : tenth = ttl \div 10 /\ tenth < ttl
  <2>1. ttl \div 10 \in Nat /\ ttl \div 10 < ttl
    BY SMT
  <2> QED BY <2>1
<1>3. PICK half \in Nat : half = ttl \div 2 /\ half < ttl /\ (ttl > 1 => half > 0)
  <2>1. ttl \div 2 \in Nat /\ ttl \div 2 < ttl /\ (ttl > 1 => ttl \div 2 > 0)
    BY SMT
  <2> QED BY <2>1
<1> QED
  BY <1>1, <1>2, <1>3 DEF ValidFor
------------------------------------------------------------------------------
LEMMA AbsentApart == Absent \notin Profile /\ Absent \notin Clients
  BY CredentialAssumption

LEMMA InitType == Init => TypeOK
<1> SUFFICES ASSUME Init PROVE TypeOK
  OBVIOUS
<1>1. (CHOOSE a \in Addresses : TRUE) \in Addresses
  BY CredentialAssumption
<1>2. stateFile \in Profile
  BY <1>1, CredentialAssumption DEF Init, Profile
<1> QED
  BY <1>2, CredentialAssumption DEF Init, TypeOK, Locked, Living, ComingUp, Leaving, Waiting

ServerTypeOK ==
    /\ serve \in [Clients -> {"none", "ended"} \cup Living]
    /\ running \in [Clients -> Profile \cup {Absent}]
    /\ idleFor \in [Clients -> 0..(TTL + 1)]

LEMMA GoesType ==
    ASSUME TypeOK, NEW s \in Clients, NEW where \in Living \cup {"ended"}, Goes(s, where)
    PROVE  /\ serve' \in [Clients -> {"none", "ended"} \cup Living]
           /\ idleFor' \in [Clients -> 0..(TTL + 1)]
<1>1. serve' \in [Clients -> {"none", "ended"} \cup Living]
  BY DEF TypeOK, Goes
<1>2. 0 \in 0..(TTL + 1)
  BY CredentialAssumption
<1>3. idleFor' \in [Clients -> 0..(TTL + 1)]
  BY <1>2 DEF TypeOK, Goes
<1> QED
  BY <1>1, <1>3

LEMMA EndsType ==
    ASSUME TypeOK, NEW s \in Clients, Ends(s)
    PROVE  ServerTypeOK'
<1>1. Goes(s, "ended") /\ running' = [running EXCEPT ![s] = Absent]
  BY DEF Ends
<1> QED
  BY <1>1, GoesType DEF TypeOK, ServerTypeOK

(* A step that only moves a server keeps the type of all the rest.         *)
LEMMA ServerStepType ==
    ASSUME TypeOK, ServerTypeOK', UNCHANGED <<fileVars, commandVars, holderVars>>
    PROVE  TypeOK'
  BY DEF TypeOK, ServerTypeOK, fileVars, commandVars, holderVars

LEMMA StepType == TypeOK /\ [Next]_vars => TypeOK'
<1> SUFFICES ASSUME TypeOK, [Next]_vars PROVE TypeOK'
  OBVIOUS
<1> USE CredentialAssumption DEF TypeOK, fileVars, commandVars, serverVars, holderVars,
        Locked, Waiting, Living, ComingUp, Leaving
<1>1. ASSUME NEW c \in Clients, OpenLock(c) PROVE TypeOK'
  BY <1>1 DEF OpenLock
<1>2. ASSUME NEW c \in Clients, Lock(c) PROVE TypeOK'
  BY <1>2 DEF Lock, Becomes
<1>3. ASSUME NEW c \in Clients, LoadProfile(c) PROVE TypeOK'
  BY <1>3 DEF LoadProfile, Returns
<1>4. ASSUME NEW c \in Clients, CheckFirst(c) PROVE TypeOK'
  BY <1>4 DEF CheckFirst, Becomes
<1>5. ASSUME NEW c \in Clients, StartServe(c) PROVE TypeOK'
  BY <1>5 DEF StartServe, Becomes, Returns
<1>6. ASSUME NEW c \in Clients, Poll(c) PROVE TypeOK'
  <2>1. checks' \in [Clients -> 0..Checks]
    BY <1>6 DEF Poll
  <2>2. client' \in [Clients -> {"new", "lock", "ok", "failed"} \cup Locked]
    BY <1>6 DEF Poll
  <2> QED
    BY <1>6, <2>1, <2>2 DEF Poll
<1>7. ASSUME NEW c \in Clients, Select(c) PROVE TypeOK'
  BY <1>7 DEF Select, Becomes, Returns
<1>8. ASSUME NEW c \in Clients, Answer(c) PROVE TypeOK'
  <2>1. ValidFor(TTL) \in 0..TTL
    BY ExpiresInTime
  <2> QED BY <1>8, <2>1 DEF Answer, Returns
<1>9. ASSUME NEW c \in Clients, KillCommand(c) PROVE TypeOK'
  BY <1>9 DEF KillCommand, Returns
<1>10. ASSUME NEW s \in Clients, LoadState(s) PROVE TypeOK'
  <2>1. CASE Ends(s)
    BY <1>10, <2>1, EndsType, ServerStepType DEF LoadState, ServeKept
  <2>2. CASE /\ stateFile # Absent /\ Goes(s, "bind")
             /\ running' = [running EXCEPT ![s] = stateFile]
    <3>1. ServerTypeOK'
      BY <2>2, GoesType DEF ServerTypeOK
    <3> QED
      BY <1>10, <3>1, ServerStepType DEF LoadState, ServeKept
  <2> QED
    BY <1>10, <2>1, <2>2 DEF LoadState
<1>11. ASSUME NEW s \in Clients, NEW where \in Living, Goes(s, where),
              UNCHANGED <<ServeKept, running>> PROVE TypeOK'
  <2>1. ServerTypeOK'
    BY <1>11, GoesType DEF ServerTypeOK
  <2> QED
    BY <1>11, <2>1, ServerStepType DEF ServeKept
<1>12. ASSUME NEW s \in Clients, Bind(s) PROVE TypeOK'
  <2>1. CASE Ends(s)
    BY <1>12, <2>1, EndsType, ServerStepType DEF Bind, ServeKept
  <2>2. CASE Goes(s, "open") /\ UNCHANGED running
    BY <1>11, <1>12, <2>2 DEF Bind
  <2> QED
    BY <1>12, <2>1, <2>2 DEF Bind
<1>13. ASSUME NEW s \in Clients,
              DrainForState(s) \/ StateIsGone(s) \/ TTLEnds(s) \/ CloseListener(s) PROVE TypeOK'
  BY <1>11, <1>13 DEF DrainForState, StateIsGone, TTLEnds, CloseListener
<1>14. ASSUME NEW s \in Clients, DrainForKubeconfig(s) PROVE TypeOK'
  BY <1>14 DEF DrainForKubeconfig, Goes
<1>15. ASSUME NEW s \in Clients, Replace(s) \/ Stop(s) \/ ServeFails(s) PROVE TypeOK'
  <2>1. CASE Replace(s)
    <3>1. ServerTypeOK'
      BY <2>1, GoesType DEF Replace, ServerTypeOK
    <3>2. missed' \in [Clients -> SUBSET Clients]
      BY <2>1 DEF Replace
    <3> QED
      BY <2>1, <3>1, <3>2 DEF Replace, ServerTypeOK
  <2>2. CASE Stop(s) \/ ServeFails(s)
    BY <2>2, EndsType, ServerStepType DEF Stop, ServeFails, ServeKept
  <2> QED
    BY <1>15, <2>1, <2>2
<1>16. ASSUME NEW c \in Clients, Request(c) PROVE TypeOK'
  BY <1>16 DEF Request
<1>17. CASE SaveState
  BY <1>17 DEF SaveState, Profile
<1>18. CASE RemoveState
  BY <1>18 DEF RemoveState
<1>19. CASE Tick
  BY <1>19 DEF Tick
<1>20. CASE UNCHANGED vars
  BY <1>20 DEF vars
<1> QED
  BY <1>1, <1>2, <1>3, <1>4, <1>5, <1>6, <1>7, <1>8, <1>9, <1>10, <1>11, <1>12, <1>13,
     <1>14, <1>15, <1>16, <1>17, <1>18, <1>19, <1>20 DEF Next, CommandStep, ServeStep

(* Every variable keeps its type; a credential in particular is never      *)
(* given out for longer than the TTL.                                      *)
THEOREM TypeCorrect == Spec => []TypeOK
  BY InitType, StepType, PTL DEF Spec
------------------------------------------------------------------------------
(* No duplicate starts.  The lock file is created once and never removed,  *)
(* so that all commands lock the same file and one of them at most is past *)
(* Lock.  While that one is about to start a server no other command       *)
(* waits, and every server that has come up since its check was on its way *)
(* up at the check or since.                                               *)

LockStays ==
    /\ lockFiles = lockFile /\ lockFile \in {0, 1}
    /\ \A c \in Clients : client[c] # "new" => lockFile = 1
    /\ \A c \in Clients : client[c] \in {"lock"} \cup Locked => handle[c] = 1

OneHolder ==
    \A c, d \in Clients : client[c] \in Locked /\ client[d] \in Locked => c = d

NothingDoubled ==
    \A c \in Clients : client[c] = "start" => \A s \in Clients \ {c} :
        serve[s] \in ComingUp \/ (serve[s] = "open" /\ running[s] = seen[c]) => s \in missed[c]

CInv == TypeOK /\ LockStays /\ OneHolder /\ NothingDoubled

LEMMA InitCInv == Init => CInv
<1> SUFFICES ASSUME Init PROVE CInv
  OBVIOUS
<1>1. TypeOK
  BY InitType
<1> QED
  BY <1>1 DEF Init, CInv, LockStays, OneHolder, NothingDoubled, Locked, Waiting

LockPart == LockStays /\ OneHolder

LEMMA StepLock == CInv /\ [Next]_vars => LockPart'
<1> SUFFICES ASSUME CInv, [Next]_vars PROVE LockPart'
  OBVIOUS
<1> USE DEF CInv, TypeOK, LockPart, LockStays, OneHolder, Locked, Waiting
<1>1. ASSUME UNCHANGED <<lockFile, lockFiles, handle, client>> PROVE LockPart'
  BY <1>1
<1>2. ASSUME NEW c \in Clients, OpenLock(c) PROVE LockPart'
  <2>1. lockFile' = 1 /\ lockFiles' = 1
    BY <1>2 DEF OpenLock
  <2>2. client' = [client EXCEPT ![c] = "lock"] /\ handle' = [handle EXCEPT ![c] = 1]
    BY <1>2, <2>1 DEF OpenLock
  <2> QED
    BY <2>1, <2>2
<1>3. ASSUME NEW c \in Clients, Lock(c) PROVE LockPart'
  <2>1. client' = [client EXCEPT ![c] = "load"] /\ UNCHANGED <<handle, lockFile, lockFiles>>
    BY <1>3 DEF Lock, Becomes, fileVars
  <2>2. \A d \in Clients : client[d] \notin Locked
    BY <1>3 DEF Lock
  <2> QED
    BY <2>1, <2>2, <1>3 DEF Lock
(* The holder moves on, or lets go of the lock.                            *)
<1>4. ASSUME NEW c \in Clients, NEW where \in Locked, client[c] \in Locked,
             client' = [client EXCEPT ![c] = where], UNCHANGED <<handle, lockFile, lockFiles>>
      PROVE  LockPart'
  BY <1>4
<1>5. ASSUME NEW c \in Clients, NEW how \in {"ok", "failed"}, client[c] \in Locked,
             Returns(c, how), UNCHANGED <<lockFile, lockFiles>>
      PROVE  LockPart'
  BY <1>5 DEF Returns
<1>6. ASSUME NEW c \in Clients, LoadProfile(c) \/ CheckFirst(c) \/ StartServe(c) PROVE LockPart'
  BY <1>6, <1>4, <1>5 DEF LoadProfile, CheckFirst, StartServe, Becomes, fileVars
<1>7. ASSUME NEW c \in Clients, Poll(c) \/ Select(c) PROVE LockPart'
  BY <1>7, <1>4, <1>5 DEF Poll, Select, Becomes, fileVars
<1>8. ASSUME NEW c \in Clients, Answer(c) \/ KillCommand(c) PROVE LockPart'
  BY <1>8, <1>5 DEF Answer, KillCommand, fileVars
<1>9. ASSUME NEW s \in Clients,
             ServeStep(s) \/ DrainForState(s) \/ DrainForKubeconfig(s) \/ TTLEnds(s) \/ ServeFails(s)
               \/ Request(s)
      PROVE  UNCHANGED <<lockFile, lockFiles, handle, client>>
  BY <1>9 DEF ServeStep, LoadState, Bind, DrainForState, StateIsGone, CloseListener, Replace,
              Stop, DrainForKubeconfig, TTLEnds, ServeFails, Request, ServeKept, fileVars, commandVars
<1>10. CASE SaveState \/ RemoveState \/ Tick \/ UNCHANGED vars
  BY <1>10, <1>1 DEF SaveState, RemoveState, Tick, vars, fileVars, commandVars
<1> QED
  BY <1>1, <1>2, <1>3, <1>6, <1>7, <1>8, <1>9, <1>10 DEF Next, CommandStep

(* A server's step moves only that server, and comes to listen only from   *)
(* the way up.                                                             *)
Moves(s) ==
    /\ serve[s] # "none" /\ serve' = [serve EXCEPT ![s] = serve'[s]] /\ serve'[s] # "none"
    /\ running' = [running EXCEPT ![s] = running'[s]]
    /\ serve'[s] \in {"bind", "open"} => serve[s] \in ComingUp
    /\ UNCHANGED <<client, seen>>
    /\ \/ UNCHANGED missed /\ serve'[s] # "load"
       \/ missed' = [c \in Clients |-> IF client[c] = "start" THEN missed[c] \cup {s} ELSE missed[c]]

ServerMove(s) ==
    ServeStep(s) \/ DrainForState(s) \/ DrainForKubeconfig(s) \/ TTLEnds(s) \/ ServeFails(s)

LEMMA ServerMoves ==
    ASSUME TypeOK, NEW s \in Clients, ServerMove(s)
    PROVE  Moves(s)
<1> USE DEF TypeOK, Moves, Goes, ServeKept, commandVars, holderVars, ComingUp
<1>1. CASE LoadState(s)
  BY <1>1 DEF LoadState, Ends
<1>2. CASE Bind(s)
  BY <1>2 DEF Bind, Ends
<1>3. CASE DrainForState(s) \/ StateIsGone(s) \/ TTLEnds(s) \/ CloseListener(s)
  BY <1>3 DEF DrainForState, StateIsGone, TTLEnds, CloseListener
<1>4. CASE DrainForKubeconfig(s)
  BY <1>4 DEF DrainForKubeconfig
<1>5. CASE Replace(s)
  BY <1>5 DEF Replace
<1>6. CASE Stop(s) \/ ServeFails(s)
  BY <1>6 DEF Stop, ServeFails, Ends, Living, Leaving
<1> QED
  BY <1>1, <1>2, <1>3, <1>4, <1>5, <1>6 DEF ServeStep, ServerMove

LEMMA StepNothingDoubled == CInv /\ [Next]_vars => NothingDoubled'
<1> SUFFICES ASSUME CInv, [Next]_vars, NEW c \in Clients, client'[c] = "start", NEW s \in Clients \ {c},
                    serve'[s] \in ComingUp \/ (serve'[s] = "open" /\ running'[s] = seen'[c])
             PROVE  s \in missed'[c]
  BY DEF NothingDoubled
<1> USE DEF CInv, TypeOK, NothingDoubled
(* Nothing has changed for c and s.                                        *)
<1>1. ASSUME UNCHANGED <<client[c], serve[s], running[s], seen[c], missed[c]>> PROVE s \in missed'[c]
  BY <1>1
<1>2. ASSUME NEW d \in Clients, ServerMove(d) PROVE s \in missed'[c]
  <2>1. Moves(d)
    BY <1>2, ServerMoves
  <2>2. CASE d # s
    BY <2>1, <2>2 DEF Moves
  <2>3. CASE d = s
    BY <2>1, <2>3 DEF Moves, ComingUp
  <2> QED
    BY <2>2, <2>3
(* Another command steps: by OneHolder it starts no server while c is      *)
(* about to.                                                               *)
<1>3. ASSUME NEW d \in Clients, d # c, CommandStep(d) \/ KillCommand(d) PROVE s \in missed'[c]
  <2>1. client[c] = "start"
    BY <1>3 DEF CommandStep, KillCommand, OpenLock, Lock, LoadProfile, CheckFirst, StartServe, Poll,
                Select, Answer, Becomes, Returns
  <2>2. client[d] \notin Locked
    BY <1>3, <2>1 DEF OneHolder, Locked
  <2>3. OpenLock(d) \/ Lock(d)
    BY <1>3, <2>2 DEF CommandStep, KillCommand, LoadProfile, CheckFirst, StartServe, Poll, Select, Answer,
                Locked, Waiting
  <2> QED
    BY <1>1, <1>3, <2>3 DEF OpenLock, Lock, Becomes, serverVars
<1>4. ASSUME CommandStep(c) \/ KillCommand(c) PROVE s \in missed'[c]
  <2>1. CheckFirst(c)
    BY <1>4 DEF CommandStep, KillCommand, OpenLock, Lock, LoadProfile, CheckFirst, StartServe, Poll,
                Select, Answer, Becomes, Returns
  <2>2. ~ReadyFor(s, c) /\ UNCHANGED <<seen, serve, running>>
    BY <2>1 DEF CheckFirst, Becomes, serverVars
  <2>3. missed'[c] = {t \in Clients : serve[t] \in ComingUp}
    BY <2>1 DEF CheckFirst, Becomes
  <2> QED
    BY <2>2, <2>3 DEF ReadyFor, Answering
<1>5. ASSUME NEW d \in Clients, Request(d) PROVE s \in missed'[c]
  BY <1>1, <1>5 DEF Request, commandVars
<1>6. CASE SaveState \/ RemoveState \/ Tick \/ UNCHANGED vars
  BY <1>1, <1>6 DEF SaveState, RemoveState, Tick, vars, commandVars, serverVars
<1> QED
  BY <1>2, <1>3, <1>4, <1>5, <1>6 DEF Next, ServerMove

LEMMA StepCInv == CInv /\ [Next]_vars => CInv'
  BY StepType, StepLock, StepNothingDoubled DEF CInv, LockPart

(* ARCHITECTURE.md:179-180 -- whatever happens to the state file, and      *)
(* whoever is killed, a command starts a server neither beside one that    *)
(* another command is starting nor beside one that has been listening with *)
(* its profile since before its check.                                     *)
THEOREM NoDuplicate == Spec => NoDuplicateStarts
<1>1. CInv /\ [Next]_vars =>
        [\A c \in Clients : serve[c] = "none" /\ serve'[c] # "none" =>
           \A s \in Clients \ {c} : ~Doubles(c, s)]_vars
  <2> SUFFICES ASSUME CInv, [Next]_vars, NEW c \in Clients, serve[c] = "none", serve'[c] # "none",
                      NEW s \in Clients \ {c}
               PROVE  ~Doubles(c, s)
    OBVIOUS
  <2>1. ASSUME NEW t \in Clients, ServerMove(t) PROVE FALSE
    BY <2>1, ServerMoves DEF Moves, CInv, TypeOK
  <2>2. ASSUME NEW d \in Clients, StartServe(d) PROVE client[c] = "start"
    BY <2>2 DEF StartServe, CInv, TypeOK
  <2>3. ASSUME NEW d \in Clients,
               OpenLock(d) \/ Lock(d) \/ LoadProfile(d) \/ CheckFirst(d) \/ Poll(d) \/ Select(d)
                 \/ Answer(d) \/ KillCommand(d) \/ Request(d)
        PROVE  FALSE
    BY <2>3 DEF OpenLock, Lock, LoadProfile, CheckFirst, Poll, Select, Answer, KillCommand,
                Request, serverVars
  <2>4. ASSUME SaveState \/ RemoveState \/ Tick \/ UNCHANGED vars PROVE FALSE
    BY <2>4 DEF SaveState, RemoveState, Tick, vars, serverVars
  <2>5. client[c] = "start"
    BY <2>1, <2>2, <2>3, <2>4 DEF Next, CommandStep, ServerMove
  <2>6. client[s] \notin Waiting
    BY <2>5 DEF CInv, OneHolder, Locked, Waiting
  <2> QED
    BY <2>5, <2>6 DEF CInv, NothingDoubled, Doubles
<1> QED
  BY <1>1, InitCInv, StepCInv, PTL DEF Spec, NoDuplicateStarts

(* credential.go:43-57, 95-118 -- of all the commands of a state at most   *)
(* one at a time is between its check and its answer.                      *)
THEOREM OneHolderAtATime == Spec => []OneHolder
  BY InitCInv, StepCInv, PTL DEF Spec, CInv
------------------------------------------------------------------------------
(* The TTL.  A request restarts the idle clock of its server when its      *)
(* credential has at most the TTL left, and from then on the two move      *)
(* towards each other; only the command's answer gives a credential more   *)
(* time, and before it the client has used none.                           *)
Covered ==
    \A c \in Clients : usedWith[c] # Absent =>
        client[c] = "ok" /\ idleFor[usedWith[c]] + validFor[c] <= TTL

LEMMA StepCovered == TypeOK /\ Covered /\ [Next]_vars => Covered'
<1> SUFFICES ASSUME TypeOK, Covered, [Next]_vars PROVE Covered'
  OBVIOUS
<1> USE DEF TypeOK, Covered
<1>1. TTL \in Nat /\ Absent \notin Clients
  BY CredentialAssumption
(* A command of a client that has no credential yet.                       *)
<1>2. ASSUME NEW d \in Clients, client[d] # "ok", client' = [client EXCEPT ![d] = client'[d]],
             UNCHANGED <<usedWith, idleFor>>, validFor' = [validFor EXCEPT ![d] = validFor'[d]]
      PROVE  Covered'
  BY <1>2
<1>3. ASSUME NEW d \in Clients, CommandStep(d) \/ KillCommand(d) PROVE Covered'
  <2>1. UNCHANGED <<usedWith, idleFor>> /\ client[d] # "ok"
    BY <1>3 DEF CommandStep, OpenLock, Lock, LoadProfile, CheckFirst, StartServe, Poll, Select, Answer,
                KillCommand, Locked, Waiting, serverVars, holderVars
  <2>2. client' = [client EXCEPT ![d] = client'[d]]
    BY <1>3 DEF CommandStep, OpenLock, Lock, LoadProfile, CheckFirst, StartServe, Poll, Select, Answer,
                KillCommand, Becomes, Returns
  <2>3. validFor' = [validFor EXCEPT ![d] = validFor'[d]]
    BY <1>3 DEF CommandStep, OpenLock, Lock, LoadProfile, CheckFirst, StartServe, Poll, Select, Answer,
                KillCommand, holderVars
  <2> QED
    BY <1>2, <2>1, <2>2, <2>3
(* A server moves, which can only restart its clock.                       *)
<1>4. ASSUME NEW s \in Clients, idleFor' = [idleFor EXCEPT ![s] = 0], UNCHANGED <<client, validFor, usedWith>>
      PROVE  Covered'
  <2> SUFFICES ASSUME NEW c \in Clients, usedWith[c] # Absent
               PROVE  client[c] = "ok" /\ idleFor'[usedWith[c]] + validFor[c] <= TTL
    BY <1>4
  <2>1. usedWith[c] \in Clients /\ idleFor[usedWith[c]] \in Nat /\ validFor[c] \in Nat
    BY <1>1
  <2>2. idleFor'[usedWith[c]] \in {0, idleFor[usedWith[c]]}
    BY <1>4, <2>1
  <2> QED
    BY <1>1, <2>1, <2>2
<1>5. ASSUME NEW s \in Clients, ServerMove(s) PROVE Covered'
  BY <1>4, <1>5 DEF ServerMove, ServeStep, LoadState, Bind, DrainForState, StateIsGone, CloseListener, Replace,
                    Stop, DrainForKubeconfig, TTLEnds, ServeFails, Ends, Goes, ServeKept,
                    commandVars, holderVars
<1>6. ASSUME NEW d \in Clients, Request(d) PROVE Covered'
  <2>1. PICK s \in Clients : idleFor' = [idleFor EXCEPT ![s] = 0] /\ usedWith' = [usedWith EXCEPT ![d] = s]
    BY <1>6 DEF Request
  <2>2. UNCHANGED <<client, validFor>> /\ client[d] = "ok"
    BY <1>6 DEF Request, commandVars
  <2> SUFFICES ASSUME NEW c \in Clients, usedWith'[c] # Absent
               PROVE  client[c] = "ok" /\ idleFor'[usedWith'[c]] + validFor[c] <= TTL
    BY <2>2
  <2>3. validFor[c] \in 0..TTL
    OBVIOUS
  <2>4. CASE usedWith'[c] = s
    BY <1>1, <2>1, <2>2, <2>3, <2>4
  <2>5. CASE usedWith'[c] # s
    <3>1. usedWith'[c] = usedWith[c] /\ usedWith[c] \in Clients
      BY <1>1, <2>1, <2>5
    <3> QED
      BY <2>1, <2>5, <3>1
  <2> QED
    BY <2>4, <2>5
<1>7. CASE Tick
  <2> SUFFICES ASSUME NEW c \in Clients, usedWith'[c] # Absent
               PROVE  client'[c] = "ok" /\ idleFor'[usedWith'[c]] + validFor'[c] <= TTL
    OBVIOUS
  <2>1. usedWith'[c] = usedWith[c] /\ validFor'[c] > 0 /\ client' = client
    BY <1>7 DEF Tick, commandVars
  <2>2. usedWith[c] \in Clients
    BY <2>1
  <2>3. validFor[c] \in Nat /\ validFor'[c] = validFor[c] - 1
    BY <1>7, <2>1 DEF Tick
  <2>4. idleFor[usedWith[c]] \in Nat /\ idleFor'[usedWith[c]] <= idleFor[usedWith[c]] + 1
          /\ idleFor'[usedWith[c]] \in Nat
    BY <1>7, <2>2 DEF Tick
  <2> QED
    BY <1>1, <2>1, <2>3, <2>4
<1>8. CASE SaveState \/ RemoveState \/ UNCHANGED vars
  BY <1>8 DEF SaveState, RemoveState, vars, commandVars, serverVars, holderVars
<1> QED
  BY <1>3, <1>5, <1>6, <1>7, <1>8 DEF Next, ServerMove

(* ARCHITECTURE.md:188-190 -- the TTL never ends a server under a client   *)
(* that has used its credential and whose credential is still valid, for   *)
(* any TTL, any clients and whatever happens to the server in between.     *)
THEOREM TTLSpares == Spec => TTLSparesUsedCredentials
<1> DEFINE Spared == \A s \in Clients :
                       serve[s] = "open" /\ serve'[s] = "stopping" /\ stateFile # Absent =>
                         \A c \in Clients : validFor[c] > 0 => usedWith[c] # s
<1>1. Init => Covered
  BY DEF Init, Covered
<1>2. TypeOK /\ Covered /\ Next => Spared
  <2> SUFFICES ASSUME TypeOK, Covered, Next, NEW s \in Clients, serve[s] = "open", serve'[s] = "stopping",
                      stateFile # Absent, NEW c \in Clients, validFor[c] > 0, usedWith[c] = s
               PROVE  FALSE
    OBVIOUS
  <2>1. ASSUME NEW d \in Clients, CommandStep(d) \/ KillCommand(d) \/ Request(d) PROVE FALSE
    BY <2>1 DEF CommandStep, OpenLock, Lock, LoadProfile, CheckFirst, StartServe, Poll, Select, Answer,
                KillCommand, Request, serverVars, TypeOK
  <2>2. ASSUME NEW t \in Clients, ServeStep(t) \/ DrainForState(t) \/ DrainForKubeconfig(t) \/ ServeFails(t)
        PROVE  FALSE
    BY <2>2 DEF ServeStep, LoadState, Bind, DrainForState, StateIsGone, CloseListener, Replace,
                Stop, DrainForKubeconfig, ServeFails, Ends, Goes, TypeOK
  <2>3. ASSUME NEW t \in Clients, TTLEnds(t) PROVE FALSE
    <3>1. t = s /\ idleFor[s] > TTL
      BY <2>3 DEF TTLEnds, Goes, TypeOK
    <3>2. idleFor[s] + validFor[c] <= TTL /\ idleFor[s] \in Nat /\ validFor[c] \in Nat /\ TTL \in Nat
      BY CredentialAssumption DEF Covered, TypeOK
    <3> QED
      BY <3>1, <3>2
  <2>4. CASE SaveState \/ RemoveState \/ Tick
    BY <2>4 DEF SaveState, RemoveState, Tick, serverVars
  <2> QED
    BY <2>1, <2>2, <2>3, <2>4 DEF Next
<1>3. Spec => []Covered
  BY <1>1, TypeCorrect, StepCovered, PTL DEF Spec
<1> QED
  BY <1>2, <1>3, TypeCorrect, PTL DEF Spec, TTLSparesUsedCredentials
==============================================================================
