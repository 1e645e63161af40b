----------------------------- MODULE ContextFiles -----------------------------
(***************************************************************************)
(* add-context and delete-context (add_context.go, delete_context.go,      *)
(* kubeconfig/write.go, state.Save) over one kubeconfig file and the state *)
(* files, and the selection of source contexts they share with serve       *)
(* (kubeconfig/source.go).                                                 *)
(*                                                                         *)
(* Commands are processes that take no lock: they read the kubeconfig,     *)
(* change what they read and write it back, by truncating the file and     *)
(* filling it, while other commands and kubectl do the same.  State files  *)
(* are renamed into place.  A command may end at any point, by an error, a *)
(* signal or a crash.                                                      *)
(*                                                                         *)
(* Context names are numbers, which stand for their alphabetical order; a  *)
(* regular expression is the set of names it matches; hasRegexp is FALSE   *)
(* if there is none, or one of spaces.                                     *)
(***************************************************************************)
EXTENDS Integers, Sequences

CONSTANTS
    Names,        \* context names
    ProxyNames,   \* those given to add-context and delete-context
    Options,      \* the --contexts, --context-regexp and --primary-context given to add-context
    Sources,      \* kubeconfigs there are before the first command, without proxies
    Commands,     \* command processes that may run at the same time
    MaxStarts,    \* bound on the commands started
    MaxEdits,     \* bound on the changes made with kubectl
    None          \* nothing: no context, entry, option, file or command

(* The default state path of a context is told by its name; 0 is a path    *)
(* given with --state.                                                     *)
Paths == Names \cup {0}

Selection == [names : Seq(Names), hasRegexp : BOOLEAN, regexp : SUBSET Names,
              primary : Names \cup {None}]
Entry == [path : Paths, cert : 1..MaxStarts]
Config == [contexts : [Names -> {"none", "user", "proxy"}],
           entries : [Names -> Entry \cup {None}],
           current : Names \cup {None}]
Profile == [id : 1..MaxStarts, name : Names, contexts : Selection]

ASSUME FilesAssumption ==
    /\ Names \subseteq Nat \ {0} /\ ProxyNames \subseteq Names
    /\ Options \subseteq Selection /\ Sources \subseteq Config
    /\ \A config \in Sources, n \in Names : config.contexts[n] # "proxy"
    /\ MaxStarts \in Nat /\ MaxEdits \in Nat
    /\ None \notin Paths \cup Entry \cup Profile

VARIABLES
    kube,         \* the kubeconfig file
    state,        \* the state file at each path, or None
    job,          \* what each command was asked to do, or None
    todo,         \* the steps it has before it
    read,         \* the kubeconfig it has read
    statePaths,   \* the state files it writes or removes
    starts,       \* commands started so far
    edits,        \* changes made with kubectl so far
    interfered,   \* history: commands or contexts have got in each other's way
    home,         \* history: the state path of the last add-context of each name that finished,
                  \* until a delete-context of the name finishes
    userContexts  \* history: the contexts of the user that nobody was asked to replace

fileVars == <<kube, state>>
commandVars == <<job, todo, read, statePaths>>
historyVars == <<interfered, home, userContexts>>
vars == <<fileVars, commandVars, starts, edits, historyVars>>

Job == [op : {"add", "delete"}, name : Names, path : Paths \cup {None}, contexts : Selection \cup {None},
        id : 1..MaxStarts]
Step == {"select", "save", "read", "truncate", "write", "remove"}

TypeOK ==
    /\ kube \in Config /\ state \in [Paths -> Profile \cup {None}]
    /\ job \in [Commands -> Job \cup {None}] /\ todo \in [Commands -> Seq(Step)]
    /\ read \in [Commands -> Config] /\ statePaths \in [Commands -> SUBSET Paths]
    /\ starts \in 0..MaxStarts /\ edits \in 0..MaxEdits
    /\ interfered \in BOOLEAN /\ home \in [Names -> Paths \cup {None}] /\ userContexts \subseteq Names
------------------------------------------------------------------------------
(* The selection of source contexts.                                       *)

(* A kubeconfig that does not exist, or is empty.                          *)
Empty == [contexts |-> [n \in Names |-> "none"], entries |-> [n \in Names |-> None], current |-> None]

(* stateContextSelection.                                                  *)
StateSelection(options) ==
    IF ~options.hasRegexp /\ options.names = <<>>
      THEN [options EXCEPT !.hasRegexp = TRUE, !.regexp = Names] ELSE options

Listed(sel) == {sel.names[i] : i \in DOMAIN sel.names}
IsInjective(names) == \A i, j \in DOMAIN names : names[i] = names[j] => i = j

(* Mutant: contexts of proxies are matched too.                            *)
MatchedWithProxies(sel, config) ==
    IF sel.hasRegexp THEN {n \in sel.regexp : config.contexts[n] # "none"} ELSE {}

(* selectContextNames: the names that the regular expression adds.         *)
Matched(sel, config) ==
    IF sel.hasRegexp THEN {n \in sel.regexp : config.contexts[n] = "user"} ELSE {}

Selected(sel, config) == Listed(sel) \cup Matched(sel, config)

(* SelectContexts puts the listed names first and sorts the matched ones.  *)
FirstSelected(sel, config) ==
    IF sel.names # <<>> THEN sel.names[1]
    ELSE CHOOSE n \in Matched(sel, config) : \A m \in Matched(sel, config) : n <= m

Primary(sel, config) ==
    IF sel.primary # None THEN sel.primary
    ELSE IF config.current \in Selected(sel, config) THEN config.current
    ELSE FirstSelected(sel, config)

(* LoadSource and SelectContexts succeed.                                  *)
Selects(sel, name, config) ==
    /\ Selected(sel, config) # {}
    /\ name \notin Selected(sel, config)
    /\ IsInjective(sel.names)
    /\ \A n \in Selected(sel, config) : config.contexts[n] # "none"
    /\ Primary(sel, config) \in Selected(sel, config)

(* Profile.validateRequiredFields, of the selection.                       *)
IsValid(sel) ==
    /\ sel.names # <<>> \/ sel.hasRegexp
    /\ IsInjective(sel.names)
    /\ \/ sel.primary = None \/ sel.primary \in Listed(sel)
       \/ sel.hasRegexp /\ sel.primary \in sel.regexp
------------------------------------------------------------------------------
(* The commands.                                                           *)

(* Mutant: delete-context removes the state files first, and add-context   *)
(* saves the state last.                                                   *)
StepsReversed(op) ==
    IF op = "add" THEN <<"select", "read", "truncate", "write", "save">>
    ELSE <<"read", "remove", "truncate", "write">>

(* runAddContext and runDeleteContext.                                     *)
Steps(op) ==
    IF op = "add" THEN <<"select", "save", "read", "truncate", "write">>
    ELSE <<"read", "truncate", "write", "remove">>

Running(c) == todo[c] # <<>>
Doing(c, op, step) == Running(c) /\ job[c].op = op /\ Head(todo[c]) = step

Init ==
    /\ kube \in Sources
    /\ state = [p \in Paths |-> None]
    /\ job = [c \in Commands |-> None]
    /\ todo = [c \in Commands |-> <<>>]
    /\ read = [c \in Commands |-> Empty]
    /\ statePaths = [c \in Commands |-> {}]
    /\ starts = 0 /\ edits = 0
    /\ interfered = FALSE
    /\ home = [n \in Names |-> None]
    /\ userContexts = {n \in Names : kube.contexts[n] = "user"}

(* The command goes on to its next step; a command that has none left, or  *)
(* is stopped, leaves nothing in memory.                                   *)
Proceeds(c, left) ==
    /\ todo' = [todo EXCEPT ![c] = left]
    /\ IF left = <<>>
         THEN /\ job' = [job EXCEPT ![c] = None]
              /\ read' = [read EXCEPT ![c] = Empty]
              /\ statePaths' = [statePaths EXCEPT ![c] = {}]
         ELSE UNCHANGED <<job, read, statePaths>>

(* Another command is at work on the same context or state file.           *)
Shared(c, p) ==
    \E d \in Commands \ {c} :
        Running(d) /\ (job[d].name = job[c].name \/ p \in statePaths[d])

(* The same, or the file there is that of another context.                 *)
Disturbs(c, p) == Shared(c, p) \/ (state[p] # None /\ state[p].name # job[c].name)

(* The kubeconfig is truncated and not yet filled.                         *)
Torn == \E c \in Commands : Running(c) /\ Head(todo[c]) = "write"

(* resolveAddContextPaths.                                                 *)
StartAdd(c, n, p, options) ==
    /\ ~Running(c) /\ starts < MaxStarts /\ p \in {n, 0}
    /\ starts' = starts + 1
    /\ job' = [job EXCEPT ![c] = [op |-> "add", name |-> n, path |-> p,
                                  contexts |-> StateSelection(options), id |-> starts + 1]]
    /\ todo' = [todo EXCEPT ![c] = Steps("add")]
    /\ statePaths' = [statePaths EXCEPT ![c] = {p}]
    /\ userContexts' = userContexts \ {n}
    /\ UNCHANGED <<fileVars, read, edits, interfered, home>>

StartDelete(c, n, p) ==
    /\ ~Running(c) /\ starts < MaxStarts /\ p \in {None, 0}
    /\ starts' = starts + 1
    /\ job' = [job EXCEPT ![c] = [op |-> "delete", name |-> n, path |-> p,
                                  contexts |-> None, id |-> starts + 1]]
    /\ todo' = [todo EXCEPT ![c] = Steps("delete")]
    /\ UNCHANGED <<fileVars, read, statePaths, edits, historyVars>>

Select(c) ==
    /\ Doing(c, "add", "select")
    /\ Proceeds(c, IF Selects(job[c].contexts, job[c].name, kube) THEN Tail(todo[c]) ELSE <<>>)
    /\ UNCHANGED <<fileVars, starts, edits, historyVars>>

(* state.Save validates the profile and renames it into place.             *)
SaveState(c) ==
    LET p == job[c].path
        profile == [id |-> job[c].id, name |-> job[c].name, contexts |-> job[c].contexts]
    IN
    /\ Doing(c, "add", "save")
    /\ IF IsValid(job[c].contexts)
         THEN /\ state' = [state EXCEPT ![p] = profile]
              /\ interfered' = (interfered \/ Disturbs(c, p))
              /\ Proceeds(c, Tail(todo[c]))
         ELSE Proceeds(c, <<>>) /\ UNCHANGED <<state, interfered>>
    /\ UNCHANGED <<kube, starts, edits, home, userContexts>>

(* AddProxyContext: LoadFromFile.                                          *)
ReadForAdd(c) ==
    /\ Doing(c, "add", "read")
    /\ read' = [read EXCEPT ![c] = kube]
    /\ todo' = [todo EXCEPT ![c] = Tail(@)]
    /\ UNCHANGED <<fileVars, job, statePaths, starts, edits, historyVars>>

(* Mutant: the path recorded in the entry is not looked up.                *)
PathsOfDefault(c) ==
    IF job[c].path = None THEN {job[c].name} ELSE {job[c].path}

(* statePathsFromAuthInfo, appendExplicitStatePath and the default path.   *)
PathsOf(c) ==
    LET entry == kube.entries[job[c].name]
        recorded == IF entry = None THEN {} ELSE {entry.path}
        given == IF job[c].path = None THEN {} ELSE {job[c].path}
    IN IF recorded \cup given = {} THEN {job[c].name} ELSE recorded \cup given

(* Mutant: a context that is not the proxy's is not refused.               *)
RefusesNothing(c) == FALSE

Refuses(c) == kube.contexts[job[c].name] = "user"

(* DeleteProxyContext up to the write, which is left out if the kubeconfig *)
(* holds nothing of the context.                                           *)
ReadForDelete(c) ==
    LET n == job[c].name
        nothing == kube.contexts[n] = "none" /\ kube.entries[n] = None
    IN
    /\ Doing(c, "delete", "read")
    /\ IF Refuses(c)
         THEN Proceeds(c, <<>>) /\ UNCHANGED interfered
         ELSE /\ read' = [read EXCEPT ![c] = kube]
              /\ todo' = [todo EXCEPT ![c] = IF nothing THEN <<"remove">> ELSE Tail(@)]
              /\ statePaths' = [statePaths EXCEPT ![c] = PathsOf(c)]
              /\ interfered' = (interfered \/ Torn \/ \E p \in PathsOf(c) : Shared(c, p))
              /\ UNCHANGED job
    /\ UNCHANGED <<fileVars, starts, edits, home, userContexts>>

(* WriteToFile truncates the file, and then fills it.                      *)
Truncate(c) ==
    /\ Running(c) /\ Head(todo[c]) = "truncate"
    /\ kube' = Empty
    /\ interfered' = (interfered \/ kube # read[c])
    /\ todo' = [todo EXCEPT ![c] = Tail(@)]
    /\ UNCHANGED <<state, job, read, statePaths, starts, edits, home, userContexts>>

WithContext(config, j) ==
    [config EXCEPT !.entries[j.name] = [path |-> j.path, cert |-> j.id], !.contexts[j.name] = "proxy"]

WithoutContext(config, n) ==
    [config EXCEPT !.entries[n] = None, !.contexts[n] = "none",
                   !.current = IF @ = n /\ config.contexts[n] # "none" THEN None ELSE @]

Write(c) ==
    LET j == job[c] IN
    /\ Running(c) /\ Head(todo[c]) = "write"
    /\ kube' = IF j.op = "add" THEN WithContext(read[c], j) ELSE WithoutContext(read[c], j.name)
    /\ interfered' = (interfered \/ kube # Empty)
    /\ home' = [home EXCEPT ![j.name] = IF j.op = "add" THEN j.path ELSE @]
    /\ Proceeds(c, Tail(todo[c]))
    /\ UNCHANGED <<state, starts, edits, userContexts>>

(* removeStateArtifacts, one path after the other.                         *)
RemoveState(c, p) ==
    /\ Doing(c, "delete", "remove") /\ p \in statePaths[c]
    /\ state' = [state EXCEPT ![p] = None]
    /\ interfered' = (interfered \/ Disturbs(c, p))
    /\ IF statePaths[c] = {p}
         THEN /\ Proceeds(c, Tail(todo[c]))
              /\ home' = [home EXCEPT ![job[c].name] = None]
         ELSE /\ statePaths' = [statePaths EXCEPT ![c] = @ \ {p}]
              /\ UNCHANGED <<job, todo, read, home>>
    /\ UNCHANGED <<kube, starts, edits, userContexts>>

(* A command ends early: a file that it was writing stays truncated, and   *)
(* where the state of a half-deleted context was is no longer recorded.    *)
StopEarly(c) ==
    /\ Running(c)
    /\ Proceeds(c, <<>>)
    /\ IF Head(todo[c]) = "write"
         THEN home' = [n \in Names |-> None] /\ userContexts' = {}
         ELSE /\ home' = [home EXCEPT ![job[c].name] = IF job[c].op = "delete" THEN None ELSE @]
              /\ UNCHANGED userContexts
    /\ UNCHANGED <<fileVars, starts, edits, interfered>>

(* kubectl config use-context and kubectl config delete-context, which     *)
(* leaves the user and the cluster of the context.                         *)
UseContext(n) ==
    /\ edits < MaxEdits /\ kube.contexts[n] # "none"
    /\ edits' = edits + 1
    /\ kube' = [kube EXCEPT !.current = n]
    /\ UNCHANGED <<state, commandVars, starts, historyVars>>

DropContext(n) ==
    /\ edits < MaxEdits /\ kube.contexts[n] # "none"
    /\ edits' = edits + 1
    /\ kube' = [kube EXCEPT !.contexts[n] = "none"]
    /\ userContexts' = userContexts \ {n}
    /\ UNCHANGED <<state, commandVars, starts, interfered, home>>

Next ==
    \/ \E c \in Commands :
          \/ \E n \in ProxyNames :
                \/ \E p \in Paths, options \in Options : StartAdd(c, n, p, options)
                \/ \E p \in Paths \cup {None} : StartDelete(c, n, p)
          \/ Select(c) \/ SaveState(c) \/ ReadForAdd(c) \/ ReadForDelete(c)
          \/ Truncate(c) \/ Write(c) \/ StopEarly(c)
          \/ \E p \in Paths : RemoveState(c, p)
    \/ \E n \in Names : UseContext(n) \/ DropContext(n)

Spec == Init /\ [][Next]_vars
------------------------------------------------------------------------------
(* Correctness.  interfered is set when a kubeconfig is written that was   *)
(* read before another program's write, when one is read half-written, or  *)
(* when a command works on a context or a state file that another running  *)
(* command, or another context, uses as well: nothing is claimed then.     *)

(* add_context.go:73-78, delete_context.go:25-29 -- wherever commands end, *)
(* a context of the proxy has its entry and a state file.                  *)
NoDanglingContext ==
    ~interfered =>
        \A n \in Names : kube.contexts[n] = "proxy" =>
            /\ kube.entries[n] # None
            /\ state[kube.entries[n].path] # None

(* add_context.go:50-78, serve.go:100-108 -- a context just added can be   *)
(* served, whatever earlier commands left behind: its certificate is that  *)
(* of the state file, and selecting from the new kubeconfig gives what     *)
(* selecting from the old one did.                                         *)
AddedContextIsServable ==
    [][\A c \in Commands :
         Doing(c, "add", "write") /\ Write(c) /\ ~interfered' =>
             LET j == job[c]
                 profile == state[kube'.entries[j.name].path]
             IN /\ profile.name = j.name /\ profile.id = kube'.entries[j.name].cert
                /\ Selects(profile.contexts, j.name, read[c]) =>
                     /\ Selects(profile.contexts, j.name, kube')
                     /\ Selected(profile.contexts, kube') = Selected(profile.contexts, read[c])
                     /\ Primary(profile.contexts, kube') = Primary(profile.contexts, read[c])]_vars

(* write.go:49-88, delete_context.go:76-119 -- a delete-context that       *)
(* finishes leaves no trace in the kubeconfig, and no state file where the *)
(* last add-context put it.                                                *)
DeleteCleansUp ==
    [][\A c \in Commands, p \in Paths :
         RemoveState(c, p) /\ todo'[c] = <<>> /\ ~interfered' =>
             LET n == job[c].name IN
             /\ kube.contexts[n] # "proxy" /\ kube.entries[n] = None
             /\ home[n] # None => state'[home[n]] = None]_vars

(* write.go:62-65 -- the user's own contexts survive all commands that     *)
(* were not asked to replace them, except a write that is cut off.         *)
UserContextsSurvive ==
    ~interfered /\ ~Torn =>
        \A n \in userContexts : kube.contexts[n] = "user"
==============================================================================
