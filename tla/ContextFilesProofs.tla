-------------------------- MODULE ContextFilesProofs --------------------------
(***************************************************************************)
(* What holds of add-context and delete-context for any contexts, any      *)
(* number of commands at once, and any selection.                          *)
(***************************************************************************)
EXTENDS ContextFiles, TLAPS

(* add_context.go:50-73, 176-189, state.go:175-206 -- a selection that     *)
(* found its contexts is also accepted when the state is saved: whatever   *)
(* options are given, an add-context that gets past its selection is not   *)
(* stopped by the validation of what it stores.                            *)
THEOREM SelectionIsValid ==
    ASSUME NEW options \in Selection, NEW config \in Config, NEW name \in Names,
           Selects(StateSelection(options), name, config)
    PROVE  IsValid(StateSelection(options))
<1> DEFINE sel == StateSelection(options)
<1>1. sel \in Selection
  BY DEF StateSelection, Selection
<1> HIDE DEF sel
<1>2. sel.names # <<>> \/ sel.hasRegexp
  <2> SUFFICES ASSUME sel.names = <<>>, ~sel.hasRegexp PROVE FALSE
    OBVIOUS
  <2>1. Listed(sel) = {} /\ Matched(sel, config) = {}
    BY DEF Listed, Matched
  <2> QED
    BY <2>1 DEF Selects, Selected, sel
<1>3. ASSUME sel.primary # None, sel.primary \notin Listed(sel)
      PROVE  sel.hasRegexp /\ sel.primary \in sel.regexp
  <2>1. sel.primary \in Selected(sel, config)
    BY <1>3 DEF Selects, Primary, sel
  <2> QED
    BY <1>3, <2>1 DEF Selected, Matched
<1> QED
  BY <1>2, <1>3 DEF IsValid, Selects, sel
------------------------------------------------------------------------------
(* The steps a command has before it.                                      *)

AddTodo ==
    {<<"select", "save", "read", "truncate", "write">>, <<"save", "read", "truncate", "write">>,
     <<"read", "truncate", "write">>, <<"truncate", "write">>, <<"write">>}
DeleteTodo ==
    {<<"read", "truncate", "write", "remove">>, <<"truncate", "write", "remove">>,
     <<"write", "remove">>, <<"remove">>}

LEMMA AddSteps ==
    ASSUME NEW t \in AddTodo
    PROVE  /\ t # <<>>
           /\ Head(t) \in {"select", "save", "read"} => Tail(t) \in AddTodo /\ Head(Tail(t)) # "write"
           /\ Head(t) = "truncate" => Tail(t) = <<"write">>
           /\ Head(t) = "write" => Tail(t) = <<>>
           /\ Head(t) \in {"select", "save", "read", "truncate", "write"}
<1>1. CASE t = <<"select", "save", "read", "truncate", "write">>
  <2>1. t # <<>> /\ Head(t) = "select" /\ Tail(t) = <<"save", "read", "truncate", "write">>
    BY <1>1
  <2>2. Head(<<"save", "read", "truncate", "write">>) = "save"
    OBVIOUS
  <2> QED
    BY <2>1, <2>2 DEF AddTodo
<1>2. CASE t = <<"save", "read", "truncate", "write">>
  <2>1. t # <<>> /\ Head(t) = "save" /\ Tail(t) = <<"read", "truncate", "write">>
    BY <1>2
  <2>2. Head(<<"read", "truncate", "write">>) = "read"
    OBVIOUS
  <2> QED
    BY <2>1, <2>2 DEF AddTodo
<1>3. CASE t = <<"read", "truncate", "write">>
  <2>1. t # <<>> /\ Head(t) = "read" /\ Tail(t) = <<"truncate", "write">>
    BY <1>3
  <2>2. Head(<<"truncate", "write">>) = "truncate"
    OBVIOUS
  <2> QED
    BY <2>1, <2>2 DEF AddTodo
<1>4. CASE t = <<"truncate", "write">>
  <2>1. t # <<>> /\ Head(t) = "truncate" /\ Tail(t) = <<"write">>
    BY <1>4
  <2>2. Head(<<"write">>) = "write"
    OBVIOUS
  <2> QED
    BY <2>1, <2>2 DEF AddTodo
<1>5. CASE t = <<"write">>
  <2>1. t # <<>> /\ Head(t) = "write" /\ Tail(t) = <<>>
    BY <1>5
  <2> QED
    BY <2>1 DEF AddTodo
<1> QED
  BY <1>1, <1>2, <1>3, <1>4, <1>5 DEF AddTodo

LEMMA DeleteSteps ==
    ASSUME NEW t \in DeleteTodo
    PROVE  /\ t # <<>>
           /\ Head(t) = "read" => Tail(t) = <<"truncate", "write", "remove">>
           /\ Head(t) = "truncate" => Tail(t) = <<"write", "remove">>
           /\ Head(t) = "write" => Tail(t) = <<"remove">>
           /\ Head(t) = "remove" => Tail(t) = <<>>
           /\ Head(t) \in {"read", "truncate", "write", "remove"}
<1>1. CASE t = <<"read", "truncate", "write", "remove">>
  <2>1. t # <<>> /\ Head(t) = "read" /\ Tail(t) = <<"truncate", "write", "remove">>
    BY <1>1
  <2>2. Head(<<"truncate", "write", "remove">>) = "truncate"
    OBVIOUS
  <2> QED
    BY <2>1, <2>2 DEF DeleteTodo
<1>2. CASE t = <<"truncate", "write", "remove">>
  <2>1. t # <<>> /\ Head(t) = "truncate" /\ Tail(t) = <<"write", "remove">>
    BY <1>2
  <2>2. Head(<<"write", "remove">>) = "write"
    OBVIOUS
  <2> QED
    BY <2>1, <2>2 DEF DeleteTodo
<1>3. CASE t = <<"write", "remove">>
  <2>1. t # <<>> /\ Head(t) = "write" /\ Tail(t) = <<"remove">>
    BY <1>3
  <2>2. Head(<<"remove">>) = "remove"
    OBVIOUS
  <2> QED
    BY <2>1, <2>2 DEF DeleteTodo
<1>4. CASE t = <<"remove">>
  <2>1. t # <<>> /\ Head(t) = "remove" /\ Tail(t) = <<>>
    BY <1>4
  <2> QED
    BY <2>1 DEF DeleteTodo
<1> QED
  BY <1>1, <1>2, <1>3, <1>4 DEF DeleteTodo
------------------------------------------------------------------------------
(* Types.                                                                  *)

JobInv ==
    \A c \in Commands : Running(c) =>
        /\ job[c] \in Job
        /\ job[c].op = "add" =>
             todo[c] \in AddTodo /\ job[c].path \in Paths /\ job[c].contexts \in Selection
        /\ job[c].op = "delete" => todo[c] \in DeleteTodo

TInv == TypeOK /\ JobInv

LEMMA TodoType == AddTodo \subseteq Seq(Step) /\ DeleteTodo \subseteq Seq(Step) /\ <<>> \in Seq(Step)
  BY DEF AddTodo, DeleteTodo, Step

LEMMA StepsType == Steps("add") \in AddTodo /\ Steps("delete") \in DeleteTodo
  BY DEF Steps, AddTodo, DeleteTodo

LEMMA EmptyType == Empty \in Config
  BY DEF Empty, Config

LEMMA SelectionType ==
    ASSUME NEW options \in Selection
    PROVE  StateSelection(options) \in Selection
  BY DEF StateSelection, Selection

LEMMA WithContextType ==
    ASSUME NEW config \in Config, NEW j \in Job, j.path \in Paths
    PROVE  WithContext(config, j) \in Config
<1>1. [path |-> j.path, cert |-> j.id] \in Entry /\ j.name \in Names
  BY DEF Job, Entry
<1>2. /\ [config.entries EXCEPT ![j.name] = [path |-> j.path, cert |-> j.id]] \in [Names -> Entry \cup {None}]
      /\ [config.contexts EXCEPT ![j.name] = "proxy"] \in [Names -> {"none", "user", "proxy"}]
  BY <1>1 DEF Config
<1> QED
  BY <1>2 DEF WithContext, Config

LEMMA WithoutContextType ==
    ASSUME NEW config \in Config, NEW n \in Names
    PROVE  WithoutContext(config, n) \in Config
<1>1. /\ [config.entries EXCEPT ![n] = None] \in [Names -> Entry \cup {None}]
      /\ [config.contexts EXCEPT ![n] = "none"] \in [Names -> {"none", "user", "proxy"}]
  BY DEF Config
<1> QED
  BY <1>1 DEF WithoutContext, Config

(* A command that proceeds with what is left of its steps keeps its types. *)
CommandTypeOK ==
    /\ job \in [Commands -> Job \cup {None}] /\ todo \in [Commands -> Seq(Step)]
    /\ read \in [Commands -> Config] /\ statePaths \in [Commands -> SUBSET Paths]

LEMMA ProceedsType ==
    ASSUME TInv, NEW c \in Commands, Running(c), NEW left \in Seq(Step), Proceeds(c, left),
           left = <<>> \/ (job[c].op = "add" /\ left \in AddTodo)
                       \/ (job[c].op = "delete" /\ left \in DeleteTodo)
    PROVE  CommandTypeOK' /\ JobInv'
<1> USE DEF TInv, TypeOK, CommandTypeOK, JobInv, Running
<1>1. todo' = [todo EXCEPT ![c] = left]
  BY DEF Proceeds
<1>2. CASE left = <<>>
  <2>1. /\ job' = [job EXCEPT ![c] = None] /\ read' = [read EXCEPT ![c] = Empty]
        /\ statePaths' = [statePaths EXCEPT ![c] = {}]
    BY <1>2 DEF Proceeds
  <2> QED
    BY <1>1, <1>2, <2>1, EmptyType
<1>3. CASE left # <<>>
  <2>1. UNCHANGED <<job, read, statePaths>>
    BY <1>3 DEF Proceeds
  <2>2. job[c].op = "add" => job[c].op # "delete"
    OBVIOUS
  <2> QED
    BY <1>1, <1>3, <2>1, <2>2
<1> QED
  BY <1>2, <1>3

LEMMA ConstantTypes ==
    /\ MaxStarts \in Nat /\ MaxEdits \in Nat
    /\ ProxyNames \subseteq Names /\ Options \subseteq Selection /\ Sources \subseteq Config
    /\ None \notin Paths /\ None \notin Entry /\ None \notin Profile
    /\ Names \subseteq Paths /\ 0 \in Paths
  BY FilesAssumption DEF Paths

LEMMA InitTInv == Init => TInv
<1> SUFFICES ASSUME Init PROVE TInv
  OBVIOUS
<1>1. JobInv
  BY DEF Init, JobInv, Running
<1>2. starts \in 0..MaxStarts /\ edits \in 0..MaxEdits /\ kube \in Config
  BY ConstantTypes DEF Init
<1>3. CommandTypeOK
  BY EmptyType, TodoType DEF Init, CommandTypeOK
<1> QED
  BY <1>1, <1>2, <1>3 DEF Init, TInv, TypeOK, CommandTypeOK

(* The variables other than those of the commands.                         *)
RestTypeOK ==
    /\ kube \in Config /\ state \in [Paths -> Profile \cup {None}]
    /\ starts \in 0..MaxStarts /\ edits \in 0..MaxEdits
    /\ interfered \in BOOLEAN /\ home \in [Names -> Paths \cup {None}] /\ userContexts \subseteq Names

LEMMA StartType ==
    ASSUME TInv, NEW c \in Commands, NEW n \in ProxyNames,
           \/ \E p \in Paths, options \in Options : StartAdd(c, n, p, options)
           \/ \E p \in Paths \cup {None} : StartDelete(c, n, p)
    PROVE  TInv'
<1> USE ConstantTypes DEF TInv, TypeOK, JobInv, Running
<1>1. ASSUME NEW j \in Job, NEW t \in Seq(Step), starts < MaxStarts,
             starts' = starts + 1, job' = [job EXCEPT ![c] = j], todo' = [todo EXCEPT ![c] = t],
             \/ /\ j.op = "add" /\ t \in AddTodo /\ j.path \in Paths /\ j.contexts \in Selection
             \/ /\ j.op = "delete" /\ t \in DeleteTodo
      PROVE  starts' \in 0..MaxStarts /\ job' \in [Commands -> Job \cup {None}]
               /\ todo' \in [Commands -> Seq(Step)] /\ JobInv'
  <2>1. starts' \in 0..MaxStarts
    BY <1>1
  <2>2. job' \in [Commands -> Job \cup {None}] /\ todo' \in [Commands -> Seq(Step)]
    BY <1>1
  <2>3. JobInv'
    BY <1>1
  <2> QED
    BY <2>1, <2>2, <2>3
<1>2. starts < MaxStarts => starts + 1 \in 1..MaxStarts
  OBVIOUS
<1>3. ASSUME NEW p \in Paths, NEW options \in Options, StartAdd(c, n, p, options) PROVE TInv'
  <2> DEFINE j == [op |-> "add", name |-> n, path |-> p,
                   contexts |-> StateSelection(options), id |-> starts + 1]
  <2>1. j \in Job /\ j.op = "add" /\ j.path \in Paths /\ j.contexts \in Selection
    BY <1>2, <1>3, SelectionType DEF StartAdd, Job
  <2>2. job' = [job EXCEPT ![c] = j] /\ todo' = [todo EXCEPT ![c] = Steps("add")]
          /\ starts < MaxStarts /\ starts' = starts + 1
    BY <1>3 DEF StartAdd
  <2> HIDE DEF j
  <2>3. starts' \in 0..MaxStarts /\ job' \in [Commands -> Job \cup {None}]
               /\ todo' \in [Commands -> Seq(Step)] /\ JobInv'
    BY <1>1, <2>1, <2>2, StepsType, TodoType
  <2>4. statePaths' \in [Commands -> SUBSET Paths] /\ userContexts' \subseteq Names
          /\ UNCHANGED <<kube, state, read, edits, interfered, home>>
    BY <1>3 DEF StartAdd, fileVars
  <2> QED
    BY <2>3, <2>4
<1>4. ASSUME NEW p \in Paths \cup {None}, StartDelete(c, n, p) PROVE TInv'
  <2> DEFINE j == [op |-> "delete", name |-> n, path |-> p, contexts |-> None, id |-> starts + 1]
  <2>1. j \in Job /\ j.op = "delete"
    BY <1>2, <1>4 DEF StartDelete, Job
  <2>2. job' = [job EXCEPT ![c] = j] /\ todo' = [todo EXCEPT ![c] = Steps("delete")]
          /\ starts < MaxStarts /\ starts' = starts + 1
    BY <1>4 DEF StartDelete
  <2> HIDE DEF j
  <2>3. starts' \in 0..MaxStarts /\ job' \in [Commands -> Job \cup {None}]
               /\ todo' \in [Commands -> Seq(Step)] /\ JobInv'
    BY <1>1, <2>1, <2>2, StepsType, TodoType
  <2>4. UNCHANGED <<kube, state, read, statePaths, edits, interfered, home, userContexts>>
    BY <1>4 DEF StartDelete, fileVars, historyVars
  <2> QED
    BY <2>3, <2>4
<1> QED
  BY <1>3, <1>4

(* What is left of a command's steps after the one it does.                *)
LEMMA TailType ==
    ASSUME TInv, NEW c \in Commands, Running(c)
    PROVE  /\ job[c] \in Job /\ job[c].name \in Names
           /\ Tail(todo[c]) \in Seq(Step)
           /\ \/ Tail(todo[c]) = <<>>
              \/ job[c].op = "add" /\ Tail(todo[c]) \in AddTodo
              \/ job[c].op = "delete" /\ Tail(todo[c]) \in DeleteTodo
           /\ Head(todo[c]) \in {"select", "save"} => job[c].op = "add"
           /\ Head(todo[c]) = "write" => (job[c].op = "add" => job[c].path \in Paths)
<1>1. job[c] \in Job /\ job[c].name \in Names /\ job[c].op \in {"add", "delete"}
  BY DEF TInv, JobInv, Job
<1>2. CASE job[c].op = "add"
  <2>1. todo[c] \in AddTodo /\ job[c].path \in Paths
    BY <1>2 DEF TInv, JobInv
  <2>2. Tail(todo[c]) = <<>> \/ Tail(todo[c]) \in AddTodo
    <3>1. <<"write">> \in AddTodo
      BY DEF AddTodo
    <3> QED
      BY <2>1, <3>1, AddSteps
  <2> QED
    BY <1>1, <1>2, <2>1, <2>2, TodoType
<1>3. CASE job[c].op = "delete"
  <2>1. todo[c] \in DeleteTodo
    BY <1>3 DEF TInv, JobInv
  <2>2. (Tail(todo[c]) = <<>> \/ Tail(todo[c]) \in DeleteTodo) /\ Head(todo[c]) \notin {"select", "save"}
    <3>1. /\ <<"truncate", "write", "remove">> \in DeleteTodo
          /\ <<"write", "remove">> \in DeleteTodo /\ <<"remove">> \in DeleteTodo
      BY DEF DeleteTodo
    <3> QED
      BY <2>1, <3>1, DeleteSteps
  <2> QED
    BY <1>1, <1>3, <2>1, <2>2, TodoType
<1> QED
  BY <1>1, <1>2, <1>3

(* A command proceeds with its next step or ends, and nothing else of the  *)
(* commands changes.                                                       *)
LEMMA NextStepType ==
    ASSUME TInv, NEW c \in Commands, Running(c),
           Proceeds(c, Tail(todo[c])) \/ Proceeds(c, <<>>), RestTypeOK'
    PROVE  TInv'
<1>1. CommandTypeOK' /\ JobInv'
  BY TailType, TodoType, ProceedsType
<1> QED
  BY <1>1 DEF TInv, TypeOK, CommandTypeOK, RestTypeOK

(* The same of a step after which some are left.                           *)
LEMMA TailStepType ==
    ASSUME TInv, NEW c \in Commands, Running(c),
           NEW left \in Seq(Step), todo' = [todo EXCEPT ![c] = left], UNCHANGED job,
           (job[c].op = "add" /\ left \in AddTodo) \/ (job[c].op = "delete" /\ left \in DeleteTodo),
           read' \in [Commands -> Config], statePaths' \in [Commands -> SUBSET Paths], RestTypeOK'
    PROVE  TInv'
<1>1. CommandTypeOK'
  BY DEF TInv, TypeOK, CommandTypeOK
<1>2. JobInv'
  BY DEF TInv, TypeOK, JobInv, Running
<1> QED
  BY <1>1, <1>2 DEF TInv, TypeOK, CommandTypeOK, RestTypeOK

LEMMA PathsOfType ==
    ASSUME TInv, NEW c \in Commands, Running(c)
    PROVE  PathsOf(c) \subseteq Paths
<1>1. job[c].name \in Names /\ job[c].path \in Paths \cup {None}
  BY TailType DEF Job
<1>2. kube.entries[job[c].name] \in Entry \cup {None}
  BY <1>1 DEF TInv, TypeOK, Config
<1> QED
  BY <1>1, <1>2, ConstantTypes DEF PathsOf, Entry

LEMMA StepTInv == TInv /\ [Next]_vars => TInv'
<1> SUFFICES ASSUME TInv, [Next]_vars PROVE TInv'
  OBVIOUS
<1> USE DEF fileVars, commandVars, historyVars, Doing
<1>0. RestTypeOK
  BY DEF TInv, TypeOK, RestTypeOK
<1>1. ASSUME NEW c \in Commands, Select(c) PROVE TInv'
  <2>1. RestTypeOK'
    BY <1>0, <1>1 DEF Select, RestTypeOK
  <2> QED
    BY <1>1, <2>1, NextStepType DEF Select
<1>2. ASSUME NEW c \in Commands, SaveState(c) PROVE TInv'
  <2> DEFINE profile == [id |-> job[c].id, name |-> job[c].name, contexts |-> job[c].contexts]
  <2>1. profile \in Profile /\ Running(c)
    BY <1>2, TailType DEF SaveState, TInv, JobInv, Job, Profile
  <2>2. state' = [state EXCEPT ![job[c].path] = profile] \/ state' = state
    BY <1>2 DEF SaveState
  <2> HIDE DEF profile
  <2>3. RestTypeOK'
    BY <1>0, <1>2, <2>1, <2>2 DEF SaveState, RestTypeOK, Disturbs
  <2> QED
    BY <1>2, <2>1, <2>3, NextStepType DEF SaveState
<1>3. ASSUME NEW c \in Commands, ReadForAdd(c) PROVE TInv'
  <2>1. RestTypeOK' /\ read' \in [Commands -> Config] /\ Running(c) /\ UNCHANGED <<job, statePaths>>
          /\ todo' = [todo EXCEPT ![c] = Tail(todo[c])]
    BY <1>0, <1>3 DEF ReadForAdd, RestTypeOK, TInv, TypeOK
  <2>2. job[c].op = "add" /\ Tail(todo[c]) \in AddTodo /\ Tail(todo[c]) \in Seq(Step)
    BY <1>3, AddSteps, TodoType DEF ReadForAdd, TInv, JobInv
  <2> QED
    BY <2>1, <2>2, TailStepType DEF TInv, TypeOK
<1>4. ASSUME NEW c \in Commands, ReadForDelete(c) PROVE TInv'
  <2>1. RestTypeOK'
    BY <1>0, <1>4 DEF ReadForDelete, RestTypeOK, Torn
  <2>2. CASE Proceeds(c, <<>>)
    BY <1>4, <2>1, <2>2, NextStepType DEF ReadForDelete
  <2>3. CASE ~Refuses(c)
    <3>1. /\ read' \in [Commands -> Config] /\ statePaths' \in [Commands -> SUBSET Paths]
          /\ Running(c) /\ UNCHANGED job /\ job[c].op = "delete"
      BY <1>4, <2>3, PathsOfType DEF ReadForDelete, TInv, TypeOK
    <3>2. PICK left \in {<<"remove">>, Tail(todo[c])} : todo' = [todo EXCEPT ![c] = left]
      BY <1>4, <2>3 DEF ReadForDelete
    <3>3. left \in DeleteTodo
      <4>1. todo[c] \in DeleteTodo /\ Head(todo[c]) = "read"
        BY <1>4 DEF ReadForDelete, TInv, JobInv
      <4>2. Tail(todo[c]) = <<"truncate", "write", "remove">>
        BY <4>1, DeleteSteps
      <4> QED
        BY <4>2 DEF DeleteTodo
    <3> QED
      BY <2>1, <3>1, <3>2, <3>3, TodoType, TailStepType
  <2> QED
    BY <1>4, <2>2, <2>3 DEF ReadForDelete
<1>5. ASSUME NEW c \in Commands, Truncate(c) PROVE TInv'
  <2>1. RestTypeOK' /\ Running(c) /\ UNCHANGED <<job, read, statePaths>>
          /\ todo' = [todo EXCEPT ![c] = Tail(todo[c])]
    BY <1>0, <1>5, EmptyType DEF Truncate, RestTypeOK
  <2>2. Tail(todo[c]) # <<>>
    <3>1. job[c].op \in {"add", "delete"} /\ Head(todo[c]) = "truncate"
      BY <1>5, <2>1, TailType DEF Truncate, Job
    <3>2. <<"write">> # <<>> /\ <<"write", "remove">> # <<>>
      OBVIOUS
    <3> QED
      BY <2>1, <3>1, <3>2, AddSteps, DeleteSteps DEF TInv, JobInv
  <2> QED
    BY <2>1, <2>2, TailType, TailStepType DEF TInv, TypeOK
<1>6. ASSUME NEW c \in Commands, Write(c) PROVE TInv'
  <2>1. Running(c) /\ job[c] \in Job /\ job[c].name \in Names /\ read[c] \in Config
          /\ (job[c].op = "add" => job[c].path \in Paths)
    BY <1>6, TailType DEF Write, TInv, TypeOK
  <2>2. kube' \in Config
    BY <1>6, <2>1, WithContextType, WithoutContextType DEF Write
  <2>3. home' \in [Names -> Paths \cup {None}]
    BY <1>0, <1>6, <2>1 DEF Write, RestTypeOK
  <2>4. RestTypeOK'
    BY <1>0, <1>6, <2>2, <2>3 DEF Write, RestTypeOK
  <2> QED
    BY <1>6, <2>1, <2>4, NextStepType DEF Write
<1>7. ASSUME NEW c \in Commands, NEW p \in Paths, RemoveState(c, p) PROVE TInv'
  <2>1. RestTypeOK' /\ Running(c)
    <3>1. home' = [home EXCEPT ![job[c].name] = None] \/ home' = home
      BY <1>7 DEF RemoveState
    <3> QED
      BY <1>0, <1>7, <3>1 DEF RemoveState, RestTypeOK, Disturbs
  <2>2. CASE Proceeds(c, Tail(todo[c]))
    BY <2>1, <2>2, NextStepType
  <2>3. CASE statePaths' = [statePaths EXCEPT ![c] = @ \ {p}] /\ UNCHANGED <<job, todo, read>>
    <3>1. statePaths' \in [Commands -> SUBSET Paths]
      BY <2>3 DEF TInv, TypeOK
    <3> QED
      BY <2>1, <2>3, <3>1 DEF TInv, TypeOK, JobInv, Running, RestTypeOK
  <2> QED
    BY <1>7, <2>2, <2>3 DEF RemoveState
<1>8. ASSUME NEW c \in Commands, StopEarly(c) PROVE TInv'
  <2>1. home' \in [Names -> Paths \cup {None}] /\ userContexts' \subseteq Names
    BY <1>0, <1>8 DEF StopEarly, RestTypeOK
  <2>2. RestTypeOK'
    BY <1>0, <1>8, <2>1 DEF StopEarly, RestTypeOK
  <2> QED
    BY <1>8, <2>2, NextStepType DEF StopEarly
<1>9. ASSUME NEW n \in Names, UseContext(n) \/ DropContext(n) PROVE TInv'
  <2>1. edits' \in 0..MaxEdits
    BY <1>9, ConstantTypes DEF UseContext, DropContext, TInv, TypeOK
  <2>2. kube' \in Config
    <3>1. kube \in Config
      BY DEF TInv, TypeOK
    <3>2. CASE kube' = [kube EXCEPT !.current = n]
      BY <3>1, <3>2 DEF Config
    <3>3. CASE kube' = [kube EXCEPT !.contexts[n] = "none"]
      <4>1. [kube.contexts EXCEPT ![n] = "none"] \in [Names -> {"none", "user", "proxy"}]
        BY <3>1 DEF Config
      <4> QED
        BY <3>1, <3>3, <4>1 DEF Config
    <3> QED
      BY <1>9, <3>2, <3>3 DEF UseContext, DropContext
  <2> QED
    BY <1>9, <2>1, <2>2 DEF UseContext, DropContext, TInv, TypeOK, JobInv, Running
<1>10. CASE UNCHANGED vars
  BY <1>10 DEF vars, TInv, TypeOK, JobInv, Running
<1> QED
  BY <1>1, <1>2, <1>3, <1>4, <1>5, <1>6, <1>7, <1>8, <1>9, <1>10, StartType DEF Next

(* Every variable keeps its type: in particular a context that is written  *)
(* to the kubeconfig always has a path, and a stored profile a selection.  *)
THEOREM TypeCorrect == Spec => []TypeOK
  BY InitTInv, StepTInv, PTL DEF Spec, TInv
------------------------------------------------------------------------------
(* The user's contexts survive.  While nothing has interfered, they are in *)
(* the kubeconfig or in what some command has read and is about to write:  *)
(* a truncated file that another command reads and writes back must first  *)
(* be written over, and that interferes.                                   *)

Holds(config) == \A n \in userContexts : config.contexts[n] = "user"
Writing(c) == Running(c) /\ Head(todo[c]) = "write"

KeptSomewhere ==
    ~interfered => Holds(kube) \/ \E d \in Commands : Writing(d) /\ Holds(read[d])

(* Nobody is about to replace or remove one of them.                       *)
NamedApart ==
    ~interfered => \A c \in Commands :
        Running(c) /\ (job[c].op = "add" \/ Head(todo[c]) # "read") => job[c].name \notin userContexts

UInv == TInv /\ KeptSomewhere /\ NamedApart

LEMMA InitUInv == Init => UInv
  BY InitTInv DEF Init, UInv, KeptSomewhere, NamedApart, Holds, Running

(* A command that does not write proceeds, or ends, and the kubeconfig and *)
(* what the others have read stay.                                         *)
LEMMA OneMovesOn ==
    ASSUME UInv, NEW c \in Commands, ~Writing(c),
           NEW left \in Seq(Step), todo' = [todo EXCEPT ![c] = left],
           job' = [job EXCEPT ![c] = job'[c]], read' = [read EXCEPT ![c] = read'[c]],
           UNCHANGED <<kube, userContexts>>, interfered => interfered',
           ~interfered' /\ left # <<>> => job'[c].name \notin userContexts
    PROVE  KeptSomewhere' /\ NamedApart'
<1> USE DEF UInv, TInv, TypeOK
<1>1. \A d \in Commands \ {c} : todo'[d] = todo[d] /\ job'[d] = job[d] /\ read'[d] = read[d]
  OBVIOUS
<1>2. KeptSomewhere'
  <2> SUFFICES ASSUME ~interfered', ~Holds(kube)
               PROVE  \E d \in Commands : Writing(d)' /\ Holds(read[d])'
    BY DEF KeptSomewhere, Holds
  <2>1. PICK d \in Commands : Writing(d) /\ Holds(read[d])
    BY DEF KeptSomewhere
  <2>2. d # c
    BY <2>1
  <2>3. todo'[d] = todo[d] /\ read'[d] = read[d]
    BY <1>1, <2>2
  <2>4. Writing(d)'
    BY <2>1, <2>3 DEF Writing, Running
  <2>5. Holds(read[d])'
    BY <2>1, <2>3 DEF Holds
  <2> QED
    BY <2>4, <2>5
<1>3. NamedApart'
  <2> SUFFICES ASSUME ~interfered', NEW d \in Commands, Running(d)',
                      (job[d].op = "add" \/ Head(todo[d]) # "read")'
               PROVE  job'[d].name \notin userContexts
    BY DEF NamedApart
  <2>1. CASE d = c
    <3>1. todo'[c] = left /\ todo'[c] # <<>>
      BY <2>1 DEF Running
    <3> QED
      BY <2>1, <3>1
  <2>2. CASE d # c
    BY <1>1, <2>2 DEF NamedApart, Running
  <2> QED
    BY <2>1, <2>2
<1> QED
  BY <1>2, <1>3

LEMMA StepUser == UInv /\ [Next]_vars => KeptSomewhere' /\ NamedApart'
<1> SUFFICES ASSUME UInv, [Next]_vars PROVE KeptSomewhere' /\ NamedApart'
  OBVIOUS
<1> USE DEF fileVars, commandVars, historyVars, Doing
<1>0. TInv /\ TypeOK
  BY DEF UInv, TInv
(* What Proceeds leaves of a command that does not write.                  *)
<1>1. ASSUME NEW c \in Commands, Running(c), ~Writing(c),
             Proceeds(c, Tail(todo[c])) \/ Proceeds(c, <<>>),
             UNCHANGED <<kube, userContexts>>, interfered => interfered',
             job[c].op = "add" \/ Head(todo[c]) # "read"
      PROVE  KeptSomewhere' /\ NamedApart'
  <2>1. PICK left \in {Tail(todo[c]), <<>>} : Proceeds(c, left)
    BY <1>1
  <2>2. left \in Seq(Step) /\ todo' = [todo EXCEPT ![c] = left]
    BY <1>0, <1>1, <2>1, TailType, TodoType DEF Proceeds
  <2>3. /\ job' = [job EXCEPT ![c] = job'[c]] /\ read' = [read EXCEPT ![c] = read'[c]]
        /\ left # <<>> => job' = job
    BY <1>0, <2>1 DEF Proceeds, TypeOK
  <2>4. ~interfered' => job[c].name \notin userContexts
    BY <1>1 DEF UInv, NamedApart
  <2> QED
    BY <1>1, <2>2, <2>3, <2>4, OneMovesOn
<1>2. ASSUME NEW c \in Commands, NEW n \in ProxyNames, NEW p \in Paths, NEW options \in Options,
             StartAdd(c, n, p, options)
      PROVE  KeptSomewhere' /\ NamedApart'
  <2> DEFINE j == [op |-> "add", name |-> n, path |-> p,
                   contexts |-> StateSelection(options), id |-> starts + 1]
  <2>1. /\ job' = [job EXCEPT ![c] = j] /\ todo' = [todo EXCEPT ![c] = Steps("add")]
        /\ ~Running(c) /\ j.name = n /\ userContexts' = userContexts \ {n}
        /\ UNCHANGED <<kube, read, interfered>>
    BY <1>2 DEF StartAdd
  <2> HIDE DEF j
  <2>2. \A d \in Commands \ {c} : todo'[d] = todo[d] /\ job'[d] = job[d] /\ read'[d] = read[d]
    BY <1>0, <2>1 DEF TypeOK
  <2>3. KeptSomewhere'
    <3>1. \A d \in Commands : Writing(d) => Writing(d)'
      BY <2>1, <2>2 DEF Writing, Running
    <3> QED
      BY <2>1, <3>1 DEF UInv, KeptSomewhere, Holds
  <2>4. NamedApart'
    <3>1. job'[c].name \notin userContexts'
      BY <1>0, <2>1 DEF TypeOK
    <3> QED
      BY <2>1, <2>2, <3>1 DEF UInv, NamedApart, Running
  <2> QED
    BY <2>3, <2>4
<1>3. ASSUME NEW c \in Commands, NEW n \in ProxyNames, NEW p \in Paths \cup {None}, StartDelete(c, n, p)
      PROVE  KeptSomewhere' /\ NamedApart'
  <2> DEFINE j == [op |-> "delete", name |-> n, path |-> p, contexts |-> None, id |-> starts + 1]
  <2>1. /\ job' = [job EXCEPT ![c] = j] /\ todo' = [todo EXCEPT ![c] = Steps("delete")]
        /\ ~Running(c) /\ j.op = "delete" /\ UNCHANGED <<kube, read, interfered, userContexts>>
    BY <1>3 DEF StartDelete
  <2> HIDE DEF j
  <2>2. \A d \in Commands \ {c} : todo'[d] = todo[d] /\ job'[d] = job[d] /\ read'[d] = read[d]
    BY <1>0, <2>1 DEF TypeOK
  <2>3. KeptSomewhere'
    <3>1. \A d \in Commands : Writing(d) => Writing(d)'
      BY <2>1, <2>2 DEF Writing, Running
    <3> QED
      BY <2>1, <3>1 DEF UInv, KeptSomewhere, Holds
  <2>4. NamedApart'
    <3>1. job'[c].op = "delete" /\ Head(todo'[c]) = "read"
      BY <1>0, <2>1 DEF TypeOK, Steps
    <3> QED
      BY <2>1, <2>2, <3>1 DEF UInv, NamedApart, Running
  <2> QED
    BY <2>3, <2>4
<1>4. ASSUME NEW c \in Commands, Select(c) \/ SaveState(c) PROVE KeptSomewhere' /\ NamedApart'
  <2>1. /\ Running(c) /\ job[c].op = "add" /\ Head(todo[c]) \in {"select", "save"}
        /\ UNCHANGED <<kube, userContexts>>
    BY <1>4 DEF Select, SaveState
  <2>2. Proceeds(c, Tail(todo[c])) \/ Proceeds(c, <<>>)
    BY <1>4 DEF Select, SaveState
  <2>3. interfered => interfered'
    <3>1. CASE Select(c)
      BY <3>1 DEF Select
    <3>2. CASE SaveState(c)
      <4>1. interfered' = interfered \/ interfered' = (interfered \/ Disturbs(c, job[c].path))
        BY <3>2 DEF SaveState
      <4> QED
        BY <4>1
    <3> QED
      BY <1>4, <3>1, <3>2
  <2>4. ~Writing(c)
    BY <2>1 DEF Writing
  <2> QED
    BY <1>1, <2>1, <2>2, <2>3, <2>4
<1>5. ASSUME NEW c \in Commands, ReadForAdd(c) PROVE KeptSomewhere' /\ NamedApart'
  <2>1. /\ todo' = [todo EXCEPT ![c] = Tail(todo[c])] /\ read' = [read EXCEPT ![c] = kube]
        /\ Running(c) /\ ~Writing(c) /\ job[c].op = "add"
        /\ UNCHANGED <<kube, job, interfered, userContexts>>
    BY <1>0, <1>5 DEF ReadForAdd, Writing, TypeOK
  <2>2. /\ job' = [job EXCEPT ![c] = job'[c]] /\ read' = [read EXCEPT ![c] = read'[c]]
        /\ Tail(todo[c]) \in Seq(Step)
        /\ ~interfered' => job'[c].name \notin userContexts
    BY <1>0, <2>1, TailType DEF TypeOK, UInv, NamedApart
  <2> QED
    BY <2>1, <2>2, OneMovesOn
<1>6. ASSUME NEW c \in Commands, ReadForDelete(c) PROVE KeptSomewhere' /\ NamedApart'
  <2>1. Running(c) /\ ~Writing(c) /\ job[c].op = "delete" /\ UNCHANGED <<kube, userContexts>>
          /\ (interfered => interfered') /\ job[c].name \in Names
    BY <1>0, <1>6, TailType DEF ReadForDelete, Writing
  <2>2. CASE Proceeds(c, <<>>)
    <3>1. /\ todo' = [todo EXCEPT ![c] = <<>>]
          /\ job' = [job EXCEPT ![c] = job'[c]] /\ read' = [read EXCEPT ![c] = read'[c]]
      BY <1>0, <2>2 DEF Proceeds, TypeOK
    <3> QED
      BY <2>1, <3>1, TodoType, OneMovesOn
  <2>3. CASE ~Refuses(c)
    <3>1. PICK left \in {<<"remove">>, Tail(todo[c])} : todo' = [todo EXCEPT ![c] = left]
      BY <1>6, <2>3 DEF ReadForDelete
    <3>2. left \in Seq(Step)
      BY <1>0, <2>1, TailType, TodoType DEF DeleteTodo
    <3>3. /\ job' = [job EXCEPT ![c] = job'[c]] /\ job' = job
          /\ read' = [read EXCEPT ![c] = read'[c]]
          /\ ~interfered' => ~interfered /\ ~Torn
      BY <1>0, <1>6, <2>3 DEF ReadForDelete, TypeOK
    <3>4. ~interfered' => job[c].name \notin userContexts
      BY <2>1, <2>3, <3>3 DEF Refuses, Torn, UInv, KeptSomewhere, Holds, Writing
    <3> QED
      BY <2>1, <3>1, <3>2, <3>3, <3>4, OneMovesOn
  <2> QED
    BY <1>6, <2>2, <2>3 DEF ReadForDelete
(* What is written back is what was on disk.                               *)
<1>7. ASSUME NEW c \in Commands, Truncate(c) PROVE KeptSomewhere' /\ NamedApart'
  <2>1. /\ todo' = [todo EXCEPT ![c] = Tail(todo[c])] /\ Running(c) /\ Head(todo[c]) = "truncate"
        /\ UNCHANGED <<job, read, userContexts>>
        /\ ~interfered' => ~interfered /\ kube = read[c]
    BY <1>7 DEF Truncate
  <2>2. Writing(c)' /\ ~Writing(c)
    <3>1. todo[c] \in AddTodo \/ todo[c] \in DeleteTodo
      BY <1>0, <2>1, TailType DEF TInv, JobInv, Job
    <3>2. Tail(todo[c]) \in {<<"write">>, <<"write", "remove">>}
      BY <2>1, <3>1, AddSteps, DeleteSteps
    <3>3. todo'[c] = Tail(todo[c])
      BY <1>0, <2>1 DEF TypeOK
    <3>4. todo'[c] # <<>> /\ Head(todo'[c]) = "write"
      <4>1. \A left \in {<<"write">>, <<"write", "remove">>} : left # <<>> /\ Head(left) = "write"
        OBVIOUS
      <4> QED
        BY <3>2, <3>3, <4>1
    <3>5. Head(todo[c]) # "write"
      BY <2>1
    <3> QED
      BY <3>4, <3>5 DEF Writing, Running
  <2>3. \A d \in Commands \ {c} : todo'[d] = todo[d]
    BY <1>0, <2>1 DEF TypeOK
  <2>4. KeptSomewhere'
    <3> SUFFICES ASSUME ~interfered' PROVE \E d \in Commands : Writing(d)' /\ Holds(read[d])'
      BY DEF KeptSomewhere
    <3>1. CASE Holds(kube)
      BY <2>1, <2>2, <3>1 DEF Holds
    <3>2. ASSUME NEW d \in Commands, Writing(d), Holds(read[d])
          PROVE  Writing(d)' /\ Holds(read[d])'
      BY <2>1, <2>2, <2>3, <3>2 DEF Writing, Running, Holds
    <3> QED
      BY <2>1, <3>1, <3>2 DEF UInv, KeptSomewhere
  <2>5. NamedApart'
    BY <2>1, <2>3 DEF UInv, NamedApart, Running
  <2> QED
    BY <2>4, <2>5
(* A file still empty is written over; the command that writes may be the  *)
(* one that holds the user's contexts, or another.                         *)
<1>8. ASSUME NEW c \in Commands, Write(c) PROVE KeptSomewhere' /\ NamedApart'
  <2> DEFINE j == job[c]
  <2>1. /\ Running(c) /\ Writing(c) /\ Proceeds(c, Tail(todo[c])) /\ UNCHANGED userContexts
        /\ kube' = IF j.op = "add" THEN WithContext(read[c], j) ELSE WithoutContext(read[c], j.name)
        /\ ~interfered' => ~interfered /\ kube = Empty
    BY <1>8 DEF Write, Writing
  <2>2. j \in Job /\ j.name \in Names /\ read[c] \in Config
    BY <1>0, <2>1, TailType DEF TypeOK
  <2>3. ASSUME Holds(read[c]), j.name \notin userContexts PROVE Holds(kube)'
    <3>1. \A n \in Names \ {j.name} : kube'.contexts[n] = read[c].contexts[n]
      BY <2>1, <2>2 DEF WithContext, WithoutContext, Config
    <3> QED
      BY <1>0, <2>1, <2>3, <3>1 DEF Holds, TypeOK
  <2>4. /\ todo' = [todo EXCEPT ![c] = Tail(todo[c])]
        /\ job' = [job EXCEPT ![c] = job'[c]] /\ read' = [read EXCEPT ![c] = read'[c]]
        /\ Tail(todo[c]) # <<>> => job' = job
    BY <1>0, <2>1 DEF Proceeds, TypeOK
  <2>5. \A d \in Commands \ {c} : todo'[d] = todo[d] /\ job'[d] = job[d] /\ read'[d] = read[d]
    BY <1>0, <2>4 DEF TypeOK
  <2>6. ~interfered => j.name \notin userContexts
    BY <2>1 DEF UInv, NamedApart, Writing
  <2>7. KeptSomewhere'
    <3> SUFFICES ASSUME ~interfered'
                 PROVE  Holds(kube)' \/ \E d \in Commands : Writing(d)' /\ Holds(read[d])'
      BY DEF KeptSomewhere
    <3>1. CASE userContexts = {}
      BY <2>1, <3>1 DEF Holds
    <3>2. CASE userContexts # {}
      <4>1. ~Holds(kube)
        BY <1>0, <2>1, <3>2 DEF Holds, Empty, TypeOK
      <4>2. PICK d \in Commands : Writing(d) /\ Holds(read[d])
        BY <2>1, <4>1 DEF UInv, KeptSomewhere
      <4>3. CASE d = c
        BY <2>1, <2>3, <2>6, <4>2, <4>3
      <4>4. CASE d # c
        BY <2>1, <2>5, <4>2, <4>4 DEF Writing, Running, Holds
      <4> QED
        BY <4>3, <4>4
    <3> QED
      BY <3>1, <3>2
  <2>8. NamedApart'
    <3> SUFFICES ASSUME ~interfered', NEW d \in Commands, Running(d)',
                        (job[d].op = "add" \/ Head(todo[d]) # "read")'
                 PROVE  job'[d].name \notin userContexts
      BY <2>1 DEF NamedApart
    <3>1. CASE d = c
      <4>1. todo'[c] = Tail(todo[c]) /\ todo'[c] # <<>>
        BY <1>0, <2>4, <3>1 DEF Running, TypeOK
      <4> QED
        BY <2>1, <2>4, <2>6, <3>1, <4>1
    <3>2. CASE d # c
      BY <2>1, <2>5, <3>2 DEF UInv, NamedApart, Running
    <3> QED
      BY <3>1, <3>2
  <2> QED
    BY <2>7, <2>8
<1>9. ASSUME NEW c \in Commands, NEW p \in Paths, RemoveState(c, p) PROVE KeptSomewhere' /\ NamedApart'
  <2>1. CASE Proceeds(c, Tail(todo[c]))
    BY <1>1, <1>9, <2>1 DEF RemoveState, Writing
  <2>2. CASE UNCHANGED <<job, todo, read>>
    BY <1>9, <2>2 DEF RemoveState, UInv, KeptSomewhere, NamedApart, Holds, Writing, Running
  <2> QED
    BY <1>9, <2>1, <2>2 DEF RemoveState
<1>10. ASSUME NEW c \in Commands, StopEarly(c) PROVE KeptSomewhere' /\ NamedApart'
  <2>1. CASE Head(todo[c]) = "write"
    <3>1. userContexts' = {}
      BY <1>10, <2>1 DEF StopEarly
    <3> QED
      BY <3>1 DEF KeptSomewhere, NamedApart, Holds
  <2>2. CASE Head(todo[c]) # "write"
    <3>1. /\ todo' = [todo EXCEPT ![c] = <<>>]
          /\ job' = [job EXCEPT ![c] = job'[c]] /\ read' = [read EXCEPT ![c] = read'[c]]
          /\ ~Writing(c) /\ UNCHANGED <<kube, userContexts, interfered>>
      BY <1>0, <1>10, <2>2 DEF StopEarly, Proceeds, Writing, TypeOK
    <3> QED
      BY <3>1, TodoType, OneMovesOn
  <2> QED
    BY <2>1, <2>2
<1>11. ASSUME NEW n \in Names, UseContext(n) \/ DropContext(n) PROVE KeptSomewhere' /\ NamedApart'
  <2>1. UNCHANGED <<job, todo, read, interfered>> /\ userContexts' \subseteq userContexts
    BY <1>11 DEF UseContext, DropContext
  <2>2. \A m \in userContexts' : m \in Names /\ kube'.contexts[m] = kube.contexts[m]
    <3>1. kube \in Config /\ userContexts \subseteq Names
      BY <1>0 DEF TypeOK
    <3>2. CASE UseContext(n)
      <4>1. kube'.contexts = kube.contexts
        BY <3>1, <3>2 DEF UseContext, Config
      <4> QED
        BY <2>1, <3>1, <4>1
    <3>3. CASE DropContext(n)
      <4>1. kube'.contexts = [kube.contexts EXCEPT ![n] = "none"] /\ userContexts' = userContexts \ {n}
        BY <3>1, <3>3 DEF DropContext, Config
      <4> QED
        BY <3>1, <4>1 DEF Config
    <3> QED
      BY <1>11, <3>2, <3>3
  <2> QED
    BY <2>1, <2>2 DEF UInv, KeptSomewhere, NamedApart, Holds, Writing, Running
<1>12. CASE UNCHANGED vars
  BY <1>12 DEF vars, UInv, KeptSomewhere, NamedApart, Holds, Writing, Running
<1> QED
  BY <1>2, <1>3, <1>4, <1>5, <1>6, <1>7, <1>8, <1>9, <1>10, <1>11, <1>12 DEF Next

LEMMA StepUInv == UInv /\ [Next]_vars => UInv'
  BY StepTInv, StepUser DEF UInv

(* write.go:17-98 -- commands that lose no update of another program lose  *)
(* none of the user's contexts either, for any number of commands at once: *)
(* a command that reads the file while another one has it truncated does   *)
(* not get to write what it read over what that one writes.                *)
THEOREM UserContextsKept == Spec => []UserContextsSurvive
<1>1. UInv => UserContextsSurvive
  BY DEF UInv, KeptSomewhere, UserContextsSurvive, Torn, Writing, Holds
<1> QED
  BY <1>1, InitUInv, StepUInv, PTL DEF Spec
------------------------------------------------------------------------------
(* No context dangles.  What is to be shown of the kubeconfig must hold of *)
(* what a command is about to write over it as well; it does because an    *)
(* add-context saves the state before it reads the kubeconfig, and because *)
(* a context that is being deleted is in no file by the time its state is  *)
(* removed.  Before that, from the moment delete-context reads the         *)
(* kubeconfig, the context is in at most one place: in the file, or in the *)
(* memory of the command that has truncated it.                            *)

Has(config, n) == config.contexts[n] = "proxy"

(* kubectl config delete-context leaves an entry without its context.      *)
Traces(config, n) == Has(config, n) \/ config.entries[n] # None

Stored(config) ==
    \A n \in Names : Has(config, n) =>
        /\ config.entries[n] # None
        /\ state[config.entries[n].path] # None /\ state[config.entries[n].path].name = n

(* A command that has begun to work on the files.                          *)
Late(c) ==
    /\ Running(c) /\ Head(todo[c]) \notin {"select", "save"}
    /\ job[c].op = "delete" => Head(todo[c]) # "read"

StateThere == Stored(kube) /\ \A c \in Commands : Writing(c) => Stored(read[c])

SavedFirst ==
    \A c \in Commands : Late(c) /\ job[c].op = "add" =>
        state[job[c].path] # None /\ state[job[c].path].name = job[c].name

DeletesApart ==
    \A c, d \in Commands :
        Late(c) /\ Late(d) /\ job[d].op = "delete" /\ job[c].name = job[d].name => c = d

InOnePlace(d, n) ==
    /\ Traces(kube, n) => Traces(read[d], n)
    /\ \A c \in Commands : Writing(c) /\ Traces(read[c], n) =>
         /\ Traces(read[d], n) /\ ~Traces(kube, n)
         /\ \A e \in Commands : Writing(e) /\ Traces(read[e], n) => e = c

Nowhere(d, n) ==
    ~Traces(kube, n) /\ \A c \in Commands \ {d} : Writing(c) => ~Traces(read[c], n)

DeletedIsGone ==
    \A d \in Commands : Late(d) /\ job[d].op = "delete" =>
        /\ Head(todo[d]) = "truncate" => InOnePlace(d, job[d].name)
        /\ Head(todo[d]) # "truncate" => Nowhere(d, job[d].name)

Orderly == StateThere /\ SavedFirst /\ DeletesApart /\ DeletedIsGone

DInv == TInv /\ (~interfered => Orderly)

LEMMA InitDInv == Init => DInv
<1> SUFFICES ASSUME Init PROVE DInv
  OBVIOUS
<1>1. TInv
  BY InitTInv
<1>2. \A c \in Commands : ~Running(c)
  BY DEF Init, Running
<1>3. \A n \in Names : ~Has(kube, n)
  BY FilesAssumption DEF Init, Has
<1> QED
  BY <1>1, <1>2, <1>3
  DEF DInv, Orderly, StateThere, Stored, SavedFirst, DeletesApart, DeletedIsGone, Late, Writing

(* A command that starts, that ends, or that has only selected.            *)
LEMMA NotLateAfter ==
    ASSUME Orderly, NEW c \in Commands, ~Late(c)', ~Writing(c)', UNCHANGED <<kube, state>>,
           \A d \in Commands \ {c} : todo'[d] = todo[d] /\ job'[d] = job[d] /\ read'[d] = read[d]
    PROVE  Orderly'
<1> USE DEF Orderly
<1>1. \A d \in Commands : (Late(d)' => d # c /\ Late(d)) /\ (Writing(d)' => d # c /\ Writing(d))
  BY DEF Late, Writing, Running
<1>2. StateThere'
  BY <1>1 DEF StateThere, Stored, Has
<1>3. SavedFirst' /\ DeletesApart'
  BY <1>1 DEF SavedFirst, DeletesApart
<1>4. DeletedIsGone'
  BY <1>1 DEF DeletedIsGone, InOnePlace, Nowhere, Traces, Has
<1> QED
  BY <1>2, <1>3, <1>4

(* A state file that changes under nobody's feet.                          *)
LEMMA StateChanges ==
    ASSUME TInv, Orderly, NEW c \in Commands, Running(c), ~Writing(c),
           NEW p \in Paths, ~Disturbs(c, p),
           NEW x \in Profile \cup {None}, state' = [state EXCEPT ![p] = x],
           x = None => Late(c) /\ job[c].op = "delete" /\ Head(todo[c]) = "remove",
           x # None => x.name = job[c].name,
           UNCHANGED kube,
           \A d \in Commands \ {c} : todo'[d] = todo[d] /\ job'[d] = job[d] /\ read'[d] = read[d],
           ~Writing(c)', Late(c)' /\ job'[c].op = "add" => x # None /\ job'[c] = job[c] /\ job[c].path = p
    PROVE  StateThere' /\ SavedFirst'
<1> USE DEF Orderly
<1>0. /\ state \in [Paths -> Profile \cup {None}] /\ kube \in Config /\ read \in [Commands -> Config]
      /\ None \notin Entry
  BY ConstantTypes DEF TInv, TypeOK
<1>1. \A d \in Commands : Writing(d)' => d # c /\ Writing(d)
  BY DEF Writing, Running
<1>2. ASSUME NEW config \in Config, Stored(config),
             x = None => ~Has(config, job[c].name)
      PROVE  Stored(config)'
  <2> SUFFICES ASSUME NEW n \in Names, Has(config, n)
               PROVE  /\ config.entries[n] # None
                      /\ state'[config.entries[n].path] # None /\ state'[config.entries[n].path].name = n
    BY DEF Stored, Has
  <2> DEFINE q == config.entries[n].path
  <2>1. config.entries[n] # None /\ q \in Paths /\ state[q] # None /\ state[q].name = n
    BY <1>0, <1>2 DEF Stored, Config, Entry
  <2> HIDE DEF q
  <2>2. CASE q # p
    BY <1>0, <2>1, <2>2 DEF q
  <2>3. CASE q = p
    <3>1. n = job[c].name
      BY <2>1, <2>3 DEF Disturbs
    <3>2. x # None /\ x.name = n
      BY <1>2, <3>1
    <3> QED
      BY <1>0, <2>1, <2>3, <3>2 DEF q
  <2> QED
    BY <2>2, <2>3
<1>3. x = None => ~Has(kube, job[c].name) /\ \A d \in Commands \ {c} : Writing(d) => ~Has(read[d], job[c].name)
  BY DEF DeletedIsGone, Nowhere, Traces
<1>4. StateThere'
  <2>1. Stored(kube)'
    <3>1. Stored(kube) /\ kube' = kube
      BY DEF StateThere
    <3>2. \A config \in Config : Stored(config) /\ (x = None => ~Has(config, job[c].name)) => Stored(config)'
      BY <1>2
    <3> QED
      BY <1>0, <1>3, <3>1, <3>2 DEF Stored
  <2>2. ASSUME NEW d \in Commands, Writing(d)' PROVE Stored(read[d])'
    <3>1. d # c /\ Writing(d) /\ read'[d] = read[d] /\ read[d] \in Config /\ Stored(read[d])
      BY <1>0, <1>1, <2>2 DEF StateThere
    <3>2. \A config \in Config : Stored(config) /\ (x = None => ~Has(config, job[c].name)) => Stored(config)'
      BY <1>2
    <3> QED
      BY <1>3, <3>1, <3>2 DEF Stored
  <2> QED
    BY <2>1, <2>2 DEF StateThere
<1>5. SavedFirst'
  <2> SUFFICES ASSUME NEW d \in Commands, Late(d)', job'[d].op = "add"
               PROVE  state'[job'[d].path] # None /\ state'[job'[d].path].name = job'[d].name
    BY DEF SavedFirst
  <2>1. CASE d = c
    BY <1>0, <2>1
  <2>2. CASE d # c
    <3>1. Late(d) /\ Running(d) /\ job'[d] = job[d] /\ job[d].op = "add"
      BY <2>2 DEF Late, Running
    <3>2. state[job[d].path] # None /\ state[job[d].path].name = job[d].name /\ job[d].path \in Paths
      BY <3>1 DEF SavedFirst, TInv, JobInv
    <3>3. job[d].path # p
      BY <2>2, <3>1, <3>2 DEF Disturbs, Shared
    <3> QED
      BY <1>0, <3>1, <3>2, <3>3
  <2> QED
    BY <2>1, <2>2
<1> QED
  BY <1>4, <1>5

(* What interfered once is not forgotten.                                  *)
LEMMA NeverForgotten == [Next]_vars /\ ~interfered' => ~interfered
<1> SUFFICES ASSUME [Next]_vars, ~interfered' PROVE ~interfered
  OBVIOUS
<1> USE DEF fileVars, commandVars, historyVars, Doing
<1>1. ASSUME NEW c \in Commands, NEW n \in ProxyNames, NEW p \in Paths, NEW options \in Options,
             StartAdd(c, n, p, options)
      PROVE  ~interfered
  BY <1>1 DEF StartAdd
<1>2. ASSUME NEW c \in Commands, NEW n \in ProxyNames, NEW p \in Paths \cup {None}, StartDelete(c, n, p)
      PROVE  ~interfered
  BY <1>2 DEF StartDelete
<1>3. ASSUME NEW c \in Commands, Select(c) \/ ReadForAdd(c) \/ Truncate(c) \/ Write(c) \/ StopEarly(c)
      PROVE  ~interfered
  BY <1>3 DEF Select, ReadForAdd, Truncate, Write, StopEarly
<1>4. ASSUME NEW c \in Commands, SaveState(c) PROVE ~interfered
  <2>1. interfered' = interfered \/ interfered' = (interfered \/ Disturbs(c, job[c].path))
    BY <1>4 DEF SaveState
  <2> QED
    BY <2>1
<1>5. ASSUME NEW c \in Commands, ReadForDelete(c) PROVE ~interfered
  BY <1>5 DEF ReadForDelete
<1>6. ASSUME NEW c \in Commands, NEW p \in Paths, RemoveState(c, p) PROVE ~interfered
  BY <1>6 DEF RemoveState
<1>7. ASSUME NEW n \in Names, UseContext(n) \/ DropContext(n) PROVE ~interfered
  BY <1>7 DEF UseContext, DropContext
<1>8. CASE UNCHANGED vars
  BY <1>8 DEF vars
<1> QED
  BY <1>1, <1>2, <1>3, <1>4, <1>5, <1>6, <1>7, <1>8 DEF Next

LEMMA StepOrderly ==
    ASSUME DInv, [Next]_vars, ~interfered'
    PROVE  Orderly'
<1> USE DEF fileVars, commandVars, historyVars, Doing
<1>0. TInv /\ TypeOK
  BY DEF DInv, TInv
<1>1. Orderly
  <2>1. ~interfered
    BY NeverForgotten
  <2> QED
    BY <2>1 DEF DInv
(* A step that leaves the command with nothing to do.                      *)
<1>2. ASSUME NEW c \in Commands, Running(c), Proceeds(c, <<>>), UNCHANGED <<kube, state>> PROVE Orderly'
  <2>1. /\ \A d \in Commands \ {c} : todo'[d] = todo[d] /\ job'[d] = job[d] /\ read'[d] = read[d]
        /\ todo'[c] = <<>>
    BY <1>0, <1>2 DEF Proceeds, TypeOK
  <2>2. ~Late(c)' /\ ~Writing(c)'
    BY <2>1 DEF Late, Writing, Running
  <2> QED
    BY <1>1, <1>2, <2>1, <2>2, NotLateAfter
<1>3. ASSUME NEW c \in Commands, NEW n \in ProxyNames, NEW p \in Paths, NEW options \in Options,
             StartAdd(c, n, p, options)
      PROVE  Orderly'
  <2>1. /\ \A d \in Commands \ {c} : todo'[d] = todo[d] /\ job'[d] = job[d] /\ read'[d] = read[d]
        /\ todo'[c] = Steps("add") /\ UNCHANGED <<kube, state>>
    BY <1>0, <1>3 DEF StartAdd, TypeOK
  <2>2. Head(todo'[c]) = "select"
    BY <2>1 DEF Steps
  <2> QED
    BY <1>1, <2>1, <2>2, NotLateAfter DEF Late, Writing
<1>4. ASSUME NEW c \in Commands, NEW n \in ProxyNames, NEW p \in Paths \cup {None}, StartDelete(c, n, p)
      PROVE  Orderly'
  <2>1. /\ \A d \in Commands \ {c} : todo'[d] = todo[d] /\ job'[d] = job[d] /\ read'[d] = read[d]
        /\ todo'[c] = Steps("delete") /\ job'[c].op = "delete" /\ UNCHANGED <<kube, state>>
    BY <1>0, <1>4 DEF StartDelete, TypeOK
  <2>2. Head(todo'[c]) = "read"
    BY <2>1 DEF Steps
  <2> QED
    BY <1>1, <2>1, <2>2, NotLateAfter DEF Late, Writing
<1>5. ASSUME NEW c \in Commands, Select(c) PROVE Orderly'
  <2>1. Running(c) /\ job[c].op = "add" /\ Head(todo[c]) = "select" /\ UNCHANGED <<kube, state>>
    BY <1>5 DEF Select
  <2>2. CASE Proceeds(c, Tail(todo[c]))
    <3>1. todo[c] = <<"select", "save", "read", "truncate", "write">>
      <4>1. todo[c] \in AddTodo /\ Head(todo[c]) = "select"
        BY <1>0, <2>1 DEF TInv, JobInv
      <4>2. /\ Head(<<"save", "read", "truncate", "write">>) = "save"
            /\ Head(<<"read", "truncate", "write">>) = "read"
            /\ Head(<<"truncate", "write">>) = "truncate" /\ Head(<<"write">>) = "write"
        OBVIOUS
      <4> QED
        BY <4>1, <4>2 DEF AddTodo
    <3>2. Tail(todo[c]) # <<>> /\ Head(Tail(todo[c])) = "save"
      BY <3>1
    <3>3. /\ \A d \in Commands \ {c} : todo'[d] = todo[d] /\ job'[d] = job[d] /\ read'[d] = read[d]
          /\ todo'[c] = Tail(todo[c])
      BY <1>0, <2>2, <3>2 DEF Proceeds, TypeOK
    <3> QED
      BY <1>1, <2>1, <3>2, <3>3, NotLateAfter DEF Late, Writing
  <2> QED
    BY <1>2, <1>5, <2>1, <2>2 DEF Select
<1>6. ASSUME NEW c \in Commands, SaveState(c) PROVE Orderly'
  <2> DEFINE p == job[c].path
             profile == [id |-> job[c].id, name |-> job[c].name, contexts |-> job[c].contexts]
  <2>1. Running(c) /\ job[c].op = "add" /\ Head(todo[c]) = "save" /\ UNCHANGED kube /\ ~Writing(c) /\ ~Late(c)
          /\ p \in Paths /\ profile \in Profile /\ profile # None /\ profile.name = job[c].name
    BY <1>0, <1>6, TailType, ConstantTypes DEF SaveState, TInv, JobInv, Job, Profile, Writing, Late
  <2>2. CASE Proceeds(c, <<>>) /\ UNCHANGED state
    BY <1>2, <2>1, <2>2
  <2>3. CASE state' = [state EXCEPT ![p] = profile] /\ ~Disturbs(c, p) /\ Proceeds(c, Tail(todo[c]))
    <3> HIDE DEF profile, p
    <3>1. Tail(todo[c]) # <<>> /\ Head(Tail(todo[c])) # "write"
      <4>1. todo[c] \in AddTodo
        BY <1>0, <2>1 DEF TInv, JobInv
      <4>2. Tail(todo[c]) \in AddTodo /\ Head(Tail(todo[c])) # "write"
        BY <2>1, <4>1, AddSteps
      <4> QED
        BY <4>2, AddSteps
    <3>2. /\ todo' = [todo EXCEPT ![c] = Tail(todo[c])] /\ UNCHANGED <<job, read>>
          /\ \A d \in Commands \ {c} : todo'[d] = todo[d] /\ job'[d] = job[d] /\ read'[d] = read[d]
          /\ todo'[c] = Tail(todo[c])
      BY <1>0, <2>3, <3>1 DEF Proceeds, TypeOK
    <3>3. ~Writing(c)'
      BY <3>1, <3>2 DEF Writing
    <3>4. StateThere' /\ SavedFirst'
      BY <1>0, <1>1, <2>1, <2>3, <3>2, <3>3, StateChanges DEF p
    <3>5. \A d \in Commands \ {c} : (Late(d)' <=> Late(d)) /\ (Writing(d)' <=> Writing(d))
      BY <3>2 DEF Late, Writing, Running
    <3>6. DeletesApart'
      <4>1. \A d \in Commands \ {c} : Late(d) => job[d].name # job[c].name
        BY <2>3 DEF Disturbs, Shared, Late
      <4> QED
        BY <1>1, <2>1, <3>2, <3>5, <4>1 DEF Orderly, DeletesApart
    <3>7. DeletedIsGone'
      BY <1>1, <2>1, <3>2, <3>3, <3>5 DEF Orderly, DeletedIsGone, InOnePlace, Nowhere, Traces, Has
    <3> QED
      BY <3>4, <3>6, <3>7 DEF Orderly
  <2> QED
    BY <1>6, <2>2, <2>3 DEF SaveState
<1>7. ASSUME NEW c \in Commands, ReadForAdd(c) PROVE Orderly'
  <2>1. /\ Running(c) /\ job[c].op = "add" /\ Head(todo[c]) = "read" /\ UNCHANGED <<kube, state, job>>
        /\ todo'[c] = Tail(todo[c])
        /\ \A d \in Commands \ {c} : todo'[d] = todo[d] /\ read'[d] = read[d]
    BY <1>0, <1>7 DEF ReadForAdd, TypeOK
  <2>2. Head(Tail(todo[c])) # "write"
    BY <1>0, <2>1, AddSteps DEF TInv, JobInv
  <2>3. ~Writing(c) /\ ~Writing(c)' /\ Late(c)
    BY <2>1, <2>2 DEF Writing, Late
  <2>4. \A d \in Commands : (Late(d)' => Late(d)) /\ (Writing(d)' <=> Writing(d))
    BY <2>1, <2>3 DEF Late, Writing, Running
  <2>5. StateThere' /\ SavedFirst' /\ DeletesApart'
    BY <1>1, <2>1, <2>3, <2>4 DEF Orderly, StateThere, Stored, Has, SavedFirst, DeletesApart
  <2>6. DeletedIsGone'
    BY <1>1, <2>1, <2>3, <2>4 DEF Orderly, DeletedIsGone, InOnePlace, Nowhere, Traces, Has
  <2> QED
    BY <2>5, <2>6 DEF Orderly
<1>8. ASSUME NEW c \in Commands, ReadForDelete(c) PROVE Orderly'
  <2> DEFINE n == job[c].name
  <2>1. Running(c) /\ job[c].op = "delete" /\ Head(todo[c]) = "read" /\ UNCHANGED <<kube, state>>
    BY <1>8 DEF ReadForDelete
  <2>2. CASE Proceeds(c, <<>>)
    BY <1>2, <2>1, <2>2
  <2>3. CASE ~Refuses(c)
    <3>1. /\ read' = [read EXCEPT ![c] = kube] /\ UNCHANGED job
          /\ todo' = [todo EXCEPT ![c] = IF kube.contexts[n] = "none" /\ kube.entries[n] = None
                                           THEN <<"remove">> ELSE Tail(todo[c])]
          /\ ~Torn /\ \A p \in PathsOf(c) : ~Shared(c, p)
      BY <1>8, <2>3 DEF ReadForDelete
    <3>2. Tail(todo[c]) = <<"truncate", "write", "remove">>
      BY <1>0, <2>1, DeleteSteps DEF TInv, JobInv
    <3>3. /\ \A d \in Commands \ {c} : todo'[d] = todo[d] /\ read'[d] = read[d]
          /\ read'[c] = kube
          /\ \/ todo'[c] = <<"remove">> /\ kube.contexts[n] = "none" /\ kube.entries[n] = None
             \/ todo'[c] = <<"truncate", "write", "remove">>
      BY <1>0, <3>1, <3>2 DEF TypeOK
    <3>4. /\ todo'[c] # <<>>
          /\ \/ Head(todo'[c]) = "remove" /\ kube.contexts[n] = "none" /\ kube.entries[n] = None
             \/ Head(todo'[c]) = "truncate"
      <4>1. /\ Head(<<"remove">>) = "remove" /\ <<"remove">> # <<>>
            /\ Head(<<"truncate", "write", "remove">>) = "truncate" /\ <<"truncate", "write", "remove">> # <<>>
        OBVIOUS
      <4> QED
        BY <3>3, <4>1
    <3>5. \A d \in Commands : ~Writing(d) /\ ~Writing(d)'
      <4>1. \A d \in Commands : ~Writing(d)
        BY <3>1 DEF Torn, Writing
      <4>2. Head(todo'[c]) # "write"
        BY <3>4
      <4> QED
        BY <3>3, <4>1, <4>2 DEF Writing, Running
    <3>6. \A d \in Commands \ {c} : (Late(d)' <=> Late(d)) /\ (Late(d) => job[d].name # n)
      <4>1. PICK p \in PathsOf(c) : TRUE
        BY DEF PathsOf
      <4>2. ~Shared(c, p)
        BY <3>1, <4>1
      <4> QED
        BY <3>1, <3>3, <4>2 DEF Late, Running, Shared
    <3>7. StateThere' /\ SavedFirst' /\ DeletesApart'
      <4>1. StateThere'
        BY <1>1, <2>1, <3>5 DEF Orderly, StateThere, Stored, Has
      <4>2. SavedFirst'
        BY <1>1, <2>1, <3>1, <3>6 DEF Orderly, SavedFirst
      <4>3. DeletesApart'
        BY <1>1, <3>1, <3>6 DEF Orderly, DeletesApart
      <4> QED
        BY <4>1, <4>2, <4>3
    <3>8. DeletedIsGone'
      <4> SUFFICES ASSUME NEW d \in Commands, Late(d)', job'[d].op = "delete"
                   PROVE  /\ Head(todo'[d]) = "truncate" => InOnePlace(d, job[d].name)'
                          /\ Head(todo'[d]) # "truncate" => Nowhere(d, job[d].name)'
        BY DEF DeletedIsGone
      <4>1. CASE d = c
        BY <2>1, <3>1, <3>3, <3>4, <3>5, <4>1 DEF InOnePlace, Nowhere, Traces, Has
      <4>2. CASE d # c
        BY <1>1, <2>1, <3>1, <3>3, <3>5, <3>6, <4>2 DEF Orderly, DeletedIsGone, InOnePlace, Nowhere, Traces, Has
      <4> QED
        BY <4>1, <4>2
    <3> QED
      BY <3>7, <3>8 DEF Orderly
  <2> QED
    BY <1>8, <2>2, <2>3 DEF ReadForDelete
<1>9. ASSUME NEW c \in Commands, Truncate(c) PROVE Orderly'
  <2>1. /\ Running(c) /\ Head(todo[c]) = "truncate" /\ kube = read[c] /\ kube' = Empty
        /\ UNCHANGED <<state, job, read>> /\ todo'[c] = Tail(todo[c])
        /\ \A d \in Commands \ {c} : todo'[d] = todo[d]
    BY <1>0, <1>9 DEF Truncate, TypeOK
  <2>2. todo'[c] # <<>> /\ Head(todo'[c]) = "write"
    <3>1. todo[c] \in AddTodo \/ todo[c] \in DeleteTodo
      BY <1>0, <2>1, TailType DEF TInv, JobInv, Job
    <3>2. todo'[c] \in {<<"write">>, <<"write", "remove">>}
      BY <2>1, <3>1, AddSteps, DeleteSteps
    <3>3. \A left \in {<<"write">>, <<"write", "remove">>} : left # <<>> /\ Head(left) = "write"
      OBVIOUS
    <3> QED
      BY <3>2, <3>3
  <2>3. Late(c) /\ Late(c)' /\ Writing(c)' /\ ~Writing(c)
    BY <2>1, <2>2 DEF Late, Writing, Running
  <2>4. \A d \in Commands : (Late(d)' <=> Late(d)) /\ (Writing(d)' <=> (d = c \/ Writing(d)))
    BY <2>1, <2>3 DEF Late, Writing, Running
  <2>5. \A n \in Names : ~Has(Empty, n) /\ ~Traces(Empty, n)
    BY DEF Traces, Has, Empty
  <2>6. StateThere' /\ SavedFirst' /\ DeletesApart'
    <3>1. Stored(kube)'
      BY <2>1, <2>5 DEF Stored, Has
    <3> QED
      BY <1>1, <2>1, <2>4, <3>1 DEF Orderly, StateThere, Stored, Has, SavedFirst, DeletesApart
  <2>7. DeletedIsGone'
    <3> SUFFICES ASSUME NEW d \in Commands, Late(d), job[d].op = "delete"
                 PROVE  /\ Head(todo'[d]) = "truncate" => InOnePlace(d, job[d].name)'
                        /\ Head(todo'[d]) # "truncate" => Nowhere(d, job[d].name)'
      BY <2>1, <2>4 DEF DeletedIsGone
    <3> DEFINE n == job[d].name
    <3>1. n \in Names /\ job'[d].name = n /\ ~Traces(kube', n)
      BY <1>0, <2>1, <2>5, TailType DEF Late
    <3>2. CASE d = c
      <4>1. InOnePlace(c, n)
        BY <1>1, <2>1, <3>2 DEF Orderly, DeletedIsGone
      <4> QED
        BY <2>1, <2>2, <2>4, <3>1, <3>2, <4>1 DEF InOnePlace, Nowhere
    <3>3. CASE d # c /\ Head(todo[d]) = "truncate"
      <4>1. InOnePlace(d, n) /\ todo'[d] = todo[d]
        BY <1>1, <2>1, <3>3 DEF Orderly, DeletedIsGone
      <4> QED
        BY <2>1, <2>4, <3>1, <3>3, <4>1 DEF InOnePlace
    <3>4. CASE d # c /\ Head(todo[d]) # "truncate"
      <4>1. Nowhere(d, n) /\ todo'[d] = todo[d]
        BY <1>1, <2>1, <3>4 DEF Orderly, DeletedIsGone
      <4> QED
        BY <2>1, <2>4, <3>1, <3>4, <4>1 DEF Nowhere
    <3> QED
      BY <3>2, <3>3, <3>4
  <2> QED
    BY <2>6, <2>7 DEF Orderly
<1>10. ASSUME NEW c \in Commands, Write(c) PROVE Orderly'
  <2> DEFINE j == job[c]
  <2>1. /\ Running(c) /\ Writing(c) /\ Late(c) /\ Head(todo[c]) = "write" /\ Proceeds(c, Tail(todo[c]))
        /\ kube' = IF j.op = "add" THEN WithContext(read[c], j) ELSE WithoutContext(read[c], j.name)
        /\ UNCHANGED state
    BY <1>10 DEF Write, Writing, Late
  <2>2. /\ j \in Job /\ j.name \in Names /\ j.op \in {"add", "delete"} /\ read[c] \in Config
        /\ (j.op = "add" => j.path \in Paths) /\ None \notin Entry
    BY <1>0, <2>1, TailType, ConstantTypes DEF TypeOK, Job
  <2>3. /\ j.op = "add" => Tail(todo[c]) = <<>>
        /\ j.op = "delete" => Tail(todo[c]) = <<"remove">>
    BY <1>0, <2>1, AddSteps, DeleteSteps DEF TInv, JobInv
  <2>4. /\ \A d \in Commands \ {c} : todo'[d] = todo[d] /\ job'[d] = job[d] /\ read'[d] = read[d]
        /\ todo'[c] = Tail(todo[c]) /\ (Tail(todo[c]) # <<>> => job' = job)
    BY <1>0, <2>1 DEF Proceeds, TypeOK
  <2>5. ~Writing(c)' /\ (Late(c)' => j.op = "delete" /\ job'[c] = j /\ Head(todo'[c]) = "remove")
    <3>1. Head(<<"remove">>) = "remove" /\ <<"remove">> # <<>>
      OBVIOUS
    <3> QED
      BY <2>2, <2>3, <2>4, <3>1 DEF Writing, Late, Running
  <2>6. \A d \in Commands : /\ Late(d)' => Late(d) /\ job'[d] = job[d]
                            /\ Writing(d)' <=> d # c /\ Writing(d)
    BY <2>1, <2>4, <2>5 DEF Late, Writing, Running
  <2>7. /\ \A m \in Names \ {j.name} : kube'.contexts[m] = read[c].contexts[m] /\ kube'.entries[m] = read[c].entries[m]
        /\ j.op = "add" => kube'.entries[j.name] = [path |-> j.path, cert |-> j.id]
        /\ j.op = "delete" => ~Has(kube', j.name) /\ ~Traces(kube', j.name)
    BY <2>1, <2>2 DEF WithContext, WithoutContext, Config, Has, Traces
  <2>8. StateThere'
    <3>1. Stored(read[c])
      BY <1>1, <2>1 DEF Orderly, StateThere
    <3>2. ASSUME NEW m \in Names, Has(kube', m)
          PROVE  /\ kube'.entries[m] # None
                 /\ state[kube'.entries[m].path] # None /\ state[kube'.entries[m].path].name = m
      <4>1. CASE m # j.name
        BY <2>7, <3>1, <3>2, <4>1 DEF Stored, Has
      <4>2. CASE m = j.name
        <5>1. j.op = "add" /\ kube'.entries[m] = [path |-> j.path, cert |-> j.id]
          BY <2>2, <2>7, <3>2, <4>2
        <5>2. kube'.entries[m] \in Entry
          BY <2>2, <5>1 DEF Entry, Job
        <5>3. state[j.path] # None /\ state[j.path].name = j.name
          BY <1>1, <2>1, <5>1 DEF Orderly, SavedFirst
        <5> QED
          BY <2>2, <4>2, <5>1, <5>2, <5>3
      <4> QED
        BY <4>1, <4>2
    <3>3. Stored(kube)'
      BY <2>1, <3>2 DEF Stored, Has
    <3>4. ASSUME NEW d \in Commands, Writing(d)' PROVE Stored(read[d])'
      <4>1. d # c /\ Writing(d) /\ read'[d] = read[d]
        BY <2>4, <2>6, <3>4
      <4>2. Stored(read[d])
        BY <1>1, <4>1 DEF Orderly, StateThere
      <4> QED
        BY <2>1, <4>1, <4>2 DEF Stored, Has
    <3> QED
      BY <3>3, <3>4 DEF StateThere
  <2>9. SavedFirst' /\ DeletesApart'
    BY <1>1, <2>1, <2>5, <2>6 DEF Orderly, SavedFirst, DeletesApart
  <2>10. DeletedIsGone'
    <3> SUFFICES ASSUME NEW d \in Commands, Late(d)', Late(d), job'[d] = job[d], job[d].op = "delete"
                 PROVE  /\ Head(todo'[d]) = "truncate" => InOnePlace(d, job[d].name)'
                        /\ Head(todo'[d]) # "truncate" => Nowhere(d, job[d].name)'
      BY <2>6 DEF DeletedIsGone
    <3> DEFINE n == job[d].name
    <3>1. n \in Names
      BY <1>0, TailType DEF Late
    <3>2. CASE d = c
      <4>1. Nowhere(c, n)
        BY <1>1, <2>1, <3>2 DEF Orderly, DeletedIsGone
      <4> QED
        BY <2>4, <2>5, <2>6, <2>7, <3>2, <4>1 DEF Nowhere
    <3>3. CASE d # c
      <4>1. n # j.name
        BY <1>1, <2>1, <3>3 DEF Orderly, DeletesApart
      <4>2. (Traces(kube', n) <=> Traces(read[c], n)) /\ todo'[d] = todo[d] /\ read'[d] = read[d]
        BY <2>4, <2>7, <3>1, <3>3, <4>1 DEF Traces, Has
      <4>3. CASE Head(todo[d]) = "truncate"
        <5>1. InOnePlace(d, n)
          BY <1>1, <4>3 DEF Orderly, DeletedIsGone
        <5> QED
          BY <2>1, <2>4, <2>6, <3>3, <4>2, <4>3, <5>1 DEF InOnePlace
      <4>4. CASE Head(todo[d]) # "truncate"
        <5>1. Nowhere(d, n)
          BY <1>1, <4>4 DEF Orderly, DeletedIsGone
        <5> QED
          BY <2>1, <2>4, <2>6, <3>3, <4>2, <4>4, <5>1 DEF Nowhere
      <4> QED
        BY <4>3, <4>4
    <3> QED
      BY <3>2, <3>3
  <2> QED
    BY <2>8, <2>9, <2>10 DEF Orderly
<1>11. ASSUME NEW c \in Commands, NEW p \in Paths, RemoveState(c, p) PROVE Orderly'
  <2>1. /\ Running(c) /\ job[c].op = "delete" /\ Head(todo[c]) = "remove" /\ ~Disturbs(c, p)
        /\ state' = [state EXCEPT ![p] = None] /\ UNCHANGED kube
        /\ Proceeds(c, Tail(todo[c])) \/ UNCHANGED <<job, todo, read>>
    BY <1>11 DEF RemoveState
  <2>2. Late(c) /\ ~Writing(c)
    BY <2>1 DEF Late, Writing
  <2>3. Tail(todo[c]) = <<>>
    BY <1>0, <2>1, DeleteSteps DEF TInv, JobInv
  <2>4. /\ \A d \in Commands \ {c} : todo'[d] = todo[d] /\ job'[d] = job[d] /\ read'[d] = read[d]
        /\ todo'[c] = <<>> \/ UNCHANGED <<job, todo, read>>
    BY <1>0, <2>1, <2>3 DEF Proceeds, TypeOK
  <2>5. ~Writing(c)' /\ (Late(c)' => UNCHANGED <<job, todo, read>>)
    BY <2>2, <2>4 DEF Writing, Late, Running
  <2>6. \A d \in Commands : /\ Late(d)' => Late(d) /\ job'[d] = job[d] /\ todo'[d] = todo[d] /\ read'[d] = read[d]
                            /\ Writing(d)' <=> Writing(d)
    BY <2>2, <2>4, <2>5 DEF Late, Writing, Running
  <2>7. StateThere' /\ SavedFirst'
    BY <1>0, <1>1, <2>1, <2>2, <2>4, <2>5, StateChanges
  <2>8. DeletesApart'
    BY <1>1, <2>6 DEF Orderly, DeletesApart
  <2>9. DeletedIsGone'
    BY <1>1, <2>1, <2>2, <2>4, <2>6 DEF Orderly, DeletedIsGone, InOnePlace, Nowhere, Traces, Has
  <2> QED
    BY <2>7, <2>8, <2>9 DEF Orderly
<1>12. ASSUME NEW c \in Commands, StopEarly(c) PROVE Orderly'
  BY <1>2, <1>12 DEF StopEarly
<1>13. ASSUME NEW n \in Names, UseContext(n) \/ DropContext(n) PROVE Orderly'
  <2>1. UNCHANGED <<state, job, todo, read>>
    BY <1>13 DEF UseContext, DropContext
  <2>2. kube'.entries = kube.entries /\ \A m \in Names : Has(kube', m) => Has(kube, m)
    BY <1>0, <1>13 DEF UseContext, DropContext, TypeOK, Config, Has
  <2>3. \A d \in Commands : (Late(d)' <=> Late(d)) /\ (Writing(d)' <=> Writing(d))
    BY <2>1 DEF Late, Writing, Running
  <2>4. StateThere' /\ SavedFirst' /\ DeletesApart'
    <3>1. Stored(kube)'
      BY <1>1, <2>1, <2>2 DEF Orderly, StateThere, Stored, Has
    <3> QED
      BY <1>1, <2>1, <2>3, <3>1 DEF Orderly, StateThere, Stored, Has, SavedFirst, DeletesApart
  <2>5. \A d \in Commands : Late(d) => job[d].name \in Names
    BY <1>0, TailType DEF Late
  <2>6. DeletedIsGone'
    <3> SUFFICES ASSUME NEW d \in Commands, Late(d), job[d].op = "delete"
                 PROVE  /\ Head(todo[d]) = "truncate" => InOnePlace(d, job[d].name)'
                        /\ Head(todo[d]) # "truncate" => Nowhere(d, job[d].name)'
      BY <2>1, <2>3 DEF DeletedIsGone
    <3>1. (Traces(kube, job[d].name))' => Traces(kube, job[d].name)
      BY <2>1, <2>2, <2>5 DEF Traces, Has
    <3> QED
      BY <1>1, <2>1, <2>3, <3>1 DEF Orderly, DeletedIsGone, InOnePlace, Nowhere
  <2> QED
    BY <2>4, <2>6 DEF Orderly
<1>14. CASE UNCHANGED vars
  BY <1>1, <1>14 DEF vars, Orderly, StateThere, Stored, Has, SavedFirst, DeletesApart, DeletedIsGone,
                     InOnePlace, Nowhere, Late, Writing, Running
<1> QED
  BY <1>3, <1>4, <1>5, <1>6, <1>7, <1>8, <1>9, <1>10, <1>11, <1>12, <1>13, <1>14 DEF Next

LEMMA StepDInv == DInv /\ [Next]_vars => DInv'
  BY StepTInv, StepOrderly DEF DInv

(* add_context.go:73-78, delete_context.go:25-29, 76-119 -- wherever the   *)
(* commands end, and however many there are, a proxy context in the        *)
(* kubeconfig has its entry and its state file, as long as no update is    *)
(* lost and no context or state file is worked on twice at a time.         *)
THEOREM NothingDangles == Spec => []NoDanglingContext
<1>1. DInv => NoDanglingContext
  BY DEF DInv, Orderly, StateThere, Stored, Has, NoDanglingContext
<1> QED
  BY <1>1, InitDInv, StepDInv, PTL DEF Spec
------------------------------------------------------------------------------
(* What an add-context just wrote can be served, and what a delete-context *)
(* just removed leaves no trace.                                           *)

OwnPaths ==
    \A c \in Commands : Running(c) =>
        /\ job[c].op = "add" => job[c].path \in {job[c].name, 0} /\ statePaths[c] = {job[c].path}
        /\ job[c].op = "delete" => job[c].path \in {None, 0}

ProfileOf(j) == [id |-> j.id, name |-> j.name, contexts |-> j.contexts]

SavedWhole ==
    \A c \in Commands : Late(c) /\ job[c].op = "add" => state[job[c].path] = ProfileOf(job[c])

HomeIsOwn == \A n \in Names : home[n] \in {n, 0, None}

Deletes(d, n) == Late(d) /\ job[d].op = "delete" /\ job[d].name = n

Records(config, n) == config.entries[n] # None /\ config.entries[n].path = home[n]

(* Where the state of a context is, the kubeconfig tells, or what was read *)
(* of it; only the command that is deleting the context may do without.    *)
HomeIsRecorded ==
    \A n \in Names : home[n] # None =>
        \/ Records(kube, n)
        \/ \E c \in Commands : Writing(c) /\ Records(read[c], n)
        \/ \E d \in Commands : Deletes(d, n)

(* That command has the file before it, or has removed it.  A file at the  *)
(* default path is not written for another context meanwhile; one at an    *)
(* explicit path may be, but then there is no other to remove.             *)
Clears(d, n) ==
    IF home[n] = 0 THEN statePaths[d] = {0} ELSE home[n] \in statePaths[d] \/ state[home[n]] = None

HomeIsCleared ==
    \A d \in Commands, n \in Names : Deletes(d, n) /\ home[n] # None => Clears(d, n)

HInv ==
    /\ DInv /\ OwnPaths /\ HomeIsOwn
    /\ ~interfered => SavedWhole /\ HomeIsRecorded /\ HomeIsCleared

LEMMA InitHInv == Init => HInv
<1> SUFFICES ASSUME Init PROVE HInv
  OBVIOUS
<1>1. DInv
  BY InitDInv
<1>2. (\A c \in Commands : ~Running(c)) /\ \A n \in Names : home[n] = None
  BY DEF Init, Running
<1> QED
  BY <1>1, <1>2 DEF HInv, OwnPaths, HomeIsOwn, SavedWhole, HomeIsRecorded, HomeIsCleared, Deletes, Late

(* A step is a step of one command, and leaves the others as they were.    *)
LEMMA OthersStay ==
    ASSUME TInv, NEW c \in Commands,
           \/ \E n \in ProxyNames : \/ \E p \in Paths, options \in Options : StartAdd(c, n, p, options)
                                   \/ \E p \in Paths \cup {None} : StartDelete(c, n, p)
           \/ Select(c) \/ SaveState(c) \/ ReadForAdd(c) \/ ReadForDelete(c) \/ Truncate(c) \/ Write(c)
           \/ StopEarly(c) \/ \E p \in Paths : RemoveState(c, p)
    PROVE  \A d \in Commands \ {c} :
             todo'[d] = todo[d] /\ job'[d] = job[d] /\ read'[d] = read[d] /\ statePaths'[d] = statePaths[d]
<1> USE DEF TInv, TypeOK, fileVars, historyVars
<1>1. ASSUME NEW left, Proceeds(c, left)
      PROVE  \A d \in Commands \ {c} :
               todo'[d] = todo[d] /\ job'[d] = job[d] /\ read'[d] = read[d] /\ statePaths'[d] = statePaths[d]
  BY <1>1 DEF Proceeds
<1>2. ASSUME NEW n \in ProxyNames, NEW p \in Paths, NEW options \in Options, StartAdd(c, n, p, options)
      PROVE  \A d \in Commands \ {c} :
               todo'[d] = todo[d] /\ job'[d] = job[d] /\ read'[d] = read[d] /\ statePaths'[d] = statePaths[d]
  BY <1>2 DEF StartAdd
<1>3. ASSUME NEW n \in ProxyNames, NEW p \in Paths \cup {None}, StartDelete(c, n, p)
      PROVE  \A d \in Commands \ {c} :
               todo'[d] = todo[d] /\ job'[d] = job[d] /\ read'[d] = read[d] /\ statePaths'[d] = statePaths[d]
  BY <1>3 DEF StartDelete
<1>4. CASE Select(c) \/ SaveState(c) \/ StopEarly(c) \/ Write(c)
  BY <1>1, <1>4 DEF Select, SaveState, StopEarly, Write
<1>5. CASE ReadForAdd(c) \/ Truncate(c)
  BY <1>5 DEF ReadForAdd, Truncate
<1>6. CASE ReadForDelete(c)
  <2>1. CASE Refuses(c)
    BY <1>1, <1>6, <2>1 DEF ReadForDelete
  <2>2. CASE ~Refuses(c)
    BY <1>6, <2>2 DEF ReadForDelete
  <2> QED
    BY <2>1, <2>2
<1>7. ASSUME NEW p \in Paths, RemoveState(c, p)
      PROVE  \A d \in Commands \ {c} :
               todo'[d] = todo[d] /\ job'[d] = job[d] /\ read'[d] = read[d] /\ statePaths'[d] = statePaths[d]
  <2>1. CASE statePaths[c] = {p}
    BY <1>1, <1>7, <2>1 DEF RemoveState
  <2>2. CASE statePaths[c] # {p}
    BY <1>7, <2>2 DEF RemoveState
  <2> QED
    BY <2>1, <2>2
<1> QED
  BY <1>2, <1>3, <1>4, <1>5, <1>6, <1>7

(* A command that goes on keeps what it was asked to do.                   *)
LEMMA KeepsJob ==
    ASSUME TInv, NEW c \in Commands, todo'[c] # <<>>,
           \/ Select(c) \/ SaveState(c) \/ ReadForAdd(c) \/ ReadForDelete(c) \/ Truncate(c) \/ Write(c)
           \/ StopEarly(c) \/ \E p \in Paths : RemoveState(c, p)
    PROVE  /\ Running(c) /\ job'[c] = job[c]
           /\ job[c].op = "add" => statePaths'[c] = statePaths[c]
           /\ ~StopEarly(c)
<1> USE DEF TInv, TypeOK, fileVars, historyVars, Doing
<1>1. ASSUME NEW left, Proceeds(c, left) PROVE left # <<>> /\ UNCHANGED <<job, statePaths>>
  BY <1>1 DEF Proceeds
<1>2. CASE Select(c) \/ SaveState(c)
  <2>1. PICK left \in {Tail(todo[c]), <<>>} : Proceeds(c, left)
    BY <1>2 DEF Select, SaveState
  <2> QED
    BY <1>1, <1>2, <2>1 DEF Select, SaveState, StopEarly
<1>3. CASE ReadForAdd(c) \/ Truncate(c)
  BY <1>1, <1>3 DEF ReadForAdd, Truncate, StopEarly
<1>4. CASE ReadForDelete(c)
  <2>1. ~Refuses(c) /\ job[c].op = "delete"
    BY <1>1, <1>4 DEF ReadForDelete
  <2> QED
    BY <1>1, <1>4, <2>1 DEF ReadForDelete, StopEarly
<1>5. CASE Write(c)
  BY <1>1, <1>5 DEF Write, StopEarly
<1>6. ASSUME NEW p \in Paths, RemoveState(c, p)
      PROVE  Running(c) /\ job'[c] = job[c] /\ job[c].op = "delete" /\ ~StopEarly(c)
  BY <1>1, <1>6 DEF RemoveState, StopEarly
<1>7. CASE StopEarly(c)
  BY <1>1, <1>7 DEF StopEarly
<1> QED
  BY <1>2, <1>3, <1>4, <1>5, <1>6, <1>7

LEMMA StartsOwn ==
    ASSUME TInv, NEW c \in Commands, NEW n \in ProxyNames,
           \/ \E p \in Paths, options \in Options : StartAdd(c, n, p, options)
           \/ \E p \in Paths \cup {None} : StartDelete(c, n, p)
    PROVE  /\ job'[c].op = "add" => /\ job'[c].path \in {job'[c].name, 0}
                                    /\ statePaths'[c] = {job'[c].path} /\ Head(todo'[c]) = "select"
           /\ job'[c].op = "delete" => job'[c].path \in {None, 0} /\ Head(todo'[c]) = "read"
           /\ ~Running(c) /\ ~Late(c)' /\ ~Writing(c)'
           /\ UNCHANGED <<kube, state, read, home>>
<1>1. ASSUME NEW p \in Paths, NEW options \in Options, StartAdd(c, n, p, options)
      PROVE  /\ job'[c].op = "add" /\ job'[c].path \in {job'[c].name, 0}
             /\ statePaths'[c] = {job'[c].path} /\ Head(todo'[c]) = "select"
             /\ ~Running(c) /\ UNCHANGED <<kube, state, read, home>>
  BY <1>1 DEF StartAdd, Steps, TInv, TypeOK, fileVars
<1>2. ASSUME NEW p \in Paths \cup {None}, StartDelete(c, n, p)
      PROVE  /\ job'[c].op = "delete" /\ job'[c].path \in {None, 0} /\ Head(todo'[c]) = "read"
             /\ ~Running(c) /\ UNCHANGED <<kube, state, read, home>>
  BY <1>2 DEF StartDelete, Steps, TInv, TypeOK, fileVars, historyVars
<1> QED
  BY <1>1, <1>2 DEF Late, Writing

LEMMA StepOwnPaths == TInv /\ OwnPaths /\ [Next]_vars => OwnPaths'
<1> SUFFICES ASSUME TInv, OwnPaths, [Next]_vars, NEW d \in Commands, Running(d)'
             PROVE  /\ job'[d].op = "add" => job'[d].path \in {job'[d].name, 0} /\ statePaths'[d] = {job'[d].path}
                    /\ job'[d].op = "delete" => job'[d].path \in {None, 0}
  BY DEF OwnPaths
<1>1. ASSUME Running(d), job'[d] = job[d], job[d].op = "add" => statePaths'[d] = statePaths[d]
      PROVE  /\ job'[d].op = "add" => job'[d].path \in {job'[d].name, 0} /\ statePaths'[d] = {job'[d].path}
             /\ job'[d].op = "delete" => job'[d].path \in {None, 0}
  BY <1>1 DEF OwnPaths
<1>2. ASSUME todo'[d] = todo[d], job'[d] = job[d], statePaths'[d] = statePaths[d]
      PROVE  /\ job'[d].op = "add" => job'[d].path \in {job'[d].name, 0} /\ statePaths'[d] = {job'[d].path}
             /\ job'[d].op = "delete" => job'[d].path \in {None, 0}
  BY <1>1, <1>2 DEF Running
<1>3. ASSUME NEW c \in Commands, NEW n \in ProxyNames,
             \/ \E p \in Paths, options \in Options : StartAdd(c, n, p, options)
             \/ \E p \in Paths \cup {None} : StartDelete(c, n, p)
      PROVE  /\ job'[d].op = "add" => job'[d].path \in {job'[d].name, 0} /\ statePaths'[d] = {job'[d].path}
             /\ job'[d].op = "delete" => job'[d].path \in {None, 0}
  BY <1>2, <1>3, OthersStay, StartsOwn
<1>4. ASSUME NEW c \in Commands,
             \/ Select(c) \/ SaveState(c) \/ ReadForAdd(c) \/ ReadForDelete(c) \/ Truncate(c) \/ Write(c)
             \/ StopEarly(c) \/ \E p \in Paths : RemoveState(c, p)
      PROVE  /\ job'[d].op = "add" => job'[d].path \in {job'[d].name, 0} /\ statePaths'[d] = {job'[d].path}
             /\ job'[d].op = "delete" => job'[d].path \in {None, 0}
  <2>1. CASE d = c
    <3>1. todo'[c] # <<>>
      BY <2>1 DEF Running
    <3> QED
      BY <1>1, <1>4, <2>1, <3>1, KeepsJob
  <2>2. CASE d # c
    BY <1>2, <1>4, <2>2, OthersStay
  <2> QED
    BY <2>1, <2>2
<1>5. CASE UNCHANGED commandVars
  BY <1>2, <1>5 DEF commandVars
<1>6. ASSUME NEW n \in Names, UseContext(n) \/ DropContext(n) PROVE UNCHANGED commandVars
  BY <1>6 DEF UseContext, DropContext
<1>7. CASE UNCHANGED vars
  BY <1>5, <1>7 DEF vars
<1> QED
  BY <1>3, <1>4, <1>5, <1>6, <1>7 DEF Next

LEMMA StepHomeIsOwn == TInv /\ OwnPaths /\ HomeIsOwn /\ [Next]_vars => HomeIsOwn'
<1> SUFFICES ASSUME TInv, OwnPaths, HomeIsOwn, [Next]_vars PROVE HomeIsOwn'
  OBVIOUS
<1>0. home \in [Names -> Paths \cup {None}]
  BY DEF TInv, TypeOK
<1>1. CASE UNCHANGED home
  BY <1>1 DEF HomeIsOwn
<1>2. ASSUME NEW c \in Commands, Write(c) PROVE HomeIsOwn'
  <2>1. Running(c) /\ home' = [home EXCEPT ![job[c].name] = IF job[c].op = "add" THEN job[c].path ELSE @]
    BY <1>2 DEF Write
  <2>2. job[c].op = "add" => job[c].path \in {job[c].name, 0}
    BY <2>1 DEF OwnPaths
  <2> QED
    BY <1>0, <2>1, <2>2 DEF HomeIsOwn
<1>3. ASSUME NEW c \in Commands, NEW p \in Paths, RemoveState(c, p) PROVE HomeIsOwn'
  <2>1. home' = [home EXCEPT ![job[c].name] = None] \/ home' = home
    BY <1>3 DEF RemoveState
  <2> QED
    BY <1>0, <2>1 DEF HomeIsOwn
<1>4. ASSUME NEW c \in Commands, StopEarly(c) PROVE HomeIsOwn'
  <2>1. \/ home' = [n \in Names |-> None]
        \/ home' = [home EXCEPT ![job[c].name] = IF job[c].op = "delete" THEN None ELSE @]
    BY <1>4 DEF StopEarly
  <2> QED
    BY <1>0, <2>1 DEF HomeIsOwn
<1>5. ASSUME NEW c \in Commands, NEW n \in ProxyNames, NEW p \in Paths, NEW options \in Options,
             StartAdd(c, n, p, options)
      PROVE  UNCHANGED home
  BY <1>5 DEF StartAdd
<1>6. ASSUME NEW c \in Commands, NEW n \in ProxyNames, NEW p \in Paths \cup {None}, StartDelete(c, n, p)
      PROVE  UNCHANGED home
  BY <1>6 DEF StartDelete, historyVars
<1>7. ASSUME NEW c \in Commands,
             Select(c) \/ SaveState(c) \/ ReadForAdd(c) \/ ReadForDelete(c) \/ Truncate(c)
      PROVE  UNCHANGED home
  BY <1>7 DEF Select, SaveState, ReadForAdd, ReadForDelete, Truncate, historyVars
<1>8. ASSUME NEW n \in Names, UseContext(n) \/ DropContext(n) PROVE UNCHANGED home
  BY <1>8 DEF UseContext, DropContext, historyVars
<1>9. CASE UNCHANGED vars
  BY <1>1, <1>9 DEF vars, historyVars
<1> QED
  BY <1>1, <1>2, <1>3, <1>4, <1>5, <1>6, <1>7, <1>8, <1>9 DEF Next

(* The state an add-context saved stays what it saved until it ends: who   *)
(* else saves or removes at that path interferes.                          *)
LEMMA StepSavedWhole ==
    ASSUME TInv, OwnPaths, SavedWhole, [Next]_vars, ~interfered'
    PROVE  SavedWhole'
<1> SUFFICES ASSUME NEW d \in Commands, Late(d)', job'[d].op = "add"
             PROVE  state'[job'[d].path] = ProfileOf(job'[d])
  BY DEF SavedWhole
<1> USE DEF fileVars, historyVars, Doing
<1>0. TypeOK
  BY DEF TInv
<1>1. ASSUME Late(d), job'[d] = job[d], UNCHANGED state
      PROVE  state'[job'[d].path] = ProfileOf(job'[d])
  BY <1>1 DEF SavedWhole, ProfileOf
<1>2. ASSUME todo'[d] = todo[d], job'[d] = job[d]
      PROVE  Late(d) /\ Running(d) /\ statePaths[d] = {job[d].path} /\ job[d].path \in Paths
               /\ state[job[d].path] = ProfileOf(job[d])
  <2>1. Late(d) /\ Running(d) /\ job[d].op = "add"
    BY <1>2 DEF Late, Running
  <2> QED
    BY <2>1 DEF OwnPaths, SavedWhole, TInv, JobInv
(* Another command's state file.                                           *)
<1>3. ASSUME NEW c \in Commands \ {d}, NEW p \in Paths, NEW x,
             state' = [state EXCEPT ![p] = x], ~Disturbs(c, p), todo'[d] = todo[d], job'[d] = job[d]
      PROVE  state'[job'[d].path] = ProfileOf(job'[d])
  <2>1. Running(d) /\ statePaths[d] = {job[d].path} /\ job[d].path \in Paths
          /\ state[job[d].path] = ProfileOf(job[d])
    BY <1>2, <1>3
  <2>2. p # job[d].path
    BY <1>3, <2>1 DEF Disturbs, Shared
  <2> QED
    BY <1>0, <1>3, <2>1, <2>2 DEF TypeOK
<1>4. ASSUME NEW c \in Commands, NEW n \in ProxyNames,
             \/ \E p \in Paths, options \in Options : StartAdd(c, n, p, options)
             \/ \E p \in Paths \cup {None} : StartDelete(c, n, p)
      PROVE  state'[job'[d].path] = ProfileOf(job'[d])
  <2>1. d # c /\ UNCHANGED state
    BY <1>4, StartsOwn
  <2> QED
    BY <1>1, <1>2, <1>4, <2>1, OthersStay
<1>5. ASSUME NEW c \in Commands,
             Select(c) \/ ReadForAdd(c) \/ ReadForDelete(c) \/ Truncate(c) \/ Write(c) \/ StopEarly(c)
      PROVE  state'[job'[d].path] = ProfileOf(job'[d])
  <2>1. UNCHANGED state
    BY <1>5 DEF Select, ReadForAdd, ReadForDelete, Truncate, Write, StopEarly
  <2>2. CASE d # c
    BY <1>1, <1>2, <1>5, <2>1, <2>2, OthersStay
  <2>3. CASE d = c
    <3>1. Running(d) /\ job'[d] = job[d] /\ ~StopEarly(d)
      BY <1>5, <2>3, KeepsJob DEF Late, Running
    <3>2. Late(d)
      <4>1. CASE Select(d)
        <5>1. todo[d] = <<"select", "save", "read", "truncate", "write">>
          <6>1. todo[d] \in AddTodo /\ Head(todo[d]) = "select"
            BY <1>5, <3>1, <4>1 DEF Select, TInv, JobInv
          <6>2. /\ Head(<<"save", "read", "truncate", "write">>) = "save"
                /\ Head(<<"read", "truncate", "write">>) = "read"
                /\ Head(<<"truncate", "write">>) = "truncate" /\ Head(<<"write">>) = "write"
            OBVIOUS
          <6> QED
            BY <6>1, <6>2 DEF AddTodo
        <5>2. todo'[d] \in {<<>>, Tail(todo[d])}
          BY <1>0, <4>1 DEF Select, Proceeds, TypeOK
        <5>3. Head(Tail(todo[d])) = "save"
          BY <5>1
        <5> QED
          BY <5>2, <5>3 DEF Late, Running
      <4>2. CASE ~Select(d)
        <5>1. Head(todo[d]) \notin {"select", "save"}
          BY <1>5, <2>3, <3>1, <4>2 DEF ReadForAdd, ReadForDelete, Truncate, Write
        <5> QED
          BY <3>1, <5>1 DEF Late
      <4> QED
        BY <4>1, <4>2
    <3> QED
      BY <1>1, <2>1, <3>1, <3>2
  <2> QED
    BY <2>2, <2>3
<1>6. ASSUME NEW c \in Commands, SaveState(c) PROVE state'[job'[d].path] = ProfileOf(job'[d])
  <2> DEFINE p == job[c].path
  <2>1. Running(c) /\ job[c].op = "add" /\ p \in Paths
    BY <1>6 DEF SaveState, TInv, JobInv
  <2>2. CASE IsValid(job[c].contexts)
    <3>1. state' = [state EXCEPT ![p] = ProfileOf(job[c])] /\ ~Disturbs(c, p)
      BY <1>6, <2>2 DEF SaveState, ProfileOf
    <3>2. CASE d = c
      <4>1. job'[d] = job[d]
        BY <1>6, <3>2, KeepsJob DEF Late, Running
      <4> QED
        BY <1>0, <2>1, <3>1, <3>2, <4>1 DEF TypeOK
    <3>3. CASE d # c
      <4>1. todo'[d] = todo[d] /\ job'[d] = job[d]
        BY <1>6, <3>3, OthersStay
      <4> HIDE DEF p
      <4> QED
        BY <1>3, <2>1, <3>1, <3>3, <4>1
    <3> QED
      BY <3>2, <3>3
  <2>3. CASE ~IsValid(job[c].contexts)
    <3>1. UNCHANGED state /\ todo'[c] = <<>>
      BY <1>0, <1>6, <2>3 DEF SaveState, Proceeds, TypeOK
    <3>2. d # c
      BY <3>1 DEF Late, Running
    <3> QED
      BY <1>1, <1>2, <1>6, <3>1, <3>2, OthersStay
  <2> QED
    BY <2>2, <2>3
<1>7. ASSUME NEW c \in Commands, NEW p \in Paths, RemoveState(c, p)
      PROVE  state'[job'[d].path] = ProfileOf(job'[d])
  <2>1. job[c].op = "delete" /\ state' = [state EXCEPT ![p] = None] /\ ~Disturbs(c, p)
    BY <1>7 DEF RemoveState
  <2>2. d # c
    <3>1. d = c => job'[d] = job[d]
      BY <1>7, KeepsJob DEF Late, Running
    <3> QED
      BY <2>1, <3>1
  <2> QED
    BY <1>3, <1>7, <2>1, <2>2, OthersStay
<1>8. CASE UNCHANGED <<job, todo, state>>
  BY <1>1, <1>2, <1>8
<1>9. ASSUME NEW n \in Names, UseContext(n) \/ DropContext(n) PROVE UNCHANGED <<job, todo, state>>
  BY <1>9 DEF UseContext, DropContext, commandVars
<1>10. CASE UNCHANGED vars
  BY <1>8, <1>10 DEF vars, commandVars
<1> QED
  BY <1>4, <1>5, <1>6, <1>7, <1>8, <1>9, <1>10 DEF Next

(* Where the state of a context is stays on record.                        *)
LEMMA StepHomeIsRecorded ==
    ASSUME TInv, OwnPaths, HomeIsRecorded, [Next]_vars, ~interfered'
    PROVE  HomeIsRecorded'
<1> SUFFICES ASSUME NEW n \in Names, home'[n] # None
             PROVE  \/ Records(kube, n)'
                    \/ \E c \in Commands : Writing(c)' /\ Records(read[c], n)'
                    \/ \E d \in Commands : Deletes(d, n)'
  BY DEF HomeIsRecorded
<1> DEFINE Goal == \/ Records(kube, n)'
                   \/ \E c \in Commands : Writing(c)' /\ Records(read[c], n)'
                   \/ \E d \in Commands : Deletes(d, n)'
<1> USE DEF fileVars, historyVars, Doing
<1>0. TypeOK /\ None \notin Entry
  BY ConstantTypes DEF TInv
(* A step of a command that is of no account, for it neither writes nor    *)
(* deletes the context, and changes no entry.                              *)
<1>1. ASSUME NEW c \in Commands, home'[n] = home[n], kube'.entries[n] = kube.entries[n],
             Deletes(c, n) => Deletes(c, n)', ~Writing(c),
             \A d \in Commands \ {c} : todo'[d] = todo[d] /\ job'[d] = job[d] /\ read'[d] = read[d]
      PROVE  Goal
  <2>1. \A d \in Commands \ {c} : /\ Deletes(d, n) => Deletes(d, n)'
                                  /\ Writing(d) => Writing(d)'
    BY <1>1 DEF Deletes, Late, Writing, Running
  <2>2. Records(kube, n) => Records(kube, n)'
    BY <1>1 DEF Records
  <2>3. ASSUME NEW d \in Commands, Writing(d), Records(read[d], n)
        PROVE  Writing(d)' /\ Records(read[d], n)'
    <3>1. d # c
      BY <1>1, <2>3
    <3> QED
      BY <1>1, <2>1, <2>3, <3>1 DEF Records
  <2>4. ASSUME NEW d \in Commands, Deletes(d, n) PROVE Deletes(d, n)'
    BY <1>1, <2>1, <2>4
  <2> QED
    BY <1>1, <2>2, <2>3, <2>4 DEF HomeIsRecorded
<1>2. ASSUME NEW c \in Commands, NEW m \in ProxyNames,
             \/ \E p \in Paths, options \in Options : StartAdd(c, m, p, options)
             \/ \E p \in Paths \cup {None} : StartDelete(c, m, p)
      PROVE  Goal
  <2>1. ~Running(c) /\ UNCHANGED <<kube, home>>
    BY <1>2, StartsOwn
  <2>2. ~Deletes(c, n) /\ ~Writing(c)
    BY <2>1 DEF Deletes, Late, Writing
  <2> QED
    BY <1>1, <1>2, <2>1, <2>2, OthersStay
<1>3. ASSUME NEW c \in Commands, Select(c) \/ SaveState(c) \/ ReadForAdd(c) \/ ReadForDelete(c)
      PROVE  Goal
  <2>1. UNCHANGED <<kube, home>> /\ Running(c) /\ Head(todo[c]) \in {"select", "save", "read"}
          /\ (job[c].op = "delete" => Head(todo[c]) = "read")
    BY <1>3 DEF Select, SaveState, ReadForAdd, ReadForDelete
  <2>2. ~Deletes(c, n) /\ ~Writing(c)
    BY <2>1 DEF Deletes, Late, Writing
  <2> QED
    BY <1>1, <1>3, <2>1, <2>2, OthersStay
(* What is truncated away is in the memory of the command.                 *)
<1>4. ASSUME NEW c \in Commands, Truncate(c) PROVE Goal
  <2>1. /\ Running(c) /\ Head(todo[c]) = "truncate" /\ kube = read[c] /\ UNCHANGED <<job, read, home>>
        /\ todo'[c] = Tail(todo[c])
    BY <1>0, <1>4 DEF Truncate, TypeOK
  <2>2. Tail(todo[c]) # <<>> /\ Head(Tail(todo[c])) = "write"
    <3>1. todo[c] \in AddTodo \/ todo[c] \in DeleteTodo
      BY <2>1, TailType DEF TInv, JobInv, Job
    <3>2. Tail(todo[c]) \in {<<"write">>, <<"write", "remove">>}
      BY <2>1, <3>1, AddSteps, DeleteSteps
    <3>3. \A left \in {<<"write">>, <<"write", "remove">>} : left # <<>> /\ Head(left) = "write"
      OBVIOUS
    <3> QED
      BY <3>2, <3>3
  <2>3. Writing(c)' /\ (Deletes(c, n) => Deletes(c, n)')
    BY <2>1, <2>2 DEF Writing, Deletes, Late, Running
  <2>4. \A d \in Commands \ {c} : todo'[d] = todo[d] /\ job'[d] = job[d] /\ read'[d] = read[d]
    BY <1>4, OthersStay
  <2>5. \A d \in Commands : (Deletes(d, n) => Deletes(d, n)') /\ (Writing(d) => Writing(d)')
    BY <2>3, <2>4 DEF Deletes, Late, Writing, Running
  <2>6. CASE Records(kube, n)
    BY <2>1, <2>3, <2>6 DEF Records
  <2>7. ASSUME NEW d \in Commands, Writing(d), Records(read[d], n)
        PROVE  Writing(d)' /\ Records(read[d], n)'
    BY <2>1, <2>5, <2>7 DEF Records
  <2> QED
    BY <2>1, <2>5, <2>6, <2>7 DEF HomeIsRecorded
(* What is written back is what was truncated away.                        *)
<1>5. ASSUME NEW c \in Commands, Write(c) PROVE Goal
  <2> DEFINE j == job[c]
  <2>1. /\ Running(c) /\ Head(todo[c]) = "write" /\ Proceeds(c, Tail(todo[c])) /\ kube = Empty
        /\ kube' = IF j.op = "add" THEN WithContext(read[c], j) ELSE WithoutContext(read[c], j.name)
        /\ home' = [home EXCEPT ![j.name] = IF j.op = "add" THEN j.path ELSE @]
    BY <1>5 DEF Write
  <2>2. /\ j \in Job /\ j.name \in Names /\ j.op \in {"add", "delete"} /\ read[c] \in Config
        /\ (j.op = "add" => j.path \in Paths)
    BY <1>0, <2>1, TailType DEF TypeOK, Job
  <2>3. \A d \in Commands \ {c} : todo'[d] = todo[d] /\ job'[d] = job[d] /\ read'[d] = read[d]
    BY <1>5, OthersStay
  <2>4. CASE n = j.name /\ j.op = "add"
    <3>1. kube'.entries[n] = [path |-> j.path, cert |-> j.id] /\ home'[n] = j.path
      BY <1>0, <2>1, <2>2, <2>4 DEF WithContext, Config, TypeOK
    <3>2. [path |-> j.path, cert |-> j.id] \in Entry
      BY <2>2, <2>4 DEF Entry, Job
    <3>3. kube'.entries[n] # None /\ kube'.entries[n].path = home'[n]
      BY <1>0, <3>1, <3>2
    <3> QED
      BY <3>3 DEF Records
  <2>5. CASE n = j.name /\ j.op = "delete"
    <3>1. todo'[c] = <<"remove">> /\ job'[c] = j
      <4>1. Tail(todo[c]) = <<"remove">> /\ Tail(todo[c]) # <<>>
        <5>1. Tail(todo[c]) = <<"remove">>
          BY <2>1, <2>5, DeleteSteps DEF TInv, JobInv
        <5> QED
          BY <5>1
      <4> QED
        BY <1>0, <2>1, <4>1 DEF Proceeds, TypeOK
    <3>2. todo'[c] # <<>> /\ Head(todo'[c]) = "remove"
      BY <3>1
    <3>3. Deletes(c, n)'
      BY <2>5, <3>1, <3>2 DEF Deletes, Late, Running
    <3> QED
      BY <3>3
  <2>6. CASE n # j.name
    <3>1. home'[n] = home[n] /\ kube'.entries[n] = read[c].entries[n]
      BY <1>0, <2>1, <2>2, <2>6 DEF WithContext, WithoutContext, Config, TypeOK
    <3>2. ~Records(kube, n)
      BY <2>1 DEF Records, Empty
    <3>3. \A d \in Commands \ {c} : (Deletes(d, n) => Deletes(d, n)') /\ (Writing(d) => Writing(d)')
      BY <2>3 DEF Deletes, Late, Writing, Running
    <3>4. ASSUME NEW d \in Commands, Deletes(d, n) PROVE Goal
      <4>1. d # c
        BY <2>6, <3>4 DEF Deletes
      <4> QED
        BY <3>3, <3>4, <4>1
    <3>5. ASSUME NEW d \in Commands, Writing(d), Records(read[d], n) PROVE Goal
      <4>1. CASE d = c
        BY <3>1, <3>5, <4>1 DEF Records
      <4>2. CASE d # c
        <5>1. Writing(d)' /\ Records(read[d], n)'
          BY <2>3, <3>1, <3>3, <3>5, <4>2 DEF Records
        <5> QED
          BY <5>1
      <4> QED
        BY <4>1, <4>2
    <3>6. home[n] # None
      BY <3>1
    <3> QED
      BY <3>2, <3>4, <3>5, <3>6 DEF HomeIsRecorded
  <2> QED
    BY <2>2, <2>4, <2>5, <2>6
<1>6. ASSUME NEW c \in Commands, NEW p \in Paths, RemoveState(c, p) PROVE Goal
  <2>1. /\ Running(c) /\ job[c].op = "delete" /\ Head(todo[c]) = "remove" /\ UNCHANGED kube
        /\ job[c].name \in Names
    BY <1>6, TailType DEF RemoveState
  <2>2. ~Writing(c)
    BY <2>1 DEF Writing
  <2>3. CASE statePaths[c] = {p}
    <3>1. home' = [home EXCEPT ![job[c].name] = None]
      BY <1>6, <2>3 DEF RemoveState
    <3>2. home'[n] = home[n] /\ ~Deletes(c, n)
      BY <1>0, <2>1, <3>1 DEF TypeOK, Deletes
    <3> QED
      BY <1>1, <1>6, <2>1, <2>2, <3>2, OthersStay
  <2>4. CASE statePaths[c] # {p}
    <3>1. UNCHANGED <<job, todo, home>>
      BY <1>6, <2>4 DEF RemoveState
    <3>2. Deletes(c, n) => Deletes(c, n)'
      BY <3>1 DEF Deletes, Late, Running
    <3> QED
      BY <1>1, <1>6, <2>1, <2>2, <3>1, <3>2, OthersStay
  <2> QED
    BY <2>3, <2>4
<1>7. ASSUME NEW c \in Commands, StopEarly(c) PROVE Goal
  <2>1. CASE Head(todo[c]) = "write"
    BY <1>7, <2>1 DEF StopEarly
  <2>2. CASE Head(todo[c]) # "write"
    <3>1. home' = [home EXCEPT ![job[c].name] = IF job[c].op = "delete" THEN None ELSE @] /\ UNCHANGED kube
            /\ Running(c)
      BY <1>7, <2>2 DEF StopEarly
    <3>2. home'[n] = home[n] /\ ~Deletes(c, n)
      BY <1>0, <3>1 DEF TypeOK, Deletes
    <3>3. ~Writing(c)
      BY <2>2 DEF Writing
    <3> QED
      BY <1>1, <1>7, <3>1, <3>2, <3>3, OthersStay
  <2> QED
    BY <2>1, <2>2
(* kubectl changes no entry.                                               *)
<1>8. ASSUME kube'.entries[n] = kube.entries[n], UNCHANGED <<job, todo, read, home>> PROVE Goal
  <2>1. Records(kube, n) => Records(kube, n)'
    BY <1>8 DEF Records
  <2>2. \A d \in Commands : /\ Deletes(d, n) => Deletes(d, n)'
                            /\ Writing(d) /\ Records(read[d], n) => Writing(d)' /\ Records(read[d], n)'
    BY <1>8 DEF Deletes, Late, Writing, Running, Records
  <2> QED
    BY <1>8, <2>1, <2>2 DEF HomeIsRecorded
<1>9. ASSUME NEW m \in Names, UseContext(m) \/ DropContext(m) PROVE Goal
  <2>1. kube'.entries = kube.entries
    BY <1>0, <1>9 DEF UseContext, DropContext, TypeOK, Config
  <2> QED
    BY <1>8, <1>9, <2>1 DEF UseContext, DropContext, commandVars
<1>10. CASE UNCHANGED vars
  BY <1>8, <1>10 DEF vars, commandVars
<1> QED
  BY <1>2, <1>3, <1>4, <1>5, <1>6, <1>7, <1>9, <1>10 DEF Next

(* The command that deletes a context has its state file before it, or has *)
(* removed it.                                                             *)
LEMMA StepHomeIsCleared ==
    ASSUME HInv, [Next]_vars, ~interfered'
    PROVE  HomeIsCleared'
<1> SUFFICES ASSUME NEW d \in Commands, NEW n \in Names, Deletes(d, n)', home'[n] # None
             PROVE  Clears(d, n)'
  BY DEF HomeIsCleared
<1> USE DEF fileVars, historyVars, Doing
<1>0. /\ TInv /\ TypeOK /\ OwnPaths /\ home[n] \in {n, 0, None} /\ n \in Paths /\ n # 0 /\ n # None /\ 0 # None
      /\ DeletesApart /\ HomeIsRecorded /\ HomeIsCleared
  <2>1. n \in Nat \ {0} /\ None \notin Paths /\ 0 \in Paths /\ n \in Paths
    BY FilesAssumption DEF Paths
  <2>2. ~interfered
    BY NeverForgotten
  <2> QED
    BY <2>1, <2>2 DEF HInv, DInv, TInv, HomeIsOwn, Orderly
(* The command had begun before, and no other state is saved at the path.  *)
<1>1. ASSUME Deletes(d, n), home'[n] = home[n], statePaths'[d] = statePaths[d],
             home[n] # 0 /\ state[home[n]] = None => state'[home[n]] = None
      PROVE  Clears(d, n)'
  BY <1>0, <1>1 DEF HomeIsCleared, Clears
<1>2. ASSUME NEW c \in Commands \ {d}, todo'[d] = todo[d], job'[d] = job[d]
      PROVE  Deletes(d, n)
  BY <1>2 DEF Deletes, Late, Running
<1>3. ASSUME NEW c \in Commands, NEW m \in ProxyNames,
             \/ \E p \in Paths, options \in Options : StartAdd(c, m, p, options)
             \/ \E p \in Paths \cup {None} : StartDelete(c, m, p)
      PROVE  Clears(d, n)'
  <2>1. ~Late(c)' /\ UNCHANGED <<state, home>>
    BY <1>0, <1>3, StartsOwn
  <2>2. d # c
    BY <2>1 DEF Deletes
  <2> QED
    BY <1>0, <1>1, <1>2, <1>3, <2>1, <2>2, OthersStay
<1>4. ASSUME NEW c \in Commands, Select(c) \/ ReadForAdd(c)
      PROVE  Clears(d, n)'
  <2>1. job[c].op = "add" /\ UNCHANGED <<state, home>>
    BY <1>4 DEF Select, ReadForAdd
  <2>2. d # c
    <3>1. d = c => job'[c] = job[c]
      BY <1>0, <1>4, KeepsJob DEF Deletes, Late, Running
    <3> QED
      BY <2>1, <3>1 DEF Deletes
  <2> QED
    BY <1>0, <1>1, <1>2, <1>4, <2>1, <2>2, OthersStay
<1>5. ASSUME NEW c \in Commands, SaveState(c) PROVE Clears(d, n)'
  <2> DEFINE p == job[c].path
  <2>1. Running(c) /\ job[c].op = "add" /\ UNCHANGED home /\ p \in {job[c].name, 0} /\ p \in Paths
    BY <1>0, <1>5 DEF SaveState, OwnPaths, TInv, JobInv
  <2>2. d # c
    <3>1. d = c => job'[c] = job[c]
      BY <1>0, <1>5, KeepsJob DEF Deletes, Late, Running
    <3> QED
      BY <2>1, <3>1 DEF Deletes
  <2>3. /\ Deletes(d, n) /\ statePaths'[d] = statePaths[d] /\ Running(d) /\ job[d].name = n
    BY <1>0, <1>2, <1>5, <2>2, OthersStay DEF Deletes, Late
  <2>4. ASSUME home[n] = n, state[n] = None PROVE state'[n] = None
    <3>1. CASE state' = state
      BY <2>4, <3>1
    <3>2. CASE state' # state
      <4>1. ~Shared(c, p) /\ \E x : state' = [state EXCEPT ![p] = x]
        BY <1>5, <3>2 DEF SaveState, Disturbs
      <4>2. job[c].name # n
        BY <2>2, <2>3, <4>1 DEF Shared
      <4>3. p # n
        BY <1>0, <2>1, <4>2
      <4> QED
        BY <1>0, <2>4, <4>1, <4>3 DEF TypeOK
    <3> QED
      BY <3>1, <3>2
  <2> QED
    BY <1>0, <1>1, <2>1, <2>3, <2>4
(* What is recorded when the kubeconfig is read is among the paths.        *)
<1>6. ASSUME NEW c \in Commands, ReadForDelete(c) PROVE Clears(d, n)'
  <2>1. Running(c) /\ job[c].op = "delete" /\ UNCHANGED <<kube, state, home>> /\ Head(todo[c]) = "read"
    BY <1>6 DEF ReadForDelete
  <2>2. CASE d # c
    BY <1>0, <1>1, <1>2, <1>6, <2>1, <2>2, OthersStay
  <2>3. CASE d = c
    <3>1. job'[c] = job[c] /\ todo'[c] # <<>>
      BY <1>0, <1>6, <2>3, KeepsJob DEF Deletes, Late, Running
    <3>2. ~Refuses(c)
      BY <1>0, <1>6, <3>1 DEF ReadForDelete, Proceeds, TypeOK
    <3>3. statePaths'[c] = PathsOf(c) /\ ~Torn /\ \A p \in PathsOf(c) : ~Shared(c, p)
      BY <1>0, <1>6, <3>2 DEF ReadForDelete, TypeOK
    <3>4. job[c].name = n /\ job[c].path \in {None, 0}
      BY <1>0, <2>1, <2>3, <3>1 DEF Deletes, OwnPaths
    <3>5. \A e \in Commands : ~Writing(e)
      BY <3>3 DEF Torn, Writing
    <3>6. \A e \in Commands : ~Deletes(e, n)
      <4>1. PICK p \in PathsOf(c) : TRUE
        BY DEF PathsOf
      <4>2. ~Shared(c, p)
        BY <3>3, <4>1
      <4>3. ~Late(c)
        BY <2>1 DEF Late
      <4> QED
        BY <3>4, <4>2, <4>3 DEF Shared, Deletes, Late
    <3>7. kube.entries[n] # None /\ kube.entries[n].path = home[n]
      BY <1>0, <2>1, <3>5, <3>6 DEF HomeIsRecorded, Records
    <3>8. PathsOf(c) = {home[n]} \cup (IF job[c].path = None THEN {} ELSE {job[c].path})
      BY <3>4, <3>7 DEF PathsOf
    <3>9. home[n] \in PathsOf(c) /\ (home[n] = 0 => PathsOf(c) = {0})
      BY <3>4, <3>8
    <3> QED
      BY <2>1, <2>3, <3>3, <3>9 DEF Clears
  <2> QED
    BY <2>2, <2>3
<1>7. ASSUME NEW c \in Commands, Truncate(c) PROVE Clears(d, n)'
  <2>1. Running(c) /\ Head(todo[c]) = "truncate" /\ UNCHANGED <<state, job, statePaths, home>>
    BY <1>7 DEF Truncate
  <2>2. Deletes(d, n)
    <3>1. CASE d = c
      BY <2>1, <3>1 DEF Deletes, Late
    <3>2. CASE d # c
      BY <1>0, <1>2, <1>7, <3>2, OthersStay
    <3> QED
      BY <3>1, <3>2
  <2> QED
    BY <1>1, <2>1, <2>2
<1>8. ASSUME NEW c \in Commands, Write(c) PROVE Clears(d, n)'
  <2>1. /\ Running(c) /\ Head(todo[c]) = "write" /\ Proceeds(c, Tail(todo[c])) /\ UNCHANGED state
        /\ home' = [home EXCEPT ![job[c].name] = IF job[c].op = "add" THEN job[c].path ELSE @]
    BY <1>8 DEF Write
  <2>2. Late(c) /\ job[c].name \in Names
    BY <1>0, <2>1, TailType DEF Late
  <2>3. CASE d = c
    <3>1. todo'[c] # <<>> /\ job'[c] = job[c]
      BY <1>0, <1>8, <2>3, KeepsJob DEF Deletes, Late, Running
    <3>2. statePaths'[c] = statePaths[c] /\ job[c].op = "delete" /\ Deletes(c, n)
      <4>1. Tail(todo[c]) # <<>>
        BY <1>0, <2>1, <3>1 DEF Proceeds, TypeOK
      <4>2. job[c].op = "delete"
        BY <2>3, <3>1 DEF Deletes
      <4> QED
        BY <2>1, <2>2, <2>3, <3>1, <4>1, <4>2 DEF Proceeds, Deletes
    <3>3. home'[n] = home[n]
      BY <1>0, <2>1, <2>2, <3>2 DEF TypeOK
    <3> QED
      BY <1>1, <2>1, <2>3, <3>2, <3>3
  <2>4. CASE d # c
    <3>1. Deletes(d, n) /\ statePaths'[d] = statePaths[d]
      BY <1>0, <1>2, <1>8, <2>4, OthersStay
    <3>2. job[c].name # n
      BY <1>0, <2>2, <2>4, <3>1 DEF Deletes, DeletesApart
    <3>3. home'[n] = home[n]
      BY <1>0, <2>1, <2>2, <3>2 DEF TypeOK
    <3> QED
      BY <1>1, <2>1, <3>1, <3>3
  <2> QED
    BY <2>3, <2>4
<1>9. ASSUME NEW c \in Commands, NEW p \in Paths, RemoveState(c, p) PROVE Clears(d, n)'
  <2>1. /\ Running(c) /\ job[c].op = "delete" /\ Head(todo[c]) = "remove" /\ job[c].name \in Names
        /\ state' = [state EXCEPT ![p] = None] /\ p \in statePaths[c]
    BY <1>0, <1>9, TailType DEF RemoveState
  <2>2. home'[n] = home[n]
    <3>1. home' = [home EXCEPT ![job[c].name] = None] \/ home' = home
      BY <1>9 DEF RemoveState
    <3> QED
      BY <1>0, <2>1, <3>1 DEF TypeOK
  <2>3. home[n] \in Paths /\ (state[home[n]] = None => state'[home[n]] = None)
    BY <1>0, <2>1, <2>2 DEF TypeOK, Paths
  <2>4. CASE d # c
    BY <1>0, <1>1, <1>2, <1>9, <2>2, <2>3, <2>4, OthersStay
  <2>5. CASE d = c
    <3>1. todo'[c] # <<>>
      BY <2>5 DEF Deletes, Late, Running
    <3>2. statePaths[c] # {p}
      <4>1. Tail(todo[c]) = <<>>
        BY <1>0, <2>1, DeleteSteps DEF TInv, JobInv
      <4> QED
        BY <1>0, <1>9, <3>1, <4>1 DEF RemoveState, Proceeds, TypeOK
    <3>3. statePaths'[c] = statePaths[c] \ {p} /\ UNCHANGED <<job, todo>>
      BY <1>0, <1>9, <3>2 DEF RemoveState, TypeOK
    <3>4. Deletes(c, n)
      BY <2>5, <3>3 DEF Deletes, Late, Running
    <3>5. Clears(c, n)
      BY <1>0, <2>2, <3>4 DEF HomeIsCleared
    <3>6. home[n] # 0 /\ (home[n] \in statePaths[c] \/ state[home[n]] = None)
      BY <2>1, <3>2, <3>5 DEF Clears
    <3>7. home[n] \in statePaths'[c] \/ state'[home[n]] = None
      BY <1>0, <2>1, <2>3, <3>3, <3>6 DEF TypeOK
    <3> QED
      BY <2>2, <2>5, <3>6, <3>7 DEF Clears
  <2> QED
    BY <2>4, <2>5
<1>10. ASSUME NEW c \in Commands, StopEarly(c) PROVE Clears(d, n)'
  <2>1. d # c
    BY <1>0, <1>10, KeepsJob DEF Deletes, Late, Running
  <2>2. home'[n] = home[n] /\ UNCHANGED state
    <3>1. \/ home' = [m \in Names |-> None]
          \/ home' = [home EXCEPT ![job[c].name] = IF job[c].op = "delete" THEN None ELSE @]
      BY <1>10 DEF StopEarly
    <3>2. UNCHANGED state
      BY <1>10 DEF StopEarly
    <3> QED
      BY <1>0, <3>1, <3>2 DEF TypeOK
  <2> QED
    BY <1>0, <1>1, <1>2, <1>10, <2>1, <2>2, OthersStay
<1>11. CASE UNCHANGED <<job, todo, statePaths, state, home>>
  <2>1. Deletes(d, n)
    BY <1>11 DEF Deletes, Late, Running
  <2> QED
    BY <1>1, <1>11, <2>1
<1>12. ASSUME NEW m \in Names, UseContext(m) \/ DropContext(m) PROVE Clears(d, n)'
  BY <1>11, <1>12 DEF UseContext, DropContext, commandVars
<1>13. CASE UNCHANGED vars
  BY <1>11, <1>13 DEF vars, commandVars
<1> QED
  BY <1>3, <1>4, <1>5, <1>6, <1>7, <1>8, <1>9, <1>10, <1>12, <1>13 DEF Next

LEMMA StepHInv == HInv /\ [Next]_vars => HInv'
<1> SUFFICES ASSUME HInv, [Next]_vars PROVE HInv'
  OBVIOUS
<1>1. DInv' /\ OwnPaths' /\ HomeIsOwn'
  BY StepDInv, StepOwnPaths, StepHomeIsOwn DEF HInv, DInv
<1>2. ASSUME ~interfered' PROVE SavedWhole' /\ HomeIsRecorded' /\ HomeIsCleared'
  <2>1. ~interfered
    BY <1>2, NeverForgotten
  <2> QED
    BY <1>2, <2>1, StepSavedWhole, StepHomeIsRecorded, StepHomeIsCleared DEF HInv, DInv
<1> QED
  BY <1>1, <1>2 DEF HInv
------------------------------------------------------------------------------
(* A context that is added is not one of those that its selection selects: *)
(* the new kubeconfig gives the same ones, and the same primary.           *)
LEMMA SelectionUnmoved ==
    ASSUME NEW sel \in Selection, NEW config \in Config, NEW j \in Job, Selects(sel, j.name, config)
    PROVE  LET added == WithContext(config, j)
           IN  /\ Selects(sel, j.name, added)
               /\ Selected(sel, added) = Selected(sel, config)
               /\ Primary(sel, added) = Primary(sel, config)
<1> DEFINE added == WithContext(config, j)
<1>1. j.name \in Names /\ sel.regexp \subseteq Names /\ Listed(sel) \subseteq Names
  BY DEF Job, Selection, Listed
<1>2. /\ added.contexts[j.name] = "proxy" /\ added.current = config.current
      /\ \A n \in Names \ {j.name} : added.contexts[n] = config.contexts[n]
  BY <1>1 DEF WithContext, Config
<1> HIDE DEF added
<1>3. j.name \notin Matched(sel, config)
  BY DEF Selects, Selected
<1>4. Matched(sel, added) = Matched(sel, config)
  BY <1>1, <1>2, <1>3 DEF Matched
<1>5. Selected(sel, added) = Selected(sel, config)
  BY <1>4 DEF Selected
<1>6. FirstSelected(sel, added) = FirstSelected(sel, config)
  BY <1>4 DEF FirstSelected
<1>7. Primary(sel, added) = Primary(sel, config)
  BY <1>2, <1>5, <1>6 DEF Primary
<1>8. Selected(sel, config) \subseteq Names \ {j.name}
  BY <1>1 DEF Selects, Selected, Matched
<1>9. Selects(sel, j.name, added)
  BY <1>2, <1>5, <1>7, <1>8 DEF Selects
<1> QED
  BY <1>5, <1>7, <1>9 DEF added

(* add_context.go:50-78, serve.go:100-108 -- however many commands there   *)
(* are, what an undisturbed add-context writes can be served: the state at *)
(* the path it records is the one it saved, with the certificate it        *)
(* trusts, and its selection is the same in the new kubeconfig.            *)
THEOREM AddedIsServable == Spec => AddedContextIsServable
<1> DEFINE Served(c) ==
      LET j == job[c]
          profile == state[kube'.entries[j.name].path]
      IN /\ profile.name = j.name /\ profile.id = kube'.entries[j.name].cert
         /\ Selects(profile.contexts, j.name, read[c]) =>
              /\ Selects(profile.contexts, j.name, kube')
              /\ Selected(profile.contexts, kube') = Selected(profile.contexts, read[c])
              /\ Primary(profile.contexts, kube') = Primary(profile.contexts, read[c])
<1>1. ASSUME HInv, NEW c \in Commands, Doing(c, "add", "write"), Write(c), ~interfered'
      PROVE  Served(c)
  <2> DEFINE j == job[c]
  <2>1. TInv /\ TypeOK /\ ~interfered /\ SavedWhole
    BY <1>1 DEF HInv, DInv, TInv, Write
  <2>2. Running(c) /\ Late(c) /\ j.op = "add" /\ kube' = WithContext(read[c], j)
    BY <1>1 DEF Doing, Write, Late
  <2>3. /\ j \in Job /\ j.name \in Names /\ j.path \in Paths /\ j.contexts \in Selection /\ read[c] \in Config
    BY <2>1, <2>2, TailType DEF TypeOK, TInv, JobInv
  <2>4. kube'.entries[j.name] = [path |-> j.path, cert |-> j.id]
    BY <2>2, <2>3 DEF WithContext, Config
  <2>5. state[j.path] = ProfileOf(j)
    BY <2>1, <2>2 DEF SavedWhole
  <2>6. state[kube'.entries[j.name].path] = ProfileOf(j) /\ kube'.entries[j.name].cert = j.id
    BY <2>4, <2>5
  <2>7. ProfileOf(j).name = j.name /\ ProfileOf(j).id = j.id /\ ProfileOf(j).contexts = j.contexts
    BY DEF ProfileOf
  <2>8. Selects(j.contexts, j.name, read[c]) =>
              /\ Selects(j.contexts, j.name, kube')
              /\ Selected(j.contexts, kube') = Selected(j.contexts, read[c])
              /\ Primary(j.contexts, kube') = Primary(j.contexts, read[c])
    BY <2>2, <2>3, SelectionUnmoved
  <2> QED
    BY <2>6, <2>7, <2>8
<1>2. HInv /\ [Next]_vars =>
        [\A c \in Commands : Doing(c, "add", "write") /\ Write(c) /\ ~interfered' => Served(c)]_vars
  BY <1>1
<1> QED
  BY <1>2, InitHInv, StepHInv, PTL DEF Spec, AddedContextIsServable

(* write.go:49-88, delete_context.go:76-119 -- however many commands there *)
(* are, when an undisturbed delete-context finishes, the kubeconfig has    *)
(* neither context nor entry of the name, and the state file that its last *)
(* add-context wrote is gone, wherever the entry had recorded it.          *)
THEOREM DeletedLeavesNothing == Spec => DeleteCleansUp
<1> DEFINE Clean(c) ==
      LET n == job[c].name IN
      /\ kube.contexts[n] # "proxy" /\ kube.entries[n] = None
      /\ home[n] # None => state'[home[n]] = None
<1>1. ASSUME HInv, NEW c \in Commands, NEW p \in Paths,
             RemoveState(c, p), todo'[c] = <<>>, ~interfered'
      PROVE  Clean(c)
  <2> DEFINE n == job[c].name
  <2>1. ~interfered /\ TypeOK /\ HomeIsCleared /\ DeletedIsGone /\ HomeIsOwn
    BY <1>1 DEF HInv, DInv, TInv, Orderly, RemoveState
  <2>2. /\ Running(c) /\ job[c].op = "delete" /\ Head(todo[c]) = "remove" /\ todo[c] # <<>>
        /\ state' = [state EXCEPT ![p] = None] /\ n \in Names
    BY <1>1, TailType DEF HInv, DInv, RemoveState, Doing, Running
  <2>3. Late(c) /\ Deletes(c, n)
    BY <2>2 DEF Late, Deletes
  <2>4. kube.contexts[n] # "proxy" /\ kube.entries[n] = None
    BY <2>1, <2>2, <2>3 DEF DeletedIsGone, Nowhere, Traces, Has
  <2>5. statePaths[c] = {p}
    BY <1>1, <2>2 DEF RemoveState
  <2>6. ASSUME home[n] # None PROVE state'[home[n]] = None
    <3>1. Clears(c, n)
      BY <2>1, <2>2, <2>3, <2>6 DEF HomeIsCleared
    <3>2. home[n] = p \/ state[home[n]] = None
      BY <2>5, <3>1 DEF Clears
    <3>3. home[n] \in Paths
      BY <2>1, <2>2, <2>6 DEF TypeOK
    <3> QED
      BY <2>1, <2>2, <3>2, <3>3 DEF TypeOK
  <2> QED
    BY <2>4, <2>6
<1>2. HInv /\ [Next]_vars =>
        [\A c \in Commands, p \in Paths :
           RemoveState(c, p) /\ todo'[c] = <<>> /\ ~interfered' => Clean(c)]_vars
  BY <1>1
<1> QED
  BY <1>2, InitHInv, StepHInv, PTL DEF Spec, DeleteCleansUp
==============================================================================
