------------------------------- MODULE Shutdown -------------------------------
(***************************************************************************)
(* shutdown/shutdown.go: hooks are added by any goroutine, and Shutdown, a *)
(* sync.OnceFunc, runs them in order of priority for whoever calls it      *)
(* first - the signal handler, a failing start, the end of main - while    *)
(* the other callers wait.                                                 *)
(***************************************************************************)
EXTENDS Integers, Sequences, FiniteSets, SequencesExt

CONSTANTS
  Hooks,
  Priority,   \* of each hook
  Nil,        \* hooks whose function is nil
  Callers,    \* goroutines that call Shutdown
  Exiting     \* those that call ShutdownAndExit

ShutdownAssumption ==
  /\ Priority \in [Hooks -> Nat] /\ IsFiniteSet(Hooks)
  /\ Nil \subseteq Hooks /\ Exiting \subseteq Callers

VARIABLES
  shutdownTasks,  \* the registry
  added,          \* hooks in the order they were added
  once,           \* the state of the OnceFunc: new, running or done
  pc,             \* of each caller
  tasks,          \* the runner's list
  ran,            \* hooks that have run, in order
  exited          \* os.Exit was called

vars == <<shutdownTasks, added, once, pc, tasks, ran, exited>>

Init ==
  /\ shutdownTasks = << >> /\ added = << >> /\ tasks = << >> /\ ran = << >>
  /\ once = "new" /\ exited = FALSE
  /\ pc = [c \in Callers |-> "idle"]

Goto(c, l) == pc' = [pc EXCEPT ![c] = l]

\* AddHook and AddHookWithPriority.
AddHook(h) ==
  /\ h \notin ToSet(added) /\ ~exited
  /\ shutdownTasks' = Append(shutdownTasks, h)
  /\ added' = Append(added, h)
  /\ UNCHANGED <<once, pc, tasks, ran, exited>>

\* Variant: a caller that finds the function called does not wait for it.
CallAtOnce(c) ==
  /\ pc[c] = "idle" /\ ~exited
  /\ Goto(c, IF once = "new" THEN "take" ELSE "return")
  /\ once' = IF once = "new" THEN "running" ELSE once
  /\ UNCHANGED <<shutdownTasks, added, tasks, ran, exited>>

\* The call of the OnceFunc: the first caller runs the function.
Call(c) ==
  /\ pc[c] = "idle" /\ ~exited
  /\ Goto(c, IF once = "new" THEN "take" ELSE "wait")
  /\ once' = IF once = "new" THEN "running" ELSE once
  /\ UNCHANGED <<shutdownTasks, added, tasks, ran, exited>>

\* sort.SliceStable: at each place the hook with as many before it.
Before(s, i, j) == Priority[s[i]] < Priority[s[j]] \/ (Priority[s[i]] = Priority[s[j]] /\ i < j)
Place(s, j) == Cardinality({i \in DOMAIN s : Before(s, i, j)}) + 1
ByPriority(s) == [n \in DOMAIN s |-> s[CHOOSE j \in DOMAIN s : Place(s, j) = n]]

\* Under registryLock, and the sort.
TakeTasks(c) ==
  /\ pc[c] = "take" /\ ~exited
  /\ tasks' = ByPriority(shutdownTasks)
  /\ shutdownTasks' = << >>
  /\ Goto(c, "run")
  /\ UNCHANGED <<added, once, ran, exited>>

\* A hook is called and returns, or is nil.
RunHook(c) ==
  /\ pc[c] = "run" /\ tasks # << >> /\ ~exited
  /\ ran' = IF Head(tasks) \in Nil THEN ran ELSE Append(ran, Head(tasks))
  /\ tasks' = Tail(tasks)
  /\ UNCHANGED <<shutdownTasks, added, once, pc, exited>>

\* The function returns, and with it the call of the runner.
Done(c) ==
  /\ pc[c] = "run" /\ tasks = << >> /\ ~exited
  /\ once' = "done"
  /\ Goto(c, "return")
  /\ UNCHANGED <<shutdownTasks, added, tasks, ran, exited>>

\* The mutex of the OnceFunc is free.
Waited(c) ==
  /\ pc[c] = "wait" /\ once = "done" /\ ~exited
  /\ Goto(c, "return")
  /\ UNCHANGED <<shutdownTasks, added, once, tasks, ran, exited>>

\* The call returns; ShutdownAndExit ends the process.
Return(c) ==
  /\ pc[c] = "return" /\ ~exited
  /\ Goto(c, "over")
  /\ exited' = (c \in Exiting)
  /\ UNCHANGED <<shutdownTasks, added, once, tasks, ran>>

Next ==
  \/ \E h \in Hooks : AddHook(h)
  \/ \E c \in Callers :
       Call(c) \/ TakeTasks(c) \/ RunHook(c) \/ Done(c) \/ Waited(c) \/ Return(c)

Spec == Init /\ [][Next]_vars

-----------------------------------------------------------------------------
(* Properties.                                                             *)

\* The state of the OnceFunc: one caller at most is in the function, while it runs.
TypeOK ==
  /\ ToSet(shutdownTasks) \subseteq Hooks /\ ToSet(tasks) \subseteq Hooks
  /\ ToSet(ran) \subseteq Hooks \ Nil /\ ToSet(added) \subseteq Hooks
  /\ pc \in [Callers -> {"idle", "take", "run", "wait", "return", "over"}]
  /\ once \in {"new", "running", "done"} /\ exited \in BOOLEAN
  /\ once = "running" <=> \E c \in Callers : pc[c] \in {"take", "run"}

\* Shutdown, ShutdownAndExit: no call returns, and the process does not exit, before
\* every hook that was added when the hooks were taken has run, whoever ran them.
HooksRunFirst ==
  \A c \in Callers : pc[c] \in {"return", "over"} =>
    ToSet(added) \ Nil \subseteq ToSet(ran) \union ToSet(shutdownTasks)

Precedes(g, h) ==
  \/ Priority[g] < Priority[h]
  \/ Priority[g] = Priority[h] /\ \E i, j \in DOMAIN added : i < j /\ added[i] = g /\ added[j] = h

\* AddHookWithPriority: "Execution order goes from lowest to highest priority numbers", and
\* hooks of one priority run in the order in which they were added.
RunInOrder == \A m, n \in DOMAIN ran : m < n => Precedes(ran[m], ran[n])
=============================================================================
