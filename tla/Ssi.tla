-------------------------------- MODULE Ssi --------------------------------
(***************************************************************************)
(* The shell of p1 (p1/ssi.c): its list of background jobs, the processes  *)
(* it forks and what the kernel makes of them.  Children run and end on    *)
(* their own between any two steps of the shell; a process identifier is   *)
(* given again once the shell has waited for the child that had it.  What  *)
(* commands do, and the working directory, are left out.                   *)
(***************************************************************************)
EXTENDS Integers, Sequences, FiniteSets

CONSTANTS
    Pids,                  \* process identifiers the kernel gives the children
    MaxJobs                \* background jobs started in one life of the shell

ASSUME SsiAssumption == MaxJobs \in Nat

Jobs == 1..MaxJobs         \* the nodes of the list, by their age
NULL == 0

VARIABLES
    pc,        \* where the shell is
    bg_head,   \* the newest node
    node,      \* pid and next of each node
    born,      \* nodes 1..born have been allocated
    freed,     \* nodes that have been freed
    current,   \* the locals of check_bg_jobs
    prev,
    fg,        \* the child execute_command waits for
    proc,      \* what the kernel knows of each identifier
    runs,      \* history: the job an identifier was forked for, or NULL
    announced, \* history: how often "has terminated" was printed for each job
    listed     \* history: the total the last bglist printed

list   == <<bg_head, node, born, freed>>
cursor == <<current, prev>>
kernel == <<proc, runs>>
vars == <<pc, list, cursor, fg, kernel, announced, listed>>

(* A child: "free" is an identifier not in use, "zombie" a child that has  *)
(* ended and was not waited for.  A running child ignores SIGINT, as the   *)
(* shell does that forked it, or has set it back to the default.           *)
Running(p) == proc[p] \in {"ignoring", "default"}

Init == /\ pc = "check"
        /\ bg_head = NULL
        /\ node = [j \in Jobs |-> [pid |-> NULL, next |-> NULL]]
        /\ born = 0
        /\ freed = {}
        /\ current = NULL
        /\ prev = NULL
        /\ fg = NULL
        /\ proc = [p \in Pids |-> "free"]
        /\ runs = [p \in Pids |-> NULL]
        /\ announced = [j \in Jobs |-> 0]
        /\ listed = 0

(* The nodes from j on.                                                    *)
From[j \in 0..MaxJobs] == IF j = NULL THEN <<>> ELSE <<j>> \o From[node[j].next]
Listed == LET seq == From[bg_head] IN {seq[i] : i \in DOMAIN seq}

----------------------------------------------------------------------------
(* check_bg_jobs, one round of its loop at a time.                         *)

(* waitpid(current->pid, &status, WNOHANG) > 0                             *)
IsChild(p) == proc[p] # "free"
HasEnded(p) == proc[p] = "zombie"

Reap(p) == /\ proc' = [proc EXCEPT ![p] = "free"]
           /\ runs' = [runs EXCEPT ![p] = NULL]

(* The node leaves the list ...                                            *)
HeadMoved == bg_head' = IF prev = NULL THEN node[current].next ELSE bg_head

Relinked ==
    node' = IF prev = NULL THEN node
            ELSE [node EXCEPT ![prev].next = node[current].next]

AnnounceJob ==
    /\ pc = "check" /\ current # NULL
    /\ HasEnded(node[current].pid)
    /\ Reap(node[current].pid)
    /\ announced' = [announced EXCEPT ![current] = @ + 1]
    /\ HeadMoved
    /\ Relinked
    /\ freed' = freed \cup {current}
    /\ current' = node[current].next
    /\ UNCHANGED <<pc, born, prev, fg, listed>>

(* ... or stays: the child still runs, or is not the shell's (-1).         *)
StopsThere == NULL
GoesOn == node[current].next

PassJob ==
    /\ pc = "check" /\ current # NULL
    /\ ~HasEnded(node[current].pid)
    /\ prev' = current
    /\ current' = GoesOn
    /\ UNCHANGED <<pc, list, fg, kernel, announced, listed>>

Prompt ==
    /\ pc = "check" /\ current = NULL
    /\ pc' = "prompt"
    /\ UNCHANGED <<list, cursor, fg, kernel, announced, listed>>

----------------------------------------------------------------------------
(* One line of input.                                                      *)

(* The next round of main's loop starts with check_bg_jobs.                *)
NextRound(head) == pc' = "check" /\ current' = head /\ prev' = NULL

(* cd, or an empty line.                                                   *)
NoJob ==
    /\ pc = "prompt"
    /\ NextRound(bg_head)
    /\ UNCHANGED <<list, fg, kernel, announced, listed>>

BgList ==
    /\ pc = "prompt"
    /\ listed' = Len(From[bg_head])
    /\ NextRound(bg_head)
    /\ UNCHANGED <<list, fg, kernel, announced>>

Fork(p, job) ==
    /\ proc[p] = "free"
    /\ proc' = [proc EXCEPT ![p] = "ignoring"]
    /\ runs' = [runs EXCEPT ![p] = job]

BgExecute(p) ==
    /\ pc = "prompt"
    /\ born < MaxJobs
    /\ Fork(p, born + 1)
    /\ born' = born + 1
    /\ node' = [node EXCEPT ![born'] = [pid |-> p, next |-> bg_head]]
    /\ bg_head' = born'
    /\ NextRound(born')
    /\ UNCHANGED <<freed, fg, announced, listed>>

(* A fork that fails is not mentioned.                                     *)
BgExecuteFails ==
    /\ pc = "prompt"
    /\ NextRound(bg_head)
    /\ UNCHANGED <<list, fg, kernel, announced, listed>>

Execute(p) ==
    /\ pc = "prompt"
    /\ Fork(p, NULL)
    /\ fg' = p
    /\ pc' = "waiting"
    /\ UNCHANGED <<list, cursor, announced, listed>>

(* waitpid(pid, &status, 0)                                                *)
AnyChild == {p \in Pids : proc[p] # "free"}
Awaited == {fg}

ForegroundEnds ==
    /\ pc = "waiting"
    /\ \E p \in Awaited : HasEnded(p) /\ Reap(p)
    /\ fg' = NULL
    /\ NextRound(bg_head)
    /\ UNCHANGED <<list, announced, listed>>

(* Ctrl-D at the prompt, or a fork that fails in the foreground.           *)
Exit ==
    /\ pc = "prompt"
    /\ pc' = "exited"
    /\ UNCHANGED <<list, cursor, fg, kernel, announced, listed>>

----------------------------------------------------------------------------
(* The children.                                                           *)

(* A background child sets SIGINT back to the default before its execvp.   *)
SetDefault(p) ==
    /\ proc[p] = "ignoring" /\ runs[p] # NULL
    /\ proc' = [proc EXCEPT ![p] = "default"]
    /\ UNCHANGED <<pc, list, cursor, fg, runs, announced, listed>>

(* Its program cannot be executed, returns, or is killed.                  *)
ChildEnds(p) ==
    /\ Running(p)
    /\ proc' = [proc EXCEPT ![p] = "zombie"]
    /\ UNCHANGED <<pc, list, cursor, fg, runs, announced, listed>>

(* Ctrl-C is a SIGINT to every process of the shell's group, itself too.   *)
CtrlC ==
    /\ proc' = [p \in Pids |-> IF proc[p] = "default" THEN "zombie" ELSE proc[p]]
    /\ UNCHANGED <<pc, list, cursor, fg, runs, announced, listed>>

----------------------------------------------------------------------------
Check == AnnounceJob \/ PassJob \/ Prompt
Line  == \/ NoJob \/ BgList \/ BgExecuteFails \/ Exit
         \/ \E p \in Pids : BgExecute(p) \/ Execute(p)

(* The shell is gone; its children go on without it.                       *)
Exited == pc = "exited" /\ UNCHANGED vars

Next == \/ Check \/ Line \/ ForegroundEnds \/ Exited
        \/ CtrlC \/ \E p \in Pids : SetDefault(p) \/ ChildEnds(p)

Spec == Init /\ [][Next]_vars

(* The shell runs while it does not wait for the user or a child.  The     *)
(* user need not type anything, and a child need not end.                  *)
FairSpec == Spec /\ WF_vars(Check) /\ WF_vars(ForegroundEnds)

----------------------------------------------------------------------------
(* What must hold of the shell.                                            *)

(* The background children the shell has not waited for.                   *)
Unreaped == {p \in Pids : proc[p] # "free" /\ runs[p] # NULL}

(* The list has one node for each of them and no other: through removals   *)
(* at its head, in the middle and at its end while children end meanwhile, *)
(* and although identifiers are given again, a node never names another    *)
(* process than its own job's, and the walk never stands on a freed node.  *)
ListExact == /\ \A p \in Unreaped : \E j \in Listed : node[j].pid = p /\ runs[p] = j
             /\ \A j \in Listed : node[j].pid \in Unreaped /\ runs[node[j].pid] = j
             /\ (Listed \cup {current, prev}) \cap freed = {}

StateOf(j) ==
    CASE announced[j] > 0 -> "announced"
      [] announced[j] = 0 /\ j > born -> "unborn"
      [] OTHER -> IF \E p \in Pids : Running(p) /\ runs[p] = j THEN "running" ELSE "terminated"

(* The promise about jobs, with list, processes and identifiers hidden.    *)
Table == INSTANCE JobTable WITH state <- [j \in Jobs |-> StateOf(j)]

(* A job is announced once, and not before it has terminated.              *)
JobsAnnouncedOnce == Table!JTSafe

(* A user who keeps coming back to the prompt is told of every termination. *)
TerminationsAnnounced ==
    []<>(pc = "prompt") /\ []<>(pc # "prompt") => Table!JTLive
============================================================================
