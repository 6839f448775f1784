----------------------------- MODULE SsiProofs -----------------------------
(***************************************************************************)
(* The shell of p1/ssi.c, for any number of jobs and identifiers: its list *)
(* of background jobs is exactly the children it has not waited for, and   *)
(* each job is announced once, after it has ended.                         *)
(*                                                                         *)
(* The invariant knows the list by its nodes: those allocated and not      *)
(* freed (Alive), each of which points to the next older one.  That this   *)
(* is also what the shell walks (From) needs an induction over the nodes,  *)
(* which is by the least one for which it fails.                           *)
(***************************************************************************)
EXTENDS Ssi, TLAPS, SequenceTheorems, WellFoundedInduction

Alive == {j \in Jobs : j <= born /\ j \notin freed}

(* y is the newest of the nodes in alive that is older than x, or NULL.    *)
NextOlder(alive, x, y) ==
    /\ y \in alive \cup {NULL} /\ y < x
    /\ \A z \in alive : z < x => z <= y

TypeOK == /\ pc \in {"check", "prompt", "waiting", "exited"}
          /\ born \in 0..MaxJobs
          /\ freed \in SUBSET (1..born)
          /\ node \in [Jobs -> [pid : Pids \cup {NULL}, next : 0..MaxJobs]]
          /\ proc \in [Pids -> {"free", "ignoring", "default", "zombie"}]
          /\ runs \in [Pids -> 0..MaxJobs]
          /\ announced \in [Jobs -> Nat]

Chain == /\ NextOlder(Alive, born + 1, bg_head)
         /\ \A j \in Alive : NextOlder(Alive, j, node[j].next)
         /\ \A j \in Jobs : node[j].next < j

(* Where check_bg_jobs is in the list.                                     *)
Cursor == /\ current \in Alive \cup {NULL} /\ prev \in Alive \cup {NULL}
          /\ pc = "check" => current = IF prev = NULL THEN bg_head ELSE node[prev].next

(* The kernel's view and the list's.                                       *)
Children == /\ \A p \in Pids : /\ proc[p] = "free" => runs[p] = NULL
                               /\ runs[p] # NULL => runs[p] \in Alive /\ node[runs[p]].pid = p
            /\ \A j \in Alive : node[j].pid \in Pids /\ runs[node[j].pid] = j
            /\ pc = "waiting" => fg \in Pids /\ proc[fg] # "free" /\ runs[fg] = NULL

Told == \A j \in Jobs : announced[j] = IF j \in freed THEN 1 ELSE 0

IInv == TypeOK /\ Chain /\ Cursor /\ Children /\ Told

----------------------------------------------------------------------------
LEMMA AliveNodes ==
    ASSUME TypeOK
    PROVE  /\ Alive \subseteq Jobs /\ NULL \notin Alive
           /\ \A j \in Jobs : j \in Nat \ {0} /\ (j \in Alive <=> j <= born /\ j \notin freed)
           /\ MaxJobs \in Nat
BY SsiAssumption DEF Alive, Jobs, NULL

LEMMA InitIInv == Init => IInv
<1> SUFFICES ASSUME Init PROVE IInv
  OBVIOUS
<1>1. Alive = {}
  BY SsiAssumption DEF Init, Alive, Jobs
<1>2. TypeOK
  BY SsiAssumption DEF Init, TypeOK, Jobs, NULL
<1>3. \A j \in Jobs : 0 < j
  BY SsiAssumption DEF Jobs
<1>4. Chain
  BY <1>1, <1>3 DEF Init, Chain, NextOlder, NULL
<1>5. Cursor /\ Children /\ Told
  BY <1>1 DEF Init, Cursor, Children, Told, NULL
<1> QED
  BY <1>2, <1>4, <1>5 DEF IInv

(* Steps that leave the list alone.                                        *)
LEMMA ListStays ==
    ASSUME IInv, UNCHANGED list, UNCHANGED announced
    PROVE  Chain' /\ Told' /\ Alive' = Alive /\ bg_head \in Alive \cup {NULL}
<1>1. bg_head' = bg_head /\ node' = node /\ born' = born /\ freed' = freed /\ announced' = announced
  BY DEF list
<1>2. Alive' = Alive
  BY <1>1 DEF Alive
<1> QED
  BY <1>1, <1>2 DEF IInv, Chain, Told, NextOlder

LEMMA NextRoundKeeps ==
    ASSUME IInv, UNCHANGED list, UNCHANGED announced, NextRound(bg_head)
    PROVE  Cursor'
BY ListStays DEF NextRound, Cursor, list, NULL

(* The lines that start no child, and the rounds of check_bg_jobs that     *)
(* remove no node.                                                         *)
LEMMA WalkStep ==
    ASSUME IInv, PassJob \/ Prompt \/ NoJob \/ BgList \/ BgExecuteFails \/ Exit
    PROVE  IInv'
<1>1. UNCHANGED list /\ UNCHANGED announced /\ UNCHANGED kernel /\ UNCHANGED fg
  BY DEF PassJob, Prompt, NoJob, BgList, BgExecuteFails, Exit
<1>2. /\ node' = node /\ born' = born /\ freed' = freed /\ announced' = announced
      /\ proc' = proc /\ runs' = runs /\ bg_head' = bg_head /\ fg' = fg
      /\ pc' \in {"check", "prompt", "exited"}
  BY <1>1 DEF list, kernel, PassJob, Prompt, NoJob, BgList, BgExecuteFails, Exit, NextRound
<1>3. Chain' /\ Told' /\ Alive' = Alive /\ bg_head \in Alive \cup {NULL}
  BY <1>1, ListStays
<1>4. TypeOK' /\ Children'
  BY <1>2, <1>3 DEF IInv, TypeOK, Children
<1>5. Cursor'
  <2>1. CASE PassJob
    <3>1. /\ pc = "check" /\ current # NULL /\ prev' = current /\ current' = node[current].next
          /\ pc' = pc
      BY <2>1 DEF PassJob, GoesOn
    <3>2. current \in Alive /\ node[current].next \in Alive \cup {NULL}
      BY <3>1 DEF IInv, Cursor, Chain, NextOlder
    <3> QED
      BY <1>2, <1>3, <3>1, <3>2 DEF Cursor
  <2>2. CASE Prompt \/ Exit
    BY <1>3, <2>2 DEF Prompt, Exit, cursor, IInv, Cursor
  <2>3. CASE NoJob \/ BgList \/ BgExecuteFails
    <3>1. NextRound(bg_head)
      BY <2>3 DEF NoJob, BgList, BgExecuteFails
    <3> QED
      BY <1>1, <3>1, NextRoundKeeps
  <2> QED
    BY <2>1, <2>2, <2>3
<1> QED
  BY <1>3, <1>4, <1>5 DEF IInv

(* A foreground command, and what the children do.                         *)
LEMMA ProcessStep ==
    ASSUME IInv, CtrlC \/ \E p \in Pids : Execute(p) \/ SetDefault(p) \/ ChildEnds(p)
    PROVE  IInv'
<1>1. UNCHANGED list /\ UNCHANGED announced /\ UNCHANGED cursor
  BY DEF CtrlC, Execute, SetDefault, ChildEnds
<1>2. /\ node' = node /\ born' = born /\ freed' = freed /\ announced' = announced
      /\ bg_head' = bg_head /\ current' = current /\ prev' = prev
  BY <1>1 DEF list, cursor
<1>3. Chain' /\ Told' /\ Alive' = Alive
  BY <1>1, ListStays
<1>4. /\ proc' \in [Pids -> {"free", "ignoring", "default", "zombie"}]
      /\ runs' = runs /\ pc' \in {pc, "waiting"}
      /\ pc' = "check" => pc = "check"
  BY DEF CtrlC, Execute, SetDefault, ChildEnds, Fork, IInv, TypeOK, Children
<1>5. TypeOK' /\ Cursor'
  BY <1>2, <1>3, <1>4 DEF IInv, TypeOK, Cursor
<1>6. \A p \in Pids : proc'[p] = "free" => proc[p] = "free"
  BY DEF CtrlC, Execute, SetDefault, ChildEnds, Fork, Running, IInv, TypeOK
<1>7. pc' = "waiting" => fg' \in Pids /\ proc'[fg'] # "free" /\ runs[fg'] = NULL
  <2>1. CASE \E p \in Pids : Execute(p)
    BY <2>1 DEF Execute, Fork, IInv, TypeOK, Children
  <2>2. CASE CtrlC \/ \E p \in Pids : SetDefault(p) \/ ChildEnds(p)
    <3>1. fg' = fg /\ pc' = pc
      BY <2>2 DEF CtrlC, SetDefault, ChildEnds
    <3> QED
      BY <1>6, <3>1 DEF IInv, Children
  <2> QED
    BY <2>1, <2>2
<1>8. Children'
  BY <1>2, <1>3, <1>4, <1>6, <1>7 DEF IInv, Children
<1> QED
  BY <1>3, <1>5, <1>8 DEF IInv

LEMMA ForegroundStep ==
    ASSUME IInv, ForegroundEnds
    PROVE  IInv'
<1>1. UNCHANGED list /\ UNCHANGED announced /\ NextRound(bg_head)
  BY DEF ForegroundEnds
<1>2. /\ node' = node /\ born' = born /\ freed' = freed /\ announced' = announced /\ bg_head' = bg_head
      /\ pc' = "check"
  BY <1>1 DEF list, NextRound
<1>3. Chain' /\ Told' /\ Alive' = Alive /\ Cursor'
  BY <1>1, ListStays, NextRoundKeeps
<1>4. /\ fg \in Pids /\ proc' = [proc EXCEPT ![fg] = "free"] /\ runs' = [runs EXCEPT ![fg] = NULL]
      /\ runs[fg] = NULL
  BY DEF ForegroundEnds, Awaited, Reap, IInv, Children
<1>5. runs' = runs
  BY <1>4 DEF IInv, TypeOK
<1>6. TypeOK' /\ Children'
  BY <1>2, <1>3, <1>4, <1>5 DEF IInv, TypeOK, Children
<1> QED
  BY <1>3, <1>6 DEF IInv

(* A background job starts: its node becomes the head.                     *)
LEMMA BgStep ==
    ASSUME IInv, NEW p \in Pids, BgExecute(p)
    PROVE  IInv'
<1>1. PICK b \in Jobs : b = born + 1
  BY SsiAssumption DEF BgExecute, IInv, TypeOK, Jobs
<1>2. /\ proc[p] = "free" /\ proc' = [proc EXCEPT ![p] = "ignoring"]
      /\ runs' = [runs EXCEPT ![p] = b]
      /\ born' = b /\ node' = [node EXCEPT ![b] = [pid |-> p, next |-> bg_head]]
      /\ bg_head' = b /\ pc' = "check" /\ current' = b /\ prev' = NULL
      /\ freed' = freed /\ announced' = announced
  BY <1>1 DEF BgExecute, Fork, NextRound
<1>3. b \in Nat \ {0} /\ b \notin freed /\ \A j \in Jobs : j <= b <=> j <= born \/ j = b
  BY <1>1, AliveNodes DEF IInv, TypeOK
<1>4. Alive' = Alive \cup {b}
  BY <1>2, <1>3 DEF Alive
<1>5. b \notin Alive /\ \A j \in Alive : j < b /\ j \in Jobs /\ j \in Nat \ {0}
  <2>1. \A j \in Alive : j \in Jobs /\ j \in Nat \ {0} /\ j <= born
    BY AliveNodes DEF IInv
  <2> QED
    BY <1>1, <2>1 DEF IInv, TypeOK
<1>6. bg_head \in Alive \cup {NULL} /\ bg_head \in 0..MaxJobs /\ NextOlder(Alive, b, bg_head)
  BY <1>1, AliveNodes DEF IInv, Chain, NextOlder, NULL, Jobs
<1>7. /\ \A j \in Jobs : j # b => node'[j] = node[j]
      /\ node'[b].pid = p /\ node'[b].next = bg_head
  BY <1>2 DEF IInv, TypeOK
<1>8. TypeOK'
  <2>1. [pid |-> p, next |-> bg_head] \in [pid : Pids \cup {NULL}, next : 0..MaxJobs]
    BY <1>6
  <2>2. node' \in [Jobs -> [pid : Pids \cup {NULL}, next : 0..MaxJobs]]
    BY <1>2, <2>1 DEF IInv, TypeOK
  <2>3. b \in 0..MaxJobs /\ freed \in SUBSET (1..b)
    BY <1>1, <1>3, SsiAssumption DEF Jobs, IInv, TypeOK
  <2> QED
    BY <1>2, <2>2, <2>3 DEF IInv, TypeOK
<1>9. Chain'
  <2>1. NextOlder(Alive \cup {b}, b + 1, b)
    BY <1>3, <1>5 DEF NextOlder
  <2>2. NextOlder(Alive \cup {b}, b, bg_head)
    BY <1>3, <1>6 DEF NextOlder
  <2>3. \A j \in Alive : NextOlder(Alive \cup {b}, j, node[j].next)
    BY <1>3, <1>5 DEF NextOlder, IInv, Chain
  <2>4. \A j \in Alive \cup {b} : NextOlder(Alive \cup {b}, j, node'[j].next)
    BY <1>5, <1>7, <2>2, <2>3
  <2>5. \A j \in Jobs : node'[j].next < j
    BY <1>6, <1>7 DEF IInv, Chain, NextOlder
  <2> QED
    BY <1>2, <1>4, <2>1, <2>4, <2>5 DEF Chain
<1>10. Cursor'
  BY <1>2, <1>4 DEF Cursor
<1>11. Children'
  <2>1. runs[p] = NULL /\ \A j \in Alive : node[j].pid # p
    BY <1>2, <1>5 DEF IInv, Children, NULL
  <2>2. \A q \in Pids : q # p => runs'[q] = runs[q] /\ proc'[q] = proc[q]
    BY <1>2 DEF IInv, TypeOK
  <2>3. runs'[p] = b /\ proc'[p] = "ignoring"
    BY <1>2 DEF IInv, TypeOK
  <2>4. \A q \in Pids : /\ proc'[q] = "free" => runs'[q] = NULL
                        /\ runs'[q] # NULL => runs'[q] \in Alive \cup {b} /\ node'[runs'[q]].pid = q
    BY <1>5, <1>7, <2>2, <2>3 DEF IInv, Children
  <2>5. \A j \in Alive \cup {b} : node'[j].pid \in Pids /\ runs'[node'[j].pid] = j
    BY <1>5, <1>7, <2>1, <2>2, <2>3 DEF IInv, Children
  <2> QED
    BY <1>2, <1>4, <2>4, <2>5 DEF Children
<1>12. Told'
  BY <1>2 DEF IInv, Told
<1> QED
  BY <1>8, <1>9, <1>10, <1>11, <1>12 DEF IInv

(* check_bg_jobs finds that a job has ended: its node leaves the list, at  *)
(* the head or behind prev.                                                *)
LEMMA AnnounceStep ==
    ASSUME IInv, AnnounceJob
    PROVE  IInv'
<1>1. PICK c \in Alive : c = current
  BY DEF AnnounceJob, IInv, Cursor
<1>2. PICK d : d = node[c].next
  OBVIOUS
<1>3. PICK p \in Pids : p = node[c].pid /\ runs[p] = c
  BY DEF IInv, Children
<1>4. /\ pc = "check" /\ pc' = pc /\ prev' = prev /\ born' = born /\ current' = d
      /\ proc' = [proc EXCEPT ![p] = "free"] /\ runs' = [runs EXCEPT ![p] = NULL]
      /\ announced' = [announced EXCEPT ![c] = @ + 1]
      /\ bg_head' = IF prev = NULL THEN d ELSE bg_head
      /\ node' = IF prev = NULL THEN node ELSE [node EXCEPT ![prev].next = d]
      /\ freed' = freed \cup {c}
  BY <1>1, <1>2, <1>3 DEF AnnounceJob, Reap, HeadMoved, Relinked
<1>5. \A j \in Alive : j \in Jobs /\ j \in Nat \ {0} /\ j <= born /\ j \notin freed
  BY AliveNodes DEF IInv
<1>6. Alive' = Alive \ {c}
  BY <1>4 DEF Alive
<1>7. d \in (Alive \ {c}) \cup {NULL} /\ d < c /\ d \in 0..MaxJobs /\ \A z \in Alive : z < c => z <= d
  BY <1>2, <1>5 DEF IInv, TypeOK, Chain, NextOlder
<1>8. ASSUME NEW x \in Nat, NEW y, NextOlder(Alive, x, y)
      PROVE  NextOlder(Alive \ {c}, x, IF y = c THEN d ELSE y)
  BY <1>5, <1>7, <1>8 DEF NextOlder, NULL
<1>9. /\ prev \in Alive \cup {NULL}
      /\ prev = NULL => bg_head = c
      /\ prev # NULL => prev \in Alive /\ node[prev].next = c /\ prev # c
  BY <1>1, <1>4, <1>5 DEF IInv, Cursor, Chain, NextOlder
<1>10. prev # NULL => bg_head # c
  BY <1>5, <1>9 DEF IInv, TypeOK, Chain, NextOlder
<1>11. \A j \in Alive : j # prev => node[j].next # c
  <2> SUFFICES ASSUME NEW j \in Alive, j # prev, node[j].next = c PROVE FALSE
    OBVIOUS
  <2>1. c < j /\ \A z \in Alive : z < j => z <= c
    BY DEF IInv, Chain, NextOlder
  <2>2. CASE prev = NULL
    BY <1>5, <1>9, <2>1, <2>2 DEF IInv, TypeOK, Chain, NextOlder
  <2>3. CASE prev # NULL
    <3>1. c < prev /\ \A z \in Alive : z < prev => z <= c
      BY <1>9, <2>3 DEF IInv, Chain, NextOlder
    <3> QED
      BY <1>5, <1>9, <2>1, <2>3, <3>1
  <2> QED
    BY <2>2, <2>3
<1>12. /\ \A j \in Jobs : node'[j].pid = node[j].pid
       /\ \A j \in Alive : node'[j].next = IF node[j].next = c THEN d ELSE node[j].next
       /\ \A j \in Jobs : node'[j].next = node[j].next \/ (node'[j].next = d /\ node[j].next = c)
  <2>1. CASE prev = NULL
    <3>1. node' = node /\ \A j \in Alive : j # prev
      BY <1>4, <1>5, <2>1 DEF NULL
    <3> QED
      BY <1>11, <3>1
  <2>2. CASE prev # NULL
    <3>1. node' = [node EXCEPT ![prev].next = d] /\ prev \in Jobs /\ node[prev].next = c
      BY <1>4, <1>5, <1>9, <2>2
    <3>2. \A j \in Jobs : /\ node'[j].pid = node[j].pid
                          /\ node'[j].next = IF j = prev THEN d ELSE node[j].next
      BY <3>1 DEF IInv, TypeOK
    <3> QED
      BY <1>5, <1>11, <3>1, <3>2
  <2> QED
    BY <2>1, <2>2
<1>13. bg_head' = IF bg_head = c THEN d ELSE bg_head
  BY <1>4, <1>9, <1>10
<1>14. TypeOK'
  <2>1. node' \in [Jobs -> [pid : Pids \cup {NULL}, next : 0..MaxJobs]]
    BY <1>4, <1>5, <1>7, <1>9 DEF IInv, TypeOK
  <2>2. freed' \in SUBSET (1..born)
    BY <1>4, <1>5 DEF IInv, TypeOK
  <2>3. announced' \in [Jobs -> Nat]
    BY <1>4, <1>5 DEF IInv, TypeOK
  <2>4. proc' \in [Pids -> {"free", "ignoring", "default", "zombie"}] /\ runs' \in [Pids -> 0..MaxJobs]
    BY <1>4, SsiAssumption DEF IInv, TypeOK, NULL
  <2> QED
    BY <1>4, <2>1, <2>2, <2>3, <2>4 DEF IInv, TypeOK
<1>15. Chain'
  <2>1. NextOlder(Alive \ {c}, born + 1, bg_head')
    <3>1. born + 1 \in Nat /\ NextOlder(Alive, born + 1, bg_head)
      BY DEF IInv, TypeOK, Chain
    <3> QED
      BY <1>8, <1>13, <3>1
  <2>2. \A j \in Alive \ {c} : NextOlder(Alive \ {c}, j, node'[j].next)
    BY <1>5, <1>8, <1>12 DEF IInv, Chain
  <2>3. \A j \in Jobs : node'[j].next < j
    <3>1. \A j \in Jobs : node[j].next < j /\ j \in Nat /\ node[j].next \in Nat
      BY AliveNodes DEF IInv, TypeOK, Chain
    <3>2. d < c /\ d \in Nat /\ c \in Nat
      BY <1>5, <1>7
    <3> QED
      BY <1>12, <3>1, <3>2
  <2> QED
    BY <1>4, <1>6, <2>1, <2>2, <2>3 DEF Chain
<1>16. Cursor'
  <2>1. prev # NULL => node'[prev].next = d
    BY <1>9, <1>12
  <2> QED
    BY <1>4, <1>6, <1>7, <1>9, <2>1 DEF Cursor
<1>17. Children'
  <2>1. \A q \in Pids : q # p => runs'[q] = runs[q] /\ proc'[q] = proc[q]
    BY <1>4 DEF IInv, TypeOK
  <2>2. runs'[p] = NULL /\ proc'[p] = "free"
    BY <1>4 DEF IInv, TypeOK
  <2>3. \A q \in Pids : /\ proc'[q] = "free" => runs'[q] = NULL
                        /\ runs'[q] # NULL => runs'[q] \in Alive \ {c} /\ node'[runs'[q]].pid = q
    BY <1>3, <1>5, <1>12, <2>1, <2>2 DEF IInv, Children
  <2>4. \A j \in Alive \ {c} : node'[j].pid \in Pids /\ runs'[node'[j].pid] = j
    BY <1>3, <1>5, <1>12, <2>1 DEF IInv, Children
  <2> QED
    BY <1>4, <1>6, <2>3, <2>4 DEF Children
<1>18. Told'
  <2>1. \A j \in Jobs : announced'[j] = IF j = c THEN announced[j] + 1 ELSE announced[j]
    BY <1>4 DEF IInv, TypeOK
  <2> QED
    BY <1>4, <1>5, <2>1 DEF IInv, Told
<1> QED
  BY <1>14, <1>15, <1>16, <1>17, <1>18 DEF IInv

(* Every step of the shell, of its children and of the kernel keeps the    *)
(* list, the cursor of check_bg_jobs and the children in agreement.        *)
THEOREM Inductive == Spec => []IInv
<1>1. IInv /\ [Next]_vars => IInv'
  <2> SUFFICES ASSUME IInv, [Next]_vars PROVE IInv'
    OBVIOUS
  <2>1. ASSUME UNCHANGED vars PROVE IInv'
    <3>1. /\ UNCHANGED list /\ UNCHANGED announced /\ node' = node /\ born' = born /\ freed' = freed
          /\ proc' = proc /\ runs' = runs /\ pc' = pc /\ fg' = fg
          /\ current' = current /\ prev' = prev /\ bg_head' = bg_head
      BY <2>1 DEF vars, list, cursor, kernel
    <3>2. Chain' /\ Told' /\ Alive' = Alive
      BY <3>1, ListStays
    <3> QED
      BY <3>1, <3>2 DEF IInv, TypeOK, Cursor, Children
  <2>2. CASE Check \/ Line
    BY <2>2, AnnounceStep, WalkStep, BgStep, ProcessStep DEF Check, Line
  <2>3. CASE ForegroundEnds \/ Exited
    BY <2>1, <2>3, ForegroundStep DEF Exited
  <2>4. CASE CtrlC \/ \E p \in Pids : SetDefault(p) \/ ChildEnds(p)
    BY <2>4, ProcessStep
  <2> QED
    BY <2>1, <2>2, <2>3, <2>4 DEF Next
<1> QED
  BY <1>1, InitIInv, PTL DEF Spec

----------------------------------------------------------------------------
(* The walk of the list.                                                   *)
LEMMA Least ==
    ASSUME NEW S \in SUBSET Nat, S # {}
    PROVE  \E m \in S : \A n \in S : m <= n
<1> DEFINE R == {ss \in Nat \X Nat : ss[1] < ss[2]}
<1>1. IsWellFoundedOn(R, Nat)
  BY NatLessThanWellFounded DEF OpToRel
<1>2. PICK m \in S : \A n \in S : ~ (<<n, m>> \in R)
  BY <1>1, WFMin
<1>3. \A n \in S : <<n, m>> \in Nat \X Nat /\ <<n, m>>[1] = n /\ <<n, m>>[2] = m
  OBVIOUS
<1>4. \A n \in S : ~(n < m)
  BY <1>2, <1>3
<1> QED
  BY <1>4

(* While nodes point to older ones, From is defined by its recursion.      *)
IsFrom(f, nd, m) == f = [j \in 0..m |-> IF j = NULL THEN <<>> ELSE <<j>> \o f[nd[j].next]]

LEMMA FromExists ==
    ASSUME NEW N \in Nat, NEW nd, \A j \in 1..N : nd[j].next \in 0..(j - 1)
    PROVE  \E f : IsFrom(f, nd, N)
<1> DEFINE Bad == {m \in 0..N : ~ \E f : IsFrom(f, nd, m)}
<1> SUFFICES ASSUME Bad # {} PROVE FALSE
  OBVIOUS
<1>1. PICK m \in Bad : \A n \in Bad : m <= n
  <2>1. Bad \in SUBSET Nat
    OBVIOUS
  <2> HIDE DEF Bad
  <2> QED
    BY <2>1, Least
<1>2. CASE m = 0
  <2>1. IsFrom([j \in 0..0 |-> <<>>], nd, 0)
    BY DEF IsFrom, NULL
  <2> QED
    BY <1>2, <2>1
<1>3. CASE m # 0
  <2>1. m \in 1..N /\ m - 1 \in 0..N /\ ~(m <= m - 1)
    BY <1>3
  <2>2. PICK f : IsFrom(f, nd, m - 1)
    <3>1. m - 1 \notin Bad
      BY <1>1, <2>1
    <3> QED
      BY <2>1, <3>1
  <2> DEFINE g == [j \in 0..m |-> IF j = m THEN <<m>> \o f[nd[m].next] ELSE f[j]]
  <2>3. \A j \in 0..(m - 1) : f[j] = IF j = NULL THEN <<>> ELSE <<j>> \o f[nd[j].next]
    BY <2>2 DEF IsFrom
  <2>4. \A j \in 0..m : g[j] = IF j = NULL THEN <<>> ELSE <<j>> \o g[nd[j].next]
    <3> SUFFICES ASSUME NEW j \in 0..m
                 PROVE  g[j] = IF j = NULL THEN <<>> ELSE <<j>> \o g[nd[j].next]
      OBVIOUS
    <3>1. j # 0 => g[nd[j].next] = f[nd[j].next]
      <4>1. j # 0 => nd[j].next \in 0..m /\ nd[j].next # m
        BY <2>1
      <4> QED
        BY <4>1
    <3>2. CASE j = m
      BY <1>3, <3>1, <3>2 DEF NULL
    <3>3. CASE j # m
      <4>1. j \in 0..(m - 1) /\ g[j] = f[j]
        BY <2>1, <3>3
      <4> QED
        BY <2>3, <3>1, <4>1 DEF NULL
    <3> QED
      BY <3>2, <3>3
  <2>5. IsFrom(g, nd, m)
    BY <2>4 DEF IsFrom
  <2> QED
    BY <2>5
<1> QED
  BY <1>2, <1>3

LEMMA FromIs ==
    ASSUME IInv
    PROVE  \A j \in 0..MaxJobs : From[j] = IF j = NULL THEN <<>> ELSE <<j>> \o From[node[j].next]
<1>1. MaxJobs \in Nat /\ \A j \in 1..MaxJobs : node[j].next \in 0..(j - 1)
  <2>1. \A j \in Jobs : node[j].next \in 0..MaxJobs /\ node[j].next < j
    BY DEF IInv, TypeOK, Chain
  <2> QED
    BY <2>1, SsiAssumption DEF Jobs
<1>2. \E f : IsFrom(f, node, MaxJobs)
  BY <1>1, FromExists
<1>3. From = CHOOSE f : IsFrom(f, node, MaxJobs)
  BY DEF From, IsFrom
<1>4. IsFrom(From, node, MaxJobs)
  BY <1>2, <1>3
<1> QED
  BY <1>4 DEF IsFrom

(* What a sequence holds.                                                  *)
Held(s) == {s[i] : i \in DOMAIN s}

LEMMA HeldConcat ==
    ASSUME NEW j \in Nat, NEW s \in Seq(Nat)
    PROVE  <<j>> \o s \in Seq(Nat) /\ Held(<<j>> \o s) = {j} \cup Held(s)
<1>1. PICK n \in Nat : Len(s) = n /\ DOMAIN s = 1..n
  BY LenProperties
<1>2. PICK t : t = <<j>> \o s
  OBVIOUS
<1>3. t \in Seq(Nat) /\ Len(t) = n + 1
  BY <1>1, <1>2
<1>4. DOMAIN t = 1..(n + 1)
  BY <1>3, LenProperties
<1>5. t[1] = j /\ \A i \in 1..n : t[i + 1] = s[i]
  BY <1>1, <1>2
<1>6. 1 \in 1..(n + 1) /\ \A i \in 1..n : i + 1 \in 1..(n + 1)
  OBVIOUS
<1>7. \A i \in 1..(n + 1) : i = 1 \/ (i - 1 \in 1..n /\ (i - 1) + 1 = i)
  OBVIOUS
<1>8. {j} \cup Held(s) \subseteq Held(t)
  BY <1>1, <1>4, <1>5, <1>6 DEF Held
<1>9. Held(t) \subseteq {j} \cup Held(s)
  <2> SUFFICES ASSUME NEW i \in 1..(n + 1) PROVE t[i] \in {j} \cup Held(s)
    BY <1>4 DEF Held
  <2>1. i = 1 \/ t[i] = s[i - 1]
    BY <1>5, <1>7
  <2> QED
    BY <1>1, <1>5, <1>7, <2>1 DEF Held
<1> QED
  BY <1>2, <1>3, <1>8, <1>9

(* The list has the nodes that are allocated and not freed.                *)
LEMMA WalkIsAlive ==
    ASSUME IInv
    PROVE  Listed = Alive
<1> DEFINE Good(j) == From[j] \in Seq(Nat) /\ Held(From[j]) = {z \in Alive : z <= j}
<1> DEFINE Bad == {j \in Alive \cup {NULL} : ~Good(j)}
<1>1. \A j \in Alive : j \in Jobs /\ j \in Nat \ {0} /\ j <= born /\ j \in 0..MaxJobs
  BY AliveNodes DEF IInv, Jobs
<1>2. Bad = {}
  <2> SUFFICES ASSUME Bad # {} PROVE FALSE
    OBVIOUS
  <2>1. PICK j \in Bad : \A i \in Bad : j <= i
    <3>1. Bad \in SUBSET Nat
      BY <1>1 DEF NULL
    <3> HIDE DEF Bad
    <3> QED
      BY <3>1, Least
  <2>2. CASE j = NULL
    <3>1. From[NULL] = <<>>
      <4>1. NULL \in 0..MaxJobs
        BY SsiAssumption DEF NULL
      <4>2. From[NULL] = IF NULL = NULL THEN <<>> ELSE <<NULL>> \o From[node[NULL].next]
        BY <4>1, FromIs
      <4> QED
        BY <4>2
    <3>2. <<>> \in Seq(Nat) /\ DOMAIN (<<>>) = {}
      BY LenProperties
    <3>3. Held(From[NULL]) = {}
      BY <3>1, <3>2 DEF Held
    <3>4. {z \in Alive : z <= NULL} = {}
      BY <1>1 DEF NULL
    <3> QED
      BY <2>2, <3>1, <3>2, <3>3, <3>4
  <2>3. CASE j \in Alive
    <3>1. PICK i : i = node[j].next
      OBVIOUS
    <3>2. i \in Alive \cup {NULL} /\ i < j /\ \A z \in Alive : z < j => z <= i
      BY <2>3, <3>1 DEF IInv, Chain, NextOlder
    <3>3. i \in Nat /\ j \in Nat
      BY <1>1, <2>3, <3>2 DEF NULL
    <3>4. Good(i)
      BY <2>1, <3>2, <3>3
    <3>5. From[j] = <<j>> \o From[i]
      BY <1>1, <2>3, <3>1, FromIs DEF NULL
    <3>6. From[j] \in Seq(Nat) /\ Held(From[j]) = {j} \cup Held(From[i])
      <4> PICK s \in Seq(Nat) : s = From[i]
        BY <3>4
      <4>1. PICK t : t = <<j>> \o s
        OBVIOUS
      <4>2. t \in Seq(Nat) /\ Held(t) = {j} \cup Held(s)
        BY <3>3, <4>1, HeldConcat
      <4>3. From[j] = t
        BY <3>5, <4>1
      <4> QED
        BY <4>2, <4>3
    <3>7. {j} \cup {z \in Alive : z <= i} = {z \in Alive : z <= j}
      <4>1. \A z \in Alive : z <= j <=> z = j \/ z <= i
        BY <1>1, <3>2, <3>3
      <4>2. \A z : z \in {j} \cup {y \in Alive : y <= i} <=> z \in {y \in Alive : y <= j}
        BY <2>3, <3>3, <4>1
      <4> HIDE DEF Bad, Good
      <4> QED
        BY <4>2
    <3> QED
      BY <3>4, <3>6, <3>7
  <2> QED
    BY <2>2, <2>3
<1>3. bg_head \in Alive \cup {NULL} /\ \A z \in Alive : z <= bg_head
  <2>1. NextOlder(Alive, born + 1, bg_head) /\ born \in Nat
    BY DEF IInv, TypeOK, Chain
  <2> QED
    BY <1>1, <2>1 DEF NextOlder
<1>4. Held(From[bg_head]) = {z \in Alive : z <= bg_head}
  BY <1>2, <1>3
<1>5. Held(From[bg_head]) = Alive
  BY <1>3, <1>4
<1> QED
  BY <1>5 DEF Listed, Held

----------------------------------------------------------------------------
(* The list and the children that are not waited for are the same, also    *)
(* when identifiers are given again, and check_bg_jobs never stands on a   *)
(* freed node.                                                             *)
THEOREM ListExactCorrect == Spec => []ListExact
<1>1. IInv => ListExact
  <2> SUFFICES ASSUME IInv PROVE ListExact
    OBVIOUS
  <2>1. Listed = Alive
    BY WalkIsAlive
  <2>2. \A j \in Alive : j \in Jobs /\ j # NULL /\ j \notin freed
    BY AliveNodes DEF IInv
  <2>3. \A p \in Unreaped : \E j \in Alive : node[j].pid = p /\ runs[p] = j
    BY DEF Unreaped, IInv, Children
  <2>4. \A j \in Alive : node[j].pid \in Unreaped /\ runs[node[j].pid] = j
    BY <2>2 DEF Unreaped, IInv, Children
  <2>5. NULL \notin freed
    BY DEF IInv, TypeOK, NULL
  <2>6. (Alive \cup {current, prev}) \cap freed = {}
    BY <2>2, <2>5 DEF IInv, Cursor
  <2> QED
    BY <2>1, <2>3, <2>4, <2>6 DEF ListExact
<1> QED
  BY <1>1, Inductive, PTL

----------------------------------------------------------------------------
(* The promise about jobs.  What a job's state is, from its node.          *)
Status(j) ==
    IF j \in freed THEN "announced"
    ELSE IF j > born THEN "unborn"
    ELSE IF Running(node[j].pid) THEN "running" ELSE "terminated"

LEMMA StatusOf ==
    ASSUME IInv, NEW j \in Jobs
    PROVE  StateOf(j) = Status(j)
<1>1. j \in Nat \ {0} /\ born \in Nat /\ (j \in Alive <=> j <= born /\ j \notin freed)
  BY AliveNodes DEF IInv, TypeOK
<1>2. announced[j] = IF j \in freed THEN 1 ELSE 0
  BY DEF IInv, Told
<1>3. CASE j \in freed
  BY <1>2, <1>3 DEF StateOf, Status
<1>4. CASE j \notin freed /\ j > born
  BY <1>2, <1>4 DEF StateOf, Status
<1>5. CASE j \notin freed /\ ~(j > born)
  <2>1. j \in Alive
    BY <1>1, <1>5
  <2>2. \A p \in Pids : runs[p] = j <=> p = node[j].pid
    BY <1>1, <2>1 DEF IInv, Children, NULL
  <2>3. node[j].pid \in Pids
    BY <2>1 DEF IInv, Children
  <2>4. (\E p \in Pids : Running(p) /\ runs[p] = j) <=> Running(node[j].pid)
    BY <2>2, <2>3
  <2>5. StateOf(j) = IF \E p \in Pids : Running(p) /\ runs[p] = j THEN "running" ELSE "terminated"
    BY <1>2, <1>5 DEF StateOf
  <2> QED
    BY <1>5, <2>4, <2>5 DEF Status
<1> QED
  BY <1>3, <1>4, <1>5

(* Steps that change no node: jobs that ran may have ended, none starts.    *)
LEMMA JobsEnd ==
    ASSUME IInv, UNCHANGED list,
           \A p \in Pids : runs[p] # NULL /\ Running(p)' => Running(p)
    PROVE  \A j \in Jobs : Status(j)' = Status(j) \/ (Status(j) = "running" /\ Status(j)' = "terminated")
<1>1. born' = born /\ freed' = freed /\ node' = node
  BY DEF list
<1>2. SUFFICES ASSUME NEW j \in Jobs
               PROVE  Status(j)' = Status(j) \/ (Status(j) = "running" /\ Status(j)' = "terminated")
  OBVIOUS
<1>3. CASE j \in freed \/ j > born
  BY <1>1, <1>3 DEF Status
<1>4. CASE j \notin freed /\ ~(j > born)
  <2>1. j \in Alive
    BY <1>4, AliveNodes DEF IInv, TypeOK
  <2>2. node[j].pid \in Pids /\ runs[node[j].pid] # NULL
    BY <2>1, AliveNodes DEF IInv, Children
  <2>3. Running(node[j].pid)' => Running(node[j].pid)
    BY <1>1, <2>2 DEF Running
  <2> QED
    BY <1>1, <1>4, <2>3 DEF Status
<1> QED
  BY <1>3, <1>4

LEMMA OthersStay ==
    ASSUME IInv,
           CtrlC \/ ForegroundEnds \/ UNCHANGED vars \/ PassJob \/ Prompt \/ NoJob \/ BgList
             \/ BgExecuteFails \/ Exit \/ \E p \in Pids : Execute(p) \/ SetDefault(p) \/ ChildEnds(p)
    PROVE  UNCHANGED list /\ \A p \in Pids : runs[p] # NULL /\ Running(p)' => Running(p)
<1>1. CASE CtrlC \/ \E p \in Pids : Execute(p) \/ SetDefault(p) \/ ChildEnds(p)
  <2>1. UNCHANGED list
    BY <1>1 DEF CtrlC, Execute, SetDefault, ChildEnds
  <2>2. ASSUME NEW p \in Pids, runs[p] # NULL, Running(p)' PROVE Running(p)
    <3>1. proc[p] # "free"
      BY <2>2 DEF IInv, Children
    <3> QED
      BY <1>1, <2>2, <3>1 DEF CtrlC, Execute, SetDefault, ChildEnds, Fork, Running, IInv, TypeOK, Children
  <2> QED
    BY <2>1, <2>2
<1>2. CASE ForegroundEnds
  BY <1>2 DEF ForegroundEnds, Reap, Running, IInv, TypeOK
<1>3. CASE UNCHANGED vars \/ PassJob \/ Prompt \/ NoJob \/ BgList \/ BgExecuteFails \/ Exit
  BY <1>3 DEF PassJob, Prompt, NoJob, BgList, BgExecuteFails, Exit, vars, kernel, Running
<1> QED
  BY <1>1, <1>2, <1>3

(* A job starts, and its node is the newest.                               *)
LEMMA JobStarts ==
    ASSUME IInv, NEW p \in Pids, BgExecute(p)
    PROVE  \E b \in Jobs : Status(b) = "unborn"
              /\ \A j \in Jobs : Status(j)' = IF j = b THEN "running" ELSE Status(j)
<1>1. PICK b \in Jobs : b = born + 1
  BY SsiAssumption DEF BgExecute, IInv, TypeOK, Jobs
<1>2. /\ proc[p] = "free" /\ proc' = [proc EXCEPT ![p] = "ignoring"]
      /\ born' = b /\ node' = [node EXCEPT ![b] = [pid |-> p, next |-> bg_head]] /\ freed' = freed
  BY <1>1 DEF BgExecute, Fork
<1>3. born \in Nat /\ b \in Nat /\ b > born /\ b \notin freed
  BY <1>1 DEF IInv, TypeOK
<1>4. Status(b) = "unborn"
  BY <1>3 DEF Status
<1>5. node'[b].pid = p /\ proc'[p] = "ignoring" /\ \A j \in Jobs : j # b => node'[j] = node[j]
  BY <1>2 DEF IInv, TypeOK
<1>6. Status(b)' = "running"
  BY <1>2, <1>3, <1>5 DEF Status, Running
<1>7. ASSUME NEW j \in Jobs, j # b PROVE Status(j)' = Status(j)
  <2>1. j \in Nat \ {0} /\ (j \in Alive <=> j <= born /\ j \notin freed)
    BY AliveNodes DEF IInv
  <2>2. node'[j] = node[j]
    BY <1>5, <1>7
  <2>3. CASE j \in freed
    BY <1>2, <2>3 DEF Status
  <2>4. CASE j \notin freed /\ j > born
    <3>1. j > b
      BY <1>1, <1>3, <1>7, <2>1, <2>4
    <3> QED
      BY <1>2, <2>4, <3>1 DEF Status
  <2>5. CASE j \notin freed /\ ~(j > born)
    <3>1. j \in Alive /\ ~(j > b)
      BY <1>1, <1>3, <2>1, <2>5
    <3>2. node[j].pid \in Pids /\ runs[node[j].pid] = j /\ j # NULL
      BY <2>1, <3>1 DEF IInv, Children, NULL
    <3>3. node[j].pid # p
      BY <1>2, <3>2 DEF IInv, Children
    <3>4. proc'[node[j].pid] = proc[node[j].pid]
      BY <1>2, <3>2, <3>3 DEF IInv, TypeOK
    <3> QED
      BY <1>2, <2>2, <2>5, <3>1, <3>4 DEF Status, Running
  <2> QED
    BY <2>3, <2>4, <2>5
<1> QED
  BY <1>4, <1>6, <1>7

(* check_bg_jobs tells of a job that has ended.                            *)
LEMMA JobIsTold ==
    ASSUME IInv, AnnounceJob
    PROVE  \E c \in Jobs : Status(c) = "terminated"
              /\ \A j \in Jobs : Status(j)' = IF j = c THEN "announced" ELSE Status(j)
<1>1. PICK c \in Alive : c = current
  BY DEF AnnounceJob, IInv, Cursor
<1>2. PICK p \in Pids : p = node[c].pid /\ runs[p] = c
  BY DEF IInv, Children
<1>3. /\ proc[p] = "zombie" /\ proc' = [proc EXCEPT ![p] = "free"] /\ born' = born
      /\ freed' = freed \cup {c}
      /\ node' = node \/ (prev # NULL /\ node' = [node EXCEPT ![prev].next = node[c].next])
  BY <1>1, <1>2 DEF AnnounceJob, HasEnded, Reap, Relinked
<1>4. \A j \in Jobs : j \in Nat \ {0} /\ (j \in Alive <=> j <= born /\ j \notin freed)
  BY AliveNodes DEF IInv
<1>5. c \in Jobs /\ c \in Nat /\ born \in Nat /\ c <= born /\ c \notin freed
  BY <1>4, AliveNodes DEF IInv, TypeOK
<1>6. Status(c) = "terminated" /\ Status(c)' = "announced"
  BY <1>2, <1>3, <1>5 DEF Status, Running
<1>7. \A j \in Jobs : node'[j].pid = node[j].pid
  BY <1>3 DEF IInv, TypeOK
<1>8. ASSUME NEW j \in Jobs, j # c PROVE Status(j)' = Status(j)
  <2>1. j \in freed' <=> j \in freed
    BY <1>3, <1>8
  <2>2. CASE j \in freed \/ j > born
    BY <1>3, <2>1, <2>2 DEF Status
  <2>3. CASE j \notin freed /\ ~(j > born)
    <3>1. j \in Alive
      BY <1>4, <1>5, <2>3
    <3>2. node[j].pid \in Pids /\ node[j].pid # p
      BY <1>2, <1>8, <3>1 DEF IInv, Children
    <3>3. proc'[node[j].pid] = proc[node[j].pid]
      BY <1>3, <3>2 DEF IInv, TypeOK
    <3> QED
      BY <1>3, <1>7, <2>1, <2>3, <3>3 DEF Status, Running
  <2> QED
    BY <2>2, <2>3
<1> QED
  BY <1>5, <1>6, <1>8

(* Both ends of a step show the jobs as their nodes do.                    *)
Shown == \A j \in Jobs : StateOf(j) = Status(j)

(* A job is announced once, and only after it has ended, whatever the      *)
(* order in which children end, lines are typed and identifiers are given. *)
THEOREM JobsAnnouncedOnceCorrect == Spec => JobsAnnouncedOnce
<1>1. Init => Table!JTInit
  <2> SUFFICES ASSUME Init, NEW j \in Jobs PROVE StateOf(j) = "unborn"
    BY DEF Table!JTInit
  <2>1. announced[j] = 0 /\ born = 0 /\ j > 0
    BY SsiAssumption DEF Init, Jobs
  <2> QED
    BY <2>1 DEF StateOf
<1>2. IInv /\ Shown /\ Shown' /\ [Next]_vars => [Table!JTNext]_[j \in Jobs |-> StateOf(j)]
  <2> SUFFICES ASSUME IInv, Shown, Shown', [Next]_vars
               PROVE  [Table!JTNext]_[j \in Jobs |-> StateOf(j)]
    OBVIOUS
  <2>1. \A j \in Jobs : StateOf(j) = Status(j) /\ StateOf(j)' = Status(j)'
    BY DEF Shown
  <2>2. ASSUME NEW b \in Jobs, NEW from, NEW to, Status(b) = from,
               \A j \in Jobs : Status(j)' = IF j = b THEN to ELSE Status(j)
        PROVE  Table!Step(b, from, to)
    BY <2>1, <2>2 DEF Table!Step
  <2>3. CASE \E p \in Pids : BgExecute(p)
    <3>1. \E b \in Jobs : Table!Begin(b)
      BY <2>2, <2>3, JobStarts DEF Table!Begin
    <3> QED
      BY <3>1 DEF Table!JTNext
  <2>4. CASE AnnounceJob
    <3>1. \E c \in Jobs : Table!Announce(c)
      BY <2>2, <2>4, JobIsTold DEF Table!Announce
    <3> QED
      BY <3>1 DEF Table!JTNext
  <2>5. CASE CtrlC \/ ForegroundEnds \/ UNCHANGED vars \/ PassJob \/ Prompt \/ NoJob \/ BgList
             \/ BgExecuteFails \/ Exit \/ \E p \in Pids : Execute(p) \/ SetDefault(p) \/ ChildEnds(p)
    <3>1. \A j \in Jobs : Status(j)' = Status(j) \/ (Status(j) = "running" /\ Status(j)' = "terminated")
      BY <2>5, OthersStay, JobsEnd
    <3> DEFINE ended == {j \in Jobs : Status(j)' # Status(j)}
    <3>2. CASE ended = {}
      BY <2>1, <3>2
    <3>3. CASE ended # {}
      <4>1. Table!Terminate(ended)
        BY <2>1, <3>1, <3>3 DEF Table!Terminate
      <4> QED
        BY <4>1 DEF Table!JTNext
    <3> QED
      BY <3>2, <3>3
  <2> QED
    BY <2>3, <2>4, <2>5 DEF Next, Check, Line, Exited
<1>3. IInv => Shown
  BY StatusOf DEF Shown
<1>4. Spec => [][Table!JTNext]_[j \in Jobs |-> StateOf(j)]
  BY <1>2, <1>3, Inductive, PTL DEF Spec
<1> QED
  BY <1>1, <1>4, PTL DEF Spec, JobsAnnouncedOnce, Table!JTSafe
=============================================================================
