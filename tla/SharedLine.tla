----------------------------- MODULE SharedLine -----------------------------
(***************************************************************************)
(* What the versioned shared area promises to the sessions that use it: a  *)
(* single shared line of commits that moves atomically.                    *)
(*                                                                         *)
(*   - a commit extends the line it was computed against, takes a number   *)
(*     that was never used, and appears together with its content and its  *)
(*     author's new base;                                                  *)
(*   - an agent's commit replaces only versions that are its base;         *)
(*   - moving the line shows exactly the tree of another recorded commit;  *)
(*   - discarding keeps exactly the history of the commit it keeps;        *)
(*   - a base changes only towards the current line.                       *)
(*                                                                         *)
(* There is no log, no crash and no partial write here: WorkStore is shown *)
(* to implement this with its write-ahead record.                          *)
(***************************************************************************)
EXTENDS Naturals

CONSTANTS Agents, Paths, Contents, NoFile, User, Outside, MaxId, MaxLine

VARIABLES
  area,      \* the shared files
  line,      \* the commit the shared line is at, 0 = none
  history,   \* the recorded commits
  base,      \* each agent's base
  fresh      \* every number from here on is unused

vars == <<area, line, history, base, fresh>>

Ids == 1..MaxId
Tree == [Paths -> Contents \cup {NoFile}]
EmptyTree == [p \in Paths |-> NoFile]
Authors == Agents \cup {User, Outside}
Commit == [parent: 0..MaxId, author: Authors, line: 0..MaxLine,
           changes: SUBSET Paths, tree: Tree]
NoCommit == [parent |-> 0, author |-> Outside, line |-> 0, changes |-> {},
             tree |-> EmptyTree]

Recorded == {i \in Ids : history[i] # NoCommit}
TreeAt(i) == IF i = 0 THEN EmptyTree ELSE history[i].tree

(* C is the history of i: i, its parent, and so on to the root.            *)
HistoryOf(i, C) ==
  /\ i # 0 => i \in C
  /\ \A k \in C : history[k].parent # 0 => history[k].parent \in C
  /\ \A k \in C : k = i \/ \E j \in C : history[j].parent = k

Init ==
  /\ area = EmptyTree
  /\ line = 0
  /\ history = [i \in Ids |-> NoCommit]
  /\ base = [a \in Agents |-> EmptyTree]
  /\ fresh = 1

(* Commit number i, by the record c.                                       *)
Extend(i, c) ==
  /\ i >= fresh /\ c \in Commit
  /\ c.parent = line /\ c.changes # {}
  /\ \A p \in Paths \ c.changes : c.tree[p] = TreeAt(line)[p]
  /\ c.author \in Agents =>
       \A p \in c.changes : base[c.author][p] = TreeAt(line)[p]
  /\ history' = [history EXCEPT ![i] = c]
  /\ line' = i /\ area' = c.tree
  /\ fresh' = i + 1
  /\ base' = IF c.author \in Agents
             THEN [base EXCEPT ![c.author] =
                     [p \in Paths |-> IF p \in c.changes THEN c.tree[p] ELSE @[p]]]
             ELSE base

Move(i) ==
  /\ i \in Recorded \cup {0}
  /\ line' = i /\ area' = TreeAt(i)
  /\ UNCHANGED <<history, base, fresh>>

Discard(i, C) ==
  /\ i \in Recorded \cup {0} /\ HistoryOf(i, C)
  /\ history' = [k \in Ids |-> IF k \in C THEN history[k] ELSE NoCommit]
  /\ line' = i /\ area' = TreeAt(i)
  /\ UNCHANGED <<base, fresh>>

Rebase(a) ==
  /\ base' \in [Agents -> Tree]
  /\ \A b \in Agents \ {a} : base'[b] = base[b]
  /\ \A p \in Paths : base'[a][p] \in {base[a][p], TreeAt(line)[p]}
  /\ UNCHANGED <<area, line, history, fresh>>

(* A number that was reserved and never used.                              *)
Skip(i) ==
  /\ i >= fresh /\ fresh' = i + 1
  /\ UNCHANGED <<area, line, history, base>>

Next ==
  \/ \E i \in Ids : Extend(i, history'[i])
  \/ \E i \in 0..MaxId : Move(i)
  \/ \E i \in 0..MaxId : Discard(i, {k \in Ids : history'[k] # NoCommit})
  \/ \E a \in Agents : Rebase(a)
  \/ \E i \in Ids : Skip(i)

Spec == Init /\ [][Next]_vars
=============================================================================
