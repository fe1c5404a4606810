---------------------------- MODULE WorkStoreHist ----------------------------
(***************************************************************************)
(* WorkStore with two history variables, which only watch:                 *)
(*   seen    the versions of each path an agent has had in front of it: in *)
(*           its sandbox, or on the head it looked at;                     *)
(*   edited  the paths the agent (or a tool of its) has written itself, or *)
(*           has decided on by committing them (a commit may delete a path *)
(*           the sandbox still holds) or resolving them with take=local.   *)
(***************************************************************************)
EXTENDS WorkStore

VARIABLES seen, edited

hvars == <<vars, seen, edited>>

InitHist ==
  /\ Init
  /\ seen = [a \in Agents |-> {}]
  /\ edited = [a \in Agents |-> {}]

Showing(tree) == {<<p, tree[p]>> : p \in {q \in Paths : tree[q] # NoFile}}

NextHist ==
  /\ Next
  /\ seen' = [a \in Agents |->
       seen[a] \cup Showing(sandbox'[a])
               \cup IF viewed'[a] # viewed[a] THEN Showing(HeadTree) ELSE {}]
  /\ edited' = [a \in Agents |->
       edited[a]
         \cup {p \in Paths : op.kind \in {"idle", "ready"}
                             /\ sandbox'[a][p] # sandbox[a][p]}
         \cup IF op'.kind = "resolve" /\ op'.agent = a /\ op'.take = "local"
              THEN op'.todo ELSE {}
         \cup IF op'.kind = "make" /\ op'.author = a THEN op'.changes ELSE {}]

SpecHist == InitHist /\ [][NextHist]_hvars

(* No lost update: an agent's commit never replaces or deletes a version   *)
(* of a path that the agent has not had in front of it, whatever pulls,    *)
(* resolutions, rollbacks and crashes happened since (work_commit,         *)
(* work_resolve with expect_head).                                         *)
UpdateSeen ==
  pending' # pending /\ pending'.kind = "commit" /\ pending'.rec.author \in Agents
    => \A p \in pending'.rec.changes :
         HeadTree[p] = NoFile
         \/ <<p, HeadTree[p]>> \in seen[pending'.rec.author]
NoLostUpdate == [][UpdateSeen]_hvars

(* Pulling converges: a path the agent never wrote itself is always        *)
(* brought to the head version or left alone as current; it never ends as  *)
(* a conflict the agent has to resolve (docs/workspace/README.md on        *)
(* work_pull, comment in work_pull). This holds as long as no operation    *)
(* has been interrupted: a pull killed after copying and before its index  *)
(* write leaves new content with the old base.                             *)
PullConverges ==
  op.kind = "pull" /\ faults = MaxFaults =>
    \A p \in op.want \ edited[op.agent] :
      LET local == sandbox[op.agent][p] IN
      /\ ~PullConflict(op.base[p], HeadTree[p], local)
      /\ ~PullOccupied(op.base[p], HeadTree[p], local)
=============================================================================
