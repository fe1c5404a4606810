----------------------------- MODULE AgentsProofs -----------------------------
(***************************************************************************)
(* Proofs about what an agent is given and does: the permissions of a tree *)
(* of sessions, the calls of a reply, the proxies with the sessions they   *)
(* make, and discussions - for any seats, shared paths and layers, any     *)
(* files, calls and batches of them, any children and requests, and any    *)
(* number of members, rounds and reminders.                                *)
(***************************************************************************)
EXTENDS MCAgents, FiniteSetTheorems, SequenceTheorems, WellFoundedInduction, TLAPS

-----------------------------------------------------------------------------
(* What is below another path is below what that is below.                 *)
LEMMA BelowIsTransitive ==
  \A p, q, r \in SharedPaths : Below(p, q) /\ Below(q, r) => Below(p, r)
<1> SUFFICES ASSUME NEW p \in SharedPaths, NEW q \in SharedPaths, NEW r \in SharedPaths,
                    Below(p, q), Below(q, r)
             PROVE  Below(p, r)
  OBVIOUS
<1>1. p \in Seq(STRING) /\ q \in Seq(STRING) /\ r \in Seq(STRING)  BY AgentsAssumption
<1>2. DOMAIN p = 1..Len(p) /\ DOMAIN q = 1..Len(q) /\ DOMAIN r = 1..Len(r)  BY <1>1
<1>3. Len(r) \in Nat /\ Len(q) \in Nat /\ Len(p) \in Nat  BY <1>1
<1>4. Len(r) =< Len(q) /\ \A k \in 1..Len(r) : r[k] = q[k]  BY <1>2 DEF Below, IsPrefix
<1>5. Len(q) =< Len(p) /\ \A k \in 1..Len(q) : q[k] = p[k]  BY <1>2 DEF Below, IsPrefix
<1>6. Len(r) =< Len(p) /\ \A k \in 1..Len(r) : r[k] = p[k]  BY <1>3, <1>4, <1>5
<1> QED BY <1>2, <1>6 DEF Below, IsPrefix

(* The constants are what the theorems on permissions ask for.             *)
LEMMA RightsAreSensible == Rights!Sensible /\ OwnRights!Sensible
<1>1. Rights!Layers = Rules!Layers /\ OwnRights!Layers = Rules!Layers
      /\ Rights!Profiles = Rules!Profiles /\ OwnRights!Profiles = Rules!Profiles
  BY DEF Rights!Layers, OwnRights!Layers, Rules!Layers, Rights!Profiles, OwnRights!Profiles,
         Rules!Profiles, Rights!ScopeModes, OwnRights!ScopeModes, Rules!ScopeModes,
         Rights!Reach, OwnRights!Reach, Rules!Reach, Rights!Slots, OwnRights!Slots, Rules!Slots,
         Rights!Decision, OwnRights!Decision, Rules!Decision, Rights!View, OwnRights!View, Rules!View,
         Rights!AllReach, OwnRights!AllReach, Rules!AllReach, Rights!Deny, OwnRights!Deny, Rules!Deny,
         Rights!Ask, OwnRights!Ask, Rules!Ask, Rights!Allow, OwnRights!Allow, Rules!Allow,
         Rights!All, OwnRights!All, Rules!All, Rights!Nothing, OwnRights!Nothing, Rules!Nothing,
         Rights!Only, OwnRights!Only, Rules!Only
<1> QED BY <1>1, BelowIsTransitive, AgentsAssumption DEF Rights!Sensible, OwnRights!Sensible

-----------------------------------------------------------------------------
(* Files, ledgers, and the blocks of a patch.                              *)
Files == [Places -> Texts \union {None}]
Ledgers == [Places -> Texts \union {Tools!Unseen, Tools!Part}]
BlockKinds == [op : {"add", "update"}, path : Places, text : Texts]
Views == Texts \X {"all", "beginnings"}
Works ==
  [pc : {"look", "write", "done", "failed"}, at : Nat, found : Files, wrote : SUBSET Places,
   ledger : Ledgers]

(* A text is no mark of a ledger, and calls say what they write.           *)
LEMMA CallsAreSensible ==
  /\ Tools!Unseen \notin Texts /\ Tools!Part \notin Texts /\ None \notin Texts
  /\ \A c \in ToolCalls :
       /\ c.path \in Places /\ c.text \in Texts \union {None}
       /\ Tools!Blocks(c) \in Seq(BlockKinds)
       /\ c.kind = "patch" => Tools!Blocks(c) = c.blocks /\ c.blocks # <<>>
<1>1. Tools!Unseen \notin Texts /\ Tools!Part \notin Texts /\ None \notin Texts
  BY AgentsAssumption DEF Tools!Unseen, Tools!Part
<1>2. ASSUME NEW c \in ToolCalls
      PROVE  /\ c.path \in Places /\ c.text \in Texts \union {None}
             /\ c.kind \in {"write", "edit"} => c.text \in Texts
             /\ c.blocks \in Seq(BlockKinds) /\ (c.kind = "patch" => c.blocks # <<>>)
  BY AgentsAssumption DEF BlockKinds
<1>3. ASSUME NEW c \in ToolCalls PROVE Tools!Blocks(c) \in Seq(BlockKinds)
  <2>1. CASE c.kind = "write"
    <3>1. [op |-> "add", path |-> c.path, text |-> c.text] \in BlockKinds
      BY <1>2, <2>1 DEF BlockKinds
    <3>2. Tools!Blocks(c) = <<[op |-> "add", path |-> c.path, text |-> c.text]>>
      BY <2>1 DEF Tools!Blocks, Tools!Write
    <3> QED BY <3>1, <3>2
  <2>2. CASE c.kind = "edit"
    <3>1. [op |-> "update", path |-> c.path, text |-> c.text] \in BlockKinds
      BY <1>2, <2>2 DEF BlockKinds
    <3>2. Tools!Blocks(c) = <<[op |-> "update", path |-> c.path, text |-> c.text]>>
      BY <2>2 DEF Tools!Blocks, Tools!Edit
    <3> QED BY <3>1, <3>2
  <2>3. CASE c.kind = "patch"  BY <1>2, <2>3 DEF Tools!Blocks
  <2>4. CASE c.kind \notin {"write", "edit", "patch"}
    <3>1. Tools!Blocks(c) = <<>>  BY <2>4 DEF Tools!Blocks
    <3> QED BY <3>1
  <2> QED BY <2>1, <2>2, <2>3, <2>4
<1>4. \A c \in ToolCalls : c.kind = "patch" => Tools!Blocks(c) = c.blocks
  BY DEF Tools!Blocks
<1> QED BY <1>1, <1>2, <1>3, <1>4

(* The calls that ran at once are counted as everywhere.                   *)
LEMMA BranchCount == \A S : Tools!Cardinality(S) = Cardinality(S)
  BY DEF Tools!Cardinality, Cardinality

ToolsShape ==
  /\ disk \in Files /\ seen \in Ledgers /\ shown \in [Places -> SUBSET Views]
  /\ plan \in Seq(ToolCalls) /\ i \in Nat \ {0}
  /\ pc \in {"think", "batch", "card", "calls"}
  /\ pc # "think" => i <= Len(plan)
  /\ allowTurn \in BOOLEAN
  /\ DOMAIN branch \subseteq 1..Len(plan) /\ (pc # "calls" => DOMAIN branch = {})
  /\ \A k \in DOMAIN branch : branch[k] \in Works

(* What a ledger takes for known, the agent was shown or wrote itself.     *)
Evidence(s, were) == \A p \in Places : s[p] \in Texts => Tools!Met(were[p], s[p])
Evident ==
  /\ Evidence(seen, shown)
  /\ \A k \in DOMAIN branch : Evidence(branch[k].ledger, shown)

(* Every block that a call has looked at fits what it found, and it writes *)
(* when it has looked at all of them.                                      *)
HeldUp(w, blocks, s) ==
  /\ w.at <= Len(blocks)
  /\ w.pc = "look" /\ blocks # <<>> => w.at < Len(blocks)
  /\ w.pc = "write" => w.at = Len(blocks)
  /\ w.wrote \subseteq Tools!Named(blocks)
  /\ \A n \in 1..w.at : Tools!Holds(blocks, w.found, s, n)
Held == \A k \in DOMAIN branch : HeldUp(branch[k], Tools!Blocks(plan[k]), seen)

(* What runs was allowed, or asked about and agreed to.                    *)
Granted(k) ==
  plan[k].grant = "allow" \/ (plan[k].grant = "ask" /\ (k \in agreed \/ 0 \in agreed))
Consented ==
  /\ allowTurn => 0 \in agreed
  /\ pc = "card" => plan[i].grant = "ask"
  /\ \A k \in DOMAIN branch : Granted(k)
  /\ Tools!OnlyTheAgreedRuns

ToolsInv == ToolsShape /\ Evident /\ Held /\ Consented

(* Sets of numbers have a least member,                                    *)
LEMMA LeastExists ==
  ASSUME NEW S, S \subseteq Nat, S # {}
  PROVE  \E m \in S : \A n \in S : ~(<<n, m>> \in OpToRel(<, Nat))
  BY WFMin, NatLessThanWellFounded, Zenon

(* and if bounded a greatest, which Max gives.                             *)
LEMMA MaxExists ==
  ASSUME NEW n \in Nat, NEW S \in SUBSET (0..n), S # {}
  PROVE  Tools!Max(S) \in S /\ \A k \in S : Tools!Max(S) >= k
<1> DEFINE T == {n - k : k \in S}
<1>1. T \subseteq Nat /\ T # {}
  <2>1. \A k \in S : n - k \in Nat  OBVIOUS
  <2> QED BY <2>1
<1>2. PICK t \in T : \A u \in T : ~(<<u, t>> \in OpToRel(<, Nat))
  <2> HIDE DEF T
  <2> QED BY <1>1, LeastExists
<1>3. \A u \in T : ~(u < t)  BY <1>1, <1>2, Zenon DEF OpToRel
<1>4. PICK m \in S : t = n - m  BY <1>2
<1>5. ASSUME NEW k \in S PROVE m >= k
  <2>1. n - k \in T  OBVIOUS
  <2>2. ~(n - k < n - m)  BY <1>3, <1>4, <2>1
  <2>3. k \in Int /\ m \in Int  OBVIOUS
  <2> HIDE DEF T
  <2> QED BY <2>2, <2>3
<1> QED BY <1>5 DEF Tools!Max

-----------------------------------------------------------------------------
(* What a call does in one step: types; and what its ledger comes to know, *)
(* it has been shown as it is on disk.                                     *)
Proper(f, s, r) ==
  /\ r.file \in Files /\ r.ledger \in Ledgers
  /\ \A p \in Places : p \in r.shows => f[p] \in Texts
  /\ \A p \in Places : r.ledger[p] \in Texts =>
       r.ledger[p] = s[p] \/ (p \in r.shows /\ r.ledger[p] = f[p])

(* A reading.                                                              *)
LEMMA ReadIsProper ==
  ASSUME NEW c \in ToolCalls, NEW f \in Files, NEW s \in Ledgers, NEW r \in Tools!Read(c, f, s)
  PROVE  Proper(f, s, r)
<1> DEFINE p == c.path
           t == Tools!NoteRead(s, p, Tools!Whole(c, f[p]), f[p])
           v == IF c.kind = "read" /\ f[p] \notin Unclears THEN {p} ELSE {}
<1>1. CASE f[p] = None
  <2>1. r = Tools!Result(f, s, {})  BY <1>1 DEF Tools!Read
  <2>2. r.file = f /\ r.ledger = s /\ r.shows = {}  BY <2>1 DEF Tools!Result
  <2> QED BY <2>2 DEF Proper
<1>2. CASE f[p] # None
  <2>1. r.file = f /\ r.ledger = t /\ r.shows = v
    <3>1. r = Tools!Result(f, t, v)  BY <1>2 DEF Tools!Read
    <3> HIDE DEF t, p, v
    <3> QED BY <3>1 DEF Tools!Result
  <2>2. p \in Places /\ f[p] \in Texts  BY <1>2, CallsAreSensible DEF Files
  <2>3. t \in Ledgers  BY <2>2 DEF Tools!NoteRead, Ledgers
  <2>4. ASSUME NEW q \in Places, t[q] \in Texts
        PROVE  t[q] = s[q] \/ (q \in v /\ t[q] = f[q])
    <3>1. CASE Tools!Whole(c, f[p])
      BY <3>1, <2>2 DEF Tools!NoteRead, Tools!Whole, Ledgers
    <3>2. CASE ~Tools!Whole(c, f[p])
      BY <3>2, <2>2, <2>4, CallsAreSensible DEF Tools!NoteRead, Ledgers
    <3> QED BY <3>1, <3>2
  <2>5. v \subseteq {p}  OBVIOUS
  <2> HIDE DEF t, v
  <2> QED BY <2>1, <2>2, <2>3, <2>4, <2>5 DEF Proper
<1> QED BY <1>1, <1>2

(* A deletion and a command leave the ledger alone.                        *)
LEMMA UnnotedIsProper ==
  ASSUME NEW c \in ToolCalls, NEW f \in Files, NEW s \in Ledgers,
         NEW r \in Tools!Delete(c, f, s) \union Tools!Command(c, f, s)
  PROVE  Proper(f, s, r)
<1>1. c.path \in Places /\ c.text \in Texts \union {None}  BY CallsAreSensible
<1>2. \E content \in Texts \union {None} :
        r.file = [f EXCEPT ![c.path] = content] /\ r.ledger = s /\ r.shows = {}
  <2>1. f[c.path] \in Texts \union {None}  BY <1>1 DEF Files
  <2>2. PICK content \in Texts \union {None} :
          r = Tools!Result([f EXCEPT ![c.path] = content], s, {})
    BY <1>1, <2>1, Zenon DEF Tools!Delete, Tools!Command
  <2> QED BY <2>2 DEF Tools!Result
<1>3. r.file \in Files  BY <1>1, <1>2 DEF Files
<1> QED BY <1>2, <1>3 DEF Proper

(* Every call that does not write.                                         *)
LEMMA ExecuteIsProper ==
  ASSUME NEW c \in ToolCalls, NEW f \in Files, NEW s \in Ledgers, NEW r \in Tools!Execute(c, f, s)
  PROVE  Proper(f, s, r)
<1>1. CASE c.kind \in {"read", "part"}  BY <1>1, ReadIsProper DEF Tools!Execute
<1>2. CASE c.kind \notin {"read", "part"}  BY <1>2, UnnotedIsProper DEF Tools!Execute
<1> QED BY <1>1, <1>2

-----------------------------------------------------------------------------
(* What a call that writes finds, and what it leaves.                      *)

(* The last block on a path that some block is on.                         *)
LEMMA LastBlock ==
  ASSUME NEW blocks \in Seq(BlockKinds), NEW p, NEW n \in 1..Len(blocks) + 1,
         Tools!Before(blocks, p, n) # {}
  PROVE  LET m == Tools!Max(Tools!Before(blocks, p, n))
         IN /\ m \in 1..Len(blocks) /\ m < n /\ blocks[m].path = p /\ blocks[m].text \in Texts
            /\ \A k \in 1..n - 1 : blocks[k].path = p => k <= m
<1> DEFINE before == Tools!Before(blocks, p, n)
           m == Tools!Max(before)
<1>1. Len(blocks) \in Nat /\ n - 1 \in Nat  OBVIOUS
<1>2. before = {k \in 1..n - 1 : blocks[k].path = p}  BY DEF Tools!Before
<1>3. before \in SUBSET (0..(n - 1)) /\ before # {}  BY <1>1, <1>2
<1> HIDE DEF before
<1>4. m \in before /\ \A k \in before : m >= k  BY <1>1, <1>3, MaxExists
<1>5. m \in 1..n - 1 /\ blocks[m].path = p  BY <1>2, <1>4
<1>6. m \in 1..Len(blocks) /\ m < n  BY <1>1, <1>5
<1>7. blocks[m] \in BlockKinds  BY <1>6
<1>8. blocks[m].text \in Texts  BY <1>7 DEF BlockKinds
<1>9. \A k \in 1..n - 1 : blocks[k].path = p => k <= m  BY <1>1, <1>2, <1>4, <1>6
<1> QED BY <1>5, <1>6, <1>8, <1>9 DEF before

(* What is written to a file is the text of the last block on it.          *)
LEMMA TextIs ==
  ASSUME NEW blocks \in Seq(BlockKinds), NEW n \in 1..Len(blocks)
  PROVE  LET p == blocks[n].path
         IN /\ p \in Places /\ Tools!Text(blocks, p) \in Texts
            /\ \E m \in 1..Len(blocks) :
                 /\ blocks[m].path = p /\ Tools!Text(blocks, p) = blocks[m].text
                 /\ \A k \in m + 1..Len(blocks) : blocks[k].path # p
<1> DEFINE p == blocks[n].path
           all == Len(blocks) + 1
           m == Tools!Max(Tools!Before(blocks, p, all))
<1>1. Len(blocks) \in Nat /\ all \in 1..Len(blocks) + 1 /\ all - 1 = Len(blocks)  OBVIOUS
<1>2. p \in Places
  <2>1. blocks[n] \in BlockKinds  OBVIOUS
  <2> QED BY <2>1 DEF BlockKinds
<1>3. n \in Tools!Before(blocks, p, all)  BY <1>1 DEF Tools!Before
<1>4. Tools!Text(blocks, p) = blocks[m].text  BY DEF Tools!Text
<1> HIDE DEF p, all
<1>5. /\ m \in 1..Len(blocks) /\ blocks[m].path = p /\ blocks[m].text \in Texts
      /\ \A k \in 1..all - 1 : blocks[k].path = p => k <= m
  BY <1>1, <1>3, LastBlock
<1> HIDE DEF m
<1>6. ASSUME NEW k \in m + 1..Len(blocks) PROVE blocks[k].path # p
  BY <1>1, <1>5
<1> QED BY <1>2, <1>4, <1>5, <1>6 DEF p

(* A call looks at the file of its next block: what it has found holds for *)
(* the blocks before it as well.                                           *)
LEMMA LookIsHeld ==
  ASSUME NEW c \in ToolCalls, NEW f \in Files, NEW w \in Works, seen \in Ledgers,
         HeldUp(w, Tools!Blocks(c), seen), w.pc = "look", Tools!Blocks(c) # <<>>
  PROVE  LET t == Tools!Looked(c, f, w)
         IN /\ t \in Works /\ t.ledger = w.ledger /\ t.pc # "done"
            /\ HeldUp(t, Tools!Blocks(c), seen)
<1> DEFINE blocks == Tools!Blocks(c)
           n == w.at + 1
           p == blocks[n].path
           found == IF Tools!Before(blocks, p, n) = {} THEN [w.found EXCEPT ![p] = f[p]] ELSE w.found
           t == Tools!Looked(c, f, w)
<1>1. blocks \in Seq(BlockKinds) /\ Len(blocks) \in Nat  BY CallsAreSensible
<1>2. w.at \in Nat /\ w.found \in Files  BY DEF Works
<1>3. n \in 1..Len(blocks) /\ n - 1 = w.at  BY <1>1, <1>2 DEF HeldUp
<1>4. p \in Places
  <2>1. blocks[n] \in BlockKinds  BY <1>1, <1>3
  <2> QED BY <2>1 DEF BlockKinds
<1>5. found \in Files  BY <1>2, <1>4 DEF Files
<1>6. CASE ~Tools!Holds(blocks, found, seen, n)
  <2>1. t = [w EXCEPT !.pc = "failed"]  BY <1>6 DEF Tools!Looked
  <2>2. /\ t.pc = "failed" /\ t.at = w.at /\ t.found = w.found /\ t.wrote = w.wrote
        /\ t.ledger = w.ledger /\ t \in Works
    BY <2>1 DEF Works
  <2> HIDE DEF t, blocks
  <2> QED BY <2>2 DEF HeldUp, t, blocks
<1>7. CASE Tools!Holds(blocks, found, seen, n)
  <2> DEFINE next == IF n = Len(blocks) THEN "write" ELSE "look"
  <2>1. t = [w EXCEPT !.at = n, !.found = found, !.pc = next]
    BY <1>7 DEF Tools!Looked, Tools!Ready
  <2>2. ASSUME NEW m \in 1..w.at PROVE Tools!Holds(blocks, found, seen, m)
    <3>1. Tools!Holds(blocks, w.found, seen, m)  BY DEF HeldUp
    <3>2. CASE found = w.found  BY <3>1, <3>2
    <3>3. CASE Tools!Before(blocks, p, n) = {}
      <4>1. m \in 1..n - 1  BY <1>3
      <4>2. blocks[m].path # p  BY <3>3, <4>1 DEF Tools!Before
      <4>3. blocks[m] \in BlockKinds  BY <1>1, <1>2, <1>3, <4>1
      <4>4. found[blocks[m].path] = w.found[blocks[m].path]
        BY <1>2, <3>3, <4>2, <4>3 DEF Files, BlockKinds
      <4> HIDE DEF found, blocks
      <4> QED BY <3>1, <4>4 DEF Tools!Holds, Tools!Found
    <3> QED BY <3>2, <3>3
  <2> HIDE DEF found, n, t
  <2>6. next \in {"look", "write"} /\ n \in Nat  BY <1>1, <1>3
  <2> HIDE DEF next
  <2>3. /\ t.pc = next /\ t.at = n /\ t.found = found /\ t.wrote = w.wrote
        /\ t.ledger = w.ledger /\ t \in Works
    BY <1>5, <2>1, <2>6 DEF Works
  <2>4. \A m \in 1..n : Tools!Holds(blocks, found, seen, m)
    BY <1>2, <1>3, <1>7, <2>2
  <2>5. n \in Nat /\ n <= Len(blocks) /\ next \in {"look", "write"}
        /\ (next = "look" => n < Len(blocks)) /\ (next = "write" => n = Len(blocks))
    BY <1>1, <1>3 DEF next
  <2>7. w.wrote \subseteq Tools!Named(blocks)  BY DEF HeldUp
  <2> HIDE DEF blocks
  <2> QED BY <2>3, <2>4, <2>5, <2>7 DEF HeldUp, t, blocks
<1> QED BY <1>6, <1>7

(* A file is written: the call knows what it has left there.               *)
LEMMA PutIsHeld ==
  ASSUME NEW c \in ToolCalls, NEW w \in Works, seen \in Ledgers, HeldUp(w, Tools!Blocks(c), seen),
         w.pc = "write", NEW n \in 1..Len(Tools!Blocks(c))
  PROVE  LET p == Tools!Blocks(c)[n].path
             t == Tools!Wrote(c, w, p)
         IN /\ t \in Works /\ HeldUp(t, Tools!Blocks(c), seen) /\ t.found = w.found
            /\ t.ledger = [w.ledger EXCEPT ![p] = Tools!Text(Tools!Blocks(c), p)]
            /\ t.pc = "done" => t.wrote = Tools!Named(Tools!Blocks(c))
<1> DEFINE blocks == Tools!Blocks(c)
           p == blocks[n].path
           text == Tools!Text(blocks, p)
           next == IF Tools!Named(blocks) \subseteq w.wrote \union {p} THEN "done" ELSE "write"
           t == Tools!Wrote(c, w, p)
<1>1. blocks \in Seq(BlockKinds) /\ Len(blocks) \in Nat  BY CallsAreSensible
<1>2. p \in Places /\ text \in Texts  BY <1>1, TextIs
<1>3. p \in Tools!Named(blocks)  BY DEF Tools!Named
<1>4. t = [w EXCEPT !.wrote = w.wrote \union {p}, !.ledger = [w.ledger EXCEPT ![p] = text], !.pc = next]
  BY DEF Tools!Wrote, Tools!NoteWritten
<1>5. w.ledger \in Ledgers /\ w.wrote \subseteq Places  BY DEF Works
<1>6. [w.ledger EXCEPT ![p] = text] \in Ledgers  BY <1>2, <1>5 DEF Ledgers
<1> HIDE DEF p, text, next, blocks, t
<1>7. next \in {"done", "write"}  BY DEF next
<1>8. /\ t.pc = next /\ t.at = w.at /\ t.found = w.found /\ t.wrote = w.wrote \union {p}
      /\ t.ledger = [w.ledger EXCEPT ![p] = text] /\ t \in Works
  BY <1>2, <1>4, <1>5, <1>6, <1>7 DEF Works
<1>9. t.wrote \subseteq Tools!Named(blocks)  BY <1>3, <1>8 DEF HeldUp, blocks
<1>10. next = "done" => Tools!Named(blocks) \subseteq w.wrote \union {p}  BY DEF next
<1>11. HeldUp(w, blocks, seen)  BY DEF blocks
<1>12. HeldUp(t, blocks, seen)  BY <1>7, <1>8, <1>9, <1>11 DEF HeldUp
<1> QED BY <1>8, <1>9, <1>10, <1>12 DEF p, text, blocks, t

(* Who has been shown more has met all that was met.                       *)
LEMMA MoreIsMet ==
  ASSUME NEW t \in Ledgers, NEW were, NEW are, Evidence(t, were),
         \A p \in Places : were[p] \subseteq are[p]
  PROVE  Evidence(t, are)
  BY DEF Evidence, Tools!Met

-----------------------------------------------------------------------------
(* No call is a batch of calls.                                            *)
LEMMA NoCalls == <<>> \in Seq(ToolCalls) /\ Len(<<>>) = 0 /\ DOMAIN <<>> = {}
  OBVIOUS

(* At first nothing is known and nothing runs.                             *)
LEMMA ToolsStart == Tools!Init => ToolsInv
<1> SUFFICES ASSUME Tools!Init PROVE ToolsInv  OBVIOUS
<1>1. ToolsShape
  <2>1. seen \in Ledgers  BY DEF Tools!Init, Tools!Nobody, Ledgers
  <2>2. disk \in Files /\ shown \in [Places -> SUBSET Views]  BY DEF Tools!Init, Files
  <2>3. DOMAIN branch = {} /\ plan \in Seq(ToolCalls)  BY NoCalls DEF Tools!Init
  <2>4. i = 1 /\ pc = "think" /\ allowTurn = FALSE  BY DEF Tools!Init
  <2>5. i \in Nat \ {0} /\ pc \in {"think", "batch", "card", "calls"}
        /\ allowTurn \in BOOLEAN /\ (pc # "think" => i =< Len(plan))
    <3>1. i \in Nat \ {0}  BY <2>4
    <3> QED BY <2>4, <3>1, Zenon
  <2>6. /\ DOMAIN branch \subseteq 1..Len(plan) /\ (pc # "calls" => DOMAIN branch = {})
        /\ \A k \in DOMAIN branch : branch[k] \in Works
    BY <2>3
  <2> QED BY <2>1, <2>2, <2>3, <2>5, <2>6 DEF ToolsShape
<1>2. Evident  BY CallsAreSensible DEF Tools!Init, Evident, Evidence, Tools!Nobody
<1>3. Consented  BY DEF Tools!Init, Consented, Tools!OnlyTheAgreedRuns
<1>4. Held  BY DEF Tools!Init, Held
<1> QED BY <1>1, <1>2, <1>3, <1>4 DEF ToolsInv

(* On to another call, or to the end of the batch.                         *)
LEMMA GoingOn ==
  ASSUME ToolsInv, pc # "think", NEW n \in Nat \ {0}, Tools!GoOn(n)
  PROVE  /\ plan' \in Seq(ToolCalls) /\ i' \in Nat \ {0} /\ pc' \in {"think", "batch"}
         /\ pc' # "think" => i' <= Len(plan')
<1>1. plan \in Seq(ToolCalls) /\ Len(plan) \in Nat  BY DEF ToolsInv, ToolsShape
<1>2. CASE n > Len(plan)
  <2>1. plan' = <<>> /\ i' = 1 /\ pc' = "think"  BY <1>2 DEF Tools!GoOn
  <2> QED BY <2>1, NoCalls
<1>3. CASE ~(n > Len(plan))
  <2>1. plan' = plan /\ i' = n /\ pc' = "batch"  BY <1>3 DEF Tools!GoOn
  <2> QED BY <1>1, <1>3, <2>1
<1> QED BY <1>2, <1>3

(* A batch comes with the calls of a reply.                                *)
LEMMA BatchKeeps ==
  ASSUME ToolsInv, NEW n \in 1..MaxBatch, NEW calls \in [1..n -> ToolCalls], Tools!Batch(calls)
  PROVE  ToolsInv'
<1>1. /\ plan' = calls /\ i' = 1 /\ pc' = "batch" /\ agreed' = agreed \cap {0} /\ last' = None
      /\ pc = "think" /\ UNCHANGED <<disk, seen, branch, allowTurn, shown, changes>>
  BY DEF Tools!Batch
<1>2. calls \in Seq(ToolCalls) /\ Len(calls) = n /\ n \in Nat /\ n >= 1  OBVIOUS
<1>3. DOMAIN branch = {}  BY <1>1 DEF ToolsInv, ToolsShape
<1>4. ToolsShape'  BY <1>1, <1>2, <1>3 DEF ToolsInv, ToolsShape
<1>5. Evident'  BY <1>1 DEF ToolsInv, Evident
<1>6. Consented'  BY <1>1, <1>3 DEF ToolsInv, Consented, Tools!OnlyTheAgreedRuns
<1>7. Held'  BY <1>1, <1>3 DEF Held
<1> QED BY <1>4, <1>5, <1>6, <1>7 DEF ToolsInv

(* What begins has looked at nothing.                                      *)
LEMMA WorkBegins ==
  ASSUME ToolsShape, Evident, NEW blocks \in Seq(BlockKinds)
  PROVE  Tools!Work \in Works /\ HeldUp(Tools!Work, blocks, seen) /\ Evidence(Tools!Work.ledger, shown)
<1>1. Tools!Work = [pc |-> "look", at |-> 0, found |-> [p \in Places |-> None], wrote |-> {}, ledger |-> seen]
  BY DEF Tools!Work
<1>2. [p \in Places |-> None] \in Files  BY DEF Files
<1>3. 0 \in Nat /\ seen \in Ledgers  BY DEF ToolsShape
<1>4. Tools!Work \in Works  BY <1>1, <1>2, <1>3 DEF Works
<1>5. Len(blocks) \in Nat /\ (blocks # <<>> => 0 < Len(blocks))  OBVIOUS
<1>6. HeldUp(Tools!Work, blocks, seen)  BY <1>1, <1>5 DEF HeldUp
<1> QED BY <1>1, <1>4, <1>6 DEF Evident

(* Calls that were agreed to begin.                                        *)
LEMMA BeginKeeps ==
  ASSUME ToolsInv, pc \in {"batch", "card"}, NEW S, S \subseteq 1..Len(plan),
         branch' = [k \in S |-> Tools!Work], pc' = "calls", last' = None,
         UNCHANGED <<disk, seen, plan, i, shown>>,
         allowTurn' \in BOOLEAN, allowTurn' => 0 \in agreed', \A k \in S : Granted(k)'
  PROVE  ToolsInv'
<1>1. DOMAIN branch' = S /\ \A k \in S : branch'[k] = Tools!Work  OBVIOUS
<1>2. \A k \in S : plan[k] \in ToolCalls  BY DEF ToolsInv, ToolsShape
<1>3. \A k \in S : /\ branch'[k] \in Works /\ HeldUp(branch'[k], Tools!Blocks(plan[k]), seen)
                   /\ Evidence(branch'[k].ledger, shown)
  BY <1>1, <1>2, WorkBegins, CallsAreSensible DEF ToolsInv
<1>4. ToolsShape'  BY <1>1, <1>3 DEF ToolsInv, ToolsShape
<1>5. Evident'  BY <1>1, <1>3 DEF ToolsInv, Evident
<1>6. Held'  BY <1>1, <1>3 DEF Held
<1>7. Consented'  BY <1>1 DEF Consented, Tools!OnlyTheAgreedRuns
<1> QED BY <1>4, <1>5, <1>6, <1>7 DEF ToolsInv

(* A refusal, a card and its answer run nothing that was not agreed to.    *)
LEMMA AskKeeps ==
  ASSUME ToolsInv, NEW option \in {"allow", "allow_turn", "deny"},
         Tools!Refuse \/ Tools!RaiseCard \/ Tools!Answer(option)
  PROVE  ToolsInv'
<1>1. /\ UNCHANGED <<disk, seen, shown>> /\ last' = None
      /\ pc \in {"batch", "card"}
  BY DEF Tools!Refuse, Tools!RaiseCard, Tools!Answer
<1>2. DOMAIN branch = {} /\ i + 1 \in Nat \ {0}  BY <1>1 DEF ToolsInv, ToolsShape
<1>3. UNCHANGED branch => Evident' /\ Held'  BY <1>1, <1>2 DEF ToolsInv, Evident, Held
<1>4. CASE Tools!GoOn(i + 1) /\ UNCHANGED branch
  <2>1. allowTurn' \in BOOLEAN /\ (allowTurn' => 0 \in agreed')
    <3>1. CASE UNCHANGED <<allowTurn, agreed>>
      BY <3>1 DEF ToolsInv, ToolsShape, Consented
    <3>2. CASE Tools!Answer(option)
      BY <3>2 DEF Tools!Answer, ToolsInv, ToolsShape, Consented
    <3> QED BY <3>1, <3>2 DEF Tools!Refuse, Tools!RaiseCard
  <2>2. ToolsShape'  BY <1>1, <1>2, <1>4, <2>1, GoingOn DEF ToolsInv, ToolsShape
  <2>3. Consented'
    BY <1>1, <1>2, <1>4, <2>1, GoingOn DEF ToolsInv, Consented, Tools!OnlyTheAgreedRuns
  <2> QED BY <1>3, <1>4, <2>2, <2>3 DEF ToolsInv
<1>5. CASE Tools!RaiseCard
  <2>1. /\ pc = "batch" /\ pc' = "card" /\ plan[i].grant = "ask"
        /\ UNCHANGED <<plan, i, branch, allowTurn, agreed>>
    BY <1>5 DEF Tools!RaiseCard
  <2>2. ToolsShape'  BY <1>1, <1>2, <2>1 DEF ToolsInv, ToolsShape
  <2>3. Consented'  BY <1>1, <1>2, <2>1 DEF ToolsInv, Consented, Tools!OnlyTheAgreedRuns
  <2> QED BY <1>3, <2>1, <2>2, <2>3 DEF ToolsInv
<1>6. CASE Tools!Answer(option) /\ option # "deny"
  <2>1. /\ pc = "card" /\ pc' = "calls" /\ UNCHANGED <<plan, i>>
        /\ branch' = [k \in {i} |-> Tools!Work]
        /\ allowTurn' = (allowTurn \/ option = "allow_turn")
        /\ agreed' = agreed \union (CASE option = "allow" -> {i}
                                    [] option = "allow_turn" -> {0}
                                    [] OTHER -> {})
    BY <1>6 DEF Tools!Answer
  <2>2. allowTurn' \in BOOLEAN  BY <2>1 DEF ToolsInv, ToolsShape
  <2>3. option = "allow" => i \in agreed'  BY <2>1
  <2>4. option = "allow_turn" => 0 \in agreed'  BY <2>1
  <2>5. agreed \subseteq agreed'  BY <2>1
  <2>6. option \in {"allow", "allow_turn"}  BY <1>6
  <2>7. allowTurn' => 0 \in agreed'
    <3>1. CASE option = "allow_turn"  BY <2>4, <3>1
    <3>2. CASE option # "allow_turn"
      <4>1. allowTurn' = allowTurn  BY <2>1, <3>2 DEF ToolsInv, ToolsShape
      <4> QED BY <2>5, <4>1 DEF ToolsInv, Consented
    <3> QED BY <3>1, <3>2
  <2>8. plan[i].grant = "ask" /\ {i} \subseteq 1..Len(plan)
    BY <2>1 DEF ToolsInv, Consented, ToolsShape
  <2>9. \A k \in {i} : Granted(k)'  BY <2>1, <2>3, <2>4, <2>6, <2>8 DEF Granted
  <2> QED BY <1>1, <2>1, <2>2, <2>7, <2>8, <2>9, BeginKeeps
<1> QED BY <1>4, <1>5, <1>6 DEF Tools!Refuse, Tools!RaiseCard, Tools!Answer

(* Neighbours begin together; what begins was allowed, or agreed to.       *)
LEMMA ForkKeeps == ASSUME ToolsInv, Tools!Fork PROVE ToolsInv'
<1>1. /\ pc = "batch" /\ pc' = "calls" /\ last' = None
      /\ branch' = [k \in IF Tools!AtOnce(i) THEN Tools!Group(i) ELSE {i} |-> Tools!Work]
      /\ Tools!AtOnce(i) \/ plan[i].grant = "allow" \/ (plan[i].grant = "ask" /\ allowTurn)
      /\ UNCHANGED <<disk, seen, plan, i, allowTurn, agreed, shown, changes>>
  BY DEF Tools!Fork
<1>2. i \in Nat \ {0} /\ i <= Len(plan) /\ Len(plan) \in Nat
  BY <1>1 DEF ToolsInv, ToolsShape
<1>3. Tools!Group(i) \subseteq 1..Len(plan) /\ \A k \in Tools!Group(i) : Tools!AtOnce(k)
  <2> DEFINE ends == {j \in i..Len(plan) : ~Tools!AtOnce(j)}
  <2>1. CASE ends = {}  BY <1>2, <2>1 DEF Tools!Group
  <2>2. CASE ends # {}
    <3> DEFINE j0 == CHOOSE j \in ends : \A k \in ends : j <= k
    <3>1. j0 \in ends /\ \A k \in ends : j0 <= k
      <4>1. ends \subseteq Nat  BY <1>2
      <4> HIDE DEF ends
      <4>2. PICK m \in ends : \A n \in ends : ~(<<n, m>> \in OpToRel(<, Nat))
        BY <2>2, <4>1, LeastExists
      <4>3. \A n \in ends : ~(n < m)  BY <4>1, <4>2, Zenon DEF OpToRel
      <4>4. \A n \in ends : m <= n  BY <4>1, <4>3
      <4> QED BY <4>4
    <3>2. Tools!Group(i) = i..j0 - 1  BY <2>2 DEF Tools!Group
    <3> HIDE DEF j0
    <3>3. j0 \in i..Len(plan)  BY <3>1
    <3>4. Tools!Group(i) \subseteq i..Len(plan)  BY <1>2, <3>2, <3>3
    <3>5. \A k \in Tools!Group(i) : k \notin ends
      <4> HIDE DEF ends
      <4> QED BY <1>2, <3>1, <3>2, <3>3
    <3>6. i..Len(plan) \subseteq 1..Len(plan)  BY <1>2
    <3>7. \A k \in Tools!Group(i) : Tools!AtOnce(k)  BY <3>4, <3>5
    <3> QED BY <3>4, <3>6, <3>7
  <2> QED BY <2>1, <2>2
<1> DEFINE S == IF Tools!AtOnce(i) THEN Tools!Group(i) ELSE {i}
<1> HIDE DEF Tools!Group
<1>4. S \subseteq 1..Len(plan)  BY <1>2, <1>3
<1>5. ASSUME NEW k \in S PROVE Granted(k)'
  <2>1. CASE Tools!AtOnce(i)  BY <1>1, <1>3, <2>1 DEF Tools!AtOnce, Granted
  <2>2. CASE ~Tools!AtOnce(i)  BY <1>1, <2>2 DEF Granted, ToolsInv, Consented
  <2> QED BY <2>1, <2>2
<1>6. allowTurn' \in BOOLEAN /\ (allowTurn' => 0 \in agreed')
  BY <1>1 DEF ToolsInv, ToolsShape, Consented
<1>7. branch' = [k \in S |-> Tools!Work]  BY <1>1
<1> HIDE DEF S
<1> QED BY <1>1, <1>4, <1>5, <1>6, <1>7, BeginKeeps

(* A call makes a step: whatever it writes, it keeps the rest.             *)
LEMMA GoesKeeps ==
  ASSUME ToolsInv, NEW k \in DOMAIN branch, NEW stage, Tools!Goes(k, stage), NEW w \in Works,
         branch' = [branch EXCEPT ![k] = w], HeldUp(w, Tools!Blocks(plan[k]), seen),
         disk' \in Files, shown' \in [Places -> SUBSET Views],
         \A p \in Places : shown[p] \subseteq shown'[p], Evidence(w.ledger, shown')
  PROVE  ToolsInv'
<1>1. /\ pc = "calls" /\ last' = [k |-> k, call |-> plan[k]]
      /\ UNCHANGED <<seen, plan, i, pc, allowTurn, agreed, changes>>
  BY DEF Tools!Goes
<1>2. /\ DOMAIN branch' = DOMAIN branch /\ branch'[k] = w
      /\ \A j \in DOMAIN branch : j # k => branch'[j] = branch[j]
  OBVIOUS
<1>3. ToolsShape'  BY <1>1, <1>2 DEF ToolsInv, ToolsShape
<1>4. Evident'
  <2>1. Evidence(seen, shown')  BY MoreIsMet DEF ToolsInv, ToolsShape, Evident
  <2>2. ASSUME NEW j \in DOMAIN branch, j # k PROVE Evidence(branch[j].ledger, shown')
    <3>1. branch[j].ledger \in Ledgers  BY DEF ToolsInv, ToolsShape, Works
    <3>2. Evidence(branch[j].ledger, shown)  BY DEF ToolsInv, Evident
    <3> QED BY <3>1, <3>2, MoreIsMet
  <2> QED BY <1>1, <1>2, <2>1, <2>2 DEF Evident
<1>5. Held'  BY <1>1, <1>2 DEF ToolsInv, Held
<1>6. Granted(k)  BY DEF ToolsInv, Consented
<1>7. \A j \in DOMAIN branch' : Granted(j)'  BY <1>1, <1>2 DEF ToolsInv, Consented, Granted
<1>8. Tools!OnlyTheAgreedRuns'  BY <1>1, <1>6 DEF Granted, Tools!OnlyTheAgreedRuns
<1>9. Consented'  BY <1>1, <1>7, <1>8 DEF ToolsInv, Consented
<1> QED BY <1>3, <1>4, <1>5, <1>9 DEF ToolsInv

(* One that does not write.                                                *)
LEMMA DoKeeps == ASSUME ToolsInv, NEW k \in DOMAIN branch, Tools!Do(k) PROVE ToolsInv'
<1>1. plan[k] \in ToolCalls /\ disk \in Files /\ seen \in Ledgers /\ branch[k] \in Works
      /\ shown \in [Places -> SUBSET Views]
  BY DEF ToolsInv, ToolsShape
<1>2. Tools!Goes(k, "look") /\ Tools!Blocks(plan[k]) = <<>>  BY DEF Tools!Do
<1>3. PICK r \in Tools!Execute(plan[k], disk, seen) :
        /\ disk' = r.file
        /\ branch' = [branch EXCEPT ![k] = [branch[k] EXCEPT !.pc = "done", !.ledger = r.ledger]]
        /\ shown' = [p \in Places |-> shown[p] \union IF p \in r.shows THEN {Tools!AsRead(disk[p])} ELSE {}]
  <2>1. PICK r \in Tools!Execute(plan[k], disk, seen) :
          /\ disk' = r.file
          /\ branch' = [branch EXCEPT ![k].pc = "done", ![k].ledger = r.ledger]
          /\ shown' = [p \in Places |-> shown[p] \union IF p \in r.shows THEN {Tools!AsRead(disk[p])} ELSE {}]
    BY DEF Tools!Do
  <2>2. [branch EXCEPT ![k].pc = "done", ![k].ledger = r.ledger]
        = [branch EXCEPT ![k] = [branch[k] EXCEPT !.pc = "done", !.ledger = r.ledger]]
    OBVIOUS
  <2> QED BY <2>1, <2>2
<1> DEFINE w == [branch[k] EXCEPT !.pc = "done", !.ledger = r.ledger]
<1>4. Proper(disk, seen, r)  BY <1>1, ExecuteIsProper
<1>5. r.ledger \in Ledgers  BY <1>4 DEF Proper
<1>6. /\ w \in Works /\ w.pc = "done" /\ w.at = branch[k].at /\ w.found = branch[k].found
      /\ w.wrote = branch[k].wrote /\ w.ledger = r.ledger
  BY <1>1, <1>5 DEF Works
<1>7. HeldUp(branch[k], Tools!Blocks(plan[k]), seen)  BY DEF ToolsInv, Held
<1> HIDE DEF w
<1>8. HeldUp(w, Tools!Blocks(plan[k]), seen)  BY <1>6, <1>7 DEF HeldUp
<1>9. ASSUME NEW p \in Places, p \in r.shows
      PROVE  Tools!AsRead(disk[p]) \in Views /\ Tools!Met({Tools!AsRead(disk[p])}, disk[p])
  BY <1>4, <1>9 DEF Proper, Views, Tools!AsRead, Tools!Met
<1>10. shown' \in [Places -> SUBSET Views]  BY <1>1, <1>3, <1>9
<1>11. \A p \in Places : shown[p] \subseteq shown'[p] /\ (p \in r.shows => Tools!AsRead(disk[p]) \in shown'[p])
  BY <1>3
<1>12. Evidence(seen, shown)  BY DEF ToolsInv, Evident
<1>13. ASSUME NEW p \in Places, r.ledger[p] \in Texts PROVE Tools!Met(shown'[p], r.ledger[p])
  <2>1. CASE r.ledger[p] = seen[p]
    BY <1>11, <1>12, <1>13, <2>1 DEF Evidence, Tools!Met
  <2>2. CASE p \in r.shows /\ r.ledger[p] = disk[p]
    <3>1. Tools!Met({Tools!AsRead(disk[p])}, disk[p]) /\ Tools!AsRead(disk[p]) \in shown'[p]
      BY <1>9, <1>11, <2>2
    <3> QED BY <2>2, <3>1 DEF Tools!Met
  <2> QED BY <1>4, <1>13, <2>1, <2>2 DEF Proper
<1>14. Evidence(w.ledger, shown')  BY <1>6, <1>13 DEF Evidence
<1>15. disk' \in Files  BY <1>3, <1>4 DEF Proper
<1>16. branch' = [branch EXCEPT ![k] = w]  BY <1>3 DEF w
<1> QED BY <1>2, <1>6, <1>8, <1>10, <1>11, <1>14, <1>15, <1>16, GoesKeeps

(* One that looks at its files.                                            *)
LEMMA LookKeeps == ASSUME ToolsInv, NEW k \in DOMAIN branch, Tools!Look(k) PROVE ToolsInv'
<1>1. plan[k] \in ToolCalls /\ disk \in Files /\ seen \in Ledgers /\ branch[k] \in Works
      /\ shown \in [Places -> SUBSET Views]
  BY DEF ToolsInv, ToolsShape
<1> DEFINE w == Tools!Looked(plan[k], disk, branch[k])
<1>2. /\ Tools!Goes(k, "look") /\ Tools!Blocks(plan[k]) # <<>> /\ branch' = [branch EXCEPT ![k] = w]
      /\ disk' = disk /\ shown' = shown
  BY DEF Tools!Look
<1>3. HeldUp(branch[k], Tools!Blocks(plan[k]), seen) /\ branch[k].pc = "look"
  BY <1>2 DEF ToolsInv, Held, Tools!Goes
<1>4. w \in Works /\ w.ledger = branch[k].ledger /\ HeldUp(w, Tools!Blocks(plan[k]), seen)
  BY <1>1, <1>2, <1>3, LookIsHeld
<1> HIDE DEF w
<1>5. Evidence(w.ledger, shown')  BY <1>2, <1>4 DEF ToolsInv, Evident
<1> QED BY <1>1, <1>2, <1>4, <1>5, GoesKeeps

(* One that writes.                                                        *)
LEMMA PutKeeps == ASSUME ToolsInv, NEW k \in DOMAIN branch, Tools!Put(k) PROVE ToolsInv'
<1>1. plan[k] \in ToolCalls /\ disk \in Files /\ seen \in Ledgers /\ branch[k] \in Works
      /\ shown \in [Places -> SUBSET Views]
  BY DEF ToolsInv, ToolsShape
<1> DEFINE blocks == Tools!Blocks(plan[k])
<1>2. PICK n \in 1..Len(blocks) :
        /\ disk' = [disk EXCEPT ![blocks[n].path] = Tools!Text(blocks, blocks[n].path)]
        /\ shown' = [shown EXCEPT ![blocks[n].path] =
                       shown[blocks[n].path] \union {Tools!AsWritten(Tools!Text(blocks, blocks[n].path))}]
        /\ branch' = [branch EXCEPT ![k] = Tools!Wrote(plan[k], branch[k], blocks[n].path)]
  BY DEF Tools!Put
<1>3. Tools!Goes(k, "write")  BY DEF Tools!Put
<1> DEFINE p == blocks[n].path
           text == Tools!Text(blocks, p)
           w == Tools!Wrote(plan[k], branch[k], p)
<1>4. HeldUp(branch[k], blocks, seen) /\ branch[k].pc = "write"
  BY <1>3 DEF ToolsInv, Held, Tools!Goes
<1>5. p \in Places /\ text \in Texts  BY <1>1, TextIs, CallsAreSensible
<1>6. w \in Works /\ HeldUp(w, blocks, seen) /\ w.ledger = [branch[k].ledger EXCEPT ![p] = text]
  BY <1>1, <1>4, PutIsHeld
<1>7. /\ disk' = [disk EXCEPT ![p] = text] /\ branch' = [branch EXCEPT ![k] = w]
      /\ shown' = [shown EXCEPT ![p] = shown[p] \union {Tools!AsWritten(text)}]
  BY <1>2
<1> HIDE DEF p, text, w, blocks
<1>8. disk' \in Files  BY <1>1, <1>5, <1>7 DEF Files
<1>9. Tools!AsWritten(text) \in Views  BY <1>5 DEF Tools!AsWritten, Views
<1>10. shown' \in [Places -> SUBSET Views]  BY <1>1, <1>5, <1>7, <1>9
<1>11. (\A q \in Places : shown[q] \subseteq shown'[q]) /\ Tools!AsWritten(text) \in shown'[p]
  BY <1>1, <1>5, <1>7
<1>12. branch[k].ledger \in Ledgers /\ Evidence(branch[k].ledger, shown)
  BY DEF ToolsInv, ToolsShape, Evident, Works
<1>13. ASSUME NEW q \in Places, w.ledger[q] \in Texts PROVE Tools!Met(shown'[q], w.ledger[q])
  <2>1. CASE q = p
    <3>1. w.ledger[q] = text  BY <1>6, <1>12, <2>1 DEF Ledgers
    <3> QED BY <1>11, <2>1, <3>1 DEF Tools!Met, Tools!AsWritten
  <2>2. CASE q # p
    <3>1. w.ledger[q] = branch[k].ledger[q]  BY <1>6, <1>12, <2>2 DEF Ledgers
    <3> QED BY <1>11, <1>12, <1>13, <3>1 DEF Evidence, Tools!Met
  <2> QED BY <2>1, <2>2
<1>14. Evidence(w.ledger, shown')  BY <1>13 DEF Evidence
<1> QED BY <1>3, <1>6, <1>7, <1>8, <1>10, <1>11, <1>14, GoesKeeps DEF blocks

(* One that cannot.                                                        *)
LEMMA PutFailsKeeps == ASSUME ToolsInv, NEW k \in DOMAIN branch, Tools!PutFails(k) PROVE ToolsInv'
<1>1. disk \in Files /\ branch[k] \in Works /\ shown \in [Places -> SUBSET Views]
  BY DEF ToolsInv, ToolsShape
<1> DEFINE w == [branch[k] EXCEPT !.pc = "failed"]
<1>2. /\ Tools!Goes(k, "write") /\ branch' = [branch EXCEPT ![k] = w] /\ disk' = disk /\ shown' = shown
  BY DEF Tools!PutFails
<1>3. /\ w \in Works /\ w.pc = "failed" /\ w.at = branch[k].at /\ w.found = branch[k].found
      /\ w.wrote = branch[k].wrote /\ w.ledger = branch[k].ledger
  BY <1>1 DEF Works
<1>4. HeldUp(branch[k], Tools!Blocks(plan[k]), seen)  BY DEF ToolsInv, Held
<1> HIDE DEF w
<1>5. HeldUp(w, Tools!Blocks(plan[k]), seen)  BY <1>3, <1>4 DEF HeldUp
<1>6. Evidence(w.ledger, shown')  BY <1>2, <1>3 DEF ToolsInv, Evident
<1> QED BY <1>1, <1>2, <1>3, <1>5, <1>6, GoesKeeps

(* Their ledgers are taken over.                                           *)
LEMMA AbsorbKeeps == ASSUME ToolsInv, Tools!Absorb PROVE ToolsInv'
<1> DEFINE copies == [k \in DOMAIN branch |-> branch[k].ledger]
<1>1. /\ pc = "calls"
      /\ seen' = Tools!Absorbed(seen, copies) /\ Tools!GoOn(i + Tools!Cardinality(DOMAIN branch))
      /\ branch' = <<>> /\ last' = None
      /\ UNCHANGED <<disk, allowTurn, agreed, shown, changes>>
  BY DEF Tools!Absorb
<1>2. i + Tools!Cardinality(DOMAIN branch) \in Nat \ {0}
  <2>1. Len(plan) \in Nat /\ DOMAIN branch \subseteq 1..Len(plan) /\ i \in Nat \ {0}
    BY DEF ToolsInv, ToolsShape
  <2>2. Tools!Cardinality(DOMAIN branch) \in Nat
    <3>1. IsFiniteSet(1..Len(plan))  BY <2>1, FS_Interval
    <3>2. IsFiniteSet(DOMAIN branch)  BY <2>1, <3>1, FS_Subset
    <3> QED BY <3>2, FS_CardinalityType, BranchCount
  <2> QED BY <2>1, <2>2
<1>9. DOMAIN copies = DOMAIN branch /\ \A k \in DOMAIN branch : copies[k] = branch[k].ledger /\ copies[k] \in Ledgers
  BY DEF ToolsInv, ToolsShape, Works
<1> HIDE DEF copies
<1>3. ASSUME NEW p \in Places
      PROVE  /\ seen'[p] \in Texts \union {Tools!Unseen, Tools!Part}
             /\ seen'[p] \in Texts =>
                  seen'[p] = seen[p] \/ \E k \in DOMAIN branch : seen'[p] = copies[k][p]
  <2> DEFINE know == {k \in DOMAIN copies : copies[k][p] \notin {Tools!Unseen, Tools!Part}}
  <2>1. seen'[p] = IF know # {} THEN copies[Tools!Max(know)][p]
                   ELSE IF seen[p] = Tools!Unseen /\ \E k \in DOMAIN copies : copies[k][p] = Tools!Part
                        THEN Tools!Part ELSE seen[p]
    BY <1>1 DEF Tools!Absorbed
  <2>2. know \subseteq DOMAIN copies /\ know \in SUBSET (0..Len(plan)) /\ Len(plan) \in Nat
    BY <1>9 DEF ToolsInv, ToolsShape
  <2> HIDE DEF know
  <2>3. know # {} => Tools!Max(know) \in DOMAIN branch  BY <1>9, <2>2, MaxExists
  <2>4. \A k \in DOMAIN branch : copies[k][p] \in Texts \union {Tools!Unseen, Tools!Part}
    BY <1>9 DEF Ledgers
  <2>5. seen[p] \in Texts \union {Tools!Unseen, Tools!Part}  BY DEF ToolsInv, ToolsShape, Ledgers
  <2> QED BY <2>1, <2>3, <2>4, <2>5, CallsAreSensible
<1>4. seen' \in Ledgers  BY <1>1, <1>3 DEF Tools!Absorbed, Ledgers
<1>5. DOMAIN branch' = {}  BY <1>1
<1>6. ToolsShape'  BY <1>1, <1>2, <1>4, <1>5, GoingOn DEF ToolsInv, ToolsShape
<1>7. Evident'
  <2>1. Evidence(seen', shown)
    BY <1>3, <1>9 DEF ToolsInv, Evident, Evidence
  <2> QED BY <1>1, <1>5, <2>1 DEF Evident
<1>8. Consented'
  BY <1>1, <1>2, <1>5, GoingOn DEF ToolsInv, Consented, Tools!OnlyTheAgreedRuns
<1>10. Held'  BY <1>5 DEF Held
<1> QED BY <1>6, <1>7, <1>8, <1>10 DEF ToolsInv

(* A new turn, a rewind and a restart forget what was agreed to.           *)
LEMMA IdleKeeps == ASSUME ToolsInv, Tools!NewTurn \/ Tools!Forget PROVE ToolsInv'
<1>1. /\ plan' = <<>> /\ i' = 1 /\ pc' = "think" /\ branch' = <<>> /\ allowTurn' = FALSE
      /\ last' = None /\ agreed' = {} /\ disk' = disk
  BY DEF Tools!NewTurn, Tools!Forget, Tools!Idle
<1>2. DOMAIN branch' = {}  BY <1>1
<1>3. /\ seen' \in Ledgers /\ shown' \in [Places -> SUBSET Views] /\ Evidence(seen', shown')
  <2>1. CASE UNCHANGED <<seen, shown>>  BY <2>1 DEF ToolsInv, ToolsShape, Evident
  <2>2. CASE Tools!Forget
    BY <2>2, CallsAreSensible DEF Tools!Forget, Tools!Nobody, Ledgers, Evidence
  <2> QED BY <2>1, <2>2 DEF Tools!NewTurn
<1>4. ToolsShape'
  <2>1. plan' \in Seq(ToolCalls)  BY <1>1, NoCalls
  <2>2. i' = 1 /\ pc' = "think" /\ allowTurn' = FALSE  BY <1>1
  <2>3. disk' \in Files  BY <1>1 DEF ToolsInv, ToolsShape
  <2>4. i' \in Nat \ {0} /\ pc' \in {"think", "batch", "card", "calls"}
        /\ allowTurn' \in BOOLEAN /\ (pc' # "think" => i' =< Len(plan'))
    <3>1. i' \in Nat \ {0}  BY <2>2
    <3> QED BY <2>2, <3>1, Zenon
  <2>5. /\ DOMAIN branch' \subseteq 1..Len(plan') /\ (pc' # "calls" => DOMAIN branch' = {})
        /\ \A k \in DOMAIN branch' : branch'[k] \in Works
    BY <1>2
  <2> QED BY <1>3, <2>1, <2>3, <2>4, <2>5 DEF ToolsShape
<1>5. Evident'  BY <1>2, <1>3 DEF Evident
<1>6. Consented'  BY <1>1, <1>2 DEF Consented, Tools!OnlyTheAgreedRuns
<1>7. Held'  BY <1>2 DEF Held
<1> QED BY <1>4, <1>5, <1>6, <1>7 DEF ToolsInv

(* What others do to the files the ledger does not hear of.                *)
LEMMA ChangeKeeps ==
  ASSUME ToolsInv, NEW p \in Places, NEW content \in Texts \union {None}, Tools!Change(p, content)
  PROVE  ToolsInv'
<1>1. /\ disk' = [disk EXCEPT ![p] = content] /\ last' = None
      /\ UNCHANGED <<seen, plan, i, pc, branch, allowTurn, agreed, shown>>
  BY DEF Tools!Change
<1>2. disk' \in Files  BY <1>1 DEF ToolsInv, ToolsShape, Files
<1>3. ToolsShape'  BY <1>1, <1>2 DEF ToolsInv, ToolsShape
<1>4. Evident'  BY <1>1 DEF ToolsInv, Evident
<1>5. Consented'  BY <1>1 DEF ToolsInv, Consented, Granted, Tools!OnlyTheAgreedRuns
<1>6. Held'  BY <1>1 DEF ToolsInv, Held
<1> QED BY <1>3, <1>4, <1>5, <1>6 DEF ToolsInv

(* Every step keeps all of it.                                             *)
LEMMA ToolsStep == ToolsInv /\ [Tools!Next]_(Tools!vars) => ToolsInv'
<1> SUFFICES ASSUME ToolsInv, [Tools!Next]_(Tools!vars) PROVE ToolsInv'  OBVIOUS
<1>1. CASE UNCHANGED Tools!vars
  BY <1>1 DEF Tools!vars, ToolsInv, ToolsShape, Evident, Held, Consented, Granted,
              Tools!OnlyTheAgreedRuns
<1>2. ASSUME NEW n \in 1..MaxBatch, NEW calls \in [1..n -> ToolCalls], Tools!Batch(calls) PROVE ToolsInv'
  BY <1>2, BatchKeeps
<1>3. ASSUME NEW option \in {"allow", "allow_turn", "deny"}, Tools!Answer(option)
      PROVE  ToolsInv'
  BY <1>3, AskKeeps
<1>4. ASSUME NEW k \in DOMAIN branch, Tools!Do(k) \/ Tools!Look(k) \/ Tools!Put(k) \/ Tools!PutFails(k)
      PROVE  ToolsInv'
  BY <1>4, DoKeeps, LookKeeps, PutKeeps, PutFailsKeeps
<1>5. ASSUME NEW p \in Places, NEW content \in Texts \union {None}, Tools!Change(p, content)
      PROVE  ToolsInv'
  BY <1>5, ChangeKeeps
<1> QED BY <1>1, <1>2, <1>3, <1>4, <1>5, AskKeeps, ForkKeeps, AbsorbKeeps, IdleKeeps
    DEF Tools!Next

(* A file that is written: what the call found there the agent had met,    *)
(* and every block fits.                                                   *)
LEMMA PutIsSafe ==
  ASSUME ToolsInv, NEW k \in DOMAIN branch, Tools!Put(k)
  PROVE  Tools!NothingUnseenIsLost /\ Tools!PatchIsWhole
<1>1. plan[k] \in ToolCalls /\ disk \in Files /\ seen \in Ledgers /\ branch[k] \in Works
  BY DEF ToolsInv, ToolsShape
<1> DEFINE blocks == Tools!Blocks(plan[k])
<1>2. PICK n \in 1..Len(blocks) :
        /\ disk' = [disk EXCEPT ![blocks[n].path] = Tools!Text(blocks, blocks[n].path)]
        /\ branch' = [branch EXCEPT ![k] = Tools!Wrote(plan[k], branch[k], blocks[n].path)]
  BY DEF Tools!Put
<1>3. Tools!Goes(k, "write")  BY DEF Tools!Put
<1> DEFINE p == blocks[n].path
           text == Tools!Text(blocks, p)
           w == Tools!Wrote(plan[k], branch[k], p)
<1>4. HeldUp(branch[k], blocks, seen) /\ branch[k].pc = "write"
  BY <1>3 DEF ToolsInv, Held, Tools!Goes
<1>5. last' = [k |-> k, call |-> plan[k]]  BY <1>3 DEF Tools!Goes
<1>6. last'.k = k /\ last'.call = plan[k]  BY <1>5
<1>7. blocks \in Seq(BlockKinds) /\ Len(blocks) \in Nat  BY <1>1, CallsAreSensible
<1>8. /\ p \in Places
      /\ \E m \in 1..Len(blocks) :
           blocks[m].path = p /\ text = blocks[m].text /\ \A j \in m + 1..Len(blocks) : blocks[j].path # p
  BY <1>7, TextIs
<1>9. /\ w \in Works /\ HeldUp(w, blocks, seen) /\ w.found = branch[k].found
      /\ w.ledger = [branch[k].ledger EXCEPT ![p] = text]
      /\ w.pc = "done" => w.wrote = Tools!Named(blocks)
  BY <1>1, <1>4, PutIsHeld
<1>10. \A m \in 1..Len(blocks) : Tools!Holds(blocks, branch[k].found, seen, m)
  BY <1>4 DEF HeldUp
<1>11. branch'[k] = w  BY <1>2
<1>12. disk'[p] = text /\ \A q \in Places : q # p => disk'[q] = disk[q]
  BY <1>1, <1>2, <1>8 DEF Files
<1>13. plan[k].kind = "patch" => blocks = plan[k].blocks  BY <1>1, CallsAreSensible
<1> HIDE DEF blocks, p, text, w
<1>14. Tools!PatchIsWhole
  <2>1. SUFFICES ASSUME plan[k].kind = "patch"
                 PROVE  /\ \A q \in Places : disk'[q] # disk[q] =>
                             /\ \A m \in 1..Len(blocks) : Tools!Holds(blocks, w.found, seen, m)
                             /\ \E m \in 1..Len(blocks) :
                                  /\ blocks[m].path = q /\ disk'[q] = blocks[m].text
                                  /\ \A j \in m + 1..Len(blocks) : blocks[j].path # q
                        /\ w.pc = "done" => w.wrote = Tools!Named(blocks)
    BY <1>6, <1>11, <1>13 DEF Tools!PatchIsWhole
  <2>2. ASSUME NEW q \in Places, disk'[q] # disk[q] PROVE q = p  BY <1>12, <2>2
  <2> QED BY <1>8, <1>9, <1>10, <1>12, <2>2
<1>15. ASSUME NEW q \in Tools!Wholes(plan[k]), disk[q] \notin {None, disk'[q]}, disk[q] = branch[k].found[q]
       PROVE  Tools!Met(shown[q], disk[q])
  <2>1. q \in Places /\ \E m \in 1..Len(blocks) :
          blocks[m].path = q /\ blocks[m].op = "add" /\ Tools!Before(blocks, q, m) = {}
    BY <1>15 DEF Tools!Wholes, blocks
  <2>2. q = p  BY <1>12, <1>15, <2>1
  <2>3. PICK m \in 1..Len(blocks) :
          blocks[m].path = q /\ blocks[m].op = "add" /\ Tools!Before(blocks, q, m) = {}
    BY <2>1
  <2>4. Tools!Found(blocks, branch[k].found, q, m) = branch[k].found[q]  BY <2>3 DEF Tools!Found
  <2>5. Tools!Holds(blocks, branch[k].found, seen, m)  BY <1>10
  <2>6. branch[k].found[q] = None \/ Tools!OverwriteCheck(seen, q, branch[k].found[q])
    BY <2>3, <2>4, <2>5 DEF Tools!Holds
  <2>7. seen[q] = disk[q]  BY <1>15, <2>6 DEF Tools!OverwriteCheck
  <2>8. disk[q] \in Texts  BY <1>1, <1>15, <2>1 DEF Files
  <2>9. Evidence(seen, shown)  BY DEF ToolsInv, Evident
  <2> QED BY <2>1, <2>7, <2>8, <2>9 DEF Evidence
<1>16. Tools!NothingUnseenIsLost  BY <1>6, <1>15 DEF Tools!NothingUnseenIsLost
<1> QED BY <1>14, <1>16

(* So a step overwrites nothing unseen, and a patch is applied as a whole. *)
LEMMA StepIsSafe ==
  ASSUME ToolsInv, [Tools!Next]_(Tools!vars)
  PROVE  Tools!NothingUnseenIsLost /\ Tools!PatchIsWhole
<1>1. CASE last' = None  BY <1>1 DEF Tools!NothingUnseenIsLost, Tools!PatchIsWhole
<1>2. CASE UNCHANGED Tools!vars /\ last' # None
  <2>1. disk' = disk /\ branch' = branch /\ last' = last  BY <1>2 DEF Tools!vars
  <2>2. Tools!NothingUnseenIsLost  BY <2>1 DEF Tools!NothingUnseenIsLost
  <2> QED BY <2>1, <2>2 DEF Tools!PatchIsWhole
<1>3. ASSUME NEW k \in DOMAIN branch, Tools!Do(k) \/ Tools!Look(k) \/ Tools!PutFails(k)
      PROVE  Tools!NothingUnseenIsLost /\ Tools!PatchIsWhole
  <2>1. plan[k] \in ToolCalls /\ disk \in Files /\ seen \in Ledgers /\ branch[k] \in Works
        /\ HeldUp(branch[k], Tools!Blocks(plan[k]), seen)
    BY DEF ToolsInv, ToolsShape, Held
  <2>2. last' = [k |-> k, call |-> plan[k]]
    BY <1>3 DEF Tools!Do, Tools!Look, Tools!PutFails, Tools!Goes
  <2>3. last'.k = k /\ last'.call = plan[k]  BY <2>2
  <2>4. CASE Tools!Do(k)
    <3>1. Tools!Blocks(plan[k]) = <<>>  BY <2>4 DEF Tools!Do
    <3>2. Len(<<>>) = 0  OBVIOUS
    <3>3. Tools!Wholes(plan[k]) = {}  BY <3>1, <3>2 DEF Tools!Wholes
    <3>4. plan[k].kind # "patch"  BY <2>1, <3>1, CallsAreSensible
    <3> QED BY <2>3, <3>3, <3>4 DEF Tools!NothingUnseenIsLost, Tools!PatchIsWhole
  <2>5. CASE Tools!Look(k)
    <3>1. disk' = disk /\ branch' = [branch EXCEPT ![k] = Tools!Looked(plan[k], disk, branch[k])]
          /\ Tools!Blocks(plan[k]) # <<>> /\ branch[k].pc = "look"
      BY <2>5 DEF Tools!Look, Tools!Goes
    <3>2. Tools!Looked(plan[k], disk, branch[k]).pc # "done"  BY <2>1, <3>1, LookIsHeld
    <3>3. branch'[k].pc # "done"  BY <3>1, <3>2
    <3> QED BY <2>3, <3>1, <3>3 DEF Tools!NothingUnseenIsLost, Tools!PatchIsWhole
  <2>6. CASE Tools!PutFails(k)
    <3>1. disk' = disk /\ branch' = [branch EXCEPT ![k] = [branch[k] EXCEPT !.pc = "failed"]]
      BY <2>6 DEF Tools!PutFails
    <3>2. branch'[k].pc # "done"  BY <2>1, <3>1 DEF Works
    <3> QED BY <2>3, <3>1, <3>2 DEF Tools!NothingUnseenIsLost, Tools!PatchIsWhole
  <2> QED BY <1>3, <2>4, <2>5, <2>6
<1>4. ASSUME Tools!Next, last' # None
      PROVE  \E k \in DOMAIN branch : Tools!Do(k) \/ Tools!Look(k) \/ Tools!Put(k) \/ Tools!PutFails(k)
  BY <1>4 DEF Tools!Next, Tools!Batch, Tools!Refuse, Tools!RaiseCard, Tools!Fork, Tools!Absorb,
         Tools!NewTurn, Tools!Forget, Tools!Idle, Tools!Answer, Tools!Change
<1> QED BY <1>1, <1>2, <1>3, <1>4, PutIsSafe

-----------------------------------------------------------------------------
(* The proxy and its children: what is where.                              *)
FamilyShape ==
  /\ life \in [Family!Sessions -> {"none", "active", "stopped", "closed"}]
  /\ hand \in [Family!Sessions -> {"table", "taken", "working", "ended", "fallen"}]
  /\ flag \in [Family!Sessions -> {"none", "up", "raised"}]
  /\ ledger \in [Wishes -> Children \union {None}] /\ made \in [Wishes -> SUBSET Children]
  /\ fitted \in BOOLEAN /\ still \in BOOLEAN
  /\ ops \in [{"proxy", "user"} ->
                [what : {"none", "create", "stop"}, s : Family!Sessions, r : Wishes \union {None}, step : 0..3]]
  /\ \A p \in {"proxy", "user"} :
       /\ ops[p].what = "stop" => ops[p].step \in 1..3
       /\ ops[p].what = "create" => p = "proxy" /\ ops[p].s \in Children /\ ops[p].r \in Wishes

\* Who is with a thread may be driven or was, and the proxy at its tools has them.
FamilyHands ==
  /\ \A s \in Family!Sessions :
       /\ hand[s] = "working" => flag[s] # "none"
       /\ life[s] \in {"none", "closed"} => hand[s] = "table"
  /\ ops["proxy"].what # "none" => hand["proxy"] = "working"
  /\ hand["proxy"] = "working" => fitted

\* What was made by an id is what the handler remembers, and it remembers nothing of
\* the id that is being answered.
FamilyAnswers ==
  /\ \A r \in Wishes : made[r] = {} \/ (fitted /\ ledger[r] # None /\ made[r] = {ledger[r]})
  /\ ops["proxy"].what = "create" => ledger[ops["proxy"].r] = None

\* A stop of the whole tree has its flags still to raise.
Raising == \E p \in {"proxy", "user"} : ops[p].what = "stop" /\ ops[p].s = "proxy"

\* In a tree that is still nobody is active but who was made since, and once the flags
\* are raised nobody works unwarned but them and who was on the way.
FamilyStill ==
  still => /\ life["proxy"] # "active"
           /\ \A s \in Family!Sessions : life[s] = "active" => s \in missed
           /\ \A s \in Family!Sessions : hand[s] = "taken" => Raising \/ s \in missed
           /\ \A s \in Family!Sessions :
                hand[s] = "working" => Raising \/ flag[s] = "raised" \/ s \in missed

FamilyInv == FamilyShape /\ FamilyHands /\ FamilyAnswers /\ FamilyStill

(* The proxy is one of the sessions, and none of its children.             *)
LEMMA ProxyIsApart == "proxy" \in Family!Sessions /\ "proxy" \notin Children /\ None \notin Children
                      /\ Talks \subseteq Children /\ Children \subseteq Family!Sessions
  BY FamilyAssumption DEF Family!Sessions, Family!Root

(* A family begins with a proxy at rest.                                   *)
LEMMA FamilyStart == Family!Init => FamilyInv
<1> SUFFICES ASSUME Family!Init PROVE FamilyInv  OBVIOUS
<1>1. FamilyShape
  <2>1. Family!Idle \in [what : {"none", "create", "stop"}, s : Family!Sessions, r : Wishes \union {None}, step : 0..3]
        /\ Family!Idle.what = "none"
    BY ProxyIsApart DEF Family!Idle, Family!Root
  <2> HIDE DEF Family!Idle
  <2>2. ops \in [{"proxy", "user"} ->
                  [what : {"none", "create", "stop"}, s : Family!Sessions, r : Wishes \union {None}, step : 0..3]]
    BY <2>1 DEF Family!Init
  <2>3. \A p \in {"proxy", "user"} : ops[p].what = "none"  BY <2>1 DEF Family!Init
  <2>4. /\ life \in [Family!Sessions -> {"none", "active", "stopped", "closed"}]
        /\ hand \in [Family!Sessions -> {"table", "taken", "working", "ended", "fallen"}]
        /\ flag \in [Family!Sessions -> {"none", "up", "raised"}]
        /\ ledger \in [Wishes -> Children \union {None}] /\ made \in [Wishes -> SUBSET Children]
        /\ fitted \in BOOLEAN /\ still \in BOOLEAN
    BY DEF Family!Init
  <2> QED BY <2>2, <2>3, <2>4 DEF FamilyShape
<1>2. FamilyHands  BY ProxyIsApart DEF Family!Init, FamilyHands, Family!Idle
<1>3. FamilyAnswers  BY DEF Family!Init, FamilyAnswers, Family!Idle
<1>4. FamilyStill  BY DEF Family!Init, FamilyStill
<1> QED BY <1>1, <1>2, <1>3, <1>4 DEF FamilyInv

(* What the invariant speaks of, left alone.                               *)
LEMMA Rests ==
  ASSUME FamilyInv, UNCHANGED <<life, hand, flag, ledger, made, fitted, still, ops, missed>>
  PROVE  FamilyInv'
<1>1. FamilyShape'  BY DEF FamilyInv, FamilyShape
<1>2. FamilyHands'  BY DEF FamilyInv, FamilyHands
<1>3. FamilyAnswers'  BY DEF FamilyInv, FamilyAnswers
<1>4. FamilyStill'  BY DEF FamilyInv, FamilyStill, Raising
<1> QED BY <1>1, <1>2, <1>3, <1>4 DEF FamilyInv

(* A session changes hands as a turn goes by; the flag says who works.     *)
LEMMA HandsKeep ==
  ASSUME FamilyInv, NEW s \in Family!Sessions,
         NEW h \in {"table", "taken", "working", "ended", "fallen"},
         NEW f \in {"none", "up", "raised"},
         hand' = [hand EXCEPT ![s] = h], flag' = [flag EXCEPT ![s] = f],
         UNCHANGED <<life, ledger, made, fitted, still, ops, missed>>,
         h = "working" => f # "none" /\ (s = "proxy" => fitted),
         h # "table" => life[s] \notin {"none", "closed"},
         s = "proxy" => ops["proxy"].what = "none" \/ h = "working",
         h \in {"taken", "working"} => life[s] = "active" \/ (hand[s] = "taken" /\ h = "working")
  PROVE  FamilyInv'
<1>1. FamilyShape'  BY DEF FamilyInv, FamilyShape
<1>2. FamilyHands'  BY ProxyIsApart DEF FamilyInv, FamilyShape, FamilyHands
<1>3. FamilyAnswers'  BY DEF FamilyInv, FamilyAnswers
<1>4. FamilyStill'
  <2>1. ASSUME still, NEW t \in Family!Sessions, hand'[t] = "taken" PROVE Raising \/ t \in missed
    BY <2>1 DEF FamilyInv, FamilyShape, FamilyStill
  <2>2. ASSUME still, NEW t \in Family!Sessions, hand'[t] = "working"
        PROVE  Raising \/ flag'[t] = "raised" \/ t \in missed
    BY <2>2 DEF FamilyInv, FamilyShape, FamilyStill
  <2>3. Raising' = Raising  BY DEF Raising
  <2> QED BY <2>1, <2>2, <2>3 DEF FamilyInv, FamilyStill
<1> QED BY <1>1, <1>2, <1>3, <1>4 DEF FamilyInv

(* Threads start: a session that may be driven is taken.                   *)
LEMMA StartKeeps ==
  ASSUME FamilyInv, NEW s \in Family!Sessions, NEW w \in Family!Works, Family!Start(s, w)
  PROVE  FamilyInv'
<1>1. UNCHANGED <<life, flag, ledger, made, fitted, still, ops, missed>>  BY DEF Family!Start
<1>2. CASE Family!Startable(s) /\ (w = "wake" => spoke[s] = "user")
  <2>1. hand' = [hand EXCEPT ![s] = "taken"]  BY <1>2 DEF Family!Start
  <2>2. flag' = [flag EXCEPT ![s] = flag[s]] /\ flag[s] \in {"none", "up", "raised"}
    BY <1>1 DEF FamilyInv, FamilyShape
  <2>3. life[s] = "active" /\ hand[s] = "table"  BY <1>2 DEF Family!Startable
  <2>4. s = "proxy" => ops["proxy"].what = "none"  BY <2>3 DEF FamilyInv, FamilyHands
  <2> QED BY <1>1, <2>1, <2>2, <2>3, <2>4, HandsKeep
<1>3. CASE ~(Family!Startable(s) /\ (w = "wake" => spoke[s] = "user"))
  <2>1. UNCHANGED hand  BY <1>3 DEF Family!Start
  <2> QED BY <1>1, <2>1, Rests
<1> QED BY <1>2, <1>3

(* The thread of a discussion starts where it may.                         *)
LEMMA StartPumpKeeps ==
  ASSUME FamilyInv, NEW k \in Family!Sessions, NEW w \in Family!Works, Family!StartPump(k, w)
  PROVE  FamilyInv'
<1>1. UNCHANGED <<life, ledger, made, fitted, still, ops, missed>>  BY DEF Family!StartPump
<1>2. CASE Family!Startable(k)
  <2>1. hand' = [hand EXCEPT ![k] = "working"] /\ flag' = [flag EXCEPT ![k] = "up"]
    BY <1>2 DEF Family!StartPump
  <2>2. life[k] = "active"  BY <1>2 DEF Family!Startable
  <2>3. k # "proxy"  BY ProxyIsApart DEF Family!StartPump
  <2> QED BY <1>1, <2>1, <2>2, <2>3, HandsKeep
<1>3. CASE ~Family!Startable(k)
  <2>1. UNCHANGED <<hand, flag>>  BY <1>3 DEF Family!StartPump
  <2> QED BY <1>1, <2>1, Rests
<1> QED BY <1>2, <1>3

(* A thread takes up the session it was made for.                          *)
LEMMA RegisterKeeps ==
  ASSUME FamilyInv, NEW s \in Family!Sessions, Family!Register(s)
  PROVE  FamilyInv'
<1>1. /\ hand[s] = "taken" /\ hand' = [hand EXCEPT ![s] = "working"]
      /\ flag' = [flag EXCEPT ![s] = "up"]
      /\ UNCHANGED <<life, made, still, ops, missed>>
  BY DEF Family!Register
<1>2. life[s] \notin {"none", "closed"}  BY <1>1 DEF FamilyInv, FamilyHands
<1>3. CASE s # "proxy"
  <2>1. UNCHANGED <<fitted, ledger>>  BY <1>3 DEF Family!Register, Family!Root
  <2> QED BY <1>1, <1>2, <1>3, <2>1, HandsKeep
<1>4. CASE s = "proxy"
  <2>1. fitted' = TRUE /\ ledger' = IF fitted THEN ledger ELSE [r \in Wishes |-> None]
    BY <1>4 DEF Family!Register, Family!Root, Family!Fitted
  <2>2. ops["proxy"].what = "none"  BY <1>1, <1>4 DEF FamilyInv, FamilyHands
  <2>3. FamilyShape'  BY <1>1, <2>1 DEF FamilyInv, FamilyShape
  <2>4. FamilyHands'  BY ProxyIsApart, <1>1, <1>2, <1>4, <2>1 DEF FamilyInv, FamilyShape, FamilyHands
  <2>5. FamilyAnswers'  BY <1>1, <2>1, <2>2 DEF FamilyInv, FamilyAnswers
  <2>6. FamilyStill'
    <3>1. ASSUME still, NEW t \in Family!Sessions, hand'[t] = "taken" PROVE Raising \/ t \in missed
      BY <1>1, <3>1 DEF FamilyInv, FamilyShape, FamilyStill
    <3>2. ASSUME still, NEW t \in Family!Sessions, hand'[t] = "working"
          PROVE  Raising \/ flag'[t] = "raised" \/ t \in missed
      BY <1>1, <3>2 DEF FamilyInv, FamilyShape, FamilyStill
    <3>3. Raising' = Raising  BY <1>1 DEF Raising
    <3> QED BY <1>1, <3>1, <3>2, <3>3 DEF FamilyInv, FamilyStill
  <2> QED BY <2>3, <2>4, <2>5, <2>6 DEF FamilyInv
<1> QED BY <1>3, <1>4

(* They end, fall, and are put back.                                       *)
LEMMA EndKeeps ==
  ASSUME FamilyInv, NEW s \in Family!Sessions,
         Family!Finish(s) \/ Family!Fall(s) \/ Family!PutBack(s) \/ Family!PutBackPump(s)
  PROVE  FamilyInv'
<1>1. UNCHANGED <<life, ledger, made, fitted, still, ops, missed>>
  BY DEF Family!Finish, Family!Fall, Family!PutBack, Family!PutBackPump, Family!world
<1>2. CASE Family!Finish(s) \/ Family!Fall(s)
  <2>1. /\ hand[s] = "working" /\ flag' = [flag EXCEPT ![s] = "none"]
        /\ s = "proxy" => ops["proxy"].what = "none"
    BY <1>2 DEF Family!Finish, Family!Fall, Family!Busy, Family!Root
  <2>2. hand' = [hand EXCEPT ![s] = "ended"] \/ hand' = [hand EXCEPT ![s] = "fallen"]
    BY <1>2 DEF Family!Finish, Family!Fall
  <2>3. life[s] \notin {"none", "closed"}  BY <2>1 DEF FamilyInv, FamilyHands
  <2> QED BY <1>1, <2>1, <2>2, <2>3, HandsKeep
<1>3. CASE Family!PutBack(s) \/ Family!PutBackPump(s)
  <2>1. hand[s] = "ended" /\ hand' = [hand EXCEPT ![s] = "table"] /\ flag' = flag
    BY <1>3 DEF Family!PutBack, Family!PutBackPump
  <2>2. flag' = [flag EXCEPT ![s] = flag[s]] /\ flag[s] \in {"none", "up", "raised"}
    BY <2>1 DEF FamilyInv, FamilyShape
  <2>3. s = "proxy" => ops["proxy"].what = "none"  BY <2>1 DEF FamilyInv, FamilyHands
  <2> QED BY <1>1, <2>1, <2>2, <2>3, HandsKeep
<1> QED BY <1>2, <1>3

(* With the object that fell its handler is gone, and all it had made.     *)
LEMMA AbortKeeps ==
  ASSUME FamilyInv, NEW s \in Family!Sessions, Family!Abort(s)
  PROVE  FamilyInv'
<1>1. /\ hand[s] = "fallen" /\ hand' = [hand EXCEPT ![s] = "table"]
      /\ UNCHANGED <<life, flag, ledger, still, ops, missed>>
  BY DEF Family!Abort
<1>2. flag' = [flag EXCEPT ![s] = flag[s]] /\ flag[s] \in {"none", "up", "raised"}
  BY <1>1 DEF FamilyInv, FamilyShape
<1>3. s = "proxy" => ops["proxy"].what = "none"  BY <1>1 DEF FamilyInv, FamilyHands
<1>4. CASE s # "proxy"
  <2>1. UNCHANGED <<fitted, made>>  BY <1>4 DEF Family!Abort, Family!Root
  <2> QED BY <1>1, <1>2, <1>3, <2>1, HandsKeep
<1>5. CASE s = "proxy"
  <2>1. fitted' = FALSE /\ made' = [r \in Wishes |-> {}]  BY <1>5 DEF Family!Abort, Family!Root
  <2>2. FamilyShape'  BY <1>1, <2>1 DEF FamilyInv, FamilyShape
  <2>3. FamilyHands'  BY ProxyIsApart, <1>1, <1>3, <1>5, <2>1 DEF FamilyInv, FamilyShape, FamilyHands
  <2>4. FamilyAnswers'  BY <1>1, <1>3, <1>5, <2>1 DEF FamilyInv, FamilyAnswers
  <2>5. FamilyStill'
    <3>1. \A t \in Family!Sessions : hand'[t] \in {"taken", "working"} => hand'[t] = hand[t]
      BY <1>1 DEF FamilyInv, FamilyShape
    <3>2. Raising' = Raising  BY <1>1 DEF Raising
    <3> QED BY <1>1, <3>1, <3>2 DEF FamilyInv, FamilyStill
  <2> QED BY <2>2, <2>3, <2>4, <2>5 DEF FamilyInv
<1> QED BY <1>4, <1>5

-----------------------------------------------------------------------------
(* What the proxy or the user is in the middle of changes.                 *)
Wish == [what : {"none", "create", "stop"}, s : Family!Sessions, r : Wishes \union {None}, step : 0..3]

(* A change of that alone, which leaves a stop of the proxy in place.      *)
LEMMA OpsKeep ==
  ASSUME FamilyInv, NEW p \in {"proxy", "user"}, NEW o \in Wish,
         ops' = [ops EXCEPT ![p] = o],
         UNCHANGED <<life, hand, flag, ledger, made, fitted, still, missed>>,
         o.what = "stop" => o.step \in 1..3,
         o.what = "create" => p = "proxy" /\ o.s \in Children /\ o.r \in Wishes /\ ledger[o.r] = None,
         p = "proxy" /\ o.what # "none" => hand["proxy"] = "working",
         ops[p].what = "stop" => o.what = "stop" /\ o.s = ops[p].s
  PROVE  FamilyInv'
<1>1. \A q \in {"proxy", "user"} : ops'[q] = IF q = p THEN o ELSE ops[q]
  BY DEF FamilyInv, FamilyShape
<1>2. FamilyShape'
  <2>1. ops' \in [{"proxy", "user"} -> Wish]  BY DEF FamilyInv, FamilyShape, Wish
  <2> QED BY <1>1, <2>1 DEF FamilyInv, FamilyShape, Wish
<1>3. FamilyHands'  BY <1>1 DEF FamilyInv, FamilyHands
<1>4. FamilyAnswers'  BY <1>1 DEF FamilyInv, FamilyAnswers
<1>5. FamilyStill'
  <2>1. Raising => Raising'  BY <1>1 DEF Raising
  <2> QED BY <2>1 DEF FamilyInv, FamilyStill
<1> QED BY <1>2, <1>3, <1>4, <1>5 DEF FamilyInv

(* Nothing is one of the things to be in the middle of.                    *)
LEMMA IdleWish == Family!Idle \in Wish /\ Family!Idle.what = "none"
  BY ProxyIsApart DEF Family!Idle, Family!Root, Wish

(* A request begins.                                                       *)
LEMMA RequestKeeps ==
  ASSUME FamilyInv,
         \/ \E r \in Wishes, k \in Children : Family!AskCreate(r, k)
         \/ \E p \in {"proxy", "user"}, s \in Family!Sessions : Family!AskStop(p, s)
  PROVE  FamilyInv'
<1>1. CASE \E r \in Wishes, k \in Children : Family!AskCreate(r, k)
  <2>1. PICK r \in Wishes, k \in Children : Family!AskCreate(r, k)  BY <1>1
  <2>2. /\ ops["proxy"].what = "none" /\ hand["proxy"] = "working" /\ ledger[r] = None
        /\ ops' = [ops EXCEPT !["proxy"] = [what |-> "create", s |-> k, r |-> r, step |-> 1]]
        /\ UNCHANGED <<life, hand, flag, ledger, made, fitted, still, missed>>
    BY <2>1 DEF Family!AskCreate, Family!Free, Family!Becomes, Family!Root
  <2>3. [what |-> "create", s |-> k, r |-> r, step |-> 1] \in Wish  BY ProxyIsApart DEF Wish
  <2> QED BY <2>2, <2>3, OpsKeep
<1>2. CASE \E p \in {"proxy", "user"}, s \in Family!Sessions : Family!AskStop(p, s)
  <2>1. PICK p \in {"proxy", "user"}, s \in Family!Sessions : Family!AskStop(p, s)  BY <1>2
  <2> DEFINE o == [what |-> "stop", s |-> s, r |-> None, step |-> 1]
  <2>2. /\ ops[p].what = "none" /\ (p = "proxy" => hand["proxy"] = "working")
        /\ ops' = [ops EXCEPT ![p] = o]
        /\ UNCHANGED <<life, hand, flag, ledger, made, fitted, still, missed>>
    BY <2>1 DEF Family!AskStop, Family!Free, Family!Becomes, Family!Root
  <2>3. o \in Wish /\ o.what = "stop" /\ o.step \in 1..3  BY DEF Wish
  <2> HIDE DEF o
  <2>4. ops[p].what # "stop" /\ o.what # "create"  BY <2>2, <2>3
  <2> QED BY <2>2, <2>3, <2>4, OpsKeep
<1> QED BY <1>1, <1>2

(* A creation that fails leaves nothing.                                   *)
LEMMA CreateFailsKeeps ==
  ASSUME FamilyInv, Family!CreateFails  PROVE FamilyInv'
<1>1. /\ ops["proxy"].what = "create" /\ ops' = [ops EXCEPT !["proxy"] = Family!Idle]
      /\ UNCHANGED <<life, hand, flag, ledger, made, fitted, still, missed>>
  BY DEF Family!CreateFails, Family!Becomes
<1> QED BY <1>1, IdleWish, OpsKeep

(* The next step of a stop, before the last.                               *)
LEMMA VoidKeeps ==
  ASSUME FamilyInv, NEW p \in {"proxy", "user"}, Family!Void(p)  PROVE FamilyInv'
<1>1. ops[p] \in Wish  BY DEF FamilyInv, FamilyShape, Wish
<1>2. ops[p].what = "stop" /\ ops[p].step = 2
  <2>1. ops[p].what = "stop" /\ Family!StopOrder[ops[p].step] = "void"  BY DEF Family!Void, Family!Stopping
  <2>2. ops[p].step \in 1..3  BY <2>1 DEF FamilyInv, FamilyShape
  <2> QED BY <2>1, <2>2 DEF Family!StopOrder
<1> DEFINE o == [ops[p] EXCEPT !.step = @ + 1]
<1>3. ops' = [ops EXCEPT ![p] = o]
  BY <1>2 DEF Family!Void, Family!NextStep, Family!Becomes, Family!StopOrder
<1>4. o \in Wish /\ o.what = "stop" /\ o.s = ops[p].s /\ o.step \in 1..3
  BY <1>1, <1>2 DEF Wish
<1> HIDE DEF o
<1>5. UNCHANGED <<life, hand, flag, ledger, made, fitted, still, missed>>  BY DEF Family!Void
<1>6. p = "proxy" => hand["proxy"] = "working"  BY <1>2 DEF FamilyInv, FamilyHands
<1>7. o.what # "create"  BY <1>4
<1> QED BY <1>3, <1>4, <1>5, <1>6, <1>7, OpsKeep

(* A child is made: in a still tree it is one of those a stop missed.      *)
LEMMA CommitKeeps ==
  ASSUME FamilyInv, Family!Commit  PROVE FamilyInv'
<1> DEFINE k == ops["proxy"].s
<1> DEFINE o == [ops["proxy"] EXCEPT !.step = 2]
<1>1. /\ ops["proxy"].what = "create" /\ life' = [life EXCEPT ![k] = "active"]
      /\ missed' = (IF life["proxy"] = "active" THEN missed ELSE missed \union {k})
      /\ ops' = [ops EXCEPT !["proxy"] = o]
      /\ UNCHANGED <<hand, flag, ledger, made, fitted, still>>
  BY DEF Family!Commit, Family!Root
<1>2. k \in Children /\ k \in Family!Sessions /\ k # "proxy" /\ ops["proxy"] \in Wish
  BY <1>1, ProxyIsApart DEF FamilyInv, FamilyShape, Wish
<1>3. o \in Wish /\ o.what = "create" /\ o.s = k /\ o.r = ops["proxy"].r /\ o.r \in Wishes
  BY <1>1, <1>2 DEF FamilyInv, FamilyShape, Wish
<1> HIDE DEF o, k
<1>4. \A q \in {"proxy", "user"} : ops'[q] = IF q = "proxy" THEN o ELSE ops[q]
  BY <1>1 DEF FamilyInv, FamilyShape
<1>5. FamilyShape'
  <2>1. ops' \in [{"proxy", "user"} -> Wish]  BY <1>1, <1>3 DEF FamilyInv, FamilyShape, Wish
  <2>2. life' \in [Family!Sessions -> {"none", "active", "stopped", "closed"}]
    BY <1>1, <1>2 DEF FamilyInv, FamilyShape
  <2> QED BY <1>1, <1>2, <1>3, <1>4, <2>1, <2>2 DEF FamilyInv, FamilyShape, Wish
<1>6. \A s \in Family!Sessions : life'[s] = IF s = k THEN "active" ELSE life[s]
  BY <1>1, <1>2 DEF FamilyInv, FamilyShape
<1>7. FamilyHands'  BY <1>1, <1>3, <1>4, <1>6 DEF FamilyInv, FamilyHands
<1>8. FamilyAnswers'
  <2>1. ledger[o.r] = None  BY <1>1, <1>3 DEF FamilyInv, FamilyAnswers
  <2> QED BY <1>1, <1>3, <1>4, <2>1 DEF FamilyInv, FamilyAnswers
<1>9. FamilyStill'
  <2>1. Raising => Raising'  BY <1>1, <1>4 DEF Raising
  <2>2. still => life["proxy"] # "active" /\ missed' = missed \union {k}
    BY <1>1 DEF FamilyInv, FamilyStill
  <2>3. life'["proxy"] = life["proxy"]  BY <1>2, <1>6, ProxyIsApart
  <2> QED BY <1>1, <1>6, <2>1, <2>2, <2>3 DEF FamilyInv, FamilyStill
<1> QED BY <1>5, <1>7, <1>8, <1>9 DEF FamilyInv

(* It starts, and the handler remembers that it answered.                  *)
LEMMA StartChildKeeps ==
  ASSUME FamilyInv, Family!StartChild  PROVE FamilyInv'
<1> DEFINE k == ops["proxy"].s
<1> DEFINE r == ops["proxy"].r
<1>1. /\ ops["proxy"].what = "create" /\ ops' = [ops EXCEPT !["proxy"] = Family!Idle]
      /\ UNCHANGED <<life, hand, flag, fitted, still, missed>>
  BY DEF Family!StartChild, Family!Becomes
<1>2. CASE life[k] # "active"
  <2>1. UNCHANGED <<ledger, made>>  BY <1>2 DEF Family!StartChild
  <2> QED BY <1>1, <2>1, IdleWish, OpsKeep
<1>3. CASE life[k] = "active"
  <2>1. ledger' = [ledger EXCEPT ![r] = k] /\ made' = [made EXCEPT ![r] = @ \union {k}]
    BY <1>3 DEF Family!StartChild
  <2>2. k \in Children /\ r \in Wishes /\ k # None  BY <1>1, ProxyIsApart DEF FamilyInv, FamilyShape
  <2>3. ledger[r] = None /\ made[r] = {} /\ fitted
    BY <1>1, <2>2 DEF FamilyInv, FamilyAnswers, FamilyHands
  <2> HIDE DEF k, r
  <2>4. /\ ledger' \in [Wishes -> Children \union {None}] /\ made' \in [Wishes -> SUBSET Children]
        /\ \A x \in Wishes : /\ ledger'[x] = IF x = r THEN k ELSE ledger[x]
                             /\ made'[x] = IF x = r THEN {k} ELSE made[x]
    BY <2>1, <2>2, <2>3 DEF FamilyInv, FamilyShape
  <2>5. \A q \in {"proxy", "user"} : ops'[q] = IF q = "proxy" THEN Family!Idle ELSE ops[q]
    BY <1>1 DEF FamilyInv, FamilyShape
  <2>6. FamilyShape'
    <3>1. ops' \in [{"proxy", "user"} -> Wish]  BY <1>1, IdleWish DEF FamilyInv, FamilyShape, Wish
    <3> QED BY <1>1, <2>4, <2>5, <3>1, IdleWish DEF FamilyInv, FamilyShape, Wish
  <2>7. FamilyHands'  BY <1>1, <2>5, IdleWish DEF FamilyInv, FamilyHands
  <2>8. FamilyAnswers'
    <3>1. \A x \in Wishes : made'[x] = {} \/ (fitted' /\ ledger'[x] # None /\ made'[x] = {ledger'[x]})
      BY <1>1, <2>2, <2>3, <2>4 DEF FamilyInv, FamilyAnswers
    <3> QED BY <2>5, <3>1, IdleWish DEF FamilyAnswers
  <2>9. FamilyStill'
    <3>1. Raising => Raising'  BY <1>1, <2>5 DEF Raising
    <3> QED BY <1>1, <3>1 DEF FamilyInv, FamilyStill
  <2> QED BY <2>6, <2>7, <2>8, <2>9 DEF FamilyInv
<1> QED BY <1>2, <1>3

(* A stop goes on to its next step, or is over.                            *)
LEMMA StopGoesOn ==
  ASSUME FamilyInv, NEW p \in {"proxy", "user"}, NEW what \in {"freeze", "raise"},
         Family!Stopping(p, what), Family!NextStep(p)
  PROVE  /\ ops[p].what = "stop" /\ ops' \in [{"proxy", "user"} -> Wish]
         /\ \A q \in {"proxy", "user"} : q # p => ops'[q] = ops[q]
         /\ IF what = "raise" THEN ops'[p].what = "none"
            ELSE ops'[p].what = "stop" /\ ops'[p].s = ops[p].s /\ ops'[p].step \in 1..3
<1>1. ops[p] \in Wish /\ ops \in [{"proxy", "user"} -> Wish]  BY DEF FamilyInv, FamilyShape, Wish
<1>2. ops[p].what = "stop" /\ Family!StopOrder[ops[p].step] = what  BY DEF Family!Stopping
<1>3. ops[p].step \in 1..3  BY <1>2 DEF FamilyInv, FamilyShape
<1>4. CASE what = "raise"
  <2>1. ops[p].step = 3  BY <1>2, <1>3, <1>4 DEF Family!StopOrder
  <2>2. ops' = [ops EXCEPT ![p] = Family!Idle]
    BY <2>1 DEF Family!NextStep, Family!Becomes, Family!StopOrder
  <2> QED BY <1>1, <1>2, <1>4, <2>2, IdleWish
<1>5. CASE what = "freeze"
  <2>1. ops[p].step = 1  BY <1>2, <1>3, <1>5 DEF Family!StopOrder
  <2> DEFINE o == [ops[p] EXCEPT !.step = @ + 1]
  <2>2. ops' = [ops EXCEPT ![p] = o]
    BY <2>1 DEF Family!NextStep, Family!Becomes, Family!StopOrder
  <2>3. o \in Wish /\ o.what = "stop" /\ o.s = ops[p].s /\ o.step \in 1..3
    BY <1>1, <1>2, <2>1 DEF Wish
  <2> HIDE DEF o
  <2> QED BY <1>1, <1>2, <1>5, <2>2, <2>3
<1> QED BY <1>4, <1>5

(* Who is frozen is stopped, and what is still has flags to be raised.     *)
LEMMA FreezeKeeps ==
  ASSUME FamilyInv, NEW p \in {"proxy", "user"}, Family!Freeze(p)  PROVE FamilyInv'
<1> DEFINE tree == Family!Tree(ops[p].s)
<1>1. /\ life' = [s \in Family!Sessions |-> IF s \in tree THEN "stopped" ELSE life[s]]
      /\ still' = (still \/ "proxy" \in tree)
      /\ UNCHANGED <<hand, flag, ledger, made, fitted, missed>>
  BY DEF Family!Freeze, Family!Root
<1>2. /\ ops[p].what = "stop" /\ ops' \in [{"proxy", "user"} -> Wish]
      /\ \A q \in {"proxy", "user"} : q # p => ops'[q] = ops[q]
      /\ ops'[p].what = "stop" /\ ops'[p].s = ops[p].s /\ ops'[p].step \in 1..3
  <2>1. Family!Stopping(p, "freeze") /\ Family!NextStep(p)  BY DEF Family!Freeze
  <2> QED BY <2>1, StopGoesOn
<1>3. /\ "proxy" \in tree => ops[p].s = "proxy"
      /\ ops[p].s = "proxy" => \A s \in Family!Sessions : s \in tree <=> life[s] # "none"
  BY DEF Family!Tree, Family!Root
<1> HIDE DEF tree
<1>4. FamilyShape'
  <2>1. \A q \in {"proxy", "user"} :
          /\ ops'[q].what = "stop" => ops'[q].step \in 1..3
          /\ ops'[q].what = "create" => q = "proxy" /\ ops'[q].s \in Children /\ ops'[q].r \in Wishes
    BY <1>2 DEF FamilyInv, FamilyShape
  <2>2. life' \in [Family!Sessions -> {"none", "active", "stopped", "closed"}] /\ still' \in BOOLEAN
    BY <1>1 DEF FamilyInv, FamilyShape
  <2> QED BY <1>1, <1>2, <2>1, <2>2 DEF FamilyInv, FamilyShape, Wish
<1>5. FamilyHands'  BY <1>1, <1>2 DEF FamilyInv, FamilyHands
<1>6. FamilyAnswers'  BY <1>1, <1>2 DEF FamilyInv, FamilyAnswers
<1>7. FamilyStill'
  <2>1. Raising => Raising'  BY <1>2 DEF Raising
  <2>2. CASE "proxy" \in tree
    <3>1. Raising'  BY <1>2, <1>3, <2>2 DEF Raising
    <3>2. \A s \in Family!Sessions : life'[s] # "active"
      BY <1>1, <1>3, <2>2 DEF FamilyInv, FamilyShape
    <3> QED BY <1>1, <3>1, <3>2, ProxyIsApart DEF FamilyStill
  <2>3. CASE "proxy" \notin tree
    <3>1. \A s \in Family!Sessions : life'[s] = "active" => life[s] = "active"  BY <1>1
    <3> QED BY <1>1, <2>1, <2>3, <3>1, ProxyIsApart DEF FamilyInv, FamilyStill
  <2> QED BY <2>2, <2>3
<1> QED BY <1>4, <1>5, <1>6, <1>7 DEF FamilyInv

(* After the flags are raised who works is warned, but who was on the way. *)
LEMMA RaiseKeeps ==
  ASSUME FamilyInv, NEW p \in {"proxy", "user"}, Family!RaiseFlags(p)  PROVE FamilyInv'
<1> DEFINE tree == Family!Tree(ops[p].s)
<1>1. /\ flag' = [s \in Family!Sessions |-> IF s \in tree /\ flag[s] = "up" THEN "raised" ELSE flag[s]]
      /\ missed' = (missed \ {s \in tree : life[s] = "stopped"}) \union {s \in tree : hand[s] = "taken"}
      /\ UNCHANGED <<life, hand, ledger, made, fitted, still>>
  BY DEF Family!RaiseFlags
<1>2. /\ ops[p].what = "stop" /\ ops' \in [{"proxy", "user"} -> Wish]
      /\ \A q \in {"proxy", "user"} : q # p => ops'[q] = ops[q]
      /\ ops'[p].what = "none"
  <2>1. Family!Stopping(p, "raise") /\ Family!NextStep(p)  BY DEF Family!RaiseFlags
  <2> QED BY <2>1, StopGoesOn
<1>3. /\ ops[p].s # "proxy" => tree = {ops[p].s}
      /\ ops[p].s = "proxy" => \A s \in Family!Sessions : s \in tree <=> life[s] # "none"
  BY DEF Family!Tree, Family!Root
<1> HIDE DEF tree
<1>4. FamilyShape'
  <2>1. \A q \in {"proxy", "user"} :
          /\ ops'[q].what = "stop" => ops'[q].step \in 1..3
          /\ ops'[q].what = "create" => q = "proxy" /\ ops'[q].s \in Children /\ ops'[q].r \in Wishes
    BY <1>2 DEF FamilyInv, FamilyShape
  <2>2. flag' \in [Family!Sessions -> {"none", "up", "raised"}]  BY <1>1 DEF FamilyInv, FamilyShape
  <2> QED BY <1>1, <1>2, <2>1, <2>2 DEF FamilyInv, FamilyShape, Wish
<1>5. FamilyHands'
  <2>1. \A s \in Family!Sessions : flag[s] # "none" => flag'[s] # "none"  BY <1>1
  <2> QED BY <1>1, <1>2, <2>1 DEF FamilyInv, FamilyHands
<1>6. FamilyAnswers'  BY <1>1, <1>2 DEF FamilyInv, FamilyAnswers
<1>7. FamilyStill'
  <2>1. ASSUME still, NEW s \in Family!Sessions, life[s] = "active" PROVE s \in missed'
    BY <1>1, <2>1 DEF FamilyInv, FamilyStill
  <2>2. ASSUME NEW s \in Family!Sessions, s \in tree
        PROVE  (hand[s] = "taken" => s \in missed') /\ (hand[s] = "working" => flag'[s] = "raised")
    BY <1>1, <2>2 DEF FamilyInv, FamilyShape, FamilyHands
  <2>3. CASE ops[p].s = "proxy"
    <3>1. \A s \in Family!Sessions : hand[s] \in {"taken", "working"} => s \in tree
      BY <1>3, <2>3 DEF FamilyInv, FamilyHands
    <3> QED BY <1>1, <2>1, <2>2, <3>1 DEF FamilyInv, FamilyStill
  <2>4. CASE ops[p].s # "proxy"
    <3>1. Raising => Raising'  BY <1>2, <2>4 DEF Raising
    <3>2. ASSUME NEW s \in Family!Sessions, s \notin tree
          PROVE  (s \in missed => s \in missed') /\ flag'[s] = flag[s]
      BY <1>1, <3>2
    <3> QED BY <1>1, <2>1, <2>2, <3>1, <3>2 DEF FamilyInv, FamilyStill
  <2> QED BY <2>3, <2>4
<1> QED BY <1>4, <1>5, <1>6, <1>7 DEF FamilyInv

(* Who is resumed was stopped, and then the tree is not still.             *)
LEMMA ResumeKeeps ==
  ASSUME FamilyInv, NEW s \in Family!Sessions,
         Family!Activate(s) \/ \E p \in {"proxy", "user"} : Family!Continue(p, s)
  PROVE  FamilyInv'
<1>1. UNCHANGED <<hand, flag, ledger, made, fitted, ops, missed>>
  BY DEF Family!Activate, Family!Continue
<1>2. PICK on \in SUBSET Family!Sessions : Family!Resumed(s, on)
  BY DEF Family!Activate, Family!Continue
<1>3. /\ \A t \in on : life[t] = "stopped"
      /\ life' = [t \in Family!Sessions |-> IF t \in on THEN "active" ELSE life[t]]
      /\ still' = (still /\ on = {})
  BY <1>2 DEF Family!Resumed
<1>4. FamilyShape'
  <2>1. life' \in [Family!Sessions -> {"none", "active", "stopped", "closed"}] /\ still' \in BOOLEAN
    BY <1>3 DEF FamilyInv, FamilyShape
  <2> QED BY <1>1, <2>1 DEF FamilyInv, FamilyShape
<1>5. FamilyHands'
  <2>1. \A t \in Family!Sessions : life'[t] \in {"none", "closed"} => life[t] \in {"none", "closed"}
    BY <1>3
  <2> QED BY <1>1, <2>1 DEF FamilyInv, FamilyHands
<1>6. FamilyAnswers'  BY <1>1 DEF FamilyInv, FamilyAnswers
<1>7. FamilyStill'
  <2>1. still' => still /\ life' = life  BY <1>3 DEF FamilyInv, FamilyShape
  <2>2. Raising' = Raising  BY <1>1 DEF Raising
  <2> QED BY <1>1, <2>1, <2>2 DEF FamilyInv, FamilyStill
<1> QED BY <1>4, <1>5, <1>6, <1>7 DEF FamilyInv

(* Only what no thread has is closed.                                      *)
LEMMA CloseKeeps ==
  ASSUME FamilyInv, NEW s \in Family!Sessions, NEW p \in {"proxy", "user"}, Family!Close(p, s)
  PROVE  FamilyInv'
<1>1. /\ life[s] # "none" /\ life' = [life EXCEPT ![s] = "closed"]
      /\ UNCHANGED <<hand, flag, ledger, made, fitted, still, ops, missed>>
  BY DEF Family!Close
<1>2. hand[s] = "table"  BY <1>1 DEF Family!Close, Family!Quiet, Family!Tree
<1>3. \A t \in Family!Sessions : life'[t] = IF t = s THEN "closed" ELSE life[t]
  BY <1>1 DEF FamilyInv, FamilyShape
<1>4. FamilyShape'  BY <1>1 DEF FamilyInv, FamilyShape
<1>5. FamilyHands'  BY <1>1, <1>2, <1>3 DEF FamilyInv, FamilyHands
<1>6. FamilyAnswers'  BY <1>1 DEF FamilyInv, FamilyAnswers
<1>7. FamilyStill'
  <2>1. Raising' = Raising  BY <1>1 DEF Raising
  <2> QED BY <1>1, <1>3, <2>1, ProxyIsApart DEF FamilyInv, FamilyStill
<1> QED BY <1>4, <1>5, <1>6, <1>7 DEF FamilyInv

(* Every step keeps it.                                                    *)
LEMMA FamilyStep == FamilyInv /\ [Family!Next]_(Family!vars) => FamilyInv'
<1> SUFFICES ASSUME FamilyInv, [Family!Next]_(Family!vars) PROVE FamilyInv'  OBVIOUS
<1> DEFINE Quietly == UNCHANGED <<life, hand, flag, ledger, made, fitted, still, ops, missed>>
<1>1. CASE UNCHANGED Family!vars  BY <1>1, Rests DEF Family!vars
<1>2. CASE \E s \in Family!Sessions, w \in Family!Works : Family!Start(s, w) \/ Family!StartPump(s, w)
  BY <1>2, StartKeeps, StartPumpKeeps
<1>3. CASE \E s \in Family!Sessions :
             Family!Register(s) \/ Family!Finish(s) \/ Family!Fall(s) \/ Family!PutBack(s)
             \/ Family!PutBackPump(s) \/ Family!Abort(s)
  BY <1>3, RegisterKeeps, EndKeeps, AbortKeeps
<1>4. CASE \E s \in Family!Sessions :
             Family!Activate(s) \/ \E p \in {"proxy", "user"} : Family!Continue(p, s)
  BY <1>4, ResumeKeeps
<1>5. CASE \E s \in Family!Sessions, p \in {"proxy", "user"} : Family!AskStop(p, s)
  BY <1>5, RequestKeeps
<1>6. CASE \E s \in Family!Sessions, p \in {"proxy", "user"} : Family!Close(p, s)
  BY <1>6, CloseKeeps
<1>7. CASE \E k \in Children, r \in Wishes : Family!AskCreate(r, k)
  BY <1>7, RequestKeeps
<1>8. CASE \E k \in Children :
             Family!RaiseCard(k) \/ Family!Tell(k) \/ Family!Begin(k) \/ Family!Send(k) \/ Family!UserAnswers(k)
  <2>1. Quietly
    BY <1>8 DEF Family!RaiseCard, Family!Tell, Family!Begin, Family!Send, Family!UserAnswers
  <2> QED BY <2>1, Rests
<1>9. CASE Family!UserSays
  <2>1. Quietly  BY <1>9 DEF Family!UserSays
  <2> QED BY <2>1, Rests
<1>10. CASE Family!CreateFails \/ Family!Commit \/ Family!StartChild
  BY <1>10, CreateFailsKeeps, CommitKeeps, StartChildKeeps
<1>11. CASE \E p \in {"proxy", "user"} : Family!Freeze(p) \/ Family!Void(p) \/ Family!RaiseFlags(p)
  BY <1>11, FreezeKeeps, VoidKeeps, RaiseKeeps
<1> QED BY <1>1, <1>2, <1>3, <1>4, <1>5, <1>6, <1>7, <1>8, <1>9, <1>10, <1>11 DEF Family!Next

(* So a stop reaches who works, the closed are quiet, and an id is         *)
(* answered once.                                                          *)
LEMMA FamilyMeans ==
  FamilyInv => Family!StopReaches /\ Family!ClosedIsQuiet /\ Family!OncePerRequest
<1> SUFFICES ASSUME FamilyInv
             PROVE  Family!StopReaches /\ Family!ClosedIsQuiet /\ Family!OncePerRequest
  OBVIOUS
<1>1. Family!StopReaches
  <2>1. DOMAIN ops = {"proxy", "user"}  BY DEF FamilyInv, FamilyShape
  <2> QED BY <2>1 DEF FamilyInv, FamilyStill, Raising, Family!StopReaches, Family!Stopped, Family!Root
<1>2. Family!ClosedIsQuiet  BY DEF FamilyInv, FamilyHands, Family!ClosedIsQuiet
<1>3. Family!OncePerRequest
  <2>1. ASSUME NEW r \in Wishes PROVE Cardinality(made[r]) <= 1
    <3>1. made[r] = {} \/ made[r] = {ledger[r]}  BY DEF FamilyInv, FamilyAnswers
    <3>2. Cardinality({}) = 0 /\ Cardinality({ledger[r]}) = 1  BY FS_EmptySet, FS_Singleton
    <3> QED BY <3>1, <3>2
  <2>2. \A S : Family!Cardinality(S) = Cardinality(S)  BY DEF Family!Cardinality, Cardinality
  <2> QED BY <2>1, <2>2 DEF Family!OncePerRequest
<1> QED BY <1>1, <1>2, <1>3

-----------------------------------------------------------------------------
(* A discussion and its record: what they are.                             *)
Gates == {"slate", "begin", "ask", "plan"}
Lines == [verb : {"say", "agree", "leave", "ask", "round", "answer", "autonomy", "passed"}, arg : Nat,
          out : BOOLEAN]
Discussions ==
  [here : {TRUE}, roster : BOOLEAN, picks : BOOLEAN, plan : BOOLEAN, approved : BOOLEAN,
   done : BOOLEAN, allow : BOOLEAN, disc : BOOLEAN, present : SUBSET Circle!Members,
   agreed : SUBSET Circle!Members, round : Nat, phase : {"fresh", "opener", "at"}, next : Nat \ {0},
   closed : BOOLEAN, answers : Nat, reminded : [Circle!Members -> 0..Patience], remindRound : Nat,
   rows : Seq(Lines), handed : Nat, emitted : Nat]
Records ==
  [delegated : BOOLEAN, task : BOOLEAN, roster : BOOLEAN, slate : BOOLEAN, confirmed : BOOLEAN,
   begun : BOOLEAN, allow : BOOLEAN, round : Nat, present : SUBSET Circle!Members,
   agreed : SUBSET Circle!Members, closed : BOOLEAN, over : BOOLEAN, plan : BOOLEAN,
   approved : BOOLEAN, ended : BOOLEAN]
States == [live : Discussions, kept : Records, open : Seq(Gates), asked : 0..Chairs, twice : BOOLEAN]

\* A vote on a line counts for the record when the line is sent; none is sent later.
Vote(line) == line.verb \in {"agree", "leave"}
NoVotes(c) == \A n \in DOMAIN c.rows : ~Vote(c.rows[n])
Behind(c) ==
  /\ c.handed =< Len(c.rows)
  /\ \A n \in DOMAIN c.rows : Vote(c.rows[n]) => n =< c.handed /\ n =< c.emitted
\* Nor is one when what it says is done.
Due(c) ==
  /\ c.handed =< Len(c.rows)
  /\ \A n \in DOMAIN c.rows :
       Vote(c.rows[n]) => /\ n =< c.handed
                          /\ c.rows[n].verb = "agree" => c.rows[n].arg \in c.agreed
                          /\ c.rows[n].verb = "leave" => c.rows[n].arg \notin c.present

\* What the discussion goes by is on record; without one there is nothing to go by.
Matches(c, k) ==
  /\ c.disc => /\ k.begun /\ c.present = k.present /\ c.agreed = k.agreed
               /\ c.closed => Circle!ClosedByRecord(k)
  /\ ~c.disc => /\ c.round = 0 /\ ~c.closed /\ ~c.plan /\ ~k.plan
                /\ c.present = Circle!Members /\ k.present = Circle!Members /\ c.agreed = {}
  /\ c.phase = "opener" => c.round = 0
  /\ c.plan => k.plan

\* A record of a close, and of a plan, has the consent they came of.
Consent(k, back) == k.present \subseteq k.agreed \union back \/ k.over
Told(k, back) ==
  /\ k \in Records
  /\ k.plan \/ k.closed => Consent(k, back)
  /\ ~k.begun => k.present = Circle!Members /\ ~k.plan

Sound(s, back) == s \in States /\ Behind(s.live) /\ Matches(s.live, s.kept) /\ Told(s.kept, back)

\* The cursor is at a member to be asked, and stays there until the turn is over.
Waiting(c) ==
  /\ c.next \in Circle!Members /\ ~c.closed
  /\ c.phase = "opener" \/ (c.phase = "at" /\ Circle!Waits(c, c.next))
Asking(c) == c.disc /\ Waiting(c)
SameTurn(c, d) ==
  /\ d.disc = c.disc /\ d.next = c.next /\ d.round = c.round /\ d.phase = c.phase
  /\ d.present = c.present /\ d.agreed = c.agreed /\ d.closed = c.closed
  /\ d.reminded = c.reminded /\ d.remindRound = c.remindRound

\* Who is still to be heard, and who of them the cursor has passed.
Left(c) == c.present \ c.agreed
Passed(c) == {m \in Left(c) : c.phase # "fresh" /\ m < c.next}
\* What came of a discussion, X being passed on the way: the cursor passed nobody else who
\* is to be heard, and where the round is over nobody was left.
Passes(c, d, X) ==
  /\ d.round >= c.round
  /\ d.round = c.round => Passed(d) \subseteq Passed(c) \union X
  /\ d.round > c.round => Left(d) \subseteq Passed(c) \union X /\ Passed(d) = {}
Goes(c, d, X) == IF c.disc THEN d.disc /\ Passes(c, d, X) ELSE d.disc => Passed(d) = {}

Outcome(s, p, back) ==
  /\ Sound(p, back) /\ Goes(s.live, p.live, {}) /\ Left(p.live) = Left(s.live)
  /\ p.asked # 0 => Asking(p.live) /\ p.asked = p.live.next
  /\ Asking(s.live) => SameTurn(s.live, p.live)

\* What the lines after the first n said, by their verb.
Unsent(rows, n, verb) == {rows[j].arg : j \in {l \in DOMAIN rows : l > n /\ rows[l].verb = verb}}

\* The state t is s with those lines sent: the record takes them, and nothing else is new.
IsSent(s, n, t) ==
  /\ t \in States /\ t.open = s.open /\ t.asked = s.asked
  /\ \E more \in Seq(Lines) :
       /\ t.live = [s.live EXCEPT !.rows = more]
       /\ DOMAIN more = DOMAIN s.live.rows /\ Len(more) = Len(s.live.rows)
       /\ \A l \in DOMAIN s.live.rows :
            more[l].verb = s.live.rows[l].verb /\ more[l].arg = s.live.rows[l].arg
  /\ t.kept.begun = s.kept.begun /\ t.kept.plan = s.kept.plan /\ t.kept.over = s.kept.over
  /\ t.kept.present = s.kept.present \ Unsent(s.live.rows, n, "leave")
  /\ t.kept.agreed = s.kept.agreed \union Unsent(s.live.rows, n, "agree")
  /\ t.kept.closed => s.kept.closed

\* What a step of the state machine may make of a discussion.
Advances(c, a) ==
  /\ a.c \in Discussions /\ Behind(a.c)
  /\ a.c.disc = c.disc /\ a.c.plan = c.plan /\ a.c.present = c.present /\ a.c.agreed = c.agreed
  /\ a.c.phase = "opener" => a.c.round = 0
  /\ a.out \in {"done", "stopped", "again", "ask"}
  /\ a.out = "ask" => /\ Waiting(a.c) /\ a.m = a.c.next /\ a.c.round = c.round
                      /\ c.phase # "fresh" => a.m >= c.next
  /\ a.out = "again" => ~a.c.closed /\ a.c.round > c.round /\ a.c.phase = "fresh"
  /\ a.out = "stopped" => a.c = c
  /\ Passes(c, a.c, {})
  /\ a.out = "done" => a.c.closed /\ (c.present \subseteq c.agreed \/ a.c.round > Laps)
  /\ Waiting(c) => a.c = c /\ a.out \in {"ask", "stopped"}

\* What is said of the members, and of the turns, stays as it is.
Like(s, t) ==
  /\ t \in States /\ SameTurn(s.live, t.live) /\ t.live.plan = s.live.plan
  /\ t.live.rows = s.live.rows /\ t.live.handed = s.live.handed /\ t.live.emitted = s.live.emitted
  /\ t.kept.begun = s.kept.begun /\ t.kept.plan = s.kept.plan /\ t.kept.closed = s.kept.closed
  /\ t.kept.over = s.kept.over /\ t.kept.present = s.kept.present /\ t.kept.agreed = s.kept.agreed
  /\ t.asked = s.asked

\* The object with a new count of reminders, or with its cursor moved.
SameTalk(c, d) ==
  /\ d \in Discussions /\ d.disc = c.disc /\ d.round = c.round /\ d.phase = c.phase
  /\ d.present = c.present /\ d.agreed = c.agreed /\ d.closed = c.closed /\ d.plan = c.plan
  /\ d.rows = c.rows /\ d.handed = c.handed /\ d.emitted = c.emitted

\* A state that may become the next.
Fine(p, back) == Sound(p, back) /\ (p.asked # 0 => Asking(p.live) /\ p.asked = p.live.next)

CircleInv ==
  /\ halt \in BOOLEAN /\ ticket \in Gates \union {"none"} /\ mute \in Nat /\ asked \in 0..Chairs
  /\ open \in Seq(Gates) /\ twice \in BOOLEAN
  /\ Told(kept, tookBack)
  /\ circle = Circle!Gone \/ (circle \in Discussions /\ Behind(circle) /\ NoVotes(circle) /\ Matches(circle, kept))
  /\ asked # 0 => circle # Circle!Gone /\ Asking(circle) /\ asked = circle.next
  /\ mute # 0 => /\ circle # Circle!Gone /\ Asking(circle) /\ circle.remindRound = circle.round
                 /\ mute =< circle.reminded[circle.next]
  /\ circle # Circle!Gone /\ circle.disc => Passed(circle) \subseteq heard

\* A step that keeps it so, and leaves nobody out.
CircleGoesOn == CircleInv' /\ Circle!EveryoneIsHeard

(* Members are numbers, and none of the marks.                             *)
LEMMA MembersAreNumbers ==
  /\ Circle!Members = 1..Chairs /\ Chairs \in Nat /\ Laps \in Nat /\ Patience \in Nat
  /\ 0 \notin Circle!Members /\ \A m \in Circle!Members : m \in 0..Chairs /\ m \in Nat
BY CircleAssumption DEF Circle!Members

(* A state is what its parts are.                                          *)
LEMMA StateIs ==
  ASSUME NEW s \in States
  PROVE  /\ s.live \in Discussions /\ s.kept \in Records /\ s.open \in Seq(Gates)
         /\ s.asked \in 0..Chairs /\ s.twice \in BOOLEAN
BY DEF States

(* Parts of a state are replaced one by one.                               *)
LEMMA StateWith ==
  ASSUME NEW s \in States, NEW c \in Discussions, NEW k \in Records, NEW o \in Seq(Gates),
         NEW m \in 0..Chairs, NEW b \in BOOLEAN
  PROVE  /\ [s EXCEPT !.live = c] \in States
         /\ [s EXCEPT !.kept = k] \in States
         /\ [s EXCEPT !.open = o] \in States
         /\ [s EXCEPT !.asked = m] \in States
         /\ [s EXCEPT !.live = c, !.kept = k] \in States
         /\ [s EXCEPT !.live = c, !.kept = k, !.twice = b] \in States
BY DEF States

(* A line is written after the others.                                     *)
LEMMA LineAdded ==
  ASSUME NEW rows \in Seq(Lines), NEW verb, NEW arg \in Nat,
         verb \in {"say", "agree", "leave", "ask", "round", "answer", "autonomy", "passed"}
  PROVE  LET more == Append(rows, Circle!Row(verb, arg))
         IN /\ more \in Seq(Lines) /\ Len(more) = Len(rows) + 1
            /\ DOMAIN rows = 1..Len(rows) /\ DOMAIN more = 1..Len(rows) + 1
            /\ \A n \in 1..Len(rows) : more[n] = rows[n]
            /\ more[Len(rows) + 1].verb = verb /\ more[Len(rows) + 1].arg = arg
<1> DEFINE row == Circle!Row(verb, arg)
<1>1. row \in Lines /\ row.verb = verb /\ row.arg = arg  BY DEF Circle!Row, Lines
<1> HIDE DEF row
<1>2. /\ Append(rows, row) \in Seq(Lines) /\ Len(Append(rows, row)) = Len(rows) + 1
      /\ \A n \in 1..Len(rows) : Append(rows, row)[n] = rows[n]
      /\ Append(rows, row)[Len(rows) + 1] = row
  BY <1>1, AppendProperties
<1> QED BY <1>1, <1>2 DEF row

(* The last of some lines.                                                 *)
LEMMA LastExists ==
  ASSUME NEW n \in Nat, NEW S \in SUBSET (1..n), S # {}
  PROVE  Circle!Max(S) \in S
<1> DEFINE T == {n - k : k \in S}
<1>1. T \subseteq Nat /\ T # {}
  <2>1. \A k \in S : n - k \in Nat  OBVIOUS
  <2> QED BY <2>1
<1>2. PICK t \in T : \A u \in T : ~(<<u, t>> \in OpToRel(<, Nat))
  <2> HIDE DEF T
  <2> QED BY <1>1, LeastExists
<1>3. \A u \in T : ~(u < t)  BY <1>1, <1>2, Zenon DEF OpToRel
<1>4. PICK m \in S : t = n - m  BY <1>2
<1>5. ASSUME NEW k \in S PROVE m >= k
  <2>1. n - k \in T  OBVIOUS
  <2>2. ~(n - k < n - m)  BY <1>3, <1>4, <2>1
  <2> QED BY <2>2
<1> QED BY <1>5 DEF Circle!Max

(* What the record takes of some lines.                                    *)
LEMMA RecordReads ==
  ASSUME NEW k \in Records, NEW rows \in Seq(Lines), Circle!Said(rows, "agree") \subseteq Circle!Members
  PROVE  LET r == Circle!ReadRows(k, rows)
         IN /\ r \in Records /\ r.begun = k.begun /\ r.plan = k.plan /\ r.over = k.over
            /\ r.present = k.present \ Circle!Said(rows, "leave")
            /\ r.agreed = k.agreed \union Circle!Said(rows, "agree")
            /\ r.closed => k.closed
<1> DEFINE p == k.present \ Circle!Said(rows, "leave")
           a == k.agreed \union Circle!Said(rows, "agree")
           n == IF Circle!Rounds(rows) = {} THEN k.round ELSE rows[Circle!Max(Circle!Rounds(rows))].arg
           c == k.closed /\ Circle!Rounds(rows) = {}
<1>1. p \in SUBSET Circle!Members /\ a \in SUBSET Circle!Members /\ c \in BOOLEAN  BY DEF Records
<1>2. n \in Nat
  <2>1. CASE Circle!Rounds(rows) # {}
    <3>1. Circle!Rounds(rows) \in SUBSET (1..Len(rows)) /\ Len(rows) \in Nat  BY DEF Circle!Rounds
    <3>2. Circle!Max(Circle!Rounds(rows)) \in 1..Len(rows)  BY <2>1, <3>1, LastExists
    <3>3. rows[Circle!Max(Circle!Rounds(rows))] \in Lines  BY <3>2
    <3> QED BY <2>1, <3>3 DEF Lines
  <2>2. CASE Circle!Rounds(rows) = {}  BY <2>2 DEF Records
  <2> QED BY <2>1, <2>2
<1>3. Circle!ReadRows(k, rows) = [k EXCEPT !.present = p, !.agreed = a, !.round = n, !.closed = c]
  BY DEF Circle!ReadRows
<1>4. c => k.closed  OBVIOUS
<1> HIDE DEF p, a, n, c
<1>5. /\ Circle!ReadRows(k, rows).present = p /\ Circle!ReadRows(k, rows).agreed = a
      /\ Circle!ReadRows(k, rows).closed = c /\ Circle!ReadRows(k, rows) \in Records
      /\ Circle!ReadRows(k, rows).begun = k.begun /\ Circle!ReadRows(k, rows).plan = k.plan
      /\ Circle!ReadRows(k, rows).over = k.over
  BY <1>1, <1>2, <1>3 DEF Records
<1> QED BY <1>4, <1>5 DEF p, a

(* The lines after the first n.                                            *)
LEMMA RestIs ==
  ASSUME NEW rows \in Seq(Lines), NEW n \in Nat
  PROVE  LET more == SubSeq(rows, n + 1, Len(rows))
         IN /\ more \in Seq(Lines)
            /\ \A j \in DOMAIN more : n + j \in DOMAIN rows /\ n + j > n /\ more[j] = rows[n + j]
            /\ \A l \in DOMAIN rows : l > n => l - n \in DOMAIN more /\ more[l - n] = rows[l]
            /\ n =< Len(rows) => Len(more) = Len(rows) - n
<1> DEFINE more == SubSeq(rows, n + 1, Len(rows))
<1>1. \A j \in n + 1..Len(rows) : rows[j] \in Lines  OBVIOUS
<1>2. /\ more \in Seq(Lines)
      /\ Len(more) = IF n + 1 =< Len(rows) THEN Len(rows) - (n + 1) + 1 ELSE 0
      /\ \A j \in 1..Len(rows) - (n + 1) + 1 : more[j] = rows[n + 1 + j - 1]
  BY <1>1, SubSeqProperties
<1> HIDE DEF more
<1>3. PICK r \in Nat : r = Len(rows)  OBVIOUS
<1>4. PICK k \in Nat : k = Len(more)
  <2>1. more \in Seq(Lines)  BY <1>2
  <2> QED BY <2>1
<1>5. DOMAIN rows = 1..r /\ DOMAIN more = 1..k  BY <1>2, <1>3, <1>4
<1>6. k = IF n < r THEN r - n ELSE 0  BY <1>2, <1>3, <1>4
<1>7. ASSUME NEW j \in 1..k PROVE n + j \in 1..r /\ n + j > n /\ more[j] = rows[n + j]
  <2>1. j \in 1..r - (n + 1) + 1 /\ n + 1 + j - 1 = n + j /\ n + j \in 1..r /\ n + j > n  BY <1>6
  <2>2. more[j] = rows[n + 1 + j - 1]  BY <1>2, <1>3, <2>1
  <2> QED BY <2>1, <2>2
<1>8. ASSUME NEW l \in 1..r, l > n PROVE l - n \in 1..k /\ more[l - n] = rows[l]
  <2>1. l - n \in 1..k /\ n + (l - n) = l  BY <1>6, <1>8
  <2> QED BY <1>7, <2>1
<1>9. n =< Len(rows) => Len(more) = Len(rows) - n  BY <1>3, <1>4, <1>6
<1> QED BY <1>2, <1>5, <1>7, <1>8, <1>9 DEF more

(* The lines that were not sent, and what they say.                        *)
LEMMA UnsentSay ==
  ASSUME NEW rows \in Seq(Lines), NEW n \in Nat
  PROVE  LET more == SubSeq(rows, n + 1, Len(rows))
         IN more \in Seq(Lines) /\ \A verb : Circle!Said(more, verb) = Unsent(rows, n, verb)
<1> DEFINE more == SubSeq(rows, n + 1, Len(rows))
<1>1. /\ more \in Seq(Lines)
      /\ \A j \in DOMAIN more : n + j \in DOMAIN rows /\ n + j > n /\ more[j] = rows[n + j]
      /\ \A l \in DOMAIN rows : l > n => l - n \in DOMAIN more /\ more[l - n] = rows[l]
  BY RestIs
<1> HIDE DEF more
<1>2. ASSUME NEW verb, NEW x \in Circle!Said(more, verb) PROVE x \in Unsent(rows, n, verb)
  <2>1. PICK j \in DOMAIN more : more[j].verb = verb /\ x = more[j].arg  BY <1>2 DEF Circle!Said
  <2> QED BY <1>1, <2>1 DEF Unsent
<1>3. ASSUME NEW verb, NEW x \in Unsent(rows, n, verb) PROVE x \in Circle!Said(more, verb)
  <2>1. PICK l \in DOMAIN rows : l > n /\ rows[l].verb = verb /\ x = rows[l].arg  BY <1>3 DEF Unsent
  <2>2. l - n \in DOMAIN more /\ more[l - n] = rows[l]  BY <1>1, <2>1
  <2>3. PICK j \in DOMAIN more : more[j] = rows[l]  BY <2>2
  <2> QED BY <2>1, <2>3 DEF Circle!Said
<1>4. ASSUME NEW verb PROVE Circle!Said(more, verb) = Unsent(rows, n, verb)
  <2>1. \A x \in Circle!Said(more, verb) : x \in Unsent(rows, n, verb)  BY <1>2
  <2>2. \A x \in Unsent(rows, n, verb) : x \in Circle!Said(more, verb)  BY <1>3
  <2> QED BY <2>1, <2>2
<1> QED BY <1>1, <1>4 DEF more

(* Lines are sent: they stay as they are, and the record takes them.       *)
LEMMA SendKeeps ==
  ASSUME NEW s \in States, NEW n \in Nat,
         \A l \in DOMAIN s.live.rows :
            l > n /\ s.live.rows[l].verb = "agree" => s.live.rows[l].arg \in Circle!Members
  PROVE  IsSent(s, n, Circle!Sent(s, n))
<1> DEFINE rows == s.live.rows
           unsent(verb) == Unsent(rows, n, verb)
           more == [l \in DOMAIN rows |-> [rows[l] EXCEPT !.out = @ \/ l > n]]
           new == SubSeq(rows, n + 1, Len(rows))
           k == Circle!ReadRows(s.kept, new)
           b == s.twice \/ \E l \in n + 1..Len(rows) : rows[l].out
           c == [s.live EXCEPT !.rows = more]
<1>1. rows \in Seq(Lines)  BY DEF States, Discussions
<1>2. new \in Seq(Lines) /\ \A verb : Circle!Said(new, verb) = unsent(verb)  BY <1>1, UnsentSay
<1>3. unsent("agree") \subseteq Circle!Members  BY DEF Unsent
<1>4. /\ k \in Records /\ k.begun = s.kept.begun /\ k.plan = s.kept.plan /\ k.over = s.kept.over
      /\ k.present = s.kept.present \ unsent("leave") /\ k.agreed = s.kept.agreed \union unsent("agree")
      /\ k.closed => s.kept.closed
  <2>1. s.kept \in Records  BY DEF States
  <2> HIDE DEF new, unsent, rows
  <2> QED BY <1>2, <1>3, <2>1, RecordReads
<1>5. /\ more \in Seq(Lines) /\ DOMAIN more = DOMAIN rows /\ Len(more) = Len(rows)
      /\ \A l \in DOMAIN rows : more[l].verb = rows[l].verb /\ more[l].arg = rows[l].arg
  <2>1. ASSUME NEW l \in DOMAIN rows
        PROVE  /\ [rows[l] EXCEPT !.out = @ \/ l > n] \in Lines
               /\ [rows[l] EXCEPT !.out = @ \/ l > n].verb = rows[l].verb
               /\ [rows[l] EXCEPT !.out = @ \/ l > n].arg = rows[l].arg
    <3>1. rows[l] \in Lines  BY <1>1
    <3>2. (rows[l].out \/ l > n) \in BOOLEAN  OBVIOUS
    <3> HIDE DEF rows
    <3>3. [rows[l] EXCEPT !.out = @ \/ l > n] = [rows[l] EXCEPT !.out = rows[l].out \/ l > n]  BY <3>1 DEF Lines
    <3>4. ASSUME NEW x \in Lines, NEW o \in BOOLEAN
          PROVE  [x EXCEPT !.out = o] \in Lines /\ [x EXCEPT !.out = o].verb = x.verb
                 /\ [x EXCEPT !.out = o].arg = x.arg
      BY DEF Lines
    <3> QED BY <3>1, <3>2, <3>3, <3>4
  <2>2. DOMAIN rows = 1..Len(rows) /\ Len(rows) \in Nat  BY <1>1
  <2>3. \A l \in 1..Len(rows) : more[l] \in Lines  BY <2>1, <2>2
  <2>4. DOMAIN more = DOMAIN rows  OBVIOUS
  <2>5. more \in [1..Len(rows) -> Lines]  BY <2>2, <2>3
  <2>6. more \in Seq(Lines) /\ Len(more) = Len(rows)
    <3> HIDE DEF more, rows
    <3> QED BY <2>2, <2>5
  <2> QED BY <2>1, <2>4, <2>6
<1>6. c \in Discussions
  <2> HIDE DEF more
  <2> QED BY <1>5 DEF States, Discussions
<1>7. Circle!Sent(s, n) = [s EXCEPT !.live = c, !.kept = k, !.twice = b]
  <2>1. Circle!Sent(s, n) = [s EXCEPT !.live.rows = more, !.twice = @ \/ b, !.kept = k]
    BY DEF Circle!Sent
  <2> QED BY <2>1 DEF States
<1>8. b \in BOOLEAN  BY DEF States
<1> HIDE DEF c, k, b, more
<1>9. Circle!Sent(s, n) \in States  BY <1>4, <1>6, <1>7, <1>8 DEF States
<1>10. LET t == Circle!Sent(s, n)
       IN t.live = c /\ t.kept = k /\ t.open = s.open /\ t.asked = s.asked
  BY <1>7 DEF States
<1>11. Circle!Sent(s, n).live = [s.live EXCEPT !.rows = more]  BY <1>10 DEF c
<1> QED BY <1>4, <1>5, <1>9, <1>10, <1>11 DEF IsSent

(* The record is brought up to date, with what is known already.           *)
LEMMA PushKeeps ==
  ASSUME NEW back, NEW s \in States, Due(s.live), s.live.disc, ~s.live.closed,
         Matches(s.live, s.kept), Told(s.kept, back)
  PROVE  LET t == Circle!PushDelta(s)
         IN Sound(t, back) /\ t.asked = s.asked /\ SameTurn(s.live, t.live)
<1> DEFINE c == s.live
<1>1. c \in Discussions /\ c.rows \in Seq(Lines) /\ c.emitted \in Nat /\ c.agreed \subseteq Circle!Members
  BY DEF States, Discussions
<1>2. PICK r \in Nat : r = Len(c.rows) /\ DOMAIN c.rows = 1..r  BY <1>1
<1>3. CASE ~(Len(c.rows) > c.emitted)
  <2>1. Circle!PushDelta(s) = s  BY <1>3 DEF Circle!PushDelta
  <2>2. Behind(c)
    <3>1. \A n \in DOMAIN c.rows : n =< c.emitted  BY <1>1, <1>2, <1>3
    <3> QED BY <3>1 DEF Behind, Due
  <2> QED BY <2>1, <2>2 DEF Sound, SameTurn
<1>4. CASE Len(c.rows) > c.emitted
  <2> DEFINE u == Circle!Sent(s, c.emitted)
             t == Circle!PushDelta(s)
             unsent(verb) == Unsent(c.rows, c.emitted, verb)
  <2>1. IsSent(s, c.emitted, u)
    <3>1. \A l \in DOMAIN c.rows : l > c.emitted /\ c.rows[l].verb = "agree" => c.rows[l].arg \in Circle!Members
      BY <1>1 DEF Due, Vote
    <3> QED BY <1>1, <3>1, SendKeeps
  <2>2. unsent("leave") \intersect s.kept.present = {} /\ unsent("agree") \subseteq s.kept.agreed
    BY DEF Due, Vote, Matches, Unsent
  <2>3. t = [u EXCEPT !.live.emitted = Len(c.rows)]  BY <1>4 DEF Circle!PushDelta
  <2> HIDE DEF u, t, unsent
  <2>4. PICK more \in Seq(Lines) :
             /\ u.live = [c EXCEPT !.rows = more] /\ DOMAIN more = DOMAIN c.rows /\ Len(more) = Len(c.rows)
             /\ \A l \in DOMAIN c.rows : more[l].verb = c.rows[l].verb /\ more[l].arg = c.rows[l].arg
    BY <2>1 DEF IsSent
  <2> DEFINE d == [c EXCEPT !.rows = more, !.emitted = r]
  <2>5. t \in States /\ t.live = d /\ t.kept = u.kept /\ t.asked = s.asked
    <3>1. d \in Discussions  BY <1>1, <1>2 DEF Discussions
    <3>2. [u EXCEPT !.live.emitted = Len(c.rows)] = [u EXCEPT !.live = d]
      BY <1>1, <1>2, <2>1, <2>4 DEF States, Discussions, IsSent
    <3> HIDE DEF d, c
    <3> QED BY <2>1, <2>3, <3>1, <3>2 DEF States, IsSent
  <2>6. SameTurn(c, d) /\ d.plan = c.plan /\ d.rows = more /\ d.handed = c.handed /\ d.emitted = r
    BY <1>1 DEF Discussions, SameTurn
  <2> HIDE DEF d
  <2>7. Behind(d)
    <3>1. ASSUME NEW n \in DOMAIN d.rows, Vote(d.rows[n]) PROVE n =< d.handed /\ n =< d.emitted
      BY <1>2, <2>4, <2>6, <3>1 DEF Due, Vote
    <3>2. d.handed =< Len(d.rows)  BY <2>4, <2>6 DEF Due
    <3> QED BY <3>1, <3>2 DEF Behind
  <2>8. u.kept.present = s.kept.present /\ u.kept.agreed = s.kept.agreed  BY <2>1, <2>2 DEF IsSent, unsent
  <2>9. Matches(d, u.kept)  BY <2>1, <2>6, <2>8 DEF Matches, SameTurn, IsSent
  <2>10. Told(u.kept, back)  BY <2>1, <2>8 DEF Told, Consent, States, IsSent
  <2> QED BY <2>5, <2>6, <2>7, <2>9, <2>10 DEF Sound, t
<1> QED BY <1>1, <1>2, <1>3, <1>4

(* Where the turn is the same nobody is passed.                            *)
LEMMA SameGoes ==
  ASSUME NEW c \in Discussions, NEW d, SameTurn(c, d), NEW X
  PROVE  Goes(c, d, X) /\ Passes(c, d, X) /\ Passed(d) = Passed(c) /\ Left(d) = Left(c)
<1>1. c.round \in Nat  BY DEF Discussions
<1>2. Passed(d) = Passed(c) /\ Left(d) = Left(c)  BY DEF SameTurn, Passed, Left
<1>3. Passed(c) \subseteq Passed(c) \union X /\ ~(c.round > c.round) /\ c.round >= c.round  BY <1>1
<1>4. Passes(c, d, X)  BY <1>2, <1>3 DEF SameTurn, Passes
<1>5. ~c.disc => ~d.disc  BY DEF SameTurn
<1>6. c.disc => d.disc  BY DEF SameTurn
<1> QED BY <1>2, <1>4, <1>5, <1>6 DEF Goes

(* In two steps as in one.                                                 *)
LEMMA PassesThen ==
  ASSUME NEW c \in Discussions, NEW d \in Discussions, NEW e \in Discussions, NEW X,
         Passes(c, d, X), Passes(d, e, {}), Left(e) = Left(d)
  PROVE  Passes(c, e, X)
<1>1. c.round \in Nat /\ d.round \in Nat /\ e.round \in Nat  BY DEF Discussions
<1>2. e.round >= c.round  BY <1>1 DEF Passes
<1>3. CASE e.round = c.round
  <2>1. d.round = c.round /\ e.round = d.round  BY <1>1, <1>3 DEF Passes
  <2>2. Passed(e) \subseteq Passed(c) \union X  BY <2>1 DEF Passes
  <2> QED BY <1>1, <1>2, <1>3, <2>2 DEF Passes
<1>4. CASE e.round > c.round /\ d.round = c.round
  <2>1. e.round > d.round /\ e.round # c.round  BY <1>1, <1>4
  <2>2. Left(e) \subseteq Passed(d) /\ Passed(e) = {} /\ Passed(d) \subseteq Passed(c) \union X
    BY <1>4, <2>1 DEF Passes
  <2> QED BY <1>2, <2>1, <2>2 DEF Passes
<1>5. CASE e.round > c.round /\ d.round # c.round
  <2>1. d.round > c.round /\ e.round # c.round  BY <1>1, <1>5 DEF Passes
  <2>2. Left(d) \subseteq Passed(c) \union X /\ Passed(d) = {}  BY <2>1 DEF Passes
  <2>3. Passed(e) = {}
    <3>1. e.round = d.round \/ e.round > d.round  BY <1>1 DEF Passes
    <3> QED BY <2>2, <3>1 DEF Passes
  <2> QED BY <1>2, <2>1, <2>2, <2>3 DEF Passes
<1> QED BY <1>1, <1>2, <1>3, <1>4, <1>5

(* So with what goes on.                                                   *)
LEMMA GoesThen ==
  ASSUME NEW c \in Discussions, NEW d \in Discussions, NEW e \in Discussions, NEW X,
         Goes(c, d, X), Goes(d, e, {}), c.disc => Left(e) = Left(d)
  PROVE  Goes(c, e, X)
<1>1. CASE c.disc  BY <1>1, PassesThen DEF Goes
<1>2. CASE ~c.disc
  <2>1. CASE d.disc
    <3>1. e.round = d.round \/ e.round > d.round
      <4>1. d.round \in Nat /\ e.round \in Nat  BY DEF Discussions
      <4> QED BY <2>1, <4>1 DEF Goes, Passes
    <3> QED BY <1>2, <2>1, <3>1 DEF Goes, Passes
  <2>2. CASE ~d.disc  BY <1>2, <2>2 DEF Goes
  <2> QED BY <2>1, <2>2
<1> QED BY <1>1, <1>2

(* The cursor moves past one member, who may agree or leave on the way.    *)
LEMMA PassesOne ==
  ASSUME NEW c \in Discussions, NEW d \in Discussions, NEW m \in Circle!Members,
         c.disc, d.disc, c.next = m, d.next = m + 1, d.round = c.round, d.phase = c.phase,
         d.present \subseteq c.present, c.agreed \subseteq d.agreed
  PROVE  Goes(c, d, {m})
<1>1. c.round \in Nat /\ m \in Nat  BY MembersAreNumbers DEF Discussions
<1>2. Left(d) \subseteq Left(c)  BY DEF Left
<1>3. \A x \in Left(d) : x \in Nat  BY MembersAreNumbers DEF Left, Discussions
<1>4. Passed(d) \subseteq Passed(c) \union {m}
  <2>1. ASSUME NEW x \in Passed(d), x # m PROVE x \in Passed(c)
    <3>1. x \in Left(d) /\ x \in Left(c) /\ c.phase # "fresh" /\ x < m + 1  BY <1>2, <2>1 DEF Passed
    <3>2. x < m  BY <1>1, <1>3, <2>1, <3>1
    <3> QED BY <3>1, <3>2 DEF Passed
  <2> QED BY <2>1
<1>5. d.round >= c.round /\ ~(d.round > c.round)  BY <1>1
<1>6. Passes(c, d, {m})  BY <1>4, <1>5 DEF Passes
<1> QED BY <1>6 DEF Goes

\* A state that came of another without a turn.
Quiet(s, p, back) == Sound(p, back) /\ SameTurn(s.live, p.live) /\ p.asked = s.asked

(* It is an outcome: nobody is asked.                                      *)
LEMMA QuietIs ==
  ASSUME NEW back, NEW s, Sound(s, back), s.asked = 0, NEW p, Quiet(s, p, back)
  PROVE  Outcome(s, p, back)
<1>1. s.live \in Discussions  BY DEF Sound, States
<1>2. Goes(s.live, p.live, {}) /\ Left(p.live) = Left(s.live)  BY <1>1, SameGoes DEF Quiet
<1> QED BY <1>2 DEF Quiet, Outcome

(* A state is quiet beside itself.                                         *)
LEMMA SameIsQuiet == ASSUME NEW back, NEW s, Sound(s, back) PROVE Quiet(s, s, back)
BY DEF Quiet, SameTurn

(* What a member says is sent and takes effect, in one with the record.    *)
LEMMA FedKeeps ==
  ASSUME NEW back, NEW s, Sound(s, back), NoVotes(s.live), s.asked = 0, Asking(s.live),
         NEW verb \in Circle!Verbs
  PROVE  LET f == Circle!PushDelta(Circle!Fed(s, s.live.next, verb)) IN Sound(f, back) /\ f.asked = 0 /\ Goes(s.live, f.live, {s.live.next})
<1> DEFINE c == s.live
           m == c.next
           more == Append(c.rows, Circle!Row(verb, m))
           n == Len(more)
           said == Circle!Noted(s, Circle!Row(verb, m))
           sent == Circle!Sent(said, c.handed)
           out == Circle!Spoken(s, m, verb)
           f == Circle!Fed(s, m, verb)
<1>1. /\ s \in States /\ c \in Discussions /\ c.rows \in Seq(Lines) /\ m \in Nat /\ m \in Circle!Members
      /\ c.handed \in Nat /\ c.emitted \in Nat /\ c.handed =< Len(c.rows)
      /\ verb \in {"say", "agree", "leave", "ask"} /\ ~c.closed /\ c.disc
  BY MembersAreNumbers DEF Sound, States, Discussions, Asking, Waiting, Circle!Verbs, Behind
<1>2. PICK r \in Nat : r = Len(c.rows) /\ DOMAIN c.rows = 1..r  BY <1>1
<1>3. /\ more \in Seq(Lines) /\ n = r + 1 /\ DOMAIN more = 1..r + 1
      /\ \A l \in 1..r : more[l] = c.rows[l] /\ ~Vote(more[l])
      /\ more[r + 1].verb = verb /\ more[r + 1].arg = m
  <2>1. verb \in {"say", "agree", "leave", "ask", "round", "answer", "autonomy", "passed"}  BY <1>1
  <2> HIDE DEF m
  <2>2. /\ more \in Seq(Lines) /\ n = Len(c.rows) + 1 /\ DOMAIN more = 1..Len(c.rows) + 1
        /\ \A l \in 1..Len(c.rows) : more[l] = c.rows[l]
        /\ more[Len(c.rows) + 1].verb = verb /\ more[Len(c.rows) + 1].arg = m
    BY <1>1, <2>1, LineAdded
  <2> HIDE DEF more, n
  <2> QED BY <1>2, <2>2 DEF NoVotes
<1> HIDE DEF more
<1>4. said \in States /\ said.live = [c EXCEPT !.rows = more] /\ said.kept = s.kept /\ said.asked = 0
      /\ said.live.rows = more
  <2>1. [c EXCEPT !.rows = more] \in Discussions /\ [c EXCEPT !.rows = more].rows = more
    BY <1>1, <1>3 DEF Discussions
  <2>2. said = [s EXCEPT !.live = [c EXCEPT !.rows = more]]
    BY <1>1 DEF Circle!Noted, more, States, Discussions
  <2> HIDE DEF said
  <2> QED BY <1>1, <2>1, <2>2 DEF States
<1> HIDE DEF said
<1>5. IsSent(said, c.handed, sent)
  <2>1. \A l \in DOMAIN said.live.rows :
          l > c.handed /\ said.live.rows[l].verb = "agree" => said.live.rows[l].arg \in Circle!Members
    BY <1>1, <1>3, <1>4 DEF Vote
  <2> QED BY <1>1, <1>4, <2>1, SendKeeps
<1>6. /\ Unsent(more, c.handed, "leave") = IF verb = "leave" THEN {m} ELSE {}
      /\ Unsent(more, c.handed, "agree") = IF verb = "agree" THEN {m} ELSE {}
  <2>1. ASSUME NEW v \in {"leave", "agree"}
        PROVE  Unsent(more, c.handed, v) = IF verb = v THEN {m} ELSE {}
    <3>1. \A l \in DOMAIN more : more[l].verb = v => l = r + 1  BY <1>3 DEF Vote
    <3>2. r + 1 \in DOMAIN more /\ r + 1 > c.handed  BY <1>1, <1>2, <1>3
    <3> QED BY <1>3, <3>1, <3>2 DEF Unsent
  <2> QED BY <2>1
<1> HIDE DEF sent
<1>7. PICK lines \in Seq(Lines) :
        /\ sent.live = [c EXCEPT !.rows = lines] /\ DOMAIN lines = 1..r + 1 /\ Len(lines) = r + 1
        /\ \A l \in 1..r + 1 : lines[l].verb = more[l].verb /\ lines[l].arg = more[l].arg
  <2>1. PICK lines \in Seq(Lines) :
        /\ sent.live = [said.live EXCEPT !.rows = lines]
        /\ DOMAIN lines = DOMAIN said.live.rows /\ Len(lines) = Len(said.live.rows)
        /\ \A l \in DOMAIN said.live.rows :
             lines[l].verb = said.live.rows[l].verb /\ lines[l].arg = said.live.rows[l].arg
    BY <1>5 DEF IsSent
  <2>2. [said.live EXCEPT !.rows = lines] = [c EXCEPT !.rows = lines]  BY <1>1, <1>4 DEF Discussions
  <2>3. said.live.rows = more /\ DOMAIN more = 1..r + 1 /\ Len(more) = r + 1  BY <1>3, <1>4
  <2>4. DOMAIN lines = 1..r + 1 /\ Len(lines) = r + 1  BY <2>1, <2>3
  <2>5. \A l \in 1..r + 1 : lines[l].verb = more[l].verb /\ lines[l].arg = more[l].arg  BY <2>1, <2>3
  <2>6. sent.live = [c EXCEPT !.rows = lines]  BY <2>1, <2>2
  <2> HIDE DEF c, m
  <2> QED BY <2>4, <2>5, <2>6
<1> DEFINE e == c.emitted + (r + 1) - c.handed
           d == [c EXCEPT !.rows = lines, !.next = m + 1, !.handed = r + 1, !.emitted = e]
<1>8. e \in Nat /\ r + 1 \in Nat
  <2>1. c.emitted \in Nat /\ c.handed \in Nat /\ c.handed =< r  BY <1>1, <1>2
  <2> HIDE DEF c
  <2> QED BY <2>1
<1>9. /\ d \in Discussions /\ d.rows = lines /\ d.handed = r + 1 /\ d.present = c.present /\ d.agreed = c.agreed
      /\ d.closed = c.closed /\ d.disc = c.disc /\ d.round = c.round /\ d.phase = c.phase /\ d.plan = c.plan
      /\ d.next = m + 1
  <2>1. c \in Discussions /\ lines \in Seq(Lines) /\ m + 1 \in Nat \ {0}  BY <1>1, <1>7
  <2> HIDE DEF e, n, c, m
  <2>2. d \in Discussions  BY <1>8, <2>1 DEF Discussions
  <2>3. d.rows = lines /\ d.handed = r + 1 /\ d.next = m + 1  BY <2>1 DEF Discussions
  <2>4. /\ d.present = c.present /\ d.agreed = c.agreed /\ d.closed = c.closed /\ d.disc = c.disc
        /\ d.round = c.round /\ d.phase = c.phase /\ d.plan = c.plan
    BY <2>1 DEF Discussions
  <2> QED BY <2>2, <2>3, <2>4
<1>10. out = [sent EXCEPT !.live = d]
  <2>1. [Circle!Moved(sent.live, m) EXCEPT !.handed = n, !.emitted = @ + n - c.handed] = d
    BY <1>1, <1>3, <1>7 DEF Circle!Moved, Discussions
  <2>2. n = Len(said.live.rows)  BY <1>4
  <2> QED BY <2>1, <2>2 DEF Circle!Spoken, said, sent
<1> HIDE DEF d
<1>11. out \in States /\ out.live = d /\ out.kept = sent.kept /\ out.asked = 0
  BY <1>4, <1>5, <1>9, <1>10 DEF IsSent, States
<1> HIDE DEF out
<1>12. /\ f.kept = sent.kept /\ f.asked = 0 /\ f \in States
       /\ f.live.present = c.present \ (IF verb = "leave" THEN {m} ELSE {})
       /\ f.live.agreed = c.agreed \union (IF verb = "agree" THEN {m} ELSE {})
       /\ f.live.handed = r + 1 /\ f.live.closed = c.closed /\ f.live.disc = c.disc /\ f.live.round = c.round
       /\ f.live.phase = c.phase /\ f.live.plan = c.plan /\ f.live.next = m + 1
       /\ r + 1 =< Len(f.live.rows) /\ \A l \in 1..r + 1 : f.live.rows[l] = lines[l]
       /\ \A l \in DOMAIN f.live.rows : l \in 1..r + 1 \/ ~Vote(f.live.rows[l])
  <2>1. /\ verb = "leave" => f = [out EXCEPT !.live.present = @ \ {m}]
        /\ verb = "agree" => f = [out EXCEPT !.live.agreed = @ \cup {m}]
        /\ verb \notin {"leave", "agree"} =>
             f = out \/ (verb = "ask" /\ f = Circle!Noted(out, Circle!Row("autonomy", m)))
    <3>1. CASE verb = "leave"  BY <3>1 DEF Circle!Fed, out
    <3>2. CASE verb = "agree"  BY <3>2 DEF Circle!Fed, out
    <3>3. CASE verb = "ask"  BY <3>3 DEF Circle!Fed, out
    <3>4. CASE verb = "say"  BY <3>4 DEF Circle!Fed, out
    <3> QED BY <1>1, <3>1, <3>2, <3>3, <3>4
  <2>2. Len(lines) = r + 1 /\ DOMAIN lines = 1..r + 1  BY <1>3, <1>7
  <2>3. CASE verb = "leave"
    <3> DEFINE g == [d EXCEPT !.present = d.present \ {m}]
    <3>1. /\ g \in Discussions /\ g.present = c.present \ (IF verb = "leave" THEN {m} ELSE {})
          /\ g.agreed = c.agreed \union (IF verb = "agree" THEN {m} ELSE {})
          /\ g.handed = r + 1 /\ g.closed = c.closed /\ g.disc = c.disc /\ g.round = c.round
          /\ g.phase = c.phase /\ g.plan = c.plan /\ g.rows = lines /\ g.next = m + 1
      <4>1. m \in Circle!Members  BY <1>1
      <4> HIDE DEF m, c
      <4> QED BY <1>9, <2>3, <4>1 DEF Discussions
    <3>2. f = [out EXCEPT !.live = g]  BY <1>9, <1>11, <2>1, <2>3 DEF States, Discussions
    <3> HIDE DEF g, f, c, m
    <3>3. f.live = g /\ f.kept = sent.kept /\ f.asked = 0 /\ f \in States  BY <1>11, <3>1, <3>2 DEF States
    <3> QED BY <2>2, <3>1, <3>3
  <2>4. CASE verb = "agree"
    <3> DEFINE g == [d EXCEPT !.agreed = d.agreed \union {m}]
    <3>1. /\ g \in Discussions /\ g.present = c.present \ (IF verb = "leave" THEN {m} ELSE {})
          /\ g.agreed = c.agreed \union (IF verb = "agree" THEN {m} ELSE {})
          /\ g.handed = r + 1 /\ g.closed = c.closed /\ g.disc = c.disc /\ g.round = c.round
          /\ g.phase = c.phase /\ g.plan = c.plan /\ g.rows = lines /\ g.next = m + 1
      <4>1. m \in Circle!Members  BY <1>1
      <4> HIDE DEF m, c
      <4> QED BY <1>9, <2>4, <4>1 DEF Discussions
    <3>2. f = [out EXCEPT !.live = g]  BY <1>9, <1>11, <2>1, <2>4 DEF States, Discussions
    <3> HIDE DEF g, f, c, m
    <3>3. f.live = g /\ f.kept = sent.kept /\ f.asked = 0 /\ f \in States  BY <1>11, <3>1, <3>2 DEF States
    <3> QED BY <2>2, <3>1, <3>3
  <2>5. CASE verb \notin {"leave", "agree"} /\ f = out
    <3> HIDE DEF f
    <3> QED BY <1>9, <1>11, <2>2, <2>5
  <2>6. CASE verb = "ask" /\ f = Circle!Noted(out, Circle!Row("autonomy", m))
    <3> DEFINE rows == Append(lines, Circle!Row("autonomy", m))
    <3>1. /\ rows \in Seq(Lines) /\ Len(rows) = r + 2 /\ DOMAIN rows = 1..r + 2
          /\ \A l \in 1..r + 1 : rows[l] = lines[l]
          /\ rows[r + 2].verb = "autonomy"
      <4>1. /\ rows \in Seq(Lines) /\ Len(rows) = Len(lines) + 1 /\ DOMAIN rows = 1..Len(lines) + 1
            /\ \A l \in 1..Len(lines) : rows[l] = lines[l]
            /\ rows[Len(lines) + 1].verb = "autonomy"
        BY <1>1, LineAdded
      <4> HIDE DEF rows
      <4> QED BY <1>7, <4>1
    <3>2. f = [out EXCEPT !.live = [d EXCEPT !.rows = rows]]
      BY <1>9, <1>11, <2>6 DEF States, Discussions, Circle!Noted
    <3> HIDE DEF f, rows
    <3>3. /\ f.live = [d EXCEPT !.rows = rows] /\ f.kept = sent.kept /\ f.asked = 0 /\ f \in States
          /\ [d EXCEPT !.rows = rows] \in Discussions
      BY <1>9, <1>11, <3>1, <3>2 DEF States, Discussions
    <3>4. \A l \in DOMAIN rows : l \in 1..r + 1 \/ ~Vote(rows[l])
      BY <3>1 DEF Vote
    <3>5. r + 1 =< Len(rows)  BY <1>2, <3>1
    <3>6. f.live.rows = rows  BY <1>9, <3>3 DEF Discussions
    <3>7. /\ f.live.present = d.present /\ f.live.agreed = d.agreed /\ f.live.handed = d.handed
          /\ f.live.closed = d.closed /\ f.live.disc = d.disc /\ f.live.round = d.round
          /\ f.live.phase = d.phase /\ f.live.plan = d.plan /\ f.live.next = d.next
      <4> HIDE DEF c, m
      <4> QED BY <1>9, <3>3 DEF Discussions
    <3> QED BY <1>9, <2>6, <3>1, <3>3, <3>4, <3>5, <3>6, <3>7
  <2> QED BY <1>1, <2>1, <2>3, <2>4, <2>5, <2>6
<1> HIDE DEF f
<1>13. Due(f.live)
  <2>1. ASSUME NEW l \in DOMAIN f.live.rows, Vote(f.live.rows[l])
        PROVE  l = r + 1 /\ f.live.rows[l].verb = verb /\ f.live.rows[l].arg = m
    <3>1. l \in 1..r + 1 /\ f.live.rows[l] = lines[l]  BY <1>12, <2>1
    <3>2. lines[l].verb = more[l].verb /\ lines[l].arg = more[l].arg  BY <1>7, <3>1
    <3>3. l \notin 1..r  BY <1>3, <2>1, <3>1, <3>2 DEF Vote
    <3> QED BY <1>2, <1>3, <3>1, <3>2, <3>3
  <2>2. ASSUME NEW l \in DOMAIN f.live.rows, Vote(f.live.rows[l])
        PROVE  /\ l =< f.live.handed
               /\ f.live.rows[l].verb = "agree" => f.live.rows[l].arg \in f.live.agreed
               /\ f.live.rows[l].verb = "leave" => f.live.rows[l].arg \notin f.live.present
    <3>1. l = r + 1 /\ f.live.handed = r + 1  BY <1>3, <1>12, <2>1, <2>2
    <3>2. l =< f.live.handed  BY <1>2, <3>1
    <3> QED BY <1>12, <2>1, <2>2, <3>2
  <2> QED BY <1>12, <2>2 DEF Due
<1>14. /\ f.kept \in Records /\ f.kept.begun = s.kept.begun /\ f.kept.plan = s.kept.plan /\ f.kept.over = s.kept.over
       /\ f.kept.present = s.kept.present \ (IF verb = "leave" THEN {m} ELSE {})
       /\ f.kept.agreed = s.kept.agreed \union (IF verb = "agree" THEN {m} ELSE {})
       /\ f.kept.closed => s.kept.closed
  BY <1>4, <1>5, <1>6, <1>12 DEF IsSent, States
<1>15. Matches(f.live, f.kept)
  BY <1>1, <1>12, <1>14 DEF Sound, Matches
<1>16. Told(f.kept, back)
  BY <1>1, <1>14 DEF Sound, Told, Consent, Matches
<1> DEFINE t == Circle!PushDelta(f)
<1>17. Sound(t, back) /\ t.asked = 0 /\ SameTurn(f.live, t.live)
  BY <1>1, <1>12, <1>13, <1>15, <1>16, PushKeeps
<1> HIDE DEF t
<1>18. Goes(c, t.live, {m})
  <2>1. t.live \in Discussions  BY <1>17 DEF Sound, States
  <2>2. /\ t.live.disc /\ t.live.next = m + 1 /\ t.live.round = c.round /\ t.live.phase = c.phase
        /\ t.live.present \subseteq c.present /\ c.agreed \subseteq t.live.agreed
    BY <1>1, <1>12, <1>17 DEF SameTurn
  <2> QED BY <1>1, <2>1, <2>2, PassesOne
<1> QED BY <1>17, <1>18 DEF f, t

(* Who is asked next waits, from the cursor on.                            *)
LEMMA NextWaits ==
  ASSUME NEW c \in Discussions
  PROVE  LET m == Circle!NextToAsk(c)
         IN /\ m = Chairs + 1 \/ (m \in Circle!Members /\ m >= c.next /\ Circle!Waits(c, m))
            /\ c.next \in Circle!Members /\ Circle!Waits(c, c.next) => m = c.next
            /\ \A n \in Circle!Members : n >= c.next /\ Circle!Waits(c, n) => m =< n
<1> DEFINE left == {m \in Circle!Members : m >= c.next /\ Circle!Waits(c, m)}
           m == Circle!NextToAsk(c)
<1>1. left \subseteq Nat /\ left \in SUBSET Nat  BY MembersAreNumbers
<1>2. c.next \in Nat  BY DEF Discussions
<1>3. m = IF left = {} THEN Chairs + 1 ELSE CHOOSE x \in left : \A n \in left : x <= n
  BY DEF Circle!NextToAsk
<1>4. CASE left = {}
  <2>1. m = Chairs + 1  BY <1>3, <1>4
  <2>2. ~(c.next \in Circle!Members /\ Circle!Waits(c, c.next))  BY <1>2, <1>4
  <2>3. \A n \in Circle!Members : n >= c.next /\ Circle!Waits(c, n) => FALSE  BY <1>4
  <2> QED BY <2>1, <2>2, <2>3
<1>5. CASE left # {}
  <2> HIDE DEF left, m
  <2>1. PICK t \in left : \A u \in left : ~(<<u, t>> \in OpToRel(<, Nat))  BY <1>1, <1>5, LeastExists
  <2>2. \A u \in left : ~(u < t)  BY <1>1, <2>1, Zenon DEF OpToRel
  <2>3. \A u \in left : t <= u  BY <1>1, <2>2
  <2>4. m = CHOOSE x \in left : \A n \in left : x <= n  BY <1>3, <1>5
  <2>5. m \in left /\ \A n \in left : m <= n  BY <2>3, <2>4, Zenon
  <2>6. m \in Circle!Members /\ m >= c.next /\ Circle!Waits(c, m)  BY <2>5 DEF left
  <2>7. ASSUME c.next \in Circle!Members, Circle!Waits(c, c.next) PROVE m = c.next
    <3>1. c.next \in left  BY <1>2, <2>7 DEF left
    <3> QED BY <1>1, <1>2, <2>5, <2>6, <3>1
  <2>8. \A n \in Circle!Members : n >= c.next /\ Circle!Waits(c, n) => m =< n  BY <2>5 DEF left
  <2> QED BY <2>6, <2>7, <2>8 DEF m
<1> QED BY <1>4, <1>5

(* A round begins: no vote is among what is new.                           *)
LEMMA RoundBegins ==
  ASSUME NEW c \in Discussions, Behind(c)
  PROVE  LET b == Circle!RoundBegun(c)
         IN /\ b \in Discussions /\ Behind(b) /\ b.disc = c.disc /\ b.plan = c.plan
            /\ b.present = c.present /\ b.agreed = c.agreed /\ b.round = c.round /\ b.closed = c.closed
            /\ b.phase = "at" /\ b.next = 1
<1> DEFINE line == Append(c.rows, Circle!Row("round", c.round + 1))
           lines == Append(line, Circle!Row("answer", 0))
           b == Circle!RoundBegun(c)
<1>1. c.rows \in Seq(Lines) /\ c.round + 1 \in Nat /\ c.emitted \in Nat  BY DEF Discussions
<1>2. PICK r \in Nat : r = Len(c.rows) /\ DOMAIN c.rows = 1..r  BY <1>1
<1>3. /\ line \in Seq(Lines) /\ Len(line) = r + 1 /\ DOMAIN line = 1..r + 1
      /\ \A n \in 1..r : line[n] = c.rows[n]
      /\ ~Vote(line[r + 1])
  <2>1. /\ line \in Seq(Lines) /\ Len(line) = Len(c.rows) + 1 /\ DOMAIN line = 1..Len(c.rows) + 1
        /\ \A n \in 1..Len(c.rows) : line[n] = c.rows[n]
        /\ line[Len(c.rows) + 1].verb = "round"
    BY <1>1, LineAdded
  <2> HIDE DEF line
  <2> QED BY <1>2, <2>1 DEF Vote
<1> HIDE DEF line
<1>4. /\ lines \in Seq(Lines) /\ Len(lines) = r + 2 /\ DOMAIN lines = 1..r + 2
      /\ \A n \in 1..r : lines[n] = c.rows[n]
      /\ ~Vote(lines[r + 1]) /\ ~Vote(lines[r + 2])
  <2>1. /\ lines \in Seq(Lines) /\ Len(lines) = Len(line) + 1 /\ DOMAIN lines = 1..Len(line) + 1
        /\ \A n \in 1..Len(line) : lines[n] = line[n]
        /\ lines[Len(line) + 1].verb = "answer"
    BY <1>3, LineAdded
  <2> HIDE DEF lines
  <2> QED BY <1>3, <2>1 DEF Vote
<1> HIDE DEF lines
<1>5. ASSUME NEW new \in {line, lines}, NEW d \in Discussions, d.rows = new, d.handed = r, d.emitted = c.emitted
      PROVE  Behind(d)
  <2>1. d.handed =< Len(d.rows)  BY <1>3, <1>4, <1>5
  <2>2. ASSUME NEW n \in DOMAIN d.rows, Vote(d.rows[n]) PROVE n =< d.handed /\ n =< d.emitted
    <3>1. n \in 1..r /\ d.rows[n] = c.rows[n]  BY <1>3, <1>4, <1>5, <2>2
    <3>2. n =< c.emitted  BY <1>2, <2>2, <3>1 DEF Behind
    <3> QED BY <1>5, <3>1, <3>2
  <2> QED BY <2>1, <2>2 DEF Behind
<1>6. CASE c.answers = 0
  <2>1. b = [c EXCEPT !.handed = r, !.rows = line, !.phase = "at", !.next = 1]
    BY <1>2, <1>6 DEF Circle!RoundBegun, line
  <2> HIDE DEF b
  <2>0. 1 \in Nat \ {0} /\ line \in Seq(Lines)  BY <1>3
  <2>3. b \in Discussions  BY <2>0, <2>1 DEF Discussions
  <2>2. /\ b \in Discussions /\ b.disc = c.disc /\ b.plan = c.plan
        /\ b.present = c.present /\ b.agreed = c.agreed /\ b.round = c.round /\ b.closed = c.closed
        /\ b.phase = "at" /\ b.next = 1 /\ b.rows = line /\ b.handed = r /\ b.emitted = c.emitted
    BY <2>3, <2>1 DEF Discussions
  <2>4. Behind(b)  BY <1>5, <2>2
  <2> QED BY <2>2, <2>4 DEF b
<1>7. CASE c.answers # 0
  <2>1. b = [c EXCEPT !.handed = r, !.rows = lines, !.phase = "at", !.next = 1, !.answers = c.answers - 1]
    BY <1>2, <1>7 DEF Circle!RoundBegun, line, lines, Discussions
  <2> HIDE DEF b
  <2>0. 1 \in Nat \ {0} /\ lines \in Seq(Lines) /\ c.answers - 1 \in Nat  BY <1>4, <1>7 DEF Discussions
  <2>3. b \in Discussions  BY <2>0, <2>1 DEF Discussions
  <2>2. /\ b \in Discussions /\ b.disc = c.disc /\ b.plan = c.plan
        /\ b.present = c.present /\ b.agreed = c.agreed /\ b.round = c.round /\ b.closed = c.closed
        /\ b.phase = "at" /\ b.next = 1 /\ b.rows = lines /\ b.handed = r /\ b.emitted = c.emitted
    BY <2>3, <2>1 DEF Discussions
  <2>4. Behind(b)  BY <1>5, <2>2
  <2> QED BY <2>2, <2>4 DEF b
<1> QED BY <1>6, <1>7

(* A step of the state machine.                                            *)
LEMMA AdvanceKeeps ==
  ASSUME NEW c \in Discussions, Behind(c), ~c.closed, c.phase = "opener" => c.round = 0,
         NEW stopped \in BOOLEAN
  PROVE  Advances(c, Circle!Advance(c, stopped))
<1> DEFINE a == Circle!Advance(c, stopped)
           b == IF c.phase = "fresh" THEN Circle!RoundBegun(c) ELSE c
           m == Circle!NextToAsk(b)
           over == Circle!RoundOver(b)
<1> SUFFICES Advances(c, a)  OBVIOUS
<1>1. /\ c.round \in Nat /\ c.next \in Nat \ {0} /\ c.phase \in {"fresh", "opener", "at"} /\ c.closed \in BOOLEAN
      /\ Chairs \in Nat /\ Laps \in Nat /\ Circle!Members = 1..Chairs
  BY MembersAreNumbers DEF Discussions
<1>2. CASE stopped
  <2>1. a = [c |-> c, out |-> "stopped", m |-> 0]  BY <1>2 DEF Circle!Advance
  <2> HIDE DEF a
  <2>2. Passes(c, c, {})  BY SameGoes DEF SameTurn
  <2> QED BY <2>1, <2>2 DEF Advances
<1>3. CASE ~stopped /\ c.phase = "opener" /\ c.next <= Chairs
  <2>1. a = [c |-> c, out |-> "ask", m |-> c.next]  BY <1>3 DEF Circle!Advance
  <2>2. Waiting(c) /\ c.next >= c.next  BY <1>1, <1>3 DEF Waiting
  <2> HIDE DEF a
  <2>3. Passes(c, c, {})  BY SameGoes DEF SameTurn
  <2> QED BY <2>1, <2>2, <2>3 DEF Advances
<1>4. CASE ~stopped /\ c.phase = "opener" /\ ~(c.next <= Chairs)
  <2> DEFINE d == [c EXCEPT !.round = 1, !.phase = "fresh"]
  <2>1. a = [c |-> d, out |-> "again", m |-> 0]  BY <1>4 DEF Circle!Advance
  <2>2. 1 \in Nat /\ 1 > c.round  BY <1>4
  <2>3. /\ d \in Discussions /\ d.disc = c.disc /\ d.plan = c.plan /\ d.present = c.present
        /\ d.agreed = c.agreed /\ d.phase = "fresh" /\ d.closed = c.closed /\ d.rows = c.rows
        /\ d.handed = c.handed /\ d.emitted = c.emitted
    BY <2>2 DEF Discussions
  <2>4. d.round = 1  BY DEF Discussions
  <2>5. ~Waiting(c)  BY <1>1, <1>4 DEF Waiting
  <2> HIDE DEF a, d
  <2>6. Behind(d)  BY <2>3 DEF Behind
  <2>7. Passes(c, d, {})
    <3>1. Passed(d) = {} /\ Left(d) = Left(c)  BY <2>3 DEF Passed, Left
    <3>2. \A x \in 1..Chairs : x < c.next  BY <1>1, <1>4
    <3>3. c.present \subseteq 1..Chairs  BY <1>1 DEF Discussions
    <3>4. Left(c) \subseteq Passed(c)  BY <1>4, <3>2, <3>3 DEF Passed, Left
    <3>5. d.round > c.round /\ d.round >= c.round /\ d.round # c.round  BY <1>4, <2>4
    <3> QED BY <3>1, <3>4, <3>5 DEF Passes
  <2> QED BY <2>1, <2>2, <2>3, <2>4, <2>5, <2>6, <2>7 DEF Advances
<1>5. CASE ~stopped /\ c.phase # "opener"
  <2>1. /\ b \in Discussions /\ Behind(b) /\ b.disc = c.disc /\ b.plan = c.plan
        /\ b.present = c.present /\ b.agreed = c.agreed /\ b.round = c.round /\ b.closed = c.closed
        /\ b.phase = "at" /\ (c.phase # "fresh" => b = c) /\ (c.phase = "fresh" => b.next = 1)
    BY <1>1, <1>5, RoundBegins
  <2>2. /\ m = Chairs + 1 \/ (m \in Circle!Members /\ m >= b.next /\ Circle!Waits(b, m))
        /\ b.next \in Circle!Members /\ Circle!Waits(b, b.next) => m = b.next
        /\ \A n \in Circle!Members : n >= b.next /\ Circle!Waits(b, n) => m =< n
    BY <2>1, NextWaits
  <2>6. /\ Passed(b) = Passed(c) /\ Left(b) = Left(c) /\ b.next \in Nat
        /\ \A n \in Left(c) : n \in 1..Chairs /\ Circle!Waits(b, n)
    <3>1. Left(b) = Left(c)  BY <2>1 DEF Left
    <3>2. \A n \in Left(c) : n \in 1..Chairs /\ Circle!Waits(b, n)
      BY <1>1, <2>1 DEF Left, Discussions, Circle!Waits
    <3>3. b.next \in Nat  BY <2>1 DEF Discussions
    <3>4. CASE c.phase # "fresh"
      <4>1. b = c  BY <2>1, <3>4
      <4> HIDE DEF b
      <4> QED BY <3>1, <3>2, <3>3, <4>1
    <3>5. CASE c.phase = "fresh"
      <4>1. \A n \in 1..Chairs : ~(n < 1)  OBVIOUS
      <4>2. b.next = 1  BY <2>1, <3>5
      <4> HIDE DEF b
      <4>3. Passed(b) = {}  BY <3>1, <3>2, <4>1, <4>2 DEF Passed
      <4>4. Passed(c) = {}  BY <3>5 DEF Passed
      <4> QED BY <3>1, <3>2, <3>3, <4>3, <4>4
    <3> QED BY <3>4, <3>5
  <2>3. a = IF m > Chairs
            THEN [c |-> over, out |-> IF over.closed THEN "done" ELSE "again", m |-> 0]
            ELSE [c |-> [b EXCEPT !.next = m], out |-> "ask", m |-> m]
    BY <1>5 DEF Circle!Advance
  <2> HIDE DEF a, b, m
  <2>4. CASE m > Chairs
    <3> DEFINE closed == b.present \subseteq b.agreed \/ b.round + 1 > Laps
    <3>1. closed \in BOOLEAN /\ b.round + 1 \in Nat /\ b.round + 1 > c.round  BY <1>1, <2>1
    <3>2. over = [b EXCEPT !.round = b.round + 1, !.phase = "fresh", !.closed = closed]
      BY DEF Circle!RoundOver
    <3> HIDE DEF over, closed
    <3>3. /\ over \in Discussions /\ over.disc = b.disc /\ over.plan = b.plan /\ over.present = b.present
          /\ over.agreed = b.agreed /\ over.phase = "fresh" /\ over.closed = closed /\ over.rows = b.rows
          /\ over.handed = b.handed /\ over.emitted = b.emitted
      BY <2>1, <3>1, <3>2 DEF Discussions
    <3>4. over.round = b.round + 1  BY <2>1, <3>2 DEF Discussions
    <3>5. Behind(over)  BY <2>1, <3>3 DEF Behind
    <3>6. ~Waiting(c)
      <4>1. ASSUME Waiting(c) PROVE FALSE
        <5>1. b = c /\ c.next \in Circle!Members /\ Circle!Waits(c, c.next)
          BY <1>1, <1>5, <2>1, <4>1 DEF Waiting
        <5>2. m = c.next  BY <2>2, <5>1
        <5> QED BY <1>1, <2>4, <5>1, <5>2
      <4> QED BY <4>1
    <3>7. over.closed => c.present \subseteq c.agreed \/ over.round > Laps
      BY <2>1, <3>3, <3>4 DEF closed
    <3>8. a.c = over /\ a.out = IF over.closed THEN "done" ELSE "again"  BY <2>3, <2>4
    <3>9. /\ a.out \in {"done", "again"} /\ (a.out = "done" => over.closed) /\ (a.out = "again" => ~over.closed)
          /\ over.closed \in BOOLEAN
      BY <3>1, <3>3, <3>8
    <3>10. over.round > c.round  BY <3>1, <3>4
    <3>11. Passes(c, over, {})
      <4>1. Passed(over) = {} /\ Left(over) = Left(b)  BY <3>3 DEF Passed, Left
      <4>2. \A n \in Left(c) : n < b.next  BY <1>1, <2>2, <2>4, <2>6
      <4>3. Left(c) \subseteq Passed(b)  BY <2>1, <2>6, <4>2 DEF Passed
      <4>4. over.round >= c.round /\ over.round # c.round  BY <1>1, <3>1, <3>4
      <4> QED BY <2>6, <3>10, <4>1, <4>3, <4>4 DEF Passes
    <3> QED BY <2>1, <3>3, <3>5, <3>6, <3>7, <3>8, <3>9, <3>10, <3>11 DEF Advances
  <2>5. CASE ~(m > Chairs)
    <3> DEFINE d == [b EXCEPT !.next = m]
    <3>1. m \in Circle!Members /\ m >= b.next /\ Circle!Waits(b, m) /\ m \in Nat \ {0}
      BY <1>1, <2>2, <2>5
    <3>2. /\ d \in Discussions /\ d.disc = b.disc /\ d.plan = b.plan /\ d.present = b.present
          /\ d.agreed = b.agreed /\ d.phase = b.phase /\ d.closed = b.closed /\ d.rows = b.rows
          /\ d.handed = b.handed /\ d.emitted = b.emitted /\ d.round = b.round /\ d.next = m
      BY <2>1, <3>1 DEF Discussions
    <3>3. Behind(d)  BY <2>1, <3>2 DEF Behind
    <3>4. Waiting(d)  BY <2>1, <3>1, <3>2 DEF Waiting, Circle!Waits
    <3>5. ASSUME Waiting(c) PROVE d = c
      <4>1. b = c /\ c.next \in Circle!Members /\ Circle!Waits(c, c.next)
        BY <1>1, <1>5, <2>1, <3>5 DEF Waiting
      <4>2. m = c.next  BY <2>2, <4>1
      <4> QED BY <4>1, <4>2 DEF Discussions
    <3>6. a.c = d /\ a.out = "ask" /\ a.m = m  BY <2>3, <2>5
    <3>7. c.phase # "fresh" => m >= c.next  BY <2>1, <3>1
    <3> HIDE DEF d
    <3>8. Passes(c, d, {})
      <4>1. Left(d) = Left(c)  BY <2>6, <3>2 DEF Left
      <4>2. \A n \in Left(c) : n < m => n < b.next  BY <1>1, <2>2, <2>6, <3>1
      <4>3. Passed(d) \subseteq Passed(b)  BY <2>1, <2>6, <3>2, <4>1, <4>2 DEF Passed
      <4>4. d.round = c.round /\ d.round >= c.round /\ ~(d.round > c.round)  BY <1>1, <2>1, <3>2
      <4> QED BY <2>6, <4>3, <4>4 DEF Passes
    <3> QED BY <2>1, <3>2, <3>3, <3>4, <3>5, <3>6, <3>7, <3>8 DEF Advances
  <2> QED BY <1>1, <2>2, <2>4, <2>5
<1> HIDE DEF a
<1> QED BY <1>2, <1>3, <1>4, <1>5

(* A card is put to the user.                                              *)
LEMMA AskingKeeps ==
  ASSUME NEW back, NEW s, Sound(s, back), NEW gate \in Gates
  PROVE  LET t == Circle!AskUser(s, gate)
         IN Sound(t, back) /\ t.live = s.live /\ t.kept = s.kept /\ t.asked = s.asked
<1>1. s \in States /\ s.open \in Seq(Gates)  BY DEF Sound, States
<1>2. Append(s.open, gate) \in Seq(Gates)  BY <1>1
<1>3. Circle!AskUser(s, gate) = [s EXCEPT !.open = Append(s.open, gate)]
  BY <1>1 DEF Circle!AskUser, States
<1>4. LET t == Circle!AskUser(s, gate)
      IN t \in States /\ t.live = s.live /\ t.kept = s.kept /\ t.asked = s.asked
  BY <1>1, <1>2, <1>3 DEF States
<1> QED BY <1>4 DEF Sound

(* The discussion is over: a plan is made of it, if it has consent.        *)
LEMMA SettleKeeps ==
  ASSUME NEW back, NEW s, Sound(s, back), s.live.disc, Consent(s.kept, back),
         NEW stopped \in BOOLEAN, NEW p \in Circle!Settle(s, stopped)
  PROVE  Quiet(s, p, back)
<1>1. PICK q \in (IF s.live.plan THEN {s} ELSE Circle!Planned(s, stopped)) :
        p = IF q.live.plan /\ ~q.live.approved THEN Circle!AskUser(q, "plan") ELSE q
  BY DEF Circle!Settle
<1>2. Quiet(s, q, back)
  <2>1. CASE q = s  BY <2>1, SameIsQuiet
  <2>2. CASE q # s
    <3> DEFINE c == [s.live EXCEPT !.plan = TRUE]
               k == [s.kept EXCEPT !.plan = TRUE]
    <3>1. s \in States /\ s.live \in Discussions /\ s.kept \in Records  BY DEF Sound, States
    <3>2. /\ c \in Discussions /\ c.plan = TRUE /\ c.disc = s.live.disc /\ c.present = s.live.present
          /\ c.agreed = s.live.agreed /\ c.phase = s.live.phase /\ c.round = s.live.round
          /\ c.closed = s.live.closed /\ c.rows = s.live.rows /\ c.handed = s.live.handed
          /\ c.emitted = s.live.emitted /\ SameTurn(s.live, c)
      BY <3>1 DEF Discussions, SameTurn
    <3>3. /\ k \in Records /\ k.plan = TRUE /\ k.begun = s.kept.begun /\ k.present = s.kept.present
          /\ k.agreed = s.kept.agreed /\ k.closed = s.kept.closed /\ k.over = s.kept.over
      BY <3>1 DEF Records
    <3>4. q = [s EXCEPT !.live = c, !.kept = k]
      BY <1>1, <2>2, <3>1 DEF Circle!Planned, States
    <3> HIDE DEF c, k
    <3>5. q \in States /\ q.live = c /\ q.kept = k /\ q.asked = s.asked  BY <3>1, <3>2, <3>3, <3>4 DEF States
    <3>6. Behind(c)  BY <3>2 DEF Sound, Behind
    <3>7. Matches(c, k)  BY <3>2, <3>3 DEF Sound, Matches, Circle!ClosedByRecord
    <3>8. Told(k, back)  BY <3>3 DEF Sound, Told, Consent, Matches
    <3> QED BY <3>2, <3>5, <3>6, <3>7, <3>8 DEF Sound, Quiet
  <2> QED BY <2>1, <2>2
<1> QED BY <1>1, <1>2, AskingKeeps DEF Gates, Quiet

(* The pump: whoever is asked waits, what is closed has consent, and a     *)
(* member that waits already keeps its turn.                               *)
LEMMA PumpKeeps ==
  ASSUME NEW back, NEW s, Sound(s, back), s.asked = 0, NEW stopped \in BOOLEAN,
         NEW p \in Circle!Pump(s, stopped)
  PROVE  /\ Outcome(s, p, back)
         /\ p.asked # 0 /\ s.live.phase # "fresh" /\ p.live.round = s.live.round => p.asked >= s.live.next
<1> DEFINE first == Circle!Advance(s.live, stopped)
           then == IF first.out = "again" THEN Circle!Advance(first.c, stopped) ELSE first
           went == [s EXCEPT !.live = then.c]
           done == [went EXCEPT !.kept.closed = TRUE, !.kept.over = then.c.round > Laps]
<1>1. s \in States /\ s.live \in Discussions /\ s.kept \in Records /\ s.live.round \in Nat /\ s.live.next \in Nat
  BY DEF Sound, States, Discussions
<1>2. CASE s.live.done \/ ~s.live.disc \/ s.open # <<>>
  <2>1. p = s  BY <1>2 DEF Circle!Pump
  <2>2. Outcome(s, p, back)  BY <2>1, SameIsQuiet, QuietIs
  <2> QED BY <2>1, <2>2
<1>3. CASE ~(s.live.done \/ ~s.live.disc \/ s.open # <<>>) /\ s.live.closed
  <2>1. p \in Circle!Settle(s, stopped)  BY <1>3 DEF Circle!Pump
  <2>2. Consent(s.kept, back)
    <3>1. Circle!ClosedByRecord(s.kept)  BY <1>3 DEF Sound, Matches
    <3> QED BY <1>1, <3>1 DEF Circle!ClosedByRecord, Sound, Told, Consent, Records
  <2>3. Quiet(s, p, back)  BY <1>3, <2>1, <2>2, SettleKeeps
  <2>4. Outcome(s, p, back)  BY <2>3, QuietIs
  <2> QED BY <2>3, <2>4 DEF Quiet
<1>4. CASE ~(s.live.done \/ ~s.live.disc \/ s.open # <<>>) /\ ~s.live.closed
  <2>1. Advances(s.live, first)
    BY <1>1, <1>4, AdvanceKeeps DEF Sound, Matches
  <2>2. p \in CASE then.out = "ask" -> {[went EXCEPT !.asked = then.m]}
                [] then.out = "done" -> Circle!Settle(done, stopped)
                [] OTHER -> {went}
    BY <1>4 DEF Circle!Pump
  <2>3. /\ then.c \in Discussions /\ Behind(then.c)
        /\ then.c.disc = s.live.disc /\ then.c.plan = s.live.plan
        /\ then.c.present = s.live.present /\ then.c.agreed = s.live.agreed
        /\ then.c.phase = "opener" => then.c.round = 0
        /\ then.out \in {"done", "stopped", "again", "ask"}
        /\ then.out = "ask" => Waiting(then.c) /\ then.m = then.c.next
        /\ then.out = "ask" /\ s.live.phase # "fresh" /\ then.c.round = s.live.round => then.m >= s.live.next
        /\ then.out # "done" => ~then.c.closed
        /\ then.out = "done" => then.c.closed /\ (s.live.present \subseteq s.live.agreed \/ then.c.round > Laps)
        /\ Waiting(s.live) => then.c = s.live /\ then.out \in {"ask", "stopped"}
        /\ Passes(s.live, then.c, {})
    <3>1. CASE first.out # "again"
      <4>1. then = first  BY <3>1
      <4> HIDE DEF first, then
      <4> QED BY <1>1, <1>4, <2>1, <3>1, <4>1 DEF Advances, Waiting
    <3>2. CASE first.out = "again"
      <4> DEFINE c == first.c
      <4>1. then = Circle!Advance(c, stopped)  BY <3>2
      <4> HIDE DEF first
      <4>2. /\ c \in Discussions /\ Behind(c) /\ ~c.closed /\ c.round > s.live.round /\ c.phase = "fresh"
            /\ c.disc = s.live.disc /\ c.plan = s.live.plan /\ c.present = s.live.present
            /\ c.agreed = s.live.agreed /\ ~Waiting(s.live) /\ Passes(s.live, c, {})
        BY <2>1, <3>2 DEF Advances
      <4> HIDE DEF c
      <4>3. Advances(c, then)  BY <4>1, <4>2, AdvanceKeeps
      <4> HIDE DEF then
      <4>4. then.out = "ask" => then.c.round # s.live.round
        <5>1. c.round \in Nat  BY <4>2 DEF Discussions
        <5> QED BY <1>1, <4>2, <4>3, <5>1 DEF Advances
      <4>5. then.out # "done" => ~then.c.closed  BY <4>2, <4>3 DEF Advances, Waiting
      <4>6. then.c \in Discussions /\ Passes(c, then.c, {}) /\ Left(then.c) = Left(c)
        BY <4>3 DEF Advances, Left
      <4>7. Passes(s.live, then.c, {})  BY <1>1, <4>2, <4>6, PassesThen
      <4> QED BY <4>2, <4>3, <4>4, <4>5, <4>7 DEF Advances
    <3> QED BY <3>1, <3>2
  <2> HIDE DEF first, then
  <2>4. went \in States /\ went.live = then.c /\ went.kept = s.kept /\ went.asked = 0
    BY <1>1, <2>3 DEF States
  <2>5. then.out # "done" => Sound(went, back)
    <3>1. then.out # "done" => Matches(then.c, s.kept)  BY <1>4, <2>3 DEF Sound, Matches
    <3> QED BY <2>3, <2>4, <3>1 DEF Sound
  <2>6. Asking(s.live) => SameTurn(s.live, then.c) /\ then.out # "done"
    BY <2>3 DEF Asking, SameTurn
  <2>10. Goes(s.live, then.c, {}) /\ Left(then.c) = Left(s.live)  BY <1>4, <2>3 DEF Goes, Left
  <2>7. CASE then.out = "ask"
    <3>1. p = [went EXCEPT !.asked = then.m]  BY <2>2, <2>7
    <3>2. then.m \in 0..Chairs  BY <2>3, <2>7, MembersAreNumbers DEF Waiting
    <3> HIDE DEF went
    <3>3. p \in States /\ p.live = then.c /\ p.kept = s.kept /\ p.asked = then.m
      BY <2>4, <3>1, <3>2 DEF States
    <3>4. Sound(p, back)  BY <2>4, <2>5, <2>7, <3>3 DEF Sound
    <3> QED BY <1>4, <2>3, <2>6, <2>7, <2>10, <3>3, <3>4 DEF Outcome, Asking
  <2>8. CASE then.out = "done"
    <3> DEFINE k == [s.kept EXCEPT !.closed = TRUE, !.over = then.c.round > Laps]
    <3>1. p \in Circle!Settle(done, stopped)  BY <2>2, <2>8
    <3>2. (then.c.round > Laps) \in BOOLEAN  OBVIOUS
    <3>3. k \in Records /\ k.closed = TRUE /\ k.begun = s.kept.begun /\ k.plan = s.kept.plan
          /\ k.present = s.kept.present /\ k.agreed = s.kept.agreed
      BY <1>1, <3>2 DEF Records
    <3>4. k.over = (then.c.round > Laps)  BY <1>1, <3>2 DEF Records
    <3>5. done = [went EXCEPT !.kept = k]  BY <1>1, <2>4 DEF States
    <3> HIDE DEF went, done, k
    <3>6. done \in States /\ done.live = then.c /\ done.kept = k /\ done.asked = 0
      BY <2>4, <3>3, <3>5 DEF States
    <3>7. s.kept.present = s.live.present /\ s.kept.agreed = s.live.agreed /\ s.kept.begun
      BY <1>4 DEF Sound, Matches
    <3>8. Consent(k, back)  BY <2>3, <2>8, <3>3, <3>4, <3>7 DEF Consent
    <3>9. Matches(then.c, k)  BY <1>4, <2>3, <3>3, <3>7 DEF Sound, Matches, Circle!ClosedByRecord
    <3>10. Told(k, back)  BY <3>3, <3>7, <3>8 DEF Told
    <3>11. Sound(done, back)  BY <2>3, <3>6, <3>9, <3>10 DEF Sound
    <3>12. Sound(p, back) /\ p.asked = 0 /\ SameTurn(then.c, p.live)
      BY <1>4, <2>3, <3>1, <3>6, <3>8, <3>11, SettleKeeps DEF Quiet
    <3>13. Goes(then.c, p.live, {}) /\ Left(p.live) = Left(then.c) /\ p.live \in Discussions
      BY <2>3, <3>12, SameGoes DEF Sound, States
    <3>14. Goes(s.live, p.live, {})  BY <1>1, <2>3, <2>10, <3>13, GoesThen
    <3> QED BY <2>6, <2>8, <2>10, <3>12, <3>13, <3>14 DEF Outcome
  <2>9. CASE then.out \notin {"ask", "done"}
    <3>1. p = went  BY <2>2, <2>9
    <3> HIDE DEF went
    <3> QED BY <2>4, <2>5, <2>6, <2>9, <2>10, <3>1 DEF Outcome
  <2> QED BY <2>7, <2>8, <2>9
<1> QED BY <1>2, <1>3, <1>4

(* Nothing that counts is changed.                                         *)
LEMMA LikeKeeps ==
  ASSUME NEW back, NEW s, Sound(s, back), NEW t, Like(s, t)
  PROVE  Sound(t, back) /\ SameTurn(s.live, t.live) /\ t.asked = s.asked
<1>1. t \in States /\ t.live \in Discussions /\ t.kept \in Records  BY DEF Like, States
<1>2. Behind(t.live)  BY DEF Sound, Like, Behind
<1>3. Matches(t.live, t.kept)  BY DEF Sound, Like, Matches, SameTurn, Circle!ClosedByRecord
<1>4. Told(t.kept, back)  BY <1>1 DEF Sound, Like, Told, Consent
<1> QED BY <1>1, <1>2, <1>3, <1>4 DEF Sound, Like

(* What is alike is alike in turn; a turn that comes of it is one of both. *)
LEMMA LikeThen ==
  ASSUME NEW back, NEW s, NEW t, NEW p, SameTurn(s.live, t.live)
  PROVE  /\ Outcome(t, p, back) => Outcome(s, p, back)
         /\ SameTurn(t.live, p.live) => SameTurn(s.live, p.live)
<1>1. SameTurn(t.live, p.live) => SameTurn(s.live, p.live)  BY DEF SameTurn
<1>2. Asking(s.live) => Asking(t.live)  BY DEF SameTurn, Asking, Waiting, Circle!Waits
<1>3. Left(t.live) = Left(s.live) /\ Passed(t.live) = Passed(s.live)  BY DEF SameTurn, Left, Passed
<1>4. Goes(t.live, p.live, {}) => Goes(s.live, p.live, {})  BY <1>3 DEF SameTurn, Goes, Passes
<1> QED BY <1>1, <1>2, <1>3, <1>4 DEF Outcome

(* What comes of an outcome is one.                                        *)
LEMMA OutcomeThen ==
  ASSUME NEW back, NEW s, Sound(s, back), NEW t, NEW p, Outcome(s, t, back), Outcome(t, p, back)
  PROVE  Outcome(s, p, back)
<1>1. CASE Asking(s.live)
  <2>1. SameTurn(s.live, t.live)  BY <1>1 DEF Outcome
  <2> QED BY <2>1, LikeThen
<1>2. CASE ~Asking(s.live)
  <2>1. s.live \in Discussions /\ t.live \in Discussions /\ p.live \in Discussions  BY DEF Outcome, Sound, States
  <2>2. Goes(s.live, p.live, {}) /\ Left(p.live) = Left(s.live)  BY <2>1, GoesThen DEF Outcome
  <2> QED BY <1>2, <2>2 DEF Outcome
<1> QED BY <1>1, <1>2

(* Marks of the object and of the record, that do not count.               *)
LEMMA MarksAreLike ==
  ASSUME NEW s \in States, NEW b \in BOOLEAN, NEW n \in Nat
  PROVE  /\ Like(s, Circle!Ended(s))
         /\ Like(s, [s EXCEPT !.kept.slate = TRUE, !.live.picks = TRUE])
         /\ Like(s, [s EXCEPT !.kept.task = TRUE])
         /\ Like(s, [s EXCEPT !.kept.confirmed = b])
         /\ Like(s, [s EXCEPT !.live.roster = TRUE, !.kept.roster = TRUE])
         /\ Like(s, [s EXCEPT !.live.approved = TRUE, !.kept.approved = TRUE])
         /\ Like(s, [s EXCEPT !.live.answers = n])
<1>1. s.live \in Discussions /\ s.kept \in Records  BY DEF States
<1>2. ASSUME NEW c \in {[s.live EXCEPT !.done = TRUE], [s.live EXCEPT !.picks = TRUE], [s.live EXCEPT !.roster = TRUE],
                        [s.live EXCEPT !.approved = TRUE], [s.live EXCEPT !.answers = n], s.live}
      PROVE  /\ c \in Discussions /\ SameTurn(s.live, c) /\ c.plan = s.live.plan
             /\ c.rows = s.live.rows /\ c.handed = s.live.handed /\ c.emitted = s.live.emitted
  <2>1. CASE c = [s.live EXCEPT !.done = TRUE]  BY <1>1, <2>1 DEF Discussions, SameTurn
  <2>2. CASE c = [s.live EXCEPT !.picks = TRUE]  BY <1>1, <2>2 DEF Discussions, SameTurn
  <2>3. CASE c = [s.live EXCEPT !.roster = TRUE]  BY <1>1, <2>3 DEF Discussions, SameTurn
  <2>4. CASE c = [s.live EXCEPT !.approved = TRUE]  BY <1>1, <2>4 DEF Discussions, SameTurn
  <2>5. CASE c = [s.live EXCEPT !.answers = n]  BY <1>1, <2>5 DEF Discussions, SameTurn
  <2>6. CASE c = s.live  BY <1>1, <2>6 DEF SameTurn
  <2> QED BY <1>2, <2>1, <2>2, <2>3, <2>4, <2>5, <2>6
<1>3. ASSUME NEW k \in {[s.kept EXCEPT !.ended = TRUE], [s.kept EXCEPT !.slate = TRUE], [s.kept EXCEPT !.task = TRUE],
                        [s.kept EXCEPT !.confirmed = b], [s.kept EXCEPT !.roster = TRUE],
                        [s.kept EXCEPT !.approved = TRUE], s.kept}
      PROVE  /\ k \in Records /\ k.begun = s.kept.begun /\ k.plan = s.kept.plan /\ k.closed = s.kept.closed
             /\ k.over = s.kept.over /\ k.present = s.kept.present /\ k.agreed = s.kept.agreed
  BY <1>1 DEF Records
<1>4. ASSUME NEW c \in {[s.live EXCEPT !.done = TRUE], [s.live EXCEPT !.picks = TRUE], [s.live EXCEPT !.roster = TRUE],
                        [s.live EXCEPT !.approved = TRUE], [s.live EXCEPT !.answers = n], s.live},
             NEW k \in {[s.kept EXCEPT !.ended = TRUE], [s.kept EXCEPT !.slate = TRUE], [s.kept EXCEPT !.task = TRUE],
                        [s.kept EXCEPT !.confirmed = b], [s.kept EXCEPT !.roster = TRUE],
                        [s.kept EXCEPT !.approved = TRUE], s.kept}
      PROVE  Like(s, [s EXCEPT !.live = c, !.kept = k])
  <2> DEFINE t == [s EXCEPT !.live = c, !.kept = k]
  <2>1. c \in Discussions /\ k \in Records  BY <1>2, <1>3
  <2>2. t \in States /\ t.live = c /\ t.kept = k /\ t.asked = s.asked
    <3> HIDE DEF Discussions, Records
    <3> QED BY <2>1 DEF States
  <2> HIDE DEF t
  <2>3. Like(s, t)  BY <1>2, <1>3, <2>2 DEF Like
  <2> QED BY <2>3 DEF t
<1>5. Circle!Ended(s) = [s EXCEPT !.live = [s.live EXCEPT !.done = TRUE], !.kept = [s.kept EXCEPT !.ended = TRUE]]
  BY DEF Circle!Ended, States
<1>6. [s EXCEPT !.kept.slate = TRUE, !.live.picks = TRUE]
      = [s EXCEPT !.live = [s.live EXCEPT !.picks = TRUE], !.kept = [s.kept EXCEPT !.slate = TRUE]]
  BY DEF States
<1>7. [s EXCEPT !.kept.task = TRUE] = [s EXCEPT !.live = s.live, !.kept = [s.kept EXCEPT !.task = TRUE]]
  BY DEF States
<1>8. [s EXCEPT !.kept.confirmed = b] = [s EXCEPT !.live = s.live, !.kept = [s.kept EXCEPT !.confirmed = b]]
  BY DEF States
<1>9. [s EXCEPT !.live.roster = TRUE, !.kept.roster = TRUE]
      = [s EXCEPT !.live = [s.live EXCEPT !.roster = TRUE], !.kept = [s.kept EXCEPT !.roster = TRUE]]
  BY DEF States
<1>10. [s EXCEPT !.live.approved = TRUE, !.kept.approved = TRUE]
       = [s EXCEPT !.live = [s.live EXCEPT !.approved = TRUE], !.kept = [s.kept EXCEPT !.approved = TRUE]]
  BY DEF States
<1>11. [s EXCEPT !.live.answers = n] = [s EXCEPT !.live = [s.live EXCEPT !.answers = n], !.kept = s.kept]
  BY DEF States
<1> QED BY <1>4, <1>5, <1>6, <1>7, <1>8, <1>9, <1>10, <1>11

(* So much for the marks, then, and for the list of members.               *)
LEMMA ListKeeps ==
  ASSUME NEW back, NEW s, Sound(s, back)
  PROVE  /\ Quiet(s, Circle!Ended(s), back)
         /\ \A p \in Circle!Drafted(s) : Quiet(s, p, back)
         /\ \A empty \in BOOLEAN : \A p \in Circle!TaskSet(s, empty) : Quiet(s, p, back)
         /\ \A ok \in BOOLEAN : \A p \in Circle!SlateConfirmed(s, ok) : Quiet(s, p, back)
<1>1. ASSUME NEW u, Sound(u, back) PROVE Quiet(u, Circle!Ended(u), back)
  BY <1>1, LikeKeeps, MarksAreLike DEF Sound, Quiet
<1>2. ASSUME NEW u, Sound(u, back), NEW t, Like(u, t), NEW gate \in Gates
      PROVE  Quiet(u, Circle!AskUser(t, gate), back)
  <2>1. Sound(t, back) /\ SameTurn(u.live, t.live) /\ t.asked = u.asked  BY <1>2, LikeKeeps
  <2> QED BY <2>1, AskingKeeps DEF Quiet
<1>3. ASSUME NEW u, Sound(u, back), NEW p \in Circle!Drafted(u) PROVE Quiet(u, p, back)
  <2>1. Like(u, [u EXCEPT !.kept.slate = TRUE, !.live.picks = TRUE])  BY <1>3, MarksAreLike, Zenon DEF Sound
  <2>2. Quiet(u, Circle!AskUser([u EXCEPT !.kept.slate = TRUE, !.live.picks = TRUE], "slate"), back)
    BY <1>2, <1>3, <2>1 DEF Gates
  <2> QED BY <1>1, <1>3, <2>2 DEF Circle!Drafted
<1>4. ASSUME NEW t, Like(s, t), NEW p, Quiet(t, p, back) PROVE Quiet(s, p, back)
  <2>1. SameTurn(s.live, t.live) /\ t.asked = s.asked  BY <1>4 DEF Like
  <2> QED BY <1>4, <2>1, LikeThen DEF Quiet
<1>5. ASSUME NEW empty \in BOOLEAN, NEW p \in Circle!TaskSet(s, empty) PROVE Quiet(s, p, back)
  <2> DEFINE t == [s EXCEPT !.kept.task = TRUE]
  <2>1. Like(s, t)  BY MarksAreLike, Zenon DEF Sound
  <2>2. Sound(t, back)  BY <2>1, LikeKeeps
  <2>3. p = Circle!Ended(s) \/ p \in Circle!Drafted(t) \/ p = Circle!AskUser(t, "begin")
    BY <1>5 DEF Circle!TaskSet
  <2> HIDE DEF t
  <2>4. CASE p \in Circle!Drafted(t)  BY <1>3, <1>4, <2>1, <2>2, <2>4
  <2>5. CASE p = Circle!AskUser(t, "begin")  BY <1>2, <2>1, <2>5 DEF Gates
  <2> QED BY <1>1, <2>3, <2>4, <2>5
<1>6. ASSUME NEW ok \in BOOLEAN, NEW p \in Circle!SlateConfirmed(s, ok) PROVE Quiet(s, p, back)
  <2> DEFINE t == [s EXCEPT !.kept.confirmed = ok]
             u == [t EXCEPT !.live.roster = TRUE, !.kept.roster = TRUE]
  <2>1. Like(s, t)  BY MarksAreLike, Zenon DEF Sound
  <2>2. Sound(t, back)  BY <2>1, LikeKeeps
  <2>3. p = Circle!Ended(t) \/ p \in Circle!Drafted(t) \/ p = Circle!AskUser(u, "begin")
    BY <1>6 DEF Circle!SlateConfirmed
  <2> HIDE DEF t
  <2>4. Like(t, u)  BY <2>2, MarksAreLike, Zenon DEF Sound
  <2> HIDE DEF u
  <2>5. Quiet(t, Circle!Ended(t), back)  BY <1>1, <2>2
  <2>6. Quiet(t, Circle!AskUser(u, "begin"), back)  BY <1>2, <2>2, <2>4 DEF Gates
  <2>7. p \in Circle!Drafted(t) => Quiet(t, p, back)  BY <1>3, <2>2
  <2>8. Quiet(t, p, back)  BY <2>3, <2>5, <2>6, <2>7
  <2> QED BY <1>4, <2>1, <2>8
<1> QED BY <1>1, <1>3, <1>5, <1>6

(* The meta said what it has to say, and the discussion begins.            *)
LEMMA BegunKeeps ==
  ASSUME NEW back, NEW s, Sound(s, back), s.asked = 0, NEW allow \in BOOLEAN, NEW assembles \in BOOLEAN,
         NEW p \in Circle!Begun(s, allow, assembles)
  PROVE  Outcome(s, p, back)
<1> DEFINE c == [s.live EXCEPT !.allow = allow]
           k == [s.kept EXCEPT !.begun = TRUE, !.allow = allow, !.round = 1, !.closed = FALSE, !.agreed = {}]
           said == [s EXCEPT !.live = c, !.kept = k]
           d == [c EXCEPT !.disc = TRUE, !.phase = "opener", !.next = 1]
           opened == [said EXCEPT !.live = d]
<1>1. s \in States /\ s.live \in Discussions /\ s.kept \in Records  BY DEF Sound, States
<1>2. CASE s.live.done \/ s.live.disc
  <2>1. p = s  BY <1>2 DEF Circle!Begun
  <2> QED BY <2>1, SameIsQuiet, QuietIs
<1>3. CASE ~(s.live.done \/ s.live.disc)
  <2>2. /\ c \in Discussions /\ c.plan = s.live.plan /\ c.disc = s.live.disc /\ c.present = s.live.present
        /\ c.agreed = s.live.agreed /\ c.phase = s.live.phase /\ c.round = s.live.round
        /\ c.closed = s.live.closed /\ c.rows = s.live.rows /\ c.handed = s.live.handed
        /\ c.emitted = s.live.emitted
    BY <1>1 DEF Discussions
  <2>3. 1 \in Nat /\ 1 \in Nat \ {0}  OBVIOUS
  <2>4. /\ k \in Records /\ k.begun = TRUE /\ k.closed = FALSE /\ k.agreed = {}
        /\ k.plan = s.kept.plan /\ k.over = s.kept.over /\ k.present = s.kept.present
    BY <1>1, <2>3 DEF Records
  <2>5. /\ s.live.round = 0 /\ ~s.live.closed /\ ~s.live.plan /\ ~s.kept.plan
        /\ s.live.present = Circle!Members /\ s.kept.present = Circle!Members /\ s.live.agreed = {}
    BY <1>3 DEF Sound, Matches
  <2>6. p = said \/ p \in Circle!Pump(opened, FALSE)
    <3>1. Circle!BeginSaid(s, allow) = said  BY <1>1 DEF Circle!BeginSaid, States, Records
    <3>2. Circle!Assembled(said) = opened  BY <1>1, <2>2 DEF Circle!Assembled, States, Discussions
    <3> HIDE DEF said, opened
    <3> QED BY <1>3, <3>1, <3>2 DEF Circle!Begun
  <2>7. /\ d \in Discussions /\ d.plan = c.plan /\ d.disc = TRUE /\ d.present = c.present
        /\ d.agreed = c.agreed /\ d.phase = "opener" /\ d.round = c.round
        /\ d.closed = c.closed /\ d.rows = c.rows /\ d.handed = c.handed
        /\ d.emitted = c.emitted /\ d.next = 1
    <3> HIDE DEF c
    <3> QED BY <2>2, <2>3 DEF Discussions
  <2> HIDE DEF c, k, d
  <2>8. said \in States /\ said.live = c /\ said.kept = k /\ said.asked = 0
    BY <1>1, <2>2, <2>4 DEF States
  <2>9. opened \in States /\ opened.live = d /\ opened.kept = k /\ opened.asked = 0
    <3> HIDE DEF said
    <3> QED BY <2>7, <2>8 DEF States
  <2> HIDE DEF said, opened
  <2>10. Told(k, back)  BY <2>4, <2>5 DEF Told
  <2>11. Matches(c, k) /\ Matches(d, k)  BY <1>3, <2>2, <2>4, <2>5, <2>7 DEF Matches
  <2>12. Behind(c) /\ Behind(d)  BY <2>2, <2>7 DEF Sound, Behind
  <2>13. Sound(said, back) /\ Sound(opened, back)  BY <2>8, <2>9, <2>10, <2>11, <2>12 DEF Sound
  <2>14. ~Asking(s.live)  BY <1>3 DEF Asking
  <2>15. /\ Left(c) = Left(s.live) /\ Left(d) = Left(s.live)
         /\ Goes(s.live, c, {}) /\ Goes(s.live, d, {})
    <3>1. Left(c) = Left(s.live) /\ Left(d) = Left(s.live)  BY <2>2, <2>7 DEF Left
    <3>2. \A m \in 1..Chairs : ~(m < 1)  OBVIOUS
    <3>3. Passed(d) = {}  BY <2>7, <3>2, MembersAreNumbers DEF Passed, Left, Discussions
    <3> QED BY <1>3, <2>2, <3>1, <3>3 DEF Goes
  <2>16. CASE p = said  BY <2>8, <2>13, <2>14, <2>15, <2>16 DEF Outcome
  <2>17. CASE p \in Circle!Pump(opened, FALSE)
    <3>1. Outcome(opened, p, back)  BY <2>9, <2>13, <2>17, PumpKeeps
    <3>2. Goes(d, p.live, {}) /\ Left(p.live) = Left(d) /\ p.live \in Discussions
      BY <2>9, <3>1 DEF Outcome, Sound, States
    <3>3. Goes(s.live, p.live, {})  BY <1>1, <2>7, <2>15, <3>2, GoesThen
    <3> QED BY <2>14, <2>15, <3>1, <3>2, <3>3 DEF Outcome
  <2> QED BY <2>6, <2>16, <2>17
<1> QED BY <1>2, <1>3

(* To continue pumps, drafts, or puts a card to the user again.            *)
LEMMA ResumedKeeps ==
  ASSUME NEW back, NEW s, Sound(s, back), s.asked = 0, NEW p \in Circle!Resumed(s)
  PROVE  Outcome(s, p, back)
<1>1. \/ p = s \/ p \in Circle!Pump(s, FALSE) \/ p \in Circle!Drafted(s)
      \/ p = Circle!AskUser(s, "begin") \/ p = Circle!AskUser(s, "slate")
  <2>1. CASE s.live.done  BY <2>1 DEF Circle!Resumed
  <2>2. CASE ~s.live.done /\ s.live.disc  BY <2>2 DEF Circle!Resumed
  <2> QED BY DEF Circle!Resumed
<1>2. CASE p = s  BY <1>2, SameIsQuiet, QuietIs
<1>3. CASE p \in Circle!Pump(s, FALSE)  BY <1>3, PumpKeeps
<1>4. CASE p \in Circle!Drafted(s)  BY <1>4, ListKeeps, QuietIs
<1>5. CASE p = Circle!AskUser(s, "begin") \/ p = Circle!AskUser(s, "slate")
  <2>1. Quiet(s, p, back)  BY <1>5, AskingKeeps DEF Gates, Quiet, SameTurn
  <2> QED BY <2>1, QuietIs
<1> QED BY <1>1, <1>2, <1>3, <1>4, <1>5

(* An answer of the user takes effect.                                     *)
LEMMA DisposedKeeps ==
  ASSUME NEW back, NEW s, Sound(s, back), s.asked = 0, NEW gate \in Gates, NEW p \in Circle!Disposed(s, gate)
  PROVE  Outcome(s, p, back)
<1>5. s \in States /\ s.live.answers \in Nat  BY DEF Sound, States, Discussions
<1>1. CASE gate = "slate"
  <2>1. PICK ok \in BOOLEAN : p \in Circle!SlateConfirmed(s, ok)  BY <1>1 DEF Circle!Disposed
  <2>2. Quiet(s, p, back)  BY <2>1, ListKeeps
  <2> QED BY <2>2, QuietIs
<1>2. CASE gate = "begin"
  <2>1. PICK allow \in BOOLEAN, assembles \in BOOLEAN : p \in Circle!Begun(s, allow, assembles)
    BY <1>2 DEF Circle!Disposed
  <2> QED BY <2>1, BegunKeeps
<1>3. CASE gate = "ask"
  <2> DEFINE n == s.live.answers + IF s.live.disc THEN 1 ELSE 0
             t == [s EXCEPT !.live.answers = n]
  <2>1. p \in Circle!Pump(t, FALSE)
    <3>1. p \in Circle!Answered(s)  BY <1>3 DEF Circle!Disposed
    <3> QED BY <1>5, <3>1 DEF Circle!Answered, States, Discussions
  <2>2. n \in Nat  BY <1>5
  <2> HIDE DEF n
  <2>3. Like(s, t)  BY <1>5, <2>2, MarksAreLike, Zenon
  <2> HIDE DEF t
  <2>4. Sound(t, back) /\ SameTurn(s.live, t.live) /\ t.asked = 0  BY <2>3, LikeKeeps
  <2>5. Outcome(t, p, back)  BY <2>1, <2>4, PumpKeeps
  <2> QED BY <2>4, <2>5, LikeThen
<1>4. CASE gate = "plan"
  <2> DEFINE t == [s EXCEPT !.live.approved = TRUE, !.kept.approved = TRUE]
  <2>1. p \in Circle!Resumed(t) \/ p = Circle!AskUser(s, "plan")
    BY <1>4 DEF Circle!Disposed, Circle!Judged, Circle!Approved
  <2>2. Like(s, t)  BY <1>5, MarksAreLike, Zenon
  <2> HIDE DEF t
  <2>3. Sound(t, back) /\ SameTurn(s.live, t.live) /\ t.asked = 0  BY <2>2, LikeKeeps
  <2>4. CASE p \in Circle!Resumed(t)
    <3>1. Outcome(t, p, back)  BY <2>3, <2>4, ResumedKeeps
    <3> QED BY <2>3, <3>1, LikeThen
  <2>5. CASE p = Circle!AskUser(s, "plan")
    <3>1. Quiet(s, p, back)  BY <2>5, AskingKeeps DEF Gates, Quiet, SameTurn
    <3> QED BY <3>1, QuietIs
  <2> QED BY <2>1, <2>4, <2>5
<1> QED BY <1>1, <1>2, <1>3, <1>4 DEF Gates

(* The count of reminders is of the round, and the talk as it was.         *)
LEMMA CountedIs ==
  ASSUME NEW c \in Discussions, NEW m \in Circle!Members
  PROVE  LET d == Circle!Counted(c)
         IN /\ SameTalk(c, d) /\ d.next = c.next /\ d.remindRound = d.round
            /\ c.remindRound = c.round => d.reminded[m] = c.reminded[m]
            /\ d.reminded[m] \in 0..Patience
<1> DEFINE none == [n \in Circle!Members |-> 0]
           d == Circle!Counted(c)
<1> SUFFICES /\ SameTalk(c, d) /\ d.next = c.next /\ d.remindRound = d.round
             /\ c.remindRound = c.round => d.reminded[m] = c.reminded[m]
             /\ d.reminded[m] \in 0..Patience
  OBVIOUS
<1>1. none \in [Circle!Members -> 0..Patience]  BY MembersAreNumbers
<1>2. CASE c.round = c.remindRound
  <2>1. d = c  BY <1>2 DEF Circle!Counted
  <2> HIDE DEF d
  <2> QED BY <1>2, <2>1 DEF SameTalk, Discussions
<1>3. CASE c.round # c.remindRound
  <2>1. d = [c EXCEPT !.reminded = none, !.remindRound = c.round]  BY <1>3 DEF Circle!Counted
  <2> HIDE DEF d, none
  <2>2. SameTalk(c, d) /\ d.next = c.next /\ d.remindRound = c.round /\ d.reminded = none
    BY <1>1, <2>1 DEF SameTalk, Discussions
  <2> QED BY <1>1, <1>3, <2>2 DEF SameTalk
<1> QED BY <1>2, <1>3

\* A member is reminded for the n-th time.
RemindedTo(c, m, n) == [c EXCEPT !.reminded[m] = n]

(* The reminders of one member, and the cursor, are replaced.              *)
LEMMA RemindedToIs ==
  ASSUME NEW c \in Discussions, NEW m \in Circle!Members, NEW n \in 0..Patience
  PROVE  LET d == RemindedTo(c, m, n)
         IN SameTalk(c, d) /\ d.next = c.next /\ d.reminded[m] = n /\ d.remindRound = c.remindRound
<1> DEFINE r == [c.reminded EXCEPT ![m] = n]
           d == [c EXCEPT !.reminded = r]
<1>1. r \in [Circle!Members -> 0..Patience] /\ r[m] = n  BY DEF Discussions
<1>2. d = RemindedTo(c, m, n)  BY DEF Discussions, RemindedTo
<1> HIDE DEF r
<1>3. SameTalk(c, d) /\ d.next = c.next /\ d.reminded = r /\ d.remindRound = c.remindRound
  BY <1>1 DEF SameTalk, Discussions
<1> HIDE DEF d
<1> QED BY <1>1, <1>2, <1>3

(* The cursor moves past a member.                                         *)
LEMMA MovedIs ==
  ASSUME NEW c \in Discussions, NEW m \in Circle!Members
  PROVE  SameTalk(c, Circle!Moved(c, m)) /\ Circle!Moved(c, m).next = m + 1
<1>1. m + 1 \in Nat \ {0}  BY MembersAreNumbers
<1> QED BY <1>1 DEF Circle!Moved, SameTalk, Discussions

(* Sameness of talk is enough for what is on record.                       *)
LEMMA TalkKeeps ==
  ASSUME NEW back, NEW s, Sound(s, back), NEW d, SameTalk(s.live, d)
  PROVE  LET t == [s EXCEPT !.live = d]
         IN /\ Sound(t, back) /\ t.live = d /\ t.kept = s.kept /\ t.asked = s.asked
            /\ NoVotes(s.live) => NoVotes(d)
            /\ Asking(s.live) /\ d.next = s.live.next => Asking(d)
<1> DEFINE t == [s EXCEPT !.live = d]
<1>1. d \in Discussions /\ s \in States  BY DEF Sound, SameTalk
<1>2. t \in States /\ t.live = d /\ t.kept = s.kept /\ t.asked = s.asked  BY <1>1 DEF States
<1> HIDE DEF t
<1>3. Behind(d) /\ (NoVotes(s.live) => NoVotes(d))  BY DEF Sound, SameTalk, Behind, NoVotes
<1>4. Matches(d, s.kept)  BY DEF Sound, SameTalk, Matches, Circle!ClosedByRecord
<1>5. Asking(s.live) /\ d.next = s.live.next => Asking(d)
  BY DEF SameTalk, Asking, Waiting, Circle!Waits
<1>6. Sound(t, back)  BY <1>2, <1>3, <1>4 DEF Sound
<1> QED BY <1>2, <1>3, <1>5, <1>6 DEF t

(* A word is taken in.                                                     *)
LEMMA AbsorbedKeeps ==
  ASSUME NEW back, NEW s, Sound(s, back), NoVotes(s.live), s.asked = 0, Asking(s.live), halt \in BOOLEAN,
         NEW verb \in Circle!Verbs, NEW p \in Circle!Absorbed(s, s.live.next, verb)
  PROVE  Fine(p, back) /\ Goes(s.live, p.live, {s.live.next})
<1> DEFINE fed == Circle!PushDelta(Circle!Fed(s, s.live.next, verb))
<1>1. Sound(fed, back) /\ fed.asked = 0 /\ Goes(s.live, fed.live, {s.live.next})  BY FedKeeps
<1>2. p = Circle!AskUser(fed, "ask") \/ p \in Circle!Pump(fed, halt)  BY DEF Circle!Absorbed
<1> HIDE DEF fed
<1>3. CASE p = Circle!AskUser(fed, "ask")  BY <1>1, <1>3, AskingKeeps DEF Gates, Fine
<1>4. CASE p \in Circle!Pump(fed, halt)
  <2>1. Outcome(fed, p, back)  BY <1>1, <1>4, PumpKeeps
  <2>2. s.live \in Discussions /\ fed.live \in Discussions /\ p.live \in Discussions
    BY <1>1, <2>1 DEF Outcome, Sound, States
  <2>3. Goes(s.live, p.live, {s.live.next})  BY <1>1, <2>1, <2>2, GoesThen DEF Outcome
  <2> QED BY <2>1, <2>3 DEF Outcome, Fine
<1> QED BY <1>2, <1>3, <1>4

\* A turn without a word, of member m at the cursor: c goes on as d.
SilentTurn(c, p, m, back) ==
  /\ Fine(p, back) /\ Goes(c, p.live, {m})
  /\ p.asked = m /\ p.live.round = c.round =>
       /\ p.live.next = m /\ Asking(p.live) /\ p.live.remindRound = p.live.round
       /\ c.remindRound = c.round => p.live.reminded[m] = c.reminded[m] + 1
       /\ p.live.reminded[m] \in Nat \ {0}

(* Nothing is said: whoever is asked again was reminded once more.         *)
LEMMA UnansweredKeeps ==
  ASSUME NEW back, NEW s, Sound(s, back), NoVotes(s.live), s.asked = 0, Asking(s.live), halt \in BOOLEAN,
         NEW m \in Circle!Members, m = s.live.next, NEW p \in Circle!Unanswered(s, m)
  PROVE  SilentTurn(s.live, p, m, back)
<1> DEFINE c == Circle!Counted(s.live)
           n == c.reminded[m]
<1>1. s \in States /\ s.live \in Discussions  BY DEF Sound, States
<1>2. m \in Nat /\ m # 0 /\ Patience \in Nat  BY MembersAreNumbers
<1>3. /\ SameTalk(s.live, c) /\ c.next = m /\ c.remindRound = c.round /\ n \in 0..Patience
      /\ s.live.remindRound = s.live.round => n = s.live.reminded[m]
  BY <1>1, CountedIs
<1>4. c \in Discussions  BY <1>3 DEF SameTalk
<1>5. CASE n < Patience
  <2> DEFINE q == n + 1
             d == RemindedTo(c, m, q)
             t == [s EXCEPT !.live = d]
  <2>1. Circle!Reminded(s, m) = d  BY <1>4, <1>5 DEF Circle!Reminded, RemindedTo, Discussions
  <2> HIDE DEF c
  <2>2. q \in 0..Patience /\ q \in Nat \ {0}  BY <1>2, <1>3, <1>5
  <2>13. q = n + 1  OBVIOUS
  <2> HIDE DEF q
  <2>3. SameTalk(c, d) /\ d.next = c.next /\ d.reminded[m] = q /\ d.remindRound = c.remindRound
    BY <1>4, <2>2, RemindedToIs
  <2> HIDE DEF d, n
  <2>4. SameTalk(s.live, d)  BY <1>3, <2>3 DEF SameTalk
  <2>5. Sound(t, back) /\ t.live = d /\ t.asked = 0 /\ Asking(d)
    BY <1>3, <2>3, <2>4, TalkKeeps
  <2>6. ~(d.next > m)  BY <1>2, <1>3, <2>3
  <2>7. p \in Circle!Pump(t, halt)  BY <2>1, <2>6 DEF Circle!Unanswered
  <2> HIDE DEF t
  <2>8. Outcome(t, p, back)  BY <2>5, <2>7, PumpKeeps
  <2>9. SameTurn(d, p.live)  BY <2>5, <2>8 DEF Outcome
  <2>10. Asking(p.live)  BY <2>5, <2>9 DEF SameTurn, Asking, Waiting, Circle!Waits
  <2>11. p.live.next = m /\ p.live.remindRound = p.live.round /\ p.live.reminded[m] = q
    BY <1>3, <2>3, <2>9 DEF SameTurn, SameTalk
  <2>12. Fine(p, back)  BY <2>8 DEF Outcome, Fine
  <2>14. SameTurn(d, p.live) /\ d \in Discussions /\ d.next = s.live.next  BY <1>3, <2>3, <2>9 DEF SameTalk
  <2>15. Goes(s.live, p.live, {m})
    <3>1. Goes(d, p.live, {m})  BY <2>14, SameGoes
    <3>2. Passed(d) = Passed(s.live)  BY <2>4, <2>14 DEF SameTalk, Passed, Left
    <3> QED BY <2>4, <3>1, <3>2 DEF SameTalk, Goes, Passes
  <2> QED BY <1>3, <2>2, <2>13, <2>10, <2>11, <2>12, <2>15 DEF SilentTurn
<1>6. CASE ~(n < Patience)
  <2> DEFINE e == RemindedTo(c, m, 0)
             d == Circle!Moved(e, m)
             line == Append(d.rows, Circle!Row("passed", m))
             f == [d EXCEPT !.rows = line]
             t == [s EXCEPT !.live = f]
  <2>1. Circle!Reminded(s, m) = d  BY <1>6 DEF Circle!Reminded, RemindedTo
  <2> HIDE DEF c
  <2>2. 0 \in 0..Patience  BY <1>2
  <2>3. SameTalk(c, e) /\ e \in Discussions
    <3>1. SameTalk(c, e)  BY <1>4, <2>2, RemindedToIs
    <3> HIDE DEF e
    <3> QED BY <3>1 DEF SameTalk
  <2> HIDE DEF e
  <2>4. SameTalk(e, d) /\ d.next = m + 1  BY <2>3, MovedIs
  <2> HIDE DEF d
  <2>5. SameTalk(s.live, d)  BY <1>3, <2>3, <2>4 DEF SameTalk
  <2>6. d \in Discussions /\ d.rows \in Seq(Lines) /\ d.rows = s.live.rows  BY <2>5 DEF SameTalk, Discussions
  <2>7. /\ line \in Seq(Lines) /\ Len(line) = Len(d.rows) + 1 /\ DOMAIN line = 1..Len(d.rows) + 1
        /\ \A l \in 1..Len(d.rows) : line[l] = d.rows[l] /\ DOMAIN d.rows = 1..Len(d.rows)
        /\ line[Len(d.rows) + 1].verb = "passed"
    BY <1>2, <2>6, LineAdded
  <2> HIDE DEF line
  <2>8. /\ f \in Discussions /\ f.rows = line /\ f.next = m + 1 /\ f.disc = s.live.disc /\ f.round = s.live.round
        /\ f.phase = s.live.phase /\ f.present = s.live.present /\ f.agreed = s.live.agreed
        /\ f.closed = s.live.closed /\ f.plan = s.live.plan /\ f.handed = s.live.handed
    BY <2>4, <2>5, <2>6, <2>7 DEF SameTalk, Discussions
  <2>10. p \in Circle!Pump(Circle!PushDelta(t), halt)
    <3>1. d.next > m  BY <1>2, <2>4
    <3> QED BY <2>1, <3>1 DEF Circle!Unanswered, f, line, t
  <2> HIDE DEF f
  <2>11. t \in States /\ t.live = f /\ t.kept = s.kept /\ t.asked = 0  BY <1>1, <2>8 DEF States
  <2>12. Due(f)
    <3>1. \A l \in DOMAIN f.rows : ~Vote(f.rows[l])
      <4>1. ASSUME NEW l \in DOMAIN f.rows PROVE ~Vote(f.rows[l])
        <5>1. l \in 1..Len(d.rows) \/ l = Len(d.rows) + 1  BY <2>6, <2>7, <2>8
        <5>2. CASE l \in 1..Len(d.rows)
          <6>1. f.rows[l] = s.live.rows[l] /\ l \in DOMAIN s.live.rows  BY <2>6, <2>7, <2>8, <5>2
          <6> QED BY <6>1 DEF NoVotes
        <5>3. CASE l = Len(d.rows) + 1  BY <2>7, <2>8, <5>3 DEF Vote
        <5> QED BY <5>1, <5>2, <5>3
      <4> QED BY <4>1
    <3>2. s.live.handed =< Len(d.rows) /\ s.live.handed \in Nat /\ Len(d.rows) \in Nat
      <4>1. s.live.handed \in Nat  BY <1>1 DEF Discussions
      <4>2. s.live.handed =< Len(s.live.rows)  BY DEF Sound, Behind
      <4> QED BY <2>6, <4>1, <4>2
    <3>3. f.handed =< Len(f.rows)  BY <2>7, <2>8, <3>2
    <3> QED BY <3>1, <3>3 DEF Due
  <2>13. Matches(f, s.kept)  BY <2>8 DEF Sound, Matches, Circle!ClosedByRecord
  <2> HIDE DEF t
  <2> DEFINE u == Circle!PushDelta(t)
  <2>14. Sound(u, back) /\ u.asked = 0 /\ SameTurn(f, u.live)
    BY <2>8, <2>11, <2>12, <2>13, PushKeeps DEF Asking, Waiting, Sound
  <2> HIDE DEF u
  <2>15. /\ Outcome(u, p, back)
         /\ p.asked # 0 /\ u.live.phase # "fresh" /\ p.live.round = u.live.round => p.asked >= u.live.next
    BY <2>10, <2>14, PumpKeeps DEF u
  <2>16. u.live.phase # "fresh" /\ u.live.round = s.live.round /\ u.live.next = m + 1
    BY <2>8, <2>14 DEF SameTurn, Asking, Waiting
  <2>17. ~(p.asked = m /\ p.live.round = s.live.round)
    <3>1. ~(m >= m + 1)  BY <1>2
    <3> QED BY <1>2, <2>15, <2>16, <3>1
  <2>18. Fine(p, back)  BY <2>15 DEF Outcome, Fine
  <2>19. Goes(s.live, p.live, {m})
    <3>1. Goes(s.live, f, {m})  BY <1>1, <2>8, PassesOne DEF Asking
    <3>2. u.live \in Discussions /\ p.live \in Discussions  BY <2>14, <2>15 DEF Outcome, Sound, States
    <3>3. Goes(f, u.live, {}) /\ Left(u.live) = Left(f)  BY <2>8, <2>14, SameGoes
    <3>4. Goes(s.live, u.live, {m})  BY <1>1, <2>8, <3>1, <3>2, <3>3, GoesThen
    <3> QED BY <1>1, <2>15, <3>2, <3>4, GoesThen DEF Outcome
  <2> QED BY <2>17, <2>18, <2>19 DEF SilentTurn
<1> QED BY <1>5, <1>6

(* What is behind both counts is forgotten, and with it every vote.        *)
LEMMA TrimmedIs ==
  ASSUME NEW c \in Discussions, Behind(c)
  PROVE  LET d == Circle!Trimmed(c)
         IN d \in Discussions /\ Behind(d) /\ NoVotes(d) /\ SameTurn(c, d) /\ d.plan = c.plan
<1> DEFINE n == IF c.handed < c.emitted THEN c.handed ELSE c.emitted
           more == SubSeq(c.rows, n + 1, Len(c.rows))
           h == c.handed - n
           e == c.emitted - n
           d == Circle!Trimmed(c)
<1> SUFFICES d \in Discussions /\ Behind(d) /\ NoVotes(d) /\ SameTurn(c, d) /\ d.plan = c.plan
  OBVIOUS
<1>1. c.rows \in Seq(Lines) /\ c.handed \in Nat /\ c.emitted \in Nat  BY DEF Discussions
<1>2. PICK r \in Nat : r = Len(c.rows)  BY <1>1
<1>3. n \in Nat /\ h \in Nat /\ e \in Nat /\ n =< r /\ h =< r - n
  BY <1>1, <1>2 DEF Behind
<1>4. n \in {c.handed, c.emitted}  OBVIOUS
<1>5. d = [c EXCEPT !.rows = more, !.handed = h, !.emitted = e]
  BY DEF Circle!Trimmed, Discussions
<1> HIDE DEF n, h, e
<1>6. /\ more \in Seq(Lines)
      /\ \A j \in DOMAIN more : n + j \in DOMAIN c.rows /\ n + j > n /\ more[j] = c.rows[n + j]
      /\ n =< Len(c.rows) => Len(more) = Len(c.rows) - n
  BY <1>1, <1>3, RestIs
<1> HIDE DEF more, d
<1>7. d \in Discussions /\ SameTurn(c, d) /\ d.plan = c.plan /\ d.rows = more /\ d.handed = h
  BY <1>3, <1>5, <1>6 DEF Discussions, SameTurn
<1>8. NoVotes(d)
  <2>1. ASSUME NEW j \in DOMAIN more, Vote(more[j]) PROVE FALSE
    <3>1. n + j \in DOMAIN c.rows /\ n + j > n /\ Vote(c.rows[n + j])  BY <1>6, <2>1
    <3>2. n + j =< c.handed /\ n + j =< c.emitted  BY <3>1 DEF Behind
    <3>3. n + j \in Nat  BY <1>1, <3>1
    <3> QED BY <1>1, <1>3, <1>4, <3>1, <3>2, <3>3
  <2> QED BY <1>7, <2>1 DEF NoVotes
<1>9. Behind(d)
  <2>1. h =< Len(more)  BY <1>2, <1>3, <1>6
  <2> QED BY <1>7, <1>8, <2>1 DEF Behind, NoVotes
<1> QED BY <1>7, <1>8, <1>9

(* A session is rebuilt: it goes by the record, and is at no turn.         *)
LEMMA RestoredIs ==
  ASSUME NEW back, NEW k, Told(k, back)
  PROVE  LET d == Circle!Restored(k) IN /\ d \in Discussions /\ Behind(d) /\ NoVotes(d) /\ Matches(d, k)
                                        /\ d.phase = "fresh"
<1> DEFINE o == Circle!Object(k)
           none == [m \in Circle!Members |-> 0]
           w == IF k.round = 0 THEN 1 ELSE k.round
           b == Circle!ClosedByRecord(k)
           d == Circle!Restored(k)
<1> SUFFICES d \in Discussions /\ Behind(d) /\ NoVotes(d) /\ Matches(d, k) /\ d.phase = "fresh"
  OBVIOUS
<1>1. k \in Records /\ k.begun \in BOOLEAN /\ k.closed \in BOOLEAN  BY DEF Told, Records
<1>2. none \in [Circle!Members -> 0..Patience]  BY MembersAreNumbers
<1>3. <<>> \in Seq(Lines) /\ Len(<<>>) = 0 /\ DOMAIN <<>> = {}  BY EmptySeq
<1>4. 1 \in Nat \ {0} /\ 0 \in Nat /\ w \in Nat  BY <1>1 DEF Records
<1>5. b \in BOOLEAN  BY <1>1 DEF Circle!ClosedByRecord
<1>6. /\ o \in Discussions /\ o.plan = k.plan /\ o.disc = FALSE /\ o.present = Circle!Members
      /\ o.agreed = {} /\ o.phase = "fresh" /\ o.closed = FALSE /\ o.rows = <<>>
  <2> HIDE DEF none
  <2>1. o = [here |-> TRUE, roster |-> k.roster, picks |-> FALSE, plan |-> k.plan, approved |-> k.approved,
             done |-> k.ended, allow |-> k.allow, disc |-> FALSE, present |-> Circle!Members, agreed |-> {},
             round |-> 0, phase |-> "fresh", next |-> 1, closed |-> FALSE, answers |-> 0,
             reminded |-> none, remindRound |-> 0, rows |-> <<>>, handed |-> 0, emitted |-> 0]
    BY DEF Circle!Object, none
  <2> HIDE DEF o
  <2>2. o \in Discussions  BY <1>1, <1>2, <1>3, <1>4, <2>1 DEF Discussions, Records
  <2> QED BY <2>1, <2>2
<1>7. o.round = 0 /\ o.handed = 0 /\ o.emitted = 0  BY DEF Circle!Object
<1>8. CASE ~k.begun
  <2>1. d = o  BY <1>8 DEF Circle!Restored
  <2> HIDE DEF o, d
  <2>2. Behind(d) /\ NoVotes(d)  BY <1>3, <1>6, <1>7, <2>1 DEF Behind, NoVotes
  <2>3. Matches(d, k)  BY <1>6, <1>7, <1>8, <2>1 DEF Told, Matches
  <2> QED BY <1>6, <2>1, <2>2, <2>3
<1>9. CASE k.begun
  <2>1. d = [o EXCEPT !.disc = TRUE, !.present = k.present, !.agreed = k.agreed, !.round = w, !.closed = b]
    BY <1>9 DEF Circle!Restored
  <2> HIDE DEF o, d, w, b
  <2>2. k.present \in SUBSET Circle!Members /\ k.agreed \in SUBSET Circle!Members  BY <1>1 DEF Records
  <2>3. /\ d \in Discussions /\ d.disc = TRUE /\ d.present = k.present /\ d.agreed = k.agreed
        /\ d.closed = b /\ d.plan = o.plan /\ d.phase = o.phase /\ d.rows = o.rows
    BY <1>4, <1>5, <1>6, <2>1, <2>2 DEF Discussions
  <2>4. d.handed = 0 /\ d.emitted = 0  BY <1>6, <1>7, <2>1 DEF Discussions
  <2>5. Behind(d) /\ NoVotes(d)  BY <1>3, <1>6, <2>3, <2>4 DEF Behind, NoVotes
  <2>6. Matches(d, k)  BY <1>6, <1>9, <2>3 DEF Matches, b
  <2> QED BY <1>6, <2>3, <2>5, <2>6
<1> QED BY <1>1, <1>8, <1>9

(* The queue that is open after a rebuild is one of cards.                 *)
LEMMA GatesAreKept ==
  ASSUME NEW k, NEW cards \in Seq(Gates)
  PROVE  Circle!DerivedGates(k, cards) \in Seq(Gates)
<1>1. <<>> \in Seq(Gates) /\ <<"slate">> \in Seq(Gates) /\ <<"begin">> \in Seq(Gates)  BY DEF Gates
<1> QED BY <1>1 DEF Circle!DerivedGates

(* What an action that loads the session has to do with.                   *)
LEMMA LoadedIs ==
  ASSUME CircleInv
  PROVE  /\ Sound(Circle!Loaded, tookBack) /\ NoVotes(Circle!Loaded.live)
         /\ Circle!Loaded.asked = 0 /\ Circle!Loaded.kept = kept
         /\ circle.here => circle \in Discussions /\ circle # Circle!Gone /\ Circle!Loaded = Circle!Now
                           /\ Circle!Loaded.live = circle
         /\ ~circle.here => circle = Circle!Gone /\ mute = 0 /\ asked = 0 /\ Passed(Circle!Loaded.live) = {}
<1> DEFINE s == Circle!Loaded
<1>1. circle \in Discussions => circle.here /\ circle # Circle!Gone
  <2>1. circle \in Discussions => circle.here = TRUE  BY DEF Discussions
  <2>2. Circle!Gone.here = FALSE  BY DEF Circle!Gone
  <2> QED BY <2>1, <2>2
<1>2. Circle!Now = [live |-> circle, kept |-> kept, open |-> open, asked |-> 0, twice |-> twice]
  BY DEF Circle!Now
<1>3. kept \in Records /\ 0 \in 0..Chairs /\ open \in Seq(Gates) /\ twice \in BOOLEAN
  BY MembersAreNumbers DEF CircleInv, Told
<1>4. CASE circle.here
  <2>1. circle \in Discussions /\ Behind(circle) /\ NoVotes(circle) /\ Matches(circle, kept)
    BY <1>4 DEF CircleInv, Circle!Gone
  <2>2. s = Circle!Now  BY <1>4 DEF Circle!Loaded
  <2> HIDE DEF s
  <2>3. s \in States /\ s.live = circle /\ s.kept = kept /\ s.asked = 0
    BY <1>2, <1>3, <2>1, <2>2 DEF States
  <2>4. Sound(s, tookBack)  BY <2>1, <2>3 DEF Sound, CircleInv
  <2> QED BY <1>1, <1>4, <2>1, <2>2, <2>3, <2>4 DEF s
<1>5. CASE ~circle.here
  <2> DEFINE d == Circle!Restored(kept)
             o == Circle!DerivedGates(kept, open)
  <2>1. circle = Circle!Gone /\ mute = 0 /\ asked = 0  BY <1>1, <1>5 DEF CircleInv
  <2>2. d \in Discussions /\ Behind(d) /\ NoVotes(d) /\ Matches(d, kept) /\ d.phase = "fresh"
    BY RestoredIs DEF CircleInv
  <2>3. o \in Seq(Gates)  BY <1>3, GatesAreKept
  <2>4. s = [Circle!Now EXCEPT !.live = d, !.open = o]  BY <1>5 DEF Circle!Loaded
  <2> HIDE DEF s, d, o
  <2>5. s = [live |-> d, kept |-> kept, open |-> o, asked |-> 0, twice |-> twice]  BY <1>2, <2>4
  <2>6. s \in States /\ s.live = d /\ s.kept = kept /\ s.asked = 0
    BY <1>3, <2>2, <2>3, <2>5 DEF States
  <2>7. Sound(s, tookBack)  BY <2>2, <2>6 DEF Sound, CircleInv
  <2>8. Passed(s.live) = {}  BY <2>2, <2>6 DEF Passed
  <2> QED BY <1>5, <2>1, <2>2, <2>6, <2>7, <2>8 DEF s
<1> QED BY <1>4, <1>5

(* A sound state becomes the next one.                                     *)
LEMMA BecomesKeeps ==
  ASSUME CircleInv, NEW s, Fine(s, tookBack'), Circle!Becomes(s),
         ticket' \in Gates \union {"none"}, mute' \in Nat,
         mute' # 0 => /\ Asking(s.live) /\ s.live.remindRound = s.live.round
                      /\ mute' =< s.live.reminded[s.live.next],
         s.live.disc => Passed(s.live) \subseteq heard',
         circle.here /\ circle.disc /\ s.live.round > circle.round => Left(s.live) \subseteq heard \union {asked}
  PROVE  CircleGoesOn
<1> DEFINE d == Circle!Trimmed(s.live)
<1>1. Sound(s, tookBack') /\ (s.asked # 0 => Asking(s.live) /\ s.asked = s.live.next)  BY DEF Fine
<1>2. s \in States /\ Behind(s.live) /\ Matches(s.live, s.kept) /\ Told(s.kept, tookBack')
  BY <1>1 DEF Sound
<1>3. /\ s.live \in Discussions /\ s.kept \in Records /\ s.open \in Seq(Gates)
      /\ s.asked \in 0..Chairs /\ s.twice \in BOOLEAN
  BY <1>2, StateIs
<1>4. s.live.here = TRUE  BY <1>3 DEF Discussions
<1>5. /\ circle' = d /\ kept' = s.kept /\ open' = s.open /\ asked' = s.asked /\ twice' = s.twice
      /\ halt' = (halt /\ s.asked # 0)
  BY <1>4 DEF Circle!Becomes
<1>6. d \in Discussions /\ Behind(d) /\ NoVotes(d) /\ SameTurn(s.live, d) /\ d.plan = s.live.plan
  BY <1>2, <1>3, TrimmedIs
<1> HIDE DEF d
<1>7. d # Circle!Gone
  <2>1. d.here = TRUE  BY <1>6 DEF Discussions
  <2> QED BY <2>1 DEF Circle!Gone
<1>8. Matches(d, s.kept)  BY <1>2, <1>6 DEF Matches, SameTurn, Circle!ClosedByRecord
<1>9. Asking(s.live) => Asking(d)  BY <1>6 DEF SameTurn, Asking, Waiting, Circle!Waits
<1>10. d.next = s.live.next /\ d.round = s.live.round /\ d.remindRound = s.live.remindRound
       /\ d.reminded = s.live.reminded
  BY <1>6 DEF SameTurn
<1>11. halt' \in BOOLEAN  BY <1>5 DEF CircleInv
<1>12. asked' # 0 => circle' # Circle!Gone /\ Asking(circle') /\ asked' = circle'.next
  BY <1>1, <1>5, <1>7, <1>9, <1>10
<1>13. mute' # 0 => /\ circle' # Circle!Gone /\ Asking(circle') /\ circle'.remindRound = circle'.round
                    /\ mute' =< circle'.reminded[circle'.next]
  BY <1>5, <1>7, <1>9, <1>10
<1>14. /\ Told(kept', tookBack') /\ asked' \in 0..Chairs /\ open' \in Seq(Gates) /\ twice' \in BOOLEAN
       /\ circle' \in Discussions /\ Behind(circle') /\ NoVotes(circle') /\ Matches(circle', kept')
  BY <1>2, <1>3, <1>5, <1>6, <1>8
<1>15. Passed(d) = Passed(s.live) /\ Left(d) = Left(s.live) /\ d.disc = s.live.disc
  BY <1>3, <1>6, SameGoes DEF SameTurn
<1>16. circle' # Circle!Gone /\ circle'.disc => Passed(circle') \subseteq heard'  BY <1>5, <1>15
<1>17. CircleInv'  BY <1>11, <1>12, <1>13, <1>14, <1>16 DEF CircleInv
<1>18. Circle!EveryoneIsHeard  BY <1>5, <1>10, <1>15 DEF Circle!EveryoneIsHeard, Left
<1> QED BY <1>17, <1>18 DEF CircleGoesOn

(* While the member at the cursor is the same, its reminders still count.  *)
LEMMA TurnHolds ==
  ASSUME CircleInv, NEW d, circle # Circle!Gone /\ Asking(circle) => SameTurn(circle, d)
  PROVE  mute # 0 => Asking(d) /\ d.remindRound = d.round /\ mute =< d.reminded[d.next]
<1>1. CASE mute # 0
  <2>1. /\ circle # Circle!Gone /\ Asking(circle) /\ circle.remindRound = circle.round
        /\ mute =< circle.reminded[circle.next]
    BY <1>1 DEF CircleInv
  <2>2. SameTurn(circle, d)  BY <2>1
  <2>3. Asking(d)  BY <2>1, <2>2 DEF SameTurn, Asking, Waiting, Circle!Waits
  <2> QED BY <2>1, <2>2, <2>3 DEF SameTurn
<1> QED BY <1>1

(* Where the object stays, or is gone, no round ends.                      *)
LEMMA NoRoundEnds ==
  ASSUME CircleInv, circle' = circle \/ circle' = Circle!Gone
  PROVE  Circle!EveryoneIsHeard
<1>1. circle.here => circle.round \in Nat
  <2>1. circle.here => circle \in Discussions  BY DEF CircleInv, Circle!Gone
  <2> QED BY <2>1 DEF Discussions
<1>2. ~Circle!Gone.here  BY DEF Circle!Gone
<1>3. circle.here => ~(circle.round > circle.round)  BY <1>1
<1> QED BY <1>2, <1>3 DEF Circle!EveryoneIsHeard

(* What is loaded, and what comes of it, becomes the next state.           *)
LEMMA LoadedBecomes ==
  ASSUME CircleInv, NEW p, Outcome(Circle!Loaded, p, tookBack), Circle!Becomes(p),
         ticket' \in Gates \union {"none"}, tookBack' = tookBack,
         IF circle.here /\ circle'.round = circle.round THEN UNCHANGED <<heard, mute>> ELSE Circle!NewRound
  PROVE  CircleGoesOn
<1>1. Fine(p, tookBack')  BY DEF Outcome, Fine
<1>4. (mute' = mute \/ mute' = 0) /\ (~circle.here => mute' = 0)  BY DEF Circle!NewRound
<1>5. p.live \in Discussions /\ Behind(p.live) /\ Circle!Loaded.live \in Discussions
  BY LoadedIs DEF Outcome, Sound, States
<1>6. circle'.round = p.live.round
  <2>1. p.live.here  BY <1>5 DEF Discussions
  <2>2. circle' = Circle!Trimmed(p.live)  BY <2>1 DEF Circle!Becomes
  <2> QED BY <1>5, <2>2, TrimmedIs DEF SameTurn
<1>7. Goes(Circle!Loaded.live, p.live, {})  BY DEF Outcome
<1>8. /\ p.live.disc => Passed(p.live) \subseteq heard'
      /\ circle.here /\ circle.disc /\ p.live.round > circle.round => Left(p.live) \subseteq heard \union {asked}
  <2>1. CASE circle.here /\ circle.disc
    <3>1. Circle!Loaded.live = circle /\ circle # Circle!Gone  BY <2>1, LoadedIs
    <3>2. Passes(circle, p.live, {}) /\ Passed(circle) \subseteq heard  BY <1>7, <2>1, <3>1 DEF Goes, CircleInv
    <3>3. p.live.round \in Nat /\ circle.round \in Nat  BY <1>5, <3>1 DEF Discussions
    <3>4. CASE p.live.round = circle.round
      <4>1. heard' = heard /\ ~(p.live.round > circle.round)  BY <1>6, <2>1, <3>3, <3>4
      <4> QED BY <3>2, <3>4, <4>1 DEF Passes
    <3>5. CASE p.live.round > circle.round  BY <3>2, <3>5 DEF Passes
    <3>6. p.live.round = circle.round \/ p.live.round > circle.round  BY <3>2, <3>3 DEF Passes
    <3> QED BY <3>4, <3>5, <3>6
  <2>2. CASE circle.here /\ ~circle.disc
    <3>1. Circle!Loaded.live = circle  BY <2>2, LoadedIs
    <3> QED BY <1>7, <2>2, <3>1 DEF Goes
  <2>3. CASE ~circle.here
    <3>1. Passed(Circle!Loaded.live) = {}  BY <2>3, LoadedIs
    <3>2. p.live.round \in Nat /\ Circle!Loaded.live.round \in Nat  BY <1>5 DEF Discussions
    <3>3. p.live.disc => Passed(p.live) = {}
      <4>1. CASE Circle!Loaded.live.disc
        <5>1. p.live.round = Circle!Loaded.live.round \/ p.live.round > Circle!Loaded.live.round
          BY <1>7, <3>2, <4>1 DEF Goes, Passes
        <5> QED BY <1>7, <3>1, <4>1, <5>1 DEF Goes, Passes
      <4>2. CASE ~Circle!Loaded.live.disc  BY <1>7, <4>2 DEF Goes
      <4> QED BY <4>1, <4>2
    <3> QED BY <2>3, <3>3
  <2> QED BY <2>1, <2>2, <2>3
<1>2. mute' \in Nat  BY <1>4 DEF CircleInv
<1>3. mute' # 0 => Asking(p.live) /\ p.live.remindRound = p.live.round /\ mute' =< p.live.reminded[p.live.next]
  <2>1. CASE mute' # 0
    <3>1. mute' = mute /\ circle.here  BY <1>4, <2>1
    <3>2. Circle!Loaded.live = circle  BY <3>1, LoadedIs
    <3>3. Asking(circle) => SameTurn(circle, p.live)  BY <3>2 DEF Outcome
    <3> QED BY <3>1, <3>3, TurnHolds
  <2> QED BY <2>1
<1> QED BY <1>1, <1>2, <1>3, <1>8, BecomesKeeps

(* The task is set, and the members may be drafted.                        *)
LEMMA SetTaskKeeps == ASSUME CircleInv, Circle!SetTask PROVE CircleGoesOn
<1>1. PICK empty \in BOOLEAN : \E s \in Circle!TaskSet(Circle!Now, empty) : Circle!Becomes(s)
  BY DEF Circle!SetTask
<1>2. PICK s \in Circle!TaskSet(Circle!Now, empty) : Circle!Becomes(s)  BY <1>1
<1>3. circle.here /\ ticket' = ticket /\ tookBack' = tookBack /\ mute' = mute /\ heard' = heard
  BY DEF Circle!SetTask
<1>4. Sound(Circle!Now, tookBack) /\ Circle!Now.asked = 0 /\ Circle!Loaded = Circle!Now  BY <1>3, LoadedIs
<1>5. Quiet(Circle!Now, s, tookBack)  BY <1>2, <1>4, ListKeeps
<1>6. Outcome(Circle!Loaded, s, tookBack)  BY <1>4, <1>5, QuietIs
<1>7. ticket' \in Gates \union {"none"}  BY <1>3 DEF CircleInv
<1>8. circle'.round = circle.round
  <2>1. s.live \in Discussions /\ Behind(s.live)  BY <1>5 DEF Quiet, Sound, States
  <2>2. s.live.here  BY <2>1 DEF Discussions
  <2>3. circle' = Circle!Trimmed(s.live)  BY <1>2, <2>2 DEF Circle!Becomes
  <2>4. SameTurn(circle, s.live)  BY <1>3, <1>4, <1>5, LoadedIs DEF Quiet
  <2> QED BY <2>1, <2>3, <2>4, TrimmedIs DEF SameTurn
<1> QED BY <1>2, <1>3, <1>6, <1>7, <1>8, LoadedBecomes

(* A card is taken off the queue.                                          *)
LEMMA TakeCardKeeps == ASSUME CircleInv, Circle!TakeCard PROVE CircleGoesOn
<1>1. open \in Seq(Gates) /\ open # <<>> /\ ticket' = Head(open) /\ open' = Tail(open)
  BY DEF CircleInv, Circle!TakeCard
<1>2. ticket' \in Gates /\ open' \in Seq(Gates)  BY <1>1, HeadTailProperties
<1>3. UNCHANGED <<circle, kept, asked, halt, heard, mute, tookBack, twice>>  BY DEF Circle!TakeCard
<1>4. CircleInv'  BY <1>2, <1>3 DEF CircleInv
<1> QED BY <1>3, <1>4, NoRoundEnds DEF CircleGoesOn

(* The answer takes effect, and the pump goes on from there.               *)
LEMMA DisposeKeeps == ASSUME CircleInv, Circle!Dispose PROVE CircleGoesOn
<1>1. ticket \in Gates /\ ticket' = "none" /\ tookBack' = tookBack
  BY DEF Circle!Dispose, Circle!NoTicket, CircleInv
<1>2. CASE asked # 0
  <2>1. UNCHANGED <<circle, kept, open, asked, halt, twice, heard, mute>>  BY <1>2 DEF Circle!Dispose
  <2>2. CircleInv'  BY <1>1, <2>1 DEF CircleInv
  <2> QED BY <2>1, <2>2, NoRoundEnds DEF CircleGoesOn
<1>3. CASE asked = 0
  <2>1. \E s \in Circle!Disposed(Circle!Loaded, ticket) :
          \E p \in (IF s.asked = 0 THEN Circle!Pump(s, FALSE) ELSE {s}) : Circle!Becomes(p)
    BY <1>3 DEF Circle!Dispose
  <2>2. PICK s \in Circle!Disposed(Circle!Loaded, ticket) :
          \E p \in (IF s.asked = 0 THEN Circle!Pump(s, FALSE) ELSE {s}) : Circle!Becomes(p)
    BY <2>1
  <2>3. PICK p \in (IF s.asked = 0 THEN Circle!Pump(s, FALSE) ELSE {s}) : Circle!Becomes(p)  BY <2>2
  <2>4. IF circle.here /\ circle'.round = circle.round THEN UNCHANGED <<heard, mute>> ELSE Circle!NewRound
    BY <1>3 DEF Circle!Dispose
  <2>6. Sound(Circle!Loaded, tookBack) /\ Circle!Loaded.asked = 0  BY LoadedIs
  <2>7. Outcome(Circle!Loaded, s, tookBack)  BY <1>1, <2>2, <2>6, DisposedKeeps
  <2>8. Outcome(Circle!Loaded, p, tookBack)
    <3>1. CASE s.asked = 0
      <4>1. Outcome(s, p, tookBack)  BY <2>3, <2>7, <3>1, PumpKeeps DEF Outcome
      <4> QED BY <2>6, <2>7, <4>1, OutcomeThen
    <3>2. CASE s.asked # 0
      <4>1. p = s  BY <2>3, <3>2
      <4> QED BY <2>7, <4>1
    <3> QED BY <3>1, <3>2
  <2> QED BY <1>1, <2>3, <2>4, <2>8, LoadedBecomes
<1> QED BY <1>2, <1>3

(* The user has it go on.                                                  *)
LEMMA ContinueKeeps == ASSUME CircleInv, Circle!Continue PROVE CircleGoesOn
<1>1. PICK s \in Circle!Resumed(Circle!Loaded) : Circle!Becomes(s)  BY DEF Circle!Continue
<1>2. ticket' = ticket /\ tookBack' = tookBack  BY DEF Circle!Continue
<1>3. IF circle.here /\ circle'.round = circle.round THEN UNCHANGED <<heard, mute>> ELSE Circle!NewRound
  BY DEF Circle!Continue
<1>4. Sound(Circle!Loaded, tookBack) /\ Circle!Loaded.asked = 0  BY LoadedIs
<1>5. Outcome(Circle!Loaded, s, tookBack)  BY <1>1, <1>4, ResumedKeeps
<1>6. ticket' \in Gates \union {"none"}  BY <1>2 DEF CircleInv
<1> QED BY <1>1, <1>2, <1>3, <1>5, <1>6, LoadedBecomes

\* Who was heard, after a turn.
TurnHeard ==
  heard' = (IF circle'.round # circle.round THEN {}
            ELSE IF asked' = asked \/ circle'.next = circle.next THEN heard ELSE heard \union {asked})

(* Whoever is asked is at the cursor.                                      *)
LEMMA AskedIs ==
  ASSUME CircleInv, asked # 0
  PROVE  /\ Sound(Circle!Now, tookBack) /\ NoVotes(circle) /\ Circle!Now.asked = 0 /\ Circle!Now.live = circle
         /\ Circle!Now.kept = kept /\ circle \in Discussions /\ Asking(circle) /\ circle.here
         /\ asked = circle.next /\ asked \in Circle!Members
<1>1. circle # Circle!Gone /\ Asking(circle) /\ asked = circle.next  BY DEF CircleInv
<1>2. circle \in Discussions /\ NoVotes(circle)  BY <1>1 DEF CircleInv
<1>3. circle.here = TRUE  BY <1>2 DEF Discussions
<1>4. Circle!Loaded = Circle!Now /\ Circle!Loaded.live = circle  BY <1>3, LoadedIs
<1> QED BY <1>1, <1>2, <1>3, <1>4, LoadedIs DEF Asking, Waiting

(* What comes of a turn passes nobody but the one who was asked.           *)
LEMMA TurnBecomes ==
  ASSUME CircleInv, asked # 0, NEW p, Fine(p, tookBack), Goes(circle, p.live, {asked}), Circle!Becomes(p),
         ticket' = ticket, tookBack' = tookBack, TurnHeard, mute' \in Nat,
         mute' # 0 => /\ Asking(p.live) /\ p.live.remindRound = p.live.round
                      /\ mute' =< p.live.reminded[p.live.next]
  PROVE  CircleGoesOn
<1>1. /\ circle \in Discussions /\ circle.here /\ circle.disc /\ circle # Circle!Gone
      /\ asked = circle.next /\ asked \in Circle!Members /\ Passed(circle) \subseteq heard
  BY AskedIs DEF CircleInv, Asking
<1>2. p \in States /\ p.live \in Discussions /\ Behind(p.live)  BY DEF Fine, Sound, States
<1>3. circle'.round = p.live.round /\ circle'.next = p.live.next /\ asked' = p.asked
  <2>1. p.live.here  BY <1>2 DEF Discussions
  <2>2. circle' = Circle!Trimmed(p.live) /\ asked' = p.asked  BY <2>1 DEF Circle!Becomes
  <2> QED BY <1>2, <2>2, TrimmedIs DEF SameTurn
<1>4. Passes(circle, p.live, {asked}) /\ p.live.disc  BY <1>1 DEF Goes
<1>5. p.live.round \in Nat /\ circle.round \in Nat /\ asked \in Nat
  BY <1>1, <1>2, MembersAreNumbers DEF Discussions
<1>6. Passed(p.live) \subseteq heard'
  <2>1. CASE p.live.round # circle.round
    <3>1. p.live.round > circle.round  BY <1>4, <1>5, <2>1 DEF Passes
    <3> QED BY <1>4, <3>1 DEF Passes
  <2>2. CASE p.live.round = circle.round
    <3>1. Passed(p.live) \subseteq heard \union {asked}  BY <1>1, <1>4, <2>2 DEF Passes
    <3>2. heard' = IF asked' = asked \/ p.live.next = circle.next THEN heard ELSE heard \union {asked}
      BY <1>3, <2>2 DEF TurnHeard
    <3>3. asked' = asked => p.live.next = asked  BY <1>3 DEF Fine
    <3>4. p.live.next = asked => asked \notin Passed(p.live)
      <4>1. ~(asked < asked)  BY <1>5
      <4> QED BY <4>1 DEF Passed
    <3> QED BY <1>1, <3>1, <3>2, <3>3, <3>4
  <2> QED BY <2>1, <2>2
<1>7. p.live.round > circle.round => Left(p.live) \subseteq heard \union {asked}  BY <1>1, <1>4 DEF Passes
<1>8. ticket' \in Gates \union {"none"}  BY DEF CircleInv
<1> QED BY <1>6, <1>7, <1>8, BecomesKeeps

(* A member has its word.                                                  *)
LEMMA SpeaksKeeps ==
  ASSUME CircleInv, Circle!Speaks, ticket' = ticket, tookBack' = tookBack, TurnHeard
  PROVE  CircleGoesOn
<1> DEFINE c == Circle!Counted(circle)
           d == RemindedTo(c, asked, 0)
           s == [Circle!Now EXCEPT !.live = d]
<1>1. asked # 0 /\ mute' = 0  BY DEF Circle!Speaks
<1>2. PICK verb \in Circle!Verbs :
        \E p \in Circle!Absorbed([Circle!Now EXCEPT !.live = [Circle!Counted(circle) EXCEPT !.reminded[asked] = 0]],
                                 asked, verb) : Circle!Becomes(p)
  BY DEF Circle!Speaks
<1>3. PICK p \in Circle!Absorbed(s, asked, verb) : Circle!Becomes(p)  BY <1>2 DEF RemindedTo
<1>4. SameTalk(circle, c) /\ c.next = circle.next
  BY <1>1, AskedIs, CountedIs
<1>5. c \in Discussions /\ 0 \in 0..Patience  BY <1>4, MembersAreNumbers DEF SameTalk
<1> HIDE DEF c
<1>6. SameTalk(c, d) /\ d.next = c.next  BY <1>1, <1>5, AskedIs, RemindedToIs
<1> HIDE DEF d
<1>7. SameTalk(circle, d) /\ d.next = circle.next  BY <1>4, <1>6 DEF SameTalk
<1>8. Sound(s, tookBack) /\ s.live = d /\ s.asked = 0 /\ NoVotes(d) /\ Asking(d)
  BY <1>1, <1>7, AskedIs, TalkKeeps
<1> HIDE DEF s
<1>9. halt \in BOOLEAN /\ ticket' \in Gates \union {"none"}  BY DEF CircleInv
<1>10. asked = s.live.next  BY <1>1, <1>7, <1>8, AskedIs
<1>11. Fine(p, tookBack) /\ Goes(d, p.live, {asked})  BY <1>3, <1>8, <1>9, <1>10, AbsorbedKeeps
<1>12. Goes(circle, p.live, {asked})
  <2>2. Passed(d) = Passed(circle)  BY <1>7 DEF SameTalk, Passed, Left
  <2> QED BY <1>7, <1>11, <2>2 DEF SameTalk, Goes, Passes
<1> QED BY <1>1, <1>3, <1>11, <1>12, TurnBecomes

(* The user stopped it before it had one.                                  *)
LEMMA StoppedKeeps ==
  ASSUME CircleInv, Circle!StoppedSilent, ticket' = ticket, tookBack' = tookBack, TurnHeard
  PROVE  CircleGoesOn
<1> DEFINE c == Circle!Counted(circle)
           d == Circle!Moved(c, asked)
           s == [Circle!Now EXCEPT !.live = d]
<1>1. asked # 0 /\ mute' = 0  BY DEF Circle!StoppedSilent
<1>2. PICK p \in Circle!Pump(s, TRUE) : Circle!Becomes(p)  BY DEF Circle!StoppedSilent
<1>3. SameTalk(circle, c)  BY <1>1, AskedIs, CountedIs
<1>4. c \in Discussions  BY <1>3 DEF SameTalk
<1> HIDE DEF c
<1>5. SameTalk(c, d) /\ d.next = asked + 1  BY <1>1, <1>4, AskedIs, MovedIs
<1> HIDE DEF d
<1>6. SameTalk(circle, d)  BY <1>3, <1>5 DEF SameTalk
<1>7. Sound(s, tookBack) /\ s.asked = 0 /\ s.live = d  BY <1>1, <1>6, AskedIs, TalkKeeps
<1> HIDE DEF s
<1>8. Outcome(s, p, tookBack)  BY <1>2, <1>7, PumpKeeps
<1>9. Fine(p, tookBack)  BY <1>8 DEF Outcome, Fine
<1>10. Goes(circle, p.live, {asked})
  <2>1. circle \in Discussions /\ asked \in Circle!Members /\ circle.disc /\ circle.next = asked
    BY <1>1, AskedIs DEF Asking
  <2>2. Goes(circle, d, {asked})  BY <1>5, <1>6, <2>1, PassesOne DEF SameTalk
  <2>3. d \in Discussions /\ p.live \in Discussions  BY <1>6, <1>8 DEF SameTalk, Outcome, Sound, States
  <2> QED BY <1>7, <1>8, <2>1, <2>2, <2>3, GoesThen DEF Outcome
<1> QED BY <1>1, <1>2, <1>9, <1>10, TurnBecomes

(* It has nothing to say, and is reminded or passed over.                  *)
LEMMA SilentKeeps ==
  ASSUME CircleInv, Circle!KeepsSilent, ticket' = ticket, tookBack' = tookBack, TurnHeard
  PROVE  CircleGoesOn
<1> DEFINE s == Circle!Now
<1>1. asked # 0  BY DEF Circle!KeepsSilent
<1>2. PICK p \in Circle!Unanswered(s, asked) : Circle!Becomes(p)  BY DEF Circle!KeepsSilent
<1>3. mute' = IF asked' = asked /\ circle'.round = circle.round THEN mute + 1 ELSE 0
  BY DEF Circle!KeepsSilent
<1>4. halt \in BOOLEAN /\ ticket' \in Gates \union {"none"} /\ mute \in Nat  BY DEF CircleInv
<1>5. Sound(s, tookBack) /\ s.live = circle /\ s.asked = 0 /\ NoVotes(s.live) /\ Asking(s.live)
      /\ asked \in Circle!Members /\ asked = s.live.next /\ circle \in Discussions
  BY <1>1, AskedIs
<1> HIDE DEF s
<1>6. SilentTurn(circle, p, asked, tookBack)  BY <1>2, <1>4, <1>5, UnansweredKeeps
<1>7. p.live.here = TRUE /\ p.live \in Discussions /\ Behind(p.live)
  <2>1. p \in States /\ Behind(p.live)  BY <1>6 DEF SilentTurn, Fine, Sound
  <2>2. p.live \in Discussions  BY <2>1, StateIs
  <2> QED BY <2>1, <2>2 DEF Discussions
<1>8. asked' = p.asked /\ circle' = Circle!Trimmed(p.live)  BY <1>2, <1>7 DEF Circle!Becomes
<1>9. circle'.round = p.live.round  BY <1>7, <1>8, TrimmedIs DEF SameTurn
<1>10. mute' \in Nat  BY <1>3, <1>4
<1>11. mute' # 0 => /\ Asking(p.live) /\ p.live.remindRound = p.live.round
                    /\ mute' =< p.live.reminded[p.live.next]
  <2>1. CASE mute' # 0
    <3>1. p.asked = asked /\ p.live.round = s.live.round /\ mute' = mute + 1
      BY <1>3, <1>5, <1>8, <1>9, <2>1
    <3>2. mute # 0 => s.live.remindRound = s.live.round /\ mute =< s.live.reminded[asked]
      BY <1>5 DEF CircleInv
    <3>3. s.live.reminded[asked] \in Nat
      <4>1. s.live.reminded[asked] \in 0..Patience  BY <1>5 DEF Discussions
      <4> QED BY <4>1, MembersAreNumbers
    <3>4. mute' =< p.live.reminded[asked]
      <4>1. CASE mute = 0  BY <1>5, <1>6, <3>1, <4>1 DEF SilentTurn
      <4>2. CASE mute # 0  BY <1>4, <1>5, <1>6, <3>1, <3>2, <3>3, <4>2 DEF SilentTurn
      <4> QED BY <4>1, <4>2
    <3> QED BY <1>5, <1>6, <3>1, <3>4 DEF SilentTurn
  <2> QED BY <2>1
<1> QED BY <1>1, <1>2, <1>6, <1>10, <1>11, TurnBecomes DEF SilentTurn

(* The turn breaks off, and nothing follows.                               *)
LEMMA BrokenKeeps ==
  ASSUME CircleInv, Circle!BreaksOff, ticket' = ticket, tookBack' = tookBack, TurnHeard
  PROVE  CircleGoesOn
<1>1. asked # 0 /\ Circle!Becomes(Circle!Now) /\ mute' = mute  BY DEF Circle!BreaksOff
<1>2. Sound(Circle!Now, tookBack) /\ Circle!Now.live = circle /\ Circle!Now.asked = 0  BY <1>1, AskedIs
<1>3. Fine(Circle!Now, tookBack)  BY <1>2 DEF Fine
<1>4. SameTurn(circle, circle)  BY DEF SameTurn
<1>5. mute' # 0 => Asking(circle) /\ circle.remindRound = circle.round /\ mute' =< circle.reminded[circle.next]
  BY <1>1, <1>4, TurnHolds
<1>6. mute' \in Nat  BY <1>1 DEF CircleInv
<1>7. Goes(circle, Circle!Now.live, {asked})  BY <1>1, <1>2, <1>4, AskedIs, SameGoes
<1> QED BY <1>1, <1>2, <1>3, <1>5, <1>6, <1>7, TurnBecomes

(* A turn comes back in one of these ways.                                 *)
LEMMA TurnKeeps == ASSUME CircleInv, Circle!Turn PROVE CircleGoesOn
<1>1. ticket' = ticket /\ tookBack' = tookBack /\ TurnHeard  BY DEF Circle!Turn, TurnHeard
<1>2. Circle!Speaks \/ Circle!StoppedSilent \/ Circle!KeepsSilent \/ Circle!BreaksOff  BY DEF Circle!Turn
<1> QED BY <1>1, <1>2, SpeaksKeeps, StoppedKeeps, SilentKeeps, BrokenKeeps

(* An agreement is taken back: what was closed on it is known to lack it.  *)
LEMMA WithdrawKeeps == ASSUME CircleInv, NEW m \in Circle!Members, Circle!Withdraw(m) PROVE CircleGoesOn
<1> DEFINE s == Circle!Loaded
           c == [s.live EXCEPT !.agreed = @ \ {m}, !.closed = FALSE]
           k == [s.kept EXCEPT !.agreed = @ \ {m}]
           t == [s EXCEPT !.live = c, !.kept = k]
<1>1. Circle!Becomes([s EXCEPT !.live.agreed = @ \ {m}, !.live.closed = FALSE, !.kept.agreed = @ \ {m}])
  BY DEF Circle!Withdraw
<1>2. ticket' = ticket /\ mute' = mute /\ heard' = heard \union {m}
      /\ tookBack' = IF kept.closed \/ kept.plan THEN tookBack \union {m} ELSE tookBack
  BY DEF Circle!Withdraw
<1>3. /\ Sound(s, tookBack) /\ NoVotes(s.live) /\ s.asked = 0 /\ s.kept = kept
      /\ circle.here => s.live = circle /\ circle # Circle!Gone
      /\ ~circle.here => mute = 0 /\ Passed(s.live) = {}
  BY LoadedIs
<1> HIDE DEF s
<1>4. s \in States /\ s.live \in Discussions /\ s.kept \in Records
  <2>1. s \in States  BY <1>3 DEF Sound
  <2> QED BY <2>1, StateIs
<1>5. /\ c \in Discussions /\ c.agreed = s.live.agreed \ {m} /\ c.closed = FALSE /\ c.disc = s.live.disc
      /\ c.present = s.live.present /\ c.round = s.live.round /\ c.phase = s.live.phase /\ c.next = s.live.next
      /\ c.plan = s.live.plan /\ c.reminded = s.live.reminded /\ c.remindRound = s.live.remindRound
      /\ c.rows = s.live.rows /\ c.handed = s.live.handed /\ c.emitted = s.live.emitted
  BY <1>4 DEF Discussions
<1>6. /\ k \in Records /\ k.agreed = s.kept.agreed \ {m} /\ k.present = s.kept.present /\ k.begun = s.kept.begun
      /\ k.plan = s.kept.plan /\ k.closed = s.kept.closed /\ k.over = s.kept.over
  BY <1>4 DEF Records
<1>7. t = [s EXCEPT !.live.agreed = @ \ {m}, !.live.closed = FALSE, !.kept.agreed = @ \ {m}]
  BY <1>4 DEF States, Discussions
<1> HIDE DEF c, k
<1>8. t \in States /\ t.live = c /\ t.kept = k /\ t.asked = 0  BY <1>3, <1>4, <1>5, <1>6 DEF States
<1> HIDE DEF t
<1>9. Told(k, tookBack')
  <2>1. Consent(s.kept, tookBack) /\ (s.kept.closed \/ s.kept.plan) => Consent(k, tookBack')
    BY <1>2, <1>3, <1>6 DEF Consent
  <2> QED BY <1>3, <1>6, <2>1 DEF Sound, Told
<1>10. Matches(c, k)  BY <1>3, <1>5, <1>6 DEF Sound, Matches
<1>11. Behind(c)  BY <1>3, <1>5 DEF Sound, Behind
<1>12. Fine(t, tookBack')  BY <1>8, <1>9, <1>10, <1>11 DEF Fine, Sound
<1>13. Asking(s.live) => Asking(c)
  BY <1>5 DEF Asking, Waiting, Circle!Waits
<1>14. mute' # 0 => Asking(c) /\ c.remindRound = c.round /\ mute' =< c.reminded[c.next]
  <2>1. SameTurn(circle, circle)  BY DEF SameTurn
  <2>2. mute # 0 => /\ circle.here /\ Asking(circle) /\ circle.remindRound = circle.round
                    /\ mute =< circle.reminded[circle.next]
    BY <1>3, <2>1, TurnHolds
  <2> QED BY <1>2, <1>3, <1>5, <1>13, <2>2
<1>15. mute' \in Nat /\ ticket' \in Gates \union {"none"}  BY <1>2 DEF CircleInv
<1>16. c.disc => Passed(c) \subseteq heard'
  <2>1. Passed(c) \subseteq Passed(s.live) \union {m}  BY <1>5 DEF Passed, Left
  <2>2. c.disc => Passed(s.live) \subseteq heard  BY <1>3, <1>5 DEF CircleInv
  <2> QED BY <1>2, <2>1, <2>2
<1>17. ~(circle.here /\ c.round > circle.round)
  <2>1. c.round \in Nat  BY <1>5 DEF Discussions
  <2> QED BY <1>3, <1>5, <2>1
<1> QED BY <1>1, <1>7, <1>8, <1>12, <1>14, <1>15, <1>16, <1>17, BecomesKeeps

(* A stop takes the cards, or raises the flag.                             *)
LEMMA StopKeeps == ASSUME CircleInv, Circle!Stop PROVE CircleGoesOn
<1>1. UNCHANGED <<circle, kept, ticket, asked, heard, mute, tookBack, twice>>  BY DEF Circle!Stop
<1>2. halt' \in BOOLEAN
  <2>1. halt' = halt \/ halt' = TRUE  BY DEF Circle!Stop
  <2>2. halt \in BOOLEAN  BY DEF CircleInv
  <2> QED BY <2>1, <2>2
<1>3. open' \in Seq(Gates)
  <2>1. open' = open \/ open' = <<>>  BY DEF Circle!Stop
  <2>2. open \in Seq(Gates)  BY DEF CircleInv
  <2>3. <<>> \in Seq(Gates)  BY EmptySeq
  <2> QED BY <2>1, <2>2, <2>3
<1>4. CircleInv'  BY <1>1, <1>2, <1>3 DEF CircleInv
<1> QED BY <1>1, <1>4, NoRoundEnds DEF CircleGoesOn

(* A crash takes the object, and leaves the record.                        *)
LEMMA CrashKeeps == ASSUME CircleInv, Circle!Crash PROVE CircleGoesOn
<1>1. /\ circle' = Circle!Gone /\ asked' = 0 /\ ticket' = "none" /\ halt' = FALSE /\ mute' = 0
      /\ UNCHANGED <<kept, open, tookBack, twice>>
  BY DEF Circle!Crash, Circle!NoTicket, Circle!NewRound
<1>2. halt' \in BOOLEAN /\ mute' \in Nat  BY <1>1
<1>3. asked' \in 0..Chairs  BY <1>1, MembersAreNumbers
<1>4. Told(kept', tookBack') /\ open' \in Seq(Gates) /\ twice' \in BOOLEAN  BY <1>1 DEF CircleInv
<1>5. CircleInv'  BY <1>1, <1>2, <1>3, <1>4 DEF CircleInv
<1> QED BY <1>1, <1>5, NoRoundEnds DEF CircleGoesOn

(* The session that is opened again goes by its record.                    *)
LEMMA OpenKeeps == ASSUME CircleInv, Circle!Open PROVE CircleGoesOn
<1>1. ~circle.here /\ Circle!Becomes(Circle!Loaded) /\ UNCHANGED <<ticket, mute, tookBack>>  BY DEF Circle!Open
<1>2. Sound(Circle!Loaded, tookBack) /\ Circle!Loaded.asked = 0 /\ mute = 0  BY <1>1, LoadedIs
<1>3. Fine(Circle!Loaded, tookBack')  BY <1>1, <1>2 DEF Fine
<1>4. mute' = 0 /\ ticket' \in Gates \union {"none"}  BY <1>1, <1>2 DEF CircleInv
<1>5. Passed(Circle!Loaded.live) = {}  BY <1>1, LoadedIs
<1> QED BY <1>1, <1>2, <1>3, <1>4, <1>5, BecomesKeeps

-----------------------------------------------------------------------------
(* A session in which nothing was said is as it must be.                   *)
LEMMA CircleStart == Circle!Init => CircleInv
<1> SUFFICES ASSUME Circle!Init PROVE CircleInv
  OBVIOUS
<1> DEFINE k == Circle!Untouched(FALSE)
<1>1. /\ kept = k /\ circle = Circle!Object(kept) /\ open = <<>> /\ ticket = "none" /\ asked = 0 /\ halt = FALSE
      /\ mute = 0 /\ tookBack = {} /\ twice = FALSE
  BY DEF Circle!Init, Circle!NoTicket
<1>2. k \in Records /\ k.begun = FALSE /\ k.plan = FALSE /\ k.closed = FALSE /\ k.present = Circle!Members
  BY MembersAreNumbers DEF Circle!Untouched, Records
<1> HIDE DEF k
<1>3. Told(kept, tookBack)  BY <1>1, <1>2 DEF Told
<1>4. Circle!Restored(kept) = Circle!Object(kept)  BY <1>1, <1>2 DEF Circle!Restored
<1>5. circle \in Discussions /\ Behind(circle) /\ NoVotes(circle) /\ Matches(circle, kept)
      /\ circle.phase = "fresh"
  BY <1>1, <1>3, <1>4, RestoredIs
<1>6. <<>> \in Seq(Gates) /\ halt \in BOOLEAN /\ twice \in BOOLEAN /\ mute \in Nat  BY <1>1, EmptySeq
<1>7. asked \in 0..Chairs  BY <1>1, MembersAreNumbers
<1>8. Passed(circle) = {}  BY <1>5 DEF Passed
<1> QED BY <1>1, <1>3, <1>5, <1>6, <1>7, <1>8 DEF CircleInv

(* Every action keeps it so.                                               *)
LEMMA CircleStep == ASSUME CircleInv, Circle!Next \/ UNCHANGED Circle!vars PROVE CircleGoesOn
<1>1. CASE UNCHANGED Circle!vars
  <2>1. circle' = circle  BY <1>1 DEF Circle!vars
  <2>2. CircleInv'  BY <1>1 DEF Circle!vars, CircleInv
  <2> QED BY <2>1, <2>2, NoRoundEnds DEF CircleGoesOn
<1>2. ASSUME NEW m \in Circle!Members, Circle!Withdraw(m) PROVE CircleGoesOn
  BY <1>2, WithdrawKeeps
<1> QED BY <1>1, <1>2, SetTaskKeeps, TakeCardKeeps, DisposeKeeps, ContinueKeeps, TurnKeeps, StopKeeps,
          CrashKeeps, OpenKeeps DEF Circle!Next

(* And then a plan has consent, and silence an end; the votes are those of *)
(* the record.                                                             *)
LEMMA CircleMeans ==
  CircleInv => Circle!PlanByConsent /\ Circle!SilenceIsBounded /\ Circle!VotesAreTheRecord
<1> SUFFICES ASSUME CircleInv PROVE Circle!PlanByConsent /\ Circle!SilenceIsBounded /\ Circle!VotesAreTheRecord
  OBVIOUS
<1>1. circle.here => circle \in Discussions /\ Matches(circle, kept)  BY DEF CircleInv, Circle!Gone
<1>2. Circle!VotesAreTheRecord  BY <1>1 DEF Matches, Circle!VotesAreTheRecord
<1>3. Circle!PlanByConsent
  <2>1. CASE circle.here /\ circle.plan
    <3>1. kept.plan /\ Consent(kept, tookBack)  BY <1>1, <2>1 DEF Matches, CircleInv, Told
    <3>2. circle.disc  BY <1>1, <2>1 DEF Matches
    <3> QED BY <1>1, <3>1, <3>2 DEF Matches, Consent, Circle!PlanByConsent
  <2> QED BY <2>1 DEF Circle!PlanByConsent
<1>4. Circle!SilenceIsBounded
  <2>1. CASE mute = 0  BY <2>1, MembersAreNumbers DEF Circle!SilenceIsBounded
  <2>2. CASE mute # 0
    <3>1. circle \in Discussions /\ circle.next \in Circle!Members /\ mute =< circle.reminded[circle.next]
      BY <2>2 DEF CircleInv, Asking, Waiting
    <3>2. circle.reminded[circle.next] \in 0..Patience  BY <3>1 DEF Discussions
    <3> QED BY <3>1, <3>2, MembersAreNumbers DEF Circle!SilenceIsBounded, CircleInv
  <2> QED BY <2>1, <2>2
<1> QED BY <1>2, <1>3, <1>4

-----------------------------------------------------------------------------
(* The parts together: one goes its way, the others rest.                  *)
AgentsInv ==
  /\ IF which = "own rights" THEN OwnRights!RightsInv ELSE Rights!RightsInv
  /\ ToolsInv /\ FamilyInv
  /\ which # "drafted" => CircleInv

(* Every behaviour begins with all of it.                                  *)
LEMMA InitAgents == Init => AgentsInv
<1> SUFFICES ASSUME Init PROVE AgentsInv  OBVIOUS
<1>1. IF which = "own rights" THEN OwnRights!Init ELSE Rights!Init  BY DEF Init
<1>2. IF which = "own rights" THEN OwnRights!RightsInv ELSE Rights!RightsInv
  BY <1>1, RightsAreSensible, OwnRights!RightsStart, Rights!RightsStart
<1>3. Tools!Init /\ Family!Init /\ (which # "drafted" => Circle!Init)  BY DEF Init
<1> QED BY <1>2, <1>3, ToolsStart, FamilyStart, CircleStart DEF AgentsInv

(* A step of the whole is a step of one part and none of the others.       *)
LEMMA PartsStep ==
  ASSUME [Next]_vars
  PROVE  /\ which' = which
         /\ which = "own rights" => OwnRights!Next \/ UNCHANGED OwnRights!vars
         /\ which # "own rights" => Rights!Next \/ UNCHANGED Rights!vars
         /\ Tools!Next \/ UNCHANGED Tools!vars
         /\ Family!Next \/ UNCHANGED Family!vars
         /\ which # "drafted" => Circle!Next \/ UNCHANGED Circle!vars
<1>1. /\ UNCHANGED Rights!vars <=> UNCHANGED vP
      /\ UNCHANGED OwnRights!vars <=> UNCHANGED vP
      /\ UNCHANGED Tools!vars <=> UNCHANGED vT
      /\ UNCHANGED Family!vars <=> UNCHANGED vF
      /\ UNCHANGED Circle!vars <=> UNCHANGED vD
  BY DEF vP, vT, vF, vD, Rights!vars, OwnRights!vars, Tools!vars, Family!vars, Circle!vars
<1>2. CASE UNCHANGED vars  BY <1>1, <1>2 DEF vars
<1>3. CASE Next
  <2>1. which' = which  BY <1>3 DEF Next
  <2>2. \/ which = "own rights" /\ OwnRights!Next
        \/ which = "rights" /\ Rights!Next
        \/ UNCHANGED vP
    BY <1>3 DEF Next
  <2>3. Tools!Next \/ UNCHANGED vT  BY <1>3 DEF Next
  <2>4. Family!Next \/ UNCHANGED vF  BY <1>3 DEF Next
  <2>5. which # "drafted" => Circle!Next \/ UNCHANGED vD  BY <1>3 DEF Next
  <2> QED BY <1>1, <2>1, <2>2, <2>3, <2>4, <2>5
<1> QED BY <1>2, <1>3

(* Every step keeps all of it.                                             *)
LEMMA StepAgents == AgentsInv /\ [Next]_vars => AgentsInv'
<1> SUFFICES ASSUME AgentsInv, [Next]_vars PROVE AgentsInv'  OBVIOUS
<1>1. IF which' = "own rights" THEN OwnRights!RightsInv' ELSE Rights!RightsInv'
  BY PartsStep, RightsAreSensible, OwnRights!StepRights, Rights!StepRights DEF AgentsInv
<1>2. ToolsInv'  BY PartsStep, ToolsStep DEF AgentsInv
<1>3. FamilyInv'  BY PartsStep, FamilyStep DEF AgentsInv
<1>4. which' # "drafted" => CircleInv'
  <2>1. which' = which  BY PartsStep
  <2>2. which # "drafted" => CircleInv'  BY PartsStep, CircleStep DEF AgentsInv, CircleGoesOn
  <2> QED BY <2>1, <2>2
<1> QED BY <1>1, <1>2, <1>3, <1>4 DEF AgentsInv

(* The parts keep their invariants in every behaviour.                     *)
THEOREM AgentsHold == Spec => []AgentsInv
<1> QED BY InitAgents, StepAgents, PTL DEF Spec

(* A session in memory, in the table or with a thread, works with what the *)
(* metas say now, and no session may do what its parent may not, whatever  *)
(* is given to either (permissions_for, env.rs).                           *)
THEOREM RightsAlwaysHold == Spec => []RightsHold
<1>1. AgentsInv => RightsHold
  <2>1. CASE which = "own rights"
    <3> SUFFICES ASSUME AgentsInv PROVE RightsHold  OBVIOUS
    <3>1. OwnRights!HeldIsCurrent /\ OwnRights!ChildrenAreNarrower
      BY <2>1, RightsAreSensible, OwnRights!RightsMean DEF AgentsInv
    <3> QED BY <2>1, <3>1 DEF RightsHold, HeldIsCurrent
  <2>2. CASE which # "own rights"
    <3> SUFFICES ASSUME AgentsInv PROVE RightsHold  OBVIOUS
    <3>1. Rights!HeldIsCurrent /\ Rights!ChildrenAreNarrower
      BY <2>2, RightsAreSensible, Rights!RightsMean DEF AgentsInv
    <3> QED BY <2>2, <3>1 DEF RightsHold, HeldIsCurrent
  <2> QED BY <2>1, <2>2
<1> QED BY <1>1, AgentsHold, PTL

(* No call runs that was refused, or that the user was to be asked about   *)
(* and did not agree to, for it or for the rest of its turn (tool_loop.rs);*)
(* a stop of a proxy reaches all of its tree, nobody works in what is      *)
(* closed, and no request makes two (proxy.rs); and a plan is made only of *)
(* what all who stayed agreed on, or at the limit of rounds, and whoever   *)
(* is silent is asked again no more often than allowed (rounds.rs).        *)
THEOREM AgreedAlwaysRuns == Spec => []OnlyTheAgreedRuns
<1>1. AgentsInv => OnlyTheAgreedRuns
  <2> SUFFICES ASSUME AgentsInv PROVE OnlyTheAgreedRuns  OBVIOUS
  <2>1. Tools!OnlyTheAgreedRuns  BY DEF AgentsInv, ToolsInv, Consented
  <2>2. Family!StopReaches /\ Family!ClosedIsQuiet /\ Family!OncePerRequest
    BY FamilyMeans DEF AgentsInv
  <2>3. which = "circle" => Circle!PlanByConsent /\ Circle!SilenceIsBounded
    BY CircleMeans DEF AgentsInv
  <2> QED BY <2>1, <2>2, <2>3 DEF OnlyTheAgreedRuns
<1> QED BY <1>1, AgentsHold, PTL

(* The votes a discussion goes by - who is in, who has agreed - are those  *)
(* that a rebuild reads off its transcript, in every round, and it never   *)
(* takes an end for open (collab_state.rs).                                *)
THEOREM VotesAlwaysTheRecord == Spec => [](which = "circle" => Circle!VotesAreTheRecord)
<1>1. AgentsInv => (which = "circle" => Circle!VotesAreTheRecord)
  BY CircleMeans DEF AgentsInv
<1> QED BY <1>1, AgentsHold, PTL

(* A round of a discussion ends only when everybody who is in and has not  *)
(* agreed was heard in it or passed over, whatever was stopped, repeated   *)
(* or taken back in between (rounds.rs).                                   *)
THEOREM EveryoneIsAlwaysHeard == Spec => [][which = "circle" => Circle!EveryoneIsHeard]_vars
<1>1. AgentsInv /\ [Next]_vars => (which = "circle" => Circle!EveryoneIsHeard)
  BY PartsStep, CircleStep DEF AgentsInv, CircleGoesOn
<1> QED BY <1>1, AgentsHold, PTL DEF Spec

(* However others change files and parallel calls come out, no call        *)
(* overwrites what it found in a file unless the agent was shown that from *)
(* the first line to the last or left it there itself - of lines that are  *)
(* too long it was shown the beginnings only, and what comes between the   *)
(* look and the writing is lost; a patch writes only when all its blocks   *)
(* have fitted what they found, and, unless its writing breaks off, writes *)
(* all of its files (systool.rs).                                          *)
THEOREM FilesAreAlwaysSafe == Spec => FilesAreSafe
<1>1. AgentsInv /\ [Next]_vars => (which = "tools" => Tools!NothingUnseenIsLost /\ Tools!PatchIsWhole)
  BY PartsStep, StepIsSafe DEF AgentsInv
<1> QED BY <1>1, AgentsHold, PTL DEF Spec, FilesAreSafe
=============================================================================
