---- MODULE FenceLedgerProofs ----
EXTENDS FenceLedger, TLAPS

(* What an operation, and the ledger, are made of.                         *)
Ledgers == [in : SUBSET Keys, own : [Keys -> SUBSET Procs], snap : [Paths -> SUBSET SUBSET Holders]]
Preparing == [kind : {"prepare"}, p : Procs, l : Holders, todo : SUBSET Keys,
              pc : {"next", "claim", "write"}, k : Keys \union {<<>>}, added : BOOLEAN, snapped : BOOLEAN]
Releasing == [kind : {"release"}, p : Procs, l : Holders, todo : SUBSET Paths, mem : Ledgers]
Reconciling == [kind : {"reconcile"}, p : Procs, dead : SUBSET Keys, snaps : SUBSET Paths,
                revoke : SUBSET Keys, restore : SUBSET Paths, ok : BOOLEAN, living : SUBSET Procs]

LedgerShape ==
  /\ life \in [Procs -> {"unborn", "alive", "dead"}]
  /\ acl \in [Paths -> SUBSET Holders]
  /\ ledger \in Ledgers
  /\ using \subseteq Alive \X Holders \X Paths
  /\ residue \subseteq Keys /\ (~Fails => residue = {})
  /\ op \in {Idle} \union Preparing \union Releasing \union Reconciling

(* A ledger covers what is on the disk: it names every entry, only owners  *)
(* of entries, and inside the root the way back; but for the residues.     *)
Covers(led, at) ==
  /\ \A x \in Paths : \A l \in at[x] : <<l, x>> \in led.in \union residue
  /\ \A x \in Paths : \A l \in UNION led.snap[x] : <<l, x>> \in residue
  /\ \A k \in Keys : led.own[k] # {} => k \in led.in
  /\ \A k \in led.in : k[2] \in Inside => led.snap[k[2]] # NoSnap

(* Those in the ledger have lived, and one of them is left where nothing   *)
(* may fail.                                                               *)
OwnersLived == \A k \in Keys : \A p \in ledger.own[k] : life[p] # "unborn"
Owned(led, spare) == ~Fails => \A k \in led.in \ spare : led.own[k] # {}

InPrepare ==
  op.kind = "prepare" =>
    /\ op.p \in Alive
    /\ op.pc # "next" => op.k \in Keys /\ (op.k[2] \in Inside => ledger.snap[op.k[2]] # NoSnap)
    /\ op.pc = "write" => op.p \in ledger.own[op.k]

InRelease ==
  op.kind = "release" =>
    /\ op.p \in Alive
    /\ Covers(op.mem, acl) /\ Owned(op.mem, {<<op.l, x>> : x \in op.todo})
    /\ op.mem.own = [k \in Keys |-> IF k[1] = op.l THEN ledger.own[k] \ {op.p} ELSE ledger.own[k]]
    /\ op.mem.in \subseteq ledger.in
    /\ \A k \in ledger.in : k[1] # op.l => k \in op.mem.in
    /\ \A u \in using : ~(u[1] = op.p /\ u[2] = op.l)
    /\ \A x \in op.todo : <<op.l, x>> \in op.mem.in /\ ledger.own[<<op.l, x>>] \subseteq {op.p}

InReconcile ==
  op.kind = "reconcile" =>
    /\ op.p \in Procs
    /\ \A k \in op.dead : k \in ledger.in /\ ledger.own[k] # {} /\ ledger.own[k] \intersect Alive = {}
    /\ \A k \in ledger.in \ op.dead : ledger.own[k] # {} => ledger.own[k] \intersect op.living # {}
    /\ \A x \in op.snaps : \A l \in Holders : <<l, x>> \in ledger.in => <<l, x>> \in op.dead
    /\ \A x \in op.snaps : ledger.snap[x] # NoSnap
    /\ op.restore \subseteq op.snaps /\ op.revoke \subseteq op.dead
    /\ op.ok => \A k \in op.dead : k \in op.revoke \/ k[2] \in op.restore \/ k[1] \notin acl[k[2]] \/ k \in residue
    /\ ~Fails => op.ok

Granted == \A u \in using : u[2] \in acl[u[3]] /\ u[1] \in ledger.own[<<u[2], u[3]>>]

LedgerInv ==
  /\ LedgerShape /\ Covers(ledger, acl) /\ OwnersLived /\ Owned(ledger, {})
  /\ Granted /\ InPrepare /\ InRelease /\ InReconcile

USE DEF Keys

(* What tells an operation from another, and from none.                    *)
LEMMA IdleShape ==
  /\ Idle.kind = "none"
  /\ \A o \in Preparing : o.kind = "prepare"
  /\ \A o \in Releasing : o.kind = "release"
  /\ \A o \in Reconciling : o.kind = "reconcile"
  BY DEF Idle, Preparing, Releasing, Reconciling

(* The kind of an operation says what it carries.                          *)
LEMMA KindOf ==
  ASSUME LedgerShape
  PROVE  /\ op = Idle \/ op \in Preparing \/ op \in Releasing \/ op \in Reconciling
         /\ op.kind = "prepare" => op \in Preparing
         /\ op.kind = "release" => op \in Releasing
         /\ op.kind = "reconcile" => op \in Reconciling
         /\ op.kind = "none" => op = Idle
  BY IdleShape DEF LedgerShape

(* Without an operation nothing is said of one.                            *)
LEMMA AtRest ==
  ASSUME op' = Idle
  PROVE  InPrepare' /\ InRelease' /\ InReconcile' /\ op'.kind = "none"
  BY IdleShape DEF InPrepare, InRelease, InReconcile

(* Nothing is there yet.                                                   *)
LEMMA InitLedger == Init => LedgerInv
<1> SUFFICES ASSUME Init PROVE LedgerInv  OBVIOUS
<1>1. ledger \in Ledgers /\ ledger.in = {} /\ (\A k \in Keys : ledger.own[k] = {})
      /\ (\A x \in Paths : ledger.snap[x] = {})
  BY DEF Init, Empty, Ledgers, NoSnap
<1>2. LedgerShape  BY <1>1 DEF Init, LedgerShape
<1>3. op.kind = "none"  BY IdleShape DEF Init
<1>4. Covers(ledger, acl) /\ OwnersLived /\ Owned(ledger, {})  BY <1>1 DEF Init, Covers, OwnersLived, Owned
<1> QED BY <1>2, <1>3, <1>4 DEF Init, LedgerInv, Granted, InPrepare, InRelease, InReconcile

(* A process is born.                                                      *)
LEMMA BornStep ==
  ASSUME LedgerInv, NEW p \in Procs, Born(p)
  PROVE  LedgerInv'
<1>1. /\ life[p] = "unborn" /\ life' = [life EXCEPT ![p] = "alive"]
      /\ UNCHANGED <<acl, ledger, op, using, residue>>
  BY DEF Born
<1>2. LedgerShape /\ OwnersLived  BY DEF LedgerInv
<1>3. /\ Alive' = Alive \union {p} /\ p \notin Alive
      /\ \A q \in Procs : life[q] # "unborn" => life'[q] = life[q]
      /\ \A k \in Keys : p \notin ledger.own[k]
  BY <1>1, <1>2 DEF Alive, LedgerShape, OwnersLived
<1>4. LedgerShape'  BY <1>1, <1>2, <1>3 DEF LedgerShape
<1>5. \A k \in Keys : \A q \in ledger.own[k] : q \in Procs  BY <1>2 DEF LedgerShape, Ledgers
<1>6. OwnersLived'  BY <1>1, <1>2, <1>3, <1>5 DEF OwnersLived
<1>7. InPrepare' /\ InRelease'  BY <1>1, <1>3 DEF LedgerInv, InPrepare, InRelease, Covers
<1>8. InReconcile'
  <2>1. \A k \in Keys : ledger.own[k] \intersect Alive = {} => ledger.own[k] \intersect Alive' = {}
    BY <1>3
  <2>2. op.kind = "reconcile" => op.dead \subseteq Keys  BY <1>2, KindOf DEF Reconciling
  <2> QED BY <1>1, <2>1, <2>2 DEF LedgerInv, InReconcile
<1> QED BY <1>1, <1>4, <1>6, <1>7, <1>8 DEF LedgerInv, Granted, Covers

(* A process dies, with what it had in memory.                             *)
LEMMA DieStep ==
  ASSUME LedgerInv, NEW p \in Procs, Die(p)
  PROVE  LedgerInv'
<1>1. /\ life' = [life EXCEPT ![p] = "dead"] /\ UNCHANGED <<acl, ledger, residue>>
      /\ using' = {u \in using : u[1] # p}
      /\ op' = IF op # Idle /\ op.p = p THEN Idle ELSE op
  BY DEF Die
<1>2. LedgerShape /\ OwnersLived  BY DEF LedgerInv
<1>3. Alive' = Alive \ {p} /\ life' \in [Procs -> {"unborn", "alive", "dead"}]
  BY <1>1, <1>2 DEF Alive, LedgerShape
<1>4. LedgerShape'
  <2>1. using' \subseteq Alive' \X Holders \X Paths  BY <1>1, <1>2, <1>3 DEF LedgerShape
  <2> QED BY <1>1, <1>2, <1>3, <2>1 DEF LedgerShape
<1>5. OwnersLived'
  <2>1. \A q \in Procs : life[q] # "unborn" => life'[q] # "unborn"  BY <1>1, <1>2 DEF LedgerShape
  <2>2. \A k \in Keys : \A q \in ledger.own[k] : q \in Procs  BY <1>2 DEF LedgerShape, Ledgers
  <2> QED BY <1>1, <1>2, <2>1, <2>2 DEF OwnersLived
<1>6. InPrepare' /\ InRelease' /\ InReconcile'
  <2>1. CASE op' = Idle  BY <2>1, AtRest
  <2>2. CASE op' = op /\ op # Idle /\ op.p # p
    <3>1. op.p \in Alive => op.p \in Alive'  BY <1>3, <2>2
    <3>2. \A k : ledger.own[k] \intersect Alive = {} => ledger.own[k] \intersect Alive' = {}  BY <1>3
    <3> QED BY <1>1, <2>2, <3>1, <3>2 DEF LedgerInv, InPrepare, InRelease, InReconcile, Covers
  <2> QED BY <1>1, <2>1, <2>2
<1>7. Granted'  BY <1>1 DEF LedgerInv, Granted
<1> QED BY <1>1, <1>4, <1>5, <1>6, <1>7 DEF LedgerInv, Covers

(* A lease may hold an entry.                                              *)
LEMMA Lends == \A l \in Leases : l \in Holders
  BY DEF Holders

(* A preparation goes on: the rest of the invariant rests on the ledger.   *)
LEMMA PrepareStep ==
  ASSUME LedgerInv, NEW p \in Procs, NEW l \in Leases, Prepare(p, l)
  PROVE  LedgerInv'
<1> DEFINE o == [kind |-> "prepare", p |-> p, l |-> l, todo |-> Wanted(l), pc |-> "next",
                 k |-> <<>>, added |-> FALSE, snapped |-> FALSE]
<1>1. op' = o /\ UNCHANGED <<life, acl, ledger, using, residue>> /\ p \in Alive  BY DEF Prepare
<1>2. Wanted(l) \subseteq Keys /\ l \in Holders
  <2>1. Wanted(l) \subseteq Keys  BY DEF Wanted, Holders
  <2> QED BY <2>1, Lends
<1>3. o \in Preparing /\ o.kind = "prepare" /\ o.p = p /\ o.pc = "next"  BY <1>2 DEF Preparing
<1> HIDE DEF o
<1>4. LedgerShape'  BY <1>1, <1>3 DEF LedgerInv, LedgerShape, Alive
<1>5. InPrepare' /\ InRelease' /\ InReconcile'
  BY <1>1, <1>3 DEF InPrepare, InRelease, InReconcile, Alive
<1> QED BY <1>1, <1>4, <1>5 DEF LedgerInv, Covers, OwnersLived, Owned, Granted

(* An entry of the baseline is taken as it is.                             *)
LEMMA SkipStep ==
  ASSUME LedgerInv, NEW k \in Keys, Skip(k)
  PROVE  LedgerInv'
<1>0. LedgerShape /\ op \in Preparing /\ op.pc = "next" /\ op.p \in Alive
  BY KindOf DEF LedgerInv, Skip, InPrepare
<1>1. op' = [op EXCEPT !.todo = @ \ {k}] /\ UNCHANGED <<life, acl, ledger, using, residue>>
  BY DEF Skip
<1>2. op' \in Preparing /\ op'.p = op.p /\ op'.pc = "next" /\ op'.kind = "prepare"
  BY <1>0, <1>1 DEF Preparing
<1>3. LedgerShape'  BY <1>0, <1>1, <1>2 DEF LedgerShape, Alive
<1>4. InPrepare' /\ InRelease' /\ InReconcile'
  BY <1>0, <1>1, <1>2 DEF InPrepare, InRelease, InReconcile, Alive
<1> QED BY <1>1, <1>3, <1>4 DEF LedgerInv, Covers, OwnersLived, Owned, Granted

(* What a path was is written down before anything else.                   *)
LEMMA SnapshotStep ==
  ASSUME LedgerInv, NEW k \in Keys, Snapshot(k)
  PROVE  LedgerInv'
<1> DEFINE x == k[2]
           new == x \in Inside /\ ledger.snap[x] = NoSnap
<1>0. LedgerShape /\ op \in Preparing /\ x \in Paths  BY KindOf DEF LedgerInv, Snapshot
<1>1. /\ ledger' = IF new THEN [ledger EXCEPT !.snap[x] = {acl[x]}] ELSE ledger
      /\ op' = [op EXCEPT !.pc = "claim", !.k = k, !.snapped = new]
      /\ UNCHANGED <<life, acl, using, residue>>
  BY DEF Snapshot
<1>2. op' \in Preparing /\ op'.p = op.p /\ op'.pc = "claim" /\ op'.k = k /\ op'.kind = "prepare"
  <2> HIDE DEF Keys
  <2> QED BY <1>0, <1>1 DEF Preparing
<1>3. new => \A l \in acl[x] : <<l, x>> \in residue
  <2> SUFFICES ASSUME new PROVE \A l \in acl[x] : <<l, x>> \in residue  OBVIOUS
  <2>1. \A j \in ledger.in : j[2] # x  BY DEF LedgerInv, Covers
  <2>2. \A l \in acl[x] : <<l, x>> \in ledger.in \union residue  BY <1>0 DEF LedgerInv, Covers
  <2> QED BY <2>1, <2>2
<1>4. /\ ledger' \in Ledgers /\ ledger'.in = ledger.in /\ ledger'.own = ledger.own
      /\ \A y \in Paths : ledger'.snap[y] = IF y = x /\ new THEN {acl[x]} ELSE ledger.snap[y]
  <2>0. acl[x] \subseteq Holders /\ ledger.snap \in [Paths -> SUBSET SUBSET Holders]
    BY <1>0 DEF LedgerShape, Ledgers
  <2> DEFINE a == {acl[x]}
  <2>1. CASE new
    <3>1. ledger' = [in |-> ledger.in, own |-> ledger.own, snap |-> [ledger.snap EXCEPT ![x] = a]]
      BY <1>0, <1>1, <2>1 DEF LedgerShape, Ledgers
    <3>2. a \in SUBSET SUBSET Holders  BY <2>0
    <3> HIDE DEF a, x
    <3>3. [ledger.snap EXCEPT ![x] = a] \in [Paths -> SUBSET SUBSET Holders]
          /\ \A y \in Paths : [ledger.snap EXCEPT ![x] = a][y] = IF y = x THEN a ELSE ledger.snap[y]
      BY <1>0, <2>0, <3>2
    <3>4. ledger' \in Ledgers  BY <1>0, <3>1, <3>3 DEF LedgerShape, Ledgers
    <3> QED BY <2>1, <3>1, <3>3, <3>4 DEF a
  <2>2. CASE ~new  BY <1>0, <1>1, <2>2 DEF LedgerShape
  <2> QED BY <2>1, <2>2
<1>5. NoSnap # {acl[x]}  BY DEF NoSnap
<1>6. LedgerShape'  BY <1>0, <1>1, <1>2, <1>4 DEF LedgerShape, Alive
<1>7. Covers(ledger, acl)'
  <2>1. \A y \in Paths : ledger.snap[y] # NoSnap => ledger'.snap[y] # NoSnap  BY <1>4, <1>5
  <2>2. \A j \in ledger.in : j[2] \in Paths  BY <1>0 DEF LedgerShape, Ledgers
  <2>3. \A y \in Paths : \A l \in UNION ledger'.snap[y] : <<l, y>> \in residue
    <3> SUFFICES ASSUME NEW y \in Paths, NEW S \in ledger'.snap[y], NEW l \in S PROVE <<l, y>> \in residue
      OBVIOUS
    <3>1. CASE y = x /\ new  BY <1>3, <1>4, <3>1
    <3>2. CASE ~(y = x /\ new)
      <4>1. S \in ledger.snap[y]  BY <1>4, <3>2
      <4> QED BY <4>1 DEF LedgerInv, Covers
    <3> QED BY <3>1, <3>2
  <2>4. (\A y \in Paths : \A l \in acl[y] : <<l, y>> \in ledger.in \union residue)
        /\ (\A j \in Keys : ledger.own[j] # {} => j \in ledger.in)
        /\ \A j \in ledger.in : j[2] \in Inside => ledger.snap[j[2]] # NoSnap
    BY DEF LedgerInv, Covers
  <2> QED BY <1>1, <1>4, <2>1, <2>2, <2>3, <2>4 DEF Covers
<1>8. OwnersLived' /\ Owned(ledger, {})' /\ Granted'
  BY <1>1, <1>4 DEF LedgerInv, OwnersLived, Owned, Granted
<1>9. InPrepare'
  <2>1. x \in Inside => ledger'.snap[x] # NoSnap  BY <1>0, <1>4, <1>5
  <2>2. op'.p \in Alive'  BY <1>0, <1>1, <1>2, IdleShape DEF LedgerInv, InPrepare, Alive
  <2> QED BY <1>2, <2>1, <2>2 DEF InPrepare
<1>10. InRelease' /\ InReconcile'  BY <1>2 DEF InRelease, InReconcile
<1> QED BY <1>6, <1>7, <1>8, <1>9, <1>10 DEF LedgerInv

(* The claim is written down before the entry.                             *)
LEMMA ClaimStep ==
  ASSUME LedgerInv, Claim
  PROVE  LedgerInv'
<1>0. LedgerShape /\ op \in Preparing /\ op.pc = "claim" /\ op.k \in Keys /\ op.p \in Procs
      /\ op.p \in Alive /\ (op.k[2] \in Inside => ledger.snap[op.k[2]] # NoSnap)
  BY KindOf DEF LedgerInv, Claim, InPrepare, Preparing
<1> HIDE DEF Keys
<1>k. PICK k \in Keys : k = op.k  BY <1>0
<1>1. /\ ledger' = [ledger EXCEPT !.in = @ \union {k}, !.own[k] = @ \union {op.p}]
      /\ op' = [op EXCEPT !.pc = "write", !.added = op.p \notin ledger.own[k]]
      /\ UNCHANGED <<life, acl, using, residue>>
  BY <1>k DEF Claim
<1>2. /\ op' \in Preparing /\ op'.p = op.p /\ op'.pc = "write" /\ op'.k = k /\ op'.l = op.l
      /\ op'.kind = "prepare"
  BY <1>0, <1>1, <1>k DEF Preparing
<1>3. ledger' = [in |-> ledger.in \union {k}, own |-> [ledger.own EXCEPT ![k] = ledger.own[k] \union {op.p}],
                 snap |-> ledger.snap]
  BY <1>0, <1>1 DEF LedgerShape, Ledgers
<1>5. /\ ledger' \in Ledgers /\ ledger'.in = ledger.in \union {k} /\ ledger'.snap = ledger.snap
      /\ \A j \in Keys : ledger'.own[j] = IF j = k THEN ledger.own[k] \union {op.p} ELSE ledger.own[j]
  <2>1. ledger.own \in [Keys -> SUBSET Procs] /\ ledger.in \subseteq Keys
        /\ ledger.snap \in [Paths -> SUBSET SUBSET Holders]
    BY <1>0 DEF LedgerShape, Ledgers
  <2>2. [ledger.own EXCEPT ![k] = ledger.own[k] \union {op.p}] \in [Keys -> SUBSET Procs]
    BY <1>0, <2>1
  <2> QED BY <1>3, <2>1, <2>2 DEF Ledgers
<1>6. LedgerShape'  BY <1>0, <1>1, <1>2, <1>5 DEF LedgerShape, Alive
<1>7. Covers(ledger, acl)'  BY <1>0, <1>1, <1>k, <1>5 DEF LedgerInv, Covers
<1>8. OwnersLived'  BY <1>0, <1>1, <1>5 DEF LedgerInv, OwnersLived, Alive
<1>9. Owned(ledger, {})'
  <2>1. ledger.in \subseteq Keys  BY <1>0 DEF LedgerShape, Ledgers
  <2> QED BY <1>1, <1>5, <2>1 DEF LedgerInv, Owned
<1>10. Granted'
  <2>1. \A u \in using : <<u[2], u[3]>> \in Keys  BY <1>0 DEF LedgerShape, Keys
  <2>2. \A j \in Keys : ledger.own[j] \subseteq ledger'.own[j]  BY <1>5
  <2> QED BY <1>1, <2>1, <2>2 DEF LedgerInv, Granted
<1>11. InPrepare'
  <2>1. op'.p \in ledger'.own[op'.k]  BY <1>2, <1>5
  <2> QED BY <1>0, <1>1, <1>2, <1>k, <1>5, <2>1 DEF InPrepare, Alive
<1>12. InRelease' /\ InReconcile'  BY <1>2 DEF InRelease, InReconcile
<1> QED BY <1>6, <1>7, <1>8, <1>9, <1>10, <1>11, <1>12 DEF LedgerInv

(* What is said of an entry that is being written.                         *)
LEMMA Writes ==
  ASSUME LedgerInv, op.kind = "prepare", op.pc = "write",
         op' = [op EXCEPT !.pc = "next", !.todo = @ \ {op.k}]
  PROVE  /\ LedgerShape /\ op \in Preparing /\ op.p \in Procs /\ op.p \in Alive
         /\ op.k \in Keys /\ op.k = <<op.k[1], op.k[2]>> /\ op.k[1] \in Holders /\ op.k[2] \in Paths
         /\ op.p \in ledger.own[op.k]
         /\ op' \in Preparing /\ op'.p = op.p /\ op'.pc = "next" /\ op'.kind = "prepare"
<1>1. LedgerShape /\ op \in Preparing  BY KindOf DEF LedgerInv
<1>2. op.k \in Keys /\ op.p \in Alive /\ op.p \in ledger.own[op.k]  BY DEF LedgerInv, InPrepare
<1>3. op.p \in Procs /\ op' \in Preparing /\ op'.p = op.p /\ op'.pc = "next" /\ op'.kind = "prepare"
  <2> HIDE DEF Keys
  <2> QED BY <1>1 DEF Preparing
<1>4. op.k = <<op.k[1], op.k[2]>> /\ op.k[1] \in Holders /\ op.k[2] \in Paths  BY <1>2
<1> QED BY <1>1, <1>2, <1>3, <1>4

(* The entry is on the disk: the process may use it.                       *)
LEMMA WriteStep ==
  ASSUME LedgerInv, Write
  PROVE  LedgerInv'
<1>1. /\ acl' = [acl EXCEPT ![op.k[2]] = @ \union {op.k[1]}]
      /\ using' = using \union {<<op.p, op.k[1], op.k[2]>>}
      /\ op' = [op EXCEPT !.pc = "next", !.todo = @ \ {op.k}]
      /\ UNCHANGED <<life, ledger, residue>>
  BY DEF Write
<1>0. /\ LedgerShape /\ op \in Preparing /\ op.p \in Procs /\ op.p \in Alive
      /\ op.k \in Keys /\ op.k = <<op.k[1], op.k[2]>> /\ op.k[1] \in Holders /\ op.k[2] \in Paths
      /\ op.p \in ledger.own[op.k]
      /\ op' \in Preparing /\ op'.p = op.p /\ op'.pc = "next" /\ op'.kind = "prepare"
  BY <1>1, Writes DEF Write
<1>2. PICK l \in Holders, x \in Paths : op.k[1] = l /\ op.k[2] = x /\ op.k = <<l, x>>  BY <1>0
<1>3. acl' \in [Paths -> SUBSET Holders]
      /\ \A y \in Paths : acl'[y] = IF y = x THEN acl[y] \union {l} ELSE acl[y]
  BY <1>0, <1>1, <1>2 DEF LedgerShape
<1>4. LedgerShape'
  <2>1. using' \subseteq Alive' \X Holders \X Paths  BY <1>0, <1>1, <1>2 DEF LedgerShape, Alive
  <2> QED BY <1>0, <1>1, <1>3, <2>1 DEF LedgerShape
<1>5. Covers(ledger, acl)'
  <2>1. <<l, x>> \in ledger.in  BY <1>0, <1>2 DEF LedgerInv, Covers
  <2>2. \A y \in Paths : \A m \in acl'[y] : m \in acl[y] \/ (m = l /\ y = x)  BY <1>3
  <2>3. \A y \in Paths : \A m \in acl'[y] : <<m, y>> \in ledger.in \union residue
    BY <2>1, <2>2 DEF LedgerInv, Covers
  <2> QED BY <1>1, <2>3 DEF LedgerInv, Covers
<1>6. OwnersLived' /\ Owned(ledger, {})'
  BY <1>1 DEF LedgerInv, OwnersLived, Owned
<1>7. Granted'
  <2>1. \A u \in using : u[3] \in Paths /\ u[2] \in acl[u[3]] /\ u[1] \in ledger.own[<<u[2], u[3]>>]
    BY <1>0 DEF LedgerShape, LedgerInv, Granted
  <2>2. \A u \in using : u[2] \in acl'[u[3]]  BY <1>3, <2>1
  <2>3. l \in acl'[x]  BY <1>2, <1>3
  <2>4. \A u \in using' : u \in using \/ (u[1] = op.p /\ u[2] = l /\ u[3] = x)  BY <1>1, <1>2
  <2> QED BY <1>0, <1>1, <1>2, <2>1, <2>2, <2>3, <2>4 DEF Granted
<1>8. InPrepare' /\ InRelease' /\ InReconcile'
  BY <1>0, <1>1 DEF InPrepare, InRelease, InReconcile, Alive
<1> QED BY <1>4, <1>5, <1>6, <1>7, <1>8 DEF LedgerInv

(* The entry is refused, or stays behind: what was added for it goes.      *)
LEMMA WriteFailsStep ==
  ASSUME LedgerInv, WriteFails
  PROVE  LedgerInv'
<1>1. /\ ledger' = Withdrawn /\ Fails /\ op.k[1] \notin acl[op.k[2]]
      /\ op' = [op EXCEPT !.pc = "next", !.todo = @ \ {op.k}]
      /\ \/ UNCHANGED <<acl, residue>>
         \/ acl' = [acl EXCEPT ![op.k[2]] = @ \union {op.k[1]}] /\ residue' = residue \union {op.k}
      /\ UNCHANGED <<life, using>>
  BY DEF WriteFails
<1>0. /\ LedgerShape /\ op \in Preparing /\ op.p \in Procs /\ op.p \in Alive
      /\ op.k \in Keys /\ op.k = <<op.k[1], op.k[2]>> /\ op.k[1] \in Holders /\ op.k[2] \in Paths
      /\ op.p \in ledger.own[op.k]
      /\ op' \in Preparing /\ op'.p = op.p /\ op'.pc = "next" /\ op'.kind = "prepare"
  BY <1>1, Writes DEF WriteFails
<1>2. PICK l \in Holders, x \in Paths : op.k[1] = l /\ op.k[2] = x /\ op.k = <<l, x>>  BY <1>0
<1> DEFINE k == <<l, x>>
           led == IF op.added THEN WithoutOwner(ledger, k, op.p) ELSE ledger
           drop == op.snapped /\ \A m \in Holders : <<m, x>> \notin led.in
<1>3. ledger' = IF drop THEN [led EXCEPT !.snap[x] = NoSnap] ELSE led
  BY <1>1, <1>2 DEF Withdrawn
<1>4. k \in Keys /\ k[1] = l /\ k[2] = x /\ \A j \in Keys : j = <<j[1], j[2]>> /\ j[1] \in Holders /\ j[2] \in Paths
  OBVIOUS
<1>5. ledger.own \in [Keys -> SUBSET Procs] /\ ledger.in \subseteq Keys
      /\ ledger.snap \in [Paths -> SUBSET SUBSET Holders]
  BY <1>0 DEF LedgerShape, Ledgers
<1> HIDE DEF k, Keys
<1>6. /\ led \in Ledgers /\ led.snap = ledger.snap /\ led.in \subseteq ledger.in
      /\ \A j \in Keys : led.own[j] \subseteq ledger.own[j] /\ (j # k => led.own[j] = ledger.own[j])
      /\ \A j \in ledger.in : j # k => j \in led.in
      /\ k \notin led.in /\ k \in ledger.in => led.own[k] = {}
  <2> DEFINE rest == ledger.own[k] \ {op.p}
  <2>1. CASE op.added
    <3>1. led = [in |-> IF rest = {} THEN ledger.in \ {k} ELSE ledger.in,
                 own |-> [ledger.own EXCEPT ![k] = rest], snap |-> ledger.snap]
      BY <1>0, <2>1 DEF WithoutOwner, LedgerShape, Ledgers
    <3>2. [ledger.own EXCEPT ![k] = rest] \in [Keys -> SUBSET Procs]  BY <1>4, <1>5
    <3>3. \A j \in Keys : [ledger.own EXCEPT ![k] = rest][j] = IF j = k THEN rest ELSE ledger.own[j]
      BY <1>4, <1>5
    <3> HIDE DEF led
    <3>4. led.own = [ledger.own EXCEPT ![k] = rest] /\ led.snap = ledger.snap
          /\ led.in = IF rest = {} THEN ledger.in \ {k} ELSE ledger.in
      BY <3>1
    <3>5. led \in Ledgers
      <4> DEFINE f == [ledger.own EXCEPT ![k] = rest]
      <4> HIDE DEF f, rest
      <4> QED BY <1>5, <3>1, <3>2 DEF Ledgers, f
    <3> QED BY <1>4, <1>5, <3>3, <3>4, <3>5
  <2>2. CASE ~op.added  BY <1>0, <1>5, <2>2 DEF LedgerShape
  <2> QED BY <2>1, <2>2
<1> HIDE DEF led
<1>7. /\ ledger' \in Ledgers /\ ledger'.in = led.in /\ ledger'.own = led.own
      /\ \A y \in Paths : ledger'.snap[y] = IF y = x /\ drop THEN NoSnap ELSE ledger.snap[y]
  <2>1. CASE drop
    <3>1. ledger' = [in |-> led.in, own |-> led.own, snap |-> [ledger.snap EXCEPT ![x] = NoSnap]]
      BY <1>3, <1>6, <2>1 DEF Ledgers
    <3>2. led.in \in SUBSET Keys /\ led.own \in [Keys -> SUBSET Procs]  BY <1>6 DEF Ledgers
    <3>3. [ledger.snap EXCEPT ![x] = NoSnap] \in [Paths -> SUBSET SUBSET Holders]
      BY <1>5 DEF NoSnap
    <3> QED BY <1>5, <2>1, <3>1, <3>2, <3>3 DEF Ledgers
  <2>2. CASE ~drop  BY <1>3, <1>6, <2>2
  <2> QED BY <2>1, <2>2
<1>8. /\ acl' \in [Paths -> SUBSET Holders] /\ residue' \subseteq Keys
      /\ \A y \in Paths : acl[y] \subseteq acl'[y]
      /\ residue \subseteq residue'
      /\ \A y \in Paths : \A m \in acl'[y] : m \in acl[y] \/ <<m, y>> \in residue'
  <2>1. acl \in [Paths -> SUBSET Holders] /\ residue \subseteq Keys  BY <1>0 DEF LedgerShape
  <2>2. CASE UNCHANGED <<acl, residue>>  BY <2>1, <2>2
  <2>3. CASE acl' = [acl EXCEPT ![x] = @ \union {l}] /\ residue' = residue \union {k}
    <3>1. \A y \in Paths : acl'[y] = IF y = x THEN acl[y] \union {l} ELSE acl[y]  BY <2>1, <2>3
    <3>2. acl' \in [Paths -> SUBSET Holders]  BY <2>1, <2>3
    <3>3. \A y \in Paths : \A m \in acl'[y] : m \in acl[y] \/ (m = l /\ y = x)  BY <3>1
    <3> QED BY <1>4, <2>1, <2>3, <3>1, <3>2, <3>3 DEF k
  <2> QED BY <1>1, <1>2, <2>2, <2>3 DEF k
<1>9. LedgerShape'  BY <1>0, <1>1, <1>7, <1>8 DEF LedgerShape, Alive
<1>10. Covers(ledger, acl)'
  <2>1. \A y \in Paths : \A m \in acl[y] : m \in Holders /\ <<m, y>> # k
    BY <1>0, <1>1, <1>2 DEF LedgerShape, k
  <2>2. \A y \in Paths : \A m \in acl[y] : <<m, y>> \in ledger.in \union residue
    BY DEF LedgerInv, Covers
  <2>3. \A y \in Paths : \A m \in acl'[y] : <<m, y>> \in ledger'.in \union residue'
    BY <1>6, <1>7, <1>8, <2>1, <2>2
  <2>4. \A j \in Keys : ledger'.own[j] # {} => j \in ledger'.in
    BY <1>4, <1>6, <1>7 DEF LedgerInv, Covers
  <2>5. \A j \in ledger'.in : j[2] \in Inside => ledger'.snap[j[2]] # NoSnap
    BY <1>4, <1>5, <1>6, <1>7 DEF LedgerInv, Covers
  <2>6. \A y \in Paths : \A m \in UNION ledger'.snap[y] : <<m, y>> \in residue'
    <3> SUFFICES ASSUME NEW y \in Paths, NEW S \in ledger'.snap[y], NEW m \in S PROVE <<m, y>> \in residue'
      OBVIOUS
    <3>1. S \in ledger.snap[y]  BY <1>7 DEF NoSnap
    <3> QED BY <1>8, <3>1 DEF LedgerInv, Covers
  <2> QED BY <2>3, <2>4, <2>5, <2>6 DEF Covers
<1>11. OwnersLived' /\ Owned(ledger, {})'
  BY <1>0, <1>1, <1>6, <1>7 DEF LedgerInv, OwnersLived, Owned
<1>12. Granted'
  <2>1. \A u \in using : <<u[2], u[3]>> \in Keys /\ u[3] \in Paths /\ u[2] \in acl[u[3]]
    BY <1>0 DEF LedgerShape, LedgerInv, Granted, Keys
  <2>2. \A u \in using : <<u[2], u[3]>> # k  BY <1>1, <1>2, <2>1 DEF k
  <2>3. \A u \in using : u[1] \in ledger.own[<<u[2], u[3]>>]  BY DEF LedgerInv, Granted
  <2>4. \A u \in using : led.own[<<u[2], u[3]>>] = ledger.own[<<u[2], u[3]>>]  BY <1>6, <2>1, <2>2
  <2> QED BY <1>1, <1>7, <1>8, <2>1, <2>3, <2>4 DEF Granted
<1>13. InPrepare' /\ InRelease' /\ InReconcile'
  BY <1>0, <1>1 DEF InPrepare, InRelease, InReconcile, Alive
<1> QED BY <1>9, <1>10, <1>11, <1>12, <1>13 DEF LedgerInv

(* All paths are prepared.                                                 *)
LEMMA PreparedStep ==
  ASSUME LedgerInv, Prepared
  PROVE  LedgerInv'
<1>1. op' = Idle /\ UNCHANGED <<life, acl, ledger, using, residue>>  BY DEF Prepared
<1> QED BY <1>1, AtRest DEF LedgerInv, LedgerShape, Alive, Covers, OwnersLived, Owned, Granted

(* A lease is given back: in memory first.                                 *)
LEMMA ReleaseStep ==
  ASSUME LedgerInv, NEW p \in Procs, NEW l \in Leases, Release(p, l)
  PROVE  LedgerInv'
<1> DEFINE own == [k \in Keys |-> IF k[1] = l THEN ledger.own[k] \ {p} ELSE ledger.own[k]]
           mem == [ledger EXCEPT !.own = own]
           todo == {x \in Left(l, p) : l \in Calls \/ p \in ledger.own[<<l, x>>]}
           o == [kind |-> "release", p |-> p, l |-> l, todo |-> todo, mem |-> mem]
<1>0. LedgerShape /\ p \in Alive  BY DEF LedgerInv, Release
<1>1. /\ op' = o /\ UNCHANGED <<life, acl, ledger, residue>>
      /\ using' = {u \in using : ~(u[1] = p /\ u[2] = l)}
  <2>1. [ledger EXCEPT !.own = [k \in Keys |-> IF k[1] = l THEN @[k] \ {p} ELSE @[k]]] = mem  OBVIOUS
  <2> QED BY <2>1 DEF Release
<1>2. ledger.own \in [Keys -> SUBSET Procs] /\ ledger.in \subseteq Keys /\ ledger.snap \in [Paths -> SUBSET SUBSET Holders]
  BY <1>0 DEF LedgerShape, Ledgers
<1>3. /\ own \in [Keys -> SUBSET Procs]
      /\ \A k \in Keys : own[k] = IF k[1] = l THEN ledger.own[k] \ {p} ELSE ledger.own[k]
  <2> HIDE DEF Keys
  <2> QED BY <1>2
<1> HIDE DEF own
<1>4. mem \in Ledgers /\ mem.in = ledger.in /\ mem.own = own /\ mem.snap = ledger.snap
  <2>1. mem = [in |-> ledger.in, own |-> own, snap |-> ledger.snap]  BY <1>0 DEF LedgerShape, Ledgers
  <2> QED BY <1>2, <1>3, <2>1 DEF Ledgers
<1> HIDE DEF mem
<1>5. /\ \A x \in todo : x \in Paths /\ <<l, x>> \in ledger.in /\ ledger.own[<<l, x>>] \subseteq {p}
      /\ \A x \in Paths : <<l, x>> \in ledger.in /\ p \in ledger.own[<<l, x>>] /\ ledger.own[<<l, x>>] \subseteq {p} => x \in todo
      /\ todo \subseteq Paths
  BY DEF Left
<1> HIDE DEF todo
<1>6. o \in Releasing /\ o.kind = "release" /\ o.p = p /\ o.l = l /\ o.todo = todo /\ o.mem = mem
  BY <1>4, <1>5, Lends DEF Releasing
<1> HIDE DEF o
<1>7. LedgerShape'
  <2>1. using' \subseteq Alive' \X Holders \X Paths  BY <1>0, <1>1 DEF LedgerShape, Alive
  <2> QED BY <1>0, <1>1, <1>6, <2>1 DEF LedgerShape
<1>8. Covers(mem, acl)
  <2>1. Covers(ledger, acl)  BY DEF LedgerInv
  <2>2. \A k \in Keys : own[k] # {} => ledger.own[k] # {}  BY <1>3
  <2> QED BY <1>4, <2>1, <2>2 DEF Covers
<1>9. Owned(mem, {<<l, x>> : x \in todo})
  <2> SUFFICES ASSUME ~Fails, NEW k \in ledger.in, k \notin {<<l, x>> : x \in todo}, own[k] = {} PROVE FALSE
    BY <1>4 DEF Owned
  <2>1. k \in Keys /\ ledger.own[k] # {}  BY <1>2 DEF LedgerInv, Owned
  <2>2. k[1] = l /\ ledger.own[k] \subseteq {p} /\ p \in ledger.own[k]  BY <1>3, <2>1
  <2>3. k = <<l, k[2]>> /\ k[2] \in Paths  BY <2>1, <2>2
  <2>4. k[2] \in todo  BY <1>5, <2>2, <2>3
  <2> QED BY <2>3, <2>4
<1>10. InRelease'
  <2>1. op'.mem.own = [k \in Keys |-> IF k[1] = op'.l THEN ledger'.own[k] \ {op'.p} ELSE ledger'.own[k]]
    BY <1>1, <1>4, <1>6 DEF own
  <2>2. \A u \in using' : ~(u[1] = p /\ u[2] = l)  BY <1>1
  <2>3. Covers(op.mem, acl)' /\ Owned(op'.mem, {<<op'.l, x>> : x \in op'.todo})
    BY <1>1, <1>6, <1>8, <1>9 DEF Covers
  <2> QED BY <1>0, <1>1, <1>4, <1>5, <1>6, <2>1, <2>2, <2>3 DEF InRelease, Alive
<1>11. InPrepare' /\ InReconcile'  BY <1>1, <1>6 DEF InPrepare, InReconcile
<1> QED BY <1>1, <1>7, <1>10, <1>11 DEF LedgerInv, Covers, OwnersLived, Owned, Granted

(* An entry without an owner goes; the last one on a path inside the root  *)
(* gives the path back.                                                    *)
LEMMA FinalizeStep ==
  ASSUME LedgerInv, NEW x \in Paths, Finalize(x)
  PROVE  LedgerInv'
<1> DEFINE k == <<op.l, x>>
           whole == Alone(op.mem, op.l, x) /\ op.mem.snap[x] # NoSnap
           mem == [in |-> op.mem.in \ {k}, own |-> op.mem.own,
                   snap |-> [op.mem.snap EXCEPT ![x] = IF whole THEN NoSnap ELSE op.mem.snap[x]]]
<1>0. LedgerShape /\ op \in Releasing /\ op.kind = "release" /\ x \in op.todo /\ op.p \in Procs /\ op.l \in Holders
      /\ op.mem \in Ledgers /\ op.todo \subseteq Paths
  BY KindOf DEF LedgerInv, Finalize, Releasing
<1>1. /\ acl' = [acl EXCEPT ![x] = IF whole THEN UNION op.mem.snap[x] ELSE acl[x] \ {op.l}]
      /\ op' = [op EXCEPT !.todo = @ \ {x}, !.mem.in = @ \ {k}, !.mem.snap[x] = IF whole THEN NoSnap ELSE @]
      /\ UNCHANGED <<life, ledger, using, residue>>
  BY DEF Finalize
<1>2. /\ Covers(op.mem, acl) /\ Owned(op.mem, {<<op.l, y>> : y \in op.todo})
      /\ op.mem.own = [j \in Keys |-> IF j[1] = op.l THEN ledger.own[j] \ {op.p} ELSE ledger.own[j]]
      /\ op.mem.in \subseteq ledger.in
      /\ \A j \in ledger.in : j[1] # op.l => j \in op.mem.in
      /\ \A u \in using : ~(u[1] = op.p /\ u[2] = op.l)
      /\ \A y \in op.todo : <<op.l, y>> \in op.mem.in /\ ledger.own[<<op.l, y>>] \subseteq {op.p}
      /\ op.p \in Alive
  BY <1>0 DEF LedgerInv, InRelease
<1>3. op' = [kind |-> "release", p |-> op.p, l |-> op.l, todo |-> op.todo \ {x}, mem |-> mem]
  <2>1. op = [kind |-> op.kind, p |-> op.p, l |-> op.l, todo |-> op.todo, mem |-> op.mem]
        /\ op.mem = [in |-> op.mem.in, own |-> op.mem.own, snap |-> op.mem.snap]
    BY <1>0 DEF Releasing, Ledgers
  <2> QED BY <1>0, <1>1, <2>1
<1>4. k \in Keys /\ k[1] = op.l /\ k[2] = x /\ \A j \in Keys : j = <<j[1], j[2]>> /\ j[1] \in Holders /\ j[2] \in Paths
  BY <1>0
<1>5. op.mem.own \in [Keys -> SUBSET Procs] /\ op.mem.in \subseteq Keys /\ op.mem.snap \in [Paths -> SUBSET SUBSET Holders]
      /\ \A j \in Keys : op.mem.own[j] = IF j[1] = op.l THEN ledger.own[j] \ {op.p} ELSE ledger.own[j]
  <2> HIDE DEF Keys
  <2> QED BY <1>0, <1>2 DEF Ledgers
<1> HIDE DEF Keys, k
<1>6. /\ mem \in Ledgers /\ mem.in = op.mem.in \ {k} /\ mem.own = op.mem.own
      /\ \A y \in Paths : mem.snap[y] = IF y = x /\ whole THEN NoSnap ELSE op.mem.snap[y]
  <2> DEFINE a == IF whole THEN NoSnap ELSE op.mem.snap[x]
             f == [op.mem.snap EXCEPT ![x] = a]
  <2>1. a \in SUBSET SUBSET Holders  BY <1>5 DEF NoSnap
  <2> HIDE DEF a
  <2>2. f \in [Paths -> SUBSET SUBSET Holders] /\ \A y \in Paths : f[y] = IF y = x THEN a ELSE op.mem.snap[y]
    BY <1>5, <2>1
  <2>3. mem = [in |-> op.mem.in \ {k}, own |-> op.mem.own, snap |-> f]  BY DEF a
  <2> HIDE DEF f, mem
  <2>4. mem \in Ledgers /\ mem.in = op.mem.in \ {k} /\ mem.own = op.mem.own /\ mem.snap = f
    BY <1>5, <2>2, <2>3 DEF Ledgers
  <2> QED BY <2>2, <2>4 DEF a
<1> HIDE DEF mem
<1>7. /\ op' \in Releasing /\ op'.kind = "release" /\ op'.p = op.p /\ op'.l = op.l
      /\ op'.todo = op.todo \ {x} /\ op'.mem = mem
  BY <1>0, <1>3, <1>6 DEF Releasing
<1>8. /\ acl' \in [Paths -> SUBSET Holders]
      /\ \A y \in Paths : y # x => acl'[y] = acl[y]
      /\ whole => \A m \in acl'[x] : <<m, x>> \in residue
      /\ ~whole => acl'[x] = acl[x] \ {op.l}
  <2>1. acl \in [Paths -> SUBSET Holders]  BY <1>0 DEF LedgerShape
  <2>2. UNION op.mem.snap[x] \subseteq Holders  BY <1>5
  <2>3. \A m \in UNION op.mem.snap[x] : <<m, x>> \in residue  BY <1>2 DEF Covers
  <2> HIDE DEF whole
  <2>4. acl' \in [Paths -> SUBSET Holders]
        /\ \A y \in Paths : acl'[y] = IF y # x THEN acl[y] ELSE IF whole THEN UNION op.mem.snap[x] ELSE acl[x] \ {op.l}
    BY <1>1, <2>1, <2>2
  <2> QED BY <2>3, <2>4
<1>9. whole => \A m \in Holders : m # op.l => <<m, x>> \notin op.mem.in  BY DEF Alone
<1>10. k \in op.mem.in /\ op.mem.own[k] = {}
  BY <1>0, <1>2, <1>4, <1>5 DEF k
<1> HIDE DEF whole
<1>11. LedgerShape'
  <2>1. Alive' = Alive  BY <1>1 DEF Alive
  <2> QED BY <1>0, <1>1, <1>7, <1>8, <2>1 DEF LedgerShape
<1>12. Covers(ledger, acl)'
  <2>1. \A y \in Paths : \A m \in acl'[y] : m \in acl[y] \/ <<m, y>> \in residue  BY <1>8
  <2> QED BY <1>1, <2>1 DEF LedgerInv, Covers
<1>13. OwnersLived' /\ Owned(ledger, {})'  BY <1>1 DEF LedgerInv, OwnersLived, Owned
<1>14. Granted'
  <2> SUFFICES ASSUME NEW u \in using PROVE u[2] \in acl'[u[3]] /\ u[1] \in ledger.own[<<u[2], u[3]>>]
    BY <1>1 DEF Granted
  <2>1. u[2] \in acl[u[3]] /\ u[1] \in ledger.own[<<u[2], u[3]>>]  BY DEF LedgerInv, Granted
  <2>2. u[2] \in Holders /\ u[3] \in Paths /\ <<u[2], u[3]>> \in Keys  BY <1>0 DEF LedgerShape, Keys
  <2>3. CASE u[3] # x  BY <1>8, <2>1, <2>2, <2>3
  <2>4. CASE u[3] = x
    <3>1. u[2] # op.l
      <4>1. u[2] = op.l => u[1] \in {op.p}  BY <1>0, <1>2, <2>1, <2>4
      <4> QED BY <1>2, <4>1
    <3>2. <<u[2], x>> \in op.mem.in
      <4>1. <<u[2], u[3]>> \in ledger.in
        <5>1. ledger.own[<<u[2], u[3]>>] # {}  BY <2>1
        <5> QED BY <2>2, <5>1 DEF LedgerInv, Covers
      <4> QED BY <1>2, <2>4, <3>1, <4>1
    <3>3. ~whole  BY <1>9, <2>2, <3>1, <3>2
    <3> QED BY <1>8, <2>1, <2>4, <3>1, <3>3
  <2> QED BY <2>3, <2>4
<1>15. Covers(mem, acl')
  <2>1. \A y \in Paths : \A l \in acl'[y] : <<l, y>> \in mem.in \union residue
    <3> SUFFICES ASSUME NEW y \in Paths, NEW l \in acl'[y], <<l, y>> \notin residue PROVE <<l, y>> \in mem.in
      OBVIOUS
    <3>1. l \in acl[y] /\ (y = x => l # op.l)  BY <1>8
    <3>2. <<l, y>> \in op.mem.in /\ <<l, y>> # k  BY <1>2, <3>1 DEF Covers, k
    <3> QED BY <1>6, <3>2
  <2>0. \A y \in Paths : \A l \in UNION mem.snap[y] : <<l, y>> \in residue
    <3> SUFFICES ASSUME NEW y \in Paths, NEW S \in mem.snap[y], NEW l \in S PROVE <<l, y>> \in residue
      OBVIOUS
    <3>1. S \in op.mem.snap[y]  BY <1>6 DEF NoSnap
    <3> QED BY <1>2, <3>1 DEF Covers
  <2>2. \A j \in Keys : mem.own[j] # {} => j \in mem.in  BY <1>2, <1>6, <1>10 DEF Covers
  <2>3. \A j \in mem.in : j[2] \in Inside => mem.snap[j[2]] # NoSnap
    <3> SUFFICES ASSUME NEW j \in mem.in, j[2] \in Inside PROVE mem.snap[j[2]] # NoSnap  OBVIOUS
    <3>1. j \in op.mem.in /\ j # k /\ j \in Keys  BY <1>5, <1>6
    <3>2. op.mem.snap[j[2]] # NoSnap  BY <1>2, <3>1 DEF Covers
    <3>3. j[2] = x => ~whole  BY <1>4, <1>9, <3>1
    <3> QED BY <1>4, <1>6, <3>1, <3>2, <3>3
  <2> QED BY <2>0, <2>1, <2>2, <2>3 DEF Covers
<1>16. Owned(mem, {<<op.l, y>> : y \in op.todo \ {x}})
  <2>1. \A j \in mem.in : j \in op.mem.in /\ j # k  BY <1>6
  <2>2. \A j \in mem.in : j \in {<<op.l, y>> : y \in op.todo} => j \in {<<op.l, y>> : y \in op.todo \ {x}}
    BY <2>1 DEF k
  <2> QED BY <1>2, <1>6, <2>1, <2>2 DEF Owned
<1>17. InRelease'
  <2>1. op'.mem.own = [j \in Keys |-> IF j[1] = op'.l THEN ledger'.own[j] \ {op'.p} ELSE ledger'.own[j]]
    BY <1>1, <1>2, <1>6, <1>7
  <2>2. op'.mem.in \subseteq ledger'.in /\ \A j \in ledger'.in : j[1] # op'.l => j \in op'.mem.in
    BY <1>1, <1>2, <1>4, <1>6, <1>7
  <2>3. \A y \in op'.todo : <<op'.l, y>> \in op'.mem.in /\ ledger'.own[<<op'.l, y>>] \subseteq {op'.p}
    BY <1>1, <1>2, <1>6, <1>7 DEF k
  <2>4. Covers(op.mem, acl)' /\ Owned(op'.mem, {<<op'.l, y>> : y \in op'.todo})
    BY <1>1, <1>7, <1>15, <1>16 DEF Covers
  <2>5. op'.p \in Alive' /\ \A u \in using' : ~(u[1] = op'.p /\ u[2] = op'.l)  BY <1>1, <1>2, <1>7 DEF Alive
  <2> QED BY <2>1, <2>2, <2>3, <2>4, <2>5 DEF InRelease
<1>18. InPrepare' /\ InReconcile'  BY <1>7 DEF InPrepare, InReconcile
<1> QED BY <1>11, <1>12, <1>13, <1>14, <1>17, <1>18 DEF LedgerInv

(* A path cannot be given back: it stays recorded.                         *)
LEMMA FinalizeFailsStep ==
  ASSUME LedgerInv, NEW x \in Paths, FinalizeFails(x)
  PROVE  LedgerInv'
<1>0. LedgerShape /\ op \in Releasing /\ op.kind = "release" /\ x \in op.todo /\ Fails
  BY KindOf DEF LedgerInv, FinalizeFails
<1>1. op' = [op EXCEPT !.todo = @ \ {x}] /\ UNCHANGED <<life, acl, ledger, using, residue>>
  BY DEF FinalizeFails
<1>2. /\ op' \in Releasing /\ op'.kind = "release" /\ op'.p = op.p /\ op'.l = op.l
      /\ op'.todo = op.todo \ {x} /\ op'.mem = op.mem
  BY <1>0, <1>1 DEF Releasing
<1>3. Alive' = Alive  BY <1>1 DEF Alive
<1>4. InRelease'
  <2>1. Owned(op'.mem, {<<op'.l, y>> : y \in op'.todo})  BY <1>0 DEF Owned
  <2>2. op'.mem.own = [j \in Keys |-> IF j[1] = op'.l THEN ledger'.own[j] \ {op'.p} ELSE ledger'.own[j]]
    BY <1>0, <1>1, <1>2 DEF LedgerInv, InRelease
  <2>3. Covers(op.mem, acl)'  BY <1>0, <1>1, <1>2 DEF LedgerInv, InRelease, Covers
  <2> QED BY <1>0, <1>1, <1>2, <1>3, <2>1, <2>2, <2>3 DEF LedgerInv, InRelease
<1>5. InPrepare' /\ InReconcile'  BY <1>2 DEF InPrepare, InReconcile
<1>6. LedgerShape'  BY <1>0, <1>1, <1>2, <1>3 DEF LedgerShape
<1> QED BY <1>1, <1>4, <1>5, <1>6 DEF LedgerInv, Covers, OwnersLived, Owned, Granted

(* What was given back is written down, or was not.                        *)
LEMMA ReleasedStep ==
  ASSUME LedgerInv, Released
  PROVE  LedgerInv'
<1>0. LedgerShape /\ op \in Releasing /\ op.kind = "release" /\ op.todo = {} /\ op.mem \in Ledgers
  BY KindOf DEF LedgerInv, Released, Releasing
<1>1. op' = Idle /\ (ledger' = op.mem \/ ledger' = ledger) /\ UNCHANGED <<life, acl, using, residue>>
  BY DEF Released
<1>2. Alive' = Alive  BY <1>1 DEF Alive
<1>3. LedgerShape'  BY <1>0, <1>1, <1>2 DEF LedgerShape
<1>4. Covers(ledger, acl)' /\ Owned(ledger, {})'
  BY <1>0, <1>1 DEF LedgerInv, InRelease, Covers, Owned
<1>5. \A k \in Keys : op.mem.own[k] = IF k[1] = op.l THEN ledger.own[k] \ {op.p} ELSE ledger.own[k]
  <2>1. op.mem.own = [k \in Keys |-> IF k[1] = op.l THEN ledger.own[k] \ {op.p} ELSE ledger.own[k]]
    BY <1>0 DEF LedgerInv, InRelease
  <2> HIDE DEF Keys
  <2> QED BY <2>1
<1>6. OwnersLived'
  <2>1. \A k \in Keys : ledger'.own[k] \subseteq ledger.own[k]  BY <1>1, <1>5
  <2> QED BY <1>1, <2>1 DEF LedgerInv, OwnersLived
<1>7. Granted'
  <2> SUFFICES ASSUME NEW u \in using PROVE u[2] \in acl[u[3]] /\ u[1] \in ledger'.own[<<u[2], u[3]>>]
    BY <1>1 DEF Granted
  <2>1. <<u[2], u[3]>> \in Keys /\ <<u[2], u[3]>>[1] = u[2]  BY <1>0 DEF LedgerShape
  <2>2. u[2] \in acl[u[3]] /\ u[1] \in ledger.own[<<u[2], u[3]>>]  BY DEF LedgerInv, Granted
  <2>3. ~(u[1] = op.p /\ u[2] = op.l)  BY <1>0 DEF LedgerInv, InRelease
  <2> HIDE DEF Keys
  <2> QED BY <1>1, <1>5, <2>1, <2>2, <2>3
<1> QED BY <1>1, <1>3, <1>4, <1>6, <1>7, AtRest DEF LedgerInv

(* A reconciliation begins: what of the ledger belongs to the dead alone.  *)
LEMMA ReconcileStep ==
  ASSUME LedgerInv, NEW p \in Procs, Reconcile(p)
  PROVE  LedgerInv'
<1> DEFINE dead == {k \in Keys : Dead(k)}
           snaps == {x \in Paths : ledger.snap[x] # NoSnap
                                     /\ \A m \in Holders : <<m, x>> \in ledger.in => <<m, x>> \in dead}
           revoke == {k \in dead : k[2] \notin snaps}
           o == [kind |-> "reconcile", p |-> p, dead |-> dead, snaps |-> snaps,
                 revoke |-> revoke, restore |-> snaps, ok |-> TRUE, living |-> Alive]
<1>0. LedgerShape  BY DEF LedgerInv
<1>1. op' = o /\ UNCHANGED <<life, acl, ledger, using, residue>>  BY DEF Reconcile
<1>2. /\ dead \subseteq Keys /\ snaps \subseteq Paths /\ revoke \subseteq dead
      /\ \A k \in dead : k \in ledger.in /\ ledger.own[k] # {} /\ ledger.own[k] \intersect Alive = {}
      /\ \A k \in Keys \ dead : k \in ledger.in /\ ledger.own[k] # {} => ledger.own[k] \intersect Alive # {}
      /\ \A k \in dead : k \in revoke \/ k[2] \in snaps
  BY DEF Dead
<1>3. \A x \in snaps : ledger.snap[x] # NoSnap /\ \A l \in Holders : <<l, x>> \in ledger.in => <<l, x>> \in dead  OBVIOUS
<1>4. ledger.in \subseteq Keys  BY <1>0 DEF LedgerShape, Ledgers
<1> HIDE DEF dead, snaps, revoke
<1>5. /\ o \in Reconciling /\ o.kind = "reconcile" /\ o.p = p /\ o.dead = dead /\ o.snaps = snaps
      /\ o.revoke = revoke /\ o.restore = snaps /\ o.ok = TRUE /\ o.living = Alive
  BY <1>2 DEF Reconciling, Alive
<1> HIDE DEF o
<1>6. Alive' = Alive  BY <1>1 DEF Alive
<1>7. LedgerShape'  BY <1>0, <1>1, <1>5, <1>6 DEF LedgerShape
<1>8. InReconcile'  BY <1>1, <1>2, <1>3, <1>4, <1>5, <1>6 DEF InReconcile
<1>9. InPrepare' /\ InRelease'  BY <1>1, <1>5 DEF InPrepare, InRelease
<1> QED BY <1>1, <1>7, <1>8, <1>9 DEF LedgerInv, Covers, OwnersLived, Owned, Granted

(* What a reconciliation knows while it is under way.                      *)
LEMMA Reconciles ==
  ASSUME LedgerInv, op.kind = "reconcile"
  PROVE  /\ LedgerShape /\ op \in Reconciling /\ op.p \in Procs /\ op.dead \subseteq ledger.in
         /\ op.snaps \subseteq Paths /\ op.dead \subseteq Keys /\ op.ok \in BOOLEAN
         /\ \A x \in op.snaps : ledger.snap[x] # NoSnap
         /\ \A k \in op.dead : ledger.own[k] # {} /\ ledger.own[k] \intersect Alive = {}
         /\ \A k \in ledger.in \ op.dead : ledger.own[k] # {} => ledger.own[k] \intersect op.living # {}
         /\ \A x \in op.snaps : \A l \in Holders : <<l, x>> \in ledger.in => <<l, x>> \in op.dead
         /\ op.restore \subseteq op.snaps /\ op.revoke \subseteq op.dead
         /\ op.ok => \A k \in op.dead : k \in op.revoke \/ k[2] \in op.restore \/ k[1] \notin acl[k[2]] \/ k \in residue
         /\ ~Fails => op.ok
         /\ \A u \in using : <<u[2], u[3]>> \notin op.dead /\ <<u[2], u[3]>> \in ledger.in
         /\ \A u \in using : u[2] \in Holders /\ u[3] \in Paths
<1>1. LedgerShape /\ op \in Reconciling  BY KindOf DEF LedgerInv
<1>2. \A u \in using : u[1] \in Alive /\ u[1] \in ledger.own[<<u[2], u[3]>>] /\ u[2] \in Holders /\ u[3] \in Paths
  BY <1>1 DEF LedgerShape, LedgerInv, Granted
<1>3. \A u \in using : <<u[2], u[3]>> \in ledger.in
  <2> SUFFICES ASSUME NEW u \in using PROVE <<u[2], u[3]>> \in ledger.in  OBVIOUS
  <2>1. <<u[2], u[3]>> \in Keys /\ ledger.own[<<u[2], u[3]>>] # {}  BY <1>2
  <2> QED BY <2>1 DEF LedgerInv, Covers
<1>4. \A k \in op.dead : ledger.own[k] \intersect Alive = {}  BY DEF LedgerInv, InReconcile
<1>5. \A u \in using : <<u[2], u[3]>> \notin op.dead  BY <1>2, <1>4
<1>6. /\ op.dead \subseteq ledger.in
      /\ \A k \in op.dead : ledger.own[k] # {}
      /\ \A k \in ledger.in \ op.dead : ledger.own[k] # {} => ledger.own[k] \intersect op.living # {}
      /\ \A x \in op.snaps : \A l \in Holders : <<l, x>> \in ledger.in => <<l, x>> \in op.dead
      /\ \A x \in op.snaps : ledger.snap[x] # NoSnap
      /\ op.restore \subseteq op.snaps /\ op.revoke \subseteq op.dead
      /\ op.ok => \A k \in op.dead : k \in op.revoke \/ k[2] \in op.restore \/ k[1] \notin acl[k[2]] \/ k \in residue
      /\ ~Fails => op.ok
  BY DEF LedgerInv, InReconcile
<1>7. op.snaps \subseteq Paths /\ op.dead \subseteq Keys /\ op.ok \in BOOLEAN /\ op.p \in Procs  BY <1>1 DEF Reconciling
<1> QED BY <1>1, <1>2, <1>3, <1>4, <1>5, <1>6, <1>7

(* Less is on the disk, of what nobody uses.                               *)
LEMMA TakenOff ==
  ASSUME LedgerInv, op.kind = "reconcile", UNCHANGED <<life, ledger, using, residue>>,
         acl' \in [Paths -> SUBSET Holders], \A x \in Paths : \A l \in acl'[x] : l \in acl[x] \/ <<l, x>> \in residue,
         \A u \in using : u[2] \in acl'[u[3]],
         op' \in Reconciling, op'.p = op.p, op'.dead = op.dead, op'.snaps = op.snaps, op'.living = op.living,
         op'.revoke \subseteq op.revoke, op'.restore \subseteq op.restore, ~Fails => op'.ok,
         op'.ok => \A k \in op.dead : k \in op'.revoke \/ k[2] \in op'.restore \/ k[1] \notin acl'[k[2]] \/ k \in residue
  PROVE  LedgerInv'
<1>1. Alive' = Alive  BY DEF Alive
<1>2. LedgerShape'  BY <1>1, Reconciles DEF LedgerShape
<1>3. Covers(ledger, acl)'  BY DEF LedgerInv, Covers
<1>4. Granted' /\ OwnersLived' /\ Owned(ledger, {})'  BY DEF LedgerInv, Granted, OwnersLived, Owned
<1>5. op'.kind = "reconcile"  BY IdleShape
<1>6. InReconcile'  BY <1>1, Reconciles DEF InReconcile
<1>7. InPrepare' /\ InRelease'  BY <1>5 DEF InPrepare, InRelease
<1> QED BY <1>2, <1>3, <1>4, <1>6, <1>7 DEF LedgerInv

(* An entry of the dead is taken off the disk, or is not.                  *)
LEMMA RevokeStep ==
  ASSUME LedgerInv, NEW k \in Keys, Revoke(k)
  PROVE  LedgerInv'
<1>0. op.kind = "reconcile" /\ k \in op.revoke /\ UNCHANGED <<life, ledger, using, residue>>  BY DEF Revoke
<1>1. LedgerShape /\ op \in Reconciling  BY <1>0, Reconciles
<1>2. CASE acl' = [acl EXCEPT ![k[2]] = @ \ {k[1]}] /\ op' = [op EXCEPT !.revoke = @ \ {k}]
  <2>1. /\ op' \in Reconciling /\ op'.p = op.p /\ op'.dead = op.dead /\ op'.snaps = op.snaps
        /\ op'.living = op.living /\ op'.revoke = op.revoke \ {k} /\ op'.restore = op.restore /\ op'.ok = op.ok
    BY <1>1, <1>2 DEF Reconciling
  <2>2. /\ acl' \in [Paths -> SUBSET Holders] /\ k[2] \in Paths /\ k[1] \in Holders /\ k = <<k[1], k[2]>>
        /\ \A x \in Paths : acl'[x] = IF x = k[2] THEN acl[x] \ {k[1]} ELSE acl[x]
    <3>1. k[2] \in Paths /\ k[1] \in Holders /\ k = <<k[1], k[2]>>  BY DEF Keys
    <3>2. acl \in [Paths -> SUBSET Holders]  BY <1>1 DEF LedgerShape
    <3> HIDE DEF Keys
    <3> QED BY <1>2, <3>1, <3>2
  <2> HIDE DEF Keys
  <2>3. \A x \in Paths : acl'[x] \subseteq acl[x]  BY <2>2
  <2>4. \A u \in using : u[2] \in acl'[u[3]]
    <3>1. \A u \in using : u[2] \in acl[u[3]] /\ u[3] \in Paths /\ <<u[2], u[3]>> # k
      BY <1>0, Reconciles DEF LedgerInv, Granted
    <3> QED BY <2>2, <3>1
  <2>5. op.ok => \A j \in op.dead : j \in op'.revoke \/ j[2] \in op'.restore \/ j[1] \notin acl'[j[2]] \/ j \in residue
    <3>1. \A j \in op.dead : j[2] \in Paths  BY <1>0, Reconciles DEF Keys
    <3>2. op.ok => \A j \in op.dead : j \in op.revoke \/ j[2] \in op.restore \/ j[1] \notin acl[j[2]] \/ j \in residue
      BY <1>0, Reconciles
    <3>3. k[1] \notin acl'[k[2]]  BY <2>2
    <3> QED BY <2>1, <2>3, <3>1, <3>2, <3>3
  <2> QED BY <1>0, <2>1, <2>2, <2>3, <2>4, <2>5, TakenOff, Reconciles
<1>3. CASE Fails /\ op' = [op EXCEPT !.revoke = @ \ {k}, !.ok = FALSE] /\ UNCHANGED acl
  <2>1. /\ op' \in Reconciling /\ op'.p = op.p /\ op'.dead = op.dead /\ op'.snaps = op.snaps
        /\ op'.living = op.living /\ op'.revoke = op.revoke \ {k} /\ op'.restore = op.restore /\ op'.ok = FALSE
    BY <1>1, <1>3 DEF Reconciling
  <2>2. acl' \in [Paths -> SUBSET Holders]  BY <1>1, <1>3 DEF LedgerShape
  <2> QED BY <1>0, <1>3, <2>1, <2>2, TakenOff DEF LedgerInv, Granted
<1> QED BY <1>2, <1>3 DEF Revoke

(* A path of the dead is given back as it was, or is not.                  *)
LEMMA RestoreStep ==
  ASSUME LedgerInv, NEW x \in Paths, Restore(x)
  PROVE  LedgerInv'
<1>0. op.kind = "reconcile" /\ op.revoke = {} /\ x \in op.restore /\ UNCHANGED <<life, ledger, using, residue>>
  BY DEF Restore
<1>1. LedgerShape /\ op \in Reconciling  BY <1>0, Reconciles
<1>2. CASE acl' = [acl EXCEPT ![x] = UNION ledger.snap[x]] /\ op' = [op EXCEPT !.restore = @ \ {x}]
  <2>1. /\ op' \in Reconciling /\ op'.p = op.p /\ op'.dead = op.dead /\ op'.snaps = op.snaps
        /\ op'.living = op.living /\ op'.revoke = op.revoke /\ op'.restore = op.restore \ {x} /\ op'.ok = op.ok
    BY <1>1, <1>2 DEF Reconciling
  <2>0. UNION ledger.snap[x] \subseteq Holders /\ \A l \in UNION ledger.snap[x] : <<l, x>> \in residue
    <3>1. ledger.snap \in [Paths -> SUBSET SUBSET Holders]  BY <1>1 DEF LedgerShape, Ledgers
    <3>2. UNION ledger.snap[x] \subseteq Holders  BY <3>1
    <3> QED BY <3>2 DEF LedgerInv, Covers
  <2>2. /\ acl' \in [Paths -> SUBSET Holders]
        /\ \A y \in Paths : acl'[y] = IF y = x THEN UNION ledger.snap[x] ELSE acl[y]
    <3>1. acl \in [Paths -> SUBSET Holders]  BY <1>1 DEF LedgerShape
    <3> QED BY <1>2, <2>0, <3>1
  <2>3. \A y \in Paths : \A l \in acl'[y] : l \in acl[y] \/ <<l, y>> \in residue  BY <2>0, <2>2
  <2>4. \A u \in using : u[2] \in acl'[u[3]]
    <3>1. \A u \in using : u[2] \in acl[u[3]] /\ u[3] \in Paths /\ u[3] # x
      BY <1>0, Reconciles DEF LedgerInv, Granted
    <3> QED BY <2>2, <3>1
  <2>5. op.ok => \A j \in op.dead : j \in op'.revoke \/ j[2] \in op'.restore \/ j[1] \notin acl'[j[2]] \/ j \in residue
    <3>1. \A j \in op.dead : j[2] \in Paths  BY <1>0, Reconciles
    <3>2. op.ok => \A j \in op.dead : j \in op.revoke \/ j[2] \in op.restore \/ j[1] \notin acl[j[2]] \/ j \in residue
      BY <1>0, Reconciles
    <3>3. \A j \in op.dead : j = <<j[1], j[2]>>
      <4>1. op.dead \subseteq Keys  BY <1>0, Reconciles
      <4> QED BY <4>1 DEF Keys
    <3>4. \A j \in op.dead : j[2] = x => j[1] \notin acl'[j[2]] \/ j \in residue
      BY <2>0, <2>2, <3>1, <3>3
    <3>5. \A j \in op.dead : j[2] # x => acl'[j[2]] = acl[j[2]]  BY <2>2, <3>1
    <3> QED BY <2>1, <3>2, <3>4, <3>5
  <2> QED BY <1>0, <2>1, <2>2, <2>3, <2>4, <2>5, TakenOff, Reconciles
<1>3. CASE Fails /\ op' = [op EXCEPT !.restore = @ \ {x}, !.ok = FALSE] /\ UNCHANGED acl
  <2>1. /\ op' \in Reconciling /\ op'.p = op.p /\ op'.dead = op.dead /\ op'.snaps = op.snaps
        /\ op'.living = op.living /\ op'.revoke = op.revoke /\ op'.restore = op.restore \ {x} /\ op'.ok = FALSE
    BY <1>1, <1>3 DEF Reconciling
  <2>2. acl' \in [Paths -> SUBSET Holders]  BY <1>1, <1>3 DEF LedgerShape
  <2> QED BY <1>0, <1>3, <2>1, <2>2, TakenOff DEF LedgerInv, Granted
<1> QED BY <1>2, <1>3 DEF Restore

(* What was reclaimed leaves the ledger.                                   *)
LEMMA ReconciledStep ==
  ASSUME LedgerInv, Reconciled
  PROVE  LedgerInv'
<1> DEFINE led == [in |-> ledger.in \ op.dead,
                   own |-> [k \in Keys |-> IF k \in op.dead THEN {} ELSE ledger.own[k]],
                   snap |-> [x \in Paths |-> IF x \in op.snaps THEN NoSnap ELSE ledger.snap[x]]]
<1>0. /\ op.kind = "reconcile" /\ op.revoke = {} /\ op.restore = {} /\ op' = Idle /\ UNCHANGED <<life, acl, using, residue>>
      /\ ledger' = IF ~op.ok THEN ledger ELSE led
  BY DEF Reconciled
<1>1. LedgerShape  BY DEF LedgerInv
<1>2. CASE ~op.ok
  BY <1>0, <1>2, AtRest DEF LedgerInv, LedgerShape, Alive, Covers, OwnersLived, Owned, Granted
<1>3. CASE op.ok
  <2>1. /\ ledger' \in Ledgers /\ ledger'.in = ledger.in \ op.dead
        /\ \A k \in Keys : ledger'.own[k] = IF k \in op.dead THEN {} ELSE ledger.own[k]
        /\ \A x \in Paths : ledger'.snap[x] = IF x \in op.snaps THEN NoSnap ELSE ledger.snap[x]
    <3>1. ledger.own \in [Keys -> SUBSET Procs] /\ ledger.in \subseteq Keys /\ ledger.snap \in [Paths -> SUBSET SUBSET Holders]
      BY <1>1 DEF LedgerShape, Ledgers
    <3> HIDE DEF Keys
    <3>2. ledger' = led  BY <1>0, <1>3
    <3>3. [k \in Keys |-> IF k \in op.dead THEN {} ELSE ledger.own[k]] \in [Keys -> SUBSET Procs]  BY <3>1
    <3>4. [x \in Paths |-> IF x \in op.snaps THEN NoSnap ELSE ledger.snap[x]] \in [Paths -> SUBSET SUBSET Holders]
      BY <3>1 DEF NoSnap
    <3> QED BY <3>1, <3>2, <3>3, <3>4 DEF Ledgers
  <2>2. \A j \in Keys : j = <<j[1], j[2]>> /\ j[1] \in Holders /\ j[2] \in Paths  OBVIOUS
  <2>3. ledger.in \subseteq Keys  BY <1>1 DEF LedgerShape, Ledgers
  <2>4. \A u \in using : <<u[2], u[3]>> \in Keys  BY <1>1 DEF LedgerShape
  <2>5. \A x \in Paths : \A l \in acl[x] : <<l, x>> \in Keys  BY <1>1 DEF LedgerShape
  <2> HIDE DEF Keys, led
  <2>6. LedgerShape'  BY <1>0, <1>1, <2>1 DEF LedgerShape, Alive
  <2>7. Covers(ledger, acl)'
    <3>1. \A x \in Paths : \A l \in acl[x] : <<l, x>> \in ledger'.in \union residue
      <4> SUFFICES ASSUME NEW x \in Paths, NEW l \in acl[x], <<l, x>> \in op.dead, <<l, x>> \notin residue
                   PROVE  FALSE
        BY <2>1 DEF LedgerInv, Covers
      <4> QED BY <1>0, <1>3, Reconciles
    <3>0. \A x \in Paths : \A l \in UNION ledger'.snap[x] : <<l, x>> \in residue
      <4> SUFFICES ASSUME NEW x \in Paths, NEW S \in ledger'.snap[x], NEW l \in S PROVE <<l, x>> \in residue
        OBVIOUS
      <4>1. S \in ledger.snap[x]  BY <2>1 DEF NoSnap
      <4> QED BY <4>1 DEF LedgerInv, Covers
    <3>2. \A k \in Keys : ledger'.own[k] # {} => k \in ledger'.in  BY <2>1 DEF LedgerInv, Covers
    <3>3. \A k \in ledger'.in : k[2] \in Inside => ledger'.snap[k[2]] # NoSnap
      <4> SUFFICES ASSUME NEW k \in ledger.in, k \notin op.dead, k[2] \in Inside
                   PROVE  ledger'.snap[k[2]] # NoSnap
        BY <2>1
      <4>1. ledger.snap[k[2]] # NoSnap /\ k[2] \in Paths  BY <2>2, <2>3 DEF LedgerInv, Covers
      <4>2. k[2] \notin op.snaps  BY <1>0, <2>2, <2>3, Reconciles
      <4> QED BY <2>1, <4>1, <4>2
    <3> QED BY <1>0, <3>0, <3>1, <3>2, <3>3 DEF Covers
  <2>8. OwnersLived'  BY <1>0, <2>1 DEF LedgerInv, OwnersLived
  <2>9. Owned(ledger, {})'  BY <2>1, <2>3 DEF LedgerInv, Owned
  <2>10. Granted'
    <3>1. \A u \in using : <<u[2], u[3]>> \notin op.dead  BY <1>0, Reconciles
    <3> QED BY <1>0, <2>1, <2>4, <3>1 DEF LedgerInv, Granted
  <2> QED BY <1>0, <2>6, <2>7, <2>8, <2>9, <2>10, AtRest DEF LedgerInv
<1> QED BY <1>2, <1>3

(* Every step keeps the invariant of the ledger.                           *)
LEMMA StepLedger ==
  ASSUME LedgerInv, Next \/ UNCHANGED vars
  PROVE  LedgerInv'
<1>1. CASE UNCHANGED vars
  <2>1. UNCHANGED <<life, acl, ledger, op, using, residue>> /\ Alive' = Alive  BY <1>1 DEF vars, Alive
  <2>2. LedgerShape' /\ Covers(ledger, acl)' /\ OwnersLived' /\ Owned(ledger, {})' /\ Granted'
    BY <2>1 DEF LedgerInv, LedgerShape, Covers, OwnersLived, Owned, Granted
  <2>3. InPrepare' /\ InReconcile'  BY <2>1 DEF LedgerInv, InPrepare, InReconcile
  <2>4. InRelease'  BY <2>1 DEF LedgerInv, InRelease, Covers, Owned
  <2> QED BY <2>2, <2>3, <2>4 DEF LedgerInv
<1>2. CASE \E p \in Procs : Born(p) \/ Die(p) \/ Reconcile(p)
  BY <1>2, BornStep, DieStep, ReconcileStep
<1>3. CASE \E p \in Procs, l \in Leases : Prepare(p, l) \/ Release(p, l)
  BY <1>3, PrepareStep, ReleaseStep
<1>4. CASE Grant  BY <1>4, SkipStep, SnapshotStep, ClaimStep, WriteStep, WriteFailsStep, PreparedStep DEF Grant
<1>5. CASE GiveBack  BY <1>5, FinalizeStep, FinalizeFailsStep, ReleasedStep DEF GiveBack
<1>6. CASE Reclaim  BY <1>6, RevokeStep, RestoreStep, ReconciledStep DEF Reclaim
<1> QED BY <1>1, <1>2, <1>3, <1>4, <1>5, <1>6 DEF Next

(* What the invariant says of entries.                                     *)
LEMMA LedgerMeans == LedgerInv => AccessKept /\ EverythingRecorded
<1> SUFFICES ASSUME LedgerInv PROVE AccessKept /\ EverythingRecorded  OBVIOUS
<1>1. AccessKept  BY DEF LedgerInv, Granted, AccessKept
<1>2. EverythingRecorded  BY DEF LedgerInv, Covers, EverythingRecorded
<1> QED BY <1>1, <1>2

(* A reconciliation without an error leaves nothing of the dead.           *)
LEMMA StepReclaims ==
  ASSUME LedgerInv, LedgerInv', ~Fails, Next \/ UNCHANGED vars
  PROVE  Reclaimed
<1> SUFFICES ASSUME op.kind = "reconcile", op' = Idle, op.p \in Alive, life' = life, op.ok,
                    NEW x \in Paths, NEW l \in Holders, l \in acl'[x]
             PROVE  ledger'.own[<<l, x>>] \intersect op.living # {}
  BY DEF Reclaimed
<1>1. Reconciled
  <2>1. op' # op  BY IdleShape
  <2>2. op.kind \notin {"prepare", "release", "none"} /\ op # Idle  BY IdleShape
  <2>3. \A p \in Procs : ~Die(p)
    <3>1. \A p \in Procs : Die(p) => life[p] = "alive" /\ life'[p] = "dead"
      BY DEF Die, LedgerInv, LedgerShape
    <3> QED BY <3>1
  <2>4. \A k \in Keys : ~Revoke(k)
    <3> SUFFICES ASSUME NEW k \in Keys, Revoke(k) PROVE FALSE  OBVIOUS
    <3>1. op' \in Reconciling  BY Reconciles DEF Revoke, Reconciling
    <3> QED BY <3>1, IdleShape
  <2>5. \A y \in Paths : ~Restore(y)
    <3> SUFFICES ASSUME NEW y \in Paths, Restore(y) PROVE FALSE  OBVIOUS
    <3>1. op' \in Reconciling  BY Reconciles DEF Restore, Reconciling
    <3> QED BY <3>1, IdleShape
  <2>6. \A p \in Procs : ~Born(p) /\ ~Reconcile(p)  BY <2>1, <2>2 DEF Born, Reconcile
  <2>7. \A p \in Procs, m \in Leases : ~Prepare(p, m) /\ ~Release(p, m)  BY <2>2 DEF Prepare, Release
  <2>8. ~Grant  BY <2>2 DEF Grant, Skip, Snapshot, Claim, Write, WriteFails, Prepared
  <2>9. ~GiveBack  BY <2>2 DEF GiveBack, Finalize, FinalizeFails, Released
  <2> QED BY <2>1, <2>3, <2>4, <2>5, <2>6, <2>7, <2>8, <2>9 DEF Next, vars, Reclaim
<1>2. l \in acl[x] /\ <<l, x>> \in ledger'.in /\ <<l, x>> \in ledger.in /\ <<l, x>> \notin op.dead
      /\ ledger'.own[<<l, x>>] = ledger.own[<<l, x>>]
  <2>1. acl' = acl /\ op.revoke = {} /\ op.restore = {}  BY <1>1 DEF Reconciled
  <2>0. residue = {} /\ residue' = {}
    BY DEF LedgerInv, LedgerShape
  <2>2. <<l, x>> \in ledger.in /\ <<l, x>> \in ledger'.in  BY <2>0, <2>1 DEF LedgerInv, Covers
  <2>3. <<l, x>> \notin op.dead  BY <2>0, <2>1, Reconciles
  <2> QED BY <1>1, <2>1, <2>2, <2>3 DEF Reconciled
<1>3. ledger.own[<<l, x>>] # {}  BY <1>2 DEF LedgerInv, Owned
<1> QED BY <1>2, <1>3, Reconciles

(***************************************************************************)
(* For every number of processes, leases and paths, whoever dies and       *)
(* whatever is refused: an entry that a living process was granted, for a  *)
(* container or for the baseline, stays until it gives it back, and what   *)
(* is on the disk is in the ledger or is what a failed write could not     *)
(* take back.  Nothing is said of an entry of the baseline that a process  *)
(* found there: it stays only with those who were granted it.              *)
(***************************************************************************)
THEOREM AccessIsKept == Spec => [](AccessKept /\ EverythingRecorded)
<1>1. Init => LedgerInv  BY InitLedger
<1>2. LedgerInv /\ [Next]_vars => LedgerInv'  BY StepLedger
<1>3. LedgerInv => AccessKept /\ EverythingRecorded  BY LedgerMeans
<1> QED BY <1>1, <1>2, <1>3, PTL DEF Spec

(* Where nothing fails, a reconciliation leaves nothing of the dead.       *)
THEOREM NothingIsLeft == ASSUME ~Fails PROVE Spec => LeftoversReclaimed
<1>1. Init => LedgerInv  BY InitLedger
<1>2. LedgerInv /\ [Next]_vars => LedgerInv'  BY StepLedger
<1>3. LedgerInv /\ LedgerInv' /\ [Next]_vars => [Reclaimed]_vars  BY StepReclaims
<1> QED BY <1>1, <1>2, <1>3, PTL DEF Spec, LeftoversReclaimed
====
