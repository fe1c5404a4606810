--------------------------- MODULE SessionsProofs ---------------------------
(***************************************************************************)
(* Proofs about the sessions: the task chain, the queue of decisions, the  *)
(* machines, the long-lived services and the calls, for any number of      *)
(* nodes, threads, requests, trees, services, cards, machines and          *)
(* processes.                                                              *)
(***************************************************************************)
EXTENDS MCSessions, FiniteSetTheorems, FunctionTheorems, SequenceTheorems, WellFoundedInduction,
        TLAPS

(* The card of a gate belongs to no thread.                                *)
LEMMA GateApart == Desk!Gate \notin Threads
  BY SessionsAssumption DEF Desk!Gate

(* The parts count as everybody does.                                      *)
LEMMA DeskCount == \A S : Desk!Cardinality(S) = Cardinality(S)
  BY DEF Desk!Cardinality, Cardinality

(* The machines count as everybody does.                                   *)
LEMMA GuestCount == \A S : Guest!Cardinality(S) = Cardinality(S)
  BY DEF Guest!Cardinality, Cardinality

-----------------------------------------------------------------------------

Card == [id : Nat, who : Threads \union {Desk!Gate}]
Slots == [option : BOOLEAN, released : BOOLEAN, stopped : BOOLEAN]

DeskShape ==
  /\ queue \in Seq(Card)
  /\ slot \in [Threads -> Slots]
  /\ pc \in [Threads -> {"idle", "emit", "wait", "looks", "asleep"}]
  /\ got \in [Threads -> {"none", "chosen", "refused", "default"}]
  /\ told \in [Threads -> {"none", "answered", "stopped"}]
  /\ gen \in BOOLEAN

(* What the slot of a thread says, and what the thread has read of it.     *)
AsTold(t) ==
  \/ told[t] = "answered" /\ slot[t].option
  \/ told[t] = "stopped" /\ ~slot[t].option /\ slot[t].released /\ slot[t].stopped

(* A thread that waits has a card, or an outcome.                          *)
DeskWaits ==
  /\ \A i, j \in DOMAIN queue : queue[i].who = queue[j].who /\ queue[i].who # Desk!Gate => i = j
  /\ \A t \in Threads :
       /\ ~gen => pc[t] = "idle"
       /\ t \in Desk!Waiters(queue) => pc[t] # "idle" /\ slot[t] = Desk!Empty /\ told[t] = "none"
       /\ told[t] # "none" => pc[t] \notin {"idle", "asleep"} /\ AsTold(t)
       /\ pc[t] \in {"wait", "looks", "asleep"} => t \in Desk!Waiters(queue) \/ told[t] # "none"
       /\ pc[t] = "looks" =>
            got[t] = IF slot[t].option THEN "chosen"
                     ELSE IF ~slot[t].released THEN "none"
                     ELSE IF slot[t].stopped THEN "refused" ELSE "default"

DeskInv == DeskShape /\ DeskWaits

(* A thread that looks has an outcome only when it has been told one.      *)
LEMMA WaitsMeans ==
  ASSUME DeskInv
  PROVE  Desk!OutcomeIsTheUsers
<1> SUFFICES ASSUME NEW t \in Threads, pc[t] = "looks"
             PROVE  /\ got[t] = "chosen" => told[t] = "answered"
                    /\ got[t] = "refused" => told[t] = "stopped"
                    /\ got[t] # "default"
  BY DEF Desk!OutcomeIsTheUsers
<1>1. CASE t \in Desk!Waiters(queue)
  BY <1>1 DEF DeskInv, DeskWaits, Desk!Empty
<1>2. CASE t \notin Desk!Waiters(queue)
  BY <1>2 DEF DeskInv, DeskWaits, AsTold, DeskShape
<1> QED BY <1>1, <1>2

(* The queue gains a card at its end, and loses its head.                  *)
LEMMA Appended ==
  ASSUME NEW q \in Seq(Card), NEW c \in Card
  PROVE  /\ Append(q, c) \in Seq(Card)
         /\ Desk!Waiters(Append(q, c)) = Desk!Waiters(q) \union ({c.who} \ {Desk!Gate})
         /\ Desk!Ids(Append(q, c)) = Desk!Ids(q) \union {c.id}
<1>1. /\ Append(q, c) \in Seq(Card) /\ DOMAIN Append(q, c) = 1..(Len(q) + 1)
      /\ Append(q, c)[Len(q) + 1] = c /\ DOMAIN q = 1..Len(q) /\ Len(q) \in Nat
      /\ \A i \in DOMAIN q : Append(q, c)[i] = q[i]
  OBVIOUS
<1>2. \A i \in 1..(Len(q) + 1) : i \in 1..Len(q) \/ i = Len(q) + 1  BY <1>1
<1>3. Desk!Ids(Append(q, c)) = Desk!Ids(q) \union {c.id}
  BY <1>1, <1>2 DEF Desk!Ids
<1>4. Desk!Waiters(Append(q, c)) = Desk!Waiters(q) \union ({c.who} \ {Desk!Gate})
  BY <1>1, <1>2 DEF Desk!Waiters
<1> QED BY <1>1, <1>3, <1>4

(* What is left of the queue without its head.                             *)
LEMMA Beheaded ==
  ASSUME NEW q \in Seq(Card), q # <<>>
  PROVE  /\ Tail(q) \in Seq(Card) /\ q[1] \in Card
         /\ DOMAIN Tail(q) = 1..(Len(q) - 1) /\ DOMAIN q = 1..Len(q) /\ Len(q) \in Nat \ {0}
         /\ \A i \in DOMAIN Tail(q) : Tail(q)[i] = q[i + 1] /\ i + 1 \in DOMAIN q
         /\ Desk!Ids(Tail(q)) \subseteq Desk!Ids(q) /\ q[1].id \in Desk!Ids(q)
         /\ Desk!Waiters(q) = Desk!Waiters(Tail(q)) \union ({q[1].who} \ {Desk!Gate})
<1>1. /\ Tail(q) \in Seq(Card) /\ q[1] \in Card
      /\ DOMAIN Tail(q) = 1..(Len(q) - 1) /\ DOMAIN q = 1..Len(q) /\ Len(q) \in Nat \ {0}
      /\ \A i \in DOMAIN Tail(q) : Tail(q)[i] = q[i + 1] /\ i + 1 \in DOMAIN q
  OBVIOUS
<1>2. Desk!Ids(Tail(q)) \subseteq Desk!Ids(q) /\ q[1].id \in Desk!Ids(q)  BY <1>1 DEF Desk!Ids
<1>3. \A i \in DOMAIN q : i = 1 \/ (i - 1 \in DOMAIN Tail(q) /\ Tail(q)[i - 1] = q[i])
  BY <1>1
<1>4. Desk!Waiters(q) = Desk!Waiters(Tail(q)) \union ({q[1].who} \ {Desk!Gate})
  BY <1>1, <1>3 DEF Desk!Waiters
<1> QED BY <1>1, <1>2, <1>4

-----------------------------------------------------------------------------
(* The open gates, in the order of their numbers.                          *)
Rank(S, c) == Cardinality({d \in S : d < c})

(* A set of numbers up to n is finite.                                     *)
LEMMA BoundedIsFinite ==
  ASSUME NEW n \in Nat, NEW S \in SUBSET (1..n)
  PROVE  IsFiniteSet(S) /\ Cardinality(S) \in Nat
<1>1. IsFiniteSet(1..n)  BY FS_Interval, 1 \in Int, n \in Int
<1>2. IsFiniteSet(S)  BY <1>1, FS_Subset
<1> QED BY <1>2, FS_CardinalityType

(* Every place among the open gates is some gate's.                        *)
LEMMA RankExists ==
  ASSUME NEW n \in Nat, NEW S \in SUBSET (1..n), NEW i \in 1..Cardinality(S)
  PROVE  \E c \in S : Rank(S, c) = i - 1
<1>1. IsFiniteSet(S) /\ Cardinality(S) \in Nat
  BY BoundedIsFinite
<1> DEFINE m == Cardinality(S)
           T == 0..(m - 1)
           f == [c \in S |-> Rank(S, c)]
<1>2. \A c \in S : Rank(S, c) \in T
  <2> SUFFICES ASSUME NEW c \in S PROVE Rank(S, c) \in T  OBVIOUS
  <2> DEFINE R == S \ {c}
             D == {d \in S : d < c}
  <2>1. IsFiniteSet(R) /\ Cardinality(R) = m - 1  BY <1>1, FS_RemoveElement
  <2>2. c \in Nat  OBVIOUS
  <2>3. D \in SUBSET R  BY <2>2
  <2>4. Cardinality(D) \in Nat /\ Cardinality(D) <= m - 1
    <3> HIDE DEF D, R
    <3> QED BY <2>1, <2>3, FS_Subset, FS_CardinalityType
  <2>5. Rank(S, c) = Cardinality(D)  BY DEF Rank
  <2> HIDE DEF D
  <2> QED BY <2>4, <2>5, <1>1
<1>3. \A c, d \in S : c < d => Rank(S, c) # Rank(S, d)
  <2> SUFFICES ASSUME NEW c \in S, NEW d \in S, c < d PROVE Rank(S, c) # Rank(S, d)  OBVIOUS
  <2> DEFINE C == {e \in S : e < c}
             D == {e \in S : e < d}
  <2>1. S \subseteq Nat  OBVIOUS
  <2>2. C \subseteq D /\ c \in D /\ c \notin C
    <3>1. \A e \in S : e < c => e < d  BY <2>1
    <3>2. ~(c < c)  BY <2>1
    <3> QED BY <3>1, <3>2, Zenon
  <2>3. IsFiniteSet(D)  BY <1>1, FS_Subset
  <2>4. Cardinality(D) # Cardinality(C)
    <3> HIDE DEF C, D
    <3> QED BY <2>2, <2>3, FS_Subset
  <2> QED BY <2>4 DEF Rank
<1>4. \A c, d \in S : Rank(S, c) = Rank(S, d) => c = d
  <2>1. \A c, d \in S : c = d \/ c < d \/ d < c  OBVIOUS
  <2> QED BY <2>1, <1>3
<1>5. f \in Injection(S, T)
  <2>1. f \in [S -> T]  BY <1>2
  <2>2. \A c, d \in S : f[c] = f[d] => c = d  BY <1>4
  <2> HIDE DEF f
  <2> QED BY <2>1, <2>2 DEF Injection, IsInjective
<1>6. IsFiniteSet(T) /\ Cardinality(T) = m
  <2>1. m - 1 \in Int /\ 0 \in Int  BY <1>1
  <2>2. IsFiniteSet(T) /\ Cardinality(T) = IF 0 > m - 1 THEN 0 ELSE (m - 1) - 0 + 1
    <3> DEFINE h == m - 1
    <3>1. h \in Int  BY <2>1
    <3> HIDE DEF h
    <3>2. IsFiniteSet(0..h) /\ Cardinality(0..h) = IF 0 > h THEN 0 ELSE h - 0 + 1
      BY <3>1, FS_Interval
    <3> QED BY <3>2 DEF h
  <2> QED BY <2>2, <1>1
<1>7. f \in Surjection(S, T)
  <2> HIDE DEF f, T
  <2> QED BY <1>5, <1>6, FS_Injection
<1>8. i - 1 \in T  BY <1>1
<1>9. \E c \in S : f[c] = i - 1
  <2> HIDE DEF f, T
  <2> QED BY <1>7, <1>8 DEF Surjection
<1> QED BY <1>9

(* A rebuilt queue holds the open gates, and no thread's card.             *)
LEMMA ReopenedShape ==
  ASSUME NEW n \in Nat, log.open \subseteq 1..n
  PROVE  /\ Desk!Reopened \in Seq(Card) /\ Desk!Waiters(Desk!Reopened) = {}
         /\ Desk!Ids(Desk!Reopened) \subseteq log.open
         /\ \A i \in DOMAIN Desk!Reopened : Desk!Reopened[i].who = Desk!Gate
<1> DEFINE S == log.open
           c(i) == CHOOSE e \in S : Desk!Cardinality({d \in S : d < e}) = i - 1
<1>1. IsFiniteSet(S) /\ Cardinality(S) \in Nat
  BY BoundedIsFinite
<1>2. ASSUME NEW i \in 1..Cardinality(S) PROVE c(i) \in S
  <2>1. \E e \in S : Cardinality({d \in S : d < e}) = i - 1
    <3> HIDE DEF S
    <3> QED BY <1>2, RankExists DEF Rank, S
  <2>2. \E e \in S : Desk!Cardinality({d \in S : d < e}) = i - 1  BY <2>1, DeskCount
  <2> QED BY <2>2
<1>0. Desk!Reopened = [i \in 1..Desk!Cardinality(S) |-> [id |-> c(i), who |-> Desk!Gate]]
  BY DEF Desk!Reopened
<1> HIDE DEF c, S
<1>3. Desk!Reopened = [i \in 1..Cardinality(S) |-> [id |-> c(i), who |-> Desk!Gate]]  BY <1>0, DeskCount
<1>4. /\ DOMAIN Desk!Reopened = 1..Cardinality(S)
      /\ \A i \in DOMAIN Desk!Reopened : Desk!Reopened[i] = [id |-> c(i), who |-> Desk!Gate]
  BY <1>3
<1>5. S \subseteq Nat  BY DEF S
<1>6. Desk!Reopened \in [1..Cardinality(S) -> Card]
  BY <1>2, <1>3, <1>5 DEF Card
<1>7. Desk!Reopened \in Seq(Card)  BY <1>1, <1>6
<1>8. Desk!Ids(Desk!Reopened) \subseteq S  BY <1>2, <1>4 DEF Desk!Ids
<1>9. Desk!Waiters(Desk!Reopened) = {}  BY <1>4 DEF Desk!Waiters
<1> QED BY <1>4, <1>7, <1>8, <1>9 DEF S

-----------------------------------------------------------------------------
(* Every number the transcript, a card or an announcement knows is one     *)
(* that was given.                                                         *)
Logs(n) == [heads : SUBSET (1..n), waiting : SUBSET (1..n), voids : SUBSET (1..n), open : SUBSET (1..n)]
News(n) == {Desk!NoNews} \union [head : 1..n, rest : SUBSET (1..n), gates : SUBSET (1..n)]

DeskNumbers ==
  /\ issued \in Nat
  /\ log \in Logs(issued) /\ news \in [Threads -> News(issued)]
  /\ Desk!Ids(queue) \subseteq 1..issued /\ voided \subseteq 1..issued

(* What was numbered stays numbered when more numbers are given.           *)
LEMMA MoreNumbers ==
  ASSUME NEW m \in Nat, NEW n \in Nat, m <= n
  PROVE  /\ Logs(m) \subseteq Logs(n) /\ News(m) \subseteq News(n)
         /\ 1..m \subseteq 1..n
<1>1. 1..m \subseteq 1..n  OBVIOUS
<1>2. SUBSET (1..m) \subseteq SUBSET (1..n)  BY <1>1
<1>3. Logs(m) \subseteq Logs(n)
  <2> SUFFICES ASSUME NEW l \in Logs(m) PROVE l \in Logs(n)  OBVIOUS
  <2> QED BY <1>2 DEF Logs
<1>4. News(m) \subseteq News(n)
  <2> SUFFICES ASSUME NEW l \in News(m), l # Desk!NoNews PROVE l \in News(n)  BY DEF News
  <2> QED BY <1>1, <1>2 DEF News
<1> QED BY <1>1, <1>3, <1>4

(* What is announced of cards with given numbers has given numbers.        *)
LEMMA ShapeNumbers ==
  ASSUME NEW n \in Nat, NEW q \in Seq(Card), Desk!Ids(q) \subseteq 1..n
  PROVE  Desk!Shape(q) \in News(n)
<1>1. CASE q = <<>>  BY <1>1 DEF Desk!Shape, News
<1>2. CASE q # <<>>
  <2>1. q[1].id \in 1..n /\ Desk!Ids(Tail(q)) \subseteq 1..n  BY <1>2, Beheaded
  <2>2. \A i \in DOMAIN q : q[i].id \in 1..n  BY DEF Desk!Ids
  <2>3. {q[i].id : i \in {j \in DOMAIN q : q[j].who = Desk!Gate}} \subseteq 1..n  BY <2>2
  <2> QED BY <1>2, <2>1, <2>3 DEF Desk!Shape, News
<1> QED BY <1>1, <1>2

(* What a step writes of given numbers is of given numbers.                *)
LEMMA WrittenNumbers ==
  ASSUME NEW n \in Nat, NEW l \in Logs(n), NEW m \in News(n)
  PROVE  Desk!Written(l, m) \in Logs(n)
  BY DEF Desk!Written, Logs, News

(* Sets of numbers have a least and, if bounded, a greatest member.        *)
LEMMA LeastExists ==
  ASSUME NEW S, S \subseteq Nat, S # {}
  PROVE  \E m \in S : \A i \in S : ~(<<i, m>> \in OpToRel(<, Nat))
  BY WFMin, NatLessThanWellFounded, Zenon

(* The least member is one of the set.                                     *)
LEMMA MinExists ==
  ASSUME NEW S \in SUBSET Nat, S # {}
  PROVE  Desk!Min(S) \in S /\ \A i \in S : Desk!Min(S) <= i
<1>1. PICK m \in S : \A i \in S : ~(<<i, m>> \in OpToRel(<, Nat))
  BY LeastExists
<1>2. \A i \in S : ~(i < m)  BY <1>1, Zenon DEF OpToRel
<1>3. \A i \in S : i \in Nat /\ m \in Nat  OBVIOUS
<1>4. \A i \in S : m <= i  BY <1>2, <1>3
<1> QED BY <1>4 DEF Desk!Min

(* The greatest member is one of the set.                                  *)
LEMMA MaxOfNumbers ==
  ASSUME NEW n \in Nat, NEW S \in SUBSET (0..n), S # {}
  PROVE  Desk!Max(S) \in S /\ \A i \in S : Desk!Max(S) >= i
<1> DEFINE T == {n - i : i \in S}
<1>1. T \in SUBSET Nat /\ T # {}
  <2>1. \A i \in S : n - i \in Nat  OBVIOUS
  <2> QED BY <2>1
<1>2. Desk!Min(T) \in T /\ \A j \in T : Desk!Min(T) <= j
  <2> HIDE DEF T
  <2> QED BY <1>1, MinExists
<1>3. PICK m \in S : Desk!Min(T) = n - m  BY <1>2
<1>4. ASSUME NEW i \in S PROVE m >= i
  <2>1. n - m <= n - i  BY <1>2, <1>3
  <2>2. i \in Nat /\ m \in Nat  OBVIOUS
  <2> QED BY <2>1, <2>2
<1> QED BY <1>4 DEF Desk!Max

(* The numbers go on from the highest the transcript knows.                *)
LEMMA IssuedInNumbers ==
  ASSUME NEW n \in Nat, NEW l \in Logs(n)
  PROVE  /\ Desk!IssuedIn(l) \in 0..n
         /\ l.heads \union l.waiting \union l.voids \subseteq 0..Desk!IssuedIn(l)
<1> DEFINE S == l.heads \union l.waiting \union l.voids \union {0}
<1>1. S \in SUBSET (0..n) /\ S # {} /\ S \subseteq Nat  BY DEF Logs
<1>2. Desk!Max(S) \in S /\ \A e \in S : Desk!Max(S) >= e
  <2> HIDE DEF S
  <2> QED BY <1>1, MaxOfNumbers
<1>3. Desk!IssuedIn(l) = Desk!Max(S)  BY DEF Desk!IssuedIn
<1>4. l.heads \union l.waiting \union l.voids \subseteq S  OBVIOUS
<1> HIDE DEF S
<1>5. S \subseteq 0..Desk!Max(S)  BY <1>1, <1>2
<1> QED BY <1>1, <1>2, <1>3, <1>4, <1>5

DeskAll == DeskShape /\ DeskWaits /\ DeskNumbers

(* A slot that nobody has filled.                                          *)
LEMMA EmptySlot == Desk!Empty \in Slots
  BY DEF Desk!Empty, Slots

(* A desk begins in order.                                                 *)
LEMMA InitDesk == Desk!Init => DeskAll
<1> SUFFICES ASSUME Desk!Init PROVE DeskAll  OBVIOUS
<1>1. queue = <<>> /\ issued = 0 /\ voided = {} /\ ~gen  BY DEF Desk!Init
<1>2. Desk!Ids(queue) = {} /\ Desk!Waiters(queue) = {} /\ DOMAIN queue = {} /\ queue \in Seq(Card)
  BY <1>1 DEF Desk!Ids, Desk!Waiters
<1>3. DeskShape  BY <1>2, EmptySlot DEF Desk!Init, DeskShape
<1>4. DeskWaits  BY <1>2 DEF Desk!Init, DeskWaits
<1>5. log \in Logs(issued)  BY <1>1 DEF Desk!Init, Logs, Desk!NoLog
<1>6. news \in [Threads -> News(issued)]  BY DEF Desk!Init, News
<1>7. DeskNumbers  BY <1>1, <1>2, <1>5, <1>6 DEF DeskNumbers
<1> QED BY <1>3, <1>4, <1>7 DEF DeskAll

-----------------------------------------------------------------------------
(* A card comes to the end of the queue.                                   *)
LEMMA StepPush ==
  ASSUME DeskAll, NEW t \in Threads, Desk!Ask(t) \/ Desk!AskGate(t)
  PROVE  DeskAll'
<1> USE DEF DeskAll
<1>1. PICK w \in {t, Desk!Gate} : Desk!Push(t, w) /\ (w = t => Desk!Ask(t)) /\ (w = Desk!Gate => Desk!AskGate(t))
  BY GateApart DEF Desk!Ask, Desk!AskGate
<1> DEFINE d == [id |-> issued + 1, who |-> w]
<1>2. /\ queue' = Append(queue, d) /\ pc' = [pc EXCEPT ![t] = "emit"] /\ gen /\ pc[t] = "idle"
      /\ gen' = gen /\ issued' = issued + 1 /\ log' = log /\ voided' = voided
      /\ news' = [news EXCEPT ![t] = Desk!Shape(queue')]
      /\ w = t => /\ slot' = [slot EXCEPT ![t] = Desk!Empty] /\ told' = [told EXCEPT ![t] = "none"]
                  /\ got' = [got EXCEPT ![t] = "none"]
      /\ w = Desk!Gate => UNCHANGED <<slot, told, got>>
  <2>1. Desk!Push(t, w)  BY <1>1
  <2> QED BY <1>1, <2>1 DEF Desk!Ask, Desk!AskGate, Desk!Push
<1>3. d \in Card  BY DEF Card, DeskNumbers
<1>4. /\ queue' \in Seq(Card) /\ Desk!Waiters(queue') = Desk!Waiters(queue) \union ({w} \ {Desk!Gate})
      /\ Desk!Ids(queue') = Desk!Ids(queue) \union {issued + 1}
  <2> HIDE DEF d
  <2>1. d.who = w /\ d.id = issued + 1  BY DEF d
  <2> QED BY <1>2, <1>3, <2>1, Appended DEF DeskShape
<1>5. DeskShape'
  <2>1. slot' \in [Threads -> Slots] /\ told' \in [Threads -> {"none", "answered", "stopped"}]
        /\ got' \in [Threads -> {"none", "chosen", "refused", "default"}]
    <3>1. CASE w = t  BY <3>1, <1>2, EmptySlot DEF DeskShape
    <3>2. CASE w = Desk!Gate  BY <3>2, <1>2 DEF DeskShape
    <3> QED BY <3>1, <3>2
  <2>2. pc' \in [Threads -> {"idle", "emit", "wait", "looks", "asleep"}] /\ gen' \in BOOLEAN
    BY <1>2 DEF DeskShape
  <2> QED BY <1>4, <2>1, <2>2 DEF DeskShape
<1>6. t \notin Desk!Waiters(queue)  BY <1>2 DEF DeskWaits
<1>7. \A i, j \in DOMAIN queue' : queue'[i].who = queue'[j].who /\ queue'[i].who # Desk!Gate => i = j
  <2>1. /\ DOMAIN queue' = 1..(Len(queue) + 1) /\ DOMAIN queue = 1..Len(queue) /\ Len(queue) \in Nat
        /\ queue'[Len(queue) + 1] = d
        /\ \A i \in DOMAIN queue : queue'[i] = queue[i]
    <3> HIDE DEF d
    <3> QED BY <1>2, <1>3 DEF DeskShape
  <2>2. \A i \in DOMAIN queue : queue[i].who # t  BY <1>6, GateApart DEF Desk!Waiters
  <2>3. \A i \in DOMAIN queue' : i \in DOMAIN queue \/ i = Len(queue) + 1  BY <2>1
  <2> QED BY <2>1, <2>2, <2>3 DEF DeskWaits
<1>8. DeskWaits'
  <2> SUFFICES ASSUME NEW u \in Threads
               PROVE  /\ ~gen' => pc'[u] = "idle"
                      /\ u \in Desk!Waiters(queue') => pc'[u] # "idle" /\ slot'[u] = Desk!Empty /\ told'[u] = "none"
                      /\ told'[u] # "none" => pc'[u] \notin {"idle", "asleep"} /\ AsTold(u)'
                      /\ pc'[u] \in {"wait", "looks", "asleep"} => u \in Desk!Waiters(queue') \/ told'[u] # "none"
                      /\ pc'[u] = "looks" =>
                           got'[u] = IF slot'[u].option THEN "chosen"
                                     ELSE IF ~slot'[u].released THEN "none"
                                     ELSE IF slot'[u].stopped THEN "refused" ELSE "default"
    BY <1>7 DEF DeskWaits
  <2>1. u # t => UNCHANGED <<slot[u], told[u], got[u], pc[u]>> /\ (u \in Desk!Waiters(queue') <=> u \in Desk!Waiters(queue))
    BY <1>2, <1>4, GateApart DEF DeskShape
  <2>2. pc'[t] = "emit" /\ told'[t] = "none" /\ (t \in Desk!Waiters(queue') <=> w = t)
        /\ (w = t => slot'[t] = Desk!Empty)
    BY <1>1, <1>2, <1>4, <1>6, GateApart DEF DeskShape, DeskWaits
  <2>3. CASE u = t  BY <2>2, <2>3, <1>2
  <2>4. CASE u # t  BY <2>1, <2>4, <1>2 DEF DeskWaits, AsTold
  <2> QED BY <2>3, <2>4
<1>9. DeskNumbers'
  <2>1. issued \in Nat /\ issued' \in Nat /\ issued <= issued'  BY <1>2 DEF DeskNumbers
  <2>2. /\ Logs(issued) \subseteq Logs(issued') /\ News(issued) \subseteq News(issued')
        /\ 1..issued \subseteq 1..issued'
    BY <2>1, MoreNumbers
  <2>3. Desk!Ids(queue') \subseteq 1..issued'  BY <1>2, <1>4, <2>1, <2>2 DEF DeskNumbers
  <2>4. Desk!Shape(queue') \in News(issued')  BY <2>1, <2>3, <1>4, ShapeNumbers
  <2> QED BY <1>2, <2>1, <2>2, <2>3, <2>4 DEF DeskNumbers
<1> QED BY <1>5, <1>8, <1>9

(* A thread announces, looks at its slot, or goes to sleep.                *)
LEMMA StepThread ==
  ASSUME DeskAll, NEW t \in Threads, Desk!Waits(t)
  PROVE  DeskAll'
<1> USE DEF DeskAll
<1>1. CASE Desk!Emit(t)
  <2>1. /\ pc[t] = "emit" /\ log' = Desk!Written(log, news[t]) /\ news' = [news EXCEPT ![t] = Desk!NoNews]
        /\ pc' = [pc EXCEPT ![t] = IF told[t] # "none" \/ t \in Desk!Waiters(queue) THEN "wait" ELSE "idle"]
        /\ UNCHANGED <<queue, issued, slot, got, told, gen, voided>>
    BY <1>1 DEF Desk!Emit
  <2>2. DeskShape'  BY <2>1 DEF DeskShape
  <2>3. Desk!Waiters(queue') = Desk!Waiters(queue) /\ Desk!Ids(queue') = Desk!Ids(queue)  BY <2>1
  <2>4. gen  BY <2>1 DEF DeskWaits
  <2>5. DeskWaits'  BY <2>1, <2>3, <2>4 DEF DeskWaits, DeskShape, AsTold
  <2>6. DeskNumbers'  BY <2>1, <2>3, WrittenNumbers DEF DeskNumbers, News
  <2> QED BY <2>2, <2>5, <2>6
<1>2. CASE Desk!Look(t)
  <2>1. /\ pc[t] = "wait" /\ pc' = [pc EXCEPT ![t] = "looks"]
        /\ got' = [got EXCEPT ![t] = IF slot[t].option THEN "chosen"
                                     ELSE IF ~slot[t].released THEN "none"
                                     ELSE IF slot[t].stopped THEN "refused" ELSE "default"]
        /\ UNCHANGED <<queue, issued, slot, told, gen, voided, news, log>>
    BY <1>2 DEF Desk!Look
  <2>2. DeskShape'  BY <2>1 DEF DeskShape
  <2>3. Desk!Waiters(queue') = Desk!Waiters(queue) /\ Desk!Ids(queue') = Desk!Ids(queue)  BY <2>1
  <2>4. gen  BY <2>1 DEF DeskWaits
  <2>5. DeskWaits'  BY <2>1, <2>3, <2>4 DEF DeskWaits, DeskShape, AsTold
  <2>6. DeskNumbers'  BY <2>1, <2>3 DEF DeskNumbers
  <2> QED BY <2>2, <2>5, <2>6
<1>3. CASE Desk!Sleep(t)
  <2>1. /\ pc[t] = "looks" /\ pc' = [pc EXCEPT ![t] = IF got[t] = "none" THEN "asleep" ELSE "idle"]
        /\ told' = [told EXCEPT ![t] = IF got[t] = "none" THEN @ ELSE "none"]
        /\ UNCHANGED <<queue, issued, slot, got, gen, voided, news, log>>
    BY <1>3 DEF Desk!Sleep
  <2>2. DeskShape'  BY <2>1 DEF DeskShape
  <2>3. Desk!Waiters(queue') = Desk!Waiters(queue) /\ Desk!Ids(queue') = Desk!Ids(queue)  BY <2>1
  <2>4. gen  BY <2>1 DEF DeskWaits
  <2>5. got[t] = "none" => t \in Desk!Waiters(queue) /\ told[t] = "none"
    BY <2>1 DEF DeskWaits, DeskShape, AsTold
  <2>6. got[t] # "none" => t \notin Desk!Waiters(queue)
    BY <2>1 DEF DeskWaits, DeskShape, AsTold, Desk!Empty
  <2>7. DeskWaits'  BY <2>1, <2>3, <2>4, <2>5, <2>6 DEF DeskWaits, DeskShape, AsTold
  <2>8. DeskNumbers'  BY <2>1, <2>3 DEF DeskNumbers
  <2> QED BY <2>2, <2>7, <2>8
<1> QED BY <1>1, <1>2, <1>3 DEF Desk!Waits

(* The steps that touch neither the queue nor a thread.                    *)
LEMMA StepFrame ==
  ASSUME DeskAll, Desk!Begin \/ Desk!Freeze \/ Desk!Persist \/ Desk!Cancel \/ Desk!Continue \/ UNCHANGED Desk!vars
  PROVE  DeskAll'
<1> USE DEF DeskAll
<1>1. UNCHANGED <<queue, issued, slot, pc, news, got, told>>
  BY DEF Desk!Begin, Desk!Freeze, Desk!Persist, Desk!Cancel, Desk!Continue, Desk!vars, Desk!thread
<1>2. gen' \in BOOLEAN /\ (gen => gen')
  BY DEF Desk!Begin, Desk!Freeze, Desk!Persist, Desk!Cancel, Desk!Continue, Desk!vars, DeskShape
<1>3. voided' \subseteq voided \union {} /\ (log' = log \/ log' = [log EXCEPT !.voids = @ \union voided, !.open = @ \ voided])
  BY DEF Desk!Begin, Desk!Freeze, Desk!Persist, Desk!Cancel, Desk!Continue, Desk!vars
<1>4. DeskShape'  BY <1>1, <1>2 DEF DeskShape
<1>5. Desk!Waiters(queue') = Desk!Waiters(queue) /\ Desk!Ids(queue') = Desk!Ids(queue)  BY <1>1
<1>6. DeskWaits'  BY <1>1, <1>2, <1>5 DEF DeskWaits, AsTold
<1>7. log' \in Logs(issued)  BY <1>3 DEF DeskNumbers, Logs
<1>8. DeskNumbers'  BY <1>1, <1>3, <1>5, <1>7 DEF DeskNumbers
<1> QED BY <1>4, <1>6, <1>8

(* A generation ends; cards that nobody waits for go.                      *)
LEMMA StepGiveBack ==
  ASSUME DeskAll, Desk!GiveBack
  PROVE  DeskAll'
<1> USE DEF DeskAll
<1>1. /\ \A t \in Threads : pc[t] = "idle"
      /\ UNCHANGED <<issued, slot, pc, news, got, told, voided>> /\ gen' = FALSE
      /\ \/ UNCHANGED <<queue, log>>
         \/ queue' = <<>> /\ log' = [log EXCEPT !.voids = @ \union Desk!Ids(queue), !.open = @ \ Desk!Ids(queue)]
  BY DEF Desk!GiveBack, Desk!thread
<1>2. queue' \in Seq(Card) /\ Desk!Waiters(queue') \subseteq Desk!Waiters(queue) /\ Desk!Ids(queue') \subseteq Desk!Ids(queue)
      /\ (queue' = queue \/ DOMAIN queue' = {})
  <2>1. CASE queue' = queue  BY <2>1 DEF DeskShape
  <2>2. CASE queue' = <<>>
    <3>1. DOMAIN queue' = {} /\ queue' \in Seq(Card)  BY <2>2
    <3> QED BY <3>1 DEF Desk!Waiters, Desk!Ids
  <2> QED BY <1>1, <2>1, <2>2
<1>3. DeskShape'  BY <1>1, <1>2 DEF DeskShape
<1>4. DeskWaits'  BY <1>1, <1>2 DEF DeskWaits, AsTold
<1>5. log' \in Logs(issued)  BY <1>1 DEF DeskNumbers, Logs
<1>6. DeskNumbers'  BY <1>1, <1>2, <1>5 DEF DeskNumbers
<1> QED BY <1>3, <1>4, <1>6

(* A queue without its head tells the others apart as before.              *)
LEMMA StillApart ==
  ASSUME NEW q \in Seq(Card), q # <<>>,
         \A i, j \in DOMAIN q : q[i].who = q[j].who /\ q[i].who # Desk!Gate => i = j
  PROVE  /\ \A i, j \in DOMAIN Tail(q) :
               Tail(q)[i].who = Tail(q)[j].who /\ Tail(q)[i].who # Desk!Gate => i = j
         /\ q[1].who # Desk!Gate => q[1].who \notin Desk!Waiters(Tail(q))
<1>1. /\ DOMAIN Tail(q) \subseteq Nat \ {0}
      /\ \A i \in DOMAIN Tail(q) : Tail(q)[i] = q[i + 1] /\ i + 1 \in DOMAIN q /\ 1 \in DOMAIN q
  BY Beheaded
<1>2. \A i, j \in DOMAIN Tail(q) :
               Tail(q)[i].who = Tail(q)[j].who /\ Tail(q)[i].who # Desk!Gate => i = j
  <2> SUFFICES ASSUME NEW i \in DOMAIN Tail(q), NEW j \in DOMAIN Tail(q),
                      Tail(q)[i].who = Tail(q)[j].who, Tail(q)[i].who # Desk!Gate
               PROVE  i = j
    OBVIOUS
  <2>1. i + 1 = j + 1  BY <1>1
  <2> QED BY <2>1, <1>1
<1>3. ASSUME q[1].who # Desk!Gate, NEW i \in DOMAIN Tail(q), Tail(q)[i].who = q[1].who PROVE FALSE
  <2>1. i + 1 = 1  BY <1>1, <1>3
  <2> QED BY <2>1, <1>1
<1> QED BY <1>2, <1>3 DEF Desk!Waiters

(* The card of a gate at the head goes.                                    *)
LEMMA StepDropHead ==
  ASSUME DeskAll, Desk!DropHead
  PROVE  DeskAll'
<1> USE DEF DeskAll
<1>1. /\ queue # <<>> /\ queue[1].who = Desk!Gate /\ queue' = Tail(queue)
      /\ UNCHANGED <<issued, slot, pc, news, got, told, gen, voided, log>>
  BY DEF Desk!DropHead, Desk!thread
<1>2. /\ queue' \in Seq(Card) /\ Desk!Waiters(queue') = Desk!Waiters(queue) /\ Desk!Ids(queue') \subseteq Desk!Ids(queue)
      /\ \A i, j \in DOMAIN queue' : queue'[i].who = queue'[j].who /\ queue'[i].who # Desk!Gate => i = j
  <2>1. /\ queue \in Seq(Card)
        /\ \A i, j \in DOMAIN queue : queue[i].who = queue[j].who /\ queue[i].who # Desk!Gate => i = j
    BY DEF DeskShape, DeskWaits
  <2>2. /\ Tail(queue) \in Seq(Card) /\ Desk!Ids(Tail(queue)) \subseteq Desk!Ids(queue)
        /\ Desk!Waiters(queue) = Desk!Waiters(Tail(queue)) \union ({queue[1].who} \ {Desk!Gate})
    BY <1>1, <2>1, Beheaded
  <2>3. \A i, j \in DOMAIN Tail(queue) :
           Tail(queue)[i].who = Tail(queue)[j].who /\ Tail(queue)[i].who # Desk!Gate => i = j
    BY <1>1, <2>1, StillApart
  <2> QED BY <1>1, <2>2, <2>3
<1>3. DeskShape'  BY <1>1, <1>2 DEF DeskShape
<1>4. DeskWaits'  BY <1>1, <1>2 DEF DeskWaits, AsTold
<1>5. DeskNumbers'  BY <1>1, <1>2 DEF DeskNumbers
<1> QED BY <1>3, <1>4, <1>5

(* An answer goes to the thread of the head.                               *)
LEMMA StepAnswer ==
  ASSUME DeskAll, Desk!Answer
  PROVE  DeskAll'
<1> USE DEF DeskAll
<1> DEFINE w == queue[1].who
<1>1. /\ queue # <<>> /\ queue' = Tail(queue)
      /\ log' = Desk!Written([log EXCEPT !.open = @ \ {queue[1].id}], Desk!Shape(queue'))
      /\ IF w = Desk!Gate THEN UNCHANGED <<slot, pc, told>>
         ELSE /\ pc[w] # "looks" /\ slot' = [slot EXCEPT ![w].option = TRUE]
              /\ told' = [told EXCEPT ![w] = "answered"] /\ pc' = Desk!Notified({w})
      /\ UNCHANGED <<issued, news, got, gen, voided>>
  BY DEF Desk!Answer, Desk!Unlocked
<1>2. /\ queue \in Seq(Card) /\ w \in Threads \union {Desk!Gate}
      /\ \A i, j \in DOMAIN queue : queue[i].who = queue[j].who /\ queue[i].who # Desk!Gate => i = j
  BY <1>1, Beheaded DEF DeskShape, DeskWaits, Card
<1>3. /\ queue' \in Seq(Card) /\ Desk!Ids(queue') \subseteq Desk!Ids(queue)
      /\ Desk!Waiters(queue) = Desk!Waiters(queue') \union ({w} \ {Desk!Gate})
  BY <1>1, <1>2, Beheaded
<1>4. /\ \A i, j \in DOMAIN queue' : queue'[i].who = queue'[j].who /\ queue'[i].who # Desk!Gate => i = j
      /\ w # Desk!Gate => w \notin Desk!Waiters(queue')
  BY <1>1, <1>2, StillApart
<1>5. DeskNumbers'
  <2>1. issued \in Nat /\ [log EXCEPT !.open = @ \ {queue[1].id}] \in Logs(issued)
    BY DEF DeskNumbers, Logs
  <2>2. Desk!Ids(queue') \subseteq 1..issued  BY <1>3 DEF DeskNumbers
  <2>3. Desk!Shape(queue') \in News(issued)  BY <2>1, <2>2, <1>3, ShapeNumbers
  <2>4. log' \in Logs(issued)  BY <1>1, <2>1, <2>3, WrittenNumbers
  <2> QED BY <1>1, <2>1, <2>2, <2>4 DEF DeskNumbers
<1>6. CASE w = Desk!Gate
  <2>1. DeskShape'  BY <1>1, <1>3, <1>6 DEF DeskShape
  <2>2. DeskWaits'  BY <1>1, <1>3, <1>4, <1>6 DEF DeskWaits, AsTold
  <2> QED BY <1>5, <2>1, <2>2
<1>7. CASE w # Desk!Gate
  <2>1. w \in Threads /\ w \in Desk!Waiters(queue)  BY <1>2, <1>3, <1>7
  <2>2. slot[w] \in Slots /\ slot' = [slot EXCEPT ![w] = [slot[w] EXCEPT !.option = TRUE]]
    BY <1>1, <1>7, <2>1 DEF DeskShape
  <2>3. [slot[w] EXCEPT !.option = TRUE] \in Slots  BY <2>2 DEF Slots
  <2>4. pc' = [u \in Threads |-> IF u = w /\ pc[u] = "asleep" THEN "wait" ELSE pc[u]]
    BY <1>1, <1>7 DEF Desk!Notified
  <2>5. DeskShape'
    <3>1. slot' \in [Threads -> Slots]  BY <2>2, <2>3 DEF DeskShape
    <3>2. pc' \in [Threads -> {"idle", "emit", "wait", "looks", "asleep"}]  BY <2>4 DEF DeskShape
    <3>3. told' \in [Threads -> {"none", "answered", "stopped"}]  BY <1>1, <1>7 DEF DeskShape
    <3> QED BY <1>1, <1>3, <3>1, <3>2, <3>3 DEF DeskShape
  <2>6. slot'[w].option /\ told'[w] = "answered" /\ pc'[w] \notin {"idle", "asleep", "looks"}
        /\ w \notin Desk!Waiters(queue')
    <3>1. pc[w] # "idle" /\ pc[w] # "looks"  BY <1>1, <1>7, <2>1 DEF DeskWaits
    <3>2. slot'[w] = [slot[w] EXCEPT !.option = TRUE]  BY <2>1, <2>2 DEF DeskShape
    <3>3. slot'[w].option  BY <2>2, <3>2 DEF Slots
    <3>4. pc'[w] \notin {"idle", "asleep", "looks"}  BY <2>1, <2>4, <3>1 DEF DeskShape
    <3>5. told'[w] = "answered"  BY <1>1, <1>7, <2>1 DEF DeskShape
    <3> QED BY <1>4, <1>7, <3>3, <3>4, <3>5
  <2>7. \A u \in Threads \ {w} : /\ UNCHANGED <<slot[u], pc[u], told[u], got[u]>>
                                 /\ u \in Desk!Waiters(queue') <=> u \in Desk!Waiters(queue)
    BY <1>1, <1>3, <1>7, <2>1, <2>2, <2>4 DEF DeskShape
  <2>8. gen  BY <2>1 DEF DeskWaits
  <2>9. DeskWaits'
    <3> SUFFICES ASSUME NEW u \in Threads
               PROVE  /\ ~gen' => pc'[u] = "idle"
                      /\ u \in Desk!Waiters(queue') => pc'[u] # "idle" /\ slot'[u] = Desk!Empty /\ told'[u] = "none"
                      /\ told'[u] # "none" => pc'[u] \notin {"idle", "asleep"} /\ AsTold(u)'
                      /\ pc'[u] \in {"wait", "looks", "asleep"} => u \in Desk!Waiters(queue') \/ told'[u] # "none"
                      /\ pc'[u] = "looks" =>
                           got'[u] = IF slot'[u].option THEN "chosen"
                                     ELSE IF ~slot'[u].released THEN "none"
                                     ELSE IF slot'[u].stopped THEN "refused" ELSE "default"
      BY <1>4 DEF DeskWaits
    <3>1. CASE u = w  BY <1>1, <2>6, <2>8, <3>1 DEF AsTold
    <3>2. CASE u # w  BY <1>1, <2>7, <2>8, <3>2 DEF DeskWaits, AsTold
    <3> QED BY <3>1, <3>2
  <2> QED BY <1>5, <2>5, <2>9
<1> QED BY <1>6, <1>7

(* A stop voids the cards, and tells those who wait that it was a stop.    *)
LEMMA StepVoid ==
  ASSUME DeskAll, Desk!Void
  PROVE  DeskAll'
<1> USE DEF DeskAll
<1> DEFINE W == Desk!Waiters(queue)
<1>1. /\ \A t \in W : pc[t] # "looks"
      /\ slot' = [t \in Threads |-> IF t \in W THEN Desk!Released(slot[t]) ELSE slot[t]]
      /\ told' = [t \in Threads |-> IF t \in W THEN "stopped" ELSE told[t]]
      /\ pc' = [t \in Threads |-> IF t \in W /\ pc[t] = "asleep" THEN "wait" ELSE pc[t]]
      /\ queue' = <<>> /\ voided' = Desk!Ids(queue)
      /\ UNCHANGED <<issued, news, got, gen, log>>
  BY DEF Desk!Void, Desk!Unlocked, Desk!Notified
<1>2. DOMAIN queue' = {} /\ queue' \in Seq(Card)  BY <1>1
<1>3. Desk!Waiters(queue') = {} /\ Desk!Ids(queue') = {}  BY <1>2 DEF Desk!Waiters, Desk!Ids
<1>4. \A s \in Slots : Desk!Released(s) \in Slots /\ Desk!Released(s).released /\ Desk!Released(s).stopped
                       /\ Desk!Released(s).option = s.option
  BY DEF Desk!Released, Slots
<1>5. DeskShape'
  <2>1. slot' \in [Threads -> Slots]  BY <1>1, <1>4 DEF DeskShape
  <2>2. pc' \in [Threads -> {"idle", "emit", "wait", "looks", "asleep"}]  BY <1>1 DEF DeskShape
  <2>3. told' \in [Threads -> {"none", "answered", "stopped"}]  BY <1>1 DEF DeskShape
  <2> QED BY <1>1, <1>2, <2>1, <2>2, <2>3 DEF DeskShape
<1>6. DeskNumbers'  BY <1>1, <1>3 DEF DeskNumbers
<1>7. DeskWaits'
  <2> SUFFICES ASSUME NEW u \in Threads
               PROVE  /\ ~gen' => pc'[u] = "idle"
                      /\ told'[u] # "none" => pc'[u] \notin {"idle", "asleep"} /\ AsTold(u)'
                      /\ pc'[u] \in {"wait", "looks", "asleep"} => told'[u] # "none"
                      /\ pc'[u] = "looks" =>
                           got'[u] = IF slot'[u].option THEN "chosen"
                                     ELSE IF ~slot'[u].released THEN "none"
                                     ELSE IF slot'[u].stopped THEN "refused" ELSE "default"
    BY <1>2, <1>3 DEF DeskWaits
  <2>1. CASE u \in W
    <3>1. ~slot[u].option /\ slot[u] \in Slots /\ pc[u] \notin {"idle", "looks"} /\ gen
      BY <1>1, <2>1 DEF DeskWaits, DeskShape, Desk!Empty
    <3>2. slot'[u] = Desk!Released(slot[u]) /\ told'[u] = "stopped" /\ pc'[u] \notin {"idle", "asleep", "looks"}
      BY <1>1, <2>1, <3>1
    <3> QED BY <1>1, <1>4, <3>1, <3>2 DEF AsTold
  <2>2. CASE u \notin W
    <3>1. UNCHANGED <<slot[u], pc[u], told[u], got[u]>>  BY <1>1, <2>2
    <3> QED BY <1>1, <2>2, <3>1 DEF DeskWaits, AsTold
  <2> QED BY <2>1, <2>2
<1> QED BY <1>5, <1>6, <1>7

(* A session is rebuilt between two generations, when no thread waits.     *)
LEMMA StepRebuild ==
  ASSUME DeskAll, Desk!Rebuild
  PROVE  DeskAll' /\ issued' = issued
<1> USE DEF DeskAll
<1>1. /\ ~gen /\ issued' = Desk!Max({issued, Desk!IssuedIn(log)}) /\ queue' = Desk!Reopened
      /\ UNCHANGED <<slot, pc, news, got, told, gen, voided, log>>
  BY DEF Desk!Rebuild, Desk!thread
<1>2. issued \in Nat /\ log \in Logs(issued)  BY DEF DeskNumbers
<1>3. Desk!IssuedIn(log) \in 0..issued  BY <1>2, IssuedInNumbers
<1>4. issued' = issued
  <2>1. {issued, Desk!IssuedIn(log)} \in SUBSET (0..issued) /\ {issued, Desk!IssuedIn(log)} # {}  BY <1>2, <1>3
  <2>2. /\ Desk!Max({issued, Desk!IssuedIn(log)}) \in {issued, Desk!IssuedIn(log)}
        /\ Desk!Max({issued, Desk!IssuedIn(log)}) >= issued
    BY <1>2, <2>1, MaxOfNumbers
  <2> QED BY <1>1, <1>2, <1>3, <2>2
<1>5. log.open \subseteq 1..issued  BY <1>2 DEF Logs
<1>6. /\ queue' \in Seq(Card) /\ Desk!Waiters(queue') = {} /\ Desk!Ids(queue') \subseteq log.open
      /\ \A i \in DOMAIN queue' : queue'[i].who = Desk!Gate
  BY <1>1, <1>2, <1>5, ReopenedShape
<1>7. DeskShape'  BY <1>1, <1>6 DEF DeskShape
<1>8. DeskWaits'  BY <1>1, <1>6 DEF DeskWaits, AsTold
<1>9. DeskNumbers'  BY <1>1, <1>4, <1>5, <1>6 DEF DeskNumbers
<1> QED BY <1>4, <1>7, <1>8, <1>9

(* After a restart nobody waits, and the numbers go on from those that the  *)
(* transcript knows.                                                       *)
LEMMA StepRestart ==
  ASSUME DeskAll, Desk!Restart
  PROVE  DeskAll' /\ issued' <= issued
<1> USE DEF DeskAll
<1>1. /\ queue' = Desk!Reopened /\ issued' = Desk!Max({Desk!IssuedIn(log)} \union log.open)
      /\ slot' = [t \in Threads |-> Desk!Empty] /\ pc' = [t \in Threads |-> "idle"]
      /\ news' = [t \in Threads |-> Desk!NoNews]
      /\ got' = [t \in Threads |-> "none"] /\ told' = [t \in Threads |-> "none"]
      /\ gen' = FALSE /\ voided' = {} /\ log' = log
  BY DEF Desk!Restart
<1>2. issued \in Nat /\ log \in Logs(issued)  BY DEF DeskNumbers
<1>3. Desk!IssuedIn(log) \in 0..issued
      /\ log.heads \union log.waiting \union log.voids \subseteq 0..Desk!IssuedIn(log)
  BY <1>2, IssuedInNumbers
<1>4. log.open \subseteq 1..issued  BY <1>2 DEF Logs
<1> DEFINE S == {Desk!IssuedIn(log)} \union log.open
<1>5. issued' \in S /\ \A e \in S : issued' >= e
  <2>1. S \in SUBSET (0..issued) /\ S # {}  BY <1>2, <1>3, <1>4
  <2>2. issued' = Desk!Max(S)  BY <1>1
  <2> HIDE DEF S
  <2> QED BY <1>2, <2>1, <2>2, MaxOfNumbers
<1>6. issued' \in Nat /\ issued' <= issued /\ Desk!IssuedIn(log) <= issued'
  BY <1>2, <1>3, <1>4, <1>5
<1>7. log.open \subseteq 1..issued'
  <2> SUFFICES ASSUME NEW e \in log.open PROVE e \in 1..issued'  OBVIOUS
  <2>1. e \in 1..issued /\ issued' >= e  BY <1>4, <1>5
  <2> QED BY <1>6, <2>1
<1>8. log \in Logs(issued')
  <2>1. \A e \in log.heads \union log.waiting \union log.voids : e \in 1..issued /\ e \in 0..Desk!IssuedIn(log)
    BY <1>2, <1>3 DEF Logs
  <2>2. log.heads \union log.waiting \union log.voids \subseteq 1..issued'
    BY <1>2, <1>3, <1>6, <2>1
  <2>3. log.heads \subseteq 1..issued' /\ log.waiting \subseteq 1..issued' /\ log.voids \subseteq 1..issued'
    BY <2>2
  <2> QED BY <1>2, <1>7, <2>3 DEF Logs
<1>9. /\ queue' \in Seq(Card) /\ Desk!Waiters(queue') = {} /\ Desk!Ids(queue') \subseteq log.open
      /\ \A i \in DOMAIN queue' : queue'[i].who = Desk!Gate
  BY <1>1, <1>2, <1>4, ReopenedShape
<1>10. DeskShape'  BY <1>1, <1>9, EmptySlot DEF DeskShape
<1>11. DeskWaits'  BY <1>1, <1>9 DEF DeskWaits
<1>12. news' \in [Threads -> News(issued')]  BY <1>1 DEF News
<1>13. DeskNumbers'  BY <1>1, <1>6, <1>7, <1>8, <1>9, <1>12 DEF DeskNumbers
<1> QED BY <1>6, <1>10, <1>11, <1>13

(* Every step of the desk keeps its invariant.                             *)
LEMMA StepDesk ==
  ASSUME DeskAll, Desk!Next \/ UNCHANGED Desk!vars
  PROVE  DeskAll'
  BY StepPush, StepThread, StepFrame, StepGiveBack, StepDropHead, StepAnswer, StepVoid,
     StepRebuild, StepRestart DEF Desk!Next

(* A step that numbers a card past those given gives it a new number.      *)
LEMMA StepNew ==
  ASSUME DeskAll, Desk!Next \/ UNCHANGED Desk!vars
  PROVE  Desk!NewNumber
<1> USE DEF DeskAll
<1> SUFFICES ASSUME issued' > issued, gen PROVE issued' \notin log.heads \union log.waiting \union log.voids
  BY DEF Desk!NewNumber
<1>1. issued \in Nat /\ log \in Logs(issued)  BY DEF DeskNumbers
<1>2. log.heads \union log.waiting \union log.voids \subseteq 1..issued  BY <1>1 DEF Logs
<1>3. issued' \in Nat  BY StepDesk DEF DeskNumbers
<1> QED BY <1>1, <1>2, <1>3

-----------------------------------------------------------------------------

Steps == {"new", "slot", "admit", "remove", "stop", "boot", "agent", "commit", "erase",
          "prepare", "generate", "lock", "exec", "end", "done"}
Kinds == {"none", "create", "say", "edit", "delete"}
Request(n) == [pc : Steps, s : Homes \union {"none"}, kind : Kinds, vm : 0..n, old : 0..n]

GuestShape ==
  /\ meta \in [Homes -> {"none", "named", "saved", "deleted"}]
  /\ running \subseteq Homes /\ booting \subseteq Homes
  /\ vms \in Nat /\ vms <= Machines /\ alive \subseteq 1..vms
  /\ guests \in [Homes -> 0..vms] /\ layer \in [Homes -> 0..vms]
  /\ busy \in [1..Machines -> Callers \union {Guest!Nobody}]
  /\ demand \in [Callers -> Request(vms)]
  /\ \A t \in Callers : /\ demand[t].pc \notin {"new", "done"} => demand[t].s \in Homes
                        /\ demand[t].pc \in {"lock", "exec"} => demand[t].vm # 0

(* A machine is in the table, or with the one request that booted it, or   *)
(* with one that has taken it from the table to stop it.                   *)
InHand ==
  \A v \in alive :
    \/ \E s \in Homes : guests[s] = v
    \/ \E t \in Callers : demand[t].pc = "agent" /\ demand[t].vm = v
    \/ \E t \in Callers : demand[t].pc = "stop" /\ demand[t].old = v

(* Until it is entered nobody else knows of it, and no call has it.        *)
OwnGuest ==
  /\ \A v \in 1..Machines : busy[v] # Guest!Nobody => v \in alive
  /\ \A t \in Callers : demand[t].pc = "agent" =>
       /\ demand[t].vm # 0 /\ busy[demand[t].vm] = Guest!Nobody
       /\ \A s \in Homes : guests[s] # demand[t].vm
       /\ \A u \in Callers \ {t} : demand[u].vm # demand[t].vm /\ demand[u].old # demand[t].vm

GuestInv == GuestShape /\ InHand /\ OwnGuest

(* What the invariant says of machines.                                    *)
LEMMA GuestMeans == GuestInv => Guest!NoLostGuests /\ Guest!NotCutOff
<1> SUFFICES ASSUME GuestInv PROVE Guest!NoLostGuests /\ Guest!NotCutOff  OBVIOUS
<1>1. Guest!NoLostGuests  BY DEF GuestInv, InHand, Guest!NoLostGuests
<1>2. Guest!NotCutOff  BY SessionsAssumption DEF GuestInv, GuestShape, OwnGuest, Guest!NotCutOff
<1> QED BY <1>1, <1>2

(* No request and no machine yet.                                          *)
LEMMA InitGuests == Guest!Init => GuestInv
<1> SUFFICES ASSUME Guest!Init PROVE GuestInv  OBVIOUS
<1>1. GuestShape
  <2>1. Guest!Fresh \in Request(0) /\ Guest!Fresh.pc = "new"  BY DEF Guest!Fresh, Request, Steps, Kinds
  <2> QED BY <2>1, SessionsAssumption DEF Guest!Init, GuestShape
<1>2. InHand  BY DEF Guest!Init, InHand
<1>3. OwnGuest  BY DEF Guest!Init, OwnGuest, Guest!Fresh
<1> QED BY <1>1, <1>2, <1>3 DEF GuestInv

(* What a request becomes.                                                 *)
LEMMA Goes ==
  ASSUME GuestShape, NEW t \in Callers, NEW step \in Steps
  PROVE  LET r == [demand[t] EXCEPT !.pc = step]
         IN  /\ r \in Request(vms) /\ r.pc = step /\ r.s = demand[t].s /\ r.kind = demand[t].kind
             /\ r.vm = demand[t].vm /\ r.old = demand[t].old
             /\ Guest!Goto(t, step) => demand' = [demand EXCEPT ![t] = r]
<1>1. demand[t] \in Request(vms)  BY DEF GuestShape
<1> QED BY <1>1 DEF GuestShape, Request, Guest!Goto

Came(s, kind, step) == [Guest!Fresh EXCEPT !.s = s, !.kind = kind, !.pc = step]

(* What a request is when it arrives.                                      *)
LEMMA Arrives ==
  ASSUME GuestShape, NEW step \in Steps, NEW s \in Homes, NEW kind \in Kinds
  PROVE  LET r == Came(s, kind, step)
         IN  r \in Request(vms) /\ r.pc = step /\ r.s = s /\ r.kind = kind /\ r.vm = 0 /\ r.old = 0
<1>1. Guest!Fresh \in Request(vms) /\ Guest!Fresh.vm = 0 /\ Guest!Fresh.old = 0
  BY DEF GuestShape, Request, Guest!Fresh, Steps, Kinds
<1> QED BY <1>1 DEF Request, Came

(* What a request is when it is done.                                      *)
LEMMA Ended ==
  ASSUME GuestShape
  PROVE  Guest!Done \in Request(vms) /\ Guest!Done.pc = "done" /\ Guest!Done.vm = 0 /\ Guest!Done.old = 0
         /\ Guest!Done.kind = "none" /\ Guest!Done.s = "none"
  BY DEF GuestShape, Request, Guest!Fresh, Guest!Done, Steps, Kinds

(* A request that leaves admission, or the table, has no machine.          *)
LEMMA Leaves ==
  ASSUME GuestShape, NEW t \in Callers, NEW ok \in BOOLEAN, demand[t].pc \notin {"new", "done"},
         Guest!Leave(t, ok)
  PROVE  /\ \E r \in Request(vms) :
              /\ r.pc = Guest!Then(t, ok) /\ r.pc \in {"done", "prepare", "commit"}
              /\ r.vm = 0 /\ r.old = 0 /\ r.s = demand[t].s /\ r.s \in Homes /\ r.kind = demand[t].kind
              /\ demand' = [demand EXCEPT ![t] = r]
         /\ meta' \in [Homes -> {"none", "named", "saved", "deleted"}] /\ booting' \subseteq Homes
<1>1. demand[t] \in Request(vms) /\ demand[t].s \in Homes /\ demand[t].kind \in Kinds  BY DEF GuestShape, Request
<1>2. Guest!Then(t, ok) \in {"done", "prepare", "commit"}  BY DEF Guest!Then
<1>3. Guest!Then(t, ok) \in Steps  BY <1>2 DEF Steps
<1> DEFINE r == Came(demand[t].s, demand[t].kind, Guest!Then(t, ok))
<1>4. /\ r \in Request(vms) /\ r.pc = Guest!Then(t, ok) /\ r.vm = 0 /\ r.old = 0 /\ r.s = demand[t].s
      /\ r.kind = demand[t].kind
  BY <1>1, <1>3, Arrives
<1>5. demand' = [demand EXCEPT ![t] = r]  BY DEF Guest!Leave, Came
<1>6. meta' \in [Homes -> {"none", "named", "saved", "deleted"}] /\ booting' \subseteq Homes
  BY DEF Guest!Leave, GuestShape
<1> HIDE DEF r
<1> QED BY <1>1, <1>2, <1>4, <1>5, <1>6

(* A step of a request that has no machine in hand, before and after.      *)
LEMMA QuietStep ==
  ASSUME GuestInv, NEW t \in Callers, NEW r \in Request(vms), demand' = [demand EXCEPT ![t] = r],
         r.pc \notin {"new", "done"} => r.s \in Homes,
         r.pc \in {"lock", "exec"} => r.vm # 0,
         demand[t].pc \notin {"agent", "stop"}, r.pc \notin {"agent", "stop"},
         r.vm = 0 \/ r.vm = demand[t].vm \/ \E s \in Homes : r.vm = guests[s],
         r.old = 0 \/ r.old = demand[t].old,
         UNCHANGED <<guests, alive, layer, vms>>,
         meta' \in [Homes -> {"none", "named", "saved", "deleted"}],
         running' \subseteq Homes, booting' \subseteq Homes,
         busy' \in [1..Machines -> Callers \union {Guest!Nobody}],
         \A v \in 1..Machines : busy'[v] = busy[v] \/ busy'[v] = Guest!Nobody \/ (v \in alive /\ v = demand[t].vm)
  PROVE  GuestInv'
<1> USE DEF GuestInv
<1>1. demand'[t] = r /\ \A u \in Callers \ {t} : demand'[u] = demand[u]  BY DEF GuestShape
<1>2. GuestShape'  BY <1>1 DEF GuestShape
<1>3. InHand'  BY <1>1 DEF InHand
<1>4. \A v \in 1..Machines : busy'[v] # Guest!Nobody => v \in alive'  BY DEF OwnGuest
<1>5. ASSUME NEW u \in Callers, demand'[u].pc = "agent"
      PROVE  /\ demand'[u].vm # 0 /\ busy'[demand'[u].vm] = Guest!Nobody
             /\ \A s \in Homes : guests'[s] # demand'[u].vm
             /\ \A w \in Callers \ {u} : demand'[w].vm # demand'[u].vm /\ demand'[w].old # demand'[u].vm
  <2>1. u # t /\ demand'[u] = demand[u] /\ demand[u].pc = "agent"  BY <1>1, <1>5
  <2>2. /\ demand[u].vm # 0 /\ busy[demand[u].vm] = Guest!Nobody
        /\ \A s \in Homes : guests[s] # demand[u].vm
        /\ \A w \in Callers \ {u} : demand[w].vm # demand[u].vm /\ demand[w].old # demand[u].vm
    BY <2>1 DEF OwnGuest
  <2>3. demand[u].vm \in 1..Machines  BY <2>2, SessionsAssumption DEF GuestShape, Request
  <2>4. busy'[demand[u].vm] = Guest!Nobody  BY <2>1, <2>2, <2>3
  <2>5. r.vm # demand[u].vm /\ r.old # demand[u].vm  BY <2>1, <2>2
  <2> QED BY <1>1, <2>1, <2>2, <2>4, <2>5
<1>6. OwnGuest'  BY <1>4, <1>5 DEF OwnGuest
<1> QED BY <1>2, <1>3, <1>6

(* A request that arrives has no machine.                                  *)
LEMMA AsksAndChanges ==
  ASSUME GuestInv, NEW t \in Callers, Guest!Asks(t) \/ Guest!Changes(t)
  PROVE  GuestInv'
<1>1. PICK s \in Homes : Guest!Create(t, s) \/ Guest!Say(t, s) \/ Guest!Edit(t, s) \/ Guest!Delete(t, s)
  BY DEF Guest!Asks, Guest!Changes
<1>2. /\ demand[t].pc = "new" /\ UNCHANGED <<running, booting, guests, alive, layer, busy, vms>>
      /\ meta' \in [Homes -> {"none", "named", "saved", "deleted"}]
      /\ \E kind \in Kinds, step \in {"admit", "prepare", "slot", "remove"} :
           demand' = [demand EXCEPT ![t] = Came(s, kind, step)]
  BY <1>1 DEF Guest!Create, Guest!Say, Guest!Edit, Guest!Delete, Guest!Comes, Came, GuestInv, GuestShape, Kinds
<1>3. PICK kind \in Kinds, step \in {"admit", "prepare", "slot", "remove"} :
           demand' = [demand EXCEPT ![t] = Came(s, kind, step)]
  BY <1>2
<1> DEFINE r == Came(s, kind, step)
<1>4. step \in Steps  BY DEF Steps
<1>5. r \in Request(vms) /\ r.pc = step /\ r.s = s /\ r.vm = 0 /\ r.old = 0
  BY <1>4, Arrives DEF GuestInv
<1> HIDE DEF r
<1>6. demand' = [demand EXCEPT ![t] = r]  BY <1>3 DEF r
<1> QED BY <1>2, <1>5, <1>6, QuietStep DEF GuestInv, GuestShape

(* A request that is done, or that leaves, takes nothing along.            *)
LEMMA QuietEnd ==
  ASSUME GuestInv, NEW t \in Callers, demand' = [demand EXCEPT ![t] = Guest!Done],
         demand[t].pc \notin {"agent", "stop"}, UNCHANGED <<guests, alive, layer, vms, busy, booting>>,
         meta' \in [Homes -> {"none", "named", "saved", "deleted"}], running' \subseteq Homes
  PROVE  GuestInv'
<1>1. /\ Guest!Done \in Request(vms) /\ Guest!Done.pc = "done" /\ Guest!Done.vm = 0 /\ Guest!Done.old = 0
      /\ booting' \subseteq Homes /\ busy' \in [1..Machines -> Callers \union {Guest!Nobody}]
  BY Ended DEF GuestInv, GuestShape
<1> QED BY <1>1, QuietStep

(* A request that goes on without a machine in hand.                       *)
LEMMA QuietGo ==
  ASSUME GuestInv, NEW t \in Callers, NEW step \in Steps \ {"agent", "stop"}, Guest!Goto(t, step),
         demand[t].pc \notin {"new", "done", "agent", "stop"}, step \in {"lock", "exec"} => demand[t].vm # 0,
         UNCHANGED <<guests, alive, layer, vms, meta>>,
         running' \subseteq Homes, booting' \subseteq Homes,
         busy' \in [1..Machines -> Callers \union {Guest!Nobody}],
         \A v \in 1..Machines : busy'[v] = busy[v] \/ busy'[v] = Guest!Nobody \/ (v \in alive /\ v = demand[t].vm)
  PROVE  GuestInv'
<1> DEFINE r == [demand[t] EXCEPT !.pc = step]
<1>1. /\ r \in Request(vms) /\ r.pc = step /\ r.s = demand[t].s /\ r.vm = demand[t].vm /\ r.old = demand[t].old
      /\ demand' = [demand EXCEPT ![t] = r]
  BY Goes DEF GuestInv
<1>2. demand[t].s \in Homes /\ meta' \in [Homes -> {"none", "named", "saved", "deleted"}]
  BY DEF GuestInv, GuestShape
<1> HIDE DEF r
<1> QED BY <1>1, <1>2, QuietStep

(* A request that leaves without a machine in hand.                        *)
LEMMA QuietLeave ==
  ASSUME GuestInv, NEW t \in Callers, NEW ok \in BOOLEAN, Guest!Leave(t, ok),
         demand[t].pc \notin {"new", "done", "agent", "stop"},
         UNCHANGED <<running, guests, alive, layer, busy, vms>>
  PROVE  GuestInv'
<1>1. PICK r \in Request(vms) :
              /\ r.pc \in {"done", "prepare", "commit"}
              /\ r.vm = 0 /\ r.old = 0 /\ r.s \in Homes /\ demand' = [demand EXCEPT ![t] = r]
  BY Leaves DEF GuestInv
<1>2. meta' \in [Homes -> {"none", "named", "saved", "deleted"}] /\ booting' \subseteq Homes
  BY Leaves DEF GuestInv
<1> QED BY <1>1, <1>2, QuietStep DEF GuestInv, GuestShape

(* The steps that boot, enter and stop nothing.                            *)
LEMMA QuietRuns ==
  ASSUME GuestInv, NEW t \in Callers,
         \/ Guest!Slot(t) \/ Guest!Admit(t) \/ Guest!Commit(t) \/ Guest!Erase(t) \/ Guest!Prepare(t) \/ Guest!Look(t)
         \/ Guest!Lock(t) \/ Guest!Executed(t) \/ Guest!End(t)
  PROVE  GuestInv'
<1>0. /\ meta \in [Homes -> {"none", "named", "saved", "deleted"}] /\ busy \in [1..Machines -> Callers \union {Guest!Nobody}]
      /\ demand[t] \in Request(vms) /\ running \subseteq Homes /\ booting \subseteq Homes
      /\ demand[t].pc \notin {"new", "done"} => demand[t].s \in Homes
  BY DEF GuestInv, GuestShape
<1>1. CASE Guest!Slot(t)
  <2>1. CASE demand[t].s \in booting  BY <1>0, <1>1, <2>1, QuietEnd DEF Guest!Slot
  <2>2. CASE demand[t].s \notin booting
    <3>1. Guest!Goto(t, "admit") /\ demand[t].pc = "slot" /\ booting' \subseteq Homes /\ "admit" \in Steps
          /\ UNCHANGED <<meta, running, guests, alive, layer, busy, vms>>
      BY <1>0, <1>1, <2>2 DEF Guest!Slot, Steps
    <3> QED BY <1>0, <3>1, QuietGo
  <2> QED BY <2>1, <2>2
<1>2. CASE Guest!Admit(t)
  <2> DEFINE admitted == demand[t].s \in Guest!Leases \/ Cardinality(Guest!Leases) < 1
  <2>1. /\ demand[t].pc = "admit" /\ UNCHANGED <<running, guests, alive, layer, busy, vms>>
        /\ \/ Guest!Leave(t, admitted)
           \/ /\ Guest!Goto(t, IF demand[t].kind = "edit" THEN "remove" ELSE "boot")
              /\ UNCHANGED <<booting, meta>>
    BY <1>2, GuestCount DEF Guest!Admit
  <2>2. admitted \in BOOLEAN  OBVIOUS
  <2> HIDE DEF admitted
  <2>3. CASE Guest!Leave(t, admitted)  BY <2>1, <2>2, <2>3, QuietLeave
  <2>4. CASE Guest!Goto(t, "remove") /\ UNCHANGED <<booting, meta>>
    <3>1. "remove" \in Steps  BY DEF Steps
    <3> QED BY <1>0, <2>1, <2>4, <3>1, QuietGo
  <2>5. CASE Guest!Goto(t, "boot") /\ UNCHANGED <<booting, meta>>
    <3>1. "boot" \in Steps  BY DEF Steps
    <3> QED BY <1>0, <2>1, <2>5, <3>1, QuietGo
  <2> QED BY <2>1, <2>3, <2>4, <2>5
<1>3. CASE Guest!Commit(t) \/ Guest!Erase(t)
  <2>1. /\ demand' = [demand EXCEPT ![t] = Guest!Done] /\ demand[t].pc \in {"commit", "erase"}
        /\ meta' \in [Homes -> {"none", "named", "saved", "deleted"}]
        /\ UNCHANGED <<running, booting, guests, alive, layer, busy, vms>>
    BY <1>0, <1>3 DEF Guest!Commit, Guest!Erase
  <2> QED BY <1>0, <2>1, QuietEnd
<1>4. CASE Guest!Prepare(t)
  <2>1. CASE Guest!Goto(t, "generate") /\ running' = running \union {demand[t].s}
    <3>1. "generate" \in Steps  BY DEF Steps
    <3> QED BY <1>0, <1>4, <2>1, <3>1, QuietGo DEF Guest!Prepare
  <2>2. CASE demand' = [demand EXCEPT ![t] = Guest!Done] /\ UNCHANGED running
    BY <1>0, <1>4, <2>2, QuietEnd DEF Guest!Prepare
  <2> QED BY <1>4, <2>1, <2>2 DEF Guest!Prepare
<1>5. CASE Guest!Look(t)
  <2>1. CASE demand[t].s \in Guest!Leases
    <3> DEFINE r == [demand[t] EXCEPT !.vm = guests[demand[t].s], !.pc = "lock"]
    <3>1. guests[demand[t].s] \in 0..vms /\ guests[demand[t].s] # 0 /\ demand[t].s \in Homes /\ "lock" \in Steps
      BY <1>0, <1>5, <2>1 DEF Guest!Look, Guest!Leases, GuestInv, GuestShape, Steps
    <3>2. r \in Request(vms) /\ r.pc = "lock" /\ r.vm = guests[demand[t].s] /\ r.s = demand[t].s
          /\ r.old = demand[t].old
      BY <1>0, <3>1 DEF Request
    <3>3. demand' = [demand EXCEPT ![t] = r] /\ demand[t].pc = "generate"
          /\ UNCHANGED <<meta, running, booting, guests, alive, layer, busy, vms>>
      BY <1>5, <2>1 DEF Guest!Look
    <3> HIDE DEF r
    <3> QED BY <1>0, <3>1, <3>2, <3>3, QuietStep
  <2>2. CASE demand[t].s \notin Guest!Leases
    <3>1. "end" \in Steps  BY DEF Steps
    <3> QED BY <1>0, <1>5, <2>2, <3>1, QuietGo DEF Guest!Look
  <2> QED BY <2>1, <2>2
<1>6. CASE Guest!Lock(t)
  <2>1. CASE demand[t].vm \in alive
    <3>1. "exec" \in Steps /\ demand[t].vm # 0  BY <1>6 DEF Steps, Guest!Lock, GuestInv, GuestShape
    <3>2. /\ Guest!Goto(t, "exec") /\ demand[t].pc = "lock" /\ busy' = [busy EXCEPT ![demand[t].vm] = t]
          /\ UNCHANGED <<meta, running, booting, guests, alive, layer, vms>>
      BY <1>6, <2>1 DEF Guest!Lock
    <3>3. \A v \in 1..Machines : busy'[v] = busy[v] \/ (v \in alive /\ v = demand[t].vm)
      BY <1>0, <2>1, <3>2
    <3>4. busy' \in [1..Machines -> Callers \union {Guest!Nobody}]  BY <1>0, <3>2
    <3> QED BY <1>0, <3>1, <3>2, <3>3, <3>4, QuietGo
  <2>2. CASE demand[t].vm \notin alive
    <3>1. "end" \in Steps  BY DEF Steps
    <3> QED BY <1>0, <1>6, <2>2, <3>1, QuietGo DEF Guest!Lock
  <2> QED BY <2>1, <2>2
<1>7. CASE Guest!Executed(t)
  <2>1. "end" \in Steps  BY DEF Steps
  <2>2. /\ Guest!Goto(t, "end") /\ demand[t].pc = "exec" /\ busy' = [busy EXCEPT ![demand[t].vm] = Guest!Nobody]
        /\ UNCHANGED <<meta, running, booting, guests, alive, layer, vms>>
    BY <1>7 DEF Guest!Executed
  <2>3. \A v \in 1..Machines : busy'[v] = busy[v] \/ busy'[v] = Guest!Nobody  BY <1>0, <2>2
  <2>4. busy' \in [1..Machines -> Callers \union {Guest!Nobody}]  BY <1>0, <2>2
  <2> QED BY <1>0, <2>1, <2>2, <2>3, <2>4, QuietGo
<1>8. CASE Guest!End(t)
  BY <1>0, <1>8, QuietEnd DEF Guest!End
<1> QED BY <1>1, <1>2, <1>3, <1>4, <1>5, <1>6, <1>7, <1>8

(* The machine of a lease goes from the table into a hand.                 *)
LEMMA RemoveStep ==
  ASSUME GuestInv, NEW t \in Callers, Guest!Remove(t)
  PROVE  GuestInv'
<1> USE DEF GuestInv
<1> DEFINE s == demand[t].s
           r == [demand[t] EXCEPT !.old = guests[s], !.pc = "stop"]
<1>1. /\ demand[t].pc = "remove" /\ guests' = [guests EXCEPT ![s] = 0] /\ demand' = [demand EXCEPT ![t] = r]
      /\ UNCHANGED <<meta, running, booting, alive, layer, busy, vms>>
  BY DEF Guest!Remove
<1>2. /\ s \in Homes /\ guests[s] \in 0..vms /\ demand[t] \in Request(vms) /\ "stop" \in Steps
  BY <1>1 DEF GuestShape, Steps
<1>3. r \in Request(vms) /\ r.pc = "stop" /\ r.s = s /\ r.old = guests[s] /\ r.vm = demand[t].vm
  BY <1>2 DEF Request
<1> HIDE DEF r
<1>4. demand'[t] = r /\ \A u \in Callers \ {t} : demand'[u] = demand[u]  BY <1>1 DEF GuestShape
<1>5. guests'[s] = 0 /\ \A q \in Homes \ {s} : guests'[q] = guests[q]  BY <1>1, <1>2 DEF GuestShape
<1>6. GuestShape'  BY <1>1, <1>2, <1>3, <1>4 DEF GuestShape
<1>7. InHand'  BY <1>1, <1>3, <1>4, <1>5 DEF InHand
<1>8. \A v \in 1..Machines : busy'[v] # Guest!Nobody => v \in alive'  BY <1>1 DEF OwnGuest
<1>9. ASSUME NEW u \in Callers, demand'[u].pc = "agent"
      PROVE  /\ demand'[u].vm # 0 /\ busy'[demand'[u].vm] = Guest!Nobody
             /\ \A q \in Homes : guests'[q] # demand'[u].vm
             /\ \A w \in Callers \ {u} : demand'[w].vm # demand'[u].vm /\ demand'[w].old # demand'[u].vm
  <2>1. u # t /\ demand'[u] = demand[u] /\ demand[u].pc = "agent"  BY <1>3, <1>4, <1>9
  <2> QED BY <1>1, <1>2, <1>3, <1>4, <1>5, <2>1 DEF OwnGuest
<1>10. OwnGuest'  BY <1>8, <1>9 DEF OwnGuest
<1> QED BY <1>6, <1>7, <1>10

(* A machine that is stopped was in the hand of the request, and in no call. *)
LEMMA StopStep ==
  ASSUME GuestInv, NEW t \in Callers, Guest!StopOld(t)
  PROVE  GuestInv'
<1> USE DEF GuestInv
<1> DEFINE s == demand[t].s
           old == demand[t].old
<1>1. /\ demand[t].pc = "stop" /\ alive' = alive \ {old} /\ (old # 0 => busy[old] = Guest!Nobody)
      /\ layer' = IF old = 0 THEN layer ELSE [layer EXCEPT ![s] = 0]
      /\ UNCHANGED <<running, guests, busy, vms>>
  BY DEF Guest!StopOld
<1>2. /\ s \in Homes /\ old \in 0..vms /\ demand[t] \in Request(vms)
      /\ meta \in [Homes -> {"none", "named", "saved", "deleted"}] /\ booting \subseteq Homes
      /\ layer \in [Homes -> 0..vms] /\ vms \in Nat
  BY <1>1 DEF GuestShape, Request
<1>3. PICK r \in Request(vms) : /\ demand' = [demand EXCEPT ![t] = r] /\ r.pc \in {"boot", "erase", "done", "prepare", "commit"}
                                /\ r.s \in Homes /\ r.vm \in {0, demand[t].vm} /\ r.old \in {0, old}
                                /\ meta' \in [Homes -> {"none", "named", "saved", "deleted"}] /\ booting' \subseteq Homes
  <2>1. CASE \E step \in {"boot", "erase"} : Guest!Goto(t, step) /\ UNCHANGED <<booting, meta>>
    <3>1. PICK step \in {"boot", "erase"} : Guest!Goto(t, step) /\ UNCHANGED <<booting, meta>>  BY <2>1
    <3> DEFINE r == [demand[t] EXCEPT !.pc = step]
    <3>2. step \in Steps  BY DEF Steps
    <3>3. /\ r \in Request(vms) /\ r.pc = step /\ r.s = demand[t].s /\ r.vm = demand[t].vm /\ r.old = old
          /\ demand' = [demand EXCEPT ![t] = r]
      BY <3>1, <3>2, Goes
    <3> HIDE DEF r
    <3> QED BY <1>2, <3>1, <3>3
  <2>2. CASE Guest!Leave(t, TRUE)
    BY <1>1, <2>2, Leaves, TRUE \in BOOLEAN
  <2> QED BY <2>1, <2>2 DEF Guest!StopOld
<1>4. demand'[t] = r /\ \A u \in Callers \ {t} : demand'[u] = demand[u]  BY <1>3 DEF GuestShape
<1>5. layer' \in [Homes -> 0..vms]  BY <1>1, <1>2
<1>6. GuestShape'  BY <1>1, <1>3, <1>4, <1>5 DEF GuestShape
<1>7. InHand'  BY <1>1, <1>3, <1>4 DEF InHand
<1>8. \A v \in 1..Machines : busy'[v] # Guest!Nobody => v \in alive'
  BY <1>1 DEF OwnGuest
<1>9. ASSUME NEW u \in Callers, demand'[u].pc = "agent"
      PROVE  /\ demand'[u].vm # 0 /\ busy'[demand'[u].vm] = Guest!Nobody
             /\ \A q \in Homes : guests'[q] # demand'[u].vm
             /\ \A w \in Callers \ {u} : demand'[w].vm # demand'[u].vm /\ demand'[w].old # demand'[u].vm
  <2>1. u # t /\ demand'[u] = demand[u] /\ demand[u].pc = "agent"  BY <1>3, <1>4, <1>9
  <2> QED BY <1>1, <1>3, <1>4, <2>1 DEF OwnGuest
<1>10. OwnGuest'  BY <1>8, <1>9 DEF OwnGuest
<1> QED BY <1>6, <1>7, <1>10

(* A machine that boots has a number of its own.                           *)
LEMMA BootStep ==
  ASSUME GuestInv, NEW t \in Callers, Guest!Boot(t)
  PROVE  GuestInv'
<1> USE DEF GuestInv
<1> DEFINE s == demand[t].s
           n == vms + 1
           r == [demand[t] EXCEPT !.vm = n, !.pc = "agent"]
<1>1. /\ demand[t].pc = "boot" /\ vms < Machines /\ vms' = n /\ alive' = alive \union {n}
      /\ layer' = [layer EXCEPT ![s] = n] /\ demand' = [demand EXCEPT ![t] = r]
      /\ UNCHANGED <<meta, running, booting, guests, busy>>
  BY DEF Guest!Boot
<1>2. /\ s \in Homes /\ demand[t] \in Request(vms) /\ vms \in Nat /\ n \in 1..Machines /\ n \notin 1..vms
      /\ 0..vms \subseteq 0..n /\ n \in 0..n /\ n \notin 0..vms /\ "agent" \in Steps /\ n # 0
  <2>1. s \in Homes /\ demand[t] \in Request(vms) /\ vms \in Nat  BY <1>1 DEF GuestShape
  <2>2. "agent" \in Steps  BY DEF Steps
  <2>3. vms < Machines  BY <1>1
  <2> QED BY <2>1, <2>2, <2>3, SessionsAssumption
<1>3. Request(vms) \subseteq Request(n)
  <2> SUFFICES ASSUME NEW q \in Request(vms) PROVE q \in Request(n)  OBVIOUS
  <2> HIDE DEF n
  <2> QED BY <1>2 DEF Request
<1>4. r \in Request(n) /\ r.pc = "agent" /\ r.s = s /\ r.old = demand[t].old /\ r.vm = n
  <2> HIDE DEF n
  <2> QED BY <1>2, <1>3 DEF Request
<1> HIDE DEF r
<1>5. demand'[t] = r /\ \A u \in Callers \ {t} : demand'[u] = demand[u]  BY <1>1 DEF GuestShape
<1>6. GuestShape'
  <2>1. guests' \in [Homes -> 0..n] /\ layer' \in [Homes -> 0..n]
    <3> HIDE DEF n
    <3> QED BY <1>1, <1>2 DEF GuestShape
  <2>2. demand' \in [Callers -> Request(n)]
    <3> HIDE DEF n
    <3> QED BY <1>1, <1>3, <1>4 DEF GuestShape
  <2>3. alive' \subseteq 1..n  BY <1>1, <1>2 DEF GuestShape
  <2>4. n \in Nat /\ n <= Machines  BY <1>1, <1>2
  <2> HIDE DEF n
  <2> QED BY <1>1, <1>2, <1>4, <1>5, <2>1, <2>2, <2>3, <2>4 DEF GuestShape
<1> HIDE DEF n
<1>7. InHand'  BY <1>1, <1>4, <1>5 DEF InHand
<1>8. \A v \in 1..Machines : busy'[v] # Guest!Nobody => v \in alive'
  BY <1>1 DEF OwnGuest
<1>9. n \notin alive /\ (\A q \in Homes : guests[q] # n)
      /\ (\A u \in Callers : demand[u].vm # n /\ demand[u].old # n)
  BY <1>2 DEF GuestShape, Request
<1>10. ASSUME NEW u \in Callers, demand'[u].pc = "agent"
      PROVE  /\ demand'[u].vm # 0 /\ busy'[demand'[u].vm] = Guest!Nobody
             /\ \A q \in Homes : guests'[q] # demand'[u].vm
             /\ \A w \in Callers \ {u} : demand'[w].vm # demand'[u].vm /\ demand'[w].old # demand'[u].vm
  <2>1. CASE u = t
    <3>1. busy[n] = Guest!Nobody  BY <1>2, <1>9 DEF OwnGuest
    <3> QED BY <1>1, <1>2, <1>4, <1>5, <1>9, <2>1, <3>1
  <2>2. CASE u # t
    <3>1. demand'[u] = demand[u] /\ demand[u].pc = "agent" /\ demand[u].vm # n  BY <1>5, <1>9, <1>10, <2>2
    <3> QED BY <1>1, <1>4, <1>5, <3>1 DEF OwnGuest
  <2> QED BY <2>1, <2>2
<1>11. OwnGuest'  BY <1>8, <1>10 DEF OwnGuest
<1> QED BY <1>6, <1>7, <1>11

(* A machine that does not come up is gone.                                *)
LEMMA BootFailsStep ==
  ASSUME GuestInv, NEW t \in Callers, Guest!BootFails(t)
  PROVE  GuestInv'
<1> USE DEF GuestInv
<1> DEFINE n == demand[t].vm
<1>1. /\ demand[t].pc = "agent" /\ alive' = alive \ {n} /\ layer' = [layer EXCEPT ![demand[t].s] = 0]
      /\ Guest!Leave(t, FALSE) /\ UNCHANGED <<running, guests, busy, vms>>
  BY DEF Guest!BootFails
<1>2. PICK r \in Request(vms) : /\ demand' = [demand EXCEPT ![t] = r] /\ r.pc \in {"done", "prepare", "commit"}
                                /\ r.s \in Homes /\ r.vm = 0 /\ r.old = 0
  BY <1>1, FALSE \in BOOLEAN, Leaves
<1>3. meta' \in [Homes -> {"none", "named", "saved", "deleted"}] /\ booting' \subseteq Homes
  BY <1>1, FALSE \in BOOLEAN, Leaves
<1>4. demand'[t] = r /\ \A u \in Callers \ {t} : demand'[u] = demand[u]  BY <1>2 DEF GuestShape
<1>5. layer' \in [Homes -> 0..vms]
  <2>1. layer \in [Homes -> 0..vms] /\ 0 \in 0..vms  BY DEF GuestShape
  <2> QED BY <1>1, <2>1
<1>6. GuestShape'  BY <1>1, <1>2, <1>3, <1>4, <1>5 DEF GuestShape
<1>7. busy[n] = Guest!Nobody /\ (\A q \in Homes : guests[q] # n)
      /\ \A w \in Callers \ {t} : demand[w].vm # n /\ demand[w].old # n
  BY <1>1 DEF OwnGuest
<1>8. InHand'  BY <1>1, <1>2, <1>4, <1>7 DEF InHand
<1>9. \A v \in 1..Machines : busy'[v] # Guest!Nobody => v \in alive'
  BY <1>1, <1>7 DEF OwnGuest
<1>10. ASSUME NEW u \in Callers, demand'[u].pc = "agent"
      PROVE  /\ demand'[u].vm # 0 /\ busy'[demand'[u].vm] = Guest!Nobody
             /\ \A q \in Homes : guests'[q] # demand'[u].vm
             /\ \A w \in Callers \ {u} : demand'[w].vm # demand'[u].vm /\ demand'[w].old # demand'[u].vm
  <2>1. u # t /\ demand'[u] = demand[u] /\ demand[u].pc = "agent"  BY <1>2, <1>4, <1>10
  <2> QED BY <1>1, <1>2, <1>4, <2>1 DEF OwnGuest
<1>11. OwnGuest'  BY <1>9, <1>10 DEF OwnGuest
<1> QED BY <1>6, <1>8, <1>11

(* A machine is entered; the one it replaces goes into the hand.           *)
LEMMA EnterStep ==
  ASSUME GuestInv, NEW t \in Callers, Guest!Enter(t)
  PROVE  GuestInv'
<1> USE DEF GuestInv
<1> DEFINE s == demand[t].s
           n == demand[t].vm
           old == guests[s]
<1>1. /\ demand[t].pc = "agent" /\ guests' = [guests EXCEPT ![s] = n]
      /\ UNCHANGED <<running, alive, layer, busy, vms>>
  BY DEF Guest!Enter
<1>2. /\ s \in Homes /\ old \in 0..vms /\ demand[t] \in Request(vms) /\ n \in 0..vms
      /\ meta \in [Homes -> {"none", "named", "saved", "deleted"}] /\ booting \subseteq Homes
  BY <1>1 DEF GuestShape, Request
<1>3. PICK r \in Request(vms) : /\ demand' = [demand EXCEPT ![t] = r] /\ r.s \in Homes
                                /\ r.pc \in {"stop", "done", "prepare", "commit"}
                                /\ r.pc = "stop" => r.old = old
                                /\ old # 0 => r.pc = "stop"
                                /\ r.vm \in {0, n} /\ r.old \in {0, old}
                                /\ meta' \in [Homes -> {"none", "named", "saved", "deleted"}] /\ booting' \subseteq Homes
  <2>1. CASE old = 0
    <3>1. Guest!Leave(t, TRUE)  BY <2>1 DEF Guest!Enter
    <3>2. /\ \E r \in Request(vms) :
              /\ r.pc \in {"done", "prepare", "commit"}
              /\ r.vm = 0 /\ r.old = 0 /\ r.s \in Homes /\ demand' = [demand EXCEPT ![t] = r]
          /\ meta' \in [Homes -> {"none", "named", "saved", "deleted"}] /\ booting' \subseteq Homes
      BY <1>1, <3>1, Leaves, TRUE \in BOOLEAN
    <3> QED BY <2>1, <3>2
  <2>2. CASE old # 0
    <3> DEFINE r == [demand[t] EXCEPT !.old = old, !.pc = "stop"]
    <3>1. demand' = [demand EXCEPT ![t] = r] /\ UNCHANGED <<booting, meta>>  BY <2>2 DEF Guest!Enter
    <3>2. "stop" \in Steps  BY DEF Steps
    <3>3. r \in Request(vms) /\ r.pc = "stop" /\ r.s = s /\ r.old = old /\ r.vm = n
      BY <1>2, <3>2 DEF Request
    <3> HIDE DEF r
    <3> QED BY <1>2, <3>1, <3>3
  <2> QED BY <2>1, <2>2
<1>4. demand'[t] = r /\ \A u \in Callers \ {t} : demand'[u] = demand[u]  BY <1>3 DEF GuestShape
<1>5. guests'[s] = n /\ \A q \in Homes \ {s} : guests'[q] = guests[q]  BY <1>1, <1>2 DEF GuestShape
<1>6. guests' \in [Homes -> 0..vms]  BY <1>1, <1>2 DEF GuestShape
<1>7. GuestShape'  BY <1>1, <1>3, <1>4, <1>6 DEF GuestShape
<1>8. InHand'
  <2> SUFFICES ASSUME NEW v \in alive
               PROVE  \/ \E q \in Homes : guests'[q] = v
                      \/ \E u \in Callers : demand'[u].pc = "agent" /\ demand'[u].vm = v
                      \/ \E u \in Callers : demand'[u].pc = "stop" /\ demand'[u].old = v
    BY <1>1 DEF InHand
  <2>1. CASE \E q \in Homes : guests[q] = v
    <3>1. v # 0  BY DEF GuestShape
    <3>2. PICK q \in Homes : guests[q] = v  BY <2>1
    <3>3. CASE q = s  BY <1>3, <1>4, <3>1, <3>2, <3>3
    <3>4. CASE q # s  BY <1>5, <3>2, <3>4
    <3> QED BY <3>3, <3>4
  <2>2. CASE \E u \in Callers : demand[u].pc = "agent" /\ demand[u].vm = v
    BY <1>2, <1>4, <1>5, <2>2
  <2>3. CASE \E u \in Callers : demand[u].pc = "stop" /\ demand[u].old = v
    BY <1>1, <1>4, <2>3
  <2> QED BY <2>1, <2>2, <2>3 DEF InHand
<1>9. \A v \in 1..Machines : busy'[v] # Guest!Nobody => v \in alive'
  BY <1>1 DEF OwnGuest
<1>10. ASSUME NEW u \in Callers, demand'[u].pc = "agent"
      PROVE  /\ demand'[u].vm # 0 /\ busy'[demand'[u].vm] = Guest!Nobody
             /\ \A q \in Homes : guests'[q] # demand'[u].vm
             /\ \A w \in Callers \ {u} : demand'[w].vm # demand'[u].vm /\ demand'[w].old # demand'[u].vm
  <2>1. u # t /\ demand'[u] = demand[u] /\ demand[u].pc = "agent"  BY <1>3, <1>4, <1>10
  <2>2. /\ demand[u].vm # 0 /\ busy[demand[u].vm] = Guest!Nobody
        /\ \A q \in Homes : guests[q] # demand[u].vm
        /\ \A w \in Callers \ {u} : demand[w].vm # demand[u].vm /\ demand[w].old # demand[u].vm
    BY <2>1 DEF OwnGuest
  <2>3. n # demand[u].vm /\ old # demand[u].vm  BY <1>2, <2>1, <2>2
  <2>4. \A q \in Homes : guests'[q] # demand'[u].vm  BY <1>5, <2>1, <2>2, <2>3
  <2>5. r.vm # demand[u].vm /\ r.old # demand[u].vm  BY <1>3, <2>2, <2>3
  <2> QED BY <1>1, <1>4, <2>1, <2>2, <2>4, <2>5
<1>11. OwnGuest'  BY <1>9, <1>10 DEF OwnGuest
<1> QED BY <1>7, <1>8, <1>11

(* Every step keeps the invariant of the machines.                         *)
LEMMA StepGuests ==
  ASSUME GuestInv, Guest!Next \/ UNCHANGED Guest!vars
  PROVE  GuestInv'
<1>1. CASE UNCHANGED Guest!vars
  BY <1>1 DEF Guest!vars, GuestInv, GuestShape, InHand, OwnGuest
<1>2. ASSUME NEW t \in Callers, Guest!Asks(t) \/ Guest!Changes(t) PROVE GuestInv'
  BY <1>2, AsksAndChanges
<1>3. ASSUME NEW t \in Callers, Guest!Runs(t) PROVE GuestInv'
  BY <1>3, QuietRuns, RemoveStep, StopStep, BootStep, BootFailsStep, EnterStep DEF Guest!Runs
<1> QED BY <1>1, <1>2, <1>3 DEF Guest!Next, Guest!Talk

-----------------------------------------------------------------------------
(* Conversations alone: a lease is in the hand of one request at a time,   *)
(* which finds it without a machine, and whose layer it is.                *)
Holds(t) == demand[t].pc \in {"admit", "boot", "agent", "commit"}

TalkInv ==
  /\ \A t \in Callers :
       /\ demand[t].pc \notin {"remove", "stop", "erase"} /\ demand[t].old = 0
       /\ demand[t].pc \notin {"new", "done"} => demand[t].kind \in {"create", "say"}
       /\ demand[t].pc \notin {"new", "done"} /\ demand[t].kind = "create" => Holds(t)
       /\ demand[t].pc = "commit" => demand[t].kind = "create"
       /\ Holds(t) => meta[demand[t].s] = IF demand[t].kind = "create" THEN "named" ELSE "saved"
       /\ demand[t].pc = "slot" => meta[demand[t].s] = "saved"
       /\ Holds(t) /\ demand[t].kind = "say" => demand[t].s \in booting
       /\ demand[t].pc \in {"boot", "agent"} => guests[demand[t].s] = 0
       /\ demand[t].pc = "agent" => layer[demand[t].s] = demand[t].vm
  /\ \A t, u \in Callers : Holds(t) /\ Holds(u) /\ demand[t].s = demand[u].s => t = u
  /\ \A s \in Homes : guests[s] # 0 => layer[s] = guests[s]

(* What it says: a lease has at most one machine, on its own layer.        *)
LEMMA TalkMeans ==
  ASSUME GuestInv, TalkInv
  PROVE  Guest!OneGuestPerLease
<1> SUFFICES ASSUME NEW s \in Homes
             PROVE  LET mine == {v \in alive : v = guests[s] \/ \E t \in Callers :
                           demand[t].s = s /\ demand[t].pc \in {"agent", "stop"} /\ v \in {demand[t].vm, demand[t].old}}
                    IN  Cardinality(mine) <= 1 /\ \A v \in mine : layer[s] = v
  BY GuestCount DEF Guest!OneGuestPerLease
<1> DEFINE mine == {v \in alive : v = guests[s] \/ \E t \in Callers :
                       demand[t].s = s /\ demand[t].pc \in {"agent", "stop"} /\ v \in {demand[t].vm, demand[t].old}}
<1>1. \A v \in mine : layer[s] = v
  <2> SUFFICES ASSUME NEW v \in mine PROVE layer[s] = v  OBVIOUS
  <2>1. v # 0  BY DEF GuestInv, GuestShape
  <2>2. CASE v = guests[s]  BY <2>1, <2>2 DEF TalkInv
  <2>3. CASE v # guests[s]
    <3>1. PICK t \in Callers : demand[t].s = s /\ demand[t].pc \in {"agent", "stop"} /\ v \in {demand[t].vm, demand[t].old}
      BY <2>3
    <3> QED BY <2>1, <3>1 DEF TalkInv
  <2> QED BY <2>2, <2>3
<1>2. mine \subseteq {layer[s]}  BY <1>1
<1>3. Cardinality(mine) <= 1
  <2> HIDE DEF mine
  <2>1. IsFiniteSet({layer[s]}) /\ Cardinality({layer[s]}) = 1  BY FS_Singleton
  <2>2. Cardinality(mine) \in Nat /\ Cardinality(mine) <= Cardinality({layer[s]})
    BY <1>2, <2>1, FS_Subset, FS_CardinalityType
  <2> QED BY <2>1, <2>2
<1> QED BY <1>1, <1>3

(* No lease is in a hand yet.                                              *)
LEMMA InitTalk == Guest!Init => TalkInv
  BY DEF Guest!Init, TalkInv, Holds, Guest!Fresh

(* A step that puts nothing into the table and boots nothing.              *)
LEMMA TalkQuiet ==
  ASSUME GuestInv, TalkInv, NEW t \in Callers, NEW r, demand' = [demand EXCEPT ![t] = r],
         UNCHANGED <<guests, layer>>,
         r.pc \notin {"remove", "stop", "erase", "agent"}, r.old = 0,
         r.pc \notin {"new", "done"} => r.s \in Homes /\ r.kind \in {"create", "say"},
         LET holds == r.pc \in {"admit", "boot", "commit"}
         IN  /\ r.pc \notin {"new", "done"} /\ r.kind = "create" => holds
             /\ r.pc = "commit" => r.kind = "create"
             /\ holds => meta'[r.s] = IF r.kind = "create" THEN "named" ELSE "saved"
             /\ holds /\ r.kind = "say" => r.s \in booting'
             /\ holds => \A u \in Callers \ {t} : ~(Holds(u) /\ demand[u].s = r.s)
             /\ r.pc = "slot" => meta'[r.s] = "saved"
             /\ r.pc = "boot" => guests[r.s] = 0,
         \A u \in Callers \ {t} :
           /\ Holds(u) => meta'[demand[u].s] = meta[demand[u].s]
                          /\ (demand[u].kind = "say" => demand[u].s \in booting')
           /\ demand[u].pc = "slot" => meta'[demand[u].s] = "saved"
  PROVE  TalkInv'
<1>1. demand'[t] = r /\ \A u \in Callers \ {t} : demand'[u] = demand[u]  BY DEF GuestInv, GuestShape
<1>2. ASSUME NEW u \in Callers
      PROVE  /\ demand'[u].pc \notin {"remove", "stop", "erase"} /\ demand'[u].old = 0
             /\ demand'[u].pc \notin {"new", "done"} => demand'[u].kind \in {"create", "say"}
             /\ demand'[u].pc \notin {"new", "done"} /\ demand'[u].kind = "create" => Holds(u)'
             /\ demand'[u].pc = "commit" => demand'[u].kind = "create"
             /\ Holds(u)' => meta'[demand'[u].s] = IF demand'[u].kind = "create" THEN "named" ELSE "saved"
             /\ demand'[u].pc = "slot" => meta'[demand'[u].s] = "saved"
             /\ Holds(u)' /\ demand'[u].kind = "say" => demand'[u].s \in booting'
             /\ demand'[u].pc \in {"boot", "agent"} => guests'[demand'[u].s] = 0
             /\ demand'[u].pc = "agent" => layer'[demand'[u].s] = demand'[u].vm
  <2>1. CASE u = t  BY <1>1, <2>1 DEF Holds
  <2>2. CASE u # t  BY <1>1, <2>2 DEF TalkInv, Holds
  <2> QED BY <2>1, <2>2
<1>3. \A u, w \in Callers : Holds(u)' /\ Holds(w)' /\ demand'[u].s = demand'[w].s => u = w
  BY <1>1 DEF TalkInv, Holds
<1>4. \A s \in Homes : guests'[s] # 0 => layer'[s] = guests'[s]  BY DEF TalkInv
<1> QED BY <1>2, <1>3, <1>4 DEF TalkInv

(* A request that arrives holds no lease.                                  *)
LEMMA TalkComes ==
  ASSUME GuestInv, TalkInv, NEW t \in Callers, Guest!Asks(t)
  PROVE  TalkInv'
<1>0. GuestShape  BY DEF GuestInv
<1>1. PICK s \in Homes : Guest!Create(t, s) \/ Guest!Say(t, s)  BY DEF Guest!Asks
<1>2. CASE Guest!Create(t, s)
  <2>1. /\ demand[t].pc = "new" /\ meta[s] = "none" /\ meta' = [meta EXCEPT ![s] = "named"]
        /\ demand' = [demand EXCEPT ![t] = Came(s, "create", "admit")]
        /\ UNCHANGED <<guests, layer, booting>>
    BY <1>2 DEF Guest!Create, Guest!Comes, Came
  <2>2. "create" \in Kinds /\ "admit" \in Steps  BY DEF Kinds, Steps
  <2> DEFINE r == Came(s, "create", "admit")
  <2>3. /\ r.pc = "admit" /\ r.s = s /\ r.kind = "create" /\ r.old = 0
        /\ demand' = [demand EXCEPT ![t] = r]
    BY <1>0, <2>1, <2>2, Arrives
  <2> HIDE DEF r
  <2>4. meta'[s] = "named" /\ \A q \in Homes \ {s} : meta'[q] = meta[q]  BY <1>0, <2>1 DEF GuestShape
  <2>5. \A u \in Callers : Holds(u) => demand[u].s \in Homes /\ demand[u].s # s
    BY <1>0, <2>1 DEF TalkInv, GuestShape, Holds
  <2>6. \A u \in Callers : demand[u].pc = "slot" => demand[u].s \in Homes /\ demand[u].s # s
    BY <1>0, <2>1 DEF TalkInv, GuestShape
  <2>7. \A u \in Callers : Holds(u) /\ demand[u].kind = "say" => demand[u].s \in booting'
    BY <2>1 DEF TalkInv
  <2>8. \A u \in Callers : demand[u].pc = "slot" => meta[demand[u].s] = "saved"  BY DEF TalkInv
  <2>9. \A u \in Callers \ {t} :
           /\ Holds(u) => meta'[demand[u].s] = meta[demand[u].s]
                          /\ (demand[u].kind = "say" => demand[u].s \in booting')
           /\ demand[u].pc = "slot" => meta'[demand[u].s] = "saved"
    BY <2>4, <2>5, <2>6, <2>7, <2>8
  <2>10. \A u \in Callers \ {t} : ~(Holds(u) /\ demand[u].s = r.s)  BY <2>3, <2>5
  <2>11. meta'[r.s] = "named"  BY <2>3, <2>4
  <2> QED BY <2>1, <2>3, <2>9, <2>10, <2>11, TalkQuiet
<1>3. CASE Guest!Say(t, s)
  <2>1. PICK p \in {"prepare", "slot"} :
            /\ demand[t].pc = "new" /\ meta[s] = "saved" /\ UNCHANGED <<meta, guests, layer, booting>>
            /\ demand' = [demand EXCEPT ![t] = Came(s, "say", p)]
    BY <1>3 DEF Guest!Say, Guest!Comes, Came
  <2>2. "say" \in Kinds /\ p \in Steps  BY DEF Kinds, Steps
  <2> DEFINE r == Came(s, "say", p)
  <2>3. r.pc = p /\ r.s = s /\ r.kind = "say" /\ r.old = 0 /\ demand' = [demand EXCEPT ![t] = r]
    BY <1>0, <2>1, <2>2, Arrives
  <2> HIDE DEF r
  <2>4. \A u \in Callers : /\ Holds(u) /\ demand[u].kind = "say" => demand[u].s \in booting'
                           /\ demand[u].pc = "slot" => meta[demand[u].s] = "saved"
    BY <2>1 DEF TalkInv
  <2> QED BY <2>1, <2>3, <2>4, TalkQuiet
<1> QED BY <1>1, <1>2, <1>3

(* A request that holds the lease leaves it, with the lease as it is.      *)
LEMMA TalkLeaves ==
  ASSUME GuestInv, TalkInv, NEW t \in Callers, NEW ok \in BOOLEAN, Guest!Leave(t, ok),
         demand[t].pc \in {"admit", "agent"},
         layer' \in [Homes -> 0..vms], guests' \in [Homes -> 0..vms],
         \A s \in Homes \ {demand[t].s} : UNCHANGED <<guests[s], layer[s]>>,
         guests'[demand[t].s] # 0 => layer'[demand[t].s] = guests'[demand[t].s]
  PROVE  TalkInv'
<1>0. GuestShape /\ Holds(t) /\ demand[t].pc \notin {"new", "done"}  BY DEF GuestInv, Holds
<1> DEFINE s == demand[t].s
<1>1. PICK r \in Request(vms) : /\ r.pc = Guest!Then(t, ok) /\ r.old = 0 /\ r.s = s /\ r.kind = demand[t].kind
                                /\ r.pc \in {"done", "prepare", "commit"}
                                /\ demand' = [demand EXCEPT ![t] = r]
  BY <1>0, Leaves
<1>2. demand'[t] = r /\ \A u \in Callers \ {t} : demand'[u] = demand[u]  BY <1>0, <1>1 DEF GuestShape
<1>3. /\ booting' = IF demand[t].kind = "say" THEN booting \ {s} ELSE booting
      /\ meta' = IF demand[t].kind = "create" /\ ~ok THEN [meta EXCEPT ![s] = "none"] ELSE meta
  BY DEF Guest!Leave
<1>4. \A u \in Callers \ {t} : Holds(u) => demand[u].s \in Homes /\ demand[u].s # s
  BY <1>0 DEF TalkInv, GuestShape, Holds
<1>5. s \in Homes /\ demand[t].kind \in {"create", "say"}
      /\ meta[s] = IF demand[t].kind = "create" THEN "named" ELSE "saved"
  BY <1>0 DEF TalkInv, GuestShape
<1>6. \A u \in Callers \ {t} : demand[u].pc = "slot" => meta[demand[u].s] = "saved" /\ demand[u].s \in Homes
  BY <1>0 DEF TalkInv, GuestShape
<1>7. \A u \in Callers \ {t} : demand[u].pc = "slot" => meta'[demand[u].s] = "saved"
  BY <1>0, <1>3, <1>5, <1>6 DEF GuestShape
<1>8. \A u \in Callers \ {t} : Holds(u) => meta'[demand[u].s] = meta[demand[u].s]
                                 /\ (demand[u].s \in booting => demand[u].s \in booting')
  BY <1>0, <1>3, <1>4 DEF GuestShape
<1>9. /\ r.pc = "commit" => r.kind = "create" /\ meta'[s] = "named"
      /\ r.pc \notin {"new", "done"} /\ r.kind = "create" => r.pc = "commit"
  BY <1>1, <1>3, <1>5 DEF Guest!Then
<1>10. ASSUME NEW u \in Callers
      PROVE  /\ demand'[u].pc \notin {"remove", "stop", "erase"} /\ demand'[u].old = 0
             /\ demand'[u].pc \notin {"new", "done"} => demand'[u].kind \in {"create", "say"}
             /\ demand'[u].pc \notin {"new", "done"} /\ demand'[u].kind = "create" => Holds(u)'
             /\ demand'[u].pc = "commit" => demand'[u].kind = "create"
             /\ Holds(u)' => meta'[demand'[u].s] = IF demand'[u].kind = "create" THEN "named" ELSE "saved"
             /\ demand'[u].pc = "slot" => meta'[demand'[u].s] = "saved"
             /\ Holds(u)' /\ demand'[u].kind = "say" => demand'[u].s \in booting'
             /\ demand'[u].pc \in {"boot", "agent"} => guests'[demand'[u].s] = 0
             /\ demand'[u].pc = "agent" => layer'[demand'[u].s] = demand'[u].vm
  <2>1. CASE u = t  BY <1>1, <1>2, <1>5, <1>9, <2>1 DEF Holds
  <2>2. CASE u # t
    <3>1. demand'[u] = demand[u]  BY <1>2, <2>2
    <3>2. demand[u].pc \in {"boot", "agent"} => /\ guests'[demand[u].s] = guests[demand[u].s]
                                                /\ layer'[demand[u].s] = layer[demand[u].s]
      BY <1>4, <2>2 DEF Holds
    <3> QED BY <1>7, <1>8, <2>2, <3>1, <3>2 DEF TalkInv, Holds
  <2> QED BY <2>1, <2>2
<1>11. \A u, w \in Callers : Holds(u)' /\ Holds(w)' /\ demand'[u].s = demand'[w].s => u = w
  BY <1>0, <1>1, <1>2 DEF TalkInv, Holds
<1>12. \A q \in Homes : guests'[q] # 0 => layer'[q] = guests'[q]  BY DEF TalkInv
<1> QED BY <1>10, <1>11, <1>12 DEF TalkInv

(* What a request becomes when it goes on, or is done.                     *)
LEMMA TalkGoes ==
  ASSUME GuestInv, TalkInv, NEW t \in Callers, NEW r, demand' = [demand EXCEPT ![t] = r],
         UNCHANGED <<meta, booting, guests, layer>>, r.old = 0,
         \/ r.pc = "done"
         \/ /\ r.pc \in {"prepare", "generate", "lock", "exec", "end"} /\ r.s = demand[t].s
            /\ r.kind = demand[t].kind /\ demand[t].pc \in {"prepare", "generate", "lock", "exec"}
  PROVE  TalkInv'
<1>1. \A u \in Callers : /\ Holds(u) /\ demand[u].kind = "say" => demand[u].s \in booting'
                         /\ demand[u].pc = "slot" => meta'[demand[u].s] = "saved"
  BY DEF TalkInv
<1>2. r.pc \notin {"new", "done"} => r.s \in Homes /\ r.kind \in {"create", "say"} /\ r.kind # "create"
  BY DEF TalkInv, Holds, GuestInv, GuestShape
<1> QED BY <1>1, <1>2, TalkQuiet

(* Every step of a request keeps a lease in one hand.                      *)
LEMMA TalkRuns ==
  ASSUME GuestInv, TalkInv, NEW t \in Callers, Guest!Runs(t)
  PROVE  TalkInv'
<1>0. /\ GuestShape /\ demand[t] \in Request(vms) /\ demand[t].old = 0
      /\ demand[t].pc \notin {"new", "done"} => demand[t].s \in Homes /\ demand[t].kind \in {"create", "say"}
      /\ guests \in [Homes -> 0..vms] /\ layer \in [Homes -> 0..vms]
  BY DEF GuestInv, GuestShape, TalkInv
<1> DEFINE s == demand[t].s
<1>1. CASE Guest!Slot(t)
  <2>1. CASE s \in booting
    <3>1. /\ demand' = [demand EXCEPT ![t] = Guest!Done] /\ UNCHANGED <<meta, booting, guests, layer>>
          /\ Guest!Done.pc = "done" /\ Guest!Done.old = 0
      BY <1>0, <1>1, <2>1, Ended DEF Guest!Slot
    <3> QED BY <3>1, TalkGoes
  <2>2. CASE s \notin booting
    <3> DEFINE r == [demand[t] EXCEPT !.pc = "admit"]
    <3>1. "admit" \in Steps  BY DEF Steps
    <3>2. /\ demand' = [demand EXCEPT ![t] = r] /\ r.pc = "admit" /\ r.s = s /\ r.kind = demand[t].kind /\ r.old = 0
          /\ booting' = booting \union {s} /\ UNCHANGED <<meta, guests, layer>> /\ demand[t].pc = "slot"
      BY <1>0, <1>1, <2>2, <3>1, Goes DEF Guest!Slot
    <3> HIDE DEF r
    <3>3. /\ demand[t].kind = "say" /\ meta[s] = "saved" /\ s \in Homes
      BY <1>0, <3>2 DEF TalkInv, Holds
    <3>4. \A u \in Callers \ {t} : ~(Holds(u) /\ demand[u].s = r.s)
      BY <1>0, <2>2, <3>2, <3>3 DEF TalkInv, Holds
    <3>5. \A u \in Callers : /\ Holds(u) /\ demand[u].kind = "say" => demand[u].s \in booting'
                             /\ demand[u].pc = "slot" => meta'[demand[u].s] = "saved"
      BY <3>2 DEF TalkInv
    <3> QED BY <1>0, <3>2, <3>3, <3>4, <3>5, TalkQuiet
  <2> QED BY <2>1, <2>2
<1>2. CASE Guest!Admit(t)
  <2> DEFINE admitted == s \in Guest!Leases \/ Cardinality(Guest!Leases) < 1
  <2>1. /\ demand[t].pc = "admit" /\ UNCHANGED <<guests, layer>> /\ demand[t].kind # "edit"
        /\ \/ Guest!Leave(t, admitted)
           \/ Guest!Goto(t, "boot") /\ s \notin Guest!Leases /\ UNCHANGED <<booting, meta>>
    BY <1>0, <1>2, GuestCount DEF Guest!Admit
  <2>2. admitted \in BOOLEAN  OBVIOUS
  <2> HIDE DEF admitted
  <2>3. CASE Guest!Leave(t, admitted)
    <3>1. guests'[s] # 0 => layer'[s] = guests'[s]  BY <1>0, <2>1 DEF TalkInv
    <3>2. layer' \in [Homes -> 0..vms] /\ guests' \in [Homes -> 0..vms]
          /\ \A q \in Homes \ {s} : UNCHANGED <<guests[q], layer[q]>>
      BY <1>0, <2>1
    <3> QED BY <2>1, <2>2, <2>3, <3>1, <3>2, TalkLeaves
  <2>4. CASE Guest!Goto(t, "boot") /\ s \notin Guest!Leases /\ UNCHANGED <<booting, meta>>
    <3> DEFINE r == [demand[t] EXCEPT !.pc = "boot"]
    <3>1. "boot" \in Steps  BY DEF Steps
    <3>2. /\ demand' = [demand EXCEPT ![t] = r] /\ r.pc = "boot" /\ r.s = s /\ r.kind = demand[t].kind /\ r.old = 0
      BY <1>0, <2>4, <3>1, Goes
    <3> HIDE DEF r
    <3>3. Holds(t) /\ s \in Homes /\ guests[s] = 0  BY <1>0, <2>1, <2>4 DEF Holds, Guest!Leases
    <3>4. /\ meta[s] = IF demand[t].kind = "create" THEN "named" ELSE "saved"
          /\ demand[t].kind = "say" => s \in booting
          /\ \A u \in Callers \ {t} : ~(Holds(u) /\ demand[u].s = r.s)
      BY <3>2, <3>3 DEF TalkInv
    <3>5. \A u \in Callers : /\ Holds(u) /\ demand[u].kind = "say" => demand[u].s \in booting'
                             /\ demand[u].pc = "slot" => meta'[demand[u].s] = "saved"
      BY <2>4 DEF TalkInv
    <3> QED BY <1>0, <2>1, <2>4, <3>2, <3>3, <3>4, <3>5, TalkQuiet
  <2> QED BY <2>1, <2>3, <2>4
<1>3. CASE Guest!Commit(t)
  <2>1. /\ demand[t].pc = "commit" /\ meta' = [meta EXCEPT ![s] = IF demand[t].kind = "create" THEN "saved" ELSE @]
        /\ demand' = [demand EXCEPT ![t] = Guest!Done] /\ UNCHANGED <<booting, guests, layer>>
        /\ Guest!Done.pc = "done" /\ Guest!Done.old = 0
    BY <1>0, <1>3, Ended DEF Guest!Commit
  <2>2. Holds(t)  BY <2>1 DEF Holds
  <2>3. \A u \in Callers \ {t} : Holds(u) => demand[u].s \in Homes /\ demand[u].s # s
    BY <1>0, <2>2 DEF TalkInv, GuestShape, Holds
  <2>4. \A u \in Callers : demand[u].pc = "slot" => meta[demand[u].s] = "saved" /\ demand[u].s \in Homes
    BY <1>0 DEF TalkInv, GuestShape
  <2>5. \A u \in Callers \ {t} :
           /\ Holds(u) => meta'[demand[u].s] = meta[demand[u].s]
                          /\ (demand[u].kind = "say" => demand[u].s \in booting')
           /\ demand[u].pc = "slot" => meta'[demand[u].s] = "saved"
    BY <1>0, <2>1, <2>3, <2>4 DEF GuestShape, TalkInv
  <2> QED BY <2>1, <2>5, TalkQuiet
<1>4. CASE Guest!Prepare(t) \/ Guest!Look(t) \/ Guest!Lock(t) \/ Guest!Executed(t) \/ Guest!End(t)
  <2>1. UNCHANGED <<meta, booting, guests, layer>>
    BY <1>4 DEF Guest!Prepare, Guest!Look, Guest!Lock, Guest!Executed, Guest!End
  <2>2. CASE demand' = [demand EXCEPT ![t] = Guest!Done]
    <3>1. Guest!Done.pc = "done" /\ Guest!Done.old = 0  BY <1>0, Ended
    <3> QED BY <2>1, <2>2, <3>1, TalkGoes
  <2>3. CASE /\ demand[t].pc \in {"prepare", "generate", "lock", "exec"}
             /\ \E step \in {"generate", "exec", "end"} : Guest!Goto(t, step)
    <3>1. PICK step \in {"generate", "exec", "end"} : Guest!Goto(t, step)  BY <2>3
    <3> DEFINE r == [demand[t] EXCEPT !.pc = step]
    <3>2. step \in Steps  BY DEF Steps
    <3>3. /\ demand' = [demand EXCEPT ![t] = r] /\ r.pc = step /\ r.s = s /\ r.kind = demand[t].kind /\ r.old = 0
      BY <1>0, <3>1, <3>2, Goes
    <3> HIDE DEF r
    <3> QED BY <2>1, <2>3, <3>3, TalkGoes
  <2>4. CASE demand[t].pc = "generate" /\ demand' = [demand EXCEPT ![t].vm = guests[s], ![t].pc = "lock"]
    <3> DEFINE r == [demand[t] EXCEPT !.vm = guests[s], !.pc = "lock"]
    <3>1. /\ demand' = [demand EXCEPT ![t] = r] /\ r.pc = "lock" /\ r.s = s /\ r.kind = demand[t].kind /\ r.old = 0
      BY <1>0, <2>4 DEF Request
    <3> HIDE DEF r
    <3> QED BY <2>1, <2>4, <3>1, TalkGoes
  <2> QED BY <1>4, <2>2, <2>3, <2>4 DEF Guest!Prepare, Guest!Look, Guest!Lock, Guest!Executed, Guest!End
<1>5. CASE Guest!Boot(t)
  <2> DEFINE n == vms + 1
             r == [demand[t] EXCEPT !.vm = n, !.pc = "agent"]
  <2>1. /\ demand[t].pc = "boot" /\ layer' = [layer EXCEPT ![s] = n] /\ demand' = [demand EXCEPT ![t] = r]
        /\ UNCHANGED <<meta, booting, guests>>
    BY <1>5 DEF Guest!Boot
  <2>2. r.pc = "agent" /\ r.s = s /\ r.kind = demand[t].kind /\ r.old = 0 /\ r.vm = n
    <3> HIDE DEF n
    <3> QED BY <1>0 DEF Request
  <2> HIDE DEF r, n
  <2>3. demand'[t] = r /\ \A u \in Callers \ {t} : demand'[u] = demand[u]  BY <1>0, <2>1 DEF GuestShape
  <2>4. Holds(t) /\ s \in Homes /\ guests[s] = 0  BY <1>0, <2>1 DEF Holds, TalkInv
  <2>5. \A u \in Callers \ {t} : Holds(u) => demand[u].s # s  BY <2>4 DEF TalkInv
  <2>6. layer'[s] = n /\ \A q \in Homes \ {s} : layer'[q] = layer[q]  BY <1>0, <2>1, <2>4
  <2>7. ASSUME NEW u \in Callers
        PROVE  /\ demand'[u].pc \notin {"remove", "stop", "erase"} /\ demand'[u].old = 0
               /\ demand'[u].pc \notin {"new", "done"} => demand'[u].kind \in {"create", "say"}
               /\ demand'[u].pc \notin {"new", "done"} /\ demand'[u].kind = "create" => Holds(u)'
               /\ demand'[u].pc = "commit" => demand'[u].kind = "create"
               /\ Holds(u)' => meta'[demand'[u].s] = IF demand'[u].kind = "create" THEN "named" ELSE "saved"
               /\ demand'[u].pc = "slot" => meta'[demand'[u].s] = "saved"
               /\ Holds(u)' /\ demand'[u].kind = "say" => demand'[u].s \in booting'
               /\ demand'[u].pc \in {"boot", "agent"} => guests'[demand'[u].s] = 0
               /\ demand'[u].pc = "agent" => layer'[demand'[u].s] = demand'[u].vm
    <3>1. CASE u = t  BY <1>0, <2>1, <2>2, <2>3, <2>4, <2>6, <3>1 DEF TalkInv, Holds
    <3>2. CASE u # t
      <4>1. demand'[u] = demand[u] /\ (demand[u].pc \notin {"new", "done"} => demand[u].s \in Homes)
        BY <1>0, <2>3, <3>2 DEF GuestShape
      <4>2. demand[u].pc = "agent" => layer'[demand[u].s] = layer[demand[u].s]
        BY <2>5, <2>6, <3>2, <4>1 DEF Holds
      <4> QED BY <2>1, <4>1, <4>2 DEF TalkInv, Holds
    <3> QED BY <3>1, <3>2
  <2>8. \A u, w \in Callers : Holds(u)' /\ Holds(w)' /\ demand'[u].s = demand'[w].s => u = w
    BY <2>2, <2>3, <2>4 DEF TalkInv, Holds
  <2>9. \A q \in Homes : guests'[q] # 0 => layer'[q] = guests'[q]
    BY <2>1, <2>4, <2>6 DEF TalkInv
  <2> QED BY <2>7, <2>8, <2>9 DEF TalkInv
<1>6. CASE Guest!BootFails(t)
  <2>1. /\ demand[t].pc = "agent" /\ layer' = [layer EXCEPT ![s] = 0] /\ guests' = guests /\ Guest!Leave(t, FALSE)
    BY <1>6 DEF Guest!BootFails
  <2>2. s \in Homes /\ guests[s] = 0  BY <1>0, <2>1 DEF TalkInv
  <2>3. 0 \in 0..vms  BY <1>0 DEF GuestShape
  <2>4. layer' \in [Homes -> 0..vms] /\ guests' \in [Homes -> 0..vms]
        /\ \A q \in Homes \ {s} : UNCHANGED <<guests[q], layer[q]>>
    BY <1>0, <2>1, <2>2, <2>3
  <2> QED BY <2>1, <2>2, <2>4, FALSE \in BOOLEAN, TalkLeaves
<1>7. CASE Guest!Enter(t)
  <2>1. /\ demand[t].pc = "agent" /\ guests' = [guests EXCEPT ![s] = demand[t].vm] /\ layer' = layer
    BY <1>7 DEF Guest!Enter
  <2>2. s \in Homes /\ guests[s] = 0 /\ layer[s] = demand[t].vm  BY <1>0, <2>1 DEF TalkInv
  <2>3. Guest!Leave(t, TRUE)  BY <1>7, <2>2 DEF Guest!Enter
  <2>4. demand[t].vm \in 0..vms  BY <1>0 DEF Request
  <2>5. layer' \in [Homes -> 0..vms] /\ guests' \in [Homes -> 0..vms] /\ guests'[s] = demand[t].vm
        /\ \A q \in Homes \ {s} : UNCHANGED <<guests[q], layer[q]>>
    BY <1>0, <2>1, <2>2, <2>4
  <2> QED BY <2>1, <2>2, <2>3, <2>5, TRUE \in BOOLEAN, TalkLeaves
<1>8. ~(Guest!Remove(t) \/ Guest!StopOld(t) \/ Guest!Erase(t))
  BY DEF TalkInv, Guest!Remove, Guest!StopOld, Guest!Erase
<1> QED BY <1>1, <1>2, <1>3, <1>4, <1>5, <1>6, <1>7, <1>8 DEF Guest!Runs

(* Conversations alone keep the invariant of leases.                       *)
LEMMA StepTalk ==
  ASSUME GuestInv, TalkInv, Guest!Talk \/ UNCHANGED Guest!vars
  PROVE  TalkInv'
<1>1. CASE UNCHANGED Guest!vars
  BY <1>1 DEF Guest!vars, TalkInv, Holds
<1> QED BY <1>1, TalkComes, TalkRuns DEF Guest!Talk

-----------------------------------------------------------------------------

Starts == {"greet", "clear", "insert"}
States == {"new", "check", "look", "open", "greet", "clear", "insert", "call", "wait", "stop", "switch", "done"}
Entry == [proc : 0..Processes, lease : Tenants \union {"none"}]
Thread == [pc : States, todo : SUBSET Provided, k : Provided \union {"none"},
           lease : Tenants \union {"none"}, proc : 0..Processes, off : BOOLEAN]

ResTypes ==
  /\ module \in BOOLEAN /\ switch \in [Provided -> BOOLEAN]
  /\ table \in [Provided -> Entry] /\ failed \in [Provided -> Tenants \union {"none"}]
  /\ born \in 0..Processes /\ procs \subseteq 1..born
  /\ lock \in Callers \union {Resident!Nobody}
  /\ req \in [Callers -> Thread]

Fits(q, n) ==
  /\ q.pc \in {"check", "look", "open", "call", "wait", "switch"} \union Starts => q.k \in Provided
  /\ q.pc \in Starts => q.proc \in 1..n /\ q.lease \in Tenants
  /\ q.pc \in {"check", "look", "open"} => q.lease \in Tenants

ResFields ==
  /\ \A t \in Callers : Fits(req[t], born)
  /\ \A k \in Provided : table[k].proc <= born /\ (table[k].proc = 0 => table[k] = Resident!None)

(* A process belongs to one start that has not ended, or to one entry.     *)
OneOwner ==
  /\ \A p \in procs : (\E k \in Provided : table[k].proc = p)
                      \/ (\E t \in Callers : req[t].pc \in Starts /\ req[t].proc = p)
  /\ \A t \in Callers : req[t].pc \in Starts =>
       /\ \A k \in Provided : table[k].proc # req[t].proc
       /\ \A u \in Callers \ {t} : req[u].pc \in Starts => req[u].proc # req[t].proc
  /\ \A j, k \in Provided : table[j].proc = table[k].proc /\ table[j].proc # 0 => j = k

ResShape == ResTypes /\ ResFields
ResInv == ResShape /\ OneOwner

(* What the invariant says of processes.                                   *)
LEMMA ResMeans == ResInv => Resident!NoStrays
  BY DEF ResInv, ResShape, ResTypes, ResFields, Fits, OneOwner, Resident!NoStrays, Starts

(* No instance is an entry too, of no process.                             *)
LEMMA NoEntry == Resident!None \in Entry /\ Resident!None.proc = 0
  BY SessionsAssumption DEF Resident!None, Entry

(* A request that has not come, and one that is done.                      *)
LEMMA FirstThread ==
  /\ Resident!Waiting \in Thread /\ Resident!Waiting.pc = "new"
  /\ Resident!Done \in Thread /\ Resident!Done.pc = "done"
<1>1. Resident!Waiting \in Thread /\ Resident!Waiting.pc = "new"
  BY SessionsAssumption DEF Resident!Waiting, Thread, States
<1> QED BY <1>1 DEF Resident!Done, Thread, States

(* No service runs yet.                                                    *)
LEMMA InitRes == Resident!Init => ResInv
<1> SUFFICES ASSUME Resident!Init PROVE ResInv  OBVIOUS
<1>1. ResShape  BY NoEntry, FirstThread, SessionsAssumption DEF Resident!Init, ResShape, ResTypes, ResFields, Fits, Starts
<1>2. OneOwner  BY NoEntry, FirstThread DEF Resident!Init, OneOwner, Starts
<1> QED BY <1>1, <1>2 DEF ResInv

(* A step of a request that neither begins nor ends to have a process.     *)
LEMMA ResQuiet ==
  ASSUME ResInv, NEW t \in Callers, NEW r \in Thread, req' = [req EXCEPT ![t] = r],
         UNCHANGED <<table, procs, born>>, failed' \in [Provided -> Tenants \union {"none"}],
         module' \in BOOLEAN, switch' \in [Provided -> BOOLEAN], lock' \in Callers \union {Resident!Nobody},
         r.pc \in {"check", "look", "open", "call", "wait"} => r.k \in Provided,
         r.pc \in {"check", "look", "open"} => r.lease \in Tenants,
         r.pc = "switch" => r.k \in Provided,
         \/ r.pc \notin Starts /\ req[t].pc \notin Starts
         \/ r.pc \in Starts /\ req[t].pc \in Starts /\ r.proc = req[t].proc /\ r.k = req[t].k /\ r.lease = req[t].lease
  PROVE  ResInv'
<1> USE DEF ResInv
<1>1. req'[t] = r /\ \A u \in Callers \ {t} : req'[u] = req[u]  BY DEF ResShape, ResTypes, ResFields, Fits
<1>2. ResShape'
  <2>1. \A u \in Callers : Fits(req'[u], born')
    BY <1>1 DEF ResShape, ResTypes, ResFields, Fits
  <2> QED BY <2>1 DEF ResShape, ResTypes, ResFields, Fits
<1>3. OneOwner'  BY <1>1 DEF OneOwner
<1> QED BY <1>2, <1>3

(* Processes end, and entries go whose processes have ended.               *)
LEMMA ResDrop ==
  ASSUME ResInv, NEW t, NEW r \in Thread,
         req' = [req EXCEPT ![t] = r] \/ req' = req,
         req' # req => /\ r.pc \in {"stop", "switch", "done"}
                       /\ r.pc = "switch" => r.k \in Provided
                       /\ req[t].pc \in Starts => req[t].proc \notin procs',
         table' \in [Provided -> Entry],
         \A k \in Provided : table'[k] = table[k] \/ (table'[k] = Resident!None /\ table[k].proc \notin procs'),
         procs' \subseteq procs,
         UNCHANGED <<born, module, switch>>, failed' \in [Provided -> Tenants \union {"none"}],
         lock' \in Callers \union {Resident!Nobody}
  PROVE  ResInv'
<1> USE DEF ResInv
<1>1. \A u \in Callers : req'[u] = req[u] \/ (u = t /\ req'[u] = r /\ req' # req)  BY DEF ResShape, ResTypes, ResFields, Fits
<1>2. ResShape'
  <2>1. \A u \in Callers : Fits(req'[u], born')
    BY <1>1 DEF ResShape, ResTypes, ResFields, Fits, Starts
  <2>2. req' \in [Callers -> Thread]  BY DEF ResShape, ResTypes, ResFields, Fits
  <2>3. \A k \in Provided : table'[k].proc <= born /\ (table'[k].proc = 0 => table'[k] = Resident!None)
    BY NoEntry DEF ResShape, ResTypes, ResFields, Fits
  <2>4. procs' \subseteq 1..born  BY DEF ResShape, ResTypes, ResFields, Fits
  <2>5. ResTypes'  BY <2>2, <2>4 DEF ResShape, ResTypes
  <2>6. ResFields'  BY <2>1, <2>3 DEF ResFields
  <2> QED BY <2>5, <2>6 DEF ResShape, ResTypes, ResFields, Fits
<1>3. ASSUME NEW p \in procs'
      PROVE  (\E k \in Provided : table'[k].proc = p) \/ (\E u \in Callers : req'[u].pc \in Starts /\ req'[u].proc = p)
  <2>1. CASE \E k \in Provided : table[k].proc = p  BY <2>1
  <2>2. CASE \E u \in Callers : req[u].pc \in Starts /\ req[u].proc = p  BY <1>1, <2>2
  <2> QED BY <2>1, <2>2 DEF OneOwner
<1>4. ASSUME NEW u \in Callers, req'[u].pc \in Starts
      PROVE  /\ \A k \in Provided : table'[k].proc # req'[u].proc
             /\ \A w \in Callers \ {u} : req'[w].pc \in Starts => req'[w].proc # req'[u].proc
  <2>1. \A w \in Callers : req'[w].pc \in Starts => req'[w] = req[w]  BY <1>1 DEF Starts
  <2>2. req[u].proc \in 1..born  BY <1>4, <2>1 DEF ResShape, ResTypes, ResFields, Fits
  <2>3. \A k \in Provided : table'[k].proc # req[u].proc
    BY <1>4, <2>1, <2>2, NoEntry DEF OneOwner, ResShape, ResTypes, ResFields, Fits
  <2> QED BY <1>4, <2>1, <2>3 DEF OneOwner
<1>5. \A j, k \in Provided : table'[j].proc = table'[k].proc /\ table'[j].proc # 0 => j = k
  BY NoEntry DEF OneOwner
<1> QED BY <1>2, <1>3, <1>4, <1>5 DEF OneOwner

(* A process that is started has a number of its own.                      *)
LEMMA OpenStep ==
  ASSUME ResInv, NEW t \in Callers, Resident!Open(t)
  PROVE  ResInv'
<1> USE DEF ResInv
<1>1. req[t].pc = "open" /\ req[t] \in Thread /\ req[t].k \in Provided /\ req[t].lease \in Tenants
  BY DEF Resident!Open, ResShape, ResTypes, ResFields, Fits
<1>2. CASE Resident!Ends(t) /\ UNCHANGED <<procs, born>>
  <2>1. /\ req' = [req EXCEPT ![t] = Resident!Done] /\ UNCHANGED <<module, switch, table, failed, lock>>
    BY <1>2 DEF Resident!Ends, Resident!Open
  <2>2. /\ failed' \in [Provided -> Tenants \union {"none"}] /\ module' \in BOOLEAN
        /\ switch' \in [Provided -> BOOLEAN] /\ lock' \in Callers \union {Resident!Nobody}
    BY <2>1 DEF ResShape, ResTypes, ResFields, Fits
  <2> QED BY <1>1, <1>2, <2>1, <2>2, FirstThread, ResQuiet DEF Starts
<1>3. CASE born < Processes /\ born' = born + 1 /\ procs' = procs \union {born'}
            /\ req' = [req EXCEPT ![t].pc = "greet", ![t].proc = born']
  <2> DEFINE n == born + 1
             r == [req[t] EXCEPT !.pc = "greet", !.proc = n]
  <2>1. n \in 1..Processes /\ n \notin 1..born /\ n \notin 0..born /\ 1..born \subseteq 1..n
        /\ n \in 1..n /\ n # 0 /\ born \in Nat /\ n \in Nat /\ n \in 0..Processes /\ born <= n
    BY <1>3, SessionsAssumption DEF ResShape, ResTypes, ResFields, Fits
  <2>2. req' = [req EXCEPT ![t] = r] /\ born' = n /\ procs' = procs \union {n}
        /\ UNCHANGED <<module, switch, table, failed, lock>>
    BY <1>3 DEF Resident!Open
  <2>3. r \in Thread /\ r.pc = "greet" /\ r.proc = n /\ r.k = req[t].k /\ r.lease = req[t].lease
    <3> HIDE DEF n
    <3> QED BY <1>1, <2>1 DEF Thread, States
  <2> HIDE DEF r, n
  <2>4. req'[t] = r /\ \A u \in Callers \ {t} : req'[u] = req[u]  BY <2>2 DEF ResShape, ResTypes, ResFields, Fits
  <2>5. req' \in [Callers -> Thread]  BY <2>2, <2>3 DEF ResShape, ResTypes, ResFields, Fits
  <2>6. \A u \in Callers : Fits(req'[u], n)
    BY <1>1, <2>1, <2>3, <2>4 DEF ResShape, ResTypes, ResFields, Fits
  <2>7. \A k \in Provided : table[k].proc <= n /\ table[k].proc # n
    BY <2>1 DEF ResShape, ResTypes, ResFields, Fits, Entry
  <2>8. procs' \subseteq 1..n  BY <2>1, <2>2 DEF ResShape, ResTypes, ResFields, Fits
  <2>9. ResShape'
    <3>1. ResTypes'  BY <2>1, <2>2, <2>5, <2>8 DEF ResShape, ResTypes
    <3>2. ResFields'  BY <2>2, <2>6, <2>7 DEF ResShape, ResFields
    <3> QED BY <3>1, <3>2 DEF ResShape, ResTypes, ResFields, Fits
  <2>10. \A u \in Callers : req[u].pc \in Starts => req[u].proc # n  BY <2>1 DEF ResShape, ResTypes, ResFields, Fits
  <2>11. OneOwner'
    <3>1. \A p \in procs' : (\E k \in Provided : table'[k].proc = p)
                      \/ (\E u \in Callers : req'[u].pc \in Starts /\ req'[u].proc = p)
      <4> SUFFICES ASSUME NEW p \in procs'
                   PROVE  (\E k \in Provided : table'[k].proc = p)
                          \/ (\E u \in Callers : req'[u].pc \in Starts /\ req'[u].proc = p)
        OBVIOUS
      <4>1. CASE p = n  BY <2>3, <2>4, <4>1 DEF Starts
      <4>2. CASE p # n  BY <1>1, <2>2, <2>4, <4>2 DEF OneOwner, Starts
      <4> QED BY <4>1, <4>2
    <3>2. \A u \in Callers : req'[u].pc \in Starts =>
             /\ \A k \in Provided : table'[k].proc # req'[u].proc
             /\ \A w \in Callers \ {u} : req'[w].pc \in Starts => req'[w].proc # req'[u].proc
      BY <2>2, <2>3, <2>4, <2>7, <2>10 DEF OneOwner
    <3> QED BY <2>2, <3>1, <3>2 DEF OneOwner
  <2> QED BY <2>9, <2>11
<1> QED BY <1>2, <1>3 DEF Resident!Open

(* What is started goes from the hand into the table.                      *)
LEMMA InsertStep ==
  ASSUME ResInv, NEW t \in Callers, Resident!Insert(t)
  PROVE  ResInv'
<1> USE DEF ResInv
<1> DEFINE q == req[t].k
           e == [proc |-> req[t].proc, lease |-> req[t].lease]
<1>1. /\ req[t].pc = "insert" /\ req[t] \in Thread /\ q \in Provided /\ req[t].lease \in Tenants
      /\ req[t].proc \in 1..born
  BY DEF Resident!Insert, ResShape, ResTypes, ResFields, Fits, Starts
<1>2. /\ procs' = procs \ {table[q].proc} /\ table' = [table EXCEPT ![q] = e]
      /\ req' = [req EXCEPT ![t] = Resident!Done] /\ UNCHANGED <<module, switch, failed, born, lock>>
  BY DEF Resident!Insert, Resident!Ends
<1>3. e \in Entry /\ e.proc = req[t].proc  BY <1>1 DEF Entry, Thread
<1> HIDE DEF e
<1>4. table'[q] = e /\ \A k \in Provided \ {q} : table'[k] = table[k]  BY <1>1, <1>2 DEF ResShape, ResTypes, ResFields, Fits
<1>5. /\ req'[t] = Resident!Done /\ \A u \in Callers \ {t} : req'[u] = req[u]  BY <1>2 DEF ResShape, ResTypes, ResFields, Fits
<1>6. Resident!Done.pc = "done" /\ Resident!Done \in Thread  BY FirstThread
<1>7. ResShape'
  <2>1. table' \in [Provided -> Entry] /\ req' \in [Callers -> Thread]  BY <1>2, <1>3, <1>6 DEF ResShape, ResTypes, ResFields, Fits
  <2>2. \A u \in Callers : Fits(req'[u], born')
    BY <1>2, <1>5, <1>6 DEF ResShape, ResTypes, ResFields, Fits, Starts
  <2>3. \A k \in Provided : table'[k].proc <= born /\ (table'[k].proc = 0 => table'[k] = Resident!None)
    <3>1. req[t].proc <= born /\ req[t].proc # 0  BY <1>1 DEF ResShape, ResTypes
    <3>2. \A k \in Provided : table[k].proc <= born /\ (table[k].proc = 0 => table[k] = Resident!None)
      BY DEF ResShape, ResFields
    <3> QED BY <1>3, <1>4, <3>1, <3>2
  <2>4. procs' \subseteq 1..born  BY <1>2 DEF ResShape, ResTypes, ResFields, Fits
  <2>5. ResTypes'  BY <1>2, <2>1, <2>4 DEF ResShape, ResTypes
  <2>6. ResFields'  BY <1>2, <2>2, <2>3 DEF ResShape, ResFields
  <2> QED BY <2>5, <2>6 DEF ResShape, ResTypes, ResFields, Fits
<1>8. \A k \in Provided : table[k].proc # req[t].proc  BY <1>1 DEF OneOwner, Starts
<1>9. ASSUME NEW p \in procs'
      PROVE  (\E k \in Provided : table'[k].proc = p) \/ (\E u \in Callers : req'[u].pc \in Starts /\ req'[u].proc = p)
  <2>1. CASE \E k \in Provided : table[k].proc = p
    <3>1. PICK k \in Provided : table[k].proc = p  BY <2>1
    <3>2. k # q  BY <1>2, <1>9, <3>1
    <3> QED BY <1>4, <3>1, <3>2
  <2>2. CASE \E u \in Callers : req[u].pc \in Starts /\ req[u].proc = p
    <3>1. PICK u \in Callers : req[u].pc \in Starts /\ req[u].proc = p  BY <2>2
    <3>2. CASE u = t  BY <1>1, <1>3, <1>4, <3>1, <3>2
    <3>3. CASE u # t  BY <1>5, <3>1, <3>3
    <3> QED BY <3>2, <3>3
  <2> QED BY <1>2, <1>9, <2>1, <2>2 DEF OneOwner
<1>10. ASSUME NEW u \in Callers, req'[u].pc \in Starts
      PROVE  /\ \A k \in Provided : table'[k].proc # req'[u].proc
             /\ \A w \in Callers \ {u} : req'[w].pc \in Starts => req'[w].proc # req'[u].proc
  <2>1. u # t /\ req'[u] = req[u]  BY <1>5, <1>6, <1>10 DEF Starts
  <2>2. req[u].proc # req[t].proc  BY <1>1, <1>10, <2>1 DEF OneOwner, Starts
  <2>3. \A k \in Provided : table'[k].proc # req'[u].proc
    BY <1>3, <1>4, <1>10, <2>1, <2>2 DEF OneOwner
  <2>4. \A w \in Callers \ {u} : req'[w].pc \in Starts => req'[w].proc # req'[u].proc
    BY <1>5, <1>6, <1>10, <2>1 DEF OneOwner, Starts
  <2> QED BY <2>3, <2>4
<1>11. \A j, k \in Provided : table'[j].proc = table'[k].proc /\ table'[j].proc # 0 => j = k
  BY <1>3, <1>4, <1>8 DEF OneOwner
<1> QED BY <1>7, <1>9, <1>10, <1>11 DEF OneOwner

(* The steps that start, enter and end nothing.                            *)
LEMMA QuietThreads ==
  ASSUME ResInv, NEW t \in Callers,
         \/ Resident!Check(t) \/ Resident!Look(t) \/ Resident!Clear(t) \/ Resident!Ask(t) \/ Resident!Answered(t) \/ Resident!SwitchOff(t)
  PROVE  ResInv'
<1>0. /\ ResTypes /\ Fits(req[t], born) /\ req[t] \in Thread  BY DEF ResInv, ResShape, ResTypes, ResFields
<1>1. UNCHANGED <<table, procs, born, module>>
  BY DEF Resident!Check, Resident!Look, Resident!Clear, Resident!Ask, Resident!Answered, Resident!SwitchOff
<1>2. /\ failed' \in [Provided -> Tenants \union {"none"}] /\ switch' \in [Provided -> BOOLEAN]
      /\ lock' \in Callers \union {Resident!Nobody} /\ module' \in BOOLEAN
  BY <1>0 DEF Resident!Check, Resident!Look, Resident!Clear, Resident!Ask, Resident!Answered, Resident!SwitchOff, ResTypes
<1>3. CASE req' = [req EXCEPT ![t] = Resident!Done] /\ req[t].pc \notin Starts
  BY <1>1, <1>2, <1>3, FirstThread, ResQuiet DEF Starts
<1>4. CASE \E step \in {"look", "open", "wait"} : Resident!Goto(t, step) /\ req[t].pc \in {"check", "look", "call"}
                /\ (step \in {"look", "open"} => req[t].pc \in {"check", "look"})
  <2>1. PICK step \in {"look", "open", "wait"} : Resident!Goto(t, step) /\ req[t].pc \in {"check", "look", "call"}
                /\ (step \in {"look", "open"} => req[t].pc \in {"check", "look"})
    BY <1>4
  <2> DEFINE r == [req[t] EXCEPT !.pc = step]
  <2>2. /\ r \in Thread /\ r.pc = step /\ r.k = req[t].k /\ r.lease = req[t].lease
        /\ req' = [req EXCEPT ![t] = r]
    BY <1>0, <2>1 DEF Resident!Goto, Thread, States
  <2> HIDE DEF r
  <2> QED BY <1>0, <1>1, <1>2, <2>1, <2>2, ResQuiet DEF Fits, Starts
<1>5. CASE Resident!Goto(t, "insert") /\ req[t].pc = "clear"
  <2> DEFINE r == [req[t] EXCEPT !.pc = "insert"]
  <2>1. /\ r \in Thread /\ r.pc = "insert" /\ r.k = req[t].k /\ r.lease = req[t].lease /\ r.proc = req[t].proc
        /\ req' = [req EXCEPT ![t] = r]
    BY <1>0, <1>5 DEF Resident!Goto, Thread, States
  <2> HIDE DEF r
  <2> QED BY <1>0, <1>1, <1>2, <1>5, <2>1, ResQuiet DEF Fits, Starts
<1> QED BY <1>3, <1>4, <1>5 DEF Resident!Check, Resident!Look, Resident!Clear, Resident!Ask, Resident!Answered, Resident!SwitchOff, Resident!Ends, Starts

(* A request that comes starts nothing yet.                                *)
LEMMA ComingThreads ==
  ASSUME ResInv, NEW t \in Callers,
         \/ \E k \in Provided : Resident!Call(t, k) \/ Resident!Stop(t, k) \/ \E l \in Tenants : Resident!Start(t, k, l)
         \/ Resident!ModuleOff(t)
  PROVE  ResInv'
<1>0. /\ ResTypes  BY DEF ResInv, ResShape
<1>1. /\ req[t].pc = "new" /\ UNCHANGED <<table, procs, born, failed, lock>> /\ module' \in BOOLEAN
      /\ switch' \in [Provided -> BOOLEAN]
  BY <1>0 DEF Resident!Call, Resident!Stop, Resident!Start, Resident!ModuleOff, ResTypes
<1>2. /\ failed' \in [Provided -> Tenants \union {"none"}] /\ lock' \in Callers \union {Resident!Nobody}
  BY <1>0, <1>1 DEF ResTypes
<1>3. CASE req' = [req EXCEPT ![t] = Resident!Done]
  BY <1>1, <1>2, <1>3, FirstThread, ResQuiet DEF Starts
<1>4. CASE \E k \in Provided : req' = [req EXCEPT ![t] = [Resident!Waiting EXCEPT !.pc = "call", !.k = k]]
  <2>1. PICK k \in Provided : req' = [req EXCEPT ![t] = [Resident!Waiting EXCEPT !.pc = "call", !.k = k]]  BY <1>4
  <2> DEFINE r == [Resident!Waiting EXCEPT !.pc = "call", !.k = k]
  <2>2. r \in Thread /\ r.pc = "call" /\ r.k = k  BY FirstThread DEF Thread, States
  <2> HIDE DEF r
  <2>3. req' = [req EXCEPT ![t] = r]  BY <2>1 DEF r
  <2> QED BY <1>1, <1>2, <2>2, <2>3, ResQuiet DEF Starts
<1>5. CASE \E k \in Provided, l \in Tenants :
              req' = [req EXCEPT ![t] = [Resident!Waiting EXCEPT !.pc = "check", !.k = k, !.lease = l]]
  <2>1. PICK k \in Provided, l \in Tenants :
              req' = [req EXCEPT ![t] = [Resident!Waiting EXCEPT !.pc = "check", !.k = k, !.lease = l]]  BY <1>5
  <2> DEFINE r == [Resident!Waiting EXCEPT !.pc = "check", !.k = k, !.lease = l]
  <2>2. r \in Thread /\ r.pc = "check" /\ r.k = k /\ r.lease = l  BY FirstThread DEF Thread, States
  <2>3. req' = [req EXCEPT ![t] = r]  BY <2>1
  <2> HIDE DEF r
  <2> QED BY <1>1, <1>2, <2>2, <2>3, ResQuiet DEF Starts
<1>6. CASE \E ks \in SUBSET Provided, off \in BOOLEAN : Resident!StopThese(t, ks, off)
  <2>1. PICK ks \in SUBSET Provided, off \in BOOLEAN : Resident!StopThese(t, ks, off)  BY <1>6
  <2> DEFINE r == [Resident!Waiting EXCEPT !.pc = "stop", !.todo = ks, !.off = off]
  <2>2. r \in Thread /\ r.pc = "stop"  BY FirstThread DEF Thread, States
  <2>3. req' = [req EXCEPT ![t] = r]  BY <2>1 DEF Resident!StopThese
  <2> HIDE DEF r
  <2> QED BY <1>1, <1>2, <2>2, <2>3, ResQuiet DEF Starts
<1>7. CASE \E k \in Provided : Resident!Stop(t, k)
  <2>1. PICK k \in Provided : Resident!Stop(t, k)  BY <1>7
  <2>2. {k} \in SUBSET Provided  OBVIOUS
  <2>3. PICK off \in BOOLEAN : Resident!StopThese(t, {k}, off)  BY <2>1 DEF Resident!Stop
  <2> QED BY <1>6, <2>2, <2>3
<1>8. CASE Resident!ModuleOff(t)
  <2>1. Provided \in SUBSET Provided /\ FALSE \in BOOLEAN  OBVIOUS
  <2>2. Resident!StopThese(t, Provided, FALSE)  BY <1>8 DEF Resident!ModuleOff
  <2> QED BY <1>6, <2>1, <2>2
<1>9. CASE \E k \in Provided : Resident!Call(t, k)
  <2>1. PICK k \in Provided : Resident!Call(t, k)  BY <1>9
  <2>2. \/ req' = [req EXCEPT ![t] = Resident!Done]
        \/ req' = [req EXCEPT ![t] = [Resident!Waiting EXCEPT !.pc = "call", !.k = k]]
    BY <2>1 DEF Resident!Call
  <2> QED BY <1>3, <1>4, <2>2
<1>10. CASE \E k \in Provided, l \in Tenants : Resident!Start(t, k, l)
  <2>1. PICK k \in Provided, l \in Tenants : Resident!Start(t, k, l)  BY <1>10
  <2>2. req' = [req EXCEPT ![t] = [Resident!Waiting EXCEPT !.pc = "check", !.k = k, !.lease = l]]  BY <2>1 DEF Resident!Start
  <2> QED BY <1>5, <2>2
<1> QED BY <1>7, <1>8, <1>9, <1>10

(* A start that fails, an instance found ended, and a deletion.            *)
LEMMA EndingThreads ==
  ASSUME ResInv, NEW t \in Callers,
         (Resident!Greet(t) \/ Resident!FoundEnded(t)) \/ (\E l \in Tenants : Resident!Reap(t, l))
  PROVE  ResInv'
<1>0. /\ ResTypes /\ Fits(req[t], born) /\ req[t] \in Thread /\ ResFields
  BY DEF ResInv, ResShape, ResFields, ResTypes
<1>1. Resident!Done \in Thread /\ Resident!Done.pc = "done" /\ Resident!None \in Entry  BY FirstThread, NoEntry
<1>2. CASE Resident!Greet(t)
  <2>1. req[t].pc = "greet" /\ UNCHANGED <<module, switch, table, failed, born, lock>>  BY <1>2 DEF Resident!Greet
  <2>2. /\ failed' \in [Provided -> Tenants \union {"none"}] /\ lock' \in Callers \union {Resident!Nobody}
        /\ table' \in [Provided -> Entry] /\ module' \in BOOLEAN /\ switch' \in [Provided -> BOOLEAN]
    BY <1>0, <2>1 DEF ResTypes
  <2>3. CASE Resident!Goto(t, "clear") /\ UNCHANGED procs
    <3> DEFINE r == [req[t] EXCEPT !.pc = "clear"]
    <3>1. /\ r \in Thread /\ r.pc = "clear" /\ r.k = req[t].k /\ r.lease = req[t].lease /\ r.proc = req[t].proc
          /\ req' = [req EXCEPT ![t] = r]
      BY <1>0, <2>3 DEF Resident!Goto, Thread, States
    <3> HIDE DEF r
    <3> QED BY <1>0, <2>1, <2>2, <2>3, <3>1, ResQuiet DEF Fits, Starts
  <2>4. CASE Resident!Ends(t) /\ procs' = procs \ {req[t].proc}
    <3>1. req' = [req EXCEPT ![t] = Resident!Done]  BY <2>4 DEF Resident!Ends
    <3> QED BY <1>1, <2>1, <2>2, <2>4, <3>1, ResDrop DEF Starts
  <2> QED BY <1>2, <2>3, <2>4 DEF Resident!Greet
<1>3. CASE Resident!FoundEnded(t)
  <2>1. /\ req[t].pc = "wait" /\ table[req[t].k].proc \notin procs
        /\ table' = [table EXCEPT ![req[t].k] = Resident!None] /\ lock' = Resident!Nobody
        /\ failed' = [failed EXCEPT ![req[t].k] = table[req[t].k].lease]
        /\ req' = [req EXCEPT ![t] = Resident!Done] /\ UNCHANGED <<module, switch, procs, born>>
    BY <1>3 DEF Resident!FoundEnded, Resident!Ends
  <2>2. req[t].k \in Provided  BY <1>0, <2>1 DEF Fits
  <2>3. table[req[t].k].lease \in Tenants \union {"none"}  BY <1>0, <2>2 DEF ResTypes, Entry
  <2>4. failed' \in [Provided -> Tenants \union {"none"}]  BY <1>0, <2>1, <2>3 DEF ResTypes
  <2>5. table' \in [Provided -> Entry]  BY <1>0, <1>1, <2>1 DEF ResTypes
  <2>6. \A k \in Provided : table'[k] = table[k] \/ (table'[k] = Resident!None /\ table[k].proc \notin procs')
    BY <1>0, <2>1 DEF ResTypes
  <2> QED BY <1>1, <2>1, <2>4, <2>5, <2>6, ResDrop DEF Starts
<1>4. CASE \E l \in Tenants : Resident!Reap(t, l)
  <2>1. PICK l \in Tenants : Resident!Reap(t, l)  BY <1>4
  <2> DEFINE mine == {k \in Provided : table[k].lease = l}
  <2>2. /\ req[t].pc = "new" /\ procs' = procs \ {table[k].proc : k \in mine}
        /\ table' = [k \in Provided |-> IF k \in mine THEN Resident!None ELSE table[k]]
        /\ failed' = [k \in Provided |-> IF failed[k] = l THEN "none" ELSE failed[k]]
        /\ req' = [req EXCEPT ![t] = Resident!Done] /\ UNCHANGED <<module, switch, born, lock>>
    BY <2>1 DEF Resident!Reap, Resident!Ends
  <2>3. failed' \in [Provided -> Tenants \union {"none"}] /\ lock' \in Callers \union {Resident!Nobody}
    BY <1>0, <2>2 DEF ResTypes
  <2>4. table' \in [Provided -> Entry]  BY <1>0, <1>1, <2>2 DEF ResTypes
  <2>5. \A k \in Provided : table'[k] = table[k] \/ (table'[k] = Resident!None /\ table[k].proc \notin procs')
    <3>1. ASSUME NEW k \in Provided, k \in mine PROVE table'[k] = Resident!None /\ table[k].proc \notin procs'
      BY <2>2, <3>1
    <3>2. ASSUME NEW k \in Provided, k \notin mine PROVE table'[k] = table[k]
      BY <2>2, <3>2
    <3> QED BY <3>1, <3>2
  <2>6. procs' \subseteq procs  BY <2>2
  <2> HIDE DEF mine
  <2> QED BY <1>1, <2>2, <2>3, <2>4, <2>5, <2>6, ResDrop DEF Starts
<1> QED BY <1>2, <1>3, <1>4

(* A service is stopped where the table has it.                            *)
LEMMA StopSteps ==
  ASSUME ResInv, NEW t \in Callers, NEW k \in Provided, Resident!StopOne(t, k)
  PROVE  ResInv'
<1>0. /\ ResTypes /\ Fits(req[t], born) /\ req[t] \in Thread /\ ResFields
  BY DEF ResInv, ResShape, ResFields, ResTypes
<1> DEFINE step == IF req[t].todo # {k} THEN "stop" ELSE IF req[t].off THEN "switch" ELSE "done"
           r == [req[t] EXCEPT !.todo = req[t].todo \ {k}, !.k = k, !.pc = step]
<1>1. /\ req[t].pc = "stop" /\ table' = [table EXCEPT ![k] = Resident!None] /\ failed' = [failed EXCEPT ![k] = "none"]
      /\ procs' = procs \ {table[k].proc} /\ UNCHANGED <<module, switch, born, lock>>
      /\ req' = [req EXCEPT ![t] = r]
  BY DEF Resident!StopOne
<1>2. step \in {"stop", "switch", "done"}  OBVIOUS
<1> HIDE DEF step
<1>3. r \in Thread /\ r.pc = step /\ r.k = k
  <2>1. step \in States  BY <1>2 DEF States
  <2> QED BY <1>0, <2>1 DEF Thread
<1> HIDE DEF r
<1>4. failed' \in [Provided -> Tenants \union {"none"}] /\ lock' \in Callers \union {Resident!Nobody}
  BY <1>0, <1>1 DEF ResTypes
<1>5. table' \in [Provided -> Entry]  BY <1>0, <1>1, NoEntry DEF ResTypes
<1>6. \A j \in Provided : table'[j] = table[j] \/ (table'[j] = Resident!None /\ table[j].proc \notin procs')
  BY <1>0, <1>1 DEF ResTypes
<1> QED BY <1>1, <1>2, <1>3, <1>4, <1>5, <1>6, ResDrop DEF Starts

(* A service that ends by itself stays in the table.                       *)
LEMMA ExitStep ==
  ASSUME ResInv, NEW p \in procs, Resident!Exit(p)
  PROVE  ResInv'
<1>2. ResTypes  BY DEF ResInv, ResShape
<1>3. /\ procs' = procs \ {p} /\ UNCHANGED <<module, switch, table, failed, born, lock, req>>  BY DEF Resident!Exit
<1>4. /\ table' \in [Provided -> Entry] /\ failed' \in [Provided -> Tenants \union {"none"}]
      /\ lock' \in Callers \union {Resident!Nobody}
  BY <1>2, <1>3 DEF ResTypes
<1> QED BY <1>3, <1>4, FirstThread, ResDrop

(* Every step keeps the invariant of the services.                         *)
LEMMA StepRes ==
  ASSUME ResInv, Resident!Next \/ UNCHANGED Resident!vars
  PROVE  ResInv'
<1>1. CASE UNCHANGED Resident!vars
  BY <1>1 DEF Resident!vars, ResInv, ResShape, ResTypes, ResFields, OneOwner
<1>2. CASE \E p \in procs : Resident!Exit(p)  BY <1>2, ExitStep
<1>3. CASE \E t \in Callers : Resident!Comes(t) \/ Resident!Runs(t)
  <2>1. PICK t \in Callers : Resident!Comes(t) \/ Resident!Runs(t)  BY <1>3
  <2>2. CASE Resident!Comes(t)  BY <2>2, ComingThreads, EndingThreads DEF Resident!Comes
  <2>3. CASE Resident!Runs(t)
    <3>1. CASE \E k \in Provided : Resident!StopOne(t, k)  BY <3>1, StopSteps
    <3>2. CASE Resident!Open(t)  BY <3>2, OpenStep
    <3>3. CASE Resident!Insert(t)  BY <3>3, InsertStep
    <3>4. CASE Resident!Greet(t) \/ Resident!FoundEnded(t)  BY <3>4, EndingThreads
    <3>5. CASE \/ Resident!Check(t) \/ Resident!Look(t) \/ Resident!Clear(t) \/ Resident!Ask(t) \/ Resident!Answered(t) \/ Resident!SwitchOff(t)
      BY <3>5, QuietThreads
    <3> QED BY <2>3, <3>1, <3>2, <3>3, <3>4, <3>5 DEF Resident!Runs
  <2> QED BY <2>1, <2>2, <2>3
<1> QED BY <1>1, <1>2, <1>3 DEF Resident!Next

-----------------------------------------------------------------------------

Whats == {"sync", "file", "close", "exec", "status"}
Stages == {"idle", "sync", "resync", "file", "close", "exec", "status"}
Message == [what : Whats, of : Nat, done : BOOLEAN]
Early == {"sync", "resync", "file", "close", "exec"}
Named(r) == r.what \in {"exec", "status"}

ChannelShape ==
  /\ call \in 0..Calls /\ at \in Stages /\ sent \in BOOLEAN /\ inner \in {"no", "cancel", "deadline"}
  /\ pid \in Nat \X Nat /\ stamp \in Nat /\ asks \in Seq(Message) /\ wire \in Seq(Message)
  /\ jobs \in [Channel!Jobs -> {"none", "runs", "exited"}]
  /\ cancelSent \in BOOLEAN /\ cancel \in BOOLEAN /\ overdue \in BOOLEAN /\ again \in BOOLEAN
  /\ at # "idle" => call # 0
  /\ sent => at # "idle"
  /\ at = "idle" => inner = "no" /\ pid = <<0, 0>>

Numbered(r) ==
  /\ Named(r) => r.of \in Channel!Jobs /\ (r.of <= Calls => r.of <= call)
  /\ r.what = "sync" => r.of <= stamp

Last(s) == \A i \in DOMAIN s : s[i].what = "sync" /\ s[i].of = stamp => i = Len(s)

(* The answer to the last handshake is the last of all.                    *)
InTurn ==
  /\ \A i \in DOMAIN wire : Numbered(wire[i])
  /\ \A i \in DOMAIN asks : Numbered(asks[i]) /\ asks[i].done = FALSE
  /\ sent /\ at \in {"sync", "resync"} =>
       /\ Last(wire) /\ Last(asks)
       /\ (\E i \in DOMAIN wire : wire[i].what = "sync" /\ wire[i].of = stamp) => asks = <<>>

(* What is under way about processes is of this call.                      *)
Allowed(r) ==
  Named(r) => \/ r.of = call /\ (inner = "no" \/ at = "sync")
              \/ r.of = Channel!Killer(call) /\ (cancelSent \/ inner # "no")
OfThisCall ==
  /\ ~(at = "idle" \/ (at = "sync" /\ inner = "no")) =>
       (\A i \in DOMAIN wire : Allowed(wire[i])) /\ (\A i \in DOMAIN asks : Allowed(asks[i]))
  /\ inner = "no" /\ at \in Early => ~cancelSent
  /\ inner = "cancel" => cancelSent
  /\ pid[1] \in {0, call} /\ pid[2] \in {0, Channel!Killer(call)}
  /\ at = "status" \/ inner # "no" => pid[1] = call
  /\ at = "status" /\ inner # "no" => pid[2] = Channel!Killer(call)

(* A command is started once, and over when it is said to be.              *)
Unasked == \A i \in DOMAIN asks : asks[i].what = "exec" => asks[i].of # call
StartedOnce ==
  /\ \A i \in DOMAIN asks : asks[i].what = "exec" /\ asks[i].of <= Calls =>
       /\ jobs[asks[i].of] = "none"
       /\ \A j \in DOMAIN asks : asks[j].what = "exec" /\ asks[j].of = asks[i].of => i = j
  /\ \A j \in (call + 1)..Calls : jobs[j] = "none"
  /\ inner = "no" /\ at \in Early /\ ~(at = "exec" /\ sent) => jobs[call] = "none" /\ Unasked
  /\ \A i \in DOMAIN wire : wire[i].done /\ wire[i].of <= Calls => wire[i].what = "status" /\ jobs[wire[i].of] = "exited"
OutMeans ==
  /\ out.kind = "exited" => out.of = call /\ jobs[call] = "exited" /\ call # 0

ChannelInv == ChannelShape /\ InTurn /\ OfThisCall /\ StartedOnce /\ OutMeans

(* What is reported as an end is the end of the command of this call.      *)
LEMMA ChannelMeans == ChannelInv => Channel!RightAnswer
  BY DEF ChannelInv, OfThisCall, OutMeans, Channel!RightAnswer

(* No call yet, and nothing under way.                                     *)
LEMMA InitChannel == Channel!Init => ChannelInv
<1> SUFFICES ASSUME Channel!Init PROVE ChannelInv  OBVIOUS
<1>1. ChannelShape
  <2>1. call = 0 /\ 0 \in 0..Calls /\ pid = <<0, 0>> /\ <<0, 0>> \in Nat \X Nat  BY SessionsAssumption DEF Channel!Init
  <2>2. asks \in Seq(Message) /\ wire \in Seq(Message)  BY DEF Channel!Init
  <2>3. jobs \in [Channel!Jobs -> {"none", "runs", "exited"}]  BY DEF Channel!Init
  <2> QED BY <2>1, <2>2, <2>3 DEF Channel!Init, ChannelShape, Stages
<1>2. InTurn /\ OfThisCall  BY DEF Channel!Init, InTurn, OfThisCall, Early
<1>3. StartedOnce
  <2>1. asks = <<>> /\ wire = <<>> /\ at = "idle"  BY DEF Channel!Init
  <2>2. \A j \in (call + 1)..Calls : jobs[j] = "none"  BY SessionsAssumption DEF Channel!Init, Channel!Jobs
  <2> QED BY <2>1, <2>2 DEF StartedOnce, Early
<1>4. OutMeans  BY DEF Channel!Init, OutMeans, Channel!Nothing
<1> QED BY <1>1, <1>2, <1>3, <1>4 DEF ChannelInv

(* A message goes behind those that are under way.                         *)
LEMMA Sent ==
  ASSUME NEW s \in Seq(Message), NEW m \in Message
  PROVE  /\ Append(s, m) \in Seq(Message) /\ Append(s, m) # <<>>
         /\ \A i \in DOMAIN Append(s, m) : (i \in DOMAIN s /\ Append(s, m)[i] = s[i]) \/ (i = Len(s) + 1 /\ Append(s, m)[i] = m)
         /\ Len(Append(s, m)) = Len(s) + 1 /\ Len(s) \in Nat /\ DOMAIN s = 1..Len(s)
  OBVIOUS

(* The first message is taken from those that are under way.               *)
LEMMA Received ==
  ASSUME NEW s \in Seq(Message), s # <<>>
  PROVE  /\ Tail(s) \in Seq(Message) /\ Head(s) = s[1] /\ 1 \in DOMAIN s /\ s[1] \in Message
         /\ \A i \in DOMAIN Tail(s) : i + 1 \in DOMAIN s /\ Tail(s)[i] = s[i + 1] /\ i \in Nat \ {0}
         /\ Len(Tail(s)) = Len(s) - 1 /\ Len(s) \in Nat \ {0}
         /\ Len(s) = 1 => Tail(s) = <<>>
<1>1. /\ Tail(s) \in Seq(Message) /\ Head(s) = s[1] /\ 1 \in DOMAIN s /\ s[1] \in Message
      /\ Len(Tail(s)) = Len(s) - 1 /\ Len(s) \in Nat \ {0}
  OBVIOUS
<1>2. \A i \in DOMAIN Tail(s) : i + 1 \in DOMAIN s /\ Tail(s)[i] = s[i + 1] /\ i \in Nat \ {0}
  OBVIOUS
<1>3. Len(s) = 1 => Tail(s) = <<>>
  <2>1. ASSUME NEW q \in Seq(Message), Len(q) = 0 PROVE q = <<>>  BY <2>1
  <2>2. Tail(s) \in Seq(Message) /\ (Len(s) = 1 => Len(Tail(s)) = 0)  BY <1>1
  <2> DEFINE q == Tail(s)
  <2>3. q \in Seq(Message) /\ (Len(s) = 1 => Len(q) = 0)  BY <2>2
  <2> HIDE DEF q
  <2>4. Len(s) = 1 => q = <<>>  BY <2>1, <2>3
  <2> QED BY <2>4 DEF q
<1> QED BY <1>1, <1>2, <1>3

(* The host hears, or loses, some of what is under way.                    *)
Heard ==
  /\ at # "idle" /\ UNCHANGED <<call, stamp, asks, jobs>>
  /\ wire' \in Seq(Message) /\ \A i \in DOMAIN wire' : \E j \in DOMAIN wire : wire'[i] = wire[j]
  /\ cancel' \in BOOLEAN /\ overdue' \in BOOLEAN /\ again' \in BOOLEAN

(* What is heard or lost changes nothing of what is under way.             *)
LEMMA HeardKeeps ==
  ASSUME ChannelInv, Heard
  PROVE  /\ \A i \in DOMAIN wire' : Numbered(wire[i])'
         /\ \A i \in DOMAIN asks' : Numbered(asks[i])' /\ asks'[i].done = FALSE
         /\ \A i \in DOMAIN asks' : asks'[i].what = "exec" /\ asks'[i].of <= Calls =>
              /\ jobs'[asks'[i].of] = "none"
              /\ \A j \in DOMAIN asks' : asks'[j].what = "exec" /\ asks'[j].of = asks'[i].of => i = j
         /\ \A j \in (call' + 1)..Calls : jobs'[j] = "none"
         /\ \A i \in DOMAIN wire' : wire'[i].done /\ wire'[i].of <= Calls =>
              wire'[i].what = "status" /\ jobs'[wire'[i].of] = "exited"
<1>1. \A i \in DOMAIN wire' : Numbered(wire[i])'
  BY DEF ChannelInv, InTurn, Heard, Numbered, Named
<1>2. \A i \in DOMAIN asks' : Numbered(asks[i])' /\ asks'[i].done = FALSE
  BY DEF ChannelInv, InTurn, Heard, Numbered, Named
<1> QED BY <1>1, <1>2 DEF ChannelInv, StartedOnce, Heard

(* The call goes on in the same turn.                                      *)
LEMMA GoesOn ==
  ASSUME ChannelInv, Heard, sent' = FALSE, UNCHANGED <<inner, cancelSent, pid, out>>,
         at' \in Stages \ {"idle"},
         (wire' = <<>> /\ asks = <<>>) \/ (at' = "sync" <=> at = "sync"),
         at' \in Early => at \in Early \ {"exec"}, at' = "status" => at = "status"
  PROVE  ChannelInv'
<1>1. ChannelShape'  BY DEF ChannelInv, ChannelShape, Heard
<1>2. InTurn'  BY HeardKeeps DEF InTurn
<1>3. OfThisCall'
  <2>1. at' # "sync" \/ inner # "no" => \A i \in DOMAIN wire' : Allowed(wire[i])'
    BY DEF ChannelInv, ChannelShape, OfThisCall, Allowed, Named, Heard
  <2>2. at' # "sync" \/ inner # "no" => \A i \in DOMAIN asks' : Allowed(asks[i])'
    BY DEF ChannelInv, ChannelShape, OfThisCall, Allowed, Named, Heard
  <2> QED BY <2>1, <2>2 DEF ChannelInv, ChannelShape, OfThisCall, Heard, Stages, Early
<1>4. StartedOnce'
  <2>1. (inner = "no" /\ at' \in Early => jobs[call] = "none" /\ Unasked)
    BY DEF ChannelInv, StartedOnce, Early
  <2> QED BY <2>1, HeardKeeps DEF StartedOnce, Unasked, Heard
<1>5. OutMeans'  BY DEF ChannelInv, OutMeans, Heard
<1> QED BY <1>1, <1>2, <1>3, <1>4, <1>5 DEF ChannelInv

(* The call ends.                                                          *)
LEMMA CallOver ==
  ASSUME ChannelInv, Heard, sent' = FALSE, inner' = "no", at' = "idle", pid' = <<0, 0>>,
         UNCHANGED cancelSent, out'.kind = "exited" => out'.of = call /\ jobs[call] = "exited"
  PROVE  ChannelInv'
<1>1. ChannelShape'  BY DEF ChannelInv, ChannelShape, Heard, Stages
<1>2. InTurn'  BY HeardKeeps DEF InTurn
<1>3. OfThisCall'  BY DEF OfThisCall, Early
<1>4. StartedOnce'  BY HeardKeeps DEF StartedOnce, Early
<1>5. OutMeans'  BY DEF ChannelInv, ChannelShape, OutMeans, Heard
<1> QED BY <1>1, <1>2, <1>3, <1>4, <1>5 DEF ChannelInv

(* The kill gives the channel back.                                        *)
LEMMA GivenBack ==
  ASSUME ChannelInv, Heard, sent' = FALSE, inner = "cancel", inner' = "no", at' = "status",
         UNCHANGED <<cancelSent, pid, out>>
  PROVE  ChannelInv'
<1>1. ChannelShape'  BY DEF ChannelInv, ChannelShape, Heard, Stages
<1>2. InTurn'  BY HeardKeeps DEF InTurn
<1>3. OfThisCall'
  <2>1. \A i \in DOMAIN wire' : Allowed(wire[i])'
    BY DEF ChannelInv, ChannelShape, OfThisCall, Allowed, Named, Heard
  <2>2. \A i \in DOMAIN asks' : Allowed(asks[i])'
    BY DEF ChannelInv, ChannelShape, OfThisCall, Allowed, Named, Heard
  <2> QED BY <2>1, <2>2 DEF ChannelInv, ChannelShape, OfThisCall, Heard, Early
<1>4. StartedOnce'  BY HeardKeeps DEF StartedOnce, Early
<1>5. OutMeans'  BY DEF ChannelInv, OutMeans, Heard
<1> QED BY <1>1, <1>2, <1>3, <1>4, <1>5 DEF ChannelInv

(* A kill takes the channel.                                               *)
LEMMA KillBegins ==
  ASSUME ChannelInv, Heard, sent' = FALSE, inner = "no", at \in {"exec", "status"},
         inner' \in {"cancel", "deadline"}, at' = "sync", UNCHANGED out,
         cancelSent' = (cancelSent \/ inner' = "cancel"),
         pid' = <<call, pid[2]>>
  PROVE  ChannelInv'
<1>0. ChannelShape /\ OfThisCall  BY DEF ChannelInv
<1>1. ChannelShape'
  <2>1. pid' \in Nat \X Nat  BY <1>0, SessionsAssumption DEF ChannelShape
  <2>2. cancelSent' \in BOOLEAN  BY <1>0 DEF ChannelShape
  <2> QED BY <1>0, <2>1, <2>2 DEF ChannelShape, Heard, Stages
<1>2. InTurn'  BY HeardKeeps DEF InTurn
<1>3. OfThisCall'
  <2>1. \A i \in DOMAIN wire' : Allowed(wire[i])'
    BY <1>0 DEF ChannelShape, OfThisCall, Allowed, Named, Heard
  <2>2. \A i \in DOMAIN asks' : Allowed(asks[i])'
    BY <1>0 DEF ChannelShape, OfThisCall, Allowed, Named, Heard
  <2>3. pid'[1] = call /\ pid'[2] = pid[2]  BY <1>0 DEF ChannelShape
  <2> QED BY <1>0, <2>1, <2>2, <2>3 DEF ChannelShape, OfThisCall, Heard, Early
<1>4. StartedOnce'  BY HeardKeeps DEF StartedOnce, Early
<1>5. OutMeans'  BY DEF ChannelInv, OutMeans, Heard
<1> QED BY <1>1, <1>2, <1>3, <1>4, <1>5 DEF ChannelInv

(* The status is asked for, of the process that was named.                 *)
LEMMA Polls ==
  ASSUME ChannelInv, Heard, sent' = FALSE, at \in {"exec", "status"}, at' = "status",
         UNCHANGED <<inner, cancelSent, out>>,
         \/ inner = "no" /\ pid' = <<call, pid[2]>>
         \/ inner # "no" /\ pid' = <<pid[1], Channel!Killer(call)>>
  PROVE  ChannelInv'
<1>0. ChannelShape /\ OfThisCall  BY DEF ChannelInv
<1>1. ChannelShape'
  <2>1. pid' \in Nat \X Nat  BY <1>0, SessionsAssumption DEF ChannelShape, Channel!Killer
  <2> QED BY <1>0, <2>1 DEF ChannelShape, Heard, Stages
<1>2. InTurn'  BY HeardKeeps DEF InTurn
<1>3. OfThisCall'
  <2>1. \A i \in DOMAIN wire' : Allowed(wire[i])'
    BY <1>0 DEF ChannelShape, OfThisCall, Allowed, Named, Heard
  <2>2. \A i \in DOMAIN asks' : Allowed(asks[i])'
    BY <1>0 DEF ChannelShape, OfThisCall, Allowed, Named, Heard
  <2>3. \/ inner = "no" /\ pid'[1] = call /\ pid'[2] = pid[2]
        \/ inner # "no" /\ pid'[1] = pid[1] /\ pid'[2] = Channel!Killer(call)
    BY <1>0 DEF ChannelShape
  <2> QED BY <1>0, <2>1, <2>2, <2>3 DEF ChannelShape, OfThisCall, Heard, Early, Channel!Killer
<1>4. StartedOnce'  BY HeardKeeps DEF StartedOnce, Early
<1>5. OutMeans'  BY DEF ChannelInv, OutMeans, Heard
<1> QED BY <1>1, <1>2, <1>3, <1>4, <1>5 DEF ChannelInv

(* A kill, or the call, fails.                                             *)
LEMMA FailStep ==
  ASSUME ChannelInv, Heard, Channel!Fails \/ (inner # "no" /\ Channel!KillReturns)
  PROVE  ChannelInv'
<1>0. ChannelShape  BY DEF ChannelInv
<1>1. ASSUME NEW kind \in {"failed", "timeout"}, Channel!Finish(kind, 0) PROVE ChannelInv'
  BY <1>1, CallOver DEF Channel!Finish
<1>2. CASE inner = "cancel" /\ Channel!Goto("status") /\ inner' = "no" /\ UNCHANGED <<pid, out, cancelSent>>
  BY <1>2, GivenBack DEF Channel!Goto
<1> QED BY <1>0, <1>1, <1>2 DEF Channel!Fails, Channel!KillReturns, Channel!Outer, ChannelShape

(* The flag is looked at, or the status asked for.                         *)
LEMMA LoopStep ==
  ASSUME ChannelInv, Heard, at \in {"exec", "status"}, Channel!CancelOrPoll, UNCHANGED out,
         \/ inner = "no" /\ pid' = <<call, pid[2]>>
         \/ inner # "no" /\ pid' = <<pid[1], Channel!Killer(call)>>
  PROVE  ChannelInv'
<1>1. CASE Channel!Outer /\ cancel /\ ~cancelSent
  BY <1>1, KillBegins DEF Channel!CancelOrPoll, Channel!Goto, Channel!Outer, Heard
<1>2. CASE ~(Channel!Outer /\ cancel /\ ~cancelSent)
  BY <1>2, Polls DEF Channel!CancelOrPoll, Channel!Goto
<1> QED BY <1>1, <1>2

(* An answer is read.                                                      *)
LEMMA ReceiveStep ==
  ASSUME ChannelInv, Channel!Receive
  PROVE  ChannelInv'
<1> DEFINE r == wire[1]
<1>0. ChannelShape /\ InTurn /\ OfThisCall /\ StartedOnce  BY DEF ChannelInv
<1>1. /\ sent /\ wire # <<>> /\ wire' = Tail(wire) /\ UNCHANGED <<call, stamp, asks, jobs, late, cancel, overdue>>
      /\ at # "idle"
  BY <1>0 DEF Channel!Receive, ChannelShape
<1>2. /\ Tail(wire) \in Seq(Message) /\ Head(wire) = r /\ 1 \in DOMAIN wire /\ r \in Message
      /\ \A i \in DOMAIN Tail(wire) : i + 1 \in DOMAIN wire /\ Tail(wire)[i] = wire[i + 1] /\ i \in Nat \ {0}
      /\ Len(Tail(wire)) = Len(wire) - 1 /\ Len(wire) \in Nat \ {0}
      /\ Len(wire) = 1 => Tail(wire) = <<>>
  BY <1>0, <1>1, Received DEF ChannelShape
<1>3. \A i \in DOMAIN wire' : \E j \in DOMAIN wire : wire'[i] = wire[j]  BY <1>1, <1>2
<1>4. ~(at = "idle" \/ (at = "sync" /\ inner = "no")) => Allowed(r)  BY <1>0, <1>2 DEF OfThisCall
<1>5. r.done /\ r.of <= Calls => r.what = "status" /\ jobs[r.of] = "exited"  BY <1>0, <1>2 DEF StartedOnce
<1>6. Channel!InStep(r) /\ at \in {"sync", "resync"} => wire' = <<>> /\ asks = <<>>
  BY <1>0, <1>1, <1>2 DEF InTurn, Last, Channel!InStep
<1>7. again' \in BOOLEAN => Heard  BY <1>0, <1>1, <1>2, <1>3 DEF Heard, ChannelShape
<1> HIDE DEF r
<1>8. CASE at \in {"sync", "resync"}
  <2>1. Channel!Handshake(r)  BY <1>2, <1>8 DEF Channel!Receive
  <2>2. CASE Channel!InStep(r)
    <3>1. /\ sent' = FALSE /\ again' = FALSE /\ UNCHANGED <<inner, pid, out, cancelSent>>
          /\ \/ at = "sync" /\ at' \in {"resync", "exec"}
             \/ at = "resync" /\ at' = "file"
      BY <2>1, <2>2 DEF Channel!Handshake, Channel!Goto
    <3>2. Heard  BY <1>7, <3>1
    <3> QED BY <1>6, <1>8, <2>2, <3>1, <3>2, GoesOn DEF Stages, Early
  <2>3. CASE ~Channel!InStep(r)
    <3>1. UNCHANGED <<at, sent, again, inner, pid, out, cancelSent>>  BY <2>1, <2>3 DEF Channel!Handshake
    <3>2. Heard  BY <1>0, <1>7, <3>1 DEF ChannelShape
    <3>3. ChannelShape'  BY <1>0, <1>1, <1>2, <3>1 DEF ChannelShape
    <3>4. InTurn'
      <4>1. Last(wire) /\ Last(asks) /\ ((\E i \in DOMAIN wire : wire[i].what = "sync" /\ wire[i].of = stamp) => asks = <<>>)
        BY <1>0, <1>1, <1>8 DEF InTurn
      <4>2. \A i \in DOMAIN wire' : wire'[i].what = "sync" /\ wire'[i].of = stamp' => i = Len(wire')
        BY <1>1, <1>2, <4>1 DEF Last
      <4>3. (\E i \in DOMAIN wire' : wire'[i].what = "sync" /\ wire'[i].of = stamp') => asks' = <<>>
        BY <1>1, <1>3, <4>1
      <4>4. Last(asks)'  BY <1>1, <4>1 DEF Last
      <4> QED BY <3>2, <4>2, <4>3, <4>4, HeardKeeps DEF InTurn, Last
    <3>5. OfThisCall'
      <4>1. /\ ~(at = "idle" \/ (at = "sync" /\ inner = "no")) => \A i \in DOMAIN wire' : Allowed(wire[i])'
            /\ ~(at = "idle" \/ (at = "sync" /\ inner = "no")) => \A i \in DOMAIN asks' : Allowed(asks[i])'
        BY <1>0, <1>1, <1>3, <3>1 DEF OfThisCall, Allowed
      <4> QED BY <1>0, <1>1, <3>1, <4>1 DEF OfThisCall
    <3>6. StartedOnce'
      <4>1. inner = "no" /\ at \in Early /\ ~(at = "exec" /\ sent) => jobs[call] = "none" /\ Unasked
        BY <1>0 DEF StartedOnce
      <4> QED BY <1>1, <3>1, <3>2, <4>1, HeardKeeps DEF StartedOnce, Unasked
    <3>7. OutMeans'  BY <1>1, <3>1 DEF ChannelInv, OutMeans
    <3> QED BY <3>3, <3>4, <3>5, <3>6, <3>7 DEF ChannelInv
  <2> QED BY <2>2, <2>3
<1>9. CASE at \in {"file", "close"}
  <2>1. \/ at = "file" /\ Channel!Goto("close") /\ UNCHANGED <<inner, pid, out, cancelSent>>
        \/ at = "file" /\ Channel!Fails
        \/ at = "close" /\ Channel!Goto("exec") /\ UNCHANGED <<inner, pid, out, cancelSent>>
    BY <1>2, <1>9 DEF Channel!Receive
  <2>2. Heard  BY <1>0, <1>7, <2>1 DEF Channel!Goto, Channel!Fails, Channel!KillReturns, Channel!Finish
  <2>3. CASE Channel!Fails  BY <2>2, <2>3, FailStep
  <2> QED BY <1>9, <2>1, <2>2, <2>3, GoesOn DEF Channel!Goto, Stages, Early
<1>10. CASE at = "exec"
  <2>1. Channel!Started(r)  BY <1>2, <1>10 DEF Channel!Receive
  <2>2. Heard  BY <1>7, <2>1 DEF Channel!Started, Channel!CancelOrPoll, Channel!Goto, Channel!Fails, Channel!KillReturns, Channel!Finish
  <2>3. CASE r.what # "exec"  BY <2>1, <2>2, <2>3, FailStep DEF Channel!Started
  <2>4. CASE r.what = "exec"
    <3>1. r.of = IF inner = "no" THEN call ELSE Channel!Killer(call)
      BY <1>0, <1>4, <1>10, <2>4 DEF Allowed, Named, OfThisCall, Early
    <3> QED BY <1>10, <2>1, <2>2, <2>4, <3>1, LoopStep DEF Channel!Started, Channel!Outer
  <2> QED BY <2>3, <2>4
<1>11. CASE at = "status"
  <2>1. Channel!Polled(r)  BY <1>2, <1>11 DEF Channel!Receive
  <2>2. Heard  BY <1>7, <2>1 DEF Channel!Polled, Channel!CancelOrPoll, Channel!Goto, Channel!KillReturns, Channel!Finish
  <2>3. CASE r.what = "status" /\ r.done /\ Channel!Outer
    <3>1. Channel!Finish(IF cancelSent THEN "cancelled" ELSE "exited", r.of)  BY <2>1, <2>3 DEF Channel!Polled
    <3>2. ~cancelSent => r.of = call /\ jobs[call] = "exited"
      BY <1>0, <1>4, <1>5, <1>11, <2>3, SessionsAssumption DEF Allowed, Named, Channel!Outer, ChannelShape
    <3> QED BY <2>2, <3>1, <3>2, CallOver DEF Channel!Finish
  <2>4. CASE r.what = "status" /\ r.done /\ ~Channel!Outer
    BY <2>1, <2>2, <2>4, FailStep DEF Channel!Polled, Channel!Outer
  <2>5. CASE ~(r.what = "status" /\ r.done)
    <3>1. \/ inner = "no" /\ pid = <<call, pid[2]>>
          \/ inner # "no" /\ pid = <<pid[1], Channel!Killer(call)>>
      BY <1>0, <1>11 DEF ChannelShape, OfThisCall
    <3>2. CASE Channel!Outer /\ overdue
      <4>1. /\ sent' = FALSE /\ at' = "sync" /\ inner' = "deadline" /\ UNCHANGED <<pid, out, cancelSent>>
            /\ cancelSent \in BOOLEAN /\ inner = "no"
        BY <1>0, <2>1, <2>5, <3>2 DEF Channel!Polled, Channel!Goto, Channel!Outer, ChannelShape
      <4>2. cancelSent' = (cancelSent \/ inner' = "cancel") /\ pid' = <<call, pid[2]>>  BY <3>1, <4>1
      <4> QED BY <1>11, <2>2, <4>1, <4>2, KillBegins
    <3>3. CASE ~(Channel!Outer /\ overdue)
      BY <1>11, <2>1, <2>2, <2>5, <3>1, <3>3, LoopStep DEF Channel!Polled
    <3> QED BY <3>2, <3>3
  <2> QED BY <2>3, <2>4, <2>5
<1> QED BY <1>0, <1>1, <1>8, <1>9, <1>10, <1>11 DEF ChannelShape, Stages

(* A read gives up, or a connection is lost.                               *)
LEMMA LateStep ==
  ASSUME ChannelInv, Channel!GivesUp \/ Channel!Lost
  PROVE  ChannelInv'
<1>0. ChannelShape /\ OfThisCall  BY DEF ChannelInv
<1>1. UNCHANGED <<call, stamp, asks, jobs, cancel, overdue>> /\ at # "idle" /\ sent
  BY <1>0 DEF Channel!GivesUp, Channel!Lost, ChannelShape
<1>2. wire' = <<>> \/ wire' = wire  BY DEF Channel!GivesUp, Channel!Lost, Channel!Reconnect
<1>3. wire' \in Seq(Message) /\ \A i \in DOMAIN wire' : \E j \in DOMAIN wire : wire'[i] = wire[j]
  <2>1. CASE wire' = <<>>  BY <2>1
  <2>2. CASE wire' = wire  BY <1>0, <2>2 DEF ChannelShape
  <2> QED BY <1>2, <2>1, <2>2
<1>4. \/ Channel!Fails
      \/ /\ sent' = FALSE /\ again' \in BOOLEAN /\ UNCHANGED <<inner, pid, out, cancelSent>>
         /\ \/ at \in {"sync", "status"} /\ at' = at
            \/ at = "close" /\ at' = "exec"
  BY DEF Channel!GivesUp, Channel!Lost, Channel!Goto
<1>5. Heard
  <2>1. again' \in BOOLEAN  BY <1>4 DEF Channel!Fails, Channel!KillReturns, Channel!Finish, Channel!Goto
  <2> QED BY <1>0, <1>1, <1>3, <2>1 DEF Heard, ChannelShape
<1>6. CASE Channel!Fails  BY <1>5, <1>6, FailStep
<1>7. CASE /\ sent' = FALSE /\ again' \in BOOLEAN /\ UNCHANGED <<inner, pid, out, cancelSent>>
           /\ \/ at \in {"sync", "status"} /\ at' = at
              \/ at = "close" /\ at' = "exec"
  BY <1>5, <1>7, GoesOn DEF Stages, Early
<1> QED BY <1>4, <1>6, <1>7

(* Nothing that matters changes: a clock, a flag.                          *)
LEMMA FlagStep ==
  ASSUME ChannelInv, Channel!Cancels \/ Channel!Deadline \/ UNCHANGED Channel!vars
  PROVE  ChannelInv'
<1>1. /\ UNCHANGED <<call, at, sent, inner, pid, stamp, asks, wire, jobs, cancelSent, out>>
      /\ again' = again /\ (cancel' = cancel \/ cancel' = TRUE) /\ (overdue' = overdue \/ overdue' = TRUE)
  BY DEF Channel!Cancels, Channel!Deadline, Channel!vars
<1>2. ChannelShape'  BY <1>1 DEF ChannelInv, ChannelShape
<1>3. InTurn'
  <2>1. /\ \A i \in DOMAIN wire : Numbered(wire[i])' <=> Numbered(wire[i])
        /\ \A i \in DOMAIN asks : Numbered(asks[i])' <=> Numbered(asks[i])
    BY <1>1 DEF Numbered
  <2> QED BY <1>1, <2>1 DEF ChannelInv, InTurn, Last
<1>4. OfThisCall'
  <2>1. /\ \A i \in DOMAIN wire : Allowed(wire[i])' <=> Allowed(wire[i])
        /\ \A i \in DOMAIN asks : Allowed(asks[i])' <=> Allowed(asks[i])
    BY <1>1 DEF Allowed
  <2> QED BY <1>1, <2>1 DEF ChannelInv, OfThisCall
<1>5. StartedOnce'  BY <1>1 DEF ChannelInv, StartedOnce, Unasked
<1>6. OutMeans'  BY <1>1 DEF ChannelInv, OutMeans
<1> QED BY <1>2, <1>3, <1>4, <1>5, <1>6 DEF ChannelInv

(* A command ends.                                                         *)
LEMMA JobStep ==
  ASSUME ChannelInv, NEW j \in Channel!Jobs, Channel!JobExits(j)
  PROVE  ChannelInv'
<1>0. ChannelShape /\ InTurn /\ OfThisCall /\ StartedOnce  BY DEF ChannelInv
<1>1. /\ UNCHANGED <<call, at, sent, inner, pid, again, stamp, asks, wire, late, Channel!flags, out>>
      /\ jobs[j] = "runs" /\ jobs' = [jobs EXCEPT ![j] = "exited"]
  BY DEF Channel!JobExits
<1>2. \A k \in Channel!Jobs : jobs'[k] = jobs[k] \/ (k = j /\ jobs'[k] = "exited" /\ jobs[k] = "runs")
  BY <1>0, <1>1 DEF ChannelShape
<1>3. ChannelShape'  BY <1>0, <1>1 DEF ChannelShape, Channel!flags
<1>4. InTurn'
  <2>1. /\ \A i \in DOMAIN wire : Numbered(wire[i])' <=> Numbered(wire[i])
        /\ \A i \in DOMAIN asks : Numbered(asks[i])' <=> Numbered(asks[i])
    BY <1>1 DEF Numbered
  <2> QED BY <1>0, <1>1, <2>1 DEF InTurn, Last
<1>5. OfThisCall'
  <2>1. /\ \A i \in DOMAIN wire : Allowed(wire[i])' <=> Allowed(wire[i])
        /\ \A i \in DOMAIN asks : Allowed(asks[i])' <=> Allowed(asks[i])
    BY <1>1 DEF Allowed, Channel!flags
  <2> QED BY <1>0, <1>1, <2>1 DEF OfThisCall, Channel!flags
<1>6. \A k \in 1..Calls : k \in Channel!Jobs  BY SessionsAssumption DEF Channel!Jobs
<1>7. call \in 0..Calls /\ (call = 0 => at = "idle")  BY <1>0 DEF ChannelShape
<1>8. StartedOnce'
  <2>1. \A i \in DOMAIN asks : asks[i].what = "exec" /\ asks[i].of <= Calls => jobs'[asks[i].of] = "none"
    BY <1>0, <1>2 DEF StartedOnce, InTurn, Numbered, Named
  <2>2. \A k \in (call + 1)..Calls : jobs'[k] = "none"
    <3>1. \A k \in (call + 1)..Calls : k \in Channel!Jobs  BY <1>6, <1>7, SessionsAssumption
    <3> QED BY <1>0, <1>2, <3>1 DEF StartedOnce
  <2>3. call \in Channel!Jobs => (jobs[call] = "none" => jobs'[call] = "none")  BY <1>2
  <2>4. \A i \in DOMAIN wire : wire[i].done /\ wire[i].of <= Calls => wire[i].what = "status" /\ jobs'[wire[i].of] = "exited"
    BY <1>0, <1>2 DEF StartedOnce, InTurn, Numbered, Named
  <2>5. call # 0 => call \in Channel!Jobs  BY <1>6, <1>7, SessionsAssumption
  <2> QED BY <1>0, <1>1, <1>7, <2>1, <2>2, <2>3, <2>4, <2>5 DEF StartedOnce, Unasked, Early
<1>9. OutMeans'
  <2>1. call # 0 => call \in Channel!Jobs  BY <1>6, <1>7, SessionsAssumption
  <2> QED BY <1>1, <1>2, <2>1 DEF ChannelInv, OutMeans
<1> QED BY <1>3, <1>4, <1>5, <1>8, <1>9 DEF ChannelInv

(* A call begins.                                                          *)
LEMMA BeginStep ==
  ASSUME ChannelInv, Channel!Begin
  PROVE  ChannelInv'
<1>0. ChannelShape /\ InTurn /\ OfThisCall /\ StartedOnce  BY DEF ChannelInv
<1>1. /\ at = "idle" /\ call < Calls /\ call' = call + 1 /\ at' = "sync" /\ sent' = FALSE /\ again' = FALSE
      /\ out' = Channel!Nothing /\ cancel' = FALSE /\ cancelSent' = FALSE /\ overdue' = FALSE
      /\ UNCHANGED <<inner, pid, stamp, asks, wire, jobs, late>>
  BY DEF Channel!Begin, Channel!Goto
<1>2. call \in Nat /\ call' \in 0..Calls /\ call' # 0 /\ call <= call' /\ inner = "no" /\ pid = <<0, 0>>
  BY <1>0, <1>1, SessionsAssumption DEF ChannelShape
<1>3. ChannelShape'
  <2>1. call' \in 0..Calls /\ call' # 0  BY <1>2
  <2> QED BY <1>0, <1>1, <2>1 DEF ChannelShape, Stages
<1>4. InTurn'
  <2>1. /\ \A i \in DOMAIN wire : Numbered(wire[i])'
        /\ \A i \in DOMAIN asks : Numbered(asks[i])'
    BY <1>0, <1>1, <1>2 DEF Numbered, InTurn, Channel!Jobs
  <2> QED BY <1>0, <1>1, <2>1 DEF InTurn
<1>5. OfThisCall'  BY <1>1, <1>2 DEF OfThisCall
<1>6. StartedOnce'
  <2>1. jobs[call'] = "none" /\ \A k \in (call' + 1)..Calls : jobs[k] = "none"
    <3>1. call' \in (call + 1)..Calls  BY <1>0, <1>1, <1>2, SessionsAssumption
    <3>2. \A k \in (call' + 1)..Calls : k \in (call + 1)..Calls  BY <1>1, <1>2, SessionsAssumption
    <3> QED BY <1>0, <3>1, <3>2 DEF StartedOnce
  <2>2. \A i \in DOMAIN asks : asks[i].what = "exec" => asks[i].of # call'
    BY <1>0, <1>1, <1>2, SessionsAssumption DEF InTurn, Numbered, Named, Channel!Jobs
  <2> QED BY <1>0, <1>1, <2>1, <2>2 DEF StartedOnce, Unasked
<1>7. OutMeans'  BY <1>1 DEF OutMeans, Channel!Nothing
<1> QED BY <1>3, <1>4, <1>5, <1>6, <1>7 DEF ChannelInv

(* A request is sent.                                                      *)
LEMMA SendStep ==
  ASSUME ChannelInv, Channel!Send
  PROVE  ChannelInv'
<1>0. ChannelShape /\ InTurn /\ OfThisCall /\ StartedOnce  BY DEF ChannelInv
<1>1. /\ at # "idle" /\ ~sent /\ sent' = TRUE
      /\ UNCHANGED <<call, at, inner, pid, again, wire, jobs, late, Channel!flags, out>>
  BY DEF Channel!Send
<1>2. PICK q \in Message :
        /\ asks' = Append(asks, q) /\ q.done = FALSE
        /\ \/ at \in {"sync", "resync"} /\ stamp' = stamp + 1 /\ q.what = "sync" /\ q.of = stamp + 1
           \/ at \in {"file", "close"} /\ q.what = at /\ stamp' = stamp
           \/ at \in {"exec", "status"} /\ q.what = at /\ stamp' = stamp
              /\ q.of = IF inner = "no" THEN call ELSE Channel!Killer(call)
  <2>1. CASE at \in {"sync", "resync"}
    <3> DEFINE q == [what |-> "sync", of |-> stamp + 1, done |-> FALSE]
    <3>1. stamp' = stamp + 1 /\ asks' = Append(asks, q)  BY <2>1 DEF Channel!Send, Channel!Ask
    <3>2. q \in Message  BY <1>0 DEF Message, Whats, ChannelShape
    <3> QED BY <2>1, <3>1, <3>2
  <2>2. CASE at \in {"file", "close"}
    <3> DEFINE q == [what |-> at, of |-> 0, done |-> FALSE]
    <3>1. stamp' = stamp /\ asks' = Append(asks, q)  BY <2>2 DEF Channel!Send, Channel!Ask
    <3>2. q \in Message  BY <2>2 DEF Message, Whats
    <3> QED BY <2>2, <3>1, <3>2
  <2>3. CASE at \in {"exec", "status"}
    <3> DEFINE p == IF inner = "no" THEN call ELSE Channel!Killer(call)
               q == [what |-> at, of |-> p, done |-> FALSE]
    <3>1. stamp' = stamp /\ asks' = Append(asks, q)
      BY <1>0, <2>3 DEF Channel!Send, Channel!Ask, Channel!Outer, Channel!Mine, OfThisCall
    <3>2. p \in Nat  BY <1>0, SessionsAssumption DEF Channel!Killer, ChannelShape
    <3> HIDE DEF p
    <3>3. q \in Message  BY <2>3, <3>2 DEF Message, Whats
    <3> QED BY <2>3, <3>1, <3>3 DEF p
  <2> QED BY <1>0, <1>1, <2>1, <2>2, <2>3 DEF ChannelShape, Stages
<1>3. /\ asks' \in Seq(Message) /\ asks' # <<>> /\ Len(asks') = Len(asks) + 1 /\ Len(asks) \in Nat
      /\ \A i \in DOMAIN asks' : (i \in DOMAIN asks /\ asks'[i] = asks[i]) \/ (i = Len(asks) + 1 /\ asks'[i] = q)
  BY <1>0, <1>2, Sent DEF ChannelShape
<1>4. stamp \in Nat /\ stamp' \in Nat /\ stamp <= stamp'  BY <1>0, <1>2 DEF ChannelShape
<1>5. ChannelShape'  BY <1>0, <1>1, <1>3, <1>4 DEF ChannelShape, Channel!flags
<1>6. call \in 1..Calls /\ Channel!Killer(call) \in Channel!Jobs /\ Channel!Killer(call) > Calls /\ call \in Channel!Jobs
  BY <1>0, <1>1, SessionsAssumption DEF ChannelShape, Channel!Killer, Channel!Jobs
<1>7. InTurn'
  <2>0. \A i \in DOMAIN wire : Numbered(wire[i]) /\ wire[i].of \in Nat
    <3>1. \A i \in DOMAIN wire : wire[i] \in Message  BY <1>0 DEF ChannelShape
    <3> QED BY <1>0, <3>1 DEF InTurn, Message
  <2>1. \A i \in DOMAIN wire : Numbered(wire[i])'
    <3>1. \A i \in DOMAIN wire : wire[i].of <= stamp => wire[i].of <= stamp'  BY <1>4, <2>0
    <3> QED BY <1>1, <2>0, <3>1 DEF Numbered
  <2>2. \A i \in DOMAIN asks : Numbered(asks[i]) /\ asks[i].of \in Nat
    <3>1. \A i \in DOMAIN asks : asks[i] \in Message  BY <1>0 DEF ChannelShape
    <3> QED BY <1>0, <3>1 DEF InTurn, Message
  <2>3. Numbered(q)'
    <3>1. Named(q) => q.of \in Channel!Jobs /\ (q.of <= Calls => q.of <= call)
      <4>1. Named(q) => q.of = call \/ q.of = Channel!Killer(call)  BY <1>2 DEF Named
      <4>2. call <= call /\ ~(Channel!Killer(call) <= Calls)  BY <1>6, SessionsAssumption DEF Channel!Killer
      <4> QED BY <1>6, <4>1, <4>2
    <3>2. q.what = "sync" => q.of <= stamp'  BY <1>2, <1>4
    <3> QED BY <1>1, <3>1, <3>2 DEF Numbered
  <2>4. \A i \in DOMAIN asks' : Numbered(asks[i])' /\ asks'[i].done = FALSE
    <3>1. \A i \in DOMAIN asks : asks[i].of <= stamp => asks[i].of <= stamp'  BY <1>4, <2>2
    <3> QED BY <1>0, <1>1, <1>2, <1>3, <2>2, <2>3, <3>1 DEF Numbered, InTurn
  <2>5. at \in {"sync", "resync"} =>
          /\ \A i \in DOMAIN wire : ~(wire[i].what = "sync" /\ wire[i].of = stamp')
          /\ \A i \in DOMAIN asks : ~(asks[i].what = "sync" /\ asks[i].of = stamp')
    <3>1. at \in {"sync", "resync"} => stamp' > stamp /\ stamp' \in Nat  BY <1>2, <1>4
    <3> QED BY <1>4, <2>0, <2>2, <3>1 DEF Numbered
  <2>6. at \in {"sync", "resync"} => Last(wire)'  BY <1>1, <2>5 DEF Last
  <2>7. at \in {"sync", "resync"} => Last(asks)'  BY <1>3, <2>5 DEF Last
  <2>8. at \in {"sync", "resync"} => ~\E i \in DOMAIN wire' : wire'[i].what = "sync" /\ wire'[i].of = stamp'
    BY <1>1, <2>5
  <2> QED BY <1>1, <2>1, <2>4, <2>6, <2>7, <2>8 DEF InTurn
<1>8. OfThisCall'
  <2>1. ~(at = "idle" \/ (at = "sync" /\ inner = "no")) =>
          /\ \A i \in DOMAIN wire : Allowed(wire[i])
          /\ \A i \in DOMAIN asks : Allowed(asks[i])
    BY <1>0 DEF OfThisCall
  <2>2. Allowed(q)  BY <1>0, <1>2 DEF Allowed, Named, ChannelShape
  <2>3. ~(at = "idle" \/ (at = "sync" /\ inner = "no")) => \A i \in DOMAIN wire' : Allowed(wire[i])'
    BY <1>1, <2>1 DEF Allowed, Channel!flags
  <2>4. ~(at = "idle" \/ (at = "sync" /\ inner = "no")) => \A i \in DOMAIN asks' : Allowed(asks[i])'
    BY <1>1, <1>3, <2>1, <2>2 DEF Allowed, Channel!flags
  <2> QED BY <1>0, <1>1, <2>3, <2>4 DEF OfThisCall, Channel!flags
<1>9. StartedOnce'
  <2>1. q.what = "exec" /\ q.of <= Calls => at = "exec" /\ inner = "no" /\ q.of = call
    <3>1. ~(Channel!Killer(call) <= Calls)  BY <1>6, SessionsAssumption DEF Channel!Killer
    <3> QED BY <1>2, <3>1
  <2>2. at = "exec" /\ inner = "no" => jobs[call] = "none" /\ Unasked  BY <1>0, <1>1 DEF StartedOnce, Early
  <2>3. \A i \in DOMAIN asks' : asks'[i].what = "exec" /\ asks'[i].of <= Calls =>
          /\ jobs[asks'[i].of] = "none"
          /\ \A j \in DOMAIN asks' : asks'[j].what = "exec" /\ asks'[j].of = asks'[i].of => i = j
    BY <1>0, <1>3, <2>1, <2>2 DEF StartedOnce, Unasked
  <2>4. inner = "no" /\ at \in Early /\ at # "exec" => jobs[call] = "none" /\ \A i \in DOMAIN asks' : asks'[i].what = "exec" => asks'[i].of # call
    BY <1>0, <1>1, <1>2, <1>3 DEF StartedOnce, Unasked, Early
  <2> QED BY <1>0, <1>1, <2>3, <2>4 DEF StartedOnce, Unasked
<1>10. OutMeans'  BY <1>1 DEF ChannelInv, OutMeans
<1> QED BY <1>5, <1>7, <1>8, <1>9, <1>10 DEF ChannelInv

(* The agent serves the next request.                                      *)
LEMMA ServeStep ==
  ASSUME ChannelInv, Channel!Serve
  PROVE  ChannelInv'
<1> DEFINE q == asks[1]
           m == [q EXCEPT !.done = (q.what = "status" /\ jobs[q.of] = "exited")]
<1>0. ChannelShape /\ InTurn /\ OfThisCall /\ StartedOnce  BY DEF ChannelInv
<1>1. /\ asks # <<>> /\ asks' = Tail(asks)
      /\ UNCHANGED <<call, at, sent, inner, pid, again, stamp, late, Channel!flags, out>>
  BY DEF Channel!Serve
<1>2. /\ asks' \in Seq(Message) /\ Head(asks) = q /\ 1 \in DOMAIN asks /\ q \in Message
      /\ \A i \in DOMAIN asks' : i + 1 \in DOMAIN asks /\ asks'[i] = asks[i + 1] /\ i \in Nat \ {0}
      /\ Len(asks') = Len(asks) - 1 /\ Len(asks) \in Nat \ {0}
      /\ Len(asks) = 1 => asks' = <<>>
  BY <1>0, <1>1, Received DEF ChannelShape
<1>3. wire' = Append(wire, m) /\ jobs' = IF q.what = "exec" THEN [jobs EXCEPT ![q.of] = "runs"] ELSE jobs
  BY <1>2 DEF Channel!Serve
<1>4. m \in Message /\ m.what = q.what /\ m.of = q.of /\ (m.done => q.what = "status" /\ jobs[q.of] = "exited")
  BY <1>2 DEF Message
<1> HIDE DEF m
<1>5. /\ wire' \in Seq(Message) /\ Len(wire') = Len(wire) + 1 /\ Len(wire) \in Nat
      /\ \A i \in DOMAIN wire' : (i \in DOMAIN wire /\ wire'[i] = wire[i]) \/ (i = Len(wire) + 1 /\ wire'[i] = m)
  BY <1>0, <1>3, <1>4, Sent DEF ChannelShape
<1>6. Numbered(q) /\ q.of \in Nat  BY <1>0, <1>2 DEF InTurn, Message
<1>7. \A k \in Channel!Jobs : jobs'[k] = jobs[k] \/ (jobs'[k] = "runs" /\ q.what = "exec" /\ k = q.of)
  BY <1>0, <1>3 DEF ChannelShape
<1>8. q.what = "exec" /\ q.of <= Calls =>
        jobs[q.of] = "none" /\ \A i \in DOMAIN asks' : asks'[i].what = "exec" => asks'[i].of # q.of
  BY <1>0, <1>2 DEF StartedOnce
<1> HIDE DEF q
<1>9. ChannelShape'
  <2>1. jobs' \in [Channel!Jobs -> {"none", "runs", "exited"}]  BY <1>0, <1>3 DEF ChannelShape
  <2> QED BY <1>0, <1>1, <1>2, <1>5, <2>1 DEF ChannelShape, Channel!flags
<1>10. \A i \in DOMAIN asks' : \E j \in DOMAIN asks : asks'[i] = asks[j]  BY <1>2
<1>11. InTurn'
  <2>1. \A i \in DOMAIN asks' : Numbered(asks[i])' /\ asks'[i].done = FALSE
    BY <1>0, <1>1, <1>10 DEF InTurn, Numbered
  <2>2. \A i \in DOMAIN wire' : Numbered(wire[i])'
    BY <1>0, <1>1, <1>4, <1>5, <1>6 DEF InTurn, Numbered, Named
  <2>3. ASSUME sent, at \in {"sync", "resync"}
        PROVE  Last(wire)' /\ Last(asks)' /\ ((\E i \in DOMAIN wire' : wire'[i].what = "sync" /\ wire'[i].of = stamp') => asks' = <<>>)
    <3>1. /\ Last(wire) /\ Last(asks)
          /\ \A i \in DOMAIN wire : ~(wire[i].what = "sync" /\ wire[i].of = stamp)
      BY <1>0, <1>1, <2>3 DEF InTurn
    <3>2. q.what = "sync" /\ q.of = stamp => asks' = <<>>  BY <1>2, <3>1 DEF Last, q
    <3>3. Last(wire)'  BY <1>1, <1>5, <3>1 DEF Last
    <3>4. Last(asks)'  BY <1>1, <1>2, <3>1 DEF Last
    <3>5. (\E i \in DOMAIN wire' : wire'[i].what = "sync" /\ wire'[i].of = stamp') => asks' = <<>>
      BY <1>1, <1>4, <1>5, <3>1, <3>2
    <3> QED BY <3>3, <3>4, <3>5
  <2> QED BY <1>1, <2>1, <2>2, <2>3 DEF InTurn
<1>12. OfThisCall'
  <2>1. ~(at = "idle" \/ (at = "sync" /\ inner = "no")) =>
          /\ \A i \in DOMAIN wire : Allowed(wire[i])
          /\ \A i \in DOMAIN asks : Allowed(asks[i])
    BY <1>0 DEF OfThisCall
  <2>2. Allowed(q) => Allowed(m)  BY <1>4 DEF Allowed, Named
  <2>3. ~(at = "idle" \/ (at = "sync" /\ inner = "no")) => \A i \in DOMAIN wire' : Allowed(wire[i])'
    BY <1>1, <1>2, <1>5, <2>1, <2>2 DEF Allowed, Channel!flags, q
  <2>4. ~(at = "idle" \/ (at = "sync" /\ inner = "no")) => \A i \in DOMAIN asks' : Allowed(asks[i])'
    BY <1>1, <1>10, <2>1 DEF Allowed, Channel!flags
  <2> QED BY <1>0, <1>1, <2>3, <2>4 DEF OfThisCall, Channel!flags
<1>13. \A k \in 1..Calls : k \in Channel!Jobs  BY SessionsAssumption DEF Channel!Jobs
<1>14. call \in 0..Calls /\ (call = 0 => at = "idle")  BY <1>0 DEF ChannelShape
<1>15. StartedOnce'
  <2>1. \A i \in DOMAIN asks' : asks'[i].what = "exec" /\ asks'[i].of <= Calls =>
          /\ jobs'[asks'[i].of] = "none"
          /\ \A j \in DOMAIN asks' : asks'[j].what = "exec" /\ asks'[j].of = asks'[i].of => i = j
    <3>1. \A i \in DOMAIN asks' : asks'[i].what = "exec" => asks'[i].of \in Channel!Jobs
      BY <1>0, <1>10 DEF InTurn, Numbered, Named
    <3>2. \A i, j \in DOMAIN asks' : asks'[i].what = "exec" /\ asks'[i].of <= Calls
            /\ asks'[j].what = "exec" /\ asks'[j].of = asks'[i].of => i = j
      <4> SUFFICES ASSUME NEW i \in DOMAIN asks', NEW j \in DOMAIN asks',
                          asks'[i].what = "exec", asks'[i].of <= Calls,
                          asks'[j].what = "exec", asks'[j].of = asks'[i].of
                   PROVE  i = j
        OBVIOUS
      <4>1. i + 1 = j + 1  BY <1>0, <1>2 DEF StartedOnce
      <4> QED BY <1>2, <4>1
    <3>3. \A i \in DOMAIN asks' : asks'[i].what = "exec" /\ asks'[i].of <= Calls => jobs[asks'[i].of] = "none"
      BY <1>0, <1>10 DEF StartedOnce
    <3>4. \A i \in DOMAIN asks' : asks'[i].what = "exec" /\ asks'[i].of <= Calls => jobs'[asks'[i].of] = "none"
      BY <1>7, <1>8, <3>1, <3>3
    <3> QED BY <3>2, <3>4
  <2>2. \A k \in (call + 1)..Calls : jobs'[k] = "none"
    <3>1. \A k \in (call + 1)..Calls : k \in Channel!Jobs /\ (q.what = "exec" => k # q.of)
      BY <1>6, <1>13, <1>14, SessionsAssumption DEF Numbered, Named
    <3> QED BY <1>0, <1>7, <3>1 DEF StartedOnce
  <2>3. ASSUME inner = "no", at \in Early, ~(at = "exec" /\ sent)
        PROVE  jobs'[call] = "none" /\ \A i \in DOMAIN asks' : asks'[i].what = "exec" => asks'[i].of # call
    <3>1. jobs[call] = "none" /\ \A i \in DOMAIN asks : asks[i].what = "exec" => asks[i].of # call
      BY <1>0, <2>3 DEF StartedOnce, Unasked
    <3>2. call \in Channel!Jobs  BY <1>13, <1>14, <2>3, SessionsAssumption DEF Early
    <3>3. q.what = "exec" => q.of # call  BY <1>2, <3>1 DEF q
    <3> QED BY <1>7, <1>10, <3>1, <3>2, <3>3
  <2>4. \A i \in DOMAIN wire' : wire'[i].done /\ wire'[i].of <= Calls => wire'[i].what = "status" /\ jobs'[wire'[i].of] = "exited"
    <3>1. ASSUME NEW k \in Channel!Jobs, k <= Calls, jobs[k] = "exited" PROVE jobs'[k] = "exited"
      BY <1>7, <1>8, <3>1
    <3>2. \A i \in DOMAIN wire : wire[i].done /\ wire[i].of <= Calls =>
            wire[i].what = "status" /\ jobs[wire[i].of] = "exited" /\ wire[i].of \in Channel!Jobs
      BY <1>0 DEF StartedOnce, InTurn, Numbered, Named
    <3>3. m.done /\ m.of <= Calls => m.what = "status" /\ jobs[m.of] = "exited" /\ m.of \in Channel!Jobs
      BY <1>4, <1>6 DEF Numbered, Named
    <3> QED BY <1>5, <3>1, <3>2, <3>3
  <2> QED BY <1>1, <2>1, <2>2, <2>3, <2>4 DEF StartedOnce, Unasked
<1>16. OutMeans'
  <2>1. ASSUME out.kind = "exited" PROVE jobs'[call] = "exited"
    <3>1. jobs[call] = "exited" /\ call # 0  BY <2>1 DEF ChannelInv, OutMeans
    <3>2. call \in Channel!Jobs /\ call <= Calls  BY <1>13, <1>14, <3>1, SessionsAssumption
    <3> QED BY <1>7, <1>8, <3>1, <3>2
  <2> QED BY <1>1, <2>1 DEF ChannelInv, OutMeans
<1> QED BY <1>9, <1>11, <1>12, <1>15, <1>16 DEF ChannelInv

(* Every step keeps the invariant of the channel.                          *)
LEMMA StepChannel ==
  ASSUME ChannelInv, Channel!Next \/ UNCHANGED Channel!vars
  PROVE  ChannelInv'
<1>1. CASE Channel!Serve  BY <1>1, ServeStep
<1>2. CASE \E j \in Channel!Jobs : Channel!JobExits(j)  BY <1>2, JobStep
<1>3. CASE Channel!Begin  BY <1>3, BeginStep
<1>4. CASE Channel!Send  BY <1>4, SendStep
<1>5. CASE Channel!Receive  BY <1>5, ReceiveStep
<1>6. CASE Channel!GivesUp \/ Channel!Lost  BY <1>6, LateStep
<1>7. CASE Channel!Cancels \/ Channel!Deadline \/ UNCHANGED Channel!vars  BY <1>7, FlagStep
<1> QED BY <1>1, <1>2, <1>3, <1>4, <1>5, <1>6, <1>7 DEF Channel!Next, Channel!Host

-----------------------------------------------------------------------------
Texts == Seq(Letters)
Reply == [text : Texts, tools : Seq(BOOLEAN), finish : BOOLEAN]

ModelInv ==
  /\ reply = said /\ said \in Reply /\ style \in {"pieces", "so far"}
  /\ stage \in {"idle", "sent", "stream"}
  /\ stage # "idle" => ended = none
  /\ stage = "sent" => said = Model!Empty /\ shown = <<>>
  /\ stage = "stream" => shown = said.text
  /\ half # none => half \in Model!Lines
  /\ ended # none /\ ended.kind = "replied" => ended.reply = said /\ shown = said.text
  /\ ended # none /\ stopped => ended.step = "stop"
  /\ {memo, resolved} \subseteq answered \union {none}

(* What the invariant says of a reply.                                     *)
LEMMA ModelMeans ==
  ModelInv => Model!ReplyIsWhatWasSaid /\ Model!StoppedRunsNothing /\ Model!KeptEndpointsAnswer /\ Model!NothingTakenBack
  BY DEF ModelInv, Model!ReplyIsWhatWasSaid, Model!StoppedRunsNothing, Model!KeptEndpointsAnswer, Model!NothingTakenBack

(* A reply of which nothing has come.                                      *)
LEMMA EmptyReply == Model!Empty \in Reply /\ Model!Empty.text = <<>> /\ Model!Empty.tools = <<>>
  BY DEF Model!Empty, Reply, Texts

(* Nothing has been asked yet.                                             *)
LEMMA InitModel == Model!Init => ModelInv
  BY EmptyReply DEF Model!Init, ModelInv

(* What a line adds is a text, and not nothing.                            *)
LEMMA WordsAreTexts ==
  ASSUME NEW w \in Sayings
  PROVE  w \in Texts /\ Len(w) > 0
<1>1. w \in Seq(Letters) /\ w # <<>>  BY SessionsAssumption
<1>2. Len(w) \in Nat /\ Len(w) # 0  BY <1>1, EmptySeq
<1> QED BY <1>1, <1>2 DEF Texts

(* The rest of a whole text is what came after the text so far.            *)
LEMMA RestOfWhole ==
  ASSUME NEW s \in Texts, NEW w \in Texts, Len(w) > 0
  PROVE  Model!Piece(s, s \o w) = w
<1> USE DEF Texts
<1> DEFINE t == s \o w
<1>1. /\ t \in Seq(Letters) /\ Len(t) = Len(s) + Len(w) /\ Len(s) \in Nat /\ Len(w) \in Nat
      /\ \A i \in 1..(Len(s) + Len(w)) : t[i] = IF i <= Len(s) THEN s[i] ELSE w[i - Len(s)]
  BY ConcatProperties
<1> HIDE DEF t
<1>2. SubSeq(t, 1, Len(s)) = SubSeq(s, 1, Len(s))
  <2>1. SubSeq(t, 1, Len(s)) \in Seq(Letters) /\ SubSeq(s, 1, Len(s)) \in Seq(Letters)
        /\ Len(SubSeq(t, 1, Len(s))) = Len(s) /\ Len(SubSeq(s, 1, Len(s))) = Len(s)
        /\ \A i \in 1..Len(s) : SubSeq(t, 1, Len(s))[i] = t[i] /\ SubSeq(s, 1, Len(s))[i] = s[i]
    BY <1>1
  <2> QED BY <1>1, <2>1, SeqEqual
<1>3. SubSeq(t, Len(s) + 1, Len(t)) = w
  <2>1. SubSeq(t, Len(s) + 1, Len(t)) \in Seq(Letters)
        /\ Len(SubSeq(t, Len(s) + 1, Len(t))) = Len(w)
        /\ \A i \in 1..Len(w) : SubSeq(t, Len(s) + 1, Len(t))[i] = t[Len(s) + i]
    BY <1>1
  <2>2. \A i \in 1..Len(w) : t[Len(s) + i] = w[i]  BY <1>1
  <2> QED BY <1>1, <2>1, <2>2, SeqEqual
<1>4. Len(t) > Len(s) /\ Model!IsPrefix(s, t)  BY <1>1, <1>2 DEF Model!IsPrefix
<1> QED BY <1>3, <1>4 DEF Model!Piece, t

(* No text has no rest.                                                    *)
LEMMA NothingMore == ASSUME NEW s \in Texts PROVE Model!Piece(s, <<>>) = <<>>
  BY DEF Model!Piece, Texts

(* A sequence with a member has a last one.                                *)
LEMMA NotEmpty ==
  ASSUME NEW S, NEW q \in Seq(S), NEW e, e \in Model!ToSet(q)
  PROVE  Len(q) \in 1..Len(q)
<1>1. DOMAIN q # {}  BY DEF Model!ToSet
<1>2. DOMAIN q = 1..Len(q) /\ Len(q) \in Nat  BY LenProperties
<1> QED BY <1>1, <1>2

(* What the reader takes a line for is what the provider means by it.      *)
LEMMA TakenIsMeant ==
  ASSUME said \in Reply, style \in {"pieces", "so far"}, NEW line \in Model!Lines
  PROVE  /\ Model!Taken(said, line) = Model!Meant(said, line) /\ Model!Meant(said, line) \in Reply
         /\ Model!Meant(said, line).text = IF line.kind = "text" THEN said.text \o Model!Piece(said.text, line.text) ELSE said.text
         /\ Model!Piece(said.text, line.text) \in Texts
<1>0. said.text \in Texts /\ said.tools \in Seq(BOOLEAN) /\ said.finish \in BOOLEAN  BY DEF Reply
<1>1. CASE \E w \in Sayings : line = Model!Line("text", IF style = "pieces" THEN w ELSE said.text \o w, w) /\ Model!Clear(w)
  <2>1. PICK w \in Sayings : line = Model!Line("text", IF style = "pieces" THEN w ELSE said.text \o w, w) /\ Model!Clear(w)
    BY <1>1
  <2> DEFINE other == [line EXCEPT !.adds = w]
  <2>2. line.kind = "text" /\ line.adds = w /\ other.kind = "text" /\ other.adds = w  BY <2>1 DEF Model!Line
  <2>3. Model!Piece(said.text, line.text) = w
    <3>1. CASE style = "pieces"  BY <2>1, <3>1 DEF Model!Line, Model!Clear
    <3>2. CASE style # "pieces"  BY <1>0, <2>1, <3>2, WordsAreTexts, RestOfWhole DEF Model!Line
    <3> QED BY <3>1, <3>2
  <2>8. Model!Taken(said, line) = Model!Meant(said, other)  BY <2>3 DEF Model!Taken
  <2> HIDE DEF other
  <2>5. Model!Meant(said, line) = [said EXCEPT !.text = said.text \o w]  BY <2>2 DEF Model!Meant
  <2>9. Model!Meant(said, other) = [said EXCEPT !.text = said.text \o w]  BY <2>2 DEF Model!Meant
  <2>4. Model!Taken(said, line) = Model!Meant(said, line)  BY <2>5, <2>8, <2>9
  <2>6. said.text \o w \in Texts  BY <1>0, WordsAreTexts, ConcatProperties DEF Texts
  <2>7. Model!Meant(said, line) \in Reply /\ Model!Meant(said, line).text = said.text \o w
    BY <2>5, <2>6 DEF Reply
  <2> QED BY <2>2, <2>3, <2>4, <2>7, WordsAreTexts
<1>2. CASE \E kind \in {"call", "args", "finish"} : line = Model!Line(kind, <<>>, <<>>)
                /\ (kind = "args" => FALSE \in Model!ToSet(said.tools))
  <2>1. PICK kind \in {"call", "args", "finish"} : line = Model!Line(kind, <<>>, <<>>)
                /\ (kind = "args" => FALSE \in Model!ToSet(said.tools))
    BY <1>2
  <2> DEFINE other == [line EXCEPT !.adds = <<>>]
  <2>2. line.kind = kind /\ kind # "text" /\ line.text = <<>> /\ other.kind = kind
    BY <2>1 DEF Model!Line
  <2>3. Model!Piece(said.text, line.text) = <<>>  BY <1>0, <2>2, NothingMore
  <2>6. Model!Taken(said, line) = Model!Meant(said, other)  BY <2>3 DEF Model!Taken
  <2> HIDE DEF other
  <2>4. Model!Taken(said, line) = Model!Meant(said, line)  BY <2>2, <2>6 DEF Model!Meant
  <2>5. Model!Meant(said, line) \in Reply /\ Model!Meant(said, line).text = said.text
    <3>1. CASE kind = "call"
      <4>1. Append(said.tools, FALSE) \in Seq(BOOLEAN)  BY <1>0, AppendProperties
      <4>2. Model!Meant(said, line) = [said EXCEPT !.tools = Append(said.tools, FALSE)]  BY <2>2, <3>1 DEF Model!Meant
      <4> QED BY <4>1, <4>2 DEF Reply
    <3>2. CASE kind = "args"
      <4> DEFINE all == [said.tools EXCEPT ![Len(said.tools)] = TRUE]
      <4>1. all \in Seq(BOOLEAN)
        <5>2. Len(said.tools) \in 1..Len(said.tools)  BY <1>0, <2>1, <3>2, NotEmpty
        <5>3. TRUE \in BOOLEAN  OBVIOUS
        <5> QED BY <1>0, <5>2, <5>3, ExceptSeq, Zenon
      <4>2. Model!Meant(said, line) = [said EXCEPT !.tools = all]  BY <2>2, <3>2 DEF Model!Meant
      <4> HIDE DEF all
      <4> QED BY <4>1, <4>2 DEF Reply
    <3>3. CASE kind = "finish"
      <4>1. Model!Meant(said, line) = [said EXCEPT !.finish = TRUE]  BY <2>2, <3>3 DEF Model!Meant
      <4> QED BY <4>1 DEF Reply
    <3> QED BY <3>1, <3>2, <3>3
  <2> QED BY <2>2, <2>3, <2>4, <2>5, EmptyReply DEF Reply
<1>3. (\E w \in Sayings : line = Model!Line("text", IF style = "pieces" THEN w ELSE said.text \o w, w) /\ Model!Clear(w))
      \/ (\E kind \in {"call", "args", "finish"} : line = Model!Line(kind, <<>>, <<>>)
                /\ (kind = "args" => FALSE \in Model!ToSet(said.tools)))
  BY DEF Model!Lines
<1> QED BY <1>1, <1>2, <1>3

(* A call ends, with what there is of the reply.                           *)
LEMMA Returned ==
  ASSUME ModelInv, NEW kind \in {"replied", "failed", "stopped"}, NEW r, Model!Return(kind, r),
         stopped \/ kind # "stopped",
         reply' = said', said' \in Reply,
         kind = "replied" => r = said' /\ shown' = said'.text
  PROVE  ModelInv'
<1>1. /\ stage' = "idle" /\ half' = none /\ UNCHANGED <<style, stopped>>
      /\ ended' = [kind |-> kind, reply |-> r, step |-> Model!NextStep(kind, r)]
  BY DEF Model!Return
<1>2. ended'.kind = kind /\ ended'.reply = r /\ (stopped => ended'.step = "stop")  BY <1>1 DEF Model!NextStep
<1>3. {memo, resolved}' \subseteq answered' \union {none}  BY DEF Model!Return, Model!Proven, ModelInv
<1> QED BY <1>1, <1>2, <1>3 DEF ModelInv

(* A request goes out, of which nothing is shown.                          *)
LEMMA AskedAnew ==
  ASSUME ModelInv, NEW us, NEW opt, Model!Ask(us, opt), shown' = <<>>, style' = style,
         ended' = none, {memo, resolved}' \subseteq answered' \union {none}
  PROVE  ModelInv'
  BY EmptyReply DEF ModelInv, Model!Ask

(* The next candidate is asked, where nothing of a reply has come.         *)
LEMMA NextTried ==
  ASSUME ModelInv, Model!TryNext, stage # "idle", reply.text = <<>>
  PROVE  ModelInv'
<1>1. CASE Model!Fail  BY <1>1, Returned DEF Model!Fail, ModelInv
<1>2. CASE Model!Ask(Tail(left), options) /\ UNCHANGED Model!Between /\ UNCHANGED shown
  <2>1. shown = <<>>
    <3>1. reply = said /\ stage \in {"sent", "stream"}  BY DEF ModelInv
    <3>2. CASE stage = "stream"  BY <3>1, <3>2 DEF ModelInv
    <3>3. CASE stage = "sent"  BY <3>3 DEF ModelInv
    <3> QED BY <3>1, <3>2, <3>3
  <2> QED BY <1>2, <2>1, AskedAnew DEF ModelInv, Model!Between
<1> QED BY <1>1, <1>2 DEF Model!TryNext

(* What was read was meant.                                                *)
LEMMA LineRead ==
  ASSUME ModelInv, NEW line \in Model!Lines, Model!Takes(line), stage = "stream"
  PROVE  /\ reply' = said' /\ said' \in Reply /\ shown' = said'.text
         /\ said' = Model!Meant(said, line) /\ Model!Taken(reply, line) = said'
<1>1. reply = said /\ said \in Reply /\ style \in {"pieces", "so far"} /\ shown = said.text  BY DEF ModelInv
<1>2. said' = Model!Meant(said, line) /\ reply' = Model!Taken(reply, line)
      /\ shown' = IF line.kind = "text" THEN shown \o Model!Piece(reply.text, line.text) ELSE shown
  BY DEF Model!Takes
<1> QED BY <1>1, <1>2, TakenIsMeant

(* A line is read, and ends the call or does not.                          *)
LEMMA ReadStep ==
  ASSUME ModelInv, NEW line \in Model!Lines, Model!Read(line), stage = "stream"
  PROVE  ModelInv'
<1>1. Model!Takes(line)  BY DEF Model!Read
<1>2. /\ reply' = said' /\ said' \in Reply /\ shown' = said'.text /\ Model!Taken(reply, line) = said'
  BY <1>1, LineRead
<1>3. CASE Model!Return("replied", Model!Taken(reply, line))  BY <1>2, <1>3, Returned
<1>4. CASE half' = none /\ UNCHANGED <<stage, left, options, quiet>> /\ UNCHANGED Model!Between
  BY <1>2, <1>4 DEF ModelInv, Model!Between
<1> QED BY <1>3, <1>4 DEF Model!Read

(* Steps that read nothing.                                                *)
LEMMA QuietModel ==
  ASSUME ModelInv,
         (\E u \in Model!ToSet(Offers) : Model!OtherCall(u)) \/ Model!NewChat \/ Model!Stop \/ Model!Accepted \/ Model!Half \/ Model!FallSilent
           \/ UNCHANGED Model!vars
  PROVE  ModelInv'
<1>1. /\ UNCHANGED <<reply, said, style, ended>>
      /\ half' = half \/ (half' \in Model!Lines /\ stage = "stream" /\ shown' = shown /\ stage' = stage)
      /\ Model!Lines' = Model!Lines
  BY DEF Model!OtherCall, Model!NewChat, Model!Stop, Model!Accepted, Model!Half, Model!Reading, Model!FallSilent, Model!vars, Model!Between, Model!Lines, Model!Clear, Model!Piece
<1>2. {memo, resolved}' \subseteq answered' \union {none}
  BY DEF Model!OtherCall, Model!NewChat, Model!Stop, Model!Accepted, Model!Half, Model!FallSilent, Model!vars, Model!Between, ModelInv
<1>3. /\ \/ stage' = stage /\ shown' = shown
         \/ stage = "sent" /\ shown' = <<>> /\ stage' = "stream"
      /\ stopped' = stopped \/ stage # "idle"
  BY DEF Model!OtherCall, Model!NewChat, Model!Stop, Model!Accepted, Model!Half, Model!FallSilent, Model!vars, Model!Between
<1>4. reply' = said' /\ said' \in Reply /\ style' \in {"pieces", "so far"}  BY <1>1 DEF ModelInv
<1>5. (half' # none => half' \in Model!Lines') /\ (stage' # "idle" => ended' = none)
  BY <1>1, <1>3 DEF ModelInv
<1>6. ended' # none /\ stopped' => ended'.step = "stop"  BY <1>1, <1>3 DEF ModelInv
<1>7. CASE stage' = stage /\ shown' = shown  BY <1>1, <1>2, <1>4, <1>5, <1>6, <1>7 DEF ModelInv
<1>8. CASE stage = "sent" /\ shown' = <<>> /\ stage' = "stream"
  <2>1. said' = Model!Empty /\ shown' = said'.text /\ ended' = none  BY <1>1, <1>8, EmptyReply DEF ModelInv
  <2> QED BY <1>2, <1>4, <1>5, <1>8, <2>1, EmptyReply DEF ModelInv
<1> QED BY <1>3, <1>7, <1>8

(* Every step keeps the invariant of a stream.                             *)
LEMMA StepModel ==
  ASSUME ModelInv, Model!Next \/ UNCHANGED Model!vars
  PROVE  ModelInv'
<1>0. reply = said /\ said \in Reply  BY DEF ModelInv
<1>1. CASE (\E u \in Model!ToSet(Offers) : Model!OtherCall(u)) \/ Model!NewChat \/ Model!Stop \/ Model!Accepted \/ Model!Half \/ Model!FallSilent
           \/ UNCHANGED Model!vars
  BY <1>1, QuietModel
<1>2. CASE Model!Call  BY <1>2, AskedAnew DEF Model!Call, ModelInv
<1>3. CASE Model!SeeStop  BY <1>3, Returned DEF Model!SeeStop, ModelInv
<1>4. ASSUME Model!Fail PROVE ModelInv'  BY <1>4, Returned DEF Model!Fail, ModelInv
<1>5. CASE Model!Refused  BY <1>4, <1>5 DEF Model!Refused
<1>6. CASE Model!OptionRefused  BY <1>6, AskedAnew DEF Model!OptionRefused, ModelInv, Model!Between
<1>7. CASE Model!GiveUp \/ Model!Torn  BY <1>4, <1>7, NextTried DEF Model!GiveUp, Model!Torn, Model!Reading, Model!Broken
<1>8. CASE Model!Closed
  <2>1. stage = "stream" /\ shown = reply.text  BY <1>8 DEF Model!Closed, Model!Reading, ModelInv
  <2>2. CASE Model!Complete(reply)
    BY <1>0, <1>8, <2>1, <2>2, Returned DEF Model!Closed
  <2>3. CASE ~Model!Complete(reply)
    BY <1>8, <2>1, <2>3, NextTried DEF Model!Closed, Model!Complete
  <2> QED BY <2>2, <2>3
<1>9. CASE Model!ClosedInLine
  <2>1. stage = "stream" /\ half \in Model!Lines  BY <1>9 DEF Model!ClosedInLine, Model!Reading, ModelInv
  <2>2. CASE Model!Complete(Model!LastLine(half))
    <3>1. Model!Takes(half) /\ Model!Return("replied", Model!LastLine(half))  BY <1>9, <2>2 DEF Model!ClosedInLine
    <3> QED BY <2>1, <3>1, LineRead, Returned DEF Model!LastLine
  <2>3. CASE ~Model!Complete(Model!LastLine(half))
    <3>1. Model!TryNext  BY <1>9, <2>3 DEF Model!ClosedInLine
    <3>2. Model!Taken(said, half).text = <<>>  BY <1>0, <2>3 DEF Model!Complete, Model!LastLine
    <3>3. said.text = <<>>
      <4>1. style \in {"pieces", "so far"}  BY DEF ModelInv
      <4>2. \/ said.text = <<>>
            \/ half.kind = "text" /\ said.text \o Model!Piece(said.text, half.text) = <<>>
        BY <1>0, <2>1, <3>2, <4>1, TakenIsMeant
      <4>3. CASE half.kind = "text" /\ said.text \o Model!Piece(said.text, half.text) = <<>>
        <5>1. said.text \in Seq(Letters) /\ Model!Piece(said.text, half.text) \in Seq(Letters)
          BY <1>0, <2>1, <4>1, TakenIsMeant DEF Reply, Texts
        <5> QED BY <4>3, <5>1, ConcatEqualIffEmpty
      <4> QED BY <4>2, <4>3
    <3> QED BY <1>0, <2>1, <3>1, <3>3, NextTried
  <2> QED BY <2>2, <2>3
<1>10. ~Model!Body  BY DEF Model!Body, ModelInv
<1>11. CASE Model!Chunk  BY <1>11, ReadStep DEF Model!Chunk, Model!Reading
<1>12. CASE Model!Rest  BY <1>12, ReadStep DEF Model!Rest, Model!Reading, ModelInv
<1> QED BY <1>1, <1>2, <1>3, <1>5, <1>6, <1>7, <1>8, <1>9, <1>10, <1>11, <1>12 DEF Model!Next

-----------------------------------------------------------------------------
WholeInv ==
  /\ reply = said /\ stage \in {"idle", "sent", "body"}
  /\ stage # "idle" => ended = none
  /\ ended # none /\ ended.kind = "replied" => ended.reply = said
  /\ ended # none /\ stopped => ended.step = "stop"
  /\ {memo, resolved} \subseteq answered \union {none}

(* What the invariant says of a reply in one body.                         *)
LEMMA WholeMeans ==
  WholeInv => Whole!ReplyIsWhatWasSaid /\ Whole!StoppedRunsNothing /\ Whole!KeptEndpointsAnswer
  BY DEF WholeInv, Whole!ReplyIsWhatWasSaid, Whole!StoppedRunsNothing, Whole!KeptEndpointsAnswer

(* A call ends, with the body or without.                                  *)
LEMMA WholeReturned ==
  ASSUME WholeInv, NEW kind \in {"replied", "failed", "stopped"}, NEW r, Whole!Return(kind, r),
         reply' = said', kind = "replied" => r = said'
  PROVE  WholeInv'
<1>1. /\ stage' = "idle" /\ UNCHANGED stopped
      /\ ended' = [kind |-> kind, reply |-> r, step |-> Whole!NextStep(kind, r)]
  BY DEF Whole!Return
<1>2. ended'.kind = kind /\ ended'.reply = r /\ (stopped => ended'.step = "stop")  BY <1>1 DEF Whole!NextStep
<1>3. {memo, resolved}' \subseteq answered' \union {none}  BY DEF Whole!Return, Whole!Proven, WholeInv
<1> QED BY <1>1, <1>2, <1>3 DEF WholeInv

(* Every step keeps the invariant of a call in one body.                   *)
LEMMA StepWhole ==
  ASSUME WholeInv, Whole!Next \/ UNCHANGED Whole!vars
  PROVE  WholeInv'
<1>1. ASSUME Whole!Fail PROVE WholeInv'  BY <1>1, WholeReturned DEF Whole!Fail, WholeInv
<1>2. ASSUME NEW us, NEW opt, Whole!Ask(us, opt), ended' = none, {memo, resolved}' \subseteq answered' \union {none}
      PROVE  WholeInv'
  BY <1>2 DEF Whole!Ask, WholeInv
<1>3. ASSUME Whole!TryNext, stage # "idle" PROVE WholeInv'
  BY <1>1, <1>2, <1>3 DEF Whole!TryNext, Whole!Between, WholeInv
<1>4. CASE (\E u \in Whole!ToSet(Offers) : Whole!OtherCall(u)) \/ Whole!NewChat \/ Whole!Stop \/ Whole!Accepted \/ UNCHANGED Whole!vars
  BY <1>4 DEF Whole!OtherCall, Whole!NewChat, Whole!Stop, Whole!Accepted, Whole!vars, Whole!Between, WholeInv
<1>5. CASE Whole!Call  BY <1>2, <1>5 DEF Whole!Call, WholeInv
<1>6. CASE Whole!SeeStop  BY <1>6, WholeReturned DEF Whole!SeeStop, WholeInv
<1>7. CASE Whole!GiveUp  BY <1>1, <1>3, <1>7 DEF Whole!GiveUp, Whole!Broken
<1>8. CASE Whole!Refused  BY <1>1, <1>8 DEF Whole!Refused
<1>9. CASE Whole!OptionRefused  BY <1>2, <1>9 DEF Whole!OptionRefused, WholeInv, Whole!Between
<1>10. CASE Whole!Body
  <2>1. PICK r : Whole!Return("replied", r) /\ reply' = r /\ said' = r  BY <1>10 DEF Whole!Body
  <2> QED BY <2>1, WholeReturned
<1>11. ~Whole!Reading  BY DEF Whole!Reading, WholeInv
<1> QED BY <1>4, <1>5, <1>6, <1>7, <1>8, <1>9, <1>10, <1>11
        DEF Whole!Next, Whole!Chunk, Whole!Half, Whole!Rest, Whole!Closed, Whole!ClosedInLine, Whole!Torn, Whole!FallSilent

-----------------------------------------------------------------------------
(* A set of numbers that is not empty has a least.                         *)
LEMMA SmallestOf ==
  ASSUME NEW S \in SUBSET Nat, S # {}
  PROVE  \E n \in S : \A m \in S : n =< m
<1>1. PICK n \in S : \A m \in S : ~(<<m, n>> \in OpToRel(<, Nat))
  BY WFMin, NatLessThanWellFounded, Zenon
<1>2. \A m \in S : ~(m < n)  BY <1>1, Zenon DEF OpToRel
<1> QED BY <1>2


(* The chain counts as everybody does.                                     *)
LEMMA ChainCount == \A S : Chain!Cardinality(S) = Cardinality(S)
  BY DEF Chain!Cardinality, Cardinality

-----------------------------------------------------------------------------
(* The task chain: what the two loops over its nodes come to.              *)

(* The courses of a loop of n steps; there is one.                         *)
Courses(n, X, base, step) ==
  {f \in [0..n -> X] : f[0] = base /\ \A k \in 1..n : f[k] = step[<<f[k - 1], k>>]}
Follows(n, X, base, step, g) ==
  /\ g = [k \in 0..n |-> g[k]] /\ g[0] = base
  /\ \A k \in 1..n : g[k - 1] \in X => g[k] = step[<<g[k - 1], k>>]

(* A loop has a course.                                                    *)
LEMMA CourseExists ==
  ASSUME NEW n \in Nat, NEW X, NEW base \in X, NEW step \in [X \X (1..n) -> X]
  PROVE  \E f : f \in Courses(n, X, base, step)
<1> DEFINE Has(m) == \E f \in [0..m -> X] : f[0] = base /\ \A k \in 1..m : f[k] = step[<<f[k - 1], k>>]
           Bad == {m \in 0..n : ~Has(m)}
<1> SUFFICES Has(n)  BY DEF Courses
<1> SUFFICES ASSUME Bad # {} PROVE FALSE
  <2>1. n \in 0..n  OBVIOUS
  <2> HIDE DEF Has
  <2> QED BY <2>1
<1>1. PICK m \in Bad : \A k \in Bad : m =< k
  <2>1. Bad \in SUBSET Nat  OBVIOUS
  <2> HIDE DEF Bad
  <2> QED BY <2>1, SmallestOf
<1>2. m \in 0..n /\ ~Has(m)  OBVIOUS
<1>3. m # 0
  <2>1. [k \in 0..0 |-> base] \in [0..0 -> X] /\ [k \in 0..0 |-> base][0] = base  OBVIOUS
  <2>2. 1..0 = {}  OBVIOUS
  <2> QED BY <1>2, <2>1, <2>2
<1>4. m - 1 \in 0..n /\ ~(m =< m - 1) /\ m \in 1..n  BY <1>2, <1>3
<1>5. Has(m - 1)  BY <1>1, <1>4
<1>6. PICK g \in [0..m - 1 -> X] : g[0] = base /\ \A k \in 1..m - 1 : g[k] = step[<<g[k - 1], k>>]
  BY <1>5
<1> DEFINE f == [k \in 0..m |-> IF k = m THEN step[<<g[m - 1], m>>] ELSE g[k]]
<1>7. f \in [0..m -> X]
  <2>1. \A k \in 0..m : k # m => k \in 0..m - 1  BY <1>2
  <2>2. g[m - 1] \in X  BY <1>4, <1>6
  <2>3. step[<<g[m - 1], m>>] \in X  BY <1>4, <2>2
  <2> QED BY <1>6, <2>1, <2>3
<1>8. f[0] = base  BY <1>2, <1>3, <1>6
<1>9. ASSUME NEW k \in 1..m PROVE f[k] = step[<<f[k - 1], k>>]
  <2>1. k - 1 \in 0..m /\ k - 1 # m /\ k \in 0..m  BY <1>2
  <2>2. CASE k = m  BY <2>1, <2>2
  <2>3. CASE k # m
    <3>1. k \in 1..m - 1  BY <1>2, <2>3
    <3> QED BY <1>6, <2>1, <2>3, <3>1
  <2> QED BY <2>2, <2>3
<1> HIDE DEF f
<1>10. Has(m)  BY <1>7, <1>8, <1>9
<1> QED BY <1>2, <1>10

-----------------------------------------------------------------------------
(* What a node waits for, by position; a chain whose nodes have names of    *)
(* their own and wait for nodes of the chain.                               *)
Places(c) == 1..Len(c)
NamesOf(c) == {c[i].id : i \in Places(c)}
Needs(c, i) == {j \in Places(c) : c[j].id \in c[i].deps}
Proper(c) ==
  /\ Len(c) \in Nat /\ DOMAIN c = Places(c)
  /\ \A i, j \in Places(c) : c[i].id = c[j].id => i = j
  /\ \A i \in Places(c) : \A d \in c[i].deps : \E j \in Places(c) : c[j].id = d

(* One sweep takes the nodes in order that wait for taken ones; as many     *)
(* sweeps as there are nodes.                                               *)
Sweeps(c, A, B) ==
  \E e \in [0..Len(c) -> SUBSET Places(c)] :
    /\ e[0] = A /\ e[Len(c)] = B
    /\ \A i \in Places(c) :
         e[i] = IF Needs(c, i) \subseteq e[i - 1] THEN e[i - 1] \union {i} ELSE e[i - 1]
SweepsOut(c, D) ==
  \E a \in [0..Len(c) -> SUBSET Places(c)] :
    /\ a[0] = {} /\ a[Len(c)] = D
    /\ \A k \in Places(c) : Sweeps(c, a[k - 1], a[k])

(* Nothing is left to take; what is taken can be ranked, each node above    *)
(* what it waits for.                                                       *)
NothingLeft(c, A) == \A i \in Places(c) : Needs(c, i) \subseteq A => i \in A
Ranked(c, A) ==
  \E r \in [A -> 1..Cardinality(A)] :
    \A i \in A : Needs(c, i) \subseteq A /\ \A j \in Needs(c, i) : r[j] < r[i]

(* Places are finite, and so is each part of them.                          *)
LEMMA PlacesFinite ==
  ASSUME NEW n \in Nat, NEW A \in SUBSET (1..n)
  PROVE  IsFiniteSet(A) /\ Cardinality(A) \in 0..n /\ (Cardinality(A) = n => A = 1..n)
<1>1. IsFiniteSet(1..n) /\ Cardinality(1..n) = n
  <2>1. 1 \in Int /\ n \in Int  OBVIOUS
  <2>2. IsFiniteSet(1..n) /\ Cardinality(1..n) = IF 1 > n THEN 0 ELSE n - 1 + 1
    BY <2>1, FS_Interval
  <2> QED BY <2>2
<1>2. IsFiniteSet(A) /\ Cardinality(A) =< Cardinality(1..n)
      /\ (Cardinality(1..n) = Cardinality(A) => 1..n = A)
  <2> HIDE DEF Places
  <2> QED BY <1>1, FS_Subset, Zenon
<1>3. Cardinality(A) \in Nat  BY <1>2, FS_CardinalityType
<1> QED BY <1>1, <1>2, <1>3

(* Taking one more keeps the ranks.                                         *)
LEMMA TakingRanks ==
  ASSUME NEW c, Len(c) \in Nat, NEW A \in SUBSET Places(c), Ranked(c, A),
         NEW i \in Places(c), Needs(c, i) \subseteq A
  PROVE  Ranked(c, A \union {i})
<1>1. CASE i \in A
  <2>1. A \union {i} = A  BY <1>1
  <2> QED BY <2>1
<1>2. CASE i \notin A
  <2> DEFINE n == Cardinality(A)
             B == A \union {i}
  <2>1. IsFiniteSet(A) /\ n \in Nat  BY PlacesFinite DEF Places
  <2>2. Cardinality(B) = n + 1  BY <1>2, <2>1, FS_AddElement
  <2>3. PICK r \in [A -> 1..n] :
          \A k \in A : Needs(c, k) \subseteq A /\ \A j \in Needs(c, k) : r[j] < r[k]
    BY DEF Ranked
  <2> DEFINE q == [k \in B |-> IF k = i THEN n + 1 ELSE r[k]]
  <2> HIDE DEF n
  <2>4. q \in [B -> 1..n + 1]
    <3>1. \A k \in A : r[k] \in 1..n + 1  BY <2>1, <2>3
    <3> QED BY <2>1, <3>1
  <2>5. ASSUME NEW k \in B PROVE Needs(c, k) \subseteq B /\ \A j \in Needs(c, k) : q[j] < q[k]
    <3>1. CASE k = i
      <4>1. \A j \in Needs(c, i) : j \in A /\ j # i /\ r[j] \in 1..n  BY <1>2, <2>3
      <4> QED BY <2>1, <3>1, <4>1
    <3>2. CASE k # i
      <4>1. k \in A  BY <3>2
      <4>2. \A j \in Needs(c, k) : j \in A /\ j # i  BY <1>2, <2>3, <4>1
      <4> QED BY <2>3, <3>2, <4>1, <4>2
    <3> QED BY <3>1, <3>2
  <2> HIDE DEF q, B
  <2>6. Ranked(c, B)  BY <2>2, <2>4, <2>5 DEF Ranked
  <2> QED BY <2>6 DEF B
<1> QED BY <1>1, <1>2

(* A sweep takes more and more, keeps the ranks, and stands still exactly   *)
(* where nothing is left to take.                                           *)
LEMMA SweepGrows ==
  ASSUME NEW c, Len(c) \in Nat, NEW A \in SUBSET Places(c), NEW B \in SUBSET Places(c),
         Sweeps(c, A, B)
  PROVE  /\ A \subseteq B
         /\ A = B => NothingLeft(c, A)
         /\ NothingLeft(c, A) => B = A
         /\ Ranked(c, A) => Ranked(c, B)
<1> DEFINE n == Len(c)
<1>1. PICK e \in [0..n -> SUBSET Places(c)] :
        /\ e[0] = A /\ e[n] = B
        /\ \A i \in Places(c) :
             e[i] = IF Needs(c, i) \subseteq e[i - 1] THEN e[i - 1] \union {i} ELSE e[i - 1]
  BY DEF Sweeps
<1>0. n \in Nat /\ n \in 0..n /\ 0 \in 0..n  OBVIOUS
<1> HIDE DEF n
<1>2. Places(c) = 1..n /\ \A i \in 1..n : i \in 0..n /\ i - 1 \in 0..n  BY <1>0 DEF Places, n
<1>3. \A k \in 0..n : A \subseteq e[k] /\ e[k] \subseteq B
  <2>1. \A k \in 0..n : A \subseteq e[k]
    <3> DEFINE Off == {k \in 0..n : ~(A \subseteq e[k])}
    <3> SUFFICES ASSUME Off # {} PROVE FALSE  OBVIOUS
    <3>1. PICK k \in Off : \A m \in Off : k =< m
      <4>1. Off \in SUBSET Nat  BY <1>0
      <4> HIDE DEF Off
      <4> QED BY <4>1, SmallestOf
    <3>2. k \in 0..n /\ ~(A \subseteq e[k])  OBVIOUS
    <3>3. k # 0  BY <1>1, <3>2
    <3>4. k \in 1..n /\ k - 1 \in 0..n /\ ~(k =< k - 1)  BY <1>0, <3>2, <3>3
    <3>5. A \subseteq e[k - 1]  BY <3>1, <3>4
    <3>6. e[k - 1] \subseteq e[k]  BY <1>1, <1>2, <3>4
    <3> QED BY <3>2, <3>5, <3>6
  <2>2. \A k \in 0..n : e[n - k] \subseteq B
    <3> DEFINE Off == {k \in 0..n : ~(e[n - k] \subseteq B)}
    <3> SUFFICES ASSUME Off # {} PROVE FALSE  OBVIOUS
    <3>1. PICK k \in Off : \A m \in Off : k =< m
      <4>1. Off \in SUBSET Nat  BY <1>0
      <4> HIDE DEF Off
      <4> QED BY <4>1, SmallestOf
    <3>2. k \in 0..n /\ ~(e[n - k] \subseteq B)  OBVIOUS
    <3>3. k # 0
      <4>1. n - 0 = n  BY <1>0
      <4> QED BY <1>1, <3>2, <4>1
    <3>4. k - 1 \in 0..n /\ ~(k =< k - 1)  BY <1>0, <3>2, <3>3
    <3>5. e[n - (k - 1)] \subseteq B  BY <3>1, <3>4
    <3>6. n - (k - 1) \in 1..n /\ (n - (k - 1)) - 1 = n - k  BY <1>0, <3>2, <3>3
    <3>7. e[n - k] \subseteq e[n - (k - 1)]  BY <1>1, <1>2, <3>6
    <3> QED BY <3>2, <3>5, <3>7
  <2>3. \A k \in 0..n : n - k \in 0..n /\ n - (n - k) = k  BY <1>0
  <2> QED BY <2>1, <2>2, <2>3
<1>4. A \subseteq B  BY <1>0, <1>1, <1>3
<1>5. ASSUME A = B PROVE NothingLeft(c, A)
  <2> SUFFICES ASSUME NEW i \in Places(c), Needs(c, i) \subseteq A PROVE i \in A  BY DEF NothingLeft
  <2>1. i \in 1..n /\ i - 1 \in 0..n /\ i \in 0..n  BY <1>2
  <2>2. Needs(c, i) \subseteq e[i - 1]  BY <1>3, <2>1
  <2>3. i \in e[i]  BY <1>1, <2>2
  <2> QED BY <1>3, <1>5, <2>1, <2>3
<1>6. ASSUME NothingLeft(c, A) PROVE B = A
  <2> DEFINE Off == {k \in 0..n : e[k] # A}
  <2>1. Off = {}
    <3> SUFFICES ASSUME Off # {} PROVE FALSE  OBVIOUS
    <3>1. PICK k \in Off : \A m \in Off : k =< m
      <4>1. Off \in SUBSET Nat  BY <1>0
      <4> HIDE DEF Off
      <4> QED BY <4>1, SmallestOf
    <3>2. k \in 0..n /\ e[k] # A  OBVIOUS
    <3>3. k # 0  BY <1>1, <3>2
    <3>4. k \in 1..n /\ k - 1 \in 0..n /\ ~(k =< k - 1)  BY <1>0, <3>2, <3>3
    <3>5. e[k - 1] = A  BY <3>1, <3>4
    <3>6. k \in Places(c) /\ e[k] = IF Needs(c, k) \subseteq A THEN A \union {k} ELSE A
      BY <1>1, <1>2, <3>4, <3>5
    <3> QED BY <1>6, <3>2, <3>6 DEF NothingLeft
  <2> QED BY <1>0, <1>1, <2>1
<1>7. ASSUME Ranked(c, A) PROVE Ranked(c, B)
  <2> DEFINE Off == {k \in 0..n : ~Ranked(c, e[k])}
  <2>1. Off = {}
    <3> SUFFICES ASSUME Off # {} PROVE FALSE  OBVIOUS
    <3>1. PICK k \in Off : \A m \in Off : k =< m
      <4>1. Off \in SUBSET Nat  BY <1>0
      <4> HIDE DEF Off
      <4> QED BY <4>1, SmallestOf
    <3>2. k \in 0..n /\ ~Ranked(c, e[k])  OBVIOUS
    <3>3. k # 0  BY <1>1, <1>7, <3>2
    <3>4. k \in 1..n /\ k - 1 \in 0..n /\ ~(k =< k - 1)  BY <1>0, <3>2, <3>3
    <3>5. Ranked(c, e[k - 1])  BY <3>1, <3>4
    <3>6. k \in Places(c) /\ e[k - 1] \in SUBSET Places(c)  BY <1>1, <1>2, <3>4
    <3>7. CASE Needs(c, k) \subseteq e[k - 1]
      <4>1. e[k] = e[k - 1] \union {k}  BY <1>1, <3>6, <3>7
      <4>2. Ranked(c, e[k - 1] \union {k})  BY <3>5, <3>6, <3>7, TakingRanks
      <4> QED BY <3>2, <4>1, <4>2
    <3>8. CASE ~(Needs(c, k) \subseteq e[k - 1])
      <4>1. e[k] = e[k - 1]  BY <1>1, <3>6, <3>8
      <4> QED BY <3>2, <3>5, <4>1
    <3> QED BY <3>7, <3>8
  <2> QED BY <1>0, <1>1, <2>1
<1> QED BY <1>4, <1>5, <1>6, <1>7


-----------------------------------------------------------------------------
(* As many sweeps as there are nodes: each takes a node, or nothing is left *)
(* to take.                                                                *)
LEMMA SweepsOutCloses ==
  ASSUME NEW c, Len(c) \in Nat, NEW D, SweepsOut(c, D)
  PROVE  D \in SUBSET Places(c) /\ NothingLeft(c, D) /\ Ranked(c, D)
<1> DEFINE n == Len(c)
<1>1. PICK a \in [0..n -> SUBSET Places(c)] :
        /\ a[0] = {} /\ a[n] = D
        /\ \A k \in Places(c) : Sweeps(c, a[k - 1], a[k])
  BY DEF SweepsOut
<1>0. n \in Nat /\ n \in 0..n /\ 0 \in 0..n  OBVIOUS
<1> HIDE DEF n
<1>2. Places(c) = 1..n /\ \A i \in 1..n : i \in 0..n /\ i - 1 \in 0..n  BY <1>0 DEF Places, n
<1>3. \A k \in 1..n : /\ a[k - 1] \in SUBSET Places(c) /\ a[k] \in SUBSET Places(c)
                      /\ Sweeps(c, a[k - 1], a[k])
  BY <1>1, <1>2
<1>4. \A k \in 1..n : /\ a[k - 1] \subseteq a[k]
                      /\ a[k - 1] = a[k] => NothingLeft(c, a[k - 1])
                      /\ NothingLeft(c, a[k - 1]) => a[k] = a[k - 1]
                      /\ Ranked(c, a[k - 1]) => Ranked(c, a[k])
  <2> SUFFICES ASSUME NEW k \in 1..n
               PROVE  /\ a[k - 1] \subseteq a[k]
                      /\ a[k - 1] = a[k] => NothingLeft(c, a[k - 1])
                      /\ NothingLeft(c, a[k - 1]) => a[k] = a[k - 1]
                      /\ Ranked(c, a[k - 1]) => Ranked(c, a[k])
    OBVIOUS
  <2> DEFINE A == a[k - 1]
             B == a[k]
  <2>1. A \in SUBSET Places(c) /\ B \in SUBSET Places(c) /\ Sweeps(c, A, B)  BY <1>3
  <2> HIDE DEF A, B
  <2>2. /\ A \subseteq B
        /\ A = B => NothingLeft(c, A)
        /\ NothingLeft(c, A) => B = A
        /\ Ranked(c, A) => Ranked(c, B)
    BY <2>1, SweepGrows
  <2> QED BY <2>2 DEF A, B
<1>5. \A k \in 0..n : Ranked(c, a[k])
  <2> DEFINE Off == {k \in 0..n : ~Ranked(c, a[k])}
  <2> SUFFICES ASSUME Off # {} PROVE FALSE  OBVIOUS
  <2>1. PICK k \in Off : \A m \in Off : k =< m
    <3>1. Off \in SUBSET Nat  BY <1>0
    <3> HIDE DEF Off
    <3> QED BY <3>1, SmallestOf
  <2>2. k \in 0..n /\ ~Ranked(c, a[k])  OBVIOUS
  <2>3. k # 0
    <3>1. Ranked(c, {})
      <4>1. [i \in {} |-> 1] \in [{} -> 1..Cardinality({})]  OBVIOUS
      <4> QED BY <4>1 DEF Ranked
    <3> QED BY <1>1, <2>2, <3>1
  <2>4. k \in 1..n /\ k - 1 \in 0..n /\ ~(k =< k - 1)  BY <1>0, <2>2, <2>3
  <2>5. Ranked(c, a[k - 1])  BY <2>1, <2>4
  <2> QED BY <1>4, <2>2, <2>4, <2>5
<1>6. \A k \in 0..n : NothingLeft(c, a[k]) \/ Cardinality(a[k]) >= k
  <2> DEFINE Off == {k \in 0..n : ~(NothingLeft(c, a[k]) \/ Cardinality(a[k]) >= k)}
  <2> SUFFICES ASSUME Off # {} PROVE FALSE  OBVIOUS
  <2>1. PICK k \in Off : \A m \in Off : k =< m
    <3>1. Off \in SUBSET Nat  BY <1>0
    <3> HIDE DEF Off
    <3> QED BY <3>1, SmallestOf
  <2>2. k \in 0..n /\ ~NothingLeft(c, a[k]) /\ ~(Cardinality(a[k]) >= k)  OBVIOUS
  <2>3. a[k] \in SUBSET (1..n)  BY <1>1, <1>2, <2>2
  <2>4. Cardinality(a[k]) \in Nat /\ IsFiniteSet(a[k])
    <3>1. IsFiniteSet(a[k]) /\ Cardinality(a[k]) \in 0..n  BY <1>0, <2>3, PlacesFinite
    <3> QED BY <3>1
  <2>5. k # 0  BY <2>2, <2>4
  <2>6. k \in 1..n /\ k - 1 \in 0..n /\ ~(k =< k - 1)  BY <1>0, <2>2, <2>5
  <2>7. NothingLeft(c, a[k - 1]) \/ Cardinality(a[k - 1]) >= k - 1  BY <2>1, <2>6
  <2>8. ~NothingLeft(c, a[k - 1])  BY <1>4, <2>2, <2>6
  <2>9. a[k - 1] \in SUBSET a[k] /\ a[k - 1] # a[k]  BY <1>4, <2>6, <2>8
  <2>10. /\ IsFiniteSet(a[k - 1])
         /\ Cardinality(a[k - 1]) =< Cardinality(a[k])
         /\ (Cardinality(a[k]) = Cardinality(a[k - 1]) => a[k] = a[k - 1])
    BY <2>4, <2>9, FS_Subset, Zenon
  <2>11. Cardinality(a[k - 1]) \in Nat  BY <2>10, FS_CardinalityType
  <2>12. Cardinality(a[k - 1]) >= k - 1 /\ Cardinality(a[k]) # Cardinality(a[k - 1])
    BY <2>7, <2>8, <2>9, <2>10
  <2> QED BY <2>2, <2>4, <2>6, <2>10, <2>11, <2>12
<1>7. D \in SUBSET (1..n)  BY <1>0, <1>1, <1>2
<1>8. NothingLeft(c, D)
  <2>1. CASE Cardinality(D) >= n
    <3>1. Cardinality(D) \in 0..n /\ (Cardinality(D) = n => D = 1..n)
      BY <1>0, <1>7, PlacesFinite
    <3>2. D = 1..n  BY <1>0, <2>1, <3>1
    <3> QED BY <1>2, <3>2 DEF NothingLeft
  <2>2. CASE NothingLeft(c, a[n])  BY <1>1, <2>2
  <2> QED BY <1>0, <1>1, <1>6, <2>1, <2>2
<1>9. Ranked(c, D)  BY <1>0, <1>1, <1>5
<1> QED BY <1>2, <1>7, <1>8, <1>9

(* Where nothing is left to take and the nodes can be ordered, all are      *)
(* taken.                                                                  *)
LEMMA OrderedIsTaken ==
  ASSUME NEW c, Len(c) \in Nat, NEW D \in SUBSET Places(c), NothingLeft(c, D),
         NEW r \in [Places(c) -> Nat],
         \A i \in Places(c) : \A j \in Needs(c, i) : r[j] < r[i]
  PROVE  D = Places(c)
<1> DEFINE Off == {m \in Nat : \E i \in Places(c) : i \notin D /\ r[i] = m}
<1> SUFFICES ASSUME D # Places(c) PROVE FALSE  OBVIOUS
<1>1. PICK i \in Places(c) : i \notin D  OBVIOUS
<1>2. r[i] \in Off  BY <1>1
<1>3. PICK m \in Off : \A k \in Off : m =< k
  <2>1. Off \in SUBSET Nat  OBVIOUS
  <2> HIDE DEF Off
  <2> QED BY <1>2, <2>1, SmallestOf
<1>4. PICK x \in Places(c) : x \notin D /\ r[x] = m  OBVIOUS
<1>5. ~(Needs(c, x) \subseteq D)  BY <1>4 DEF NothingLeft
<1>6. PICK y \in Needs(c, x) : y \notin D  BY <1>5
<1>7. y \in Places(c)  BY <1>6 DEF Needs
<1>8. r[y] < m  BY <1>4, <1>6
<1>9. r[y] \in Off  BY <1>6, <1>7
<1>10. m =< r[y]  BY <1>3, <1>9
<1>11. r[y] \in Nat /\ m \in Nat  BY <1>4, <1>7
<1> HIDE DEF Off
<1> QED BY <1>8, <1>10, <1>11

(* Whatever follows the course of a loop is that course.                   *)
LEMMA CourseIsOne ==
  ASSUME NEW n \in Nat, NEW X, NEW step \in [X \X (1..n) -> X],
         NEW base, NEW f \in Courses(n, X, base, step),
         NEW g, Follows(n, X, base, step, g)
  PROVE  g = f
<1>1. f \in [0..n -> X] /\ f[0] = base /\ \A k \in 1..n : f[k] = step[<<f[k - 1], k>>]
  BY DEF Courses
<1>0. /\ g = [k \in 0..n |-> g[k]] /\ g[0] = base
      /\ \A k \in 1..n : g[k - 1] \in X => g[k] = step[<<g[k - 1], k>>]
  BY DEF Follows
<1> DEFINE Off == {k \in 0..n : g[k] # f[k]}
<1>2. Off = {}
  <3> SUFFICES ASSUME Off # {} PROVE FALSE  OBVIOUS
  <3>1. PICK k \in Off : \A m \in Off : k =< m
    <4>1. Off \in SUBSET Nat  OBVIOUS
    <4> HIDE DEF Off
    <4> QED BY <4>1, SmallestOf
  <3>2. k \in 0..n /\ g[k] # f[k]  OBVIOUS
  <3>3. k # 0  BY <1>0, <1>1, <3>2
  <3>4. k \in 1..n /\ k - 1 \in 0..n /\ ~(k =< k - 1)  BY <3>2, <3>3
  <3>5. g[k - 1] = f[k - 1]  BY <3>1, <3>4
  <3>6. f[k - 1] \in X  BY <1>1, <3>4
  <3> QED BY <1>0, <1>1, <3>2, <3>4, <3>5, <3>6
<1> QED BY <1>0, <1>1, <1>2

-----------------------------------------------------------------------------
(* The folds of the model are such loops.                                  *)

(* A sweep of the cycle check, step by step.                               *)
LEMMA TakeOffSweepCourse ==
  ASSUME NEW c, Len(c) \in Nat, DOMAIN c = 1..Len(c),
         NEW t \in SUBSET NamesOf(c)
  PROVE  \E f \in [0..Len(c) -> SUBSET NamesOf(c)] :
           /\ f[0] = t /\ f[Len(c)] = Chain!TakeOffSweep(c, t)
           /\ \A k \in 1..Len(c) : f[k] = Chain!TakeOff(c, f[k - 1], k)
<1> DEFINE n == Len(c)
           X == SUBSET NamesOf(c)
           step == [p \in X \X (1..n) |-> Chain!TakeOff(c, p[1], p[2])]
<1>1. step \in [X \X (1..n) -> X]
  BY DEF Chain!TakeOff, NamesOf, Places
<1>2. \A x \in X, k \in 1..n : step[<<x, k>>] = Chain!TakeOff(c, x, k)
  OBVIOUS
<1>3. Chain!InOrder(c) = [i \in 1..n |-> i] /\ Len(Chain!InOrder(c)) = n
  BY DEF Chain!InOrder, Chain!Positions
<1>4. n \in Nat /\ t \in X  OBVIOUS
<1> HIDE DEF step, n, X
<1>5. PICK f : f \in Courses(n, X, t, step)
  BY <1>1, <1>4, CourseExists
<1>6. f \in [0..n -> X] /\ f[0] = t /\ \A k \in 1..n : f[k] = step[<<f[k - 1], k>>]
  BY <1>5 DEF Courses
<1>7. \A k \in 1..n : f[k] = Chain!TakeOff(c, f[k - 1], k)
  <2> SUFFICES ASSUME NEW k \in 1..n PROVE f[k] = Chain!TakeOff(c, f[k - 1], k)  OBVIOUS
  <2>1. k - 1 \in 0..n  BY <1>4
  <2>2. f[k - 1] \in X  BY <1>6, <2>1
  <2> QED BY <1>2, <1>6, <2>2
<1> DEFINE op(x, i) == Chain!TakeOff(c, x, i)
           Fold(g) == g = [k \in 0..Len(Chain!InOrder(c)) |->
                             IF k = 0 THEN t ELSE op(g[k - 1], Chain!InOrder(c)[k])]
           h == CHOOSE g : Fold(g)
<1>8. Fold(f)
  <2>1. f = [k \in 0..n |-> f[k]]  BY <1>6
  <2>2. \A k \in 0..n : f[k] = IF k = 0 THEN t ELSE op(f[k - 1], Chain!InOrder(c)[k])
    <3> SUFFICES ASSUME NEW k \in 0..n, k # 0 PROVE f[k] = op(f[k - 1], Chain!InOrder(c)[k])
      BY <1>6
    <3>1. k \in 1..n  BY <1>4
    <3> QED BY <1>3, <1>7, <3>1
  <2> QED BY <1>3, <2>1, <2>2
<1>9. Fold(h)  BY <1>8
<1>10. Chain!TakeOffSweep(c, t) = h[n]
  BY <1>3 DEF Chain!TakeOffSweep, Chain!FoldLeft
<1>11. h = f
  <2>1. h = [k \in 0..n |-> IF k = 0 THEN t ELSE op(h[k - 1], Chain!InOrder(c)[k])]
    BY <1>3, <1>9
  <2> HIDE DEF h
  <2>2. h = [k \in 0..n |-> h[k]] /\ h[0] = t  BY <1>4, <2>1
  <2>3. \A k \in 1..n : h[k] = Chain!TakeOff(c, h[k - 1], k)
    <3>1. \A k \in 1..n : k \in 0..n /\ k # 0 /\ Chain!InOrder(c)[k] = k  BY <1>3, <1>4
    <3> QED BY <2>1, <3>1
  <2>4. \A k \in 1..n : h[k - 1] \in X => h[k] = step[<<h[k - 1], k>>]  BY <1>2, <2>3
  <2>5. Follows(n, X, t, step, h)  BY <2>2, <2>4 DEF Follows
  <2> QED BY <1>1, <1>4, <1>5, <2>5, CourseIsOne
<1> QED BY <1>4, <1>6, <1>7, <1>10, <1>11 DEF X, n

(* The sweeps of the cycle check, one by one.                              *)
LEMMA ResolvedCourse ==
  ASSUME NEW c, Len(c) \in Nat, DOMAIN c = 1..Len(c)
  PROVE  \E f \in [0..Len(c) -> SUBSET NamesOf(c)] :
           /\ f[0] = {} /\ f[Len(c)] = Chain!Resolved(c)
           /\ \A k \in 1..Len(c) : f[k] = Chain!TakeOffSweep(c, f[k - 1])
<1> DEFINE n == Len(c)
           X == SUBSET NamesOf(c)
           step == [p \in X \X (1..n) |-> Chain!TakeOffSweep(c, p[1])]
<1>1. step \in [X \X (1..n) -> X]
  <2>1. \A t \in X : Chain!TakeOffSweep(c, t) \in X
    <3> SUFFICES ASSUME NEW t \in SUBSET NamesOf(c) PROVE Chain!TakeOffSweep(c, t) \in SUBSET NamesOf(c)  OBVIOUS
    <3> HIDE DEF step, X, n
    <3>1. PICK f \in [0..Len(c) -> SUBSET NamesOf(c)] :
            /\ f[0] = t /\ f[Len(c)] = Chain!TakeOffSweep(c, t)
            /\ \A k \in 1..Len(c) : f[k] = Chain!TakeOff(c, f[k - 1], k)
      BY TakeOffSweepCourse
    <3> QED BY <3>1
  <2> QED BY <2>1
<1>2. \A x \in X, k \in 1..n : step[<<x, k>>] = Chain!TakeOffSweep(c, x)
  OBVIOUS
<1>3. Chain!InOrder(c) = [i \in 1..n |-> i] /\ Len(Chain!InOrder(c)) = n
  BY DEF Chain!InOrder, Chain!Positions
<1>4. n \in Nat /\ {} \in X  OBVIOUS
<1> HIDE DEF step, n, X
<1>5. PICK f : f \in Courses(n, X, {}, step)
  BY <1>1, <1>4, CourseExists
<1>6. f \in [0..n -> X] /\ f[0] = {} /\ \A k \in 1..n : f[k] = step[<<f[k - 1], k>>]
  BY <1>5 DEF Courses
<1>7. \A k \in 1..n : f[k] = Chain!TakeOffSweep(c, f[k - 1])
  <2> SUFFICES ASSUME NEW k \in 1..n PROVE f[k] = Chain!TakeOffSweep(c, f[k - 1])  OBVIOUS
  <2>1. k - 1 \in 0..n  BY <1>4
  <2>2. f[k - 1] \in X  BY <1>6, <2>1
  <2> QED BY <1>2, <1>6, <2>2
<1> DEFINE op(x, i) == Chain!TakeOffSweep(c, x)
           Fold(g) == g = [k \in 0..Len(Chain!InOrder(c)) |->
                             IF k = 0 THEN {} ELSE op(g[k - 1], Chain!InOrder(c)[k])]
           h == CHOOSE g : Fold(g)
<1>8. Fold(f)
  <2>1. f = [k \in 0..n |-> f[k]]  BY <1>6
  <2>2. \A k \in 0..n : f[k] = IF k = 0 THEN {} ELSE op(f[k - 1], Chain!InOrder(c)[k])
    <3> SUFFICES ASSUME NEW k \in 0..n, k # 0 PROVE f[k] = op(f[k - 1], Chain!InOrder(c)[k])
      BY <1>6
    <3>1. k \in 1..n  BY <1>4
    <3> QED BY <1>3, <1>7, <3>1
  <2> QED BY <1>3, <2>1, <2>2
<1>9. Fold(h)  BY <1>8
<1>10. Chain!Resolved(c) = h[n]
  BY <1>3 DEF Chain!Resolved, Chain!FoldLeft
<1>11. h = f
  <2>1. h = [k \in 0..n |-> IF k = 0 THEN {} ELSE op(h[k - 1], Chain!InOrder(c)[k])]
    BY <1>3, <1>9
  <2> HIDE DEF h
  <2>2. h = [k \in 0..n |-> h[k]] /\ h[0] = {}  BY <1>4, <2>1
  <2>3. \A k \in 1..n : h[k] = Chain!TakeOffSweep(c, h[k - 1])
    <3>1. \A k \in 1..n : k \in 0..n /\ k # 0 /\ Chain!InOrder(c)[k] = k  BY <1>3, <1>4
    <3> QED BY <2>1, <3>1
  <2>4. \A k \in 1..n : h[k - 1] \in X => h[k] = step[<<h[k - 1], k>>]  BY <1>2, <2>3
  <2>5. Follows(n, X, {}, step, h)  BY <2>2, <2>4 DEF Follows
  <2> QED BY <1>1, <1>4, <1>5, <2>5, CourseIsOne
<1> QED BY <1>4, <1>6, <1>7, <1>10, <1>11 DEF X, n

-----------------------------------------------------------------------------
(* What a visit of the stage loop does.                                    *)

(* Heights over a set of places, the ground under them.                    *)
Heights(s, A) == {s[j] : j \in A} \union {0}

(* The greatest of a set of numbers that has a bound.                      *)
LEMMA GreatestOf ==
  ASSUME NEW S \in SUBSET Nat, S # {}, NEW b \in Nat, \A x \in S : x =< b
  PROVE  Chain!Max(S) \in S /\ \A x \in S : Chain!Max(S) >= x
<1> DEFINE T == {b - x : x \in S}
<1>1. T \in SUBSET Nat /\ T # {}
  <2>1. \A x \in S : b - x \in Nat  OBVIOUS
  <2> QED BY <2>1
<1>2. PICK k \in T : \A l \in T : k =< l
  <2> HIDE DEF T
  <2> QED BY <1>1, SmallestOf
<1>3. PICK m \in S : k = b - m  BY <1>2
<1>4. ASSUME NEW x \in S PROVE m >= x
  <2>1. b - m =< b - x  BY <1>2, <1>3
  <2> QED BY <2>1
<1> QED BY <1>4 DEF Chain!Max

(* A height over finitely many places.                                     *)
LEMMA HighestOf ==
  ASSUME NEW n \in Nat, NEW s \in [1..n -> Nat], NEW A \in SUBSET (1..n)
  PROVE  /\ Chain!Max(Heights(s, A)) \in Nat
         /\ Chain!Max(Heights(s, A)) = 0 \/ \E j \in A : Chain!Max(Heights(s, A)) = s[j]
         /\ \A j \in A : s[j] =< Chain!Max(Heights(s, A))
<1> DEFINE Bounded(k) == \E b \in Nat : \A j \in 1..k : s[j] =< b
           Off == {k \in 0..n : ~Bounded(k)}
<1>1. Off = {}
  <2> SUFFICES ASSUME Off # {} PROVE FALSE  OBVIOUS
  <2>1. PICK k \in Off : \A m \in Off : k =< m
    <3>1. Off \in SUBSET Nat  OBVIOUS
    <3> HIDE DEF Off
    <3> QED BY <3>1, SmallestOf
  <2>2. k \in 0..n /\ ~Bounded(k)  OBVIOUS
  <2>3. k # 0
    <3>1. \A j \in 1..0 : s[j] =< 0  OBVIOUS
    <3> QED BY <2>2, <3>1
  <2>4. k \in 1..n /\ k - 1 \in 0..n /\ ~(k =< k - 1)  BY <2>2, <2>3
  <2>5. Bounded(k - 1)
    <3> HIDE DEF Bounded
    <3> QED BY <2>1, <2>4
  <2>6. PICK b \in Nat : \A j \in 1..k - 1 : s[j] =< b  BY <2>5
  <2>7. PICK v \in Nat : v = s[k]  BY <2>4
  <2>8. \A j \in 1..k : j \in 1..n /\ (j \in 1..k - 1 \/ j = k)
    <3> HIDE DEF Off, Bounded
    <3> QED BY <2>4
  <2>9. \A j \in 1..k : s[j] \in Nat  BY <2>8
  <2>10. b + v \in Nat  OBVIOUS
  <2>11. \A u \in Nat : (u =< b \/ u = v) => u =< b + v  OBVIOUS
  <2>12. \A j \in 1..k : s[j] =< b \/ s[j] = v  BY <2>6, <2>7, <2>8
  <2>13. \A j \in 1..k : s[j] =< b + v
    <3> HIDE DEF Off, Bounded
    <3> QED BY <2>9, <2>11, <2>12
  <2> QED BY <2>2, <2>10, <2>13
<1>2. Bounded(n)
  <2> HIDE DEF Bounded
  <2>1. n \in 0..n  OBVIOUS
  <2> QED BY <1>1, <2>1
<1>3. PICK b \in Nat : \A j \in 1..n : s[j] =< b  BY <1>2
<1> DEFINE S == Heights(s, A)
<1>4. S \in SUBSET Nat /\ S # {} /\ \A x \in S : x =< b  BY <1>3 DEF Heights
<1> HIDE DEF S
<1>5. Chain!Max(S) \in S /\ \A x \in S : Chain!Max(S) >= x  BY <1>4, GreatestOf
<1>6. Chain!Max(S) \in Nat  BY <1>4, <1>5
<1>7. \A j \in A : s[j] \in S /\ s[j] \in Nat  BY DEF S, Heights
<1>8. Chain!Max(S) = 0 \/ \E j \in A : Chain!Max(S) = s[j]  BY <1>5 DEF S, Heights
<1> QED BY <1>5, <1>6, <1>7, <1>8 DEF S

(* In a chain with names of their own an id has one holder.                *)
LEMMA HolderOfName ==
  ASSUME NEW c, Proper(c), NEW j \in Places(c)
  PROVE  Chain!Known(c, c[j].id) /\ Chain!Holder(c, c[j].id) = j
<1>1. Chain!Carriers(c, c[j].id) = {j}
  BY DEF Chain!Carriers, Chain!Positions, Proper
<1>2. j \in Nat  BY DEF Proper, Places
<1>3. Chain!Min({j}) = j  BY <1>2 DEF Chain!Min
<1> QED BY <1>1, <1>3 DEF Chain!Known, Chain!Holder

(* A visit in terms of places.                                             *)
LEMMA VisitByPlace ==
  ASSUME NEW c, Proper(c), NEW s \in [Places(c) -> Nat], NEW i \in Places(c)
  PROVE  Chain!StageVisit(c, s, i) =
           IF s[i] = 0 /\ \A j \in Needs(c, i) : s[j] # 0
           THEN [s EXCEPT ![i] = 1 + Chain!Max(Heights(s, Needs(c, i)))]
           ELSE s
<1> DEFINE known == {e \in c[i].deps : Chain!Known(c, e)}
           below == {s[Chain!Holder(c, d)] : d \in known}
<1>1. \A d \in c[i].deps : \E j \in Needs(c, i) : c[j].id = d  BY DEF Proper, Needs
<1>2. \A j \in Needs(c, i) : j \in Places(c) /\ c[j].id \in c[i].deps  BY DEF Needs
<1>3. \A j \in Needs(c, i) : Chain!Known(c, c[j].id) /\ Chain!Holder(c, c[j].id) = j
  BY <1>2, HolderOfName
<1>4. known = c[i].deps  BY <1>1, <1>3
<1>5. below = {s[j] : j \in Needs(c, i)}
  <2>1. ASSUME NEW v \in below PROVE \E j \in Needs(c, i) : v = s[j]
    <3>1. PICK d \in known : v = s[Chain!Holder(c, d)]  OBVIOUS
    <3>2. PICK j \in Needs(c, i) : c[j].id = d  BY <1>1, <3>1
    <3>3. Chain!Holder(c, d) = j  BY <1>3, <3>2
    <3> QED BY <3>1, <3>3
  <2>2. ASSUME NEW j \in Needs(c, i) PROVE s[j] \in below
    <3>1. c[j].id \in known /\ Chain!Holder(c, c[j].id) = j  BY <1>2, <1>3
    <3> QED BY <3>1
  <2> HIDE DEF below
  <2> QED BY <2>1, <2>2
<1>6. \A d \in c[i].deps : Chain!Known(c, d)  BY <1>4
<1>7. Chain!Unset \notin below <=> \A j \in Needs(c, i) : s[j] # 0
  <2> HIDE DEF below
  <2> QED BY <1>5 DEF Chain!Unset
<1>8. below \cup {0} = Heights(s, Needs(c, i))
  <2> HIDE DEF below
  <2> QED BY <1>5 DEF Heights
<1>9. Chain!StageVisit(c, s, i) =
        IF s[i] = Chain!Unset /\ ((\A d \in c[i].deps : Chain!Known(c, d)) /\ Chain!Unset \notin below)
        THEN [s EXCEPT ![i] = 1 + Chain!Max(below \cup {0})] ELSE s
  BY DEF Chain!StageVisit
<1> HIDE DEF below
<1> QED BY <1>6, <1>7, <1>8, <1>9 DEF Chain!Unset

(* A visit gives numbers.                                                  *)
LEMMA VisitCloses ==
  ASSUME NEW c, Proper(c), NEW s \in [Places(c) -> Nat], NEW i \in Places(c)
  PROVE  Chain!StageVisit(c, s, i) \in [Places(c) -> Nat]
<1>1. Needs(c, i) \in SUBSET (1..Len(c)) /\ s \in [1..Len(c) -> Nat] /\ Len(c) \in Nat
  BY DEF Needs, Places, Proper
<1>2. Chain!Max(Heights(s, Needs(c, i))) \in Nat  BY <1>1, HighestOf
<1>3. 1 + Chain!Max(Heights(s, Needs(c, i))) \in Nat  BY <1>2
<1> QED BY <1>3, VisitByPlace

(* Which places have a stage; a stage is one above the highest it waits    *)
(* for.                                                                    *)
SetOnes(c, s) == {i \in Places(c) : s[i] # 0}
WellSet(c, s) ==
  \A i \in SetOnes(c, s) :
    Needs(c, i) \subseteq SetOnes(c, s) /\ s[i] = 1 + Chain!Max(Heights(s, Needs(c, i)))

(* A visit sets a place that waits for set ones.                           *)
LEMMA VisitSets ==
  ASSUME NEW c, Proper(c), NEW s \in [Places(c) -> Nat], WellSet(c, s), NEW i \in Places(c)
  PROVE  /\ WellSet(c, Chain!StageVisit(c, s, i))
         /\ SetOnes(c, Chain!StageVisit(c, s, i)) =
              IF Needs(c, i) \subseteq SetOnes(c, s) THEN SetOnes(c, s) \union {i}
              ELSE SetOnes(c, s)
<1>1. Needs(c, i) \subseteq Places(c)  BY DEF Needs
<1>2. (\A j \in Needs(c, i) : s[j] # 0) <=> Needs(c, i) \subseteq SetOnes(c, s)
  BY <1>1 DEF SetOnes
<1>3. CASE s[i] = 0 /\ Needs(c, i) \subseteq SetOnes(c, s)
  <2> DEFINE h == 1 + Chain!Max(Heights(s, Needs(c, i)))
             q == [s EXCEPT ![i] = h]
  <2>1. Chain!StageVisit(c, s, i) = q  BY <1>2, <1>3, VisitByPlace
  <2>2. h \in Nat /\ h # 0
    <3>1. Needs(c, i) \in SUBSET (1..Len(c)) /\ s \in [1..Len(c) -> Nat] /\ Len(c) \in Nat
      BY <1>1 DEF Places, Proper
    <3>2. Chain!Max(Heights(s, Needs(c, i))) \in Nat  BY <3>1, HighestOf
    <3> QED BY <3>2
  <2> HIDE DEF h
  <2>3. q[i] = h /\ \A j \in Places(c) : j # i => q[j] = s[j]  OBVIOUS
  <2> HIDE DEF q
  <2>4. SetOnes(c, q) = SetOnes(c, s) \union {i}  BY <2>2, <2>3 DEF SetOnes
  <2>5. i \notin SetOnes(c, s)  BY <1>3 DEF SetOnes
  <2>6. \A A \in SUBSET SetOnes(c, s) : Heights(q, A) = Heights(s, A)
    <3> SUFFICES ASSUME NEW A \in SUBSET SetOnes(c, s) PROVE Heights(q, A) = Heights(s, A)
      OBVIOUS
    <3>1. \A j \in A : q[j] = s[j]  BY <2>3, <2>5 DEF SetOnes
    <3>2. {q[j] : j \in A} = {s[j] : j \in A}  BY <3>1
    <3> QED BY <3>2 DEF Heights
  <2>7. ASSUME NEW j \in SetOnes(c, q)
        PROVE  Needs(c, j) \subseteq SetOnes(c, q) /\ q[j] = 1 + Chain!Max(Heights(q, Needs(c, j)))
    <3>1. CASE j = i
      <4>1. Heights(q, Needs(c, i)) = Heights(s, Needs(c, i))  BY <1>3, <2>6
      <4> QED BY <1>3, <2>3, <2>4, <3>1, <4>1 DEF h
    <3>2. CASE j # i
      <4>1. j \in SetOnes(c, s)  BY <2>4, <3>2
      <4>2. j \in Places(c)  BY <4>1 DEF SetOnes
      <4>3. Needs(c, j) \subseteq SetOnes(c, s) /\ s[j] = 1 + Chain!Max(Heights(s, Needs(c, j)))
        BY <4>1 DEF WellSet
      <4>4. Heights(q, Needs(c, j)) = Heights(s, Needs(c, j))  BY <2>6, <4>3
      <4> QED BY <2>3, <2>4, <3>2, <4>2, <4>3, <4>4
    <3> QED BY <3>1, <3>2
  <2> QED BY <1>3, <2>1, <2>4, <2>7 DEF WellSet
<1>4. CASE ~(s[i] = 0 /\ Needs(c, i) \subseteq SetOnes(c, s))
  <2>1. Chain!StageVisit(c, s, i) = s  BY <1>2, <1>4, VisitByPlace
  <2>2. Needs(c, i) \subseteq SetOnes(c, s) => SetOnes(c, s) = SetOnes(c, s) \union {i}
    BY <1>4 DEF SetOnes
  <2> QED BY <2>1, <2>2
<1> QED BY <1>3, <1>4

(* A sweep of the stage loop, step by step.                                *)
LEMMA StageSweepCourse ==
  ASSUME NEW c, Len(c) \in Nat, DOMAIN c = 1..Len(c), Proper(c),
         NEW s \in [1..Len(c) -> Nat]
  PROVE  \E f \in [0..Len(c) -> [1..Len(c) -> Nat]] :
           /\ f[0] = s /\ f[Len(c)] = Chain!StageSweep(c, s)
           /\ \A k \in 1..Len(c) : f[k] = Chain!StageVisit(c, f[k - 1], k)
<1> DEFINE n == Len(c)
           X == [1..Len(c) -> Nat]
           step == [p \in X \X (1..n) |-> Chain!StageVisit(c, p[1], p[2])]
<1>1. step \in [X \X (1..n) -> X]
  BY VisitCloses DEF Places
<1>2. \A x \in X, k \in 1..n : step[<<x, k>>] = Chain!StageVisit(c, x, k)
  OBVIOUS
<1>3. Chain!InOrder(c) = [i \in 1..n |-> i] /\ Len(Chain!InOrder(c)) = n
  BY DEF Chain!InOrder, Chain!Positions
<1>4. n \in Nat /\ s \in X  OBVIOUS
<1> HIDE DEF step, n, X
<1>5. PICK f : f \in Courses(n, X, s, step)
  BY <1>1, <1>4, CourseExists
<1>6. f \in [0..n -> X] /\ f[0] = s /\ \A k \in 1..n : f[k] = step[<<f[k - 1], k>>]
  BY <1>5 DEF Courses
<1>7. \A k \in 1..n : f[k] = Chain!StageVisit(c, f[k - 1], k)
  <2> SUFFICES ASSUME NEW k \in 1..n PROVE f[k] = Chain!StageVisit(c, f[k - 1], k)  OBVIOUS
  <2>1. k - 1 \in 0..n  BY <1>4
  <2>2. f[k - 1] \in X  BY <1>6, <2>1
  <2> QED BY <1>2, <1>6, <2>2
<1> DEFINE op(x, i) == Chain!StageVisit(c, x, i)
           Fold(g) == g = [k \in 0..Len(Chain!InOrder(c)) |->
                             IF k = 0 THEN s ELSE op(g[k - 1], Chain!InOrder(c)[k])]
           h == CHOOSE g : Fold(g)
<1>8. Fold(f)
  <2>1. f = [k \in 0..n |-> f[k]]  BY <1>6
  <2>2. \A k \in 0..n : f[k] = IF k = 0 THEN s ELSE op(f[k - 1], Chain!InOrder(c)[k])
    <3> SUFFICES ASSUME NEW k \in 0..n, k # 0 PROVE f[k] = op(f[k - 1], Chain!InOrder(c)[k])
      BY <1>6
    <3>1. k \in 1..n  BY <1>4
    <3> QED BY <1>3, <1>7, <3>1
  <2> QED BY <1>3, <2>1, <2>2
<1>9. Fold(h)  BY <1>8
<1>10. Chain!StageSweep(c, s) = h[n]
  BY <1>3 DEF Chain!StageSweep, Chain!FoldLeft
<1>11. h = f
  <2>1. h = [k \in 0..n |-> IF k = 0 THEN s ELSE op(h[k - 1], Chain!InOrder(c)[k])]
    BY <1>3, <1>9
  <2> HIDE DEF h
  <2>2. h = [k \in 0..n |-> h[k]] /\ h[0] = s  BY <1>4, <2>1
  <2>3. \A k \in 1..n : h[k] = Chain!StageVisit(c, h[k - 1], k)
    <3>1. \A k \in 1..n : k \in 0..n /\ k # 0 /\ Chain!InOrder(c)[k] = k  BY <1>3, <1>4
    <3> QED BY <2>1, <3>1
  <2>4. \A k \in 1..n : h[k - 1] \in X => h[k] = step[<<h[k - 1], k>>]  BY <1>2, <2>3
  <2>5. Follows(n, X, s, step, h)  BY <2>2, <2>4 DEF Follows
  <2> QED BY <1>1, <1>4, <1>5, <2>5, CourseIsOne
<1> QED BY <1>4, <1>6, <1>7, <1>10, <1>11 DEF X, n

(* The sweeps of the stage loop, one by one.                               *)
LEMMA PlacedCourse ==
  ASSUME NEW c, Len(c) \in Nat, DOMAIN c = 1..Len(c), Proper(c)
  PROVE  \E f \in [0..Len(c) -> [1..Len(c) -> Nat]] :
           /\ f[0] = [i \in Chain!Positions(c) |-> Chain!Unset] /\ f[Len(c)] = Chain!Placed(c)
           /\ \A k \in 1..Len(c) : f[k] = Chain!StageSweep(c, f[k - 1])
<1> DEFINE n == Len(c)
           X == [1..Len(c) -> Nat]
           step == [p \in X \X (1..n) |-> Chain!StageSweep(c, p[1])]
<1>1. step \in [X \X (1..n) -> X]
  <2>1. \A s \in X : Chain!StageSweep(c, s) \in X
    <3> SUFFICES ASSUME NEW s \in X PROVE Chain!StageSweep(c, s) \in X  OBVIOUS
    <3>1. PICK f \in [0..Len(c) -> [1..Len(c) -> Nat]] : f[Len(c)] = Chain!StageSweep(c, s)
      BY StageSweepCourse
    <3> QED BY <3>1
  <2> QED BY <2>1
<1>2. \A x \in X, k \in 1..n : step[<<x, k>>] = Chain!StageSweep(c, x)
  OBVIOUS
<1>3. Chain!InOrder(c) = [i \in 1..n |-> i] /\ Len(Chain!InOrder(c)) = n
  BY DEF Chain!InOrder, Chain!Positions
<1>4. n \in Nat /\ [i \in Chain!Positions(c) |-> Chain!Unset] \in X  BY DEF Chain!Unset, Chain!Positions
<1> HIDE DEF step, n, X
<1>5. PICK f : f \in Courses(n, X, [i \in Chain!Positions(c) |-> Chain!Unset], step)
  BY <1>1, <1>4, CourseExists
<1>6. f \in [0..n -> X] /\ f[0] = [i \in Chain!Positions(c) |-> Chain!Unset] /\ \A k \in 1..n : f[k] = step[<<f[k - 1], k>>]
  BY <1>5 DEF Courses
<1>7. \A k \in 1..n : f[k] = Chain!StageSweep(c, f[k - 1])
  <2> SUFFICES ASSUME NEW k \in 1..n PROVE f[k] = Chain!StageSweep(c, f[k - 1])  OBVIOUS
  <2>1. k - 1 \in 0..n  BY <1>4
  <2>2. f[k - 1] \in X  BY <1>6, <2>1
  <2> QED BY <1>2, <1>6, <2>2
<1> DEFINE op(x, i) == Chain!StageSweep(c, x)
           Fold(g) == g = [k \in 0..Len(Chain!InOrder(c)) |->
                             IF k = 0 THEN [i \in Chain!Positions(c) |-> Chain!Unset] ELSE op(g[k - 1], Chain!InOrder(c)[k])]
           h == CHOOSE g : Fold(g)
<1>8. Fold(f)
  <2>1. f = [k \in 0..n |-> f[k]]  BY <1>6
  <2>2. \A k \in 0..n : f[k] = IF k = 0 THEN [i \in Chain!Positions(c) |-> Chain!Unset] ELSE op(f[k - 1], Chain!InOrder(c)[k])
    <3> SUFFICES ASSUME NEW k \in 0..n, k # 0 PROVE f[k] = op(f[k - 1], Chain!InOrder(c)[k])
      BY <1>6
    <3>1. k \in 1..n  BY <1>4
    <3> QED BY <1>3, <1>7, <3>1
  <2> QED BY <1>3, <2>1, <2>2
<1>9. Fold(h)  BY <1>8
<1>10. Chain!Placed(c) = h[n]
  BY <1>3 DEF Chain!Placed, Chain!FoldLeft
<1>11. h = f
  <2>1. h = [k \in 0..n |-> IF k = 0 THEN [i \in Chain!Positions(c) |-> Chain!Unset] ELSE op(h[k - 1], Chain!InOrder(c)[k])]
    BY <1>3, <1>9
  <2> HIDE DEF h
  <2>2. h = [k \in 0..n |-> h[k]] /\ h[0] = [i \in Chain!Positions(c) |-> Chain!Unset]  BY <1>4, <2>1
  <2>3. \A k \in 1..n : h[k] = Chain!StageSweep(c, h[k - 1])
    <3>1. \A k \in 1..n : k \in 0..n /\ k # 0 /\ Chain!InOrder(c)[k] = k  BY <1>3, <1>4
    <3> QED BY <2>1, <3>1
  <2>4. \A k \in 1..n : h[k - 1] \in X => h[k] = step[<<h[k - 1], k>>]  BY <1>2, <2>3
  <2>5. Follows(n, X, [i \in Chain!Positions(c) |-> Chain!Unset], step, h)  BY <2>2, <2>4 DEF Follows
  <2> QED BY <1>1, <1>4, <1>5, <2>5, CourseIsOne
<1> QED BY <1>4, <1>6, <1>7, <1>10, <1>11 DEF X, n

-----------------------------------------------------------------------------
(* What the loops come to.                                                 *)

(* The nodes whose names are taken.                                        *)
TakenPlaces(c, t) == {i \in Places(c) : c[i].id \in t}

(* Taking off a name takes its place.                                      *)
LEMMA TakingByPlace ==
  ASSUME NEW c, Proper(c), NEW t \in SUBSET NamesOf(c), NEW i \in Places(c)
  PROVE  TakenPlaces(c, Chain!TakeOff(c, t, i)) =
           IF Needs(c, i) \subseteq TakenPlaces(c, t) THEN TakenPlaces(c, t) \union {i} ELSE TakenPlaces(c, t)
<1>1. c[i].deps \subseteq t <=> Needs(c, i) \subseteq TakenPlaces(c, t)
  <2>1. ASSUME c[i].deps \subseteq t PROVE Needs(c, i) \subseteq TakenPlaces(c, t)
    BY <2>1 DEF Needs, TakenPlaces
  <2>2. ASSUME Needs(c, i) \subseteq TakenPlaces(c, t) PROVE c[i].deps \subseteq t
    <3> SUFFICES ASSUME NEW d \in c[i].deps PROVE d \in t  OBVIOUS
    <3>1. PICK j \in Places(c) : c[j].id = d  BY DEF Proper
    <3>2. j \in Needs(c, i)  BY <3>1 DEF Needs
    <3> QED BY <2>2, <3>1, <3>2 DEF TakenPlaces
  <2> QED BY <2>1, <2>2
<1>2. TakenPlaces(c, t \union {c[i].id}) = TakenPlaces(c, t) \union {i}
  <2>1. \A j \in Places(c) : c[j].id = c[i].id <=> j = i  BY DEF Proper
  <2> QED BY <2>1 DEF TakenPlaces
<1> QED BY <1>1, <1>2 DEF Chain!TakeOff

(* A sweep of the cycle check, on places.                                  *)
LEMMA TakeOffSweepSweeps ==
  ASSUME NEW c, Proper(c), NEW t \in SUBSET NamesOf(c)
  PROVE  Sweeps(c, TakenPlaces(c, t), TakenPlaces(c, Chain!TakeOffSweep(c, t)))
<1>1. Len(c) \in Nat /\ DOMAIN c = 1..Len(c) /\ Places(c) = 1..Len(c)  BY DEF Proper, Places
<1>2. PICK f \in [0..Len(c) -> SUBSET NamesOf(c)] :
        /\ f[0] = t /\ f[Len(c)] = Chain!TakeOffSweep(c, t)
        /\ \A k \in 1..Len(c) : f[k] = Chain!TakeOff(c, f[k - 1], k)
  BY <1>1, TakeOffSweepCourse
<1> DEFINE e == [k \in 0..Len(c) |-> TakenPlaces(c, f[k])]
<1>3. e \in [0..Len(c) -> SUBSET Places(c)]  BY DEF TakenPlaces
<1>4. e[0] = TakenPlaces(c, t) /\ e[Len(c)] = TakenPlaces(c, Chain!TakeOffSweep(c, t))  BY <1>1, <1>2
<1>5. ASSUME NEW i \in Places(c)
      PROVE  e[i] = IF Needs(c, i) \subseteq e[i - 1] THEN e[i - 1] \union {i} ELSE e[i - 1]
  <2>1. i \in 0..Len(c) /\ i - 1 \in 0..Len(c) /\ i \in 1..Len(c)  BY <1>1
  <2>2. e[i] = TakenPlaces(c, f[i]) /\ e[i - 1] = TakenPlaces(c, f[i - 1])  BY <2>1
  <2>3. f[i] = Chain!TakeOff(c, f[i - 1], i) /\ f[i - 1] \in SUBSET NamesOf(c)  BY <1>2, <2>1
  <2> HIDE DEF e
  <2> QED BY <2>2, <2>3, TakingByPlace
<1> HIDE DEF e
<1> QED BY <1>3, <1>4, <1>5 DEF Sweeps

(* The cycle check sweeps out the chain.                                   *)
LEMMA ResolvedSweepsOut ==
  ASSUME NEW c, Proper(c)
  PROVE  SweepsOut(c, TakenPlaces(c, Chain!Resolved(c)))
<1>1. Len(c) \in Nat /\ DOMAIN c = 1..Len(c) /\ Places(c) = 1..Len(c)  BY DEF Proper, Places
<1>2. PICK f \in [0..Len(c) -> SUBSET NamesOf(c)] :
        /\ f[0] = {} /\ f[Len(c)] = Chain!Resolved(c)
        /\ \A k \in 1..Len(c) : f[k] = Chain!TakeOffSweep(c, f[k - 1])
  BY <1>1, ResolvedCourse
<1> DEFINE a == [k \in 0..Len(c) |-> TakenPlaces(c, f[k])]
<1>3. a \in [0..Len(c) -> SUBSET Places(c)]  BY DEF TakenPlaces
<1>4. a[0] = {} /\ a[Len(c)] = TakenPlaces(c, Chain!Resolved(c))
  <2>1. TakenPlaces(c, {}) = {}  BY DEF TakenPlaces
  <2>2. 0 \in 0..Len(c) /\ Len(c) \in 0..Len(c)  BY <1>1
  <2>3. a[0] = TakenPlaces(c, f[0]) /\ a[Len(c)] = TakenPlaces(c, f[Len(c)])  BY <2>2
  <2> HIDE DEF a
  <2> QED BY <1>2, <2>1, <2>3
<1>5. ASSUME NEW k \in Places(c) PROVE Sweeps(c, a[k - 1], a[k])
  <2>1. k \in 0..Len(c) /\ k - 1 \in 0..Len(c) /\ k \in 1..Len(c)  BY <1>1
  <2>2. a[k] = TakenPlaces(c, f[k]) /\ a[k - 1] = TakenPlaces(c, f[k - 1])  BY <2>1
  <2>3. f[k] = Chain!TakeOffSweep(c, f[k - 1]) /\ f[k - 1] \in SUBSET NamesOf(c)  BY <1>2, <2>1
  <2> HIDE DEF a
  <2> QED BY <2>2, <2>3, TakeOffSweepSweeps
<1> HIDE DEF a
<1> QED BY <1>3, <1>4, <1>5 DEF SweepsOut

(* A sweep of the stage loop, on places.                                   *)
LEMMA StageSweepSweeps ==
  ASSUME NEW c, Proper(c), NEW s \in [Places(c) -> Nat], WellSet(c, s)
  PROVE  /\ Chain!StageSweep(c, s) \in [Places(c) -> Nat]
         /\ WellSet(c, Chain!StageSweep(c, s))
         /\ Sweeps(c, SetOnes(c, s), SetOnes(c, Chain!StageSweep(c, s)))
<1>1. Len(c) \in Nat /\ DOMAIN c = 1..Len(c) /\ Places(c) = 1..Len(c)  BY DEF Proper, Places
<1>2. PICK f \in [0..Len(c) -> [1..Len(c) -> Nat]] :
        /\ f[0] = s /\ f[Len(c)] = Chain!StageSweep(c, s)
        /\ \A k \in 1..Len(c) : f[k] = Chain!StageVisit(c, f[k - 1], k)
  BY <1>1, StageSweepCourse
<1> DEFINE n == Len(c)
           Off == {k \in 0..n : ~WellSet(c, f[k])}
<1>3. Off = {}
  <2> SUFFICES ASSUME Off # {} PROVE FALSE  OBVIOUS
  <2>1. PICK k \in Off : \A m \in Off : k =< m
    <3>1. Off \in SUBSET Nat  BY <1>1
    <3> HIDE DEF Off
    <3> QED BY <3>1, SmallestOf
  <2>2. k \in 0..n /\ ~WellSet(c, f[k])  OBVIOUS
  <2>3. k # 0  BY <1>2, <2>2
  <2>4. k \in 1..n /\ k - 1 \in 0..n /\ ~(k =< k - 1)  BY <1>1, <2>2, <2>3
  <2>5. WellSet(c, f[k - 1])  BY <2>1, <2>4
  <2>6. k \in Places(c) /\ f[k - 1] \in [Places(c) -> Nat]  BY <1>1, <1>2, <2>4
  <2>7. f[k] = Chain!StageVisit(c, f[k - 1], k)  BY <1>2, <2>4
  <2> HIDE DEF Off
  <2> QED BY <2>2, <2>5, <2>6, <2>7, VisitSets
<1> DEFINE e == [k \in 0..n |-> SetOnes(c, f[k])]
<1>4. e \in [0..n -> SUBSET Places(c)]  BY DEF SetOnes
<1>5. 0 \in 0..n /\ n \in 0..n  BY <1>1
<1>6. e[0] = SetOnes(c, s) /\ e[n] = SetOnes(c, Chain!StageSweep(c, s))  BY <1>2, <1>5
<1>7. ASSUME NEW i \in Places(c)
      PROVE  e[i] = IF Needs(c, i) \subseteq e[i - 1] THEN e[i - 1] \union {i} ELSE e[i - 1]
  <2>1. i \in 0..n /\ i - 1 \in 0..n /\ i \in 1..n  BY <1>1
  <2>2. e[i] = SetOnes(c, f[i]) /\ e[i - 1] = SetOnes(c, f[i - 1])  BY <2>1
  <2>3. f[i] = Chain!StageVisit(c, f[i - 1], i) /\ f[i - 1] \in [Places(c) -> Nat]  BY <1>1, <1>2, <2>1
  <2>4. WellSet(c, f[i - 1])  BY <1>3, <2>1
  <2> DEFINE u == f[i - 1]
  <2>5. u \in [Places(c) -> Nat] /\ WellSet(c, u)  BY <2>3, <2>4
  <2> HIDE DEF e, u
  <2>6. SetOnes(c, Chain!StageVisit(c, u, i)) =
          IF Needs(c, i) \subseteq SetOnes(c, u) THEN SetOnes(c, u) \union {i} ELSE SetOnes(c, u)
    BY <2>5, VisitSets
  <2> QED BY <2>2, <2>3, <2>6 DEF u
<1>8. WellSet(c, f[n]) /\ f[n] \in [Places(c) -> Nat]  BY <1>1, <1>2, <1>3, <1>5
<1> HIDE DEF e, Off
<1>9. Sweeps(c, SetOnes(c, s), SetOnes(c, Chain!StageSweep(c, s)))  BY <1>4, <1>6, <1>7 DEF Sweeps
<1> QED BY <1>2, <1>8, <1>9

(* The stage loop sweeps out the chain.                                    *)
LEMMA PlacedSweepsOut ==
  ASSUME NEW c, Proper(c)
  PROVE  /\ Chain!Placed(c) \in [Places(c) -> Nat]
         /\ WellSet(c, Chain!Placed(c))
         /\ SweepsOut(c, SetOnes(c, Chain!Placed(c)))
<1>1. Len(c) \in Nat /\ DOMAIN c = 1..Len(c) /\ Places(c) = 1..Len(c)  BY DEF Proper, Places
<1>2. PICK f \in [0..Len(c) -> [1..Len(c) -> Nat]] :
        /\ f[0] = [i \in Chain!Positions(c) |-> Chain!Unset] /\ f[Len(c)] = Chain!Placed(c)
        /\ \A k \in 1..Len(c) : f[k] = Chain!StageSweep(c, f[k - 1])
  BY <1>1, PlacedCourse
<1> DEFINE n == Len(c)
           Off == {k \in 0..n : ~WellSet(c, f[k])}
<1>3. SetOnes(c, f[0]) = {}  BY <1>1, <1>2 DEF SetOnes, Chain!Positions, Chain!Unset
<1>4. Off = {}
  <2> SUFFICES ASSUME Off # {} PROVE FALSE  OBVIOUS
  <2>1. PICK k \in Off : \A m \in Off : k =< m
    <3>1. Off \in SUBSET Nat  BY <1>1
    <3> HIDE DEF Off
    <3> QED BY <3>1, SmallestOf
  <2>2. k \in 0..n /\ ~WellSet(c, f[k])  OBVIOUS
  <2>3. k # 0  BY <1>3, <2>2 DEF WellSet
  <2>4. k \in 1..n /\ k - 1 \in 0..n /\ ~(k =< k - 1)  BY <1>1, <2>2, <2>3
  <2>5. WellSet(c, f[k - 1])  BY <2>1, <2>4
  <2>6. f[k - 1] \in [Places(c) -> Nat]  BY <1>1, <1>2, <2>4
  <2>7. f[k] = Chain!StageSweep(c, f[k - 1])  BY <1>2, <2>4
  <2> HIDE DEF Off
  <2> QED BY <2>2, <2>5, <2>6, <2>7, StageSweepSweeps
<1> DEFINE a == [k \in 0..n |-> SetOnes(c, f[k])]
<1>5. a \in [0..n -> SUBSET Places(c)]  BY DEF SetOnes
<1>6. 0 \in 0..n /\ n \in 0..n  BY <1>1
<1>7. a[0] = {} /\ a[n] = SetOnes(c, Chain!Placed(c))  BY <1>2, <1>3, <1>6
<1>8. ASSUME NEW k \in Places(c) PROVE Sweeps(c, a[k - 1], a[k])
  <2>1. k \in 0..n /\ k - 1 \in 0..n /\ k \in 1..n  BY <1>1
  <2>2. a[k] = SetOnes(c, f[k]) /\ a[k - 1] = SetOnes(c, f[k - 1])  BY <2>1
  <2>3. f[k] = Chain!StageSweep(c, f[k - 1]) /\ f[k - 1] \in [Places(c) -> Nat]  BY <1>1, <1>2, <2>1
  <2>4. WellSet(c, f[k - 1])  BY <1>4, <2>1
  <2> HIDE DEF a
  <2> QED BY <2>2, <2>3, <2>4, StageSweepSweeps
<1>9. WellSet(c, f[n]) /\ f[n] \in [Places(c) -> Nat]  BY <1>1, <1>2, <1>4, <1>6
<1> HIDE DEF a, Off
<1>10. SweepsOut(c, SetOnes(c, Chain!Placed(c)))  BY <1>5, <1>7, <1>8 DEF SweepsOut
<1> QED BY <1>2, <1>9, <1>10

-----------------------------------------------------------------------------
(* What the check lets through.                                            *)

(* Nodes can be ranked exactly when the check takes all of them off, and   *)
(* then the stage loop places all of them.                                 *)
LEMMA TakenIsOrdered ==
  ASSUME NEW c, Proper(c)
  PROVE  /\ TakenPlaces(c, Chain!Resolved(c)) = Places(c) =>
              \E r \in [Places(c) -> Places(c)] :
                \A i \in Places(c) : \A j \in Needs(c, i) : r[j] < r[i]
         /\ \A r \in [Places(c) -> Nat] :
              (\A i \in Places(c) : \A j \in Needs(c, i) : r[j] < r[i])
                => TakenPlaces(c, Chain!Resolved(c)) = Places(c) /\ SetOnes(c, Chain!Placed(c)) = Places(c)
<1>0. Len(c) \in Nat /\ Places(c) = 1..Len(c)  BY DEF Proper, Places
<1> DEFINE D == TakenPlaces(c, Chain!Resolved(c))
           E == SetOnes(c, Chain!Placed(c))
<1>1. SweepsOut(c, D) /\ SweepsOut(c, E)  BY ResolvedSweepsOut, PlacedSweepsOut
<1> HIDE DEF D, E
<1>2. D \in SUBSET Places(c) /\ NothingLeft(c, D) /\ Ranked(c, D)  BY <1>0, <1>1, SweepsOutCloses
<1>3. E \in SUBSET Places(c) /\ NothingLeft(c, E)  BY <1>0, <1>1, SweepsOutCloses
<1>4. ASSUME D = Places(c)
      PROVE  \E r \in [Places(c) -> Places(c)] :
               \A i \in Places(c) : \A j \in Needs(c, i) : r[j] < r[i]
  <2>1. Cardinality(D) = Len(c)
    <3>1. 1 \in Int /\ Len(c) \in Int  BY <1>0
    <3>2. Cardinality(1..Len(c)) = IF 1 > Len(c) THEN 0 ELSE Len(c) - 1 + 1
      BY <3>1, FS_Interval
    <3> QED BY <1>0, <1>4, <3>2
  <2> QED BY <1>0, <1>2, <1>4, <2>1 DEF Ranked
<1>5. ASSUME NEW r \in [Places(c) -> Nat],
             \A i \in Places(c) : \A j \in Needs(c, i) : r[j] < r[i]
      PROVE  D = Places(c) /\ E = Places(c)
  BY <1>0, <1>2, <1>3, <1>5, OrderedIsTaken
<1> QED BY <1>4, <1>5 DEF D, E

(* A chain that is let through is proper and ordered, every node of it is   *)
(* placed one above the highest it waits for, and no stage is above a       *)
(* rank.                                                                   *)
Ordered(c) ==
  \E r \in [Places(c) -> Places(c)] : \A i \in Places(c) : \A j \in Needs(c, i) : r[j] < r[i]
StagesBuildUp(c, s) ==
  /\ s \in [Places(c) -> Places(c)]
  /\ \A i \in Places(c) : s[i] = 1 + Chain!Max(Heights(s, Needs(c, i)))

(* Where every place has its stage, no stage is above any rank.            *)
LEMMA StagesAreLow ==
  ASSUME NEW c, Proper(c), NEW s \in [Places(c) -> Nat],
         \A i \in Places(c) : s[i] = 1 + Chain!Max(Heights(s, Needs(c, i))),
         NEW r \in [Places(c) -> Places(c)],
         \A i \in Places(c) : \A j \in Needs(c, i) : r[j] < r[i]
  PROVE  \A i \in Places(c) : s[i] =< r[i] /\ \A j \in Needs(c, i) : s[j] < s[i]
<1>0. Len(c) \in Nat /\ Places(c) = 1..Len(c)  BY DEF Proper, Places
<1>1. ASSUME NEW i \in Places(c)
      PROVE  /\ Needs(c, i) \in SUBSET Places(c)
             /\ \A j \in Needs(c, i) : s[j] < s[i]
             /\ s[i] = 1 \/ \E j \in Needs(c, i) : s[i] = 1 + s[j]
  <2>1. Needs(c, i) \in SUBSET (1..Len(c)) /\ s \in [1..Len(c) -> Nat]
    BY <1>0 DEF Needs
  <2> DEFINE M == Chain!Max(Heights(s, Needs(c, i)))
  <2>2. /\ M \in Nat /\ (M = 0 \/ \E j \in Needs(c, i) : M = s[j])
        /\ \A j \in Needs(c, i) : s[j] =< M
    BY <1>0, <2>1, HighestOf
  <2>3. s[i] = 1 + M  OBVIOUS
  <2> HIDE DEF M
  <2>4. \A j \in Needs(c, i) : s[j] \in Nat  BY <2>1
  <2> QED BY <1>0, <2>1, <2>2, <2>3, <2>4
<1> DEFINE Off == {m \in 1..Len(c) : \E i \in Places(c) : r[i] = m /\ ~(s[i] =< r[i])}
<1>2. Off = {}
  <2> SUFFICES ASSUME Off # {} PROVE FALSE  OBVIOUS
  <2>1. PICK m \in Off : \A k \in Off : m =< k
    <3>1. Off \in SUBSET Nat  BY <1>0
    <3> HIDE DEF Off
    <3> QED BY <3>1, SmallestOf
  <2>2. PICK i \in Places(c) : r[i] = m /\ ~(s[i] =< r[i])  OBVIOUS
  <2>3. m \in Nat /\ m >= 1 /\ s[i] \in Nat  BY <1>0, <2>2
  <2>4. PICK j \in Needs(c, i) : s[i] = 1 + s[j]  BY <1>1, <2>2, <2>3
  <2>5. j \in Places(c) /\ r[j] < r[i]  BY <1>1, <2>4
  <2>6. r[j] \in 1..Len(c) /\ s[j] \in Nat  BY <1>0, <2>5
  <2>7. s[j] =< r[j]
    <3>1. r[j] \notin Off
      <4> HIDE DEF Off
      <4> QED BY <2>1, <2>2, <2>3, <2>5, <2>6
    <3> QED BY <2>5, <2>6, <3>1
  <2> HIDE DEF Off
  <2> QED BY <2>2, <2>3, <2>4, <2>5, <2>6, <2>7
<1>3. \A i \in Places(c) : s[i] =< r[i]
  <2>1. \A i \in Places(c) : r[i] \in 1..Len(c)  BY <1>0
  <2> QED BY <1>2, <2>1
<1> HIDE DEF Off
<1> QED BY <1>1, <1>3

(* The stages of an ordered chain.                                         *)
LEMMA StagesOfOrdered ==
  ASSUME NEW c, Proper(c), Ordered(c)
  PROVE  StagesBuildUp(c, Chain!Stages(c)) /\ TakenPlaces(c, Chain!Resolved(c)) = Places(c)
<1>0. Len(c) \in Nat /\ Places(c) = 1..Len(c) /\ Chain!Positions(c) = Places(c)
  BY DEF Proper, Places, Chain!Positions
<1>1. PICK r \in [Places(c) -> Places(c)] :
        \A i \in Places(c) : \A j \in Needs(c, i) : r[j] < r[i]
  BY DEF Ordered
<1>2. r \in [Places(c) -> Nat]  BY <1>0
<1>3. TakenPlaces(c, Chain!Resolved(c)) = Places(c) /\ SetOnes(c, Chain!Placed(c)) = Places(c)
  BY <1>1, <1>2, TakenIsOrdered
<1> DEFINE s == Chain!Placed(c)
<1>4. s \in [Places(c) -> Nat] /\ WellSet(c, s)  BY PlacedSweepsOut
<1> HIDE DEF s
<1>5. SetOnes(c, s) = Places(c)  BY <1>3 DEF s
<1>6. \A i \in Places(c) : s[i] # 0 /\ s[i] = 1 + Chain!Max(Heights(s, Needs(c, i)))
  BY <1>4, <1>5 DEF WellSet, SetOnes
<1>7. Chain!Stages(c) = s
  <2>1. Chain!Stages(c) = [i \in Places(c) |-> IF s[i] = Chain!Unset THEN 1 ELSE s[i]]
    BY <1>0 DEF Chain!Stages, s
  <2>2. \A i \in Places(c) : (IF s[i] = Chain!Unset THEN 1 ELSE s[i]) = s[i]  BY <1>6 DEF Chain!Unset
  <2>3. Chain!Stages(c) = [i \in Places(c) |-> s[i]]  BY <2>1, <2>2
  <2> QED BY <1>4, <2>3
<1>8. \A i \in Places(c) : s[i] =< r[i]  BY <1>1, <1>4, <1>6, StagesAreLow
<1>9. \A i \in Places(c) : s[i] \in 1..Len(c)
  <2>1. \A i \in Places(c) : s[i] \in Nat /\ r[i] \in 1..Len(c)  BY <1>0, <1>1, <1>4
  <2> QED BY <1>0, <1>6, <1>8, <2>1
<1>10. s \in [Places(c) -> Places(c)]  BY <1>0, <1>4, <1>9
<1> QED BY <1>3, <1>6, <1>7, <1>10 DEF StagesBuildUp

(* Chains whose nodes wait for the same have the same stages.              *)
LEMMA StagesAreOne ==
  ASSUME NEW c, Proper(c), Ordered(c), NEW d, Proper(d), Len(c) = Len(d),
         \A i \in Places(c) : Needs(c, i) = Needs(d, i)
  PROVE  Chain!Stages(c) = Chain!Stages(d)
<1>0. Len(c) \in Nat /\ Places(c) = 1..Len(c) /\ Places(d) = Places(c)  BY DEF Proper, Places
<1>1. Ordered(d)  BY <1>0 DEF Ordered
<1> DEFINE s == Chain!Stages(c)
           t == Chain!Stages(d)
<1>2. StagesBuildUp(c, s) /\ StagesBuildUp(d, t)  BY <1>1, StagesOfOrdered
<1> HIDE DEF s, t
<1>3. /\ s \in [Places(c) -> Places(c)]
      /\ \A i \in Places(c) : s[i] = 1 + Chain!Max(Heights(s, Needs(c, i)))
  BY <1>2 DEF StagesBuildUp
<1>4. /\ t \in [Places(c) -> Places(c)]
      /\ \A i \in Places(c) : t[i] = 1 + Chain!Max(Heights(t, Needs(c, i)))
  BY <1>0, <1>2 DEF StagesBuildUp
<1>5. s \in [Places(c) -> Nat] /\ t \in [Places(c) -> Nat]  BY <1>0, <1>3, <1>4
<1>6. PICK r \in [Places(c) -> Places(c)] :
        \A i \in Places(c) : \A j \in Needs(c, i) : r[j] < r[i]
  BY DEF Ordered
<1>7. /\ \A i \in Places(c) : \A j \in Needs(c, i) : s[j] < s[i]
      /\ \A i \in Places(c) : \A j \in Needs(c, i) : t[j] < t[i]
  BY <1>3, <1>4, <1>5, <1>6, StagesAreLow
<1>8. \A i \in Places(c) : s[i] =< t[i]  BY <1>3, <1>4, <1>5, <1>7, StagesAreLow
<1>9. \A i \in Places(c) : t[i] =< s[i]  BY <1>3, <1>4, <1>5, <1>7, StagesAreLow
<1>10. \A i \in Places(c) : s[i] \in Nat /\ t[i] \in Nat  BY <1>5
<1>11. \A i \in Places(c) : s[i] = t[i]  BY <1>8, <1>9, <1>10
<1>12. s = t  BY <1>3, <1>4, <1>11
<1> QED BY <1>12 DEF s, t

(* A chain: a sequence of nodes.                                           *)
Listed(c) ==
  /\ Len(c) \in Nat /\ DOMAIN c = 1..Len(c)
  /\ c = <<>> <=> Len(c) = 0

(* The check in terms of places.                                           *)
LEMMA ConsistentByPlace ==
  ASSUME NEW c, Listed(c), NEW R
  PROVE  Chain!Consistent(c, R) <=>
           /\ Len(c) > 0 /\ Proper(c) /\ Ordered(c)
           /\ \A i \in Places(c) : c[i].assignee \in R
<1>0. Len(c) \in Nat /\ Places(c) = 1..Len(c) /\ Chain!Positions(c) = Places(c) /\ DOMAIN c = Places(c)
  BY DEF Listed, Places, Chain!Positions
<1>1. \A d : Chain!Known(c, d) <=> \E j \in Places(c) : c[j].id = d
  BY <1>0 DEF Chain!Known, Chain!Carriers
<1>2. c # <<>> <=> Len(c) > 0  BY DEF Listed
<1>3. Proper(c) <=>
        /\ \A i, j \in Places(c) : c[i].id = c[j].id => i = j
        /\ \A i \in Places(c) : \A d \in c[i].deps : Chain!Known(c, d)
  BY <1>0, <1>1 DEF Proper
<1>4. Chain!Consistent(c, R) <=>
        /\ Len(c) > 0 /\ Proper(c)
        /\ \A i \in Places(c) : c[i].assignee \in R
        /\ \A i \in Places(c) : c[i].id \in Chain!Resolved(c)
  BY <1>0, <1>2, <1>3 DEF Chain!Consistent
<1>5. (\A i \in Places(c) : c[i].id \in Chain!Resolved(c)) <=> TakenPlaces(c, Chain!Resolved(c)) = Places(c)
  BY DEF TakenPlaces
<1>6. ASSUME Proper(c) PROVE TakenPlaces(c, Chain!Resolved(c)) = Places(c) <=> Ordered(c)
  <2>1. ASSUME TakenPlaces(c, Chain!Resolved(c)) = Places(c) PROVE Ordered(c)
    BY <1>6, <2>1, TakenIsOrdered DEF Ordered
  <2>2. ASSUME Ordered(c) PROVE TakenPlaces(c, Chain!Resolved(c)) = Places(c)
    BY <1>6, <2>2, StagesOfOrdered
  <2> QED BY <2>1, <2>2
<1> QED BY <1>4, <1>5, <1>6

(* Counting names tells whether they differ.                               *)
LEMMA DistinctByCount ==
  ASSUME NEW c, Listed(c)
  PROVE  Cardinality({c[i].id : i \in Places(c)}) = Len(c)
           <=> \A i, j \in Places(c) : c[i].id = c[j].id => i = j
<1> DEFINE T == {c[i].id : i \in Places(c)}
           f == [i \in Places(c) |-> c[i].id]
<1>0. Len(c) \in Nat /\ Places(c) = 1..Len(c)  BY DEF Listed, Places
<1>1. IsFiniteSet(Places(c)) /\ Cardinality(Places(c)) = Len(c)
  <2>1. 1 \in Int /\ Len(c) \in Int  BY <1>0
  <2>2. IsFiniteSet(1..Len(c)) /\ Cardinality(1..Len(c)) = IF 1 > Len(c) THEN 0 ELSE Len(c) - 1 + 1
    BY <2>1, FS_Interval
  <2> QED BY <1>0, <2>2
<1>2. f \in Surjection(Places(c), T)  BY DEF Surjection
<1>3. f \in Injection(Places(c), T) <=> \A i, j \in Places(c) : c[i].id = c[j].id => i = j
  BY DEF Injection, IsInjective
<1> HIDE DEF T, f
<1>4. Cardinality(T) = Cardinality(Places(c)) <=> f \in Injection(Places(c), T)
  BY <1>1, <1>2, FS_Surjection, Zenon
<1> QED BY <1>1, <1>3, <1>4 DEF T

(* The order of the graph, as the reference has it.                        *)
LEMMA AcyclicIsOrdered ==
  ASSUME NEW c, Listed(c)
  PROVE  Chain!Acyclic(c) <=> Ordered(c)
<1>1. Chain!Positions(c) = Places(c)  BY DEF Listed, Chain!Positions, Places
<1>2. \A i, j \in Places(c) : Chain!DependsOn(c, i, j) <=> j \in Needs(c, i)  BY DEF Chain!DependsOn, Needs
<1>3. \A i, j : j \in Needs(c, i) => j \in Places(c)  BY DEF Needs
<1> QED BY <1>1, <1>2, <1>3 DEF Chain!Acyclic, Ordered

(* Drafts are chains.                                                      *)
LEMMA DraftsAreListed ==
  ASSUME draft \in Chain!Drafts
  PROVE  Listed(draft)
<1>1. PICK n \in 0..Largest : draft \in [1..n -> Chain!Node]  BY DEF Chain!Drafts
<1>2. n \in Nat  OBVIOUS
<1>3. Len(draft) = n /\ DOMAIN draft = 1..n  BY <1>1, <1>2
<1>4. draft = <<>> <=> n = 0
  <2>1. ASSUME n = 0 PROVE draft = <<>>
    <3>1. draft \in Seq(Chain!Node) /\ Len(draft) = 0  BY <1>1, <1>3, <2>1
    <3> QED BY <3>1, EmptySeq
  <2>2. ASSUME draft = <<>> PROVE n = 0  BY <1>3, <2>2
  <2> QED BY <2>1, <2>2
<1> QED BY <1>2, <1>3, <1>4 DEF Listed

(* The check lets through what it should.                                  *)
LEMMA DoorHolds ==
  ASSUME draft \in Chain!Drafts
  PROVE  Chain!DoorIsExact
<1> DEFINE c == draft
<1>0. Listed(c)  BY DraftsAreListed
<1> HIDE DEF c
<1>1. Len(c) \in Nat /\ Places(c) = 1..Len(c) /\ Chain!Positions(c) = Places(c) /\ DOMAIN c = Places(c)
  BY <1>0 DEF Listed, Places, Chain!Positions
<1>2. Chain!Consistent(c, Present) <=>
        /\ Len(c) > 0 /\ Proper(c) /\ Ordered(c)
        /\ \A i \in Places(c) : c[i].assignee \in Present
  BY <1>0, ConsistentByPlace
<1>3. Cardinality({c[i].id : i \in Places(c)}) = Len(c)
           <=> \A i, j \in Places(c) : c[i].id = c[j].id => i = j
  BY <1>0, DistinctByCount
<1>4. Chain!Acyclic(c) <=> Ordered(c)  BY <1>0, AcyclicIsOrdered
<1>5. Proper(c) <=>
        /\ \A i, j \in Places(c) : c[i].id = c[j].id => i = j
        /\ \A i \in Places(c) : c[i].deps \subseteq {c[j].id : j \in Places(c)}
  BY <1>1 DEF Proper
<1>6. Chain!Consistent(c, Present) <=>
        /\ Len(c) > 0
        /\ Cardinality({c[i].id : i \in Places(c)}) = Len(c)
        /\ \A i \in Places(c) :
             /\ c[i].assignee \in Present
             /\ c[i].deps \subseteq {c[j].id : j \in Places(c)}
        /\ Chain!Acyclic(c)
  BY <1>2, <1>3, <1>4, <1>5
<1> QED BY <1>1, <1>6, ChainCount DEF Chain!DoorIsExact, c

-----------------------------------------------------------------------------
(* A stage is the length of the longest walk to its node.                  *)

(* The stages one below another; the first is 1.                           *)
LEMMA StagesStep ==
  ASSUME NEW c, Proper(c), NEW s, StagesBuildUp(c, s)
  PROVE  \A i \in Places(c) :
           /\ s[i] \in 1..Len(c)
           /\ \A j \in Needs(c, i) : j \in Places(c) /\ s[j] < s[i]
           /\ s[i] = 1 \/ \E j \in Needs(c, i) : s[i] = 1 + s[j]
<1>0. Len(c) \in Nat /\ Places(c) = 1..Len(c)  BY DEF Proper, Places
<1> SUFFICES ASSUME NEW i \in Places(c)
             PROVE  /\ s[i] \in 1..Len(c)
                    /\ \A j \in Needs(c, i) : j \in Places(c) /\ s[j] < s[i]
                    /\ s[i] = 1 \/ \E j \in Needs(c, i) : s[i] = 1 + s[j]
  OBVIOUS
<1>1. Needs(c, i) \in SUBSET (1..Len(c)) /\ s \in [1..Len(c) -> 1..Len(c)]
  BY <1>0 DEF Needs, StagesBuildUp
<1>2. s \in [1..Len(c) -> Nat]  BY <1>0, <1>1
<1> DEFINE M == Chain!Max(Heights(s, Needs(c, i)))
<1>3. /\ M \in Nat /\ (M = 0 \/ \E j \in Needs(c, i) : M = s[j])
      /\ \A j \in Needs(c, i) : s[j] =< M
  BY <1>0, <1>1, <1>2, HighestOf
<1>4. s[i] = 1 + M  BY DEF StagesBuildUp
<1> HIDE DEF M
<1>5. \A j \in Needs(c, i) : s[j] \in Nat /\ j \in Places(c)  BY <1>0, <1>1, <1>2
<1>6. s[i] \in 1..Len(c)  BY <1>0, <1>1
<1> QED BY <1>3, <1>4, <1>5, <1>6

(* The walks to a node.                                                    *)
LEMMA WalksAre ==
  ASSUME NEW c, Listed(c), NEW i \in Places(c), NEW w
  PROVE  w \in Chain!Walks(c, i) <=>
           \E k \in Places(c) :
             /\ w \in [1..k -> Places(c)] /\ Len(w) = k /\ w[k] = i
             /\ \A m \in 2..k : w[m - 1] \in Needs(c, w[m])
<1>0. Len(c) \in Nat /\ Places(c) = 1..Len(c) /\ Chain!Positions(c) = Places(c)
  BY DEF Listed, Places, Chain!Positions
<1>1. \A p, q : Chain!DependsOn(c, p, q) /\ q \in Places(c) <=> q \in Needs(c, p)
  BY DEF Chain!DependsOn, Needs
<1>2. \A k \in Places(c) : w \in [1..k -> Places(c)] => Len(w) = k
  BY <1>0
<1>3. w \in Chain!Walks(c, i) <=>
        \E k \in 1..Len(c) :
          /\ w \in [1..k -> Places(c)] /\ w[Len(w)] = i
          /\ \A m \in 2..Len(w) : Chain!DependsOn(c, w[m], w[m - 1])
  BY <1>0 DEF Chain!Walks
<1>4. ASSUME NEW k \in Places(c), w \in [1..k -> Places(c)]
      PROVE  \A m \in 2..k : Chain!DependsOn(c, w[m], w[m - 1]) <=> w[m - 1] \in Needs(c, w[m])
  <2>1. \A m \in 2..k : m - 1 \in 1..k  BY <1>0
  <2>2. \A m \in 2..k : w[m - 1] \in Places(c)  BY <1>4, <2>1
  <2> QED BY <1>1, <2>2
<1> QED BY <1>0, <1>2, <1>3, <1>4

(* No walk is longer than the stage.                                       *)
LEMMA WalksAreShort ==
  ASSUME NEW c, Listed(c), Proper(c), NEW s, StagesBuildUp(c, s), NEW i \in Places(c),
         NEW w \in Chain!Walks(c, i)
  PROVE  Len(w) \in Nat /\ Len(w) =< s[i]
<1>0. Len(c) \in Nat /\ Places(c) = 1..Len(c)  BY DEF Listed, Places
<1>1. PICK k \in Places(c) :
        /\ w \in [1..k -> Places(c)] /\ Len(w) = k /\ w[k] = i
        /\ \A m \in 2..k : w[m - 1] \in Needs(c, w[m])
  BY WalksAre
<1>2. \A p \in Places(c) : s[p] \in 1..Len(c) /\ \A j \in Needs(c, p) : s[j] < s[p]
  BY StagesStep
<1>3. k \in Nat /\ k \in 1..k /\ 1..k \subseteq Nat  BY <1>0
<1> DEFINE Off == {m \in 1..k : ~(m =< s[w[m]])}
<1>4. Off = {}
  <2> SUFFICES ASSUME Off # {} PROVE FALSE  OBVIOUS
  <2>1. PICK m \in Off : \A l \in Off : m =< l
    <3>1. Off \in SUBSET Nat  BY <1>3
    <3> HIDE DEF Off
    <3> QED BY <3>1, SmallestOf
  <2>2. m \in 1..k /\ ~(m =< s[w[m]])  OBVIOUS
  <2>3. w[m] \in Places(c) /\ s[w[m]] \in 1..Len(c)  BY <1>1, <1>2, <2>2
  <2>4. m # 1  BY <1>0, <2>2, <2>3
  <2>5. m \in 2..k /\ m - 1 \in 1..k /\ ~(m =< m - 1)  BY <1>3, <2>2, <2>4
  <2>6. m - 1 =< s[w[m - 1]]  BY <2>1, <2>5
  <2>7. w[m - 1] \in Needs(c, w[m]) /\ w[m - 1] \in Places(c)  BY <1>1, <2>5
  <2>8. s[w[m - 1]] < s[w[m]] /\ s[w[m - 1]] \in 1..Len(c)  BY <1>2, <2>3, <2>7
  <2> HIDE DEF Off
  <2> QED BY <1>0, <1>3, <2>2, <2>3, <2>5, <2>6, <2>8
<1> QED BY <1>1, <1>3, <1>4

(* There is a walk as long as the stage.                                   *)
LEMMA LongWalkExists ==
  ASSUME NEW c, Listed(c), Proper(c), NEW s, StagesBuildUp(c, s), NEW i \in Places(c)
  PROVE  \E w \in Chain!Walks(c, i) : Len(w) = s[i]
<1>0. Len(c) \in Nat /\ Places(c) = 1..Len(c)  BY DEF Listed, Places
<1>2. \A p \in Places(c) : /\ s[p] \in 1..Len(c)
                           /\ s[p] = 1 \/ \E j \in Needs(c, p) : j \in Places(c) /\ s[p] = 1 + s[j]
  BY StagesStep
<1> DEFINE Long(p) == \E w \in Chain!Walks(c, p) : Len(w) = s[p]
           Off == {m \in 1..Len(c) : \E p \in Places(c) : s[p] = m /\ ~Long(p)}
<1> SUFFICES Long(i)  OBVIOUS
<1>3. Off = {}
  <2> SUFFICES ASSUME Off # {} PROVE FALSE  OBVIOUS
  <2> HIDE DEF Long
  <2>1. PICK m \in Off : \A l \in Off : m =< l
    <3>1. Off \in SUBSET Nat  BY <1>0
    <3> HIDE DEF Off
    <3> QED BY <3>1, SmallestOf
  <2>2. m \in 1..Len(c)  OBVIOUS
  <2>3. PICK p \in Places(c) : s[p] = m /\ ~Long(p)  OBVIOUS
  <2>4. CASE m = 1
    <3> DEFINE w == [k \in 1..1 |-> p]
    <3>1. w \in [1..1 -> Places(c)] /\ Len(w) = 1 /\ w[1] = p  OBVIOUS
    <3>2. 1 \in Places(c) /\ 2..1 = {}  BY <1>0, <2>2
    <3> HIDE DEF w
    <3>3. w \in Chain!Walks(c, p)  BY <3>1, <3>2, WalksAre
    <3> QED BY <2>3, <2>4, <3>1, <3>3 DEF Long
  <2>5. CASE m # 1
    <3>1. PICK j \in Needs(c, p) : j \in Places(c) /\ m = 1 + s[j]  BY <1>2, <2>3, <2>5
    <3>2. s[j] \in 1..Len(c) /\ s[j] < m /\ ~(m =< s[j])  BY <1>0, <1>2, <2>2, <3>1
    <3>3. Long(j)
      <4>1. s[j] \notin Off  BY <2>1, <3>2
      <4> QED BY <3>1, <3>2, <4>1
    <3>4. PICK v \in Chain!Walks(c, j) : Len(v) = s[j]  BY <3>3 DEF Long
    <3>5. PICK k \in Places(c) :
            /\ v \in [1..k -> Places(c)] /\ Len(v) = k /\ v[k] = j
            /\ \A l \in 2..k : v[l - 1] \in Needs(c, v[l])
      BY <3>1, <3>4, WalksAre
    <3>6. k \in Nat /\ m = k + 1 /\ m \in Places(c)  BY <1>0, <2>2, <3>1, <3>4, <3>5
    <3> DEFINE w == [l \in 1..m |-> IF l = m THEN p ELSE v[l]]
    <3>7. w \in [1..m -> Places(c)]
      <4>1. \A l \in 1..m : l # m => l \in 1..k  BY <3>6
      <4> QED BY <3>5, <4>1
    <3>8. w[m] = p /\ Len(w) = m
      <4>1. m \in 1..m /\ m \in Nat  BY <3>6
      <4> QED BY <4>1
    <3>9. ASSUME NEW l \in 2..m PROVE w[l - 1] \in Needs(c, w[l])
      <4>1. l \in 1..m /\ l - 1 \in 1..m /\ l - 1 # m  BY <3>6
      <4>2. w[l - 1] = v[l - 1]  BY <4>1
      <4>3. CASE l = m
        <5>1. l - 1 = k  BY <3>6, <4>3
        <5> QED BY <3>1, <3>5, <3>8, <4>2, <4>3, <5>1
      <4>4. CASE l # m
        <5>1. l \in 2..k  BY <3>6, <4>4
        <5>2. w[l] = v[l]  BY <4>1, <4>4
        <5> QED BY <3>5, <4>2, <5>1, <5>2
      <4> QED BY <4>3, <4>4
    <3> HIDE DEF w
    <3>10. w \in Chain!Walks(c, p)  BY <3>6, <3>7, <3>8, <3>9, WalksAre
    <3> QED BY <2>3, <3>8, <3>10 DEF Long
  <2> QED BY <2>4, <2>5
<1>4. s[i] \in 1..Len(c)  BY <1>2
<1> HIDE DEF Long
<1> QED BY <1>3, <1>4

(* Stages are depths.                                                      *)
LEMMA DepthHolds ==
  ASSUME draft \in Chain!Drafts
  PROVE  Chain!StageIsDepth
<1> DEFINE c == draft
<1>0. Listed(c)  BY DraftsAreListed
<1> HIDE DEF c
<1>1. Chain!Positions(c) = Places(c)  BY <1>0 DEF Listed, Places, Chain!Positions
<1> SUFFICES ASSUME Chain!Consistent(c, Present), NEW i \in Places(c)
             PROVE  Chain!Stages(c)[i] = Chain!Max({Len(w) : w \in Chain!Walks(c, i)})
  BY <1>1 DEF Chain!StageIsDepth, c
<1>2. Proper(c) /\ Ordered(c)  BY <1>0, ConsistentByPlace
<1>3. StagesBuildUp(c, Chain!Stages(c))  BY <1>2, StagesOfOrdered
<1> DEFINE S == {Len(w) : w \in Chain!Walks(c, i)}
           h == Chain!Stages(c)[i]
<1>4. h \in S
  <2>1. PICK w \in Chain!Walks(c, i) : Len(w) = h  BY <1>0, <1>2, <1>3, LongWalkExists
  <2> QED BY <2>1
<1>5. \A l \in S : l \in Nat /\ l =< h  BY <1>0, <1>2, <1>3, WalksAreShort
<1>6. h \in Nat
  <2>1. h \in 1..Len(c)  BY <1>2, <1>3, StagesStep
  <2>2. Len(c) \in Nat  BY <1>0 DEF Listed
  <2> QED BY <2>1, <2>2
<1> HIDE DEF S, h
<1>7. h \in S /\ \A l \in S : h >= l  BY <1>4, <1>5, <1>6
<1>8. Chain!Max(S) \in S /\ \A l \in S : Chain!Max(S) >= l  BY <1>7 DEF Chain!Max
<1>9. Chain!Max(S) = h
  <2>1. PICK g : g = Chain!Max(S)  OBVIOUS
  <2>2. g \in Nat /\ g =< h /\ g >= h  BY <1>5, <1>7, <1>8, <2>1
  <2>3. g = h  BY <1>6, <2>2
  <2> QED BY <2>1, <2>3
<1> QED BY <1>9 DEF S, h

-----------------------------------------------------------------------------
(* Renaming by stage.                                                      *)

(* No two nodes get the same name.                                         *)
LEMMA StageNamesDiffer ==
  ASSUME NEW c, Proper(c), NEW i \in Places(c), NEW k \in Places(c),
         Chain!StageName(c, i) = Chain!StageName(c, k)
  PROVE  i = k
<1> DEFINE s == Chain!Stages(c)
           Upto(p) == {j \in 1..p : s[j] = s[p]}
<1>0. Len(c) \in Nat /\ Places(c) = 1..Len(c)  BY DEF Proper, Places
<1>1. \A p : Chain!StageName(c, p) = <<s[p], Cardinality(Upto(p))>>
  BY ChainCount DEF Chain!StageName
<1>2. s[i] = s[k] /\ Cardinality(Upto(i)) = Cardinality(Upto(k))
  <2> HIDE DEF s, Upto
  <2> QED BY <1>1
<1> HIDE DEF s
<1>3. ASSUME NEW p \in Places(c), NEW q \in Places(c), p < q, s[p] = s[q]
      PROVE  Cardinality(Upto(p)) # Cardinality(Upto(q))
  <2>1. Upto(p) \in SUBSET Upto(q) /\ q \in Upto(q) /\ q \notin Upto(p)  BY <1>0, <1>3
  <2>2. IsFiniteSet(Upto(q))
    <3>1. Upto(q) \in SUBSET (1..q) /\ q \in Nat  BY <1>0
    <3> HIDE DEF Upto
    <3> QED BY <3>1, PlacesFinite
  <2> HIDE DEF Upto
  <2>3. Cardinality(Upto(q)) = Cardinality(Upto(p)) => Upto(q) = Upto(p)
    BY <2>1, <2>2, FS_Subset, Zenon
  <2> QED BY <2>1, <2>3
<1>4. ~(i < k) /\ ~(k < i)
  <2> HIDE DEF Upto
  <2> QED BY <1>2, <1>3
<1>5. i \in Nat /\ k \in Nat  BY <1>0
<1> QED BY <1>4, <1>5

(* The renamed chain waits for the same nodes and has names of its own.    *)
LEMMA RenumberedIsProper ==
  ASSUME NEW c, Listed(c), Proper(c), \A i \in Places(c) : DOMAIN c[i] = {"id", "assignee", "deps"}
  PROVE  LET d == Chain!Renumbered(c) IN
           /\ Listed(d) /\ Proper(d) /\ Len(d) = Len(c) /\ Chain!Positions(d) = Chain!Positions(c)
           /\ \A i \in Places(c) : /\ Needs(d, i) = Needs(c, i)
                                   /\ d[i].id = Chain!StageName(c, i)
<1> DEFINE d == Chain!Renumbered(c)
<1>0. /\ Len(c) \in Nat /\ Places(c) = 1..Len(c) /\ Chain!Positions(c) = Places(c)
      /\ (c = <<>> <=> Len(c) = 0)
  BY DEF Listed, Places, Chain!Positions
<1>1. \A i \in Places(c) :
        {Chain!StageName(c, Chain!Holder(c, e)) : e \in {g \in c[i].deps : Chain!Known(c, g)}}
          = {Chain!StageName(c, j) : j \in Needs(c, i)}
  <2> SUFFICES ASSUME NEW i \in Places(c)
               PROVE  {Chain!StageName(c, Chain!Holder(c, e)) : e \in {g \in c[i].deps : Chain!Known(c, g)}}
                        = {Chain!StageName(c, j) : j \in Needs(c, i)}
    OBVIOUS
  <2>1. \A e \in c[i].deps : \E j \in Needs(c, i) : c[j].id = e  BY DEF Proper, Needs
  <2>2. \A j \in Needs(c, i) : /\ c[j].id \in c[i].deps /\ Chain!Known(c, c[j].id)
                               /\ Chain!Holder(c, c[j].id) = j
    BY HolderOfName DEF Needs
  <2>3. \A e \in c[i].deps : Chain!Known(c, e) /\ Chain!Holder(c, e) \in Needs(c, i)  BY <2>1, <2>2
  <2>4. \A j \in Needs(c, i) : \E e \in c[i].deps : Chain!Known(c, e) /\ Chain!Holder(c, e) = j  BY <2>2
  <2> QED BY <2>3, <2>4
<1>2. /\ DOMAIN d = Places(c)
      /\ \A i \in Places(c) : /\ d[i].id = Chain!StageName(c, i)
                              /\ d[i].deps = {Chain!StageName(c, j) : j \in Needs(c, i)}
  <2>1. d = [i \in Places(c) |->
               [c[i] EXCEPT !.id = Chain!StageName(c, i),
                            !.deps = {Chain!StageName(c, Chain!Holder(c, e)) :
                                        e \in {g \in c[i].deps : Chain!Known(c, g)}}]]
    BY <1>0 DEF Chain!Renumbered
  <2> HIDE DEF d
  <2>2. \A i \in Places(c) :
          d[i] = [c[i] EXCEPT !.id = Chain!StageName(c, i),
                              !.deps = {Chain!StageName(c, Chain!Holder(c, e)) :
                                          e \in {g \in c[i].deps : Chain!Known(c, g)}}]
    BY <2>1
  <2>3. DOMAIN d = Places(c)  BY <2>1
  <2>4. ASSUME NEW i \in Places(c)
        PROVE  /\ d[i].id = Chain!StageName(c, i)
               /\ d[i].deps = {Chain!StageName(c, Chain!Holder(c, e)) :
                                 e \in {g \in c[i].deps : Chain!Known(c, g)}}
    <3> DEFINE D == {Chain!StageName(c, Chain!Holder(c, e)) : e \in {g \in c[i].deps : Chain!Known(c, g)}}
               N == Chain!StageName(c, i)
               o == c[i]
    <3>1. d[i] = [o EXCEPT !.id = N, !.deps = D] /\ DOMAIN o = {"id", "assignee", "deps"}
      BY <2>2
    <3> HIDE DEF D, N, o
    <3>2. d[i].id = N /\ d[i].deps = D  BY <3>1
    <3> QED BY <3>2 DEF D, N
  <2> QED BY <1>1, <2>3, <2>4
<1> HIDE DEF d
<1>3. d = [i \in 1..Len(c) |-> d[i]]
  BY <1>0 DEF Chain!Renumbered, d
<1>4. Len(d) = Len(c)  BY <1>0, <1>3
<1>5. Places(d) = Places(c) /\ Chain!Positions(d) = Places(c)  BY <1>2, <1>4 DEF Places, Chain!Positions
<1>6. \A i, j \in Places(c) : d[i].id = d[j].id => i = j  BY <1>2, StageNamesDiffer
<1>7. ASSUME NEW i \in Places(c) PROVE Needs(d, i) = Needs(c, i)
  <2>1. \A j \in Needs(c, i) : j \in Places(c)  BY DEF Needs
  <2>2. \A j \in Places(c) : d[j].id \in d[i].deps <=> j \in Needs(c, i)
    <3>1. \A j \in Places(c) : d[j].id \in d[i].deps <=>
            \E k \in Needs(c, i) : Chain!StageName(c, j) = Chain!StageName(c, k)
      BY <1>2
    <3> QED BY <2>1, <3>1, StageNamesDiffer
  <2> QED BY <1>5, <2>1, <2>2 DEF Needs
<1>8. Proper(d)
  <2>1. \A i \in Places(c) : \A e \in d[i].deps : \E j \in Places(c) : d[j].id = e
    <3>1. \A i \in Places(c) : \A j \in Needs(c, i) : j \in Places(c)  BY DEF Needs
    <3> QED BY <1>2, <3>1
  <2> QED BY <1>0, <1>2, <1>4, <1>5, <1>6, <2>1 DEF Proper
<1>9. Listed(d)
  <2>1. d = <<>> <=> Len(c) = 0
    <3>1. ASSUME d = <<>> PROVE Len(c) = 0  BY <1>4, <3>1
    <3>2. ASSUME Len(c) = 0 PROVE d = <<>>
      <4>1. d \in Seq({d[i] : i \in 1..Len(c)})
        <5> DEFINE R == {d[i] : i \in 1..Len(c)}
        <5>1. \A i \in 1..Len(c) : d[i] \in R  OBVIOUS
        <5> HIDE DEF R
        <5>2. d \in [1..Len(c) -> R]  BY <1>3, <5>1
        <5>3. d \in Seq(R)  BY <1>0, <5>2
        <5> QED BY <5>3 DEF R
      <4> QED BY <1>4, <3>2, <4>1, EmptySeq
    <3> QED BY <3>1, <3>2
  <2> QED BY <1>0, <1>2, <1>4, <2>1 DEF Listed
<1> QED BY <1>0, <1>2, <1>4, <1>5, <1>7, <1>8, <1>9 DEF d

(* What a chain is, once there is one.                                     *)
ChainInv ==
  /\ draft \in Chain!Drafts
  /\ chain = <<>> \/ (Chain!Consistent(draft, Present) /\ chain = Chain!Renumbered(draft))

(* A chain of the collaboration.                                           *)
LEMMA ChainIsProper ==
  ASSUME ChainInv, chain # <<>>
  PROVE  /\ Proper(draft) /\ Proper(chain) /\ Ordered(draft)
         /\ Len(chain) = Len(draft)
         /\ Chain!Positions(draft) = Places(draft) /\ Chain!Positions(chain) = Places(draft)
         /\ \A i \in Places(draft) : /\ Needs(chain, i) = Needs(draft, i)
                                     /\ chain[i].id = Chain!StageName(draft, i)
<1>1. Listed(draft)  BY DraftsAreListed DEF ChainInv
<1>2. Chain!Consistent(draft, Present) /\ chain = Chain!Renumbered(draft)  BY DEF ChainInv
<1>3. Proper(draft) /\ Ordered(draft)  BY <1>1, <1>2, ConsistentByPlace
<1>4. \A i \in Places(draft) : DOMAIN draft[i] = {"id", "assignee", "deps"}
  <2>1. PICK n \in 0..Largest : draft \in [1..n -> Chain!Node]  BY DEF ChainInv, Chain!Drafts
  <2>2. Places(draft) = 1..n  BY <2>1 DEF Places
  <2>3. \A i \in 1..n : draft[i] \in [id : Labels, assignee : Workers, deps : SUBSET Labels]
    BY <2>1 DEF Chain!Node
  <2> QED BY <2>2, <2>3
<1>5. Chain!Positions(draft) = Places(draft)  BY <1>1 DEF Listed, Chain!Positions, Places
<1> QED BY <1>1, <1>2, <1>3, <1>4, <1>5, RenumberedIsProper

(* Renaming keeps the graph and the stages.                                *)
LEMMA RenamingHolds ==
  ASSUME ChainInv
  PROVE  Chain!RenamingKeepsTheGraph
<1> SUFFICES ASSUME chain # <<>>
             PROVE  /\ \A i, j \in Chain!Positions(chain) :
                         /\ Chain!DependsOn(chain, i, j) <=> Chain!DependsOn(draft, i, j)
                         /\ chain[i].id = chain[j].id => i = j
                    /\ \A i \in Chain!Positions(chain) : chain[i].id[1] = Chain!Stages(chain)[i]
  BY DEF Chain!RenamingKeepsTheGraph
<1> DEFINE c == draft
           d == chain
<1>1. /\ Proper(c) /\ Proper(d) /\ Ordered(c) /\ Len(d) = Len(c)
      /\ Chain!Positions(d) = Places(c)
      /\ \A i \in Places(c) : Needs(d, i) = Needs(c, i) /\ d[i].id = Chain!StageName(c, i)
  BY ChainIsProper
<1> HIDE DEF c, d
<1>2. Places(d) = Places(c)  BY <1>1 DEF Places
<1>3. \A i, j \in Places(c) : Chain!DependsOn(d, i, j) <=> Chain!DependsOn(c, i, j)
  <2>1. \A i, j \in Places(c) : /\ Chain!DependsOn(d, i, j) <=> j \in Needs(d, i)
                                /\ Chain!DependsOn(c, i, j) <=> j \in Needs(c, i)
    BY <1>2 DEF Chain!DependsOn, Needs
  <2> QED BY <1>1, <2>1
<1>4. \A i, j \in Places(c) : d[i].id = d[j].id => i = j  BY <1>1, <1>2 DEF Proper
<1>5. Chain!Stages(c) = Chain!Stages(d)  BY <1>1, StagesAreOne
<1>6. \A i \in Places(c) : d[i].id[1] = Chain!Stages(d)[i]
  <2>1. \A i \in Places(c) : Chain!StageName(c, i)[1] = Chain!Stages(c)[i]  BY DEF Chain!StageName
  <2> QED BY <1>1, <1>5, <2>1
<1> QED BY <1>1, <1>3, <1>4, <1>6 DEF c, d

(* What is dispatched waits for accepted nodes only.                       *)
LEMMA ReadyHolds ==
  ASSUME ChainInv
  PROVE  Chain!ReadyWaitsForNothing
<1> DEFINE c == chain
           st == Chain!Stages(c)
<1> SUFFICES ASSUME c # <<>>,
                    NEW status \in [Chain!Positions(c) -> {"pending", "running", "done"}],
                    NEW verdict \in [Chain!Positions(c) -> {"none", "pass"}]
             PROVE  IF Chain!AllPassed(st, status, verdict)
                    THEN \A i \in Chain!Positions(c) : status[i] = "done" /\ verdict[i] = "pass"
                    ELSE \A i \in Chain!StageReady(st, status, Chain!CurrentStage(st, status, verdict)) :
                           \A j \in Chain!Positions(c) :
                             Chain!DependsOn(c, i, j) => status[j] = "done" /\ verdict[j] = "pass"
  BY DEF Chain!ReadyWaitsForNothing
<1>1. /\ Proper(c) /\ Ordered(c) /\ Chain!Positions(c) = Places(c)
  <2>1. /\ Proper(draft) /\ Proper(c) /\ Ordered(draft) /\ Len(c) = Len(draft)
        /\ Chain!Positions(c) = Places(draft)
        /\ \A i \in Places(draft) : Needs(c, i) = Needs(draft, i)
    BY ChainIsProper
  <2>2. Places(c) = Places(draft)  BY <2>1 DEF Places
  <2>3. Ordered(c)  BY <2>1, <2>2 DEF Ordered
  <2> QED BY <2>1, <2>2, <2>3
<1>2. StagesBuildUp(c, st)  BY <1>1, StagesOfOrdered
<1> HIDE DEF c, st
<1>3. Len(c) \in Nat /\ Places(c) = 1..Len(c)  BY <1>1 DEF Proper, Places
<1>4. \A i \in Places(c) : st[i] \in 1..Len(c) /\ \A j \in Needs(c, i) : j \in Places(c) /\ st[j] < st[i]
  BY <1>1, <1>2, StagesStep
<1>5. DOMAIN st = Places(c) /\ st \in [1..Len(c) -> Nat]  BY <1>2, <1>3 DEF StagesBuildUp
<1> DEFINE top == Chain!Max({st[i] : i \in DOMAIN st} \cup {0})
           Open == Chain!OpenStages(st, status, verdict)
<1>6. top \in Nat /\ \A i \in Places(c) : st[i] =< top
  <2>1. top = Chain!Max(Heights(st, 1..Len(c)))  BY <1>3, <1>5 DEF Heights
  <2> HIDE DEF top
  <2> QED BY <1>3, <1>5, <2>1, HighestOf
<1>7. Open = {t \in 1..top : ~Chain!StagePassed(st, status, verdict, t)}  BY DEF Chain!OpenStages
<1> HIDE DEF top, Open
<1>8. \A i \in Places(c) : st[i] \in 1..top  BY <1>3, <1>4, <1>6
<1>9. \A i \in Places(c) : st[i] \notin Open => status[i] = "done" /\ verdict[i] = "pass"
  <2> SUFFICES ASSUME NEW i \in Places(c), st[i] \notin Open
               PROVE  status[i] = "done" /\ verdict[i] = "pass"
    OBVIOUS
  <2>1. Chain!StagePassed(st, status, verdict, st[i])  BY <1>7, <1>8
  <2>2. i \in Chain!StageNodes(st, st[i])  BY <1>5 DEF Chain!StageNodes
  <2> QED BY <2>1, <2>2 DEF Chain!StagePassed
<1>10. CASE Chain!AllPassed(st, status, verdict)
  <2>1. Open = {}  BY <1>10 DEF Chain!AllPassed, Open
  <2> QED BY <1>1, <1>9, <1>10, <2>1
<1>11. CASE ~Chain!AllPassed(st, status, verdict)
  <2>1. Open # {} /\ Open \in SUBSET Nat  BY <1>7, <1>11 DEF Chain!AllPassed, Open
  <2>2. Chain!CurrentStage(st, status, verdict) = Chain!Min(Open)  BY DEF Chain!CurrentStage, Open
  <2>3. Chain!Min(Open) \in Open /\ \A t \in Open : Chain!Min(Open) =< t
    <3>1. PICK m \in Open : \A t \in Open : m =< t  BY <2>1, SmallestOf
    <3> QED BY <3>1 DEF Chain!Min
  <2> SUFFICES ASSUME NEW i \in Chain!StageReady(st, status, Chain!Min(Open)), NEW j \in Places(c),
                      Chain!DependsOn(c, i, j)
               PROVE  status[j] = "done" /\ verdict[j] = "pass"
    BY <1>1, <1>11, <2>2
  <2>4. i \in Places(c) /\ st[i] = Chain!Min(Open)  BY <1>5 DEF Chain!StageReady, Chain!StageNodes
  <2>5. j \in Needs(c, i)  BY DEF Chain!DependsOn, Needs
  <2>6. st[j] < Chain!Min(Open)  BY <1>4, <2>4, <2>5
  <2>7. st[j] \in Nat  BY <1>3, <1>5
  <2>9. Chain!Min(Open) \in Nat  BY <2>1, <2>3
  <2>8. st[j] \notin Open  BY <2>3, <2>6, <2>7, <2>9
  <2> QED BY <1>9, <2>8
<1> QED BY <1>10, <1>11

(* Chains of the collaboration begin and stay as they should.              *)
LEMMA ChainSteps ==
  /\ Chain!Init => ChainInv
  /\ ChainInv /\ [Chain!Next]_Chain!vars => ChainInv'
<1>1. Chain!Init => ChainInv  BY DEF Chain!Init, ChainInv
<1>2. ASSUME ChainInv, [Chain!Next]_Chain!vars PROVE ChainInv'
  <2>1. CASE Chain!Next
    <3>1. draft' = draft /\ Chain!Consistent(draft, Present) /\ chain' = Chain!Renumbered(draft)
      BY <2>1 DEF Chain!Next, Chain!Arrange
    <3>2. Chain!Drafts' = Chain!Drafts  BY DEF Chain!Drafts, Chain!Node
    <3> QED BY <1>2, <3>1 DEF ChainInv
  <2>2. CASE UNCHANGED Chain!vars
    BY <1>2, <2>2 DEF ChainInv, Chain!vars
  <2> QED BY <1>2, <2>1, <2>2
<1> QED BY <1>1, <1>2

-----------------------------------------------------------------------------
(* The parts together: one goes its way, the others rest.                  *)
SessionsInv ==
  /\ which = "chain" => ChainInv
  /\ DeskAll /\ GuestInv /\ (which # "guests" => TalkInv) /\ ResInv /\ ChannelInv
  /\ which # "whole" => ModelInv
  /\ which = "whole" => WholeInv

(* Every behaviour begins with all of it.                                  *)
LEMMA InitSessions == Init => SessionsInv
<1> SUFFICES ASSUME Init PROVE SessionsInv  OBVIOUS
<1>0. which = "chain" => ChainInv  BY ChainSteps DEF Init
<1>1. DeskAll  BY InitDesk DEF Init
<1>2. GuestInv /\ TalkInv  BY InitGuests, InitTalk DEF Init
<1>3. ResInv  BY InitRes DEF Init
<1>4. ChannelInv  BY InitChannel DEF Init
<1>5. ModelInv  BY InitModel DEF Init
<1>6. WholeInv
  <2>1. reply = said /\ stage = "idle" /\ ended = none /\ memo = none /\ resolved = none
    BY DEF Init, Model!Init
  <2> QED BY <2>1 DEF WholeInv
<1> QED BY <1>0, <1>1, <1>2, <1>3, <1>4, <1>5, <1>6 DEF SessionsInv

(* A step of the whole is a step of one part and none of the others.       *)
LEMMA PartsStep ==
  ASSUME [Next]_vars
  PROVE  /\ which' = which
         /\ which = "chain" => Chain!Next \/ UNCHANGED Chain!vars
         /\ Desk!Next \/ UNCHANGED Desk!vars
         /\ Guest!Next \/ UNCHANGED Guest!vars
         /\ which # "guests" => Guest!Talk \/ UNCHANGED Guest!vars
         /\ Resident!Next \/ UNCHANGED Resident!vars
         /\ Channel!Next \/ UNCHANGED Channel!vars
         /\ which # "whole" => Model!Next \/ UNCHANGED Model!vars
         /\ which = "whole" => Whole!Next \/ UNCHANGED Whole!vars
<1>1. /\ UNCHANGED Chain!vars <=> UNCHANGED vC
      /\ UNCHANGED Desk!vars <=> UNCHANGED vQ
      /\ UNCHANGED Guest!vars <=> UNCHANGED vG
      /\ UNCHANGED Resident!vars <=> UNCHANGED vR
      /\ UNCHANGED Channel!vars <=> UNCHANGED vW
      /\ UNCHANGED Model!vars <=> UNCHANGED vM
      /\ UNCHANGED Whole!vars <=> UNCHANGED vM
  BY DEF vC, vQ, Chain!vars, vG, vR, vW, vM, Desk!vars, Guest!vars, Resident!vars, Channel!vars, Model!vars, Whole!vars
<1>2. CASE UNCHANGED vars  BY <1>1, <1>2 DEF vars
<1>3. CASE Next
  <2>1. which' = which  BY <1>3 DEF Next
  <2>8. which = "chain" => Chain!Next \/ UNCHANGED vC  BY <1>3 DEF Next
  <2>2. Desk!Next \/ UNCHANGED vQ  BY <1>3 DEF Next
  <2>3. (which = "guests" /\ Guest!Next) \/ (which # "guests" /\ Guest!Talk) \/ UNCHANGED vG
    BY <1>3 DEF Next
  <2>4. Resident!Next \/ UNCHANGED vR  BY <1>3 DEF Next
  <2>5. Guest!Talk => Guest!Next  BY DEF Guest!Next
  <2>6. Channel!Next \/ UNCHANGED vW  BY <1>3 DEF Next
  <2>7. (which = "model" /\ Model!Next) \/ (which = "whole" /\ Whole!Next) \/ UNCHANGED vM
    BY <1>3 DEF Next
  <2> QED BY <1>1, <2>1, <2>2, <2>3, <2>4, <2>5, <2>6, <2>7, <2>8
<1> QED BY <1>2, <1>3

(* Every step keeps all of it.                                             *)
LEMMA StepSessions == SessionsInv /\ [Next]_vars => SessionsInv'
<1> SUFFICES ASSUME SessionsInv, [Next]_vars PROVE SessionsInv'  OBVIOUS
<1>0. which' = "chain" => ChainInv'  BY PartsStep, ChainSteps DEF SessionsInv
<1>1. DeskAll'  BY PartsStep, StepDesk DEF SessionsInv
<1>2. GuestInv'  BY PartsStep, StepGuests DEF SessionsInv
<1>3. which' # "guests" => TalkInv'  BY PartsStep, StepTalk DEF SessionsInv
<1>4. ResInv'  BY PartsStep, StepRes DEF SessionsInv
<1>5. ChannelInv'  BY PartsStep, StepChannel DEF SessionsInv
<1>6. which' # "whole" => ModelInv'  BY PartsStep, StepModel DEF SessionsInv
<1>7. which' = "whole" => WholeInv'  BY PartsStep, StepWhole DEF SessionsInv
<1> QED BY <1>0, <1>1, <1>2, <1>3, <1>4, <1>5, <1>6, <1>7 DEF SessionsInv

(* The parts keep their invariants in every behaviour.                     *)
THEOREM SessionsHold == Spec => []SessionsInv
<1> QED BY InitSessions, StepSessions, PTL DEF Spec

-----------------------------------------------------------------------------
(* What the parts hold beside: bounds, and what calls of a model go through.*)
Offered == {Offers[i] : i \in DOMAIN Offers}
LastSteps == {"stop", "tell", "say", "run", "refuse"}

DeskFits == issued <= Cards /\ stopper \in {"none", "void", "persist", "cancel"}
CallFits ==
  /\ {memo, resolved} \subseteq Offered \union {none}
  /\ left \in Seq(Offered) /\ (stage = "idle" <=> left = <<>>)
  /\ ended # none => ended.step \in LastSteps
SaidFits == Len(said.text) <= Length /\ Len(said.tools) <= 1

SessionsFit ==
  /\ which # "chain" => draft = <<>> /\ chain = <<>>
  /\ DeskFits /\ late \in 0..Delays /\ CallFits /\ SaidFits

(* The numbers of cards stay within the bound.                             *)
LEMMA StepDeskFits ==
  ASSUME DeskAll, DeskFits, Desk!Next \/ UNCHANGED Desk!vars
  PROVE  DeskFits'
<1>0. issued \in Nat /\ Cards \in Nat  BY SessionsAssumption DEF DeskAll, DeskNumbers
<1>1. ASSUME NEW t \in Threads, Desk!Ask(t) \/ Desk!AskGate(t) PROVE DeskFits'
  BY <1>0, <1>1 DEF Desk!Ask, Desk!AskGate, Desk!Push, DeskFits
<1>2. ASSUME NEW t \in Threads, Desk!Waits(t) PROVE DeskFits'
  BY <1>2 DEF Desk!Waits, Desk!Emit, Desk!Look, Desk!Sleep, DeskFits
<1>3. CASE Desk!Begin \/ Desk!GiveBack \/ Desk!DropHead \/ Desk!Answer
  BY <1>3 DEF Desk!Begin, Desk!GiveBack, Desk!DropHead, Desk!Answer, DeskFits
<1>4. CASE Desk!Freeze \/ Desk!Void \/ Desk!Persist \/ Desk!Cancel \/ Desk!Continue \/ UNCHANGED Desk!vars
  BY <1>4 DEF Desk!Freeze, Desk!Void, Desk!Persist, Desk!Cancel, Desk!Continue, Desk!vars, DeskFits
<1>5. CASE Desk!Rebuild
  <2>1. stopper' = stopper  BY <1>5 DEF Desk!Rebuild
  <2> QED BY <1>5, <2>1, StepRebuild DEF DeskFits
<1>6. CASE Desk!Restart
  <2>1. stopper' = "none" /\ issued' <= issued /\ issued' \in Nat
    BY <1>6, StepRestart DEF Desk!Restart, DeskAll, DeskNumbers
  <2> QED BY <1>0, <2>1 DEF DeskFits
<1> QED BY <1>1, <1>2, <1>3, <1>4, <1>5, <1>6 DEF Desk!Next

(* The answers that come late are counted.                                 *)
LEMMA StepDelays ==
  ASSUME late \in 0..Delays, Channel!Next \/ UNCHANGED Channel!vars
  PROVE  late' \in 0..Delays
<1>0. Delays \in Nat  BY SessionsAssumption
<1>1. CASE Channel!GivesUp \/ Channel!Lost  BY <1>0, <1>1 DEF Channel!GivesUp, Channel!Lost
<1>2. CASE Channel!Host \/ Channel!Serve \/ (\E j \in Channel!Jobs : Channel!JobExits(j)) \/ Channel!Cancels \/ Channel!Deadline
           \/ UNCHANGED Channel!vars
  BY <1>2 DEF Channel!Host, Channel!Begin, Channel!Send, Channel!Receive, Channel!Serve, Channel!JobExits, Channel!Cancels,
     Channel!Deadline, Channel!vars
<1> QED BY <1>1, <1>2 DEF Channel!Next

-----------------------------------------------------------------------------
(* A call that ends has asked an endpoint of the provider.                 *)
LEMMA ReturnFits ==
  ASSUME CallFits, stage # "idle", NEW kind, NEW r, Model!Return(kind, r) \/ Whole!Return(kind, r)
  PROVE  CallFits'
<1>1. Head(left) \in Offered  BY DEF CallFits
<1>2. /\ stage' = "idle" /\ left' = <<>> /\ {memo, resolved}' \subseteq {memo, resolved, Head(left)}
      /\ ended' = [kind |-> kind, reply |-> r, step |-> Model!NextStep(kind, r)]
         \/ ended' = [kind |-> kind, reply |-> r, step |-> Whole!NextStep(kind, r)]
  BY DEF Model!Return, Whole!Return
<1>3. Model!NextStep(kind, r) \in LastSteps /\ Whole!NextStep(kind, r) \in LastSteps
  BY DEF Model!NextStep, Whole!NextStep, LastSteps
<1>4. ended'.step \in LastSteps  BY <1>2, <1>3
<1>5. left' \in Seq(Offered)  BY <1>2
<1> QED BY <1>1, <1>2, <1>4, <1>5 DEF CallFits

(* A request goes to endpoints of the provider.                            *)
LEMMA AskFits ==
  ASSUME CallFits, NEW us \in Seq(Offered), us # <<>>, NEW opt, Model!Ask(us, opt) \/ Whole!Ask(us, opt),
         memo' = memo, resolved' = resolved, ended' \in {none, ended}
  PROVE  CallFits' /\ SaidFits'
<1>1. stage' = "sent" /\ left' = us /\ (said' = Model!Empty \/ said' = Whole!Empty)  BY DEF Model!Ask, Whole!Ask
<1>2. said'.text = <<>> /\ said'.tools = <<>>  BY <1>1 DEF Model!Empty, Whole!Empty
<1>3. Length \in Nat  BY SessionsAssumption
<1>4. SaidFits'  BY <1>2, <1>3 DEF SaidFits
<1>5. CallFits'  BY <1>1 DEF CallFits
<1> QED BY <1>4, <1>5

(* The endpoints to be tried are some of the provider's.                   *)
LEMMA TriedFits ==
  ASSUME CallFits
  PROVE  /\ Model!Tried \in Seq(Offered) /\ Model!Tried # <<>>
         /\ Whole!Tried \in Seq(Offered) /\ Whole!Tried # <<>>
<1>1. Offers \in Seq(Offered) /\ Offers # <<>>  BY SessionsAssumption DEF Offered
<1>2. resolved # none => <<resolved>> \in Seq(Offered) /\ <<resolved>> # <<>>  BY DEF CallFits
<1> QED BY <1>1, <1>2 DEF Model!Tried, Whole!Tried

(* The next endpoint is asked, or there is none.                           *)
LEMMA TryNextFits ==
  ASSUME CallFits, SaidFits, stage # "idle", Model!TryNext \/ Model!Fail \/ Whole!TryNext \/ Whole!Fail
  PROVE  CallFits' /\ SaidFits'
<1>1. CASE Model!Fail \/ Whole!Fail
  BY <1>1, ReturnFits DEF Model!Fail, Whole!Fail, SaidFits
<1>2. CASE /\ Len(left) > 1 /\ (Model!Ask(Tail(left), options) \/ Whole!Ask(Tail(left), options))
           /\ UNCHANGED <<memo, resolved, ended>>
  <2>1. left \in Seq(Offered) /\ left # <<>>  BY <1>2 DEF CallFits
  <2>3. Tail(left) \in Seq(Offered) /\ Len(Tail(left)) = Len(left) - 1 /\ Len(left) \in Nat
    BY <2>1, HeadTailProperties
  <2>4. Len(<<>>) = 0  OBVIOUS
  <2>5. Tail(left) = <<>> => Len(Tail(left)) = 0  BY <2>4, Zenon
  <2>6. Len(left) - 1 # 0  BY <1>2, <2>3
  <2>2. Tail(left) \in Seq(Offered) /\ Tail(left) # <<>>  BY <2>3, <2>5, <2>6, Zenon
  <2> QED BY <1>2, <2>2, AskFits
<1> QED BY <1>1, <1>2 DEF Model!TryNext, Whole!TryNext, Model!Between, Whole!Between

(* Steps of a call that neither ask nor end it.                            *)
LEMMA QuietFits ==
  ASSUME CallFits, SaidFits,
         \/ \E u \in Offered : Model!OtherCall(u) \/ Whole!OtherCall(u)
         \/ Model!NewChat \/ Model!Stop \/ Model!Accepted \/ Model!Half \/ Model!FallSilent \/ UNCHANGED Model!vars
         \/ Whole!NewChat \/ Whole!Stop \/ Whole!Accepted \/ UNCHANGED Whole!vars
  PROVE  CallFits' /\ SaidFits'
<1>1. {memo, resolved}' \subseteq Offered \union {none}
  BY DEF Model!OtherCall, Model!NewChat, Model!Stop, Model!Accepted, Model!Half, Model!FallSilent, Model!vars, Model!Between,
     Whole!OtherCall, Whole!NewChat, Whole!Stop, Whole!Accepted, Whole!vars, Whole!Between, CallFits
<1>2. UNCHANGED <<left, said, ended>> /\ (stage' = "idle" <=> stage = "idle")
  BY DEF Model!OtherCall, Model!NewChat, Model!Stop, Model!Accepted, Model!Half, Model!FallSilent, Model!vars, Model!Between,
     Whole!OtherCall, Whole!NewChat, Whole!Stop, Whole!Accepted, Whole!vars, Whole!Between
<1> QED BY <1>1, <1>2 DEF CallFits, SaidFits

(* A line adds no more than a provider sends.                              *)
LEMMA MeantFits ==
  ASSUME said \in Reply, SaidFits, NEW line \in Model!Lines
  PROVE  Len(Model!Meant(said, line).text) <= Length /\ Len(Model!Meant(said, line).tools) <= 1
<1>0. said.text \in Seq(Letters) /\ said.tools \in Seq(BOOLEAN) /\ said.finish \in BOOLEAN  BY DEF Reply, Texts
<1>1. CASE \E w \in Sayings : line = Model!Line("text", IF style = "pieces" THEN w ELSE said.text \o w, w)
                /\ Len(said.text \o w) <= Length
  <2>1. PICK w \in Sayings : line = Model!Line("text", IF style = "pieces" THEN w ELSE said.text \o w, w)
                /\ Len(said.text \o w) <= Length
    BY <1>1
  <2>2. line.kind = "text" /\ line.adds = w  BY <2>1 DEF Model!Line
  <2>3. Model!Meant(said, line) = [said EXCEPT !.text = said.text \o w]  BY <2>2 DEF Model!Meant
  <2>4. Model!Meant(said, line).text = said.text \o w /\ Model!Meant(said, line).tools = said.tools
    BY <2>3 DEF Reply
  <2> QED BY <2>1, <2>4 DEF SaidFits
<1>2. CASE \E kind \in {"call", "args", "finish"} : line = Model!Line(kind, <<>>, <<>>)
                /\ (kind = "call" => said.tools = <<>>)
  <2>1. PICK kind \in {"call", "args", "finish"} : line = Model!Line(kind, <<>>, <<>>)
                /\ (kind = "call" => said.tools = <<>>)
    BY <1>2
  <2>2. line.kind = kind  BY <2>1 DEF Model!Line
  <2>3. CASE kind = "call"
    <3>1. Model!Meant(said, line) = [said EXCEPT !.tools = Append(said.tools, FALSE)]  BY <2>2, <2>3 DEF Model!Meant
    <3>2. Model!Meant(said, line).text = said.text /\ Model!Meant(said, line).tools = Append(said.tools, FALSE)
      BY <3>1 DEF Reply
    <3>3. Len(Append(said.tools, FALSE)) = 1  BY <1>0, <2>1, <2>3
    <3> QED BY <3>2, <3>3 DEF SaidFits
  <2>4. CASE kind = "args"
    <3> DEFINE all == [said.tools EXCEPT ![Len(said.tools)] = TRUE]
    <3>1. Model!Meant(said, line) = [said EXCEPT !.tools = all]  BY <2>2, <2>4 DEF Model!Meant
    <3>2. DOMAIN all = 1..Len(said.tools) /\ Len(said.tools) \in Nat  BY <1>0
    <3>4. Len(all) = Len(said.tools)
      <4> HIDE DEF all
      <4> QED BY <3>2
    <3> HIDE DEF all
    <3>5. Model!Meant(said, line).text = said.text /\ Model!Meant(said, line).tools = all  BY <3>1 DEF Reply
    <3> QED BY <3>4, <3>5 DEF SaidFits
  <2>5. CASE kind = "finish"
    <3>1. Model!Meant(said, line) = [said EXCEPT !.finish = TRUE]  BY <2>2, <2>5 DEF Model!Meant
    <3>2. Model!Meant(said, line).text = said.text /\ Model!Meant(said, line).tools = said.tools  BY <3>1 DEF Reply
    <3> QED BY <3>2 DEF SaidFits
  <2> QED BY <2>1, <2>3, <2>4, <2>5
<1>3. (\E w \in Sayings : line = Model!Line("text", IF style = "pieces" THEN w ELSE said.text \o w, w)
                /\ Len(said.text \o w) <= Length)
      \/ (\E kind \in {"call", "args", "finish"} : line = Model!Line(kind, <<>>, <<>>)
                /\ (kind = "call" => said.tools = <<>>))
  BY DEF Model!Lines
<1> QED BY <1>1, <1>2, <1>3

(* A line is read, and ends the call or does not.                          *)
LEMMA ReadFits ==
  ASSUME ModelInv, CallFits, SaidFits, NEW line \in Model!Lines, Model!Read(line), stage = "stream"
  PROVE  CallFits' /\ SaidFits'
<1>1. said' = Model!Meant(said, line)  BY DEF Model!Read, Model!Takes
<1>2. SaidFits'  BY <1>1, MeantFits DEF SaidFits, ModelInv
<1>3. CASE Model!Return("replied", Model!Taken(reply, line))  BY <1>2, <1>3, ReturnFits
<1>4. CASE UNCHANGED <<stage, left>> /\ UNCHANGED Model!Between  BY <1>2, <1>4 DEF CallFits, Model!Between
<1> QED BY <1>3, <1>4 DEF Model!Read

(* Every step of a call with a stream.                                     *)
LEMMA StepModelFits ==
  ASSUME ModelInv, CallFits, SaidFits, Model!Next \/ UNCHANGED Model!vars
  PROVE  CallFits' /\ SaidFits'
<1>0. Model!ToSet(Offers) = Offered  BY DEF Model!ToSet, Offered
<1>1. CASE \/ \E u \in Offered : Model!OtherCall(u)
           \/ Model!NewChat \/ Model!Stop \/ Model!Accepted \/ Model!Half \/ Model!FallSilent \/ UNCHANGED Model!vars
  BY <1>1, QuietFits
<1>2. CASE Model!Call  BY <1>2, TriedFits, AskFits DEF Model!Call
<1>3. CASE Model!SeeStop  BY <1>3, ReturnFits DEF Model!SeeStop, SaidFits
<1>4. CASE Model!OptionRefused  BY <1>4, TriedFits, AskFits DEF Model!OptionRefused, Model!Between
<1>5. CASE Model!GiveUp \/ Model!Torn \/ Model!Refused
  BY <1>5, TryNextFits DEF Model!GiveUp, Model!Torn, Model!Refused, Model!Reading, Model!Broken
<1>6. CASE Model!Closed
  <2>1. stage # "idle"  BY <1>6 DEF Model!Closed, Model!Reading
  <2> QED BY <1>6, <2>1, TryNextFits, ReturnFits DEF Model!Closed, SaidFits
<1>7. CASE Model!ClosedInLine
  <2>1. stage # "idle" /\ half \in Model!Lines  BY <1>7 DEF Model!ClosedInLine, Model!Reading, ModelInv
  <2>2. CASE Model!Takes(half) /\ Model!Return("replied", Model!LastLine(half))
    <3>1. said' = Model!Meant(said, half)  BY <2>2 DEF Model!Takes
    <3>2. SaidFits'  BY <2>1, <3>1, MeantFits DEF SaidFits, ModelInv
    <3> QED BY <2>1, <2>2, <3>2, ReturnFits
  <2> QED BY <1>7, <2>1, <2>2, TryNextFits DEF Model!ClosedInLine
<1>8. CASE Model!Chunk  BY <1>8, ReadFits DEF Model!Chunk, Model!Reading
<1>9. CASE Model!Rest  BY <1>9, ReadFits DEF Model!Rest, Model!Reading, ModelInv
<1>10. ~Model!Body  BY DEF Model!Body, ModelInv
<1> QED BY <1>0, <1>1, <1>2, <1>3, <1>4, <1>5, <1>6, <1>7, <1>8, <1>9, <1>10 DEF Model!Next

(* Every step of a call in one body.                                       *)
LEMMA StepWholeFits ==
  ASSUME WholeInv, CallFits, SaidFits, Whole!Next \/ UNCHANGED Whole!vars
  PROVE  CallFits' /\ SaidFits'
<1>0. Whole!ToSet(Offers) = Offered  BY DEF Whole!ToSet, Offered
<1>1. CASE \/ \E u \in Offered : Whole!OtherCall(u)
           \/ Whole!NewChat \/ Whole!Stop \/ Whole!Accepted \/ UNCHANGED Whole!vars
  BY <1>1, QuietFits
<1>2. CASE Whole!Call  BY <1>2, TriedFits, AskFits DEF Whole!Call
<1>3. CASE Whole!SeeStop  BY <1>3, ReturnFits DEF Whole!SeeStop, SaidFits
<1>4. CASE Whole!OptionRefused  BY <1>4, TriedFits, AskFits DEF Whole!OptionRefused, Whole!Between
<1>5. CASE Whole!GiveUp \/ Whole!Refused
  BY <1>5, TryNextFits DEF Whole!GiveUp, Whole!Refused, Whole!Broken, WholeInv
<1>6. CASE Whole!Body
  <2>1. PICK w \in Sayings \union {<<>>}, tools \in {<<>>, <<TRUE>>} :
          \E r : r = [Whole!Empty EXCEPT !.text = w, !.tools = tools] /\ Whole!Return("replied", r) /\ said' = r
    BY <1>6 DEF Whole!Body
  <2>2. Len(w) <= Length /\ Len(tools) <= 1
    <3>1. Len(<<>>) = 0 /\ Len(<<TRUE>>) = 1  OBVIOUS
    <3>2. \A v \in Sayings : Len(v) <= Length  BY SessionsAssumption
    <3>3. Length \in Nat  BY SessionsAssumption
    <3>4. Len(w) = 0 \/ Len(w) <= Length  BY <3>1, <3>2, Zenon
    <3>5. Len(tools) = 0 \/ Len(tools) = 1  BY <3>1, Zenon
    <3>6. Len(w) <= Length  BY <3>3, <3>4
    <3>8. 0 <= 1 /\ 1 <= 1  OBVIOUS
    <3>7. Len(tools) <= 1  BY <3>5, <3>8, Zenon
    <3> QED BY <3>6, <3>7
  <2>3. said'.text = w /\ said'.tools = tools  BY <2>1 DEF Whole!Empty
  <2>4. stage # "idle"  BY <1>6 DEF Whole!Body
  <2> QED BY <2>1, <2>2, <2>3, <2>4, ReturnFits DEF SaidFits
<1>7. ~Whole!Reading  BY DEF Whole!Reading, WholeInv
<1> QED BY <1>0, <1>1, <1>2, <1>3, <1>4, <1>5, <1>6, <1>7
        DEF Whole!Next, Whole!Chunk, Whole!Half, Whole!Rest, Whole!Closed, Whole!ClosedInLine, Whole!Torn, Whole!FallSilent

(* All of this from the beginning, and at every step.                      *)
LEMMA SessionsStayFit ==
  /\ Init => SessionsFit
  /\ SessionsInv /\ SessionsFit /\ [Next]_vars => SessionsFit'
<1>1. ASSUME Init PROVE SessionsFit
  <2>1. which # "chain" => draft = <<>> /\ chain = <<>>  BY <1>1 DEF Init
  <2>2. DeskFits  BY <1>1, SessionsAssumption DEF Init, Desk!Init, DeskFits
  <2>3. late \in 0..Delays  BY <1>1, SessionsAssumption DEF Init, Channel!Init
  <2>4. /\ memo = none /\ resolved = none /\ stage = "idle" /\ left = <<>> /\ ended = none
        /\ said.text = <<>> /\ said.tools = <<>>
    BY <1>1, EmptyReply DEF Init, Model!Init
  <2>5. left \in Seq(Offered)  BY <2>4
  <2>6. Len(said.text) = 0 /\ Len(said.tools) = 0  BY <2>4
  <2>7. SaidFits  BY <2>6, SessionsAssumption DEF SaidFits
  <2> QED BY <2>1, <2>2, <2>3, <2>4, <2>5, <2>7 DEF SessionsFit, CallFits
<1>2. ASSUME SessionsInv, SessionsFit, [Next]_vars PROVE SessionsFit'
  <2>1. which' # "chain" => draft' = <<>> /\ chain' = <<>>
    <3>1. which # "chain" => UNCHANGED vC  BY <1>2 DEF Next, vars
    <3> QED BY <1>2, <3>1, PartsStep DEF vC, SessionsFit
  <2>2. DeskFits'  BY <1>2, PartsStep, StepDeskFits DEF SessionsInv, SessionsFit
  <2>3. late' \in 0..Delays  BY <1>2, PartsStep, StepDelays DEF SessionsFit
  <2>4. CallFits' /\ SaidFits'
    BY <1>2, PartsStep, StepModelFits, StepWholeFits DEF SessionsInv, SessionsFit
  <2> QED BY <2>1, <2>2, <2>3, <2>4 DEF SessionsFit
<1> QED BY <1>1, <1>2

(* What a chain looks like.                                                *)
LEMMA ChainTyped == ASSUME ChainInv PROVE Chain!TypeOK
<1>1. PICK n \in 0..Largest : draft \in [1..n -> Chain!Node]  BY DEF ChainInv, Chain!Drafts
<1>2. n \in Nat /\ n <= Largest  BY <1>1, SessionsAssumption
<1>3. draft \in Seq(Chain!Node) /\ Len(draft) = n /\ DOMAIN draft = 1..n  BY <1>1, <1>2
<1>4. chain = <<>> \/ DOMAIN chain = DOMAIN draft
  BY <1>3 DEF ChainInv, Chain!Renumbered, Chain!Positions
<1> QED BY <1>1, <1>2, <1>3, <1>4 DEF Chain!TypeOK

(* What both invariants say of a call.                                     *)
LEMMA CallTyped ==
  ASSUME CallFits, SaidFits, reply = said, stage \in {"idle", "sent", "stream", "body"}
  PROVE  Model!TypeOK /\ Whole!TypeOK
<1>1. Model!ToSet(Offers) = Offered /\ Whole!ToSet(Offers) = Offered  BY DEF Model!ToSet, Whole!ToSet, Offered
<1>2. \A r \in {reply, said} : Len(r.text) <= Length /\ Len(r.tools) <= 1  BY DEF SaidFits
<1>3. ended # none => ended.step \in {"stop", "tell", "say", "run", "refuse"}  BY DEF CallFits, LastSteps
<1>4. (stage = "idle") = (left = <<>>)  BY DEF CallFits
<1> QED BY <1>1, <1>2, <1>3, <1>4 DEF CallFits, Model!TypeOK, Whole!TypeOK

(* Every part of a session keeps its types, whatever the bounds: cards,    *)
(* machines, processes and late answers are numbered within them, the call *)
(* of a model has somebody to ask exactly while it runs, and what it has   *)
(* of a reply is no longer than what a provider sends.                     *)
THEOREM TypesAlwaysHold == Spec => []TypesHold
<1>1. SessionsInv /\ SessionsFit => TypesHold
  <2> SUFFICES ASSUME SessionsInv, SessionsFit PROVE TypesHold  OBVIOUS
  <2>1. Chain!TypeOK
    <3>1. CASE which = "chain"  BY <3>1, ChainTyped DEF SessionsInv
    <3>2. CASE which # "chain"
      <4>1. draft = <<>> /\ chain = <<>>  BY <3>2 DEF SessionsFit
      <4>2. Len(draft) = 0 /\ DOMAIN draft = {}  BY <4>1
      <4> QED BY <4>1, <4>2, SessionsAssumption DEF Chain!TypeOK
    <3> QED BY <3>1, <3>2
  <2>2. Desk!TypeOK
    <3>1. issued \in Nat /\ Desk!Ids(queue) \subseteq 1..issued  BY DEF SessionsInv, DeskAll, DeskNumbers
    <3>2. \A t \in Threads : pc[t] \in {"idle", "emit", "wait", "looks", "asleep"}
      BY DEF SessionsInv, DeskAll, DeskShape
    <3> QED BY <3>1, <3>2, SessionsAssumption DEF SessionsFit, DeskFits, Desk!TypeOK
  <2>3. Guest!TypeOK
    BY SessionsAssumption DEF SessionsInv, GuestInv, GuestShape, Guest!TypeOK
  <2>4. Resident!TypeOK
    <3>1. ResTypes  BY DEF SessionsInv, ResInv, ResShape
    <3>2. \A k \in Provided : switch[k] \in BOOLEAN /\ table[k].proc \in 0..Processes  BY <3>1 DEF ResTypes, Entry
    <3>3. procs \subseteq 1..Processes  BY <3>1, SessionsAssumption DEF ResTypes
    <3> QED BY <3>1, <3>2, <3>3 DEF ResTypes, Resident!TypeOK
  <2>5. Channel!TypeOK
    <3>1. ChannelShape /\ OfThisCall  BY DEF SessionsInv, ChannelInv
    <3>2. call \in 0..Calls /\ Calls \in Nat  BY <3>1, SessionsAssumption DEF ChannelShape
    <3>3. pid[1] \in 0..2 * Calls /\ pid[2] \in 0..2 * Calls
      BY <3>1, <3>2 DEF OfThisCall, Channel!Killer
    <3>4. pid \in (0..2 * Calls) \X (0..2 * Calls)  BY <3>1, <3>3 DEF ChannelShape
    <3> QED BY <3>1, <3>4 DEF SessionsFit, ChannelShape, Stages, Channel!TypeOK
  <2>6. Model!TypeOK /\ Whole!TypeOK
    <3>1. reply = said /\ stage \in {"idle", "sent", "stream", "body"}
      BY DEF SessionsInv, ModelInv, WholeInv
    <3> QED BY <3>1, CallTyped DEF SessionsFit
  <2> QED BY <2>1, <2>2, <2>3, <2>4, <2>5, <2>6 DEF TypesHold
<1> QED BY <1>1, SessionsStayFit, SessionsHold, PTL DEF Spec

(* Whatever chain of nodes a planner hands over: it is let through exactly *)
(* when it can be worked off, a stage is the longest way to a node, naming *)
(* the nodes by it changes neither the graph nor the stages, and what is   *)
(* dispatched waits for accepted nodes only (problems, stages,             *)
(* renumber_by_stage and stage_ready of a chain).                          *)
THEOREM ChainsAreAlwaysSound == Spec => []ChainIsSound
<1>1. SessionsInv => ChainIsSound
  <2> SUFFICES ASSUME SessionsInv, which = "chain"
               PROVE  /\ Chain!DoorIsExact /\ Chain!StageIsDepth
                      /\ Chain!RenamingKeepsTheGraph /\ Chain!ReadyWaitsForNothing
    BY DEF ChainIsSound
  <2>1. ChainInv  BY DEF SessionsInv
  <2>2. draft \in Chain!Drafts  BY <2>1 DEF ChainInv
  <2> QED BY <2>1, <2>2, DoorHolds, DepthHolds, RenamingHolds, ReadyHolds
<1> QED BY <1>1, SessionsHold, PTL

(* A thread that asked for a card gets what the user said to that card, and*)
(* a stop is never taken for a consent (Conductor::request_user).          *)
THEOREM OutcomeIsAlwaysTheUsers == Spec => []OutcomeIsTheUsers
<1>1. SessionsInv => OutcomeIsTheUsers  BY WaitsMeans DEF SessionsInv, DeskAll, DeskInv, OutcomeIsTheUsers
<1> QED BY <1>1, SessionsHold, PTL

(* No card is given the number of one that the transcript knows, after a   *)
(* restart neither (SessionCore::next_id, rebuilt from the events).        *)
THEOREM CardsAreAlwaysNew == Spec => CardsAreNew
<1>1. SessionsInv /\ [Next]_vars => [Desk!NewNumber]_(Desk!vars)
  BY PartsStep, StepNew DEF SessionsInv
<1> QED BY <1>1, SessionsHold, PTL DEF Spec, CardsAreNew, Desk!CardsAreNew

(* No machine is lost or stopped below a call, conversations alone never   *)
(* boot two on one lease, and no process of a service is lost              *)
(* (GuestVms::admit, commit and stop; the table of the services).          *)
THEOREM NothingIsEverLost == Spec => []NothingIsLost
<1>1. SessionsInv => NothingIsLost
  <2> SUFFICES ASSUME SessionsInv PROVE NothingIsLost  OBVIOUS
  <2>1. Guest!NoLostGuests /\ Guest!NotCutOff  BY GuestMeans DEF SessionsInv
  <2>2. which = "talk" => Guest!OneGuestPerLease  BY TalkMeans DEF SessionsInv
  <2>3. Resident!NoStrays  BY ResMeans DEF SessionsInv
  <2> QED BY <2>1, <2>2, <2>3 DEF NothingIsLost
<1> QED BY <1>1, SessionsHold, PTL
(* What a call to a guest reports as the end of its command is that        *)
(* command's own, however late answers come; a call of a model returns     *)
(* what its provider has sent, the user has seen the same and none of it   *)
(* twice, a stop runs nothing of it, and only an endpoint that has         *)
(* answered is kept (QgaClient::sync and exec; the streams of llm/detail). *)
THEOREM AnswerIsAlwaysRight == Spec => []RightAnswer
<1>1. SessionsInv => RightAnswer
  <2> SUFFICES ASSUME SessionsInv PROVE RightAnswer  OBVIOUS
  <2>1. Channel!RightAnswer  BY ChannelMeans DEF SessionsInv
  <2>2. which = "model" => Model!ReplyIsWhatWasSaid /\ Model!StoppedRunsNothing
                             /\ Model!KeptEndpointsAnswer /\ Model!NothingTakenBack
    BY ModelMeans DEF SessionsInv
  <2>3. which = "whole" => Whole!ReplyIsWhatWasSaid /\ Whole!StoppedRunsNothing
                             /\ Whole!KeptEndpointsAnswer
    BY WholeMeans DEF SessionsInv
  <2> QED BY <2>1, <2>2, <2>3 DEF RightAnswer
<1> QED BY <1>1, SessionsHold, PTL
=============================================================================
