---- MODULE ContainerPool_proofs ----
(* Theorems about the container pool, for any number of clients, Docker
   containers and faults, and every pair of limits; and, at the end, about
   the pool of warm containers. *)
EXTENDS ContainerPool, StartupOptimizer, FiniteSetTheorems, SequenceTheorems, TLAPS

(* A list of distinct containers as a set of them: what taking its head,
   appending to it and cutting it in two do to the set. *)
LEMMA TailAsSet ==
  ASSUME NEW S, NEW s \in Seq(S), s # <<>>
  PROVE  /\ Head(s) \in ToSet(s) /\ Head(s) \in S
         /\ Tail(s) \in Seq(S) /\ Len(s) \in Nat \ {0} /\ Len(Tail(s)) = Len(s) - 1
         /\ ToSet(s) = ToSet(Tail(s)) \cup {Head(s)}
         /\ IsInjective(s) => IsInjective(Tail(s)) /\ Head(s) \notin ToSet(Tail(s))
<1>1. /\ Head(s) = s[1] /\ Head(s) \in S
      /\ Tail(s) \in Seq(S) /\ Len(s) \in Nat \ {0} /\ Len(Tail(s)) = Len(s) - 1
      /\ \A i \in 1..(Len(s) - 1) : Tail(s)[i] = s[i + 1]
  OBVIOUS
<1>2. DOMAIN s = 1..Len(s) /\ DOMAIN Tail(s) = 1..(Len(s) - 1)
  BY <1>1
<1>3. \A i \in 1..Len(s) : i = 1 \/ (i - 1 \in 1..(Len(s) - 1) /\ Tail(s)[i - 1] = s[i])
  BY <1>1
<1>4. ToSet(s) = ToSet(Tail(s)) \cup {Head(s)}
  <2>1. ASSUME NEW i \in 1..Len(s) PROVE s[i] \in ToSet(Tail(s)) \cup {Head(s)}
    BY <1>1, <1>2, <1>3 DEF ToSet
  <2>2. ASSUME NEW i \in 1..(Len(s) - 1) PROVE Tail(s)[i] \in ToSet(s)
    BY DEF ToSet
  <2>3. QED BY <1>1, <1>2, <2>1, <2>2 DEF ToSet
<1>5. QED BY <1>4 DEF ToSet, IsInjective

LEMMA AppendAsSet ==
  ASSUME NEW S, NEW s \in Seq(S), NEW x \in S
  PROVE  /\ Append(s, x) \in Seq(S) /\ Len(s) \in Nat /\ Len(Append(s, x)) = Len(s) + 1
         /\ ToSet(Append(s, x)) = ToSet(s) \cup {x}
         /\ IsInjective(s) /\ x \notin ToSet(s) => IsInjective(Append(s, x))
<1>1. /\ Append(s, x) \in Seq(S) /\ Len(s) \in Nat /\ Len(Append(s, x)) = Len(s) + 1
      /\ DOMAIN s = 1..Len(s) /\ DOMAIN Append(s, x) = 1..(Len(s) + 1)
      /\ \A i \in 1..Len(s) : Append(s, x)[i] = s[i]
      /\ Append(s, x)[Len(s) + 1] = x
  OBVIOUS
<1>2. QED BY <1>1 DEF ToSet, IsInjective

LEMMA PartsAsSets ==
  ASSUME NEW S, NEW s \in Seq(S), NEW n \in 0..Len(s), NEW p \in Seq(S), NEW q \in Seq(S),
         Len(p) = n, \A i \in 1..n : p[i] = s[i],
         Len(q) = Len(s) - n, \A i \in 1..(Len(s) - n) : q[i] = s[n + i]
  PROVE  /\ ToSet(s) = ToSet(p) \cup ToSet(q)
         /\ IsInjective(s) =>
              IsInjective(p) /\ IsInjective(q) /\ ToSet(p) \cap ToSet(q) = {}
<1>1. /\ Len(s) \in Nat /\ n \in Nat /\ n <= Len(s) /\ DOMAIN s = 1..Len(s)
      /\ DOMAIN p = 1..n /\ DOMAIN q = 1..(Len(s) - n)
  OBVIOUS
<1>2. ASSUME NEW i \in 1..Len(s) PROVE s[i] \in ToSet(p) \cup ToSet(q)
  <2>1. CASE i <= n
    BY <1>1, <2>1 DEF ToSet
  <2>2. CASE i > n
    <3>1. PICK j \in 1..(Len(s) - n) : i = n + j
      BY <1>1, <2>2
    <3>2. QED BY <1>1, <3>1 DEF ToSet
  <2>3. QED BY <2>1, <2>2
<1>3. ToSet(s) = ToSet(p) \cup ToSet(q)
  <2>1. ToSet(s) \subseteq ToSet(p) \cup ToSet(q)
    BY <1>2 DEF ToSet
  <2>2. ASSUME NEW i \in 1..n PROVE p[i] \in ToSet(s)
    <3>1. i \in DOMAIN s /\ p[i] = s[i]
      BY <1>1
    <3>2. QED BY <3>1 DEF ToSet
  <2>3. ASSUME NEW i \in 1..(Len(s) - n) PROVE q[i] \in ToSet(s)
    BY <1>1 DEF ToSet
  <2>4. ToSet(p) \subseteq ToSet(s) /\ ToSet(q) \subseteq ToSet(s)
    BY <1>1, <2>2, <2>3 DEF ToSet
  <2>5. QED BY <2>1, <2>4
<1>4. IsInjective(s) => IsInjective(p)
  BY <1>1 DEF IsInjective
<1>5. IsInjective(s) => IsInjective(q)
  <2> SUFFICES ASSUME IsInjective(s), NEW i \in 1..(Len(s) - n), NEW j \in 1..(Len(s) - n),
                      q[i] = q[j]
               PROVE  i = j
    BY <1>1 DEF IsInjective
  <2>1. n + i \in DOMAIN s /\ n + j \in DOMAIN s /\ s[n + i] = s[n + j]
    BY <1>1
  <2>2. n + i = n + j
    BY <2>1 DEF IsInjective
  <2>3. QED BY <1>1, <2>2
<1>6. IsInjective(s) => ToSet(p) \cap ToSet(q) = {}
  <2> SUFFICES ASSUME IsInjective(s), NEW i \in 1..n, NEW j \in 1..(Len(s) - n), p[i] = q[j]
               PROVE  FALSE
    BY <1>1 DEF ToSet
  <2>1. i \in DOMAIN s /\ n + j \in DOMAIN s /\ s[i] = s[n + j] /\ i # n + j
    BY <1>1
  <2>2. QED BY <2>1 DEF IsInjective
<1>7. QED BY <1>3, <1>4, <1>5, <1>6

LEMMA CutAsSets ==
  ASSUME NEW S, NEW s \in Seq(S), NEW n \in 0..Len(s)
  PROVE  LET p == SubSeq(s, 1, n)
             q == SubSeq(s, n + 1, Len(s))
         IN  /\ p \in Seq(S) /\ q \in Seq(S) /\ Len(s) \in Nat /\ Len(p) = n
             /\ Len(q) = Len(s) - n /\ ToSet(s) = ToSet(p) \cup ToSet(q)
             /\ IsInjective(s) =>
                  IsInjective(p) /\ IsInjective(q) /\ ToSet(p) \cap ToSet(q) = {}
<1> DEFINE p == SubSeq(s, 1, n)
           q == SubSeq(s, n + 1, Len(s))
<1>1. p \in Seq(S) /\ Len(p) = n /\ \A i \in 1..n : p[i] = s[i]
  OBVIOUS
<1>2. q \in Seq(S) /\ Len(q) = Len(s) - n /\ \A i \in 1..(Len(s) - n) : q[i] = s[n + i]
  BY SubSeqProperties
<1> HIDE DEF p, q
<1>3. ToSet(s) = ToSet(p) \cup ToSet(q) /\
      (IsInjective(s) => IsInjective(p) /\ IsInjective(q) /\ ToSet(p) \cap ToSet(q) = {})
  BY <1>1, <1>2, PartsAsSets
<1>4. QED BY <1>3 DEF p, q

LEMMA EmptyAsSet == ToSet(<<>>) = {} /\ IsInjective(<<>>) /\ Len(<<>>) = 0
  BY DEF ToSet, IsInjective

----
\* The inductive invariant.  Shape: who has a container when, and what the
\* maintenance task still has to do.  Bounded: PoolOvershoot, counting the
\* containers that are still to be made.  Apart is Exclusive in terms of sets;
\* Unmade: what Docker has not made is nowhere; Unreached and Leakless are
\* DestroyedIsUnreachable and NoRunningLeak, the former with the container
\* that maintenance is making.
Bare == {"idle", "permit", "create"}
PCs == Bare \cup {"hit", "start", "created", "hold", "push", "destroy"}
Shape ==
  /\ \A k \in Clients : op[k].cont = None <=> op[k].pc \in Bare
  /\ maint.pc # "kill" => maint.kill = <<>>
  /\ maint.pc # "inspect" => maint.good = <<>>
  /\ maint.cont = None <=> maint.pc \notin {"fillstart", "fillpush"}
  /\ maint.pc \in {"fillstart", "fillpush"} => maint.need > 0
Bounded == Len(hot) + Len(maint.good) + maint.need <= MaxContainers + MinContainers
Typed == TypeOK /\ Shape /\ Bounded

Hot == ToSet(hot)
Good == ToSet(maint.good)
Killed == ToSet(maint.kill)
Apart ==
  /\ IsInjective(hot) /\ IsInjective(maint.good) /\ IsInjective(maint.kill)
  /\ Hot \cap Good = {} /\ Hot \cap Killed = {} /\ Good \cap Killed = {}
  /\ maint.cont \notin Hot \cup Good \cup Killed
  /\ \A k \in Clients : op[k].cont # None =>
         op[k].cont \notin Hot \cup Good \cup Killed \cup {maint.cont}
  /\ \A k, l \in Clients : op[k].cont = op[l].cont /\ op[k].cont # None => k = l

Kept(c) == c \in Hot \cup Good \cup Killed \cup {maint.cont} \/ \E k \in Clients : op[k].cont = c
Unmade == \A c \in Conts : docker[c] = "none" => ~Kept(c) /\ c \notin destroyed
Unreached ==
  shut = "up" => \A c \in destroyed : /\ c \notin Hot \cup Good \cup {maint.cont}
                                      /\ \A k \in Clients : op[k].cont # c
Leakless == faults = 0 /\ shut = "up" => \A c \in Conts : docker[c] = "running" => Kept(c)

Placed == Apart /\ Unmade /\ Unreached
IInv == Typed /\ Placed /\ Leakless

LEMMA InConts == Typed => Hot \cup Good \cup Killed \subseteq Conts
  BY DEF ToSet, Typed, TypeOK, Hot, Good, Killed

\* A step after which every place has what it had, or less.
LEMMA Shrinks ==
  ASSUME IInv, IsInjective(hot'), IsInjective(maint'.good), IsInjective(maint'.kill),
         Hot' \subseteq Hot, Good' \subseteq Good, Killed' \subseteq Killed,
         maint'.cont \in {maint.cont, None},
         \A k \in Clients : op'[k].cont \in {op[k].cont, None},
         \A c \in Conts : docker[c] # "none" => docker'[c] # "none",
         \A c \in destroyed' : \/ c \in destroyed
                               \/ /\ c \in Conts /\ docker[c] # "none"
                                  /\ shut' = "up" =>
                                       /\ c \notin Hot' \cup Good' \cup {maint'.cont}
                                       /\ \A k \in Clients : op'[k].cont # c,
         shut' = "up" => shut = "up"
  PROVE  Placed'
  BY PoolAssumption, InConts DEF IInv, Placed, Typed, TypeOK, Apart, Unmade, Kept, Unreached

\* What destroy_container does to Docker for a set of containers.
LEMMA Destroys ==
  ASSUME Typed, NEW S \in SUBSET Conts, DestroyAll(S)
  PROVE  /\ docker' \in [Conts -> DockerState] /\ destroyed' = destroyed \cup S
         /\ faults' \in 0..MaxFaults /\ faults' >= faults
         /\ \A c \in Conts : /\ docker[c] # "none" => docker'[c] # "none"
                             /\ docker'[c] = "running" => docker[c] = "running"
                             /\ faults' = 0 /\ docker'[c] = "running" => c \notin S
  BY PoolAssumption DEF DestroyAll, AfterRemove, Fault, Typed, TypeOK, DockerState

\* A client goes on with the container it has, or without it.
LEMMA Walks ==
  ASSUME IInv, NEW k \in Clients, NEW pc \in PCs, NEW c \in {op[k].cont, None},
         op' = [op EXCEPT ![k] = [pc |-> pc, cont |-> c]], c = None <=> pc \in Bare,
         UNCHANGED <<hot, maint, shut>>, docker' \in [Conts -> DockerState],
         \A d \in Conts : docker[d] # "none" => docker'[d] # "none",
         destroyed' = destroyed \/ (c = None /\ op[k].cont \in Conts
                                    /\ destroyed' = destroyed \cup {op[k].cont}),
         faults' \in 0..MaxFaults, faults' >= faults,
         faults' = 0 => /\ \A d \in Conts : docker'[d] = "running" => docker[d] = "running" \/ d = c
                        /\ c = op[k].cont \/ docker'[op[k].cont] # "running"
  PROVE  IInv'
<1> USE DEF IInv
<1>1. Placed'
  BY PoolAssumption, Shrinks DEF Placed, Apart, Unmade, Kept, Hot, Good, Killed, Typed, TypeOK
<1>2. QED BY <1>1 DEF Typed, TypeOK, PCs, Bare, Shape, Bounded, Leakless, Kept, Hot, Good, Killed

LEMMA GotoWalks ==
  ASSUME Typed, NEW k \in Clients, NEW pc, Goto(k, pc)
  PROVE  op' = [op EXCEPT ![k] = [pc |-> pc, cont |-> op[k].cont]]
<1>1. [op[k] EXCEPT !.pc = pc] = [pc |-> pc, cont |-> op[k].cont]
  BY DEF Typed, TypeOK
<1>2. QED BY <1>1 DEF Goto

LEMMA ReturnWalks ==
  ASSUME NEW k \in Clients, Return(k)
  PROVE  op' = [op EXCEPT ![k] = [pc |-> "idle", cont |-> None]]
  BY DEF Return, Idle

LEMMA ClientWalks ==
  ASSUME IInv, NEW k \in Clients,
         \/ CountHit(k) \/ GetMiss(k) \/ Permit(k) \/ Start(k) \/ StartFails(k)
         \/ CountMiss(k) \/ CheckHealth(k) \/ DestroyUnhealthy(k) \/ Cancel(k)
  PROVE  IInv'
<1>0. /\ docker \in [Conts -> DockerState] /\ destroyed \subseteq Conts
      /\ faults \in 0..MaxFaults /\ MaxFaults \in Nat
      /\ op[k].cont \in Conts \cup {None} /\ None \notin Conts
      /\ (op[k].cont = None <=> op[k].pc \in Bare) /\ op[k].pc \in PCs
  BY PoolAssumption DEF IInv, Typed, TypeOK, PCs, Bare, Shape
<1>1. CASE CountHit(k) \/ CountMiss(k) \/ GetMiss(k)
  BY <1>0, <1>1, GotoWalks, Walks DEF CountHit, CountMiss, GetMiss, PCs, Bare, IInv
<1>2. CASE Permit(k)
  BY <1>0, <1>2, GotoWalks, ReturnWalks, Walks DEF Permit, Bare, IInv, PCs
<1>3. CASE Start(k)
  BY <1>0, <1>3, GotoWalks, Walks DEF Start, Set, Bare, IInv, DockerState, PCs
<1>4. CASE StartFails(k)
  BY <1>0, <1>4, ReturnWalks, Walks DEF StartFails, Fault, Bare, Set, AfterRemove, Registered, DockerState, PCs
<1>5. CASE CheckHealth(k)
  BY <1>5, <1>0, GotoWalks, Walks DEF CheckHealth, SeemsDown, Fault, IInv, PCs, Bare
<1>6. CASE DestroyUnhealthy(k)
  BY <1>0, <1>6, ReturnWalks, Destroys, Walks DEF DestroyUnhealthy, Bare, IInv, PCs
<1>7. CASE Cancel(k)
  BY <1>0, <1>7, ReturnWalks, Walks DEF Cancel, Fault, Set, DockerState, PCs, Bare
<1>8. QED BY <1>1, <1>2, <1>3, <1>4, <1>5, <1>6, <1>7

LEMMA ClientMoves ==
  ASSUME IInv, NEW k \in Clients, GetHit(k) \/ Create(k) \/ Push(k)
  PROVE  IInv'
<1> DEFINE c == op[k].cont
<1>0. /\ TypeOK /\ Shape /\ Bounded /\ Placed /\ Apart /\ Leakless
      /\ None \notin Conts /\ Hot \cup Good \cup Killed \subseteq Conts
  BY PoolAssumption, InConts DEF IInv, Typed, Placed
<1>1. CASE GetHit(k)
  <2> DEFINE x == Head(hot)
  <2>1. /\ x \in Conts /\ hot' \in Seq(Conts) /\ Len(hot') <= Len(hot) /\ Len(hot') \in Nat
        /\ Hot = Hot' \cup {x} /\ x \notin Hot' /\ IsInjective(hot')
    BY <1>0, <1>1, TailAsSet DEF GetHit, TypeOK, Apart, Hot
  <2>2. /\ UNCHANGED <<docker, destroyed, maint, shut, faults>> /\ Good' = Good /\ Killed' = Killed
        /\ op' = [op EXCEPT ![k] = [pc |-> "hit", cont |-> x]] /\ c = None
    BY <1>0, <1>1 DEF GetHit, Good, Killed, Shape, Bare
  <2> HIDE DEF x
  <2>3. Typed'
    BY <1>0, <2>1, <2>2, PoolAssumption DEF Typed, TypeOK, Shape, Bare, Bounded
  <2>4. Placed' /\ Leakless'
    BY <1>0, <2>1, <2>2 DEF Placed, Apart, Unmade, Unreached, Leakless, Kept, TypeOK
  <2>5. QED BY <2>3, <2>4 DEF IInv
<1>2. CASE Create(k)
  <2>1. c = None /\ UNCHANGED <<hot, destroyed, maint, shut>> /\ faults' \in 0..MaxFaults /\ faults' >= faults
    BY <1>0, <1>2, PoolAssumption DEF Create, Shape, Bare, DockerRefuses, Fault, TypeOK
  <2>2. CASE Return(k) /\ UNCHANGED docker
    BY <1>0, <2>1, <2>2, ReturnWalks, Walks DEF PCs, Bare, TypeOK
  <2>3. ASSUME NEW x \in Conts, docker[x] = "none", docker' = [docker EXCEPT ![x] = "created"],
               op' = [op EXCEPT ![k] = [pc |-> "start", cont |-> x]]
        PROVE  IInv'
    <3>1. /\ x \notin destroyed /\ ~Kept(x) /\ x # None
          /\ \A l \in Clients : op'[l] = IF l = k THEN [pc |-> "start", cont |-> x] ELSE op[l]
          /\ docker' \in [Conts -> DockerState]
          /\ \A d \in Conts : docker'[d] = IF d = x THEN "created" ELSE docker[d]
          /\ Hot' = Hot /\ Good' = Good /\ Killed' = Killed
      BY <1>0, <2>1, <2>3 DEF TypeOK, DockerState, Placed, Unmade, Hot, Good, Killed
    <3>2. Typed'
      BY <1>0, <2>1, <2>3, <3>1 DEF Typed, TypeOK, Shape, Bounded, Bare
    <3>3. Unmade'
      BY <1>0, <2>1, <3>1 DEF Placed, Unmade, Kept
    <3>4. faults' = 0 => faults = 0
      BY <1>0, <2>1 DEF TypeOK
    <3>5. Leakless'
      BY <1>0, <2>1, <3>1, <3>4 DEF Leakless, Kept
    <3>6. QED BY <3>2, <1>0, <2>1, <3>1, <3>3, <3>5 DEF IInv, Placed, Apart, Unreached, Kept
  <2>4. QED BY <1>2, <2>2, <2>3 DEF Create, Set
<1>3. CASE Push(k)
  <2> DEFINE s == Append(hot, c)
             n == IF Len(s) > MaxContainers THEN Len(s) - MaxContainers ELSE 0
             p == ToSet(SubSeq(s, 1, n))
  <2>1. /\ c \in Conts /\ maint.good = <<>> /\ Len(maint.good) = 0 /\ maint.need \in 0..MinContainers
        /\ c \notin Hot /\ IsInjective(hot)
    BY <1>0, <1>3 DEF Push, LockFree, TypeOK, Shape, Bare, Apart
  <2>2. s \in Seq(Conts) /\ Len(s) \in Nat /\ ToSet(s) = Hot \cup {c} /\ IsInjective(s)
    BY <1>0, <2>1, AppendAsSet DEF TypeOK, Hot
  <2>3. n \in 0..Len(s) /\ Len(s) - n <= MaxContainers
    BY <2>2, PoolAssumption
  <2>4. /\ hot' = SubSeq(s, n + 1, Len(s)) /\ DestroyAll(p) /\ UNCHANGED <<maint, shut>>
        /\ op' = [op EXCEPT ![k] = [pc |-> "idle", cont |-> None]]
    BY <1>3, ReturnWalks DEF Push
  <2> HIDE DEF s, n
  <2>5. /\ hot' \in Seq(Conts) /\ IsInjective(hot') /\ Hot \cup {c} = p \cup Hot'
        /\ p \cap Hot' = {} /\ Len(hot') = Len(s) - n
    BY <2>2, <2>3, <2>4, CutAsSets DEF Hot
  <2> HIDE DEF p
  <2>6. /\ docker' \in [Conts -> DockerState] /\ destroyed' = destroyed \cup p
        /\ faults' \in 0..MaxFaults /\ faults' >= faults
        /\ \A d \in Conts : /\ docker[d] # "none" => docker'[d] # "none"
                            /\ docker'[d] = "running" => docker[d] = "running"
                            /\ faults' = 0 /\ docker'[d] = "running" => d \notin p
    BY <2>4, <1>0, <2>1, <2>5, Destroys DEF IInv
  <2>7. /\ \A l \in Clients : op'[l] = IF l = k THEN [pc |-> "idle", cont |-> None] ELSE op[l]
        /\ Good' = Good /\ Killed' = Killed
    BY <1>0, <2>4 DEF TypeOK, Good, Killed
  <2>8. Typed'
    <3>1. Len(hot') <= MaxContainers /\ Len(hot') \in Nat /\ maint' = maint
      BY <2>3, <2>4
    <3>2. Bounded'
      BY <2>1, <3>1, PoolAssumption DEF Bounded
    <3>3. QED BY <1>0, <2>4, <2>5, <2>1, <2>6, <3>2 DEF Typed, TypeOK, Shape, PCs, Bare
  <2>9. Unmade' /\ Unreached'
    BY <1>0, <2>1, <2>5, <2>4, <2>7, <2>6 DEF Apart, Kept, Placed, Unmade, Unreached, TypeOK
  <2>10. Leakless'
    BY <1>0, <2>4, <2>5, <2>6, <2>7 DEF Leakless, Kept, TypeOK
  <2>11. QED BY <2>8, <1>0, <2>1, <2>4, <2>5, <2>7, <2>9, <2>10 DEF IInv, Placed, Apart
<1>4. QED BY <1>1, <1>2, <1>3

\* The record of the maintenance task, whose fields the proofs below look at.
MaintType == [pc : {"wait", "kill", "inspect", "fill", "fillstart", "fillpush"},
              kill : Seq(Conts), good : Seq(Conts),
              need : 0..MinContainers, cont : Conts \cup {None}]
LEMMA MaintFields ==
  ASSUME IInv
  PROVE  /\ maint = [pc |-> maint.pc, kill |-> maint.kill, good |-> maint.good,
                     need |-> maint.need, cont |-> maint.cont]
         /\ maint \in MaintType /\ hot \in Seq(Conts) /\ Len(hot) \in Nat
         /\ Len(maint.good) \in Nat /\ maint.need \in Nat
         /\ MinContainers \in Nat /\ MaxContainers \in Nat /\ MinContainers <= MaxContainers
         /\ Shape /\ Apart /\ None \notin Conts /\ faults \in Nat
         /\ Len(hot) + Len(maint.good) + maint.need <= MaxContainers + MinContainers
         /\ Hot \cup Good \cup Killed \subseteq Conts
  BY PoolAssumption, InConts DEF IInv, Typed, Placed, TypeOK, MaintType, Bounded

\* A step of the maintenance task, or of the runtime, that leaves the clients alone.
LEMMA Tends ==
  ASSUME IInv, UNCHANGED op, hot' \in Seq(Conts), maint' \in MaintType,
         shut' \in {"up", "stopping", "down"}, docker' \in [Conts -> DockerState],
         destroyed' \in SUBSET Conts, faults' \in 0..MaxFaults,
         maint'.pc # "kill" => maint'.kill = <<>>,
         maint'.pc # "inspect" => maint'.good = <<>>,
         maint'.cont = None <=> maint'.pc \notin {"fillstart", "fillpush"},
         maint'.pc \in {"fillstart", "fillpush"} => maint'.need > 0,
         Len(hot') + Len(maint'.good) + maint'.need <= MaxContainers + MinContainers
  PROVE  Typed'
  BY DEF IInv, Typed, Shape, TypeOK, MaintType, Bounded

LEMMA MaintMoves ==
  ASSUME IInv, Prune \/ Refill \/ RefillPush \/ EndHealthChecks
  PROVE  IInv'
<1> USE MaintFields
<1>1. CASE Prune
  <2>1. PICK n \in 0..Len(hot) :
           /\ hot' = SubSeq(hot, n + 1, Len(hot))
           /\ maint' = [Asleep EXCEPT !.pc = "kill", !.kill = SubSeq(hot, 1, n),
                          !.need = IF Len(hot) - n < MinContainers
                                   THEN MinContainers - (Len(hot) - n) ELSE 0]
    BY <1>1 DEF Prune
  <2>2. /\ maint.kill = <<>> /\ maint.good = <<>> /\ maint.cont = None
        /\ UNCHANGED <<docker, destroyed, op, shut, faults>>
    BY <1>1 DEF Prune, Shape
  <2> DEFINE p == SubSeq(hot, 1, n)
             m == IF Len(hot) - n < MinContainers THEN MinContainers - (Len(hot) - n) ELSE 0
  <2>3. m \in 0..MinContainers /\ Len(hot) - n + m <= MaxContainers + MinContainers
    BY DEF MaintType
  <2>4. /\ hot' \in Seq(Conts) /\ p \in Seq(Conts) /\ Len(hot') = Len(hot) - n
        /\ IsInjective(hot') /\ IsInjective(p)
        /\ Hot = ToSet(p) \cup Hot' /\ ToSet(p) \cap Hot' = {}
    BY <2>1, CutAsSets DEF Apart, Hot
  <2>5. maint' = [pc |-> "kill", kill |-> p, good |-> <<>>, need |-> m, cont |-> None]
    BY <2>1 DEF Asleep
  <2> HIDE DEF p, m
  <2>6. /\ maint' \in MaintType /\ maint'.kill = p /\ Killed' = ToSet(p) /\ maint'.cont = None
        /\ Len(hot') + Len(maint'.good) + maint'.need <= MaxContainers + MinContainers
    BY <2>3, <2>4, <2>5 DEF MaintType, Killed
  <2>7. Killed = {} /\ Good = {} /\ Good' = {} /\ IsInjective(maint'.good)
    BY <2>2, <2>5, EmptyAsSet DEF Killed, Good
  <2>8. Placed' /\ Leakless'
    BY <2>2, <2>4, <2>6, <2>7 DEF IInv, Placed, Apart, Unmade, Unreached, Leakless, Kept
  <2>9. QED BY <2>2, <2>4, <2>5, <2>6, Tends, <2>8 DEF IInv, Typed, TypeOK
<1>2. CASE RefillPush
  <2> DEFINE x == maint.cont
  <2>1. /\ x \in Conts /\ maint.kill = <<>> /\ maint.good = <<>> /\ maint.need > 0
        /\ UNCHANGED <<docker, destroyed, op, shut, faults>> /\ x \notin Hot
    BY <1>2 DEF RefillPush, Shape, MaintType, Apart
  <2>2. maint' = [pc |-> "fill", kill |-> <<>>, good |-> <<>>, need |-> maint.need - 1, cont |-> None]
    BY <1>2, <2>1 DEF RefillPush
  <2>3. /\ hot' \in Seq(Conts) /\ IsInjective(hot') /\ Hot' = Hot \cup {x}
        /\ Len(hot') = Len(hot) + 1
    BY <1>2, <2>1, AppendAsSet DEF RefillPush, Apart, Hot
  <2>4. Typed'
    BY <2>1, <2>2, <2>3, Tends DEF IInv, Typed, TypeOK, MaintType
  <2> HIDE DEF x
  <2>5. Apart' /\ Unreached'
    BY <2>1, <2>3, <2>2 DEF Apart, x, IInv, Typed, TypeOK, Placed, Unreached, Killed, Good
  <2>6. \A d \in Conts : Kept(d)' <=> Kept(d)
    BY <2>1, <2>3, <2>2 DEF Kept, x, Killed, Good
  <2>7. QED BY <2>1, <2>4, <2>5, <2>6 DEF IInv, Placed, Unmade, Leakless
<1>3. CASE EndHealthChecks
  <2>1. /\ hot = <<>> /\ hot' = maint.good /\ UNCHANGED <<docker, destroyed, op, shut, faults>>
        /\ maint.kill = <<>> /\ maint.cont = None
    BY <1>3 DEF EndHealthChecks, Shape
  <2>2. maint' = [pc |-> "fill", kill |-> <<>>, good |-> <<>>, need |-> maint.need, cont |-> None]
    BY <1>3, <2>1 DEF EndHealthChecks
  <2>3. Placed' /\ Leakless'
    BY <2>1, <2>2 DEF IInv, Placed, Apart, Unmade, Unreached, Leakless, Kept, Hot, Killed, Good
  <2>4. QED BY <2>1, <2>2, Tends, <2>3 DEF IInv, Typed, TypeOK, MaintType
<1>4. CASE Refill
  <2>1. /\ UNCHANGED <<hot, destroyed, op, shut>> /\ maint.need > 0
        /\ maint.kill = <<>> /\ maint.good = <<>> /\ maint.cont = None
        /\ (UNCHANGED faults \/ Fault)
    BY <1>4 DEF Refill, Shape, DockerRefuses
  <2>2. faults' \in 0..MaxFaults /\ faults' >= faults
    BY <2>1, PoolAssumption DEF Fault, IInv, Typed, TypeOK
  <2>3. CASE maint' = [maint EXCEPT !.need = @ - 1] /\ UNCHANGED docker
    <3>1. /\ UNCHANGED <<maint.pc, maint.kill, maint.good, maint.cont>>
          /\ maint'.need = maint.need - 1 /\ maint' \in MaintType
      BY <2>1, <2>3 DEF MaintType
    <3>2. maint.pc = "fill" /\ Len(hot) + Len(maint.good) + maint'.need <= MaxContainers + MinContainers
      <4>1. maint.pc = "fill"
        BY <1>4 DEF Refill
      <4>2. QED BY <3>1, <4>1
    <3>3. Typed'
      BY <2>2, <2>1, <2>3, <3>1, <3>2, Tends DEF IInv, Typed, TypeOK
    <3>4. Placed' /\ Leakless'
      BY <2>2, <2>1, <2>3 DEF IInv, Placed, Apart, Unmade, Unreached, Leakless, Kept, Hot, Good, Killed
    <3>5. QED BY <3>3, <3>4 DEF IInv
  <2>4. ASSUME NEW x \in Conts, docker[x] = "none", docker' = [docker EXCEPT ![x] = "created"],
               maint' = [maint EXCEPT !.pc = "fillstart", !.cont = x]
        PROVE  IInv'
    <3>1. /\ x \notin destroyed /\ ~Kept(x) /\ x # None /\ docker' \in [Conts -> DockerState]
          /\ \A d \in Conts : docker'[d] = IF d = x THEN "created" ELSE docker[d]
          /\ Hot' = Hot /\ Good' = Good /\ Killed' = Killed
      BY <2>1, <2>4 DEF IInv, Typed, TypeOK, DockerState, Placed, Unmade, Hot, Good, Killed
    <3>2. Placed' /\ Leakless'
      BY <2>2, <2>1, <2>4, <3>1 DEF IInv, Placed, Apart, Unmade, Unreached, Leakless, Kept, MaintType
    <3>3. QED BY <2>2, <2>1, <2>4, <3>1, Tends, <3>2 DEF IInv, Typed, TypeOK, MaintType
  <2>5. QED BY <1>4, <2>3, <2>4 DEF Refill, Set
<1>5. QED BY <1>1, <1>2, <1>3, <1>4

LEMMA MaintKeeps ==
  ASSUME IInv, KillIdle \/ Inspect
  PROVE  IInv'
<1> USE MaintFields
<1>1. CASE KillIdle
  <2> DEFINE x == Head(maint.kill)
  <2>1. /\ maint.kill # <<>> /\ maint.kill \in Seq(Conts) /\ maint.pc = "kill" /\ maint.good = <<>>
        /\ maint.cont = None /\ UNCHANGED <<hot, op, shut>>
        /\ maint' = [pc |-> "kill", kill |-> Tail(maint.kill), good |-> <<>>,
                     need |-> maint.need, cont |-> None]
    BY <1>1 DEF KillIdle, Shape, MaintType
  <2>2. /\ x \in Conts /\ maint'.kill \in Seq(Conts) /\ IsInjective(maint'.kill)
        /\ Killed = Killed' \cup {x}
    BY <2>1, TailAsSet DEF Killed, Apart
  <2>3. /\ docker' \in [Conts -> DockerState] /\ destroyed' = destroyed \cup {x}
        /\ faults' \in 0..MaxFaults /\ faults' >= faults
        /\ \A d \in Conts : /\ docker[d] # "none" => docker'[d] # "none"
                            /\ docker'[d] = "running" => docker[d] = "running"
                            /\ faults' = 0 /\ docker'[d] = "running" => d # x
    BY <1>1, <2>2, Destroys DEF KillIdle, IInv
  <2>4. /\ UNCHANGED <<maint.good, maint.cont, maint.need>> /\ Hot' = Hot /\ Good' = Good
        /\ maint' \in MaintType /\ maint'.pc = "kill"
    BY <2>1 DEF MaintType, Hot, Good
  <2> HIDE DEF x
  <2>5. Typed'
    BY <2>1, <2>2, <2>3, <2>4, Tends DEF IInv, Typed, TypeOK
  <2>6. /\ docker[x] # "none" /\ x \notin Hot \cup Good \cup {maint.cont}
        /\ \A l \in Clients : op[l].cont # x
    BY <2>2 DEF Apart, IInv, Placed, Unmade, Kept
  <2>7. Placed'
    BY <2>1, <2>2, <2>3, <2>4, <2>6, Shrinks DEF Apart
  <2>8. QED BY <2>5, <2>7, <2>1, <2>2, <2>3, <2>4 DEF IInv, Leakless, Kept
<1>2. CASE Inspect
  <2> DEFINE x == Head(hot)
  <2>1. /\ hot # <<>> /\ maint.pc = "inspect" /\ maint.kill = <<>> /\ maint.cont = None
        /\ UNCHANGED <<op, shut>> /\ hot' = Tail(hot)
    BY <1>2 DEF Inspect, Shape
  <2>2. /\ x \in Conts /\ hot' \in Seq(Conts) /\ IsInjective(hot') /\ Len(hot') = Len(hot) - 1
        /\ Hot = Hot' \cup {x} /\ x \notin Hot'
    BY <2>1, TailAsSet DEF Hot, Apart
  <2>3. /\ docker[x] # "none" /\ x \notin Good \cup {maint.cont}
        /\ \A l \in Clients : op[l].cont # x
    BY <2>2 DEF Apart, IInv, Placed, Unmade, Kept
  <2>4. CASE /\ maint' = [maint EXCEPT !.good = Append(@, x)]
             /\ UNCHANGED <<docker, destroyed, faults>>
    <3>1. /\ maint' = [pc |-> "inspect", kill |-> <<>>, good |-> Append(maint.good, x),
                       need |-> maint.need, cont |-> None]
      BY <2>1, <2>4
    <3>2. /\ maint'.good \in Seq(Conts) /\ IsInjective(maint'.good) /\ Good' = Good \cup {x}
          /\ Len(maint'.good) = Len(maint.good) + 1
      BY <2>2, <2>3, <3>1, AppendAsSet DEF MaintType, Apart, Good
    <3>3. /\ maint' \in MaintType /\ UNCHANGED <<maint.kill, maint.cont, maint.need>>
          /\ maint'.pc = "inspect" /\ Killed' = Killed
      BY <2>1, <3>1 DEF MaintType, Killed
    <3> HIDE DEF x
    <3>4. Len(hot') + Len(maint'.good) + maint'.need <= MaxContainers + MinContainers
      BY <2>2, <3>2, <3>3
    <3>5. Typed'
      BY <2>1, <2>2, <2>4, <3>3, <3>4, Tends DEF IInv, Typed, TypeOK
    <3>6. Placed' /\ Leakless'
      BY <2>1, <2>2, <2>3, <2>4, <3>2, <3>3 DEF IInv, Placed, Apart, Unmade, Unreached, Leakless, Kept
    <3>7. QED BY <3>5, <3>6 DEF IInv
  <2>5. CASE /\ SeemsDown(x) /\ Set(x, AfterRemove(x, docker[x]))
             /\ destroyed' = destroyed \cup {x} /\ UNCHANGED maint
    <3>1. docker' = docker /\ docker \in [Conts -> DockerState] /\ destroyed \in SUBSET Conts
      BY <2>5 DEF Set, AfterRemove, Registered, IInv, Typed, TypeOK
    <3>2. faults' \in 0..MaxFaults /\ faults' >= faults /\ (faults' = 0 => docker[x] # "running")
      BY <2>5, PoolAssumption DEF SeemsDown, Fault, IInv, Typed, TypeOK
    <3>3. maint' = maint /\ Good' = Good /\ Killed' = Killed
      BY <2>5 DEF Good, Killed
    <3> HIDE DEF x
    <3>4. Typed'
      BY <2>1, <2>2, <2>5, <3>1, <3>2, <3>3, Tends DEF IInv, Typed, TypeOK
    <3>5. Placed'
      BY <2>1, <2>2, <2>3, <2>5, <3>1, <3>3, Shrinks DEF Apart
    <3>6. Leakless'
      BY <2>1, <2>2, <3>1, <3>2, <3>3 DEF IInv, Leakless, Kept
    <3>7. QED BY <3>4, <3>5, <3>6 DEF IInv
  <2>6. QED BY <1>2, <2>4, <2>5 DEF Inspect
<1>3. QED BY <1>1, <1>2

LEMMA RestSteps ==
  ASSUME IInv,
         \/ BeginHealthChecks \/ RefillStart \/ EndCycle
         \/ AbortMaintenance \/ DestroyPool \/ \E c \in Conts : Die(c)
  PROVE  IInv'
<1> USE MaintFields
<1>1. /\ UNCHANGED <<hot, op>> /\ docker \in [Conts -> DockerState]
      /\ faults \in 0..MaxFaults /\ destroyed \in SUBSET Conts
      /\ shut \in {"up", "stopping", "down"} /\ Hot' = Hot
  BY DEF BeginHealthChecks, RefillStart, EndCycle, AbortMaintenance, DestroyPool, Die, Hot, IInv, Typed, TypeOK
<1>2. CASE BeginHealthChecks \/ EndCycle
  <2>1. /\ UNCHANGED <<docker, destroyed, shut, faults>> /\ maint' \in MaintType
        /\ UNCHANGED <<maint.kill, maint.good, maint.cont, maint.need>>
        /\ maint.kill = <<>> /\ maint.good = <<>> /\ maint.cont = None
        /\ maint'.pc \in {"wait", "inspect"}
    BY <1>2 DEF BeginHealthChecks, EndCycle, Asleep, Shape, MaintType
  <2>2. QED BY <1>1, <2>1, Tends, Shrinks DEF IInv, Apart, Good, Killed, Leakless, Kept
<1>3. CASE RefillStart
  <2>1. /\ UNCHANGED <<destroyed, shut, maint.kill, maint.good>>
        /\ maint.kill = <<>> /\ maint.good = <<>> /\ maint.cont \in Conts /\ maint.need > 0
    BY <1>3 DEF RefillStart, Shape, MaintType
  <2>2. /\ docker' \in [Conts -> DockerState] /\ faults' \in 0..MaxFaults
        /\ \A d \in Conts : docker[d] # "none" => docker'[d] # "none"
    BY <1>1, <2>1, <1>3, PoolAssumption DEF DockerState, Fault, RefillStart, Set
  <2>3. /\ maint' \in MaintType /\ maint'.need \in {maint.need, maint.need - 1}
        /\ \/ maint'.pc = "fillpush" /\ UNCHANGED <<maint.cont, maint.need>>
           \/ maint'.pc = "fill" /\ maint'.cont = None
    <3>1. CASE maint' = [maint EXCEPT !.pc = "fillpush"]
      BY <3>1 DEF MaintType
    <3>2. CASE maint' = [maint EXCEPT !.pc = "fill", !.need = @ - 1, !.cont = None]
      <4>1. maint' = [pc |-> "fill", kill |-> maint.kill, good |-> maint.good,
                      need |-> maint.need - 1, cont |-> None]
        BY <3>2
      <4>2. QED BY <2>1, <4>1 DEF MaintType
    <3>3. QED BY <1>3, <3>1, <3>2 DEF RefillStart, Set
  <2>4. Leakless'
    BY <1>1, <2>1, <1>3 DEF IInv, Leakless, Kept, Good, Killed, Fault, RefillStart, Set
  <2>5. QED BY <1>1, <2>1, <2>2, <2>3, Tends, Shrinks, <2>4 DEF IInv, Apart, Good, Killed
<1>4. CASE AbortMaintenance
  <2>1. Typed'
    BY <1>1, <1>4, EmptyAsSet, Tends DEF DockerState, Asleep, MaintType, Good, Killed, AbortMaintenance, Set
  <2>2. Placed'
    BY <1>1, <1>4, EmptyAsSet, Shrinks DEF Apart, Asleep, MaintType, Good, Killed, AbortMaintenance, Set
  <2>3. QED BY <1>4, <2>1, <2>2 DEF IInv, Leakless, AbortMaintenance, Set
<1>5. CASE DestroyPool
  <2>1. \A d \in Hot : docker[d] # "none"
    BY DEF IInv, Placed, Unmade, Kept
  <2>2. Placed'
    BY <1>1, <1>5, Destroys, <2>1, Shrinks DEF Apart, Good, Killed, IInv, DestroyPool, Hot
  <2>3. QED BY <1>5, <1>1, Destroys, Tends, <2>2 DEF IInv, Leakless, Shape, DestroyPool, Hot
<1>6. CASE \E c \in Conts : Die(c)
  BY <1>1, <1>6, Tends, Shrinks DEF Die, Set, DockerState, Shape, Apart, Good, Killed, IInv, Leakless, Kept
<1>7. QED BY <1>2, <1>3, <1>4, <1>5, <1>6

LEMMA IInvStep == IInv /\ [Next]_vars => IInv'
<1> SUFFICES ASSUME IInv, [Next]_vars PROVE IInv'
  OBVIOUS
<1>1. CASE Next
  BY ClientWalks, ClientMoves, MaintMoves, MaintKeeps, RestSteps, <1>1 DEF Get, GiveBack, Maintain, Next
<1>2. CASE UNCHANGED vars
  BY <1>2 DEF vars, IInv, Typed, TypeOK, Shape, Bounded, Placed, Apart, Unmade, Unreached, Leakless, Kept, Hot, Good, Killed
<1>3. QED BY <1>1, <1>2

LEMMA IInvInit == Init => IInv
<1> SUFFICES ASSUME Init PROVE IInv
  OBVIOUS
<1>1. PICK n \in 0..MinContainers :
         /\ hot \in [1..n -> Conts] /\ IsInjective(hot)
         /\ docker = [c \in Conts |-> IF c \in Hot THEN "running" ELSE "none"]
  BY DEF Init, Hot
<1>2. TypeOK
  BY <1>1, PoolAssumption DEF TypeOK, DockerState, Init, Idle, Asleep
<1>3. Shape /\ Bounded
  BY <1>1, PoolAssumption DEF Shape, Bounded, Bare, Init, Idle, Asleep
<1>4. /\ Good = {} /\ Killed = {} /\ IsInjective(hot) /\ Hot \subseteq Conts
      /\ \A c \in Conts : docker[c] = IF c \in Hot THEN "running" ELSE "none"
  BY <1>1, <1>2, <1>3, EmptyAsSet, InConts DEF Good, Killed, Typed, Init, Idle, Asleep
<1>5. Placed /\ Leakless
  BY <1>4, EmptyAsSet, PoolAssumption DEF Placed, Apart, Unmade, Unreached, Leakless, Kept, Init, Idle, Asleep
<1>6. QED BY <1>2, <1>3, <1>5 DEF IInv, Typed

LEMMA IInvAlways == Spec => []IInv
  BY IInvInit, IInvStep, PTL DEF Spec

\* Concatenated lists without a common element.
LEMMA JoinAsSet ==
  ASSUME NEW S, NEW s \in Seq(S), NEW t \in Seq(S)
  PROVE  /\ s \o t \in Seq(S) /\ ToSet(s \o t) = ToSet(s) \cup ToSet(t)
         /\ IsInjective(s) /\ IsInjective(t) /\ ToSet(s) \cap ToSet(t) = {} => IsInjective(s \o t)
<1> DEFINE u == s \o t
<1>1. /\ u \in Seq(S) /\ Len(u) = Len(s) + Len(t) /\ Len(s) \in Nat /\ Len(t) \in Nat
      /\ \A i \in 1..Len(s) : u[i] = s[i]
      /\ \A i \in 1..Len(t) : u[Len(s) + i] = t[i]
  OBVIOUS
<1> HIDE DEF u
<1>2. /\ DOMAIN u = 1..Len(u) /\ DOMAIN s = 1..Len(s) /\ DOMAIN t = 1..Len(t)
      /\ \A i \in DOMAIN u : i \in DOMAIN s \/ \E j \in DOMAIN t : i = Len(s) + j
  <2>1. \A i \in DOMAIN u : i \in 1..Len(s) \/ (i - Len(s) \in 1..Len(t) /\ i = Len(s) + (i - Len(s)))
    BY <1>1
  <2>2. QED BY <1>1, <2>1
<1>3. ToSet(u) = ToSet(s) \cup ToSet(t)
  <2>1. \A j \in DOMAIN t : Len(s) + j \in DOMAIN u /\ u[Len(s) + j] = t[j]
    BY <1>1, <1>2
  <2>2. QED BY <1>2, <1>1, <2>1 DEF ToSet
<1>4. IsInjective(s) /\ IsInjective(t) /\ ToSet(s) \cap ToSet(t) = {} => IsInjective(u)
  <2> SUFFICES ASSUME IsInjective(s), IsInjective(t), ToSet(s) \cap ToSet(t) = {},
                      NEW i \in DOMAIN u, NEW j \in DOMAIN u, u[i] = u[j]
               PROVE  i = j
    BY DEF IsInjective
  <2>1. \A k \in DOMAIN s, l \in DOMAIN t : u[k] = s[k] /\ u[Len(s) + l] = t[l] /\ s[k] # t[l]
    BY <1>1, <1>2 DEF ToSet
  <2>2. CASE i \in DOMAIN s /\ j \in DOMAIN s
    BY <1>1, <1>2, <2>2 DEF IsInjective
  <2>3. CASE \E k, l \in DOMAIN t : i = Len(s) + k /\ j = Len(s) + l
    BY <1>1, <1>2, <2>3 DEF IsInjective
  <2>4. QED BY <1>2, <2>1, <2>2, <2>3
<1>5. QED BY <1>3, <1>4 DEF u

LEMMA IInvImplies == IInv => PoolInv /\ PoolOvershoot
<1> SUFFICES ASSUME IInv PROVE PoolInv /\ PoolOvershoot
  OBVIOUS
<1> USE MaintFields
<1>1. /\ Pooled \in Seq(Conts) /\ ToSet(Pooled) = Hot \cup Good \cup Killed /\ IsInjective(Pooled)
      /\ ToSet(hot \o maint.good) = Hot \cup Good
  <2>1. /\ hot \o maint.good \in Seq(Conts) /\ ToSet(hot \o maint.good) = Hot \cup Good
        /\ IsInjective(hot \o maint.good)
    BY JoinAsSet DEF MaintType, Apart, Hot, Good
  <2> DEFINE w == hot \o maint.good
  <2> HIDE DEF w
  <2>2. w \o maint.kill \in Seq(Conts) /\ IsInjective(w \o maint.kill) /\ ToSet(w \o maint.kill) = ToSet(w) \cup Killed
    <3>1. w \in Seq(Conts) /\ IsInjective(w) /\ ToSet(w) \cap ToSet(maint.kill) = {}
      BY <2>1 DEF w, Apart, Killed
    <3>2. QED BY <3>1, JoinAsSet DEF Killed, MaintType, Apart, Pooled
  <2>3. QED BY <2>1, <2>2 DEF w, MaintType, Apart, Pooled
<1>2. ASSUME NEW c \in Conts PROVE Cardinality(Holders(c)) <= 1
  <2>1. Holders(c) = {} \/ \E k \in Clients : Holders(c) = {k}
    BY DEF Holders, Apart
  <2>2. Cardinality(Holders(c)) \in {0, 1}
    BY <2>1, FS_EmptySet, FS_Singleton
  <2>3. QED BY <2>2
<1>3. Exclusive
  BY <1>1, <1>2 DEF Exclusive, Apart
<1>4. NoRunningLeak
  BY <1>1 DEF NoRunningLeak, IInv, Leakless, Kept, Holders
<1>5. QED BY <1>3, <1>1, <1>4 DEF PoolInv, IInv, Typed, PoolOvershoot, DestroyedIsUnreachable, Placed, Unreached

(* However get_container, return_container, the maintenance cycle,
   shutdown, failures of Docker and dropped callers interleave, a container
   is in one place, a destroyed one is out of reach until shutdown, and
   nothing that runs is forgotten while nothing fails. *)
THEOREM PoolInvAlways == Spec => []PoolInv
  BY IInvAlways, IInvImplies, PTL

(* return_container trims to max_containers and perform_prewarming does not
   look: whatever the limits, the pool is over by min_containers at most. *)
THEOREM OvershootBounded == Spec => []PoolOvershoot
  BY IInvAlways, IInvImplies, PTL

----
\* The warm pool.  The lock has one holder, who waits for tasks exactly as
\* long; what is there and what it waits for stay within the target.
WarmIInv ==
  /\ prewarmed \cup aging \subseteq 1..made /\ made \in Nat /\ made <= MaxMade
  /\ warmer \in [Warmers -> {"none", "wait", "make"}]
  /\ \A v, w \in Warmers : warmer[v] = "make" /\ warmer[w] = "make" => v = w
  /\ batch \in [need : Nat, making : Nat] /\ batch.making <= batch.need
  /\ batch.need # 0 <=> PoolLocked
  /\ Cardinality(prewarmed) + batch.need <= Target
  /\ request \in [Callers -> Stages]
  /\ IsFiniteSet(Creating) /\ PermitsTaken <= MaxStartups

\* Of a finite set and some of it, and of one element more or less.
LEMMA WarmSize ==
  ASSUME WarmIInv
  PROVE  /\ IsFiniteSet(prewarmed) /\ Cardinality(prewarmed) \in Nat /\ Cardinality(Creating) \in Nat
         /\ \A s \in SUBSET prewarmed : Cardinality(s) \in Nat /\ Cardinality(s) <= Cardinality(prewarmed)
         /\ Cardinality(prewarmed \cup {made + 1}) = Cardinality(prewarmed) + 1
<1>1. IsFiniteSet(prewarmed) /\ made + 1 \notin prewarmed
  <2>1. IsFiniteSet(1..made)
    BY FS_Interval DEF WarmIInv
  <2> QED BY <2>1, FS_Subset DEF WarmIInv
<1> QED BY <1>1, FS_Subset, FS_CardinalityType, FS_AddElement DEF WarmIInv

\* A step of a request, after which it creates a container or does not.
LEMMA WarmRequest ==
  ASSUME WarmIInv, NEW c \in Callers, NEW at \in Stages,
         request' = [request EXCEPT ![c] = at], at = "create" => PermitsTaken < MaxStartups,
         batch' = batch
  PROVE  IsFiniteSet(Creating)' /\ PermitsTaken' <= MaxStartups
<1>1. Creating' = Creating \cup {c} \/ Creating' \subseteq Creating
  BY DEF WarmIInv, Creating
<1>2. at # "create" => Creating' \subseteq Creating
  BY DEF WarmIInv, Creating
<1>3. /\ IsFiniteSet(Creating') /\ Cardinality(Creating') \in Nat
      /\ Cardinality(Creating') <= Cardinality(Creating) + 1
      /\ at # "create" => Cardinality(Creating') <= Cardinality(Creating)
  <2>1. IsFiniteSet(Creating) /\ Cardinality(Creating) \in Nat
    BY WarmSize DEF WarmIInv
  <2>2. /\ IsFiniteSet(Creating \cup {c})
        /\ Cardinality(Creating \cup {c}) \in {Cardinality(Creating), Cardinality(Creating) + 1}
    BY <2>1, FS_AddElement
  <2> QED BY <1>1, <1>2, <2>1, <2>2, FS_Subset, FS_CardinalityType
<1> QED BY <1>3, WarmSize, OptimizerAssumption DEF WarmIInv, PermitsTaken

LEMMA WarmStep == WarmIInv /\ [SONext]_soVars => WarmIInv'
<1> SUFFICES ASSUME WarmIInv, [SONext]_soVars PROVE WarmIInv'
  OBVIOUS
<1> USE WarmSize, OptimizerAssumption
<1>1. ASSUME NEW w \in Warmers, Ensure(w) PROVE WarmIInv'
  BY <1>1 DEF Ensure, Missing, WarmIInv, PoolLocked, PermitsTaken, Creating
<1>2. ASSUME NEW w \in Warmers, StartMaking(w) PROVE WarmIInv'
  BY <1>2 DEF StartMaking, WarmIInv, PoolLocked, PermitsTaken, Creating
<1>3. ASSUME NEW w \in Warmers, Make(w) \/ MakeFails(w) PROVE WarmIInv'
  <2>1. /\ warmer[w] = "make" /\ TaskEnds(w) /\ request' = request /\ aging' = aging
        /\ made' \in {made, made + 1} /\ made' <= MaxMade
        /\ prewarmed' \subseteq 1..made' /\ Cardinality(prewarmed') \in Nat
        /\ Cardinality(prewarmed') <= Cardinality(prewarmed) + 1
    BY <1>3 DEF Make, MakeFails, WarmIInv
  <2>2. /\ batch' \in [need : Nat, making : Nat]
        /\ batch'.need = batch.need - 1 /\ batch'.making = batch.making - 1
    BY <1>3, <2>1 DEF TaskEnds, Make, MakeFails, WarmIInv
  <2>3. batch'.need # 0 <=> PoolLocked'
    BY <2>1, <2>2 DEF TaskEnds, PoolLocked, WarmIInv
  <2>4. Creating' = Creating
    BY <2>1 DEF Creating
  <2>5. prewarmed' \cup aging' \subseteq 1..made' /\ made' \in Nat /\ made' <= MaxMade
    BY <2>1, made \in Nat /\ aging \subseteq 1..made DEF WarmIInv
  <2> QED BY <2>1, <2>2, <2>3, <2>4, <2>5 DEF TaskEnds, WarmIInv, PermitsTaken
<1>4. ASSUME NEW c \in Callers, TakeWarm(c) PROVE WarmIInv'
  BY <1>4, WarmRequest DEF TakeWarm, WarmIInv, PoolLocked, Stages
<1>5. ASSUME NEW c \in Callers,
             AskContainer(c) \/ CountWarm(c) \/ StartCold(c) \/ CreateCold(c) \/ CountCold(c)
      PROVE  WarmIInv'
  <2>1. PICK at \in Stages :
          request' = [request EXCEPT ![c] = at] /\ (at = "create" => PermitsTaken < MaxStartups)
    BY <1>5 DEF AskContainer, CountWarm, StartCold, CreateCold, CountCold, Stages
  <2>2. /\ UNCHANGED <<prewarmed, aging, warmer, batch>>
        /\ made' \in {made, made + 1} /\ made' <= MaxMade
    BY <1>5 DEF AskContainer, CountWarm, StartCold, CreateCold, CountCold, WarmIInv
  <2>3. IsFiniteSet(Creating)' /\ PermitsTaken' <= MaxStartups
    BY <2>1, <2>2, WarmRequest
  <2>4. prewarmed' \cup aging' \subseteq 1..made' /\ made' \in Nat
    BY <2>2 DEF WarmIInv
  <2> QED BY <2>1, <2>2, <2>3, <2>4 DEF WarmIInv, PoolLocked
<1>6. CASE HealthCheck \/ (\E c \in prewarmed : Age(c)) \/ UNCHANGED soVars
  BY <1>6 DEF HealthCheck, Age, soVars, WarmIInv, PoolLocked, PermitsTaken, Creating
<1> QED BY <1>1, <1>2, <1>3, <1>4, <1>5, <1>6 DEF SONext

WarmCounts == warmUsed \in Nat /\ coldMade \in Nat /\ PanicsNeedWarmth

LEMMA WarmCountsStep == WarmIInv /\ WarmCounts /\ [SONext]_soVars => WarmCounts'
<1> SUFFICES ASSUME request \in [Callers -> Stages], WarmCounts, [SONext]_soVars PROVE WarmCounts'
  BY DEF WarmIInv
<1>1. ASSUME UNCHANGED <<request, warmUsed, coldMade>> PROVE WarmCounts'
  BY <1>1 DEF WarmCounts, PanicsNeedWarmth
<1>2. ASSUME NEW c \in Callers, NEW at \in Stages \ {"panicked"},
             request' = [request EXCEPT ![c] = at],
             warmUsed' \in {warmUsed, warmUsed + 1}, coldMade' \in {coldMade, coldMade + 1}
      PROVE  WarmCounts'
  BY <1>2 DEF WarmCounts, PanicsNeedWarmth
<1>3. ASSUME NEW c \in Callers, CountCold(c) PROVE WarmCounts'
  BY <1>3 DEF CountCold, WarmCounts, PanicsNeedWarmth
<1>4. ASSUME NEW c \in Callers,
             AskContainer(c) \/ TakeWarm(c) \/ CountWarm(c) \/ StartCold(c) \/ CreateCold(c)
      PROVE  WarmCounts'
  BY <1>1, <1>2, <1>4 DEF AskContainer, TakeWarm, CountWarm, StartCold, CreateCold, Stages, WarmCounts
<1> QED BY <1>1, <1>3, <1>4 DEF SONext, Ensure, StartMaking, Make, MakeFails, HealthCheck, Age, soVars

(* However many requests send tasks that fill the pool, those wait for one
   another: it keeps to its target, and its tasks and the requests together
   to their permits. *)
THEOREM WarmPoolInvAlways == SOSpec => []WarmPoolInv
<1>1. SOInit => WarmIInv /\ WarmCounts
  BY OptimizerAssumption, FS_EmptySet DEF SOInit, NoBatch, WarmIInv, PoolLocked, PermitsTaken, Creating, Stages,
    WarmCounts, PanicsNeedWarmth
<1>2. WarmIInv /\ WarmCounts => WarmPoolInv
  BY WarmSize, OptimizerAssumption DEF WarmIInv, WarmCounts, WarmPoolInv, SOTypeOK, PoolWithinTarget
<1> QED BY <1>1, <1>2, WarmStep, WarmCountsStep, PTL DEF SOSpec
====
