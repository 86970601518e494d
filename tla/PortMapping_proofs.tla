---- MODULE PortMapping_proofs ----
(* Theorems about the port mapping manager as PortService exposes it
   (Service), for every set of threads, sandboxes and ports and every
   limit. *)
EXTENDS PortMapping, FiniteSetTheorems, TLAPS

(* A list with one more entry holds one more port; the empty list none. *)
LEMMA HeldAppend ==
  ASSUME NEW S, NEW s \in Seq(S), NEW x \in S
  PROVE  /\ Append(s, x) \in Seq(S)
         /\ Len(Append(s, x)) = Len(s) + 1
         /\ Held(Append(s, x)) = Held(s) \cup {x}
  BY DEF Held

LEMMA HeldEmpty == Held(<<>>) = {}
  BY DEF Held

(* A list holds finitely many ports. *)
LEMMA HeldFinite == ASSUME NEW S, NEW s \in Seq(S) PROVE IsFiniteSet(Held(s))
  BY FS_NatSurjection DEF Held, Surjection, ExistsSurjection

----
(* Every step of every call keeps the maps and the threads well-typed. *)
LEMMA TypeStep == TypeOK /\ [ServiceNext]_vars => TypeOK'
<1> SUFFICES ASSUME TypeOK, [ServiceNext]_vars PROVE TypeOK' OBVIOUS
<1> USE DEF TypeOK
<1>1. ASSUME NEW t \in Threads, NEW s \in Sandboxes, CheckLimit(t, s) PROVE TypeOK'
  BY <1>1 DEF CheckLimit
<1>2. ASSUME NEW t \in Threads, NEW s \in Sandboxes, TakePorts(t, s) PROVE TypeOK'
  BY <1>2 DEF TakePorts
<1>3. ASSUME NEW t \in Threads, NEW p \in Ports, Allocate(t, p) PROVE TypeOK'
  BY <1>3 DEF Allocate, Idle
<1>4. ASSUME NEW t \in Threads, AllocateFails(t) PROVE TypeOK'
  BY <1>4 DEF Idle, AllocateFails
<1>5. ASSUME NEW t \in Threads, FreePorts(t) PROVE TypeOK'
  <2>1. Cardinality(Live \cap Held(op[t].ports)) \in Nat
    BY HeldFinite, FS_Subset, FS_CardinalityType
  <2>2. QED BY <1>5, <2>1 DEF FreePorts, Idle, Monus
<1>6. CASE UNCHANGED vars BY <1>6 DEF vars
<1>7. QED BY <1>1, <1>2, <1>3, <1>4, <1>5, <1>6 DEF ServiceNext, Call, Continue

(* The maps and the threads stay well-typed, whatever the threads call. *)
THEOREM TypeCorrect == Service => []TypeOK
<1>1. Init => TypeOK BY DEF Init, TypeOK, Idle
<1>2. QED BY <1>1, TypeStep, PTL DEF Service

----
(* The three facts about ownership are inductive together, and only
   together: a release_ports may free its list because what it took is its
   sandbox's own (ListedIsOwned) and in no other list (NoSharedRelease). *)
LEMMA OwnershipStep == TypeOK /\ TypeOK' /\ Ownership /\ [ServiceNext]_vars => Ownership'
<1> SUFFICES ASSUME TypeOK, TypeOK', Ownership, [ServiceNext]_vars PROVE Ownership'
  OBVIOUS
<1> USE DEF Ownership, ListedIsOwned, NoLostPort, NoSharedRelease
<1> DEFINE Unmoved(t) == Freeing(t)' = Freeing(t)
<1>1. ASSUME NEW t \in Threads, NEW s \in Sandboxes, CheckLimit(t, s) PROVE Ownership'
  <2>1. \A u \in Threads : Unmoved(u) BY <1>1 DEF CheckLimit, Freeing, TypeOK
  <2>2. \A u \in Threads : Freeing(u) # {} => op'[u].sb = op[u].sb
    BY <1>1 DEF CheckLimit, Freeing, TypeOK
  <2>3. QED BY <1>1, <2>1, <2>2 DEF CheckLimit, Live
<1>2. ASSUME NEW t \in Threads, NEW s \in Sandboxes, TakePorts(t, s) PROVE Ownership'
  <2>1. /\ Freeing(t)' = Held(sandbox_ports[s])
        /\ op'[t].sb = s
        /\ Freeing(t) = {}
    BY <1>2 DEF TakePorts, Freeing, TypeOK
  <2>2. \A u \in Threads \ {t} : Unmoved(u) /\ op'[u] = op[u]
    BY <1>2 DEF TakePorts, Freeing, TypeOK
  <2>3. \A r \in Sandboxes : Held(sandbox_ports'[r]) =
                               IF r = s THEN {} ELSE Held(sandbox_ports[r])
    BY <1>2, HeldEmpty DEF TakePorts, TypeOK
  <2>4. NoLostPort'
    <3> SUFFICES ASSUME NEW p \in Live
                 PROVE  \/ p \in Held(sandbox_ports'[allocated[p]])
                        \/ \E u \in Threads : p \in Freeing(u)'
      BY <1>2 DEF TakePorts, Live
    <3>0. allocated[p] \in Sandboxes BY DEF Live, TypeOK
    <3>1. CASE p \in Held(sandbox_ports[allocated[p]]) BY <3>0, <3>1, <2>1, <2>3
    <3>2. CASE \E u \in Threads : p \in Freeing(u) BY <3>2, <2>1, <2>2
    <3>3. QED BY <3>1, <3>2
  <2>5. QED BY <2>1, <2>2, <2>3, <1>2, <2>4 DEF TakePorts, Live
<1>3. ASSUME NEW t \in Threads, NEW p \in Ports, Allocate(t, p) PROVE Ownership'
  <2>0. PICK s \in Sandboxes : s = op[t].sb BY <1>3 DEF Allocate, TypeOK
  <2>1. \A u \in Threads : Unmoved(u) BY <1>3 DEF Allocate, Freeing, TypeOK, Idle
  <2>2. \A r \in Sandboxes : \A q : q \in Held(sandbox_ports'[r]) <=>
                                   q \in Held(sandbox_ports[r]) \/ (r = s /\ q = p)
    BY <1>3, <2>0, HeldAppend DEF Allocate, TypeOK
  <2>3. \A u \in Threads : p \notin Freeing(u)
    BY <1>3, <2>0, PortAssumption DEF Freeing, TypeOK, Allocate
  <2>4. ListedIsOwned'
    BY <1>3, <2>0, <2>2, PortAssumption, <2>1, <2>3 DEF TypeOK, Allocate, Freeing
  <2>5. NoLostPort'
    <3> SUFFICES ASSUME NEW q \in Live'
                 PROVE  \/ q \in Held(sandbox_ports'[allocated'[q]])
                        \/ \E u \in Threads : q \in Freeing(u)'
      OBVIOUS
    <3>1. CASE q = p BY <3>1, <1>3, <2>0, <2>2 DEF TypeOK, Live, Allocate
    <3>2. CASE q # p
      <4>1. q \in Live /\ allocated'[q] = allocated[q] /\ allocated[q] \in Sandboxes
        BY <3>2, <1>3, <2>0 DEF TypeOK, Live, Allocate
      <4>2. QED BY <4>1, <2>1, <2>2
    <3>3. QED BY <3>1, <3>2
  <2>6. QED BY <2>4, <2>5, <2>2, <2>3, <2>1
<1>4. ASSUME NEW t \in Threads, AllocateFails(t) PROVE Ownership'
  <2>1. \A u \in Threads : Unmoved(u) BY <1>4 DEF AllocateFails, Freeing, TypeOK, Idle
  <2>2. \A u \in Threads : Freeing(u) # {} => op'[u].sb = op[u].sb
    BY <1>4 DEF AllocateFails, Freeing, TypeOK
  <2>3. QED BY <1>4, <2>1, <2>2 DEF AllocateFails, Live
<1>5. ASSUME NEW t \in Threads, FreePorts(t) PROVE Ownership'
  <2>1. Freeing(t) = Held(op[t].ports) /\ Freeing(t)' = {}
    BY <1>5 DEF FreePorts, Freeing, TypeOK, Idle
  <2>2. \A u \in Threads \ {t} : Unmoved(u) /\ op'[u] = op[u]
    BY <1>5 DEF FreePorts, Freeing, TypeOK
  <2>3. \A s \in Sandboxes : Held(sandbox_ports[s]) \subseteq Ports BY DEF TypeOK, Held
  <2>4. \A u \in Threads : Freeing(u) \subseteq Ports BY DEF TypeOK, Held, Freeing
  <2>5. QED BY <1>5, <2>1, <2>3, <2>2, <2>4 DEF Live, FreePorts
<1>6. CASE UNCHANGED vars BY <1>6 DEF vars, Live, Freeing
<1>7. QED BY <1>1, <1>2, <1>3, <1>4, <1>5, <1>6 DEF ServiceNext, Call, Continue

(* No port is lost, shared by two sandboxes or freed twice, however the
   calls of allocate_port and release_ports interleave. *)
THEOREM OwnershipCorrect == Service => []Ownership
<1>1. Init => Ownership
  BY HeldEmpty DEF Init, Idle, Freeing, Live, Ownership, ListedIsOwned, NoLostPort, NoSharedRelease
<1>2. QED BY <1>1, TypeCorrect, OwnershipStep, PTL DEF Service

(* Between allocate_port and release_ports alone, a release frees only the
   ports of the sandbox it was called for. *)
THEOREM ReleaseCorrect == Service => ReleasesOnlyOwn
<1>1. TypeOK /\ Ownership /\ [ServiceNext]_vars =>
        [\A t \in Threads : op[t].pc = "free" /\ op'[t].pc = "idle" =>
            \A p \in Ports : allocated[p] # allocated'[p] => allocated[p] = op[t].sb]_vars
  BY DEF FreePorts, Freeing, Ownership, ListedIsOwned, TypeOK, Call, Continue, CheckLimit, TakePorts, Allocate,
    AllocateFails, ServiceNext
<1>2. QED BY <1>1, TypeCorrect, OwnershipCorrect, PTL DEF Service, ReleasesOnlyOwn

(* The two maps and three lock sections implement the registry of owners. *)
THEOREM RefinesRegistry == Service => ImplementsRegistry
<1>1. Init => Abstract!RegistryInit BY DEF Init, Abstract!RegistryInit
<1>2. TypeOK /\ Ownership /\ [ServiceNext]_vars => [Abstract!RegistryNext]_allocated
  <2> SUFFICES ASSUME TypeOK, Ownership, [ServiceNext]_vars
               PROVE  [Abstract!RegistryNext]_allocated
    OBVIOUS
  <2>1. ASSUME NEW t \in Threads, NEW s \in Sandboxes, CheckLimit(t, s) \/ TakePorts(t, s)
        PROVE  UNCHANGED allocated
    BY <2>1 DEF CheckLimit, TakePorts
  <2>2. ASSUME NEW t \in Threads, NEW p \in Ports, Allocate(t, p)
        PROVE  \E s \in Sandboxes : Abstract!Grant(s, p)
    BY <2>2 DEF Allocate, TypeOK, Abstract!Grant
  <2>3. ASSUME NEW t \in Threads, FreePorts(t)
        PROVE  \E s \in Sandboxes, P \in SUBSET Ports : Abstract!Revoke(s, P)
    <3>1. /\ Freeing(t) = Held(op[t].ports)
          /\ op[t].sb \in Sandboxes
          /\ Freeing(t) \in SUBSET Ports
      BY <2>3 DEF FreePorts, Freeing, TypeOK, Held
    <3>2. Abstract!Revoke(op[t].sb, Freeing(t))
      BY <2>3, <3>1 DEF FreePorts, Abstract!Revoke, Ownership, ListedIsOwned
    <3>3. QED BY <3>1, <3>2
  <2>4. ASSUME NEW t \in Threads, AllocateFails(t) PROVE UNCHANGED allocated
    BY <2>4 DEF AllocateFails
  <2>5. CASE UNCHANGED vars BY <2>5 DEF vars
  <2>6. QED BY <2>1, <2>2, <2>3, <2>4, <2>5 DEF ServiceNext, Call, Continue, Abstract!RegistryNext
<1>3. QED BY <1>1, <1>2, TypeCorrect, OwnershipCorrect, PTL DEF Service, ImplementsRegistry, Abstract!Registry

----
(* The threads between the limit check and the insertion, counted together
   with the entries they will add: the strengthening that makes the bound
   on the overshoot inductive. *)
Allocating(s) == {t \in Threads : op[t].pc = "allocate" /\ op[t].sb = s}

LimitInv == \A s \in Sandboxes :
    Len(sandbox_ports[s]) + Cardinality(Allocating(s)) < MaxPorts + Cardinality(Threads)

LEMMA AllocatingFinite ==
  ASSUME NEW s
  PROVE  /\ IsFiniteSet(Allocating(s))
         /\ Cardinality(Allocating(s)) \in Nat
         /\ Cardinality(Allocating(s)) <= Cardinality(Threads)
         /\ Cardinality(Threads) \in Nat /\ Cardinality(Threads) > 0
  BY PortAssumption, FS_CardinalityType, FS_EmptySet, FS_Subset DEF Allocating

(* max_ports_per_sandbox is exceeded by fewer ports than there are threads. *)
THEOREM LimitBounded == Service => []LimitOvershoot
<1>1. Init => LimitInv
  BY FS_EmptySet, AllocatingFinite, PortAssumption DEF LimitInv, Init, Idle, Allocating
<1>2. TypeOK /\ LimitInv /\ [ServiceNext]_vars => LimitInv'
  <2> SUFFICES ASSUME TypeOK, LimitInv, [ServiceNext]_vars, NEW r \in Sandboxes
               PROVE  Len(sandbox_ports'[r]) + Cardinality(Allocating(r)')
                        < MaxPorts + Cardinality(Threads)
    BY DEF LimitInv
  <2> DEFINE Bound(n, S) == n + Cardinality(S) < MaxPorts + Cardinality(Threads)
  <2>0. /\ Bound(Len(sandbox_ports[r]), Allocating(r))
        /\ Len(sandbox_ports[r]) \in Nat
        /\ MaxPorts \in Nat
        /\ None \notin Sandboxes
    BY PortAssumption DEF LimitInv, TypeOK
  <2>1. ASSUME NEW t \in Threads, NEW s \in Sandboxes, CheckLimit(t, s)
        PROVE  Bound(Len(sandbox_ports'[r]), Allocating(r)')
    <3>1. CASE r = s
      BY <2>1, <3>1, PortAssumption, FS_Subset, FS_CardinalityType, <2>0, AllocatingFinite DEF CheckLimit, Allocating
    <3>2. CASE r # s BY <2>1, <3>2, <2>0 DEF CheckLimit, Allocating, TypeOK
    <3>3. QED BY <3>1, <3>2
  <2>2. ASSUME NEW t \in Threads, NEW s \in Sandboxes, TakePorts(t, s)
        PROVE  Bound(Len(sandbox_ports'[r]), Allocating(r)')
    <3>1. Allocating(r)' = Allocating(r) BY <2>2 DEF TakePorts, Allocating, TypeOK
    <3>2. QED BY <3>1, <2>2, <2>0, AllocatingFinite DEF TakePorts, TypeOK
  <2>3. ASSUME NEW t \in Threads, NEW p \in Ports, Allocate(t, p)
        PROVE  Bound(Len(sandbox_ports'[r]), Allocating(r)')
    <3>1. CASE r = op[t].sb
      <4>1. Allocating(r)' = Allocating(r) \ {t} /\ t \in Allocating(r)
        BY <2>3, <3>1, <2>0 DEF Allocate, Allocating, TypeOK, Idle
      <4>2. Cardinality(Allocating(r)') = Cardinality(Allocating(r)) - 1
        BY <4>1, AllocatingFinite, FS_RemoveElement
      <4>3. QED BY <4>2, <2>3, <3>1, <2>0, AllocatingFinite DEF Allocate, TypeOK
    <3>2. CASE r # op[t].sb BY <2>3, <3>2, <2>0 DEF Allocate, Allocating, TypeOK, Idle
    <3>3. QED BY <3>1, <3>2
  <2>4. ASSUME NEW t \in Threads, AllocateFails(t) \/ FreePorts(t)
        PROVE  Bound(Len(sandbox_ports'[r]), Allocating(r)')
    <3>1. Allocating(r)' \in SUBSET Allocating(r)
      <4>1. \A u \in Threads : op'[u].pc = "allocate" => op'[u] = op[u]
        BY <2>4 DEF TypeOK, Idle, AllocateFails, FreePorts
      <4>2. QED BY <4>1 DEF Allocating
    <3>2. QED BY <2>4, <3>1, AllocatingFinite, FS_Subset, FS_CardinalityType, <2>0 DEF AllocateFails, FreePorts
  <2>5. CASE UNCHANGED vars BY <2>5, <2>0 DEF vars, Allocating
  <2>6. QED BY <2>1, <2>2, <2>3, <2>4, <2>5 DEF ServiceNext, Call, Continue
<1>3. TypeOK /\ LimitInv => LimitOvershoot
  BY PortAssumption, AllocatingFinite DEF LimitOvershoot, TypeOK, LimitInv
<1>4. QED BY <1>1, <1>2, <1>3, TypeCorrect, PTL DEF Service
====
