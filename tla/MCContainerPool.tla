---- MODULE MCContainerPool ----
(* The two pools of containers made ahead of demand.  They know nothing of
   each other: a behaviour is that of one, and Focus names those of a run.

   ContainerPool: two clients, a pool of one and three containers, so that
   the pool is trimmed, refilled past its limit and runs dry.
   StartupOptimizer: a caller, two warming tasks, and one permit for
   whoever creates a container. *)
EXTENDS ContainerPool, StartupOptimizer, TLC

CONSTANTS Focus,  \* of {"pool", "startup"}
          k1, k2, c1, c2, c3

VARIABLE focus

poolsVars == <<focus, vars, soVars>>

PoolsInit ==
  /\ focus \in Focus /\ Init /\ SOInit
  \* Of the other pool's initial states, one will do.
  /\ focus = "startup" => hot = <<c1>>
  /\ focus = "pool" => warmer[CHOOSE w \in Warmers : TRUE] # "none"

Pool    == focus = "pool" /\ UNCHANGED <<focus, soVars>>
Startup == focus = "startup" /\ UNCHANGED <<focus, vars>>

PoolsNext ==
  \/ Pool /\ Next
  \/ Startup /\ SONext

(* Tasks run.  Nobody need be favoured: what holds the lock or the permit
   lets go of it, and nobody comes back for it before the caller does. *)
StartupFair ==
  /\ \A w \in Warmers :
        WF_soVars(Startup /\ StartMaking(w)) /\ WF_soVars(Startup /\ (Make(w) \/ MakeFails(w)))
  /\ \A c \in Callers :
        /\ WF_soVars(Startup /\ TakeWarm(c)) /\ WF_soVars(Startup /\ CountWarm(c))
        /\ WF_soVars(Startup /\ StartCold(c))
        /\ WF_soVars(Startup /\ CreateCold(c)) /\ WF_soVars(Startup /\ CountCold(c))

PoolsSpec == PoolsInit /\ [][PoolsNext]_poolsVars /\ WF_vars(Pool /\ Maintain) /\ StartupFair

TwoClients == {k1, k2}
ThreeConts == {c1, c2, c3}
====
