------------------------------ MODULE MCUpkeep ------------------------------
(* What runs beside the request path: the caches of the app instances and the
   learning sweep.  They share no state, so a behaviour moves one of them. *)
EXTENDS ProcessCaches, Learning, TLC

VARIABLE part
uvars == <<part, cvars, lvars>>

\* Two lookups that can overtake each other, a writer beside them and one on
\* another instance.
Homes == [l1 |-> "i1", l2 |-> "i1", w1 |-> "i1", w2 |-> "i2"]
Routes == [s1 |-> "checkout", s2 |-> "default"]
GoodOrUnproven == {[saved |-> "gain", quality |-> "ok"], [saved |-> "unknown", quality |-> "bad"]}

UpkeepInit ==
  /\ part \in {"caches", "learning"}
  /\ CacheInit /\ LearnInit
  /\ part /= "caches" => kind = "vault"
  /\ part /= "learning" => ~automode

UpkeepNext ==
  \/ part = "caches" /\ CacheNext /\ UNCHANGED <<part, lvars>>
  \/ part = "learning" /\ LearnNext /\ UNCHANGED <<part, cvars>>

\* While the caches move, no step of the idle sweep is owed, and the other way
\* round; only a new sweep has to be excused.
UpkeepSpec ==
  /\ UpkeepInit /\ [][UpkeepNext]_uvars
  /\ CacheFairness
  /\ WF_lvars(part = "learning" /\ SweepScore) /\ WF_lvars(SweepApply) /\ WF_lvars(SweepCommit)
=============================================================================
