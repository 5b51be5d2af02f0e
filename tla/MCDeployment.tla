----------------------------- MODULE MCDeployment -----------------------------
(* Deployment with three releases: one, its successor, which brings another*)
(* content, a migration that was merged late and a destructive one, and a  *)
(* wrong one, in which a migration was edited and the runtime replaced.    *)
EXTENDS Deployment, TLC

Migration(id, phase, text) == [id |-> id, phase |-> phase, text |-> text]

MCReleases == {"old", "new", "wrong"}
MCRegistry == [
  old |-> <<Migration(1, "expand", 0), Migration(3, "expand", 0)>>,
  new |-> <<Migration(1, "expand", 0), Migration(2, "backfill", 0), Migration(3, "expand", 0),
            Migration(4, "contract", 0)>>,
  wrong |-> <<Migration(1, "expand", 0), Migration(3, "expand", 1)>>]
MCBundles == [old |-> "first", new |-> "second", wrong |-> "first"]
MCProfile == [old |-> 1, new |-> 1, wrong |-> 2]

OperatorSymmetry == Permutations(Operators)
=============================================================================
