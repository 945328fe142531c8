--------------------------- MODULE MCBundleRecovery ---------------------------
(* Two runs that want the same name, r1 through publish_bundle and r2 directly, *)
(* and two recovery calls: c1 commits, c2 commits or observes.                  *)
EXTENDS BundleRecovery, TLC

CONSTANTS r1, r2, c1, c2, n1

Asked(m, r) == [run |-> r, mode |-> m]
\* Both ask for the run whose process may die.
MCAsking == {[c \in Call |-> IF c = c1 THEN Asked("commit_prepared", r2) ELSE Asked(m, r2)] :
                m \in {"observe", "commit_prepared"}}
CommitOnly == {[c \in Call |-> Asked("commit_prepared", r1)]}

OneName == [r \in Run |-> n1]
=============================================================================
