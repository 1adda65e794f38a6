------------------------- MODULE MCBundleProcessor -------------------------
\* Instances of BundleProcessor for TLC.
EXTENDS BundleProcessor

Plain == [ident |-> 1, dest |-> "agent", version |-> 7, custody |-> FALSE,
          acceptable |-> TRUE, wants |-> {}, hops_left |-> TRUE, deadline |-> 1,
          blocks |-> <<{"payload"}>>]

\* Two bundles with different deadlines for agents (and their copies), one
\* for nobody, one that expires at once; bundles to forward with and without
\* reports, hops and unknown blocks; custody.
AgentKinds == {Plain, [Plain EXCEPT !.ident = 2, !.deadline = 0]}
OddKinds == {[Plain EXCEPT !.dest = "local", !.wants = {"delivery", "deletion"}],
             [Plain EXCEPT !.dest = "record"]}
RemoteKinds == {[Plain EXCEPT !.dest = "remote"],
                [Plain EXCEPT !.dest = "remote", !.version = 6, !.wants = {"reception", "forwarding"}],
                [Plain EXCEPT !.dest = "remote", !.hops_left = FALSE, !.wants = {"deletion"}],
                [Plain EXCEPT !.dest = "remote",
                   !.blocks = <<{"report", "discard"}, {"delete"}, {"delete"}, {"payload"}>>]}
CustodyKinds == {[Plain EXCEPT !.dest = "remote", !.version = 6, !.custody = TRUE, !.acceptable = a]
                   : a \in BOOLEAN}

AllKinds == AgentKinds \cup OddKinds \cup RemoteKinds \cup CustodyKinds

ASSUME CopiesOfThese == CopiesAgree
=============================================================================
