---------------------------- MODULE MCFriendships ---------------------------
(* Instances of Friendships for TLC: MCFriendshipsAll.cfg and              *)
(* MCFriendshipsOneSided.cfg.                                              *)
EXTENDS Friendships, TLC

CONSTANTS ann, ben, cat

MCRank == [u \in Users |-> CASE u = ann -> 1 [] u = ben -> 2 [] OTHER -> 3]

RequestSymmetry == Permutations(Requests)

VARIABLE alone  \* history: no two requests have been in flight at once

OneAtATime == \A r, q \in Requests : pc[r] # "idle" /\ pc[q] # "idle" => r = q

MCInit == Init /\ alone = TRUE

MCSpec ==
  /\ MCInit
  /\ [][/\ Next
        /\ alone' = (alone /\ OneAtATime')]_<<vars, alone>>

\* crossmodule.go:35-37 and service.go:110-111 hold as long as no two requests
\* overlap, through every sequence of sends, answers, removals, claims, interrupts
\* and account deletions; MCFriendshipsOneSided shows what an overlap does.
OrderlyWhenAlone == alone => Symmetric /\ NoCrossedRequests
=============================================================================
