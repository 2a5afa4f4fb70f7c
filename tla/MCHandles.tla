----------------------------- MODULE MCHandles -----------------------------
(* The adapters: one handle of any vendor over two user turns; a spawn and    *)
(* its end; and the questions their gates and inputs are asked.  A behaviour  *)
(* is of one of the four, the others stay where they began.                   *)
EXTENDS Handles, VendorSpawn, VendorGates

\* A worktree w with a directory d, links of it to d, out of it and to nothing, a
\* directory o beside it and another link to the worktree.
MCNames == {"w", "d", "o", "a", "out", "in", "lost", ".."}
MCDirectories == {<<>>, <<"w">>, <<"w", "d">>, <<"o">>}
MCLinks ==
    [l \in {<<"w", "out">>, <<"w", "in">>, <<"w", "lost">>, <<"a">>} |->
        CASE l = <<"w", "out">> -> <<"o">>
          [] l = <<"w", "in">> -> <<"w", "d">>
          [] l = <<"w", "lost">> -> <<"o", "lost">>
          [] OTHER -> <<"w">>]
MCRoots == {<<"w">>, <<"a">>, <<"o", "d">>}

adapterVars == <<handleVars, spawnVars, inputVars, gateVars>>

AdaptersInit == HandleInit /\ SpawnInit /\ InputInit /\ GateInit

\* The handle at its beginning, of one vendor: which one does not matter to the others.
Unused == HandleInit /\ vendor = CHOOSE v \in Vendors : TRUE

AdaptersNext ==
    \/ SpawnInit /\ InputInit /\ GateInit /\ HandleNext /\ UNCHANGED <<spawnVars, inputVars, gateVars>>
    \/ Unused /\ InputInit /\ GateInit /\ SpawnNext /\ UNCHANGED <<handleVars, inputVars, gateVars>>
    \/ Unused /\ SpawnInit /\ GateInit /\ InputNext /\ UNCHANGED <<handleVars, spawnVars, gateVars>>
    \/ Unused /\ SpawnInit /\ InputInit /\ GateNext /\ UNCHANGED <<handleVars, spawnVars, inputVars>>

AdaptersSpec ==
    AdaptersInit /\ [][AdaptersNext]_adapterVars /\ HandleFairness /\ SpawnFairness

\* What an adapter owes comes, whatever the vendor does: the watchdog gives every
\* active send of a shared handle back, shutdown closes the queue, a spawn that
\* failed and a shutdown settle, and their process ends unless it is deaf.
AdaptersProgress == (HandleOwed \/ SpawnOwed) ~> ~(HandleOwed \/ SpawnOwed)
=============================================================================
