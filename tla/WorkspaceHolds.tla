--------------------------- MODULE WorkspaceHolds ---------------------------
(***************************************************************************)
(* What the queue promises about workspaces: whatever runs, a job or a     *)
(* synchronous request, holds its workspace alone from start to end.       *)
(***************************************************************************)
CONSTANTS Holders, Workspaces

VARIABLE held       \* pairs <<h, w>>: h runs in workspace w

Init == held = {}

Take(h, w) ==
    /\ \A g \in Holders : <<g, w>> \notin held
    /\ held' = held \cup {<<h, w>>}

Free(h, w) ==
    /\ <<h, w>> \in held
    /\ held' = held \ {<<h, w>>}

(* The server's process ends, and everything it ran with it.               *)
FreeAll == held' = {}

Next == FreeAll \/ \E h \in Holders, w \in Workspaces : Take(h, w) \/ Free(h, w)

Spec == Init /\ [][Next]_held
=============================================================================
