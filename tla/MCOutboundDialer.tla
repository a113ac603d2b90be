-------------------------- MODULE MCOutboundDialer --------------------------
(* Values for the constants of OutboundDialer in its TLC runs. *)
EXTENDS OutboundDialer, TLC

\* The statuses other than "running" differ only in the pending leads that
\* "stopped" may cancel.
AllOps     == {"running", "stopped", "archive", "cancel", "ignore", "delete",
               "recycle", "import"}
Everywhere == AllH

\* Leads and attempts are interchangeable; used for safety runs only.
Symmetry == Permutations(Leads) \cup Permutations(Attempts)

\* The callee may hang up at any step up to the one that decides for a human
\* and while the conversation runs, but not while it is being set up.
BeforeConversation == AllH \ {"amdHuman", "human", "save", "vars", "ids", "media"}

\* A task may be late at every step but the one that hands over a human.
NotDeciding == AllH \ {"human"}
=============================================================================
