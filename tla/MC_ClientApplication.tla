------------------------ MODULE MC_ClientApplication ------------------------
(* Small instances of ClientApplication.                                   *)
EXTENDS ClientApplication

Configured(auto, count) ==
    [ autoRetry |-> auto, retryCount |-> count,
      userStarts |-> FALSE, runnersThrow |-> FALSE, destroys |-> FALSE ]

\* A limit of one reconnection, no limit, no reconnection, a program that
\* calls startApplication itself, one whose runner throws, and one that
\* destroys its client.
AllConfigs ==
    { Configured(TRUE, 1), Configured(TRUE, -1), Configured(FALSE, -1),
      [Configured(FALSE, -1) EXCEPT !.userStarts = TRUE],
      [Configured(TRUE, 1) EXCEPT !.runnersThrow = TRUE],
      [Configured(TRUE, -1) EXCEPT !.destroys = TRUE] }

NoLimit == { Configured(TRUE, -1) }
=============================================================================
