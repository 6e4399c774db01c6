------------------------------ MODULE MCChaos ------------------------------
\* A small instance of Chaos.
EXTENDS Chaos

CONSTANTS w1, w2, l1

Cell(raw, workload, proto, hasFd) ==
    [raw |-> raw, workload |-> workload, proto |-> proto, hasFd |-> hasFd]

MCCells ==
    { Cell(<<"vanish">>, "sse", "h3", TRUE),
      Cell(<<"vanish">>, "requests", "h2", TRUE),
      Cell(<<"all">>, "mixed", "h1", TRUE),
      Cell(<<"idle", "", "idle", "abort">>, "ws", "h1", FALSE),
      Cell(<<"abort", "sulk">>, "ws", "h1", TRUE),
      Cell(<<"none">>, "ws", "h1", TRUE) }

=============================================================================
