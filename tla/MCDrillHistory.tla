--------------------------- MODULE MCDrillHistory ---------------------------
(* Two checks, of which both, one or none are required, and a shorter list. *)
EXTENDS DrillHistory

Of(listed, required, rto, rpo) ==
  [listed |-> listed, required |-> required, rtoTarget |-> rto, rpoTarget |-> rpo]

MCScenarios ==
  {Of(<<1, 2>>, {1, 2}, {1}, {1}), Of(<<1, 2>>, {}, {}, {1}), Of(<<1, 2>>, {1}, {2}, {}),
   Of(<<2>>, {2}, {1}, {})}
MCAges == {{-1}, {2}, {}}
=============================================================================
