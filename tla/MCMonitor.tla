----------------------------- MODULE MCMonitor -----------------------------
(* One agent, two runs and one page.  A behaviour has one of four budgets: *)
(* many lines; replaced files, restarts and failing writes; the page; the  *)
(* page across a restart and a failing write.                              *)
EXTENDS Dashboard

B(events, lives, rotations, failures, pages) ==
  [events |-> events, instants |-> 1, lives |-> lives,
   rotations |-> rotations, failures |-> failures, pages |-> pages]

MCBudgets ==
  { B(3, 1, 0, {}, 0), B(2, 2, 1, {1, 2}, 0), B(2, 1, 0, {}, 1),
    B(1, 2, 0, {1}, 2) }
=============================================================================
