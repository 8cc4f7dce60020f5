--------------------------- MODULE MCTabIsolation ---------------------------
(* A small instance of TabIsolation.                                       *)
EXTENDS TabIsolation, TLC

\* Clients, jobs and AutoDOM's tabs are interchangeable: which of the tabs it
\* may open is only told apart by TabsInit.
Symmetry == Permutations(Clients) \cup Permutations(Jobs)
            \cup Permutations(Tabs \ UserTabs)

=============================================================================
