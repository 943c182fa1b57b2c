--------------------------- MODULE MCScanLifecycle ---------------------------
(***************************************************************************)
(* Small instances of ScanLifecycle.  Two roots with two phases each: jobs *)
(* a and b share the first phase of the first root (b has a result to      *)
(* reuse), c and the AI job i are the second phase of the second root, and *)
(* the two phases in between have no selected tool.                        *)
(***************************************************************************)
EXTENDS ScanLifecycle, TLC

CONSTANTS a, b, c, i

MCJobs == {a, b, c, i}

MCDomainOf == (a :> 1) @@ (b :> 1) @@ (c :> 2) @@ (i :> 2)

MCPhaseOf == (a :> 1) @@ (b :> 1) @@ (c :> 2) @@ (i :> 2)

\* Without the AI job: the instances with project requests.
MCSmallJobs == {a, b, c}

MCSmallDomainOf == (a :> 1) @@ (b :> 1) @@ (c :> 1)

MCSmallPhaseOf == (a :> 1) @@ (b :> 1) @@ (c :> 2)

MCTwo == {2}

MCReuse == {b}

MCAI == {i}

=============================================================================
