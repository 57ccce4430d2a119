--------------------------- MODULE MCMssqlWriter ---------------------------
(* Small instances of MssqlWriter: one or two processes, uneven batches.   *)
EXTENDS MssqlWriter

CONSTANTS p1, p2

Cmd(mode, overwrite, create, index, bbox) ==
    [mode |-> mode, overwrite |-> overwrite, create |-> create,
     index |-> index, bbox |-> bbox]

\* The default options, and the ones that make loads collide.
Mixed == {Cmd("bulk", FALSE, "if-not-exists", "auto", TRUE),
          Cmd("batch", FALSE, "if-not-exists", "auto", FALSE),
          Cmd("bulk", TRUE, "always", "always", TRUE),
          Cmd("batch", FALSE, "always", "never", TRUE),
          Cmd("batch", TRUE, "never", "auto", TRUE),
          Cmd("bulk", FALSE, "never", "always", TRUE),
          Cmd("batch", FALSE, "never", "always", FALSE)}

\* Batches of 2, 0, 3 and 1 rows.
Uneven == [b \in 0..4 |-> <<0, 2, 2, 5, 6>>[b + 1]]
============================================================================
