---------------------------- MODULE MCPgWriter ----------------------------
(* Small instances of PgWriter: two processes and seven command lines.     *)
EXTENDS PgWriter

CONSTANTS p1, p2

Cmd(mode, overwrite, create, index) ==
    [mode |-> mode, overwrite |-> overwrite, create |-> create, index |-> index]

\* The default options, and the ones that make loads collide.
Mixed == {Cmd("bulk", FALSE, "if-not-exists", "auto"),
          Cmd("batch", FALSE, "if-not-exists", "auto"),
          Cmd("bulk", TRUE, "if-not-exists", "always"),
          Cmd("batch", TRUE, "always", "auto"),
          Cmd("bulk", FALSE, "always", "never"),
          Cmd("bulk", TRUE, "never", "auto"),
          Cmd("batch", FALSE, "never", "always")}
============================================================================
