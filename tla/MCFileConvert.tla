--------------------------- MODULE MCFileConvert ---------------------------
(***************************************************************************)
(* Small instances of FileConvert: two batches of two rows and one row.    *)
(* AllJobs is cut to a plain command and the commands that differ from it  *)
(* in what one group of decisions looks at.                                *)
(***************************************************************************)
EXTENDS FileConvert

McEnds == [b \in 0..2 |-> IF b = 2 THEN 3 ELSE 2 * b]

Plain(d) == [driver |-> d, overwrite |-> FALSE, create |-> "if-not-exists",
             index |-> TRUE, loss |-> "error", reproject |-> FALSE,
             insert |-> "auto", old |-> FALSE, self |-> FALSE, crs |-> "epsg",
             fieldCrs |-> "epsg", geom |-> TRUE, cols |-> "plain",
             rows |-> <<"plain", "plain", "plain">>]

\* One special row, first, in the middle of a batch, or last.
RowsWith(k) == {[i \in 1..3 |-> IF i = n THEN k ELSE "plain"] : n \in 1..3}

Targets(j) == {[j EXCEPT !.old = o, !.overwrite = w, !.create = c] :
                  o \in BOOLEAN, w \in BOOLEAN,
                  c \in IF j.driver = "spatialite"
                        THEN {"if-not-exists", "always", "never"}
                        ELSE {"if-not-exists"}}

Losses(j) == {[j EXCEPT !.loss = l] : l \in {"error", "skip"}}

PlainJobs == UNION {Targets(Plain(d)) : d \in Drivers}

RowJobs == {[j EXCEPT !.rows = r] : j \in PlainJobs,
              r \in UNION {RowsWith(k) : k \in RowKinds}}

CrsJobs == UNION {Losses([j EXCEPT !.crs = c, !.fieldCrs = c, !.reproject = p]) :
                    j \in PlainJobs, c \in CrsKinds, p \in BOOLEAN}

ColumnJobs == UNION {Losses([j EXCEPT !.cols = k, !.geom = g]) :
                       j \in PlainJobs, k \in {"plain", "lossy", "foreign"},
                       g \in BOOLEAN}

OtherJobs == {[j EXCEPT !.insert = "bulk"] : j \in PlainJobs}

\* Onto the source itself; SpatiaLite's append of a table to itself is left
\* out, it has no end once the table fills a page.
SelfJobs == {[j EXCEPT !.self = TRUE] :
               j \in {k \in PlainJobs : k.old /\ (k.driver = "spatialite" => k.overwrite)}}

McJobs == RowJobs \cup CrsJobs \cup ColumnJobs \cup OtherJobs \cup SelfJobs
============================================================================
