-------------------------- MODULE MCSampledReader --------------------------
(***************************************************************************)
(* Small instances of SampledReader: up to four rows, batches of two, a    *)
(* sample that ends before, at and after the end of a batch and of the     *)
(* source.                                                                 *)
(***************************************************************************)
EXTENDS SampledReader

Layers(cells, geoms, n) ==
    UNION {[1..k -> [cell : cells, geom : geoms]] : k \in 0..n}

JobsOf(f, limits, layers, cuts, crs) ==
    {[format |-> f, limit |-> l, rows |-> r, cut |-> c, crs |-> p] :
        l \in limits, r \in layers, c \in cuts, p \in crs}

McJobs ==
    JobsOf("fgb", 0..4, Layers(Cells.fgb, {"point"}, 4), {"whole"}, {"fine"})
    \cup JobsOf("ndjson", 0..2, Layers(Cells.ndjson, {"point"}, 3), {"whole"}, {"fine"})
    \cup JobsOf("fc", 0..3, Layers({"float", "int", "null"}, {"point"}, 3),
                {"whole", "inside", "comma"}, {"fine", "unknown"})
    \cup JobsOf("fc", {3}, Layers({"text"}, Geoms, 4), {"whole"}, {"fine"})
    \cup JobsOf("csv", {0}, Layers({"text"}, Geoms, 4), {"whole", "inside"}, {"fine"})
    \cup JobsOf("query", {0}, Layers(Cells.query, {"point"}, 3), {"whole"}, {"fine"})
    \cup JobsOf("query", {0}, Layers({"int", "real"}, Geoms, 2), {"whole"}, {"fine"})
============================================================================
