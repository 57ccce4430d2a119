---------------------------- MODULE ColumnTypes ----------------------------
(***************************************************************************)
(* What each driver makes of one attribute cell: the declared type its     *)
(* writer chooses for an Arrow type, what it stores of the value under a   *)
(* loss policy, and the Arrow type and value its reader makes of that.     *)
(*                                                                         *)
(* A value is its kind and a number that says how much room it needs: the  *)
(* bits of an integer or of a float's mantissa, the length of a text, 6 or *)
(* 9 for a time in micro- or nanoseconds; for a decimal it is the value    *)
(* itself.  `lost` is set by whatever changes the value.  A value keeps    *)
(* its kind when it travels as text: 42 in a Utf8 column is an int.        *)
(***************************************************************************)
EXTENDS PgNumeric

CONSTANTS F32Exact,     \* decimals up to here are exact in f32,
          F64Exact,     \* and up to here in f64
          RustDecimal   \* decimals up to here fit rust_decimal's 96 bits

ASSUME ColumnTypesAssumption == F32Exact \in Nat /\ F64Exact \in Nat /\ RustDecimal \in Nat

Type(t)     == [t |-> t, s |-> 0]
Dec(s)      == [t |-> "Decimal", s |-> s]
Value(k, n) == [k |-> k, n |-> n, lost |-> FALSE]
Null        == Value("null", 0)
Lost(v)     == [v EXCEPT !.lost = TRUE]
Gone        == Lost(Null)       \* a value that is read as null

\* What a writer does with a cell: it stores it (`as` is the SQLite storage
\* class, or what the texts of a FlatGeobuf column are, `w` the bytes of a
\* geometry or of a numeric), fails, or has left the column out.
Stored(decl, as, v) == [at |-> "stored", decl |-> decl, as |-> as, v |-> v, w |-> <<>>]
WriteError == [Stored(Type("-"), "-", Null) EXCEPT !.at = "refused"]
LeftOut    == [Stored(Type("-"), "-", Null) EXCEPT !.at = "dropped"]

\* What a reader makes of it.
Arrow(ty, v) == [at |-> "arrow", type |-> ty, v |-> v, w |-> <<>>]
ReadError    == [Arrow(Type("-"), Null) EXCEPT !.at = "unreadable"]

\* apply_on_loss: stop, go on, or leave it out.
OnLoss(loss, warned, skipped) ==
    CASE loss = "error" -> WriteError [] loss = "warn" -> warned [] OTHER -> skipped

Ints   == {"Int8", "Int16", "Int32", "Int64", "UInt8", "UInt16", "UInt32", "UInt64"}
Floats == {"Float32", "Float64"}
Dates  == {"Date32", "Date64"}
Naive  == {"Ts", "TsNs"}            \* Timestamp(us or ns, None)
Zoned  == {"TsTz", "TsNsTz"}        \* Timestamp(us or ns, Some("UTC"))
Times  == Naive \cup Zoned
Decimals == {"Decimal", "DecimalWide"}     \* precision up to 18, and above

\* Nanoseconds are cut to microseconds.
Micros(v) == IF v.k = "time" /\ v.n > 6 THEN Lost([v EXCEPT !.n = 6]) ELSE v
Timed(t, v) == IF t \in Times THEN Micros(v) ELSE v

Beyond(v, limit) == v.k = "dec" /\ (v.n > limit \/ 0 - v.n > limit)
AsF64(v) == IF (v.k = "int" /\ v.n > 53) \/ Beyond(v, F64Exact) THEN Lost(v) ELSE v
AsF32(v) == IF (v.k \in {"int", "float"} /\ v.n > 24) \/ Beyond(v, F32Exact)
            THEN Lost(v) ELSE v

----------------------------------------------------------------------------
(* PostGIS: COPY BINARY and the parameters of an INSERT store the same. *)

PgDecls == [Bool |-> "boolean", Int16 |-> "smallint", Int32 |-> "integer", Int64 |-> "bigint",
            Float32 |-> "real", Float64 |-> "float8", Utf8 |-> "text",
            Binary |-> "bytea", Date32 |-> "date", Ts |-> "timestamp", TsNs |-> "timestamp",
            TsTz |-> "timestamptz", TsNsTz |-> "timestamptz",
            Decimal |-> "numeric", DecimalWide |-> "numeric_wide"]

\* A numeric column keeps the precision and the scale it is declared with; one
\* without them ("numeric_any") is read as Decimal128(38, 0).
PgArrow == [boolean |-> "Bool", smallint |-> "Int16", integer |-> "Int32", bigint |-> "Int64",
            real |-> "Float32", float8 |-> "Float64", text |-> "Utf8", bytea |-> "Binary",
            date |-> "Date32", timestamp |-> "Ts", timestamptz |-> "TsTz",
            numeric |-> "Decimal", numeric_wide |-> "DecimalWide", numeric_any |-> "DecimalWide"]

\* arrow_to_pg_value, and encode_field of COPY: a decimal goes as a numeric.
PgCell(decl, c) ==
    LET cell == Stored(decl, "-", Timed(c.type.t, c.v))
        n    == FromDecimal(c.v.n, c.type.s)
    IN  IF c.v.k = "dec" /\ c.type.t \in Decimals
        THEN [cell EXCEPT !.w = <<n.digits, n.weight, n.sign>>] ELSE cell

PutPg(c) == IF c.type.t \notin DOMAIN PgDecls THEN WriteError
            ELSE PgCell([t |-> PgDecls[c.type.t], s |-> c.type.s], c)

NumericScale(decl) == IF decl.t = "numeric_any" THEN 0 ELSE decl.s

\* The values of a numeric column are cut to its scale.
PgDecimal(st) ==
    LET ty == [t |-> PgArrow[st.decl.t], s |-> NumericScale(st.decl)]
        n  == Numeric(st.w[1], st.w[2], st.w[3])
        i  == ToDecimal(n, ty.s)
    IN  IF st.v.k = "null" THEN Arrow(ty, Null)
        ELSE IF ~i.ok THEN ReadError
        ELSE Arrow(ty, IF FromDecimal(i.v, ty.s) = n
                       THEN [st.v EXCEPT !.n = i.v] ELSE Lost([st.v EXCEPT !.n = i.v]))

GetPg(st) == IF st.decl.t \in {"numeric", "numeric_wide", "numeric_any"} THEN PgDecimal(st)
             ELSE Arrow(Type(PgArrow[st.decl.t]), st.v)

----------------------------------------------------------------------------
(* SQL Server: datetime2 holds 100 ns; times go through i64 nanoseconds,   *)
(* which a microsecond time after 2262 does not fit; decimals are bound    *)
(* and read as rust_decimal, and sent as they are by bulk insert.          *)

MsDecls == [Bool |-> "bit", Int16 |-> "smallint", Int32 |-> "int", Int64 |-> "bigint",
            Float32 |-> "real", Float64 |-> "float", Utf8 |-> "nvarchar", Binary |-> "varbinary",
            Date32 |-> "date", Ts |-> "datetime2", TsNs |-> "datetime2",
            TsTz |-> "datetimeoffset", TsNsTz |-> "datetimeoffset",
            Decimal |-> "decimal", DecimalWide |-> "decimal_wide"]

MsArrow == [bit |-> "Bool", smallint |-> "Int16", int |-> "Int32", bigint |-> "Int64",
            real |-> "Float32", float |-> "Float64", nvarchar |-> "Utf8", varbinary |-> "Binary",
            date |-> "Date32", datetime2 |-> "Ts", datetimeoffset |-> "TsTz",
            decimal |-> "Decimal", decimal_wide |-> "DecimalWide"]

TooWide(v) == Beyond(v, RustDecimal)

\* What cannot be sent: by bulk insert (the server takes no NaN), and as a
\* parameter.
BulkRefuses(c)  == \/ c.type.t \in Times /\ c.v.k = "far"
                   \/ c.type.t \in Floats /\ c.v.k = "nan"
ParamRefuses(c) == BulkRefuses(c) \/ (TooWide(c.v) /\ c.type.t \in Decimals)

PutMs(c, bulk) ==
    IF \/ c.type.t \notin DOMAIN MsDecls
       \/ IF bulk THEN BulkRefuses(c) ELSE ParamRefuses(c)
    THEN WriteError
    ELSE Stored([t |-> MsDecls[c.type.t], s |-> c.type.s], "-",
                Timed(c.type.t, c.v))

GetMs(st) == IF st.decl.t \in {"decimal", "decimal_wide"} /\ TooWide(st.v) THEN ReadError
             ELSE Arrow([t |-> MsArrow[st.decl.t], s |-> st.decl.s], st.v)

----------------------------------------------------------------------------
(* GeoPackage and SpatiaLite: SQLite keeps the class of the value, whatever *)
(* the declared type; a NaN becomes NULL.                                   *)

SqliteDecls == [Bool |-> "BOOLEAN", Int8 |-> "TINYINT", Int16 |-> "SMALLINT", Int32 |-> "MEDIUMINT",
                Int64 |-> "INTEGER", UInt8 |-> "INTEGER", UInt16 |-> "INTEGER",
                UInt32 |-> "INTEGER", Float32 |-> "FLOAT", Float64 |-> "DOUBLE",
                Utf8 |-> "TEXT", Binary |-> "BLOB", Date32 |-> "DATE", Date64 |-> "DATE",
                Ts |-> "DATETIME", TsNs |-> "DATETIME", TsTz |-> "DATETIME", TsNsTz |-> "DATETIME",
                Decimal |-> "TEXT", DecimalWide |-> "TEXT"]

SqliteArrow == [BOOLEAN |-> "Bool", TINYINT |-> "Int8", SMALLINT |-> "Int16", MEDIUMINT |-> "Int32",
                INTEGER |-> "Int64", FLOAT |-> "Float32", DOUBLE |-> "Float64", TEXT |-> "Utf8",
                BLOB |-> "Binary", DATE |-> "Date32", DATETIME |-> "Ts"]

ClassOf(t, v) == IF v.k = "null" THEN "null"
                 ELSE CASE t \in Ints \cup {"Bool"} -> "int"
                        [] t \in Floats -> "real"
                        [] t = "Binary" -> "blob"
                        [] OTHER -> "text"

PutSqlite(c, loss) ==
    LET decl == Type(SqliteDecls[c.type.t])
        cell == Stored(decl, ClassOf(c.type.t, c.v), Timed(c.type.t, c.v))
    IN  IF c.type.t \notin DOMAIN SqliteDecls THEN WriteError
        ELSE IF c.type.t \in Floats /\ c.v.k = "nan" THEN Stored(decl, "null", Gone)
        ELSE IF c.type.t \in Decimals /\ c.v.k /= "null" THEN OnLoss(loss, cell, cell)
        ELSE cell

\* coerce_int(v) /= 0.
AsBool(v) == IF v.k = "bool" THEN v ELSE Lost(Value("bool", 1))

\* coerce_int, coerce_float, coerce_text, decode_date32, decode_timestamp_us:
\* the value of a class in a column of an Arrow type, or a refusal.
Coerced(t, as, v) ==
    IF as = "null" THEN Arrow(Type(t), v)
    ELSE CASE t = "Bool" -> IF as \in {"int", "real"} \/ v.k = "int"
                            THEN Arrow(Type(t), AsBool(v)) ELSE ReadError
         [] t \in Ints -> IF as = "int" \/ v.k = "int" THEN Arrow(Type(t), v)
                          ELSE IF as = "real" THEN Arrow(Type(t), Lost(Value("int", 53)))
                          ELSE ReadError
         [] t \in Floats -> IF as \in {"real", "int"} \/ v.k \in {"int", "float"}
                            THEN Arrow(Type(t), AsF64(v)) ELSE ReadError
         [] t = "Utf8" -> Arrow(Type(t), IF v.k = "bytes" THEN Lost(v) ELSE v)
         [] t = "Binary" -> IF as = "blob" THEN Arrow(Type(t), v) ELSE ReadError
         [] t = "Date32" -> IF as \in {"text", "blob"} /\ v.k = "date" THEN Arrow(Type(t), v) ELSE ReadError
         [] OTHER -> IF as \in {"text", "blob"} /\ v.k \in {"time", "far"}
                     THEN Arrow(Type(t), Micros(v)) ELSE ReadError

\* The builders are Int64 and Float64 for every integer and float, and a
\* record batch whose array is not of the schema's type is refused.
HasBuilder(t) == t \notin {"Int8", "Int16", "Int32", "Float32"}

GetSqlite(st) ==
    LET t == IF st.decl.t \in DOMAIN SqliteArrow THEN SqliteArrow[st.decl.t] ELSE "Utf8"
    IN  IF HasBuilder(t) THEN Coerced(t, st.as, st.v) ELSE ReadError

----------------------------------------------------------------------------
(* FlatGeobuf: dates and times are texts, times with their zone as UTC.    *)

FgbDecls == [Bool |-> "Bool", Int8 |-> "Byte", Int16 |-> "Short", Int32 |-> "Int", Int64 |-> "Long",
             UInt8 |-> "UByte", UInt16 |-> "UShort", UInt32 |-> "UInt", UInt64 |-> "ULong",
             Float32 |-> "Float", Float64 |-> "Double", Utf8 |-> "String", Binary |-> "Binary",
             Date32 |-> "DateTime", Date64 |-> "DateTime", Ts |-> "DateTime", TsNs |-> "DateTime",
             TsTz |-> "DateTime", TsNsTz |-> "DateTime",
             Decimal |-> "Double", DecimalWide |-> "Double"]

FgbArrow == [Bool |-> "Bool", Byte |-> "Int8", Short |-> "Int16", Int |-> "Int32", Long |-> "Int64",
             UByte |-> "UInt8", UShort |-> "UInt16", UInt |-> "UInt32", ULong |-> "UInt64",
             Float |-> "Float32", Double |-> "Float64", String |-> "Utf8", Binary |-> "Binary"]

\* More than i64::MAX.
BeyondI64(t, v) == t = "UInt64" /\ v.k = "int" /\ v.n = 64

PutFgb(c, loss) ==
    LET t    == c.type.t
        cell == Stored(Type(FgbDecls[t]), IF t \in Dates THEN "dates" ELSE "-",
                       IF t \in Decimals THEN AsF64(c.v) ELSE c.v)
    IN  IF t \notin DOMAIN FgbDecls THEN WriteError
        ELSE IF t \in Decimals \/ BeyondI64(t, c.v) THEN OnLoss(loss, cell, cell)
        ELSE cell

\* The type of a DateTime column is settled over the first SAMPLE_LIMIT (65,536)
\* features, if they are the whole file.  They are not in a file that has so many
\* ("cut"); in a shorter one they hold other values of the column ("filled") or
\* none ("alone").
Samples == {"alone", "filled", "cut"}

\* refine_arrow_types: a column with a value and no time of day is one of dates.
Refined(st, seen) ==
    /\ seen /= "cut" /\ st.as = "dates"
    /\ seen = "filled" \/ st.v.k /= "null"

\* parse_timestamp_micros takes a date for the midnight it begins at.
Midnight(v) == IF v.k = "date" THEN [v EXCEPT !.k = "time", !.n = 6] ELSE v

GetFgb(st, seen) ==
    IF st.decl.t /= "DateTime" THEN Arrow(Type(FgbArrow[st.decl.t]), st.v)
    ELSE IF Refined(st, seen) THEN Arrow(Type("Date32"), st.v)
    ELSE Arrow(Type("TsTz"), Micros(Midnight(st.v)))

----------------------------------------------------------------------------
(* Shapefile attributes: integers and decimals are written as f64, floats  *)
(* as f32; a decimal of more than 18 digits and every time need the loss   *)
(* policy, Int64 and Float64 do not ask it.                                *)

TooLong(v) == v.k = "odd" \/ (v.k = "text" /\ v.n > 254)   \* "odd": not in the code page
Truncated(v) == Lost(Value("text", IF v.n > 254 THEN 254 ELSE v.n))

\* map_arrow_to_dbf: the field planned for an Arrow type, as a cell of it.
ShpField(t, loss) ==
    LET Field(decl) == Stored(Type(decl), "-", Null)
    IN  CASE t = "Utf8" -> Field("C")
          [] t = "Bool" -> Field("L")
          [] t \in (Ints \ {"UInt64"}) \cup {"Decimal"} -> Field("N")
          [] t \in Floats -> Field("F")
          [] t = "DecimalWide" -> OnLoss(loss, Field("N"), Field("N"))
          [] t \in Dates -> Field("D")
          [] t \in Times -> OnLoss(loss, Field("D"), LeftOut)
          [] OTHER -> OnLoss(loss, LeftOut, LeftOut)

\* arrow_value_to_dbf, for the field of the column.  Warned of, a time has a
\* date field, for which no value can be written.
ShpValue(field, c, loss) ==
    LET With(v) == [field EXCEPT !.v = v]
    IN  IF field.at /= "stored" \/ c.v.k = "null" THEN field
        ELSE CASE field.decl.t = "C" /\ TooLong(c.v) ->
                     OnLoss(loss, With(Truncated(c.v)), With(Truncated(c.v)))
               [] field.decl.t = "N" -> With(AsF64(c.v))
               [] field.decl.t = "F" -> With(AsF32(c.v))
               [] field.decl.t = "D" /\ c.type.t \in Times -> WriteError
               [] OTHER -> With(c.v)

PutShp(c, loss) == ShpValue(ShpField(c.type.t, loss), c, loss)

ShpArrow == [C |-> "Utf8", N |-> "Float64", F |-> "Float64", L |-> "Bool", D |-> "Date32"]

\* An empty text is a field of blanks, as a null is.
GetShp(st) == Arrow(Type(ShpArrow[st.decl.t]),
                    IF st.v.k = "text" /\ st.v.n = 0 THEN Gone ELSE st.v)

----------------------------------------------------------------------------
(* CSV: a null and a column the writer keeps without its values are empty. *)

Empty == Lost(Value("text", 0))

\* format_decimal128 and format_timestamp keep every digit and the offset.
CsvText(v) == IF v.k = "null" THEN Empty ELSE v

PutCsv(c, loss) ==
    LET cell == Stored(Type("text"), "-", CsvText(c.v))
    IN  CASE c.type.t = "Binary" -> OnLoss(loss, [cell EXCEPT !.v = Empty], LeftOut)
          [] c.type.t = "List"   -> OnLoss(loss, WriteError, LeftOut)
          [] OTHER -> cell

GetCsv(st) == Arrow(Type("Utf8"), st.v)

----------------------------------------------------------------------------
(* GeoJSON: the JSON kind of the value is all that is left of its type.    *)

JsonKind(t, v) == IF v.k = "null" THEN "null"
                  ELSE CASE t = "Bool" -> "bool"
                         [] t \in Ints -> IF BeyondI64(t, v) THEN "string" ELSE "int"
                         [] t \in Floats -> "float"
                         [] OTHER -> "string"

PutGeoJson(c, loss) ==
    LET t    == c.type.t
        cell == Stored(Type(JsonKind(t, c.v)), "-", c.v)
        none == Stored(Type("null"), "-", IF c.v.k = "null" THEN Null ELSE Gone)
    IN  CASE t \in Decimals \cup Times -> OnLoss(loss, cell, LeftOut)
          [] t = "Binary" -> OnLoss(loss, none, LeftOut)
          [] t = "List"   -> OnLoss(loss, WriteError, LeftOut)
          [] t \in Floats /\ c.v.k = "nan" -> OnLoss(loss, none, none)
          [] BeyondI64(t, c.v) -> OnLoss(loss, cell, cell)
          [] OTHER -> cell

JsonArrow == [null |-> "Utf8", bool |-> "Bool", int |-> "Int64", float |-> "Float64", string |-> "Utf8"]

GetGeoJson(st) == Arrow(Type(JsonArrow[st.decl.t]), st.v)

----------------------------------------------------------------------------
(* GeoParquet keeps the Arrow type and the value. *)

PutParquet(c)  == Stored(c.type, "-", c.v)
GetParquet(st) == Arrow(st.decl, st.v)
============================================================================
