----------------------------- MODULE PkaEncoder -----------------------------
(***************************************************************************)
(* What the agent writes: perfkit-agent/pka-manifest.c, pka-sample.c and   *)
(* pka-encoder.c.  A manifest names the rows of a source and their types;  *)
(* a sample is the bytes of its fields, put one after the other by the     *)
(* source; an encoder makes a message of either.                           *)
(***************************************************************************)
EXTENDS EggBuffer, EggTime

CONSTANTS
  Unit   \* Unit[r]: the microseconds of resolution r

ASSUME ResolutionAssumption == \A r \in 0 .. 4 : Unit[r] \in Nat \ {0}

PkaResolution == 0 .. 4   \* PKA_RESOLUTION_USEC .. PKA_RESOLUTION_HOUR

G_TYPE_CHAR == 12
G_TYPE_BOOLEAN == 20
G_TYPE_INT == 24
G_TYPE_UINT == 28
G_TYPE_LONG == 32
G_TYPE_ULONG == 36
G_TYPE_FLOAT == 56
G_TYPE_DOUBLE == 60
G_TYPE_STRING == 64

\* What a row may be of: g_assert_not_reached() for others.
RowTypes ==
  {G_TYPE_INT, G_TYPE_UINT, G_TYPE_LONG, G_TYPE_ULONG, G_TYPE_STRING,
   G_TYPE_CHAR, G_TYPE_BOOLEAN, G_TYPE_DOUBLE, G_TYPE_FLOAT}

pka_manifest_sized_new(now) ==
  [rows |-> <<>>, source |-> 0, ts |-> now, resolution |-> 0]

pka_manifest_append(manifest, name, type) ==
  [manifest EXCEPT !.rows = Append(@, [type |-> type, name |-> name])]

pka_sample_new(now) == [ts |-> now, source |-> -1, buf |-> <<>>]

\* pka_sample_append_int and the others, by the type they add.  None of them
\* knows what the manifest says of the row.
SampleTag ==
  [boolean |-> NumberTag, int |-> NumberTag, uint |-> NumberTag,
   double |-> DoubleTag, float |-> FloatTag, string |-> LengthTag]

Written(as, value) ==
  CASE as = "boolean" -> <<IF value THEN 1 ELSE 0>>
    [] as = "int"     -> WriteInt(value)
    [] as = "uint"    -> WriteUint[value]
    [] as = "string"  -> WriteData(value)
    [] as \in {"double", "float"} -> value

pka_sample_append(as, sample, field, value) ==
  [sample EXCEPT !.buf = @ \o WriteTag(field, SampleTag[as])
                           \o Written(as, value)]

\* faulty: as if every manifest had milliseconds
AppliesMsec(r, ts) == timespec_to_usec(ts, LongWord) \div Unit[1]

pka_resolution_apply(r, ts) == timespec_to_usec(ts, LongWord) \div Unit[r]

\* encode_samples, for the one sample that a subscription hands it.
EncodeSample(manifest, sample) ==
  WriteTag(1, NumberTag) \o WriteUint[sample.source % Word]
  \o WriteTag(2, NumberTag)
  \o WriteUint[pka_resolution_apply(manifest.resolution,
                 timespec_subtract(sample.ts, manifest.ts))]
  \o WriteTag(3, LengthTag) \o WriteData(sample.buf)

\* faulty: rows are numbered as the array is
RowsFromZero(i, row) ==
  WriteTag(1, NumberTag) \o WriteUint[i - 1]
  \o WriteTag(2, NumberTag) \o WriteUint[row.type]
  \o WriteTag(3, LengthTag) \o WriteData(row.name)

EncodeRow(i, row) ==
  WriteTag(1, NumberTag) \o WriteUint[i]
  \o WriteTag(2, NumberTag) \o WriteUint[row.type]
  \o WriteTag(3, LengthTag) \o WriteData(row.name)

EncodeRows(rows) ==
  LET Upto[k \in 0 .. Len(rows)] ==
        IF k = 0 THEN <<>>
        ELSE Upto[k - 1] \o WriteData(EncodeRow(k, rows[k]))
  IN  Upto[Len(rows)]

EncodeManifest(manifest) ==
  WriteTag(1, NumberTag)
  \o WriteUint[timespec_to_usec(manifest.ts, LongWord)]
  \o WriteTag(2, NumberTag) \o WriteUint[manifest.resolution]
  \o WriteTag(3, NumberTag) \o WriteUint[manifest.source]
  \o WriteTag(4, LengthTag) \o WriteData(EncodeRows(manifest.rows))
=============================================================================
