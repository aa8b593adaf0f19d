------------------------------ MODULE PkDecoder ------------------------------
(***************************************************************************)
(* What the client reads: perfkit/pk-manifest.c and pk-sample.c.  Fields   *)
(* have to come in the order in which the agent writes them.               *)
(***************************************************************************)
EXTENDS PkaEncoder

(* One row: a length that nobody looks at, and three fields.               *)
DecodeRow(bytes) ==
  Then(ReadUint(bytes), LAMBDA n :
  Then(ReadField(n.rest, 1, NumberTag, ReadUint), LAMBDA id :
  Then(ReadField(id.rest, 2, NumberTag, ReadUint), LAMBDA type :
  Then(ReadField(type.rest, 3, LengthTag, ReadString), LAMBDA name :
    Got([id |-> id.value, type |-> type.value, name |-> name.value],
        name.rest)))))

(* Rows, one in each turn, until no more than `after' bytes are left.  A   *)
(* row has seven bytes at least; the last turn is an incomplete row's.     *)
DecodeRows(bytes, after) ==
  LET turns == Len(bytes) \div 7 + 1
      Turn[k \in 0 .. turns] ==
        IF k = 0 THEN Got(<<>>, bytes)
        ELSE LET read == Turn[k - 1]
             IN  IF ~read.ok \/ Len(read.rest) <= after THEN read
                 ELSE Then(DecodeRow(read.rest), LAMBDA row :
                        Got(Append(read.value, row.value), row.rest))
  IN  Turn[turns]

(* The rows are sorted by their numbers, which have to be 1, 2 and so on.  *)
AllThere(rows) == \A i \in DOMAIN rows : \E k \in DOMAIN rows : rows[k].id = i
Sorted(rows) ==
  [i \in DOMAIN rows |-> rows[CHOOSE k \in DOMAIN rows : rows[k].id = i]]

DecodeManifest(bytes) ==
  Then(ReadField(bytes, 1, NumberTag, ReadUint64), LAMBDA time :
  Then(ReadField(time.rest, 2, NumberTag, ReadUint), LAMBDA resolution :
  Then(ReadField(resolution.rest, 3, NumberTag, ReadUint), LAMBDA source :
  Then(ReadField(source.rest, 4, LengthTag, ReadUint), LAMBDA len :
  Then(DecodeRows(len.rest, Len(len.rest) - len.value), LAMBDA rows :
    IF resolution.value \in PkaResolution /\ AllThere(rows.value)
    THEN Got([rows |-> Sorted(rows.value), source |-> source.value,
              ts |-> timespec_from_usec(time.value),
              resolution |-> resolution.value], rows.rest)
    ELSE Failed)))))

-----------------------------------------------------------------------------
(* A value is read as the manifest has it, if its tag is one of that type. *)
ReadersAgree == {<<NumberTag, G_TYPE_INT>>, <<NumberTag, G_TYPE_UINT>>,
                 <<DoubleTag, G_TYPE_DOUBLE>>, <<FloatTag, G_TYPE_FLOAT>>,
                 <<LengthTag, G_TYPE_STRING>>}

ReadValue(type, bytes) ==
  CASE type = G_TYPE_INT    -> ReadInt(bytes)
    [] type = G_TYPE_UINT   -> ReadUint(bytes)
    [] type = G_TYPE_DOUBLE -> ReadBytes(bytes, DoubleSize)
    [] type = G_TYPE_FLOAT  -> ReadBytes(bytes, FloatSize)
    [] type = G_TYPE_STRING -> ReadString(bytes)

DecodeField(bytes, manifest) ==
  Then(ReadTag(bytes), LAMBDA t :
    LET field == t.value.field IN
    IF \/ field \notin DOMAIN manifest.rows
       \/ <<t.value.tag, manifest.rows[field].type>> \notin ReadersAgree
    THEN Failed
    ELSE Then(ReadValue(manifest.rows[field].type, t.rest), LAMBDA v :
           Got([field |-> field, value |-> v.value], v.rest)))

(* Fields are read to the end of the message, whatever the length of the   *)
(* data says.  A field has two bytes at least, its tag's and its value's.  *)
DecodeFields(data, manifest) ==
  LET turns == Len(data) \div 2 + 1
      Turn[k \in 0 .. turns] ==
        IF k = 0 THEN Got(<<>>, data)
        ELSE LET read == Turn[k - 1]
             IN  IF ~read.ok \/ read.rest = <<>> THEN read
                 ELSE Then(DecodeField(read.rest, manifest), LAMBDA f :
                        Got(Append(read.value, f.value), f.rest))
  IN  Turn[turns]

DecodeTime(u, manifest) ==
  timespec_add(
    timespec_from_usec((u * Unit[manifest.resolution]) % LongWord),
    manifest.ts)
(* The manifest is the one that the handler has kept for the source.       *)
DecodeSample(bytes, manifest) ==
  Then(ReadField(bytes, 1, NumberTag, ReadUint), LAMBDA source :
  Then(ReadField(source.rest, 2, NumberTag, ReadUint64), LAMBDA time :
  Then(ReadField(time.rest, 3, LengthTag, ReadUint), LAMBDA len :
    IF source.value # manifest.source \/ Len(len.rest) < len.value THEN Failed
    ELSE Then(DecodeFields(len.rest, manifest), LAMBDA fields :
      Got([source |-> source.value, ts |-> DecodeTime(time.value, manifest),
           fields |-> fields.value], fields.rest)))))
=============================================================================
