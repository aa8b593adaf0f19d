------------------------------ MODULE EggBuffer ------------------------------
(***************************************************************************)
(* cut-n-paste/egg-buffer.c: the buffers that manifests and samples travel *)
(* in.  A buffer is the sequence of its bytes; what is read of it leaves   *)
(* the rest.  Numbers are written from their lowest digit on, and a byte   *)
(* that is not the last of its number has its high bit on.                 *)
(***************************************************************************)
EXTENDS Integers, Sequences, SequencesExt

CONSTANTS
  Base,       \* 2^7: what a byte holds of a number
  Word,       \* 2^32: the values of a guint
  LongWord,   \* 2^64: the values of a guint64
  DoubleSize, \* 8: the bytes of a gdouble
  FloatSize   \* 4: the bytes of a gfloat

ASSUME BufferAssumption ==
  /\ Base \in Nat /\ Base > 1
  /\ Word \in Nat /\ Word > 1 /\ Word % 2 = 0
  /\ LongWord \in Nat /\ LongWord >= Word /\ LongWord % 2 = 0
  /\ DoubleSize \in Nat \ {0} /\ FloatSize \in Nat \ {0}

Byte == 0 .. 2 * Base - 1

Uint == 0 .. Word - 1
Int32 == -(Word \div 2) .. Word \div 2 - 1

\* EggBufferTag: one for the numbers, whatever their type, one for what has
\* a length.
NumberTag == 0
DoubleTag == 1
LengthTag == 2
FloatTag  == 5

-----------------------------------------------------------------------------
(* Writing *)

WriteUint[n \in Nat] ==
  IF n < Base THEN <<n>>
  ELSE <<Base + (n % Base)>> \o WriteUint[n \div Base]

\* Small numbers of either sign become small unsigned ones.
ZigZag(i) == IF i >= 0 THEN 2 * i ELSE -2 * i - 1
WriteInt(i) == WriteUint[ZigZag(i)]

WriteData(data) == WriteUint[Len(data)] \o data

TagOf(field, tag) == 8 * field + tag
WriteTag(field, tag) == WriteUint[TagOf(field, tag)]

-----------------------------------------------------------------------------
(* Reading *)

Failed == [ok |-> FALSE]
Got(value, rest) == [ok |-> TRUE, value |-> value, rest |-> rest]

Then(read, Next(_)) == IF read.ok THEN Next(read) ELSE Failed

\* faulty: the last byte that a word has room for is refused
AllFull(k, word) == k < Len(WriteUint[word - 1])
\* The bytes of the greatest number, of which the last is full in part only.
Fits(k, word) == k <= Len(WriteUint[word - 1])

\* The number of which these are the digits; Upper[k] is that of the last k.
ValueOf(digits) ==
  LET Upper[k \in 0 .. Len(digits)] ==
        IF k = 0 THEN 0
        ELSE (digits[Len(digits) - k + 1] % Base) + Base * Upper[k - 1]
  IN  Upper[Len(digits)]

\* A number ends with the first byte that has its high bit off.  One that is
\* cut short, or has more bytes than the word has room for, is refused.
ReadVarint(bytes, word) ==
  LET last == SelectInSeq(bytes, LAMBDA b : b < Base)
  IN  IF last = 0 \/ ~Fits(last, word) THEN Failed
      ELSE Got(ValueOf(SubSeq(bytes, 1, last)) % word,
               SubSeq(bytes, last + 1, Len(bytes)))

ReadUint(bytes) == ReadVarint(bytes, Word)
ReadUint64(bytes) == ReadVarint(bytes, LongWord)

UnZigZag(u) == IF u % 2 = 0 THEN u \div 2 ELSE -(u \div 2) - 1
ReadInt(bytes) ==
  Then(ReadUint(bytes), LAMBDA u : Got(UnZigZag(u.value), u.rest))

FieldOf(u) == [field |-> u \div 8, tag |-> u % 8]
ReadTag(bytes) ==
  Then(ReadUint(bytes), LAMBDA u : Got(FieldOf(u.value), u.rest))

\* memcpy of n bytes, of a gdouble or a gfloat too.
ReadBytes(bytes, n) ==
  IF Len(bytes) < n THEN Failed
  ELSE Got(SubSeq(bytes, 1, n), SubSeq(bytes, n + 1, Len(bytes)))

ReadString(bytes) ==
  Then(ReadUint(bytes), LAMBDA n : ReadBytes(n.rest, n.value))

\* What every reader of a message begins with: the tag has to be the one that
\* is expected.
ReadTagOf(bytes, field, tag) ==
  Then(ReadTag(bytes), LAMBDA t :
    IF t.value = [field |-> field, tag |-> tag] THEN t ELSE Failed)

ReadField(bytes, field, tag, Read(_)) ==
  Then(ReadTagOf(bytes, field, tag), LAMBDA t : Read(t.rest))
==============================================================================
