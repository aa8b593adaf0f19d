----------------------------- MODULE PkEncoding -----------------------------
(***************************************************************************)
(* What a source samples and what a program is told of it.  A source's     *)
(* plugin makes a manifest once and then samples; both are encoded by the  *)
(* agent (PkaEncoder), decoded by the client (PkDecoder), and the client   *)
(* keeps the manifest to decode the samples with.  That they arrive in     *)
(* order is PkDelivery's.                                                  *)
(*                                                                         *)
(* The clock is the realtime one: it may be set, back too.                 *)
(***************************************************************************)
EXTENDS PkDecoder, FiniteSets

CONSTANTS
  Plugins,   \* the plugins a source may be of: sequences of rows
             \* [name, type, as]: the type that the manifest has, and what
             \* the plugin appends to its samples
  SourceIds,
  Clock,     \* bound: the times the clock shows
  Values     \* bound: Values[as]: a sequence of values to append

ASSUME PluginsAssumption ==
  \A p \in Plugins :
    /\ Len(p) \in Nat /\ DOMAIN p = 1 .. Len(p)
    /\ \A i \in DOMAIN p :
         p[i].type \in RowTypes /\ p[i].as \in DOMAIN SampleTag

\* A C string, which may be as long as a word can say.
Text == {s \in Seq(Byte) : Len(s) < Word}

Readings == 0 .. 3  \* bound: as many as a row has values

\* A manifest made at a time, with the resolution that the plugin sets, if it
\* does.
Populated(rows, time, r) ==
  LET Upto[k \in 0 .. Len(rows)] ==
        IF k = 0 THEN [pka_manifest_sized_new(time) EXCEPT !.resolution = r]
        ELSE pka_manifest_append(Upto[k - 1], rows[k].name, rows[k].type)
  IN  Upto[Len(rows)]

\* The values of a row come in turn, from another one in each row.
Reading(rows, n) ==
  [i \in DOMAIN rows |->
     LET values == Values[rows[i].as] IN values[1 + ((n + i) % Len(values))]]

Sampled(rows, time, n) ==
  LET Upto[k \in 0 .. Len(rows)] ==
        IF k = 0 THEN pka_sample_new(time)
        ELSE pka_sample_append(rows[k].as, Upto[k - 1], k, Reading(rows, n)[k])
  IN  Upto[Len(rows)]

\* Values are of their types, and what is counted in a word fits in one: what
\* a message has in it, and the number of a row next to its tag.
ASSUME SizeAssumption ==
  /\ \A type \in RowTypes : type < Word
  /\ SourceIds \subseteq Uint
  /\ Values["boolean"] \in Seq(BOOLEAN)
  /\ Values["int"] \in Seq(Int32)
  /\ Values["uint"] \in Seq(Uint)
  /\ Values["double"] \in Seq([1 .. DoubleSize -> Byte])
  /\ Values["float"] \in Seq([1 .. FloatSize -> Byte])
  /\ Values["string"] \in Seq(Text)
  /\ \A as \in DOMAIN SampleTag : Values[as] # <<>>
  /\ \A p \in Plugins :
       /\ 8 * Len(p) + 8 <= Word
       /\ \A i \in DOMAIN p : p[i].name \in Text
       /\ \A time \in Clock :
            /\ Len(EncodeRows(Populated(p, time, 0).rows)) < Word
            /\ \A n \in Readings : Len(Sampled(p, time, n).buf) < Word

\* The clock shows times since the Epoch, of which the microseconds fit in a
\* long word.
ASSUME ClockAssumption ==
  \A time \in Clock :
    /\ time \in [sec : Nat, nsec : 0 .. NsecPerSec - 1]
    /\ time.sec * UsecPerSec + time.nsec \div NsecPerUsec < LongWord

VARIABLES
  plugin,    \* the rows of the source's plugin
  source,    \* its identifier
  now,       \* what the realtime clock shows
  manifest,  \* the plugin's manifest, or None
  kept,      \* what the client has decoded of it, or None
  sample,    \* the last sample and the values it was made of, or None
  told       \* what the client has decoded of that, or None

vars == <<plugin, source, now, manifest, kept, sample, told>>

None == [ok |-> FALSE, value |-> <<>>]

-----------------------------------------------------------------------------
(* The plugins of the repository: what they write is what they read from   *)
(* /proc, a line at a time.                                                *)
\* Two bytes, one name for each row.
Name(i) == <<i \div Base, i % Base>>
Row(name, type, as) == [name |-> name, type |-> type, as |-> as]

cpu == [i \in 1 .. 10 |-> Row(Name(i), G_TYPE_INT, "int")]

memory == [i \in 1 .. 5 |-> Row(Name(i), G_TYPE_UINT, "uint")]

netdev ==
  [i \in 1 .. 17 |-> IF i = 1 THEN Row(Name(i), G_TYPE_STRING, "string")
                     ELSE Row(Name(i), G_TYPE_UINT, "int")]

\* The rows of /proc/<pid>/sched that have a point are doubles.
sched ==
  <<Row(Name(1), G_TYPE_DOUBLE, "double"), Row(Name(2), G_TYPE_INT, "uint")>>

-----------------------------------------------------------------------------
Init ==
  /\ plugin \in Plugins
  /\ source \in SourceIds
  /\ now \in Clock
  /\ manifest = None /\ kept = None
  /\ sample = None /\ told = None

SetClock ==
  /\ now' \in Clock
  /\ UNCHANGED <<plugin, source, manifest, kept, sample, told>>


deliver_manifest(r) ==
  /\ manifest = None
  /\ manifest' = [Populated(plugin, now, r) EXCEPT !.source = source]
  /\ kept' = DecodeManifest(EncodeManifest(manifest'))
  /\ UNCHANGED <<plugin, source, now, sample, told>>

deliver_sample(n) ==
  /\ manifest # None /\ kept.ok
  /\ sample' = [ts |-> now, values |-> Reading(plugin, n)]
  /\ told' = LET s == [Sampled(plugin, now, n) EXCEPT !.source = source]
              IN  DecodeSample(EncodeSample(manifest, s), kept.value)
  /\ UNCHANGED <<plugin, source, now, manifest, kept>>

Next ==
  \/ SetClock
  \/ \E r \in PkaResolution : deliver_manifest(r)
  \/ \E n \in Readings : deliver_sample(n)

Spec == Init /\ [][Next]_vars
-----------------------------------------------------------------------------
(* Properties *)

(* A manifest arrives with its rows, its resolution, its source and its    *)
(* time to the microsecond (pka-encoder.c:185, pk-manifest.c:305).         *)
ManifestSurvives ==
  manifest # None =>
    /\ kept.ok /\ kept.rest = <<>>
    /\ kept.value.source = source
    /\ kept.value.resolution = manifest.resolution
    /\ kept.value.rows = [i \in DOMAIN plugin |->
                            [id |-> i, type |-> plugin[i].type,
                             name |-> plugin[i].name]]
    /\ Nsec(manifest.ts) - Nsec(kept.value.ts) \in 0 .. NsecPerUsec - 1

\* What a row of each type is to be written with.  For LONG, ULONG and CHAR,
\* which a manifest may have too, there is nothing to write them with.
WrittenAs ==
  {<<G_TYPE_INT, "int">>, <<G_TYPE_UINT, "uint">>, <<G_TYPE_FLOAT, "float">>,
   <<G_TYPE_DOUBLE, "double">>, <<G_TYPE_STRING, "string">>,
   <<G_TYPE_BOOLEAN, "boolean">>}
AsDeclared ==
  \A i \in DOMAIN plugin : <<plugin[i].type, plugin[i].as>> \in WrittenAs

\* The types that the client reads (pk-sample.c:206); BOOLEAN is not one.
Readable == {pair[2] : pair \in ReadersAgree}

ToldAll ==
  /\ told.ok
  /\ told.value.source = source
  /\ told.value.fields = [i \in DOMAIN plugin |->
                            [field |-> i, value |-> sample.values[i]]]

(* A sample that is written as its manifest declares is read as it was     *)
(* written, each value in its row, if the client reads every type that the *)
(* manifest has; it is refused as a whole if there is one that it does not *)
(* read, a boolean, and never told in part or wrongly (pka-sample.c:266,   *)
(* pk-sample.c:152).                                                       *)
SampleSurvives ==
  told # None /\ AsDeclared =>
    IF \A i \in DOMAIN plugin : plugin[i].type \in Readable
    THEN ToldAll ELSE ~told.ok

Ahead(s) == s # None /\ Nsec(s.ts) >= Nsec(manifest.ts)

(* The time a program is told is the sample's, less than a unit of the     *)
(* resolution and a microsecond early and never late, as long as the clock *)
(* has not been set back to before the manifest (pka-encoder.c:114,        *)
(* pk-sample.c:118).                                                       *)
TimeWithinResolution ==
  Ahead(sample) /\ told.ok =>
    Nsec(sample.ts) - Nsec(told.value.ts) \in
      0 .. (Unit[manifest.resolution] + 1) * NsecPerUsec - 1

(* The rounding is monotone: of two samples that follow one another, the   *)
(* one whose clock showed the later time is not told the earlier one.  The *)
(* order told is that of the clock, which is not that of taking when the   *)
(* clock was set back in between; and samples of before the manifest's     *)
(* time, which are told a time far ahead, are exempted (pka-encoder.c:114).*)
RoundingIsMonotone ==
  [][Ahead(sample) /\ Ahead(sample') /\ told.ok /\ told'.ok
     => /\ Nsec(sample.ts) <= Nsec(sample'.ts)
             => Nsec(told.value.ts) <= Nsec(told'.value.ts)
        /\ Nsec(sample'.ts) <= Nsec(sample.ts)
             => Nsec(told'.value.ts) <= Nsec(told.value.ts)]_vars

(* HACKING:24-26: encoders make of recorded samples and manifests buffers  *)
(* that can be decoded on the other end.                                   *)
SamplesAreDecoded == told # None => ToldAll
=============================================================================
