---------------------------- MODULE MCPkEncoding ----------------------------
(* Bytes of three bits and a flag, words of ten and thirteen bits.          *)
EXTENDS PkEncoding

MCUnit == [r \in 0 .. 4 |-> 2^r]

At(nsec) == Timespec(nsec \div NsecPerSec, nsec % NsecPerSec)
MCClock == {At(t) : t \in {9, 11, 15, 16, 22, 47}}

MCValues ==
  [boolean |-> <<TRUE, FALSE>>, int |-> <<-512, 511, -1, 3>>,
   uint |-> <<0, 7, 1023, 8>>, double |-> <<<<15, 0>>, <<8, 1>>>>,
   float |-> <<<<7>>, <<8>>>>, string |-> <<<<>>, <<15, 1>>>>]

(* A row of every type, as a plugin may write it; two of the types that the *)
(* client can read.                                                         *)
Rows(kinds) == {Row(<<1, 8>>, kind[1], kind[2]) : kind \in kinds}
Others == {<<G_TYPE_LONG, "int">>, <<G_TYPE_CHAR, "int">>,
           <<G_TYPE_UINT, "int">>, <<G_TYPE_UINT, "boolean">>}

MCPlugins ==
  {<<>>, cpu, memory, netdev, sched}
  \cup [1 .. 1 -> Rows(Others)] \cup [1 .. 2 -> Rows(WrittenAs)]

Mistyped == {sched, netdev}
=============================================================================
