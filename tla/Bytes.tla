------------------------------- MODULE Bytes --------------------------------
(***************************************************************************)
(* What encoding/binary does, without bits: a number written in w bytes is *)
(* a run of w cells that say which number, byte and width they are.  Bytes *)
(* read in another place or width than they were written give no number    *)
(* of the message.                                                         *)
(***************************************************************************)
EXTENDS Integers, Sequences, SequencesExt

Garbage == -1    \* bytes of different numbers, read as one
Panic == -2      \* an index out of range

PutUint(v, w) == [k \in 1..w |-> <<v, k, w>>]

\* The number in the w bytes from offset off, which counts from 0.
Uint(data, off, w) ==
  IF off + w > Len(data) THEN Panic
  ELSE LET v == data[off + 1][1]
       IN  IF SubSeq(data, off + 1, off + w) = PutUint(v, w) THEN v ELSE Garbage

\* Fields written one after the other: fields[i] is <<name, width>>.
Put(m, fields) ==
  FlattenSeq([i \in DOMAIN fields |-> PutUint(m[fields[i][1]], fields[i][2])])

\* Fields read each from its offset: at[name] is <<offset, width>>.
Get(data, off, at) == [f \in DOMAIN at |-> Uint(data, off + at[f][1], at[f][2])]

From(data, off) == SubSeq(data, off + 1, Len(data))
=============================================================================
