------------------------------- MODULE Replay -------------------------------
(***************************************************************************)
(* The replay file (internal/replay): the room appends a record per tick,  *)
(* replay-play reads the file from its start.  A write may fail after some *)
(* of its bytes, of which the room only takes note, and a crash cuts the   *)
(* file anywhere.  The reader checks lengths and nothing else.             *)
(***************************************************************************)
EXTENDS Bytes

CONSTANTS
  SnapshotBytes,      \* of the world the recording begins with
  MaxTicks, CmdsInRecord   \* ticks recorded, commands in one (bounds of the model)

\* The number of commands has two bytes.
ASSUME ReplayAssumption ==
  SnapshotBytes \in Nat /\ MaxTicks \in Nat /\ CmdsInRecord \in 0..65535

\* MarshalHeader and UnmarshalHeader
FileHeaderSize == 39
FileHeaderFields == <<<<"Magic", 6>>, <<"ProtoVersion", 2>>, <<"Seed", 8>>, <<"TickRate", 2>>,
                  <<"StartTS", 8>>, <<"PlayerCount", 1>>, <<"MapW", 4>>, <<"MapH", 4>>>>
FileHeaderAt == [Magic |-> <<0, 6>>, ProtoVersion |-> <<6, 2>>, Seed |-> <<8, 8>>,
             TickRate |-> <<16, 2>>, StartTS |-> <<18, 8>>, PlayerCount |-> <<26, 1>>,
             MapW |-> <<27, 4>>, MapH |-> <<31, 4>>]
FileHeader == [Magic |-> 1, ProtoVersion |-> 2, Seed |-> 3, TickRate |-> 4, StartTS |-> 5,
           PlayerCount |-> 6, MapW |-> 7, MapH |-> 8]
Snapshot == [k \in 1..SnapshotBytes |-> <<50 + k, 1, 1>>]

MarshalHeader == Put(FileHeader, FileHeaderFields) \o PutUint(SnapshotBytes, 4) \o Snapshot

HeaderOK(data) ==
  /\ Len(data) >= FileHeaderSize
  /\ Uint(data, 0, 6) = FileHeader.Magic
  /\ Len(data) >= FileHeaderSize + Uint(data, 35, 4)

\* MarshalTick and UnmarshalTick
RecordedSize == 22
RecordedFields == <<<<"Player", 1>>, <<"Op", 1>>, <<"UnitID", 4>>, <<"TargetX", 4>>,
               <<"TargetY", 4>>, <<"TargetID", 4>>, <<"Tick", 4>>>>
RecordedAt == [Player |-> <<0, 1>>, Op |-> <<1, 1>>, UnitID |-> <<2, 4>>, TargetX |-> <<6, 4>>,
          TargetY |-> <<10, 4>>, TargetID |-> <<14, 4>>, Tick |-> <<18, 4>>]

MarshalTick(r) ==
  PutUint(r.tick, 4) \o PutUint(Len(r.cmds), 2)
    \o FlattenSeq([i \in DOMAIN r.cmds |-> Put(r.cmds[i], RecordedFields)])
    \o PutUint(r.hash, 8)

NoTick == [tick |-> Garbage, cmds |-> <<>>, hash |-> Garbage]

\* The bytes a record of n commands needs.  Mutant: its hash is forgotten.
NeededNoHash(n) == 4 + 2 + n * RecordedSize
Needed(n) == 4 + 2 + n * RecordedSize + 8

\* The record at the start of the bytes, n commands long, or NoTick.
UnmarshalTick(data, n) ==
  IF Len(data) < 6 \/ Len(data) < Needed(n) THEN NoTick
  ELSE [tick |-> Uint(data, 0, 4),
        cmds |-> [i \in 1..n |-> Get(data, 6 + (i - 1) * RecordedSize, RecordedAt)],
        hash |-> Uint(data, 6 + n * RecordedSize, 8)]

\* The commands a record says it has; bytes of different numbers may say any.
Counts(data) ==
  LET n == IF Len(data) < 6 THEN 0 ELSE Uint(data, 4, 2)
  IN  IF n = Garbage THEN 0..(Len(data) \div RecordedSize + 1) ELSE {n}
-----------------------------------------------------------------------------
VARIABLES
  file,
  recorded,   \* the records of the ticks executed
  good,       \* how many of them were written before a write failed
  reader      \* [state, offset, ticks]

repVars == <<file, recorded, good, reader>>

Recording == [state |-> "closed", offset |-> 0, ticks |-> <<>>]

Record(t, c) ==
  [tick |-> t, hash |-> 70 + t,
   cmds |-> [i \in 1..c |-> [f \in DOMAIN RecordedAt |->
     100 * t + 10 * i + (CHOOSE k \in DOMAIN RecordedFields : RecordedFields[k][1] = f)]]]

RepInit == file = MarshalHeader /\ recorded = <<>> /\ good = 0 /\ reader = Recording

\* sealTick: WriteTick appends the record, or a part of it and fails.
WriteTick(c, n) ==
  LET r == Record(Len(recorded) + 1, c)
      data == MarshalTick(r)
  IN  /\ reader = Recording /\ Len(recorded) < MaxTicks
      /\ n \in 0..Len(data)
      /\ recorded' = Append(recorded, r)
      /\ file' = file \o SubSeq(data, 1, n)
      /\ good' = IF n = Len(data) /\ good = Len(recorded) THEN good + 1 ELSE good
      /\ UNCHANGED reader

\* The server stops; the file is as long as the disk has it.
Crash(n) ==
  /\ reader = Recording /\ n \in 0..Len(file)
  /\ file' = SubSeq(file, 1, n)
  /\ reader' = [reader EXCEPT !.state = "stopped"]
  /\ UNCHANGED <<recorded, good>>

NewReader ==
  /\ reader.state = "stopped"
  /\ reader' = IF HeaderOK(file)
               THEN [reader EXCEPT !.state = "open", !.offset = FileHeaderSize + Uint(file, 35, 4)]
               ELSE [reader EXCEPT !.state = "error"]
  /\ UNCHANGED <<file, recorded, good>>

NextTick ==
  LET data == From(file, reader.offset) IN
  /\ reader.state = "open"
  /\ \/ /\ data = <<>>
        /\ reader' = [reader EXCEPT !.state = "end"]
     \/ /\ data # <<>>
        /\ \E n \in Counts(data) :
             LET r == UnmarshalTick(data, n)
             IN  reader' = IF r = NoTick THEN [reader EXCEPT !.state = "error"]
                           ELSE [reader EXCEPT !.offset = @ + Needed(n), !.ticks = Append(@, r)]
  /\ UNCHANGED <<file, recorded, good>>

RepNext ==
  \/ \E c \in 0..CmdsInRecord, n \in 0..(Needed(CmdsInRecord)) : WriteTick(c, n)
  \/ \E n \in 0..Len(file) : Crash(n)
  \/ NewReader \/ NextTick

RepSpec == RepInit /\ [][RepNext]_repVars
-----------------------------------------------------------------------------
Smaller(a, b) == IF a < b THEN a ELSE b

\* Whatever failed or was cut later, the ticks read from before are those
\* recorded, with their commands and hashes.  If no write failed, a file that
\* reads to its end without an error is exactly its header and the ticks read:
\* a crash within a record is noticed (format.go:107-158, reader.go:33-59).
ReadBack ==
  /\ LET n == Smaller(Len(reader.ticks), good)
     IN  SubSeq(reader.ticks, 1, n) = SubSeq(recorded, 1, n)
  /\ reader.state = "end" /\ good = Len(recorded) =>
       file = MarshalHeader
                \o FlattenSeq([i \in DOMAIN reader.ticks |-> MarshalTick(reader.ticks[i])])
=============================================================================
