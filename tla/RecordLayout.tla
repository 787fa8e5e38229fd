----------------------------- MODULE RecordLayout -----------------------------
(***************************************************************************)
(* The record of a tracer as its BPF program submits it, a C struct whose  *)
(* fields are aligned to their size, and as binary.Read takes it apart, a  *)
(* Go struct whose fields are read one after the other.                    *)
(***************************************************************************)
EXTENDS Naturals, Sequences

\* A field: its name, its bytes, and the bytes of the number it consists of
\* (1 for text), which is what C aligns it to.
Num(name, size) == [name |-> name, size |-> size, align |-> size]
Text(name, size) == [name |-> name, size |-> size, align |-> 1]

\* The fields of data_t in the BPF programs, by the names of the Go structs.
OpenData == <<Num("PID", 4), Num("TGID", 4), Num("ReturnValue", 4), Text("Comm", 16),
              Text("Filename", 255)>>
BreakoutData == OpenData
BashData == <<Num("PID", 4), Num("TGID", 4), Num("UID", 4), Num("GID", 4), Text("Comm", 80),
              Num("ReturnValue", 4)>>
TcpData == <<Num("PID", 4), Num("TGID", 4), Num("UID", 4), Num("GID", 4),
             Num("ReturnValue", 4), Text("Comm", 16), Num("SourceAddress", 4),
             Num("DestinationAddress", 4), Num("SourcePort", 2), Num("DestinationPort", 2),
             Num("State", 1), Num("TCPFlags", 1), Num("Seq", 4), Num("Len", 2)>>

\* The fields of openEvent, readlineEvent and tcpEvent.
OpenEvent == <<Num("PID", 4), Num("TGID", 4), Num("ReturnValue", 4), Text("Comm", 16),
               Text("Filename", 255)>>
BreakoutEvent == OpenEvent
BashEvent == <<Num("PID", 4), Num("TGID", 4), Num("UID", 4), Num("GID", 4), Text("Comm", 80),
               Num("ReturnValue", 4)>>

\* Faulty variant of TcpEvent: two neighbours of one size in the other order.
TcpEventSwapped ==
  <<Num("PID", 4), Num("TGID", 4), Num("UID", 4), Num("GID", 4),
    Num("ReturnValue", 4), Text("Comm", 16), Num("DestinationAddress", 4),
    Num("SourceAddress", 4), Num("SourcePort", 2), Num("DestinationPort", 2),
    Num("State", 1), Num("TCPFlags", 1), Num("Seq", 4), Num("Len", 2)>>

TcpEvent ==
  <<Num("PID", 4), Num("TGID", 4), Num("UID", 4), Num("GID", 4),
    Num("ReturnValue", 4), Text("Comm", 16), Num("SourceAddress", 4),
    Num("DestinationAddress", 4), Num("SourcePort", 2), Num("DestinationPort", 2),
    Num("State", 1), Num("TCPFlags", 1), Num("Seq", 4), Num("Len", 2)>>

Data == [open |-> OpenData, dockeropenbreakout |-> BreakoutData,
         bashreadline |-> BashData, tcpdrop |-> TcpData]
Event == [open |-> OpenEvent, dockeropenbreakout |-> BreakoutEvent,
          bashreadline |-> BashEvent, tcpdrop |-> TcpEvent]

\* The next multiple of align, where the C compiler puts a field so aligned.
Aligned(offset, align) == offset + ((align - (offset % align)) % align)

\* Where each of the fields ends, if they follow one another in this way.
Ends(fields) ==
  LET ends[n \in 0..Len(fields)] ==
        IF n = 0 THEN 0 ELSE Aligned(ends[n - 1], fields[n].align) + fields[n].size
  IN ends

\* offsetof the i-th field of data_t.
OffsetOf(tracer, i) == Aligned(Ends(Data[tracer])[i - 1], Data[tracer][i].align)

\* sizeof(data_t): up to a multiple of the largest alignment, that of PID.
SizeOf(tracer) == Aligned(Ends(Data[tracer])[Len(Data[tracer])], Data[tracer][1].align)

\* The position after the first i fields, as binary.Read counts: no holes.
Packed(fields) == [i \in DOMAIN fields |-> [fields[i] EXCEPT !.align = 1]]
ReadUpTo(tracer, i) == Ends(Packed(Event[tracer]))[i]

\* The names of the fields that are given their own bytes, and all of them.
FieldsInPlace(tracer) ==
  {Event[tracer][i].name : i \in {i \in DOMAIN Event[tracer] :
     \E j \in DOMAIN Data[tracer] :
       Data[tracer][j] = Event[tracer][i] /\ OffsetOf(tracer, j) = ReadUpTo(tracer, i - 1)}}
FieldsOf(tracer) == {Event[tracer][i].name : i \in DOMAIN Event[tracer]}

\* binary.Read fails on a record that is shorter than the struct.
Decodes(tracer) == ReadUpTo(tracer, Len(Event[tracer])) <= SizeOf(tracer)
=============================================================================
