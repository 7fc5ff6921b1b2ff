----------------------------- MODULE Transfers -----------------------------
(***************************************************************************)
(* The arithmetic of files: how a direct upload is cut into parts          *)
(* (apps/edge/src/uploads.ts), what the three asset stores keep of a file  *)
(* they are given, and which bytes of a cut a range request is given by    *)
(* the API (apps/api/src/routes/assets.ts) and by the store behind it, the *)
(* edge's (apps/edge/src/bindings.ts) or the API's own.                    *)
(*                                                                         *)
(* Sizes are counted in bytes; the double arithmetic of the source is      *)
(* exact for files of the sizes R2 accepts.                                *)
(***************************************************************************)
EXTENDS Integers

CONSTANTS
  Absent,     \* what is not there
  Malformed,  \* a header that is no range
  Refused,    \* a 416 answer
  MinPart,    \* MIN_PART
  TargetPart, \* TARGET_PART
  MaxParts    \* the parts a multipart upload may have

ASSUME PartsAssumption ==
  /\ MinPart \in Nat \ {0}
  /\ TargetPart \in Nat
  /\ MaxParts \in Nat \ {0}

ASSUME RefusedAssumption == Refused # Absent

---------------------------------------------------------------------------
(***************************************************************************)
(* multipartSizing                                                         *)
(***************************************************************************)
CeilDiv(a, b) == (a + b - 1) \div b

Larger(a, b) == IF a < b THEN b ELSE a

\* A multiple of MinPart that makes parts few enough.
MinimumForLimit(size) == CeilDiv(size, MaxParts * MinPart) * MinPart

PartSize(size) == Larger(Larger(MinPart, TargetPart), MinimumForLimit(size))

PartCount(size) == CeilDiv(size, PartSize(size))

---------------------------------------------------------------------------
(***************************************************************************)
(* Ranges: "bytes=first-last", where the API takes either to be left out   *)
(***************************************************************************)
\* A header is Absent, Malformed or [first, last].
ApiRange(header, total) ==
  IF header = Absent THEN Absent
  ELSE IF header = Malformed THEN Refused
  ELSE LET start == IF header.first = Absent THEN 0 ELSE header.first
           end   == IF header.last = Absent THEN total - 1 ELSE header.last
       IN  IF end < start \/ start >= total THEN Refused
           ELSE [start |-> start, end |-> IF end < total THEN end ELSE total - 1]

\* The R2 store asks the edge for what the API range says.
Asked(range) == IF range = Absent THEN Absent ELSE [first |-> range.start, last |-> range.end]

EdgeRange(asked, size) ==
  IF asked = Absent THEN Absent
  ELSE LET end == IF asked.last < size THEN asked.last ELSE size - 1
       IN  IF asked.first > end \/ asked.first >= size THEN Refused
           ELSE [offset |-> asked.first, length |-> end - asked.first + 1]

\* The stores of the API refuse a range that passes the end of the file, which
\* the edge would cut.
OwnRange(range, size) ==
  IF range = Absent THEN Absent
  ELSE IF range.start < 0 \/ range.end < range.start \/ range.end >= size THEN Refused
  ELSE [offset |-> range.start, length |-> range.end - range.start + 1]

Sent(store, range, size) ==
  IF store = "r2" THEN EdgeRange(Asked(range), size) ELSE OwnRange(range, size)

\* The answer to a request for a cut: its status, Content-Length, and the
\* Content-Range it names.  `kept' is the size of the file when it is read,
\* `total' its size when it was asked for.
CutResponse(store, header, total, kept) ==
  LET range == ApiRange(header, total)
      sent  == IF range = Refused THEN Refused ELSE Sent(store, range, kept)
  IN  IF Refused \in {range, sent} THEN [status |-> 416, length |-> 0, range |-> Absent]
      ELSE IF range = Absent THEN [status |-> 200, length |-> kept, range |-> Absent]
      ELSE [status |-> 206, length |-> sent.length, range |-> range]

---------------------------------------------------------------------------
(***************************************************************************)
(* The asset stores                                                        *)
(***************************************************************************)
Stores == {"filesystem", "gcs", "r2"}

\* A store's file is Absent or [size, type, filename].
\*
\* put: a file that is not as long as it was declared is refused.  The stores
\* of the API then delete it, the edge keeps it.
Put(store, file, declared) ==
  IF file.size = declared THEN [accepted |-> TRUE, kept |-> file]
  ELSE [accepted |-> FALSE, kept |-> IF store = "r2" THEN file ELSE Absent]

\* stat: the file system knows the size only, the rest is in the memory of the
\* process that put the file.
Stat(store, kept, restarted) ==
  IF kept = Absent THEN Absent
  ELSE IF store = "filesystem" /\ restarted THEN [kept EXCEPT !.type = Absent, !.filename = Absent]
  ELSE kept

\* The type a cut is served with: the record's, or the store's.
ServedType(recorded, stat) == IF recorded # Absent THEN recorded ELSE stat.type

=============================================================================
