--------------------------- MODULE FileDetection ---------------------------
(***************************************************************************)
(* Which parsers a file is offered to, and in what order                   *)
(* (src/src/filetype.rs, detection_candidates): a pure function of the     *)
(* name and of the first 1024 bytes.  The tables (magic numbers, module    *)
(* names, the extension lookup) are constants; a file is what the tables   *)
(* see of its bytes.                                                       *)
(***************************************************************************)
EXTENDS Naturals, Sequences, SequencesExt

CONSTANTS
  FILE_TYPES,  \* the types in scan order
  Signed,      \* types that have a magic number
  Core,        \* types whose module is the core itself
  Unsupported, \* types recognized and not parsed
  NoMagic,     \* types a name opens without their magic number
  WeakMagic,   \* types too weakly recognized to beat an extension
  Names,       \* file names, as their extension and the types it may be
  Files,       \* file contents, as the tables see them
  NoExt, NoMarker

\* A content matches some magic numbers; its first JPEG or TIFF marker is at
\* some offset; it is an XML property list or not.  A marker at offset 0 is
\* the magic number itself, and every XML document matches XMP's.
ASSUME FilesAssumption ==
  \A f \in Files :
    /\ f.matched \subseteq Signed
    /\ f.marker # NoMarker => f.marker.type \in {"JPEG", "TIFF"} /\ f.marker.skip \in Nat
    /\ f.marker # NoMarker /\ f.marker.skip = 0 => f.marker.type \in f.matched
    /\ "JPEG" \in f.matched => f.marker = [type |-> "JPEG", skip |-> 0]
    /\ f.xml_plist => "XMP" \in f.matched

\* get_file_type gives no type to a name whose only one is unsupported.
ASSUME NamesAssumption ==
  \A n \in Names : n.types \in Seq(STRING) /\ \A t \in ToSet(n.types) : t \notin Unsupported

ASSUME ScanAssumption ==
  FILE_TYPES \in Seq(STRING) /\ {"JPEG", "TIFF"} \subseteq ToSet(FILE_TYPES)

NoModule(t) == t \in Core \cup Unsupported

\* The types of the name first, then the rest of the scan.
Scanned(n) == n.types \o FILE_TYPES
Listed(n, i) == i > Len(n.types) => Scanned(n)[i] \notin ToSet(n.types)

\* An extension that names a type without a magic number or a module.
Recognized(n) == n.ext # NoExt /\ n.ext \notin Signed /\ NoModule(n.ext)

Passes(n, f, t) ==
  /\ t \in Signed => t \in f.matched \/ (n.types # <<>> /\ t \in NoMagic)
  /\ t \notin Signed => ~NoModule(t)
  /\ ~(t \in WeakMagic /\ Recognized(n))

ParentOf(n, t) ==
  IF t # "TIFF" \/ n.types = <<>> THEN t
  ELSE IF n.ext = NoExt THEN "" ELSE n.ext

Candidate(n, t, skip, unknown) ==
  [type |-> t, skip |-> skip, after_unknown_header |-> unknown, parent |-> ParentOf(n, t)]

\* The end of the list: the recognized extension, else the first JPEG or TIFF
\* marker anywhere in the head.
Terminal(n, f) ==
  IF Recognized(n) THEN <<Candidate(n, n.ext, 0, FALSE)>>
  ELSE IF f.marker # NoMarker THEN <<Candidate(n, f.marker.type, f.marker.skip, TRUE)>>
  ELSE <<>>

\* Mutant: an unsupported type does not end the list.
EndsNever(offered) == FALSE

\* A type that is not parsed ends the list.
Ends(offered) == offered # <<>> /\ Last(offered).type \in Unsupported

\* The candidates so far, one more type of the list looked at.
Offers(n, f, offered, i) ==
  IF Ends(offered) \/ ~Listed(n, i) \/ ~Passes(n, f, Scanned(n)[i]) THEN offered
  ELSE Append(offered, Candidate(n, Scanned(n)[i], 0, FALSE))

Offered(n, f) ==
  LET After[i \in 0..Len(Scanned(n))] ==
        IF i = 0 THEN <<>> ELSE Offers(n, f, After[i - 1], i)
  IN  After[Len(Scanned(n))]

DetectionCandidates(n, f) ==
  LET offered == Offered(n, f)
  IN  IF Ends(offered) THEN offered ELSE offered \o Terminal(n, f)
=============================================================================
