---------------------------- MODULE ExtractInfo ----------------------------
(***************************************************************************)
(* The two drivers of the crate over the same candidates:                  *)
(*                                                                         *)
(*  - "json", extract_info_typed (src/src/parser.rs), which knows the      *)
(*    name of the file and renders a document: the File:* triplet, the     *)
(*    first warning, the first error, the tags of the accepted parser;     *)
(*  - "typed", parse_bytes_inner (src/src/lib.rs), which returns the meta. *)
(*                                                                         *)
(* A parser is a function of the bytes, of its arguments and of the flags  *)
(* the chained audio formats share; `verdicts` remembers what each call    *)
(* answered.  The typed driver runs after the other one.                   *)
(***************************************************************************)
EXTENDS FileDetection, FiniteSets

CONSTANTS
  Parsed,  \* types any_parser_for has a parser for
  Chained, \* parsers that write to the shared flags
  Silent   \* types whose meta may suppress the triplet (FileTypeFinalize::None)

\* No type is both; a property list is parsed.
ASSUME ParsedAssumption == Parsed \cap Unsupported = {} /\ "PLIST" \in Parsed

VARIABLES
  name, file, \* what the drivers were given
  cursor,     \* per driver: the candidates consumed
  flags,      \* per driver: SharedFlags, fresh or touched by a parser
  result,     \* per driver: "running", "accepted", "unsupported" or "none"
  verdicts,   \* what the parser calls answered, by their arguments
  triplet,    \* json: which step wrote each File:* key
  warning,    \* json: who raised the first warning
  error       \* json: who raised the first error

vars == <<name, file, cursor, flags, result, verdicts, triplet, warning, error>>

Drivers == {"json", "typed"}
NoOne == "nobody"

Nameless == [ext |-> NoExt, types |-> <<>>]
NameOf(d) == IF d = "json" THEN name ELSE Nameless
Given(d) == DetectionCandidates(NameOf(d), file)
Running(d) == /\ result[d] = "running"
              /\ d = "typed" => result["json"] # "running"

Cand(d) == Given(d)[cursor[d] + 1]
HasNext(d) == cursor[d] < Len(Given(d))

\* An XML property list reached as XMP is parsed as PLIST.
Dispatched(c) == IF c.type = "XMP" /\ file.xml_plist THEN "PLIST" ELSE c.type

Call(d, c) == [type |-> Dispatched(c), skip |-> c.skip, parent |-> c.parent,
               ext |-> NameOf(d).ext, flags |-> flags[d]]

\* The answers a call may give: any, unless the same call was made before.
Answers(call) == {a \in BOOLEAN : call \in DOMAIN verdicts => verdicts[call] = a}

Consult(d, answer) ==
  /\ answer \in Answers(Call(d, Cand(d)))
  /\ verdicts' = [k \in DOMAIN verdicts \cup {Call(d, Cand(d))} |->
                    IF k \in DOMAIN verdicts THEN verdicts[k] ELSE answer]

Advance(d) == cursor' = [cursor EXCEPT ![d] = @ + 1]
EndsAs(d, how) == result' = [result EXCEPT ![d] = how]

\* Mutant: what a rejected parser wrote stays.
AfterRejectLeaked(d) == IF Dispatched(Cand(d)) \in Chained THEN "touched" ELSE flags[d]

AfterReject(d) == "fresh"

\* get_or_insert.
First(old, new) == IF old = NoOne THEN new ELSE old

-----------------------------------------------------------------------------
(* The candidate loop, common to both drivers.                              *)

\* No parser is ported for the type; the typed driver knows no other case.
NoParser(d) ==
  /\ Running(d)
  /\ HasNext(d)
  /\ d = "json" => Dispatched(Cand(d)) \notin Unsupported
  /\ Dispatched(Cand(d)) \notin Parsed
  /\ Advance(d)
  /\ UNCHANGED <<name, file, flags, result, verdicts, triplet, warning, error>>

\* Mutant: the warning of the unknown header is raised before the parse.
RejectWarned(d) ==
  /\ Running(d)
  /\ HasNext(d)
  /\ Dispatched(Cand(d)) \in Parsed
  /\ Consult(d, FALSE)
  /\ Advance(d)
  /\ flags' = [flags EXCEPT ![d] = AfterReject(d)]
  /\ warning' = IF Cand(d).after_unknown_header THEN First(warning, "detection") ELSE warning
  /\ UNCHANGED <<name, file, result, triplet, error>>

Reject(d) ==
  /\ Running(d)
  /\ HasNext(d)
  /\ Dispatched(Cand(d)) \in Parsed
  /\ Consult(d, FALSE)
  /\ Advance(d)
  /\ flags' = [flags EXCEPT ![d] = AfterReject(d)]
  /\ UNCHANGED <<name, file, result, triplet, warning, error>>

-----------------------------------------------------------------------------
(* The JSON document.                                                       *)

Keys == {"FileType", "FileTypeExtension", "MIMEType"}

\* finalize_file_type: the three keys by first-wins insertion, or none.  The
\* MIME type of a Real file may be that of its one stream.
Finalized(c, silent) ==
  IF c.after_unknown_header \/ silent THEN {<<>>}
  ELSE {[k \in Keys |-> IF k = "MIMEType" THEN mime ELSE "finalize"] :
          mime \in IF c.type = "Real" THEN {"finalize", "meta"} ELSE {"finalize"}}

\* The detected type the override of a property list is gated on.
FileTypeIsXmp == LET given == Given("json") IN given # <<>> /\ given[1].type = "XMP"

\* The content override of an XML property list replaces the keys in place.
Overridden(keys, c) ==
  IF ~c.after_unknown_header /\ Dispatched(c) = "PLIST" /\ FileTypeIsXmp
  THEN {keys, [k \in Keys |-> "content"],
        [k \in Keys |-> IF k = "MIMEType" THEN keys[k] ELSE "content"]}
  ELSE {keys}

JsonUnsupported ==
  /\ Running("json")
  /\ HasNext("json")
  /\ Dispatched(Cand("json")) \in Unsupported
  /\ triplet' = [k \in Keys |-> "finalize"]
  /\ warning' = First(warning, "unsupported")
  /\ EndsAs("json", "unsupported")
  /\ UNCHANGED <<name, file, cursor, flags, verdicts, error>>

\* The first warning and error of the meta follow the detection's own.
JsonAccept ==
  /\ Running("json")
  /\ HasNext("json")
  /\ Dispatched(Cand("json")) \in Parsed
  /\ Consult("json", TRUE)
  /\ EndsAs("json", "accepted")
  /\ LET c == Cand("json") IN
     /\ \E silent \in {FALSE} \cup {Dispatched(c) \in Silent} :
          \E keys \in Finalized(c, silent) : triplet' \in Overridden(keys, c)
     /\ \E w \in {NoOne, "meta"} :
          warning' = First(IF c.after_unknown_header THEN First(warning, "detection") ELSE warning, w)
     /\ \E e \in {NoOne, "meta"} : error' = First(error, e)
  /\ UNCHANGED <<name, file, cursor, flags>>

\* finalization_error has an answer for every unclaimed file.
JsonUnclaimed ==
  /\ Running("json")
  /\ ~HasNext("json")
  /\ error' = First(error, "unclaimed")
  /\ EndsAs("json", "none")
  /\ UNCHANGED <<name, file, cursor, flags, verdicts, triplet, warning>>

-----------------------------------------------------------------------------
(* The typed API.                                                           *)

TypedAccept ==
  /\ Running("typed")
  /\ HasNext("typed")
  /\ Dispatched(Cand("typed")) \in Parsed
  /\ Consult("typed", TRUE)
  /\ EndsAs("typed", "accepted")
  /\ UNCHANGED <<name, file, cursor, flags, triplet, warning, error>>

TypedUnclaimed ==
  /\ Running("typed")
  /\ ~HasNext("typed")
  /\ EndsAs("typed", "none")
  /\ UNCHANGED <<name, file, cursor, flags, verdicts, triplet, warning, error>>

Init ==
  /\ name \in Names
  /\ file \in Files
  /\ cursor = [d \in Drivers |-> 0]
  /\ flags = [d \in Drivers |-> "fresh"]
  /\ result = [d \in Drivers |-> "running"]
  /\ verdicts = <<>>
  /\ triplet = <<>>
  /\ warning = NoOne
  /\ error = NoOne

Next ==
  \/ \E d \in Drivers : NoParser(d) \/ Reject(d)
  \/ JsonUnsupported \/ JsonAccept \/ JsonUnclaimed
  \/ TypedAccept \/ TypedUnclaimed

Spec == Init /\ [][Next]_vars

-----------------------------------------------------------------------------
(* Properties.                                                              *)

TypeOK ==
  /\ \A d \in Drivers : cursor[d] \in 0..Len(Given(d)) /\ flags[d] \in {"fresh", "touched"}
  /\ result \in [Drivers -> {"running", "accepted", "unsupported", "none"}]
  /\ result["typed"] # "unsupported"
  /\ \A k \in DOMAIN verdicts : verdicts[k] \in BOOLEAN
  /\ DOMAIN triplet \in {{}, Keys}
  /\ warning \in {NoOne, "detection", "unsupported", "meta"}
  /\ error \in {NoOne, "unclaimed", "meta"}

\* A parser never sees what a rejected one left in SharedFlags, so the one
\* that claims the file is the first that would claim it alone: "side effects
\* from a rejected candidate don't leak into the next candidate's parse".
Alone(d, i) ==
  LET c == Given(d)[i]
      call == [Call(d, c) EXCEPT !.flags = "fresh"]
  IN  /\ Dispatched(c) \in Parsed
      /\ call \in DOMAIN verdicts
      /\ verdicts[call]

ClaimedByFirst ==
  \A d \in Drivers :
    result[d] = "accepted" =>
      /\ Alone(d, cursor[d] + 1)
      /\ \A i \in 1..cursor[d] : ~Alone(d, i)

\* On bytes without a name the typed API claims what the document reports, by
\* the same candidate, and nothing when the document says unsupported, though
\* it has no unsupported case: the list itself ends there.
DriversAgree ==
  /\ name = Nameless
  /\ \A d \in Drivers : result[d] # "running"
  => /\ result["json"] = "accepted" <=> result["typed"] = "accepted"
     /\ result["json"] = "accepted" => cursor["json"] = cursor["typed"]

\* What the document says of itself is what happened to the file, and a
\* rejected candidate leaves no trace in it: an error of the driver if and
\* only if nothing claimed the file, its warning if and only if the claim was
\* past an unknown header or unsupported, ahead of any warning of the parser;
\* no triplet past an unknown header or without a claim.  The marker scan may
\* come back to a JPEG or TIFF already rejected at offset 0, but no document
\* reports "data after unknown 0-byte header".
DocumentTellsOutcome ==
  result["json"] # "running" =>
    LET past == result["json"] = "accepted" /\ Cand("json").after_unknown_header IN
    /\ error = "unclaimed" <=> result["json"] = "none"
    /\ warning = "unsupported" <=> result["json"] = "unsupported"
    /\ warning = "detection" <=> past
    /\ past => Cand("json").skip > 0
    /\ past \/ result["json"] = "none" => triplet = <<>>
    /\ result["json"] = "unsupported" => DOMAIN triplet = Keys
=============================================================================
