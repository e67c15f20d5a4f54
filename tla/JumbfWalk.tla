----------------------------- MODULE JumbfWalk -----------------------------
(***************************************************************************)
(* The JUMBF box walker (src/src/exif/jumbf/mod.rs): a recursive descent   *)
(* over nested boxes that numbers the superboxes as sub-documents, names   *)
(* content tags after the label of the description box before them, and    *)
(* stops at a depth budget.  The recursion is a stack of open walks; the   *)
(* bytes decide, at every header, which box comes next or how the walk     *)
(* breaks off.  A document path is the sequence of levels that             *)
(* current_docpath renders as an ordinal and a dash-joined tail.           *)
(***************************************************************************)
EXTENDS Naturals, Sequences, SequencesExt

CONSTANTS
  MaxBoxDepth, \* MAX_BOX_DEPTH
  MaxBoxes,    \* bound on the headers a stream holds (TLC only)
  Labels,      \* sanitized, non-empty labels
  Fields,      \* the optional jumd fields a stream uses
  Contents,    \* the content boxes a stream uses, by the suffix of their names
  NoLabel

ASSUME DepthAssumption == MaxBoxDepth \in Nat /\ MaxBoxes \in Nat
ASSUME BoxesAssumption == /\ Fields \subseteq {"JUMDLabel", "JUMDID", "JUMDSignature"}
                          /\ Contents \subseteq {"Type", "Data", "Salt"}
ASSUME NoLabelAssumption == NoLabel \notin Labels

VARIABLES
  walks,      \* the open calls of walk, the outermost first: what opened each, and
              \* the superboxes around it
  jumd_level, \* the sub-document level stack
  doc_count,  \* the persistent document counter
  cur_label,  \* the active label, with the superbox whose jumd set it
  tags,       \* the tags emitted; the order is left out
  warnings,   \* the kinds of warnings raised
  headers,    \* box headers read so far
  opened,     \* history: superboxes met so far, and so the number of the last
  parents     \* history: superboxes that have met a superbox inside

vars == <<walks, jumd_level, doc_count, cur_label, tags, warnings, headers, opened, parents>>

Unlabelled == [label |-> NoLabel, owner |-> 0]

\* The open superboxes, the outermost first; 0 is the stream itself.
Open == IF walks = <<>> THEN <<0>> ELSE Last(walks).open
Here == Last(Open)

-----------------------------------------------------------------------------
(* Document paths.                                                          *)

\* Mutant: the path has two levels at most, as for a GoPro sub-document.
DocpathTwoLevels(levels) ==
  LET path == IF levels # <<>> /\ Last(levels) = 0 THEN Front(levels) ELSE levels
  IN  IF Len(path) > 2 THEN SubSeq(path, 1, 2) ELSE path

\* current_docpath: one trailing 0, the placeholder, is dropped.
Docpath(levels) ==
  IF levels # <<>> /\ Last(levels) = 0 THEN Front(levels) ELSE levels

\* process_jumb on entry, before the placeholder: the next number of the
\* innermost level, or a new document.
Entered ==
  IF jumd_level # <<>>
  THEN [jumd_level EXCEPT ![Len(jumd_level)] = @ + 1]
  ELSE <<doc_count + 1>>

\* Mutant: the last level stays behind.
LeftUncleared(levels) == Front(levels)

\* process_jumb on exit: the placeholder goes, and the document with it once
\* only its ordinal is left.
Left(levels) ==
  IF Len(levels) - 1 < 2 THEN <<>> ELSE Front(levels)

-----------------------------------------------------------------------------
(* One header of the innermost open walk.                                   *)

Walking == walks # <<>>

ReadHeader ==
  /\ Walking
  /\ headers < MaxBoxes
  /\ headers' = headers + 1

Tag(name, label) ==
  [name |-> name, label |-> label, path |-> Docpath(jumd_level), box |-> Here,
   top |-> IF Len(Open) > 1 THEN Open[2] ELSE 0,
   within |-> ToSet(Open), late |-> Here \in parents]

Emit(names, label) == tags' = tags \cup {Tag(n, label) : n \in names}

Warn(kinds) == warnings' = warnings \cup kinds

\* Mutant: the private region of a jumd starts a budget of its own.
DepthLeftNoPrivate == Len(walks) <= MaxBoxDepth \/ Last(walks).via = "jumd"

\* recurse: depth + 1 within the budget, the outermost walk having depth 0.
DepthLeft == Len(walks) <= MaxBoxDepth

\* jumb within the budget: its content becomes the innermost walk.
OpenJumb ==
  /\ ReadHeader
  /\ DepthLeft
  /\ jumd_level' = Append(Entered, 0)
  /\ doc_count' = IF jumd_level = <<>> THEN doc_count + 1 ELSE doc_count
  /\ opened' = opened + 1
  /\ parents' = parents \cup {Here}
  /\ walks' = Append(walks, [via |-> "jumb", open |-> Append(Open, opened + 1)])
  /\ UNCHANGED <<cur_label, tags, warnings>>

\* jumb beyond the budget: its entry and exit run around a warning.
JumbTooDeep ==
  /\ ReadHeader
  /\ ~DepthLeft
  /\ jumd_level' = Left(Append(Entered, 0))
  /\ doc_count' = IF jumd_level = <<>> THEN doc_count + 1 ELSE doc_count
  /\ opened' = opened + 1
  /\ parents' = parents \cup {Here}
  /\ cur_label' = Unlabelled
  /\ Warn({"TooDeep"})
  /\ UNCHANGED <<walks, tags>>

OpenAsoc ==
  /\ ReadHeader
  /\ DepthLeft
  /\ walks' = Append(walks, [via |-> "asoc", open |-> Open])
  /\ UNCHANGED <<jumd_level, doc_count, cur_label, tags, warnings, opened, parents>>

AsocTooDeep ==
  /\ ReadHeader
  /\ ~DepthLeft
  /\ Warn({"TooDeep"})
  /\ UNCHANGED <<walks, jumd_level, doc_count, cur_label, tags, opened, parents>>

-----------------------------------------------------------------------------
(* jumd: type and toggles, then label, id and signature by the toggles, then *)
(* a private region.                                                         *)

JumdTruncated ==
  /\ ReadHeader
  /\ cur_label' = Unlabelled
  /\ Warn({"TruncatedJumd"})
  /\ UNCHANGED <<walks, jumd_level, doc_count, tags, opened, parents>>

\* The label's terminator is missing: nothing past it is read.
JumdUnterminated ==
  /\ ReadHeader
  /\ cur_label' = Unlabelled
  /\ Emit({"JUMDType", "JUMDToggles"}, Unlabelled)
  /\ Warn({"MissingLabelTerminator"})
  /\ UNCHANGED <<walks, jumd_level, doc_count, opened, parents>>

\* The fields up to the first one cut off; an empty label names nothing.
JumdFields(label, fields) ==
  /\ cur_label' = IF label \in Labels THEN [label |-> label, owner |-> Here] ELSE Unlabelled
  /\ Emit({"JUMDType", "JUMDToggles"} \cup fields, Unlabelled)

JumdLabelled(fields) == {NoLabel} \cup (IF "JUMDLabel" \in fields THEN Labels ELSE {})

JumdCut(fields, missing) ==
  /\ ReadHeader
  /\ \E label \in JumdLabelled(fields) : JumdFields(label, fields)
  /\ Warn({missing})
  /\ UNCHANGED <<walks, jumd_level, doc_count, opened, parents>>

JumdMissingId ==
  \E fields \in SUBSET (Fields \cap {"JUMDLabel"}) : JumdCut(fields, "MissingId")

JumdMissingSignature ==
  \E fields \in SUBSET (Fields \cap {"JUMDLabel", "JUMDID"}) : JumdCut(fields, "MissingSignature")

Jumd ==
  /\ ReadHeader
  /\ \E fields \in SUBSET Fields :
       \E label \in JumdLabelled(fields) : JumdFields(label, fields)
  /\ \/ UNCHANGED <<walks, warnings>>                  \* no private region
     \/ /\ DepthLeft
        /\ walks' = Append(walks, [via |-> "jumd", open |-> Open])
        /\ UNCHANGED warnings
     \/ /\ ~DepthLeft
        /\ Warn({"TooDeep"})
        /\ UNCHANGED walks
  /\ UNCHANGED <<jumd_level, doc_count, opened, parents>>

-----------------------------------------------------------------------------
(* Content boxes.                                                           *)

\* bfdb, bidb, c2sh: named after the active label.
Content ==
  /\ ReadHeader
  /\ \E name \in Contents : Emit({name}, cur_label)
  /\ UNCHANGED <<walks, jumd_level, doc_count, cur_label, warnings, opened, parents>>

\* json, cbor: the keys of the document, never renamed; a json document of
\* another shape has none, a cbor one keeps those read before an error.
Document ==
  /\ ReadHeader
  /\ \/ Emit({"key"}, Unlabelled) /\ UNCHANGED warnings
     \/ Warn({"UnrecognizedJsonBox"}) /\ UNCHANGED tags
     \/ Emit({"key"}, Unlabelled) /\ Warn({"CborError"})
  /\ UNCHANGED <<walks, jumd_level, doc_count, cur_label, opened, parents>>

UnknownBox ==
  /\ ReadHeader
  /\ UNCHANGED <<walks, jumd_level, doc_count, cur_label, tags, warnings, opened, parents>>

-----------------------------------------------------------------------------
(* The end of the innermost walk.                                           *)

\* Mutant: the label survives the superbox.
ReturnLabelled ==
  /\ Walking
  /\ walks' = Front(walks)
  /\ jumd_level' = IF Last(walks).via = "jumb" THEN Left(jumd_level) ELSE jumd_level
  /\ UNCHANGED <<cur_label, doc_count, tags, headers, opened, parents>>

\* The loop stops at the end of its data, or breaks off with one warning; the
\* call that opened it then finishes.
Return ==
  /\ Walking
  /\ walks' = Front(walks)
  /\ IF Last(walks).via = "jumb"
     THEN /\ cur_label' = Unlabelled
          /\ jumd_level' = Left(jumd_level)
     ELSE UNCHANGED <<cur_label, jumd_level>>
  /\ UNCHANGED <<doc_count, tags, headers, opened, parents>>

EndOfData == Return /\ UNCHANGED warnings

BrokenBox == Return /\ \E kind \in {"BoxTruncated", "InvalidBoxLength", "Over4Gb"} : Warn({kind})

Init ==
  /\ walks = <<[via |-> "stream", open |-> <<0>>]>>
  /\ jumd_level = <<>>
  /\ doc_count = 0
  /\ cur_label = Unlabelled
  /\ tags = {}
  /\ warnings = {}
  /\ headers = 0
  /\ opened = 0
  /\ parents = {}

Next ==
  \/ OpenJumb \/ JumbTooDeep \/ OpenAsoc \/ AsocTooDeep
  \/ JumdTruncated \/ JumdUnterminated \/ JumdMissingId \/ JumdMissingSignature \/ Jumd
  \/ Content \/ Document \/ UnknownBox
  \/ EndOfData \/ BrokenBox

Spec == Init /\ [][Next]_vars

-----------------------------------------------------------------------------
(* Properties.                                                              *)

\* The descent stays within the budget however boxes nest (superboxes,
\* associations, the private region of a jumd), and the level stack is empty
\* outside a superbox and one longer than their nesting inside.
TypeOK ==
  /\ Len(walks) <= MaxBoxDepth + 1
  /\ jumd_level \in Seq(Nat)
  /\ Len(jumd_level) = IF Len(Open) = 1 THEN 0 ELSE Len(Open)
  /\ doc_count <= opened
  /\ cur_label.label \in Labels \cup {NoLabel}

\* Two superboxes never share a document path, as far as each has met no
\* superbox inside it; a tag outside every superbox has the empty path.
OwnPathsDistinct ==
  \A s, t \in tags : ~s.late /\ ~t.late => (s.path = t.path <=> s.box = t.box)

\* The claim for every tag of a superbox: "two distinct nested superbox
\* contents never collide".
ContentsNeverCollide ==
  \A s, t \in tags : s.path = t.path => s.box = t.box

\* The ordinal of the document tells the top-level superboxes apart, for every
\* tag at any depth.
DocumentIsTopLevelBox ==
  \A s, t \in tags :
    (s.path = <<>> <=> s.top = 0) /\
    (s.path # <<>> /\ t.path # <<>> => (s.path[1] = t.path[1] <=> s.top = t.top))

\* A label renames only content inside the superbox whose jumd set it: "the
\* rename context does not escape the superbox".
LabelStaysInside ==
  \A t \in tags : t.label # Unlabelled => t.label.owner \in t.within
=============================================================================
