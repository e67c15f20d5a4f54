--------------------------- MODULE MCExtractInfo ---------------------------
(* One type of each kind of the tables, in the order of FILE_TYPES, every   *)
(* content their magic numbers distinguish, and names that change the scan. *)
EXTENDS ExtractInfo

MCFileTypes == <<"JPEG", "EXV", "TIFF", "XMP", "WV", "Real", "FLAC", "MKV", "MXF", "PLIST",
                 "PHP", "MP3">>

N(ext, types) == [ext |-> ext, types |-> types]

MCNames == {N(NoExt, <<>>), N("TIFF", <<"TIFF">>), N("MP3", <<"MP3">>), N("MXF", <<"MXF">>),
            N("PLIST", <<"PLIST">>), N("NXD", <<"XMP">>), N("PHP", <<>>), N("DIR", <<>>)}

At(type, skip) == [type |-> type, skip |-> skip]
F(matched, marker, xml_plist) == [matched |-> matched, marker |-> marker, xml_plist |-> xml_plist]

MCFiles ==
  {F(m, k, FALSE) : m \in {{}, {"EXV"}, {"FLAC"}, {"MKV"}, {"MXF"}, {"Real"}, {"PLIST"}, {"TIFF"}},
                    k \in {NoMarker, At("JPEG", 5), At("TIFF", 5)}}
  \cup {F({"JPEG"}, At("JPEG", 0), FALSE), F({"TIFF"}, At("TIFF", 0), FALSE)}
  \cup {F(m, k, p) : m \in {{"XMP"}, {"XMP", "PLIST"}, {"XMP", "PLIST", "PHP"}},
                     k \in {NoMarker, At("JPEG", 5)}, p \in BOOLEAN}
=============================================================================
