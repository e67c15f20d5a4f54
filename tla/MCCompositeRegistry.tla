------------------------ MODULE MCCompositeRegistry ------------------------
(* The definitions of REGISTRY (src/src/composite/table.rs) that read or     *)
(* feed another composite, in sort_key order, with the inputs their          *)
(* building depends on, over every combination of the groups of tags they    *)
(* read.  DigitalZoom is a composite no definition builds; GPSLatitude and   *)
(* GPSLongitude have two definitions each.                                   *)
EXTENDS Composite

Req(groups, name) == [kind |-> "Require", groups |-> groups, group0 |-> "", name |-> name]
Des(groups, name) == [kind |-> "Desire", groups |-> groups, group0 |-> "", name |-> name]
SonyReq(name) == [kind |-> "Require", groups |-> {}, group0 |-> "Sony", name |-> name]

D(name, inputs) ==
  [name |-> name, inputs |-> inputs, sub_doc |-> "No", probes |-> {}, priority |-> 1]
SubDoc(def) == [def EXCEPT !.sub_doc = "All"]
Avoid(def) == [def EXCEPT !.priority = 0]

Comp == {"Composite"}

RegistryOrder == <<
  Avoid(D("ISO", <<Des({"Canon"}, "CameraISO")>>)),
  D("Lens", <<Req({"Canon"}, "MinFocalLength")>>),
  D("Lens35efl", <<Req({"Canon"}, "MinFocalLength"), Des(Comp, "ScaleFactor35efl"), Req(Comp, "Lens")>>),
  D("WB_RGGBLevels", <<Req({"Canon"}, "WhiteBalance")>>),
  D("Aperture", <<Des({}, "FNumber")>>),
  D("CircleOfConfusion", <<Req(Comp, "ScaleFactor35efl")>>),
  D("DOF", <<Req({}, "FocalLength"), Req(Comp, "Aperture"), Req(Comp, "CircleOfConfusion"),
             Des({}, "FocusDistance")>>),
  D("FOV", <<Req({}, "FocalLength"), Req(Comp, "ScaleFactor35efl"), Des({}, "FocusDistance")>>),
  D("FocalLength35efl", <<Req({}, "FocalLength"), Des(Comp, "ScaleFactor35efl")>>),
  Avoid(D("GPSPosition", <<Req(Comp, "GPSLatitude"), Req(Comp, "GPSLongitude")>>)),
  D("HyperfocalDistance", <<Req({}, "FocalLength"), Req(Comp, "Aperture"),
                            Req(Comp, "CircleOfConfusion")>>),
  D("ImageSize", <<Req({}, "ImageWidth")>>),
  D("LightValue", <<Req(Comp, "Aperture"), Req(Comp, "ShutterSpeed"), Req({}, "ISO")>>),
  D("Megapixels", <<Req(Comp, "ImageSize")>>),
  D("ScaleFactor35efl", <<Des({}, "FocalLength"), Des(Comp, "DigitalZoom"), Des({}, "ImageWidth")>>),
  D("ShutterSpeed", <<Des({}, "ExposureTime")>>),
  D("BlueBalance", <<Des({}, "WB_RGGBLevels")>>),
  D("RedBalance", <<Des({}, "WB_RGGBLevels")>>),
  SubDoc(D("GPSLatitude", <<Req({"GPS"}, "GPSLatitude")>>)),
  SubDoc(D("GPSLongitude", <<Req({"GPS"}, "GPSLongitude")>>)),
  D("FocusDistance", <<Req({"Sony"}, "FocusPosition"), Req({}, "FocalLength")>>),
  SubDoc(D("GPSLatitude", <<SonyReq("GPSLatitude")>>)),
  SubDoc(D("GPSLongitude", <<SonyReq("GPSLongitude")>>)) >>

Tag(d, g1, g0, n, p) ==
  [doc |-> d, family1 |-> g1, family0 |-> g0, name |-> n, priority |-> p, value |-> 0]

\* Groups of tags a file has or lacks together, in walk order.
Groups == <<
  <<Tag(0, "ExifIFD", "EXIF", "FNumber", 1), Tag(0, "ExifIFD", "EXIF", "ExposureTime", 1),
    Tag(0, "ExifIFD", "EXIF", "ISO", 1),
    Tag(0, "GPS", "EXIF", "GPSLatitude", 1), Tag(0, "GPS", "EXIF", "GPSLongitude", 1)>>,
  <<Tag(0, "ExifIFD", "EXIF", "FocalLength", 1)>>,
  <<Tag(0, "Canon", "MakerNotes", "CameraISO", 1),
    Tag(0, "Canon", "MakerNotes", "MinFocalLength", 0),
    Tag(0, "Canon", "MakerNotes", "WhiteBalance", 1)>>,
  <<Tag(0, "File", "File", "ImageWidth", 1)>>,
  <<Tag(0, "Sony", "MakerNotes", "FocusPosition", 1),
    Tag(1, "GPS", "Sony", "GPSLatitude", 1), Tag(1, "GPS", "Sony", "GPSLongitude", 1)>>,
  <<Tag(1, "GPS", "EXIF", "GPSLatitude", 1)>> >>

File(present) ==
  LET upto[n \in 0..Len(Groups)] ==
        IF n = 0 THEN <<>>
        ELSE IF n \in present THEN upto[n - 1] \o Groups[n] ELSE upto[n - 1]
  IN  upto[Len(Groups)]

RegistryCases ==
  {[order |-> RegistryOrder, file |-> File(present), sink |-> s] :
     present \in SUBSET DOMAIN Groups, s \in {"TagMap", "Vec"}}
=============================================================================
