---------------------------- MODULE MCAudioChain ----------------------------
EXTENDS AudioChain

V2Tag(len, size, footer, valid) == [len |-> len, size |-> size, footer |-> footer, valid |-> valid]

\* No ID3v2 tag, one in order with and without a footer, one with a bad header, one
\* that declares more than the file holds, and one that declares all of it.
V2Tags ==
  {V2Tag(Absent, 0, FALSE, FALSE), V2Tag(20, 10, FALSE, TRUE), V2Tag(30, 10, TRUE, TRUE),
   V2Tag(20, 10, FALSE, FALSE), V2Tag(300, 5000, FALSE, TRUE)}

File(v2, body, ape, enhanced, v1) ==
  [v2 |-> v2, body |-> body, ape |-> ape, enhanced |-> enhanced, v1 |-> v1]

\* Every combination of tags around every body, broken APE tags, and an ID3v2 tag
\* that covers the rest of the file.
SomeFiles ==
  {File(v2, body, ape, enhanced, v1) :
      v2 \in V2Tags, body \in Bodies, ape \in {Absent, 40}, enhanced \in BOOLEAN, v1 \in BOOLEAN}
    \cup {File(v2, body, ape, FALSE, TRUE) :
             v2 \in {V2Tag(20, 10, FALSE, TRUE), V2Tag(Absent, 0, FALSE, FALSE)},
             body \in {"mpeg", "MAC "}, ape \in {31, 80, 5000}}
    \cup {File(V2Tag(20, 218, footer, TRUE), body, 40, FALSE, TRUE) :
             footer \in BOOLEAN, body \in {"mpeg", "OggS"}}

Page(stream, num, bos, cont, eos, codec) ==
  [stream |-> stream, num |-> num, bos |-> bos, cont |-> cont, eos |-> eos, codec |-> codec]
SomePages ==
  {Page(s, 0, TRUE, FALSE, eos, codec) : s \in {1, 2}, eos \in BOOLEAN, codec \in {"opus", "other"}}
    \cup {Page(s, n, FALSE, TRUE, eos, "other") : s \in {1, 2}, n \in 1..2, eos \in BOOLEAN}
    \cup {Page(1, 0, TRUE, TRUE, FALSE, "other")}
    \cup {Page(s, n, FALSE, FALSE, FALSE, codec) :
            s \in {1, 2}, n \in 1..2, codec \in {"theora", "other"}}

\* Streams but the shortest stand in a file of their own, and are read first.
LongStreams ==
  pagesRead \notin {<<>>, <<Page(1, 0, TRUE, FALSE, TRUE, "opus")>>} \/ cut =>
    /\ file.v2.len = 20 /\ file.v1 /\ file.ape = Absent /\ ~file.enhanced
    /\ DOMAIN calls \subseteq {"OGG"} /\ sharing
=============================================================================
