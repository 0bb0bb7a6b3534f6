--------------------------- MODULE MCEventService ---------------------------
(***************************************************************************)
(* A small feed for EventService.  Titles are word sets; 6 of 7 shared     *)
(* words is the least overlap above the 0.85 threshold.                    *)
(*   a1, a2  one native item, delivered twice under fresh uuids            *)
(*   b1      a syndicated copy from another source: no native id, the      *)
(*           content and the independence group of a1                      *)
(*   c1      a third source, new content, a similar title, received at the *)
(*           edge of the window of a1; it arrives before or after b1       *)
(*   d1      c1's words and content in another category, from a source     *)
(*           that leaves the native id empty                               *)
(*   e1      a1's content received outside every window but c1's           *)
(*   f1      a1's words with other content, from d1's source and with an   *)
(*           empty native id too: a unique index refuses whichever of d1   *)
(*           and f1 comes second                                           *)
(***************************************************************************)
EXTENDS EventService

Words == 1 .. 7

Envelope(id, source, native, hash, tokens, category, received, group) ==
  [id |-> id, provider |-> "news", source |-> source, native |-> native,
   hash |-> hash, tokens |-> tokens, category |-> category,
   received |-> received, group |-> group]

MCEnvelopes ==
  {Envelope("a1", "issuer", "n1", "h1", Words, "earnings", 2, "release"),
   Envelope("a2", "issuer", "n1", "h1", Words, "earnings", 3, "release"),
   Envelope("b1", "wire", NoNative, "h1", Words, "earnings", 1, "release"),
   Envelope("c1", "paper", "n7", "h2", Words \ {7}, "earnings", 4, NoGroup),
   Envelope("d1", "filer", EmptyNative, "h2", Words \ {7}, "rates", 4, NoGroup),
   Envelope("e1", "agency", NoNative, "h1", Words, "earnings", 6, NoGroup),
   Envelope("f1", "filer", EmptyNative, "h3", Words, "earnings", 4, NoGroup)}
=============================================================================
